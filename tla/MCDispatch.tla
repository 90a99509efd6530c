----------------------------- MODULE MCDispatch -----------------------------
(* A small instance of Dispatch for TLC. *)
EXTENDS Dispatch

CONSTANTS t1, c1, u1, u2

OneTask == {t1}
OneConn == {c1}
TwoReviewers == {u1, u2}
=============================================================================
