-------------------------- MODULE MCRunSupervisor --------------------------
(***************************************************************************)
(* Instances of RunSupervisor for TLC.                                     *)
(***************************************************************************)
EXTENDS RunSupervisor

CONSTANTS r1, r2, s1

TwoRuns    == {r1, r2}
OneSession == {s1}

=============================================================================
