-------------------------- MODULE MCControlPlane --------------------------
(***************************************************************************)
(* Instances of ControlPlane for TLC.                                      *)
(***************************************************************************)
EXTENDS ControlPlane, TLC

CONSTANTS o1, o2, o3, o4, c1, c2, n1, n2, i1, i2, k1, k2, s1

FourOps  == {o1, o2, o3, o4}
OneConn  == {c1}
TwoConns == {c1, c2}
TwoNames == {n1, n2}
TwoKeys  == {k1, k2}
TwoInputs == {i1, i2}

(* Both names reach the same runtime.                                      *)
Alias == [n \in Names |-> s1]

OneSession == {s1}

(* A connection attaches and submits, detaches, attaches again or commits; *)
(* another one takes over, or submits the same request under another name, *)
(* with another input, or another request.                                 *)
Crossing ==
    LET On(kind, c, n) == [kind : {kind}, conn : {c}, name : {n}, ctl : BOOLEAN]
        Start(c, n, k, i) == [kind |-> "start", conn |-> c, name |-> n, rid |-> k, input |-> i]
        Fenced(c, n)   == [kind : {"fenced"}, conn : {c}, name : {n}]
        Ctl(R)         == {r \in R : r.ctl}
    IN  (o1 :> Ctl(On("attach", c1, n1)))
          @@ (o2 :> Ctl(On("attach", c2, n1) \cup On("attach", c2, n2)))
          @@ (o3 :> {Start(c1, n1, k1, i1)} \cup Fenced(c1, n1) \cup On("attach", c1, n1)
                      \cup On("detach", c1, n1))
          @@ (o4 :> {Start(c2, n1, k1, i1), Start(c2, n1, k1, i2), Start(c2, n1, k2, i1),
                     Start(c2, n2, k1, i1)}
                      \cup Ctl(On("detach", c2, n1)))

=============================================================================
