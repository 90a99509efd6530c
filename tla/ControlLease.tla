--------------------------- MODULE ControlLease ---------------------------
(***************************************************************************)
(* What the control plane promises about control of a session: at every    *)
(* instant at most one connection controls a name, a control operation     *)
(* takes effect only while its connection is that one, and a connection    *)
(* that is gone controls nothing and never will again.                     *)
(***************************************************************************)
EXTENDS FiniteSets

CONSTANTS Names, Conns, Ops, NoConn

VARIABLES
    holder,     \* who controls a name
    effected,   \* control operations that took effect
    gone        \* connections that have left

vars == <<holder, effected, gone>>

Init ==
    /\ holder = [n \in Names |-> NoConn]
    /\ effected = {}
    /\ gone = {}

(* Control is taken, also from somebody else.                              *)
Take(n, c) ==
    /\ c \notin gone
    /\ holder' = [holder EXCEPT ![n] = c]
    /\ UNCHANGED <<effected, gone>>

Drop(n) ==
    /\ holder' = [holder EXCEPT ![n] = NoConn]
    /\ UNCHANGED <<effected, gone>>

Effect(n, c, o) ==
    /\ holder[n] = c
    /\ effected' = effected \cup {<<n, c, o>>}
    /\ UNCHANGED <<holder, gone>>

Leave(c) ==
    /\ \A n \in Names : holder[n] # c
    /\ gone' = gone \cup {c}
    /\ UNCHANGED <<holder, effected>>

Next ==
    \/ \E n \in Names, c \in Conns : Take(n, c) \/ \E o \in Ops : Effect(n, c, o)
    \/ \E n \in Names : Drop(n)
    \/ \E c \in Conns : Leave(c)

Spec == Init /\ [][Next]_vars

=============================================================================
