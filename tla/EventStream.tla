---------------------------- MODULE EventStream ----------------------------
(***************************************************************************)
(* What the event hub promises a client that follows it by cursor: the     *)
(* session has one log of events, numbered in the order of publication,    *)
(* and each client receives the log from its beginning, event after event, *)
(* whether it is connected or not when an event is published.  Replay,     *)
(* live fan-out, disconnects, delta batches and files do not show.         *)
(***************************************************************************)
EXTENDS Naturals

CONSTANTS Clients, Events

VARIABLES
    log,   \* the events published so far
    pos,   \* the cursor of each client
    got    \* the events each client has received

vars == <<log, pos, got>>

Init ==
    /\ log = {}
    /\ pos = [c \in Clients |-> 0]
    /\ got = [c \in Clients |-> {}]

(* A new event goes behind everything published before it.                 *)
Publish ==
    \E e \in Events :
        /\ \A f \in log : f.seq < e.seq
        /\ log' = log \cup {e}
        /\ UNCHANGED <<pos, got>>

(* Client c receives the next event after its cursor, and no other.        *)
Deliver(c) ==
    \E e \in log :
        /\ e.seq > pos[c]
        /\ \A f \in log : f.seq > pos[c] => e.seq <= f.seq
        /\ pos' = [pos EXCEPT ![c] = e.seq]
        /\ got' = [got EXCEPT ![c] = @ \cup {e}]
        /\ UNCHANGED log

Next == Publish \/ \E c \in Clients : Deliver(c)

Spec == Init /\ [][Next]_vars

=============================================================================
