----------------------------- MODULE MCEventHub -----------------------------
(***************************************************************************)
(* Instances of EventHub for TLC.                                          *)
(***************************************************************************)
EXTENDS EventHub, TLC

CONSTANTS d1, d2, c1

TwoDeltas == {d1, d2}
OneDelta  == {d1}
OneClient  == {c1}

NoOldJournal == {}

(* A journal of the build before merged batches: one delta window stored   *)
(* as a single string, and one line whose batch no longer decodes.         *)
OldDelta(d, n) == [seq |-> n, type |-> d, run |-> 0, epoch |-> 0]

OldBatch(payload, parts) ==
    {[from |-> 1, seq |-> 2, payload |-> payload, run |-> 0, parts |-> parts]}

DevJournals ==
    {OldBatch(p, {OldDelta(d, 2)}) : p \in {"legacy", "parts"}, d \in TwoDeltas}
        \cup {OldBatch("garbage", {})}

(* The model treats all types of deltas alike.                             *)
DeltaSymmetry == Permutations(TwoDeltas)

=============================================================================
