------------------------ MODULE RunSupervisorProofs ------------------------
(***************************************************************************)
(* Proofs about RunSupervisor, for any number of runs and sessions and any *)
(* capacity of the queue and of the slots.                                 *)
(***************************************************************************)
EXTENDS RunSupervisor, FiniteSetTheorems, TLAPS

(* The number of runs whose goroutine stands at one of the labels in H.    *)
Count(f, H) == Cardinality({q \in Runs : f[q] \in H})

(* Moving one run to another label changes a count by at most one.         *)
LEMMA CountGoto ==
    ASSUME NEW H, NEW f \in [Runs -> Labels], NEW r \in Runs, NEW label \in Labels
    PROVE  LET g == [f EXCEPT ![r] = label]
           IN  /\ Count(f, H) \in Nat
               /\ f[r] \in H <=> label \in H => Count(g, H) = Count(f, H)
               /\ f[r] \notin H /\ label \in H => Count(g, H) = Count(f, H) + 1
               /\ f[r] \in H => Count(f, H) > 0
               /\ f[r] \in H /\ label \notin H => Count(g, H) = Count(f, H) - 1
<1> DEFINE g == [f EXCEPT ![r] = label]
           S == {q \in Runs : f[q] \in H}
           T == {q \in Runs : g[q] \in H}
<1>1. IsFiniteSet(S)
  BY FS_Subset, SupervisorAssumption
<1>2. Cardinality(S) \in Nat
  BY <1>1, FS_CardinalityType
<1>3. ASSUME f[r] \in H <=> label \in H PROVE T = S
  BY <1>3
<1>4. ASSUME f[r] \notin H, label \in H PROVE Cardinality(T) = Cardinality(S) + 1
  <2>1. T = S \cup {r} /\ r \notin S
    BY <1>4
  <2> QED BY <1>1, <2>1, FS_AddElement
<1>5. ASSUME f[r] \in H PROVE Cardinality(S) > 0
  <2>1. S # {}
    BY <1>5
  <2> QED BY <1>1, <1>2, <2>1, FS_EmptySet
<1>6. ASSUME f[r] \in H, label \notin H PROVE Cardinality(T) = Cardinality(S) - 1
  <2>1. T = S \ {r} /\ r \in S
    BY <1>6
  <2> QED BY <1>1, <2>1, FS_RemoveElement
<1> QED BY <1>2, <1>3, <1>4, <1>5, <1>6 DEF Count

-----------------------------------------------------------------------------
(* Type correctness needs the token counts: only they show that pending    *)
(* and runSlots, which are decremented without a test, never underflow.    *)

TypeInv == TypeOK /\ TokensConserved

(* What one move of run r has to do with the tokens to keep them counted.  *)
LEMMA MoveKeepsTokens ==
    ASSUME TypeInv, NEW r \in Runs, NEW label \in Labels, Goto(r, label),
           \/ (pc[r] \in HoldsPending <=> label \in HoldsPending) /\ pending' = pending
           \/ pc[r] \notin HoldsPending /\ label \in HoldsPending
                /\ pending < MaxPending /\ pending' = pending + 1
           \/ pc[r] \in HoldsPending /\ label \notin HoldsPending /\ pending' = pending - 1,
           \/ (pc[r] \in HoldsSlot <=> label \in HoldsSlot) /\ runSlots' = runSlots
           \/ pc[r] \notin HoldsSlot /\ label \in HoldsSlot
                /\ runSlots < MaxRunning /\ runSlots' = runSlots + 1
           \/ pc[r] \in HoldsSlot /\ label \notin HoldsSlot /\ runSlots' = runSlots - 1
    PROVE  /\ TokensConserved'
           /\ pc' \in [Runs -> Labels]
           /\ pending' \in 0..MaxPending
           /\ runSlots' \in 0..MaxRunning
<1>1. /\ pc \in [Runs -> Labels]
      /\ pending = Count(pc, HoldsPending) /\ pending \in 0..MaxPending
      /\ runSlots = Count(pc, HoldsSlot) /\ runSlots \in 0..MaxRunning
  BY DEF TypeInv, TypeOK, TokensConserved, Count
<1>2. pc' = [pc EXCEPT ![r] = label]
  BY DEF Goto
<1>3. pending' = Count(pc', HoldsPending) /\ pending' \in 0..MaxPending
  <2>1. /\ Count(pc, HoldsPending) \in Nat
        /\ pc[r] \in HoldsPending <=> label \in HoldsPending
               => Count(pc', HoldsPending) = Count(pc, HoldsPending)
        /\ pc[r] \notin HoldsPending /\ label \in HoldsPending
               => Count(pc', HoldsPending) = Count(pc, HoldsPending) + 1
        /\ pc[r] \in HoldsPending => Count(pc, HoldsPending) > 0
        /\ pc[r] \in HoldsPending /\ label \notin HoldsPending
               => Count(pc', HoldsPending) = Count(pc, HoldsPending) - 1
    BY ONLY <1>1, <1>2, CountGoto, r \in Runs, label \in Labels
  <2> QED BY <1>1, <2>1, SupervisorAssumption
<1>4. runSlots' = Count(pc', HoldsSlot) /\ runSlots' \in 0..MaxRunning
  <2>1. /\ Count(pc, HoldsSlot) \in Nat
        /\ pc[r] \in HoldsSlot <=> label \in HoldsSlot
               => Count(pc', HoldsSlot) = Count(pc, HoldsSlot)
        /\ pc[r] \notin HoldsSlot /\ label \in HoldsSlot
               => Count(pc', HoldsSlot) = Count(pc, HoldsSlot) + 1
        /\ pc[r] \in HoldsSlot => Count(pc, HoldsSlot) > 0
        /\ pc[r] \in HoldsSlot /\ label \notin HoldsSlot
               => Count(pc', HoldsSlot) = Count(pc, HoldsSlot) - 1
    BY ONLY <1>1, <1>2, CountGoto, r \in Runs, label \in Labels
  <2> QED BY <1>1, <2>1, SupervisorAssumption
<1> QED BY <1>1, <1>2, <1>3, <1>4 DEF TokensConserved, Count

(* Every step preserves the types and the token counts.                    *)
LEMMA TypeInvStep == TypeInv /\ [Next]_vars => TypeInv'
<1> SUFFICES ASSUME TypeInv, [Next]_vars PROVE TypeInv'
  OBVIOUS
<1> DEFINE TokensOK == /\ TokensConserved'
                       /\ pc' \in [Runs -> Labels]
                       /\ pending' \in 0..MaxPending
                       /\ runSlots' \in 0..MaxRunning
<1> USE DEF mgrVars, closeVars, rtVars, runVars
<1>1. ASSUME NEW r \in Runs, Lookup(r) PROVE TypeInv'
  <2>1. TokensOK
    BY <1>1, MoveKeepsTokens
       DEF Lookup, Labels, Launched, HoldsPending, HoldsSlot, HoldsGate, HoldsSession
  <2> QED BY <1>1, <2>1 DEF Lookup, TypeInv, TypeOK, RunStates, TerminalStates
<1>2. ASSUME NEW r \in Runs, ReservePending(r) PROVE TypeInv'
  <2>1. TokensOK
    BY <1>2, MoveKeepsTokens
       DEF ReservePending, Labels, Launched, HoldsPending, HoldsSlot, HoldsGate,
           HoldsSession, HasQueuePlace
  <2> QED BY <1>2, <2>1
      DEF ReservePending, TypeInv, TypeOK, RunStates, TerminalStates, HasQueuePlace
<1>3. ASSUME NEW r \in Runs, ReserveRun(r) PROVE TypeInv'
  <2>1. TokensOK
    BY <1>3, MoveKeepsTokens
       DEF ReserveRun, Labels, Launched, HoldsPending, HoldsSlot, HoldsGate, HoldsSession
  <2> QED BY <1>3, <2>1 DEF ReserveRun, TypeInv, TypeOK, RunStates, TerminalStates
<1>4. ASSUME NEW r \in Runs, BindEvents(r) PROVE TypeInv'
  <2>1. TokensOK
    BY <1>4, MoveKeepsTokens
       DEF BindEvents, Labels, Launched, HoldsPending, HoldsSlot, HoldsGate, HoldsSession,
           DropReservation, Fault
  <2> QED BY <1>4, <2>1
      DEF BindEvents, TypeInv, TypeOK, RunStates, TerminalStates, DropReservation, Fault
<1>5. ASSUME NEW r \in Runs, AppendQueued(r) PROVE TypeInv'
  <2>1. TokensOK
    BY <1>5, MoveKeepsTokens
       DEF AppendQueued, Labels, Launched, HoldsPending, HoldsSlot, HoldsGate,
           HoldsSession, DropReservation, Fault
  <2> QED BY <1>5, <2>1
      DEF AppendQueued, TypeInv, TypeOK, RunStates, TerminalStates, DropReservation, Fault
<1>6. ASSUME NEW r \in Runs, GiveBackPending(r) PROVE TypeInv'
  <2>1. TokensOK
    BY <1>6, MoveKeepsTokens
       DEF GiveBackPending, Labels, Launched, HoldsPending, HoldsSlot, HoldsGate, HoldsSession
  <2> QED BY <1>6, <2>1 DEF GiveBackPending, TypeInv, TypeOK, RunStates, TerminalStates
<1>7. ASSUME NEW r \in Runs, Launch(r) PROVE TypeInv'
  <2>1. TokensOK
    BY <1>7, MoveKeepsTokens
       DEF Launch, Labels, Launched, HoldsPending, HoldsSlot, HoldsGate, HoldsSession
  <2> QED BY <1>7, <2>1 DEF Launch, TypeInv, TypeOK, RunStates, TerminalStates
<1>8. ASSUME NEW r \in Runs, AcquireGate(r) PROVE TypeInv'
  <2>1. TokensOK
    BY <1>8, MoveKeepsTokens
       DEF AcquireGate, Labels, Launched, HoldsPending, HoldsSlot, HoldsGate, HoldsSession
  <2> QED BY <1>8, <2>1 DEF AcquireGate, TypeInv, TypeOK, RunStates, TerminalStates
<1>9. ASSUME NEW r \in Runs, GiveUpGate(r) PROVE TypeInv'
  <2>1. TokensOK
    BY <1>9, MoveKeepsTokens
       DEF GiveUpGate, Labels, Launched, HoldsPending, HoldsSlot, HoldsGate, HoldsSession
  <2> QED BY <1>9, <2>1 DEF GiveUpGate, TypeInv, TypeOK, RunStates, TerminalStates
<1>10. ASSUME NEW r \in Runs, AcquireSlot(r) PROVE TypeInv'
  <2>1. TokensOK
    BY <1>10, MoveKeepsTokens
       DEF AcquireSlot, Labels, Launched, HoldsPending, HoldsSlot, HoldsGate, HoldsSession
  <2> QED BY <1>10, <2>1 DEF AcquireSlot, TypeInv, TypeOK, RunStates, TerminalStates
<1>11. ASSUME NEW r \in Runs, GiveUpSlot(r) PROVE TypeInv'
  <2>1. TokensOK
    BY <1>11, MoveKeepsTokens
       DEF GiveUpSlot, Labels, Launched, HoldsPending, HoldsSlot, HoldsGate, HoldsSession
  <2> QED BY <1>11, <2>1 DEF GiveUpSlot, TypeInv, TypeOK, RunStates, TerminalStates
<1>12. ASSUME NEW r \in Runs, LeaveQueue(r) PROVE TypeInv'
  <2>1. TokensOK
    BY <1>12, MoveKeepsTokens
       DEF LeaveQueue, Labels, Launched, HoldsPending, HoldsSlot, HoldsGate, HoldsSession
  <2> QED BY <1>12, <2>1 DEF LeaveQueue, TypeInv, TypeOK, RunStates, TerminalStates
<1>13. ASSUME NEW r \in Runs, Dequeue(r) PROVE TypeInv'
  <2>1. TokensOK
    BY <1>13, MoveKeepsTokens
       DEF Dequeue, Labels, Launched, HoldsPending, HoldsSlot, HoldsGate, HoldsSession
  <2> QED BY <1>13, <2>1 DEF Dequeue, TypeInv, TypeOK, RunStates, TerminalStates
<1>14. ASSUME NEW r \in Runs, StartRunning(r) PROVE TypeInv'
  <2>1. TokensOK
    BY <1>14, MoveKeepsTokens
       DEF StartRunning, Labels, Launched, HoldsPending, HoldsSlot, HoldsGate, HoldsSession
  <2>2. journal' \in [Runs -> RunStates \cup {"none"}] /\ faults' \in Nat
    BY <1>14 DEF StartRunning, TypeInv, TypeOK, RunStates, WaitStates, JournalState, Fault
  <2> QED BY <1>14, <2>1, <2>2 DEF StartRunning, TypeInv, TypeOK, RunStates
<1>15. ASSUME NEW r \in Runs, ReturnFromRun(r) PROVE TypeInv'
  <2>1. TokensOK
    BY <1>15, MoveKeepsTokens
       DEF ReturnFromRun, Labels, Launched, HoldsPending, HoldsSlot, HoldsGate, HoldsSession
  <2> QED BY <1>15, <2>1 DEF ReturnFromRun, TypeInv, TypeOK, RunStates, TerminalStates
<1>16. ASSUME NEW r \in Runs, JournalTerminal(r) PROVE TypeInv'
  <2>1. TokensOK
    BY <1>16, MoveKeepsTokens
       DEF JournalTerminal, Labels, Launched, HoldsPending, HoldsSlot, HoldsGate,
           HoldsSession, JournalState, Fault
  <2> QED BY <1>16, <2>1
      DEF JournalTerminal, TypeInv, TypeOK, RunStates, TerminalStates, JournalState, Fault
<1>17. ASSUME NEW r \in Runs, ClearActive(r) PROVE TypeInv'
  <2>1. TokensOK
    BY <1>17, MoveKeepsTokens
       DEF ClearActive, Labels, Launched, HoldsPending, HoldsSlot, HoldsGate, HoldsSession
  <2> QED BY <1>17, <2>1 DEF ClearActive, TypeInv, TypeOK, RunStates, TerminalStates
<1>18. ASSUME NEW r \in Runs, Finish(r) PROVE TypeInv'
  <2>1. TokensOK
    BY <1>18, MoveKeepsTokens
       DEF Finish, Labels, Launched, HoldsPending, HoldsSlot, HoldsGate, HoldsSession
  <2> QED BY <1>18, <2>1 DEF Finish, TypeInv, TypeOK, RunStates, TerminalStates
<1>19. ASSUME NEW r \in Runs, FreeSlot(r) PROVE TypeInv'
  <2>1. TokensOK
    BY <1>19, MoveKeepsTokens
       DEF FreeSlot, Labels, Launched, HoldsPending, HoldsSlot, HoldsGate, HoldsSession
  <2> QED BY <1>19, <2>1 DEF FreeSlot, TypeInv, TypeOK, RunStates, TerminalStates
<1>20. ASSUME NEW r \in Runs, FreeGate(r) PROVE TypeInv'
  <2>1. TokensOK
    BY <1>20, MoveKeepsTokens
       DEF FreeGate, Labels, Launched, HoldsPending, HoldsSlot, HoldsGate, HoldsSession
  <2> QED BY <1>20, <2>1 DEF FreeGate, TypeInv, TypeOK, RunStates, TerminalStates
<1>21. ASSUME NEW r \in Runs, BeginWait(r) PROVE TypeInv'
  BY <1>21
     DEF BeginWait, TypeInv, TypeOK, TokensConserved, RunStates, WaitStates, JournalState, Fault
<1>22. ASSUME NEW r \in Runs, EndWait(r) PROVE TypeInv'
  BY <1>22 DEF EndWait, TypeInv, TypeOK, TokensConserved, RunStates, WaitStates
<1>23. ASSUME NEW r \in Runs, CancelRun(r) PROVE TypeInv'
  BY <1>23 DEF CancelRun, TypeInv, TypeOK, TokensConserved, RunStates
<1>24. ASSUME NEW s \in Sessions, SyncAcquire(s) PROVE TypeInv'
  BY <1>24 DEF SyncAcquire, TypeInv, TypeOK, TokensConserved
<1>25. ASSUME NEW s \in Sessions, SyncRelease(s) PROVE TypeInv'
  BY <1>25 DEF SyncRelease, TypeInv, TypeOK, TokensConserved
<1>26. ASSUME NEW s \in Sessions, Register(s) PROVE TypeInv'
  BY <1>26 DEF Register, TypeInv, TypeOK, TokensConserved
<1>27. ASSUME NEW s \in Sessions, Archive(s) PROVE TypeInv'
  BY <1>27 DEF Archive, TypeInv, TypeOK, TokensConserved
<1>28. ASSUME NEW s \in Sessions, Retire(s) PROVE TypeInv'
  BY <1>28 DEF Retire, TypeInv, TypeOK, TokensConserved
<1>29. ASSUME NEW s \in Sessions, Remove(s) PROVE TypeInv'
  BY <1>29 DEF Remove, TypeInv, TypeOK, TokensConserved
<1>30. ASSUME NEW s \in Sessions, CloseReleasedEvents(s) PROVE TypeInv'
  BY <1>30 DEF CloseReleasedEvents, TypeInv, TypeOK, TokensConserved
<1>31. ASSUME NEW s \in Sessions, CloseLook(s) PROVE TypeInv'
  BY <1>31 DEF CloseLook, TypeInv, TypeOK, TokensConserved
<1>32. ASSUME CloseBegin PROVE TypeInv'
  BY <1>32, SupervisorAssumption DEF CloseBegin, TypeInv, TypeOK, TokensConserved
<1>33. ASSUME CloseCancel PROVE TypeInv'
  BY <1>33, SupervisorAssumption DEF CloseCancel, TypeInv, TypeOK, TokensConserved
<1>34. ASSUME CloseWait PROVE TypeInv'
  BY <1>34, SupervisorAssumption DEF CloseWait, TypeInv, TypeOK, TokensConserved
<1>35. ASSUME CloseHubs PROVE TypeInv'
  BY <1>35, SupervisorAssumption DEF CloseHubs, TypeInv, TypeOK, TokensConserved
<1>36. ASSUME CloseReturn PROVE TypeInv'
  BY <1>36, SupervisorAssumption DEF CloseReturn, TypeInv, TypeOK, TokensConserved
<1>37. ASSUME UNCHANGED vars PROVE TypeInv'
  BY <1>37 DEF vars, TypeInv, TypeOK, TokensConserved
<1> QED
  BY <1>1, <1>2, <1>3, <1>4, <1>5, <1>6, <1>7, <1>8, <1>9, <1>10, <1>11, <1>12, <1>13,
     <1>14, <1>15, <1>16, <1>17, <1>18, <1>19, <1>20, <1>21, <1>22, <1>23, <1>24, <1>25,
     <1>26, <1>27, <1>28, <1>29, <1>30, <1>31, <1>32, <1>33, <1>34, <1>35, <1>36, <1>37
     DEF Next, Advance, SessionStep, CloseStep

-----------------------------------------------------------------------------
(* The gate and the active run of a session belong to the run at whose     *)
(* place they were taken; every step keeps it that way.                    *)
LEMMA OwnershipStep == TypeInv /\ OwnershipExact /\ [Next]_vars => OwnershipExact'
<1> SUFFICES ASSUME TypeInv, OwnershipExact, [Next]_vars PROVE OwnershipExact'
  OBVIOUS
<1> USE SupervisorAssumption
    DEF TypeInv, TypeOK, OwnershipExact, HoldsGate, HoldsSlot, HoldsSession, Goto,
        mgrVars, closeVars, rtVars, runVars
<1>1. ASSUME NEW r \in Runs, Lookup(r) PROVE OwnershipExact'
  BY <1>1 DEF Lookup
<1>2. ASSUME NEW r \in Runs, ReservePending(r) PROVE OwnershipExact'
  BY <1>2 DEF ReservePending
<1>3. ASSUME NEW r \in Runs, ReserveRun(r) PROVE OwnershipExact'
  BY <1>3 DEF ReserveRun, Admits
<1>4. ASSUME NEW r \in Runs, BindEvents(r) PROVE OwnershipExact'
  BY <1>4 DEF BindEvents, DropReservation
<1>5. ASSUME NEW r \in Runs, AppendQueued(r) PROVE OwnershipExact'
  BY <1>5 DEF AppendQueued, DropReservation
<1>6. ASSUME NEW r \in Runs, GiveBackPending(r) PROVE OwnershipExact'
  BY <1>6 DEF GiveBackPending
<1>7. ASSUME NEW r \in Runs, Launch(r) PROVE OwnershipExact'
  BY <1>7 DEF Launch
<1>8. ASSUME NEW r \in Runs, AcquireGate(r) PROVE OwnershipExact'
  BY <1>8 DEF AcquireGate
<1>9. ASSUME NEW r \in Runs, GiveUpGate(r) PROVE OwnershipExact'
  BY <1>9 DEF GiveUpGate
<1>10. ASSUME NEW r \in Runs, AcquireSlot(r) PROVE OwnershipExact'
  BY <1>10 DEF AcquireSlot
<1>11. ASSUME NEW r \in Runs, GiveUpSlot(r) PROVE OwnershipExact'
  BY <1>11 DEF GiveUpSlot
<1>12. ASSUME NEW r \in Runs, LeaveQueue(r) PROVE OwnershipExact'
  BY <1>12 DEF LeaveQueue
<1>13. ASSUME NEW r \in Runs, Dequeue(r) PROVE OwnershipExact'
  BY <1>13 DEF Dequeue
<1>14. ASSUME NEW r \in Runs, StartRunning(r) PROVE OwnershipExact'
  BY <1>14 DEF StartRunning
<1>15. ASSUME NEW r \in Runs, ReturnFromRun(r) PROVE OwnershipExact'
  BY <1>15 DEF ReturnFromRun
<1>16. ASSUME NEW r \in Runs, JournalTerminal(r) PROVE OwnershipExact'
  BY <1>16 DEF JournalTerminal
<1>17. ASSUME NEW r \in Runs, ClearActive(r) PROVE OwnershipExact'
  BY <1>17 DEF ClearActive
<1>18. ASSUME NEW r \in Runs, Finish(r) PROVE OwnershipExact'
  BY <1>18 DEF Finish
<1>19. ASSUME NEW r \in Runs, FreeSlot(r) PROVE OwnershipExact'
  BY <1>19 DEF FreeSlot
<1>20. ASSUME NEW r \in Runs, FreeGate(r) PROVE OwnershipExact'
  BY <1>20 DEF FreeGate
<1>21. ASSUME NEW r \in Runs, BeginWait(r) PROVE OwnershipExact'
  BY <1>21 DEF BeginWait
<1>22. ASSUME NEW r \in Runs, EndWait(r) PROVE OwnershipExact'
  BY <1>22 DEF EndWait
<1>23. ASSUME NEW r \in Runs, CancelRun(r) PROVE OwnershipExact'
  BY <1>23 DEF CancelRun
<1>24. ASSUME NEW s \in Sessions, SyncAcquire(s) PROVE OwnershipExact'
  BY <1>24 DEF SyncAcquire
<1>25. ASSUME NEW s \in Sessions, SyncRelease(s) PROVE OwnershipExact'
  BY <1>25 DEF SyncRelease
<1>26. ASSUME NEW s \in Sessions, Register(s) PROVE OwnershipExact'
  BY <1>26 DEF Register
<1>27. ASSUME NEW s \in Sessions, Archive(s) PROVE OwnershipExact'
  BY <1>27 DEF Archive
<1>28. ASSUME NEW s \in Sessions, Retire(s) PROVE OwnershipExact'
  BY <1>28 DEF Retire
<1>29. ASSUME NEW s \in Sessions, Remove(s) PROVE OwnershipExact'
  BY <1>29 DEF Remove
<1>30. ASSUME NEW s \in Sessions, CloseReleasedEvents(s) PROVE OwnershipExact'
  BY <1>30 DEF CloseReleasedEvents
<1>31. ASSUME NEW s \in Sessions, CloseLook(s) PROVE OwnershipExact'
  BY <1>31 DEF CloseLook
<1>32. ASSUME CloseBegin PROVE OwnershipExact'
  BY <1>32 DEF CloseBegin
<1>33. ASSUME CloseCancel PROVE OwnershipExact'
  BY <1>33 DEF CloseCancel
<1>34. ASSUME CloseWait PROVE OwnershipExact'
  BY <1>34 DEF CloseWait
<1>35. ASSUME CloseHubs PROVE OwnershipExact'
  BY <1>35 DEF CloseHubs
<1>36. ASSUME CloseReturn PROVE OwnershipExact'
  BY <1>36 DEF CloseReturn
<1>37. ASSUME UNCHANGED vars PROVE OwnershipExact'
  BY <1>37 DEF vars
<1> QED
  BY <1>1, <1>2, <1>3, <1>4, <1>5, <1>6, <1>7, <1>8, <1>9, <1>10, <1>11, <1>12, <1>13,
     <1>14, <1>15, <1>16, <1>17, <1>18, <1>19, <1>20, <1>21, <1>22, <1>23, <1>24, <1>25,
     <1>26, <1>27, <1>28, <1>29, <1>30, <1>31, <1>32, <1>33, <1>34, <1>35, <1>36, <1>37
     DEF Next, Advance, SessionStep, CloseStep

-----------------------------------------------------------------------------
(* The way of a run to its terminal state.  What was decided when          *)
(* Session.Run returned is on disk before the session is freed, in memory  *)
(* when done is closed, and nothing touches it afterwards.                 *)

Decided == {"journal", "journalEarly", "clear", "clearEarly", "finish", "finishEarly",
            "freeSlot", "freeGate", "over"}

Recorded == Decided \ {"journal", "journalEarly"}

Settled == {"freeSlot", "freeGate", "over"}

StageInv ==
    \A r \in Runs :
        /\ done[r] <=> pc[r] \in Settled
        /\ pc[r] \in Decided => result[r] \in TerminalStates
        /\ pc[r] \in Recorded => journal[r] = result[r] \/ faults > 0
        /\ done[r] => state[r] = result[r]
        /\ pc[r] \in Launched \cup {"accepted"} => journal[r] # "none"

(* Every step keeps the run records in line with the place of the run.     *)
LEMMA StageStep == TypeInv /\ StageInv /\ [Next]_vars => StageInv'
<1> SUFFICES ASSUME TypeInv, StageInv, [Next]_vars PROVE StageInv'
  OBVIOUS
<1> USE SupervisorAssumption
    DEF TypeInv, TypeOK, StageInv, Decided, Recorded, Settled, Launched, HoldsSession,
        TerminalStates, RunStates, WaitStates, Goto, mgrVars, closeVars, rtVars, runVars
<1>1. ASSUME NEW r \in Runs, Lookup(r) \/ ReservePending(r) \/ ReserveRun(r) \/ BindEvents(r)
      PROVE  StageInv'
  BY <1>1 DEF Lookup, ReservePending, ReserveRun, BindEvents, DropReservation, Fault
<1>2. ASSUME NEW r \in Runs, AppendQueued(r) PROVE StageInv'
  BY <1>2 DEF AppendQueued, DropReservation, Fault
<1>3. ASSUME NEW r \in Runs, GiveBackPending(r) \/ Launch(r) \/ AcquireGate(r) \/ GiveUpGate(r)
      PROVE  StageInv'
  BY <1>3 DEF GiveBackPending, Launch, AcquireGate, GiveUpGate
<1>4. ASSUME NEW r \in Runs, AcquireSlot(r) \/ GiveUpSlot(r) \/ Dequeue(r) PROVE StageInv'
  BY <1>4 DEF AcquireSlot, GiveUpSlot, Dequeue
<1>5. ASSUME NEW r \in Runs, LeaveQueue(r) \/ ReturnFromRun(r) PROVE StageInv'
  BY <1>5 DEF LeaveQueue, ReturnFromRun
<1>6. ASSUME NEW r \in Runs, StartRunning(r) PROVE StageInv'
  BY <1>6 DEF StartRunning, JournalState, Fault
<1>7. ASSUME NEW r \in Runs, BeginWait(r) \/ EndWait(r) PROVE StageInv'
  BY <1>7 DEF BeginWait, EndWait, JournalState, Fault
<1>8. ASSUME NEW r \in Runs, JournalTerminal(r) PROVE StageInv'
  BY <1>8 DEF JournalTerminal, JournalState, Fault
<1>9. ASSUME NEW r \in Runs, ClearActive(r) \/ Finish(r) PROVE StageInv'
  BY <1>9 DEF ClearActive, Finish
<1>10. ASSUME NEW r \in Runs, FreeSlot(r) \/ FreeGate(r) \/ CancelRun(r) PROVE StageInv'
  BY <1>10 DEF FreeSlot, FreeGate, CancelRun
<1>11. ASSUME NEW s \in Sessions, SessionStep(s) \/ CloseLook(s) PROVE StageInv'
  BY <1>11 DEF SessionStep, SyncAcquire, SyncRelease, Register, Archive, Retire, Remove,
               CloseReleasedEvents, CloseLook
<1>12. ASSUME CloseBegin \/ CloseCancel \/ CloseWait \/ CloseHubs \/ CloseReturn PROVE StageInv'
  BY <1>12 DEF CloseBegin, CloseCancel, CloseWait, CloseHubs, CloseReturn
<1>13. ASSUME UNCHANGED vars PROVE StageInv'
  BY <1>13 DEF vars
<1> QED
  BY <1>1, <1>2, <1>3, <1>4, <1>5, <1>6, <1>7, <1>8, <1>9, <1>10, <1>11, <1>12, <1>13
     DEF Next, Advance, CloseStep

-----------------------------------------------------------------------------
(* Retire and Archive are refused while a run is active, and reserveRun is *)
(* refused afterwards, so a session closed to runs stays without one.      *)
ClosedToRuns == \A s \in Sessions : retired[s] \/ archived[s] => active[s] = NoRun

(* Every step keeps a session that is closed to runs without one.          *)
LEMMA ClosedToRunsStep == TypeInv /\ ClosedToRuns /\ [Next]_vars => ClosedToRuns'
<1> SUFFICES ASSUME TypeInv, ClosedToRuns, [Next]_vars PROVE ClosedToRuns'
  OBVIOUS
<1> USE SupervisorAssumption
    DEF TypeInv, TypeOK, ClosedToRuns, mgrVars, closeVars, rtVars, runVars
<1>1. ASSUME NEW r \in Runs, ReserveRun(r) PROVE ClosedToRuns'
  BY <1>1 DEF ReserveRun, Admits
<1>2. ASSUME NEW r \in Runs, BindEvents(r) \/ AppendQueued(r) \/ ClearActive(r)
      PROVE  ClosedToRuns'
  BY <1>2 DEF BindEvents, AppendQueued, ClearActive, DropReservation
<1>3. ASSUME NEW s \in Sessions, Archive(s) \/ Retire(s) PROVE ClosedToRuns'
  BY <1>3 DEF Archive, Retire
<1>4. ASSUME UNCHANGED <<active, retired, archived>> PROVE ClosedToRuns'
  BY <1>4
<1>5. ASSUME NEW r \in Runs,
             Lookup(r) \/ Advance(r) \/ AcquireGate(r) \/ AcquireSlot(r)
                \/ BeginWait(r) \/ ReturnFromRun(r) \/ CancelRun(r)
      PROVE  ClosedToRuns'
  BY <1>1, <1>2, <1>4, <1>5
     DEF Advance, Lookup, AcquireGate, AcquireSlot, BeginWait, ReturnFromRun, CancelRun,
         ReservePending, GiveBackPending, Launch, GiveUpGate, GiveUpSlot, LeaveQueue, Dequeue,
         StartRunning, EndWait, JournalTerminal, Finish, FreeSlot, FreeGate
<1>6. ASSUME NEW s \in Sessions, SessionStep(s) PROVE ClosedToRuns'
  BY <1>3, <1>4, <1>6
     DEF SessionStep, SyncAcquire, SyncRelease, Register, Remove, CloseReleasedEvents
<1>7. ASSUME CloseBegin \/ CloseStep PROVE ClosedToRuns'
  BY <1>4, <1>7
     DEF CloseBegin, CloseStep, CloseCancel, CloseLook, CloseWait, CloseHubs, CloseReturn
<1>8. ASSUME UNCHANGED vars PROVE ClosedToRuns'
  BY <1>4, <1>8 DEF vars
<1> QED BY <1>5, <1>6, <1>7, <1>8 DEF Next

-----------------------------------------------------------------------------
(* The progress of Close: a run that held a session when Close took its    *)
(* copy holds it still only while its session is to be looked at or Close  *)
(* waits for it.                                                           *)
CloseInv ==
    /\ closePc = "none" => atClose = {}
    /\ closePc \in {"clearing", "returned"} => toCheck = {} /\ awaited = NoRun
    /\ closed <=> closePc # "none"
    /\ \A r \in atClose :
          /\ pc[r] \notin {"idle", "found", "counted"}
          /\ pc[r] \in HoldsSession => sess[r] \in toCheck \/ awaited = r

(* Every step keeps what Close has still to wait for.                      *)
LEMMA CloseInvStep ==
    TypeInv /\ OwnershipExact /\ StageInv /\ CloseInv /\ [Next]_vars => CloseInv'
<1> SUFFICES ASSUME TypeInv, OwnershipExact, StageInv, CloseInv, [Next]_vars PROVE CloseInv'
  OBVIOUS
<1> USE SupervisorAssumption
    DEF TypeInv, TypeOK, CloseInv, HoldsSession, mgrVars, closeVars, rtVars, runVars
<1>1. ASSUME CloseBegin PROVE CloseInv'
  BY <1>1 DEF CloseBegin, OwnershipExact
<1>2. ASSUME NEW s \in Sessions, CloseLook(s) PROVE CloseInv'
  BY <1>2 DEF CloseLook, OwnershipExact
<1>3. ASSUME CloseWait PROVE CloseInv'
  BY <1>3 DEF CloseWait, StageInv, Settled
<1>4. ASSUME CloseCancel \/ CloseHubs \/ CloseReturn PROVE CloseInv'
  BY <1>4 DEF CloseCancel, CloseHubs, CloseReturn
<1>5. ASSUME NEW r \in Runs, Lookup(r) \/ ReservePending(r) \/ ReserveRun(r) \/ BindEvents(r)
      PROVE  CloseInv'
  BY <1>5 DEF Lookup, ReservePending, ReserveRun, BindEvents, DropReservation, Goto
<1>6. ASSUME NEW r \in Runs, AppendQueued(r) \/ GiveBackPending(r) \/ Launch(r) PROVE CloseInv'
  BY <1>6 DEF AppendQueued, GiveBackPending, Launch, DropReservation, Goto
<1>7. ASSUME NEW r \in Runs, AcquireGate(r) \/ GiveUpGate(r) \/ AcquireSlot(r) \/ GiveUpSlot(r)
      PROVE  CloseInv'
  BY <1>7 DEF AcquireGate, GiveUpGate, AcquireSlot, GiveUpSlot, Goto
<1>8. ASSUME NEW r \in Runs, LeaveQueue(r) \/ Dequeue(r) \/ StartRunning(r) \/ ReturnFromRun(r)
      PROVE  CloseInv'
  BY <1>8 DEF LeaveQueue, Dequeue, StartRunning, ReturnFromRun, Goto
<1>9. ASSUME NEW r \in Runs, JournalTerminal(r) \/ ClearActive(r) \/ Finish(r) PROVE CloseInv'
  BY <1>9 DEF JournalTerminal, ClearActive, Finish, Goto
<1>10. ASSUME NEW r \in Runs, FreeSlot(r) \/ FreeGate(r) PROVE CloseInv'
  BY <1>10 DEF FreeSlot, FreeGate, Goto
<1>11. ASSUME NEW r \in Runs, BeginWait(r) \/ EndWait(r) \/ CancelRun(r)
       PROVE  CloseInv'
  BY <1>11 DEF BeginWait, EndWait, CancelRun
<1>12. ASSUME NEW s \in Sessions, SessionStep(s) PROVE CloseInv'
  BY <1>12 DEF SessionStep, SyncAcquire, SyncRelease, Register, Archive, Retire, Remove,
               CloseReleasedEvents
<1>13. ASSUME UNCHANGED vars PROVE CloseInv'
  BY <1>13 DEF vars
<1> QED
  BY <1>1, <1>2, <1>3, <1>4, <1>5, <1>6, <1>7, <1>8, <1>9, <1>10, <1>11, <1>12, <1>13
     DEF Next, Advance, CloseStep

-----------------------------------------------------------------------------
(* The inductive invariant and what follows from it.                       *)

Inv == TypeInv /\ OwnershipExact /\ StageInv /\ ClosedToRuns /\ CloseInv

(* The initial states satisfy the inductive invariant.                     *)
LEMMA InvInit == Init => Inv
<1> SUFFICES ASSUME Init PROVE Inv
  OBVIOUS
<1> USE SupervisorAssumption
    DEF Init, HoldsPending, HoldsSlot, HoldsGate, HoldsSession, Launched, Labels,
        TerminalStates, RunStates, WaitStates, Decided, Recorded, Settled
<1>1. TypeOK
  <2>1. pc \in [Runs -> Labels] /\ pending \in 0..MaxPending /\ runSlots \in 0..MaxRunning
    OBVIOUS
  <2>2. /\ state \in [Runs -> RunStates]
        /\ result \in [Runs -> TerminalStates \cup {"queued"}]
        /\ journal \in [Runs -> RunStates \cup {"none"}]
        /\ hub \in [Sessions -> {"none", "open", "closed"}]
    OBVIOUS
  <2> HIDE DEF Labels, RunStates, WaitStates, TerminalStates
  <2> QED BY <2>1, <2>2 DEF TypeOK
<1>2. TokensConserved
  <2>1. {r \in Runs : pc[r] \in HoldsPending} = {} /\ {r \in Runs : pc[r] \in HoldsSlot} = {}
    OBVIOUS
  <2> QED BY <2>1, FS_EmptySet DEF TokensConserved
<1>3. OwnershipExact /\ StageInv /\ ClosedToRuns /\ CloseInv
  BY DEF OwnershipExact, StageInv, ClosedToRuns, CloseInv
<1> QED BY <1>1, <1>2, <1>3 DEF Inv, TypeInv

(* Every step preserves the inductive invariant.                           *)
LEMMA InvStep == Inv /\ [Next]_vars => Inv'
  BY TypeInvStep, OwnershipStep, StageStep, ClosedToRunsStep, CloseInvStep DEF Inv

(* The inductive invariant of the supervisor, from which the theorems      *)
(* below about admission, release, retirement and Close follow.            *)
THEOREM Invariance == Spec => []Inv
  BY InvInit, InvStep, PTL DEF Spec

(* Type correctness, the bounds 0..MaxPending and 0..MaxRunning of the     *)
(* unguarded decrements of pending and runSlots included.                  *)
THEOREM TypeCorrect == Spec => []TypeOK
<1>1. Inv => TypeOK
  BY DEF Inv, TypeInv
<1> QED BY <1>1, Invariance, PTL

(* The release matrix of execute returns each token exactly once.          *)
THEOREM TokensAreConserved == Spec => []TokensConserved
<1>1. Inv => TokensConserved
  BY DEF Inv, TypeInv
<1> QED BY <1>1, Invariance, PTL

(* Gate and active run have exactly one owner, the run that took them.     *)
THEOREM OwnershipIsExact == Spec => []OwnershipExact
<1>1. Inv => OwnershipExact
  BY DEF Inv
<1> QED BY <1>1, Invariance, PTL

(* Runs and maintenance commands of a session exclude each other.          *)
THEOREM SessionsAreSerial == Spec => []SessionIsSerial
<1>1. Inv => SessionIsSerial
  BY SupervisorAssumption DEF Inv, TypeInv, TypeOK, OwnershipExact, SessionIsSerial
<1> QED BY <1>1, Invariance, PTL

(* A waiter woken by done finds the terminal state settled and the session *)
(* free.                                                                   *)
THEOREM DoneIsSettled == Spec => []DoneMeansSettled
<1>1. Inv => DoneMeansSettled
  BY DEF Inv, TypeInv, TypeOK, OwnershipExact, StageInv, DoneMeansSettled, Decided, Recorded,
         Settled, HoldsSession
<1> QED BY <1>1, Invariance, PTL

(* A launched run has a journal file.                                      *)
THEOREM AcceptanceIsDurable == Spec => []AcceptedIsDurable
<1>1. Inv => AcceptedIsDurable
  BY DEF Inv, StageInv, AcceptedIsDurable
<1> QED BY <1>1, Invariance, PTL

(* A retired or archived session has no run in it.                         *)
THEOREM RetiredSessionsAreQuiet == Spec => []RetiredIsQuiet
<1>1. Inv => RetiredIsQuiet
  BY SupervisorAssumption
     DEF Inv, TypeInv, TypeOK, OwnershipExact, ClosedToRuns, RetiredIsQuiet
<1> QED BY <1>1, Invariance, PTL

(* Close has waited for every run that held a session at its start.        *)
THEOREM CloseWaitsForSnapshot == Spec => []CloseAwaitsSnapshot
<1>1. Inv => CloseAwaitsSnapshot
  BY SupervisorAssumption DEF Inv, TypeInv, TypeOK, CloseInv, CloseAwaitsSnapshot
<1> QED BY <1>1, Invariance, PTL

(* A terminal state is final: the steps that write a run's state belong to *)
(* places its goroutine has left for good.                                 *)
THEOREM TerminalStatesAreFinal == Spec => TerminalIsFinal
<1>1. Inv /\ [Next]_vars
        => [\A r \in Runs : done[r] => done'[r] /\ state'[r] = state[r]]_vars
  <2> SUFFICES ASSUME Inv, Next, NEW r \in Runs, done[r]
               PROVE  done'[r] /\ state'[r] = state[r]
    BY DEF vars, mgrVars, closeVars, rtVars, runVars
  <2>1. /\ pc[r] \in Settled
        /\ done \in [Runs -> BOOLEAN] /\ state \in [Runs -> RunStates]
    BY DEF Inv, TypeInv, TypeOK, StageInv
  <2>2. ASSUME NEW q \in Runs,
               StartRunning(q) \/ BeginWait(q) \/ EndWait(q) \/ Finish(q)
        PROVE  done'[r] /\ state'[r] = state[r]
    BY <2>1, <2>2
       DEF Settled, StartRunning, BeginWait, EndWait, Finish, runVars
  <2>3. ASSUME UNCHANGED <<state, done>> PROVE done'[r] /\ state'[r] = state[r]
    BY <2>3
  <2>4. ASSUME NEW q \in Runs,
               Lookup(q) \/ Advance(q) \/ AcquireGate(q) \/ AcquireSlot(q)
                  \/ BeginWait(q) \/ ReturnFromRun(q) \/ CancelRun(q)
        PROVE  done'[r] /\ state'[r] = state[r]
    BY <2>2, <2>3, <2>4
       DEF Advance, Lookup, AcquireGate, AcquireSlot, ReturnFromRun, CancelRun, ReservePending,
           ReserveRun, BindEvents, AppendQueued, GiveBackPending, Launch, GiveUpGate, GiveUpSlot,
           LeaveQueue, Dequeue, JournalTerminal, ClearActive, FreeSlot, FreeGate, runVars
  <2>5. ASSUME NEW s \in Sessions, SessionStep(s) PROVE done'[r] /\ state'[r] = state[r]
    BY <2>3, <2>5
       DEF SessionStep, SyncAcquire, SyncRelease, Register, Archive, Retire, Remove,
           CloseReleasedEvents, runVars
  <2>6. ASSUME CloseBegin \/ CloseStep PROVE done'[r] /\ state'[r] = state[r]
    BY <2>3, <2>6
       DEF CloseBegin, CloseStep, CloseCancel, CloseLook, CloseWait, CloseHubs,
           CloseReturn, runVars
  <2> QED BY <2>4, <2>5, <2>6 DEF Next
<1> QED BY <1>1, Invariance, PTL DEF Spec, TerminalIsFinal

=============================================================================
