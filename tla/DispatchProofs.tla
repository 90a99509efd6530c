--------------------------- MODULE DispatchProofs ---------------------------
(***************************************************************************)
(* Proofs about Dispatch, for any number of tasks, connections, reviewers, *)
(* restarts and appends that do not complete.                              *)
(***************************************************************************)
EXTENDS Dispatch, SequenceTheorems, TLAPS

(* The status of a snapshot that is there.                                 *)
Has(s, states) == s # NoTask /\ s.status \in states

ResumableStates == {"queued", "dispatching", "working"}
ReviewedStates == {"awaiting_review", "merging", "done", "rejected"}
OverStates == ReviewedStates \cup {"failed", "cancelled"}

(* A registered run is one that has begun and not ended; a task is stored  *)
(* by its run, so a run that has not begun has none; once its record says  *)
(* that somebody reviews it the run is over but for its exit.  A status    *)
(* that is still to be announced completes the task if its record does.    *)
RegistryOf(t) ==
    /\ t \in running <=> run[t].pc \notin {"none", "admitted", "ended"}
    /\ run[t].pc \in {"none", "admitted"} => mem[t] = NoTask
    /\ run[t].note # <<>> => mem[t] # NoTask /\ run[t].pc # "ended"
    /\ run[t].note # <<>> =>
         \/ tailComplete(run[t].note[1])
         \/ run[t].pc # "exit" /\ ~tailComplete(mem[t].status)
    /\ Has(mem[t], ReviewedStates) => run[t].pc \in {"exit", "ended"}
    /\ Has(mem[t], {"failed", "cancelled"}) => run[t].pc \in {"cleanup", "exit", "ended"}
    /\ run[t].pc = "admitted" => run[t].snap = Queued
    /\ run[t].pc = "launched" => run[t].snap.status \in ResumableStates
    /\ run[t].pc \in {"enqueue", "prepare", "savePrepared"} => run[t].snap.status = "queued"
    /\ run[t].pc \notin {"none", "admitted", "cleanup", "exit", "ended"} =>
         run[t].snap.status \in ResumableStates \cup {"awaiting_review"}

RegistryInv == \A t \in Tasks : RegistryOf(t)

(* Only a whole record without its newline makes a difference to what the  *)
(* next record leaves of the file.                                         *)
FileInv == tail # "whole" => \A t \in Tasks : under[t] = disk[t]

(* A task that is not among the lost ones: while its run has something to  *)
(* save the file does not say that it is over, and the file and the memory *)
(* agree about what reviews see and decide; the record before an           *)
(* unfinished line is over only if that line is a review's.                *)
AgreedOf(t) ==
    /\ under[t] # disk[t] /\ Has(under[t], OverStates) => Has(disk[t], ByReview)
    /\ daemon # "down" =>
         /\ Has(disk[t], OverStates) => run[t].pc \in {"cleanup", "exit", "ended"}
         /\ Has(disk[t], ReviewedStates) => mem[t] = disk[t]
         /\ Has(mem[t], {"merging", "done", "rejected"}) => mem[t] = disk[t]

StoreOf(t) ==
    /\ daemon = "down" => mem[t] = NoTask /\ run[t] = NoRun
    /\ daemon # "down" /\ run[t].pc \in {"none", "admitted"} => disk[t] = NoTask
    /\ under[t] # disk[t] => disk[t] # NoTask
    /\ t \notin lost => AgreedOf(t)

StoreInv == \A t \in Tasks : StoreOf(t)

(* Whoever has something left to do holds transitionMu, and the record is  *)
(* where the rest of the plan expects it; nothing is removed before the    *)
(* move that asked for it is in the file, if the task is not a lost one.   *)
ReviewOf(u) ==
    LET t == rev[u].task
        todo == rev[u].todo
        at(states) == Has(mem[t], states)
    IN /\ transitionMu = u /\ t \in Tasks /\ daemon # "down" /\ mem[t] # NoTask
       /\ todo = <<"look">> => ~at({"done", "rejected"})
       /\ todo = <<"cancelled", "remove">> => run[t].pc = "ended" /\ ~at({"done", "rejected"})
       /\ todo \in {<<"ff", "merging", "remove", "done">>, <<"merging", "remove", "done">>,
                    <<"rejected", "remove">>} => at({"awaiting_review"})
       /\ todo = <<"done">> => at({"awaiting_review", "merging"})
       /\ todo = <<"remove", "done">> => at({"merging"})
       /\ todo = <<"remove">> => at({"rejected", "cancelled"}) /\ run[t].pc \in {"exit", "ended"}
       /\ Head(todo) = "remove" => t \in lost \/ (mem[t] = disk[t] /\ under[t] = disk[t])

ReviewInv == \A u \in Reviewers : rev[u].todo # <<>> => ReviewOf(u)

(* Where a code task needs its worktree, and where its branch.             *)
Working == {"savePrepared", "saveDispatching", "engage", "saveWorking", "prompt", "collect",
            "saveReview"}
Active == RunPCs \ {"none", "admitted", "exit", "ended"}

NeedsBranch(s, states) == Has(s, states) /\ s.session

KeptOf(t) ==
    /\ run[t].pc \in Active /\ run[t].snap.session => t \in branch
    /\ NeedsBranch(disk[t], ResumableStates \cup {"failed"}) => t \in branch
    /\ NeedsBranch(under[t], ResumableStates) => t \in branch
    /\ NeedsBranch(mem[t], {"failed"}) => t \in branch
    /\ Has(disk[t], {"awaiting_review"}) => t \in worktree
    /\ Has(mem[t], {"awaiting_review"}) => t \in worktree

WorkOf(t) ==
    /\ run[t].pc \in Working => t \in worktree /\ run[t].snap.wt
    /\ run[t].pc = "verify" => run[t].snap.wt
    /\ run[t].pc = "launched" /\ run[t].snap.status # "queued" => run[t].snap.wt
    /\ Has(disk[t], {"dispatching", "working"}) => disk[t].wt
    /\ Has(under[t], {"dispatching", "working"}) => under[t].wt
    /\ t \notin lost => KeptOf(t)

WorkInv == worktree \subseteq branch /\ \A t \in code : WorkOf(t)

(* A tail is there only while the daemon is up, and its cursor lies within *)
(* the log.                                                                *)
ConnInv ==
    /\ daemon \in {"stopping", "draining", "closed"} => \A c \in Conns : conn[c].closed
    /\ \A c \in Conns :
         conn[c].prompt.kind \in {"subscribed", "tailing"} =>
           /\ daemon = "up" /\ conn[c].prompt.task \in Tasks
           /\ conn[c].prompt.cursor <= Len(log[conn[c].prompt.task])
    /\ \A c \in Conns : conn[c].prompt.kind = "sync" => conn[c].prompt.task \in Tasks

TaskInv == FileInv /\ RegistryInv /\ StoreInv /\ WorkInv

-----------------------------------------------------------------------------
(* What the steps do *)

ReviewOps == {"approve", "complete", "reject", "cancel"}

(* A snapshot with another status.                                         *)
LEMMA SnapshotEdit ==
    ASSUME NEW s \in Snapshot, NEW x \in Status
    PROVE  /\ [s EXCEPT !.status = x] \in Snapshot /\ [s EXCEPT !.status = x].status = x
           /\ [s EXCEPT !.status = x].wt = s.wt /\ [s EXCEPT !.status = x].session = s.session
BY DEF Snapshot

(* The run of t is at pc next with a snapshot and a status to announce.    *)
RunGoes(t, pc, snap, note) ==
    /\ run' \in [Tasks -> RunStates]
    /\ run'[t].pc = pc /\ run'[t].snap = snap /\ run'[t].note = note /\ run'[t].by = run[t].by
    /\ \A q \in Tasks : q # t => run'[q] = run[q]

(* Goto moves the run of its task and nothing else.                        *)
LEMMA GotoEdits ==
    ASSUME TypeOK, NEW t \in Tasks, NEW pc \in RunPCs, Goto(t, pc)
    PROVE  RunGoes(t, pc, run[t].snap, run[t].note)
BY DEF TypeOK, RunsTyped, RunStates, Goto, RunGoes

(* What an append makes of a task's place in the file: nothing, what it    *)
(* was before an unfinished line, or the record that was appended.         *)
Kept(q) ==
    /\ disk'[q] = disk[q] /\ under'[q] = under[q]
    /\ q \in lost' <=> q \in lost

Dropped(q) ==
    /\ disk'[q] = under[q] /\ under'[q] = under[q]
    /\ q \in lost' <=> q \in lost \/ (under[q] # disk[q] /\ disk[q].status \in ByReview)

Filed(t, s) ==
    /\ disk'[t] = s /\ under'[t] = s
    /\ t \in lost' <=> t \in lost

(* The record was glued to an unfinished line: a review's is a decision    *)
(* lost.                                                                   *)
Glued(t, s) ==
    /\ disk'[t] = under[t] /\ under'[t] = under[t]
    /\ t \in lost' <=> \/ t \in lost \/ s.status \in ByReview
                       \/ under[t] # disk[t] /\ disk[t].status \in ByReview

(* The record is there without its newline.                                *)
Whole(t, s, alive) ==
    /\ disk'[t] = s /\ under'[t] = disk[t]
    /\ t \in lost' <=> t \in lost \/ alive

FileTyped ==
    /\ disk' \in [Tasks -> Snapshot \cup {NoTask}] /\ under' \in [Tasks -> Snapshot \cup {NoTask}]
    /\ tail' \in {"clean", "torn", "whole"} /\ lost' \subseteq Tasks /\ FileInv'

(* Append1: s is the record of t in memory, and in the file unless it      *)
(* continues an unfinished line.                                           *)
Stored(t, s) ==
    /\ FileTyped /\ mem' \in [Tasks -> Snapshot \cup {NoTask}] /\ mem'[t] = s
    /\ \A q \in Tasks : q # t => mem'[q] = mem[q]
    /\ \/ Filed(t, s) /\ \A q \in Tasks : q # t => Kept(q)
       \/ Glued(t, s) /\ \A q \in Tasks : q # t => Dropped(q)

(* CutAppend, or no append at all.                                         *)
Cut(t, s, alive) ==
    /\ FileTyped
    /\ \/ \A q \in Tasks : Kept(q)
       \/ \A q \in Tasks : Dropped(q)
       \/ Whole(t, s, alive) /\ \A q \in Tasks : q # t => Kept(q)

(* appendLocked, with the records it leaves in memory and in the file.     *)
LEMMA AppendEdits ==
    ASSUME TypeOK, FileInv, NEW t \in Tasks, NEW s \in Snapshot, Append1(t, s)
    PROVE  Stored(t, s)
<1>1. /\ mem' \in [Tasks -> Snapshot \cup {NoTask}] /\ mem'[t] = s
      /\ \A q \in Tasks : q # t => mem'[q] = mem[q]
      /\ tail' = "clean" /\ under' = disk'
  BY DEF TypeOK, StoreTyped, Append1
<1>2. /\ disk \in [Tasks -> Snapshot \cup {NoTask}] /\ under \in [Tasks -> Snapshot \cup {NoTask}]
      /\ lost \subseteq Tasks
  BY DEF TypeOK, StoreTyped
<1>3. CASE tail = "clean"
  <2>1. disk' = [disk EXCEPT ![t] = s] /\ lost' = lost /\ \A q \in Tasks : under[q] = disk[q]
    BY <1>3 DEF Append1, FileInv
  <2>2. FileTyped
    BY <1>1, <1>2, <2>1 DEF FileTyped, FileInv
  <2>3. Filed(t, s) /\ \A q \in Tasks : q # t => Kept(q)
    BY <1>1, <1>2, <2>1 DEF Filed, Kept
  <2> QED BY <1>1, <2>2, <2>3 DEF Stored
<1>4. CASE tail # "clean"
  <2>1. /\ disk' = under
        /\ lost' = lost \cup Spoiled \cup (IF s.status \in ByReview THEN {t} ELSE {})
    BY <1>4 DEF Append1
  <2>2. Spoiled \subseteq Tasks
    BY DEF Spoiled
  <2>3. FileTyped
    BY <1>1, <1>2, <2>1, <2>2 DEF FileTyped, FileInv
  <2>4. Glued(t, s) /\ \A q \in Tasks : q # t => Dropped(q)
    BY <1>1, <1>2, <2>1 DEF Glued, Dropped, Spoiled
  <2> QED BY <1>1, <2>3, <2>4 DEF Stored
<1> QED BY <1>3, <1>4

(* An append that does not complete, with what it leaves in the file.      *)
LEMMA CutEdits ==
    ASSUME TypeOK, FileInv, NEW t \in Tasks, NEW s \in Snapshot, NEW alive \in BOOLEAN
    PROVE  /\ UNCHANGED <<disk, tail, under, lost>> => Cut(t, s, alive)
           /\ CutAppend(t, s, alive) => Cut(t, s, alive) /\ faults' \in 0 .. MaxFaults /\ storeOpen
<1>1. /\ disk \in [Tasks -> Snapshot \cup {NoTask}] /\ under \in [Tasks -> Snapshot \cup {NoTask}]
      /\ lost \subseteq Tasks /\ tail \in {"clean", "torn", "whole"} /\ faults \in 0 .. MaxFaults
  BY DEF TypeOK, StoreTyped
<1>2. ASSUME UNCHANGED <<disk, tail, under, lost>> PROVE Cut(t, s, alive)
  BY <1>1, <1>2 DEF Cut, Kept, FileTyped, FileInv
<1>3. ASSUME CutAppend(t, s, alive) PROVE Cut(t, s, alive)
  <2>1. CASE UNCHANGED <<disk, tail, under, lost>>
    BY <1>2, <2>1
  <2>2. CASE tail' = "torn" /\ disk' = under /\ under' = under /\ lost' = lost \cup Spoiled
    <3>1. FileTyped
      BY <1>1, <2>2 DEF FileTyped, FileInv, Spoiled
    <3>2. \A q \in Tasks : Dropped(q)
      BY <1>1, <2>2 DEF Dropped, Spoiled
    <3> QED BY <3>1, <3>2 DEF Cut
  <2>3. CASE /\ tail = "clean" /\ tail' = "whole"
             /\ disk' = [disk EXCEPT ![t] = s] /\ under' = disk
             /\ lost' = IF alive THEN lost \cup {t} ELSE lost
    <3>1. FileTyped
      BY <1>1, <2>3 DEF FileTyped, FileInv
    <3>2. \A q \in Tasks : under[q] = disk[q]
      BY <2>3 DEF FileInv
    <3>3. Whole(t, s, alive) /\ \A q \in Tasks : q # t => Kept(q)
      BY <1>1, <2>3, <3>2 DEF Whole, Kept
    <3> QED BY <3>1, <3>3 DEF Cut
  <2> QED BY <1>3, <2>1, <2>2, <2>3 DEF CutAppend, fileVars
<1>4. ASSUME CutAppend(t, s, alive) PROVE faults' \in 0 .. MaxFaults /\ storeOpen
  <2>1. faults < MaxFaults /\ faults' = faults + 1 /\ storeOpen
    BY <1>4 DEF CutAppend
  <2> QED BY <1>1, <2>1, DispatchAssumption
<1> QED BY <1>2, <1>3, <1>4

(* Orchestrator.save, done, or refused by a closed store or an append that *)
(* did not complete.                                                       *)
Saves(t, s, next) ==
    /\ storeOpen /\ Stored(t, s) /\ faults' = faults
    /\ RunGoes(t, next, s, IF Changed(t, s) THEN <<s.status>> ELSE <<>>)

Refuses(t, s, onError) ==
    /\ mem' = mem /\ Cut(t, s, TRUE) /\ faults' \in 0 .. MaxFaults
    /\ RunGoes(t, onError, s, <<>>)

(* The record of Orchestrator.Run differs in its status only.              *)
LEMMA RecordIs ==
    ASSUME TypeOK, NEW t \in Tasks
    PROVE  /\ Record(t) \in Snapshot /\ Record(t).wt = run[t].snap.wt
           /\ Record(t).session = run[t].snap.session
           /\ run[t].pc \in {"enqueue", "savePrepared"} =>
                Record(t).status = run[t].snap.status
           /\ run[t].pc = "saveDispatching" => Record(t).status = "dispatching"
           /\ run[t].pc = "saveWorking" => Record(t).status = "working"
           /\ run[t].pc = "saveReview" => Record(t).status = "awaiting_review"
           /\ run[t].pc = "fail" => Record(t).status = IF Terminal(run[t].snap.status)
                                                       THEN run[t].snap.status ELSE "failed"
           /\ run[t].pc = "cancelInto" => Record(t).status \in {"cancelled", "failed"}
<1> DEFINE o == run[t].snap.status
           x == CASE run[t].pc = "saveDispatching" -> "dispatching"
                  [] run[t].pc = "saveWorking"     -> "working"
                  [] run[t].pc = "saveReview"      -> "awaiting_review"
                  [] run[t].pc = "fail"       -> IF Terminal(o) THEN o ELSE "failed"
                  [] run[t].pc = "cancelInto" -> IF CanTransition(o, "cancelled") THEN "cancelled"
                                                 ELSE "failed"
                  [] OTHER -> o
<1>1. run[t].snap \in Snapshot /\ o \in Status
  BY DEF TypeOK, RunsTyped, RunStates, Snapshot
<1>2. /\ x \in Status
      /\ run[t].pc \in {"enqueue", "savePrepared"} => x = o
      /\ run[t].pc = "saveDispatching" => x = "dispatching"
      /\ run[t].pc = "saveWorking" => x = "working"
      /\ run[t].pc = "saveReview" => x = "awaiting_review"
      /\ run[t].pc = "fail" => x = IF Terminal(o) THEN o ELSE "failed"
      /\ run[t].pc = "cancelInto" => x \in {"cancelled", "failed"}
  <2> HIDE DEF o
  <2> QED BY <1>1 DEF Status
<1>3. Record(t) = [run[t].snap EXCEPT !.status = x]
  BY DEF Record
<1> HIDE DEF x
<1> QED BY <1>1, <1>2, <1>3, SnapshotEdit

(* Orchestrator.save either stores and goes on, or fails.                  *)
LEMMA SaveEdits ==
    ASSUME TypeOK, FileInv, NEW t \in Tasks, NEW next \in RunPCs,
           NEW onError \in RunPCs, save(t, next, onError), run[t].note = <<>>
    PROVE  Saves(t, Record(t), next) \/ Refuses(t, Record(t), onError)
<1> DEFINE s == Record(t)
           n == IF Changed(t, s) THEN <<s.status>> ELSE <<>>
<1>1. s \in Snapshot /\ s.status \in Status /\ run \in [Tasks -> RunStates] /\ faults \in 0 .. MaxFaults
  BY RecordIs DEF Snapshot, TypeOK, RunsTyped
<1>2. CASE /\ storeOpen /\ Append1(t, s) /\ UNCHANGED faults
           /\ run' = [run EXCEPT ![t].pc = next, ![t].snap = s, ![t].note = n]
  <2>1. n \in {<<>>} \cup {<<x>> : x \in Status}
    BY <1>1
  <2>2. RunGoes(t, next, s, n)
    <3> HIDE DEF n, s
    <3> QED BY <1>1, <1>2, <2>1 DEF RunStates, RunGoes
  <2>3. Stored(t, s)
    <3> HIDE DEF s
    <3> QED BY <1>1, <1>2, AppendEdits
  <2> QED BY <1>2, <2>2, <2>3 DEF Saves
<1>3. CASE /\ run' = [run EXCEPT ![t].pc = onError, ![t].snap = s]
           /\ (UNCHANGED storeVars \/ (CutAppend(t, s, TRUE) /\ UNCHANGED mem))
  <2> HIDE DEF s
  <2>1. RunGoes(t, onError, s, <<>>)
    BY <1>1, <1>3 DEF RunStates, RunGoes
  <2>2. mem' = mem /\ Cut(t, s, TRUE) /\ faults' \in 0 .. MaxFaults
    BY <1>1, <1>3, CutEdits DEF storeVars, fileVars
  <2> QED BY <2>1, <2>2 DEF Refuses, s
<1> QED BY <1>2, <1>3 DEF save

(* The handler of reviewer u has left to do.                               *)
Continues(u, left, snap) ==
    /\ rev' \in [Reviewers -> [task : Tasks \cup {NoTask}, snap : Snapshot, todo : Plans]]
    /\ rev'[u].todo = left
    /\ left # <<>> => rev'[u].task = rev[u].task /\ rev'[u].snap = snap
    /\ \A v \in Reviewers : v # u => rev'[v] = rev[v]
    /\ transitionMu' = IF left = <<>> THEN Nobody ELSE transitionMu

(* The handler of a review goes on with its rest, or returns and unlocks.  *)
LEMMA ContinueEdits ==
    ASSUME TypeOK, NEW u \in Reviewers, NEW left \in Plans, NEW snap \in Snapshot,
           Continue(u, left, snap)
    PROVE  Continues(u, left, snap)
<1>1. Idle \in [task : Tasks \cup {NoTask}, snap : Snapshot, todo : Plans] /\ Idle.todo = <<>>
  BY DEF Idle, Queued, Snapshot, Status, Plans
<1>2. rev \in [Reviewers -> [task : Tasks \cup {NoTask}, snap : Snapshot, todo : Plans]]
  BY DEF TypeOK, ReviewsTyped
<1>3. CASE left = <<>>
  BY <1>1, <1>2, <1>3 DEF Continue, Continues
<1>4. CASE left # <<>>
  <2>1. /\ rev' = [rev EXCEPT ![u] = [rev[u] EXCEPT !.todo = left, !.snap = snap]]
        /\ transitionMu' = transitionMu
    BY <1>4 DEF Continue
  <2> QED BY <1>2, <1>4, <2>1 DEF Continues
<1> QED BY <1>3, <1>4

(* What is left of a plan after its first step.                            *)
LEMMA PlanSteps ==
    ASSUME NEW p \in Plans, p # <<>>
    PROVE  /\ Tail(p) \in Plans
           /\ Head(p) \in Status \cup {"ff", "look", "remove"}
           /\ Head(p) = "look" => p = <<"look">>
           /\ Head(p) = "ff" => p = <<"ff", "merging", "remove", "done">>
                                /\ Tail(p) = <<"merging", "remove", "done">>
           /\ Head(p) = "merging" => p = <<"merging", "remove", "done">>
                                     /\ Tail(p) = <<"remove", "done">>
           /\ Head(p) = "done" => p = <<"done">> /\ Tail(p) = <<>>
           /\ Head(p) = "rejected" => p = <<"rejected", "remove">> /\ Tail(p) = <<"remove">>
           /\ Head(p) = "cancelled" => p = <<"cancelled", "remove">> /\ Tail(p) = <<"remove">>
           /\ Head(p) = "remove" => \/ p = <<"remove">> /\ Tail(p) = <<>>
                                    \/ p = <<"remove", "done">> /\ Tail(p) = <<"done">>
           /\ Head(p) \in Status => Head(p) \in {"merging", "done", "rejected", "cancelled"}
<1>1. CASE p = <<"look">>
  <2>1. Head(p) = "look" /\ Tail(p) = <<>>
    BY <1>1
  <2> QED BY <1>1, <2>1 DEF Plans, Status
<1>2. CASE p = <<"cancelled", "remove">>
  <2>1. Head(p) = "cancelled" /\ Tail(p) = <<"remove">>
    BY <1>2
  <2> QED BY <1>2, <2>1 DEF Plans, Status
<1>3. CASE p = <<"rejected", "remove">>
  <2>1. Head(p) = "rejected" /\ Tail(p) = <<"remove">>
    BY <1>3
  <2> QED BY <1>3, <2>1 DEF Plans, Status
<1>4. CASE p = <<"remove">>
  <2>1. Head(p) = "remove" /\ Tail(p) = <<>>
    BY <1>4
  <2> QED BY <1>4, <2>1 DEF Plans, Status
<1>5. CASE p = <<"ff", "merging", "remove", "done">>
  <2>1. Head(p) = "ff" /\ Tail(p) = <<"merging", "remove", "done">>
    BY <1>5
  <2> QED BY <1>5, <2>1 DEF Plans, Status
<1>6. CASE p = <<"merging", "remove", "done">>
  <2>1. Head(p) = "merging" /\ Tail(p) = <<"remove", "done">>
    BY <1>6
  <2> QED BY <1>6, <2>1 DEF Plans, Status
<1>7. CASE p = <<"remove", "done">>
  <2>1. Head(p) = "remove" /\ Tail(p) = <<"done">>
    BY <1>7
  <2> QED BY <1>7, <2>1 DEF Plans, Status
<1>8. CASE p = <<"done">>
  <2>1. Head(p) = "done" /\ Tail(p) = <<>>
    BY <1>8
  <2> QED BY <1>8, <2>1 DEF Plans, Status
<1> QED BY <1>1, <1>2, <1>3, <1>4, <1>5, <1>6, <1>7, <1>8 DEF Plans

(* The plans are different, and this is where they begin.                  *)
LEMMA PlanHeads ==
    /\ <<"look">> \in Plans /\ <<"cancelled", "remove">> \in Plans /\ <<>> \in Plans
    /\ \A op \in ReviewOps, t \in Tasks : Plan(op, t) \in Plans /\ Plan(op, t) # <<>>
    /\ \A t \in Tasks : Plan("cancel", t) = <<"look">>
    /\ \A t \in Tasks, op \in ReviewOps \ {"cancel"} :
         Plan(op, t) \in {<<"done">>, <<"ff", "merging", "remove", "done">>,
                          <<"merging", "remove", "done">>, <<"rejected", "remove">>}
BY DEF Plans, Plan, ReviewOps

(* EventLog.Append and the wake-ups of those who follow the task.          *)
Logged(t, s) ==
    /\ log' \in [Tasks -> Seq(Status)] /\ conn' \in [Conns -> ConnStates]
    /\ \A q \in Tasks : Len(log[q]) <= Len(log'[q])
                        /\ \A i \in 1 .. Len(log[q]) : log'[q][i] = log[q][i]
    /\ Len(log'[t]) = Len(log[t]) + 1 /\ log'[t][Len(log[t]) + 1] = s
    /\ \A c \in Conns :
         /\ conn'[c].closed = conn[c].closed
         /\ conn'[c].prompt.kind = conn[c].prompt.kind
         /\ conn'[c].prompt.task = conn[c].prompt.task
         /\ conn'[c].prompt.cursor = conn[c].prompt.cursor
         /\ conn[c].prompt.sig => conn'[c].prompt.sig
         /\ conn[c].prompt.task = t /\ conn[c].prompt.kind \in {"subscribed", "tailing"} =>
              conn'[c].prompt.sig

(* EventLog.Append adds one event and wakes the tails of its task.         *)
LEMMA LogEdits ==
    ASSUME TypeOK, NEW t \in Tasks, NEW s \in Status,
           log' = [log EXCEPT ![t] = Append(@, s)],
           conn' = [c \in Conns |->
                     IF conn[c].prompt.task = t /\ conn[c].prompt.kind \in {"subscribed", "tailing"}
                     THEN [conn[c] EXCEPT !.prompt.sig = TRUE] ELSE conn[c]]
    PROVE  Logged(t, s)
<1>1. log \in [Tasks -> Seq(Status)] /\ conn \in [Conns -> ConnStates]
  BY DEF TypeOK, StoreTyped
<1>2. log' = [log EXCEPT ![t] = Append(log[t], s)]
  OBVIOUS
<1>3. /\ log' \in [Tasks -> Seq(Status)]
      /\ \A q \in Tasks : Len(log[q]) <= Len(log'[q])
                          /\ \A i \in 1 .. Len(log[q]) : log'[q][i] = log[q][i]
      /\ Len(log'[t]) = Len(log[t]) + 1 /\ log'[t][Len(log[t]) + 1] = s
  BY <1>1, <1>2
<1>4. \A c \in Conns :
        conn'[c] = IF conn[c].prompt.task = t /\ conn[c].prompt.kind \in {"subscribed", "tailing"}
                   THEN [conn[c] EXCEPT !.prompt.sig = TRUE] ELSE conn[c]
  OBVIOUS
<1>5. ASSUME NEW c \in Conns
      PROVE  /\ conn'[c] \in ConnStates
             /\ conn'[c].closed = conn[c].closed
             /\ conn'[c].prompt.kind = conn[c].prompt.kind
             /\ conn'[c].prompt.task = conn[c].prompt.task
             /\ conn'[c].prompt.cursor = conn[c].prompt.cursor
             /\ conn[c].prompt.sig => conn'[c].prompt.sig
             /\ conn[c].prompt.task = t /\ conn[c].prompt.kind \in {"subscribed", "tailing"} =>
                  conn'[c].prompt.sig
  <2>1. CASE conn[c].prompt.task = t /\ conn[c].prompt.kind \in {"subscribed", "tailing"}
    <3>1. conn'[c] = [conn[c] EXCEPT !.prompt = [conn[c].prompt EXCEPT !.sig = TRUE]]
      BY <1>1, <1>4, <2>1
    <3>2. /\ conn[c] \in ConnStates
          /\ conn[c].prompt \in [kind : {"none", "sync", "subscribed", "tailing"},
                                 task : Tasks \cup {NoTask}, cursor : Nat, sig : BOOLEAN]
      BY <1>1 DEF ConnStates
    <3> DEFINE p == [conn[c].prompt EXCEPT !.sig = TRUE]
    <3>3. /\ p \in [kind : {"none", "sync", "subscribed", "tailing"},
                    task : Tasks \cup {NoTask}, cursor : Nat, sig : BOOLEAN]
          /\ p.kind = conn[c].prompt.kind /\ p.task = conn[c].prompt.task
          /\ p.cursor = conn[c].prompt.cursor /\ p.sig
      BY <3>2
    <3> HIDE DEF p
    <3>4. conn'[c] \in ConnStates /\ conn'[c].prompt = p /\ conn'[c].closed = conn[c].closed
      BY <3>1, <3>2, <3>3 DEF ConnStates, p
    <3> QED BY <3>3, <3>4
  <2>2. CASE ~(conn[c].prompt.task = t /\ conn[c].prompt.kind \in {"subscribed", "tailing"})
    BY <1>1, <1>4, <2>2
  <2> QED BY <2>1, <2>2
<1>6. conn' \in [Conns -> ConnStates]
  <2>1. conn' = [c \in Conns |-> conn'[c]]
    OBVIOUS
  <2> QED BY <1>5, <2>1
<1> QED BY <1>3, <1>5, <1>6 DEF Logged

(* notifyStatus: the event and its wake-ups, or a write that fails.        *)
Tells(t, s) ==
    /\ faults' \in 0 .. MaxFaults /\ unlogged' \subseteq Tasks
    /\ \/ Logged(t, s) /\ unlogged' = unlogged \ {t}
       \/ UNCHANGED <<log, conn>> /\ unlogged' = unlogged \cup {t}

(* EventLog.Append adds an event, or the task is one without its event.    *)
LEMMA TellEdits ==
    ASSUME TypeOK, NEW t \in Tasks, NEW s \in Status, LogStatus(t, s)
    PROVE  Tells(t, s)
<1>1. faults \in 0 .. MaxFaults /\ unlogged \subseteq Tasks /\ MaxFaults \in Nat
  BY DispatchAssumption DEF TypeOK, StoreTyped
<1>2. CASE unlogged' = unlogged \ {t} /\ UNCHANGED faults
           /\ log' = [log EXCEPT ![t] = Append(@, s)]
           /\ conn' = [c \in Conns |->
                     IF conn[c].prompt.task = t /\ conn[c].prompt.kind \in {"subscribed", "tailing"}
                     THEN [conn[c] EXCEPT !.prompt.sig = TRUE] ELSE conn[c]]
  BY <1>1, <1>2, LogEdits DEF Tells
<1>3. CASE faults < MaxFaults /\ faults' = faults + 1 /\ unlogged' = unlogged \cup {t}
           /\ UNCHANGED <<log, conn>>
  BY <1>1, <1>3 DEF Tells
<1> QED BY <1>2, <1>3 DEF LogStatus

(* establishSession: the task has a worker session.                        *)
Engaged(t, s) ==
    /\ s.status = run[t].snap.status /\ s.wt = run[t].snap.wt
    /\ RunGoes(t, "saveWorking", s, <<>>)

(* The steps of a run that only go on: from where, and to where.           *)
LEMMA GoesOn ==
    ASSUME TypeOK, NEW t \in Tasks
    PROVE  /\ Register(t) => /\ run[t].pc = "admitted" /\ run[t].note = <<>> /\ daemon # "down"
                             /\ RunGoes(t, "launched", run[t].snap, <<>>)
           /\ Begin(t) => /\ run[t].pc = "launched" /\ run[t].note = <<>> /\ daemon # "down"
                          /\ \/ RunGoes(t, "exit", run[t].snap, <<>>)
                             \/ RunGoes(t, "verify", run[t].snap, <<>>)
                             \/ RunGoes(t, "enqueue", run[t].snap, <<>>)
           /\ Verify(t) => /\ run[t].pc = "verify" /\ run[t].note = <<>> /\ daemon # "down"
                           /\ \/ RunGoes(t, "fail", run[t].snap, <<>>)
                              \/ RunGoes(t, "engage", run[t].snap, <<>>)
           /\ Engage(t) => /\ run[t].pc = "engage" /\ run[t].note = <<>> /\ daemon # "down"
                           /\ \/ \E s \in Snapshot : Engaged(t, s)
                              \/ RunGoes(t, "fail", run[t].snap, <<>>)
           /\ WorkerStops(t) => /\ run[t].pc = "prompt" /\ run[t].note = <<>> /\ daemon # "down"
                                /\ RunGoes(t, "collect", run[t].snap, <<>>)
           /\ WorkerFails(t) => /\ run[t].pc = "prompt" /\ run[t].note = <<>> /\ daemon # "down"
                                /\ RunGoes(t, "fail", run[t].snap, <<>>)
           /\ PromptCancelled(t) => /\ run[t].pc = "prompt" /\ run[t].note = <<>> /\ daemon # "down"
                                    /\ RunGoes(t, "cancelInto", run[t].snap, <<>>)
           /\ Collect(t) => /\ run[t].pc = "collect" /\ run[t].note = <<>> /\ daemon # "down"
                            /\ \/ RunGoes(t, "fail", run[t].snap, <<>>)
                               \/ RunGoes(t, "saveReview", run[t].snap, <<>>)
           /\ Cleanup(t) => /\ run[t].pc = "cleanup" /\ run[t].note = <<>> /\ daemon # "down"
                            /\ RunGoes(t, "exit", run[t].snap, <<>>)
<1>1. ASSUME Register(t)
      PROVE  /\ run[t].pc = "admitted" /\ run[t].note = <<>> /\ daemon # "down"
             /\ RunGoes(t, "launched", run[t].snap, <<>>)
  <2>1. /\ run[t].pc = "admitted" /\ run[t].note = <<>> /\ daemon # "down"
        /\ Goto(t, "launched")
    BY <1>1 DEF Register, At
  <2> QED BY <2>1, GotoEdits DEF RunPCs
<1>2. ASSUME Begin(t)
      PROVE  /\ run[t].pc = "launched" /\ run[t].note = <<>> /\ daemon # "down"
             /\ \/ RunGoes(t, "exit", run[t].snap, <<>>)
                \/ RunGoes(t, "verify", run[t].snap, <<>>)
                \/ RunGoes(t, "enqueue", run[t].snap, <<>>)
  <2>1. /\ run[t].pc = "launched" /\ run[t].note = <<>> /\ daemon # "down"
        /\ Goto(t, "exit") \/ Goto(t, "verify") \/ Goto(t, "enqueue")
    BY <1>2 DEF Begin, At
  <2> QED BY <2>1, GotoEdits DEF RunPCs
<1>3. ASSUME Verify(t)
      PROVE  /\ run[t].pc = "verify" /\ run[t].note = <<>> /\ daemon # "down"
             /\ \/ RunGoes(t, "fail", run[t].snap, <<>>)
                \/ RunGoes(t, "engage", run[t].snap, <<>>)
  <2>1. /\ run[t].pc = "verify" /\ run[t].note = <<>> /\ daemon # "down"
        /\ Goto(t, "fail") \/ Goto(t, "engage")
    BY <1>3 DEF Verify, At
  <2> QED BY <2>1, GotoEdits DEF RunPCs
<1>4. ASSUME Engage(t)
      PROVE  /\ run[t].pc = "engage" /\ run[t].note = <<>> /\ daemon # "down"
             /\ \/ \E s \in Snapshot : Engaged(t, s)
                \/ RunGoes(t, "fail", run[t].snap, <<>>)
  <2> DEFINE s == [run[t].snap EXCEPT !.session = TRUE]
  <2>1. /\ run[t].pc = "engage" /\ run[t].note = <<>> /\ daemon # "down"
        /\ \/ run' = [run EXCEPT ![t].pc = "saveWorking", ![t].snap.session = TRUE]
           \/ Goto(t, "fail")
    BY <1>4 DEF Engage, At, establishSession
  <2>2. run \in [Tasks -> RunStates] /\ run[t].snap \in Snapshot
    BY DEF TypeOK, RunsTyped, RunStates
  <2>3. s \in Snapshot /\ s.status = run[t].snap.status /\ s.wt = run[t].snap.wt
    BY <2>2 DEF Snapshot
  <2>4. CASE run' = [run EXCEPT ![t].pc = "saveWorking", ![t].snap.session = TRUE]
    <3>1. run' = [run EXCEPT ![t] = [run[t] EXCEPT !.pc = "saveWorking", !.snap = s]]
      BY <2>2, <2>4
    <3> HIDE DEF s
    <3>2. RunGoes(t, "saveWorking", s, <<>>)
      BY <2>1, <2>2, <2>3, <3>1 DEF RunGoes, RunStates, RunPCs
    <3> QED BY <2>1, <2>3, <3>2 DEF Engaged
  <2>5. CASE Goto(t, "fail")
    BY <2>1, <2>5, GotoEdits DEF RunPCs
  <2> QED BY <2>1, <2>4, <2>5
<1>5. ASSUME WorkerStops(t)
      PROVE  /\ run[t].pc = "prompt" /\ run[t].note = <<>> /\ daemon # "down"
             /\ RunGoes(t, "collect", run[t].snap, <<>>)
  <2>1. /\ run[t].pc = "prompt" /\ run[t].note = <<>> /\ daemon # "down"
        /\ Goto(t, "collect")
    BY <1>5 DEF WorkerStops, At
  <2> QED BY <2>1, GotoEdits DEF RunPCs
<1>6. ASSUME WorkerFails(t)
      PROVE  /\ run[t].pc = "prompt" /\ run[t].note = <<>> /\ daemon # "down"
             /\ RunGoes(t, "fail", run[t].snap, <<>>)
  <2>1. /\ run[t].pc = "prompt" /\ run[t].note = <<>> /\ daemon # "down"
        /\ Goto(t, "fail")
    BY <1>6 DEF WorkerFails, At
  <2> QED BY <2>1, GotoEdits DEF RunPCs
<1>7. ASSUME PromptCancelled(t)
      PROVE  /\ run[t].pc = "prompt" /\ run[t].note = <<>> /\ daemon # "down"
             /\ RunGoes(t, "cancelInto", run[t].snap, <<>>)
  <2>1. /\ run[t].pc = "prompt" /\ run[t].note = <<>> /\ daemon # "down"
        /\ Goto(t, "cancelInto")
    BY <1>7 DEF PromptCancelled, At
  <2> QED BY <2>1, GotoEdits DEF RunPCs
<1>8. ASSUME Collect(t)
      PROVE  /\ run[t].pc = "collect" /\ run[t].note = <<>> /\ daemon # "down"
             /\ \/ RunGoes(t, "fail", run[t].snap, <<>>)
                \/ RunGoes(t, "saveReview", run[t].snap, <<>>)
  <2>1. /\ run[t].pc = "collect" /\ run[t].note = <<>> /\ daemon # "down"
        /\ Goto(t, "fail") \/ Goto(t, "saveReview")
    BY <1>8 DEF Collect, At
  <2> QED BY <2>1, GotoEdits DEF RunPCs
<1>9. ASSUME Cleanup(t)
      PROVE  /\ run[t].pc = "cleanup" /\ run[t].note = <<>> /\ daemon # "down"
             /\ RunGoes(t, "exit", run[t].snap, <<>>)
  <2>1. /\ run[t].pc = "cleanup" /\ run[t].note = <<>> /\ daemon # "down"
        /\ Goto(t, "exit")
    BY <1>9 DEF Cleanup, At
  <2> QED BY <2>1, GotoEdits DEF RunPCs
<1> QED BY <1>1, <1>2, <1>3, <1>4, <1>5, <1>6, <1>7, <1>8, <1>9

(* The steps of a run that save: from where, and where to.                 *)
SavesAt(t, pc, next, onError) ==
    /\ run[t].pc = pc /\ run[t].note = <<>> /\ daemon # "down" /\ Record(t) \in Snapshot
    /\ Saves(t, Record(t), next) \/ Refuses(t, Record(t), onError)

(* Each saving step of Orchestrator.Run.                                   *)
LEMMA SavesSteps ==
    ASSUME TypeOK, FileInv, NEW t \in Tasks
    PROVE  /\ Enqueue(t) => SavesAt(t, "enqueue", "prepare", "exit")
           /\ SavePrepared(t) => SavesAt(t, "savePrepared", "saveDispatching", "fail")
           /\ SaveDispatching(t) => SavesAt(t, "saveDispatching", "engage", "fail")
           /\ SaveWorking(t) => SavesAt(t, "saveWorking", "prompt", "fail")
           /\ SaveReview(t) => SavesAt(t, "saveReview", "exit", "fail")
           /\ Fail(t) => SavesAt(t, "fail", "cleanup", "cleanup")
           /\ CancelInto(t) => SavesAt(t, "cancelInto", "cleanup", "cleanup")
<1>1. Record(t) \in Snapshot
  BY RecordIs
<1>2. ASSUME Enqueue(t) PROVE SavesAt(t, "enqueue", "prepare", "exit")
  BY <1>1, <1>2, SaveEdits DEF Enqueue, At, SavesAt, RunPCs
<1>3. ASSUME SavePrepared(t) PROVE SavesAt(t, "savePrepared", "saveDispatching", "fail")
  BY <1>1, <1>3, SaveEdits DEF SavePrepared, At, SavesAt, RunPCs
<1>4. ASSUME SaveDispatching(t) PROVE SavesAt(t, "saveDispatching", "engage", "fail")
  BY <1>1, <1>4, SaveEdits DEF SaveDispatching, At, SavesAt, RunPCs
<1>5. ASSUME SaveWorking(t) PROVE SavesAt(t, "saveWorking", "prompt", "fail")
  BY <1>1, <1>5, SaveEdits DEF SaveWorking, At, SavesAt, RunPCs
<1>6. ASSUME SaveReview(t) PROVE SavesAt(t, "saveReview", "exit", "fail")
  BY <1>1, <1>6, SaveEdits DEF SaveReview, At, SavesAt, RunPCs
<1>7. ASSUME Fail(t) PROVE SavesAt(t, "fail", "cleanup", "cleanup")
  BY <1>1, <1>7, SaveEdits DEF Fail, At, SavesAt, RunPCs
<1>8. ASSUME CancelInto(t) PROVE SavesAt(t, "cancelInto", "cleanup", "cleanup")
  BY <1>1, <1>8, SaveEdits DEF CancelInto, At, SavesAt, RunPCs
<1> QED BY <1>2, <1>3, <1>4, <1>5, <1>6, <1>7, <1>8

(* Submit, Prepare and Exit set more of the run than its place.            *)
LEMMA SubmitEdits ==
    ASSUME TypeOK, NEW t \in Tasks, NEW by \in Conns \cup {Nobody}, Submit(t, by)
    PROVE  /\ run' \in [Tasks -> RunStates] /\ run'[t].pc = "admitted" /\ run'[t].note = <<>>
           /\ run'[t].snap = Queued
           /\ \A q \in Tasks : q # t => run'[q] = run[q]
BY DEF Submit, NoRun, TypeOK, RunsTyped, RunStates, RunPCs, Queued, Snapshot, Status

(* What prepare leaves: a code task goes on only with worktree and branch, *)
(* and a worktree comes only with its branch.                              *)
Prepared(t, pc, s) ==
    /\ s \in Snapshot /\ s.status = run[t].snap.status /\ s.session = run[t].snap.session
    /\ RunGoes(t, pc, s, <<>>) /\ merged' = merged
    /\ worktree' \in {worktree, worktree \cup {t}} /\ branch' \in {branch, branch \cup {t}}
    /\ \/ pc = "fail"
       \/ pc = "savePrepared" /\ (t \in code => s.wt /\ t \in worktree')
    /\ worktree' # worktree => t \in branch'

(* prepare makes the worktree and the branch, or fails.                    *)
LEMMA PrepareEdits ==
    ASSUME TypeOK, NEW t \in Tasks, Prepare(t)
    PROVE  /\ run[t].pc = "prepare" /\ run[t].note = <<>> /\ daemon # "down"
           /\ \E s \in Snapshot, pc \in RunPCs : Prepared(t, pc, s)
<1>1. run \in [Tasks -> RunStates] /\ run[t].snap \in Snapshot /\ run[t] \in RunStates
  BY DEF TypeOK, RunsTyped, RunStates
<1>2. run[t].pc = "prepare" /\ run[t].note = <<>> /\ daemon # "down" /\ merged' = merged
  BY DEF Prepare, At
<1>3. "fail" \in RunPCs /\ "savePrepared" \in RunPCs
  BY DEF RunPCs
<1>4. CASE t \notin code /\ Goto(t, "savePrepared") /\ UNCHANGED <<worktree, branch>>
  <2>1. RunGoes(t, "savePrepared", run[t].snap, <<>>)
    BY <1>2, <1>3, <1>4, GotoEdits
  <2>2. Prepared(t, "savePrepared", run[t].snap)
    BY <1>1, <1>2, <1>4, <2>1 DEF Prepared
  <2> QED BY <1>1, <1>2, <1>3, <2>2
<1>5. CASE Goto(t, "fail") /\ UNCHANGED <<worktree, branch>>
  <2>1. RunGoes(t, "fail", run[t].snap, <<>>)
    BY <1>2, <1>3, <1>5, GotoEdits
  <2>2. Prepared(t, "fail", run[t].snap)
    BY <1>1, <1>2, <1>5, <2>1 DEF Prepared
  <2> QED BY <1>1, <1>2, <1>3, <2>2
<1>6. ASSUME NEW pc \in RunPCs, run' = [run EXCEPT ![t].pc = pc, ![t].snap.wt = TRUE]
      PROVE  \E s \in Snapshot : /\ s.status = run[t].snap.status /\ s.wt
                                 /\ s.session = run[t].snap.session /\ RunGoes(t, pc, s, <<>>)
  <2> DEFINE s == [run[t].snap EXCEPT !.wt = TRUE]
  <2>1. s \in Snapshot /\ s.status = run[t].snap.status /\ s.wt /\ s.session = run[t].snap.session
    BY <1>1 DEF Snapshot
  <2>2. run' = [run EXCEPT ![t] = [run[t] EXCEPT !.pc = pc, !.snap = s]]
    BY <1>1, <1>6
  <2> HIDE DEF s
  <2>3. RunGoes(t, pc, s, <<>>)
    BY <1>1, <1>2, <2>1, <2>2 DEF RunGoes, RunStates
  <2> QED BY <2>1, <2>3
<1>7. CASE /\ worktree' = worktree \cup {t} /\ branch' = branch \cup {t}
           /\ run' = [run EXCEPT ![t].pc = "savePrepared", ![t].snap.wt = TRUE]
  <2>1. PICK s \in Snapshot : /\ s.status = run[t].snap.status /\ s.wt
                              /\ s.session = run[t].snap.session
                              /\ RunGoes(t, "savePrepared", s, <<>>)
    BY <1>3, <1>6, <1>7
  <2>2. Prepared(t, "savePrepared", s)
    BY <1>2, <1>7, <2>1 DEF Prepared
  <2> QED BY <1>2, <1>3, <2>2
<1>8. CASE /\ run' = [run EXCEPT ![t].pc = "fail", ![t].snap.wt = TRUE]
           /\ branch' \in {branch, branch \cup {t}}
           /\ worktree' \in IF t \in branch' \ branch THEN {worktree, worktree \cup {t}} ELSE {worktree}
  <2>1. PICK s \in Snapshot : /\ s.status = run[t].snap.status /\ s.wt
                              /\ s.session = run[t].snap.session
                              /\ RunGoes(t, "fail", s, <<>>)
    BY <1>3, <1>6, <1>8
  <2>2. worktree' \in {worktree, worktree \cup {t}} /\ (worktree' # worktree => t \in branch')
    BY <1>8
  <2>3. Prepared(t, "fail", s)
    BY <1>2, <1>8, <2>1, <2>2 DEF Prepared
  <2> QED BY <1>2, <1>3, <2>3
<1> QED BY <1>4, <1>5, <1>7, <1>8 DEF Prepare

(* The run of a task ends.                                                 *)
LEMMA ExitEdits ==
    ASSUME TypeOK, NEW t \in Tasks, Exit(t)
    PROVE  /\ run[t].pc = "exit" /\ run[t].note = <<>> /\ daemon # "down"
           /\ run' \in [Tasks -> RunStates] /\ run'[t].pc = "ended" /\ run'[t].note = <<>>
           /\ \A q \in Tasks : q # t => run'[q] = run[q]
BY DEF Exit, At, NoRun, TypeOK, RunsTyped, RunStates, RunPCs, Queued, Snapshot, Status

(* notifyStatus announces the status that a save left.                     *)
LEMMA NotifyEdits ==
    ASSUME TypeOK, NEW t \in Tasks, Notify(t)
    PROVE  /\ run[t].note # <<>> /\ run[t].note[1] \in Status
           /\ RunGoes(t, run[t].pc, run[t].snap, <<>>)
           /\ \/ storeOpen /\ Tells(t, run[t].note[1])
              \/ ~storeOpen /\ UNCHANGED <<log, unlogged, conn, faults>>
<1>1. run \in [Tasks -> RunStates] /\ run[t].note # <<>> /\ run' = [run EXCEPT ![t].note = <<>>]
  BY DEF TypeOK, RunsTyped, Notify
<1>2. PICK s \in Status : run[t].note = <<s>>
  BY <1>1 DEF RunStates
<1>3. run[t].note[1] \in Status
  BY <1>2
<1>4. RunGoes(t, run[t].pc, run[t].snap, <<>>)
  BY <1>1 DEF RunGoes, RunStates
<1>5. CASE storeOpen
  BY <1>1, <1>3, <1>4, <1>5, TellEdits DEF Notify
<1>6. CASE ~storeOpen
  BY <1>1, <1>3, <1>4, <1>6 DEF Notify, logVars
<1> QED BY <1>5, <1>6

(* A connection with another prompt.                                       *)
Prompts == [kind : {"none", "sync", "subscribed", "tailing"}, task : Tasks \cup {NoTask},
            cursor : Nat, sig : BOOLEAN]

(* An assignment to one connection's prompt.                               *)
LEMMA PromptEdits ==
    ASSUME TypeOK, NEW c \in Conns, NEW p \in Prompts, conn' = [conn EXCEPT ![c].prompt = p]
    PROVE  /\ conn' \in [Conns -> ConnStates] /\ conn'[c].prompt = p
           /\ conn'[c].closed = conn[c].closed /\ \A d \in Conns : d # c => conn'[d] = conn[d]
BY DEF TypeOK, ConnStates, Prompts

(* The empty prompt is a prompt.                                           *)
LEMMA NoPromptIsPrompt ==
    NoPrompt \in Prompts /\ NoPrompt.kind = "none" /\ NoPrompt.task = NoTask
BY DEF NoPrompt, Prompts

(* What the steps of a connection do to its prompt.                        *)
LEMMA SubmitPrompt ==
    ASSUME TypeOK, NEW t \in Tasks, NEW by \in Conns \cup {Nobody}, Submit(t, by)
    PROVE  /\ conn' \in [Conns -> ConnStates]
           /\ \A c \in Conns : \/ conn'[c] = conn[c]
                               \/ /\ conn'[c].prompt.kind = "sync" /\ conn'[c].prompt.task = t
                                  /\ conn'[c].closed = conn[c].closed
<1>1. CASE by = Nobody
  BY <1>1 DEF Submit, TypeOK
<1>2. CASE by # Nobody
  <2> DEFINE p == [NoPrompt EXCEPT !.kind = "sync", !.task = t]
  <2>1. p \in Prompts /\ p.kind = "sync" /\ p.task = t
    BY DEF NoPrompt, Prompts
  <2>2. by \in Conns /\ conn' = [conn EXCEPT ![by].prompt = p]
    BY <1>2 DEF Submit
  <2> HIDE DEF p
  <2> QED BY <2>1, <2>2, PromptEdits
<1> QED BY <1>1, <1>2

(* A run that ends gives its connection back.                              *)
LEMMA ExitPrompt ==
    ASSUME TypeOK, NEW t \in Tasks, Exit(t)
    PROVE  /\ conn' \in [Conns -> ConnStates]
           /\ \A c \in Conns : \/ conn'[c] = conn[c]
                               \/ conn'[c].prompt.kind = "none" /\ conn'[c].closed = conn[c].closed
<1>1. CASE run[t].by = Nobody
  BY <1>1 DEF Exit, TypeOK
<1>2. CASE run[t].by # Nobody
  <2>1. run[t].by \in Conns /\ conn' = [conn EXCEPT ![run[t].by].prompt = NoPrompt]
    BY <1>2 DEF Exit, TypeOK, RunsTyped, RunStates
  <2> QED BY <2>1, PromptEdits, NoPromptIsPrompt
<1> QED BY <1>1, <1>2

(* A subscription starts at the end of the log.                            *)
LEMMA SubscribePrompt ==
    ASSUME TypeOK, NEW c \in Conns, NEW t \in Tasks, Subscribe(c, t)
    PROVE  /\ conn' \in [Conns -> ConnStates] /\ conn'[c].closed = conn[c].closed
           /\ conn'[c].prompt.kind = "subscribed" /\ conn'[c].prompt.task = t
           /\ conn'[c].prompt.cursor = Len(log[t])
           /\ \A d \in Conns : d # c => conn'[d] = conn[d]
<1> DEFINE p == [kind |-> "subscribed", task |-> t, cursor |-> Len(log[t]), sig |-> FALSE]
<1>1. Len(log[t]) \in Nat
  BY DEF TypeOK, StoreTyped
<1>2. /\ p \in Prompts /\ p.kind = "subscribed" /\ p.task = t /\ p.cursor = Len(log[t])
      /\ conn' = [conn EXCEPT ![c].prompt = p]
  BY <1>1 DEF Prompts, Subscribe
<1> HIDE DEF p
<1> QED BY <1>2, PromptEdits

(* A tail starts only on a task that is not complete.                      *)
LEMMA CheckPrompt ==
    ASSUME TypeOK, NEW c \in Conns, CheckComplete(c)
    PROVE  /\ conn' \in [Conns -> ConnStates] /\ conn'[c].closed = conn[c].closed
           /\ \/ conn'[c].prompt.kind = "none"
              \/ /\ conn'[c].prompt.kind = "tailing" /\ conn[c].prompt.kind = "subscribed"
                 /\ conn'[c].prompt.task = conn[c].prompt.task
                 /\ conn'[c].prompt.cursor = conn[c].prompt.cursor
                 /\ ~tailComplete(mem[conn[c].prompt.task].status)
           /\ \A d \in Conns : d # c => conn'[d] = conn[d]
<1>1. CASE tailComplete(mem[conn[c].prompt.task].status)
  <2>1. conn' = [conn EXCEPT ![c].prompt = NoPrompt]
    BY <1>1 DEF CheckComplete
  <2> QED BY <2>1, PromptEdits, NoPromptIsPrompt
<1>2. CASE ~tailComplete(mem[conn[c].prompt.task].status)
  <2> DEFINE p == [conn[c].prompt EXCEPT !.kind = "tailing"]
  <2>1. conn' = [conn EXCEPT ![c].prompt = p] /\ conn[c].prompt.kind = "subscribed"
    BY <1>2 DEF CheckComplete
  <2>2. /\ p \in Prompts /\ p.kind = "tailing" /\ p.task = conn[c].prompt.task
        /\ p.cursor = conn[c].prompt.cursor
    BY DEF TypeOK, ConnStates, Prompts
  <2> HIDE DEF p
  <2> QED BY <1>2, <2>1, <2>2, PromptEdits
<1> QED BY <1>1, <1>2

(* A tail goes on only past events that complete nothing.                  *)
LEMMA ReadPrompt ==
    ASSUME TypeOK, NEW c \in Conns, ReadEvents(c), conn[c].prompt.task \in Tasks,
           conn[c].prompt.cursor <= Len(log[conn[c].prompt.task])
    PROVE  /\ conn' \in [Conns -> ConnStates] /\ conn'[c].closed = conn[c].closed
           /\ \/ conn'[c].prompt.kind = "none"
              \/ /\ conn'[c].prompt.kind = "tailing" /\ conn[c].prompt.kind = "tailing"
                 /\ conn'[c].prompt.task = conn[c].prompt.task
                 /\ conn'[c].prompt.cursor = Len(log[conn[c].prompt.task])
                 /\ ~\E i \in conn[c].prompt.cursor + 1 .. Len(log[conn[c].prompt.task]) :
                       tailComplete(log[conn[c].prompt.task][i])
           /\ \A d \in Conns : d # c => conn'[d] = conn[d]
<1> DEFINE p == conn[c].prompt
           l == log[p.task]
           events == SubSeq(l, p.cursor + 1, Len(l))
           q == [p EXCEPT !.cursor = Len(l), !.sig = FALSE]
<1>1. /\ p \in Prompts /\ l \in Seq(Status) /\ p.cursor \in Nat /\ p.cursor <= Len(l)
      /\ Len(l) \in Nat
  BY DEF TypeOK, StoreTyped, ConnStates, Prompts
<1>2. conn' = [conn EXCEPT ![c].prompt = IF \E i \in 1 .. Len(events) : tailComplete(events[i])
                                         THEN NoPrompt ELSE q]
      /\ p.kind = "tailing"
  BY DEF ReadEvents
<1> HIDE DEF p, l
<1>3. q \in Prompts /\ q.kind = p.kind /\ q.task = p.task /\ q.cursor = Len(l)
  BY <1>1 DEF Prompts
<1>4. \A i \in p.cursor + 1 .. Len(l) :
        i - p.cursor \in 1 .. Len(events) /\ events[i - p.cursor] = l[i]
  <2> DEFINE m == p.cursor + 1
             n == Len(l)
  <2>1. m \in Int /\ n \in Int /\ p.cursor = m - 1 /\ m >= 1 /\ \A i \in m .. n : l[i] \in Status
    BY <1>1
  <2>2. events = SubSeq(l, m, n)
    OBVIOUS
  <2> HIDE DEF m, n, events
  <2>3. /\ Len(events) = IF m <= n THEN n - m + 1 ELSE 0
        /\ \A j \in 1 .. n - m + 1 : events[j] = l[m + j - 1]
    BY <2>1, <2>2, SubSeqProperties
  <2>4. ASSUME NEW i \in m .. n
        PROVE  i - (m - 1) \in 1 .. Len(events) /\ events[i - (m - 1)] = l[i]
    <3>1. i - (m - 1) \in 1 .. n - m + 1 /\ m + (i - (m - 1)) - 1 = i /\ m <= n
      BY <2>1
    <3> QED BY <2>3, <3>1
  <2> QED BY <2>1, <2>4 DEF m, n
<1> HIDE DEF q, events
<1>5. CASE \E i \in 1 .. Len(events) : tailComplete(events[i])
  <2>1. conn' = [conn EXCEPT ![c].prompt = NoPrompt]
    BY <1>2, <1>5
  <2> QED BY <2>1, PromptEdits, NoPromptIsPrompt
<1>6. CASE ~\E i \in 1 .. Len(events) : tailComplete(events[i])
  <2>1. conn' = [conn EXCEPT ![c].prompt = q]
    BY <1>2, <1>6
  <2>2. ~\E i \in p.cursor + 1 .. Len(l) : tailComplete(l[i])
    BY <1>4, <1>6
  <2>3. /\ conn' \in [Conns -> ConnStates] /\ conn'[c].prompt = q
        /\ conn'[c].closed = conn[c].closed /\ \A d \in Conns : d # c => conn'[d] = conn[d]
    BY <1>3, <2>1, PromptEdits
  <2> QED BY <1>2, <1>3, <2>2, <2>3 DEF p, l
<1> QED BY <1>5, <1>6

(* A cancelled prompt ends, unless it is a synchronous run.                *)
LEMMA CancelPrompts ==
    ASSUME TypeOK, NEW c \in Conns, NEW closes \in BOOLEAN, CancelPrompt(c, closes)
    PROVE  /\ conn' \in [Conns -> ConnStates] /\ ~conn[c].closed
           /\ \/ conn'[c].prompt.kind = "none"
              \/ conn[c].prompt.kind = "sync" /\ conn'[c].prompt = conn[c].prompt
           /\ \A d \in Conns : d # c => conn'[d] = conn[d]
<1> DEFINE p == IF conn[c].prompt.kind = "sync" THEN conn[c].prompt ELSE NoPrompt
           e == [conn[c] EXCEPT !.closed = closes, !.prompt = p]
<1>1. /\ p \in Prompts
      /\ p.kind = "none" \/ (conn[c].prompt.kind = "sync" /\ p = conn[c].prompt)
  <2>1. conn[c].prompt \in Prompts
    BY DEF TypeOK, ConnStates, Prompts
  <2>2. CASE conn[c].prompt.kind = "sync"
    BY <2>1, <2>2
  <2>3. CASE conn[c].prompt.kind # "sync"
    <3>1. p = NoPrompt
      BY <2>3
    <3> QED BY <3>1, NoPromptIsPrompt
  <2> QED BY <2>2, <2>3
<1>2. conn' = [conn EXCEPT ![c] = e] /\ ~conn[c].closed
  BY DEF CancelPrompt, TypeOK, ConnStates
<1>3. e \in ConnStates /\ e.prompt = p
  <2> HIDE DEF p
  <2> QED BY <1>1 DEF TypeOK, ConnStates, Prompts
<1> HIDE DEF e
<1> QED BY <1>1, <1>2, <1>3 DEF TypeOK

(* Stop closes every connection.                                           *)
LEMMA StopPrompts ==
    ASSUME TypeOK, StopBegin
    PROVE  /\ conn' \in [Conns -> ConnStates]
           /\ \A c \in Conns : 
             /\ conn'[c].closed
             /\ \/ conn'[c].prompt.kind = "none"
                \/ conn[c].prompt.kind = "sync" /\ conn'[c].prompt = conn[c].prompt
<1> DEFINE p(c) == IF conn[c].prompt.kind = "sync" THEN conn[c].prompt ELSE NoPrompt
<1>1. \A c \in Conns : 
        /\ p(c) \in Prompts
        /\ p(c).kind = "none" \/ (conn[c].prompt.kind = "sync" /\ p(c) = conn[c].prompt)
  <2> TAKE c \in Conns
  <2>1. conn[c].prompt \in Prompts
    BY DEF TypeOK, ConnStates, Prompts
  <2>2. CASE conn[c].prompt.kind = "sync"
    BY <2>1, <2>2
  <2>3. CASE conn[c].prompt.kind # "sync"
    <3>1. p(c) = NoPrompt
      BY <2>3
    <3> QED BY <3>1, NoPromptIsPrompt
  <2> QED BY <2>2, <2>3
<1>2. conn' = [c \in Conns |-> [closed |-> TRUE, prompt |-> p(c)]]
  BY DEF StopBegin
<1> HIDE DEF p
<1> QED BY <1>1, <1>2 DEF ConnStates, Prompts

(* An accepted connection has no prompt.                                   *)
LEMMA AcceptedIsTyped == Accepted \in ConnStates /\ Accepted.prompt.kind = "none"
BY DEF Accepted, ConnStates, NoPrompt

(* A review's transition: stored and announced, or refused.                *)
Moves(u, to, s) ==
    LET t == rev[u].task IN
    /\ storeOpen /\ Stored(t, s) /\ Continues(u, Tail(rev[u].todo), s)
    /\ \/ Changed(t, s) /\ Tells(t, to)
       \/ ~Changed(t, s) /\ UNCHANGED <<log, unlogged, conn, faults>>

Balks(u, s) ==
    /\ mem' = mem /\ Cut(rev[u].task, s, TRUE) /\ faults' \in 0 .. MaxFaults
    /\ Continues(u, <<>>, s) /\ UNCHANGED <<log, unlogged, conn>>

(* What a transition of a review does to the store, the log and the plan.  *)
LEMMA MoveEdits ==
    ASSUME TypeOK, FileInv, ReviewInv, NEW u \in Reviewers, NEW to \in Status, Move(u, to)
    PROVE  /\ rev[u].todo # <<>> /\ Head(rev[u].todo) = to /\ rev[u].task \in Tasks
           /\ \E s \in Snapshot : s.status = to /\ (Moves(u, to, s) \/ Balks(u, s))
<1> DEFINE s == [rev[u].snap EXCEPT !.status = to]
           t == rev[u].task
<1>1. /\ rev[u] \in [task : Tasks \cup {NoTask}, snap : Snapshot, todo : Plans]
      /\ rev[u].todo # <<>> /\ t \in Tasks /\ Head(rev[u].todo) = to /\ faults \in 0 .. MaxFaults
  BY DEF Move, Doing, ReviewInv, ReviewOf, TypeOK, ReviewsTyped
<1>2. s \in Snapshot /\ s.status = to /\ Tail(rev[u].todo) \in Plans /\ <<>> \in Plans
  BY <1>1, SnapshotEdit, PlanSteps, PlanHeads
<1>3. CASE /\ storeOpen /\ Append1(t, s) /\ Continue(u, Tail(rev[u].todo), s)
           /\ IF Changed(t, s) THEN LogStatus(t, to) ELSE UNCHANGED <<logVars, conn, faults>>
  <2> HIDE DEF s
  <2>1. Stored(t, s) /\ Continues(u, Tail(rev[u].todo), s)
    BY <1>1, <1>2, <1>3, AppendEdits, ContinueEdits
  <2>2. \/ Changed(t, s) /\ Tells(t, to)
        \/ ~Changed(t, s) /\ UNCHANGED <<log, unlogged, conn, faults>>
    BY <1>1, <1>3, TellEdits DEF logVars
  <2>3. Moves(u, to, s)
    BY <1>3, <2>1, <2>2 DEF Moves
  <2> QED BY <1>1, <1>2, <2>3
<1>4. CASE /\ UNCHANGED storeVars \/ (CutAppend(t, s, TRUE) /\ UNCHANGED mem)
           /\ Continue(u, <<>>, s) /\ UNCHANGED <<logVars, conn>>
  <2> HIDE DEF s
  <2>1. mem' = mem /\ Cut(t, s, TRUE) /\ faults' \in 0 .. MaxFaults
    BY <1>1, <1>2, <1>4, CutEdits DEF storeVars, fileVars
  <2>2. Continues(u, <<>>, s) /\ UNCHANGED <<log, unlogged, conn>>
    BY <1>1, <1>2, <1>4, ContinueEdits DEF logVars
  <2>3. Balks(u, s)
    BY <2>1, <2>2 DEF Balks
  <2> QED BY <1>1, <1>2, <2>3
<1> QED BY <1>3, <1>4 DEF Move

(* The pcs at which a run has a record to save.                            *)
Saving == {"enqueue", "savePrepared", "saveDispatching", "saveWorking", "saveReview", "fail",
           "cancelInto"}

SaveStep(t) ==
    \/ Enqueue(t) \/ SavePrepared(t) \/ SaveDispatching(t) \/ SaveWorking(t) \/ SaveReview(t)
    \/ Fail(t) \/ CancelInto(t)

(* What the proofs below need of a record that is saved and of where the   *)
(* run goes then.                                                          *)
SaveFits(t, s, next) ==
    /\ run[t].pc \in Saving /\ run[t].note = <<>> /\ daemon # "down"
    /\ s.wt = run[t].snap.wt /\ s.session = run[t].snap.session
    /\ s.status \in ResumableStates \cup {"awaiting_review", "failed", "cancelled"}
    /\ s.status \in {"dispatching", "working", "awaiting_review"} => run[t].pc \in Working
    /\ next \in {"prepare", "saveDispatching", "engage", "prompt", "exit", "fail", "cleanup"}
    /\ next \in Working => run[t].pc \in Working
    /\ next = "prepare" => s.status = "queued"
    /\ next \notin {"exit", "cleanup"} => s.status \in ResumableStates \cup {"awaiting_review"}

SaveGoes(s, next) ==
    /\ s.status \in ResumableStates => next \notin {"exit", "cleanup"}
    /\ s.status = "awaiting_review" => next = "exit"
    /\ s.status \in {"failed", "cancelled"} => next = "cleanup"

SaveDoes(t, s, next) ==
    SaveFits(t, s, next) /\ ((Saves(t, s, next) /\ SaveGoes(s, next)) \/ Refuses(t, s, next))

(* Every saving step of a run saves a record that fits, or is refused.     *)
LEMMA SaveStepDoes ==
    ASSUME TypeOK, FileInv, NEW t \in Tasks, RegistryOf(t), SaveStep(t)
    PROVE  /\ UNCHANGED <<running, code, worktree, branch, merged, daemon, log, unlogged, conn>>
           /\ UNCHANGED <<ctxDone, transitionMu, rev, asked, starts>>
           /\ \E s \in Snapshot, next \in RunPCs : SaveDoes(t, s, next)
<1>1. /\ UNCHANGED <<running, code, worktree, branch, merged, daemon, log, unlogged, conn>>
      /\ UNCHANGED <<ctxDone, transitionMu, rev, asked, starts>>
  BY DEF SaveStep, Enqueue, SavePrepared, SaveDispatching, SaveWorking, SaveReview, Fail,
         CancelInto, RunFrame, gitVars, reviewVars, lifeVars, logVars
<1> DEFINE s == Record(t)
           Goal == \E next \in RunPCs : SaveDoes(t, s, next)
<1>2. s \in Snapshot /\ s.wt = run[t].snap.wt /\ s.session = run[t].snap.session
  BY RecordIs
<1>3. ASSUME NEW pc \in RunPCs, NEW next \in RunPCs, NEW onError \in RunPCs,
             SavesAt(t, pc, next, onError), SaveFits(t, s, next), SaveFits(t, s, onError),
             SaveGoes(s, next)
      PROVE  Goal
  <2> HIDE DEF s
  <2>1. Saves(t, s, next) \/ Refuses(t, s, onError)
    BY <1>3 DEF SavesAt, s
  <2> QED BY <1>3, <2>1 DEF SaveDoes
<1> HIDE DEF Goal
<1>4. ASSUME Enqueue(t) PROVE Goal
  <2>1. SavesAt(t, "enqueue", "prepare", "exit")
    BY <1>4, SavesSteps
  <2>2. run[t].pc = "enqueue" /\ run[t].note = <<>> /\ daemon # "down" /\ s.status = "queued"
    BY <2>1, RecordIs DEF SavesAt, RegistryOf
  <2>3. SaveFits(t, s, "prepare") /\ SaveFits(t, s, "exit") /\ SaveGoes(s, "prepare")
    <3> HIDE DEF s
    <3> QED BY <1>2, <2>2 DEF SaveFits, SaveGoes, Saving, Working, ResumableStates
  <2> HIDE DEF s
  <2> QED BY <1>3, <2>1, <2>3 DEF RunPCs
<1>5. ASSUME SavePrepared(t) PROVE Goal
  <2>1. SavesAt(t, "savePrepared", "saveDispatching", "fail")
    BY <1>5, SavesSteps
  <2>2. run[t].pc = "savePrepared" /\ run[t].note = <<>> /\ daemon # "down" /\ s.status = "queued"
    BY <2>1, RecordIs DEF SavesAt, RegistryOf
  <2>3. SaveFits(t, s, "saveDispatching") /\ SaveFits(t, s, "fail") /\ SaveGoes(s, "saveDispatching")
    <3> HIDE DEF s
    <3> QED BY <1>2, <2>2 DEF SaveFits, SaveGoes, Saving, Working, ResumableStates
  <2> HIDE DEF s
  <2> QED BY <1>3, <2>1, <2>3 DEF RunPCs
<1>6. ASSUME SaveDispatching(t) PROVE Goal
  <2>1. SavesAt(t, "saveDispatching", "engage", "fail")
    BY <1>6, SavesSteps
  <2>2. /\ run[t].pc = "saveDispatching" /\ run[t].note = <<>> /\ daemon # "down"
        /\ s.status = "dispatching"
    BY <2>1, RecordIs DEF SavesAt
  <2>3. SaveFits(t, s, "engage") /\ SaveFits(t, s, "fail") /\ SaveGoes(s, "engage")
    <3> HIDE DEF s
    <3> QED BY <1>2, <2>2 DEF SaveFits, SaveGoes, Saving, Working, ResumableStates
  <2> HIDE DEF s
  <2> QED BY <1>3, <2>1, <2>3 DEF RunPCs
<1>7. ASSUME SaveWorking(t) PROVE Goal
  <2>1. SavesAt(t, "saveWorking", "prompt", "fail")
    BY <1>7, SavesSteps
  <2>2. run[t].pc = "saveWorking" /\ run[t].note = <<>> /\ daemon # "down" /\ s.status = "working"
    BY <2>1, RecordIs DEF SavesAt
  <2>3. SaveFits(t, s, "prompt") /\ SaveFits(t, s, "fail") /\ SaveGoes(s, "prompt")
    <3> HIDE DEF s
    <3> QED BY <1>2, <2>2 DEF SaveFits, SaveGoes, Saving, Working, ResumableStates
  <2> HIDE DEF s
  <2> QED BY <1>3, <2>1, <2>3 DEF RunPCs
<1>8. ASSUME SaveReview(t) PROVE Goal
  <2>1. SavesAt(t, "saveReview", "exit", "fail")
    BY <1>8, SavesSteps
  <2>2. /\ run[t].pc = "saveReview" /\ run[t].note = <<>> /\ daemon # "down"
        /\ s.status = "awaiting_review"
    BY <2>1, RecordIs DEF SavesAt
  <2>3. SaveFits(t, s, "exit") /\ SaveFits(t, s, "fail") /\ SaveGoes(s, "exit")
    <3> HIDE DEF s
    <3> QED BY <1>2, <2>2 DEF SaveFits, SaveGoes, Saving, Working, ResumableStates
  <2> HIDE DEF s
  <2> QED BY <1>3, <2>1, <2>3 DEF RunPCs
<1>9. ASSUME Fail(t) PROVE Goal
  <2>1. SavesAt(t, "fail", "cleanup", "cleanup")
    BY <1>9, SavesSteps
  <2>2. run[t].pc = "fail" /\ run[t].note = <<>> /\ daemon # "down" /\ s.status = "failed"
    BY <2>1, RecordIs DEF SavesAt, RegistryOf, ResumableStates, Terminal
  <2>3. SaveFits(t, s, "cleanup") /\ SaveGoes(s, "cleanup")
    <3> HIDE DEF s
    <3> QED BY <1>2, <2>2 DEF SaveFits, SaveGoes, Saving, Working, ResumableStates
  <2> HIDE DEF s
  <2> QED BY <1>3, <2>1, <2>3 DEF RunPCs
<1>10. ASSUME CancelInto(t) PROVE Goal
  <2>1. SavesAt(t, "cancelInto", "cleanup", "cleanup")
    BY <1>10, SavesSteps
  <2>2. /\ run[t].pc = "cancelInto" /\ run[t].note = <<>> /\ daemon # "down"
        /\ s.status \in {"cancelled", "failed"}
    BY <2>1, RecordIs DEF SavesAt
  <2>3. SaveFits(t, s, "cleanup") /\ SaveGoes(s, "cleanup")
    <3> HIDE DEF s
    <3> QED BY <1>2, <2>2 DEF SaveFits, SaveGoes, Saving, Working, ResumableStates
  <2> HIDE DEF s
  <2> QED BY <1>3, <2>1, <2>3 DEF RunPCs
<1> QED BY <1>1, <1>2, <1>4, <1>5, <1>6, <1>7, <1>8, <1>9, <1>10 DEF SaveStep, Goal

(* The process ends: the file as it is, or with the record a run or a      *)
(* review was about to append cut short.                                   *)
LEMMA DieEdits ==
    ASSUME TypeOK, FileInv, Die
    PROVE  /\ FileTyped /\ faults' \in 0 .. MaxFaults
           /\ \/ \A q \in Tasks : Kept(q)
              \/ \E t \in Tasks, s \in Snapshot : Appending(t, s) /\ Cut(t, s, FALSE)
<1>1. CASE UNCHANGED <<fileVars, faults>>
  BY <1>1 DEF fileVars, TypeOK, StoreTyped, FileTyped, FileInv, Kept
<1>2. CASE \E t \in Tasks, s \in Snapshot : Appending(t, s) /\ CutAppend(t, s, FALSE)
  <2>1. PICK t \in Tasks, s \in Snapshot : Appending(t, s) /\ CutAppend(t, s, FALSE)
    BY <1>2
  <2>2. Cut(t, s, FALSE) /\ faults' \in 0 .. MaxFaults
    BY <2>1, CutEdits
  <2> QED BY <2>1, <2>2 DEF Cut
<1> QED BY <1>1, <1>2 DEF Die

(* Every step keeps the types.                                             *)
LEMMA TypeStep == TypeOK /\ TaskInv /\ ReviewInv /\ ConnInv /\ [Next]_vars => TypeOK'
<1> SUFFICES ASSUME TypeOK /\ TaskInv /\ ReviewInv /\ ConnInv, [Next]_vars PROVE TypeOK'
  OBVIOUS
<1> USE DispatchAssumption DEF storeVars, fileVars, logVars, gitVars, reviewVars, lifeVars
<1>0. FileInv /\ \A t \in Tasks : RegistryOf(t)
  BY DEF TaskInv, RegistryInv
<1>1. ASSUME NEW t \in Tasks, NEW by \in Conns \cup {Nobody}, Submit(t, by) PROVE TypeOK'
  <2>1. run' \in [Tasks -> RunStates] /\ conn' \in [Conns -> ConnStates]
    BY <1>1, SubmitEdits, SubmitPrompt
  <2>2. code' \subseteq Tasks
    BY <1>1 DEF Submit, TypeOK, RunsTyped
  <2> QED BY <1>1, <2>1, <2>2 DEF Submit, TypeOK, StoreTyped, RunsTyped, ReviewsTyped
<1>2. ASSUME NEW u \in Reviewers, NEW op \in ReviewOps, NEW t \in Tasks, Decide(u, op, t)
      PROVE  TypeOK'
  <2>1. mem[t] \in Snapshot /\ Plan(op, t) \in Plans
    BY <1>2, PlanHeads DEF Decide, TypeOK, StoreTyped
  <2>2. rev' = [rev EXCEPT ![u] = [task |-> t, snap |-> mem[t], todo |-> Plan(op, t)]]
        /\ transitionMu' = u
    BY <1>2 DEF Decide
  <2>3. ReviewsTyped'
    BY <2>1, <2>2 DEF TypeOK, ReviewsTyped
  <2> QED BY <1>2, <2>3 DEF Decide, TypeOK, StoreTyped, RunsTyped
<1>3. ASSUME NEW c \in Conns, NEW t \in Tasks, Subscribe(c, t) PROVE TypeOK'
  BY <1>3, SubscribePrompt DEF Subscribe, TypeOK, StoreTyped, RunsTyped, ReviewsTyped
<1>4. ASSUME NEW t \in Tasks, Register(t) PROVE TypeOK'
  BY <1>4, GoesOn DEF Register, RunFrame, RunGoes, TypeOK, StoreTyped, RunsTyped, ReviewsTyped
<1>5. ASSUME NEW t \in Tasks, Begin(t) PROVE TypeOK'
  BY <1>5, GoesOn DEF Begin, RunFrame, RunGoes, TypeOK, StoreTyped, RunsTyped, ReviewsTyped
<1>6. ASSUME NEW t \in Tasks, SaveStep(t) PROVE TypeOK'
  <2>1. /\ UNCHANGED <<running, code, worktree, branch, merged, daemon, log, unlogged, conn>>
        /\ UNCHANGED <<ctxDone, transitionMu, rev, asked, starts>>
    BY <1>0, <1>6, SaveStepDoes
  <2>2. PICK s \in Snapshot, next \in RunPCs : Saves(t, s, next) \/ Refuses(t, s, next)
    BY <1>0, <1>6, SaveStepDoes DEF SaveDoes
  <2>3. /\ run' \in [Tasks -> RunStates] /\ FileTyped /\ faults' \in 0 .. MaxFaults
        /\ mem' \in [Tasks -> Snapshot \cup {NoTask}]
    BY <2>2 DEF Saves, Refuses, Stored, Cut, RunGoes, TypeOK, StoreTyped
  <2> QED BY <2>1, <2>3 DEF FileTyped, TypeOK, StoreTyped, RunsTyped, ReviewsTyped
<1>7. ASSUME NEW t \in Tasks, Prepare(t) PROVE TypeOK'
  <2>1. run' \in [Tasks -> RunStates]
    BY <1>7, PrepareEdits DEF Prepared, RunGoes
  <2>2. worktree' \subseteq Tasks /\ branch' \subseteq Tasks /\ merged' \subseteq Tasks
    BY <1>7, PrepareEdits DEF Prepared, TypeOK, RunsTyped
  <2> QED BY <1>7, <2>1, <2>2 DEF Prepare, RunFrame, TypeOK, StoreTyped, RunsTyped, ReviewsTyped
<1>8. ASSUME NEW t \in Tasks, Verify(t) PROVE TypeOK'
  BY <1>8, GoesOn DEF Verify, RunFrame, RunGoes, TypeOK, StoreTyped, RunsTyped, ReviewsTyped
<1>9. ASSUME NEW t \in Tasks, Engage(t) PROVE TypeOK'
  BY <1>9, GoesOn DEF Engage, Engaged, RunFrame, RunGoes, TypeOK, StoreTyped, RunsTyped, ReviewsTyped
<1>10. ASSUME NEW t \in Tasks, PromptCancelled(t) PROVE TypeOK'
  BY <1>10, GoesOn
  DEF PromptCancelled, RunFrame, RunGoes, TypeOK, StoreTyped, RunsTyped, ReviewsTyped
<1>11. ASSUME NEW t \in Tasks, Collect(t) PROVE TypeOK'
  BY <1>11, GoesOn DEF Collect, RunFrame, RunGoes, TypeOK, StoreTyped, RunsTyped, ReviewsTyped
<1>12. ASSUME NEW t \in Tasks, Cleanup(t) PROVE TypeOK'
  BY <1>12, GoesOn DEF Cleanup, RunFrame, RunGoes, TypeOK, StoreTyped, RunsTyped, ReviewsTyped
<1>13. ASSUME NEW t \in Tasks, Exit(t) PROVE TypeOK'
  BY <1>13, ExitEdits, ExitPrompt DEF Exit, TypeOK, StoreTyped, RunsTyped, ReviewsTyped
<1>14. ASSUME NEW t \in Tasks, Notify(t) PROVE TypeOK'
  <2>1. /\ run' \in [Tasks -> RunStates] /\ log' \in [Tasks -> Seq(Status)]
        /\ conn' \in [Conns -> ConnStates] /\ unlogged' \subseteq Tasks /\ faults' \in 0 .. MaxFaults
    BY <1>14, NotifyEdits DEF RunGoes, Tells, Logged, TypeOK, StoreTyped
  <2> QED BY <1>14, <2>1 DEF Notify, TypeOK, StoreTyped, RunsTyped, ReviewsTyped
<1>15. ASSUME NEW t \in Tasks, WorkerStops(t) PROVE TypeOK'
  BY <1>15, GoesOn DEF WorkerStops, RunFrame, RunGoes, TypeOK, StoreTyped, RunsTyped, ReviewsTyped
<1>16. ASSUME NEW t \in Tasks, WorkerFails(t) PROVE TypeOK'
  BY <1>16, GoesOn DEF WorkerFails, RunFrame, RunGoes, TypeOK, StoreTyped, RunsTyped, ReviewsTyped
<1>17. ASSUME NEW t \in Tasks, Ask(t) PROVE TypeOK'
  <2>1. Routes(t) \subseteq Conns /\ asked' = [asked EXCEPT ![t] = Routes(t)]
    BY <1>17 DEF Ask, Routes
  <2>2. asked' \in [Tasks -> SUBSET Conns]
    BY <2>1 DEF TypeOK
  <2> QED BY <1>17, <2>2 DEF Ask, TypeOK, StoreTyped, RunsTyped, ReviewsTyped
<1>18. ASSUME NEW t \in Tasks, AskCancelled(t) PROVE TypeOK'
  BY <1>18 DEF AskCancelled, TypeOK, StoreTyped, RunsTyped, ReviewsTyped
<1>19. ASSUME NEW t \in Tasks, NEW c \in Conns, NEW settles \in BOOLEAN, Answer(t, c, settles)
       PROVE  TypeOK'
  BY <1>19 DEF Answer, TypeOK, StoreTyped, RunsTyped, ReviewsTyped
<1>20. ASSUME NEW c \in Conns, CheckComplete(c) PROVE TypeOK'
  BY <1>20, CheckPrompt DEF CheckComplete, TypeOK, StoreTyped, RunsTyped, ReviewsTyped
<1>21. ASSUME NEW c \in Conns, ReadEvents(c) PROVE TypeOK'
  BY <1>21, ReadPrompt DEF ReadEvents, ConnInv, TypeOK, StoreTyped, RunsTyped, ReviewsTyped
<1>22. ASSUME NEW c \in Conns, NEW closes \in BOOLEAN, CancelPrompt(c, closes) PROVE TypeOK'
  <2>1. conn' \in [Conns -> ConnStates]
    BY <1>22, CancelPrompts
  <2>2. ctxDone' \subseteq Tasks
    BY <1>22 DEF CancelPrompt, ConnInv, TypeOK, RunsTyped
  <2> QED BY <1>22, <2>1, <2>2 DEF CancelPrompt, TypeOK, StoreTyped, RunsTyped, ReviewsTyped
<1>23. ASSUME NEW u \in Reviewers, MergeFF(u) PROVE TypeOK'
  <2>1. /\ rev[u] \in [task : Tasks \cup {NoTask}, snap : Snapshot, todo : Plans]
        /\ rev[u].todo # <<>> /\ rev[u].task \in Tasks /\ rev[u].snap \in Snapshot
    BY <1>23 DEF MergeFF, Doing, ReviewInv, ReviewOf, TypeOK, ReviewsTyped
  <2>2. Tail(rev[u].todo) \in Plans
    BY <2>1, PlanSteps
  <2>3. \E left \in Plans : Continues(u, left, rev[u].snap)
    BY <1>23, <2>1, <2>2, ContinueEdits, PlanHeads DEF MergeFF
  <2>4. ReviewsTyped'
    BY <2>3 DEF Continues, TypeOK, ReviewsTyped
  <2> QED BY <1>23, <2>1, <2>4 DEF MergeFF, TypeOK, StoreTyped, RunsTyped
<1>24. ASSUME NEW u \in Reviewers, Look(u) PROVE TypeOK'
  <2>1. /\ rev[u] \in [task : Tasks \cup {NoTask}, snap : Snapshot, todo : Plans]
        /\ rev[u].todo # <<>> /\ rev[u].task \in Tasks /\ rev[u].snap \in Snapshot
    BY <1>24 DEF Look, Doing, ReviewInv, ReviewOf, TypeOK, ReviewsTyped
  <2>2. Tail(rev[u].todo) \in Plans
    BY <2>1, PlanSteps
  <2>3. \E left \in Plans : Continues(u, left, rev[u].snap)
    BY <1>24, <2>1, <2>2, ContinueEdits, PlanHeads DEF Look
  <2>4. ReviewsTyped'
    BY <2>3 DEF Continues, TypeOK, ReviewsTyped
  <2> QED BY <1>24, <2>1, <2>4 DEF Look, TypeOK, StoreTyped, RunsTyped
<1>25. ASSUME NEW u \in Reviewers, NEW to \in Status, Move(u, to) PROVE TypeOK'
  <2>1. PICK s \in Snapshot : Moves(u, to, s) \/ Balks(u, s)
    BY <1>0, <1>25, MoveEdits
  <2>2. /\ FileTyped /\ mem' \in [Tasks -> Snapshot \cup {NoTask}] /\ faults' \in 0 .. MaxFaults
        /\ log' \in [Tasks -> Seq(Status)] /\ unlogged' \subseteq Tasks
        /\ conn' \in [Conns -> ConnStates]
    BY <2>1 DEF Moves, Balks, Stored, Cut, Tells, Logged, TypeOK, StoreTyped
  <2>3. StoreTyped'
    BY <2>2 DEF FileTyped, StoreTyped
  <2>4. ReviewsTyped'
    BY <2>1 DEF Moves, Balks, Continues, TypeOK, ReviewsTyped
  <2> QED BY <1>25, <2>2, <2>3, <2>4 DEF Move, TypeOK, RunsTyped
<1>26. ASSUME NEW u \in Reviewers, NEW works \in BOOLEAN, Remove(u, works) PROVE TypeOK'
  <2>1. /\ rev[u] \in [task : Tasks \cup {NoTask}, snap : Snapshot, todo : Plans]
        /\ rev[u].todo # <<>> /\ rev[u].task \in Tasks /\ rev[u].snap \in Snapshot
    BY <1>26 DEF Remove, Doing, ReviewInv, ReviewOf, TypeOK, ReviewsTyped
  <2>2. Tail(rev[u].todo) \in Plans
    BY <2>1, PlanSteps
  <2>3. Continues(u, Tail(rev[u].todo), rev[u].snap)
    BY <1>26, <2>1, <2>2, ContinueEdits DEF Remove
  <2>4. ReviewsTyped'
    BY <2>3 DEF Continues, TypeOK, ReviewsTyped
  <2> QED BY <1>26, <2>1, <2>4 DEF Remove, TypeOK, StoreTyped, RunsTyped
<1>27. CASE StopBegin
  <2>1. ctxDone' \subseteq Tasks
    BY <1>27 DEF StopBegin, ConnInv, TypeOK, RunsTyped
  <2> QED BY <1>27, <2>1, StopPrompts DEF StopBegin, TypeOK, StoreTyped, RunsTyped, ReviewsTyped
<1>28. CASE StopWaited
  BY <1>28 DEF StopWaited, TypeOK, StoreTyped, RunsTyped, ReviewsTyped
<1>29. CASE StopClose
  BY <1>29 DEF StopClose, TypeOK, StoreTyped, RunsTyped, ReviewsTyped
<1>30. CASE Die
  <2>1. /\ Queued \in Snapshot /\ NoRun \in RunStates
        /\ Idle \in [task : Tasks \cup {NoTask}, snap : Snapshot, todo : Plans]
    BY DEF NoRun, Idle, Queued, Snapshot, Status, RunStates, RunPCs, Plans
  <2>2. /\ conn' = [c \in Conns |-> Accepted] /\ run' = [t \in Tasks |-> NoRun]
        /\ rev' = [u \in Reviewers |-> Idle] /\ mem' = [t \in Tasks |-> NoTask]
        /\ asked' = [t \in Tasks |-> {}]
        /\ log' = [t \in Tasks |-> <<>>] /\ unlogged' = {}
    BY <1>30 DEF Die
  <2>3. run' \in [Tasks -> RunStates] /\ conn' \in [Conns -> ConnStates] /\ ReviewsTyped'
    BY <1>30, <2>1, <2>2, AcceptedIsTyped DEF Die, ReviewsTyped
  <2>4. FileTyped /\ faults' \in 0 .. MaxFaults
    BY <1>0, <1>30, DieEdits
  <2>5. StoreTyped'
    BY <2>2, <2>4 DEF FileTyped, StoreTyped
  <2> QED BY <1>30, <2>2, <2>3, <2>4, <2>5 DEF Die, TypeOK, RunsTyped
<1>31. CASE Start
  <2>1. NoRun \in RunStates /\ [NoRun EXCEPT !.pc = "ended"] \in RunStates
    BY DEF NoRun, Queued, Snapshot, Status, RunStates, RunPCs
  <2>2. \A s \in Snapshot : [NoRun EXCEPT !.pc = "launched", !.snap = s] \in RunStates
    BY DEF NoRun, RunStates, RunPCs
  <2>3. run' \in [Tasks -> RunStates] /\ running' \subseteq Tasks
    BY <1>31, <2>1, <2>2 DEF Start, TypeOK, StoreTyped
  <2>4. /\ mem' = disk /\ UNCHANGED <<fileVars, logVars, ctxDone, gitVars, reviewVars>>
        /\ UNCHANGED <<conn, asked, code, faults>> /\ daemon' = "up"
    BY <1>31 DEF Start, ReplayStore
  <2>5. starts' \in 0 .. MaxStarts
    <3>1. starts < MaxStarts /\ starts' = starts + 1
      BY <1>31 DEF Start
    <3>2. starts \in 0 .. MaxStarts
      BY DEF TypeOK
    <3> QED BY <3>1, <3>2
  <2> QED BY <2>3, <2>4, <2>5 DEF TypeOK, StoreTyped, RunsTyped, ReviewsTyped
<1>32. CASE UNCHANGED vars
  BY <1>32 DEF vars, TypeOK, StoreTyped, RunsTyped, ReviewsTyped
<1> QED
  BY <1>1, <1>2, <1>3, <1>4, <1>5, <1>6, <1>7, <1>8, <1>9, <1>10, <1>11, <1>12, <1>13, <1>14,
     <1>15, <1>16, <1>17, <1>18, <1>19, <1>20, <1>21, <1>22, <1>23, <1>24, <1>25, <1>26, <1>27,
     <1>28, <1>29, <1>30, <1>31, <1>32
  DEF Next, handleDispatch, ingressRun, Orchestrate, SaveStep, Observe, Handle, ReviewOps

(* The tasks a step does not concern *)

(* What the proofs below need of the types.                                *)
LEMMA TaskBasics ==
    ASSUME TypeOK, NEW t \in Tasks
    PROVE  /\ mem[t] # NoTask => mem[t] \in Snapshot /\ mem[t].status \in Status
           /\ disk[t] # NoTask => disk[t] \in Snapshot /\ disk[t].status \in Status
           /\ under[t] # NoTask => under[t] \in Snapshot /\ under[t].status \in Status
           /\ run[t] \in RunStates /\ run[t].pc \in RunPCs
           /\ run[t].snap \in Snapshot /\ run[t].snap.status \in Status
BY DEF TypeOK, StoreTyped, RunsTyped, RunStates, Snapshot

(* A snapshot is there, and its status is one of a state machine.          *)
LEMMA SnapshotIsThere == \A s \in Snapshot : s # NoTask /\ s.status \in Status
BY NoTaskIsNoSnapshot DEF Snapshot

(* The step leaves every task but t as it is, except that it may go back   *)
(* to what it was before an unfinished line.                               *)
Concerns(t) ==
    \A q \in Tasks : q # t =>
        /\ mem'[q] = mem[q] /\ run'[q] = run[q] /\ (Kept(q) \/ Dropped(q))
        /\ q \in running' <=> q \in running
        /\ q \in code' <=> q \in code
        /\ q \in worktree' <=> q \in worktree
        /\ q \in branch' <=> q \in branch

(* The steps of a run concern its task.                                    *)
RunStep(t) ==
    \/ \E by \in Conns \cup {Nobody} : Submit(t, by)
    \/ Register(t) \/ Orchestrate(t) \/ Notify(t) \/ WorkerStops(t) \/ WorkerFails(t)

(* Where Begin and Verify go, and why.                                     *)
LEMMA BeginGoes ==
    ASSUME TypeOK, NEW t \in Tasks, Begin(t)
    PROVE  /\ run[t].pc = "launched" /\ run[t].note = <<>> /\ daemon # "down"
           /\ \/ /\ RunGoes(t, "exit", run[t].snap, <<>>)
                 /\ mem[t] # NoTask /\ mem[t].status # run[t].snap.status
              \/ /\ RunGoes(t, "verify", run[t].snap, <<>>)
                 /\ run[t].snap.status \in {"dispatching", "working"}
              \/ /\ RunGoes(t, "enqueue", run[t].snap, <<>>)
                 /\ run[t].snap.status \notin {"dispatching", "working"}
<1>1. run[t].pc = "launched" /\ run[t].note = <<>> /\ daemon # "down"
  BY DEF Begin, At
<1>2. \/ Goto(t, "exit") /\ mem[t] # NoTask /\ mem[t].status # run[t].snap.status
      \/ Goto(t, "verify") /\ run[t].snap.status \in {"dispatching", "working"}
      \/ Goto(t, "enqueue") /\ run[t].snap.status \notin {"dispatching", "working"}
  BY DEF Begin
<1> QED BY <1>1, <1>2, GotoEdits DEF RunPCs

(* verifyWorkspace lets a code task go on only with its worktree.          *)
LEMMA VerifyGoes ==
    ASSUME TypeOK, NEW t \in Tasks, Verify(t)
    PROVE  /\ run[t].pc = "verify" /\ run[t].note = <<>> /\ daemon # "down"
           /\ \/ RunGoes(t, "fail", run[t].snap, <<>>)
              \/ /\ RunGoes(t, "engage", run[t].snap, <<>>)
                 /\ t \in code /\ run[t].snap.wt => t \in worktree
<1>1. run[t].pc = "verify" /\ run[t].note = <<>> /\ daemon # "down"
  BY DEF Verify, At
<1>2. \/ Goto(t, "fail")
      \/ Goto(t, "engage") /\ (t \in code /\ run[t].snap.wt => t \in worktree)
  BY DEF Verify
<1> QED BY <1>1, <1>2, GotoEdits DEF RunPCs

(* Everything a run does concerns its own task.                            *)
LEMMA RunConcerns ==
    ASSUME TypeOK, FileInv, NEW t \in Tasks, RegistryOf(t), RunStep(t)
    PROVE  Concerns(t) /\ daemon' = daemon /\ FileInv'
<1>1. ASSUME NEW by \in Conns \cup {Nobody}, Submit(t, by)
      PROVE  Concerns(t) /\ daemon' = daemon /\ FileInv'
  BY <1>1, SubmitEdits DEF Submit, storeVars, fileVars, gitVars, reviewVars, lifeVars,
      Concerns, Kept, FileInv
<1>2. CASE Register(t)
  BY <1>2, GoesOn
  DEF Register, RunFrame, storeVars, fileVars, gitVars, reviewVars, lifeVars,
      RunGoes, Concerns, Kept, FileInv
<1>3. CASE Begin(t)
  BY <1>3, GoesOn
  DEF Begin, RunFrame, storeVars, fileVars, gitVars, reviewVars, lifeVars,
      RunGoes, Concerns, Kept, FileInv
<1>4. CASE Verify(t)
  BY <1>4, GoesOn
  DEF Verify, RunFrame, storeVars, fileVars, gitVars, reviewVars, lifeVars,
      RunGoes, Concerns, Kept, FileInv
<1>5. CASE Engage(t)
  BY <1>5, GoesOn
  DEF Engage, Engaged, RunFrame, storeVars, fileVars, gitVars, reviewVars, lifeVars,
      RunGoes, Concerns, Kept, FileInv
<1>6. CASE WorkerStops(t)
  BY <1>6, GoesOn
  DEF WorkerStops, RunFrame, storeVars, fileVars, gitVars, reviewVars, lifeVars,
      RunGoes, Concerns, Kept, FileInv
<1>7. CASE WorkerFails(t)
  BY <1>7, GoesOn
  DEF WorkerFails, RunFrame, storeVars, fileVars, gitVars, reviewVars, lifeVars,
      RunGoes, Concerns, Kept, FileInv
<1>8. CASE PromptCancelled(t)
  BY <1>8, GoesOn
  DEF PromptCancelled, RunFrame, storeVars, fileVars, gitVars, reviewVars, lifeVars,
      RunGoes, Concerns, Kept, FileInv
<1>9. CASE Collect(t)
  BY <1>9, GoesOn
  DEF Collect, RunFrame, storeVars, fileVars, gitVars, reviewVars, lifeVars,
      RunGoes, Concerns, Kept, FileInv
<1>10. CASE Cleanup(t)
  BY <1>10, GoesOn
  DEF Cleanup, RunFrame, storeVars, fileVars, gitVars, reviewVars, lifeVars,
      RunGoes, Concerns, Kept, FileInv
<1>11. CASE SaveStep(t)
  <2>1. UNCHANGED <<running, code, worktree, branch, daemon>>
    BY <1>11, SaveStepDoes
  <2>2. PICK s \in Snapshot, next \in RunPCs : Saves(t, s, next) \/ Refuses(t, s, next)
    BY <1>11, SaveStepDoes DEF SaveDoes
  <2>3. FileInv' /\ \A q \in Tasks : q # t => Kept(q) \/ Dropped(q)
    BY <2>2 DEF Saves, Refuses, Stored, Cut, FileTyped
  <2>4. \A q \in Tasks : q # t => mem'[q] = mem[q] /\ run'[q] = run[q]
    BY <2>2 DEF Saves, Refuses, Stored, RunGoes
  <2> QED BY <2>1, <2>3, <2>4 DEF Concerns
<1>12. CASE Prepare(t)
  <2>1. UNCHANGED <<mem, disk, tail, running, under, lost, code, daemon>>
    BY <1>12 DEF Prepare, RunFrame, storeVars, fileVars, gitVars, reviewVars, lifeVars
  <2>2. PICK s \in Snapshot, pc \in RunPCs : Prepared(t, pc, s)
    BY <1>12, PrepareEdits
  <2> QED BY <2>1, <2>2 DEF RunGoes, Concerns, Prepared, Kept, FileInv
<1>13. CASE Exit(t)
  BY <1>13, ExitEdits DEF Exit, RunFrame, storeVars, fileVars, gitVars, reviewVars, lifeVars,
      Concerns, Kept, FileInv
<1>14. CASE Notify(t)
  BY <1>14, NotifyEdits
  DEF Notify, RunFrame, storeVars, fileVars, gitVars, reviewVars, lifeVars,
      RunGoes, Concerns, Kept, FileInv
<1> QED
  BY <1>1, <1>2, <1>3, <1>4, <1>5, <1>6, <1>7, <1>8, <1>9, <1>10, <1>11, <1>12, <1>13, <1>14
  DEF RunStep, Orchestrate, SaveStep

(* The steps that leave the runs, the store, git and the reviews alone.    *)
Aside ==
    \/ \E c \in Conns, t \in Tasks : Subscribe(c, t)
    \/ \E c \in Conns : Observe(c) \/ \E closes \in BOOLEAN : CancelPrompt(c, closes)
    \/ \E t \in Tasks : Ask(t) \/ AskCancelled(t)
    \/ \E t \in Tasks, c \in Conns, settles \in BOOLEAN : Answer(t, c, settles)
    \/ UNCHANGED vars

Stops == StopBegin \/ StopWaited \/ StopClose

(* The kinds of steps the proofs tell apart.                               *)
LEMMA NextCases ==
    [Next]_vars => \/ \E t \in Tasks : RunStep(t)
                   \/ \E u \in Reviewers, op \in ReviewOps, t \in Tasks : Decide(u, op, t)
                   \/ \E u \in Reviewers : MergeFF(u) \/ Look(u)
                   \/ \E u \in Reviewers, to \in Status : Move(u, to)
                   \/ \E u \in Reviewers, works \in BOOLEAN : Remove(u, works)
                   \/ Stops \/ Start \/ Aside \/ Die
BY DEF Next, handleDispatch, ingressRun, Handle, RunStep, ReviewOps, Stops, Aside

(* What those steps leave alone, by name.                                  *)
LEMMA AsideFrame ==
    /\ Aside => /\ UNCHANGED <<mem, disk, tail, under, lost, run, running, code, worktree, branch>>
                /\ UNCHANGED <<transitionMu, rev, daemon, unlogged>>
    /\ Stops => /\ UNCHANGED <<mem, disk, tail, under, lost, run, running, code, worktree, branch>>
                /\ UNCHANGED <<transitionMu, rev, log, unlogged>> /\ daemon # "down" /\ daemon' # "down"
                /\ storeOpen' => storeOpen
    /\ \A u \in Reviewers, op \in ReviewOps, t \in Tasks : Decide(u, op, t) =>
         UNCHANGED <<mem, disk, tail, under, lost, run, running, code, worktree, branch, daemon,
                    conn, log,
                         unlogged>>
    /\ \A u \in Reviewers : MergeFF(u) \/ Look(u) =>
         UNCHANGED <<mem, disk, tail, under, lost, run, running, code, worktree, branch, daemon,
                    conn, log,
                         unlogged>>
    /\ \A u \in Reviewers, to \in Status : Move(u, to) =>
         UNCHANGED <<run, running, code, worktree, branch, daemon>>
    /\ \A u \in Reviewers, works \in BOOLEAN : Remove(u, works) =>
         UNCHANGED <<mem, disk, tail, under, lost, run, running, code, daemon, conn, log,
                         unlogged>>
<1> USE DEF storeVars, fileVars, logVars, gitVars, reviewVars, lifeVars
<1>1. ASSUME Aside
      PROVE  /\ UNCHANGED <<mem, disk, tail, under, lost, run, running, code, worktree, branch>>
             /\ UNCHANGED <<transitionMu, rev, daemon, unlogged>>
  <2>1. CASE \E c \in Conns, t \in Tasks : Subscribe(c, t)
    BY <2>1 DEF Subscribe
  <2>2. CASE \E c \in Conns : Observe(c) \/ \E closes \in BOOLEAN : CancelPrompt(c, closes)
    BY <2>2 DEF Observe, CheckComplete, ReadEvents, CancelPrompt
  <2>3. CASE \E t \in Tasks : Ask(t) \/ AskCancelled(t)
    BY <2>3 DEF Ask, AskCancelled
  <2>4. CASE \E t \in Tasks, c \in Conns, settles \in BOOLEAN : Answer(t, c, settles)
    BY <2>4 DEF Answer
  <2>5. CASE UNCHANGED vars
    BY <2>5 DEF vars
  <2> QED BY <1>1, <2>1, <2>2, <2>3, <2>4, <2>5 DEF Aside
<1>2. ASSUME Stops
      PROVE  /\ UNCHANGED <<mem, disk, tail, under, lost, run, running, code, worktree, branch>>
             /\ UNCHANGED <<transitionMu, rev, log, unlogged>> /\ daemon # "down" /\ daemon' # "down"
             /\ storeOpen' => storeOpen
  <2>1. CASE StopBegin
    BY <2>1 DEF StopBegin, storeOpen
  <2>2. CASE StopWaited
    BY <2>2 DEF StopWaited, storeOpen
  <2>3. CASE StopClose
    BY <2>3 DEF StopClose, storeOpen
  <2> QED BY <1>2, <2>1, <2>2, <2>3 DEF Stops
<1>3. ASSUME NEW u \in Reviewers, NEW op \in ReviewOps, NEW t \in Tasks, Decide(u, op, t)
      PROVE  UNCHANGED <<mem, disk, tail, under, lost, run, running, code, worktree, branch, daemon,
                    conn, log,
                         unlogged>>
  BY <1>3 DEF Decide
<1>4. ASSUME NEW u \in Reviewers, MergeFF(u) \/ Look(u)
      PROVE  UNCHANGED <<mem, disk, tail, under, lost, run, running, code, worktree, branch, daemon,
                    conn, log,
                         unlogged>>
  <2>1. CASE MergeFF(u)
    BY <2>1 DEF MergeFF
  <2>2. CASE Look(u)
    BY <2>2 DEF Look
  <2> QED BY <1>4, <2>1, <2>2
<1>5. ASSUME NEW u \in Reviewers, NEW to \in Status, Move(u, to)
      PROVE  UNCHANGED <<run, running, code, worktree, branch, daemon>>
  BY <1>5 DEF Move
<1>6. ASSUME NEW u \in Reviewers, NEW works \in BOOLEAN, Remove(u, works)
      PROVE  UNCHANGED <<mem, disk, tail, under, lost, run, running, code, daemon, conn, log,
                         unlogged>>
  BY <1>6 DEF Remove
<1> QED BY <1>1, <1>2, <1>3, <1>4, <1>5, <1>6

(* A save of a run keeps what is said of its task.                         *)
LEMMA SaveKeeps ==
    ASSUME TypeOK, TaskInv, NEW t \in Tasks, NEW s \in Snapshot, NEW next \in RunPCs,
           SaveDoes(t, s, next), UNCHANGED <<running, code, worktree, branch, daemon>>
    PROVE  RegistryOf(t)' /\ StoreOf(t)' /\ (t \in code => WorkOf(t)')
<1>1. /\ RegistryOf(t) /\ StoreOf(t) /\ (t \in code => WorkOf(t)) /\ s # NoTask
      /\ s.status \in Status /\ s.session \in BOOLEAN
  BY SnapshotIsThere DEF TaskInv, RegistryInv, StoreInv, WorkInv, Snapshot
<1>2. /\ SaveFits(t, s, next)
      /\ (Saves(t, s, next) /\ SaveGoes(s, next)) \/ Refuses(t, s, next)
  BY DEF SaveDoes
<1>3. /\ run'[t].pc = next /\ run'[t].snap = s
      /\ run'[t].note # <<>> =>
           run'[t].note = <<s.status>> /\ mem'[t] = s /\ SaveGoes(s, next)
      /\ mem'[t] = mem[t] \/ (mem'[t] = s /\ SaveGoes(s, next))
  <2>1. CASE Saves(t, s, next) /\ SaveGoes(s, next)
    BY <2>1 DEF Saves, RunGoes, Stored
  <2>2. CASE Refuses(t, s, next)
    BY <2>2 DEF Refuses, RunGoes
  <2> QED BY <1>2, <2>1, <2>2
<1>4. \/ Filed(t, s) /\ mem'[t] = s /\ SaveGoes(s, next)
      \/ Glued(t, s) /\ mem'[t] = s /\ SaveGoes(s, next)
      \/ Kept(t) /\ mem'[t] = mem[t]
      \/ Dropped(t) /\ mem'[t] = mem[t]
      \/ Whole(t, s, TRUE) /\ mem'[t] = mem[t]
  BY <1>2 DEF Saves, Refuses, Stored, Cut
<1>5. RegistryOf(t)'
  <2>1. run'[t].note # <<>> =>
          /\ mem'[t] # NoTask
          /\ tailComplete(run'[t].note[1]) \/ (next # "exit" /\ ~tailComplete(mem'[t].status))
    BY <1>1, <1>2, <1>3
    DEF SaveFits, SaveGoes, ResumableStates, tailComplete, Terminal
  <2> QED BY <1>1, <1>2, <1>3, <2>1
  DEF RegistryOf, SaveFits, SaveGoes, Has, Saving, ResumableStates, ReviewedStates, Status,
      tailComplete, Terminal
<1>6. ASSUME t \notin lost' PROVE AgreedOf(t)'
  <2>1. t \notin lost /\ AgreedOf(t)
    BY <1>1, <1>4, <1>6 DEF StoreOf, Filed, Glued, Kept, Dropped, Whole
  <2>2. ~Has(disk[t], OverStates) /\ ~Has(under[t], OverStates) /\ daemon # "down"
    BY <1>2, <2>1
    DEF AgreedOf, SaveFits, Saving, Has, OverStates, ReviewedStates, ByReview
  <2>3. ~Has(mem'[t], {"merging", "done", "rejected"})
    BY <1>1, <1>2, <1>3
    DEF RegistryOf, SaveFits, Saving, Has, ReviewedStates, ResumableStates
  <2>4. ~Has(mem[t], ReviewedStates)
    BY <1>1, <1>2 DEF RegistryOf, SaveFits, Saving
  <2>5. CASE Filed(t, s) /\ mem'[t] = s /\ SaveGoes(s, next)
    BY <1>2, <1>3, <2>3, <2>5
    DEF AgreedOf, Filed, Has, SaveFits, SaveGoes, OverStates, ReviewedStates, ResumableStates
  <2>6. CASE disk'[t] \in {disk[t], under[t]} /\ under'[t] = under[t]
    BY <2>2, <2>3, <2>6 DEF AgreedOf, Has, OverStates, ReviewedStates
  <2>7. CASE Whole(t, s, TRUE)
    BY <1>6, <2>7 DEF Whole
  <2> QED BY <1>4, <2>5, <2>6, <2>7 DEF Glued, Kept, Dropped
<1>7. StoreOf(t)'
  <2>1. daemon' # "down" /\ run'[t].pc \notin {"none", "admitted"}
    BY <1>2, <1>3 DEF SaveFits
  <2>2. under'[t] # disk'[t] => disk'[t] # NoTask
    BY <1>1, <1>4 DEF StoreOf, Filed, Glued, Kept, Dropped, Whole
  <2> QED BY <1>6, <2>1, <2>2 DEF StoreOf
<1>8. ASSUME t \in code PROVE WorkOf(t)'
  <2>1. /\ WorkOf(t)
        /\ disk'[t] \in {disk[t], under[t], s} /\ under'[t] \in {disk[t], under[t], s}
        /\ t \in lost => t \in lost'
    BY <1>1, <1>4, <1>8 DEF Filed, Glued, Kept, Dropped, Whole
  <2>2. s.status \in {"dispatching", "working"} => s.wt
    BY <1>2, <2>1 DEF SaveFits, WorkOf
  <2>3. /\ Has(disk'[t], {"dispatching", "working"}) => disk'[t].wt
        /\ Has(under'[t], {"dispatching", "working"}) => under'[t].wt
    BY <2>1, <2>2 DEF WorkOf, Has
  <2>4. /\ next \in Working => t \in worktree /\ s.wt
        /\ next # "verify" /\ next # "launched"
    BY <1>2, <2>1 DEF SaveFits, WorkOf
  <2>5. ASSUME t \notin lost' PROVE KeptOf(t)'
    <3>1. t \notin lost /\ KeptOf(t) /\ ~Whole(t, s, TRUE)
      BY <2>1, <2>5 DEF WorkOf, Whole
    <3>2. s.session => t \in branch
      BY <1>2, <3>1 DEF SaveFits, Saving, Active, RunPCs, KeptOf
    <3>3. s.status = "awaiting_review" => t \in worktree
      BY <1>2, <2>1 DEF SaveFits, WorkOf
    <3>4. /\ NeedsBranch(under[t], ResumableStates) => t \in branch
          /\ ~Has(disk[t], {"awaiting_review"}) /\ ~Has(under[t], OverStates)
          /\ AgreedOf(t)
      BY <1>1, <1>2, <3>1
      DEF KeptOf, StoreOf, AgreedOf, SaveFits, Saving, Has, OverStates, ReviewedStates, ByReview
    <3>5. /\ NeedsBranch(disk'[t], ResumableStates \cup {"failed"}) => t \in branch
          /\ NeedsBranch(under'[t], ResumableStates) => t \in branch
      BY <1>4, <3>1, <3>2, <3>4
      DEF Filed, Glued, Kept, Dropped, NeedsBranch, Has, KeptOf, OverStates, ResumableStates
    <3>6. Has(disk'[t], {"awaiting_review"}) => t \in worktree
      BY <1>4, <3>1, <3>3, <3>4 DEF Filed, Glued, Kept, Dropped, Has, OverStates, ReviewedStates
    <3>7. /\ NeedsBranch(mem'[t], {"failed"}) => t \in branch
          /\ Has(mem'[t], {"awaiting_review"}) => t \in worktree
      BY <1>3, <3>1, <3>2, <3>3 DEF KeptOf, NeedsBranch, Has
    <3> QED BY <1>3, <3>2, <3>5, <3>6, <3>7 DEF KeptOf
  <2> QED BY <1>3, <2>3, <2>4, <2>5 DEF WorkOf
<1> QED BY <1>5, <1>7, <1>8

(* Every step of a run keeps what is said of its task.                     *)
LEMMA RunKeeps ==
    ASSUME TypeOK, TaskInv, NEW t \in Tasks, RunStep(t)
    PROVE  RegistryOf(t)' /\ StoreOf(t)' /\ (t \in code' => WorkOf(t)') /\ worktree' \subseteq branch'
<1>1. /\ RegistryOf(t) /\ StoreOf(t) /\ (t \in code => WorkOf(t)) /\ worktree \subseteq branch
      /\ mem[t] # NoTask => mem[t] \in Snapshot /\ mem[t].status \in Status
      /\ disk[t] # NoTask => disk[t] \in Snapshot /\ disk[t].status \in Status
      /\ run[t].pc \in RunPCs /\ run[t].snap \in Snapshot /\ run[t].snap.status \in Status
      /\ FileInv
  BY TaskBasics DEF TaskInv, RegistryInv, StoreInv, WorkInv
<1>2. ASSUME NEW by \in Conns \cup {Nobody}, Submit(t, by)
      PROVE  RegistryOf(t)' /\ StoreOf(t)' /\ (t \in code' => WorkOf(t)') /\ worktree' \subseteq branch'
  <2>1. /\ run'[t].pc = "admitted" /\ run'[t].note = <<>> /\ run'[t].snap = Queued
    BY <1>2, SubmitEdits
  <2>2. /\ UNCHANGED <<mem, disk, tail, under, lost, running, worktree, branch, daemon>>
        /\ daemon # "down" /\ mem[t] = NoTask /\ run[t].pc = "none"
    BY <1>2 DEF Submit, storeVars, fileVars, gitVars, lifeVars
  <2>3. Queued.wt = FALSE
    BY DEF Queued
  <2>4. RegistryOf(t)'
    BY <1>1, <2>1, <2>2, <2>3 DEF RegistryOf, Has, ResumableStates, ReviewedStates
  <2>5. StoreOf(t)'
    BY <1>1, <2>1, <2>2, <2>3
    DEF StoreOf, AgreedOf, Has, ResumableStates, ReviewedStates, OverStates, RegistryOf
  <2>6. t \in code' => WorkOf(t)'
    BY <1>1, <2>1, <2>2, <2>3
    DEF WorkOf, KeptOf, NeedsBranch, Has, ResumableStates, ReviewedStates, Working, Active,
        RunPCs, RegistryOf, StoreOf
  <2>7. worktree' \subseteq branch'
    BY <1>1, <2>1, <2>2, <2>3
  <2> QED BY <2>4, <2>5, <2>6, <2>7
<1>3. CASE Register(t)
  <2>1. /\ run[t].pc = "admitted" /\ run[t].note = <<>> /\ daemon # "down"
        /\ RunGoes(t, "launched", run[t].snap, <<>>)
    BY <1>3, GoesOn
  <2>2. /\ UNCHANGED <<mem, disk, tail, under, lost, code, worktree, branch, daemon>>
        /\ running' = running \cup {t}
    BY <1>3 DEF Register, RunFrame, storeVars, fileVars, gitVars, reviewVars, lifeVars
  <2>3. Queued.wt = FALSE /\ Queued.session = FALSE /\ Queued.status = "queued"
    BY DEF Queued
  <2>4. RegistryOf(t)'
    BY <1>1, <2>1, <2>2, <2>3 DEF RegistryOf, Has, ResumableStates, ReviewedStates, RunGoes
  <2>5. StoreOf(t)'
    BY <1>1, <2>1, <2>2, <2>3
    DEF StoreOf, AgreedOf, Has, ResumableStates, ReviewedStates, OverStates, RegistryOf,
        RunGoes
  <2>6. t \in code' => WorkOf(t)'
    BY <1>1, <2>1, <2>2, <2>3
    DEF WorkOf, KeptOf, NeedsBranch, Has, ResumableStates, ReviewedStates, Working, Active,
        RunPCs, RegistryOf, StoreOf, RunGoes
  <2>7. worktree' \subseteq branch'
    BY <1>1, <2>1, <2>2, <2>3
  <2> QED BY <2>4, <2>5, <2>6, <2>7
<1>4. CASE Begin(t)
  <2>1. /\ run[t].pc = "launched" /\ run[t].note = <<>> /\ daemon # "down"
        /\ \/ /\ RunGoes(t, "exit", run[t].snap, <<>>)
              /\ mem[t] # NoTask /\ mem[t].status # run[t].snap.status
           \/ /\ RunGoes(t, "verify", run[t].snap, <<>>)
              /\ run[t].snap.status \in {"dispatching", "working"}
           \/ /\ RunGoes(t, "enqueue", run[t].snap, <<>>)
              /\ run[t].snap.status \notin {"dispatching", "working"}
    BY <1>4, BeginGoes
  <2>2. UNCHANGED <<mem, disk, tail, under, lost, running, code, worktree, branch, daemon>>
    BY <1>4 DEF Begin, RunFrame, storeVars, fileVars, gitVars, reviewVars, lifeVars
  <2>3. RegistryOf(t)'
    BY <1>1, <2>1, <2>2 DEF RegistryOf, Has, ResumableStates, ReviewedStates, RunGoes
  <2>4. StoreOf(t)'
    BY <1>1, <2>1, <2>2
    DEF StoreOf, AgreedOf, Has, ResumableStates, ReviewedStates, OverStates, RegistryOf,
        RunGoes
  <2>5. t \in code' => WorkOf(t)'
    BY <1>1, <2>1, <2>2
    DEF WorkOf, KeptOf, NeedsBranch, Has, ResumableStates, ReviewedStates, Working, Active,
        RunPCs, RegistryOf, StoreOf, RunGoes
  <2>6. worktree' \subseteq branch'
    BY <1>1, <2>1, <2>2
  <2> QED BY <2>3, <2>4, <2>5, <2>6
<1>5. CASE Verify(t)
  <2>1. /\ run[t].pc = "verify" /\ run[t].note = <<>> /\ daemon # "down"
        /\ \/ RunGoes(t, "fail", run[t].snap, <<>>)
           \/ /\ RunGoes(t, "engage", run[t].snap, <<>>)
              /\ t \in code /\ run[t].snap.wt => t \in worktree
    BY <1>5, VerifyGoes
  <2>2. UNCHANGED <<mem, disk, tail, under, lost, running, code, worktree, branch, daemon>>
    BY <1>5 DEF Verify, RunFrame, storeVars, fileVars, gitVars, reviewVars, lifeVars
  <2>3. RegistryOf(t)'
    BY <1>1, <2>1, <2>2 DEF RegistryOf, Has, ResumableStates, ReviewedStates, RunGoes
  <2>4. StoreOf(t)'
    BY <1>1, <2>1, <2>2
    DEF StoreOf, AgreedOf, Has, ResumableStates, ReviewedStates, OverStates, RegistryOf,
        RunGoes
  <2>5. t \in code' => WorkOf(t)'
    BY <1>1, <2>1, <2>2
    DEF WorkOf, KeptOf, NeedsBranch, Has, ResumableStates, ReviewedStates, Working, Active,
        RunPCs, RegistryOf, StoreOf, RunGoes
  <2>6. worktree' \subseteq branch'
    BY <1>1, <2>1, <2>2
  <2> QED BY <2>3, <2>4, <2>5, <2>6
<1>6. CASE Engage(t)
  <2>1. /\ run[t].pc = "engage" /\ run[t].note = <<>> /\ daemon # "down"
        /\ \/ \E s \in Snapshot : Engaged(t, s)
           \/ RunGoes(t, "fail", run[t].snap, <<>>)
    BY <1>6, GoesOn
  <2>2. UNCHANGED <<mem, disk, tail, under, lost, running, code, worktree, branch, daemon>>
    BY <1>6 DEF Engage, RunFrame, storeVars, fileVars, gitVars, reviewVars, lifeVars
  <2>3. RegistryOf(t)'
    BY <1>1, <2>1, <2>2 DEF RegistryOf, Has, ResumableStates, ReviewedStates, RunGoes, Engaged
  <2>4. StoreOf(t)'
    BY <1>1, <2>1, <2>2
    DEF StoreOf, AgreedOf, Has, ResumableStates, ReviewedStates, OverStates, RegistryOf,
        RunGoes, Engaged
  <2>5. t \in code' => WorkOf(t)'
    BY <1>1, <2>1, <2>2
    DEF WorkOf, KeptOf, NeedsBranch, Has, ResumableStates, ReviewedStates, Working, Active,
        RunPCs, RegistryOf, StoreOf, RunGoes, Engaged, Engaged
  <2>6. worktree' \subseteq branch'
    BY <1>1, <2>1, <2>2
  <2> QED BY <2>3, <2>4, <2>5, <2>6
<1>7. CASE WorkerStops(t)
  <2>1. /\ run[t].pc = "prompt" /\ run[t].note = <<>> /\ daemon # "down"
        /\ RunGoes(t, "collect", run[t].snap, <<>>)
    BY <1>7, GoesOn
  <2>2. UNCHANGED <<mem, disk, tail, under, lost, running, code, worktree, branch, daemon>>
    BY <1>7 DEF WorkerStops, RunFrame, storeVars, fileVars, gitVars, reviewVars, lifeVars
  <2>3. RegistryOf(t)'
    BY <1>1, <2>1, <2>2 DEF RegistryOf, Has, ResumableStates, ReviewedStates, RunGoes
  <2>4. StoreOf(t)'
    BY <1>1, <2>1, <2>2
    DEF StoreOf, AgreedOf, Has, ResumableStates, ReviewedStates, OverStates, RegistryOf,
        RunGoes
  <2>5. t \in code' => WorkOf(t)'
    BY <1>1, <2>1, <2>2
    DEF WorkOf, KeptOf, NeedsBranch, Has, ResumableStates, ReviewedStates, Working, Active,
        RunPCs, RegistryOf, StoreOf, RunGoes
  <2>6. worktree' \subseteq branch'
    BY <1>1, <2>1, <2>2
  <2> QED BY <2>3, <2>4, <2>5, <2>6
<1>8. CASE WorkerFails(t)
  <2>1. /\ run[t].pc = "prompt" /\ run[t].note = <<>> /\ daemon # "down"
        /\ RunGoes(t, "fail", run[t].snap, <<>>)
    BY <1>8, GoesOn
  <2>2. UNCHANGED <<mem, disk, tail, under, lost, running, code, worktree, branch, daemon>>
    BY <1>8 DEF WorkerFails, RunFrame, storeVars, fileVars, gitVars, reviewVars, lifeVars
  <2>3. RegistryOf(t)'
    BY <1>1, <2>1, <2>2 DEF RegistryOf, Has, ResumableStates, ReviewedStates, RunGoes
  <2>4. StoreOf(t)'
    BY <1>1, <2>1, <2>2
    DEF StoreOf, AgreedOf, Has, ResumableStates, ReviewedStates, OverStates, RegistryOf,
        RunGoes
  <2>5. t \in code' => WorkOf(t)'
    BY <1>1, <2>1, <2>2
    DEF WorkOf, KeptOf, NeedsBranch, Has, ResumableStates, ReviewedStates, Working, Active,
        RunPCs, RegistryOf, StoreOf, RunGoes
  <2>6. worktree' \subseteq branch'
    BY <1>1, <2>1, <2>2
  <2> QED BY <2>3, <2>4, <2>5, <2>6
<1>9. CASE PromptCancelled(t)
  <2>1. /\ run[t].pc = "prompt" /\ run[t].note = <<>> /\ daemon # "down"
        /\ RunGoes(t, "cancelInto", run[t].snap, <<>>)
    BY <1>9, GoesOn
  <2>2. UNCHANGED <<mem, disk, tail, under, lost, running, code, worktree, branch, daemon>>
    BY <1>9 DEF PromptCancelled, RunFrame, storeVars, fileVars, gitVars, reviewVars, lifeVars
  <2>3. RegistryOf(t)'
    BY <1>1, <2>1, <2>2 DEF RegistryOf, Has, ResumableStates, ReviewedStates, RunGoes
  <2>4. StoreOf(t)'
    BY <1>1, <2>1, <2>2
    DEF StoreOf, AgreedOf, Has, ResumableStates, ReviewedStates, OverStates, RegistryOf,
        RunGoes
  <2>5. t \in code' => WorkOf(t)'
    BY <1>1, <2>1, <2>2
    DEF WorkOf, KeptOf, NeedsBranch, Has, ResumableStates, ReviewedStates, Working, Active,
        RunPCs, RegistryOf, StoreOf, RunGoes
  <2>6. worktree' \subseteq branch'
    BY <1>1, <2>1, <2>2
  <2> QED BY <2>3, <2>4, <2>5, <2>6
<1>10. CASE Collect(t)
  <2>1. /\ run[t].pc = "collect" /\ run[t].note = <<>> /\ daemon # "down"
        /\ RunGoes(t, "fail", run[t].snap, <<>>) \/ RunGoes(t, "saveReview", run[t].snap, <<>>)
    BY <1>10, GoesOn
  <2>2. UNCHANGED <<mem, disk, tail, under, lost, running, code, worktree, branch, daemon>>
    BY <1>10 DEF Collect, RunFrame, storeVars, fileVars, gitVars, reviewVars, lifeVars
  <2>3. RegistryOf(t)'
    BY <1>1, <2>1, <2>2 DEF RegistryOf, Has, ResumableStates, ReviewedStates, RunGoes
  <2>4. StoreOf(t)'
    BY <1>1, <2>1, <2>2
    DEF StoreOf, AgreedOf, Has, ResumableStates, ReviewedStates, OverStates, RegistryOf,
        RunGoes
  <2>5. t \in code' => WorkOf(t)'
    BY <1>1, <2>1, <2>2
    DEF WorkOf, KeptOf, NeedsBranch, Has, ResumableStates, ReviewedStates, Working, Active,
        RunPCs, RegistryOf, StoreOf, RunGoes
  <2>6. worktree' \subseteq branch'
    BY <1>1, <2>1, <2>2
  <2> QED BY <2>3, <2>4, <2>5, <2>6
<1>11. CASE Cleanup(t)
  <2>1. /\ run[t].pc = "cleanup" /\ run[t].note = <<>> /\ daemon # "down"
        /\ RunGoes(t, "exit", run[t].snap, <<>>)
    BY <1>11, GoesOn
  <2>2. /\ UNCHANGED <<mem, disk, tail, under, lost, running, code, branch, daemon>>
        /\ worktree' \subseteq worktree
    BY <1>11 DEF Cleanup, RunFrame, storeVars, fileVars, gitVars, reviewVars, lifeVars
  <2>3. RegistryOf(t)'
    BY <1>1, <2>1, <2>2 DEF RegistryOf, Has, ResumableStates, ReviewedStates, RunGoes
  <2>4. StoreOf(t)'
    BY <1>1, <2>1, <2>2
    DEF StoreOf, AgreedOf, Has, ResumableStates, ReviewedStates, OverStates, RegistryOf,
        RunGoes
  <2>5. t \in code' => WorkOf(t)'
    BY <1>1, <2>1, <2>2
    DEF WorkOf, KeptOf, NeedsBranch, Has, ResumableStates, ReviewedStates, Working, Active,
        RunPCs, RegistryOf, StoreOf, AgreedOf, OverStates,
        RunGoes
  <2>6. worktree' \subseteq branch'
    BY <1>1, <2>1, <2>2
  <2> QED BY <2>3, <2>4, <2>5, <2>6
<1>12. CASE SaveStep(t)
  <2>1. UNCHANGED <<running, code, worktree, branch, daemon>>
    BY <1>1, <1>12, SaveStepDoes
  <2>2. PICK s \in Snapshot, next \in RunPCs : SaveDoes(t, s, next)
    BY <1>1, <1>12, SaveStepDoes
  <2>3. RegistryOf(t)' /\ StoreOf(t)' /\ (t \in code => WorkOf(t)')
    BY <2>1, <2>2, SaveKeeps
  <2> QED BY <1>1, <2>1, <2>3
<1>13. CASE Prepare(t)
  <2>1. run[t].pc = "prepare" /\ run[t].note = <<>> /\ daemon # "down"
    BY <1>13, PrepareEdits
  <2>2. PICK s \in Snapshot, pc \in RunPCs : Prepared(t, pc, s)
    BY <1>13, PrepareEdits
  <2>3. UNCHANGED <<mem, disk, tail, under, lost, running, code, daemon>>
    BY <1>13 DEF Prepare, RunFrame, storeVars, fileVars, gitVars, reviewVars, lifeVars
  <2>4. RegistryOf(t)'
    BY <1>1, <2>1, <2>2, <2>3
    DEF RegistryOf, Has, ResumableStates, ReviewedStates, RunGoes, Prepared
  <2>5. StoreOf(t)'
    BY <1>1, <2>1, <2>2, <2>3
    DEF StoreOf, AgreedOf, Has, ResumableStates, ReviewedStates, OverStates, RegistryOf,
        RunGoes, Prepared
  <2>6. t \in code' => WorkOf(t)'
    BY <1>1, <2>1, <2>2, <2>3
    DEF WorkOf, KeptOf, NeedsBranch, Has, ResumableStates, ReviewedStates, Working, Active,
        RunPCs, RegistryOf, StoreOf, RunGoes, Prepared
  <2>7. worktree' \subseteq branch'
    BY <1>1, <2>1, <2>2, <2>3 DEF Prepared
  <2> QED BY <2>4, <2>5, <2>6, <2>7
<1>14. CASE Exit(t)
  <2>1. /\ run[t].pc = "exit" /\ run[t].note = <<>> /\ daemon # "down"
        /\ run'[t].pc = "ended" /\ run'[t].note = <<>>
    BY <1>14, ExitEdits
  <2>2. /\ UNCHANGED <<mem, disk, tail, under, lost, code, worktree, branch, daemon>>
        /\ running' = running \ {t}
    BY <1>14 DEF Exit, RunFrame, storeVars, fileVars, gitVars, reviewVars, lifeVars
  <2>3. RegistryOf(t)'
    BY <1>1, <2>1, <2>2 DEF RegistryOf, Has, ResumableStates, ReviewedStates
  <2>4. StoreOf(t)'
    BY <1>1, <2>1, <2>2
    DEF StoreOf, AgreedOf, Has, ResumableStates, ReviewedStates, OverStates, RegistryOf
  <2>5. t \in code' => WorkOf(t)'
    BY <1>1, <2>1, <2>2
    DEF WorkOf, KeptOf, NeedsBranch, Has, ResumableStates, ReviewedStates, Working, Active,
        RunPCs, RegistryOf, StoreOf
  <2>6. worktree' \subseteq branch'
    BY <1>1, <2>1, <2>2
  <2> QED BY <2>3, <2>4, <2>5, <2>6
<1>15. CASE Notify(t)
  <2>1. /\ run[t].note # <<>> /\ RunGoes(t, run[t].pc, run[t].snap, <<>>)
    BY <1>15, NotifyEdits
  <2>2. UNCHANGED <<mem, disk, tail, under, lost, running, code, worktree, branch, daemon>> /\ daemon # "down"
    BY <1>15 DEF Notify, RunFrame, storeVars, fileVars, gitVars, reviewVars, lifeVars
  <2>3. RegistryOf(t)'
    BY <1>1, <2>1, <2>2 DEF RegistryOf, Has, ResumableStates, ReviewedStates, RunGoes
  <2>4. StoreOf(t)'
    BY <1>1, <2>1, <2>2
    DEF StoreOf, AgreedOf, Has, ResumableStates, ReviewedStates, OverStates, RegistryOf,
        RunGoes
  <2>5. t \in code' => WorkOf(t)'
    BY <1>1, <2>1, <2>2
    DEF WorkOf, KeptOf, NeedsBranch, Has, ResumableStates, ReviewedStates, Working, Active,
        RunPCs, RegistryOf, StoreOf, RunGoes
  <2>6. worktree' \subseteq branch'
    BY <1>1, <2>1, <2>2
  <2> QED BY <2>3, <2>4, <2>5, <2>6
<1> QED
  BY <1>2, <1>3, <1>4, <1>5, <1>6, <1>7, <1>8, <1>9, <1>10, <1>11, <1>12, <1>13, <1>14, <1>15
  DEF RunStep, Orchestrate, SaveStep

(* What a step of a run is for the others: it stores a record that no      *)
(* review has written, it goes on, with an append that did not complete or *)
(* without one, or it announces a status.                                  *)
ByRun(s) == s.status \in ResumableStates \cup {"awaiting_review", "failed", "cancelled"}

Writes(t) ==
    /\ run[t].note = <<>> /\ run[t].pc \in Saving /\ UNCHANGED <<log, unlogged, conn>>
    /\ \E s \in Snapshot, next \in RunPCs : ByRun(s) /\ Saves(t, s, next)

Proceeds(t) ==
    /\ UNCHANGED <<mem, log, unlogged>> /\ run[t].note = <<>> /\ run'[t].note = <<>>
    /\ \/ UNCHANGED <<disk, under, lost>>
       \/ run[t].pc \in Saving /\ \A q \in Tasks : q # t => Kept(q) \/ Dropped(q)
    /\ t \notin lost' => t \notin lost
    /\ run[t].pc # "ended" /\ (run[t].pc = "exit" => run'[t].pc = "ended")
    /\ \A c \in Conns : /\ conn'[c].closed = conn[c].closed
                        /\ \/ conn'[c] = conn[c]
                           \/ conn'[c].prompt.kind = "none"
                           \/ conn'[c].prompt.kind = "sync" /\ conn'[c].prompt.task \in Tasks

Announces(t) ==
    /\ UNCHANGED <<mem, disk, under, lost>> /\ run'[t].pc = run[t].pc
    /\ run[t].note # <<>> /\ run'[t].note = <<>>
    /\ \/ storeOpen /\ Tells(t, run[t].note[1])
       \/ ~storeOpen /\ UNCHANGED <<log, unlogged, conn>>

(* Every step of a run is one of the three.                                *)
LEMMA RunWrites ==
    ASSUME TypeOK, TaskInv, NEW t \in Tasks, RunStep(t)
    PROVE  daemon # "down" /\ (Writes(t) \/ Proceeds(t) \/ Announces(t))
<1>1. RegistryOf(t) /\ FileInv /\ run[t].snap.status \in Status
  BY TaskBasics DEF TaskInv, RegistryInv
<1>2. ASSUME NEW by \in Conns \cup {Nobody}, Submit(t, by)
      PROVE  daemon # "down" /\ Proceeds(t)
  <2>1. run'[t].note = <<>> /\ run'[t].pc = "admitted"
    BY <1>2, SubmitEdits
  <2>2. daemon # "down" /\ mem[t] = NoTask /\ run[t].pc = "none" /\ UNCHANGED <<mem, disk, under, lost, log, unlogged>>
    BY <1>2 DEF Submit, storeVars, fileVars, logVars
  <2>3. run[t].note = <<>>
    BY <1>1, <2>2 DEF RegistryOf
  <2> QED BY <1>2, <2>1, <2>2, <2>3, SubmitPrompt DEF Proceeds
<1>3. CASE Register(t)
  <2>1. UNCHANGED <<mem, disk, under, lost, log, unlogged, conn>>
    BY <1>3 DEF Register, RunFrame, storeVars, fileVars, logVars
  <2> QED BY <1>3, <2>1, GoesOn DEF RunGoes, Proceeds
<1>4. CASE Begin(t)
  <2>1. UNCHANGED <<mem, disk, under, lost, log, unlogged, conn>>
    BY <1>4 DEF Begin, RunFrame, storeVars, fileVars, logVars
  <2> QED BY <1>4, <2>1, GoesOn DEF RunGoes, Proceeds
<1>5. CASE Verify(t)
  <2>1. UNCHANGED <<mem, disk, under, lost, log, unlogged, conn>>
    BY <1>5 DEF Verify, RunFrame, storeVars, fileVars, logVars
  <2> QED BY <1>5, <2>1, GoesOn DEF RunGoes, Proceeds
<1>6. CASE Engage(t)
  <2>1. UNCHANGED <<mem, disk, under, lost, log, unlogged, conn>>
    BY <1>6 DEF Engage, RunFrame, storeVars, fileVars, logVars
  <2> QED BY <1>6, <2>1, GoesOn DEF RunGoes, Engaged, Proceeds
<1>7. CASE WorkerStops(t)
  <2>1. UNCHANGED <<mem, disk, under, lost, log, unlogged, conn>>
    BY <1>7 DEF WorkerStops, RunFrame, storeVars, fileVars, logVars
  <2> QED BY <1>7, <2>1, GoesOn DEF RunGoes, Proceeds
<1>8. CASE WorkerFails(t)
  <2>1. UNCHANGED <<mem, disk, under, lost, log, unlogged, conn>>
    BY <1>8 DEF WorkerFails, RunFrame, storeVars, fileVars, logVars
  <2> QED BY <1>8, <2>1, GoesOn DEF RunGoes, Proceeds
<1>9. CASE PromptCancelled(t)
  <2>1. UNCHANGED <<mem, disk, under, lost, log, unlogged, conn>>
    BY <1>9 DEF PromptCancelled, RunFrame, storeVars, fileVars, logVars
  <2> QED BY <1>9, <2>1, GoesOn DEF RunGoes, Proceeds
<1>10. CASE Collect(t)
  <2>1. UNCHANGED <<mem, disk, under, lost, log, unlogged, conn>>
    BY <1>10 DEF Collect, RunFrame, storeVars, fileVars, logVars
  <2> QED BY <1>10, <2>1, GoesOn DEF RunGoes, Proceeds
<1>11. CASE Cleanup(t)
  <2>1. UNCHANGED <<mem, disk, under, lost, log, unlogged, conn>>
    BY <1>11 DEF Cleanup, RunFrame, storeVars, fileVars, logVars
  <2> QED BY <1>11, <2>1, GoesOn DEF RunGoes, Proceeds
<1>12. CASE Prepare(t)
  <2>1. UNCHANGED <<mem, disk, under, lost, log, unlogged, conn>>
    BY <1>12 DEF Prepare, RunFrame, storeVars, fileVars, logVars
  <2> QED BY <1>12, <2>1, PrepareEdits DEF RunGoes, Prepared, Proceeds
<1>13. CASE Exit(t)
  <2>1. UNCHANGED <<mem, disk, under, lost, log, unlogged>>
    BY <1>13 DEF Exit, storeVars, fileVars, logVars
  <2> QED BY <1>13, <2>1, ExitEdits, ExitPrompt DEF Proceeds
<1>14. CASE Notify(t)
  <2>1. UNCHANGED <<mem, disk, under, lost>> /\ daemon # "down"
    BY <1>14 DEF Notify, storeVars, fileVars, logVars
  <2> QED BY <1>14, <2>1, NotifyEdits DEF RunGoes, Announces
<1>15. CASE SaveStep(t)
  <2>1. UNCHANGED <<log, unlogged, conn>>
    BY <1>1, <1>15, SaveStepDoes
  <2>2. PICK s \in Snapshot, next \in RunPCs : SaveDoes(t, s, next)
    BY <1>1, <1>15, SaveStepDoes
  <2>3. /\ run[t].note = <<>> /\ run[t].pc \in Saving /\ daemon # "down" /\ ByRun(s)
        /\ Saves(t, s, next) \/ Refuses(t, s, next)
    BY <2>2 DEF SaveDoes, SaveFits, ByRun
  <2>4. CASE Saves(t, s, next)
    BY <2>1, <2>3, <2>4 DEF Writes
  <2>5. CASE Refuses(t, s, next)
    <3>1. /\ mem' = mem /\ run'[t].note = <<>>
          /\ \A q \in Tasks : q # t => Kept(q) \/ Dropped(q)
          /\ t \notin lost' => t \notin lost
      BY <2>5 DEF Refuses, Cut, RunGoes, Kept, Dropped, Whole
    <3>2. run[t].pc \notin {"ended", "exit"}
      BY <2>3 DEF Saving
    <3> QED BY <2>1, <2>3, <3>1, <3>2 DEF Proceeds
  <2> QED BY <2>3, <2>4, <2>5
<1> QED
  BY <1>2, <1>3, <1>4, <1>5, <1>6, <1>7, <1>8, <1>9, <1>10, <1>11, <1>12, <1>13, <1>14, <1>15
  DEF RunStep, Orchestrate, SaveStep

-----------------------------------------------------------------------------
(* The registry, the store and the work *)

(* A task whose memory and run a step leaves alone, and whose place in the *)
(* file goes back at most to what an unfinished line left of it.           *)
LEMMA FileKeeps ==
    ASSUME NEW q \in Tasks, StoreOf(q), Kept(q) \/ Dropped(q),
           mem'[q] = mem[q], run'[q] = run[q], daemon' = daemon
    PROVE  /\ StoreOf(q)'
           /\ /\ WorkOf(q)
              /\ q \in worktree' <=> q \in worktree
              /\ q \in branch' <=> q \in branch
              => WorkOf(q)'
<1>1. CASE Kept(q)
  <2>1. StoreOf(q)'
    BY <1>1 DEF Kept, StoreOf, AgreedOf
  <2>2. ASSUME WorkOf(q), q \in worktree' <=> q \in worktree, q \in branch' <=> q \in branch
        PROVE  WorkOf(q)'
    BY <1>1, <2>2 DEF Kept, WorkOf, KeptOf
  <2> QED BY <2>1, <2>2
<1>2. CASE Dropped(q)
  <2>1. ASSUME q \notin lost'
        PROVE  /\ q \notin lost /\ AgreedOf(q)
               /\ under[q] = disk[q] \/ ~Has(under[q], OverStates)
               /\ under[q] # disk[q] => ~Has(mem[q], {"merging", "done", "rejected"}) \/ daemon = "down"
    <3>1. q \notin lost /\ AgreedOf(q) /\ (under[q] # disk[q] => disk[q] # NoTask)
      BY <1>2, <2>1 DEF Dropped, StoreOf
    <3>2. under[q] # disk[q] => ~Has(disk[q], ByReview)
      BY <1>2, <2>1 DEF Dropped, Has
    <3> QED BY <3>1, <3>2 DEF AgreedOf, Has, ByReview
  <2>2. StoreOf(q)'
    <3>1. q \notin lost' => AgreedOf(q)'
      BY <1>2, <2>1 DEF Dropped, AgreedOf, Has, OverStates
    <3>2. daemon # "down" /\ run[q].pc \in {"none", "admitted"} => under[q] = NoTask
      BY DEF StoreOf
    <3> QED BY <1>2, <3>1, <3>2 DEF Dropped, StoreOf
  <2>3. ASSUME WorkOf(q), q \in worktree' <=> q \in worktree, q \in branch' <=> q \in branch
        PROVE  WorkOf(q)'
    <3>1. q \notin lost' => KeptOf(q)'
      BY <1>2, <2>1, <2>3
      DEF Dropped, WorkOf, KeptOf, NeedsBranch, Has, OverStates, ReviewedStates
    <3> QED BY <1>2, <2>3, <3>1 DEF Dropped, WorkOf
  <2> QED BY <2>2, <2>3
<1> QED BY <1>1, <1>2

(* A step that concerns one task keeps the invariant if it keeps it there. *)
LEMMA OthersKeep ==
    ASSUME TaskInv, NEW t \in Tasks, Concerns(t), daemon' = daemon, code' \subseteq Tasks,
           FileInv', RegistryOf(t)', StoreOf(t)',
           t \in code' => WorkOf(t)', worktree' \subseteq branch'
    PROVE  TaskInv'
<1>1. ASSUME NEW q \in Tasks PROVE RegistryOf(q)'
  BY DEF TaskInv, RegistryInv, RegistryOf, Concerns
<1>2. ASSUME NEW q \in Tasks PROVE StoreOf(q)'
  <2>1. CASE q = t
    BY <2>1
  <2>2. CASE q # t
    <3>1. StoreOf(q)
      BY DEF TaskInv, StoreInv
    <3> QED BY <2>2, <3>1, FileKeeps DEF Concerns
  <2> QED BY <2>1, <2>2
<1>3. ASSUME NEW q \in code' PROVE WorkOf(q)'
  <2>1. CASE q = t
    BY <1>3, <2>1
  <2>2. CASE q # t
    <3>1. q \in Tasks
      BY <1>3
    <3>2. WorkOf(q) /\ StoreOf(q)
      BY <1>3, <2>2, <3>1 DEF TaskInv, StoreInv, WorkInv, Concerns
    <3> QED BY <2>2, <3>1, <3>2, FileKeeps DEF Concerns
  <2> QED BY <2>1, <2>2
<1> QED BY <1>1, <1>2, <1>3 DEF TaskInv, RegistryInv, StoreInv, WorkInv

(* A review's record: where the reviewer is allowed to put it.             *)
LEMMA ReviewedTask ==
    ASSUME TypeOK, ReviewInv, TaskInv, NEW u \in Reviewers, rev[u].todo # <<>>
    PROVE  /\ rev[u].task \in Tasks /\ ReviewOf(u) /\ rev[u].todo \in Plans
           /\ RegistryOf(rev[u].task) /\ StoreOf(rev[u].task)
           /\ rev[u].task \in code => WorkOf(rev[u].task)
BY DEF TypeOK, ReviewsTyped, ReviewInv, ReviewOf, TaskInv, RegistryInv, StoreInv, WorkInv

(* Where the record of a task is when a review has to move it.             *)
LEMMA MovedFrom ==
    ASSUME TypeOK, ReviewInv, TaskInv, NEW u \in Reviewers, NEW to \in Status,
           rev[u].todo # <<>>, Head(rev[u].todo) = to
    PROVE  LET t == rev[u].task IN
           /\ t \in Tasks /\ mem[t] # NoTask /\ daemon # "down" /\ transitionMu = u
           /\ ~Has(mem[t], {"done", "rejected"}) /\ run[t].pc \in {"exit", "ended"}
           /\ to \in {"merging", "done", "rejected", "cancelled"}
           /\ to = "cancelled" => run[t].pc = "ended"
           /\ to # "cancelled" => Has(mem[t], {"awaiting_review", "merging"})
<1>1. rev[u].task \in Tasks /\ ReviewOf(u) /\ RegistryOf(rev[u].task) /\ rev[u].todo \in Plans
  BY ReviewedTask
<1>2. /\ to \in {"merging", "done", "rejected", "cancelled"}
      /\ to = "merging" => rev[u].todo = <<"merging", "remove", "done">>
      /\ to = "done" => rev[u].todo = <<"done">>
      /\ to = "rejected" => rev[u].todo = <<"rejected", "remove">>
      /\ to = "cancelled" => rev[u].todo = <<"cancelled", "remove">>
  BY <1>1, PlanSteps
<1>3. /\ to = "merging" => Has(mem[rev[u].task], {"awaiting_review"})
      /\ to = "done" => Has(mem[rev[u].task], {"awaiting_review", "merging"})
      /\ to = "rejected" => Has(mem[rev[u].task], {"awaiting_review"})
      /\ to = "cancelled" => /\ run[rev[u].task].pc = "ended"
                             /\ ~Has(mem[rev[u].task], {"done", "rejected"})
      /\ mem[rev[u].task] # NoTask /\ daemon # "down" /\ transitionMu = u
  BY <1>1, <1>2 DEF ReviewOf
<1> QED BY <1>1, <1>2, <1>3 DEF Has, RegistryOf, ReviewedStates

(* A record on its way into the file when the process ends: a run's, or a  *)
(* review's of a task that is not decided.                                 *)
LEMMA AppendingIs ==
    ASSUME TypeOK, TaskInv, ReviewInv, NEW t \in Tasks, NEW s \in Snapshot, Appending(t, s)
    PROVE  \/ /\ run[t].pc \in Saving /\ s.wt = run[t].snap.wt /\ s.session = run[t].snap.session
              /\ s.status \in {"dispatching", "working", "awaiting_review"} => run[t].pc \in Working
           \/ /\ s.status \in ByReview /\ run[t].pc \in {"exit", "ended"} /\ daemon # "down"
              /\ ~Has(mem[t], {"done", "rejected"})
<1>1. CASE s = Record(t) /\ run[t].pc \in Saving
  <2>1. RegistryOf(t) /\ run[t].snap.status \in Status
    BY TaskBasics DEF TaskInv, RegistryInv
  <2>2. s.status \in {"dispatching", "working", "awaiting_review"} => run[t].pc \in Working
    BY <1>1, <2>1, RecordIs DEF RegistryOf, Saving, Working, ResumableStates, Terminal
  <2> QED BY <1>1, <2>2, RecordIs
<1>2. ASSUME NEW u \in Reviewers, rev[u].todo # <<>>, Head(rev[u].todo) \in Status,
             rev[u].task = t, s = [rev[u].snap EXCEPT !.status = Head(rev[u].todo)]
      PROVE  /\ s.status \in ByReview /\ run[t].pc \in {"exit", "ended"} /\ daemon # "down"
             /\ ~Has(mem[t], {"done", "rejected"})
  <2>1. s.status = Head(rev[u].todo)
    BY <1>2, SnapshotEdit DEF TypeOK, ReviewsTyped
  <2> QED BY <1>2, <2>1, MovedFrom DEF ByReview
<1> QED BY <1>1, <1>2 DEF Appending, Saving

(* A review's transition keeps what is said of its task.                   *)
LEMMA MoveKeeps ==
    ASSUME TypeOK, TaskInv, ReviewInv, NEW u \in Reviewers, NEW to \in Status, Move(u, to),
           NEW q \in Tasks, q = rev[u].task
    PROVE  /\ Concerns(q) /\ FileInv'
           /\ RegistryOf(q)' /\ StoreOf(q)' /\ (q \in code' => WorkOf(q)')
<1>1. UNCHANGED <<run, running, code, worktree, branch, daemon>>
  BY AsideFrame
<1>2. /\ FileInv /\ RegistryOf(q) /\ StoreOf(q) /\ (q \in code => WorkOf(q))
      /\ rev[u].todo # <<>> /\ Head(rev[u].todo) = to
  BY MoveEdits, ReviewedTask DEF TaskInv
<1>3. /\ mem[q] # NoTask /\ daemon # "down"
      /\ ~Has(mem[q], {"done", "rejected"}) /\ run[q].pc \in {"exit", "ended"}
      /\ to \in {"merging", "done", "rejected", "cancelled"}
  BY <1>2, MovedFrom
<1>4. PICK s \in Snapshot : s.status = to /\ (Moves(u, to, s) \/ Balks(u, s))
  BY <1>2, MoveEdits
<1>5. s # NoTask
  BY SnapshotIsThere
<1>6. CASE Stored(q, s)
  <2>1. Concerns(q) /\ FileInv' /\ mem'[q] = s
    BY <1>1, <1>6 DEF Concerns, Stored, FileTyped
  <2>2. RegistryOf(q)'
    BY <1>1, <1>2, <1>3, <1>4, <1>5, <2>1 DEF RegistryOf, Has, ReviewedStates
  <2>3. CASE Filed(q, s)
    <3>1. StoreOf(q)'
      BY <1>1, <1>2, <1>3, <1>4, <1>5, <2>1, <2>3 DEF Filed, StoreOf, AgreedOf, Has, OverStates
    <3>2. q \in code' => WorkOf(q)'
      BY <1>1, <1>2, <1>3, <1>4, <2>1, <2>3
      DEF Filed, WorkOf, KeptOf, NeedsBranch, Has, ResumableStates, Working, Active
    <3> QED BY <2>1, <2>2, <3>1, <3>2
  <2>4. CASE Glued(q, s)
    <3>1. q \in lost'
      BY <1>3, <1>4, <2>4 DEF Glued, ByReview
    <3>2. StoreOf(q)'
      BY <1>1, <1>3, <2>4, <3>1 DEF Glued, StoreOf
    <3>3. q \in code' => WorkOf(q)'
      BY <1>1, <1>2, <1>3, <2>4, <3>1 DEF Glued, WorkOf, Working
    <3> QED BY <2>1, <2>2, <3>2, <3>3
  <2> QED BY <1>6, <2>3, <2>4 DEF Stored
<1>7. CASE Cut(q, s, TRUE) /\ mem' = mem
  <2>1. Concerns(q) /\ FileInv'
    BY <1>1, <1>7 DEF Concerns, Cut, FileTyped
  <2>2. RegistryOf(q)'
    BY <1>1, <1>2, <1>7 DEF RegistryOf
  <2>3. CASE Kept(q) \/ Dropped(q)
    <3>1. StoreOf(q)' /\ (q \in code' => WorkOf(q)')
      BY <1>1, <1>2, <1>7, <2>3, FileKeeps
    <3> QED BY <2>1, <2>2, <3>1
  <2>4. CASE Whole(q, s, TRUE)
    <3>1. StoreOf(q)'
      BY <1>1, <1>3, <1>5, <2>4 DEF Whole, StoreOf
    <3>2. q \in code' => WorkOf(q)'
      BY <1>1, <1>2, <1>3, <1>4, <2>4 DEF Whole, WorkOf, Has, Working
    <3> QED BY <2>1, <2>2, <3>1, <3>2
  <2> QED BY <1>7, <2>3, <2>4 DEF Cut
<1> QED BY <1>4, <1>6, <1>7 DEF Moves, Balks

(* The end of the process keeps what is said of the file.                  *)
LEMMA DieKeeps ==
    ASSUME TypeOK, TaskInv, ReviewInv, Die
    PROVE  TaskInv'
<1>1. /\ daemon # "down" /\ daemon' = "down" /\ running' = {}
      /\ \A t \in Tasks : mem'[t] = NoTask /\ run'[t] = NoRun
      /\ UNCHANGED <<code, worktree, branch>>
  BY DEF Die, gitVars
<1>2. NoRun.pc = "none" /\ NoRun.note = <<>>
  BY DEF NoRun
<1>3. /\ FileTyped
      /\ \/ \A q \in Tasks : Kept(q)
         \/ \E t \in Tasks, s \in Snapshot : Appending(t, s) /\ Cut(t, s, FALSE)
  BY DieEdits DEF TaskInv
<1>4. ASSUME NEW q \in Tasks
      PROVE  \/ Kept(q) \/ Dropped(q)
             \/ \E s \in Snapshot : Appending(q, s) /\ Whole(q, s, FALSE)
  BY <1>3 DEF Cut
<1>5. RegistryInv'
  BY <1>1, <1>2 DEF RegistryInv, RegistryOf, Has
<1>6. ASSUME NEW q \in Tasks PROVE StoreOf(q)' /\ (q \in code => WorkOf(q)')
  <2>1. StoreOf(q) /\ (q \in code => WorkOf(q))
    BY DEF TaskInv, StoreInv, WorkInv
  <2>2. CASE Kept(q)
    <3>1. StoreOf(q)'
      BY <1>1, <2>1, <2>2 DEF Kept, StoreOf, AgreedOf
    <3>2. q \in code => WorkOf(q)'
      BY <1>1, <1>2, <2>1, <2>2 DEF Kept, WorkOf, KeptOf, NeedsBranch, Has, Working, Active
    <3> QED BY <3>1, <3>2
  <2>3. CASE Dropped(q)
    <3>1. StoreOf(q)'
      BY <1>1, <2>1, <2>3 DEF Dropped, StoreOf, AgreedOf
    <3>2. ASSUME q \notin lost'
          PROVE  q \notin lost /\ (under[q] = disk[q] \/ ~Has(under[q], OverStates))
      <4>1. q \notin lost /\ AgreedOf(q) /\ (under[q] # disk[q] => ~Has(disk[q], ByReview))
        BY <2>1, <2>3, <3>2 DEF Dropped, StoreOf, Has
      <4> QED BY <4>1 DEF AgreedOf
    <3>3. q \in code => WorkOf(q)'
      BY <1>1, <1>2, <2>1, <2>3, <3>2
      DEF Dropped, WorkOf, KeptOf, NeedsBranch, Has, OverStates, ReviewedStates, Working, Active
    <3> QED BY <3>1, <3>3
  <2>4. ASSUME NEW s \in Snapshot, Appending(q, s), Whole(q, s, FALSE)
        PROVE  StoreOf(q)' /\ (q \in code => WorkOf(q)')
    <3>1. s # NoTask /\ s.status \in Status /\ (q \in lost' <=> q \in lost)
          /\ disk'[q] = s /\ under'[q] = disk[q]
      BY <2>4, SnapshotIsThere DEF Whole
    <3>2. \/ /\ run[q].pc \in Saving /\ s.wt = run[q].snap.wt /\ s.session = run[q].snap.session
             /\ s.status \in {"dispatching", "working", "awaiting_review"} => run[q].pc \in Working
          \/ s.status \in ByReview
      BY <2>4, AppendingIs
    <3>3. q \notin lost /\ run[q].pc \in Saving => ~Has(disk[q], OverStates)
      BY <1>1, <2>1 DEF StoreOf, AgreedOf, Saving
    <3>4. StoreOf(q)'
      BY <1>1, <3>1, <3>2, <3>3 DEF StoreOf, AgreedOf, Has
    <3>5. ASSUME q \in code PROVE WorkOf(q)'
      <4>1. WorkOf(q)
        BY <2>1, <3>5
      <4>2. ASSUME q \notin lost' PROVE KeptOf(q)'
        <5>1. KeptOf(q)
          BY <3>1, <4>1, <4>2 DEF WorkOf
        <5>2. /\ NeedsBranch(s, ResumableStates \cup {"failed"}) => q \in branch
              /\ Has(s, {"awaiting_review"}) => q \in worktree
          BY <3>2, <4>1, <5>1
          DEF NeedsBranch, Has, KeptOf, WorkOf, Saving, Active, RunPCs, ByReview, ResumableStates
        <5>3. NeedsBranch(disk[q], ResumableStates) => q \in branch
          BY <5>1 DEF KeptOf, NeedsBranch, Has
        <5> QED BY <1>1, <1>2, <3>1, <5>2, <5>3 DEF KeptOf, NeedsBranch, Has, Active
      <4>3. Has(s, {"dispatching", "working"}) => s.wt
        BY <3>2, <4>1 DEF Has, WorkOf, ByReview
      <4> QED BY <1>1, <1>2, <3>1, <4>1, <4>2, <4>3 DEF WorkOf, Has, Working
    <3> QED BY <3>4, <3>5
  <2> QED BY <1>4, <2>2, <2>3, <2>4
<1> QED BY <1>1, <1>3, <1>5, <1>6 DEF TaskInv, StoreInv, WorkInv, FileTyped, TypeOK, RunsTyped

(* Every step keeps the registry, the store and the work.                  *)
LEMMA TaskStep == TypeOK /\ TypeOK' /\ TaskInv /\ ReviewInv /\ [Next]_vars => TaskInv'
<1> SUFFICES ASSUME TypeOK, TypeOK', TaskInv, ReviewInv, [Next]_vars PROVE TaskInv'
  OBVIOUS
<1>0. code' \subseteq Tasks /\ FileInv /\ RegistryInv /\ StoreInv /\ WorkInv
  BY DEF TypeOK, RunsTyped, TaskInv
<1>1. ASSUME NEW t \in Tasks, RunStep(t) PROVE TaskInv'
  <2>1. RegistryOf(t)
    BY <1>0 DEF RegistryInv
  <2>2. Concerns(t) /\ daemon' = daemon /\ FileInv'
    BY <1>0, <1>1, <2>1, RunConcerns
  <2>3. RegistryOf(t)' /\ StoreOf(t)' /\ (t \in code' => WorkOf(t)') /\ worktree' \subseteq branch'
    BY <1>1, RunKeeps
  <2> QED BY <1>0, <2>2, <2>3, OthersKeep
<1>2. ASSUME UNCHANGED <<mem, disk, tail, under, lost, run, running, code, worktree, branch>>,
             \/ daemon' = daemon
             \/ daemon # "down" /\ daemon' # "down"
      PROVE  TaskInv'
  <2>1. ASSUME NEW t \in Tasks PROVE RegistryOf(t)'
    BY <1>0, <1>2 DEF RegistryInv, RegistryOf
  <2>2. ASSUME NEW t \in Tasks PROVE StoreOf(t)'
    <3>1. StoreOf(t)
      BY <1>0 DEF StoreInv
    <3>2. daemon' = "down" <=> daemon = "down"
      BY <1>2
    <3> QED BY <1>2, <3>1, <3>2 DEF StoreOf, AgreedOf
  <2>3. WorkInv' /\ FileInv'
    BY <1>0, <1>2 DEF WorkInv, WorkOf, KeptOf, FileInv
  <2> QED BY <2>1, <2>2, <2>3 DEF TaskInv, RegistryInv, StoreInv
<1>3. ASSUME NEW u \in Reviewers, NEW to \in Status, Move(u, to) PROVE TaskInv'
  <2>1. UNCHANGED <<run, running, code, worktree, branch, daemon>>
    BY <1>3, AsideFrame
  <2>2. PICK q \in Tasks : q = rev[u].task
    BY <1>0, <1>3, MoveEdits
  <2>3. /\ Concerns(q) /\ FileInv'
        /\ RegistryOf(q)' /\ StoreOf(q)' /\ (q \in code' => WorkOf(q)')
    BY <1>3, <2>2, MoveKeeps
  <2> QED BY <1>0, <2>1, <2>3, OthersKeep DEF WorkInv
<1>4. ASSUME NEW u \in Reviewers, NEW works \in BOOLEAN, Remove(u, works) PROVE TaskInv'
  <2>1. UNCHANGED <<mem, disk, tail, under, lost, run, running, code, daemon>>
    BY <1>4, AsideFrame
  <2>2. /\ rev[u].todo # <<>> /\ Head(rev[u].todo) = "remove" /\ daemon # "down"
        /\ worktree' \subseteq worktree
        /\ \/ UNCHANGED <<worktree, branch>>
           \/ worktree' = worktree \ {rev[u].task} /\ branch' = branch \ {rev[u].task}
    BY <1>4 DEF Remove, Doing
  <2>3. /\ rev[u].task \in Tasks /\ ReviewOf(u) /\ rev[u].todo \in Plans
        /\ RegistryOf(rev[u].task) /\ StoreOf(rev[u].task)
        /\ rev[u].task \in code => WorkOf(rev[u].task)
    BY <2>2, ReviewedTask
  <2>4. PICK q \in Tasks : q = rev[u].task
    BY <2>3
  <2>5. CASE UNCHANGED <<worktree, branch>>
    BY <1>2, <2>1, <2>5
  <2>6. CASE worktree' = worktree \ {q} /\ branch' = branch \ {q}
    <3>1. /\ Concerns(q) /\ RegistryOf(q)' /\ StoreOf(q)' /\ worktree' \subseteq branch'
          /\ FileInv'
      BY <1>0, <2>1, <2>3, <2>4, <2>6
      DEF Concerns, Kept, RegistryOf, StoreOf, AgreedOf, WorkInv, FileInv
    <3>2. \/ rev[u].todo = <<"remove">>
          \/ rev[u].todo = <<"remove", "done">>
      BY <2>2, <2>3, PlanSteps
    <3>3. /\ Has(mem[q], {"merging", "rejected", "cancelled"}) /\ run[q].pc \in {"exit", "ended"}
          /\ q \in lost \/ (mem[q] = disk[q] /\ under[q] = disk[q])
      BY <2>2, <2>3, <2>4, <3>2 DEF ReviewOf, RegistryOf, ReviewedStates, Has
    <3>4. q \in code' => WorkOf(q)'
      BY <2>1, <2>2, <2>3, <2>4, <3>3
      DEF WorkOf, KeptOf, NeedsBranch, Has, ResumableStates, Working, Active
    <3> QED BY <1>0, <2>1, <3>1, <3>4, OthersKeep
  <2> QED BY <2>2, <2>4, <2>5, <2>6
<1>5. CASE Die
  BY <1>5, DieKeeps
<1>6. CASE Start
  <2>1. /\ daemon' = "up" /\ mem' = disk
        /\ UNCHANGED <<disk, tail, under, lost, code, worktree, branch>>
    BY <1>6 DEF Start, ReplayStore, fileVars, gitVars
  <2> DEFINE resumed == {t \in Tasks : disk[t] # NoTask /\ Resumable(disk[t].status)}
  <2>2. /\ running' = resumed
        /\ run' = [t \in Tasks |->
                     IF t \in resumed THEN [NoRun EXCEPT !.pc = "launched", !.snap = disk[t]]
                     ELSE IF disk[t] # NoTask THEN [NoRun EXCEPT !.pc = "ended"] ELSE NoRun]
    BY <1>6 DEF Start
  <2>3. ASSUME NEW t \in Tasks
        PROVE  RegistryOf(t)' /\ StoreOf(t)' /\ (t \in code' => WorkOf(t)')
    <3>1. t \in resumed <=> Has(disk[t], ResumableStates)
      BY TaskBasics DEF Has, ResumableStates, Resumable, Terminal, Status
    <3>2. StoreOf(t) /\ (t \in code => WorkOf(t))
      BY <1>0 DEF StoreInv, WorkInv
    <3>3. CASE t \in resumed
      <4>1. /\ run'[t].pc = "launched" /\ run'[t].snap = disk[t] /\ run'[t].note = <<>>
            /\ t \in running' /\ Has(disk[t], ResumableStates)
        BY <2>2, <3>1, <3>3 DEF NoRun
      <4>2. RegistryOf(t)'
        BY <2>1, <4>1 DEF RegistryOf, Has, ResumableStates, ReviewedStates
      <4>3. StoreOf(t)'
        BY <2>1, <3>2, <4>1
        DEF StoreOf, AgreedOf, Has, ResumableStates, OverStates, ReviewedStates
      <4>4. t \in code' => WorkOf(t)'
        BY <2>1, <3>2, <4>1
        DEF WorkOf, KeptOf, NeedsBranch, Has, ResumableStates, Working, Active
      <4> QED BY <4>2, <4>3, <4>4
    <3>4. CASE t \notin resumed
      <4>1. /\ run'[t].pc \in {"none", "ended"} /\ run'[t].note = <<>>
            /\ run'[t].pc = "none" => disk[t] = NoTask
            /\ t \notin running' /\ ~Has(disk[t], ResumableStates)
        BY <2>2, <3>1, <3>4 DEF NoRun
      <4>2. RegistryOf(t)'
        BY <2>1, <4>1 DEF RegistryOf, Has
      <4>3. StoreOf(t)'
        BY <2>1, <3>2, <4>1 DEF StoreOf, AgreedOf, Has
      <4>4. t \in code' => WorkOf(t)'
        BY <2>1, <3>2, <4>1
        DEF WorkOf, KeptOf, NeedsBranch, Has, ResumableStates, Working, Active
      <4> QED BY <4>2, <4>3, <4>4
    <3> QED BY <3>3, <3>4
  <2>4. FileInv' /\ worktree' \subseteq branch'
    BY <1>0, <2>1 DEF FileInv, WorkInv
  <2> QED BY <1>0, <2>3, <2>4 DEF TaskInv, RegistryInv, StoreInv, WorkInv
<1> QED BY <1>1, <1>2, <1>3, <1>4, <1>5, <1>6, NextCases, AsideFrame

-----------------------------------------------------------------------------
(* The reviews *)

(* A run leaves the reviews alone.                                         *)
LEMMA RunLeavesReviews ==
    ASSUME NEW t \in Tasks, RunStep(t)
    PROVE  UNCHANGED <<transitionMu, rev>>
<1> USE DEF RunFrame, reviewVars
<1>1. ASSUME NEW by \in Conns \cup {Nobody}, Submit(t, by) PROVE UNCHANGED <<transitionMu, rev>>
  BY <1>1 DEF Submit
<1>2. CASE Register(t)
  BY <1>2 DEF Register
<1>3. CASE Begin(t)
  BY <1>3 DEF Begin
<1>4. CASE Verify(t)
  BY <1>4 DEF Verify
<1>5. CASE Engage(t)
  BY <1>5 DEF Engage
<1>6. CASE WorkerStops(t)
  BY <1>6 DEF WorkerStops
<1>7. CASE WorkerFails(t)
  BY <1>7 DEF WorkerFails
<1>8. CASE PromptCancelled(t)
  BY <1>8 DEF PromptCancelled
<1>9. CASE Collect(t)
  BY <1>9 DEF Collect
<1>10. CASE Cleanup(t)
  BY <1>10 DEF Cleanup
<1>11. CASE Prepare(t)
  BY <1>11 DEF Prepare
<1>12. CASE Exit(t)
  BY <1>12 DEF Exit
<1>13. CASE Notify(t)
  BY <1>13 DEF Notify
<1>14. CASE Enqueue(t)
  BY <1>14 DEF Enqueue
<1>15. CASE SavePrepared(t)
  BY <1>15 DEF SavePrepared
<1>16. CASE SaveDispatching(t)
  BY <1>16 DEF SaveDispatching
<1>17. CASE SaveWorking(t)
  BY <1>17 DEF SaveWorking
<1>18. CASE SaveReview(t)
  BY <1>18 DEF SaveReview
<1>19. CASE Fail(t)
  BY <1>19 DEF Fail
<1>20. CASE CancelInto(t)
  BY <1>20 DEF CancelInto
<1> QED
  BY <1>1, <1>2, <1>3, <1>4, <1>5, <1>6, <1>7, <1>8, <1>9, <1>10, <1>11, <1>12, <1>13, <1>14,
     <1>15, <1>16, <1>17, <1>18, <1>19, <1>20
  DEF RunStep, Orchestrate

(* Only the holder of transitionMu has something left to do.               *)
(* Only the holder of transitionMu has something left to do.               *)
LEMMA OneReviewer ==
    ASSUME TypeOK, ReviewInv, NEW u \in Reviewers, NEW v \in Reviewers, v # u,
           transitionMu = u \/ transitionMu = Nobody
    PROVE  rev[v].todo = <<>>
BY DispatchAssumption DEF ReviewInv, ReviewOf

(* The handler of u went on, and the rest of its plan fits the record.     *)
LEMMA OnlyOneReviews ==
    ASSUME TypeOK, ReviewInv, NEW u \in Reviewers, transitionMu = u \/ transitionMu = Nobody,
           \A v \in Reviewers : v # u => rev'[v] = rev[v],
           rev'[u].todo # <<>> => ReviewOf(u)'
    PROVE  ReviewInv'
<1> SUFFICES ASSUME NEW v \in Reviewers, rev'[v].todo # <<>> PROVE ReviewOf(v)'
  BY DEF ReviewInv
<1>1. v = u
  BY OneReviewer
<1> QED BY <1>1

(* Every step keeps the reviews' plans in agreement with the store.        *)
LEMMA ReviewStep == TypeOK /\ TypeOK' /\ TaskInv /\ ReviewInv /\ [Next]_vars => ReviewInv'
<1> SUFFICES ASSUME TypeOK, TypeOK', TaskInv, ReviewInv, [Next]_vars PROVE ReviewInv'
  OBVIOUS
<1>1. ASSUME NEW t \in Tasks, RunStep(t) PROVE ReviewInv'
  <2>0. FileInv /\ RegistryOf(t)
    BY DEF TaskInv, RegistryInv
  <2>1. UNCHANGED <<transitionMu, rev>> /\ daemon' = daemon /\ Concerns(t)
    BY <1>1, <2>0, RunLeavesReviews, RunConcerns
  <2>2. Writes(t) \/ Proceeds(t) \/ Announces(t)
    BY <1>1, RunWrites
  <2> SUFFICES ASSUME NEW u \in Reviewers, rev[u].todo # <<>> PROVE ReviewOf(u)'
    BY <2>1 DEF ReviewInv
  <2>3. ReviewOf(u) /\ rev[u].task \in Tasks /\ RegistryOf(rev[u].task) /\ rev[u].todo \in Plans
    BY ReviewedTask
  <2>4. PICK q \in Tasks : q = rev[u].task
    BY <2>3
  <2>5. CASE mem'[q] = mem[q] /\ (Kept(q) \/ Dropped(q)) /\ run'[q].pc = run[q].pc
    <3>1. Head(rev[u].todo) = "remove" =>
            q \in lost' \/ (mem'[q] = disk'[q] /\ under'[q] = disk'[q])
      BY <2>3, <2>4, <2>5 DEF ReviewOf, Kept, Dropped
    <3> QED BY <2>1, <2>3, <2>4, <2>5, <3>1 DEF ReviewOf
  <2>6. CASE q # t
    BY <2>1, <2>5, <2>6 DEF Concerns
  <2>7. CASE q = t /\ Announces(t)
    BY <2>5, <2>7 DEF Announces, Kept
  <2>8. CASE q = t /\ Proceeds(t)
    <3>1. /\ mem' = mem /\ run[q].pc # "ended"
          /\ run[q].pc = "exit" => run'[q].pc = "ended"
          /\ UNCHANGED <<disk, under, lost>> \/ run[q].pc \in Saving
      BY <2>8 DEF Proceeds
    <3>2. Head(rev[u].todo) = "remove" => run[q].pc \in {"exit", "ended"}
      BY <2>3, <2>4, PlanSteps DEF ReviewOf, RegistryOf, Has, ReviewedStates
    <3>3. Head(rev[u].todo) = "remove" => UNCHANGED <<disk, under, lost>>
      BY <3>1, <3>2 DEF Saving
    <3> QED BY <2>1, <2>3, <2>4, <3>1, <3>3 DEF ReviewOf
  <2>9. CASE q = t /\ Writes(t)
    <3>1. PICK s \in Snapshot, next \in RunPCs :
            /\ s.status \in ResumableStates \cup {"awaiting_review", "failed", "cancelled"}
            /\ Saves(t, s, next)
      BY <2>9 DEF Writes, ByRun
    <3>2. run[q].pc \in Saving /\ mem'[q] = s /\ s # NoTask
      BY <2>9, <3>1, SnapshotIsThere DEF Writes, Saves, Stored
    <3>3. ~Has(mem[q], ReviewedStates) /\ run[q].pc \notin {"exit", "ended"}
          /\ ~Has(mem[q], {"cancelled"})
      BY <2>3, <2>4, <3>2 DEF RegistryOf, Saving, Has
    <3>4. rev[u].todo = <<"look">>
      BY <2>3, <2>4, <3>3 DEF ReviewOf, Has, ReviewedStates, Plans
    <3>5. ~Has(mem'[q], {"done", "rejected"})
      BY <3>1, <3>2 DEF Has, ResumableStates
    <3>6. Head(<<"look">>) # "remove"
      OBVIOUS
    <3> QED BY <2>1, <2>3, <2>4, <3>2, <3>4, <3>5, <3>6 DEF ReviewOf
  <2> QED BY <2>2, <2>6, <2>7, <2>8, <2>9
<1>2. ASSUME NEW u \in Reviewers, NEW op \in ReviewOps, NEW t \in Tasks, Decide(u, op, t)
      PROVE  ReviewInv'
  <2>1. /\ UNCHANGED <<mem, disk, under, lost, run, daemon>> /\ transitionMu = Nobody /\ transitionMu' = u
        /\ daemon # "down" /\ mem[t] # NoTask
        /\ IF op = "cancel" THEN ~Terminal(mem[t].status)
           ELSE mem[t].status = "awaiting_review"
        /\ rev' = [rev EXCEPT ![u] = [task |-> t, snap |-> mem[t], todo |-> Plan(op, t)]]
    BY <1>2, AsideFrame DEF Decide
  <2>2. /\ rev'[u].task = t /\ rev'[u].todo = Plan(op, t)
        /\ \A v \in Reviewers : v # u => rev'[v] = rev[v]
    BY <2>1 DEF TypeOK, ReviewsTyped
  <2>3. CASE op = "cancel"
    <3>1. rev'[u].todo = <<"look">> /\ Head(<<"look">>) # "remove"
      BY <2>2, <2>3, PlanHeads
    <3>2. ~Has(mem[t], {"done", "rejected"})
      BY <2>1, <2>3 DEF Has, Terminal
    <3>3. ReviewOf(u)'
      BY <2>1, <2>2, <3>1, <3>2 DEF ReviewOf
    <3> QED BY <2>1, <2>2, <3>3, OnlyOneReviews
  <2>4. CASE op # "cancel"
    <3>1. rev'[u].todo \in {<<"done">>, <<"ff", "merging", "remove", "done">>,
                            <<"merging", "remove", "done">>, <<"rejected", "remove">>}
      BY <2>2, <2>4, PlanHeads
    <3>2. Has(mem[t], {"awaiting_review"}) /\ Has(mem[t], {"awaiting_review", "merging"})
      BY <2>1, <2>4 DEF Has
    <3>3. Head(rev'[u].todo) # "remove"
      BY <3>1
    <3>4. ReviewOf(u)'
      BY <2>1, <2>2, <3>1, <3>2, <3>3 DEF ReviewOf
    <3> QED BY <2>1, <2>2, <3>4, OnlyOneReviews
  <2> QED BY <2>3, <2>4
<1>3. ASSUME NEW u \in Reviewers, MergeFF(u) PROVE ReviewInv'
  <2>1. UNCHANGED <<mem, disk, under, lost, run, daemon>> /\ rev[u].todo # <<>> /\ Head(rev[u].todo) = "ff"
    BY <1>3, AsideFrame DEF MergeFF, Doing
  <2>2. ReviewOf(u) /\ rev[u].task \in Tasks /\ rev[u].todo \in Plans /\ transitionMu = u
        /\ rev[u].snap \in Snapshot
    BY <2>1, ReviewedTask DEF ReviewOf, TypeOK, ReviewsTyped
  <2>3. /\ rev[u].todo = <<"ff", "merging", "remove", "done">> /\ Tail(rev[u].todo) \in Plans
        /\ Tail(rev[u].todo) = <<"merging", "remove", "done">> /\ <<>> \in Plans
    BY <2>1, <2>2, PlanSteps, PlanHeads
  <2>4. \/ Continues(u, <<>>, rev[u].snap)
        \/ Continues(u, <<"merging", "remove", "done">>, rev[u].snap)
    BY <1>3, <2>2, <2>3, ContinueEdits DEF MergeFF
  <2>5. ASSUME rev'[u].todo # <<>> PROVE ReviewOf(u)'
    <3>1. /\ rev'[u].todo = <<"merging", "remove", "done">> /\ rev'[u].task = rev[u].task
          /\ transitionMu' = u /\ Head(rev'[u].todo) # "remove"
      BY <2>2, <2>4, <2>5 DEF Continues
    <3> QED BY <2>1, <2>2, <2>3, <3>1 DEF ReviewOf
  <2> QED BY <2>2, <2>4, <2>5, OnlyOneReviews DEF Continues
<1>4. ASSUME NEW u \in Reviewers, Look(u) PROVE ReviewInv'
  <2>1. /\ UNCHANGED <<mem, disk, under, lost, run, running, daemon>> /\ rev[u].todo # <<>>
        /\ Head(rev[u].todo) = "look"
    BY <1>4, AsideFrame DEF Look, Doing
  <2>2. ReviewOf(u) /\ rev[u].task \in Tasks /\ rev[u].todo \in Plans /\ transitionMu = u
        /\ rev[u].snap \in Snapshot /\ RegistryOf(rev[u].task)
    BY <2>1, ReviewedTask DEF ReviewOf, TypeOK, ReviewsTyped
  <2>3. rev[u].todo = <<"look">> /\ <<>> \in Plans /\ <<"cancelled", "remove">> \in Plans
    BY <2>1, <2>2, PlanSteps, PlanHeads
  <2>4. \/ Continues(u, <<>>, rev[u].snap)
        \/ rev[u].task \notin running /\ Continues(u, <<"cancelled", "remove">>, rev[u].snap)
    BY <1>4, <2>2, <2>3, ContinueEdits DEF Look
  <2>5. ASSUME rev'[u].todo # <<>> PROVE ReviewOf(u)'
    <3>1. /\ rev'[u].todo = <<"cancelled", "remove">> /\ rev'[u].task = rev[u].task
          /\ transitionMu' = u /\ Head(rev'[u].todo) # "remove" /\ rev[u].task \notin running
      BY <2>2, <2>4, <2>5 DEF Continues
    <3>2. run[rev[u].task].pc = "ended" /\ ~Has(mem[rev[u].task], {"done", "rejected"})
      BY <2>2, <2>3, <3>1 DEF ReviewOf, RegistryOf
    <3> QED BY <2>1, <2>2, <2>3, <3>1, <3>2 DEF ReviewOf
  <2> QED BY <2>2, <2>4, <2>5, OnlyOneReviews DEF Continues
<1>5. ASSUME NEW u \in Reviewers, NEW to \in Status, Move(u, to) PROVE ReviewInv'
  <2>1. /\ UNCHANGED <<run, daemon>> /\ rev[u].todo # <<>> /\ Head(rev[u].todo) = to
        /\ ReviewOf(u) /\ rev[u].task \in Tasks /\ rev[u].todo \in Plans
        /\ StoreOf(rev[u].task) /\ RegistryOf(rev[u].task) /\ FileInv
    BY <1>5, AsideFrame, MoveEdits, ReviewedTask DEF TaskInv
  <2>2. /\ transitionMu = u /\ daemon # "down" /\ run[rev[u].task].pc \in {"exit", "ended"}
        /\ to = "cancelled" => run[rev[u].task].pc = "ended"
        /\ to # "cancelled" => Has(mem[rev[u].task], {"awaiting_review", "merging"})
    BY <2>1, MovedFrom
  <2>3. PICK s \in Snapshot : s.status = to /\ (Moves(u, to, s) \/ Balks(u, s))
    BY <1>5, <2>1, MoveEdits
  <2>4. ASSUME rev'[u].todo # <<>> PROVE ReviewOf(u)'
    <3>1. /\ storeOpen /\ Stored(rev[u].task, s) /\ Continues(u, Tail(rev[u].todo), s)
      BY <2>3, <2>4 DEF Continues, Moves, Balks
    <3>2. \/ to = "merging" /\ Tail(rev[u].todo) = <<"remove", "done">>
          \/ to \in {"rejected", "cancelled"} /\ Tail(rev[u].todo) = <<"remove">>
      <4>1. rev'[u].todo = Tail(rev[u].todo)
        BY <3>1 DEF Continues
      <4> QED BY <2>1, <2>4, <4>1, PlanSteps
    <3>3. /\ rev'[u].todo = Tail(rev[u].todo) /\ rev'[u].task = rev[u].task /\ transitionMu' = u
      BY <2>2, <2>4, <3>1 DEF Continues
    <3>4. PICK q \in Tasks : q = rev[u].task
      BY <2>1
    <3>5. /\ mem'[q] = s /\ s # NoTask /\ s.status = to
          /\ Filed(q, s) \/ Glued(q, s)
      BY <2>3, <3>1, <3>4, SnapshotIsThere DEF Stored
    <3>6. q \in lost' \/ (mem'[q] = disk'[q] /\ under'[q] = disk'[q])
      BY <3>2, <3>5 DEF Filed, Glued, ByReview
    <3>7. Has(mem'[q], {to}) /\ run'[q].pc \in {"exit", "ended"} /\ daemon' # "down"
      BY <2>1, <2>2, <2>3, <3>4, <3>5 DEF Has
    <3>8. mem'[q] # NoTask /\ rev'[u].task = q
      BY <3>3, <3>4, <3>5
    <3>9. /\ transitionMu' = u /\ rev'[u].task \in Tasks /\ daemon' # "down"
          /\ mem'[rev'[u].task] # NoTask
          /\ \/ rev'[u].task \in lost'
             \/ /\ mem'[rev'[u].task] = disk'[rev'[u].task]
                /\ under'[rev'[u].task] = disk'[rev'[u].task]
      BY <3>3, <3>6, <3>7, <3>8
    <3>10. CASE to = "merging" /\ rev'[u].todo = <<"remove", "done">>
      <4>1. Has(mem'[rev'[u].task], {"merging"})
        BY <3>7, <3>8, <3>10
      <4> QED BY <3>9, <3>10, <4>1 DEF ReviewOf
    <3>11. CASE to \in {"rejected", "cancelled"} /\ rev'[u].todo = <<"remove">>
      <4>1. /\ Has(mem'[rev'[u].task], {"rejected", "cancelled"})
            /\ run'[rev'[u].task].pc \in {"exit", "ended"}
        BY <3>7, <3>8, <3>11 DEF Has
      <4> QED BY <3>9, <3>11, <4>1 DEF ReviewOf
    <3> QED BY <3>2, <3>3, <3>10, <3>11
  <2> QED BY <2>2, <2>3, <2>4, OnlyOneReviews DEF Continues, Moves, Balks
<1>6. ASSUME NEW u \in Reviewers, NEW works \in BOOLEAN, Remove(u, works) PROVE ReviewInv'
  <2>1. /\ UNCHANGED <<mem, disk, under, lost, run, daemon>> /\ rev[u].todo # <<>>
        /\ Head(rev[u].todo) = "remove"
    BY <1>6, AsideFrame DEF Remove, Doing
  <2>2. ReviewOf(u) /\ rev[u].task \in Tasks /\ rev[u].todo \in Plans /\ transitionMu = u
        /\ rev[u].snap \in Snapshot
    BY <2>1, ReviewedTask DEF ReviewOf, TypeOK, ReviewsTyped
  <2>3. /\ Tail(rev[u].todo) \in Plans
        /\ \/ rev[u].todo = <<"remove">> /\ Tail(rev[u].todo) = <<>>
           \/ rev[u].todo = <<"remove", "done">> /\ Tail(rev[u].todo) = <<"done">>
    BY <2>1, <2>2, PlanSteps
  <2>4. Continues(u, Tail(rev[u].todo), rev[u].snap)
    BY <1>6, <2>2, <2>3, ContinueEdits DEF Remove
  <2>5. ASSUME rev'[u].todo # <<>> PROVE ReviewOf(u)'
    <3>1. /\ rev'[u].todo = <<"done">> /\ rev'[u].task = rev[u].task /\ transitionMu' = u
          /\ rev[u].todo = <<"remove", "done">> /\ Head(<<"done">>) # "remove"
      BY <2>2, <2>3, <2>4, <2>5 DEF Continues
    <3>2. Has(mem[rev[u].task], {"awaiting_review", "merging"})
      BY <2>2, <3>1 DEF ReviewOf, Has
    <3> QED BY <2>1, <2>2, <3>1, <3>2 DEF ReviewOf
  <2> QED BY <2>2, <2>4, <2>5, OnlyOneReviews DEF Continues
<1>7. CASE Stops
  <2>1. UNCHANGED <<mem, disk, under, lost, run, transitionMu, rev>> /\ daemon' # "down"
    BY <1>7, AsideFrame
  <2> QED BY <2>1 DEF ReviewInv, ReviewOf
<1>8. CASE Aside
  <2>1. UNCHANGED <<mem, disk, under, lost, run, transitionMu, rev, daemon>>
    BY <1>8, AsideFrame
  <2> QED BY <2>1 DEF ReviewInv, ReviewOf
<1>9. CASE Start
  <2>1. daemon = "down" /\ rev' = rev
    BY <1>9 DEF Start, reviewVars
  <2> QED BY <2>1 DEF ReviewInv, ReviewOf
<1>10. CASE Die
  BY <1>10 DEF Die, ReviewInv, Idle
<1> QED BY <1>1, <1>2, <1>3, <1>4, <1>5, <1>6, <1>7, <1>8, <1>9, <1>10, NextCases
-----------------------------------------------------------------------------
(* The tails *)

(* A connection ends its prompt, keeps it, subscribes, or goes on with its *)
(* tail: after a look at the status, or at the events past its cursor.     *)
PromptGoes(c) ==
    LET p == conn[c].prompt
        q == conn'[c].prompt
    IN /\ \A d \in Conns : d # c => conn'[d] = conn[d]
       /\ conn'[c].closed = conn[c].closed \/ ~conn[c].closed
       /\ \/ q.kind = "none"
          \/ p.kind = "sync" /\ q = p
          \/ q.kind = "subscribed" /\ daemon = "up" /\ q.task \in Tasks /\ q.cursor = Len(log[q.task])
          \/ /\ p.kind = "subscribed" /\ q.kind = "tailing" /\ q.task = p.task
             /\ q.cursor = p.cursor /\ ~tailComplete(mem[p.task].status)
          \/ /\ p.kind = "tailing" /\ q.kind = "tailing" /\ q.task = p.task
             /\ q.cursor = Len(log[p.task])
             /\ ~\E i \in p.cursor + 1 .. Len(log[p.task]) : tailComplete(log[p.task][i])

(* What the steps of connections and questions do to the connections.      *)
LEMMA AsidePrompts ==
    ASSUME TypeOK, ConnInv, Aside
    PROVE  log' = log /\ (UNCHANGED conn \/ \E c \in Conns : PromptGoes(c))
<1> DEFINE Goal == log' = log /\ (UNCHANGED conn \/ \E c \in Conns : PromptGoes(c))
<1>1. ASSUME NEW c \in Conns, NEW t \in Tasks, Subscribe(c, t) PROVE Goal
  <2>1. log' = log /\ daemon = "up"
    BY <1>1 DEF Subscribe, ConnInv, logVars
  <2> QED BY <1>1, <2>1, SubscribePrompt DEF PromptGoes
<1>2. ASSUME NEW c \in Conns, CheckComplete(c) PROVE Goal
  <2>1. log' = log
    BY <1>2 DEF CheckComplete, logVars
  <2> QED BY <1>2, <2>1, CheckPrompt DEF PromptGoes
<1>3. ASSUME NEW c \in Conns, ReadEvents(c) PROVE Goal
  <2>1. /\ log' = log /\ conn[c].prompt.task \in Tasks
        /\ conn[c].prompt.cursor <= Len(log[conn[c].prompt.task])
    BY <1>3 DEF ReadEvents, ConnInv, logVars
  <2> QED BY <1>3, <2>1, ReadPrompt DEF PromptGoes
<1>4. ASSUME NEW c \in Conns, NEW closes \in BOOLEAN, CancelPrompt(c, closes) PROVE Goal
  <2>1. log' = log
    BY <1>4 DEF CancelPrompt, logVars
  <2> QED BY <1>4, <2>1, CancelPrompts DEF PromptGoes
<1>5. ASSUME NEW t \in Tasks, Ask(t) \/ AskCancelled(t) \/ \E c \in Conns, settles \in BOOLEAN :
                                                             Answer(t, c, settles)
      PROVE  Goal
  BY <1>5 DEF Ask, AskCancelled, Answer, logVars
<1>6. ASSUME UNCHANGED vars PROVE Goal
  BY <1>6 DEF vars
<1> QED
  <2> HIDE DEF Goal
  <2>1. Goal
    BY <1>1, <1>2, <1>3, <1>4, <1>5, <1>6 DEF Aside, Observe
  <2> QED BY <2>1 DEF Goal

(* EventLog.Append, and steps that leave log and connections alone, keep   *)
(* what is said of the connections while the daemon stays as it is.        *)
LEMMA LoggedKeepsConns ==
    ASSUME TypeOK, ConnInv, daemon' = daemon,
           \/ UNCHANGED <<log, conn>>
           \/ \E t \in Tasks, s \in Status : Logged(t, s)
    PROVE  ConnInv'
<1>1. CASE UNCHANGED <<log, conn>>
  BY <1>1 DEF ConnInv
<1>2. CASE \E t \in Tasks, s \in Status : Logged(t, s)
  <2>1. /\ \A q \in Tasks : Len(log[q]) <= Len(log'[q]) /\ Len(log[q]) \in Nat /\ Len(log'[q]) \in Nat
        /\ \A c \in Conns : /\ conn'[c].closed = conn[c].closed
                            /\ conn'[c].prompt.kind = conn[c].prompt.kind
                            /\ conn'[c].prompt.task = conn[c].prompt.task
                            /\ conn'[c].prompt.cursor = conn[c].prompt.cursor
                            /\ conn[c].prompt.cursor \in Nat
    BY <1>2 DEF Logged, TypeOK, StoreTyped, ConnStates
  <2> QED BY <2>1 DEF ConnInv
<1> QED BY <1>1, <1>2

(* Every step keeps the cursors of the tails within their logs.            *)
LEMMA ConnStep ==
    TypeOK /\ TypeOK' /\ TaskInv /\ ReviewInv /\ ConnInv /\ [Next]_vars => ConnInv'
<1> SUFFICES ASSUME TypeOK, TypeOK', TaskInv, ReviewInv, ConnInv, [Next]_vars PROVE ConnInv'
  OBVIOUS
<1>1. ASSUME NEW t \in Tasks, RunStep(t) PROVE ConnInv'
  <2>0. FileInv /\ RegistryOf(t)
    BY DEF TaskInv, RegistryInv
  <2>1. daemon' = daemon /\ (Writes(t) \/ Proceeds(t) \/ Announces(t))
    BY <1>1, <2>0, RunConcerns, RunWrites
  <2>2. CASE Writes(t)
    BY <2>1, <2>2, LoggedKeepsConns DEF Writes
  <2>3. CASE Proceeds(t)
    BY <2>1, <2>3 DEF Proceeds, ConnInv
  <2>4. CASE Announces(t)
    <3>1. run[t].note # <<>> => run[t].note[1] \in Status
      BY DEF TypeOK, RunsTyped, RunStates
    <3> QED BY <2>1, <2>4, <3>1, LoggedKeepsConns DEF Announces, Tells
  <2> QED BY <2>1, <2>2, <2>3, <2>4
<1>2. ASSUME NEW u \in Reviewers, NEW op \in ReviewOps, NEW t \in Tasks, Decide(u, op, t)
      PROVE  ConnInv'
  BY <1>2, AsideFrame, LoggedKeepsConns
<1>3. ASSUME NEW u \in Reviewers, MergeFF(u) \/ Look(u) PROVE ConnInv'
  BY <1>3, AsideFrame, LoggedKeepsConns
<1>4. ASSUME NEW u \in Reviewers, NEW to \in Status, Move(u, to) PROVE ConnInv'
  <2>1. FileInv /\ daemon' = daemon
    BY <1>4, AsideFrame DEF TaskInv
  <2>2. PICK s \in Snapshot : Moves(u, to, s) \/ Balks(u, s)
    BY <1>4, <2>1, MoveEdits
  <2>3. UNCHANGED <<log, conn>> \/ \E t \in Tasks, x \in Status : Logged(t, x)
    BY <1>4, <2>1, <2>2, MoveEdits DEF Moves, Balks, Tells
  <2> QED BY <2>1, <2>3, LoggedKeepsConns
<1>5. ASSUME NEW u \in Reviewers, NEW works \in BOOLEAN, Remove(u, works) PROVE ConnInv'
  BY <1>5, AsideFrame, LoggedKeepsConns
<1>6. CASE Stops
  <2>1. CASE StopBegin
    <3>1. log' = log /\ daemon' = "stopping"
      BY <2>1 DEF StopBegin, logVars
    <3> QED BY <2>1, <3>1, StopPrompts DEF ConnInv
  <2>2. CASE StopWaited \/ StopClose
    <3>1. UNCHANGED <<log, conn>> /\ daemon \in {"stopping", "draining"}
      BY <2>2 DEF StopWaited, StopClose, logVars
    <3> QED BY <3>1 DEF ConnInv
  <2> QED BY <1>6, <2>1, <2>2 DEF Stops
<1>7. CASE Start
  <2>1. UNCHANGED <<log, conn>> /\ daemon = "down" /\ daemon' = "up"
    BY <1>7 DEF Start, logVars
  <2> QED BY <2>1 DEF ConnInv
<1>8. CASE Aside
  <2>1. daemon' = daemon
    BY <1>8, AsideFrame
  <2>2. /\ \A q \in Tasks : Len(log[q]) \in Nat
        /\ \A c \in Conns : conn[c].prompt.cursor \in Nat
    BY DEF TypeOK, StoreTyped, ConnStates
  <2>3. CASE UNCHANGED <<log, conn>>
    BY <2>1, <2>3, LoggedKeepsConns
  <2>4. CASE ~UNCHANGED conn
    BY <1>8, <2>1, <2>2, <2>4, AsidePrompts DEF PromptGoes, ConnInv
  <2> QED BY <1>8, <2>3, <2>4, AsidePrompts
<1>9. CASE Die
  BY <1>9, AcceptedIsTyped DEF Die, ConnInv
<1> QED BY <1>1, <1>2, <1>3, <1>4, <1>5, <1>6, <1>7, <1>8, <1>9, NextCases

(* One connection's tail will end, unless the event could not be written.  *)
Ends(c) ==
    LET p == conn[c].prompt IN
    /\ p.kind = "tailing" /\ mem[p.task] # NoTask /\ tailComplete(mem[p.task].status)
    /\ p.task \notin unlogged
    =>  \/ run[p.task].note # <<>> /\ tailComplete(run[p.task].note[1])
        \/ p.sig /\ \E i \in p.cursor + 1 .. Len(log[p.task]) : tailComplete(log[p.task][i])

(* An event of a completing status, appended for a task, ends its tails.   *)
LEMMA LoggedEnds ==
    ASSUME TypeOK, ConnInv, NEW t \in Tasks, NEW s \in Status, Logged(t, s), NEW c \in Conns,
           conn'[c].prompt.kind = "tailing"
    PROVE  /\ conn[c].prompt.kind = "tailing" /\ conn'[c].prompt.task = conn[c].prompt.task
           /\ conn'[c].prompt.task \in Tasks
           /\ conn[c].prompt.task = t /\ tailComplete(s) =>
                /\ conn'[c].prompt.sig
                /\ \E i \in conn'[c].prompt.cursor + 1 .. Len(log'[t]) : tailComplete(log'[t][i])
           /\ \A q \in Tasks :
                /\ conn[c].prompt.sig
                /\ \E i \in conn[c].prompt.cursor + 1 .. Len(log[q]) : tailComplete(log[q][i])
                => /\ conn'[c].prompt.sig
                   /\ \E i \in conn'[c].prompt.cursor + 1 .. Len(log'[q]) : tailComplete(log'[q][i])
<1>1. /\ conn[c].prompt.kind = "tailing" /\ conn'[c].prompt.task = conn[c].prompt.task
      /\ conn'[c].prompt.cursor = conn[c].prompt.cursor /\ conn[c].prompt.cursor \in Nat
      /\ conn[c].prompt.sig => conn'[c].prompt.sig
      /\ conn[c].prompt.task = t => conn'[c].prompt.sig
  BY DEF Logged, TypeOK, ConnStates
<1>2. conn[c].prompt.task \in Tasks /\ conn[c].prompt.cursor <= Len(log[conn[c].prompt.task])
  BY <1>1 DEF ConnInv
<1>3. \A q \in Tasks : /\ Len(log[q]) \in Nat /\ Len(log'[q]) \in Nat /\ Len(log[q]) <= Len(log'[q])
                       /\ \A i \in 1 .. Len(log[q]) : log'[q][i] = log[q][i]
  BY DEF Logged, TypeOK, StoreTyped
<1>4. Len(log'[t]) = Len(log[t]) + 1 /\ log'[t][Len(log[t]) + 1] = s
  BY DEF Logged
<1>5. ASSUME conn[c].prompt.task = t, tailComplete(s)
      PROVE  \E i \in conn'[c].prompt.cursor + 1 .. Len(log'[t]) : tailComplete(log'[t][i])
  <2>1. Len(log[t]) + 1 \in conn'[c].prompt.cursor + 1 .. Len(log'[t])
    BY <1>1, <1>2, <1>3, <1>4, <1>5
  <2> QED BY <1>4, <1>5, <2>1
<1>6. ASSUME NEW q \in Tasks, NEW i \in conn[c].prompt.cursor + 1 .. Len(log[q]),
             tailComplete(log[q][i])
      PROVE  \E j \in conn'[c].prompt.cursor + 1 .. Len(log'[q]) : tailComplete(log'[q][j])
  <2>1. i \in conn'[c].prompt.cursor + 1 .. Len(log'[q]) /\ i \in 1 .. Len(log[q])
    BY <1>1, <1>3
  <2> QED BY <1>3, <1>6, <2>1
<1> QED BY <1>1, <1>2, <1>5, <1>6

(* Every step keeps the promise made to the tails.                         *)
LEMMA TailStep ==
    TypeOK /\ TypeOK' /\ TaskInv /\ ReviewInv /\ ConnInv /\ ConnInv' /\ TailWillEnd /\ [Next]_vars
        => TailWillEnd'
<1> SUFFICES ASSUME TypeOK, TypeOK', TaskInv, ReviewInv, ConnInv, ConnInv', TailWillEnd, [Next]_vars,
                    NEW c \in Conns, conn'[c].prompt.kind = "tailing"
             PROVE  Ends(c)'
  BY DEF TailWillEnd, Ends
<1>0. Ends(c)
  BY DEF TailWillEnd, Ends
<1>1. /\ conn'[c].prompt.task \in Tasks /\ daemon' = "up"
      /\ conn[c].prompt.kind = "tailing" => conn[c].prompt.task \in Tasks /\ daemon = "up"
  BY DEF ConnInv
<1>2. PICK p \in Tasks : p = conn'[c].prompt.task
  BY <1>1
<1>3. ASSUME conn'[c] = conn[c], log' = log, mem'[p] = mem[p], run'[p].note = run[p].note,
             p \in unlogged => p \in unlogged'
      PROVE  Ends(c)'
  BY <1>0, <1>2, <1>3 DEF Ends
<1>4. ASSUME conn[c].prompt.kind = "tailing", conn[c].prompt.task = p, mem'[p] = mem[p],
             run'[p].note = run[p].note, p \in unlogged => p \in unlogged',
             \/ UNCHANGED <<log, conn>>
             \/ \E t \in Tasks, s \in Status : Logged(t, s)
      PROVE  Ends(c)'
  <2>1. CASE UNCHANGED <<log, conn>>
    BY <1>3, <1>4, <2>1
  <2>2. CASE \E t \in Tasks, s \in Status : Logged(t, s)
    BY <1>0, <1>2, <1>4, <2>2, LoggedEnds DEF Ends
  <2> QED BY <1>4, <2>1, <2>2
<1>5. ASSUME NEW t \in Tasks, RunStep(t) PROVE Ends(c)'
  <2>0. FileInv /\ RegistryOf(t)
    BY DEF TaskInv, RegistryInv
  <2>1. Concerns(t) /\ daemon' = daemon /\ (Writes(t) \/ Proceeds(t) \/ Announces(t))
    BY <1>5, <2>0, RunConcerns, RunWrites
  <2>2. CASE Proceeds(t)
    <3>1. conn'[c] = conn[c] /\ log' = log /\ mem' = mem /\ unlogged' = unlogged
      BY <2>2 DEF Proceeds
    <3>2. run'[p].note = run[p].note
      BY <2>1, <2>2 DEF Proceeds, Concerns
    <3> QED BY <1>3, <3>1, <3>2
  <2>3. CASE Announces(t)
    <3>1. storeOpen
      BY <1>1, <2>1 DEF storeOpen
    <3>2. Tells(t, run[t].note[1]) /\ mem' = mem /\ run[t].note[1] \in Status
      BY <2>3, <3>1 DEF Announces, TypeOK, RunsTyped, RunStates
    <3>3. /\ conn[c].prompt.kind = "tailing" /\ conn[c].prompt.task = p
          /\ p # t /\ p \in unlogged => p \in unlogged'
      BY <1>2, <3>2, LoggedEnds DEF Tells
    <3>4. CASE p # t
      <4>1. run'[p].note = run[p].note
        BY <2>1, <3>4 DEF Concerns
      <4> QED BY <1>4, <3>2, <3>3, <3>4, <4>1 DEF Tells
    <3>5. CASE p = t /\ Logged(t, run[t].note[1])
      <4>1. mem[p] # NoTask /\ tailComplete(mem[p].status) => tailComplete(run[t].note[1])
        BY <2>0, <2>3, <3>5 DEF RegistryOf, Announces
      <4> QED BY <1>2, <3>2, <3>3, <3>5, <4>1, LoggedEnds DEF Ends
    <3>6. CASE p = t /\ p \in unlogged'
      BY <1>2, <3>6 DEF Ends
    <3> QED BY <3>2, <3>4, <3>5, <3>6 DEF Tells
  <2>4. CASE Writes(t)
    <3>1. UNCHANGED <<log, unlogged, conn>> /\ run[t].note = <<>>
      BY <2>4 DEF Writes
    <3>2. CASE p # t
      BY <1>3, <2>1, <3>1, <3>2 DEF Concerns
    <3>3. CASE p = t
      <4>1. PICK s \in Snapshot, next \in RunPCs : Saves(t, s, next)
        BY <2>4 DEF Writes
      <4>2. mem'[p] = s /\ run'[p].note = IF Changed(t, s) THEN <<s.status>> ELSE <<>>
        BY <3>3, <4>1 DEF Saves, Stored, RunGoes
      <4>3. CASE Changed(t, s)
        <5>1. run'[p].note = <<s.status>>
          BY <4>2, <4>3
        <5>2. run'[p].note # <<>> /\ run'[p].note[1] = s.status
          BY <5>1
        <5> QED BY <1>2, <4>2, <5>2 DEF Ends
      <4>4. CASE ~Changed(t, s)
        <5>1. run'[p].note = run[p].note /\ mem[p] # NoTask /\ mem[p].status = s.status
          BY <3>1, <3>3, <4>2, <4>4 DEF Changed
        <5> QED BY <1>0, <1>2, <3>1, <4>2, <5>1 DEF Ends
      <4> QED BY <4>3, <4>4
    <3> QED BY <3>2, <3>3
  <2> QED BY <2>1, <2>2, <2>3, <2>4
<1>6. ASSUME UNCHANGED <<mem, run, log, unlogged, conn>> PROVE Ends(c)'
  BY <1>3, <1>6
<1>7. ASSUME NEW u \in Reviewers, NEW to \in Status, Move(u, to) PROVE Ends(c)'
  <2>1. run' = run
    BY <1>7, AsideFrame
  <2>2. rev[u].task \in Tasks /\ FileInv
    BY <1>7, MoveEdits DEF TaskInv
  <2>3. PICK s \in Snapshot : s.status = to /\ (Moves(u, to, s) \/ Balks(u, s))
    BY <1>7, <2>2, MoveEdits
  <2>4. CASE Balks(u, s)
    BY <1>6, <2>1, <2>4 DEF Balks
  <2>5. CASE Moves(u, to, s)
    <3>1. PICK t \in Tasks : t = rev[u].task
      BY <2>2
    <3>2. /\ mem'[t] = s /\ \A q \in Tasks : q # t => mem'[q] = mem[q]
          /\ \/ Changed(t, s) /\ Tells(t, to)
             \/ ~Changed(t, s) /\ UNCHANGED <<log, unlogged, conn>>
      BY <2>5, <3>1 DEF Moves, Stored
    <3>3. /\ conn[c].prompt.kind = "tailing" /\ conn[c].prompt.task = p
          /\ p # t /\ p \in unlogged => p \in unlogged'
      BY <1>2, <3>2, LoggedEnds DEF Tells
    <3>4. CASE p # t
      BY <1>4, <2>1, <3>2, <3>3, <3>4 DEF Tells
    <3>5. CASE p = t /\ Logged(t, to)
      BY <1>2, <2>3, <3>2, <3>3, <3>5, LoggedEnds DEF Ends
    <3>6. CASE p = t /\ p \in unlogged'
      BY <1>2, <3>6 DEF Ends
    <3>7. CASE p = t /\ ~Changed(t, s) /\ UNCHANGED <<log, unlogged, conn>>
      BY <1>0, <1>2, <2>1, <3>2, <3>3, <3>7 DEF Ends, Changed
    <3> QED BY <3>2, <3>4, <3>5, <3>6, <3>7 DEF Tells
  <2> QED BY <2>3, <2>4, <2>5
<1>8. CASE Stops \/ Start
  <2>1. CASE daemon # "up"
    <3>1. conn' = conn
      BY <1>8, <2>1 DEF Stops, StopBegin, StopWaited, StopClose, Start
    <3> QED BY <1>1, <2>1, <3>1
  <2>2. CASE daemon = "up"
    BY <1>1, <1>8, <2>2 DEF Stops, StopBegin, StopWaited, StopClose, Start
  <2> QED BY <2>1, <2>2
<1>9. CASE Aside
  <2>1. UNCHANGED <<mem, run, log, unlogged>>
    BY <1>9, AsideFrame, AsidePrompts
  <2>2. \/ conn'[c] = conn[c]
        \/ /\ conn'[c].prompt.task = conn[c].prompt.task
           /\ ~tailComplete(mem[conn[c].prompt.task].status)
        \/ /\ conn[c].prompt.kind = "tailing" /\ conn'[c].prompt.task = conn[c].prompt.task
           /\ ~\E i \in conn[c].prompt.cursor + 1 .. Len(log[conn[c].prompt.task]) :
                 tailComplete(log[conn[c].prompt.task][i])
    BY <1>9, AsidePrompts DEF PromptGoes
  <2> QED BY <1>0, <1>2, <1>3, <2>1, <2>2 DEF Ends
<1>10. CASE Die
  BY <1>10, AcceptedIsTyped DEF Die
<1> QED BY <1>5, <1>6, <1>7, <1>8, <1>9, <1>10, NextCases, AsideFrame

-----------------------------------------------------------------------------
(* The decisions *)

(* What DecisionsAreFinal says of one task.                                *)
-----------------------------------------------------------------------------
(* The decisions *)

(* What DecisionsAreFinal says of one task.                                *)
Final(t) ==
    /\ Decided(mem[t]) /\ mem'[t] # NoTask => Same(mem[t], mem'[t])
    /\ t \notin lost' =>
         /\ Decided(mem[t]) => Same(mem[t], disk'[t])
         /\ Decided(disk[t]) => Same(disk[t], disk'[t])

(* A task that is not decided, in memory or, unless it is a lost one, in   *)
(* the file, has nothing to keep.                                          *)
LEMMA UndecidedIsFinal ==
    ASSUME NEW t \in Tasks, StoreOf(t), daemon # "down", ~Has(mem[t], {"done", "rejected"}),
           t \notin lost' => t \notin lost
    PROVE  Final(t)
<1>1. t \notin lost' => ~Has(disk[t], {"done", "rejected"})
  BY DEF StoreOf, AgreedOf, Has, ReviewedStates
<1> QED BY <1>1 DEF Final, Decided, Has

(* What an unfinished line takes with it is no decision, unless it is lost.*)
LEMMA FileIsFinal ==
    ASSUME NEW t \in Tasks, StoreOf(t), Kept(t) \/ Dropped(t), mem'[t] = mem[t] \/ mem'[t] = NoTask
    PROVE  Final(t)
<1>1. t \notin lost' => t \notin lost /\ (Decided(disk[t]) => disk'[t] = disk[t])
  BY DEF Kept, Dropped, Decided, ByReview
<1>2. t \notin lost /\ Decided(mem[t]) => mem[t] = disk[t]
  BY DEF StoreOf, AgreedOf, Decided, Has
<1> QED BY <1>1, <1>2 DEF Final, Same, Decided

(* No step of a run or of another review overwrites a decision: a decided  *)
(* task has no run left that saves, and no review moves it.                *)
LEMMA FinalStep ==
    TypeOK /\ TaskInv /\ ReviewInv /\ [Next]_vars => \A t \in Tasks : Final(t)
<1> SUFFICES ASSUME TypeOK, TaskInv, ReviewInv, [Next]_vars, NEW t \in Tasks PROVE Final(t)
  OBVIOUS
<1>0. FileInv /\ RegistryOf(t) /\ StoreOf(t)
  BY DEF TaskInv, RegistryInv, StoreInv
<1>1. ASSUME mem'[t] = mem[t], disk'[t] = disk[t], under'[t] = under[t], lost' = lost PROVE Final(t)
  BY <1>0, <1>1, FileIsFinal DEF Kept
<1>2. ASSUME NEW q \in Tasks, RunStep(q) PROVE Final(t)
  <2>1. Concerns(q) /\ daemon # "down" /\ (Writes(q) \/ Proceeds(q) \/ Announces(q))
    BY <1>2, RunConcerns, RunWrites DEF TaskInv, RegistryInv
  <2>2. CASE q # t
    BY <1>0, <2>1, <2>2, FileIsFinal DEF Concerns
  <2>3. ASSUME q = t, run[t].pc \in Saving, t \notin lost' => t \notin lost PROVE Final(t)
    <3>1. ~Has(mem[t], {"done", "rejected"})
      BY <1>0, <2>3 DEF Saving, RegistryOf, Has, ReviewedStates
    <3> QED BY <1>0, <2>1, <2>3, <3>1, UndecidedIsFinal
  <2>4. CASE q = t /\ Proceeds(q)
    BY <1>1, <2>3, <2>4 DEF Proceeds
  <2>5. CASE Announces(q)
    BY <1>1, <2>5 DEF Announces
  <2>6. CASE q = t /\ Writes(q)
    <3>1. t \notin lost' => t \notin lost
      BY <2>6 DEF Writes, Saves, Stored, Filed, Glued
    <3> QED BY <2>3, <2>6, <3>1 DEF Writes
  <2> QED BY <2>1, <2>2, <2>4, <2>5, <2>6
<1>3. ASSUME NEW u \in Reviewers, NEW to \in Status, Move(u, to) PROVE Final(t)
  <2>1. PICK s \in Snapshot : Moves(u, to, s) \/ Balks(u, s)
    BY <1>0, <1>3, MoveEdits
  <2>2. rev[u].task \in Tasks /\ daemon # "down" /\ ~Has(mem[rev[u].task], {"done", "rejected"})
    BY <1>0, <1>3, MoveEdits, MovedFrom
  <2>3. CASE t # rev[u].task
    <3>1. mem'[t] = mem[t] /\ (Kept(t) \/ Dropped(t))
      BY <2>1, <2>2, <2>3 DEF Moves, Balks, Stored, Cut
    <3> QED BY <1>0, <3>1, FileIsFinal
  <2>4. CASE t = rev[u].task
    <3>1. t \notin lost' => t \notin lost
      BY <2>1, <2>4 DEF Moves, Balks, Stored, Cut, Kept, Dropped, Filed, Glued, Whole
    <3> QED BY <1>0, <2>2, <2>4, <3>1, UndecidedIsFinal
  <2> QED BY <2>3, <2>4
<1>4. CASE Start
  <2>1. daemon = "down" /\ UNCHANGED <<disk, lost>>
    BY <1>4 DEF Start, ReplayStore, fileVars
  <2>2. mem[t] = NoTask
    BY <1>0, <2>1 DEF StoreOf
  <2> QED BY <2>1, <2>2 DEF Final, Decided, Same
<1>5. CASE Die
  <2>1. mem'[t] = NoTask /\ daemon # "down"
    BY <1>5 DEF Die
  <2>2. \/ Kept(t) \/ Dropped(t)
        \/ \E s \in Snapshot : Appending(t, s) /\ Whole(t, s, FALSE)
    BY <1>0, <1>5, DieEdits DEF Cut
  <2>3. CASE Kept(t) \/ Dropped(t)
    BY <1>0, <2>1, <2>3, FileIsFinal
  <2>4. ASSUME NEW s \in Snapshot, Appending(t, s), Whole(t, s, FALSE) PROVE Final(t)
    <3>1. run[t].pc \in Saving \/ ~Has(mem[t], {"done", "rejected"})
      BY <2>4, AppendingIs
    <3>2. ~Has(mem[t], {"done", "rejected"})
      BY <1>0, <3>1 DEF Saving, RegistryOf, Has, ReviewedStates
    <3> QED BY <1>0, <2>1, <2>4, <3>2, UndecidedIsFinal DEF Whole
  <2> QED BY <2>2, <2>3, <2>4
<1> QED BY <1>1, <1>2, <1>3, <1>4, <1>5, NextCases, AsideFrame

-----------------------------------------------------------------------------
(* The invariant and the theorems *)

Inv == TypeOK /\ TaskInv /\ ReviewInv /\ ConnInv /\ TailWillEnd

(* No task, no run, no review and no prompt: the invariant holds.          *)
LEMMA InitInv == Init => Inv
<1> SUFFICES ASSUME Init PROVE Inv
  OBVIOUS
<1>1. /\ \A t \in Tasks : mem[t] = NoTask /\ disk[t] = NoTask /\ under[t] = NoTask /\ run[t] = NoRun
      /\ \A u \in Reviewers : rev[u].todo = <<>>
      /\ \A c \in Conns : conn[c].prompt.kind = "none"
      /\ daemon = "up" /\ tail = "clean" /\ running = {} /\ code = {} /\ worktree = {}
  BY AcceptedIsTyped DEF Init, Idle
<1>2. TypeOK
  <2>1. /\ NoRun \in RunStates
        /\ Idle \in [task : Tasks \cup {NoTask}, snap : Snapshot, todo : Plans]
    BY DEF NoRun, Idle, Queued, Snapshot, Status, RunStates, RunPCs, Plans
  <2>2. StoreTyped
    BY DEF Init, StoreTyped
  <2>3. RunsTyped
    BY <2>1 DEF Init, RunsTyped
  <2>4. ReviewsTyped
    BY <2>1 DEF Init, ReviewsTyped
  <2>5. conn \in [Conns -> ConnStates] /\ asked \in [Tasks -> SUBSET Conns]
    BY AcceptedIsTyped DEF Init
  <2> QED BY <1>1, <2>2, <2>3, <2>4, <2>5, DispatchAssumption DEF Init, TypeOK
<1>3. TaskInv
  <2>1. NoRun.pc = "none" /\ NoRun.note = <<>>
    BY DEF NoRun
  <2>2. RegistryInv
    BY <1>1, <2>1 DEF RegistryInv, RegistryOf, Has
  <2>3. StoreInv
    BY <1>1, <2>1 DEF StoreInv, StoreOf, AgreedOf, Has
  <2>4. WorkInv /\ FileInv
    BY <1>1 DEF WorkInv, FileInv
  <2> QED BY <2>2, <2>3, <2>4 DEF TaskInv
<1>4. ReviewInv
  BY <1>1 DEF ReviewInv
<1>5. ConnInv /\ TailWillEnd
  BY <1>1 DEF ConnInv, TailWillEnd
<1> QED BY <1>2, <1>3, <1>4, <1>5 DEF Inv

(* Every step keeps the invariant.                                         *)
LEMMA InvStep == Inv /\ [Next]_vars => Inv'
<1> SUFFICES ASSUME Inv, [Next]_vars PROVE Inv'
  OBVIOUS
<1>1. TypeOK'
  BY TypeStep DEF Inv
<1>2. TaskInv' /\ ReviewInv' /\ ConnInv'
  BY <1>1, TaskStep, ReviewStep, ConnStep DEF Inv
<1>3. TailWillEnd'
  BY <1>1, <1>2, TailStep DEF Inv
<1> QED BY <1>1, <1>2, <1>3 DEF Inv

(* What the inductive invariant says of the work.                          *)
LEMMA InvKeepsWork == Inv => WorkIsKept
<1> SUFFICES ASSUME Inv, NEW t \in code
             PROVE  /\ run[t].pc \in {"prompt", "collect", "saveReview"} => t \in worktree \cap branch
                    /\ mem[t] # NoTask /\ t \notin lost =>
                         /\ mem[t].status = "awaiting_review" => t \in worktree \cap branch
                         /\ mem[t].status = "failed" /\ mem[t].session => t \in branch
  BY DEF WorkIsKept
<1>1. WorkOf(t) /\ worktree \subseteq branch
  BY DEF Inv, TaskInv, WorkInv
<1>2. run[t].pc \in {"prompt", "collect", "saveReview"} => t \in worktree \cap branch
  BY <1>1 DEF WorkOf, Working
<1>3. ASSUME mem[t] # NoTask, t \notin lost
      PROVE  /\ mem[t].status = "awaiting_review" => t \in worktree \cap branch
             /\ mem[t].status = "failed" /\ mem[t].session => t \in branch
  BY <1>1, <1>3 DEF WorkOf, KeptOf, NeedsBranch, Has
<1> QED BY <1>2, <1>3

(* The inductive invariant holds in every reachable state.                 *)
THEOREM Invariance == Spec => []Inv
BY InitInv, InvStep, PTL DEF Spec

(* Type correctness, for every number of tasks, connections, reviewers,    *)
(* starts and appends that do not complete.                                *)
THEOREM TypeCorrect == Spec => []TypeOK
<1>1. Inv => TypeOK
  BY DEF Inv
<1> QED BY <1>1, Invariance, PTL

(* The worktree and the branch of a code task are there while its worker   *)
(* is at work and until a review is decided, and the branch of a run that  *)
(* failed after a worker had a session stays, whatever runs, reviews,      *)
(* stops, crashes and failing git commands do in between, and whatever     *)
(* unfinished lines leave of tasks.jsonl, but for the tasks of which a     *)
(* review's record was lost there or a failed append's record is in it     *)
(* (prepare, cleanupCodeWorkspace, finishCodeTask, doReject, doCancel).    *)
THEOREM WorkStays == Spec => []WorkIsKept
BY Invariance, InvKeepsWork, PTL

(* No tail of a complete task waits for an event that will not come        *)
(* (Subscribe before the status is read, save before the event), but for   *)
(* the tasks whose last event could not be written.                        *)
THEOREM TailsEnd == Spec => []TailWillEnd
<1>1. Inv => TailWillEnd
  BY DEF Inv
<1> QED BY <1>1, Invariance, PTL

(* An approved, completed or rejected task stays so in memory, and in what *)
(* a restart replays with the exemption of WorkStays (transitionMu and the *)
(* re-reads under it, appendLocked and replay).                            *)
THEOREM DecisionsStand == Spec => DecisionsAreFinal
<1>1. Inv /\ [Next]_vars => [\A t \in Tasks : Final(t)]_vars
  BY FinalStep DEF Inv
<1>2. (\A t \in Tasks : Final(t)) =>
        \A t \in Tasks :
         /\ Decided(mem[t]) /\ mem'[t] # NoTask => Same(mem[t], mem'[t])
         /\ t \notin lost' =>
              /\ Decided(mem[t]) => Same(mem[t], disk'[t])
              /\ Decided(disk[t]) => Same(disk[t], disk'[t])
  BY DEF Final
<1>3. Inv /\ [Next]_vars =>
        [\A t \in Tasks :
         /\ Decided(mem[t]) /\ mem'[t] # NoTask => Same(mem[t], mem'[t])
         /\ t \notin lost' =>
              /\ Decided(mem[t]) => Same(mem[t], disk'[t])
              /\ Decided(disk[t]) => Same(disk[t], disk'[t])]_vars
  BY <1>1, <1>2
<1> QED BY <1>3, Invariance, PTL DEF Spec, DecisionsAreFinal

=============================================================================
