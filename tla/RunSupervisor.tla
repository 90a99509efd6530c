--------------------------- MODULE RunSupervisor ---------------------------
(***************************************************************************)
(* Background runs of ai-runtime: SessionManager.StartRun and execute      *)
(* (agent/supervisor.go), the per-session admission and gate of            *)
(* SessionRuntime (agent/runtime.go), the run record (agent/run.go), and   *)
(* CancelRun, Register, Remove and Close (agent/manager.go), with the      *)
(* release of a session by its host (plugins/agent/lifecycle.go) and the   *)
(* maintenance commands that share the gate (plugins/agent/commands.go).   *)
(*                                                                         *)
(* pc[r] is where StartRun or execute of run r stands.  Each step between  *)
(* two pcs touches one lock, channel or file, so the interleavings of the  *)
(* model are those of the goroutines.                                      *)
(***************************************************************************)
EXTENDS Naturals, FiniteSets

CONSTANTS
    Sessions,    \* the SessionRuntime objects
    Runs,        \* run ids; each is submitted at most once
    NoRun,       \* "no run" in rt.active and on Close's watch
    Sync,        \* holder of a gate that is a maintenance command
    MaxRunning,  \* capacity of runSlots
    MaxPending,  \* capacity of the pending queue
    MaxFaults    \* bound: failing journal writes and hub constructions

ASSUME SupervisorAssumption ==
    /\ NoRun \notin Runs /\ Sync \notin Runs /\ NoRun # Sync
    /\ IsFiniteSet(Runs)
    /\ MaxRunning \in Nat \ {0}
    /\ MaxPending \in Nat \ {0}
    /\ MaxFaults \in Nat

TerminalStates == {"completed", "failed", "cancelled"}

WaitStates == {"waiting_input", "waiting_capability"}

RunStates == {"queued", "running"} \cup WaitStates \cup TerminalStates

VARIABLES
    \* SessionManager
    closed, hostCtxDone, runtimes, pending, runSlots,
    \* progress of Close: where it is, its copy of the table, which runtimes
    \* of it are still to be looked at, and the run it waits for
    closePc, snapshot, toCheck, awaited,
    \* SessionRuntime
    active, gate, archived, retired, hub,
    \* AgentRun, and where its StartRun/execute stands
    pc, sess, state, done, cancelled, result,
    \* last state record of the run's journal file ("none": no file)
    journal,
    \* history: the runs holding a session when Close took its snapshot
    atClose,
    faults

mgrVars   == <<closed, hostCtxDone, runtimes>>
closeVars == <<closePc, snapshot, toCheck, awaited, atClose>>
rtVars    == <<active, gate, archived, retired, hub>>
runVars   == <<sess, state, done, cancelled, result>>
vars == <<mgrVars, pending, runSlots, closeVars, rtVars, pc, runVars, journal, faults>>

(* Mutant of CtxDone: runCtx is not derived from the manager's context.    *)
CtxDetached(r) == cancelled[r]

(* runCtx is derived from the manager's context.                           *)
CtxDone(r) == hostCtxDone \/ cancelled[r]

Goto(r, label) == pc' = [pc EXCEPT ![r] = label]

(* A durable append that may fail; the caller says what a failure means.   *)
Fault == faults < MaxFaults /\ faults' = faults + 1

(* journalRunState: a failed record is only logged.                        *)
JournalState(r, st) ==
    \/ journal' = [journal EXCEPT ![r] = st] /\ UNCHANGED faults
    \/ Fault /\ UNCHANGED journal

-----------------------------------------------------------------------------
(* StartRun.                                                               *)

(* 1: the table lookup under m.mu.                                         *)
Lookup(r) ==
    /\ pc[r] = "idle"
    /\ Goto(r, IF closed \/ sess[r] \notin runtimes THEN "rejected" ELSE "found")
    /\ UNCHANGED <<mgrVars, pending, runSlots, closeVars, rtVars, runVars, journal, faults>>

HasQueuePlace == pending < MaxPending

(* 3: a non-blocking reservation of a queue place.                         *)
ReservePending(r) ==
    /\ pc[r] = "found"
    /\ IF HasQueuePlace
       THEN pending' = pending + 1 /\ Goto(r, "counted")
       ELSE UNCHANGED pending /\ Goto(r, "rejected")
    /\ UNCHANGED <<mgrVars, runSlots, closeVars, rtVars, runVars, journal, faults>>

(* Mutant of Admits: a retired instance is not recognised.                 *)
AdmitsRetired(s) == ~archived[s] /\ active[s] = NoRun

(* What reserveRun asks of the session.                                    *)
Admits(s) == ~archived[s] /\ ~retired[s] /\ active[s] = NoRun

(* 2: rt.reserveRun, the linearization point against Retire and Archive.   *)
ReserveRun(r) ==
    /\ pc[r] = "counted"
    /\ IF Admits(sess[r])
       THEN active' = [active EXCEPT ![sess[r]] = r] /\ Goto(r, "reserved")
       ELSE UNCHANGED active /\ Goto(r, "giveBack")
    /\ UNCHANGED <<mgrVars, pending, runSlots, closeVars, gate, archived, retired, hub,
                   runVars, journal, faults>>

(* Mutant of DropReservation: the reservation stays.                       *)
KeepReservation(r) == UNCHANGED active /\ Goto(r, "giveBack")

(* releaseRunReservation of a run that is turned down after all.           *)
DropReservation(r) ==
    /\ active' = [active EXCEPT ![sess[r]] = IF @ = r THEN NoRun ELSE @]
    /\ Goto(r, "giveBack")

(* 6: bindEvents; a SeqRange error rejects the run.                        *)
BindEvents(r) ==
    /\ pc[r] = "reserved"
    /\ \/ /\ hub' = [hub EXCEPT ![sess[r]] = IF @ = "none" THEN "open" ELSE @]
          /\ Goto(r, "bound")
          /\ UNCHANGED <<active, faults>>
       \/ /\ hub[sess[r]] = "none"
          /\ Fault
          /\ DropReservation(r)
          /\ UNCHANGED hub
    /\ UNCHANGED <<mgrVars, pending, runSlots, closeVars, gate, archived, retired,
                   runVars, journal>>

(* 5: the queued record is the acceptance of the run.                      *)
AppendQueued(r) ==
    /\ pc[r] = "bound"
    /\ \/ /\ journal' = [journal EXCEPT ![r] = "queued"]
          /\ Goto(r, "accepted")
          /\ UNCHANGED <<active, faults>>
       \/ /\ Fault
          /\ DropReservation(r)
          /\ UNCHANGED journal
    /\ UNCHANGED <<mgrVars, pending, runSlots, closeVars, gate, archived, retired, hub,
                   runVars>>

GiveBackPending(r) ==
    /\ pc[r] = "giveBack"
    /\ pending' = pending - 1
    /\ Goto(r, "rejected")
    /\ UNCHANGED <<mgrVars, runSlots, closeVars, rtVars, runVars, journal, faults>>

(* 7: the run gets its cancel function and its goroutine.                  *)
Launch(r) ==
    /\ pc[r] = "accepted"
    /\ Goto(r, "gate")
    /\ UNCHANGED <<mgrVars, pending, runSlots, closeVars, rtVars, runVars, journal, faults>>

-----------------------------------------------------------------------------
(* execute.                                                                *)

(* 1: AcquireRun, a select between the gate and the context.               *)
AcquireGate(r) ==
    /\ pc[r] = "gate"
    /\ gate[sess[r]] = NoRun
    /\ gate' = [gate EXCEPT ![sess[r]] = r]
    /\ Goto(r, "slot")
    /\ UNCHANGED <<mgrVars, pending, runSlots, closeVars, active, archived, retired, hub,
                   runVars, journal, faults>>

(* Mutant of GiveUpGate: the wait for the gate ignores the context.        *)
NeverGiveUpGate(r) == FALSE /\ UNCHANGED vars

GiveUpGate(r) ==
    /\ pc[r] = "gate"
    /\ CtxDone(r)
    /\ Goto(r, "leaveQueue")
    /\ UNCHANGED <<mgrVars, pending, runSlots, closeVars, rtVars, runVars, journal, faults>>

(* 2: a global slot, or the context; giving up releases the gate.          *)
AcquireSlot(r) ==
    /\ pc[r] = "slot"
    /\ runSlots < MaxRunning
    /\ runSlots' = runSlots + 1
    /\ Goto(r, "dequeue")
    /\ UNCHANGED <<mgrVars, pending, closeVars, rtVars, runVars, journal, faults>>

(* Mutant of GiveUpSlot: the gate is not released on the way out.          *)
GiveUpSlotKeepGate(r) ==
    /\ pc[r] = "slot"
    /\ CtxDone(r)
    /\ Goto(r, "leaveQueue")
    /\ UNCHANGED <<mgrVars, pending, runSlots, closeVars, rtVars, runVars, journal, faults>>

GiveUpSlot(r) ==
    /\ pc[r] = "slot"
    /\ CtxDone(r)
    /\ gate' = [gate EXCEPT ![sess[r]] = NoRun]
    /\ Goto(r, "leaveQueue")
    /\ UNCHANGED <<mgrVars, pending, runSlots, closeVars, active, archived, retired, hub,
                   runVars, journal, faults>>

(* Mutant of LeaveQueue: the early exits keep their queue place.           *)
LeaveQueueUncounted(r) ==
    /\ pc[r] = "leaveQueue"
    /\ result' = [result EXCEPT ![r] = "cancelled"]
    /\ Goto(r, "journalEarly")
    /\ UNCHANGED <<mgrVars, pending, runSlots, closeVars, rtVars, sess, state, done,
                   cancelled, journal, faults>>

(* The early exits give the queue place back and finalize as cancelled.    *)
LeaveQueue(r) ==
    /\ pc[r] = "leaveQueue"
    /\ pending' = pending - 1
    /\ result' = [result EXCEPT ![r] = "cancelled"]
    /\ Goto(r, "journalEarly")
    /\ UNCHANGED <<mgrVars, runSlots, closeVars, rtVars, sess, state, done, cancelled,
                   journal, faults>>

(* 3: out of the queue.                                                    *)
Dequeue(r) ==
    /\ pc[r] = "dequeue"
    /\ pending' = pending - 1
    /\ Goto(r, "start")
    /\ UNCHANGED <<mgrVars, runSlots, closeVars, rtVars, runVars, journal, faults>>

(* 4: running, in memory first and then on disk.                           *)
StartRunning(r) ==
    /\ pc[r] = "start"
    /\ state' = [state EXCEPT ![r] = "running"]
    /\ JournalState(r, "running")
    /\ Goto(r, "exec")
    /\ UNCHANGED <<mgrVars, pending, runSlots, closeVars, rtVars, sess, done, cancelled, result>>

(* The run is suspended inside Session.Run: decideFunc waits for the       *)
(* approval of a tool call, onWait for the connection of a client tool.    *)
(* The way back to running, on an answer or on the timeout, is barred by a *)
(* done context.                                                           *)
BeginWait(r) ==
    /\ pc[r] = "exec"
    /\ state[r] = "running"
    /\ \E w \in WaitStates : /\ state' = [state EXCEPT ![r] = w]
                            /\ JournalState(r, w)
    /\ UNCHANGED <<mgrVars, pending, runSlots, closeVars, rtVars, pc, sess, done, cancelled,
                   result>>

EndWait(r) ==
    /\ pc[r] = "exec"
    /\ state[r] \in WaitStates
    /\ ~CtxDone(r)
    /\ state' = [state EXCEPT ![r] = "running"]
    /\ UNCHANGED <<mgrVars, pending, runSlots, closeVars, rtVars, pc, sess, done, cancelled,
                   result, journal, faults>>

(* 5: Session.Run returns, which it does between two tool calls unless it  *)
(* is cancelled; a done context overrides its outcome.                     *)
ReturnFromRun(r) ==
    /\ pc[r] = "exec"
    /\ state[r] = "running" \/ CtxDone(r)
    /\ \E res \in IF CtxDone(r) THEN {"cancelled"} ELSE {"completed", "failed"} :
          result' = [result EXCEPT ![r] = res]
    /\ Goto(r, "journal")
    /\ UNCHANGED <<mgrVars, pending, runSlots, closeVars, rtVars, sess, state, done, cancelled,
                   journal, faults>>

(* finalizeRun: terminal record, then active, then done.  The early exits  *)
(* take the same path and have neither slot nor gate to give back.         *)
JournalTerminal(r) ==
    /\ pc[r] \in {"journal", "journalEarly"}
    /\ JournalState(r, result[r])
    /\ Goto(r, IF pc[r] = "journal" THEN "clear" ELSE "clearEarly")
    /\ UNCHANGED <<mgrVars, pending, runSlots, closeVars, rtVars, runVars>>

(* Mutant of ClearActive: the slot of the session is not cleared.          *)
ClearNothing(r) ==
    /\ pc[r] \in {"clear", "clearEarly"}
    /\ Goto(r, IF pc[r] = "clear" THEN "finish" ELSE "finishEarly")
    /\ UNCHANGED <<mgrVars, pending, runSlots, closeVars, rtVars, runVars, journal, faults>>

ClearActive(r) ==
    /\ pc[r] \in {"clear", "clearEarly"}
    /\ active' = [active EXCEPT ![sess[r]] = IF @ = r THEN NoRun ELSE @]
    /\ Goto(r, IF pc[r] = "clear" THEN "finish" ELSE "finishEarly")
    /\ UNCHANGED <<mgrVars, pending, runSlots, closeVars, gate, archived, retired, hub,
                   runVars, journal, faults>>

Finish(r) ==
    /\ pc[r] \in {"finish", "finishEarly"}
    /\ state' = [state EXCEPT ![r] = result[r]]
    /\ done' = [done EXCEPT ![r] = TRUE]
    /\ Goto(r, IF pc[r] = "finish" THEN "freeSlot" ELSE "over")
    /\ UNCHANGED <<mgrVars, pending, runSlots, closeVars, rtVars, sess, cancelled, result,
                   journal, faults>>

(* The defers of execute, last registered first.                           *)
FreeSlot(r) ==
    /\ pc[r] = "freeSlot"
    /\ runSlots' = runSlots - 1
    /\ Goto(r, "freeGate")
    /\ UNCHANGED <<mgrVars, pending, closeVars, rtVars, runVars, journal, faults>>

FreeGate(r) ==
    /\ pc[r] = "freeGate"
    /\ gate' = [gate EXCEPT ![sess[r]] = NoRun]
    /\ Goto(r, "over")
    /\ UNCHANGED <<mgrVars, pending, runSlots, closeVars, active, archived, retired, hub,
                   runVars, journal, faults>>

-----------------------------------------------------------------------------
(* Operations on a run or a session from outside.                          *)

(* The cancel function exists once the run is launched.                    *)
Cancellable(r) ==
    /\ sess[r] \in runtimes
    /\ active[sess[r]] = r
    /\ pc[r] \notin {"reserved", "bound", "accepted"}

CancelRun(r) ==
    /\ Cancellable(r)
    /\ ~cancelled[r]
    /\ cancelled' = [cancelled EXCEPT ![r] = TRUE]
    /\ UNCHANGED <<mgrVars, pending, runSlots, closeVars, rtVars, pc, sess, state, done,
                   result, journal, faults>>

(* withSession: a maintenance command holds the gate, without a slot.      *)
SyncAcquire(s) ==
    /\ gate[s] = NoRun
    /\ gate' = [gate EXCEPT ![s] = Sync]
    /\ UNCHANGED <<mgrVars, pending, runSlots, closeVars, active, archived, retired, hub, pc,
                   runVars, journal, faults>>

SyncRelease(s) ==
    /\ gate[s] = Sync
    /\ gate' = [gate EXCEPT ![s] = NoRun]
    /\ UNCHANGED <<mgrVars, pending, runSlots, closeVars, active, archived, retired, hub, pc,
                   runVars, journal, faults>>

Register(s) ==
    /\ ~closed
    /\ ~retired[s]
    /\ s \notin runtimes
    /\ runtimes' = runtimes \cup {s}
    /\ UNCHANGED <<closed, hostCtxDone, pending, runSlots, closeVars, rtVars, pc, runVars,
                   journal, faults>>

(* Archive: refused while a run is active.  A commit that fails is taken   *)
(* back before admissionMu is free, hence is no step; that of a session    *)
(* already archived (MarkArchived) does not fail.                          *)
Archive(s) ==
    /\ active[s] = NoRun
    /\ ~archived[s]
    /\ archived' = [archived EXCEPT ![s] = TRUE]
    /\ UNCHANGED <<mgrVars, pending, runSlots, closeVars, active, gate, retired, hub, pc,
                   runVars, journal, faults>>

(* tryReleaseSession: Retire, then Remove, then CloseEvents.               *)
Retire(s) ==
    /\ active[s] = NoRun
    /\ s \in runtimes
    /\ ~retired[s]
    /\ retired' = [retired EXCEPT ![s] = TRUE]
    /\ UNCHANGED <<mgrVars, pending, runSlots, closeVars, active, gate, archived, hub, pc,
                   runVars, journal, faults>>

Remove(s) ==
    /\ retired[s]
    /\ s \in runtimes
    /\ runtimes' = runtimes \ {s}
    /\ UNCHANGED <<closed, hostCtxDone, pending, runSlots, closeVars, rtVars, pc, runVars,
                   journal, faults>>

CloseReleasedEvents(s) ==
    /\ retired[s]
    /\ s \notin runtimes
    /\ hub[s] = "open"
    /\ hub' = [hub EXCEPT ![s] = "closed"]
    /\ UNCHANGED <<mgrVars, pending, runSlots, closeVars, active, gate, archived, retired, pc,
                   runVars, journal, faults>>

-----------------------------------------------------------------------------
(* SessionManager.Close.                                                   *)

CloseBegin ==
    /\ ~closed
    /\ closed' = TRUE
    /\ closePc' = "cancel"
    /\ snapshot' = runtimes
    /\ toCheck' = runtimes
    /\ atClose' = {active[s] : s \in runtimes} \ {NoRun}
    /\ UNCHANGED <<hostCtxDone, runtimes, pending, runSlots, awaited, rtVars, pc, runVars,
                   journal, faults>>

CloseCancel ==
    /\ closePc = "cancel"
    /\ hostCtxDone' = TRUE
    /\ closePc' = "wait"
    /\ UNCHANGED <<closed, runtimes, pending, runSlots, snapshot, toCheck, awaited, atClose,
                   rtVars, pc, runVars, journal, faults>>

(* Mutant of CloseLook: a run that is still queued is not waited for.      *)
CloseLookRunning(s) ==
    /\ closePc = "wait"
    /\ awaited = NoRun
    /\ s \in toCheck
    /\ toCheck' = toCheck \ {s}
    /\ awaited' = IF \E r \in Runs : r = active[s] /\ state[r] # "queued" THEN active[s] ELSE NoRun
    /\ UNCHANGED <<mgrVars, pending, runSlots, closePc, snapshot, atClose, rtVars, pc, runVars,
                   journal, faults>>

(* For every runtime of the copy: read Active, and wait for its done.      *)
CloseLook(s) ==
    /\ closePc = "wait"
    /\ awaited = NoRun
    /\ s \in toCheck
    /\ toCheck' = toCheck \ {s}
    /\ awaited' = active[s]
    /\ UNCHANGED <<mgrVars, pending, runSlots, closePc, snapshot, atClose, rtVars, pc, runVars,
                   journal, faults>>

CloseWait ==
    /\ awaited # NoRun
    /\ done[awaited]
    /\ awaited' = NoRun
    /\ UNCHANGED <<mgrVars, pending, runSlots, closePc, snapshot, toCheck, atClose, rtVars, pc,
                   runVars, journal, faults>>

CloseHubs ==
    /\ closePc = "wait"
    /\ toCheck = {}
    /\ awaited = NoRun
    /\ closePc' = "clearing"
    /\ hub' = [s \in Sessions |-> IF s \in snapshot /\ hub[s] = "open" THEN "closed" ELSE hub[s]]
    /\ UNCHANGED <<mgrVars, pending, runSlots, snapshot, toCheck, awaited, atClose, active, gate,
                   archived, retired, pc, runVars, journal, faults>>

CloseReturn ==
    /\ closePc = "clearing"
    /\ closePc' = "returned"
    /\ runtimes' = {}
    /\ UNCHANGED <<closed, hostCtxDone, pending, runSlots, snapshot, toCheck, awaited, atClose,
                   rtVars, pc, runVars, journal, faults>>

-----------------------------------------------------------------------------
Init ==
    /\ closed = FALSE /\ hostCtxDone = FALSE /\ runtimes = {}
    /\ pending = 0 /\ runSlots = 0
    /\ closePc = "none" /\ snapshot = {} /\ toCheck = {} /\ awaited = NoRun /\ atClose = {}
    /\ active = [s \in Sessions |-> NoRun]
    /\ gate = [s \in Sessions |-> NoRun]
    /\ archived = [s \in Sessions |-> FALSE]
    /\ retired = [s \in Sessions |-> FALSE]
    /\ hub = [s \in Sessions |-> "none"]
    /\ pc = [r \in Runs |-> "idle"]
    /\ sess \in [Runs -> Sessions]
    /\ state = [r \in Runs |-> "queued"]
    /\ done = [r \in Runs |-> FALSE]
    /\ cancelled = [r \in Runs |-> FALSE]
    /\ result = [r \in Runs |-> "queued"]
    /\ journal = [r \in Runs |-> "none"]
    /\ faults = 0

(* The steps run r takes by itself.                                        *)
Advance(r) ==
    \/ ReservePending(r) \/ ReserveRun(r) \/ BindEvents(r) \/ AppendQueued(r)
    \/ GiveBackPending(r) \/ Launch(r) \/ GiveUpGate(r) \/ GiveUpSlot(r) \/ LeaveQueue(r)
    \/ Dequeue(r) \/ StartRunning(r) \/ EndWait(r) \/ JournalTerminal(r)
    \/ ClearActive(r) \/ Finish(r) \/ FreeSlot(r) \/ FreeGate(r)

CloseStep ==
    \/ CloseCancel \/ CloseWait \/ CloseHubs \/ CloseReturn
    \/ \E s \in Sessions : CloseLook(s)

SessionStep(s) ==
    \/ SyncAcquire(s) \/ SyncRelease(s) \/ Register(s) \/ Archive(s) \/ Retire(s)
    \/ Remove(s) \/ CloseReleasedEvents(s)

Next ==
    \/ \E r \in Runs : Lookup(r) \/ Advance(r) \/ AcquireGate(r) \/ AcquireSlot(r)
                          \/ BeginWait(r) \/ ReturnFromRun(r) \/ CancelRun(r)
    \/ \E s \in Sessions : SessionStep(s)
    \/ CloseBegin \/ CloseStep

Spec == Init /\ [][Next]_vars

-----------------------------------------------------------------------------
(* Who holds what, by the place of a run's goroutine.                      *)

HoldsPending == {"counted", "reserved", "bound", "accepted", "giveBack", "gate", "slot",
                 "leaveQueue", "dequeue"}

HoldsSlot == {"dequeue", "start", "exec", "journal", "clear", "finish", "freeSlot"}

HoldsGate == HoldsSlot \cup {"slot", "freeGate"}

HoldsSession == {"reserved", "bound", "accepted", "gate", "slot", "leaveQueue", "dequeue",
                 "start", "exec", "journal", "journalEarly", "clear", "clearEarly"}

Launched == (HoldsSession \ {"reserved", "bound", "accepted"})
                \cup {"finish", "finishEarly", "freeSlot", "freeGate", "over"}

Labels == HoldsPending \cup HoldsGate \cup HoldsSession \cup Launched
              \cup {"idle", "found", "rejected"}

(* The type of every variable of the manager, the runtimes and the runs.   *)
TypeOK ==
    /\ closed \in BOOLEAN /\ hostCtxDone \in BOOLEAN /\ runtimes \in SUBSET Sessions
    /\ pending \in 0..MaxPending
    /\ runSlots \in 0..MaxRunning
    /\ closePc \in {"none", "cancel", "wait", "clearing", "returned"}
    /\ snapshot \in SUBSET Sessions /\ toCheck \in SUBSET Sessions
    /\ awaited \in Runs \cup {NoRun} /\ atClose \in SUBSET Runs
    /\ active \in [Sessions -> Runs \cup {NoRun}]
    /\ gate \in [Sessions -> Runs \cup {NoRun, Sync}]
    /\ archived \in [Sessions -> BOOLEAN]
    /\ retired \in [Sessions -> BOOLEAN]
    /\ hub \in [Sessions -> {"none", "open", "closed"}]
    /\ pc \in [Runs -> Labels]
    /\ sess \in [Runs -> Sessions]
    /\ state \in [Runs -> RunStates]
    /\ done \in [Runs -> BOOLEAN]
    /\ cancelled \in [Runs -> BOOLEAN]
    /\ result \in [Runs -> TerminalStates \cup {"queued"}]
    /\ journal \in [Runs -> RunStates \cup {"none"}]
    /\ faults \in Nat

(* The release matrix of execute: on every path, rejections, early exits   *)
(* and failures included, each token is returned exactly once, so the      *)
(* channels hold one token per run that owns one.                          *)
TokensConserved ==
    /\ pending = Cardinality({r \in Runs : pc[r] \in HoldsPending})
    /\ runSlots = Cardinality({r \in Runs : pc[r] \in HoldsSlot})

(* A session's gate and its active run belong to exactly the run whose     *)
(* goroutine is between acquiring and releasing them.                      *)
OwnershipExact ==
    \A r \in Runs, s \in Sessions :
        /\ gate[s] = r <=> sess[r] = s /\ pc[r] \in HoldsGate
        /\ active[s] = r <=> sess[r] = s /\ pc[r] \in HoldsSession

(* At most one run of a session is past the gate, and never together with  *)
(* a maintenance command.                                                  *)
SessionIsSerial ==
    \A r, q \in Runs :
        pc[r] \in HoldsGate => /\ gate[sess[r]] # Sync
                               /\ pc[q] \in HoldsGate /\ sess[q] = sess[r] => q = r

(* Whoever is woken by done finds the terminal state on disk (unless a     *)
(* record was lost to a fault) and the session free for the next run.      *)
DoneMeansSettled ==
    \A r \in Runs :
        done[r] => /\ state[r] \in TerminalStates
                   /\ active[sess[r]] # r
                   /\ journal[r] = state[r] \/ faults > 0

(* A run that was accepted can be traced: its journal file exists before   *)
(* its goroutine does.                                                     *)
AcceptedIsDurable ==
    \A r \in Runs : pc[r] \in Launched => journal[r] # "none"

(* Retire and Archive against StartRun: once a session is retired no run   *)
(* of it is between admission and its terminal record, so the hub and the  *)
(* store that are closed next are not in use.                              *)
RetiredIsQuiet ==
    \A r \in Runs :
        retired[sess[r]] \/ archived[sess[r]] => pc[r] \notin HoldsSession

(* Close hands over a quiet table: every run that held a session when      *)
(* Close took its copy has written its terminal record, or was turned down.*)
CloseAwaitsSnapshot ==
    closePc \in {"clearing", "returned"} =>
        \A r \in atClose : pc[r] \notin HoldsSession

(* The terminal state of a run never changes.                              *)
TerminalIsFinal ==
    [][\A r \in Runs : done[r] => done'[r] /\ state'[r] = state[r]]_vars

-----------------------------------------------------------------------------
(* Liveness.  A goroutine that can go on does, the waits for an approval   *)
(* or a capability time out, and Session.Run returns once its context is   *)
(* done.                                                                   *)
FairSpec ==
    /\ Spec
    /\ \A r \in Runs : WF_vars(Advance(r)) /\ WF_vars(CtxDone(r) /\ ReturnFromRun(r))
    /\ WF_vars(CloseStep)

(* A cancelled run ends wherever the cancellation meets it, in the queue,  *)
(* in a tool call or waiting for a capability, and whoever holds the gate  *)
(* and the slots.                                                          *)
CancelledRunsEnd ==
    \A r \in Runs : (pc[r] \in Launched /\ CtxDone(r)) ~> done[r]

(* Session.Run and the maintenance commands return by themselves, and a    *)
(* goroutine blocked on the gate or on a slot is served in the order of    *)
(* arrival, hence strong fairness.                                         *)
EveryoneReturns ==
    /\ \A r \in Runs : SF_vars(AcquireGate(r) \/ AcquireSlot(r) \/ ReturnFromRun(r))
    /\ \A s \in Sessions : WF_vars(SyncRelease(s))

(* Then every accepted run ends, cancelled or not: no gate and no slot is  *)
(* lost by the run before it.                                              *)
AcceptedRunsEnd == EveryoneReturns => \A r \in Runs : (pc[r] = "accepted") ~> done[r]

(* manager.go, Close: "cancel the host context, wait for the terminal      *)
(* state of all runs in flight, close the hubs, empty the table".          *)
CloseReturns == (closePc = "cancel") ~> (closePc = "returned")

=============================================================================
