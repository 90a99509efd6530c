------------------------------ MODULE EventHub ------------------------------
(***************************************************************************)
(* The per-session event hub of ai-runtime (agent/event_hub.go) together   *)
(* with the part of the run journal it writes (session/journal.go,         *)
(* session/journal_store.go), the order in which the supervisor drives it  *)
(* (agent/supervisor.go) and the clients that follow it by cursor.         *)
(*                                                                         *)
(* Every method of EventHub runs under hub.mu, so each one is one action.  *)
(* A subscriber's pump goroutine holds no lock and is modelled select by   *)
(* select.  The payload of an event is abstracted to the hub incarnation   *)
(* (`epoch') that published it: two events are the same event exactly when *)
(* they agree on seq, type, run and epoch.                                 *)
(***************************************************************************)
EXTENDS Naturals, Sequences, FiniteSets

CONSTANTS
    DeltaTypes,        \* the high-frequency event types (text.delta, ...)
    Clients,           \* subscribers; one hubSub slot each
    SubscriberBuffer,  \* capacity of sub.live and of ch (256 in the code)
    DeltaFlushParts,   \* events that fill the 4KB window of one bucket
    OldJournals,       \* journals an earlier build may have left behind
    MaxSeq,            \* bound: last cursor a model run may allocate
    MaxRuns,           \* bound: agent runs
    MaxEpoch,          \* bound: hub incarnations
    MaxCrashes,        \* bound: process crashes
    MaxFaults          \* bound: failing appends or reads

KeyEvent == "key"      \* stands for the nine types of IsKeyEvent

EventTypes == DeltaTypes \cup {KeyEvent}

Event == [seq : Nat, type : EventTypes, run : Nat, epoch : Nat]

(* A line of a run file.  from = 0 is a single event, from > 0 a merged    *)
(* batch; `payload' says how the batch decodes: the DeltaBatch JSON, the   *)
(* pre-release JSON string, or neither.                                    *)
Record == [from : Nat, seq : Nat, payload : {"event", "parts", "legacy", "garbage"},
           run : Nat, parts : SUBSET Event]

ASSUME HubAssumption ==
    /\ KeyEvent \notin DeltaTypes
    /\ SubscriberBuffer \in Nat \ {0}
    /\ DeltaFlushParts \in Nat \ {0}
    /\ OldJournals \in SUBSET (SUBSET Record)
    /\ {MaxSeq, MaxRuns, MaxEpoch, MaxCrashes, MaxFaults} \subseteq Nat

VARIABLES
    \* the EventHub object; hub is "none" until bindEvents / EnsureHub
    hub, seq, earliest, latest, integrity, curRun, deltaBuf, timer,
    \* the run files: readable records, what the open file ends in without
    \* a newline, and the events appended unreadably behind that under this
    \* hub although no error was reported (a history variable)
    journal, torn, swallowed,
    \* the supervisor's use of the hub
    run, phase, lateEnds,
    \* one hubSub and pump goroutine per client
    subs, pump, watermark, replay, live, dead, cancelled, hand, lastSeq, ch,
    \* the client side of the stream
    cursor, seen,
    \* history variables and the counters behind the bounds
    epoch, broadcast, crashes, faults

hubVars    == <<hub, seq, earliest, latest, integrity, curRun, deltaBuf, timer>>
diskVars   == <<journal, torn, swallowed>>
driverVars == <<run, phase, lateEnds>>
subVars    == <<subs, pump, watermark, replay, live, dead, cancelled, hand,
                lastSeq, ch>>
clientVars == <<cursor, seen>>
boundVars  == <<epoch, crashes, faults>>
vars == <<hubVars, diskVars, driverVars, subVars, clientVars, boundVars, broadcast>>

EmptyBucket == [run |-> 0, from |-> 0, to |-> 0, parts |-> {}]

IsKeyEvent(t) == t = KeyEvent

-----------------------------------------------------------------------------
(* The journal.                                                            *)

(* The handle of a run's file is open from the queued record until the     *)
(* terminal state record; afterwards AppendEvent runs into ErrRunExists.   *)
HandleOpen(r) == r = run /\ phase # "idle"

(* A line that was not written to its end, of an event or of a state       *)
(* record: the next one is glued to it and both are unreadable.            *)
HalfLine == [from |-> 0, seq |-> 0, payload |-> "event", run |-> 0, parts |-> {}]

(* The records recs are appended in some order, each with its newline.     *)
(* Behind a file that does not end in one (torn: a half line, or a whole   *)
(* record that still reads) the first is glued to what is there, and both  *)
(* are lost although Write and Sync succeeded.                             *)
AppendLines(recs) ==
    IF recs = {} \/ torn = {}
    THEN journal' = journal \cup recs /\ UNCHANGED <<torn, swallowed>>
    ELSE /\ \E glued \in recs : /\ journal' = (journal \ torn) \cup (recs \ {glued})
                               /\ swallowed' = swallowed \cup glued.parts
         /\ torn' = {}

(* What is left of the records recs after a fault episode: kept are the    *)
(* ones that read and end in a newline (Sync may have failed), tail is     *)
(* what the file ends in without one: nothing, a half line, or the last    *)
(* record, which still reads.                                              *)
AppendFails(recs) ==
    \/ UNCHANGED <<journal, torn>>
    \/ \E kept \in SUBSET recs, tail \in {{}, {HalfLine}} \cup {{rec} : rec \in recs} :
         LET lost == recs \ (kept \cup tail)
         IN  /\ kept \cap tail = {}
             /\ tail = {HalfLine} => lost # {}
             /\ torn # {} => \/ lost # {} /\ (tail = {HalfLine} => Cardinality(lost) > 1)
                             \/ kept = {} /\ tail = {HalfLine}
             /\ journal' = (journal \ torn) \cup kept \cup (tail \ {HalfLine})
             /\ torn' = tail

(* AppendEvent for a set of records of runs; it fails on a file that was   *)
(* closed, and in a fault episode.                                         *)
AppendEvents(recs, err) ==
    \/ /\ ~err
       /\ \A rec \in recs : HandleOpen(rec.run)
       /\ AppendLines(recs)
       /\ UNCHANGED faults
    \/ /\ err
       /\ \E rec \in recs : ~HandleOpen(rec.run)
       /\ AppendLines({rec \in recs : HandleOpen(rec.run)})
       /\ UNCHANGED faults
    \/ /\ err
       /\ recs # {}
       /\ \A rec \in recs : HandleOpen(rec.run)
       /\ faults < MaxFaults
       /\ faults' = faults + 1
       /\ AppendFails(recs)
       /\ UNCHANGED swallowed

(* The structural check a decoded batch has to pass before it is replayed. *)
ValidDeltaBatch(rec) ==
    /\ rec.parts # {}
    /\ \A e \in rec.parts : rec.from <= e.seq /\ e.seq <= rec.seq
    /\ {rec.from, rec.seq} \subseteq {e.seq : e \in rec.parts}
    /\ \A e, f \in rec.parts : e.seq = f.seq => e = f

(* The records whose events Subscribe can expand, and the events they give.*)
Decodes(rec) ==
    \/ rec.payload \in {"event", "legacy"}
    \/ rec.payload = "parts" /\ ValidDeltaBatch(rec)

(* Mutant of ReadEvents: a batch is selected by its first seq.             *)
ReadByFirstSeq(jrn, from) ==
    {rec \in jrn : IF rec.from > 0 THEN rec.from > from ELSE rec.seq > from}

ReadEvents(jrn, from) == {rec \in jrn : rec.seq > from}

Expand(recs, from) ==
    {e \in UNION {rec.parts : rec \in {r \in recs : Decodes(r)}} : e.seq > from}

(* Mutant of Degraded: the single-string form is taken for complete.       *)
DegradedByGarbageOnly(recs) == \E rec \in recs : ~Decodes(rec)

(* A legacy or undecodable batch degrades replayIntegrity at replay time.  *)
Degraded(recs) ==
    \E rec \in recs : rec.payload = "legacy" \/ ~Decodes(rec)

(* SeqRange: the smallest and largest seq field over all records.          *)
IsSeqRange(lo, hi, jrn) ==
    /\ \A rec \in jrn : lo <= rec.seq /\ rec.seq <= hi
    /\ {lo, hi} \subseteq {rec.seq : rec \in jrn}

(* Old journals are ones a hub could write: the first cursor is 1, within  *)
(* a journal no two events share a cursor, and none is beyond the cursor   *)
(* of its record.                                                          *)
ASSUME OldJournalAssumption ==
    \A jrn \in OldJournals :
        LET readable == {rec \in jrn : Decodes(rec)}
        IN  /\ \A rec \in jrn : rec.seq > 0
            /\ \A rec \in readable : \A e \in rec.parts : e.seq <= rec.seq
            /\ \A e, f \in UNION {rec.parts : rec \in readable} : e.seq = f.seq => e = f

-----------------------------------------------------------------------------
(* The delta buffer.                                                       *)

Pending == {t \in DeltaTypes : deltaBuf[t].parts # {}}

BatchRecord(b) ==
    [from |-> b.from, seq |-> b.to, payload |-> "parts", run |-> b.run, parts |-> b.parts]

(* flushDeltaTypeLocked for every type in T, starting from buffer buf.     *)
FlushDeltaTypes(buf, T, err) ==
    /\ AppendEvents({BatchRecord(buf[t]) : t \in {u \in T : buf[u].parts # {}}}, err)
    /\ deltaBuf' = [t \in DeltaTypes |-> IF t \in T THEN EmptyBucket ELSE buf[t]]

FlushAllDelta(err) ==
    /\ FlushDeltaTypes(deltaBuf, DeltaTypes, err)
    /\ timer' = FALSE

AfterAppend(err) == IF err THEN "incomplete" ELSE integrity

(* bufferDeltaLocked: the bucket of e's type after e was added.            *)
Buffered(e) ==
    LET b == deltaBuf[e.type]
    IN  IF b.parts = {}
        THEN [run |-> e.run, from |-> e.seq, to |-> e.seq, parts |-> {e}]
        ELSE [b EXCEPT !.to = e.seq, !.parts = @ \cup {e}]

(* Mutant of TimerAfterFlush: a full bucket always stops the timer.        *)
TimerStopped(armed, t) == FALSE

(* A full bucket was written: the timer stops when no other one is open.   *)
TimerAfterFlush(armed, t) == armed /\ Pending \ {t} # {}

-----------------------------------------------------------------------------
(* Mutant of SeedSeq: the new hub starts at the last cursor.               *)
SeedAtLatest(last) == last

(* The first cursor of a hub whose history ends at last.                   *)
SeedSeq(last) == last + 1

(* Mutant of SeededIntegrity: a restart forgets what it cannot know.       *)
SeededComplete(jrn) == "complete"

(* History of an earlier process cannot be vouched for.                    *)
SeededIntegrity(jrn) == IF jrn = {} THEN "complete" ELSE "unknown"

(* NewEventHub, reached through bindEvents (StartRun) or EnsureHub         *)
(* (attach).  A SeqRange error constructs nothing and changes nothing.     *)
NewEventHub ==
    /\ hub = "none"
    /\ epoch < MaxEpoch
    /\ hub' = "open"
    /\ epoch' = epoch + 1
    /\ \/ journal = {} /\ earliest' = 0 /\ latest' = 0 /\ seq' = SeedSeq(0)
       \/ \E lo, hi \in {rec.seq : rec \in journal} :
            /\ IsSeqRange(lo, hi, journal)
            /\ earliest' = lo /\ latest' = hi /\ seq' = SeedSeq(hi)
    /\ integrity' = SeededIntegrity(journal)
    /\ UNCHANGED <<curRun, deltaBuf, timer, diskVars, driverVars, subVars,
                   clientVars, crashes, faults, broadcast>>

(* StartRun: the queued record creates the file of a new run, then         *)
(* hub.BeginRun flushes what another run may have left and takes its id.   *)
BeginRun ==
    /\ hub = "open"
    /\ phase = "idle"
    /\ run < MaxRuns
    /\ run' = run + 1
    /\ phase' = "queued"
    /\ \E err \in BOOLEAN :
         /\ FlushAllDelta(err)
         /\ integrity' = AfterAppend(err)
    /\ curRun' = run + 1
    /\ UNCHANGED <<hub, seq, earliest, latest, lateEnds, subVars, clientVars,
                   epoch, crashes, broadcast>>

(* The event of execute that leaves the queue: run.started, or             *)
(* run.finished when the run was cancelled while it waited.                *)
LeaveQueue == phase' \in IF phase = "queued" THEN {"running", "aborted"} ELSE {phase}

(* Mutant of FanOut: a full buffer drops the event, not the subscriber.    *)
FanOutDropping(e) ==
    LET target == {s \in subs : e.seq > watermark[s] /\ Len(live[s]) < SubscriberBuffer}
    IN  /\ live' = [s \in Clients |-> IF s \in target THEN Append(live[s], e) ELSE live[s]]
        /\ broadcast' = broadcast \cup {e}
        /\ UNCHANGED <<subs, dead>>

(* fanOutLocked: non-blocking send to every subscriber past its watermark; *)
(* a full buffer disconnects that subscriber.                              *)
FanOut(e) ==
    LET target == {s \in subs : e.seq > watermark[s]}
        full   == {s \in target : Len(live[s]) >= SubscriberBuffer}
    IN  /\ live' = [s \in Clients |-> IF s \in target \ full
                                      THEN Append(live[s], e) ELSE live[s]]
        /\ subs' = subs \ full
        /\ dead' = [s \in Clients |-> dead[s] \/ s \in full]
        /\ broadcast' = broadcast \cup {e}

(* Publish of a key event: durable first.  On an append error the seq is   *)
(* burned, nothing is broadcast and the history is marked incomplete.      *)
PublishKey ==
    /\ hub = "open"
    /\ phase \in {"queued", "running"}
    /\ seq <= MaxSeq
    /\ seq' = seq + 1
    /\ LeaveQueue
    /\ LET e   == [seq |-> seq, type |-> KeyEvent, run |-> run, epoch |-> epoch]
           rec == [from |-> 0, seq |-> seq, payload |-> "event", run |-> run, parts |-> {e}]
       IN  \E err \in BOOLEAN :
             /\ AppendEvents({rec}, err)
             /\ integrity' = AfterAppend(err)
             /\ IF err THEN UNCHANGED <<latest, subs, live, dead, broadcast>>
                       ELSE latest' = seq /\ FanOut(e)
    /\ UNCHANGED <<hub, earliest, curRun, deltaBuf, timer, run, lateEnds, pump, watermark,
                   replay, cancelled, hand, lastSeq, ch, clientVars, epoch, crashes>>

(* Publish of a delta: broadcast first, then into the merge window of its  *)
(* type, which is written at once when it is full.                         *)
PublishDelta(t) ==
    /\ hub = "open"
    /\ phase = "running"
    /\ seq <= MaxSeq
    /\ seq' = seq + 1
    /\ latest' = seq
    /\ LET e     == [seq |-> seq, type |-> t, run |-> run, epoch |-> epoch]
           buf   == [deltaBuf EXCEPT ![t] = Buffered(e)]
           armed == timer \/ deltaBuf[t].parts = {}
       IN  /\ FanOut(e)
           /\ IF Cardinality(buf[t].parts) >= DeltaFlushParts
              THEN /\ \E err \in BOOLEAN :
                        /\ FlushDeltaTypes(buf, {t}, err)
                        /\ integrity' = AfterAppend(err)
                   /\ timer' = TimerAfterFlush(armed, t)
              ELSE /\ deltaBuf' = buf
                   /\ timer' = armed
                   /\ UNCHANGED <<integrity, diskVars, faults>>
    /\ UNCHANGED <<hub, earliest, curRun, driverVars, pump, watermark, replay, cancelled,
                   hand, lastSeq, ch, clientVars, epoch, crashes>>

(* Publish on a closed hub: ErrHubClosed, the run goes on without events.  *)
PublishRejected ==
    /\ hub = "closed"
    /\ phase = "queued"
    /\ LeaveQueue
    /\ UNCHANGED <<hubVars, diskVars, run, lateEnds, subVars, clientVars, boundVars, broadcast>>

(* The timer of the 50ms window fires.                                     *)
FlushDeltaOnTimer ==
    /\ hub = "open"
    /\ timer
    /\ \E err \in BOOLEAN :
         /\ FlushAllDelta(err)
         /\ integrity' = AfterAppend(err)
    /\ UNCHANGED <<hub, seq, earliest, latest, curRun, driverVars, subVars, clientVars,
                   epoch, crashes, broadcast>>

(* Mutant of HubEndRun: the pending deltas are not flushed.                *)
HubEndRunUnflushed ==
    /\ curRun' = IF hub = "open" THEN 0 ELSE curRun
    /\ UNCHANGED <<deltaBuf, timer, diskVars, faults, integrity>>

(* hub.EndRun; a no-op once the hub is closed.                             *)
HubEndRun ==
    IF hub = "open"
    THEN /\ \E err \in BOOLEAN :
              /\ FlushAllDelta(err)
              /\ integrity' = AfterAppend(err)
         /\ curRun' = 0
    ELSE UNCHANGED <<deltaBuf, timer, diskVars, faults, integrity, curRun>>

(* execute, step 5.5: the explicit EndRun before the terminal record.      *)
EndRun ==
    /\ phase = "running"
    /\ phase' = "ended"
    /\ HubEndRun
    /\ UNCHANGED <<hub, seq, earliest, latest, run, lateEnds, subVars, clientVars,
                   epoch, crashes, broadcast>>

(* A state record of the run (running, waiting_input, waiting_capability)  *)
(* goes to the same file.  Behind a half line or a record without its      *)
(* newline it is glued like an event; an error may leave a half line.  It  *)
(* is only warned about: the integrity of the hub stays what it is.        *)
JournalState ==
    /\ phase = "running"
    /\ \/ torn # {} /\ torn' = {} /\ UNCHANGED faults
       \/ faults < MaxFaults /\ faults' = faults + 1 /\ torn' = {HalfLine}
    /\ journal' = journal \ torn
    /\ UNCHANGED <<swallowed, hubVars, driverVars, subVars, clientVars, epoch, crashes,
                   broadcast>>

(* finalizeRun: the terminal state record, written or failed, closes the   *)
(* file of the run, the session admits the next one, and execute is left   *)
(* with its deferred EndRun.                                               *)
FinalizeRun ==
    /\ phase \in {"ended", "aborted"}
    /\ phase' = "idle"
    /\ \/ journal' = journal \ torn /\ UNCHANGED faults
       \/ torn # {} /\ faults < MaxFaults /\ faults' = faults + 1 /\ UNCHANGED journal
    /\ torn' = {}
    /\ lateEnds' = lateEnds + 1
    /\ UNCHANGED <<hubVars, swallowed, run, subVars, clientVars, epoch, crashes, broadcast>>

(* The deferred hub.EndRun of an execute whose run is already finalized.   *)
DeferredEndRun ==
    /\ lateEnds > 0
    /\ lateEnds' = lateEnds - 1
    /\ HubEndRun
    /\ UNCHANGED <<hub, seq, earliest, latest, run, phase, subVars, clientVars,
                   epoch, crashes, broadcast>>

(* closeEvents: EndRun, then Close disconnects every subscriber.           *)
CloseEvents ==
    /\ hub = "open"
    /\ hub' = "closed"
    /\ \E err \in BOOLEAN :
         /\ FlushAllDelta(err)
         /\ integrity' = AfterAppend(err)
    /\ curRun' = 0
    /\ subs' = {}
    /\ dead' = [s \in Clients |-> dead[s] \/ s \in subs]
    /\ UNCHANGED <<seq, earliest, latest, driverVars, pump, watermark, replay, live,
                   cancelled, hand, lastSeq, ch, clientVars, epoch, crashes, broadcast>>

-----------------------------------------------------------------------------
(* Subscribe and the pump.  A client always asks from its own cursor, the  *)
(* seq of the last event it received (0 before the first one).             *)

(* Mutant of CursorExpired: a cursor at the very end counts as ahead.      *)
CursorAtEndExpired(from) == from >= latest \/ (from # 0 /\ from + 1 < earliest)

CursorExpired(from) == from > latest \/ (from # 0 /\ from + 1 < earliest)

Subscribable(s) == hub = "open" /\ pump[s] = "off" /\ ~CursorExpired(cursor[s])

(* Steps 1 to 3 under one lock: window check, flush, replay snapshot and   *)
(* registration at the current latest.  A channel the client left behind   *)
(* is dropped.                                                             *)
Subscribe(s) ==
    /\ Subscribable(s)
    /\ \E err \in BOOLEAN :
         /\ FlushAllDelta(err)
         /\ LET recs == ReadEvents(journal', cursor[s])
            IN  /\ replay' = [replay EXCEPT ![s] = Expand(recs, cursor[s])]
                /\ integrity' = IF Degraded(recs) THEN "incomplete" ELSE AfterAppend(err)
    /\ subs' = subs \cup {s}
    /\ pump' = [pump EXCEPT ![s] = "run"]
    /\ watermark' = [watermark EXCEPT ![s] = latest]
    /\ live' = [live EXCEPT ![s] = <<>>]
    /\ dead' = [dead EXCEPT ![s] = FALSE]
    /\ cancelled' = [cancelled EXCEPT ![s] = FALSE]
    /\ lastSeq' = [lastSeq EXCEPT ![s] = 0]
    /\ ch' = [ch EXCEPT ![s] = <<>>]
    /\ UNCHANGED <<hub, seq, earliest, latest, curRun, driverVars, hand, clientVars,
                   epoch, crashes, broadcast>>

(* ReadEvents fails after the flush: the client gets the error.            *)
SubscribeReadError(s) ==
    /\ Subscribable(s)
    /\ MaxFaults > 0
    /\ \E err \in BOOLEAN :
         /\ FlushAllDelta(err)
         /\ integrity' = AfterAppend(err)
    /\ UNCHANGED <<hub, seq, earliest, latest, curRun, driverVars, subVars, clientVars,
                   epoch, crashes, broadcast>>

(* Phase one: the snapshot in seq order.                                   *)
PumpReplay(s) ==
    /\ pump[s] = "run"
    /\ Len(ch[s]) < SubscriberBuffer
    /\ \E e \in replay[s] :
         /\ \A f \in replay[s] : e.seq <= f.seq
         /\ ch' = [ch EXCEPT ![s] = Append(@, e)]
         /\ replay' = [replay EXCEPT ![s] = @ \ {e}]
         /\ lastSeq' = [lastSeq EXCEPT ![s] = e.seq]
    /\ UNCHANGED <<hubVars, diskVars, driverVars, subs, pump, watermark, live, dead,
                   cancelled, hand, clientVars, boundVars, broadcast>>

(* Phase two: take one event off sub.live; a repeated seq is skipped.      *)
PumpReceive(s) ==
    /\ pump[s] = "run"
    /\ replay[s] = {}
    /\ live[s] # <<>>
    /\ live' = [live EXCEPT ![s] = Tail(@)]
    /\ LET e == Head(live[s])
       IN  IF e.seq <= lastSeq[s]
           THEN UNCHANGED <<hand, pump>>
           ELSE /\ hand' = [hand EXCEPT ![s] = {e}]
                /\ pump' = [pump EXCEPT ![s] = "send"]
    /\ UNCHANGED <<hubVars, diskVars, driverVars, subs, watermark, replay, dead, cancelled,
                   lastSeq, ch, clientVars, boundVars, broadcast>>

PumpSend(s) ==
    /\ pump[s] = "send"
    /\ Len(ch[s]) < SubscriberBuffer
    /\ \E e \in hand[s] :
         /\ ch' = [ch EXCEPT ![s] = Append(@, e)]
         /\ lastSeq' = [lastSeq EXCEPT ![s] = e.seq]
    /\ hand' = [hand EXCEPT ![s] = {}]
    /\ pump' = [pump EXCEPT ![s] = "run"]
    /\ UNCHANGED <<hubVars, diskVars, driverVars, subs, watermark, replay, live, dead,
                   cancelled, clientVars, boundVars, broadcast>>

(* Mutant of StopCase: the send of phase two does not watch dead.          *)
StopCaseBlockedSend(s) ==
    \/ cancelled[s]
    \/ pump[s] = "run" /\ replay[s] # {} /\ (hub = "closed" \/ dead[s])
    \/ pump[s] = "run" /\ replay[s] = {} /\ dead[s] /\ live[s] = <<>>

(* The cases of the three selects that make the pump return.               *)
StopCase(s) ==
    \/ cancelled[s]
    \/ pump[s] = "run" /\ replay[s] # {} /\ (hub = "closed" \/ dead[s])
    \/ pump[s] = "run" /\ replay[s] = {} /\ dead[s] /\ live[s] = <<>>
    \/ pump[s] = "send" /\ dead[s]

PumpStop(s) ==
    /\ pump[s] \in {"run", "send"}
    /\ StopCase(s)
    /\ pump' = [pump EXCEPT ![s] = "exit"]
    /\ UNCHANGED <<hubVars, diskVars, driverVars, subs, watermark, replay, live, dead,
                   cancelled, hand, lastSeq, ch, clientVars, boundVars, broadcast>>

(* The deferred removeSub and close(ch); what is in ch can still be read.  *)
PumpExit(s) ==
    /\ pump[s] = "exit"
    /\ pump' = [pump EXCEPT ![s] = "off"]
    /\ subs' = subs \ {s}
    /\ replay' = [replay EXCEPT ![s] = {}]
    /\ live' = [live EXCEPT ![s] = <<>>]
    /\ hand' = [hand EXCEPT ![s] = {}]
    /\ UNCHANGED <<hubVars, diskVars, driverVars, watermark, dead, cancelled, lastSeq, ch,
                   clientVars, boundVars, broadcast>>

PumpStep(s) == PumpReplay(s) \/ PumpReceive(s) \/ PumpSend(s) \/ PumpStop(s) \/ PumpExit(s)

(* The client reads its channel and moves its cursor to what it received.  *)
ClientRead(s) ==
    /\ ch[s] # <<>>
    /\ cursor' = [cursor EXCEPT ![s] = Head(ch[s]).seq]
    /\ seen' = [seen EXCEPT ![s] = @ \cup {Head(ch[s])}]
    /\ ch' = [ch EXCEPT ![s] = Tail(@)]
    /\ UNCHANGED <<hubVars, diskVars, driverVars, subs, pump, watermark, replay, live, dead,
                   cancelled, hand, lastSeq, boundVars, broadcast>>

(* The client disconnects: its subscription context is cancelled.          *)
ClientCancel(s) ==
    /\ pump[s] # "off"
    /\ ~cancelled[s]
    /\ cancelled' = [cancelled EXCEPT ![s] = TRUE]
    /\ UNCHANGED <<hubVars, diskVars, driverVars, subs, pump, watermark, replay, live, dead,
                   hand, lastSeq, ch, clientVars, boundVars, broadcast>>

-----------------------------------------------------------------------------
(* What a process or a runtime takes with it: everything but the files and *)
(* the clients' cursors.                                                   *)
ForgetHub ==
    /\ hub' = "none"
    /\ seq' = 1 /\ earliest' = 0 /\ latest' = 0
    /\ integrity' = "unknown" /\ curRun' = 0 /\ timer' = FALSE
    /\ deltaBuf' = [t \in DeltaTypes |-> EmptyBucket]
    /\ torn' = {} /\ swallowed' = {}
    /\ phase' = "idle" /\ lateEnds' = 0
    /\ subs' = {}
    /\ pump' = [s \in Clients |-> "off"]
    /\ watermark' = [s \in Clients |-> 0]
    /\ replay' = [s \in Clients |-> {}]
    /\ live' = [s \in Clients |-> <<>>]
    /\ dead' = [s \in Clients |-> FALSE]
    /\ cancelled' = [s \in Clients |-> FALSE]
    /\ hand' = [s \in Clients |-> {}]
    /\ lastSeq' = [s \in Clients |-> 0]
    /\ ch' = [s \in Clients |-> <<>>]
    /\ UNCHANGED <<run, clientVars, epoch, faults, broadcast>>

(* The process dies.  The next one cuts a half line off, or glues its      *)
(* "interrupted" record to a record that lacks its newline, unless that    *)
(* append fails; no event is appended to the file again.                   *)
Crash ==
    /\ hub # "none"
    /\ crashes < MaxCrashes
    /\ crashes' = crashes + 1
    /\ journal' \in {journal, journal \ torn}
    /\ ForgetHub

(* The session is released after CloseEvents and loaded again: a new       *)
(* runtime, hence a new hub, over the same files.                          *)
Reload ==
    /\ hub = "closed"
    /\ epoch < MaxEpoch
    /\ phase = "idle"
    /\ lateEnds = 0
    /\ \A s \in Clients : pump[s] = "off" /\ ch[s] = <<>>
    /\ UNCHANGED <<crashes, journal>>
    /\ ForgetHub

-----------------------------------------------------------------------------
Init ==
    /\ hub = "none"
    /\ seq = 1 /\ earliest = 0 /\ latest = 0
    /\ integrity = "unknown" /\ curRun = 0 /\ timer = FALSE
    /\ deltaBuf = [t \in DeltaTypes |-> EmptyBucket]
    /\ journal \in OldJournals \cup {{}}
    /\ torn = {} /\ swallowed = {}
    /\ run = 0 /\ phase = "idle" /\ lateEnds = 0
    /\ subs = {}
    /\ pump = [s \in Clients |-> "off"]
    /\ watermark = [s \in Clients |-> 0]
    /\ replay = [s \in Clients |-> {}]
    /\ live = [s \in Clients |-> <<>>]
    /\ dead = [s \in Clients |-> FALSE]
    /\ cancelled = [s \in Clients |-> FALSE]
    /\ hand = [s \in Clients |-> {}]
    /\ lastSeq = [s \in Clients |-> 0]
    /\ ch = [s \in Clients |-> <<>>]
    /\ cursor = [s \in Clients |-> 0]
    /\ seen = [s \in Clients |-> {}]
    /\ epoch = 0 /\ crashes = 0 /\ faults = 0
    /\ broadcast = {}

ClientStep(s) == Subscribe(s) \/ SubscribeReadError(s) \/ ClientRead(s) \/ ClientCancel(s)

(* The run's wrapped callbacks: text, thoughts and reports of usage are    *)
(* deltas, every other callback is a key event; whether the publication    *)
(* succeeds is only logged, and the caller's own callback follows anyway.  *)
teeRunCallbacks == PublishKey \/ PublishRejected \/ \E t \in DeltaTypes : PublishDelta(t)

Next ==
    \/ NewEventHub \/ BeginRun \/ teeRunCallbacks
    \/ JournalState \/ FlushDeltaOnTimer \/ EndRun \/ FinalizeRun \/ DeferredEndRun \/ CloseEvents
    \/ \E s \in Clients : PumpStep(s) \/ ClientStep(s)
    \/ Crash \/ Reload

Spec == Init /\ [][Next]_vars

-----------------------------------------------------------------------------
(* Properties.                                                             *)

Bucket == [run : Nat, from : Nat, to : Nat, parts : SUBSET Event]

HubTypes ==
    /\ hub \in {"none", "open", "closed"}
    /\ seq \in Nat \ {0} /\ earliest \in Nat /\ latest \in Nat
    /\ integrity \in {"complete", "unknown", "incomplete"}
    /\ curRun \in Nat
    /\ deltaBuf \in [DeltaTypes -> Bucket]
    /\ timer \in BOOLEAN

DiskTypes ==
    /\ journal \in SUBSET Record
    /\ torn \in SUBSET Record
    /\ swallowed \in SUBSET Event

DriverTypes ==
    /\ run \in Nat
    /\ phase \in {"idle", "queued", "running", "aborted", "ended"}
    /\ lateEnds \in Nat

SubTypes ==
    /\ subs \in SUBSET Clients
    /\ pump \in [Clients -> {"off", "run", "send", "exit"}]
    /\ watermark \in [Clients -> Nat]
    /\ replay \in [Clients -> SUBSET Event]
    /\ live \in [Clients -> Seq(Event)]
    /\ dead \in [Clients -> BOOLEAN]
    /\ cancelled \in [Clients -> BOOLEAN]
    /\ hand \in [Clients -> SUBSET Event]
    /\ lastSeq \in [Clients -> Nat]
    /\ ch \in [Clients -> Seq(Event)]

ClientTypes == cursor \in [Clients -> Nat] /\ seen \in [Clients -> SUBSET Event]

BoundTypes == epoch \in Nat /\ crashes \in Nat /\ faults \in Nat

(* The type of every variable of the hub, its files and its clients.       *)
TypeOK ==
    /\ HubTypes /\ DiskTypes /\ DriverTypes /\ SubTypes /\ ClientTypes /\ BoundTypes
    /\ broadcast \in SUBSET Event

JournalEvents == UNION {rec.parts : rec \in {r \in journal : Decodes(r)}}

BufferedEvents == UNION {deltaBuf[t].parts : t \in DeltaTypes}

SeqElements(q) == {q[i] : i \in DOMAIN q}

(* Everything on its way from the hub to client s.                         *)
InFlight(s) ==
    SeqElements(ch[s]) \cup hand[s] \cup replay[s] \cup SeqElements(live[s])

(* Replay and live meet without a gap: unless the hub admits a loss (or an *)
(* earlier hub failed or crashed, which a new one cannot know), every      *)
(* event ever broadcast has been received by a client that is past it, and *)
(* is on its way to a subscriber that is still connected.  This is what    *)
(* Subscribe's single critical section (flush, snapshot, register) and the *)
(* disconnect-then-resume contract for slow subscribers have to give.  The *)
(* one loss that no hub admits is left out: an event whose append          *)
(* succeeded behind the half line of a state record (journalRunState only  *)
(* warns of that one, and the next append is glued to it).                 *)
NoEventLost ==
    hub # "none" /\ integrity # "incomplete" /\ (epoch = 1 \/ faults + crashes = 0) =>
        \A s \in Clients, e \in broadcast \ swallowed :
            /\ e.seq <= cursor[s] => e \in seen[s]
            /\ e.seq > cursor[s] /\ s \in subs /\ pump[s] \in {"run", "send"}
                   => e \in InFlight(s)

(* A client never receives a seq twice or out of order, whatever is        *)
(* replayed, retried, resumed or interleaved by type.                      *)
StrictlyAscending ==
    \A s \in Clients :
        /\ ch[s] # <<>> => Head(ch[s]).seq > cursor[s]
        /\ \A i, j \in DOMAIN ch[s] : i < j => ch[s][i].seq < ch[s][j].seq

(* replayIntegrity = complete is never a lie: every event that was ever    *)
(* broadcast can be replayed, now or after the pending flush.  Neither a   *)
(* crash nor a failing append spoils it; a new hub after a failing append  *)
(* does, since the mark of the failure is not persisted.  The exception is *)
(* again the event glued to the half line of a failed state record, which  *)
(* leaves the integrity as it is.                                          *)
CompleteIsHonest ==
    hub # "none" /\ integrity = "complete" /\ (epoch = 1 \/ faults = 0) =>
        broadcast \ swallowed \subseteq JournalEvents \cup BufferedEvents

(* Two readable events never share a cursor, across runs, reloads, crashes *)
(* and failed appends: the sort of Subscribe is a total order.             *)
JournalSeqUnique ==
    \A e, f \in JournalEvents \cup BufferedEvents : e.seq = f.seq => e = f

(* What flushDeltaTypeLocked writes always passes validDeltaBatch, so only *)
(* foreign lines are skipped at replay.                                    *)
OwnBatchesDecode ==
    \A rec \in journal : rec \in UNION OldJournals \/ Decodes(rec)

(* Without an I/O fault the history is never marked incomplete: every      *)
(* flush of a run's deltas happens while the run's file is still open.     *)
NoSpuriousLoss ==
    integrity = "incomplete" =>
        faults > 0 \/ Degraded(journal)

(* A client that has moved past a stored window whose single events cannot *)
(* be told apart any more is told by the hub that served it: the history   *)
(* is marked incomplete.                                                   *)
ForeignGapsFlagged ==
    hub # "none" /\ epoch = 1 =>
        \A s \in Clients, rec \in journal :
            (rec.payload = "legacy" \/ ~Decodes(rec)) /\ cursor[s] >= rec.seq
                => integrity = "incomplete"

(* The cursor of a client that only ever stores what it received is        *)
(* accepted by Subscribe: in a session without old journals, failed        *)
(* appends and crashes no honest client is told its cursor expired.        *)
HonestCursorAccepted ==
    hub = "open" /\ faults + crashes = 0 /\ journal \cap UNION OldJournals = {} =>
        \A s \in Clients : ~CursorExpired(cursor[s])

(* The events a session can publish.                                       *)
Publishable == [seq : 1..MaxSeq, type : EventTypes, run : 1..MaxRuns, epoch : 1..MaxEpoch]

Stream == INSTANCE EventStream WITH Events <- Publishable,
              log <- broadcast, pos <- cursor, got <- seen

(* The hub implements the abstract stream: every read of a client, across  *)
(* replay, live delivery, disconnects and session reloads, is the delivery *)
(* of the next event of the log, and nothing else reaches a client.        *)
ImplementsStream == Stream!Spec

(* event_hub.go: "Seq is a strictly increasing cursor of the session, it   *)
(* does not repeat across runs".  Stated over everything clients saw.      *)
SeqNeverReused ==
    \A e, f \in broadcast : e.seq = f.seq => e = f

-----------------------------------------------------------------------------
(* Liveness.  The pump is a goroutine that is scheduled whenever one of    *)
(* its select cases is ready, and the runtime fires an armed timer.        *)
PumpFairness == \A s \in Clients : WF_vars(PumpStep(s))

FairSpec == Spec /\ PumpFairness /\ WF_vars(FlushDeltaOnTimer)

(* A disconnected, cancelled or shut down subscription always ends: its    *)
(* pump closes the channel even when the client never reads.               *)
DisconnectedPumpExits ==
    \A s \in Clients :
        (pump[s] # "off" /\ (dead[s] \/ cancelled[s] \/ hub = "closed")) ~> (pump[s] = "off")

(* No delta stays in the merge window for ever.                            *)
DeltasReachDisk == (Pending # {}) ~> (Pending = {})

(* A connected client that keeps reading its channel gets every broadcast  *)
(* event, or is told that it was disconnected.                             *)
ReaderCatchesUp ==
    (\A s \in Clients : WF_vars(ClientRead(s))) =>
        \A s \in Clients, n \in 1..MaxSeq :
            (s \in subs /\ pump[s] = "run" /\ n <= latest)
                ~> (cursor[s] >= n \/ pump[s] = "off")

=============================================================================
