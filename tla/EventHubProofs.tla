--------------------------- MODULE EventHubProofs ---------------------------
(***************************************************************************)
(* Proofs about EventHub, for any number of clients, delta types, runs,    *)
(* crashes and failing appends, and any journal an earlier build left.     *)
(***************************************************************************)
EXTENDS EventHub, TLAPS

(* The half line is a record without events.                               *)
LEMMA HalfLineType ==
    HalfLine \in Record /\ HalfLine.parts = {} /\ Decodes(HalfLine) /\ HalfLine.payload = "event"
  BY DEF HalfLine, Record, Decodes

(* What a set of records may do to the files: some become readable, and    *)
(* nothing but what lacked its newline is lost.                            *)
Appended(recs) ==
    /\ journal \ torn \subseteq journal' /\ journal' \subseteq journal \cup recs
    /\ torn' \subseteq torn \cup {HalfLine} \cup recs
    /\ \A e \in swallowed' : e \in swallowed \/ \E rec \in recs : e \in rec.parts
    /\ swallowed \subseteq swallowed'
    /\ torn = {} => journal \subseteq journal'

(* Lines that are appended without an error.                               *)
LEMMA LinesAppend ==
    ASSUME NEW recs, NEW all, recs \subseteq all, AppendLines(recs) PROVE Appended(all)
<1>1. CASE recs = {} \/ torn = {}
  BY <1>1 DEF AppendLines, Appended
<1>2. CASE ~(recs = {} \/ torn = {})
  <2>1. PICK glued \in recs : /\ journal' = (journal \ torn) \cup (recs \ {glued})
                             /\ swallowed' = swallowed \cup glued.parts
    BY <1>2 DEF AppendLines
  <2>2. torn' = {}
    BY <1>2 DEF AppendLines
  <2> QED BY <1>2, <2>1, <2>2 DEF Appended
<1> QED BY <1>1, <1>2

(* Lines that a fault episode leaves.                                      *)
LEMMA FaultAppends ==
    ASSUME NEW recs, AppendFails(recs), swallowed' = swallowed PROVE Appended(recs)
<1>1. CASE UNCHANGED <<journal, torn>>
  BY <1>1 DEF Appended
<1>2. CASE ~UNCHANGED <<journal, torn>>
  <2>1. PICK kept \in SUBSET recs, tail \in {{}, {HalfLine}} \cup {{rec} : rec \in recs} :
           journal' = (journal \ torn) \cup kept \cup (tail \ {HalfLine}) /\ torn' = tail
    BY <1>2 DEF AppendFails
  <2>2. tail \subseteq {HalfLine} \cup recs
    OBVIOUS
  <2> QED BY <2>1, <2>2 DEF Appended
<1> QED BY <1>1, <1>2

(* An append adds some of its records to the readable ones, and nothing    *)
(* else, whether or not it reports an error.                               *)
LEMMA AppendAdds ==
    ASSUME NEW recs, NEW err \in BOOLEAN, AppendEvents(recs, err), faults \in Nat
    PROVE  Appended(recs) /\ faults' \in Nat
<1>1. CASE ~err
  BY <1>1, LinesAppend DEF AppendEvents
<1>2. CASE err /\ \E rec \in recs : ~HandleOpen(rec.run)
  <2>1. AppendLines({rec \in recs : HandleOpen(rec.run)}) /\ UNCHANGED faults
    BY <1>2 DEF AppendEvents
  <2> QED BY <2>1, LinesAppend
<1>3. CASE err /\ \A rec \in recs : HandleOpen(rec.run)
  <2>1. faults' = faults + 1 /\ AppendFails(recs) /\ swallowed' = swallowed
    BY <1>3 DEF AppendEvents
  <2> QED BY <2>1, FaultAppends
<1> QED BY <1>1, <1>2, <1>3

(* And so the types of the files stay.                                     *)
LEMMA AppendTypes ==
    ASSUME DiskTypes, NEW recs \in SUBSET Record, Appended(recs) PROVE DiskTypes'
<1>1. journal' \in SUBSET Record /\ torn' \in SUBSET Record
  BY HalfLineType DEF DiskTypes, Appended
<1>2. swallowed' \in SUBSET Event
  <2>1. \A rec \in recs : rec.parts \subseteq Event
    BY DEF Record
  <2> QED BY <2>1 DEF DiskTypes, Appended
<1> QED BY <1>1, <1>2 DEF DiskTypes

(* The records a flush of the buckets buf of the types T writes.           *)
Batches(buf, T) == {BatchRecord(buf[t]) : t \in {u \in T : buf[u].parts # {}}}

(* A flush writes batches of its buckets only, and empties these buckets.  *)
LEMMA FlushAdds ==
    ASSUME NEW buf \in [DeltaTypes -> Bucket], NEW T \in SUBSET DeltaTypes, NEW err \in BOOLEAN,
           FlushDeltaTypes(buf, T, err), DiskTypes, faults \in Nat
    PROVE  /\ Appended(Batches(buf, T))
           /\ DiskTypes'
           /\ deltaBuf' \in [DeltaTypes -> Bucket]
           /\ faults' \in Nat
<1>1. AppendEvents(Batches(buf, T), err)
  BY DEF FlushDeltaTypes, Batches
<1>2. Appended(Batches(buf, T)) /\ faults' \in Nat
  BY <1>1, AppendAdds
<1>3. Batches(buf, T) \in SUBSET Record
  BY DEF Batches, BatchRecord, Bucket, Record
<1>4. deltaBuf' \in [DeltaTypes -> Bucket]
  BY DEF FlushDeltaTypes, EmptyBucket, Bucket
<1> QED BY <1>2, <1>3, <1>4, AppendTypes

(* flushAllDeltaLocked empties every bucket and stops the timer.           *)
LEMMA FlushAllAdds ==
    ASSUME TypeOK, NEW err \in BOOLEAN, FlushAllDelta(err)
    PROVE  /\ Appended(Batches(deltaBuf, DeltaTypes))
           /\ DiskTypes'
           /\ deltaBuf' = [t \in DeltaTypes |-> EmptyBucket]
           /\ deltaBuf' \in [DeltaTypes -> Bucket]
           /\ timer' = FALSE /\ faults' \in Nat
<1>1. FlushDeltaTypes(deltaBuf, DeltaTypes, err) /\ timer' = FALSE
  BY DEF FlushAllDelta
<1>2. deltaBuf' = [t \in DeltaTypes |-> EmptyBucket]
  BY <1>1 DEF FlushDeltaTypes
<1>3. /\ deltaBuf \in [DeltaTypes -> Bucket] /\ DiskTypes
      /\ faults \in Nat /\ DeltaTypes \in SUBSET DeltaTypes
  BY DEF TypeOK, HubTypes, BoundTypes
<1> QED BY <1>1, <1>2, <1>3, FlushAdds

(* The types of what the hub keeps after a flush and what it knows of it.  *)
LEMMA FlushStepTypes ==
    ASSUME TypeOK, NEW err \in BOOLEAN, FlushAllDelta(err), integrity' = AfterAppend(err),
           hub' \in {"none", "open", "closed"}, curRun' \in Nat,
           UNCHANGED <<seq, earliest, latest, epoch, crashes>>
    PROVE  HubTypes' /\ DiskTypes' /\ BoundTypes'
<1>1. /\ DiskTypes' /\ deltaBuf' \in [DeltaTypes -> Bucket]
      /\ timer' = FALSE /\ faults' \in Nat
  BY FlushAllAdds
<1> QED BY <1>1 DEF TypeOK, HubTypes, BoundTypes, AfterAppend

(* fanOutLocked keeps the subscribers and what they are sent well typed.   *)
LEMMA FanOutTypes ==
    ASSUME TypeOK, NEW e \in Event, FanOut(e),
           UNCHANGED <<pump, watermark, replay, cancelled, hand, lastSeq, ch>>
    PROVE  SubTypes' /\ broadcast' \in SUBSET Event
  BY DEF TypeOK, SubTypes, FanOut

(* The fields of events and records.                                       *)
LEMMA RecordTypes ==
    /\ \A e \in Event : e.seq \in Nat
    /\ \A rec \in Record : rec.seq \in Nat /\ rec.from \in Nat /\ rec.parts \in SUBSET Event
  BY DEF Event, Record

(* A group of variables that does not change keeps its types.              *)
LEMMA QuietTypes ==
    ASSUME TypeOK
    PROVE  /\ UNCHANGED hubVars => HubTypes'
           /\ UNCHANGED diskVars => DiskTypes'
           /\ UNCHANGED driverVars => DriverTypes'
           /\ UNCHANGED subVars => SubTypes'
           /\ UNCHANGED clientVars => ClientTypes'
           /\ UNCHANGED boundVars => BoundTypes'
           /\ UNCHANGED broadcast => broadcast' \in SUBSET Event
  BY DEF TypeOK, HubTypes, DiskTypes, DriverTypes, SubTypes, ClientTypes, BoundTypes, hubVars,
         diskVars, driverVars, subVars, clientVars, boundVars

(* Every step preserves the types.                                         *)
LEMMA TypeStep == TypeOK /\ [Next]_vars => TypeOK'
<1> SUFFICES ASSUME TypeOK, [Next]_vars PROVE TypeOK'
  OBVIOUS
<1>1. ASSUME NewEventHub PROVE TypeOK'
  <2>1. seq' \in Nat \ {0} /\ earliest' \in Nat /\ latest' \in Nat
    <3>1. \A rec \in journal : rec.seq \in Nat
      BY RecordTypes DEF TypeOK, DiskTypes
    <3> QED BY <1>1, <3>1 DEF NewEventHub, SeedSeq
  <2>2. HubTypes' /\ BoundTypes'
    BY <1>1, <2>1 DEF NewEventHub, SeededIntegrity, TypeOK, HubTypes, BoundTypes
  <2> QED BY <1>1, <2>2, QuietTypes DEF NewEventHub, TypeOK
<1>2. ASSUME BeginRun PROVE TypeOK'
  <2>1. PICK err \in BOOLEAN : FlushAllDelta(err) /\ integrity' = AfterAppend(err)
    BY <1>2 DEF BeginRun
  <2>2. HubTypes' /\ DiskTypes' /\ BoundTypes'
    BY <1>2, <2>1, FlushStepTypes DEF BeginRun, TypeOK, HubTypes, DriverTypes
  <2>3. DriverTypes' /\ SubTypes'
    BY <1>2 DEF BeginRun, TypeOK, DriverTypes, SubTypes, driverVars, subVars
  <2> QED BY <1>2, <2>2, <2>3, QuietTypes DEF BeginRun, TypeOK
<1>3. ASSUME PublishKey PROVE TypeOK'
  <2> DEFINE e   == [seq |-> seq, type |-> KeyEvent, run |-> run, epoch |-> epoch]
             rec == [from |-> 0, seq |-> seq, payload |-> "event", run |-> run, parts |-> {e}]
  <2>1. PICK err \in BOOLEAN :
           /\ AppendEvents({rec}, err)
           /\ integrity' = AfterAppend(err)
           /\ IF err THEN UNCHANGED <<latest, subs, live, dead, broadcast>>
                     ELSE latest' = seq /\ FanOut(e)
    BY <1>3 DEF PublishKey
  <2>2. e \in Event /\ rec \in Record
    BY DEF TypeOK, HubTypes, DriverTypes, BoundTypes, Event, EventTypes, Record
  <2> HIDE DEF e, rec
  <2>3. DiskTypes' /\ faults' \in Nat
    <3>1. Appended({rec}) /\ faults' \in Nat
      BY <2>1, AppendAdds DEF TypeOK, BoundTypes
    <3> QED BY <2>2, <3>1, AppendTypes DEF TypeOK
  <2>4. SubTypes' /\ broadcast' \in SUBSET Event
    <3>1. UNCHANGED <<pump, watermark, replay, cancelled, hand, lastSeq, ch>>
      BY <1>3 DEF PublishKey
    <3>2. CASE err
      BY <2>1, <3>1, <3>2, QuietTypes DEF subVars
    <3>3. CASE ~err
      BY <2>1, <2>2, <3>1, <3>3, FanOutTypes
    <3> QED BY <3>2, <3>3
  <2>5. DriverTypes'
    BY <1>3 DEF PublishKey, LeaveQueue, TypeOK, DriverTypes
  <2>6. HubTypes' /\ BoundTypes'
    BY <1>3, <2>1, <2>3 DEF PublishKey, AfterAppend, TypeOK, HubTypes, BoundTypes
  <2> QED BY <1>3, <2>3, <2>4, <2>5, <2>6, QuietTypes DEF PublishKey, TypeOK
<1>4. ASSUME NEW t \in DeltaTypes, PublishDelta(t) PROVE TypeOK'
  <2> DEFINE e   == [seq |-> seq, type |-> t, run |-> run, epoch |-> epoch]
             buf == [deltaBuf EXCEPT ![t] = Buffered(e)]
  <2>1. e \in Event /\ e.seq \in Nat /\ e.run \in Nat /\ e.type = t
    BY DEF TypeOK, HubTypes, DriverTypes, BoundTypes, Event, EventTypes
  <2>2. buf \in [DeltaTypes -> Bucket]
    <3> HIDE DEF e
    <3>1. Buffered(e) \in Bucket
      BY <2>1 DEF TypeOK, HubTypes, Buffered, Bucket
    <3> QED BY <3>1 DEF TypeOK, HubTypes
  <2>3. SubTypes' /\ broadcast' \in SUBSET Event
    BY <1>4, <2>1, FanOutTypes DEF PublishDelta
  <2>4. /\ DiskTypes' /\ faults' \in Nat
        /\ deltaBuf' \in [DeltaTypes -> Bucket] /\ timer' \in BOOLEAN
        /\ integrity' \in {"complete", "unknown", "incomplete"}
    <3>1. CASE Cardinality(buf[t].parts) >= DeltaFlushParts
      <4>1. PICK err \in BOOLEAN : FlushDeltaTypes(buf, {t}, err) /\ integrity' = AfterAppend(err)
        BY <1>4, <3>1 DEF PublishDelta
      <4>2. timer' \in BOOLEAN
        BY <1>4, <3>1 DEF PublishDelta, TimerAfterFlush
      <4>3. {t} \in SUBSET DeltaTypes /\ DiskTypes /\ faults \in Nat
        BY DEF TypeOK, BoundTypes
      <4>4. integrity' \in {"complete", "unknown", "incomplete"}
        BY <4>1 DEF AfterAppend, TypeOK, HubTypes
      <4> HIDE DEF buf
      <4> QED BY <2>2, <4>1, <4>2, <4>3, <4>4, FlushAdds
    <3>2. CASE ~(Cardinality(buf[t].parts) >= DeltaFlushParts)
      BY <1>4, <2>2, <3>2, QuietTypes DEF PublishDelta, TypeOK, HubTypes, BoundTypes
    <3> QED BY <3>1, <3>2
  <2>5. HubTypes' /\ BoundTypes'
    BY <1>4, <2>4 DEF PublishDelta, TypeOK, HubTypes, BoundTypes
  <2> QED BY <1>4, <2>3, <2>4, <2>5, QuietTypes DEF PublishDelta, TypeOK
<1>5. ASSUME PublishRejected PROVE TypeOK'
  <2>1. DriverTypes'
    BY <1>5 DEF PublishRejected, LeaveQueue, TypeOK, DriverTypes
  <2> QED BY <1>5, <2>1, QuietTypes DEF PublishRejected, TypeOK
<1>6. ASSUME FlushDeltaOnTimer PROVE TypeOK'
  <2>1. PICK err \in BOOLEAN : FlushAllDelta(err) /\ integrity' = AfterAppend(err)
    BY <1>6 DEF FlushDeltaOnTimer
  <2>2. HubTypes' /\ DiskTypes' /\ BoundTypes'
    BY <1>6, <2>1, FlushStepTypes DEF FlushDeltaOnTimer, TypeOK, HubTypes, DriverTypes
  <2>3. DriverTypes' /\ SubTypes'
    BY <1>6 DEF FlushDeltaOnTimer, TypeOK, DriverTypes, SubTypes, driverVars, subVars
  <2> QED BY <1>6, <2>2, <2>3, QuietTypes DEF FlushDeltaOnTimer, TypeOK
<1>7. ASSUME HubEndRun, UNCHANGED <<hub, seq, earliest, latest, epoch, crashes>>
      PROVE HubTypes' /\ DiskTypes' /\ BoundTypes'
  <2>1. CASE hub = "open"
    <3>1. PICK err \in BOOLEAN : FlushAllDelta(err) /\ integrity' = AfterAppend(err)
      BY <1>7, <2>1 DEF HubEndRun
    <3> QED BY <1>7, <2>1, <3>1, FlushStepTypes DEF HubEndRun, TypeOK, HubTypes
  <2>2. CASE hub # "open"
    BY <1>7, <2>2, QuietTypes DEF HubEndRun, hubVars, diskVars, boundVars
  <2> QED BY <2>1, <2>2
<1>8. ASSUME EndRun PROVE TypeOK'
  <2>1. DriverTypes'
    BY <1>8 DEF EndRun, TypeOK, DriverTypes
  <2> QED BY <1>7, <1>8, <2>1, QuietTypes DEF EndRun, TypeOK
<1>9. ASSUME DeferredEndRun PROVE TypeOK'
  <2>1. DriverTypes'
    BY <1>9 DEF DeferredEndRun, TypeOK, DriverTypes
  <2> QED BY <1>7, <1>9, <2>1, QuietTypes DEF DeferredEndRun, TypeOK
<1>10. ASSUME FinalizeRun PROVE TypeOK'
  <2>1. DriverTypes'
    BY <1>10 DEF FinalizeRun, TypeOK, DriverTypes
  <2>2. DiskTypes' /\ BoundTypes'
    BY <1>10 DEF FinalizeRun, TypeOK, DiskTypes, BoundTypes
  <2> QED BY <1>10, <2>1, <2>2, QuietTypes DEF FinalizeRun, TypeOK
<1>a. ASSUME JournalState PROVE TypeOK'
  <2>1. DiskTypes' /\ BoundTypes'
    BY <1>a, HalfLineType DEF JournalState, TypeOK, DiskTypes, BoundTypes
  <2> QED BY <1>a, <2>1, QuietTypes DEF JournalState, TypeOK
<1>11. ASSUME CloseEvents PROVE TypeOK'
  <2>1. PICK err \in BOOLEAN : FlushAllDelta(err) /\ integrity' = AfterAppend(err)
    BY <1>11 DEF CloseEvents
  <2>2. HubTypes' /\ DiskTypes' /\ BoundTypes'
    BY <1>11, <2>1, FlushStepTypes DEF CloseEvents, TypeOK, HubTypes, DriverTypes
  <2>3. DriverTypes' /\ SubTypes'
    BY <1>11 DEF CloseEvents, TypeOK, DriverTypes, SubTypes, driverVars, subVars
  <2> QED BY <1>11, <2>2, <2>3, QuietTypes DEF CloseEvents, TypeOK
<1>12. ASSUME NEW s \in Clients, Subscribe(s) PROVE TypeOK'
  <2> DEFINE recs == ReadEvents(journal', cursor[s])
  <2>1. PICK err \in BOOLEAN :
           /\ FlushAllDelta(err)
           /\ replay' = [replay EXCEPT ![s] = Expand(recs, cursor[s])]
           /\ integrity' = IF Degraded(recs) THEN "incomplete" ELSE AfterAppend(err)
    BY <1>12 DEF Subscribe
  <2>2. /\ DiskTypes' /\ deltaBuf' \in [DeltaTypes -> Bucket]
        /\ timer' = FALSE /\ faults' \in Nat
    BY <2>1, FlushAllAdds
  <2>3. Expand(recs, cursor[s]) \in SUBSET Event
    BY <2>2, RecordTypes DEF DiskTypes, Expand, ReadEvents
  <2> HIDE DEF recs
  <2>4. HubTypes' /\ BoundTypes'
    BY <1>12, <2>1, <2>2 DEF Subscribe, AfterAppend, TypeOK, HubTypes, BoundTypes
  <2>5. SubTypes'
    BY <1>12, <2>1, <2>3 DEF Subscribe, TypeOK, HubTypes, SubTypes
  <2> QED BY <1>12, <2>2, <2>4, <2>5, QuietTypes DEF Subscribe, TypeOK
<1>13. ASSUME NEW s \in Clients, SubscribeReadError(s) PROVE TypeOK'
  <2>1. PICK err \in BOOLEAN : FlushAllDelta(err) /\ integrity' = AfterAppend(err)
    BY <1>13 DEF SubscribeReadError
  <2>2. HubTypes' /\ DiskTypes' /\ BoundTypes'
    BY <1>13, <2>1, FlushStepTypes DEF SubscribeReadError, TypeOK, HubTypes, DriverTypes
  <2>3. DriverTypes' /\ SubTypes'
    BY <1>13 DEF SubscribeReadError, TypeOK, DriverTypes, SubTypes, driverVars, subVars
  <2> QED BY <1>13, <2>2, <2>3, QuietTypes DEF SubscribeReadError, TypeOK
<1>14. ASSUME NEW s \in Clients, PumpReceive(s) PROVE TypeOK'
  <2>1. Head(live[s]) \in Event /\ Tail(live[s]) \in Seq(Event)
    BY <1>14 DEF PumpReceive, TypeOK, SubTypes
  <2>2. /\ live' = [live EXCEPT ![s] = Tail(@)]
        /\ hand' = hand \/ hand' = [hand EXCEPT ![s] = {Head(live[s])}]
        /\ pump' = pump \/ pump' = [pump EXCEPT ![s] = "send"]
        /\ UNCHANGED <<subs, watermark, replay, dead, cancelled, lastSeq, ch>>
    BY <1>14 DEF PumpReceive
  <2>3. SubTypes'
    <3>1. live' \in [Clients -> Seq(Event)]
      BY <2>1, <2>2 DEF TypeOK, SubTypes
    <3>2. hand' \in [Clients -> SUBSET Event]
      <4>1. hand \in [Clients -> SUBSET Event] /\ {Head(live[s])} \in SUBSET Event
        BY <2>1 DEF TypeOK, SubTypes
      <4> QED BY ONLY <2>2, <4>1
    <3>3. pump' \in [Clients -> {"off", "run", "send", "exit"}]
      BY <2>2 DEF TypeOK, SubTypes
    <3> QED BY <2>2, <3>1, <3>2, <3>3 DEF TypeOK, SubTypes
  <2> QED BY <1>14, <2>3, QuietTypes DEF PumpReceive, TypeOK
<1>15. ASSUME NEW s \in Clients, PumpReplay(s) PROVE TypeOK'
  <2>1. SubTypes'
    BY <1>15, RecordTypes DEF PumpReplay, TypeOK, SubTypes
  <2> QED BY <1>15, <2>1, QuietTypes DEF PumpReplay, TypeOK
<1>16. ASSUME NEW s \in Clients, PumpSend(s) PROVE TypeOK'
  <2>1. SubTypes'
    BY <1>16, RecordTypes DEF PumpSend, TypeOK, SubTypes
  <2> QED BY <1>16, <2>1, QuietTypes DEF PumpSend, TypeOK
<1>17. ASSUME NEW s \in Clients, PumpStop(s) PROVE TypeOK'
  <2>1. SubTypes'
    BY <1>17, RecordTypes DEF PumpStop, TypeOK, SubTypes
  <2> QED BY <1>17, <2>1, QuietTypes DEF PumpStop, TypeOK
<1>18. ASSUME NEW s \in Clients, PumpExit(s) PROVE TypeOK'
  <2>1. SubTypes'
    BY <1>18, RecordTypes DEF PumpExit, TypeOK, SubTypes
  <2> QED BY <1>18, <2>1, QuietTypes DEF PumpExit, TypeOK
<1>19. ASSUME NEW s \in Clients, ClientCancel(s) PROVE TypeOK'
  <2>1. SubTypes'
    BY <1>19, RecordTypes DEF ClientCancel, TypeOK, SubTypes
  <2> QED BY <1>19, <2>1, QuietTypes DEF ClientCancel, TypeOK
<1>20. ASSUME NEW s \in Clients, ClientRead(s) PROVE TypeOK'
  <2>1. Head(ch[s]) \in Event /\ Tail(ch[s]) \in Seq(Event)
    BY <1>20 DEF ClientRead, TypeOK, SubTypes
  <2>2. SubTypes' /\ ClientTypes'
    BY <1>20, <2>1, RecordTypes DEF ClientRead, TypeOK, SubTypes, ClientTypes
  <2> QED BY <1>20, <2>2, QuietTypes DEF ClientRead, TypeOK
<1>21. ASSUME Crash \/ Reload PROVE TypeOK'
  <2>0. ForgetHub /\ crashes' \in Nat
    BY <1>21 DEF Crash, Reload, TypeOK, BoundTypes
  <2>1. HubTypes'
    <3>1. deltaBuf' \in [DeltaTypes -> Bucket]
      BY <2>0 DEF ForgetHub, EmptyBucket, Bucket
    <3>2. timer' \in BOOLEAN /\ hub' = "none" /\ integrity' = "unknown"
      BY <2>0 DEF ForgetHub
    <3>3. seq' = 1 /\ earliest' = 0 /\ latest' = 0 /\ curRun' = 0
      BY <2>0 DEF ForgetHub
    <3> QED BY <3>1, <3>2, <3>3 DEF HubTypes
  <2>2. SubTypes'
    BY <2>0 DEF ForgetHub, SubTypes
  <2>3. DiskTypes'
    <3>1. journal' = journal \/ journal' = journal \ torn
      BY <1>21 DEF Crash, Reload
    <3> QED BY <2>0, <3>1 DEF ForgetHub, TypeOK, DiskTypes
  <2>4. DriverTypes' /\ BoundTypes'
    BY <2>0 DEF ForgetHub, TypeOK, DriverTypes, BoundTypes
  <2> QED BY <2>0, <2>1, <2>2, <2>3, <2>4, QuietTypes DEF ForgetHub, TypeOK
<1>22. ASSUME UNCHANGED vars PROVE TypeOK'
  BY <1>22, QuietTypes DEF vars, TypeOK
<1> QED
  BY <1>1, <1>2, <1>3, <1>4, <1>5, <1>6, <1>8, <1>9, <1>10, <1>11, <1>12, <1>13, <1>14, <1>15,
     <1>16, <1>17, <1>18, <1>19, <1>20, <1>21, <1>22, <1>a
     DEF Next, teeRunCallbacks, PumpStep, ClientStep

(* The initial state is well typed, whatever journal it starts from.       *)
LEMMA TypeInit == Init => TypeOK
<1> SUFFICES ASSUME Init PROVE TypeOK
  OBVIOUS
<1>1. HubTypes
  <2>1. deltaBuf \in [DeltaTypes -> Bucket]
    BY DEF Init, EmptyBucket, Bucket
  <2>2. timer \in BOOLEAN /\ hub = "none" /\ integrity = "unknown"
    BY DEF Init
  <2>3. seq = 1 /\ earliest = 0 /\ latest = 0 /\ curRun = 0
    BY DEF Init
  <2> QED BY <2>1, <2>2, <2>3 DEF HubTypes
<1>2. DiskTypes
  BY HubAssumption DEF Init, DiskTypes
<1>3. DriverTypes /\ BoundTypes
  BY DEF Init, DriverTypes, BoundTypes
<1>4. SubTypes /\ ClientTypes
  BY DEF Init, SubTypes, ClientTypes
<1> QED BY <1>1, <1>2, <1>3, <1>4 DEF Init, TypeOK

(* Type correctness of the hub, its files and its clients.                 *)
THEOREM TypeCorrect == Spec => []TypeOK
  BY TypeInit, TypeStep, PTL DEF Spec

-----------------------------------------------------------------------------
(* The cursors on disk and in the merge windows.                           *)

DecodedEvents(jrn) == UNION {rec.parts : rec \in {r \in jrn : Decodes(r)}}

WindowEvents(buf) == UNION {buf[t].parts : t \in DeltaTypes}

SeqUnique(E) == \A e, f \in E : e.seq = f.seq => e = f

(* What the files alone satisfy, with or without a hub over them.          *)
DiskSound(jrn) ==
    /\ \A rec \in jrn : Decodes(rec) => \A e \in rec.parts : e.seq <= rec.seq
    /\ SeqUnique(DecodedEvents(jrn))
    /\ \A rec \in jrn : rec \in UNION OldJournals \/ Decodes(rec)

(* Files, windows and the next cursor n of a hub: every window decodes     *)
(* once it is written, and n is beyond everything.                         *)
Sound(jrn, buf, n) ==
    /\ DiskSound(jrn)
    /\ \A rec \in jrn : rec.seq < n
    /\ \A t \in DeltaTypes : buf[t].parts # {} => Decodes(BatchRecord(buf[t])) /\ buf[t].to < n
    /\ SeqUnique(DecodedEvents(jrn) \cup WindowEvents(buf))

JournalInv ==
    /\ hub = "none" => /\ DiskSound(journal) /\ swallowed = {}
                       /\ \A t \in DeltaTypes : deltaBuf[t].parts = {}
    /\ hub # "none" => Sound(journal, deltaBuf, seq) /\ \A e \in swallowed : e.seq < seq

(* A window that decodes holds no cursor beyond its end.                   *)
LEMMA WindowBounds ==
    ASSUME NEW jrn, NEW buf, NEW n, Sound(jrn, buf, n), NEW t \in DeltaTypes
    PROVE  \A e \in buf[t].parts : buf[t].from <= e.seq /\ e.seq <= buf[t].to
  BY DEF Sound, Decodes, ValidDeltaBatch, BatchRecord

(* Writing some windows, losing others: nothing new appears.               *)
LEMMA FlushKeepsSound ==
    ASSUME NEW jrn, NEW buf, NEW n, Sound(jrn, buf, n),
           NEW jrn2, jrn2 \subseteq jrn \cup Batches(buf, DeltaTypes),
           NEW buf2, \A t \in DeltaTypes : buf2[t] = buf[t] \/ buf2[t].parts = {}
    PROVE  Sound(jrn2, buf2, n)
<1>1. ASSUME NEW rec \in Batches(buf, DeltaTypes)
      PROVE  /\ Decodes(rec) /\ rec.seq < n /\ rec.parts \subseteq WindowEvents(buf)
             /\ \A e \in rec.parts : e.seq <= rec.seq
  <2>1. PICK t \in DeltaTypes : rec = BatchRecord(buf[t]) /\ buf[t].parts # {}
    BY <1>1 DEF Batches
  <2>2. rec.seq = buf[t].to /\ rec.parts = buf[t].parts
    BY <2>1 DEF BatchRecord
  <2> QED BY <2>1, <2>2, WindowBounds DEF Sound, WindowEvents
<1>2. DecodedEvents(jrn2) \subseteq DecodedEvents(jrn) \cup WindowEvents(buf)
  BY <1>1 DEF DecodedEvents
<1>3. WindowEvents(buf2) \subseteq WindowEvents(buf)
  BY DEF WindowEvents
<1>4. SeqUnique(DecodedEvents(jrn2) \cup WindowEvents(buf2)) /\ SeqUnique(DecodedEvents(jrn2))
  BY <1>2, <1>3 DEF Sound, SeqUnique
<1>5. /\ \A rec \in jrn2 : Decodes(rec) => \A e \in rec.parts : e.seq <= rec.seq
      /\ \A rec \in jrn2 : rec \in UNION OldJournals \/ Decodes(rec)
      /\ \A rec \in jrn2 : rec.seq < n
  BY <1>1 DEF Sound, DiskSound
<1>6. \A t \in DeltaTypes : buf2[t].parts # {} => Decodes(BatchRecord(buf2[t])) /\ buf2[t].to < n
  BY DEF Sound
<1> QED BY <1>4, <1>5, <1>6 DEF Sound, DiskSound

(* Everything on disk and in the windows is before the next cursor.        *)
LEMMA EventsBeforeNext ==
    ASSUME NEW jrn \in SUBSET Record, NEW buf \in [DeltaTypes -> Bucket], NEW n \in Nat,
           Sound(jrn, buf, n),
           NEW e \in DecodedEvents(jrn) \cup WindowEvents(buf)
    PROVE  e.seq \in Nat /\ e.seq < n
<1>1. CASE e \in DecodedEvents(jrn)
  <2>1. PICK rec \in jrn : Decodes(rec) /\ e \in rec.parts
    BY <1>1 DEF DecodedEvents
  <2>2. e.seq <= rec.seq /\ rec.seq < n
    BY <2>1 DEF Sound, DiskSound
  <2>3. e.seq \in Nat /\ rec.seq \in Nat
    BY <2>1, RecordTypes
  <2> QED BY <2>2, <2>3
<1>2. CASE e \in WindowEvents(buf)
  <2>1. PICK t \in DeltaTypes : e \in buf[t].parts
    BY <1>2 DEF WindowEvents
  <2>2. e.seq <= buf[t].to /\ buf[t].to < n
    BY <2>1, WindowBounds DEF Sound
  <2>3. e.seq \in Nat /\ buf[t].to \in Nat
    BY <2>1, RecordTypes DEF Bucket
  <2> QED BY <2>2, <2>3
<1> QED BY <1>1, <1>2

(* A key event takes cursor n; its record may or may not become readable.  *)
LEMMA KeyKeepsSound ==
    ASSUME NEW jrn \in SUBSET Record, NEW buf \in [DeltaTypes -> Bucket], NEW n \in Nat,
           Sound(jrn, buf, n),
           NEW e \in Event, e.seq = n,
           NEW rec \in Record, rec.seq = n, rec.parts = {e}, rec.payload = "event",
           NEW jrn2, jrn2 \subseteq jrn \cup {rec}
    PROVE  Sound(jrn2, buf, n + 1)
<1>1. DecodedEvents(jrn2) \subseteq DecodedEvents(jrn) \cup {e}
  BY DEF DecodedEvents
<1>2. SeqUnique(DecodedEvents(jrn2) \cup WindowEvents(buf)) /\ SeqUnique(DecodedEvents(jrn2))
  BY <1>1, EventsBeforeNext DEF Sound, SeqUnique
<1>3. \A r \in jrn2 : r.seq < n + 1
  BY RecordTypes DEF Sound
<1>4. \A t \in DeltaTypes : buf[t].parts # {} => Decodes(BatchRecord(buf[t])) /\ buf[t].to < n + 1
  BY DEF Sound, Bucket
<1>5. /\ \A r \in jrn2 : Decodes(r) => \A f \in r.parts : f.seq <= r.seq
      /\ \A r \in jrn2 : r \in UNION OldJournals \/ Decodes(r)
  BY DEF Sound, DiskSound, Decodes
<1> QED BY <1>2, <1>3, <1>4, <1>5 DEF Sound, DiskSound

(* A delta takes cursor seq and goes to the end of the window of its type. *)
LEMMA DeltaKeepsSound ==
    ASSUME TypeOK, Sound(journal, deltaBuf, seq),
           NEW t \in DeltaTypes, NEW e \in Event, e.seq = seq, e.type = t
    PROVE  Sound(journal, [deltaBuf EXCEPT ![t] = Buffered(e)], seq + 1)
<1> DEFINE buf == [deltaBuf EXCEPT ![t] = Buffered(e)]
<1>0. /\ deltaBuf \in [DeltaTypes -> Bucket] /\ journal \in SUBSET Record /\ seq \in Nat
  BY DEF TypeOK, HubTypes, DiskTypes
<1>1. /\ buf[t].parts = deltaBuf[t].parts \cup {e} /\ buf[t].to = seq
      /\ deltaBuf[t].parts = {} => buf[t].from = seq
      /\ deltaBuf[t].parts # {} => buf[t].from = deltaBuf[t].from
  BY <1>0 DEF Buffered, Bucket
<1>2. \A u \in DeltaTypes \ {t} : buf[u] = deltaBuf[u]
  BY <1>0
<1> HIDE DEF buf
<1>3. WindowEvents(buf) \subseteq WindowEvents(deltaBuf) \cup {e}
  BY <1>1, <1>2 DEF WindowEvents
<1>4. SeqUnique(DecodedEvents(journal) \cup WindowEvents(buf))
  BY <1>0, <1>3, EventsBeforeNext DEF Sound, SeqUnique
<1>5. DiskSound(journal) /\ \A rec \in journal : rec.seq < seq + 1
  BY <1>0, RecordTypes DEF Sound
<1>6. Decodes(BatchRecord(buf[t]))
  <2> DEFINE old == deltaBuf[t]
  <2>1. \A f \in old.parts : f \in WindowEvents(deltaBuf)
    BY DEF WindowEvents
  <2>2. \A f \in old.parts : f.seq \in Nat /\ f.seq < seq
    BY <1>0, <2>1, EventsBeforeNext
  <2>3. CASE old.parts = {}
    BY <1>0, <1>1, <2>3 DEF Decodes, ValidDeltaBatch, BatchRecord
  <2>4. CASE old.parts # {}
    <3>1. ValidDeltaBatch(BatchRecord(old))
      BY <2>4 DEF Sound, Decodes, BatchRecord
    <3>2. /\ \A f \in old.parts : old.from <= f.seq
          /\ \A f, g \in old.parts : f.seq = g.seq => f = g
          /\ old.from \in {f.seq : f \in old.parts}
          /\ old.from \in Nat
      BY <1>0, <3>1 DEF ValidDeltaBatch, BatchRecord, Bucket
    <3>3. /\ \A f \in buf[t].parts : buf[t].from <= f.seq /\ f.seq <= buf[t].to
          /\ buf[t].from \in {f.seq : f \in buf[t].parts}
          /\ buf[t].to \in {f.seq : f \in buf[t].parts}
          /\ \A f, g \in buf[t].parts : f.seq = g.seq => f = g
      BY <1>0, <1>1, <2>2, <2>4, <3>2
    <3> QED BY <1>1, <3>3 DEF Decodes, ValidDeltaBatch, BatchRecord
  <2> QED BY <2>3, <2>4
<1>7. \A u \in DeltaTypes :
         buf[u].parts # {} => Decodes(BatchRecord(buf[u])) /\ buf[u].to < seq + 1
  <2>1. \A u \in DeltaTypes : deltaBuf[u].to \in Nat
    BY <1>0 DEF Bucket
  <2> QED BY <1>0, <1>1, <1>2, <1>6, <2>1 DEF Sound
<1>8. Sound(journal, buf, seq + 1)
  BY <1>4, <1>5, <1>7 DEF Sound
<1> QED BY <1>8 DEF buf

(* A line that is lost behind a half one comes from a window.              *)
LEMMA SwallowedBefore ==
    ASSUME NEW jrn \in SUBSET Record, NEW buf \in [DeltaTypes -> Bucket], NEW n \in Nat,
           Sound(jrn, buf, n), NEW T \in SUBSET DeltaTypes, Appended(Batches(buf, T)),
           \A e \in swallowed : e.seq < n
    PROVE  \A e \in swallowed' : e.seq < n
<1> SUFFICES ASSUME NEW e \in swallowed', e \notin swallowed PROVE e.seq < n
  OBVIOUS
<1>1. PICK rec \in Batches(buf, T) : e \in rec.parts
  BY DEF Appended
<1>2. e \in WindowEvents(buf)
  BY <1>1 DEF Batches, BatchRecord, WindowEvents
<1> QED BY <1>2, EventsBeforeNext

(* A step that only flushes, or ends the life of the windows.              *)
LEMMA FlushStepSound ==
    ASSUME TypeOK, JournalInv, NEW err \in BOOLEAN, FlushAllDelta(err),
           hub # "none", hub' # "none", seq' = seq
    PROVE  JournalInv'
<1>1. /\ Appended(Batches(deltaBuf, DeltaTypes))
      /\ deltaBuf' = [t \in DeltaTypes |-> EmptyBucket]
  BY FlushAllAdds
<1>2. \A t \in DeltaTypes : deltaBuf'[t].parts = {}
  BY <1>1 DEF EmptyBucket
<1>3. Sound(journal', deltaBuf', seq)
  BY <1>1, <1>2, FlushKeepsSound DEF JournalInv, Appended
<1>4. /\ journal \in SUBSET Record /\ deltaBuf \in [DeltaTypes -> Bucket] /\ seq \in Nat
      /\ Sound(journal, deltaBuf, seq) /\ \A e \in swallowed : e.seq < seq
  BY DEF TypeOK, HubTypes, DiskTypes, JournalInv
<1>5. \A e \in swallowed' : e.seq < seq
  BY <1>1, <1>4, SwallowedBefore
<1> QED BY <1>3, <1>5 DEF JournalInv

(* Files that lose a record stay sound.                                    *)
LEMMA DiskShrinks ==
    ASSUME NEW jrn, DiskSound(jrn), NEW jrn2, jrn2 \subseteq jrn PROVE DiskSound(jrn2)
<1>1. DecodedEvents(jrn2) \subseteq DecodedEvents(jrn)
  BY DEF DecodedEvents
<1> QED BY <1>1 DEF DiskSound, SeqUnique

(* Every step keeps the journal and the windows sound.                     *)
LEMMA JournalInvStep == TypeOK /\ JournalInv /\ [Next]_vars => JournalInv'
<1> SUFFICES ASSUME TypeOK, JournalInv, [Next]_vars PROVE JournalInv'
  OBVIOUS
<1>1. ASSUME NewEventHub PROVE JournalInv'
  <2>0. swallowed' = {}
    BY <1>1 DEF NewEventHub, diskVars, JournalInv
  <2>1. /\ hub = "none" /\ hub' = "open" /\ journal' = journal /\ deltaBuf' = deltaBuf
        /\ \/ journal = {} /\ seq' = 1
           \/ \E lo, hi \in {rec.seq : rec \in journal} :
                 IsSeqRange(lo, hi, journal) /\ seq' = hi + 1
    BY <1>1 DEF NewEventHub, SeedSeq, diskVars
  <2>2. \A rec \in journal : rec.seq \in Nat
    BY RecordTypes DEF TypeOK, DiskTypes
  <2>3. \A rec \in journal : rec.seq < seq'
    BY <2>1, <2>2 DEF IsSeqRange
  <2>4. DiskSound(journal) /\ \A t \in DeltaTypes : deltaBuf[t].parts = {}
    BY <2>1 DEF JournalInv
  <2>5. WindowEvents(deltaBuf) = {}
    BY <2>4 DEF WindowEvents
  <2>6. Sound(journal, deltaBuf, seq')
    BY <2>3, <2>4, <2>5 DEF Sound, DiskSound
  <2> QED BY <2>0, <2>1, <2>6 DEF JournalInv
<1>2. ASSUME BeginRun \/ FlushDeltaOnTimer \/ CloseEvents PROVE JournalInv'
  <2>1. hub = "open" /\ hub' # "none" /\ seq' = seq /\ \E err \in BOOLEAN : FlushAllDelta(err)
    BY <1>2 DEF BeginRun, FlushDeltaOnTimer, CloseEvents
  <2> QED BY <2>1, FlushStepSound
<1>3. ASSUME UNCHANGED <<hub, deltaBuf, seq, swallowed>>, journal' \subseteq journal
      PROVE  JournalInv'
  <2>1. CASE hub = "none"
    <3>1. DiskSound(journal) => DiskSound(journal')
      BY <1>3, DiskShrinks
    <3> QED BY <1>3, <2>1, <3>1 DEF JournalInv
  <2>2. CASE hub # "none"
    <3>1. Sound(journal', deltaBuf, seq)
      BY <1>3, <2>2, FlushKeepsSound DEF JournalInv
    <3> QED BY <1>3, <2>2, <3>1 DEF JournalInv
  <2> QED BY <2>1, <2>2
<1>4. ASSUME EndRun \/ DeferredEndRun PROVE JournalInv'
  <2>1. UNCHANGED <<hub, seq>> /\ HubEndRun
    BY <1>4 DEF EndRun, DeferredEndRun
  <2>2. CASE hub = "open"
    BY <2>1, <2>2, FlushStepSound DEF HubEndRun
  <2>3. CASE hub # "open"
    BY <1>3, <2>1, <2>3 DEF HubEndRun, diskVars
  <2> QED BY <2>2, <2>3
<1>5. ASSUME PublishKey PROVE JournalInv'
  <2> DEFINE e   == [seq |-> seq, type |-> KeyEvent, run |-> run, epoch |-> epoch]
             rec == [from |-> 0, seq |-> seq, payload |-> "event", run |-> run, parts |-> {e}]
  <2>1. e \in Event /\ rec \in Record
    BY DEF TypeOK, HubTypes, DriverTypes, BoundTypes, Event, EventTypes, Record
  <2>2. /\ hub = "open" /\ hub' = hub /\ seq' = seq + 1 /\ deltaBuf' = deltaBuf
        /\ \E err \in BOOLEAN : AppendEvents({rec}, err)
    BY <1>5 DEF PublishKey
  <2>3. e.seq = seq /\ rec.seq = seq /\ rec.parts = {e} /\ rec.payload = "event"
    OBVIOUS
  <2> HIDE DEF e, rec
  <2>4. Appended({rec})
    BY <2>2, AppendAdds DEF TypeOK, BoundTypes
  <2>5. /\ journal \in SUBSET Record /\ deltaBuf \in [DeltaTypes -> Bucket] /\ seq \in Nat
        /\ Sound(journal, deltaBuf, seq)
    BY <2>2 DEF TypeOK, HubTypes, DiskTypes, JournalInv
  <2>6. Sound(journal', deltaBuf, seq + 1)
    BY <2>1, <2>3, <2>4, <2>5, KeyKeepsSound DEF Appended
  <2>7. \A f \in swallowed' : f.seq < seq + 1
    <3>1. \A f \in swallowed : f.seq < seq /\ f.seq \in Nat
      BY <2>2, RecordTypes DEF JournalInv, TypeOK, DiskTypes
    <3>2. \A f \in swallowed' : f \in swallowed \/ f = e
      BY <2>3, <2>4 DEF Appended
    <3> QED BY <2>3, <2>5, <3>1, <3>2
  <2> QED BY <2>2, <2>6, <2>7 DEF JournalInv
<1>6. ASSUME NEW t \in DeltaTypes, PublishDelta(t) PROVE JournalInv'
  <2> DEFINE e   == [seq |-> seq, type |-> t, run |-> run, epoch |-> epoch]
             buf == [deltaBuf EXCEPT ![t] = Buffered(e)]
  <2>1. e \in Event /\ e.seq = seq /\ e.type = t
    BY DEF TypeOK, HubTypes, DriverTypes, BoundTypes, Event, EventTypes
  <2>2. /\ hub = "open" /\ hub' = hub /\ seq' = seq + 1
        /\ \/ \E err \in BOOLEAN : FlushDeltaTypes(buf, {t}, err)
           \/ deltaBuf' = buf /\ UNCHANGED diskVars
    BY <1>6 DEF PublishDelta
  <2>3. Sound(journal, buf, seq + 1)
    BY <2>1, <2>2, DeltaKeepsSound DEF JournalInv
  <2>a. buf \in [DeltaTypes -> Bucket]
    <3>1. Buffered(e) \in Bucket
      BY <2>1 DEF TypeOK, HubTypes, DriverTypes, Buffered, Bucket, Event
    <3> QED BY <3>1 DEF TypeOK, HubTypes
  <2>b. /\ seq \in Nat /\ seq + 1 \in Nat /\ journal \in SUBSET Record
        /\ \A f \in swallowed : f.seq < seq + 1
    <3>1. \A f \in swallowed : f.seq < seq /\ f.seq \in Nat
      BY <2>2, RecordTypes DEF JournalInv, TypeOK, DiskTypes
    <3> QED BY <3>1 DEF TypeOK, HubTypes, DiskTypes
  <2> HIDE DEF e, buf
  <2>4. CASE deltaBuf' = buf /\ UNCHANGED diskVars
    BY <2>2, <2>3, <2>4, <2>b DEF JournalInv, diskVars
  <2>5. CASE \E err \in BOOLEAN : FlushDeltaTypes(buf, {t}, err)
    <3>1. PICK err \in BOOLEAN : FlushDeltaTypes(buf, {t}, err)
      BY <2>5
    <3>2. Appended(Batches(buf, {t}))
      BY <3>1, AppendAdds DEF FlushDeltaTypes, Batches, TypeOK, BoundTypes
    <3>3. Batches(buf, {t}) \subseteq Batches(buf, DeltaTypes)
      BY DEF Batches
    <3>4. \A u \in DeltaTypes : deltaBuf'[u] = buf[u] \/ deltaBuf'[u].parts = {}
      BY <3>1 DEF FlushDeltaTypes, EmptyBucket
    <3>5. Sound(journal', deltaBuf', seq + 1)
      BY <2>3, <3>2, <3>3, <3>4, FlushKeepsSound DEF Appended
    <3>6. {t} \in SUBSET DeltaTypes
      OBVIOUS
    <3>7. \A f \in swallowed' : f.seq < seq + 1
      BY <2>3, <2>a, <2>b, <3>2, <3>6, SwallowedBefore
    <3> QED BY <2>2, <3>5, <3>7 DEF JournalInv
  <2> QED BY <2>2, <2>4, <2>5
<1>7. ASSUME NEW s \in Clients, Subscribe(s) \/ SubscribeReadError(s) PROVE JournalInv'
  <2>1. UNCHANGED <<hub, seq>> /\ hub = "open" /\ \E err \in BOOLEAN : FlushAllDelta(err)
    BY <1>7 DEF Subscribe, SubscribeReadError, Subscribable
  <2> QED BY <2>1, FlushStepSound
<1>8. ASSUME Crash \/ Reload PROVE JournalInv'
  <2>1. /\ hub # "none" /\ hub' = "none" /\ journal' \subseteq journal /\ swallowed' = {}
        /\ \A t \in DeltaTypes : deltaBuf'[t].parts = {}
    BY <1>8 DEF Crash, Reload, ForgetHub, EmptyBucket
  <2>2. DiskSound(journal')
    BY <2>1, DiskShrinks DEF JournalInv, Sound
  <2> QED BY <2>1, <2>2 DEF JournalInv
<1>9. ASSUME PublishRejected \/ FinalizeRun \/ JournalState PROVE JournalInv'
  BY <1>3, <1>9 DEF PublishRejected, FinalizeRun, JournalState, hubVars, diskVars
<1>10. ASSUME NEW s \in Clients, PumpStep(s) \/ ClientRead(s) \/ ClientCancel(s) PROVE JournalInv'
  BY <1>3, <1>10
  DEF PumpStep, PumpReplay, PumpReceive, PumpSend, PumpStop, PumpExit, ClientRead, ClientCancel,
      hubVars, diskVars
<1>11. ASSUME UNCHANGED vars PROVE JournalInv'
  BY <1>3, <1>11 DEF vars, hubVars, diskVars
<1> QED
  BY <1>1, <1>2, <1>4, <1>5, <1>6, <1>7, <1>8, <1>9, <1>10, <1>11
  DEF Next, teeRunCallbacks, ClientStep

(* A journal an earlier build left is sound to start from.                 *)
LEMMA JournalInvInit == Init => JournalInv
<1> SUFFICES ASSUME Init PROVE JournalInv
  OBVIOUS
<1>1. /\ hub = "none" /\ journal \in OldJournals \cup {{}} /\ swallowed = {}
      /\ \A t \in DeltaTypes : deltaBuf[t].parts = {}
  BY DEF Init, EmptyBucket
<1>2. DiskSound(journal)
  BY <1>1, OldJournalAssumption DEF DiskSound, SeqUnique, DecodedEvents
<1> QED BY <1>1, <1>2 DEF JournalInv

(* Journal and windows together never repeat a cursor, and the hub that is *)
(* open is ahead of both: the inductive invariant behind the two theorems  *)
(* that follow.                                                            *)
THEOREM JournalInvariance == Spec => []JournalInv
<1>1. TypeOK /\ JournalInv /\ [Next]_vars => JournalInv'
  BY JournalInvStep
<1> QED BY <1>1, TypeCorrect, JournalInvInit, PTL DEF Spec

(* No two readable events share a cursor: crashes, burned cursors, failed  *)
(* appends, torn lines and session reloads included.                       *)
THEOREM CursorsAreUnique == Spec => []JournalSeqUnique
<1>1. JournalInv => JournalSeqUnique
  <2> SUFFICES ASSUME JournalInv PROVE JournalSeqUnique
    OBVIOUS
  <2>1. JournalEvents = DecodedEvents(journal) /\ BufferedEvents = WindowEvents(deltaBuf)
    BY DEF JournalEvents, DecodedEvents, BufferedEvents, WindowEvents
  <2>2. hub = "none" => WindowEvents(deltaBuf) = {}
    BY DEF JournalInv, WindowEvents
  <2> QED BY <2>1, <2>2 DEF JournalInv, Sound, DiskSound, SeqUnique, JournalSeqUnique
<1> QED BY <1>1, JournalInvariance, PTL

(* Every batch the hub writes passes the structural check at replay.       *)
THEOREM BatchesDecode == Spec => []OwnBatchesDecode
<1>1. JournalInv => OwnBatchesDecode
  BY DEF JournalInv, Sound, DiskSound, OwnBatchesDecode
<1> QED BY <1>1, JournalInvariance, PTL

-----------------------------------------------------------------------------
(* What each client receives is strictly ascending.  Cursor, channel, the  *)
(* event in the pump's hand and the replay set follow each other; live     *)
(* events are beyond the watermark, which was at or beyond the cursor when *)
(* the client subscribed.                                                  *)
ClientInv(s) ==
    /\ \A i \in DOMAIN ch[s] : cursor[s] < ch[s][i].seq /\ ch[s][i].seq <= lastSeq[s]
    /\ \A i, j \in DOMAIN ch[s] : i < j => ch[s][i].seq < ch[s][j].seq
    /\ \A e \in replay[s] : cursor[s] < e.seq /\ lastSeq[s] < e.seq
    /\ SeqUnique(replay[s])
    /\ pump[s] # "off" => cursor[s] <= watermark[s] \/ cursor[s] <= lastSeq[s]
    /\ \A i \in DOMAIN live[s] : watermark[s] < live[s][i].seq
    /\ \A e \in hand[s] : pump[s] = "send" => watermark[s] < e.seq /\ lastSeq[s] < e.seq
    /\ pump[s] = "send" => replay[s] = {}

AscendingInv == \A s \in Clients : ClientInv(s)

(* The types of one client's part of the state.                            *)
LEMMA ClientTypesOf ==
    ASSUME TypeOK, NEW s \in Clients
    PROVE  /\ ch[s] \in Seq(Event) /\ live[s] \in Seq(Event)
           /\ replay[s] \in SUBSET Event /\ hand[s] \in SUBSET Event
           /\ cursor[s] \in Nat /\ lastSeq[s] \in Nat /\ watermark[s] \in Nat
           /\ \A i \in DOMAIN ch[s] : ch[s][i] \in Event /\ ch[s][i].seq \in Nat
           /\ \A i \in DOMAIN live[s] : live[s][i] \in Event /\ live[s][i].seq \in Nat
           /\ \A e \in replay[s] \cup hand[s] : e.seq \in Nat
  BY RecordTypes DEF TypeOK, SubTypes, ClientTypes

(* The state of a client that a step does not touch.                       *)
Untouched(s) ==
    /\ ch'[s] = ch[s] /\ cursor'[s] = cursor[s] /\ lastSeq'[s] = lastSeq[s]
    /\ replay'[s] = replay[s] /\ pump'[s] = pump[s] /\ watermark'[s] = watermark[s]
    /\ hand'[s] = hand[s]

(* A step that leaves a client alone keeps its invariant.                  *)
LEMMA UntouchedKeeps ==
    ASSUME NEW s \in Clients, ClientInv(s), Untouched(s),
           \A i \in DOMAIN live'[s] : watermark[s] < live'[s][i].seq
    PROVE  ClientInv(s)'
  BY DEF ClientInv, Untouched, SeqUnique

(* fanOutLocked delivers behind the watermark only.                        *)
LEMMA FanOutKeeps ==
    ASSUME TypeOK, AscendingInv, NEW e \in Event, FanOut(e),
           UNCHANGED <<pump, watermark, replay, hand, lastSeq, ch, cursor>>
    PROVE  AscendingInv'
<1> SUFFICES ASSUME NEW s \in Clients PROVE ClientInv(s)'
  BY DEF AscendingInv
<1>1. live'[s] = live[s] \/ (live'[s] = Append(live[s], e) /\ watermark[s] < e.seq)
  <2>1. e.seq \in Nat /\ watermark[s] \in Nat
    BY RecordTypes, ClientTypesOf
  <2> QED BY <2>1 DEF FanOut
<1>2. \A i \in DOMAIN live'[s] : watermark[s] < live'[s][i].seq
  <2>1. \A i \in DOMAIN live[s] : watermark[s] < live[s][i].seq
    BY DEF AscendingInv, ClientInv
  <2>2. live[s] \in Seq(Event)
    BY ClientTypesOf
  <2> QED BY <1>1, <2>1, <2>2
<1>3. Untouched(s)
  BY DEF Untouched
<1> QED BY <1>2, <1>3, UntouchedKeeps DEF AscendingInv

(* Phase one sends the snapshot in order, ahead of everything live.        *)
LEMMA PumpReplayKeeps ==
    ASSUME TypeOK, NEW s \in Clients, ClientInv(s), PumpReplay(s) PROVE ClientInv(s)'
<1>1. PICK e \in replay[s] :
         /\ \A f \in replay[s] : e.seq <= f.seq
         /\ ch' = [ch EXCEPT ![s] = Append(@, e)]
         /\ replay' = [replay EXCEPT ![s] = @ \ {e}]
         /\ lastSeq' = [lastSeq EXCEPT ![s] = e.seq]
  BY DEF PumpReplay
<1>2. /\ ch'[s] = Append(ch[s], e) /\ replay'[s] = replay[s] \ {e} /\ lastSeq'[s] = e.seq
      /\ pump[s] = "run" /\ UNCHANGED <<pump, watermark, live, hand, cursor>>
  BY <1>1 DEF PumpReplay, TypeOK, SubTypes, clientVars
<1>3. /\ \A f \in replay'[s] : e.seq < f.seq
      /\ cursor[s] < e.seq /\ lastSeq[s] < e.seq
  BY <1>1, <1>2, ClientTypesOf DEF ClientInv, SeqUnique
<1>4. /\ \A i \in DOMAIN ch'[s] : cursor[s] < ch'[s][i].seq /\ ch'[s][i].seq <= e.seq
      /\ \A i, j \in DOMAIN ch'[s] : i < j => ch'[s][i].seq < ch'[s][j].seq
  <2>1. \A i \in DOMAIN ch[s] : cursor[s] < ch[s][i].seq /\ ch[s][i].seq < e.seq
    BY <1>3, ClientTypesOf DEF ClientInv
  <2>2. \A i, j \in DOMAIN ch[s] : i < j => ch[s][i].seq < ch[s][j].seq
    BY DEF ClientInv
  <2>3. ch[s] \in Seq(Event) /\ e.seq \in Nat
    BY <1>1, ClientTypesOf
  <2> QED BY <1>2, <1>3, <2>1, <2>2, <2>3, ClientTypesOf
<1> QED BY <1>2, <1>3, <1>4, ClientTypesOf DEF ClientInv, SeqUnique

(* What phase two takes off sub.live is beyond what was sent, or skipped.  *)
LEMMA PumpReceiveKeeps ==
    ASSUME TypeOK, NEW s \in Clients, ClientInv(s), PumpReceive(s) PROVE ClientInv(s)'
<1>1. /\ live[s] # <<>> /\ live'[s] = Tail(live[s]) /\ replay[s] = {} /\ pump[s] = "run"
      /\ UNCHANGED <<watermark, replay, lastSeq, ch, cursor>>
      /\ \/ hand'[s] = hand[s] /\ pump'[s] = pump[s]
         \/ ~(Head(live[s]).seq <= lastSeq[s]) /\ hand'[s] = {Head(live[s])} /\ pump'[s] = "send"
  BY DEF PumpReceive, TypeOK, SubTypes, clientVars
<1>2. live[s] \in Seq(Event) /\ \A i \in DOMAIN live[s] : watermark[s] < live[s][i].seq
  BY ClientTypesOf DEF ClientInv
<1>3. Head(live[s]) = live[s][1] /\ 1 \in DOMAIN live[s]
  BY <1>1, <1>2
<1>4. \A i \in DOMAIN live'[s] : watermark[s] < live'[s][i].seq
  BY <1>1, <1>2
<1>5. \A e \in hand'[s] : pump'[s] = "send" => watermark[s] < e.seq /\ lastSeq[s] < e.seq
  BY <1>1, <1>2, <1>3, ClientTypesOf DEF ClientInv
<1> QED BY <1>1, <1>4, <1>5 DEF ClientInv

(* The event in hand goes behind everything in the channel.                *)
LEMMA PumpSendKeeps ==
    ASSUME TypeOK, NEW s \in Clients, ClientInv(s), PumpSend(s) PROVE ClientInv(s)'
<1>1. PICK e \in hand[s] :
         /\ ch' = [ch EXCEPT ![s] = Append(@, e)]
         /\ lastSeq' = [lastSeq EXCEPT ![s] = e.seq]
  BY DEF PumpSend
<1>2. /\ ch'[s] = Append(ch[s], e) /\ lastSeq'[s] = e.seq /\ pump[s] = "send"
      /\ hand'[s] = {} /\ UNCHANGED <<watermark, replay, live, cursor>>
  BY <1>1 DEF PumpSend, TypeOK, SubTypes, clientVars
<1>3. lastSeq[s] < e.seq /\ watermark[s] < e.seq /\ cursor[s] < e.seq /\ replay[s] = {}
  BY <1>2, ClientTypesOf DEF ClientInv
<1>4. /\ \A i \in DOMAIN ch'[s] : cursor[s] < ch'[s][i].seq /\ ch'[s][i].seq <= e.seq
      /\ \A i, j \in DOMAIN ch'[s] : i < j => ch'[s][i].seq < ch'[s][j].seq
  <2>1. \A i \in DOMAIN ch[s] : cursor[s] < ch[s][i].seq /\ ch[s][i].seq < e.seq
    BY <1>3, ClientTypesOf DEF ClientInv
  <2>2. \A i, j \in DOMAIN ch[s] : i < j => ch[s][i].seq < ch[s][j].seq
    BY DEF ClientInv
  <2>3. ch[s] \in Seq(Event) /\ e.seq \in Nat
    BY <1>1, ClientTypesOf
  <2> QED BY <1>2, <1>3, <2>1, <2>2, <2>3, ClientTypesOf
<1> QED BY <1>2, <1>3, <1>4, ClientTypesOf DEF ClientInv, SeqUnique

(* Reading moves the cursor to an event that everything left is beyond.    *)
LEMMA ClientReadKeeps ==
    ASSUME TypeOK, NEW s \in Clients, ClientInv(s), ClientRead(s) PROVE ClientInv(s)'
<1>1. /\ ch[s] # <<>> /\ ch'[s] = Tail(ch[s]) /\ cursor'[s] = Head(ch[s]).seq
      /\ UNCHANGED <<pump, watermark, replay, live, hand, lastSeq>>
  BY DEF ClientRead, TypeOK, SubTypes, ClientTypes
<1>2. ch[s] \in Seq(Event) /\ Head(ch[s]) = ch[s][1] /\ 1 \in DOMAIN ch[s]
  BY <1>1, ClientTypesOf
<1>3. cursor'[s] <= lastSeq[s]
  BY <1>1, <1>2 DEF ClientInv
<1>4. \A i \in DOMAIN ch'[s] : i + 1 \in DOMAIN ch[s] /\ ch'[s][i] = ch[s][i + 1] /\ 1 < i + 1
  BY <1>1, <1>2
<1>5. /\ \A i \in DOMAIN ch'[s] : cursor'[s] < ch'[s][i].seq /\ ch'[s][i].seq <= lastSeq[s]
      /\ \A i, j \in DOMAIN ch'[s] : i < j => ch'[s][i].seq < ch'[s][j].seq
  <2>1. DOMAIN ch'[s] \subseteq Nat
    BY <1>1, <1>2
  <2> QED BY <1>1, <1>2, <1>4, <2>1 DEF ClientInv
<1>6. \A e \in replay[s] : cursor'[s] < e.seq
  <2>1. cursor'[s] \in Nat
    BY <1>1, <1>2, ClientTypesOf
  <2> QED BY <1>3, <2>1, ClientTypesOf DEF ClientInv
<1> QED BY <1>1, <1>3, <1>5, <1>6 DEF ClientInv

(* A new subscription starts beyond the cursor with an empty live buffer.  *)
LEMMA SubscribeKeeps ==
    ASSUME TypeOK, TypeOK', JournalInv', NEW s \in Clients, Subscribe(s) PROVE ClientInv(s)'
<1>1. /\ ch'[s] = <<>> /\ live'[s] = <<>> /\ lastSeq'[s] = 0 /\ watermark'[s] = latest
      /\ pump'[s] = "run" /\ UNCHANGED cursor /\ hub' = "open"
      /\ replay'[s] = Expand(ReadEvents(journal', cursor[s]), cursor[s])
  BY DEF Subscribe, Subscribable, TypeOK, SubTypes, clientVars
<1>2. cursor[s] <= latest
  <2>1. ~(cursor[s] > latest)
    BY DEF Subscribe, Subscribable, CursorExpired
  <2> QED BY <2>1, ClientTypesOf DEF TypeOK, HubTypes
<1>3. replay'[s] \subseteq DecodedEvents(journal')
  BY <1>1 DEF Expand, ReadEvents, DecodedEvents
<1>4. SeqUnique(replay'[s])
  BY <1>1, <1>3 DEF JournalInv, Sound, DiskSound, SeqUnique
<1>5. \A e \in replay'[s] : cursor[s] < e.seq /\ 0 < e.seq
  <2>1. \A e \in replay'[s] : e.seq \in Nat /\ e.seq > cursor[s]
    BY <1>1, RecordTypes DEF Expand, TypeOK, SubTypes
  <2> QED BY <2>1, ClientTypesOf
<1> QED BY <1>1, <1>2, <1>4, <1>5 DEF ClientInv

(* Every step keeps the order of every client's stream.                    *)
LEMMA AscendingStep ==
    TypeOK /\ TypeOK' /\ JournalInv' /\ AscendingInv /\ [Next]_vars => AscendingInv'
<1> SUFFICES ASSUME TypeOK, TypeOK', JournalInv', AscendingInv, [Next]_vars PROVE AscendingInv'
  OBVIOUS
<1>1. ASSUME UNCHANGED <<pump, watermark, replay, hand, lastSeq, ch, cursor, live>>
      PROVE  AscendingInv'
  BY <1>1 DEF AscendingInv, ClientInv, SeqUnique
<1>2. ASSUME NewEventHub \/ BeginRun \/ PublishRejected \/ FlushDeltaOnTimer \/ EndRun
                \/ JournalState \/ FinalizeRun \/ DeferredEndRun \/ CloseEvents
      PROVE  AscendingInv'
  BY <1>1, <1>2
  DEF NewEventHub, BeginRun, PublishRejected, FlushDeltaOnTimer, EndRun, JournalState, FinalizeRun,
      DeferredEndRun, CloseEvents, subVars, clientVars
<1>3. ASSUME PublishKey PROVE AscendingInv'
  <2> DEFINE e == [seq |-> seq, type |-> KeyEvent, run |-> run, epoch |-> epoch]
  <2>1. e \in Event
    BY DEF TypeOK, HubTypes, DriverTypes, BoundTypes, Event, EventTypes
  <2>2. /\ UNCHANGED <<pump, watermark, replay, hand, lastSeq, ch, cursor>>
        /\ UNCHANGED live \/ FanOut(e)
    BY <1>3 DEF PublishKey, clientVars
  <2> HIDE DEF e
  <2> QED BY <1>1, <2>1, <2>2, FanOutKeeps
<1>4. ASSUME NEW t \in DeltaTypes, PublishDelta(t) PROVE AscendingInv'
  <2> DEFINE e == [seq |-> seq, type |-> t, run |-> run, epoch |-> epoch]
  <2>1. e \in Event
    BY DEF TypeOK, HubTypes, DriverTypes, BoundTypes, Event, EventTypes
  <2>2. UNCHANGED <<pump, watermark, replay, hand, lastSeq, ch, cursor>> /\ FanOut(e)
    BY <1>4 DEF PublishDelta, clientVars
  <2> HIDE DEF e
  <2> QED BY <2>1, <2>2, FanOutKeeps
<1>5. ASSUME NEW s \in Clients, PumpStep(s) \/ ClientStep(s) PROVE AscendingInv'
  <2>1. ClientInv(s)'
    <3>1. CASE PumpReplay(s) \/ PumpReceive(s) \/ PumpSend(s) \/ ClientRead(s) \/ Subscribe(s)
      BY <3>1, PumpReplayKeeps, PumpReceiveKeeps, PumpSendKeeps, ClientReadKeeps, SubscribeKeeps
      DEF AscendingInv
    <3>2. CASE PumpStop(s)
      BY <3>2 DEF PumpStop, AscendingInv, ClientInv, SeqUnique, TypeOK, SubTypes, clientVars
    <3>3. CASE PumpExit(s)
      BY <3>3 DEF PumpExit, AscendingInv, ClientInv, SeqUnique, TypeOK, SubTypes, clientVars
    <3>4. CASE ClientCancel(s) \/ SubscribeReadError(s)
      BY <1>1, <3>4 DEF ClientCancel, SubscribeReadError, AscendingInv, subVars, clientVars
    <3> QED BY <1>5, <3>1, <3>2, <3>3, <3>4 DEF PumpStep, ClientStep
  <2>2. ASSUME NEW q \in Clients \ {s} PROVE ClientInv(q)'
    <3>1. Untouched(q) /\ live'[q] = live[q]
      <4>1. CASE PumpStep(s)
        <5>1. CASE PumpReceive(s)
          BY <5>1 DEF PumpReceive, Untouched, TypeOK, SubTypes, clientVars
        <5>2. CASE PumpReplay(s) \/ PumpSend(s)
          BY <5>2 DEF PumpReplay, PumpSend, Untouched, TypeOK, SubTypes, clientVars
        <5>3. CASE PumpStop(s) \/ PumpExit(s)
          BY <5>3 DEF PumpStop, PumpExit, Untouched, TypeOK, SubTypes, clientVars
        <5> QED BY <4>1, <5>1, <5>2, <5>3 DEF PumpStep
      <4>2. CASE ClientStep(s)
        <5>1. CASE Subscribe(s)
          <6>1. PICK r : replay' = [replay EXCEPT ![s] = r]
            BY <5>1 DEF Subscribe
          <6>2. /\ pump' = [pump EXCEPT ![s] = "run"]
                /\ watermark' = [watermark EXCEPT ![s] = latest]
                /\ live' = [live EXCEPT ![s] = <<>>]
                /\ lastSeq' = [lastSeq EXCEPT ![s] = 0]
                /\ ch' = [ch EXCEPT ![s] = <<>>]
                /\ hand' = hand
                /\ cursor' = cursor
            BY <5>1 DEF Subscribe, clientVars
          <6> QED BY <6>1, <6>2 DEF Untouched, TypeOK, SubTypes
        <5>2. CASE SubscribeReadError(s)
          BY <5>2 DEF SubscribeReadError, Untouched, TypeOK, SubTypes, subVars, clientVars
        <5>3. CASE ClientRead(s)
          BY <5>3 DEF ClientRead, Untouched, TypeOK, SubTypes, ClientTypes
        <5>4. CASE ClientCancel(s)
          BY <5>4 DEF ClientCancel, Untouched, TypeOK, SubTypes, clientVars
        <5> QED BY <4>2, <5>1, <5>2, <5>3, <5>4 DEF ClientStep
      <4> QED BY <1>5, <4>1, <4>2
    <3>2. \A i \in DOMAIN live'[q] : watermark[q] < live'[q][i].seq
      BY <3>1 DEF AscendingInv, ClientInv
    <3> QED BY <3>1, <3>2, UntouchedKeeps DEF AscendingInv
  <2> QED BY <2>1, <2>2 DEF AscendingInv
<1>6. ASSUME Crash \/ Reload PROVE AscendingInv'
  <2> SUFFICES ASSUME NEW s \in Clients PROVE ClientInv(s)'
    BY DEF AscendingInv
  <2>1. /\ ch'[s] = <<>> /\ live'[s] = <<>> /\ replay'[s] = {} /\ hand'[s] = {}
        /\ pump'[s] = "off"
    BY <1>6 DEF Crash, Reload, ForgetHub
  <2> QED BY <2>1 DEF ClientInv, SeqUnique
<1>7. ASSUME UNCHANGED vars PROVE AscendingInv'
  BY <1>1, <1>7 DEF vars, subVars, clientVars
<1> QED BY <1>2, <1>3, <1>4, <1>5, <1>6, <1>7 DEF Next, teeRunCallbacks

(* Nothing is in flight initially.                                         *)
LEMMA AscendingInit == Init => AscendingInv
<1> SUFFICES ASSUME Init, NEW s \in Clients PROVE ClientInv(s)
  BY DEF AscendingInv
<1>1. ch[s] = <<>> /\ live[s] = <<>> /\ replay[s] = {} /\ hand[s] = {} /\ pump[s] = "off"
  BY DEF Init
<1> QED BY <1>1 DEF ClientInv, SeqUnique

(* No client ever receives a cursor twice or out of order: not across      *)
(* replay and live delivery, resubscription, crashes, failed appends or    *)
(* undecodable lines.                                                      *)
THEOREM StreamsAscend == Spec => []StrictlyAscending
<1>1. TypeOK /\ TypeOK' /\ JournalInv' /\ AscendingInv /\ [Next]_vars => AscendingInv'
  BY AscendingStep
<1>2. TypeOK /\ AscendingInv => StrictlyAscending
  <2> SUFFICES ASSUME TypeOK, AscendingInv, NEW s \in Clients
               PROVE  /\ ch[s] # <<>> => Head(ch[s]).seq > cursor[s]
                      /\ \A i, j \in DOMAIN ch[s] : i < j => ch[s][i].seq < ch[s][j].seq
    BY DEF StrictlyAscending
  <2>1. ch[s] # <<>> => Head(ch[s]) = ch[s][1] /\ 1 \in DOMAIN ch[s]
    BY ClientTypesOf
  <2> QED BY <2>1, ClientTypesOf DEF AscendingInv, ClientInv
<1> QED BY <1>1, <1>2, TypeCorrect, JournalInvariance, AscendingInit, PTL DEF Spec

-----------------------------------------------------------------------------
(* Losses are marked.                                                      *)

(* What was written: it can be replayed, or was glued to an unfinished     *)
(* line.                                                                   *)
Durable == DecodedEvents(journal) \cup swallowed

(* And what the pending flush will write.                                  *)
Kept == Durable \cup WindowEvents(deltaBuf)

(* A history without faults, or one that is not marked incomplete.         *)
Clean == faults = 0 \/ integrity # "incomplete"

(* A line is unfinished, and another lost behind it, only after a fault,   *)
(* and a hub that admits no loss leaves at most the half line of a state   *)
(* record.                                                                 *)
LinesInv ==
    /\ torn # {} \/ swallowed # {} => faults > 0
    /\ integrity # "incomplete" => torn \subseteq {HalfLine}

(* Windows are open only while the run they belong to is: so every flush   *)
(* finds the file open.                                                    *)
WindowInv ==
    /\ \A t \in DeltaTypes :
         deltaBuf[t].parts # {} => hub = "open" /\ phase = "running" /\ deltaBuf[t].run = run
    /\ LinesInv
    /\ hub = "none" => phase = "idle" /\ torn = {}

(* What an append to open files does: an error is a fault, and without one *)
(* the events are written, readably unless a line was unfinished.          *)
Outcome(recs, err) ==
    /\ ~err => faults' = faults /\ torn' \subseteq torn
    /\ err => faults' = faults + 1
    /\ ~err /\ torn \subseteq {HalfLine} /\ (\A rec \in recs : Decodes(rec)) =>
         Durable' = Durable \cup UNION {rec.parts : rec \in recs}
    /\ ~err /\ torn = {} => journal' = journal \cup recs /\ swallowed' = swallowed

(* A half line that is glued to a record takes no event of its own along.  *)
LEMMA LinesDurable ==
    ASSUME NEW recs, AppendLines(recs), torn \subseteq {HalfLine}, \A rec \in recs : Decodes(rec)
    PROVE  Durable' = Durable \cup UNION {rec.parts : rec \in recs}
<1>0. \A rec \in torn : rec.parts = {}
  BY HalfLineType
<1>1. CASE recs = {} \/ torn = {}
  <2>1. journal' = journal \cup recs /\ swallowed' = swallowed
    BY <1>1 DEF AppendLines
  <2> QED BY <2>1 DEF Durable, DecodedEvents
<1>2. CASE ~(recs = {} \/ torn = {})
  <2>1. PICK glued \in recs : /\ journal' = (journal \ torn) \cup (recs \ {glued})
                             /\ swallowed' = swallowed \cup glued.parts
    BY <1>2 DEF AppendLines
  <2>2. ASSUME NEW e \in Durable' PROVE e \in Durable \cup UNION {rec.parts : rec \in recs}
    BY <2>1, <2>2 DEF Durable, DecodedEvents
  <2>3. ASSUME NEW e \in Durable PROVE e \in Durable'
    <3>1. CASE e \in swallowed
      BY <2>1, <3>1 DEF Durable
    <3>2. CASE e \in DecodedEvents(journal)
      <4>1. PICK rec \in journal : Decodes(rec) /\ e \in rec.parts
        BY <3>2 DEF DecodedEvents
      <4>2. rec \in journal'
        BY <1>0, <2>1, <4>1
      <4> QED BY <4>1, <4>2 DEF Durable, DecodedEvents
    <3> QED BY <2>3, <3>1, <3>2 DEF Durable
  <2>4. ASSUME NEW rec \in recs, NEW e \in rec.parts PROVE e \in Durable'
    <3>1. CASE rec = glued
      BY <2>1, <2>4, <3>1 DEF Durable
    <3>2. CASE rec # glued
      <4>1. rec \in journal' /\ Decodes(rec)
        BY <2>1, <3>2
      <4> QED BY <2>4, <4>1 DEF Durable, DecodedEvents
    <3> QED BY <3>1, <3>2
  <2> QED BY <2>2, <2>3, <2>4
<1> QED BY <1>1, <1>2

(* An append to open files.                                                *)
LEMMA AppendOutcome ==
    ASSUME NEW recs, NEW err \in BOOLEAN, AppendEvents(recs, err), faults \in Nat,
           \A rec \in recs : HandleOpen(rec.run)
    PROVE  Outcome(recs, err)
<1>1. CASE err
  BY <1>1 DEF AppendEvents, Outcome
<1>2. CASE ~err
  <2>1. AppendLines(recs) /\ faults' = faults
    BY <1>2 DEF AppendEvents
  <2>2. torn' \subseteq torn /\ (torn = {} => journal' = journal \cup recs /\ swallowed' = swallowed)
    BY <2>1 DEF AppendLines
  <2>3. torn \subseteq {HalfLine} /\ (\A rec \in recs : Decodes(rec)) =>
          Durable' = Durable \cup UNION {rec.parts : rec \in recs}
    BY <2>1, LinesDurable
  <2> QED BY <1>2, <2>1, <2>2, <2>3 DEF Outcome
<1> QED BY <1>1, <1>2

(* So it is with a flush of the windows.                                   *)
LEMMA FlushOutcome ==
    ASSUME TypeOK, WindowInv, NEW err \in BOOLEAN, FlushAllDelta(err)
    PROVE  Outcome(Batches(deltaBuf, DeltaTypes), err)
<1>1. AppendEvents(Batches(deltaBuf, DeltaTypes), err)
  BY DEF FlushAllDelta, FlushDeltaTypes, Batches
<1>2. \A rec \in Batches(deltaBuf, DeltaTypes) : HandleOpen(rec.run)
  BY DEF WindowInv, Batches, BatchRecord, HandleOpen
<1> QED BY <1>1, <1>2, AppendOutcome DEF TypeOK, BoundTypes

(* And with the window a delta fills.                                      *)
LEMMA FullOutcome ==
    ASSUME TypeOK, WindowInv, NEW t \in DeltaTypes, NEW e \in Event, e.type = t, e.run = run,
           phase = "running", NEW err \in BOOLEAN,
           FlushDeltaTypes([deltaBuf EXCEPT ![t] = Buffered(e)], {t}, err)
    PROVE  Outcome(Batches([deltaBuf EXCEPT ![t] = Buffered(e)], {t}), err)
<1> DEFINE buf == [deltaBuf EXCEPT ![t] = Buffered(e)]
<1>1. AppendEvents(Batches(buf, {t}), err)
  BY DEF FlushDeltaTypes, Batches
<1>2. buf[t].run = run
  BY DEF TypeOK, HubTypes, Buffered, WindowInv, Bucket
<1> HIDE DEF buf
<1>3. \A rec \in Batches(buf, {t}) : HandleOpen(rec.run)
  BY <1>2 DEF Batches, BatchRecord, HandleOpen
<1>4. Outcome(Batches(buf, {t}), err)
  BY <1>1, <1>3, AppendOutcome DEF TypeOK, BoundTypes
<1> QED BY <1>4 DEF buf

(* The marks after an append whose error the hub notes.                    *)
LEMMA OutcomeMarks ==
    ASSUME TypeOK, LinesInv, NEW recs, NEW err \in BOOLEAN, Outcome(recs, err),
           integrity' = AfterAppend(err) \/ integrity' = "incomplete"
    PROVE  /\ LinesInv'
           /\ Clean' => ~err /\ torn \subseteq {HalfLine}
           /\ faults' = 0 => ~err /\ torn = {}
<1>0. faults \in Nat
  BY DEF TypeOK, BoundTypes
<1>1. CASE err
  <2>1. integrity' = "incomplete" /\ faults' = faults + 1
    BY <1>1 DEF Outcome, AfterAppend
  <2> QED BY <1>0, <2>1 DEF LinesInv, Clean
<1>2. CASE ~err
  <2>1. /\ faults' = faults /\ torn' \subseteq torn
        /\ integrity' # "incomplete" => integrity' = integrity
        /\ torn = {} => swallowed' = swallowed
    BY <1>2 DEF Outcome, AfterAppend
  <2>2. faults = 0 => torn = {} /\ swallowed = {}
    BY <1>0 DEF LinesInv
  <2>3. LinesInv'
    BY <1>0, <2>1, <2>2 DEF LinesInv
  <2>4. Clean' => torn \subseteq {HalfLine}
    BY <2>1, <2>2 DEF LinesInv, Clean
  <2> QED BY <1>2, <2>1, <2>2, <2>3, <2>4
<1> QED BY <1>1, <1>2

(* Writing windows moves their events to the files.                        *)
LEMMA FlushKeeps ==
    ASSUME NEW buf, NEW T \in SUBSET DeltaTypes,
           Durable' = Durable \cup UNION {rec.parts : rec \in Batches(buf, T)},
           \A t \in T : deltaBuf'[t].parts = {},
           \A t \in DeltaTypes \ T : deltaBuf'[t] = buf[t]
    PROVE  Kept' = Durable \cup WindowEvents(buf)
<1> DEFINE written == UNION {rec.parts : rec \in Batches(buf, T)}
<1>1. written \subseteq WindowEvents(buf)
  BY DEF Batches, BatchRecord, WindowEvents
<1>2. WindowEvents(deltaBuf') \subseteq WindowEvents(buf)
  BY DEF WindowEvents
<1>3. ASSUME NEW e \in WindowEvents(buf) PROVE e \in written \cup WindowEvents(deltaBuf')
  <2>1. PICK t \in DeltaTypes : e \in buf[t].parts
    BY <1>3 DEF WindowEvents
  <2>2. CASE t \in T
    <3>1. BatchRecord(buf[t]) \in Batches(buf, T)
      BY <2>1, <2>2 DEF Batches
    <3>2. e \in BatchRecord(buf[t]).parts
      BY <2>1 DEF BatchRecord
    <3> QED BY <3>1, <3>2
  <2>3. CASE t \notin T
    BY <2>1, <2>3 DEF WindowEvents
  <2> QED BY <2>2, <2>3
<1> HIDE DEF written
<1>4. Durable' = Durable \cup written
  BY DEF written
<1> QED BY <1>1, <1>2, <1>3, <1>4 DEF Kept

(* The steps that flush, and what they do to the rest of the hub.          *)
FlushStep ==
    /\ hub = "open" /\ hub' \in {"open", "closed"}
    /\ UNCHANGED <<seq, earliest, latest, epoch, crashes, broadcast>>
    /\ \E err \in BOOLEAN : /\ FlushAllDelta(err)
                            /\ \/ integrity' = AfterAppend(err)
                               \/ integrity' = "incomplete" /\ Degraded(journal')

(* The steps that leave the windows alone, and the files but for a state   *)
(* record.                                                                 *)
QuietStep ==
    /\ UNCHANGED <<hub, seq, earliest, latest, integrity, deltaBuf, swallowed, epoch, crashes,
                   broadcast>>
    /\ journal' = journal \/ journal' = journal \ torn
    /\ faults' = faults \/ faults' = faults + 1
    /\ torn' \subseteq torn \/ (torn' = {HalfLine} /\ faults' = faults + 1)
    /\ phase = "idle" => phase' = "idle" /\ UNCHANGED <<journal, torn, faults>>
    /\ hub = "open" /\ phase = "running" => UNCHANGED <<run, phase>>

(* The steps of a hub, by what they do to the files and the windows.       *)
LEMMA StepKinds ==
    ASSUME [Next]_vars, TypeOK
    PROVE  \/ NewEventHub \/ Crash \/ Reload
           \/ PublishKey \/ \E t \in DeltaTypes : PublishDelta(t)
           \/ FlushStep \/ QuietStep
<1>1. ASSUME BeginRun \/ FlushDeltaOnTimer \/ CloseEvents PROVE FlushStep
  BY <1>1 DEF BeginRun, FlushDeltaOnTimer, CloseEvents, FlushStep
<1>2. ASSUME EndRun \/ DeferredEndRun PROVE FlushStep \/ QuietStep
  <2>1. UNCHANGED <<hub, seq, earliest, latest, epoch, crashes, broadcast>> /\ HubEndRun
    BY <1>2 DEF EndRun, DeferredEndRun
  <2>2. CASE hub = "open"
    BY <2>1, <2>2 DEF HubEndRun, FlushStep
  <2>3. CASE hub # "open"
    BY <1>2, <2>1, <2>3 DEF HubEndRun, QuietStep, EndRun, DeferredEndRun, diskVars
  <2> QED BY <2>2, <2>3
<1>3. ASSUME NEW s \in Clients, Subscribe(s) PROVE FlushStep
  <2>1. PICK err \in BOOLEAN :
           /\ FlushAllDelta(err)
           /\ integrity' = IF Degraded(ReadEvents(journal', cursor[s])) THEN "incomplete"
                                                                    ELSE AfterAppend(err)
    BY <1>3 DEF Subscribe
  <2>2. Degraded(ReadEvents(journal', cursor[s])) => Degraded(journal')
    BY DEF Degraded, ReadEvents
  <2> QED BY <1>3, <2>1, <2>2 DEF Subscribe, Subscribable, FlushStep
<1>4. ASSUME NEW s \in Clients, SubscribeReadError(s) PROVE FlushStep
  BY <1>4 DEF SubscribeReadError, Subscribable, FlushStep
<1>5. ASSUME PublishRejected \/ JournalState \/ FinalizeRun PROVE QuietStep
  <2>1. CASE PublishRejected
    BY <2>1 DEF PublishRejected, QuietStep, hubVars, diskVars, boundVars
  <2>2. CASE JournalState
    BY <2>2 DEF JournalState, QuietStep, hubVars, driverVars
  <2>3. CASE FinalizeRun
    BY <2>3 DEF FinalizeRun, QuietStep, hubVars
  <2> QED BY <1>5, <2>1, <2>2, <2>3
<1>6. ASSUME NEW s \in Clients, PumpStep(s) \/ ClientRead(s) \/ ClientCancel(s) PROVE QuietStep
  BY <1>6
  DEF PumpStep, PumpReplay, PumpReceive, PumpSend, PumpStop, PumpExit, ClientRead, ClientCancel,
      QuietStep, hubVars, diskVars, driverVars, boundVars
<1>7. ASSUME UNCHANGED vars PROVE QuietStep
  BY <1>7 DEF vars, QuietStep, hubVars, diskVars, driverVars, boundVars
<1> QED BY <1>1, <1>2, <1>3, <1>4, <1>5, <1>6, <1>7 DEF Next, teeRunCallbacks, ClientStep

(* A flush leaves no window open, and tells a loss.                        *)
LEMMA FlushStepOutcome ==
    ASSUME TypeOK, WindowInv, JournalInv, FlushStep
    PROVE  /\ \A t \in DeltaTypes : deltaBuf'[t].parts = {}
           /\ LinesInv'
           /\ faults' = faults \/ (faults' = faults + 1 /\ integrity' = "incomplete")
           /\ integrity' # "incomplete" => integrity' = integrity
           /\ integrity' = "incomplete" =>
                 integrity = "incomplete" \/ faults' > 0 \/ Degraded(journal')
           /\ Clean' => Kept' = Kept
           /\ swallowed \subseteq swallowed'
<1>1. PICK err \in BOOLEAN :
         /\ FlushAllDelta(err)
         /\ integrity' = AfterAppend(err) \/ (integrity' = "incomplete" /\ Degraded(journal'))
  BY DEF FlushStep
<1>2. Outcome(Batches(deltaBuf, DeltaTypes), err)
  BY <1>1, FlushOutcome
<1>a. /\ deltaBuf' = [t \in DeltaTypes |-> EmptyBucket]
      /\ swallowed \subseteq swallowed'
  BY <1>1, FlushAllAdds DEF Appended
<1>3. \A t \in DeltaTypes : deltaBuf'[t].parts = {}
  BY <1>a DEF EmptyBucket
<1>4. /\ faults \in Nat /\ integrity' \in {integrity, "incomplete"} /\ (err => integrity' = "incomplete")
      /\ ~err => faults' = faults
      /\ err => faults' = faults + 1
  BY <1>1, <1>2 DEF TypeOK, BoundTypes, AfterAppend, Outcome
<1>b. integrity' = "incomplete" => integrity = "incomplete" \/ faults' > 0 \/ Degraded(journal')
  BY <1>1, <1>4 DEF AfterAppend
<1>5. LinesInv' /\ (Clean' => ~err /\ torn \subseteq {HalfLine})
  BY <1>1, <1>2, OutcomeMarks DEF WindowInv
<1>6. ASSUME Clean' PROVE Kept' = Kept
  <2>1. ~err /\ torn \subseteq {HalfLine}
    BY <1>5, <1>6
  <2>2. hub # "none"
    BY DEF FlushStep
  <2>3. \A rec \in Batches(deltaBuf, DeltaTypes) : Decodes(rec)
    BY <2>2 DEF JournalInv, Sound, Batches
  <2>4. /\ Durable' = Durable \cup UNION {rec.parts : rec \in Batches(deltaBuf, DeltaTypes)}
        /\ \A t \in DeltaTypes \ DeltaTypes : deltaBuf'[t] = deltaBuf[t]
        /\ DeltaTypes \in SUBSET DeltaTypes
    BY <1>2, <2>1, <2>3 DEF Outcome
  <2>5. Kept' = Durable \cup WindowEvents(deltaBuf)
    BY <1>3, <2>4, FlushKeeps
  <2> QED BY <2>5 DEF Kept
<1> QED BY <1>3, <1>4, <1>5, <1>6, <1>a, <1>b

(* The event the hub publishes next.                                       *)
NextEvent(t) == [seq |-> seq, type |-> t, run |-> run, epoch |-> epoch]

(* What a step that appends may do to the marks.                           *)
MarksLoss ==
    /\ faults' = faults \/ (faults' = faults + 1 /\ integrity' = "incomplete")
    /\ integrity' = integrity \/ (integrity' = "incomplete" /\ faults' = faults + 1)

(* An event is broadcast and can be replayed.                              *)
Published(t) ==
    /\ FanOut(NextEvent(t))
    /\ Kept' = Kept \cup {NextEvent(t)}
    /\ latest' = seq

(* The next event has the type of an event.                                *)
LEMMA NextEventType ==
    ASSUME TypeOK, NEW t \in EventTypes
    PROVE  NextEvent(t) \in Event
  BY DEF NextEvent, Event, TypeOK, HubTypes, DriverTypes, BoundTypes

(* A key event is broadcast only when it is on disk, and a loss is marked. *)
LEMMA PublishKeyOutcome ==
    ASSUME TypeOK, WindowInv, PublishKey
    PROVE  /\ WindowInv' /\ MarksLoss
           /\ Clean' => Published(KeyEvent)
<1> DEFINE e   == NextEvent(KeyEvent)
           rec == [from |-> 0, seq |-> seq, payload |-> "event", run |-> run, parts |-> {e}]
<1>1. PICK err \in BOOLEAN :
         /\ AppendEvents({rec}, err)
         /\ integrity' = AfterAppend(err)
         /\ ~err => latest' = seq /\ FanOut(e)
  BY DEF PublishKey, NextEvent
<1>2. /\ hub = "open" /\ hub' = "open" /\ phase \in {"queued", "running"} /\ run' = run
      /\ phase = "running" => phase' = "running"
      /\ deltaBuf' = deltaBuf
  BY DEF PublishKey, LeaveQueue
<1>3. rec.run = run /\ rec.parts = {e} /\ Decodes(rec)
  BY DEF Decodes
<1> HIDE DEF rec, e
<1>4. \A r \in {rec} : HandleOpen(r.run)
  BY <1>2, <1>3 DEF HandleOpen
<1>5. Outcome({rec}, err)
  BY <1>1, <1>4, AppendOutcome DEF TypeOK, BoundTypes
<1>6. MarksLoss
  BY <1>1, <1>5 DEF MarksLoss, AfterAppend, Outcome
<1>7. LinesInv' /\ (Clean' => ~err /\ torn \subseteq {HalfLine})
  BY <1>1, <1>5, OutcomeMarks DEF WindowInv
<1>8. WindowInv'
  BY <1>2, <1>7 DEF WindowInv
<1>9. ASSUME Clean' PROVE Published(KeyEvent)
  <2>1. ~err /\ torn \subseteq {HalfLine}
    BY <1>7, <1>9
  <2>2. \A r \in {rec} : Decodes(r)
    BY <1>3
  <2>3. Durable' = Durable \cup UNION {r.parts : r \in {rec}}
    BY <1>5, <2>1, <2>2 DEF Outcome
  <2>4. Kept' = Kept \cup {e}
    BY <1>2, <1>3, <2>3 DEF Kept
  <2> QED BY <1>1, <2>1, <2>4 DEF Published, e
<1> QED BY <1>6, <1>8, <1>9

(* The windows once the next delta is in its own.                          *)
LEMMA WindowGains ==
    ASSUME TypeOK, NEW t \in DeltaTypes, NEW e \in Event, e.type = t
    PROVE  LET buf == [deltaBuf EXCEPT ![t] = Buffered(e)]
           IN  /\ buf \in [DeltaTypes -> Bucket]
               /\ buf[t].parts = deltaBuf[t].parts \cup {e}
               /\ \A u \in DeltaTypes \ {t} : buf[u] = deltaBuf[u]
               /\ WindowEvents(buf) = WindowEvents(deltaBuf) \cup {e}
<1> DEFINE buf == [deltaBuf EXCEPT ![t] = Buffered(e)]
<1>1. deltaBuf \in [DeltaTypes -> Bucket] /\ e.seq \in Nat /\ e.run \in Nat
  BY DEF TypeOK, HubTypes, Event
<1>2. Buffered(e) \in Bucket /\ Buffered(e).parts = deltaBuf[t].parts \cup {e}
  <2>1. CASE deltaBuf[t].parts = {}
    BY <1>1, <2>1 DEF Buffered, Bucket
  <2>2. CASE deltaBuf[t].parts # {}
    BY <1>1, <2>2 DEF Buffered, Bucket
  <2> QED BY <2>1, <2>2
<1>3. /\ buf \in [DeltaTypes -> Bucket] /\ buf[t] = Buffered(e)
      /\ \A u \in DeltaTypes \ {t} : buf[u] = deltaBuf[u]
  BY <1>1, <1>2
<1> HIDE DEF buf
<1>4. WindowEvents(buf) = WindowEvents(deltaBuf) \cup {e}
  BY <1>2, <1>3 DEF WindowEvents
<1> QED BY <1>2, <1>3, <1>4 DEF buf

(* A delta is broadcast and in its window, or in the file already; when    *)
(* its window is lost, the loss is marked.                                 *)
LEMMA PublishDeltaOutcome ==
    ASSUME TypeOK, WindowInv, JournalInv, NEW t \in DeltaTypes, PublishDelta(t)
    PROVE  /\ WindowInv' /\ MarksLoss
           /\ FanOut(NextEvent(t)) /\ latest' = seq
           /\ Clean' => Published(t)
<1> DEFINE e   == NextEvent(t)
           buf == [deltaBuf EXCEPT ![t] = Buffered(e)]
<1>0. e \in Event /\ e.type = t /\ e.run = run /\ e.seq = seq
  <2>1. t \in EventTypes
    BY DEF EventTypes
  <2> QED BY <2>1, NextEventType DEF NextEvent
<1>1. /\ hub = "open" /\ hub' = "open" /\ phase = "running" /\ phase' = "running" /\ run' = run
      /\ FanOut(e) /\ latest' = seq
      /\ \/ /\ \E err \in BOOLEAN : FlushDeltaTypes(buf, {t}, err) /\ integrity' = AfterAppend(err)
         \/ deltaBuf' = buf /\ UNCHANGED <<integrity, journal, torn, swallowed, faults>>
  BY DEF PublishDelta, NextEvent, driverVars, diskVars
<1>2. /\ buf \in [DeltaTypes -> Bucket]
      /\ buf[t].parts = deltaBuf[t].parts \cup {e}
      /\ \A u \in DeltaTypes \ {t} : buf[u] = deltaBuf[u]
      /\ WindowEvents(buf) = WindowEvents(deltaBuf) \cup {e}
  BY <1>0, WindowGains
<1>3. buf[t].run = run
  BY <1>0 DEF TypeOK, HubTypes, Buffered, WindowInv, Bucket
<1>4. Sound(journal, buf, seq + 1)
  BY <1>0, <1>1, DeltaKeepsSound DEF JournalInv
<1>5. Durable \cup WindowEvents(buf) = Kept \cup {e}
  BY <1>2 DEF Kept
<1>a. CASE \E err \in BOOLEAN : FlushDeltaTypes(buf, {t}, err) /\ integrity' = AfterAppend(err)
  <2>1. PICK err \in BOOLEAN : FlushDeltaTypes(buf, {t}, err) /\ integrity' = AfterAppend(err)
    BY <1>a
  <2>2. Outcome(Batches(buf, {t}), err)
    BY <1>0, <1>1, <2>1, FullOutcome
  <2>3. deltaBuf' = [u \in DeltaTypes |-> IF u \in {t} THEN EmptyBucket ELSE buf[u]]
    BY <2>1 DEF FlushDeltaTypes
  <2> HIDE DEF buf, e
  <2>4. deltaBuf'[t].parts = {} /\ \A u \in DeltaTypes \ {t} : deltaBuf'[u] = buf[u]
    BY <2>3 DEF EmptyBucket
  <2>5. MarksLoss
    BY <2>1, <2>2 DEF MarksLoss, AfterAppend, Outcome
  <2>6. LinesInv' /\ (Clean' => ~err /\ torn \subseteq {HalfLine})
    BY <2>1, <2>2, OutcomeMarks DEF WindowInv
  <2>7. WindowInv'
    BY <1>1, <1>2, <2>4, <2>6 DEF WindowInv
  <2>8. ASSUME Clean' PROVE Kept' = Kept \cup {e}
    <3>1. ~err /\ torn \subseteq {HalfLine}
      BY <2>6, <2>8
    <3>2. \A rec \in Batches(buf, {t}) : Decodes(rec)
      BY <1>4 DEF Sound, Batches
    <3>3. /\ Durable' = Durable \cup UNION {rec.parts : rec \in Batches(buf, {t})}
          /\ {t} \in SUBSET DeltaTypes
          /\ \A u \in {t} : deltaBuf'[u].parts = {}
      BY <2>2, <2>4, <3>1, <3>2 DEF Outcome
    <3>4. Kept' = Durable \cup WindowEvents(buf)
      BY <2>4, <3>3, FlushKeeps
    <3> QED BY <3>4, <1>5
  <2> QED BY <1>1, <2>5, <2>7, <2>8 DEF Published, e
<1>b. CASE deltaBuf' = buf /\ UNCHANGED <<integrity, journal, torn, swallowed, faults>>
  <2> HIDE DEF buf, e
  <2>1. WindowInv'
    BY <1>1, <1>2, <1>3, <1>b DEF WindowInv, LinesInv
  <2>2. Kept' = Kept \cup {e}
    BY <1>5, <1>b DEF Kept, Durable
  <2> QED BY <1>1, <1>b, <2>1, <2>2 DEF Published, MarksLoss, e
<1> QED BY <1>1, <1>a, <1>b

(* A new hub, and what is left when one is forgotten.                      *)
LEMMA HublessOutcome ==
    ASSUME TypeOK, WindowInv, NewEventHub \/ Crash \/ Reload
    PROVE  /\ WindowInv' /\ faults' = faults /\ integrity' # "incomplete"
           /\ journal' = journal \/ (Crash /\ journal' = journal \ torn)
<1>1. CASE NewEventHub
  <2>1. /\ hub = "none" /\ hub' = "open"
        /\ UNCHANGED <<deltaBuf, journal, torn, swallowed, run, phase, faults>>
    BY <1>1 DEF NewEventHub, diskVars, driverVars
  <2>2. integrity' \in {"complete", "unknown"}
    BY <1>1 DEF NewEventHub, SeededIntegrity
  <2>3. \A t \in DeltaTypes : deltaBuf[t].parts = {}
    BY <2>1 DEF WindowInv
  <2>4. torn = {}
    BY <2>1 DEF WindowInv
  <2>5. LinesInv'
    BY <2>1, <2>4 DEF WindowInv, LinesInv
  <2> QED BY <2>1, <2>2, <2>3, <2>4, <2>5 DEF WindowInv
<1>2. CASE Crash \/ Reload
  <2>1. ForgetHub /\ (journal' = journal \/ (Crash /\ journal' = journal \ torn))
    BY <1>2 DEF Crash, Reload
  <2>2. \A t \in DeltaTypes : deltaBuf'[t].parts = {}
    BY <2>1 DEF ForgetHub, EmptyBucket
  <2>3. /\ hub' = "none" /\ phase' = "idle" /\ torn' = {} /\ swallowed' = {}
        /\ integrity' = "unknown" /\ faults' = faults
    BY <2>1 DEF ForgetHub
  <2> QED BY <2>1, <2>2, <2>3 DEF WindowInv, LinesInv
<1> QED BY <1>1, <1>2

(* Every step keeps the windows in their run.                              *)
LEMMA WindowStep == TypeOK /\ JournalInv /\ WindowInv /\ [Next]_vars => WindowInv'
<1> SUFFICES ASSUME TypeOK, JournalInv, WindowInv, [Next]_vars PROVE WindowInv'
  OBVIOUS
<1>1. CASE NewEventHub \/ Crash \/ Reload
  BY <1>1, HublessOutcome
<1>2. CASE PublishKey
  BY <1>2, PublishKeyOutcome
<1>3. ASSUME NEW t \in DeltaTypes, PublishDelta(t) PROVE WindowInv'
  BY <1>3, PublishDeltaOutcome
<1>4. CASE FlushStep
  <2>1. hub' # "none"
    BY <1>4 DEF FlushStep
  <2> QED BY <1>4, <2>1, FlushStepOutcome DEF WindowInv
<1>5. CASE QuietStep
  <2>1. LinesInv'
    <3>1. faults \in Nat
      BY DEF TypeOK, BoundTypes
    <3> QED BY <1>5, <3>1 DEF WindowInv, LinesInv, QuietStep
  <2>2. hub' = "none" => phase' = "idle" /\ torn' = {}
    BY <1>5 DEF WindowInv, QuietStep
  <2> QED BY <1>5, <2>1, <2>2 DEF WindowInv, QuietStep
<1> QED BY <1>1, <1>2, <1>3, <1>4, <1>5, StepKinds

(* The single events of a foreign record cannot be told apart.             *)
Foreign(rec) == rec.payload = "legacy" \/ ~Decodes(rec)

(* What a flush appends decodes.                                           *)
LEMMA BatchesAreOwn ==
    ASSUME NEW jrn, NEW buf, NEW n, Sound(jrn, buf, n), NEW T \in SUBSET DeltaTypes
    PROVE  \A rec \in Batches(buf, T) : ~Foreign(rec)
  BY DEF Sound, Batches, BatchRecord, Foreign

(* The journal grows only by records of the hub's own, and without a fault *)
(* it loses none.                                                          *)
LEMMA JournalGrows ==
    ASSUME TypeOK, JournalInv, WindowInv, [Next]_vars
    PROVE  /\ faults' = 0 => journal \subseteq journal' /\ faults = 0
           /\ \A rec \in journal' \ journal : ~Foreign(rec)
<1>0. faults \in Nat /\ (faults = 0 => torn = {})
  BY DEF TypeOK, BoundTypes, WindowInv, LinesInv
<1>1. CASE NewEventHub \/ Crash \/ Reload \/ QuietStep
  <2>1. journal' = journal \/ journal' = journal \ torn
    BY <1>1, HublessOutcome DEF QuietStep
  <2>2. faults' = faults \/ faults' = faults + 1
    BY <1>1, HublessOutcome DEF QuietStep
  <2> QED BY <1>0, <2>1, <2>2
<1>2. CASE PublishKey
  <2> DEFINE e   == [seq |-> seq, type |-> KeyEvent, run |-> run, epoch |-> epoch]
             rec == [from |-> 0, seq |-> seq, payload |-> "event", run |-> run, parts |-> {e}]
  <2>1. PICK err \in BOOLEAN : AppendEvents({rec}, err)
    BY <1>2 DEF PublishKey
  <2>2. ~Foreign(rec)
    BY DEF Foreign, Decodes
  <2> HIDE DEF rec
  <2>3. journal \ torn \subseteq journal' /\ journal' \subseteq journal \cup {rec}
    BY <1>0, <2>1, AppendAdds DEF Appended
  <2>4. faults' = 0 => faults = 0
    BY <1>0, <1>2, PublishKeyOutcome DEF MarksLoss
  <2> QED BY <1>0, <2>2, <2>3, <2>4
<1>3. ASSUME NEW t \in DeltaTypes, PublishDelta(t)
      PROVE  /\ faults' = 0 => journal \subseteq journal' /\ faults = 0
             /\ \A rec \in journal' \ journal : ~Foreign(rec)
  <2> DEFINE e   == NextEvent(t)
             buf == [deltaBuf EXCEPT ![t] = Buffered(e)]
  <2>1. e \in Event /\ e.type = t /\ e.seq = seq
    BY NextEventType DEF NextEvent, EventTypes
  <2>2. \/ journal' = journal
        \/ \E err \in BOOLEAN : FlushDeltaTypes(buf, {t}, err)
    BY <1>3 DEF PublishDelta, NextEvent, diskVars
  <2>3. hub = "open"
    BY <1>3 DEF PublishDelta
  <2>4. Sound(journal, buf, seq + 1)
    BY <2>1, <2>3, DeltaKeepsSound DEF JournalInv
  <2>5. buf \in [DeltaTypes -> Bucket]
    BY <2>1, WindowGains
  <2>7. faults' = 0 => faults = 0
    BY <1>0, <1>3, PublishDeltaOutcome DEF MarksLoss
  <2> HIDE DEF buf, e
  <2>6. CASE \E err \in BOOLEAN : FlushDeltaTypes(buf, {t}, err)
    <3>0. PICK err \in BOOLEAN : FlushDeltaTypes(buf, {t}, err)
      BY <2>6
    <3>a. {t} \in SUBSET DeltaTypes /\ DiskTypes
      BY DEF TypeOK
    <3>1. journal \ torn \subseteq journal' /\ journal' \subseteq journal \cup Batches(buf, {t})
      BY <1>0, <2>5, <3>0, <3>a, FlushAdds DEF Appended
    <3>2. \A rec \in Batches(buf, {t}) : ~Foreign(rec)
      BY <2>4, BatchesAreOwn
    <3> QED BY <1>0, <2>7, <3>1, <3>2
  <2> QED BY <2>2, <2>6, <2>7
<1>4. CASE FlushStep
  <2>1. journal \ torn \subseteq journal' /\ journal' \subseteq journal \cup Batches(deltaBuf, DeltaTypes)
    BY <1>4, FlushAllAdds DEF FlushStep, Appended
  <2>2. Sound(journal, deltaBuf, seq)
    BY <1>4 DEF FlushStep, JournalInv
  <2>3. \A rec \in Batches(deltaBuf, DeltaTypes) : ~Foreign(rec)
    BY <2>2, BatchesAreOwn
  <2>4. faults' = 0 => faults = 0
    BY <1>0, <1>4, FlushStepOutcome
  <2> QED BY <1>0, <2>1, <2>3, <2>4
<1> QED BY <1>1, <1>2, <1>3, <1>4, StepKinds

(* An incomplete history has a cause.                                      *)
LEMMA SpuriousStep ==
    TypeOK /\ JournalInv /\ WindowInv /\ NoSpuriousLoss /\ [Next]_vars => NoSpuriousLoss'
<1> SUFFICES ASSUME TypeOK, JournalInv, WindowInv, NoSpuriousLoss, [Next]_vars,
                    integrity' = "incomplete"
             PROVE  faults' > 0 \/ Degraded(journal')
  BY DEF NoSpuriousLoss
<1>1. faults' = 0 /\ Degraded(journal) => Degraded(journal')
  BY JournalGrows DEF Degraded
<1>2. integrity = "incomplete" => faults > 0 \/ Degraded(journal)
  BY DEF NoSpuriousLoss
<1>3. faults \in Nat /\ (faults' > 0 \/ faults' = 0)
  <2>1. faults' \in Nat
    BY TypeStep DEF TypeOK, BoundTypes
  <2> QED BY <2>1 DEF TypeOK, BoundTypes
<1>4. CASE NewEventHub \/ Crash \/ Reload
  BY <1>4, HublessOutcome
<1>5. CASE MarksLoss
  BY <1>1, <1>2, <1>3, <1>5 DEF MarksLoss
<1>6. CASE PublishKey
  BY <1>5, <1>6, PublishKeyOutcome
<1>7. CASE \E t \in DeltaTypes : PublishDelta(t)
  BY <1>5, <1>7, PublishDeltaOutcome
<1>8. CASE FlushStep
  <2>1. /\ faults' = faults \/ faults' = faults + 1
        /\ integrity = "incomplete" \/ faults' > 0 \/ Degraded(journal')
    BY <1>8, FlushStepOutcome
  <2> QED BY <1>1, <1>2, <1>3, <2>1
<1>9. CASE QuietStep
  BY <1>1, <1>2, <1>3, <1>9 DEF QuietStep
<1> QED BY <1>4, <1>6, <1>7, <1>8, <1>9, StepKinds

(* Nothing is open at the start.                                           *)
LEMMA WindowInit == Init => WindowInv
<1> SUFFICES ASSUME Init PROVE WindowInv
  OBVIOUS
<1>1. \A t \in DeltaTypes : deltaBuf[t].parts = {}
  BY DEF Init, EmptyBucket
<1> QED BY <1>1 DEF Init, WindowInv, LinesInv

(* The merge windows belong to the open run and an unfinished line to a    *)
(* failed append: no flush ever finds the file of its run closed.          *)
THEOREM WindowInvariance == Spec => []WindowInv
<1>1. TypeOK /\ JournalInv /\ WindowInv /\ [Next]_vars => WindowInv'
  BY WindowStep
<1> QED BY <1>1, WindowInit, TypeCorrect, JournalInvariance, PTL DEF Spec

(* A history is marked incomplete only after an append failed or because   *)
(* files of an earlier build cannot be told apart: the order of EndRun,    *)
(* finalizeRun and the deferred EndRun never loses a window.               *)
THEOREM LossHasACause == Spec => []NoSpuriousLoss
<1>1. TypeOK /\ JournalInv /\ WindowInv /\ NoSpuriousLoss /\ [Next]_vars => NoSpuriousLoss'
  BY SpuriousStep
<1>2. Init => NoSpuriousLoss
  BY DEF Init, NoSpuriousLoss
<1> QED BY <1>1, <1>2, TypeCorrect, JournalInvariance, WindowInvariance, PTL DEF Spec

(* A client that never received anything and is not connected.             *)
Idle(s) == cursor[s] = 0 /\ pump[s] = "off" /\ ch[s] = <<>>

(* It stays so until it subscribes.                                        *)
LEMMA IdleStays ==
    ASSUME TypeOK, [Next]_vars, NEW s \in Clients, Idle(s), ~Subscribe(s)
    PROVE  Idle(s)'
<1>1. ASSUME UNCHANGED <<cursor, pump, ch>> PROVE Idle(s)'
  BY <1>1 DEF Idle
<1>2. CASE NewEventHub \/ BeginRun \/ FlushDeltaOnTimer \/ EndRun \/ JournalState \/ FinalizeRun
             \/ DeferredEndRun \/ CloseEvents
  BY <1>1, <1>2
  DEF NewEventHub, BeginRun, FlushDeltaOnTimer, EndRun, JournalState, FinalizeRun, DeferredEndRun,
      CloseEvents, subVars, clientVars
<1>3. CASE teeRunCallbacks
  BY <1>1, <1>3
  DEF teeRunCallbacks, PublishKey, PublishRejected, PublishDelta, subVars, clientVars
<1>4. ASSUME NEW c \in Clients, PumpStep(c) PROVE Idle(s)'
  <2>1. pump[c] # "off"
    BY <1>4 DEF PumpStep, PumpReplay, PumpReceive, PumpSend, PumpStop, PumpExit
  <2>2. /\ c # s /\ cursor' = cursor
        /\ ch' = ch \/ (\E e \in Event : ch' = [ch EXCEPT ![c] = Append(@, e)])
        /\ pump' = pump \/ (\E p \in {"run", "send", "exit", "off"} : pump' = [pump EXCEPT ![c] = p])
    <3>1. CASE PumpReplay(c)
      BY <2>1, <3>1 DEF PumpReplay, clientVars, Idle, TypeOK, SubTypes
    <3>2. CASE PumpReceive(c)
      BY <2>1, <3>2 DEF PumpReceive, clientVars, Idle, TypeOK, SubTypes
    <3>3. CASE PumpSend(c)
      BY <2>1, <3>3 DEF PumpSend, clientVars, Idle, TypeOK, SubTypes
    <3>4. CASE PumpStop(c) \/ PumpExit(c)
      BY <2>1, <3>4 DEF PumpStop, PumpExit, clientVars, Idle, TypeOK, SubTypes
    <3> QED BY <1>4, <3>1, <3>2, <3>3, <3>4 DEF PumpStep
  <2> QED BY <2>2 DEF Idle, TypeOK, SubTypes
<1>5. ASSUME NEW c \in Clients, ClientRead(c) PROVE Idle(s)'
  <2>1. c # s
    BY <1>5 DEF ClientRead, Idle
  <2> QED BY <1>5, <2>1 DEF ClientRead, Idle, TypeOK, SubTypes, ClientTypes
<1>6. ASSUME NEW c \in Clients, ClientCancel(c) \/ SubscribeReadError(c) PROVE Idle(s)'
  BY <1>1, <1>6 DEF ClientCancel, SubscribeReadError, subVars, clientVars
<1>7. ASSUME NEW c \in Clients, Subscribe(c) PROVE Idle(s)'
  <2>1. c # s
    BY <1>7
  <2> QED BY <1>7, <2>1 DEF Subscribe, Idle, TypeOK, SubTypes, clientVars
<1>8. CASE Crash \/ Reload
  <2>1. ForgetHub
    BY <1>8 DEF Crash, Reload
  <2> QED BY <2>1 DEF ForgetHub, Idle, clientVars
<1>9. CASE UNCHANGED vars
  BY <1>1, <1>9 DEF vars, subVars, clientVars
<1> QED BY <1>2, <1>3, <1>4, <1>5, <1>6, <1>7, <1>8, <1>9 DEF Next, ClientStep

(* The history stays as it is.                                             *)
Still ==
    /\ UNCHANGED <<seq, latest, broadcast>>
    /\ Clean' => Kept' = Kept
    /\ faults' = 0 /\ (\A t \in DeltaTypes : deltaBuf[t].parts = {}) => journal' = journal

(* A cursor is used up by an event that could not be written.              *)
Burnt == ~Clean' /\ seq' = seq + 1 /\ UNCHANGED <<latest, broadcast>>

(* An event is broadcast.                                                  *)
Sent(t) ==
    /\ hub = "open" /\ (phase = "running" \/ (phase = "queued" /\ t = KeyEvent))
    /\ seq' = seq + 1 /\ latest' = seq /\ seq <= MaxSeq
    /\ FanOut(NextEvent(t))
    /\ Clean' => Kept' = Kept \cup {NextEvent(t)}
    /\ faults' = 0 => (t = KeyEvent => \E rec \in journal' : rec.seq = seq)

(* What a step does to a hub that is there before and after it.            *)
LEMMA HubStep ==
    ASSUME TypeOK, JournalInv, WindowInv, [Next]_vars, hub # "none", hub' # "none"
    PROVE  /\ UNCHANGED <<epoch, earliest, crashes>>
           /\ hub' = "open" => hub = "open"
           /\ faults <= faults'
           /\ integrity' # "incomplete" => integrity' = integrity
           /\ Clean' => Clean
           /\ swallowed \subseteq swallowed'
           /\ Still \/ Burnt \/ \E t \in EventTypes : Sent(t)
<1>0. faults \in Nat /\ (faults = 0 => torn = {})
  BY DEF TypeOK, BoundTypes, WindowInv, LinesInv
<1>1. CASE NewEventHub \/ Crash \/ Reload
  BY <1>1 DEF NewEventHub, Crash, Reload, ForgetHub
<1>2. CASE QuietStep
  <2>0. faults' = faults \/ faults' = faults + 1
    BY <1>2 DEF QuietStep
  <2>1. ASSUME Clean' PROVE Kept' = Kept
    <3>1. torn \subseteq {HalfLine}
      BY <1>0, <1>2, <2>0, <2>1 DEF QuietStep, Clean, WindowInv, LinesInv
    <3>2. \A rec \in journal : rec \in journal' \/ rec.parts = {}
      BY <1>2, <3>1, HalfLineType DEF QuietStep
    <3>3. journal' \subseteq journal
      BY <1>2 DEF QuietStep
    <3>4. DecodedEvents(journal') = DecodedEvents(journal)
      BY <3>2, <3>3 DEF DecodedEvents
    <3> QED BY <1>2, <3>4 DEF QuietStep, Kept, Durable
  <2>2. faults' = 0 => journal' = journal
    BY <1>0, <1>2, <2>0 DEF QuietStep
  <2>3. Clean' => Clean
    BY <1>0, <1>2, <2>0 DEF QuietStep, Clean
  <2>4. Still
    BY <1>2, <2>1, <2>2 DEF QuietStep, Still
  <2> QED BY <1>0, <1>2, <2>0, <2>3, <2>4 DEF QuietStep
<1>3. CASE FlushStep
  <2>1. /\ faults' = faults \/ (faults' = faults + 1 /\ integrity' = "incomplete")
        /\ integrity' # "incomplete" => integrity' = integrity
        /\ Clean' => Kept' = Kept
        /\ swallowed \subseteq swallowed'
    BY <1>3, FlushStepOutcome
  <2>2. Clean' => Clean
    BY <1>0, <2>1 DEF Clean
  <2>3. journal \ torn \subseteq journal' /\ journal' \subseteq journal \cup Batches(deltaBuf, DeltaTypes)
    BY <1>3, FlushAllAdds DEF FlushStep, Appended
  <2>a. faults' = 0 => torn = {}
    BY <1>0, <2>1
  <2>4. faults' = 0 /\ (\A t \in DeltaTypes : deltaBuf[t].parts = {}) => journal' = journal
    BY <2>3, <2>a DEF Batches
  <2> QED BY <1>0, <1>3, <2>1, <2>2, <2>4 DEF FlushStep, Still
<1>4. MarksLoss => /\ faults <= faults' /\ (integrity' # "incomplete" => integrity' = integrity)
                   /\ (Clean' => Clean)
  BY <1>0 DEF MarksLoss, Clean
<1>5. CASE PublishKey
  <2>1. /\ UNCHANGED <<epoch, earliest, crashes, hub>> /\ seq' = seq + 1 /\ seq <= MaxSeq
        /\ hub = "open" /\ phase \in {"queued", "running"}
        /\ \/ UNCHANGED <<latest, broadcast>>
           \/ latest' = seq /\ FanOut(NextEvent(KeyEvent))
    BY <1>5 DEF PublishKey, NextEvent
  <2>a. swallowed \subseteq swallowed'
    <3>1. PICK rec \in {[from |-> 0, seq |-> seq, payload |-> "event", run |-> run,
                          parts |-> {NextEvent(KeyEvent)}]}, err \in BOOLEAN :
             AppendEvents({rec}, err)
      BY <1>5 DEF PublishKey, NextEvent
    <3> QED BY <1>0, <3>1, AppendAdds DEF Appended
  <2>2. MarksLoss /\ (Clean' => Published(KeyEvent))
    BY <1>5, PublishKeyOutcome
  <2>3. KeyEvent \in EventTypes
    BY DEF EventTypes
  <2>4. ASSUME faults' = 0 PROVE \E rec \in journal' : rec.seq = seq
    <3> DEFINE e   == NextEvent(KeyEvent)
               rec == [from |-> 0, seq |-> seq, payload |-> "event", run |-> run, parts |-> {e}]
    <3>1. PICK err \in BOOLEAN : AppendEvents({rec}, err)
      BY <1>5 DEF PublishKey, NextEvent
    <3>2. rec.run = run /\ rec.seq = seq
      OBVIOUS
    <3> HIDE DEF rec
    <3>3. \A r \in {rec} : HandleOpen(r.run)
      BY <2>1, <3>2 DEF HandleOpen
    <3>4. Outcome({rec}, err)
      BY <1>0, <3>1, <3>3, AppendOutcome
    <3>5. ~err /\ torn = {}
      BY <1>0, <2>4, <3>4 DEF Outcome
    <3>6. journal' = journal \cup {rec}
      BY <3>4, <3>5 DEF Outcome
    <3> QED BY <3>2, <3>6
  <2>5. CASE Clean'
    BY <1>4, <2>1, <2>2, <2>3, <2>4, <2>5, <2>a DEF Sent, Published
  <2>6. CASE ~Clean'
    BY <1>4, <2>1, <2>2, <2>3, <2>4, <2>6, <2>a DEF Sent, Burnt
  <2> QED BY <2>5, <2>6
<1>6. ASSUME NEW t \in DeltaTypes, PublishDelta(t)
      PROVE  /\ UNCHANGED <<epoch, earliest, crashes, hub>>
             /\ MarksLoss /\ t \in EventTypes /\ Sent(t) /\ swallowed \subseteq swallowed'
  <2>a. swallowed \subseteq swallowed'
    <3> DEFINE buf == [deltaBuf EXCEPT ![t] = Buffered(NextEvent(t))]
    <3>1. UNCHANGED swallowed \/ \E err \in BOOLEAN : FlushDeltaTypes(buf, {t}, err)
      BY <1>6 DEF PublishDelta, NextEvent, diskVars
    <3> HIDE DEF buf
    <3>2. UNCHANGED swallowed \/ \E err \in BOOLEAN : AppendEvents(Batches(buf, {t}), err)
      BY <3>1 DEF FlushDeltaTypes, Batches
    <3> QED BY <1>0, <3>2, AppendAdds DEF Appended
  <2>1. /\ UNCHANGED <<epoch, earliest, crashes, hub>> /\ seq' = seq + 1 /\ seq <= MaxSeq
        /\ hub = "open" /\ phase = "running"
    BY <1>6 DEF PublishDelta
  <2>2. MarksLoss /\ FanOut(NextEvent(t)) /\ latest' = seq /\ (Clean' => Published(t))
    BY <1>6, PublishDeltaOutcome
  <2>3. t \in EventTypes /\ t # KeyEvent
    BY HubAssumption DEF EventTypes
  <2> QED BY <2>1, <2>2, <2>3, <2>a DEF Sent, Published
<1>7. CASE \E t \in DeltaTypes : PublishDelta(t)
  <2>1. PICK t \in DeltaTypes : PublishDelta(t)
    BY <1>7
  <2> QED BY <1>4, <1>6, <2>1
<1> QED BY <1>1, <1>2, <1>3, <1>5, <1>7, StepKinds

-----------------------------------------------------------------------------
(* What a hub may say of its history.                                      *)

(* Before the first hub nothing has happened.                              *)
CountInv ==
    /\ epoch = 0 => /\ hub = "none" /\ faults = 0 /\ crashes = 0 /\ broadcast = {}
                    /\ \A s \in Clients : Idle(s)
    /\ \A e \in broadcast : e.epoch <= epoch

(* The first event of a run is a key event, which is on disk before it is  *)
(* broadcast: so a session without a record has sent nothing.              *)
BegunInv ==
    faults = 0 =>
        /\ journal = {} => broadcast = {}
        /\ hub = "open" /\ phase = "running" => journal # {}

(* The events of a hub that does not admit a loss are kept, and one that   *)
(* vouches for its history had no predecessor that sent anything.          *)
CompleteInv ==
    hub # "none" /\ integrity # "incomplete" =>
        /\ \A e \in broadcast : e.epoch = epoch => e \in Kept
        /\ integrity = "complete" /\ (epoch = 1 \/ faults = 0) =>
              \A e \in broadcast : e.epoch = epoch

(* The hub of the first process marks the history before it serves a       *)
(* client from files whose single events cannot be told apart.             *)
GapInv ==
    /\ \A rec \in journal : Foreign(rec) => rec.seq > 0
    /\ hub # "none" /\ epoch = 1 /\ integrity # "incomplete" /\ Degraded(journal) =>
          \A s \in Clients : Idle(s)

(* A step without a hub, or one that makes or forgets it.                  *)
LEMMA HublessStep ==
    ASSUME TypeOK, JournalInv, WindowInv, [Next]_vars, hub = "none" \/ hub' = "none"
    PROVE  /\ UNCHANGED <<broadcast, faults>>
           /\ faults = 0 \/ hub = "none" => UNCHANGED <<journal, swallowed>>
           /\ \/ hub = "none" /\ hub' = "open" /\ NewEventHub
              \/ hub # "none" /\ hub' = "none" /\ UNCHANGED epoch /\ (Crash \/ Reload)
              \/ hub = "none" /\ hub' = "none" /\ UNCHANGED <<epoch, crashes>>
<1>0. faults = 0 => torn = {} /\ swallowed = {}
  BY DEF TypeOK, BoundTypes, WindowInv, LinesInv
<1>1. CASE NewEventHub
  BY <1>1 DEF NewEventHub, diskVars
<1>2. CASE Crash \/ Reload
  <2>1. ForgetHub /\ hub # "none" /\ (journal' = journal \/ journal' = journal \ torn)
    BY <1>2 DEF Crash, Reload
  <2>2. faults = 0 => journal' = journal /\ swallowed' = swallowed
    BY <1>0, <2>1 DEF ForgetHub
  <2> QED BY <1>2, <2>1, <2>2 DEF ForgetHub
<1>3. CASE FlushStep
  BY <1>3 DEF FlushStep
<1>4. CASE QuietStep
  BY <1>4 DEF QuietStep, WindowInv
<1>5. CASE PublishKey
  BY <1>5 DEF PublishKey
<1>6. CASE \E t \in DeltaTypes : PublishDelta(t)
  BY <1>6 DEF PublishDelta
<1> QED BY <1>1, <1>2, <1>3, <1>4, <1>5, <1>6, StepKinds

(* What a broadcast adds.                                                  *)
LEMMA SentAdds ==
    ASSUME NEW t, Sent(t)
    PROVE  broadcast' = broadcast \cup {NextEvent(t)}
  BY DEF Sent, FanOut

(* Every step keeps the count of the hubs.                                 *)
LEMMA CountStep ==
    TypeOK /\ JournalInv /\ WindowInv /\ CountInv /\ [Next]_vars => CountInv'
<1> SUFFICES ASSUME TypeOK, JournalInv, WindowInv, CountInv, [Next]_vars PROVE CountInv'
  OBVIOUS
<1>0. epoch \in Nat /\ broadcast \subseteq Event /\ \A e \in Event : e.epoch \in Nat
  BY DEF TypeOK, BoundTypes, Event
<1>1. CASE hub # "none" /\ hub' # "none"
  <2>1. /\ epoch' = epoch /\ epoch # 0
        /\ Still \/ Burnt \/ \E t \in EventTypes : Sent(t)
    BY <1>1, HubStep DEF CountInv
  <2>2. \/ broadcast' = broadcast
        \/ \E t \in EventTypes : broadcast' = broadcast \cup {NextEvent(t)}
    BY <2>1, SentAdds DEF Still, Burnt
  <2>3. \A t \in EventTypes : NextEvent(t).epoch = epoch
    BY DEF NextEvent
  <2>4. \A e \in broadcast' : e.epoch <= epoch'
    BY <1>0, <2>1, <2>2, <2>3 DEF CountInv
  <2> QED BY <2>1, <2>4 DEF CountInv
<1>2. CASE hub = "none" /\ hub' = "open" /\ NewEventHub
  <2>1. epoch' = epoch + 1 /\ broadcast' = broadcast
    BY <1>2 DEF NewEventHub
  <2> QED BY <1>0, <2>1 DEF CountInv
<1>3. CASE hub # "none" /\ hub' = "none" /\ UNCHANGED epoch /\ (Crash \/ Reload)
  <2>1. broadcast' = broadcast
    BY <1>3, HublessStep
  <2> QED BY <1>3, <2>1 DEF CountInv
<1>4. CASE hub = "none" /\ hub' = "none" /\ UNCHANGED <<epoch, crashes>>
  <2>1. UNCHANGED <<broadcast, faults>>
    BY <1>4, HublessStep
  <2>2. ASSUME epoch = 0, NEW s \in Clients PROVE Idle(s)'
    <3>1. Idle(s)
      BY <2>2 DEF CountInv
    <3>2. ~Subscribe(s)
      BY <1>4 DEF Subscribe, Subscribable
    <3> QED BY <3>1, <3>2, IdleStays
  <2> QED BY <1>4, <2>1, <2>2 DEF CountInv
<1> QED BY <1>1, <1>2, <1>3, <1>4, HublessStep

(* A run that leaves the queue does so with its first event.               *)
LEMMA RunningBegins ==
    ASSUME TypeOK, [Next]_vars, hub' = "open", phase' = "running", phase # "running"
    PROVE  hub = "open" /\ PublishKey
<1>1. CASE NewEventHub \/ BeginRun \/ FlushDeltaOnTimer \/ EndRun \/ JournalState \/ FinalizeRun
             \/ DeferredEndRun \/ CloseEvents \/ Crash \/ Reload
  BY <1>1
  DEF NewEventHub, BeginRun, FlushDeltaOnTimer, EndRun, JournalState, FinalizeRun, DeferredEndRun,
      CloseEvents, Crash, Reload, ForgetHub, driverVars
<1>2. CASE PublishRejected \/ PublishKey
  BY <1>2 DEF PublishRejected, PublishKey, hubVars
<1>3. CASE \E t \in DeltaTypes : PublishDelta(t)
  BY <1>3 DEF PublishDelta, driverVars
<1>4. ASSUME NEW s \in Clients, PumpStep(s) \/ ClientStep(s) PROVE phase' = phase
  BY <1>4
  DEF PumpStep, PumpReplay, PumpReceive, PumpSend, PumpStop, PumpExit, ClientStep, Subscribe,
      SubscribeReadError, ClientRead, ClientCancel, driverVars
<1>5. CASE UNCHANGED vars
  BY <1>5 DEF vars, driverVars
<1> QED BY <1>1, <1>2, <1>3, <1>4, <1>5 DEF Next, teeRunCallbacks

(* Every step keeps a record in the files of a session that sent anything. *)
LEMMA BegunStep ==
    TypeOK /\ JournalInv /\ WindowInv /\ BegunInv /\ [Next]_vars => BegunInv'
<1> SUFFICES ASSUME TypeOK, JournalInv, WindowInv, BegunInv, [Next]_vars, faults' = 0
             PROVE  /\ journal' = {} => broadcast' = {}
                    /\ hub' = "open" /\ phase' = "running" => journal' # {}
  BY DEF BegunInv
<1>0. journal \subseteq journal' /\ faults = 0
  BY JournalGrows
<1>1. CASE hub # "none" /\ hub' # "none"
  <2>1. /\ Still \/ Burnt \/ \E t \in EventTypes : Sent(t)
        /\ hub' = "open" => hub = "open"
        /\ faults <= faults'
    BY <1>1, HubStep
  <2>2. faults = 0
    BY <2>1 DEF TypeOK, BoundTypes
  <2>3. CASE Still \/ Burnt
    <3>1. ~Burnt
      BY DEF Burnt, Clean
    <3>2. broadcast' = broadcast
      BY <2>3, <3>1 DEF Still
    <3>3. ~PublishKey
      BY <2>3, <3>1 DEF Still, PublishKey, TypeOK, HubTypes
    <3>4. hub' = "open" /\ phase' = "running" => phase = "running"
      BY <3>3, RunningBegins
    <3> QED BY <1>0, <2>1, <2>2, <3>2, <3>4 DEF BegunInv
  <2>4. CASE \E t \in EventTypes : Sent(t)
    <3>1. PICK t \in EventTypes : Sent(t)
      BY <2>4
    <3>2. journal' # {}
      <4>1. CASE t = KeyEvent
        BY <3>1, <4>1 DEF Sent
      <4>2. CASE t # KeyEvent
        BY <1>0, <2>2, <3>1, <4>2 DEF Sent, BegunInv
      <4> QED BY <4>1, <4>2
    <3> QED BY <3>2
  <2> QED BY <2>1, <2>3, <2>4
<1>2. CASE hub = "none" \/ hub' = "none"
  <2>1. UNCHANGED <<journal, broadcast, faults>>
    BY <1>0, <1>2, HublessStep
  <2>2. hub' = "open" /\ phase' = "running" => phase = "running"
    BY <1>2, RunningBegins
  <2>3. hub = "none" => phase # "running"
    BY DEF WindowInv
  <2> QED BY <1>2, <2>1, <2>2, <2>3 DEF BegunInv
<1> QED BY <1>1, <1>2

(* Every step keeps the events of a hub that admits no loss.               *)
LEMMA CompleteStep ==
    TypeOK /\ JournalInv /\ WindowInv /\ CountInv /\ BegunInv /\ CompleteInv /\ [Next]_vars
        => CompleteInv'
<1> SUFFICES ASSUME TypeOK, JournalInv, WindowInv, CountInv, BegunInv, CompleteInv, [Next]_vars,
                    hub' # "none", integrity' # "incomplete"
             PROVE  /\ \A e \in broadcast' : e.epoch = epoch' => e \in Kept'
                    /\ integrity' = "complete" /\ (epoch' = 1 \/ faults' = 0) =>
                          \A e \in broadcast' : e.epoch = epoch'
  BY DEF CompleteInv
<1>0. epoch \in Nat /\ broadcast \subseteq Event /\ \A e \in Event : e.epoch \in Nat
  BY DEF TypeOK, BoundTypes, Event
<1>1. CASE hub # "none"
  <2>1. /\ epoch' = epoch /\ faults <= faults' /\ integrity' = integrity
        /\ Still \/ Burnt \/ \E t \in EventTypes : Sent(t)
    BY <1>1, HubStep
  <2>2. Clean' /\ ~Burnt
    BY DEF Clean, Burnt
  <2>3. faults' = 0 => faults = 0
    BY <2>1 DEF TypeOK, BoundTypes
  <2>4. \/ broadcast' = broadcast /\ Kept' = Kept
        \/ \E t \in EventTypes : /\ broadcast' = broadcast \cup {NextEvent(t)}
                                 /\ Kept' = Kept \cup {NextEvent(t)}
    BY <2>1, <2>2, SentAdds DEF Still, Sent
  <2>5. \A t \in EventTypes : NextEvent(t).epoch = epoch
    BY DEF NextEvent
  <2> HIDE DEF Kept
  <2> QED BY <1>1, <2>1, <2>3, <2>4, <2>5 DEF CompleteInv
<1>2. CASE hub = "none"
  <2>1. NewEventHub /\ UNCHANGED <<journal, broadcast, faults>>
    BY <1>2, HublessStep
  <2>2. epoch' = epoch + 1 /\ integrity' = SeededIntegrity(journal)
    BY <2>1 DEF NewEventHub
  <2>3. \A e \in broadcast' : e.epoch # epoch'
    BY <1>0, <2>1, <2>2 DEF CountInv
  <2>4. ASSUME integrity' = "complete", epoch' = 1 \/ faults' = 0 PROVE broadcast' = {}
    <3>1. CASE epoch' = 1
      BY <1>0, <2>1, <2>2, <3>1 DEF CountInv
    <3>2. CASE faults' = 0
      BY <2>1, <2>2, <2>4, <3>2 DEF BegunInv, SeededIntegrity
    <3> QED BY <2>4, <3>1, <3>2
  <2> QED BY <2>3, <2>4
<1> QED BY <1>1, <1>2

(* Every step marks the history before a client is served from foreign     *)
(* records.                                                                *)
LEMMA GapStep ==
    TypeOK /\ JournalInv /\ WindowInv /\ CountInv /\ GapInv /\ [Next]_vars => GapInv'
<1> SUFFICES ASSUME TypeOK, JournalInv, WindowInv, CountInv, GapInv, [Next]_vars PROVE GapInv'
  OBVIOUS
<1>1. \A rec \in journal' : Foreign(rec) => rec \in journal /\ rec.seq > 0
  BY JournalGrows DEF GapInv
<1>2. ASSUME hub' # "none", epoch' = 1, integrity' # "incomplete", Degraded(journal'),
             NEW s \in Clients
      PROVE  Idle(s)'
  <2>1. PICK rec \in journal' : Foreign(rec)
    BY <1>2 DEF Degraded, Foreign
  <2>2. rec \in journal /\ rec.seq > 0 /\ Degraded(journal)
    BY <1>1, <2>1 DEF Degraded, Foreign
  <2>3. Idle(s)
    <3>1. CASE hub # "none"
      <4>1. epoch' = epoch /\ integrity' = integrity
        BY <1>2, <3>1, HubStep
      <4> QED BY <1>2, <2>2, <3>1, <4>1 DEF GapInv
    <3>2. CASE hub = "none"
      <4>1. NewEventHub
        BY <1>2, <3>2, HublessStep
      <4>2. epoch = 0
        BY <1>2, <4>1 DEF NewEventHub, TypeOK, BoundTypes
      <4> QED BY <4>2 DEF CountInv
    <3> QED BY <3>1, <3>2
  <2>4. ~Subscribe(s)
    <3> SUFFICES ASSUME Subscribe(s) PROVE FALSE
      OBVIOUS
    <3>1. integrity' # "incomplete" => ~Degraded(ReadEvents(journal', cursor[s]))
      BY DEF Subscribe
    <3>2. cursor[s] = 0
      BY <2>3 DEF Idle
    <3>3. rec \in ReadEvents(journal', cursor[s])
      BY <2>1, <2>2, <3>2 DEF ReadEvents
    <3> QED BY <1>2, <2>1, <3>1, <3>3 DEF Degraded, Foreign
  <2> QED BY <2>3, <2>4, IdleStays
<1> QED BY <1>1, <1>2 DEF GapInv

(* The initial states have no history.                                     *)
LEMMA HistoryInit == Init => CountInv /\ BegunInv /\ CompleteInv /\ GapInv
<1> SUFFICES ASSUME Init PROVE CountInv /\ BegunInv /\ CompleteInv /\ GapInv
  OBVIOUS
<1>1. CountInv /\ BegunInv /\ CompleteInv
  BY DEF Init, CountInv, BegunInv, CompleteInv, Idle
<1>2. \A rec \in journal : rec.seq > 0
  BY OldJournalAssumption DEF Init
<1> QED BY <1>1, <1>2 DEF Init, GapInv

(* What a hub may rely on when it speaks of its history.                   *)
HistoryInv == CountInv /\ BegunInv /\ CompleteInv /\ GapInv

(* The invariant behind the two theorems that follow.                      *)
THEOREM HistoryInvariance == Spec => []HistoryInv
<1>1. TypeOK /\ JournalInv /\ WindowInv /\ HistoryInv /\ [Next]_vars => HistoryInv'
  BY CountStep, BegunStep, CompleteStep, GapStep DEF HistoryInv
<1>2. Init => HistoryInv
  BY HistoryInit DEF HistoryInv
<1> QED BY <1>1, <1>2, TypeCorrect, JournalInvariance, WindowInvariance, PTL DEF Spec

(* replayIntegrity = complete is no lie, for any number of runs, crashes   *)
(* and reloads: as long as no earlier hub could forget a failed append,    *)
(* everything broadcast can be replayed.                                   *)
THEOREM CompletenessIsHonest == Spec => []CompleteIsHonest
<1>1. HistoryInv => CompleteIsHonest
  <2> SUFFICES ASSUME HistoryInv, hub # "none", integrity = "complete", epoch = 1 \/ faults = 0,
                      NEW e \in broadcast \ swallowed
               PROVE  e \in JournalEvents \cup BufferedEvents
    BY DEF CompleteIsHonest
  <2>1. e \in Kept
    BY DEF HistoryInv, CompleteInv
  <2> QED BY <2>1 DEF Kept, Durable, JournalEvents, BufferedEvents, DecodedEvents, WindowEvents
<1> QED BY <1>1, HistoryInvariance, PTL

(* A client of the first hub that is past a window whose single events     *)
(* cannot be told apart is served by a hub that says so.                   *)
THEOREM GapsAreFlagged == Spec => []ForeignGapsFlagged
<1>1. TypeOK /\ HistoryInv => ForeignGapsFlagged
  <2> SUFFICES ASSUME TypeOK, HistoryInv, hub # "none", epoch = 1, NEW s \in Clients,
                      NEW rec \in journal, Foreign(rec), cursor[s] >= rec.seq,
                      integrity # "incomplete"
               PROVE  FALSE
    BY DEF ForeignGapsFlagged, Foreign
  <2>1. Degraded(journal) /\ rec.seq > 0 /\ rec.seq \in Nat
    BY RecordTypes DEF Degraded, Foreign, HistoryInv, GapInv, TypeOK, DiskTypes
  <2>2. cursor[s] = 0
    BY <2>1 DEF HistoryInv, GapInv, Idle
  <2> QED BY <2>1, <2>2
<1> QED BY <1>1, TypeCorrect, HistoryInvariance, PTL

-----------------------------------------------------------------------------
(* What the deliveries rest on.                                            *)

(* The history so far can be relied on: nothing failed and no process      *)
(* died, or this is the first hub and it does not admit a loss.            *)
Trusted ==
    \/ faults + crashes = 0
    \/ hub # "none" /\ epoch = 1 /\ integrity # "incomplete"

(* A history that can be relied on lost nothing that was broadcast.        *)
KeptInv == Trusted => broadcast \subseteq Kept

(* Cursors are given out without gaps while nothing fails.                 *)
TightInv == hub # "none" /\ Clean => seq = latest + 1

(* The journal holds no record of an earlier build.                        *)
FreshJournal == journal \cap UNION OldJournals = {}

(* The first record of a session has the first cursor.                     *)
FreshInv ==
    faults = 0 /\ FreshJournal =>
        /\ journal # {} => \E rec \in journal : rec.seq = 1
        /\ hub # "none" => earliest <= 1
        /\ hub # "none" /\ journal = {} => seq = 1

(* A subscription belongs to a hub, and the hub is ahead of it.            *)
SubInv ==
    /\ hub # "none" => latest < seq
    /\ \A s \in Clients :
         /\ hub = "none" => pump[s] = "off" /\ watermark[s] = 0
         /\ hub # "none" => watermark[s] < seq
         /\ pump[s] = "off" => s \notin subs /\ replay[s] = {} /\ live[s] = <<>>
         /\ pump[s] \in {"off", "run"} => hand[s] = {}
         /\ \A e, f \in hand[s] : e = f

(* No faults and no crashes is none of either.                             *)
LEMMA SumOfNone == \A a, b \in Nat : a + b = 0 => a = 0 /\ b = 0
  OBVIOUS

(* Trust is never regained.                                                *)
LEMMA TrustStep ==
    ASSUME TypeOK, JournalInv, WindowInv, CountInv, [Next]_vars, Trusted'
    PROVE  Trusted /\ (hub' # "none" => Clean')
<1>0. /\ faults \in Nat /\ crashes \in Nat /\ epoch \in Nat
      /\ faults' \in Nat /\ crashes' \in Nat
  BY TypeStep DEF TypeOK, BoundTypes
<1>a. faults' + crashes' = 0 => faults' = 0 /\ crashes' = 0
  BY <1>0, SumOfNone
<1>b. faults = 0 /\ crashes = 0 => faults + crashes = 0
  OBVIOUS
<1>c. \/ faults' = 0 /\ crashes' = 0
      \/ hub' # "none" /\ epoch' = 1 /\ integrity' # "incomplete"
  BY <1>a DEF Trusted
<1>d. (faults = 0 /\ crashes = 0) \/ (hub # "none" /\ epoch = 1 /\ integrity # "incomplete") => Trusted
  BY <1>b DEF Trusted
<1>1. hub' # "none" => Clean'
  BY <1>c DEF Clean
<1>2. CASE hub # "none" /\ hub' # "none"
  <2>1. /\ epoch' = epoch /\ crashes' = crashes /\ faults <= faults'
        /\ integrity' # "incomplete" => integrity' = integrity
    BY <1>2, HubStep
  <2> QED BY <1>0, <1>1, <1>2, <1>c, <1>d, <2>1
<1>3. CASE hub = "none" /\ hub' = "open" /\ NewEventHub
  <2>1. UNCHANGED <<faults, crashes>> /\ epoch' = epoch + 1
    BY <1>3 DEF NewEventHub
  <2>2. epoch' = 1 => faults = 0 /\ crashes = 0
    BY <1>0, <2>1 DEF CountInv
  <2> QED BY <1>0, <1>1, <1>c, <1>d, <2>1, <2>2
<1>4. CASE hub # "none" /\ hub' = "none" /\ (Crash \/ Reload)
  <2>1. UNCHANGED faults /\ crashes <= crashes'
    BY <1>0, <1>4 DEF Crash, Reload, ForgetHub
  <2> QED BY <1>0, <1>1, <1>4, <1>c, <1>d, <2>1
<1>5. CASE hub = "none" /\ hub' = "none" /\ UNCHANGED <<faults, crashes>>
  BY <1>1, <1>5, <1>c, <1>d
<1> QED BY <1>2, <1>3, <1>4, <1>5, HublessStep

(* A step that keeps the trust loses nothing and adds what it broadcasts.  *)
LEMMA KeptStep ==
    ASSUME TypeOK, JournalInv, WindowInv, CountInv, [Next]_vars, Trusted'
    PROVE  /\ Kept \subseteq Kept'
           /\ \A e \in broadcast' : e \in broadcast \/ e \in Kept'
           /\ \A e \in Kept' : e \in Kept \/ e \in broadcast'
           /\ broadcast \subseteq broadcast'
<1>0. Trusted /\ (hub' # "none" => Clean')
  BY TrustStep
<1>1. CASE hub # "none" /\ hub' # "none"
  <2>1. Still \/ Burnt \/ \E t \in EventTypes : Sent(t)
    BY <1>1, HubStep
  <2>2. CASE Still
    BY <1>0, <1>1, <2>2 DEF Still
  <2>3. CASE Burnt
    BY <1>0, <1>1, <2>3 DEF Burnt
  <2>4. CASE \E t \in EventTypes : Sent(t)
    <3>1. PICK t \in EventTypes : Sent(t)
      BY <2>4
    <3>2. Kept' = Kept \cup {NextEvent(t)} /\ broadcast' = broadcast \cup {NextEvent(t)}
      BY <1>0, <1>1, <3>1, SentAdds DEF Sent
    <3> QED BY <3>2
  <2> QED BY <2>1, <2>2, <2>3, <2>4
<1>2. CASE hub = "none" \/ hub' = "none"
  <2>1. UNCHANGED <<journal, swallowed, broadcast, faults>>
    <3>1. UNCHANGED <<broadcast, faults>> /\ (faults = 0 \/ hub = "none" => UNCHANGED <<journal, swallowed>>)
      BY <1>2, HublessStep
    <3>2. hub' = "none" => faults' = 0
      <4>1. faults' \in Nat /\ crashes' \in Nat
        BY TypeStep DEF TypeOK, BoundTypes
      <4> QED BY <4>1, SumOfNone DEF Trusted
    <3> QED BY <1>2, <3>1, <3>2
  <2>2. \A t \in DeltaTypes : deltaBuf[t].parts = {}
    <3>1. CASE hub # "open"
      BY <3>1 DEF WindowInv
    <3>2. CASE hub = "open"
      <4>1. Crash
        BY <1>2, <3>2, HublessStep DEF Reload
      <4> QED BY <1>2, <3>2, <4>1 DEF Crash, ForgetHub, Trusted, TypeOK, BoundTypes
    <3> QED BY <3>1, <3>2
  <2>3. \A t \in DeltaTypes : deltaBuf'[t].parts = {}
    <3>1. CASE hub' = "none"
      BY <3>1, WindowStep DEF WindowInv
    <3>2. CASE hub' # "none"
      BY <1>2, <2>2, <3>2, HublessStep DEF NewEventHub
    <3> QED BY <3>1, <3>2
  <2>4. WindowEvents(deltaBuf) = {} /\ WindowEvents(deltaBuf') = {}
    BY <2>2, <2>3 DEF WindowEvents
  <2> QED BY <2>1, <2>4 DEF Kept, Durable
<1> QED BY <1>1, <1>2

(* Every step keeps what was broadcast while the trust lasts.              *)
LEMMA KeptInvStep ==
    TypeOK /\ JournalInv /\ WindowInv /\ CountInv /\ KeptInv /\ [Next]_vars => KeptInv'
<1> SUFFICES ASSUME TypeOK, JournalInv, WindowInv, CountInv, KeptInv, [Next]_vars, Trusted',
                    NEW e \in broadcast'
             PROVE  e \in Kept'
  BY DEF KeptInv
<1>1. Trusted
  BY TrustStep
<1>2. e \in broadcast => e \in Kept
  BY <1>1 DEF KeptInv
<1> QED BY <1>2, KeptStep

(* The cursors of a hub that is made.                                      *)
LEMMA SeededHub ==
    ASSUME TypeOK, NewEventHub
    PROVE  /\ hub = "none" /\ hub' = "open" /\ seq' = latest' + 1 /\ latest' \in Nat
           /\ journal' = journal
           /\ \A rec \in journal : earliest' <= rec.seq /\ rec.seq <= latest'
           /\ journal = {} => seq' = 1 /\ earliest' = 0
<1>1. \A rec \in journal : rec.seq \in Nat
  BY RecordTypes DEF TypeOK, DiskTypes
<1>2. hub = "none" /\ hub' = "open" /\ journal' = journal
  BY DEF NewEventHub, diskVars
<1>3. CASE journal = {} /\ earliest' = 0 /\ latest' = 0 /\ seq' = SeedSeq(0)
  BY <1>2, <1>3 DEF SeedSeq
<1>4. CASE \E lo, hi \in {rec.seq : rec \in journal} :
             /\ IsSeqRange(lo, hi, journal)
             /\ earliest' = lo /\ latest' = hi /\ seq' = SeedSeq(hi)
  <2>1. PICK lo \in {rec.seq : rec \in journal}, hi \in {rec.seq : rec \in journal} :
             /\ IsSeqRange(lo, hi, journal)
             /\ earliest' = lo /\ latest' = hi /\ seq' = SeedSeq(hi)
    BY <1>4
  <2>2. hi \in Nat /\ journal # {}
    BY <1>1, <2>1
  <2> QED BY <1>2, <2>1, <2>2 DEF IsSeqRange, SeedSeq
<1> QED BY <1>3, <1>4 DEF NewEventHub

(* Every step gives out the cursors without a gap, unless one fails.       *)
LEMMA TightStep ==
    TypeOK /\ JournalInv /\ WindowInv /\ TightInv /\ [Next]_vars => TightInv'
<1> SUFFICES ASSUME TypeOK, JournalInv, WindowInv, TightInv, [Next]_vars, hub' # "none", Clean'
             PROVE  seq' = latest' + 1
  BY DEF TightInv
<1>1. CASE hub # "none"
  <2>1. Clean /\ (Still \/ Burnt \/ \E t \in EventTypes : Sent(t))
    BY <1>1, HubStep
  <2> QED BY <1>1, <2>1 DEF Still, Burnt, Sent, TightInv
<1>2. CASE hub = "none"
  BY <1>2, HublessStep, SeededHub
<1> QED BY <1>1, <1>2

(* Every step keeps the first cursor in the files.                         *)
LEMMA FreshStep ==
    TypeOK /\ JournalInv /\ WindowInv /\ BegunInv /\ FreshInv /\ [Next]_vars => FreshInv'
<1> SUFFICES ASSUME TypeOK, JournalInv, WindowInv, BegunInv, FreshInv, [Next]_vars,
                    faults' = 0, FreshJournal'
             PROVE  /\ journal' # {} => \E rec \in journal' : rec.seq = 1
                    /\ hub' # "none" => earliest' <= 1
                    /\ hub' # "none" /\ journal' = {} => seq' = 1
  BY DEF FreshInv
<1>0. journal \subseteq journal' /\ faults = 0
  BY JournalGrows
<1>1. FreshJournal
  BY <1>0 DEF FreshJournal
<1>2. CASE hub # "none" /\ hub' # "none"
  <2>1. /\ earliest' = earliest /\ faults <= faults'
        /\ Still \/ Burnt \/ \E t \in EventTypes : Sent(t)
    BY <1>2, HubStep
  <2>2. faults = 0 /\ ~Burnt
    BY <2>1 DEF TypeOK, BoundTypes, Burnt, Clean
  <2>3. /\ journal # {} => \E rec \in journal : rec.seq = 1
        /\ earliest <= 1
        /\ journal = {} => seq = 1
    BY <1>1, <1>2, <2>2 DEF FreshInv
  <2>4. CASE Still
    <3>1. seq' = seq
      BY <2>4 DEF Still
    <3>2. journal = {} => \A t \in DeltaTypes : deltaBuf[t].parts = {}
      BY <2>2 DEF WindowInv, BegunInv
    <3>3. journal = {} => journal' = {}
      BY <2>4, <3>2 DEF Still
    <3> QED BY <1>0, <2>1, <2>3, <3>1, <3>3
  <2>5. CASE \E t \in EventTypes : Sent(t)
    <3>1. PICK t \in EventTypes : Sent(t)
      BY <2>5
    <3>2. CASE journal # {}
      BY <1>0, <2>1, <2>3, <3>2
    <3>3. CASE journal = {}
      <4>1. t = KeyEvent
        BY <2>2, <3>1, <3>3 DEF Sent, BegunInv
      <4>2. \E rec \in journal' : rec.seq = seq
        BY <3>1, <4>1 DEF Sent
      <4> QED BY <2>1, <2>3, <3>3, <4>2
    <3> QED BY <3>2, <3>3
  <2> QED BY <2>1, <2>2, <2>4, <2>5
<1>3. CASE hub = "none" \/ hub' = "none"
  <2>1. journal' = journal /\ faults' = faults /\ (hub' # "none" => NewEventHub)
    BY <1>0, <1>3, HublessStep
  <2>2. journal # {} => \E rec \in journal : rec.seq = 1
    BY <1>1, <2>1 DEF FreshInv
  <2> QED BY <2>1, <2>2, SeededHub
<1> QED BY <1>2, <1>3

(* A step that leaves client s and what was broadcast alone.               *)
Same(s) ==
    /\ Untouched(s) /\ live'[s] = live[s] /\ seen'[s] = seen[s]
    /\ s \in subs' => s \in subs
    /\ broadcast' = broadcast

(* A step that sends an event to the subscribers.                          *)
Fans(t) ==
    /\ FanOut(NextEvent(t)) /\ hub = "open" /\ hub' = "open" /\ seq' = seq + 1
    /\ UNCHANGED <<pump, watermark, replay, hand, lastSeq, ch, cursor, seen>>

(* The steps of client s and of its pump.                                  *)
OwnStep(s) == PumpStep(s) \/ ClientRead(s) \/ Subscribe(s)

(* The steps, by what they do to client s.                                 *)
LEMMA ClientKinds ==
    ASSUME TypeOK, [Next]_vars, NEW s \in Clients
    PROVE  \/ Same(s) \/ OwnStep(s) \/ Crash \/ Reload
           \/ \E t \in EventTypes : Fans(t)
<1>0. ASSUME UNCHANGED <<pump, watermark, replay, hand, lastSeq, ch, live, cursor, seen, broadcast>>,
             subs' \subseteq subs
      PROVE  Same(s)
  BY <1>0 DEF Same, Untouched
<1>1. CASE NewEventHub \/ BeginRun \/ FlushDeltaOnTimer \/ EndRun \/ JournalState \/ FinalizeRun
             \/ DeferredEndRun \/ CloseEvents \/ PublishRejected
  BY <1>0, <1>1
  DEF NewEventHub, BeginRun, FlushDeltaOnTimer, EndRun, JournalState, FinalizeRun, DeferredEndRun,
      CloseEvents, PublishRejected, subVars, clientVars
<1>2. CASE PublishKey
  <2>1. /\ hub = "open" /\ hub' = "open" /\ seq' = seq + 1
        /\ UNCHANGED <<pump, watermark, replay, hand, lastSeq, ch, cursor, seen>>
        /\ UNCHANGED <<subs, live, broadcast>> \/ FanOut(NextEvent(KeyEvent))
    BY <1>2 DEF PublishKey, clientVars, NextEvent
  <2> QED BY <1>0, <2>1 DEF Fans, EventTypes
<1>3. CASE \E t \in DeltaTypes : PublishDelta(t)
  <2>1. PICK t \in DeltaTypes : PublishDelta(t)
    BY <1>3
  <2>2. Fans(t)
    BY <2>1 DEF PublishDelta, clientVars, NextEvent, Fans
  <2> QED BY <2>2 DEF EventTypes
<1>4. ASSUME NEW c \in Clients, c # s, PumpStep(c) PROVE Same(s)
  <2>1. CASE PumpReplay(c)
    BY <1>4, <2>1 DEF PumpReplay, clientVars, TypeOK, SubTypes, Same, Untouched
  <2>2. CASE PumpReceive(c)
    BY <1>4, <2>2 DEF PumpReceive, clientVars, TypeOK, SubTypes, Same, Untouched
  <2>3. CASE PumpSend(c)
    BY <1>4, <2>3 DEF PumpSend, clientVars, TypeOK, SubTypes, Same, Untouched
  <2>4. CASE PumpStop(c)
    BY <1>4, <2>4 DEF PumpStop, clientVars, TypeOK, SubTypes, Same, Untouched
  <2>5. CASE PumpExit(c)
    BY <1>4, <2>5 DEF PumpExit, clientVars, TypeOK, SubTypes, Same, Untouched
  <2> QED BY <1>4, <2>1, <2>2, <2>3, <2>4, <2>5 DEF PumpStep
<1>5. ASSUME NEW c \in Clients, c # s, ClientRead(c) PROVE Same(s)
  BY <1>5 DEF ClientRead, TypeOK, SubTypes, ClientTypes, Same, Untouched
<1>6. ASSUME NEW c \in Clients, c # s, Subscribe(c) PROVE Same(s)
  BY <1>6 DEF Subscribe, clientVars, TypeOK, SubTypes, Same, Untouched
<1>7. ASSUME NEW c \in Clients, SubscribeReadError(c) \/ ClientCancel(c) PROVE Same(s)
  BY <1>0, <1>7 DEF SubscribeReadError, ClientCancel, subVars, clientVars
<1>8. CASE UNCHANGED vars
  BY <1>0, <1>8 DEF vars, subVars, clientVars
<1> QED BY <1>1, <1>2, <1>3, <1>4, <1>5, <1>6, <1>7, <1>8
  DEF Next, teeRunCallbacks, ClientStep, OwnStep

(* What the steps of a client and of its pump do to its subscription.      *)
LEMMA OwnSubscription ==
    ASSUME TypeOK, NEW s \in Clients, OwnStep(s), SubInv
    PROVE  /\ UNCHANGED <<hub, seq, latest, broadcast>>
           /\ watermark'[s] \in {watermark[s], latest}
           /\ watermark'[s] # watermark[s] => hub = "open"
           /\ pump'[s] = "off" => s \notin subs' /\ replay'[s] = {} /\ live'[s] = <<>>
           /\ pump'[s] \in {"off", "run"} => hand'[s] = {}
           /\ \A e, f \in hand'[s] : e = f
           /\ pump[s] = "off" => pump'[s] = "off" \/ hub = "open"
<1>1. CASE PumpReplay(s)
  BY <1>1 DEF PumpReplay, TypeOK, SubTypes, hubVars, SubInv
<1>2. CASE PumpReceive(s)
  BY <1>2 DEF PumpReceive, TypeOK, SubTypes, hubVars, SubInv
<1>3. CASE PumpSend(s)
  BY <1>3 DEF PumpSend, TypeOK, SubTypes, hubVars, SubInv
<1>4. CASE PumpStop(s)
  BY <1>4 DEF PumpStop, TypeOK, SubTypes, hubVars, SubInv
<1>5. CASE PumpExit(s)
  BY <1>5 DEF PumpExit, TypeOK, SubTypes, hubVars, SubInv
<1>6. CASE ClientRead(s)
  <2>1. UNCHANGED <<hub, seq, latest, broadcast, watermark, pump, replay, live, hand, subs>>
    BY <1>6 DEF ClientRead, hubVars
  <2> QED BY <2>1 DEF SubInv
<1>7. CASE Subscribe(s)
  BY <1>7 DEF Subscribe, Subscribable, TypeOK, SubTypes, hubVars, SubInv
<1> QED BY <1>1, <1>2, <1>3, <1>4, <1>5, <1>6, <1>7 DEF OwnStep, PumpStep

(* Every step keeps the subscriptions behind their hub.                    *)
LEMMA SubStep ==
    TypeOK /\ JournalInv /\ WindowInv /\ SubInv /\ [Next]_vars => SubInv'
<1> SUFFICES ASSUME TypeOK, JournalInv, WindowInv, SubInv, [Next]_vars PROVE SubInv'
  OBVIOUS
<1>0. seq \in Nat /\ latest \in Nat /\ seq > 0
  BY DEF TypeOK, HubTypes
<1>1. hub' # "none" => /\ latest' < seq' /\ 0 < seq' /\ (hub # "none" => seq <= seq')
  <2>1. CASE hub' # "none" /\ hub # "none"
    BY <1>0, <2>1, HubStep DEF Still, Burnt, Sent, SubInv
  <2>2. CASE hub' # "none" /\ hub = "none"
    <3>1. NewEventHub
      BY <2>2, HublessStep
    <3> QED BY <2>2, <3>1, SeededHub
  <2> QED BY <2>1, <2>2
<1>2. ASSUME NEW s \in Clients
      PROVE  /\ hub' = "none" => pump'[s] = "off" /\ watermark'[s] = 0
             /\ hub' # "none" => watermark'[s] < seq'
             /\ pump'[s] = "off" => s \notin subs' /\ replay'[s] = {} /\ live'[s] = <<>>
             /\ pump'[s] \in {"off", "run"} => hand'[s] = {}
             /\ \A e, f \in hand'[s] : e = f
  <2>0. watermark[s] \in Nat
    BY ClientTypesOf
  <2>1. CASE Crash \/ Reload
    <3>1. ForgetHub
      BY <2>1 DEF Crash, Reload
    <3> QED BY <3>1 DEF ForgetHub
  <2>2. CASE Same(s)
    <3>1. hub' = "none" /\ hub # "none" => Crash \/ Reload
      BY HublessStep
    <3>2. /\ pump'[s] = pump[s] /\ replay'[s] = replay[s] /\ hand'[s] = hand[s]
          /\ watermark'[s] = watermark[s] /\ live'[s] = live[s] /\ (s \in subs' => s \in subs)
      BY <2>2 DEF Same, Untouched
    <3>3. /\ hub = "none" => pump[s] = "off" /\ watermark[s] = 0
          /\ hub # "none" => watermark[s] < seq
          /\ pump[s] = "off" => s \notin subs /\ replay[s] = {} /\ live[s] = <<>>
          /\ pump[s] \in {"off", "run"} => hand[s] = {}
          /\ \A e, f \in hand[s] : e = f
      BY DEF SubInv
    <3>4. hub' # "none" => watermark'[s] < seq'
      <4>1. CASE hub = "none"
        BY <1>1, <3>2, <3>3, <4>1
      <4>2. CASE hub # "none" /\ hub' # "none"
        <5>1. seq' \in Nat /\ seq <= seq' /\ watermark[s] < seq
          BY <1>1, <3>3, <4>2, TypeStep DEF TypeOK, HubTypes
        <5> QED BY <1>0, <2>0, <3>2, <5>1
      <4> QED BY <4>1, <4>2
    <3>5. CASE hub' = "none" /\ hub # "none"
      BY <2>1, <3>1, <3>5
    <3>6. CASE hub' # "none" \/ hub = "none"
      BY <3>2, <3>3, <3>4, <3>6
    <3> QED BY <3>5, <3>6
  <2>3. CASE OwnStep(s)
    <3>1. /\ UNCHANGED <<hub, seq, latest>>
          /\ watermark'[s] \in {watermark[s], latest}
          /\ watermark'[s] # watermark[s] => hub = "open"
          /\ pump'[s] = "off" => s \notin subs' /\ replay'[s] = {} /\ live'[s] = <<>>
          /\ pump'[s] \in {"off", "run"} => hand'[s] = {}
          /\ \A e, f \in hand'[s] : e = f
          /\ pump[s] = "off" => pump'[s] = "off" \/ hub = "open"
      BY <2>3, OwnSubscription
    <3> QED BY <3>1 DEF SubInv
  <2>4. ASSUME NEW t \in EventTypes, Fans(t)
        PROVE  /\ hub' # "none" /\ UNCHANGED <<pump, watermark, replay, hand>>
               /\ hub # "none" /\ seq' = seq + 1
               /\ pump[s] = "off" => s \notin subs' /\ live'[s] = <<>>
    <3>1. CASE s \notin subs
      BY <2>4, <3>1 DEF Fans, FanOut, SubInv
    <3>2. CASE s \in subs
      BY <2>4, <3>2 DEF Fans, FanOut, SubInv
    <3> QED BY <3>1, <3>2
  <2>5. CASE \E t \in EventTypes : Fans(t)
    <3>1. /\ hub' # "none" /\ UNCHANGED <<pump, watermark, replay, hand>>
          /\ hub # "none" /\ seq' = seq + 1
          /\ pump[s] = "off" => s \notin subs' /\ live'[s] = <<>>
      BY <2>4, <2>5
    <3> QED BY <1>0, <2>0, <3>1 DEF SubInv
  <2> QED BY <2>1, <2>2, <2>3, <2>5, ClientKinds
<1> QED BY <1>1, <1>2 DEF SubInv

-----------------------------------------------------------------------------
(* The deliveries.                                                         *)

(* What the clients are owed: all that was broadcast, but for what was     *)
(* lost unnoticed behind the half line of a state record.                  *)
Owed == broadcast \ swallowed

(* Everything owed up to the cursor of s has been received by it.          *)
Reached(s) == \A e \in Owed : e.seq <= cursor[s] => e \in seen[s]

(* Everything owed behind the cursor is on its way to a subscriber,        *)
(* and to a disconnected one up to the last event that is on its way.      *)
Connected(s) ==
    pump[s] \in {"run", "send"} =>
        \A e \in Owed :
            /\ e.seq > cursor[s]
            /\ s \in subs \/ \E f \in InFlight(s) : e.seq <= f.seq
            => e \in InFlight(s)

(* What the pump has sent up to lastSeq waits in the channel.              *)
Queued(s) ==
    \A e \in Owed : cursor[s] < e.seq /\ e.seq <= lastSeq[s] => e \in SeqElements(ch[s])

(* Events on their way, the cursor and lastSeq come from the history.      *)
Traceable(s) ==
    /\ InFlight(s) \subseteq Kept
    /\ cursor[s] = 0 \/ \E e \in Kept : e.seq = cursor[s]
    /\ lastSeq[s] = 0 \/ \E e \in Kept : e.seq = lastSeq[s]

(* The replay, the event in hand and the live ones follow each other.      *)
Ordered(s) ==
    /\ \A i, j \in DOMAIN live[s] : i < j => live[s][i].seq < live[s][j].seq
    /\ \A e \in hand[s], f \in SeqElements(live[s]) : e.seq < f.seq
    /\ \A e \in replay[s] : e.seq <= watermark[s]

(* What a client is owed, and that it holds while the history is trusted.  *)
Delivers(s) == Reached(s) /\ Connected(s) /\ Queued(s) /\ Traceable(s) /\ Ordered(s)

DeliveryInv == Trusted => \A s \in Clients : Delivers(s)

(* The elements of a queue.                                                *)
LEMMA ElementsOf ==
    ASSUME NEW q \in Seq(Event)
    PROVE  /\ \A e \in Event : SeqElements(Append(q, e)) = SeqElements(q) \cup {e}
           /\ q # <<>> => SeqElements(q) = {Head(q)} \cup SeqElements(Tail(q))
           /\ SeqElements(q) \subseteq Event
<1>1. ASSUME NEW e \in Event PROVE SeqElements(Append(q, e)) = SeqElements(q) \cup {e}
  <2>1. /\ DOMAIN Append(q, e) = DOMAIN q \cup {Len(q) + 1}
        /\ Append(q, e)[Len(q) + 1] = e
        /\ \A i \in DOMAIN q : Append(q, e)[i] = q[i]
    OBVIOUS
  <2> QED BY <2>1 DEF SeqElements
<1>2. ASSUME q # <<>> PROVE SeqElements(q) = {Head(q)} \cup SeqElements(Tail(q))
  <2>1. Head(q) = q[1] /\ 1 \in DOMAIN q
    BY <1>2
  <2>2. \A i \in DOMAIN Tail(q) : i + 1 \in DOMAIN q /\ Tail(q)[i] = q[i + 1]
    BY <1>2
  <2>3. \A i \in DOMAIN q : i = 1 \/ (i - 1 \in DOMAIN Tail(q) /\ Tail(q)[i - 1] = q[i])
    BY <1>2
  <2>4. ASSUME NEW i \in DOMAIN q PROVE q[i] \in {Head(q)} \cup SeqElements(Tail(q))
    <3>1. CASE i = 1
      BY <2>1, <3>1
    <3>2. CASE i - 1 \in DOMAIN Tail(q) /\ Tail(q)[i - 1] = q[i]
      BY <3>2 DEF SeqElements
    <3> QED BY <2>3, <3>1, <3>2
  <2>5. SeqElements(Tail(q)) \subseteq SeqElements(q)
    BY <2>2 DEF SeqElements
  <2>6. Head(q) \in SeqElements(q)
    BY <2>1 DEF SeqElements
  <2>7. SeqElements(q) \subseteq {Head(q)} \cup SeqElements(Tail(q))
    BY <2>4 DEF SeqElements
  <2> QED BY <2>5, <2>6, <2>7
<1>3. SeqElements(q) \subseteq Event
  BY DEF SeqElements
<1> QED BY <1>1, <1>2, <1>3

(* The first element of an ascending queue is before the rest.             *)
LEMMA HeadIsFirst ==
    ASSUME NEW q \in Seq(Event), q # <<>>,
           \A i, j \in DOMAIN q : i < j => q[i].seq < q[j].seq
    PROVE  \A f \in SeqElements(Tail(q)) : Head(q).seq < f.seq
<1>1. Head(q) = q[1] /\ 1 \in DOMAIN q
  OBVIOUS
<1>2. \A i \in DOMAIN Tail(q) : i + 1 \in DOMAIN q /\ Tail(q)[i] = q[i + 1] /\ 1 < i + 1
  OBVIOUS
<1> QED BY <1>1, <1>2 DEF SeqElements

(* The rest of an ascending queue is ascending.                            *)
LEMMA TailAscends ==
    ASSUME NEW q \in Seq(Event), q # <<>>,
           \A i, j \in DOMAIN q : i < j => q[i].seq < q[j].seq
    PROVE  \A i, j \in DOMAIN Tail(q) : i < j => Tail(q)[i].seq < Tail(q)[j].seq
<1>1. \A i \in DOMAIN Tail(q) : i \in Nat /\ i + 1 \in DOMAIN q /\ Tail(q)[i] = q[i + 1]
  OBVIOUS
<1> QED BY <1>1

(* What the ascending invariant says of the elements of the queues.        *)
LEMMA ElementsOrdered ==
    ASSUME TypeOK, NEW s \in Clients, ClientInv(s)
    PROVE  /\ \A f \in SeqElements(ch[s]) : f \in Event /\ cursor[s] < f.seq /\ f.seq <= lastSeq[s]
           /\ \A f \in SeqElements(live[s]) : f \in Event /\ watermark[s] < f.seq
  BY ClientTypesOf DEF ClientInv, SeqElements

(* Events on their way, and the client's marks, are before the next one.   *)
LEMMA BeforeNext ==
    ASSUME TypeOK, JournalInv, hub # "none", NEW s \in Clients, Traceable(s)
    PROVE  /\ \A e \in Kept : e.seq \in Nat /\ e.seq < seq
           /\ cursor[s] < seq /\ lastSeq[s] < seq
<1>1. /\ journal \in SUBSET Record /\ deltaBuf \in [DeltaTypes -> Bucket] /\ seq \in Nat /\ 0 < seq
      /\ Sound(journal, deltaBuf, seq)
      /\ \A e \in swallowed : e \in Event /\ e.seq < seq
  BY DEF TypeOK, HubTypes, DiskTypes, JournalInv
<1>2. \A e \in Kept : e.seq \in Nat /\ e.seq < seq
  BY <1>1, EventsBeforeNext, RecordTypes DEF Kept, Durable
<1> QED BY <1>1, <1>2 DEF Traceable

(* While the history is trusted, what was lost unnoticed stays lost.       *)
LEMMA OwedStep ==
    ASSUME TypeOK, JournalInv, WindowInv, CountInv, [Next]_vars, Trusted'
    PROVE  /\ swallowed \subseteq swallowed'
           /\ UNCHANGED broadcast => Owed' \subseteq Owed
<1>1. CASE hub # "none" /\ hub' # "none"
  BY <1>1, HubStep DEF Owed
<1>2. CASE hub = "none" \/ hub' = "none"
  <2>1. UNCHANGED faults /\ (faults = 0 \/ hub = "none" => UNCHANGED swallowed)
    BY <1>2, HublessStep
  <2>2. hub' = "none" => faults' = 0
    <3>1. faults' \in Nat /\ crashes' \in Nat
      BY TypeStep DEF TypeOK, BoundTypes
    <3> QED BY <3>1, SumOfNone DEF Trusted
  <2> QED BY <1>2, <2>1, <2>2 DEF Owed
<1> QED BY <1>1, <1>2

(* A step that leaves a client alone keeps its deliveries.                 *)
LEMMA SameDelivers ==
    ASSUME NEW s \in Clients, Delivers(s), Same(s), Kept \subseteq Kept',
           swallowed \subseteq swallowed'
    PROVE  Delivers(s)'
<1>0. Owed' \subseteq Owed
  BY DEF Owed, Same
<1>1. InFlight(s)' = InFlight(s)
  BY DEF InFlight, Same, Untouched
<1>2. Reached(s)' /\ Queued(s)'
  BY <1>0 DEF Delivers, Reached, Queued, Same, Untouched
<1>3. Connected(s)'
  BY <1>0, <1>1 DEF Delivers, Connected, Same, Untouched
<1>4. Traceable(s)'
  BY <1>1 DEF Delivers, Traceable, Same, Untouched
<1>5. Ordered(s)'
  BY DEF Delivers, Ordered, Same, Untouched
<1> QED BY <1>2, <1>3, <1>4, <1>5 DEF Delivers

(* fanOutLocked reaches every subscriber or disconnects it.                *)
LEMMA FansDelivers ==
    ASSUME TypeOK, JournalInv, SubInv, NEW s \in Clients, Delivers(s),
           NEW t \in EventTypes, Fans(t), Kept \subseteq Kept', NextEvent(t) \in Kept',
           swallowed \subseteq swallowed'
    PROVE  Delivers(s)'
<1> DEFINE e0 == NextEvent(t)
<1>1. e0 \in Event /\ e0.seq = seq
  BY NextEventType DEF NextEvent
<1>2. hub # "none" /\ Traceable(s)
  BY DEF Fans, Delivers
<1>3. /\ \A e \in Kept : e.seq \in Nat /\ e.seq < seq
      /\ cursor[s] < seq /\ lastSeq[s] < seq
  BY <1>2, BeforeNext
<1>4. /\ seq \in Nat /\ watermark[s] \in Nat /\ cursor[s] \in Nat /\ lastSeq[s] \in Nat
      /\ live[s] \in Seq(Event) /\ watermark[s] < seq
  BY <1>2, ClientTypesOf DEF TypeOK, HubTypes, SubInv
<1>5. /\ Owed' \subseteq Owed \cup {e0}
      /\ s \in subs' => s \in subs /\ live'[s] = Append(live[s], e0)
      /\ s \notin subs' => live'[s] = live[s]
      /\ live'[s] \in {live[s], Append(live[s], e0)}
  BY <1>1, <1>4 DEF Fans, FanOut, Owed
<1>6. /\ pump'[s] = pump[s] /\ watermark'[s] = watermark[s] /\ replay'[s] = replay[s]
      /\ hand'[s] = hand[s] /\ lastSeq'[s] = lastSeq[s] /\ ch'[s] = ch[s]
      /\ cursor'[s] = cursor[s] /\ seen'[s] = seen[s]
  BY DEF Fans
<1> HIDE DEF e0
<1>7. /\ s \in subs' => InFlight(s)' = InFlight(s) \cup {e0}
      /\ s \notin subs' => InFlight(s)' = InFlight(s)
      /\ SeqElements(live'[s]) \subseteq SeqElements(live[s]) \cup {e0}
      /\ InFlight(s)' \subseteq InFlight(s) \cup {e0}
  <2>1. /\ SeqElements(Append(live[s], e0)) = SeqElements(live[s]) \cup {e0}
        /\ InFlight(s) = SeqElements(ch[s]) \cup hand[s] \cup replay[s] \cup SeqElements(live[s])
        /\ InFlight(s)' = SeqElements(ch[s]) \cup hand[s] \cup replay[s] \cup SeqElements(live'[s])
    BY <1>1, <1>4, <1>6, ElementsOf DEF InFlight
  <2>2. CASE s \in subs'
    BY <1>5, <2>1, <2>2
  <2>3. CASE s \notin subs'
    BY <1>5, <2>1, <2>3
  <2> QED BY <2>2, <2>3
<1>8. \A f \in InFlight(s) : f.seq \in Nat /\ f.seq < seq
  BY <1>3 DEF Delivers, Traceable
<1>9. Reached(s)' /\ Queued(s)'
  BY <1>1, <1>3, <1>4, <1>5, <1>6 DEF Delivers, Reached, Queued
<1>10. Connected(s)'
  <2> SUFFICES ASSUME pump[s] \in {"run", "send"}, NEW e \in Owed', e.seq > cursor[s],
                      s \in subs' \/ \E f \in InFlight(s)' : e.seq <= f.seq
               PROVE  e \in InFlight(s)'
    BY <1>6 DEF Connected
  <2>1. CASE s \in subs'
    BY <1>5, <1>7, <2>1 DEF Delivers, Connected
  <2>2. CASE s \notin subs'
    <3>1. PICK f \in InFlight(s) : e.seq <= f.seq
      BY <1>7, <2>2
    <3>2. e # e0
      BY <1>1, <1>4, <1>8, <3>1
    <3> QED BY <1>5, <1>7, <2>2, <3>1, <3>2 DEF Delivers, Connected
  <2> QED BY <2>1, <2>2
<1>11. Traceable(s)'
  <2>1. e0 \in Kept'
    BY DEF e0
  <2> QED BY <1>6, <1>7, <2>1 DEF Delivers, Traceable
<1>12. Ordered(s)'
  <2>1. \A i \in DOMAIN live[s] : live[s][i] \in InFlight(s)
    BY DEF InFlight, SeqElements
  <2>2. \A i, j \in DOMAIN live'[s] : i < j => live'[s][i].seq < live'[s][j].seq
    <3>1. CASE live'[s] = live[s]
      BY <3>1 DEF Delivers, Ordered
    <3>2. CASE live'[s] = Append(live[s], e0)
      <4>1. /\ \A i \in DOMAIN live[s] : live'[s][i] = live[s][i] /\ live'[s][i].seq < seq
            /\ live'[s][Len(live[s]) + 1].seq = seq
            /\ DOMAIN live'[s] = 1..(Len(live[s]) + 1) /\ DOMAIN live[s] = 1..Len(live[s])
            /\ Len(live[s]) \in Nat
        BY <1>1, <1>4, <1>8, <2>1, <3>2
      <4>2. ASSUME NEW i \in DOMAIN live'[s], NEW j \in DOMAIN live'[s], i < j
            PROVE  live'[s][i].seq < live'[s][j].seq
        <5>1. CASE j = Len(live[s]) + 1
          <6>1. i \in DOMAIN live[s]
            BY <4>1, <4>2, <5>1
          <6> QED BY <4>1, <5>1, <6>1
        <5>2. CASE j # Len(live[s]) + 1
          <6>1. i \in DOMAIN live[s] /\ j \in DOMAIN live[s]
            BY <4>1, <4>2, <5>2
          <6>2. live[s][i].seq < live[s][j].seq
            BY <4>2, <6>1 DEF Delivers, Ordered
          <6> QED BY <4>1, <6>1, <6>2
        <5> QED BY <5>1, <5>2
      <4> QED BY <4>2
    <3> QED BY <1>5, <3>1, <3>2
  <2>3. \A e \in hand[s] : e \in InFlight(s)
    BY DEF InFlight
  <2>4. \A e \in hand'[s], f \in SeqElements(live'[s]) : e.seq < f.seq
    BY <1>1, <1>6, <1>7, <1>8, <2>3 DEF Delivers, Ordered
  <2> QED BY <1>6, <2>2, <2>4 DEF Delivers, Ordered
<1> QED BY <1>9, <1>10, <1>11, <1>12 DEF Delivers

(* The parts of what is on its way.                                        *)
LEMMA InFlightParts ==
    ASSUME NEW s \in Clients
    PROVE  /\ InFlight(s) = SeqElements(ch[s]) \cup hand[s] \cup replay[s] \cup SeqElements(live[s])
           /\ InFlight(s)' = SeqElements(ch'[s]) \cup hand'[s] \cup replay'[s]
                                \cup SeqElements(live'[s])
  BY DEF InFlight

(* Replay moves the next event to the channel.                             *)
LEMMA ReplayDelivers ==
    ASSUME TypeOK, SubInv, NEW s \in Clients, ClientInv(s), Delivers(s), PumpReplay(s),
           Kept \subseteq Kept', Owed' \subseteq Owed
    PROVE  Delivers(s)'
<1>1. PICK e0 \in replay[s] :
         /\ \A f \in replay[s] : e0.seq <= f.seq
         /\ ch' = [ch EXCEPT ![s] = Append(@, e0)]
         /\ replay' = [replay EXCEPT ![s] = @ \ {e0}]
         /\ lastSeq' = [lastSeq EXCEPT ![s] = e0.seq]
  BY DEF PumpReplay
<1>2. /\ ch'[s] = Append(ch[s], e0) /\ replay'[s] = replay[s] \ {e0} /\ lastSeq'[s] = e0.seq
      /\ pump[s] = "run" /\ UNCHANGED <<pump, watermark, live, hand, cursor, seen, subs, broadcast>>
  BY <1>1 DEF PumpReplay, TypeOK, SubTypes, clientVars
<1>3. /\ ch[s] \in Seq(Event) /\ e0 \in Event /\ e0.seq \in Nat /\ lastSeq[s] \in Nat
      /\ cursor[s] \in Nat /\ watermark[s] \in Nat /\ \A f \in replay[s] : f.seq \in Nat
      /\ Owed \subseteq Event /\ \A f \in Event : f.seq \in Nat
  BY <1>1, ClientTypesOf, RecordTypes DEF TypeOK, Owed
<1>4. hand[s] = {}
  BY <1>2 DEF SubInv
<1>5. SeqElements(ch'[s]) = SeqElements(ch[s]) \cup {e0}
  BY <1>2, <1>3, ElementsOf
<1>6. InFlight(s)' = InFlight(s) /\ e0 \in InFlight(s)
  <2>1. InFlight(s)' = (SeqElements(ch[s]) \cup {e0}) \cup hand[s] \cup (replay[s] \ {e0})
                          \cup SeqElements(live[s])
    BY <1>2, <1>5, InFlightParts
  <2>2. InFlight(s) = SeqElements(ch[s]) \cup hand[s] \cup replay[s] \cup SeqElements(live[s])
    BY InFlightParts
  <2> QED BY <1>1, <2>1, <2>2
<1>7. /\ \A f \in SeqElements(ch[s]) : f.seq <= lastSeq[s]
      /\ \A f \in SeqElements(live[s]) : f \in Event /\ watermark[s] < f.seq
  BY ElementsOrdered
<1>8. Queued(s)'
  <2> SUFFICES ASSUME NEW e \in Owed, cursor[s] < e.seq, e.seq <= e0.seq
               PROVE  e \in SeqElements(ch[s]) \cup {e0}
    BY <1>2, <1>5 DEF Queued
  <2>1. CASE e.seq <= lastSeq[s]
    BY <2>1 DEF Delivers, Queued
  <2>2. CASE ~(e.seq <= lastSeq[s])
    <3>1. e \in InFlight(s)
      BY <1>2, <1>3, <1>6 DEF Delivers, Connected
    <3>2. e \notin SeqElements(ch[s])
      BY <1>7, <2>2
    <3>3. e \notin SeqElements(live[s])
      <4>1. e0.seq <= watermark[s]
        BY <1>1 DEF Delivers, Ordered
      <4> QED BY <1>3, <1>7, <4>1
    <3>4. e \in replay[s]
      BY <1>4, <3>1, <3>2, <3>3, InFlightParts
    <3>5. e.seq = e0.seq
      BY <1>1, <1>3, <3>4
    <3> QED BY <1>1, <3>4, <3>5 DEF ClientInv, SeqUnique
  <2> QED BY <2>1, <2>2
<1>9. Reached(s)' /\ Connected(s)'
  BY <1>2, <1>6 DEF Delivers, Reached, Connected
<1>10. Traceable(s)'
  <2>1. e0 \in Kept'
    BY <1>6 DEF Delivers, Traceable
  <2> QED BY <1>2, <1>6, <2>1 DEF Delivers, Traceable
<1>11. Ordered(s)'
  BY <1>2 DEF Delivers, Ordered
<1> QED BY <1>8, <1>9, <1>10, <1>11 DEF Delivers

(* A live event is taken in hand, or skipped when it is in the channel.    *)
LEMMA ReceiveDelivers ==
    ASSUME TypeOK, SubInv, NEW s \in Clients, ClientInv(s), Delivers(s), PumpReceive(s),
           Kept \subseteq Kept', Owed' \subseteq Owed
    PROVE  Delivers(s)'
<1> DEFINE h == Head(live[s])
<1>1. /\ live[s] # <<>> /\ live'[s] = Tail(live[s]) /\ replay[s] = {} /\ pump[s] = "run"
      /\ UNCHANGED <<watermark, replay, lastSeq, ch, cursor, seen, subs, broadcast>>
      /\ \/ h.seq <= lastSeq[s] /\ hand'[s] = hand[s] /\ pump'[s] = pump[s]
         \/ ~(h.seq <= lastSeq[s]) /\ hand'[s] = {h} /\ pump'[s] = "send"
  BY DEF PumpReceive, TypeOK, SubTypes, clientVars
<1>2. /\ live[s] \in Seq(Event) /\ hand[s] = {}
      /\ SeqElements(live[s]) = {h} \cup SeqElements(Tail(live[s]))
  BY <1>1, ClientTypesOf, ElementsOf DEF SubInv
<1>3. /\ \A i, j \in DOMAIN live[s] : i < j => live[s][i].seq < live[s][j].seq
  BY DEF Delivers, Ordered
<1>4. /\ \A f \in SeqElements(Tail(live[s])) : h.seq < f.seq
      /\ \A i, j \in DOMAIN Tail(live[s]) : i < j => Tail(live[s])[i].seq < Tail(live[s])[j].seq
  BY <1>1, <1>2, <1>3, HeadIsFirst, TailAscends
<1> HIDE DEF h
<1>5. InFlight(s)' \subseteq InFlight(s) /\ InFlight(s) \subseteq InFlight(s)' \cup {h}
  BY <1>1, <1>2, InFlightParts
<1>6. h \notin InFlight(s)' => h.seq <= lastSeq[s]
  BY <1>1, InFlightParts
<1>7. Reached(s)' /\ Queued(s)'
  BY <1>1 DEF Delivers, Reached, Queued
<1>8. Connected(s)'
  <2> SUFFICES ASSUME NEW e \in Owed, e.seq > cursor[s],
                      s \in subs \/ \E f \in InFlight(s)' : e.seq <= f.seq
               PROVE  e \in InFlight(s)'
    BY <1>1 DEF Connected
  <2>1. e \in InFlight(s)
    BY <1>1, <1>5 DEF Delivers, Connected
  <2>2. CASE e # h
    BY <1>5, <2>1, <2>2
  <2>3. CASE e = h /\ h \notin InFlight(s)'
    <3>1. cursor[s] < e.seq /\ e.seq <= lastSeq[s]
      <4>1. e.seq \in Nat /\ cursor[s] \in Nat
        BY ClientTypesOf, RecordTypes DEF TypeOK, Owed
      <4> QED BY <1>6, <2>3, <4>1
    <3>2. e \in SeqElements(ch[s])
      BY <3>1 DEF Delivers, Queued
    <3> QED BY <1>1, <3>2, InFlightParts
  <2> QED BY <2>2, <2>3
<1>9. Traceable(s)'
  BY <1>1, <1>5 DEF Delivers, Traceable
<1>10. Ordered(s)'
  BY <1>1, <1>2, <1>4 DEF Delivers, Ordered
<1> QED BY <1>7, <1>8, <1>9, <1>10 DEF Delivers

(* The event in hand goes to the channel.                                  *)
LEMMA SendDelivers ==
    ASSUME TypeOK, SubInv, NEW s \in Clients, ClientInv(s), Delivers(s), PumpSend(s),
           Kept \subseteq Kept', Owed' \subseteq Owed
    PROVE  Delivers(s)'
<1>1. PICK e0 \in hand[s] :
         /\ ch' = [ch EXCEPT ![s] = Append(@, e0)]
         /\ lastSeq' = [lastSeq EXCEPT ![s] = e0.seq]
  BY DEF PumpSend
<1>2. /\ ch'[s] = Append(ch[s], e0) /\ lastSeq'[s] = e0.seq /\ pump[s] = "send"
      /\ hand'[s] = {} /\ pump'[s] = "run"
      /\ UNCHANGED <<watermark, replay, live, cursor, seen, subs, broadcast>>
  BY <1>1 DEF PumpSend, TypeOK, SubTypes, clientVars
<1>3. /\ ch[s] \in Seq(Event) /\ e0 \in Event /\ e0.seq \in Nat /\ lastSeq[s] \in Nat
      /\ cursor[s] \in Nat /\ Owed \subseteq Event /\ \A f \in Event : f.seq \in Nat
  BY <1>1, ClientTypesOf, RecordTypes DEF TypeOK, Owed
<1>4. hand[s] = {e0}
  BY <1>1 DEF SubInv
<1>5. SeqElements(ch'[s]) = SeqElements(ch[s]) \cup {e0}
  BY <1>2, <1>3, ElementsOf
<1>6. InFlight(s)' = InFlight(s) /\ e0 \in InFlight(s)
  <2>1. InFlight(s)' = (SeqElements(ch[s]) \cup {e0}) \cup {} \cup replay[s]
                          \cup SeqElements(live[s])
    BY <1>2, <1>5, InFlightParts
  <2>2. InFlight(s) = SeqElements(ch[s]) \cup {e0} \cup replay[s] \cup SeqElements(live[s])
    BY <1>4, InFlightParts
  <2> QED BY <2>1, <2>2
<1>7. \A f \in SeqElements(ch[s]) : f.seq <= lastSeq[s]
  BY ElementsOrdered
<1>8. Queued(s)'
  <2> SUFFICES ASSUME NEW e \in Owed, cursor[s] < e.seq, e.seq <= e0.seq
               PROVE  e \in SeqElements(ch[s]) \cup {e0}
    BY <1>2, <1>5 DEF Queued
  <2>1. CASE e.seq <= lastSeq[s]
    BY <2>1 DEF Delivers, Queued
  <2>2. CASE ~(e.seq <= lastSeq[s])
    <3>1. e \in InFlight(s)
      BY <1>2, <1>3, <1>6 DEF Delivers, Connected
    <3>2. e \notin SeqElements(ch[s])
      BY <1>7, <2>2
    <3>3. e \notin SeqElements(live[s])
      <4>1. \A f \in SeqElements(live[s]) : e0.seq < f.seq
        BY <1>1 DEF Delivers, Ordered
      <4> QED BY <1>3, <4>1
    <3>4. e \notin replay[s]
      BY <1>2 DEF ClientInv
    <3> QED BY <1>4, <3>1, <3>2, <3>3, <3>4, InFlightParts
  <2> QED BY <2>1, <2>2
<1>9. Reached(s)' /\ Connected(s)'
  BY <1>2, <1>6 DEF Delivers, Reached, Connected
<1>10. Traceable(s)'
  <2>1. e0 \in Kept'
    BY <1>6 DEF Delivers, Traceable
  <2> QED BY <1>2, <1>6, <2>1 DEF Delivers, Traceable
<1>11. Ordered(s)'
  BY <1>2 DEF Delivers, Ordered
<1> QED BY <1>8, <1>9, <1>10, <1>11 DEF Delivers

(* A pump that ends leaves the channel and the cursor.                     *)
LEMMA StopDelivers ==
    ASSUME TypeOK, NEW s \in Clients, Delivers(s), PumpStop(s) \/ PumpExit(s),
           Kept \subseteq Kept', Owed' \subseteq Owed
    PROVE  Delivers(s)'
<1>1. /\ UNCHANGED <<watermark, lastSeq, ch, cursor, seen, broadcast>>
      /\ pump'[s] \in {"exit", "off"}
      /\ live'[s] \in {live[s], <<>>} /\ replay'[s] \subseteq replay[s] /\ hand'[s] \subseteq hand[s]
  BY DEF PumpStop, PumpExit, TypeOK, SubTypes, clientVars
<1>2. SeqElements(<<>>) = {}
  BY DEF SeqElements
<1>3. SeqElements(live'[s]) \subseteq SeqElements(live[s])
  BY <1>1, <1>2
<1>4. InFlight(s)' \subseteq InFlight(s)
  BY <1>1, <1>3, InFlightParts
<1>5. Reached(s)' /\ Queued(s)' /\ Connected(s)'
  BY <1>1 DEF Delivers, Reached, Queued, Connected
<1>6. Traceable(s)'
  BY <1>1, <1>4 DEF Delivers, Traceable
<1>7. \A i, j \in DOMAIN live'[s] : i < j => live'[s][i].seq < live'[s][j].seq
  BY <1>1 DEF Delivers, Ordered
<1>8. Ordered(s)'
  BY <1>1, <1>3, <1>7 DEF Delivers, Ordered
<1> QED BY <1>5, <1>6, <1>8 DEF Delivers

(* The client receives the next event.                                     *)
LEMMA ReadDelivers ==
    ASSUME TypeOK, NEW s \in Clients, ClientInv(s), Delivers(s), ClientRead(s),
           Kept \subseteq Kept', Owed' \subseteq Owed
    PROVE  Delivers(s)'
<1> DEFINE h == Head(ch[s])
<1>1. /\ ch[s] # <<>> /\ ch'[s] = Tail(ch[s]) /\ cursor'[s] = h.seq
      /\ seen'[s] = seen[s] \cup {h}
      /\ UNCHANGED <<pump, watermark, replay, live, hand, lastSeq, subs, broadcast>>
  BY DEF ClientRead, TypeOK, SubTypes, ClientTypes
<1>2. /\ ch[s] \in Seq(Event)
      /\ SeqElements(ch[s]) = {h} \cup SeqElements(Tail(ch[s]))
  BY <1>1, ClientTypesOf, ElementsOf
<1>3. \A f \in SeqElements(Tail(ch[s])) : h.seq < f.seq
  BY <1>1, <1>2, HeadIsFirst DEF ClientInv
<1>4. cursor[s] < h.seq /\ h.seq <= lastSeq[s] /\ h \in Event
  BY <1>2, ElementsOrdered
<1>5. /\ cursor[s] \in Nat /\ lastSeq[s] \in Nat /\ h.seq \in Nat
      /\ \A e \in Owed : e.seq \in Nat
  BY <1>4, ClientTypesOf, RecordTypes DEF TypeOK, Owed
<1> HIDE DEF h
<1>6. InFlight(s)' \subseteq InFlight(s) /\ InFlight(s) \subseteq InFlight(s)' \cup {h}
      /\ h \in InFlight(s)
  BY <1>1, <1>2, InFlightParts
<1>7. Reached(s)'
  <2> SUFFICES ASSUME NEW e \in Owed, e.seq <= h.seq PROVE e \in seen[s] \cup {h}
    BY <1>1 DEF Reached
  <2>1. CASE e.seq <= cursor[s]
    BY <2>1 DEF Delivers, Reached
  <2>2. CASE ~(e.seq <= cursor[s])
    <3>1. e \in SeqElements(ch[s])
      BY <1>4, <1>5, <2>2 DEF Delivers, Queued
    <3> QED BY <1>2, <1>3, <1>5, <3>1
  <2> QED BY <2>1, <2>2
<1>8. Queued(s)'
  <2> SUFFICES ASSUME NEW e \in Owed, h.seq < e.seq, e.seq <= lastSeq[s]
               PROVE  e \in SeqElements(Tail(ch[s]))
    BY <1>1 DEF Queued
  <2>1. e \in SeqElements(ch[s]) /\ e # h
    BY <1>4, <1>5 DEF Delivers, Queued
  <2> QED BY <1>2, <2>1
<1>9. Connected(s)'
  <2> SUFFICES ASSUME pump[s] \in {"run", "send"}, NEW e \in Owed, e.seq > h.seq,
                      s \in subs \/ \E f \in InFlight(s)' : e.seq <= f.seq
               PROVE  e \in InFlight(s)'
    BY <1>1 DEF Connected
  <2>1. e \in InFlight(s) /\ e # h
    BY <1>4, <1>5, <1>6 DEF Delivers, Connected
  <2> QED BY <1>6, <2>1
<1>10. Traceable(s)'
  <2>1. h \in Kept'
    BY <1>6 DEF Delivers, Traceable
  <2> QED BY <1>1, <1>6, <2>1 DEF Delivers, Traceable
<1>11. Ordered(s)'
  BY <1>1 DEF Delivers, Ordered
<1> QED BY <1>7, <1>8, <1>9, <1>10, <1>11 DEF Delivers

(* Flush, snapshot and registration in one critical section: everything    *)
(* behind the cursor is replayed, everything later comes live.             *)
LEMMA SubscribeDelivers ==
    ASSUME TypeOK, TypeOK', JournalInv', WindowInv', TightInv', KeptInv', SubInv,
           NEW s \in Clients, Delivers(s), Subscribe(s), Kept \subseteq Kept', Trusted', Clean',
           Owed' \subseteq Owed
    PROVE  Delivers(s)'
<1>1. /\ ch'[s] = <<>> /\ live'[s] = <<>> /\ lastSeq'[s] = 0 /\ watermark'[s] = latest
      /\ pump'[s] = "run" /\ UNCHANGED <<cursor, seen, hand, broadcast, seq, latest>>
      /\ hub' = "open" /\ pump[s] = "off"
      /\ replay'[s] = Expand(ReadEvents(journal', cursor[s]), cursor[s])
      /\ \E err \in BOOLEAN : FlushAllDelta(err)
  BY DEF Subscribe, Subscribable, TypeOK, SubTypes, clientVars
<1>2. SeqElements(<<>>) = {}
  BY DEF SeqElements
<1>3. hand'[s] = {}
  BY <1>1 DEF SubInv
<1>4. InFlight(s)' = replay'[s]
  BY <1>1, <1>2, <1>3, InFlightParts
<1>5. /\ cursor[s] \in Nat /\ latest \in Nat /\ seq' = latest + 1
      /\ Owed \subseteq Event /\ \A f \in Event : f.seq \in Nat
      /\ \A rec \in journal' : rec.seq \in Nat /\ rec.parts \subseteq Event
  BY <1>1, ClientTypesOf, RecordTypes DEF TypeOK, HubTypes, DiskTypes, TightInv, Owed
<1>6. \A t \in DeltaTypes : deltaBuf'[t].parts = {}
  <2>1. deltaBuf' = [t \in DeltaTypes |-> EmptyBucket]
    BY <1>1, FlushAllAdds
  <2> QED BY <2>1 DEF EmptyBucket
<1>7. Kept' = DecodedEvents(journal') \cup swallowed'
  <2>1. WindowEvents(deltaBuf') = {}
    BY <1>6 DEF WindowEvents
  <2> QED BY <2>1 DEF Kept, Durable
<1>8. ASSUME NEW e \in DecodedEvents(journal'), e.seq > cursor[s] PROVE e \in replay'[s]
  <2>1. PICK rec \in journal' : Decodes(rec) /\ e \in rec.parts
    BY <1>8 DEF DecodedEvents
  <2>2. e.seq <= rec.seq
    BY <1>1, <2>1 DEF JournalInv, Sound, DiskSound
  <2>3. rec.seq > cursor[s]
    BY <1>5, <1>8, <2>1, <2>2
  <2>4. rec \in ReadEvents(journal', cursor[s])
    BY <2>3 DEF ReadEvents
  <2> QED BY <1>1, <1>8, <2>1, <2>4 DEF Expand
<1>9. replay'[s] \subseteq DecodedEvents(journal')
  BY <1>1 DEF Expand, ReadEvents, DecodedEvents
<1>10. Owed' \subseteq DecodedEvents(journal')
  BY <1>1, <1>7 DEF KeptInv, Owed
<1>11. Reached(s)'
  BY <1>1 DEF Delivers, Reached
<1>12. Connected(s)'
  BY <1>1, <1>4, <1>8, <1>10 DEF Connected
<1>13. Queued(s)'
  BY <1>1, <1>5 DEF Queued
<1>14. Traceable(s)'
  <2>1. InFlight(s)' \subseteq Kept'
    BY <1>4, <1>7, <1>9
  <2> QED BY <1>1, <2>1 DEF Delivers, Traceable
<1>15. Ordered(s)'
  <2>1. ASSUME NEW e \in replay'[s] PROVE e.seq <= latest
    <3>1. PICK rec \in journal' : Decodes(rec) /\ e \in rec.parts
      BY <1>9, <2>1 DEF DecodedEvents
    <3>2. e.seq <= rec.seq /\ rec.seq < seq'
      BY <1>1, <3>1 DEF JournalInv, Sound, DiskSound
    <3> QED BY <1>5, <3>1, <3>2
  <2> QED BY <1>1, <1>3, <2>1 DEF Ordered
<1> QED BY <1>11, <1>12, <1>13, <1>14, <1>15 DEF Delivers

(* A session that is released and loaded again keeps the cursors.          *)
LEMMA ReloadDelivers ==
    ASSUME TypeOK, NEW s \in Clients, Delivers(s), Reload, Kept \subseteq Kept', Owed' \subseteq Owed
    PROVE  Delivers(s)'
<1>1. /\ ch'[s] = <<>> /\ live'[s] = <<>> /\ replay'[s] = {} /\ hand'[s] = {} /\ lastSeq'[s] = 0
      /\ pump'[s] = "off" /\ UNCHANGED <<cursor, seen, broadcast>>
  BY DEF Reload, ForgetHub, clientVars
<1>2. InFlight(s)' = {}
  BY <1>1, InFlightParts DEF SeqElements
<1>3. cursor[s] \in Nat /\ \A e \in Owed : e.seq \in Nat
  BY ClientTypesOf, RecordTypes DEF TypeOK, Owed
<1>4. Reached(s)' /\ Connected(s)'
  BY <1>1 DEF Delivers, Reached, Connected
<1>5. Queued(s)'
  BY <1>1, <1>3 DEF Queued
<1>6. Traceable(s)'
  BY <1>1, <1>2 DEF Delivers, Traceable
<1>7. Ordered(s)'
  BY <1>1 DEF Ordered
<1> QED BY <1>4, <1>5, <1>6, <1>7 DEF Delivers

(* What all steps of the delivery argument rely on.                        *)
Base ==
    /\ TypeOK /\ JournalInv /\ WindowInv /\ AscendingInv /\ HistoryInv
    /\ KeptInv /\ TightInv /\ FreshInv /\ SubInv

(* Every step keeps the deliveries to every client.                        *)
LEMMA DeliveryStep == Base /\ Base' /\ DeliveryInv /\ [Next]_vars => DeliveryInv'
<1> SUFFICES ASSUME Base, Base', DeliveryInv, [Next]_vars, Trusted', NEW s \in Clients
             PROVE  Delivers(s)'
  BY DEF DeliveryInv
<1>0. /\ TypeOK /\ JournalInv /\ WindowInv /\ ClientInv(s) /\ CountInv /\ SubInv
      /\ TypeOK' /\ JournalInv' /\ WindowInv' /\ KeptInv' /\ TightInv'
  BY DEF Base, HistoryInv, AscendingInv
<1>1. /\ Trusted /\ (hub' # "none" => Clean') /\ Kept \subseteq Kept'
      /\ swallowed \subseteq swallowed' /\ (UNCHANGED broadcast => Owed' \subseteq Owed)
  BY <1>0, TrustStep, KeptStep, OwedStep
<1>2. Delivers(s)
  BY <1>1 DEF DeliveryInv
<1>3. CASE Same(s)
  BY <1>1, <1>2, <1>3, SameDelivers
<1>4. CASE OwnStep(s)
  <2>0. Owed' \subseteq Owed
    BY <1>0, <1>1, <1>4, OwnSubscription
  <2>1. CASE PumpReplay(s)
    BY <1>0, <1>1, <1>2, <2>0, <2>1, ReplayDelivers
  <2>2. CASE PumpReceive(s)
    BY <1>0, <1>1, <1>2, <2>0, <2>2, ReceiveDelivers
  <2>3. CASE PumpSend(s)
    BY <1>0, <1>1, <1>2, <2>0, <2>3, SendDelivers
  <2>4. CASE PumpStop(s) \/ PumpExit(s)
    BY <1>0, <1>1, <1>2, <2>0, <2>4, StopDelivers
  <2>5. CASE ClientRead(s)
    BY <1>0, <1>1, <1>2, <2>0, <2>5, ReadDelivers
  <2>6. CASE Subscribe(s)
    <3>1. hub' # "none"
      BY <2>6 DEF Subscribe, Subscribable
    <3> QED BY <1>0, <1>1, <1>2, <2>0, <2>6, <3>1, SubscribeDelivers
  <2> QED BY <1>4, <2>1, <2>2, <2>3, <2>4, <2>5, <2>6 DEF OwnStep, PumpStep
<1>5. ASSUME NEW t \in EventTypes, Fans(t) PROVE Delivers(s)'
  <2>1. NextEvent(t) \in broadcast' /\ hub # "none"
    BY <1>5 DEF Fans, FanOut
  <2>2. NextEvent(t) \in Kept'
    BY <1>0, <2>1 DEF KeptInv
  <2> QED BY <1>0, <1>1, <1>2, <1>5, <2>2, FansDelivers
<1>6. ~Crash
  <2> SUFFICES ASSUME Crash PROVE FALSE
    OBVIOUS
  <2>1. /\ hub' = "none" /\ crashes' = crashes + 1 /\ crashes \in Nat
        /\ faults' \in Nat /\ crashes' \in Nat
    BY <1>0 DEF Crash, ForgetHub, TypeOK, BoundTypes
  <2>2. faults' + crashes' = 0
    BY <2>1 DEF Trusted
  <2>3. crashes' = 0
    BY <2>1, <2>2, SumOfNone
  <2> QED BY <2>1, <2>3
<1>7. CASE Reload
  <2>1. UNCHANGED broadcast
    BY <1>7 DEF Reload, ForgetHub
  <2> QED BY <1>0, <1>1, <1>2, <1>7, <2>1, ReloadDelivers
<1> QED BY <1>0, <1>3, <1>4, <1>5, <1>6, <1>7, ClientKinds

(* Nothing is to be delivered at the start.                                *)
LEMMA DeliveryInit == Init => KeptInv /\ TightInv /\ FreshInv /\ SubInv /\ DeliveryInv
<1> SUFFICES ASSUME Init PROVE KeptInv /\ TightInv /\ FreshInv /\ SubInv /\ DeliveryInv
  OBVIOUS
<1>1. KeptInv /\ TightInv
  BY DEF Init, KeptInv, TightInv
<1>2. FreshInv
  <2>1. CASE journal = {}
    BY <2>1 DEF Init, FreshInv
  <2>2. CASE journal \in OldJournals /\ journal # {}
    BY <2>2 DEF Init, FreshInv, FreshJournal
  <2> QED BY <2>1, <2>2 DEF Init
<1>3. SubInv
  BY DEF Init, SubInv
<1>4. ASSUME NEW s \in Clients PROVE Delivers(s)
  <2>1. /\ ch[s] = <<>> /\ live[s] = <<>> /\ replay[s] = {} /\ hand[s] = {} /\ lastSeq[s] = 0
        /\ pump[s] = "off" /\ cursor[s] = 0 /\ broadcast = {}
    BY DEF Init
  <2>2. InFlight(s) = {}
    BY <2>1, InFlightParts DEF SeqElements
  <2>3. Owed = {}
    BY <2>1 DEF Owed
  <2> QED BY <2>1, <2>2, <2>3 DEF Delivers, Reached, Connected, Queued, Traceable, Ordered
<1> QED BY <1>1, <1>2, <1>3, <1>4 DEF DeliveryInv

(* The inductive invariant of the delivery: what each client received,     *)
(* what waits for it and what the files hold make up what was broadcast.   *)
THEOREM DeliveryInvariance == Spec => [](Base /\ DeliveryInv)
<1>1. /\ TypeOK /\ JournalInv /\ WindowInv /\ HistoryInv
      /\ KeptInv /\ TightInv /\ FreshInv /\ SubInv /\ [Next]_vars
      => KeptInv' /\ TightInv' /\ FreshInv' /\ SubInv'
  BY KeptInvStep, TightStep, FreshStep, SubStep DEF HistoryInv
<1>2. Base /\ Base' /\ DeliveryInv /\ [Next]_vars => DeliveryInv'
  BY DeliveryStep
<1>3. /\ TypeOK /\ JournalInv /\ WindowInv /\ AscendingInv /\ HistoryInv
      /\ KeptInv /\ TightInv /\ FreshInv /\ SubInv
      <=> Base
  BY DEF Base
<1>4. TypeOK /\ TypeOK' /\ JournalInv' /\ AscendingInv /\ [Next]_vars => AscendingInv'
  BY AscendingStep
<1> QED BY <1>1, <1>2, <1>3, <1>4, AscendingInit, DeliveryInit, TypeCorrect, JournalInvariance,
     WindowInvariance, HistoryInvariance, PTL
  DEF Spec

(* Replay and live delivery meet without a gap: a client that is past an   *)
(* event has received it, and one that is connected will, for any number   *)
(* of clients, buffer sizes, windows, runs and resubscriptions.            *)
THEOREM NothingIsLost == Spec => []NoEventLost
<1>1. Base /\ DeliveryInv => NoEventLost
  <2> SUFFICES ASSUME Base, DeliveryInv, hub # "none", integrity # "incomplete",
                      epoch = 1 \/ faults + crashes = 0,
                      NEW s \in Clients, NEW e \in broadcast \ swallowed
               PROVE  /\ e.seq <= cursor[s] => e \in seen[s]
                      /\ e.seq > cursor[s] /\ s \in subs /\ pump[s] \in {"run", "send"}
                             => e \in InFlight(s)
    BY DEF NoEventLost
  <2>1. Delivers(s)
    BY DEF Trusted, DeliveryInv
  <2> QED BY <2>1 DEF Delivers, Reached, Connected, Owed
<1> QED BY <1>1, DeliveryInvariance, PTL

(* A client that only stores what it received is never told that its       *)
(* cursor expired, while no append fails and no process dies.              *)
THEOREM HonestCursorsAreAccepted == Spec => []HonestCursorAccepted
<1>1. Base /\ DeliveryInv => HonestCursorAccepted
  <2> SUFFICES ASSUME Base, DeliveryInv, hub = "open", faults + crashes = 0,
                      journal \cap UNION OldJournals = {}, NEW s \in Clients
               PROVE  ~CursorExpired(cursor[s])
    BY DEF HonestCursorAccepted
  <2>1. TypeOK /\ JournalInv /\ TightInv /\ FreshInv /\ hub # "none"
    BY DEF Base
  <2>2. /\ cursor[s] \in Nat /\ seq \in Nat /\ latest \in Nat /\ earliest \in Nat
        /\ faults \in Nat /\ crashes \in Nat
    BY <2>1, ClientTypesOf DEF TypeOK, HubTypes, BoundTypes
  <2>3. faults = 0
    BY <2>2, SumOfNone
  <2>4. Traceable(s)
    BY DEF Trusted, DeliveryInv, Delivers
  <2>5. cursor[s] < seq
    BY <2>1, <2>4, BeforeNext
  <2>6. seq = latest + 1 /\ earliest <= 1
    BY <2>1, <2>3 DEF TightInv, Clean, FreshInv, FreshJournal
  <2> QED BY <2>2, <2>5, <2>6 DEF CursorExpired
<1> QED BY <1>1, DeliveryInvariance, PTL

-----------------------------------------------------------------------------
(* The hub implements the abstract stream.                                 *)

(* In a session of its own, what is kept is what was broadcast.            *)
StreamInv ==
    /\ Kept \subseteq broadcast
    /\ run <= MaxRuns /\ (phase # "idle" => run > 0)
    /\ epoch <= MaxEpoch

(* The bounds on runs and hubs.                                            *)
LEMMA RunStep ==
    ASSUME TypeOK, [Next]_vars, run <= MaxRuns, phase # "idle" => run > 0, epoch <= MaxEpoch
    PROVE  run' <= MaxRuns /\ (phase' # "idle" => run' > 0) /\ epoch' <= MaxEpoch
<1>0. run \in Nat /\ epoch \in Nat /\ MaxRuns \in Nat /\ MaxEpoch \in Nat
  BY HubAssumption DEF TypeOK, DriverTypes, BoundTypes
<1>1. CASE NewEventHub
  BY <1>0, <1>1 DEF NewEventHub, driverVars
<1>2. CASE BeginRun
  BY <1>0, <1>2 DEF BeginRun
<1>3. CASE PublishKey \/ PublishRejected
  BY <1>3 DEF PublishKey, PublishRejected, LeaveQueue, boundVars
<1>4. CASE \E t \in DeltaTypes : PublishDelta(t)
  BY <1>4 DEF PublishDelta, driverVars
<1>5. CASE FlushDeltaOnTimer \/ EndRun \/ JournalState \/ FinalizeRun \/ DeferredEndRun \/ CloseEvents
  BY <1>5
  DEF FlushDeltaOnTimer, EndRun, JournalState, FinalizeRun, DeferredEndRun, CloseEvents, driverVars,
      boundVars
<1>6. CASE Crash \/ Reload
  BY <1>6 DEF Crash, Reload, ForgetHub
<1>7. ASSUME NEW s \in Clients, PumpStep(s) \/ ClientStep(s)
      PROVE  UNCHANGED <<run, phase, epoch>>
  BY <1>7
  DEF PumpStep, PumpReplay, PumpReceive, PumpSend, PumpStop, PumpExit, ClientStep, Subscribe,
      SubscribeReadError, ClientRead, ClientCancel, driverVars, boundVars
<1>8. CASE UNCHANGED vars
  BY <1>8 DEF vars, driverVars, boundVars
<1> QED BY <1>1, <1>2, <1>3, <1>4, <1>5, <1>6, <1>7, <1>8 DEF Next, teeRunCallbacks

(* Every step without a failure keeps the files and the log the same.      *)
LEMMA StreamStep ==
    Base /\ StreamInv /\ [Next]_vars /\ (faults + crashes = 0)' => StreamInv'
<1> SUFFICES ASSUME Base, StreamInv, [Next]_vars, (faults + crashes = 0)' PROVE StreamInv'
  OBVIOUS
<1>0. TypeOK /\ JournalInv /\ WindowInv /\ CountInv
  BY DEF Base, HistoryInv
<1>1. Trusted'
  BY DEF Trusted
<1>2. Kept' \subseteq broadcast'
  <2>1. /\ \A e \in Kept' : e \in Kept \/ e \in broadcast'
        /\ broadcast \subseteq broadcast'
    BY <1>0, <1>1, KeptStep
  <2> QED BY <2>1 DEF StreamInv
<1>3. run' <= MaxRuns /\ (phase' # "idle" => run' > 0) /\ epoch' <= MaxEpoch
  BY <1>0, RunStep DEF StreamInv
<1> QED BY <1>2, <1>3 DEF StreamInv

(* A new session has neither files nor a log.                              *)
LEMMA StreamInit == Init /\ journal = {} => StreamInv
<1> SUFFICES ASSUME Init, journal = {} PROVE StreamInv
  OBVIOUS
<1>1. \A t \in DeltaTypes : deltaBuf[t].parts = {}
  BY DEF Init, EmptyBucket
<1>2. Kept = {}
  BY <1>1 DEF Init, Kept, Durable, DecodedEvents, WindowEvents
<1> QED BY <1>2, HubAssumption DEF Init, StreamInv

(* The steps, by what a client can tell of them.                           *)
LEMMA StreamKinds ==
    ASSUME TypeOK, JournalInv, WindowInv, [Next]_vars
    PROVE  \/ UNCHANGED <<broadcast, cursor, seen>>
           \/ \E s \in Clients : ClientRead(s)
           \/ /\ \E t \in EventTypes : Sent(t)
              /\ UNCHANGED <<cursor, seen>>
<1>1. CASE NewEventHub \/ BeginRun \/ FlushDeltaOnTimer \/ EndRun \/ JournalState \/ FinalizeRun
             \/ DeferredEndRun \/ CloseEvents \/ PublishRejected \/ Crash \/ Reload
  BY <1>1
  DEF NewEventHub, BeginRun, FlushDeltaOnTimer, EndRun, JournalState, FinalizeRun, Crash, Reload,
      ForgetHub, DeferredEndRun, CloseEvents, PublishRejected, clientVars
<1>2. CASE PublishKey \/ \E t \in DeltaTypes : PublishDelta(t)
  <2>1. hub # "none" /\ hub' # "none" /\ UNCHANGED <<cursor, seen>>
    BY <1>2 DEF PublishKey, PublishDelta, clientVars
  <2>2. Still \/ Burnt \/ \E t \in EventTypes : Sent(t)
    BY <2>1, HubStep
  <2> QED BY <2>1, <2>2 DEF Still, Burnt
<1>3. ASSUME NEW s \in Clients, PumpStep(s) \/ Subscribe(s) \/ SubscribeReadError(s)
                                  \/ ClientCancel(s)
      PROVE  UNCHANGED <<broadcast, cursor, seen>>
  BY <1>3
  DEF PumpStep, PumpReplay, PumpReceive, PumpSend, PumpStop, PumpExit, Subscribe,
      SubscribeReadError, ClientCancel, clientVars
<1>4. CASE UNCHANGED vars
  BY <1>4 DEF vars, clientVars
<1> QED BY <1>1, <1>2, <1>3, <1>4 DEF Next, teeRunCallbacks, ClientStep

(* A new session whose appends succeed and whose process lives implements  *)
(* the abstract stream, across session reloads, slow subscribers and       *)
(* reconnects: what a client reads is always the next event of the log.    *)
THEOREM StreamIsImplemented ==
    Spec /\ journal = {} /\ [](faults + crashes = 0) => ImplementsStream
<1>1. Init => Stream!Init
  BY DEF Init, Stream!Init
<1>2. ASSUME Base, DeliveryInv, StreamInv, faults + crashes = 0, [Next]_vars
      PROVE  [Stream!Next]_(Stream!vars)
  <2>0. /\ TypeOK /\ JournalInv /\ WindowInv /\ CountInv /\ KeptInv /\ AscendingInv
        /\ \A s \in Clients : Delivers(s)
    BY <1>2 DEF Base, HistoryInv, DeliveryInv, Trusted
  <2>1. broadcast = Kept /\ broadcast \subseteq Event /\ \A e \in Event : e.seq \in Nat
    BY <1>2, <2>0, RecordTypes DEF KeptInv, Trusted, StreamInv, TypeOK
  <2>a. swallowed = {} /\ Owed = broadcast
    <3>1. faults \in Nat /\ crashes \in Nat
      BY <2>0 DEF TypeOK, BoundTypes
    <3>2. faults = 0
      BY <1>2, <3>1, SumOfNone
    <3> QED BY <2>0, <3>2 DEF WindowInv, LinesInv, Owed
  <2>2. CASE UNCHANGED <<broadcast, cursor, seen>>
    BY <2>2 DEF Stream!vars
  <2>3. ASSUME NEW s \in Clients, ClientRead(s) PROVE Stream!Deliver(s)
    <3> DEFINE h == Head(ch[s])
    <3>1. /\ ch[s] # <<>> /\ cursor' = [cursor EXCEPT ![s] = h.seq]
          /\ seen' = [seen EXCEPT ![s] = @ \cup {h}] /\ broadcast' = broadcast
      BY <2>3 DEF ClientRead
    <3>2. ClientInv(s) /\ Delivers(s)
      BY <2>0 DEF AscendingInv
    <3>3. /\ ch[s] \in Seq(Event) /\ SeqElements(ch[s]) = {h} \cup SeqElements(Tail(ch[s]))
      BY <2>0, <3>1, ClientTypesOf, ElementsOf
    <3>4. \A f \in SeqElements(Tail(ch[s])) : h.seq < f.seq
      BY <3>1, <3>2, <3>3, HeadIsFirst DEF ClientInv
    <3>5. cursor[s] < h.seq /\ h.seq <= lastSeq[s] /\ h \in Event
      BY <2>0, <3>2, <3>3, ElementsOrdered
    <3>6. /\ cursor[s] \in Nat /\ lastSeq[s] \in Nat /\ h.seq \in Nat
      BY <2>0, <2>1, <3>5, ClientTypesOf
    <3> HIDE DEF h
    <3>7. h \in broadcast
      <4>1. h \in InFlight(s)
        BY <3>3, InFlightParts
      <4> QED BY <2>1, <3>2, <4>1 DEF Delivers, Traceable
    <3>8. ASSUME NEW f \in broadcast, f.seq > cursor[s] PROVE h.seq <= f.seq
      <4>1. f.seq \in Nat
        BY <2>1
      <4>2. CASE f.seq <= lastSeq[s]
        <5>1. f \in SeqElements(ch[s])
          BY <2>a, <3>2, <3>6, <3>8, <4>1, <4>2 DEF Delivers, Queued
        <5> QED BY <3>3, <3>4, <3>6, <4>1, <5>1
      <4>3. CASE ~(f.seq <= lastSeq[s])
        BY <3>5, <3>6, <4>1, <4>3
      <4> QED BY <4>2, <4>3
    <3>9. h.seq > cursor[s]
      BY <3>5, <3>6
    <3> QED BY <3>1, <3>7, <3>8, <3>9 DEF Stream!Deliver
  <2>4. ASSUME NEW t \in EventTypes, Sent(t), UNCHANGED <<cursor, seen>> PROVE Stream!Publish
    <3> DEFINE e == NextEvent(t)
    <3>1. broadcast' = broadcast \cup {e}
      BY <2>4, SentAdds
    <3>2. hub # "none" /\ phase # "idle" /\ seq <= MaxSeq
      BY <2>4 DEF Sent
    <3>3. e \in Publishable
      <4>1. /\ seq \in 1..MaxSeq
        BY <2>0, <3>2, HubAssumption DEF TypeOK, HubTypes
      <4>2. run \in 1..MaxRuns
        BY <1>2, <2>0, <3>2, HubAssumption DEF StreamInv, TypeOK, DriverTypes
      <4>3. epoch \in 1..MaxEpoch
        BY <1>2, <2>0, <3>2, HubAssumption DEF StreamInv, CountInv, TypeOK, BoundTypes
      <4> QED BY <4>1, <4>2, <4>3 DEF Publishable, NextEvent
    <3>4. \A f \in broadcast : f.seq < e.seq
      <4>1. Sound(journal, deltaBuf, seq) /\ e.seq = seq
        BY <2>0, <3>2 DEF JournalInv, NextEvent
      <4>2. journal \in SUBSET Record /\ deltaBuf \in [DeltaTypes -> Bucket] /\ seq \in Nat
        BY <2>0 DEF TypeOK, HubTypes, DiskTypes
      <4> QED BY <2>1, <2>a, <4>1, <4>2, EventsBeforeNext DEF Kept, Durable
    <3> HIDE DEF e
    <3> QED BY <2>4, <3>1, <3>3, <3>4 DEF Stream!Publish
  <2> QED BY <1>2, <2>0, <2>2, <2>3, <2>4, StreamKinds DEF Stream!Next
<1>3. Base /\ StreamInv /\ [Next]_vars /\ (faults + crashes = 0)' => StreamInv'
  BY StreamStep
<1> QED BY <1>1, <1>2, <1>3, StreamInit, DeliveryInvariance, PTL
  DEF Spec, ImplementsStream, Stream!Spec

=============================================================================
