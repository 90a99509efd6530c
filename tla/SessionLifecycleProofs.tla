----------------------- MODULE SessionLifecycleProofs -----------------------
(***************************************************************************)
(* Proofs about SessionLifecycle, for any number of connections, sessions, *)
(* runtimes, inputs and failures.                                          *)
(***************************************************************************)
EXTENDS SessionLifecycle, SequenceTheorems, TLAPS

(* A handler past its first steps has the session or runtime it works on;  *)
(* what a connection leaves is remembered only while it is evaluated.      *)
Locals ==
    /\ \A c \in Conns : op[c].pc \notin {"idle", "new"} => op[c].sess \in DOMAIN disk
    /\ \A c \in Callers : prompt[c].pc # "idle" => prompt[c].rt \in DOMAIN rt
    /\ reap.pc # "idle" => reap.sess \in DOMAIN disk /\ reap.rt \in DOMAIN rt
    /\ \A c \in Conns : conn[c] # "evaluating" => left[c] = None

TypeInv == TablesTyped /\ Locals

(* The manager's table has each session under its own name; the current    *)
(* session is registered as long as the manager is open, and never by      *)
(* another runtime.                                                        *)
TableNames == \A s \in Sessions : manager[s] # None => rt[manager[s]].sess = s

CurrentIsRegistered ==
    /\ manager[rt[current].sess] \in {current, None}
    /\ plugin = "up" => manager[rt[current].sess] = current
    /\ plugin \notin {"up", "stopping"} => \A s \in Sessions : manager[s] = None

(* The runtime that is being released is retired and idle; its session is  *)
(* not the current one, and does not come back while it is released.       *)
ReapIsApart ==
    /\ reap.pc = "remove" => manager[reap.sess] \in {reap.rt, None}
    /\ reap.pc \in {"events", "store"} => manager[reap.sess] = None
    /\ reap.pc # "idle" =>
         /\ rt[reap.rt].retired /\ rt[reap.rt].active = "none" /\ rt[reap.rt].sess = reap.sess
         /\ rt[current].sess # reap.sess

TableInv == TableNames /\ CurrentIsRegistered /\ ReapIsApart

(* Only a registered, live session runs, but for the late runs; a          *)
(* registered runtime that is not archived has its store; and only the     *)
(* store of a session that is archived is closed behind the back of a      *)
(* registered runtime.                                                     *)
RunsAreRegistered ==
    \A r \in DOMAIN rt \ late :
        rt[r].active # "none" => manager[rt[r].sess] = r /\ ~rt[r].archived

RegisteredHaveStores ==
    \A s \in DOMAIN disk :
        manager[s] # None => /\ disk[s] = "archived" => rt[manager[s]].archived
                             /\ ~rt[manager[s]].archived => rt[manager[s]].open

EvictedIsArchived ==
    \A c \in Conns : op[c].pc \in {"history", "evict"} => disk[op[c].sess] = "archived"

RunInv == RunsAreRegistered /\ RegisteredHaveStores /\ EvictedIsArchived

(* What was looked up stays registered until it is retired or the manager  *)
(* has closed; and what runs when the manager closes is in the copy of the *)
(* table it waits for.                                                     *)
Submitted(r) == r \in admitted \/ \E c \in Callers : prompt[c].pc = "submit" /\ prompt[c].rt = r

SubmittedAreRegistered ==
    plugin \in {"up", "stopping"} =>
        \A r \in DOMAIN rt : Submitted(r) /\ ~rt[r].retired => manager[rt[r].sess] = r

RunsAreAwaited ==
    /\ plugin # "up" => \A r \in DOMAIN rt \ late : rt[r].active # "none" => r \in awaiting
    /\ plugin \notin {"up", "stopping"} => awaiting = {}

AdmissionInv == CloseTyped /\ SubmittedAreRegistered /\ RunsAreAwaited

(* From the moment Stop has waited for them no command is left that could  *)
(* start a checkpoint.                                                     *)
StopInv ==
    /\ plugin \in {"quiet", "finalized", "closed"} =>
         \A c \in Callers : prompt[c].pc \notin {"gate", "unbind", "release", "clear"}
    /\ MemoryOutlivesFinalizers

(* Nobody is bound to what is being released, and whoever is about to bind *)
(* a new session either finds it or was told that it was taken.            *)
BoundIsApart == \A c \in Conns : reap.pc # "idle" => byClient[c] # reap.sess

NewIsAlive ==
    \A c \in Conns \ stolen :
        op[c].pc \in {"remember", "bind"} /\ plugin = "up" =>
            RouteSession(op[c].sess) # None /\ (reap.pc # "idle" => op[c].sess # reap.sess)

BindInv == BoundIsAlive /\ BoundIsApart /\ NewIsAlive
-----------------------------------------------------------------------------
(* Sequences of runtimes *)

(* A function on an initial segment is a sequence of that length.          *)
LEMMA FunctionIsSeq ==
    ASSUME NEW S, NEW n \in Nat, NEW f \in [1 .. n -> S]
    PROVE  f \in Seq(S) /\ Len(f) = n /\ DOMAIN f = 1 .. n
OBVIOUS

(* Changing one runtime of a sequence of runtimes.                         *)
LEMMA EditRuntime ==
    ASSUME NEW rts \in Seq(RuntimeStates), NEW r \in DOMAIN rts, NEW e \in RuntimeStates
    PROVE  /\ [rts EXCEPT ![r] = e] \in Seq(RuntimeStates)
           /\ Len([rts EXCEPT ![r] = e]) = Len(rts)
           /\ DOMAIN [rts EXCEPT ![r] = e] = DOMAIN rts
           /\ \A q \in DOMAIN rts : [rts EXCEPT ![r] = e][q] = IF q = r THEN e ELSE rts[q]
OBVIOUS

(* Appending to a sequence.                                                *)
LEMMA AppendTo ==
    ASSUME NEW S, NEW q \in Seq(S), NEW e \in S
    PROVE  /\ Append(q, e) \in Seq(S)
           /\ Len(Append(q, e)) = Len(q) + 1
           /\ DOMAIN Append(q, e) = DOMAIN q \cup {Len(q) + 1}
           /\ \A i \in DOMAIN q : Append(q, e)[i] = q[i]
           /\ Append(q, e)[Len(q) + 1] = e
OBVIOUS

(* What is on disk is a session.                                           *)
LEMMA StoredIsSession ==
    ASSUME TypeInv, NEW s \in DOMAIN disk
    PROVE  s \in Sessions /\ s # None
BY LifecycleAssumption DEF TypeInv, TablesTyped, StoresTyped, Sessions, None

(* The runtimes are numbered from one.                                     *)
LEMMA RuntimeIsTyped ==
    ASSUME TypeInv
    PROVE  /\ None \notin DOMAIN rt /\ Len(rt) \in Nat /\ DOMAIN rt = 1 .. Len(rt)
           /\ \A r \in DOMAIN rt : rt[r] \in RuntimeStates
BY ElementOfSeq DEF TypeInv, TablesTyped, StoresTyped, None

-----------------------------------------------------------------------------
(* What the steps do to the runtimes *)

(* Two states of a runtime that differ in its gate and its hub only.       *)
Alike(p, q) ==
    /\ p.sess = q.sess /\ p.retired = q.retired /\ p.archived = q.archived
    /\ p.active = q.active /\ p.open = q.open

(* The states of the same runtimes.                                        *)
SameRuntimes(rts) == rts \in Seq(RuntimeStates) /\ Len(rts) = Len(rt) /\ DOMAIN rts = DOMAIN rt

(* The runtime r gets an activity and is or is not archived.               *)
Edited(r, active, archived) ==
    /\ SameRuntimes(rt') /\ r \in DOMAIN rt
    /\ \A q \in DOMAIN rt : q # r => Alike(rt'[q], rt[q])
    /\ rt'[r].sess = rt[r].sess /\ rt'[r].retired = rt[r].retired /\ rt'[r].open = rt[r].open
    /\ rt'[r].active = active /\ rt'[r].archived = archived

(* The values of a runtime's fields, and what changing one leaves alone.   *)
LEMMA FieldsOfRuntimes ==
    ASSUME NEW q \in RuntimeStates
    PROVE  /\ q.sess \in Sessions /\ q.retired \in BOOLEAN /\ q.archived \in BOOLEAN
           /\ q.active \in {"none", "reserved", "accepted", "running"}
           /\ q.gate \in {"free", "run", "new"} /\ q.hub \in {"none", "open", "closed"}
           /\ q.open \in BOOLEAN
BY DEF RuntimeStates

(* Replacing one runtime by a state with the same session.                 *)
LEMMA EditIsEdited ==
    ASSUME TypeInv, NEW r \in DOMAIN rt, NEW e \in RuntimeStates, rt' = [rt EXCEPT ![r] = e],
           e.sess = rt[r].sess, e.retired = rt[r].retired, e.open = rt[r].open
    PROVE  Edited(r, e.active, e.archived)
BY EditRuntime DEF Edited, Alike, SameRuntimes, TypeInv, TablesTyped, StoresTyped

(* A run of the runtime is reserved or over.                               *)
LEMMA ActiveEdit ==
    ASSUME TypeInv, NEW r \in DOMAIN rt, NEW a \in {"none", "reserved", "accepted", "running"},
          
           rt' = [rt EXCEPT ![r].active = a]
    PROVE  Edited(r, a, rt[r].archived)
<1> DEFINE e == [rt[r] EXCEPT !.active = a]
<1>1. rt[r] \in RuntimeStates
  BY RuntimeIsTyped
<1>2. /\ e \in RuntimeStates /\ e.sess = rt[r].sess /\ e.retired = rt[r].retired
      /\ e.open = rt[r].open /\ e.active = a /\ e.archived = rt[r].archived
  BY <1>1 DEF RuntimeStates
<1>3. rt' = [rt EXCEPT ![r] = e]
  OBVIOUS
<1> HIDE DEF e
<1>4. Edited(r, e.active, e.archived)
  BY <1>2, <1>3, EditIsEdited
<1> QED BY <1>2, <1>4

(* A run is accepted.                                                      *)
LEMMA AcceptEdit ==
    ASSUME TypeInv, NEW r \in DOMAIN rt, NEW h \in {"none", "open", "closed"},
          
           rt' = [rt EXCEPT ![r].active = "accepted", ![r].hub = h]
    PROVE  Edited(r, "accepted", rt[r].archived)
<1> DEFINE e == [rt[r] EXCEPT !.active = "accepted", !.hub = h]
<1>1. rt[r] \in RuntimeStates
  BY RuntimeIsTyped
<1>2. /\ e \in RuntimeStates /\ e.sess = rt[r].sess /\ e.retired = rt[r].retired
      /\ e.open = rt[r].open /\ e.active = "accepted" /\ e.archived = rt[r].archived
  BY <1>1 DEF RuntimeStates
<1>3. rt' = [rt EXCEPT ![r] = e]
  OBVIOUS
<1> HIDE DEF e
<1>4. Edited(r, e.active, e.archived)
  BY <1>2, <1>3, EditIsEdited
<1> QED BY <1>2, <1>4

(* A run takes the gate.                                                   *)
LEMMA AcquireEdit ==
    ASSUME TypeInv, NEW r \in DOMAIN rt,
          
           rt' = [rt EXCEPT ![r].active = "running", ![r].gate = "run"]
    PROVE  Edited(r, "running", rt[r].archived)
<1> DEFINE e == [rt[r] EXCEPT !.active = "running", !.gate = "run"]
<1>1. rt[r] \in RuntimeStates
  BY RuntimeIsTyped
<1>2. /\ e \in RuntimeStates /\ e.sess = rt[r].sess /\ e.retired = rt[r].retired
      /\ e.open = rt[r].open /\ e.active = "running" /\ e.archived = rt[r].archived
  BY <1>1 DEF RuntimeStates
<1>3. rt' = [rt EXCEPT ![r] = e]
  OBVIOUS
<1> HIDE DEF e
<1>4. Edited(r, e.active, e.archived)
  BY <1>2, <1>3, EditIsEdited
<1> QED BY <1>2, <1>4

(* The gate changes hands.                                                 *)
LEMMA GateEdit ==
    ASSUME TypeInv, NEW r \in DOMAIN rt, NEW g \in {"free", "run", "new"},
          
           rt' = [rt EXCEPT ![r].gate = g]
    PROVE  Edited(r, rt[r].active, rt[r].archived)
<1> DEFINE e == [rt[r] EXCEPT !.gate = g]
<1>1. rt[r] \in RuntimeStates
  BY RuntimeIsTyped
<1>2. /\ e \in RuntimeStates /\ e.sess = rt[r].sess /\ e.retired = rt[r].retired
      /\ e.open = rt[r].open /\ e.active = rt[r].active /\ e.archived = rt[r].archived
  BY <1>1 DEF RuntimeStates
<1>3. rt' = [rt EXCEPT ![r] = e]
  OBVIOUS
<1> HIDE DEF e
<1>4. Edited(r, e.active, e.archived)
  BY <1>2, <1>3, EditIsEdited
<1> QED BY <1>2, <1>4

(* The hub is built or closed.                                             *)
LEMMA HubEdit ==
    ASSUME TypeInv, NEW r \in DOMAIN rt, NEW h \in {"none", "open", "closed"},
          
           rt' = [rt EXCEPT ![r].hub = h]
    PROVE  Edited(r, rt[r].active, rt[r].archived)
<1> DEFINE e == [rt[r] EXCEPT !.hub = h]
<1>1. rt[r] \in RuntimeStates
  BY RuntimeIsTyped
<1>2. /\ e \in RuntimeStates /\ e.sess = rt[r].sess /\ e.retired = rt[r].retired
      /\ e.open = rt[r].open /\ e.active = rt[r].active /\ e.archived = rt[r].archived
  BY <1>1 DEF RuntimeStates
<1>3. rt' = [rt EXCEPT ![r] = e]
  OBVIOUS
<1> HIDE DEF e
<1>4. Edited(r, e.active, e.archived)
  BY <1>2, <1>3, EditIsEdited
<1> QED BY <1>2, <1>4

(* The runtime is archived.                                                *)
LEMMA ArchiveEdit ==
    ASSUME TypeInv, NEW r \in DOMAIN rt,
          
           rt' = [rt EXCEPT ![r].archived = TRUE]
    PROVE  Edited(r, rt[r].active, TRUE)
<1> DEFINE e == [rt[r] EXCEPT !.archived = TRUE]
<1>1. rt[r] \in RuntimeStates
  BY RuntimeIsTyped
<1>2. /\ e \in RuntimeStates /\ e.sess = rt[r].sess /\ e.retired = rt[r].retired
      /\ e.open = rt[r].open /\ e.active = rt[r].active /\ e.archived = TRUE
  BY <1>1 DEF RuntimeStates
<1>3. rt' = [rt EXCEPT ![r] = e]
  OBVIOUS
<1> HIDE DEF e
<1>4. Edited(r, e.active, e.archived)
  BY <1>2, <1>3, EditIsEdited
<1> QED BY <1>2, <1>4

(* The store of a session is closed for each of its runtimes.              *)
LEMMA CloseEdit ==
    ASSUME TypeInv, NEW s, CloseSession(s, rt)
    PROVE  /\ SameRuntimes(rt')
           /\ \A q \in DOMAIN rt :
                /\ rt'[q].sess = rt[q].sess /\ rt'[q].retired = rt[q].retired
                /\ rt'[q].archived = rt[q].archived /\ rt'[q].active = rt[q].active
                /\ IF rt[q].sess = s THEN ~rt'[q].open ELSE rt'[q].open = rt[q].open
<1> DEFINE f == [q \in DOMAIN rt |->
                   IF rt[q].sess = s THEN [rt[q] EXCEPT !.open = FALSE] ELSE rt[q]]
<1>1. Len(rt) \in Nat /\ DOMAIN rt = 1 .. Len(rt) /\ rt' = f
  BY RuntimeIsTyped DEF CloseSession
<1>2. ASSUME NEW q \in DOMAIN rt
      PROVE  /\ f[q] \in RuntimeStates
             /\ f[q].sess = rt[q].sess /\ f[q].retired = rt[q].retired
             /\ f[q].archived = rt[q].archived /\ f[q].active = rt[q].active
             /\ IF rt[q].sess = s THEN ~f[q].open ELSE f[q].open = rt[q].open
  <2>1. rt[q] \in RuntimeStates
    BY RuntimeIsTyped
  <2>2. CASE rt[q].sess = s
    BY <2>1, <2>2 DEF RuntimeStates
  <2>3. CASE rt[q].sess # s
    BY <2>1, <2>3 DEF RuntimeStates
  <2> QED BY <2>2, <2>3
<1>3. f \in [1 .. Len(rt) -> RuntimeStates]
  BY <1>1, <1>2
<1> HIDE DEF f
<1> QED BY <1>1, <1>2, <1>3, FunctionIsSeq DEF SameRuntimes

(* A new runtime is live, idle and has its store.                          *)
LEMMA NewRuntime ==
    ASSUME NEW s \in Sessions, NEW a \in BOOLEAN
    PROVE  /\ Runtime(s, a) \in RuntimeStates
           /\ Runtime(s, a).sess = s /\ ~Runtime(s, a).retired /\ Runtime(s, a).archived = a
           /\ Runtime(s, a).active = "none" /\ Runtime(s, a).open
BY DEF Runtime, RuntimeStates

(* The runtimes rts with a new one of session s, archived or not.          *)
Added(rts, s, a) ==
    /\ rts \in Seq(RuntimeStates) /\ Len(rts) = NewRt /\ NewRt \notin DOMAIN rt /\ NewRt # None
    /\ DOMAIN rts = DOMAIN rt \cup {NewRt}
    /\ \A q \in DOMAIN rt : Alike(rts[q], rt[q])
    /\ rts[NewRt].sess = s /\ ~rts[NewRt].retired /\ rts[NewRt].archived = a
    /\ rts[NewRt].active = "none" /\ rts[NewRt].open

(* Adding a runtime to the runtimes with another gate or hub.              *)
LEMMA AppendAdds ==
    ASSUME TypeInv, NEW s \in Sessions, NEW a \in BOOLEAN, NEW rts, SameRuntimes(rts),
           \A q \in DOMAIN rt : Alike(rts[q], rt[q])
    PROVE  Added(Append(rts, Runtime(s, a)), s, a)
<1> DEFINE e == Runtime(s, a)
           all == Append(rts, e)
<1>1. /\ e \in RuntimeStates /\ e.sess = s /\ ~e.retired /\ e.archived = a
      /\ e.active = "none" /\ e.open
  BY NewRuntime
<1> HIDE DEF e
<1>2. /\ all \in Seq(RuntimeStates) /\ Len(all) = Len(rts) + 1
      /\ DOMAIN all = DOMAIN rts \cup {Len(rts) + 1}
      /\ \A i \in DOMAIN rts : all[i] = rts[i]
      /\ all[Len(rts) + 1] = e
  BY <1>1, AppendTo DEF SameRuntimes
<1>3. NewRt = Len(rts) + 1 /\ NewRt \notin DOMAIN rt /\ NewRt # None /\ DOMAIN rts = DOMAIN rt
  BY RuntimeIsTyped DEF SameRuntimes, NewRt, None
<1>4. /\ all \in Seq(RuntimeStates) /\ Len(all) = NewRt /\ DOMAIN all = DOMAIN rt \cup {NewRt}
      /\ \A i \in DOMAIN rt : all[i] = rts[i]
      /\ all[NewRt] = e
  BY <1>2, <1>3
<1> HIDE DEF all
<1>5. Added(all, s, a)
  BY <1>1, <1>3, <1>4 DEF Added
<1> QED BY <1>5 DEF all, e

(* Adding a session to the disk.                                           *)
LEMMA NewSessionAdded ==
    ASSUME TypeInv, CanCreate, disk' = Append(disk, "idle")
    PROVE  /\ disk' \in Seq({"idle", "archived"}) /\ Len(disk') <= MaxSessions
           /\ NewId \in Sessions /\ NewId \notin DOMAIN disk /\ NewId # None
           /\ DOMAIN disk' = DOMAIN disk \cup {NewId}
           /\ disk'[NewId] = "idle" /\ \A s \in DOMAIN disk : disk'[s] = disk[s]
BY LifecycleAssumption, AppendTo
DEF TypeInv, TablesTyped, StoresTyped, NewId, CanCreate, Sessions, None

(* /new takes the gate of the runtime it works on and adds one.            *)
LEMMA CurrentReplaced ==
    ASSUME TypeInv, NEW c \in Callers, startSession(c)
    PROVE  Added(rt', NewId, FALSE) /\ prompt[c].rt \in DOMAIN rt
<1> DEFINE old == prompt[c].rt
           rts == [rt EXCEPT ![old].gate = "new"]
           e == [rt[old] EXCEPT !.gate = "new"]
<1>1. old \in DOMAIN rt /\ rt[old] \in RuntimeStates
  BY RuntimeIsTyped DEF startSession, TypeInv, Locals
<1>2. e \in RuntimeStates /\ Alike(e, rt[old])
  BY <1>1 DEF RuntimeStates, Alike
<1>3. rts = [rt EXCEPT ![old] = e] /\ rt \in Seq(RuntimeStates)
  BY DEF TypeInv, TablesTyped, StoresTyped
<1>4. NewId \in Sessions /\ rt' = Append(rts, Runtime(NewId, FALSE))
  BY NewSessionAdded DEF startSession
<1> HIDE DEF e, rts, old
<1>5. SameRuntimes(rts) /\ \A q \in DOMAIN rt : Alike(rts[q], rt[q])
  BY <1>1, <1>2, <1>3, EditRuntime DEF SameRuntimes, Alike
<1> QED BY <1>1, <1>4, <1>5, AppendAdds DEF old

-----------------------------------------------------------------------------
(* The three outcomes of an evaluation *)

Held(s, bound) == (\E c \in Conns : bound[c] = s) \/ manager[s] \in {None, current}

(* The runtimes rts, one of them retired.                                  *)
Retired(r, rts) ==
    /\ rt' \in Seq(RuntimeStates) /\ Len(rt') = Len(rts) /\ DOMAIN rt' = DOMAIN rts
    /\ \A q \in DOMAIN rts :
         /\ rt'[q].sess = rts[q].sess /\ rt'[q].archived = rts[q].archived
         /\ rt'[q].active = rts[q].active /\ rt'[q].open = rts[q].open
         /\ IF q = r THEN rt'[q].retired ELSE rt'[q].retired = rts[q].retired

Keeps(s, bound, rts) ==
    /\ Held(s, bound)
    /\ suspended' = suspended \ {s} /\ rt' = rts /\ UNCHANGED <<reap, stolen>>

Suspends(s, bound, rts) ==
    /\ ~Held(s, bound) /\ manager[s] \in DOMAIN rt /\ rts[manager[s]].active # "none"
    /\ suspended' = suspended \cup {s} /\ rt' = rts /\ UNCHANGED <<reap, stolen>>

Begins(s, bound, rts) ==
    /\ ~Held(s, bound) /\ manager[s] \in DOMAIN rt /\ rts[manager[s]].active = "none"
    /\ suspended' = suspended \ {s} /\ Retired(manager[s], rts)
    /\ reap' = [pc |-> "remove", sess |-> s, rt |-> manager[s]]
    /\ stolen' = stolen \cup Creating(s)

(* The evaluation of a reference keeps the session, suspends it until its  *)
(* run has ended, or begins its release.                                   *)
LEMMA EvaluationCases ==
    ASSUME TypeInv, NEW s \in DOMAIN disk, NEW bound, NEW rts \in Seq(RuntimeStates),
           DOMAIN rt \subseteq DOMAIN rts, Evaluate(s, bound, rts)
    PROVE  /\ lapsed' = lapsed \ {s}
           /\ Keeps(s, bound, rts) \/ Suspends(s, bound, rts) \/ Begins(s, bound, rts)
<1>1. manager[s] \in {None} \cup DOMAIN rt
  BY StoredIsSession DEF TypeInv, TablesTyped, ReferencesTyped
<1>2. CASE Held(s, bound)
  BY <1>2 DEF Evaluate, Held, Keeps
<1>3. CASE ~Held(s, bound) /\ rts[manager[s]].active # "none"
  BY <1>1, <1>3 DEF Evaluate, Held, Suspends
<1>4. CASE ~Held(s, bound) /\ rts[manager[s]].active = "none"
  <2> DEFINE m == manager[s]
             e == [rts[m] EXCEPT !.retired = TRUE]
  <2>1. m \in DOMAIN rts /\ \A q \in DOMAIN rts : rts[q] \in RuntimeStates
    BY <1>1, <1>4, ElementOfSeq DEF Held
  <2>2. /\ e \in RuntimeStates /\ e.sess = rts[m].sess /\ e.archived = rts[m].archived
        /\ e.active = rts[m].active /\ e.open = rts[m].open /\ e.retired
    BY <2>1 DEF RuntimeStates
  <2>3. rt' = [rts EXCEPT ![m] = e]
    BY <1>4 DEF Evaluate, Held
  <2> HIDE DEF e, m
  <2>5. /\ rt' \in Seq(RuntimeStates) /\ Len(rt') = Len(rts) /\ DOMAIN rt' = DOMAIN rts
        /\ \A q \in DOMAIN rts : rt'[q] = IF q = m THEN e ELSE rts[q]
    BY <2>1, <2>2, <2>3, EditRuntime
  <2>6. Retired(m, rts)
    BY <2>2, <2>5 DEF Retired
  <2> QED BY <1>1, <1>4, <2>6 DEF Evaluate, Held, Begins, m
<1> QED BY <1>2, <1>3, <1>4

(* An evaluation keeps the types, and the runtimes but for a retirement.   *)
EvaluationTyped(rts) ==
    /\ rt' \in Seq(RuntimeStates) /\ Len(rt') = Len(rts) /\ DOMAIN rt' = DOMAIN rts
    /\ \A q \in DOMAIN rts :
         /\ rt'[q].sess = rts[q].sess /\ rt'[q].archived = rts[q].archived
         /\ rt'[q].active = rts[q].active /\ rt'[q].open = rts[q].open
         /\ rts[q].retired => rt'[q].retired
    /\ suspended' \subseteq DOMAIN disk /\ lapsed' \subseteq DOMAIN disk /\ stolen' \subseteq Conns
    /\ reap' \in [pc : ReapPCs, sess : {None} \cup DOMAIN disk, rt : {None} \cup DOMAIN rt]
    /\ reap'.pc # "idle" => reap'.sess \in DOMAIN disk /\ reap'.rt \in DOMAIN rt

(* The evaluation leaves the release in a state of its type.               *)
LEMMA EvaluationIsTyped ==
    ASSUME TypeInv, NEW s \in DOMAIN disk, NEW bound, NEW rts \in Seq(RuntimeStates),
           DOMAIN rt \subseteq DOMAIN rts, Evaluate(s, bound, rts)
    PROVE  EvaluationTyped(rts)
<1>1. lapsed' \subseteq DOMAIN disk
  BY EvaluationCases DEF TypeInv, TablesTyped
<1>2. CASE rt' = rts /\ UNCHANGED <<reap, stolen>> /\ suspended' \subseteq suspended \cup {s}
  BY <1>1, <1>2 DEF EvaluationTyped, TypeInv, TablesTyped, HandlersTyped, ReferencesTyped, Locals
<1>3. CASE Begins(s, bound, rts)
  BY <1>1, <1>3
  DEF Begins, Retired, EvaluationTyped, TypeInv, TablesTyped, ReferencesTyped, ReapPCs, Creating
<1> QED BY <1>2, <1>3, EvaluationCases DEF Keeps, Suspends

(* So does binding a connection, with the evaluation of what it leaves.    *)
LEMMA RebindIsTyped ==
    ASSUME TypeInv, NEW c \in Conns, NEW s \in DOMAIN disk, NEW rts \in Seq(RuntimeStates),
           DOMAIN rt \subseteq DOMAIN rts, Rebind(c, s, rts)
    PROVE  EvaluationTyped(rts) /\ byClient' = [byClient EXCEPT ![c] = s]
<1>1. CASE byClient[c] \notin {None, s}
  <2>1. byClient[c] \in DOMAIN disk /\ Evaluate(byClient[c], byClient', rts)
    BY <1>1 DEF TypeInv, TablesTyped, ReferencesTyped, Rebind
  <2> QED BY <2>1, EvaluationIsTyped DEF Rebind
<1>2. CASE byClient[c] \in {None, s}
  BY <1>2
  DEF Rebind, EvaluationTyped, historyVars, TypeInv, TablesTyped, ReferencesTyped, HandlersTyped,
      Locals
<1> QED BY <1>1, <1>2

-----------------------------------------------------------------------------
(* The steps that edit one runtime *)

(* A reservation needs a live and idle runtime; a refused one changes      *)
(* nothing.                                                                *)
LEMMA ReserveEdits ==
    ASSUME TypeInv, NEW r \in DOMAIN rt, reserveRun(r)
    PROVE  \/ Admits(r) /\ Edited(r, "reserved", rt[r].archived)
           \/ rt' = rt /\ late' = late
BY ActiveEdit DEF reserveRun

(* Either way the runtimes stay, and no retired or archived one runs.      *)
LEMMA ReserveKeeps ==
    ASSUME TypeInv, NEW r \in DOMAIN rt, reserveRun(r)
    PROVE  /\ SameRuntimes(rt')
           /\ \A q \in DOMAIN rt :
                /\ rt'[q].sess = rt[q].sess /\ rt'[q].retired = rt[q].retired
                /\ rt'[q].archived = rt[q].archived /\ rt'[q].open = rt[q].open
                /\ rt[q].retired \/ rt[q].archived \/ q # r => rt'[q].active = rt[q].active
                /\ rt[q].active # "none" => rt'[q].active = rt[q].active
<1>1. CASE Admits(r) /\ Edited(r, "reserved", rt[r].archived)
  BY <1>1 DEF Admits, Edited, Alike
<1>2. CASE rt' = rt
  BY <1>2 DEF SameRuntimes, TypeInv, TablesTyped, StoresTyped
<1> QED BY <1>1, <1>2, ReserveEdits

(* The steps of a run.                                                     *)
LEMMA RunEdits ==
    ASSUME TypeInv, NEW r \in DOMAIN rt
    PROVE  /\ AcceptRun(r) => Edited(r, "accepted", rt[r].archived)
           /\ RollbackRun(r) \/ FinalizeRun(r) => Edited(r, "none", rt[r].archived)
           /\ AcquireRun(r) => Edited(r, "running", rt[r].archived)
<1>1. ASSUME AcceptRun(r) PROVE Edited(r, "accepted", rt[r].archived)
  <2> DEFINE h == IF rt[r].hub = "none" THEN "open" ELSE rt[r].hub
  <2>1. h \in {"none", "open", "closed"} /\ rt' = [rt EXCEPT ![r].active = "accepted", ![r].hub = h]
    BY <1>1, RuntimeIsTyped, FieldsOfRuntimes DEF AcceptRun
  <2> HIDE DEF h
  <2> QED BY <2>1, AcceptEdit
<1>2. ASSUME RollbackRun(r) \/ FinalizeRun(r) PROVE Edited(r, "none", rt[r].archived)
  BY <1>2, ActiveEdit DEF RollbackRun, FinalizeRun
<1>3. ASSUME AcquireRun(r) PROVE Edited(r, "running", rt[r].archived)
  BY <1>3, AcquireEdit DEF AcquireRun
<1> QED BY <1>1, <1>2, <1>3

(* The steps that build or close a hub, give a gate back, archive.         *)
LEMMA ReapEventsEdits ==
    ASSUME TypeInv, ReapCloseEvents
    PROVE  Edited(reap.rt, rt[reap.rt].active, rt[reap.rt].archived)
<1> DEFINE h == IF rt[reap.rt].hub = "none" THEN "none" ELSE "closed"
<1>1. reap.rt \in DOMAIN rt /\ h \in {"none", "open", "closed"} /\ rt' = [rt EXCEPT ![reap.rt].hub = h]
  BY DEF ReapCloseEvents, TypeInv, Locals
<1> HIDE DEF h
<1> QED BY <1>1, HubEdit

(* EnsureHub opens the hub of the runtime a subscriber was routed to, and  *)
(* changes nothing else of it.                                             *)
LEMMA HubEdits ==
    ASSUME TypeInv, NEW c \in Conns, EnsureHub(c)
    PROVE  Edited(sub[c], rt[sub[c]].active, rt[sub[c]].archived)
<1> DEFINE h == IF rt[sub[c]].hub = "none" THEN "open" ELSE rt[sub[c]].hub
<1>1. sub[c] \in DOMAIN rt
  BY DEF EnsureHub, TypeInv, TablesTyped, ReferencesTyped
<1>2. h \in {"none", "open", "closed"} /\ rt' = [rt EXCEPT ![sub[c]].hub = h]
  BY <1>1, RuntimeIsTyped, FieldsOfRuntimes DEF EnsureHub
<1> HIDE DEF h
<1> QED BY <1>1, <1>2, HubEdit

(* Clearing the binding of a prompt opens the gate of its runtime, and     *)
(* changes nothing else of it.                                             *)
LEMMA ClearEdits ==
    ASSUME TypeInv, NEW c \in Callers, ClearBinding(c)
    PROVE  Edited(prompt[c].rt, rt[prompt[c].rt].active, rt[prompt[c].rt].archived)
<1>1. prompt[c].rt \in DOMAIN rt
  BY DEF ClearBinding, TypeInv, Locals
<1> QED BY <1>1, GateEdit DEF ClearBinding

(* RouteSession finds a runtime or none, and a caller's session likewise.  *)
LEMMA Routes ==
    ASSUME TypeInv
    PROVE  /\ \A s \in Sessions : RouteSession(s) \in {None} \cup DOMAIN rt
           /\ \A c \in Callers : sessionRuntimeIn(c) \in {None} \cup DOMAIN rt
<1>1. \A s \in Sessions : RouteSession(s) \in {None} \cup DOMAIN rt
  BY DEF RouteSession, TypeInv, TablesTyped, ReferencesTyped
<1>2. ASSUME NEW c \in Callers PROVE sessionRuntimeIn(c) \in {None} \cup DOMAIN rt
  <2>1. c \in Conns /\ binding[c] # None => binding[c] \in Sessions
    BY StoredIsSession DEF TypeInv, TablesTyped, ReferencesTyped
  <2> QED BY <1>1, <2>1 DEF sessionRuntimeIn, TypeInv, TablesTyped, ReferencesTyped
<1> QED BY <1>1, <1>2

(* Archiving a mounted session marks its runtime, and changes nothing else *)
(* of it.                                                                  *)
LEMMA ArchiveEdits ==
    ASSUME TypeInv, NEW s \in Sessions, ArchiveMounted(s)
    PROVE  Edited(RouteSession(s), rt[RouteSession(s)].active, TRUE) /\ s \in DOMAIN disk
<1>1. RouteSession(s) \in DOMAIN rt /\ s \in DOMAIN disk
  BY Routes DEF ArchiveMounted, TypeInv, TablesTyped, StoresTyped
<1> QED BY <1>1, ArchiveEdit DEF ArchiveMounted

(* Stop closes hubs, and in the end every store.                           *)
LEMMA StopEdits ==
    ASSUME TypeInv
    PROVE  /\ StopManager => SameRuntimes(rt') /\ \A q \in DOMAIN rt : Alike(rt'[q], rt[q])
           /\ StopStores =>
                /\ SameRuntimes(rt')
                /\ \A q \in DOMAIN rt :
                     /\ rt'[q].sess = rt[q].sess /\ rt'[q].retired = rt[q].retired
                     /\ rt'[q].archived = rt[q].archived /\ rt'[q].active = rt[q].active
                     /\ ~rt'[q].open
<1>1. ASSUME StopManager
      PROVE  SameRuntimes(rt') /\ \A q \in DOMAIN rt : Alike(rt'[q], rt[q])
  <2>1. ASSUME NEW q \in DOMAIN rt PROVE rt'[q] \in RuntimeStates /\ Alike(rt'[q], rt[q])
    <3>1. rt[q] \in RuntimeStates
      BY RuntimeIsTyped
    <3>2. /\ [rt[q] EXCEPT !.hub = "closed"] \in RuntimeStates
          /\ Alike([rt[q] EXCEPT !.hub = "closed"], rt[q])
      BY <3>1 DEF RuntimeStates, Alike
    <3>3. rt'[q] \in {rt[q], [rt[q] EXCEPT !.hub = "closed"]}
      BY <1>1 DEF StopManager
    <3> QED BY <3>1, <3>2, <3>3 DEF Alike
  <2>2. rt' \in [1 .. Len(rt) -> RuntimeStates] /\ Len(rt) \in Nat /\ DOMAIN rt = 1 .. Len(rt)
    BY <1>1, <2>1, RuntimeIsTyped DEF StopManager
  <2> QED BY <2>1, <2>2, FunctionIsSeq DEF SameRuntimes
<1>2. ASSUME StopStores
      PROVE  /\ SameRuntimes(rt')
             /\ \A q \in DOMAIN rt :
                  /\ rt'[q].sess = rt[q].sess /\ rt'[q].retired = rt[q].retired
                  /\ rt'[q].archived = rt[q].archived /\ rt'[q].active = rt[q].active
                  /\ ~rt'[q].open
  <2>1. ASSUME NEW q \in DOMAIN rt
        PROVE  /\ rt'[q] \in RuntimeStates
               /\ rt'[q].sess = rt[q].sess /\ rt'[q].retired = rt[q].retired
               /\ rt'[q].archived = rt[q].archived /\ rt'[q].active = rt[q].active
               /\ ~rt'[q].open
    <3>1. rt[q] \in RuntimeStates
      BY RuntimeIsTyped
    <3>2. rt'[q] = [rt[q] EXCEPT !.open = FALSE]
      BY <1>2 DEF StopStores
    <3> QED BY <3>1, <3>2 DEF RuntimeStates
  <2>2. rt' \in [1 .. Len(rt) -> RuntimeStates] /\ Len(rt) \in Nat /\ DOMAIN rt = 1 .. Len(rt)
    BY <1>2, <2>1, RuntimeIsTyped DEF StopStores
  <2> QED BY <2>1, <2>2, FunctionIsSeq DEF SameRuntimes
<1> QED BY <1>1, <1>2

(* The done hook gives the gate back, then evaluates.                      *)
LEMMA HookEvaluates ==
    ASSUME TypeInv, NEW r \in DOMAIN rt, onSessionRunDone(r)
    PROVE  \E freed :
             /\ SameRuntimes(freed) /\ \A q \in DOMAIN rt : Alike(freed[q], rt[q])
             /\ rt[r].sess \in DOMAIN disk
             /\ IF rt[r].sess \in suspended THEN Evaluate(rt[r].sess, byClient, freed)
                ELSE rt' = freed /\ UNCHANGED <<suspended, reap, historyVars>>
<1> DEFINE g == IF rt[r].gate = "run" /\ rt[r].active # "running" THEN "free" ELSE rt[r].gate
           e == [rt[r] EXCEPT !.gate = g]
           freed == [rt EXCEPT ![r].gate = g]
<1>1. g \in {"free", "run", "new"} /\ rt[r] \in RuntimeStates
  BY RuntimeIsTyped, FieldsOfRuntimes
<1> HIDE DEF g
<1>2. e \in RuntimeStates /\ Alike(e, rt[r]) /\ rt \in Seq(RuntimeStates)
  BY <1>1 DEF RuntimeStates, Alike, TypeInv, TablesTyped, StoresTyped
<1>3. freed = [rt EXCEPT ![r] = e]
  OBVIOUS
<1>4. rt[r].sess \in DOMAIN disk
  BY DEF TypeInv, TablesTyped, StoresTyped
<1>5. IF rt[r].sess \in suspended THEN Evaluate(rt[r].sess, byClient, freed)
      ELSE rt' = freed /\ UNCHANGED <<suspended, reap, historyVars>>
  BY DEF onSessionRunDone, g
<1> HIDE DEF e, freed
<1>6. SameRuntimes(freed) /\ \A q \in DOMAIN rt : Alike(freed[q], rt[q])
  BY <1>2, <1>3, EditRuntime DEF SameRuntimes, Alike
<1> QED BY <1>4, <1>5, <1>6

-----------------------------------------------------------------------------
(* Types *)

(* No session and no runtime disappears, and a runtime stays its session's. *)
Grows ==
    /\ DOMAIN disk \subseteq DOMAIN disk' /\ DOMAIN rt \subseteq DOMAIN rt'
    /\ \A r \in DOMAIN rt : rt'[r].sess = rt[r].sess

(* Every step keeps the types.                                             *)
LEMMA TypeStep == TypeInv /\ [Next]_vars => TypeInv'
<1> SUFFICES ASSUME TypeInv, [Next]_vars PROVE TypeInv'
  OBVIOUS
<1> USE LifecycleAssumption DEF repoVars, tableVars, refVars, connVars, promptVars, stopVars, historyVars, None, Callers
<1>1. CASE ReapRemove
  <2> QED BY <1>1
    DEF ReapRemove, StoresTyped, Grows, TypeInv, TablesTyped, Locals, ReferencesTyped, HandlersTyped,
        OpPCs, PromptPCs, ReapPCs
<1>2. CASE ReapCloseEvents
  <2>a. SameRuntimes(rt') /\ \A q \in DOMAIN rt : rt'[q].sess = rt[q].sess
    BY <1>2, ReapEventsEdits DEF Edited, SameRuntimes, Alike
  <2> QED BY <1>2, <2>a
    DEF ReapCloseEvents, SameRuntimes, StoresTyped, Grows, TypeInv, TablesTyped, Locals,
        ReferencesTyped, HandlersTyped, OpPCs, PromptPCs, ReapPCs
<1>3. CASE ReapCloseStore
  <2>a. SameRuntimes(rt') /\ \A q \in DOMAIN rt : rt'[q].sess = rt[q].sess
    <3>1. CASE rt[current].sess # reap.sess
      BY <1>3, <3>1, CloseEdit DEF ReapCloseStore
    <3>2. CASE rt[current].sess = reap.sess
      BY <1>3, <3>2 DEF ReapCloseStore, SameRuntimes, TypeInv, TablesTyped, StoresTyped
    <3> QED BY <3>1, <3>2
  <2> QED BY <1>3, <2>a
    DEF ReapCloseStore, NoReap, SameRuntimes, StoresTyped, Grows, TypeInv, TablesTyped, Locals,
        CloseSession, ReferencesTyped, HandlersTyped, OpPCs, PromptPCs, ReapPCs
<1>4. ASSUME NEW c \in Conns, RequestNew(c) PROVE TypeInv'
  <2> QED BY <1>4
    DEF RequestNew, Request, Counted, NoOp, StoresTyped, Grows, TypeInv, TablesTyped, Locals,
        ReferencesTyped, HandlersTyped, OpPCs, PromptPCs, ReapPCs
<1>5. ASSUME NEW c \in Conns, CreateBoundSession(c) PROVE TypeInv'
  <2>a. /\ disk' \in Seq({"idle", "archived"}) /\ Len(disk') <= MaxSessions
        /\ NewId \in Sessions /\ NewId \notin DOMAIN disk /\ NewId # None
        /\ DOMAIN disk' = DOMAIN disk \cup {NewId}
    BY <1>5, NewSessionAdded DEF CreateBoundSession
  <2>c. CASE managerOpen
    <3>d. rt' = Append(rt, Runtime(NewId, FALSE))
      BY <1>5, <2>c DEF CreateBoundSession
    <3>e. Added(rt', NewId, FALSE)
      BY <2>a, <3>d, AppendAdds DEF SameRuntimes, Alike, TypeInv, TablesTyped, StoresTyped
    <3>f. NewRt <= MaxRuntimes
      BY <1>5 DEF CreateBoundSession, CanCreate, NewRt, TypeInv, TablesTyped, StoresTyped
    <3>g. /\ cached' = cached \cup {NewId} /\ manager' = [manager EXCEPT ![NewId] = NewRt]
          /\ op' = [op EXCEPT ![c] = [pc |-> "remember", sess |-> NewId]]
      BY <1>5, <2>c DEF CreateBoundSession
    <3>1. StoresTyped' /\ Grows
      BY <1>5, <2>a, <2>c, <3>e, <3>f, <3>g
      DEF CreateBoundSession, Added, Alike, StoresTyped, Grows, TypeInv, TablesTyped, Locals
    <3> QED BY <1>5, <2>a, <2>c, <3>e, <3>f, <3>g, <3>1
      DEF CreateBoundSession, Added, Alike, TypeInv, TablesTyped, Locals, ReferencesTyped,
          HandlersTyped, Grows, OpPCs, PromptPCs, ReapPCs
  <2>d. CASE ~managerOpen
    <3>e. op' = [op EXCEPT ![c] = NoOp] /\ UNCHANGED <<cached, rt, manager>>
      BY <1>5, <2>d DEF CreateBoundSession
    <3> QED BY <1>5, <2>a, <2>d, <3>e
      DEF CreateBoundSession, NoOp, StoresTyped, Grows, TypeInv, TablesTyped, Locals, ReferencesTyped,
          HandlersTyped, OpPCs, PromptPCs, ReapPCs
  <2> QED BY <2>c, <2>d
<1>6. ASSUME NEW c \in Conns, SetBinding(c) PROVE TypeInv'
  <2>a. op[c].sess \in DOMAIN disk /\ op[c] \in [pc : OpPCs, sess : {None} \cup DOMAIN disk]
    BY <1>6 DEF SetBinding, TypeInv, TablesTyped, Locals, HandlersTyped
  <2> QED BY <1>6, <2>a
    DEF SetBinding, NoOp, remember, StoresTyped, Grows, TypeInv, TablesTyped, Locals, ReferencesTyped,
        HandlersTyped, OpPCs, PromptPCs, ReapPCs
<1>7. ASSUME NEW c \in Conns, BindConnectionSession(c) PROVE TypeInv'
  <2>a. op[c].sess \in DOMAIN disk /\ Rebind(c, op[c].sess, rt)
    BY <1>7 DEF BindConnectionSession, TypeInv, Locals
  <2>b. EvaluationTyped(rt) /\ byClient' = [byClient EXCEPT ![c] = op[c].sess]
    BY <2>a, RebindIsTyped DEF TypeInv, TablesTyped, StoresTyped
  <2> QED BY <1>7, <2>a, <2>b
    DEF BindConnectionSession, NoOp, NoReap, EvaluationTyped, StoresTyped, Grows, TypeInv, TablesTyped,
        Locals, ReferencesTyped, HandlersTyped, OpPCs, PromptPCs, ReapPCs
<1>8. ASSUME NEW c \in Conns, NEW s \in Sessions, RequestLoad(c, s) PROVE TypeInv'
  <2>1. StoresTyped' /\ Grows
    BY <1>8 DEF RequestLoad, Request, Counted, NoOp, StoresTyped, Grows, TypeInv, TablesTyped, Locals
  <2> QED BY <1>8, <2>1
    DEF RequestLoad, Request, Counted, NoOp, TypeInv, TablesTyped, Locals, ReferencesTyped,
        HandlersTyped, Grows, OpPCs, PromptPCs, ReapPCs
<1>9. ASSUME NEW c \in Conns, SessionArchived(c) PROVE TypeInv'
  <2>1. StoresTyped' /\ Grows
    BY <1>9 DEF SessionArchived, OpenStore, Advance, StoresTyped, Grows, TypeInv, TablesTyped, Locals
  <2>2. op' \in [Conns -> [pc : OpPCs, sess : {None} \cup DOMAIN disk]]
    BY <1>9 DEF SessionArchived, Advance, TypeInv, TablesTyped, HandlersTyped, OpPCs
  <2>3. \A d \in Conns : op'[d].pc \notin {"idle", "new"} => op'[d].sess \in DOMAIN disk
    BY <1>9 DEF SessionArchived, Advance, TypeInv, TablesTyped, HandlersTyped, Locals
  <2> QED BY <1>9, <2>1, <2>2, <2>3
    DEF SessionArchived, TypeInv, TablesTyped, Locals, ReferencesTyped, HandlersTyped, Grows
<1>10. ASSUME NEW c \in Conns, ArchivedSessionHistory(c) PROVE TypeInv'
  <2>a. op[c].sess \in DOMAIN disk /\ op[c] \in [pc : OpPCs, sess : {None} \cup DOMAIN disk]
    BY <1>10 DEF ArchivedSessionHistory, TypeInv, TablesTyped, Locals, HandlersTyped
  <2>b. CASE RouteSession(op[c].sess) = None
    <3>d. /\ OpenStore(op[c].sess) /\ op' = [op EXCEPT ![c].pc = "evict"]
          /\ UNCHANGED <<disk, rt, tableVars, suspended, hooks, refVars, connVars, promptVars, reap,
                      stopVars, historyVars, inputs, faults>>
      BY <1>10, <2>b DEF ArchivedSessionHistory, Advance
    <3> QED BY <2>a, <3>d
      DEF OpenStore, StoresTyped, Grows, TypeInv, TablesTyped, Locals, ReferencesTyped, HandlersTyped,
          OpPCs, PromptPCs, ReapPCs
  <2>c. CASE RouteSession(op[c].sess) # None
    <3>d. /\ OpenStore(op[c].sess) /\ op' = [op EXCEPT ![c] = NoOp]
          /\ UNCHANGED <<disk, rt, tableVars, suspended, hooks, refVars, connVars, promptVars, reap,
                      stopVars, historyVars, inputs, faults>>
      BY <1>10, <2>c DEF ArchivedSessionHistory, Answer
    <3> QED BY <2>a, <3>d
      DEF OpenStore, NoOp, StoresTyped, Grows, TypeInv, TablesTyped, Locals, ReferencesTyped,
          HandlersTyped, OpPCs, PromptPCs, ReapPCs
  <2> QED BY <2>b, <2>c
<1>11. ASSUME NEW c \in Conns, Evict(c) PROVE TypeInv'
  <2>a. SameRuntimes(rt') /\ \A q \in DOMAIN rt : rt'[q].sess = rt[q].sess
    BY <1>11, CloseEdit DEF Evict, Edited, SameRuntimes, Alike
  <2> QED BY <1>11, <2>a
    DEF Evict, Answer, NoOp, SameRuntimes, StoresTyped, Grows, TypeInv, TablesTyped, Locals,
        CloseSession, ReferencesTyped, HandlersTyped, OpPCs, PromptPCs, ReapPCs
<1>12. ASSUME NEW c \in Conns, LoadRouted(c) PROVE TypeInv'
  <2>c. op[c] \in [pc : OpPCs, sess : {None} \cup DOMAIN disk]
    BY DEF TypeInv, TablesTyped, HandlersTyped
  <2>a. op[c].sess \in DOMAIN disk /\ Rebind(c, op[c].sess, rt)
    BY <1>12 DEF LoadRouted, TypeInv, Locals
  <2>b. EvaluationTyped(rt) /\ byClient' = [byClient EXCEPT ![c] = op[c].sess]
    BY <2>a, RebindIsTyped DEF TypeInv, TablesTyped, StoresTyped
  <2> QED BY <1>12, <2>a, <2>b, <2>c
    DEF LoadRouted, Advance, NoReap, EvaluationTyped, StoresTyped, Grows, TypeInv, TablesTyped, Locals,
        ReferencesTyped, HandlersTyped, OpPCs, PromptPCs, ReapPCs
<1>13. ASSUME NEW c \in Conns, LoadReopened(c) PROVE TypeInv'
  <2>a. op[c].sess \in DOMAIN disk /\ op[c].sess \in Sessions
    BY <1>13, StoredIsSession DEF LoadReopened, TypeInv, Locals
  <2>b. NewRt <= MaxRuntimes
    BY <1>13 DEF LoadReopened, NewRt, TypeInv, TablesTyped, StoresTyped
  <2>c. CASE managerOpen
    <3> DEFINE rts == Append(rt, Runtime(op[c].sess, disk[op[c].sess] = "archived"))
    <3>f. Added(rts, op[c].sess, disk[op[c].sess] = "archived")
      BY <2>a, AppendAdds DEF SameRuntimes, Alike, TypeInv, TablesTyped, StoresTyped
    <3>g. Rebind(c, op[c].sess, rts) /\ manager' = [manager EXCEPT ![op[c].sess] = NewRt] /\ Advance(c, "loaded")
      BY <1>13, <2>c DEF LoadReopened
    <3> HIDE DEF rts
    <3>h. EvaluationTyped(rts) /\ byClient' = [byClient EXCEPT ![c] = op[c].sess]
      BY <2>a, <3>f, <3>g, RebindIsTyped DEF Added
    <3>i. /\ rt' \in Seq(RuntimeStates) /\ Len(rt') = NewRt /\ DOMAIN rt' = DOMAIN rt \cup {NewRt}
          /\ \A q \in DOMAIN rt : rt'[q].sess = rt[q].sess
          /\ rt'[NewRt].sess = op[c].sess
      BY <3>f, <3>h DEF EvaluationTyped, Added, Alike
    <3>j. /\ OpenStore(op[c].sess)
          /\ UNCHANGED <<disk, current, hooks, binding, connVars, promptVars, stopVars, inputs, faults>>
      BY <1>13 DEF LoadReopened
    <3>1. StoresTyped' /\ Grows
      BY <2>a, <2>b, <3>g, <3>h, <3>i, <3>j
      DEF Advance, OpenStore, EvaluationTyped, StoresTyped, Grows, TypeInv, TablesTyped, Locals
    <3>2. ReferencesTyped'
      BY <2>a, <2>b, <3>g, <3>h, <3>i, <3>j, <3>1
      DEF Advance, OpenStore, EvaluationTyped, TypeInv, TablesTyped, Locals, ReferencesTyped,
          HandlersTyped, Grows
    <3>3. HandlersTyped'
      BY <2>a, <2>b, <3>g, <3>h, <3>i, <3>j, <3>1
      DEF Advance, OpenStore, EvaluationTyped, TypeInv, TablesTyped, Locals, ReferencesTyped,
          HandlersTyped, Grows, OpPCs, PromptPCs, ReapPCs
    <3>4. TablesTyped'
      BY <2>a, <2>b, <3>g, <3>h, <3>i, <3>j, <3>1, <3>2, <3>3
      DEF Advance, OpenStore, EvaluationTyped, TypeInv, TablesTyped, Grows
    <3>5. Locals'
      BY <2>a, <2>b, <3>g, <3>h, <3>i, <3>j, <3>1
      DEF Advance, OpenStore, EvaluationTyped, TypeInv, TablesTyped, Locals, ReferencesTyped,
          HandlersTyped, Grows
    <3> QED BY <3>4, <3>5 DEF TypeInv
  <2>d. CASE ~managerOpen
    <3>e. Answer(c) /\ UNCHANGED <<rt, manager, suspended, byClient, reap, historyVars>>
      BY <1>13, <2>d DEF LoadReopened
    <3> QED BY <1>13, <2>a, <3>e
      DEF LoadReopened, NoOp, Answer, OpenStore, StoresTyped, Grows, TypeInv, TablesTyped, Locals,
          ReferencesTyped, HandlersTyped, OpPCs, PromptPCs, ReapPCs
  <2> QED BY <2>c, <2>d
<1>14. ASSUME NEW s \in Sessions, StartRun(s) PROVE TypeInv'
  <2> QED BY <1>14
    DEF StartRun, Counted, StoresTyped, Grows, TypeInv, TablesTyped, Locals,
        ReferencesTyped, HandlersTyped, OpPCs, PromptPCs, ReapPCs
<1>15. ASSUME NEW c \in Callers, StartRunSync(c) PROVE TypeInv'
  <2>a. manager[rt[sessionRuntimeIn(c)].sess] \in DOMAIN rt
    BY <1>15, StoredIsSession DEF StartRunSync, Found, TypeInv, TablesTyped, ReferencesTyped
  <2>b. StoresTyped' /\ Grows
    BY <1>15 DEF StartRunSync, Counted, StoresTyped, Grows, TypeInv, TablesTyped, Locals
  <2> QED BY <1>15, <2>a, <2>b
    DEF StartRunSync, Counted, NoPrompt, TypeInv, TablesTyped, Locals, ReferencesTyped,
        HandlersTyped, Grows, OpPCs, PromptPCs, ReapPCs
<1>16. ASSUME NEW r \in DOMAIN rt, AcceptRun(r) PROVE TypeInv'
  <2>a. SameRuntimes(rt') /\ \A q \in DOMAIN rt : rt'[q].sess = rt[q].sess
    BY <1>16, RunEdits DEF Edited, SameRuntimes, Alike
  <2> QED BY <1>16, <2>a
    DEF AcceptRun, SameRuntimes, StoresTyped, Grows, TypeInv, TablesTyped, Locals, ReferencesTyped,
        HandlersTyped, OpPCs, PromptPCs, ReapPCs
<1>17. ASSUME NEW r \in DOMAIN rt, RollbackRun(r) PROVE TypeInv'
  <2>a. SameRuntimes(rt') /\ \A q \in DOMAIN rt : rt'[q].sess = rt[q].sess
    BY <1>17, RunEdits DEF Edited, SameRuntimes, Alike
  <2>1. StoresTyped' /\ Grows
    BY <1>17, <2>a
    DEF RollbackRun, EndPrompts, NoPrompt, SameRuntimes, StoresTyped, Grows, TypeInv, TablesTyped,
        Locals
  <2>2. ReferencesTyped'
    BY <1>17, <2>a, <2>1
    DEF RollbackRun, EndPrompts, NoPrompt, SameRuntimes, TypeInv, TablesTyped, Locals, ReferencesTyped,
        HandlersTyped, Grows
  <2>3. HandlersTyped'
    BY <1>17, <2>a, <2>1
    DEF RollbackRun, EndPrompts, NoPrompt, SameRuntimes, TypeInv, TablesTyped, Locals, ReferencesTyped,
        HandlersTyped, Grows, OpPCs, PromptPCs, ReapPCs
  <2>4. TablesTyped'
    BY <1>17, <2>a, <2>1, <2>2, <2>3
    DEF RollbackRun, EndPrompts, NoPrompt, SameRuntimes, TypeInv, TablesTyped, Grows, StoresTyped
  <2>5. Locals'
    BY <1>17, <2>a, <2>1
    DEF RollbackRun, EndPrompts, NoPrompt, SameRuntimes, TypeInv, TablesTyped, Locals, ReferencesTyped,
        HandlersTyped, Grows
  <2> QED BY <2>4, <2>5 DEF TypeInv
<1>18. ASSUME NEW r \in DOMAIN rt, AcquireRun(r) PROVE TypeInv'
  <2>a. SameRuntimes(rt') /\ \A q \in DOMAIN rt : rt'[q].sess = rt[q].sess
    BY <1>18, RunEdits DEF Edited, SameRuntimes, Alike
  <2> QED BY <1>18, <2>a
    DEF AcquireRun, SameRuntimes, StoresTyped, Grows, TypeInv, TablesTyped, Locals, ReferencesTyped,
        HandlersTyped, OpPCs, PromptPCs, ReapPCs
<1>19. ASSUME NEW r \in DOMAIN rt, FinalizeRun(r) PROVE TypeInv'
  <2>a. SameRuntimes(rt') /\ \A q \in DOMAIN rt : rt'[q].sess = rt[q].sess
    BY <1>19, RunEdits DEF Edited, SameRuntimes, Alike
  <2> QED BY <1>19, <2>a
    DEF FinalizeRun, EndPrompts, NoPrompt, SameRuntimes, StoresTyped, Grows, TypeInv, TablesTyped,
        Locals, ReferencesTyped, HandlersTyped, OpPCs, PromptPCs, ReapPCs
<1>20. ASSUME NEW r \in DOMAIN rt, onSessionRunDone(r) PROVE TypeInv'
  <2>a. PICK freed :
             /\ SameRuntimes(freed) /\ \A q \in DOMAIN rt : Alike(freed[q], rt[q])
             /\ rt[r].sess \in DOMAIN disk
             /\ IF rt[r].sess \in suspended THEN Evaluate(rt[r].sess, byClient, freed)
                ELSE rt' = freed /\ UNCHANGED <<suspended, reap, historyVars>>
    BY <1>20, HookEvaluates
  <2>b. EvaluationTyped(freed)
    <3>1. CASE rt[r].sess \in suspended
      BY <3>1, <2>a, EvaluationIsTyped DEF SameRuntimes
    <3>2. CASE rt[r].sess \notin suspended
      BY <3>2, <2>a
      DEF SameRuntimes, EvaluationTyped, TypeInv, TablesTyped, ReferencesTyped, HandlersTyped, Locals
    <3> QED BY <3>1, <3>2
  <2>c. SameRuntimes(rt') /\ \A q \in DOMAIN rt : rt'[q].sess = rt[q].sess
    BY <2>a, <2>b DEF SameRuntimes, Alike, EvaluationTyped
  <2>d. /\ hooks' = hooks \ {r}
        /\ UNCHANGED <<repoVars, tableVars, refVars, connVars, op, promptVars, stopVars, inputs, faults>>
    BY <1>20 DEF onSessionRunDone
  <2> QED BY <2>b, <2>c, <2>d
    DEF EvaluationTyped, SameRuntimes, StoresTyped, Grows, TypeInv, TablesTyped, Locals,
        ReferencesTyped, HandlersTyped, OpPCs, PromptPCs, ReapPCs
<1>21. CASE FinalizerEnds
  <2>1. finalizers' \in Nat
    BY <1>21 DEF FinalizerEnds, TypeInv, TablesTyped
  <2> QED BY <1>21, <2>1
    DEF FinalizerEnds, StoresTyped, TypeInv, TablesTyped, Locals, ReferencesTyped, HandlersTyped
<1>22. ASSUME NEW s \in Sessions, ArchiveMounted(s) PROVE TypeInv'
  <2>a. SameRuntimes(rt') /\ \A q \in DOMAIN rt : rt'[q].sess = rt[q].sess
    BY <1>22, ArchiveEdits DEF Edited, SameRuntimes, Alike
  <2>1. StoresTyped' /\ Grows
    BY <1>22, <2>a, ArchiveEdits
    DEF ArchiveMounted, Counted, SameRuntimes, StoresTyped, Grows, TypeInv, TablesTyped, Locals
  <2>2. ReferencesTyped'
    BY <1>22, <2>a, <2>1
    DEF ArchiveMounted, Counted, SameRuntimes, TypeInv, TablesTyped, Locals, ReferencesTyped,
        HandlersTyped, Grows
  <2>3. HandlersTyped'
    BY <1>22, <2>a, <2>1
    DEF ArchiveMounted, Counted, SameRuntimes, TypeInv, TablesTyped, Locals, ReferencesTyped,
        HandlersTyped, Grows, OpPCs, PromptPCs, ReapPCs
  <2>4. TablesTyped'
    BY <1>22, <2>a, <2>1, <2>2, <2>3
    DEF ArchiveMounted, Counted, SameRuntimes, TypeInv, TablesTyped, Grows
  <2>5. Locals'
    BY <1>22, <2>a, <2>1
    DEF ArchiveMounted, Counted, SameRuntimes, TypeInv, TablesTyped, Locals, ReferencesTyped,
        HandlersTyped, Grows
  <2> QED BY <2>4, <2>5 DEF TypeInv
<1>23. ASSUME NEW s \in Sessions, ArchiveStored(s) PROVE TypeInv'
  <2>a. SameRuntimes(rt') /\ \A q \in DOMAIN rt : rt'[q].sess = rt[q].sess
    BY <1>23, CloseEdit DEF ArchiveStored, Edited, SameRuntimes, Alike
  <2>1. StoresTyped' /\ Grows
    BY <1>23, <2>a
    DEF ArchiveStored, RouteSession, Counted, NoReap, SameRuntimes, StoresTyped, Grows, TypeInv,
        TablesTyped, Locals, CloseSession
  <2> QED BY <1>23, <2>a, <2>1
    DEF ArchiveStored, RouteSession, Counted, NoReap, SameRuntimes, TypeInv, TablesTyped, Locals,
        ReferencesTyped, HandlersTyped, Grows, OpPCs, PromptPCs, ReapPCs
<1>24. CASE StopBegin
  <2> QED BY <1>24
    DEF StopBegin, StopStep, Counted, StoresTyped, Grows, TypeInv, TablesTyped, Locals,
        ReferencesTyped, HandlersTyped, OpPCs, PromptPCs, ReapPCs
<1>25. CASE StopManager
  <2>a. SameRuntimes(rt') /\ \A q \in DOMAIN rt : rt'[q].sess = rt[q].sess
    BY <1>25, StopEdits DEF Edited, SameRuntimes, Alike
  <2> QED BY <1>25, <2>a
    DEF StopManager, StopStep, SameRuntimes, StoresTyped, Grows, TypeInv, TablesTyped, Locals,
        ReferencesTyped, HandlersTyped, OpPCs, PromptPCs, ReapPCs
<1>26. CASE StopCommands
  <2> QED BY <1>26
    DEF StopCommands, StopStep, StoresTyped, Grows, TypeInv, TablesTyped, Locals, ReferencesTyped,
        HandlersTyped, OpPCs, PromptPCs, ReapPCs
<1>27. CASE StopMemory
  <2> QED BY <1>27
    DEF StopMemory, StopStep, StoresTyped, Grows, TypeInv, TablesTyped, Locals, ReferencesTyped,
        HandlersTyped, OpPCs, PromptPCs, ReapPCs
<1>28. CASE StopStores
  <2>a. SameRuntimes(rt') /\ \A q \in DOMAIN rt : rt'[q].sess = rt[q].sess
    BY <1>28, StopEdits DEF Edited, SameRuntimes, Alike
  <2> QED BY <1>28, <2>a
    DEF StopStores, StopStep, SameRuntimes, StoresTyped, Grows, TypeInv, TablesTyped, Locals,
        ReferencesTyped, HandlersTyped, OpPCs, PromptPCs, ReapPCs
<1>29. ASSUME NEW c \in Conns, ConnClose(c) PROVE TypeInv'
  <2> QED BY <1>29
    DEF ConnClose, Counted, StoresTyped, Grows, TypeInv, TablesTyped, Locals, ReferencesTyped,
        HandlersTyped, OpPCs, PromptPCs, ReapPCs
<1>30. ASSUME NEW c \in Conns, ReleaseConnection(c) PROVE TypeInv'
  <2> QED BY <1>30
    DEF ReleaseConnection, NoPrompt, StoresTyped, Grows, TypeInv, TablesTyped, Locals, ReferencesTyped,
        HandlersTyped, OpPCs, PromptPCs, ReapPCs
<1>31. ASSUME NEW c \in Conns, TryReleaseSession(c) PROVE TypeInv'
  <2>b. EvaluationTyped(rt)
    <3>1. CASE left[c] # None
      BY <1>31, <3>1, EvaluationIsTyped
      DEF TryReleaseSession, TypeInv, TablesTyped, StoresTyped, ReferencesTyped
    <3>2. CASE left[c] = None
      BY <1>31, <3>2
      DEF TryReleaseSession, EvaluationTyped, TypeInv, TablesTyped, StoresTyped, ReferencesTyped,
          HandlersTyped, Locals
    <3> QED BY <3>1, <3>2
  <2> QED BY <1>31, <2>b
    DEF TryReleaseSession, EvaluationTyped, StoresTyped, Grows, TypeInv, TablesTyped, Locals,
        ReferencesTyped, HandlersTyped, OpPCs, PromptPCs, ReapPCs
<1>32. ASSUME NEW c \in Conns, NEW s \in Sessions, SubscribeEvents(c, s) PROVE TypeInv'
  <2> QED BY <1>32, Routes
    DEF SubscribeEvents, Counted, StoresTyped, Grows, TypeInv, TablesTyped, Locals, ReferencesTyped,
        HandlersTyped, OpPCs, PromptPCs, ReapPCs
<1>33. ASSUME NEW c \in Conns, EnsureHub(c) PROVE TypeInv'
  <2>a. SameRuntimes(rt') /\ \A q \in DOMAIN rt : rt'[q].sess = rt[q].sess
    BY <1>33, HubEdits DEF Edited, SameRuntimes, Alike
  <2> QED BY <1>33, <2>a
    DEF EnsureHub, SameRuntimes, StoresTyped, Grows, TypeInv, TablesTyped, Locals, ReferencesTyped,
        HandlersTyped, OpPCs, PromptPCs, ReapPCs
<1>34. ASSUME NEW c \in Callers, EnterNew(c) PROVE TypeInv'
  <2> QED BY <1>34, Routes
    DEF EnterNew, Counted, NoPrompt, StoresTyped, Grows, TypeInv, TablesTyped, Locals, ReferencesTyped,
        HandlersTyped, OpPCs, PromptPCs, ReapPCs
<1>35. ASSUME NEW c \in Callers, GiveUpNew(c) PROVE TypeInv'
  <2> QED BY <1>35
    DEF GiveUpNew, NoPrompt, StoresTyped, Grows, TypeInv, TablesTyped, Locals, ReferencesTyped,
        HandlersTyped, OpPCs, PromptPCs, ReapPCs
<1>36. ASSUME NEW c \in Callers, startSession(c) PROVE TypeInv'
  <2>a. /\ disk' \in Seq({"idle", "archived"}) /\ Len(disk') <= MaxSessions
        /\ NewId \in Sessions /\ NewId \notin DOMAIN disk /\ NewId # None
        /\ DOMAIN disk' = DOMAIN disk \cup {NewId}
    BY <1>36, NewSessionAdded DEF startSession
  <2>b. Added(rt', NewId, FALSE)
    BY <1>36, CurrentReplaced
  <2>c. NewRt <= MaxRuntimes
    BY <1>36 DEF startSession, CanCreate, NewRt, TypeInv, TablesTyped, StoresTyped
  <2>d. /\ cached' = cached \cup {NewId} /\ current' = NewRt
        /\ manager' \in {[manager EXCEPT ![NewId] = NewRt], [manager EXCEPT ![NewId] = None]}
        /\ lapsed' \in {lapsed, lapsed \cup {rt[current].sess}}
        /\ finalizers' \in {finalizers, finalizers + 1}
        /\ prompt[c].pc = "gate" /\ prompt' = [prompt EXCEPT ![c].pc = "unbind"]
        /\ UNCHANGED <<suspended, hooks, byClient, binding, conn, left, op, remembered, sub, reap,
                       plugin, stolen, inputs, faults>>
    BY <1>36 DEF startSession
  <2>e. /\ prompt[c] \in [pc : PromptPCs, rt : {None} \cup DOMAIN rt]
        /\ rt[current].sess \in DOMAIN disk
    BY DEF TypeInv, TablesTyped, HandlersTyped, ReferencesTyped, StoresTyped
  <2>1. StoresTyped' /\ Grows
    BY <2>a, <2>b, <2>c, <2>d, <2>e DEF Added, Alike, StoresTyped, Grows, TypeInv, TablesTyped, Locals
  <2>2. ReferencesTyped'
    BY <2>a, <2>b, <2>c, <2>d, <2>e, <2>1
    DEF Added, Alike, TypeInv, TablesTyped, Locals, ReferencesTyped, HandlersTyped, Grows
  <2>3. HandlersTyped'
    BY <2>a, <2>b, <2>c, <2>d, <2>e, <2>1
    DEF Added, Alike, TypeInv, TablesTyped, Locals, ReferencesTyped, HandlersTyped, Grows, OpPCs,
        PromptPCs, ReapPCs
  <2>4. TablesTyped'
    BY <2>a, <2>b, <2>c, <2>d, <2>e, <2>1, <2>2, <2>3 DEF Added, Alike, TypeInv, TablesTyped, Grows
  <2>5. Locals'
    BY <2>a, <2>b, <2>c, <2>d, <2>e, <2>1
    DEF Added, Alike, TypeInv, TablesTyped, Locals, ReferencesTyped, HandlersTyped, Grows
  <2> QED BY <2>4, <2>5 DEF TypeInv
<1>37. ASSUME NEW c \in Callers, UnbindSession(c) PROVE TypeInv'
  <2>a. prompt[c] \in [pc : PromptPCs, rt : {None} \cup DOMAIN rt]
    BY DEF TypeInv, TablesTyped, HandlersTyped
  <2>1. StoresTyped' /\ Grows
    BY <1>37, <2>a DEF UnbindSession, StoresTyped, Grows, TypeInv, TablesTyped, Locals
  <2>2. ReferencesTyped'
    BY <1>37, <2>a, <2>1
    DEF UnbindSession, TypeInv, TablesTyped, Locals, ReferencesTyped, HandlersTyped, Grows
  <2>3. HandlersTyped'
    BY <1>37, <2>a, <2>1
    DEF UnbindSession, TypeInv, TablesTyped, Locals, ReferencesTyped, HandlersTyped, Grows, OpPCs,
        PromptPCs, ReapPCs
  <2>4. TablesTyped'
    BY <1>37, <2>a, <2>1, <2>2, <2>3 DEF UnbindSession, TypeInv, TablesTyped, Grows, ReferencesTyped
  <2>5. Locals'
    BY <1>37, <2>a, <2>1
    DEF UnbindSession, TypeInv, TablesTyped, Locals, ReferencesTyped, HandlersTyped, Grows
  <2> QED BY <2>4, <2>5 DEF TypeInv
<1>38. ASSUME NEW c \in Callers, ReleaseOld(c) PROVE TypeInv'
  <2>a. rt[prompt[c].rt].sess \in DOMAIN disk
    BY <1>38 DEF ReleaseOld, TypeInv, TablesTyped, StoresTyped, Locals
  <2>b. EvaluationTyped(rt)
    BY <1>38, <2>a, EvaluationIsTyped DEF ReleaseOld, TypeInv, TablesTyped, StoresTyped
  <2>1. StoresTyped' /\ Grows
    BY <1>38, <2>b DEF ReleaseOld, EvaluationTyped, StoresTyped, Grows, TypeInv, TablesTyped, Locals
  <2>2. ReferencesTyped'
    BY <1>38, <2>b, <2>1
    DEF ReleaseOld, EvaluationTyped, TypeInv, TablesTyped, Locals, ReferencesTyped, HandlersTyped,
        Grows
  <2>3. HandlersTyped'
    BY <1>38, <2>b, <2>1
    DEF ReleaseOld, EvaluationTyped, TypeInv, TablesTyped, Locals, ReferencesTyped, HandlersTyped,
        Grows, OpPCs, PromptPCs, ReapPCs
  <2>4. TablesTyped'
    BY <1>38, <2>b, <2>1, <2>2, <2>3 DEF ReleaseOld, EvaluationTyped, TypeInv, TablesTyped, Grows
  <2>5. Locals'
    BY <1>38, <2>b, <2>1
    DEF ReleaseOld, EvaluationTyped, TypeInv, TablesTyped, Locals, ReferencesTyped, HandlersTyped,
        Grows
  <2> QED BY <2>4, <2>5 DEF TypeInv
<1>39. ASSUME NEW c \in Callers, ClearBinding(c) PROVE TypeInv'
  <2>a. SameRuntimes(rt') /\ \A q \in DOMAIN rt : rt'[q].sess = rt[q].sess
    BY <1>39, ClearEdits DEF Edited, SameRuntimes, Alike
  <2> QED BY <1>39, <2>a
    DEF ClearBinding, NoPrompt, SameRuntimes, StoresTyped, Grows, TypeInv, TablesTyped, Locals,
        ReferencesTyped, HandlersTyped, OpPCs, PromptPCs, ReapPCs
<1>40. CASE UNCHANGED vars
  <2> QED BY <1>40
    DEF vars, StoresTyped, Grows, TypeInv, TablesTyped, Locals, ReferencesTyped, HandlersTyped, OpPCs,
        PromptPCs, ReapPCs
<1>41. ASSUME NEW r \in DOMAIN rt, Reserve(r) PROVE TypeInv'
  <2>a. SameRuntimes(rt') /\ \A q \in DOMAIN rt : rt'[q].sess = rt[q].sess
    BY <1>41, ReserveKeeps DEF Reserve
  <2> QED BY <1>41, <2>a
    DEF Reserve, SameRuntimes, StoresTyped, Grows, TypeInv, TablesTyped, Locals,
        ReferencesTyped, HandlersTyped, OpPCs, PromptPCs, ReapPCs
<1>42. ASSUME NEW c \in Callers, ReserveSync(c) PROVE TypeInv'
  <2>a. prompt[c].rt \in DOMAIN rt /\ prompt[c] \in [pc : PromptPCs, rt : {None} \cup DOMAIN rt]
    BY <1>42 DEF ReserveSync, TypeInv, TablesTyped, HandlersTyped, Locals
  <2>b. SameRuntimes(rt') /\ \A q \in DOMAIN rt : rt'[q].sess = rt[q].sess
    BY <1>42, <2>a, ReserveKeeps DEF ReserveSync
  <2>c. StoresTyped' /\ Grows
    BY <1>42, <2>b
    DEF ReserveSync, SameRuntimes, StoresTyped, Grows, TypeInv, TablesTyped, Locals
  <2>d. PICK p : /\ p \in [pc : PromptPCs, rt : {None} \cup DOMAIN rt]
                 /\ p.pc # "idle" => p.rt \in DOMAIN rt
                 /\ prompt' = [prompt EXCEPT ![c] = p]
    <3>1. CASE Admits(prompt[c].rt)
      BY <1>42, <2>a, <3>1 DEF ReserveSync, PromptPCs
    <3>2. CASE ~Admits(prompt[c].rt)
      BY <1>42, <3>2 DEF ReserveSync, NoPrompt, PromptPCs
    <3> QED BY <3>1, <3>2
  <2>e. UNCHANGED <<repoVars, tableVars, suspended, hooks, refVars, connVars, op, remembered,
                    sub, reap, finalizers, plugin, historyVars, inputs, faults>>
    BY <1>42 DEF ReserveSync
  <2>f. HandlersTyped'
    BY <2>b, <2>d, <2>e DEF SameRuntimes, TypeInv, TablesTyped, HandlersTyped
  <2>g. Locals'
    BY <2>b, <2>d, <2>e DEF SameRuntimes, TypeInv, TablesTyped, Locals, HandlersTyped
  <2> QED BY <2>b, <2>c, <2>e, <2>f, <2>g
    DEF SameRuntimes, TypeInv, TablesTyped, ReferencesTyped
<1>43. ASSUME NEW r \in DOMAIN rt, CloseAwaits(r) PROVE TypeInv'
  <2> QED BY <1>43
    DEF CloseAwaits, StoresTyped, Grows, TypeInv, TablesTyped, Locals,
        ReferencesTyped, HandlersTyped, OpPCs, PromptPCs, ReapPCs
<1> QED
  BY <1>1, <1>2, <1>3, <1>4, <1>5, <1>6, <1>7, <1>8, <1>9, <1>10, <1>11, <1>12, <1>13, <1>14,
     <1>15, <1>16, <1>17, <1>18, <1>19, <1>20, <1>21, <1>22, <1>23, <1>24, <1>25, <1>26, <1>27,
     <1>28, <1>29, <1>30, <1>31, <1>32, <1>33, <1>34, <1>35, <1>36, <1>37, <1>38, <1>39, <1>40,
     <1>41, <1>42, <1>43
  DEF Next, Release, Runs, Archive, Stop, Requests, Connection, NewCommand

(* What the proofs below need of the types.                                *)
LEMMA Basics ==
    ASSUME TypeInv
    PROVE  /\ manager \in [Sessions -> {None} \cup DOMAIN rt] /\ current \in DOMAIN rt
           /\ None \notin DOMAIN rt /\ None \notin DOMAIN disk
           /\ DOMAIN disk \subseteq Sessions
           /\ \A r \in DOMAIN rt : rt[r].sess \in Sessions /\ rt[r].sess \in DOMAIN disk
           /\ reap.pc # "idle" => /\ reap.sess \in Sessions /\ reap.sess \in DOMAIN disk
                                  /\ reap.rt \in DOMAIN rt
<1>1. /\ manager \in [Sessions -> {None} \cup DOMAIN rt] /\ current \in DOMAIN rt
      /\ \A r \in DOMAIN rt : rt[r].sess \in DOMAIN disk
      /\ reap.pc # "idle" => reap.sess \in DOMAIN disk /\ reap.rt \in DOMAIN rt
  BY DEF TypeInv, TablesTyped, StoresTyped, ReferencesTyped, Locals
<1>2. None \notin DOMAIN rt /\ None \notin DOMAIN disk /\ DOMAIN disk \subseteq Sessions
  BY RuntimeIsTyped, StoredIsSession
<1> QED BY <1>1, <1>2

(* What handlers hold.                                                     *)
LEMMA OpBasics ==
    ASSUME TypeInv
    PROVE  /\ op \in [Conns -> [pc : OpPCs, sess : {None} \cup DOMAIN disk]]
           /\ \A c \in Conns : op[c].pc \notin {"idle", "new"} => op[c].sess \in DOMAIN disk
BY DEF TypeInv, TablesTyped, HandlersTyped, Locals

(* What the proofs about runs need of the types of the prompts.            *)
LEMMA PromptBasics ==
    ASSUME TypeInv
    PROVE  /\ prompt \in [Callers -> [pc : PromptPCs, rt : {None} \cup DOMAIN rt]]
           /\ finalizers \in Nat
           /\ \A c \in Callers : prompt[c].pc # "idle" => prompt[c].rt \in DOMAIN rt
BY DEF TypeInv, TablesTyped, HandlersTyped, Locals

(* What the proofs about the release need of the types of the connections. *)
LEMMA LeftBasics ==
    ASSUME TypeInv
    PROVE  /\ left \in [Conns -> {None} \cup DOMAIN disk] /\ suspended \subseteq DOMAIN disk
           /\ \A c \in Conns : conn[c] # "evaluating" => left[c] = None
           /\ hooks \subseteq DOMAIN rt
BY DEF TypeInv, TablesTyped, ReferencesTyped, Locals

(* The runtimes are alike themselves.                                      *)
LEMMA RuntimesStay ==
    ASSUME TypeInv
    PROVE  SameRuntimes(rt) /\ \A q \in DOMAIN rt : Alike(rt[q], rt[q])
BY DEF SameRuntimes, Alike, TypeInv, TablesTyped, StoresTyped

(* Steps that leave the table, the current session and the release alone.  *)
LEMMA TableFrame ==
    ASSUME TypeInv, TableInv, UNCHANGED <<manager, current, plugin, reap>>, SameRuntimes(rt'),
           \A q \in DOMAIN rt : rt'[q].sess = rt[q].sess /\ rt'[q].retired = rt[q].retired,
           reap.pc # "idle" => rt'[reap.rt].active = "none"
    PROVE  TableInv'
BY Basics DEF TableInv, TableNames, CurrentIsRegistered, ReapIsApart

(* A release that begins is of a runtime apart.                            *)
LEMMA TableBegins ==
    ASSUME TypeInv, TableInv, NEW s \in DOMAIN disk, NEW bound, NEW rts, Begins(s, bound, rts),
           UNCHANGED <<manager, current, plugin>>, SameRuntimes(rts),
           \A q \in DOMAIN rt : Alike(rts[q], rt[q])
    PROVE  TableInv'
<1>1. /\ \A q \in DOMAIN rt : rt'[q].sess = rt[q].sess
      /\ rt'[manager[s]].retired /\ rt'[manager[s]].active = "none"
      /\ manager[s] \in DOMAIN rt /\ manager[s] # current
      /\ reap' = [pc |-> "remove", sess |-> s, rt |-> manager[s]]
  BY DEF Begins, Held, Retired, SameRuntimes, Alike
<1>2. TableNames' /\ CurrentIsRegistered'
  BY <1>1, Basics DEF TableInv, TableNames, CurrentIsRegistered
<1>3. rt[manager[s]].sess = s /\ rt[current].sess # s
  BY <1>1, Basics DEF TableInv, TableNames, CurrentIsRegistered
<1>4. ReapIsApart'
  BY <1>1, <1>3, Basics DEF ReapIsApart
<1> QED BY <1>2, <1>4 DEF TableInv

(* A new session or runtime, registered as such.                           *)
LEMMA TableAdds ==
    ASSUME TypeInv, TableInv, NEW s \in Sessions, manager[s] = None,
           reap.pc # "idle" => reap.sess # s,
           NewRt \in DOMAIN rt', NewRt # None, DOMAIN rt \subseteq DOMAIN rt',
           rt'[NewRt].sess = s, rt[current].sess # s,
           \A q \in DOMAIN rt : rt'[q].sess = rt[q].sess,
           reap.pc # "idle" => rt'[reap.rt].retired /\ rt'[reap.rt].active = "none",
           managerOpen, manager' = [manager EXCEPT ![s] = NewRt], UNCHANGED <<plugin, reap>>,
           current' \in {current, NewRt}
    PROVE  TableInv'
<1>1. TableNames'
  BY Basics DEF TableInv, TableNames
<1>2. CurrentIsRegistered'
  BY Basics DEF TableInv, CurrentIsRegistered, managerOpen
<1>3. ReapIsApart'
  BY Basics DEF TableInv, ReapIsApart
<1> QED BY <1>1, <1>2, <1>3 DEF TableInv

(* Every step keeps the table of the manager consistent.                   *)
LEMMA TableStep == TypeInv /\ TableInv /\ [Next]_vars => TableInv'
<1> SUFFICES ASSUME TypeInv /\ TableInv, [Next]_vars PROVE TableInv'
  OBVIOUS
<1> USE LifecycleAssumption DEF repoVars, tableVars, refVars, connVars, promptVars, stopVars, historyVars, None, Callers
<1>1. CASE ReapRemove
  BY <1>1, Basics DEF ReapRemove, TableInv, TableNames, CurrentIsRegistered, ReapIsApart
<1>2. CASE ReapCloseEvents
  <2>a. Edited(reap.rt, rt[reap.rt].active, rt[reap.rt].archived)
    BY <1>2, ReapEventsEdits
  <2> QED
    BY <1>2, <2>a, Basics
    DEF ReapCloseEvents, TableInv, TableNames, CurrentIsRegistered, ReapIsApart, Edited,
        SameRuntimes, Alike
<1>3. CASE ReapCloseStore
  <2>a. CASE rt[current].sess # reap.sess
    <3>a. /\ SameRuntimes(rt')
          /\ \A q \in DOMAIN rt :
               /\ rt'[q].sess = rt[q].sess /\ rt'[q].retired = rt[q].retired
               /\ rt'[q].archived = rt[q].archived /\ rt'[q].active = rt[q].active
               /\ IF rt[q].sess = reap.sess THEN ~rt'[q].open ELSE rt'[q].open = rt[q].open
      BY <1>3, <2>a, CloseEdit DEF ReapCloseStore
    <3> QED
      BY <1>3, <2>a, <3>a, Basics
      DEF ReapCloseStore, NoReap, TableInv, TableNames, CurrentIsRegistered, ReapIsApart,
          SameRuntimes, Alike
  <2>b. CASE rt[current].sess = reap.sess
    BY <1>3, <2>b, Basics
    DEF ReapCloseStore, NoReap, TableInv, TableNames, CurrentIsRegistered, ReapIsApart
  <2> QED BY <2>a, <2>b
<1>4. ASSUME NEW c \in Conns, RequestNew(c) PROVE TableInv'
  BY <1>4, Basics
  DEF RequestNew, Request, Counted, NoOp, TableInv, TableNames, CurrentIsRegistered, ReapIsApart
<1>5. ASSUME NEW c \in Conns, CreateBoundSession(c) PROVE TableInv'
  <2>a. /\ NewId \in Sessions /\ NewId \notin DOMAIN disk /\ DOMAIN disk' = DOMAIN disk \cup {NewId}
        /\ NewId # None /\ disk'[NewId] = "idle" /\ \A s \in DOMAIN disk : disk'[s] = disk[s]
    BY <1>5, NewSessionAdded DEF CreateBoundSession
  <2>b. CASE managerOpen
    <3>a. /\ rt' = Append(rt, Runtime(NewId, FALSE)) /\ manager' = [manager EXCEPT ![NewId] = NewRt]
          /\ op' = [op EXCEPT ![c] = [pc |-> "remember", sess |-> NewId]]
      BY <1>5, <2>b DEF CreateBoundSession
    <3>b. Added(rt', NewId, FALSE)
      BY <2>a, <3>a, AppendAdds DEF SameRuntimes, Alike, TypeInv, TablesTyped, StoresTyped
    <3>c. UNCHANGED <<current, suspended, hooks, refVars, connVars, promptVars, reap, stopVars,
                      historyVars, inputs, faults>>
      BY <1>5 DEF CreateBoundSession
    <3>d. manager[NewId] = None /\ rt[current].sess # NewId /\ (reap.pc # "idle" => reap.sess # NewId)
      BY <2>a, Basics DEF TableInv, TableNames
    <3> HIDE DEF NewId, NewRt
    <3> QED
      BY <2>a, <2>b, <3>a, <3>b, <3>c, <3>d, TableAdds, Basics
      DEF Added, Alike, stopVars, TableInv, ReapIsApart
  <2>c. CASE ~managerOpen
    BY <1>5, <2>a, <2>c, Basics
    DEF CreateBoundSession, NoOp, managerOpen, TableInv, TableNames, CurrentIsRegistered,
        ReapIsApart
  <2> QED BY <2>b, <2>c
<1>6. ASSUME NEW c \in Conns, SetBinding(c) PROVE TableInv'
  BY <1>6, Basics
  DEF SetBinding, remember, NoOp, TableInv, TableNames, CurrentIsRegistered, ReapIsApart
<1>7. ASSUME NEW c \in Conns, BindConnectionSession(c) PROVE TableInv'
  <2> DEFINE s == op[c].sess
             prev == byClient[c]
  <2>a. s \in DOMAIN disk /\ rt \in Seq(RuntimeStates) /\ Rebind(c, s, rt)
    BY <1>7 DEF BindConnectionSession, TypeInv, TablesTyped, StoresTyped, Locals
  <2>b. op[c].pc = "bind" /\ s = op[c].sess /\ prev = byClient[c]
    BY <1>7 DEF BindConnectionSession
  <2>c. /\ byClient' = [byClient EXCEPT ![c] = s] /\ op' = [op EXCEPT ![c] = NoOp] /\ reap = NoReap
        /\ UNCHANGED <<repoVars, tableVars, hooks, binding, connVars, promptVars, stopVars, inputs, faults>>
    BY <1>7 DEF BindConnectionSession, Rebind
  <2> HIDE DEF s, prev
  <2>d. CASE prev \in {None, s}
    <3>d. rt' = rt /\ UNCHANGED <<suspended, reap, historyVars>>
      BY <2>a, <2>b, <2>d DEF Rebind
    <3> QED
      BY <2>a, <2>b, <2>c, <2>d, <3>d, Basics
      DEF NoReap, NoOp, TableInv, TableNames, CurrentIsRegistered, ReapIsApart
  <2>e. CASE prev \notin {None, s}
    <3>a. prev \in DOMAIN disk /\ Evaluate(prev, byClient', rt)
      BY <2>a, <2>b, <2>e DEF Rebind, TypeInv, TablesTyped, ReferencesTyped
    <3>d. /\ lapsed' = lapsed \ {prev}
          /\ Keeps(prev, byClient', rt) \/ Suspends(prev, byClient', rt) \/ Begins(prev, byClient', rt)
      BY <2>a, <2>b, <2>c, <3>a, EvaluationCases
    <3>k. CASE Keeps(prev, byClient', rt)
      BY <3>k, <2>a, <2>b, <2>c, <2>e, <3>a, <3>d, TableFrame, RuntimesStay, Basics
      DEF Keeps, NoReap, SameRuntimes, Alike, tableVars, stopVars
    <3>s. CASE Suspends(prev, byClient', rt)
      BY <3>s, <2>a, <2>b, <2>c, <2>e, <3>a, <3>d, TableFrame, RuntimesStay, Basics
      DEF Suspends, NoReap, SameRuntimes, Alike, tableVars, stopVars
    <3>b. CASE Begins(prev, byClient', rt)
      BY <3>b, <2>a, <2>b, <2>c, <2>e, <3>a, <3>d, TableBegins, RuntimesStay
      DEF tableVars, stopVars
    <3> QED BY <3>d, <3>k, <3>s, <3>b
  <2> QED BY <2>d, <2>e
<1>8. ASSUME NEW c \in Conns, NEW s \in Sessions, RequestLoad(c, s) PROVE TableInv'
  BY <1>8, Basics
  DEF RequestLoad, Request, Counted, NoOp, TableInv, TableNames, CurrentIsRegistered, ReapIsApart
<1>9. ASSUME NEW c \in Conns, SessionArchived(c) PROVE TableInv'
  BY <1>9, Basics
  DEF SessionArchived, OpenStore, Advance, TableInv, TableNames, CurrentIsRegistered, ReapIsApart
<1>10. ASSUME NEW c \in Conns, ArchivedSessionHistory(c) PROVE TableInv'
  BY <1>10, Basics
  DEF ArchivedSessionHistory, OpenStore, Advance, Answer, NoOp, RouteSession, TableInv,
      TableNames, CurrentIsRegistered, ReapIsApart
<1>11. ASSUME NEW c \in Conns, Evict(c) PROVE TableInv'
  <2>a. /\ SameRuntimes(rt')
        /\ \A q \in DOMAIN rt :
             /\ rt'[q].sess = rt[q].sess /\ rt'[q].retired = rt[q].retired
             /\ rt'[q].archived = rt[q].archived /\ rt'[q].active = rt[q].active
             /\ IF rt[q].sess = op[c].sess THEN ~rt'[q].open ELSE rt'[q].open = rt[q].open
    BY <1>11, CloseEdit DEF Evict
  <2> QED
    BY <1>11, <2>a, Basics
    DEF Evict, Answer, NoOp, TableInv, TableNames, CurrentIsRegistered, ReapIsApart, SameRuntimes,
        Alike
<1>12. ASSUME NEW c \in Conns, LoadRouted(c) PROVE TableInv'
  <2> DEFINE s == op[c].sess
             prev == byClient[c]
  <2>a. s \in DOMAIN disk /\ rt \in Seq(RuntimeStates) /\ Rebind(c, s, rt)
    BY <1>12 DEF LoadRouted, TypeInv, TablesTyped, StoresTyped, Locals
  <2>b. op[c].pc = "loading" /\ s = op[c].sess /\ prev = byClient[c] /\ RouteSession(s) # None
    BY <1>12 DEF LoadRouted
  <2>c. /\ byClient' = [byClient EXCEPT ![c] = s] /\ op' = [op EXCEPT ![c].pc = "loaded"] /\ reap = NoReap
        /\ UNCHANGED <<repoVars, tableVars, hooks, binding, connVars, promptVars, stopVars, inputs, faults>>
    BY <1>12 DEF LoadRouted, Rebind, Advance
  <2> HIDE DEF s, prev
  <2>d. CASE prev \in {None, s}
    <3>d. rt' = rt /\ UNCHANGED <<suspended, reap, historyVars>>
      BY <2>a, <2>b, <2>d DEF Rebind
    <3> QED
      BY <2>a, <2>b, <2>c, <2>d, <3>d, Basics
      DEF NoReap, TableInv, TableNames, CurrentIsRegistered, ReapIsApart
  <2>e. CASE prev \notin {None, s}
    <3>a. prev \in DOMAIN disk /\ Evaluate(prev, byClient', rt)
      BY <2>a, <2>b, <2>e DEF Rebind, TypeInv, TablesTyped, ReferencesTyped
    <3>d. /\ lapsed' = lapsed \ {prev}
          /\ Keeps(prev, byClient', rt) \/ Suspends(prev, byClient', rt) \/ Begins(prev, byClient', rt)
      BY <2>a, <2>b, <2>c, <3>a, EvaluationCases
    <3>k. CASE Keeps(prev, byClient', rt)
      BY <3>k, <2>a, <2>b, <2>c, <2>e, <3>a, <3>d, TableFrame, RuntimesStay, Basics
      DEF Keeps, NoReap, SameRuntimes, Alike, tableVars, stopVars
    <3>s. CASE Suspends(prev, byClient', rt)
      BY <3>s, <2>a, <2>b, <2>c, <2>e, <3>a, <3>d, TableFrame, RuntimesStay, Basics
      DEF Suspends, NoReap, SameRuntimes, Alike, tableVars, stopVars
    <3>b. CASE Begins(prev, byClient', rt)
      BY <3>b, <2>a, <2>b, <2>c, <2>e, <3>a, <3>d, TableBegins, RuntimesStay
      DEF tableVars, stopVars
    <3> QED BY <3>d, <3>k, <3>s, <3>b
  <2> QED BY <2>d, <2>e
<1>13. ASSUME NEW c \in Conns, LoadReopened(c) PROVE TableInv'
  <2> DEFINE s == op[c].sess
             prev == byClient[c]
             rts == Append(rt, Runtime(s, disk[s] = "archived"))
  <2>a. /\ s \in DOMAIN disk /\ s \in Sessions /\ s # None /\ RouteSession(s) = None
        /\ op[c].pc = "loading" /\ s = op[c].sess /\ prev = byClient[c]
    BY <1>13, StoredIsSession DEF LoadReopened, TypeInv, Locals
  <2>b. Added(rts, s, disk[s] = "archived") /\ DOMAIN rt \subseteq DOMAIN rts
    <3>1. SameRuntimes(rt) /\ \A q \in DOMAIN rt : Alike(rt[q], rt[q])
      BY DEF SameRuntimes, Alike, TypeInv, TablesTyped, StoresTyped
    <3>2. Added(rts, s, disk[s] = "archived")
      BY <2>a, <3>1, AppendAdds
    <3> QED BY <3>2 DEF Added
  <2>c. /\ reap = NoReap
        /\ UNCHANGED <<disk, current, hooks, binding, connVars, promptVars, stopVars, inputs, faults>>
    BY <1>13 DEF LoadReopened
  <2>d. CASE ~managerOpen
    <3>d. op' = [op EXCEPT ![c] = NoOp] /\ UNCHANGED <<rt, manager, suspended, byClient, reap, historyVars>>
      BY <1>13, <2>d DEF LoadReopened, Answer
    <3> QED
      BY <2>a, <2>c, <2>d, <3>d, Basics
      DEF NoReap, NoOp, TableInv, TableNames, CurrentIsRegistered, ReapIsApart
  <2>e. CASE managerOpen
    <3>c. /\ manager' = [manager EXCEPT ![s] = NewRt] /\ Rebind(c, s, rts)
          /\ op' = [op EXCEPT ![c].pc = "loaded"] /\ byClient' = [byClient EXCEPT ![c] = s]
      BY <1>13, <2>e DEF LoadReopened, Advance, Rebind
    <3> HIDE DEF s, prev, rts
    <3>d. /\ rts[NewRt].sess = s /\ NewRt \in DOMAIN rts /\ NewRt # None /\ DOMAIN rt \subseteq DOMAIN rts
          /\ \A q \in DOMAIN rt : Alike(rts[q], rt[q])
          /\ manager[s] = None /\ rt[current].sess # s
      BY <2>a, <2>b, Basics DEF Added, RouteSession
    <3>e. ASSUME rt' = rts, reap' = reap PROVE TableInv'
      BY <2>a, <2>c, <2>e, <3>c, <3>d, <3>e, TableAdds DEF NoReap, Alike, stopVars
    <3>f. CASE prev \in {None, s}
      BY <2>a, <3>c, <3>e, <3>f DEF Rebind
    <3>g. CASE prev \notin {None, s}
      <4>a. prev \in DOMAIN disk /\ Evaluate(prev, byClient', rts)
        BY <2>a, <3>c, <3>g DEF Rebind, TypeInv, TablesTyped, ReferencesTyped
      <4>d. Keeps(prev, byClient', rts) \/ Suspends(prev, byClient', rts) \/ Begins(prev, byClient', rts)
        BY <2>b, <4>a, EvaluationCases DEF Added
      <4>b. CASE Begins(prev, byClient', rts)
        <5>1. /\ manager[prev] \in DOMAIN rt /\ manager[prev] # current /\ manager'[prev] = manager[prev]
              /\ reap' = [pc |-> "remove", sess |-> prev, rt |-> manager[prev]]
              /\ NewRt \in DOMAIN rt' /\ DOMAIN rt \subseteq DOMAIN rt' /\ rt'[NewRt].sess = s
              /\ \A q \in DOMAIN rt : rt'[q].sess = rt[q].sess
              /\ rt'[manager[prev]].retired /\ rt'[manager[prev]].active = "none"
              /\ prev \in Sessions /\ UNCHANGED <<current, plugin>>
          BY <2>b, <2>c, <3>c, <3>d, <3>g, <4>a, <4>b, Basics
          DEF Begins, Held, Retired, Alike, stopVars
        <5>2. TableNames'
          BY <2>a, <3>c, <3>d, <5>1, Basics DEF TableInv, TableNames
        <5>3. CurrentIsRegistered'
          BY <2>a, <2>e, <3>c, <3>d, <5>1, Basics DEF TableInv, CurrentIsRegistered, managerOpen
        <5>4. rt[manager[prev]].sess = prev /\ rt[current].sess # prev
          BY <5>1, Basics DEF TableInv, TableNames, CurrentIsRegistered
        <5>5. ReapIsApart'
          BY <5>1, <5>4, Basics DEF ReapIsApart
        <5> QED BY <5>2, <5>3, <5>5 DEF TableInv
      <4> QED BY <3>e, <4>b, <4>d DEF Keeps, Suspends
    <3> QED BY <3>f, <3>g
  <2> QED BY <2>d, <2>e
<1>14. ASSUME NEW s \in Sessions, StartRun(s) PROVE TableInv'
  BY <1>14, Basics DEF StartRun, TableInv, TableNames, CurrentIsRegistered, ReapIsApart
<1>15. ASSUME NEW c \in Callers, StartRunSync(c) PROVE TableInv'
  BY <1>15, Basics DEF StartRunSync, TableInv, TableNames, CurrentIsRegistered, ReapIsApart
<1>16. ASSUME NEW r \in DOMAIN rt, AcceptRun(r) PROVE TableInv'
  <2>a. Edited(r, "accepted", rt[r].archived)
    BY <1>16, RunEdits
  <2> QED
    BY <1>16, <2>a, Basics
    DEF AcceptRun, TableInv, TableNames, CurrentIsRegistered, ReapIsApart, Edited, SameRuntimes,
        Alike
<1>17. ASSUME NEW r \in DOMAIN rt, RollbackRun(r) PROVE TableInv'
  <2>a. Edited(r, "none", rt[r].archived)
    BY <1>17, RunEdits
  <2> QED
    BY <1>17, <2>a, Basics
    DEF RollbackRun, EndPrompts, NoPrompt, TableInv, TableNames, CurrentIsRegistered, ReapIsApart,
        Edited, SameRuntimes, Alike
<1>18. ASSUME NEW r \in DOMAIN rt, AcquireRun(r) PROVE TableInv'
  <2>a. Edited(r, "running", rt[r].archived)
    BY <1>18, RunEdits
  <2> QED
    BY <1>18, <2>a, Basics
    DEF AcquireRun, TableInv, TableNames, CurrentIsRegistered, ReapIsApart, Edited, SameRuntimes,
        Alike
<1>19. ASSUME NEW r \in DOMAIN rt, FinalizeRun(r) PROVE TableInv'
  <2>a. Edited(r, "none", rt[r].archived)
    BY <1>19, RunEdits
  <2> QED
    BY <1>19, <2>a, Basics
    DEF FinalizeRun, EndPrompts, NoPrompt, TableInv, TableNames, CurrentIsRegistered, ReapIsApart,
        Edited, SameRuntimes, Alike
<1>20. ASSUME NEW r \in DOMAIN rt, onSessionRunDone(r) PROVE TableInv'
  <2>a. PICK freed :
             /\ SameRuntimes(freed) /\ \A q \in DOMAIN rt : Alike(freed[q], rt[q])
             /\ rt[r].sess \in DOMAIN disk
             /\ IF rt[r].sess \in suspended THEN Evaluate(rt[r].sess, byClient, freed)
                ELSE rt' = freed /\ UNCHANGED <<suspended, reap, historyVars>>
    BY <1>20, HookEvaluates
  <2>c. /\ hooks' = hooks \ {r} /\ reap = NoReap
        /\ UNCHANGED <<repoVars, tableVars, refVars, connVars, op, promptVars, stopVars, inputs, faults>>
    BY <1>20 DEF onSessionRunDone
  <2>d. CASE rt[r].sess \notin suspended
    BY <2>a, <2>c, <2>d, TableFrame DEF NoReap, SameRuntimes, Alike, tableVars, stopVars
  <2>e. CASE rt[r].sess \in suspended
    <3> DEFINE s == rt[r].sess
    <3>d. /\ lapsed' = lapsed \ {s}
          /\ Keeps(s, byClient, freed) \/ Suspends(s, byClient, freed) \/ Begins(s, byClient, freed)
      BY <2>a, <2>e, EvaluationCases DEF SameRuntimes
    <3>a. /\ SameRuntimes(freed) /\ \A q \in DOMAIN rt : Alike(freed[q], rt[q])
          /\ s \in DOMAIN disk /\ s \in suspended /\ s = rt[r].sess
      BY <2>a, <2>e
    <3> HIDE DEF s
    <3>k. CASE Keeps(s, byClient, freed)
      BY <3>k, <2>c, <3>a, <3>d, TableFrame, RuntimesStay, Basics
      DEF Keeps, NoReap, SameRuntimes, Alike, tableVars, stopVars
    <3>s. CASE Suspends(s, byClient, freed)
      BY <3>s, <2>c, <3>a, <3>d, TableFrame, RuntimesStay, Basics
      DEF Suspends, NoReap, SameRuntimes, Alike, tableVars, stopVars
    <3>b. CASE Begins(s, byClient, freed)
      BY <3>b, <2>c, <3>a, <3>d, TableBegins, RuntimesStay DEF tableVars, stopVars
    <3> QED BY <3>d, <3>k, <3>s, <3>b
  <2> QED BY <2>d, <2>e
<1>21. CASE FinalizerEnds
  BY <1>21, Basics DEF FinalizerEnds, TableInv, TableNames, CurrentIsRegistered, ReapIsApart
<1>22. ASSUME NEW s \in Sessions, ArchiveMounted(s) PROVE TableInv'
  <2>a. Edited(RouteSession(s), rt[RouteSession(s)].active, TRUE) /\ s \in DOMAIN disk
    BY <1>22, ArchiveEdits
  <2> QED
    BY <1>22, <2>a, Basics
    DEF ArchiveMounted, RouteSession, Counted, NoReap, TableInv, TableNames, CurrentIsRegistered,
        ReapIsApart, Edited, SameRuntimes, Alike
<1>23. ASSUME NEW s \in Sessions, ArchiveStored(s) PROVE TableInv'
  <2>a. /\ SameRuntimes(rt')
        /\ \A q \in DOMAIN rt :
             /\ rt'[q].sess = rt[q].sess /\ rt'[q].retired = rt[q].retired
             /\ rt'[q].archived = rt[q].archived /\ rt'[q].active = rt[q].active
             /\ IF rt[q].sess = s THEN ~rt'[q].open ELSE rt'[q].open = rt[q].open
    BY <1>23, CloseEdit DEF ArchiveStored
  <2> QED
    BY <1>23, <2>a, Basics
    DEF ArchiveStored, RouteSession, Counted, NoReap, TableInv, TableNames, CurrentIsRegistered,
        ReapIsApart, SameRuntimes, Alike
<1>24. CASE StopBegin
  BY <1>24, Basics
  DEF StopBegin, StopStep, Counted, TableInv, TableNames, CurrentIsRegistered, ReapIsApart
<1>25. CASE StopManager
  <2>a. SameRuntimes(rt') /\ \A q \in DOMAIN rt : Alike(rt'[q], rt[q])
    BY <1>25, StopEdits
  <2> QED
    BY <1>25, <2>a, Basics
    DEF StopManager, StopStep, TableInv, TableNames, CurrentIsRegistered, ReapIsApart, Edited,
        SameRuntimes, Alike
<1>26. CASE StopCommands
  BY <1>26, Basics
  DEF StopCommands, StopStep, TableInv, TableNames, CurrentIsRegistered, ReapIsApart
<1>27. CASE StopMemory
  BY <1>27, Basics
  DEF StopMemory, StopStep, TableInv, TableNames, CurrentIsRegistered, ReapIsApart
<1>28. CASE StopStores
  <2>a. /\ SameRuntimes(rt')
        /\ \A q \in DOMAIN rt :
             /\ rt'[q].sess = rt[q].sess /\ rt'[q].retired = rt[q].retired
             /\ rt'[q].archived = rt[q].archived /\ rt'[q].active = rt[q].active
             /\ ~rt'[q].open
    BY <1>28, StopEdits
  <2> QED
    BY <1>28, <2>a, Basics
    DEF StopStores, StopStep, TableInv, TableNames, CurrentIsRegistered, ReapIsApart,
        SameRuntimes, Alike
<1>29. ASSUME NEW c \in Conns, ConnClose(c) PROVE TableInv'
  BY <1>29, Basics DEF ConnClose, Counted, TableInv, TableNames, CurrentIsRegistered, ReapIsApart
<1>30. ASSUME NEW c \in Conns, ReleaseConnection(c) PROVE TableInv'
  BY <1>30, Basics
  DEF ReleaseConnection, NoPrompt, TableInv, TableNames, CurrentIsRegistered, ReapIsApart
<1>31. ASSUME NEW c \in Conns, TryReleaseSession(c) PROVE TableInv'
  <2>c. /\ conn[c] = "evaluating" /\ reap = NoReap
        /\ conn' = [conn EXCEPT ![c] = "gone"] /\ left' = [left EXCEPT ![c] = None]
        /\ UNCHANGED <<repoVars, tableVars, hooks, refVars, op, promptVars, stopVars, inputs, faults>>
    BY <1>31 DEF TryReleaseSession
  <2>d. CASE left[c] = None
    BY <1>31, <2>c, <2>d, Basics
    DEF TryReleaseSession, NoReap, TableInv, TableNames, CurrentIsRegistered, ReapIsApart
  <2>e. CASE left[c] # None
    <3>a. left[c] \in DOMAIN disk /\ rt \in Seq(RuntimeStates)
      BY <2>e DEF TypeInv, TablesTyped, ReferencesTyped, StoresTyped
    <3>d. /\ lapsed' = lapsed \ {left[c]}
          /\ Keeps(left[c], byClient, rt) \/ Suspends(left[c], byClient, rt) \/ Begins(left[c], byClient, rt)
      BY <1>31, <2>e, <3>a, EvaluationCases DEF TryReleaseSession
    <3>k. CASE Keeps(left[c], byClient, rt)
      BY <3>k, <2>c, <2>e, <3>a, <3>d, TableFrame, RuntimesStay, Basics
      DEF Keeps, NoReap, SameRuntimes, Alike, tableVars, stopVars
    <3>s. CASE Suspends(left[c], byClient, rt)
      BY <3>s, <2>c, <2>e, <3>a, <3>d, TableFrame, RuntimesStay, Basics
      DEF Suspends, NoReap, SameRuntimes, Alike, tableVars, stopVars
    <3>b. CASE Begins(left[c], byClient, rt)
      BY <3>b, <2>c, <2>e, <3>a, <3>d, TableBegins, RuntimesStay DEF tableVars, stopVars
    <3> QED BY <3>d, <3>k, <3>s, <3>b
  <2> QED BY <2>d, <2>e
<1>32. ASSUME NEW c \in Conns, NEW s \in Sessions, SubscribeEvents(c, s) PROVE TableInv'
  BY <1>32, Basics
  DEF SubscribeEvents, RouteSession, Counted, TableInv, TableNames, CurrentIsRegistered,
      ReapIsApart
<1>33. ASSUME NEW c \in Conns, EnsureHub(c) PROVE TableInv'
  <2>a. Edited(sub[c], rt[sub[c]].active, rt[sub[c]].archived)
    BY <1>33, HubEdits
  <2> QED
    BY <1>33, <2>a, Basics
    DEF EnsureHub, TableInv, TableNames, CurrentIsRegistered, ReapIsApart, Edited, SameRuntimes,
        Alike
<1>34. ASSUME NEW c \in Callers, EnterNew(c) PROVE TableInv'
  BY <1>34, Basics
  DEF EnterNew, CanPrompt, sessionRuntimeIn, RouteSession, Counted, NoPrompt, TableInv,
      TableNames, CurrentIsRegistered, ReapIsApart
<1>35. ASSUME NEW c \in Callers, GiveUpNew(c) PROVE TableInv'
  BY <1>35, Basics DEF GiveUpNew, NoPrompt, TableInv, TableNames, CurrentIsRegistered, ReapIsApart
<1>36. ASSUME NEW c \in Callers, startSession(c) PROVE TableInv'
  <2>a. /\ NewId \in Sessions /\ NewId \notin DOMAIN disk /\ DOMAIN disk' = DOMAIN disk \cup {NewId}
        /\ NewId # None /\ disk'[NewId] = "idle" /\ \A s \in DOMAIN disk : disk'[s] = disk[s]
    BY <1>36, NewSessionAdded DEF startSession
  <2>b. Added(rt', NewId, FALSE) /\ prompt[c].rt \in DOMAIN rt
    BY <1>36, CurrentReplaced
  <2>c. /\ current' = NewRt /\ prompt[c].pc = "gate" /\ prompt' = [prompt EXCEPT ![c].pc = "unbind"]
        /\ manager' = [manager EXCEPT ![NewId] = IF managerOpen THEN NewRt ELSE None]
        /\ lapsed' = IF current # prompt[c].rt THEN lapsed \cup {rt[current].sess} ELSE lapsed
        /\ UNCHANGED <<suspended, hooks, refVars, connVars, op, remembered, sub, reap, plugin,
                       stolen, inputs, faults>>
    BY <1>36 DEF startSession
  <2> QED
    BY <2>a, <2>b, <2>c, Basics
    DEF Added, Alike, managerOpen, TableInv, TableNames, CurrentIsRegistered, ReapIsApart
<1>37. ASSUME NEW c \in Callers, UnbindSession(c) PROVE TableInv'
  BY <1>37, Basics DEF UnbindSession, TableInv, TableNames, CurrentIsRegistered, ReapIsApart
<1>38. ASSUME NEW c \in Callers, ReleaseOld(c) PROVE TableInv'
  <2> DEFINE s == rt[prompt[c].rt].sess
  <2>a. s \in DOMAIN disk /\ prompt[c].rt \in DOMAIN rt /\ rt \in Seq(RuntimeStates)
    BY <1>38 DEF ReleaseOld, TypeInv, TablesTyped, StoresTyped, Locals
  <2>d. /\ lapsed' = lapsed \ {s}
        /\ Keeps(s, byClient, rt) \/ Suspends(s, byClient, rt) \/ Begins(s, byClient, rt)
    BY <1>38, <2>a, EvaluationCases DEF ReleaseOld
  <2>e. /\ prompt[c].pc = "release" /\ prompt' = [prompt EXCEPT ![c].pc = "clear"] /\ reap = NoReap
        /\ UNCHANGED <<repoVars, tableVars, hooks, refVars, connVars, op, remembered, sub, stopVars,
                       inputs, faults>>
    BY <1>38 DEF ReleaseOld
  <2> HIDE DEF s
  <2>k. CASE Keeps(s, byClient, rt)
    BY <2>k, <2>a, <2>d, <2>e, TableFrame, RuntimesStay, Basics
    DEF Keeps, NoReap, SameRuntimes, Alike, tableVars, stopVars
  <2>s. CASE Suspends(s, byClient, rt)
    BY <2>s, <2>a, <2>d, <2>e, TableFrame, RuntimesStay, Basics
    DEF Suspends, NoReap, SameRuntimes, Alike, tableVars, stopVars
  <2>b. CASE Begins(s, byClient, rt)
    BY <2>b, <2>a, <2>d, <2>e, TableBegins, RuntimesStay DEF tableVars, stopVars
  <2> QED BY <2>d, <2>k, <2>s, <2>b
<1>39. ASSUME NEW c \in Callers, ClearBinding(c) PROVE TableInv'
  <2>a. Edited(prompt[c].rt, rt[prompt[c].rt].active, rt[prompt[c].rt].archived)
    BY <1>39, ClearEdits
  <2> QED
    BY <1>39, <2>a, Basics
    DEF ClearBinding, NoPrompt, TableInv, TableNames, CurrentIsRegistered, ReapIsApart, Edited,
        SameRuntimes, Alike
<1>40. CASE UNCHANGED vars
  BY <1>40, Basics DEF vars, TableInv, TableNames, CurrentIsRegistered, ReapIsApart
<1>41. ASSUME NEW r \in DOMAIN rt, Reserve(r) PROVE TableInv'
  <2>1. UNCHANGED <<manager, current, plugin, reap>> /\ reserveRun(r)
    BY <1>41 DEF Reserve
  <2> QED BY <2>1, ReserveKeeps, TableFrame, Basics DEF TableInv, ReapIsApart
<1>42. ASSUME NEW c \in Callers, ReserveSync(c) PROVE TableInv'
  <2>1. UNCHANGED <<manager, current, plugin, reap>> /\ reserveRun(prompt[c].rt)
        /\ prompt[c].rt \in DOMAIN rt
    BY <1>42, PromptBasics DEF ReserveSync
  <2> QED BY <2>1, ReserveKeeps, TableFrame, Basics DEF TableInv, ReapIsApart
<1>43. ASSUME NEW r \in DOMAIN rt, CloseAwaits(r) PROVE TableInv'
  BY <1>43, Basics DEF CloseAwaits, TableInv, TableNames, CurrentIsRegistered, ReapIsApart
<1> QED
  BY <1>1, <1>2, <1>3, <1>4, <1>5, <1>6, <1>7, <1>8, <1>9, <1>10, <1>11, <1>12, <1>13, <1>14,
     <1>15, <1>16, <1>17, <1>18, <1>19, <1>20, <1>21, <1>22, <1>23, <1>24, <1>25, <1>26, <1>27,
     <1>28, <1>29, <1>30, <1>31, <1>32, <1>33, <1>34, <1>35, <1>36, <1>37, <1>38, <1>39, <1>40,
     <1>41, <1>42, <1>43
  DEF Next, Release, Runs, Archive, Stop, Requests, Connection, NewCommand

(* Steps that leave the table, the disk and what the runtimes do alone.    *)
LEMMA RunFrame ==
    ASSUME TypeInv, RunInv, UNCHANGED <<manager, disk, late>>, DOMAIN rt' = DOMAIN rt,
           \A q \in DOMAIN rt :
             /\ rt'[q].sess = rt[q].sess /\ rt'[q].archived = rt[q].archived
             /\ rt'[q].active = rt[q].active /\ rt'[q].open = rt[q].open,
           \A c \in Conns : op'[c] = op[c] \/ op'[c].pc \notin {"history", "evict"}
    PROVE  RunInv'
BY Basics DEF RunInv, RunsAreRegistered, RegisteredHaveStores, EvictedIsArchived

(* A new runtime over an open store, for a session that had none.          *)
LEMMA RunAdds ==
    ASSUME TypeInv, TableInv, RunInv, NEW s \in Sessions, manager[s] = None,
           DOMAIN disk' \subseteq DOMAIN disk \cup {s}, \A t \in DOMAIN disk : disk'[t] = disk[t],
           NewRt # None, NewRt \notin DOMAIN rt, DOMAIN rt' = DOMAIN rt \cup {NewRt},
           rt'[NewRt].active = "none", rt'[NewRt].open,
           disk'[s] = "archived" => rt'[NewRt].archived,
           \A q \in DOMAIN rt :
             /\ rt'[q].sess = rt[q].sess /\ rt'[q].archived = rt[q].archived
             /\ rt'[q].active = rt[q].active /\ rt'[q].open = rt[q].open,
           manager' = [manager EXCEPT ![s] = NewRt], late' = late,
           \A c \in Conns : op'[c] = op[c] \/ op'[c].pc \notin {"history", "evict"}
    PROVE  RunInv'
<1>1. RunsAreRegistered'
  <2>1. ASSUME NEW r \in DOMAIN rt' \ late, rt'[r].active # "none"
        PROVE  manager'[rt'[r].sess] = r /\ ~rt'[r].archived
    <3>1. r \in DOMAIN rt /\ rt[r].active # "none"
      BY <2>1
    <3>2. manager[rt[r].sess] = r /\ ~rt[r].archived /\ rt[r].sess # s /\ rt[r].sess \in Sessions
      BY <3>1, Basics DEF RunInv, RunsAreRegistered
    <3> QED BY <3>1, <3>2, Basics
  <2> QED BY <2>1 DEF RunsAreRegistered
<1>2. RegisteredHaveStores'
  <2>1. ASSUME NEW t \in DOMAIN disk', manager'[t] # None
        PROVE  /\ disk'[t] = "archived" => rt'[manager'[t]].archived
               /\ ~rt'[manager'[t]].archived => rt'[manager'[t]].open
    <3>1. CASE t = s
      BY <3>1, Basics
    <3>2. CASE t # s
      BY <2>1, <3>2, Basics DEF RunInv, RegisteredHaveStores
    <3> QED BY <3>1, <3>2
  <2> QED BY <2>1 DEF RegisteredHaveStores
<1>3. EvictedIsArchived'
  BY OpBasics DEF RunInv, EvictedIsArchived
<1> QED BY <1>1, <1>2, <1>3 DEF RunInv

(* A submission reserves a registered runtime, or a late one.              *)
LEMMA RunReserves ==
    ASSUME TypeInv, TableInv, RunInv, AdmissionInv, NEW r \in DOMAIN rt, reserveRun(r), Submitted(r),
           UNCHANGED <<manager, disk, op>>
    PROVE  RunInv'
<1>1. CASE Admits(r) /\ Edited(r, "reserved", rt[r].archived)
  <2>1. late' = IF plugin # "up" /\ r \notin awaiting THEN late \cup {r} ELSE late
    BY <1>1 DEF reserveRun
  <2>2. ASSUME r \notin late' PROVE manager[rt[r].sess] = r /\ ~rt[r].archived
    <3>1. plugin \in {"up", "stopping"}
      BY <2>1, <2>2 DEF AdmissionInv, RunsAreAwaited
    <3> QED BY <1>1, <3>1 DEF AdmissionInv, SubmittedAreRegistered, Admits
  <2>3. late \subseteq late'
    BY <2>1
  <2>4. RunsAreRegistered'
    BY <1>1, <2>2, <2>3, Basics DEF Edited, SameRuntimes, Alike, RunInv, RunsAreRegistered
  <2>5. RegisteredHaveStores' /\ EvictedIsArchived'
    BY <1>1, Basics, OpBasics
    DEF Edited, SameRuntimes, Alike, RunInv, RegisteredHaveStores, EvictedIsArchived
  <2> QED BY <2>4, <2>5 DEF RunInv
<1>2. CASE rt' = rt /\ late' = late
  BY <1>2, Basics, OpBasics DEF RunInv, RunsAreRegistered, RegisteredHaveStores, EvictedIsArchived
<1> QED BY <1>1, <1>2, ReserveEdits

(* Every step keeps the runs registered and their stores open.             *)
LEMMA RunStep == TypeInv /\ TableInv /\ RunInv /\ AdmissionInv /\ [Next]_vars => RunInv'
<1> SUFFICES ASSUME TypeInv /\ TableInv /\ RunInv /\ AdmissionInv, [Next]_vars PROVE RunInv'
  OBVIOUS
<1> USE LifecycleAssumption DEF repoVars, tableVars, refVars, connVars, promptVars, stopVars, closeVars, historyVars, None, Callers
<1>1. CASE ReapRemove
  BY <1>1, Basics, OpBasics
  DEF ReapRemove, RunInv, RunsAreRegistered, RegisteredHaveStores, EvictedIsArchived, TableInv,
      TableNames, CurrentIsRegistered, ReapIsApart
<1>2. CASE ReapCloseEvents
  <2>a. Edited(reap.rt, rt[reap.rt].active, rt[reap.rt].archived)
    BY <1>2, ReapEventsEdits
  <2> QED
    BY <1>2, <2>a, Basics, OpBasics
    DEF ReapCloseEvents, RunInv, RunsAreRegistered, RegisteredHaveStores, EvictedIsArchived,
        TableInv, TableNames, CurrentIsRegistered, ReapIsApart, Edited, SameRuntimes, Alike
<1>3. CASE ReapCloseStore
  <2>a. CASE rt[current].sess # reap.sess
    <3>a. /\ SameRuntimes(rt')
          /\ \A q \in DOMAIN rt :
               /\ rt'[q].sess = rt[q].sess /\ rt'[q].retired = rt[q].retired
               /\ rt'[q].archived = rt[q].archived /\ rt'[q].active = rt[q].active
               /\ IF rt[q].sess = reap.sess THEN ~rt'[q].open ELSE rt'[q].open = rt[q].open
      BY <1>3, <2>a, CloseEdit DEF ReapCloseStore
    <3>b. reap.pc = "store" /\ UNCHANGED <<manager, disk, op, late>>
      BY <1>3 DEF ReapCloseStore
    <3>c. RunsAreRegistered'
      BY <3>a, <3>b, Basics DEF SameRuntimes, RunInv, RunsAreRegistered
    <3>d. RegisteredHaveStores'
      BY <3>a, <3>b, Basics
      DEF SameRuntimes, RunInv, RegisteredHaveStores, TableInv, TableNames, ReapIsApart
    <3>e. EvictedIsArchived'
      BY <3>b DEF RunInv, EvictedIsArchived
    <3> QED BY <3>c, <3>d, <3>e DEF RunInv
  <2>b. CASE rt[current].sess = reap.sess
    BY <1>3, <2>b, Basics, OpBasics
    DEF ReapCloseStore, NoReap, RunInv, RunsAreRegistered, RegisteredHaveStores,
        EvictedIsArchived, TableInv, TableNames, CurrentIsRegistered, ReapIsApart
  <2> QED BY <2>a, <2>b
<1>4. ASSUME NEW c \in Conns, RequestNew(c) PROVE RunInv'
  BY <1>4, Basics, OpBasics
  DEF RequestNew, Request, Counted, NoOp, RunInv, RunsAreRegistered, RegisteredHaveStores,
      EvictedIsArchived, TableInv, TableNames, CurrentIsRegistered, ReapIsApart
<1>5. ASSUME NEW c \in Conns, CreateBoundSession(c) PROVE RunInv'
  <2>a. /\ NewId \in Sessions /\ NewId \notin DOMAIN disk /\ DOMAIN disk' = DOMAIN disk \cup {NewId}
        /\ NewId # None /\ disk'[NewId] = "idle" /\ \A s \in DOMAIN disk : disk'[s] = disk[s]
    BY <1>5, NewSessionAdded DEF CreateBoundSession
  <2>b. CASE managerOpen
    <3>a. /\ rt' = Append(rt, Runtime(NewId, FALSE)) /\ manager' = [manager EXCEPT ![NewId] = NewRt]
          /\ op' = [op EXCEPT ![c] = [pc |-> "remember", sess |-> NewId]]
      BY <1>5, <2>b DEF CreateBoundSession
    <3>b. Added(rt', NewId, FALSE)
      BY <2>a, <3>a, AppendAdds DEF SameRuntimes, Alike, TypeInv, TablesTyped, StoresTyped
    <3>c. late' = late
      BY <1>5 DEF CreateBoundSession
    <3>d. manager[NewId] = None
      BY <2>a, Basics DEF TableInv, TableNames
    <3>e. \A d \in Conns : op'[d] = op[d] \/ op'[d].pc \notin {"history", "evict"}
      BY <3>a, OpBasics
    <3> HIDE DEF NewId, NewRt
    <3> QED BY <2>a, <3>a, <3>b, <3>c, <3>d, <3>e, RunAdds DEF Added, Alike
  <2>c. CASE ~managerOpen
    <3>a. UNCHANGED <<rt, manager, late>> /\ op' = [op EXCEPT ![c] = NoOp] /\ manager[NewId] = None
      BY <1>5, <2>a, <2>c, Basics DEF CreateBoundSession, TableInv, TableNames
    <3>b. RunsAreRegistered'
      BY <3>a DEF RunInv, RunsAreRegistered
    <3>c. RegisteredHaveStores'
      BY <2>a, <3>a DEF RunInv, RegisteredHaveStores
    <3>d. EvictedIsArchived'
      BY <2>a, <3>a, OpBasics DEF RunInv, EvictedIsArchived, NoOp
    <3> QED BY <3>b, <3>c, <3>d DEF RunInv
  <2> QED BY <2>b, <2>c
<1>6. ASSUME NEW c \in Conns, SetBinding(c) PROVE RunInv'
  BY <1>6, Basics, OpBasics
  DEF SetBinding, remember, NoOp, RunInv, RunsAreRegistered, RegisteredHaveStores,
      EvictedIsArchived, TableInv, TableNames, CurrentIsRegistered, ReapIsApart
<1>7. ASSUME NEW c \in Conns, BindConnectionSession(c) PROVE RunInv'
  <2>a. op[c].sess \in DOMAIN disk /\ rt \in Seq(RuntimeStates) /\ Rebind(c, op[c].sess, rt)
    BY <1>7 DEF BindConnectionSession, TypeInv, TablesTyped, StoresTyped, Locals
  <2>b. EvaluationTyped(rt)
    BY <2>a, RebindIsTyped
  <2> QED BY <1>7, <2>b, OpBasics, RunFrame
    DEF EvaluationTyped, repoVars, tableVars, BindConnectionSession, NoOp
<1>8. ASSUME NEW c \in Conns, NEW s \in Sessions, RequestLoad(c, s) PROVE RunInv'
  BY <1>8, Basics, OpBasics
  DEF RequestLoad, Request, Counted, NoOp, RunInv, RunsAreRegistered, RegisteredHaveStores,
      EvictedIsArchived, TableInv, TableNames, CurrentIsRegistered, ReapIsApart
<1>9. ASSUME NEW c \in Conns, SessionArchived(c) PROVE RunInv'
  BY <1>9, Basics, OpBasics
  DEF SessionArchived, OpenStore, Advance, RunInv, RunsAreRegistered, RegisteredHaveStores,
      EvictedIsArchived, TableInv, TableNames, CurrentIsRegistered, ReapIsApart
<1>10. ASSUME NEW c \in Conns, ArchivedSessionHistory(c) PROVE RunInv'
  BY <1>10, Basics, OpBasics
  DEF ArchivedSessionHistory, OpenStore, Advance, Answer, NoOp, RouteSession, RunInv,
      RunsAreRegistered, RegisteredHaveStores, EvictedIsArchived, TableInv, TableNames,
      CurrentIsRegistered, ReapIsApart
<1>11. ASSUME NEW c \in Conns, Evict(c) PROVE RunInv'
  <2>a. /\ SameRuntimes(rt')
        /\ \A q \in DOMAIN rt :
             /\ rt'[q].sess = rt[q].sess /\ rt'[q].retired = rt[q].retired
             /\ rt'[q].archived = rt[q].archived /\ rt'[q].active = rt[q].active
             /\ IF rt[q].sess = op[c].sess THEN ~rt'[q].open ELSE rt'[q].open = rt[q].open
    BY <1>11, CloseEdit DEF Evict
  <2>b. /\ disk[op[c].sess] = "archived" /\ UNCHANGED <<manager, disk, late>>
        /\ op' = [op EXCEPT ![c] = NoOp]
    BY <1>11 DEF Evict, Answer, RunInv, EvictedIsArchived
  <2>c. RunsAreRegistered'
    BY <2>a, <2>b, Basics DEF SameRuntimes, RunInv, RunsAreRegistered
  <2>d. RegisteredHaveStores'
    BY <2>a, <2>b, Basics DEF SameRuntimes, RunInv, RegisteredHaveStores, TableInv, TableNames
  <2>e. EvictedIsArchived'
    BY <2>b, OpBasics DEF RunInv, EvictedIsArchived, NoOp
  <2> QED BY <2>c, <2>d, <2>e DEF RunInv
<1>12. ASSUME NEW c \in Conns, LoadRouted(c) PROVE RunInv'
  <2>a. op[c].sess \in DOMAIN disk /\ rt \in Seq(RuntimeStates) /\ Rebind(c, op[c].sess, rt)
    BY <1>12 DEF LoadRouted, TypeInv, TablesTyped, StoresTyped, Locals
  <2>b. EvaluationTyped(rt)
    BY <2>a, RebindIsTyped
  <2> QED BY <1>12, <2>b, OpBasics, RunFrame
    DEF EvaluationTyped, repoVars, tableVars, LoadRouted, Advance
<1>13. ASSUME NEW c \in Conns, LoadReopened(c) PROVE RunInv'
  <2> DEFINE s == op[c].sess
             prev == byClient[c]
             rts == Append(rt, Runtime(s, disk[s] = "archived"))
  <2>a. /\ s \in DOMAIN disk /\ s \in Sessions /\ s # None /\ RouteSession(s) = None
        /\ op[c].pc = "loading" /\ s = op[c].sess /\ prev = byClient[c]
    BY <1>13, StoredIsSession DEF LoadReopened, TypeInv, Locals
  <2>b. Added(rts, s, disk[s] = "archived") /\ DOMAIN rt \subseteq DOMAIN rts
    <3>1. SameRuntimes(rt) /\ \A q \in DOMAIN rt : Alike(rt[q], rt[q])
      BY DEF SameRuntimes, Alike, TypeInv, TablesTyped, StoresTyped
    <3>2. Added(rts, s, disk[s] = "archived")
      BY <2>a, <3>1, AppendAdds
    <3> QED BY <3>2 DEF Added
  <2>c. /\ reap = NoReap
        /\ UNCHANGED <<disk, current, hooks, binding, connVars, promptVars, stopVars, inputs, faults>>
    BY <1>13 DEF LoadReopened
  <2>d. CASE ~managerOpen
    <3>d. op' = [op EXCEPT ![c] = NoOp] /\ UNCHANGED <<rt, manager, suspended, byClient, reap, historyVars>>
      BY <1>13, <2>d DEF LoadReopened, Answer
    <3> QED
      BY <2>a, <2>c, <2>d, <3>d, Basics, OpBasics
      DEF NoReap, NoOp, RunInv, RunsAreRegistered, RegisteredHaveStores, EvictedIsArchived,
          TableInv, TableNames
  <2>e. CASE managerOpen
    <3>c. /\ manager' = [manager EXCEPT ![s] = NewRt] /\ Rebind(c, s, rts)
          /\ op' = [op EXCEPT ![c].pc = "loaded"] /\ byClient' = [byClient EXCEPT ![c] = s]
      BY <1>13, <2>e DEF LoadReopened, Advance, Rebind
    <3> HIDE DEF s, prev, rts
    <3>d. EvaluationTyped(rts)
      BY <2>a, <2>b, <3>c, RebindIsTyped DEF Added
    <3>e. manager[s] = None /\ disk' = disk /\ late' = late
      BY <2>a, <2>c, Basics DEF RouteSession
    <3>f. /\ DOMAIN rt' = DOMAIN rt \cup {NewRt} /\ NewRt # None /\ NewRt \notin DOMAIN rt
          /\ rt'[NewRt].active = "none" /\ rt'[NewRt].open
          /\ (disk[s] = "archived" => rt'[NewRt].archived)
          /\ \A q \in DOMAIN rt :
               /\ rt'[q].sess = rt[q].sess /\ rt'[q].archived = rt[q].archived
               /\ rt'[q].active = rt[q].active /\ rt'[q].open = rt[q].open
      BY <2>b, <3>d DEF Added, Alike, EvaluationTyped
    <3>g. \A d \in Conns : op'[d] = op[d] \/ op'[d].pc \notin {"history", "evict"}
      BY <3>c, OpBasics
    <3> HIDE DEF NewRt
    <3> QED BY <2>a, <3>c, <3>e, <3>f, <3>g, RunAdds
  <2> QED BY <2>d, <2>e
<1>14. ASSUME NEW s \in Sessions, StartRun(s) PROVE RunInv'
  BY <1>14, Basics, OpBasics
  DEF StartRun, RunInv, RunsAreRegistered, RegisteredHaveStores, EvictedIsArchived
<1>15. ASSUME NEW c \in Callers, StartRunSync(c) PROVE RunInv'
  BY <1>15, Basics, OpBasics
  DEF StartRunSync, RunInv, RunsAreRegistered, RegisteredHaveStores, EvictedIsArchived
<1>16. ASSUME NEW r \in DOMAIN rt, AcceptRun(r) PROVE RunInv'
  <2>a. Edited(r, "accepted", rt[r].archived)
    BY <1>16, RunEdits
  <2> QED
    BY <1>16, <2>a, Basics, OpBasics
    DEF AcceptRun, RunInv, RunsAreRegistered, RegisteredHaveStores, EvictedIsArchived, TableInv,
        TableNames, CurrentIsRegistered, ReapIsApart, Edited, SameRuntimes, Alike
<1>17. ASSUME NEW r \in DOMAIN rt, RollbackRun(r) PROVE RunInv'
  <2>a. Edited(r, "none", rt[r].archived)
    BY <1>17, RunEdits
  <2> QED
    BY <1>17, <2>a, Basics, OpBasics
    DEF RollbackRun, EndPrompts, NoPrompt, RunInv, RunsAreRegistered, RegisteredHaveStores,
        EvictedIsArchived, TableInv, TableNames, CurrentIsRegistered, ReapIsApart, Edited,
        SameRuntimes, Alike
<1>18. ASSUME NEW r \in DOMAIN rt, AcquireRun(r) PROVE RunInv'
  <2>a. Edited(r, "running", rt[r].archived)
    BY <1>18, RunEdits
  <2> QED
    BY <1>18, <2>a, Basics, OpBasics
    DEF AcquireRun, RunInv, RunsAreRegistered, RegisteredHaveStores, EvictedIsArchived, TableInv,
        TableNames, CurrentIsRegistered, ReapIsApart, Edited, SameRuntimes, Alike
<1>19. ASSUME NEW r \in DOMAIN rt, FinalizeRun(r) PROVE RunInv'
  <2>a. Edited(r, "none", rt[r].archived)
    BY <1>19, RunEdits
  <2> QED
    BY <1>19, <2>a, Basics, OpBasics
    DEF FinalizeRun, EndPrompts, NoPrompt, RunInv, RunsAreRegistered, RegisteredHaveStores,
        EvictedIsArchived, TableInv, TableNames, CurrentIsRegistered, ReapIsApart, Edited,
        SameRuntimes, Alike
<1>20. ASSUME NEW r \in DOMAIN rt, onSessionRunDone(r) PROVE RunInv'
  <2>a. PICK freed :
             /\ SameRuntimes(freed) /\ \A q \in DOMAIN rt : Alike(freed[q], rt[q])
             /\ rt[r].sess \in DOMAIN disk
             /\ IF rt[r].sess \in suspended THEN Evaluate(rt[r].sess, byClient, freed)
                ELSE rt' = freed /\ UNCHANGED <<suspended, reap, historyVars>>
    BY <1>20, HookEvaluates
  <2>c. UNCHANGED <<manager, disk, op, late>>
    BY <1>20 DEF onSessionRunDone
  <2>d. CASE rt[r].sess \in suspended
    <3>1. EvaluationTyped(freed)
      BY <2>a, <2>d, EvaluationIsTyped DEF SameRuntimes
    <3> QED BY <2>a, <2>c, <3>1, RunFrame DEF EvaluationTyped, SameRuntimes, Alike
  <2>e. CASE rt[r].sess \notin suspended
    BY <2>a, <2>c, <2>e, RunFrame DEF SameRuntimes, Alike
  <2> QED BY <2>d, <2>e
<1>21. CASE FinalizerEnds
  BY <1>21, Basics, OpBasics
  DEF FinalizerEnds, RunInv, RunsAreRegistered, RegisteredHaveStores, EvictedIsArchived, TableInv,
      TableNames, CurrentIsRegistered, ReapIsApart
<1>22. ASSUME NEW s \in Sessions, ArchiveMounted(s) PROVE RunInv'
  <2>a. Edited(RouteSession(s), rt[RouteSession(s)].active, TRUE) /\ s \in DOMAIN disk
    BY <1>22, ArchiveEdits
  <2> QED
    BY <1>22, <2>a, Basics, OpBasics
    DEF ArchiveMounted, RouteSession, Counted, NoReap, RunInv, RunsAreRegistered,
        RegisteredHaveStores, EvictedIsArchived, TableInv, TableNames, CurrentIsRegistered,
        ReapIsApart, Edited, SameRuntimes, Alike
<1>23. ASSUME NEW s \in Sessions, ArchiveStored(s) PROVE RunInv'
  <2>a. /\ SameRuntimes(rt')
        /\ \A q \in DOMAIN rt :
             /\ rt'[q].sess = rt[q].sess /\ rt'[q].retired = rt[q].retired
             /\ rt'[q].archived = rt[q].archived /\ rt'[q].active = rt[q].active
             /\ IF rt[q].sess = s THEN ~rt'[q].open ELSE rt'[q].open = rt[q].open
    BY <1>23, CloseEdit DEF ArchiveStored
  <2>b. /\ RouteSession(s) = None /\ s \in DOMAIN disk /\ disk' = [disk EXCEPT ![s] = "archived"]
        /\ UNCHANGED <<manager, op, late>>
    BY <1>23 DEF ArchiveStored
  <2>c. RunsAreRegistered'
    BY <2>a, <2>b, Basics DEF SameRuntimes, RunInv, RunsAreRegistered
  <2>d. RegisteredHaveStores'
    BY <2>a, <2>b, Basics
    DEF SameRuntimes, RouteSession, RunInv, RegisteredHaveStores, TableInv, TableNames
  <2>e. EvictedIsArchived'
    BY <2>b, OpBasics DEF RunInv, EvictedIsArchived
  <2> QED BY <2>c, <2>d, <2>e DEF RunInv
<1>24. CASE StopBegin
  BY <1>24, Basics, OpBasics
  DEF StopBegin, StopStep, Counted, RunInv, RunsAreRegistered, RegisteredHaveStores,
      EvictedIsArchived, TableInv, TableNames, CurrentIsRegistered, ReapIsApart
<1>25. CASE StopManager
  <2>a. SameRuntimes(rt') /\ \A q \in DOMAIN rt : Alike(rt'[q], rt[q])
    BY <1>25, StopEdits
  <2>b. /\ plugin = "stopping" /\ awaiting = {} /\ manager' = [s \in Sessions |-> None]
        /\ UNCHANGED <<disk, op, late>>
    BY <1>25 DEF StopManager, StopStep
  <2>c. RunsAreRegistered'
    BY <2>a, <2>b DEF SameRuntimes, Alike, AdmissionInv, RunsAreAwaited, RunsAreRegistered
  <2>d. RegisteredHaveStores' /\ EvictedIsArchived'
    BY <2>b, Basics DEF RunInv, RegisteredHaveStores, EvictedIsArchived
  <2> QED BY <2>c, <2>d DEF RunInv
<1>26. CASE StopCommands
  BY <1>26, Basics, OpBasics
  DEF StopCommands, StopStep, RunInv, RunsAreRegistered, RegisteredHaveStores, EvictedIsArchived,
      TableInv, TableNames, CurrentIsRegistered, ReapIsApart
<1>27. CASE StopMemory
  BY <1>27, Basics, OpBasics
  DEF StopMemory, StopStep, RunInv, RunsAreRegistered, RegisteredHaveStores, EvictedIsArchived,
      TableInv, TableNames, CurrentIsRegistered, ReapIsApart
<1>28. CASE StopStores
  <2>a. /\ SameRuntimes(rt')
        /\ \A q \in DOMAIN rt :
             /\ rt'[q].sess = rt[q].sess /\ rt'[q].retired = rt[q].retired
             /\ rt'[q].archived = rt[q].archived /\ rt'[q].active = rt[q].active
             /\ ~rt'[q].open
    BY <1>28, StopEdits
  <2>b. plugin = "finalized" /\ UNCHANGED <<manager, disk, op, late>>
    BY <1>28 DEF StopStores, StopStep
  <2>c. \A s \in DOMAIN disk : manager[s] = None
    BY <2>b, Basics DEF TableInv, CurrentIsRegistered
  <2>d. RunsAreRegistered'
    BY <2>a, <2>b DEF SameRuntimes, RunInv, RunsAreRegistered
  <2>e. RegisteredHaveStores' /\ EvictedIsArchived'
    BY <2>b, <2>c DEF RunInv, RegisteredHaveStores, EvictedIsArchived
  <2> QED BY <2>d, <2>e DEF RunInv
<1>29. ASSUME NEW c \in Conns, ConnClose(c) PROVE RunInv'
  BY <1>29, Basics, OpBasics
  DEF ConnClose, Counted, RunInv, RunsAreRegistered, RegisteredHaveStores, EvictedIsArchived,
      TableInv, TableNames, CurrentIsRegistered, ReapIsApart
<1>30. ASSUME NEW c \in Conns, ReleaseConnection(c) PROVE RunInv'
  BY <1>30, Basics, OpBasics
  DEF ReleaseConnection, NoPrompt, RunInv, RunsAreRegistered, RegisteredHaveStores,
      EvictedIsArchived, TableInv, TableNames, CurrentIsRegistered, ReapIsApart
<1>31. ASSUME NEW c \in Conns, TryReleaseSession(c) PROVE RunInv'
  <2>a. CASE left[c] # None
    <3>1. EvaluationTyped(rt)
      BY <1>31, <2>a, EvaluationIsTyped
      DEF TryReleaseSession, TypeInv, TablesTyped, StoresTyped, ReferencesTyped
    <3> QED BY <1>31, <3>1, RunFrame DEF EvaluationTyped, repoVars, tableVars, TryReleaseSession
  <2>b. CASE left[c] = None
    BY <1>31, <2>b, RunFrame DEF TryReleaseSession, repoVars, tableVars
  <2> QED BY <2>a, <2>b
<1>32. ASSUME NEW c \in Conns, NEW s \in Sessions, SubscribeEvents(c, s) PROVE RunInv'
  BY <1>32, Basics, OpBasics
  DEF SubscribeEvents, RouteSession, Counted, RunInv, RunsAreRegistered, RegisteredHaveStores,
      EvictedIsArchived, TableInv, TableNames, CurrentIsRegistered, ReapIsApart
<1>33. ASSUME NEW c \in Conns, EnsureHub(c) PROVE RunInv'
  <2>a. Edited(sub[c], rt[sub[c]].active, rt[sub[c]].archived)
    BY <1>33, HubEdits
  <2> QED
    BY <1>33, <2>a, Basics, OpBasics
    DEF EnsureHub, RunInv, RunsAreRegistered, RegisteredHaveStores, EvictedIsArchived, TableInv,
        TableNames, CurrentIsRegistered, ReapIsApart, Edited, SameRuntimes, Alike
<1>34. ASSUME NEW c \in Callers, EnterNew(c) PROVE RunInv'
  BY <1>34, Basics, OpBasics
  DEF EnterNew, CanPrompt, sessionRuntimeIn, RouteSession, Counted, NoPrompt, RunInv,
      RunsAreRegistered, RegisteredHaveStores, EvictedIsArchived, TableInv, TableNames,
      CurrentIsRegistered, ReapIsApart
<1>35. ASSUME NEW c \in Callers, GiveUpNew(c) PROVE RunInv'
  BY <1>35, Basics, OpBasics
  DEF GiveUpNew, NoPrompt, RunInv, RunsAreRegistered, RegisteredHaveStores, EvictedIsArchived,
      TableInv, TableNames, CurrentIsRegistered, ReapIsApart
<1>36. ASSUME NEW c \in Callers, startSession(c) PROVE RunInv'
  <2>a. /\ NewId \in Sessions /\ NewId \notin DOMAIN disk /\ DOMAIN disk' = DOMAIN disk \cup {NewId}
        /\ NewId # None /\ disk'[NewId] = "idle" /\ \A s \in DOMAIN disk : disk'[s] = disk[s]
    BY <1>36, NewSessionAdded DEF startSession
  <2>b. Added(rt', NewId, FALSE) /\ prompt[c].rt \in DOMAIN rt
    BY <1>36, CurrentReplaced
  <2>c. /\ current' = NewRt /\ prompt[c].pc = "gate" /\ prompt' = [prompt EXCEPT ![c].pc = "unbind"]
        /\ manager' = [manager EXCEPT ![NewId] = IF managerOpen THEN NewRt ELSE None]
        /\ lapsed' = IF current # prompt[c].rt THEN lapsed \cup {rt[current].sess} ELSE lapsed
        /\ UNCHANGED <<op, plugin, late>>
    BY <1>36 DEF startSession
  <2>d. manager[NewId] = None
    BY <2>a, Basics DEF TableInv, TableNames
  <2> HIDE DEF NewId, NewRt
  <2>e. CASE managerOpen
    <3>1. manager' = [manager EXCEPT ![NewId] = NewRt] /\ late' = late
      BY <2>c, <2>e
    <3>2. \A d \in Conns : op'[d] = op[d] \/ op'[d].pc \notin {"history", "evict"}
      BY <2>c
    <3> QED BY <2>a, <2>b, <2>d, <3>1, <3>2, RunAdds DEF Added, Alike
  <2>f. CASE ~managerOpen
    <3>1. manager' = manager
      BY <2>a, <2>c, <2>d, <2>f, Basics
    <3>2. /\ \A q \in DOMAIN rt : Alike(rt'[q], rt[q])
          /\ DOMAIN rt' = DOMAIN rt \cup {NewRt} /\ rt'[NewRt].active = "none"
      BY <2>b DEF Added
    <3>3. RunsAreRegistered'
      BY <2>c, <3>1, <3>2, Basics DEF RunInv, RunsAreRegistered, Alike
    <3>4. RegisteredHaveStores'
      BY <2>a, <2>d, <3>1, <3>2, Basics DEF RunInv, RegisteredHaveStores, Alike
    <3>5. EvictedIsArchived'
      BY <2>a, <2>c, OpBasics DEF RunInv, EvictedIsArchived
    <3> QED BY <3>3, <3>4, <3>5 DEF RunInv
  <2> QED BY <2>e, <2>f
<1>37. ASSUME NEW c \in Callers, UnbindSession(c) PROVE RunInv'
  BY <1>37, Basics, OpBasics
  DEF UnbindSession, RunInv, RunsAreRegistered, RegisteredHaveStores, EvictedIsArchived, TableInv,
      TableNames, CurrentIsRegistered, ReapIsApart
<1>38. ASSUME NEW c \in Callers, ReleaseOld(c) PROVE RunInv'
  <2>a. rt[prompt[c].rt].sess \in DOMAIN disk /\ rt \in Seq(RuntimeStates)
    BY <1>38 DEF ReleaseOld, TypeInv, TablesTyped, StoresTyped, Locals
  <2>b. EvaluationTyped(rt)
    BY <1>38, <2>a, EvaluationIsTyped DEF ReleaseOld
  <2> QED BY <1>38, <2>b, RunFrame DEF EvaluationTyped, repoVars, tableVars, ReleaseOld
<1>39. ASSUME NEW c \in Callers, ClearBinding(c) PROVE RunInv'
  <2>a. Edited(prompt[c].rt, rt[prompt[c].rt].active, rt[prompt[c].rt].archived)
    BY <1>39, ClearEdits
  <2> QED
    BY <1>39, <2>a, Basics, OpBasics
    DEF ClearBinding, NoPrompt, RunInv, RunsAreRegistered, RegisteredHaveStores,
        EvictedIsArchived, TableInv, TableNames, CurrentIsRegistered, ReapIsApart, Edited,
        SameRuntimes, Alike
<1>40. CASE UNCHANGED vars
  BY <1>40, Basics, OpBasics
  DEF vars, RunInv, RunsAreRegistered, RegisteredHaveStores, EvictedIsArchived, TableInv,
      TableNames, CurrentIsRegistered, ReapIsApart
<1>41. ASSUME NEW r \in DOMAIN rt, Reserve(r) PROVE RunInv'
  <2>1. reserveRun(r) /\ r \in admitted /\ UNCHANGED <<manager, disk, op>>
    BY <1>41 DEF Reserve
  <2> QED BY <2>1, RunReserves DEF Submitted
<1>42. ASSUME NEW c \in Callers, ReserveSync(c) PROVE RunInv'
  <2>1. /\ reserveRun(prompt[c].rt) /\ prompt[c].rt \in DOMAIN rt
        /\ Submitted(prompt[c].rt) /\ UNCHANGED <<manager, disk, op>>
    BY <1>42, PromptBasics DEF ReserveSync, Submitted
  <2> QED BY <2>1, RunReserves
<1>43. ASSUME NEW r \in DOMAIN rt, CloseAwaits(r) PROVE RunInv'
  BY <1>43, Basics, OpBasics
  DEF CloseAwaits, RunInv, RunsAreRegistered, RegisteredHaveStores, EvictedIsArchived
<1> QED
  BY <1>1, <1>2, <1>3, <1>4, <1>5, <1>6, <1>7, <1>8, <1>9, <1>10, <1>11, <1>12, <1>13, <1>14,
     <1>15, <1>16, <1>17, <1>18, <1>19, <1>20, <1>21, <1>22, <1>23, <1>24, <1>25, <1>26, <1>27,
     <1>28, <1>29, <1>30, <1>31, <1>32, <1>33, <1>34, <1>35, <1>36, <1>37, <1>38, <1>39, <1>40,
     <1>41, <1>42, <1>43
  DEF Next, Release, Runs, Archive, Stop, Requests, Connection, NewCommand
(* Every step keeps the order of Stop.                                     *)
LEMMA StopInvStep == TypeInv /\ StopInv /\ [Next]_vars => StopInv'
<1> SUFFICES ASSUME TypeInv /\ StopInv, [Next]_vars PROVE StopInv'
  OBVIOUS
<1> USE LifecycleAssumption DEF repoVars, tableVars, refVars, connVars, promptVars, stopVars, historyVars
<1>1. CASE ReapRemove
  BY <1>1, PromptBasics DEF ReapRemove, StopInv, MemoryOutlivesFinalizers
<1>2. CASE ReapCloseEvents
  BY <1>2, PromptBasics DEF ReapCloseEvents, StopInv, MemoryOutlivesFinalizers
<1>3. CASE ReapCloseStore
  BY <1>3, PromptBasics DEF ReapCloseStore, StopInv, MemoryOutlivesFinalizers
<1>4. ASSUME NEW c \in Conns, RequestNew(c) PROVE StopInv'
  BY <1>4, PromptBasics DEF RequestNew, Request, StopInv, MemoryOutlivesFinalizers
<1>5. ASSUME NEW c \in Conns, CreateBoundSession(c) PROVE StopInv'
  BY <1>5, PromptBasics DEF CreateBoundSession, managerOpen, StopInv, MemoryOutlivesFinalizers
<1>6. ASSUME NEW c \in Conns, SetBinding(c) PROVE StopInv'
  BY <1>6, PromptBasics DEF SetBinding, StopInv, MemoryOutlivesFinalizers
<1>7. ASSUME NEW c \in Conns, BindConnectionSession(c) PROVE StopInv'
  BY <1>7, PromptBasics DEF BindConnectionSession, StopInv, MemoryOutlivesFinalizers
<1>8. ASSUME NEW c \in Conns, NEW s \in Sessions, RequestLoad(c, s) PROVE StopInv'
  BY <1>8, PromptBasics DEF RequestLoad, Request, StopInv, MemoryOutlivesFinalizers
<1>9. ASSUME NEW c \in Conns, SessionArchived(c) PROVE StopInv'
  BY <1>9, PromptBasics DEF SessionArchived, StopInv, MemoryOutlivesFinalizers
<1>10. ASSUME NEW c \in Conns, ArchivedSessionHistory(c) PROVE StopInv'
  BY <1>10, PromptBasics DEF ArchivedSessionHistory, StopInv, MemoryOutlivesFinalizers
<1>11. ASSUME NEW c \in Conns, Evict(c) PROVE StopInv'
  BY <1>11, PromptBasics DEF Evict, StopInv, MemoryOutlivesFinalizers
<1>12. ASSUME NEW c \in Conns, LoadRouted(c) PROVE StopInv'
  BY <1>12, PromptBasics DEF LoadRouted, StopInv, MemoryOutlivesFinalizers
<1>13. ASSUME NEW c \in Conns, LoadReopened(c) PROVE StopInv'
  BY <1>13, PromptBasics DEF LoadReopened, managerOpen, StopInv, MemoryOutlivesFinalizers
<1>14. ASSUME NEW s \in Sessions, StartRun(s) PROVE StopInv'
  BY <1>14, PromptBasics DEF StartRun, StopInv, MemoryOutlivesFinalizers
<1>15. ASSUME NEW c \in Callers, StartRunSync(c) PROVE StopInv'
  BY <1>15, PromptBasics DEF StartRunSync, NoPrompt, StopInv, MemoryOutlivesFinalizers
<1>16. ASSUME NEW r \in DOMAIN rt, AcceptRun(r) PROVE StopInv'
  BY <1>16, PromptBasics DEF AcceptRun, StopInv, MemoryOutlivesFinalizers
<1>17. ASSUME NEW r \in DOMAIN rt, RollbackRun(r) PROVE StopInv'
  BY <1>17, PromptBasics DEF RollbackRun, EndPrompts, NoPrompt, StopInv, MemoryOutlivesFinalizers
<1>18. ASSUME NEW r \in DOMAIN rt, AcquireRun(r) PROVE StopInv'
  BY <1>18, PromptBasics DEF AcquireRun, StopInv, MemoryOutlivesFinalizers
<1>19. ASSUME NEW r \in DOMAIN rt, FinalizeRun(r) PROVE StopInv'
  BY <1>19, PromptBasics DEF FinalizeRun, EndPrompts, NoPrompt, StopInv, MemoryOutlivesFinalizers
<1>20. ASSUME NEW r \in DOMAIN rt, onSessionRunDone(r) PROVE StopInv'
  BY <1>20, PromptBasics DEF onSessionRunDone, StopInv, MemoryOutlivesFinalizers
<1>21. CASE FinalizerEnds
  BY <1>21, PromptBasics DEF FinalizerEnds, StopInv, MemoryOutlivesFinalizers
<1>22. ASSUME NEW s \in Sessions, ArchiveMounted(s) PROVE StopInv'
  BY <1>22, PromptBasics DEF ArchiveMounted, StopInv, MemoryOutlivesFinalizers
<1>23. ASSUME NEW s \in Sessions, ArchiveStored(s) PROVE StopInv'
  BY <1>23, PromptBasics DEF ArchiveStored, StopInv, MemoryOutlivesFinalizers
<1>24. CASE StopBegin
  BY <1>24, PromptBasics DEF StopBegin, StopStep, StopInv, MemoryOutlivesFinalizers
<1>25. CASE StopManager
  BY <1>25, PromptBasics DEF StopManager, StopStep, StopInv, MemoryOutlivesFinalizers
<1>26. CASE StopCommands
  BY <1>26, PromptBasics DEF StopCommands, StopStep, StopInv, MemoryOutlivesFinalizers
<1>27. CASE StopMemory
  BY <1>27, PromptBasics DEF StopMemory, StopStep, StopInv, MemoryOutlivesFinalizers
<1>28. CASE StopStores
  BY <1>28, PromptBasics DEF StopStores, StopStep, StopInv, MemoryOutlivesFinalizers
<1>29. ASSUME NEW c \in Conns, ConnClose(c) PROVE StopInv'
  BY <1>29, PromptBasics DEF ConnClose, StopInv, MemoryOutlivesFinalizers
<1>30. ASSUME NEW c \in Conns, ReleaseConnection(c) PROVE StopInv'
  BY <1>30, PromptBasics DEF ReleaseConnection, NoPrompt, StopInv, MemoryOutlivesFinalizers
<1>31. ASSUME NEW c \in Conns, TryReleaseSession(c) PROVE StopInv'
  BY <1>31, PromptBasics DEF TryReleaseSession, StopInv, MemoryOutlivesFinalizers
<1>32. ASSUME NEW c \in Conns, NEW s \in Sessions, SubscribeEvents(c, s) PROVE StopInv'
  BY <1>32, PromptBasics DEF SubscribeEvents, StopInv, MemoryOutlivesFinalizers
<1>33. ASSUME NEW c \in Conns, EnsureHub(c) PROVE StopInv'
  BY <1>33, PromptBasics DEF EnsureHub, StopInv, MemoryOutlivesFinalizers
<1>34. ASSUME NEW c \in Callers, EnterNew(c) PROVE StopInv'
  BY <1>34, PromptBasics DEF EnterNew, NoPrompt, StopInv, MemoryOutlivesFinalizers
<1>35. ASSUME NEW c \in Callers, GiveUpNew(c) PROVE StopInv'
  BY <1>35, PromptBasics DEF GiveUpNew, NoPrompt, StopInv, MemoryOutlivesFinalizers
<1>36. ASSUME NEW c \in Callers, startSession(c) PROVE StopInv'
  BY <1>36, PromptBasics DEF startSession, managerOpen, StopInv, MemoryOutlivesFinalizers
<1>37. ASSUME NEW c \in Callers, UnbindSession(c) PROVE StopInv'
  BY <1>37, PromptBasics DEF UnbindSession, StopInv, MemoryOutlivesFinalizers
<1>38. ASSUME NEW c \in Callers, ReleaseOld(c) PROVE StopInv'
  BY <1>38, PromptBasics DEF ReleaseOld, StopInv, MemoryOutlivesFinalizers
<1>39. ASSUME NEW c \in Callers, ClearBinding(c) PROVE StopInv'
  BY <1>39, PromptBasics DEF ClearBinding, NoPrompt, StopInv, MemoryOutlivesFinalizers
<1>40. CASE UNCHANGED vars
  BY <1>40, PromptBasics DEF vars, StopInv, MemoryOutlivesFinalizers
<1>41. ASSUME NEW r \in DOMAIN rt, Reserve(r) PROVE StopInv'
  BY <1>41, PromptBasics DEF Reserve, StopInv, MemoryOutlivesFinalizers
<1>42. ASSUME NEW c \in Callers, ReserveSync(c) PROVE StopInv'
  <2>1. /\ \A d \in Callers : prompt'[d] = prompt[d] \/ prompt'[d].pc \in {"run", "idle"}
        /\ UNCHANGED <<plugin, finalizers>>
    BY <1>42, PromptBasics DEF ReserveSync, NoPrompt
  <2> QED BY <2>1 DEF StopInv, MemoryOutlivesFinalizers
<1>43. ASSUME NEW r \in DOMAIN rt, CloseAwaits(r) PROVE StopInv'
  BY <1>43, PromptBasics DEF CloseAwaits, StopInv, MemoryOutlivesFinalizers
<1> QED
  BY <1>1, <1>2, <1>3, <1>4, <1>5, <1>6, <1>7, <1>8, <1>9, <1>10, <1>11, <1>12, <1>13, <1>14,
     <1>15, <1>16, <1>17, <1>18, <1>19, <1>20, <1>21, <1>22, <1>23, <1>24, <1>25, <1>26, <1>27,
     <1>28, <1>29, <1>30, <1>31, <1>32, <1>33, <1>34, <1>35, <1>36, <1>37, <1>38, <1>39, <1>40,
     <1>41, <1>42, <1>43
  DEF Next, Release, Runs, Archive, Stop, Requests, Connection, NewCommand

(* While the manager is open the table alone routes.                       *)
LEMMA RouteIsTable ==
    ASSUME TypeInv, TableInv, plugin = "up", NEW s \in Sessions
    PROVE  RouteSession(s) = manager[s]
BY Basics DEF RouteSession, TableInv, CurrentIsRegistered

(* BindInv in terms of the table.                                          *)
Alive(s) == manager[s] # None

BindTable ==
    /\ plugin = "up" =>
         /\ \A c \in Conns \ stolen : byClient[c] # None => Alive(byClient[c])
         /\ \A c \in Conns \ stolen :
              op[c].pc \in {"remember", "bind"} =>
                  Alive(op[c].sess) /\ (reap.pc # "idle" => op[c].sess # reap.sess)
    /\ BoundIsApart

(* While the table is consistent, that a bound session can be routed is a  *)
(* fact about the table alone.                                             *)
LEMMA BindIsTable ==
    ASSUME TypeInv, TableInv
    PROVE  BindInv <=> BindTable
<1>1. /\ \A c \in Conns : byClient[c] # None => byClient[c] \in Sessions
      /\ \A c \in Conns : op[c].pc \in {"remember", "bind"} => op[c].sess \in Sessions
  BY StoredIsSession DEF TypeInv, TablesTyped, ReferencesTyped, Locals
<1> QED BY <1>1, RouteIsTable DEF BindInv, BoundIsAlive, NewIsAlive, BindTable, Alive

(* What the proofs about the bindings need of their types.                 *)
LEMMA BindBasics ==
    ASSUME TypeInv
    PROVE  /\ byClient \in [Conns -> {None} \cup DOMAIN disk]
           /\ stolen \subseteq Conns
BY DEF TypeInv, TablesTyped, ReferencesTyped

(* Steps after which what was alive is, and nothing new is bound.          *)
LEMMA BindFrame ==
    ASSUME TypeInv, BindTable, plugin' = plugin \/ plugin' # "up",
           plugin' = "up" => \A s \in DOMAIN disk : manager[s] # None => manager'[s] # None,
           reap' = reap \/ reap'.pc = "idle" \/ (reap.pc # "idle" /\ reap'.sess = reap.sess),
           \A c \in Conns : byClient'[c] \in {byClient[c], None},
           \A c \in Conns : op'[c].pc \in {"remember", "bind"} =>
               op[c].pc \in {"remember", "bind"} /\ op'[c].sess = op[c].sess,
           stolen' = stolen
    PROVE  BindTable'
<1>1. /\ \A c \in Conns : byClient[c] \in {None} \cup DOMAIN disk
      /\ \A c \in Conns : op[c].pc \in {"remember", "bind"} => op[c].sess \in DOMAIN disk
      /\ reap.pc # "idle" => reap.sess # None
  BY Basics, BindBasics, OpBasics
<1>2. BoundIsApart'
  BY <1>1 DEF BindTable, BoundIsApart
<1>3. ASSUME plugin' = "up", NEW c \in Conns \ stolen, byClient'[c] # None
      PROVE  manager'[byClient'[c]] # None
  BY <1>1, <1>3 DEF BindTable, Alive
<1>4. ASSUME plugin' = "up", NEW c \in Conns \ stolen, op'[c].pc \in {"remember", "bind"}
      PROVE  manager'[op'[c].sess] # None /\ (reap'.pc # "idle" => op'[c].sess # reap'.sess)
  BY <1>1, <1>4 DEF BindTable, Alive
<1> QED BY <1>2, <1>3, <1>4 DEF BindTable, Alive

(* An evaluation, given the bindings it looked at.                         *)
LEMMA BindEvaluates ==
    ASSUME TypeInv, BindTable, NEW s \in DOMAIN disk, NEW rts, reap = NoReap, plugin' = plugin,
           Keeps(s, byClient', rts) \/ Suspends(s, byClient', rts) \/ Begins(s, byClient', rts),
           \A t \in DOMAIN disk : manager[t] # None => manager'[t] # None,
           \A c \in Conns \ stolen :
             plugin = "up" /\ byClient'[c] # None => manager'[byClient'[c]] # None,
           \A c \in Conns : op'[c].pc \in {"remember", "bind"} =>
               op[c].pc \in {"remember", "bind"} /\ op'[c].sess = op[c].sess
    PROVE  BindTable'
<1>1. \A c \in Conns : op[c].pc \in {"remember", "bind"} => op[c].sess \in DOMAIN disk
  BY OpBasics
<1>2. CASE UNCHANGED <<reap, stolen>>
  BY <1>1, <1>2 DEF BindTable, BoundIsApart, Alive, NoReap
<1>3. CASE Begins(s, byClient', rts)
  <2>1. /\ reap' = [pc |-> "remove", sess |-> s, rt |-> manager[s]]
        /\ stolen' = stolen \cup Creating(s) /\ \A c \in Conns : byClient'[c] # s
    BY <1>3 DEF Begins, Held
  <2>2. \A c \in Conns \ stolen' : op[c].pc \in {"remember", "bind"} => op[c].sess # s
    BY <2>1 DEF Creating
  <2> QED BY <1>1, <2>1, <2>2 DEF BindTable, BoundIsApart, Alive
<1> QED BY <1>2, <1>3 DEF Keeps, Suspends

(* Every step keeps the bound sessions in the table.                       *)
LEMMA BindTableStep == TypeInv /\ TableInv /\ BindTable /\ [Next]_vars => BindTable'
<1> SUFFICES ASSUME TypeInv /\ TableInv /\ BindTable, [Next]_vars PROVE BindTable'
  OBVIOUS
<1> USE LifecycleAssumption DEF repoVars, tableVars, refVars, connVars, promptVars, stopVars, historyVars
<1>1. CASE ReapRemove
  <2>1. /\ manager' = [manager EXCEPT ![reap.sess] = None] /\ reap' = [reap EXCEPT !.pc = "events"]
        /\ reap.pc = "remove" /\ UNCHANGED <<plugin, byClient, op, stolen>>
    BY <1>1 DEF ReapRemove
  <2>2. reap'.pc = "events" /\ reap'.sess = reap.sess
    BY <2>1 DEF TypeInv, TablesTyped, HandlersTyped
  <2> QED BY <2>1, <2>2, Basics, BindBasics, OpBasics DEF BindTable, BoundIsApart, Alive
<1>2. CASE ReapCloseEvents
  <2>1. /\ reap.pc = "events" /\ reap' = [reap EXCEPT !.pc = "store"]
        /\ UNCHANGED <<manager, plugin, byClient, op, stolen>>
    BY <1>2 DEF ReapCloseEvents
  <2>2. reap'.sess = reap.sess
    BY <2>1 DEF TypeInv, TablesTyped, HandlersTyped
  <2> QED BY <2>1, <2>2, BindFrame
<1>3. CASE ReapCloseStore
  BY <1>3, BindFrame, BindBasics, OpBasics DEF ReapCloseStore, NoReap
<1>4. ASSUME NEW c \in Conns, RequestNew(c) PROVE BindTable'
  BY <1>4, BindFrame, BindBasics, OpBasics DEF RequestNew, Request, NoOp
<1>5. ASSUME NEW c \in Conns, CreateBoundSession(c) PROVE BindTable'
  <2>a. NewId \in Sessions /\ NewId \notin DOMAIN disk /\ NewId # None
    BY <1>5, NewSessionAdded DEF CreateBoundSession
  <2>b. UNCHANGED <<plugin, reap, byClient, stolen>>
    BY <1>5 DEF CreateBoundSession
  <2>c. CASE managerOpen
    <3>1. manager' = [manager EXCEPT ![NewId] = NewRt] /\ op' = [op EXCEPT ![c] = [pc |-> "remember", sess |-> NewId]]
      BY <1>5, <2>c DEF CreateBoundSession
    <3>2. NewRt # None
      BY RuntimeIsTyped DEF NewRt, None
    <3> HIDE DEF NewId, NewRt
    <3> QED BY <2>a, <2>b, <3>1, <3>2, Basics, BindBasics, OpBasics
      DEF BindTable, BoundIsApart, Alive
  <2>d. CASE ~managerOpen
    BY <1>5, <2>b, <2>d, BindFrame, OpBasics DEF CreateBoundSession, NoOp
  <2> QED BY <2>c, <2>d
<1>6. ASSUME NEW c \in Conns, SetBinding(c) PROVE BindTable'
  <2>a. UNCHANGED <<manager, plugin, reap, byClient, stolen>>
    BY <1>6 DEF SetBinding
  <2>b. \A d \in Conns : op'[d].pc \in {"remember", "bind"} =>
            op[d].pc \in {"remember", "bind"} /\ op'[d].sess = op[d].sess
    BY <1>6, OpBasics DEF SetBinding, NoOp
  <2> QED BY <2>a, <2>b, BindFrame
<1>7. ASSUME NEW c \in Conns, BindConnectionSession(c) PROVE BindTable'
  <2> DEFINE s == op[c].sess
             prev == byClient[c]
  <2>a. s \in DOMAIN disk /\ rt \in Seq(RuntimeStates) /\ prev = byClient[c] /\ Rebind(c, s, rt)
    BY <1>7 DEF BindConnectionSession, TypeInv, TablesTyped, StoresTyped, Locals
  <2>b. /\ byClient' = [byClient EXCEPT ![c] = s] /\ reap = NoReap
        /\ UNCHANGED <<manager, plugin>>
    BY <1>7 DEF BindConnectionSession, Rebind
  <2>c. plugin = "up" /\ c \notin stolen => manager[s] # None
    BY <1>7 DEF BindConnectionSession, BindTable, Alive
  <2>d. \A d \in Conns : op'[d].pc \in {"remember", "bind"} =>
            op[d].pc \in {"remember", "bind"} /\ op'[d].sess = op[d].sess
    BY <1>7, OpBasics DEF BindConnectionSession, NoOp
  <2> HIDE DEF s, prev
  <2>g. \A d \in Conns \ stolen :
            plugin = "up" /\ byClient'[d] # None => manager'[byClient'[d]] # None
    BY <2>b, <2>c, BindBasics DEF BindTable, Alive
  <2>e. CASE prev \in {None, s}
    <3>1. UNCHANGED <<reap, stolen>>
      BY <2>a, <2>b, <2>d, <2>g, <2>e DEF Rebind
    <3> QED BY <2>a, <2>b, <2>d, <2>g, <2>e, <3>1, OpBasics
      DEF BindTable, BoundIsApart, Alive, NoReap
  <2>f. CASE prev \notin {None, s}
    <3>1. prev \in DOMAIN disk /\ Evaluate(prev, byClient', rt)
      BY <2>a, <2>b, <2>d, <2>g, <2>f DEF Rebind, TypeInv, TablesTyped, ReferencesTyped
    <3>2. Keeps(prev, byClient', rt) \/ Suspends(prev, byClient', rt) \/ Begins(prev, byClient', rt)
      BY <2>a, <2>b, <2>d, <2>g, <3>1, EvaluationCases
    <3> QED BY <2>a, <2>b, <2>d, <2>g, <3>1, <3>2, BindEvaluates
  <2> QED BY <2>e, <2>f
<1>8. ASSUME NEW c \in Conns, NEW s \in Sessions, RequestLoad(c, s) PROVE BindTable'
  BY <1>8, BindFrame, BindBasics, OpBasics DEF RequestLoad, Request, NoOp
<1>9. ASSUME NEW c \in Conns, SessionArchived(c) PROVE BindTable'
  BY <1>9, BindFrame, BindBasics, OpBasics DEF SessionArchived, Advance
<1>10. ASSUME NEW c \in Conns, ArchivedSessionHistory(c) PROVE BindTable'
  BY <1>10, BindFrame, BindBasics, OpBasics DEF ArchivedSessionHistory, Advance, Answer, NoOp
<1>11. ASSUME NEW c \in Conns, Evict(c) PROVE BindTable'
  BY <1>11, BindFrame, BindBasics, OpBasics DEF Evict, Answer, NoOp
<1>12. ASSUME NEW c \in Conns, LoadRouted(c) PROVE BindTable'
  <2> DEFINE s == op[c].sess
             prev == byClient[c]
  <2>a. s \in DOMAIN disk /\ rt \in Seq(RuntimeStates) /\ prev = byClient[c] /\ Rebind(c, s, rt)
    BY <1>12 DEF LoadRouted, TypeInv, TablesTyped, StoresTyped, Locals
  <2>b. /\ byClient' = [byClient EXCEPT ![c] = s] /\ reap = NoReap
        /\ UNCHANGED <<manager, plugin>>
    BY <1>12 DEF LoadRouted, Rebind
  <2>c. plugin = "up" /\ c \notin stolen => manager[s] # None
    BY <1>12, <2>a, RouteIsTable, StoredIsSession DEF LoadRouted
  <2>d. \A d \in Conns : op'[d].pc \in {"remember", "bind"} =>
            op[d].pc \in {"remember", "bind"} /\ op'[d].sess = op[d].sess
    BY <1>12, OpBasics DEF LoadRouted, Advance
  <2> HIDE DEF s, prev
  <2>g. \A d \in Conns \ stolen :
            plugin = "up" /\ byClient'[d] # None => manager'[byClient'[d]] # None
    BY <2>b, <2>c, BindBasics DEF BindTable, Alive
  <2>e. CASE prev \in {None, s}
    <3>1. UNCHANGED <<reap, stolen>>
      BY <2>a, <2>b, <2>d, <2>g, <2>e DEF Rebind
    <3> QED BY <2>a, <2>b, <2>d, <2>g, <2>e, <3>1, OpBasics
      DEF BindTable, BoundIsApart, Alive, NoReap
  <2>f. CASE prev \notin {None, s}
    <3>1. prev \in DOMAIN disk /\ Evaluate(prev, byClient', rt)
      BY <2>a, <2>b, <2>d, <2>g, <2>f DEF Rebind, TypeInv, TablesTyped, ReferencesTyped
    <3>2. Keeps(prev, byClient', rt) \/ Suspends(prev, byClient', rt) \/ Begins(prev, byClient', rt)
      BY <2>a, <2>b, <2>d, <2>g, <3>1, EvaluationCases
    <3> QED BY <2>a, <2>b, <2>d, <2>g, <3>1, <3>2, BindEvaluates
  <2> QED BY <2>e, <2>f
<1>13. ASSUME NEW c \in Conns, LoadReopened(c) PROVE BindTable'
  <2> DEFINE s == op[c].sess
             prev == byClient[c]
             rts == Append(rt, Runtime(s, disk[s] = "archived"))
  <2>a. /\ s \in DOMAIN disk /\ s \in Sessions /\ prev = byClient[c] /\ reap = NoReap
        /\ UNCHANGED plugin
    BY <1>13, StoredIsSession DEF LoadReopened, TypeInv, Locals
  <2>b. Added(rts, s, disk[s] = "archived") /\ DOMAIN rt \subseteq DOMAIN rts
    <3>1. Added(rts, s, disk[s] = "archived")
      BY <2>a, RuntimesStay, AppendAdds
    <3> QED BY <3>1 DEF Added
  <2>c. CASE ~managerOpen
    <3>1. op' = [op EXCEPT ![c] = NoOp] /\ UNCHANGED <<manager, byClient, reap, stolen>>
      BY <1>13, <2>c DEF LoadReopened, Answer
    <3> QED BY <2>a, <3>1, BindFrame, OpBasics DEF NoOp
  <2>d. CASE managerOpen
    <3>a. /\ manager' = [manager EXCEPT ![s] = NewRt] /\ Rebind(c, s, rts)
          /\ byClient' = [byClient EXCEPT ![c] = s]
      BY <1>13, <2>d DEF LoadReopened, Rebind
    <3>b. \A d \in Conns : op'[d].pc \in {"remember", "bind"} =>
              op[d].pc \in {"remember", "bind"} /\ op'[d].sess = op[d].sess
      BY <1>13, <2>d, OpBasics DEF LoadReopened, Advance
    <3> HIDE DEF s, prev, rts
    <3>c. NewRt # None
      BY RuntimeIsTyped DEF NewRt, None
    <3>d. \A t \in DOMAIN disk : manager[t] # None => manager'[t] # None
      BY <2>a, <3>a, <3>c, Basics
    <3>g. \A d \in Conns \ stolen :
              plugin = "up" /\ byClient'[d] # None => manager'[byClient'[d]] # None
      BY <2>a, <3>a, <3>c, <3>d, Basics, BindBasics DEF BindTable, Alive
    <3>e. CASE prev \in {None, s}
      <4>1. UNCHANGED <<reap, stolen>>
        BY <2>a, <2>b, <3>a, <3>b, <3>d, <3>g, <3>e DEF Rebind
      <4> QED BY <2>a, <2>b, <3>a, <3>b, <3>d, <3>g, <3>e, <4>1, OpBasics
        DEF BindTable, BoundIsApart, Alive, NoReap
    <3>f. CASE prev \notin {None, s}
      <4>1. prev \in DOMAIN disk /\ Evaluate(prev, byClient', rts)
        BY <2>a, <2>b, <3>a, <3>b, <3>d, <3>g, <3>f DEF Rebind, TypeInv, TablesTyped, ReferencesTyped
      <4>2. Keeps(prev, byClient', rts) \/ Suspends(prev, byClient', rts) \/ Begins(prev, byClient', rts)
        BY <2>a, <2>b, <3>a, <3>b, <3>d, <3>g, <4>1, EvaluationCases DEF Added
      <4> QED BY <2>a, <2>b, <3>a, <3>b, <3>d, <3>g, <4>1, <4>2, BindEvaluates
    <3> QED BY <3>e, <3>f
  <2> QED BY <2>c, <2>d
<1>14. ASSUME NEW s \in Sessions, StartRun(s) PROVE BindTable'
  BY <1>14, BindFrame, BindBasics, OpBasics DEF StartRun
<1>15. ASSUME NEW c \in Callers, StartRunSync(c) PROVE BindTable'
  BY <1>15, BindFrame, BindBasics, OpBasics DEF StartRunSync
<1>16. ASSUME NEW r \in DOMAIN rt, AcceptRun(r) PROVE BindTable'
  BY <1>16, BindFrame, BindBasics, OpBasics DEF AcceptRun
<1>17. ASSUME NEW r \in DOMAIN rt, RollbackRun(r) PROVE BindTable'
  BY <1>17, BindFrame, BindBasics, OpBasics DEF RollbackRun
<1>18. ASSUME NEW r \in DOMAIN rt, AcquireRun(r) PROVE BindTable'
  BY <1>18, BindFrame, BindBasics, OpBasics DEF AcquireRun
<1>19. ASSUME NEW r \in DOMAIN rt, FinalizeRun(r) PROVE BindTable'
  BY <1>19, BindFrame, BindBasics, OpBasics DEF FinalizeRun
<1>20. ASSUME NEW r \in DOMAIN rt, onSessionRunDone(r) PROVE BindTable'
  <2>a. PICK freed :
             /\ SameRuntimes(freed) /\ \A q \in DOMAIN rt : Alike(freed[q], rt[q])
             /\ rt[r].sess \in DOMAIN disk
             /\ IF rt[r].sess \in suspended THEN Evaluate(rt[r].sess, byClient, freed)
                ELSE rt' = freed /\ UNCHANGED <<suspended, reap, historyVars>>
    BY <1>20, HookEvaluates
  <2>b. reap = NoReap /\ UNCHANGED <<manager, plugin, byClient, op>>
    BY <1>20 DEF onSessionRunDone
  <2>c. CASE rt[r].sess \notin suspended
    BY <2>a, <2>b, <2>c, BindFrame
  <2>d. CASE rt[r].sess \in suspended
    <3> DEFINE s == rt[r].sess
    <3>1. s \in DOMAIN disk
      BY <2>a
    <3>2. Keeps(s, byClient', freed) \/ Suspends(s, byClient', freed) \/ Begins(s, byClient', freed)
      BY <2>a, <2>b, <2>d, EvaluationCases DEF SameRuntimes
    <3> HIDE DEF s
    <3> QED BY <2>b, <3>1, <3>2, BindEvaluates DEF BindTable, Alive
  <2> QED BY <2>c, <2>d
<1>21. CASE FinalizerEnds
  BY <1>21, BindFrame, BindBasics, OpBasics DEF FinalizerEnds
<1>22. ASSUME NEW s \in Sessions, ArchiveMounted(s) PROVE BindTable'
  BY <1>22, BindFrame, BindBasics, OpBasics DEF ArchiveMounted, NoReap
<1>23. ASSUME NEW s \in Sessions, ArchiveStored(s) PROVE BindTable'
  BY <1>23, BindFrame, BindBasics, OpBasics DEF ArchiveStored, NoReap
<1>24. CASE StopBegin
  BY <1>24, BindFrame, BindBasics, OpBasics DEF StopBegin, StopStep
<1>25. CASE StopManager
  BY <1>25, BindFrame, BindBasics, OpBasics DEF StopManager, StopStep
<1>26. CASE StopCommands
  BY <1>26, BindFrame, BindBasics, OpBasics DEF StopCommands, StopStep
<1>27. CASE StopMemory
  BY <1>27, BindFrame, BindBasics, OpBasics DEF StopMemory, StopStep
<1>28. CASE StopStores
  BY <1>28, BindFrame, BindBasics, OpBasics DEF StopStores, StopStep
<1>29. ASSUME NEW c \in Conns, ConnClose(c) PROVE BindTable'
  BY <1>29, BindFrame, BindBasics, OpBasics DEF ConnClose
<1>30. ASSUME NEW c \in Conns, ReleaseConnection(c) PROVE BindTable'
  BY <1>30, BindFrame, BindBasics, OpBasics DEF ReleaseConnection
<1>31. ASSUME NEW c \in Conns, TryReleaseSession(c) PROVE BindTable'
  <2>b. reap = NoReap /\ UNCHANGED <<manager, plugin, byClient, op>>
    BY <1>31 DEF TryReleaseSession
  <2>c. CASE left[c] = None
    BY <1>31, <2>b, <2>c, BindFrame DEF TryReleaseSession
  <2>d. CASE left[c] # None
    <3>a. left[c] \in DOMAIN disk /\ rt \in Seq(RuntimeStates)
      BY <2>d DEF TypeInv, TablesTyped, ReferencesTyped, StoresTyped
    <3>b. \/ Keeps(left[c], byClient', rt) \/ Suspends(left[c], byClient', rt)
          \/ Begins(left[c], byClient', rt)
      BY <1>31, <2>b, <2>d, <3>a, EvaluationCases DEF TryReleaseSession
    <3> QED BY <2>b, <3>a, <3>b, BindEvaluates DEF BindTable, Alive
  <2> QED BY <2>c, <2>d
<1>32. ASSUME NEW c \in Conns, NEW s \in Sessions, SubscribeEvents(c, s) PROVE BindTable'
  BY <1>32, BindFrame, BindBasics, OpBasics DEF SubscribeEvents
<1>33. ASSUME NEW c \in Conns, EnsureHub(c) PROVE BindTable'
  BY <1>33, BindFrame, BindBasics, OpBasics DEF EnsureHub
<1>34. ASSUME NEW c \in Callers, EnterNew(c) PROVE BindTable'
  BY <1>34, BindFrame, BindBasics, OpBasics DEF EnterNew
<1>35. ASSUME NEW c \in Callers, GiveUpNew(c) PROVE BindTable'
  BY <1>35, BindFrame, BindBasics, OpBasics DEF GiveUpNew
<1>36. ASSUME NEW c \in Callers, startSession(c) PROVE BindTable'
  <2>a. NewId \in Sessions /\ NewId \notin DOMAIN disk
    BY <1>36, NewSessionAdded DEF startSession
  <2>b. /\ manager' = [manager EXCEPT ![NewId] = IF managerOpen THEN NewRt ELSE None]
        /\ UNCHANGED <<plugin, reap, byClient, op, stolen>>
    BY <1>36 DEF startSession
  <2> HIDE DEF NewId
  <2> QED BY <2>a, <2>b, BindFrame, Basics
<1>37. ASSUME NEW c \in Callers, UnbindSession(c) PROVE BindTable'
  <2>a. (\A d \in Conns : byClient'[d] \in {byClient[d], None}) /\ UNCHANGED <<manager, plugin, reap, op, stolen>>
    BY <1>37, BindBasics DEF UnbindSession
  <2> QED BY <2>a, BindFrame
<1>38. ASSUME NEW c \in Callers, ReleaseOld(c) PROVE BindTable'
  <2> DEFINE s == rt[prompt[c].rt].sess
  <2>a. s \in DOMAIN disk /\ rt \in Seq(RuntimeStates)
    BY <1>38 DEF ReleaseOld, TypeInv, TablesTyped, StoresTyped, Locals
  <2>b. reap = NoReap /\ UNCHANGED <<manager, plugin, byClient, op>>
    BY <1>38 DEF ReleaseOld
  <2>c. Keeps(s, byClient', rt) \/ Suspends(s, byClient', rt) \/ Begins(s, byClient', rt)
    BY <1>38, <2>a, <2>b, EvaluationCases DEF ReleaseOld
  <2> HIDE DEF s
  <2> QED BY <2>a, <2>b, <2>c, BindEvaluates DEF BindTable, Alive
<1>39. ASSUME NEW c \in Callers, ClearBinding(c) PROVE BindTable'
  BY <1>39, BindFrame, BindBasics, OpBasics DEF ClearBinding
<1>40. CASE UNCHANGED vars
  BY <1>40, BindFrame, BindBasics, OpBasics DEF vars, vars
<1>41. ASSUME NEW r \in DOMAIN rt, Reserve(r) PROVE BindTable'
  BY <1>41, BindFrame, BindBasics, OpBasics DEF Reserve
<1>42. ASSUME NEW c \in Callers, ReserveSync(c) PROVE BindTable'
  BY <1>42, BindFrame, BindBasics, OpBasics DEF ReserveSync
<1>43. ASSUME NEW r \in DOMAIN rt, CloseAwaits(r) PROVE BindTable'
  BY <1>43, BindFrame, BindBasics, OpBasics DEF CloseAwaits
<1> QED
  BY <1>1, <1>2, <1>3, <1>4, <1>5, <1>6, <1>7, <1>8, <1>9, <1>10, <1>11, <1>12, <1>13, <1>14,
     <1>15, <1>16, <1>17, <1>18, <1>19, <1>20, <1>21, <1>22, <1>23, <1>24, <1>25, <1>26, <1>27,
     <1>28, <1>29, <1>30, <1>31, <1>32, <1>33, <1>34, <1>35, <1>36, <1>37, <1>38, <1>39, <1>40,
     <1>41, <1>42, <1>43
  DEF Next, Release, Runs, Archive, Stop, Requests, Connection, NewCommand

-----------------------------------------------------------------------------
(* Releases *)

(* A session that is referenced, or whose evaluation is pending.           *)
Owes(t) == Referenced(t) \/ EvaluationPending(t)

ConnOwes(c, t) == left[c] = t \/ (op[c].sess = t /\ op[c].pc \in {"remember", "bind"})
PromptOwes(c, t) == prompt[c].pc \in {"unbind", "release"} /\ rt[prompt[c].rt].sess = t
HookOwes(t) == t \in suspended /\ (rt[manager[t]].active # "none" \/ manager[t] \in hooks)

(* Who owes a session its release: one connection, one caller, the current *)
(* session, the reaper or a hook.                                          *)
LEMMA OwesIsOne ==
    ASSUME NEW t
    PROVE  Owes(t) <=> \/ \E c \in Conns : byClient[c] = t \/ ConnOwes(c, t)
                       \/ \E c \in Callers : PromptOwes(c, t)
                       \/ manager[t] = current \/ reap.sess = t \/ HookOwes(t)
BY DEF Owes, Referenced, EvaluationPending, ConnOwes, PromptOwes, HookOwes

(* The property, in these words.                                           *)
LEMMA OwedIsOwes ==
    ReleaseIsOwed <=> \A t \in DOMAIN disk : manager[t] # None /\ t \notin lapsed => Owes(t)
BY DEF ReleaseIsOwed, Owes

(* Nothing a session is owed by goes away unless something else owes it.   *)
LEMMA OwesStays ==
    ASSUME TypeInv, NEW t \in DOMAIN disk, Owes(t), manager'[t] = manager[t], manager[t] # None,
           \A c \in Conns : byClient[c] = t => byClient'[c] = t \/ Owes(t)',
           \A c \in Conns : ConnOwes(c, t) => ConnOwes(c, t)' \/ Owes(t)',
           \A c \in Callers : PromptOwes(c, t) => PromptOwes(c, t)' \/ Owes(t)',
           manager[t] = current => current' = current \/ Owes(t)',
           reap.sess = t => reap'.sess = t,
           HookOwes(t) => HookOwes(t)' \/ Owes(t)'
    PROVE  Owes(t)'
<1>1. Owes(t)' <=> \/ \E c \in Conns : byClient'[c] = t \/ ConnOwes(c, t)'
                   \/ \E c \in Callers : PromptOwes(c, t)'
                   \/ manager'[t] = current' \/ reap'.sess = t \/ HookOwes(t)'
  BY DEF Owes, Referenced, EvaluationPending, ConnOwes, PromptOwes, HookOwes
<1>2. CASE \E c \in Conns : byClient[c] = t \/ ConnOwes(c, t)
  BY <1>1, <1>2
<1>3. CASE \E c \in Callers : PromptOwes(c, t)
  BY <1>1, <1>3
<1>4. CASE manager[t] = current \/ reap.sess = t \/ HookOwes(t)
  BY <1>1, <1>4
<1> QED BY <1>2, <1>3, <1>4, OwesIsOne

(* Steps that take no reference away and end nothing that will evaluate.   *)
LEMMA OwedFrame ==
    ASSUME TypeInv, ReleaseIsOwed, UNCHANGED <<manager, byClient, current, left, suspended>>,
           DOMAIN disk' = DOMAIN disk, lapsed \subseteq lapsed', reap'.sess = reap.sess,
           \A q \in DOMAIN rt :
             /\ rt'[q].sess = rt[q].sess
             /\ rt[q].active # "none" /\ rt[q].sess \in suspended =>
                  rt'[q].active # "none" \/ q \in hooks' \/ rt[q].sess \in lapsed',
           TableNames, hooks \subseteq hooks',
           \A c \in Conns : op[c].pc \in {"remember", "bind"} =>
             op'[c].pc \in {"remember", "bind"} /\ op'[c].sess = op[c].sess,
           \A c \in Callers : prompt[c].pc \in {"unbind", "release"} =>
             prompt'[c].pc \in {"unbind", "release"} /\ prompt'[c].rt = prompt[c].rt
    PROVE  ReleaseIsOwed'
<1> SUFFICES ASSUME NEW t \in DOMAIN disk, manager[t] # None, t \notin lapsed'
             PROVE  Owes(t)'
  BY DEF ReleaseIsOwed, Owes
<1>1. Owes(t) /\ manager[t] \in DOMAIN rt /\ rt[manager[t]].sess = t
  BY OwedIsOwes, Basics DEF TableNames
<1>2. \A c \in Conns : ConnOwes(c, t) => ConnOwes(c, t)'
  BY DEF ConnOwes
<1>3. \A c \in Callers : PromptOwes(c, t) => PromptOwes(c, t)'
  BY PromptBasics DEF PromptOwes
<1>4. HookOwes(t) => HookOwes(t)'
  BY <1>1 DEF HookOwes
<1> QED BY <1>1, <1>2, <1>3, <1>4, OwesStays

(* The session that was evaluated is released, suspended or referenced.    *)
LEMMA EvaluatedIsOwed ==
    ASSUME TypeInv, NEW s \in DOMAIN disk, NEW rts, DOMAIN rt \subseteq DOMAIN rts,
           Keeps(s, byClient', rts) \/ Suspends(s, byClient', rts) \/ Begins(s, byClient', rts),
           manager'[s] = manager[s], manager[s] # None, current' = current
    PROVE  Owes(s)'
<1>1. CASE Keeps(s, byClient', rts)
  BY <1>1 DEF Keeps, Held, Owes, Referenced
<1>2. CASE Suspends(s, byClient', rts)
  BY <1>2 DEF Suspends, Owes, EvaluationPending
<1>3. CASE Begins(s, byClient', rts)
  BY <1>3 DEF Begins, Owes, EvaluationPending
<1> QED BY <1>1, <1>2, <1>3

(* What came of an evaluation of s among the bindings of the next state.   *)
Evaluated(s, rts) ==
    /\ lapsed' = lapsed \ {s}
    /\ Keeps(s, byClient', rts) \/ Suspends(s, byClient', rts) \/ Begins(s, byClient', rts)

(* The evaluation of s leaves the others owed what they were.              *)
LEMMA OwedEvaluates ==
    ASSUME TypeInv, TableInv, ReleaseIsOwed, NEW s \in DOMAIN disk, NEW rts \in Seq(RuntimeStates),
           DOMAIN rt \subseteq DOMAIN rts, reap = NoReap,
           \A q \in DOMAIN rt : rts[q].sess = rt[q].sess /\ rts[q].active = rt[q].active,
           Evaluated(s, rts),
           UNCHANGED <<disk, current>>,
           \A t \in DOMAIN disk : manager'[t] = manager[t] \/ Owes(t)',
           manager'[s] = manager[s],
           \A t \in DOMAIN disk, c \in Conns : t # s =>
             /\ byClient[c] = t => byClient'[c] = t \/ Owes(t)'
             /\ ConnOwes(c, t) => ConnOwes(c, t)' \/ Owes(t)',
           \A c \in Callers :
             prompt[c].pc \in {"unbind", "release"} /\ rt[prompt[c].rt].sess # s =>
               prompt'[c].pc \in {"unbind", "release"} /\ prompt'[c].rt = prompt[c].rt,
           \A t \in DOMAIN disk : t # s /\ manager[t] \in hooks => manager[t] \in hooks'
    PROVE  ReleaseIsOwed'
<1>1. /\ lapsed' = lapsed \ {s}
      /\ Keeps(s, byClient', rts) \/ Suspends(s, byClient', rts) \/ Begins(s, byClient', rts)
  BY DEF Evaluated
<1>2. /\ suspended' \in {suspended \ {s}, suspended \cup {s}}
      /\ \A q \in DOMAIN rt : rt'[q].sess = rt[q].sess /\ rt'[q].active = rt[q].active
  BY <1>1 DEF Keeps, Suspends, Begins, Retired
<1> SUFFICES ASSUME NEW t \in DOMAIN disk, manager'[t] # None, t \notin lapsed', ~Owes(t)'
             PROVE  FALSE
  BY DEF ReleaseIsOwed, Owes
<1>3. CASE t = s
  BY <1>1, <1>3, EvaluatedIsOwed
<1>4. CASE t # s
  <2>1. manager'[t] = manager[t] /\ manager[t] \in DOMAIN rt /\ Owes(t)
    BY <1>1, <1>4, OwedIsOwes, Basics
  <2>2. \A c \in Callers : PromptOwes(c, t) => PromptOwes(c, t)'
    BY <1>2, <1>4, PromptBasics DEF PromptOwes
  <2>3. HookOwes(t) => HookOwes(t)'
    BY <1>2, <1>4, <2>1 DEF HookOwes
  <2>4. reap.sess # t
    BY Basics DEF NoReap
  <2> QED BY <1>4, <2>1, <2>2, <2>3, <2>4, OwesStays
<1> QED BY <1>3, <1>4

(* Every step leaves somebody to release a registered session.             *)
LEMMA OwedStep == TypeInv /\ TableInv /\ ReleaseIsOwed /\ [Next]_vars => ReleaseIsOwed'
<1> SUFFICES ASSUME TypeInv /\ TableInv /\ ReleaseIsOwed, [Next]_vars PROVE ReleaseIsOwed'
  OBVIOUS
<1> USE LifecycleAssumption DEF repoVars, tableVars, refVars, connVars, promptVars, stopVars, historyVars
<1>1. CASE ReapRemove
  <2>1. /\ reap.pc = "remove" /\ manager' = [manager EXCEPT ![reap.sess] = None]
        /\ UNCHANGED <<disk, lapsed, rt, byClient, current, left, op, prompt, suspended, hooks>>
    BY <1>1 DEF ReapRemove
  <2> SUFFICES ASSUME NEW t \in DOMAIN disk, manager'[t] # None, t \notin lapsed
               PROVE  Owes(t)'
    BY <2>1 DEF ReleaseIsOwed, Owes
  <2>2. t # reap.sess /\ manager'[t] = manager[t] /\ Owes(t)
    BY <2>1, Basics, OwedIsOwes
  <2> QED BY <2>1, <2>2, OwesStays DEF ConnOwes, PromptOwes, HookOwes
<1>2. CASE ReapCloseEvents
  <2>a. Edited(reap.rt, rt[reap.rt].active, rt[reap.rt].archived)
    BY <1>2, ReapEventsEdits
  <2>b. reap'.sess = reap.sess
    BY <1>2 DEF ReapCloseEvents, TypeInv, TablesTyped, HandlersTyped
  <2> QED
    BY <1>2, <2>a, <2>b, OwedFrame DEF ReapCloseEvents, TableInv, Edited, Alike
<1>3. CASE ReapCloseStore
  <2>1. /\ reap.pc = "store" /\ \A q \in DOMAIN rt : rt'[q].sess = rt[q].sess /\ rt'[q].active = rt[q].active
        /\ UNCHANGED <<disk, manager, lapsed, byClient, current, left, op, prompt, suspended, hooks>>
    BY <1>3, CloseEdit DEF ReapCloseStore
  <2> SUFFICES ASSUME NEW t \in DOMAIN disk, manager[t] # None, t \notin lapsed
               PROVE  Owes(t)'
    BY <2>1 DEF ReleaseIsOwed, Owes
  <2>2. t # reap.sess /\ Owes(t) /\ manager[t] \in DOMAIN rt
    BY <2>1, Basics, OwedIsOwes DEF TableInv, ReapIsApart
  <2>3. \A c \in Callers : PromptOwes(c, t) => PromptOwes(c, t)'
    BY <2>1, PromptBasics DEF PromptOwes
  <2> QED BY <2>1, <2>2, <2>3, OwesStays DEF ConnOwes, HookOwes
<1>4. ASSUME NEW c \in Conns, RequestNew(c) PROVE ReleaseIsOwed'
  BY <1>4, OwedFrame, Basics, OpBasics, PromptBasics DEF RequestNew, Request, NoOp, TableInv
<1>5. ASSUME NEW c \in Conns, CreateBoundSession(c) PROVE ReleaseIsOwed'
  <2>a. /\ NewId \in Sessions /\ NewId \notin DOMAIN disk /\ DOMAIN disk' = DOMAIN disk \cup {NewId}
    BY <1>5, NewSessionAdded DEF CreateBoundSession
  <2>b. UNCHANGED <<lapsed, byClient, current, left, prompt, suspended, hooks, reap>>
    BY <1>5 DEF CreateBoundSession
  <2>c. CASE managerOpen
    <3>1. rt' = Append(rt, Runtime(NewId, FALSE)) /\ manager' = [manager EXCEPT ![NewId] = NewRt]
          /\ op' = [op EXCEPT ![c] = [pc |-> "remember", sess |-> NewId]] /\ op[c].pc = "new"
      BY <1>5, <2>c DEF CreateBoundSession
    <3>2. \A q \in DOMAIN rt : Alike(rt'[q], rt[q])
      BY <2>a, <3>1, RuntimesStay, AppendAdds DEF Added
    <3> HIDE DEF NewId, NewRt
    <3> SUFFICES ASSUME NEW t \in DOMAIN disk', manager'[t] # None, t \notin lapsed
                 PROVE  Owes(t)'
      BY <2>b DEF ReleaseIsOwed, Owes
    <3>3. CASE t = NewId
      BY <3>1, <3>3, OpBasics DEF Owes, EvaluationPending
    <3>4. CASE t # NewId
      <4>1. t \in DOMAIN disk /\ manager'[t] = manager[t] /\ Owes(t) /\ manager[t] \in DOMAIN rt
        BY <2>a, <3>1, <3>4, Basics, OwedIsOwes
      <4>2. \A d \in Callers : PromptOwes(d, t) => PromptOwes(d, t)'
        BY <2>b, <3>2, PromptBasics DEF PromptOwes, Alike
      <4>3. \A d \in Conns : ConnOwes(d, t) => ConnOwes(d, t)'
        BY <2>b, <3>1, OpBasics DEF ConnOwes
      <4> QED BY <2>b, <3>2, <4>1, <4>2, <4>3, OwesStays DEF HookOwes, Alike
    <3> QED BY <3>3, <3>4
  <2>d. CASE ~managerOpen
    <3>1. UNCHANGED <<rt, manager>> /\ op' = [op EXCEPT ![c] = NoOp] /\ op[c].pc = "new"
          /\ manager[NewId] = None
      BY <1>5, <2>a, <2>d, Basics DEF CreateBoundSession, TableInv, TableNames
    <3> SUFFICES ASSUME NEW t \in DOMAIN disk', manager[t] # None, t \notin lapsed
                 PROVE  Owes(t)'
      BY <2>b, <3>1 DEF ReleaseIsOwed, Owes
    <3>2. t \in DOMAIN disk /\ Owes(t)
      BY <2>a, <3>1, OwedIsOwes
    <3>3. \A d \in Conns : ConnOwes(d, t) => ConnOwes(d, t)'
      BY <2>b, <3>1, OpBasics DEF ConnOwes
    <3> QED BY <2>b, <3>1, <3>2, <3>3, OwesStays DEF PromptOwes, HookOwes
  <2> QED BY <2>c, <2>d
<1>6. ASSUME NEW c \in Conns, SetBinding(c) PROVE ReleaseIsOwed'
  BY <1>6, OwedFrame, Basics, OpBasics, PromptBasics DEF SetBinding, NoOp, TableInv
<1>7. ASSUME NEW c \in Conns, BindConnectionSession(c) PROVE ReleaseIsOwed'
  <2>a. PICK s \in DOMAIN disk : s = op[c].sess /\ Rebind(c, s, rt) /\ rt \in Seq(RuntimeStates)
    BY <1>7 DEF BindConnectionSession, TypeInv, TablesTyped, StoresTyped, Locals
  <2>p. PICK prev : prev = byClient[c]
    OBVIOUS
  <2>b. /\ byClient' = [byClient EXCEPT ![c] = s] /\ reap = NoReap /\ prev = byClient[c]
        /\ UNCHANGED <<disk, manager, current, left, prompt, hooks>>
    BY <1>7, <2>a, <2>p DEF BindConnectionSession, Rebind
  <2>e. c \in Conns /\ byClient'[c] = s
    BY <2>b, BindBasics
  <2>c. Owes(s)'
    BY <2>e DEF Owes, Referenced
  <2>d. \A t \in DOMAIN disk, d \in Conns : ConnOwes(d, t) => ConnOwes(d, t)' \/ Owes(t)'
    BY <1>7, <2>a, <2>b, <2>c, OpBasics DEF BindConnectionSession, NoOp, ConnOwes
  <2>v. CASE prev \in {None, s}
    <3>1. rt' = rt /\ UNCHANGED <<suspended, reap, lapsed>>
      BY <2>a, <2>b, <2>c, <2>d, <2>v DEF Rebind
    <3> SUFFICES ASSUME NEW t \in DOMAIN disk, manager'[t] # None, t \notin lapsed
                 PROVE  Owes(t)'
      BY <2>a, <2>b, <2>c, <2>d, <3>1 DEF ReleaseIsOwed, Owes
    <3>2. CASE t = s
      BY <3>2, <2>a, <2>b, <2>c, <2>d
    <3>3. CASE t # s
      <4>1. manager'[t] = manager[t] /\ Owes(t) /\ manager[t] \in DOMAIN rt
        BY <2>a, <2>b, <2>c, <2>d, <3>3, OwedIsOwes, Basics
      <4>2. \A d \in Conns : byClient[d] = t => byClient'[d] = t
        BY <2>a, <2>b, <2>c, <2>d, <2>v, <3>3, BindBasics, Basics
      <4>3. \A d \in Callers : PromptOwes(d, t) => PromptOwes(d, t)'
        BY <2>a, <2>b, <2>c, <2>d, <3>1, PromptBasics DEF PromptOwes
      <4>4. HookOwes(t) => HookOwes(t)'
        BY <2>a, <2>b, <2>c, <2>d, <3>1, <4>1 DEF HookOwes
      <4> QED BY <2>a, <2>b, <2>c, <2>d, <3>1, <3>3, <4>1, <4>2, <4>3, <4>4, OwesStays
    <3> QED BY <3>2, <3>3
  <2>w. CASE prev \notin {None, s}
    <3>1. prev \in DOMAIN disk /\ Evaluate(prev, byClient', rt)
      BY <2>a, <2>b, <2>c, <2>d, <2>w DEF Rebind, TypeInv, TablesTyped, ReferencesTyped
    <3>2. /\ manager'[prev] = manager[prev]
          /\ \A t \in DOMAIN disk, d \in Conns : t # prev =>
               /\ byClient[d] = t => byClient'[d] = t \/ Owes(t)'
               /\ ConnOwes(d, t) => ConnOwes(d, t)' \/ Owes(t)'
      BY <2>a, <2>b, <2>c, <2>d, <2>w, <3>1, BindBasics
    <3>3. /\ rt \in Seq(RuntimeStates) /\ DOMAIN rt \subseteq DOMAIN rt /\ reap = NoReap
          /\ \A q \in DOMAIN rt : rt[q].sess = rt[q].sess /\ rt[q].active = rt[q].active
          /\ UNCHANGED <<disk, current>>
          /\ \A t \in DOMAIN disk : manager'[t] = manager[t] \/ Owes(t)'
      BY <2>a, <2>b, <2>c, <2>d
    <3>4. /\ \A d \in Callers :
               prompt[d].pc \in {"unbind", "release"} /\ rt[prompt[d].rt].sess # prev =>
                 prompt'[d].pc \in {"unbind", "release"} /\ prompt'[d].rt = prompt[d].rt
          /\ \A t \in DOMAIN disk : t # prev /\ manager[t] \in hooks => manager[t] \in hooks'
      BY <2>a, <2>b, <2>c, <2>d
    <3>5. Evaluated(prev, rt)
      BY <3>1, <3>3, EvaluationCases DEF Evaluated
    <3> QED BY <3>1, <3>2, <3>3, <3>4, <3>5, OwedEvaluates
  <2> QED BY <2>v, <2>w
<1>8. ASSUME NEW c \in Conns, NEW s \in Sessions, RequestLoad(c, s) PROVE ReleaseIsOwed'
  BY <1>8, OwedFrame, Basics, OpBasics, PromptBasics DEF RequestLoad, Request, NoOp, TableInv
<1>9. ASSUME NEW c \in Conns, SessionArchived(c) PROVE ReleaseIsOwed'
  BY <1>9, OwedFrame, Basics, OpBasics, PromptBasics DEF SessionArchived, Advance, TableInv
<1>10. ASSUME NEW c \in Conns, ArchivedSessionHistory(c) PROVE ReleaseIsOwed'
  BY <1>10, OwedFrame, Basics, OpBasics, PromptBasics
  DEF ArchivedSessionHistory, Advance, Answer, NoOp, TableInv
<1>11. ASSUME NEW c \in Conns, Evict(c) PROVE ReleaseIsOwed'
  <2>a. /\ SameRuntimes(rt')
        /\ \A q \in DOMAIN rt :
             /\ rt'[q].sess = rt[q].sess /\ rt'[q].retired = rt[q].retired
             /\ rt'[q].archived = rt[q].archived /\ rt'[q].active = rt[q].active
             /\ IF rt[q].sess = op[c].sess THEN ~rt'[q].open ELSE rt'[q].open = rt[q].open
    BY <1>11, CloseEdit DEF Evict
  <2> QED
    BY <1>11, <2>a, OwedFrame, Basics, OpBasics, PromptBasics DEF Evict, Answer, NoOp, TableInv
<1>12. ASSUME NEW c \in Conns, LoadRouted(c) PROVE ReleaseIsOwed'
  <2>a. PICK s \in DOMAIN disk : s = op[c].sess /\ Rebind(c, s, rt) /\ rt \in Seq(RuntimeStates)
    BY <1>12 DEF LoadRouted, TypeInv, TablesTyped, StoresTyped, Locals
  <2>p. PICK prev : prev = byClient[c]
    OBVIOUS
  <2>b. /\ byClient' = [byClient EXCEPT ![c] = s] /\ reap = NoReap /\ prev = byClient[c]
        /\ UNCHANGED <<disk, manager, current, left, prompt, hooks>>
    BY <1>12, <2>a, <2>p DEF LoadRouted, Rebind
  <2>e. c \in Conns /\ byClient'[c] = s
    BY <2>b, BindBasics
  <2>c. Owes(s)'
    BY <2>e DEF Owes, Referenced
  <2>d. \A t \in DOMAIN disk, d \in Conns : ConnOwes(d, t) => ConnOwes(d, t)' \/ Owes(t)'
    BY <1>12, <2>a, <2>b, <2>c, OpBasics DEF LoadRouted, Advance, ConnOwes
  <2>v. CASE prev \in {None, s}
    <3>1. rt' = rt /\ UNCHANGED <<suspended, reap, lapsed>>
      BY <2>a, <2>b, <2>c, <2>d, <2>v DEF Rebind
    <3> SUFFICES ASSUME NEW t \in DOMAIN disk, manager'[t] # None, t \notin lapsed
                 PROVE  Owes(t)'
      BY <2>a, <2>b, <2>c, <2>d, <3>1 DEF ReleaseIsOwed, Owes
    <3>2. CASE t = s
      BY <3>2, <2>a, <2>b, <2>c, <2>d
    <3>3. CASE t # s
      <4>1. manager'[t] = manager[t] /\ Owes(t) /\ manager[t] \in DOMAIN rt
        BY <2>a, <2>b, <2>c, <2>d, <3>3, OwedIsOwes, Basics
      <4>2. \A d \in Conns : byClient[d] = t => byClient'[d] = t
        BY <2>a, <2>b, <2>c, <2>d, <2>v, <3>3, BindBasics, Basics
      <4>3. \A d \in Callers : PromptOwes(d, t) => PromptOwes(d, t)'
        BY <2>a, <2>b, <2>c, <2>d, <3>1, PromptBasics DEF PromptOwes
      <4>4. HookOwes(t) => HookOwes(t)'
        BY <2>a, <2>b, <2>c, <2>d, <3>1, <4>1 DEF HookOwes
      <4> QED BY <2>a, <2>b, <2>c, <2>d, <3>1, <3>3, <4>1, <4>2, <4>3, <4>4, OwesStays
    <3> QED BY <3>2, <3>3
  <2>w. CASE prev \notin {None, s}
    <3>1. prev \in DOMAIN disk /\ Evaluate(prev, byClient', rt)
      BY <2>a, <2>b, <2>c, <2>d, <2>w DEF Rebind, TypeInv, TablesTyped, ReferencesTyped
    <3>2. /\ manager'[prev] = manager[prev]
          /\ \A t \in DOMAIN disk, d \in Conns : t # prev =>
               /\ byClient[d] = t => byClient'[d] = t \/ Owes(t)'
               /\ ConnOwes(d, t) => ConnOwes(d, t)' \/ Owes(t)'
      BY <2>a, <2>b, <2>c, <2>d, <2>w, <3>1, BindBasics
    <3>3. /\ rt \in Seq(RuntimeStates) /\ DOMAIN rt \subseteq DOMAIN rt /\ reap = NoReap
          /\ \A q \in DOMAIN rt : rt[q].sess = rt[q].sess /\ rt[q].active = rt[q].active
          /\ UNCHANGED <<disk, current>>
          /\ \A t \in DOMAIN disk : manager'[t] = manager[t] \/ Owes(t)'
      BY <2>a, <2>b, <2>c, <2>d
    <3>4. /\ \A d \in Callers :
               prompt[d].pc \in {"unbind", "release"} /\ rt[prompt[d].rt].sess # prev =>
                 prompt'[d].pc \in {"unbind", "release"} /\ prompt'[d].rt = prompt[d].rt
          /\ \A t \in DOMAIN disk : t # prev /\ manager[t] \in hooks => manager[t] \in hooks'
      BY <2>a, <2>b, <2>c, <2>d
    <3>5. Evaluated(prev, rt)
      BY <3>1, <3>3, EvaluationCases DEF Evaluated
    <3> QED BY <3>1, <3>2, <3>3, <3>4, <3>5, OwedEvaluates
  <2> QED BY <2>v, <2>w
<1>13. ASSUME NEW c \in Conns, LoadReopened(c) PROVE ReleaseIsOwed'
  <2>a. PICK s \in DOMAIN disk :
          /\ s \in Sessions /\ reap = NoReap /\ s = op[c].sess /\ op[c].pc = "loading"
          /\ UNCHANGED <<disk, current, left, prompt, hooks>>
    BY <1>13, StoredIsSession DEF LoadReopened, TypeInv, Locals
  <2>p. PICK prev : prev = byClient[c]
    OBVIOUS
  <2> DEFINE rts == Append(rt, Runtime(s, disk[s] = "archived"))
  <2>b. /\ rts \in Seq(RuntimeStates) /\ DOMAIN rt \subseteq DOMAIN rts
        /\ \A q \in DOMAIN rt : rts[q].sess = rt[q].sess /\ rts[q].active = rt[q].active
    <3>1. Added(rts, s, disk[s] = "archived")
      BY <2>a, RuntimesStay, AppendAdds
    <3> HIDE DEF rts
    <3> QED BY <3>1 DEF Added, Alike
  <2>c. CASE ~managerOpen
    <3>1. op' = [op EXCEPT ![c] = NoOp] /\ UNCHANGED <<rt, manager, suspended, lapsed, byClient, reap>>
      BY <1>13, <2>c DEF LoadReopened, Answer
    <3> QED BY <2>a, <3>1, OwedFrame, OpBasics DEF NoOp, TableInv
  <2>d. CASE managerOpen
    <3>a. /\ manager' = [manager EXCEPT ![s] = NewRt] /\ Rebind(c, s, rts)
          /\ byClient' = [byClient EXCEPT ![c] = s] /\ op' = [op EXCEPT ![c].pc = "loaded"]
          /\ prev = byClient[c]
      BY <1>13, <2>a, <2>d, <2>p DEF LoadReopened, Rebind, Advance
    <3>b. Owes(s)' /\ \A t \in DOMAIN disk : t # s => manager'[t] = manager[t]
      BY <2>a, <3>a, BindBasics, Basics DEF Owes, Referenced
    <3> HIDE DEF rts
    <3>d. \A t \in DOMAIN disk, d \in Conns : ConnOwes(d, t) => ConnOwes(d, t)' \/ Owes(t)'
      BY <2>a, <3>a, OpBasics DEF ConnOwes
    <3>e. \A t \in DOMAIN disk : manager'[t] = manager[t] \/ Owes(t)'
      BY <3>b
    <3>v. CASE prev \in {None, s}
      <4>1. rt' = rts /\ UNCHANGED <<suspended, reap, lapsed>>
        BY <2>a, <2>b, <3>a, <3>b, <3>d, <3>e, <3>v DEF Rebind
      <4> SUFFICES ASSUME NEW t \in DOMAIN disk, manager'[t] # None, t \notin lapsed
                   PROVE  Owes(t)'
        BY <2>a, <2>b, <3>a, <3>b, <3>d, <3>e, <4>1 DEF ReleaseIsOwed, Owes
      <4>2. CASE t = s
        BY <4>2, <2>a, <2>b, <3>a, <3>b, <3>d, <3>e
      <4>3. CASE t # s
        <5>1. manager'[t] = manager[t] /\ Owes(t) /\ manager[t] \in DOMAIN rt
          BY <2>a, <2>b, <3>a, <3>b, <3>d, <3>e, <4>3, OwedIsOwes, Basics
        <5>2. \A d \in Conns : byClient[d] = t => byClient'[d] = t
          BY <2>a, <2>b, <3>a, <3>b, <3>d, <3>e, <3>v, <4>3, BindBasics, Basics
        <5>3. \A d \in Callers : PromptOwes(d, t) => PromptOwes(d, t)'
          BY <2>a, <2>b, <3>a, <3>b, <3>d, <3>e, <4>1, PromptBasics DEF PromptOwes
        <5>4. HookOwes(t) => HookOwes(t)'
          BY <2>a, <2>b, <3>a, <3>b, <3>d, <3>e, <4>1, <5>1 DEF HookOwes
        <5> QED BY <2>a, <2>b, <3>a, <3>b, <3>d, <3>e, <4>1, <4>3, <5>1, <5>2, <5>3, <5>4, OwesStays
      <4> QED BY <4>2, <4>3
    <3>w. CASE prev \notin {None, s}
      <4>1. prev \in DOMAIN disk /\ Evaluate(prev, byClient', rts)
        BY <2>a, <2>b, <3>a, <3>b, <3>d, <3>e, <3>w DEF Rebind, TypeInv, TablesTyped, ReferencesTyped
      <4>2. /\ manager'[prev] = manager[prev]
            /\ \A t \in DOMAIN disk, d \in Conns : t # prev =>
                 /\ byClient[d] = t => byClient'[d] = t \/ Owes(t)'
                 /\ ConnOwes(d, t) => ConnOwes(d, t)' \/ Owes(t)'
        BY <2>a, <2>b, <3>a, <3>b, <3>d, <3>e, <3>w, <4>1, BindBasics
      <4>3. /\ rts \in Seq(RuntimeStates) /\ DOMAIN rt \subseteq DOMAIN rts /\ reap = NoReap
            /\ \A q \in DOMAIN rt : rts[q].sess = rt[q].sess /\ rts[q].active = rt[q].active
            /\ UNCHANGED <<disk, current>>
            /\ \A t \in DOMAIN disk : manager'[t] = manager[t] \/ Owes(t)'
        BY <2>a, <2>b, <3>a, <3>b, <3>d, <3>e
      <4>4. /\ \A d \in Callers :
                 prompt[d].pc \in {"unbind", "release"} /\ rt[prompt[d].rt].sess # prev =>
                   prompt'[d].pc \in {"unbind", "release"} /\ prompt'[d].rt = prompt[d].rt
            /\ \A t \in DOMAIN disk : t # prev /\ manager[t] \in hooks => manager[t] \in hooks'
        BY <2>a, <2>b, <3>a, <3>b, <3>d, <3>e
      <4>5. Evaluated(prev, rts)
        BY <4>1, <4>3, EvaluationCases DEF Evaluated
      <4> QED BY <4>1, <4>2, <4>3, <4>4, <4>5, OwedEvaluates
    <3> QED BY <3>v, <3>w
  <2> QED BY <2>c, <2>d
<1>14. ASSUME NEW s \in Sessions, StartRun(s) PROVE ReleaseIsOwed'
  BY <1>14, OwedFrame, Basics, OpBasics, PromptBasics DEF StartRun, TableInv
<1>15. ASSUME NEW c \in Callers, StartRunSync(c) PROVE ReleaseIsOwed'
  BY <1>15, OwedFrame, PromptBasics DEF StartRunSync, NoPrompt, TableInv
<1>16. ASSUME NEW r \in DOMAIN rt, AcceptRun(r) PROVE ReleaseIsOwed'
  <2>a. Edited(r, "accepted", rt[r].archived)
    BY <1>16, RunEdits
  <2> QED
    BY <1>16, <2>a, OwedFrame, Basics, OpBasics, PromptBasics
    DEF AcceptRun, TableInv, Edited, Alike
<1>17. ASSUME NEW r \in DOMAIN rt, RollbackRun(r) PROVE ReleaseIsOwed'
  <2>a. Edited(r, "none", rt[r].archived)
    BY <1>17, RunEdits
  <2> QED
    BY <1>17, <2>a, OwedFrame, Basics, OpBasics, PromptBasics
    DEF RollbackRun, EndPrompts, NoPrompt, TableInv, Edited, Alike
<1>18. ASSUME NEW r \in DOMAIN rt, AcquireRun(r) PROVE ReleaseIsOwed'
  <2>a. Edited(r, "running", rt[r].archived)
    BY <1>18, RunEdits
  <2> QED
    BY <1>18, <2>a, OwedFrame, Basics, OpBasics, PromptBasics
    DEF AcquireRun, TableInv, Edited, Alike
<1>19. ASSUME NEW r \in DOMAIN rt, FinalizeRun(r) PROVE ReleaseIsOwed'
  <2>a. Edited(r, "none", rt[r].archived)
    BY <1>19, RunEdits
  <2> QED
    BY <1>19, <2>a, OwedFrame, Basics, OpBasics, PromptBasics
    DEF FinalizeRun, EndPrompts, NoPrompt, TableInv, Edited, Alike
<1>20. ASSUME NEW r \in DOMAIN rt, onSessionRunDone(r) PROVE ReleaseIsOwed'
  <2>a. PICK freed :
             /\ SameRuntimes(freed) /\ \A q \in DOMAIN rt : Alike(freed[q], rt[q])
             /\ rt[r].sess \in DOMAIN disk
             /\ IF rt[r].sess \in suspended THEN Evaluate(rt[r].sess, byClient, freed)
                ELSE rt' = freed /\ UNCHANGED <<suspended, reap, historyVars>>
    BY <1>20, HookEvaluates
  <2>b. /\ reap = NoReap /\ hooks' = hooks \ {r}
        /\ UNCHANGED <<disk, manager, current, byClient, left, prompt, op>>
    BY <1>20 DEF onSessionRunDone
  <2>e. \A t \in DOMAIN disk : t # rt[r].sess => manager[t] # r
    BY Basics DEF TableInv, TableNames
  <2>c. CASE rt[r].sess \notin suspended
    <3>1. /\ UNCHANGED <<suspended, lapsed, reap>>
          /\ \A q \in DOMAIN rt : rt'[q].sess = rt[q].sess /\ rt'[q].active = rt[q].active
      BY <2>a, <2>c DEF Alike, historyVars
    <3> SUFFICES ASSUME NEW t \in DOMAIN disk, manager[t] # None, t \notin lapsed
                 PROVE  Owes(t)'
      BY <2>b, <3>1 DEF ReleaseIsOwed, Owes
    <3>2. Owes(t) /\ manager[t] \in DOMAIN rt
      BY OwedIsOwes, Basics
    <3>3. \A d \in Callers : PromptOwes(d, t) => PromptOwes(d, t)'
      BY <2>b, <3>1, PromptBasics DEF PromptOwes
    <3>4. HookOwes(t) => HookOwes(t)'
      BY <2>b, <2>c, <2>e, <3>1, <3>2 DEF HookOwes
    <3> QED BY <2>b, <3>1, <3>2, <3>3, <3>4, OwesStays DEF ConnOwes
  <2>d. CASE rt[r].sess \in suspended
    <3> DEFINE s == rt[r].sess
    <3>1. /\ s \in DOMAIN disk /\ freed \in Seq(RuntimeStates) /\ DOMAIN rt \subseteq DOMAIN freed
          /\ \A q \in DOMAIN rt : freed[q].sess = rt[q].sess /\ freed[q].active = rt[q].active
          /\ Evaluate(s, byClient, freed)
      BY <2>a, <2>d DEF SameRuntimes, Alike
    <3>2. \A t \in DOMAIN disk : t # s /\ manager[t] \in hooks => manager[t] \in hooks'
      BY <2>b, <2>e
    <3> HIDE DEF s
    <3>3. Evaluated(s, freed)
      BY <2>b, <3>1, EvaluationCases DEF Evaluated
    <3> QED BY <2>b, <3>1, <3>2, <3>3, OwedEvaluates DEF ConnOwes
  <2> QED BY <2>c, <2>d
<1>21. CASE FinalizerEnds
  BY <1>21, OwedFrame, Basics, OpBasics, PromptBasics DEF FinalizerEnds, TableInv
<1>22. ASSUME NEW s \in Sessions, ArchiveMounted(s) PROVE ReleaseIsOwed'
  <2>a. Edited(RouteSession(s), rt[RouteSession(s)].active, TRUE) /\ s \in DOMAIN disk
    BY <1>22, ArchiveEdits
  <2> QED
    BY <1>22, <2>a, OwedFrame, Basics, OpBasics, PromptBasics
    DEF ArchiveMounted, NoReap, TableInv, Edited, Alike
<1>23. ASSUME NEW s \in Sessions, ArchiveStored(s) PROVE ReleaseIsOwed'
  <2>a. /\ SameRuntimes(rt')
        /\ \A q \in DOMAIN rt :
             /\ rt'[q].sess = rt[q].sess /\ rt'[q].retired = rt[q].retired
             /\ rt'[q].archived = rt[q].archived /\ rt'[q].active = rt[q].active
             /\ IF rt[q].sess = s THEN ~rt'[q].open ELSE rt'[q].open = rt[q].open
    BY <1>23, CloseEdit DEF ArchiveStored
  <2> QED
    BY <1>23, <2>a, OwedFrame, Basics, OpBasics, PromptBasics DEF ArchiveStored, NoReap, TableInv
<1>24. CASE StopBegin
  BY <1>24, OwedFrame, Basics, OpBasics, PromptBasics DEF StopBegin, StopStep, TableInv
<1>25. CASE StopManager
  <2>1. DOMAIN disk' = DOMAIN disk /\ \A t \in DOMAIN disk : manager'[t] = None
    BY <1>25, Basics DEF StopManager, StopStep
  <2> QED BY <2>1 DEF ReleaseIsOwed
<1>26. CASE StopCommands
  BY <1>26, OwedFrame, Basics, OpBasics, PromptBasics DEF StopCommands, StopStep, TableInv
<1>27. CASE StopMemory
  BY <1>27, OwedFrame, Basics, OpBasics, PromptBasics DEF StopMemory, StopStep, TableInv
<1>28. CASE StopStores
  <2>a. /\ SameRuntimes(rt')
        /\ \A q \in DOMAIN rt :
             /\ rt'[q].sess = rt[q].sess /\ rt'[q].retired = rt[q].retired
             /\ rt'[q].archived = rt[q].archived /\ rt'[q].active = rt[q].active
             /\ ~rt'[q].open
    BY <1>28, StopEdits
  <2> QED
    BY <1>28, <2>a, OwedFrame, Basics, OpBasics, PromptBasics DEF StopStores, StopStep, TableInv
<1>29. ASSUME NEW c \in Conns, ConnClose(c) PROVE ReleaseIsOwed'
  BY <1>29, OwedFrame, Basics, OpBasics, PromptBasics DEF ConnClose, TableInv
<1>30. ASSUME NEW c \in Conns, ReleaseConnection(c) PROVE ReleaseIsOwed'
  <2>a. /\ conn[c] = "closing" /\ left' = [left EXCEPT ![c] = byClient[c]]
        /\ byClient' = [byClient EXCEPT ![c] = None]
        /\ UNCHANGED <<disk, rt, manager, current, op, prompt, suspended, hooks, reap, lapsed>>
    BY <1>30 DEF ReleaseConnection
  <2> SUFFICES ASSUME NEW t \in DOMAIN disk, manager[t] # None, t \notin lapsed
               PROVE  Owes(t)'
    BY <2>a DEF ReleaseIsOwed, Owes
  <2>b. Owes(t) /\ t # None /\ left[c] = None
    BY <2>a, OwedIsOwes, Basics, LeftBasics
  <2>c. \A d \in Conns : ConnOwes(d, t) \/ byClient[d] = t => ConnOwes(d, t)' \/ byClient'[d] = t
    BY <2>a, <2>b, LeftBasics, BindBasics DEF ConnOwes
  <2>d. (\E d \in Conns : ConnOwes(d, t)' \/ byClient'[d] = t) => Owes(t)'
    BY DEF Owes, Referenced, EvaluationPending, ConnOwes
  <2> QED BY <2>a, <2>b, <2>c, <2>d, OwesStays DEF PromptOwes, HookOwes
<1>31. ASSUME NEW c \in Conns, TryReleaseSession(c) PROVE ReleaseIsOwed'
  <2>b. /\ reap = NoReap /\ left' = [left EXCEPT ![c] = None]
        /\ UNCHANGED <<disk, manager, current, byClient, prompt, op, hooks>>
    BY <1>31 DEF TryReleaseSession
  <2>c. CASE left[c] = None
    <3>1. left' = left
      BY <2>b, <2>c, LeftBasics
    <3> QED BY <1>31, <2>b, <2>c, <3>1, OwedFrame DEF TryReleaseSession, TableInv
  <2>d. CASE left[c] # None
    <3>a. left[c] \in DOMAIN disk /\ rt \in Seq(RuntimeStates) /\ Evaluate(left[c], byClient, rt)
      BY <1>31, <2>d DEF TryReleaseSession, TypeInv, TablesTyped, ReferencesTyped, StoresTyped
    <3>b. \A t \in DOMAIN disk, d \in Conns : t # left[c] /\ ConnOwes(d, t) => ConnOwes(d, t)'
      BY <2>b, LeftBasics DEF ConnOwes
    <3>c. Evaluated(left[c], rt)
      BY <2>b, <3>a, EvaluationCases DEF Evaluated
    <3> QED BY <2>b, <3>a, <3>b, <3>c, OwedEvaluates
  <2> QED BY <2>c, <2>d
<1>32. ASSUME NEW c \in Conns, NEW s \in Sessions, SubscribeEvents(c, s) PROVE ReleaseIsOwed'
  BY <1>32, OwedFrame, Basics, OpBasics, PromptBasics DEF SubscribeEvents, TableInv
<1>33. ASSUME NEW c \in Conns, EnsureHub(c) PROVE ReleaseIsOwed'
  <2>a. Edited(sub[c], rt[sub[c]].active, rt[sub[c]].archived)
    BY <1>33, HubEdits
  <2> QED
    BY <1>33, <2>a, OwedFrame, Basics, OpBasics, PromptBasics
    DEF EnsureHub, TableInv, Edited, Alike
<1>34. ASSUME NEW c \in Callers, EnterNew(c) PROVE ReleaseIsOwed'
  BY <1>34, OwedFrame, Basics, OpBasics, PromptBasics DEF EnterNew, NoPrompt, TableInv
<1>35. ASSUME NEW c \in Callers, GiveUpNew(c) PROVE ReleaseIsOwed'
  BY <1>35, OwedFrame, Basics, OpBasics, PromptBasics DEF GiveUpNew, NoPrompt, TableInv
<1>36. ASSUME NEW c \in Callers, startSession(c) PROVE ReleaseIsOwed'
  <2>a. /\ NewId \in Sessions /\ NewId \notin DOMAIN disk /\ DOMAIN disk' = DOMAIN disk \cup {NewId}
    BY <1>36, NewSessionAdded DEF startSession
  <2>b. Added(rt', NewId, FALSE) /\ prompt[c].rt \in DOMAIN rt
    BY <1>36, CurrentReplaced
  <2>c. /\ current' = NewRt /\ prompt[c].pc = "gate" /\ prompt' = [prompt EXCEPT ![c].pc = "unbind"]
        /\ manager' = [manager EXCEPT ![NewId] = IF managerOpen THEN NewRt ELSE None]
        /\ lapsed' = IF current # prompt[c].rt THEN lapsed \cup {rt[current].sess} ELSE lapsed
        /\ UNCHANGED <<suspended, hooks, byClient, left, op, reap>>
    BY <1>36 DEF startSession
  <2>d. \A q \in DOMAIN rt : Alike(rt'[q], rt[q])
    BY <2>b DEF Added
  <2> HIDE DEF NewId, NewRt
  <2> SUFFICES ASSUME NEW t \in DOMAIN disk', manager'[t] # None, t \notin lapsed'
               PROVE  Owes(t)'
    BY DEF ReleaseIsOwed, Owes
  <2>e. CASE t = NewId
    BY <2>a, <2>c, <2>e, Basics DEF Owes, Referenced
  <2>f. CASE t # NewId
    <3>1. t \in DOMAIN disk /\ manager'[t] = manager[t] /\ Owes(t) /\ manager[t] \in DOMAIN rt
      BY <2>a, <2>c, <2>f, Basics, OwedIsOwes
    <3>2. \A d \in Callers : PromptOwes(d, t) => PromptOwes(d, t)'
      BY <2>c, <2>d, PromptBasics DEF PromptOwes, Alike
    <3>3. ASSUME manager[t] = current PROVE Owes(t)'
      <4>1. rt[current].sess = t /\ prompt[c].rt = current
        BY <2>c, <3>1, <3>3, Basics DEF TableInv, TableNames
      <4>2. PromptOwes(c, t)'
        BY <2>b, <2>c, <2>d, <4>1, PromptBasics DEF PromptOwes, Alike
      <4> QED BY <4>2 DEF Owes, EvaluationPending, PromptOwes
    <3> QED BY <2>c, <2>d, <3>1, <3>2, <3>3, OwesStays DEF ConnOwes, HookOwes, Alike
  <2> QED BY <2>e, <2>f
<1>37. ASSUME NEW c \in Callers, UnbindSession(c) PROVE ReleaseIsOwed'
  <2>a. /\ prompt[c].pc = "unbind" /\ prompt' = [prompt EXCEPT ![c].pc = "release"]
        /\ UNCHANGED <<disk, rt, manager, current, left, op, suspended, hooks, reap>>
        /\ lapsed \subseteq lapsed'
    BY <1>37 DEF UnbindSession
  <2>b. \A d \in Conns : \/ byClient'[d] = byClient[d]
                        \/ byClient[d] \in lapsed' \cup {None, rt[prompt[c].rt].sess}
    BY <1>37, BindBasics DEF UnbindSession
  <2> SUFFICES ASSUME NEW t \in DOMAIN disk, manager[t] # None, t \notin lapsed'
               PROVE  Owes(t)'
    BY <2>a DEF ReleaseIsOwed, Owes
  <2>c. Owes(t) /\ t # None
    BY <2>a, OwedIsOwes, Basics
  <2>d. \A d \in Callers : PromptOwes(d, t) => PromptOwes(d, t)'
    BY <2>a, PromptBasics DEF PromptOwes
  <2>e. ASSUME rt[prompt[c].rt].sess = t PROVE Owes(t)'
    <3>1. PromptOwes(c, t)'
      BY <2>a, <2>e, PromptBasics DEF PromptOwes
    <3> QED BY <3>1 DEF Owes, EvaluationPending, PromptOwes
  <2> QED BY <2>a, <2>b, <2>c, <2>d, <2>e, OwesStays DEF ConnOwes, HookOwes
<1>38. ASSUME NEW c \in Callers, ReleaseOld(c) PROVE ReleaseIsOwed'
  <2> DEFINE s == rt[prompt[c].rt].sess
  <2>a. s \in DOMAIN disk /\ rt \in Seq(RuntimeStates) /\ s = rt[prompt[c].rt].sess
    BY <1>38 DEF ReleaseOld, TypeInv, TablesTyped, StoresTyped, Locals
  <2>b. /\ reap = NoReap /\ prompt' = [prompt EXCEPT ![c].pc = "clear"] /\ Evaluate(s, byClient, rt)
        /\ UNCHANGED <<disk, manager, current, byClient, left, op, hooks>>
    BY <1>38 DEF ReleaseOld
  <2> HIDE DEF s
  <2>c. \A d \in Callers :
          prompt[d].pc \in {"unbind", "release"} /\ rt[prompt[d].rt].sess # s =>
            prompt'[d].pc \in {"unbind", "release"} /\ prompt'[d].rt = prompt[d].rt
    BY <2>a, <2>b, PromptBasics
  <2>d. Evaluated(s, rt)
    BY <2>a, <2>b, EvaluationCases DEF Evaluated
  <2> QED BY <2>a, <2>b, <2>c, <2>d, OwedEvaluates DEF ConnOwes
<1>39. ASSUME NEW c \in Callers, ClearBinding(c) PROVE ReleaseIsOwed'
  <2>a. Edited(prompt[c].rt, rt[prompt[c].rt].active, rt[prompt[c].rt].archived)
    BY <1>39, ClearEdits
  <2> QED
    BY <1>39, <2>a, OwedFrame, Basics, OpBasics, PromptBasics
    DEF ClearBinding, NoPrompt, TableInv, Edited, Alike
<1>40. CASE UNCHANGED vars
  BY <1>40, OwedFrame, Basics, OpBasics, PromptBasics DEF vars, vars, TableInv
<1>41. ASSUME NEW r \in DOMAIN rt, Reserve(r) PROVE ReleaseIsOwed'
  BY <1>41, ReserveKeeps, OwedFrame, Basics, OpBasics, PromptBasics DEF Reserve, TableInv
<1>42. ASSUME NEW c \in Callers, ReserveSync(c) PROVE ReleaseIsOwed'
  <2>1. /\ reserveRun(prompt[c].rt) /\ prompt[c].rt \in DOMAIN rt
        /\ \A d \in Callers : prompt[d].pc \in {"unbind", "release"} => prompt'[d] = prompt[d]
    BY <1>42, PromptBasics DEF ReserveSync
  <2> QED BY <1>42, <2>1, ReserveKeeps, OwedFrame, Basics DEF ReserveSync, TableInv
<1>43. ASSUME NEW r \in DOMAIN rt, CloseAwaits(r) PROVE ReleaseIsOwed'
  BY <1>43, OwedFrame, Basics, OpBasics, PromptBasics DEF CloseAwaits, TableInv
<1> QED
  BY <1>1, <1>2, <1>3, <1>4, <1>5, <1>6, <1>7, <1>8, <1>9, <1>10, <1>11, <1>12, <1>13, <1>14,
     <1>15, <1>16, <1>17, <1>18, <1>19, <1>20, <1>21, <1>22, <1>23, <1>24, <1>25, <1>26, <1>27,
     <1>28, <1>29, <1>30, <1>31, <1>32, <1>33, <1>34, <1>35, <1>36, <1>37, <1>38, <1>39, <1>40,
     <1>41, <1>42, <1>43
  DEF Next, Release, Runs, Archive, Stop, Requests, Connection, NewCommand

-----------------------------------------------------------------------------
(* Admission *)

(* What the steps below leave alone of the submissions and of the copy the *)
(* manager waits for.                                                      *)
LEMMA AdmissionFrame ==
    ASSUME TypeInv, TableInv, AdmissionInv, UNCHANGED <<awaiting, admitted, late, plugin>>,
           DOMAIN rt \subseteq DOMAIN rt',
           \A q \in DOMAIN rt :
             /\ rt'[q].sess = rt[q].sess /\ (rt[q].retired => rt'[q].retired)
             /\ (rt'[q].active # "none" => rt[q].active # "none"),
           \A q \in DOMAIN rt' \ DOMAIN rt : rt'[q].active = "none",
           \A c \in Callers : prompt'[c].pc = "submit" => prompt'[c] = prompt[c],
           \A q \in DOMAIN rt :
             manager[rt[q].sess] = q /\ ~rt'[q].retired => manager'[rt[q].sess] = q
    PROVE  AdmissionInv'
<1>1. CloseTyped'
  BY DEF AdmissionInv, CloseTyped
<1>2. ASSUME NEW q \in DOMAIN rt', Submitted(q)'
      PROVE  q \in DOMAIN rt /\ Submitted(q)
  BY <1>2, PromptBasics DEF Submitted, AdmissionInv, CloseTyped
<1>3. SubmittedAreRegistered'
  BY <1>2 DEF AdmissionInv, SubmittedAreRegistered
<1>4. RunsAreAwaited'
  BY DEF AdmissionInv, RunsAreAwaited
<1> QED BY <1>1, <1>3, <1>4 DEF AdmissionInv

(* Steps that touch neither the runtimes nor the table.                    *)
LEMMA AdmissionStays ==
    ASSUME TypeInv, TableInv, AdmissionInv, UNCHANGED <<awaiting, admitted, late, plugin, rt, manager>>,
           \A c \in Callers : prompt'[c].pc = "submit" => prompt'[c] = prompt[c]
    PROVE  AdmissionInv'
BY AdmissionFrame

(* An evaluation only retires.                                             *)
LEMMA AdmissionEvaluates ==
    ASSUME TypeInv, TableInv, AdmissionInv, NEW rts, EvaluationTyped(rts), SameRuntimes(rts),
           \A q \in DOMAIN rt : Alike(rts[q], rt[q]),
           UNCHANGED <<awaiting, admitted, late, plugin, manager>>,
           \A c \in Callers : prompt'[c].pc = "submit" => prompt'[c] = prompt[c]
    PROVE  AdmissionInv'
<1>1. DOMAIN rt' = DOMAIN rt
  BY DEF EvaluationTyped, SameRuntimes
<1>2. \A q \in DOMAIN rt :
        /\ rt'[q].sess = rt[q].sess /\ (rt[q].retired => rt'[q].retired)
        /\ (rt'[q].active # "none" => rt[q].active # "none")
  BY DEF EvaluationTyped, SameRuntimes, Alike
<1> QED BY <1>1, <1>2, AdmissionFrame

(* A new runtime, registered or not, for a session that had none.          *)
LEMMA AdmissionAdds ==
    ASSUME TypeInv, TableInv, AdmissionInv, NEW s \in Sessions, manager[s] = None,
           NewRt \notin DOMAIN rt, DOMAIN rt' = DOMAIN rt \cup {NewRt}, rt'[NewRt].active = "none",
           \A q \in DOMAIN rt :
             /\ rt'[q].sess = rt[q].sess /\ (rt[q].retired => rt'[q].retired)
             /\ rt'[q].active = rt[q].active,
           \A u \in Sessions : u # s => manager'[u] = manager[u],
           UNCHANGED <<awaiting, admitted, late, plugin>>,
           \A c \in Callers : prompt'[c].pc = "submit" => prompt'[c] = prompt[c]
    PROVE  AdmissionInv'
<1>1. \A q \in DOMAIN rt : manager[rt[q].sess] = q => manager'[rt[q].sess] = q
  BY Basics
<1> HIDE DEF NewRt
<1> QED BY <1>1, AdmissionFrame

(* A submission reserves what Close still waits for, or a late run.        *)
LEMMA AdmissionReserves ==
    ASSUME TypeInv, TableInv, AdmissionInv, NEW r \in DOMAIN rt, reserveRun(r),
           UNCHANGED <<manager, plugin, awaiting>>, admitted' \subseteq admitted,
           \A c \in Callers : prompt'[c].pc = "submit" => prompt'[c] = prompt[c]
    PROVE  AdmissionInv'
<1>1. /\ DOMAIN rt' = DOMAIN rt
      /\ \A q \in DOMAIN rt : rt'[q].sess = rt[q].sess /\ rt'[q].retired = rt[q].retired
      /\ \A q \in DOMAIN rt : q # r => rt'[q].active = rt[q].active
  BY ReserveKeeps DEF SameRuntimes
<1>2. /\ late \subseteq late' /\ late' \subseteq late \cup {r}
      /\ rt'[r].active # "none" => rt[r].active # "none" \/ plugin = "up" \/ r \in awaiting \/ r \in late'
  BY DEF reserveRun
<1>3. CloseTyped'
  BY <1>1, <1>2 DEF AdmissionInv, CloseTyped
<1>4. \A q \in DOMAIN rt : Submitted(q)' => Submitted(q)
  BY PromptBasics DEF Submitted
<1>5. SubmittedAreRegistered'
  BY <1>1, <1>4 DEF AdmissionInv, SubmittedAreRegistered
<1>6. RunsAreAwaited'
  BY <1>1, <1>2 DEF AdmissionInv, RunsAreAwaited
<1> QED BY <1>3, <1>5, <1>6 DEF AdmissionInv

(* Every step keeps the submissions registered and the runs awaited.       *)
LEMMA AdmissionStep == TypeInv /\ TableInv /\ RunInv /\ AdmissionInv /\ [Next]_vars => AdmissionInv'
<1> SUFFICES ASSUME TypeInv /\ TableInv /\ RunInv /\ AdmissionInv, [Next]_vars PROVE AdmissionInv'
  OBVIOUS
<1> USE LifecycleAssumption DEF repoVars, tableVars, refVars, connVars, promptVars, stopVars, closeVars, historyVars, None, Callers
<1>1. CASE ReapRemove
  <2>1. /\ reap.pc = "remove" /\ manager' = [manager EXCEPT ![reap.sess] = None]
        /\ UNCHANGED <<rt, prompt, plugin, awaiting, admitted, late>>
    BY <1>1 DEF ReapRemove
  <2>2. \A q \in DOMAIN rt : manager[rt[q].sess] = q /\ ~rt[q].retired => manager'[rt[q].sess] = q
    BY <2>1, Basics DEF TableInv, ReapIsApart
  <2> QED BY <2>1, <2>2, AdmissionFrame
<1>2. CASE ReapCloseEvents
  <2>a. Edited(reap.rt, rt[reap.rt].active, rt[reap.rt].archived)
    BY <1>2, ReapEventsEdits
  <2>b. UNCHANGED <<manager, prompt, plugin, awaiting, admitted, late>>
    BY <1>2 DEF ReapCloseEvents
  <2> QED BY <2>a, <2>b, AdmissionFrame DEF Edited, SameRuntimes, Alike
<1>3. CASE ReapCloseStore
  <2>a. UNCHANGED <<manager, prompt, plugin, awaiting, admitted, late>>
    BY <1>3 DEF ReapCloseStore
  <2>b. CASE rt' = rt
    BY <2>a, <2>b, AdmissionStays
  <2>c. CASE CloseSession(reap.sess, rt)
    BY <2>a, <2>c, CloseEdit, AdmissionFrame DEF SameRuntimes
  <2> QED BY <1>3, <2>b, <2>c DEF ReapCloseStore
<1>4. ASSUME NEW c \in Conns, RequestNew(c) PROVE AdmissionInv'
  BY <1>4, PromptBasics, AdmissionStays DEF RequestNew, Request
<1>5. ASSUME NEW c \in Conns, CreateBoundSession(c) PROVE AdmissionInv'
  <2>a. NewId \in Sessions /\ NewId \notin DOMAIN disk
    BY <1>5, NewSessionAdded DEF CreateBoundSession
  <2>b. UNCHANGED <<prompt, plugin, awaiting, admitted, late>>
    BY <1>5 DEF CreateBoundSession
  <2>c. CASE managerOpen
    <3>1. rt' = Append(rt, Runtime(NewId, FALSE)) /\ manager' = [manager EXCEPT ![NewId] = NewRt]
      BY <1>5, <2>c DEF CreateBoundSession
    <3>2. Added(rt', NewId, FALSE)
      BY <2>a, <3>1, AppendAdds, RuntimesStay
    <3>3. manager[NewId] = None
      BY <2>a, Basics DEF TableInv, TableNames
    <3>4. \A u \in Sessions : u # NewId => manager'[u] = manager[u]
      BY <3>1, Basics
    <3> HIDE DEF NewId, NewRt
    <3> QED BY <2>a, <2>b, <3>2, <3>3, <3>4, AdmissionAdds DEF Added, Alike
  <2>d. CASE ~managerOpen
    BY <1>5, <2>b, <2>d, AdmissionStays DEF CreateBoundSession
  <2> QED BY <2>c, <2>d
<1>6. ASSUME NEW c \in Conns, SetBinding(c) PROVE AdmissionInv'
  BY <1>6, PromptBasics, AdmissionStays DEF SetBinding, remember
<1>7. ASSUME NEW c \in Conns, BindConnectionSession(c) PROVE AdmissionInv'
  <2>a. op[c].sess \in DOMAIN disk /\ rt \in Seq(RuntimeStates) /\ Rebind(c, op[c].sess, rt)
    BY <1>7 DEF BindConnectionSession, TypeInv, TablesTyped, StoresTyped, Locals
  <2>b. EvaluationTyped(rt)
    BY <2>a, RebindIsTyped
  <2>c. UNCHANGED <<manager, prompt, plugin, awaiting, admitted, late>>
    BY <1>7 DEF BindConnectionSession
  <2> QED BY <2>b, <2>c, AdmissionEvaluates, RuntimesStay
<1>8. ASSUME NEW c \in Conns, NEW s \in Sessions, RequestLoad(c, s) PROVE AdmissionInv'
  BY <1>8, PromptBasics, AdmissionStays DEF RequestLoad, Request
<1>9. ASSUME NEW c \in Conns, SessionArchived(c) PROVE AdmissionInv'
  BY <1>9, PromptBasics, AdmissionStays DEF SessionArchived
<1>10. ASSUME NEW c \in Conns, ArchivedSessionHistory(c) PROVE AdmissionInv'
  BY <1>10, PromptBasics, AdmissionStays DEF ArchivedSessionHistory
<1>11. ASSUME NEW c \in Conns, Evict(c) PROVE AdmissionInv'
  <2>a. UNCHANGED <<manager, prompt, plugin, awaiting, admitted, late>> /\ CloseSession(op[c].sess, rt)
    BY <1>11 DEF Evict
  <2> QED BY <2>a, CloseEdit, AdmissionFrame DEF SameRuntimes
<1>12. ASSUME NEW c \in Conns, LoadRouted(c) PROVE AdmissionInv'
  <2>a. op[c].sess \in DOMAIN disk /\ rt \in Seq(RuntimeStates) /\ Rebind(c, op[c].sess, rt)
    BY <1>12 DEF LoadRouted, TypeInv, TablesTyped, StoresTyped, Locals
  <2>b. EvaluationTyped(rt)
    BY <2>a, RebindIsTyped
  <2>c. UNCHANGED <<manager, prompt, plugin, awaiting, admitted, late>>
    BY <1>12 DEF LoadRouted
  <2> QED BY <2>b, <2>c, AdmissionEvaluates, RuntimesStay
<1>13. ASSUME NEW c \in Conns, LoadReopened(c) PROVE AdmissionInv'
  <2>a. /\ op[c].sess \in DOMAIN disk /\ op[c].sess \in Sessions /\ RouteSession(op[c].sess) = None
        /\ UNCHANGED <<current, prompt, plugin, awaiting, admitted, late>>
    BY <1>13, StoredIsSession DEF LoadReopened, TypeInv, Locals
  <2>b. CASE ~managerOpen
    BY <1>13, <2>a, <2>b, AdmissionStays DEF LoadReopened
  <2>c. CASE managerOpen
    <3> DEFINE s == op[c].sess
               rts == Append(rt, Runtime(s, disk[s] = "archived"))
    <3>1. Added(rts, s, disk[s] = "archived")
      BY <2>a, AppendAdds, RuntimesStay
    <3>2. manager' = [manager EXCEPT ![s] = NewRt] /\ Rebind(c, s, rts)
      BY <1>13, <2>c DEF LoadReopened
    <3>3. s \in DOMAIN disk /\ s \in Sessions /\ manager[s] = None
      BY <2>a, Basics DEF RouteSession
    <3> HIDE DEF rts, s
    <3>4. EvaluationTyped(rts)
      BY <3>1, <3>2, <3>3, RebindIsTyped DEF Added
    <3>5. /\ DOMAIN rt' = DOMAIN rt \cup {NewRt} /\ NewRt \notin DOMAIN rt
          /\ rt'[NewRt].active = "none"
          /\ \A q \in DOMAIN rt :
               /\ rt'[q].sess = rt[q].sess /\ (rt[q].retired => rt'[q].retired)
               /\ rt'[q].active = rt[q].active
      BY <3>1, <3>4 DEF Added, Alike, EvaluationTyped
    <3>6. \A u \in Sessions : u # s => manager'[u] = manager[u]
      BY <3>2, Basics
    <3> HIDE DEF NewRt
    <3> QED BY <2>a, <3>3, <3>5, <3>6, AdmissionAdds
  <2> QED BY <2>b, <2>c
<1>14. ASSUME NEW s \in Sessions, StartRun(s) PROVE AdmissionInv'
  <2>1. /\ manager[s] \in DOMAIN rt /\ rt[manager[s]].sess = s /\ admitted' = admitted \cup {manager[s]}
        /\ UNCHANGED <<rt, manager, prompt, plugin, awaiting, late>>
    BY <1>14, Basics DEF StartRun, Found, TableInv, TableNames
  <2>2. \A q \in DOMAIN rt : Submitted(q)' => Submitted(q) \/ q = manager[s]
    BY <2>1 DEF Submitted
  <2> QED BY <2>1, <2>2
    DEF AdmissionInv, CloseTyped, SubmittedAreRegistered, RunsAreAwaited
<1>15. ASSUME NEW c \in Callers, StartRunSync(c) PROVE AdmissionInv'
  <2> DEFINE s == rt[sessionRuntimeIn(c)].sess
  <2>0. s \in Sessions /\ manager[s] # None
    BY <1>15, Basics DEF StartRunSync, Found
  <2>1. /\ manager[s] \in DOMAIN rt /\ rt[manager[s]].sess = s
        /\ prompt' = [prompt EXCEPT ![c] = [pc |-> "submit", rt |-> manager[s]]]
        /\ UNCHANGED <<rt, manager, plugin, awaiting, admitted, late>>
    BY <1>15, <2>0, Basics DEF StartRunSync, TableInv, TableNames
  <2> HIDE DEF s
  <2>2. \A q \in DOMAIN rt : Submitted(q)' => Submitted(q) \/ q = manager[s]
    BY <2>1, PromptBasics DEF Submitted
  <2> QED BY <2>1, <2>2
    DEF AdmissionInv, CloseTyped, SubmittedAreRegistered, RunsAreAwaited
<1>16. ASSUME NEW r \in DOMAIN rt, AcceptRun(r) PROVE AdmissionInv'
  <2>a. Edited(r, "accepted", rt[r].archived)
    BY <1>16, RunEdits
  <2>b. UNCHANGED <<manager, plugin, awaiting, admitted, late>>
    BY <1>16 DEF AcceptRun
  <2>c. \A d \in Callers : prompt'[d].pc = "submit" => prompt'[d] = prompt[d]
    BY <1>16, PromptBasics DEF AcceptRun, EndPrompts, NoPrompt
  <2>d. rt[r].active # "none" \/ rt'[r].active = "none"
    BY <1>16, <2>a DEF AcceptRun, Edited
  <2> QED BY <2>a, <2>b, <2>c, <2>d, AdmissionFrame DEF Edited, SameRuntimes, Alike
<1>17. ASSUME NEW r \in DOMAIN rt, RollbackRun(r) PROVE AdmissionInv'
  <2>a. Edited(r, "none", rt[r].archived)
    BY <1>17, RunEdits
  <2>b. UNCHANGED <<manager, plugin, awaiting, admitted, late>>
    BY <1>17 DEF RollbackRun
  <2>c. \A d \in Callers : prompt'[d].pc = "submit" => prompt'[d] = prompt[d]
    BY <1>17, PromptBasics DEF RollbackRun, EndPrompts, NoPrompt
  <2>d. rt[r].active # "none" \/ rt'[r].active = "none"
    BY <1>17, <2>a DEF RollbackRun, Edited
  <2> QED BY <2>a, <2>b, <2>c, <2>d, AdmissionFrame DEF Edited, SameRuntimes, Alike
<1>18. ASSUME NEW r \in DOMAIN rt, AcquireRun(r) PROVE AdmissionInv'
  <2>a. Edited(r, "running", rt[r].archived)
    BY <1>18, RunEdits
  <2>b. UNCHANGED <<manager, plugin, awaiting, admitted, late>>
    BY <1>18 DEF AcquireRun
  <2>c. \A d \in Callers : prompt'[d].pc = "submit" => prompt'[d] = prompt[d]
    BY <1>18, PromptBasics DEF AcquireRun, EndPrompts, NoPrompt
  <2>d. rt[r].active # "none" \/ rt'[r].active = "none"
    BY <1>18, <2>a DEF AcquireRun, Edited
  <2> QED BY <2>a, <2>b, <2>c, <2>d, AdmissionFrame DEF Edited, SameRuntimes, Alike
<1>19. ASSUME NEW r \in DOMAIN rt, FinalizeRun(r) PROVE AdmissionInv'
  <2>a. Edited(r, "none", rt[r].archived)
    BY <1>19, RunEdits
  <2>b. UNCHANGED <<manager, plugin, awaiting, admitted, late>>
    BY <1>19 DEF FinalizeRun
  <2>c. \A d \in Callers : prompt'[d].pc = "submit" => prompt'[d] = prompt[d]
    BY <1>19, PromptBasics DEF FinalizeRun, EndPrompts, NoPrompt
  <2>d. rt[r].active # "none" \/ rt'[r].active = "none"
    BY <1>19, <2>a DEF FinalizeRun, Edited
  <2> QED BY <2>a, <2>b, <2>c, <2>d, AdmissionFrame DEF Edited, SameRuntimes, Alike
<1>20. ASSUME NEW r \in DOMAIN rt, onSessionRunDone(r) PROVE AdmissionInv'
  <2>a. PICK freed :
             /\ SameRuntimes(freed) /\ \A q \in DOMAIN rt : Alike(freed[q], rt[q])
             /\ rt[r].sess \in DOMAIN disk
             /\ IF rt[r].sess \in suspended THEN Evaluate(rt[r].sess, byClient, freed)
                ELSE rt' = freed /\ UNCHANGED <<suspended, reap, historyVars>>
    BY <1>20, HookEvaluates
  <2>b. UNCHANGED <<manager, prompt, plugin, awaiting, admitted, late>>
    BY <1>20 DEF onSessionRunDone
  <2>c. CASE rt[r].sess \in suspended
    <3>1. EvaluationTyped(freed)
      BY <2>a, <2>c, EvaluationIsTyped DEF SameRuntimes
    <3> QED BY <2>a, <2>b, <3>1, AdmissionEvaluates
  <2>d. CASE rt[r].sess \notin suspended
    BY <2>a, <2>b, <2>d, AdmissionFrame DEF SameRuntimes, Alike
  <2> QED BY <2>c, <2>d
<1>21. CASE FinalizerEnds
  BY <1>21, PromptBasics, AdmissionStays DEF FinalizerEnds
<1>22. ASSUME NEW s \in Sessions, ArchiveMounted(s) PROVE AdmissionInv'
  <2>a. Edited(RouteSession(s), rt[RouteSession(s)].active, TRUE)
    BY <1>22, ArchiveEdits
  <2>b. UNCHANGED <<manager, prompt, plugin, awaiting, admitted, late>>
    BY <1>22 DEF ArchiveMounted
  <2> QED BY <2>a, <2>b, AdmissionFrame DEF Edited, SameRuntimes, Alike
<1>23. ASSUME NEW s \in Sessions, ArchiveStored(s) PROVE AdmissionInv'
  <2>a. UNCHANGED <<manager, prompt, plugin, awaiting, admitted, late>> /\ CloseSession(s, rt)
    BY <1>23 DEF ArchiveStored
  <2> QED BY <2>a, CloseEdit, AdmissionFrame DEF SameRuntimes
<1>24. CASE StopBegin
  <2>1. /\ plugin = "up" /\ plugin' = "stopping" /\ awaiting' = Registered
        /\ UNCHANGED <<rt, manager, prompt, admitted, late>>
    BY <1>24 DEF StopBegin, StopStep
  <2>2. CloseTyped'
    BY <2>1, Basics DEF Registered, AdmissionInv, CloseTyped
  <2>3. SubmittedAreRegistered'
    BY <2>1 DEF Submitted, AdmissionInv, SubmittedAreRegistered
  <2>4. RunsAreAwaited'
    BY <2>1, Basics DEF Registered, RunInv, RunsAreRegistered, RunsAreAwaited
  <2> QED BY <2>2, <2>3, <2>4 DEF AdmissionInv
<1>25. CASE StopManager
  <2>a. SameRuntimes(rt') /\ \A q \in DOMAIN rt : Alike(rt'[q], rt[q])
    BY <1>25, StopEdits
  <2>b. /\ plugin = "stopping" /\ plugin' = "drained" /\ awaiting = {}
        /\ UNCHANGED <<prompt, awaiting, admitted, late>>
    BY <1>25 DEF StopManager, StopStep
  <2> QED BY <2>a, <2>b
    DEF SameRuntimes, Alike, AdmissionInv, CloseTyped, SubmittedAreRegistered, RunsAreAwaited
<1>26. CASE StopCommands
  BY <1>26
  DEF StopCommands, StopStep, AdmissionInv, CloseTyped, SubmittedAreRegistered, RunsAreAwaited
<1>27. CASE StopMemory
  BY <1>27
  DEF StopMemory, StopStep, AdmissionInv, CloseTyped, SubmittedAreRegistered, RunsAreAwaited
<1>28. CASE StopStores
  <2>a. SameRuntimes(rt') /\ \A q \in DOMAIN rt : rt'[q].active = rt[q].active
    BY <1>28, StopEdits
  <2>b. plugin = "finalized" /\ plugin' = "closed" /\ UNCHANGED <<awaiting, admitted, late>>
    BY <1>28 DEF StopStores, StopStep
  <2> QED BY <2>a, <2>b
    DEF SameRuntimes, AdmissionInv, CloseTyped, SubmittedAreRegistered, RunsAreAwaited
<1>29. ASSUME NEW c \in Conns, ConnClose(c) PROVE AdmissionInv'
  BY <1>29, PromptBasics, AdmissionStays DEF ConnClose
<1>30. ASSUME NEW c \in Conns, ReleaseConnection(c) PROVE AdmissionInv'
  BY <1>30, PromptBasics, AdmissionStays DEF ReleaseConnection
<1>31. ASSUME NEW c \in Conns, TryReleaseSession(c) PROVE AdmissionInv'
  <2>a. UNCHANGED <<manager, prompt, plugin, awaiting, admitted, late>>
    BY <1>31 DEF TryReleaseSession
  <2>b. CASE left[c] # None
    <3>1. EvaluationTyped(rt)
      BY <1>31, <2>b, EvaluationIsTyped
      DEF TryReleaseSession, TypeInv, TablesTyped, StoresTyped, ReferencesTyped
    <3> QED BY <2>a, <3>1, AdmissionEvaluates, RuntimesStay
  <2>c. CASE left[c] = None
    BY <1>31, <2>a, <2>c, AdmissionStays DEF TryReleaseSession
  <2> QED BY <2>b, <2>c
<1>32. ASSUME NEW c \in Conns, NEW s \in Sessions, SubscribeEvents(c, s) PROVE AdmissionInv'
  BY <1>32, PromptBasics, AdmissionStays DEF SubscribeEvents
<1>33. ASSUME NEW c \in Conns, EnsureHub(c) PROVE AdmissionInv'
  <2>a. Edited(sub[c], rt[sub[c]].active, rt[sub[c]].archived)
    BY <1>33, HubEdits
  <2>b. UNCHANGED <<manager, prompt, plugin, awaiting, admitted, late>>
    BY <1>33 DEF EnsureHub
  <2> QED BY <2>a, <2>b, AdmissionFrame DEF Edited, SameRuntimes, Alike
<1>34. ASSUME NEW c \in Callers, EnterNew(c) PROVE AdmissionInv'
  BY <1>34, PromptBasics, AdmissionStays DEF EnterNew, NoPrompt
<1>35. ASSUME NEW c \in Callers, GiveUpNew(c) PROVE AdmissionInv'
  BY <1>35, PromptBasics, AdmissionStays DEF GiveUpNew, NoPrompt
<1>36. ASSUME NEW c \in Callers, startSession(c) PROVE AdmissionInv'
  <2>a. NewId \in Sessions /\ NewId \notin DOMAIN disk
    BY <1>36, NewSessionAdded DEF startSession
  <2>b. Added(rt', NewId, FALSE)
    BY <1>36, CurrentReplaced
  <2>c. /\ prompt' = [prompt EXCEPT ![c].pc = "unbind"]
        /\ manager' = [manager EXCEPT ![NewId] = IF managerOpen THEN NewRt ELSE None]
        /\ UNCHANGED <<plugin, awaiting, admitted, late>>
    BY <1>36 DEF startSession
  <2>d. manager[NewId] = None
    BY <2>a, Basics DEF TableInv, TableNames
  <2>e. \A u \in Sessions : u # NewId => manager'[u] = manager[u]
    BY <2>c, Basics
  <2>f. \A d \in Callers : prompt'[d].pc = "submit" => prompt'[d] = prompt[d]
    BY <2>c, PromptBasics
  <2> HIDE DEF NewId, NewRt
  <2> QED BY <2>a, <2>b, <2>c, <2>d, <2>e, <2>f, AdmissionAdds DEF Added, Alike
<1>37. ASSUME NEW c \in Callers, UnbindSession(c) PROVE AdmissionInv'
  BY <1>37, PromptBasics, AdmissionStays DEF UnbindSession
<1>38. ASSUME NEW c \in Callers, ReleaseOld(c) PROVE AdmissionInv'
  <2>a. rt[prompt[c].rt].sess \in DOMAIN disk /\ rt \in Seq(RuntimeStates)
    BY <1>38 DEF ReleaseOld, TypeInv, TablesTyped, StoresTyped, Locals
  <2>b. EvaluationTyped(rt)
    BY <1>38, <2>a, EvaluationIsTyped DEF ReleaseOld
  <2>c. UNCHANGED <<manager, plugin, awaiting, admitted, late>>
    BY <1>38 DEF ReleaseOld
  <2>d. \A d \in Callers : prompt'[d].pc = "submit" => prompt'[d] = prompt[d]
    BY <1>38, PromptBasics DEF ReleaseOld
  <2> QED BY <2>b, <2>c, <2>d, AdmissionEvaluates, RuntimesStay
<1>39. ASSUME NEW c \in Callers, ClearBinding(c) PROVE AdmissionInv'
  <2>a. Edited(prompt[c].rt, rt[prompt[c].rt].active, rt[prompt[c].rt].archived)
    BY <1>39, ClearEdits
  <2>b. UNCHANGED <<manager, plugin, awaiting, admitted, late>>
    BY <1>39 DEF ClearBinding
  <2>c. \A d \in Callers : prompt'[d].pc = "submit" => prompt'[d] = prompt[d]
    BY <1>39, PromptBasics DEF ClearBinding, NoPrompt
  <2> QED BY <2>a, <2>b, <2>c, AdmissionFrame DEF Edited, SameRuntimes, Alike
<1>40. CASE UNCHANGED vars
  BY <1>40, AdmissionStays DEF vars
<1>41. ASSUME NEW r \in DOMAIN rt, Reserve(r) PROVE AdmissionInv'
  <2>1. /\ reserveRun(r) /\ admitted' \subseteq admitted
        /\ UNCHANGED <<manager, prompt, plugin, awaiting>>
    BY <1>41 DEF Reserve
  <2> QED BY <2>1, AdmissionReserves
<1>42. ASSUME NEW c \in Callers, ReserveSync(c) PROVE AdmissionInv'
  <2>1. /\ reserveRun(prompt[c].rt) /\ prompt[c].rt \in DOMAIN rt
        /\ UNCHANGED <<manager, plugin, awaiting, admitted>>
    BY <1>42, PromptBasics DEF ReserveSync
  <2>2. \A d \in Callers : prompt'[d].pc = "submit" => prompt'[d] = prompt[d]
    BY <1>42, PromptBasics DEF ReserveSync, NoPrompt
  <2> QED BY <2>1, <2>2, AdmissionReserves
<1>43. ASSUME NEW r \in DOMAIN rt, CloseAwaits(r) PROVE AdmissionInv'
  <2>1. /\ rt[r].active = "none" /\ awaiting' = awaiting \ {r}
        /\ UNCHANGED <<rt, manager, prompt, plugin, admitted, late>>
    BY <1>43 DEF CloseAwaits
  <2>2. \A q \in DOMAIN rt : Submitted(q)' => Submitted(q)
    BY <2>1 DEF Submitted
  <2> QED BY <2>1, <2>2
    DEF AdmissionInv, CloseTyped, SubmittedAreRegistered, RunsAreAwaited
<1> QED
  BY <1>1, <1>2, <1>3, <1>4, <1>5, <1>6, <1>7, <1>8, <1>9, <1>10, <1>11, <1>12, <1>13, <1>14,
     <1>15, <1>16, <1>17, <1>18, <1>19, <1>20, <1>21, <1>22, <1>23, <1>24, <1>25, <1>26, <1>27,
     <1>28, <1>29, <1>30, <1>31, <1>32, <1>33, <1>34, <1>35, <1>36, <1>37, <1>38, <1>39, <1>40,
     <1>41, <1>42, <1>43
  DEF Next, Release, Runs, Archive, Stop, Requests, Connection, NewCommand

-----------------------------------------------------------------------------
(* The initial state *)

(* A sequence of one.                                                      *)
LEMMA OneElement ==
    ASSUME NEW S, NEW e \in S
    PROVE  <<e>> \in Seq(S) /\ Len(<<e>>) = 1 /\ DOMAIN <<e>> = {1} /\ <<e>>[1] = e
OBVIOUS

(* The first session, its runtime and nobody's request.                    *)
LEMMA InitFacts ==
    ASSUME Init
    PROVE  /\ 1 \in Sessions /\ None # 1 /\ DOMAIN disk = {1} /\ DOMAIN rt = {1}
           /\ disk[1] = "idle"
           /\ rt \in Seq(RuntimeStates) /\ Len(rt) = 1 /\ disk \in Seq({"idle", "archived"}) /\ Len(disk) = 1
           /\ rt[1].sess = 1 /\ rt[1].active = "none" /\ rt[1].open /\ ~rt[1].archived
           /\ manager[1] = 1 /\ \A s \in Sessions : s # 1 => manager[s] = None
<1>1. 1 \in Sessions /\ None # 1
  BY LifecycleAssumption DEF Sessions, None
<1>2. DOMAIN disk = {1} /\ disk[1] = "idle" /\ disk \in Seq({"idle", "archived"}) /\ Len(disk) = 1
  BY DEF Init
<1>3. /\ Runtime(1, FALSE) \in RuntimeStates /\ Runtime(1, FALSE).sess = 1
      /\ Runtime(1, FALSE).active = "none" /\ Runtime(1, FALSE).open /\ ~Runtime(1, FALSE).archived
  BY <1>1, NewRuntime
<1>4. rt = <<Runtime(1, FALSE)>>
  BY DEF Init
<1>5. DOMAIN rt = {1} /\ rt[1] = Runtime(1, FALSE) /\ rt \in Seq(RuntimeStates) /\ Len(rt) = 1
  BY <1>3, <1>4, OneElement
<1>6. manager[1] = 1 /\ \A s \in Sessions : s # 1 => manager[s] = None
  BY <1>1 DEF Init
<1> QED BY <1>1, <1>2, <1>3, <1>5, <1>6

(* The initial state is typed.                                             *)
LEMMA TypeInit == Init => TypeInv
<1> SUFFICES ASSUME Init PROVE TypeInv
  OBVIOUS
<1>1. StoresTyped
  <2>1. cached = {1} /\ 1 <= MaxSessions /\ 1 <= MaxRuntimes
    BY LifecycleAssumption DEF Init
  <2> QED BY <2>1, InitFacts DEF StoresTyped
<1>2. ReferencesTyped
  BY InitFacts DEF Init, ReferencesTyped
<1>3. HandlersTyped
  BY InitFacts DEF Init, HandlersTyped, NoOp, NoPrompt, NoReap, OpPCs, PromptPCs, ReapPCs
<1>4. Locals
  BY InitFacts DEF Init, Locals, NoOp, NoPrompt, NoReap
<1> QED BY <1>1, <1>2, <1>3, <1>4, InitFacts, LifecycleAssumption DEF Init, TypeInv, TablesTyped

(* The rest of the invariant holds in it.                                  *)
LEMMA InvInit ==
    Init => TableInv /\ RunInv /\ StopInv /\ BindTable /\ ReleaseIsOwed /\ AdmissionInv
<1> SUFFICES ASSUME Init
             PROVE  TableInv /\ RunInv /\ StopInv /\ BindTable /\ ReleaseIsOwed /\ AdmissionInv
  OBVIOUS
<1>1. TableInv
  BY InitFacts DEF Init, TableInv, TableNames, CurrentIsRegistered, ReapIsApart, NoReap
<1>2. RunInv
  BY InitFacts DEF Init, RunInv, RunsAreRegistered, RegisteredHaveStores, EvictedIsArchived, NoOp
<1>3. StopInv
  BY DEF Init, StopInv, MemoryOutlivesFinalizers
<1>4. BindTable
  BY DEF Init, BindTable, BoundIsApart, NoOp, NoReap
<1>5. ReleaseIsOwed
  BY InitFacts DEF Init, ReleaseIsOwed, Referenced
<1>6. AdmissionInv
  BY DEF Init, AdmissionInv, CloseTyped, SubmittedAreRegistered, RunsAreAwaited, Submitted, NoPrompt
<1> QED BY <1>1, <1>2, <1>3, <1>4, <1>5, <1>6

-----------------------------------------------------------------------------
(* Theorems *)

(* Everything the steps preserve together.                                 *)
Inv == TypeInv /\ TableInv /\ RunInv /\ StopInv /\ BindTable /\ ReleaseIsOwed /\ AdmissionInv

(* The conjunction is inductive.                                           *)
THEOREM Invariance == Spec => []Inv
<1>1. Init => Inv
  BY TypeInit, InvInit DEF Inv
<1>2. Inv /\ [Next]_vars => Inv'
  BY TypeStep, TableStep, RunStep, StopInvStep, BindTableStep, OwedStep, AdmissionStep DEF Inv
<1> QED BY <1>1, <1>2, PTL DEF Spec

(* Every session, runtime and reference of the daemon is of its type, and  *)
(* no reference names a session or a runtime that does not exist.          *)
THEOREM TypeCorrect == Spec => []TypeOK
<1>1. Inv => TypeOK
  BY DEF Inv, TypeInv, AdmissionInv, TypeOK
<1> QED BY <1>1, Invariance, PTL

(* A run never loses its store: reserveRun and Retire exclude each other,  *)
(* Evict closes the store of an archived session only, and the stores are  *)
(* closed after manager.Close has waited for every run but the late ones.  *)
THEOREM RunsKeepTheirStores == Spec => []RunsHaveStores
<1>1. Inv => RunsHaveStores
  BY Basics DEF Inv, RunInv, RunsAreRegistered, RegisteredHaveStores, RunsHaveStores
<1> QED BY <1>1, Invariance, PTL

(* No session leaks: whatever is mounted without a reference is about to   *)
(* be evaluated, except where the code forgets to (lapsed).                *)
THEOREM ReleasesAreOwed == Spec => []ReleaseIsOwed
<1>1. Inv => ReleaseIsOwed
  BY DEF Inv
<1> QED BY <1>1, Invariance, PTL

(* The release path never takes a session from a connection bound to it.   *)
THEOREM BoundSessionsAreAlive == Spec => []BoundIsAlive
<1>1. Inv => BoundIsAlive
  BY BindIsTable DEF Inv, BindInv
<1> QED BY <1>1, Invariance, PTL

(* Stop closes the memory after the last background checkpoint.            *)
THEOREM MemoryClosesLast == Spec => []MemoryOutlivesFinalizers
<1>1. Inv => MemoryOutlivesFinalizers
  BY DEF Inv, StopInv
<1> QED BY <1>1, Invariance, PTL

=============================================================================
