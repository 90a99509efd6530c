-------------------------- MODULE SessionLifecycle --------------------------
(***************************************************************************)
(* The life of a session in the daemon: created or loaded by a connection  *)
(* (core/service/acp/handler.go), referenced by the bindings of            *)
(* agentcontrol/bindings.go and by the plugin's current pointer, released  *)
(* with its last reference or after its last run                           *)
(* (plugins/agent/lifecycle.go), archived, and closed by Stop; with the    *)
(* store cache of ai-runtime/session/repository.go.                        *)
(*                                                                         *)
(* lifecycleMu: whatever runs under it is one step, except the release     *)
(* itself, whose four effects are visible one after another; reap is the   *)
(* release in progress.  Every runtime holds one store instance; the cache *)
(* makes instances unique, so closing the cached one closes the store of   *)
(* each runtime that still had it open.  Contents, working directories,    *)
(* leases and the management gate (a refusal without effect) are left out. *)
(***************************************************************************)
EXTENDS Naturals, Sequences, FiniteSets

CONSTANTS Conns,        \* ACP connections
          Cli,          \* the caller without a connection
          MaxSessions, MaxRuntimes,  \* bounds
          MaxInputs,    \* bound: requests of every kind, disconnects and the stop
          MaxFaults     \* bound: failing starts of a run

ASSUME LifecycleAssumption ==
    /\ Cli \notin Conns
    /\ MaxSessions \in Nat \ {0} /\ MaxRuntimes \in Nat \ {0}
    /\ MaxInputs \in Nat /\ MaxFaults \in Nat

VARIABLES
    disk,       \* the sessions on disk: a session is its index
    cached,     \* Repository.open: the sessions whose store is open
    rt,         \* the runtimes ever built: a runtime is its index
    manager,    \* SessionManager's table
    current,    \* AgentPlugin.current
    suspended,  \* suspendedReaps
    hooks,      \* runtimes whose run is done and whose done hook has not run yet
    byClient,   \* BindingRegistry.byClient
    binding,    \* FrontendHandler.binding
    conn,       \* open, closing, evaluating what it released, gone
    op,         \* session/new or session/load in progress on a connection
    prompt,     \* the prompt in progress of a caller
    remembered, \* FrontendHandler.promptable is not empty
    left,       \* the session a closing connection was bound to
    sub,        \* the runtime a session/attach was routed to
    reap,       \* tryReleaseSessionLocked in progress; it holds lifecycleMu
    finalizers, \* bgFinalizers
    plugin,     \* the progress of Stop
    awaiting,   \* runtimes of the copy of manager.Close it has not waited for yet
    admitted,   \* runtimes a run/start looked up while the manager was open
    late,       \* history: runtimes reserved after manager.Close was done with them
    lapsed,     \* history: sessions whose release nobody will evaluate
    stolen,     \* history: connections whose new session was released unbound
    inputs, faults

repoVars == <<disk, cached>>
tableVars == <<manager, current>>
refVars == <<byClient, binding>>
connVars == <<conn, left>>
promptVars == <<prompt, remembered, sub>>
closeVars == <<awaiting, admitted, late>>
stopVars == <<finalizers, plugin, closeVars>>
historyVars == <<lapsed, stolen>>
vars == <<disk, cached, rt, manager, current, suspended, hooks, byClient, binding,
          conn, op, prompt, remembered, left, sub, reap, finalizers, plugin, awaiting,
          admitted, late, lapsed, stolen, inputs, faults>>

Callers == Conns \cup {Cli}
Sessions == 1 .. MaxSessions
None == 0                       \* no session, no runtime
NoOp == [pc |-> "idle", sess |-> None]
NoPrompt == [pc |-> "idle", rt |-> None]
NoReap == [pc |-> "idle", sess |-> None, rt |-> None]

(* NewSessionRuntime over a store that is open *)
Runtime(s, archived) ==
    [sess |-> s, retired |-> FALSE, archived |-> archived, active |-> "none",
     gate |-> "free", hub |-> "none", open |-> TRUE]

RuntimeStates ==
    [sess : Sessions, retired : BOOLEAN, archived : BOOLEAN,
     active : {"none", "reserved", "accepted", "running"}, gate : {"free", "run", "new"},
     hub : {"none", "open", "closed"}, open : BOOLEAN]

OpPCs == {"idle", "new", "probe", "history", "evict", "loading", "remember", "loaded", "bind"}
PromptPCs == {"idle", "submit", "run", "gate", "unbind", "release", "clear"}
ReapPCs == {"idle", "remove", "events", "store"}

StoresTyped ==
    /\ disk \in Seq({"idle", "archived"}) /\ Len(disk) <= MaxSessions
    /\ cached \subseteq DOMAIN disk
    /\ rt \in Seq(RuntimeStates) /\ Len(rt) <= MaxRuntimes
    /\ \A r \in DOMAIN rt : rt[r].sess \in DOMAIN disk

ReferencesTyped ==
    /\ manager \in [Sessions -> {None} \cup DOMAIN rt]
    /\ current \in DOMAIN rt
    /\ suspended \subseteq DOMAIN disk /\ hooks \subseteq DOMAIN rt
    /\ byClient \in [Conns -> {None} \cup DOMAIN disk]
    /\ binding \in [Conns -> {None} \cup DOMAIN disk]
    /\ left \in [Conns -> {None} \cup DOMAIN disk]
    /\ sub \in [Conns -> {None} \cup DOMAIN rt]

HandlersTyped ==
    /\ conn \in [Conns -> {"open", "closing", "evaluating", "gone"}]
    /\ op \in [Conns -> [pc : OpPCs, sess : {None} \cup DOMAIN disk]]
    /\ prompt \in [Callers -> [pc : PromptPCs, rt : {None} \cup DOMAIN rt]]
    /\ reap \in [pc : ReapPCs, sess : {None} \cup DOMAIN disk, rt : {None} \cup DOMAIN rt]

CloseTyped == awaiting \cup admitted \cup late \subseteq DOMAIN rt

TablesTyped ==
    /\ StoresTyped /\ ReferencesTyped /\ HandlersTyped
    /\ remembered \subseteq Conns
    /\ finalizers \in Nat
    /\ plugin \in {"up", "stopping", "drained", "quiet", "finalized", "closed"}
    /\ lapsed \subseteq DOMAIN disk /\ stolen \subseteq Conns
    /\ inputs \in 0 .. MaxInputs /\ faults \in 0 .. MaxFaults

TypeOK == TablesTyped /\ CloseTyped

(* NewPlugin and Init: startSession creates the first current session. *)
Init ==
    /\ disk = <<"idle">> /\ cached = {1}
    /\ rt = <<Runtime(1, FALSE)>>
    /\ manager = [s \in Sessions |-> IF s = 1 THEN 1 ELSE None]
    /\ current = 1
    /\ suspended = {} /\ hooks = {}
    /\ byClient = [c \in Conns |-> None] /\ binding = [c \in Conns |-> None]
    /\ conn = [c \in Conns |-> "open"]
    /\ op = [c \in Conns |-> NoOp]
    /\ prompt = [c \in Callers |-> NoPrompt]
    /\ remembered = {} /\ left = [c \in Conns |-> None]
    /\ sub = [c \in Conns |-> None]
    /\ reap = NoReap
    /\ finalizers = 0 /\ plugin = "up"
    /\ awaiting = {} /\ admitted = {} /\ late = {}
    /\ lapsed = {} /\ stolen = {}
    /\ inputs = 0 /\ faults = 0

-----------------------------------------------------------------------------
(* Routing and the store cache *)

managerOpen == plugin = "up"

(* RouteSession: current first, then the manager's table *)
RouteSession(s) == IF rt[current].sess = s THEN current ELSE manager[s]

(* sessionRuntimeIn: by the caller's binding, without one the current *)
sessionRuntimeIn(c) ==
    IF c \in Conns /\ binding[c] # None THEN RouteSession(binding[c]) ELSE current

(* The bound on inputs *)
Counted == inputs < MaxInputs /\ inputs' = inputs + 1

(* handlePrompt and Prompt: a prompt needs a session declared on the connection. *)
CanPrompt(c) == c \in Conns => conn[c] = "open" /\ c \in remembered

(* Repository.Open: one instance per session, opened once and then shared *)
OpenStore(s) == cached' = cached \cup {s}

(* Repository.CloseSession: evict, and close the one instance *)
CloseSession(s, r0) ==
    /\ cached' = cached \ {s}
    /\ rt' = [r \in DOMAIN r0 |-> IF r0[r].sess = s THEN [r0[r] EXCEPT !.open = FALSE] ELSE r0[r]]

(* Repository.Create, mountRuntime and Register of a new session; a closed    *)
(* manager refuses the registration.                                          *)
CanCreate == Len(disk) < MaxSessions /\ Len(rt) < MaxRuntimes
NewId == Len(disk) + 1
NewRt == Len(rt) + 1

-----------------------------------------------------------------------------
(* tryReleaseSessionLocked *)

Creating(s) == {c \in Conns : op[c].pc \in {"remember", "bind"} /\ op[c].sess = s}

(* Mutant of Evaluate: the runtime is not retired before it is removed. *)
EvaluateUnretired(s, bound, rts) ==
    LET r == manager[s]
        kept == (\E c \in Conns : bound[c] = s) \/ r = None \/ r = current
    IN /\ lapsed' = lapsed \ {s}
       /\ \/ /\ kept
             /\ suspended' = suspended \ {s}
             /\ rt' = rts
             /\ UNCHANGED <<reap, stolen>>
          \/ /\ ~kept /\ rts[r].active # "none"
             /\ suspended' = suspended \cup {s}
             /\ rt' = rts
             /\ UNCHANGED <<reap, stolen>>
          \/ /\ ~kept /\ rts[r].active = "none"
             /\ suspended' = suspended \ {s}
             /\ rt' = rts
             /\ reap' = [pc |-> "remove", sess |-> s, rt |-> r]
             /\ stolen' = stolen \cup Creating(s)

(* Mutant of Evaluate: the bindings are not looked at again. *)
EvaluateUnchecked(s, bound, rts) ==
    LET r == manager[s]
        kept == r = None \/ r = current
    IN /\ lapsed' = lapsed \ {s}
       /\ \/ /\ kept
             /\ suspended' = suspended \ {s}
             /\ rt' = rts
             /\ UNCHANGED <<reap, stolen>>
          \/ /\ ~kept /\ rts[r].active # "none"
             /\ suspended' = suspended \cup {s}
             /\ rt' = rts
             /\ UNCHANGED <<reap, stolen>>
          \/ /\ ~kept /\ rts[r].active = "none"
             /\ suspended' = suspended \ {s}
             /\ rt' = [rts EXCEPT ![r].retired = TRUE]
             /\ reap' = [pc |-> "remove", sess |-> s, rt |-> r]
             /\ stolen' = stolen \cup Creating(s)

(* The evaluation of a session's references, given the bindings and runtimes  *)
(* after the caller's change.  Retire fails while a run is reserved or running. *)
Evaluate(s, bound, rts) ==
    LET r == manager[s]
        kept == (\E c \in Conns : bound[c] = s) \/ r = None \/ r = current
    IN /\ lapsed' = lapsed \ {s}
       /\ \/ /\ kept
             /\ suspended' = suspended \ {s}
             /\ rt' = rts
             /\ UNCHANGED <<reap, stolen>>
          \/ /\ ~kept /\ rts[r].active # "none"
             /\ suspended' = suspended \cup {s}
             /\ rt' = rts
             /\ UNCHANGED <<reap, stolen>>
          \/ /\ ~kept /\ rts[r].active = "none"
             /\ suspended' = suspended \ {s}
             /\ rt' = [rts EXCEPT ![r].retired = TRUE]
             /\ reap' = [pc |-> "remove", sess |-> s, rt |-> r]
             /\ stolen' = stolen \cup Creating(s)

ReapRemove ==
    /\ reap.pc = "remove"
    /\ manager' = [manager EXCEPT ![reap.sess] = None]
    /\ reap' = [reap EXCEPT !.pc = "events"]
    /\ UNCHANGED <<repoVars, rt, current, suspended, hooks, refVars, connVars, op, promptVars,
                   stopVars, historyVars, inputs, faults>>

(* CloseEvents: a hub that was never built stays so. *)
ReapCloseEvents ==
    /\ reap.pc = "events"
    /\ rt' = [rt EXCEPT ![reap.rt].hub = IF @ = "none" THEN "none" ELSE "closed"]
    /\ reap' = [reap EXCEPT !.pc = "store"]
    /\ UNCHANGED <<repoVars, tableVars, suspended, hooks, refVars, connVars, op, promptVars,
                   stopVars, historyVars, inputs, faults>>

(* The store is closed unless it is the current session's. *)
ReapCloseStore ==
    /\ reap.pc = "store"
    /\ IF rt[current].sess # reap.sess
       THEN CloseSession(reap.sess, rt) ELSE UNCHANGED <<cached, rt>>
    /\ reap' = NoReap
    /\ UNCHANGED <<disk, tableVars, suspended, hooks, refVars, connVars, op, promptVars,
                   stopVars, historyVars, inputs, faults>>

-----------------------------------------------------------------------------
(* session/new *)

(* A request is read from an open connection; its handler goes on when the    *)
(* connection closes.                                                         *)
Request(c, kind, s) ==
    /\ conn[c] = "open" /\ op[c] = NoOp /\ Counted
    /\ op' = [op EXCEPT ![c] = [pc |-> kind, sess |-> s]]
    /\ UNCHANGED <<repoVars, rt, tableVars, suspended, hooks, refVars, connVars, promptVars,
                   reap, stopVars, historyVars, faults>>

RequestNew(c) == Request(c, "new", None)

RequestLoad(c, s) == s \in DOMAIN disk /\ Request(c, "probe", s)

(* CreateBoundSession; a failed mount closes the store again. *)
CreateBoundSession(c) ==
    /\ op[c].pc = "new" /\ CanCreate
    /\ disk' = Append(disk, "idle")
    /\ IF managerOpen
       THEN /\ cached' = cached \cup {NewId}
            /\ rt' = Append(rt, Runtime(NewId, FALSE))
            /\ manager' = [manager EXCEPT ![NewId] = NewRt]
            /\ op' = [op EXCEPT ![c] = [pc |-> "remember", sess |-> NewId]]
       ELSE op' = [op EXCEPT ![c] = NoOp] /\ UNCHANGED <<cached, rt, manager>>
    /\ UNCHANGED <<current, suspended, hooks, refVars, connVars, promptVars, reap, stopVars,
                   historyVars, inputs, faults>>

(* remember: the session can be prompted from now on; nothing forgets it while *)
(* the handler lives. *)
remember(c) == remembered' = remembered \cup {c}

(* remember and binding.Set; a load has been bound already. *)
SetBinding(c) ==
    /\ op[c].pc \in {"remember", "loaded"}
    /\ binding' = [binding EXCEPT ![c] = op[c].sess]
    /\ remember(c)
    /\ op' = [op EXCEPT ![c] = IF @.pc = "loaded" THEN NoOp ELSE [@ EXCEPT !.pc = "bind"]]
    /\ UNCHANGED <<repoVars, rt, tableVars, suspended, hooks, byClient, connVars, prompt, sub,
                   reap, stopVars, historyVars, inputs, faults>>

(* Mutant of Rebind: what the connection leaves is not evaluated. *)
RebindOnly(c, s, rts) ==
    /\ byClient' = [byClient EXCEPT ![c] = s]
    /\ rt' = rts
    /\ UNCHANGED <<suspended, reap, historyVars>>

(* bindConnectionSessionLocked *)
Rebind(c, s, rts) ==
    LET prev == byClient[c] IN
    /\ byClient' = [byClient EXCEPT ![c] = s]
    /\ IF prev \notin {None, s} THEN Evaluate(prev, byClient', rts)
       ELSE rt' = rts /\ UNCHANGED <<suspended, reap, historyVars>>

BindConnectionSession(c) ==
    /\ op[c].pc = "bind" /\ reap = NoReap
    /\ Rebind(c, op[c].sess, rt)
    /\ op' = [op EXCEPT ![c] = NoOp]
    /\ UNCHANGED <<repoVars, tableVars, hooks, binding, connVars, promptVars, stopVars,
                   inputs, faults>>

-----------------------------------------------------------------------------
(* session/load *)

Advance(c, pc) == op' = [op EXCEPT ![c].pc = pc]
Answer(c) == op' = [op EXCEPT ![c] = NoOp]

(* SessionArchived opens the store to look, and leaves it open. *)
SessionArchived(c) ==
    /\ op[c].pc = "probe"
    /\ OpenStore(op[c].sess)
    /\ Advance(c, IF disk[op[c].sess] = "archived" THEN "history" ELSE "loading")
    /\ UNCHANGED <<disk, rt, tableVars, suspended, hooks, refVars, connVars, promptVars,
                   reap, stopVars, historyVars, inputs, faults>>

(* ArchivedSessionHistory; a session nobody has mounted is closed again,      *)
(* without lifecycleMu.                                                       *)
ArchivedSessionHistory(c) ==
    /\ op[c].pc = "history"
    /\ OpenStore(op[c].sess)
    /\ IF RouteSession(op[c].sess) = None THEN Advance(c, "evict") ELSE Answer(c)
    /\ UNCHANGED <<disk, rt, tableVars, suspended, hooks, refVars, connVars, promptVars,
                   reap, stopVars, historyVars, inputs, faults>>

Evict(c) ==
    /\ op[c].pc = "evict"
    /\ CloseSession(op[c].sess, rt)
    /\ Answer(c)
    /\ UNCHANGED <<disk, tableVars, suspended, hooks, refVars, connVars, promptVars,
                   reap, stopVars, historyVars, inputs, faults>>

(* LoadBoundSessionForConnection: reload the routed runtime, or mount a new   *)
(* one over the store, then bind; a closed manager refuses the mount.         *)
LoadRouted(c) ==
    /\ op[c].pc = "loading" /\ reap = NoReap
    /\ RouteSession(op[c].sess) # None
    /\ Rebind(c, op[c].sess, rt)
    /\ Advance(c, "loaded")
    /\ UNCHANGED <<repoVars, tableVars, hooks, binding, connVars, promptVars, stopVars,
                   inputs, faults>>

LoadReopened(c) ==
    LET s == op[c].sess IN
    /\ op[c].pc = "loading" /\ reap = NoReap
    /\ RouteSession(s) = None /\ Len(rt) < MaxRuntimes
    /\ OpenStore(s)
    /\ IF managerOpen
       THEN /\ manager' = [manager EXCEPT ![s] = NewRt]
            /\ Rebind(c, s, Append(rt, Runtime(s, disk[s] = "archived")))
            /\ Advance(c, "loaded")
       ELSE Answer(c) /\ UNCHANGED <<rt, manager, suspended, byClient, reap, historyVars>>
    /\ UNCHANGED <<disk, current, hooks, binding, connVars, promptVars, stopVars,
                   inputs, faults>>

-----------------------------------------------------------------------------
(* Runs *)

(* StartRun reads closed and the table under the manager's lock, and gives it *)
(* back: what follows may come after any step of Close and of a release.      *)
Found(s) == managerOpen /\ s \in DOMAIN disk /\ manager[s] # None

Admits(r) == ~rt[r].archived /\ ~rt[r].retired /\ rt[r].active = "none"

(* reserveRun does not look at closed again.                                  *)
reserveRun(r) ==
    IF Admits(r)
    THEN /\ rt' = [rt EXCEPT ![r].active = "reserved"]
         /\ late' = IF plugin # "up" /\ r \notin awaiting THEN late \cup {r} ELSE late
    ELSE UNCHANGED <<rt, late>>

(* run/start, which nobody waits for.  Bound: one at a time between lookup and *)
(* reservation for each runtime.                                              *)
StartRun(s) ==
    /\ Found(s) /\ manager[s] \notin admitted
    /\ admitted' = admitted \cup {manager[s]}
    /\ Counted
    /\ UNCHANGED <<repoVars, rt, tableVars, suspended, hooks, refVars, connVars, op, promptVars,
                   reap, finalizers, plugin, awaiting, late, historyVars, faults>>

Reserve(r) ==
    /\ r \in admitted
    /\ admitted' = admitted \ {r}
    /\ reserveRun(r)
    /\ UNCHANGED <<repoVars, tableVars, suspended, hooks, refVars, connVars, op, promptVars,
                   reap, finalizers, plugin, awaiting, historyVars, inputs, faults>>

(* handleAgent: the prompt of a connection submits its run and waits for it;  *)
(* the registration is looked up by id.                                       *)
StartRunSync(c) ==
    /\ prompt[c] = NoPrompt /\ CanPrompt(c) /\ sessionRuntimeIn(c) # None
    /\ Found(rt[sessionRuntimeIn(c)].sess)
    /\ prompt' = [prompt EXCEPT ![c] = [pc |-> "submit", rt |-> manager[rt[sessionRuntimeIn(c)].sess]]]
    /\ Counted
    /\ UNCHANGED <<repoVars, rt, tableVars, suspended, hooks, refVars, connVars, op, remembered,
                   sub, reap, stopVars, historyVars, faults>>

ReserveSync(c) ==
    /\ prompt[c].pc = "submit"
    /\ reserveRun(prompt[c].rt)
    /\ prompt' = [prompt EXCEPT ![c] = IF Admits(@.rt) THEN [@ EXCEPT !.pc = "run"] ELSE NoPrompt]
    /\ UNCHANGED <<repoVars, tableVars, suspended, hooks, refVars, connVars, op, remembered,
                   sub, reap, finalizers, plugin, awaiting, admitted, historyVars, inputs, faults>>

(* bindEvents, the journal record and the start of execute *)
AcceptRun(r) ==
    /\ rt[r].active = "reserved"
    /\ rt' = [rt EXCEPT ![r].active = "accepted", ![r].hub = IF @ = "none" THEN "open" ELSE @]
    /\ UNCHANGED <<repoVars, tableVars, suspended, hooks, refVars, connVars, op, promptVars,
                   reap, stopVars, historyVars, inputs, faults>>

EndPrompts(r) ==
    prompt' = [c \in Callers |-> IF prompt[c] = [pc |-> "run", rt |-> r]
                                 THEN NoPrompt ELSE prompt[c]]

(* releaseRunReservation after a failed journal: the done hook is not called. *)
RollbackRun(r) ==
    /\ rt[r].active = "reserved" /\ faults < MaxFaults
    /\ faults' = faults + 1
    /\ rt' = [rt EXCEPT ![r].active = "none"]
    /\ lapsed' = IF rt[r].sess \in suspended THEN lapsed \cup {rt[r].sess} ELSE lapsed
    /\ EndPrompts(r)
    /\ UNCHANGED <<repoVars, tableVars, suspended, hooks, refVars, connVars, op, remembered,
                   sub, reap, stopVars, stolen, inputs>>

(* execute takes the runtime's gate. *)
AcquireRun(r) ==
    /\ rt[r].active = "accepted" /\ rt[r].gate = "free"
    /\ rt' = [rt EXCEPT ![r].active = "running", ![r].gate = "run"]
    /\ UNCHANGED <<repoVars, tableVars, suspended, hooks, refVars, connVars, op, promptVars,
                   reap, stopVars, historyVars, inputs, faults>>

(* finalizeRun: active is cleared before the hook is called.  Bound: one      *)
(* hook per runtime at a time.                                                *)
FinalizeRun(r) ==
    /\ rt[r].active \in {"accepted", "running"} /\ r \notin hooks
    /\ rt' = [rt EXCEPT ![r].active = "none"]
    /\ hooks' = hooks \cup {r}
    /\ EndPrompts(r)
    /\ UNCHANGED <<repoVars, tableVars, suspended, refVars, connVars, op, remembered,
                   sub, reap, stopVars, historyVars, inputs, faults>>

(* onSessionRunDone; execute gives the gate back after it. *)
onSessionRunDone(r) ==
    LET s == rt[r].sess
        freed == [rt EXCEPT ![r].gate = IF @ = "run" /\ rt[r].active # "running"
                                         THEN "free" ELSE @]
    IN /\ r \in hooks /\ reap = NoReap
       /\ hooks' = hooks \ {r}
       /\ IF s \in suspended THEN Evaluate(s, byClient, freed)
          ELSE rt' = freed /\ UNCHANGED <<suspended, reap, historyVars>>
       /\ UNCHANGED <<repoVars, tableVars, refVars, connVars, op, promptVars, stopVars,
                      inputs, faults>>

-----------------------------------------------------------------------------
(* /new *)

(* withSession: admission, and the runtime the command works on *)
EnterNew(c) ==
    /\ plugin = "up" /\ prompt[c] = NoPrompt /\ CanPrompt(c) /\ sessionRuntimeIn(c) # None
    /\ prompt' = [prompt EXCEPT ![c] = [pc |-> "gate", rt |-> sessionRuntimeIn(c)]]
    /\ Counted
    /\ UNCHANGED <<repoVars, rt, tableVars, suspended, hooks, refVars, connVars, op, remembered,
                   sub, reap, stopVars, historyVars, faults>>

(* The connection closes while the command waits for the gate. *)
GiveUpNew(c) ==
    /\ prompt[c].pc = "gate" /\ c \in Conns /\ conn[c] # "open"
    /\ prompt' = [prompt EXCEPT ![c] = NoPrompt]
    /\ UNCHANGED <<repoVars, rt, tableVars, suspended, hooks, refVars, connVars, op, remembered,
                   sub, reap, stopVars, historyVars, inputs, faults>>

(* startSession moves current to a new session.  What it pointed at loses a   *)
(* reference that only a later evaluation of the same session would notice,   *)
(* unless the command works on that very runtime.                             *)
startSession(c) ==
    LET old == prompt[c].rt
        was == rt[current].sess
    IN /\ prompt[c].pc = "gate" /\ rt[old].gate = "free" /\ CanCreate
       /\ disk' = Append(disk, "idle")
       /\ cached' = cached \cup {NewId}
       /\ rt' = Append([rt EXCEPT ![old].gate = "new"], Runtime(NewId, FALSE))
       /\ manager' = [manager EXCEPT ![NewId] = IF managerOpen THEN NewRt ELSE None]
       /\ current' = NewRt
       /\ lapsed' = IF current # old THEN lapsed \cup {was} ELSE lapsed
       /\ finalizers' \in {finalizers, finalizers + 1}
       /\ prompt' = [prompt EXCEPT ![c].pc = "unbind"]
       /\ UNCHANGED <<suspended, hooks, refVars, connVars, op, remembered, sub, reap, plugin,
                      closeVars, stolen, inputs, faults>>

(* Mutant of FinalizerEnds: a checkpoint is counted off twice. *)
FinalizerEndsTwice ==
    /\ finalizers > 0
    /\ finalizers' = finalizers - 2
    /\ UNCHANGED <<repoVars, rt, tableVars, suspended, hooks, refVars, connVars, op, promptVars,
                   reap, plugin, closeVars, historyVars, inputs, faults>>

(* CheckpointSync in the background is done. *)
FinalizerEnds ==
    /\ finalizers > 0
    /\ finalizers' = finalizers - 1
    /\ UNCHANGED <<repoVars, rt, tableVars, suspended, hooks, refVars, connVars, op, promptVars,
                   reap, plugin, closeVars, historyVars, inputs, faults>>

(* UnbindSession, without lifecycleMu; a binding to another session than the  *)
(* one the command works on goes unnoticed.                                   *)
UnbindSession(c) ==
    /\ prompt[c].pc = "unbind"
    /\ IF c \in Conns
       THEN /\ byClient' = [byClient EXCEPT ![c] = None]
            /\ lapsed' = lapsed \cup ({byClient[c]} \ {None, rt[prompt[c].rt].sess})
       ELSE UNCHANGED <<byClient, lapsed>>
    /\ prompt' = [prompt EXCEPT ![c].pc = "release"]
    /\ UNCHANGED <<repoVars, rt, tableVars, suspended, hooks, binding, connVars, op, remembered,
                   sub, reap, stopVars, stolen, inputs, faults>>

ReleaseOld(c) ==
    /\ prompt[c].pc = "release" /\ reap = NoReap
    /\ Evaluate(rt[prompt[c].rt].sess, byClient, rt)
    /\ prompt' = [prompt EXCEPT ![c].pc = "clear"]
    /\ UNCHANGED <<repoVars, tableVars, hooks, refVars, connVars, op, remembered, sub,
                   stopVars, inputs, faults>>

(* The connection's binding falls back to current; the gate is given back.    *)
ClearBinding(c) ==
    /\ prompt[c].pc = "clear"
    /\ binding' = IF c \in Conns THEN [binding EXCEPT ![c] = None] ELSE binding
    /\ rt' = [rt EXCEPT ![prompt[c].rt].gate = "free"]
    /\ prompt' = [prompt EXCEPT ![c] = NoPrompt]
    /\ UNCHANGED <<repoVars, tableVars, suspended, hooks, byClient, connVars, op, remembered,
                   sub, reap, stopVars, historyVars, inputs, faults>>

-----------------------------------------------------------------------------
(* Connections: close, attach and archive *)

(* The peer's Serve comes back: the client hung up, or Service.Stop closed it. *)
ConnClose(c) ==
    /\ conn[c] = "open"
    /\ conn' = [conn EXCEPT ![c] = "closing"]
    /\ Counted
    /\ UNCHANGED <<repoVars, rt, tableVars, suspended, hooks, refVars, left, op, promptVars,
                   reap, stopVars, historyVars, faults>>

(* ReleaseConnection once the prompts are over; a session/new or session/load *)
(* may still be in progress.                                                  *)
ReleaseConnection(c) ==
    /\ conn[c] = "closing" /\ prompt[c] = NoPrompt
    /\ byClient' = [byClient EXCEPT ![c] = None]
    /\ left' = [left EXCEPT ![c] = byClient[c]]
    /\ conn' = [conn EXCEPT ![c] = "evaluating"]
    /\ UNCHANGED <<repoVars, rt, tableVars, suspended, hooks, binding, op, promptVars,
                   reap, stopVars, historyVars, inputs, faults>>

TryReleaseSession(c) ==
    /\ conn[c] = "evaluating" /\ reap = NoReap
    /\ IF left[c] # None THEN Evaluate(left[c], byClient, rt)
       ELSE UNCHANGED <<rt, suspended, reap, historyVars>>
    /\ conn' = [conn EXCEPT ![c] = "gone"]
    /\ left' = [left EXCEPT ![c] = None]
    /\ UNCHANGED <<repoVars, tableVars, hooks, refVars, op, promptVars, stopVars,
                   inputs, faults>>

(* SubscribeEvents routes the session, then makes sure it has a hub.          *)
SubscribeEvents(c, s) ==
    /\ conn[c] = "open" /\ sub[c] = None /\ s \in DOMAIN disk /\ RouteSession(s) # None
    /\ sub' = [sub EXCEPT ![c] = RouteSession(s)]
    /\ Counted
    /\ UNCHANGED <<repoVars, rt, tableVars, suspended, hooks, refVars, connVars, op, prompt,
                   remembered, reap, stopVars, historyVars, faults>>

EnsureHub(c) ==
    /\ sub[c] # None
    /\ rt' = [rt EXCEPT ![sub[c]].hub = IF @ = "none" THEN "open" ELSE @]
    /\ sub' = [sub EXCEPT ![c] = None]
    /\ UNCHANGED <<repoVars, tableVars, suspended, hooks, refVars, connVars, op, prompt,
                   remembered, reap, stopVars, historyVars, inputs, faults>>

(* ArchiveSession of a mounted session: it needs its store, no suspended      *)
(* release and no run.                                                        *)
ArchiveMounted(s) ==
    LET r == RouteSession(s) IN
    /\ reap = NoReap /\ s \in cached /\ r # None
    /\ s \notin suspended /\ rt[r].active = "none"
    /\ disk[s] = "idle"
    /\ disk' = [disk EXCEPT ![s] = "archived"]
    /\ rt' = [rt EXCEPT ![r].archived = TRUE]
    /\ Counted
    /\ UNCHANGED <<cached, tableVars, suspended, hooks, refVars, connVars, op, promptVars,
                   reap, stopVars, historyVars, faults>>

(* ArchiveSession of a session that is only on disk: opened, marked, closed.  *)
ArchiveStored(s) ==
    /\ reap = NoReap /\ s \in DOMAIN disk /\ RouteSession(s) = None /\ disk[s] = "idle"
    /\ disk' = [disk EXCEPT ![s] = "archived"]
    /\ CloseSession(s, rt)
    /\ Counted
    /\ UNCHANGED <<tableVars, suspended, hooks, refVars, connVars, op, promptVars,
                   reap, stopVars, historyVars, faults>>

-----------------------------------------------------------------------------
(* Stop, step by step *)

StopStep(from, to) ==
    /\ plugin = from
    /\ plugin' = to
    /\ UNCHANGED <<disk, current, suspended, hooks, refVars, connVars, op, promptVars, reap,
                   finalizers, admitted, late, historyVars, faults>>

Registered == {manager[s] : s \in Sessions} \ {None}

(* closeAdmission; the manager refuses registrations and runs from now on and *)
(* copies its table.                                                          *)
StopBegin ==
    /\ StopStep("up", "stopping") /\ Counted
    /\ awaiting' = Registered
    /\ UNCHANGED <<cached, rt, manager>>

(* manager.Close goes through the copy: a runtime with a run is waited for,   *)
(* one without is not looked at again.                                        *)
CloseAwaits(r) ==
    /\ plugin = "stopping" /\ r \in awaiting /\ rt[r].active = "none"
    /\ awaiting' = awaiting \ {r}
    /\ UNCHANGED <<repoVars, rt, tableVars, suspended, hooks, refVars, connVars, op, promptVars,
                   reap, finalizers, plugin, admitted, late, historyVars, inputs, faults>>

(* Then it closes the hubs and empties the table; a runtime that was released *)
(* since then was closed by its release.                                      *)
StopManager ==
    /\ awaiting = {}
    /\ StopStep("stopping", "drained")
    /\ manager' = [s \in Sessions |-> None]
    /\ rt' = [r \in DOMAIN rt |-> IF r \in Registered /\ rt[r].hub = "open"
                                  THEN [rt[r] EXCEPT !.hub = "closed"] ELSE rt[r]]
    /\ UNCHANGED <<cached, awaiting, inputs>>

(* Mutant of StopCommands: the commands in flight are not waited for. *)
StopCommandsLater == StopStep("drained", "quiet") /\ UNCHANGED <<cached, rt, manager, awaiting, inputs>>

(* inFlight.wait *)
StopCommands ==
    /\ \A c \in Callers : prompt[c].pc \notin {"gate", "unbind", "release", "clear"}
    /\ StopStep("drained", "quiet") /\ UNCHANGED <<cached, rt, manager, awaiting, inputs>>

(* bgFinalizers.Wait, then the memory is closed. *)
StopMemory ==
    /\ finalizers = 0
    /\ StopStep("quiet", "finalized") /\ UNCHANGED <<cached, rt, manager, awaiting, inputs>>

(* repo.Close *)
StopStores ==
    /\ StopStep("finalized", "closed")
    /\ cached' = {}
    /\ rt' = [r \in DOMAIN rt |-> [rt[r] EXCEPT !.open = FALSE]]
    /\ UNCHANGED <<manager, awaiting, inputs>>

-----------------------------------------------------------------------------
Release == ReapRemove \/ ReapCloseEvents \/ ReapCloseStore

Requests(c) ==
    \/ RequestNew(c) \/ CreateBoundSession(c) \/ SetBinding(c) \/ BindConnectionSession(c)
    \/ \E s \in Sessions : RequestLoad(c, s)
    \/ SessionArchived(c) \/ ArchivedSessionHistory(c) \/ Evict(c)
    \/ LoadRouted(c) \/ LoadReopened(c)

Runs ==
    \/ \E s \in Sessions : StartRun(s)
    \/ \E c \in Callers : StartRunSync(c) \/ ReserveSync(c)
    \/ \E r \in DOMAIN rt :
         Reserve(r) \/ AcceptRun(r) \/ RollbackRun(r) \/ AcquireRun(r) \/ FinalizeRun(r) \/ onSessionRunDone(r)

NewCommand(c) ==
    \/ EnterNew(c) \/ GiveUpNew(c) \/ startSession(c)
    \/ UnbindSession(c) \/ ReleaseOld(c) \/ ClearBinding(c)

Connection(c) ==
    \/ ConnClose(c) \/ ReleaseConnection(c) \/ TryReleaseSession(c)
    \/ \E s \in Sessions : SubscribeEvents(c, s)
    \/ EnsureHub(c)

Archive == \E s \in Sessions : ArchiveMounted(s) \/ ArchiveStored(s)

Stop ==
    \/ StopBegin \/ (\E r \in DOMAIN rt : CloseAwaits(r)) \/ StopManager
    \/ StopCommands \/ StopMemory \/ StopStores

Next ==
    \/ Release \/ Runs \/ FinalizerEnds \/ Archive \/ Stop
    \/ \E c \in Conns : Requests(c) \/ Connection(c)
    \/ \E c \in Callers : NewCommand(c)

Spec == Init /\ [][Next]_vars

-----------------------------------------------------------------------------
(* A run never works over a closed store: the release retires the runtime     *)
(* before it closes the store (lifecycle.go tryReleaseSessionLocked against   *)
(* supervisor.go StartRun), an archive and its eviction leave running         *)
(* sessions alone, and Stop waits for the runs first.  Excepted is exactly    *)
(* what the code leaves open: a submission that found the manager open and    *)
(* reserved only when Close was done with its runtime is waited for by nobody *)
(* (supervisor.go:118-121 against :152).                                      *)
RunsHaveStores ==
    \A r \in DOMAIN rt \ late : rt[r].active # "none" => rt[r].open

(* A session nobody refers to is on its way out: its release is in progress,  *)
(* somebody is about to evaluate or to bind it, or it is suspended and the    *)
(* hook of its run is still to come.  Excepted are the sessions in lapsed,    *)
(* whose last reference went away without an evaluation.                      *)
Referenced(s) ==
    \/ \E c \in Conns : byClient[c] = s
    \/ manager[s] = current

EvaluationPending(s) ==
    \/ reap.sess = s
    \/ \E c \in Conns : left[c] = s \/ (op[c].sess = s /\ op[c].pc \in {"remember", "bind"})
    \/ \E c \in Callers : prompt[c].pc \in {"unbind", "release"} /\ rt[prompt[c].rt].sess = s
    \/ s \in suspended /\ (rt[manager[s]].active # "none" \/ manager[s] \in hooks)

ReleaseIsOwed ==
    \A s \in DOMAIN disk :
        manager[s] # None /\ ~Referenced(s) /\ s \notin lapsed => EvaluationPending(s)

(* The session an open connection is bound to can be routed: no release takes *)
(* a bound session, unless it was unbound when the release began              *)
(* (lifecycle.go tryReleaseSession's recheck of the bindings).                *)
BoundIsAlive ==
    \A c \in Conns \ stolen :
        byClient[c] # None /\ plugin = "up" => RouteSession(byClient[c]) # None

(* Stop closes the memory after every background checkpoint: none is running  *)
(* and no /new that could start one is left (plugin.go Stop).                 *)
MemoryOutlivesFinalizers ==
    plugin \in {"finalized", "closed"} => finalizers = 0

=============================================================================
