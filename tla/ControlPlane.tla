--------------------------- MODULE ControlPlane ---------------------------
(***************************************************************************)
(* The control plane of the daemon: the control lease of a session         *)
(* (agentcontrol/lease.go), the single-flight submission of runs by        *)
(* request id (agentcontrol/idempotency.go), the fenced operations built   *)
(* on them (agentcontrol/runs.go, approval.go), and the attach, detach and *)
(* Close of a connection's handler (core/service/acp/xgw.go).              *)
(*                                                                         *)
(* An operation o is one request, served by a goroutine of its own; pc[o]  *)
(* is where it stands.  leaseMu and hMu are the mutexes SessionLease.mu    *)
(* and FrontendHandler.mu; critical sections that contain no other wait    *)
(* are one step.  A run and a subscription are named by the operation that *)
(* created them.                                                           *)
(*                                                                         *)
(* The lease is kept under the name the client used, the request table     *)
(* under the id of the runtime the name resolves to: without persistence   *)
(* two names reach the same runtime.  Sessions stay registered here.       *)
(***************************************************************************)
EXTENDS Naturals, Sequences, FiniteSets

CONSTANTS
    Conns,        \* connections, each with its handler
    Names,        \* session ids as clients write them
    Sessions,     \* runtimes
    RuntimeOf,    \* the runtime a name resolves to
    RequestIds,   \* idempotency keys
    Inputs,       \* prompts
    Ops,          \* requests, each served once
    Offered,      \* bound: the requests that clients make, per operation
    Leavers,      \* bound: the connections that may close
    MaxTracked,   \* maxTrackedRequestIDs
    NoConn, NoOp

Errors == {"lost", "conflict", "failed", "closed"}

ASSUME ControlAssumption ==
    /\ RuntimeOf \in [Names -> Sessions]
    /\ NoConn \notin Conns
    /\ Ops \cap ({NoOp, "ok"} \cup Errors) = {}
    /\ MaxTracked \in Nat \ {0}

Keys == Sessions \X RequestIds

(* The requests.  "fenced" stands for CancelRun, ResolveApproval and       *)
(* ArchiveSession, which commit one short operation under the lease.  ctl  *)
(* is mode=control.                                                        *)
Requests ==
    [kind : {"start"}, conn : Conns, name : Names, rid : RequestIds, input : Inputs]
      \cup [kind : {"fenced"}, conn : Conns, name : Names]
      \cup [kind : {"attach", "detach"}, conn : Conns, name : Names, ctl : BOOLEAN]

NoRequest == [kind |-> "none"]

ASSUME BoundsAssumption == Offered \in [Ops -> SUBSET Requests] /\ Leavers \subseteq Conns

VARIABLES
    req, pc,      \* the request an operation serves, and where it stands
    answer,       \* what it returned: a run, "ok" or an error
    \* LeaseRegistry: names with an entry, holder and mutex of each
    leases, holder, leaseMu,
    \* RequestRegistry; joined[o]: the flight o waits for, landed: flights whose done is closed
    table, order, flights, joined, landed,
    \* what start() returned to the leader
    outcome,
    \* the active run of a runtime, all accepted runs, all fenced operations that took effect
    active, runs, fenced,
    \* history: runs whose record was evicted
    forgotten,
    \* FrontendHandler: mutex, closed flag, subscription table
    hMu, closed, subs,
    \* a subscription: none, made, pumping, ended; and whether stop() was called on it
    pump, stopped,
    \* the subscription an operation has taken out of the table and must stop
    old,
    \* progress of Close: where it is, what it has to stop and which leases it has to visit
    closePc, toStop, toRelease

leaseVars == <<leases, holder, leaseMu>>
regVars   == <<table, order, flights, landed, forgotten>>
runVars   == <<active, runs, fenced>>
subVars   == <<subs, pump, stopped>>
closeVars == <<closed, closePc, toStop, toRelease>>
vars == <<req, pc, answer, leaseVars, regVars, joined, outcome, runVars, hMu, subVars, old, closeVars>>

Key(o) == <<RuntimeOf[req[o].name], req[o].rid>>

Goto(o, label) == pc' = [pc EXCEPT ![o] = label]

Return(o, value) ==
    /\ Goto(o, "returned")
    /\ answer' = [answer EXCEPT ![o] = value]

(* The deferred Unlock of WithControl.                                     *)
Unlock(o) == leaseMu' = [leaseMu EXCEPT ![req[o].name] = NoOp]

-----------------------------------------------------------------------------
(* A request is read from an open connection; its goroutine may run long   *)
(* after the connection is gone (Server.Done waits for prompts only).      *)
Issue(o, r) ==
    /\ pc[o] = "idle"
    /\ closePc[r.conn] = "open"
    /\ req' = [req EXCEPT ![o] = r]
    /\ Goto(o, IF r.kind = "attach" THEN "subscribe" ELSE IF r.kind = "detach" THEN "remove" ELSE "lock")
    /\ UNCHANGED <<answer, leaseVars, regVars, joined, outcome, runVars, hMu, subVars, old, closeVars>>

(* WithControl: lock, then the holder check.  Like every use of a lease it *)
(* begins with lease(name), which creates the entry.                       *)
WithControl(o) ==
    /\ pc[o] = "lock"
    /\ leaseMu[req[o].name] = NoOp
    /\ leases' = leases \cup {req[o].name}
    /\ IF holder[req[o].name] = req[o].conn
         THEN /\ leaseMu' = [leaseMu EXCEPT ![req[o].name] = o]
              /\ Goto(o, IF req[o].kind = "start" THEN "submit" ELSE "commit")
              /\ UNCHANGED answer
         ELSE Return(o, "lost") /\ UNCHANGED leaseMu
    /\ UNCHANGED <<req, holder, regVars, joined, outcome, runVars, hMu, subVars, old, closeVars>>

(* The body of CancelRun, ResolveApproval or ArchiveSession takes effect   *)
(* ...                                                                     *)
CommitFenced(o) ==
    /\ pc[o] = "commit"
    /\ fenced' = fenced \cup {o}
    /\ Unlock(o)
    /\ Return(o, "ok")
    /\ UNCHANGED <<req, leases, holder, regVars, joined, outcome, active, runs, hMu, subVars, old, closeVars>>

(* Mutant of CommitRefused: the error path leaves the lease locked.        *)
CommitRefusedLocked(o) ==
    /\ pc[o] = "commit"
    /\ Return(o, "failed")
    /\ UNCHANGED <<req, leaseVars, regVars, joined, outcome, runVars, hMu, subVars, old, closeVars>>

(* ... or is refused: no such run or approval, or another session's.       *)
CommitRefused(o) ==
    /\ pc[o] = "commit"
    /\ Unlock(o)
    /\ Return(o, "failed")
    /\ UNCHANGED <<req, leases, holder, regVars, joined, outcome, runVars, hMu, subVars, old, closeVars>>

-----------------------------------------------------------------------------
(* RequestRegistry.Submit.                                                 *)

(* 1: the key is in the table.                                             *)
SubmitHit(o) ==
    /\ pc[o] = "submit"
    /\ table[Key(o)] # NoOp
    /\ Return(o, IF req[table[Key(o)]].input = req[o].input THEN table[Key(o)] ELSE "conflict")
    /\ Unlock(o)
    /\ UNCHANGED <<req, leases, holder, regVars, joined, outcome, runVars, hMu, subVars, old, closeVars>>

(* 2: the key is in flight; the same input waits, another is refused.      *)
SubmitJoin(o) ==
    /\ pc[o] = "submit"
    /\ table[Key(o)] = NoOp
    /\ flights[Key(o)] # NoOp
    /\ IF req[flights[Key(o)]].input = req[o].input
         THEN /\ joined' = [joined EXCEPT ![o] = flights[Key(o)]]
              /\ Goto(o, "join")
              /\ UNCHANGED <<answer, leaseMu>>
         ELSE Return(o, "conflict") /\ Unlock(o) /\ UNCHANGED joined
    /\ UNCHANGED <<req, leases, holder, regVars, outcome, runVars, hMu, subVars, old, closeVars>>

JoinReturns(o) ==
    /\ pc[o] = "join"
    /\ joined[o] \in landed
    /\ Return(o, outcome[joined[o]])
    /\ joined' = [joined EXCEPT ![o] = NoOp]
    /\ Unlock(o)
    /\ UNCHANGED <<req, leases, holder, regVars, outcome, runVars, hMu, subVars, old, closeVars>>

(* Mutant of SubmitLead: check the table only, then submit.                *)
LeadUnchecked(o) ==
    /\ pc[o] = "submit"
    /\ table[Key(o)] = NoOp
    /\ flights' = [flights EXCEPT ![Key(o)] = o]
    /\ Goto(o, "start")
    /\ UNCHANGED <<req, answer, leaseVars, table, order, landed, forgotten, joined, outcome,
                   runVars, hMu, subVars, old, closeVars>>

(* 3: become the leader.                                                   *)
SubmitLead(o) ==
    /\ pc[o] = "submit"
    /\ table[Key(o)] = NoOp
    /\ flights[Key(o)] = NoOp
    /\ flights' = [flights EXCEPT ![Key(o)] = o]
    /\ Goto(o, "start")
    /\ UNCHANGED <<req, answer, leaseVars, table, order, landed, forgotten, joined, outcome,
                   runVars, hMu, subVars, old, closeVars>>

(* manager.StartRun accepts the run ...                                    *)
StartAccepted(o) ==
    /\ pc[o] = "start"
    /\ active[RuntimeOf[req[o].name]] = NoOp
    /\ active' = [active EXCEPT ![RuntimeOf[req[o].name]] = o]
    /\ runs' = runs \cup {o}
    /\ outcome' = [outcome EXCEPT ![o] = o]
    /\ Goto(o, "record")
    /\ UNCHANGED <<req, answer, leaseVars, regVars, joined, fenced, hMu, subVars, old, closeVars>>

(* ... or refuses it (ErrRunActive, queue full, journal), or panics; the   *)
(* deferred function then does what the failure path does.                 *)
StartRefused(o) ==
    /\ pc[o] = "start"
    /\ outcome' = [outcome EXCEPT ![o] = "failed"]
    /\ Goto(o, "record")
    /\ UNCHANGED <<req, answer, leaseVars, regVars, joined, runVars, hMu, subVars, old, closeVars>>

(* recordLocked: order grows by one key, so the loop evicts at most one.   *)
Recorded(k, o) ==
    LET grown == Append(order, k)
        full  == Len(grown) > MaxTracked
    IN  /\ order' = IF full THEN Tail(grown) ELSE grown
        /\ table' = [q \in Keys |-> IF q = k THEN o
                                    ELSE IF full /\ q = Head(grown) THEN NoOp
                                    ELSE table[q]]
        /\ forgotten' = IF full THEN forgotten \cup {table[Head(grown)]} ELSE forgotten

(* The flight is removed and a success recorded, under registry.mu.        *)
RecordResult(o) ==
    /\ pc[o] = "record"
    /\ flights' = [flights EXCEPT ![Key(o)] = NoOp]
    /\ IF outcome[o] = o THEN Recorded(Key(o), o) ELSE UNCHANGED <<table, order, forgotten>>
    /\ Goto(o, "land")
    /\ UNCHANGED <<req, answer, leaseVars, landed, joined, outcome, runVars, hMu, subVars, old, closeVars>>

(* f.handle and f.err are written, done is closed, Submit returns.         *)
Land(o) ==
    /\ pc[o] = "land"
    /\ landed' = landed \cup {o}
    /\ Return(o, outcome[o])
    /\ Unlock(o)
    /\ UNCHANGED <<req, leases, holder, table, order, flights, forgotten, joined, outcome, runVars,
                   hMu, subVars, old, closeVars>>

(* A run ends by itself (RunSupervisor).                                   *)
RunEnds(s) ==
    /\ active[s] # NoOp
    /\ active' = [active EXCEPT ![s] = NoOp]
    /\ UNCHANGED <<req, pc, answer, leaseVars, regVars, joined, outcome, runs, fenced, hMu,
                   subVars, old, closeVars>>

-----------------------------------------------------------------------------
(* x-goworker/session/attach.                                              *)

(* SubscribeEvents outside any lock; it may fail (expired cursor).         *)
Subscribe(o) ==
    /\ pc[o] = "subscribe"
    /\ \/ /\ pump' = [pump EXCEPT ![o] = "made"]
          /\ Goto(o, "install")
          /\ UNCHANGED answer
       \/ Return(o, "failed") /\ UNCHANGED pump
    /\ UNCHANGED <<req, leaseVars, regVars, joined, outcome, runVars, hMu, subs, stopped, old, closeVars>>

(* Mutant of Install: no check of closed.                                  *)
InstallAnyway(o) ==
    LET c == req[o].conn  n == req[o].name IN
    /\ pc[o] = "install"
    /\ hMu[c] = NoOp
    /\ subs' = [subs EXCEPT ![c][n] = o]
    /\ old' = [old EXCEPT ![o] = subs[c][n]]
    /\ IF req[o].ctl THEN hMu' = [hMu EXCEPT ![c] = o] /\ Goto(o, "acquire")
                     ELSE Goto(o, "exchange") /\ UNCHANGED hMu
    /\ UNCHANGED <<req, answer, leaseVars, regVars, joined, outcome, runVars, pump, stopped, closeVars>>

(* The commit section under h.mu: closed check, exchange of the            *)
(* subscription; h.mu is kept until the lease is acquired.                 *)
Install(o) ==
    LET c == req[o].conn  n == req[o].name IN
    /\ pc[o] = "install"
    /\ hMu[c] = NoOp
    /\ IF closed[c]
         THEN /\ Return(o, "closed")
              /\ pump' = [pump EXCEPT ![o] = "ended"]
              /\ UNCHANGED <<subs, old, hMu>>
         ELSE /\ subs' = [subs EXCEPT ![c][n] = o]
              /\ old' = [old EXCEPT ![o] = subs[c][n]]
              /\ IF req[o].ctl THEN hMu' = [hMu EXCEPT ![c] = o] /\ Goto(o, "acquire")
                               ELSE Goto(o, "exchange") /\ UNCHANGED hMu
              /\ UNCHANGED <<answer, pump>>
    /\ UNCHANGED <<req, leaseVars, regVars, joined, outcome, runVars, stopped, closeVars>>

(* Mutant of Acquire: takes the lease without its mutex.                   *)
AcquireUnlocked(o) ==
    /\ pc[o] = "acquire"
    /\ leases' = leases \cup {req[o].name}
    /\ holder' = [holder EXCEPT ![req[o].name] = req[o].conn]
    /\ hMu' = [hMu EXCEPT ![req[o].conn] = NoOp]
    /\ Goto(o, "exchange")
    /\ UNCHANGED <<req, answer, leaseMu, regVars, joined, outcome, runVars, subVars, old, closeVars>>

(* LeaseRegistry.Acquire: a takeover waits for the section of WithControl. *)
Acquire(o) ==
    /\ pc[o] = "acquire"
    /\ leaseMu[req[o].name] = NoOp
    /\ leases' = leases \cup {req[o].name}
    /\ holder' = [holder EXCEPT ![req[o].name] = req[o].conn]
    /\ hMu' = [hMu EXCEPT ![req[o].conn] = NoOp]
    /\ Goto(o, "exchange")
    /\ UNCHANGED <<req, answer, leaseMu, regVars, joined, outcome, runVars, subVars, old, closeVars>>

(* The replaced subscription is stopped and the new pump started.          *)
Exchange(o) ==
    /\ pc[o] = "exchange"
    /\ stopped' = stopped \cup ({old[o]} \ {NoOp})
    /\ pump' = [pump EXCEPT ![o] = "pumping"]
    /\ old' = [old EXCEPT ![o] = NoOp]
    /\ Return(o, "ok")
    /\ UNCHANGED <<req, leaseVars, regVars, joined, outcome, runVars, hMu, subs, closeVars>>

(* pumpSessionEvents ends: stopped, disconnected by the hub, or unable to  *)
(* write; clearSub removes the entry only if it is still its own.          *)
PumpEnds(o) ==
    LET c == req[o].conn  n == req[o].name IN
    /\ pump[o] = "pumping"
    /\ hMu[c] = NoOp
    /\ pump' = [pump EXCEPT ![o] = "ended"]
    /\ subs' = IF subs[c][n] = o THEN [subs EXCEPT ![c][n] = NoOp] ELSE subs
    /\ UNCHANGED <<req, pc, answer, leaseVars, regVars, joined, outcome, runVars, hMu, stopped,
                   old, closeVars>>

-----------------------------------------------------------------------------
(* x-goworker/session/detach.                                              *)
Remove(o) ==
    LET c == req[o].conn  n == req[o].name IN
    /\ pc[o] = "remove"
    /\ hMu[c] = NoOp
    /\ old' = [old EXCEPT ![o] = subs[c][n]]
    /\ subs' = [subs EXCEPT ![c][n] = NoOp]
    /\ IF req[o].ctl THEN hMu' = [hMu EXCEPT ![c] = o] /\ Goto(o, "release")
                     ELSE Goto(o, "stop") /\ UNCHANGED hMu
    /\ UNCHANGED <<req, answer, leaseVars, regVars, joined, outcome, runVars, pump, stopped, closeVars>>

(* LeaseRegistry.Release: only the holder's own.                           *)
Release(o) ==
    /\ pc[o] = "release"
    /\ leaseMu[req[o].name] = NoOp
    /\ leases' = leases \cup {req[o].name}
    /\ holder' = IF holder[req[o].name] = req[o].conn
                   THEN [holder EXCEPT ![req[o].name] = NoConn] ELSE holder
    /\ hMu' = [hMu EXCEPT ![req[o].conn] = NoOp]
    /\ Goto(o, "stop")
    /\ UNCHANGED <<req, answer, leaseMu, regVars, joined, outcome, runVars, subVars, old, closeVars>>

StopRemoved(o) ==
    /\ pc[o] = "stop"
    /\ stopped' = stopped \cup ({old[o]} \ {NoOp})
    /\ old' = [old EXCEPT ![o] = NoOp]
    /\ Return(o, "ok")
    /\ UNCHANGED <<req, leaseVars, regVars, joined, outcome, runVars, hMu, subs, pump, closeVars>>

-----------------------------------------------------------------------------
(* FrontendHandler.Close, called once when the connection is gone.         *)
CloseBegin(c) ==
    /\ closePc[c] = "open"
    /\ hMu[c] = NoOp
    /\ closed' = [closed EXCEPT ![c] = TRUE]
    /\ toStop' = [toStop EXCEPT ![c] = {subs[c][n] : n \in Names} \ {NoOp}]
    /\ subs' = [subs EXCEPT ![c] = [n \in Names |-> NoOp]]
    /\ closePc' = [closePc EXCEPT ![c] = "stop"]
    /\ UNCHANGED <<req, pc, answer, leaseVars, regVars, joined, outcome, runVars, hMu, pump,
                   stopped, old, toRelease>>

(* The subscriptions are stopped; ReleaseConnection copies the lease table.*)
CloseStop(c) ==
    /\ closePc[c] = "stop"
    /\ stopped' = stopped \cup toStop[c]
    /\ toStop' = [toStop EXCEPT ![c] = {}]
    /\ toRelease' = [toRelease EXCEPT ![c] = leases]
    /\ closePc' = [closePc EXCEPT ![c] = "release"]
    /\ UNCHANGED <<req, pc, answer, leaseVars, regVars, joined, outcome, runVars, hMu, subs,
                   pump, old, closed>>

CloseRelease(c, n) ==
    /\ closePc[c] = "release"
    /\ n \in toRelease[c]
    /\ leaseMu[n] = NoOp
    /\ holder' = IF holder[n] = c THEN [holder EXCEPT ![n] = NoConn] ELSE holder
    /\ toRelease' = [toRelease EXCEPT ![c] = @ \ {n}]
    /\ UNCHANGED <<req, pc, answer, leases, leaseMu, regVars, joined, outcome, runVars, hMu, subVars,
                   old, closed, closePc, toStop>>

CloseEnd(c) ==
    /\ closePc[c] = "release"
    /\ toRelease[c] = {}
    /\ closePc' = [closePc EXCEPT ![c] = "gone"]
    /\ UNCHANGED <<req, pc, answer, leaseVars, regVars, joined, outcome, runVars, hMu, subVars,
                   old, closed, toStop, toRelease>>

-----------------------------------------------------------------------------
Init ==
    /\ req = [o \in Ops |-> NoRequest]
    /\ pc = [o \in Ops |-> "idle"]
    /\ answer = [o \in Ops |-> NoOp]
    /\ leases = {}
    /\ holder = [n \in Names |-> NoConn]
    /\ leaseMu = [n \in Names |-> NoOp]
    /\ table = [k \in Keys |-> NoOp]
    /\ order = << >>
    /\ flights = [k \in Keys |-> NoOp]
    /\ joined = [o \in Ops |-> NoOp]
    /\ landed = {}
    /\ outcome = [o \in Ops |-> NoOp]
    /\ active = [s \in Sessions |-> NoOp]
    /\ runs = {} /\ fenced = {} /\ forgotten = {}
    /\ hMu = [c \in Conns |-> NoOp]
    /\ closed = [c \in Conns |-> FALSE]
    /\ subs = [c \in Conns |-> [n \in Names |-> NoOp]]
    /\ pump = [o \in Ops |-> "none"]
    /\ stopped = {}
    /\ old = [o \in Ops |-> NoOp]
    /\ closePc = [c \in Conns |-> "open"]
    /\ toStop = [c \in Conns |-> {}]
    /\ toRelease = [c \in Conns |-> {}]

(* The steps of the goroutine that serves o.                               *)
Serve(o) ==
    \/ WithControl(o) \/ CommitFenced(o) \/ CommitRefused(o)
    \/ SubmitHit(o) \/ SubmitJoin(o) \/ JoinReturns(o) \/ SubmitLead(o)
    \/ StartAccepted(o) \/ StartRefused(o) \/ RecordResult(o) \/ Land(o)
    \/ Subscribe(o) \/ Install(o) \/ Acquire(o) \/ Exchange(o)
    \/ Remove(o) \/ Release(o) \/ StopRemoved(o)

Close(c) ==
    \/ CloseStop(c) \/ CloseEnd(c)
    \/ \E n \in Names : CloseRelease(c, n)

Next ==
    \/ \E o \in Ops : Serve(o) \/ PumpEnds(o) \/ \E r \in Offered[o] : Issue(o, r)
    \/ \E s \in Sessions : RunEnds(s)
    \/ \E c \in Leavers : CloseBegin(c) \/ Close(c)

Spec == Init /\ [][Next]_vars

-----------------------------------------------------------------------------
Labels == {"idle", "lock", "commit", "submit", "join", "start", "record", "land", "subscribe",
           "install", "acquire", "exchange", "remove", "release", "stop", "returned"}

(* Types of all variables.                                                 *)
TypeOK ==
    /\ req \in [Ops -> Requests \cup {NoRequest}]
    /\ pc \in [Ops -> Labels]
    /\ answer \in [Ops -> Ops \cup {NoOp, "ok"} \cup Errors]
    /\ leases \subseteq Names
    /\ holder \in [Names -> Conns \cup {NoConn}]
    /\ leaseMu \in [Names -> Ops \cup {NoOp}]
    /\ table \in [Keys -> Ops \cup {NoOp}]
    /\ order \in Seq(Keys)
    /\ flights \in [Keys -> Ops \cup {NoOp}]
    /\ joined \in [Ops -> Ops \cup {NoOp}]
    /\ landed \subseteq Ops
    /\ outcome \in [Ops -> Ops \cup {NoOp, "failed"}]
    /\ active \in [Sessions -> Ops \cup {NoOp}]
    /\ runs \subseteq Ops /\ fenced \subseteq Ops /\ forgotten \subseteq Ops
    /\ hMu \in [Conns -> Ops \cup {NoOp}]
    /\ closed \in [Conns -> BOOLEAN]
    /\ subs \in [Conns -> [Names -> Ops \cup {NoOp}]]
    /\ pump \in [Ops -> {"none", "made", "pumping", "ended"}]
    /\ stopped \subseteq Ops
    /\ old \in [Ops -> Ops \cup {NoOp}]
    /\ closePc \in [Conns -> {"open", "stop", "release", "gone"}]
    /\ toStop \in [Conns -> SUBSET Ops]
    /\ toRelease \in [Conns -> SUBSET Names]

(* The lease service of ControlLease, seen in the control plane.           *)
Lease == INSTANCE ControlLease WITH
    effected <- {<<req[o].name, req[o].conn, o>> : o \in runs \cup fenced},
    gone <- {c \in Conns : closePc[c] = "gone"}

(* Control operations take effect only under the lease of their own        *)
(* connection, takeovers included, and a closed connection holds no lease  *)
(* (WithControl, Acquire, ReleaseConnection and the closed barrier).       *)
ImplementsLease == Lease!Spec

(* A request id starts one run: two runs with the same key exist only if   *)
(* the table, at its capacity, forgot the first (Submit, recordLocked);    *)
(* and a call is answered with a run of its own key and its own input.     *)
OneRunPerRequest ==
    /\ \A o1, o2 \in runs :
         Key(o1) = Key(o2) => o1 = o2 \/ o1 \in forgotten \/ o2 \in forgotten
    /\ \A o \in Ops : pc[o] = "returned" /\ answer[o] \in Ops =>
         /\ answer[o] \in runs
         /\ Key(answer[o]) = Key(o)
         /\ req[answer[o]].input = req[o].input

(* The subscriptions of a connection that nobody has stopped or given up.  *)
Unstopped(c) ==
    {o \in Ops : req[o].kind = "attach" /\ req[o].conn = c /\ o \notin stopped
                 /\ pump[o] \in {"made", "pumping"} /\ pc[o] # "install"}

(* No subscription leaks past attach, detach and Close: one that still     *)
(* delivers is the entry of its session in the handler's table, or the     *)
(* operation that took it out is about to stop it.  After Close only the   *)
(* latter remain.                                                          *)
NoOrphanSubscription ==
    \A c \in Conns : \A o \in Unstopped(c) :
        \/ closePc[c] = "open" /\ subs[c][req[o].name] = o
        \/ o \in toStop[c]
        \/ \E p \in Ops : pc[p] \in {"acquire", "exchange", "release", "stop"} /\ old[p] = o

-----------------------------------------------------------------------------
(* A goroutine that can go on does; a stopped pump sees its done channel.  *)
FairSpec ==
    /\ Spec
    /\ \A o \in Ops : WF_vars(Serve(o)) /\ WF_vars(o \in stopped /\ PumpEnds(o))
    /\ \A c \in Leavers : WF_vars(Close(c))

AtRest ==
    /\ \A o \in Ops : pc[o] \in {"idle", "returned"} /\ (o \in stopped => pump[o] = "ended")
    /\ \A c \in Conns : closePc[c] \in {"open", "gone"}

(* Nobody waits for ever, whatever locks and flights the others hold:      *)
(* every request returns, every Close finishes and every stopped pump      *)
(* ends.  (Each request is served once, so coming to rest again and again  *)
(* is the same as everybody returning.)                                    *)
EverybodyReturns == []<>AtRest

=============================================================================
