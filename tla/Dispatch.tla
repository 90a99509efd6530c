------------------------------ MODULE Dispatch ------------------------------
(***************************************************************************)
(* The commit dispatcher: the task store and its state machine             *)
(* (ai-dispatch/task), the orchestrator that drives a task through a       *)
(* worker (ai-dispatch/orchestrator.go), the daemon plugin that registers  *)
(* runs, decides reviews and stops (plugins/dispatcher/plugin.go), and the *)
(* ACP connections that submit and observe tasks (ai-acp/server.go).       *)
(*                                                                         *)
(* A task's snapshot keeps its status and whether Worktree and             *)
(* WorkerSession are set; prompt, worker, times and commits are left out.  *)
(* git, the worker process, the clients and the writes to both files may   *)
(* fail wherever the code handles a failure.  The event log counts from    *)
(* its opening: what OpenEventLog reads back lies before every cursor.     *)
(***************************************************************************)
EXTENDS Naturals, Sequences, FiniteSets

CONSTANTS Tasks,        \* the ids task.NewID hands out
          Conns,        \* ACP connections, one session each
          Reviewers,    \* callers of approve, complete, reject and cancel
          MaxParallel,  \* dispatch.max_parallel, at least 1
          MaxStarts,    \* bound: starts of the daemon
          MaxFaults,    \* bound: appends to the two files that do not complete
          NoTask, Nobody

ASSUME DispatchAssumption ==
    /\ MaxParallel \in Nat \ {0} /\ MaxStarts \in Nat \ {0} /\ MaxFaults \in Nat
    /\ Nobody \notin Conns \cup Reviewers

VARIABLES
    mem,          \* Store.tasks: the snapshots in memory
    disk,         \* what replay would make of tasks.jsonl
    tail,         \* the last line of tasks.jsonl: "clean" (it ends in its
                  \* newline), "torn" (half a record) or "whole" (all but that)
    under,        \* what replay would make of it without an unfinished last line
    lost,         \* tasks for which the file and the program came apart (ghost)
    log,          \* EventLog.events: the status events of each task
    unlogged,     \* tasks whose last status event could not be written (ghost)
    code,         \* tasks of kind code: submitted inside a git repository
    run,          \* the goroutine that drives a task
    running,      \* DispatcherPlugin.running
    ctxDone,      \* tasks whose run context is cancelled
    worktree,     \* git worktrees that exist
    branch,       \* dispatch/<id> branches that exist
    merged,       \* tasks whose branch was merged into the repository
    transitionMu, \* the holder of transitionMu
    rev,          \* the review command each reviewer is in
    conn,         \* aiacp.Server: closed or not, and its active prompt
    asked,        \* askPermissionPolicy: the routes that have not answered
    daemon,       \* the life of the process and the progress of Stop
    starts, faults

fileVars == <<disk, tail, under, lost>>
storeVars == <<mem, fileVars, faults>>
logVars == <<log, unlogged>>
gitVars == <<worktree, branch, merged>>
reviewVars == <<transitionMu, rev>>
lifeVars == <<code, daemon, starts>>
vars == <<mem, disk, tail, under, lost, log, unlogged, code, run, running, ctxDone, worktree,
          branch, merged, transitionMu, rev, conn, asked, daemon, starts, faults>>

-----------------------------------------------------------------------------
(* The task state machine *)

Status == {"queued", "dispatching", "working", "awaiting_review", "merging",
           "done", "rejected", "failed", "cancelled"}

Terminal(s) == s \in {"done", "rejected", "failed", "cancelled"}

transitions ==
    [queued          |-> {"dispatching", "failed", "cancelled"},
     dispatching     |-> {"working", "failed", "cancelled"},
     working         |-> {"awaiting_review", "failed", "cancelled"},
     awaiting_review |-> {"merging", "done", "rejected", "failed", "cancelled"},
     merging         |-> {"done", "failed", "cancelled"}]

CanTransition(from, to) == from \in DOMAIN transitions /\ to \in transitions[from]

(* The tail of a task ends once a human or nobody has to act on it. *)
tailComplete(s) == s = "awaiting_review" \/ Terminal(s)

Snapshot == [status : Status, wt : BOOLEAN, session : BOOLEAN]

ASSUME NoTaskIsNoSnapshot == NoTask \notin Snapshot

Queued == [status |-> "queued", wt |-> FALSE, session |-> FALSE]

(* What resumeInterrupted launches again. *)
Resumable(s) == ~Terminal(s) /\ s \notin {"awaiting_review", "merging"}

RunPCs == {"none", "admitted", "launched", "enqueue", "prepare", "savePrepared",
           "saveDispatching", "verify", "engage", "saveWorking", "prompt",
           "collect", "saveReview", "fail", "cancelInto", "cleanup", "exit", "ended"}

NoRun == [pc |-> "none", snap |-> Queued, by |-> Nobody, note |-> <<>>]

(* A connection's one active prompt: none, a synchronous dispatch, or the    *)
(* tail of a task at a cursor; sig is the buffered wake-up of Subscribe.     *)
NoPrompt == [kind |-> "none", task |-> NoTask, cursor |-> 0, sig |-> FALSE]

(* acceptLoop: a connection with its own server, ready for a prompt *)
Accepted == [closed |-> FALSE, prompt |-> NoPrompt]

(* What a review handler has left to do. *)
Plans == {<<>>, <<"look">>, <<"cancelled", "remove">>, <<"rejected", "remove">>, <<"remove">>,
          <<"ff", "merging", "remove", "done">>, <<"merging", "remove", "done">>,
          <<"remove", "done">>, <<"done">>}

Idle == [task |-> NoTask, snap |-> Queued, todo |-> <<>>]

StoreTyped ==
    /\ mem \in [Tasks -> Snapshot \cup {NoTask}]
    /\ disk \in [Tasks -> Snapshot \cup {NoTask}]
    /\ under \in [Tasks -> Snapshot \cup {NoTask}]
    /\ tail \in {"clean", "torn", "whole"} /\ lost \subseteq Tasks
    /\ log \in [Tasks -> Seq(Status)] /\ unlogged \subseteq Tasks

RunStates == [pc : RunPCs, snap : Snapshot, by : Conns \cup {Nobody},
              note : {<<>>} \cup {<<s>> : s \in Status}]

RunsTyped ==
    /\ run \in [Tasks -> RunStates]
    /\ running \subseteq Tasks /\ ctxDone \subseteq Tasks /\ code \subseteq Tasks
    /\ worktree \subseteq Tasks /\ branch \subseteq Tasks /\ merged \subseteq Tasks

ReviewsTyped ==
    /\ transitionMu \in Reviewers \cup {Nobody}
    /\ rev \in [Reviewers -> [task : Tasks \cup {NoTask}, snap : Snapshot, todo : Plans]]

ConnStates == [closed : BOOLEAN,
               prompt : [kind : {"none", "sync", "subscribed", "tailing"},
                         task : Tasks \cup {NoTask}, cursor : Nat, sig : BOOLEAN]]

TypeOK ==
    /\ StoreTyped /\ RunsTyped /\ ReviewsTyped
    /\ conn \in [Conns -> ConnStates]
    /\ asked \in [Tasks -> SUBSET Conns]
    /\ daemon \in {"up", "stopping", "draining", "closed", "down"}
    /\ starts \in 0 .. MaxStarts /\ faults \in 0 .. MaxFaults

Init ==
    /\ mem = [t \in Tasks |-> NoTask] /\ disk = mem /\ under = mem
    /\ tail = "clean" /\ lost = {}
    /\ log = [t \in Tasks |-> <<>>] /\ unlogged = {}
    /\ run = [t \in Tasks |-> NoRun] /\ running = {} /\ ctxDone = {}
    /\ code = {} /\ worktree = {} /\ branch = {} /\ merged = {}
    /\ transitionMu = Nobody /\ rev = [u \in Reviewers |-> Idle]
    /\ conn = [c \in Conns |-> Accepted]
    /\ asked = [t \in Tasks |-> {}]
    /\ daemon = "up" /\ starts = 1 /\ faults = 0

-----------------------------------------------------------------------------
(* Store and event log *)

storeOpen == daemon \in {"up", "stopping", "draining"}

(* Only a review writes these, and a cancelled run the last one. *)
ByReview == {"merging", "done", "rejected", "cancelled"}

(* A record that continues an unfinished line spoils it: a whole record that  *)
(* stood there is gone.  A review's record that is lost is a decision lost.   *)
Spoiled == {q \in Tasks : under[q] # disk[q] /\ disk[q].status \in ByReview}

(* appendLocked: one line with its newline.  After an unfinished line the new *)
(* record continues that line, and replay reads neither.                      *)
Append1(t, s) ==
    /\ mem' = [mem EXCEPT ![t] = s]
    /\ tail' = "clean"
    /\ IF tail = "clean"
       THEN disk' = [disk EXCEPT ![t] = s] /\ UNCHANGED lost
       ELSE /\ disk' = under
            /\ lost' = lost \cup Spoiled \cup (IF s.status \in ByReview THEN {t} ELSE {})
    /\ under' = disk'

(* An append that does not complete leaves nothing, half a line, or the whole *)
(* record without its newline, which replay reads although Update failed.     *)
CutAppend(t, s, alive) ==
    /\ storeOpen /\ faults < MaxFaults /\ faults' = faults + 1
    /\ \/ UNCHANGED fileVars
       \/ /\ tail' = "torn" /\ disk' = under /\ under' = under
          /\ lost' = lost \cup Spoiled
       \/ /\ tail = "clean" /\ tail' = "whole"
          /\ disk' = [disk EXCEPT ![t] = s] /\ under' = disk
          /\ lost' = IF alive THEN lost \cup {t} ELSE lost

(* EventLog.Append: the event, and a wake-up that a full channel absorbs; a   *)
(* write that fails leaves neither.                                           *)
LogStatus(t, s) ==
    \/ /\ log' = [log EXCEPT ![t] = Append(@, s)]
       /\ conn' = [c \in Conns |->
                     IF conn[c].prompt.task = t /\ conn[c].prompt.kind \in {"subscribed", "tailing"}
                     THEN [conn[c] EXCEPT !.prompt.sig = TRUE] ELSE conn[c]]
       /\ unlogged' = unlogged \ {t} /\ UNCHANGED faults
    \/ /\ faults < MaxFaults /\ faults' = faults + 1
       /\ unlogged' = unlogged \cup {t} /\ UNCHANGED <<log, conn>>

Changed(t, s) == mem[t] = NoTask \/ mem[t].status # s.status

(* What Orchestrator.Run has put into the task when it saves it. *)
Record(t) ==
    [run[t].snap EXCEPT !.status =
        CASE run[t].pc = "saveDispatching" -> "dispatching"
          [] run[t].pc = "saveWorking"     -> "working"
          [] run[t].pc = "saveReview"      -> "awaiting_review"
          [] run[t].pc = "fail"       -> IF Terminal(@) THEN @ ELSE "failed"
          [] run[t].pc = "cancelInto" -> IF CanTransition(@, "cancelled") THEN "cancelled" ELSE "failed"
          [] OTHER -> @]

(* Orchestrator.save: Add or Update, then onStatus when the status changed;   *)
(* the event is appended by Notify, a step of its own.                        *)
save(t, next, onError) ==
    \/ /\ storeOpen /\ Append1(t, Record(t)) /\ UNCHANGED faults
       /\ run' = [run EXCEPT ![t].pc = next, ![t].snap = Record(t),
                             ![t].note = IF Changed(t, Record(t)) THEN <<Record(t).status>> ELSE <<>>]
    \/ /\ run' = [run EXCEPT ![t].pc = onError, ![t].snap = Record(t)]
       /\ \/ ~storeOpen /\ UNCHANGED storeVars
          \/ CutAppend(t, Record(t), TRUE) /\ UNCHANGED mem

(* notifyStatus, called by save and updateTask *)
Notify(t) ==
    /\ daemon # "down" /\ run[t].note # <<>>
    /\ run' = [run EXCEPT ![t].note = <<>>]
    /\ IF storeOpen THEN LogStatus(t, run[t].note[1]) ELSE UNCHANGED <<logVars, conn, faults>>
    /\ UNCHANGED <<mem, fileVars, running, ctxDone, gitVars, reviewVars, asked, lifeVars>>

-----------------------------------------------------------------------------
(* The plugin: submission and launch *)

At(t, pc) == daemon # "down" /\ run[t].pc = pc /\ run[t].note = <<>>

Goto(t, pc) == run' = [run EXCEPT ![t].pc = pc]

(* addTask, detach and dispatchSync up to the capacity check; the kind comes  *)
(* from the working directory, and a synchronous dispatch is its connection's *)
(* active prompt.                                                             *)
Submit(t, by) ==
    /\ daemon \in {"up", "stopping"} /\ run[t].pc = "none" /\ mem[t] = NoTask
    /\ Cardinality(running) < MaxParallel
    /\ code' \in {code \cup {t}, code \ {t}}
    /\ run' = [run EXCEPT ![t] = [NoRun EXCEPT !.pc = "admitted", !.by = by]]
    /\ IF by = Nobody THEN UNCHANGED conn
       ELSE /\ ~conn[by].closed /\ conn[by].prompt = NoPrompt
            /\ conn' = [conn EXCEPT ![by].prompt = [NoPrompt EXCEPT !.kind = "sync", !.task = t]]
    /\ UNCHANGED <<storeVars, logVars, running, ctxDone, gitVars, reviewVars, asked, daemon, starts>>

(* launch and dispatchSync register the run; a synchronous run's context      *)
(* descends from the prompt's, which may be cancelled by now.                 *)
Register(t) ==
    /\ At(t, "admitted")
    /\ running' = running \cup {t}
    /\ Goto(t, "launched")
    /\ UNCHANGED <<storeVars, logVars, ctxDone, gitVars, reviewVars, conn, asked, lifeVars>>

(* The goroutine of launch re-reads the store; Run finds out whether it       *)
(* resumes.                                                                   *)
Begin(t) ==
    /\ At(t, "launched")
    /\ Goto(t, CASE run[t].by = Nobody /\ mem[t] # NoTask /\ mem[t].status # run[t].snap.status
                      -> "exit"
                 [] run[t].snap.status \in {"dispatching", "working"} -> "verify"
                 [] OTHER -> "enqueue")
    /\ UNCHANGED <<storeVars, logVars, running, ctxDone, gitVars, reviewVars, conn, asked, lifeVars>>

-----------------------------------------------------------------------------
(* Orchestrator.Run, one step per save, git command group or worker call *)

RunFrame == UNCHANGED <<logVars, running, ctxDone, reviewVars, conn, asked, lifeVars>>

Enqueue(t) ==
    /\ At(t, "enqueue")
    /\ save(t, "prepare", "exit")
    /\ UNCHANGED gitVars /\ RunFrame

(* prepare: git may fail before Worktree and Branch are assigned or in        *)
(* AddWorktree after it (worktree add -b makes the branch first, and a done   *)
(* context kills it), and fails when the path or the branch exists.           *)
Prepare(t) ==
    /\ At(t, "prepare")
    /\ \/ /\ t \notin code
          /\ Goto(t, "savePrepared") /\ UNCHANGED <<worktree, branch>>
       \/ /\ t \in code /\ t \notin ctxDone \cup worktree \cup branch
          /\ worktree' = worktree \cup {t} /\ branch' = branch \cup {t}
          /\ run' = [run EXCEPT ![t].pc = "savePrepared", ![t].snap.wt = TRUE]
       \/ /\ t \in code
          /\ Goto(t, "fail") /\ UNCHANGED <<worktree, branch>>
       \/ /\ t \in code
          /\ run' = [run EXCEPT ![t].pc = "fail", ![t].snap.wt = TRUE]
          /\ branch' \in {branch, branch \cup {t}}
          /\ worktree' \in IF t \in branch' \ branch THEN {worktree, worktree \cup {t}} ELSE {worktree}
    /\ UNCHANGED <<storeVars, merged>> /\ RunFrame

SavePrepared(t) ==
    /\ At(t, "savePrepared")
    /\ save(t, "saveDispatching", "fail")
    /\ UNCHANGED gitVars /\ RunFrame

SaveDispatching(t) ==
    /\ At(t, "saveDispatching")
    /\ save(t, "engage", "fail")
    /\ UNCHANGED gitVars /\ RunFrame

(* verifyWorkspace of a resumed task *)
Verify(t) ==
    /\ At(t, "verify")
    /\ Goto(t, IF t \in code /\ run[t].snap.wt /\ (t \notin worktree \/ t \in ctxDone)
               THEN "fail" ELSE "engage")
    /\ UNCHANGED <<storeVars, gitVars>> /\ RunFrame

(* session/new, or session/load of the worker session a resumed task was in, *)
(* under the run's context                                                   *)
establishSession(t) ==
    t \notin ctxDone /\ run' = [run EXCEPT ![t].pc = "saveWorking", ![t].snap.session = TRUE]

(* startWorker, Initialize and establishSession: each may fail *)
Engage(t) ==
    /\ At(t, "engage")
    /\ establishSession(t) \/ Goto(t, "fail")
    /\ UNCHANGED <<storeVars, gitVars>> /\ RunFrame

SaveWorking(t) ==
    /\ At(t, "saveWorking")
    /\ save(t, "prompt", "fail")
    /\ UNCHANGED gitVars /\ RunFrame

(* client.Prompt returns the worker's stop reason. *)
WorkerStops(t) ==
    /\ At(t, "prompt") /\ asked[t] = {}
    /\ Goto(t, "collect")
    /\ UNCHANGED <<storeVars, gitVars>> /\ RunFrame

(* client.Prompt fails without a cancelled context. *)
WorkerFails(t) ==
    /\ At(t, "prompt") /\ t \notin ctxDone
    /\ Goto(t, "fail")
    /\ UNCHANGED <<storeVars, gitVars>> /\ RunFrame

(* client.Prompt returns because its context is done. *)
PromptCancelled(t) ==
    /\ At(t, "prompt") /\ t \in ctxDone
    /\ Goto(t, "cancelInto")
    /\ UNCHANGED <<storeVars, gitVars>> /\ RunFrame

(* CollectCommits of a code task runs git under the run's context. *)
Collect(t) ==
    /\ At(t, "collect")
    /\ Goto(t, IF t \in code /\ (t \in ctxDone \/ t \notin worktree) THEN "fail" ELSE "saveReview")
    /\ UNCHANGED <<storeVars, gitVars>> /\ RunFrame

SaveReview(t) ==
    /\ At(t, "saveReview")
    /\ save(t, "exit", "fail")
    /\ UNCHANGED gitVars /\ RunFrame

Fail(t) ==
    /\ At(t, "fail")
    /\ save(t, "cleanup", "cleanup")
    /\ UNCHANGED gitVars /\ RunFrame

CancelInto(t) ==
    /\ At(t, "cancelInto")
    /\ save(t, "cleanup", "cleanup")
    /\ UNCHANGED gitVars /\ RunFrame

(* cleanupCodeWorkspace runs git under the run's context: nothing is removed  *)
(* when that context is done.  The branch is kept.                            *)
Cleanup(t) ==
    /\ At(t, "cleanup")
    /\ Goto(t, "exit")
    /\ worktree' = IF t \in code /\ run[t].snap.wt /\ t \notin ctxDone
                   THEN worktree \ {t} ELSE worktree
    /\ UNCHANGED <<storeVars, branch, merged>> /\ RunFrame

(* Mutant of Exit: the deletion is not deferred, so only a success reaches it. *)
ExitOnSuccess(t) ==
    /\ At(t, "exit")
    /\ running' = IF run[t].snap.status = "awaiting_review" THEN running \ {t} ELSE running
    /\ run' = [run EXCEPT ![t] = [NoRun EXCEPT !.pc = "ended"]]
    /\ conn' = IF run[t].by = Nobody THEN conn
               ELSE [conn EXCEPT ![run[t].by].prompt = NoPrompt]
    /\ UNCHANGED <<storeVars, logVars, ctxDone, gitVars, reviewVars, asked, lifeVars>>

(* The deferred delete of p.running; a synchronous run ends its prompt. *)
Exit(t) ==
    /\ At(t, "exit")
    /\ running' = running \ {t}
    /\ run' = [run EXCEPT ![t] = [NoRun EXCEPT !.pc = "ended"]]
    /\ conn' = IF run[t].by = Nobody THEN conn
               ELSE [conn EXCEPT ![run[t].by].prompt = NoPrompt]
    /\ UNCHANGED <<storeVars, logVars, ctxDone, gitVars, reviewVars, asked, lifeVars>>

-----------------------------------------------------------------------------
(* Permission requests of a worker configured with on_permission: ask *)

(* snapshotACPRoutes and snapshotLiveRoutes: the submitter and the tails *)
Routes(t) == {c \in Conns : ~conn[c].closed /\ conn[c].prompt.task = t}

(* askPermissionPolicy fans the request out; without a route it denies. *)
Ask(t) ==
    /\ At(t, "prompt") /\ t \notin ctxDone /\ asked[t] = {} /\ Routes(t) # {}
    /\ asked' = [asked EXCEPT ![t] = Routes(t)]
    /\ UNCHANGED <<storeVars, logVars, run, running, ctxDone, gitVars, reviewVars, conn, lifeVars>>

(* A route answers: "unsupported" leaves the question to the others, any      *)
(* other answer or error settles it.                                          *)
Answer(t, c, settles) ==
    /\ c \in asked[t]
    /\ asked' = [asked EXCEPT ![t] = IF settles THEN {} ELSE @ \ {c}]
    /\ UNCHANGED <<storeVars, logVars, run, running, ctxDone, gitVars, reviewVars, conn, lifeVars>>

(* runOptions cancels a pending question with the run; closing the worker's   *)
(* connection or a route's ends it too.                                       *)
AskCancelled(t) ==
    /\ asked[t] # {}
    /\ t \in ctxDone \/ run[t].pc # "prompt" \/ \E c \in asked[t] : conn[c].closed
    /\ asked' = [asked EXCEPT ![t] = {}]
    /\ UNCHANGED <<storeVars, logVars, run, running, ctxDone, gitVars, reviewVars, conn, lifeVars>>

-----------------------------------------------------------------------------
(* Observers: --attach, --events and tail *)

(* Subscribe: history and cursor in one critical section *)
Subscribe(c, t) ==
    /\ daemon \in {"up", "stopping"} /\ ~conn[c].closed /\ conn[c].prompt = NoPrompt
    /\ mem[t] # NoTask
    /\ conn' = [conn EXCEPT ![c].prompt =
                  [kind |-> "subscribed", task |-> t, cursor |-> Len(log[t]), sig |-> FALSE]]
    /\ UNCHANGED <<storeVars, logVars, run, running, ctxDone, gitVars, reviewVars, asked, lifeVars>>

(* Mutant of CheckComplete: only events end a tail. *)
CheckNothing(c) ==
    /\ conn[c].prompt.kind = "subscribed"
    /\ conn' = [conn EXCEPT ![c].prompt.kind = "tailing"]
    /\ UNCHANGED <<storeVars, logVars, run, running, ctxDone, gitVars, reviewVars, asked, lifeVars>>

(* The status is read after the subscription. *)
CheckComplete(c) ==
    /\ conn[c].prompt.kind = "subscribed"
    /\ conn' = [conn EXCEPT ![c].prompt =
                  IF tailComplete(mem[conn[c].prompt.task].status) THEN NoPrompt
                  ELSE [@ EXCEPT !.kind = "tailing"]]
    /\ UNCHANGED <<storeVars, logVars, run, running, ctxDone, gitVars, reviewVars, asked, lifeVars>>

(* A wake-up: EventsAfter, and the end when one of the events completes *)
ReadEvents(c) ==
    /\ conn[c].prompt.kind = "tailing" /\ conn[c].prompt.sig
    /\ LET p == conn[c].prompt
           events == SubSeq(log[p.task], p.cursor + 1, Len(log[p.task]))
       IN conn' = [conn EXCEPT ![c].prompt =
                     IF \E i \in 1 .. Len(events) : tailComplete(events[i]) THEN NoPrompt
                     ELSE [p EXCEPT !.cursor = Len(log[p.task]), !.sig = FALSE]]
    /\ UNCHANGED <<storeVars, logVars, run, running, ctxDone, gitVars, reviewVars, asked, lifeVars>>

(* session/cancel, or the connection closes: the active prompt's context is   *)
(* cancelled; a tail returns, a synchronous run goes on to its own end.       *)
CancelPrompt(c, closes) ==
    /\ daemon # "down" /\ ~conn[c].closed
    /\ closes \/ conn[c].prompt # NoPrompt
    /\ ctxDone' = IF conn[c].prompt.kind = "sync" THEN ctxDone \cup {conn[c].prompt.task}
                  ELSE ctxDone
    /\ conn' = [conn EXCEPT ![c].closed = closes,
                            ![c].prompt = IF @.kind = "sync" THEN @ ELSE NoPrompt]
    /\ UNCHANGED <<storeVars, logVars, run, running, gitVars, reviewVars, asked, lifeVars>>

-----------------------------------------------------------------------------
(* Review commands; todo lists what is left of the handler, which holds       *)
(* transitionMu until it is empty                                             *)

Plan(op, t) ==
    CASE op = "approve" /\ t \notin code -> <<"done">>
      [] op = "approve" /\ t \in code    -> <<"ff", "merging", "remove", "done">>
      [] op = "complete" -> <<"merging", "remove", "done">>
      [] op = "reject"   -> <<"rejected", "remove">>
      [] OTHER           -> <<"look">>

(* Mutant of Decide: transitionMu is not taken. *)
DecideUnlocked(u, op, t) ==
    /\ daemon \in {"up", "stopping"} /\ mem[t] # NoTask /\ rev[u] = Idle
    /\ IF op = "cancel" THEN ~Terminal(mem[t].status)
       ELSE mem[t].status = "awaiting_review" /\ (op = "complete" => t \in code)
    /\ rev' = [rev EXCEPT ![u] = [task |-> t, snap |-> mem[t], todo |-> Plan(op, t)]]
    /\ UNCHANGED <<storeVars, logVars, run, running, ctxDone, gitVars, transitionMu, conn, asked, lifeVars>>

(* The handler takes transitionMu and reads the snapshot it decides on. *)
Decide(u, op, t) ==
    /\ daemon \in {"up", "stopping"} /\ transitionMu = Nobody
    /\ mem[t] # NoTask
    /\ IF op = "cancel" THEN ~Terminal(mem[t].status)
       ELSE mem[t].status = "awaiting_review" /\ (op = "complete" => t \in code)
    /\ transitionMu' = u
    /\ rev' = [rev EXCEPT ![u] = [task |-> t, snap |-> mem[t], todo |-> Plan(op, t)]]
    /\ UNCHANGED <<storeVars, logVars, run, running, ctxDone, gitVars, conn, asked, lifeVars>>

Doing(u, step) == daemon # "down" /\ rev[u].todo # <<>> /\ Head(rev[u].todo) = step

(* The handler goes on with what is left, or returns and unlocks. *)
Continue(u, left, snap) ==
    /\ rev' = [rev EXCEPT ![u] = IF left = <<>> THEN Idle ELSE [@ EXCEPT !.todo = left, !.snap = snap]]
    /\ transitionMu' = IF left = <<>> THEN Nobody ELSE transitionMu

(* gitMergeFF of doApprove *)
MergeFF(u) ==
    /\ Doing(u, "ff")
    /\ \/ /\ rev[u].task \in branch
          /\ merged' = merged \cup {rev[u].task}
          /\ Continue(u, Tail(rev[u].todo), rev[u].snap)
       \/ Continue(u, <<>>, rev[u].snap) /\ UNCHANGED merged
    /\ UNCHANGED <<storeVars, logVars, run, running, ctxDone, worktree, branch, conn, asked, lifeVars>>

(* Transition and updateTask; an error of either ends the handler. *)
Move(u, to) ==
    /\ Doing(u, to)
    /\ LET t == rev[u].task
           s == [rev[u].snap EXCEPT !.status = to]
       IN \/ /\ storeOpen /\ CanTransition(rev[u].snap.status, to)
             /\ Append1(t, s)
             /\ IF Changed(t, s) THEN LogStatus(t, to) ELSE UNCHANGED <<logVars, conn, faults>>
             /\ Continue(u, Tail(rev[u].todo), s)
          \/ /\ CanTransition(rev[u].snap.status, to)
             /\ CutAppend(t, s, TRUE) /\ UNCHANGED mem
             /\ Continue(u, <<>>, s) /\ UNCHANGED <<logVars, conn>>
          \/ /\ ~(storeOpen /\ CanTransition(rev[u].snap.status, to))
             /\ Continue(u, <<>>, s) /\ UNCHANGED <<storeVars, logVars, conn>>
    /\ UNCHANGED <<run, running, ctxDone, gitVars, asked, lifeVars>>

(* RemoveWorktree with the branch, under the caller's context: a failed       *)
(* worktree remove leaves the branch, and every error is ignored.             *)
Remove(u, works) ==
    /\ Doing(u, "remove")
    /\ LET t == rev[u].task
           gone == IF works /\ t \in worktree /\ rev[u].snap.wt THEN {t} ELSE {}
       IN worktree' = worktree \ gone /\ branch' = branch \ gone
    /\ Continue(u, Tail(rev[u].todo), rev[u].snap)
    /\ UNCHANGED <<storeVars, logVars, run, running, ctxDone, merged, conn, asked, lifeVars>>

(* Mutant of Look: p.running is not looked at. *)
LookAtStore(u) ==
    /\ Doing(u, "look")
    /\ Continue(u, <<"cancelled", "remove">>, rev[u].snap)
    /\ UNCHANGED <<ctxDone, storeVars, logVars, run, running, gitVars, conn, asked, lifeVars>>

(* doCancel reads p.running after the store: a registered run has its context *)
(* cancelled, otherwise the snapshot taken before is moved and cleaned up.    *)
Look(u) ==
    /\ Doing(u, "look")
    /\ IF rev[u].task \in running
       THEN ctxDone' = ctxDone \cup {rev[u].task} /\ Continue(u, <<>>, rev[u].snap)
       ELSE UNCHANGED ctxDone /\ Continue(u, <<"cancelled", "remove">>, rev[u].snap)
    /\ UNCHANGED <<storeVars, logVars, run, running, gitVars, conn, asked, lifeVars>>

-----------------------------------------------------------------------------
(* Stop, crash and restart *)

(* Stop closes the connections and cancels what is registered. *)
StopBegin ==
    /\ daemon = "up"
    /\ daemon' = "stopping"
    /\ ctxDone' = ctxDone \cup running
                  \cup {conn[c].prompt.task : c \in {d \in Conns : conn[d].prompt.kind = "sync"}}
    /\ conn' = [c \in Conns |-> [closed |-> TRUE,
                  prompt |-> IF conn[c].prompt.kind = "sync" THEN conn[c].prompt ELSE NoPrompt]]
    /\ UNCHANGED <<storeVars, logVars, run, running, gitVars, reviewVars, asked, code, starts>>

(* p.wg.Wait: the background runs, registered by launch *)
Background(t) == run[t].by = Nobody /\ run[t].pc \notin {"none", "admitted", "ended"}

StopWaited ==
    /\ daemon = "stopping" /\ \A t \in Tasks : ~Background(t)
    /\ daemon' = "draining"
    /\ UNCHANGED <<storeVars, logVars, run, running, ctxDone, gitVars, reviewVars, conn, asked, code, starts>>

(* The synchronous runs get ten seconds; then the files are closed. *)
StopClose ==
    /\ daemon = "draining"
    /\ daemon' = "closed"
    /\ UNCHANGED <<storeVars, logVars, run, running, ctxDone, gitVars, reviewVars, conn, asked, code, starts>>

(* The records on their way into the file *)
Appending(t, s) ==
    \/ /\ run[t].note = <<>> /\ s = Record(t)
       /\ run[t].pc \in {"enqueue", "savePrepared", "saveDispatching", "saveWorking",
                         "saveReview", "fail", "cancelInto"}
    \/ \E u \in Reviewers :
         /\ rev[u].todo # <<>> /\ Head(rev[u].todo) \in Status /\ rev[u].task = t
         /\ CanTransition(rev[u].snap.status, Head(rev[u].todo))
         /\ s = [rev[u].snap EXCEPT !.status = Head(rev[u].todo)]

(* The process ends, after Stop or in a crash that may cut an append short.   *)
(* log are the events of this start: those of earlier ones are replayed with  *)
(* their file, but lie before the cursor of every prompt that comes to follow *)
(* the task (EventLog.Subscribe).                                             *)
Die ==
    /\ daemon # "down"
    /\ \/ UNCHANGED <<fileVars, faults>>
       \/ \E t \in Tasks, s \in Snapshot : Appending(t, s) /\ CutAppend(t, s, FALSE)
    /\ daemon' = "down"
    /\ mem' = [t \in Tasks |-> NoTask]
    /\ run' = [t \in Tasks |-> NoRun]
    /\ running' = {} /\ ctxDone' = {}
    /\ transitionMu' = Nobody /\ rev' = [u \in Reviewers |-> Idle]
    /\ conn' = [c \in Conns |-> Accepted]
    /\ asked' = [t \in Tasks |-> {}]
    /\ log' = [t \in Tasks |-> <<>>] /\ unlogged' = {}
    /\ UNCHANGED <<code, gitVars, starts>>

(* Store.Open: replay keeps the last whole record of each task, with or       *)
(* without its newline.  An unfinished line stays in the file.                *)
ReplayStore == mem' = disk /\ UNCHANGED <<fileVars, faults>>

(* Init: both files are replayed, resumeInterrupted launches. *)
Start ==
    /\ daemon = "down" /\ starts < MaxStarts
    /\ starts' = starts + 1
    /\ daemon' = "up"
    /\ ReplayStore
    /\ LET resumed == {t \in Tasks : disk[t] # NoTask /\ Resumable(disk[t].status)}
       IN /\ running' = resumed
          /\ run' = [t \in Tasks |->
                       IF t \in resumed THEN [NoRun EXCEPT !.pc = "launched", !.snap = disk[t]]
                       ELSE IF disk[t] # NoTask THEN [NoRun EXCEPT !.pc = "ended"] ELSE NoRun]
    /\ UNCHANGED <<logVars, ctxDone, gitVars, reviewVars, conn, asked, code>>

-----------------------------------------------------------------------------
Orchestrate(t) ==
    \/ Begin(t) \/ Enqueue(t) \/ Prepare(t) \/ SavePrepared(t) \/ SaveDispatching(t)
    \/ Verify(t) \/ Engage(t) \/ SaveWorking(t) \/ PromptCancelled(t) \/ Collect(t)
    \/ SaveReview(t) \/ Fail(t) \/ CancelInto(t) \/ Cleanup(t) \/ Exit(t)

Handle(u) ==
    \/ MergeFF(u) \/ Look(u)
    \/ \E to \in Status : Move(u, to)
    \/ \E works \in BOOLEAN : Remove(u, works)

(* /dispatch, and the same commands as directives of an ACP prompt *)
handleDispatch(t) ==
    \/ Submit(t, Nobody)
    \/ \E u \in Reviewers, op \in {"approve", "complete", "reject", "cancel"} : Decide(u, op, t)

(* acpIngress.Run: a prompt that keeps its connection, --attach or a dispatch *)
ingressRun(c, t) == Submit(t, c) \/ Subscribe(c, t)

Observe(c) == CheckComplete(c) \/ ReadEvents(c)

Next ==
    \/ \E t \in Tasks :
         \/ handleDispatch(t)
         \/ \E c \in Conns : ingressRun(c, t)
         \/ Register(t) \/ Orchestrate(t) \/ Notify(t)
         \/ WorkerStops(t) \/ WorkerFails(t)
         \/ Ask(t) \/ AskCancelled(t)
         \/ \E c \in Conns, settles \in BOOLEAN : Answer(t, c, settles)
    \/ \E c \in Conns : Observe(c) \/ (\E closes \in BOOLEAN : CancelPrompt(c, closes))
    \/ \E u \in Reviewers : Handle(u)
    \/ StopBegin \/ StopWaited \/ StopClose
    \/ Die \/ Start

Spec == Init /\ [][Next]_vars

(* Goroutines that can move do; workers, clients and reviewers owe nothing. *)
FairSpec ==
    /\ Spec
    /\ \A t \in Tasks : WF_vars(Orchestrate(t)) /\ WF_vars(Notify(t)) /\ WF_vars(AskCancelled(t))

-----------------------------------------------------------------------------
(* Properties *)

(* What a worker produced is there as long as somebody may want it: the       *)
(* worktree and the branch while the worker is at work and until a review     *)
(* is decided, the branch of a run that failed after a worker had a session,  *)
(* for the post-mortem (finishCodeTask, doReject, doCancel and                *)
(* cleanupCodeWorkspace remove them).  Exempt is a task a review's record of  *)
(* which was lost in an unfinished line of tasks.jsonl, or a record of which  *)
(* is in the file although its append failed.                                 *)
WorkIsKept ==
    \A t \in code :
        /\ run[t].pc \in {"prompt", "collect", "saveReview"} => t \in worktree \cap branch
        /\ mem[t] # NoTask /\ t \notin lost =>
             /\ mem[t].status = "awaiting_review" => t \in worktree \cap branch
             /\ mem[t].status = "failed" /\ mem[t].session => t \in branch

Decided(s) == s # NoTask /\ s.status \in {"done", "rejected"}

Same(s, r) == r # NoTask /\ r.status = s.status

(* A task that was approved, completed or rejected stays so in memory,        *)
(* whatever other reviewers and a run that is just ending do (transitionMu    *)
(* and the re-reads under it); what a restart would replay is that decision   *)
(* and stays so, with the exemption of WorkIsKept: the record of the decision *)
(* continued an unfinished line, or stood in one that another record          *)
(* continued, or an append that failed left it whole.                         *)
DecisionsAreFinal ==
    [][\A t \in Tasks :
         /\ Decided(mem[t]) /\ mem'[t] # NoTask => Same(mem[t], mem'[t])
         /\ t \notin lost' =>
              /\ Decided(mem[t]) => Same(mem[t], disk'[t])
              /\ Decided(disk[t]) => Same(disk[t], disk'[t])]_vars

(* No tail is stranded: when the task it follows is complete, the completing  *)
(* event is past its cursor and it has been woken, or it is still to be       *)
(* appended (Subscribe before the status is read, save before the event),     *)
(* unless the write of the task's last event failed: notifyStatus logs that   *)
(* and goes on, and the event never exists.                                   *)
TailWillEnd ==
    \A c \in Conns :
        LET p == conn[c].prompt IN
        /\ p.kind = "tailing" /\ mem[p.task] # NoTask /\ tailComplete(mem[p.task].status)
        /\ p.task \notin unlogged
        => \/ run[p.task].note # <<>> /\ tailComplete(run[p.task].note[1])
           \/ p.sig /\ \E i \in p.cursor + 1 .. Len(log[p.task]) : tailComplete(log[p.task][i])

(* A cancelled run leaves the registry and takes the question it had put to   *)
(* its observers with it, whatever the worker and the observers do.           *)
CancelSettles ==
    \A t \in Tasks : t \in ctxDone ~> t \notin running /\ asked[t] = {}

=============================================================================
