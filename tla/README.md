# goworker: verification project

TLA+ models of the agent runtime of goworker, the TLC runs that check them and
TLAPS proofs about them. Paths are relative to the repository (`src/` in
`PROJECT.json`).

## 1. The system

goworker is a terminal agent and daemon in Go. A *session* is a conversation
with a language model, kept in files; a *run* is one prompt executed in a
session, in the background, by a ReAct loop that calls tools. Clients connect
over ACP (JSON-RPC), submit runs, answer approval requests, offer tools of
their own, and follow what happens through an event stream with a cursor. A
client may disconnect at any time and resume; the daemon may be stopped or
killed at any time and be started again over the same files.

### Inventory

| component | state | operations | interacts with |
|---|---|---|---|
| event hub (`ai-runtime/agent/event_hub.go`) | cursor, window of history, per-type merge buffers, flush timer, subscribers, replay integrity | NewEventHub, BeginRun, Publish, EndRun, Subscribe, pumpEvents, Close, timer | journal (append, read, range), supervisor (drives it), clients (channel) |
| run journal (`ai-runtime/session/journal*.go`) | one JSONL file per run with state and event records, open handles | AppendState, AppendEvent, ReadEvents, SeqRange, MarkInterruptedRuns | hub, supervisor, recovery at start |
| supervisor (`agent/supervisor.go`, `run.go`) | a goroutine per run, queue and slot tokens | StartRun, execute, emitRunEvent, tee | runtime, manager, hub, journal, approvals, capabilities |
| session runtime (`agent/runtime.go`) | active run, gate, archived, retired, hub | reserveRun, Retire, Archive, AcquireRun, bindEvents, closeEvents, finalizeRun | supervisor, host |
| session manager (`agent/manager.go`) | table of runtimes, closed flag, host context | Register, Remove, Get, CancelRun, Close | supervisor, host |
| approvals (`agent/approval.go`) | pending approvals with expiry | Wait, Resolve, Owner, Pending, sweep | runs (wait), clients (answer) |
| capabilities (`agent/capability.go`) | tool bindings per connection, waiters | Bind, UnbindConnection, Invalidate, execute | runs (wait), connections |
| control plane (`daemon/internal/agentcontrol`) | leases, request table, bindings | Acquire, Release, WithControl, Submit, StartRun | clients, manager |
| agent plugin (`daemon/internal/plugins/agent`) | current session, suspended releases, in-flight tracker | bind, release, maintenance commands, stop | manager, control plane, repository |
| session store, repository (`ai-runtime/session/store.go`, `repository.go`) | records, head, open instances | Commit, SetHead, compaction, archive, Open, CloseSession | sessions, plugin |
| dispatch (`ai-dispatch`, `plugins/dispatcher`) | tasks, task store, event log, workspaces | Run, cancel, save, review | workers over ACP |
| ACP connection and service (`ai-acp`, `core/service/acp`) | pending calls, subscriptions | call, notify, attach, close | clients |
| agent session, ReAct agent (`agent/session.go`, `ai-core/agent`) | conversation, token and decision channels | Run, streamTokens, model and tool calls | supervisor, gate, store, providers |
| gate and policy (`middlewares/hitl.go`, `hitl`, `ai-sandbox/policy.go`) | allow rules | OnBeforeTool, confirm, GetDecision, Decide | agent, approvals |
| engine, CLI, providers, MCP, memory, configuration | plugin table; text and network I/O | - | - |

What is hard here is concurrency and failure, not computation: a goroutine per
run and per subscriber, channels used as counters and locks, a lookup whose
result is used after the lock was dropped, a terminal state that several
parties wait for, appends that fail half way, a crash between broadcast and
flush, and clients that come back with a cursor from another life of the
process. `PROJECT.json` lists these hazards line by line.

### What makes the components correct

* *Event hub*: replay and live delivery meet without gap or repetition; a
  cursor names one event for ever; a key event is durable before anyone sees
  it; the hub says when its history is not complete; every pump ends.
* *Supervisor, runtime, manager*: one run per session; every queue place, slot
  and gate comes back exactly once on every path; an accepted run can be traced
  on disk; whoever is woken by `done` finds a settled run; a retired session is
  quiet; Close waits for what it has to wait for, and returns.
* *Turn, gate, approvals, capabilities*: no tool runs without the answer it
  needs; an answer or a rebinding is never lost; timeouts and late answers agree
  on one outcome; a cancelled turn ends.
* *Control plane*: a run is submitted only under a valid lease, and once per
  request id.
* *Session lifecycle*: a session is released when nobody refers to it and no run
  works in it, not before and not never; Stop takes things down in an order their
  users survive.
* *Session store*: what a run reports as persisted is in the view a restart builds;
  memory and file agree; the consolidation cursor skips nothing; recovery can be
  repeated.
* *Dispatch*: a worker's commits are there until a review is decided; a decision
  stays; who follows a task is told its end; a cancelled run settles.

## 2. Modules

| module | what it is |
|---|---|
| `EventStream` | abstract specification: one numbered log, each client receives it in order |
| `EventHub` | the hub, the event part of the journal, the supervisor's use of it, pumps and clients; the refinement `ImplementsStream` |
| `MCEventHub` | TLC instances of `EventHub` |
| `EventHubProofs` | TLAPS proofs about `EventHub`, the refinement of `EventStream` included |
| `RunSupervisor` | StartRun, execute, finalizeRun, runtime admission, CancelRun, release and Close |
| `MCRunSupervisor` | TLC instances of `RunSupervisor` |
| `RunSupervisorProofs` | TLAPS proofs about `RunSupervisor` |
| `ControlLease` | abstract specification: who controls a session, and what takes effect under whose control |
| `ControlPlane` | leases, single-flight submission, fenced operations, attach, detach and Close of a handler |
| `MCControlPlane` | TLC instances of `ControlPlane` |
| `ControlPlaneProofs` | TLAPS proofs about `ControlPlane`, the refinement of `ControlLease` included |
| `SessionLifecycle` | bindings, releases, session/new, load and archive, /new, prompts and runs as references, the store cache, Stop |
| `SessionStore` | the conversation file, compaction, consolidation, /rewind, run journals and their recovery |
| `AgentTurn` | the ReAct loop, the gate and its policy, approvals, the waiting device proxy |
| `Dispatch` | tasks, task store and event log, orchestrator, reviews, observers, the plugin's stop and restart |
| `MCSessionLifecycle`, `MCSessionStore`, `MCAgentTurn`, `MCDispatch` | their TLC instances |
| `SessionLifecycleProofs`, `SessionStoreProofs`, `AgentTurnProofs`, `DispatchProofs` | TLAPS proofs about them |
| `SessionTreeProofs` | TLAPS proofs about the tree of messages of `SessionStore`; extends `SessionStoreProofs`, which has what its operators on paths, views and appends compute |

Definitions named in a comment as "Mutant of X" are plausible wrong versions of
X; they are used by no specification, and replacing X by one of them makes the
property listed beside it in `PROJECT.json` fail.

### EventHub

All methods of `EventHub` take `hub.mu` for their whole body, hence one action
each. `hub`, `seq`, `earliest`, `latest`, `integrity`, `curRun`, `deltaBuf` and
`timer` are the fields of the struct. A subscriber is `subs`, `watermark`,
`live`, `dead`; its pump goroutine has a place `pump` ("run" covers both phases,
told apart by `replay`; "send" is the blocked send of phase two), the snapshot
`replay`, the event in `hand`, `lastSeq` and the output channel `ch`. `journal`
is the set of readable records of all run files; a merged batch carries the
events of its window. `torn` is what the open file ends in without a newline: nothing,
half a line, or a whole record, which reads until something is written behind it.

`AppendEvents` is where the file system fails: an append that reports an error
may have written its line (Sync failed), all of it but the newline, half of it, or
nothing; the line behind an unfinished one is glued to it, and unreadable although its
append succeeds. State records share the run's file. Of a failed one (`JournalState`)
the code only warns, so the hub does not learn of the half line; `swallowed` are the
events appended behind one.
A run's file accepts events from the queued record to the terminal record
(`phase`); later ones meet ErrRunExists. `lateEnds` counts executes that have
finalized their run but not yet run their deferred `hub.EndRun`.

`Crash` keeps the files and the clients' cursors and forgets the rest; `Reload`
does the same for a session that was released (`CloseEvents`) and loaded again.
Clients (external) ask from their cursor, read, and disconnect at will.

Abstractions: the payload of an event is the hub incarnation (`epoch`) that
published it, which is enough to tell two events with the same cursor apart.
The nine key types are one type; delta types are a parameter. The 4 KB window is
counted in events (`DeltaFlushParts`), the 50 ms timer fires at any time while
it is armed. A hub without a journal is not modelled.

### RunSupervisor

`pc[r]` is the place of StartRun or execute of run r; every step between two
places touches one lock, channel or file. `pending` and `runSlots` are the
lengths of the two channels, `gate[s]` the holder of a runtime's gate (a run, or
`Sync` for a maintenance command under `withSession`), `active[s]` is
`rt.active`. `journal[r]` is the last state record of the run's file. Close is
modelled loop iteration by loop iteration: its copy of the table (`snapshot`),
the runtimes it has still to look at (`toCheck`) and the run whose `done` it
waits for (`awaited`).

Session.Run is the environment: it may suspend the run (`BeginWait`: approval or
capability), come back (`EndWait`), and return; what happens inside is `AgentTurn`. The
tee that forwards callbacks to the hub is `teeRunCallbacks` of `EventHub`; the hub here
is only none/open/closed. RecordRun has no caller outside tests and is left out.
`Archive`'s commit runs under `admissionMu`, so its failure and rollback cannot be told
from no step at all.

### ControlPlane

An operation is one request, served by a goroutine of its own (`dispatchRequest`);
`pc[o]` is where it stands. `leaseMu` and `hMu` are the mutexes of a lease and of a
connection's handler; a critical section without another wait in it is one step,
one with a wait (the submission inside WithControl, the Acquire inside the commit
section of attach) is several steps that hold the mutex. `holder` is the lease,
`leases` the names with an entry in the registry, which Close copies (`toRelease`).
`table`, `order` and `flights` are the fields of RequestRegistry; a flight is named
by its leader, `landed` are the flights whose `done` is closed. A subscription is
named by the attach that made it; `pump` is its life, `stopped` those on which
`stop()` was called, `old[o]` the one that o has taken out of the table.

Leases are kept under the name a client uses, requests under the id of the runtime
the name resolves to (`RuntimeOf`). Two names for one runtime exist only without
persistence, and there an attach cannot succeed today (no event hub), so that
joining a flight needs the Service interface, as in its tests; the model includes
it because idempotency.go promises it. A request id is never empty (xgwRunStart
refuses it). Sessions stay registered; connection bindings and releases are in
SessionLifecycle. What a run does is RunSupervisor. A panic of the submission has
the same effect as its failure.

### SessionLifecycle

A session and a runtime are their indices in `disk` and `rt`; a runtime's record has
its active run, gate, retired and archived marks, hub, and whether its store is open.
`byClient` is the BindingRegistry, `binding` the handler's own SessionBinding,
`current` the plugin's pointer. What runs under `lifecycleMu` is one step, except the
release: `reap` walks through Retire, Remove, CloseEvents and CloseSession, because
routing, admission and attach look at the runtime without that mutex. session/new and
load (`op`), a prompt or a run with its admission, gate and hook (`prompt`, `hooks`),
/new with its background checkpoint (`finalizers`), a disconnect (`left` is the session
still to be evaluated), attach (`sub`), archive and Stop (`plugin`) interleave.
`MaxInputs` bounds the requests, disconnects and the stop together. A submission looks
a runtime up in one step (`admitted`, or a prompt at "submit") and reserves in another;
manager.Close copies the table (`awaiting`) and then takes one runtime after the other,
waiting for its run if it has one. `late` are the runtimes on which a run was reserved
after Close was done with them. `lapsed` and `stolen` record the two cases in which the
code gives a session up (section 4); the properties exempt exactly those.

### SessionStore

Every append is a step that may fail, be cut short, or lose the process. The file is
represented by what its lines add up to (nodes, head, cursor, checkpoints), since the
last line wins for everything that reads it. A message is abstracted to the set of
messages whose content it holds; a summary holds what it was asked to summarise. An
operation is a `stage` and the appends it has still `todo`. A run goes from its queued
record over model and tool calls, during which the compressor may fold the history, to
DetectCompact, Compact, Commit, Checkpoint and refresh; /compact, consolidation,
/rewind, close and reopen come in between, and after a loss of the process the store is
opened anew (torn tails are cut, an unterminated last line is taken) and the journals
are scanned run by run. A run's journal is its states and its `tail`: clean, torn, or a
last line, of a state or an event, that lacks only its newline. Events are written
between the states (`JournalEvent`) and matter here for what they leave unfinished.

### AgentTurn

Two goroutines and their two channels: `agent` (the loop of ai-core with gate, tools and
the capability proxy; `sending` is the token it is blocked on) and `consumer`
(Session.Run, streamTokens, decideFunc and Wait). A tool call is the record of what the
gate looks at, a command with the words of its first segment, by which an allow rule
matches (`tokensMatch`); `clock` is where a request stands with its deadline, which the
registry and the gate observe through a timer of their own each. `waiter` is the wake-up
channel of one (session, tool); `bindings` the connections whose binding has not
expired. A host may also bind outside a prompt (`HostBinds`), as the SDK allows; the
daemon binds when a prompt collects its tools. The policy's operators cover all modes
and gates; the run uses mode normal with the bash and the system gate. What a turn does
to the conversation is SessionStore; events are EventHub.

### Dispatch

`run[t]` is the goroutine of a task, a step per save, git command group or worker call;
its `note` is the status event that follows a save as a step of its own. `mem` and
`disk` are the store's snapshots in memory and after a replay, `tail` whether the last
line of the file is torn or lacks only its newline, and `under` what a replay finds once
that line is spoiled. `lost` are the tasks whose file says something else than what was
acknowledged: a review's record went with an unfinished line, or a record stayed although
its append failed. The write of an event may fail as well (`unlogged`). Preparing a code
task assigns worktree and branch before git makes them, and may fail in between
(`Prepare`). A review command holds `transitionMu` through its `todo` (merge,
transitions, removal of the worktree). `conn` is an ACP connection with its one active
prompt: a synchronous dispatch, or a tail with cursor and wake-up. Stop cancels, waits,
drains and closes; Die and Start end and restart the process, after which interrupted
tasks are launched again. A worker and git may fail wherever the code handles it.

## 3. Runs

| run | checks | bounds |
|---|---|---|
| `hub_stream` | NoSpuriousLoss, HonestCursorAccepted, and refinement of EventStream | 2 interchangeable delta types (symmetry), 1 client, 4 cursors, 2 runs, 2 hub incarnations; no faults |
| `hub_faults` | NoEventLost, CompleteIsHonest, JournalSeqUnique, ForeignGapsFlagged | 2 interchangeable delta types, 1 client, 3 cursors, 2 runs, 2 incarnations, 1 crash, 1 failing append of an event or a state, journals of earlier builds |
| `hub_live` | DisconnectedPumpExits, DeltasReachDisk, ReaderCatchesUp | 2 delta types, 1 client, 4 cursors, 1 run |
| `hub_seqreuse` | violates SeqNeverReused | as hub_stream with one crash |
| `runs_admission` | TokensConserved, OwnershipExact, DoneMeansSettled, RetiredIsQuiet, CloseAwaitsSnapshot | 2 runs of one session, 1 queue place, 1 fault |
| `runs_live` | CancelledRunsEnd, AcceptedRunsEnd, CloseReturns | 2 runs of one session, 2 queue places, no faults |
| `runs_closehang` | violates CloseReturns | as runs_live with one fault |
| `control_fencing` | OneRunPerRequest, NoOrphanSubscription, EverybodyReturns, refinement of ControlLease | 2 connections, one of which may close, 2 names of one runtime, 4 requests out of `Crossing`, 2 request ids, 2 inputs, a table of 1 |
| `sessions_release` | TypeOK, RunsHaveStores, ReleaseIsOwed, BoundIsAlive, MemoryOutlivesFinalizers | 2 interchangeable connections and the terminal, 3 sessions, 4 runtimes, 4 inputs, 1 failing start |
| `store_crash` | NothingForgotten, ReloadAgrees, CursorSkipsNothing, RecoveredRunsEnded | 2 turns with up to one tool call, 7 message ids, 1 consolidation, 1 rewind, 1 failing append, 2 losses of the process or closes |
| `turn_approvals` | NothingRunsUnasked, AnswerIsHonoured, WaitingIsHonest, NoLostWakeup, CancelledTurnEnds | 1 turn with 2 calls out of 5 (a command, a longer form of it, a riskier one, a forbidden one, a device's tool), 2 requests, 1 device |
| `dispatch_review` | WorkIsKept, TailWillEnd, DecisionsAreFinal, CancelSettles | 1 task of either kind, 1 connection, 2 reviewers, 2 starts of the daemon, 1 append of a task or an event that fails or is cut short |

Why the bounds are enough. A subscriber buffer of 1 makes the slow subscriber
happen with two events; windows of two parts make full, half-full and overlapping
batches of two types happen within four cursors, and a cursor in the middle of a
batch. Two runs are what it takes for a late EndRun or a flush to meet another
run's file; two incarnations for a seed from disk. Clients interact only through
the flush and the integrity mark of a Subscribe, both of which the journal and
timer actions perform too, so one client meets them all; the theorems hold for any
number. In the supervisor, two runs compete for a session, a slot and a queue
place; a third one would wait in the same places. In the control plane four requests
are two attaches and two operations that cross: a takeover during a submission, a
retry in flight under the other name, an attach or detach against Close, and, with a
table of one entry, an eviction; its safety properties are proved for any number, so
that two sessions competing for a slot and a resubmission after an eviction need no run
of their own. Four inputs bring a session to a second reference, a run, the loss of
both and a reload; three sessions let both connections leave one each behind. Two turns
are a compaction that covers an earlier turn; with `KeepLast` 1 the compressor folds in
the second, seven ids allow for the clones, and two losses interrupt a recovery. Two
requests are what a late answer needs to be mistaken for the next one. Two reviewers
and a run compete for one task; tasks share only the capacity check. Deadlock is not
checked: the bounds end every behaviour, and a system without submissions may rest.

Fairness. `EventHub!FairSpec`: a pump goroutine with a ready select case runs, and
an armed timer fires; clients need not read. ReaderCatchesUp alone assumes that
they do. `RunSupervisor!FairSpec`: a goroutine that is not blocked goes on, the
waits for approvals and capabilities time out (both have a timer in the code), and
Session.Run returns once its context is done (its provider and tool calls take that
context). Nothing is assumed of Session.Run otherwise; the agent loop has no default
iteration limit. AcceptedRunsEnd alone assumes that runs and maintenance commands
return by themselves and that blocked senders on a channel are served in order,
which Go's channels do. `ControlPlane!FairSpec`: a goroutine that is not blocked goes
on (Go's mutexes do not starve a waiter), Close finishes what it began, and a pump
sees its closed `done`; clients need not send anything and need not leave.
`AgentTurn!FairSpec`: both goroutines run on when they can, a deadline passes, and the
proxy's wait or call, which have a budget that is not renewed, come to their end even if
a device is bound and lost over and over (strong fairness: Go's select chooses among the
ready cases at random). Provider and tools come back because they get a context that
ends. Clients owe nothing. `Dispatch!FairSpec`: the goroutine of a task, its
notifications and the cancellation of a question run on; workers and observers owe
nothing (a cancelled prompt returns by its context).

## 4. What the checks found

Two runs show a disagreement between the code and its own documentation (details
and quotations in `PROJECT.json`, "findings"):

* `hub_seqreuse`: deltas are broadcast before they are flushed, so after a crash
  the next hub gives their cursors to other events.
* `runs_closehang`: Close waits for `done` of a run whose StartRun rolls its
  reservation back; that channel is never closed.

The models show five smaller ones, which are visible in how the properties are
stated: a key event whose line was written but not synced is replayed though it
was never broadcast (`AppendEvents`; event_hub.go:219 says both sides skip it); the
mark of a failed append dies with its hub, so the next hub over an empty journal
says complete (hence the last condition of `CompleteIsHonest`; event_hub.go:43); a
state record that fails half-written is only warned about (runtime.go:395-398), the next
event is glued behind it, is broadcast, can never be replayed, and the hub goes on saying
complete (hence `swallowed` in `CompleteIsHonest` and `NoEventLost`); the
deferred EndRun of a finalized run can meet the open window of the next run, which
it flushes early and whose run id it clears (`DeferredEndRun`; supervisor.go:291
says the buffer is empty); a StartRun that passed its lookup before Close takes its
copy writes its records after Close has returned (hence `atClose` in
`CloseAwaitsSnapshot`; manager.go:301), and `rt.active` is cleared before `done` is
closed, not after (`ClearActive`, `Finish`; commands.go:166).

The newer models show these, which the properties exempt by name or do not touch:

* *Sessions.* A session/new in flight when its connection closes binds the dead
  connection, and the session stays referenced for ever (lifecycle.go:8-9 promises a
  release with the last reference). An attach that was routed before a release makes
  EnsureHub build a new, open hub on the retired runtime (the comment at
  runtime.go:329-333 says closed or nil). A reservation that is rolled back has no
  done hook, so a release suspended for it is not evaluated (`lapsed`), as when /new
  moves `current` away from a session without a connection. A release that began
  before the binding of a new session takes it (`stolen`). StartRun looks at `closed`
  under the manager's mutex (supervisor.go:118-121) and reserves later (:152) without
  looking again: Close may find the runtime idle in between, and Stop then closes the
  stores (plugin.go:511-512) under a run that is reserved afterwards (`late`; the comment
  at manager.go:301 says that no run writes once Close has returned).
* *Store.* A line written behind a torn or unterminated one is glued to it and lost
  (`spoiled`). A second fold within one run covers more than its summary holds
  (`Unheld`; it takes more ids than the run has, so TLC does not reach it).
  remapCursor changes the cursor
  in memory only; after a restart messages are consolidated again, none is skipped.
  When the last line of a run's journal lacks only its newline, the recovery's marker is
  glued to it and both are lost: a run reported interrupted has no end in its file until
  the next scan writes another marker (`glued`).
* *Turn.* An `always` for a command covers every command whose first segment begins with
  its words: further arguments and later segments run unasked, within its risk and
  effects (policy.go:129-152). A late answer is told "unknown" instead of "resolved"
  once Pending has evicted the entry (approval.go:213). In the daemon a binding is made
  only while tools are collected, under the session's gate: a proxy that waits for a
  device is never rescued by the same session's next prompt (capability.go:26-30
  promises the rebind).
* *Dispatch.* doCancel acts on the snapshot it read: a task that failed meanwhile becomes
  cancelled (task.go:41 says a terminal state does not move). Nothing trims tasks.jsonl:
  a record written behind an unfinished line is glued to it, and if that line was whole
  but for its newline, replay has read it once and never will again; a decision on either
  side of the seam is forgotten by the next restart, and a record whose append failed may
  be what it replays (`lost`). When AddWorktree fails, the failed task has worktree and
  branch assigned (orchestrator.go:218-221) that do not exist; it has no session, so no
  work is missed. notifyStatus logs a failed event append and goes on
  (plugin.go:965-972): if it was the completing event, who follows the task waits until
  its prompt is cancelled (`unlogged`). A crash while merging leaves a task that
  --complete refuses (plugin.go:222-224 leaves it to --complete). Cleanup runs under the
  run's context, so a cancelled run keeps its worktree. The capacity check and the
  registration of a run are two critical sections, so max_parallel can be exceeded.

## 5. Theorems

TLAPS proves, for every value of the constants:

* `RunSupervisorProofs`: types and channel bounds, TokensConserved,
  OwnershipExact, SessionIsSerial, DoneMeansSettled, AcceptedIsDurable,
  RetiredIsQuiet, CloseAwaitsSnapshot, TerminalIsFinal. Assumption:
  `SupervisorAssumption` (the set of runs is finite, the capacities are positive).
  The inductive invariant `Inv` has five parts. `TypeInv` counts tokens: that
  `pending` never goes below zero or above the capacity follows only from
  counting the runs at the places that hold a token, so types and counts are
  proved together (`CountGoto` and `MoveKeepsTokens` say what one move does to a
  count). `OwnershipExact` ties gate and active run to places. `StageInv` says what
  the record of a run holds at each place (result decided, terminal record
  written, done closed); DoneMeansSettled and TerminalIsFinal need it.
  `ClosedToRuns` is the admission argument for Retire and Archive. `CloseInv` says
  that a run of Close's copy that still holds its session belongs to a runtime Close
  has not looked at, or is the one it waits for.
* `EventHubProofs`: types, JournalSeqUnique, OwnBatchesDecode, StrictlyAscending,
  NoSpuriousLoss, CompleteIsHonest, ForeignGapsFlagged, NoEventLost,
  HonestCursorAccepted, and the refinement of EventStream. Assumptions:
  `HubAssumption` and `OldJournalAssumption` (cursors in journals of earlier builds
  are unique and positive).
  - `JournalInv` says that all records and windows of an open hub are below `seq`,
    that windows decode, and that records and windows together have unique cursors;
    it survives losing any part of a flush, which is what a crash or a failing append
    does. `AscendingInv` orders, per client, cursor, channel, event in hand, snapshot
    and live buffer, with the watermark between snapshot and live.
  - `WindowInv`: open merge windows belong to the run whose file still accepts events.
    `LinesInv`, a part of it: only a fault leaves a line unfinished, and where no loss
    is admitted it is at most the half line of a state record, so that an append behind
    it loses one record and spoils none (`Outcome`, which all flushes share). Hence no
    order of EndRun, finalizeRun, timer and deferred EndRun makes a flush miss its file,
    which is NoSpuriousLoss.
  - `HistoryInv`: the first event of a run is a durable key event, so a journal without
    records means that nothing was sent; while a hub admits no loss all it has broadcast
    is readable, in a window, or `swallowed`; and the first hub marks a history with
    foreign gaps before it serves anybody. CompleteIsHonest and ForeignGapsFlagged
    follow.
  - `DeliveryInv`: while the history can be relied on (`Trusted`: nothing has failed
    yet, or the hub is the first and admits no loss), every event that is `Owed`
    (broadcast and not swallowed) is, for each connected client, up to its cursor and
    received, or in its channel, hand, snapshot or live buffer, and these follow each
    other in order. With `KeptInv` (what was broadcast is readable, in a window, or
    swallowed) and `FreshInv` (cursors start at 1) NoEventLost and HonestCursorAccepted
    follow.
  - The refinement is proved for a session with an initially empty journal, no failed
    append and no crash (`[](faults + crashes = 0)`), the conditions under which the
    code promises one gapless log; reloads, dropped subscribers and reconnects
    are included. With a crash the statement is false, as `hub_seqreuse` shows.
    `StreamInv` says that records and windows together are what was broadcast.
* `ControlPlaneProofs`: types, OneRunPerRequest, NoOrphanSubscription, and the
  refinement of ControlLease. Assumptions: `ControlAssumption` (names resolve to
  sessions, the table has room for one entry, the sentinels are distinct) and
  `BoundsAssumption` (what clients ask for are requests). `FenceInv` is the fencing
  argument: inside WithControl the mutex is one's own, so the holder is still who was
  checked. `CloseInv` is the closed
  barrier: an attach about to acquire holds `h.mu` of an open handler, hence Close's
  copy of the table has every lease of its connection. `RegInv` ties runs, table,
  eviction order and flights together: a run is in the table, evicted, or known by
  the one flight of its key. `AnswerInv` follows a result from the leader to who
  joined. `SubInv` places every entry of a subscription table.
* `AgentTurnProofs`: types, AnswerIsHonoured, WaitingIsHonest, NoLostWakeup,
  NothingRunsUnasked. Assumption: `TurnBounds`. `AnswerInv` follows a request's number:
  it is at one place at a time (registry, consumer's hand, decision channel, gate) and
  never used again, so a late or repeated answer finds nothing to settle. `WaitInv`
  says that the agent stands still while the consumer waits and that every decision is
  handed over before the run goes on. `WakeupInv` covers the proxy between its lookup
  and its sleep. `GateInv`: a rule in the allow list is the one that an `always` to some
  request wrote (its words, risk and effects, or its key), so that what the list lets
  through is `Covers`-ed by that request; and what is forbidden is never asked.
* `SessionLifecycleProofs`: TypeOK, RunsHaveStores, ReleaseIsOwed, BoundIsAlive,
  MemoryOutlivesFinalizers. Assumption: `LifecycleAssumption`. `TableInv` keeps the
  runtime that `reap` takes down retired, idle and apart from the registered ones;
  `RunInv` says that runs live in registered runtimes, that these have their stores, and
  that an evicted one is archived; `AdmissionInv` says that a runtime a submission has
  looked up stays in the table unless it is retired, and that, from the moment Close has
  taken its copy, every run is awaited or `late`; `StopInv` orders the phases of Stop
  against finalizers and commands; `BindTable` says that nobody is bound, or about to
  bind, to what is being released. ReleaseIsOwed is inductive beside them.
* `DispatchProofs`: types, WorkIsKept, TailWillEnd, and the action property
  DecisionsAreFinal. Assumptions: `DispatchAssumption` and `NoTaskIsNoSnapshot`.
  `FileInv` and `StoreInv` say what the file is worth: only a whole line without its
  newline makes a difference between what a replay reads now and what the next record
  leaves of it (`under`), and for a task that is not `lost` file and memory agree on
  what reviews see and decide (`AgreedOf`); `ReviewInv` says that who has something
  `todo` holds `transitionMu` and what the snapshot is at each step of a review;
  `RegistryInv` relates a run's place to its task's status; `WorkInv` says where
  worktree and branch must exist, in memory, in the file, and in what is under its last
  line (`KeptOf`); `ConnInv` says that a tail lives only while the daemon is up and that
  its cursor is in the log. TailWillEnd is inductive beside them.
* `SessionStoreProofs`: types, ReloadAgrees, RecoveredRunsEnded. Assumption:
  `StoreBounds`. `JournalInv` says which states a run's file may hold, also what is left
  of them when a line is glued to the last one, and which runs the recovery still owes
  an end; the ones with a `glued` marker are owed none by this scan. That an event
  append touches nothing but its journal (`EventAlone`) carries all other parts over it.
  `SyncInv` says that the file holds the nodes, head and checkpoints of memory, and half
  way through a commit the node that is about to enter it (`DiskFollows`), that between
  the steps of an operation the conversation is the view of the store (`ViewFollows`),
  and that consolidation touches nothing but the cursor (`CursorAlone`). The walk to the
  root (`activePathIDs`) is a recursive function of the nodes: that it is defined, and
  visits only declared nodes whatever the parents say, is an induction along the walk.
  The library states induction for a predicate, which the installed provers cannot
  instantiate. Stated for a set of naturals it is first-order; `SetInduction`,
  `GreatestInt`, `NthElement` (counting the elements of a set in order) and `Recursion`
  (a step function and a first value have a function that follows them) are proved at
  the head of the module from the well-foundedness of the naturals.
* `SessionTreeProofs`: CursorSkipsNothing and NothingForgotten. Assumption: `StoreBounds`.
  CursorSkipsNothing is far from inductive: it is about one path, and after a rewind, a
  failed append or a crash
  any node that was ever written may be on the path again, a fold may be written a second
  time with another summary, and the cursor of memory may be ahead of or behind that of
  the file. `CursorInv` therefore speaks of all lines at once that the file, the file
  without an unfinished last line, memory, or an append under way knows (`Said`). `Sound`
  says that they are one forest: some `rank` of the ids grows along every parent link, and
  a fold, which is a root, ranks behind the last message it covers; a message has one line
  for good (`Unique`); ids still to come are named nowhere (`Unnamed`). And some set `F`
  of messages the memory was given holds every cursor line and, with a message, all
  messages above it (`Consumed`); so the messages before the cursor on any path are in it.
  A commit or a fold grafts a chain of new nodes on the forest (`Grafted`); the clones of
  what the memory was given join `F` up to the clone of the one at the cursor (`Carried`),
  which is what lets remapCursor move it. `RootInv` and `ConvInv` say that the first
  message of the conversation is the root of the path if it is on the path at all: a fold
  reaches from the root, and so is a root itself. `Closed` says that no line enters memory
  ahead of its parent, so a path never ends short of a node that is declared later.

  NothingForgotten cannot be an invariant of paths either. Which fold stands at the root
  of a path is decided by the last line written for it, and a failed or a second
  compaction may have written one that no path shows yet. `LossInv` follows the content
  of a message m backwards instead. The source of a message is its parent, that of a fold
  the last message it covers; a set of ids is `Shut` if it has the source of each of its
  lines; and m is carried at a head (`Carries`) if every shut set with that head has a
  line that holds m. Whatever a fold takes off the path is still behind it in this sense,
  and what the fold leaves out is what NothingForgotten excuses (`CarriedIsShown`). New
  lines keep m carried as long as no fold that holds m loses it to another line with its
  id. That is `Sorted`, for each fold that holds m: the path it covers carries m already,
  or everything that holds m stands under that fold. `DiskKept` says so of the file, that
  the file backs each line of memory, and that what was reported persisted is carried at
  both heads. `TodoKept` says what each pending append needs of the ones before it, so
  that every prefix of them may be all that a crash leaves. `ConvKept`, `RunInv` and
  `FreshKept` bring the messages of a run from its history, over the fold of a run that
  compressed and the rest of its commit, to the head that `Persisted` reports. All of it
  holds unless a line was written behind an unfinished one (`spoiled`), as the property
  says.

SessionIsSerial, AcceptedIsDurable, TerminalIsFinal, OwnBatchesDecode and
StrictlyAscending follow from what the runs check, or are so close to one assignment
that they are stated by the theorems only.

Only model-checked: the liveness properties, since the proof system has neither fairness
nor ENABLED. Every safety invariant, every action property and both refinements that the
passing runs check are theorems.

## 6. Plan

Done, in this order: EventHub with EventStream; RunSupervisor; ControlPlane with
ControlLease; SessionLifecycle; SessionStore; AgentTurn; Dispatch; the proofs of
section 5.

Next, in the model rather than in the proofs: the layout migration (migrate.go) as one
more way a conversation file comes to be, and a second process at the file lock.

### Not modelled

Providers, MCP client, CLI, configuration, logging and skills are network and text I/O
around libraries. Memory search, extraction and consolidation are text processing with
a language model; what a session hands over to them is in SessionStore. The engine
starts and stops plugins one after the other. migrate.go moves the files of earlier
builds once. The assessment of a command line (ai-sandbox) is a table of patterns: its
result is the risk and the effects a call carries in AgentTurn. The working directory a
client declares is an attribute nothing modelled depends on. Read-only queries (list,
status, usage, history rendering) change no state. Framing and the client side of the
JSON-RPC connection, and the SessionStore's file lock against a second process, are
left out. So are writes that block in the transport: `Conn.write` has no deadline
(jsonrpc.go:494-499), so a peer that stops reading holds up whoever writes to it. The
liveness runs speak of peers that take what is written to them and need not answer it,
and `dispatch_review` has one observer: the fan-out of a permission question to several
(plugin.go:1040-1106) is in `Ask` and `AskCancelled`, but not in the run.
