---------------------------- MODULE SessionStore ----------------------------
(***************************************************************************)
(* One session's durable state: the append-only conversation file of       *)
(* ai-runtime/session (store.go), the Session that runs turns on it        *)
(* (ai-runtime/agent session.go, checkpoint.go), /rewind, and the run      *)
(* journals with their recovery scan (journal.go).                         *)
(*                                                                         *)
(* The file only grows, and all that reads it lets the last line win: of   *)
(* the lines with one node id, of the head lines and of the cursor lines.  *)
(* So the lines are represented by what they add up to, [nodes, head,      *)
(* cursor, cks] (see Add).  "msg" and "compact" lines are nodes of a tree  *)
(* linked by parent (0 is the empty parent); the view is the path from the *)
(* root to the head.  The text of a message is abstracted to "holds", the  *)
(* set of messages whose content it carries: a message holds itself, a     *)
(* clone what its original holds, and a summary what it was asked to       *)
(* summarise.  A compact node's id, "s_" + coveredTo, is -coveredTo.  The  *)
(* metadata line written when the session is created is left out: nothing  *)
(* modelled here reads or rewrites it.                                     *)
(*                                                                         *)
(* Every append is a step of its own, that may fail or lose the process.   *)
(***************************************************************************)
EXTENDS Integers, Sequences, FiniteSets, TLC, SequencesExt, FiniteSetsExt

CONSTANTS
    KeepLast,     \* LLM.CompactKeep: messages a compaction leaves alone
    MaxNodes,     \* bound: message ids handed out
    MaxTurns,     \* bound: runs of the session
    MaxCalls,     \* bound: tool calls in one turn
    MaxFeeds,     \* bound: consolidations
    MaxRewinds,   \* bound: /rewind commands
    MaxFaults,    \* bound: appends that fail while the process goes on
    MaxCrashes    \* bound: losses of the process, and closes of the session

ASSUME StoreBounds ==
    {KeepLast, MaxNodes, MaxTurns, MaxCalls, MaxFeeds, MaxRewinds,
     MaxFaults, MaxCrashes} \subseteq Nat

VARIABLES
    file,      \* what the lines of <session>.jsonl add up to
    tail,      \* how the file ends: "clean", "torn" or "unterminated"
    before,    \* if "unterminated", file without that last line, else file
    store,     \* Store.recs, head and cursor: what memory adds up to
    conv,      \* Session.conversation
    stage,     \* the operation in progress and where it stands
    todo,      \* the appends the operation has still to make
    hist,      \* the messages of the run in progress, without system prompt
    journal,   \* per run, what the lines of runs/<id>.jsonl add up to
    scan,      \* MarkInterruptedRuns: the run examined next
    next,      \* ids handed out so far
    fresh,     \* ghost: the messages the run in progress has added
    told,      \* ghost: messages reported persisted and not rewound since
    fed,       \* ghost: messages the memory has consolidated
    dirty,     \* ghost: an append failed since the store was opened
    spoiled,   \* ghost: a line was written behind an unfinished one
    glued,     \* ghost: the runs whose last marker was
    used       \* how often each bounded event has happened

vars == <<file, tail, before, store, conv, stage, todo, hist, journal,
          scan, next, fresh, told, fed, dirty, spoiled, glued, used>>

Turns == 1 .. MaxTurns
Bounded == [turns |-> MaxTurns, feeds |-> MaxFeeds, rewinds |-> MaxRewinds,
            faults |-> MaxFaults, crashes |-> MaxCrashes]
Spend(event) == /\ used[event] < Bounded[event]
                /\ used' = [used EXCEPT ![event] = @ + 1]

----------------------------------------------------------------------------
(* Lines.  record.go *)

\* role: "user", "assistant", "call" (with tool calls), "tool", "system".
Message(id, role, holds) == [id |-> id, role |-> role, holds |-> holds]
Ids(ms) == {ms[i].id : i \in DOMAIN ms}
Content(ms) == UNION {ms[i].holds : i \in DOMAIN ms}

\* The messages at these places, in order.
At(ms, places) ==
    LET nth(k) == CHOOSE i \in places : Cardinality({j \in places : j <= i}) = k
    IN  [k \in 1 .. Cardinality(places) |-> ms[nth(k)]]

\* A line: of a node, with the message and the parent, or a mark at an id.
Node(m, parent) == [kind |-> "node", id |-> m.id, parent |-> parent,
                    role |-> m.role, holds |-> m.holds]
Mark(kind, id) == [kind |-> kind, id |-> id]

Nothing == [nodes |-> <<>>, head |-> 0, cursor |-> 0, cks |-> {}]

\* The nodes with the one a line declares.
Declare(nodes, line) ==
    [i \in DOMAIN nodes \cup {line.id} |-> IF i = line.id THEN line ELSE nodes[i]]

\* The lines s with one more.
Add(s, line) ==
    CASE line.kind = "node" -> [s EXCEPT !.nodes = Declare(@, line)]
      [] line.kind = "head" -> [s EXCEPT !.head = line.id]
      [] line.kind = "cursor" -> [s EXCEPT !.cursor = line.id]
      [] line.kind = "ck" -> [s EXCEPT !.cks = @ \cup {line.id}]

\* The lines s with none, one or two more.
AddAll(s, lines) ==
    CASE lines = <<>> -> s
      [] Len(lines) = 1 -> Add(s, lines[1])
      [] OTHER -> Add(Add(s, lines[1]), lines[2])

hasID(nodes, id) == id \in DOMAIN nodes

\* One step towards the root, unless no line declares the parent or it was
\* visited before.
Further(nodes, w) ==
    LET p == nodes[w[1]].parent
    IN  IF w /= <<>> /\ hasID(nodes, p) /\ ~Contains(w, p) THEN <<p>> \o w ELSE w

\* The path from the root to h, oldest first.
activePathIDs(nodes, h) ==
    LET walk[n \in Nat] == IF n = 0 THEN IF hasID(nodes, h) THEN <<h>> ELSE <<>>
                           ELSE Further(nodes, walk[n - 1])
    IN  walk[Cardinality(DOMAIN nodes)]

\* buildActiveView: a compact node is shown as a system message.
buildActiveView(nodes, h) ==
    LET path == activePathIDs(nodes, h)
    IN  [i \in DOMAIN path |->
            LET r == nodes[path[i]] IN Message(r.id, r.role, r.holds)]

ActiveView == buildActiveView(store.nodes, store.head)
OnDisk == buildActiveView(file.nodes, file.head)

----------------------------------------------------------------------------
(* Run journals.  journal.go *)

(* A journal: the states its lines record, and how it ends.  A last line   *)
(* that lacks only its newline is read: "state" if it holds the last of    *)
(* the states, "event" if an event or a state like waiting_input, which    *)
(* say no more than the "running" before them and are left out.            *)
NoLines == [states |-> <<>>, tail |-> "clean"]

\* The states that stay when a line is glued to the last one.
Kept(j) == IF j.tail = "state" THEN Front(j.states) ELSE j.states

(* appendRecordLine: the journal with one more line, which records state,  *)
(* a sequence of at most one.                                              *)
Line(j, state) ==
    [states |-> IF j.tail = "clean" THEN j.states \o state ELSE Kept(j),
     tail |-> "clean"]

\* What an append can leave that was cut short: part of the line, or all of
\* it but the newline.
Cut(j, state) ==
    {[states |-> Kept(j), tail |-> "torn"]} \cup
    IF j.tail = "clean"
    THEN {[states |-> j.states \o state,
           tail |-> IF state = <<>> THEN "event" ELSE "state"]}
    ELSE {}

\* What an append can leave that failed.
Failed(j, state) == {j, Line(j, state)} \cup Cut(j, state)

\* truncateFileSync at the end of the last line that can be read.
Repaired(j) == [j EXCEPT !.tail = IF @ = "torn" THEN "clean" ELSE @]

(* Mutant of isTerminalRunState: the marker itself is not final. *)
EndedByItself(s) == s \in {"completed", "failed"}

isTerminalRunState(s) == s \in {"completed", "failed", "interrupted"}

\* A marker is due.  A journal without a state says nothing about its run.
Unended(j) == j.states /= <<>> /\ ~isTerminalRunState(Last(j.states))

----------------------------------------------------------------------------
Init ==
    /\ file = Nothing /\ before = Nothing /\ tail = "clean"
    /\ store = Nothing /\ conv = <<>>
    /\ stage = "idle" /\ todo = <<>> /\ hist = <<>>
    /\ journal = [r \in Turns |-> NoLines] /\ glued = {} /\ scan = 1
    /\ next = 0
    /\ fresh = {} /\ told = {} /\ fed = {}
    /\ dirty = FALSE /\ spoiled = FALSE
    /\ used = [e \in DOMAIN Bounded |-> 0]

DiskSame == UNCHANGED <<file, tail, before, spoiled>>
StoreSame == UNCHANGED store
JournalSame == UNCHANGED <<journal, scan, glued>>

----------------------------------------------------------------------------
(* Appends *)

(* An append in progress: the line, the lines Store.recs gains once it has *)
(* succeeded, and the value the cursor has when it is attempted.           *)
Item(line, mem, cur) == [line |-> line, mem |-> mem, cursor |-> cur]
One(line) == <<Item(line, <<line>>, store.cursor)>>

(* A line written behind the tail: glued to a torn line it cannot be       *)
(* parsed, and glued to a complete one that lacks its newline it spoils    *)
(* both.                                                                   *)
Written(line) ==
    LET lines == CASE tail = "clean" -> Add(file, line)
                   [] tail = "torn" -> file
                   [] tail = "unterminated" -> before
    IN  /\ file' = lines /\ before' = lines /\ tail' = "clean"
        /\ spoiled' = (spoiled \/ tail /= "clean")

Torn ==
    LET lines == IF tail = "unterminated" THEN before ELSE file
    IN  /\ file' = lines /\ before' = lines /\ tail' = "torn"
        /\ spoiled' = (spoiled \/ tail = "unterminated")

appendRecord ==
    /\ todo /= <<>>
    /\ LET item == todo[1]
           tried == [store EXCEPT !.cursor = item.cursor]
       IN  /\ Written(item.line)
           /\ store' = AddAll(tried, item.mem)
    /\ todo' = Tail(todo)
    /\ UNCHANGED <<conv, stage, hist, next, fresh, told, fed, dirty, used>>
    /\ JournalSame

(* Write or Sync fails: nothing, a whole line, or part of one is in the    *)
(* file, and the operation returns without its other appends.              *)
(* A failed checkpoint or cursor only warns.                               *)
afterFailure ==
    [runCompact |-> "failed", commit |-> "failed", checkpoint |-> "refresh",
     cursor |-> "idle", consolidate |-> "compress", compact |-> "idle",
     rewind |-> "idle"]

AppendFails ==
    /\ todo /= <<>>
    /\ Spend("faults")
    /\ \/ DiskSame
       \/ Written(todo[1].line)
       \/ Torn
    /\ store' = [store EXCEPT !.cursor = todo[1].cursor]
    /\ todo' = <<>>
    /\ stage' = afterFailure[stage]
    /\ dirty' = TRUE
    /\ UNCHANGED <<conv, hist, next, fresh, told, fed>>
    /\ JournalSame

----------------------------------------------------------------------------
(* Store.Commit and Store.Compact, as the appends they make *)

(* The messages that are not recorded yet. *)
Unrecorded(ms) == At(ms, {i \in DOMAIN ms : ~hasID(store.nodes, ms[i].id)})

(* Mutant of CommitItems: the head line goes ahead of its message. *)
CommitHeadFirst(ms) ==
    LET new == Unrecorded(ms)
        line(i) == Node(new[i], IF i = 1 THEN store.head ELSE new[i - 1].id)
        move(i) == Mark("head", new[i].id)
        item(i, first) == IF first THEN Item(move(i), <<>>, store.cursor)
                          ELSE Item(line(i), <<line(i), move(i)>>, store.cursor)
    IN  [k \in 1 .. 2 * Len(new) |-> item((k + 1) \div 2, k % 2 = 1)]

(* Messages already recorded are skipped; each other one is chained to the *)
(* head, and enters memory only with the head line that follows it.        *)
CommitItems(ms) ==
    LET new == Unrecorded(ms)
        line(i) == Node(new[i], IF i = 1 THEN store.head ELSE new[i - 1].id)
        move(i) == Mark("head", new[i].id)
        item(i, first) == IF first THEN Item(line(i), <<>>, store.cursor)
                          ELSE Item(move(i), <<line(i), move(i)>>, store.cursor)
    IN  [k \in 1 .. 2 * Len(new) |-> item((k + 1) \div 2, k % 2 = 1)]

(* The cursor follows its message into the retained clones. *)
remapCursor(retained, clone, lastClone) ==
    IF store.cursor = 0 THEN 0
    ELSE IF Contains(retained, store.cursor)
         THEN clone[CHOOSE i \in DOMAIN retained :
                        retained[i] = store.cursor]
    ELSE IF store.cursor = store.head THEN lastClone
    ELSE store.cursor

IndexOf(path, id) == IF Contains(path, id)
                     THEN CHOOSE i \in DOMAIN path : path[i] = id ELSE 0

(* Fold from..to of the path into a compact node, clone what follows under *)
(* it and move the head to the last clone.  <<>> when the range is not on  *)
(* the path, which the callers treat as a failed compaction.               *)
CompactItems(from, to, summary) ==
    LET path == activePathIDs(store.nodes, store.head)
        f == IndexOf(path, from)
        t == IndexOf(path, to)
        retained == SubSeq(path, t + 1, Len(path))
        clone == [i \in DOMAIN retained |-> next + i]
        parent(i) == IF i = 1 THEN -to ELSE clone[i - 1]
        copy(i) == LET o == store.nodes[retained[i]]
                   IN  Node(Message(clone[i], o.role, o.holds), parent(i))
        folded == Node(Message(-to, "system", summary),
                       IF f > 1 THEN path[f - 1] ELSE 0)
        nodes == <<folded>> \o [i \in DOMAIN retained |-> copy(i)]
        newHead == parent(Len(retained) + 1)
        move == Mark("head", newHead)
    IN  IF f = 0 \/ t = 0 \/ f > t THEN <<>>
        ELSE Append([i \in DOMAIN nodes |->
                        Item(nodes[i], <<nodes[i]>>, store.cursor)],
                    Item(move, <<move>>,
                         remapCursor(retained, clone, newHead)))
Clones(items) == Cardinality({i \in DOMAIN items : items[i].line.kind = "node"
                                                   /\ items[i].line.id > 0})

----------------------------------------------------------------------------
(* The compressor and the detection of what it did *)

System(m) == m.role = "system"
Leading(ms) == LET other == {i \in DOMAIN ms : ~System(ms[i])}
               IN  IF other = {} THEN Len(ms) ELSE Min(other) - 1

\* How many messages to summarise: at least two, and no call is cut from
\* its result.  0 when there is no such cut.
splitPoint(ms) ==
    LET safe == {n \in 2 .. Len(ms) - KeepLast :
                    ms[n].role /= "call" /\ ms[n + 1].role /= "tool"}
    IN  IF KeepLast = 0 \/ safe = {} THEN 0 ELSE Max(safe)

(* Compress: the system messages in front are kept when protect is set;    *)
(* the older part of the rest becomes one summary, with id next + 1.       *)
Compress(ms, protect) ==
    LET k == IF protect THEN Leading(ms) ELSE 0
        body == SubSeq(ms, k + 1, Len(ms))
        n == splitPoint(body)
    IN  IF n = 0 THEN ms
        ELSE SubSeq(ms, 1, k)
             \o <<Message(next + 1, "system", Content(SubSeq(body, 1, n)))>>
             \o SubSeq(body, n + 1, Len(body))

(* DetectCompact: how many messages of old the first message of new        *)
(* stands for; 0 when no compaction is recognised.                         *)
DetectCompact(old, new) ==
    LET kept == {i \in DOMAIN old : old[i].id \in Ids(new)}
    IN  IF Len(new) >= Len(old) \/ new = <<>> THEN 0
        ELSE IF ~System(new[1]) THEN 0
        ELSE IF kept = {} THEN Len(old)
        ELSE Min(kept) - 1

----------------------------------------------------------------------------
(* Session.Run *)

Run == used["turns"]
Running == {"run", "runCompact", "commit", "checkpoint", "refresh", "completed",
            "failed"}

\* StartRun: the journal file is created, its first state not yet written.
BeginRun ==
    /\ stage = "idle"
    /\ next < MaxNodes
    /\ Spend("turns")
    /\ stage' = "accept"
    /\ UNCHANGED <<conv, todo, hist, next, fresh, told, fed, dirty>>
    /\ DiskSame /\ StoreSame /\ JournalSame

\* The accepted state is durable; Run takes its snapshot of conversation.
AcceptRun ==
    /\ stage = "accept"
    /\ journal' = [journal EXCEPT ![Run] = Line(@, <<"running">>)]
    /\ stage' = "run"
    /\ next' = next + 1
    /\ fresh' = {next + 1}
    /\ hist' = Append(conv, Message(next + 1, "user", {next + 1}))
    /\ UNCHANGED <<conv, todo, scan, glued, told, fed, dirty, used>>
    /\ DiskSame /\ StoreSame

\* The state could not be written: the run is rolled back.
AcceptFails ==
    /\ stage = "accept"
    /\ Spend("faults")
    /\ \E j \in Failed(journal[Run], <<"running">>) :
         journal' = [journal EXCEPT ![Run] = j]
    /\ stage' = "idle"
    /\ dirty' = TRUE
    /\ UNCHANGED <<conv, todo, hist, scan, glued, next, fresh, told, fed>>
    /\ DiskSame /\ StoreSame

(* An event or a waiting state of the run is appended to its journal.      *)
(* When that fails the run goes on, behind whatever is left of the line.   *)
JournalEvent ==
    /\ stage \in Running
    /\ \/ /\ journal' = [journal EXCEPT ![Run] = Line(@, <<>>)]
          /\ UNCHANGED <<dirty, used>>
       \/ /\ Spend("faults") /\ dirty' = TRUE
          /\ \E j \in Failed(journal[Run], <<>>) :
               journal' = [journal EXCEPT ![Run] = j]
    /\ UNCHANGED <<conv, stage, todo, hist, scan, glued, next, fresh, told, fed>>
    /\ DiskSame /\ StoreSame

(* One iteration of the agent: before the request the compression          *)
(* middleware may replace what the turn has so far; the model answers, or  *)
(* calls a tool and gets its result.                                       *)
Reply ==
    /\ stage = "run"
    /\ hist[Len(hist)].role /= "assistant"
    /\ \E h \in {hist, Compress(hist, TRUE)} :
         LET id == IF h = hist THEN next + 1 ELSE next + 2 IN
         \/ /\ id <= MaxNodes
            /\ hist' = Append(h, Message(id, "assistant", {id}))
            /\ fresh' = fresh \cup {id}
            /\ next' = id
         \/ /\ id + 1 < MaxNodes /\ Cardinality(fresh) < 2 * MaxCalls
            /\ hist' = h \o <<Message(id, "call", {id}),
                              Message(id + 1, "tool", {id + 1})>>
            /\ fresh' = fresh \cup {id, id + 1}
            /\ next' = id + 1
    /\ UNCHANGED <<conv, stage, todo, told, fed, dirty, used>>
    /\ DiskSame /\ StoreSame /\ JournalSame

(* Run's commit block: a recognised compaction is folded first, from the   *)
(* first to the last covered message of the snapshot.                      *)
FinishRun ==
    /\ stage = "run"
    /\ hist[Len(hist)].role = "assistant"
    /\ LET k == DetectCompact(conv, hist)
           items == IF k = 0 THEN CommitItems(hist)
                    ELSE CompactItems(conv[1].id, conv[k].id, hist[1].holds)
       IN  /\ next + Clones(items) <= MaxNodes \/ k = 0
           /\ todo' = items
           /\ next' = IF k = 0 THEN next ELSE next + Clones(items)
           /\ stage' = IF k = 0 THEN "commit"
                       ELSE IF items = <<>> THEN "failed" ELSE "runCompact"
    /\ UNCHANGED <<conv, hist, fresh, told, fed, dirty, used>>
    /\ DiskSame /\ StoreSame /\ JournalSame

CommitRest ==
    /\ stage = "runCompact" /\ todo = <<>>
    /\ todo' = CommitItems(Tail(hist))
    /\ stage' = "commit"
    /\ UNCHANGED <<conv, hist, next, fresh, told, fed, dirty, used>>
    /\ DiskSame /\ StoreSame /\ JournalSame

\* Store.Checkpoint at the new head.
CheckpointRun ==
    /\ stage = "commit" /\ todo = <<>>
    /\ todo' = One(Mark("ck", store.head))
    /\ stage' = "checkpoint"
    /\ UNCHANGED <<conv, hist, next, fresh, told, fed, dirty, used>>
    /\ DiskSame /\ StoreSame /\ JournalSame

(* refreshConversation; the turn is reported Persisted.  A turn the model  *)
(* failed or the user cancelled is committed too, with its note, and ends  *)
(* in another final state than "completed": they are not told apart.       *)
RefreshRun ==
    /\ stage \in {"checkpoint", "refresh"} /\ todo = <<>>
    /\ conv' = ActiveView
    /\ told' = told \cup fresh
    /\ hist' = <<>>
    /\ stage' = "completed"
    /\ UNCHANGED <<todo, next, fresh, fed, dirty, used>>
    /\ DiskSame /\ StoreSame /\ JournalSame

\* RecordRun appends the final state; a failure to do so only warns.
EndRun ==
    /\ stage \in {"completed", "failed"}
    /\ \/ /\ journal' = [journal EXCEPT ![Run] = Line(@, <<stage>>)]
          /\ UNCHANGED <<dirty, used>>
       \/ /\ Spend("faults") /\ dirty' = TRUE
          /\ \E j \in Failed(journal[Run], <<stage>>) :
               journal' = [journal EXCEPT ![Run] = j]
    /\ stage' = "idle"
    /\ hist' = <<>> /\ fresh' = {}
    /\ UNCHANGED <<conv, todo, scan, glued, next, told, fed>>
    /\ DiskSame /\ StoreSame

----------------------------------------------------------------------------
(* Consolidation, /compact and /rewind *)

(* Mutant of PendingAfterCursor: one message too far behind the cursor. *)
PendingOffByOne ==
    LET view == ActiveView
        real == At(view, {i \in DOMAIN view : view[i].id > 0})
        c == IndexOf([i \in DOMAIN real |-> real[i].id], store.cursor)
    IN  SubSeq(real, c + 2, Len(real))

\* PendingAfterCursor: the real messages of the view behind the cursor.
PendingAfterCursor ==
    LET view == ActiveView
        real == At(view, {i \in DOMAIN view : view[i].id > 0})
        c == IndexOf([i \in DOMAIN real |-> real[i].id], store.cursor)
    IN  SubSeq(real, c + 1, Len(real))

(* Consolidate, alone (/task checkpoint) or as the first half of /compact. *)
(* The memory may fail or decline, and then the cursor stays.              *)
Consolidate(then) ==
    /\ stage = "idle"
    /\ Spend("feeds")
    /\ LET pending == PendingAfterCursor IN
         \/ /\ pending /= <<>>
            /\ fed' = fed \cup Content(pending)
            /\ todo' = One(Mark("cursor", pending[Len(pending)].id))
         \/ UNCHANGED <<fed, todo>>
    /\ stage' = then
    /\ UNCHANGED <<conv, hist, next, fresh, told, dirty>>
    /\ DiskSame /\ StoreSame /\ JournalSame

(* The second half of compactStore: the view is compressed, an earlier     *)
(* summary included, and folded in the store.  Nothing happens when it is  *)
(* too short, the provider fails or no compaction is recognised.           *)
CompressStore ==
    /\ stage = "compress"
    /\ \/ LET view == ActiveView
              new == Compress(view, FALSE)
              k == DetectCompact(view, new)
              items == CompactItems(view[1].id, view[k].id, new[1].holds)
          IN  /\ k > 0
              /\ next + Clones(items) <= MaxNodes
              /\ todo' = items
              /\ next' = next + Clones(items)
              /\ stage' = IF items = <<>> THEN "idle" ELSE "compact"
       \/ stage' = "idle" /\ UNCHANGED <<todo, next>>
    /\ UNCHANGED <<conv, hist, fresh, told, fed, dirty, used>>
    /\ DiskSame /\ StoreSame /\ JournalSame

\* doRewind: to one of the listed checkpoints, unless already there.
Rewind ==
    /\ stage = "idle"
    /\ Spend("rewinds")
    /\ \E at \in store.cks :
         /\ ~(conv /= <<>> /\ conv[Len(conv)].id = at)
         /\ todo' = One(Mark("head", at))
         /\ told' = told \cap Content(buildActiveView(store.nodes, at))
    /\ stage' = "rewind"
    /\ UNCHANGED <<conv, hist, next, fresh, fed, dirty>>
    /\ DiskSame /\ StoreSame /\ JournalSame

(* Mutant of Done: /compact and /rewind do not refresh the conversation. *)
DoneUnrefreshed ==
    /\ todo = <<>>
    /\ \/ stage \in {"cursor", "compact", "rewind"} /\ stage' = "idle"
       \/ stage = "consolidate" /\ stage' = "compress"
    /\ UNCHANGED <<conv, todo, hist, next, fresh, told, fed, dirty, used>>
    /\ DiskSame /\ StoreSame /\ JournalSame

\* The operation's last append has been made.
Done ==
    /\ todo = <<>>
    /\ \/ stage = "cursor" /\ stage' = "idle" /\ UNCHANGED conv
       \/ stage = "consolidate" /\ stage' = "compress" /\ UNCHANGED conv
       \/ stage \in {"compact", "rewind"} /\ stage' = "idle"
          /\ conv' = ActiveView
    /\ UNCHANGED <<todo, hist, next, fresh, told, fed, dirty, used>>
    /\ DiskSame /\ StoreSame /\ JournalSame

----------------------------------------------------------------------------
(* The end of the process or of the session, and the reopening *)

(* A crash may cut an append short, leaving nothing, part of the line, the *)
(* line without its newline, or the line with the process gone before it   *)
(* could go on.                                                            *)
CutShort ==
    \/ DiskSame
    \/ todo /= <<>> /\ Torn
    \/ todo /= <<>> /\ Written(todo[1].line)
    \/ /\ todo /= <<>> /\ tail = "clean"
       /\ file' = Add(file, todo[1].line)
       /\ before' = file /\ tail' = "unterminated"
       /\ UNCHANGED spoiled

\* The journal append under way: of the first state, an event, the last
\* state, or a marker.
JournalCutShort ==
    \/ UNCHANGED journal
    \/ \E r \in Turns, state \in {<<>>, <<"running">>, <<stage>>, <<"interrupted">>} :
         /\ \/ stage = "accept" /\ r = Run /\ state = <<"running">>
            \/ stage \in Running /\ r = Run /\ state = <<>>
            \/ stage \in {"completed", "failed"} /\ r = Run /\ state = <<stage>>
            \/ /\ stage = "recover" /\ r = scan /\ Unended(journal[r])
               /\ state = <<"interrupted">>
         /\ \E j \in Cut(IF stage = "recover" THEN Repaired(journal[r]) ELSE journal[r],
                         state) :
              journal' = [journal EXCEPT ![r] = j]

Forget ==
    /\ store' = Nothing /\ conv' = <<>>
    /\ todo' = <<>> /\ hist' = <<>> /\ fresh' = {} /\ scan' = 1
    /\ stage' = "down"

Crash ==
    /\ stage /= "down"
    /\ Spend("crashes")
    /\ CutShort /\ JournalCutShort
    /\ Forget
    /\ UNCHANGED <<glued, next, told, fed, dirty>>

\* Repository.CloseSession: the session is released, the process goes on.
CloseSession ==
    /\ stage = "idle"
    /\ Spend("crashes")
    /\ Forget
    /\ UNCHANGED <<journal, glued, next, told, fed, dirty>>
    /\ DiskSame

(* Open: a torn last line is cut off, the last head and the last cursor    *)
(* are taken from the lines; NewSession loads the conversation.             *)
Open ==
    /\ stage = "down"
    /\ tail' = IF tail = "torn" THEN "clean" ELSE tail
    /\ store' = file
    /\ conv' = OnDisk
    /\ dirty' = FALSE
    /\ stage' = "recover"
    /\ UNCHANGED <<file, before, spoiled, todo, hist, next, fresh, told, fed, used>>
    /\ JournalSame

(* MarkInterruptedRuns, one journal at a time: cut a torn line off, and    *)
(* mark a run whose last state is not final, if need be behind a line that *)
(* lacks its newline.                                                      *)
MarkInterrupted ==
    /\ stage = "recover" /\ scan <= Run
    /\ LET j == Repaired(journal[scan]) IN
         /\ journal' = [journal EXCEPT ![scan] =
                           IF Unended(j) THEN Line(j, <<"interrupted">>) ELSE j]
         /\ glued' = IF Unended(j) /\ j.tail /= "clean"
                     THEN glued \cup {scan} ELSE glued \ {scan}
    /\ scan' = scan + 1
    /\ UNCHANGED <<conv, stage, todo, hist, next, fresh, told, fed, dirty,
                   used>>
    /\ DiskSame /\ StoreSame

\* The scan has ended, or given up with a warning; the session is ready.
Recovered ==
    /\ stage = "recover"
    /\ \/ scan > Run /\ UNCHANGED <<journal, dirty, used>>
       \/ /\ scan <= Run /\ Spend("faults") /\ dirty' = TRUE
          /\ LET j == Repaired(journal[scan]) IN
               \/ UNCHANGED journal
               \/ journal' = [journal EXCEPT ![scan] = j]
               \/ /\ Unended(j)
                  /\ \E k \in Failed(j, <<"interrupted">>) :
                       journal' = [journal EXCEPT ![scan] = k]
    /\ stage' = "idle"
    /\ UNCHANGED <<conv, todo, hist, scan, glued, next, fresh, told, fed>>
    /\ DiskSame /\ StoreSame

Next ==
    \/ appendRecord \/ AppendFails
    \/ BeginRun \/ AcceptRun \/ AcceptFails \/ JournalEvent \/ Reply
    \/ FinishRun \/ CommitRest \/ CheckpointRun \/ RefreshRun \/ EndRun
    \/ Consolidate("cursor") \/ Consolidate("consolidate") \/ CompressStore
    \/ Rewind \/ Done
    \/ Crash \/ CloseSession \/ Open \/ MarkInterrupted \/ Recovered

Spec == Init /\ [][Next]_vars

----------------------------------------------------------------------------
(* Properties *)

Stages == {"down", "recover", "idle", "accept", "run", "runCompact", "commit",
           "checkpoint", "refresh", "completed", "failed", "cursor",
           "consolidate", "compress", "compact", "rewind"}

\* The shape of the state.
TypeOK ==
    /\ tail \in {"clean", "torn", "unterminated"}
    /\ stage \in Stages
    /\ todo /= <<>> => stage \in DOMAIN afterFailure
    /\ \A s \in {file, before, store} :
         /\ DOMAIN s.nodes \subseteq -MaxNodes .. MaxNodes
         /\ {s.head, s.cursor} \cup s.cks \subseteq -MaxNodes .. MaxNodes
         /\ \A n \in DOMAIN s.nodes :
              s.nodes[n].holds \subseteq 1 .. MaxNodes
    /\ next \in 0 .. MaxNodes
    /\ fresh \subseteq 1 .. MaxNodes /\ told \subseteq 1 .. MaxNodes
    /\ fed \subseteq 1 .. MaxNodes /\ glued \subseteq Turns

(* What a compact line folds away without its summary holding it. *)
Unheld(c) == Content(buildActiveView(file.nodes, -c)) \ file.nodes[c].holds
Folds == {c \in DOMAIN file.nodes : c < 0}

(* The content of every turn reported as persisted is in the view that the *)
(* file yields at any moment, the original or a summary of it, unless the  *)
(* user asked to rewind past it, or one of the two known losses occurred:  *)
(* a second fold in one run that covers more than its summary holds, or a  *)
(* line written behind an unfinished one.  So through compactions, failed  *)
(* appends, and a crash in or between any appends (Run's Persisted,        *)
(* store.go Open).                                                         *)
NothingForgotten ==
    ~spoiled => told \subseteq Content(OnDisk) \cup UNION {Unheld(c) : c \in Folds}

(* Between operations, unless an append has failed since the store was     *)
(* opened or a line was written behind an unfinished one, the conversation *)
(* the model is given, the store's view and the view a restart would       *)
(* rebuild from the file are the same messages in the same order           *)
(* (refreshConversation, Commit, Compact, Open).                           *)
ReloadAgrees ==
    stage = "idle" /\ ~dirty /\ ~spoiled => conv = ActiveView /\ conv = OnDisk

(* The consolidation cursor never skips: whatever stands at or before it   *)
(* in the view, in memory or after a restart, has been given to the memory *)
(* (PendingAfterCursor, AdvanceCursor, remapCursor).                       *)
Covers(view, c) ==
    \A j \in DOMAIN view :
        view[j].id = c => \A i \in 1 .. j : view[i].id > 0 => view[i].holds \subseteq fed
CursorSkipsNothing ==
    /\ Covers(ActiveView, store.cursor)
    /\ Covers(OnDisk, file.cursor)

(* A run's journal ends: once the recovery has gone through the journals,  *)
(* every run that was accepted has a final state, and no journal ever gets *)
(* a second one, however often the scan is cut short and repeated.  The    *)
(* one exception are the runs whose last line lacked only its newline: the *)
(* marker was glued to it and cannot be read, and the next scan has to     *)
(* write another (MarkInterruptedRuns).                                    *)
RecoveredRunsEnded ==
    LET final(r) == {i \in DOMAIN journal[r].states : journal[r].states[i] /= "running"}
    IN  /\ \A r \in Turns : final(r) \subseteq {Len(journal[r].states)}
        /\ stage = "idle" /\ ~dirty =>
             \A r \in Turns \ glued : journal[r].states /= <<>> => final(r) /= {}
=============================================================================
