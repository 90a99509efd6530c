----------------------------- MODULE AgentTurn -----------------------------
(***************************************************************************)
(* One session's turns from the inside: the ReAct loop of ai-core, the     *)
(* human-in-the-loop gate in front of every tool, the approval registry a  *)
(* client answers through, and the proxy of a tool that runs on a client's *)
(* device.                                                                 *)
(*                                                                         *)
(* Two goroutines carry a turn.  The agent asks the model, runs the tool   *)
(* calls and sends tokens; the consumer (Session.streamTokens, on the run  *)
(* supervisor's goroutine) receives them and, for an interrupt, waits in   *)
(* the ApprovalManager for an answer and hands it back.  The token channel *)
(* has no buffer, the channel of decisions has room for one.  Both sides   *)
(* keep a timer of their own for the one deadline of a request.            *)
(*                                                                         *)
(* Texts, arguments and results are left out; a tool call is what the gate *)
(* looks at.  A request is named by its number, as the process does.       *)
(***************************************************************************)
EXTENDS Integers, FiniteSets, Sequences

CONSTANTS
    Calls,          \* the tool calls a model may ask for
    Modes,          \* sandbox modes of the configuration
    AutoMaxRisk,    \* the highest risk the auto mode lets through
    Offered,        \* the answers clients give
    Conns,          \* connections whose client offers the device tool
    HostBinds,      \* connections whose host may also Bind outside a prompt
    MaxIterations,  \* the agent's limit of model calls in a turn
    MaxTurns,       \* bounds the number of turns
    MaxAsks,        \* bounds the number of approval requests
    Nothing         \* no token, no answer, no waiter, ...

RiskBenign == 0
RiskLow == 1
RiskMedium == 2
RiskElevated == 3
RiskHigh == 4

(* gate: the branch of OnBeforeTool the call takes; tokens: name and       *)
(* arguments of the first shell segment of a bash command, all that an     *)
(* allow rule looks at, so that commands that differ in later segments     *)
(* alone are one call; level, effects and hard are of the whole command;   *)
(* key: what an "always" for a policy tool is stored under; device:        *)
(* Execute is a proxy.                                                     *)
CallFields == {"gate", "tokens", "key", "level", "force", "hard", "effects", "declared", "device"}
Gates == {"bash", "policy", "sys", "mcp", "none", "invalid"}
Answers == {"approve", "always", "edit", "reject", "respond"}

(* What goes through the channel from the agent to the consumer.           *)
Tokens == [kind : {"text", "note", "call", "result", "interrupt"}, done : BOOLEAN, id : 0..MaxAsks]

(* Only a bash command can be forbidden outright, only the policy of a     *)
(* policy tool can insist on being asked.                                  *)
ASSUME TurnBounds ==
    /\ MaxIterations \in Nat \ {0} /\ MaxTurns \in Nat \ {0} /\ MaxAsks \in Nat
    /\ AutoMaxRisk \in Nat
    /\ Modes \subseteq {"off", "normal", "auto", "strict", "readonly"}
    /\ HostBinds \subseteq Conns /\ Offered \subseteq Answers
    /\ Nothing \notin Answers \cup Tokens
    /\ \A c \in Calls :
         /\ DOMAIN c = CallFields /\ c.gate \in Gates /\ c.level \in Nat
         /\ {c.force, c.hard, c.device} \subseteq BOOLEAN
         /\ c.hard => c.gate = "bash"
         /\ c.force => c.gate = "policy"

VARIABLES
    mode,       \* the sandbox mode
    run,        \* the running turn: its number and what RunHandle.State() shows
    cancelled,  \* its runCtx has been cancelled
    agent,      \* the agent goroutine
    sending,    \* the token it is blocked on, or Nothing
    consumer,   \* the goroutine in Session.Run
    decisions,  \* the channel of decisions of this turn
    pending,    \* ApprovalManager.pending
    clock,      \* where each request stands with its deadline
    rules,      \* the allow rules remembered so far
    bindings,   \* connections with a binding of this session that has not expired
    waiter,     \* CapabilityRegistry.waiters of this session and tool
    queued,     \* connections whose prompt waits for the session's gate
    answered,   \* for the properties: the answer Resolve accepted
    verdict,    \* for the properties: what GetDecision returned
    ran,        \* for the properties: what was executed and why
    fresh       \* for the properties: a Bind since the last lookup

vars == <<mode, run, cancelled, agent, sending, consumer, decisions, pending, clock,
          rules, bindings, waiter, queued, answered, verdict, ran, fresh>>

approvals == <<pending, clock, answered>>
registry  == <<bindings, waiter, queued, fresh>>
turn      == <<mode, run, cancelled>>
ghosts    == <<verdict, ran>>

Asks == 1..MaxAsks

--------------------------------------------------------------------------
(* The sandbox's verdict on a call.                                        *)

Higher(a, b) == IF a > b THEN a ELSE b

floorByEffects(effects) ==
    IF effects \cap {"exec", "privileged", "secret"} # {} THEN RiskHigh
    ELSE IF "destroy" \in effects THEN RiskElevated
    ELSE IF effects \cap {"write", "spawn"} # {} THEN RiskMedium
    ELSE RiskBenign

decisionFor(level, m) ==
    CASE m = "auto" -> IF level <= AutoMaxRisk THEN "allow" ELSE "hitl"
      [] m \in {"strict", "readonly"} -> IF level <= RiskLow THEN "allow" ELSE "deny"
      [] OTHER -> IF level <= RiskLow THEN "allow" ELSE "hitl"

effective(call) == Higher(call.level, floorByEffects(call.effects))

tokensMatch(cmdTokens, matchTokens) ==
    /\ Len(matchTokens) <= Len(cmdTokens)
    /\ \A i \in 1..Len(matchTokens) : cmdTokens[i] = matchTokens[i]

(* A rule covers every command that begins with its tokens, with whatever  *)
(* arguments and segments behind them, up to the risk it was given for,    *)
(* and, if it names effects at all, only those.                            *)
matchAllowRule(call) ==
    /\ call.tokens # <<>>
    /\ \E r \in rules : /\ r.gate = "bash" /\ tokensMatch(call.tokens, r.tokens)
                        /\ effective(call) <= r.max
                        /\ r.effects = {} \/ call.effects \subseteq r.effects

Evaluate(call) ==
    CASE mode = "off" -> "allow"
      [] mode # "off" /\ call.hard -> "deny"
      [] OTHER -> IF mode = "normal" /\ decisionFor(effective(call), mode) = "hitl" /\ matchAllowRule(call)
                  THEN "allow"
                  ELSE decisionFor(effective(call), mode)

toolAllowRuleMatches(call) ==
    /\ call.key # Nothing
    /\ \E r \in rules : r.gate = "policy" /\ r.key = call.key /\ call.level <= r.max

toolDecision(call) ==
    CASE mode \in {"strict", "readonly"} -> IF call.level <= RiskLow THEN "allow" ELSE "deny"
      [] mode = "auto" -> IF ~call.force /\ call.level <= AutoMaxRisk THEN "allow" ELSE "hitl"
      [] mode = "off" -> IF ~call.force THEN "allow" ELSE "hitl"
      [] OTHER -> IF ~call.force /\ (call.level <= RiskLow \/ toolAllowRuleMatches(call))
                  THEN "allow" ELSE "hitl"

checkSys(call) ==
    CASE mode \in {"strict", "readonly"} -> IF call.declared = "never" THEN "allow" ELSE "deny"
      [] mode = "off" -> IF call.declared = "always" THEN "hitl" ELSE "allow"
      [] OTHER -> IF call.declared = "never" THEN "allow" ELSE "hitl"

checkMCP == CASE mode \in {"off", "auto"} -> "allow"
              [] mode \in {"strict", "readonly"} -> "deny"
              [] OTHER -> "hitl"

(* checkBash asks the policy, in the mode of the session's configuration.  *)
checkBash(call) == Evaluate(call)

(* OnBeforeTool: which check is made for the call.                         *)
gateOf(call) ==
    CASE call.gate = "bash"   -> checkBash(call)
      [] call.gate = "policy" -> toolDecision(call)
      [] call.gate = "sys"    -> checkSys(call)
      [] call.gate = "mcp"    -> checkMCP
      [] OTHER -> "allow"

(* The rule an "always" answer leaves behind; a command without a name, a  *)
(* policy tool without a key and the tools of the other gates have none.   *)
CanRemember(call) ==
    (call.gate = "bash" /\ call.tokens # <<>>) \/ (call.gate = "policy" /\ call.key # Nothing)

ruleFor(call) ==
    [gate |-> call.gate, tokens |-> call.tokens, key |-> call.key,
     max |-> IF call.gate = "bash" THEN effective(call) ELSE call.level,
     effects |-> call.effects]

(* A tool rule replaces the one of the same key, a bash rule is added.     *)
remember(call) ==
    {r \in rules : ~(r.gate = "policy" /\ call.gate = "policy" /\ r.key = call.key)} \cup {ruleFor(call)}

--------------------------------------------------------------------------
Token(kind, done) == [kind |-> kind, done |-> done, id |-> 0]

Interrupt(n) == [kind |-> "interrupt", done |-> FALSE, id |-> n]

IdleAgent == [pc |-> "closed", iter |-> 0, todo |-> <<>>, call |-> Nothing, id |-> 0,
              failed |-> FALSE, waiting |-> FALSE, on |-> Nothing]

(* inbox: the channel of the registry's entry the consumer waits on.       *)
IdleConsumer == [pc |-> "idle", id |-> 0, inbox |-> Nothing, answer |-> Nothing]

Decision(n, a) == [id |-> n, answer |-> a]

Init ==
    /\ mode \in Modes
    /\ run = [n |-> 0, state |-> "idle"]
    /\ cancelled = FALSE
    /\ agent = IdleAgent
    /\ sending = Nothing
    /\ consumer = IdleConsumer
    /\ decisions = <<>>
    /\ pending = [n \in {} |-> Nothing]
    /\ clock = [n \in Asks |-> "unborn"]
    /\ rules = {}
    /\ bindings = {}
    /\ waiter = Nothing
    /\ queued = {}
    /\ answered = [n \in Asks |-> Nothing]
    /\ verdict = [n \in Asks |-> Nothing]
    /\ ran = {}
    /\ fresh = FALSE

--------------------------------------------------------------------------
(* Connections, prompts and the capability registry.                       *)

(* Bind replaces the connection's entry and wakes a registered waiter.     *)
bound(c) ==
    /\ bindings' = bindings \cup {c}
    /\ waiter' = IF waiter = Nothing THEN Nothing ELSE "token"
    /\ fresh' = (waiter # Nothing)

(* A client sends a prompt: its run queues for the session's gate.         *)
Prompt(c) ==
    /\ c \notin queued /\ run.n < MaxTurns
    /\ queued' = queued \cup {c}
    /\ UNCHANGED <<turn, agent, sending, consumer, decisions, approvals, rules, bindings, waiter, fresh, ghosts>>

GateFree == consumer.pc = "idle" /\ run.n < MaxTurns

(* Session.Run from its provider to agent.Run: the turn gets an agent, a   *)
(* channel of decisions and a consumer, all of its own ...                 *)
StartAgent ==
    /\ run' = [n |-> run.n + 1, state |-> "running"]
    /\ agent' = [IdleAgent EXCEPT !.pc = "model"]
    /\ consumer' = [IdleConsumer EXCEPT !.pc = "reading"]
    /\ decisions' = <<>>

(* ... or it fails for want of a provider, before there is an agent.       *)
NewProviderFails ==
    /\ run' = [n |-> run.n + 1, state |-> "failed"]
    /\ UNCHANGED <<agent, consumer, decisions>>

(* The run holds the gate: Session.Run collects the tools, and only here   *)
(* does the daemon probe the device and bind it; then the agent starts.    *)
(* A device that does not answer the probe is not bound.                   *)
CollectTools(c) ==
    /\ c \in queued /\ GateFree
    /\ queued' = queued \ {c}
    /\ bound(c) \/ UNCHANGED <<bindings, waiter, fresh>>
    /\ cancelled' = FALSE
    /\ StartAgent \/ NewProviderFails
    /\ UNCHANGED <<mode, sending, approvals, rules, ghosts>>

(* The registry is part of the SDK: another host may bind at any time.     *)
Rebind(c) ==
    /\ c \in HostBinds
    /\ bound(c)
    /\ UNCHANGED <<turn, agent, sending, consumer, decisions, approvals, rules, queued, ghosts>>

(* The connection ends and handler.Close takes its binding out, or the     *)
(* time the binding was given is over: from then on no lookup finds it.    *)
UnbindConnection(c) ==
    /\ c \in bindings
    /\ bindings' = bindings \ {c}
    /\ UNCHANGED <<turn, agent, sending, consumer, decisions, approvals, rules, waiter, queued, fresh, ghosts>>

(* CancelRun, or the manager's Close.                                      *)
Cancel ==
    /\ consumer.pc # "idle" /\ ~cancelled
    /\ cancelled' = TRUE
    /\ UNCHANGED <<mode, run, agent, sending, consumer, decisions, approvals, rules, registry, ghosts>>

--------------------------------------------------------------------------
(* The agent goroutine.                                                    *)

At(pc) == agent.pc = pc /\ sending = Nothing

AgentOnly == UNCHANGED <<turn, consumer, decisions, approvals, rules, registry, ghosts>>

(* The model fails, or answers nothing: a note with the Done flag.         *)
ModelFails ==
    /\ At("model") /\ agent.iter < MaxIterations
    /\ agent' = [agent EXCEPT !.pc = "exit", !.failed = TRUE]
    /\ sending' = Token("note", TRUE)
    /\ AgentOnly

(* A final answer: the text, then the Done token.                          *)
ModelAnswers ==
    /\ At("model") /\ agent.iter < MaxIterations
    /\ agent' = [agent EXCEPT !.pc = "finish"]
    /\ sending' = Token("text", FALSE)
    /\ AgentOnly

(* One or two tool calls; MaxAsks bounds them.                             *)
ModelCalls ==
    /\ At("model") /\ agent.iter < MaxIterations
    /\ \E todo \in {<<c>> : c \in Calls} \cup (Calls \X Calls) :
          /\ Len(todo) <= Cardinality({n \in Asks : clock[n] = "unborn"})
          /\ agent' = [agent EXCEPT !.pc = "call", !.todo = todo]
    /\ UNCHANGED sending
    /\ AgentOnly

(* The limit of iterations: a note that is not Done, then the Done token.  *)
Exhausted ==
    /\ At("model") /\ agent.iter = MaxIterations
    /\ agent' = [agent EXCEPT !.pc = "finish"]
    /\ sending' = Token("note", FALSE)
    /\ AgentOnly

Finish ==
    /\ At("finish")
    /\ agent' = [agent EXCEPT !.pc = "exit"]
    /\ sending' = Token("text", TRUE)
    /\ AgentOnly

(* The deferred functions: the history goes to msgCh, ch is closed.        *)
Close ==
    /\ At("exit")
    /\ agent' = [agent EXCEPT !.pc = "closed"]
    /\ UNCHANGED sending
    /\ AgentOnly

AnnounceCall ==
    /\ At("call")
    /\ agent' = [agent EXCEPT !.pc = "gate", !.call = Head(agent.todo), !.todo = Tail(agent.todo)]
    /\ sending' = Token("call", FALSE)
    /\ AgentOnly

(* The result goes out; the next call, or the next model call.             *)
Result ==
    /\ At("result")
    /\ agent' = [agent EXCEPT !.pc = IF agent.todo = <<>> THEN "model" ELSE "call",
                              !.iter = IF agent.todo = <<>> THEN @ + 1 ELSE @,
                              !.call = Nothing, !.id = 0]
    /\ sending' = Token("result", FALSE)
    /\ AgentOnly

(* The gate lets the call pass, or a call with bad arguments or of an      *)
(* unknown tool is answered without asking it, or it is denied.            *)
GatePasses ==
    /\ At("gate") /\ agent.call.gate # "invalid" /\ gateOf(agent.call) = "allow"
    /\ agent' = [agent EXCEPT !.pc = "execute"]
    /\ ran' = ran \cup {[call |-> agent.call, id |-> 0]}
    /\ UNCHANGED <<turn, sending, consumer, decisions, approvals, rules, registry, verdict>>

GateDenies ==
    /\ At("gate") /\ (agent.call.gate = "invalid" \/ gateOf(agent.call) = "deny")
    /\ agent' = [agent EXCEPT !.pc = "result"]
    /\ UNCHANGED sending
    /\ AgentOnly

(* confirm: a new request, its deadline running, and the interrupt token.  *)
GateAsks ==
    /\ At("gate") /\ gateOf(agent.call) = "hitl"
    /\ \E n \in Asks :
          /\ clock[n] = "unborn" /\ \A k \in 1..(n - 1) : clock[k] # "unborn"
          /\ clock' = [clock EXCEPT ![n] = "live"]
          /\ agent' = [agent EXCEPT !.pc = "ask", !.id = n]
          /\ sending' = Interrupt(n)
    /\ UNCHANGED <<turn, consumer, decisions, pending, answered, rules, registry, ghosts>>

(* GetDecision before its loop: a request past its deadline is rejected    *)
(* without a look at the channel.                                          *)
GetDecision ==
    /\ At("ask") /\ clock[agent.id] = "live"
    /\ agent' = [agent EXCEPT !.pc = "await"]
    /\ UNCHANGED sending
    /\ AgentOnly

(* The user may replace a bash command, and only that.                     *)
edited(a) == IF a = "edit" /\ agent.call.gate = "bash"
             THEN {c \in Calls : c.gate = "bash"} ELSE {agent.call}

(* The rest of confirm once a decision a is there.  "always" needs a rule  *)
(* that can be stored; an edited command is only looked at for a denial.   *)
Decide(a) ==
    /\ verdict' = [verdict EXCEPT ![agent.id] =
                      [answer |-> a, cut |-> cancelled \/ clock[agent.id] # "live"]]
    /\ \/ /\ a \in {"approve", "edit"} \/ (a = "always" /\ CanRemember(agent.call))
          /\ \E c \in edited(a) :
                IF a = "edit" /\ c.gate = "bash" /\ Evaluate(c) = "deny"
                THEN agent' = [agent EXCEPT !.pc = "result", !.call = c] /\ UNCHANGED ran
                ELSE /\ agent' = [agent EXCEPT !.pc = "execute", !.call = c]
                     /\ ran' = ran \cup {[call |-> c, id |-> agent.id]}
          /\ rules' = IF a = "always" THEN remember(agent.call) ELSE rules
       \/ /\ a \in {"reject", "respond", "always"}   \* always: the rule could not be stored
          /\ agent' = [agent EXCEPT !.pc = "result"]
          /\ UNCHANGED <<rules, ran>>
    /\ UNCHANGED <<turn, sending, consumer, approvals, registry>>

(* GetDecision's loop: the turn is cancelled or the deadline has passed.   *)
DecisionDefaults ==
    /\ \/ At("ask") /\ clock[agent.id] # "live"
       \/ At("await") /\ (cancelled \/ clock[agent.id] # "live")
    /\ Decide("reject")
    /\ UNCHANGED decisions

(* Mutant of TakeDecision: the request's number is not looked at.          *)
TakeAnyDecision ==
    /\ At("await") /\ decisions # <<>>
    /\ decisions' = <<>>
    /\ Decide(Head(decisions).answer)

(* A decision for another request is a leftover and dropped.               *)
DropStale ==
    /\ At("await") /\ decisions # <<>> /\ Head(decisions).id # agent.id
    /\ decisions' = <<>>
    /\ UNCHANGED <<turn, agent, sending, consumer, approvals, rules, registry, ghosts>>

TakeDecision ==
    /\ At("await") /\ decisions # <<>> /\ Head(decisions).id = agent.id
    /\ decisions' = <<>>
    /\ Decide(Head(decisions).answer)

(* A tool that runs in the host; it ends by itself or at its 60 seconds.   *)
Execute ==
    /\ At("execute") /\ ~agent.call.device
    /\ agent' = [agent EXCEPT !.pc = "result"]
    /\ UNCHANGED sending
    /\ AgentOnly

(* executeCapabilityTool: the waiter is registered before the first look.  *)
waitChan ==
    /\ At("execute") /\ agent.call.device
    /\ agent' = [agent EXCEPT !.pc = "lookup"]
    /\ waiter' = "empty"
    /\ UNCHANGED <<turn, sending, consumer, decisions, approvals, rules, bindings, queued, fresh, ghosts>>

(* onWait tells the run's state unless the turn is cancelled; the proxy of *)
(* every background run has the observer.                                  *)
onWait(waiting) ==
    run' = CASE waiting -> [run EXCEPT !.state = "waiting_capability"]
             [] ~waiting /\ ~cancelled -> [run EXCEPT !.state = "running"]
             [] OTHER -> run

(* lookupResolved: the code takes the first connection by name.            *)
LookupFinds ==
    /\ At("lookup")
    /\ \E c \in bindings : agent' = [agent EXCEPT !.pc = "invoke", !.on = c, !.waiting = FALSE]
    /\ IF agent.waiting THEN onWait(FALSE) ELSE UNCHANGED run
    /\ fresh' = FALSE
    /\ UNCHANGED <<mode, cancelled, sending, consumer, decisions, approvals, rules, bindings, waiter, queued, ghosts>>

Suspend == [agent EXCEPT !.pc = "suspended", !.on = Nothing, !.waiting = TRUE]

LookupFails ==
    /\ At("lookup") /\ bindings = {}
    /\ agent' = Suspend
    /\ IF agent.waiting THEN UNCHANGED run ELSE onWait(TRUE)
    /\ fresh' = FALSE
    /\ UNCHANGED <<mode, cancelled, sending, consumer, decisions, approvals, rules, bindings, waiter, queued, ghosts>>

(* Mutant of LeaveProxy: the run's state is left as it is.                 *)
LeaveProxySilently ==
    /\ agent' = [agent EXCEPT !.pc = "result", !.on = Nothing, !.waiting = FALSE]
    /\ waiter' = Nothing /\ fresh' = FALSE
    /\ UNCHANGED run

(* dropWaitChan and leaveWait on the way out.                              *)
LeaveProxy ==
    /\ agent' = [agent EXCEPT !.pc = "result", !.on = Nothing, !.waiting = FALSE]
    /\ waiter' = Nothing /\ fresh' = FALSE
    /\ IF agent.waiting THEN onWait(FALSE) ELSE UNCHANGED run

(* The device answers, or the call ends with its context or its 60 s.      *)
InvokeEnds ==
    /\ At("invoke")
    /\ LeaveProxy
    /\ UNCHANGED <<mode, cancelled, sending, consumer, decisions, approvals, rules, bindings, queued, ghosts>>

(* Mutant of Invalidate: notifications so far are drained before the wait. *)
InvalidateAndDrain ==
    /\ At("invoke")
    /\ bindings' = bindings \ {agent.on}
    /\ agent' = Suspend
    /\ onWait(TRUE)
    /\ waiter' = "empty"
    /\ UNCHANGED <<mode, cancelled, sending, consumer, decisions, approvals, rules, queued, fresh, ghosts>>

(* The call fails: the binding is taken out at once and the proxy waits.   *)
Invalidate ==
    /\ At("invoke")
    /\ bindings' = bindings \ {agent.on}
    /\ agent' = Suspend
    /\ onWait(TRUE)
    /\ UNCHANGED <<mode, cancelled, sending, consumer, decisions, approvals, rules, waiter, queued, fresh, ghosts>>

Woken ==
    /\ At("suspended") /\ waiter = "token"
    /\ waiter' = "empty"
    /\ agent' = [agent EXCEPT !.pc = "lookup"]
    /\ UNCHANGED <<turn, sending, consumer, decisions, approvals, rules, bindings, queued, fresh, ghosts>>

(* The wait's budget is spent, or the call's context ends.                 *)
WaitTimesOut ==
    /\ At("suspended")
    /\ LeaveProxy
    /\ UNCHANGED <<mode, cancelled, sending, consumer, decisions, approvals, rules, bindings, queued, ghosts>>

(* sendToken gives up with the context, emitToken two seconds later;       *)
(* emitAgentNote never does.                                               *)
SendGivesUp ==
    /\ sending # Nothing /\ sending.kind # "note" /\ cancelled
    /\ sending' = Nothing
    /\ UNCHANGED <<turn, agent, consumer, decisions, approvals, rules, registry, ghosts>>

--------------------------------------------------------------------------
(* The consumer: Session.streamTokens and, for an interrupt, decideFunc.   *)

ConsumerOnly == UNCHANGED <<turn, agent, decisions, approvals, rules, registry, ghosts>>

Receive ==
    /\ consumer.pc = "reading" /\ sending # Nothing
    /\ sending' = Nothing
    /\ consumer' = [consumer EXCEPT !.pc = CASE sending.done -> "left"
                                             [] sending.kind = "interrupt" -> "deciding"
                                             [] OTHER -> "reading",
                                    !.id = sending.id]
    /\ ConsumerOnly

ChannelClosed ==
    /\ consumer.pc = "reading" /\ At("closed")
    /\ consumer' = [consumer EXCEPT !.pc = "left"]
    /\ UNCHANGED sending
    /\ ConsumerOnly

(* sweepResolvedExpiredLocked: of the settled requests whose deadline has  *)
(* passed, those that are also past the grace period.  How long ago it     *)
(* passed is not kept: any of them may be.                                 *)
Sweepable == {n \in DOMAIN pending : pending[n] = "resolved" /\ clock[n] # "live"}

Without(S) == [n \in DOMAIN pending \ S |-> pending[n]]

(* decideFunc up to the select of Wait: the run waits for input, and the   *)
(* request is in the registry; past its deadline it is not waited for.     *)
Wait ==
    /\ consumer.pc = "deciding"
    /\ run' = [run EXCEPT !.state = "waiting_input"]
    /\ \E S \in SUBSET Sweepable :
          pending' = [n \in (DOMAIN pending \ S) \cup {consumer.id} |->
                         IF n = consumer.id THEN "open" ELSE pending[n]]
    /\ consumer' = IF clock[consumer.id] = "live"
                   THEN [consumer EXCEPT !.pc = "waiting"]
                   ELSE [consumer EXCEPT !.pc = "giveup", !.answer = "reject"]
    /\ UNCHANGED <<mode, cancelled, agent, sending, decisions, clock, answered, rules, registry, ghosts>>

WaitAnswered ==
    /\ consumer.pc = "waiting" /\ consumer.inbox # Nothing
    /\ consumer' = [consumer EXCEPT !.pc = "back", !.answer = consumer.inbox]
    /\ UNCHANGED sending
    /\ ConsumerOnly

(* The select takes the deadline or the cancellation ...                   *)
WaitEnds ==
    /\ consumer.pc = "waiting" /\ (cancelled \/ clock[consumer.id] # "live")
    /\ consumer' = [consumer EXCEPT !.pc = "giveup", !.answer = "reject"]
    /\ UNCHANGED sending
    /\ ConsumerOnly

(* ... and closes the request under the lock: later answers are refused.   *)
markResolved ==
    /\ consumer.pc = "giveup"
    /\ consumer' = [consumer EXCEPT !.pc = "back"]
    /\ pending' = [n \in DOMAIN pending |->
                      IF n = consumer.id THEN "resolved" ELSE pending[n]]
    /\ UNCHANGED <<turn, agent, sending, decisions, clock, answered, rules, registry, ghosts>>

(* Mutant of HandOver: the cancellation is not watched.                    *)
HandOverRegardless ==
    /\ consumer.pc = "handing"
    /\ decisions = <<>>
    /\ decisions' = <<Decision(consumer.id, consumer.answer)>>
    /\ consumer' = [IdleConsumer EXCEPT !.pc = "reading"]
    /\ UNCHANGED <<turn, agent, sending, approvals, rules, registry, ghosts>>

(* Back to running, unless the turn has been cancelled meanwhile.          *)
DecideReturns ==
    /\ consumer.pc = "back"
    /\ run' = IF cancelled THEN run ELSE [run EXCEPT !.state = "running"]
    /\ consumer' = [consumer EXCEPT !.pc = "handing"]
    /\ UNCHANGED <<mode, cancelled, agent, sending, decisions, approvals, rules, registry, ghosts>>

HandOver ==
    /\ consumer.pc = "handing"
    /\ \/ /\ decisions = <<>>
          /\ decisions' = <<Decision(consumer.id, consumer.answer)>>
       \/ /\ cancelled
          /\ UNCHANGED decisions
    /\ consumer' = [IdleConsumer EXCEPT !.pc = "reading"]
    /\ UNCHANGED <<turn, agent, sending, approvals, rules, registry, ghosts>>

(* The end of Session.Run: what the error capture holds decides.           *)
outcome == CASE cancelled -> "cancelled"
             [] ~cancelled /\ agent.failed -> "failed"
             [] OTHER -> "completed"

(* Session.Run has the history, execute names the outcome and lets the     *)
(* gate go.                                                                *)
TurnEnds ==
    /\ consumer.pc = "left" /\ At("closed")
    /\ run' = [run EXCEPT !.state = outcome]
    /\ consumer' = IdleConsumer
    /\ UNCHANGED <<mode, cancelled, agent, sending, decisions, approvals, rules, registry, ghosts>>

--------------------------------------------------------------------------
(* Clients of the approval registry, and time.                             *)

(* Mutant of Resolve: a later answer replaces the first.                   *)
ResolveAgain(n, a) ==
    /\ n \in DOMAIN pending
    /\ pending' = [pending EXCEPT ![n] = "resolved"]
    /\ consumer' = IF n = consumer.id THEN [consumer EXCEPT !.inbox = a] ELSE consumer
    /\ answered' = [answered EXCEPT ![n] = a]
    /\ UNCHANGED <<turn, agent, sending, decisions, clock, rules, registry, ghosts>>

(* Resolve: the first answer wins and is delivered at once, to the         *)
(* goroutine whose Wait opened the request.                                *)
Resolve(n, a) ==
    /\ n \in DOMAIN pending /\ pending[n] = "open"
    /\ \E S \in SUBSET Sweepable : pending' = [Without(S) EXCEPT ![n] = "resolved"]
    /\ consumer' = [consumer EXCEPT !.inbox = a]
    /\ answered' = [answered EXCEPT ![n] = a]
    /\ UNCHANGED <<turn, agent, sending, decisions, clock, rules, registry, ghosts>>

(* Resolve of a settled or unknown request is refused; all it does is to   *)
(* sweep.                                                                  *)
ResolveRefused ==
    /\ \E S \in SUBSET Sweepable : S # {} /\ pending' = Without(S)
    /\ UNCHANGED <<turn, agent, sending, consumer, decisions, clock, answered, rules, registry, ghosts>>

(* Pending: every request past its deadline goes, settled or not.          *)
Pending ==
    /\ \E n \in DOMAIN pending : clock[n] # "live"
    /\ pending' = Without({n \in DOMAIN pending : clock[n] # "live"})
    /\ UNCHANGED <<turn, agent, sending, consumer, decisions, clock, answered, rules, registry, ghosts>>

Expire(n) ==
    /\ clock[n] = "live"
    /\ clock' = [clock EXCEPT ![n] = "expired"]
    /\ UNCHANGED <<turn, agent, sending, consumer, decisions, pending, answered, rules, registry, ghosts>>

--------------------------------------------------------------------------
Agent ==
    \/ ModelFails \/ ModelAnswers \/ ModelCalls \/ Exhausted \/ Finish \/ Close
    \/ AnnounceCall \/ Result \/ GatePasses \/ GateDenies \/ GateAsks
    \/ GetDecision \/ DecisionDefaults \/ DropStale \/ TakeDecision
    \/ Execute \/ waitChan \/ LookupFinds \/ LookupFails \/ InvokeEnds \/ Invalidate
    \/ Woken \/ WaitTimesOut \/ SendGivesUp

Consumer ==
    \/ Receive \/ ChannelClosed \/ Wait \/ WaitAnswered \/ WaitEnds \/ markResolved
    \/ DecideReturns \/ HandOver \/ TurnEnds

Client ==
    \/ \E n \in Asks, a \in Offered : Resolve(n, a)
    \/ ResolveRefused \/ Pending \/ Cancel
    \/ \E c \in Conns : \/ Prompt(c) \/ CollectTools(c)
                        \/ Rebind(c) \/ UnbindConnection(c)

Time == \E n \in Asks : Expire(n)

Next == Agent \/ Consumer \/ Client \/ Time

Spec == Init /\ [][Next]_vars

(* Goroutines run on and timers fire; a provider and a tool come back,     *)
(* because both get a context that ends.  The proxy's budget is not        *)
(* renewed and Go's select is not partial, so that devices which are bound *)
(* and lost over and over do not keep it for ever.  Clients owe nothing.   *)
FairSpec ==
    /\ Spec
    /\ WF_vars(Agent) /\ WF_vars(Consumer)
    /\ SF_vars(InvokeEnds \/ WaitTimesOut)
    /\ \A n \in Asks : WF_vars(Expire(n))

--------------------------------------------------------------------------
AgentPCs == {"closed", "model", "finish", "exit", "call", "gate", "ask", "await", "execute",
             "lookup", "invoke", "suspended", "result"}

ConsumerPCs == {"idle", "reading", "left", "deciding", "waiting", "giveup", "back", "handing"}

AgentStates ==
    [pc : AgentPCs, iter : 0..MaxIterations, todo : Seq(Calls), call : Calls \cup {Nothing},
     id : 0..MaxAsks, failed : BOOLEAN, waiting : BOOLEAN, on : Conns \cup {Nothing}]

ConsumerStates ==
    [pc : ConsumerPCs, id : 0..MaxAsks, inbox : Answers \cup {Nothing},
     answer : Answers \cup {Nothing}]

RunStates ==
    [n : 0..MaxTurns, state : {"idle", "running", "waiting_input", "waiting_capability",
                               "completed", "failed", "cancelled"}]

ApprovalsTyped ==
    /\ DOMAIN pending \subseteq Asks /\ pending \in [DOMAIN pending -> {"open", "resolved"}]
    /\ clock \in [Asks -> {"unborn", "live", "expired"}]
    /\ answered \in [Asks -> Answers \cup {Nothing}]

RegistryTyped ==
    /\ bindings \subseteq Conns /\ queued \subseteq Conns
    /\ waiter \in {Nothing, "empty", "token"} /\ fresh \in BOOLEAN

GhostsTyped ==
    /\ verdict \in [Asks -> [answer : Answers, cut : BOOLEAN] \cup {Nothing}]
    /\ ran \subseteq [call : Calls, id : 0..MaxAsks]

(* Everything keeps its shape.                                             *)
TypeOK ==
    /\ mode \in Modes /\ cancelled \in BOOLEAN
    /\ run \in RunStates /\ agent \in AgentStates /\ consumer \in ConsumerStates
    /\ sending \in Tokens \cup {Nothing}
    /\ decisions \in Seq([id : Asks, answer : Answers]) /\ Len(decisions) <= 1
    /\ ApprovalsTyped /\ RegistryTyped /\ GhostsTyped

Risk(call) == IF call.gate = "bash" THEN effective(call) ELSE call.level

(* A call that must be confirmed in the normal mode.                       *)
NeedsAnswer(call) ==
    \/ call.gate \in {"bash", "policy"} /\ (Risk(call) > RiskLow \/ call.force)
    \/ call.gate = "sys" /\ call.declared # "never"
    \/ call.gate = "mcp"

Approvals == {"approve", "always", "edit"}

(* What an "always" given for call s covers: commands whose first segment  *)
(* begins with the words of s, of no higher risk and, if s had effects, of *)
(* no other effect; or calls of the same key and no higher risk.           *)
Covers(s, call) ==
    /\ s.gate = call.gate /\ Risk(call) <= Risk(s)
    /\ IF call.gate = "bash"
       THEN tokensMatch(call.tokens, s.tokens) /\ (s.effects = {} \/ call.effects \subseteq s.effects)
       ELSE s.key = call.key

(* No tool runs unasked: what ran for a request ran because that very      *)
(* request was answered with an approval, and what ran without a request   *)
(* although the normal mode asks for one was covered by an earlier         *)
(* "always", never a tool that must always be asked for; a forbidden       *)
(* command does not run even when the user types it in as an edit.  How    *)
(* wide an "always" is, the code decides: `touch a` lets `touch a b` and   *)
(* `touch a; touch c` run unasked, but nothing riskier and, as the first   *)
(* has an effect, nothing with another one.  (hitl.go confirm, policy.go   *)
(* matchAllowRule, channel_decision_provider GetDecision, approval.go      *)
(* Wait: an answer that comes late stays in the channel of decisions and   *)
(* must not count for the next request.)                                   *)
NothingRunsUnasked ==
    \A r \in ran :
        /\ r.call.hard => mode = "off"
        /\ \/ r.id # 0 /\ answered[r.id] \in Approvals
           \/ r.id = 0 /\ (mode = "normal" /\ NeedsAnswer(r.call) =>
                             /\ ~r.call.force
                             /\ \E s \in ran : /\ s.id # 0 /\ answered[s.id] = "always"
                                               /\ Covers(s.call, r.call))

(* The accepted answer is the verdict: unless the turn was cancelled or    *)
(* the deadline had passed, what the gate acts on is what Resolve accepted *)
(* for this request: the first answer, neither a leftover nor a default.   *)
AnswerIsHonoured ==
    \A n \in Asks :
        verdict[n] # Nothing /\ ~verdict[n].cut => verdict[n].answer = answered[n]

(* What RunHandle.State() shows is what the two goroutines do: the turn is *)
(* waiting for input exactly while the consumer waits for an answer, and   *)
(* for a capability exactly while the proxy waits for a device.            *)
WaitingIsHonest ==
    ~cancelled /\ consumer.pc # "idle" =>
        /\ run.state = "waiting_input" <=> consumer.pc \in {"waiting", "giveup", "back"}
        /\ run.state = "waiting_capability" <=> agent.waiting

(* No Bind is missed: a proxy that sleeps although a device was bound      *)
(* after its last lookup has a notification waiting (capability.go         *)
(* waitChan registers before the lookup).                                  *)
NoLostWakeup ==
    agent.pc = "suspended" /\ fresh => waiter = "token"

(* A cancelled turn ends, whatever its goroutines wait for: each other, a  *)
(* client, a device or a deadline.                                         *)
CancelledTurnEnds == cancelled ~> consumer.pc = "idle"
=============================================================================
