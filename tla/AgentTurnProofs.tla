-------------------------- MODULE AgentTurnProofs --------------------------
(***************************************************************************)
(* Proofs about AgentTurn, for any tool calls, modes, answers, connections *)
(* and number of turns, model calls and requests.                          *)
(***************************************************************************)
EXTENDS AgentTurn, TLAPS

Asking == {"ask", "await"}
Busy == {"deciding", "waiting", "giveup", "back", "handing"}

(* What the program points of the two goroutines say about their locals:   *)
(* only this makes the types inductive.                                    *)
Shape ==
    /\ agent.pc \notin {"closed", "model", "finish", "exit"} => agent.iter < MaxIterations
    /\ agent.pc = "call" => agent.todo # <<>>
    /\ agent.pc \in {"gate", "ask", "await", "execute", "lookup", "invoke", "suspended", "result"}
         => agent.call \in Calls
    /\ agent.pc \in Asking => agent.id \in Asks
    /\ agent.waiting => agent.pc \in {"lookup", "suspended"}
    /\ sending # Nothing /\ sending.kind = "interrupt"
         => agent.pc = "ask" /\ sending.id = agent.id /\ ~sending.done
    /\ sending # Nothing /\ agent.pc \in Asking => sending.kind = "interrupt"
    /\ consumer.pc \in Busy => consumer.id \in Asks
    /\ consumer.pc \in {"giveup", "back", "handing"} => consumer.answer \in Answers
    /\ consumer.pc = "idle" => agent.pc = "closed" /\ sending = Nothing

TypeInv == TypeOK /\ Shape

Interrupting == sending # Nothing /\ sending.kind = "interrupt"

(* A request is at one place at a time: unborn, in the token channel, with *)
(* the consumer, or behind it in the channel of decisions.  Its number is  *)
(* never used twice, so a leftover cannot pass for the answer of another.  *)
RequestsAreApart ==
    /\ \A n \in Asks : clock[n] = "unborn" => n \notin DOMAIN pending /\ answered[n] = Nothing
    /\ agent.pc \in Asking => clock[agent.id] # "unborn"
    /\ consumer.pc \in Busy => clock[consumer.id] # "unborn"
    /\ decisions # <<>> => clock[decisions[1].id] # "unborn"
    /\ Interrupting =>
         /\ sending.id \notin DOMAIN pending /\ answered[sending.id] = Nothing
         /\ consumer.pc \in Busy => consumer.id # sending.id
         /\ decisions # <<>> => decisions[1].id # sending.id
    /\ consumer.pc = "deciding" => consumer.id \notin DOMAIN pending /\ answered[consumer.id] = Nothing
    /\ consumer.pc \in Busy /\ decisions # <<>> => decisions[1].id # consumer.id

(* An open request is the one the consumer waits for, and unanswered.      *)
OpenIsAwaited ==
    \A n \in DOMAIN pending : pending[n] = "open" =>
        consumer.pc \in {"waiting", "giveup"} /\ consumer.id = n /\ answered[n] = Nothing

(* The default answer is only there after the end of the turn or deadline. *)
Defaulted(n, a) == a = "reject" /\ (cancelled \/ clock[n] = "expired")

(* On its way from Resolve to the gate an answer stays what it was.        *)
AnswersTravel ==
    /\ consumer.inbox # Nothing => consumer.pc \in Busy /\ consumer.inbox = answered[consumer.id]
    /\ consumer.pc = "giveup" => Defaulted(consumer.id, consumer.answer)
    /\ consumer.pc \in {"back", "handing"} =>
         \/ Defaulted(consumer.id, consumer.answer)
         \/ consumer.answer = answered[consumer.id]
    /\ consumer.pc # "idle" /\ decisions # <<>> =>
         \/ Defaulted(decisions[1].id, decisions[1].answer)
         \/ decisions[1].answer = answered[decisions[1].id]

AnswerInv == RequestsAreApart /\ OpenIsAwaited /\ AnswersTravel /\ AnswerIsHonoured

(* While the consumer is away with a request, the agent stands at that     *)
(* request, or is on its way to its next token and blocked there.          *)
AgentStandsStill ==
    ~cancelled /\ consumer.pc \in Busy =>
        \/ agent.pc \in Asking /\ agent.id = consumer.id /\ sending = Nothing
        \/ agent.pc = "result" /\ sending = Nothing
        \/ agent.pc \in {"model", "call"} /\ sending # Nothing

(* A decision for the agent's request has been handed over by a consumer   *)
(* that is back at the tokens.                                             *)
DecisionIsHandedOver ==
    agent.pc \in Asking /\ decisions # <<>> /\ decisions[1].id = agent.id =>
        sending = Nothing /\ consumer.pc = "reading"

WaitInv == AgentStandsStill /\ DecisionIsHandedOver /\ WaitingIsHonest

(* A Bind after a lookup leaves a token for the sleep that may follow.     *)
WakeupInv ==
    agent.pc \in {"invoke", "suspended"} /\ fresh => waiter = "token"

(* Every rule was given with an "always" for a call that ran for it.       *)
RulesAreGiven ==
    \A q \in rules : \E s \in ran :
        /\ s.id # 0 /\ answered[s.id] = "always"
        /\ CanRemember(s.call) /\ q = ruleFor(s.call)

(* A forbidden command is not asked about.                                 *)
ForbiddenIsNotAsked == agent.pc \in Asking => (agent.call.hard => mode = "off")

GateInv == RulesAreGiven /\ ForbiddenIsNotAsked /\ NothingRunsUnasked

(* A decision that is there is a whole one.                                *)
LEMMA OneDecision ==
    ASSUME TypeOK, decisions # <<>>
    PROVE  /\ decisions[1] \in [id : Asks, answer : Answers]
           /\ Head(decisions) = decisions[1]
<1>1. decisions \in Seq([id : Asks, answer : Answers]) /\ decisions # <<>>
  BY DEF TypeOK
<1>2. \A S : \A q \in Seq(S) : q # <<>> => q[1] \in S /\ Head(q) = q[1]
  OBVIOUS
<1> QED BY <1>1, <1>2

(* What confirm does with a decision: the call, edited or not, runs or its *)
(* result is next.                                                         *)
LEMMA DecideOutcome ==
    ASSUME TypeInv, agent.pc \in Asking, NEW a, Decide(a)
    PROVE  /\ agent.id \in Asks /\ agent.call \in Calls
           /\ \E c \in Calls :
                \/ /\ agent' = [agent EXCEPT !.pc = "execute", !.call = c]
                   /\ ran' = ran \cup {[call |-> c, id |-> agent.id]}
                \/ /\ agent' = [agent EXCEPT !.pc = "result", !.call = c]
                   /\ ran' = ran
<1>1. agent.id \in Asks /\ agent.call \in Calls
  BY DEF TypeInv, Shape, Asking
<1>2. edited(a) \subseteq Calls
  BY <1>1 DEF edited
<1>3. ASSUME agent' = [agent EXCEPT !.pc = "result"]
      PROVE  agent' = [agent EXCEPT !.pc = "result", !.call = agent.call]
  BY <1>3
<1> QED BY <1>1, <1>2, <1>3 DEF Decide

(* The decision on an answer keeps the types.                              *)
LEMMA DecideTyped ==
    ASSUME TypeInv, agent.pc \in Asking, sending = Nothing, NEW a \in Answers, Decide(a),
           decisions' \in {decisions, <<>>}
    PROVE  TypeInv'
<1> USE TurnBounds DEF turn, registry, approvals
<1>1. agent.id \in Asks /\ agent.id \in 0..MaxAsks
  <2>1. agent.id \in Asks
    BY DecideOutcome
  <2> QED BY <2>1 DEF Asks
<1>2. PICK c \in Calls :
        \/ /\ agent' = [agent EXCEPT !.pc = "execute", !.call = c]
           /\ ran' = ran \cup {[call |-> c, id |-> agent.id]}
        \/ /\ agent' = [agent EXCEPT !.pc = "result", !.call = c]
           /\ ran' = ran
  BY DecideOutcome
<1>3. agent' \in AgentStates
  <2>1. CASE agent' = [agent EXCEPT !.pc = "execute", !.call = c]
    BY <2>1 DEF TypeInv, TypeOK, AgentStates, AgentPCs
  <2>2. CASE agent' = [agent EXCEPT !.pc = "result", !.call = c]
    BY <2>2 DEF TypeInv, TypeOK, AgentStates, AgentPCs
  <2> QED BY <1>2, <2>1, <2>2
<1>4. GhostsTyped'
  <2>1. verdict' = [verdict EXCEPT ![agent.id] =
                       [answer |-> a, cut |-> cancelled \/ clock[agent.id] # "live"]]
    BY DEF Decide
  <2>2. verdict' \in [Asks -> [answer : Answers, cut : BOOLEAN] \cup {Nothing}]
    BY <1>1, <2>1 DEF TypeInv, TypeOK, GhostsTyped
  <2>3. ran' \subseteq [call : Calls, id : 0..MaxAsks]
    BY <1>1, <1>2 DEF TypeInv, TypeOK, GhostsTyped
  <2> QED BY <2>2, <2>3 DEF GhostsTyped
<1>5. UNCHANGED <<turn, sending, consumer, approvals, registry>>
  BY DEF Decide
<1>6. decisions' \in Seq([id : Asks, answer : Answers]) /\ Len(decisions') <= 1
  <2>1. CASE decisions' = decisions
    BY <2>1 DEF TypeInv, TypeOK
  <2>2. CASE decisions' = <<>>
    BY <2>2
  <2> QED BY <2>1, <2>2
<1>7. TypeOK'
  BY <1>3, <1>4, <1>5, <1>6 DEF TypeInv, TypeOK, ApprovalsTyped, RegistryTyped
<1>8. Shape'
  <2>1. /\ agent'.pc \in {"execute", "result"} /\ agent'.call = c
        /\ agent'.iter = agent.iter /\ agent'.waiting = agent.waiting
    BY <1>2 DEF TypeInv, TypeOK, AgentStates
  <2> QED BY <2>1, <1>5 DEF TypeInv, Shape, Asking
<1> QED BY <1>7, <1>8 DEF TypeInv

(* Every step keeps the types.                                            *)
LEMMA TypeStep == TypeInv /\ [Next]_vars => TypeInv'
<1> SUFFICES ASSUME TypeInv, [Next]_vars PROVE TypeInv'
  OBVIOUS
<1> USE TurnBounds DEF turn, registry, approvals, ghosts
<1>1. CASE ModelFails
  <2>1. agent' \in AgentStates
    BY <1>1 DEF ModelFails, TypeInv, TypeOK, AgentStates, AgentPCs
  <2>2. sending' \in Tokens \cup {Nothing}
    BY <1>1 DEF ModelFails, Token, Tokens
  <2>3. TypeOK'
    BY <1>1, <2>1, <2>2
    DEF ModelFails, AgentOnly, TypeInv, TypeOK, ApprovalsTyped, RegistryTyped, GhostsTyped
  <2>4. Shape'
    BY <1>1 DEF ModelFails, At, AgentOnly, Token, TypeInv, Shape, Asking
  <2> QED BY <2>3, <2>4 DEF TypeInv
<1>2. CASE ModelAnswers
  <2>1. agent' \in AgentStates
    BY <1>2 DEF ModelAnswers, TypeInv, TypeOK, AgentStates, AgentPCs
  <2>2. sending' \in Tokens \cup {Nothing}
    BY <1>2 DEF ModelAnswers, Token, Tokens
  <2>3. TypeOK'
    BY <1>2, <2>1, <2>2
    DEF ModelAnswers, AgentOnly, TypeInv, TypeOK, ApprovalsTyped, RegistryTyped, GhostsTyped
  <2>4. Shape'
    BY <1>2 DEF ModelAnswers, At, AgentOnly, Token, TypeInv, Shape, Asking
  <2> QED BY <2>3, <2>4 DEF TypeInv
<1>3. CASE ModelCalls
  <2>1. PICK todo \in {<<c>> : c \in Calls} \cup (Calls \X Calls) :
          agent' = [agent EXCEPT !.pc = "call", !.todo = todo]
    BY <1>3 DEF ModelCalls
  <2>2. todo \in Seq(Calls) /\ todo # <<>>
    <3>1. CASE todo \in {<<c>> : c \in Calls}
      <4>1. PICK c \in Calls : todo = <<c>>
        BY <3>1
      <4> QED BY <4>1
    <3>2. CASE todo \in Calls \X Calls
      <4>1. PICK c \in Calls, d \in Calls : todo = <<c, d>>
        BY <3>2
      <4> QED BY <4>1
    <3> QED BY <3>1, <3>2
  <2>3. agent' \in AgentStates
    BY <2>1, <2>2 DEF TypeInv, TypeOK, AgentStates, AgentPCs
  <2>4. TypeOK'
    BY <1>3, <2>3
    DEF ModelCalls, AgentOnly, TypeInv, TypeOK, ApprovalsTyped, RegistryTyped, GhostsTyped
  <2>5. Shape'
    BY <1>3, <2>1, <2>2 DEF ModelCalls, At, AgentOnly, TypeInv, TypeOK, Shape, Asking, AgentStates
  <2> QED BY <2>4, <2>5 DEF TypeInv
<1>4. CASE Exhausted
  <2>1. agent' \in AgentStates
    BY <1>4 DEF Exhausted, TypeInv, TypeOK, AgentStates, AgentPCs
  <2>2. sending' \in Tokens \cup {Nothing}
    BY <1>4 DEF Exhausted, Token, Tokens
  <2>3. TypeOK'
    BY <1>4, <2>1, <2>2
    DEF Exhausted, AgentOnly, TypeInv, TypeOK, ApprovalsTyped, RegistryTyped, GhostsTyped
  <2>4. Shape'
    BY <1>4 DEF Exhausted, At, AgentOnly, Token, TypeInv, Shape, Asking
  <2> QED BY <2>3, <2>4 DEF TypeInv
<1>5. CASE Finish
  <2>1. agent' \in AgentStates
    BY <1>5 DEF Finish, TypeInv, TypeOK, AgentStates, AgentPCs
  <2>2. sending' \in Tokens \cup {Nothing}
    BY <1>5 DEF Finish, Token, Tokens
  <2>3. TypeOK'
    BY <1>5, <2>1, <2>2
    DEF Finish, AgentOnly, TypeInv, TypeOK, ApprovalsTyped, RegistryTyped, GhostsTyped
  <2>4. Shape'
    BY <1>5 DEF Finish, At, AgentOnly, Token, TypeInv, Shape, Asking
  <2> QED BY <2>3, <2>4 DEF TypeInv
<1>6. CASE Close
  <2>1. agent' \in AgentStates
    BY <1>6 DEF Close, TypeInv, TypeOK, AgentStates, AgentPCs
  <2>2. TypeOK'
    BY <1>6, <2>1
    DEF Close, AgentOnly, TypeInv, TypeOK, ApprovalsTyped, RegistryTyped, GhostsTyped
  <2>3. Shape'
    BY <1>6 DEF Close, At, AgentOnly, TypeInv, Shape, Asking
  <2> QED BY <2>2, <2>3 DEF TypeInv
<1>7. CASE AnnounceCall
  <2>1. agent.todo \in Seq(Calls) /\ agent.todo # <<>>
    BY <1>7 DEF AnnounceCall, At, TypeInv, TypeOK, Shape, AgentStates
  <2>2. Head(agent.todo) \in Calls /\ Tail(agent.todo) \in Seq(Calls)
    BY <2>1
  <2>3. agent' \in AgentStates
    BY <1>7, <2>2 DEF AnnounceCall, TypeInv, TypeOK, AgentStates, AgentPCs
  <2>4. sending' \in Tokens \cup {Nothing}
    BY <1>7 DEF AnnounceCall, Token, Tokens
  <2>5. TypeOK'
    BY <1>7, <2>3, <2>4
    DEF AnnounceCall, AgentOnly, TypeInv, TypeOK, ApprovalsTyped, RegistryTyped, GhostsTyped
  <2>6. Shape'
    BY <1>7, <2>2 DEF AnnounceCall, At, AgentOnly, Token, TypeInv, Shape, Asking
  <2> QED BY <2>5, <2>6 DEF TypeInv
<1>8. CASE Result
  <2>1. agent.iter \in 0..MaxIterations /\ agent.iter < MaxIterations
    BY <1>8 DEF Result, At, TypeInv, TypeOK, Shape, AgentStates
  <2>2. agent.iter + 1 \in 0..MaxIterations /\ 0 \in 0..MaxAsks
    BY <2>1
  <2>3. agent' \in AgentStates
    <3>1. CASE agent.todo = <<>>
      <4>1. agent' = [agent EXCEPT !.pc = "model", !.iter = agent.iter + 1, !.call = Nothing, !.id = 0]
        BY <1>8, <3>1 DEF Result
      <4> QED BY <2>2, <4>1 DEF TypeInv, TypeOK, AgentStates, AgentPCs
    <3>2. CASE agent.todo # <<>>
      <4>1. agent' = [agent EXCEPT !.pc = "call", !.iter = agent.iter, !.call = Nothing, !.id = 0]
        BY <1>8, <3>2 DEF Result
      <4> QED BY <2>2, <4>1 DEF TypeInv, TypeOK, AgentStates, AgentPCs
    <3> QED BY <3>1, <3>2
  <2>4. sending' \in Tokens \cup {Nothing}
    BY <1>8 DEF Result, Token, Tokens
  <2>5. TypeOK'
    BY <1>8, <2>3, <2>4
    DEF Result, AgentOnly, TypeInv, TypeOK, ApprovalsTyped, RegistryTyped, GhostsTyped
  <2>6. Shape'
    BY <1>8 DEF Result, At, AgentOnly, Token, TypeInv, Shape, Asking
  <2> QED BY <2>5, <2>6 DEF TypeInv
<1>9. CASE GatePasses
  <2>1. agent' \in AgentStates
    BY <1>9 DEF GatePasses, TypeInv, TypeOK, AgentStates, AgentPCs
  <2>2. GhostsTyped'
    BY <1>9 DEF GatePasses, At, TypeInv, TypeOK, GhostsTyped, Shape
  <2>3. TypeOK'
    BY <1>9, <2>1, <2>2 DEF GatePasses, TypeInv, TypeOK, ApprovalsTyped, RegistryTyped
  <2>4. Shape'
    BY <1>9 DEF GatePasses, At, TypeInv, Shape, Asking
  <2> QED BY <2>3, <2>4 DEF TypeInv
<1>10. CASE GateDenies
  <2>1. agent' \in AgentStates
    BY <1>10 DEF GateDenies, TypeInv, TypeOK, AgentStates, AgentPCs
  <2>2. TypeOK'
    BY <1>10, <2>1
    DEF GateDenies, AgentOnly, TypeInv, TypeOK, ApprovalsTyped, RegistryTyped, GhostsTyped
  <2>3. Shape'
    BY <1>10 DEF GateDenies, At, AgentOnly, TypeInv, Shape, Asking
  <2> QED BY <2>2, <2>3 DEF TypeInv
<1>11. CASE GateAsks
  <2>1. PICK n \in Asks : /\ clock' = [clock EXCEPT ![n] = "live"]
                         /\ agent' = [agent EXCEPT !.pc = "ask", !.id = n]
                         /\ sending' = Interrupt(n)
    BY <1>11 DEF GateAsks
  <2>2. n \in 0..MaxAsks
    BY DEF Asks
  <2>3. agent' \in AgentStates
    BY <2>1, <2>2 DEF TypeInv, TypeOK, AgentStates, AgentPCs
  <2>4. sending' \in Tokens
    BY <2>1, <2>2 DEF Interrupt, Tokens
  <2>5. ApprovalsTyped'
    BY <1>11, <2>1 DEF GateAsks, TypeInv, TypeOK, ApprovalsTyped
  <2>6. TypeOK'
    BY <1>11, <2>3, <2>4, <2>5 DEF GateAsks, TypeInv, TypeOK, RegistryTyped, GhostsTyped
  <2>7. Shape'
    BY <1>11, <2>1 DEF GateAsks, At, Interrupt, TypeInv, Shape
  <2> QED BY <2>6, <2>7 DEF TypeInv
<1>12. CASE GetDecision
  <2>1. agent' \in AgentStates
    BY <1>12 DEF GetDecision, TypeInv, TypeOK, AgentStates, AgentPCs
  <2>2. TypeOK'
    BY <1>12, <2>1
    DEF GetDecision, AgentOnly, TypeInv, TypeOK, ApprovalsTyped, RegistryTyped, GhostsTyped
  <2>3. Shape'
    BY <1>12 DEF GetDecision, At, AgentOnly, TypeInv, Shape, Asking
  <2> QED BY <2>2, <2>3 DEF TypeInv
<1>13. CASE DecisionDefaults
  <2>1. \E a \in Answers : Decide(a)
    BY <1>13 DEF DecisionDefaults, Answers
  <2>2. agent.pc \in Asking /\ sending = Nothing /\ decisions' = decisions
    BY <1>13 DEF DecisionDefaults, At, Asking
  <2> QED BY <2>1, <2>2, DecideTyped
<1>14. CASE DropStale
  <2>1. decisions' \in Seq([id : Asks, answer : Answers]) /\ Len(decisions') <= 1
    BY <1>14 DEF DropStale
  <2>2. TypeOK'
    BY <1>14, <2>1 DEF DropStale, TypeInv, TypeOK, ApprovalsTyped, RegistryTyped, GhostsTyped
  <2>3. Shape'
    BY <1>14 DEF DropStale, TypeInv, Shape
  <2> QED BY <2>2, <2>3 DEF TypeInv
<1>15. CASE TakeDecision
  <2>1. \E a \in Answers : Decide(a)
    BY <1>15, OneDecision DEF TakeDecision, TypeInv
  <2>2. agent.pc \in Asking /\ sending = Nothing /\ decisions' = <<>>
    BY <1>15 DEF TakeDecision, At, Asking
  <2> QED BY <2>1, <2>2, DecideTyped
<1>16. CASE Execute
  <2>1. agent' \in AgentStates
    BY <1>16 DEF Execute, TypeInv, TypeOK, AgentStates, AgentPCs
  <2>2. TypeOK'
    BY <1>16, <2>1
    DEF Execute, AgentOnly, TypeInv, TypeOK, ApprovalsTyped, RegistryTyped, GhostsTyped
  <2>3. Shape'
    BY <1>16 DEF Execute, At, AgentOnly, TypeInv, Shape, Asking
  <2> QED BY <2>2, <2>3 DEF TypeInv
<1>17. CASE waitChan
  <2>1. agent' \in AgentStates
    BY <1>17 DEF waitChan, TypeInv, TypeOK, AgentStates, AgentPCs
  <2>2. RegistryTyped'
    BY <1>17 DEF waitChan, TypeInv, TypeOK, RegistryTyped
  <2>3. TypeOK'
    BY <1>17, <2>1, <2>2 DEF waitChan, TypeInv, TypeOK, ApprovalsTyped, GhostsTyped
  <2>4. Shape'
    BY <1>17 DEF waitChan, At, TypeInv, Shape, Asking
  <2> QED BY <2>3, <2>4 DEF TypeInv
<1>18. CASE LookupFinds
  <2>1. PICK c \in bindings : agent' = [agent EXCEPT !.pc = "invoke", !.on = c, !.waiting = FALSE]
    BY <1>18 DEF LookupFinds
  <2>2. agent' \in AgentStates
    BY <2>1 DEF TypeInv, TypeOK, RegistryTyped, AgentStates, AgentPCs
  <2>3. run' \in RunStates
    BY <1>18 DEF LookupFinds, onWait, TypeInv, TypeOK, RunStates
  <2>4. TypeOK'
    BY <1>18, <2>2, <2>3
    DEF LookupFinds, TypeInv, TypeOK, ApprovalsTyped, RegistryTyped, GhostsTyped
  <2>5. Shape'
    BY <1>18, <2>1 DEF LookupFinds, At, TypeInv, Shape, Asking
  <2> QED BY <2>4, <2>5 DEF TypeInv
<1>19. CASE LookupFails
  <2>1. agent' \in AgentStates
    BY <1>19 DEF LookupFails, Suspend, TypeInv, TypeOK, AgentStates, AgentPCs
  <2>2. run' \in RunStates
    BY <1>19 DEF LookupFails, onWait, TypeInv, TypeOK, RunStates
  <2>3. RegistryTyped'
    BY <1>19 DEF LookupFails, TypeInv, TypeOK, RegistryTyped
  <2>4. TypeOK'
    BY <1>19, <2>1, <2>2, <2>3 DEF LookupFails, TypeInv, TypeOK, ApprovalsTyped, GhostsTyped
  <2>5. Shape'
    BY <1>19 DEF LookupFails, At, Suspend, TypeInv, Shape, Asking
  <2> QED BY <2>4, <2>5 DEF TypeInv
<1>20. CASE InvokeEnds
  <2>1. agent' \in AgentStates
    BY <1>20 DEF InvokeEnds, LeaveProxy, TypeInv, TypeOK, AgentStates, AgentPCs
  <2>2. run' \in RunStates
    BY <1>20 DEF InvokeEnds, LeaveProxy, onWait, TypeInv, TypeOK, RunStates
  <2>3. RegistryTyped'
    BY <1>20 DEF InvokeEnds, LeaveProxy, TypeInv, TypeOK, RegistryTyped
  <2>4. TypeOK'
    BY <1>20, <2>1, <2>2, <2>3 DEF InvokeEnds, TypeInv, TypeOK, ApprovalsTyped, GhostsTyped
  <2>5. Shape'
    BY <1>20 DEF InvokeEnds, At, LeaveProxy, TypeInv, Shape, Asking
  <2> QED BY <2>4, <2>5 DEF TypeInv
<1>21. CASE Invalidate
  <2>1. agent' \in AgentStates
    BY <1>21 DEF Invalidate, Suspend, TypeInv, TypeOK, AgentStates, AgentPCs
  <2>2. run' \in RunStates
    BY <1>21 DEF Invalidate, onWait, TypeInv, TypeOK, RunStates
  <2>3. RegistryTyped'
    BY <1>21 DEF Invalidate, TypeInv, TypeOK, RegistryTyped
  <2>4. TypeOK'
    BY <1>21, <2>1, <2>2, <2>3 DEF Invalidate, TypeInv, TypeOK, ApprovalsTyped, GhostsTyped
  <2>5. Shape'
    BY <1>21 DEF Invalidate, At, Suspend, TypeInv, Shape, Asking
  <2> QED BY <2>4, <2>5 DEF TypeInv
<1>22. CASE Woken
  <2>1. agent' \in AgentStates
    BY <1>22 DEF Woken, TypeInv, TypeOK, AgentStates, AgentPCs
  <2>2. RegistryTyped'
    BY <1>22 DEF Woken, TypeInv, TypeOK, RegistryTyped
  <2>3. TypeOK'
    BY <1>22, <2>1, <2>2 DEF Woken, TypeInv, TypeOK, ApprovalsTyped, GhostsTyped
  <2>4. Shape'
    BY <1>22 DEF Woken, At, TypeInv, Shape, Asking
  <2> QED BY <2>3, <2>4 DEF TypeInv
<1>23. CASE WaitTimesOut
  <2>1. agent' \in AgentStates
    BY <1>23 DEF WaitTimesOut, LeaveProxy, TypeInv, TypeOK, AgentStates, AgentPCs
  <2>2. run' \in RunStates
    BY <1>23 DEF WaitTimesOut, LeaveProxy, onWait, TypeInv, TypeOK, RunStates
  <2>3. RegistryTyped'
    BY <1>23 DEF WaitTimesOut, LeaveProxy, TypeInv, TypeOK, RegistryTyped
  <2>4. TypeOK'
    BY <1>23, <2>1, <2>2, <2>3 DEF WaitTimesOut, TypeInv, TypeOK, ApprovalsTyped, GhostsTyped
  <2>5. Shape'
    BY <1>23 DEF WaitTimesOut, At, LeaveProxy, TypeInv, Shape, Asking
  <2> QED BY <2>4, <2>5 DEF TypeInv
<1>24. CASE SendGivesUp
  <2>1. sending' \in Tokens \cup {Nothing}
    BY <1>24 DEF SendGivesUp
  <2>2. TypeOK'
    BY <1>24, <2>1 DEF SendGivesUp, TypeInv, TypeOK, ApprovalsTyped, RegistryTyped, GhostsTyped
  <2>3. Shape'
    BY <1>24 DEF SendGivesUp, TypeInv, Shape
  <2> QED BY <2>2, <2>3 DEF TypeInv
<1>25. CASE Receive
  <2>1. consumer' \in ConsumerStates
    BY <1>25 DEF Receive, TypeInv, TypeOK, ConsumerStates, ConsumerPCs, Tokens
  <2>2. sending' \in Tokens \cup {Nothing}
    BY <1>25 DEF Receive
  <2>3. TypeOK'
    BY <1>25, <2>1, <2>2
    DEF Receive, ConsumerOnly, TypeInv, TypeOK, ApprovalsTyped, RegistryTyped, GhostsTyped
  <2>4. Shape'
    BY <1>25 DEF Receive, ConsumerOnly, TypeInv, Shape, Asking, Busy
  <2> QED BY <2>3, <2>4 DEF TypeInv
<1>26. CASE ChannelClosed
  <2>1. consumer' \in ConsumerStates
    BY <1>26 DEF ChannelClosed, TypeInv, TypeOK, ConsumerStates, ConsumerPCs
  <2>2. TypeOK'
    BY <1>26, <2>1
    DEF ChannelClosed, ConsumerOnly, TypeInv, TypeOK, ApprovalsTyped, RegistryTyped, GhostsTyped
  <2>3. Shape'
    BY <1>26 DEF ChannelClosed, ConsumerOnly, TypeInv, Shape, Busy
  <2> QED BY <2>2, <2>3 DEF TypeInv
<1>27. CASE Wait
  <2>1. consumer' \in ConsumerStates
    BY <1>27 DEF Wait, TypeInv, TypeOK, ConsumerStates, ConsumerPCs, Answers
  <2>2. run' \in RunStates
    BY <1>27 DEF Wait, TypeInv, TypeOK, RunStates
  <2>3. ApprovalsTyped'
    BY <1>27 DEF Wait, TypeInv, TypeOK, ApprovalsTyped, Shape, Busy
  <2>4. TypeOK'
    BY <1>27, <2>1, <2>2, <2>3 DEF Wait, TypeInv, TypeOK, RegistryTyped, GhostsTyped
  <2>5. Shape'
    BY <1>27 DEF Wait, Answers, TypeInv, Shape, Busy
  <2> QED BY <2>4, <2>5 DEF TypeInv
<1>28. CASE WaitAnswered
  <2>1. consumer' \in ConsumerStates
    BY <1>28 DEF WaitAnswered, TypeInv, TypeOK, ConsumerStates, ConsumerPCs
  <2>2. TypeOK'
    BY <1>28, <2>1
    DEF WaitAnswered, ConsumerOnly, TypeInv, TypeOK, ApprovalsTyped, RegistryTyped, GhostsTyped
  <2>3. Shape'
    BY <1>28 DEF WaitAnswered, ConsumerOnly, TypeInv, TypeOK, Shape, Busy, ConsumerStates
  <2> QED BY <2>2, <2>3 DEF TypeInv
<1>29. CASE WaitEnds
  <2>1. consumer' \in ConsumerStates
    BY <1>29 DEF WaitEnds, TypeInv, TypeOK, ConsumerStates, ConsumerPCs, Answers
  <2>2. TypeOK'
    BY <1>29, <2>1
    DEF WaitEnds, ConsumerOnly, TypeInv, TypeOK, ApprovalsTyped, RegistryTyped, GhostsTyped
  <2>3. Shape'
    BY <1>29 DEF WaitEnds, ConsumerOnly, TypeInv, Shape, Answers, Busy
  <2> QED BY <2>2, <2>3 DEF TypeInv
<1>30. CASE markResolved
  <2>1. consumer' \in ConsumerStates
    BY <1>30 DEF markResolved, TypeInv, TypeOK, ConsumerStates, ConsumerPCs
  <2>2. ApprovalsTyped'
    BY <1>30 DEF markResolved, TypeInv, TypeOK, ApprovalsTyped
  <2>3. TypeOK'
    BY <1>30, <2>1, <2>2 DEF markResolved, TypeInv, TypeOK, RegistryTyped, GhostsTyped
  <2>4. Shape'
    BY <1>30 DEF markResolved, TypeInv, Shape, Busy
  <2> QED BY <2>3, <2>4 DEF TypeInv
<1>31. CASE DecideReturns
  <2>1. consumer' \in ConsumerStates
    BY <1>31 DEF DecideReturns, TypeInv, TypeOK, ConsumerStates, ConsumerPCs
  <2>2. run' \in RunStates
    BY <1>31 DEF DecideReturns, TypeInv, TypeOK, RunStates
  <2>3. TypeOK'
    BY <1>31, <2>1, <2>2
    DEF DecideReturns, TypeInv, TypeOK, ApprovalsTyped, RegistryTyped, GhostsTyped
  <2>4. Shape'
    BY <1>31 DEF DecideReturns, TypeInv, Shape, Busy
  <2> QED BY <2>3, <2>4 DEF TypeInv
<1>32. CASE HandOver
  <2>1. consumer' \in ConsumerStates
    BY <1>32 DEF HandOver, IdleConsumer, ConsumerStates, ConsumerPCs
  <2>2. Decision(consumer.id, consumer.answer) \in [id : Asks, answer : Answers]
    BY <1>32 DEF HandOver, Decision, TypeInv, Shape, Busy
  <2>3. decisions' \in Seq([id : Asks, answer : Answers]) /\ Len(decisions') <= 1
    <3>1. \A d \in [id : Asks, answer : Answers] :
            <<d>> \in Seq([id : Asks, answer : Answers]) /\ Len(<<d>>) = 1
      OBVIOUS
    <3>2. CASE decisions' = <<Decision(consumer.id, consumer.answer)>>
      BY <2>2, <3>1, <3>2
    <3>3. CASE decisions' = decisions
      BY <3>3 DEF TypeInv, TypeOK
    <3> QED BY <1>32, <3>2, <3>3 DEF HandOver
  <2>4. TypeOK'
    BY <1>32, <2>1, <2>3 DEF HandOver, TypeInv, TypeOK, ApprovalsTyped, RegistryTyped, GhostsTyped
  <2>5. Shape'
    BY <1>32 DEF HandOver, TypeInv, Shape, Busy
  <2> QED BY <2>4, <2>5 DEF TypeInv
<1>33. CASE TurnEnds
  <2>1. consumer' \in ConsumerStates
    BY <1>33 DEF TurnEnds, IdleConsumer, ConsumerStates, ConsumerPCs
  <2>2. run' \in RunStates
    BY <1>33 DEF TurnEnds, outcome, TypeInv, TypeOK, RunStates
  <2>3. TypeOK'
    BY <1>33, <2>1, <2>2 DEF TurnEnds, TypeInv, TypeOK, ApprovalsTyped, RegistryTyped, GhostsTyped
  <2>4. Shape'
    BY <1>33 DEF TurnEnds, At, IdleConsumer, TypeInv, Shape, Busy
  <2> QED BY <2>3, <2>4 DEF TypeInv
<1>34. ASSUME NEW n \in Asks, NEW a \in Offered, Resolve(n, a) PROVE TypeInv'
  <2>1. consumer' \in ConsumerStates
    BY <1>34 DEF Resolve, TypeInv, TypeOK, ConsumerStates
  <2>2. ApprovalsTyped'
    BY <1>34 DEF Resolve, Without, TypeInv, TypeOK, ApprovalsTyped
  <2>3. TypeOK'
    BY <1>34, <2>1, <2>2 DEF Resolve, TypeInv, TypeOK, RegistryTyped, GhostsTyped
  <2>4. Shape'
    BY <1>34 DEF Resolve, TypeInv, Shape
  <2> QED BY <2>3, <2>4 DEF TypeInv
<1>35. CASE ResolveRefused
  <2>1. ApprovalsTyped'
    BY <1>35 DEF ResolveRefused, Without, TypeInv, TypeOK, ApprovalsTyped
  <2>2. TypeOK'
    BY <1>35, <2>1 DEF ResolveRefused, TypeInv, TypeOK, RegistryTyped, GhostsTyped
  <2>3. Shape'
    BY <1>35 DEF ResolveRefused, TypeInv, Shape
  <2> QED BY <2>2, <2>3 DEF TypeInv
<1>36. CASE Pending
  <2>1. ApprovalsTyped'
    BY <1>36 DEF Pending, Without, TypeInv, TypeOK, ApprovalsTyped
  <2>2. TypeOK'
    BY <1>36, <2>1 DEF Pending, TypeInv, TypeOK, RegistryTyped, GhostsTyped
  <2>3. Shape'
    BY <1>36 DEF Pending, TypeInv, Shape
  <2> QED BY <2>2, <2>3 DEF TypeInv
<1>37. CASE Cancel
  <2>1. TypeOK'
    BY <1>37 DEF Cancel, TypeInv, TypeOK, ApprovalsTyped, RegistryTyped, GhostsTyped
  <2>2. Shape'
    BY <1>37 DEF Cancel, TypeInv, Shape
  <2> QED BY <2>1, <2>2 DEF TypeInv
<1>38. ASSUME NEW c \in Conns, Prompt(c) PROVE TypeInv'
  <2>1. RegistryTyped'
    BY <1>38 DEF Prompt, TypeInv, TypeOK, RegistryTyped
  <2>2. TypeOK'
    BY <1>38, <2>1 DEF Prompt, TypeInv, TypeOK, ApprovalsTyped, GhostsTyped
  <2>3. Shape'
    BY <1>38 DEF Prompt, TypeInv, Shape
  <2> QED BY <2>2, <2>3 DEF TypeInv
<1>39. ASSUME NEW c \in Conns, CollectTools(c) PROVE TypeInv'
  <2>1. RegistryTyped' /\ cancelled' \in BOOLEAN
    BY <1>39 DEF CollectTools, bound, TypeInv, TypeOK, RegistryTyped
  <2>2. UNCHANGED <<mode, sending, approvals, rules, ghosts>> /\ consumer.pc = "idle" /\ run.n < MaxTurns
    BY <1>39 DEF CollectTools, GateFree
  <2>3. run.n + 1 \in 0..MaxTurns
    BY <2>2 DEF TypeInv, TypeOK, RunStates
  <2>4. CASE StartAgent
    <3>1. agent' \in AgentStates
      <4>1. agent' = [pc |-> "model", iter |-> 0, todo |-> <<>>, call |-> Nothing, id |-> 0,
                      failed |-> FALSE, waiting |-> FALSE, on |-> Nothing]
        BY <2>4 DEF StartAgent, IdleAgent
      <4>2. <<>> \in Seq(Calls) /\ 0 \in 0..MaxIterations /\ 0 \in 0..MaxAsks
        OBVIOUS
      <4> QED BY <4>1, <4>2 DEF AgentStates, AgentPCs
    <3>2. consumer' \in ConsumerStates
      BY <2>4 DEF StartAgent, IdleConsumer, ConsumerStates, ConsumerPCs
    <3>3. run' \in RunStates
      BY <2>3, <2>4 DEF StartAgent, RunStates
    <3>4. TypeOK'
      BY <2>1, <2>2, <2>4, <3>1, <3>2, <3>3
      DEF StartAgent, TypeInv, TypeOK, ApprovalsTyped, GhostsTyped
    <3>5. Shape'
      BY <2>2, <2>4 DEF StartAgent, IdleAgent, TypeInv, Shape, Asking, Busy
    <3> QED BY <3>4, <3>5 DEF TypeInv
  <2>5. CASE NewProviderFails
    <3>1. run' \in RunStates
      BY <2>3, <2>5 DEF NewProviderFails, RunStates
    <3>2. TypeOK'
      BY <2>1, <2>2, <2>5, <3>1 DEF NewProviderFails, TypeInv, TypeOK, ApprovalsTyped, GhostsTyped
    <3>3. Shape'
      BY <2>2, <2>5 DEF NewProviderFails, TypeInv, Shape
    <3> QED BY <3>2, <3>3 DEF TypeInv
  <2> QED BY <1>39, <2>4, <2>5 DEF CollectTools
<1>40. ASSUME NEW c \in Conns, Rebind(c) PROVE TypeInv'
  <2>1. RegistryTyped'
    BY <1>40 DEF Rebind, bound, TypeInv, TypeOK, RegistryTyped
  <2>2. TypeOK'
    BY <1>40, <2>1 DEF Rebind, TypeInv, TypeOK, ApprovalsTyped, GhostsTyped
  <2>3. Shape'
    BY <1>40 DEF Rebind, TypeInv, Shape
  <2> QED BY <2>2, <2>3 DEF TypeInv
<1>41. ASSUME NEW c \in Conns, UnbindConnection(c) PROVE TypeInv'
  <2>1. RegistryTyped'
    BY <1>41 DEF UnbindConnection, TypeInv, TypeOK, RegistryTyped
  <2>2. TypeOK'
    BY <1>41, <2>1 DEF UnbindConnection, TypeInv, TypeOK, ApprovalsTyped, GhostsTyped
  <2>3. Shape'
    BY <1>41 DEF UnbindConnection, TypeInv, Shape
  <2> QED BY <2>2, <2>3 DEF TypeInv
<1>42. ASSUME NEW n \in Asks, Expire(n) PROVE TypeInv'
  <2>1. ApprovalsTyped'
    BY <1>42 DEF Expire, TypeInv, TypeOK, ApprovalsTyped
  <2>2. TypeOK'
    BY <1>42, <2>1 DEF Expire, TypeInv, TypeOK, RegistryTyped, GhostsTyped
  <2>3. Shape'
    BY <1>42 DEF Expire, TypeInv, Shape
  <2> QED BY <2>2, <2>3 DEF TypeInv
<1>43. CASE UNCHANGED vars
  <2>1. TypeOK'
    BY <1>43 DEF vars, TypeInv, TypeOK, ApprovalsTyped, RegistryTyped, GhostsTyped
  <2>2. Shape'
    BY <1>43 DEF vars, TypeInv, Shape
  <2> QED BY <2>1, <2>2 DEF TypeInv
<1> QED
  BY <1>1, <1>2, <1>3, <1>4, <1>5, <1>6, <1>7, <1>8, <1>9, <1>10, <1>11, <1>12, <1>13, <1>14,
     <1>15, <1>16, <1>17, <1>18, <1>19, <1>20, <1>21, <1>22, <1>23, <1>24, <1>25, <1>26, <1>27,
     <1>28, <1>29, <1>30, <1>31, <1>32, <1>33, <1>34, <1>35, <1>36, <1>37, <1>38, <1>39, <1>40,
     <1>41, <1>42, <1>43
  DEF Next, Agent, Consumer, Client, Time

(* The types hold at the start.                                            *)
LEMMA TypeInit == Init => TypeInv
<1> SUFFICES ASSUME Init PROVE TypeInv
  OBVIOUS
<1> USE TurnBounds DEF Init
<1>1. agent \in AgentStates
  BY DEF IdleAgent, AgentStates, AgentPCs
<1>2. consumer \in ConsumerStates
  BY DEF IdleConsumer, ConsumerStates, ConsumerPCs
<1>3. run \in RunStates
  BY DEF RunStates
<1>4. ApprovalsTyped /\ RegistryTyped /\ GhostsTyped
  BY DEF ApprovalsTyped, RegistryTyped, GhostsTyped
<1>5. decisions \in Seq([id : Asks, answer : Answers]) /\ Len(decisions) <= 1
  OBVIOUS
<1>6. Shape
  BY DEF Shape, Asking, Busy, IdleAgent, IdleConsumer
<1> QED BY <1>1, <1>2, <1>3, <1>4, <1>5, <1>6 DEF TypeInv, TypeOK

(* Both goroutines, the registries and the channels between them keep      *)
(* their types in every turn.                                              *)
THEOREM TypeCorrect == Spec => []TypeInv
  BY TypeInit, TypeStep, PTL DEF Spec

-----------------------------------------------------------------------------
(* Answers: from Resolve to the gate.                                      *)

(* Every step keeps requests apart and their answers as they were given.   *)
LEMMA AnswerStep == TypeInv /\ AnswerInv /\ [Next]_vars => AnswerInv'
<1> SUFFICES ASSUME TypeInv /\ AnswerInv, [Next]_vars PROVE AnswerInv'
  OBVIOUS
<1> USE TurnBounds DEF turn, registry, approvals, ghosts
<1>1. CASE ModelFails
  BY <1>1
  DEF ModelFails, AgentOnly, Token, Asking, AnswerInv, RequestsAreApart, OpenIsAwaited,
      Interrupting, AnswersTravel, Defaulted, AnswerIsHonoured
<1>2. CASE ModelAnswers
  BY <1>2
  DEF ModelAnswers, AgentOnly, Token, Asking, AnswerInv, RequestsAreApart, OpenIsAwaited,
      Interrupting, AnswersTravel, Defaulted, AnswerIsHonoured
<1>3. CASE ModelCalls
  BY <1>3
  DEF ModelCalls, AgentOnly, Asking, AnswerInv, RequestsAreApart, OpenIsAwaited, Interrupting,
      AnswersTravel, Defaulted, AnswerIsHonoured
<1>4. CASE Exhausted
  BY <1>4
  DEF Exhausted, AgentOnly, Token, Asking, AnswerInv, RequestsAreApart, OpenIsAwaited,
      Interrupting, AnswersTravel, Defaulted, AnswerIsHonoured
<1>5. CASE Finish
  BY <1>5
  DEF Finish, AgentOnly, Token, Asking, AnswerInv, RequestsAreApart, OpenIsAwaited, Interrupting,
      AnswersTravel, Defaulted, AnswerIsHonoured
<1>6. CASE Close
  BY <1>6
  DEF Close, AgentOnly, Asking, AnswerInv, RequestsAreApart, OpenIsAwaited, Interrupting,
      AnswersTravel, Defaulted, AnswerIsHonoured
<1>7. CASE AnnounceCall
  BY <1>7
  DEF AnnounceCall, AgentOnly, Token, Asking, AnswerInv, RequestsAreApart, OpenIsAwaited,
      Interrupting, AnswersTravel, Defaulted, AnswerIsHonoured
<1>8. CASE Result
  BY <1>8
  DEF Result, AgentOnly, Token, Asking, AnswerInv, RequestsAreApart, OpenIsAwaited, Interrupting,
      AnswersTravel, Defaulted, AnswerIsHonoured
<1>9. CASE GatePasses
  BY <1>9
  DEF GatePasses, Asking, AnswerInv, RequestsAreApart, OpenIsAwaited, Interrupting, AnswersTravel,
      Defaulted, AnswerIsHonoured
<1>10. CASE GateDenies
  BY <1>10
  DEF GateDenies, AgentOnly, Asking, AnswerInv, RequestsAreApart, OpenIsAwaited, Interrupting,
      AnswersTravel, Defaulted, AnswerIsHonoured
<1>11. CASE GateAsks
  BY <1>11
  DEF GateAsks, Interrupt, TypeInv, TypeOK, ApprovalsTyped, AnswerInv, RequestsAreApart,
      OpenIsAwaited, AnswersTravel, Defaulted, AnswerIsHonoured
<1>12. CASE GetDecision
  BY <1>12
  DEF GetDecision, AgentOnly, AnswerInv, RequestsAreApart, OpenIsAwaited, Interrupting,
      AnswersTravel, Defaulted, AnswerIsHonoured
<1>13. CASE DecisionDefaults
  <2>1. RequestsAreApart'
    BY <1>13
    DEF DecisionDefaults, Decide, TypeInv, TypeOK, Asking, AgentStates, AnswerInv,
        RequestsAreApart, Interrupting
  <2>2. OpenIsAwaited'
    BY <1>13 DEF DecisionDefaults, Decide, AnswerInv, OpenIsAwaited
  <2>3. AnswersTravel'
    BY <1>13 DEF DecisionDefaults, Decide, AnswerInv, AnswersTravel, Defaulted
  <2>4. AnswerIsHonoured'
    <3>1. \/ cancelled \/ clock[agent.id] # "live"
      BY <1>13 DEF DecisionDefaults
    <3>2. /\ agent.id \in Asks
          /\ verdict' = [verdict EXCEPT ![agent.id] =
                           [answer |-> "reject", cut |-> cancelled \/ clock[agent.id] # "live"]]
          /\ UNCHANGED answered
      BY <1>13 DEF DecisionDefaults, At, Decide, TypeInv, Shape, Asking
    <3> QED BY <3>1, <3>2 DEF TypeInv, TypeOK, GhostsTyped, AnswerInv, AnswerIsHonoured
  <2> QED BY <2>1, <2>2, <2>3, <2>4 DEF AnswerInv
<1>14. CASE DropStale
  BY <1>14
  DEF DropStale, AnswerInv, RequestsAreApart, OpenIsAwaited, Interrupting, AnswersTravel,
      Defaulted, AnswerIsHonoured
<1>15. CASE TakeDecision
  <2> DEFINE a == decisions[1].answer
  <2>1. /\ Decide(a) /\ a \in Answers /\ agent.pc = "await" /\ sending = Nothing
        /\ decisions # <<>> /\ decisions[1].id = agent.id /\ decisions' = <<>>
    BY <1>15, OneDecision DEF TakeDecision, At, TypeInv
  <2>2. /\ agent.id \in Asks
        /\ verdict' = [verdict EXCEPT ![agent.id] =
                         [answer |-> a, cut |-> cancelled \/ clock[agent.id] # "live"]]
        /\ UNCHANGED <<cancelled, sending, consumer, pending, clock, answered>>
    BY <2>1 DEF Decide, TypeInv, Shape, Asking
  <2>3. agent'.pc \notin Asking
    <3>1. agent.pc \in Asking
      BY <2>1 DEF Asking
    <3>2. PICK c \in Calls, pc \in {"execute", "result"} : agent' = [agent EXCEPT !.pc = pc, !.call = c]
      BY <2>1, <3>1, DecideOutcome
    <3> QED BY <3>2 DEF Asking
  <2>4. RequestsAreApart'
    BY <2>1, <2>2, <2>3 DEF AnswerInv, RequestsAreApart, Interrupting
  <2>5. OpenIsAwaited'
    BY <2>2 DEF AnswerInv, OpenIsAwaited
  <2>6. AnswersTravel'
    BY <2>1, <2>2 DEF AnswerInv, AnswersTravel, Defaulted
  <2>7. consumer.pc # "idle"
    BY <2>1 DEF TypeInv, Shape
  <2>8. AnswerIsHonoured'
    BY <2>1, <2>2, <2>7
    DEF TypeInv, TypeOK, GhostsTyped, AnswerInv, AnswersTravel, AnswerIsHonoured, Defaulted
  <2> QED BY <2>4, <2>5, <2>6, <2>8 DEF AnswerInv
<1>16. CASE Execute
  BY <1>16
  DEF Execute, AgentOnly, Asking, AnswerInv, RequestsAreApart, OpenIsAwaited, Interrupting,
      AnswersTravel, Defaulted, AnswerIsHonoured
<1>17. CASE waitChan
  BY <1>17
  DEF waitChan, Asking, AnswerInv, RequestsAreApart, OpenIsAwaited, Interrupting, AnswersTravel,
      Defaulted, AnswerIsHonoured
<1>18. CASE LookupFinds
  BY <1>18
  DEF LookupFinds, Asking, AnswerInv, RequestsAreApart, OpenIsAwaited, Interrupting,
      AnswersTravel, Defaulted, AnswerIsHonoured
<1>19. CASE LookupFails
  BY <1>19
  DEF LookupFails, Suspend, Asking, AnswerInv, RequestsAreApart, OpenIsAwaited, Interrupting,
      AnswersTravel, Defaulted, AnswerIsHonoured
<1>20. CASE InvokeEnds
  BY <1>20
  DEF InvokeEnds, LeaveProxy, Asking, AnswerInv, RequestsAreApart, OpenIsAwaited, Interrupting,
      AnswersTravel, Defaulted, AnswerIsHonoured
<1>21. CASE Invalidate
  BY <1>21
  DEF Invalidate, Suspend, Asking, AnswerInv, RequestsAreApart, OpenIsAwaited, Interrupting,
      AnswersTravel, Defaulted, AnswerIsHonoured
<1>22. CASE Woken
  BY <1>22
  DEF Woken, Asking, AnswerInv, RequestsAreApart, OpenIsAwaited, Interrupting, AnswersTravel,
      Defaulted, AnswerIsHonoured
<1>23. CASE WaitTimesOut
  BY <1>23
  DEF WaitTimesOut, LeaveProxy, Asking, AnswerInv, RequestsAreApart, OpenIsAwaited, Interrupting,
      AnswersTravel, Defaulted, AnswerIsHonoured
<1>24. CASE SendGivesUp
  BY <1>24
  DEF SendGivesUp, AnswerInv, RequestsAreApart, OpenIsAwaited, Interrupting, AnswersTravel,
      Defaulted, AnswerIsHonoured
<1>25. CASE Receive
  BY <1>25
  DEF Receive, ConsumerOnly, TypeInv, Shape, Asking, Busy, AnswerInv, RequestsAreApart,
      OpenIsAwaited, Interrupting, AnswersTravel, Defaulted, AnswerIsHonoured
<1>26. CASE ChannelClosed
  BY <1>26
  DEF ChannelClosed, ConsumerOnly, Busy, AnswerInv, RequestsAreApart, OpenIsAwaited, Interrupting,
      AnswersTravel, Defaulted, AnswerIsHonoured
<1>27. CASE Wait
  BY <1>27
  DEF Wait, TypeInv, TypeOK, Shape, Busy, ApprovalsTyped, AnswerInv, RequestsAreApart,
      OpenIsAwaited, Interrupting, AnswersTravel, Defaulted, AnswerIsHonoured
<1>28. CASE WaitAnswered
  BY <1>28
  DEF WaitAnswered, ConsumerOnly, Busy, AnswerInv, RequestsAreApart, OpenIsAwaited, Interrupting,
      AnswersTravel, Defaulted, AnswerIsHonoured
<1>29. CASE WaitEnds
  BY <1>29
  DEF WaitEnds, ConsumerOnly, TypeInv, TypeOK, Shape, Busy, ApprovalsTyped, AnswerInv,
      RequestsAreApart, OpenIsAwaited, Interrupting, AnswersTravel, Defaulted, AnswerIsHonoured
<1>30. CASE markResolved
  BY <1>30
  DEF markResolved, Busy, AnswerInv, RequestsAreApart, OpenIsAwaited, Interrupting, AnswersTravel,
      Defaulted, AnswerIsHonoured
<1>31. CASE DecideReturns
  BY <1>31
  DEF DecideReturns, Busy, AnswerInv, RequestsAreApart, OpenIsAwaited, Interrupting,
      AnswersTravel, Defaulted, AnswerIsHonoured
<1>32. CASE HandOver
  BY <1>32
  DEF HandOver, Decision, IdleConsumer, Busy, AnswerInv, RequestsAreApart, OpenIsAwaited,
      Interrupting, AnswersTravel, Defaulted, AnswerIsHonoured
<1>33. CASE TurnEnds
  BY <1>33
  DEF TurnEnds, IdleConsumer, Busy, AnswerInv, RequestsAreApart, OpenIsAwaited, Interrupting,
      AnswersTravel, AnswerIsHonoured
<1>34. ASSUME NEW n \in Asks, NEW a \in Offered, Resolve(n, a) PROVE AnswerInv'
  BY <1>34
  DEF Resolve, Without, TypeInv, TypeOK, Busy, ApprovalsTyped, AnswerInv, RequestsAreApart,
      OpenIsAwaited, Interrupting, AnswersTravel, Defaulted, AnswerIsHonoured, GhostsTyped
<1>35. CASE ResolveRefused
  BY <1>35
  DEF ResolveRefused, Without, AnswerInv, RequestsAreApart, OpenIsAwaited, Interrupting,
      AnswersTravel, Defaulted, AnswerIsHonoured
<1>36. CASE Pending
  BY <1>36
  DEF Pending, Without, AnswerInv, RequestsAreApart, OpenIsAwaited, Interrupting, AnswersTravel,
      Defaulted, AnswerIsHonoured
<1>37. CASE Cancel
  BY <1>37
  DEF Cancel, AnswerInv, RequestsAreApart, OpenIsAwaited, Interrupting, AnswersTravel, Defaulted,
      AnswerIsHonoured
<1>38. ASSUME NEW c \in Conns, Prompt(c) PROVE AnswerInv'
  BY <1>38
  DEF Prompt, AnswerInv, RequestsAreApart, OpenIsAwaited, Interrupting, AnswersTravel, Defaulted,
      AnswerIsHonoured
<1>39. ASSUME NEW c \in Conns, CollectTools(c) PROVE AnswerInv'
  <2>1. /\ UNCHANGED <<sending, pending, clock, answered, verdict>>
        /\ consumer.pc = "idle" /\ sending = Nothing /\ agent.pc = "closed"
    BY <1>39 DEF CollectTools, GateFree, TypeInv, Shape
  <2>2. CASE StartAgent
    <3>1. /\ agent'.pc = "model" /\ consumer'.pc = "reading" /\ consumer'.inbox = Nothing
          /\ decisions' = <<>>
      BY <2>2 DEF StartAgent, IdleConsumer
    <3> QED
      BY <2>1, <3>1
      DEF AnswerInv, RequestsAreApart, OpenIsAwaited, AnswersTravel, AnswerIsHonoured,
          Interrupting, Asking, Busy
  <2>3. CASE NewProviderFails
    BY <2>1, <2>3
    DEF NewProviderFails, AnswerInv, RequestsAreApart, OpenIsAwaited, AnswersTravel,
        AnswerIsHonoured, Interrupting
  <2> QED BY <1>39, <2>2, <2>3 DEF CollectTools
<1>40. ASSUME NEW c \in Conns, Rebind(c) PROVE AnswerInv'
  BY <1>40
  DEF Rebind, AnswerInv, RequestsAreApart, OpenIsAwaited, Interrupting, AnswersTravel, Defaulted,
      AnswerIsHonoured
<1>41. ASSUME NEW c \in Conns, UnbindConnection(c) PROVE AnswerInv'
  BY <1>41
  DEF UnbindConnection, AnswerInv, RequestsAreApart, OpenIsAwaited, Interrupting, AnswersTravel,
      Defaulted, AnswerIsHonoured
<1>42. ASSUME NEW n \in Asks, Expire(n) PROVE AnswerInv'
  BY <1>42
  DEF Expire, AnswerInv, RequestsAreApart, OpenIsAwaited, Interrupting, AnswersTravel, Defaulted,
      AnswerIsHonoured
<1>43. CASE UNCHANGED vars
  BY <1>43
  DEF vars, AnswerInv, RequestsAreApart, OpenIsAwaited, Interrupting, AnswersTravel, Defaulted,
      AnswerIsHonoured
<1> QED
  BY <1>1, <1>2, <1>3, <1>4, <1>5, <1>6, <1>7, <1>8, <1>9, <1>10, <1>11, <1>12, <1>13, <1>14,
     <1>15, <1>16, <1>17, <1>18, <1>19, <1>20, <1>21, <1>22, <1>23, <1>24, <1>25, <1>26, <1>27,
     <1>28, <1>29, <1>30, <1>31, <1>32, <1>33, <1>34, <1>35, <1>36, <1>37, <1>38, <1>39, <1>40,
     <1>41, <1>42, <1>43
  DEF Next, Agent, Consumer, Client, Time

(* AnswerInv holds at the start.                                           *)
LEMMA AnswerInit == Init => AnswerInv
  BY DEF Init, AnswerInv, RequestsAreApart, OpenIsAwaited, AnswersTravel, AnswerIsHonoured,
         Interrupting, Asking, Busy, IdleAgent, IdleConsumer

(* AnswerIsHonoured for any number of requests: unless the turn was        *)
(* cancelled or the deadline had passed, the verdict the gate acts on      *)
(* (channel_decision_provider GetDecision) is the answer that Resolve      *)
(* accepted (approval.go), whatever is left over in the channel.           *)
THEOREM AnswersAreHonoured == Spec => []AnswerIsHonoured
<1>1. AnswerInv => AnswerIsHonoured
  BY DEF AnswerInv
<1> QED BY <1>1, TypeInit, TypeStep, AnswerInit, AnswerStep, PTL DEF Spec

-----------------------------------------------------------------------------
(* What the run's state shows.                                             *)

(* Every step keeps the two goroutines in step.                            *)
LEMMA WaitStep == TypeInv /\ AnswerInv /\ WaitInv /\ [Next]_vars => WaitInv'
<1> SUFFICES ASSUME TypeInv /\ AnswerInv /\ WaitInv, [Next]_vars PROVE WaitInv'
  OBVIOUS
<1> USE TurnBounds DEF turn, registry, approvals, ghosts
<1>1. CASE ModelFails
  BY <1>1
  DEF ModelFails, At, AgentOnly, Asking, WaitInv, AgentStandsStill, DecisionIsHandedOver,
      WaitingIsHonest
<1>2. CASE ModelAnswers
  BY <1>2
  DEF ModelAnswers, At, AgentOnly, Asking, WaitInv, AgentStandsStill, DecisionIsHandedOver,
      WaitingIsHonest
<1>3. CASE ModelCalls
  BY <1>3
  DEF ModelCalls, At, AgentOnly, Asking, WaitInv, AgentStandsStill, DecisionIsHandedOver,
      WaitingIsHonest
<1>4. CASE Exhausted
  BY <1>4
  DEF Exhausted, At, AgentOnly, Asking, WaitInv, AgentStandsStill, DecisionIsHandedOver,
      WaitingIsHonest
<1>5. CASE Finish
  BY <1>5
  DEF Finish, At, AgentOnly, Asking, WaitInv, AgentStandsStill, DecisionIsHandedOver,
      WaitingIsHonest
<1>6. CASE Close
  BY <1>6
  DEF Close, At, AgentOnly, Asking, WaitInv, AgentStandsStill, DecisionIsHandedOver,
      WaitingIsHonest
<1>7. CASE AnnounceCall
  BY <1>7
  DEF AnnounceCall, At, AgentOnly, Asking, WaitInv, AgentStandsStill, DecisionIsHandedOver,
      WaitingIsHonest
<1>8. CASE Result
  <2>1. AgentStandsStill'
    <3>1. sending' \in Tokens
      BY <1>8 DEF Result, Token, Tokens
    <3>2. agent'.pc \in {"model", "call"} /\ sending' # Nothing
      BY <1>8, <3>1 DEF Result, TypeInv, TypeOK, AgentStates
    <3>3. UNCHANGED <<cancelled, consumer>> /\ agent.pc = "result" /\ sending = Nothing
      BY <1>8 DEF Result, At, AgentOnly
    <3> QED BY <3>2, <3>3 DEF AgentStandsStill
  <2>2. DecisionIsHandedOver'
    BY <1>8 DEF Result, Asking, DecisionIsHandedOver
  <2>3. WaitingIsHonest'
    BY <1>8 DEF Result, AgentOnly, WaitInv, WaitingIsHonest
  <2> QED BY <2>1, <2>2, <2>3 DEF WaitInv
<1>9. CASE GatePasses
  BY <1>9
  DEF GatePasses, At, Asking, WaitInv, AgentStandsStill, DecisionIsHandedOver, WaitingIsHonest
<1>10. CASE GateDenies
  BY <1>10
  DEF GateDenies, At, AgentOnly, Asking, WaitInv, AgentStandsStill, DecisionIsHandedOver,
      WaitingIsHonest
<1>11. CASE GateAsks
  BY <1>11
  DEF GateAsks, At, Asking, WaitInv, AgentStandsStill, DecisionIsHandedOver, AnswerInv,
      RequestsAreApart, WaitingIsHonest
<1>12. CASE GetDecision
  BY <1>12
  DEF GetDecision, At, AgentOnly, Asking, WaitInv, AgentStandsStill, DecisionIsHandedOver,
      WaitingIsHonest
<1>13. CASE DecisionDefaults
  <2>1. AgentStandsStill'
    BY <1>13 DEF DecisionDefaults, At, Decide, TypeInv, TypeOK, AgentStates, AgentStandsStill
  <2>2. DecisionIsHandedOver'
    BY <1>13
    DEF DecisionDefaults, Decide, TypeInv, TypeOK, Asking, AgentStates, DecisionIsHandedOver
  <2>3. WaitingIsHonest'
    BY <1>13 DEF DecisionDefaults, Decide, TypeInv, TypeOK, AgentStates, WaitInv, WaitingIsHonest
  <2> QED BY <2>1, <2>2, <2>3 DEF WaitInv
<1>14. CASE DropStale
  BY <1>14 DEF DropStale, WaitInv, AgentStandsStill, DecisionIsHandedOver, WaitingIsHonest
<1>15. CASE TakeDecision
  <2>1. AgentStandsStill'
    <3>1. consumer.pc = "reading" /\ UNCHANGED consumer
      BY <1>15, OneDecision
      DEF TakeDecision, At, Decide, TypeInv, Asking, WaitInv, DecisionIsHandedOver
    <3> QED BY <3>1 DEF AgentStandsStill, Busy
  <2>2. DecisionIsHandedOver'
    BY <1>15 DEF TakeDecision, DecisionIsHandedOver
  <2>3. WaitingIsHonest'
    BY <1>15
    DEF TakeDecision, At, Decide, TypeInv, TypeOK, Shape, Asking, Busy, AgentStates,
        ConsumerStates, Tokens, RunStates, WaitInv, AgentStandsStill, DecisionIsHandedOver,
        WaitingIsHonest
  <2> QED BY <2>1, <2>2, <2>3 DEF WaitInv
<1>16. CASE Execute
  BY <1>16
  DEF Execute, At, AgentOnly, Asking, WaitInv, AgentStandsStill, DecisionIsHandedOver,
      WaitingIsHonest
<1>17. CASE waitChan
  BY <1>17
  DEF waitChan, At, Asking, WaitInv, AgentStandsStill, DecisionIsHandedOver, WaitingIsHonest
<1>18. CASE LookupFinds
  BY <1>18
  DEF LookupFinds, At, onWait, TypeInv, TypeOK, Asking, RunStates, WaitInv, AgentStandsStill,
      DecisionIsHandedOver, WaitingIsHonest
<1>19. CASE LookupFails
  BY <1>19
  DEF LookupFails, At, onWait, Suspend, TypeInv, TypeOK, Asking, Busy, RunStates, WaitInv,
      AgentStandsStill, DecisionIsHandedOver, WaitingIsHonest
<1>20. CASE InvokeEnds
  BY <1>20
  DEF InvokeEnds, At, LeaveProxy, onWait, TypeInv, Shape, Asking, WaitInv, AgentStandsStill,
      DecisionIsHandedOver, WaitingIsHonest
<1>21. CASE Invalidate
  BY <1>21
  DEF Invalidate, At, Suspend, onWait, TypeInv, TypeOK, Asking, Busy, RunStates, WaitInv,
      AgentStandsStill, DecisionIsHandedOver, WaitingIsHonest
<1>22. CASE Woken
  BY <1>22 DEF Woken, At, Asking, WaitInv, AgentStandsStill, DecisionIsHandedOver, WaitingIsHonest
<1>23. CASE WaitTimesOut
  BY <1>23
  DEF WaitTimesOut, At, LeaveProxy, onWait, TypeInv, TypeOK, Asking, RunStates, WaitInv,
      AgentStandsStill, DecisionIsHandedOver, WaitingIsHonest
<1>24. CASE SendGivesUp
  BY <1>24 DEF SendGivesUp, WaitInv, AgentStandsStill, DecisionIsHandedOver, WaitingIsHonest
<1>25. CASE Receive
  BY <1>25
  DEF Receive, ConsumerOnly, TypeInv, Shape, Asking, Busy, WaitInv, AgentStandsStill,
      DecisionIsHandedOver, WaitingIsHonest
<1>26. CASE ChannelClosed
  BY <1>26
  DEF ChannelClosed, At, ConsumerOnly, Asking, Busy, WaitInv, AgentStandsStill,
      DecisionIsHandedOver, WaitingIsHonest
<1>27. CASE Wait
  BY <1>27
  DEF Wait, TypeInv, Shape, Asking, Busy, WaitInv, AgentStandsStill, DecisionIsHandedOver,
      WaitingIsHonest
<1>28. CASE WaitAnswered
  BY <1>28
  DEF WaitAnswered, ConsumerOnly, Busy, WaitInv, AgentStandsStill, DecisionIsHandedOver,
      WaitingIsHonest
<1>29. CASE WaitEnds
  BY <1>29
  DEF WaitEnds, ConsumerOnly, Busy, WaitInv, AgentStandsStill, DecisionIsHandedOver,
      WaitingIsHonest
<1>30. CASE markResolved
  BY <1>30
  DEF markResolved, Busy, WaitInv, AgentStandsStill, DecisionIsHandedOver, WaitingIsHonest
<1>31. CASE DecideReturns
  BY <1>31
  DEF DecideReturns, Busy, WaitInv, AgentStandsStill, DecisionIsHandedOver, WaitingIsHonest
<1>32. CASE HandOver
  BY <1>32
  DEF HandOver, Decision, TypeInv, Shape, Busy, WaitInv, AgentStandsStill, DecisionIsHandedOver,
      AnswerInv, RequestsAreApart, Interrupting, WaitingIsHonest
<1>33. CASE TurnEnds
  BY <1>33
  DEF TurnEnds, IdleConsumer, Busy, WaitInv, AgentStandsStill, DecisionIsHandedOver,
      WaitingIsHonest
<1>34. ASSUME NEW n \in Asks, NEW a \in Offered, Resolve(n, a) PROVE WaitInv'
  BY <1>34 DEF Resolve, WaitInv, AgentStandsStill, DecisionIsHandedOver, WaitingIsHonest
<1>35. CASE ResolveRefused
  BY <1>35 DEF ResolveRefused, WaitInv, AgentStandsStill, DecisionIsHandedOver, WaitingIsHonest
<1>36. CASE Pending
  BY <1>36 DEF Pending, WaitInv, AgentStandsStill, DecisionIsHandedOver, WaitingIsHonest
<1>37. CASE Cancel
  BY <1>37 DEF Cancel, WaitInv, AgentStandsStill, DecisionIsHandedOver, WaitingIsHonest
<1>38. ASSUME NEW c \in Conns, Prompt(c) PROVE WaitInv'
  BY <1>38 DEF Prompt, WaitInv, AgentStandsStill, DecisionIsHandedOver, WaitingIsHonest
<1>39. ASSUME NEW c \in Conns, CollectTools(c) PROVE WaitInv'
  <2>1. consumer.pc = "idle" /\ UNCHANGED sending /\ sending = Nothing /\ agent.pc = "closed"
    BY <1>39 DEF CollectTools, GateFree, TypeInv, Shape
  <2>2. CASE StartAgent
    <3>1. /\ agent'.pc = "model" /\ ~agent'.waiting /\ consumer'.pc = "reading" /\ run'.state = "running"
      BY <2>2 DEF StartAgent, IdleAgent
    <3> QED
      BY <3>1 DEF WaitInv, AgentStandsStill, DecisionIsHandedOver, WaitingIsHonest, Asking, Busy
  <2>3. CASE NewProviderFails
    BY <2>1, <2>3
    DEF NewProviderFails, WaitInv, AgentStandsStill, DecisionIsHandedOver, WaitingIsHonest, Busy
  <2> QED BY <1>39, <2>2, <2>3 DEF CollectTools
<1>40. ASSUME NEW c \in Conns, Rebind(c) PROVE WaitInv'
  BY <1>40 DEF Rebind, WaitInv, AgentStandsStill, DecisionIsHandedOver, WaitingIsHonest
<1>41. ASSUME NEW c \in Conns, UnbindConnection(c) PROVE WaitInv'
  BY <1>41 DEF UnbindConnection, WaitInv, AgentStandsStill, DecisionIsHandedOver, WaitingIsHonest
<1>42. ASSUME NEW n \in Asks, Expire(n) PROVE WaitInv'
  BY <1>42 DEF Expire, WaitInv, AgentStandsStill, DecisionIsHandedOver, WaitingIsHonest
<1>43. CASE UNCHANGED vars
  BY <1>43 DEF vars, WaitInv, AgentStandsStill, DecisionIsHandedOver, WaitingIsHonest
<1> QED
  BY <1>1, <1>2, <1>3, <1>4, <1>5, <1>6, <1>7, <1>8, <1>9, <1>10, <1>11, <1>12, <1>13, <1>14,
     <1>15, <1>16, <1>17, <1>18, <1>19, <1>20, <1>21, <1>22, <1>23, <1>24, <1>25, <1>26, <1>27,
     <1>28, <1>29, <1>30, <1>31, <1>32, <1>33, <1>34, <1>35, <1>36, <1>37, <1>38, <1>39, <1>40,
     <1>41, <1>42, <1>43
  DEF Next, Agent, Consumer, Client, Time

(* WaitInv holds at the start.                                             *)
LEMMA WaitInit == Init => WaitInv
  BY DEF Init, WaitInv, AgentStandsStill, DecisionIsHandedOver, WaitingIsHonest, Busy,
         IdleConsumer

(* WaitingIsHonest for any number of turns and requests: RunHandle.State() *)
(* shows a wait exactly while one of the two goroutines is in it.          *)
THEOREM WaitsAreHonest == Spec => []WaitingIsHonest
<1>1. WaitInv => WaitingIsHonest
  BY DEF WaitInv
<1> QED BY <1>1, TypeInit, TypeStep, AnswerInit, AnswerStep, WaitInit, WaitStep, PTL DEF Spec

-----------------------------------------------------------------------------
(* The proxy of a device.                                                  *)

(* Every step leaves the token of a Bind to the sleep it is meant for.     *)
LEMMA WakeupStep == TypeInv /\ WakeupInv /\ [Next]_vars => WakeupInv'
<1> SUFFICES ASSUME TypeInv /\ WakeupInv, [Next]_vars PROVE WakeupInv'
  OBVIOUS
<1> USE TurnBounds DEF turn, registry, approvals, ghosts
<1>1. CASE ModelFails
  BY <1>1 DEF ModelFails, WakeupInv
<1>2. CASE ModelAnswers
  BY <1>2 DEF ModelAnswers, WakeupInv
<1>3. CASE ModelCalls
  BY <1>3 DEF ModelCalls, WakeupInv
<1>4. CASE Exhausted
  BY <1>4 DEF Exhausted, WakeupInv
<1>5. CASE Finish
  BY <1>5 DEF Finish, WakeupInv
<1>6. CASE Close
  BY <1>6 DEF Close, WakeupInv
<1>7. CASE AnnounceCall
  BY <1>7 DEF AnnounceCall, WakeupInv
<1>8. CASE Result
  BY <1>8 DEF Result, WakeupInv
<1>9. CASE GatePasses
  BY <1>9 DEF GatePasses, WakeupInv
<1>10. CASE GateDenies
  BY <1>10 DEF GateDenies, WakeupInv
<1>11. CASE GateAsks
  BY <1>11 DEF GateAsks, WakeupInv
<1>12. CASE GetDecision
  BY <1>12 DEF GetDecision, WakeupInv
<1>13. CASE DecisionDefaults
  BY <1>13 DEF DecisionDefaults, Decide, TypeInv, TypeOK, AgentStates, WakeupInv
<1>14. CASE DropStale
  BY <1>14 DEF DropStale, WakeupInv
<1>15. CASE TakeDecision
  BY <1>15 DEF TakeDecision, At, Decide, TypeInv, TypeOK, AgentStates, WakeupInv, Asking
<1>16. CASE Execute
  BY <1>16 DEF Execute, WakeupInv
<1>17. CASE waitChan
  BY <1>17 DEF waitChan, WakeupInv
<1>18. CASE LookupFinds
  BY <1>18 DEF LookupFinds, WakeupInv
<1>19. CASE LookupFails
  BY <1>19 DEF LookupFails, WakeupInv
<1>20. CASE InvokeEnds
  BY <1>20 DEF InvokeEnds, LeaveProxy, WakeupInv
<1>21. CASE Invalidate
  BY <1>21 DEF Invalidate, At, WakeupInv
<1>22. CASE Woken
  BY <1>22 DEF Woken, WakeupInv
<1>23. CASE WaitTimesOut
  BY <1>23 DEF WaitTimesOut, LeaveProxy, WakeupInv
<1>24. CASE SendGivesUp
  BY <1>24 DEF SendGivesUp, WakeupInv
<1>25. CASE Receive
  BY <1>25 DEF Receive, ConsumerOnly, WakeupInv
<1>26. CASE ChannelClosed
  BY <1>26 DEF ChannelClosed, ConsumerOnly, WakeupInv
<1>27. CASE Wait
  BY <1>27 DEF Wait, WakeupInv
<1>28. CASE WaitAnswered
  BY <1>28 DEF WaitAnswered, ConsumerOnly, WakeupInv
<1>29. CASE WaitEnds
  BY <1>29 DEF WaitEnds, ConsumerOnly, WakeupInv
<1>30. CASE markResolved
  BY <1>30 DEF markResolved, WakeupInv
<1>31. CASE DecideReturns
  BY <1>31 DEF DecideReturns, WakeupInv
<1>32. CASE HandOver
  BY <1>32 DEF HandOver, WakeupInv
<1>33. CASE TurnEnds
  BY <1>33 DEF TurnEnds, WakeupInv
<1>34. ASSUME NEW n \in Asks, NEW a \in Offered, Resolve(n, a) PROVE WakeupInv'
  BY <1>34 DEF Resolve, WakeupInv
<1>35. CASE ResolveRefused
  BY <1>35 DEF ResolveRefused, WakeupInv
<1>36. CASE Pending
  BY <1>36 DEF Pending, WakeupInv
<1>37. CASE Cancel
  BY <1>37 DEF Cancel, WakeupInv
<1>38. ASSUME NEW c \in Conns, Prompt(c) PROVE WakeupInv'
  BY <1>38 DEF Prompt, WakeupInv
<1>39. ASSUME NEW c \in Conns, CollectTools(c) PROVE WakeupInv'
  BY <1>39 DEF CollectTools, bound, StartAgent, NewProviderFails, IdleAgent, WakeupInv
<1>40. ASSUME NEW c \in Conns, Rebind(c) PROVE WakeupInv'
  BY <1>40 DEF Rebind, bound, WakeupInv
<1>41. ASSUME NEW c \in Conns, UnbindConnection(c) PROVE WakeupInv'
  BY <1>41 DEF UnbindConnection, WakeupInv
<1>42. ASSUME NEW n \in Asks, Expire(n) PROVE WakeupInv'
  BY <1>42 DEF Expire, WakeupInv
<1>43. CASE UNCHANGED vars
  BY <1>43 DEF vars, WakeupInv
<1> QED
  BY <1>1, <1>2, <1>3, <1>4, <1>5, <1>6, <1>7, <1>8, <1>9, <1>10, <1>11, <1>12, <1>13, <1>14,
     <1>15, <1>16, <1>17, <1>18, <1>19, <1>20, <1>21, <1>22, <1>23, <1>24, <1>25, <1>26, <1>27,
     <1>28, <1>29, <1>30, <1>31, <1>32, <1>33, <1>34, <1>35, <1>36, <1>37, <1>38, <1>39, <1>40,
     <1>41, <1>42, <1>43
  DEF Next, Agent, Consumer, Client, Time

(* WakeupInv holds at the start.                                           *)
LEMMA WakeupInit == Init => WakeupInv
  BY DEF Init, WakeupInv

(* NoLostWakeup for any number of connections: a proxy never sleeps        *)
(* through the Bind of a device (capability.go waitChan, Bind).            *)
THEOREM NoWakeupIsLost == Spec => []NoLostWakeup
<1>1. WakeupInv => NoLostWakeup
  BY DEF WakeupInv, NoLostWakeup
<1> QED BY <1>1, TypeInit, TypeStep, WakeupInit, WakeupStep, PTL DEF Spec

-----------------------------------------------------------------------------
(* The gate in front of the tools.                                         *)

(* A remembered rule lets the call through.                                *)
RuleAllows(q, call) ==
    /\ q.gate = call.gate /\ Risk(call) <= q.max
    /\ IF call.gate = "bash"
       THEN tokensMatch(call.tokens, q.tokens) /\ (q.effects = {} \/ call.effects \subseteq q.effects)
       ELSE q.key = call.key

(* What the gate lets pass without asking is not forbidden, and in the     *)
(* normal mode harmless or covered by a rule.                              *)
LEMMA GateAllows ==
    ASSUME NEW call \in Calls, call.gate # "invalid", gateOf(call) = "allow"
    PROVE  /\ call.hard => mode = "off"
           /\ mode = "normal" /\ NeedsAnswer(call) =>
                /\ ~call.force
                /\ \E q \in rules : RuleAllows(q, call)
<1> USE TurnBounds
<1>1. effective(call) \in Nat /\ call.level \in Nat /\ RiskLow \in Nat
  BY DEF effective, Higher, floorByEffects, RiskHigh, RiskElevated, RiskMedium, RiskBenign,
         RiskLow
<1>2. CASE call.gate = "bash"
  <2>1. Evaluate(call) = "allow"
    BY <1>2 DEF gateOf, checkBash
  <2>2. call.hard => mode = "off"
    BY <2>1 DEF Evaluate
  <2>3. ASSUME mode = "normal", NeedsAnswer(call) PROVE matchAllowRule(call) /\ ~call.force
    <3>1. ~call.force /\ Risk(call) = effective(call) /\ ~(effective(call) <= RiskLow)
      BY <1>1, <1>2, <2>3 DEF NeedsAnswer, Risk
    <3>2. decisionFor(effective(call), mode) = "hitl"
      BY <2>3, <3>1 DEF decisionFor
    <3> QED BY <2>1, <2>3, <3>1, <3>2 DEF Evaluate
  <2> QED BY <1>2, <2>2, <2>3 DEF matchAllowRule, Risk, RuleAllows
<1>3. CASE call.gate = "policy"
  <2>1. toolDecision(call) = "allow" /\ ~call.hard
    BY <1>3 DEF gateOf
  <2>2. ASSUME mode = "normal", NeedsAnswer(call) PROVE toolAllowRuleMatches(call) /\ ~call.force
    <3>1. ~call.force /\ (call.level <= RiskLow \/ toolAllowRuleMatches(call))
      BY <2>1, <2>2 DEF toolDecision
    <3> QED BY <1>1, <1>3, <2>2, <3>1 DEF NeedsAnswer, Risk
  <2> QED BY <1>3, <2>1, <2>2 DEF toolAllowRuleMatches, Risk, RuleAllows
<1>4. CASE call.gate \notin {"bash", "policy"}
  <2>1. ~call.hard
    BY <1>4
  <2>2. ~(mode = "normal" /\ NeedsAnswer(call))
    BY <1>4 DEF gateOf, checkSys, checkMCP, NeedsAnswer
  <2> QED BY <2>1, <2>2
<1> QED BY <1>2, <1>3, <1>4

(* What an "always" leaves behind is as strong as the call it was given    *)
(* for, and no stronger.                                                   *)
LEMMA RuleIsTheCall ==
    ASSUME NEW s, NEW call, RuleAllows(ruleFor(s), call)
    PROVE  Covers(s, call)
  BY DEF ruleFor, Risk, RuleAllows, Covers

AnsweredStays == \A n \in Asks : answered[n] # Nothing => answered'[n] = answered[n]

(* A step that neither runs a tool nor remembers a rule has only to leave  *)
(* the accepted answers alone, and to ask for no other call.               *)
LEMMA GateFrame ==
    ASSUME TypeInv, GateInv, UNCHANGED <<mode, rules, ran>>, AnsweredStays,
           agent'.pc \in Asking => agent.pc \in Asking /\ agent'.call = agent.call
    PROVE  GateInv'
<1>1. \A s \in ran : s.id # 0 => s.id \in Asks
  BY TurnBounds DEF TypeInv, TypeOK, GhostsTyped, Asks
<1>2. \A n \in Asks : answered[n] \in Answers => answered'[n] = answered[n]
  BY TurnBounds DEF AnsweredStays
<1>3. RulesAreGiven'
  BY <1>1, <1>2 DEF GateInv, RulesAreGiven, Answers
<1>4. ForbiddenIsNotAsked'
  BY DEF GateInv, ForbiddenIsNotAsked
<1>5. NothingRunsUnasked'
  BY <1>1, <1>2 DEF GateInv, NothingRunsUnasked, Approvals, Answers
<1> QED BY <1>3, <1>4, <1>5 DEF GateInv

(* A decision is acted on: it is the default, which runs nothing, or the   *)
(* answer that was accepted for the request.                               *)
LEMMA GateDecide ==
    ASSUME TypeInv, GateInv, agent.pc \in Asking, NEW a, Decide(a),
           a = "reject" \/ a = answered[agent.id]
    PROVE  GateInv'
<1>1. agent.id \in Asks /\ agent.id # 0 /\ agent.call \in Calls
  <2>1. agent.id \in Asks /\ agent.call \in Calls
    BY DecideOutcome
  <2> QED BY <2>1, TurnBounds DEF Asks
<1>2. UNCHANGED <<mode, answered>>
  BY DEF Decide, turn, approvals
<1>3. agent'.pc \notin Asking
  <2>1. PICK c \in Calls, pc \in {"execute", "result"} : agent' = [agent EXCEPT !.pc = pc, !.call = c]
    BY DecideOutcome
  <2> QED BY <2>1 DEF Asking
<1>4. CASE UNCHANGED <<rules, ran>>
  BY <1>2, <1>3, <1>4, GateFrame DEF AnsweredStays
<1>5. CASE ~UNCHANGED <<rules, ran>>
  <2>1. a \in Approvals /\ answered[agent.id] = a
    BY <1>5 DEF Decide, Approvals
  <2>2. /\ a = "always" => CanRemember(agent.call)
        /\ rules' = IF a = "always" THEN remember(agent.call) ELSE rules
        /\ \E c \in edited(a) :
             \/ a = "edit" /\ c.gate = "bash" /\ Evaluate(c) = "deny" /\ UNCHANGED ran
             \/ /\ ~(a = "edit" /\ c.gate = "bash" /\ Evaluate(c) = "deny")
                /\ ran' = ran \cup {[call |-> c, id |-> agent.id]}
    BY <1>5 DEF Decide
  <2>3. PICK c \in edited(a) :
             \/ a = "edit" /\ c.gate = "bash" /\ Evaluate(c) = "deny" /\ UNCHANGED ran
             \/ /\ ~(a = "edit" /\ c.gate = "bash" /\ Evaluate(c) = "deny")
                /\ ran' = ran \cup {[call |-> c, id |-> agent.id]}
    BY <2>2
  <2>4. ran' = ran \cup {[call |-> c, id |-> agent.id]}
    BY <1>5, <2>2, <2>3
  <2>5. c \in Calls /\ (c.hard => mode = "off")
    <3>1. CASE c = agent.call
      BY <1>1, <3>1 DEF GateInv, ForbiddenIsNotAsked
    <3>2. CASE c # agent.call
      <4>1. a = "edit" /\ c \in Calls /\ c.gate = "bash"
        BY <3>2 DEF edited
      <4>2. Evaluate(c) # "deny"
        BY <1>5, <2>2, <2>3, <4>1
      <4> QED BY <4>1, <4>2 DEF Evaluate
    <3> QED BY <3>1, <3>2
  <2>6. NothingRunsUnasked'
    <3>1. ASSUME NEW r \in ran'
          PROVE  /\ r.call.hard => mode = "off"
                 /\ \/ r.id # 0 /\ answered[r.id] \in Approvals
                    \/ r.id = 0 /\ (mode = "normal" /\ NeedsAnswer(r.call) =>
                             /\ ~r.call.force
                             /\ \E s \in ran' : /\ s.id # 0 /\ answered[s.id] = "always"
                                               /\ Covers(s.call, r.call))
      <4>1. CASE r \in ran
        BY <2>4, <4>1 DEF GateInv, NothingRunsUnasked
      <4>2. CASE r = [call |-> c, id |-> agent.id]
        BY <1>1, <2>1, <2>5, <4>2
      <4> QED BY <2>4, <4>1, <4>2
    <3> QED BY <1>2, <3>1 DEF NothingRunsUnasked
  <2>7. RulesAreGiven'
    <3>1. ASSUME NEW q \in rules'
          PROVE  \E s \in ran' : /\ s.id # 0 /\ answered[s.id] = "always"
                                 /\ CanRemember(s.call) /\ q = ruleFor(s.call)
      <4>1. CASE q \in rules
        BY <2>4, <4>1 DEF GateInv, RulesAreGiven
      <4>2. CASE q \notin rules
        <5>1. a = "always" /\ CanRemember(agent.call) /\ q = ruleFor(agent.call)
          BY <2>2, <4>2 DEF remember
        <5>2. c = agent.call
          BY <5>1 DEF edited
        <5> DEFINE s == [call |-> c, id |-> agent.id]
        <5>3. s \in ran' /\ s.id = agent.id /\ s.call = agent.call
          BY <2>4, <5>2
        <5> HIDE DEF s
        <5> QED BY <1>1, <2>1, <5>1, <5>3
      <4> QED BY <4>1, <4>2
    <3> QED BY <1>2, <3>1 DEF RulesAreGiven
  <2>8. ForbiddenIsNotAsked'
    BY <1>3 DEF ForbiddenIsNotAsked
  <2> QED BY <2>6, <2>7, <2>8 DEF GateInv
<1> QED BY <1>4, <1>5

(* Every step keeps the gate's promise.                                    *)
LEMMA GateStep == TypeInv /\ AnswerInv /\ GateInv /\ [Next]_vars => GateInv'
<1> SUFFICES ASSUME TypeInv, AnswerInv, GateInv, [Next]_vars PROVE GateInv'
  OBVIOUS
<1> USE DEF turn, registry, approvals, ghosts
<1>1. CASE ModelFails
  BY <1>1, GateFrame DEF ModelFails, AgentOnly, AnsweredStays, Asking
<1>2. CASE ModelAnswers
  BY <1>2, GateFrame DEF ModelAnswers, AgentOnly, AnsweredStays, Asking
<1>3. CASE ModelCalls
  BY <1>3, GateFrame DEF ModelCalls, AgentOnly, AnsweredStays, Asking
<1>4. CASE Exhausted
  BY <1>4, GateFrame DEF Exhausted, AgentOnly, AnsweredStays, Asking
<1>5. CASE Finish
  BY <1>5, GateFrame DEF Finish, AgentOnly, AnsweredStays, Asking
<1>6. CASE Close
  BY <1>6, GateFrame DEF Close, AgentOnly, AnsweredStays, Asking
<1>7. CASE AnnounceCall
  BY <1>7, GateFrame DEF AnnounceCall, AgentOnly, AnsweredStays, Asking
<1>8. CASE Result
  BY <1>8, GateFrame DEF Result, AgentOnly, AnsweredStays, Asking
<1>9. CASE GatePasses
  <2>1. /\ agent.call \in Calls /\ agent.call.gate # "invalid" /\ gateOf(agent.call) = "allow"
        /\ UNCHANGED <<mode, rules, answered>>
        /\ ran' = ran \cup {[call |-> agent.call, id |-> 0]}
    BY <1>9 DEF GatePasses, At, TypeInv, Shape
  <2>2. RulesAreGiven'
    BY <2>1 DEF GateInv, RulesAreGiven
  <2>3. agent'.pc = "execute"
    BY <1>9 DEF GatePasses
  <2>4. ForbiddenIsNotAsked'
    BY <2>3 DEF ForbiddenIsNotAsked, Asking
  <2>5. ASSUME mode = "normal", NeedsAnswer(agent.call)
        PROVE  /\ ~agent.call.force
               /\ \E s \in ran : /\ s.id # 0 /\ answered[s.id] = "always"
                                 /\ Covers(s.call, agent.call)
    <3>1. PICK q \in rules : RuleAllows(q, agent.call)
      BY <2>1, <2>5, GateAllows
    <3>2. PICK s \in ran : s.id # 0 /\ answered[s.id] = "always" /\ q = ruleFor(s.call)
      BY DEF GateInv, RulesAreGiven
    <3>3. Covers(s.call, agent.call)
      BY <3>1, <3>2, RuleIsTheCall
    <3> QED BY <2>1, <2>5, <3>2, <3>3, GateAllows
  <2>6. agent.call.hard => mode = "off"
    BY <2>1, GateAllows
  <2>7. NothingRunsUnasked'
    BY <2>1, <2>5, <2>6 DEF GateInv, NothingRunsUnasked
  <2> QED BY <2>2, <2>4, <2>7 DEF GateInv
<1>10. CASE GateDenies
  BY <1>10, GateFrame DEF GateDenies, AgentOnly, AnsweredStays, Asking
<1>11. CASE GateAsks
  <2>1. /\ UNCHANGED <<mode, rules, ran, answered>> /\ agent'.call = agent.call
        /\ agent.call \in Calls /\ gateOf(agent.call) = "hitl"
    BY <1>11 DEF GateAsks, At, TypeInv, Shape
  <2>2. agent.call.hard => mode = "off"
    BY <2>1, TurnBounds DEF gateOf, checkBash, Evaluate
  <2> QED BY <2>1, <2>2 DEF GateInv, RulesAreGiven, ForbiddenIsNotAsked, NothingRunsUnasked
<1>12. CASE GetDecision
  BY <1>12, GateFrame DEF GetDecision, At, AgentOnly, AnsweredStays, Asking
<1>13. CASE DecisionDefaults
  BY <1>13, GateDecide DEF DecisionDefaults, At, Asking
<1>14. CASE DropStale
  BY <1>14, GateFrame DEF DropStale, AnsweredStays
<1>15. CASE TakeDecision
  <2>1. /\ agent.pc \in Asking /\ decisions # <<>> /\ consumer.pc # "idle"
        /\ Decide(decisions[1].answer) /\ decisions[1].id = agent.id
    BY <1>15, OneDecision DEF TakeDecision, At, Asking, TypeInv, Shape
  <2>2. decisions[1].answer \in {"reject", answered[agent.id]}
    BY <2>1 DEF AnswerInv, AnswersTravel, Defaulted
  <2> QED BY <2>1, <2>2, GateDecide
<1>16. CASE Execute
  BY <1>16, GateFrame DEF Execute, AgentOnly, AnsweredStays, Asking
<1>17. CASE waitChan
  BY <1>17, GateFrame DEF waitChan, AnsweredStays, Asking
<1>18. CASE LookupFinds
  BY <1>18, GateFrame DEF LookupFinds, AnsweredStays, Asking
<1>19. CASE LookupFails
  BY <1>19, GateFrame DEF LookupFails, Suspend, AnsweredStays, Asking
<1>20. CASE InvokeEnds
  BY <1>20, GateFrame DEF InvokeEnds, LeaveProxy, AnsweredStays, Asking
<1>21. CASE Invalidate
  BY <1>21, GateFrame DEF Invalidate, Suspend, AnsweredStays, Asking
<1>22. CASE Woken
  BY <1>22, GateFrame DEF Woken, AnsweredStays, Asking
<1>23. CASE WaitTimesOut
  BY <1>23, GateFrame DEF WaitTimesOut, LeaveProxy, AnsweredStays, Asking
<1>24. CASE SendGivesUp
  BY <1>24, GateFrame DEF SendGivesUp, AnsweredStays
<1>25. CASE Receive
  BY <1>25, GateFrame DEF Receive, ConsumerOnly, AnsweredStays
<1>26. CASE ChannelClosed
  BY <1>26, GateFrame DEF ChannelClosed, ConsumerOnly, AnsweredStays
<1>27. CASE Wait
  BY <1>27, GateFrame DEF Wait, AnsweredStays
<1>28. CASE WaitAnswered
  BY <1>28, GateFrame DEF WaitAnswered, ConsumerOnly, AnsweredStays
<1>29. CASE WaitEnds
  BY <1>29, GateFrame DEF WaitEnds, ConsumerOnly, AnsweredStays
<1>30. CASE markResolved
  BY <1>30, GateFrame DEF markResolved, AnsweredStays
<1>31. CASE DecideReturns
  BY <1>31, GateFrame DEF DecideReturns, AnsweredStays
<1>32. CASE HandOver
  BY <1>32, GateFrame DEF HandOver, AnsweredStays
<1>33. CASE TurnEnds
  BY <1>33, GateFrame DEF TurnEnds, AnsweredStays
<1>34. ASSUME NEW n \in Asks, NEW a \in Offered, Resolve(n, a) PROVE GateInv'
  <2>1. answered[n] = Nothing
    BY <1>34 DEF Resolve, AnswerInv, OpenIsAwaited
  <2>2. AnsweredStays
    BY <1>34, <2>1 DEF Resolve, AnsweredStays
  <2> QED BY <1>34, <2>2, GateFrame DEF Resolve
<1>35. CASE ResolveRefused
  BY <1>35, GateFrame DEF ResolveRefused, AnsweredStays
<1>36. CASE Pending
  BY <1>36, GateFrame DEF Pending, AnsweredStays
<1>37. CASE Cancel
  BY <1>37, GateFrame DEF Cancel, AnsweredStays
<1>38. ASSUME NEW c \in Conns, Prompt(c) PROVE GateInv'
  BY <1>38, GateFrame DEF Prompt, AnsweredStays
<1>39. ASSUME NEW c \in Conns, CollectTools(c) PROVE GateInv'
  BY <1>39, GateFrame
  DEF CollectTools, StartAgent, NewProviderFails, IdleAgent, AnsweredStays, Asking
<1>40. ASSUME NEW c \in Conns, Rebind(c) PROVE GateInv'
  BY <1>40, GateFrame DEF Rebind, AnsweredStays
<1>41. ASSUME NEW c \in Conns, UnbindConnection(c) PROVE GateInv'
  BY <1>41, GateFrame DEF UnbindConnection, AnsweredStays
<1>42. ASSUME NEW n \in Asks, Expire(n) PROVE GateInv'
  BY <1>42, GateFrame DEF Expire, AnsweredStays
<1>43. CASE UNCHANGED vars
  BY <1>43, GateFrame DEF vars, AnsweredStays
<1> QED
  BY <1>1, <1>2, <1>3, <1>4, <1>5, <1>6, <1>7, <1>8, <1>9, <1>10, <1>11, <1>12, <1>13, <1>14,
     <1>15, <1>16, <1>17, <1>18, <1>19, <1>20, <1>21, <1>22, <1>23, <1>24, <1>25, <1>26, <1>27,
     <1>28, <1>29, <1>30, <1>31, <1>32, <1>33, <1>34, <1>35, <1>36, <1>37, <1>38, <1>39, <1>40,
     <1>41, <1>42, <1>43
  DEF Next, Agent, Consumer, Client, Time

(* GateInv holds at the start.                                             *)
LEMMA GateInit == Init => GateInv
  BY DEF Init, GateInv, RulesAreGiven, ForbiddenIsNotAsked, NothingRunsUnasked, Asking, IdleAgent

(* NothingRunsUnasked for any tools, modes, risks and answers: what runs   *)
(* was approved by the answer to its own request, or needed none, or is    *)
(* covered by an "always": for a command whose words it begins with or the *)
(* same key, with at least its risk and its effects                        *)
(* (hitl.go OnBeforeTool and confirm, policy.go Decide).                   *)
THEOREM NoToolRunsUnasked == Spec => []NothingRunsUnasked
<1>1. GateInv => NothingRunsUnasked
  BY DEF GateInv
<1> QED
  BY <1>1, TypeInit, TypeStep, AnswerInit, AnswerStep, GateInit, GateStep, PTL DEF Spec
=============================================================================
