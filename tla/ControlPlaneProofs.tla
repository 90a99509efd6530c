------------------------ MODULE ControlPlaneProofs ------------------------
(***************************************************************************)
(* Proofs about ControlPlane, for any number of connections, names,        *)
(* sessions and requests and any capacity of the request table.            *)
(***************************************************************************)
EXTENDS ControlPlane, TLAPS

(* Where an operation stands says what kind of request it serves.          *)
Submitting == {"submit", "join", "start", "record", "land"}
UnderLease == Submitting \cup {"commit"}
Attaching  == {"subscribe", "install", "acquire", "exchange"}
Detaching  == {"remove", "release", "stop"}

PlaceInv ==
    \A o \in Ops :
        /\ pc[o] # "idle" => req[o] \in Requests
        /\ pc[o] = "lock" => req[o].kind \in {"start", "fenced"}
        /\ pc[o] \in Submitting => req[o].kind = "start"
        /\ pc[o] \in Attaching => req[o].kind = "attach"
        /\ pc[o] \in Detaching => req[o].kind = "detach"
        /\ o \in runs => req[o].kind = "start"
        /\ pc[o] = "idle" => o \notin runs \cup fenced /\ pump[o] = "none"

(* The request table, its order and the flights fit together; only the     *)
(* submission between start and record is known by its flight alone.       *)
RegInv ==
    /\ \A o \in Ops : pc[o] \in {"start", "record"} => flights[Key(o)] = o
    /\ \A k \in Keys : flights[k] # NoOp =>
         pc[flights[k]] \in {"start", "record"} /\ Key(flights[k]) = k /\ table[k] = NoOp
    /\ \A k \in Keys : table[k] # NoOp =>
         table[k] \in runs /\ Key(table[k]) = k /\ req[table[k]].kind = "start"
    /\ \A i \in 1..Len(order) : table[order[i]] # NoOp
    /\ \A i, j \in 1..Len(order) : order[i] = order[j] => i = j
    /\ \A o \in runs : o \in forgotten \/ table[Key(o)] = o \/ pc[o] = "record"

(* What a submission returns: its own run, the run of the flight it        *)
(* joined, or the run in the table, all of the same key and input.         *)
AnswerInv ==
    /\ \A o \in Ops :
         /\ outcome[o] \in {NoOp, "failed", o}
         /\ outcome[o] = o => o \in runs
         /\ pc[o] = "record" /\ o \in runs => outcome[o] = o
         /\ o \in runs => pc[o] \in {"record", "land", "returned"}
    /\ \A o \in Ops : pc[o] = "join" =>
         /\ joined[o] \in Ops
         /\ pc[joined[o]] # "idle"
         /\ Key(joined[o]) = Key(o)
         /\ req[joined[o]].input = req[o].input
    /\ \A o \in Ops : pc[o] = "returned" /\ answer[o] \in Ops =>
         /\ answer[o] \in runs
         /\ Key(answer[o]) = Key(o)
         /\ req[answer[o]].input = req[o].input

(* Inside WithControl the mutex is held, so the holder cannot change.      *)
FenceInv ==
    \A o \in Ops : pc[o] \in UnderLease =>
        leaseMu[req[o].name] = o /\ holder[req[o].name] = req[o].conn

(* The closed barrier: no attach takes a lease after Close has begun, so   *)
(* the copy of the lease table that Close works through has all of them.   *)
CloseInv ==
    /\ \A o \in Ops : pc[o] \in {"acquire", "release"} => hMu[req[o].conn] = o
    /\ \A o \in Ops : pc[o] = "acquire" => ~closed[req[o].conn]
    /\ \A c \in Conns : closed[c] <=> closePc[c] # "open"
    /\ \A n \in Names : holder[n] # NoConn => n \in leases
    /\ \A c \in Conns, n \in Names : closePc[c] = "release" /\ holder[n] = c => n \in toRelease[c]
    /\ \A c \in Conns, n \in Names : closePc[c] = "gone" => holder[n] # c

(* The entries of the subscription tables.                                 *)
EntryInv ==
    \A c \in Conns, n \in Names : subs[c][n] # NoOp =>
        /\ req[subs[c][n]].kind = "attach"
        /\ req[subs[c][n]].conn = c
        /\ req[subs[c][n]].name = n
        /\ pc[subs[c][n]] \in {"acquire", "exchange", "returned"}

(* The stages of a subscription, and what Close leaves of the table.       *)
SubInv ==
    /\ EntryInv
    /\ \A c \in Conns, n \in Names : closed[c] => subs[c][n] = NoOp
    /\ \A c \in Conns : closePc[c] = "open" => toStop[c] = {}
    /\ \A o \in Ops : pc[o] \in {"subscribe"} \cup Detaching => pump[o] = "none"
    /\ \A o \in Ops : pc[o] \in {"install", "acquire", "exchange"} => pump[o] = "made"

Inv ==
    /\ TypeOK /\ PlaceInv /\ RegInv /\ AnswerInv
    /\ FenceInv /\ CloseInv /\ SubInv /\ NoOrphanSubscription

-----------------------------------------------------------------------------
(* The fields of a request.                                                *)
LEMMA Fields ==
    ASSUME NEW r \in Requests
    PROVE  /\ r.conn \in Conns /\ r.name \in Names
           /\ r.kind \in {"start", "fenced", "attach", "detach"}
           /\ r.kind = "start" => r.rid \in RequestIds /\ r.input \in Inputs
<1> QED BY DEF Requests

(* The key of a submission.                                                *)
LEMMA KeyType ==
    ASSUME NEW o \in Ops, req[o] \in Requests, req[o].kind = "start"
    PROVE  Key(o) \in Keys
<1> QED BY Fields, ControlAssumption DEF Key, Keys

(* A step leaves the requests alone that are being served.                 *)
LEMMA RequestStable ==
    ASSUME TypeOK, Next, NEW o \in Ops, pc[o] # "idle"
    PROVE  req'[o] = req[o] /\ pc'[o] # "idle"
<1> USE DEF leaseVars, regVars, runVars, subVars, closeVars
<1>1. pc \in [Ops -> Labels] /\ req \in [Ops -> Requests \cup {NoRequest}]
  BY DEF TypeOK
<1>2. ASSUME NEW p \in Ops, NEW r \in Offered[p], Issue(p, r)
      PROVE  req'[o] = req[o] /\ pc'[o] # "idle"
  BY <1>1, <1>2 DEF Issue, Goto
<1>3. ASSUME NEW p \in Ops, Serve(p) \/ PumpEnds(p) PROVE req'[o] = req[o] /\ pc'[o] # "idle"
  BY <1>1, <1>3 DEF Serve, WithControl, CommitFenced, CommitRefused, SubmitHit, SubmitJoin,
         JoinReturns, SubmitLead, StartAccepted, StartRefused, RecordResult, Land, Subscribe,
         Install, Acquire, Exchange, PumpEnds, Remove, Release, StopRemoved, Return, Goto
<1>4. ASSUME \/ \E s \in Sessions : RunEnds(s)
             \/ \E c \in Leavers : CloseBegin(c) \/ Close(c)
      PROVE  req'[o] = req[o] /\ pc'[o] # "idle"
  BY <1>4 DEF RunEnds, CloseBegin, Close, CloseStop, CloseRelease, CloseEnd
<1> QED BY <1>2, <1>3, <1>4 DEF Next

(* Every step keeps requests and places together.                          *)
LEMMA PlaceStep == TypeOK /\ PlaceInv /\ Next => PlaceInv'
<1> SUFFICES ASSUME TypeOK, PlaceInv, Next PROVE PlaceInv'
  OBVIOUS
<1> USE DEF PlaceInv, Submitting, Attaching, Detaching, leaseVars, regVars, runVars, subVars, closeVars
<1>0. /\ pc \in [Ops -> Labels] /\ req \in [Ops -> Requests \cup {NoRequest}]
      /\ pump \in [Ops -> {"none", "made", "pumping", "ended"}]
  BY DEF TypeOK
<1>1. ASSUME NEW p \in Ops, NEW r \in Offered[p], Issue(p, r) PROVE PlaceInv'
  BY <1>0, <1>1, Fields, BoundsAssumption DEF Issue, Goto
<1>2. ASSUME NEW p \in Ops, WithControl(p) PROVE PlaceInv'
  BY <1>0, <1>2 DEF WithControl, Return, Goto
<1>3. ASSUME NEW p \in Ops, CommitFenced(p) PROVE PlaceInv'
  BY <1>0, <1>3 DEF CommitFenced, Return, Goto, Unlock
<1>4. ASSUME NEW p \in Ops, CommitRefused(p) PROVE PlaceInv'
  BY <1>0, <1>4 DEF CommitRefused, Return, Goto, Unlock
<1>5. ASSUME NEW p \in Ops, SubmitHit(p) PROVE PlaceInv'
  BY <1>0, <1>5 DEF SubmitHit, Return, Goto, Unlock
<1>6. ASSUME NEW p \in Ops, SubmitJoin(p) PROVE PlaceInv'
  BY <1>0, <1>6 DEF SubmitJoin, Return, Goto, Unlock
<1>7. ASSUME NEW p \in Ops, JoinReturns(p) PROVE PlaceInv'
  BY <1>0, <1>7 DEF JoinReturns, Return, Goto, Unlock
<1>8. ASSUME NEW p \in Ops, SubmitLead(p) PROVE PlaceInv'
  BY <1>0, <1>8 DEF SubmitLead, Goto
<1>9. ASSUME NEW p \in Ops, StartAccepted(p) PROVE PlaceInv'
  BY <1>0, <1>9 DEF StartAccepted, Goto
<1>10. ASSUME NEW p \in Ops, StartRefused(p) PROVE PlaceInv'
  BY <1>0, <1>10 DEF StartRefused, Goto
<1>11. ASSUME NEW p \in Ops, RecordResult(p) PROVE PlaceInv'
  BY <1>0, <1>11 DEF RecordResult, Goto, Recorded
<1>12. ASSUME NEW p \in Ops, Land(p) PROVE PlaceInv'
  BY <1>0, <1>12 DEF Land, Return, Goto, Unlock
<1>13. ASSUME NEW p \in Ops, Subscribe(p) PROVE PlaceInv'
  BY <1>0, <1>13 DEF Subscribe, Return, Goto
<1>14. ASSUME NEW p \in Ops, Install(p) PROVE PlaceInv'
  BY <1>0, <1>14 DEF Install, Return, Goto
<1>15. ASSUME NEW p \in Ops, Acquire(p) PROVE PlaceInv'
  BY <1>0, <1>15 DEF Acquire, Goto
<1>16. ASSUME NEW p \in Ops, Exchange(p) PROVE PlaceInv'
  BY <1>0, <1>16 DEF Exchange, Return, Goto
<1>17. ASSUME NEW p \in Ops, PumpEnds(p) PROVE PlaceInv'
  BY <1>0, <1>17 DEF PumpEnds
<1>18. ASSUME NEW p \in Ops, Remove(p) PROVE PlaceInv'
  BY <1>0, <1>18 DEF Remove, Goto
<1>19. ASSUME NEW p \in Ops, Release(p) PROVE PlaceInv'
  BY <1>0, <1>19 DEF Release, Goto
<1>20. ASSUME NEW p \in Ops, StopRemoved(p) PROVE PlaceInv'
  BY <1>0, <1>20 DEF StopRemoved, Return, Goto
<1>21. ASSUME \/ \E s \in Sessions : RunEnds(s)
              \/ \E c \in Leavers : CloseBegin(c) \/ Close(c)
       PROVE  PlaceInv'
  BY <1>21 DEF RunEnds, CloseBegin, Close, CloseStop, CloseRelease, CloseEnd
<1> QED BY <1>1, <1>2, <1>3, <1>4, <1>5, <1>6, <1>7, <1>8, <1>9, <1>10, <1>11, <1>12, <1>13,
           <1>14, <1>15, <1>16, <1>17, <1>18, <1>19, <1>20, <1>21 DEF Next, Serve

(* What recordLocked does to the table: the new key is in, at most the     *)
(* oldest one is out, and who is out is marked forgotten.                  *)
LEMMA RecordedEffect ==
    ASSUME TypeOK, RegInv, NEW o \in Ops, NEW k \in Keys, table[k] = NoOp, Recorded(k, o)
    PROVE  /\ order' \in Seq(Keys)
           /\ table' \in [Keys -> Ops \cup {NoOp}]
           /\ forgotten \subseteq forgotten' /\ forgotten' \subseteq Ops
           /\ table'[k] = o
           /\ \A q \in Keys : q # k =>
                \/ table'[q] = table[q]
                \/ table'[q] = NoOp /\ table[q] \in forgotten'
           /\ \A i \in 1..Len(order') : table'[order'[i]] # NoOp
           /\ \A i, j \in 1..Len(order') : order'[i] = order'[j] => i = j
<1> DEFINE grown == Append(order, k)
           full == Len(grown) > MaxTracked
<1>1. /\ order \in Seq(Keys) /\ Len(order) \in Nat
      /\ table \in [Keys -> Ops \cup {NoOp}] /\ forgotten \subseteq Ops
      /\ MaxTracked \in Nat \ {0} /\ NoOp \notin Ops
      /\ \A i \in 1..Len(order) : order[i] \in Keys /\ table[order[i]] # NoOp
      /\ \A i, j \in 1..Len(order) : order[i] = order[j] => i = j
  BY ControlAssumption DEF TypeOK, RegInv
<1>2. /\ grown \in Seq(Keys) /\ Len(grown) = Len(order) + 1
      /\ \A i \in 1..Len(order) : grown[i] = order[i]
      /\ grown[Len(order) + 1] = k
  BY <1>1
<1>3. \A i, j \in 1..Len(grown) : grown[i] = grown[j] => i = j
  BY <1>1, <1>2
<1>4. table' = [q \in Keys |-> IF q = k THEN o
                              ELSE IF full /\ q = Head(grown) THEN NoOp ELSE table[q]]
  BY DEF Recorded
<1>5. CASE ~full
  <2>1. order' = grown /\ forgotten' = forgotten
    BY <1>5 DEF Recorded
  <2>2. /\ table'[k] = o
        /\ \A q \in Keys : q # k => table'[q] = table[q]
    BY <1>4, <1>5
  <2>3. \A i \in 1..Len(order') : table'[order'[i]] # NoOp
    BY <1>1, <1>2, <2>1, <2>2
  <2>4. table' \in [Keys -> Ops \cup {NoOp}]
    BY <1>1, <1>4
  <2>5. \A i, j \in 1..Len(order') : order'[i] = order'[j] => i = j
    BY <1>3, <2>1
  <2>6. order' \in Seq(Keys) /\ forgotten \subseteq forgotten' /\ forgotten' \subseteq Ops
    BY <1>1, <1>2, <2>1
  <2> QED BY ONLY <2>2, <2>3, <2>4, <2>5, <2>6
<1>6. CASE full
  <2>1. Head(grown) = order[1] /\ 1 \in 1..Len(order)
    BY <1>1, <1>2, <1>6
  <2>2. /\ order' = Tail(grown) /\ forgotten' = forgotten \cup {table[order[1]]}
        /\ order[1] \in Keys /\ table[order[1]] \in Ops
    BY <1>1, <1>6, <2>1 DEF Recorded
  <2>3. /\ order' \in Seq(Keys) /\ Len(order') = Len(order)
        /\ \A i \in 1..Len(order') : order'[i] = grown[i + 1]
    BY <1>1, <1>2, <2>1, <2>2
  <2>4. /\ table'[k] = o
        /\ \A q \in Keys : q # k =>
             IF q = order[1] THEN table'[q] = NoOp ELSE table'[q] = table[q]
    BY <1>4, <1>6, <2>1
  <2>5. ASSUME NEW i \in 1..Len(order') PROVE table'[order'[i]] # NoOp
    <3>1. i + 1 \in 1..Len(grown) /\ 1 \in 1..Len(grown) /\ i + 1 # 1 /\ grown[1] = order[1]
      BY <1>1, <1>2, <2>1, <2>3
    <3>2. order'[i] = grown[i + 1] /\ order'[i] # order[1]
      BY <1>3, <2>3, <3>1
    <3>3. CASE i = Len(order)
      BY <1>1, <1>2, <2>3, <2>4, <3>2, <3>3
    <3>4. CASE i # Len(order)
      BY <1>1, <1>2, <2>3, <2>4, <3>2, <3>4
    <3> QED BY <3>3, <3>4
  <2>6. \A i, j \in 1..Len(order') : order'[i] = order'[j] => i = j
    BY <1>1, <1>2, <1>3, <2>3
  <2>7. table' \in [Keys -> Ops \cup {NoOp}]
    BY <1>1, <1>4
  <2>8. forgotten \subseteq forgotten' /\ forgotten' \subseteq Ops
    BY <1>1, <2>2
  <2>9. \A q \in Keys : q # k =>
          \/ table'[q] = table[q]
          \/ table'[q] = NoOp /\ table[q] \in forgotten'
    BY <2>2, <2>4
  <2> QED BY ONLY <2>3, <2>4, <2>5, <2>6, <2>7, <2>8, <2>9
<1> QED BY <1>5, <1>6

(* Every step keeps table, order, flights and runs together.               *)
LEMMA RegStep == TypeOK /\ PlaceInv /\ RegInv /\ AnswerInv /\ Next => RegInv'
<1> SUFFICES ASSUME TypeOK, PlaceInv, RegInv, AnswerInv, Next PROVE RegInv'
  OBVIOUS
<1> USE DEF leaseVars, regVars, runVars, subVars, closeVars
<1>0. /\ pc \in [Ops -> Labels] /\ req \in [Ops -> Requests \cup {NoRequest}]
      /\ table \in [Keys -> Ops \cup {NoOp}] /\ flights \in [Keys -> Ops \cup {NoOp}]
      /\ runs \subseteq Ops /\ NoOp \notin Ops /\ order \in Seq(Keys)
  BY ControlAssumption DEF TypeOK
<1>1. \A o \in Ops : pc[o] # "idle" => Key(o)' = Key(o) /\ req'[o] = req[o]
  BY RequestStable DEF Key
<1>2. /\ \A o \in runs : pc[o] # "idle" /\ Key(o) \in Keys
      /\ \A o \in Ops : pc[o] \in Submitting => Key(o) \in Keys
  BY <1>0, KeyType DEF PlaceInv, Submitting
<1>3. ASSUME UNCHANGED <<table, order, flights, forgotten, runs>>,
             \A o \in Ops : pc'[o] \in {"start", "record"} <=> pc[o] \in {"start", "record"},
             \A o \in Ops : pc[o] = "record" => pc'[o] = "record"
      PROVE  RegInv'
  BY <1>0, <1>1, <1>2, <1>3 DEF RegInv
<1>4. ASSUME NEW p \in Ops, NEW r \in Offered[p], Issue(p, r) PROVE RegInv'
  BY <1>0, <1>3, <1>4 DEF Issue, Goto
<1>5. ASSUME NEW p \in Ops, WithControl(p) PROVE RegInv'
  BY <1>0, <1>3, <1>5 DEF WithControl, Return, Goto
<1>6. ASSUME NEW p \in Ops, CommitFenced(p) PROVE RegInv'
  BY <1>0, <1>3, <1>6 DEF CommitFenced, Return, Goto, Unlock
<1>7. ASSUME NEW p \in Ops, CommitRefused(p) PROVE RegInv'
  BY <1>0, <1>3, <1>7 DEF CommitRefused, Return, Goto, Unlock
<1>8. ASSUME NEW p \in Ops, SubmitHit(p) PROVE RegInv'
  BY <1>0, <1>3, <1>8 DEF SubmitHit, Return, Goto, Unlock
<1>9. ASSUME NEW p \in Ops, SubmitJoin(p) PROVE RegInv'
  BY <1>0, <1>3, <1>9 DEF SubmitJoin, Return, Goto, Unlock
<1>10. ASSUME NEW p \in Ops, JoinReturns(p) PROVE RegInv'
  BY <1>0, <1>3, <1>10 DEF JoinReturns, Return, Goto, Unlock
<1>11. ASSUME NEW p \in Ops, Land(p) PROVE RegInv'
  BY <1>0, <1>3, <1>11 DEF Land, Return, Goto, Unlock
<1>12. ASSUME NEW p \in Ops, Subscribe(p) PROVE RegInv'
  BY <1>0, <1>3, <1>12 DEF Subscribe, Return, Goto
<1>13. ASSUME NEW p \in Ops, Install(p) PROVE RegInv'
  BY <1>0, <1>3, <1>13 DEF Install, Return, Goto
<1>14. ASSUME NEW p \in Ops, Acquire(p) PROVE RegInv'
  BY <1>0, <1>3, <1>14 DEF Acquire, Goto
<1>15. ASSUME NEW p \in Ops, Exchange(p) PROVE RegInv'
  BY <1>0, <1>3, <1>15 DEF Exchange, Return, Goto
<1>16. ASSUME NEW p \in Ops, PumpEnds(p) PROVE RegInv'
  BY <1>0, <1>3, <1>16 DEF PumpEnds
<1>17. ASSUME NEW p \in Ops, Remove(p) PROVE RegInv'
  BY <1>0, <1>3, <1>17 DEF Remove, Goto
<1>18. ASSUME NEW p \in Ops, Release(p) PROVE RegInv'
  BY <1>0, <1>3, <1>18 DEF Release, Goto
<1>19. ASSUME NEW p \in Ops, StopRemoved(p) PROVE RegInv'
  BY <1>0, <1>3, <1>19 DEF StopRemoved, Return, Goto
<1>20. ASSUME NEW p \in Ops, SubmitLead(p) PROVE RegInv'
  BY <1>0, <1>1, <1>2, <1>20 DEF SubmitLead, Goto, RegInv, Submitting
<1>21. ASSUME NEW p \in Ops, StartAccepted(p) PROVE RegInv'
  BY <1>0, <1>1, <1>2, <1>21 DEF StartAccepted, Goto, RegInv, Submitting
<1>22. ASSUME NEW p \in Ops, StartRefused(p) PROVE RegInv'
  BY <1>0, <1>1, <1>2, <1>22 DEF StartRefused, Goto, RegInv, Submitting
<1>23. ASSUME NEW p \in Ops, RecordResult(p) PROVE RegInv'
  <2>1. /\ Key(p) \in Keys /\ flights[Key(p)] = p /\ table[Key(p)] = NoOp
        /\ pc[p] = "record" /\ pc' = [pc EXCEPT ![p] = "land"]
        /\ flights' = [flights EXCEPT ![Key(p)] = NoOp]
        /\ UNCHANGED <<req, runs>> /\ req[p].kind = "start"
    BY <1>0, <1>2, <1>23 DEF RecordResult, Goto, RegInv, Submitting, PlaceInv
  <2>2. CASE outcome[p] = p
    <3>1. /\ p \in runs /\ Recorded(Key(p), p)
      BY <1>23, <2>2 DEF RecordResult, AnswerInv
    <3>2. /\ order' \in Seq(Keys)
          /\ table' \in [Keys -> Ops \cup {NoOp}]
          /\ forgotten \subseteq forgotten' /\ forgotten' \subseteq Ops
          /\ table'[Key(p)] = p
          /\ \A q \in Keys : q # Key(p) =>
                \/ table'[q] = table[q]
                \/ table'[q] = NoOp /\ table[q] \in forgotten'
          /\ \A i \in 1..Len(order') : table'[order'[i]] # NoOp
          /\ \A i, j \in 1..Len(order') : order'[i] = order'[j] => i = j
      BY ONLY <2>1, <3>1, RecordedEffect, TypeOK, RegInv, p \in Ops
    <3>3. (/\ \A o \in Ops : pc[o] \in {"start", "record"} => flights[Key(o)] = o
           /\ \A k \in Keys : flights[k] # NoOp =>
                /\ pc[flights[k]] \in {"start", "record"}
                /\ Key(flights[k]) = k /\ table[k] = NoOp)'
      BY <1>0, <1>1, <1>2, <2>1, <3>2 DEF RegInv, Submitting
    <3>4. (\A k \in Keys : table[k] # NoOp =>
             table[k] \in runs /\ Key(table[k]) = k /\ req[table[k]].kind = "start")'
      BY <1>0, <1>1, <1>2, <2>1, <3>1, <3>2 DEF RegInv
    <3>5. (\A o \in runs : o \in forgotten \/ table[Key(o)] = o \/ pc[o] = "record")'
      BY <1>0, <1>1, <1>2, <2>1, <3>1, <3>2 DEF RegInv
    <3> QED BY <3>2, <3>3, <3>4, <3>5 DEF RegInv
  <2>3. CASE outcome[p] # p
    <3>1. p \notin runs /\ UNCHANGED <<table, order, forgotten>>
      BY <1>23, <2>3 DEF RecordResult, AnswerInv
    <3> QED BY <1>0, <1>1, <1>2, <2>1, <3>1 DEF RegInv, Submitting
  <2> QED BY <2>2, <2>3
<1>24. ASSUME \/ \E s \in Sessions : RunEnds(s)
              \/ \E c \in Leavers : CloseBegin(c) \/ Close(c)
       PROVE  RegInv'
  BY <1>3, <1>24 DEF RunEnds, CloseBegin, Close, CloseStop, CloseRelease, CloseEnd
<1> QED BY <1>4, <1>5, <1>6, <1>7, <1>8, <1>9, <1>10, <1>11, <1>12, <1>13, <1>14, <1>15, <1>16,
           <1>17, <1>18, <1>19, <1>20, <1>21, <1>22, <1>23, <1>24 DEF Next, Serve

(* Every step keeps the types.                                             *)
LEMMA TypeStep == TypeOK /\ PlaceInv /\ RegInv /\ AnswerInv /\ Next => TypeOK'
<1> SUFFICES ASSUME TypeOK, PlaceInv, RegInv, AnswerInv, Next PROVE TypeOK'
  OBVIOUS
<1> USE DEF Labels, Errors, leaseVars, regVars, runVars, subVars, closeVars
<1>0. /\ \A o \in Ops : pc[o] # "idle" => req[o].name \in Names /\ req[o].conn \in Conns
      /\ \A o \in Ops : pc[o] \in Submitting => Key(o) \in Keys
      /\ \A o \in Ops : pump[o] # "none" => pc[o] # "idle"
  BY Fields, KeyType DEF PlaceInv, Submitting, TypeOK
<1>1. ASSUME NEW p \in Ops, NEW r \in Offered[p], Issue(p, r) PROVE TypeOK'
  BY <1>1, BoundsAssumption DEF Issue, Goto, TypeOK
<1>2. ASSUME NEW p \in Ops, WithControl(p) PROVE TypeOK'
  <2>1. pc' \in [Ops -> Labels]
    <3>1. pc \in [Ops -> Labels]
      BY DEF TypeOK
    <3> QED BY <1>0, <1>2, <3>1 DEF WithControl, Return, Goto
  <2>2. answer' \in [Ops -> Ops \cup {NoOp, "ok"} \cup Errors]
    <3>1. answer \in [Ops -> Ops \cup {NoOp, "ok"} \cup Errors]
      BY DEF TypeOK
    <3> QED BY <1>0, <1>2, <3>1 DEF WithControl, Return, Goto
  <2>3. leases' \subseteq Names
    <3>1. leases \subseteq Names
      BY DEF TypeOK
    <3> QED BY <1>0, <1>2, <3>1 DEF WithControl, Return, Goto
  <2>4. leaseMu' \in [Names -> Ops \cup {NoOp}]
    <3>1. leaseMu \in [Names -> Ops \cup {NoOp}]
      BY DEF TypeOK
    <3> QED BY <1>0, <1>2, <3>1 DEF WithControl, Return, Goto
  <2>5. UNCHANGED <<req, holder, table, order, flights, joined, landed, outcome, active, runs,
                    fenced, forgotten, hMu, closed, subs, pump, stopped, old, closePc, toStop,
                    toRelease>>
    BY <1>2 DEF WithControl, Return, Goto
  <2> QED BY <2>1, <2>2, <2>3, <2>4, <2>5 DEF TypeOK
<1>3. ASSUME NEW p \in Ops, CommitFenced(p) PROVE TypeOK'
  BY <1>0, <1>3 DEF CommitFenced, Return, Goto, Unlock, TypeOK
<1>4. ASSUME NEW p \in Ops, CommitRefused(p) PROVE TypeOK'
  BY <1>0, <1>4 DEF CommitRefused, Return, Goto, Unlock, TypeOK
<1>5. ASSUME NEW p \in Ops, SubmitHit(p) PROVE TypeOK'
  BY <1>0, <1>5 DEF SubmitHit, Return, Goto, Unlock, Submitting, TypeOK
<1>6. ASSUME NEW p \in Ops, SubmitJoin(p) PROVE TypeOK'
  <2>1. pc' \in [Ops -> Labels]
    <3>1. pc \in [Ops -> Labels]
      BY DEF TypeOK
    <3> QED BY <1>0, <1>6, <3>1 DEF SubmitJoin, Return, Goto, Unlock, Submitting
  <2>2. answer' \in [Ops -> Ops \cup {NoOp, "ok"} \cup Errors]
    <3>1. answer \in [Ops -> Ops \cup {NoOp, "ok"} \cup Errors]
      BY DEF TypeOK
    <3> QED BY <1>0, <1>6, <3>1 DEF SubmitJoin, Return, Goto, Unlock, Submitting
  <2>3. joined' \in [Ops -> Ops \cup {NoOp}]
    <3>1. joined \in [Ops -> Ops \cup {NoOp}] /\ flights \in [Keys -> Ops \cup {NoOp}]
      BY DEF TypeOK
    <3> QED BY <1>0, <1>6, <3>1 DEF SubmitJoin, Return, Goto, Unlock, Submitting
  <2>4. leaseMu' \in [Names -> Ops \cup {NoOp}]
    <3>1. leaseMu \in [Names -> Ops \cup {NoOp}]
      BY DEF TypeOK
    <3> QED BY <1>0, <1>6, <3>1 DEF SubmitJoin, Return, Goto, Unlock, Submitting
  <2>5. UNCHANGED <<req, leases, holder, table, order, flights, landed, outcome, active, runs,
                    fenced, forgotten, hMu, closed, subs, pump, stopped, old, closePc, toStop,
                    toRelease>>
    BY <1>6 DEF SubmitJoin, Return, Goto, Unlock, Submitting
  <2> QED BY <2>1, <2>2, <2>3, <2>4, <2>5 DEF TypeOK
<1>7. ASSUME NEW p \in Ops, JoinReturns(p) PROVE TypeOK'
  BY <1>0, <1>7 DEF JoinReturns, Return, Goto, Unlock, AnswerInv, TypeOK
<1>8. ASSUME NEW p \in Ops, SubmitLead(p) PROVE TypeOK'
  BY <1>0, <1>8 DEF SubmitLead, Goto, Submitting, TypeOK
<1>9. ASSUME NEW p \in Ops, StartAccepted(p) PROVE TypeOK'
  BY <1>0, <1>9 DEF StartAccepted, Goto, TypeOK
<1>10. ASSUME NEW p \in Ops, StartRefused(p) PROVE TypeOK'
  BY <1>0, <1>10 DEF StartRefused, Goto, TypeOK
<1>11. ASSUME NEW p \in Ops, RecordResult(p) PROVE TypeOK'
  <2>1. /\ table' \in [Keys -> Ops \cup {NoOp}] /\ order' \in Seq(Keys)
        /\ forgotten' \subseteq Ops
    <3>1. Key(p) \in Keys /\ table[Key(p)] = NoOp
      BY <1>0, <1>11, ControlAssumption DEF RecordResult, RegInv, Submitting
    <3>2. CASE outcome[p] = p
      <4>1. Recorded(Key(p), p)
        BY <1>11, <3>2 DEF RecordResult
      <4> QED BY <3>1, <4>1, RecordedEffect
    <3> QED BY <1>11, <3>2 DEF RecordResult, TypeOK
  <2> QED BY <1>0, <1>11, <2>1 DEF RecordResult, Goto, Submitting, TypeOK
<1>12. ASSUME NEW p \in Ops, Land(p) PROVE TypeOK'
  BY <1>0, <1>12 DEF Land, Return, Goto, Unlock, TypeOK
<1>13. ASSUME NEW p \in Ops, Subscribe(p) PROVE TypeOK'
  <2>1. pc' \in [Ops -> Labels]
    <3>1. pc \in [Ops -> Labels]
      BY DEF TypeOK
    <3> QED BY <1>0, <1>13, <3>1 DEF Subscribe, Return, Goto
  <2>2. answer' \in [Ops -> Ops \cup {NoOp, "ok"} \cup Errors]
    <3>1. answer \in [Ops -> Ops \cup {NoOp, "ok"} \cup Errors]
      BY DEF TypeOK
    <3> QED BY <1>0, <1>13, <3>1 DEF Subscribe, Return, Goto
  <2>3. pump' \in [Ops -> {"none", "made", "pumping", "ended"}]
    <3>1. pump \in [Ops -> {"none", "made", "pumping", "ended"}]
      BY DEF TypeOK
    <3> QED BY <1>0, <1>13, <3>1 DEF Subscribe, Return, Goto
  <2>4. UNCHANGED <<req, leases, holder, leaseMu, table, order, flights, joined, landed,
                    outcome, active, runs, fenced, forgotten, hMu, closed, subs, stopped, old,
                    closePc, toStop, toRelease>>
    BY <1>13 DEF Subscribe, Return, Goto
  <2> QED BY <2>1, <2>2, <2>3, <2>4 DEF TypeOK
<1>14. ASSUME NEW p \in Ops, Install(p) PROVE TypeOK'
  <2>1. pc' \in [Ops -> Labels]
    <3>1. pc \in [Ops -> Labels]
      BY DEF TypeOK
    <3> QED BY <1>0, <1>14, <3>1 DEF Install, Return, Goto
  <2>2. answer' \in [Ops -> Ops \cup {NoOp, "ok"} \cup Errors]
    <3>1. answer \in [Ops -> Ops \cup {NoOp, "ok"} \cup Errors]
      BY DEF TypeOK
    <3> QED BY <1>0, <1>14, <3>1 DEF Install, Return, Goto
  <2>3. pump' \in [Ops -> {"none", "made", "pumping", "ended"}]
    <3>1. pump \in [Ops -> {"none", "made", "pumping", "ended"}]
      BY DEF TypeOK
    <3> QED BY <1>0, <1>14, <3>1 DEF Install, Return, Goto
  <2>4. subs' \in [Conns -> [Names -> Ops \cup {NoOp}]]
    <3>1. subs \in [Conns -> [Names -> Ops \cup {NoOp}]]
      BY DEF TypeOK
    <3> QED BY <1>0, <1>14, <3>1 DEF Install, Return, Goto
  <2>5. old' \in [Ops -> Ops \cup {NoOp}]
    <3>1. old \in [Ops -> Ops \cup {NoOp}] /\ subs \in [Conns -> [Names -> Ops \cup {NoOp}]]
      BY DEF TypeOK
    <3> QED BY <1>0, <1>14, <3>1 DEF Install, Return, Goto
  <2>6. hMu' \in [Conns -> Ops \cup {NoOp}]
    <3>1. hMu \in [Conns -> Ops \cup {NoOp}]
      BY DEF TypeOK
    <3> QED BY <1>0, <1>14, <3>1 DEF Install, Return, Goto
  <2>7. UNCHANGED <<req, leases, holder, leaseMu, table, order, flights, joined, landed,
                    outcome, active, runs, fenced, forgotten, closed, stopped, closePc, toStop,
                    toRelease>>
    BY <1>14 DEF Install, Return, Goto
  <2> QED BY <2>1, <2>2, <2>3, <2>4, <2>5, <2>6, <2>7 DEF TypeOK
<1>15. ASSUME NEW p \in Ops, Acquire(p) PROVE TypeOK'
  BY <1>0, <1>15 DEF Acquire, Goto, TypeOK
<1>16. ASSUME NEW p \in Ops, Exchange(p) PROVE TypeOK'
  BY <1>0, <1>16 DEF Exchange, Return, Goto, TypeOK
<1>17. ASSUME NEW p \in Ops, PumpEnds(p) PROVE TypeOK'
  BY <1>0, <1>17 DEF PumpEnds, TypeOK
<1>18. ASSUME NEW p \in Ops, Remove(p) PROVE TypeOK'
  <2>1. pc' \in [Ops -> Labels]
    <3>1. pc \in [Ops -> Labels]
      BY DEF TypeOK
    <3> QED BY <1>0, <1>18, <3>1 DEF Remove, Goto
  <2>2. subs' \in [Conns -> [Names -> Ops \cup {NoOp}]]
    <3>1. subs \in [Conns -> [Names -> Ops \cup {NoOp}]]
      BY DEF TypeOK
    <3> QED BY <1>0, <1>18, <3>1 DEF Remove, Goto
  <2>3. old' \in [Ops -> Ops \cup {NoOp}]
    <3>1. old \in [Ops -> Ops \cup {NoOp}] /\ subs \in [Conns -> [Names -> Ops \cup {NoOp}]]
      BY DEF TypeOK
    <3> QED BY <1>0, <1>18, <3>1 DEF Remove, Goto
  <2>4. hMu' \in [Conns -> Ops \cup {NoOp}]
    <3>1. hMu \in [Conns -> Ops \cup {NoOp}]
      BY DEF TypeOK
    <3> QED BY <1>0, <1>18, <3>1 DEF Remove, Goto
  <2>5. UNCHANGED <<req, answer, leases, holder, leaseMu, table, order, flights, joined, landed,
                    outcome, active, runs, fenced, forgotten, closed, pump, stopped, closePc,
                    toStop, toRelease>>
    BY <1>18 DEF Remove, Goto
  <2> QED BY <2>1, <2>2, <2>3, <2>4, <2>5 DEF TypeOK
<1>19. ASSUME NEW p \in Ops, Release(p) PROVE TypeOK'
  BY <1>0, <1>19 DEF Release, Goto, TypeOK
<1>20. ASSUME NEW p \in Ops, StopRemoved(p) PROVE TypeOK'
  BY <1>0, <1>20 DEF StopRemoved, Return, Goto, TypeOK
<1>21. ASSUME NEW c \in Conns, CloseBegin(c) PROVE TypeOK'
  <2>1. closed' \in [Conns -> BOOLEAN]
    <3>1. closed \in [Conns -> BOOLEAN]
      BY DEF TypeOK
    <3> QED BY <1>21, <3>1 DEF CloseBegin
  <2>2. toStop' \in [Conns -> SUBSET Ops]
    <3>1. toStop \in [Conns -> SUBSET Ops] /\ subs \in [Conns -> [Names -> Ops \cup {NoOp}]]
      BY DEF TypeOK
    <3> QED BY <1>21, <3>1 DEF CloseBegin
  <2>3. subs' \in [Conns -> [Names -> Ops \cup {NoOp}]]
    <3>1. subs \in [Conns -> [Names -> Ops \cup {NoOp}]]
      BY DEF TypeOK
    <3> QED BY <1>21, <3>1 DEF CloseBegin
  <2>4. closePc' \in [Conns -> {"open", "stop", "release", "gone"}]
    <3>1. closePc \in [Conns -> {"open", "stop", "release", "gone"}]
      BY DEF TypeOK
    <3> QED BY <1>21, <3>1 DEF CloseBegin
  <2>5. UNCHANGED <<req, pc, answer, leases, holder, leaseMu, table, order, flights, joined,
                    landed, outcome, active, runs, fenced, forgotten, hMu, pump, stopped, old,
                    toRelease>>
    BY <1>21 DEF CloseBegin
  <2> QED BY <2>1, <2>2, <2>3, <2>4, <2>5 DEF TypeOK
<1>22. ASSUME NEW c \in Conns, CloseStop(c) PROVE TypeOK'
  <2>1. stopped' \subseteq Ops
    <3>1. stopped \subseteq Ops /\ toStop \in [Conns -> SUBSET Ops]
      BY DEF TypeOK
    <3> QED BY <1>22, <3>1 DEF CloseStop
  <2>2. toStop' \in [Conns -> SUBSET Ops]
    <3>1. toStop \in [Conns -> SUBSET Ops]
      BY DEF TypeOK
    <3> QED BY <1>22, <3>1 DEF CloseStop
  <2>3. toRelease' \in [Conns -> SUBSET Names]
    <3>1. toRelease \in [Conns -> SUBSET Names] /\ leases \subseteq Names
      BY DEF TypeOK
    <3> QED BY <1>22, <3>1 DEF CloseStop
  <2>4. closePc' \in [Conns -> {"open", "stop", "release", "gone"}]
    <3>1. closePc \in [Conns -> {"open", "stop", "release", "gone"}]
      BY DEF TypeOK
    <3> QED BY <1>22, <3>1 DEF CloseStop
  <2>5. UNCHANGED <<req, pc, answer, leases, holder, leaseMu, table, order, flights, joined,
                    landed, outcome, active, runs, fenced, forgotten, hMu, closed, subs, pump,
                    old>>
    BY <1>22 DEF CloseStop
  <2> QED BY <2>1, <2>2, <2>3, <2>4, <2>5 DEF TypeOK
<1>23. ASSUME NEW c \in Conns, CloseEnd(c) PROVE TypeOK'
  <2>1. closePc' \in [Conns -> {"open", "stop", "release", "gone"}]
    <3>1. closePc \in [Conns -> {"open", "stop", "release", "gone"}]
      BY DEF TypeOK
    <3> QED BY <1>23, <3>1 DEF CloseEnd
  <2>2. UNCHANGED <<req, pc, answer, leases, holder, leaseMu, table, order, flights, joined,
                    landed, outcome, active, runs, fenced, forgotten, hMu, closed, subs, pump,
                    stopped, old, toStop, toRelease>>
    BY <1>23 DEF CloseEnd
  <2> QED BY <2>1, <2>2 DEF TypeOK
<1>24. ASSUME NEW c \in Conns, NEW m \in Names, CloseRelease(c, m) PROVE TypeOK'
  <2>1. holder' \in [Names -> Conns \cup {NoConn}]
    <3>1. holder \in [Names -> Conns \cup {NoConn}]
      BY DEF TypeOK
    <3> QED BY <1>24, <3>1 DEF CloseRelease
  <2>2. toRelease' \in [Conns -> SUBSET Names]
    <3>1. toRelease \in [Conns -> SUBSET Names]
      BY DEF TypeOK
    <3> QED BY <1>24, <3>1 DEF CloseRelease
  <2>3. UNCHANGED <<req, pc, answer, leases, leaseMu, table, order, flights, joined, landed,
                    outcome, active, runs, fenced, forgotten, hMu, closed, subs, pump, stopped,
                    old, closePc, toStop>>
    BY <1>24 DEF CloseRelease
  <2> QED BY <2>1, <2>2, <2>3 DEF TypeOK
<1>25. ASSUME NEW s \in Sessions, RunEnds(s) PROVE TypeOK'
  <2>1. active' \in [Sessions -> Ops \cup {NoOp}]
    <3>1. active \in [Sessions -> Ops \cup {NoOp}]
      BY DEF TypeOK
    <3> QED BY <1>25, <3>1 DEF RunEnds
  <2>2. UNCHANGED <<req, pc, answer, leases, holder, leaseMu, table, order, flights, joined,
                    landed, outcome, runs, fenced, forgotten, hMu, closed, subs, pump, stopped,
                    old, closePc, toStop, toRelease>>
    BY <1>25 DEF RunEnds
  <2> QED BY <2>1, <2>2 DEF TypeOK
<1> QED BY <1>1, <1>2, <1>3, <1>4, <1>5, <1>6, <1>7, <1>8, <1>9, <1>10, <1>11, <1>12, <1>13,
           <1>14, <1>15, <1>16, <1>17, <1>18, <1>19, <1>20, <1>21, <1>22, <1>23, <1>24, <1>25
          , BoundsAssumption DEF Next, Serve, Close

(* Every step keeps the answers right.                                     *)
LEMMA AnswerStep == TypeOK /\ PlaceInv /\ RegInv /\ AnswerInv /\ Next => AnswerInv'
<1> SUFFICES ASSUME TypeOK, PlaceInv, RegInv, AnswerInv, Next PROVE AnswerInv'
  OBVIOUS
<1> USE DEF leaseVars, regVars, runVars, subVars, closeVars
<1>0. /\ pc \in [Ops -> Labels] /\ answer \in [Ops -> Ops \cup {NoOp, "ok"} \cup Errors]
      /\ joined \in [Ops -> Ops \cup {NoOp}] /\ outcome \in [Ops -> Ops \cup {NoOp, "failed"}]
      /\ table \in [Keys -> Ops \cup {NoOp}] /\ flights \in [Keys -> Ops \cup {NoOp}]
      /\ runs \subseteq Ops /\ Ops \cap ({NoOp, "ok"} \cup Errors) = {}
  BY ControlAssumption DEF TypeOK
<1>1. \A o \in Ops : pc[o] # "idle" => Key(o)' = Key(o) /\ req'[o] = req[o] /\ pc'[o] # "idle"
  BY RequestStable DEF Key
<1>2. /\ \A o \in runs : pc[o] # "idle"
      /\ \A o \in Ops : pc[o] \in Submitting => Key(o) \in Keys
  BY <1>0, KeyType DEF PlaceInv, Submitting
<1>3. ASSUME UNCHANGED <<outcome, runs, joined>>,
             \A o \in Ops : pc'[o] \in {"start", "record", "join"} => pc'[o] = pc[o],
             \A o \in Ops : pc'[o] = "returned" =>
                 (pc[o] = "returned" /\ answer'[o] = answer[o]) \/ answer'[o] \notin Ops,
             \A o \in Ops : pc[o] \in {"record", "land", "returned"} => pc'[o] = pc[o]
      PROVE  AnswerInv'
  BY <1>0, <1>1, <1>2, <1>3 DEF AnswerInv
<1>4. ASSUME NEW p \in Ops, NEW r \in Offered[p], Issue(p, r) PROVE AnswerInv'
  BY <1>0, <1>3, <1>4 DEF Issue, Goto
<1>5. ASSUME NEW p \in Ops, WithControl(p) PROVE AnswerInv'
  BY <1>0, <1>3, <1>5 DEF WithControl, Return, Goto, Errors
<1>6. ASSUME NEW p \in Ops, CommitFenced(p) PROVE AnswerInv'
  BY <1>0, <1>3, <1>6 DEF CommitFenced, Return, Goto, Unlock, Errors
<1>7. ASSUME NEW p \in Ops, CommitRefused(p) PROVE AnswerInv'
  BY <1>0, <1>3, <1>7 DEF CommitRefused, Return, Goto, Unlock, Errors
<1>8. ASSUME NEW p \in Ops, Subscribe(p) PROVE AnswerInv'
  BY <1>0, <1>3, <1>8 DEF Subscribe, Return, Goto, Errors
<1>9. ASSUME NEW p \in Ops, Install(p) PROVE AnswerInv'
  BY <1>0, <1>3, <1>9 DEF Install, Return, Goto, Errors
<1>10. ASSUME NEW p \in Ops, Acquire(p) PROVE AnswerInv'
  BY <1>0, <1>3, <1>10 DEF Acquire, Goto
<1>11. ASSUME NEW p \in Ops, Exchange(p) PROVE AnswerInv'
  BY <1>0, <1>3, <1>11 DEF Exchange, Return, Goto, Errors
<1>12. ASSUME NEW p \in Ops, PumpEnds(p) PROVE AnswerInv'
  BY <1>0, <1>3, <1>12 DEF PumpEnds
<1>13. ASSUME NEW p \in Ops, Remove(p) PROVE AnswerInv'
  BY <1>0, <1>3, <1>13 DEF Remove, Goto
<1>14. ASSUME NEW p \in Ops, Release(p) PROVE AnswerInv'
  BY <1>0, <1>3, <1>14 DEF Release, Goto
<1>15. ASSUME NEW p \in Ops, StopRemoved(p) PROVE AnswerInv'
  BY <1>0, <1>3, <1>15 DEF StopRemoved, Return, Goto, Errors
<1>16. ASSUME NEW p \in Ops, SubmitHit(p) PROVE AnswerInv'
  BY <1>0, <1>1, <1>2, <1>16 DEF SubmitHit, Return, Goto, Unlock, AnswerInv, RegInv, Submitting,
         Errors
<1>17. ASSUME NEW p \in Ops, SubmitJoin(p) PROVE AnswerInv'
  BY <1>0, <1>1, <1>2, <1>17 DEF SubmitJoin, Return, Goto, Unlock, AnswerInv, RegInv,
         Submitting, Errors
<1>18. ASSUME NEW p \in Ops, JoinReturns(p) PROVE AnswerInv'
  BY <1>0, <1>1, <1>2, <1>18 DEF JoinReturns, Return, Goto, Unlock, AnswerInv, RegInv,
         Submitting, Errors
<1>19. ASSUME NEW p \in Ops, SubmitLead(p) PROVE AnswerInv'
  BY <1>0, <1>1, <1>2, <1>19 DEF SubmitLead, Goto, AnswerInv, RegInv, Submitting, Errors
<1>20. ASSUME NEW p \in Ops, StartAccepted(p) PROVE AnswerInv'
  BY <1>0, <1>1, <1>2, <1>20 DEF StartAccepted, Goto, AnswerInv, RegInv, Submitting, Errors
<1>21. ASSUME NEW p \in Ops, StartRefused(p) PROVE AnswerInv'
  BY <1>0, <1>1, <1>2, <1>21 DEF StartRefused, Goto, AnswerInv, RegInv, Submitting, Errors
<1>22. ASSUME NEW p \in Ops, RecordResult(p) PROVE AnswerInv'
  BY <1>0, <1>1, <1>2, <1>22 DEF RecordResult, Goto, Recorded, AnswerInv, RegInv, Submitting,
         Errors
<1>23. ASSUME NEW p \in Ops, Land(p) PROVE AnswerInv'
  BY <1>0, <1>1, <1>2, <1>23 DEF Land, Return, Goto, Unlock, AnswerInv, RegInv, Submitting,
         Errors
<1>24. ASSUME \/ \E s \in Sessions : RunEnds(s)
              \/ \E c \in Leavers : CloseBegin(c) \/ Close(c)
       PROVE  AnswerInv'
  BY <1>3, <1>24 DEF RunEnds, CloseBegin, Close, CloseStop, CloseRelease, CloseEnd
<1> QED BY <1>4, <1>5, <1>6, <1>7, <1>8, <1>9, <1>10, <1>11, <1>12, <1>13, <1>14, <1>15, <1>16,
           <1>17, <1>18, <1>19, <1>20, <1>21, <1>22, <1>23, <1>24 DEF Next, Serve

(* Every step keeps the mutex and the holder of who is inside WithControl. *)
LEMMA FenceStep == TypeOK /\ PlaceInv /\ FenceInv /\ Next => FenceInv'
<1> SUFFICES ASSUME TypeOK, PlaceInv, FenceInv, Next PROVE FenceInv'
  OBVIOUS
<1> USE DEF UnderLease, Submitting, leaseVars, regVars, runVars, subVars, closeVars
<1>0. /\ pc \in [Ops -> Labels] /\ NoOp \notin Ops /\ NoConn \notin Conns
      /\ leaseMu \in [Names -> Ops \cup {NoOp}] /\ holder \in [Names -> Conns \cup {NoConn}]
  BY ControlAssumption DEF TypeOK
<1>1. \A o \in Ops : pc[o] # "idle" =>
        req'[o] = req[o] /\ req[o].name \in Names /\ req[o].conn \in Conns
  BY RequestStable, Fields DEF PlaceInv
<1>2. ASSUME UNCHANGED <<leaseMu, holder>>,
             \A o \in Ops : pc'[o] \in UnderLease => pc[o] \in UnderLease
      PROVE  FenceInv'
  BY <1>0, <1>1, <1>2 DEF FenceInv
<1>3. ASSUME NEW p \in Ops, pc[p] \in UnderLease, Unlock(p), holder' = holder, Goto(p, "returned")
      PROVE  FenceInv'
  BY <1>0, <1>1, <1>3 DEF FenceInv, Unlock, Goto
<1>4. ASSUME NEW p \in Ops, NEW r \in Offered[p], Issue(p, r) PROVE FenceInv'
  BY <1>0, <1>2, <1>4 DEF Issue, Goto
<1>5. ASSUME NEW p \in Ops, WithControl(p) PROVE FenceInv'
  BY <1>0, <1>1, <1>5 DEF WithControl, Return, Goto, FenceInv
<1>6. ASSUME NEW p \in Ops, CommitFenced(p) PROVE FenceInv'
  BY <1>0, <1>3, <1>6 DEF CommitFenced, Return
<1>7. ASSUME NEW p \in Ops, CommitRefused(p) PROVE FenceInv'
  BY <1>0, <1>3, <1>7 DEF CommitRefused, Return
<1>8. ASSUME NEW p \in Ops, SubmitHit(p) PROVE FenceInv'
  BY <1>0, <1>3, <1>8 DEF SubmitHit, Return
<1>9. ASSUME NEW p \in Ops, SubmitJoin(p) PROVE FenceInv'
  BY <1>0, <1>2, <1>3, <1>9 DEF SubmitJoin, Return, Goto
<1>10. ASSUME NEW p \in Ops, JoinReturns(p) PROVE FenceInv'
  BY <1>0, <1>3, <1>10 DEF JoinReturns, Return
<1>11. ASSUME NEW p \in Ops, SubmitLead(p) PROVE FenceInv'
  BY <1>0, <1>2, <1>11 DEF SubmitLead, Goto
<1>12. ASSUME NEW p \in Ops, StartAccepted(p) PROVE FenceInv'
  BY <1>0, <1>2, <1>12 DEF StartAccepted, Goto
<1>13. ASSUME NEW p \in Ops, StartRefused(p) PROVE FenceInv'
  BY <1>0, <1>2, <1>13 DEF StartRefused, Goto
<1>14. ASSUME NEW p \in Ops, RecordResult(p) PROVE FenceInv'
  BY <1>0, <1>2, <1>14 DEF RecordResult, Goto
<1>15. ASSUME NEW p \in Ops, Land(p) PROVE FenceInv'
  BY <1>0, <1>3, <1>15 DEF Land, Return
<1>16. ASSUME NEW p \in Ops, Subscribe(p) PROVE FenceInv'
  BY <1>0, <1>2, <1>16 DEF Subscribe, Return, Goto
<1>17. ASSUME NEW p \in Ops, Install(p) PROVE FenceInv'
  BY <1>0, <1>2, <1>17 DEF Install, Return, Goto
<1>18. ASSUME NEW p \in Ops, Acquire(p) PROVE FenceInv'
  BY <1>0, <1>1, <1>18 DEF Acquire, Goto, FenceInv
<1>19. ASSUME NEW p \in Ops, Exchange(p) PROVE FenceInv'
  BY <1>0, <1>2, <1>19 DEF Exchange, Return, Goto
<1>20. ASSUME NEW p \in Ops, PumpEnds(p) PROVE FenceInv'
  BY <1>0, <1>2, <1>20 DEF PumpEnds
<1>21. ASSUME NEW p \in Ops, Remove(p) PROVE FenceInv'
  BY <1>0, <1>2, <1>21 DEF Remove, Goto
<1>22. ASSUME NEW p \in Ops, Release(p) PROVE FenceInv'
  BY <1>0, <1>1, <1>22 DEF Release, Goto, FenceInv
<1>23. ASSUME NEW p \in Ops, StopRemoved(p) PROVE FenceInv'
  BY <1>0, <1>2, <1>23 DEF StopRemoved, Return, Goto
<1>24. ASSUME NEW c \in Leavers, NEW m \in Names, CloseRelease(c, m) PROVE FenceInv'
  BY <1>0, <1>1, <1>24 DEF CloseRelease, FenceInv
<1>25. ASSUME \/ \E s \in Sessions : RunEnds(s)
              \/ \E c \in Leavers : CloseBegin(c) \/ CloseStop(c) \/ CloseEnd(c)
       PROVE  FenceInv'
  BY <1>2, <1>25 DEF RunEnds, CloseBegin, CloseStop, CloseEnd
<1> QED BY <1>4, <1>5, <1>6, <1>7, <1>8, <1>9, <1>10, <1>11, <1>12, <1>13, <1>14, <1>15, <1>16,
           <1>17, <1>18, <1>19, <1>20, <1>21, <1>22, <1>23, <1>24, <1>25 DEF Next, Serve, Close

(* Every step keeps the closed barrier.                                    *)
LEMMA CloseStepInv == TypeOK /\ PlaceInv /\ CloseInv /\ Next => CloseInv'
<1> SUFFICES ASSUME TypeOK, PlaceInv, CloseInv, Next PROVE CloseInv'
  OBVIOUS
<1> USE DEF leaseVars, regVars, runVars, subVars, closeVars
<1>0. /\ pc \in [Ops -> Labels] /\ NoOp \notin Ops /\ NoConn \notin Conns
      /\ leases \subseteq Names /\ holder \in [Names -> Conns \cup {NoConn}]
      /\ hMu \in [Conns -> Ops \cup {NoOp}] /\ closed \in [Conns -> BOOLEAN]
      /\ closePc \in [Conns -> {"open", "stop", "release", "gone"}]
      /\ toRelease \in [Conns -> SUBSET Names]
  BY ControlAssumption DEF TypeOK
<1>1. \A o \in Ops : pc[o] # "idle" =>
        req'[o] = req[o] /\ req[o].name \in Names /\ req[o].conn \in Conns
  BY RequestStable, Fields DEF PlaceInv
<1>2. ASSUME UNCHANGED <<holder, hMu, closed, closePc, toRelease>>, leases \subseteq leases',
             \A o \in Ops : pc'[o] \in {"acquire", "release"} => pc'[o] = pc[o]
      PROVE  CloseInv'
  BY <1>0, <1>1, <1>2 DEF CloseInv
<1>3. ASSUME NEW p \in Ops, NEW r \in Offered[p], Issue(p, r) PROVE CloseInv'
  BY <1>0, <1>2, <1>3 DEF Issue, Goto
<1>4. ASSUME NEW p \in Ops, WithControl(p) PROVE CloseInv'
  BY <1>0, <1>2, <1>4 DEF WithControl, Return, Goto
<1>5. ASSUME NEW p \in Ops, CommitFenced(p) PROVE CloseInv'
  BY <1>0, <1>2, <1>5 DEF CommitFenced, Return, Goto, Unlock
<1>6. ASSUME NEW p \in Ops, CommitRefused(p) PROVE CloseInv'
  BY <1>0, <1>2, <1>6 DEF CommitRefused, Return, Goto, Unlock
<1>7. ASSUME NEW p \in Ops, SubmitHit(p) PROVE CloseInv'
  BY <1>0, <1>2, <1>7 DEF SubmitHit, Return, Goto, Unlock
<1>8. ASSUME NEW p \in Ops, SubmitJoin(p) PROVE CloseInv'
  BY <1>0, <1>2, <1>8 DEF SubmitJoin, Return, Goto, Unlock
<1>9. ASSUME NEW p \in Ops, JoinReturns(p) PROVE CloseInv'
  BY <1>0, <1>2, <1>9 DEF JoinReturns, Return, Goto, Unlock
<1>10. ASSUME NEW p \in Ops, SubmitLead(p) PROVE CloseInv'
  BY <1>0, <1>2, <1>10 DEF SubmitLead, Goto
<1>11. ASSUME NEW p \in Ops, StartAccepted(p) PROVE CloseInv'
  BY <1>0, <1>2, <1>11 DEF StartAccepted, Goto
<1>12. ASSUME NEW p \in Ops, StartRefused(p) PROVE CloseInv'
  BY <1>0, <1>2, <1>12 DEF StartRefused, Goto
<1>13. ASSUME NEW p \in Ops, RecordResult(p) PROVE CloseInv'
  BY <1>0, <1>2, <1>13 DEF RecordResult, Goto
<1>14. ASSUME NEW p \in Ops, Land(p) PROVE CloseInv'
  BY <1>0, <1>2, <1>14 DEF Land, Return, Goto, Unlock
<1>15. ASSUME NEW p \in Ops, Subscribe(p) PROVE CloseInv'
  BY <1>0, <1>2, <1>15 DEF Subscribe, Return, Goto
<1>16. ASSUME NEW p \in Ops, Install(p) PROVE CloseInv'
  BY <1>0, <1>1, <1>16 DEF Install, Return, Goto, CloseInv
<1>17. ASSUME NEW p \in Ops, Acquire(p) PROVE CloseInv'
  BY <1>0, <1>1, <1>17 DEF Acquire, Goto, CloseInv
<1>18. ASSUME NEW p \in Ops, Exchange(p) PROVE CloseInv'
  BY <1>0, <1>2, <1>18 DEF Exchange, Return, Goto
<1>19. ASSUME NEW p \in Ops, PumpEnds(p) PROVE CloseInv'
  BY <1>0, <1>2, <1>19 DEF PumpEnds
<1>20. ASSUME NEW p \in Ops, Remove(p) PROVE CloseInv'
  BY <1>0, <1>1, <1>20 DEF Remove, Goto, CloseInv
<1>21. ASSUME NEW p \in Ops, Release(p) PROVE CloseInv'
  BY <1>0, <1>1, <1>21 DEF Release, Goto, CloseInv
<1>22. ASSUME NEW p \in Ops, StopRemoved(p) PROVE CloseInv'
  BY <1>0, <1>2, <1>22 DEF StopRemoved, Return, Goto
<1>23. ASSUME NEW c \in Conns, CloseBegin(c) PROVE CloseInv'
  BY <1>0, <1>1, <1>23 DEF CloseBegin, CloseInv
<1>24. ASSUME NEW c \in Conns, CloseStop(c) PROVE CloseInv'
  BY <1>0, <1>1, <1>24 DEF CloseStop, CloseInv
<1>25. ASSUME NEW c \in Conns, CloseEnd(c) PROVE CloseInv'
  BY <1>0, <1>1, <1>25 DEF CloseEnd, CloseInv
<1>26. ASSUME NEW c \in Conns, NEW m \in Names, CloseRelease(c, m) PROVE CloseInv'
  BY <1>0, <1>1, <1>26 DEF CloseRelease, CloseInv
<1>27. ASSUME NEW s \in Sessions, RunEnds(s) PROVE CloseInv'
  BY <1>2, <1>27 DEF RunEnds
<1> QED BY <1>3, <1>4, <1>5, <1>6, <1>7, <1>8, <1>9, <1>10, <1>11, <1>12, <1>13, <1>14, <1>15,
           <1>16, <1>17, <1>18, <1>19, <1>20, <1>21, <1>22, <1>23, <1>24, <1>25, <1>26, <1>27,
           BoundsAssumption DEF Next, Serve, Close

(* Every step keeps the entries of the subscription tables.                *)
LEMMA SubStep == TypeOK /\ PlaceInv /\ CloseInv /\ SubInv /\ Next => SubInv'
<1> SUFFICES ASSUME TypeOK, PlaceInv, CloseInv, SubInv, Next PROVE SubInv'
  OBVIOUS
<1> USE DEF Detaching, leaseVars, regVars, runVars, subVars, closeVars
<1>0. /\ pc \in [Ops -> Labels] /\ NoOp \notin Ops
      /\ subs \in [Conns -> [Names -> Ops \cup {NoOp}]]
      /\ pump \in [Ops -> {"none", "made", "pumping", "ended"}]
      /\ closed \in [Conns -> BOOLEAN] /\ toStop \in [Conns -> SUBSET Ops]
      /\ closePc \in [Conns -> {"open", "stop", "release", "gone"}]
  BY ControlAssumption DEF TypeOK
<1>1. \A o \in Ops : pc[o] # "idle" =>
        req'[o] = req[o] /\ req[o].name \in Names /\ req[o].conn \in Conns
  BY RequestStable, Fields DEF PlaceInv
<1>a. \A c \in Conns, n \in Names : subs[c][n] # NoOp =>
        /\ subs[c][n] \in Ops
        /\ pc[subs[c][n]] \in {"acquire", "exchange", "returned"}
        /\ req'[subs[c][n]] = req[subs[c][n]]
  BY <1>0, <1>1 DEF SubInv, EntryInv
<1>2. ASSUME UNCHANGED <<subs, pump, closed, closePc, toStop>>,
             \A o \in Ops : pc'[o] # pc[o] =>
                 pc[o] \in UnderLease \cup {"lock"} /\ pc'[o] \in UnderLease \cup {"returned"}
      PROVE  SubInv'
  <2>1. EntryInv'
    BY <1>a, <1>2 DEF SubInv, EntryInv, UnderLease, Submitting
  <2> QED BY <1>0, <1>2, <2>1 DEF SubInv, UnderLease, Submitting
<1>3. ASSUME NEW p \in Ops, NEW r \in Offered[p], Issue(p, r) PROVE SubInv'
  BY <1>0, <1>1, <1>a, <1>3 DEF Issue, Goto, SubInv, EntryInv, PlaceInv
<1>4. ASSUME NEW p \in Ops, WithControl(p) PROVE SubInv'
  BY <1>0, <1>2, <1>4 DEF WithControl, Return, Goto, UnderLease, Submitting
<1>5. ASSUME NEW p \in Ops, CommitFenced(p) PROVE SubInv'
  BY <1>0, <1>2, <1>5 DEF CommitFenced, Return, Goto, Unlock, UnderLease, Submitting
<1>6. ASSUME NEW p \in Ops, CommitRefused(p) PROVE SubInv'
  BY <1>0, <1>2, <1>6 DEF CommitRefused, Return, Goto, Unlock, UnderLease, Submitting
<1>7. ASSUME NEW p \in Ops, SubmitHit(p) PROVE SubInv'
  BY <1>0, <1>2, <1>7 DEF SubmitHit, Return, Goto, Unlock, UnderLease, Submitting
<1>8. ASSUME NEW p \in Ops, SubmitJoin(p) PROVE SubInv'
  BY <1>0, <1>2, <1>8 DEF SubmitJoin, Return, Goto, Unlock, UnderLease, Submitting
<1>9. ASSUME NEW p \in Ops, JoinReturns(p) PROVE SubInv'
  BY <1>0, <1>2, <1>9 DEF JoinReturns, Return, Goto, Unlock, UnderLease, Submitting
<1>10. ASSUME NEW p \in Ops, SubmitLead(p) PROVE SubInv'
  BY <1>0, <1>2, <1>10 DEF SubmitLead, Goto, UnderLease, Submitting
<1>11. ASSUME NEW p \in Ops, StartAccepted(p) PROVE SubInv'
  BY <1>0, <1>2, <1>11 DEF StartAccepted, Goto, UnderLease, Submitting
<1>12. ASSUME NEW p \in Ops, StartRefused(p) PROVE SubInv'
  BY <1>0, <1>2, <1>12 DEF StartRefused, Goto, UnderLease, Submitting
<1>13. ASSUME NEW p \in Ops, RecordResult(p) PROVE SubInv'
  BY <1>0, <1>2, <1>13 DEF RecordResult, Goto, UnderLease, Submitting
<1>14. ASSUME NEW p \in Ops, Land(p) PROVE SubInv'
  BY <1>0, <1>2, <1>14 DEF Land, Return, Goto, Unlock, UnderLease, Submitting
<1>15. ASSUME NEW p \in Ops, Subscribe(p) PROVE SubInv'
  <2>1. /\ pc[p] = "subscribe" /\ UNCHANGED <<subs, closed, closePc, toStop>>
        /\ \/ pump' = [pump EXCEPT ![p] = "made"] /\ pc' = [pc EXCEPT ![p] = "install"]
           \/ pump' = pump /\ pc' = [pc EXCEPT ![p] = "returned"]
    BY <1>15 DEF Subscribe, Return, Goto
  <2>2. EntryInv'
    BY <1>0, <1>a, <2>1 DEF SubInv, EntryInv
  <2> QED BY <1>0, <2>1, <2>2 DEF SubInv
<1>16. ASSUME NEW p \in Ops, Install(p) PROVE SubInv'
  <2>1. CASE closed[req[p].conn]
    <3>1. /\ pc[p] = "install" /\ UNCHANGED <<subs, closed, closePc, toStop>>
          /\ pump' = [pump EXCEPT ![p] = "ended"] /\ pc' = [pc EXCEPT ![p] = "returned"]
      BY <1>16, <2>1 DEF Install, Return, Goto
    <3>2. EntryInv'
      BY <1>0, <1>a, <3>1 DEF SubInv, EntryInv
    <3> QED BY <1>0, <3>1, <3>2 DEF SubInv
  <2>2. CASE ~closed[req[p].conn]
    <3>1. /\ pc[p] = "install" /\ UNCHANGED <<pump, closed, closePc, toStop>>
          /\ subs' = [subs EXCEPT ![req[p].conn][req[p].name] = p]
          /\ \E label \in {"acquire", "exchange"} : pc' = [pc EXCEPT ![p] = label]
      BY <1>16, <2>2 DEF Install, Goto
    <3>2. req'[p] = req[p] /\ req[p].kind = "attach" /\ req[p].conn \in Conns /\ req[p].name \in Names
      BY <1>1, <3>1 DEF PlaceInv, Attaching
    <3>3. \A c \in Conns, n \in Names :
            subs'[c][n] = IF c = req[p].conn /\ n = req[p].name THEN p ELSE subs[c][n]
      BY <1>0, <3>1, <3>2
    <3>4. EntryInv'
      BY <1>0, <1>a, <3>1, <3>2, <3>3 DEF SubInv, EntryInv
    <3> QED BY <1>0, <2>2, <3>1, <3>3, <3>4 DEF SubInv
  <2> QED BY <2>1, <2>2
<1>17. ASSUME NEW p \in Ops, Acquire(p) PROVE SubInv'
  <2>1. EntryInv'
    BY <1>0, <1>1, <1>a, <1>17 DEF Acquire, Goto, SubInv, EntryInv
  <2> QED BY <1>0, <1>1, <1>17, <2>1 DEF Acquire, Goto, SubInv
<1>18. ASSUME NEW p \in Ops, Exchange(p) PROVE SubInv'
  <2>1. EntryInv'
    BY <1>0, <1>1, <1>a, <1>18 DEF Exchange, Return, Goto, SubInv, EntryInv
  <2> QED BY <1>0, <1>1, <1>18, <2>1 DEF Exchange, Return, Goto, SubInv
<1>19. ASSUME NEW p \in Ops, PumpEnds(p) PROVE SubInv'
  <2>1. EntryInv'
    BY <1>0, <1>1, <1>a, <1>19 DEF PumpEnds, SubInv, EntryInv
  <2> QED BY <1>0, <1>1, <1>19, <2>1 DEF PumpEnds, SubInv
<1>20. ASSUME NEW p \in Ops, Remove(p) PROVE SubInv'
  <2>1. /\ pc[p] = "remove" /\ UNCHANGED <<pump, closed, closePc, toStop>>
        /\ subs' = [subs EXCEPT ![req[p].conn][req[p].name] = NoOp]
        /\ \E label \in {"release", "stop"} : pc' = [pc EXCEPT ![p] = label]
    BY <1>20 DEF Remove, Goto
  <2>2. \A c \in Conns, n \in Names : subs'[c][n] \in {subs[c][n], NoOp}
    BY <1>0, <1>1, <2>1
  <2>3. EntryInv'
    BY <1>0, <1>a, <2>1, <2>2 DEF SubInv, EntryInv
  <2> QED BY <1>0, <2>1, <2>2, <2>3 DEF SubInv
<1>21. ASSUME NEW p \in Ops, Release(p) PROVE SubInv'
  <2>1. EntryInv'
    BY <1>0, <1>1, <1>a, <1>21 DEF Release, Goto, SubInv, EntryInv
  <2> QED BY <1>0, <1>1, <1>21, <2>1 DEF Release, Goto, SubInv
<1>22. ASSUME NEW p \in Ops, StopRemoved(p) PROVE SubInv'
  <2>1. EntryInv'
    BY <1>0, <1>1, <1>a, <1>22 DEF StopRemoved, Return, Goto, SubInv, EntryInv
  <2> QED BY <1>0, <1>1, <1>22, <2>1 DEF StopRemoved, Return, Goto, SubInv
<1>23. ASSUME NEW c \in Conns, CloseBegin(c) PROVE SubInv'
  BY <1>0, <1>1, <1>a, <1>23 DEF CloseBegin, SubInv, EntryInv, CloseInv
<1>24. ASSUME NEW c \in Conns, CloseStop(c) PROVE SubInv'
  BY <1>0, <1>1, <1>a, <1>24 DEF CloseStop, SubInv, EntryInv, CloseInv
<1>25. ASSUME NEW c \in Conns, CloseEnd(c) PROVE SubInv'
  BY <1>0, <1>1, <1>a, <1>25 DEF CloseEnd, SubInv, EntryInv, CloseInv
<1>26. ASSUME \/ \E s \in Sessions : RunEnds(s)
              \/ \E c \in Leavers, m \in Names : CloseRelease(c, m)
       PROVE  SubInv'
  BY <1>2, <1>26 DEF RunEnds, CloseRelease
<1> QED BY <1>3, <1>4, <1>5, <1>6, <1>7, <1>8, <1>9, <1>10, <1>11, <1>12, <1>13, <1>14, <1>15,
           <1>16, <1>17, <1>18, <1>19, <1>20, <1>21, <1>22, <1>23, <1>24, <1>25, <1>26,
           BoundsAssumption DEF Next, Serve, Close

(* Who has taken a subscription out of a table and has still to stop it.   *)
Stopping == {"acquire", "exchange", "release", "stop"}

(* Whether somebody is answerable for subscription o of connection c.      *)
Accounted(c, o) ==
    \/ closePc[c] = "open" /\ subs[c][req[o].name] = o
    \/ o \in toStop[c]
    \/ \E p \in Ops : pc[p] \in Stopping /\ old[p] = o

(* Every step keeps somebody answerable for each live subscription.        *)
LEMMA OrphanStep ==
    TypeOK /\ PlaceInv /\ CloseInv /\ SubInv /\ NoOrphanSubscription /\ Next => NoOrphanSubscription'
<1> SUFFICES ASSUME TypeOK, PlaceInv, CloseInv, SubInv, NoOrphanSubscription, Next,
                    NEW d \in Conns, NEW o \in Ops, o \in Unstopped(d)'
             PROVE  Accounted(d, o)'
  BY DEF NoOrphanSubscription, Accounted, Stopping, Unstopped
<1> USE DEF leaseVars, regVars, runVars, subVars, closeVars
<1>0. /\ pc \in [Ops -> Labels] /\ NoOp \notin Ops
      /\ subs \in [Conns -> [Names -> Ops \cup {NoOp}]]
      /\ pump \in [Ops -> {"none", "made", "pumping", "ended"}]
      /\ old \in [Ops -> Ops \cup {NoOp}] /\ toStop \in [Conns -> SUBSET Ops]
      /\ closePc \in [Conns -> {"open", "stop", "release", "gone"}]
      /\ closed \in [Conns -> BOOLEAN]
  BY ControlAssumption DEF TypeOK
<1>1. \A q \in Ops : pc[q] # "idle" =>
        req'[q] = req[q] /\ req[q].name \in Names /\ req[q].conn \in Conns
  BY RequestStable, Fields DEF PlaceInv
<1>2. /\ o \notin stopped' /\ pump'[o] \in {"made", "pumping"} /\ pc'[o] # "install"
      /\ req'[o].conn = d
  BY DEF Unstopped
<1>3. ASSUME pc[o] # "idle", o \notin stopped, pump[o] \in {"made", "pumping"}, pc[o] # "install"
      PROVE  Accounted(d, o) /\ req'[o] = req[o] /\ req[o].conn = d /\ req[o].name \in Names
  <2>1. req'[o] = req[o] /\ req[o].conn = d /\ req[o].name \in Names
    BY <1>1, <1>2, <1>3
  <2>2. req[o].kind = "attach"
    BY <2>1 DEF Unstopped
  <2>3. o \in Unstopped(d)
    BY <1>3, <2>1, <2>2 DEF Unstopped
  <2> QED BY <2>1, <2>3 DEF NoOrphanSubscription, Accounted, Stopping
<1>4. ASSUME UNCHANGED <<subs, pump, stopped, old, toStop, closePc>>,
             \A q \in Ops : pc[q] = "install" => pc'[q] = "install",
             \A q \in Ops : pc[q] \in Stopping => pc'[q] \in Stopping
      PROVE  Accounted(d, o)'
  <2>1. pc[o] # "idle" /\ pc[o] # "install"
    BY <1>0, <1>2, <1>4 DEF PlaceInv
  <2> QED BY <1>2, <1>3, <1>4, <2>1 DEF Accounted
<1>5. ASSUME NEW p \in Ops, NEW r \in Offered[p], Issue(p, r) PROVE Accounted(d, o)'
  BY <1>0, <1>4, <1>5 DEF Issue, Goto, Stopping
<1>6. ASSUME NEW p \in Ops, WithControl(p) PROVE Accounted(d, o)'
  BY <1>0, <1>4, <1>6 DEF WithControl, Return, Goto, Stopping
<1>7. ASSUME NEW p \in Ops, CommitFenced(p) PROVE Accounted(d, o)'
  BY <1>0, <1>4, <1>7 DEF CommitFenced, Return, Goto, Unlock, Stopping
<1>8. ASSUME NEW p \in Ops, CommitRefused(p) PROVE Accounted(d, o)'
  BY <1>0, <1>4, <1>8 DEF CommitRefused, Return, Goto, Unlock, Stopping
<1>9. ASSUME NEW p \in Ops, SubmitHit(p) PROVE Accounted(d, o)'
  BY <1>0, <1>4, <1>9 DEF SubmitHit, Return, Goto, Unlock, Stopping
<1>10. ASSUME NEW p \in Ops, SubmitJoin(p) PROVE Accounted(d, o)'
  BY <1>0, <1>4, <1>10 DEF SubmitJoin, Return, Goto, Unlock, Stopping
<1>11. ASSUME NEW p \in Ops, JoinReturns(p) PROVE Accounted(d, o)'
  BY <1>0, <1>4, <1>11 DEF JoinReturns, Return, Goto, Unlock, Stopping
<1>12. ASSUME NEW p \in Ops, SubmitLead(p) PROVE Accounted(d, o)'
  BY <1>0, <1>4, <1>12 DEF SubmitLead, Goto, Stopping
<1>13. ASSUME NEW p \in Ops, StartAccepted(p) PROVE Accounted(d, o)'
  BY <1>0, <1>4, <1>13 DEF StartAccepted, Goto, Stopping
<1>14. ASSUME NEW p \in Ops, StartRefused(p) PROVE Accounted(d, o)'
  BY <1>0, <1>4, <1>14 DEF StartRefused, Goto, Stopping
<1>15. ASSUME NEW p \in Ops, RecordResult(p) PROVE Accounted(d, o)'
  BY <1>0, <1>4, <1>15 DEF RecordResult, Goto, Stopping
<1>16. ASSUME NEW p \in Ops, Land(p) PROVE Accounted(d, o)'
  BY <1>0, <1>4, <1>16 DEF Land, Return, Goto, Unlock, Stopping
<1>17. ASSUME NEW p \in Ops, Subscribe(p) PROVE Accounted(d, o)'
  <2>1. /\ pc[p] = "subscribe" /\ UNCHANGED <<req, subs, stopped, old, toStop, closePc>>
        /\ \/ pump' = [pump EXCEPT ![p] = "made"] /\ pc' = [pc EXCEPT ![p] = "install"]
           \/ pump' = pump /\ pc' = [pc EXCEPT ![p] = "returned"]
    BY <1>17 DEF Subscribe, Return, Goto
  <2>2. o # p /\ pump'[o] = pump[o] /\ pc'[o] = pc[o]
    BY <1>0, <1>2, <2>1 DEF SubInv
  <2> QED BY <1>0, <1>2, <1>3, <2>1, <2>2 DEF Accounted, Stopping, PlaceInv
<1>18. ASSUME NEW p \in Ops, Install(p) PROVE Accounted(d, o)'
  <2>1. CASE closed[req[p].conn]
    <3>1. /\ pc[p] = "install" /\ UNCHANGED <<req, subs, stopped, old, toStop, closePc>>
          /\ pump' = [pump EXCEPT ![p] = "ended"] /\ pc' = [pc EXCEPT ![p] = "returned"]
      BY <1>18, <2>1 DEF Install, Return, Goto
    <3>2. o # p /\ pump'[o] = pump[o] /\ pc'[o] = pc[o]
      BY <1>0, <1>2, <3>1
    <3> QED BY <1>0, <1>2, <1>3, <3>1, <3>2 DEF Accounted, Stopping, PlaceInv
  <2>2. CASE ~closed[req[p].conn]
    <3>1. /\ pc[p] = "install" /\ UNCHANGED <<req, pump, stopped, toStop, closePc>>
          /\ subs' = [subs EXCEPT ![req[p].conn][req[p].name] = p]
          /\ old' = [old EXCEPT ![p] = subs[req[p].conn][req[p].name]]
          /\ \E label \in {"acquire", "exchange"} : pc' = [pc EXCEPT ![p] = label]
      BY <1>18, <2>2 DEF Install, Goto
    <3>2. /\ req[p].conn \in Conns /\ req[p].name \in Names
          /\ \A c \in Conns, n \in Names :
               subs'[c][n] = IF c = req[p].conn /\ n = req[p].name THEN p ELSE subs[c][n]
      BY <1>0, <1>1, <3>1
    <3>3. CASE o = p
      <4>1. closePc[d] = "open" /\ req[p].conn = d
        BY <1>0, <1>2, <2>2, <3>1, <3>2, <3>3 DEF CloseInv
      <4> QED BY <3>1, <3>2, <3>3, <4>1 DEF Accounted
    <3>4. CASE o # p
      <4>1. Accounted(d, o) /\ req'[o] = req[o] /\ req[o].conn = d /\ req[o].name \in Names
        BY <1>0, <1>2, <1>3, <3>1, <3>4 DEF PlaceInv
      <4>2. pc'[p] \in Stopping /\ old'[p] = subs[req[p].conn][req[p].name]
        BY <1>0, <3>1 DEF Stopping
      <4>3. ASSUME subs[d][req[o].name] = o
            PROVE  subs'[d][req[o].name] = o \/ old'[p] = o
        BY <3>2, <3>4, <4>1, <4>2, <4>3
      <4>4. ASSUME NEW q \in Ops, pc[q] \in Stopping, old[q] = o
            PROVE  pc'[q] \in Stopping /\ old'[q] = o
        BY <1>0, <3>1, <4>4 DEF Stopping
      <4> QED BY <3>1, <4>1, <4>2, <4>3, <4>4 DEF Accounted
    <3> QED BY <3>3, <3>4
  <2> QED BY <2>1, <2>2
<1>19. ASSUME NEW p \in Ops, Acquire(p) PROVE Accounted(d, o)'
  BY <1>0, <1>4, <1>19 DEF Acquire, Goto, Stopping
<1>20. ASSUME NEW p \in Ops, Exchange(p) PROVE Accounted(d, o)'
  <2>1. /\ pc[p] = "exchange" /\ UNCHANGED <<req, subs, toStop, closePc>>
        /\ stopped' = stopped \cup ({old[p]} \ {NoOp})
        /\ pump' = [pump EXCEPT ![p] = "pumping"] /\ old' = [old EXCEPT ![p] = NoOp]
        /\ pc' = [pc EXCEPT ![p] = "returned"]
    BY <1>20 DEF Exchange, Return, Goto
  <2>2. /\ pc[o] # "idle" /\ o \notin stopped /\ pc[o] # "install" /\ o # old[p]
        /\ pump[o] \in {"made", "pumping"}
    BY <1>0, <1>2, <2>1 DEF SubInv, PlaceInv
  <2>3. ASSUME NEW q \in Ops, pc[q] \in Stopping, old[q] = o
        PROVE  pc'[q] \in Stopping /\ old'[q] = o
    BY <1>0, <2>1, <2>2, <2>3
  <2> QED BY <1>3, <2>1, <2>2, <2>3 DEF Accounted
<1>21. ASSUME NEW p \in Ops, PumpEnds(p) PROVE Accounted(d, o)'
  <2>1. /\ UNCHANGED <<req, pc, stopped, old, toStop, closePc>>
        /\ pump[p] = "pumping" /\ pump' = [pump EXCEPT ![p] = "ended"]
        /\ subs' = IF subs[req[p].conn][req[p].name] = p
                     THEN [subs EXCEPT ![req[p].conn][req[p].name] = NoOp] ELSE subs
    BY <1>21 DEF PumpEnds
  <2>2. o # p /\ pump'[o] = pump[o] /\ req[p].conn \in Conns /\ req[p].name \in Names
    BY <1>0, <1>1, <1>2, <2>1 DEF PlaceInv
  <2>3. \A c \in Conns, n \in Names : subs[c][n] = o => subs'[c][n] = o
    BY <1>0, <2>1, <2>2
  <2> QED BY <1>0, <1>2, <1>3, <2>1, <2>2, <2>3 DEF Accounted, PlaceInv
<1>22. ASSUME NEW p \in Ops, Remove(p) PROVE Accounted(d, o)'
  <2>1. /\ pc[p] = "remove" /\ UNCHANGED <<req, pump, stopped, toStop, closePc>>
        /\ subs' = [subs EXCEPT ![req[p].conn][req[p].name] = NoOp]
        /\ old' = [old EXCEPT ![p] = subs[req[p].conn][req[p].name]]
        /\ \E label \in {"release", "stop"} : pc' = [pc EXCEPT ![p] = label]
    BY <1>22 DEF Remove, Goto
  <2>2. /\ req[p].conn \in Conns /\ req[p].name \in Names
        /\ \A c \in Conns, n \in Names :
             subs'[c][n] = IF c = req[p].conn /\ n = req[p].name THEN NoOp ELSE subs[c][n]
    BY <1>0, <1>1, <2>1
  <2>3. Accounted(d, o) /\ req'[o] = req[o] /\ req[o].conn = d /\ req[o].name \in Names
    BY <1>0, <1>2, <1>3, <2>1 DEF PlaceInv
  <2>4. pc'[p] \in Stopping /\ old'[p] = subs[req[p].conn][req[p].name]
    BY <1>0, <2>1 DEF Stopping
  <2>5. ASSUME subs[d][req[o].name] = o PROVE subs'[d][req[o].name] = o \/ old'[p] = o
    BY <2>2, <2>3, <2>4, <2>5
  <2>6. ASSUME NEW q \in Ops, pc[q] \in Stopping, old[q] = o
        PROVE  pc'[q] \in Stopping /\ old'[q] = o
    BY <1>0, <2>1, <2>6 DEF Stopping
  <2> QED BY <2>1, <2>3, <2>4, <2>5, <2>6 DEF Accounted
<1>23. ASSUME NEW p \in Ops, Release(p) PROVE Accounted(d, o)'
  BY <1>0, <1>4, <1>23 DEF Release, Goto, Stopping
<1>24. ASSUME NEW p \in Ops, StopRemoved(p) PROVE Accounted(d, o)'
  <2>1. /\ pc[p] = "stop" /\ UNCHANGED <<req, subs, pump, toStop, closePc>>
        /\ stopped' = stopped \cup ({old[p]} \ {NoOp}) /\ old' = [old EXCEPT ![p] = NoOp]
        /\ pc' = [pc EXCEPT ![p] = "returned"]
    BY <1>24 DEF StopRemoved, Return, Goto
  <2>2. /\ pc[o] # "idle" /\ o \notin stopped /\ pc[o] # "install" /\ o # old[p]
        /\ pump[o] \in {"made", "pumping"}
    BY <1>0, <1>2, <2>1 DEF PlaceInv
  <2>3. ASSUME NEW q \in Ops, pc[q] \in Stopping, old[q] = o
        PROVE  pc'[q] \in Stopping /\ old'[q] = o
    BY <1>0, <2>1, <2>2, <2>3
  <2> QED BY <1>3, <2>1, <2>2, <2>3 DEF Accounted
<1>25. ASSUME NEW c \in Conns, CloseBegin(c) PROVE Accounted(d, o)'
  <2>1. /\ UNCHANGED <<req, pc, pump, stopped, old>> /\ closePc[c] = "open"
        /\ toStop' = [toStop EXCEPT ![c] = {subs[c][n] : n \in Names} \ {NoOp}]
        /\ subs' = [subs EXCEPT ![c] = [n \in Names |-> NoOp]]
        /\ closePc' = [closePc EXCEPT ![c] = "stop"]
    BY <1>25 DEF CloseBegin
  <2>2. Accounted(d, o) /\ req'[o] = req[o] /\ req[o].conn = d /\ req[o].name \in Names
    BY <1>0, <1>2, <1>3, <2>1 DEF PlaceInv
  <2>3. CASE c = d
    <3>1. toStop[d] = {}
      BY <2>1, <2>3 DEF SubInv
    <3> QED BY <1>0, <2>1, <2>2, <2>3, <3>1 DEF Accounted
  <2>4. CASE c # d
    BY <1>0, <2>1, <2>2, <2>4 DEF Accounted
  <2> QED BY <2>3, <2>4
<1>26. ASSUME NEW c \in Conns, CloseStop(c) PROVE Accounted(d, o)'
  <2>1. /\ UNCHANGED <<req, pc, pump, subs, old>> /\ closePc[c] = "stop"
        /\ toStop' = [toStop EXCEPT ![c] = {}] /\ stopped' = stopped \cup toStop[c]
        /\ closePc' = [closePc EXCEPT ![c] = "release"]
    BY <1>26 DEF CloseStop
  <2>2. Accounted(d, o) /\ o \notin toStop[c]
    BY <1>0, <1>2, <1>3, <2>1 DEF PlaceInv
  <2> QED BY <1>0, <2>1, <2>2 DEF Accounted
<1>27. ASSUME NEW c \in Conns, CloseEnd(c) PROVE Accounted(d, o)'
  <2>1. /\ UNCHANGED <<req, pc, pump, subs, stopped, old, toStop>> /\ closePc[c] = "release"
        /\ closePc' = [closePc EXCEPT ![c] = "gone"]
    BY <1>27 DEF CloseEnd
  <2>2. Accounted(d, o)
    BY <1>0, <1>2, <1>3, <2>1 DEF PlaceInv
  <2> QED BY <1>0, <2>1, <2>2 DEF Accounted
<1>28. ASSUME \/ \E s \in Sessions : RunEnds(s)
              \/ \E c \in Leavers, m \in Names : CloseRelease(c, m)
       PROVE  Accounted(d, o)'
  BY <1>4, <1>28 DEF RunEnds, CloseRelease
<1> QED BY <1>5, <1>6, <1>7, <1>8, <1>9, <1>10, <1>11, <1>12, <1>13, <1>14, <1>15, <1>16, <1>17,
           <1>18, <1>19, <1>20, <1>21, <1>22, <1>23, <1>24, <1>25, <1>26, <1>27, <1>28,
           BoundsAssumption DEF Next, Serve, Close

(* The initial states satisfy the invariant.                               *)
LEMMA InvInit == Init => Inv
<1> SUFFICES ASSUME Init PROVE Inv
  OBVIOUS
<1> USE ControlAssumption DEF Init
<1>1. TypeOK
  BY DEF TypeOK, Labels
<1>2. PlaceInv
  BY DEF PlaceInv, Submitting, Attaching, Detaching
<1>3. RegInv
  BY DEF RegInv
<1>4. AnswerInv
  BY DEF AnswerInv
<1>5. FenceInv
  BY DEF FenceInv, UnderLease, Submitting
<1>6. CloseInv
  BY DEF CloseInv
<1>7. SubInv
  BY DEF SubInv, EntryInv, Detaching
<1>8. NoOrphanSubscription
  BY DEF NoOrphanSubscription, Unstopped
<1> QED BY <1>1, <1>2, <1>3, <1>4, <1>5, <1>6, <1>7, <1>8 DEF Inv

(* Every step preserves the invariant.                                     *)
LEMMA InvStep == Inv /\ [Next]_vars => Inv'
<1>1. ASSUME Inv, Next PROVE Inv'
  BY <1>1, TypeStep, PlaceStep, RegStep, AnswerStep, FenceStep, CloseStepInv, SubStep, OrphanStep
     DEF Inv
<1>2. ASSUME Inv, UNCHANGED vars PROVE Inv'
  <2> USE <1>2 DEF vars, leaseVars, regVars, runVars, subVars, closeVars
  <2>1. TypeOK'
    BY DEF Inv, TypeOK
  <2>2. PlaceInv'
    BY DEF Inv, PlaceInv
  <2>3. RegInv' /\ AnswerInv'
    BY DEF Inv, RegInv, AnswerInv, Key
  <2>4. FenceInv' /\ CloseInv'
    BY DEF Inv, FenceInv, CloseInv
  <2>5. SubInv'
    BY DEF Inv, SubInv, EntryInv
  <2>6. NoOrphanSubscription'
    BY DEF Inv, NoOrphanSubscription, Unstopped
  <2> QED BY <2>1, <2>2, <2>3, <2>4, <2>5, <2>6 DEF Inv
<1> QED BY <1>1, <1>2

(* The invariant holds in every reachable state.                           *)
THEOREM Invariance == Spec => []Inv
<1> QED BY InvInit, InvStep, PTL DEF Spec

(* The variables of the control plane keep their types; that a record      *)
(* evicted by recordLocked exists rests on the order of the table.         *)
THEOREM TypeCorrect == Spec => []TypeOK
<1>1. Inv => TypeOK
  BY DEF Inv
<1> QED BY <1>1, Invariance, PTL

(* A request id starts one run unless the full table has forgotten it, and *)
(* a call is answered with a run of its own key and input (Submit).        *)
THEOREM RequestsAreSubmittedOnce == Spec => []OneRunPerRequest
<1>1. Inv => OneRunPerRequest
  <2> SUFFICES ASSUME Inv PROVE OneRunPerRequest
    OBVIOUS
  <2>1. runs \subseteq Ops /\ NoOp \notin Ops
    BY ControlAssumption DEF Inv, TypeOK
  <2>2. \A o \in runs : Key(o) \in Keys
    BY <2>1, KeyType DEF Inv, PlaceInv
  <2>3. ASSUME NEW o1 \in runs, NEW o2 \in runs, Key(o1) = Key(o2)
        PROVE  o1 = o2 \/ o1 \in forgotten \/ o2 \in forgotten
    BY <2>1, <2>2, <2>3 DEF Inv, RegInv
  <2> QED BY <2>3 DEF Inv, AnswerInv, OneRunPerRequest
<1> QED BY <1>1, Invariance, PTL

(* No subscription outlives attach, detach and Close unaccounted for.      *)
THEOREM SubscriptionsAreAccountedFor == Spec => []NoOrphanSubscription
<1>1. Inv => NoOrphanSubscription
  BY DEF Inv
<1> QED BY <1>1, Invariance, PTL

(* The control plane implements the lease service: fencing, takeover and   *)
(* the release of a connection's leases (WithControl, Acquire, Close).     *)
THEOREM LeaseIsImplemented == Spec => ImplementsLease
<1> DEFINE effected == {<<req[o].name, req[o].conn, o>> : o \in runs \cup fenced}
           gone == {c \in Conns : closePc[c] = "gone"}
<1>1. Init => Lease!Init
  BY DEF Init, Lease!Init
<1>2. ASSUME Inv, Next PROVE Lease!Next \/ UNCHANGED Lease!vars
  <2> USE DEF leaseVars, regVars, runVars, subVars, closeVars
  <2>0. /\ pc \in [Ops -> Labels] /\ runs \subseteq Ops /\ fenced \subseteq Ops
        /\ holder \in [Names -> Conns \cup {NoConn}]
        /\ closePc \in [Conns -> {"open", "stop", "release", "gone"}]
    BY <1>2 DEF Inv, TypeOK
  <2>1. \A o \in Ops : pc[o] # "idle" =>
          req'[o] = req[o] /\ req[o].name \in Names /\ req[o].conn \in Conns
    BY <1>2, RequestStable, Fields DEF Inv, PlaceInv
  <2>2. \A o \in runs \cup fenced : req'[o] = req[o]
    BY <1>2, <2>0, <2>1 DEF Inv, PlaceInv
  <2>3. ASSUME UNCHANGED <<runs, fenced>> PROVE effected' = effected
    BY <2>2, <2>3
  <2>4. ASSUME UNCHANGED <<holder, runs, fenced, closePc>> PROVE UNCHANGED Lease!vars
    <3>1. effected' = effected /\ gone' = gone
      BY <2>3, <2>4
    <3> QED BY <2>4, <3>1 DEF Lease!vars
  <2>5. ASSUME NEW p \in Ops, CommitFenced(p) \/ StartAccepted(p) PROVE Lease!Next
    <3>1. /\ pc[p] \in UnderLease /\ pc[p] # "idle" /\ UNCHANGED <<req, holder, closePc>>
          /\ runs' \cup fenced' = (runs \cup fenced) \cup {p}
      BY <2>5 DEF CommitFenced, StartAccepted, UnderLease, Submitting
    <3>2. holder[req[p].name] = req[p].conn /\ req[p].name \in Names /\ req[p].conn \in Conns
      BY <1>2, <2>1, <3>1 DEF Inv, FenceInv
    <3>3. effected' = effected \cup {<<req[p].name, req[p].conn, p>>} /\ gone' = gone
      BY <3>1
    <3>4. Lease!Effect(req[p].name, req[p].conn, p)
      BY <3>1, <3>2, <3>3 DEF Lease!Effect
    <3> QED BY <3>2, <3>4 DEF Lease!Next
  <2>6. ASSUME NEW p \in Ops, Acquire(p) PROVE Lease!Next
    <3>1. /\ pc[p] = "acquire" /\ UNCHANGED <<runs, fenced, closePc>>
          /\ holder' = [holder EXCEPT ![req[p].name] = req[p].conn]
      BY <2>6 DEF Acquire
    <3>2. req[p].conn \notin gone /\ req[p].conn \in Conns /\ req[p].name \in Names
      BY <1>2, <2>1, <3>1 DEF Inv, CloseInv
    <3>3. effected' = effected /\ gone' = gone
      BY <2>3, <3>1
    <3>4. Lease!Take(req[p].name, req[p].conn)
      BY <3>1, <3>2, <3>3 DEF Lease!Take
    <3> QED BY <3>2, <3>4 DEF Lease!Next
  <2>7. ASSUME NEW n \in Names, UNCHANGED <<runs, fenced, closePc>>,
               holder' = [holder EXCEPT ![n] = NoConn]
        PROVE  Lease!Next
    <3>1. effected' = effected /\ gone' = gone
      BY <2>3, <2>7
    <3>2. Lease!Drop(n)
      BY <2>7, <3>1 DEF Lease!Drop
    <3> QED BY <3>2 DEF Lease!Next
  <2>8. ASSUME NEW p \in Ops, Release(p) PROVE Lease!Next \/ UNCHANGED Lease!vars
    <3>1. req[p].name \in Names
      BY <2>1, <2>8 DEF Release
    <3> QED BY <2>4, <2>7, <2>8, <3>1 DEF Release
  <2>9. ASSUME NEW c \in Conns, NEW n \in Names, CloseRelease(c, n)
        PROVE  Lease!Next \/ UNCHANGED Lease!vars
    BY <2>4, <2>7, <2>9 DEF CloseRelease
  <2>10. ASSUME NEW c \in Conns, CloseBegin(c) \/ CloseStop(c) PROVE UNCHANGED Lease!vars
    <3>1. /\ UNCHANGED <<holder, runs, fenced>>
          /\ gone' = gone
      BY <2>0, <2>10 DEF CloseBegin, CloseStop
    <3>2. effected' = effected
      BY <2>3, <3>1
    <3> QED BY <3>1, <3>2 DEF Lease!vars
  <2>11. ASSUME NEW c \in Conns, CloseEnd(c) PROVE Lease!Next
    <3>1. /\ UNCHANGED <<holder, runs, fenced>> /\ gone' = gone \cup {c}
      BY <2>0, <2>11 DEF CloseEnd
    <3>2. \A n \in Names : holder[n] # c
      BY <1>2, <2>11 DEF CloseEnd, Inv, CloseInv
    <3>3. effected' = effected
      BY <2>3, <3>1
    <3>4. Lease!Leave(c)
      BY <3>1, <3>2, <3>3 DEF Lease!Leave
    <3> QED BY <3>4 DEF Lease!Next
  <2>12. ASSUME NEW p \in Ops, NEW r \in Offered[p], Issue(p, r) PROVE UNCHANGED Lease!vars
    BY <2>4, <2>12 DEF Issue
  <2>13. ASSUME NEW p \in Ops,
               WithControl(p) \/ CommitRefused(p) \/ SubmitHit(p) \/ SubmitJoin(p) \/
                  JoinReturns(p) \/ SubmitLead(p) \/ StartRefused(p) \/ RecordResult(p) \/
                  Land(p) \/ Subscribe(p) \/ Install(p) \/ Exchange(p) \/ Remove(p) \/
                  StopRemoved(p) \/ PumpEnds(p)
         PROVE  UNCHANGED Lease!vars
    BY <2>4, <2>13 DEF WithControl, CommitRefused, SubmitHit, SubmitJoin, JoinReturns,
           SubmitLead, StartRefused, RecordResult, Land, Subscribe, Install, Exchange, Remove,
           StopRemoved, PumpEnds
  <2>14. ASSUME NEW s \in Sessions, RunEnds(s) PROVE UNCHANGED Lease!vars
    BY <2>4, <2>14 DEF RunEnds
  <2> QED BY <1>2, <2>5, <2>6, <2>8, <2>9, <2>10, <2>11, <2>12, <2>13, <2>14, BoundsAssumption
          DEF Next, Serve, Close
<1>3. ASSUME UNCHANGED vars PROVE UNCHANGED Lease!vars
  BY <1>3 DEF vars, leaseVars, runVars, closeVars, Lease!vars
<1>4. Inv /\ [Next]_vars => [Lease!Next]_(Lease!vars)
  BY <1>2, <1>3
<1> QED BY <1>1, <1>4, Invariance, PTL DEF Spec, ImplementsLease, Lease!Spec

=============================================================================
