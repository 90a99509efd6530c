------------------------ MODULE SessionStoreProofs ------------------------
(***************************************************************************)
(* Proofs about SessionStore, for any number of messages, runs, tool       *)
(* calls, consolidations, rewinds, failed appends and crashes, and about   *)
(* what its operators on paths, views and appends compute.                 *)
(***************************************************************************)
EXTENDS SessionStore, FiniteSetTheorems, WellFoundedInduction, SequenceTheorems, TLAPS

-----------------------------------------------------------------------------
(* Induction over the natural numbers in a first-order form, for sets      *)
(* instead of predicates, and what follows from it.                        *)

(* The order of the natural numbers, as a set of pairs, is well-founded.   *)
LEMMA NatOrder ==
    \E R : IsWellFoundedOn(R, Nat) /\ \A m, n \in Nat : m < n => <<m, n>> \in R
<1>1. \A m, n \in Nat : m < n => <<m, n>> \in OpToRel(<, Nat)
  BY DEF OpToRel
<1> QED BY <1>1, NatLessThanWellFounded

(* Every set of natural numbers that is not empty has a least element.     *)
LEMMA LeastNat ==
    ASSUME NEW T, T \subseteq Nat, T # {}
    PROVE  \E n \in T : \A m \in T : n <= m
<1>1. PICK R : IsWellFoundedOn(R, Nat) /\ \A m, n \in Nat : m < n => <<m, n>> \in R
  BY NatOrder
<1>2. IsWellFoundedOn(R, Nat)
  BY <1>1
<1>3. \E n \in T : \A m \in T : ~(<<m, n>> \in R)
  BY <1>2, WFMin, Zenon
<1>4. PICK n \in T : \A m \in T : ~(<<m, n>> \in R)
  BY <1>3
<1>5. \A m \in T : n <= m
  <2> TAKE m \in T
  <2>1. n \in Nat /\ m \in Nat
    OBVIOUS
  <2>2. ~(m < n)
    BY <1>1, <1>4, <2>1
  <2> QED BY <2>1, <2>2
<1> QED BY <1>5

(* A set with 0 and with the successor of each of its numbers has them all. *)
LEMMA SetInduction ==
    ASSUME NEW P, 0 \in P, \A n \in Nat : n \in P => n + 1 \in P
    PROVE  \A n \in Nat : n \in P
<1> DEFINE T == {n \in Nat : n \notin P}
<1>1. SUFFICES ASSUME T # {} PROVE FALSE
  OBVIOUS
<1>2. PICK n \in T : \A m \in T : n <= m
  <2> HIDE DEF T
  <2>1. T \subseteq Nat
    BY DEF T
  <2> QED BY <1>1, <2>1, LeastNat
<1>3. n \in Nat /\ n # 0 /\ n \notin P
  OBVIOUS
<1>4. n - 1 \in Nat /\ n - 1 \in P
  BY <1>2, <1>3
<1> QED BY <1>3, <1>4

(* A set of integers with a bound has a greatest element.                  *)
LEMMA GreatestInt ==
    ASSUME NEW T, T \subseteq Int, T # {}, NEW b \in Int, \A m \in T : m <= b
    PROVE  \E n \in T : \A m \in T : n >= m
<1> DEFINE U == {b - m : m \in T}
<1>1. U \subseteq Nat /\ U # {}
  <2>1. \A m \in T : b - m \in Nat
    OBVIOUS
  <2>2. PICK m : m \in T
    OBVIOUS
  <2>3. b - m \in U
    BY <2>2
  <2> QED BY <2>1, <2>3
<1>2. PICK u \in U : \A v \in U : u <= v
  <2> HIDE DEF U
  <2> QED BY <1>1, LeastNat
<1>3. PICK n \in T : u = b - n
  OBVIOUS
<1>4. \A m \in T : n >= m
  BY <1>2, <1>3
<1> QED BY <1>4

(* The recursion theorem: from a first value and a function of each value  *)
(* to the next.                                                            *)
LEMMA Recursion ==
    ASSUME NEW X, NEW b \in X, NEW G \in [X -> X]
    PROVE  \E f \in [Nat -> X] : f[0] = b /\ \A n \in Nat : f[n + 1] = G[f[n]]
<1> DEFINE Begins(n) == {g \in [0 .. n -> X] : g[0] = b /\ \A i \in 0 .. n - 1 : g[i + 1] = G[g[i]]}
<1>1. \A n \in Nat : Begins(n) # {}
  <2> DEFINE P == {n \in Nat : Begins(n) # {}}
  <2>1. 0 \in P
    <3>1. [i \in 0 .. 0 |-> b] \in Begins(0)
      OBVIOUS
    <3> QED BY <3>1
  <2>2. ASSUME NEW n \in Nat, n \in P PROVE n + 1 \in P
    <3>1. PICK g : g \in Begins(n)
      BY <2>2
    <3> DEFINE h == [i \in 0 .. n + 1 |-> IF i = n + 1 THEN G[g[n]] ELSE g[i]]
    <3>2. g \in [0 .. n -> X] /\ g[0] = b /\ \A i \in 0 .. n - 1 : g[i + 1] = G[g[i]]
      BY <3>1
    <3>3. h \in [0 .. n + 1 -> X] /\ h[0] = b
      BY <3>2
    <3>4. ASSUME NEW i \in 0 .. n + 1 - 1 PROVE h[i + 1] = G[h[i]]
      <4>1. CASE i = n
        BY <4>1
      <4>2. CASE i # n
        BY <4>2, <3>2
      <4> QED BY <4>1, <4>2
    <3>5. h \in Begins(n + 1)
      <4> HIDE DEF h
      <4> QED BY <3>3, <3>4
    <3> QED BY <3>5
  <2> HIDE DEF P
  <2>3. \A n \in Nat : n \in P
    BY <2>1, <2>2, SetInduction
  <2> QED BY <2>3 DEF P
<1>2. ASSUME NEW m \in Nat, NEW n \in Nat, NEW g \in Begins(m), NEW h \in Begins(n)
      PROVE  \A i \in Nat : i <= m /\ i <= n => g[i] = h[i]
  <2> DEFINE P == {i \in Nat : i <= m /\ i <= n => g[i] = h[i]}
  <2>1. 0 \in P
    OBVIOUS
  <2>2. ASSUME NEW i \in Nat, i \in P PROVE i + 1 \in P
    <3>1. CASE i + 1 <= m /\ i + 1 <= n
      <4>1. g[i + 1] = G[g[i]] /\ h[i + 1] = G[h[i]]
        BY <3>1
      <4> QED BY <2>2, <3>1, <4>1
    <3>2. CASE ~(i + 1 <= m /\ i + 1 <= n)
      BY <3>2
    <3> QED BY <3>1, <3>2
  <2> HIDE DEF P
  <2>3. \A i \in Nat : i \in P
    BY <2>1, <2>2, SetInduction
  <2> QED BY <2>3 DEF P
<1> DEFINE start(n) == CHOOSE g : g \in Begins(n)
<1>3. \A n \in Nat : start(n) \in Begins(n)
  <2> HIDE DEF Begins
  <2> QED BY <1>1
<1> HIDE DEF start
<1> DEFINE f == [n \in Nat |-> start(n)[n]]
<1>4. f \in [Nat -> X]
  BY <1>3
<1>5. f[0] = b
  BY <1>3
<1>6. ASSUME NEW n \in Nat PROVE f[n + 1] = G[f[n]]
  <2>1. start(n) \in Begins(n) /\ start(n + 1) \in Begins(n + 1) /\ n + 1 \in Nat
    BY <1>3
  <2>2. start(n + 1)[n] = start(n)[n]
    <3> HIDE DEF Begins
    <3> QED BY <1>2, <2>1
  <2>3. start(n + 1)[n + 1] = G[start(n + 1)[n]]
    BY <2>1
  <2> QED BY <2>2, <2>3
<1> HIDE DEF f
<1> QED BY <1>4, <1>5, <1>6

(* The k-th of a set of numbers: with the numbers up to it there are k.    *)
LEMMA NthElement ==
    ASSUME NEW n \in Nat, NEW S \in SUBSET (1 .. n)
    PROVE  /\ IsFiniteSet(S) /\ Cardinality(S) \in Nat
           /\ \A k \in 1 .. Cardinality(S) : \E i \in S : Cardinality({j \in S : j <= i}) = k
<1> DEFINE Ranked(T) == /\ IsFiniteSet(T) /\ Cardinality(T) \in Nat
                        /\ \A k \in 1 .. Cardinality(T) :
                             \E i \in T : Cardinality({j \in T : j <= i}) = k
           P == {m \in Nat : \A T \in SUBSET (1 .. m) : Ranked(T)}
<1>1. 0 \in P
  <2> SUFFICES ASSUME NEW T \in SUBSET (1 .. 0) PROVE Ranked(T)
    OBVIOUS
  <2>1. T = {}
    OBVIOUS
  <2>2. IsFiniteSet(T) /\ Cardinality(T) = 0
    BY <2>1, FS_EmptySet
  <2> QED BY <2>2
<1>2. ASSUME NEW m \in Nat, m \in P PROVE m + 1 \in P
  <2> SUFFICES ASSUME NEW T \in SUBSET (1 .. m + 1) PROVE Ranked(T)
    OBVIOUS
  <2>1. CASE m + 1 \notin T
    <3>1. T \in SUBSET (1 .. m)
      BY <2>1
    <3> QED BY <1>2, <3>1
  <2>2. CASE m + 1 \in T
    <3> DEFINE U == T \ {m + 1}
    <3>1. U \in SUBSET (1 .. m) /\ T = U \cup {m + 1} /\ m + 1 \notin U
      BY <2>2
    <3> HIDE DEF U
    <3>2. Ranked(U)
      BY <1>2, <3>1
    <3>3. IsFiniteSet(T) /\ Cardinality(T) = Cardinality(U) + 1
      BY <3>1, <3>2, FS_AddElement
    <3>4. ASSUME NEW k \in 1 .. Cardinality(T)
          PROVE  \E i \in T : Cardinality({j \in T : j <= i}) = k
      <4>1. CASE k = Cardinality(T)
        <5>1. \A j \in T : j <= m + 1
          OBVIOUS
        <5>2. {j \in T : j <= m + 1} = T
          BY <5>1
        <5> QED BY <2>2, <4>1, <5>2
      <4>2. CASE k # Cardinality(T)
        <5>1. k \in 1 .. Cardinality(U)
          BY <3>2, <3>3, <4>2
        <5>2. PICK i \in U : Cardinality({j \in U : j <= i}) = k
          BY <3>2, <5>1
        <5>3. i \in T /\ {j \in T : j <= i} = {j \in U : j <= i}
          BY <3>1
        <5> QED BY <5>2, <5>3
      <4> QED BY <4>1, <4>2
    <3> QED BY <3>2, <3>3, <3>4
  <2> QED BY <2>1, <2>2
<1> HIDE DEF P
<1>3. \A m \in Nat : m \in P
  BY <1>1, <1>2, SetInduction
<1>4. Ranked(S)
  BY <1>3 DEF P
<1> QED BY <1>4

-----------------------------------------------------------------------------

(* The values of the state. *)
Ident == -MaxNodes .. MaxNodes
Roles == {"user", "assistant", "call", "tool", "system"}
Holdings == SUBSET (1 .. MaxNodes)
Messages == [id : Ident, role : Roles, holds : Holdings]
Nodes == [kind : {"node"}, id : Ident, parent : Ident, role : Roles, holds : Holdings]
Marks == [kind : {"head", "cursor", "ck"}, id : Ident]
Lines == Nodes \cup Marks
NodeMaps == UNION {[D -> Nodes] : D \in SUBSET Ident}
Stores == [nodes : NodeMaps, head : Ident, cursor : Ident, cks : SUBSET Ident]
Items == [line : Lines, mem : Seq(Lines), cursor : Ident]

(* Identifiers. *)
LEMMA Identifiers ==
    /\ MaxNodes \in Nat /\ KeepLast \in Nat /\ Ident \subseteq Int /\ 0 \in Ident
    /\ \A i \in Ident : -i \in Ident
    /\ \A i \in 0 .. MaxNodes : i \in Ident
    /\ IsFiniteSet(Ident)
<1>1. MaxNodes \in Nat /\ KeepLast \in Nat
  BY StoreBounds
<1>2. -MaxNodes \in Int /\ MaxNodes \in Int
  BY <1>1
<1>3. IsFiniteSet(Ident)
  BY <1>2, FS_Interval DEF Ident
<1> QED BY <1>1, <1>3 DEF Ident

(* A map of nodes is a function on the ids it declares.                    *)
LEMMA NodeMap ==
    ASSUME NEW n
    PROVE  n \in NodeMaps <=> n \in [DOMAIN n -> Nodes] /\ DOMAIN n \subseteq Ident
BY DEF NodeMaps

(* A file declares finitely many nodes.                                    *)
LEMMA NodesAreFinite ==
    ASSUME NEW n \in NodeMaps
    PROVE  Cardinality(DOMAIN n) \in Nat
<1>1. DOMAIN n \in SUBSET Ident
  BY NodeMap
<1> QED BY <1>1, Identifiers, FS_Subset, FS_CardinalityType

(* A line that declares a node leaves a map of nodes.                      *)
LEMMA AddNode ==
    ASSUME NEW n \in NodeMaps, NEW line \in Nodes
    PROVE  Declare(n, line) \in NodeMaps
<1> DEFINE m == Declare(n, line)
<1>1. DOMAIN m = DOMAIN n \cup {line.id}
  BY DEF Declare
<1>2. \A i \in DOMAIN m : m[i] = IF i = line.id THEN line ELSE n[i]
  BY DEF Declare
<1>3. m = [i \in DOMAIN m |-> m[i]]
  BY DEF Declare
<1>4. line.id \in Ident
  BY DEF Nodes
<1> HIDE DEF m
<1>5. n \in [DOMAIN n -> Nodes] /\ DOMAIN n \subseteq Ident
  BY NodeMap
<1>6. \A i \in DOMAIN m : m[i] \in Nodes
  BY <1>1, <1>2, <1>5
<1>7. m \in [DOMAIN m -> Nodes]
  BY <1>3, <1>6
<1>8. m \in NodeMaps
  BY <1>1, <1>4, <1>5, <1>7, NodeMap
<1> QED BY <1>8 DEF m

(* What one more line changes: the nodes, the head, the cursor or the      *)
(* checkpoints, and nothing else.                                          *)
LEMMA AddIsTyped ==
    ASSUME NEW s \in Stores, NEW line \in Lines
    PROVE  /\ Add(s, line) \in Stores
           /\ Add(s, line).nodes = IF line.kind = "node" THEN Declare(s.nodes, line) ELSE s.nodes
           /\ Add(s, line).head = IF line.kind = "head" THEN line.id ELSE s.head
           /\ Add(s, line).cks = IF line.kind = "ck" THEN s.cks \cup {line.id} ELSE s.cks
<1>1. s.nodes \in NodeMaps /\ s.head \in Ident /\ s.cursor \in Ident /\ s.cks \in SUBSET Ident
  BY DEF Stores
<1>2. line.id \in Ident /\ line.kind \in {"node", "head", "cursor", "ck"}
  BY DEF Lines, Nodes, Marks
<1>3. CASE line.kind = "node"
  <2>1. line \in Nodes
    BY <1>3 DEF Lines, Marks
  <2>2. Declare(s.nodes, line) \in NodeMaps
    BY <1>1, <2>1, AddNode
  <2>3. Add(s, line) = [s EXCEPT !.nodes = Declare(s.nodes, line)]
    BY <1>3 DEF Add
  <2> QED BY <1>3, <2>2, <2>3 DEF Stores
<1>4. CASE line.kind = "head"
  BY <1>1, <1>2, <1>4 DEF Add, Stores
<1>5. CASE line.kind = "cursor"
  BY <1>1, <1>2, <1>5 DEF Add, Stores
<1>6. CASE line.kind = "ck"
  BY <1>1, <1>2, <1>6 DEF Add, Stores
<1> QED BY <1>2, <1>3, <1>4, <1>5, <1>6

(* A step towards the root stays among the declared nodes.                 *)
LEMMA FurtherIsTyped ==
    ASSUME NEW n, NEW w \in Seq(DOMAIN n)
    PROVE  Further(n, w) \in Seq(DOMAIN n)
<1> DEFINE p == n[w[1]].parent
<1>1. CASE w # <<>> /\ hasID(n, p) /\ ~Contains(w, p)
  <2>1. Further(n, w) = <<p>> \o w
    BY <1>1 DEF Further
  <2>2. p \in DOMAIN n
    BY <1>1 DEF hasID
  <2> HIDE DEF p
  <2>3. <<p>> \in Seq(DOMAIN n)
    BY <2>2
  <2> QED BY <2>1, <2>3
<1>2. CASE ~(w # <<>> /\ hasID(n, p) /\ ~Contains(w, p))
  BY <1>2 DEF Further
<1> QED BY <1>1, <1>2

(* The shortest sequences.                                                 *)
LEMMA SeqOfOne ==
    ASSUME NEW n, NEW h
    PROVE  (IF hasID(n, h) THEN <<h>> ELSE <<>>) \in Seq(DOMAIN n)
<1>1. CASE hasID(n, h)
  <2>1. h \in DOMAIN n
    BY <1>1 DEF hasID
  <2>2. <<h>> \in Seq(DOMAIN n)
    BY <2>1
  <2> QED BY <1>1, <2>2
<1>2. CASE ~hasID(n, h)
  BY <1>2
<1> QED BY <1>1, <1>2

(* One unfolding of the walk in activePathIDs. *)
Walk(n, h, f) == [i \in Nat |-> IF i = 0 THEN IF hasID(n, h) THEN <<h>> ELSE <<>>
                                ELSE Further(n, f[i - 1])]

(* The walk is defined: a function satisfies its recursion.                *)
LEMMA WalkExists ==
    ASSUME NEW n, NEW h
    PROVE  \E f : f = Walk(n, h, f)
<1> DEFINE X == Seq(DOMAIN n)
           b == IF hasID(n, h) THEN <<h>> ELSE <<>>
           G == [w \in X |-> Further(n, w)]
<1>1. b \in X
  BY SeqOfOne
<1>2. G \in [X -> X]
  BY FurtherIsTyped
<1>3. PICK f \in [Nat -> X] : f[0] = b /\ \A i \in Nat : f[i + 1] = G[f[i]]
  <2> HIDE DEF X, b, G
  <2> QED BY <1>1, <1>2, Recursion
<1> HIDE DEF b
<1>4. ASSUME NEW i \in Nat PROVE f[i] = IF i = 0 THEN b ELSE Further(n, f[i - 1])
  <2>1. CASE i = 0
    BY <2>1, <1>3
  <2>2. CASE i # 0
    <3>1. i - 1 \in Nat /\ i - 1 + 1 = i
      BY <2>2
    <3>2. f[i - 1] \in X
      BY <1>3, <3>1
    <3>3. f[i - 1 + 1] = G[f[i - 1]]
      BY <1>3, <3>1
    <3> QED BY <2>2, <3>1, <3>2, <3>3
  <2> QED BY <2>1, <2>2
<1>5. f = [i \in Nat |-> IF i = 0 THEN b ELSE Further(n, f[i - 1])]
  BY <1>3, <1>4
<1> QED BY <1>5 DEF b, Walk

(* The walk visits declared nodes only, whatever the parents say: a parent *)
(* no line declares, or one visited before, ends it.                       *)
LEMMA PathIsTyped ==
    ASSUME NEW n \in NodeMaps, NEW h
    PROVE  activePathIDs(n, h) \in Seq(DOMAIN n)
<1> DEFINE walk == CHOOSE f : f = Walk(n, h, f)
<1>1. walk = Walk(n, h, walk)
  BY WalkExists, Zenon
<1>2. activePathIDs(n, h) = walk[Cardinality(DOMAIN n)]
  BY DEF activePathIDs, Walk
<1> HIDE DEF walk
<1> DEFINE P == {i \in Nat : walk[i] \in Seq(DOMAIN n)}
<1>3. 0 \in P
  <2>1. walk[0] = IF hasID(n, h) THEN <<h>> ELSE <<>>
    BY <1>1 DEF Walk
  <2> QED BY <2>1, SeqOfOne
<1>4. ASSUME NEW i \in Nat, i \in P PROVE i + 1 \in P
  <2>1. walk[i + 1] = Further(n, walk[i])
    BY <1>1 DEF Walk
  <2> QED BY <1>4, <2>1, FurtherIsTyped
<1>5. \A i \in Nat : i \in P
  <2> HIDE DEF P
  <2> QED BY <1>3, <1>4, SetInduction
<1> QED BY <1>2, <1>5, NodesAreFinite

(* So the view is a sequence of messages.                                  *)
LEMMA ViewIsTyped ==
    ASSUME NEW n \in NodeMaps, NEW h
    PROVE  buildActiveView(n, h) \in Seq(Messages)
<1> DEFINE path == activePathIDs(n, h)
<1>1. path \in Seq(DOMAIN n)
  BY PathIsTyped
<1>2. buildActiveView(n, h)
      = [i \in DOMAIN path |-> Message(n[path[i]].id, n[path[i]].role, n[path[i]].holds)]
  BY DEF buildActiveView
<1> HIDE DEF path
<1>3. n \in [DOMAIN n -> Nodes]
  BY NodeMap
<1>4. \A i \in DOMAIN path : n[path[i]] \in Nodes
  BY <1>1, <1>3
<1>5. \A i \in DOMAIN path : Message(n[path[i]].id, n[path[i]].role, n[path[i]].holds) \in Messages
  BY <1>4 DEF Message, Messages, Nodes
<1>6. DOMAIN path = 1 .. Len(path) /\ Len(path) \in Nat
  BY <1>1
<1> QED BY <1>2, <1>5, <1>6

(* The appends an operation has still to make: each line enters memory on  *)
(* its own, or with the one that follows it.                               *)
WellFormed(items) ==
    \A i \in DOMAIN items :
        \/ items[i].mem = <<items[i].line>>
        \/ /\ items[i].mem = <<>> /\ i + 1 \in DOMAIN items
           /\ items[i + 1].mem = <<items[i].line, items[i + 1].line>>
        \/ /\ Len(items[i].mem) = 2 /\ items[i].mem[2] = items[i].line
           /\ i > 1 => items[i - 1].mem = <<>>

OnlyCursor(items) ==
    \A i \in DOMAIN items : items[i].line.kind = "cursor" /\ items[i].mem = <<items[i].line>>

Level(items) == items # <<>> => Len(items[1].mem) < 2

(* A function on 1 .. n is a sequence.                                     *)
LEMMA FunctionIsSeq ==
    ASSUME NEW S, NEW n \in Nat, NEW f \in [1 .. n -> S]
    PROVE  f \in Seq(S) /\ Len(f) = n /\ DOMAIN f = 1 .. n
OBVIOUS

(* The lines of messages and marks.                                        *)
LEMMA LinesAreTyped ==
    /\ \A m \in Messages, p \in Ident :
         Node(m, p) \in Nodes /\ Node(m, p) \in Lines /\ Node(m, p).kind = "node" /\ Node(m, p).id = m.id
    /\ \A k \in {"head", "cursor", "ck"}, i \in Ident :
         Mark(k, i) \in Marks /\ Mark(k, i) \in Lines /\ Mark(k, i).kind = k
BY DEF Node, Mark, Messages, Nodes, Marks, Lines

(* Picking the messages at some places gives messages.                     *)
LEMMA AtIsTyped ==
    ASSUME NEW ms \in Seq(Messages), NEW places \in SUBSET DOMAIN ms
    PROVE  At(ms, places) \in Seq(Messages)
<1> DEFINE nth(k) == CHOOSE i \in places : Cardinality({j \in places : j <= i}) = k
<1>1. DOMAIN ms = 1 .. Len(ms) /\ Len(ms) \in Nat
  OBVIOUS
<1>2. places \in SUBSET (1 .. Len(ms))
  BY <1>1
<1>3. At(ms, places) = [k \in 1 .. Cardinality(places) |-> ms[nth(k)]]
  BY DEF At
<1>4. /\ Cardinality(places) \in Nat
      /\ \A k \in 1 .. Cardinality(places) : \E i \in places : Cardinality({j \in places : j <= i}) = k
  BY <1>1, <1>2, NthElement
<1>5. \A k \in 1 .. Cardinality(places) : nth(k) \in places
  BY <1>4
<1> HIDE DEF nth
<1>6. \A k \in 1 .. Cardinality(places) : ms[nth(k)] \in Messages
  <2>1. \A i \in 1 .. Len(ms) : ms[i] \in Messages
    BY <1>1, ElementOfSeq
  <2> QED BY <1>2, <1>5, <2>1
<1> QED BY <1>3, <1>4, <1>6

(* So do those that are not recorded.                                      *)
LEMMA UnrecordedIsTyped ==
    ASSUME NEW ms \in Seq(Messages)
    PROVE  Unrecorded(ms) \in Seq(Messages)
BY AtIsTyped DEF Unrecorded

(* Commit appends a node and the head that moves to it, in turn; both      *)
(* enter memory with the second.                                           *)
LEMMA CommitIsTyped ==
    ASSUME store \in Stores, NEW ms \in Seq(Messages)
    PROVE  /\ CommitItems(ms) \in Seq(Items)
           /\ WellFormed(CommitItems(ms)) /\ Level(CommitItems(ms))
<1>1. PICK new \in Seq(Messages) : new = Unrecorded(ms)
  BY UnrecordedIsTyped
<1> DEFINE line(i) == Node(new[i], IF i = 1 THEN store.head ELSE new[i - 1].id)
           move(i) == Mark("head", new[i].id)
           item(i, first) == IF first THEN Item(line(i), <<>>, store.cursor)
                             ELSE Item(move(i), <<line(i), move(i)>>, store.cursor)
           items == [k \in 1 .. 2 * Len(new) |-> item((k + 1) \div 2, k % 2 = 1)]
<1>2. CommitItems(ms) = items
  BY <1>1 DEF CommitItems
<1>3. Len(new) \in Nat /\ DOMAIN new = 1 .. Len(new)
  BY <1>1
<1>4. store.head \in Ident /\ store.cursor \in Ident
  BY DEF Stores
<1>5. ASSUME NEW i \in 1 .. Len(new)
      PROVE  /\ line(i) \in Lines /\ move(i) \in Lines
             /\ item(i, TRUE) \in Items /\ item(i, FALSE) \in Items
  <2>0. \A j \in 1 .. Len(new) : new[j] \in Messages
    BY <1>3, ElementOfSeq
  <2>1. new[i] \in Messages /\ new[i].id \in Ident
    BY <2>0 DEF Messages
  <2>2. (IF i = 1 THEN store.head ELSE new[i - 1].id) \in Ident
    <3>1. CASE i = 1
      BY <1>4, <3>1
    <3>2. CASE i # 1
      <4>1. i - 1 \in 1 .. Len(new)
        BY <1>3, <3>2
      <4> QED BY <2>0, <3>2, <4>1 DEF Messages
    <3> QED BY <3>1, <3>2
  <2>3. line(i) \in Lines /\ move(i) \in Lines
    BY <2>1, <2>2, LinesAreTyped
  <2> HIDE DEF line, move
  <2>4. <<>> \in Seq(Lines) /\ <<line(i), move(i)>> \in Seq(Lines)
    BY <2>3
  <2>5. item(i, TRUE) \in Items /\ item(i, FALSE) \in Items
    BY <1>4, <2>3, <2>4 DEF Item, Items
  <2> QED BY <2>3, <2>5
<1>6. ASSUME NEW k \in 1 .. 2 * Len(new)
      PROVE  /\ (k + 1) \div 2 \in 1 .. Len(new)
             /\ k % 2 = 1 => k + 1 \in 1 .. 2 * Len(new) /\ (k + 2) \div 2 = (k + 1) \div 2 /\ (k + 1) % 2 # 1
             /\ k % 2 # 1 => k > 1 /\ (k - 1) % 2 = 1 /\ k - 1 \in 1 .. 2 * Len(new)
  BY <1>3
<1> HIDE DEF line, move
<1>7. ASSUME NEW k \in 1 .. 2 * Len(new)
      PROVE  items[k] = item((k + 1) \div 2, k % 2 = 1)
  BY <1>3
<1>8. \A k \in 1 .. 2 * Len(new) : items[k] \in Items
  <2> TAKE k \in 1 .. 2 * Len(new)
  <2>1. CASE k % 2 = 1
    BY <2>1, <1>5, <1>6, <1>7
  <2>2. CASE k % 2 # 1
    BY <2>2, <1>5, <1>6, <1>7
  <2> QED BY <2>1, <2>2
<1>9. items \in [1 .. 2 * Len(new) -> Items] /\ 2 * Len(new) \in Nat
  <2> HIDE DEF item
  <2> QED BY <1>3, <1>8
<1> HIDE DEF items
<1>10. items \in Seq(Items) /\ Len(items) = 2 * Len(new) /\ DOMAIN items = 1 .. 2 * Len(new)
  BY <1>9, FunctionIsSeq
<1>11. \A k \in 1 .. 2 * Len(new) :
          k % 2 = 1 => items[k] = Item(line((k + 1) \div 2), <<>>, store.cursor)
  BY <1>7
<1>12. \A k \in 1 .. 2 * Len(new) : k % 2 # 1 =>
          items[k] = Item(move((k + 1) \div 2), <<line((k + 1) \div 2), move((k + 1) \div 2)>>, store.cursor)
  BY <1>7
<1>13. WellFormed(items)
  <2> SUFFICES ASSUME NEW k \in DOMAIN items
               PROVE  \/ items[k].mem = <<items[k].line>>
                      \/ /\ items[k].mem = <<>> /\ k + 1 \in DOMAIN items
                         /\ items[k + 1].mem = <<items[k].line, items[k + 1].line>>
                      \/ /\ Len(items[k].mem) = 2 /\ items[k].mem[2] = items[k].line
                         /\ k > 1 => items[k - 1].mem = <<>>
    BY DEF WellFormed
  <2>0. k \in 1 .. 2 * Len(new)
    BY <1>10
  <2>1. CASE k % 2 = 1
    <3>1. k + 1 \in 1 .. 2 * Len(new) /\ (k + 2) \div 2 = (k + 1) \div 2 /\ (k + 1) % 2 # 1
      BY <1>6, <2>0, <2>1
    <3>2. (k + 1 + 1) \div 2 = (k + 1) \div 2
      BY <3>1, <2>0, <1>3
    <3>3. items[k] = Item(line((k + 1) \div 2), <<>>, store.cursor)
      BY <1>11, <2>0, <2>1
    <3>4. items[k + 1] = Item(move((k + 1) \div 2), <<line((k + 1) \div 2), move((k + 1) \div 2)>>, store.cursor)
      BY <1>12, <3>1, <3>2
    <3> QED BY <1>10, <3>1, <3>3, <3>4 DEF Item
  <2>2. CASE k % 2 # 1
    <3>1. k > 1 /\ (k - 1) % 2 = 1 /\ k - 1 \in 1 .. 2 * Len(new)
      BY <1>6, <2>0, <2>2
    <3>2. items[k] = Item(move((k + 1) \div 2), <<line((k + 1) \div 2), move((k + 1) \div 2)>>, store.cursor)
      BY <1>12, <2>0, <2>2
    <3>a. items[k - 1] = Item(line((k - 1 + 1) \div 2), <<>>, store.cursor)
      BY <1>11, <3>1
    <3>3. items[k - 1].mem = <<>>
      BY <3>a DEF Item
    <3> QED BY <3>2, <3>3 DEF Item
  <2> QED BY <2>1, <2>2
<1>14. Level(items)
  <2> SUFFICES ASSUME items # <<>> PROVE Len(items[1].mem) < 2
    BY DEF Level
  <2>1. 1 \in 1 .. 2 * Len(new) /\ 1 % 2 = 1
    BY <1>10
  <2>2. items[1] = Item(line((1 + 1) \div 2), <<>>, store.cursor)
    BY <1>11, <2>1
  <2>3. items[1].mem = <<>>
    BY <2>2 DEF Item
  <2> QED BY <2>3
<1> QED BY <1>2, <1>10, <1>13, <1>14
(* The place of an id on a path, or 0.                                     *)
LEMMA IndexIsTyped ==
    ASSUME NEW S, NEW path \in Seq(S), NEW id
    PROVE  IndexOf(path, id) \in 0 .. Len(path)
<1>1. CASE Contains(path, id)
  <2>1. \E i \in DOMAIN path : path[i] = id
    BY <1>1 DEF Contains
  <2>2. IndexOf(path, id) \in DOMAIN path
    BY <1>1, <2>1 DEF IndexOf
  <2> QED BY <2>2
<1>2. CASE ~Contains(path, id)
  BY <1>2 DEF IndexOf
<1> QED BY <1>1, <1>2

(* Part of a sequence.                                                     *)
LEMMA SubSeqIsTyped ==
    ASSUME NEW S, NEW q \in Seq(S), NEW m \in Nat, m <= Len(q)
    PROVE  /\ SubSeq(q, m + 1, Len(q)) \in Seq(S) /\ Len(SubSeq(q, m + 1, Len(q))) = Len(q) - m
           /\ SubSeq(q, 1, m) \in Seq(S) /\ Len(SubSeq(q, 1, m)) = m
OBVIOUS

(* Clones counts the nodes with a new id.                                  *)
LEMMA ClonesAreCounted ==
    ASSUME NEW n \in Nat, NEW items, DOMAIN items = 1 .. n
    PROVE  /\ Clones(items) \in Nat
           /\ \A k \in Nat :
                k + 1 <= n /\ (\A i \in 2 .. k + 1 : items[i].line.kind = "node" /\ items[i].line.id > 0)
                => k <= Clones(items)
<1> DEFINE new == {i \in DOMAIN items : items[i].line.kind = "node" /\ items[i].line.id > 0}
<1>1. new \in SUBSET (1 .. n) /\ IsFiniteSet(1 .. n)
  BY FS_Interval
<1>2. Clones(items) = Cardinality(new)
  BY DEF Clones
<1>3. ASSUME NEW k \in Nat, k + 1 <= n,
             \A i \in 2 .. k + 1 : items[i].line.kind = "node" /\ items[i].line.id > 0
      PROVE  2 .. k + 1 \in SUBSET new
  BY <1>3
<1> HIDE DEF new
<1>4. IsFiniteSet(new) /\ Cardinality(new) \in Nat
  BY <1>1, FS_Subset, FS_CardinalityType
<1>5. ASSUME NEW k \in Nat PROVE Cardinality(2 .. k + 1) = k
  <2>1. 2 \in Int /\ k + 1 \in Int
    OBVIOUS
  <2>2. Cardinality(2 .. k + 1) = IF 2 > k + 1 THEN 0 ELSE k + 1 - 2 + 1
    BY <2>1, FS_Interval
  <2> QED BY <2>2
<1>6. ASSUME NEW k \in Nat, 2 .. k + 1 \in SUBSET new
      PROVE  k <= Cardinality(new)
  <2>1. Cardinality(2 .. k + 1) <= Cardinality(new)
    BY <1>4, <1>6, FS_Subset
  <2> QED BY <1>5, <2>1
<1> QED BY <1>2, <1>3, <1>4, <1>6

(* Compact appends the summary, the clones and the head, each entering     *)
(* memory by itself, within the ids it was granted.                        *)
LEMMA CompactIsTyped ==
    ASSUME store \in Stores, next \in 0 .. MaxNodes, NEW from, NEW to \in Ident,
           NEW summary \in Holdings
    PROVE  LET items == CompactItems(from, to, summary)
           IN  /\ Clones(items) \in Nat
               /\ next + Clones(items) <= MaxNodes =>
                    items \in Seq(Items) /\ WellFormed(items) /\ Level(items)
<1>1. store.nodes \in NodeMaps /\ store.head \in Ident /\ store.cursor \in Ident
  BY DEF Stores
<1>2. PICK path : path = activePathIDs(store.nodes, store.head) /\ path \in Seq(DOMAIN store.nodes)
  BY <1>1, PathIsTyped
<1>3. PICK f \in 0 .. Len(path) : f = IndexOf(path, from)
  BY <1>2, IndexIsTyped
<1>4. PICK t \in 0 .. Len(path) : t = IndexOf(path, to)
  BY <1>2, IndexIsTyped
<1>5. PICK retained : /\ retained = SubSeq(path, t + 1, Len(path))
                      /\ retained \in Seq(DOMAIN store.nodes)
  <2>1. t \in Nat /\ t <= Len(path)
    BY <1>2, <1>4
  <2> QED BY <1>2, <2>1, SubSeqIsTyped
<1> DEFINE n == Len(retained)
           clone == [i \in DOMAIN retained |-> next + i]
           parent(i) == IF i = 1 THEN -to ELSE clone[i - 1]
           copy(i) == LET o == store.nodes[retained[i]]
                      IN  Node(Message(clone[i], o.role, o.holds), parent(i))
           folded == Node(Message(-to, "system", summary), IF f > 1 THEN path[f - 1] ELSE 0)
           copies == [i \in DOMAIN retained |-> copy(i)]
           nodes == <<folded>> \o copies
           newHead == parent(Len(retained) + 1)
           move == Mark("head", newHead)
           cursor == remapCursor(retained, clone, newHead)
           first == [i \in DOMAIN nodes |-> Item(nodes[i], <<nodes[i]>>, store.cursor)]
           items == Append(first, Item(move, <<move>>, cursor))
<1>6. CompactItems(from, to, summary) = IF f = 0 \/ t = 0 \/ f > t THEN <<>> ELSE items
  BY <1>2, <1>3, <1>4, <1>5 DEF CompactItems
<1>7. CASE f = 0 \/ t = 0 \/ f > t
  <2>1. CompactItems(from, to, summary) = <<>>
    BY <1>6, <1>7
  <2>2. DOMAIN <<>> = 1 .. 0
    OBVIOUS
  <2>3. Clones(<<>>) \in Nat
    BY <2>2, ClonesAreCounted
  <2> QED BY <2>1, <2>3 DEF WellFormed, Level
<1>8. CASE ~(f = 0 \/ t = 0 \/ f > t)
  <2>1. n \in Nat /\ DOMAIN retained = 1 .. n
    BY <1>5
  <2> HIDE DEF n
  <2>2. copies \in [1 .. n -> {copy(i) : i \in 1 .. n}]
    <3> HIDE DEF copy
    <3> QED BY <2>1
  <2> DEFINE Each == {copy(i) : i \in 1 .. n} \cup {folded}
  <2>3. copies \in Seq(Each) /\ Len(copies) = n /\ \A i \in 1 .. n : copies[i] = copy(i)
    <3> HIDE DEF copy, folded
    <3> QED BY <2>1
  <2> HIDE DEF copies
  <2>4. /\ nodes \in Seq(Each) /\ Len(nodes) = n + 1 /\ DOMAIN nodes = 1 .. n + 1
        /\ nodes[1] = folded
        /\ \A i \in 2 .. n + 1 : nodes[i] = copies[i - 1]
    <3> HIDE DEF Each
    <3>1. folded \in Each
      BY DEF Each
    <3> HIDE DEF folded
    <3> QED BY <2>1, <2>3, <3>1
  <2> HIDE DEF nodes, Each
  <2> DEFINE All == {Item(nodes[i], <<nodes[i]>>, store.cursor) : i \in 1 .. n + 1}
  <2>5. /\ first \in Seq(All) /\ Len(first) = n + 1
        /\ \A i \in 1 .. n + 1 : first[i] = Item(nodes[i], <<nodes[i]>>, store.cursor)
    <3>1. n + 1 \in Nat
      BY <2>1
    <3>2. first \in [1 .. n + 1 -> All]
      BY <2>4
    <3>3. \A i \in 1 .. n + 1 : first[i] = Item(nodes[i], <<nodes[i]>>, store.cursor)
      BY <2>4
    <3> HIDE DEF first, All
    <3> QED BY <3>1, <3>2, <3>3, FunctionIsSeq
  <2> HIDE DEF first
  <2>6. /\ DOMAIN items = 1 .. n + 2 /\ items[n + 2] = Item(move, <<move>>, cursor)
        /\ \A i \in 1 .. n + 1 : items[i] = Item(nodes[i], <<nodes[i]>>, store.cursor)
        /\ items = [i \in 1 .. n + 2 |-> items[i]]
    <3> DEFINE last == Item(move, <<move>>, cursor)
    <3> HIDE DEF last, move, cursor
    <3>1. items = Append(first, last)
      BY DEF last
    <3> HIDE DEF items, All
    <3>2. first \in Seq(All \cup {last}) /\ last \in All \cup {last}
      BY <2>5
    <3>3. /\ items \in Seq(All \cup {last}) /\ Len(items) = n + 2
          /\ items[n + 2] = last /\ \A i \in 1 .. n + 1 : items[i] = first[i]
      BY <2>1, <2>5, <3>1, <3>2
    <3>4. items \in [1 .. n + 2 -> All \cup {last}]
      BY <2>1, <3>3
    <3> QED BY <2>5, <3>3, <3>4 DEF last
  <2> HIDE DEF items
  <2>7. \A i \in 2 .. n + 1 : items[i].line.kind = "node" /\ items[i].line.id > 0
    <3> TAKE i \in 2 .. n + 1
    <3>2. i - 1 \in 1 .. n /\ i \in 1 .. n + 1
      BY <2>1
    <3>a. nodes[i] = copy(i - 1)
      <4> HIDE DEF copy
      <4> QED BY <2>3, <2>4, <3>2
    <3>1. items[i].line = copy(i - 1)
      <4> HIDE DEF copy
      <4>1. items[i] = Item(nodes[i], <<nodes[i]>>, store.cursor)
        BY <2>6, <3>2
      <4>2. items[i].line = nodes[i]
        BY <4>1 DEF Item
      <4> QED BY <3>a, <4>2
    <3>3. copy(i - 1).kind = "node" /\ copy(i - 1).id = next + (i - 1)
      <4> HIDE DEF parent
      <4> QED BY <2>1, <3>2 DEF Node, Message
    <3>4. next + (i - 1) > 0
      BY <2>1, <3>2, Identifiers
    <3> HIDE DEF copy
    <3> QED BY <3>1, <3>3, <3>4
  <2>8. Clones(items) \in Nat /\ n <= Clones(items)
    <3>1. n + 2 \in Nat /\ n + 1 <= n + 2
      BY <2>1
    <3> QED BY <2>1, <2>6, <2>7, <3>1, ClonesAreCounted
  <2>9. ASSUME next + Clones(items) <= MaxNodes
        PROVE  items \in Seq(Items) /\ WellFormed(items) /\ Level(items)
    <3>1. \A i \in 1 .. n : next + i \in Ident /\ clone[i] = next + i
      BY <2>1, <2>8, <2>9, Identifiers
    <3>2. \A i \in 1 .. n + 1 : parent(i) \in Ident
      <4> TAKE i \in 1 .. n + 1
      <4> HIDE DEF clone
      <4>1. CASE i = 1
        BY <4>1, Identifiers
      <4>2. CASE i # 1
        <5>1. i - 1 \in 1 .. n
          BY <2>1, <4>2
        <5> QED BY <4>2, <3>1, <5>1
      <4> QED BY <4>1, <4>2
    <3>3. newHead \in Ident
      <4> HIDE DEF parent
      <4>1. n + 1 \in 1 .. n + 1
        BY <2>1
      <4> QED BY <3>2, <4>1 DEF n
    <3>4. \A i \in 1 .. n : copy(i) \in Lines
      <4> TAKE i \in 1 .. n
      <4>1. retained[i] \in DOMAIN store.nodes
        BY <1>5, <2>1, ElementOfSeq DEF n
      <4>2. store.nodes[retained[i]] \in Nodes
        BY <4>1, <1>1, NodeMap
      <4>3. i \in 1 .. n + 1
        BY <2>1
      <4> HIDE DEF clone, parent
      <4>4. Message(clone[i], store.nodes[retained[i]].role, store.nodes[retained[i]].holds) \in Messages
        BY <3>1, <4>2 DEF Message, Messages, Nodes
      <4> QED BY <3>2, <4>3, <4>4, LinesAreTyped
    <3>5. folded \in Lines
      <4>1. Message(-to, "system", summary) \in Messages
        BY Identifiers DEF Message, Messages, Roles
      <4>2. (IF f > 1 THEN path[f - 1] ELSE 0) \in Ident
        <5>1. CASE f > 1
          <6>1. f - 1 \in 1 .. Len(path)
            BY <1>2, <5>1
          <6>2. path[f - 1] \in DOMAIN store.nodes
            BY <1>2, <6>1, ElementOfSeq
          <6> QED BY <1>1, <5>1, <6>2, NodeMap
        <5>2. CASE ~(f > 1)
          BY <5>2, Identifiers
        <5> QED BY <5>1, <5>2
      <4> QED BY <4>1, <4>2, LinesAreTyped
    <3>6. move \in Lines
      BY <3>3, LinesAreTyped
    <3>7. cursor \in Ident
      <4>1. Contains(retained, store.cursor) =>
              (CHOOSE i \in DOMAIN retained : retained[i] = store.cursor) \in 1 .. n
        <5>1. Contains(retained, store.cursor) => \E i \in DOMAIN retained : retained[i] = store.cursor
          BY <2>1 DEF Contains, n
        <5> QED BY <2>1, <5>1
      <4> HIDE DEF clone, newHead
      <4> QED BY <1>1, <3>1, <3>3, <4>1, Identifiers DEF remapCursor
    <3> HIDE DEF copy, folded, move, cursor, newHead, clone, parent
    <3>8. \A i \in 1 .. n + 1 : nodes[i] \in Lines
      <4> TAKE i \in 1 .. n + 1
      <4>1. CASE i = 1
        BY <4>1, <2>4, <3>5
      <4>2. CASE i # 1
        <5>1. i \in 2 .. n + 1 /\ i - 1 \in 1 .. n
          BY <2>1, <4>2
        <5> QED BY <2>3, <2>4, <3>4, <5>1
      <4> QED BY <4>1, <4>2
    <3>9. \A i \in 1 .. n + 2 : items[i] \in Items /\ items[i].mem = <<items[i].line>>
      <4> TAKE i \in 1 .. n + 2
      <4>1. CASE i = n + 2
        <5>1. <<move>> \in Seq(Lines)
          BY <3>6
        <5>2. Item(move, <<move>>, cursor) \in Items
          BY <3>6, <3>7, <5>1 DEF Item, Items
        <5>3. items[i].mem = <<items[i].line>>
          BY <2>6, <4>1 DEF Item
        <5> QED BY <2>6, <4>1, <5>2, <5>3
      <4>2. CASE i # n + 2
        <5>1. i \in 1 .. n + 1
          BY <2>1, <4>2
        <5>2. nodes[i] \in Lines /\ items[i] = Item(nodes[i], <<nodes[i]>>, store.cursor)
          BY <2>6, <3>8, <5>1
        <5>3. <<nodes[i]>> \in Seq(Lines)
          BY <5>2
        <5> QED BY <1>1, <5>2, <5>3 DEF Item, Items
      <4> QED BY <4>1, <4>2
    <3>11. items \in [1 .. n + 2 -> Items] /\ n + 2 \in Nat
      BY <2>1, <2>6, <3>9
    <3>12. items \in Seq(Items)
      BY <3>11, FunctionIsSeq
    <3>13. WellFormed(items)
      BY <2>6, <3>9 DEF WellFormed
    <3>14. 1 \in 1 .. n + 2
      BY <2>1
    <3>15. Len(items[1].mem) = 1
      <4>1. items[1].mem = <<items[1].line>>
        BY <3>9, <3>14
      <4> QED BY <4>1
    <3> QED BY <3>12, <3>13, <3>15 DEF Level
  <2> QED BY <1>6, <1>8, <2>8, <2>9
<1> QED BY <1>7, <1>8
(* The least of a set of numbers is one of them.                           *)
LEMMA MinIsLeast ==
    ASSUME NEW S, S \subseteq Nat, S # {}
    PROVE  Min(S) \in S
<1>1. \E n \in S : \A m \in S : n <= m
  BY LeastNat
<1> QED BY <1>1 DEF Min

(* The greatest of a range of numbers is one of them.                      *)
LEMMA MaxIsGreatest ==
    ASSUME NEW S, S \subseteq Int, S # {}, NEW b \in Int, \A m \in S : m <= b
    PROVE  Max(S) \in S
<1>1. \E n \in S : \A m \in S : n >= m
  BY GreatestInt
<1> QED BY <1>1 DEF Max

(* The content of messages is a set of messages.                           *)
LEMMA ContentIsTyped ==
    ASSUME NEW M, NEW ms \in Seq(M), \A m \in M : m.holds \in Holdings
    PROVE  Content(ms) \in Holdings
<1>1. \A i \in DOMAIN ms : ms[i] \in M
  OBVIOUS
<1> QED BY <1>1 DEF Content, Holdings

(* The cut lies in the sequence and leaves something behind it.            *)
LEMMA SplitIsTyped ==
    ASSUME NEW M, NEW ms \in Seq(M)
    PROVE  splitPoint(ms) \in 0 .. Len(ms)
<1> DEFINE safe == {n \in 2 .. Len(ms) - KeepLast : ms[n].role /= "call" /\ ms[n + 1].role /= "tool"}
<1>1. Len(ms) \in Nat /\ KeepLast \in Nat
  BY Identifiers
<1>2. splitPoint(ms) = IF KeepLast = 0 \/ safe = {} THEN 0 ELSE Max(safe)
  BY DEF splitPoint
<1>3. safe \subseteq 2 .. Len(ms) - KeepLast
  OBVIOUS
<1> HIDE DEF safe
<1>4. CASE KeepLast = 0 \/ safe = {}
  BY <1>1, <1>2, <1>4
<1>5. CASE ~(KeepLast = 0 \/ safe = {})
  <2>1. safe \subseteq Int /\ Len(ms) - KeepLast \in Int /\ \A m \in safe : m <= Len(ms) - KeepLast
    BY <1>1, <1>3
  <2>2. Max(safe) \in safe
    BY <1>5, <2>1, MaxIsGreatest
  <2>3. PICK m \in 2 .. Len(ms) - KeepLast : m = Max(safe)
    BY <1>3, <2>2
  <2> QED BY <1>1, <1>2, <1>5, <2>3
<1> QED BY <1>4, <1>5

(* The leading system messages are a prefix.                               *)
LEMMA LeadingIsTyped ==
    ASSUME NEW M, NEW ms \in Seq(M)
    PROVE  Leading(ms) \in 0 .. Len(ms)
<1> DEFINE other == {i \in DOMAIN ms : ~System(ms[i])}
<1>1. Len(ms) \in Nat /\ other \subseteq 1 .. Len(ms)
  OBVIOUS
<1>2. Leading(ms) = IF other = {} THEN Len(ms) ELSE Min(other) - 1
  BY DEF Leading
<1> HIDE DEF other
<1>3. other # {} => Min(other) \in other
  <2>1. other \subseteq Nat
    BY <1>1
  <2> QED BY <2>1, MinIsLeast
<1>4. CASE other = {}
  BY <1>1, <1>2, <1>4
<1>5. CASE other # {}
  <2>1. PICK m \in 1 .. Len(ms) : m = Min(other)
    BY <1>1, <1>3, <1>5
  <2> QED BY <1>1, <1>2, <1>5, <2>1
<1> QED BY <1>4, <1>5

(* Compressing messages gives messages.                                    *)
LEMMA CompressIsTyped ==
    ASSUME NEW M, NEW ms \in Seq(M), NEW protect \in BOOLEAN, \A m \in M : m.holds \in Holdings,
           \A c \in Holdings : Message(next + 1, "system", c) \in M
    PROVE  Compress(ms, protect) \in Seq(M)
<1>1. PICK k \in 0 .. Len(ms) : k = IF protect THEN Leading(ms) ELSE 0
  BY LeadingIsTyped
<1>2. PICK body \in Seq(M) : body = SubSeq(ms, k + 1, Len(ms))
  <2>1. k \in Nat /\ k <= Len(ms)
    OBVIOUS
  <2> QED BY <2>1, SubSeqIsTyped
<1>3. PICK n \in 0 .. Len(body) : n = splitPoint(body)
  BY SplitIsTyped
<1>4. SubSeq(body, 1, n) \in Seq(M) /\ SubSeq(body, n + 1, Len(body)) \in Seq(M)
  BY SubSeqIsTyped
<1>5. SubSeq(ms, 1, k) \in Seq(M)
  BY SubSeqIsTyped
<1>6. PICK m \in M : m = Message(next + 1, "system", Content(SubSeq(body, 1, n)))
  BY <1>4, ContentIsTyped
<1>7. Compress(ms, protect) = IF n = 0 THEN ms
                              ELSE SubSeq(ms, 1, k) \o <<m>> \o SubSeq(body, n + 1, Len(body))
  BY <1>1, <1>2, <1>3, <1>6 DEF Compress
<1>8. <<m>> \in Seq(M)
  OBVIOUS
<1>9. SubSeq(ms, 1, k) \o <<m>> \in Seq(M)
  BY <1>5, <1>8, ConcatProperties
<1>10. SubSeq(ms, 1, k) \o <<m>> \o SubSeq(body, n + 1, Len(body)) \in Seq(M)
  BY <1>4, <1>9, ConcatProperties
<1> QED BY <1>7, <1>10

(* A recognised compaction covers part of the old messages, and there is a *)
(* message that stands for it.                                             *)
LEMMA DetectIsTyped ==
    ASSUME NEW S, NEW T, NEW old \in Seq(S), NEW new \in Seq(T)
    PROVE  /\ DetectCompact(old, new) \in 0 .. Len(old)
           /\ DetectCompact(old, new) # 0 => new # <<>>
<1> DEFINE kept == {i \in DOMAIN old : old[i].id \in Ids(new)}
<1>1. Len(old) \in Nat /\ kept \subseteq 1 .. Len(old)
  OBVIOUS
<1>2. DetectCompact(old, new) = IF Len(new) >= Len(old) \/ new = <<>> THEN 0
                                ELSE IF ~System(new[1]) THEN 0
                                ELSE IF kept = {} THEN Len(old)
                                ELSE Min(kept) - 1
  BY DEF DetectCompact
<1> HIDE DEF kept
<1>3. kept # {} => Min(kept) \in kept
  <2>1. kept \subseteq Nat
    BY <1>1
  <2> QED BY <2>1, MinIsLeast
<1>4. kept # {} => Min(kept) - 1 \in 0 .. Len(old)
  <2> SUFFICES ASSUME kept # {} PROVE Min(kept) - 1 \in 0 .. Len(old)
    OBVIOUS
  <2>1. PICK m \in 1 .. Len(old) : m = Min(kept)
    BY <1>1, <1>3
  <2> QED BY <1>1, <2>1
<1>5. DetectCompact(old, new) \in {0, Len(old)} \/ (kept # {} /\ DetectCompact(old, new) = Min(kept) - 1)
  BY <1>2
<1> QED BY <1>1, <1>2, <1>4, <1>5

DiskTyped ==
    /\ file \in Stores /\ before \in Stores
    /\ tail \in {"clean", "torn", "unterminated"} /\ spoiled \in BOOLEAN

MemoryTyped == store \in Stores /\ conv \in Seq(Messages) /\ hist \in Seq(Messages)

TodoTyped ==
    /\ stage \in Stages /\ todo \in Seq(Items) /\ WellFormed(todo)
    /\ todo # <<>> => stage \in DOMAIN afterFailure

CountsTyped ==
    /\ next \in 0 .. MaxNodes /\ used \in [DOMAIN Bounded -> Nat] /\ used["turns"] <= MaxTurns
    /\ fresh \in Holdings /\ told \in Holdings /\ fed \in Holdings /\ dirty \in BOOLEAN
    /\ stage = "accept" => next < MaxNodes
    /\ stage \in {"run", "runCompact"} => hist # <<>>

TypeInv == DiskTyped /\ MemoryTyped /\ TodoTyped /\ CountsTyped

(* A line written behind any tail leaves a typed file.                     *)
LEMMA WrittenIsTyped ==
    ASSUME DiskTyped, NEW line \in Lines, Written(line)
    PROVE  DiskTyped'
<1>1. Add(file, line) \in Stores
  BY AddIsTyped DEF DiskTyped
<1> QED BY <1>1 DEF Written, DiskTyped

(* So does part of a line.                                                 *)
LEMMA TornIsTyped ==
    ASSUME DiskTyped, Torn
    PROVE  DiskTyped'
BY DEF Torn, DiskTyped

(* What the next append is about.                                          *)
LEMMA FirstItem ==
    ASSUME TodoTyped, todo # <<>>
    PROVE  /\ todo[1] \in Items /\ todo[1].line \in Lines /\ todo[1].mem \in Seq(Lines)
           /\ todo[1].cursor \in Ident
           /\ Len(todo[1].mem) \in 0 .. 2
           /\ stage \in DOMAIN afterFailure
<1>1. todo \in Seq(Items) /\ 1 \in DOMAIN todo
  BY DEF TodoTyped
<1>2. todo[1] \in Items
  BY <1>1, ElementOfSeq
<1>3. todo[1].line \in Lines /\ todo[1].mem \in Seq(Lines) /\ todo[1].cursor \in Ident
  BY <1>2 DEF Items
<1>4. Len(todo[1].mem) \in 0 .. 2
  <2>1. \/ todo[1].mem = <<todo[1].line>> \/ todo[1].mem = <<>> \/ Len(todo[1].mem) = 2
    BY <1>1 DEF TodoTyped, WellFormed
  <2>2. Len(<<todo[1].line>>) = 1 /\ Len(<<>>) = 0
    OBVIOUS
  <2>3. CASE todo[1].mem = <<todo[1].line>>
    BY <2>2, <2>3
  <2>4. CASE todo[1].mem = <<>>
    BY <2>2, <2>4
  <2>5. CASE Len(todo[1].mem) = 2
    BY <2>5
  <2> QED BY <2>1, <2>3, <2>4, <2>5
<1> QED BY <1>2, <1>3, <1>4 DEF TodoTyped

(* The appends left after one of them.                                     *)
LEMMA TailIsWellFormed ==
    ASSUME TodoTyped, todo # <<>>
    PROVE  /\ Tail(todo) \in Seq(Items) /\ WellFormed(Tail(todo))
           /\ Len(Tail(todo)) = Len(todo) - 1 /\ DOMAIN Tail(todo) = 1 .. Len(todo) - 1
           /\ \A i \in DOMAIN Tail(todo) : Tail(todo)[i] = todo[i + 1]
<1>1. todo \in Seq(Items) /\ Len(todo) \in Nat /\ Len(todo) > 0 /\ DOMAIN todo = 1 .. Len(todo)
  BY DEF TodoTyped
<1>2. PICK rest : rest = Tail(todo)
  OBVIOUS
<1>3. /\ rest \in Seq(Items) /\ Len(rest) = Len(todo) - 1 /\ DOMAIN rest = 1 .. Len(todo) - 1
      /\ \A i \in DOMAIN rest : rest[i] = todo[i + 1]
  BY <1>1, <1>2
<1>4. WellFormed(rest)
  <2> SUFFICES ASSUME NEW i \in DOMAIN rest
               PROVE  \/ rest[i].mem = <<rest[i].line>>
                      \/ /\ rest[i].mem = <<>> /\ i + 1 \in DOMAIN rest
                         /\ rest[i + 1].mem = <<rest[i].line, rest[i + 1].line>>
                      \/ /\ Len(rest[i].mem) = 2 /\ rest[i].mem[2] = rest[i].line
                         /\ i > 1 => rest[i - 1].mem = <<>>
    BY DEF WellFormed
  <2>1. i + 1 \in DOMAIN todo /\ rest[i] = todo[i + 1] /\ i \in Nat
    BY <1>1, <1>3
  <2>2. CASE todo[i + 1].mem = <<todo[i + 1].line>>
    BY <2>1, <2>2
  <2>3. CASE /\ todo[i + 1].mem = <<>> /\ i + 1 + 1 \in DOMAIN todo
             /\ todo[i + 1 + 1].mem = <<todo[i + 1].line, todo[i + 1 + 1].line>>
    <3>1. i + 1 \in DOMAIN rest
      BY <1>1, <1>3, <2>1, <2>3
    <3>2. rest[i + 1] = todo[i + 1 + 1]
      BY <1>3, <3>1
    <3> QED BY <2>1, <2>3, <3>1, <3>2
  <2>4. CASE /\ Len(todo[i + 1].mem) = 2 /\ todo[i + 1].mem[2] = todo[i + 1].line
             /\ i + 1 > 1 => todo[i + 1 - 1].mem = <<>>
    <3>1. i > 1 => rest[i - 1] = todo[i] /\ i + 1 - 1 = i
      BY <1>1, <1>3, <2>1
    <3> QED BY <2>1, <2>4, <3>1
  <2>5. WellFormed(todo)
    BY DEF TodoTyped
  <2>6. \/ todo[i + 1].mem = <<todo[i + 1].line>>
        \/ /\ todo[i + 1].mem = <<>> /\ i + 1 + 1 \in DOMAIN todo
           /\ todo[i + 1 + 1].mem = <<todo[i + 1].line, todo[i + 1 + 1].line>>
        \/ /\ Len(todo[i + 1].mem) = 2 /\ todo[i + 1].mem[2] = todo[i + 1].line
           /\ i + 1 > 1 => todo[i + 1 - 1].mem = <<>>
    BY <2>1, <2>5 DEF WellFormed
  <2> QED BY <2>2, <2>3, <2>4, <2>6
<1> QED BY <1>2, <1>3, <1>4

(* What enters memory with an append.                                      *)
LEMMA AddAllIsTyped ==
    ASSUME NEW s \in Stores, NEW lines \in Seq(Lines), Len(lines) \in 0 .. 2
    PROVE  AddAll(s, lines) \in Stores
<1>1. CASE Len(lines) = 0
  BY <1>1 DEF AddAll
<1>2. CASE Len(lines) = 1
  <2>1. lines[1] \in Lines /\ lines # <<>>
    BY <1>2, ElementOfSeq
  <2> QED BY <1>2, <2>1, AddIsTyped DEF AddAll
<1>3. CASE Len(lines) = 2
  <2>1. lines[1] \in Lines /\ lines[2] \in Lines /\ lines # <<>>
    BY <1>3, ElementOfSeq
  <2>2. AddAll(s, lines) = Add(Add(s, lines[1]), lines[2])
    BY <1>3, <2>1 DEF AddAll
  <2> QED BY <2>1, <2>2, AddIsTyped
<1> QED BY <1>1, <1>2, <1>3

(* Moving the cursor.                                                      *)
LEMMA CursorIsTyped ==
    ASSUME NEW s \in Stores, NEW c \in Ident
    PROVE  [s EXCEPT !.cursor = c] \in Stores
BY DEF Stores

(* An operation of a single append.                                        *)
LEMMA OneIsTyped ==
    ASSUME store \in Stores, NEW line \in Lines
    PROVE  One(line) \in Seq(Items) /\ WellFormed(One(line)) /\ Level(One(line)) /\ One(line) # <<>>
<1>1. store.cursor \in Ident
  BY DEF Stores
<1>2. <<line>> \in Seq(Lines)
  OBVIOUS
<1>3. Item(line, <<line>>, store.cursor) \in Items
  BY <1>1, <1>2 DEF Item, Items
<1>4. /\ One(line) \in Seq(Items) /\ DOMAIN One(line) = {1}
      /\ One(line)[1] = Item(line, <<line>>, store.cursor) /\ One(line) # <<>>
  BY <1>3 DEF One
<1>5. One(line)[1].mem = <<line>> /\ One(line)[1].line = line
  BY <1>4 DEF Item
<1>6. WellFormed(One(line))
  BY <1>4, <1>5 DEF WellFormed
<1>7. Level(One(line))
  <2>1. Len(<<line>>) = 1
    OBVIOUS
  <2> QED BY <1>5, <2>1 DEF Level
<1> QED BY <1>4, <1>6, <1>7

(* An operation that appends nothing.                                      *)
LEMMA NoneIsWellFormed == <<>> \in Seq(Items) /\ WellFormed(<<>>) /\ Level(<<>>)
BY DEF WellFormed, Level

(* Counting a bounded event keeps the counters typed.                      *)
LEMMA SpendIsTyped ==
    ASSUME used \in [DOMAIN Bounded -> Nat], used["turns"] <= MaxTurns, NEW e \in DOMAIN Bounded, Spend(e)
    PROVE  /\ used' \in [DOMAIN Bounded -> Nat] /\ used'["turns"] <= MaxTurns
           /\ used'["turns"] = IF e = "turns" THEN used["turns"] + 1 ELSE used["turns"]
<1>1. "turns" \in DOMAIN Bounded /\ Bounded["turns"] = MaxTurns /\ MaxTurns \in Nat
  BY StoreBounds DEF Bounded
<1>2. used' = [used EXCEPT ![e] = @ + 1]
  BY DEF Spend
<1>3. e = "turns" => used["turns"] < MaxTurns
  BY <1>1 DEF Spend
<1> QED BY <1>1, <1>2, <1>3

(* The bounded events.                                                     *)
LEMMA EventNames ==
    DOMAIN Bounded = {"turns", "feeds", "rewinds", "faults", "crashes"}
BY DEF Bounded

(* The stages that append, and where a failure leaves them.                *)
LEMMA StageNames ==
    /\ DOMAIN afterFailure = {"runCompact", "commit", "checkpoint", "cursor",
                              "consolidate", "compact", "rewind"}
    /\ \A s \in DOMAIN afterFailure : afterFailure[s] \in {"failed", "refresh", "idle", "compress"}
    /\ afterFailure["cursor"] = "idle" /\ afterFailure["consolidate"] = "compress"
BY DEF afterFailure

(* The fields of a message.                                                *)
LEMMA MessagesAreTyped ==
    /\ \A m \in Messages : m.holds \in Holdings /\ m.id \in Ident
    /\ \A i \in Ident, r \in Roles, c \in Holdings : Message(i, r, c) \in Messages
BY DEF Messages, Message
(* A step that leaves the file alone keeps its type.                       *)
LEMMA DiskStays ==
    ASSUME DiskTyped, DiskSame
    PROVE  DiskTyped'
BY DEF DiskTyped, DiskSame

(* Both views are sequences of messages.                                   *)
LEMMA ViewsAreTyped ==
    ASSUME DiskTyped, MemoryTyped
    PROVE  ActiveView \in Seq(Messages) /\ OnDisk \in Seq(Messages)
           /\ \A h : buildActiveView(store.nodes, h) \in Seq(Messages)
<1>1. store.nodes \in NodeMaps /\ file.nodes \in NodeMaps
  BY DEF DiskTyped, MemoryTyped, Stores
<1> QED BY <1>1, ViewIsTyped DEF ActiveView, OnDisk

(* The types hold at the start.                                            *)
LEMMA TypeInit == Init => TypeInv
<1> SUFFICES ASSUME Init PROVE TypeInv
  OBVIOUS
<1>1. Nothing \in Stores
  <2>1. <<>> \in NodeMaps
    <3>1. DOMAIN <<>> = {}
      OBVIOUS
    <3>2. <<>> \in [{} -> Nodes]
      OBVIOUS
    <3> QED BY <3>2 DEF NodeMaps
  <2> QED BY <2>1, Identifiers DEF Nothing, Stores
<1>2. DiskTyped
  BY <1>1 DEF Init, DiskTyped
<1>a. MemoryTyped
  <2>1. <<>> \in Seq(Messages)
    OBVIOUS
  <2>2. store = Nothing /\ conv = <<>> /\ hist = <<>>
    BY DEF Init
  <2> QED BY <1>1, <2>1, <2>2 DEF MemoryTyped
<1>3. TodoTyped
  BY NoneIsWellFormed DEF Init, TodoTyped, Stages
<1>4. CountsTyped
  <2>1. /\ used \in [DOMAIN Bounded -> Nat] /\ used["turns"] = 0 /\ MaxTurns \in Nat
        /\ MaxNodes \in Nat
    BY StoreBounds, EventNames DEF Init
  <2>2. next = 0 /\ fresh = {} /\ told = {} /\ fed = {} /\ dirty = FALSE /\ stage = "idle"
    BY DEF Init
  <2>3. {} \in Holdings
    BY DEF Holdings
  <2>4. next \in 0 .. MaxNodes /\ used["turns"] <= MaxTurns
    BY <2>1, <2>2
  <2> QED BY <2>1, <2>2, <2>3, <2>4 DEF CountsTyped
<1> QED BY <1>2, <1>a, <1>3, <1>4 DEF TypeInv

(* An append keeps the types.                                              *)
LEMMA appendIsTyped ==
    ASSUME TypeInv, appendRecord
    PROVE  TypeInv'
<1> USE DEF TypeInv
<1>1. todo # <<>> /\ Written(todo[1].line) /\ todo' = Tail(todo)
      /\ store' = AddAll([store EXCEPT !.cursor = todo[1].cursor], todo[1].mem)
      /\ UNCHANGED <<conv, stage, hist, next, fresh, told, fed, dirty, used>>
  BY DEF appendRecord
<1>2. DiskTyped'
  BY <1>1, FirstItem, WrittenIsTyped
<1>3. store' \in Stores
  <2>1. [store EXCEPT !.cursor = todo[1].cursor] \in Stores
    BY <1>1, FirstItem, CursorIsTyped DEF MemoryTyped
  <2> QED BY <1>1, <2>1, FirstItem, AddAllIsTyped
<1>4. MemoryTyped'
  BY <1>1, <1>3 DEF MemoryTyped
<1>5. TodoTyped'
  BY <1>1, FirstItem, TailIsWellFormed DEF TodoTyped
<1>6. CountsTyped'
  BY <1>1 DEF CountsTyped
<1> QED BY <1>2, <1>4, <1>5, <1>6

(* So does one that fails.                                                 *)
LEMMA failureIsTyped ==
    ASSUME TypeInv, AppendFails
    PROVE  TypeInv'
<1> USE DEF TypeInv
<1>1. /\ todo # <<>> /\ Spend("faults") /\ todo' = <<>> /\ stage' = afterFailure[stage]
      /\ dirty' = TRUE
      /\ DiskSame \/ Written(todo[1].line) \/ Torn
      /\ store' = [store EXCEPT !.cursor = todo[1].cursor]
      /\ UNCHANGED <<conv, hist, next, fresh, told, fed>>
  BY DEF AppendFails
<1>2. DiskTyped'
  BY <1>1, FirstItem, WrittenIsTyped, TornIsTyped, DiskStays
<1>3. MemoryTyped'
  BY <1>1, FirstItem, CursorIsTyped DEF MemoryTyped
<1>4. stage' \in {"failed", "refresh", "idle", "compress"}
  BY <1>1, FirstItem, StageNames
<1>5. TodoTyped'
  BY <1>1, <1>4, NoneIsWellFormed DEF TodoTyped, Stages
<1>6. CountsTyped'
  BY <1>1, <1>4, SpendIsTyped, EventNames DEF CountsTyped
<1> QED BY <1>2, <1>3, <1>5, <1>6

(* An event that is appended to the journal touches nothing else.          *)
LEMMA EventAlone ==
    ASSUME JournalEvent
    PROVE  /\ UNCHANGED <<file, tail, before, spoiled, store, conv, stage, todo, hist>>
           /\ UNCHANGED <<scan, glued, next, fresh, told, fed>>
           /\ stage \in Running
           /\ UNCHANGED <<dirty, used>> \/ (Spend("faults") /\ dirty' = TRUE)
BY DEF JournalEvent, DiskSame, StoreSame

(* So it keeps the types.                                                  *)
LEMMA eventIsTyped ==
    ASSUME TypeInv, JournalEvent
    PROVE  TypeInv'
<1> USE DEF TypeInv
<1>1. DiskTyped' /\ MemoryTyped'
  BY EventAlone DEF DiskTyped, MemoryTyped
<1>2. TodoTyped'
  BY EventAlone DEF TodoTyped
<1>3. CountsTyped'
  BY EventAlone, SpendIsTyped, EventNames DEF CountsTyped
<1> QED BY <1>1, <1>2, <1>3

(* So do the steps of a run that append nothing.                           *)
LEMMA runIsTyped ==
    ASSUME TypeInv, BeginRun \/ AcceptRun \/ AcceptFails \/ EndRun
    PROVE  TypeInv'
<1> USE DEF TypeInv
<1>1. CASE BeginRun
  <2>1. DiskTyped' /\ MemoryTyped'
    BY <1>1, DiskStays DEF BeginRun, StoreSame, MemoryTyped
  <2>2. TodoTyped'
    BY <1>1, StageNames DEF BeginRun, TodoTyped, Stages
  <2>3. CountsTyped'
    BY <1>1, SpendIsTyped, EventNames, Identifiers DEF BeginRun, CountsTyped
  <2> QED BY <2>1, <2>2, <2>3
<1>2. CASE AcceptRun
  <2>1. next + 1 \in Ident /\ next + 1 \in 0 .. MaxNodes /\ {next + 1} \in Holdings
    BY <1>2, Identifiers DEF AcceptRun, CountsTyped, Holdings
  <2>2. PICK m \in Messages : m = Message(next + 1, "user", {next + 1})
    BY <2>1, MessagesAreTyped DEF Roles
  <2>3. hist' \in Seq(Messages) /\ hist' # <<>>
    BY <1>2, <2>2 DEF AcceptRun, MemoryTyped
  <2>4. DiskTyped' /\ MemoryTyped'
    BY <1>2, <2>3, DiskStays DEF AcceptRun, StoreSame, MemoryTyped
  <2>5. TodoTyped'
    BY <1>2, StageNames DEF AcceptRun, TodoTyped, Stages
  <2>6. CountsTyped'
    BY <1>2, <2>1, <2>3 DEF AcceptRun, CountsTyped
  <2> QED BY <2>4, <2>5, <2>6
<1>3. CASE AcceptFails
  <2>1. DiskTyped' /\ MemoryTyped'
    BY <1>3, DiskStays DEF AcceptFails, StoreSame, MemoryTyped
  <2>2. TodoTyped'
    BY <1>3, StageNames DEF AcceptFails, TodoTyped, Stages
  <2>3. CountsTyped'
    BY <1>3, SpendIsTyped, EventNames DEF AcceptFails, CountsTyped
  <2> QED BY <2>1, <2>2, <2>3
<1>4. CASE EndRun
  <2>0. /\ stage \in {"completed", "failed"} /\ stage' = "idle" /\ hist' = <<>> /\ fresh' = {}
        /\ UNCHANGED <<conv, todo, next, told, fed, store>> /\ DiskSame
        /\ UNCHANGED <<dirty, used>> \/ (Spend("faults") /\ dirty' = TRUE)
    BY <1>4 DEF EndRun, StoreSame
  <2>1. DiskTyped' /\ MemoryTyped'
    BY <2>0, DiskStays DEF MemoryTyped
  <2>2. TodoTyped'
    BY <2>0, StageNames DEF TodoTyped, Stages
  <2>3. CountsTyped'
    BY <2>0, SpendIsTyped, EventNames DEF CountsTyped, Holdings
  <2> QED BY <2>1, <2>2, <2>3
<1> QED BY <1>1, <1>2, <1>3, <1>4

(* So does an answer of the model, compressed or not.                      *)
LEMMA ReplyIsTyped ==
    ASSUME TypeInv, Reply
    PROVE  TypeInv'
<1> USE DEF TypeInv
<1>1. PICK h \in {hist, Compress(hist, TRUE)} :
         LET id == IF h = hist THEN next + 1 ELSE next + 2 IN
         \/ /\ id <= MaxNodes
            /\ hist' = Append(h, Message(id, "assistant", {id}))
            /\ fresh' = fresh \cup {id}
            /\ next' = id
         \/ /\ id + 1 < MaxNodes /\ Cardinality(fresh) < 2 * MaxCalls
            /\ hist' = h \o <<Message(id, "call", {id}), Message(id + 1, "tool", {id + 1})>>
            /\ fresh' = fresh \cup {id, id + 1}
            /\ next' = id + 1
  BY DEF Reply
<1>2. /\ stage = "run" /\ UNCHANGED <<conv, stage, todo, told, fed, dirty, used>>
      /\ DiskSame /\ StoreSame
  BY DEF Reply
<1>3. next \in Nat /\ next <= MaxNodes /\ fresh \in Holdings
  BY Identifiers DEF CountsTyped
<1>4. PICK id \in Nat : id = IF h = hist THEN next + 1 ELSE next + 2
  BY <1>3
<1>5. h # hist /\ next + 1 <= MaxNodes => h \in Seq(Messages)
  <2> SUFFICES ASSUME h # hist, next + 1 <= MaxNodes PROVE h \in Seq(Messages)
    OBVIOUS
  <2>1. next + 1 \in Ident
    BY <1>3, Identifiers
  <2>2. \A c \in Holdings : Message(next + 1, "system", c) \in Messages
    BY <2>1, MessagesAreTyped DEF Roles
  <2>3. Compress(hist, TRUE) \in Seq(Messages)
    BY <2>2, MessagesAreTyped, CompressIsTyped DEF MemoryTyped
  <2> QED BY <2>3
<1>6. CASE /\ id <= MaxNodes
           /\ hist' = Append(h, Message(id, "assistant", {id}))
           /\ fresh' = fresh \cup {id}
           /\ next' = id
  <2>1. h \in Seq(Messages) /\ id \in 1 .. MaxNodes /\ id \in Ident
    BY <1>3, <1>4, <1>5, <1>6, Identifiers DEF MemoryTyped
  <2>2. PICK m \in Messages : m = Message(id, "assistant", {id})
    BY <2>1, MessagesAreTyped DEF Roles, Holdings
  <2>3. hist' \in Seq(Messages) /\ hist' # <<>>
    BY <1>6, <2>1, <2>2
  <2>4. next' \in 0 .. MaxNodes /\ fresh' \in Holdings
    BY <1>3, <1>6, <2>1 DEF Holdings
  <2> QED BY <1>2, <2>3, <2>4, DiskStays DEF MemoryTyped, TodoTyped, CountsTyped, StoreSame
<1>7. CASE /\ id + 1 < MaxNodes
           /\ hist' = h \o <<Message(id, "call", {id}), Message(id + 1, "tool", {id + 1})>>
           /\ fresh' = fresh \cup {id, id + 1}
           /\ next' = id + 1
  <2>1. /\ h \in Seq(Messages) /\ id \in 1 .. MaxNodes /\ id \in Ident
        /\ id + 1 \in 1 .. MaxNodes /\ id + 1 \in Ident
    BY <1>3, <1>4, <1>5, <1>7, Identifiers DEF MemoryTyped
  <2>2. PICK m \in Messages : m = Message(id, "call", {id})
    BY <2>1, MessagesAreTyped DEF Roles, Holdings
  <2>3. PICK r \in Messages : r = Message(id + 1, "tool", {id + 1})
    BY <2>1, MessagesAreTyped DEF Roles, Holdings
  <2>4. hist' = h \o <<m, r>> /\ <<m, r>> \in Seq(Messages) /\ Len(<<m, r>>) = 2
    BY <1>7, <2>2, <2>3
  <2>5. hist' \in Seq(Messages) /\ Len(hist') = Len(h) + 2
    BY <2>1, <2>4
  <2>a. hist' # <<>>
    BY <2>1, <2>5
  <2>6. next' \in 0 .. MaxNodes /\ fresh' \in Holdings
    BY <1>3, <1>7, <2>1 DEF Holdings
  <2> QED BY <1>2, <2>5, <2>a, <2>6, DiskStays DEF MemoryTyped, TodoTyped, CountsTyped, StoreSame
<1> QED BY <1>1, <1>4, <1>6, <1>7
(* An operation that has just prepared its appends. *)
LEMMA preparedIsTyped ==
    ASSUME TypeInv, DiskSame, StoreSame, UNCHANGED <<conv, hist, used, fresh, dirty>>,
           stage' \in Stages,
           todo' \in Seq(Items), WellFormed(todo'), todo' # <<>> => stage' \in DOMAIN afterFailure,
           next' \in 0 .. MaxNodes, told' \in Holdings, fed' \in Holdings,
           stage' # "accept", stage' \notin {"run", "runCompact"} \/ hist # <<>>
    PROVE  TypeInv'
BY DiskStays DEF TypeInv, MemoryTyped, TodoTyped, CountsTyped, StoreSame

(* So does the commit block, and its appends begin a group.                *)
LEMMA FinishIsTyped ==
    ASSUME TypeInv, FinishRun
    PROVE  TypeInv' /\ Level(todo')
<1>1. PICK k \in 0 .. Len(conv) : k = DetectCompact(conv, hist)
  BY DetectIsTyped DEF TypeInv, MemoryTyped
<1>2. /\ stage = "run" /\ UNCHANGED <<conv, hist, fresh, told, fed, dirty, used>>
      /\ DiskSame /\ StoreSame
  BY DEF FinishRun
<1>3. /\ store \in Stores /\ conv \in Seq(Messages) /\ hist \in Seq(Messages)
      /\ next \in 0 .. MaxNodes /\ hist # <<>>
      /\ told \in Holdings /\ fed \in Holdings
  BY <1>2 DEF TypeInv, MemoryTyped, CountsTyped
<1>4. CASE k = 0
  <2>1. todo' = CommitItems(hist) /\ next' = next /\ stage' = "commit"
    BY <1>1, <1>4 DEF FinishRun
  <2>2. todo' \in Seq(Items) /\ WellFormed(todo') /\ Level(todo')
    BY <1>3, <2>1, CommitIsTyped
  <2> QED BY <1>2, <1>3, <2>1, <2>2, preparedIsTyped, StageNames DEF Stages
<1>5. CASE k # 0
  <2>1. PICK items : items = CompactItems(conv[1].id, conv[k].id, hist[1].holds)
    OBVIOUS
  <2>2. /\ next + Clones(items) <= MaxNodes /\ todo' = items /\ next' = next + Clones(items)
        /\ stage' = IF items = <<>> THEN "failed" ELSE "runCompact"
    BY <1>1, <1>5, <2>1 DEF FinishRun
  <2>3. conv[k] \in Messages /\ hist[1] \in Messages
    BY <1>1, <1>3, <1>5, ElementOfSeq
  <2>4. conv[k].id \in Ident /\ hist[1].holds \in Holdings
    BY <2>3, MessagesAreTyped
  <2>5. Clones(items) \in Nat /\ items \in Seq(Items) /\ WellFormed(items) /\ Level(items)
    BY <1>3, <2>1, <2>2, <2>4, CompactIsTyped
  <2>6. next' \in 0 .. MaxNodes
    BY <1>3, <2>2, <2>5, Identifiers
  <2> QED BY <1>2, <1>3, <2>2, <2>5, <2>6, preparedIsTyped, StageNames DEF Stages
<1> QED BY <1>4, <1>5

(* So does the commit behind a fold.                                       *)
LEMMA CommitRestIsTyped ==
    ASSUME TypeInv, CommitRest
    PROVE  TypeInv' /\ Level(todo')
<1>1. /\ stage = "runCompact" /\ stage' = "commit" /\ todo' = CommitItems(Tail(hist))
      /\ UNCHANGED <<conv, hist, next, fresh, told, fed, dirty, used>> /\ DiskSame /\ StoreSame
  BY DEF CommitRest
<1>2. store \in Stores /\ hist \in Seq(Messages) /\ next \in 0 .. MaxNodes /\ hist # <<>>
      /\ told \in Holdings /\ fed \in Holdings
  BY <1>1 DEF TypeInv, MemoryTyped, CountsTyped
<1>3. Tail(hist) \in Seq(Messages)
  BY <1>2
<1>4. todo' \in Seq(Items) /\ WellFormed(todo') /\ Level(todo')
  BY <1>1, <1>2, <1>3, CommitIsTyped
<1> QED BY <1>1, <1>2, <1>4, preparedIsTyped, StageNames DEF Stages

(* So does the checkpoint.                                                 *)
LEMMA CheckpointIsTyped ==
    ASSUME TypeInv, CheckpointRun
    PROVE  TypeInv' /\ Level(todo')
<1>1. /\ stage' = "checkpoint" /\ todo' = One(Mark("ck", store.head))
      /\ UNCHANGED <<conv, hist, next, fresh, told, fed, dirty, used>> /\ DiskSame /\ StoreSame
  BY DEF CheckpointRun
<1>2. store \in Stores /\ next \in 0 .. MaxNodes /\ told \in Holdings /\ fed \in Holdings
  BY DEF TypeInv, MemoryTyped, CountsTyped
<1>3. Mark("ck", store.head) \in Lines
  BY <1>2, LinesAreTyped DEF Stores
<1>4. todo' \in Seq(Items) /\ WellFormed(todo') /\ Level(todo')
  BY <1>1, <1>2, <1>3, OneIsTyped
<1> QED BY <1>1, <1>2, <1>4, preparedIsTyped, StageNames DEF Stages

(* So does the refresh of the conversation.                                *)
LEMMA RefreshIsTyped ==
    ASSUME TypeInv, RefreshRun
    PROVE  TypeInv'
<1> USE DEF TypeInv
<1>1. /\ stage' = "completed" /\ conv' = ActiveView /\ told' = told \cup fresh
      /\ hist' = <<>> /\ todo = <<>>
      /\ UNCHANGED <<todo, next, fresh, fed, dirty, used, store>> /\ DiskSame
  BY DEF RefreshRun, StoreSame
<1>2. <<>> \in Seq(Messages)
  OBVIOUS
<1>3. MemoryTyped'
  BY <1>1, <1>2, ViewsAreTyped DEF MemoryTyped
<1>4. TodoTyped'
  BY <1>1 DEF TodoTyped, Stages
<1>5. CountsTyped'
  BY <1>1 DEF CountsTyped, Holdings
<1> QED BY <1>1, <1>3, <1>4, <1>5, DiskStays

(* What is pending are messages; the last one has an id.                   *)
LEMMA PendingIsTyped ==
    ASSUME TypeInv, PendingAfterCursor # <<>>
    PROVE  /\ PendingAfterCursor[Len(PendingAfterCursor)].id \in Ident
           /\ Content(PendingAfterCursor) \in Holdings
<1>1. PICK view \in Seq(Messages) : view = ActiveView
  BY ViewsAreTyped DEF TypeInv
<1>2. PICK real \in Seq(Messages) : real = At(view, {i \in DOMAIN view : view[i].id > 0})
  BY AtIsTyped
<1>3. PICK ids : ids = [i \in DOMAIN real |-> real[i].id]
  OBVIOUS
<1>4. ids \in Seq(Ident) /\ Len(ids) = Len(real)
  <2>1. \A i \in DOMAIN real : real[i].id \in Ident
    BY MessagesAreTyped, ElementOfSeq
  <2> QED BY <1>3, <2>1
<1>5. PICK c \in 0 .. Len(real) : c = IndexOf(ids, store.cursor)
  BY <1>4, IndexIsTyped
<1>6. PICK pending \in Seq(Messages) : pending = SubSeq(real, c + 1, Len(real))
  <2>1. c \in Nat /\ c <= Len(real)
    OBVIOUS
  <2> QED BY <2>1, SubSeqIsTyped
<1>7. PendingAfterCursor = pending
  BY <1>1, <1>2, <1>3, <1>5, <1>6 DEF PendingAfterCursor
<1>8. Len(pending) \in DOMAIN pending
  BY <1>7
<1>9. pending[Len(pending)] \in Messages
  BY <1>8, ElementOfSeq
<1> QED BY <1>7, <1>9, MessagesAreTyped, ContentIsTyped
(* ... and spends one of its kind. *)
LEMMA startedIsTyped ==
    ASSUME TypeInv, DiskSame, StoreSame, UNCHANGED <<conv, hist, next, fresh, dirty>>,
           NEW e \in DOMAIN Bounded, Spend(e),
           stage' \in {"cursor", "consolidate", "rewind"}, todo' \in Seq(Items), WellFormed(todo'),
           told' \in Holdings, fed' \in Holdings
    PROVE  TypeInv'
<1>1. MemoryTyped' /\ DiskTyped'
  BY DiskStays DEF TypeInv, MemoryTyped, StoreSame
<1>2. TodoTyped'
  BY StageNames DEF TodoTyped, Stages
<1>3. CountsTyped'
  BY SpendIsTyped DEF TypeInv, CountsTyped
<1> QED BY <1>1, <1>2, <1>3 DEF TypeInv

(* A consolidation keeps the types, and appends nothing but the cursor.    *)
LEMMA ConsolidateIsTyped ==
    ASSUME TypeInv, NEW then \in {"cursor", "consolidate"}, Consolidate(then)
    PROVE  /\ TypeInv' /\ Level(todo')
           /\ OnlyCursor(todo')
<1>1. /\ stage = "idle" /\ Spend("feeds") /\ stage' = then
      /\ UNCHANGED <<conv, hist, next, fresh, told, dirty>> /\ DiskSame /\ StoreSame
      /\ \/ /\ PendingAfterCursor /= <<>> /\ fed' = fed \cup Content(PendingAfterCursor)
            /\ todo' = One(Mark("cursor", PendingAfterCursor[Len(PendingAfterCursor)].id))
         \/ UNCHANGED <<fed, todo>>
  BY DEF Consolidate
<1>2. store \in Stores /\ told \in Holdings /\ fed \in Holdings
  BY DEF TypeInv, MemoryTyped, CountsTyped
<1>3. todo = <<>>
  BY <1>1, StageNames DEF TypeInv, TodoTyped
<1>4. CASE /\ PendingAfterCursor /= <<>> /\ fed' = fed \cup Content(PendingAfterCursor)
           /\ todo' = One(Mark("cursor", PendingAfterCursor[Len(PendingAfterCursor)].id))
  <2>1. PICK line \in Lines : line = Mark("cursor", PendingAfterCursor[Len(PendingAfterCursor)].id)
    BY <1>4, PendingIsTyped, LinesAreTyped
  <2>2. line.kind = "cursor" /\ todo' = One(line)
    BY <1>4, <2>1, PendingIsTyped DEF Mark
  <2>3. todo' \in Seq(Items) /\ WellFormed(todo') /\ Level(todo')
    BY <1>2, <2>2, OneIsTyped
  <2>4. fed' \in Holdings
    BY <1>2, <1>4, PendingIsTyped DEF Holdings
  <2>5. DOMAIN todo' = {1} /\ todo'[1].line = line /\ todo'[1].mem = <<line>>
    BY <2>2 DEF One, Item
  <2>6. OnlyCursor(todo')
    BY <2>2, <2>5 DEF OnlyCursor
  <2> QED BY <1>1, <1>2, <2>3, <2>4, <2>6, startedIsTyped, EventNames
<1>5. CASE UNCHANGED <<fed, todo>>
  <2>1. /\ todo' = <<>> /\ todo' \in Seq(Items) /\ WellFormed(todo') /\ Level(todo')
        /\ fed' \in Holdings
    BY <1>2, <1>3, <1>5, NoneIsWellFormed
  <2>2. OnlyCursor(todo')
    BY <2>1 DEF OnlyCursor
  <2> QED BY <1>1, <1>2, <2>1, <2>2, startedIsTyped, EventNames
<1> QED BY <1>1, <1>4, <1>5

(* So does the fold of /compact.                                           *)
LEMMA CompressStoreIsTyped ==
    ASSUME TypeInv, CompressStore
    PROVE  TypeInv' /\ Level(todo') /\ todo = <<>>
<1>1. /\ stage = "compress" /\ UNCHANGED <<conv, hist, fresh, told, fed, dirty, used>>
      /\ DiskSame /\ StoreSame
  BY DEF CompressStore
<1>2. store \in Stores /\ next \in 0 .. MaxNodes /\ told \in Holdings /\ fed \in Holdings
  BY DEF TypeInv, MemoryTyped, CountsTyped
<1>3. todo = <<>>
  BY <1>1, StageNames DEF TypeInv, TodoTyped
<1>4. CASE stage' = "idle" /\ UNCHANGED <<todo, next>>
  <2>1. todo' = <<>> /\ todo' \in Seq(Items) /\ WellFormed(todo') /\ Level(todo')
    BY <1>3, <1>4, NoneIsWellFormed
  <2> QED BY <1>1, <1>2, <1>3, <1>4, <2>1, preparedIsTyped DEF Stages
<1>5. CASE ~(stage' = "idle" /\ UNCHANGED <<todo, next>>)
  <2>1. PICK view \in Seq(Messages) : view = ActiveView
    BY ViewsAreTyped DEF TypeInv
  <2> DEFINE Texts == [id : Int, role : Roles, holds : Holdings]
  <2>2. \A m \in Texts : m.holds \in Holdings
    OBVIOUS
  <2>3. \A c \in Holdings : Message(next + 1, "system", c) \in Texts
    BY <1>2, Identifiers DEF Message, Roles
  <2>4. Messages \subseteq Texts
    BY Identifiers DEF Messages
  <2> HIDE DEF Texts
  <2>5. view \in Seq(Texts)
    BY <2>4
  <2>6. PICK new \in Seq(Texts) : new = Compress(view, FALSE)
    BY <2>2, <2>3, <2>5, CompressIsTyped
  <2>7. PICK k \in 0 .. Len(view) : k = DetectCompact(view, new) /\ (k # 0 => new # <<>>)
    BY DetectIsTyped
  <2>8. PICK items : items = CompactItems(view[1].id, view[k].id, new[1].holds)
    OBVIOUS
  <2>9. /\ k > 0 /\ next + Clones(items) <= MaxNodes /\ todo' = items
        /\ next' = next + Clones(items)
        /\ stage' = IF items = <<>> THEN "idle" ELSE "compact"
    BY <1>5, <2>1, <2>6, <2>7, <2>8 DEF CompressStore
  <2>10. view[k] \in Messages /\ new[1] \in Texts
    BY <2>7, <2>9, ElementOfSeq
  <2>11. view[k].id \in Ident /\ new[1].holds \in Holdings
    BY <2>2, <2>10, MessagesAreTyped
  <2>12. Clones(items) \in Nat /\ items \in Seq(Items) /\ WellFormed(items) /\ Level(items)
    BY <1>2, <2>8, <2>9, <2>11, CompactIsTyped
  <2>13. next' \in 0 .. MaxNodes
    BY <1>2, <2>9, <2>12, Identifiers
  <2> QED BY <1>1, <1>2, <1>3, <2>9, <2>12, <2>13, preparedIsTyped, StageNames DEF Stages
<1> QED BY <1>4, <1>5

(* So does /rewind.                                                        *)
LEMMA RewindIsTyped ==
    ASSUME TypeInv, Rewind
    PROVE  TypeInv' /\ Level(todo')
<1>1. /\ Spend("rewinds") /\ stage' = "rewind"
      /\ UNCHANGED <<conv, hist, next, fresh, fed, dirty>> /\ DiskSame /\ StoreSame
  BY DEF Rewind
<1>2. store \in Stores /\ told \in Holdings /\ fed \in Holdings
  BY DEF TypeInv, MemoryTyped, CountsTyped
<1>3. PICK at \in store.cks : /\ todo' = One(Mark("head", at))
                              /\ told' = told \cap Content(buildActiveView(store.nodes, at))
  BY DEF Rewind
<1>4. PICK line \in Lines : line = Mark("head", at)
  BY <1>2, LinesAreTyped DEF Stores
<1>5. todo' \in Seq(Items) /\ WellFormed(todo') /\ Level(todo')
  BY <1>2, <1>3, <1>4, OneIsTyped
<1>6. told' \in Holdings
  BY <1>2, <1>3 DEF Holdings
<1> QED BY <1>1, <1>2, <1>5, <1>6, startedIsTyped, EventNames

(* So does the end of an operation.                                        *)
LEMMA DoneIsTyped ==
    ASSUME TypeInv, Done
    PROVE  TypeInv'
<1> USE DEF TypeInv
<1>1. /\ todo = <<>> /\ stage' \in {"idle", "compress"} /\ conv' \in {conv, ActiveView}
      /\ UNCHANGED <<todo, hist, next, fresh, told, fed, dirty, used, store>> /\ DiskSame
  BY DEF Done, StoreSame
<1>2. MemoryTyped'
  BY <1>1, ViewsAreTyped DEF MemoryTyped
<1>3. TodoTyped'
  BY <1>1 DEF TodoTyped, Stages
<1>4. CountsTyped'
  BY <1>1 DEF CountsTyped
<1> QED BY <1>1, <1>2, <1>3, <1>4, DiskStays

(* An empty file is a store.                                               *)
LEMMA NothingIsTyped == Nothing \in Stores
<1>1. <<>> \in NodeMaps
  <2>1. <<>> \in [{} -> Nodes]
    OBVIOUS
  <2> QED BY <2>1 DEF NodeMaps
<1> QED BY <1>1, Identifiers DEF Nothing, Stores

(* So does losing what is in memory.                                       *)
LEMMA ForgetIsTyped ==
    ASSUME TypeInv, Forget, Spend("crashes"), DiskTyped', UNCHANGED <<next, told, fed, dirty>>
    PROVE  TypeInv'
<1> USE DEF TypeInv
<1>1. /\ store' = Nothing /\ conv' = <<>> /\ todo' = <<>> /\ hist' = <<>> /\ fresh' = {}
      /\ stage' = "down"
  BY DEF Forget
<1>2. <<>> \in Seq(Messages) /\ {} \in Holdings
  BY DEF Holdings
<1>3. MemoryTyped'
  BY <1>1, <1>2, NothingIsTyped DEF MemoryTyped
<1>4. TodoTyped'
  BY <1>1, NoneIsWellFormed DEF TodoTyped, Stages
<1>5. CountsTyped'
  BY <1>1, <1>2, SpendIsTyped, EventNames DEF CountsTyped
<1> QED BY <1>3, <1>4, <1>5

(* So does a crash in any append, and a close.                             *)
LEMMA CrashIsTyped ==
    ASSUME TypeInv, Crash \/ CloseSession
    PROVE  TypeInv'
<1>1. CASE CloseSession
  <2>1. DiskTyped'
    BY <1>1, DiskStays DEF CloseSession, TypeInv
  <2> QED BY <1>1, <2>1, ForgetIsTyped DEF CloseSession
<1>2. CASE Crash
  <2>1. CASE DiskSame
    BY <2>1, DiskStays, <1>2, ForgetIsTyped DEF Crash, TypeInv
  <2>2. CASE todo # <<>> /\ Torn
    BY <2>2, TornIsTyped, <1>2, ForgetIsTyped DEF Crash, TypeInv
  <2>3. CASE todo # <<>> /\ Written(todo[1].line)
    <3>1. DiskTyped'
      BY <2>3, FirstItem, WrittenIsTyped DEF TypeInv
    <3> QED BY <1>2, <3>1, ForgetIsTyped DEF Crash
  <2>4. CASE /\ todo # <<>> /\ file' = Add(file, todo[1].line) /\ before' = file
             /\ tail' = "unterminated"
             /\ UNCHANGED spoiled
    <3>1. Add(file, todo[1].line) \in Stores
      BY <2>4, FirstItem, AddIsTyped DEF TypeInv, DiskTyped
    <3>2. DiskTyped'
      BY <2>4, <3>1 DEF TypeInv, DiskTyped
    <3> QED BY <1>2, <3>2, ForgetIsTyped DEF Crash
  <2> QED BY <1>2, <2>1, <2>2, <2>3, <2>4 DEF Crash, CutShort
<1> QED BY <1>1, <1>2

(* So does the opening of a file, however it ends.                         *)
LEMMA OpenIsTyped ==
    ASSUME TypeInv, Open
    PROVE  TypeInv'
<1> USE DEF TypeInv
<1>1. /\ stage = "down" /\ store' = file /\ conv' = OnDisk /\ dirty' = FALSE
      /\ stage' = "recover"
      /\ tail' \in {"clean", tail}
      /\ UNCHANGED <<file, before, spoiled, todo, hist, next, fresh, told, fed, used>>
  BY DEF Open
<1>2. DiskTyped'
  BY <1>1 DEF DiskTyped
<1>3. MemoryTyped'
  BY <1>1, ViewsAreTyped DEF MemoryTyped, DiskTyped
<1>4. TodoTyped'
  BY <1>1, StageNames DEF TodoTyped, Stages
<1>5. CountsTyped'
  BY <1>1 DEF CountsTyped
<1> QED BY <1>2, <1>3, <1>4, <1>5

(* So does the scan of the journals.                                       *)
LEMMA RecoveryIsTyped ==
    ASSUME TypeInv, MarkInterrupted \/ Recovered
    PROVE  TypeInv'
<1> USE DEF TypeInv
<1>1. /\ stage = "recover" /\ stage' \in {"recover", "idle"}
      /\ UNCHANGED <<conv, todo, hist, next, fresh, told, fed, store>> /\ DiskSame
      /\ UNCHANGED <<dirty, used>> \/ (Spend("faults") /\ dirty' = TRUE)
  BY DEF MarkInterrupted, Recovered, StoreSame
<1>2. MemoryTyped' /\ DiskTyped'
  BY <1>1, DiskStays DEF MemoryTyped
<1>3. TodoTyped'
  BY <1>1, StageNames DEF TodoTyped, Stages
<1>4. CountsTyped'
  BY <1>1, SpendIsTyped, EventNames DEF CountsTyped
<1> QED BY <1>2, <1>3, <1>4

(* Every step keeps the types.                                             *)
LEMMA TypeStep == TypeInv /\ [Next]_vars => TypeInv'
<1> SUFFICES ASSUME TypeInv, [Next]_vars PROVE TypeInv'
  OBVIOUS
<1>1. CASE UNCHANGED vars
  BY <1>1 DEF vars, TypeInv, DiskTyped, MemoryTyped, TodoTyped, CountsTyped
<1>2. CASE Next
  BY <1>2, appendIsTyped, failureIsTyped, runIsTyped, eventIsTyped, ReplyIsTyped, FinishIsTyped,
     CommitRestIsTyped, CheckpointIsTyped, RefreshIsTyped, ConsolidateIsTyped,
     CompressStoreIsTyped, RewindIsTyped, DoneIsTyped, CrashIsTyped, OpenIsTyped, RecoveryIsTyped
  DEF Next
<1> QED BY <1>1, <1>2

(* The states a journal records: none, that of a run that was accepted, or *)
(* this and one final state.                                               *)
Finals == {"completed", "failed", "interrupted"}
States == {<<>>, <<"running">>} \cup {<<"running", x>> : x \in Finals}
TailKinds == {"clean", "torn", "event", "state"}

\* A journal; its last line holds a state only if there is one.
Journals == {j \in [states : States, tail : TailKinds] : j.tail = "state" => j.states # <<>>}

\* The journal of a run that was accepted and goes on.
Accepted(j) == j \in Journals /\ j.states = <<"running">> /\ j.tail # "state"

JournalTyped ==
    /\ journal \in [Turns -> Journals] /\ glued \subseteq Turns /\ scan \in Nat \ {0}
    /\ stage = "down" => scan = 1
    /\ stage \in Running \cup {"accept"} => Run \in Turns

RunsAreJournalled ==
    /\ \A r \in Turns : r > Run => journal[r] = NoLines
    /\ stage = "accept" => journal[Run] = NoLines
    /\ stage \in Running => Accepted(journal[Run]) /\ (dirty \/ journal[Run].tail = "clean")

(* Who is to end a run that has not ended: the recovery of the next start, *)
(* the one under way, or the run itself; unless an append has failed, or   *)
(* the marker was glued to an unfinished line.                             *)
UnendedAreOwed ==
    \A r \in Turns :
        journal[r].states = <<"running">> =>
            \/ dirty \/ stage = "down" \/ r \in glued
            \/ stage = "recover" /\ r >= scan
            \/ stage \in Running /\ r = Run

JournalInv == JournalTyped /\ RunsAreJournalled /\ UnendedAreOwed

(* The runs are numbered in the order they begin.                          *)
LEMMA RunsAreNumbered ==
    ASSUME TypeInv
    PROVE  Run \in Nat /\ Run <= MaxTurns /\ MaxTurns \in Nat /\ Turns = 1 .. MaxTurns
BY EventNames, StoreBounds DEF TypeInv, CountsTyped, Run, Turns

(* The states of a run before it is accepted, while it is not ended, and   *)
(* after it has.                                                           *)
LEMMA StatesDiffer ==
    /\ <<>> \in States /\ <<"running">> \in States /\ <<>> # <<"running">>
    /\ \A x \in Finals : <<"running", x>> \in States /\ <<"running", x>> # <<"running">>
                         /\ <<"running", x>> # <<>>
<1>1. Len(<<>>) = 0 /\ Len(<<"running">>) = 1 /\ \A x \in Finals : Len(<<"running", x>>) = 2
  OBVIOUS
<1>2. <<>> # <<"running">> /\ \A x \in Finals : <<"running", x>> # <<"running">> /\ <<"running", x>> # <<>>
  BY <1>1
<1> QED BY <1>2 DEF States

(* A state behind those of a journal.                                      *)
LEMMA OneMore ==
    /\ \A s \in States : s \o <<>> = s
    /\ <<>> \o <<"running">> = <<"running">>
    /\ \A x \in Finals : <<"running">> \o <<x>> = <<"running", x>>
<1> DEFINE S == {"running"} \cup Finals
<1> HIDE DEF S
<1>1. ASSUME NEW s \in Seq(S) PROVE s \o <<>> = s /\ <<>> \o s = s
  BY <1>1
<1>2. "running" \in S /\ \A x \in Finals : x \in S
  BY DEF S
<1>3. \A s \in States : s \in Seq(S)
  <2> TAKE s \in States
  <2>1. CASE s \in {<<>>, <<"running">>}
    <3>1. <<>> \in Seq(S) /\ <<"running">> \in Seq(S)
      BY <1>2
    <3> QED BY <2>1, <3>1
  <2>2. CASE s \in {<<"running", x>> : x \in Finals}
    <3>1. PICK x \in Finals : s = <<"running", x>>
      BY <2>2
    <3>2. "running" \in S /\ x \in S
      BY <1>2
    <3>3. <<"running", x>> \in Seq(S)
      BY <3>2
    <3> QED BY <3>1, <3>3
  <2> QED BY <2>1, <2>2 DEF States
<1>4. <<>> \o <<"running">> = <<"running">>
  BY <1>1, <1>3, StatesDiffer
<1>5. ASSUME NEW x \in Finals PROVE <<"running">> \o <<x>> = <<"running", x>>
  <2> DEFINE a == <<"running">> \o <<x>>
  <2>1. <<"running">> \in Seq(S) /\ <<x>> \in Seq(S) /\ <<"running", x>> \in Seq(S)
    BY <1>2, <1>5
  <2>2. /\ Len(<<"running">>) = 1 /\ Len(<<x>>) = 1 /\ Len(<<"running", x>>) = 2
        /\ <<"running">>[1] = "running" /\ <<x>>[1] = x
        /\ <<"running", x>>[1] = "running" /\ <<"running", x>>[2] = x
    OBVIOUS
  <2>3. a \in Seq(S) /\ Len(a) = 2
    BY <2>1, <2>2
  <2>4. a[1] = "running" /\ a[2] = x
    BY <2>1, <2>2
  <2> HIDE DEF a
  <2>5. \A i \in 1 .. Len(a) : a[i] = <<"running", x>>[i]
    <3> TAKE i \in 1 .. Len(a)
    <3>1. i = 1 \/ i = 2
      BY <2>3
    <3> QED BY <2>2, <2>4, <3>1
  <2>6. a = <<"running", x>>
    BY <2>1, <2>2, <2>3, <2>5, SeqEqual
  <2> QED BY <2>6 DEF a
<1> QED BY <1>1, <1>3, <1>4, <1>5

(* The states before the last one.                                         *)
LEMMA OneLess ==
    ASSUME NEW s \in States, s # <<>>
    PROVE  /\ Front(s) \in States
           /\ s = <<"running">> => Front(s) = <<>>
           /\ s # <<"running">> => Front(s) = <<"running">>
<1>1. CASE s = <<"running">>
  <2>1. Front(s) = <<>>
    BY <1>1 DEF Front
  <2> QED BY <1>1, <2>1, StatesDiffer
<1>2. CASE s # <<"running">>
  <2>1. PICK x \in Finals : s = <<"running", x>>
    BY <1>2 DEF States
  <2> DEFINE S == {"running"} \cup Finals
  <2>2. "running" \in S /\ x \in S
    OBVIOUS
  <2> HIDE DEF S
  <2>3. s \in Seq(S) /\ Len(s) = 2 /\ s[1] = "running"
    BY <2>1, <2>2
  <2>4. PICK f : f = SubSeq(s, 1, 1)
    OBVIOUS
  <2>5. f \in Seq(S) /\ Len(f) = 1 /\ f[1] = "running"
    BY <2>3, <2>4
  <2>6. <<"running">> \in Seq(S) /\ Len(<<"running">>) = 1 /\ <<"running">>[1] = "running"
    BY <2>2
  <2>7. \A i \in 1 .. Len(f) : f[i] = <<"running">>[i]
    <3> TAKE i \in 1 .. Len(f)
    <3>1. i = 1
      BY <2>5
    <3> QED BY <2>5, <2>6, <3>1
  <2>8. f = <<"running">>
    BY <2>5, <2>6, <2>7, SeqEqual
  <2>9. Front(s) = f
    BY <2>3, <2>4 DEF Front
  <2> QED BY <1>2, <2>8, <2>9, StatesDiffer
<1> QED BY <1>1, <1>2

(* The journal after an append, whole or failed.  A line is only ever      *)
(* appended to a journal without a state, of a run that goes on, or of one *)
(* that has to be marked.                                                  *)
LEMMA FirstLine ==
    ASSUME NEW j, j = NoLines
    PROVE  /\ Accepted(Line(j, <<"running">>)) /\ Line(j, <<"running">>).tail = "clean"
           /\ Failed(j, <<"running">>) \subseteq Journals
<1>1. j.states = <<>> /\ j.tail = "clean" /\ j \in Journals
  BY StatesDiffer DEF NoLines, Journals, TailKinds
<1>2. Line(j, <<"running">>) = [states |-> <<"running">>, tail |-> "clean"]
  BY <1>1, OneMore DEF Line
<1>3. Accepted(Line(j, <<"running">>))
  BY <1>2, StatesDiffer DEF Accepted, Journals, TailKinds
<1>4. Cut(j, <<"running">>) = {[states |-> <<>>, tail |-> "torn"], [states |-> <<"running">>, tail |-> "state"]}
  BY <1>1, OneMore, StatesDiffer DEF Cut, Kept
<1>5. Cut(j, <<"running">>) \subseteq Journals
  BY <1>4, StatesDiffer DEF Journals, TailKinds
<1> QED BY <1>1, <1>2, <1>3, <1>5 DEF Failed, Accepted

(* An event, or part of it, leaves the run accepted.                       *)
LEMMA EventLine ==
    ASSUME NEW j, Accepted(j)
    PROVE  /\ Accepted(Line(j, <<>>)) /\ Line(j, <<>>).tail = "clean"
           /\ \A k \in Failed(j, <<>>) : Accepted(k)
<1>1. j \in Journals /\ j.states = <<"running">> /\ j.tail # "state" /\ j.states \o <<>> = <<"running">>
  BY OneMore, StatesDiffer DEF Accepted
<1>2. Kept(j) = <<"running">>
  BY <1>1 DEF Kept
<1>3. Line(j, <<>>) = [states |-> <<"running">>, tail |-> "clean"]
  BY <1>1, <1>2 DEF Line
<1>4. Cut(j, <<>>) \subseteq {[states |-> <<"running">>, tail |-> "torn"], [states |-> <<"running">>, tail |-> "event"]}
  BY <1>1, <1>2 DEF Cut
<1>5. \A t \in {"clean", "torn", "event"} : Accepted([states |-> <<"running">>, tail |-> t])
  BY StatesDiffer DEF Accepted, Journals, TailKinds
<1> QED BY <1>3, <1>4, <1>5 DEF Failed

(* So does a final state, unless the line was clean.                       *)
LEMMA LastLine ==
    ASSUME NEW j \in Journals, j.states = <<"running">>, NEW x \in Finals
    PROVE  /\ Line(j, <<x>>) \in Journals
           /\ Failed(j, <<x>>) \subseteq Journals
           /\ j.tail = "clean" => Line(j, <<x>>).states = <<"running", x>>
<1>1. j.states \o <<x>> = <<"running", x>>
  BY OneMore
<1>2. Kept(j) \in {<<>>, <<"running">>}
  BY OneLess, StatesDiffer DEF Kept
<1>3. <<x>> # <<>>
  OBVIOUS
<1>4. Line(j, <<x>>) = [states |-> IF j.tail = "clean" THEN <<"running", x>> ELSE Kept(j), tail |-> "clean"]
  BY <1>1 DEF Line
<1>5. Line(j, <<x>>) \in Journals
  BY <1>2, <1>4, StatesDiffer DEF Journals, TailKinds
<1>6. Cut(j, <<x>>) \subseteq {[states |-> Kept(j), tail |-> "torn"], [states |-> <<"running", x>>, tail |-> "state"]}
  BY <1>1, <1>3 DEF Cut
<1>7. Cut(j, <<x>>) \subseteq Journals
  BY <1>2, <1>6, StatesDiffer DEF Journals, TailKinds
<1> QED BY <1>4, <1>5, <1>7 DEF Failed

(* What the recovery makes of a journal, and what it tells from its last   *)
(* state.                                                                  *)
LEMMA RepairedJournal ==
    ASSUME NEW j \in Journals
    PROVE  /\ Repaired(j) \in Journals /\ Repaired(j).states = j.states
           /\ Unended(j) <=> j.states = <<"running">>
           /\ Unended(Repaired(j)) <=> j.states = <<"running">>
<1>1. PICK r : r = Repaired(j)
  OBVIOUS
<1>2. r \in Journals /\ r.states = j.states
  BY <1>1 DEF Repaired, Journals, TailKinds
<1>3. ASSUME NEW k \in Journals PROVE Unended(k) <=> k.states = <<"running">>
  <2>1. CASE k.states = <<>>
    BY <2>1, StatesDiffer DEF Unended
  <2>2. CASE k.states = <<"running">>
    <3>1. Last(k.states) = "running"
      BY <2>2 DEF Last
    <3> QED BY <2>2, <3>1, StatesDiffer DEF Unended, isTerminalRunState
  <2>3. CASE k.states \in {<<"running", x>> : x \in Finals}
    <3>1. PICK x \in Finals : k.states = <<"running", x>>
      BY <2>3
    <3>2. Last(k.states) = x
      BY <3>1 DEF Last
    <3> QED BY <3>1, <3>2, StatesDiffer DEF Unended, isTerminalRunState, Finals
  <2> QED BY <2>1, <2>2, <2>3 DEF Journals, States
<1> QED BY <1>1, <1>2, <1>3

(* JournalInv holds at the start.                                          *)
LEMMA JournalInit == Init => JournalInv
<1> SUFFICES ASSUME Init PROVE JournalInv
  OBVIOUS
<1>1. stage = "idle" /\ glued = {} /\ scan = 1 /\ journal = [r \in Turns |-> NoLines]
  BY DEF Init
<1>2. NoLines \in Journals /\ NoLines.states # <<"running">>
  BY StatesDiffer DEF NoLines, Journals, TailKinds
<1> QED BY <1>1, <1>2
  DEF JournalInv, JournalTyped, RunsAreJournalled, UnendedAreOwed, Running

(* Steps that leave the journals alone. *)
LEMMA JournalFrame ==
    ASSUME TypeInv, JournalInv, JournalSame, Run' = Run, dirty' = dirty \/ dirty' = TRUE,
           stage \notin {"down", "recover"}, stage' \notin {"down", "recover", "accept"},
           stage' \in Running => stage \in Running,
           stage \in Running /\ stage' \notin Running => dirty'
    PROVE  JournalInv'
BY DEF JournalInv, JournalTyped, RunsAreJournalled, UnendedAreOwed, JournalSame

(* Steps that change the journal of one run, which then has to end.        *)
LEMMA JournalChanged ==
    ASSUME TypeInv, JournalInv, Run' = Run,
           NEW r \in Turns, r <= Run, NEW j \in Journals, journal' = [journal EXCEPT ![r] = j],
           glued' = glued, scan' \in Nat \ {0}, stage' = "down" => scan' = 1,
           dirty' = TRUE \/ stage' = "down",
           stage' # "accept",
           stage' \in Running => stage \in Running /\ (r = Run => Accepted(j))
    PROVE  JournalInv'
<1>1. JournalTyped'
  BY DEF JournalInv, JournalTyped
<1>2. RunsAreJournalled'
  <2>1. Run \in Nat /\ r \in Nat
    BY RunsAreNumbered
  <2>2. \A q \in Turns : q > Run => journal'[q] = NoLines
    <3> TAKE q \in Turns
    <3>1. q > Run => q # r
      BY <2>1
    <3> QED BY <3>1 DEF JournalInv, RunsAreJournalled, JournalTyped
  <2>3. stage' \in Running => dirty' /\ Accepted(journal'[Run])
    <3> SUFFICES ASSUME stage' \in Running PROVE Accepted(journal'[Run])
      BY DEF Running
    <3>1. Run \in Turns /\ Accepted(journal[Run])
      BY DEF JournalInv, JournalTyped, RunsAreJournalled
    <3>2. journal'[Run] = IF r = Run THEN j ELSE journal[Run]
      BY <3>1 DEF JournalInv, JournalTyped
    <3> QED BY <3>1, <3>2
  <2>4. Accepted(journal[Run])' <=> Accepted(journal'[Run])
    BY DEF Accepted
  <2> QED BY <2>2, <2>3, <2>4 DEF RunsAreJournalled
<1>3. UnendedAreOwed'
  BY DEF UnendedAreOwed
<1> QED BY <1>1, <1>2, <1>3 DEF JournalInv

(* Every step keeps the journals in order.                                 *)
LEMMA JournalStep == TypeInv /\ TypeInv' /\ JournalInv /\ [Next]_vars => JournalInv'
<1> SUFFICES ASSUME TypeInv, TypeInv', JournalInv, [Next]_vars PROVE JournalInv'
  OBVIOUS
<1> USE DEF JournalInv
<1>0. Run' = Run \/ used' # used
  BY DEF Run
<1>a. ASSUME NEW e \in DOMAIN Bounded, Spend(e), e # "turns" PROVE Run' = Run
  BY <1>a, SpendIsTyped DEF TypeInv, CountsTyped, Run
<1>b. ASSUME stage \in Running \cup {"accept"} PROVE Run \in Turns /\ journal[Run] \in Journals /\ Run <= Run
  BY <1>b, RunsAreNumbered DEF JournalTyped
<1>1. CASE appendRecord
  <2>1. /\ stage \in DOMAIN afterFailure /\ stage' = stage /\ dirty' = dirty /\ used' = used
        /\ JournalSame
    BY <1>1, FirstItem DEF appendRecord, TypeInv
  <2>2. stage \notin {"down", "recover", "accept"}
    BY <2>1, StageNames
  <2> QED BY <1>0, <2>1, <2>2, JournalFrame
<1>2. CASE AppendFails
  <2>1. /\ stage \in DOMAIN afterFailure /\ stage' = afterFailure[stage] /\ dirty' = TRUE
        /\ Run' = Run /\ JournalSame
    BY <1>2, <1>a, FirstItem, EventNames DEF AppendFails, TypeInv
  <2>2. stage \notin {"down", "recover"} /\ stage' \notin {"down", "recover", "accept"}
    BY <2>1, StageNames
  <2>3. stage' \in Running => stage \in Running
    BY <2>1 DEF afterFailure, Running
  <2> QED BY <2>1, <2>2, <2>3, JournalFrame
<1>3. CASE BeginRun
  <2>1. /\ stage = "idle" /\ stage' = "accept" /\ dirty' = dirty /\ JournalSame
        /\ Run' = Run + 1
    BY <1>3, SpendIsTyped, EventNames DEF BeginRun, TypeInv, CountsTyped, Run
  <2>2. Run' \in Turns /\ Run \in Nat /\ Turns \subseteq Nat
    BY <2>1, RunsAreNumbered DEF TypeInv, CountsTyped, Run
  <2>3. RunsAreJournalled'
    BY <2>1, <2>2 DEF RunsAreJournalled, JournalSame, Running
  <2> QED BY <2>1, <2>2, <2>3 DEF JournalTyped, UnendedAreOwed, JournalSame, Running
<1>4. CASE AcceptRun
  <2>1. /\ stage = "accept" /\ journal' = [journal EXCEPT ![Run] = Line(@, <<"running">>)]
        /\ stage' = "run"
        /\ UNCHANGED <<glued, scan, dirty, used>> /\ Run' = Run
    BY <1>4 DEF AcceptRun, Run
  <2>2. Run \in Turns /\ journal[Run] = NoLines
    BY <2>1 DEF JournalTyped, RunsAreJournalled
  <2>3. PICK j : j = Line(journal[Run], <<"running">>)
    OBVIOUS
  <2>4. Accepted(j) /\ j.tail = "clean" /\ journal' = [journal EXCEPT ![Run] = j]
    BY <2>1, <2>2, <2>3, FirstLine DEF JournalTyped
  <2>5. JournalTyped'
    BY <2>1, <2>2, <2>4 DEF JournalTyped, Running, Accepted
  <2>6. RunsAreJournalled'
    <3>1. \A q \in Turns : q > Run => journal'[q] = NoLines
      BY <2>2, <2>4, RunsAreNumbered DEF JournalTyped, RunsAreJournalled
    <3>2. Accepted(journal'[Run]) /\ journal'[Run].tail = "clean"
      BY <2>2, <2>4 DEF JournalTyped
    <3> QED BY <2>1, <3>1, <3>2 DEF RunsAreJournalled, Accepted
  <2>7. UnendedAreOwed'
    BY <2>1, <2>2, <2>4 DEF JournalTyped, UnendedAreOwed, Running
  <2> QED BY <2>5, <2>6, <2>7
<1>5. CASE AcceptFails
  <2>1. /\ stage = "accept" /\ stage' = "idle" /\ dirty' = TRUE /\ Run' = Run
        /\ UNCHANGED <<scan, glued>>
    BY <1>5, <1>a, EventNames DEF AcceptFails
  <2>2. PICK j \in Failed(journal[Run], <<"running">>) : journal' = [journal EXCEPT ![Run] = j]
    BY <1>5 DEF AcceptFails
  <2>3. j \in Journals
    BY <2>1, <2>2, FirstLine DEF RunsAreJournalled
  <2> QED BY <1>b, <2>1, <2>2, <2>3, JournalChanged DEF Running, JournalTyped
<1>6. CASE Reply \/ FinishRun \/ CommitRest \/ CheckpointRun \/ RefreshRun
  <2>1. stage \in Running /\ stage' \in Running /\ dirty' = dirty /\ used' = used /\ JournalSame
    BY <1>6 DEF Reply, FinishRun, CommitRest, CheckpointRun, RefreshRun, Running
  <2> QED BY <1>0, <2>1, JournalFrame DEF Running
<1>7. CASE EndRun
  <2>1. /\ stage \in {"completed", "failed"} /\ stage' = "idle" /\ UNCHANGED <<glued, scan>>
        /\ Run' = Run
    BY <1>7, <1>0, <1>a, EventNames DEF EndRun
  <2>2. /\ Run \in Turns /\ journal[Run] \in Journals /\ Accepted(journal[Run])
        /\ stage \in Finals /\ Run <= Run
        /\ dirty \/ journal[Run].tail = "clean"
    BY <1>b, <2>1 DEF RunsAreJournalled, Running, Finals
  <2>3. CASE journal' = [journal EXCEPT ![Run] = Line(@, <<stage>>)] /\ UNCHANGED <<dirty, used>>
    <3>1. PICK j : j = Line(journal[Run], <<stage>>)
      OBVIOUS
    <3>2. j \in Journals /\ journal' = [journal EXCEPT ![Run] = j]
      BY <2>2, <2>3, <3>1, LastLine DEF Accepted
    <3>3. j.states = <<"running">> => dirty
      <4>1. CASE journal[Run].tail = "clean"
        BY <2>2, <3>1, <4>1, LastLine, StatesDiffer DEF Accepted
      <4>2. CASE journal[Run].tail # "clean"
        BY <2>1, <2>2, <4>2
      <4> QED BY <4>1, <4>2
    <3>4. JournalTyped'
      BY <2>1, <2>2, <3>2 DEF JournalTyped, Running
    <3>5. RunsAreJournalled'
      BY <2>1, <2>2, <3>2, RunsAreNumbered DEF JournalTyped, RunsAreJournalled, Running
    <3>6. UnendedAreOwed'
      BY <2>1, <2>2, <2>3, <3>2, <3>3 DEF JournalTyped, UnendedAreOwed
    <3> QED BY <3>4, <3>5, <3>6
  <2>4. CASE /\ Spend("faults") /\ dirty' = TRUE
             /\ \E j \in Failed(journal[Run], <<stage>>) : journal' = [journal EXCEPT ![Run] = j]
    <3>1. PICK j \in Failed(journal[Run], <<stage>>) : journal' = [journal EXCEPT ![Run] = j]
      BY <2>4
    <3>2. j \in Journals
      BY <2>2, <3>1, LastLine DEF Accepted
    <3> QED BY <2>1, <2>2, <2>4, <3>1, <3>2, JournalChanged DEF Running, JournalTyped
  <2> QED BY <1>7, <2>3, <2>4 DEF EndRun
<1>8. CASE Consolidate("cursor") \/ Consolidate("consolidate") \/ CompressStore \/ Rewind \/ Done
  <2>1. /\ stage \in {"idle", "compress", "cursor", "consolidate", "compact", "rewind"}
        /\ stage' \in {"idle", "compress", "cursor", "consolidate", "compact", "rewind"}
        /\ dirty' = dirty /\ Run' = Run /\ JournalSame
    BY <1>8, <1>0, <1>a, EventNames DEF Consolidate, CompressStore, Rewind, Done
  <2> QED BY <2>1, JournalFrame DEF Running
<1>9. CASE Crash \/ CloseSession
  <2>1. stage' = "down" /\ scan' = 1 /\ glued' = glued /\ Run' = Run
    BY <1>9, <1>a, EventNames DEF Crash, CloseSession, Forget
  <2>a. /\ stage' = "down" => scan' = 1
        /\ scan' \in Nat \ {0} /\ stage' # "accept" /\ stage' \notin Running
        /\ dirty' = TRUE \/ stage' = "down"
    BY <2>1 DEF Running
  <2>2. CASE journal' = journal
    BY <2>1, <2>2 DEF JournalTyped, RunsAreJournalled, UnendedAreOwed, Running, Accepted
  <2>3. CASE journal' # journal
    <3>1. JournalCutShort
      BY <1>9, <2>3 DEF Crash, CloseSession
    <3>2. PICK r \in Turns, state \in {<<>>, <<"running">>, <<stage>>, <<"interrupted">>} :
              /\ \/ stage = "accept" /\ r = Run /\ state = <<"running">>
                 \/ stage \in Running /\ r = Run /\ state = <<>>
                 \/ stage \in {"completed", "failed"} /\ r = Run /\ state = <<stage>>
                 \/ /\ stage = "recover" /\ r = scan /\ Unended(journal[r])
                    /\ state = <<"interrupted">>
              /\ \E j \in Cut(IF stage = "recover" THEN Repaired(journal[r]) ELSE journal[r], state) :
                   journal' = [journal EXCEPT ![r] = j]
      BY <2>3, <3>1 DEF JournalCutShort
    <3>3. PICK k : k = IF stage = "recover" THEN Repaired(journal[r]) ELSE journal[r]
      OBVIOUS
    <3>4. PICK j \in Cut(k, state) : journal' = [journal EXCEPT ![r] = j]
      BY <3>2, <3>3
    <3>5. j \in Failed(k, state)
      BY <3>4 DEF Failed
    <3>6. CASE stage = "accept"
      <4>1. j \in Journals
        BY <3>2, <3>3, <3>5, <3>6, FirstLine DEF RunsAreJournalled, Running
      <4>2. r \in Turns /\ r <= Run
        BY <1>b, <3>2, <3>6 DEF Running
      <4> QED BY <2>1, <2>a, <3>4, <4>1, <4>2, JournalChanged
    <3>7. CASE stage \in Running
      <4>1. r = Run /\ k = journal[Run] /\ Accepted(k) /\ Run \in Turns
        BY <1>b, <3>2, <3>3, <3>7 DEF RunsAreJournalled, Running
      <4>2. state = <<>> \/ (state = <<stage>> /\ stage \in Finals)
        BY <3>2, <3>7 DEF Running, Finals
      <4>3. j \in Journals
        BY <3>5, <4>1, <4>2, EventLine, LastLine DEF Accepted
      <4>4. r \in Turns /\ r <= Run
        BY <1>b, <3>7, <4>1
      <4> QED BY <2>1, <2>a, <3>4, <4>3, <4>4, JournalChanged
    <3>8. CASE stage = "recover"
      <4>1. r = scan /\ Unended(journal[r]) /\ state = <<"interrupted">> /\ "interrupted" \in Finals
        BY <3>2, <3>8 DEF Running, Finals
      <4>2. journal[r] \in Journals
        BY DEF JournalTyped
      <4>3. k \in Journals /\ k.states = <<"running">> /\ journal[r].states = <<"running">>
        BY <3>3, <3>8, <4>1, <4>2, RepairedJournal
      <4>4. j \in Journals
        BY <3>5, <4>1, <4>3, LastLine
      <4>5. r <= Run
        <5>1. journal[r] # NoLines
          BY <4>3, StatesDiffer DEF NoLines
        <5>2. r \in Nat /\ Run \in Nat
          BY RunsAreNumbered
        <5> QED BY <5>1, <5>2 DEF RunsAreJournalled
      <4> QED BY <2>1, <2>a, <3>4, <4>4, <4>5, JournalChanged
    <3> QED BY <3>2, <3>6, <3>7, <3>8 DEF Running
  <2> QED BY <2>2, <2>3
<1>10. CASE Open
  <2>1. stage = "down" /\ stage' = "recover" /\ Run' = Run /\ UNCHANGED <<journal, glued, scan>>
    BY <1>10 DEF Open, Run, JournalSame
  <2> QED BY <2>1, RunsAreNumbered DEF JournalTyped, RunsAreJournalled, UnendedAreOwed, Running, Accepted
<1>11. CASE MarkInterrupted
  <2>1. PICK k : k = Repaired(journal[scan])
    OBVIOUS
  <2>2. PICK j : j = IF Unended(k) THEN Line(k, <<"interrupted">>) ELSE k
    OBVIOUS
  <2>3. /\ stage = "recover" /\ scan <= Run /\ stage' = stage /\ scan' = scan + 1
        /\ Run' = Run /\ dirty' = dirty
        /\ journal' = [journal EXCEPT ![scan] = j]
        /\ glued' = IF Unended(k) /\ k.tail # "clean" THEN glued \cup {scan} ELSE glued \ {scan}
    BY <1>11, <2>1, <2>2 DEF MarkInterrupted, Run
  <2>4. /\ scan \in Turns /\ journal[scan] \in Journals /\ scan \in Nat /\ Run \in Nat
        /\ Turns \subseteq Nat
    <3>1. scan \in Nat \ {0} /\ Run \in Nat /\ Run <= MaxTurns /\ MaxTurns \in Nat
      BY RunsAreNumbered DEF JournalTyped
    <3>2. scan \in 1 .. MaxTurns
      BY <2>3, <3>1
    <3> QED BY <3>1, <3>2, RunsAreNumbered DEF JournalTyped
  <2>5. k \in Journals /\ (Unended(k) <=> k.states = <<"running">>)
    BY <2>1, <2>4, RepairedJournal
  <2>6. "interrupted" \in Finals
    BY DEF Finals
  <2>7. j \in Journals /\ (j.states = <<"running">> => scan \in glued')
    <3>1. CASE Unended(k) /\ k.tail = "clean"
      BY <2>2, <2>5, <2>6, <3>1, LastLine, StatesDiffer
    <3>2. CASE Unended(k) /\ k.tail # "clean"
      BY <2>2, <2>3, <2>5, <2>6, <3>2, LastLine
    <3>3. CASE ~Unended(k)
      BY <2>2, <2>5, <3>3
    <3> QED BY <3>1, <3>2, <3>3
  <2>8. JournalTyped'
    BY <2>3, <2>4, <2>7 DEF JournalTyped, Running
  <2>9. RunsAreJournalled'
    BY <2>3, <2>4 DEF RunsAreJournalled, JournalTyped, Running
  <2>10. UnendedAreOwed'
    <3> SUFFICES ASSUME NEW r \in Turns, journal'[r].states = <<"running">>
                 PROVE  dirty \/ r \in glued' \/ r >= scan + 1
      BY <2>3 DEF UnendedAreOwed
    <3>1. CASE r = scan
      BY <2>3, <2>4, <2>7, <3>1 DEF JournalTyped
    <3>2. CASE r # scan
      <4>1. journal[r].states = <<"running">>
        BY <2>3, <3>2 DEF JournalTyped
      <4>2. dirty \/ r \in glued \/ r >= scan
        BY <2>3, <4>1 DEF UnendedAreOwed, Running
      <4>3. r \in glued => r \in glued'
        BY <2>3, <3>2
      <4>4. r >= scan => r >= scan + 1
        BY <2>4, <3>2
      <4> QED BY <4>2, <4>3, <4>4
    <3> QED BY <3>1, <3>2
  <2> QED BY <2>8, <2>9, <2>10
<1>12. CASE Recovered
  <2>1. /\ stage = "recover" /\ stage' = "idle" /\ UNCHANGED <<glued, scan>> /\ Run' = Run
    BY <1>12, <1>0, <1>a, EventNames DEF Recovered
  <2>2. CASE scan > Run /\ UNCHANGED <<journal, dirty, used>>
    <3>1. JournalTyped' /\ RunsAreJournalled'
      BY <2>1, <2>2 DEF JournalTyped, RunsAreJournalled, Running
    <3>2. UnendedAreOwed'
      <4> SUFFICES ASSUME NEW r \in Turns, journal[r].states = <<"running">> PROVE dirty \/ r \in glued
        BY <2>1, <2>2 DEF UnendedAreOwed
      <4>0. r \in Nat /\ Run \in Nat /\ scan \in Nat
        BY RunsAreNumbered DEF JournalTyped
      <4>1. r <= Run
        <5> SUFFICES ASSUME r > Run PROVE FALSE
          BY <4>0
        <5>1. journal[r] = NoLines
          BY DEF RunsAreJournalled
        <5> QED BY <5>1, StatesDiffer DEF NoLines
      <4>2. dirty \/ r \in glued \/ r >= scan
        BY <2>1 DEF UnendedAreOwed, Running
      <4> QED BY <2>2, <4>0, <4>1, <4>2
    <3> QED BY <3>1, <3>2
  <2>3. CASE scan <= Run /\ Spend("faults") /\ dirty' = TRUE
    <3>1. PICK k : k = Repaired(journal[scan])
      OBVIOUS
    <3>2. scan \in Turns /\ journal[scan] \in Journals /\ scan \in Nat \ {0}
      BY <2>3, RunsAreNumbered DEF JournalTyped
    <3>3. k \in Journals /\ (Unended(k) <=> k.states = <<"running">>)
      BY <3>1, <3>2, RepairedJournal
    <3>4. PICK j \in Journals : journal' = [journal EXCEPT ![scan] = j]
      <4>1. CASE journal' = journal
        <5>1. journal' = [journal EXCEPT ![scan] = journal[scan]]
          BY <3>2, <4>1 DEF JournalTyped
        <5> QED BY <3>2, <5>1
      <4>2. CASE journal' = [journal EXCEPT ![scan] = k]
        BY <3>3, <4>2
      <4>3. CASE /\ Unended(k)
                 /\ \E q \in Failed(k, <<"interrupted">>) : journal' = [journal EXCEPT ![scan] = q]
        <5>1. PICK q \in Failed(k, <<"interrupted">>) : journal' = [journal EXCEPT ![scan] = q]
          BY <4>3
        <5>2. "interrupted" \in Finals
          BY DEF Finals
        <5>3. q \in Journals
          BY <3>3, <4>3, <5>1, <5>2, LastLine
        <5> QED BY <5>1, <5>3
      <4>4. scan <= Run /\ ~(scan > Run)
        BY <2>3, <3>2, RunsAreNumbered
      <4> QED BY <1>12, <3>1, <4>1, <4>2, <4>3, <4>4 DEF Recovered
    <3> QED BY <2>1, <2>3, <3>2, <3>4, JournalChanged DEF Running
  <2> QED BY <1>12, <2>2, <2>3 DEF Recovered
<1>13. CASE UNCHANGED vars
  BY <1>13 DEF vars, JournalTyped, RunsAreJournalled, UnendedAreOwed, Run, Accepted
<1>14. CASE JournalEvent
  <2>1. stage \in Running /\ stage' = stage /\ Run' = Run /\ UNCHANGED <<scan, glued>>
        /\ (dirty' = dirty \/ dirty' = TRUE)
    BY <1>14, <1>0, <1>a, EventAlone, EventNames
  <2>2. Run \in Turns /\ Accepted(journal[Run]) /\ Run <= Run
    BY <1>b, <2>1 DEF RunsAreJournalled
  <2>3. PICK j : /\ Accepted(j) /\ journal' = [journal EXCEPT ![Run] = j]
                 /\ dirty' \/ j.tail = "clean"
    <3>1. CASE journal' = [journal EXCEPT ![Run] = Line(@, <<>>)]
      BY <2>2, <3>1, EventLine DEF JournalTyped
    <3>2. CASE /\ dirty' = TRUE
               /\ \E j \in Failed(journal[Run], <<>>) : journal' = [journal EXCEPT ![Run] = j]
      BY <2>2, <3>2, EventLine
    <3> QED BY <1>14, <3>1, <3>2 DEF JournalEvent
  <2>4. JournalTyped'
    BY <2>1, <2>2, <2>3 DEF JournalTyped, Accepted
  <2>5. RunsAreJournalled'
    <3>1. \A q \in Turns : q > Run => journal'[q] = NoLines
      BY <2>2, <2>3, RunsAreNumbered DEF JournalTyped, RunsAreJournalled
    <3>2. Accepted(journal'[Run]) /\ stage' # "accept" /\ (dirty' \/ journal'[Run].tail = "clean")
      BY <2>1, <2>2, <2>3 DEF JournalTyped, Running
    <3> QED BY <2>1, <3>1, <3>2 DEF RunsAreJournalled, Accepted
  <2>6. UnendedAreOwed'
    BY <2>1, <2>2, <2>3 DEF JournalTyped, UnendedAreOwed, Accepted
  <2> QED BY <2>4, <2>5, <2>6
<1> QED BY <1>1, <1>2, <1>3, <1>4, <1>5, <1>6, <1>7, <1>8, <1>9, <1>10, <1>11, <1>12, <1>13, <1>14
  DEF Next

(* The property follows.                                                   *)
LEMMA JournalsEnd ==
    ASSUME JournalInv
    PROVE  RecoveredRunsEnded
<1> DEFINE final(r) == {i \in DOMAIN journal[r].states : journal[r].states[i] /= "running"}
<1>1. ASSUME NEW r \in Turns
      PROVE  /\ final(r) \subseteq {Len(journal[r].states)}
             /\ final(r) = {} => journal[r].states \in {<<>>, <<"running">>}
  <2>0. PICK s : s = journal[r].states
    OBVIOUS
  <2>1. s \in States
    BY <2>0 DEF JournalInv, JournalTyped, Journals
  <2>2. CASE s \in {<<>>, <<"running">>}
    <3>1. final(r) = {}
      BY <2>0, <2>2
    <3> QED BY <2>0, <2>2, <3>1
  <2>3. CASE s \in {<<"running", x>> : x \in Finals}
    <3>1. PICK x \in Finals : s = <<"running", x>>
      BY <2>3
    <3>2. x # "running"
      BY DEF Finals
    <3>3. /\ Len(s) = 2 /\ DOMAIN s = {1, 2} /\ s[1] = "running"
          /\ s[2] = x
      BY <3>1
    <3> QED BY <2>0, <3>2, <3>3
  <2> QED BY <2>1, <2>2, <2>3 DEF States
<1>2. ASSUME stage = "idle", ~dirty, NEW r \in Turns \ glued, journal[r].states # <<>>
      PROVE  final(r) # {}
  <2>1. journal[r].states # <<"running">>
    BY <1>2 DEF JournalInv, UnendedAreOwed, Running
  <2> QED BY <1>1, <1>2, <2>1
<1> QED BY <1>1, <1>2 DEF RecoveredRunsEnded

(* What two sets of lines have in common when they yield the same view. *)
Same(a, b) == a.nodes = b.nodes /\ a.head = b.head /\ a.cks = b.cks

(* The store with the line of a message that is on disk and enters memory *)
(* with the head line that follows it.                                    *)
Ahead == IF todo # <<>> /\ Len(todo[1].mem) = 2 THEN Add(store, todo[1].mem[1]) ELSE store

Settled == {"idle", "accept", "run", "cursor", "consolidate", "compress",
            "completed", "failed", "recover"}

DiskFollows == ~dirty /\ ~spoiled /\ stage # "down" => Same(file, Ahead)
ViewFollows == ~dirty /\ ~spoiled /\ stage \in Settled => conv = ActiveView
CursorAlone == stage \in {"cursor", "consolidate"} => OnlyCursor(todo)

SyncInv == DiskFollows /\ ViewFollows /\ CursorAlone

(* The view depends on the nodes and the head alone.                       *)
LEMMA SameViews ==
    ASSUME NEW a, NEW b, Same(a, b)
    PROVE  buildActiveView(a.nodes, a.head) = buildActiveView(b.nodes, b.head)
BY DEF Same

(* One more line keeps two sets of lines alike.                            *)
LEMMA SameAdds ==
    ASSUME NEW a \in Stores, NEW b \in Stores, Same(a, b), NEW line \in Lines
    PROVE  Same(Add(a, line), Add(b, line))
<1>1. a.nodes = b.nodes /\ a.head = b.head /\ a.cks = b.cks
  BY DEF Same
<1> DEFINE Now(s) == [nodes |-> IF line.kind = "node" THEN Declare(s.nodes, line) ELSE s.nodes,
                      head |-> IF line.kind = "head" THEN line.id ELSE s.head,
                      cks |-> IF line.kind = "ck" THEN s.cks \cup {line.id} ELSE s.cks]
<1>a. ASSUME NEW s \in Stores
      PROVE  /\ Add(s, line).nodes = Now(s).nodes /\ Add(s, line).head = Now(s).head
             /\ Add(s, line).cks = Now(s).cks
  BY AddIsTyped
<1>b. Now(a) = Now(b)
  BY <1>1
<1> HIDE DEF Now
<1>2. Add(a, line).nodes = Add(b, line).nodes
  BY <1>a, <1>b
<1>3. Add(a, line).head = Add(b, line).head
  BY <1>a, <1>b
<1>4. Add(a, line).cks = Add(b, line).cks
  BY <1>a, <1>b
<1> QED BY <1>2, <1>3, <1>4 DEF Same

(* SyncInv holds at the start.                                             *)
LEMMA SyncInit == Init => SyncInv
<1> SUFFICES ASSUME Init PROVE SyncInv
  OBVIOUS
<1>1. stage = "idle" /\ todo = <<>> /\ file = Nothing /\ store = Nothing /\ conv = <<>>
  BY DEF Init
<1>2. Same(file, Ahead)
  BY <1>1 DEF Same, Ahead
<1>3. ActiveView = <<>>
  <2>1. store.nodes = <<>> /\ store.head = 0
    BY <1>1 DEF Nothing
  <2>2. activePathIDs(<<>>, 0) = <<>>
    <3>1. <<>> \in NodeMaps /\ 0 \in Ident
      BY NothingIsTyped, Identifiers DEF Nothing, Stores
    <3>2. PICK path : path = activePathIDs(<<>>, 0)
      OBVIOUS
    <3>3. path \in Seq(DOMAIN <<>>) /\ DOMAIN <<>> = {}
      BY <3>1, <3>2, PathIsTyped
    <3>4. Len(path) = 0
      <4> SUFFICES ASSUME Len(path) # 0 PROVE FALSE
        OBVIOUS
      <4>1. 1 \in 1 .. Len(path)
        BY <3>3
      <4>2. path[1] \in {}
        BY <3>3, <4>1, ElementOfSeq
      <4> QED BY <4>2
    <3> QED BY <3>2, <3>3, <3>4
  <2> QED BY <2>1, <2>2 DEF ActiveView, buildActiveView
<1> QED BY <1>1, <1>2, <1>3 DEF SyncInv, DiskFollows, ViewFollows, CursorAlone, OnlyCursor

(* When the next append begins a group, nothing is on disk that memory     *)
(* lacks.                                                                  *)
LEMMA Levelled ==
    /\ Level(todo) => Ahead = store
    /\ Level(todo') => Ahead' = store'
<1>1. ASSUME NEW t, NEW s, Level(t)
      PROVE  (IF t # <<>> /\ Len(t[1].mem) = 2 THEN Add(s, t[1].mem[1]) ELSE s) = s
  <2>1. t # <<>> => Len(t[1].mem) < 2
    BY <1>1 DEF Level
  <2>2. \A x : x < 2 => x # 2
    OBVIOUS
  <2> QED BY <2>1, <2>2
<1> QED BY <1>1 DEF Ahead

(* An append that enters memory is the last of its group.                  *)
LEMMA NextIsLevel ==
    ASSUME TodoTyped, todo # <<>>, todo[1].mem # <<>>
    PROVE  Level(Tail(todo))
<1>1. PICK rest \in Seq(Items) : rest = Tail(todo)
  BY TailIsWellFormed
<1>2. todo \in Seq(Items) /\ Len(rest) = Len(todo) - 1 /\ \A i \in DOMAIN rest : rest[i] = todo[i + 1]
  BY <1>1, TailIsWellFormed DEF TodoTyped
<1> SUFFICES ASSUME rest # <<>> PROVE Len(rest[1].mem) < 2
  BY <1>1 DEF Level
<1>3. 1 \in DOMAIN rest /\ 2 \in DOMAIN todo /\ rest[1] = todo[2]
  BY <1>2
<1>4. \/ todo[2].mem = <<todo[2].line>>
      \/ todo[2].mem = <<>>
  <2>1. 2 > 1 /\ 2 - 1 = 1
    OBVIOUS
  <2> QED BY <1>3, <2>1 DEF TodoTyped, WellFormed
<1>5. Len(<<todo[2].line>>) = 1 /\ Len(<<>>) = 0
  OBVIOUS
<1>6. PICK n \in {0, 1} : Len(todo[2].mem) = n
  BY <1>4, <1>5
<1>7. n < 2
  OBVIOUS
<1> QED BY <1>3, <1>6, <1>7

(* A step that writes nothing: the lines and the store stay, and what is to *)
(* be appended next, if anything, begins a new group.                       *)
LEMMA SyncFrame ==
    ASSUME TypeInv, SyncInv, DiskSame, StoreSame, Level(todo), Level(todo'),
           stage # "down", dirty' = dirty \/ dirty' = TRUE,
           stage' \in Settled => (stage \in Settled /\ conv' = conv) \/ conv' = ActiveView,
           stage' \in {"cursor", "consolidate"} => OnlyCursor(todo')
    PROVE  SyncInv'
<1>1. Ahead = store /\ Ahead' = store'
  BY Levelled
<1>2. ActiveView' = ActiveView
  BY DEF ActiveView, StoreSame
<1>3. file' = file /\ store' = store /\ spoiled' = spoiled
  BY DEF DiskSame, StoreSame
<1> QED BY <1>1, <1>2, <1>3 DEF SyncInv, DiskFollows, ViewFollows, CursorAlone

(* An append keeps the file and the memory together: a line that is alone  *)
(* in its group enters both, the first of a pair only the file, and the    *)
(* second brings both lines into memory.                                   *)
LEMMA appendIsSync ==
    ASSUME TypeInv, TypeInv', SyncInv, appendRecord
    PROVE  SyncInv'
<1>1. /\ todo # <<>> /\ Written(todo[1].line) /\ todo' = Tail(todo)
      /\ store' = AddAll([store EXCEPT !.cursor = todo[1].cursor], todo[1].mem)
      /\ UNCHANGED <<conv, stage, dirty>>
  BY DEF appendRecord
<1>2. TodoTyped /\ file \in Stores /\ store \in Stores
  BY DEF TypeInv, DiskTyped, MemoryTyped
<1>3. PICK item \in Items : item = todo[1]
  BY <1>1, <1>2, FirstItem
<1>4. item.line \in Lines /\ item.mem \in Seq(Lines) /\ item.cursor \in Ident
  BY <1>1, <1>2, <1>3, FirstItem
<1>5. PICK tried \in Stores : tried = [store EXCEPT !.cursor = item.cursor]
  BY <1>2, <1>4, CursorIsTyped
<1>6. tried.nodes = store.nodes /\ tried.head = store.head /\ tried.cks = store.cks
  BY <1>2, <1>5 DEF Stores
<1>7. store' = AddAll(tried, item.mem)
  BY <1>1, <1>3, <1>5
<1>8. stage \in DOMAIN afterFailure /\ stage # "down"
  BY <1>1, <1>2, FirstItem, StageNames
<1>9. ~spoiled' => ~spoiled /\ file' = Add(file, item.line)
  BY <1>1, <1>3 DEF Written, TypeInv, DiskTyped
<1>10. /\ Len(todo) \in Nat /\ Len(todo) > 0 /\ DOMAIN todo = 1 .. Len(todo)
       /\ DOMAIN todo' = 1 .. Len(todo) - 1 /\ Len(todo') = Len(todo) - 1
       /\ \A i \in DOMAIN todo' : todo'[i] = todo[i + 1]
  BY <1>1, <1>2, TailIsWellFormed DEF TodoTyped
<1>11. todo' # <<>> => 1 \in DOMAIN todo' /\ 2 \in DOMAIN todo /\ todo'[1] = todo[2]
  BY <1>10 DEF TypeInv, TodoTyped
<1>12. WellFormed(todo)
  BY <1>2 DEF TodoTyped
<1>13. CASE item.mem = <<item.line>>
  <2>1. Len(item.mem) = 1 /\ item.mem[1] = item.line /\ item.mem # <<>>
    BY <1>13
  <2>2. store' = Add(tried, item.line)
    BY <1>7, <2>1 DEF AddAll
  <2>3. Ahead = store
    BY <1>3, <2>1 DEF Ahead
  <2>4. Level(todo')
    BY <1>1, <1>2, <1>3, <2>1, NextIsLevel
  <2>5. Ahead' = store'
    BY <2>4, Levelled
  <2>6. DiskFollows'
    <3> SUFFICES ASSUME ~dirty, ~spoiled' PROVE Same(file', store')
      BY <1>1, <2>5 DEF DiskFollows
    <3>1. Same(file, tried)
      BY <1>6, <1>8, <1>9, <2>3 DEF SyncInv, DiskFollows, Same
    <3> QED BY <1>2, <1>4, <1>9, <2>2, <3>1, SameAdds
  <2>7. ViewFollows'
    <3> SUFFICES ASSUME ~dirty, ~spoiled', stage \in Settled PROVE conv = ActiveView'
      BY <1>1 DEF ViewFollows
    <3>1. stage \in {"cursor", "consolidate"}
      BY <1>8, StageNames DEF Settled
    <3>2. item.line.kind = "cursor"
      BY <1>3, <1>10, <3>1 DEF SyncInv, CursorAlone, OnlyCursor
    <3>3. store'.nodes = store.nodes /\ store'.head = store.head
      BY <1>4, <1>6, <2>2, <3>2, AddIsTyped
    <3> QED BY <1>9, <3>3 DEF SyncInv, ViewFollows, ActiveView
  <2>8. CursorAlone'
    <3> SUFFICES ASSUME stage \in {"cursor", "consolidate"} PROVE OnlyCursor(todo')
      BY <1>1 DEF CursorAlone
    <3>1. OnlyCursor(todo)
      BY DEF SyncInv, CursorAlone
    <3>2. \A i \in DOMAIN todo' : i + 1 \in DOMAIN todo
      BY <1>10
    <3> QED BY <1>10, <3>1, <3>2 DEF OnlyCursor
  <2> QED BY <2>6, <2>7, <2>8 DEF SyncInv
<1>14. ASSUME item.mem # <<item.line>> PROVE stage \notin Settled
  <2>1. 1 \in DOMAIN todo
    BY <1>10
  <2>2. stage \notin {"cursor", "consolidate"}
    BY <1>3, <1>14, <2>1 DEF SyncInv, CursorAlone, OnlyCursor
  <2> QED BY <1>8, <2>2, StageNames DEF Settled
<1>15. ASSUME item.mem # <<item.line>> PROVE ViewFollows' /\ CursorAlone'
  BY <1>1, <1>14, <1>15 DEF ViewFollows, CursorAlone, Settled
<1>16. CASE item.mem = <<>>
  <2>0. Len(<<>>) = 0 /\ Len(<<item.line>>) = 1
    OBVIOUS
  <2>1. /\ 1 \in DOMAIN todo /\ todo[1].mem = <<>> /\ todo[1].mem # <<todo[1].line>>
        /\ Len(todo[1].mem) = 0
    BY <1>3, <1>10, <1>16, <2>0
  <2>2. 2 \in DOMAIN todo /\ todo[2].mem = <<item.line, todo[2].line>>
    <3>1. \/ /\ todo[1].mem = <<>> /\ 1 + 1 \in DOMAIN todo
             /\ todo[1 + 1].mem = <<todo[1].line, todo[1 + 1].line>>
          \/ Len(todo[1].mem) = 2
      BY <1>12, <2>1 DEF WellFormed
    <3>2. Len(todo[1].mem) # 2 /\ 1 + 1 = 2
      BY <2>1
    <3> QED BY <1>3, <3>1, <3>2
  <2>3. todo' # <<>> /\ todo'[1] = todo[2]
    BY <1>10, <1>11, <2>2
  <2>4. Len(todo'[1].mem) = 2 /\ todo'[1].mem[1] = item.line
    <3>1. \A x, y : Len(<<x, y>>) = 2 /\ <<x, y>>[1] = x
      OBVIOUS
    <3>2. todo'[1].mem = <<item.line, todo[2].line>>
      BY <2>2, <2>3
    <3> QED BY <3>1, <3>2
  <2>5. store' = tried
    BY <1>7, <1>16 DEF AddAll
  <2>6. Ahead = store /\ Ahead' = Add(tried, item.line)
    BY <2>1, <2>3, <2>4, <2>5 DEF Ahead
  <2>7. DiskFollows'
    <3> SUFFICES ASSUME ~dirty, ~spoiled' PROVE Same(file', Ahead')
      BY <1>1 DEF DiskFollows
    <3>1. Same(file, tried)
      BY <1>6, <1>8, <1>9, <2>6 DEF SyncInv, DiskFollows, Same
    <3> QED BY <1>2, <1>4, <1>9, <2>6, <3>1, SameAdds
  <2>8. item.mem # <<item.line>>
    BY <1>3, <2>1
  <2> QED BY <1>15, <2>7, <2>8 DEF SyncInv
<1>17. CASE Len(item.mem) = 2 /\ item.mem[2] = item.line
  <2>0. Len(<<>>) = 0 /\ Len(<<item.line>>) = 1
    OBVIOUS
  <2>1. item.mem # <<>> /\ item.mem # <<item.line>> /\ Len(item.mem) # 1
    BY <1>17, <2>0
  <2>2. PICK first \in Lines : first = item.mem[1]
    BY <1>4, <1>17, ElementOfSeq
  <2>3. store' = Add(Add(tried, first), item.line)
    BY <1>7, <1>17, <2>1, <2>2 DEF AddAll
  <2>4. Ahead = Add(store, first)
    BY <1>1, <1>3, <1>17, <2>2 DEF Ahead
  <2>5. Level(todo')
    BY <1>1, <1>2, <1>3, <2>1, NextIsLevel
  <2>6. Ahead' = store'
    BY <2>5, Levelled
  <2>7. DiskFollows'
    <3> SUFFICES ASSUME ~dirty, ~spoiled' PROVE Same(file', store')
      BY <1>1, <2>6 DEF DiskFollows
    <3>1. Same(file, Add(store, first))
      BY <1>8, <1>9, <2>4 DEF SyncInv, DiskFollows
    <3>2. Same(Add(store, first), Add(tried, first))
      BY <1>2, <1>6, SameAdds DEF Same
    <3>3. Same(file, Add(tried, first)) /\ Add(tried, first) \in Stores
      BY <3>1, <3>2, AddIsTyped DEF Same
    <3> QED BY <1>2, <1>4, <1>9, <2>3, <3>3, SameAdds
  <2> QED BY <1>15, <2>1, <2>7 DEF SyncInv
<1>18. \/ item.mem = <<item.line>> \/ item.mem = <<>>
       \/ Len(item.mem) = 2 /\ item.mem[2] = item.line
  BY <1>3, <1>10, <1>12 DEF WellFormed
<1> QED BY <1>13, <1>16, <1>17, <1>18

(* Every step keeps the file, the memory and the conversation together.    *)
LEMMA SyncStep == TypeInv /\ TypeInv' /\ SyncInv /\ [Next]_vars => SyncInv'
<1> SUFFICES ASSUME TypeInv, TypeInv', SyncInv, [Next]_vars PROVE SyncInv'
  OBVIOUS
<1>0. ASSUME stage \notin DOMAIN afterFailure \/ todo = <<>> PROVE todo = <<>> /\ Level(todo)
  BY <1>0, NoneIsWellFormed DEF TypeInv, TodoTyped
<1>1. CASE appendRecord
  BY <1>1, appendIsSync
<1>2. CASE AppendFails
  <2>1. dirty' /\ todo' = <<>>
    BY <1>2 DEF AppendFails
  <2> QED BY <2>1 DEF SyncInv, DiskFollows, ViewFollows, CursorAlone, OnlyCursor
<1>3. CASE BeginRun \/ AcceptRun \/ AcceptFails \/ Reply
  <2>1. /\ stage \in {"idle", "accept", "run"} /\ stage' \in {"idle", "accept", "run"}
        /\ DiskSame /\ StoreSame /\ UNCHANGED <<todo, conv>>
        /\ (dirty' = dirty \/ dirty' = TRUE)
    BY <1>3 DEF BeginRun, AcceptRun, AcceptFails, Reply
  <2>2. todo = <<>> /\ Level(todo) /\ Level(todo')
    BY <1>0, <2>1, StageNames
  <2> QED BY <2>1, <2>2, SyncFrame DEF Settled
<1>4. CASE FinishRun
  <2>1. /\ stage = "run" /\ stage' \notin {"cursor", "consolidate"} /\ DiskSame /\ StoreSame
        /\ conv' = conv /\ dirty' = dirty
    BY <1>4 DEF FinishRun
  <2>2. Level(todo) /\ Level(todo')
    BY <1>0, <1>4, <2>1, StageNames, FinishIsTyped
  <2> QED BY <2>1, <2>2, SyncFrame DEF Settled
<1>5. CASE CommitRest \/ CheckpointRun
  <2>1. /\ todo = <<>> /\ stage' \in {"commit", "checkpoint"} /\ stage # "down"
        /\ DiskSame /\ StoreSame /\ dirty' = dirty
    BY <1>5 DEF CommitRest, CheckpointRun
  <2>2. Level(todo) /\ Level(todo')
    BY <1>0, <1>5, <2>1, CommitRestIsTyped, CheckpointIsTyped
  <2> QED BY <2>1, <2>2, SyncFrame DEF Settled
<1>6. CASE RefreshRun
  <2>1. /\ todo = <<>> /\ todo' = todo /\ stage' = "completed" /\ stage # "down"
        /\ conv' = ActiveView
        /\ DiskSame /\ StoreSame /\ dirty' = dirty
    BY <1>6 DEF RefreshRun
  <2> QED BY <1>0, <2>1, SyncFrame
<1>7. CASE EndRun
  <2>1. /\ stage \in {"completed", "failed"} /\ stage' = "idle" /\ conv' = conv /\ todo' = todo
        /\ DiskSame /\ StoreSame /\ (dirty' = dirty \/ dirty' = TRUE)
    BY <1>7 DEF EndRun
  <2> QED BY <1>0, <2>1, SyncFrame, StageNames DEF Settled
<1>8. CASE Consolidate("cursor") \/ Consolidate("consolidate")
  <2>1. stage = "idle" /\ conv' = conv /\ DiskSame /\ StoreSame /\ dirty' = dirty
    BY <1>8 DEF Consolidate
  <2>2. Level(todo) /\ Level(todo') /\ OnlyCursor(todo')
    BY <1>0, <1>8, <2>1, StageNames, ConsolidateIsTyped
  <2> QED BY <2>1, <2>2, SyncFrame DEF Settled
<1>9. CASE CompressStore
  <2>1. /\ stage = "compress" /\ stage' \in {"idle", "compact"} /\ conv' = conv /\ DiskSame
        /\ StoreSame /\ dirty' = dirty
    BY <1>9 DEF CompressStore
  <2>2. Level(todo) /\ Level(todo')
    BY <1>0, <1>9, CompressStoreIsTyped
  <2> QED BY <2>1, <2>2, SyncFrame DEF Settled
<1>10. CASE Rewind
  <2>1. /\ stage = "idle" /\ stage' = "rewind" /\ conv' = conv /\ DiskSame /\ StoreSame
        /\ dirty' = dirty
    BY <1>10 DEF Rewind
  <2>2. Level(todo) /\ Level(todo')
    BY <1>0, <1>10, <2>1, StageNames, RewindIsTyped
  <2> QED BY <2>1, <2>2, SyncFrame DEF Settled
<1>11. CASE Done
  <2>1. /\ todo = <<>> /\ todo' = todo /\ stage' \in {"idle", "compress"} /\ stage # "down"
        /\ (stage \in {"cursor", "consolidate"} /\ conv' = conv) \/ conv' = ActiveView
        /\ DiskSame /\ StoreSame /\ dirty' = dirty
    BY <1>11 DEF Done
  <2> QED BY <1>0, <2>1, SyncFrame DEF Settled
<1>12. CASE Crash \/ CloseSession
  <2>1. stage' = "down"
    BY <1>12 DEF Crash, CloseSession, Forget
  <2> QED BY <2>1 DEF SyncInv, DiskFollows, ViewFollows, CursorAlone, Settled
<1>13. CASE Open
  <2>1. /\ stage = "down" /\ stage' = "recover" /\ store' = file /\ conv' = OnDisk
        /\ file' = file /\ todo' = todo
    BY <1>13 DEF Open
  <2>2. todo' = <<>>
    BY <1>0, <2>1, StageNames
  <2>3. Ahead' = store'
    BY <2>2 DEF Ahead
  <2>4. ActiveView' = OnDisk
    BY <2>1 DEF ActiveView, OnDisk
  <2> QED BY <2>1, <2>3, <2>4 DEF SyncInv, DiskFollows, ViewFollows, CursorAlone, Same
<1>14. CASE MarkInterrupted \/ Recovered
  <2>1. /\ stage = "recover" /\ stage' \in {"recover", "idle"} /\ conv' = conv /\ todo' = todo
        /\ DiskSame /\ StoreSame /\ (dirty' = dirty \/ dirty' = TRUE)
    BY <1>14 DEF MarkInterrupted, Recovered
  <2> QED BY <1>0, <2>1, SyncFrame, StageNames DEF Settled
<1>15. CASE UNCHANGED vars
  BY <1>15 DEF vars, SyncInv, DiskFollows, ViewFollows, CursorAlone, Ahead, ActiveView
<1>16. CASE JournalEvent
  <2>1. /\ file' = file /\ store' = store /\ conv' = conv /\ todo' = todo /\ stage' = stage
        /\ spoiled' = spoiled /\ (dirty' = dirty \/ dirty' = TRUE)
    BY <1>16, EventAlone
  <2>2. Ahead' = Ahead /\ ActiveView' = ActiveView
    BY <2>1 DEF Ahead, ActiveView
  <2> QED BY <2>1, <2>2 DEF SyncInv, DiskFollows, ViewFollows, CursorAlone
<1> QED BY <1>1, <1>2, <1>3, <1>4, <1>5, <1>6, <1>7, <1>8, <1>9, <1>10, <1>11, <1>12, <1>13,
           <1>14, <1>15, <1>16 DEF Next

Inv == TypeInv /\ JournalInv /\ SyncInv

(* The inductive invariant of the session store.                           *)
THEOREM Invariance == Spec => []Inv
<1>1. Init => Inv
  BY TypeInit, JournalInit, SyncInit DEF Inv
<1>2. Inv /\ [Next]_vars => Inv'
  BY TypeStep, JournalStep, SyncStep DEF Inv
<1> QED BY <1>1, <1>2, PTL DEF Spec

(* The state keeps its shape: every id within its bounds, every node       *)
(* holding messages that were handed out, and an append pending only in a  *)
(* stage that appends.                                                     *)
THEOREM TypeCorrect == Spec => []TypeOK
<1>1. Inv => TypeOK
  <2> SUFFICES ASSUME Inv PROVE TypeOK
    OBVIOUS
  <2>1. /\ tail \in {"clean", "torn", "unterminated"} /\ stage \in Stages
        /\ (todo /= <<>> => stage \in DOMAIN afterFailure)
    BY DEF Inv, TypeInv, DiskTyped, TodoTyped
  <2>2. ASSUME NEW s \in {file, before, store}
        PROVE  /\ DOMAIN s.nodes \subseteq Ident /\ {s.head, s.cursor} \cup s.cks \subseteq Ident
               /\ \A n \in DOMAIN s.nodes : s.nodes[n].holds \subseteq 1 .. MaxNodes
    <3>1. s \in Stores
      BY <2>2 DEF Inv, TypeInv, DiskTyped, MemoryTyped
    <3>2. s.nodes \in NodeMaps /\ {s.head, s.cursor} \cup s.cks \subseteq Ident
      BY <3>1 DEF Stores
    <3>3. PICK D \in SUBSET Ident : s.nodes \in [D -> Nodes]
      BY <3>2 DEF NodeMaps
    <3> QED BY <3>2, <3>3 DEF Nodes, Holdings
  <2>3. /\ next \in 0 .. MaxNodes /\ fresh \subseteq 1 .. MaxNodes
        /\ told \subseteq 1 .. MaxNodes /\ fed \subseteq 1 .. MaxNodes
    BY DEF Inv, TypeInv, CountsTyped, Holdings
  <2>4. glued \subseteq Turns
    BY DEF Inv, JournalInv, JournalTyped
  <2> QED BY <2>1, <2>2, <2>3, <2>4 DEF TypeOK, Ident
<1> QED BY <1>1, Invariance, PTL

(* No journal ever has a state behind its final one, and when the session  *)
(* is ready and no append has failed since it was opened every accepted    *)
(* run has ended, but for those whose marker the recovery glued to a line  *)
(* without its newline: the run ended itself, or the recovery of the last  *)
(* start marked it, however often it was cut short before                  *)
(* (MarkInterruptedRuns, RecordRun).                                       *)
THEOREM RecoveredRunsEnd == Spec => []RecoveredRunsEnded
<1>1. Inv => RecoveredRunsEnded
  BY JournalsEnd DEF Inv
<1> QED BY <1>1, Invariance, PTL

(* Between operations the conversation given to the model, the view of the *)
(* store and the view a restart would rebuild are the same messages in the *)
(* same order: through commits, folds, rewinds, crashes inside any append  *)
(* and reopenings, for every number of messages (Commit, Compact, Open,    *)
(* refreshConversation).                                                   *)
THEOREM ReloadsAgree == Spec => []ReloadAgrees
<1>1. Inv => ReloadAgrees
  <2> SUFFICES ASSUME Inv, stage = "idle", ~dirty, ~spoiled
               PROVE  conv = ActiveView /\ conv = OnDisk
    BY DEF ReloadAgrees
  <2>1. todo = <<>>
    BY StageNames DEF Inv, TypeInv, TodoTyped
  <2>2. Same(file, store)
    BY <2>1 DEF Inv, SyncInv, DiskFollows, Ahead
  <2>3. conv = ActiveView
    BY DEF Inv, SyncInv, ViewFollows, Settled
  <2>4. OnDisk = ActiveView
    BY <2>2, SameViews DEF OnDisk, ActiveView
  <2> QED BY <2>3, <2>4
<1> QED BY <1>1, Invariance, PTL

-----------------------------------------------------------------------------
(* Paths and views *)

(* The nodes of a map carry the ids they are declared under. *)
Keyed(n) == \A i \in DOMAIN n : n[i].id = i

(* Ranks that grow from the root: a fold up to a message ranks behind it,  *)
(* and every declared message behind its parent.                           *)
Ranked(rank) == rank \in [Ident -> Int] /\ \A t \in 1 .. MaxNodes : rank[t] < rank[-t]

(* A fold is a root; a message is linked to its parent. *)
Linked(rank, l) ==
    /\ l.id # 0
    /\ l.id < 0 => l.parent = 0 /\ l.role = "system"
    /\ l.id > 0 => rank[l.parent] < rank[l.id]

(* All nodes are.                                                          *)
Rooted(rank, n) == \A i \in DOMAIN n : Linked(rank, n[i])

(* A walk that has come from h to w[1]. *)
Climb(n, h, w) ==
    /\ w \in Seq(DOMAIN n) /\ (w = <<>> <=> ~hasID(n, h))
    /\ w # <<>> => w[Len(w)] = h
    /\ \A i \in 2 .. Len(w) : w[i - 1] = n[w[i]].parent
    /\ \A i, j \in 1 .. Len(w) : w[i] = w[j] => i = j

(* A step towards the root keeps it.                                       *)
LEMMA FurtherClimbs ==
    ASSUME NEW n, NEW h, NEW w, Climb(n, h, w)
    PROVE  /\ Climb(n, h, Further(n, w))
           /\ Further(n, w) # w => Len(Further(n, w)) = Len(w) + 1
           /\ Further(n, w) = w /\ w # <<>> =>
                ~hasID(n, n[w[1]].parent) \/ Contains(w, n[w[1]].parent)
<1> DEFINE p == n[w[1]].parent
           v == <<p>> \o w
<1>1. w \in Seq(DOMAIN n) /\ Len(w) \in Nat
  BY DEF Climb
<1>2. CASE ~(w # <<>> /\ hasID(n, p) /\ ~Contains(w, p))
  BY <1>2 DEF Further
<1>3. CASE w # <<>> /\ hasID(n, p) /\ ~Contains(w, p)
  <2>1. Further(n, w) = v
    BY <1>3 DEF Further
  <2>2. p \in DOMAIN n
    BY <1>3 DEF hasID
  <2>3. \A i \in 1 .. Len(w) : w[i] # p
    BY <1>1, <1>3 DEF Contains
  <2>4. w[1] \in DOMAIN n /\ p = n[w[1]].parent /\ Len(w) > 0
    BY <1>1, <1>3
  <2> HIDE DEF p
  <2>5. /\ v \in Seq(DOMAIN n) /\ Len(v) = Len(w) + 1 /\ v[1] = p
        /\ \A i \in 2 .. Len(w) + 1 : v[i] = w[i - 1]
    BY <1>1, <2>2
  <2> HIDE DEF v
  <2>6. v # <<>> /\ v[Len(v)] = h /\ hasID(n, h)
    BY <1>1, <1>3, <2>4, <2>5 DEF Climb
  <2>7. \A i \in 2 .. Len(v) : v[i - 1] = n[v[i]].parent
    <3> TAKE i \in 2 .. Len(v)
    <3>1. CASE i = 2
      BY <1>1, <2>4, <2>5, <3>1
    <3>2. CASE i # 2
      <4>1. i - 1 \in 2 .. Len(w) /\ i \in 2 .. Len(w) + 1
        BY <1>1, <2>5, <3>2
      <4>2. v[i] = w[i - 1] /\ v[i - 1] = w[i - 1 - 1]
        BY <1>1, <2>5, <4>1
      <4> QED BY <4>1, <4>2 DEF Climb
    <3> QED BY <3>1, <3>2
  <2>8. \A i, j \in 1 .. Len(v) : v[i] = v[j] => i = j
    <3> TAKE i, j \in 1 .. Len(v)
    <3> HAVE v[i] = v[j]
    <3>1. \A k \in 1 .. Len(v) : k = 1 \/ (k - 1 \in 1 .. Len(w) /\ v[k] = w[k - 1] /\ v[k] # p)
      BY <1>1, <2>3, <2>5
    <3>2. CASE i = 1 \/ j = 1
      BY <2>5, <3>1, <3>2
    <3>3. CASE i # 1 /\ j # 1
      <4>1. i - 1 = j - 1
        BY <3>1, <3>3 DEF Climb
      <4> QED BY <1>1, <2>5, <4>1
    <3> QED BY <3>2, <3>3
  <2>9. Climb(n, h, v) /\ v # w
    BY <1>1, <2>5, <2>6, <2>7, <2>8 DEF Climb
  <2> QED BY <2>1, <2>5, <2>9
<1> QED BY <1>2, <1>3
(* The path to h climbs from h through the parents, visits no node twice,  *)
(* and ends where the next parent is not declared or was visited.          *)
LEMMA PathClimbs ==
    ASSUME NEW n \in NodeMaps, NEW h
    PROVE  LET P == activePathIDs(n, h)
           IN  /\ Climb(n, h, P)
               /\ P # <<>> => ~hasID(n, n[P[1]].parent) \/ Contains(P, n[P[1]].parent)
<1> DEFINE walk == CHOOSE f : f = Walk(n, h, f)
           N == Cardinality(DOMAIN n)
<1>1. walk = Walk(n, h, walk)
  BY WalkExists, Zenon
<1>2. activePathIDs(n, h) = walk[N]
  BY DEF activePathIDs, Walk
<1> HIDE DEF walk
<1>3. /\ walk[0] = IF hasID(n, h) THEN <<h>> ELSE <<>>
      /\ \A i \in Nat : walk[i + 1] = Further(n, walk[i])
  BY <1>1 DEF Walk
<1> DEFINE Q == {i \in Nat : /\ Climb(n, h, walk[i])
                             /\ walk[i] = <<>> \/ Len(walk[i]) = i + 1 \/ Further(n, walk[i]) = walk[i]}
<1>4. 0 \in Q
  <2>1. CASE hasID(n, h)
    <3>1. walk[0] = <<h>> /\ h \in DOMAIN n
      BY <1>3, <2>1 DEF hasID
    <3>2. <<h>> \in Seq(DOMAIN n) /\ Len(<<h>>) = 1 /\ <<h>>[1] = h /\ <<h>> # <<>>
      BY <3>1
    <3>3. Climb(n, h, <<h>>)
      BY <2>1, <3>2 DEF Climb
    <3> QED BY <3>1, <3>2, <3>3
  <2>2. CASE ~hasID(n, h)
    <3>1. walk[0] = <<>>
      BY <1>3, <2>2
    <3>2. Climb(n, h, <<>>)
      BY <2>2 DEF Climb
    <3> QED BY <3>1, <3>2
  <2> QED BY <2>1, <2>2
<1>5. ASSUME NEW i \in Nat, i \in Q PROVE i + 1 \in Q
  <2>1. walk[i + 1] = Further(n, walk[i])
    BY <1>3
  <2>2. Climb(n, h, walk[i])
    BY <1>5
  <2>3. /\ Climb(n, h, walk[i + 1])
        /\ walk[i + 1] # walk[i] => Len(walk[i + 1]) = Len(walk[i]) + 1
    BY <2>1, <2>2, FurtherClimbs
  <2>4. CASE walk[i + 1] = walk[i]
    <3>1. Further(n, walk[i + 1]) = walk[i + 1]
      BY <2>1, <2>4
    <3> QED BY <2>3, <3>1
  <2>5. CASE walk[i + 1] # walk[i]
    <3>1. walk[i] # <<>>
      BY <2>2, <2>3, <2>5 DEF Climb
    <3>2. Len(walk[i]) = i + 1
      BY <1>5, <2>1, <2>5, <3>1
    <3> QED BY <2>3, <2>5, <3>2
  <2> QED BY <2>4, <2>5
<1>6. \A i \in Nat : i \in Q
  <2> HIDE DEF Q
  <2> QED BY <1>4, <1>5, SetInduction
<1>7. N \in Nat /\ IsFiniteSet(DOMAIN n)
  <2>1. DOMAIN n \in SUBSET Ident
    BY NodeMap
  <2> QED BY <2>1, Identifiers, FS_Subset, NodesAreFinite
<1>8. /\ Climb(n, h, walk[N])
      /\ walk[N] = <<>> \/ Len(walk[N]) = N + 1 \/ Further(n, walk[N]) = walk[N]
  BY <1>6, <1>7
<1>9. ASSUME Len(walk[N]) = N + 1 PROVE FALSE
  <2>1. /\ walk[N] \in Seq(DOMAIN n)
        /\ \A i, j \in 1 .. Len(walk[N]) : walk[N][i] = walk[N][j] => i = j
    BY <1>8 DEF Climb
  <2>2. walk[N] \in [1 .. N + 1 -> DOMAIN n]
    BY <1>9, <2>1
  <2>3. IsFiniteSet(1 .. N + 1) /\ Cardinality(1 .. N + 1) = N + 1
    BY <1>7, FS_Interval
  <2>4. PICK x, y \in 1 .. N + 1 : x # y /\ walk[N][x] = walk[N][y]
    <3> HIDE DEF N
    <3>1. N < Cardinality(1 .. N + 1)
      BY <1>7, <2>3
    <3>2. IsFiniteSet(DOMAIN n) /\ Cardinality(DOMAIN n) = N
      BY <1>7 DEF N
    <3>3. PICK w \in [1 .. N + 1 -> DOMAIN n] : w = walk[N]
      BY <2>2
    <3>4. Cardinality(DOMAIN n) < Cardinality(1 .. N + 1)
      BY <3>1, <3>2
    <3>5. PICK S, T : S = 1 .. N + 1 /\ T = DOMAIN n
      OBVIOUS
    <3>6. /\ IsFiniteSet(S) /\ IsFiniteSet(T) /\ w \in [S -> T]
          /\ Cardinality(T) < Cardinality(S)
      BY <2>3, <3>2, <3>4, <3>5
    <3>7. \E x, y \in S : x # y /\ w[x] = w[y]
      BY <3>6, FS_PigeonHole
    <3> QED BY <3>3, <3>5, <3>7
  <2> QED BY <1>9, <2>1, <2>4
<1> QED BY <1>2, <1>8, <1>9, FurtherClimbs

(* Where the ranks link the nodes, they grow along the path, and the path  *)
(* ends at a node whose parent is not declared.                            *)
LEMMA PathIsLinked ==
    ASSUME NEW rank, Ranked(rank), NEW n \in NodeMaps, Keyed(n), Rooted(rank, n), NEW h
    PROVE  LET P == activePathIDs(n, h)
           IN  /\ \A i, j \in 1 .. Len(P) : i <= j => rank[P[i]] <= rank[P[j]]
               /\ \A i \in 2 .. Len(P) : P[i] > 0 /\ P[i - 1] = n[P[i]].parent
               /\ P # <<>> => ~hasID(n, n[P[1]].parent)
<1>1. PICK P : P = activePathIDs(n, h)
  OBVIOUS
<1>2. /\ Climb(n, h, P)
      /\ P # <<>> => ~hasID(n, n[P[1]].parent) \/ Contains(P, n[P[1]].parent)
  BY <1>1, PathClimbs
<1>3. P \in Seq(DOMAIN n) /\ Len(P) \in Nat /\ DOMAIN n \subseteq Ident /\ Ident \subseteq Int
  BY <1>2, NodeMap, Identifiers DEF Climb
<1>4. \A i \in 1 .. Len(P) : P[i] \in DOMAIN n /\ P[i] \in Ident /\ n[P[i]].id = P[i] /\ Linked(rank, n[P[i]]) /\ P[i] # 0
  BY <1>3, ElementOfSeq DEF Keyed, Rooted, Linked
<1>a. \A i \in 1 .. Len(P) : rank[P[i]] \in Int
  BY <1>4 DEF Ranked
<1>5. \A i \in 2 .. Len(P) : P[i - 1] = n[P[i]].parent /\ i - 1 \in 1 .. Len(P) /\ i \in 1 .. Len(P)
  BY <1>2, <1>3 DEF Climb
<1>6. ASSUME NEW i \in 2 .. Len(P)
      PROVE  P[i] > 0 /\ rank[P[i - 1]] < rank[P[i]]
  <2>1. /\ P[i - 1] = n[P[i]].parent /\ P[i - 1] # 0 /\ P[i] # 0 /\ P[i] \in Int
        /\ n[P[i]].id = P[i] /\ Linked(rank, n[P[i]])
    BY <1>3, <1>4, <1>5
  <2>2. P[i] > 0
    BY <2>1 DEF Linked
  <2> QED BY <2>1, <2>2 DEF Linked
<1> DEFINE K == {j \in Nat : j \in 1 .. Len(P) => \A i \in 1 .. j : rank[P[i]] <= rank[P[j]]}
<1>7. 0 \in K
  OBVIOUS
<1>8. ASSUME NEW j \in Nat, j \in K PROVE j + 1 \in K
  <2> SUFFICES ASSUME j + 1 \in 1 .. Len(P), NEW i \in 1 .. j + 1 PROVE rank[P[i]] <= rank[P[j + 1]]
    OBVIOUS
  <2>1. CASE i = j + 1
    BY <1>a, <2>1
  <2>2. CASE i # j + 1
    <3>1. j \in 1 .. Len(P) /\ i \in 1 .. j /\ i \in 1 .. Len(P) /\ j + 1 \in 2 .. Len(P) /\ j + 1 - 1 = j
      BY <1>3, <2>2
    <3>2. rank[P[i]] <= rank[P[j]]
      BY <1>8, <3>1
    <3>3. rank[P[j]] < rank[P[j + 1]]
      BY <1>6, <3>1
    <3> QED BY <1>a, <3>1, <3>2, <3>3
  <2> QED BY <2>1, <2>2
<1>9. \A j \in Nat : j \in K
  <2> HIDE DEF K
  <2> QED BY <1>7, <1>8, SetInduction
<1>10. \A i, j \in 1 .. Len(P) : i <= j => rank[P[i]] <= rank[P[j]]
  BY <1>3, <1>9
<1>11. ASSUME P # <<>>, hasID(n, n[P[1]].parent) PROVE FALSE
  <2>1. 1 \in 1 .. Len(P)
    BY <1>3, <1>11
  <2>2. PICK p : p = n[P[1]].parent
    OBVIOUS
  <2>3. p \in DOMAIN n /\ p # 0
    BY <1>11, <2>2 DEF hasID, Keyed, Rooted, Linked
  <2>4. rank[p] < rank[P[1]]
    <3>1. P[1] \in Int /\ P[1] # 0 /\ n[P[1]].id = P[1] /\ Linked(rank, n[P[1]])
      BY <1>3, <1>4, <2>1
    <3> QED BY <2>2, <2>3, <3>1 DEF Linked
  <2>5. Contains(P, p)
    BY <1>2, <1>11, <2>2
  <2>6. PICK i \in 1 .. Len(P) : P[i] = p
    BY <1>3, <2>5 DEF Contains
  <2>7. rank[P[1]] <= rank[P[i]]
    BY <1>10, <2>1
  <2> QED BY <1>a, <2>1, <2>4, <2>6, <2>7
<1> QED BY <1>1, <1>5, <1>6, <1>10, <1>11

-----------------------------------------------------------------------------
(* What Commit and Compact append *)

(* The messages at some places are picked in their order, each once.       *)
LEMMA AtPicks ==
    ASSUME NEW ms \in Seq(Messages), NEW places \in SUBSET DOMAIN ms
    PROVE  \E n \in Nat : \E at \in [1 .. n -> places] :
             /\ At(ms, places) \in Seq(Messages) /\ Len(At(ms, places)) = n
             /\ \A k \in 1 .. n : At(ms, places)[k] = ms[at[k]]
             /\ \A k, l \in 1 .. n : at[k] <= at[l] => k <= l
             /\ \A i \in places : \E k \in 1 .. n : at[k] = i
<1> DEFINE below(i) == {j \in places : j <= i}
           nth(k) == CHOOSE i \in places : Cardinality(below(i)) = k
           n == Cardinality(places)
           at == [k \in 1 .. n |-> nth(k)]
<1>1. DOMAIN ms = 1 .. Len(ms) /\ Len(ms) \in Nat
  OBVIOUS
<1>2. places \in SUBSET (1 .. Len(ms))
  BY <1>1
<1>3. At(ms, places) = [k \in 1 .. n |-> ms[nth(k)]]
  BY DEF At
<1>4. /\ IsFiniteSet(places) /\ n \in Nat
      /\ \A k \in 1 .. n : \E i \in places : Cardinality(below(i)) = k
  BY <1>1, <1>2, NthElement
<1>5. \A k \in 1 .. n : nth(k) \in places /\ Cardinality(below(nth(k))) = k
  <2> HIDE DEF n, below
  <2> QED BY <1>4
<1> HIDE DEF nth
<1>6. \A i \in places : IsFiniteSet(below(i)) /\ Cardinality(below(i)) \in 1 .. n
  <2> TAKE i \in places
  <2>1. below(i) \in SUBSET places /\ i \in below(i)
    BY <1>2
  <2> HIDE DEF below
  <2>2. IsFiniteSet(below(i)) /\ Cardinality(below(i)) <= n
    BY <1>4, <2>1, FS_Subset
  <2>3. Cardinality(below(i)) \in Nat /\ Cardinality(below(i)) # 0
    BY <2>1, <2>2, FS_CardinalityType, FS_EmptySet
  <2> QED BY <1>4, <2>2, <2>3
<1>7. \A i, j \in places : i <= j =>
         /\ Cardinality(below(i)) <= Cardinality(below(j))
         /\ Cardinality(below(i)) = Cardinality(below(j)) => i = j
  <2> TAKE i, j \in places
  <2> HAVE i <= j
  <2>1. below(i) \in SUBSET below(j) /\ j \in below(j) /\ (j \in below(i) => i = j)
    BY <1>2
  <2> HIDE DEF below
  <2> QED BY <1>6, <2>1, FS_Subset
<1> HIDE DEF below, n
<1>8. at \in [1 .. n -> places] /\ \A k \in 1 .. n : at[k] = nth(k)
  BY <1>5
<1> HIDE DEF at
<1>9. ASSUME NEW k \in 1 .. n, NEW l \in 1 .. n, at[k] <= at[l] PROVE k <= l
  BY <1>5, <1>7, <1>8, <1>9
<1>10. ASSUME NEW i \in places PROVE \E k \in 1 .. n : at[k] = i
  <2>1. PICK k \in 1 .. n : k = Cardinality(below(i))
    BY <1>6
  <2>2. nth(k) \in places /\ Cardinality(below(nth(k))) = k
    BY <1>5
  <2>3. nth(k) <= i \/ i <= nth(k)
    BY <1>2, <2>2
  <2>4. nth(k) = i
    BY <1>7, <2>1, <2>2, <2>3
  <2> QED BY <1>8, <2>4
<1>11. At(ms, places) \in Seq(Messages)
  BY AtIsTyped
<1>12. Len(At(ms, places)) = n /\ \A k \in 1 .. n : At(ms, places)[k] = ms[at[k]]
  BY <1>3, <1>4, <1>8
<1> QED BY <1>4, <1>8, <1>9, <1>10, <1>11, <1>12

(* What Commit appends: for each message that is not recorded a line of    *)
(* the node under the one before it, and a head line that moves to it.     *)
NewLine(new, i) == Node(new[i], IF i = 1 THEN store.head ELSE new[i - 1].id)

(* The head line behind it.                                                *)
NewHead(new, i) == Mark("head", new[i].id)

(* Commit appends items for the messages ms, of which new are not          *)
(* recorded.                                                               *)
Commits(items, ms, new) ==
    /\ Len(new) \in Nat /\ DOMAIN new = 1 .. Len(new)
    /\ \A i \in 1 .. Len(new) :
         \E k \in DOMAIN ms : new[i] = ms[k] /\ ms[k].id \notin DOMAIN store.nodes
    /\ \A k \in DOMAIN ms :
         ms[k].id \notin DOMAIN store.nodes => \E i \in 1 .. Len(new) : new[i] = ms[k]
    /\ (\A k, l \in DOMAIN ms : ms[k].id = ms[l].id => k = l) =>
         \A i, j \in 1 .. Len(new) : new[i].id = new[j].id => i = j
    /\ DOMAIN items = 1 .. 2 * Len(new)
    /\ \A i \in 1 .. Len(new) :
         /\ items[2 * i - 1] = Item(NewLine(new, i), <<>>, store.cursor)
         /\ items[2 * i] = Item(NewHead(new, i), <<NewLine(new, i), NewHead(new, i)>>, store.cursor)

(* Commit appends that: each message that is not recorded, in the order of *)
(* the messages.                                                           *)
LEMMA CommitShape ==
    ASSUME store \in Stores, NEW ms \in Seq(Messages)
    PROVE  \E new \in Seq(Messages) : Commits(CommitItems(ms), ms, new)
<1> DEFINE places == {i \in DOMAIN ms : ~hasID(store.nodes, ms[i].id)}
<1>1. places \in SUBSET DOMAIN ms /\ Unrecorded(ms) = At(ms, places)
  BY DEF Unrecorded
<1> HIDE DEF places
<1>a. PICK n \in Nat : \E at \in [1 .. n -> places] :
             /\ At(ms, places) \in Seq(Messages) /\ Len(At(ms, places)) = n
             /\ \A k \in 1 .. n : At(ms, places)[k] = ms[at[k]]
             /\ \A k, l \in 1 .. n : at[k] <= at[l] => k <= l
             /\ \A i \in places : \E k \in 1 .. n : at[k] = i
  BY <1>1, AtPicks
<1>2. PICK at \in [1 .. n -> places] :
             /\ At(ms, places) \in Seq(Messages) /\ Len(At(ms, places)) = n
             /\ \A k \in 1 .. n : At(ms, places)[k] = ms[at[k]]
             /\ \A k, l \in 1 .. n : at[k] <= at[l] => k <= l
             /\ \A i \in places : \E k \in 1 .. n : at[k] = i
  BY <1>a
<1>3. PICK new \in Seq(Messages) : new = Unrecorded(ms)
  BY UnrecordedIsTyped
<1>4. Len(new) = n /\ DOMAIN new = 1 .. n /\ \A k \in 1 .. n : new[k] = ms[at[k]]
  BY <1>1, <1>2, <1>3
<1>5. \A i \in DOMAIN ms : i \in places <=> ms[i].id \notin DOMAIN store.nodes
  BY DEF places, hasID
<1>6. \A i \in 1 .. n : \E k \in DOMAIN ms : new[i] = ms[k] /\ ms[k].id \notin DOMAIN store.nodes
  BY <1>1, <1>4, <1>5
<1>7. \A k \in DOMAIN ms : ms[k].id \notin DOMAIN store.nodes => \E i \in 1 .. n : new[i] = ms[k]
  <2> SUFFICES ASSUME NEW k \in DOMAIN ms, ms[k].id \notin DOMAIN store.nodes
               PROVE  \E i \in 1 .. n : new[i] = ms[k]
    OBVIOUS
  <2>1. k \in places
    BY <1>5
  <2>2. PICK i \in 1 .. n : at[i] = k
    BY <1>2, <2>1
  <2>3. new[i] = ms[k]
    BY <1>4, <2>2
  <2> QED BY <2>3
<1>8. ASSUME \A k, l \in DOMAIN ms : ms[k].id = ms[l].id => k = l,
             NEW i \in 1 .. n, NEW j \in 1 .. n, new[i].id = new[j].id
      PROVE  i = j
  <2>1. at[i] \in DOMAIN ms /\ at[j] \in DOMAIN ms /\ new[i] = ms[at[i]] /\ new[j] = ms[at[j]]
    BY <1>1, <1>4
  <2>2. at[i] = at[j] /\ at[i] \in Int
    BY <1>8, <2>1
  <2>3. i <= j /\ j <= i
    BY <1>2, <2>2
  <2> QED BY <2>3
<1> DEFINE line(i) == NewLine(new, i)
           move(i) == NewHead(new, i)
           item(i, first) == IF first THEN Item(line(i), <<>>, store.cursor)
                             ELSE Item(move(i), <<line(i), move(i)>>, store.cursor)
           items == [k \in 1 .. 2 * Len(new) |-> item((k + 1) \div 2, k % 2 = 1)]
<1>9. CommitItems(ms) = items
  BY <1>3 DEF CommitItems, NewLine, NewHead
<1>10. DOMAIN items = 1 .. 2 * n
  BY <1>4
<1>11. ASSUME NEW i \in 1 .. n
       PROVE  /\ items[2 * i - 1] = Item(line(i), <<>>, store.cursor)
              /\ items[2 * i] = Item(move(i), <<line(i), move(i)>>, store.cursor)
  <2>1. /\ 2 * i - 1 \in 1 .. 2 * n /\ 2 * i \in 1 .. 2 * n
        /\ (2 * i - 1 + 1) \div 2 = i /\ (2 * i + 1) \div 2 = i
        /\ (2 * i - 1) % 2 = 1 /\ (2 * i) % 2 # 1
    OBVIOUS
  <2>2. items[2 * i - 1] = item(i, TRUE)
    BY <1>4, <2>1
  <2>3. items[2 * i] = item(i, FALSE)
    BY <1>4, <2>1
  <2> QED BY <2>2, <2>3
<1> HIDE DEF items
<1>12. Commits(items, ms, new)
  BY <1>2, <1>4, <1>6, <1>7, <1>8, <1>10, <1>11 DEF Commits
<1> QED BY <1>9, <1>12

(* What Compact appends when the range is on the path: the fold, a clone   *)
(* of each node behind it, and the head line that moves to the last.       *)
FoldLine(path, f, to, summary) ==
    Node(Message(-to, "system", summary), IF f > 1 THEN path[f - 1] ELSE 0)

(* The clone of a node behind the fold.                                    *)
CloneLine(path, t, i) ==
    LET o == store.nodes[path[t + i]]
    IN  Node(Message(next + i, o.role, o.holds), IF i = 1 THEN -path[t] ELSE next + (i - 1))

(* Where the head moves to, and the line that moves it.                    *)
LastClone(path, t) == IF t = Len(path) THEN -path[t] ELSE next + (Len(path) - t)
FoldMove(path, t) == Mark("head", LastClone(path, t))

(* Compact appends items for the range from..to, at the places f to t of   *)
(* the path.                                                               *)
Compacts(items, from, to, summary, path, f, t, cur) ==
    /\ f \in 1 .. Len(path) /\ t \in 1 .. Len(path) /\ f <= t /\ path[f] = from /\ path[t] = to
    /\ next + (Len(path) - t) <= MaxNodes
    /\ Len(path) - t <= Clones(items)
    /\ DOMAIN items = 1 .. (Len(path) - t) + 2
    /\ items[1] = Item(FoldLine(path, f, to, summary), <<FoldLine(path, f, to, summary)>>, store.cursor)
    /\ \A i \in 1 .. Len(path) - t :
         items[i + 1] = Item(CloneLine(path, t, i), <<CloneLine(path, t, i)>>, store.cursor)
    /\ items[(Len(path) - t) + 2] = Item(FoldMove(path, t), <<FoldMove(path, t)>>, cur)
    /\ \/ cur \in {0, store.cursor}
       \/ t = Len(path) /\ cur = -path[t]
       \/ \E i \in 1 .. Len(path) - t : path[t + i] = store.cursor /\ cur = next + i

(* The place of an id on a path is where it stands.                        *)
LEMMA IndexIsPlace ==
    ASSUME NEW S, NEW path \in Seq(S), NEW id, IndexOf(path, id) # 0
    PROVE  IndexOf(path, id) \in 1 .. Len(path) /\ path[IndexOf(path, id)] = id
<1>1. CASE Contains(path, id)
  <2>1. \E i \in DOMAIN path : path[i] = id
    BY <1>1 DEF Contains
  <2> QED BY <1>1, <2>1 DEF IndexOf
<1>2. CASE ~Contains(path, id)
  BY <1>2 DEF IndexOf
<1> QED BY <1>1, <1>2

(* Compact appends that, and the cursor follows its message into the       *)
(* clones.                                                                 *)
LEMMA CompactShape ==
    ASSUME store \in Stores, next \in 0 .. MaxNodes, NEW from, NEW to \in Ident,
           NEW summary \in Holdings
    PROVE  \A made :
             made = CompactItems(from, to, summary) /\ made # <<>> /\ next + Clones(made) <= MaxNodes =>
               \E f, t, cur : Compacts(made, from, to, summary, activePathIDs(store.nodes, store.head), f, t, cur)
<1>1. store.nodes \in NodeMaps /\ store.head \in Ident /\ store.cursor \in Ident
  BY DEF Stores
<1>2. PICK path : path = activePathIDs(store.nodes, store.head)
  OBVIOUS
<1>3. Climb(store.nodes, store.head, path) /\ path \in Seq(DOMAIN store.nodes) /\ Len(path) \in Nat
  BY <1>1, <1>2, PathClimbs DEF Climb
<1>4. PICK f \in 0 .. Len(path) : f = IndexOf(path, from)
  BY <1>3, IndexIsTyped
<1>5. PICK t \in 0 .. Len(path) : t = IndexOf(path, to)
  BY <1>3, IndexIsTyped
<1>a. PICK retained : retained = SubSeq(path, t + 1, Len(path))
  OBVIOUS
<1> DEFINE n == Len(path) - t
           clone == [i \in DOMAIN retained |-> next + i]
           parent(i) == IF i = 1 THEN -to ELSE clone[i - 1]
           copy(i) == LET o == store.nodes[retained[i]]
                      IN  Node(Message(clone[i], o.role, o.holds), parent(i))
           folded == Node(Message(-to, "system", summary), IF f > 1 THEN path[f - 1] ELSE 0)
           nodes == <<folded>> \o [i \in DOMAIN retained |-> copy(i)]
           newHead == parent(Len(retained) + 1)
           move == Mark("head", newHead)
           cursor == remapCursor(retained, clone, newHead)
           first == [i \in DOMAIN nodes |-> Item(nodes[i], <<nodes[i]>>, store.cursor)]
           items == Append(first, Item(move, <<move>>, cursor))
<1>6. CompactItems(from, to, summary) = IF f = 0 \/ t = 0 \/ f > t THEN <<>> ELSE items
  <2> HIDE DEF n
  <2> QED BY <1>2, <1>4, <1>5, <1>a DEF CompactItems
<1> HIDE DEF items
<1> SUFFICES ASSUME NEW made, made = CompactItems(from, to, summary), made # <<>>,
                    next + Clones(made) <= MaxNodes
             PROVE  \E g, u, cur : Compacts(made, from, to, summary, path, g, u, cur)
  BY <1>2
<1>7. f # 0 /\ t # 0 /\ f <= t /\ made = items
  BY <1>6
<1> USE DEF items
<1>8. f \in 1 .. Len(path) /\ t \in 1 .. Len(path) /\ path[f] = from /\ path[t] = to
  BY <1>3, <1>4, <1>5, <1>7, IndexIsPlace
<1>9. /\ n \in Nat /\ retained \in Seq(DOMAIN store.nodes) /\ Len(retained) = n
      /\ DOMAIN retained = 1 .. n /\ \A i \in 1 .. n : retained[i] = path[t + i]
  <2>1. n \in Nat /\ t \in Nat /\ t <= Len(path)
    BY <1>3, <1>8
  <2>2. retained \in Seq(DOMAIN store.nodes) /\ Len(retained) = n
    BY <1>3, <1>a, <2>1, SubSeqIsTyped
  <2>3. \A i \in 1 .. n : retained[i] = path[t + i]
    BY <1>3, <1>a, <2>1
  <2> QED BY <2>1, <2>2, <2>3
<1>10. \A i \in 1 .. n : clone[i] = next + i
  BY <1>9
<1> HIDE DEF n
<1>11. ASSUME NEW i \in 1 .. n PROVE copy(i) = CloneLine(path, t, i)
  <2> HIDE DEF clone
  <2>1. parent(i) = IF i = 1 THEN -path[t] ELSE next + (i - 1)
    <3>1. CASE i = 1
      BY <1>8, <3>1
    <3>2. CASE i # 1
      <4>1. i - 1 \in 1 .. n
        BY <1>9, <3>2
      <4> QED BY <1>10, <3>2, <4>1
    <3> QED BY <3>1, <3>2
  <2> HIDE DEF parent
  <2> QED BY <1>9, <1>10, <2>1 DEF CloneLine
<1>12. newHead = LastClone(path, t)
  <2> HIDE DEF clone
  <2>1. CASE n = 0
    BY <1>3, <1>8, <1>9, <2>1 DEF LastClone, n
  <2>2. CASE n # 0
    <3>0. n \in Nat /\ n # 0
      BY <1>9, <2>2
    <3>1. n \in 1 .. n /\ n + 1 # 1 /\ n + 1 - 1 = n
      BY <3>0
    <3>a. t # Len(path)
      BY <1>3, <3>0 DEF n
    <3>2. newHead = clone[n]
      BY <1>9, <3>1
    <3> QED BY <1>10, <3>1, <3>2, <3>a DEF LastClone, n
  <2> QED BY <2>1, <2>2
<1>13. \/ cursor \in {0, store.cursor}
       \/ t = Len(path) /\ cursor = -path[t]
       \/ \E i \in 1 .. n : path[t + i] = store.cursor /\ cursor = next + i
  <2> HIDE DEF newHead
  <2>1. CASE store.cursor = 0
    BY <2>1 DEF remapCursor
  <2>2. CASE store.cursor # 0 /\ Contains(retained, store.cursor)
    <3>1. \E i \in DOMAIN retained : retained[i] = store.cursor
      BY <2>2 DEF Contains
    <3>2. PICK i \in 1 .. n : i = CHOOSE k \in DOMAIN retained : retained[k] = store.cursor
      BY <1>9, <3>1
    <3>3. retained[i] = store.cursor
      BY <1>9, <3>1, <3>2
    <3>4. cursor = clone[i]
      BY <2>2, <3>2 DEF remapCursor
    <3> QED BY <1>9, <1>10, <3>3, <3>4
  <2>3. CASE store.cursor # 0 /\ ~Contains(retained, store.cursor) /\ store.cursor = store.head
    <3>1. cursor = newHead
      BY <2>3 DEF remapCursor
    <3>2. n = 0
      <4> SUFFICES ASSUME n # 0 PROVE FALSE
        OBVIOUS
      <4>1. n \in 1 .. n /\ retained[n] = path[t + n] /\ t + n = Len(path)
        BY <1>3, <1>9 DEF n
      <4>2. path # <<>> /\ path[Len(path)] = store.head
        BY <1>3, <1>8 DEF Climb
      <4>3. Contains(retained, store.head)
        BY <1>9, <4>1, <4>2 DEF Contains
      <4> QED BY <2>3, <4>3
    <3>3. t = Len(path)
      BY <1>3, <1>8, <3>2 DEF n
    <3> QED BY <1>12, <3>1, <3>3 DEF LastClone
  <2>4. CASE store.cursor # 0 /\ ~Contains(retained, store.cursor) /\ store.cursor # store.head
    BY <2>4 DEF remapCursor
  <2> QED BY <2>1, <2>2, <2>3, <2>4
<1> HIDE DEF cursor, newHead, copy, clone, parent
<1>14. folded = FoldLine(path, f, to, summary)
  BY DEF FoldLine
<1> HIDE DEF folded
<1> DEFINE Some == {folded} \cup {copy(i) : i \in 1 .. n}
<1>15. /\ nodes \in Seq(Some) /\ Len(nodes) = n + 1 /\ DOMAIN nodes = 1 .. n + 1 /\ nodes[1] = folded
       /\ \A i \in 1 .. n : nodes[i + 1] = copy(i)
  <2>1. [i \in DOMAIN retained |-> copy(i)] \in [1 .. n -> Some]
    BY <1>9
  <2>2. PICK copies \in [1 .. n -> Some] : copies = [i \in DOMAIN retained |-> copy(i)]
    BY <2>1
  <2>3. \A i \in 1 .. n : copies[i] = copy(i)
    BY <1>9, <2>2
  <2>4. folded \in Some
    OBVIOUS
  <2>5. nodes = <<folded>> \o copies
    BY <2>2
  <2> HIDE DEF nodes, Some
  <2>6. copies \in Seq(Some) /\ Len(copies) = n
    BY <1>9, FunctionIsSeq
  <2>7. nodes \in Seq(Some) /\ Len(nodes) = n + 1 /\ DOMAIN nodes = 1 .. n + 1 /\ nodes[1] = folded
    BY <1>9, <2>4, <2>5, <2>6
  <2>8. \A i \in 1 .. n : nodes[i + 1] = copies[i]
    BY <1>9, <2>4, <2>5, <2>6
  <2> QED BY <2>3, <2>7, <2>8
<1> HIDE DEF nodes, Some
<1> DEFINE All == {Item(nodes[i], <<nodes[i]>>, store.cursor) : i \in 1 .. n + 1} \cup {Item(move, <<move>>, cursor)}
<1>16. /\ first \in [1 .. n + 1 -> All]
       /\ \A i \in 1 .. n + 1 : first[i] = Item(nodes[i], <<nodes[i]>>, store.cursor)
  BY <1>15
<1>17. Item(move, <<move>>, cursor) \in All
  OBVIOUS
<1> HIDE DEF first, All, move
<1>18. /\ DOMAIN items = 1 .. n + 2 /\ items[n + 2] = Item(move, <<move>>, cursor)
       /\ \A i \in 1 .. n + 1 : items[i] = Item(nodes[i], <<nodes[i]>>, store.cursor)
  BY <1>9, <1>16, <1>17
<1> HIDE DEF items
<1>19. items[1] = Item(FoldLine(path, f, to, summary), <<FoldLine(path, f, to, summary)>>, store.cursor)
  <2>1. 1 \in 1 .. n + 1
    BY <1>9
  <2> QED BY <1>14, <1>15, <1>18, <2>1
<1>20. \A i \in 1 .. n : items[i + 1] = Item(CloneLine(path, t, i), <<CloneLine(path, t, i)>>, store.cursor)
  <2> TAKE i \in 1 .. n
  <2>1. i + 1 \in 1 .. n + 1
    BY <1>9
  <2>2. items[i + 1] = Item(nodes[i + 1], <<nodes[i + 1]>>, store.cursor)
    BY <1>18, <2>1
  <2>3. nodes[i + 1] = CloneLine(path, t, i)
    BY <1>11, <1>15
  <2> QED BY <2>2, <2>3
<1>21. items[n + 2] = Item(FoldMove(path, t), <<FoldMove(path, t)>>, cursor)
  BY <1>12, <1>18 DEF move, FoldMove
<1>22. n <= Clones(items) /\ Clones(items) \in Nat
  <2>1. ASSUME NEW i \in 2 .. n + 1 PROVE items[i].line.kind = "node" /\ items[i].line.id > 0
    <3>1. i - 1 \in 1 .. n /\ i - 1 + 1 = i
      BY <1>9
    <3>2. items[i] = Item(CloneLine(path, t, i - 1), <<CloneLine(path, t, i - 1)>>, store.cursor)
      BY <1>20, <3>1
    <3>3. items[i].line = CloneLine(path, t, i - 1)
      BY <3>2 DEF Item
    <3>4. CloneLine(path, t, i - 1).kind = "node" /\ CloneLine(path, t, i - 1).id = next + (i - 1)
      BY DEF CloneLine, Node, Message
    <3>5. next \in Nat
      BY <1>9, Identifiers
    <3>6. next + (i - 1) > 0
      BY <3>1, <3>5
    <3> QED BY <3>3, <3>4, <3>6
  <2>2. n + 2 \in Nat /\ n + 1 <= n + 2
    BY <1>9
  <2> QED BY <1>9, <1>18, <2>1, <2>2, ClonesAreCounted
<1>23. next + n <= MaxNodes
  <2>1. next + Clones(items) <= MaxNodes
    BY <1>7
  <2> QED BY <1>9, <1>22, <2>1, Identifiers
<1>24. Compacts(items, from, to, summary, path, f, t, cursor)
  BY <1>7, <1>8, <1>13, <1>18, <1>19, <1>20, <1>21, <1>22, <1>23 DEF Compacts, n
<1> QED BY <1>2, <1>7, <1>24

-----------------------------------------------------------------------------
(* Views, cuts and summaries *)

(* What the view shows: the nodes of the path.                             *)
LEMMA ViewShows ==
    ASSUME NEW n \in NodeMaps, NEW h
    PROVE  LET P == activePathIDs(n, h)
               V == buildActiveView(n, h)
           IN  /\ V \in Seq(Messages) /\ Len(V) = Len(P) /\ DOMAIN V = 1 .. Len(P) /\ Len(P) \in Nat
               /\ \A i \in 1 .. Len(P) : /\ P[i] \in DOMAIN n /\ V[i] = Message(n[P[i]].id, n[P[i]].role, n[P[i]].holds)
                                         /\ V[i].id = n[P[i]].id /\ V[i].role = n[P[i]].role
                                         /\ V[i].holds = n[P[i]].holds
<1> DEFINE P == activePathIDs(n, h)
<1>1. P \in Seq(DOMAIN n)
  BY PathIsTyped
<1>2. buildActiveView(n, h)
      = [i \in DOMAIN P |-> Message(n[P[i]].id, n[P[i]].role, n[P[i]].holds)]
  BY DEF buildActiveView
<1>3. buildActiveView(n, h) \in Seq(Messages)
  BY ViewIsTyped
<1> HIDE DEF P
<1>4. Len(P) \in Nat /\ DOMAIN P = 1 .. Len(P) /\ \A i \in 1 .. Len(P) : P[i] \in DOMAIN n
  BY <1>1, ElementOfSeq
<1>5. /\ DOMAIN buildActiveView(n, h) = 1 .. Len(P) /\ Len(buildActiveView(n, h)) = Len(P)
      /\ \A i \in 1 .. Len(P) :
           buildActiveView(n, h)[i] = Message(n[P[i]].id, n[P[i]].role, n[P[i]].holds)
  BY <1>2, <1>3, <1>4
<1>6. \A i \in 1 .. Len(P) :
         /\ buildActiveView(n, h)[i].id = n[P[i]].id /\ buildActiveView(n, h)[i].role = n[P[i]].role
         /\ buildActiveView(n, h)[i].holds = n[P[i]].holds
  BY <1>5 DEF Message
<1> QED BY <1>3, <1>4, <1>5, <1>6 DEF P

(* The least of a set of numbers.                                          *)
LEMMA MinIsLower ==
    ASSUME NEW S, S \subseteq Nat, S # {}
    PROVE  Min(S) \in S /\ \A m \in S : Min(S) <= m
<1>1. \E n \in S : \A m \in S : n <= m
  BY LeastNat
<1> QED BY <1>1 DEF Min

(* The messages in front that are system messages.                         *)
LEMMA LeadingShape ==
    ASSUME NEW M, NEW ms \in Seq(M)
    PROVE  /\ Leading(ms) \in 0 .. Len(ms)
           /\ \A i \in 1 .. Leading(ms) : System(ms[i])
           /\ ms # <<>> /\ System(ms[1]) => Leading(ms) >= 1
<1> DEFINE other == {i \in DOMAIN ms : ~System(ms[i])}
<1>1. Len(ms) \in Nat /\ other \subseteq 1 .. Len(ms) /\ DOMAIN ms = 1 .. Len(ms)
  OBVIOUS
<1>2. Leading(ms) = IF other = {} THEN Len(ms) ELSE Min(other) - 1
  BY DEF Leading
<1>3. \A i \in 1 .. Len(ms) : ~System(ms[i]) <=> i \in other
  BY <1>1
<1> HIDE DEF other
<1>4. other # {} => Min(other) \in other /\ \A m \in other : Min(other) <= m
  <2>1. other \subseteq Nat
    BY <1>1
  <2> QED BY <2>1, MinIsLower
<1>5. CASE other = {}
  <2>1. \A i \in 1 .. Len(ms) : System(ms[i])
    BY <1>3, <1>5
  <2>2. ms # <<>> => Len(ms) >= 1
    BY <1>1
  <2> QED BY <1>1, <1>2, <1>5, <2>1, <2>2
<1>6. CASE other # {}
  <2>1. PICK m \in 1 .. Len(ms) : m = Min(other) /\ m \in other /\ \A j \in other : m <= j
    BY <1>1, <1>4, <1>6
  <2>2. Leading(ms) = m - 1
    BY <1>2, <1>6, <2>1
  <2>3. \A i \in 1 .. m - 1 : System(ms[i])
    <3> TAKE i \in 1 .. m - 1
    <3>1. i \in 1 .. Len(ms) /\ ~(m <= i)
      BY <1>1, <2>1
    <3> QED BY <1>3, <2>1, <3>1
  <2>4. ms # <<>> /\ System(ms[1]) => m # 1
    BY <1>3, <2>1
  <2> QED BY <1>1, <2>1, <2>2, <2>3, <2>4
<1> QED BY <1>5, <1>6

(* Where messages are cut: at least two in front, one at least behind.     *)
LEMMA SplitShape ==
    ASSUME NEW M, NEW ms \in Seq(M)
    PROVE  splitPoint(ms) = 0 \/ (splitPoint(ms) \in 2 .. Len(ms) - 1)
<1> DEFINE safe == {n \in 2 .. Len(ms) - KeepLast : ms[n].role /= "call" /\ ms[n + 1].role /= "tool"}
<1>1. Len(ms) \in Nat /\ KeepLast \in Nat
  BY Identifiers
<1>2. splitPoint(ms) = IF KeepLast = 0 \/ safe = {} THEN 0 ELSE Max(safe)
  BY DEF splitPoint
<1>3. safe \subseteq 2 .. Len(ms) - KeepLast
  OBVIOUS
<1> HIDE DEF safe
<1>4. CASE KeepLast = 0 \/ safe = {}
  BY <1>2, <1>4
<1>5. CASE ~(KeepLast = 0 \/ safe = {})
  <2>1. safe \subseteq Int /\ Len(ms) - KeepLast \in Int /\ \A m \in safe : m <= Len(ms) - KeepLast
    BY <1>1, <1>3
  <2>2. Max(safe) \in safe
    BY <1>5, <2>1, MaxIsGreatest
  <2>3. PICK m \in 2 .. Len(ms) - KeepLast : m = Max(safe)
    BY <1>3, <2>2
  <2> QED BY <1>1, <1>2, <1>5, <2>3
<1> QED BY <1>4, <1>5

(* What stands in the end of a sequence.                                   *)
LEMMA SubSeqShape ==
    ASSUME NEW S, NEW q \in Seq(S), NEW m \in Nat, m <= Len(q)
    PROVE  \A i \in 1 .. Len(q) - m : SubSeq(q, m + 1, Len(q))[i] = q[m + i]
OBVIOUS

(* What stands in two sequences put together.                              *)
LEMMA ConcatShape ==
    ASSUME NEW S, NEW q \in Seq(S), NEW r \in Seq(S)
    PROVE  /\ q \o r \in Seq(S) /\ Len(q \o r) = Len(q) + Len(r) /\ Len(q) \in Nat /\ Len(r) \in Nat
           /\ \A i \in 1 .. Len(q) : (q \o r)[i] = q[i]
           /\ \A i \in 1 .. Len(r) : (q \o r)[Len(q) + i] = r[i]
<1>1. Len(q) \in Nat /\ Len(r) \in Nat
  OBVIOUS
<1>2. q \o r \in Seq(S) /\ Len(q \o r) = Len(q) + Len(r)
  BY ConcatProperties
<1>3. \A i \in 1 .. Len(q) + Len(r) : (q \o r)[i] = IF i <= Len(q) THEN q[i] ELSE r[i - Len(q)]
  BY ConcatProperties
<1>4. \A i \in 1 .. Len(q) : i \in 1 .. Len(q) + Len(r) /\ i <= Len(q)
  BY <1>1
<1>5. \A i \in 1 .. Len(r) : Len(q) + i \in 1 .. Len(q) + Len(r) /\ ~(Len(q) + i <= Len(q)) /\ Len(q) + i - Len(q) = i
  BY <1>1
<1> QED BY <1>1, <1>2, <1>3, <1>4, <1>5

(* What stands in the second of two sequences put together.                *)
LEMMA ConcatBehind ==
    ASSUME NEW S, NEW q \in Seq(S), NEW r \in Seq(S), NEW i \in 1 .. Len(r)
    PROVE  (q \o r)[Len(q) + i] = r[i]
BY ConcatShape

(* Compressing leaves the messages alone, or replaces n of them, behind k, *)
(* by a summary that holds what they hold.                                 *)
Summarises(r, ms, protect, k, n) ==
    /\ k \in Nat /\ n \in Nat /\ 2 <= n /\ k + n < Len(ms)
    /\ k = IF protect THEN Leading(ms) ELSE 0
    /\ Len(r) = Len(ms) - n + 1 /\ DOMAIN r = 1 .. Len(ms) - n + 1
    /\ \A i \in 1 .. k : r[i] = ms[i]
    /\ \E c : /\ r[k + 1] = Message(next + 1, "system", c)
              /\ c = UNION {ms[i].holds : i \in k + 1 .. k + n}
    /\ \A i \in k + 2 .. Len(ms) - n + 1 : r[i] = ms[i + (n - 1)]

(* Compress does one or the other.                                         *)
LEMMA CompressShape ==
    ASSUME NEW M, NEW ms \in Seq(M), NEW protect \in BOOLEAN
    PROVE  \/ Compress(ms, protect) = ms
           \/ \E k, n : Summarises(Compress(ms, protect), ms, protect, k, n)
<1>1. PICK k \in 0 .. Len(ms) : k = IF protect THEN Leading(ms) ELSE 0
  BY LeadingIsTyped
<1>2. PICK body \in Seq(M) : body = SubSeq(ms, k + 1, Len(ms)) /\ Len(body) = Len(ms) - k
  <2>1. k \in Nat /\ k <= Len(ms)
    OBVIOUS
  <2> QED BY <2>1, SubSeqIsTyped
<1>3. PICK n : n = splitPoint(body) /\ (n = 0 \/ n \in 2 .. Len(body) - 1)
  BY SplitShape
<1>4. PICK c : c = Content(SubSeq(body, 1, n))
  OBVIOUS
<1>5. Compress(ms, protect) = IF n = 0 THEN ms
         ELSE SubSeq(ms, 1, k) \o <<Message(next + 1, "system", c)>> \o SubSeq(body, n + 1, Len(body))
  BY <1>1, <1>2, <1>3, <1>4 DEF Compress
<1>6. CASE n = 0
  BY <1>5, <1>6
<1>7. CASE n # 0
  <2>0. Len(ms) \in Nat /\ k \in Nat /\ k <= Len(ms) /\ n \in Nat /\ 2 <= n /\ k + n < Len(ms) /\ n <= Len(body)
    <3>1. Len(ms) \in Nat /\ k \in Nat /\ k <= Len(ms)
      BY <1>1
    <3>2. n \in 2 .. Len(body) - 1 /\ Len(body) = Len(ms) - k
      BY <1>2, <1>3, <1>7
    <3> QED BY <3>1, <3>2
  <2>1. \A i \in 1 .. Len(body) : body[i] = ms[k + i]
    BY <1>2, <2>0, SubSeqShape
  <2> DEFINE s == Message(next + 1, "system", c)
             A == M \cup {s}
  <2>2. /\ SubSeq(ms, 1, k) \in Seq(A) /\ Len(SubSeq(ms, 1, k)) = k
        /\ \A i \in 1 .. k : SubSeq(ms, 1, k)[i] = ms[i]
    <3>1. ms \in Seq(A)
      OBVIOUS
    <3> HIDE DEF A
    <3> QED BY <2>0, <3>1, SubSeqIsTyped
  <2>3. PICK front \in Seq(A) : /\ front = SubSeq(ms, 1, k) /\ Len(front) = k
                                /\ \A i \in 1 .. k : front[i] = ms[i]
    BY <2>2
  <2>4. PICK rest \in Seq(A) : /\ rest = SubSeq(body, n + 1, Len(body)) /\ Len(rest) = Len(ms) - k - n
                               /\ \A i \in 1 .. Len(ms) - k - n : rest[i] = ms[k + n + i]
    <3>1. body \in Seq(A)
      OBVIOUS
    <3> HIDE DEF A
    <3>2. SubSeq(body, n + 1, Len(body)) \in Seq(A) /\ Len(SubSeq(body, n + 1, Len(body))) = Len(ms) - k - n
      BY <1>2, <2>0, <3>1, SubSeqIsTyped
    <3>3. ASSUME NEW i \in 1 .. Len(ms) - k - n PROVE SubSeq(body, n + 1, Len(body))[i] = ms[k + n + i]
      <4>1. /\ n + i \in 1 .. Len(body) /\ k + (n + i) = k + n + i /\ n \in Nat /\ i \in 1 .. Len(body) - n
        BY <1>2, <2>0
      <4>2. SubSeq(body, n + 1, Len(body))[i] = body[n + i]
        BY <1>2, <2>0, <4>1, SubSeqShape
      <4> QED BY <2>1, <4>1, <4>2
    <3> QED BY <3>2, <3>3
  <2>5. <<s>> \in Seq(A) /\ Len(<<s>>) = 1 /\ <<s>>[1] = s
    BY DEF A
  <2> HIDE DEF s, A
  <2>6. PICK mid : mid = front \o <<s>>
    OBVIOUS
  <2>a. mid \in Seq(A) /\ Len(mid) = k + 1 /\ mid[k + 1] = s /\ \A i \in 1 .. k : mid[i] = ms[i]
    <3>1. 1 \in 1 .. Len(<<s>>)
      BY <2>5
    <3> QED BY <2>3, <2>5, <2>6, <3>1, ConcatShape
  <2>7. PICK r : r = mid \o rest
    OBVIOUS
  <2>8. Compress(ms, protect) = r
    BY <1>5, <1>7, <2>3, <2>4, <2>6, <2>7 DEF s
  <2>9. r \in Seq(A) /\ Len(r) = k + 1 + (Len(ms) - k - n) /\ Len(r) = Len(ms) - n + 1
    <3>1. k + 1 + (Len(ms) - k - n) = Len(ms) - n + 1
      BY <2>0
    <3> QED BY <2>4, <2>7, <2>a, <3>1, ConcatShape
  <2>10. \A i \in 1 .. k + 1 : r[i] = mid[i]
    BY <2>4, <2>7, <2>a, ConcatShape
  <2>11. \A i \in k + 2 .. Len(ms) - n + 1 : r[i] = ms[i + (n - 1)]
    <3> TAKE i \in k + 2 .. Len(ms) - n + 1
    <3>1. i - (k + 1) \in 1 .. Len(ms) - k - n /\ k + n + (i - (k + 1)) = i + (n - 1)
      BY <2>0
    <3>a. PICK j \in 1 .. Len(rest) : j = i - (k + 1)
      BY <2>4, <3>1
    <3>d. mid \in Seq(A) /\ rest \in Seq(A)
      BY <2>a
    <3>b. r[Len(mid) + j] = rest[j]
      BY <2>7, <3>d, ConcatBehind
    <3>2. r[k + 1 + (i - (k + 1))] = rest[i - (k + 1)]
      BY <2>a, <3>a, <3>b
    <3>3. k + 1 + (i - (k + 1)) = i
      BY <2>0
    <3> QED BY <2>4, <3>1, <3>2, <3>3
  <2>12. c = UNION {ms[i].holds : i \in k + 1 .. k + n}
    <3> DEFINE q == SubSeq(body, 1, n)
    <3>1. DOMAIN q = 1 .. n /\ \A i \in 1 .. n : q[i] = ms[k + i]
      BY <1>2, <2>0, <2>1
    <3> HIDE DEF q
    <3>2. c = UNION {q[i].holds : i \in 1 .. n}
      BY <1>4, <3>1 DEF Content, q
    <3>3. \A x : (\E i \in 1 .. n : x \in q[i].holds) <=> (\E i \in k + 1 .. k + n : x \in ms[i].holds)
      <4> TAKE x
      <4>1. ASSUME NEW i \in 1 .. n, x \in q[i].holds PROVE \E j \in k + 1 .. k + n : x \in ms[j].holds
        <5>1. k + i \in k + 1 .. k + n
          BY <2>0
        <5> QED BY <3>1, <4>1, <5>1
      <4>2. ASSUME NEW j \in k + 1 .. k + n, x \in ms[j].holds PROVE \E i \in 1 .. n : x \in q[i].holds
        <5>1. j - k \in 1 .. n /\ k + (j - k) = j
          BY <2>0
        <5>2. q[j - k] = ms[j]
          BY <3>1, <5>1
        <5> QED BY <4>2, <5>1, <5>2
      <4> QED BY <4>1, <4>2
    <3> QED BY <3>2, <3>3
  <2>13. r[k + 1] = Message(next + 1, "system", c) /\ \A i \in 1 .. k : r[i] = ms[i]
    <3>1. k + 1 \in 1 .. k + 1 /\ \A i \in 1 .. k : i \in 1 .. k + 1
      BY <2>0
    <3> QED BY <2>a, <2>10, <3>1 DEF s
  <2>14. DOMAIN r = 1 .. Len(ms) - n + 1
    BY <2>9
  <2>15. Summarises(r, ms, protect, k, n)
    BY <1>1, <2>0, <2>9, <2>11, <2>12, <2>13, <2>14 DEF Summarises
  <2> QED BY <2>8, <2>15
<1> QED BY <1>6, <1>7

(* A recognised compaction: the k messages in front are gone, the one      *)
(* behind them is still there.                                             *)
LEMMA DetectShape ==
    ASSUME NEW S, NEW T, NEW old \in Seq(S), NEW new \in Seq(T)
    PROVE  LET k == DetectCompact(old, new)
           IN  /\ k \in 0 .. Len(old)
               /\ k # 0 => /\ new # <<>> /\ System(new[1]) /\ Len(new) < Len(old)
                           /\ \A i \in 1 .. k : old[i].id \notin Ids(new)
                           /\ k < Len(old) => old[k + 1].id \in Ids(new)
               /\ k = 0 => \/ Len(new) >= Len(old) \/ new = <<>> \/ ~System(new[1])
                           \/ old[1].id \in Ids(new)
<1> DEFINE kept == {i \in DOMAIN old : old[i].id \in Ids(new)}
<1>1. Len(old) \in Nat /\ Len(new) \in Nat /\ kept \subseteq 1 .. Len(old) /\ DOMAIN old = 1 .. Len(old)
  OBVIOUS
<1>2. DetectCompact(old, new) = IF Len(new) >= Len(old) \/ new = <<>> THEN 0
                                ELSE IF ~System(new[1]) THEN 0
                                ELSE IF kept = {} THEN Len(old)
                                ELSE Min(kept) - 1
  BY DEF DetectCompact
<1>3. \A i \in 1 .. Len(old) : i \in kept <=> old[i].id \in Ids(new)
  BY <1>1
<1> HIDE DEF kept
<1>4. PICK k : k = DetectCompact(old, new)
  OBVIOUS
<1>5. CASE Len(new) >= Len(old) \/ new = <<>> \/ ~System(new[1])
  BY <1>1, <1>2, <1>5
<1>6. CASE ~(Len(new) >= Len(old) \/ new = <<>> \/ ~System(new[1])) /\ kept = {}
  <2>1. k = Len(old) /\ Len(old) # 0 /\ Len(new) < Len(old)
    BY <1>1, <1>2, <1>4, <1>6
  <2> QED BY <1>1, <1>3, <1>4, <1>6, <2>1
<1>7. CASE ~(Len(new) >= Len(old) \/ new = <<>> \/ ~System(new[1])) /\ kept # {}
  <2>1. kept \subseteq Nat
    BY <1>1
  <2>2. Min(kept) \in kept /\ \A i \in kept : Min(kept) <= i
    BY <1>7, <2>1, MinIsLower
  <2>3. PICK m \in 1 .. Len(old) : m = Min(kept) /\ m \in kept /\ \A i \in kept : m <= i
    BY <1>1, <2>2
  <2>4. k = m - 1 /\ Len(new) < Len(old)
    BY <1>1, <1>2, <1>4, <1>7, <2>3
  <2>5. \A i \in 1 .. m - 1 : old[i].id \notin Ids(new)
    <3> TAKE i \in 1 .. m - 1
    <3>1. i \in 1 .. Len(old) /\ ~(m <= i)
      BY <1>1, <2>3
    <3> QED BY <1>3, <2>3, <3>1
  <2>6. old[m].id \in Ids(new) /\ m - 1 + 1 = m /\ (m - 1 = 0 => m = 1)
    BY <1>3, <2>3
  <2> QED BY <1>1, <1>4, <1>7, <2>3, <2>4, <2>5, <2>6
<1> QED BY <1>5, <1>6, <1>7
===========================================================================
