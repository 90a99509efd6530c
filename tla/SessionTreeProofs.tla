-------------------------- MODULE SessionTreeProofs --------------------------
(***************************************************************************)
(* Proofs about the tree of messages of SessionStore.  The file, the       *)
(* memory and the appends under way all know lines of one forest: a        *)
(* message has one line, its parent ranks before it, and a fold is a root  *)
(* that ranks behind the last message it covers.  From that follows what   *)
(* paths, views and the consolidation cursor have in common, however the   *)
(* appends of commits, folds, rewinds and consolidations end; and that     *)
(* what a run reported persisted stays where the model is shown it.        *)
(***************************************************************************)
EXTENDS SessionStoreProofs

-----------------------------------------------------------------------------
(* Lines, ranks and what the memory was given *)

(* The lines that a store adds up to. *)
LinesOf(s) ==
    {s.nodes[i] : i \in DOMAIN s.nodes} \cup {Mark("ck", i) : i \in s.cks}
    \cup {Mark("head", s.head), Mark("cursor", s.cursor)}

(* The lines that appends write, enter into memory or leave there. *)
Entering(item) == {item.mem[i] : i \in DOMAIN item.mem}

(* The lines that appends write, enter into memory or leave there.         *)
Asked(items) ==
    UNION {{items[j].line, Mark("cursor", items[j].cursor)} \cup Entering(items[j]) : j \in DOMAIN items}

(* All the lines that the file, the memory or an append knows. *)
Said == LinesOf(Nothing) \cup LinesOf(file) \cup LinesOf(before) \cup LinesOf(store) \cup Asked(todo)

(* The lines of nodes; the ids they declare; the ids at which nodes stand  *)
(* or may come to hang.                                                    *)
Declaring(L) == {l \in L : l.kind = "node"}

(* The ids they declare, and the ids at which nodes stand or may come to   *)
(* hang.                                                                   *)
Declared(L) == {l.id : l \in Declaring(L)}
Named(L) == Declared(L) \cup {l.parent : l \in Declaring(L)}
            \cup {l.id : l \in {m \in L : m.kind \in {"head", "ck"}}}

(* The lines L make one forest, in which a message has one line; the ids   *)
(* of C are still to be given out; F holds the cursor marks, and with a    *)
(* node its parent, as far as declared: nodes the memory was given.        *)
Unique(L) == \A l, m \in Declaring(L) : l.id = m.id /\ l.id > 0 => l = m

(* The ids of C are in no line of L, nor are the folds up to them.         *)
Unnamed(C, L, F) ==
    C \subseteq 1 .. MaxNodes /\ \A i \in C : i \notin Named(L) /\ -i \notin Named(L) /\ i \notin F

(* What is in F the memory was given, and what is above it too; the cursor *)
(* marks are in F.                                                         *)
Consumed(F, L, given) ==
    /\ \A l \in Declaring(L) :
         l.id > 0 /\ l.id \in F =>
           l.holds \subseteq given /\ (l.parent <= 0 \/ l.parent \in F \/ l.parent \notin Declared(L))
    /\ \A l \in L : l.kind = "cursor" /\ l.id > 0 => l.id \in F

(* All of it.                                                              *)
Sound(rank, F, L, C, given) ==
    /\ Ranked(rank) /\ \A l \in Declaring(L) : Linked(rank, l)
    /\ Unique(L) /\ Unnamed(C, L, F) /\ Consumed(F, L, given)

(* Fewer lines and fewer ids to come leave it sound.                       *)
LEMMA FewerAreSound ==
    ASSUME NEW rank, NEW F, NEW L, NEW C, NEW given, Sound(rank, F, L, C, given),
           NEW K \in SUBSET L, NEW D \in SUBSET C, NEW more, given \subseteq more
    PROVE  Sound(rank, F, K, D, more)
<1>1. Declaring(K) \subseteq Declaring(L) /\ Declared(K) \subseteq Declared(L) /\ Named(K) \subseteq Named(L)
  BY DEF Declaring, Declared, Named
<1>2. Ranked(rank) /\ \A l \in Declaring(K) : Linked(rank, l)
  BY <1>1 DEF Sound
<1>3. Unique(K)
  BY <1>1 DEF Sound, Unique
<1>4. Unnamed(D, K, F)
  BY <1>1 DEF Sound, Unnamed
<1>5. Consumed(F, K, more)
  <2>1. Consumed(F, L, given)
    BY DEF Sound
  <2> QED BY <1>1, <2>1 DEF Consumed
<1> QED BY <1>2, <1>3, <1>4, <1>5 DEF Sound

(* Ranks are bounded.                                                      *)
LEMMA RanksAreBounded ==
    ASSUME NEW rank \in [Ident -> Int]
    PROVE  \E M \in Int : \A a \in Ident : rank[a] <= M
<1> DEFINE Bounds(n, M) == \A a \in Ident : -n <= a /\ a <= n => rank[a] <= M
           Q == {n \in Nat : \E M \in Int : Bounds(n, M)}
<1>1. Ident \subseteq Int /\ 0 \in Ident /\ MaxNodes \in Nat
  BY Identifiers
<1>2. 0 \in Q
  <2>1. Bounds(0, rank[0]) /\ rank[0] \in Int
    BY <1>1
  <2> QED BY <2>1
<1>3. ASSUME NEW n \in Nat, n \in Q PROVE n + 1 \in Q
  <2>1. PICK M \in Int : Bounds(n, M)
    BY <1>3
  <2>2. \E N \in Int : M <= N /\ (n + 1 \in Ident => rank[n + 1] <= N) /\ (-(n + 1) \in Ident => rank[-(n + 1)] <= N)
    <3>1. PICK x \in Int : n + 1 \in Ident => rank[n + 1] = x
      <4>1. CASE n + 1 \in Ident
        BY <4>1
      <4>2. CASE n + 1 \notin Ident
        BY <4>2
      <4> QED BY <4>1, <4>2
    <3>2. PICK y \in Int : -(n + 1) \in Ident => rank[-(n + 1)] = y
      <4>1. CASE -(n + 1) \in Ident
        BY <4>1
      <4>2. CASE -(n + 1) \notin Ident
        BY <4>2
      <4> QED BY <4>1, <4>2
    <3>3. \E N \in Int : M <= N /\ x <= N /\ y <= N
      <4>1. M <= M /\ x <= x /\ y <= y /\ (M <= x \/ x <= M) /\ (M <= y \/ y <= M) /\ (x <= y \/ y <= x)
        OBVIOUS
      <4> QED BY <4>1
    <3> QED BY <3>1, <3>2, <3>3
  <2>3. PICK N \in Int : M <= N /\ (n + 1 \in Ident => rank[n + 1] <= N) /\ (-(n + 1) \in Ident => rank[-(n + 1)] <= N)
    BY <2>2
  <2>4. Bounds(n + 1, N)
    <3> SUFFICES ASSUME NEW a \in Ident, -(n + 1) <= a, a <= n + 1 PROVE rank[a] <= N
      OBVIOUS
    <3>1. a = n + 1 \/ a = -(n + 1) \/ (-n <= a /\ a <= n)
      BY <1>1
    <3>2. -n <= a /\ a <= n => rank[a] <= M
      BY <2>1
    <3>3. rank[a] \in Int
      OBVIOUS
    <3> QED BY <2>3, <3>1, <3>2, <3>3
  <2> QED BY <2>4
<1>4. MaxNodes \in Q
  <2> HIDE DEF Q
  <2> QED BY <1>1, <1>2, <1>3, SetInduction
<1> QED BY <1>1, <1>4 DEF Ident

(* A chain of n new nodes c under b.                                       *)
Chained(c, n, b) ==
    /\ \A i \in 1 .. n : c[i].kind = "node" /\ c[i].parent = IF i = 1 THEN b ELSE c[i - 1].id
    /\ \A i, j \in 1 .. n : c[i].id = c[j].id => i = j

(* Folds and marks, at none of the ids that are still to come.             *)
Besides(X, D, A) ==
    \A l \in X :
      /\ \/ l.kind = "node" /\ l.id < 0 /\ l.parent = 0 /\ l.role = "system"
         \/ l.kind \in {"head", "ck"}
         \/ l.kind = "cursor" /\ (l.id > 0 => l.id \in A)
      /\ l.kind # "cursor" => l.id \notin D /\ -l.id \notin D

(* The part G of the chain carries what the memory was given.              *)
Carried(G, c, n, b, given) ==
    /\ \A x \in G : \E i \in 1 .. n : c[i].id = x
    /\ \A i \in 1 .. n : c[i].id \in G =>
         c[i].holds \subseteq given /\ (IF i = 1 THEN b <= 0 ELSE c[i - 1].id \in G)

(* The ranks r are those of rank, but above all of them for the chain.     *)
Raises(r, rank, c, n) ==
    /\ \A a \in Ident : rank[a] <= r[a]
    /\ \A a \in Ident : (\A i \in 1 .. n : c[i].id # a /\ c[i].id # -a) => r[a] = rank[a]
    /\ \A i \in 1 .. n, a \in Ident : rank[a] < r[c[i].id]

(* A chain of new nodes can be ranked, above all others.                   *)
LEMMA RanksExtend ==
    ASSUME NEW rank, Ranked(rank), NEW n \in Nat, NEW c \in [1 .. n -> Nodes], NEW b \in Ident,
           \A i \in 1 .. n : c[i].id \in 1 .. MaxNodes /\ c[i].id # b /\ c[i].id # -b, Chained(c, n, b)
    PROVE  \E r : Ranked(r) /\ Raises(r, rank, c, n) /\ \A i \in 1 .. n : Linked(r, c[i])
<1>1. rank \in [Ident -> Int] /\ Ident \subseteq Int /\ \A a \in Ident : -a \in Ident /\ \A i \in 1 .. MaxNodes : i \in Ident
  BY Identifiers DEF Ranked
<1>2. PICK M \in Int : \A a \in Ident : rank[a] <= M
  BY <1>1, RanksAreBounded
<1> DEFINE at(a) == CHOOSE i \in 1 .. n : c[i].id = a
           new(a) == \E i \in 1 .. n : c[i].id = a
           r == [a \in Ident |-> IF new(a) THEN M + 2 * at(a)
                                 ELSE IF new(-a) THEN M + 2 * at(-a) + 1 ELSE rank[a]]
<1>3. \A i \in 1 .. n : new(c[i].id) /\ at(c[i].id) = i
  <2> TAKE i \in 1 .. n
  <2>1. new(c[i].id)
    OBVIOUS
  <2>2. at(c[i].id) \in 1 .. n /\ c[at(c[i].id)].id = c[i].id
    BY <2>1
  <2> HIDE DEF at
  <2>3. at(c[i].id) = i
    BY <2>2 DEF Chained
  <2> QED BY <2>1, <2>3
<1>4. \A a \in Ident : new(a) => at(a) \in 1 .. n /\ a = c[at(a)].id /\ a > 0
  <2> SUFFICES ASSUME NEW a \in Ident, new(a) PROVE at(a) \in 1 .. n /\ a = c[at(a)].id /\ a > 0
    OBVIOUS
  <2>1. PICK i \in 1 .. n : c[i].id = a
    OBVIOUS
  <2> HIDE DEF at, new
  <2> QED BY <1>3, <2>1
<1> HIDE DEF at, new
<1>a. \A a \in Ident : (new(a) => at(a) \in Int) /\ (new(-a) => at(-a) \in Int) /\ rank[a] \in Int
  BY <1>1, <1>4
<1>5. r \in [Ident -> Int]
  <2> SUFFICES ASSUME NEW a \in Ident
               PROVE (IF new(a) THEN M + 2 * at(a) ELSE IF new(-a) THEN M + 2 * at(-a) + 1 ELSE rank[a]) \in Int
    OBVIOUS
  <2>1. CASE new(a)
    BY <1>a, <2>1
  <2>2. CASE ~new(a) /\ new(-a)
    BY <1>a, <2>2
  <2>3. CASE ~new(a) /\ ~new(-a)
    BY <1>a, <2>3
  <2> QED BY <2>1, <2>2, <2>3
<1>6. \A a \in Ident : r[a] = IF new(a) THEN M + 2 * at(a) ELSE IF new(-a) THEN M + 2 * at(-a) + 1 ELSE rank[a]
  OBVIOUS
<1> HIDE DEF r
<1>7. \A i \in 1 .. n : r[c[i].id] = M + 2 * i
  BY <1>1, <1>3, <1>6
<1>8. \A a \in Ident : new(a) \/ new(-a) => r[a] > M
  <2> SUFFICES ASSUME NEW a \in Ident, new(a) \/ new(-a) PROVE r[a] > M
    OBVIOUS
  <2>1. CASE new(a)
    <3>1. at(a) \in 1 .. n
      BY <1>4, <2>1
    <3> QED BY <1>6, <2>1, <3>1
  <2>2. CASE ~new(a)
    <3>1. at(-a) \in 1 .. n
      BY <1>1, <1>4, <2>2
    <3> QED BY <1>6, <2>2, <3>1
  <2> QED BY <2>1, <2>2
<1>9. \A t \in 1 .. MaxNodes : r[t] < r[-t]
  <2> TAKE t \in 1 .. MaxNodes
  <2>0. t \in Ident /\ -t \in Ident /\ -(-t) = t
    BY <1>1
  <2>1. ~new(-t)
    BY <1>4, <2>0
  <2>2. CASE new(t)
    <3>1. at(t) \in Int
      BY <1>a, <2>0, <2>2
    <3>2. r[t] = M + 2 * at(t) /\ r[-t] = M + 2 * at(t) + 1
      BY <1>6, <2>0, <2>1, <2>2
    <3> QED BY <3>1, <3>2
  <2>3. CASE ~new(t)
    BY <1>6, <2>0, <2>1, <2>3 DEF Ranked
  <2> QED BY <2>2, <2>3
<1>10. Raises(r, rank, c, n)
  <2>1. ASSUME NEW a \in Ident PROVE rank[a] <= r[a]
    <3>1. CASE new(a) \/ new(-a)
      BY <1>1, <1>2, <1>5, <1>8, <3>1
    <3>2. CASE ~(new(a) \/ new(-a))
      BY <1>1, <1>6, <3>2
    <3> QED BY <3>1, <3>2
  <2>2. ASSUME NEW a \in Ident, \A i \in 1 .. n : c[i].id # a /\ c[i].id # -a PROVE r[a] = rank[a]
    <3>1. ~new(a) /\ ~new(-a)
      BY <2>2 DEF new
    <3> QED BY <1>6, <3>1
  <2>3. ASSUME NEW i \in 1 .. n, NEW a \in Ident PROVE rank[a] < r[c[i].id]
    <3>1. rank[a] \in Int /\ rank[a] <= M /\ M \in Int /\ i \in Int /\ i > 0
      BY <1>1, <1>2
    <3>2. r[c[i].id] = M + 2 * i
      BY <1>7
    <3> QED BY <3>1, <3>2
  <2> QED BY <2>1, <2>2, <2>3 DEF Raises
<1>11. ASSUME NEW i \in 1 .. n PROVE Linked(r, c[i])
  <2>1. c[i].id > 0 /\ r[c[i].id] = M + 2 * i
    BY <1>7
  <2>2. r[c[i].parent] < r[c[i].id]
    <3>1. CASE i = 1
      <4>1. c[i].parent = b /\ ~new(b) /\ ~new(-b)
        BY <3>1 DEF Chained, new
      <4>2. r[b] = rank[b] /\ rank[b] <= M /\ rank[b] \in Int
        BY <1>1, <1>2, <1>6, <4>1
      <4> QED BY <2>1, <3>1, <4>1, <4>2
    <3>2. CASE i # 1
      <4>1. i - 1 \in 1 .. n /\ c[i].parent = c[i - 1].id
        BY <3>2 DEF Chained
      <4>2. r[c[i].parent] = M + 2 * (i - 1)
        BY <1>7, <4>1
      <4> QED BY <2>1, <4>1, <4>2
    <3> QED BY <3>1, <3>2
  <2> QED BY <2>1, <2>2 DEF Linked
<1>12. Ranked(r)
  BY <1>5, <1>9 DEF Ranked
<1> QED BY <1>10, <1>11, <1>12

(* What a growing set of lines declares and names.                         *)
LEMMA NamesGrow ==
    ASSUME NEW L, NEW K
    PROVE  /\ Declaring(L \cup K) = Declaring(L) \cup Declaring(K)
           /\ Declared(L \cup K) = Declared(L) \cup Declared(K)
           /\ Named(L \cup K) = Named(L) \cup Named(K)
<1>1. Declaring(L \cup K) = Declaring(L) \cup Declaring(K)
  BY DEF Declaring
<1>2. Declared(L \cup K) = Declared(L) \cup Declared(K)
  BY <1>1 DEF Declared
<1> QED BY <1>1, <1>2 DEF Named

(* A chain of new nodes, and folds and marks besides, leave the lines      *)
(* sound: the ranks are extended above all others, and F with the part of  *)
(* the chain that carries what the memory was given.                       *)
LEMMA Grafted ==
    ASSUME NEW rank, NEW F, NEW L \in SUBSET Lines, NEW C, NEW given, Sound(rank, F, L, C, given),
           NEW n \in Nat, NEW c \in [1 .. n -> Nodes], NEW b \in Ident, b \notin C, -b \notin C,
           \A i \in 1 .. n : c[i].id \in C, Chained(c, n, b),
           NEW D \in SUBSET C, \A i \in 1 .. n : c[i].id \notin D,
           NEW G, Carried(G, c, n, b, given), NEW X \in SUBSET Lines, Besides(X, D, F \cup G)
    PROVE  \E r : /\ Sound(r, F \cup G, L \cup ({c[i] : i \in 1 .. n} \cup X), D, given)
                  /\ Raises(r, rank, c, n)
<1> DEFINE Y == {c[i] : i \in 1 .. n}
           K == Y \cup X
<1>1. /\ Ranked(rank) /\ \A l \in Declaring(L) : Linked(rank, l)
      /\ Unique(L) /\ Unnamed(C, L, F) /\ Consumed(F, L, given)
  BY DEF Sound
<1>2. /\ C \subseteq 1 .. MaxNodes /\ D \subseteq 1 .. MaxNodes /\ D \subseteq C
      /\ \A i \in C : i \notin Named(L) /\ -i \notin Named(L) /\ i \notin F
      /\ Ident \subseteq Int /\ \A i \in Ident : -i \in Ident
  BY <1>1, Identifiers DEF Unnamed
<1>3. \A i \in 1 .. n : c[i].id \in 1 .. MaxNodes /\ c[i].id # b /\ c[i].id # -b
  BY <1>2
<1>4. PICK r : Ranked(r) /\ Raises(r, rank, c, n) /\ \A i \in 1 .. n : Linked(r, c[i])
  BY <1>1, <1>3, RanksExtend
<1>5. \A l \in Declaring(L) : /\ l.id \in Named(L) /\ l.parent \in Named(L) /\ l.id \in Declared(L)
                              /\ l.id \in Ident /\ l.parent \in Ident /\ l \in Nodes /\ l \in L
  BY DEF Named, Declared, Declaring, Lines, Marks, Nodes
<1>6. \A a \in Ident : a \in Named(L) /\ -a \notin C => \A i \in 1 .. n : c[i].id # a /\ c[i].id # -a
  BY <1>2
<1>7. \A a \in Ident : a \in Named(L) => a \notin C /\ -a \notin C
  <2> TAKE a \in Ident
  <2>1. -a \in C => -(-a) = a
    BY <1>2
  <2> QED BY <1>2, <2>1
<1>8. \A l \in Declaring(L) : Linked(r, l)
  <2> TAKE l \in Declaring(L)
  <2>1. r[l.id] = rank[l.id] /\ r[l.parent] = rank[l.parent]
    BY <1>4, <1>5, <1>6, <1>7 DEF Raises
  <2> QED BY <1>1, <2>1 DEF Linked
<1>9. \A l \in Declaring(K) : (\E i \in 1 .. n : l = c[i]) \/ (l \in X /\ l.id < 0 /\ l.parent = 0 /\ l.role = "system" /\ l.id \notin D /\ -l.id \notin D)
  BY DEF Declaring, Besides
<1>10. \A l \in Declaring(K) : Linked(r, l)
  <2> TAKE l \in Declaring(K)
  <2>1. CASE l.id < 0 /\ l.parent = 0 /\ l.role = "system"
    <3>1. l.id \in Int
      BY <1>2 DEF Declaring, Lines, Nodes, Marks
    <3> QED BY <2>1, <3>1 DEF Linked
  <2> QED BY <1>4, <1>9, <2>1
<1>11. Declaring(L \cup K) = Declaring(L) \cup Declaring(K) /\ Declared(L \cup K) = Declared(L) \cup Declared(K)
       /\ Named(L \cup K) = Named(L) \cup Named(K)
  BY NamesGrow, Zenon
<1>12. \A x \in Declared(K) : x \in C \/ x < 0
  BY <1>9 DEF Declared
<1>13. Unique(L \cup K)
  <2> SUFFICES ASSUME NEW l \in Declaring(L \cup K), NEW m \in Declaring(L \cup K), l.id = m.id, l.id > 0
               PROVE  l = m
    BY DEF Unique
  <2>1. \A k \in Declaring(K) : k.id > 0 => \E i \in 1 .. n : k = c[i]
    <3> SUFFICES ASSUME NEW k \in Declaring(K), k.id > 0 PROVE \E i \in 1 .. n : k = c[i]
      OBVIOUS
    <3>1. k.id \in Int
      BY <1>2 DEF Declaring, Lines, Nodes, Marks
    <3>2. ~(k.id < 0)
      BY <3>1
    <3> QED BY <1>9, <3>2
  <2>2. CASE l \in Declaring(L) /\ m \in Declaring(L)
    BY <1>1, <2>2 DEF Unique
  <2>3. CASE l \in Declaring(K) /\ m \in Declaring(K)
    BY <2>1, <2>3 DEF Chained
  <2>4. \A k \in Declaring(K) : k.id > 0 => k.id \in C
    BY <2>1
  <2>5. \A k \in Declaring(L) : k.id \notin C
    BY <1>5, <1>7
  <2> QED BY <1>11, <2>2, <2>3, <2>4, <2>5
<1>14. Unnamed(D, L \cup K, F \cup G)
  <2> SUFFICES ASSUME NEW i \in D PROVE i \notin Named(K) /\ -i \notin Named(K) /\ i \notin G
    BY <1>2, <1>11 DEF Unnamed
  <2>0. i \in C /\ i \in Int /\ i > 0
    BY <1>2
  <2>1. i \notin G
    BY DEF Carried
  <2>2. \A l \in Declaring(K) : l.id # i /\ l.id # -i
    <3> TAKE l \in Declaring(K)
    <3>1. CASE \E j \in 1 .. n : l = c[j]
      BY <1>2, <2>0, <3>1
    <3>2. CASE l.id \notin D /\ -l.id \notin D
      <4>1. l.id = -i => -l.id = i
        BY <2>0
      <4> QED BY <3>2, <4>1
    <3> QED BY <1>9, <3>1, <3>2
  <2>3. \A l \in Declaring(K) : l.parent # i /\ l.parent # -i
    <3> TAKE l \in Declaring(K)
    <3>1. CASE l.parent = 0
      BY <2>0, <3>1
    <3>2. ASSUME NEW j \in 1 .. n, l = c[j] PROVE l.parent # i /\ l.parent # -i
      <4>1. CASE j = 1
        <5>1. l.parent = b /\ b \in Int
          BY <1>2, <3>2, <4>1 DEF Chained
        <5>2. b = -i => -b = i
          BY <2>0
        <5> QED BY <2>0, <5>1, <5>2
      <4>2. CASE j # 1
        <5>1. j - 1 \in 1 .. n /\ l.parent = c[j - 1].id
          BY <3>2, <4>2 DEF Chained
        <5> QED BY <1>2, <2>0, <5>1
      <4> QED BY <4>1, <4>2
    <3> QED BY <1>9, <3>1, <3>2
  <2>4. \A l \in K : l.kind \in {"head", "ck"} => l.id # i /\ l.id # -i
    <3> SUFFICES ASSUME NEW l \in K, l.kind \in {"head", "ck"} PROVE l.id # i /\ l.id # -i
      OBVIOUS
    <3>1. l \in X
      BY DEF Chained
    <3>2. l.id \notin D /\ -l.id \notin D
      BY <3>1 DEF Besides
    <3>3. l.id = -i => -l.id = i
      BY <2>0
    <3> QED BY <3>2, <3>3
  <2> HIDE DEF K
  <2> QED BY <2>1, <2>2, <2>3, <2>4 DEF Named, Declared
<1>15. Consumed(F \cup G, L \cup K, given)
  <2>1. ASSUME NEW l \in Declaring(L), l.id > 0, l.id \in F \cup G
        PROVE  l.holds \subseteq given /\ (l.parent <= 0 \/ l.parent \in F \cup G \/ l.parent \notin Declared(L \cup K))
    <3>1. l.id \notin C
      BY <1>5, <1>7
    <3>2. l.id \in F
      BY <2>1, <3>1 DEF Carried
    <3>3. l.holds \subseteq given /\ (l.parent <= 0 \/ l.parent \in F \/ l.parent \notin Declared(L))
      BY <1>1, <2>1, <3>2 DEF Consumed
    <3>4. l.parent <= 0 \/ l.parent \notin Declared(K)
      <4>1. l.parent \in Int /\ l.parent \notin C
        BY <1>2, <1>5, <1>7
      <4>2. l.parent \in Declared(K) => l.parent < 0
        BY <1>12, <4>1
      <4> QED BY <4>1, <4>2
    <3> QED BY <1>11, <3>3, <3>4
  <2>2. ASSUME NEW l \in Declaring(K), l.id > 0, l.id \in F \cup G
        PROVE  l.holds \subseteq given /\ (l.parent <= 0 \/ l.parent \in F \cup G)
    <3>1. l.id \in Int
      BY <1>2 DEF Declaring, Lines, Nodes, Marks
    <3>2. ~(l.id < 0)
      BY <2>2, <3>1
    <3>3. PICK i \in 1 .. n : l = c[i]
      BY <1>9, <3>2
    <3>4. c[i].id \in G
      BY <1>2, <2>2, <3>3
    <3>5. c[i].holds \subseteq given /\ (IF i = 1 THEN b <= 0 ELSE c[i - 1].id \in G)
      BY <3>4 DEF Carried
    <3>6. c[i].parent = IF i = 1 THEN b ELSE c[i - 1].id
      BY DEF Chained
    <3> QED BY <3>3, <3>5, <3>6
  <2>3. ASSUME NEW l \in L \cup K, l.kind = "cursor", l.id > 0 PROVE l.id \in F \cup G
    <3>1. CASE l \in L
      BY <1>1, <2>3, <3>1 DEF Consumed
    <3>2. CASE l \in K
      <4>1. l \in X
        BY <2>3, <3>2 DEF Chained
      <4> QED BY <2>3, <4>1 DEF Besides
    <3> QED BY <3>1, <3>2
  <2> HIDE DEF K
  <2> QED BY <1>11, <2>1, <2>2, <2>3 DEF Consumed
<1>16. Sound(r, F \cup G, L \cup K, D, given)
  <2> HIDE DEF K
  <2> QED BY <1>4, <1>8, <1>10, <1>11, <1>13, <1>14, <1>15 DEF Sound
<1> QED BY <1>4, <1>16

-----------------------------------------------------------------------------
(* The inductive invariant *)

(* The files and the memory declare nodes under their ids, and what is     *)
(* lost when the last line is dropped declares no more than the file.      *)
Books ==
    /\ Keyed(file.nodes) /\ Keyed(before.nodes) /\ Keyed(store.nodes)
    /\ DOMAIN before.nodes \subseteq DOMAIN file.nodes

(* What a line hangs at is in S, if it is declared at all, in K. *)
Anchored(l, S, K) ==
    /\ l.kind = "node" => l.parent <= 0 \/ l.parent \notin K \/ l.parent \in S
    /\ l.kind \in {"head", "ck"} => l.id <= 0 \/ l.id \notin K \/ l.id \in S

(* What the store declares once j of the appends have been made. *)
SoFar(s, items, j) == DOMAIN s.nodes \cup Declared(UNION {Entering(items[i]) : i \in 1 .. j})

(* No line enters memory ahead of what it hangs at. *)
Closed(s, items, K) ==
    /\ \A l \in LinesOf(s) : Anchored(l, DOMAIN s.nodes, K)
    /\ \A j \in DOMAIN items : \A l \in Entering(items[j]) : Anchored(l, SoFar(s, items, j), K)

(* What a store declares is what its lines do. *)
LEMMA StoreLines ==
    ASSUME NEW s \in Stores
    PROVE  /\ LinesOf(s) \subseteq Lines
           /\ Declaring(LinesOf(s)) = {s.nodes[i] : i \in DOMAIN s.nodes}
           /\ Keyed(s.nodes) => Declared(LinesOf(s)) = DOMAIN s.nodes
<1>1. s.nodes \in NodeMaps /\ s.head \in Ident /\ s.cursor \in Ident /\ s.cks \in SUBSET Ident
  BY DEF Stores
<1>2. s.nodes \in [DOMAIN s.nodes -> Nodes] /\ DOMAIN s.nodes \subseteq Ident
  BY <1>1, NodeMap
<1>3. \A i \in DOMAIN s.nodes : s.nodes[i] \in Nodes /\ s.nodes[i].kind = "node"
  BY <1>2 DEF Nodes
<1>4. \A k \in {"head", "cursor", "ck"} : \A i \in Ident : Mark(k, i) \in Lines /\ Mark(k, i).kind = k
  BY LinesAreTyped
<1>5. LinesOf(s) \subseteq Lines
  BY <1>1, <1>3, <1>4 DEF LinesOf, Lines
<1>6. Declaring(LinesOf(s)) = {s.nodes[i] : i \in DOMAIN s.nodes}
  BY <1>1, <1>3, <1>4 DEF Declaring, LinesOf
<1>7. Keyed(s.nodes) => Declared(LinesOf(s)) = DOMAIN s.nodes
  BY <1>6 DEF Declared, Keyed
<1> QED BY <1>5, <1>6, <1>7

(* What a line adds. *)
LEMMA AddLines ==
    ASSUME NEW s \in Stores, NEW line \in Lines
    PROVE  /\ LinesOf(Add(s, line)) \subseteq LinesOf(s) \cup {line}
           /\ Keyed(s.nodes) => /\ Keyed(Add(s, line).nodes)
                                /\ DOMAIN Add(s, line).nodes = DOMAIN s.nodes \cup Declared({line})
           /\ Add(s, line).head = s.head \/ (line.kind = "head" /\ Add(s, line).head = line.id)
           /\ DOMAIN s.nodes \subseteq DOMAIN Add(s, line).nodes
<1>1. s.nodes \in NodeMaps /\ s.head \in Ident /\ s.cursor \in Ident /\ s.cks \in SUBSET Ident
  BY DEF Stores
<1>2. line.id \in Ident /\ line.kind \in {"node", "head", "cursor", "ck"}
      /\ (line.kind # "node" => line = Mark(line.kind, line.id))
  BY DEF Lines, Nodes, Marks, Mark
<1>3. CASE line.kind = "node"
  <2>1. PICK m : m = Declare(s.nodes, line)
    OBVIOUS
  <2>2. Add(s, line) = [s EXCEPT !.nodes = m]
    BY <1>3, <2>1 DEF Add
  <2>3. /\ Add(s, line).nodes = m /\ Add(s, line).head = s.head
        /\ Add(s, line).cursor = s.cursor /\ Add(s, line).cks = s.cks
    BY <2>2 DEF Stores
  <2>4. /\ DOMAIN m = DOMAIN s.nodes \cup {line.id}
        /\ \A i \in DOMAIN m : m[i] = IF i = line.id THEN line ELSE s.nodes[i]
    BY <2>1 DEF Declare
  <2>5. Declared({line}) = {line.id}
    BY <1>3 DEF Declared, Declaring
  <2>6. \A l \in LinesOf(Add(s, line)) : l \in LinesOf(s) \cup {line}
    BY <2>3, <2>4 DEF LinesOf
  <2>7. Keyed(s.nodes) => Keyed(m)
    BY <2>4 DEF Keyed
  <2> QED BY <2>3, <2>4, <2>5, <2>6, <2>7
<1>4. CASE line.kind # "node"
  <2>1. Declared({line}) = {}
    BY <1>4 DEF Declared, Declaring
  <2>2. Add(s, line).nodes = s.nodes
    BY <1>4, AddIsTyped
  <2>3. CASE line.kind = "head"
    <3>1. Add(s, line) = [s EXCEPT !.head = line.id]
      BY <2>3 DEF Add
    <3>2. Add(s, line).head = line.id /\ Add(s, line).cursor = s.cursor /\ Add(s, line).cks = s.cks
      BY <3>1 DEF Stores
    <3>3. \A l \in LinesOf(Add(s, line)) : l \in LinesOf(s) \cup {line}
      BY <1>2, <2>2, <2>3, <3>2 DEF LinesOf
    <3> QED BY <2>1, <2>2, <2>3, <3>2, <3>3
  <2>4. CASE line.kind = "cursor"
    <3>1. Add(s, line) = [s EXCEPT !.cursor = line.id]
      BY <2>4 DEF Add
    <3>2. Add(s, line).head = s.head /\ Add(s, line).cursor = line.id /\ Add(s, line).cks = s.cks
      BY <3>1 DEF Stores
    <3>3. \A l \in LinesOf(Add(s, line)) : l \in LinesOf(s) \cup {line}
      BY <1>2, <2>2, <2>4, <3>2 DEF LinesOf
    <3> QED BY <2>1, <2>2, <3>2, <3>3
  <2>5. CASE line.kind = "ck"
    <3>1. Add(s, line) = [s EXCEPT !.cks = s.cks \cup {line.id}]
      BY <2>5 DEF Add
    <3>2. Add(s, line).head = s.head /\ Add(s, line).cursor = s.cursor /\ Add(s, line).cks = s.cks \cup {line.id}
      BY <3>1 DEF Stores
    <3>3. \A l \in LinesOf(Add(s, line)) : l \in LinesOf(s) \cup {line}
      BY <1>2, <2>2, <2>5, <3>2 DEF LinesOf
    <3> QED BY <2>1, <2>2, <3>2, <3>3
  <2> QED BY <1>2, <1>4, <2>3, <2>4, <2>5
<1> QED BY <1>3, <1>4

(* What the lines that enter memory together add. *)
LEMMA AddAllLines ==
    ASSUME NEW s \in Stores, NEW q \in Seq(Lines), Len(q) \in 0 .. 2, Keyed(s.nodes)
    PROVE  LET Q == {q[i] : i \in DOMAIN q}
               t == AddAll(s, q)
           IN  /\ t \in Stores /\ LinesOf(t) \subseteq LinesOf(s) \cup Q
               /\ Keyed(t.nodes) /\ DOMAIN t.nodes = DOMAIN s.nodes \cup Declared(Q)
               /\ t.head = s.head \/ (\E l \in Q : l.kind = "head" /\ t.head = l.id)
<1>1. CASE Len(q) = 0
  <2>1. q = <<>> /\ {q[i] : i \in DOMAIN q} = {}
    BY <1>1
  <2>2. AddAll(s, q) = s
    BY <2>1 DEF AddAll
  <2>3. Declared({}) = {}
    BY DEF Declared, Declaring
  <2> QED BY <2>1, <2>2, <2>3
<1>2. CASE Len(q) = 1
  <2>1. q[1] \in Lines /\ q # <<>> /\ DOMAIN q = {1}
    <3>1. DOMAIN q = 1 .. Len(q) /\ q # <<>>
      BY <1>2
    <3>2. 1 .. 1 = {1}
      OBVIOUS
    <3> QED BY <1>2, <3>1, <3>2, ElementOfSeq
  <2>2. AddAll(s, q) = Add(s, q[1]) /\ {q[i] : i \in DOMAIN q} = {q[1]}
    BY <1>2, <2>1 DEF AddAll
  <2>3. PICK l \in Lines : l = q[1]
    BY <2>1
  <2>4. Len(q) \in 0 .. 2
    OBVIOUS
  <2>5. PICK t \in Stores : t = Add(s, l)
    BY AddIsTyped
  <2>6. /\ LinesOf(t) \subseteq LinesOf(s) \cup {l} /\ Keyed(t.nodes)
        /\ DOMAIN t.nodes = DOMAIN s.nodes \cup Declared({l})
        /\ t.head = s.head \/ (l.kind = "head" /\ t.head = l.id)
    BY <2>5, AddLines
  <2> QED BY <2>2, <2>3, <2>5, <2>6
<1>3. CASE Len(q) = 2
  <2>1. q[1] \in Lines /\ q[2] \in Lines /\ q # <<>> /\ DOMAIN q = {1, 2}
    BY <1>3, ElementOfSeq
  <2>2. AddAll(s, q) = Add(Add(s, q[1]), q[2]) /\ {q[i] : i \in DOMAIN q} = {q[1], q[2]}
    BY <1>3, <2>1 DEF AddAll
  <2>3. PICK a \in Stores : a = Add(s, q[1])
    BY <2>1, AddIsTyped
  <2>4. /\ LinesOf(a) \subseteq LinesOf(s) \cup {q[1]} /\ Keyed(a.nodes)
        /\ DOMAIN a.nodes = DOMAIN s.nodes \cup Declared({q[1]})
        /\ a.head = s.head \/ (q[1].kind = "head" /\ a.head = q[1].id)
    BY <2>1, <2>3, AddLines
  <2>a. PICK l \in Lines : l = q[2]
    BY <2>1
  <2>b. PICK t \in Stores : t = Add(a, l)
    BY AddIsTyped
  <2>5. t = Add(a, q[2])
    BY <2>a, <2>b
  <2>c. /\ LinesOf(t) \subseteq LinesOf(a) \cup {l} /\ Keyed(t.nodes)
        /\ DOMAIN t.nodes = DOMAIN a.nodes \cup Declared({l})
        /\ t.head = a.head \/ (l.kind = "head" /\ t.head = l.id)
    BY <2>4, <2>b, AddLines
  <2>6. /\ LinesOf(t) \subseteq LinesOf(a) \cup {q[2]} /\ Keyed(t.nodes)
        /\ DOMAIN t.nodes = DOMAIN a.nodes \cup Declared({q[2]})
        /\ t.head = a.head \/ (q[2].kind = "head" /\ t.head = q[2].id)
    BY <2>a, <2>c
  <2>7. Declared({q[1], q[2]}) = Declared({q[1]}) \cup Declared({q[2]})
    BY DEF Declared, Declaring
  <2>8. AddAll(s, q) = t
    BY <2>2, <2>3, <2>5
  <2> QED BY <2>1, <2>2, <2>4, <2>6, <2>7, <2>8
<1> QED BY <1>1, <1>2, <1>3

(* Moving the cursor changes no other line. *)
LEMMA CursorLines ==
    ASSUME NEW s \in Stores, NEW c \in Ident
    PROVE  LET t == [s EXCEPT !.cursor = c]
           IN  /\ LinesOf(t) \subseteq LinesOf(s) \cup {Mark("cursor", c)}
               /\ t.nodes = s.nodes /\ t.head = s.head /\ t.cks = s.cks
<1> DEFINE t == [s EXCEPT !.cursor = c]
<1>1. t.nodes = s.nodes /\ t.head = s.head /\ t.cks = s.cks /\ t.cursor = c
  BY DEF Stores
<1> HIDE DEF t
<1>2. LinesOf(t) \subseteq LinesOf(s) \cup {Mark("cursor", c)}
  BY <1>1 DEF LinesOf
<1> QED BY <1>1, <1>2 DEF t

(* The ids still to be given out, or given out in this run and recorded    *)
(* nowhere.                                                                *)
Coming ==
    {i \in 1 .. MaxNodes : i > next}
    \cup (IF stage \in {"run", "runCompact"} THEN Ids(hist) \ DOMAIN store.nodes ELSE {})

(* /rewind appends one line. *)
RewindAlone == stage = "rewind" => Len(todo) <= 1

(* No message stands twice.                                                *)
EachOnce(ms) == \A i, j \in DOMAIN ms : ms[i].id = ms[j].id => i = j

(* The conversation is recorded; only its first message may be a fold.     *)
ConvInv ==
    /\ Ids(conv) \subseteq DOMAIN store.nodes /\ EachOnce(conv)
    /\ \A i \in DOMAIN conv : conv[i].id < 0 => i = 1 /\ System(conv[1])

(* The messages of a run are recorded or new, and a summary in front of    *)
(* the conversation stays in front.                                        *)
HistInv ==
    stage \in {"run", "runCompact"} =>
      /\ EachOnce(hist)
      /\ \A i \in DOMAIN hist : hist[i].id \in DOMAIN store.nodes \/ hist[i].id \in 1 .. next
      /\ stage = "run" /\ conv # <<>> /\ System(conv[1]) => hist[1] = conv[1]

(* The lines in memory or on their way into it. *)
InMemory(s, items) == LinesOf(s) \cup UNION {Entering(items[j]) : j \in DOMAIN items}

(* What is above the ids of G is in G, and nothing there ranks before x.   *)
Grown(G, L, rank, x) ==
    /\ G \subseteq Ident
    /\ \A l \in Declaring(L) : l.id \in G => l.parent \in G \/ l.parent \notin Declared(L)
    /\ \A g \in G : rank[x] <= rank[g]

(* Where the head is and may come to be, and what is above it, nothing     *)
(* ranks before the first message of the conversation: if that is on the   *)
(* path, it is its root.                                                   *)
RootInv(rank) ==
    conv # <<>> /\ ~(stage = "rewind" /\ todo = <<>>) =>
      \E G : /\ Grown(G, InMemory(store, todo), rank, conv[1].id) /\ store.head \in G
             /\ stage # "rewind" => \A l \in InMemory(store, todo) : l.kind = "head" => l.id \in G

(* Some ranks, and some set of nodes that the memory was given, make all   *)
(* that is said sound.                                                     *)
TreeInv == \E rank, F : Sound(rank, F, Said, Coming, fed) /\ RootInv(rank)

(* The inductive invariant of the consolidation cursor.                    *)
CursorInv ==
    /\ Books /\ Closed(store, todo, Declared(Said)) /\ RewindAlone
    /\ ConvInv /\ HistInv /\ TreeInv

(* A step after which nothing new is said. *)
LEMMA SaidShrinks ==
    ASSUME LinesOf(file') \subseteq Said, LinesOf(before') \subseteq Said,
           LinesOf(store') \subseteq Said, Asked(todo') \subseteq Said
    PROVE  Said' \subseteq Said
<1>1. LinesOf(Nothing)' = LinesOf(Nothing)
  BY DEF Nothing, LinesOf, Mark
<1>2. LinesOf(Nothing) \subseteq Said
  BY DEF Said
<1>3. Said' = LinesOf(Nothing) \cup LinesOf(file') \cup LinesOf(before') \cup LinesOf(store') \cup Asked(todo')
  BY <1>1 DEF Said
<1> QED BY <1>2, <1>3

(* So the tree stays as it was.                                            *)
LEMMA TreeShrinks ==
    ASSUME TreeInv, Said' \subseteq Said, Coming' \subseteq Coming, fed \subseteq fed',
           \A rank : RootInv(rank) => RootInv(rank)'
    PROVE  TreeInv'
<1>1. PICK rank, F : Sound(rank, F, Said, Coming, fed) /\ RootInv(rank)
  BY DEF TreeInv
<1>2. Sound(rank, F, Said', Coming', fed')
  BY <1>1, FewerAreSound
<1>3. RootInv(rank)'
  BY <1>1
<1> QED BY <1>2, <1>3 DEF TreeInv

(* What all operations know is lines. *)
LEMMA SaidAreLines ==
    ASSUME TypeInv
    PROVE  /\ Said \subseteq Lines
           /\ \A j \in DOMAIN todo : /\ todo[j] \in Items /\ todo[j].line \in Lines /\ todo[j].mem \in Seq(Lines)
                                     /\ todo[j].cursor \in Ident /\ Entering(todo[j]) \subseteq Lines
           /\ InMemory(store, todo) \subseteq Said
<1>1. file \in Stores /\ before \in Stores /\ store \in Stores /\ Nothing \in Stores /\ todo \in Seq(Items)
  BY NothingIsTyped DEF TypeInv, DiskTyped, MemoryTyped, TodoTyped
<1>2. LinesOf(file) \subseteq Lines /\ LinesOf(before) \subseteq Lines /\ LinesOf(store) \subseteq Lines /\ LinesOf(Nothing) \subseteq Lines
  BY <1>1, StoreLines
<1>3. ASSUME NEW j \in DOMAIN todo
      PROVE  /\ todo[j] \in Items /\ todo[j].line \in Lines /\ todo[j].mem \in Seq(Lines)
             /\ todo[j].cursor \in Ident /\ Entering(todo[j]) \subseteq Lines
             /\ Mark("cursor", todo[j].cursor) \in Lines
  <2>1. todo[j] \in Items
    BY <1>1, ElementOfSeq
  <2>2. todo[j].line \in Lines /\ todo[j].mem \in Seq(Lines) /\ todo[j].cursor \in Ident
    BY <2>1 DEF Items
  <2>3. \A i \in DOMAIN todo[j].mem : todo[j].mem[i] \in Lines
    BY <2>2, ElementOfSeq
  <2>4. Entering(todo[j]) \subseteq Lines
    BY <2>3 DEF Entering
  <2> QED BY <2>1, <2>2, <2>4, LinesAreTyped
<1>4. Asked(todo) \subseteq Lines
  BY <1>3 DEF Asked
<1>5. Said \subseteq Lines
  BY <1>2, <1>4 DEF Said
<1>6. InMemory(store, todo) \subseteq Said
  BY DEF InMemory, Said, Asked
<1> QED BY <1>3, <1>5, <1>6

(* However an append of a line ends, the file gains no other line. *)
LEMMA DiskBooks ==
    ASSUME DiskTyped, Books, NEW line \in Lines,
           \/ DiskSame \/ Written(line) \/ Torn
           \/ tail = "clean" /\ file' = Add(file, line) /\ before' = file
    PROVE  /\ Keyed(file'.nodes) /\ Keyed(before'.nodes) /\ DOMAIN before'.nodes \subseteq DOMAIN file'.nodes
           /\ LinesOf(file') \subseteq LinesOf(file) \cup LinesOf(before) \cup {line}
           /\ LinesOf(before') \subseteq LinesOf(file) \cup LinesOf(before) \cup {line}
<1>1. file \in Stores /\ before \in Stores
  BY DEF DiskTyped
<1>2. PICK a \in Stores : a = Add(file, line)
  BY <1>1, AddIsTyped
<1>3. LinesOf(a) \subseteq LinesOf(file) \cup {line} /\ Keyed(a.nodes) /\ DOMAIN file.nodes \subseteq DOMAIN a.nodes
  BY <1>1, <1>2, AddLines DEF Books
<1>4. CASE DiskSame
  BY <1>4 DEF DiskSame, Books
<1>5. CASE Written(line)
  <2>1. file' = before' /\ file' \in {a, file, before}
    BY <1>2, <1>5 DEF Written, DiskTyped
  <2> QED BY <1>3, <2>1 DEF Books
<1>6. CASE Torn
  <2>1. file' = before' /\ file' \in {file, before}
    BY <1>6 DEF Torn
  <2> QED BY <2>1 DEF Books
<1>7. CASE tail = "clean" /\ file' = Add(file, line) /\ before' = file
  BY <1>2, <1>3, <1>7 DEF Books
<1> QED BY <1>4, <1>5, <1>6, <1>7

(* A line that an append makes anchored stays so when less is declared.    *)
LEMMA AnchoredStays ==
    ASSUME NEW l, NEW S, NEW K, Anchored(l, S, K), NEW T, S \subseteq T, NEW M \in SUBSET K
    PROVE  Anchored(l, T, M)
BY DEF Anchored

-----------------------------------------------------------------------------
(* The appends, and their failure *)

(* What the appends left behind the first one enter, and when. *)
LEMMA SoFarTail ==
    ASSUME TypeInv, todo # <<>>, NEW s, DOMAIN s.nodes = DOMAIN store.nodes \cup Declared(Entering(todo[1]))
    PROVE  /\ SoFar(store, todo, 1) = DOMAIN s.nodes
           /\ \A j \in DOMAIN Tail(todo) : /\ j + 1 \in DOMAIN todo /\ Tail(todo)[j] = todo[j + 1]
                                           /\ SoFar(store, todo, j + 1) \subseteq SoFar(s, Tail(todo), j)
<1>1. /\ DOMAIN Tail(todo) = 1 .. Len(todo) - 1 /\ Len(todo) \in Nat /\ DOMAIN todo = 1 .. Len(todo)
      /\ \A i \in DOMAIN Tail(todo) : Tail(todo)[i] = todo[i + 1]
  BY TailIsWellFormed DEF TypeInv, TodoTyped
<1>2. UNION {Entering(todo[i]) : i \in 1 .. 1} = Entering(todo[1])
  OBVIOUS
<1>3. SoFar(store, todo, 1) = DOMAIN s.nodes
  BY <1>2 DEF SoFar
<1>4. ASSUME NEW j \in DOMAIN Tail(todo)
      PROVE  SoFar(store, todo, j + 1) \subseteq SoFar(s, Tail(todo), j)
  <2> DEFINE A == UNION {Entering(todo[i]) : i \in 1 .. j + 1}
             B == UNION {Entering(Tail(todo)[i]) : i \in 1 .. j}
  <2>1. \A l \in A : l \in Entering(todo[1]) \/ l \in B
    <3> SUFFICES ASSUME NEW i \in 1 .. j + 1, NEW l \in Entering(todo[i]), i # 1 PROVE l \in B
      OBVIOUS
    <3>1. i - 1 \in 1 .. j /\ i - 1 \in DOMAIN Tail(todo) /\ i - 1 + 1 = i
      BY <1>1
    <3>2. Tail(todo)[i - 1] = todo[i]
      BY <1>1, <3>1
    <3> QED BY <3>1, <3>2
  <2> HIDE DEF A, B
  <2>2. Declared(A) \subseteq Declared(Entering(todo[1])) \cup Declared(B)
    BY <2>1 DEF Declared, Declaring
  <2> QED BY <2>2 DEF SoFar, A, B
<1>5. \A j \in DOMAIN Tail(todo) : j + 1 \in DOMAIN todo /\ Tail(todo)[j] = todo[j + 1]
  BY <1>1
<1> QED BY <1>3, <1>4, <1>5

(* An append keeps the invariant. *)
LEMMA appendKeeps ==
    ASSUME TypeInv, CursorInv, appendRecord
    PROVE  CursorInv'
<1>1. /\ todo # <<>> /\ Written(todo[1].line) /\ todo' = Tail(todo)
      /\ store' = AddAll([store EXCEPT !.cursor = todo[1].cursor], todo[1].mem)
      /\ UNCHANGED <<conv, stage, hist, next, fresh, told, fed, dirty, used>>
  BY DEF appendRecord
<1>2. /\ 1 \in DOMAIN todo /\ Len(todo) \in Nat /\ DOMAIN todo = 1 .. Len(todo) /\ todo \in Seq(Items)
      /\ todo[1].line \in Lines /\ todo[1].mem \in Seq(Lines) /\ Len(todo[1].mem) \in 0 .. 2
      /\ todo[1].cursor \in Ident
  BY <1>1, FirstItem DEF TypeInv, TodoTyped
<1>3. PICK line \in Lines : line = todo[1].line
  BY <1>2
<1>4. PICK mem \in Seq(Lines) : mem = todo[1].mem
  BY <1>2
<1>5. PICK tried \in Stores : tried = [store EXCEPT !.cursor = todo[1].cursor]
  BY <1>2, CursorIsTyped DEF TypeInv, MemoryTyped
<1>6. /\ LinesOf(tried) \subseteq LinesOf(store) \cup {Mark("cursor", todo[1].cursor)}
      /\ tried.nodes = store.nodes /\ tried.head = store.head
  BY <1>2, <1>5, CursorLines DEF TypeInv, MemoryTyped
<1>7. PICK E : E = {mem[i] : i \in DOMAIN mem}
  OBVIOUS
<1>8. E = Entering(todo[1])
  BY <1>4, <1>7 DEF Entering
<1>9. /\ store' = AddAll(tried, mem) /\ LinesOf(store') \subseteq LinesOf(tried) \cup E
      /\ Keyed(store'.nodes) /\ DOMAIN store'.nodes = DOMAIN tried.nodes \cup Declared(E)
      /\ store'.head = tried.head \/ (\E l \in E : l.kind = "head" /\ store'.head = l.id)
  <2>1. Keyed(tried.nodes) /\ Len(mem) \in 0 .. 2
    BY <1>2, <1>4, <1>6 DEF CursorInv, Books
  <2>2. store' = AddAll(tried, mem)
    BY <1>1, <1>4, <1>5
  <2> QED BY <1>7, <2>1, <2>2, AddAllLines
<1>10. DOMAIN store'.nodes = DOMAIN store.nodes \cup Declared(Entering(todo[1]))
  BY <1>6, <1>8, <1>9
<1>11. /\ SoFar(store, todo, 1) = DOMAIN store'.nodes
       /\ \A j \in DOMAIN todo' : /\ j + 1 \in DOMAIN todo /\ todo'[j] = todo[j + 1]
                                  /\ SoFar(store, todo, j + 1) \subseteq SoFar(store', todo', j)
  BY <1>1, <1>10, SoFarTail
<1>12. /\ Keyed(file'.nodes) /\ Keyed(before'.nodes) /\ DOMAIN before'.nodes \subseteq DOMAIN file'.nodes
       /\ LinesOf(file') \subseteq LinesOf(file) \cup LinesOf(before) \cup {line}
       /\ LinesOf(before') \subseteq LinesOf(file) \cup LinesOf(before) \cup {line}
  BY <1>1, <1>3, DiskBooks DEF TypeInv, CursorInv
<1>13. Books'
  BY <1>9, <1>12 DEF Books
<1>14. line \in Asked(todo) /\ E \subseteq Asked(todo) /\ Mark("cursor", todo[1].cursor) \in Asked(todo)
  BY <1>2, <1>3, <1>8 DEF Asked
<1>15. Asked(todo') \subseteq Asked(todo)
  BY <1>11 DEF Asked
<1>16. Said' \subseteq Said
  <2>1. LinesOf(file') \subseteq Said /\ LinesOf(before') \subseteq Said /\ Asked(todo') \subseteq Said
    BY <1>12, <1>14, <1>15 DEF Said
  <2>2. LinesOf(store') \subseteq Said
    BY <1>6, <1>9, <1>14 DEF Said
  <2> QED BY <2>1, <2>2, SaidShrinks
<1>17. Declared(Said') \subseteq Declared(Said)
  BY <1>16 DEF Declared, Declaring
<1>18. Closed(store', todo', Declared(Said'))
  <2>0. Closed(store, todo, Declared(Said))
    BY DEF CursorInv
  <2>1. ASSUME NEW l \in LinesOf(store') PROVE Anchored(l, DOMAIN store'.nodes, Declared(Said'))
    <3>1. CASE l \in LinesOf(store)
      BY <1>10, <1>17, <2>0, <3>1, AnchoredStays DEF Closed
    <3>2. CASE l = Mark("cursor", todo[1].cursor)
      BY <3>2 DEF Anchored, Mark
    <3>3. CASE l \in E
      <4>1. Anchored(l, SoFar(store, todo, 1), Declared(Said))
        BY <1>2, <1>8, <2>0, <3>3 DEF Closed
      <4> QED BY <1>11, <1>17, <4>1, AnchoredStays
    <3> QED BY <1>6, <1>9, <3>1, <3>2, <3>3
  <2>2. ASSUME NEW j \in DOMAIN todo', NEW l \in Entering(todo'[j])
        PROVE  Anchored(l, SoFar(store', todo', j), Declared(Said'))
    <3>1. Anchored(l, SoFar(store, todo, j + 1), Declared(Said))
      BY <1>11, <2>0, <2>2 DEF Closed
    <3> QED BY <1>11, <1>17, <3>1, AnchoredStays
  <2> QED BY <2>1, <2>2 DEF Closed
<1>19. RewindAlone'
  <2>1. stage' = "rewind" => Len(todo) <= 1
    BY <1>1 DEF CursorInv, RewindAlone
  <2>2. Len(todo') = Len(todo) - 1
    BY <1>1, TailIsWellFormed DEF TypeInv
  <2> QED BY <1>2, <2>1, <2>2 DEF RewindAlone
<1>20. ConvInv' /\ HistInv'
  <2>1. DOMAIN store.nodes \subseteq DOMAIN store'.nodes
    BY <1>10
  <2>2. ConvInv'
    BY <1>1, <2>1 DEF CursorInv, ConvInv, Ids, EachOnce
  <2>3. HistInv'
    BY <1>1, <2>1 DEF CursorInv, HistInv, Ids, EachOnce
  <2> QED BY <2>2, <2>3
<1>21. Coming' \subseteq Coming
  BY <1>1, <1>10 DEF Coming, Ids
<1>22. InMemory(store', todo') \subseteq InMemory(store, todo) \cup {Mark("cursor", todo[1].cursor)}
  <2>1. E \subseteq UNION {Entering(todo[j]) : j \in DOMAIN todo}
    BY <1>2, <1>8
  <2>2. UNION {Entering(todo'[j]) : j \in DOMAIN todo'} \subseteq UNION {Entering(todo[j]) : j \in DOMAIN todo}
    BY <1>11
  <2> QED BY <1>6, <1>9, <2>1, <2>2 DEF InMemory
<1>23. ASSUME NEW rank, RootInv(rank) PROVE RootInv(rank)'
  <2> SUFFICES ASSUME conv # <<>>, ~(stage = "rewind" /\ todo' = <<>>)
               PROVE  \E G : /\ Grown(G, InMemory(store', todo'), rank, conv[1].id) /\ store'.head \in G
                             /\ stage # "rewind" => \A l \in InMemory(store', todo') : l.kind = "head" => l.id \in G
    BY <1>1 DEF RootInv
  <2>1. stage # "rewind"
    <3> SUFFICES ASSUME stage = "rewind" PROVE todo' = <<>>
      OBVIOUS
    <3>1. Len(todo) <= 1
      BY DEF CursorInv, RewindAlone
    <3> QED BY <1>1, <1>2, <3>1
  <2>2. PICK G : /\ Grown(G, InMemory(store, todo), rank, conv[1].id) /\ store.head \in G
                 /\ \A l \in InMemory(store, todo) : l.kind = "head" => l.id \in G
    BY <1>23, <2>1 DEF RootInv
  <2>3. Declaring(InMemory(store', todo')) \subseteq Declaring(InMemory(store, todo))
    BY <1>22 DEF Declaring, Mark
  <2>4. Declared(InMemory(store', todo')) \subseteq Declared(InMemory(store, todo))
    BY <2>3 DEF Declared
  <2>5. Grown(G, InMemory(store', todo'), rank, conv[1].id)
    BY <2>2, <2>3, <2>4 DEF Grown
  <2>6. \A l \in InMemory(store', todo') : l.kind = "head" => l.id \in G
    BY <1>22, <2>2 DEF Mark
  <2>7. store'.head \in G
    <3>1. E \subseteq InMemory(store, todo)
      BY <1>2, <1>8 DEF InMemory
    <3> QED BY <1>6, <1>9, <2>2, <3>1
  <2> QED BY <2>5, <2>6, <2>7
<1>24. TreeInv'
  BY <1>1, <1>16, <1>21, <1>23, TreeShrinks DEF CursorInv
<1> QED BY <1>13, <1>18, <1>19, <1>20, <1>24 DEF CursorInv

(* The lines of a store name one head. *)
LEMMA HeadLine ==
    ASSUME NEW s \in Stores
    PROVE  \A l \in LinesOf(s) : l.kind = "head" => l.id = s.head
<1>1. s.nodes \in NodeMaps /\ s.nodes \in [DOMAIN s.nodes -> Nodes]
  BY NodeMap DEF Stores
<1>2. \A i \in DOMAIN s.nodes : s.nodes[i].kind = "node"
  BY <1>1 DEF Nodes
<1> QED BY <1>2 DEF LinesOf, Mark

(* An append that fails keeps the invariant. *)
LEMMA failureKeeps ==
    ASSUME TypeInv, CursorInv, AppendFails
    PROVE  CursorInv'
<1>1. /\ todo # <<>> /\ todo' = <<>> /\ stage' = afterFailure[stage]
      /\ DiskSame \/ Written(todo[1].line) \/ Torn
      /\ store' = [store EXCEPT !.cursor = todo[1].cursor]
      /\ UNCHANGED <<conv, hist, next, fresh, told, fed>>
  BY DEF AppendFails
<1>2. todo[1].line \in Lines /\ todo[1].cursor \in Ident /\ 1 \in DOMAIN todo
      /\ stage' \in {"failed", "refresh", "idle", "compress"}
  BY <1>1, FirstItem, StageNames DEF TypeInv, TodoTyped
<1>3. PICK line \in Lines : line = todo[1].line
  BY <1>2
<1>4. store \in Stores
  BY DEF TypeInv, MemoryTyped
<1>5. /\ LinesOf(store') \subseteq LinesOf(store) \cup {Mark("cursor", todo[1].cursor)}
      /\ store'.nodes = store.nodes /\ store'.head = store.head
  BY <1>1, <1>2, <1>4, CursorLines
<1>6. /\ Keyed(file'.nodes) /\ Keyed(before'.nodes) /\ DOMAIN before'.nodes \subseteq DOMAIN file'.nodes
      /\ LinesOf(file') \subseteq LinesOf(file) \cup LinesOf(before) \cup {line}
      /\ LinesOf(before') \subseteq LinesOf(file) \cup LinesOf(before) \cup {line}
  BY <1>1, <1>3, DiskBooks DEF TypeInv, CursorInv
<1>7. Books'
  BY <1>5, <1>6 DEF Books, CursorInv
<1>8. line \in Asked(todo) /\ Mark("cursor", todo[1].cursor) \in Asked(todo)
  BY <1>2, <1>3 DEF Asked
<1>9. DOMAIN todo' = {} /\ Asked(todo') = {} /\ Len(todo') = 0
  BY <1>1 DEF Asked
<1>10. Said' \subseteq Said
  <2>1. LinesOf(file') \subseteq Said /\ LinesOf(before') \subseteq Said /\ Asked(todo') \subseteq Said
    BY <1>6, <1>8, <1>9 DEF Said
  <2>2. LinesOf(store') \subseteq Said
    BY <1>5, <1>8 DEF Said
  <2> QED BY <2>1, <2>2, SaidShrinks
<1>11. Declared(Said') \subseteq Declared(Said)
  BY <1>10 DEF Declared, Declaring
<1>12. Closed(store', todo', Declared(Said'))
  <2>1. ASSUME NEW l \in LinesOf(store') PROVE Anchored(l, DOMAIN store'.nodes, Declared(Said'))
    <3>1. CASE l \in LinesOf(store)
      BY <1>5, <1>11, <3>1, AnchoredStays DEF CursorInv, Closed
    <3>2. CASE l = Mark("cursor", todo[1].cursor)
      BY <3>2 DEF Anchored, Mark
    <3> QED BY <1>5, <3>1, <3>2
  <2> QED BY <1>9, <2>1 DEF Closed
<1>13. RewindAlone' /\ ConvInv' /\ HistInv'
  BY <1>1, <1>2, <1>5, <1>9 DEF CursorInv, RewindAlone, ConvInv, HistInv, Ids, EachOnce
<1>14. Coming' \subseteq Coming
  BY <1>1, <1>2 DEF Coming
<1>15. ASSUME NEW rank, RootInv(rank) PROVE RootInv(rank)'
  <2> SUFFICES ASSUME conv # <<>>
               PROVE  \E G : /\ Grown(G, InMemory(store', todo'), rank, conv[1].id) /\ store'.head \in G
                             /\ \A l \in InMemory(store', todo') : l.kind = "head" => l.id \in G
    BY <1>1 DEF RootInv
  <2>1. PICK G : Grown(G, InMemory(store, todo), rank, conv[1].id) /\ store.head \in G
    BY <1>1, <1>15 DEF RootInv
  <2>2. InMemory(store', todo') = LinesOf(store')
    BY <1>9 DEF InMemory
  <2>3. Declaring(InMemory(store', todo')) \subseteq Declaring(InMemory(store, todo))
    BY <1>5, <2>2 DEF Declaring, Mark, InMemory
  <2>4. Declared(InMemory(store', todo')) \subseteq Declared(InMemory(store, todo))
    BY <2>3 DEF Declared
  <2>5. Grown(G, InMemory(store', todo'), rank, conv[1].id)
    BY <2>1, <2>3, <2>4 DEF Grown
  <2>6. \A l \in LinesOf(store') : l.kind = "head" => l.id \in G
    BY <1>4, <1>5, <2>1, HeadLine DEF Mark
  <2> QED BY <1>5, <2>1, <2>2, <2>5, <2>6
<1>16. TreeInv'
  BY <1>1, <1>10, <1>14, <1>15, TreeShrinks DEF CursorInv
<1> QED BY <1>7, <1>12, <1>13, <1>16 DEF CursorInv

(* So does the end of the process or of the session. *)
LEMMA CrashKeeps ==
    ASSUME TypeInv, CursorInv, Crash \/ CloseSession
    PROVE  CursorInv'
<1>1. /\ store' = Nothing /\ conv' = <<>> /\ todo' = <<>> /\ stage' = "down" /\ next' = next /\ fed' = fed
  BY DEF Crash, CloseSession, Forget
<1>2. \E line \in Lines : /\ DiskSame \/ line \in Asked(todo)
                          /\ \/ DiskSame \/ Written(line) \/ Torn
                             \/ tail = "clean" /\ file' = Add(file, line) /\ before' = file
  <2>1. CASE DiskSame
    <3>1. Mark("head", 0) \in Lines
      BY LinesAreTyped, Identifiers
    <3> QED BY <2>1, <3>1
  <2>2. CASE todo # <<>> /\ (Torn \/ Written(todo[1].line) \/ (tail = "clean" /\ file' = Add(file, todo[1].line) /\ before' = file))
    <3>1. todo[1].line \in Lines /\ 1 \in DOMAIN todo
      BY <2>2, FirstItem DEF TypeInv, TodoTyped
    <3>2. todo[1].line \in Asked(todo)
      BY <3>1 DEF Asked
    <3> QED BY <2>2, <3>1, <3>2
  <2> QED BY <2>1, <2>2 DEF Crash, CloseSession, CutShort
<1>3. PICK line \in Lines : /\ DiskSame \/ line \in Asked(todo)
                            /\ \/ DiskSame \/ Written(line) \/ Torn
                               \/ tail = "clean" /\ file' = Add(file, line) /\ before' = file
  BY <1>2
<1>4. /\ Keyed(file'.nodes) /\ Keyed(before'.nodes) /\ DOMAIN before'.nodes \subseteq DOMAIN file'.nodes
      /\ LinesOf(file') \subseteq LinesOf(file) \cup LinesOf(before) \cup {line}
      /\ LinesOf(before') \subseteq LinesOf(file) \cup LinesOf(before) \cup {line}
  BY <1>3, DiskBooks DEF TypeInv, CursorInv
<1>5. LinesOf(file') \subseteq Said /\ LinesOf(before') \subseteq Said
  <2>1. CASE DiskSame
    BY <2>1 DEF DiskSame, Said
  <2>2. CASE line \in Asked(todo)
    BY <1>4, <2>2 DEF Said
  <2> QED BY <1>3, <2>1, <2>2
<1>6. DOMAIN <<>> = {} /\ Asked(<<>>) = {} /\ Len(<<>>) = 0
  BY DEF Asked
<1>7. Said' \subseteq Said
  <2>1. LinesOf(store') \subseteq Said /\ Asked(todo') \subseteq Said
    BY <1>1, <1>6 DEF Said
  <2> QED BY <1>5, <2>1, SaidShrinks
<1>8. Books'
  BY <1>1, <1>4, <1>6 DEF Books, Nothing, Keyed
<1>9. Closed(store', todo', Declared(Said'))
  <2>1. \A l \in LinesOf(Nothing) : l \in {Mark("head", 0), Mark("cursor", 0)}
    BY <1>6 DEF Nothing, LinesOf
  <2>2. \A l \in LinesOf(Nothing) : \A S, K : Anchored(l, S, K)
    BY <2>1 DEF Anchored, Mark
  <2> QED BY <1>1, <1>6, <2>2 DEF Closed
<1>10. RewindAlone' /\ ConvInv' /\ HistInv'
  BY <1>1, <1>6 DEF RewindAlone, ConvInv, HistInv, Ids, EachOnce
<1>11. Coming' \subseteq Coming
  BY <1>1 DEF Coming
<1>12. \A rank : RootInv(rank)'
  BY <1>1 DEF RootInv
<1>13. TreeInv'
  BY <1>1, <1>7, <1>11, <1>12, TreeShrinks DEF CursorInv
<1> QED BY <1>8, <1>9, <1>10, <1>13 DEF CursorInv

(* A step that says nothing and hands out ids keeps the invariant, if the  *)
(* history it leaves is in order.                                          *)
LEMMA QuietKeeps ==
    ASSUME CursorInv, UNCHANGED <<file, before, store, todo, conv, fed>>, Coming' \subseteq Coming,
           stage # "rewind" /\ stage' # "rewind", HistInv'
    PROVE  CursorInv'
<1>1. Said' = Said
  BY DEF Said, Nothing
<1>2. Books' /\ Closed(store', todo', Declared(Said')) /\ RewindAlone' /\ ConvInv'
  BY <1>1 DEF CursorInv, Books, RewindAlone, ConvInv
<1>3. \A rank : RootInv(rank) => RootInv(rank)'
  BY DEF RootInv
<1>4. TreeInv'
  BY <1>1, <1>3, TreeShrinks DEF CursorInv
<1> QED BY <1>2, <1>4 DEF CursorInv

(* An id to come is declared nowhere. *)
LEMMA ComingIsNew ==
    ASSUME TypeInv, CursorInv
    PROVE  /\ \A i \in Coming : /\ i \in 1 .. MaxNodes /\ i \notin Declared(Said) /\ i \notin Named(Said) /\ -i \notin Named(Said)
                                /\ i \notin DOMAIN store.nodes
           /\ DOMAIN store.nodes \subseteq Declared(Said)
           /\ \A i \in DOMAIN store.nodes : i # 0
<1>1. PICK rank, F : Sound(rank, F, Said, Coming, fed)
  BY DEF CursorInv, TreeInv
<1>2. Declared(LinesOf(store)) = DOMAIN store.nodes
  BY StoreLines DEF TypeInv, MemoryTyped, CursorInv, Books
<1>3. Declared(LinesOf(store)) \subseteq Declared(Said) /\ Declared(Said) \subseteq Named(Said)
  BY DEF Said, Declared, Declaring, Named
<1>4. \A i \in Declared(Said) : i # 0
  BY <1>1 DEF Sound, Linked, Declared
<1> QED BY <1>1, <1>2, <1>3, <1>4 DEF Sound, Unnamed

-----------------------------------------------------------------------------
(* Runs *)

(* One more message, with an id of its own. *)
LEMMA AppendOne ==
    ASSUME NEW M, NEW h \in Seq(M), NEW m \in M, EachOnce(h), m.id \notin Ids(h), NEW g, g = Append(h, m)
    PROVE  /\ g \in Seq(M) /\ EachOnce(g)
           /\ \A x \in Ids(g) : x \in Ids(h) \/ x = m.id
           /\ h = <<>> \/ g[1] = h[1]
<1>0. Append(h, m) \in Seq(M)
  OBVIOUS
<1>1. g \in Seq(M) /\ g = Append(h, m)
  BY <1>0
<1>2. /\ Len(h) \in Nat /\ DOMAIN h = 1 .. Len(h) /\ DOMAIN g = 1 .. Len(h) + 1
      /\ \A i \in 1 .. Len(h) : g[i] = h[i] /\ g[Len(h) + 1] = m
      /\ g[Len(h) + 1] = m
  BY <1>1
<1>3. \A i \in DOMAIN g : (i \in DOMAIN h /\ g[i] = h[i]) \/ (i = Len(h) + 1 /\ g[i] = m)
  BY <1>2
<1>4. EachOnce(g)
  <2> SUFFICES ASSUME NEW i \in DOMAIN g, NEW j \in DOMAIN g, g[i].id = g[j].id PROVE i = j
    BY DEF EachOnce
  <2>1. CASE i \in DOMAIN h /\ j \in DOMAIN h
    BY <1>2, <2>1 DEF EachOnce
  <2>2. CASE i \in DOMAIN h /\ j = Len(h) + 1
    BY <1>2, <1>3, <2>2 DEF Ids
  <2>3. CASE j \in DOMAIN h /\ i = Len(h) + 1
    BY <1>2, <1>3, <2>3 DEF Ids
  <2> QED BY <1>3, <2>1, <2>2, <2>3
<1>5. Ids(g) = Ids(h) \cup {m.id}
  <2>1. \A i \in DOMAIN h : i \in DOMAIN g /\ g[i] = h[i]
    BY <1>2
  <2>2. Len(h) + 1 \in DOMAIN g
    BY <1>2
  <2>3. \A x \in Ids(g) : x \in Ids(h) \cup {m.id}
    BY <1>3 DEF Ids
  <2>4. \A x \in Ids(h) \cup {m.id} : x \in Ids(g)
    BY <1>2, <2>1, <2>2 DEF Ids
  <2> QED BY <2>3, <2>4
<1>6. h = <<>> \/ g[1] = h[1]
  BY <1>2
<1> QED BY <1>1, <1>4, <1>5, <1>6

(* Two more messages, one after the other. *)
LEMMA TwoMore ==
    ASSUME NEW M, NEW h \in Seq(M), NEW m \in M, NEW r \in M, NEW g, g = Append(h, m)
    PROVE  h \o <<m, r>> = Append(g, r)
<1>1. /\ h \o <<m, r>> \in Seq(M) /\ g \in Seq(M) /\ Append(g, r) \in Seq(M) /\ Len(h) \in Nat
      /\ Len(g) = Len(h) + 1 /\ Len(Append(g, r)) = Len(h) + 2 /\ Len(h \o <<m, r>>) = Len(h) + 2
  OBVIOUS
<1>2. \A i \in 1 .. Len(h) + 2 : (h \o <<m, r>>)[i] = Append(g, r)[i]
  OBVIOUS
<1> QED BY <1>1, <1>2, SeqEqual

(* Compressing keeps ids distinct, and keeps a summary in front. *)
LEMMA CompressKeepsIds ==
    ASSUME NEW M, NEW ms \in Seq(M), EachOnce(ms), next + 1 \notin Ids(ms), ms # <<>>,
           NEW protect \in BOOLEAN, protect, NEW r, r = ms \/ \E k, n : Summarises(r, ms, protect, k, n)
    PROVE  /\ EachOnce(r) /\ Ids(r) \subseteq Ids(ms) \cup {next + 1}
           /\ DOMAIN r = 1 .. Len(r) /\ Len(r) \in Nat /\ Len(r) # 0
           /\ System(ms[1]) => r[1] = ms[1]
<1>0. Len(ms) \in Nat /\ DOMAIN ms = 1 .. Len(ms)
  OBVIOUS
<1>1. CASE r = ms
  BY <1>0, <1>1
<1>2. CASE r # ms
  <2>1. PICK k, n : Summarises(r, ms, protect, k, n)
    BY <1>2
  <2>2. /\ k \in Nat /\ n \in Nat /\ 2 <= n /\ k + n < Len(ms) /\ k = Leading(ms)
        /\ Len(r) = Len(ms) - n + 1 /\ DOMAIN r = 1 .. Len(ms) - n + 1
        /\ \A i \in 1 .. k : r[i] = ms[i]
        /\ \A i \in k + 2 .. Len(ms) - n + 1 : r[i] = ms[i + (n - 1)]
    BY <2>1 DEF Summarises
  <2>a. PICK c : r[k + 1] = Message(next + 1, "system", c)
    BY <2>1 DEF Summarises
  <2>3. r[k + 1].id = next + 1
    BY <2>a DEF Message
  <2> DEFINE place(i) == IF i <= k THEN i ELSE i + (n - 1)
  <2>4. \A i \in DOMAIN r : i = k + 1 \/ (place(i) \in DOMAIN ms /\ r[i] = ms[place(i)])
    <3> TAKE i \in DOMAIN r
    <3>1. CASE i <= k
      <4>1. i \in 1 .. k /\ i \in DOMAIN ms
        BY <1>0, <2>2, <3>1
      <4> QED BY <2>2, <3>1, <4>1
    <3>2. CASE i >= k + 2
      <4>1. i \in k + 2 .. Len(ms) - n + 1
        BY <1>0, <2>2, <3>2
      <4>2. i + (n - 1) \in 1 .. Len(ms) /\ ~(i <= k)
        BY <1>0, <2>2, <4>1
      <4>3. r[i] = ms[i + (n - 1)]
        BY <2>2, <4>1
      <4> QED BY <1>0, <4>2, <4>3
    <3>3. i \in 1 .. Len(ms) - n + 1 /\ Len(ms) - n + 1 \in Int /\ k \in Int
      BY <1>0, <2>2
    <3>4. i <= k \/ i = k + 1 \/ i >= k + 2
      BY <3>3
    <3> HIDE DEF place
    <3> QED BY <3>1, <3>2, <3>4
  <2>5. \A i, j \in DOMAIN r : i # k + 1 /\ j # k + 1 /\ place(i) = place(j) => i = j
    <3>1. DOMAIN r \subseteq Int /\ k \in Int /\ n \in Int /\ n >= 2
      BY <1>0, <2>2
    <3> TAKE i, j \in DOMAIN r
    <3>2. i \in Int /\ j \in Int
      BY <3>1
    <3> QED BY <3>1, <3>2
  <2> HIDE DEF place
  <2>6. \A i \in DOMAIN ms : ms[i].id # next + 1
    BY DEF Ids
  <2>7. EachOnce(r)
    BY <2>3, <2>4, <2>5, <2>6 DEF EachOnce
  <2>8. Ids(r) \subseteq Ids(ms) \cup {next + 1}
    BY <2>3, <2>4 DEF Ids
  <2>9. System(ms[1]) => r[1] = ms[1]
    BY <2>2, LeadingShape
  <2>10. DOMAIN r = 1 .. Len(r) /\ Len(r) \in Nat /\ Len(r) # 0
    BY <1>0, <2>2
  <2> QED BY <2>7, <2>8, <2>9, <2>10
<1> QED BY <1>1, <1>2

(* The steps of a run and of the recovery that say nothing. *)
LEMMA runKeeps ==
    ASSUME TypeInv, CursorInv, BeginRun \/ AcceptRun \/ AcceptFails \/ EndRun \/ MarkInterrupted \/ Recovered
    PROVE  CursorInv'
<1>0. UNCHANGED <<file, before, store, todo, conv, fed>>
  BY DEF BeginRun, AcceptRun, AcceptFails, EndRun, MarkInterrupted, Recovered, DiskSame, StoreSame
<1>1. CASE BeginRun \/ AcceptFails \/ EndRun \/ MarkInterrupted \/ Recovered
  <2>1. stage' \in {"accept", "idle", "recover"} /\ next' = next /\ stage # "rewind"
    BY <1>1 DEF BeginRun, AcceptFails, EndRun, MarkInterrupted, Recovered
  <2>2. HistInv' /\ Coming' \subseteq Coming
    BY <2>1 DEF HistInv, Coming
  <2> QED BY <1>0, <2>1, <2>2, QuietKeeps
<1>2. CASE AcceptRun
  <2>1. stage = "accept" /\ stage' = "run" /\ next' = next + 1 /\ next \in Nat /\ next + 1 \in 1 .. MaxNodes
        /\ hist' = Append(conv, Message(next + 1, "user", {next + 1})) /\ conv \in Seq(Messages)
    BY <1>2, Identifiers DEF AcceptRun, TypeInv, CountsTyped, MemoryTyped
  <2>2. PICK m \in Messages : m = Message(next + 1, "user", {next + 1}) /\ m.id = next + 1
    <3>1. next + 1 \in Ident /\ {next + 1} \in Holdings
      BY <2>1, Identifiers DEF Holdings
    <3> QED BY <3>1, MessagesAreTyped DEF Roles, Message
  <2>3. next + 1 \in Coming
    BY <2>1 DEF Coming
  <2>4. next + 1 \notin Ids(conv) /\ Ids(conv) \subseteq DOMAIN store.nodes /\ EachOnce(conv)
    BY <2>3, ComingIsNew DEF CursorInv, ConvInv
  <2>a. PICK g : g = Append(conv, m)
    OBVIOUS
  <2>b. g = hist'
    BY <2>1, <2>2, <2>a
  <2>c. m.id \notin Ids(conv)
    BY <2>2, <2>4
  <2>d. EachOnce(g) /\ (\A x \in Ids(g) : x \in Ids(conv) \/ x = m.id) /\ (conv = <<>> \/ g[1] = conv[1])
    BY <2>1, <2>4, <2>a, <2>c, AppendOne
  <2>5. \A x \in Ids(g) : x \in DOMAIN store.nodes \/ x = next + 1
    BY <2>2, <2>4, <2>d
  <2>6. \A i \in DOMAIN g : g[i].id \in DOMAIN store.nodes \/ g[i].id \in 1 .. next + 1
    <3>1. \A i \in DOMAIN g : g[i].id \in Ids(g)
      BY DEF Ids
    <3>2. next + 1 \in 1 .. next + 1
      BY <2>1
    <3> QED BY <2>5, <3>1, <3>2
  <2>7. HistInv'
    BY <1>0, <2>1, <2>b, <2>d, <2>6 DEF HistInv, EachOnce
  <2>8. Coming' \subseteq Coming
    <3>1. Coming' = {i \in 1 .. MaxNodes : i > next + 1} \cup (Ids(g) \ DOMAIN store.nodes)
      BY <1>0, <2>1, <2>b DEF Coming, Ids
    <3>2. {i \in 1 .. MaxNodes : i > next + 1} \subseteq Coming
      BY <2>1 DEF Coming
    <3> QED BY <2>3, <2>5, <3>1, <3>2
  <2> QED BY <1>0, <2>1, <2>7, <2>8, QuietKeeps
<1> QED BY <1>1, <1>2

(* So does an answer of the model. *)
LEMMA ReplyKeeps ==
    ASSUME TypeInv, CursorInv, Reply
    PROVE  CursorInv'
<1>0. UNCHANGED <<file, before, store, todo, conv, fed, stage>> /\ stage = "run"
  BY DEF Reply, DiskSame, StoreSame
<1>1. next \in Nat /\ hist \in Seq(Messages) /\ hist # <<>> /\ MaxNodes \in Nat
  BY <1>0, Identifiers DEF TypeInv, CountsTyped, MemoryTyped
<1>2. /\ EachOnce(hist)
      /\ \A i \in DOMAIN hist : hist[i].id \in DOMAIN store.nodes \/ hist[i].id \in 1 .. next
      /\ conv # <<>> /\ System(conv[1]) => hist[1] = conv[1]
  BY <1>0 DEF CursorInv, HistInv
<1>3. \A x \in Ids(hist) : x \in DOMAIN store.nodes \/ x \in 1 .. next
  BY <1>2 DEF Ids
<1>4. \A i \in 1 .. MaxNodes : i > next => i \in Coming /\ i \notin DOMAIN store.nodes /\ i \notin Ids(hist)
  <2> TAKE i \in 1 .. MaxNodes
  <2> HAVE i > next
  <2>1. i \in Coming
    BY DEF Coming
  <2> QED BY <1>1, <1>3, <2>1, ComingIsNew
<1>5. PICK h, id : /\ h = hist \/ (h = Compress(hist, TRUE) /\ h # hist)
                   /\ id = IF h = hist THEN next + 1 ELSE next + 2
                   /\ \/ /\ id <= MaxNodes
                         /\ hist' = Append(h, Message(id, "assistant", {id}))
                         /\ next' = id
                      \/ /\ id + 1 < MaxNodes
                         /\ hist' = h \o <<Message(id, "call", {id}), Message(id + 1, "tool", {id + 1})>>
                         /\ next' = id + 1
  BY DEF Reply
<1>6. id \in Nat /\ id > next /\ id >= 1 /\ id <= MaxNodes /\ id \in 1 .. MaxNodes /\ next' \in Nat /\ next' <= MaxNodes /\ next' >= id
  BY <1>1, <1>5
<1>7. /\ EachOnce(h) /\ Ids(h) \subseteq Ids(hist) \cup (IF h = hist THEN {} ELSE {next + 1})
      /\ h # <<>> /\ (System(hist[1]) => h[1] = hist[1]) /\ h \in Seq(Messages)
  <2>1. CASE h = hist
    BY <1>1, <1>2, <2>1
  <2>2. CASE h # hist
    <3>1. next + 1 \in 1 .. MaxNodes /\ next + 1 > next
      BY <1>1, <1>5, <1>6, <2>2
    <3>2. next + 1 \notin Ids(hist)
      BY <1>4, <3>1
    <3>3. /\ EachOnce(h) /\ Ids(h) \subseteq Ids(hist) \cup {next + 1}
          /\ Len(h) # 0 /\ (System(hist[1]) => h[1] = hist[1])
      <4>1. PICK protect \in BOOLEAN : protect = TRUE
        OBVIOUS
      <4>2. h = hist \/ \E k, n : Summarises(h, hist, protect, k, n)
        BY <1>1, <1>5, <4>1, CompressShape, Zenon
      <4> QED BY <1>1, <1>2, <3>2, <4>1, <4>2, CompressKeepsIds
    <3>4. h \in Seq(Messages)
      <4>1. \A c \in Holdings : Message(next + 1, "system", c) \in Messages
        BY <3>1, Identifiers, MessagesAreTyped DEF Roles
      <4> QED BY <1>1, <1>5, <2>2, <4>1, MessagesAreTyped, CompressIsTyped
    <3>5. h # <<>>
      BY <3>3
    <3> QED BY <2>2, <3>3, <3>4, <3>5
  <2> QED BY <2>1, <2>2
<1>8. \A x \in Ids(h) : x \in Ids(hist) \/ x \in next + 1 .. id - 1
  BY <1>1, <1>5, <1>7
<1>9. id \notin Ids(h)
  <2>1. id \notin Ids(hist)
    BY <1>4, <1>6
  <2> QED BY <1>6, <1>8, <2>1
<1>10. \A role \in Roles : \A i \in 1 .. MaxNodes : Message(i, role, {i}) \in Messages /\ Message(i, role, {i}).id = i
  <2> SUFFICES ASSUME NEW role \in Roles, NEW i \in 1 .. MaxNodes
               PROVE Message(i, role, {i}) \in Messages /\ Message(i, role, {i}).id = i
    OBVIOUS
  <2>1. i \in Ident /\ {i} \in Holdings
    BY Identifiers DEF Holdings
  <2> QED BY <2>1, MessagesAreTyped DEF Message
<1>a. h \in Seq(Messages) /\ EachOnce(h)
  BY <1>7
<1>11. \E g : /\ g = hist' /\ EachOnce(g) /\ g[1] = h[1]
              /\ \A x \in Ids(g) : x \in Ids(hist) \/ x \in next + 1 .. next'
  <2>1. CASE hist' = Append(h, Message(id, "assistant", {id})) /\ next' = id
    <3>1. PICK m \in Messages : m = Message(id, "assistant", {id}) /\ m.id = id
      BY <1>6, <1>10 DEF Roles
    <3>2. PICK g : g = Append(h, m)
      OBVIOUS
    <3>3. g = hist'
      BY <2>1, <3>1, <3>2
    <3>4. m.id \notin Ids(h)
      BY <1>9, <3>1
    <3>5. EachOnce(g) /\ (\A x \in Ids(g) : x \in Ids(h) \/ x = m.id) /\ (h = <<>> \/ g[1] = h[1])
      BY <1>a, <3>2, <3>4, AppendOne
    <3>6. \A x \in Ids(g) : x \in Ids(hist) \/ x \in next + 1 .. next'
      <4>1. id \in next + 1 .. next' /\ (\A x \in next + 1 .. id - 1 : x \in next + 1 .. next')
        BY <1>1, <1>6, <2>1
      <4> QED BY <1>8, <3>1, <3>5, <4>1
    <3> QED BY <1>7, <3>3, <3>5, <3>6
  <2>2. CASE /\ id + 1 < MaxNodes /\ next' = id + 1
             /\ hist' = h \o <<Message(id, "call", {id}), Message(id + 1, "tool", {id + 1})>>
    <3>1. PICK m \in Messages : m = Message(id, "call", {id}) /\ m.id = id
      BY <1>6, <1>10 DEF Roles
    <3>2. id + 1 \in 1 .. MaxNodes /\ id + 1 > next /\ id + 1 # id
      BY <1>1, <1>6, <2>2
    <3>3. PICK r \in Messages : r = Message(id + 1, "tool", {id + 1}) /\ r.id = id + 1
      BY <3>2, <1>10 DEF Roles
    <3>4. PICK y : y = Append(h, m)
      OBVIOUS
    <3>a. y \in Seq(Messages) /\ y # <<>>
      BY <1>a, <3>4
    <3>b. m.id \notin Ids(h)
      BY <1>9, <3>1
    <3>5. EachOnce(y) /\ (\A x \in Ids(y) : x \in Ids(h) \/ x = m.id) /\ (h = <<>> \/ y[1] = h[1])
      BY <1>a, <3>4, <3>b, AppendOne
    <3>6. r.id \notin Ids(y)
      <4>1. id + 1 \notin Ids(hist)
        BY <1>4, <3>2
      <4>2. id + 1 \notin next + 1 .. id - 1
        BY <1>1, <1>6
      <4> QED BY <1>8, <3>1, <3>2, <3>3, <3>5, <4>1, <4>2
    <3>c. PICK g : g = Append(y, r)
      OBVIOUS
    <3>7. g = hist'
      <4>1. h \o <<m, r>> = Append(y, r)
        BY <1>a, <3>4, TwoMore
      <4> QED BY <2>2, <3>1, <3>3, <3>c, <4>1
    <3>8. EachOnce(g) /\ (\A x \in Ids(g) : x \in Ids(y) \/ x = r.id) /\ (y = <<>> \/ g[1] = y[1])
      BY <3>a, <3>5, <3>6, <3>c, AppendOne
    <3>9. \A x \in Ids(g) : x \in Ids(hist) \/ x \in next + 1 .. next'
      <4>1. id \in next + 1 .. next' /\ id + 1 \in next + 1 .. next' /\ (\A x \in next + 1 .. id - 1 : x \in next + 1 .. next')
        BY <1>1, <1>6, <2>2
      <4> QED BY <1>8, <3>1, <3>3, <3>5, <3>8, <4>1
    <3> QED BY <1>7, <3>a, <3>5, <3>7, <3>8, <3>9
  <2> QED BY <1>5, <2>1, <2>2
<1>b. PICK g : /\ g = hist' /\ EachOnce(g) /\ g[1] = h[1]
               /\ \A x \in Ids(g) : x \in Ids(hist) \/ x \in next + 1 .. next'
  BY <1>11
<1>12. HistInv'
  <2>1. \A i \in DOMAIN g : g[i].id \in DOMAIN store.nodes \/ g[i].id \in 1 .. next'
    <3>1. \A x \in Ids(g) : x \in DOMAIN store.nodes \/ x \in 1 .. next'
      <4>1. (\A x \in next + 1 .. next' : x \in 1 .. next') /\ (\A x \in 1 .. next : x \in 1 .. next')
        BY <1>1, <1>6
      <4> QED BY <1>3, <1>b, <4>1
    <3>2. \A i \in DOMAIN g : g[i].id \in Ids(g)
      BY DEF Ids
    <3> QED BY <3>1, <3>2
  <2>2. conv # <<>> /\ System(conv[1]) => g[1] = conv[1]
    BY <1>2, <1>7, <1>b
  <2> QED BY <1>0, <1>b, <2>1, <2>2 DEF HistInv, EachOnce
<1>13. Coming' \subseteq Coming
  <2>1. Coming' = {i \in 1 .. MaxNodes : i > next'} \cup (Ids(g) \ DOMAIN store.nodes)
    BY <1>0, <1>b DEF Coming, Ids
  <2>2. Ids(hist) \ DOMAIN store.nodes \subseteq Coming
    BY <1>0 DEF Coming
  <2>3. \A i \in next + 1 .. next' : i \in Coming
    <3> TAKE i \in next + 1 .. next'
    <3>1. i \in 1 .. MaxNodes /\ i > next
      BY <1>1, <1>6
    <3> QED BY <1>4, <3>1
  <2>4. \A i \in 1 .. MaxNodes : i > next' => i > next
    BY <1>1, <1>6
  <2>5. \A i \in 1 .. MaxNodes : i > next' => i \in Coming
    BY <1>4, <2>4
  <2>6. \A x \in Ids(g) : x \in DOMAIN store.nodes \/ x \in Coming
    BY <1>b, <2>2, <2>3
  <2> QED BY <2>1, <2>5, <2>6
<1> QED BY <1>0, <1>12, <1>13, QuietKeeps

-----------------------------------------------------------------------------
(* Refreshing the conversation *)

(* The view of a store whose nodes are linked shows each node once, a fold *)
(* only in front, and nothing above the head ranks before its first        *)
(* message.                                                                *)
LEMMA ViewInOrder ==
    ASSUME NEW s \in Stores, Keyed(s.nodes), NEW rank, Ranked(rank), Rooted(rank, s.nodes),
           NEW V, V = buildActiveView(s.nodes, s.head)
    PROVE  /\ V \in Seq(Messages) /\ EachOnce(V) /\ Ids(V) \subseteq DOMAIN s.nodes
           /\ \A i \in DOMAIN V : V[i].id < 0 => i = 1 /\ System(V[1])
           /\ V # <<>> => \E G : Grown(G, LinesOf(s), rank, V[1].id) /\ s.head \in G
<1>1. s.nodes \in NodeMaps /\ s.head \in Ident /\ DOMAIN s.nodes \subseteq Ident
  BY NodeMap DEF Stores
<1>2. PICK P : P = activePathIDs(s.nodes, s.head)
  OBVIOUS
<1>3. /\ V \in Seq(Messages) /\ Len(V) = Len(P) /\ DOMAIN V = 1 .. Len(P) /\ Len(P) \in Nat
      /\ \A i \in 1 .. Len(P) : P[i] \in DOMAIN s.nodes /\ V[i].id = s.nodes[P[i]].id /\ V[i].role = s.nodes[P[i]].role
  BY <1>1, <1>2, ViewShows
<1>4. \A i \in 1 .. Len(P) : V[i].id = P[i] /\ P[i] # 0
  BY <1>3 DEF Keyed, Rooted, Linked
<1>5. Climb(s.nodes, s.head, P)
  BY <1>1, <1>2, PathClimbs
<1>6. /\ \A i, j \in 1 .. Len(P) : i <= j => rank[P[i]] <= rank[P[j]]
      /\ \A i \in 2 .. Len(P) : P[i] > 0 /\ P[i - 1] = s.nodes[P[i]].parent
      /\ P # <<>> => ~hasID(s.nodes, s.nodes[P[1]].parent)
  <2>1. PICK n \in NodeMaps : n = s.nodes
    BY <1>1
  <2>2. Keyed(n) /\ Rooted(rank, n) /\ P = activePathIDs(n, s.head)
    BY <1>2, <2>1
  <2>3. /\ \A i, j \in 1 .. Len(P) : i <= j => rank[P[i]] <= rank[P[j]]
        /\ \A i \in 2 .. Len(P) : P[i] > 0 /\ P[i - 1] = n[P[i]].parent
        /\ P # <<>> => ~hasID(n, n[P[1]].parent)
    BY <2>2, PathIsLinked
  <2> QED BY <2>1, <2>3
<1>7. EachOnce(V)
  BY <1>3, <1>4, <1>5 DEF Climb, EachOnce
<1>8. Ids(V) \subseteq DOMAIN s.nodes
  BY <1>3, <1>4 DEF Ids
<1>9. ASSUME NEW i \in DOMAIN V, V[i].id < 0 PROVE i = 1 /\ System(V[1])
  <2>1. i \in 1 .. Len(P) /\ P[i] < 0 /\ P[i] \in DOMAIN s.nodes /\ P[i] \in Int
    BY <1>1, <1>3, <1>4, <1>9, Identifiers
  <2>2. ~(i \in 2 .. Len(P))
    BY <1>6, <2>1
  <2>3. i = 1
    BY <1>3, <2>1, <2>2
  <2>4. s.nodes[P[1]].role = "system"
    BY <2>1, <2>3 DEF Rooted, Keyed, Linked
  <2>5. V[1].role = "system"
    BY <1>3, <2>1, <2>3, <2>4
  <2> QED BY <2>3, <2>5 DEF System
<1>10. ASSUME V # <<>> PROVE \E G : Grown(G, LinesOf(s), rank, V[1].id) /\ s.head \in G
  <2>1. Len(P) >= 1 /\ 1 \in 1 .. Len(P) /\ P # <<>> /\ P \in Seq(DOMAIN s.nodes) /\ Len(P) \in 1 .. Len(P)
    <3>1. Len(V) # 0
      BY <1>3, <1>10
    <3>2. P \in Seq(DOMAIN s.nodes)
      BY <1>5 DEF Climb
    <3> QED BY <1>3, <3>1, <3>2
  <2>2. PICK G : G = {P[i] : i \in 1 .. Len(P)}
    OBVIOUS
  <2>3. s.head \in G
    BY <1>5, <2>1, <2>2 DEF Climb
  <2>4. G \subseteq Ident
    BY <1>1, <1>3, <2>2
  <2>5. ASSUME NEW l \in Declaring(LinesOf(s)), l.id \in G
        PROVE  l.parent \in G \/ l.parent \notin Declared(LinesOf(s))
    <3>1. PICK k \in DOMAIN s.nodes : l = s.nodes[k]
      BY StoreLines
    <3>2. PICK i \in 1 .. Len(P) : l.id = P[i]
      BY <2>2, <2>5
    <3>3. l = s.nodes[P[i]]
      BY <3>1, <3>2 DEF Keyed
    <3>4. CASE i = 1
      BY <1>6, <2>1, <3>3, <3>4, StoreLines DEF hasID
    <3>5. CASE i # 1
      <4>1. i \in 2 .. Len(P) /\ i - 1 \in 1 .. Len(P)
        BY <1>3, <3>5
      <4> QED BY <1>6, <2>2, <3>3, <4>1
    <3> QED BY <3>4, <3>5
  <2>6. \A g \in G : rank[V[1].id] <= rank[g]
    <3>1. \A i \in 1 .. Len(P) : 1 <= i
      BY <1>3
    <3> QED BY <1>4, <1>6, <2>1, <2>2, <3>1
  <2> QED BY <2>3, <2>4, <2>5, <2>6 DEF Grown
<1> QED BY <1>3, <1>7, <1>8, <1>9, <1>10

(* What all operations know declares the nodes of a store that is part.    *)
LEMMA PartIsRooted ==
    ASSUME NEW rank, NEW F, NEW L, NEW C, NEW given, Sound(rank, F, L, C, given),
           NEW s \in Stores, LinesOf(s) \subseteq L
    PROVE  Ranked(rank) /\ Rooted(rank, s.nodes)
<1>1. \A i \in DOMAIN s.nodes : s.nodes[i] \in Declaring(LinesOf(s))
  BY StoreLines
<1>2. Declaring(LinesOf(s)) \subseteq Declaring(L)
  BY DEF Declaring
<1> QED BY <1>1, <1>2 DEF Sound, Rooted

(* A step that takes over the view of a store, in memory or on disk, for   *)
(* the conversation.                                                       *)
LEMMA ViewKeeps ==
    ASSUME TypeInv, CursorInv, NEW s \in {store, file}, UNCHANGED <<file, before, fed, todo>>, todo = <<>>,
           store' = s, conv' = buildActiveView(s.nodes, s.head), Coming' \subseteq Coming,
           stage' \notin {"run", "runCompact"}, s = store \/ (s = file /\ stage = "down")
    PROVE  CursorInv'
<1>1. s \in Stores /\ Keyed(s.nodes) /\ LinesOf(s) \subseteq Said
  BY DEF TypeInv, MemoryTyped, DiskTyped, CursorInv, Books, Said
<1>2. PICK rank, F : Sound(rank, F, Said, Coming, fed)
  BY DEF CursorInv, TreeInv
<1>3. Ranked(rank) /\ Rooted(rank, s.nodes)
  BY <1>1, <1>2, PartIsRooted
<1>4. PICK V : V = buildActiveView(s.nodes, s.head)
  OBVIOUS
<1>5. /\ V \in Seq(Messages) /\ EachOnce(V) /\ Ids(V) \subseteq DOMAIN s.nodes
      /\ \A i \in DOMAIN V : V[i].id < 0 => i = 1 /\ System(V[1])
      /\ V # <<>> => \E G : Grown(G, LinesOf(s), rank, V[1].id) /\ s.head \in G
  BY <1>1, <1>3, <1>4, ViewInOrder
<1>6. conv' = V /\ store' = s
  BY <1>4
<1>7. DOMAIN todo' = {} /\ Asked(todo') = {} /\ Len(todo') = 0 /\ DOMAIN todo = {}
  BY DEF Asked
<1>8. Said' \subseteq Said
  <2>1. LinesOf(file') \subseteq Said /\ LinesOf(before') \subseteq Said /\ LinesOf(store') \subseteq Said
    BY <1>1, <1>6 DEF Said
  <2> QED BY <1>7, <2>1, SaidShrinks
<1>9. Books' /\ RewindAlone'
  BY <1>1, <1>6, <1>7 DEF CursorInv, Books, RewindAlone
<1>10. ConvInv'
  BY <1>5, <1>6 DEF ConvInv, Ids, EachOnce
<1>11. HistInv'
  BY DEF HistInv
<1>12. Closed(store', todo', Declared(Said'))
  <2>1. ASSUME NEW l \in LinesOf(s) PROVE Anchored(l, DOMAIN s.nodes, Declared(Said'))
    <3>1. CASE s = store
      <4>1. Declared(Said') \subseteq Declared(Said)
        BY <1>8 DEF Declared, Declaring
      <4>2. Closed(store, todo, Declared(Said))
        BY DEF CursorInv
      <4> QED BY <2>1, <3>1, <4>1, <4>2, AnchoredStays DEF Closed
    <3>2. CASE s = file
      <4>1. \A l2 \in Said' : l2.kind = "node" => l2 \in LinesOf(file) \cup LinesOf(before)
        <5>1. Said' = LinesOf(Nothing)' \cup LinesOf(file') \cup LinesOf(before') \cup LinesOf(store') \cup Asked(todo')
          BY DEF Said
        <5>2. \A l2 \in LinesOf(Nothing)' : l2.kind # "node"
          BY DEF Nothing, LinesOf, Mark
        <5> QED BY <1>6, <1>7, <3>2, <5>1, <5>2
      <4>2. Declared(Said') \subseteq DOMAIN file.nodes
        <5>1. Declared(LinesOf(file)) = DOMAIN file.nodes /\ Declared(LinesOf(before)) = DOMAIN before.nodes
          BY StoreLines DEF TypeInv, DiskTyped, CursorInv, Books
        <5>2. Declared(Said') \subseteq Declared(LinesOf(file)) \cup Declared(LinesOf(before))
          BY <4>1 DEF Declared, Declaring
        <5> QED BY <5>1, <5>2 DEF CursorInv, Books
      <4> QED BY <3>2, <4>2 DEF Anchored
    <3> QED BY <3>1, <3>2
  <2> QED BY <1>6, <1>7, <2>1 DEF Closed
<1>13. RootInv(rank)'
  <2>1. InMemory(store', todo') = LinesOf(s)
    BY <1>6, <1>7 DEF InMemory
  <2>2. \A l \in LinesOf(s) : l.kind = "head" => l.id = s.head
    BY <1>1, HeadLine
  <2> SUFFICES ASSUME V # <<>>
               PROVE  \E G : /\ Grown(G, LinesOf(s), rank, V[1].id) /\ s.head \in G
                             /\ stage' # "rewind" => \A l \in LinesOf(s) : l.kind = "head" => l.id \in G
    BY <1>6, <2>1 DEF RootInv
  <2> QED BY <1>5, <2>2
<1>14. Sound(rank, F, Said', Coming', fed')
  <2>1. fed \subseteq fed'
    OBVIOUS
  <2> QED BY <1>2, <1>8, <2>1, FewerAreSound
<1> QED BY <1>9, <1>10, <1>11, <1>12, <1>13, <1>14 DEF CursorInv, TreeInv

(* The steps that refresh the conversation. *)
LEMMA RefreshKeeps ==
    ASSUME TypeInv, CursorInv, RefreshRun \/ Done \/ Open
    PROVE  CursorInv'
<1>1. UNCHANGED <<file, before, fed, todo, next>> /\ todo = <<>> /\ stage' \notin {"run", "runCompact", "rewind"}
  <2>1. CASE RefreshRun \/ Done
    BY <2>1 DEF RefreshRun, Done, DiskSame
  <2>2. CASE Open
    <3>1. todo = <<>>
      BY <2>2, StageNames DEF Open, TypeInv, TodoTyped
    <3> QED BY <2>2, <3>1 DEF Open
  <2> QED BY <2>1, <2>2
<1>2. Coming' \subseteq Coming
  BY <1>1 DEF Coming
<1>3. CASE RefreshRun \/ (Done /\ stage \in {"compact", "rewind"})
  <2>1. store' = store /\ conv' = ActiveView
    BY <1>3 DEF RefreshRun, Done, StoreSame
  <2>2. conv' = buildActiveView(store.nodes, store.head)
    BY <2>1 DEF ActiveView
  <2> QED BY <1>1, <1>2, <2>1, <2>2, ViewKeeps
<1>4. CASE Open
  <2>1. store' = file /\ conv' = buildActiveView(file.nodes, file.head) /\ stage = "down"
    BY <1>4 DEF Open, OnDisk
  <2> QED BY <1>1, <1>2, <2>1, ViewKeeps
<1>5. CASE Done /\ stage \notin {"compact", "rewind"}
  <2>1. UNCHANGED <<store, conv>> /\ stage # "rewind" /\ stage' # "rewind"
    BY <1>5 DEF Done, StoreSame
  <2>2. HistInv'
    BY <1>1 DEF HistInv
  <2> QED BY <1>1, <1>2, <2>1, <2>2, QuietKeeps
<1> QED BY <1>3, <1>4, <1>5

-----------------------------------------------------------------------------
(* Planning appends *)

(* What is above the head grows with a chain on it, or on a fold that      *)
(* ranks behind the first message of the conversation.                     *)
GrowsOn(rank, F, given, n, c, b, r, Z, X) ==
    /\ Sound(rank, F, Said, Coming, given) /\ RootInv(rank)
    /\ Chained(c, n, b) /\ \A i \in 1 .. n : c[i].id \in Coming
    /\ Ranked(r) /\ Raises(r, rank, c, n)
    /\ \A z \in Z : z < 0
    /\ n = 0 \/ b = store.head \/ b \in Z
    /\ \A l \in X : /\ l.kind = "node" => l.id \in Z /\ l.parent = 0
                    /\ l.kind = "head" /\ stage' # "rewind" => l.id \in Z \/ \E i \in 1 .. n : l.id = c[i].id
    /\ InMemory(store, todo') \subseteq LinesOf(store) \cup {c[i] : i \in 1 .. n} \cup X
    /\ conv # <<>> => \A z \in Z : rank[conv[1].id] <= rank[z]

(* So the first message of the conversation stays the root.                *)
LEMMA RootGrows ==
    ASSUME TypeInv, CursorInv, todo = <<>>, store' = store, conv' = conv, stage # "rewind",
           NEW rank, NEW F, NEW given, NEW n \in Nat, NEW c \in [1 .. n -> Nodes], NEW b,
           NEW r, NEW Z \in SUBSET Ident, NEW X, GrowsOn(rank, F, given, n, c, b, r, Z, X)
    PROVE  RootInv(r)'
<1>0. /\ Sound(rank, F, Said, Coming, given) /\ RootInv(rank)
      /\ Chained(c, n, b) /\ \A i \in 1 .. n : c[i].id \in Coming
      /\ Ranked(r) /\ Raises(r, rank, c, n)
      /\ \A z \in Z : z < 0
      /\ n = 0 \/ b = store.head \/ b \in Z
      /\ \A l \in X : /\ l.kind = "node" => l.id \in Z /\ l.parent = 0
                      /\ l.kind = "head" /\ stage' # "rewind" => l.id \in Z \/ \E i \in 1 .. n : l.id = c[i].id
      /\ InMemory(store, todo') \subseteq LinesOf(store) \cup {c[i] : i \in 1 .. n} \cup X
      /\ conv # <<>> => \A z \in Z : rank[conv[1].id] <= rank[z]
  BY DEF GrowsOn
<1> USE <1>0
<1> SUFFICES ASSUME conv # <<>>
             PROVE  \E H : /\ Grown(H, InMemory(store, todo'), r, conv[1].id) /\ store.head \in H
                           /\ stage' # "rewind" => \A l \in InMemory(store, todo') : l.kind = "head" => l.id \in H
  BY DEF RootInv
<1>1. InMemory(store, todo) = LinesOf(store)
  <2>1. DOMAIN todo = {}
    OBVIOUS
  <2> QED BY <2>1 DEF InMemory
<1>2. PICK G : Grown(G, LinesOf(store), rank, conv[1].id) /\ store.head \in G
  BY <1>1 DEF RootInv
<1>3. PICK x : x = conv[1].id
  OBVIOUS
<1>4. x \in DOMAIN store.nodes /\ x \in Declared(Said) /\ x \in Ident
  <2>1. 1 \in DOMAIN conv /\ conv \in Seq(Messages)
    BY DEF TypeInv, MemoryTyped
  <2>2. x \in Ids(conv)
    BY <1>3, <2>1 DEF Ids
  <2>3. store.nodes \in NodeMaps
    BY DEF TypeInv, MemoryTyped, Stores
  <2> QED BY <2>2, <2>3, ComingIsNew, NodeMap DEF CursorInv, ConvInv
<1>5. \A i \in 1 .. n : c[i].id # x /\ c[i].id # -x
  <2> TAKE i \in 1 .. n
  <2>1. PICK k \in Coming : k = c[i].id
    OBVIOUS
  <2>2. k \notin Declared(Said) /\ -k \notin Named(Said) /\ k \in 1 .. MaxNodes
    BY ComingIsNew
  <2>3. x # k /\ x # -k
    BY <1>4, <2>2 DEF Named
  <2>4. x \in Int
    BY <1>4, Identifiers
  <2> QED BY <2>1, <2>2, <2>3, <2>4
<1>6. r[x] = rank[x] /\ \A a \in Ident : rank[a] <= r[a]
  BY <1>4, <1>5 DEF Raises
<1>7. PICK H : H = G \cup Z \cup {c[i].id : i \in 1 .. n}
  OBVIOUS
<1>8. \A i \in 1 .. n : c[i] \in Nodes /\ c[i].id \in Ident /\ c[i].id \notin Named(Said) /\ c[i].id > 0
  BY ComingIsNew, Identifiers DEF Nodes
<1>9. H \subseteq Ident
  BY <1>2, <1>7, <1>8 DEF Grown
<1>10. \A g \in H : r[x] <= r[g]
  <2>1. /\ \A g \in Ident : rank[g] \in Int /\ r[g] \in Int
        /\ \A g \in G : rank[x] <= rank[g]
        /\ \A g \in Z : rank[x] <= rank[g]
    BY <1>2, <1>3 DEF Grown, Sound, Ranked
  <2>2. \A g \in Ident : rank[x] <= rank[g] => r[x] <= r[g]
    BY <1>4, <1>6, <2>1
  <2>3. \A i \in 1 .. n : r[x] <= r[c[i].id]
    <3> TAKE i \in 1 .. n
    <3>1. PICK k \in Ident : k = c[i].id
      BY <1>8
    <3>2. rank[x] < r[k]
      BY <1>4, <3>1 DEF Raises
    <3> QED BY <1>4, <1>6, <2>1, <3>1, <3>2
  <2> QED BY <1>2, <1>7, <1>9, <2>1, <2>2, <2>3
<1>11. \A l \in LinesOf(store) : l.kind = "node" => Linked(rank, l) /\ l.id \in Named(Said) /\ l.parent \in Named(Said)
  BY DEF Sound, Said, Declaring, Declared, Named
<1>12. \A l \in Declaring(InMemory(store, todo')) : l.id \in Declared(LinesOf(store)) \/ l.id \in Z \/ \E i \in 1 .. n : l.id = c[i].id
  BY DEF Declaring, Declared
<1>13. ASSUME NEW l \in Declaring(InMemory(store, todo')), l.id \in H
       PROVE  l.parent \in H \/ l.parent \notin Declared(InMemory(store, todo'))
  <2> SUFFICES ASSUME l.parent \in Declared(InMemory(store, todo')) PROVE l.parent \in H
    OBVIOUS
  <2>1. l.kind = "node" /\ l \in LinesOf(store) \cup {c[i] : i \in 1 .. n} \cup X
    BY DEF Declaring
  <2>2. l.parent # 0
    <3>1. \A m \in Declaring(InMemory(store, todo')) : m.id # 0
      <4> TAKE m \in Declaring(InMemory(store, todo'))
      <4>1. \A k \in Declared(LinesOf(store)) : k # 0
        BY <1>11 DEF Declared, Declaring, Linked
      <4>2. \A k \in Z : k # 0
        BY Identifiers
      <4> QED BY <1>8, <1>12, <4>1, <4>2
    <3> QED BY <3>1 DEF Declared
  <2>3. CASE l \in LinesOf(store)
    <3>1. l.id \in G
      <4>1. \A i \in 1 .. n : l.id # c[i].id
        BY <1>8, <1>11, <2>1, <2>3
      <4>2. l.id \notin Z
        BY <1>11, <2>1, <2>2, <2>3 DEF Linked
      <4> QED BY <1>7, <1>13, <4>1, <4>2
    <3>2. l.parent \in G \/ l.parent \notin Declared(LinesOf(store))
      BY <1>2, <2>1, <2>3, <3>1 DEF Grown, Declaring
    <3>3. \A i \in 1 .. n : l.parent # c[i].id
      BY <1>8, <1>11, <2>1, <2>3
    <3>4. l.parent \in Declared(LinesOf(store)) \/ l.parent \in Z
      <4>1. PICK m \in Declaring(InMemory(store, todo')) : m.id = l.parent
        BY DEF Declared
      <4> QED BY <1>12, <3>3, <4>1
    <3> QED BY <1>7, <3>2, <3>4
  <2>4. CASE \E i \in 1 .. n : l = c[i]
    <3>1. PICK i \in 1 .. n : l = c[i]
      BY <2>4
    <3>2. l.parent = IF i = 1 THEN b ELSE c[i - 1].id
      BY <3>1 DEF Chained
    <3>3. CASE i = 1
      <4>1. n # 0
        BY <3>1
      <4> QED BY <1>2, <1>7, <3>2, <3>3, <4>1
    <3>4. CASE i # 1
      <4>1. i - 1 \in 1 .. n
        BY <3>4
      <4> QED BY <1>7, <3>2, <3>4, <4>1
    <3> QED BY <3>3, <3>4
  <2>5. CASE l \in X
    BY <2>1, <2>2, <2>5
  <2> QED BY <2>1, <2>3, <2>4, <2>5
<1>14. ASSUME stage' # "rewind", NEW l \in InMemory(store, todo'), l.kind = "head" PROVE l.id \in H
  <2>1. CASE l \in LinesOf(store)
    <3>1. store \in Stores
      BY DEF TypeInv, MemoryTyped
    <3> QED BY <1>2, <1>7, <1>14, <2>1, <3>1, HeadLine
  <2>2. CASE \E i \in 1 .. n : l = c[i]
    BY <1>7, <2>2
  <2>3. CASE l \in X
    BY <1>7, <1>14, <2>3
  <2> QED BY <2>1, <2>2, <2>3
<1> QED BY <1>2, <1>3, <1>7, <1>9, <1>10, <1>13, <1>14 DEF Grown

(* What a planned line hangs at is declared, or on the way ahead of it, or *)
(* what a head or a checkpoint is at now.                                  *)
Hung(l, S) ==
    /\ l.kind = "node" => l.parent <= 0 \/ l.parent \in S \/ l.parent = store.head
    /\ l.kind \in {"head", "ck"} => l.id <= 0 \/ l.id \in S \/ l.id = store.head \/ l.id \in store.cks

(* A step that plans appends: a chain of new nodes, and folds and marks    *)
(* besides.                                                                *)
Plans(rank, F, n, c, b, G, X, Z) ==
    /\ Sound(rank, F, Said, Coming, fed') /\ RootInv(rank)
    /\ b \notin Coming /\ -b \notin Coming /\ Chained(c, n, b)
    /\ \A i \in 1 .. n : c[i].id \in Coming /\ c[i].id \notin Coming'
    /\ Carried(G, c, n, b, fed') /\ Besides(X, Coming', F \cup G)
    /\ \A z \in Z : z < 0
    /\ n = 0 \/ b = store.head \/ b \in Z
    /\ conv # <<>> => \A z \in Z : rank[conv[1].id] <= rank[z]
    /\ \A l \in X : /\ l.kind = "node" => l.id \in Z
                    /\ l.kind = "head" /\ stage' # "rewind" => l.id \in Z \/ \E i \in 1 .. n : l.id = c[i].id
    /\ Asked(todo') \subseteq {c[i] : i \in 1 .. n} \cup X
    /\ \A j \in DOMAIN todo' : \A l \in Entering(todo'[j]) : Hung(l, SoFar(store, todo', j))

(* Such a step keeps the invariant.                                        *)
LEMMA PlanKeeps ==
    ASSUME TypeInv, TypeInv', CursorInv, todo = <<>>, UNCHANGED <<file, before, store, conv>>, stage # "rewind",
           Coming' \subseteq Coming, RewindAlone', HistInv',
           NEW rank, NEW F, NEW n \in Nat, NEW c \in [1 .. n -> Nodes], NEW b \in Ident, NEW G,
           NEW X \in SUBSET Lines, NEW Z \in SUBSET Ident, Plans(rank, F, n, c, b, G, X, Z)
    PROVE  CursorInv'
<1>0. /\ Sound(rank, F, Said, Coming, fed') /\ RootInv(rank)
      /\ b \notin Coming /\ -b \notin Coming /\ Chained(c, n, b)
      /\ \A i \in 1 .. n : c[i].id \in Coming /\ c[i].id \notin Coming'
      /\ Carried(G, c, n, b, fed') /\ Besides(X, Coming', F \cup G)
      /\ \A z \in Z : z < 0
      /\ n = 0 \/ b = store.head \/ b \in Z
      /\ conv # <<>> => \A z \in Z : rank[conv[1].id] <= rank[z]
      /\ \A l \in X : /\ l.kind = "node" => l.id \in Z
                      /\ l.kind = "head" /\ stage' # "rewind" => l.id \in Z \/ \E i \in 1 .. n : l.id = c[i].id
      /\ Asked(todo') \subseteq {c[i] : i \in 1 .. n} \cup X
      /\ \A j \in DOMAIN todo' : \A l \in Entering(todo'[j]) : Hung(l, SoFar(store, todo', j))
  BY DEF Plans
<1> USE <1>0
<1> DEFINE Grafts == {c[i] : i \in 1 .. n} \cup X
<1>1. DOMAIN todo = {} /\ Asked(todo) = {}
  BY DEF Asked
<1>2. Said' \subseteq Said \cup Grafts
  <2>1. Said' = LinesOf(Nothing) \cup LinesOf(file) \cup LinesOf(before) \cup LinesOf(store) \cup Asked(todo')
    BY DEF Said, Nothing
  <2>2. LinesOf(Nothing) \cup LinesOf(file) \cup LinesOf(before) \cup LinesOf(store) \subseteq Said
    BY DEF Said
  <2> QED BY <2>1, <2>2
<1>3. PICK r : Sound(r, F \cup G, Said \cup Grafts, Coming', fed') /\ Raises(r, rank, c, n)
  <2>1. Said \in SUBSET Lines
    BY SaidAreLines
  <2> HIDE DEF Grafts
  <2>2. \E r : /\ Sound(r, F \cup G, Said \cup ({c[i] : i \in 1 .. n} \cup X), Coming', fed')
               /\ Raises(r, rank, c, n)
    BY <2>1, Grafted
  <2> QED BY <2>2 DEF Grafts
<1> HIDE DEF Grafts
<1>4. Sound(r, F \cup G, Said', Coming', fed')
  BY <1>2, <1>3, FewerAreSound
<1>5. RootInv(r)'
  <2>1. InMemory(store, todo') \subseteq LinesOf(store) \cup {c[i] : i \in 1 .. n} \cup X
    BY DEF InMemory, Asked
  <2>2. \A l \in X : l.kind = "node" => l.id \in Z /\ l.parent = 0
    BY DEF Besides
  <2>3. Ranked(r)
    BY <1>3 DEF Sound
  <2>4. \A i \in 1 .. n : c[i].id \in Coming
    OBVIOUS
  <2>5. PICK given : given = fed'
    OBVIOUS
  <2>6. Sound(rank, F, Said, Coming, given)
    BY <2>5
  <2>7. \A l \in X : /\ l.kind = "node" => l.id \in Z /\ l.parent = 0
                     /\ l.kind = "head" /\ stage' # "rewind" => l.id \in Z \/ \E i \in 1 .. n : l.id = c[i].id
    BY <2>2
  <2>8. GrowsOn(rank, F, given, n, c, b, r, Z, X)
    BY <1>3, <2>1, <2>3, <2>4, <2>6, <2>7 DEF GrowsOn
  <2>9. store' = store /\ conv' = conv
    OBVIOUS
  <2> QED BY <2>8, <2>9, RootGrows
<1>6. TreeInv'
  BY <1>4, <1>5 DEF TreeInv
<1>7. Books' /\ ConvInv'
  BY DEF CursorInv, Books, ConvInv
<1>8. Closed(store', todo', Declared(Said'))
  <2>1. \A i \in Declared(Said') : i \in Declared(Said) \/ i < 0 \/ i \in Coming
    <3>1. \A l \in Declaring(Grafts) : l.id < 0 \/ l.id \in Coming
      <4> TAKE l \in Declaring(Grafts)
      <4>1. CASE l \in X
        <5>1. l.id \in Z
          BY <4>1 DEF Declaring
        <5> QED BY <5>1
      <4>2. CASE \E i \in 1 .. n : l = c[i]
        BY <4>2
      <4> QED BY <4>1, <4>2 DEF Declaring, Grafts
    <3> QED BY <1>2, <3>1 DEF Declared, Declaring
  <2>2. \A l \in LinesOf(store) : Anchored(l, DOMAIN store.nodes, Declared(Said))
    BY DEF CursorInv, Closed
  <2>3. \A l \in LinesOf(store) : /\ l.kind = "node" => l.parent \in Ident
                                  /\ l.kind \in {"head", "ck"} => l.id \in Ident
    <3>1. LinesOf(store) \subseteq Lines
      BY StoreLines DEF TypeInv, MemoryTyped
    <3> QED BY <3>1 DEF Lines, Nodes, Marks
  <2>4. \A i \in Coming : i \notin Named(Said)
    BY ComingIsNew
  <2>5. ASSUME NEW i \in Named(LinesOf(store)), i \in Ident, i <= 0 \/ i \notin Declared(Said) \/ i \in DOMAIN store.nodes
        PROVE  i <= 0 \/ i \notin Declared(Said') \/ i \in DOMAIN store.nodes
    <3>1. i \in Named(Said)
      BY DEF Said, Named, Declared, Declaring
    <3>2. i < 0 => i <= 0
      BY <2>5, Identifiers
    <3> QED BY <2>1, <2>4, <2>5, <3>1, <3>2
  <2>6. \A l \in LinesOf(store) : Anchored(l, DOMAIN store.nodes, Declared(Said'))
    <3> TAKE l \in LinesOf(store)
    <3>1. /\ l.kind = "node" => l.parent \in Named(LinesOf(store))
          /\ l.kind \in {"head", "ck"} => l.id \in Named(LinesOf(store))
      BY DEF Named, Declaring
    <3> QED BY <2>2, <2>3, <2>5, <3>1 DEF Anchored
  <2>7. \A i \in {store.head} \cup store.cks : i <= 0 \/ i \notin Declared(Said') \/ i \in DOMAIN store.nodes
    <3>1. \A i \in store.cks : Mark("ck", i) \in LinesOf(store)
      BY DEF LinesOf
    <3>2. Mark("head", store.head) \in LinesOf(store)
      BY DEF LinesOf
    <3>3. \A i : Mark("ck", i).kind = "ck" /\ Mark("ck", i).id = i /\ Mark("head", i).kind = "head" /\ Mark("head", i).id = i
      BY DEF Mark
    <3> QED BY <2>6, <3>1, <3>2, <3>3 DEF Anchored
  <2>8. ASSUME NEW j \in DOMAIN todo', NEW l \in Entering(todo'[j])
        PROVE  Anchored(l, SoFar(store, todo', j), Declared(Said'))
    <3>1. DOMAIN store.nodes \subseteq SoFar(store, todo', j)
      BY DEF SoFar
    <3>2. Hung(l, SoFar(store, todo', j))
      BY <2>8
    <3> QED BY <2>7, <3>1, <3>2 DEF Hung, Anchored
  <2> QED BY <2>6, <2>8 DEF Closed
<1> QED BY <1>6, <1>7, <1>8 DEF CursorInv

(* A step that plans marks alone. *)
LEMMA MarksKeep ==
    ASSUME TypeInv, TypeInv', CursorInv, todo = <<>>, UNCHANGED <<file, before, store, conv>>, stage # "rewind",
           Coming' \subseteq Coming, RewindAlone', HistInv',
           NEW rank, NEW F, Sound(rank, F, Said, Coming, fed'), RootInv(rank),
           NEW X \in SUBSET Lines, Asked(todo') \subseteq X, Besides(X, Coming', F),
           \A l \in X : l.kind # "node" /\ (l.kind = "head" => stage' = "rewind"),
           \A j \in DOMAIN todo' : \A l \in Entering(todo'[j]) : Hung(l, SoFar(store, todo', j))
    PROVE  CursorInv'
<1>1. PICK n \in Nat : n = 0
  OBVIOUS
<1>2. PICK c \in [1 .. n -> Nodes] : TRUE
  <2>1. [i \in 1 .. n |-> CHOOSE x \in Nodes : TRUE] \in [1 .. n -> Nodes]
    BY <1>1
  <2> QED BY <2>1
<1>3. PICK b \in Ident : b = 0
  BY Identifiers
<1>4. PICK Z \in SUBSET Ident : Z = {}
  OBVIOUS
<1>5. PICK G : G = {}
  OBVIOUS
<1>6. 1 .. n = {}
  BY <1>1
<1>7. Chained(c, n, b) /\ Carried(G, c, n, b, fed')
  BY <1>5, <1>6 DEF Chained, Carried
<1>8. b \notin Coming /\ -b \notin Coming
  BY <1>3, ComingIsNew
<1>9. F \cup G = F
  BY <1>5
<1>10. Plans(rank, F, n, c, b, G, X, Z)
  BY <1>1, <1>4, <1>6, <1>7, <1>8, <1>9 DEF Plans
<1> QED BY <1>10, PlanKeeps

-----------------------------------------------------------------------------
(* Checkpoints, rewinds and consolidations *)

(* A step that plans one mark: the cursor of what the memory was given, a  *)
(* checkpoint at the head, or a rewind to a checkpoint.                    *)
LEMMA OneKeeps ==
    ASSUME TypeInv, TypeInv', CursorInv, todo = <<>>, UNCHANGED <<file, before, store, conv>>, stage # "rewind",
           Coming' \subseteq Coming, stage' \notin {"run", "runCompact"},
           NEW line \in Marks, todo' = One(line),
           NEW rank, NEW F, Sound(rank, F, Said, Coming, fed'), RootInv(rank),
           \/ line.kind = "cursor" /\ (line.id > 0 => line.id \in F)
           \/ line.kind = "ck" /\ line.id = store.head
           \/ line.kind = "head" /\ line.id \in store.cks /\ stage' = "rewind"
    PROVE  CursorInv'
<1> DEFINE X == {line, Mark("cursor", store.cursor)}
<1>1. /\ DOMAIN todo' = {1} /\ Len(todo') = 1
      /\ todo'[1].line = line /\ todo'[1].mem = <<line>> /\ todo'[1].cursor = store.cursor
  BY DEF One, Item
<1>2. Entering(todo'[1]) = {line}
  <2>1. DOMAIN <<line>> = {1} /\ <<line>>[1] = line
    OBVIOUS
  <2> QED BY <1>1, <2>1 DEF Entering
<1>3. Asked(todo') \subseteq X
  BY <1>1, <1>2 DEF Asked
<1>4. X \in SUBSET Lines
  <2>1. store.cursor \in Ident
    BY DEF TypeInv, MemoryTyped, Stores
  <2>2. line \in Lines
    BY DEF Lines
  <2> QED BY <2>1, <2>2, LinesAreTyped
<1>5. Besides(X, Coming', F)
  <2>1. store.cursor > 0 => store.cursor \in F
    <3>1. Mark("cursor", store.cursor) \in Said
      BY DEF Said, LinesOf
    <3> QED BY <3>1 DEF Sound, Consumed, Mark
  <2>2. \A i \in {store.head} \cup store.cks : i \in Named(Said) /\ i \in Int
    <3>1. \A i \in {store.head} \cup store.cks : \E l \in Said : l.kind \in {"head", "ck"} /\ l.id = i
      <4>1. Mark("head", store.head) \in Said /\ \A i \in store.cks : Mark("ck", i) \in Said
        BY DEF Said, LinesOf
      <4>2. \A i : Mark("ck", i).kind = "ck" /\ Mark("ck", i).id = i /\ Mark("head", i).kind = "head" /\ Mark("head", i).id = i
        BY DEF Mark
      <4> QED BY <4>1, <4>2
    <3>2. \A i \in {store.head} \cup store.cks : i \in Named(Said)
      BY <3>1 DEF Named
    <3> QED BY <3>2, Identifiers DEF TypeInv, MemoryTyped, Stores
  <2>3. \A i \in {store.head} \cup store.cks : i \notin Coming' /\ -i \notin Coming'
    <3> TAKE i \in {store.head} \cup store.cks
    <3>1. i \in Named(Said) /\ i \in Int /\ -(-i) = i
      BY <2>2
    <3> QED BY <3>1, ComingIsNew
  <2>4. line.kind \in {"cursor", "ck", "head"}
    OBVIOUS
  <2>5. Mark("cursor", store.cursor).kind = "cursor" /\ Mark("cursor", store.cursor).id = store.cursor
    BY DEF Mark
  <2> QED BY <2>1, <2>3, <2>5 DEF Besides
<1>6. \A l \in X : l.kind # "node" /\ (l.kind = "head" => stage' = "rewind")
  BY DEF Mark
<1>7. \A j \in DOMAIN todo' : \A l \in Entering(todo'[j]) : Hung(l, SoFar(store, todo', j))
  BY <1>1, <1>2 DEF Hung
<1>8. RewindAlone' /\ HistInv'
  BY <1>1 DEF RewindAlone, HistInv
<1> HIDE DEF X
<1> QED BY <1>3, <1>4, <1>5, <1>6, <1>7, <1>8, MarksKeep

(* A checkpoint and a rewind keep the invariant.                           *)
LEMMA RewindKeeps ==
    ASSUME TypeInv, TypeInv', CursorInv, CheckpointRun \/ Rewind
    PROVE  CursorInv'
<1>1. /\ todo = <<>> /\ UNCHANGED <<file, before, store, conv, next, fed>> /\ stage \in {"commit", "idle"}
      /\ stage' \in {"checkpoint", "rewind"}
  <2>1. CASE CheckpointRun
    BY <2>1 DEF CheckpointRun, DiskSame, StoreSame
  <2>2. CASE Rewind
    <3>1. todo = <<>>
      BY <2>2, StageNames DEF Rewind, TypeInv, TodoTyped
    <3> QED BY <2>2, <3>1 DEF Rewind, DiskSame, StoreSame
  <2> QED BY <2>1, <2>2
<1>2. Coming' \subseteq Coming
  BY <1>1 DEF Coming
<1>3. PICK rank, F : Sound(rank, F, Said, Coming, fed') /\ RootInv(rank)
  BY <1>1 DEF CursorInv, TreeInv
<1>4. CASE CheckpointRun
  <2>1. PICK line \in Marks : line = Mark("ck", store.head)
    BY DEF Marks, Mark, TypeInv, MemoryTyped, Stores
  <2>2. line.kind = "ck" /\ line.id = store.head
    BY <2>1 DEF Mark
  <2>3. todo' = One(line)
    BY <1>4, <2>1 DEF CheckpointRun
  <2> QED BY <1>1, <1>2, <1>3, <2>2, <2>3, OneKeeps
<1>5. CASE Rewind
  <2>1. PICK at \in store.cks : todo' = One(Mark("head", at))
    BY <1>5 DEF Rewind
  <2>2. PICK line \in Marks : line = Mark("head", at)
    BY <2>1 DEF Marks, Mark, TypeInv, MemoryTyped, Stores
  <2>3. line.kind = "head" /\ line.id \in store.cks
    BY <2>2 DEF Mark
  <2>4. stage' = "rewind"
    BY <1>5 DEF Rewind
  <2>5. todo' = One(line)
    BY <2>1, <2>2
  <2> QED BY <1>1, <1>2, <1>3, <2>3, <2>4, <2>5, OneKeeps
<1> QED BY <1>4, <1>5

(* Down a walk, step by step. *)
LEMMA DownTheWalk ==
    ASSUME NEW S, NEW j \in Nat, j \in S, \A k \in 2 .. j : k \in S => k - 1 \in S
    PROVE  \A i \in 1 .. j : i \in S
<1> SUFFICES ASSUME NEW i \in 1 .. j, i \notin S PROVE FALSE
  OBVIOUS
<1> DEFINE T == {k \in 1 .. j : k \notin S}
<1>1. T \subseteq Int /\ T # {} /\ j \in Int /\ \A m \in T : m <= j
  OBVIOUS
<1>2. PICK k \in T : \A m \in T : k >= m
  <2> HIDE DEF T
  <2> QED BY <1>1, GreatestInt
<1>3. k \in 1 .. j /\ k # j
  OBVIOUS
<1>4. k + 1 \in 2 .. j /\ k + 1 - 1 = k /\ ~(k >= k + 1)
  BY <1>3
<1>5. k + 1 \in S
  BY <1>2, <1>4
<1> QED BY <1>4, <1>5

(* What was given to the memory reaches down a path. *)
LEMMA GivenBelow ==
    ASSUME NEW rank, NEW F, NEW L, NEW C, NEW given, Sound(rank, F, L, C, given),
           NEW s \in Stores, LinesOf(s) \subseteq L, Keyed(s.nodes),
           NEW P, P = activePathIDs(s.nodes, s.head), NEW j \in 1 .. Len(P), P[j] \in F, P[j] > 0
    PROVE  \A i \in 1 .. j : P[i] > 0 => P[i] \in F /\ s.nodes[P[i]].holds \subseteq given
<1>1. s.nodes \in NodeMaps /\ DOMAIN s.nodes \subseteq Ident
  BY NodeMap DEF Stores
<1>2. Ranked(rank) /\ Rooted(rank, s.nodes)
  BY PartIsRooted
<1>3. \A i \in 2 .. Len(P) : P[i] > 0 /\ P[i - 1] = s.nodes[P[i]].parent
  BY <1>1, <1>2, PathIsLinked
<1>4. Len(P) \in Nat /\ \A i \in 1 .. Len(P) : P[i] \in DOMAIN s.nodes
  BY <1>1, ViewShows
<1>5. \A i \in 1 .. Len(P) : /\ s.nodes[P[i]] \in Declaring(L) /\ s.nodes[P[i]].id = P[i]
                             /\ P[i] \in Declared(L)
  <2> TAKE i \in 1 .. Len(P)
  <2>1. s.nodes[P[i]] \in Declaring(LinesOf(s))
    BY <1>4, StoreLines
  <2>2. s.nodes[P[i]] \in Declaring(L)
    BY <2>1 DEF Declaring
  <2>3. s.nodes[P[i]].id = P[i]
    BY <1>4 DEF Keyed
  <2> QED BY <2>2, <2>3 DEF Declared
<1>6. PICK S : S = {i \in 1 .. Len(P) : P[i] > 0 => P[i] \in F}
  OBVIOUS
<1>7. \A k \in 2 .. j : k \in S => k - 1 \in S
  <2> TAKE k \in 2 .. j
  <2> HAVE k \in S
  <2>1. k \in 2 .. Len(P) /\ k \in 1 .. Len(P) /\ k - 1 \in 1 .. Len(P)
    BY <1>4
  <2>2. P[k] > 0 /\ P[k] \in F /\ P[k - 1] = s.nodes[P[k]].parent
    BY <1>3, <1>6, <2>1
  <2>3. P[k - 1] <= 0 \/ P[k - 1] \in F
    BY <1>5, <2>1, <2>2 DEF Sound, Consumed
  <2>4. P[k - 1] \in Int
    BY <1>1, <1>4, <2>1, Identifiers
  <2> QED BY <1>6, <2>1, <2>3, <2>4
<1>8. j \in Nat /\ j \in S
  BY <1>4, <1>6
<1>9. \A i \in 1 .. j : i \in S
  BY <1>7, <1>8, DownTheWalk
<1>10. \A i \in 1 .. j : i \in 1 .. Len(P)
  BY <1>4
<1> QED BY <1>5, <1>6, <1>9, <1>10 DEF Sound, Consumed

(* What is pending: all messages of the view, or those behind the cursor.  *)
LEMMA PendingShape ==
    ASSUME TypeInv, PendingAfterCursor # <<>>, NEW view, view = ActiveView
    PROVE  /\ \E i \in DOMAIN view : /\ view[i].id > 0
                                     /\ PendingAfterCursor[Len(PendingAfterCursor)].id = view[i].id
           /\ \A i \in DOMAIN view : view[i].id > 0 =>
                \/ view[i].holds \subseteq Content(PendingAfterCursor)
                \/ \E j \in DOMAIN view : i <= j /\ view[j].id = store.cursor /\ view[j].id > 0
<1>1. view \in Seq(Messages) /\ DOMAIN view = 1 .. Len(view) /\ Len(view) \in Nat
  BY ViewsAreTyped DEF TypeInv
<1>2. PICK places \in SUBSET DOMAIN view : places = {i \in DOMAIN view : view[i].id > 0}
  OBVIOUS
<1>3. PICK real \in Seq(Messages) : real = At(view, places)
  BY <1>1, AtIsTyped
<1>a. \E n \in Nat : \E at \in [1 .. n -> places] :
             /\ At(view, places) \in Seq(Messages) /\ Len(At(view, places)) = n
             /\ \A k \in 1 .. n : At(view, places)[k] = view[at[k]]
             /\ \A k, l \in 1 .. n : at[k] <= at[l] => k <= l
             /\ \A i \in places : \E k \in 1 .. n : at[k] = i
  <2>1. view \in Seq(Messages)
    BY <1>1
  <2>2. places \in SUBSET DOMAIN view
    OBVIOUS
  <2> QED BY <2>1, <2>2, AtPicks
<1>4. PICK n \in Nat : \E at \in [1 .. n -> places] :
             /\ Len(real) = n
             /\ \A k \in 1 .. n : real[k] = view[at[k]]
             /\ \A k, l \in 1 .. n : at[k] <= at[l] => k <= l
             /\ \A i \in places : \E k \in 1 .. n : at[k] = i
  BY <1>a, <1>3, Zenon
<1>5. PICK at \in [1 .. n -> places] :
             /\ Len(real) = n
             /\ \A k \in 1 .. n : real[k] = view[at[k]]
             /\ \A k, l \in 1 .. n : at[k] <= at[l] => k <= l
             /\ \A i \in places : \E k \in 1 .. n : at[k] = i
  BY <1>4
<1>6. DOMAIN real = 1 .. n
  BY <1>5
<1>7. PICK ids : ids = [i \in DOMAIN real |-> real[i].id]
  OBVIOUS
<1>8. ids \in Seq(Ident) /\ Len(ids) = n
  <2>1. \A i \in DOMAIN real : real[i].id \in Ident
    BY MessagesAreTyped, ElementOfSeq
  <2> QED BY <1>5, <1>7, <2>1
<1>9. PICK c \in 0 .. n : c = IndexOf(ids, store.cursor) /\ (c # 0 => c \in 1 .. n /\ ids[c] = store.cursor)
  BY <1>8, IndexIsTyped, IndexIsPlace
<1>10. c \in Nat /\ c <= n
  OBVIOUS
<1>11. PICK pending \in Seq(Messages) : pending = SubSeq(real, c + 1, Len(real)) /\ Len(pending) = n - c
  <2>1. c \in Nat /\ c <= Len(real)
    BY <1>5, <1>10
  <2>2. SubSeq(real, c + 1, Len(real)) \in Seq(Messages) /\ Len(SubSeq(real, c + 1, Len(real))) = Len(real) - c
    BY <2>1, SubSeqIsTyped
  <2> QED BY <1>5, <2>2
<1>12. PendingAfterCursor = pending
  BY <1>2, <1>3, <1>7, <1>9, <1>11 DEF PendingAfterCursor
<1>13. \A i \in 1 .. n - c : pending[i] = real[c + i]
  BY <1>5, <1>10, <1>11, SubSeqShape
<1>14. DOMAIN pending = 1 .. n - c /\ n - c \in 1 .. n - c /\ n \in 1 .. n /\ c + (n - c) = n
  BY <1>10, <1>11, <1>12
<1>15. /\ at[n] \in DOMAIN view /\ view[at[n]].id > 0
       /\ pending[Len(pending)].id = view[at[n]].id
  BY <1>2, <1>5, <1>11, <1>13, <1>14
<1>16. ASSUME NEW i \in DOMAIN view, view[i].id > 0
       PROVE  \/ view[i].holds \subseteq Content(pending)
              \/ \E j \in DOMAIN view : i <= j /\ view[j].id = store.cursor /\ view[j].id > 0
  <2>1. PICK k \in 1 .. n : at[k] = i
    BY <1>2, <1>5, <1>16
  <2>2. CASE k > c
    <3>1. k - c \in 1 .. n - c /\ c + (k - c) = k
      BY <1>10, <2>2
    <3>2. pending[k - c] = view[i]
      BY <1>5, <1>13, <2>1, <3>1
    <3> QED BY <1>14, <3>1, <3>2 DEF Content
  <2>3. CASE ~(k > c)
    <3>1. c # 0 /\ c \in 1 .. n /\ k <= c
      BY <1>10, <2>3
    <3>2. at[c] \in DOMAIN view /\ at[k] \in DOMAIN view /\ view[at[c]].id > 0 /\ view[at[c]].id = store.cursor
      BY <1>2, <1>5, <1>6, <1>7, <1>9, <3>1
    <3>3. i <= at[c]
      <4>1. CASE at[c] <= at[k]
        <5>1. c <= k
          BY <1>5, <3>1, <4>1
        <5>2. c = k
          BY <3>1, <5>1
        <5> QED BY <1>1, <2>1, <5>2
      <4>2. CASE ~(at[c] <= at[k])
        BY <1>1, <2>1, <3>2, <4>2
      <4> QED BY <4>1, <4>2
    <3> QED BY <3>2, <3>3
  <2> QED BY <2>2, <2>3
<1> QED BY <1>12, <1>15, <1>16

(* The messages that a view shows. *)
Shown(view) == {view[i].id : i \in {j \in DOMAIN view : view[j].id > 0}}

(* What is pending goes to the memory: then the memory has been given all  *)
(* messages of the view.                                                   *)
LEMMA FedGrows ==
    ASSUME TypeInv, CursorInv, todo = <<>>, PendingAfterCursor # <<>>,
           NEW rank, NEW F, Sound(rank, F, Said, Coming, fed), NEW given, given = fed \cup Content(PendingAfterCursor),
           NEW view, view = ActiveView
    PROVE  Sound(rank, F \cup Shown(view), Said, Coming, given)
<1>0. PICK E : E = Shown(view)
  OBVIOUS
<1>1. store \in Stores /\ LinesOf(store) \subseteq Said /\ Keyed(store.nodes) /\ store.nodes \in NodeMaps
      /\ DOMAIN store.nodes \subseteq Ident
  BY NodeMap DEF TypeInv, MemoryTyped, CursorInv, Books, Said, Stores
<1>2. PICK P : P = activePathIDs(store.nodes, store.head)
  OBVIOUS
<1>3. /\ DOMAIN view = 1 .. Len(P) /\ Len(P) \in Nat
      /\ \A i \in 1 .. Len(P) : P[i] \in DOMAIN store.nodes /\ view[i].id = store.nodes[P[i]].id
                                /\ view[i].holds = store.nodes[P[i]].holds
  BY <1>1, <1>2, ViewShows DEF ActiveView
<1>4. \A i \in 1 .. Len(P) : view[i].id = P[i] /\ P[i] \in Ident
  BY <1>1, <1>3 DEF Keyed
<1>5. Ranked(rank) /\ Rooted(rank, store.nodes)
  BY <1>1, PartIsRooted
<1>6. /\ \A i \in 2 .. Len(P) : P[i] > 0 /\ P[i - 1] = store.nodes[P[i]].parent
      /\ P # <<>> => ~hasID(store.nodes, store.nodes[P[1]].parent)
  BY <1>1, <1>2, <1>5, PathIsLinked
<1>7. \A x \in E : \E i \in 1 .. Len(P) : x = P[i] /\ P[i] > 0 /\ view[i].id > 0
  BY <1>0, <1>3, <1>4 DEF Shown
<1>8. \A i \in 1 .. Len(P) : P[i] > 0 => P[i] \in E
  BY <1>0, <1>3, <1>4 DEF Shown
<1>9. ASSUME NEW l \in Declaring(Said), l.id > 0, l.id \in E
      PROVE  l.holds \subseteq given /\ (l.parent <= 0 \/ l.parent \in F \cup E \/ l.parent \notin Declared(Said))
  <2>1. PICK i \in 1 .. Len(P) : l.id = P[i] /\ P[i] > 0 /\ view[i].id > 0
    BY <1>7, <1>9
  <2>2. store.nodes[P[i]] \in LinesOf(store) /\ store.nodes[P[i]] \in Declaring(Said) /\ store.nodes[P[i]].kind = "node"
    <3>1. store.nodes[P[i]] \in Declaring(LinesOf(store))
      BY <1>1, <1>3, StoreLines
    <3> QED BY <1>1, <3>1 DEF Declaring
  <2>3. l = store.nodes[P[i]]
    <3>1. store.nodes[P[i]].id = P[i]
      BY <1>1, <1>3 DEF Keyed
    <3> QED BY <1>9, <2>1, <2>2, <3>1 DEF Sound, Unique
  <2>4. l.holds \subseteq given
    <3>1. CASE view[i].holds \subseteq Content(PendingAfterCursor)
      BY <1>3, <2>1, <2>3, <3>1
    <3>2. CASE \E j \in DOMAIN view : i <= j /\ view[j].id = store.cursor /\ view[j].id > 0
      <4>1. PICK j \in 1 .. Len(P) : i <= j /\ P[j] = store.cursor /\ P[j] > 0
        BY <1>3, <1>4, <3>2
      <4>2. P[j] \in F
        <5>1. Mark("cursor", store.cursor) \in Said
          BY DEF Said, LinesOf
        <5> QED BY <4>1, <5>1 DEF Sound, Consumed, Mark
      <4>3. \A k \in 1 .. j : P[k] > 0 => P[k] \in F /\ store.nodes[P[k]].holds \subseteq fed
        BY <1>1, <1>2, <4>1, <4>2, GivenBelow
      <4>4. i \in 1 .. j
        BY <1>3, <4>1
      <4> QED BY <2>1, <2>3, <4>3, <4>4
    <3> QED BY <1>3, <2>1, <3>1, <3>2, PendingShape
  <2>5. CASE i = 1
    <3>1. l.parent \notin DOMAIN store.nodes
      <4>1. P # <<>>
        BY <2>1
      <4> QED BY <1>6, <2>3, <2>5, <4>1 DEF hasID
    <3>2. Anchored(l, DOMAIN store.nodes, Declared(Said))
      BY <2>2, <2>3 DEF CursorInv, Closed
    <3> QED BY <2>2, <2>3, <2>4, <3>1, <3>2 DEF Anchored
  <2>6. CASE i # 1
    <3>1. i \in 2 .. Len(P) /\ i - 1 \in 1 .. Len(P)
      BY <1>3, <2>6
    <3>2. l.parent = P[i - 1] /\ P[i - 1] \in Int
      BY <1>4, <1>6, <2>3, <3>1, Identifiers
    <3>3. P[i - 1] <= 0 \/ P[i - 1] \in E
      BY <1>8, <3>1, <3>2
    <3> QED BY <2>4, <3>2, <3>3
  <2> QED BY <2>5, <2>6
<1>10. \A i \in Coming : i \notin E
  <2>1. \A i \in Coming : i \notin DOMAIN store.nodes
    BY ComingIsNew
  <2> QED BY <1>3, <1>7, <2>1
<1> QED BY <1>0, <1>9, <1>10 DEF Sound, Unnamed, Consumed

(* So a consolidation keeps the invariant.                                 *)
LEMMA ConsolidateKeeps ==
    ASSUME TypeInv, TypeInv', CursorInv, NEW then \in {"cursor", "consolidate"}, Consolidate(then)
    PROVE  CursorInv'
<1>1. /\ stage = "idle" /\ stage' = then /\ UNCHANGED <<file, before, store, conv, hist, next>>
      /\ \/ /\ PendingAfterCursor /= <<>> /\ fed' = fed \cup Content(PendingAfterCursor)
            /\ todo' = One(Mark("cursor", PendingAfterCursor[Len(PendingAfterCursor)].id))
         \/ UNCHANGED <<fed, todo>>
  BY DEF Consolidate, DiskSame, StoreSame
<1>2. todo = <<>>
  BY <1>1, StageNames DEF TypeInv, TodoTyped
<1>3. Coming' \subseteq Coming
  BY <1>1 DEF Coming
<1>4. CASE UNCHANGED <<fed, todo>>
  <2>1. HistInv'
    BY <1>1 DEF HistInv
  <2> QED BY <1>1, <1>3, <1>4, <2>1, QuietKeeps
<1>5. CASE /\ PendingAfterCursor /= <<>> /\ fed' = fed \cup Content(PendingAfterCursor)
           /\ todo' = One(Mark("cursor", PendingAfterCursor[Len(PendingAfterCursor)].id))
  <2>1. PICK rank, F : Sound(rank, F, Said, Coming, fed) /\ RootInv(rank)
    BY DEF CursorInv, TreeInv
  <2>2. PICK view : view = ActiveView
    OBVIOUS
  <2>3. PICK E : E = Shown(view)
    OBVIOUS
  <2>4. PICK given : given = fed \cup Content(PendingAfterCursor)
    OBVIOUS
  <2>5. Sound(rank, F \cup E, Said, Coming, given)
    BY <1>2, <1>5, <2>1, <2>2, <2>3, <2>4, FedGrows
  <2>6. Sound(rank, F \cup E, Said, Coming, fed')
    BY <1>5, <2>4, <2>5
  <2>7. PICK line \in Marks : line = Mark("cursor", PendingAfterCursor[Len(PendingAfterCursor)].id)
    BY <1>5, PendingIsTyped, LinesAreTyped
  <2>8. line.kind = "cursor" /\ line.id \in F \cup E
    <3>1. PICK i \in DOMAIN view : view[i].id > 0 /\ PendingAfterCursor[Len(PendingAfterCursor)].id = view[i].id
      BY <1>5, <2>2, PendingShape
    <3>2. view[i].id \in E
      BY <2>3, <3>1 DEF Shown
    <3> QED BY <2>7, <3>1, <3>2 DEF Mark
  <2>9. todo' = One(line)
    BY <1>5, <2>7
  <2> QED BY <1>1, <1>2, <1>3, <2>1, <2>6, <2>8, <2>9, OneKeeps
<1> QED BY <1>1, <1>4, <1>5

-----------------------------------------------------------------------------
(* Commits and folds *)

(* The marks and the head of the store are at named nodes.                 *)
LEMMA HeadIsNamed ==
    ASSUME TypeInv, CursorInv
    PROVE  /\ store.head \in Ident /\ store.head \notin Coming /\ -store.head \notin Coming
           /\ \A rank, F, given : Sound(rank, F, Said, Coming, given) /\ store.cursor > 0 => store.cursor \in F
<1>1. Mark("head", store.head) \in Said /\ Mark("cursor", store.cursor) \in Said
  BY DEF Said, LinesOf
<1>2. store.head \in Named(Said)
  BY <1>1 DEF Named, Mark
<1>3. store.head \in Ident /\ -(-store.head) = store.head
  <2>1. store.head \in Ident
    BY DEF TypeInv, MemoryTyped, Stores
  <2>2. PICK x \in Ident : x = store.head
    BY <2>1
  <2>3. -(-x) = x
    BY Identifiers
  <2> QED BY <2>2, <2>3
<1>4. \A rank, F, given : Sound(rank, F, Said, Coming, given) /\ store.cursor > 0 => store.cursor \in F
  BY <1>1 DEF Sound, Consumed, Mark
<1> QED BY <1>2, <1>3, <1>4, ComingIsNew

(* Half of a number, rounded up. *)
LEMMA Halves ==
    ASSUME NEW n \in Nat, NEW j \in 1 .. 2 * n
    PROVE  \E i \in 1 .. n : j = 2 * i - 1 \/ j = 2 * i
<1>1. j \in Nat /\ n \in Nat /\ 1 <= j /\ j <= 2 * n
  OBVIOUS
<1>2. PICK T : T = {h \in Nat : 2 * h >= j}
  OBVIOUS
<1>3. n \in T /\ T \subseteq Nat /\ T # {}
  BY <1>1, <1>2
<1>4. PICK h \in T : \A m \in T : h <= m
  BY <1>3, LeastNat
<1>5. h \in Nat /\ 2 * h >= j /\ h <= n /\ h >= 1
  BY <1>1, <1>2, <1>3, <1>4
<1>6. h - 1 \in Nat /\ h - 1 \notin T
  BY <1>3, <1>4, <1>5
<1>7. ~(2 * (h - 1) >= j)
  BY <1>2, <1>6
<1>8. h \in 1 .. n
  BY <1>1, <1>5
<1>9. PICK d \in Int : d = 2 * h /\ 2 * (h - 1) = d - 2
  BY <1>5
<1>10. d \in Int /\ d >= j /\ ~(d - 2 >= j) /\ j \in Int
  BY <1>1, <1>5, <1>7, <1>9
<1>11. j = d - 1 \/ j = d
  BY <1>10
<1> QED BY <1>8, <1>9, <1>11

(* A commit of messages, each recorded or to come, keeps the invariant.    *)
LEMMA CommitKeeps ==
    ASSUME TypeInv, TypeInv', CursorInv, todo = <<>>, UNCHANGED <<file, before, store, conv, fed>>, stage # "rewind",
           stage' = "commit", next' = next, NEW ms \in Seq(Messages), todo' = CommitItems(ms), EachOnce(ms),
           \A i \in DOMAIN ms : ms[i].id \in DOMAIN store.nodes \/ (ms[i].id \in Coming /\ ms[i].id <= next)
    PROVE  CursorInv'
<1>0. store \in Stores
  BY DEF TypeInv, MemoryTyped
<1>1. PICK items : items = todo'
  OBVIOUS
<1>2. PICK new \in Seq(Messages) : Commits(items, ms, new)
  <2>1. \E new \in Seq(Messages) : Commits(CommitItems(ms), ms, new)
    BY <1>0, CommitShape
  <2> QED BY <1>1, <2>1
<1>3. PICK n \in Nat : n = Len(new)
  OBVIOUS
<1>4. /\ DOMAIN new = 1 .. n
      /\ \A i \in 1 .. n : \E k \in DOMAIN ms : new[i] = ms[k] /\ ms[k].id \notin DOMAIN store.nodes
      /\ DOMAIN items = 1 .. 2 * n
      /\ \A i \in 1 .. n :
           /\ items[2 * i - 1] = Item(NewLine(new, i), <<>>, store.cursor)
           /\ items[2 * i] = Item(NewHead(new, i), <<NewLine(new, i), NewHead(new, i)>>, store.cursor)
  BY <1>2, <1>3 DEF Commits
<1>5. \A i, j \in 1 .. n : new[i].id = new[j].id => i = j
  BY <1>2, <1>3 DEF Commits, EachOnce
<1>6. \A i \in 1 .. n : new[i] \in Messages /\ new[i].id \in Coming /\ new[i].id <= next /\ new[i].id \in Ident
                        /\ new[i].id \in 1 .. MaxNodes
  <2> TAKE i \in 1 .. n
  <2>1. new[i] \in Messages
    BY <1>4, ElementOfSeq
  <2>2. new[i].id \in Coming /\ new[i].id <= next
    BY <1>4
  <2> QED BY <2>1, <2>2, MessagesAreTyped, ComingIsNew
<1>7. Coming' = {i \in 1 .. MaxNodes : i > next}
  BY DEF Coming
<1>8. next \in Nat
  BY Identifiers DEF TypeInv, CountsTyped
<1>9. Coming' \subseteq Coming
  BY <1>7 DEF Coming
<1>10. \A i \in 1 .. n : NewLine(new, i) \in Nodes /\ NewLine(new, i).id = new[i].id /\ NewLine(new, i).kind = "node"
                         /\ NewLine(new, i).parent = IF i = 1 THEN store.head ELSE new[i - 1].id
  <2> TAKE i \in 1 .. n
  <2>1. PICK p \in Ident : p = IF i = 1 THEN store.head ELSE new[i - 1].id
    <3>1. i # 1 => i - 1 \in 1 .. n
      BY <1>3
    <3> QED BY <1>6, <3>1, HeadIsNamed
  <2>2. PICK m \in Messages : m = new[i]
    BY <1>6
  <2>3. NewLine(new, i) = Node(m, p)
    BY <2>1, <2>2 DEF NewLine
  <2>4. Node(m, p).parent = p
    BY DEF Node
  <2> QED BY <2>1, <2>2, <2>3, <2>4, LinesAreTyped
<1>11. PICK c \in [1 .. n -> Nodes] : \A i \in 1 .. n : c[i] = NewLine(new, i)
  <2>1. [i \in 1 .. n |-> NewLine(new, i)] \in [1 .. n -> Nodes]
    BY <1>10
  <2> QED BY <2>1
<1>12. PICK b \in Ident : b = store.head
  BY HeadIsNamed
<1>13. \A i \in 1 .. n : c[i].id = new[i].id
  BY <1>10, <1>11
<1>14. Chained(c, n, b)
  <2>1. \A i \in 1 .. n : i # 1 => i - 1 \in 1 .. n
    BY <1>3
  <2> QED BY <1>5, <1>10, <1>11, <1>12, <1>13, <2>1 DEF Chained
<1>15. \A i \in 1 .. n : c[i].id \in Coming /\ c[i].id \notin Coming'
  BY <1>6, <1>7, <1>8, <1>13
<1>16. PICK G : G = {}
  OBVIOUS
<1>17. Carried(G, c, n, b, fed')
  BY <1>16 DEF Carried
<1>18. PICK rank, F : Sound(rank, F, Said, Coming, fed) /\ RootInv(rank)
  BY DEF CursorInv, TreeInv
<1>19. PICK X : X = {NewHead(new, i) : i \in 1 .. n} \cup {Mark("cursor", store.cursor)}
  OBVIOUS
<1>20. \A i \in 1 .. n : NewHead(new, i) \in Lines /\ NewHead(new, i).kind = "head" /\ NewHead(new, i).id = new[i].id
  BY <1>6, LinesAreTyped DEF NewHead, Mark
<1>21. Mark("cursor", store.cursor) \in Lines /\ Mark("cursor", store.cursor).kind = "cursor"
       /\ Mark("cursor", store.cursor).id = store.cursor
  BY <1>0, LinesAreTyped DEF Mark, Stores
<1>22. X \in SUBSET Lines
  BY <1>19, <1>20, <1>21
<1>23. Besides(X, Coming', F \cup G)
  <2>1. \A i \in 1 .. n : new[i].id \notin Coming' /\ -new[i].id \notin Coming'
    BY <1>6, <1>7, <1>8
  <2>2. store.cursor > 0 => store.cursor \in F
    BY <1>18, HeadIsNamed
  <2> QED BY <1>19, <1>20, <1>21, <2>1, <2>2 DEF Besides
<1>24. PICK Z \in SUBSET Ident : Z = {}
  OBVIOUS
<1>25. \A l \in X : /\ l.kind = "node" => l.id \in Z
                    /\ l.kind = "head" /\ stage' # "rewind" => l.id \in Z \/ \E i \in 1 .. n : l.id = c[i].id
  BY <1>13, <1>19, <1>20, <1>21
<1>26. \A j \in DOMAIN items : \E i \in 1 .. n : j = 2 * i - 1 \/ j = 2 * i
  BY <1>3, <1>4, Halves
<1>27. \A i \in 1 .. n : /\ items[2 * i - 1].line = c[i] /\ Entering(items[2 * i - 1]) = {} /\ items[2 * i - 1].cursor = store.cursor
                         /\ items[2 * i].line = NewHead(new, i) /\ Entering(items[2 * i]) = {c[i], NewHead(new, i)}
                         /\ items[2 * i].cursor = store.cursor
  <2> TAKE i \in 1 .. n
  <2>1. PICK l, h : l = NewLine(new, i) /\ h = NewHead(new, i) /\ l = c[i]
    BY <1>11
  <2>2. items[2 * i - 1] = Item(l, <<>>, store.cursor) /\ items[2 * i] = Item(h, <<l, h>>, store.cursor)
    BY <1>4, <2>1
  <2>3. /\ Item(l, <<>>, store.cursor).line = l /\ Item(l, <<>>, store.cursor).mem = <<>>
        /\ Item(l, <<>>, store.cursor).cursor = store.cursor
        /\ Item(h, <<l, h>>, store.cursor).line = h /\ Item(h, <<l, h>>, store.cursor).mem = <<l, h>>
        /\ Item(h, <<l, h>>, store.cursor).cursor = store.cursor
    BY DEF Item
  <2>4. DOMAIN <<>> = {} /\ DOMAIN <<l, h>> = {1, 2} /\ <<l, h>>[1] = l /\ <<l, h>>[2] = h
    OBVIOUS
  <2>5. Entering(items[2 * i - 1]) = {}
    BY <2>2, <2>3, <2>4 DEF Entering
  <2>6. Entering(items[2 * i]) = {l, h}
    BY <2>2, <2>3, <2>4 DEF Entering
  <2> QED BY <2>1, <2>2, <2>3, <2>5, <2>6
<1>28. Asked(items) \subseteq {c[i] : i \in 1 .. n} \cup X
  <2> SUFFICES ASSUME NEW j \in DOMAIN items,
                      NEW l \in {items[j].line, Mark("cursor", items[j].cursor)} \cup Entering(items[j])
               PROVE  l \in {c[i] : i \in 1 .. n} \cup X
    BY DEF Asked
  <2>1. PICK i \in 1 .. n : j = 2 * i - 1 \/ j = 2 * i
    BY <1>26
  <2>2. l \in {c[i], NewHead(new, i), Mark("cursor", store.cursor)}
    BY <1>27, <2>1
  <2> QED BY <1>19, <2>2
<1>29. ASSUME NEW j \in DOMAIN items, NEW l \in Entering(items[j]) PROVE Hung(l, SoFar(store, items, j))
  <2>1. PICK i \in 1 .. n : j = 2 * i /\ l \in {c[i], NewHead(new, i)}
    BY <1>26, <1>27, <1>29
  <2>2. \A k \in 1 .. i : new[k].id \in SoFar(store, items, j)
    <3> TAKE k \in 1 .. i
    <3>1. 2 * k \in 1 .. j /\ k \in 1 .. n
      BY <1>3, <2>1
    <3>2. c[k] \in Entering(items[2 * k])
      BY <1>27, <3>1
    <3>3. c[k] \in UNION {Entering(items[m]) : m \in 1 .. j}
      BY <3>1, <3>2
    <3>4. c[k].kind = "node" /\ c[k].id = new[k].id
      BY <1>10, <1>11, <1>13, <3>1
    <3> QED BY <3>3, <3>4 DEF SoFar, Declared, Declaring
  <2>3. CASE l = c[i]
    <3>1. i # 1 => i - 1 \in 1 .. i
      BY <1>3
    <3>2. l.kind = "node" /\ l.parent = IF i = 1 THEN store.head ELSE new[i - 1].id
      BY <1>10, <1>11, <2>3
    <3> QED BY <2>2, <3>1, <3>2 DEF Hung
  <2>4. CASE l = NewHead(new, i)
    <3>1. l.kind = "head" /\ l.id = new[i].id /\ i \in 1 .. i
      BY <1>3, <1>20, <2>4
    <3> QED BY <2>2, <3>1 DEF Hung
  <2> QED BY <2>1, <2>3, <2>4
<1>30. RewindAlone' /\ HistInv'
  BY DEF RewindAlone, HistInv
<1>31. Plans(rank, F, n, c, b, G, X, Z)
  <2>1. b \notin Coming /\ -b \notin Coming /\ b = store.head
    BY <1>12, HeadIsNamed
  <2>2. \A j \in DOMAIN todo' : \A l \in Entering(todo'[j]) : Hung(l, SoFar(store, todo', j))
    BY <1>1, <1>29
  <2>3. Asked(todo') \subseteq {c[i] : i \in 1 .. n} \cup X
    BY <1>1, <1>28
  <2>4. Sound(rank, F, Said, Coming, fed') /\ RootInv(rank)
    BY <1>18
  <2>5. (\A z \in Z : z < 0) /\ (conv # <<>> => \A z \in Z : rank[conv[1].id] <= rank[z])
    BY <1>24
  <2> QED BY <1>14, <1>15, <1>17, <1>23, <1>25, <2>1, <2>2, <2>3, <2>4, <2>5 DEF Plans
<1> QED BY <1>9, <1>22, <1>30, <1>31, PlanKeeps

(* The first message of the conversation ranks before all that is on the   *)
(* path, so it is the root of the path if it is there.                     *)
LEMMA PathIsBehind ==
    ASSUME TypeInv, CursorInv, todo = <<>>, stage # "rewind", conv # <<>>,
           NEW rank, NEW F, NEW given, Sound(rank, F, Said, Coming, given), RootInv(rank),
           NEW P, P = activePathIDs(store.nodes, store.head)
    PROVE  \A i \in 1 .. Len(P) : rank[conv[1].id] <= rank[P[i]] /\ (P[i] = conv[1].id => i = 1)
<1>1. store \in Stores /\ LinesOf(store) \subseteq Said /\ Keyed(store.nodes) /\ store.nodes \in NodeMaps
      /\ DOMAIN store.nodes \subseteq Ident
  BY NodeMap DEF TypeInv, MemoryTyped, CursorInv, Books, Said, Stores
<1>2. Ranked(rank) /\ Rooted(rank, store.nodes)
  BY <1>1, PartIsRooted
<1>3. \A i \in 2 .. Len(P) : P[i] > 0 /\ P[i - 1] = store.nodes[P[i]].parent
  BY <1>1, <1>2, PathIsLinked
<1>4. Len(P) \in Nat /\ \A i \in 1 .. Len(P) : P[i] \in DOMAIN store.nodes /\ P[i] \in Ident
  BY <1>1, ViewShows
<1>5. Climb(store.nodes, store.head, P)
  BY <1>1, PathClimbs
<1>6. InMemory(store, todo) = LinesOf(store)
  <2>1. DOMAIN todo = {}
    OBVIOUS
  <2> QED BY <2>1 DEF InMemory
<1>7. PICK G : Grown(G, LinesOf(store), rank, conv[1].id) /\ store.head \in G
  BY <1>6 DEF RootInv
<1>8. PICK S : S = {i \in 1 .. Len(P) : P[i] \in G}
  OBVIOUS
<1>9. CASE Len(P) = 0
  BY <1>9
<1>10. CASE Len(P) # 0
  <2>1. Len(P) \in 1 .. Len(P) /\ P # <<>>
    BY <1>4, <1>10
  <2>2. Len(P) \in S
    BY <1>5, <1>7, <1>8, <2>1 DEF Climb
  <2>3. \A k \in 2 .. Len(P) : k \in S => k - 1 \in S
    <3> TAKE k \in 2 .. Len(P)
    <3> HAVE k \in S
    <3>1. k \in 1 .. Len(P) /\ k - 1 \in 1 .. Len(P)
      BY <1>4
    <3>2. PICK l : l = store.nodes[P[k]]
      OBVIOUS
    <3>3. l \in Declaring(LinesOf(store)) /\ l.id = P[k] /\ l.parent = P[k - 1]
      BY <1>1, <1>3, <1>4, <3>1, <3>2, StoreLines DEF Keyed
    <3>4. P[k - 1] \in Declared(LinesOf(store))
      BY <1>1, <1>4, <3>1, StoreLines
    <3> QED BY <1>7, <1>8, <3>1, <3>3, <3>4 DEF Grown
  <2>4. \A i \in 1 .. Len(P) : i \in S
    BY <1>4, <2>2, <2>3, DownTheWalk
  <2>5. \A i \in 1 .. Len(P) : rank[conv[1].id] <= rank[P[i]]
    BY <1>7, <1>8, <2>4 DEF Grown
  <2>6. ASSUME NEW i \in 1 .. Len(P), P[i] = conv[1].id, i # 1 PROVE FALSE
    <3>1. i \in 2 .. Len(P) /\ i - 1 \in 1 .. Len(P)
      BY <1>4, <2>6
    <3>2. P[i] > 0 /\ P[i - 1] = store.nodes[P[i]].parent
      BY <1>3, <3>1
    <3>3. rank[P[i - 1]] < rank[P[i]]
      <4>1. store.nodes[P[i]].id = P[i]
        BY <1>1, <1>4 DEF Keyed
      <4> QED BY <1>2, <1>4, <3>2, <4>1 DEF Rooted, Linked
    <3>4. rank[P[i]] <= rank[P[i - 1]]
      BY <2>5, <2>6, <3>1
    <3>5. rank[P[i]] \in Int /\ rank[P[i - 1]] \in Int
      BY <1>2, <1>4, <3>1 DEF Ranked
    <3> QED BY <3>3, <3>4, <3>5
  <2> QED BY <2>5, <2>6
<1> QED BY <1>9, <1>10

(* The steps that plan a commit keep the invariant. *)
LEMMA CommitsKeep ==
    ASSUME TypeInv, TypeInv', CursorInv, CommitRest \/ (FinishRun /\ DetectCompact(conv, hist) = 0)
    PROVE  CursorInv'
<1>1. /\ stage \in {"run", "runCompact"} /\ todo = <<>> /\ UNCHANGED <<file, before, store, conv, fed>>
      /\ stage' = "commit" /\ next' = next
      /\ todo' = CommitItems(hist) \/ todo' = CommitItems(Tail(hist))
  <2>1. CASE CommitRest
    BY <2>1 DEF CommitRest, DiskSame, StoreSame
  <2>2. CASE FinishRun /\ DetectCompact(conv, hist) = 0
    <3>1. todo = <<>>
      BY <2>2, StageNames DEF FinishRun, TypeInv, TodoTyped
    <3>2. /\ stage = "run" /\ UNCHANGED <<file, before, store, conv, fed>>
          /\ \E k : /\ k = DetectCompact(conv, hist)
                    /\ stage' = IF k = 0 THEN "commit" ELSE stage'
                    /\ next' = IF k = 0 THEN next ELSE next'
                    /\ todo' = IF k = 0 THEN CommitItems(hist) ELSE todo'
      BY <2>2 DEF FinishRun, DiskSame, StoreSame
    <3> QED BY <2>2, <3>1, <3>2
  <2> QED BY <2>1, <2>2
<1>2. hist \in Seq(Messages) /\ hist # <<>> /\ DOMAIN hist = 1 .. Len(hist) /\ Len(hist) \in Nat
  BY <1>1 DEF TypeInv, MemoryTyped, CountsTyped
<1>3. EachOnce(hist) /\ \A i \in DOMAIN hist : hist[i].id \in DOMAIN store.nodes \/ hist[i].id \in 1 .. next
  BY <1>1 DEF CursorInv, HistInv
<1>4. \A i \in DOMAIN hist : hist[i].id \in DOMAIN store.nodes \/ (hist[i].id \in Coming /\ hist[i].id <= next)
  <2> TAKE i \in DOMAIN hist
  <2>1. hist[i].id \in Ids(hist)
    BY DEF Ids
  <2>2. next \in Nat
    BY Identifiers DEF TypeInv, CountsTyped
  <2> QED BY <1>1, <1>3, <2>1, <2>2 DEF Coming
<1>5. CASE todo' = CommitItems(hist)
  BY <1>1, <1>2, <1>3, <1>4, <1>5, CommitKeeps
<1>6. CASE todo' = CommitItems(Tail(hist))
  <2>1. PICK ms : ms = Tail(hist)
    OBVIOUS
  <2>2. /\ ms \in Seq(Messages) /\ Len(ms) = Len(hist) - 1 /\ DOMAIN ms = 1 .. Len(hist) - 1
        /\ \A i \in DOMAIN ms : i + 1 \in DOMAIN hist /\ ms[i] = hist[i + 1]
    BY <1>2, <2>1
  <2>3. EachOnce(ms)
    <3> SUFFICES ASSUME NEW i \in DOMAIN ms, NEW j \in DOMAIN ms, ms[i].id = ms[j].id PROVE i = j
      BY DEF EachOnce
    <3>1. i + 1 = j + 1
      BY <1>3, <2>2 DEF EachOnce
    <3> QED BY <2>2, <3>1
  <2>4. \A i \in DOMAIN ms : ms[i].id \in DOMAIN store.nodes \/ (ms[i].id \in Coming /\ ms[i].id <= next)
    BY <1>4, <2>2
  <2>5. todo' = CommitItems(ms) /\ ms \in Seq(Messages) /\ stage # "rewind"
    BY <1>1, <1>6, <2>1, <2>2
  <2> QED BY <1>1, <2>3, <2>4, <2>5, CommitKeeps
<1> QED BY <1>1, <1>5, <1>6

(* What a fold clones of the messages that the memory was given, up to the *)
(* clone of the one at the cursor.                                         *)
Cloned(P, t, n, c, m, b, G) ==
    /\ P = activePathIDs(store.nodes, store.head) /\ t \in 1 .. Len(P) /\ n \in Nat /\ n = Len(P) - t
    /\ \A i \in 1 .. n : c[i] = CloneLine(P, t, i)
    /\ m \in 0 .. n /\ (m # 0 => P[t + m] = store.cursor)
    /\ b <= 0 /\ G = {next + i : i \in 1 .. m}

(* They carry what the memory was given.                                   *)
LEMMA ClonesAreCarried ==
    ASSUME TypeInv, CursorInv, NEW rank, NEW F, NEW given, Sound(rank, F, Said, Coming, given),
           NEW P, NEW t, NEW n, NEW c, NEW m, NEW b, NEW G, Cloned(P, t, n, c, m, b, G)
    PROVE  Carried(G, c, n, b, given)
<1>0. /\ P = activePathIDs(store.nodes, store.head) /\ t \in 1 .. Len(P) /\ n \in Nat /\ n = Len(P) - t
      /\ \A i \in 1 .. n : c[i] = CloneLine(P, t, i)
      /\ m \in 0 .. n /\ (m # 0 => P[t + m] = store.cursor)
      /\ b <= 0 /\ G = {next + i : i \in 1 .. m}
  BY DEF Cloned
<1> USE <1>0
<1>1. store \in Stores /\ LinesOf(store) \subseteq Said /\ Keyed(store.nodes) /\ store.nodes \in NodeMaps
      /\ DOMAIN store.nodes \subseteq Ident
  BY NodeMap DEF TypeInv, MemoryTyped, CursorInv, Books, Said, Stores
<1>2. Ranked(rank) /\ Rooted(rank, store.nodes)
  BY <1>1, PartIsRooted
<1>3. \A i \in 2 .. Len(P) : P[i] > 0
  BY <1>1, <1>2, PathIsLinked
<1>4. Len(P) \in Nat /\ \A i \in 1 .. Len(P) : P[i] \in DOMAIN store.nodes /\ P[i] \in Ident
  BY <1>1, ViewShows
<1>5. next \in Nat
  BY Identifiers DEF TypeInv, CountsTyped
<1>6. \A i \in 1 .. n : /\ c[i].id = next + i /\ c[i].holds = store.nodes[P[t + i]].holds
  <2> TAKE i \in 1 .. n
  <2>1. PICK o : o = store.nodes[P[t + i]]
    OBVIOUS
  <2>2. PICK p : p = IF i = 1 THEN -P[t] ELSE next + (i - 1)
    OBVIOUS
  <2>3. c[i] = Node(Message(next + i, o.role, o.holds), p)
    BY <2>1, <2>2 DEF CloneLine
  <2> QED BY <2>1, <2>3 DEF Node, Message
<1>7. \A x \in {next + i : i \in 1 .. m} : \E i \in 1 .. n : c[i].id = x
  <2>1. \A i \in 1 .. m : i \in 1 .. n
    OBVIOUS
  <2> QED BY <1>6, <2>1
<1>8. ASSUME NEW i \in 1 .. n, c[i].id \in {next + k : k \in 1 .. m}
      PROVE  c[i].holds \subseteq given /\ (IF i = 1 THEN b <= 0 ELSE c[i - 1].id \in {next + k : k \in 1 .. m})
  <2>1. i \in 1 .. m
    <3>1. PICK k \in 1 .. m : c[i].id = next + k
      BY <1>8
    <3>2. next + i = next + k
      BY <1>6, <3>1
    <3> QED BY <1>5, <3>1, <3>2
  <2>2. t + m \in 2 .. Len(P) /\ t + m \in 1 .. Len(P) /\ m # 0
    BY <1>4, <2>1
  <2>3. P[t + m] > 0 /\ P[t + m] \in F
    BY <1>3, <2>2, HeadIsNamed
  <2>4. t + i \in 2 .. Len(P) /\ t + i \in 1 .. t + m
    BY <1>4, <2>1
  <2>5. store.nodes[P[t + i]].holds \subseteq given
    <3>1. PICK j \in 1 .. Len(P) : j = t + m
      BY <2>2
    <3>2. \A k \in 1 .. j : P[k] > 0 => P[k] \in F /\ store.nodes[P[k]].holds \subseteq given
      BY <1>1, <2>3, <3>1, GivenBelow
    <3> QED BY <1>3, <2>4, <3>1, <3>2
  <2>6. i # 1 => i - 1 \in 1 .. m /\ i - 1 \in 1 .. n
    BY <2>1
  <2> QED BY <1>3, <1>6, <2>5, <2>6
<1> QED BY <1>7, <1>8 DEF Carried

(* A fold whose range starts at the root of the path keeps the invariant.  *)
LEMMA FoldKeeps ==
    ASSUME TypeInv, TypeInv', CursorInv, todo = <<>>, UNCHANGED <<file, before, store, conv, fed>>,
           stage # "rewind", stage' # "rewind", HistInv',
           Coming' \subseteq Coming, \A i \in Coming' : i > next' \/ i <= next,
           NEW from, NEW to \in Ident, to > 0, NEW summary \in Holdings,
           NEW P, P = activePathIDs(store.nodes, store.head), \A i \in 1 .. Len(P) : P[i] = from => i = 1,
           NEW made, made = CompactItems(from, to, summary), made # <<>>,
           todo' = made, next' = next + Clones(made), next' <= MaxNodes
    PROVE  CursorInv'
<1>1. store \in Stores /\ next \in 0 .. MaxNodes /\ next \in Nat /\ LinesOf(store) \subseteq Said /\ Keyed(store.nodes)
      /\ store.nodes \in NodeMaps /\ store.cursor \in Ident /\ MaxNodes \in Nat /\ Ident \subseteq Int
  BY Identifiers DEF TypeInv, MemoryTyped, CountsTyped, CursorInv, Books, Said, Stores
<1>2. PICK f, t, cur : Compacts(made, from, to, summary, P, f, t, cur)
  BY <1>1, CompactShape
<1>3. Len(P) \in Nat /\ \A i \in 1 .. Len(P) : P[i] \in DOMAIN store.nodes /\ P[i] \in Ident
  <2>1. DOMAIN store.nodes \subseteq Ident
    BY <1>1, NodeMap
  <2> QED BY <1>1, <2>1, ViewShows
<1>a. t \in 1 .. Len(P) /\ f \in 1 .. Len(P)
  BY <1>2 DEF Compacts
<1>4. PICK n \in Nat : n = Len(P) - t
  BY <1>3, <1>a
<1>5. /\ f = 1 /\ t \in 1 .. Len(P) /\ P[t] = to /\ next + n <= MaxNodes /\ n <= Clones(made) /\ DOMAIN made = 1 .. n + 2
      /\ \/ cur \in {0, store.cursor}
         \/ t = Len(P) /\ cur = -P[t]
         \/ \E i \in 1 .. n : P[t + i] = store.cursor /\ cur = next + i
  BY <1>2, <1>4 DEF Compacts
<1>6. next + n <= next'
  <2>1. Clones(made) \in Nat
    BY <1>1, CompactIsTyped
  <2> QED BY <1>1, <1>5, <2>1
<1>7. \A i \in 1 .. n : next + i \in Coming /\ next + i \notin Coming' /\ next + i \in Ident /\ next + i > 0
  <2> TAKE i \in 1 .. n
  <2>1. next + i \in 1 .. MaxNodes /\ next + i > next /\ next' \in Int /\ next + i <= next'
    BY <1>1, <1>5, <1>6
  <2> QED BY <1>1, <2>1, Identifiers DEF Coming
<1>8. PICK b \in Ident : b = -to
  BY Identifiers
<1>9. b < 0 /\ b <= 0 /\ -b = to
  BY <1>1, <1>8
<1>10. /\ to \notin Coming /\ b \notin Coming /\ to \in DOMAIN store.nodes
  <2>1. to \in DOMAIN store.nodes
    BY <1>3, <1>5
  <2>2. \A i \in Coming : i > 0
    BY ComingIsNew
  <2> QED BY <1>1, <1>9, <2>1, <2>2, ComingIsNew
<1>11. PICK fold : fold = FoldLine(P, f, to, summary)
  OBVIOUS
<1>12. fold \in Nodes /\ fold.kind = "node" /\ fold.id = b /\ fold.parent = 0 /\ fold.role = "system" /\ fold \in Lines
  <2>1. fold = Node(Message(b, "system", summary), 0)
    BY <1>5, <1>8, <1>11 DEF FoldLine
  <2>2. Message(b, "system", summary) \in Messages /\ 0 \in Ident
    BY MessagesAreTyped, Identifiers DEF Messages, Message, Roles
  <2> QED BY <2>1, <2>2, LinesAreTyped DEF Node, Message
<1>13. \A i \in 1 .. n : /\ CloneLine(P, t, i) \in Nodes /\ CloneLine(P, t, i).kind = "node" /\ CloneLine(P, t, i).id = next + i
                         /\ CloneLine(P, t, i).parent = IF i = 1 THEN b ELSE next + (i - 1)
  <2> TAKE i \in 1 .. n
  <2>1. t + i \in 1 .. Len(P)
    BY <1>3, <1>4, <1>5
  <2>2. PICK o \in Nodes : o = store.nodes[P[t + i]]
    BY <1>1, <1>3, <2>1, NodeMap
  <2>3. PICK p \in Ident : p = IF i = 1 THEN b ELSE next + (i - 1)
    <3>1. i # 1 => i - 1 \in 1 .. n
      OBVIOUS
    <3> QED BY <1>7, <3>1
  <2>4. CloneLine(P, t, i) = Node(Message(next + i, o.role, o.holds), p)
    BY <1>5, <1>8, <2>2, <2>3 DEF CloneLine
  <2>5. Message(next + i, o.role, o.holds) \in Messages
    BY <1>7, <2>2 DEF Nodes, Messages, Message
  <2> QED BY <2>3, <2>4, <2>5, LinesAreTyped DEF Node, Message
<1>14. PICK c \in [1 .. n -> Nodes] : \A i \in 1 .. n : c[i] = CloneLine(P, t, i)
  <2>1. [i \in 1 .. n |-> CloneLine(P, t, i)] \in [1 .. n -> Nodes]
    BY <1>13
  <2> QED BY <2>1
<1>15. \A i \in 1 .. n : c[i].kind = "node" /\ c[i].id = next + i /\ c[i].parent = IF i = 1 THEN b ELSE next + (i - 1)
  BY <1>13, <1>14
<1>16. Chained(c, n, b)
  <2>1. \A i \in 1 .. n : i # 1 => i - 1 \in 1 .. n
    OBVIOUS
  <2>2. \A i, j \in 1 .. n : next + i = next + j => i = j
    BY <1>1
  <2> QED BY <1>15, <2>1, <2>2 DEF Chained
<1>17. PICK rank, F : Sound(rank, F, Said, Coming, fed) /\ RootInv(rank)
  BY DEF CursorInv, TreeInv
<1>18. PICK m \in 0 .. n : /\ m # 0 => P[t + m] = store.cursor /\ cur = next + m
                           /\ m = 0 => cur <= 0 \/ cur = store.cursor
  <2>1. CASE cur \in {0, store.cursor} \/ (t = Len(P) /\ cur = -P[t])
    <3>1. cur <= 0 \/ cur = store.cursor
      BY <1>5, <1>8, <1>9, <2>1
    <3> QED BY <3>1
  <2>2. CASE \E i \in 1 .. n : P[t + i] = store.cursor /\ cur = next + i
    <3>1. PICK i \in 1 .. n : P[t + i] = store.cursor /\ cur = next + i
      BY <2>2
    <3>2. i \in 0 .. n /\ i # 0
      OBVIOUS
    <3> QED BY <3>1, <3>2
  <2> QED BY <1>5, <2>1, <2>2
<1>19. PICK G : G = {next + i : i \in 1 .. m}
  OBVIOUS
<1>20. Carried(G, c, n, b, fed')
  <2>1. PICK given : given = fed /\ given = fed'
    OBVIOUS
  <2>2. Sound(rank, F, Said, Coming, given) /\ (m # 0 => P[t + m] = store.cursor)
    BY <1>17, <1>18, <2>1
  <2>3. m \in 0 .. n /\ n \in Nat /\ n = Len(P) - t /\ t \in 1 .. Len(P) /\ b <= 0
    BY <1>4, <1>5, <1>9, <1>18
  <2>5. Cloned(P, t, n, c, m, b, G)
    BY <1>14, <1>19, <2>2, <2>3 DEF Cloned
  <2>4. Carried(G, c, n, b, given)
    BY <2>2, <2>5, ClonesAreCarried
  <2> QED BY <2>1, <2>4
<1>21. PICK move : move = FoldMove(P, t)
  OBVIOUS
<1>22. /\ move \in Marks /\ move \in Lines /\ move.kind = "head" /\ move.id \notin Coming' /\ -move.id \notin Coming'
       /\ (n = 0 => move.id = b) /\ (n # 0 => n \in 1 .. n /\ move.id = c[n].id /\ move.id = next + n)
  <2>1. PICK x : x = LastClone(P, t)
    OBVIOUS
  <2>2. x \in Ident /\ x \notin Coming' /\ -x \notin Coming' /\ (n = 0 => x = b) /\ (n # 0 => n \in 1 .. n /\ x = next + n)
    <3>1. CASE n = 0
      <4>1. t = Len(P)
        BY <1>3, <1>4, <1>5, <3>1
      <4>2. x = b
        BY <1>5, <1>8, <2>1, <4>1 DEF LastClone
      <4> QED BY <1>9, <1>10, <3>1, <4>2
    <3>2. CASE n # 0
      <4>1. t # Len(P) /\ n \in 1 .. n
        BY <1>3, <1>4, <1>5, <3>2
      <4>2. x = next + n
        BY <1>4, <2>1, <4>1 DEF LastClone
      <4>3. x \in Ident /\ x \notin Coming' /\ x > 0
        BY <1>7, <4>1, <4>2
      <4>4. -x < 0
        BY <1>1, <4>3
      <4>5. \A i \in Coming : i > 0
        BY ComingIsNew
      <4>6. -x \notin Coming
        BY <1>1, <4>3, <4>4, <4>5
      <4> QED BY <3>2, <4>1, <4>2, <4>3, <4>6
    <3> QED BY <3>1, <3>2
  <2>3. move = Mark("head", x)
    BY <1>21, <2>1 DEF FoldMove
  <2>4. move.kind = "head" /\ move.id = x
    BY <2>3 DEF Mark
  <2> QED BY <1>15, <2>2, <2>3, <2>4, LinesAreTyped
<1>23. PICK old, new : old = Mark("cursor", store.cursor) /\ new = Mark("cursor", cur)
  OBVIOUS
<1>24. cur \in Ident
  <2>1. 0 \in Ident /\ -P[t] \in Ident
    BY <1>5, Identifiers
  <2> QED BY <1>1, <1>5, <1>7, <2>1
<1>25. /\ old \in Lines /\ old.kind = "cursor" /\ old.id = store.cursor
       /\ new \in Lines /\ new.kind = "cursor" /\ new.id = cur
  BY <1>1, <1>23, <1>24, LinesAreTyped DEF Mark
<1>26. PICK X \in SUBSET Lines : X = {fold, move, old, new}
  BY <1>12, <1>22, <1>25
<1>27. Besides(X, Coming', F \cup G)
  <2>1. store.cursor > 0 => store.cursor \in F
    BY <1>17, HeadIsNamed
  <2>2. cur > 0 => cur \in F \cup G
    <3>1. CASE m = 0
      <4>1. cur <= 0 \/ cur = store.cursor
        BY <1>18, <3>1
      <4>2. cur \in Int
        BY <1>1, <1>24
      <4> QED BY <2>1, <4>1, <4>2
    <3>2. CASE m # 0
      <4>1. m \in 1 .. m
        BY <3>2
      <4> QED BY <1>18, <1>19, <3>2, <4>1
    <3> QED BY <3>1, <3>2
  <2>3. fold.id \notin Coming' /\ -fold.id \notin Coming'
    BY <1>9, <1>10, <1>12
  <2>4. fold.id < 0
    BY <1>9, <1>12
  <2> QED BY <1>12, <1>22, <1>25, <1>26, <2>1, <2>2, <2>3, <2>4 DEF Besides
<1>28. PICK Z \in SUBSET Ident : Z = {b}
  OBVIOUS
<1>29. \A l \in X : /\ l.kind = "node" => l.id \in Z
                    /\ l.kind = "head" /\ stage' # "rewind" => l.id \in Z \/ \E i \in 1 .. n : l.id = c[i].id
  BY <1>12, <1>22, <1>25, <1>26, <1>28
<1>30. conv # <<>> => \A z \in Z : rank[conv[1].id] <= rank[z]
  <2> SUFFICES ASSUME conv # <<>> PROVE rank[conv[1].id] <= rank[b]
    BY <1>28
  <2>1. PICK given : given = fed
    OBVIOUS
  <2>2. Sound(rank, F, Said, Coming, given)
    BY <1>17, <2>1
  <2>3. rank[conv[1].id] <= rank[P[t]]
    BY <1>5, <1>17, <2>2, PathIsBehind
  <2>4. rank[to] < rank[b] /\ rank[to] \in Int /\ rank[b] \in Int
    <3>1. to \in 1 .. MaxNodes
      BY <1>1 DEF Ident
    <3> QED BY <1>8, <1>17, <3>1 DEF Sound, Ranked
  <2>5. rank[conv[1].id] \in Int
    <3>1. conv \in Seq(Messages)
      BY DEF TypeInv, MemoryTyped
    <3>2. 1 \in DOMAIN conv
      BY <3>1
    <3>3. conv[1] \in Messages
      BY <3>1, <3>2, ElementOfSeq
    <3>4. conv[1].id \in Ident
      BY <3>3, MessagesAreTyped
    <3> QED BY <1>17, <3>4 DEF Sound, Ranked
  <2> QED BY <1>5, <2>3, <2>4, <2>5
<1>31. /\ made[1].line = fold /\ Entering(made[1]) = {fold} /\ made[1].cursor = store.cursor
       /\ \A i \in 1 .. n : made[i + 1].line = c[i] /\ Entering(made[i + 1]) = {c[i]} /\ made[i + 1].cursor = store.cursor
       /\ made[n + 2].line = move /\ Entering(made[n + 2]) = {move} /\ made[n + 2].cursor = cur
  <2>1. \A l, x : /\ Item(l, <<l>>, x).line = l /\ Item(l, <<l>>, x).cursor = x
                  /\ Entering(Item(l, <<l>>, x)) = {l}
    <3> TAKE l, x
    <3>1. Item(l, <<l>>, x).line = l /\ Item(l, <<l>>, x).cursor = x /\ Item(l, <<l>>, x).mem = <<l>>
      BY DEF Item
    <3>2. DOMAIN <<l>> = {1} /\ <<l>>[1] = l
      OBVIOUS
    <3> QED BY <3>1, <3>2 DEF Entering
  <2>2. made[1] = Item(fold, <<fold>>, store.cursor)
    BY <1>2, <1>11 DEF Compacts
  <2>3. \A i \in 1 .. n : made[i + 1] = Item(c[i], <<c[i]>>, store.cursor)
    BY <1>2, <1>4, <1>14 DEF Compacts
  <2>4. made[n + 2] = Item(move, <<move>>, cur)
    BY <1>2, <1>4, <1>21 DEF Compacts
  <2>5. made[1].line = fold /\ Entering(made[1]) = {fold} /\ made[1].cursor = store.cursor
    BY <2>1, <2>2
  <2>6. ASSUME NEW i \in 1 .. n
        PROVE  made[i + 1].line = c[i] /\ Entering(made[i + 1]) = {c[i]} /\ made[i + 1].cursor = store.cursor
    <3>1. PICK l, it : l = c[i] /\ it = made[i + 1] /\ it = Item(l, <<l>>, store.cursor)
      BY <2>3
    <3> QED BY <2>1, <3>1
  <2>7. made[n + 2].line = move /\ Entering(made[n + 2]) = {move} /\ made[n + 2].cursor = cur
    BY <2>1, <2>4
  <2> QED BY <2>5, <2>6, <2>7
<1>32. \A j \in DOMAIN made : j = 1 \/ j = n + 2 \/ \E i \in 1 .. n : j = i + 1
  <2> TAKE j \in DOMAIN made
  <2>1. j \in 1 .. n + 2
    BY <1>5
  <2>2. j # 1 /\ j # n + 2 => j - 1 \in 1 .. n /\ j = (j - 1) + 1
    BY <2>1
  <2> QED BY <2>2
<1>33. Asked(made) \subseteq {c[i] : i \in 1 .. n} \cup X
  <2> SUFFICES ASSUME NEW j \in DOMAIN made,
                      NEW l \in {made[j].line, Mark("cursor", made[j].cursor)} \cup Entering(made[j])
               PROVE  l \in {c[i] : i \in 1 .. n} \cup X
    BY DEF Asked
  <2>1. CASE j = 1
    BY <1>23, <1>26, <1>31, <2>1
  <2>2. CASE j = n + 2
    BY <1>23, <1>26, <1>31, <2>2
  <2>3. CASE \E i \in 1 .. n : j = i + 1
    <3>1. PICK i \in 1 .. n : j = i + 1
      BY <2>3
    <3>2. made[j].line = c[i] /\ Entering(made[j]) = {c[i]} /\ made[j].cursor = store.cursor
      BY <1>31, <3>1
    <3> QED BY <1>23, <1>26, <3>2
  <2> QED BY <1>32, <2>1, <2>2, <2>3
<1>34. \A i \in 1 .. n : \A j \in DOMAIN made : i + 1 <= j => next + i \in SoFar(store, made, j)
  <2> TAKE i \in 1 .. n
  <2> TAKE j \in DOMAIN made
  <2> HAVE i + 1 <= j
  <2>1. i + 1 \in 1 .. j
    BY <1>5
  <2>2. c[i] \in Entering(made[i + 1])
    BY <1>31
  <2>3. c[i] \in UNION {Entering(made[k]) : k \in 1 .. j}
    BY <2>1, <2>2
  <2> QED BY <1>15, <2>3 DEF SoFar, Declared, Declaring
<1>35. ASSUME NEW j \in DOMAIN made, NEW l \in Entering(made[j]) PROVE Hung(l, SoFar(store, made, j))
  <2>1. CASE j = 1
    <3>1. l.kind = "node" /\ l.parent = 0
      BY <1>12, <1>31, <1>35, <2>1
    <3> QED BY <3>1 DEF Hung
  <2>2. CASE j = n + 2
    <3>1. l = move
      BY <1>31, <1>35, <2>2
    <3>2. CASE n = 0
      BY <1>9, <1>22, <3>1, <3>2 DEF Hung
    <3>3. CASE n # 0
      <4>1. n \in 1 .. n /\ n + 1 <= j
        BY <2>2, <3>3
      <4>2. next + n \in SoFar(store, made, j)
        BY <1>34, <4>1
      <4> QED BY <1>22, <3>1, <3>3, <4>2 DEF Hung
    <3> QED BY <3>2, <3>3
  <2>3. CASE \E i \in 1 .. n : j = i + 1
    <3>1. PICK i \in 1 .. n : j = i + 1
      BY <2>3
    <3>2. l = c[i] /\ l.kind = "node" /\ l.parent = IF i = 1 THEN b ELSE next + (i - 1)
      <4>1. Entering(made[j]) = {c[i]}
        BY <1>31, <3>1
      <4> QED BY <1>15, <1>35, <4>1
    <3>3. CASE i = 1
      BY <1>9, <3>2, <3>3 DEF Hung
    <3>4. CASE i # 1
      <4>1. i - 1 \in 1 .. n /\ (i - 1) + 1 <= j
        BY <3>1, <3>4
      <4>2. next + (i - 1) \in SoFar(store, made, j)
        BY <1>34, <4>1
      <4> QED BY <3>2, <3>4, <4>2 DEF Hung
    <3> QED BY <3>3, <3>4
  <2> QED BY <1>32, <2>1, <2>2, <2>3
<1>36. RewindAlone'
  BY DEF RewindAlone
<1>37. Plans(rank, F, n, c, b, G, X, Z)
  <2>1. b \notin Coming /\ -b \notin Coming
    BY <1>9, <1>10
  <2>2. \A j \in DOMAIN todo' : \A l \in Entering(todo'[j]) : Hung(l, SoFar(store, todo', j))
    BY <1>35
  <2>3. Asked(todo') \subseteq {c[i] : i \in 1 .. n} \cup X
    BY <1>33
  <2>4. Sound(rank, F, Said, Coming, fed') /\ RootInv(rank)
    BY <1>17
  <2>5. (\A z \in Z : z < 0) /\ b \in Z
    BY <1>9, <1>28
  <2>6. \A i \in 1 .. n : c[i].id \in Coming /\ c[i].id \notin Coming'
    BY <1>7, <1>15
  <2> QED BY <1>16, <1>20, <1>27, <1>29, <1>30, <2>1, <2>2, <2>3, <2>4, <2>5, <2>6 DEF Plans
<1> QED BY <1>36, <1>37, PlanKeeps

(* The fold that ends a run keeps the invariant.                           *)
LEMMA RunFolds ==
    ASSUME TypeInv, TypeInv', CursorInv, FinishRun, DetectCompact(conv, hist) # 0
    PROVE  CursorInv'
<1>1. PICK k : k = DetectCompact(conv, hist)
  OBVIOUS
<1>2. PICK from, to, summary : from = conv[1].id /\ to = conv[k].id /\ summary = hist[1].holds
  OBVIOUS
<1>3. PICK made : made = CompactItems(from, to, summary)
  OBVIOUS
<1>4. /\ stage = "run" /\ todo' = made /\ next' = next + Clones(made) /\ next' <= MaxNodes
      /\ stage' = IF made = <<>> THEN "failed" ELSE "runCompact"
      /\ UNCHANGED <<conv, hist, fed, file, before, store>>
  <2>1. DetectCompact(conv, hist) # 0 /\ k # 0
    BY <1>1
  <2>2. made = CompactItems(conv[1].id, conv[k].id, hist[1].holds)
    BY <1>2, <1>3
  <2>3. next' = next + Clones(made) /\ next + Clones(made) <= MaxNodes /\ todo' = made
        /\ stage' = IF made = <<>> THEN "failed" ELSE "runCompact"
    BY <1>1, <2>1, <2>2 DEF FinishRun
  <2> QED BY <2>3 DEF FinishRun, DiskSame, StoreSame
<1>5. todo = <<>>
  BY <1>4, StageNames DEF TypeInv, TodoTyped
<1>6. conv \in Seq(Messages) /\ hist \in Seq(Messages) /\ hist # <<>> /\ store \in Stores /\ next \in 0 .. MaxNodes
      /\ next \in Nat /\ MaxNodes \in Nat /\ Ident \subseteq Int
  BY <1>4, Identifiers DEF TypeInv, MemoryTyped, CountsTyped
<1>7. /\ k \in 1 .. Len(conv) /\ \A i \in 1 .. k : conv[i].id \notin Ids(hist)
  BY <1>1, <1>6, DetectShape
<1>8. conv # <<>> /\ 1 \in DOMAIN conv /\ k \in DOMAIN conv /\ 1 \in 1 .. k /\ 1 \in DOMAIN hist
  BY <1>6, <1>7
<1>9. conv[k] \in Messages /\ hist[1] \in Messages
  BY <1>6, <1>8, ElementOfSeq
<1>10. to \in Ident /\ summary \in Holdings
  BY <1>2, <1>9, MessagesAreTyped
<1>11. /\ EachOnce(hist) /\ \A i \in DOMAIN hist : hist[i].id \in DOMAIN store.nodes \/ hist[i].id \in 1 .. next
       /\ System(conv[1]) => hist[1] = conv[1]
  BY <1>4, <1>8 DEF CursorInv, HistInv
<1>12. ~System(conv[1])
  <2>1. hist[1].id \in Ids(hist)
    BY <1>8 DEF Ids
  <2>2. conv[1].id \notin Ids(hist)
    BY <1>7, <1>8
  <2> QED BY <1>11, <2>1, <2>2
<1>13. to > 0
  <2>1. ~(to < 0)
    BY <1>2, <1>8, <1>12 DEF CursorInv, ConvInv
  <2>2. to \in DOMAIN store.nodes
    BY <1>2, <1>8 DEF CursorInv, ConvInv, Ids
  <2>3. to # 0
    BY <2>2, ComingIsNew
  <2> QED BY <1>6, <1>10, <2>1, <2>3
<1>14. Clones(made) \in Nat
  BY <1>3, <1>6, <1>10, CompactIsTyped
<1>15. next <= next' /\ next' \in Nat
  BY <1>4, <1>6, <1>14
<1>16. CASE made = <<>>
  <2>1. stage' = "failed" /\ stage # "rewind" /\ todo' = todo
    BY <1>4, <1>5, <1>16
  <2>2. HistInv'
    BY <2>1 DEF HistInv
  <2>3. Coming' \subseteq Coming
    <3>1. Coming' = {i \in 1 .. MaxNodes : i > next'}
      BY <2>1 DEF Coming
    <3>2. \A i \in 1 .. MaxNodes : i > next' => i > next
      BY <1>6, <1>15
    <3> QED BY <3>1, <3>2 DEF Coming
  <2> QED BY <1>4, <2>1, <2>2, <2>3, QuietKeeps
<1>17. CASE made # <<>>
  <2>1. stage' = "runCompact" /\ stage # "rewind" /\ stage' # "rewind"
    BY <1>4, <1>17
  <2>2. HistInv'
    <3>1. \A i \in DOMAIN hist : hist[i].id \in DOMAIN store.nodes \/ hist[i].id \in 1 .. next'
      <4>1. \A x \in 1 .. next : x \in 1 .. next'
        BY <1>6, <1>15
      <4> QED BY <1>11, <4>1
    <3>2. hist' = hist /\ store' = store
      BY <1>4
    <3> QED BY <1>11, <2>1, <3>1, <3>2 DEF HistInv, EachOnce
  <2>3. Coming' = {i \in 1 .. MaxNodes : i > next'} \cup (Ids(hist) \ DOMAIN store.nodes)
    BY <1>4, <2>1 DEF Coming, Ids
  <2>4. Coming' \subseteq Coming
    <3>1. Ids(hist) \ DOMAIN store.nodes \subseteq Coming
      BY <1>4 DEF Coming
    <3>2. \A i \in 1 .. MaxNodes : i > next' => i > next
      BY <1>6, <1>15
    <3> QED BY <2>3, <3>1, <3>2 DEF Coming
  <2>5. \A i \in Coming' : i > next' \/ i <= next
    <3>1. \A x \in Ids(hist) : x \in DOMAIN store.nodes \/ x \in 1 .. next
      BY <1>11 DEF Ids
    <3> QED BY <2>3, <3>1
  <2>6. PICK P : P = activePathIDs(store.nodes, store.head)
    OBVIOUS
  <2>7. \A i \in 1 .. Len(P) : P[i] = from => i = 1
    <3>1. PICK rank, F : Sound(rank, F, Said, Coming, fed) /\ RootInv(rank)
      BY DEF CursorInv, TreeInv
    <3> QED BY <1>2, <1>5, <1>8, <2>1, <2>6, <3>1, PathIsBehind
  <2>8. UNCHANGED <<file, before, store, conv, fed>>
    BY <1>4
  <2> QED BY <1>3, <1>4, <1>5, <1>10, <1>13, <1>17, <2>1, <2>2, <2>4, <2>5, <2>6, <2>7, <2>8, FoldKeeps
<1> QED BY <1>16, <1>17

(* So does the fold of /compact.                                           *)
LEMMA CompressFolds ==
    ASSUME TypeInv, TypeInv', CursorInv, CompressStore
    PROVE  CursorInv'
<1>1. stage = "compress" /\ UNCHANGED <<file, before, store, conv, fed>>
  BY DEF CompressStore, DiskSame, StoreSame
<1>2. todo = <<>>
  BY <1>1, StageNames DEF TypeInv, TodoTyped
<1>3. store \in Stores /\ next \in 0 .. MaxNodes /\ next \in Nat /\ MaxNodes \in Nat /\ Ident \subseteq Int
      /\ Keyed(store.nodes) /\ store.nodes \in NodeMaps /\ LinesOf(store) \subseteq Said
  BY Identifiers DEF TypeInv, MemoryTyped, CountsTyped, CursorInv, Books, Said, Stores
<1>4. CASE stage' = "idle" /\ UNCHANGED <<todo, next>>
  <2>1. HistInv'
    BY <1>4 DEF HistInv
  <2>2. Coming' \subseteq Coming
    BY <1>4 DEF Coming
  <2> QED BY <1>1, <1>4, <2>1, <2>2, QuietKeeps
<1>5. CASE ~(stage' = "idle" /\ UNCHANGED <<todo, next>>)
  <2>1. PICK view : view = ActiveView /\ view = buildActiveView(store.nodes, store.head)
    BY DEF ActiveView
  <2>2. PICK new : new = Compress(view, FALSE)
    OBVIOUS
  <2>3. PICK k : k = DetectCompact(view, new)
    OBVIOUS
  <2>4. PICK from, to, summary : from = view[1].id /\ to = view[k].id /\ summary = new[1].holds
    OBVIOUS
  <2>5. PICK made : made = CompactItems(from, to, summary)
    OBVIOUS
  <2>6. /\ k > 0 /\ next + Clones(made) <= MaxNodes /\ todo' = made /\ next' = next + Clones(made)
        /\ stage' = IF made = <<>> THEN "idle" ELSE "compact"
    <3>1. made = CompactItems(view[1].id, view[k].id, new[1].holds)
      BY <2>4, <2>5
    <3> QED BY <1>5, <2>1, <2>2, <2>3, <3>1 DEF CompressStore
  <2>7. PICK P : P = activePathIDs(store.nodes, store.head)
    OBVIOUS
  <2>8. /\ view \in Seq(Messages) /\ Len(view) = Len(P) /\ DOMAIN view = 1 .. Len(P) /\ Len(P) \in Nat
        /\ \A i \in 1 .. Len(P) : view[i].id = P[i] /\ P[i] \in DOMAIN store.nodes /\ P[i] \in Ident
    <3>1. DOMAIN store.nodes \subseteq Ident
      BY <1>3, NodeMap
    <3> QED BY <1>3, <2>1, <2>7, <3>1, ViewShows DEF Keyed
  <2>9. PICK rank, F : Sound(rank, F, Said, Coming, fed) /\ RootInv(rank)
    BY DEF CursorInv, TreeInv
  <2>10. Ranked(rank) /\ Rooted(rank, store.nodes)
    <3>1. PICK given : given = fed
      OBVIOUS
    <3>2. Sound(rank, F, Said, Coming, given)
      BY <2>9, <3>1
    <3> QED BY <1>3, <3>2, PartIsRooted
  <2>11. EachOnce(view)
    BY <1>3, <2>1, <2>10, ViewInOrder
  <2>12. Climb(store.nodes, store.head, P)
    BY <1>3, <2>7, PathClimbs
  <2>13. \A i \in 2 .. Len(P) : P[i] > 0
    BY <1>3, <2>7, <2>10, PathIsLinked
  <2>14. PICK n : Summarises(new, view, FALSE, 0, n) /\ new # view
    <3>1. PICK protect \in BOOLEAN : protect = FALSE
      OBVIOUS
    <3>2. new = Compress(view, protect)
      BY <2>2, <3>1, Zenon
    <3>3. new = view \/ \E q, n : Summarises(new, view, protect, q, n)
      BY <2>8, <3>2, CompressShape
    <3>4. new # view
      <4> SUFFICES ASSUME new = view PROVE FALSE
        OBVIOUS
      <4>1. DetectCompact(view, view) = 0
        BY DEF DetectCompact
      <4> QED BY <2>3, <2>6, <4>1
    <3>5. PICK q, n : Summarises(new, view, protect, q, n)
      BY <3>3, <3>4
    <3>6. q = 0
      BY <3>1, <3>5 DEF Summarises
    <3> QED BY <3>1, <3>4, <3>5, <3>6, Zenon
  <2>15. /\ n \in Nat /\ 2 <= n /\ n < Len(P) /\ DOMAIN new = 1 .. Len(P) - n + 1 /\ Len(new) = Len(P) - n + 1
         /\ \E c : /\ new[1] = Message(next + 1, "system", c)
                   /\ c = UNION {view[i].holds : i \in 1 .. n}
         /\ \A i \in 2 .. Len(P) - n + 1 : new[i] = view[i + (n - 1)]
    <3>1. 0 + 1 = 1 /\ 0 + 2 = 2
      OBVIOUS
    <3>2. n \in Nat /\ 0 + n < Len(P) /\ 0 + n = n
      BY <2>8, <2>14 DEF Summarises
    <3> QED BY <2>8, <2>14, <3>1, <3>2 DEF Summarises
  <2>16. PICK c : new[1] = Message(next + 1, "system", c) /\ c = UNION {view[i].holds : i \in 1 .. n}
    BY <2>15
  <2>17. \E Texts : new \in Seq(Texts)
    <3> DEFINE Texts == [id : Int, role : Roles, holds : Holdings]
    <3>1. \A m \in Texts : m.holds \in Holdings
      OBVIOUS
    <3>2. \A x \in Holdings : Message(next + 1, "system", x) \in Texts
      BY <1>3, Identifiers DEF Message, Roles
    <3>3. Messages \subseteq Texts
      BY Identifiers DEF Messages
    <3> HIDE DEF Texts
    <3>4. view \in Seq(Texts)
      BY <2>8, <3>3
    <3>5. new \in Seq(Texts)
      BY <2>2, <3>1, <3>2, <3>4, CompressIsTyped
    <3> QED BY <3>5
  <2>18. k \in 1 .. Len(P) /\ (k < Len(P) => view[k + 1].id \in Ids(new))
    <3>1. PICK Texts : new \in Seq(Texts)
      BY <2>17
    <3> QED BY <2>3, <2>6, <2>8, <3>1, DetectShape
  <2>19. k >= n
    <3>1. CASE k = Len(P)
      BY <2>15, <3>1
    <3>2. CASE k # Len(P)
      <4>1. k < Len(P) /\ k + 1 \in 1 .. Len(P)
        BY <2>8, <2>18, <3>2
      <4>2. PICK j \in DOMAIN new : new[j].id = view[k + 1].id
        BY <2>18, <4>1 DEF Ids
      <4>3. j # 1
        <5> SUFFICES ASSUME j = 1 PROVE FALSE
          OBVIOUS
        <5>1. view[k + 1].id = next + 1
          BY <2>16, <4>2 DEF Message
        <5>2. next + 1 \in DOMAIN store.nodes
          BY <2>8, <4>1, <5>1
        <5>3. next + 1 \in Ident
          BY <2>8, <4>1, <5>1
        <5>4. next + 1 \in 1 .. MaxNodes /\ next + 1 > next
          BY <1>3, <5>3 DEF Ident
        <5>5. next + 1 \in Coming
          BY <5>4 DEF Coming
        <5> QED BY <5>2, <5>5, ComingIsNew
      <4>4. j \in 2 .. Len(P) - n + 1 /\ j + (n - 1) \in 1 .. Len(P)
        BY <2>8, <2>15, <4>3
      <4>5. view[j + (n - 1)].id = view[k + 1].id
        BY <2>15, <4>2, <4>4
      <4>6. j + (n - 1) = k + 1
        BY <2>8, <2>11, <4>1, <4>4, <4>5 DEF EachOnce
      <4> QED BY <2>8, <2>15, <2>18, <4>4, <4>6
    <3> QED BY <3>1, <3>2
  <2>20. to \in Ident /\ to > 0
    <3>1. k \in 2 .. Len(P)
      BY <2>15, <2>18, <2>19
    <3> QED BY <2>4, <2>8, <2>13, <2>18, <3>1
  <2>21. summary \in Holdings
    <3>1. \A i \in 1 .. n : view[i].holds \in Holdings
      <4> TAKE i \in 1 .. n
      <4>1. i \in DOMAIN view
        BY <2>8, <2>15
      <4> QED BY <2>8, <4>1, ElementOfSeq, MessagesAreTyped
    <3>2. c \in Holdings
      BY <2>16, <3>1 DEF Holdings
    <3> QED BY <2>4, <2>16, <3>2 DEF Message
  <2>22. \A i \in 1 .. Len(P) : P[i] = from => i = 1
    <3>1. 1 \in 1 .. Len(P)
      BY <2>8, <2>18
    <3> QED BY <2>4, <2>8, <2>12, <3>1 DEF Climb
  <2>23. Clones(made) \in Nat
    BY <1>3, <2>5, <2>20, <2>21, CompactIsTyped
  <2>24. next <= next' /\ next' \in Nat /\ next' <= MaxNodes
    BY <1>3, <2>6, <2>23
  <2>25. stage' \notin {"run", "runCompact", "rewind"} /\ stage # "rewind" /\ stage' # "rewind"
    BY <1>1, <2>6
  <2>26. HistInv'
    BY <2>25 DEF HistInv
  <2>27. Coming' = {i \in 1 .. MaxNodes : i > next'}
    BY <2>25 DEF Coming
  <2>28. Coming' \subseteq Coming
    <3>1. \A i \in 1 .. MaxNodes : i > next' => i > next
      BY <1>3, <2>24
    <3> QED BY <2>27, <3>1 DEF Coming
  <2>29. CASE made = <<>>
    <3>1. todo' = todo
      BY <1>2, <2>6, <2>29
    <3> QED BY <1>1, <2>25, <2>26, <2>28, <3>1, QuietKeeps
  <2>30. CASE made # <<>>
    <3>1. \A i \in Coming' : i > next' \/ i <= next
      BY <2>27
    <3> QED BY <1>1, <1>2, <2>5, <2>6, <2>7, <2>20, <2>21, <2>22, <2>24, <2>25, <2>26, <2>28, <2>30, <3>1, FoldKeeps
  <2> QED BY <2>29, <2>30
<1> QED BY <1>4, <1>5

-----------------------------------------------------------------------------
(* The consolidation cursor *)

(* A store without lines says only marks at no message, and declares none. *)
LEMMA CursorInit ==
    ASSUME Init
    PROVE  CursorInv
<1>1. file = Nothing /\ before = Nothing /\ store = Nothing /\ conv = <<>> /\ todo = <<>> /\ stage = "idle" /\ fed = {}
  BY DEF Init
<1>2. PICK none, move, mark : none = Nothing /\ move = Mark("head", 0) /\ mark = Mark("cursor", 0)
  OBVIOUS
<1>3. /\ none.nodes = <<>> /\ none.head = 0 /\ none.cursor = 0 /\ none.cks = {} /\ DOMAIN none.nodes = {}
      /\ move.kind = "head" /\ move.id = 0 /\ mark.kind = "cursor" /\ mark.id = 0
  BY <1>2 DEF Nothing, Mark
<1>4. LinesOf(none) = {move, mark}
  BY <1>2, <1>3 DEF LinesOf
<1>5. DOMAIN todo = {} /\ Asked(todo) = {} /\ Len(todo) = 0 /\ DOMAIN conv = {}
  BY <1>1 DEF Asked
<1>6. Said = {move, mark}
  BY <1>1, <1>2, <1>4, <1>5 DEF Said
<1>7. Declaring(Said) = {} /\ Declared(Said) = {} /\ Named(Said) = {0}
  <2>1. Declaring(Said) = {}
    BY <1>3, <1>6 DEF Declaring
  <2>2. {m \in Said : m.kind \in {"head", "ck"}} = {move}
    BY <1>3, <1>6
  <2> QED BY <1>3, <2>1, <2>2 DEF Declared, Named
<1>8. Books
  BY <1>1, <1>2, <1>3 DEF Books, Keyed
<1>9. Closed(store, todo, Declared(Said))
  BY <1>1, <1>2, <1>3, <1>4, <1>5 DEF Closed, Anchored
<1>10. RewindAlone /\ ConvInv /\ HistInv
  BY <1>1, <1>5 DEF RewindAlone, ConvInv, HistInv, Ids, EachOnce
<1>11. PICK rank \in [Ident -> Int] : \A t \in 1 .. MaxNodes : rank[t] < rank[-t]
  <2>1. \A i \in Ident : -i \in Int
    BY Identifiers
  <2>2. PICK rank \in [Ident -> Int] : \A i \in Ident : rank[i] = -i
    <3>1. [i \in Ident |-> -i] \in [Ident -> Int]
      BY <2>1
    <3> QED BY <3>1
  <2>3. ASSUME NEW t \in 1 .. MaxNodes PROVE rank[t] < rank[-t]
    <3>1. t \in Ident /\ -t \in Ident /\ t \in Int /\ t > 0
      BY Identifiers
    <3>2. rank[t] = -t /\ rank[-t] = -(-t)
      BY <2>2, <3>1
    <3> QED BY <3>1, <3>2
  <2> QED BY <2>3
<1>12. \A i \in Coming : i > 0 /\ i # 0 /\ -i # 0 /\ i \in 1 .. MaxNodes
  <2>1. DOMAIN store.nodes = {} /\ stage \notin {"run", "runCompact"}
    BY <1>1, <1>2, <1>3
  <2>2. Coming \subseteq 1 .. MaxNodes
    BY <2>1 DEF Coming
  <2> QED BY <2>2, Identifiers
<1>13. \E F : Sound(rank, F, Said, Coming, fed)
  <2>1. PICK F : F = {}
    OBVIOUS
  <2>2. Ranked(rank) /\ \A l \in Declaring(Said) : Linked(rank, l)
    BY <1>7, <1>11 DEF Ranked
  <2>3. Unique(Said)
    BY <1>7 DEF Unique
  <2>4. Unnamed(Coming, Said, F)
    BY <1>7, <1>12, <2>1 DEF Unnamed
  <2>5. Consumed(F, Said, fed)
    BY <1>3, <1>6, <1>7, <2>1 DEF Consumed
  <2> QED BY <2>2, <2>3, <2>4, <2>5 DEF Sound
<1>14. RootInv(rank)
  BY <1>1 DEF RootInv
<1> QED BY <1>8, <1>9, <1>10, <1>13, <1>14 DEF CursorInv, TreeInv

(* A step that changes nothing keeps it. *)
LEMMA CursorStays ==
    ASSUME CursorInv, UNCHANGED <<file, before, store, conv, stage, todo, hist, next, fed>>
    PROVE  CursorInv'
<1>1. UNCHANGED <<file, before, store, conv, stage, todo, hist, next, fed>>
  OBVIOUS
<1>2. Coming' = Coming /\ Said' = Said
  BY <1>1 DEF Coming, Said, Ids, LinesOf, Nothing, Mark
<1>3. Books' /\ Closed(store', todo', Declared(Said')) /\ RewindAlone' /\ ConvInv' /\ HistInv'
  BY <1>1, <1>2 DEF CursorInv, Books, RewindAlone, ConvInv, HistInv, Ids, EachOnce
<1>4. fed \subseteq fed' /\ Said' \subseteq Said /\ Coming' \subseteq Coming
  BY <1>1, <1>2
<1>5. \A rank : RootInv(rank) => RootInv(rank)'
  BY <1>1 DEF RootInv
<1>6. TreeInv'
  BY <1>4, <1>5, TreeShrinks DEF CursorInv
<1> QED BY <1>3, <1>6 DEF CursorInv

(* Every step keeps the invariant. *)
LEMMA CursorStep ==
    ASSUME TypeInv, TypeInv', CursorInv, [Next]_vars
    PROVE  CursorInv'
<1>1. CASE appendRecord
  BY <1>1, appendKeeps
<1>2. CASE AppendFails
  BY <1>2, failureKeeps
<1>3. CASE BeginRun \/ AcceptRun \/ AcceptFails \/ EndRun \/ MarkInterrupted \/ Recovered
  BY <1>3, runKeeps
<1>4. CASE Reply
  BY <1>4, ReplyKeeps
<1>5. CASE FinishRun
  BY <1>5, CommitsKeep, RunFolds
<1>6. CASE CommitRest
  BY <1>6, CommitsKeep
<1>7. CASE CheckpointRun \/ Rewind
  BY <1>7, RewindKeeps
<1>8. CASE RefreshRun \/ Done \/ Open
  BY <1>8, RefreshKeeps
<1>9. CASE Consolidate("cursor")
  BY <1>9, ConsolidateKeeps
<1>10. CASE Consolidate("consolidate")
  BY <1>10, ConsolidateKeeps
<1>11. CASE CompressStore
  BY <1>11, CompressFolds
<1>12. CASE Crash \/ CloseSession
  BY <1>12, CrashKeeps
<1>13. CASE UNCHANGED vars \/ JournalEvent
  <2>1. UNCHANGED <<file, before, store, conv, stage, todo, hist, next, fed>>
    BY <1>13, EventAlone DEF vars
  <2> QED BY <2>1, CursorStays
<1> QED BY <1>1, <1>2, <1>3, <1>4, <1>5, <1>6, <1>7, <1>8, <1>9, <1>10, <1>11, <1>12, <1>13 DEF Next

(* In the view of lines whose cursor mark is sound, the memory was given   *)
(* all that is shown at or before the cursor.                              *)
LEMMA CursorCovers ==
    ASSUME NEW rank, NEW F, Sound(rank, F, Said, Coming, fed),
           NEW s \in Stores, LinesOf(s) \subseteq Said, Keyed(s.nodes),
           NEW V, V = buildActiveView(s.nodes, s.head)
    PROVE  Covers(V, s.cursor)
<1>1. PICK P : P = activePathIDs(s.nodes, s.head)
  OBVIOUS
<1>2. s.nodes \in NodeMaps /\ s.cursor \in Ident /\ DOMAIN s.nodes \subseteq Ident /\ Ident \subseteq Int
  BY NodeMap, Identifiers DEF Stores
<1>3. /\ DOMAIN V = 1 .. Len(P) /\ Len(P) \in Nat
      /\ \A i \in 1 .. Len(P) : P[i] \in DOMAIN s.nodes /\ V[i].id = P[i] /\ V[i].holds = s.nodes[P[i]].holds
  BY <1>1, <1>2, ViewShows DEF Keyed
<1>4. PICK given : given = fed
  OBVIOUS
<1>5. Sound(rank, F, Said, Coming, given)
  BY <1>4
<1>6. Ranked(rank) /\ Rooted(rank, s.nodes)
  BY <1>5, PartIsRooted
<1>7. \A i \in 2 .. Len(P) : P[i] > 0
  BY <1>1, <1>2, <1>6, PathIsLinked
<1> SUFFICES ASSUME NEW i \in 1 .. Len(P), NEW j \in 1 .. Len(P), i <= j, V[j].id = s.cursor, V[i].id > 0
             PROVE  V[i].holds \subseteq fed
  BY <1>3 DEF Covers
<1>8. P[j] = s.cursor /\ P[i] > 0 /\ P[j] > 0
  <2>1. CASE j = 1
    BY <1>3, <2>1
  <2>2. CASE j # 1
    <3>1. j \in 2 .. Len(P)
      BY <1>3, <2>2
    <3> QED BY <1>3, <1>7, <3>1
  <2> QED BY <2>1, <2>2
<1>9. P[j] \in F
  <2>1. Mark("cursor", s.cursor) \in Said
    BY DEF LinesOf
  <2> QED BY <1>5, <1>8, <2>1 DEF Sound, Consumed, Mark
<1>10. \A k \in 1 .. j : P[k] > 0 => P[k] \in F /\ s.nodes[P[k]].holds \subseteq given
  BY <1>1, <1>5, <1>8, <1>9, GivenBelow
<1>11. i \in 1 .. j
  BY <1>3
<1> QED BY <1>3, <1>4, <1>8, <1>10, <1>11

(* The cursor never skips: all that stands at or before it in the view, in *)
(* memory or after a restart, has been given to the memory, through any    *)
(* compactions, rewinds, failed appends, crashes and reopenings            *)
(* (PendingAfterCursor, AdvanceCursor, remapCursor).                       *)
THEOREM CursorSafe == Spec => []CursorSkipsNothing
<1>1. Init => TypeInv /\ CursorInv
  BY TypeInit, CursorInit
<1>2. (TypeInv /\ CursorInv) /\ [Next]_vars => (TypeInv /\ CursorInv)'
  BY TypeStep, CursorStep
<1>3. TypeInv /\ CursorInv => CursorSkipsNothing
  <2> SUFFICES ASSUME TypeInv, CursorInv PROVE CursorSkipsNothing
    OBVIOUS
  <2>1. PICK rank, F : Sound(rank, F, Said, Coming, fed)
    BY DEF CursorInv, TreeInv
  <2>2. \A s \in {store, file} : s \in Stores /\ LinesOf(s) \subseteq Said /\ Keyed(s.nodes)
    BY DEF TypeInv, DiskTyped, MemoryTyped, CursorInv, Books, Said
  <2>3. Covers(ActiveView, store.cursor)
    BY <2>1, <2>2, CursorCovers DEF ActiveView
  <2>4. Covers(OnDisk, file.cursor)
    BY <2>1, <2>2, CursorCovers DEF OnDisk
  <2> QED BY <2>3, <2>4 DEF CursorSkipsNothing
<1> QED BY <1>1, <1>2, <1>3, PTL DEF Spec

-----------------------------------------------------------------------------
(* What is not forgotten: sources, and what a head carries *)

(* What stands behind a line: a message hangs at its parent, and a fold    *)
(* stands for the last message it covers.                                  *)
Source(l) == IF l.id < 0 THEN -l.id ELSE l.parent

(* Nothing in G has its source elsewhere. *)
Shut(G, L) == \A l \in L : l.id \in G => Source(l) \in G

(* Message m is carried at h: among h and the sources of its sources there *)
(* is always a line that holds m.                                          *)
Carries(L, m, h) == \A G \in SUBSET Ident : Shut(G, L) /\ h \in G => \E l \in L : l.id \in G /\ m \in l.holds

(* Among a and the sources of its sources there is b. *)
Under(L, a, b) == \A G \in SUBSET Ident : Shut(G, L) /\ a \in G => b \in G

(* No line holds m. *)
Clear(L, m) == \A l \in L : m \notin l.holds

(* A fold that holds m folds a path that carries it, or all that holds m   *)
(* stands under the fold.                                                  *)
Sorted(L, m) ==
    \A f \in L : f.id < 0 /\ m \in f.holds =>
      Carries(L, m, -f.id) \/ \A l \in L : m \in l.holds => Under(L, l.id, f.id)

(* The lines L with those of K, which replace the ones with their ids. *)
Later(L, K) == {l \in L : l.id \notin Declared(K)} \cup K

(* Line l may follow the lines L: it replaces no fold that alone holds m,  *)
(* and if it holds m itself, it is sorted too.                             *)
Fits(L, l, m) ==
    /\ l.id < 0 => \A o \in L : o.id = l.id /\ m \in o.holds => m \in l.holds \/ Carries(L, m, -l.id)
    /\ m \in l.holds /\ l.id < 0 => Carries(L, m, -l.id) \/ Clear(L, m)
    /\ m \in l.holds /\ ~(l.id < 0) =>
         \A f \in L : f.id < 0 /\ m \in f.holds => Carries(L, m, -f.id) \/ Under(L \cup {l}, l.id, f.id)

(* Only a fold may have lines of other content.                            *)
Alone(L, l) == l.id < 0 \/ \A o \in L : o.id = l.id => o = l

(* A line carries what it holds, and what its source carries.              *)
LEMMA LineCarries ==
    ASSUME NEW L, NEW l \in L, NEW m
    PROVE  /\ m \in l.holds => Carries(L, m, l.id)
           /\ Carries(L, m, Source(l)) => Carries(L, m, l.id)
           /\ Under(L, l.id, l.id) /\ Under(L, l.id, Source(l))
BY DEF Carries, Under, Shut

(* What is carried at b is carried at all that stands under b, and what    *)
(* all holders stand under, all that carries m stands under.               *)
LEMMA UnderCarries ==
    ASSUME NEW L, NEW m, NEW a, NEW b, NEW c
    PROVE  /\ Under(L, a, b) /\ Carries(L, m, b) => Carries(L, m, a)
           /\ Under(L, a, b) /\ Under(L, b, c) => Under(L, a, c)
           /\ Carries(L, m, a) /\ (\A l \in L : m \in l.holds => Under(L, l.id, c)) => Under(L, a, c)
BY DEF Carries, Under

(* K are the lines L with l, in place of a line with its id.               *)
Joined(K, L, l) ==
    /\ K \in SUBSET Nodes /\ l \in K
    /\ \A o \in K : o = l \/ (o \in L /\ o.id # l.id)
    /\ \A o \in L : o \in K \/ (o.id = l.id /\ l.id < 0)
    /\ \A G : Shut(G, K) => Shut(G, L) /\ Shut(G, L \cup {l})

(* What replaces lines with their ids.                                     *)
LEMMA LaterLine ==
    ASSUME NEW L \in SUBSET Nodes, NEW l \in Nodes, Alone(L, l), NEW K, K = Later(L, {l})
    PROVE  Joined(K, L, l)
<1>1. Declared({l}) = {l.id}
  BY DEF Declared, Declaring, Nodes
<1>2. K = {o \in L : o.id # l.id} \cup {l}
  BY <1>1 DEF Later
<1>3. \A o \in L : o \in K \/ (o.id = l.id /\ l.id < 0)
  BY <1>2 DEF Alone
<1>4. ASSUME NEW G, Shut(G, K), NEW o \in L, o.id \in G PROVE Source(o) \in G
  BY <1>2, <1>3, <1>4 DEF Shut, Source
<1>5. \A G : Shut(G, K) => Shut(G, L)
  BY <1>4 DEF Shut
<1>6. \A G : Shut(G, K) => Shut(G, L \cup {l})
  BY <1>2, <1>5 DEF Shut
<1>7. K \in SUBSET Nodes /\ l \in K /\ \A o \in K : o = l \/ (o \in L /\ o.id # l.id)
  BY <1>2
<1> QED BY <1>3, <1>5, <1>6, <1>7 DEF Joined

(* A line that fits leaves what is carried and what stands under what.     *)
LEMMA FitKeeps ==
    ASSUME NEW rank, Ranked(rank), NEW L \in SUBSET Nodes, \A o \in L : Linked(rank, o),
           NEW l \in Nodes, Alone(L, l), NEW m, Fits(L, l, m), NEW K, K = Later(L, {l})
    PROVE  /\ \A h : Carries(L, m, h) => Carries(K, m, h)
           /\ \A a, b : Under(L, a, b) => Under(K, a, b)
<1>1. /\ K \in SUBSET Nodes /\ l \in K
      /\ \A o \in L : o \in K \/ (o.id = l.id /\ l.id < 0)
      /\ \A G : Shut(G, K) => Shut(G, L)
  <2>1. Joined(K, L, l)
    BY LaterLine
  <2> QED BY <2>1 DEF Joined
<1>2. \A a, b : Under(L, a, b) => Under(K, a, b)
  BY <1>1 DEF Under
<1>3. ASSUME NEW h, Carries(L, m, h), NEW G \in SUBSET Ident, Shut(G, K), h \in G
      PROVE  \E o \in K : o.id \in G /\ m \in o.holds
  <2>1. Shut(G, L)
    BY <1>1, <1>3
  <2>2. PICK o \in L : o.id \in G /\ m \in o.holds
    BY <1>3, <2>1 DEF Carries
  <2>3. CASE o \in K
    BY <2>2, <2>3
  <2>4. CASE o \notin K
    <3>1. o.id = l.id /\ l.id < 0
      BY <1>1, <2>4
    <3>2. CASE m \in l.holds
      BY <1>1, <2>2, <3>1, <3>2
    <3>3. CASE m \notin l.holds
      <4>1. Carries(L, m, -l.id)
        BY <2>2, <3>1, <3>3 DEF Fits
      <4>2. PICK x : x = -l.id
        OBVIOUS
      <4>3. /\ x \in 1 .. MaxNodes /\ l.id = -x /\ x \in Ident /\ -x \in Ident
            /\ rank \in [Ident -> Int] /\ rank[x] < rank[-x]
        <5>1. l.id \in Ident /\ Ident \subseteq Int /\ MaxNodes \in Nat
          BY Identifiers DEF Nodes
        <5>2. x \in 1 .. MaxNodes /\ l.id = -x
          BY <3>1, <4>2, <5>1 DEF Ident
        <5> QED BY <4>2, <5>1, <5>2, Identifiers DEF Ranked
      <4>4. x \in G
        BY <1>1, <1>3, <2>2, <3>1, <4>2 DEF Shut, Source
      <4>5. PICK H \in SUBSET Ident : H = {g \in G : rank[g] <= rank[x]}
        BY <1>3
      <4>6. x \in H /\ l.id \notin H
        BY <4>3, <4>4, <4>5
      <4>7. ASSUME NEW p \in L, p.id \in H PROVE Source(p) \in H
        <5>1. p.id \in G /\ rank[p.id] <= rank[x] /\ p.id \in Ident /\ p.parent \in Ident /\ Ident \subseteq Int
          BY <4>5, <4>7, Identifiers DEF Nodes
        <5>2. Source(p) \in G /\ Source(p) \in Ident
          BY <2>1, <5>1 DEF Shut
        <5>3. rank[Source(p)] <= rank[p.id]
          <6>1. CASE p.id < 0
            <7>1. PICK t : t = -p.id
              OBVIOUS
            <7>2. t \in 1 .. MaxNodes /\ p.id = -t /\ Source(p) = t
              BY <5>1, <6>1, <7>1, Identifiers DEF Ident, Source
            <7>3. rank[t] < rank[-t] /\ t \in Ident /\ -t \in Ident
              BY <5>1, <5>2, <7>2 DEF Ranked
            <7> QED BY <4>3, <7>2, <7>3
          <6>2. CASE ~(p.id < 0)
            <7>0. Linked(rank, p)
              OBVIOUS
            <7>1. p.id # 0 /\ (p.id > 0 => rank[p.parent] < rank[p.id])
              BY <7>0 DEF Linked
            <7>2. p.id \in Int
              BY <5>1
            <7>3. p.id > 0
              BY <6>2, <7>1, <7>2
            <7>4. Source(p) = p.parent /\ rank[p.parent] < rank[p.id]
              BY <6>2, <7>1, <7>3 DEF Source
            <7>5. rank[Source(p)] \in Int /\ rank[p.id] \in Int
              BY <4>3, <5>1, <5>2
            <7> QED BY <7>4, <7>5
          <6> QED BY <6>1, <6>2
        <5>4. rank[Source(p)] \in Int /\ rank[p.id] \in Int /\ rank[x] \in Int
          BY <4>3, <5>1, <5>2
        <5> QED BY <4>5, <5>1, <5>2, <5>3, <5>4
      <4>8. Shut(H, L)
        BY <4>7 DEF Shut
      <4>9. PICK p \in L : p.id \in H /\ m \in p.holds
        BY <4>1, <4>2, <4>6, <4>8 DEF Carries
      <4>10. p \in K /\ p.id \in G
        BY <1>1, <4>5, <4>6, <4>9
      <4> QED BY <4>9, <4>10
    <3> QED BY <3>2, <3>3
  <2> QED BY <2>3, <2>4
<1>4. \A h : Carries(L, m, h) => Carries(K, m, h)
  BY <1>3 DEF Carries
<1> QED BY <1>2, <1>4

(* And the lines stay sorted.                                              *)
LEMMA FitSorts ==
    ASSUME NEW rank, Ranked(rank), NEW L \in SUBSET Nodes, \A o \in L : Linked(rank, o),
           NEW l \in Nodes, Alone(L, l), NEW m, Fits(L, l, m), NEW K, K = Later(L, {l}), Sorted(L, m)
    PROVE  Sorted(K, m)
<1>1. /\ K \in SUBSET Nodes /\ l \in K
      /\ \A o \in K : o = l \/ (o \in L /\ o.id # l.id)
      /\ \A G : Shut(G, K) => Shut(G, L)
      /\ \A G : Shut(G, K) => Shut(G, L \cup {l})
  <2>1. Joined(K, L, l)
    BY LaterLine
  <2> QED BY <2>1 DEF Joined
<1>2. /\ \A h : Carries(L, m, h) => Carries(K, m, h)
      /\ \A a, b : Under(L, a, b) => Under(K, a, b)
      /\ \A a, b : Under(L \cup {l}, a, b) => Under(K, a, b)
  <2>1. \A a, b : Under(L \cup {l}, a, b) => Under(K, a, b)
    BY <1>1 DEF Under
  <2> QED BY <2>1, FitKeeps
<1> SUFFICES ASSUME NEW f \in K, f.id < 0, m \in f.holds, ~Carries(K, m, -f.id), NEW h \in K, m \in h.holds
             PROVE  Under(K, h.id, f.id)
  BY DEF Sorted
<1>3. CASE f = l
  <2>1. Clear(L, m)
    BY <1>2, <1>3 DEF Fits
  <2>2. h = l
    BY <1>1, <2>1 DEF Clear
  <2> QED BY <1>1, <1>3, <2>2, LineCarries
<1>4. CASE f # l
  <2>1. f \in L /\ ~Carries(L, m, -f.id)
    BY <1>1, <1>2, <1>4
  <2>2. \A o \in L : m \in o.holds => Under(L, o.id, f.id)
    BY <2>1 DEF Sorted
  <2>3. CASE h # l
    BY <1>1, <1>2, <2>2, <2>3
  <2>4. CASE h = l
    <3>1. CASE l.id < 0
      <4>1. Carries(L, m, -l.id)
        BY <2>1, <2>4, <3>1 DEF Fits, Clear
      <4>2. Under(L, -l.id, f.id)
        BY <2>2, <4>1, UnderCarries
      <4>3. Under(K, -l.id, f.id) /\ Under(K, l.id, -l.id)
        <5>1. Source(l) = -l.id
          BY <3>1 DEF Source
        <5> QED BY <1>1, <1>2, <4>2, <5>1, LineCarries
      <4> QED BY <2>4, <4>3, UnderCarries
    <3>2. CASE ~(l.id < 0)
      <4>1. Carries(L, m, -f.id) \/ Under(L \cup {l}, l.id, f.id)
        BY <2>1, <2>4, <3>2 DEF Fits
      <4> QED BY <1>2, <2>1, <2>4, <4>1
    <3> QED BY <3>1, <3>2
  <2> QED BY <2>3, <2>4
<1> QED BY <1>3, <1>4

-----------------------------------------------------------------------------
(* The inductive invariant of what is not forgotten *)

(* The lines of nodes in the file and in memory, those of the first j      *)
(* appends, and those of the file once these have been made.               *)
Filed == Declaring(LinesOf(file))
Stored == Declaring(LinesOf(store))
Due(items, j) == Declaring({items[k].line : k \in 1 .. j})
After(f, items, j) == Later(Declaring(LinesOf(f)), Due(items, j))

(* The messages reported persisted, and those of the run in progress. *)
Live == told \cup fresh

(* The line of a message is among L, and what a line holds is carried. *)
Backed(l, L, M) == (l.id > 0 => l \in L) /\ \A m \in M : m \in l.holds => Carries(L, m, l.id)

(* Nothing holds a message that does not exist yet, and outside of a run   *)
(* no message is fresh.                                                    *)
HoldInv ==
    /\ Live \subseteq 1 .. next /\ (stage \notin Running => fresh = {})
    /\ \A l \in Filed \cup Stored \cup Declaring(Asked(todo)) : l.holds \subseteq 1 .. next
    /\ \A i \in DOMAIN hist : hist[i].holds \subseteq 1 .. next
    /\ \A i \in DOMAIN conv : conv[i].holds \subseteq 1 .. next

(* The folds of the file are sorted, the file backs what memory holds, and *)
(* what was reported persisted is carried at the heads.                    *)
DiskKept ==
    /\ \A m \in Live : Sorted(Filed, m)
    /\ \A l \in Stored : Backed(l, Filed, Live)
    /\ \A m \in told : Carries(Filed, m, file.head) /\ (stage # "down" => Carries(Filed, m, store.head))

(* What a message of the conversation holds is carried at each later one.  *)
ConvKept ==
    \A m \in Live : \A i, k \in DOMAIN conv : i <= k /\ m \in conv[i].holds => Carries(Filed, m, conv[k].id)

(* Appends of a fold begin with it.  Each line that is due fits, it backs  *)
(* what enters memory, and heads move only to where what was reported      *)
(* persisted is carried.                                                   *)
TodoKept ==
    \A j \in DOMAIN todo :
      /\ j > 1 /\ todo[j].line.kind = "node" => todo[j].line.id > 0
      /\ todo[j].line.kind = "node" => \A m \in Live : Fits(After(file, todo, j - 1), todo[j].line, m)
      /\ \A l \in Declaring(Entering(todo[j])) : Backed(l, After(file, todo, j), Live)
      /\ \A l \in {todo[j].line} \cup Entering(todo[j]) :
           l.kind = "head" => \A m \in told : Carries(After(file, todo, j - 1), m, l.id)

(* The history h of a run holds each fresh message, in one that is not     *)
(* recorded.  As long as the conversation has not been compressed h begins *)
(* with it, and then with a summary of a part of it that h has left.       *)
Turned(h, new) ==
    /\ \A m \in new : \E i \in DOMAIN h : h[i].id \notin DOMAIN store.nodes /\ m \in h[i].holds
    /\ conv # <<>> /\ ~System(conv[1]) =>
         IF h[1].id \in Ids(conv)
         THEN /\ Len(h) > Len(conv) /\ \A j \in DOMAIN conv : h[j] = conv[j]
              /\ \A j \in DOMAIN h : j > Len(conv) => h[j].holds \subseteq new
         ELSE /\ System(h[1])
              /\ \A m \in h[1].holds :
                   m \in new \/ \E i \in DOMAIN conv : /\ m \in conv[i].holds
                                                      /\ \A j \in DOMAIN conv : conv[j].id \in Ids(h) => i < j

(* During a run no line holds a fresh message, but the history of the run  *)
(* does.                                                                   *)
RunInv ==
    stage = "run" =>
      /\ \A m \in fresh : Clear(Filed \cup Stored, m) /\ \A i \in DOMAIN conv : m \notin conv[i].holds
      /\ Turned(hist, fresh)

(* Message m is carried at the heads of the file and of memory, or will be *)
(* once the appends have been made.                                        *)
Final(m) ==
    IF todo = <<>> THEN Carries(Filed, m, store.head) /\ Carries(Filed, m, file.head)
    ELSE /\ todo[Len(todo)].line.kind = "head"
         /\ Carries(After(file, todo, Len(todo)), m, todo[Len(todo)].line.id)

(* So is what a run adds, when its appends are due, unless the rest of the *)
(* commit has it.                                                          *)
FreshKept ==
    /\ stage = "runCompact" => \A m \in fresh :
         \/ Final(m)
         \/ /\ Clear(After(file, todo, Len(todo)), m)
            /\ \E i \in 2 .. Len(hist) : hist[i].id \notin DOMAIN store.nodes /\ m \in hist[i].holds
    /\ stage = "commit" => \A m \in fresh : Final(m)
    /\ stage \in {"checkpoint", "refresh"} =>
         /\ \A m \in fresh : Carries(Filed, m, store.head) /\ Carries(Filed, m, file.head)
         /\ \A j \in DOMAIN todo : \A l \in {todo[j].line} \cup Entering(todo[j]) : l.kind # "head"

(* The inductive invariant of what is not forgotten. *)
LossInv == ~spoiled => HoldInv /\ DiskKept /\ ConvKept /\ TodoKept /\ RunInv /\ FreshKept

(* Lines that follow lines that follow.                                    *)
LEMMA LaterLater ==
    ASSUME NEW L, NEW A, NEW B, Declaring(A) = A, Declaring(B) = B,
           \A a \in A, b \in B : a.id = b.id => a = b
    PROVE  Later(Later(L, A), B) = Later(L, A \cup B)
<1>1. Declared(A) = {a.id : a \in A} /\ Declared(B) = {b.id : b \in B} /\ Declared(A \cup B) = {a.id : a \in A \cup B}
  BY DEF Declared, Declaring
<1>2. \A l : l \in Later(Later(L, A), B) <=> l \in Later(L, A \cup B)
  BY <1>1 DEF Later
<1> QED BY <1>2

(* What a line adds to the nodes of the file.                              *)
LEMMA AddFiles ==
    ASSUME NEW s \in Stores, Keyed(s.nodes), NEW line \in Lines
    PROVE  /\ Declaring(LinesOf(Add(s, line))) = Later(Declaring(LinesOf(s)), Declaring({line}))
           /\ Add(s, line).head = IF line.kind = "head" THEN line.id ELSE s.head
<1>1. PICK n \in NodeMaps : n = s.nodes
  BY DEF Stores
<1>2. Declaring(LinesOf(s)) = {n[i] : i \in DOMAIN n}
  BY <1>1, StoreLines
<1>3. PICK t \in Stores : t = Add(s, line)
  BY AddIsTyped
<1>4. PICK o \in NodeMaps : o = t.nodes
  BY <1>3 DEF Stores
<1>5. Declaring(LinesOf(t)) = {o[i] : i \in DOMAIN o}
  BY <1>3, <1>4, StoreLines
<1>6. CASE line.kind = "node"
  <2>1. line \in Nodes /\ Declaring({line}) = {line} /\ Declared({line}) = {line.id}
    BY <1>6 DEF Lines, Marks, Declared, Declaring
  <2>2. t = [s EXCEPT !.nodes = Declare(s.nodes, line)]
    BY <1>3, <1>6 DEF Add
  <2>3. o = Declare(n, line) /\ t.head = s.head
    BY <1>1, <1>4, <2>2 DEF Stores
  <2>4. DOMAIN o = DOMAIN n \cup {line.id} /\ \A i \in DOMAIN o : o[i] = IF i = line.id THEN line ELSE n[i]
    BY <2>3 DEF Declare
  <2>5. \A i \in DOMAIN n : n[i].id = i
    BY <1>1 DEF Keyed
  <2>6. \A l : l \in Declaring(LinesOf(t)) <=> l \in Later(Declaring(LinesOf(s)), {line})
    <3>1. ASSUME NEW l, l \in Declaring(LinesOf(t)) PROVE l \in Later(Declaring(LinesOf(s)), {line})
      <4>1. PICK i \in DOMAIN o : l = o[i]
        BY <1>5, <3>1
      <4> QED BY <1>2, <2>1, <2>4, <2>5, <4>1 DEF Later
    <3>2. ASSUME NEW l, l \in Later(Declaring(LinesOf(s)), {line}) PROVE l \in Declaring(LinesOf(t))
      <4>1. CASE l = line
        BY <1>5, <2>4, <4>1
      <4>2. CASE l # line
        <5>1. l \in Declaring(LinesOf(s)) /\ l.id # line.id
          BY <2>1, <3>2, <4>2 DEF Later
        <5>2. PICK i \in DOMAIN n : l = n[i]
          BY <1>2, <5>1
        <5>3. i \in DOMAIN o /\ o[i] = l
          BY <2>4, <2>5, <5>1, <5>2
        <5> QED BY <1>5, <5>3
      <4> QED BY <4>1, <4>2
    <3> QED BY <3>1, <3>2
  <2>7. Declaring(LinesOf(t)) = Later(Declaring(LinesOf(s)), {line})
    BY <2>6
  <2> QED BY <1>3, <1>6, <2>1, <2>3, <2>7
<1>7. CASE line.kind # "node"
  <2>1. Declaring({line}) = {} /\ Declared({}) = {}
    BY <1>7 DEF Declared, Declaring
  <2>2. t.nodes = s.nodes /\ t.head = IF line.kind = "head" THEN line.id ELSE s.head
    BY <1>3, <1>7 DEF Add, Stores, Lines, Nodes, Marks
  <2>3. Later(Declaring(LinesOf(s)), {}) = Declaring(LinesOf(s))
    BY <2>1 DEF Later
  <2>4. o = n
    BY <1>1, <1>4, <2>2
  <2> QED BY <1>2, <1>3, <1>5, <2>1, <2>2, <2>3, <2>4
<1> QED BY <1>6, <1>7

(* A line that is said has the id and the source of a node of the tree, and *)
(* only a fold can have two.                                               *)
LEMMA SaidFits ==
    ASSUME TypeInv, CursorInv
    PROVE  /\ Declaring(Said) \in SUBSET Nodes
           /\ \A L \in SUBSET Declaring(Said), l \in Declaring(Said) : Alone(L, l)
           /\ \E rank : Ranked(rank) /\ \A l \in Declaring(Said) : Linked(rank, l)
<1>1. PICK rank, F : Sound(rank, F, Said, Coming, fed)
  BY DEF CursorInv, TreeInv
<1>2. Ranked(rank) /\ (\A l \in Declaring(Said) : Linked(rank, l)) /\ Unique(Said)
  BY <1>1 DEF Sound
<1>3. Declaring(Said) \subseteq Nodes
  BY SaidAreLines DEF Declaring, Lines, Marks
<1>4. ASSUME NEW L \in SUBSET Declaring(Said), NEW l \in Declaring(Said) PROVE Alone(L, l)
  <2>1. l.id \in Int /\ l.id # 0
    BY <1>2, <1>3, Identifiers DEF Linked, Nodes
  <2>2. l.id < 0 \/ l.id > 0
    BY <2>1
  <2> QED BY <1>2, <2>2 DEF Alone, Unique
<1> QED BY <1>2, <1>3, <1>4

(* The lines of the file as the appends are made.                          *)
LEMMA AfterLines ==
    ASSUME TypeInv, CursorInv, TodoKept
    PROVE  /\ After(file, todo, 0) = Filed /\ Filed \in SUBSET Declaring(Said) /\ Stored \in SUBSET Declaring(Said)
           /\ \A j \in 0 .. Len(todo) : After(file, todo, j) \in SUBSET Declaring(Said)
           /\ \A j \in DOMAIN todo : /\ Declaring({todo[j].line}) \in SUBSET Declaring(Said)
                                     /\ Declaring(Entering(todo[j])) \in SUBSET Declaring(Said)
           /\ \A j, k \in DOMAIN todo :
                todo[j].line.kind = "node" /\ todo[k].line.kind = "node" /\ todo[j].line.id = todo[k].line.id =>
                  todo[j].line = todo[k].line
<1>1. todo \in Seq(Items) /\ Len(todo) \in Nat /\ DOMAIN todo = 1 .. Len(todo)
  BY DEF TypeInv, TodoTyped
<1>2. Filed \in SUBSET Declaring(Said) /\ Stored \in SUBSET Declaring(Said)
  BY DEF Filed, Stored, Declaring, Said
<1>3. \A j \in DOMAIN todo : todo[j].line \in Said /\ Entering(todo[j]) \subseteq Said
  BY DEF Said, Asked
<1>4. After(file, todo, 0) = Filed
  <2>1. 1 .. 0 = {}
    OBVIOUS
  <2>2. Due(todo, 0) = {} /\ Declared({}) = {}
    BY <2>1 DEF Due, Declaring, Declared
  <2> QED BY <2>2 DEF After, Later, Filed
<1>5. ASSUME NEW j \in 0 .. Len(todo) PROVE After(file, todo, j) \in SUBSET Declaring(Said)
  <2>1. \A k \in 1 .. j : k \in DOMAIN todo
    BY <1>1
  <2>2. Due(todo, j) \subseteq Declaring(Said)
    BY <1>3, <2>1 DEF Due, Declaring
  <2> QED BY <1>2, <2>2 DEF After, Later, Filed
<1>6. ASSUME NEW j \in DOMAIN todo, NEW k \in DOMAIN todo, todo[j].line.kind = "node", todo[k].line.kind = "node",
             todo[j].line.id = todo[k].line.id
      PROVE  todo[j].line = todo[k].line
  <2>1. PICK a, b : a = todo[j].line /\ b = todo[k].line
    OBVIOUS
  <2>2. a \in Declaring(Said) /\ b \in Declaring(Said) /\ {b} \in SUBSET Declaring(Said) /\ a.id = b.id
    BY <1>3, <1>6, <2>1 DEF Declaring
  <2>3. Alone({b}, a)
    BY <2>2, SaidFits
  <2>4. CASE a.id < 0
    <3>1. ~(a.id > 0)
      <4>1. a.id \in Int
        BY <2>2, SaidFits, Identifiers DEF Nodes
      <4> QED BY <2>4, <4>1
    <3>2. ~(j > 1) /\ ~(k > 1)
      BY <1>6, <2>1, <2>2, <3>1 DEF TodoKept
    <3>3. j = k
      BY <1>1, <3>2
    <3> QED BY <3>3
  <2>5. CASE ~(a.id < 0)
    BY <2>1, <2>2, <2>3, <2>5 DEF Alone
  <2> QED BY <2>4, <2>5
<1>7. \A j \in DOMAIN todo : /\ Declaring({todo[j].line}) \in SUBSET Declaring(Said)
                             /\ Declaring(Entering(todo[j])) \in SUBSET Declaring(Said)
  BY <1>3 DEF Declaring
<1> QED BY <1>2, <1>4, <1>5, <1>6, <1>7

(* What the next append adds.                                              *)
LEMMA AfterOne ==
    ASSUME TypeInv, CursorInv, TodoKept, NEW j \in DOMAIN todo
    PROVE  After(file, todo, j) = Later(After(file, todo, j - 1), Declaring({todo[j].line}))
<1>1. Len(todo) \in Nat /\ j \in 1 .. Len(todo)
  BY DEF TypeInv, TodoTyped
<1>2. PICK A : A = Due(todo, j - 1)
  OBVIOUS
<1>3. PICK B : B = Declaring({todo[j].line})
  OBVIOUS
<1>4. Declaring(A) = A /\ Declaring(B) = B
  BY <1>2, <1>3 DEF Due, Declaring
<1>5. Due(todo, j) = A \cup B
  <2>1. \A k : k \in 1 .. j <=> k \in 1 .. j - 1 \/ k = j
    BY <1>1
  <2> QED BY <1>2, <1>3, <2>1 DEF Due, Declaring
<1>6. ASSUME NEW a \in A, NEW b \in B, a.id = b.id PROVE a = b
  <2>1. PICK k \in 1 .. j - 1 : a = todo[k].line
    BY <1>2 DEF Due, Declaring
  <2>2. k \in DOMAIN todo /\ a.kind = "node"
    BY <1>1, <1>2, <1>4, <2>1 DEF TypeInv, TodoTyped, Declaring
  <2>3. b = todo[j].line /\ b.kind = "node"
    BY <1>3 DEF Declaring
  <2> QED BY <1>6, <2>1, <2>2, <2>3, AfterLines
<1>7. Later(Later(Filed, A), B) = Later(Filed, A \cup B)
  BY <1>4, <1>6, LaterLater
<1> QED BY <1>2, <1>3, <1>5, <1>7 DEF After, Filed

(* K keeps the messages, and for those of M what is carried in L and how   *)
(* it is sorted.                                                           *)
Keeps(K, L, M) ==
    /\ \A o \in L : o.id > 0 => o \in K
    /\ \A m \in M : (\A h : Carries(L, m, h) => Carries(K, m, h)) /\ (Sorted(L, m) => Sorted(K, m))

(* So does the file as the appends are made.                               *)
LEMMA AfterKeeps ==
    ASSUME TypeInv, CursorInv, TodoKept, NEW j \in DOMAIN todo
    PROVE  Keeps(After(file, todo, j), After(file, todo, j - 1), Live)
<1>1. Len(todo) \in Nat /\ j \in 1 .. Len(todo) /\ j - 1 \in 0 .. Len(todo)
  BY DEF TypeInv, TodoTyped
<1>2. PICK L : L = After(file, todo, j - 1)
  OBVIOUS
<1>3. PICK K : K = After(file, todo, j)
  OBVIOUS
<1>4. PICK l : l = todo[j].line
  OBVIOUS
<1>5. K = Later(L, Declaring({l})) /\ L \in SUBSET Declaring(Said) /\ Declaring({l}) \in SUBSET Declaring(Said)
  BY <1>1, <1>2, <1>3, <1>4, AfterOne, AfterLines
<1>6. CASE l.kind # "node"
  <2>1. Declaring({l}) = {} /\ Declared({}) = {}
    BY <1>6 DEF Declaring, Declared
  <2>2. K = L
    BY <1>5, <2>1 DEF Later
  <2> QED BY <1>2, <1>3, <2>2 DEF Keeps
<1>7. CASE l.kind = "node"
  <2>1. Declaring({l}) = {l}
    BY <1>7 DEF Declaring
  <2>2. l \in Declaring(Said) /\ K = Later(L, {l})
    BY <1>5, <2>1
  <2>3. L \in SUBSET Nodes /\ l \in Nodes /\ Alone(L, l)
    BY <1>5, <2>2, SaidFits
  <2>4. PICK rank : Ranked(rank) /\ \A o \in Declaring(Said) : Linked(rank, o)
    BY SaidFits
  <2>5. \A o \in L : Linked(rank, o)
    BY <1>5, <2>4
  <2>6. \A m \in Live : Fits(L, l, m)
    BY <1>2, <1>4, <1>7 DEF TodoKept
  <2>7. Joined(K, L, l)
    BY <2>2, <2>3, LaterLine
  <2>8. ASSUME NEW o \in L, o.id > 0 PROVE o \in K
    <3>1. l.id < 0 /\ o.id = l.id => FALSE
      <4>1. o.id \in Int
        BY <2>3, Identifiers DEF Nodes
      <4> QED BY <2>8, <4>1
    <3> QED BY <2>7, <3>1 DEF Joined
  <2>9. ASSUME NEW m \in Live
        PROVE  (\A h : Carries(L, m, h) => Carries(K, m, h)) /\ (Sorted(L, m) => Sorted(K, m))
    <3>1. Fits(L, l, m)
      BY <2>6
    <3>2. \A h : Carries(L, m, h) => Carries(K, m, h)
      BY <2>2, <2>3, <2>4, <2>5, <3>1, FitKeeps
    <3>3. Sorted(L, m) => Sorted(K, m)
      BY <2>2, <2>3, <2>4, <2>5, <3>1, FitSorts
    <3> QED BY <3>2, <3>3
  <2> QED BY <1>2, <1>3, <2>8, <2>9 DEF Keeps
<1> QED BY <1>6, <1>7

(* Keeping is transitive. *)
LEMMA KeepsOn ==
    ASSUME NEW K, NEW L, NEW M, Keeps(K, L, M)
    PROVE  /\ Keeps(L, L, M)
           /\ \A l : Backed(l, L, M) => Backed(l, K, M)
           /\ \A N \in SUBSET M : Keeps(K, L, N)
BY DEF Keeps, Backed

(* However an append ends, unless it spoils the file, what was said in the *)
(* file is kept, and the head stays where all that was reported persisted  *)
(* is carried.                                                             *)
LEMMA FileGrows ==
    ASSUME TypeInv, CursorInv, LossInv, ~spoiled',
           \/ DiskSame
           \/ todo # <<>> /\ (Written(todo[1].line) \/ Torn)
           \/ /\ todo # <<>> /\ tail = "clean"
              /\ file' = Add(file, todo[1].line) /\ before' = file /\ UNCHANGED spoiled
    PROVE  /\ ~spoiled /\ HoldInv /\ DiskKept /\ ConvKept /\ TodoKept /\ RunInv /\ FreshKept
           /\ Keeps(Filed', Filed, Live)
           /\ \A m \in told : Carries(Filed', m, file'.head)
           /\ Filed' = Filed \/ (todo # <<>> /\ Filed' = After(file, todo, 1))
           /\ todo # <<>> /\ Written(todo[1].line) =>
                /\ Filed' = After(file, todo, 1)
                /\ file'.head = IF todo[1].line.kind = "head" THEN todo[1].line.id ELSE file.head
           /\ \A l \in Filed' : l \in Filed \/ l \in Declaring(Asked(todo))
<1>1. ~spoiled /\ (file' = file \/ (todo # <<>> /\ file' = Add(file, todo[1].line)))
      /\ (todo # <<>> /\ Written(todo[1].line) => file' = Add(file, todo[1].line))
  BY DEF DiskSame, Written, Torn, TypeInv, DiskTyped
<1>2. HoldInv /\ DiskKept /\ ConvKept /\ TodoKept /\ RunInv /\ FreshKept
  BY <1>1 DEF LossInv
<1>3. Filed' = Declaring(LinesOf(file'))
  BY DEF Filed
<1>4. CASE file' = file /\ ~(todo # <<>> /\ Written(todo[1].line))
  <2>1. Filed' = Filed
    BY <1>3, <1>4 DEF Filed
  <2>2. Keeps(Filed', Filed, Live)
    BY <2>1 DEF Keeps
  <2>3. \A m \in told : Carries(Filed', m, file'.head)
    BY <1>2, <1>4, <2>1 DEF DiskKept
  <2> QED BY <1>1, <1>2, <1>4, <2>1, <2>2, <2>3
<1>5. CASE todo # <<>> /\ file' = Add(file, todo[1].line)
  <2>1. todo[1].line \in Lines /\ 1 \in DOMAIN todo /\ file \in Stores /\ Keyed(file.nodes)
    BY <1>5, FirstItem DEF TypeInv, TodoTyped, DiskTyped, CursorInv, Books
  <2>2. PICK line \in Lines : line = todo[1].line
    BY <2>1
  <2>3. /\ Filed' = Later(Filed, Declaring({line}))
        /\ file'.head = IF line.kind = "head" THEN line.id ELSE file.head
    BY <1>3, <1>5, <2>1, <2>2, AddFiles DEF Filed
  <2>4. After(file, todo, 1) = Later(After(file, todo, 0), Declaring({line})) /\ After(file, todo, 0) = Filed
    <3>1. 1 - 1 = 0
      OBVIOUS
    <3> QED BY <1>2, <2>1, <2>2, <3>1, AfterOne, AfterLines
  <2>5. Filed' = After(file, todo, 1)
    BY <2>3, <2>4
  <2>6. Keeps(Filed', Filed, Live)
    <3>1. 1 - 1 = 0
      OBVIOUS
    <3> QED BY <1>2, <2>1, <2>4, <2>5, <3>1, AfterKeeps
  <2>7. ASSUME NEW m \in told PROVE Carries(Filed', m, file'.head)
    <3>1. m \in Live
      BY DEF Live
    <3>2. CASE line.kind = "head"
      <4>1. 1 - 1 = 0
        OBVIOUS
      <4>2. Carries(Filed, m, line.id)
        BY <1>2, <2>1, <2>2, <2>4, <3>2, <4>1 DEF TodoKept
      <4> QED BY <2>3, <2>6, <3>1, <3>2, <4>2 DEF Keeps
    <3>3. CASE line.kind # "head"
      <4>1. Carries(Filed, m, file.head)
        BY <1>2 DEF DiskKept
      <4> QED BY <2>3, <2>6, <3>1, <3>3, <4>1 DEF Keeps
    <3> QED BY <3>2, <3>3
  <2>8. line \in Asked(todo)
    BY <2>1, <2>2 DEF Asked
  <2>9. \A l \in Filed' : l \in Filed \/ l \in Declaring(Asked(todo))
    BY <2>3, <2>8 DEF Later, Declaring
  <2> QED BY <1>1, <1>2, <1>5, <2>2, <2>3, <2>5, <2>6, <2>7, <2>9
<1> QED BY <1>1, <1>4, <1>5

(* The appends left behind the first one add to the file as it is then.    *)
LEMMA AfterShift ==
    ASSUME TypeInv, CursorInv, TodoKept, todo # <<>>, NEW rest, rest = Tail(todo),
           NEW f, Declaring(LinesOf(f)) = After(file, todo, 1)
    PROVE  /\ Len(rest) = Len(todo) - 1 /\ DOMAIN rest = 1 .. Len(rest) /\ Len(rest) \in Nat
           /\ \A j \in DOMAIN rest : j + 1 \in DOMAIN todo /\ rest[j] = todo[j + 1]
           /\ \A j \in 0 .. Len(rest) : After(f, rest, j) = After(file, todo, j + 1)
<1>1. /\ Len(rest) = Len(todo) - 1 /\ DOMAIN rest = 1 .. Len(rest) /\ Len(rest) \in Nat
      /\ DOMAIN todo = 1 .. Len(todo) /\ Len(todo) \in Nat /\ 1 \in DOMAIN todo
      /\ \A j \in DOMAIN rest : rest[j] = todo[j + 1]
  BY TailIsWellFormed DEF TypeInv, TodoTyped
<1>2. \A j \in DOMAIN rest : j + 1 \in DOMAIN todo
  BY <1>1
<1>3. ASSUME NEW j \in 0 .. Len(rest) PROVE After(f, rest, j) = After(file, todo, j + 1)
  <2>1. PICK A : A = Declaring({todo[1].line})
    OBVIOUS
  <2>2. PICK B : B = Due(rest, j)
    OBVIOUS
  <2>3. Declaring(A) = A /\ Declaring(B) = B
    BY <2>1, <2>2 DEF Due, Declaring
  <2>4. \A k \in 1 .. j : k \in DOMAIN rest /\ k + 1 \in DOMAIN todo /\ rest[k] = todo[k + 1] /\ k + 1 \in 1 .. j + 1
    BY <1>1, <1>2
  <2>5. Due(todo, j + 1) = A \cup B
    <3>1. \A k \in 1 .. j + 1 : k = 1 \/ (k - 1 \in 1 .. j /\ todo[k] = rest[k - 1])
      <4> TAKE k \in 1 .. j + 1
      <4>1. k = 1 \/ (k - 1 \in 1 .. j /\ (k - 1) + 1 = k)
        OBVIOUS
      <4> QED BY <2>4, <4>1
    <3>2. 1 \in 1 .. j + 1
      OBVIOUS
    <3>3. {todo[k].line : k \in 1 .. j + 1} = {todo[1].line} \cup {rest[k].line : k \in 1 .. j}
      BY <2>4, <3>1, <3>2
    <3> QED BY <2>1, <2>2, <3>3 DEF Due, Declaring
  <2>6. ASSUME NEW a \in A, NEW b \in B, a.id = b.id PROVE a = b
    <3>1. PICK k \in 1 .. j : b = rest[k].line
      BY <2>2 DEF Due, Declaring
    <3>2. k + 1 \in DOMAIN todo /\ b = todo[k + 1].line /\ b.kind = "node"
      BY <2>2, <2>3, <2>4, <3>1 DEF Declaring
    <3>3. a = todo[1].line /\ a.kind = "node"
      BY <2>1 DEF Declaring
    <3> QED BY <1>1, <2>6, <3>2, <3>3, AfterLines
  <2>7. Later(Later(Filed, A), B) = Later(Filed, A \cup B)
    BY <2>3, <2>6, LaterLater
  <2>8. After(file, todo, 1) = Later(Filed, A)
    <3>1. PICK i \in DOMAIN todo : i = 1 /\ i - 1 = 0
      BY <1>1
    <3>2. After(file, todo, i) = Later(After(file, todo, i - 1), Declaring({todo[i].line}))
      BY AfterOne
    <3>3. After(file, todo, 0) = Filed
      BY AfterLines
    <3> QED BY <2>1, <3>1, <3>2, <3>3
  <2> QED BY <2>2, <2>5, <2>7, <2>8 DEF After, Filed
<1> QED BY <1>1, <1>2, <1>3

(* What an append enters into memory.                                      *)
LEMMA AppendEnters ==
    ASSUME TypeInv, CursorInv, appendRecord
    PROVE  /\ Stored' \subseteq Stored \cup Declaring(Entering(todo[1]))
           /\ store'.head = store.head \/ (\E l \in Entering(todo[1]) : l.kind = "head" /\ store'.head = l.id)
           /\ DOMAIN store'.nodes = DOMAIN store.nodes \cup Declared(Entering(todo[1]))
           /\ todo[1].mem # <<>> /\ todo[1].line.kind = "head" => store'.head = todo[1].line.id
<1>1. /\ todo # <<>> /\ store' = AddAll([store EXCEPT !.cursor = todo[1].cursor], todo[1].mem)
  BY DEF appendRecord
<1>2. /\ 1 \in DOMAIN todo /\ todo[1].line \in Lines /\ todo[1].mem \in Seq(Lines) /\ Len(todo[1].mem) \in 0 .. 2
      /\ todo[1].cursor \in Ident
  BY <1>1, FirstItem DEF TypeInv, TodoTyped
<1>3. PICK mem \in Seq(Lines) : mem = todo[1].mem
  BY <1>2
<1>4. PICK tried \in Stores : tried = [store EXCEPT !.cursor = todo[1].cursor]
  BY <1>2, CursorIsTyped DEF TypeInv, MemoryTyped
<1>5. /\ LinesOf(tried) \subseteq LinesOf(store) \cup {Mark("cursor", todo[1].cursor)}
      /\ tried.nodes = store.nodes /\ tried.head = store.head
  BY <1>2, <1>4, CursorLines DEF TypeInv, MemoryTyped
<1>6. PICK E : E = {mem[i] : i \in DOMAIN mem}
  OBVIOUS
<1>7. E = Entering(todo[1])
  BY <1>3, <1>6 DEF Entering
<1>8. store' = AddAll(tried, mem)
  BY <1>1, <1>3, <1>4
<1>9. /\ LinesOf(store') \subseteq LinesOf(tried) \cup E
      /\ DOMAIN store'.nodes = DOMAIN tried.nodes \cup Declared(E)
      /\ store'.head = tried.head \/ (\E l \in E : l.kind = "head" /\ store'.head = l.id)
  <2>1. Keyed(tried.nodes) /\ Len(mem) \in 0 .. 2
    BY <1>2, <1>3, <1>5 DEF CursorInv, Books
  <2> QED BY <1>6, <1>8, <2>1, AddAllLines
<1>10. Stored' \subseteq Stored \cup Declaring(E)
  <2>1. Stored' = Declaring(LinesOf(store'))
    BY DEF Stored
  <2> QED BY <1>5, <1>9, <2>1 DEF Stored, Declaring, Mark
<1>11. ASSUME todo[1].mem # <<>>, todo[1].line.kind = "head" PROVE store'.head = todo[1].line.id
  <2>1. PICK line \in Lines : line = todo[1].line
    BY <1>2
  <2>2. mem = <<line>> \/ (Len(mem) = 2 /\ mem[2] = line)
    BY <1>2, <1>3, <1>11, <2>1 DEF TypeInv, TodoTyped, WellFormed
  <2>3. \E s \in Stores : store' = Add(s, line)
    <3>1. CASE mem = <<line>>
      <4>1. Len(mem) = 1 /\ mem[1] = line /\ mem # <<>>
        BY <3>1
      <4> QED BY <1>8, <4>1 DEF AddAll
    <3>2. CASE Len(mem) = 2 /\ mem[2] = line
      <4>0. 1 \in DOMAIN mem /\ mem # <<>>
        BY <3>2
      <4>1. mem[1] \in Lines /\ mem # <<>>
        BY <4>0, ElementOfSeq
      <4>2. AddAll(tried, mem) = Add(Add(tried, mem[1]), mem[2])
        BY <3>2, <4>1 DEF AddAll
      <4> QED BY <1>8, <3>2, <4>1, <4>2, AddIsTyped
    <3> QED BY <2>2, <3>1, <3>2
  <2>4. PICK s \in Stores : store' = Add(s, line)
    BY <2>3
  <2> QED BY <1>11, <2>1, <2>4 DEF Add, Stores
<1> QED BY <1>5, <1>7, <1>9, <1>10, <1>11

-----------------------------------------------------------------------------
(* Appends, failures and crashes keep it *)

(* An append keeps what is not forgotten. *)
LEMMA appendHolds ==
    ASSUME TypeInv, CursorInv, LossInv, appendRecord
    PROVE  LossInv'
<1> SUFFICES ASSUME ~spoiled' PROVE (HoldInv /\ DiskKept /\ ConvKept /\ TodoKept /\ RunInv /\ FreshKept)'
  BY DEF LossInv
<1>1. /\ todo # <<>> /\ Written(todo[1].line) /\ todo' = Tail(todo)
      /\ UNCHANGED <<conv, stage, hist, next, fresh, told, fed, dirty, used>>
  BY DEF appendRecord
<1>2. /\ HoldInv /\ DiskKept /\ ConvKept /\ TodoKept /\ RunInv /\ FreshKept
      /\ Keeps(Filed', Filed, Live)
      /\ \A m \in told : Carries(Filed', m, file'.head)
      /\ Filed' = After(file, todo, 1)
      /\ file'.head = IF todo[1].line.kind = "head" THEN todo[1].line.id ELSE file.head
      /\ \A l \in Filed' : l \in Filed \/ l \in Declaring(Asked(todo))
  BY <1>1, FileGrows
<1>3. /\ Stored' \subseteq Stored \cup Declaring(Entering(todo[1]))
      /\ store'.head = store.head \/ (\E l \in Entering(todo[1]) : l.kind = "head" /\ store'.head = l.id)
      /\ DOMAIN store'.nodes = DOMAIN store.nodes \cup Declared(Entering(todo[1]))
      /\ todo[1].mem # <<>> /\ todo[1].line.kind = "head" => store'.head = todo[1].line.id
  BY AppendEnters
<1>4. /\ Len(todo') = Len(todo) - 1 /\ DOMAIN todo' = 1 .. Len(todo') /\ Len(todo') \in Nat
      /\ \A j \in DOMAIN todo' : j + 1 \in DOMAIN todo /\ todo'[j] = todo[j + 1]
      /\ \A j \in 0 .. Len(todo') : After(file', todo', j) = After(file, todo, j + 1)
  <2>1. Declaring(LinesOf(file')) = After(file, todo, 1)
    BY <1>2 DEF Filed
  <2> QED BY <1>1, <1>2, <2>1, AfterShift
<1>5. 1 \in DOMAIN todo /\ Len(todo) \in Nat /\ DOMAIN todo = 1 .. Len(todo) /\ Live' = Live /\ stage \in DOMAIN afterFailure
  BY <1>1, FirstItem DEF TypeInv, TodoTyped, Live
<1>6. After(file, todo, 0) = Filed
  BY <1>2, AfterLines
<1>7. Declaring(Asked(todo')) \subseteq Declaring(Asked(todo)) /\ Declaring(Entering(todo[1])) \subseteq Declaring(Asked(todo))
  BY <1>4, <1>5 DEF Asked, Declaring
<1>8. HoldInv'
  BY <1>1, <1>2, <1>3, <1>5, <1>7 DEF HoldInv
<1>9. PICK one \in DOMAIN todo : one = 1 /\ one - 1 = 0
  BY <1>5
<1>10. /\ \A l \in Declaring(Entering(todo[1])) : Backed(l, Filed', Live)
       /\ \A l \in {todo[1].line} \cup Entering(todo[1]) : l.kind = "head" => \A m \in told : Carries(Filed, m, l.id)
  BY <1>2, <1>6, <1>9 DEF TodoKept
<1>11. DiskKept'
  <2>1. ASSUME NEW m \in Live PROVE Sorted(Filed', m)
    BY <1>2 DEF DiskKept, Keeps
  <2>2. ASSUME NEW l \in Stored' PROVE Backed(l, Filed', Live)
    <3>1. CASE l \in Stored
      BY <1>2, <3>1, KeepsOn DEF DiskKept
    <3>2. CASE l \in Declaring(Entering(todo[1]))
      BY <1>10, <3>2
    <3> QED BY <1>3, <2>2, <3>1, <3>2
  <2>3. ASSUME NEW m \in told PROVE stage # "down" => Carries(Filed', m, store'.head)
    <3>1. m \in Live /\ stage # "down"
      BY <1>5 DEF Live, afterFailure
    <3>2. Carries(Filed, m, store'.head)
      BY <1>2, <1>3, <1>10, <3>1 DEF DiskKept
    <3> QED BY <1>2, <3>1, <3>2 DEF Keeps
  <2> QED BY <1>1, <1>2, <1>5, <2>1, <2>2, <2>3 DEF DiskKept
<1>12. ConvKept'
  <2>1. ASSUME NEW m \in Live, NEW i \in DOMAIN conv, NEW k \in DOMAIN conv, i <= k, m \in conv[i].holds
        PROVE  Carries(Filed', m, conv[k].id)
    <3>1. Carries(Filed, m, conv[k].id)
      BY <1>2, <2>1 DEF ConvKept
    <3> QED BY <1>2, <3>1 DEF Keeps
  <2> QED BY <1>1, <1>5, <2>1 DEF ConvKept
<1>13. TodoKept'
  <2>1. ASSUME NEW j \in DOMAIN todo'
        PROVE  /\ j > 1 /\ todo'[j].line.kind = "node" => todo'[j].line.id > 0
               /\ todo'[j].line.kind = "node" => \A m \in Live : Fits(After(file', todo', j - 1), todo'[j].line, m)
               /\ \A l \in Declaring(Entering(todo'[j])) : Backed(l, After(file', todo', j), Live)
               /\ \A l \in {todo'[j].line} \cup Entering(todo'[j]) :
                    l.kind = "head" => \A m \in told : Carries(After(file', todo', j - 1), m, l.id)
    <3>1. PICK k \in DOMAIN todo : k = j + 1 /\ todo'[j] = todo[k] /\ k > 1
      BY <1>4
    <3>2. j \in 0 .. Len(todo') /\ j - 1 \in 0 .. Len(todo') /\ (j - 1) + 1 = k - 1
      BY <1>4, <3>1
    <3>3. After(file', todo', j) = After(file, todo, k) /\ After(file', todo', j - 1) = After(file, todo, k - 1)
      BY <1>4, <3>1, <3>2
    <3> QED BY <1>2, <3>1, <3>3 DEF TodoKept
  <2> QED BY <1>1, <1>5, <2>1 DEF TodoKept
<1>14. RunInv'
  BY <1>1, <1>5 DEF RunInv, afterFailure
<1>15. ASSUME NEW m \in Live, Final(m) PROVE Final(m)'
  <2>1. todo[Len(todo)].line.kind = "head" /\ Carries(After(file, todo, Len(todo)), m, todo[Len(todo)].line.id)
    BY <1>1, <1>15 DEF Final
  <2>2. CASE todo' = <<>>
    <3>1. Len(todo) = 1
      BY <1>4, <2>2
    <3>2. todo[1].line.kind = "head" /\ Carries(Filed', m, todo[1].line.id)
      BY <1>2, <2>1, <3>1
    <3>3. todo[1].mem # <<>>
      <4>1. 1 + 1 \notin DOMAIN todo
        BY <1>5, <3>1
      <4>2. WellFormed(todo)
        BY DEF TypeInv, TodoTyped
      <4> QED BY <1>5, <4>1, <4>2 DEF WellFormed
    <3>4. store'.head = todo[1].line.id /\ file'.head = todo[1].line.id
      BY <1>2, <1>3, <3>2, <3>3
    <3> QED BY <2>2, <3>2, <3>4 DEF Final
  <2>3. CASE todo' # <<>>
    <3>1. Len(todo') \in DOMAIN todo' /\ Len(todo') + 1 = Len(todo) /\ Len(todo') \in 0 .. Len(todo')
      BY <1>4, <1>5, <2>3
    <3>2. todo'[Len(todo')] = todo[Len(todo)] /\ After(file', todo', Len(todo')) = After(file, todo, Len(todo))
      BY <1>4, <3>1
    <3> QED BY <2>1, <2>3, <3>2 DEF Final
  <2> QED BY <2>2, <2>3
<1>16. ASSUME NEW i \in DOMAIN hist, hist[i].id \notin DOMAIN store.nodes, stage = "runCompact"
       PROVE  hist[i].id \notin DOMAIN store'.nodes
  <2>1. hist[i].id \in Coming
    BY <1>16 DEF Coming, Ids
  <2>2. hist[i].id \notin Declared(Said)
    BY <2>1, ComingIsNew
  <2>3. Declared(Entering(todo[1])) \subseteq Declared(Said)
    BY <1>7 DEF Declared, Declaring, Said
  <2> QED BY <1>3, <1>16, <2>2, <2>3
<1>17. FreshKept'
  <2>1. ASSUME stage = "runCompact", NEW m \in fresh
        PROVE  \/ Final(m)'
               \/ /\ Clear(After(file', todo', Len(todo')), m)
                  /\ \E i \in 2 .. Len(hist) : hist[i].id \notin DOMAIN store'.nodes /\ m \in hist[i].holds
    <3>1. CASE Final(m)
      BY <1>15, <3>1 DEF Live
    <3>2. CASE ~Final(m)
      <4>1. /\ Clear(After(file, todo, Len(todo)), m)
            /\ \E i \in 2 .. Len(hist) : hist[i].id \notin DOMAIN store.nodes /\ m \in hist[i].holds
        BY <1>2, <2>1, <3>2 DEF FreshKept
      <4>2. PICK i \in 2 .. Len(hist) : hist[i].id \notin DOMAIN store.nodes /\ m \in hist[i].holds
        BY <4>1
      <4>3. hist \in Seq(Messages) /\ i \in DOMAIN hist
        BY DEF TypeInv, MemoryTyped
      <4>4. hist[i].id \notin DOMAIN store'.nodes
        BY <1>16, <2>1, <4>2, <4>3
      <4>5. Len(todo') \in 0 .. Len(todo') /\ Len(todo') + 1 = Len(todo)
        BY <1>4, <1>5
      <4>6. After(file', todo', Len(todo')) = After(file, todo, Len(todo))
        BY <1>4, <4>5
      <4> QED BY <4>1, <4>2, <4>4, <4>6
    <3> QED BY <3>1, <3>2
  <2>2. ASSUME stage = "commit", NEW m \in fresh PROVE Final(m)'
    BY <1>2, <1>15, <2>2 DEF FreshKept, Live
  <2>3. ASSUME stage \in {"checkpoint", "refresh"}
        PROVE  /\ \A m \in fresh : Carries(Filed', m, store'.head) /\ Carries(Filed', m, file'.head)
               /\ \A j \in DOMAIN todo' : \A l \in {todo'[j].line} \cup Entering(todo'[j]) : l.kind # "head"
    <3>1. /\ \A m \in fresh : Carries(Filed, m, store.head) /\ Carries(Filed, m, file.head)
          /\ \A j \in DOMAIN todo : \A l \in {todo[j].line} \cup Entering(todo[j]) : l.kind # "head"
      BY <1>2, <2>3 DEF FreshKept
    <3>2. store'.head = store.head /\ file'.head = file.head
      BY <1>2, <1>3, <1>5, <3>1
    <3>3. ASSUME NEW m \in fresh PROVE Carries(Filed', m, store'.head) /\ Carries(Filed', m, file'.head)
      <4>1. m \in Live
        BY DEF Live
      <4> QED BY <1>2, <3>1, <3>2, <4>1 DEF Keeps
    <3> QED BY <1>4, <3>1, <3>3
  <2> QED BY <1>1, <2>1, <2>2, <2>3 DEF FreshKept
<1> QED BY <1>8, <1>11, <1>12, <1>13, <1>14, <1>17

(* So does an append that fails. *)
LEMMA failureHolds ==
    ASSUME TypeInv, CursorInv, LossInv, AppendFails
    PROVE  LossInv'
<1> SUFFICES ASSUME ~spoiled' PROVE (HoldInv /\ DiskKept /\ ConvKept /\ TodoKept /\ RunInv /\ FreshKept)'
  BY DEF LossInv
<1>1. /\ todo # <<>> /\ todo' = <<>> /\ stage' = afterFailure[stage]
      /\ DiskSame \/ Written(todo[1].line) \/ Torn
      /\ store' = [store EXCEPT !.cursor = todo[1].cursor]
      /\ UNCHANGED <<conv, hist, next, fresh, told, fed>>
  BY DEF AppendFails
<1>2. /\ ~spoiled /\ HoldInv /\ DiskKept /\ ConvKept /\ TodoKept /\ RunInv /\ FreshKept
      /\ Keeps(Filed', Filed, Live)
      /\ \A m \in told : Carries(Filed', m, file'.head)
      /\ Written(todo[1].line) => file'.head = IF todo[1].line.kind = "head" THEN todo[1].line.id ELSE file.head
      /\ \A l \in Filed' : l \in Filed \/ l \in Declaring(Asked(todo))
  BY <1>1, FileGrows
<1>3. /\ stage \in DOMAIN afterFailure /\ 1 \in DOMAIN todo /\ todo[1].cursor \in Ident /\ store \in Stores
      /\ DOMAIN todo' = {}
  BY <1>1, FirstItem DEF TypeInv, TodoTyped, MemoryTyped
<1>4. /\ LinesOf(store') \subseteq LinesOf(store) \cup {Mark("cursor", todo[1].cursor)}
      /\ store'.nodes = store.nodes /\ store'.head = store.head
  BY <1>1, <1>3, CursorLines
<1>5. Stored' \subseteq Stored /\ Live' = Live
  <2>1. Stored' = Declaring(LinesOf(store'))
    BY DEF Stored
  <2> QED BY <1>1, <1>4, <2>1 DEF Stored, Declaring, Mark, Live
<1>6. Declaring(Asked(todo')) = {}
  BY <1>3 DEF Asked, Declaring
<1>7. /\ stage' \in {"failed", "refresh"} => stage \in {"runCompact", "commit", "checkpoint"}
      /\ stage' = "refresh" => stage = "checkpoint"
      /\ stage' \in {"failed", "refresh", "idle", "compress"}
      /\ stage' \notin Running => stage \notin Running
      /\ stage # "down"
  BY <1>1, <1>3 DEF afterFailure, Running
<1>8. HoldInv'
  BY <1>1, <1>2, <1>5, <1>6, <1>7 DEF HoldInv
<1>9. DiskKept'
  <2>1. ASSUME NEW m \in Live PROVE Sorted(Filed', m)
    BY <1>2 DEF DiskKept, Keeps
  <2>2. ASSUME NEW l \in Stored' PROVE Backed(l, Filed', Live)
    BY <1>2, <1>5, <2>2, KeepsOn DEF DiskKept
  <2>3. ASSUME NEW m \in told PROVE Carries(Filed', m, store'.head)
    <3>1. m \in Live /\ Carries(Filed, m, store.head)
      BY <1>2, <1>7 DEF Live, DiskKept
    <3> QED BY <1>2, <1>4, <3>1 DEF Keeps
  <2> QED BY <1>1, <1>2, <1>5, <2>1, <2>2, <2>3 DEF DiskKept
<1>10. ConvKept'
  <2>1. ASSUME NEW m \in Live, NEW i \in DOMAIN conv, NEW k \in DOMAIN conv, i <= k, m \in conv[i].holds
        PROVE  Carries(Filed', m, conv[k].id)
    <3>1. Carries(Filed, m, conv[k].id)
      BY <1>2, <2>1 DEF ConvKept
    <3> QED BY <1>2, <3>1 DEF Keeps
  <2> QED BY <1>1, <1>5, <2>1 DEF ConvKept
<1>11. TodoKept' /\ RunInv'
  BY <1>3, <1>7 DEF TodoKept, RunInv
<1>12. FreshKept'
  <2>1. ASSUME stage' = "refresh", NEW m \in fresh
        PROVE  Carries(Filed', m, store'.head) /\ Carries(Filed', m, file'.head)
    <3>1. /\ Carries(Filed, m, store.head) /\ Carries(Filed, m, file.head) /\ todo[1].line.kind # "head" /\ m \in Live
      BY <1>2, <1>3, <1>7, <2>1 DEF FreshKept, Live
    <3>2. file'.head = file.head
      BY <1>1, <1>2, <3>1 DEF DiskSame, Torn, TypeInv, DiskTyped
    <3> QED BY <1>2, <1>4, <3>1, <3>2 DEF Keeps
  <2> QED BY <1>1, <1>3, <1>7, <2>1 DEF FreshKept
<1> QED BY <1>8, <1>9, <1>10, <1>11, <1>12

(* And the end of the process or of the session. *)
LEMMA CrashHolds ==
    ASSUME TypeInv, CursorInv, LossInv, Crash \/ CloseSession
    PROVE  LossInv'
<1> SUFFICES ASSUME ~spoiled' PROVE (HoldInv /\ DiskKept /\ ConvKept /\ TodoKept /\ RunInv /\ FreshKept)'
  BY DEF LossInv
<1>1. /\ store' = Nothing /\ conv' = <<>> /\ todo' = <<>> /\ hist' = <<>> /\ fresh' = {} /\ stage' = "down"
      /\ next' = next /\ told' = told
  BY DEF Crash, CloseSession, Forget
<1>2. \/ DiskSame
      \/ todo # <<>> /\ (Written(todo[1].line) \/ Torn)
      \/ /\ todo # <<>> /\ tail = "clean"
         /\ file' = Add(file, todo[1].line) /\ before' = file /\ UNCHANGED spoiled
  BY DEF Crash, CloseSession, CutShort
<1>3. /\ HoldInv /\ DiskKept
      /\ Keeps(Filed', Filed, Live)
      /\ \A m \in told : Carries(Filed', m, file'.head)
      /\ \A l \in Filed' : l \in Filed \/ l \in Declaring(Asked(todo))
  BY <1>2, FileGrows
<1>4. Stored' = {} /\ Declaring(Asked(todo')) = {} /\ DOMAIN todo' = {} /\ DOMAIN conv' = {} /\ DOMAIN hist' = {}
  <2>1. Stored' = Declaring(LinesOf(Nothing))
    BY <1>1 DEF Stored
  <2>2. DOMAIN Nothing.nodes = {}
    BY DEF Nothing
  <2> QED BY <1>1, <2>1, <2>2 DEF Declaring, LinesOf, Mark, Asked
<1>5. Live' \subseteq Live /\ told \subseteq Live
  BY <1>1 DEF Live
<1>6. HoldInv'
  BY <1>1, <1>3, <1>4, <1>5 DEF HoldInv
<1>7. DiskKept'
  <2>1. ASSUME NEW m \in Live PROVE Sorted(Filed', m)
    BY <1>3 DEF DiskKept, Keeps
  <2> QED BY <1>1, <1>3, <1>4, <1>5, <2>1 DEF DiskKept
<1>8. ConvKept' /\ TodoKept' /\ RunInv' /\ FreshKept'
  BY <1>1, <1>4 DEF ConvKept, TodoKept, RunInv, FreshKept
<1> QED BY <1>6, <1>7, <1>8

-----------------------------------------------------------------------------
(* Marks and steps that append nothing keep it *)

(* Up a path everything stands under what is below it.                     *)
LEMMA PathUnder ==
    ASSUME TypeInv, CursorInv, NEW s \in Stores, LinesOf(s) \subseteq Said, Keyed(s.nodes),
           NEW L, \A l \in Declaring(LinesOf(s)) : l.id > 0 => l \in L,
           NEW h, NEW P, P = activePathIDs(s.nodes, h), NEW k \in 1 .. Len(P), NEW i \in 1 .. k
    PROVE  Under(L, P[k], P[i])
<1>1. PICK rank, F : Sound(rank, F, Said, Coming, fed)
  BY DEF CursorInv, TreeInv
<1>2. PICK n \in NodeMaps : n = s.nodes
  BY DEF Stores
<1>3. Ranked(rank) /\ Rooted(rank, n)
  BY <1>1, <1>2, PartIsRooted
<1>4. \A j \in 2 .. Len(P) : P[j] > 0 /\ P[j - 1] = n[P[j]].parent
  BY <1>2, <1>3, PathIsLinked
<1>5. P \in Seq(DOMAIN n) /\ Len(P) \in Nat /\ DOMAIN P = 1 .. Len(P) /\ k \in Nat
  BY <1>2, PathIsTyped
<1>6. Declaring(LinesOf(s)) = {n[j] : j \in DOMAIN n}
  BY <1>2, StoreLines
<1>7. SUFFICES ASSUME NEW G \in SUBSET Ident, Shut(G, L), P[k] \in G PROVE P[i] \in G
  BY DEF Under
<1>8. PICK S : S = {j \in 1 .. k : P[j] \in G}
  OBVIOUS
<1>9. ASSUME NEW j \in 2 .. k, j \in S PROVE j - 1 \in S
  <2>1. j \in 2 .. Len(P) /\ j - 1 \in 1 .. k
    BY <1>5
  <2>2. P[j] > 0 /\ P[j - 1] = n[P[j]].parent /\ P[j] \in DOMAIN n /\ P[j] \in G
    BY <1>4, <1>5, <1>8, <1>9, <2>1
  <2>3. n[P[j]] \in L /\ n[P[j]].id = P[j]
    BY <1>2, <1>6, <2>2 DEF Keyed
  <2>4. ~(P[j] < 0)
    <3>1. P[j] \in Int
      BY <1>2, <2>2, NodeMap, Identifiers
    <3> QED BY <2>2, <3>1
  <2>5. Source(n[P[j]]) = P[j - 1]
    BY <2>2, <2>3, <2>4 DEF Source
  <2>6. P[j - 1] \in G
    BY <1>7, <2>2, <2>3, <2>5 DEF Shut
  <2> QED BY <1>8, <2>1, <2>6
<1>10. k \in S
  BY <1>5, <1>7, <1>8
<1>11. i \in S
  BY <1>5, <1>9, <1>10, DownTheWalk
<1> QED BY <1>8, <1>11

(* What a message of a view holds is carried at each later one, if the     *)
(* lines back the nodes.                                                   *)
LEMMA ViewCarries ==
    ASSUME TypeInv, CursorInv, NEW s \in Stores, LinesOf(s) \subseteq Said, Keyed(s.nodes),
           NEW L, NEW M, \A l \in Declaring(LinesOf(s)) : Backed(l, L, M),
           NEW h, NEW V, V = buildActiveView(s.nodes, h)
    PROVE  \A m \in M : \A i, k \in DOMAIN V : i <= k /\ m \in V[i].holds => Carries(L, m, V[k].id)
<1>1. PICK n \in NodeMaps : n = s.nodes
  BY DEF Stores
<1>2. PICK P : P = activePathIDs(n, h)
  OBVIOUS
<1>3. /\ DOMAIN V = 1 .. Len(P) /\ Len(P) \in Nat
      /\ \A i \in 1 .. Len(P) : P[i] \in DOMAIN n /\ V[i].id = n[P[i]].id /\ V[i].holds = n[P[i]].holds
  BY <1>1, <1>2, ViewShows
<1>4. Declaring(LinesOf(s)) = {n[j] : j \in DOMAIN n}
  BY <1>1, StoreLines
<1> SUFFICES ASSUME NEW m \in M, NEW i \in DOMAIN V, NEW k \in DOMAIN V, i <= k, m \in V[i].holds
             PROVE  Carries(L, m, V[k].id)
  OBVIOUS
<1>5. i \in 1 .. k /\ k \in 1 .. Len(P) /\ i \in 1 .. Len(P)
  BY <1>3
<1>6. V[i].id = P[i] /\ V[k].id = P[k] /\ m \in n[P[i]].holds /\ n[P[i]].id = P[i] /\ n[P[i]] \in Declaring(LinesOf(s))
  BY <1>1, <1>3, <1>4, <1>5 DEF Keyed
<1>7. Carries(L, m, P[i])
  BY <1>6 DEF Backed
<1>8. Under(L, P[k], P[i])
  <2>1. \A l \in Declaring(LinesOf(s)) : l.id > 0 => l \in L
    BY DEF Backed
  <2> QED BY <1>1, <1>2, <1>5, <2>1, PathUnder
<1> QED BY <1>6, <1>7, <1>8, UnderCarries

(* Appends of marks add no line of a node.                                 *)
LEMMA MarksAdd ==
    ASSUME NEW f, NEW items, NEW j, \A k \in 1 .. j : items[k].line.kind # "node"
    PROVE  After(f, items, j) = Declaring(LinesOf(f))
<1>1. Due(items, j) = {} /\ Declared({}) = {}
  BY DEF Due, Declaring, Declared
<1> QED BY <1>1 DEF After, Later

(* A step that leaves the file alone and plans no line of a node: a        *)
(* message becomes live only with a new id, and persisted only where it is *)
(* carried.                                                                *)
Quiet ==
    /\ file' = file /\ store' \in {store, file} /\ next <= next'
    /\ \A m \in Live' : m \in Live \/ ~(m <= next)
    /\ Live' \subseteq 1 .. next' /\ (stage' \notin Running => fresh' = {})
    /\ \A m \in told' : Carries(Filed, m, file.head) /\ (stage' # "down" => Carries(Filed, m, store'.head))
    /\ conv' \in {conv, buildActiveView(store'.nodes, store'.head)}
    /\ \A i \in DOMAIN hist' : hist'[i].holds \subseteq 1 .. next'
    /\ \A j \in DOMAIN todo' : \A l \in {todo'[j].line} \cup Entering(todo'[j]) :
         l.kind # "node" /\ (l.kind = "head" => \A m \in told' : Carries(Filed, m, l.id))
    /\ RunInv' /\ FreshKept'

(* A step that leaves the file as it is keeps what is not forgotten.       *)
LEMMA QuietHolds ==
    ASSUME TypeInv, TypeInv', CursorInv, HoldInv, DiskKept, ConvKept, Quiet
    PROVE  LossInv'
<1>0. file' = file /\ store' \in {store, file} /\ next \in Nat /\ next' \in Nat /\ next <= next' /\ RunInv' /\ FreshKept'
  BY DEF Quiet, TypeInv, CountsTyped
<1>1. Filed' = Filed /\ 1 .. next \subseteq 1 .. next'
  <2>1. Filed' = Declaring(LinesOf(file'))
    BY DEF Filed
  <2> QED BY <1>0, <2>1 DEF Filed
<1>2. Stored' = Stored \/ Stored' = Filed
  <2>1. Stored' = Declaring(LinesOf(store'))
    BY DEF Stored
  <2> QED BY <1>0, <2>1 DEF Stored, Filed
<1>3. Filed \subseteq Nodes
  BY SaidFits DEF Filed, Said, Declaring
<1>4. \A l \in Filed : Backed(l, Filed, Live)
  BY LineCarries DEF Backed
<1>5. \A l \in Stored' : l.holds \subseteq 1 .. next /\ Backed(l, Filed, Live)
  BY <1>2, <1>4 DEF HoldInv, DiskKept
<1>6. ASSUME NEW l, l \in Filed \/ l \in Stored', NEW m \in Live', m \in l.holds PROVE m \in Live
  <2>1. m \in 1 .. next
    BY <1>5, <1>6 DEF HoldInv
  <2>2. m <= next
    BY <1>0, <2>1
  <2> QED BY <1>6, <2>2 DEF Quiet
<1>7. \A l \in Stored' : Backed(l, Filed, Live')
  BY <1>5, <1>6 DEF Backed
<1>8. store' \in Stores /\ Keyed(store'.nodes) /\ LinesOf(store') \subseteq Said
  BY <1>0 DEF TypeInv, DiskTyped, MemoryTyped, CursorInv, Books, Said
<1>9. DOMAIN todo' = 1 .. Len(todo') /\ Len(todo') \in Nat
  BY DEF TypeInv, TodoTyped
<1>10. Declaring(Asked(todo')) = {}
  BY DEF Quiet, Asked, Declaring, Mark
<1>11. PICK V : V = buildActiveView(store'.nodes, store'.head)
  OBVIOUS
<1>12. \A i \in DOMAIN V : V[i].holds \subseteq 1 .. next
  <2>1. PICK n \in NodeMaps : n = store'.nodes
    BY <1>8 DEF Stores
  <2>2. Stored' = {n[i] : i \in DOMAIN n}
    <3>1. Stored' = Declaring(LinesOf(store'))
      BY DEF Stored
    <3> QED BY <1>8, <2>1, <3>1, StoreLines
  <2>3. \A i \in DOMAIN V : \E j \in DOMAIN n : V[i].holds = n[j].holds
    BY <1>11, <2>1, ViewShows
  <2> QED BY <1>5, <2>2, <2>3
<1>13. \A i \in DOMAIN conv' : conv'[i].holds \subseteq 1 .. next
  BY <1>11, <1>12 DEF Quiet, HoldInv
<1>14. HoldInv'
  <2>1. Live' \subseteq 1 .. next' /\ (stage' \notin Running => fresh' = {})
    BY DEF Quiet
  <2>2. \A l \in Filed' \cup Stored' \cup Declaring(Asked(todo')) : l.holds \subseteq 1 .. next'
    BY <1>1, <1>5, <1>10 DEF HoldInv
  <2>3. \A i \in DOMAIN hist' : hist'[i].holds \subseteq 1 .. next'
    BY DEF Quiet
  <2> QED BY <1>1, <1>13, <2>1, <2>2, <2>3 DEF HoldInv
<1>15. DiskKept'
  <2>1. ASSUME NEW m \in Live' PROVE Sorted(Filed, m)
    <3>1. CASE m \in Live
      BY <3>1 DEF DiskKept
    <3>2. CASE m \notin Live
      <4>1. \A l \in Filed : m \notin l.holds
        BY <1>6, <3>2
      <4> QED BY <4>1 DEF Sorted
    <3> QED BY <3>1, <3>2
  <2>2. \A m \in told' : Carries(Filed, m, file'.head) /\ (stage' # "down" => Carries(Filed, m, store'.head))
    BY <1>0 DEF Quiet
  <2> QED BY <1>1, <1>7, <2>1, <2>2 DEF DiskKept
<1>16. ConvKept'
  <2>1. ASSUME NEW m \in Live', NEW i \in DOMAIN conv', NEW k \in DOMAIN conv', i <= k, m \in conv'[i].holds
        PROVE  Carries(Filed, m, conv'[k].id)
    <3>1. CASE conv' = V
      <4>1. Stored' = Declaring(LinesOf(store'))
        BY DEF Stored
      <4>2. \A l \in Declaring(LinesOf(store')) : Backed(l, Filed, Live')
        BY <1>7, <4>1
      <4>3. \A o \in Live' : \A a, b \in DOMAIN V : a <= b /\ o \in V[a].holds => Carries(Filed, o, V[b].id)
        BY <1>8, <1>11, <4>2, ViewCarries
      <4> QED BY <2>1, <3>1, <4>3
    <3>2. CASE conv' = conv
      <4>1. m \in 1 .. next
        BY <1>13, <2>1
      <4>2. m \in Live
        BY <1>0, <4>1 DEF Quiet
      <4> QED BY <2>1, <3>2, <4>2 DEF ConvKept
    <3> QED BY <1>11, <3>1, <3>2 DEF Quiet
  <2> QED BY <1>1, <2>1 DEF ConvKept
<1>17. TodoKept'
  <2>1. ASSUME NEW j \in DOMAIN todo' PROVE j - 1 \in 0 .. Len(todo') /\ After(file', todo', j - 1) = Filed
    <3>1. \A k \in 1 .. j - 1 : k \in DOMAIN todo'
      BY <1>9
    <3>2. \A k \in 1 .. j - 1 : todo'[k].line.kind # "node"
      BY <3>1 DEF Quiet
    <3>3. After(file', todo', j - 1) = Declaring(LinesOf(file'))
      BY <3>2, MarksAdd
    <3> QED BY <1>0, <1>9, <3>3 DEF Filed
  <2>2. ASSUME NEW j \in DOMAIN todo', NEW l \in {todo'[j].line} \cup Entering(todo'[j])
        PROVE  l.kind # "node" /\ (l.kind = "head" => \A m \in told' : Carries(Filed, m, l.id))
    BY <2>2 DEF Quiet
  <2> QED BY <2>1, <2>2 DEF TodoKept, Declaring
<1> QED BY <1>0, <1>14, <1>15, <1>16, <1>17 DEF LossInv

(* The steps that start and end a run, and those of the recovery, leave    *)
(* what is not forgotten.                                                  *)
LEMMA idleHolds ==
    ASSUME TypeInv, TypeInv', CursorInv, LossInv,
           \/ BeginRun \/ AcceptFails \/ EndRun \/ MarkInterrupted \/ Recovered
           \/ JournalEvent \/ UNCHANGED vars
    PROVE  LossInv'
<1>1. CASE JournalEvent \/ UNCHANGED vars
  <2>1. UNCHANGED <<file, tail, before, spoiled, store, conv, stage, todo, hist, next, fresh, told, fed>>
    BY <1>1, EventAlone DEF vars
  <2> QED BY <2>1 DEF LossInv, HoldInv, DiskKept, ConvKept, TodoKept, RunInv, Turned, FreshKept, Final, After, Filed, Stored, Live
<1>2. CASE BeginRun \/ AcceptFails \/ EndRun \/ MarkInterrupted \/ Recovered
  <2>1. SUFFICES ASSUME ~spoiled PROVE LossInv'
    BY <1>2 DEF LossInv, BeginRun, AcceptFails, EndRun, MarkInterrupted, Recovered, DiskSame
  <2>2. HoldInv /\ DiskKept /\ ConvKept
    BY <2>1 DEF LossInv
  <2>3. /\ file' = file /\ store' = store /\ next' = next /\ told' = told /\ conv' = conv /\ todo' = todo
        /\ (hist' = hist \/ hist' = <<>>) /\ (fresh' = fresh \/ fresh' = {})
        /\ stage \in {"idle", "accept", "recover", "completed", "failed"}
        /\ stage' \in {"accept", "idle", "recover"}
        /\ stage \in {"completed", "failed"} => fresh' = {}
    BY <1>2 DEF BeginRun, AcceptFails, EndRun, MarkInterrupted, Recovered, DiskSame, StoreSame
  <2>4. fresh' = {} /\ Live' \subseteq Live /\ next \in Nat
    BY <2>2, <2>3 DEF HoldInv, Running, Live, TypeInv, CountsTyped
  <2>5. todo' = <<>>
    BY <2>3 DEF TypeInv, TodoTyped, afterFailure
  <2>6. RunInv' /\ FreshKept'
    BY <2>3 DEF RunInv, FreshKept
  <2>7. \A i \in DOMAIN hist' : hist'[i].holds \subseteq 1 .. next'
    BY <2>2, <2>3 DEF HoldInv
  <2>8. \A m \in told' : Carries(Filed, m, file.head) /\ Carries(Filed, m, store'.head)
    BY <2>2, <2>3 DEF DiskKept
  <2>9. Live' \subseteq 1 .. next'
    BY <2>2, <2>3, <2>4 DEF HoldInv
  <2>10. DOMAIN todo' = {}
    BY <2>5
  <2>11. Quiet
    BY <2>3, <2>4, <2>6, <2>7, <2>8, <2>9, <2>10 DEF Quiet
  <2> QED BY <2>2, <2>11, QuietHolds
<1> QED BY <1>1, <1>2

(* So do the steps that refresh the conversation.                          *)
LEMMA RefreshHolds ==
    ASSUME TypeInv, TypeInv', CursorInv, LossInv, RefreshRun \/ Done \/ Open
    PROVE  LossInv'
<1>1. SUFFICES ASSUME ~spoiled PROVE LossInv'
  BY DEF LossInv, RefreshRun, Done, Open, DiskSame
<1>2. HoldInv /\ DiskKept /\ ConvKept /\ FreshKept
  BY <1>1 DEF LossInv
<1>3. /\ file' = file /\ next' = next /\ todo' = todo
      /\ (hist' = hist \/ hist' = <<>>) /\ fresh' = fresh
      /\ stage' \in {"completed", "idle", "compress", "recover"}
  BY DEF RefreshRun, Done, Open, DiskSame
<1>4. Live' \subseteq Live /\ next \in Nat
  BY <1>3 DEF RefreshRun, Done, Open, Live, TypeInv, CountsTyped
<1>5. stage' \notin Running => fresh' = {}
  <2>1. RefreshRun => stage' \in Running
    BY DEF RefreshRun, Running
  <2>2. Done \/ Open => stage \notin Running
    BY DEF Done, Open, Running
  <2> QED BY <1>2, <1>3, <2>1, <2>2 DEF HoldInv
<1>6. todo' = <<>>
  BY <1>3 DEF TypeInv, TodoTyped, afterFailure, RefreshRun, Done, Open
<1>7. RunInv' /\ FreshKept'
  BY <1>3 DEF RunInv, FreshKept
<1>8. store' \in {store, file} /\ conv' \in {conv, buildActiveView(store'.nodes, store'.head)}
  BY DEF RefreshRun, Done, Open, StoreSame, ActiveView, OnDisk
<1>9. ASSUME NEW m \in told' PROVE Carries(Filed, m, file.head) /\ Carries(Filed, m, store'.head)
  <2>1. CASE RefreshRun
    <3>1. store' = store /\ (m \in told \/ m \in fresh) /\ stage \in {"checkpoint", "refresh"} /\ stage # "down"
      BY <1>9, <2>1 DEF RefreshRun, StoreSame
    <3>2. m \in fresh => Carries(Filed, m, store.head) /\ Carries(Filed, m, file.head)
      BY <1>2, <3>1 DEF FreshKept
    <3>3. m \in told => Carries(Filed, m, file.head) /\ Carries(Filed, m, store.head)
      BY <1>2, <3>1 DEF DiskKept
    <3> QED BY <3>1, <3>2, <3>3
  <2>2. CASE Done
    <3>1. store' = store /\ told' = told /\ stage # "down"
      BY <2>2 DEF Done, StoreSame
    <3> QED BY <1>2, <1>9, <3>1 DEF DiskKept
  <2>3. CASE Open
    <3>1. store' = file /\ told' = told
      BY <2>3 DEF Open
    <3> QED BY <1>2, <1>9, <3>1 DEF DiskKept
  <2> QED BY <2>1, <2>2, <2>3
<1>10. \A i \in DOMAIN hist' : hist'[i].holds \subseteq 1 .. next'
  BY <1>2, <1>3 DEF HoldInv
<1>11. Live' \subseteq 1 .. next' /\ DOMAIN todo' = {}
  BY <1>2, <1>3, <1>4, <1>6 DEF HoldInv
<1>12. Quiet
  BY <1>3, <1>4, <1>5, <1>7, <1>8, <1>9, <1>10, <1>11 DEF Quiet
<1> QED BY <1>2, <1>12, QuietHolds

(* So do the steps that append one mark: of a consolidation, a checkpoint  *)
(* or a rewind.  After a rewind only what the user can still see counts.   *)
LEMMA markHolds ==
    ASSUME TypeInv, TypeInv', CursorInv, LossInv,
           Consolidate("cursor") \/ Consolidate("consolidate") \/ CheckpointRun \/ Rewind
    PROVE  LossInv'
<1>1. SUFFICES ASSUME ~spoiled PROVE LossInv'
  BY DEF LossInv, Consolidate, CheckpointRun, Rewind, DiskSame
<1>2. HoldInv /\ DiskKept /\ ConvKept /\ FreshKept
  BY <1>1 DEF LossInv
<1>3. /\ file' = file /\ store' = store /\ next' = next /\ conv' = conv /\ hist' = hist /\ fresh' = fresh
      /\ told' \subseteq told /\ stage \in {"idle", "commit"}
      /\ stage' \in {"cursor", "consolidate", "checkpoint", "rewind"}
      /\ (stage' = "checkpoint" <=> stage = "commit") /\ (stage' = "checkpoint" <=> CheckpointRun)
      /\ (stage' = "rewind" <=> Rewind)
  BY DEF Consolidate, CheckpointRun, Rewind, DiskSame, StoreSame
<1>4. Live' \subseteq Live /\ next \in Nat
  BY <1>3 DEF Live, TypeInv, CountsTyped
<1>5. stage' \notin Running => fresh' = {}
  BY <1>2, <1>3 DEF Running, HoldInv
<1>6. stage = "idle" => todo = <<>>
  BY DEF TypeInv, TodoTyped, afterFailure
<1>7. todo' = <<>> \/ \E line \in Marks :
        /\ todo' = One(line) /\ (CheckpointRun => line.kind = "ck")
        /\ line.kind = "head" => \A m \in told' : Carries(Filed, m, line.id)
  <2>1. CASE Consolidate("cursor") \/ Consolidate("consolidate")
    <3>1. CASE todo' = <<>>
      BY <3>1
    <3>2. CASE todo' # <<>>
      <4>1. PICK i \in {PendingAfterCursor[Len(PendingAfterCursor)].id} :
              PendingAfterCursor # <<>> /\ todo' = One(Mark("cursor", i))
        BY <1>3, <1>6, <2>1, <3>2 DEF Consolidate
      <4>2. \E j \in DOMAIN ActiveView : i = ActiveView[j].id
        BY <4>1, PendingShape
      <4>3. ActiveView \in Seq(Messages)
        BY ViewsAreTyped DEF TypeInv
      <4>4. i \in Ident
        BY <4>2, <4>3, ElementOfSeq, MessagesAreTyped
      <4>5. Mark("cursor", i) \in Marks /\ Mark("cursor", i).kind = "cursor"
        BY <4>4, LinesAreTyped
      <4> QED BY <1>3, <2>1, <4>1, <4>5 DEF Consolidate, CheckpointRun
    <3> QED BY <3>1, <3>2
  <2>2. CASE CheckpointRun
    <3>1. todo' = One(Mark("ck", store.head)) /\ store.head \in Ident
      BY <2>2 DEF CheckpointRun, TypeInv, MemoryTyped, Stores
    <3>2. Mark("ck", store.head) \in Marks /\ Mark("ck", store.head).kind = "ck"
      BY <3>1, LinesAreTyped
    <3> QED BY <3>1, <3>2
  <2>3. CASE Rewind
    <3>1. PICK at \in store.cks : /\ todo' = One(Mark("head", at))
                                  /\ told' = told \cap Content(buildActiveView(store.nodes, at))
      BY <2>3 DEF Rewind
    <3>2. at \in Ident /\ store \in Stores /\ store.nodes \in NodeMaps
      BY <3>1 DEF TypeInv, MemoryTyped, Stores
    <3>3. PICK V : V = buildActiveView(store.nodes, at)
      OBVIOUS
    <3>4. PICK P : P = activePathIDs(store.nodes, at)
      OBVIOUS
    <3>5. /\ DOMAIN V = 1 .. Len(P) /\ Len(P) \in Nat
          /\ \A i \in 1 .. Len(P) : P[i] \in DOMAIN store.nodes /\ V[i].id = store.nodes[P[i]].id
      BY <3>2, <3>3, <3>4, ViewShows
    <3>6. Climb(store.nodes, at, P)
      BY <3>2, <3>4, PathClimbs
    <3>7. Keyed(store.nodes) /\ LinesOf(store) \subseteq Said /\ \A l \in Declaring(LinesOf(store)) : Backed(l, Filed, Live)
      BY <1>2 DEF CursorInv, Books, Said, DiskKept, Stored
    <3>8. \A m \in Live : \A i, k \in DOMAIN V : i <= k /\ m \in V[i].holds => Carries(Filed, m, V[k].id)
      BY <3>2, <3>3, <3>7, ViewCarries
    <3>9. ASSUME NEW m \in told' PROVE Carries(Filed, m, at)
      <4>1. m \in Live /\ \E i \in DOMAIN V : m \in V[i].holds
        BY <3>1, <3>3, <3>9 DEF Content, Live
      <4>2. PICK i \in DOMAIN V : m \in V[i].holds
        BY <4>1
      <4>3. Len(P) \in DOMAIN V /\ i <= Len(P)
        BY <3>5, <4>2
      <4>4. Carries(Filed, m, V[Len(P)].id)
        BY <3>8, <4>1, <4>2, <4>3
      <4>5. P # <<>> /\ Len(P) \in 1 .. Len(P)
        BY <3>5, <4>3
      <4>6. P[Len(P)] = at
        BY <3>6, <4>5 DEF Climb
      <4>7. V[Len(P)].id = at
        BY <3>5, <3>7, <4>5, <4>6 DEF Keyed
      <4> QED BY <4>4, <4>7
    <3>10. Mark("head", at) \in Marks /\ Mark("head", at).id = at /\ ~CheckpointRun
      BY <1>3, <2>3, <3>2, LinesAreTyped DEF Mark
    <3> QED BY <3>1, <3>9, <3>10
  <2> QED BY <2>1, <2>2, <2>3
<1>8. \A j \in DOMAIN todo' : \A l \in {todo'[j].line} \cup Entering(todo'[j]) :
        /\ l.kind # "node" /\ (CheckpointRun => l.kind # "head")
        /\ l.kind = "head" => \A m \in told' : Carries(Filed, m, l.id)
  <2>1. CASE todo' = <<>>
    BY <2>1
  <2>2. CASE todo' # <<>>
    <3>1. PICK line \in Marks : /\ todo' = One(line) /\ (CheckpointRun => line.kind = "ck")
                                /\ line.kind = "head" => \A m \in told' : Carries(Filed, m, line.id)
      BY <1>7, <2>2
    <3>2. \A j \in DOMAIN todo' : todo'[j].line = line /\ Entering(todo'[j]) = {line}
      BY <3>1 DEF One, Item, Entering
    <3>3. line.kind # "node"
      BY DEF Marks
    <3> QED BY <3>1, <3>2, <3>3
  <2> QED BY <2>1, <2>2
<1>9. RunInv'
  BY <1>3 DEF RunInv
<1>10. FreshKept'
  <2>1. ASSUME stage' = "checkpoint", NEW m \in fresh PROVE Carries(Filed, m, store.head) /\ Carries(Filed, m, file.head)
    <3>1. stage = "commit" /\ todo = <<>>
      BY <1>3, <2>1 DEF CheckpointRun
    <3> QED BY <1>2, <2>1, <3>1 DEF FreshKept, Final
  <2>2. Filed' = Filed
    <3>1. Filed' = Declaring(LinesOf(file'))
      BY DEF Filed
    <3> QED BY <1>3, <3>1 DEF Filed
  <2> QED BY <1>3, <1>8, <2>1, <2>2 DEF FreshKept
<1>11. \A m \in told' : Carries(Filed, m, file.head) /\ Carries(Filed, m, store'.head)
  BY <1>2, <1>3 DEF DiskKept
<1>12. \A i \in DOMAIN hist' : hist'[i].holds \subseteq 1 .. next'
  BY <1>2, <1>3 DEF HoldInv
<1>13. Live' \subseteq 1 .. next'
  BY <1>2, <1>3, <1>4 DEF HoldInv
<1>14. \A j \in DOMAIN todo' : \A l \in {todo'[j].line} \cup Entering(todo'[j]) :
        l.kind # "node" /\ (l.kind = "head" => \A m \in told' : Carries(Filed, m, l.id))
  BY <1>8
<1>15. Quiet
  BY <1>3, <1>4, <1>5, <1>9, <1>10, <1>11, <1>12, <1>13, <1>14 DEF Quiet
<1> QED BY <1>2, <1>15, QuietHolds

-----------------------------------------------------------------------------
(* The turn of a run keeps it *)

(* A message with a new id goes behind a history. *)
LEMMA TurnGrows ==
    ASSUME TypeInv, CursorInv, NEW h \in Seq(Messages), h # <<>>, NEW new, Turned(h, new),
           NEW m \in Messages, m.id \in Coming, m.holds = {m.id}, NEW g, g = Append(h, m)
    PROVE  Turned(g, new \cup {m.id}) /\ g \in Seq(Messages) /\ g # <<>>
<1>1. /\ Len(g) = Len(h) + 1 /\ Len(h) \in Nat /\ DOMAIN h = 1 .. Len(h) /\ DOMAIN g = 1 .. Len(h) + 1
      /\ (\A i \in DOMAIN h : g[i] = h[i]) /\ g[Len(h) + 1] = m /\ 1 \in DOMAIN h /\ g \in Seq(Messages)
  OBVIOUS
<1>2. m.id \notin DOMAIN store.nodes /\ m.id \notin Ids(conv)
  BY ComingIsNew DEF CursorInv, ConvInv
<1>3. conv \in Seq(Messages) /\ Len(conv) \in Nat
  BY DEF TypeInv, MemoryTyped
<1>4. \A i \in DOMAIN g : i \in DOMAIN h \/ i = Len(h) + 1
  BY <1>1
<1>5. ASSUME NEW o \in new \cup {m.id}
      PROVE  \E i \in DOMAIN g : g[i].id \notin DOMAIN store.nodes /\ o \in g[i].holds
  <2>1. CASE o = m.id
    BY <1>1, <1>2, <2>1
  <2>2. CASE o \in new
    <3>1. PICK i \in DOMAIN h : h[i].id \notin DOMAIN store.nodes /\ o \in h[i].holds
      BY <2>2 DEF Turned
    <3>2. i \in DOMAIN g /\ g[i] = h[i]
      BY <1>1
    <3> QED BY <3>1, <3>2
  <2> QED BY <1>5, <2>1, <2>2
<1>6. ASSUME conv # <<>>, ~System(conv[1]), h[1].id \in Ids(conv)
      PROVE  /\ g[1].id \in Ids(conv) /\ Len(g) > Len(conv) /\ \A j \in DOMAIN conv : g[j] = conv[j]
             /\ \A j \in DOMAIN g : j > Len(conv) => g[j].holds \subseteq new \cup {m.id}
  <2>1. /\ Len(h) > Len(conv) /\ \A j \in DOMAIN conv : h[j] = conv[j]
        /\ \A j \in DOMAIN h : j > Len(conv) => h[j].holds \subseteq new
    BY <1>6 DEF Turned
  <2>2. \A j \in DOMAIN conv : j \in DOMAIN h
    BY <1>1, <1>3, <2>1
  <2>3. ASSUME NEW j \in DOMAIN g, j > Len(conv) PROVE g[j].holds \subseteq new \cup {m.id}
    <3>1. CASE j \in DOMAIN h
      BY <1>1, <2>1, <2>3, <3>1
    <3>2. CASE j = Len(h) + 1
      BY <1>1, <3>2
    <3> QED BY <1>4, <3>1, <3>2
  <2>4. g[1] = h[1] /\ Len(g) > Len(conv)
    BY <1>1, <1>3, <2>1
  <2>5. \A j \in DOMAIN conv : g[j] = conv[j]
    BY <1>1, <2>1, <2>2
  <2> QED BY <1>6, <2>3, <2>4, <2>5
<1>7. ASSUME conv # <<>>, ~System(conv[1]), h[1].id \notin Ids(conv)
      PROVE  /\ g[1].id \notin Ids(conv) /\ System(g[1])
             /\ \A o \in g[1].holds :
                  o \in new \cup {m.id} \/ \E i \in DOMAIN conv : /\ o \in conv[i].holds
                                                                  /\ \A j \in DOMAIN conv : conv[j].id \in Ids(g) => i < j
  <2>1. /\ System(h[1])
        /\ \A o \in h[1].holds :
             o \in new \/ \E i \in DOMAIN conv : /\ o \in conv[i].holds
                                                 /\ \A j \in DOMAIN conv : conv[j].id \in Ids(h) => i < j
    BY <1>7 DEF Turned
  <2>2. \A j \in DOMAIN conv : conv[j].id \in Ids(g) => conv[j].id \in Ids(h)
    <3> SUFFICES ASSUME NEW j \in DOMAIN conv, NEW q \in DOMAIN g, conv[j].id = g[q].id PROVE conv[j].id \in Ids(h)
      BY DEF Ids
    <3>1. conv[j].id # m.id
      BY <1>2 DEF Ids
    <3>2. q \in DOMAIN h
      BY <1>1, <1>4, <3>1
    <3> QED BY <1>1, <3>2 DEF Ids
  <2> QED BY <1>1, <1>7, <2>1, <2>2
<1>8. Turned(g, new \cup {m.id})
  BY <1>5, <1>6, <1>7 DEF Turned
<1> QED BY <1>1, <1>8

(* So may the history be compressed in front of it.                        *)
LEMMA TurnCompresses ==
    ASSUME TypeInv, CursorInv, stage = "run", next < MaxNodes, Turned(hist, fresh), \A i \in DOMAIN hist : hist[i].holds \subseteq 1 .. next,
           NEW k, NEW n, NEW protect \in BOOLEAN, protect, NEW h, h \in Seq(Messages), Summarises(h, hist, protect, k, n)
    PROVE  Turned(h, fresh) /\ h # <<>> /\ \A i \in DOMAIN h : h[i].holds \subseteq 1 .. next
<1>1. /\ k \in Nat /\ n \in Nat /\ 2 <= n /\ k + n < Len(hist) /\ k = Leading(hist)
      /\ Len(h) = Len(hist) - n + 1 /\ DOMAIN h = 1 .. Len(hist) - n + 1
      /\ \A i \in 1 .. k : h[i] = hist[i]
      /\ \A i \in k + 2 .. Len(hist) - n + 1 : h[i] = hist[i + (n - 1)]
  BY DEF Summarises
<1>2. PICK c : h[k + 1] = Message(next + 1, "system", c) /\ c = UNION {hist[i].holds : i \in k + 1 .. k + n}
  BY DEF Summarises
<1>3. /\ h[k + 1].id = next + 1 /\ h[k + 1].holds = c /\ System(h[k + 1])
      /\ hist \in Seq(Messages) /\ Len(hist) \in Nat /\ DOMAIN hist = 1 .. Len(hist) /\ 1 \in DOMAIN hist
      /\ next \in Nat /\ MaxNodes \in Nat
  <2>1. h[k + 1].id = next + 1 /\ h[k + 1].holds = c /\ System(h[k + 1])
    BY <1>2 DEF Message, System
  <2>2. hist \in Seq(Messages) /\ Len(hist) \in Nat /\ DOMAIN hist = 1 .. Len(hist)
    BY DEF TypeInv, MemoryTyped
  <2>3. 1 \in 1 .. Len(hist)
    BY <1>1, <2>2
  <2>4. next \in Nat /\ MaxNodes \in Nat
    BY Identifiers DEF TypeInv, CountsTyped
  <2> QED BY <2>1, <2>2, <2>3, <2>4
<1>4. \A i \in DOMAIN h : \/ i \in 1 .. k /\ i \in DOMAIN hist /\ h[i] = hist[i]
                          \/ i = k + 1
                          \/ i > k + 1 /\ i + (n - 1) \in DOMAIN hist /\ i + (n - 1) > k + n /\ h[i] = hist[i + (n - 1)]
  <2> TAKE i \in DOMAIN h
  <2>1. i \in 1 .. Len(hist) - n + 1 /\ i \in Int /\ n \in Int /\ k \in Int /\ Len(hist) \in Int
    BY <1>1, <1>3
  <2>2. i \in 1 .. k \/ i = k + 1 \/ i \in k + 2 .. Len(hist) - n + 1
    BY <2>1
  <2>3. CASE i \in 1 .. k
    <3>1. i \in 1 .. Len(hist)
      BY <1>1, <2>1, <2>3
    <3> QED BY <1>1, <1>3, <2>3, <3>1
  <2>4. CASE i \in k + 2 .. Len(hist) - n + 1
    <3>1. i > k + 1 /\ i + (n - 1) \in 1 .. Len(hist) /\ i + (n - 1) > k + n
      BY <1>1, <2>1, <2>4
    <3> QED BY <1>1, <1>3, <2>4, <3>1
  <2> QED BY <2>2, <2>3, <2>4
<1>5. \A i \in DOMAIN hist : \/ i \in 1 .. k /\ i \in DOMAIN h /\ h[i] = hist[i]
                             \/ i \in k + 1 .. k + n /\ k + 1 \in DOMAIN h
                             \/ i - (n - 1) \in DOMAIN h /\ h[i - (n - 1)] = hist[i]
  <2> TAKE i \in DOMAIN hist
  <2>0. i \in 1 .. Len(hist) /\ i \in Int /\ n \in Int /\ k \in Int /\ Len(hist) \in Int
    BY <1>1, <1>3
  <2>1. CASE i \in 1 .. k
    <3>1. i \in 1 .. Len(hist) - n + 1
      BY <1>1, <2>0, <2>1
    <3> QED BY <1>1, <2>1, <3>1
  <2>2. CASE i \in k + 1 .. k + n
    <3>1. k + 1 \in 1 .. Len(hist) - n + 1
      BY <1>1, <2>0
    <3> QED BY <1>1, <2>2, <3>1
  <2>3. CASE i > k + n
    <3>1. i - (n - 1) \in k + 2 .. Len(hist) - n + 1 /\ (i - (n - 1)) + (n - 1) = i
      BY <1>1, <2>0, <2>3
    <3>a. k >= 0
      BY <1>1
    <3>2. i - (n - 1) \in 1 .. Len(hist) - n + 1
      BY <2>0, <3>1, <3>a
    <3> QED BY <1>1, <3>1, <3>2
  <2>4. i \in 1 .. k \/ i \in k + 1 .. k + n \/ i > k + n
    BY <2>0
  <2> QED BY <2>1, <2>2, <2>3, <2>4
<1>6. next + 1 \in Coming /\ next + 1 \notin DOMAIN store.nodes /\ next + 1 \notin Ids(conv)
  <2>1. next + 1 \in Coming
    BY <1>3 DEF Coming
  <2> QED BY <2>1, ComingIsNew DEF CursorInv, ConvInv
<1>7. \A i \in DOMAIN h : h[i].holds \subseteq 1 .. next
  <2>1. c \subseteq 1 .. next
    <3>1. \A i \in k + 1 .. k + n : i \in DOMAIN hist
      BY <1>1, <1>3
    <3> QED BY <1>2, <3>1
  <2> QED BY <1>3, <1>4, <2>1
<1>8. ASSUME NEW m \in fresh PROVE \E i \in DOMAIN h : h[i].id \notin DOMAIN store.nodes /\ m \in h[i].holds
  <2>1. PICK i \in DOMAIN hist : hist[i].id \notin DOMAIN store.nodes /\ m \in hist[i].holds
    BY <1>8 DEF Turned
  <2>2. i \in k + 1 .. k + n => m \in c
    BY <1>2, <2>1
  <2> QED BY <1>3, <1>5, <1>6, <2>1, <2>2
<1>9. EachOnce(hist) /\ conv \in Seq(Messages) /\ Len(conv) \in Nat /\ DOMAIN conv = 1 .. Len(conv)
  BY DEF CursorInv, HistInv, TypeInv, MemoryTyped
<1>10. ASSUME conv # <<>>, ~System(conv[1]), hist[1].id \in Ids(conv)
       PROVE  /\ h[1].id \notin Ids(conv) /\ System(h[1])
              /\ \A m \in h[1].holds :
                   m \in fresh \/ \E i \in DOMAIN conv : /\ m \in conv[i].holds
                                                         /\ \A j \in DOMAIN conv : conv[j].id \in Ids(h) => i < j
  <2>1. /\ Len(hist) > Len(conv) /\ \A j \in DOMAIN conv : hist[j] = conv[j]
        /\ \A j \in DOMAIN hist : j > Len(conv) => hist[j].holds \subseteq fresh
    BY <1>10 DEF Turned
  <2>2. k = 0
    <3>1. 1 \in DOMAIN conv /\ ~System(hist[1])
      BY <1>9, <1>10, <2>1
    <3>2. \A i \in 1 .. Leading(hist) : System(hist[i])
      BY <1>3, LeadingShape
    <3> QED BY <1>1, <3>1, <3>2
  <2>3. ASSUME NEW m \in h[1].holds, m \notin fresh
        PROVE  \E i \in DOMAIN conv : m \in conv[i].holds /\ \A j \in DOMAIN conv : conv[j].id \in Ids(h) => i < j
    <3>1. PICK i \in 1 .. n : m \in hist[i].holds
      <4>1. k + 1 = 1 /\ k + n = n
        BY <1>1, <2>2
      <4>2. m \in c
        BY <1>3, <2>3, <4>1
      <4> QED BY <1>2, <4>1, <4>2
    <3>2. i \in DOMAIN hist
      BY <1>1, <1>3, <2>2
    <3>3. ~(i > Len(conv))
      BY <2>1, <2>3, <3>1, <3>2
    <3>4. i \in DOMAIN conv /\ m \in conv[i].holds
      BY <1>9, <2>1, <3>1, <3>3
    <3>5. ASSUME NEW j \in DOMAIN conv, conv[j].id \in Ids(h) PROVE i < j
      <4>1. PICK q \in DOMAIN h : h[q].id = conv[j].id
        BY <3>5 DEF Ids
      <4>2. q # k + 1
        BY <1>3, <1>6, <4>1 DEF Ids
      <4>3. q + (n - 1) \in DOMAIN hist /\ q + (n - 1) > n /\ h[q] = hist[q + (n - 1)]
        <5>1. ~(q \in 1 .. k) /\ k + n = n
          BY <1>1, <2>2
        <5>2. q + (n - 1) \in DOMAIN hist /\ q + (n - 1) > k + n /\ h[q] = hist[q + (n - 1)]
          BY <1>4, <4>2, <5>1
        <5> QED BY <5>1, <5>2
      <4>4. j \in DOMAIN hist /\ hist[j] = conv[j]
        BY <1>3, <1>9, <2>1
      <4>5. j = q + (n - 1)
        BY <1>9, <4>1, <4>3, <4>4 DEF EachOnce
      <4> QED BY <1>1, <3>1, <4>3, <4>5
    <3> QED BY <3>4, <3>5
  <2>4. h[1].id = next + 1 /\ System(h[1])
    BY <1>3, <2>2
  <2> QED BY <1>6, <2>3, <2>4
<1>11. ASSUME conv # <<>>, ~System(conv[1]), hist[1].id \notin Ids(conv)
       PROVE  /\ h[1].id \notin Ids(conv) /\ System(h[1])
              /\ \A m \in h[1].holds :
                   m \in fresh \/ \E i \in DOMAIN conv : /\ m \in conv[i].holds
                                                         /\ \A j \in DOMAIN conv : conv[j].id \in Ids(h) => i < j
  <2>1. /\ System(hist[1])
        /\ \A m \in hist[1].holds :
             m \in fresh \/ \E i \in DOMAIN conv : /\ m \in conv[i].holds
                                                   /\ \A j \in DOMAIN conv : conv[j].id \in Ids(hist) => i < j
    BY <1>11 DEF Turned
  <2>2. k >= 1
    BY <1>1, <1>3, <2>1, LeadingShape
  <2>3. h[1] = hist[1]
    BY <1>1, <2>2
  <2>4. \A j \in DOMAIN conv : conv[j].id \in Ids(h) => conv[j].id \in Ids(hist)
    <3> SUFFICES ASSUME NEW j \in DOMAIN conv, NEW q \in DOMAIN h, conv[j].id = h[q].id PROVE conv[j].id \in Ids(hist)
      BY DEF Ids
    <3>1. q # k + 1
      BY <1>3, <1>6 DEF Ids
    <3>2. \E i \in DOMAIN hist : h[q] = hist[i]
      BY <1>4, <3>1
    <3> QED BY <3>2 DEF Ids
  <2> QED BY <1>11, <2>1, <2>3, <2>4
<1>12. h # <<>>
  BY <1>1
<1> QED BY <1>7, <1>8, <1>10, <1>11, <1>12 DEF Turned

(* A step of a run that says nothing.                                      *)
LEMMA TurnHolds ==
    ASSUME TypeInv, TypeInv', CursorInv, HoldInv, DiskKept, ConvKept, DiskSame, StoreSame,
           UNCHANGED <<conv, todo, told>>, stage \in {"accept", "run"}, stage' = "run", next <= next', todo = <<>>,
           NEW new, fresh' = new, \A m \in new : m \in 1 .. next' /\ (m \in fresh \/ ~(m <= next)),
           Turned(hist', new), \A i \in DOMAIN hist' : hist'[i].holds \subseteq 1 .. next',
           \A m \in fresh : Clear(Filed \cup Stored, m) /\ \A i \in DOMAIN conv : m \notin conv[i].holds
    PROVE  LossInv'
<1>1. file' = file /\ store' = store /\ conv' = conv /\ todo' = <<>> /\ told' = told
  BY DEF DiskSame, StoreSame
<1>2. Filed' = Filed /\ Stored' = Stored
  <2>1. Filed' = Declaring(LinesOf(file')) /\ Stored' = Declaring(LinesOf(store'))
    BY DEF Filed, Stored
  <2> QED BY <1>1, <2>1 DEF Filed, Stored
<1>3. \A m \in Live' : m \in Live \/ ~(m <= next)
  BY DEF Live
<1>4. next \in Nat /\ next' \in Nat
  BY DEF TypeInv, CountsTyped
<1>5. Live' \subseteq 1 .. next'
  <2>1. told \subseteq 1 .. next'
    BY <1>4 DEF HoldInv, Live
  <2> QED BY <1>1, <2>1 DEF Live
<1>6. ASSUME NEW m \in new
      PROVE  Clear(Filed \cup Stored, m) /\ \A i \in DOMAIN conv : m \notin conv[i].holds
  <2>1. CASE m \in fresh
    BY <2>1
  <2>2. CASE ~(m <= next)
    <3>1. m \notin 1 .. next
      BY <2>2
    <3> QED BY <3>1 DEF HoldInv, Clear
  <2> QED BY <2>1, <2>2
<1>7. Turned(hist, fresh)' 
  BY <1>1 DEF Turned, Ids
<1>8. RunInv'
  BY <1>1, <1>2, <1>6, <1>7 DEF RunInv, Clear
<1>9. FreshKept' /\ stage' \in Running /\ DOMAIN todo' = {} /\ stage # "down"
  BY <1>1 DEF FreshKept, Running
<1>10. \A m \in told' : Carries(Filed, m, file.head) /\ Carries(Filed, m, store'.head)
  BY <1>1, <1>9 DEF DiskKept
<1>11. Quiet
  BY <1>1, <1>3, <1>5, <1>8, <1>9, <1>10 DEF Quiet
<1> QED BY <1>11, QuietHolds

(* The message of the user.                                                *)
LEMMA AcceptHolds ==
    ASSUME TypeInv, TypeInv', CursorInv, LossInv, AcceptRun
    PROVE  LossInv'
<1>1. SUFFICES ASSUME ~spoiled PROVE LossInv'
  BY DEF LossInv, AcceptRun, DiskSame
<1>2. HoldInv /\ DiskKept /\ ConvKept
  BY <1>1 DEF LossInv
<1>3. /\ DiskSame /\ StoreSame /\ UNCHANGED <<conv, todo, told>> /\ stage = "accept" /\ stage' = "run"
      /\ next' = next + 1 /\ fresh' = {next + 1} /\ hist' = Append(conv, Message(next + 1, "user", {next + 1}))
  BY DEF AcceptRun
<1>4. /\ next \in Nat /\ next < MaxNodes /\ MaxNodes \in Nat /\ conv \in Seq(Messages) /\ todo = <<>>
  BY <1>3, Identifiers DEF TypeInv, CountsTyped, MemoryTyped, TodoTyped, afterFailure
<1>5. fresh = {}
  BY <1>2, <1>3 DEF HoldInv, Running
<1>6. PICK m : m = Message(next + 1, "user", {next + 1})
  OBVIOUS
<1>7. m.id = next + 1 /\ m.holds = {next + 1}
  BY <1>6 DEF Message
<1>8. PICK h : h = Append(conv, m)
  OBVIOUS
<1>9. /\ DOMAIN h = 1 .. Len(conv) + 1 /\ Len(conv) \in Nat /\ DOMAIN conv = 1 .. Len(conv) /\ Len(h) = Len(conv) + 1
      /\ (\A i \in DOMAIN conv : h[i] = conv[i]) /\ h[Len(conv) + 1] = m
  BY <1>4, <1>8
<1>10. next + 1 \notin DOMAIN store.nodes
  <2>1. next + 1 \in Coming
    BY <1>4 DEF Coming
  <2> QED BY <2>1, ComingIsNew
<1>11. \A i \in DOMAIN h : i \in DOMAIN conv \/ i = Len(conv) + 1
  BY <1>9
<1>12. Turned(h, {next + 1})
  <2>1. ASSUME NEW o \in {next + 1} PROVE \E i \in DOMAIN h : h[i].id \notin DOMAIN store.nodes /\ o \in h[i].holds
    <3>1. Len(conv) + 1 \in DOMAIN h
      BY <1>9
    <3> QED BY <1>7, <1>9, <1>10, <2>1, <3>1
  <2>2. conv # <<>> => h[1].id \in Ids(conv)
    <3>1. conv # <<>> => 1 \in DOMAIN conv
      BY <1>4
    <3> QED BY <1>9, <3>1 DEF Ids
  <2>3. Len(h) > Len(conv)
    BY <1>9
  <2>4. ASSUME NEW j \in DOMAIN h, j > Len(conv) PROVE h[j].holds \subseteq {next + 1}
    <3>1. j = Len(conv) + 1
      BY <1>9, <2>4
    <3> QED BY <1>7, <1>9, <3>1
  <2> QED BY <1>9, <2>1, <2>2, <2>3, <2>4 DEF Turned
<1>13. \A i \in DOMAIN h : h[i].holds \subseteq 1 .. next'
  <2>1. 1 .. next \subseteq 1 .. next' /\ next + 1 \in 1 .. next'
    BY <1>3, <1>4
  <2>2. \A i \in DOMAIN conv : conv[i].holds \subseteq 1 .. next
    BY <1>2 DEF HoldInv
  <2> QED BY <1>7, <1>9, <1>11, <2>1, <2>2
<1>14. h = hist' /\ next + 1 \in 1 .. next' /\ ~(next + 1 <= next) /\ next <= next'
  BY <1>3, <1>4, <1>6, <1>8
<1>15. \A i \in DOMAIN hist' : hist'[i].holds \subseteq 1 .. next'
  BY <1>13, <1>14
<1>16. Turned(hist', {next + 1})
  BY <1>12, <1>14
<1> QED BY <1>2, <1>3, <1>4, <1>5, <1>14, <1>15, <1>16, TurnHolds

(* The answers of the model.                                               *)
LEMMA ReplyHolds ==
    ASSUME TypeInv, TypeInv', CursorInv, LossInv, Reply
    PROVE  LossInv'
<1>1. SUFFICES ASSUME ~spoiled PROVE LossInv'
  BY DEF LossInv, Reply, DiskSame
<1>2. HoldInv /\ DiskKept /\ ConvKept /\ RunInv
  BY <1>1 DEF LossInv
<1>3. DiskSame /\ StoreSame /\ UNCHANGED <<conv, todo, told>> /\ stage = "run" /\ stage' = "run"
  BY DEF Reply
<1>4. /\ next \in Nat /\ MaxNodes \in Nat /\ next <= MaxNodes /\ hist \in Seq(Messages) /\ todo = <<>> /\ hist # <<>>
      /\ \A i \in DOMAIN hist : hist[i].holds \subseteq 1 .. next
  <2>1. next \in Nat /\ MaxNodes \in Nat /\ next <= MaxNodes
    BY Identifiers DEF TypeInv, CountsTyped
  <2>2. hist \in Seq(Messages)
    BY DEF TypeInv, MemoryTyped
  <2>5. hist # <<>>
    BY <1>3 DEF TypeInv, CountsTyped
  <2>3. todo = <<>>
    BY <1>3 DEF TypeInv, TodoTyped, afterFailure
  <2>4. \A i \in DOMAIN hist : hist[i].holds \subseteq 1 .. next
    BY <1>2 DEF HoldInv
  <2> QED BY <2>1, <2>2, <2>3, <2>4, <2>5
<1>5. /\ Turned(hist, fresh) /\ fresh \subseteq 1 .. next
      /\ \A m \in fresh : Clear(Filed \cup Stored, m) /\ \A i \in DOMAIN conv : m \notin conv[i].holds
  BY <1>2, <1>3 DEF RunInv, HoldInv, Live
<1>6. PICK h, id : /\ h = hist \/ (h = Compress(hist, TRUE) /\ h # hist)
                   /\ id = IF h = hist THEN next + 1 ELSE next + 2
                   /\ \/ /\ id <= MaxNodes
                         /\ hist' = Append(h, Message(id, "assistant", {id}))
                         /\ fresh' = fresh \cup {id} /\ next' = id
                      \/ /\ id + 1 < MaxNodes
                         /\ hist' = h \o <<Message(id, "call", {id}), Message(id + 1, "tool", {id + 1})>>
                         /\ fresh' = fresh \cup {id, id + 1} /\ next' = id + 1
  BY DEF Reply
<1>7. id \in Nat /\ ~(id <= next) /\ id <= MaxNodes /\ next' \in Nat /\ next' <= MaxNodes /\ next <= next' /\ id <= next' /\ id >= 1
  BY <1>4, <1>6
<1>8. h \in Seq(Messages) /\ Turned(h, fresh) /\ h # <<>> /\ \A i \in DOMAIN h : h[i].holds \subseteq 1 .. next
  <2>1. CASE h = hist
    BY <1>4, <1>5, <2>1
  <2>2. CASE h # hist
    <3>1. next < MaxNodes /\ next + 1 \in 1 .. MaxNodes
      BY <1>4, <1>6, <1>7, <2>2
    <3>2. \A c \in Holdings : Message(next + 1, "system", c) \in Messages
      BY <3>1, Identifiers, MessagesAreTyped DEF Roles
    <3>3. h \in Seq(Messages)
      BY <1>4, <1>6, <2>2, <3>2, MessagesAreTyped, CompressIsTyped
    <3>4. PICK protect \in BOOLEAN : protect = TRUE
      OBVIOUS
    <3>5. \E k, n : Summarises(h, hist, protect, k, n)
      BY <1>4, <1>6, <2>2, <3>4, CompressShape, Zenon
    <3>6. PICK k, n : Summarises(h, hist, protect, k, n)
      BY <3>5
    <3>7. Turned(h, fresh) /\ h # <<>> /\ \A i \in DOMAIN h : h[i].holds \subseteq 1 .. next
      BY <1>3, <1>4, <1>5, <3>1, <3>3, <3>4, <3>6, TurnCompresses
    <3> QED BY <3>3, <3>7
  <2> QED BY <2>1, <2>2
<1>9. \A role \in Roles : \A i \in 1 .. MaxNodes :
        Message(i, role, {i}) \in Messages /\ Message(i, role, {i}).id = i /\ Message(i, role, {i}).holds = {i}
  <2> SUFFICES ASSUME NEW role \in Roles, NEW i \in 1 .. MaxNodes
               PROVE Message(i, role, {i}) \in Messages /\ Message(i, role, {i}).id = i /\ Message(i, role, {i}).holds = {i}
    OBVIOUS
  <2>1. i \in Ident /\ {i} \in Holdings
    BY Identifiers DEF Holdings
  <2> QED BY <2>1, MessagesAreTyped DEF Message
<1>10. \A i \in 1 .. MaxNodes : ~(i <= next) => i \in Coming
  BY <1>4 DEF Coming
<1>11. id \in 1 .. MaxNodes /\ id \in Coming
  BY <1>4, <1>7, <1>10
<1>12. 1 .. next \subseteq 1 .. next' /\ id \in 1 .. next'
  BY <1>4, <1>7
<1>13. CASE hist' = Append(h, Message(id, "assistant", {id})) /\ fresh' = fresh \cup {id} /\ next' = id
  <2>1. PICK m \in Messages : m = Message(id, "assistant", {id}) /\ m.id = id /\ m.holds = {id}
    BY <1>9, <1>11 DEF Roles
  <2>2. PICK g : g = Append(h, m)
    OBVIOUS
  <2>3. Turned(g, fresh \cup {id})
    BY <1>8, <1>11, <2>1, <2>2, TurnGrows
  <2>4. PICK new : new = fresh \cup {id}
    OBVIOUS
  <2>5. g = hist' /\ fresh' = new /\ Turned(g, new)
    BY <1>13, <2>1, <2>2, <2>3, <2>4
  <2>6. \A i \in DOMAIN g : g[i] = m \/ \E j \in DOMAIN h : g[i] = h[j]
    BY <1>8, <2>2
  <2>7. \A i \in DOMAIN g : g[i].holds \subseteq 1 .. next'
    BY <1>8, <1>12, <2>1, <2>6
  <2>8. \A m1 \in new : m1 \in 1 .. next' /\ (m1 \in fresh \/ ~(m1 <= next))
    BY <1>5, <1>7, <1>12, <2>4
  <2>9. Turned(hist', new) /\ \A i \in DOMAIN hist' : hist'[i].holds \subseteq 1 .. next'
    BY <2>5, <2>7
  <2> QED BY <1>2, <1>3, <1>4, <1>5, <1>7, <2>5, <2>8, <2>9, TurnHolds
<1>14. CASE /\ id + 1 < MaxNodes /\ fresh' = fresh \cup {id, id + 1} /\ next' = id + 1
            /\ hist' = h \o <<Message(id, "call", {id}), Message(id + 1, "tool", {id + 1})>>
  <2>1. PICK m \in Messages : m = Message(id, "call", {id}) /\ m.id = id /\ m.holds = {id}
    BY <1>9, <1>11 DEF Roles
  <2>2. id + 1 \in 1 .. MaxNodes /\ ~(id + 1 <= next) /\ id + 1 \in 1 .. next'
    BY <1>4, <1>7, <1>14
  <2>3. PICK r \in Messages : r = Message(id + 1, "tool", {id + 1}) /\ r.id = id + 1 /\ r.holds = {id + 1}
    BY <1>9, <2>2 DEF Roles
  <2>4. PICK y : y = Append(h, m)
    OBVIOUS
  <2>5. Turned(y, fresh \cup {id}) /\ y \in Seq(Messages) /\ y # <<>>
    BY <1>8, <1>11, <2>1, <2>4, TurnGrows
  <2>6. PICK some : some = fresh \cup {id}
    OBVIOUS
  <2>7. PICK g : g = Append(y, r)
    OBVIOUS
  <2>8. id + 1 \in Coming
    BY <1>10, <2>2
  <2>9. Turned(y, some)
    BY <2>5, <2>6
  <2>10. Turned(g, some \cup {r.id})
    BY <2>3, <2>5, <2>7, <2>8, <2>9, TurnGrows
  <2>11. PICK new : new = fresh \cup {id, id + 1}
    OBVIOUS
  <2>12. new = some \cup {r.id}
    BY <2>3, <2>6, <2>11
  <2>13. h \o <<m, r>> = Append(y, r)
    BY <1>8, <2>4, TwoMore
  <2>14. g = hist' /\ fresh' = new /\ Turned(g, new)
    BY <1>14, <2>1, <2>3, <2>7, <2>10, <2>11, <2>12, <2>13
  <2>15. \A i \in DOMAIN y : y[i] = m \/ \E j \in DOMAIN h : y[i] = h[j]
    BY <1>8, <2>4
  <2>16. \A i \in DOMAIN g : g[i] = r \/ \E j \in DOMAIN y : g[i] = y[j]
    BY <2>5, <2>7
  <2>17. \A i \in DOMAIN g : g[i].holds \subseteq 1 .. next'
    <3>1. \A i \in DOMAIN h : h[i].holds \subseteq 1 .. next'
      BY <1>8, <1>12
    <3>2. \A i \in DOMAIN y : y[i].holds \subseteq 1 .. next'
      BY <1>12, <2>1, <2>15, <3>1
    <3> QED BY <2>2, <2>3, <2>16, <3>2
  <2>18. \A m1 \in new : m1 \in 1 .. next' /\ (m1 \in fresh \/ ~(m1 <= next))
    BY <1>5, <1>7, <1>12, <2>2, <2>11
  <2>19. Turned(hist', new) /\ \A i \in DOMAIN hist' : hist'[i].holds \subseteq 1 .. next'
    BY <2>14, <2>17
  <2> QED BY <1>2, <1>3, <1>4, <1>5, <1>7, <2>14, <2>18, <2>19, TurnHolds
<1> QED BY <1>6, <1>13, <1>14

-----------------------------------------------------------------------------
(* Commits keep it *)

(* More lines carry more, and more stands under more.                      *)
LEMMA MoreCarries ==
    ASSUME NEW L, NEW K, L \subseteq K
    PROVE  /\ \A m, h : Carries(L, m, h) => Carries(K, m, h)
           /\ \A a, b : Under(L, a, b) => Under(K, a, b)
<1>1. \A G : Shut(G, K) => Shut(G, L)
  BY DEF Shut
<1>2. \A m, h : Carries(L, m, h) => Carries(K, m, h)
  BY <1>1 DEF Carries
<1> QED BY <1>1, <1>2 DEF Under

(* The last line of a chain stands on the others, and on its base.         *)
LEMMA ChainUnder ==
    ASSUME NEW n \in Nat, NEW c \in [1 .. n -> Nodes], NEW b, Chained(c, n, b), \A k \in 1 .. n : c[k].id > 0,
           NEW i \in 1 .. n, NEW L, \A k \in 1 .. i : c[k] \in L
    PROVE  Under(L, c[i].id, b) /\ \A k \in 1 .. i : Under(L, c[i].id, c[k].id)
<1>1. ASSUME NEW G \in SUBSET Ident, Shut(G, L), c[i].id \in G
      PROVE  b \in G /\ \A k \in 1 .. i : c[k].id \in G
  <2>1. PICK S : S = {k \in 1 .. i : c[k].id \in G}
    OBVIOUS
  <2>2. ASSUME NEW k \in 1 .. i PROVE Source(c[k]) = IF k = 1 THEN b ELSE c[k - 1].id
    <3>1. k \in 1 .. n /\ c[k].id \in Int
      <4>1. k \in 1 .. n
        OBVIOUS
      <4>2. c[k] \in Nodes
        BY <4>1
      <4> QED BY <4>1, <4>2, Identifiers DEF Nodes
    <3>2. ~(c[k].id < 0)
      BY <3>1
    <3> QED BY <3>1, <3>2 DEF Source, Chained
  <2>3. ASSUME NEW k \in 2 .. i, k \in S PROVE k - 1 \in S
    <3>1. k \in 1 .. i /\ k # 1 /\ k - 1 \in 1 .. i
      OBVIOUS
    <3>2. c[k - 1].id \in G
      BY <1>1, <2>1, <2>2, <2>3, <3>1 DEF Shut
    <3> QED BY <2>1, <3>1, <3>2
  <2>4. i \in S /\ i \in Nat
    BY <1>1, <2>1
  <2>5. \A k \in 1 .. i : k \in S
    BY <2>3, <2>4, DownTheWalk
  <2>6. 1 \in 1 .. i
    OBVIOUS
  <2>7. c[1].id \in G /\ c[1] \in L /\ Source(c[1]) = b
    BY <2>1, <2>2, <2>5, <2>6
  <2>8. b \in G
    BY <1>1, <2>7 DEF Shut
  <2> QED BY <2>1, <2>5, <2>8
<1> QED BY <1>1 DEF Under

(* A commit appends a chain of lines, each followed by the mark that moves *)
(* the head to it: what the messages hold that are not recorded.           *)
CommitsTo(items, ms, c, n) ==
    /\ n \in Nat /\ c \in [1 .. n -> Nodes] /\ Chained(c, n, store.head) /\ DOMAIN items = 1 .. 2 * n
    /\ \A i \in 1 .. n : c[i].id \in Coming /\ c[i].kind = "node" /\ c[i].id > 0
    /\ \A i \in 1 .. n : \E k \in DOMAIN ms : c[i].holds = ms[k].holds
    /\ \A k \in DOMAIN ms : ms[k].id \notin DOMAIN store.nodes => \E i \in 1 .. n : c[i].holds = ms[k].holds
    /\ \A i \in 1 .. n : /\ items[2 * i - 1].line = c[i] /\ Entering(items[2 * i - 1]) = {}
                         /\ items[2 * i].line = Mark("head", c[i].id)
                         /\ Entering(items[2 * i]) = {c[i], Mark("head", c[i].id)}
    /\ \A j \in DOMAIN items : \E i \in 1 .. n : j = 2 * i - 1 \/ j = 2 * i

(* The appends of Commit write such a chain.                               *)
LEMMA CommitLines ==
    ASSUME TypeInv, CursorInv, NEW ms \in Seq(Messages), NEW items, items = CommitItems(ms), EachOnce(ms),
           \A i \in DOMAIN ms : ms[i].id \in DOMAIN store.nodes \/ (ms[i].id \in Coming /\ ms[i].id <= next)
    PROVE  \E c, n : CommitsTo(items, ms, c, n)
<1>0. store \in Stores
  BY DEF TypeInv, MemoryTyped
<1>2. PICK new \in Seq(Messages) : Commits(items, ms, new)
  <2>1. \E new \in Seq(Messages) : Commits(CommitItems(ms), ms, new)
    BY <1>0, CommitShape
  <2> QED BY <2>1
<1>3. PICK n \in Nat : n = Len(new)
  OBVIOUS
<1>4. /\ DOMAIN new = 1 .. n
      /\ \A i \in 1 .. n : \E k \in DOMAIN ms : new[i] = ms[k] /\ ms[k].id \notin DOMAIN store.nodes
      /\ \A k \in DOMAIN ms : ms[k].id \notin DOMAIN store.nodes => \E i \in 1 .. n : new[i] = ms[k]
      /\ DOMAIN items = 1 .. 2 * n
      /\ \A i \in 1 .. n :
           /\ items[2 * i - 1] = Item(NewLine(new, i), <<>>, store.cursor)
           /\ items[2 * i] = Item(NewHead(new, i), <<NewLine(new, i), NewHead(new, i)>>, store.cursor)
  BY <1>2, <1>3 DEF Commits
<1>5. \A i, j \in 1 .. n : new[i].id = new[j].id => i = j
  BY <1>2, <1>3 DEF Commits, EachOnce
<1>6. \A i \in 1 .. n : new[i] \in Messages /\ new[i].id \in Coming /\ new[i].id \in Ident /\ new[i].id > 0
  <2> TAKE i \in 1 .. n
  <2>1. new[i] \in Messages
    BY <1>4, ElementOfSeq
  <2>2. new[i].id \in Coming
    BY <1>4
  <2>3. new[i].id \in 1 .. MaxNodes
    BY <2>2, ComingIsNew
  <2> QED BY <2>1, <2>2, <2>3, MessagesAreTyped, Identifiers
<1>10. \A i \in 1 .. n : NewLine(new, i) \in Nodes /\ NewLine(new, i).id = new[i].id /\ NewLine(new, i).kind = "node"
                         /\ NewLine(new, i).parent = (IF i = 1 THEN store.head ELSE new[i - 1].id)
                         /\ NewLine(new, i).holds = new[i].holds
  <2> TAKE i \in 1 .. n
  <2>1. PICK p \in Ident : p = IF i = 1 THEN store.head ELSE new[i - 1].id
    <3>1. i # 1 => i - 1 \in 1 .. n
      BY <1>3
    <3> QED BY <1>6, <3>1, HeadIsNamed
  <2>2. PICK m \in Messages : m = new[i]
    BY <1>6
  <2>3. NewLine(new, i) = Node(m, p)
    BY <2>1, <2>2 DEF NewLine
  <2>4. Node(m, p).parent = p /\ Node(m, p).holds = m.holds
    BY DEF Node
  <2> QED BY <2>1, <2>2, <2>3, <2>4, LinesAreTyped
<1>11. PICK c \in [1 .. n -> Nodes] : \A i \in 1 .. n : c[i] = NewLine(new, i)
  <2>1. [i \in 1 .. n |-> NewLine(new, i)] \in [1 .. n -> Nodes]
    BY <1>10
  <2> QED BY <2>1
<1>13. \A i \in 1 .. n : c[i].id = new[i].id /\ c[i].holds = new[i].holds /\ c[i].kind = "node"
  BY <1>10, <1>11
<1>14. Chained(c, n, store.head)
  <2>1. \A i \in 1 .. n : i # 1 => i - 1 \in 1 .. n
    BY <1>3
  <2> QED BY <1>5, <1>10, <1>11, <1>13, <2>1 DEF Chained
<1>26. \A j \in DOMAIN items : \E i \in 1 .. n : j = 2 * i - 1 \/ j = 2 * i
  BY <1>3, <1>4, Halves
<1>27. \A i \in 1 .. n : /\ items[2 * i - 1].line = c[i] /\ Entering(items[2 * i - 1]) = {}
                         /\ items[2 * i].line = Mark("head", c[i].id) /\ Entering(items[2 * i]) = {c[i], Mark("head", c[i].id)}
  <2> TAKE i \in 1 .. n
  <2>1. PICK l, h : l = NewLine(new, i) /\ h = NewHead(new, i) /\ l = c[i] /\ h = Mark("head", c[i].id)
    BY <1>11, <1>13 DEF NewHead
  <2>2. items[2 * i - 1] = Item(l, <<>>, store.cursor) /\ items[2 * i] = Item(h, <<l, h>>, store.cursor)
    BY <1>4, <2>1
  <2>3. /\ Item(l, <<>>, store.cursor).line = l /\ Item(l, <<>>, store.cursor).mem = <<>>
        /\ Item(h, <<l, h>>, store.cursor).line = h /\ Item(h, <<l, h>>, store.cursor).mem = <<l, h>>
    BY DEF Item
  <2>4. DOMAIN <<>> = {} /\ DOMAIN <<l, h>> = {1, 2} /\ <<l, h>>[1] = l /\ <<l, h>>[2] = h
    OBVIOUS
  <2>5. Entering(items[2 * i - 1]) = {}
    BY <2>2, <2>3, <2>4 DEF Entering
  <2>6. Entering(items[2 * i]) = {l, h}
    BY <2>2, <2>3, <2>4 DEF Entering
  <2> QED BY <2>1, <2>2, <2>3, <2>5, <2>6
<1>28. \A i \in 1 .. n : c[i].id \in Coming /\ c[i].id > 0
  BY <1>6, <1>13
<1>29. \A i \in 1 .. n : \E k \in DOMAIN ms : c[i].holds = ms[k].holds
  <2> TAKE i \in 1 .. n
  <2>1. PICK k \in DOMAIN ms : new[i] = ms[k]
    BY <1>4
  <2> QED BY <1>13, <2>1
<1>30. \A k \in DOMAIN ms : ms[k].id \notin DOMAIN store.nodes => \E i \in 1 .. n : c[i].holds = ms[k].holds
  <2> TAKE k \in DOMAIN ms
  <2> HAVE ms[k].id \notin DOMAIN store.nodes
  <2>1. PICK i \in 1 .. n : new[i] = ms[k]
    BY <1>4
  <2> QED BY <1>13, <2>1
<1>31. CommitsTo(items, ms, c, n)
  BY <1>4, <1>13, <1>14, <1>26, <1>27, <1>28, <1>29, <1>30 DEF CommitsTo
<1> QED BY <1>31

(* The file once i of the lines of a commit have been written. *)
LEMMA AfterCommit ==
    ASSUME TypeInv, CursorInv, NEW items, NEW ms, NEW c, NEW n, CommitsTo(items, ms, c, n),
           NEW i \in 0 .. n, NEW j \in Nat, j = 2 * i - 1 \/ j = 2 * i
    PROVE  After(file, items, j) = Filed \cup {c[k] : k \in 1 .. i}
<1>1. /\ n \in Nat /\ DOMAIN items = 1 .. 2 * n /\ i \in Nat /\ i <= n
      /\ \A q \in 1 .. n : /\ items[2 * q - 1].line = c[q] /\ items[2 * q].line = Mark("head", c[q].id)
                           /\ c[q].kind = "node" /\ c[q].id \in Coming
  BY DEF CommitsTo
<1>2. PICK D : D = {c[k] : k \in 1 .. i}
  OBVIOUS
<1>3. ASSUME NEW k \in 1 .. j, items[k].line.kind = "node" PROVE items[k].line \in D
  <2>1. k \in 1 .. 2 * n /\ n \in Nat
    BY <1>1
  <2>2. PICK q \in 1 .. n : k = 2 * q - 1 \/ k = 2 * q
    BY <2>1, Halves
  <2>3. items[2 * q].line.kind = "head"
    <3>1. Mark("head", c[q].id).kind = "head"
      BY DEF Mark
    <3>2. items[2 * q].line = Mark("head", c[q].id)
      BY <1>1
    <3> QED BY <3>1, <3>2
  <2>4. k = 2 * q - 1 /\ items[k].line = c[q]
    BY <1>1, <1>3, <2>2, <2>3
  <2>5. q \in 1 .. i
    <3>1. q \in Int /\ 2 * q - 1 <= 2 * i /\ q >= 1
      BY <1>1, <2>2, <2>4
    <3>2. q <= i
      BY <1>1, <3>1
    <3> QED BY <1>1, <3>1, <3>2
  <2> QED BY <1>2, <2>4, <2>5
<1>4. ASSUME NEW q \in 1 .. i PROVE \E k \in 1 .. j : items[k].line = c[q] /\ items[k].line.kind = "node"
  <2>1. q \in 1 .. n /\ 2 * q - 1 \in 1 .. j
    BY <1>1
  <2> QED BY <1>1, <2>1
<1>5. Due(items, j) = D
  <2>1. \A l \in D : l \in Due(items, j)
    BY <1>2, <1>4 DEF Due, Declaring
  <2>2. \A l \in Due(items, j) : l \in D
    BY <1>3 DEF Due, Declaring
  <2> QED BY <2>1, <2>2
<1>6. \A o \in Filed, l \in D : o.id # l.id
  <2> SUFFICES ASSUME NEW o \in Filed, NEW q \in 1 .. i, o.id = c[q].id PROVE FALSE
    BY <1>2
  <2>1. q \in 1 .. n
    BY <1>1
  <2>2. c[q].id \notin Declared(Said)
    BY <1>1, <2>1, ComingIsNew
  <2>3. o.id \in Declared(Said)
    BY DEF Filed, Declared, Declaring, Said
  <2> QED BY <2>2, <2>3
<1>7. \A o \in Filed : o.id \notin Declared(D)
  BY <1>6 DEF Declared, Declaring
<1> QED BY <1>2, <1>5, <1>7 DEF After, Later, Filed

(* A commit forgets nothing, if what folds of the file hold of the run or  *)
(* of what was reported persisted is carried at the head.                  *)
LEMMA CommitPlan ==
    ASSUME TypeInv, CursorInv, DiskKept, stage # "down", NEW ms \in Seq(Messages), NEW items, items = CommitItems(ms), EachOnce(ms),
           \A i \in DOMAIN ms : ms[i].id \in DOMAIN store.nodes \/ (ms[i].id \in Coming /\ ms[i].id <= next),
           UNCHANGED <<file, store, told, fresh>>, todo' = items,
           \A m \in Live : Carries(Filed, m, store.head) \/ \A f \in Filed : f.id < 0 => m \notin f.holds
    PROVE  /\ TodoKept'
           /\ \A m \in Live :
                \/ Carries(Filed, m, store.head) /\ Carries(Filed, m, file.head)
                \/ \E k \in DOMAIN ms : ms[k].id \notin DOMAIN store.nodes /\ m \in ms[k].holds
                => Final(m)'
           /\ \A l \in Declaring(Asked(todo')) : \E k \in DOMAIN ms : l.holds = ms[k].holds
<1>1. PICK c, n : CommitsTo(items, ms, c, n)
  BY CommitLines
<1>2. /\ n \in Nat /\ c \in [1 .. n -> Nodes] /\ Chained(c, n, store.head) /\ DOMAIN items = 1 .. 2 * n
      /\ \A i \in 1 .. n : c[i].id \in Coming /\ c[i].kind = "node" /\ c[i].id > 0
      /\ \A i \in 1 .. n : \E k \in DOMAIN ms : c[i].holds = ms[k].holds
      /\ \A k \in DOMAIN ms : ms[k].id \notin DOMAIN store.nodes => \E i \in 1 .. n : c[i].holds = ms[k].holds
      /\ \A i \in 1 .. n : /\ items[2 * i - 1].line = c[i] /\ Entering(items[2 * i - 1]) = {}
                           /\ items[2 * i].line = Mark("head", c[i].id)
                           /\ Entering(items[2 * i]) = {c[i], Mark("head", c[i].id)}
      /\ \A j \in DOMAIN items : \E i \in 1 .. n : j = 2 * i - 1 \/ j = 2 * i
  BY <1>1 DEF CommitsTo
<1> DEFINE Grows(i) == Filed \cup {c[k] : k \in 1 .. i}
<1>3. \A i \in 1 .. n : /\ After(file, items, 2 * i - 1) = Grows(i) /\ After(file, items, 2 * i) = Grows(i)
                        /\ After(file, items, (2 * i - 1) - 1) = Grows(i - 1)
                        /\ Grows(i) = Grows(i - 1) \cup {c[i]}
  <2> TAKE i \in 1 .. n
  <2>1. /\ i \in 0 .. n /\ 2 * i - 1 \in Nat /\ 2 * i \in Nat /\ i - 1 \in 0 .. n /\ (2 * i - 1) - 1 \in Nat
        /\ (2 * i - 1) - 1 = 2 * (i - 1)
    BY <1>2
  <2>2. PICK a \in Nat, b \in Nat, d \in Nat, p \in 0 .. n : a = 2 * i - 1 /\ b = 2 * i /\ d = 2 * p /\ p = i - 1 /\ d = (2 * i - 1) - 1
    BY <2>1
  <2>3. After(file, items, a) = Grows(i)
    BY <1>1, <2>1, <2>2, AfterCommit
  <2>4. After(file, items, b) = Grows(i)
    BY <1>1, <2>1, <2>2, AfterCommit
  <2>5. After(file, items, d) = Grows(p)
    BY <1>1, <2>2, AfterCommit
  <2>6. \A k : k \in 1 .. i <=> k \in 1 .. i - 1 \/ k = i
    BY <1>2
  <2>7. Grows(i) = Grows(i - 1) \cup {c[i]}
    BY <2>6
  <2> QED BY <2>2, <2>3, <2>4, <2>5, <2>7
<1>4. ASSUME NEW i \in 1 .. n
      PROVE  /\ Under(Grows(i), c[i].id, store.head) /\ \A k \in 1 .. i : Under(Grows(i), c[i].id, c[k].id)
             /\ \A m, h : Carries(Filed, m, h) => Carries(Grows(i), m, h)
             /\ \A a, b : Under(Filed, a, b) => Under(Grows(i), a, b)
  <2>1. \A k \in 1 .. i : c[k] \in Grows(i)
    OBVIOUS
  <2>2. Filed \subseteq Grows(i)
    OBVIOUS
  <2>3. PICK L : L = Grows(i)
    OBVIOUS
  <2> HIDE DEF Grows
  <2>4. Under(L, c[i].id, store.head) /\ \A k \in 1 .. i : Under(L, c[i].id, c[k].id)
    BY <1>2, <2>1, <2>3, ChainUnder
  <2> QED BY <2>2, <2>3, <2>4, MoreCarries
<1>5. \A i \in 1 .. n : \A m : Carries(Filed, m, store.head) => Carries(Grows(i), m, c[i].id)
  <2> TAKE i \in 1 .. n
  <2> TAKE m
  <2> HAVE Carries(Filed, m, store.head)
  <2> HIDE DEF Grows
  <2> QED BY <1>4, UnderCarries
<1>6. \A i \in 1 .. n, k \in 1 .. n : \A m : k <= i /\ m \in c[k].holds => Carries(Grows(i), m, c[i].id)
  <2> TAKE i \in 1 .. n, k \in 1 .. n
  <2> TAKE m
  <2> HAVE k <= i /\ m \in c[k].holds
  <2>1. k \in 1 .. i /\ c[k] \in Grows(i)
    OBVIOUS
  <2>2. PICK L : L = Grows(i)
    OBVIOUS
  <2> HIDE DEF Grows
  <2>3. Carries(L, m, c[k].id)
    BY <2>1, <2>2, LineCarries
  <2>4. Under(L, c[i].id, c[k].id)
    BY <1>4, <2>1, <2>2
  <2> QED BY <2>2, <2>3, <2>4, UnderCarries
<1>7. ASSUME NEW i \in 1 .. n, NEW m \in Live PROVE Fits(Grows(i - 1), c[i], m)
  <2>0. c[i] \in Nodes /\ ~(c[i].id < 0)
    <3>1. c[i] \in Nodes /\ c[i].id > 0
      BY <1>2
    <3>2. c[i].id \in Int
      BY <3>1, Identifiers DEF Nodes
    <3> QED BY <3>1, <3>2
  <2>1. ASSUME NEW f \in Grows(i - 1), f.id < 0, m \in f.holds
        PROVE  Carries(Grows(i - 1), m, -f.id) \/ Under(Grows(i), c[i].id, f.id)
    <3>1. f \in Filed
      <4> SUFFICES ASSUME NEW k \in 1 .. i - 1, f = c[k] PROVE FALSE
        BY <2>1
      <4>1. k \in 1 .. n
        BY <1>2
      <4>2. c[k].id > 0 /\ c[k].id \in Int
        BY <1>2, <4>1, Identifiers DEF Nodes
      <4> QED BY <2>1, <4>2
    <3>2. Carries(Filed, m, store.head)
      BY <2>1, <3>1
    <3>3. CASE Carries(Filed, m, -f.id)
      <4>1. Filed \subseteq Grows(i - 1)
        OBVIOUS
      <4> HIDE DEF Grows
      <4> QED BY <3>3, <4>1, MoreCarries
    <3>4. CASE \A l \in Filed : m \in l.holds => Under(Filed, l.id, f.id)
      <4>1. Under(Filed, store.head, f.id)
        BY <3>2, <3>4, UnderCarries
      <4> HIDE DEF Grows
      <4>2. Under(Grows(i), c[i].id, store.head) /\ Under(Grows(i), store.head, f.id)
        BY <1>4, <4>1
      <4> QED BY <4>2, UnderCarries
    <3>5. Sorted(Filed, m)
      BY <1>7 DEF DiskKept
    <3> QED BY <2>1, <3>1, <3>3, <3>4, <3>5 DEF Sorted
  <2>2. Grows(i) = Grows(i - 1) \cup {c[i]}
    BY <1>3
  <2> HIDE DEF Grows
  <2> QED BY <2>0, <2>1, <2>2 DEF Fits
<1> HIDE DEF Grows
<1>8. Live' = Live /\ file' = file /\ told' = told /\ store' = store
  BY DEF Live
<1>9. \A i \in 1 .. n : Mark("head", c[i].id).kind = "head" /\ Mark("head", c[i].id).id = c[i].id
  BY DEF Mark
<1>10. ASSUME NEW j \in DOMAIN items
       PROVE  /\ j > 1 /\ items[j].line.kind = "node" => items[j].line.id > 0
              /\ items[j].line.kind = "node" => \A m \in Live : Fits(After(file, items, j - 1), items[j].line, m)
              /\ \A l \in Declaring(Entering(items[j])) : Backed(l, After(file, items, j), Live)
              /\ \A l \in {items[j].line} \cup Entering(items[j]) :
                   l.kind = "head" => \A m \in told : Carries(After(file, items, j - 1), m, l.id)
  <2>1. PICK i \in 1 .. n : j = 2 * i - 1 \/ j = 2 * i
    BY <1>2
  <2>2. CASE j = 2 * i - 1
    <3>1. items[j].line = c[i] /\ Entering(items[j]) = {} /\ After(file, items, j - 1) = Grows(i - 1)
      BY <1>2, <1>3, <2>2
    <3>2. c[i].kind = "node" /\ c[i].id > 0 /\ Declaring({}) = {}
      BY <1>2 DEF Declaring
    <3> QED BY <1>7, <3>1, <3>2
  <2>3. CASE j = 2 * i
    <3>1. /\ items[j].line = Mark("head", c[i].id) /\ Entering(items[j]) = {c[i], Mark("head", c[i].id)}
          /\ After(file, items, j) = Grows(i) /\ After(file, items, j - 1) = Grows(i)
      BY <1>2, <1>3, <2>3
    <3>2. items[j].line.kind = "head" /\ Declaring(Entering(items[j])) = {c[i]} /\ c[i].kind = "node"
      BY <1>2, <1>9, <3>1 DEF Declaring
    <3>3. c[i] \in Grows(i)
      BY DEF Grows
    <3>4. Backed(c[i], Grows(i), Live)
      BY <3>3, LineCarries DEF Backed
    <3>5. \A m \in told : Carries(Grows(i), m, c[i].id)
      BY <1>5 DEF DiskKept
    <3> QED BY <1>9, <3>1, <3>2, <3>4, <3>5
  <2> QED BY <2>1, <2>2, <2>3
<1>11. TodoKept'
  BY <1>8, <1>10 DEF TodoKept
<1>12. ASSUME NEW m \in Live,
              \/ Carries(Filed, m, store.head) /\ Carries(Filed, m, file.head)
              \/ \E k \in DOMAIN ms : ms[k].id \notin DOMAIN store.nodes /\ m \in ms[k].holds
       PROVE  Final(m)'
  <2>1. Filed' = Filed
    <3>1. Filed' = Declaring(LinesOf(file'))
      BY DEF Filed
    <3> QED BY <1>8, <3>1 DEF Filed
  <2>2. Len(todo') = 2 * n /\ (todo' = <<>> <=> n = 0)
    <3>1. todo' \in Seq(Items)
      BY <1>1, CommitIsTyped DEF TypeInv, MemoryTyped
    <3> QED BY <1>2, <3>1
  <2>3. CASE n = 0
    <3>1. ~\E i \in 1 .. n : TRUE
      BY <2>3
    <3>2. Carries(Filed, m, store.head) /\ Carries(Filed, m, file.head)
      BY <1>2, <1>12, <3>1
    <3> QED BY <1>8, <2>1, <2>2, <2>3, <3>2 DEF Final
  <2>4. CASE n # 0
    <3>1. n \in 1 .. n
      BY <1>2, <2>4
    <3>2. todo'[Len(todo')].line = Mark("head", c[n].id) /\ After(file', todo', Len(todo')) = Grows(n)
      BY <1>2, <1>3, <1>8, <2>2, <3>1
    <3>3. Carries(Grows(n), m, c[n].id)
      <4>1. CASE Carries(Filed, m, store.head)
        BY <1>5, <3>1, <4>1
      <4>2. CASE \E k \in DOMAIN ms : ms[k].id \notin DOMAIN store.nodes /\ m \in ms[k].holds
        <5>1. PICK i \in 1 .. n : m \in c[i].holds
          BY <1>2, <4>2
        <5>2. i <= n
          BY <1>2
        <5> QED BY <1>6, <3>1, <5>1, <5>2
      <4> QED BY <1>12, <4>1, <4>2
    <3>4. todo' # <<>>
      BY <2>2, <2>4
    <3> QED BY <1>9, <3>1, <3>2, <3>3, <3>4 DEF Final
  <2> QED BY <2>3, <2>4
<1>13. ASSUME NEW l \in Declaring(Asked(todo')) PROVE \E k \in DOMAIN ms : l.holds = ms[k].holds
  <2>1. PICK j \in DOMAIN items : l \in {items[j].line, Mark("cursor", items[j].cursor)} \cup Entering(items[j])
    BY <1>13 DEF Asked, Declaring
  <2>2. l.kind = "node" /\ l # Mark("cursor", items[j].cursor)
    BY <1>13 DEF Declaring, Mark
  <2>3. PICK i \in 1 .. n : j = 2 * i - 1 \/ j = 2 * i
    BY <1>2
  <2>4. l = c[i] \/ l = Mark("head", c[i].id)
    <3>1. l = items[j].line \/ l \in Entering(items[j])
      BY <2>1, <2>2
    <3>2. CASE j = 2 * i - 1
      <4>1. items[j].line = c[i] /\ Entering(items[j]) = {}
        BY <1>2, <3>2
      <4> QED BY <3>1, <4>1
    <3>3. CASE j = 2 * i
      <4>1. items[j].line = Mark("head", c[i].id) /\ Entering(items[j]) = {c[i], Mark("head", c[i].id)}
        BY <1>2, <3>3
      <4> QED BY <3>1, <4>1
    <3> QED BY <2>3, <3>2, <3>3
  <2>5. l = c[i]
    BY <1>9, <2>2, <2>4
  <2> QED BY <1>2, <2>5
<1> QED BY <1>11, <1>12, <1>13

(* A step that plans appends and changes nothing else.                     *)
LEMMA PlanHolds ==
    ASSUME TypeInv, TypeInv', HoldInv, DiskKept, ConvKept, UNCHANGED <<file, store, conv, told, fresh, hist>>, next <= next',
           stage # "down", stage' \notin Running => fresh = {}, stage' # "run", TodoKept', FreshKept',
           \A l \in Declaring(Asked(todo')) : l.holds \subseteq 1 .. next'
    PROVE  LossInv'
<1>1. next \in Nat /\ next' \in Nat /\ Live' = Live
  BY DEF TypeInv, CountsTyped, Live
<1>2. 1 .. next \subseteq 1 .. next'
  BY <1>1
<1>3. Filed' = Filed /\ Stored' = Stored
  <2>1. Filed' = Declaring(LinesOf(file')) /\ Stored' = Declaring(LinesOf(store'))
    BY DEF Filed, Stored
  <2> QED BY <2>1 DEF Filed, Stored
<1>4. HoldInv'
  <2>1. \A l \in Filed' \cup Stored' \cup Declaring(Asked(todo')) : l.holds \subseteq 1 .. next'
    BY <1>2, <1>3 DEF HoldInv
  <2>2. \A i \in DOMAIN hist' : hist'[i].holds \subseteq 1 .. next'
    BY <1>2 DEF HoldInv
  <2>3. \A i \in DOMAIN conv' : conv'[i].holds \subseteq 1 .. next'
    BY <1>2 DEF HoldInv
  <2>4. Live' \subseteq 1 .. next' /\ (stage' \notin Running => fresh' = {})
    BY <1>1, <1>2 DEF HoldInv
  <2> QED BY <2>1, <2>2, <2>3, <2>4 DEF HoldInv
<1>5. DiskKept'
  BY <1>1, <1>3 DEF DiskKept
<1>6. ConvKept'
  BY <1>1, <1>3 DEF ConvKept
<1>7. RunInv'
  BY DEF RunInv
<1> QED BY <1>4, <1>5, <1>6, <1>7 DEF LossInv

(* The steps that plan a commit forget nothing.                            *)
LEMMA CommitsHold ==
    ASSUME TypeInv, TypeInv', CursorInv, LossInv, CommitRest \/ (FinishRun /\ DetectCompact(conv, hist) = 0)
    PROVE  LossInv'
<1>1. SUFFICES ASSUME ~spoiled PROVE LossInv'
  BY DEF LossInv, CommitRest, FinishRun, DiskSame
<1>2. HoldInv /\ DiskKept /\ ConvKept /\ RunInv /\ FreshKept
  BY <1>1 DEF LossInv
<1>3. /\ stage \in {"run", "runCompact"} /\ todo = <<>> /\ UNCHANGED <<file, store, conv, told, fresh, hist>>
      /\ stage' = "commit" /\ next' = next
      /\ (stage = "run" /\ todo' = CommitItems(hist)) \/ (stage = "runCompact" /\ todo' = CommitItems(Tail(hist)))
  <2>1. CASE CommitRest
    BY <2>1 DEF CommitRest, DiskSame, StoreSame
  <2>2. CASE FinishRun /\ DetectCompact(conv, hist) = 0
    <3>1. todo = <<>>
      BY <2>2, StageNames DEF FinishRun, TypeInv, TodoTyped
    <3>2. /\ stage = "run" /\ UNCHANGED <<file, store, conv, told, fresh, hist>>
          /\ \E k : /\ k = DetectCompact(conv, hist)
                    /\ stage' = IF k = 0 THEN "commit" ELSE stage'
                    /\ next' = IF k = 0 THEN next ELSE next'
                    /\ todo' = IF k = 0 THEN CommitItems(hist) ELSE todo'
      BY <2>2 DEF FinishRun, DiskSame, StoreSame
    <3> QED BY <2>2, <3>1, <3>2
  <2> QED BY <2>1, <2>2
<1>4. hist \in Seq(Messages) /\ hist # <<>> /\ DOMAIN hist = 1 .. Len(hist) /\ Len(hist) \in Nat /\ next \in Nat
  BY <1>3 DEF TypeInv, MemoryTyped, CountsTyped
<1>5. EachOnce(hist) /\ \A i \in DOMAIN hist : hist[i].id \in DOMAIN store.nodes \/ hist[i].id \in 1 .. next
  BY <1>3 DEF CursorInv, HistInv
<1>6. \A i \in DOMAIN hist : hist[i].id \in DOMAIN store.nodes \/ (hist[i].id \in Coming /\ hist[i].id <= next)
  <2> TAKE i \in DOMAIN hist
  <2>1. hist[i].id \in Ids(hist)
    BY DEF Ids
  <2> QED BY <1>3, <1>4, <1>5, <2>1 DEF Coming
<1>7. \E ms \in Seq(Messages) :
        /\ todo' = CommitItems(ms) /\ EachOnce(ms)
        /\ \A i \in DOMAIN ms : ms[i].id \in DOMAIN store.nodes \/ (ms[i].id \in Coming /\ ms[i].id <= next)
        /\ \A k \in DOMAIN ms : \E i \in DOMAIN hist : ms[k] = hist[i]
        /\ stage = "run" => ms = hist
        /\ stage = "runCompact" => \A i \in 2 .. Len(hist) : \E k \in DOMAIN ms : ms[k] = hist[i]
  <2>1. CASE stage = "run"
    BY <1>3, <1>4, <1>5, <1>6, <2>1
  <2>2. CASE stage = "runCompact"
    <3>1. PICK ms : ms = Tail(hist)
      OBVIOUS
    <3>2. /\ ms \in Seq(Messages) /\ Len(ms) = Len(hist) - 1 /\ DOMAIN ms = 1 .. Len(hist) - 1
          /\ \A i \in DOMAIN ms : i + 1 \in DOMAIN hist /\ ms[i] = hist[i + 1]
      BY <1>4, <3>1
    <3>3. EachOnce(ms)
      <4> SUFFICES ASSUME NEW i \in DOMAIN ms, NEW j \in DOMAIN ms, ms[i].id = ms[j].id PROVE i = j
        BY DEF EachOnce
      <4>1. i + 1 = j + 1
        BY <1>5, <3>2 DEF EachOnce
      <4> QED BY <3>2, <4>1
    <3>4. \A i \in DOMAIN ms : ms[i].id \in DOMAIN store.nodes \/ (ms[i].id \in Coming /\ ms[i].id <= next)
      BY <1>6, <3>2
    <3>5. \A i \in 2 .. Len(hist) : \E k \in DOMAIN ms : ms[k] = hist[i]
      <4> TAKE i \in 2 .. Len(hist)
      <4>1. i - 1 \in DOMAIN ms /\ (i - 1) + 1 = i
        BY <3>2
      <4> QED BY <3>2, <4>1
    <3>6. todo' = CommitItems(ms)
      BY <1>3, <2>2, <3>1
    <3>7. \A k \in DOMAIN ms : \E i \in DOMAIN hist : ms[k] = hist[i]
      BY <3>2
    <3> QED BY <2>2, <3>2, <3>3, <3>4, <3>5, <3>6, <3>7
  <2> QED BY <1>3, <2>1, <2>2
<1>8. PICK ms \in Seq(Messages) :
        /\ todo' = CommitItems(ms) /\ EachOnce(ms)
        /\ \A i \in DOMAIN ms : ms[i].id \in DOMAIN store.nodes \/ (ms[i].id \in Coming /\ ms[i].id <= next)
        /\ \A k \in DOMAIN ms : \E i \in DOMAIN hist : ms[k] = hist[i]
        /\ stage = "run" => ms = hist
        /\ stage = "runCompact" => \A i \in 2 .. Len(hist) : \E k \in DOMAIN ms : ms[k] = hist[i]
  BY <1>7
<1>9. After(file, todo, Len(todo)) = Filed
  <2>1. Len(todo) = 0
    BY <1>3
  <2>2. \A k \in 1 .. Len(todo) : todo[k].line.kind # "node"
    BY <2>1
  <2> QED BY <2>2, MarksAdd DEF Filed
<1>10. ASSUME NEW m \in fresh
       PROVE  \/ Carries(Filed, m, store.head) /\ Carries(Filed, m, file.head)
              \/ /\ Clear(Filed, m)
                 /\ \E k \in DOMAIN ms : ms[k].id \notin DOMAIN store.nodes /\ m \in ms[k].holds
  <2>1. CASE stage = "run"
    <3>1. Clear(Filed \cup Stored, m) /\ Turned(hist, fresh)
      BY <1>2, <2>1 DEF RunInv
    <3> QED BY <1>8, <2>1, <3>1 DEF Turned, Clear
  <2>2. CASE stage = "runCompact"
    <3>1. CASE Final(m)
      BY <1>3, <3>1 DEF Final
    <3>2. CASE ~Final(m)
      <4>1. /\ Clear(After(file, todo, Len(todo)), m)
            /\ \E i \in 2 .. Len(hist) : hist[i].id \notin DOMAIN store.nodes /\ m \in hist[i].holds
        BY <1>2, <2>2, <3>2 DEF FreshKept
      <4>2. PICK i \in 2 .. Len(hist) : hist[i].id \notin DOMAIN store.nodes /\ m \in hist[i].holds
        BY <4>1
      <4>3. \E k \in DOMAIN ms : ms[k] = hist[i]
        BY <1>8, <2>2
      <4> QED BY <1>9, <4>1, <4>2, <4>3
    <3> QED BY <3>1, <3>2
  <2> QED BY <1>3, <2>1, <2>2
<1>11. \A m \in Live : Carries(Filed, m, store.head) \/ \A f \in Filed : f.id < 0 => m \notin f.holds
  <2> TAKE m \in Live
  <2>1. CASE m \in told
    BY <1>2, <1>3, <2>1 DEF DiskKept
  <2>2. CASE m \in fresh
    BY <1>10, <2>2 DEF Clear
  <2> QED BY <2>1, <2>2 DEF Live
<1>12. PICK items : items = CommitItems(ms)
  OBVIOUS
<1>13. /\ TodoKept'
       /\ \A m \in Live :
            \/ Carries(Filed, m, store.head) /\ Carries(Filed, m, file.head)
            \/ \E k \in DOMAIN ms : ms[k].id \notin DOMAIN store.nodes /\ m \in ms[k].holds
            => Final(m)'
       /\ \A l \in Declaring(Asked(todo')) : \E k \in DOMAIN ms : l.holds = ms[k].holds
  <2>1. /\ todo' = items /\ UNCHANGED <<file, store, told, fresh>> /\ stage # "down" /\ EachOnce(ms) /\ DiskKept
        /\ \A i \in DOMAIN ms : ms[i].id \in DOMAIN store.nodes \/ (ms[i].id \in Coming /\ ms[i].id <= next)
    BY <1>2, <1>3, <1>8, <1>12
  <2> QED BY <1>11, <1>12, <2>1, CommitPlan
<1>14. FreshKept'
  <2>1. ASSUME NEW m \in fresh PROVE Final(m)'
    <3>1. m \in Live
      BY DEF Live
    <3> QED BY <1>10, <1>13, <3>1
  <2> QED BY <1>3, <2>1 DEF FreshKept
<1>15. \A l \in Declaring(Asked(todo')) : l.holds \subseteq 1 .. next'
  <2> TAKE l \in Declaring(Asked(todo'))
  <2>1. PICK k \in DOMAIN ms : l.holds = ms[k].holds
    BY <1>13
  <2>2. PICK i \in DOMAIN hist : ms[k] = hist[i]
    BY <1>8
  <2> QED BY <1>2, <1>3, <2>1, <2>2 DEF HoldInv
<1>16. stage' \in Running /\ stage # "down" /\ stage' # "run" /\ next <= next'
  BY <1>3, <1>4 DEF Running
<1> QED BY <1>2, <1>3, <1>13, <1>14, <1>15, <1>16, PlanHolds

-----------------------------------------------------------------------------
(* Folds keep it *)

(* The head once i of the n clones of a fold stand on it.                  *)
Tip(to, c, i) == IF i = 0 THEN -to ELSE c[i].id

(* A fold appends its own line, a chain on it of what the rest of the path *)
(* holds, and the mark that moves the head to the last of them.            *)
FoldsTo(items, to, summary, P, t, fold, c, n) ==
    /\ n \in Nat /\ t \in 1 .. Len(P) /\ Len(P) = t + n /\ P[t] = to
    /\ fold \in Nodes /\ fold.kind = "node" /\ fold.id = -to /\ fold.id < 0 /\ fold.holds = summary
    /\ c \in [1 .. n -> Nodes] /\ Chained(c, n, -to)
    /\ \A i \in 1 .. n : /\ c[i].id \in Coming /\ c[i].id > 0 /\ c[i].kind = "node"
                         /\ c[i].holds = store.nodes[P[t + i]].holds
    /\ items \in Seq(Items) /\ Len(items) = n + 2 /\ DOMAIN items = 1 .. n + 2
    /\ items[1].line = fold /\ Entering(items[1]) = {fold}
    /\ \A i \in 1 .. n : items[i + 1].line = c[i] /\ Entering(items[i + 1]) = {c[i]}
    /\ items[n + 2].line = Mark("head", Tip(to, c, n)) /\ Entering(items[n + 2]) = {Mark("head", Tip(to, c, n))}
    /\ \A j \in DOMAIN items : j = 1 \/ j = n + 2 \/ \E i \in 1 .. n : j = i + 1

(* The appends of Compact write such a fold.                               *)
LEMMA FoldLines ==
    ASSUME TypeInv, CursorInv, NEW from, NEW to \in Ident, to > 0, NEW summary \in Holdings,
           NEW P, P = activePathIDs(store.nodes, store.head), \A i \in 1 .. Len(P) : P[i] = from => i = 1,
           NEW made, made = CompactItems(from, to, summary), made # <<>>, next + Clones(made) <= MaxNodes
    PROVE  \E t, fold, c, n : FoldsTo(made, to, summary, P, t, fold, c, n)
<1>1. store \in Stores /\ next \in 0 .. MaxNodes /\ next \in Nat /\ LinesOf(store) \subseteq Said /\ Keyed(store.nodes)
      /\ store.nodes \in NodeMaps /\ MaxNodes \in Nat /\ Ident \subseteq Int
  BY Identifiers DEF TypeInv, MemoryTyped, CountsTyped, CursorInv, Books, Said, Stores
<1>2. PICK f, t, cur : Compacts(made, from, to, summary, P, f, t, cur)
  BY <1>1, CompactShape
<1>3. Len(P) \in Nat /\ \A i \in 1 .. Len(P) : P[i] \in DOMAIN store.nodes /\ P[i] \in Ident
  <2>1. DOMAIN store.nodes \subseteq Ident
    BY <1>1, NodeMap
  <2> QED BY <1>1, <2>1, ViewShows
<1>a. t \in 1 .. Len(P) /\ f \in 1 .. Len(P)
  BY <1>2 DEF Compacts
<1>4. PICK n \in Nat : n = Len(P) - t
  BY <1>3, <1>a
<1>5. /\ f = 1 /\ t \in 1 .. Len(P) /\ P[t] = to /\ next + n <= MaxNodes /\ DOMAIN made = 1 .. n + 2
  BY <1>2, <1>4 DEF Compacts
<1>6. Len(P) = t + n
  BY <1>3, <1>4, <1>5
<1>7. \A i \in 1 .. n : next + i \in Coming /\ next + i \in Ident /\ next + i > 0
  <2> TAKE i \in 1 .. n
  <2>1. next + i \in 1 .. MaxNodes /\ next + i > next
    BY <1>1, <1>5
  <2> QED BY <1>1, <2>1, Identifiers DEF Coming
<1>8. PICK b \in Ident : b = -to
  BY Identifiers
<1>9. b < 0
  BY <1>1, <1>8
<1>11. PICK fold : fold = FoldLine(P, f, to, summary)
  OBVIOUS
<1>12. fold \in Nodes /\ fold.kind = "node" /\ fold.id = b /\ fold.holds = summary
  <2>1. fold = Node(Message(b, "system", summary), 0)
    BY <1>5, <1>8, <1>11 DEF FoldLine
  <2>2. Message(b, "system", summary) \in Messages /\ 0 \in Ident
    BY MessagesAreTyped, Identifiers DEF Messages, Message, Roles
  <2> QED BY <2>1, <2>2, LinesAreTyped DEF Node, Message
<1>13. \A i \in 1 .. n : /\ CloneLine(P, t, i) \in Nodes /\ CloneLine(P, t, i).kind = "node" /\ CloneLine(P, t, i).id = next + i
                         /\ CloneLine(P, t, i).parent = (IF i = 1 THEN b ELSE next + (i - 1))
                         /\ CloneLine(P, t, i).holds = store.nodes[P[t + i]].holds
  <2> TAKE i \in 1 .. n
  <2>1. t + i \in 1 .. Len(P)
    BY <1>3, <1>4, <1>5
  <2>2. PICK o \in Nodes : o = store.nodes[P[t + i]]
    BY <1>1, <1>3, <2>1, NodeMap
  <2>3. PICK p \in Ident : p = IF i = 1 THEN b ELSE next + (i - 1)
    <3>1. i # 1 => i - 1 \in 1 .. n
      OBVIOUS
    <3> QED BY <1>7, <3>1
  <2>4. CloneLine(P, t, i) = Node(Message(next + i, o.role, o.holds), p)
    BY <1>5, <1>8, <2>2, <2>3 DEF CloneLine
  <2>5. Message(next + i, o.role, o.holds) \in Messages
    BY <1>7, <2>2 DEF Nodes, Messages, Message
  <2> QED BY <2>2, <2>3, <2>4, <2>5, LinesAreTyped DEF Node, Message
<1>14. PICK c \in [1 .. n -> Nodes] : \A i \in 1 .. n : c[i] = CloneLine(P, t, i)
  <2>1. [i \in 1 .. n |-> CloneLine(P, t, i)] \in [1 .. n -> Nodes]
    BY <1>13
  <2> QED BY <2>1
<1>15. \A i \in 1 .. n : /\ c[i].kind = "node" /\ c[i].id = next + i /\ c[i].parent = (IF i = 1 THEN b ELSE next + (i - 1))
                         /\ c[i].holds = store.nodes[P[t + i]].holds
  BY <1>13, <1>14
<1>16. Chained(c, n, -to)
  <2>1. \A i \in 1 .. n : i # 1 => i - 1 \in 1 .. n
    OBVIOUS
  <2>2. \A i, j \in 1 .. n : next + i = next + j => i = j
    BY <1>1
  <2> QED BY <1>8, <1>15, <2>1, <2>2 DEF Chained
<1>17. PICK tip : tip = Tip(to, c, n)
  OBVIOUS
<1>18. FoldMove(P, t) = Mark("head", tip)
  <2>1. CASE n = 0
    <3>1. t = Len(P)
      BY <1>6, <1>5, <2>1
    <3>2. LastClone(P, t) = -to
      BY <1>5, <3>1 DEF LastClone
    <3> QED BY <1>17, <2>1, <3>2 DEF FoldMove, Tip
  <2>2. CASE n # 0
    <3>1. t # Len(P) /\ n \in 1 .. n
      BY <1>3, <1>4, <1>5, <2>2
    <3>2. LastClone(P, t) = next + n
      BY <1>4, <3>1 DEF LastClone
    <3>3. tip = next + n
      BY <1>15, <1>17, <2>2, <3>1 DEF Tip
    <3> QED BY <3>2, <3>3 DEF FoldMove
  <2> QED BY <2>1, <2>2
<1>19. PICK move : move = Mark("head", tip)
  OBVIOUS
<1>31. /\ made[1].line = fold /\ Entering(made[1]) = {fold}
       /\ \A i \in 1 .. n : made[i + 1].line = c[i] /\ Entering(made[i + 1]) = {c[i]}
       /\ made[n + 2].line = move /\ Entering(made[n + 2]) = {move}
  <2>1. \A l, x : Item(l, <<l>>, x).line = l /\ Entering(Item(l, <<l>>, x)) = {l}
    <3> TAKE l, x
    <3>1. Item(l, <<l>>, x).line = l /\ Item(l, <<l>>, x).mem = <<l>>
      BY DEF Item
    <3>2. DOMAIN <<l>> = {1} /\ <<l>>[1] = l
      OBVIOUS
    <3> QED BY <3>1, <3>2 DEF Entering
  <2>2. made[1] = Item(fold, <<fold>>, store.cursor)
    BY <1>2, <1>11 DEF Compacts
  <2>3. \A i \in 1 .. n : made[i + 1] = Item(c[i], <<c[i]>>, store.cursor)
    BY <1>2, <1>4, <1>14 DEF Compacts
  <2>4. made[n + 2] = Item(move, <<move>>, cur)
    BY <1>2, <1>4, <1>18, <1>19 DEF Compacts
  <2>5. made[1].line = fold /\ Entering(made[1]) = {fold}
    BY <2>1, <2>2
  <2>6. ASSUME NEW i \in 1 .. n
        PROVE  made[i + 1].line = c[i] /\ Entering(made[i + 1]) = {c[i]}
    <3>1. PICK l, it : l = c[i] /\ it = made[i + 1] /\ it = Item(l, <<l>>, store.cursor)
      BY <2>3
    <3> QED BY <2>1, <3>1
  <2>7. made[n + 2].line = move /\ Entering(made[n + 2]) = {move}
    BY <2>1, <2>4
  <2> QED BY <2>5, <2>6, <2>7
<1>32. \A j \in DOMAIN made : j = 1 \/ j = n + 2 \/ \E i \in 1 .. n : j = i + 1
  <2> TAKE j \in DOMAIN made
  <2>1. j \in 1 .. n + 2
    BY <1>5
  <2>2. j # 1 /\ j # n + 2 => j - 1 \in 1 .. n /\ j = (j - 1) + 1
    BY <2>1
  <2> QED BY <2>2
<1>33. made \in Seq(Items) /\ Len(made) = n + 2
  <2>1. made \in Seq(Items)
    BY <1>1, CompactIsTyped
  <2> QED BY <1>5, <2>1
<1>34. \A i \in 1 .. n : c[i].id \in Coming /\ c[i].id > 0
  BY <1>7, <1>15
<1>35. FoldsTo(made, to, summary, P, t, fold, c, n)
  BY <1>5, <1>6, <1>8, <1>9, <1>12, <1>15, <1>16, <1>17, <1>19, <1>31, <1>32, <1>33, <1>34 DEF FoldsTo
<1> QED BY <1>35

(* Behind place t of the path to the head each node is a message, has one  *)
(* line among L, and has its source at the place before.                   *)
Tails(P, t, n, L) ==
    /\ P[t + n] = store.head
    /\ \A i \in 1 .. n : /\ P[t + i] > 0 /\ P[t + i] \in DOMAIN store.nodes /\ store.nodes[P[t + i]].id = P[t + i]
                         /\ store.nodes[P[t + i]] \in Stored
                         /\ \A l \in L : l.id = P[t + i] => l = store.nodes[P[t + i]]
    /\ \A G : \A i \in 0 .. n : Shut(G, L) /\ P[t] \in G => Shut(G \cup {P[t + k] : k \in 1 .. i}, L)

(* The end of the path stands so among the lines that are said.            *)
LEMMA TailStands ==
    ASSUME TypeInv, CursorInv, NEW P, P = activePathIDs(store.nodes, store.head),
           NEW n \in Nat, NEW t \in 1 .. Len(P), Len(P) = t + n, NEW L \in SUBSET Declaring(Said)
    PROVE  Tails(P, t, n, L)
<1>1. store \in Stores /\ LinesOf(store) \subseteq Said /\ Keyed(store.nodes) /\ store.nodes \in NodeMaps /\ Ident \subseteq Int
  BY Identifiers DEF TypeInv, MemoryTyped, CursorInv, Books, Said, Stores
<1>2. \A i \in 1 .. Len(P) : P[i] \in DOMAIN store.nodes /\ P[i] \in Ident /\ store.nodes[P[i]] \in Nodes
  <2>1. DOMAIN store.nodes \subseteq Ident /\ store.nodes \in [DOMAIN store.nodes -> Nodes]
    BY <1>1, NodeMap
  <2> QED BY <1>1, <2>1, ViewShows
<1>3. Climb(store.nodes, store.head, P) /\ t \in Nat /\ Len(P) \in Nat /\ P # <<>>
  <2>1. Climb(store.nodes, store.head, P)
    BY <1>1, PathClimbs
  <2>2. P \in Seq(DOMAIN store.nodes)
    BY <2>1 DEF Climb
  <2> QED BY <2>1, <2>2
<1>4. P[t + n] = store.head
  BY <1>3 DEF Climb
<1>5. PICK rank, F : Sound(rank, F, Said, Coming, fed)
  BY DEF CursorInv, TreeInv
<1>6. Ranked(rank) /\ Rooted(rank, store.nodes)
  <2>1. PICK given : given = fed
    OBVIOUS
  <2>2. Sound(rank, F, Said, Coming, given)
    BY <1>5, <2>1
  <2> QED BY <1>1, <2>2, PartIsRooted
<1>7. \A i \in 2 .. Len(P) : P[i] > 0 /\ P[i - 1] = store.nodes[P[i]].parent
  BY <1>1, <1>6, PathIsLinked
<1>8. Declaring(LinesOf(store)) = {store.nodes[i] : i \in DOMAIN store.nodes}
  BY <1>1, StoreLines
<1>9. ASSUME NEW i \in 1 .. n
      PROVE  /\ P[t + i] > 0 /\ P[t + i] \in DOMAIN store.nodes /\ store.nodes[P[t + i]].id = P[t + i]
             /\ store.nodes[P[t + i]] \in Stored
             /\ \A l \in L : l.id = P[t + i] => l = store.nodes[P[t + i]]
             /\ store.nodes[P[t + i]].parent = P[t + (i - 1)]
  <2>1. t + i \in 2 .. Len(P) /\ t + i \in 1 .. Len(P) /\ t + (i - 1) = (t + i) - 1
    BY <1>3
  <2>2. P[t + i] > 0 /\ P[t + (i - 1)] = store.nodes[P[t + i]].parent
    BY <1>7, <2>1
  <2>3. P[t + i] \in DOMAIN store.nodes /\ store.nodes[P[t + i]].id = P[t + i]
    BY <1>1, <1>2, <2>1 DEF Keyed
  <2>4. store.nodes[P[t + i]] \in Stored /\ store.nodes[P[t + i]] \in Declaring(Said)
    BY <1>1, <1>8, <2>3 DEF Stored, Declaring
  <2>5. Alone(L, store.nodes[P[t + i]])
    BY <2>4, SaidFits
  <2>6. ~(P[t + i] < 0)
    <3>1. P[t + i] \in Int
      BY <1>1, <1>2, <2>1
    <3> QED BY <2>2, <3>1
  <2> QED BY <2>2, <2>3, <2>4, <2>5, <2>6 DEF Alone
<1>10. ASSUME NEW G, NEW i \in 0 .. n, Shut(G, L), P[t] \in G
       PROVE  Shut(G \cup {P[t + k] : k \in 1 .. i}, L)
  <2> SUFFICES ASSUME NEW l \in L, NEW k \in 1 .. i, l.id = P[t + k]
               PROVE  Source(l) \in G \cup {P[t + q] : q \in 1 .. i}
    BY <1>10 DEF Shut
  <2>1. k \in 1 .. n
    OBVIOUS
  <2>2. l.parent = P[t + (k - 1)] /\ l.id > 0 /\ l.id \in Int
    <3>1. l = store.nodes[P[t + k]] /\ l.id > 0 /\ l.parent = P[t + (k - 1)]
      BY <1>9, <2>1
    <3>2. l.id \in Int
      <4>1. l \in Nodes
        BY SaidFits
      <4> QED BY <1>1, <4>1 DEF Nodes
    <3> QED BY <3>1, <3>2
  <2>3. Source(l) = P[t + (k - 1)]
    BY <2>2 DEF Source
  <2>4. CASE k = 1
    <3>1. t + (k - 1) = t
      BY <1>3, <2>4
    <3> QED BY <1>10, <2>3, <3>1
  <2>5. CASE k # 1
    <3>1. k - 1 \in 1 .. i
      BY <2>5
    <3> QED BY <2>3, <3>1
  <2> QED BY <2>4, <2>5
<1>11. \A G : \A i \in 0 .. n : Shut(G, L) /\ P[t] \in G => Shut(G \cup {P[t + k] : k \in 1 .. i}, L)
  BY <1>10
<1> QED BY <1>4, <1>9, <1>11 DEF Tails

(* The head does not stand under a fold of what is on its path.            *)
LEMMA PathIsAbove ==
    ASSUME TypeInv, CursorInv, NEW P, P = activePathIDs(store.nodes, store.head),
           NEW n \in Nat, NEW t \in 1 .. Len(P), Len(P) = t + n, P[t] > 0, NEW L \in SUBSET Declaring(Said)
    PROVE  ~Under(L, store.head, -P[t])
<1>1. PICK to : to = P[t]
  OBVIOUS
<1>2. store.nodes \in NodeMaps /\ Ident \subseteq Int
  BY Identifiers DEF TypeInv, MemoryTyped, Stores
<1>3. to \in Ident /\ to \in 1 .. MaxNodes /\ -to \in Ident
  <2>1. DOMAIN store.nodes \subseteq Ident
    BY <1>2, NodeMap
  <2>2. to \in Ident
    BY <1>1, <1>2, <2>1, ViewShows
  <2> QED BY <1>1, <2>2, Identifiers DEF Ident
<1>4. PICK rank : Ranked(rank) /\ \A l \in Declaring(Said) : Linked(rank, l)
  BY SaidFits
<1>5. rank \in [Ident -> Int] /\ \A q \in 1 .. MaxNodes : rank[q] < rank[-q]
  BY <1>4 DEF Ranked
<1>6. PICK H : H = {x \in Ident : rank[x] <= rank[to]}
  OBVIOUS
<1>7. Shut(H, L)
  <2> SUFFICES ASSUME NEW l \in L, l.id \in H PROVE Source(l) \in H
    BY DEF Shut
  <2>1. l \in Nodes /\ Linked(rank, l)
    BY <1>4, SaidFits
  <2>2. l.id \in Int /\ l.id \in Ident /\ l.parent \in Ident
    BY <1>2, <2>1 DEF Nodes
  <2>3. CASE l.id < 0
    <3>1. -l.id \in 1 .. MaxNodes /\ -(-l.id) = l.id /\ -l.id \in Ident
      BY <2>2, <2>3, Identifiers DEF Ident
    <3>2. PICK q \in 1 .. MaxNodes : q = -l.id /\ -q = l.id /\ q \in Ident
      BY <3>1
    <3>3. rank[q] < rank[l.id]
      BY <1>5, <3>2
    <3>4. rank[q] \in Int /\ rank[l.id] \in Int /\ rank[to] \in Int /\ rank[l.id] <= rank[to]
      BY <1>3, <1>5, <1>6, <2>2, <3>2
    <3>5. rank[q] <= rank[to]
      BY <3>3, <3>4
    <3> QED BY <1>6, <2>3, <3>2, <3>5 DEF Source
  <2>4. CASE ~(l.id < 0)
    <3>1. l.id > 0
      BY <2>1, <2>2, <2>4 DEF Linked
    <3>2. rank[l.parent] < rank[l.id]
      BY <2>1, <3>1 DEF Linked
    <3>3. rank[l.parent] \in Int /\ rank[l.id] \in Int /\ rank[to] \in Int /\ rank[l.id] <= rank[to]
      BY <1>3, <1>5, <1>6, <2>2
    <3>4. rank[l.parent] <= rank[to]
      BY <3>2, <3>3
    <3> QED BY <1>6, <2>2, <2>4, <3>4 DEF Source
  <2> QED BY <2>3, <2>4
<1>8. to \in H
  <2>1. rank[to] \in Int
    BY <1>3, <1>5
  <2> QED BY <1>3, <1>6, <2>1
<1>9. PICK G : G = H \cup {P[t + k] : k \in 1 .. n}
  OBVIOUS
<1>10. /\ P[t + n] = store.head /\ \A i \in 1 .. n : P[t + i] > 0 /\ P[t + i] \in DOMAIN store.nodes
       /\ Shut(G, L)
  <2>1. n \in 0 .. n
    OBVIOUS
  <2>2. Tails(P, t, n, L)
    BY TailStands
  <2>3. \A i \in 0 .. n : Shut(H, L) /\ P[t] \in H => Shut(H \cup {P[t + q] : q \in 1 .. i}, L)
    BY <2>2 DEF Tails
  <2>4. Shut(G, L)
    BY <1>1, <1>7, <1>8, <1>9, <2>1, <2>3
  <2> QED BY <2>2, <2>4 DEF Tails
<1>11. store.head \in G
  <2>1. CASE n = 0
    <3>1. t + n = t
      BY <2>1
    <3> QED BY <1>1, <1>8, <1>9, <1>10, <3>1
  <2>2. CASE n # 0
    <3>1. n \in 1 .. n
      BY <2>2
    <3> QED BY <1>9, <1>10, <3>1
  <2> QED BY <2>1, <2>2
<1>12. -to \notin G
  <2>1. -to \notin H
    <3>1. rank[to] < rank[-to] /\ rank[to] \in Int /\ rank[-to] \in Int
      BY <1>3, <1>5
    <3>2. ~(rank[-to] <= rank[to])
      BY <3>1
    <3> QED BY <1>6, <3>2
  <2>2. \A k \in 1 .. n : P[t + k] # -to
    <3>1. ~(-to > 0)
      BY <1>1, <1>2, <1>3
    <3> QED BY <1>10, <3>1
  <2> QED BY <1>9, <2>1, <2>2
<1>13. G \in SUBSET Ident
  <2>1. DOMAIN store.nodes \subseteq Ident
    BY <1>2, NodeMap
  <2> QED BY <1>6, <1>9, <1>10, <2>1
<1> QED BY <1>1, <1>10, <1>11, <1>12, <1>13 DEF Under

(* The file once a fold and i of the clones on it have been written. *)
Folded(fold, c, i) == Later(Filed, {fold}) \cup {c[k] : k \in 1 .. i}

(* That is what the appends of Compact leave in the file.                  *)
LEMMA AfterFold ==
    ASSUME TypeInv, CursorInv, NEW items, NEW to, NEW summary, NEW P, NEW t, NEW fold, NEW c, NEW n,
           FoldsTo(items, to, summary, P, t, fold, c, n),
           NEW i \in 0 .. n, NEW j \in Nat, j = i + 1 \/ (i = n /\ j = n + 2)
    PROVE  After(file, items, j) = Folded(fold, c, i)
<1>1. /\ n \in Nat /\ DOMAIN items = 1 .. n + 2 /\ i \in Nat /\ i <= n /\ fold.kind = "node"
      /\ items[1].line = fold /\ items[n + 2].line = Mark("head", Tip(to, c, n))
      /\ \A q \in 1 .. n : items[q + 1].line = c[q] /\ c[q].kind = "node" /\ c[q].id \in Coming
      /\ \A q \in DOMAIN items : q = 1 \/ q = n + 2 \/ \E k \in 1 .. n : q = k + 1
  BY DEF FoldsTo
<1>2. PICK D : D = {c[k] : k \in 1 .. i}
  OBVIOUS
<1>3. ASSUME NEW k \in 1 .. j, items[k].line.kind = "node" PROVE items[k].line = fold \/ items[k].line \in D
  <2>1. k \in 1 .. n + 2 /\ k \in DOMAIN items
    BY <1>1
  <2>2. k # n + 2
    <3>1. Mark("head", Tip(to, c, n)).kind = "head"
      BY DEF Mark
    <3>2. items[n + 2].line.kind = "head"
      BY <1>1, <3>1
    <3> QED BY <1>3, <3>2
  <2>3. CASE k = 1
    BY <1>1, <2>3
  <2>4. CASE \E q \in 1 .. n : k = q + 1
    <3>1. PICK q \in 1 .. n : k = q + 1
      BY <2>4
    <3>2. q \in 1 .. i
      BY <1>1, <3>1
    <3> QED BY <1>1, <1>2, <3>1, <3>2
  <2> QED BY <1>1, <2>1, <2>2, <2>3, <2>4
<1>4. \E k \in 1 .. j : items[k].line = fold
  <2>1. 1 \in 1 .. j
    BY <1>1
  <2> QED BY <1>1, <2>1
<1>5. ASSUME NEW q \in 1 .. i PROVE \E k \in 1 .. j : items[k].line = c[q] /\ c[q].kind = "node"
  <2>1. q \in 1 .. n /\ q + 1 \in 1 .. j
    BY <1>1
  <2> QED BY <1>1, <2>1
<1>6. Due(items, j) = {fold} \cup D
  <2>1. \A l \in {fold} \cup D : l \in Due(items, j)
    <3>1. fold \in Due(items, j)
      BY <1>1, <1>4 DEF Due, Declaring
    <3>2. \A q \in 1 .. i : c[q] \in Due(items, j)
      BY <1>5 DEF Due, Declaring
    <3> QED BY <1>2, <3>1, <3>2
  <2>2. \A l \in Due(items, j) : l \in {fold} \cup D
    BY <1>3 DEF Due, Declaring
  <2> QED BY <2>1, <2>2
<1>7. \A o \in Filed, l \in D : o.id # l.id
  <2> SUFFICES ASSUME NEW o \in Filed, NEW q \in 1 .. i, o.id = c[q].id PROVE FALSE
    BY <1>2
  <2>1. q \in 1 .. n
    BY <1>1
  <2>2. c[q].id \notin Declared(Said)
    BY <1>1, <2>1, ComingIsNew
  <2>3. o.id \in Declared(Said)
    BY DEF Filed, Declared, Declaring, Said
  <2> QED BY <2>2, <2>3
<1>8. \A l \in D : l.kind = "node"
  <2> SUFFICES ASSUME NEW q \in 1 .. i PROVE c[q].kind = "node"
    BY <1>2
  <2>1. q \in 1 .. n
    BY <1>1
  <2> QED BY <1>1, <2>1
<1>9. Declared({fold} \cup D) = {fold.id} \cup {l.id : l \in D} /\ Declared({fold}) = {fold.id}
  BY <1>1, <1>8 DEF Declared, Declaring
<1>10. After(file, items, j) = Later(Filed, {fold} \cup D)
  BY <1>6 DEF After, Filed
<1>11. Later(Filed, {fold} \cup D) = Later(Filed, {fold}) \cup D
  <2>1. \A o \in Filed : o.id \in Declared({fold} \cup D) <=> o.id \in Declared({fold})
    BY <1>7, <1>9
  <2> QED BY <2>1 DEF Later
<1> QED BY <1>2, <1>10, <1>11 DEF Folded

(* A fold of a part of the path that is still carried fits the file.       *)
LEMMA FoldFits ==
    ASSUME TypeInv, CursorInv, DiskKept, stage # "down", NEW to \in Ident, to > 0, NEW P, P = activePathIDs(store.nodes, store.head),
           NEW n \in Nat, NEW t \in 1 .. Len(P), Len(P) = t + n, P[t] = to,
           NEW fold \in Nodes, fold.id = -to, fold.id < 0, NEW m \in Live,
           m \in told \/ Clear(Filed, m),
           m \in fold.holds => Carries(Filed, m, to) \/ Clear(Filed, m)
    PROVE  Fits(Filed, fold, m)
<1>1. to \in Int /\ -fold.id = to
  <2>1. to \in Int
    BY Identifiers
  <2> QED BY <2>1
<1>2. ASSUME NEW o \in Filed, o.id = -to, m \in o.holds PROVE Carries(Filed, m, to)
  <2>1. m \in told /\ Carries(Filed, m, store.head) /\ Sorted(Filed, m)
    BY <1>2 DEF Clear, DiskKept
  <2>2. o.id < 0 /\ -o.id = to
    BY <1>1, <1>2
  <2>3. ~Under(Filed, store.head, -to)
    <3>1. Filed \in SUBSET Declaring(Said)
      BY DEF Filed, Declaring, Said
    <3> QED BY <3>1, PathIsAbove
  <2>4. CASE \A l \in Filed : m \in l.holds => Under(Filed, l.id, o.id)
    <3>1. Under(Filed, store.head, o.id)
      BY <2>1, <2>4, UnderCarries
    <3> QED BY <1>2, <2>3, <3>1
  <2> QED BY <1>2, <2>1, <2>2, <2>4 DEF Sorted
<1> QED BY <1>1, <1>2 DEF Fits

(* The fold leaves the path behind it as it is.                            *)
LEMMA TailFolds ==
    ASSUME TypeInv, CursorInv, NEW P, P = activePathIDs(store.nodes, store.head),
           NEW n \in Nat, NEW t \in 1 .. Len(P), Len(P) = t + n,
           NEW fold \in Nodes, fold.id = -P[t], fold.id < 0, NEW K, K = Later(Filed, {fold})
    PROVE  Tails(P, t, n, K)
<1>1. PICK L : L = {l \in Filed : l.id # fold.id}
  OBVIOUS
<1>2. L \in SUBSET Declaring(Said) /\ Ident \subseteq Int
  BY <1>1, Identifiers DEF Filed, Declaring, Said
<1>3. K = L \cup {fold}
  <2>1. Declared({fold}) = {fold.id}
    BY DEF Declared, Declaring, Nodes
  <2> QED BY <1>1, <2>1 DEF Later
<1>4. Tails(P, t, n, L)
  BY <1>2, TailStands
<1>5. fold.id \in Int /\ -fold.id = P[t]
  <2>1. fold.id \in Int
    BY <1>2 DEF Nodes
  <2>2. P[t] \in Int
    <3>1. store.nodes \in NodeMaps
      BY DEF TypeInv, MemoryTyped, Stores
    <3>2. DOMAIN store.nodes \subseteq Ident
      BY <3>1, NodeMap
    <3> QED BY <1>2, <3>1, <3>2, ViewShows
  <2> QED BY <2>1, <2>2
<1>6. \A i \in 1 .. n : P[t + i] # fold.id
  <2> TAKE i \in 1 .. n
  <2>1. P[t + i] > 0 /\ ~(fold.id > 0)
    BY <1>4, <1>5 DEF Tails
  <2> QED BY <2>1
<1>7. ASSUME NEW G, NEW i \in 0 .. n, Shut(G, K), P[t] \in G
      PROVE  Shut(G \cup {P[t + k] : k \in 1 .. i}, K)
  <2>1. Shut(G, L)
    BY <1>3, <1>7 DEF Shut
  <2>2. Shut(G \cup {P[t + k] : k \in 1 .. i}, L)
    BY <1>4, <1>7, <2>1 DEF Tails
  <2>3. Source(fold) = P[t]
    BY <1>5 DEF Source
  <2> QED BY <1>3, <1>7, <2>2, <2>3 DEF Shut
<1>8. \A G : \A i \in 0 .. n : Shut(G, K) /\ P[t] \in G => Shut(G \cup {P[t + k] : k \in 1 .. i}, K)
  BY <1>7
<1>9. \A i \in 1 .. n : \A l \in K : l.id = P[t + i] => l = store.nodes[P[t + i]]
  BY <1>3, <1>4, <1>6 DEF Tails
<1> QED BY <1>4, <1>8, <1>9 DEF Tails

(* What a fold that fits leaves carried and sorted.                        *)
LEMMA FoldLeaves ==
    ASSUME TypeInv, CursorInv, NEW fold \in Nodes, fold.id < 0, NEW m, Fits(Filed, fold, m),
           NEW K, K = Later(Filed, {fold})
    PROVE  /\ \A h : Carries(Filed, m, h) => Carries(K, m, h)
           /\ Sorted(Filed, m) => Sorted(K, m)
<1>1. PICK rank : Ranked(rank) /\ \A l \in Declaring(Said) : Linked(rank, l)
  BY SaidFits
<1>2. Filed \in SUBSET Nodes /\ \A o \in Filed : Linked(rank, o)
  <2>1. Filed \subseteq Declaring(Said)
    BY DEF Filed, Declaring, Said
  <2> QED BY <1>1, <2>1, SaidFits
<1>3. Alone(Filed, fold)
  BY DEF Alone
<1>4. \A h : Carries(Filed, m, h) => Carries(K, m, h)
  BY <1>1, <1>2, <1>3, FitKeeps
<1>5. Sorted(Filed, m) => Sorted(K, m)
  BY <1>1, <1>2, <1>3, FitSorts
<1> QED BY <1>4, <1>5

(* A clone fits behind the fold and the clones before it.                  *)
LEMMA CloneFits ==
    ASSUME TypeInv, CursorInv, DiskKept, NEW items, NEW to, NEW summary, NEW P, NEW t, NEW fold, NEW c, NEW n,
           FoldsTo(items, to, summary, P, t, fold, c, n), P = activePathIDs(store.nodes, store.head),
           NEW m \in Live, m \in told \/ Clear(Filed, m), Fits(Filed, fold, m),
           NEW i \in 1 .. n, NEW K, K = Later(Filed, {fold})
    PROVE  Fits(K \cup {c[k] : k \in 1 .. i - 1}, c[i], m)
<1>1. /\ n \in Nat /\ t \in 1 .. Len(P) /\ Len(P) = t + n /\ P[t] = to /\ fold \in Nodes /\ fold.id = -P[t] /\ fold.id < 0
      /\ c \in [1 .. n -> Nodes] /\ Chained(c, n, -to) /\ \A k \in 1 .. n : c[k].id > 0 /\ c[k].holds = store.nodes[P[t + k]].holds
  BY DEF FoldsTo
<1>2. Tails(P, t, n, K) /\ fold.kind = "node"
  BY <1>1, TailFolds DEF Nodes
<1>3. \A k \in 1 .. n : c[k] \in Nodes /\ c[k].id \in Int /\ ~(c[k].id < 0)
  <2> TAKE k \in 1 .. n
  <2>1. c[k] \in Nodes /\ c[k].id > 0
    BY <1>1
  <2>2. c[k].id \in Int
    BY <2>1, Identifiers DEF Nodes
  <2> QED BY <2>1, <2>2
<1>4. PICK L : L = K \cup {c[k] : k \in 1 .. i - 1}
  OBVIOUS
<1>5. PICK M : M = L \cup {c[i]}
  OBVIOUS
<1>6. \A k \in 1 .. i : c[k] \in M
  <2> TAKE k \in 1 .. i
  <2>1. k \in 1 .. i - 1 \/ k = i
    OBVIOUS
  <2> QED BY <1>4, <1>5, <2>1
<1>7. Under(M, c[i].id, -to)
  BY <1>1, <1>6, ChainUnder
<1>8. K \subseteq L /\ K \subseteq M /\ fold \in K
  BY <1>2, <1>4, <1>5 DEF Later
<1>9. ASSUME NEW f \in L, f.id < 0, m \in f.holds, m \in c[i].holds
      PROVE  Carries(L, m, -f.id) \/ Under(M, c[i].id, f.id)
  <2>1. f \in K
    <3> SUFFICES ASSUME NEW k \in 1 .. i - 1, f = c[k] PROVE FALSE
      BY <1>4, <1>9
    <3>1. k \in 1 .. n
      BY <1>1
    <3> QED BY <1>3, <1>9, <3>1
  <2>2. PICK o : o = store.nodes[P[t + i]] /\ o \in Stored /\ o.id = P[t + i] /\ o.id > 0 /\ m \in o.holds
    BY <1>1, <1>2, <1>9 DEF Tails
  <2>3. o \in Filed
    BY <2>2 DEF DiskKept, Backed
  <2>4. o \in K
    <3>1. o.id \in Int
      <4>1. Filed \in SUBSET Nodes
        BY SaidFits DEF Filed, Declaring, Said
      <4> QED BY <2>3, <4>1, Identifiers DEF Nodes
    <3>2. o.id # fold.id
      <4>1. ~(o.id < 0)
        BY <2>2, <3>1
      <4> QED BY <1>1, <4>1
    <3>3. Declared({fold}) = {fold.id}
      BY <1>2 DEF Declared, Declaring
    <3> QED BY <2>3, <3>2, <3>3 DEF Later
  <2>5. Sorted(Filed, m) /\ Sorted(K, m)
    <3>1. Sorted(Filed, m)
      BY DEF DiskKept
    <3> QED BY <1>1, <3>1, FoldLeaves
  <2>6. CASE Carries(K, m, -f.id)
    BY <1>8, <2>6, MoreCarries
  <2>7. CASE \A l \in K : m \in l.holds => Under(K, l.id, f.id)
    <3>1. Under(K, P[t + i], f.id)
      BY <2>2, <2>4, <2>7
    <3>2. Under(K, to, f.id)
      <4> SUFFICES ASSUME NEW G \in SUBSET Ident, Shut(G, K), to \in G PROVE f.id \in G
        BY DEF Under
      <4>1. PICK H : H = G \cup {P[t + k] : k \in 1 .. i}
        OBVIOUS
      <4>2. Shut(H, K)
        <5>1. i \in 0 .. n
          OBVIOUS
        <5> QED BY <1>1, <1>2, <4>1, <5>1 DEF Tails
      <4>3. \A k \in 1 .. i : P[t + k] > 0 /\ P[t + k] \in Ident
        <5> TAKE k \in 1 .. i
        <5>1. k \in 1 .. n
          BY <1>1
        <5>2. store.nodes \in NodeMaps
          BY DEF TypeInv, MemoryTyped, Stores
        <5>3. DOMAIN store.nodes \subseteq Ident
          BY <5>2, NodeMap
        <5> QED BY <1>2, <5>1, <5>3 DEF Tails
      <4>4. H \in SUBSET Ident /\ P[t + i] \in H
        <5>1. i \in 1 .. i
          OBVIOUS
        <5> QED BY <4>1, <4>3, <5>1
      <4>5. f.id \in H
        BY <3>1, <4>2, <4>4 DEF Under
      <4>6. f.id \in Int /\ \A k \in 1 .. i : P[t + k] # f.id
        <5>1. f.id \in Int
          BY <4>4, <4>5, Identifiers
        <5>2. ~(f.id > 0)
          BY <1>9, <5>1
        <5> QED BY <4>3, <5>1, <5>2
      <4> QED BY <4>1, <4>5, <4>6
    <3>3. Under(M, -to, to)
      <4>1. -(-to) = to /\ Source(fold) = to
        <5>1. fold.id \in Int
          BY <1>1, Identifiers DEF Nodes
        <5>2. to \in Int
          <6>1. store.nodes \in NodeMaps
            BY DEF TypeInv, MemoryTyped, Stores
          <6>2. DOMAIN store.nodes \subseteq Ident
            BY <6>1, NodeMap
          <6>3. P[t] \in DOMAIN store.nodes
            BY <1>1, <6>1, ViewShows
          <6> QED BY <1>1, <6>2, <6>3, Identifiers
        <5> QED BY <1>1, <5>1, <5>2 DEF Source
      <4>2. fold \in M
        BY <1>8
      <4>3. Under(M, fold.id, Source(fold))
        BY <4>2, LineCarries
      <4> QED BY <1>1, <4>1, <4>3
    <3>4. Under(M, to, f.id)
      BY <1>8, <3>2, MoreCarries
    <3> QED BY <1>7, <3>3, <3>4, UnderCarries
  <2> QED BY <1>9, <2>1, <2>5, <2>6, <2>7 DEF Sorted
<1>10. Fits(L, c[i], m)
  <2>1. M = L \cup {c[i]} /\ ~(c[i].id < 0)
    BY <1>3, <1>5
  <2> QED BY <1>9, <2>1 DEF Fits
<1> QED BY <1>4, <1>10

(* What is carried at the head before the fold is carried at the last of   *)
(* the clones.                                                             *)
LEMMA TipCarries ==
    ASSUME TypeInv, CursorInv, NEW items, NEW to, NEW summary, NEW P, NEW t, NEW fold, NEW c, NEW n,
           FoldsTo(items, to, summary, P, t, fold, c, n), P = activePathIDs(store.nodes, store.head),
           NEW m, Fits(Filed, fold, m), NEW K, K = Later(Filed, {fold}), NEW M, M = K \cup {c[k] : k \in 1 .. n}
    PROVE  /\ Under(M, Tip(to, c, n), -to)
           /\ Carries(Filed, m, store.head) => Carries(M, m, Tip(to, c, n))
<1>1. /\ n \in Nat /\ t \in 1 .. Len(P) /\ Len(P) = t + n /\ P[t] = to /\ fold \in Nodes /\ fold.id = -P[t] /\ fold.id < 0
      /\ c \in [1 .. n -> Nodes] /\ Chained(c, n, -to) /\ \A k \in 1 .. n : c[k].id > 0 /\ c[k].holds = store.nodes[P[t + k]].holds
  BY DEF FoldsTo
<1>2. Tails(P, t, n, K) /\ fold.kind = "node"
  BY <1>1, TailFolds DEF Nodes
<1>3. PICK tip : tip = Tip(to, c, n)
  OBVIOUS
<1>4. fold \in M /\ K \subseteq M /\ \A k \in 1 .. n : c[k] \in M
  BY <1>2 DEF Later
<1>5. Under(M, tip, -to) /\ \A k \in 1 .. n : Under(M, tip, c[k].id)
  <2>1. CASE n = 0
    <3>1. tip = -to /\ tip = fold.id
      BY <1>1, <1>3, <2>1 DEF Tip
    <3>2. Under(M, fold.id, fold.id)
      BY <1>4, LineCarries
    <3> QED BY <2>1, <3>1, <3>2
  <2>2. CASE n # 0
    <3>1. n \in 1 .. n /\ tip = c[n].id
      BY <1>1, <1>3, <2>2 DEF Tip
    <3>2. Under(M, c[n].id, -to) /\ \A k \in 1 .. n : Under(M, c[n].id, c[k].id)
      BY <1>1, <1>4, <3>1, ChainUnder
    <3> QED BY <3>1, <3>2
  <2> QED BY <2>1, <2>2
<1>6. to \in Ident /\ -(-to) = to /\ Source(fold) = to
  <2>1. store.nodes \in NodeMaps
    BY DEF TypeInv, MemoryTyped, Stores
  <2>2. DOMAIN store.nodes \subseteq Ident
    BY <2>1, NodeMap
  <2>3. P[t] \in DOMAIN store.nodes
    BY <1>1, <2>1, ViewShows
  <2>4. to \in Int /\ fold.id \in Int
    BY <1>1, <2>2, <2>3, Identifiers DEF Nodes
  <2> QED BY <1>1, <2>2, <2>3, <2>4 DEF Source
<1>7. Under(M, tip, to)
  <2>1. Under(M, fold.id, Source(fold))
    BY <1>4, LineCarries
  <2>2. Under(M, -to, to)
    BY <1>1, <1>6, <2>1
  <2> QED BY <1>5, <2>2, UnderCarries
<1>8. ASSUME Carries(Filed, m, store.head) PROVE Carries(M, m, tip)
  <2> SUFFICES ASSUME NEW G \in SUBSET Ident, Shut(G, M), tip \in G PROVE \E l \in M : l.id \in G /\ m \in l.holds
    BY DEF Carries
  <2>1. PICK H : H = G \cup {P[t + k] : k \in 1 .. n}
    OBVIOUS
  <2>2. to \in G /\ \A k \in 1 .. n : c[k].id \in G
    BY <1>5, <1>7 DEF Under
  <2>3. Shut(G, K)
    BY <1>4 DEF Shut
  <2>4. Shut(H, K)
    <3>1. n \in 0 .. n
      BY <1>1
    <3> QED BY <1>1, <1>2, <2>1, <2>2, <2>3, <3>1 DEF Tails
  <2>5. H \in SUBSET Ident
    <3>1. store.nodes \in NodeMaps
      BY DEF TypeInv, MemoryTyped, Stores
    <3>2. DOMAIN store.nodes \subseteq Ident
      BY <3>1, NodeMap
    <3> QED BY <1>2, <2>1, <3>2 DEF Tails
  <2>6. store.head \in H
    <3>1. P[t + n] = store.head
      BY <1>2 DEF Tails
    <3>2. CASE n = 0
      <4>1. t + n = t
        BY <1>1, <3>2
      <4> QED BY <1>1, <2>1, <2>2, <3>1, <4>1
    <3>3. CASE n # 0
      <4>1. n \in 1 .. n
        BY <1>1, <3>3
      <4> QED BY <2>1, <3>1, <4>1
    <3> QED BY <3>2, <3>3
  <2>7. Carries(K, m, store.head)
    BY <1>1, <1>8, FoldLeaves
  <2>8. PICK l \in K : l.id \in H /\ m \in l.holds
    BY <2>4, <2>5, <2>6, <2>7 DEF Carries
  <2>9. CASE l.id \in G
    BY <1>4, <2>8, <2>9
  <2>10. CASE l.id \notin G
    <3>1. PICK k \in 1 .. n : l.id = P[t + k]
      BY <2>1, <2>8, <2>10
    <3>2. l = store.nodes[P[t + k]]
      BY <1>2, <3>1 DEF Tails
    <3>3. m \in c[k].holds
      BY <1>1, <2>8, <3>2
    <3> QED BY <1>4, <2>2, <3>3
  <2> QED BY <2>9, <2>10
<1> QED BY <1>3, <1>5, <1>8

(* A fold up to the message to forgets nothing, if what its summary holds  *)
(* is carried there, or is in no file yet.                                 *)
Foldable(to, summary) ==
    \A m \in Live : /\ m \in told \/ Clear(Filed \cup Stored, m)
                    /\ m \in summary => Carries(Filed, m, to) \/ Clear(Filed, m)

(* What planning the fold keeps.                                           *)
FoldKept(summary) ==
    /\ TodoKept'
    /\ \A m \in Live : m \in summary => Final(m)'
    /\ \A m : Clear(Filed \cup Stored, m) /\ m \notin summary => Clear(After(file, todo, Len(todo)), m)'
    /\ \A l \in Declaring(Asked(todo')) : l.holds \subseteq 1 .. next

(* Planning such a fold keeps what is not forgotten.                       *)
LEMMA FoldPlan ==
    ASSUME TypeInv, CursorInv, HoldInv, DiskKept, stage # "down",
           NEW from, NEW to \in Ident, to > 0, NEW summary \in Holdings, summary \subseteq 1 .. next,
           NEW P, P = activePathIDs(store.nodes, store.head), \A i \in 1 .. Len(P) : P[i] = from => i = 1,
           NEW made, made = CompactItems(from, to, summary), made # <<>>, next + Clones(made) <= MaxNodes,
           UNCHANGED <<file, store, told, fresh>>, todo' = made,
           Foldable(to, summary)
    PROVE  FoldKept(summary)
<1>1. PICK t, fold, c, n : FoldsTo(made, to, summary, P, t, fold, c, n)
  BY FoldLines
<1>2. /\ n \in Nat /\ t \in 1 .. Len(P) /\ Len(P) = t + n /\ P[t] = to
      /\ fold \in Nodes /\ fold.kind = "node" /\ fold.id = -to /\ fold.id < 0 /\ fold.holds = summary
      /\ c \in [1 .. n -> Nodes]
      /\ \A i \in 1 .. n : /\ c[i].id \in Coming /\ c[i].id > 0 /\ c[i].kind = "node"
                           /\ c[i].holds = store.nodes[P[t + i]].holds
      /\ made \in Seq(Items) /\ Len(made) = n + 2 /\ DOMAIN made = 1 .. n + 2
      /\ made[1].line = fold /\ Entering(made[1]) = {fold}
      /\ \A i \in 1 .. n : made[i + 1].line = c[i] /\ Entering(made[i + 1]) = {c[i]}
      /\ made[n + 2].line = Mark("head", Tip(to, c, n)) /\ Entering(made[n + 2]) = {Mark("head", Tip(to, c, n))}
      /\ \A j \in DOMAIN made : j = 1 \/ j = n + 2 \/ \E i \in 1 .. n : j = i + 1
  BY <1>1 DEF FoldsTo
<1>3. PICK K : K = Later(Filed, {fold})
  OBVIOUS
<1> DEFINE Grows(i) == K \cup {c[k] : k \in 1 .. i}
<1>4. PICK tip : tip = Tip(to, c, n)
  OBVIOUS
<1>5. Mark("head", tip).kind = "head" /\ Mark("head", tip).id = tip
  BY DEF Mark
<1>6. After(file, made, 0) = Filed /\ \A i \in 0 .. n : After(file, made, i + 1) = Grows(i)
  <2>1. After(file, made, 0) = Filed
    <3>1. PICK j : j = 0
      OBVIOUS
    <3>2. \A k \in 1 .. j : made[k].line.kind # "node"
      BY <3>1
    <3>3. After(file, made, j) = Filed
      BY <3>2, MarksAdd DEF Filed
    <3> QED BY <3>1, <3>3
  <2>2. ASSUME NEW i \in 0 .. n PROVE After(file, made, i + 1) = Grows(i)
    <3>1. PICK j \in Nat : j = i + 1
      BY <1>2
    <3>2. After(file, made, j) = Folded(fold, c, i)
      <4>1. j = i + 1 \/ (i = n /\ j = n + 2)
        BY <3>1
      <4> HIDE DEF Grows
      <4> QED BY <1>1, <4>1, AfterFold
    <3> QED BY <1>3, <3>1, <3>2 DEF Folded
  <2> QED BY <2>1, <2>2
<1>7. After(file, made, n + 2) = Grows(n)
  <2>1. PICK j \in Nat, i \in 0 .. n : j = n + 2 /\ i = n
    BY <1>2
  <2>2. After(file, made, j) = Folded(fold, c, i)
    <3>1. j = i + 1 \/ (i = n /\ j = n + 2)
      BY <2>1
    <3> HIDE DEF Grows
    <3> QED BY <1>1, <3>1, AfterFold
  <2> QED BY <1>3, <2>1, <2>2 DEF Folded
<1>8. \A m \in Live : Fits(Filed, fold, m)
  <2> TAKE m \in Live
  <2>1. m \in told \/ Clear(Filed, m)
    BY DEF Clear, Foldable
  <2>2. m \in fold.holds => Carries(Filed, m, to) \/ Clear(Filed, m)
    BY <1>2 DEF Foldable
  <2> QED BY <1>2, <2>1, <2>2, FoldFits
<1>9. ASSUME NEW i \in 1 .. n, NEW m \in Live PROVE Fits(Grows(i - 1), c[i], m)
  <2>1. m \in told \/ Clear(Filed, m)
    BY DEF Clear, Foldable
  <2> QED BY <1>1, <1>3, <1>8, <2>1, CloneFits
<1>10. fold \in K /\ \A i \in 0 .. n : fold \in Grows(i)
  BY <1>2, <1>3 DEF Later
<1>11. \A i \in 1 .. n : c[i] \in Grows(i)
  OBVIOUS
<1>12. \A m \in Live : /\ Under(Grows(n), tip, -to)
                       /\ Carries(Filed, m, store.head) => Carries(Grows(n), m, tip)
  <2> TAKE m \in Live
  <2>1. PICK M : M = Grows(n)
    OBVIOUS
  <2>2. Fits(Filed, fold, m)
    BY <1>8
  <2>3. Under(M, tip, -to) /\ (Carries(Filed, m, store.head) => Carries(M, m, tip))
    BY <1>1, <1>3, <1>4, <2>1, <2>2, TipCarries
  <2> QED BY <2>1, <2>3
<1> HIDE DEF Grows
<1>13. Live' = Live /\ file' = file /\ told' = told /\ store' = store /\ \A L, M : \A l \in L : l \in M => Backed(l, M, Live)
  <2>1. \A L, M : \A l \in L : l \in M => Backed(l, M, Live)
    BY LineCarries DEF Backed
  <2> QED BY <2>1 DEF Live
<1>14. ASSUME NEW j \in DOMAIN made
       PROVE  /\ j > 1 /\ made[j].line.kind = "node" => made[j].line.id > 0
              /\ made[j].line.kind = "node" => \A m \in Live : Fits(After(file, made, j - 1), made[j].line, m)
              /\ \A l \in Declaring(Entering(made[j])) : Backed(l, After(file, made, j), Live)
              /\ \A l \in {made[j].line} \cup Entering(made[j]) :
                   l.kind = "head" => \A m \in told : Carries(After(file, made, j - 1), m, l.id)
  <2>1. CASE j = 1
    <3>1. made[j].line = fold /\ Entering(made[j]) = {fold} /\ j - 1 = 0 /\ ~(j > 1) /\ j = 0 + 1
      BY <1>2, <2>1
    <3>2. After(file, made, j - 1) = Filed /\ fold \in After(file, made, j) /\ fold.kind = "node"
      <4>1. 0 \in 0 .. n
        BY <1>2
      <4> QED BY <1>2, <1>6, <1>10, <3>1, <4>1
    <3>3. Backed(fold, After(file, made, j), Live)
      BY <1>13, <3>2
    <3> QED BY <1>8, <3>1, <3>2, <3>3 DEF Declaring
  <2>2. CASE j = n + 2
    <3>1. made[j].line = Mark("head", tip) /\ Entering(made[j]) = {Mark("head", tip)} /\ j - 1 = n + 1 /\ n \in 0 .. n
      <4>1. n \in Nat
        BY <1>2
      <4>2. j - 1 = n + 1 /\ n \in 0 .. n
        BY <2>2, <4>1
      <4>3. made[n + 2].line = Mark("head", tip) /\ Entering(made[n + 2]) = {Mark("head", tip)}
        BY <1>2, <1>4
      <4> QED BY <2>2, <4>2, <4>3
    <3>2. After(file, made, j - 1) = Grows(n)
      BY <1>6, <3>1
    <3>3. \A m \in told : Carries(Grows(n), m, tip)
      <4> TAKE m \in told
      <4>1. m \in Live /\ Carries(Filed, m, store.head)
        BY DEF DiskKept, Live
      <4> QED BY <1>12, <4>1
    <3>4. Declaring(Entering(made[j])) = {}
      BY <1>5, <3>1 DEF Declaring
    <3> QED BY <1>5, <3>1, <3>2, <3>3, <3>4
  <2>3. CASE \E i \in 1 .. n : j = i + 1
    <3>1. PICK i \in 1 .. n : j = i + 1
      BY <2>3
    <3>2. made[j].line = c[i] /\ Entering(made[j]) = {c[i]} /\ j - 1 = (i - 1) + 1 /\ i - 1 \in 0 .. n /\ i \in 0 .. n
      <4>1. n \in Nat
        BY <1>2
      <4>2. j - 1 = (i - 1) + 1 /\ i - 1 \in 0 .. n /\ i \in 0 .. n
        BY <3>1, <4>1
      <4>3. made[i + 1].line = c[i] /\ Entering(made[i + 1]) = {c[i]}
        BY <1>2
      <4> QED BY <3>1, <4>2, <4>3
    <3>3. After(file, made, j - 1) = Grows(i - 1) /\ After(file, made, j) = Grows(i)
      BY <1>6, <3>1, <3>2
    <3>4. Backed(c[i], Grows(i), Live)
      BY <1>11, <1>13
    <3>5. c[i].kind = "node" /\ c[i].id > 0
      BY <1>2
    <3> QED BY <1>9, <3>2, <3>3, <3>4, <3>5 DEF Declaring
  <2> QED BY <1>2, <2>1, <2>2, <2>3
<1>15. TodoKept'
  BY <1>13, <1>14 DEF TodoKept
<1>16. /\ todo' # <<>> /\ After(file', todo', Len(todo')) = Grows(n)
       /\ todo'[Len(todo')].line = Mark("head", tip)
  BY <1>2, <1>4, <1>7, <1>13
<1>17. ASSUME NEW m \in Live, m \in summary PROVE Final(m)'
  <2>1. n \in 0 .. n
    BY <1>2
  <2>2. Carries(Grows(n), m, -to)
    BY <1>2, <1>10, <1>17, <2>1, LineCarries
  <2>3. Carries(Grows(n), m, tip)
    BY <1>12, <2>2, UnderCarries
  <2> QED BY <1>5, <1>16, <2>3 DEF Final
<1>18. \A i \in 1 .. n : store.nodes[P[t + i]] \in Stored
  <2>1. Tails(P, t, n, Filed)
    <3>1. Filed \in SUBSET Declaring(Said)
      BY DEF Filed, Declaring, Said
    <3> QED BY <1>2, <3>1, TailStands
  <2> QED BY <2>1 DEF Tails
<1>19. ASSUME NEW m, Clear(Filed \cup Stored, m), m \notin summary PROVE Clear(Grows(n), m)
  <2> SUFFICES ASSUME NEW l \in Grows(n) PROVE m \notin l.holds
    BY DEF Clear
  <2>1. CASE l \in K
    <3>1. l \in Filed \/ l = fold
      BY <1>3, <2>1 DEF Later
    <3> QED BY <1>2, <1>19, <3>1 DEF Clear
  <2>2. CASE l \notin K
    <3>1. PICK i \in 1 .. n : l = c[i]
      BY <2>2 DEF Grows
    <3>2. l.holds = store.nodes[P[t + i]].holds /\ store.nodes[P[t + i]] \in Stored
      BY <1>2, <1>18, <3>1
    <3> QED BY <1>19, <3>2 DEF Clear
  <2> QED BY <2>1, <2>2
<1>20. ASSUME NEW l \in Declaring(Asked(todo')) PROVE l.holds \subseteq 1 .. next
  <2>1. PICK j \in DOMAIN made : l \in {made[j].line, Mark("cursor", made[j].cursor)} \cup Entering(made[j])
    BY <1>20 DEF Asked, Declaring
  <2>2. l.kind = "node" /\ l # Mark("cursor", made[j].cursor) /\ l # Mark("head", tip)
    BY <1>20 DEF Declaring, Mark
  <2>3. l = fold \/ \E i \in 1 .. n : l = c[i]
    <3>1. l = made[j].line \/ l \in Entering(made[j])
      BY <2>1, <2>2
    <3>2. CASE j = 1
      <4>1. made[1].line = fold /\ Entering(made[1]) = {fold}
        BY <1>2
      <4> QED BY <3>1, <3>2, <4>1
    <3>3. CASE j = n + 2
      <4>1. made[n + 2].line = Mark("head", tip) /\ Entering(made[n + 2]) = {Mark("head", tip)}
        BY <1>2, <1>4
      <4> QED BY <2>2, <3>1, <3>3, <4>1
    <3>4. CASE \E i \in 1 .. n : j = i + 1
      <4>1. PICK i \in 1 .. n : j = i + 1
        BY <3>4
      <4>2. made[i + 1].line = c[i] /\ Entering(made[i + 1]) = {c[i]}
        BY <1>2
      <4> QED BY <3>1, <4>1, <4>2
    <3> QED BY <1>2, <3>2, <3>3, <3>4
  <2>4. CASE l = fold
    BY <1>2, <2>4
  <2>5. CASE \E i \in 1 .. n : l = c[i]
    <3>1. PICK i \in 1 .. n : l = c[i]
      BY <2>5
    <3>2. l.holds = store.nodes[P[t + i]].holds /\ store.nodes[P[t + i]] \in Stored
      BY <1>2, <1>18, <3>1
    <3> QED BY <3>2 DEF HoldInv
  <2> QED BY <2>3, <2>4, <2>5
<1>21. \A m : Clear(Filed \cup Stored, m) /\ m \notin summary => Clear(After(file, todo, Len(todo)), m)'
  <2> TAKE m
  <2> HAVE Clear(Filed \cup Stored, m) /\ m \notin summary
  <2>1. Clear(Grows(n), m)
    BY <1>19
  <2> QED BY <1>16, <2>1
<1> QED BY <1>15, <1>17, <1>20, <1>21 DEF FoldKept

(* A step that plans a fold, or nothing, forgets nothing.                  *)
LEMMA FoldHolds ==
    ASSUME TypeInv, TypeInv', CursorInv, HoldInv, DiskKept, ConvKept, stage # "down", stage' # "run",
           UNCHANGED <<file, store, conv, told, fresh, hist>>, stage' \notin Running => fresh = {},
           NEW from, NEW to \in Ident, to > 0, NEW summary \in Holdings, summary \subseteq 1 .. next,
           NEW P, P = activePathIDs(store.nodes, store.head), \A i \in 1 .. Len(P) : P[i] = from => i = 1,
           NEW made, made = CompactItems(from, to, summary), next' = next + Clones(made), next' <= MaxNodes, todo' = made,
           Foldable(to, summary),
           stage' \notin {"commit", "checkpoint", "refresh"},
           stage' = "runCompact" => /\ made # <<>>
                                    /\ \A m \in fresh : \/ m \in summary
                                                        \/ /\ Clear(Filed \cup Stored, m)
                                                           /\ \E i \in 2 .. Len(hist) : hist[i].id \notin DOMAIN store.nodes /\ m \in hist[i].holds
    PROVE  LossInv'
<1>1. Clones(made) \in Nat /\ next \in 0 .. MaxNodes /\ next \in Nat
  <2>1. store \in Stores /\ next \in 0 .. MaxNodes /\ MaxNodes \in Nat
    BY Identifiers DEF TypeInv, MemoryTyped, CountsTyped
  <2> QED BY <2>1, CompactIsTyped
<1>2. next <= next' /\ 1 .. next \subseteq 1 .. next' /\ next + Clones(made) <= MaxNodes
  BY <1>1
<1>3. TodoKept' /\ \A l \in Declaring(Asked(todo')) : l.holds \subseteq 1 .. next
  <2>1. CASE made = <<>>
    <3>1. DOMAIN todo' = {}
      BY <2>1
    <3>2. Asked(todo') = {}
      BY <3>1 DEF Asked
    <3> QED BY <3>1, <3>2 DEF TodoKept, Declaring
  <2>2. CASE made # <<>>
    <3>1. FoldKept(summary)
      BY <1>2, <2>2, FoldPlan
    <3> QED BY <3>1 DEF FoldKept
  <2> QED BY <2>1, <2>2
<1>4. FreshKept'
  <2>1. fresh' = fresh /\ hist' = hist /\ store' = store
    OBVIOUS
  <2>2. ASSUME stage' = "runCompact", NEW m \in fresh
        PROVE  \/ Final(m)'
               \/ /\ Clear(After(file, todo, Len(todo)), m)'
                  /\ \E i \in 2 .. Len(hist) : hist[i].id \notin DOMAIN store.nodes /\ m \in hist[i].holds
    <3>1. made # <<>> /\ m \in Live
      BY <2>2 DEF Live
    <3>2. /\ \A q \in Live : q \in summary => Final(q)'
          /\ \A q : Clear(Filed \cup Stored, q) /\ q \notin summary => Clear(After(file, todo, Len(todo)), q)'
      <4>1. FoldKept(summary)
        BY <1>2, <3>1, FoldPlan
      <4> QED BY <4>1 DEF FoldKept
    <3>3. CASE m \in summary
      BY <3>1, <3>2, <3>3
    <3>4. CASE m \notin summary
      BY <2>2, <3>2, <3>4
    <3> QED BY <3>3, <3>4
  <2>3. stage' = "runCompact" => \A m \in fresh' :
          \/ Final(m)'
          \/ /\ Clear(After(file', todo', Len(todo')), m)
             /\ \E i \in 2 .. Len(hist') : hist'[i].id \notin DOMAIN store'.nodes /\ m \in hist'[i].holds
    BY <2>1, <2>2
  <2> QED BY <2>3 DEF FreshKept
<1>5. \A l \in Declaring(Asked(todo')) : l.holds \subseteq 1 .. next'
  BY <1>2, <1>3
<1> QED BY <1>2, <1>3, <1>4, <1>5, PlanHolds

(* The fold that ends a run forgets nothing.                               *)
LEMMA RunFoldHolds ==
    ASSUME TypeInv, TypeInv', CursorInv, LossInv, FinishRun, DetectCompact(conv, hist) # 0
    PROVE  LossInv'
<1>0. SUFFICES ASSUME ~spoiled PROVE LossInv'
  BY DEF LossInv, FinishRun, DiskSame
<1>a. HoldInv /\ DiskKept /\ ConvKept /\ RunInv
  BY <1>0 DEF LossInv
<1>1. PICK k : k = DetectCompact(conv, hist)
  OBVIOUS
<1>2. PICK from, to, summary : from = conv[1].id /\ to = conv[k].id /\ summary = hist[1].holds
  OBVIOUS
<1>3. PICK made : made = CompactItems(from, to, summary)
  OBVIOUS
<1>4. /\ stage = "run" /\ todo' = made /\ next' = next + Clones(made) /\ next' <= MaxNodes
      /\ stage' = IF made = <<>> THEN "failed" ELSE "runCompact"
      /\ UNCHANGED <<conv, hist, told, fresh, file, store>>
  <2>1. DetectCompact(conv, hist) # 0 /\ k # 0
    BY <1>1
  <2>2. made = CompactItems(conv[1].id, conv[k].id, hist[1].holds)
    BY <1>2, <1>3
  <2>3. next' = next + Clones(made) /\ next + Clones(made) <= MaxNodes /\ todo' = made
        /\ stage' = IF made = <<>> THEN "failed" ELSE "runCompact"
    BY <1>1, <2>1, <2>2 DEF FinishRun
  <2> QED BY <2>3 DEF FinishRun, DiskSame, StoreSame
<1>5. todo = <<>>
  BY <1>4, StageNames DEF TypeInv, TodoTyped
<1>6. conv \in Seq(Messages) /\ hist \in Seq(Messages) /\ hist # <<>> /\ store \in Stores /\ next \in 0 .. MaxNodes
      /\ next \in Nat /\ MaxNodes \in Nat /\ Ident \subseteq Int
  BY <1>4, Identifiers DEF TypeInv, MemoryTyped, CountsTyped
<1>7. /\ k \in 1 .. Len(conv) /\ \A i \in 1 .. k : conv[i].id \notin Ids(hist)
      /\ k < Len(conv) => conv[k + 1].id \in Ids(hist)
  BY <1>1, <1>6, DetectShape
<1>8. conv # <<>> /\ 1 \in DOMAIN conv /\ k \in DOMAIN conv /\ 1 \in 1 .. k /\ 1 \in DOMAIN hist
  BY <1>6, <1>7
<1>9. conv[k] \in Messages /\ hist[1] \in Messages
  BY <1>6, <1>8, ElementOfSeq
<1>10. to \in Ident /\ summary \in Holdings
  BY <1>2, <1>9, MessagesAreTyped
<1>11. /\ EachOnce(hist) /\ \A i \in DOMAIN hist : hist[i].id \in DOMAIN store.nodes \/ hist[i].id \in 1 .. next
       /\ System(conv[1]) => hist[1] = conv[1]
  BY <1>4, <1>8 DEF CursorInv, HistInv
<1>12. ~System(conv[1])
  <2>1. hist[1].id \in Ids(hist)
    BY <1>8 DEF Ids
  <2>2. conv[1].id \notin Ids(hist)
    BY <1>7, <1>8
  <2> QED BY <1>11, <2>1, <2>2
<1>13. to > 0
  <2>1. ~(to < 0)
    BY <1>2, <1>8, <1>12 DEF CursorInv, ConvInv
  <2>2. to \in DOMAIN store.nodes
    BY <1>2, <1>8 DEF CursorInv, ConvInv, Ids
  <2>3. to # 0
    BY <2>2, ComingIsNew
  <2> QED BY <1>6, <1>10, <2>1, <2>3
<1>14. next' <= MaxNodes /\ stage # "down" /\ stage' \in {"failed", "runCompact"} /\ (stage' = "runCompact" => made # <<>>)
  BY <1>4
<1>15. summary \subseteq 1 .. next
  BY <1>2, <1>8, <1>a DEF HoldInv
<1>16. PICK P : P = activePathIDs(store.nodes, store.head)
  OBVIOUS
<1>17. \A i \in 1 .. Len(P) : P[i] = from => i = 1
  <2>1. PICK rank, F : Sound(rank, F, Said, Coming, fed) /\ RootInv(rank)
    BY DEF CursorInv, TreeInv
  <2>2. PICK given : given = fed
    OBVIOUS
  <2>3. Sound(rank, F, Said, Coming, given) /\ stage # "rewind"
    BY <1>4, <2>1, <2>2
  <2> QED BY <1>2, <1>5, <1>8, <1>16, <2>1, <2>3, PathIsBehind
<1>18. /\ \A m \in fresh : Clear(Filed \cup Stored, m) /\ \E i \in DOMAIN hist : hist[i].id \notin DOMAIN store.nodes /\ m \in hist[i].holds
       /\ Turned(hist, fresh)
  BY <1>4, <1>a DEF RunInv, Turned
<1>19. ASSUME NEW m \in told, m \in summary, m \notin fresh PROVE Carries(Filed, m, to)
  <2>1. hist[1].id \notin Ids(conv)
    <3> SUFFICES ASSUME hist[1].id \in Ids(conv) PROVE FALSE
      OBVIOUS
    <3>1. hist[1] = conv[1]
      BY <1>8, <1>12, <1>18 DEF Turned
    <3>2. hist[1].id \in Ids(hist)
      BY <1>8 DEF Ids
    <3> QED BY <1>7, <1>8, <3>1, <3>2
  <2>2. \E i \in DOMAIN conv : m \in conv[i].holds /\ \A j \in DOMAIN conv : conv[j].id \in Ids(hist) => i < j
    BY <1>2, <1>8, <1>12, <1>18, <1>19, <2>1 DEF Turned
  <2>3. PICK i \in DOMAIN conv : m \in conv[i].holds /\ \A j \in DOMAIN conv : conv[j].id \in Ids(hist) => i < j
    BY <2>2
  <2>4. i <= k
    <3>1. CASE k = Len(conv)
      BY <1>6, <3>1
    <3>2. CASE k # Len(conv)
      <4>1. k < Len(conv) /\ k + 1 \in DOMAIN conv
        BY <1>6, <1>7, <3>2
      <4>2. i < k + 1
        BY <1>7, <2>3, <4>1
      <4> QED BY <1>6, <1>7, <4>2
    <3> QED BY <3>1, <3>2
  <2>5. m \in Live
    BY DEF Live
  <2> QED BY <1>2, <1>8, <1>a, <2>3, <2>4, <2>5 DEF ConvKept
<1>20. Foldable(to, summary)
  <2> SUFFICES ASSUME NEW m \in Live
               PROVE  /\ m \in told \/ Clear(Filed \cup Stored, m)
                      /\ m \in summary => Carries(Filed, m, to) \/ Clear(Filed, m)
    BY DEF Foldable
  <2>1. CASE m \in fresh
    BY <1>18, <2>1 DEF Clear
  <2>2. CASE m \notin fresh
    <3>1. m \in told
      BY <2>2 DEF Live
    <3> QED BY <1>19, <2>2, <3>1
  <2> QED BY <2>1, <2>2
<1>21. ASSUME NEW m \in fresh
       PROVE  \/ m \in summary
              \/ /\ Clear(Filed \cup Stored, m)
                 /\ \E i \in 2 .. Len(hist) : hist[i].id \notin DOMAIN store.nodes /\ m \in hist[i].holds
  <2>1. PICK i \in DOMAIN hist : hist[i].id \notin DOMAIN store.nodes /\ m \in hist[i].holds
    BY <1>18
  <2>2. i # 1 => i \in 2 .. Len(hist)
    BY <1>6
  <2> QED BY <1>2, <1>18, <2>1, <2>2
<1>22. stage' \in Running /\ stage' \notin {"run", "commit", "checkpoint", "refresh"}
  BY <1>14 DEF Running
<1>23. next' = next + Clones(made) /\ todo' = made
  BY <1>4
<1>24. UNCHANGED <<file, store, conv, told, fresh, hist>>
  BY <1>4
<1> QED BY <1>3, <1>10, <1>13, <1>14, <1>15, <1>16, <1>17, <1>20, <1>21, <1>22, <1>23, <1>24, <1>a, FoldHolds

(* So does the fold of /compact.                                           *)
LEMMA CompressHolds ==
    ASSUME TypeInv, TypeInv', CursorInv, LossInv, CompressStore
    PROVE  LossInv'
<1>0. SUFFICES ASSUME ~spoiled PROVE LossInv'
  BY DEF LossInv, CompressStore, DiskSame
<1>a. HoldInv /\ DiskKept /\ ConvKept
  BY <1>0 DEF LossInv
<1>1. stage = "compress" /\ UNCHANGED <<file, store, conv, told, fresh, hist>>
  BY DEF CompressStore, DiskSame, StoreSame
<1>2. todo = <<>>
  BY <1>1, StageNames DEF TypeInv, TodoTyped
<1>3. store \in Stores /\ next \in 0 .. MaxNodes /\ next \in Nat /\ MaxNodes \in Nat /\ Ident \subseteq Int
      /\ Keyed(store.nodes) /\ store.nodes \in NodeMaps /\ LinesOf(store) \subseteq Said
  BY Identifiers DEF TypeInv, MemoryTyped, CountsTyped, CursorInv, Books, Said, Stores
<1>b. fresh = {} /\ stage # "down" /\ Live = told
  BY <1>1, <1>a DEF HoldInv, Running, Live
<1>4. CASE stage' = "idle" /\ UNCHANGED <<todo, next>>
  <2>1. TodoKept'
    <3>1. DOMAIN todo' = {}
      BY <1>2, <1>4
    <3> QED BY <3>1 DEF TodoKept
  <2>2. FreshKept'
    BY <1>4 DEF FreshKept
  <2>3. \A l \in Declaring(Asked(todo')) : l.holds \subseteq 1 .. next'
    <3>1. Asked(todo') = {}
      BY <1>2, <1>4 DEF Asked
    <3> QED BY <3>1 DEF Declaring
  <2>4. stage' # "run" /\ next <= next' /\ (stage' \notin Running => fresh = {})
    BY <1>3, <1>4, <1>b
  <2> QED BY <1>1, <1>a, <1>b, <2>1, <2>2, <2>3, <2>4, PlanHolds
<1>5. CASE ~(stage' = "idle" /\ UNCHANGED <<todo, next>>)
  <2>1. PICK view : view = ActiveView /\ view = buildActiveView(store.nodes, store.head)
    BY DEF ActiveView
  <2>2. PICK new : new = Compress(view, FALSE)
    OBVIOUS
  <2>3. PICK k : k = DetectCompact(view, new)
    OBVIOUS
  <2>4. PICK from, to, summary : from = view[1].id /\ to = view[k].id /\ summary = new[1].holds
    OBVIOUS
  <2>5. PICK made : made = CompactItems(from, to, summary)
    OBVIOUS
  <2>6. /\ k > 0 /\ next + Clones(made) <= MaxNodes /\ todo' = made /\ next' = next + Clones(made)
        /\ stage' = IF made = <<>> THEN "idle" ELSE "compact"
    <3>1. made = CompactItems(view[1].id, view[k].id, new[1].holds)
      BY <2>4, <2>5
    <3> QED BY <1>5, <2>1, <2>2, <2>3, <3>1 DEF CompressStore
  <2>7. PICK P : P = activePathIDs(store.nodes, store.head)
    OBVIOUS
  <2>8. /\ view \in Seq(Messages) /\ Len(view) = Len(P) /\ DOMAIN view = 1 .. Len(P) /\ Len(P) \in Nat
        /\ \A i \in 1 .. Len(P) : view[i].id = P[i] /\ P[i] \in DOMAIN store.nodes /\ P[i] \in Ident
    <3>1. DOMAIN store.nodes \subseteq Ident
      BY <1>3, NodeMap
    <3> QED BY <1>3, <2>1, <2>7, <3>1, ViewShows DEF Keyed
  <2>9. PICK rank, F : Sound(rank, F, Said, Coming, fed) /\ RootInv(rank)
    BY DEF CursorInv, TreeInv
  <2>10. Ranked(rank) /\ Rooted(rank, store.nodes)
    <3>1. PICK given : given = fed
      OBVIOUS
    <3>2. Sound(rank, F, Said, Coming, given)
      BY <2>9, <3>1
    <3> QED BY <1>3, <3>2, PartIsRooted
  <2>11. EachOnce(view)
    BY <1>3, <2>1, <2>10, ViewInOrder
  <2>12. Climb(store.nodes, store.head, P)
    BY <1>3, <2>7, PathClimbs
  <2>13. \A i \in 2 .. Len(P) : P[i] > 0
    BY <1>3, <2>7, <2>10, PathIsLinked
  <2>14. PICK n : Summarises(new, view, FALSE, 0, n) /\ new # view
    <3>1. PICK protect \in BOOLEAN : protect = FALSE
      OBVIOUS
    <3>2. new = Compress(view, protect)
      BY <2>2, <3>1, Zenon
    <3>3. new = view \/ \E q, n : Summarises(new, view, protect, q, n)
      BY <2>8, <3>2, CompressShape
    <3>4. new # view
      <4> SUFFICES ASSUME new = view PROVE FALSE
        OBVIOUS
      <4>1. DetectCompact(view, view) = 0
        BY DEF DetectCompact
      <4> QED BY <2>3, <2>6, <4>1
    <3>5. PICK q, n : Summarises(new, view, protect, q, n)
      BY <3>3, <3>4
    <3>6. q = 0
      BY <3>1, <3>5 DEF Summarises
    <3> QED BY <3>1, <3>4, <3>5, <3>6, Zenon
  <2>15. /\ n \in Nat /\ 2 <= n /\ n < Len(P) /\ DOMAIN new = 1 .. Len(P) - n + 1 /\ Len(new) = Len(P) - n + 1
         /\ \E c : /\ new[1] = Message(next + 1, "system", c)
                   /\ c = UNION {view[i].holds : i \in 1 .. n}
         /\ \A i \in 2 .. Len(P) - n + 1 : new[i] = view[i + (n - 1)]
    <3>1. 0 + 1 = 1 /\ 0 + 2 = 2
      OBVIOUS
    <3>2. n \in Nat /\ 0 + n < Len(P) /\ 0 + n = n
      BY <2>8, <2>14 DEF Summarises
    <3> QED BY <2>8, <2>14, <3>1, <3>2 DEF Summarises
  <2>16. PICK c : new[1] = Message(next + 1, "system", c) /\ c = UNION {view[i].holds : i \in 1 .. n}
    BY <2>15
  <2>17. \E Texts : new \in Seq(Texts)
    <3> DEFINE Texts == [id : Int, role : Roles, holds : Holdings]
    <3>1. \A m \in Texts : m.holds \in Holdings
      OBVIOUS
    <3>2. \A x \in Holdings : Message(next + 1, "system", x) \in Texts
      BY <1>3, Identifiers DEF Message, Roles
    <3>3. Messages \subseteq Texts
      BY Identifiers DEF Messages
    <3> HIDE DEF Texts
    <3>4. view \in Seq(Texts)
      BY <2>8, <3>3
    <3>5. new \in Seq(Texts)
      BY <2>2, <3>1, <3>2, <3>4, CompressIsTyped
    <3> QED BY <3>5
  <2>18. k \in 1 .. Len(P) /\ (k < Len(P) => view[k + 1].id \in Ids(new))
    <3>1. PICK Texts : new \in Seq(Texts)
      BY <2>17
    <3> QED BY <2>3, <2>6, <2>8, <3>1, DetectShape
  <2>19. k >= n
    <3>1. CASE k = Len(P)
      BY <2>15, <3>1
    <3>2. CASE k # Len(P)
      <4>1. k < Len(P) /\ k + 1 \in 1 .. Len(P)
        BY <2>8, <2>18, <3>2
      <4>2. PICK j \in DOMAIN new : new[j].id = view[k + 1].id
        BY <2>18, <4>1 DEF Ids
      <4>3. j # 1
        <5> SUFFICES ASSUME j = 1 PROVE FALSE
          OBVIOUS
        <5>1. view[k + 1].id = next + 1
          BY <2>16, <4>2 DEF Message
        <5>2. next + 1 \in DOMAIN store.nodes
          BY <2>8, <4>1, <5>1
        <5>3. next + 1 \in Ident
          BY <2>8, <4>1, <5>1
        <5>4. next + 1 \in 1 .. MaxNodes /\ next + 1 > next
          BY <1>3, <5>3 DEF Ident
        <5>5. next + 1 \in Coming
          BY <5>4 DEF Coming
        <5> QED BY <5>2, <5>5, ComingIsNew
      <4>4. j \in 2 .. Len(P) - n + 1 /\ j + (n - 1) \in 1 .. Len(P)
        BY <2>8, <2>15, <4>3
      <4>5. view[j + (n - 1)].id = view[k + 1].id
        BY <2>15, <4>2, <4>4
      <4>6. j + (n - 1) = k + 1
        BY <2>8, <2>11, <4>1, <4>4, <4>5 DEF EachOnce
      <4> QED BY <2>8, <2>15, <2>18, <4>4, <4>6
    <3> QED BY <3>1, <3>2
  <2>20. to \in Ident /\ to > 0
    <3>1. k \in 2 .. Len(P)
      BY <2>15, <2>18, <2>19
    <3> QED BY <2>4, <2>8, <2>13, <2>18, <3>1
  <2>21. summary \in Holdings
    <3>1. \A i \in 1 .. n : view[i].holds \in Holdings
      <4> TAKE i \in 1 .. n
      <4>1. i \in DOMAIN view
        BY <2>8, <2>15
      <4> QED BY <2>8, <4>1, ElementOfSeq, MessagesAreTyped
    <3>2. c \in Holdings
      BY <2>16, <3>1 DEF Holdings
    <3> QED BY <2>4, <2>16, <3>2 DEF Message
  <2>22. \A i \in 1 .. Len(P) : P[i] = from => i = 1
    <3>1. 1 \in 1 .. Len(P)
      BY <2>8, <2>18
    <3> QED BY <2>4, <2>8, <2>12, <3>1 DEF Climb
  <2>23. next' <= MaxNodes /\ next' = next + Clones(made) /\ todo' = made
    BY <2>6
  <2>24. stage' \notin {"run", "runCompact", "commit", "checkpoint", "refresh"} /\ (stage' \notin Running => fresh = {})
    BY <1>b, <2>6
  <2>25. \A m \in Live : \A i, j \in DOMAIN view : i <= j /\ m \in view[i].holds => Carries(Filed, m, view[j].id)
    <3>1. \A l \in Declaring(LinesOf(store)) : Backed(l, Filed, Live)
      BY <1>a DEF DiskKept, Stored
    <3> QED BY <1>3, <2>1, <3>1, ViewCarries
  <2>26. ASSUME NEW m \in summary PROVE \E i \in 1 .. n : i \in DOMAIN view /\ m \in view[i].holds
    <3>1. summary = c
      BY <2>4, <2>16 DEF Message
    <3>2. PICK i \in 1 .. n : m \in view[i].holds
      BY <2>16, <2>26, <3>1
    <3>3. i \in DOMAIN view
      BY <2>8, <2>15
    <3> QED BY <3>2, <3>3
  <2>27. Foldable(to, summary)
    <3> SUFFICES ASSUME NEW m \in Live, m \in summary PROVE Carries(Filed, m, to)
      BY <1>b DEF Foldable
    <3>1. PICK i \in 1 .. n : i \in DOMAIN view /\ m \in view[i].holds
      BY <2>26
    <3>2. i <= k /\ k \in DOMAIN view
      BY <2>8, <2>15, <2>18, <2>19
    <3> QED BY <2>4, <2>25, <3>1, <3>2
  <2>28. summary \subseteq 1 .. next
    <3> SUFFICES ASSUME NEW m \in summary PROVE m \in 1 .. next
      OBVIOUS
    <3>1. PICK i \in 1 .. n : i \in DOMAIN view /\ m \in view[i].holds
      BY <2>26
    <3>2. i \in 1 .. Len(P)
      BY <2>8, <3>1
    <3>3. view[i].holds = store.nodes[P[i]].holds /\ P[i] \in DOMAIN store.nodes
      BY <1>3, <2>1, <2>7, <3>2, ViewShows
    <3>4. store.nodes[P[i]] \in Stored
      BY <1>3, <3>3, StoreLines DEF Stored
    <3> QED BY <1>a, <3>1, <3>3, <3>4 DEF HoldInv
  <2> QED BY <1>1, <1>a, <1>b, <2>5, <2>7, <2>20, <2>21, <2>22, <2>23, <2>24, <2>27, <2>28, FoldHolds
<1> QED BY <1>4, <1>5

-----------------------------------------------------------------------------
(* Nothing that is carried is forgotten *)

(* The path to a node whose parent is declared shows all of the path to    *)
(* the parent, and any view of a declared node shows the node.             *)
LEMMA PathGrows ==
    ASSUME NEW rank, Ranked(rank), NEW n \in NodeMaps, Keyed(n), Rooted(rank, n), NEW i \in DOMAIN n
    PROVE  /\ n[i].holds \subseteq Content(buildActiveView(n, i))
           /\ Content(buildActiveView(n, n[i].parent)) \subseteq Content(buildActiveView(n, i))
<1>1. PICK P : P = activePathIDs(n, i)
  OBVIOUS
<1>2. PICK p : p = n[i].parent
  OBVIOUS
<1>3. PICK Q : Q = activePathIDs(n, p)
  OBVIOUS
<1>4. Climb(n, i, P) /\ Climb(n, p, Q)
  BY <1>1, <1>3, PathClimbs
<1>5. /\ P \in Seq(DOMAIN n) /\ P # <<>> /\ Len(P) \in Nat /\ P[Len(P)] = i
      /\ \A q \in 2 .. Len(P) : P[q - 1] = n[P[q]].parent
  <2>1. P \in Seq(DOMAIN n) /\ P # <<>> /\ P[Len(P)] = i /\ \A q \in 2 .. Len(P) : P[q - 1] = n[P[q]].parent
    BY <1>4 DEF Climb, hasID
  <2> QED BY <2>1
<1>6. ~hasID(n, n[P[1]].parent) /\ Len(P) \in 1 .. Len(P)
  BY <1>1, <1>5, PathIsLinked
<1>7. PICK V, W : V = buildActiveView(n, i) /\ W = buildActiveView(n, p)
  OBVIOUS
<1>8. /\ DOMAIN V = 1 .. Len(P) /\ \A q \in 1 .. Len(P) : P[q] \in DOMAIN n /\ V[q].holds = n[P[q]].holds
      /\ DOMAIN W = 1 .. Len(Q) /\ Len(Q) \in Nat /\ \A q \in 1 .. Len(Q) : Q[q] \in DOMAIN n /\ W[q].holds = n[Q[q]].holds
  BY <1>1, <1>3, <1>7, ViewShows
<1>9. n[i].holds \subseteq Content(V)
  BY <1>5, <1>6, <1>8 DEF Content
<1>10. ASSUME NEW k \in 1 .. Len(Q) PROVE \E q \in 1 .. Len(P) : P[q] = Q[k]
  <2>1. Q \in Seq(DOMAIN n) /\ Q # <<>> /\ Q[Len(Q)] = p /\ \A q \in 2 .. Len(Q) : Q[q - 1] = n[Q[q]].parent
    <3>1. Q # <<>>
      BY <1>8, <1>10
    <3> QED BY <1>4, <3>1 DEF Climb
  <2>2. Len(Q) \in 1 .. Len(Q)
    BY <1>8, <2>1
  <2>3. PICK S : S = {x \in 1 .. Len(Q) : \E q \in 1 .. Len(P) : P[q] = Q[x]}
    OBVIOUS
  <2>4. ASSUME NEW q \in 1 .. Len(P), hasID(n, n[P[q]].parent)
        PROVE  q - 1 \in 1 .. Len(P) /\ P[q - 1] = n[P[q]].parent
    <3>1. q # 1
      BY <1>6, <2>4
    <3>2. q \in 2 .. Len(P) /\ q - 1 \in 1 .. Len(P)
      BY <1>5, <3>1
    <3> QED BY <1>5, <3>2
  <2>5. Len(Q) \in S
    <3>1. p \in DOMAIN n
      BY <1>8, <2>1, <2>2
    <3>2. Len(P) - 1 \in 1 .. Len(P) /\ P[Len(P) - 1] = p
      BY <1>2, <1>5, <1>6, <2>4, <3>1 DEF hasID
    <3> QED BY <2>1, <2>2, <2>3, <3>2
  <2>6. ASSUME NEW x \in 2 .. Len(Q), x \in S PROVE x - 1 \in S
    <3>1. PICK q \in 1 .. Len(P) : P[q] = Q[x]
      BY <2>3, <2>6
    <3>2. x - 1 \in 1 .. Len(Q) /\ Q[x - 1] = n[P[q]].parent
      BY <1>8, <2>1, <3>1
    <3>3. hasID(n, n[P[q]].parent)
      BY <1>8, <3>2 DEF hasID
    <3>4. q - 1 \in 1 .. Len(P) /\ P[q - 1] = Q[x - 1]
      BY <2>4, <3>2, <3>3
    <3> QED BY <2>3, <3>2, <3>4
  <2>7. PICK j \in Nat : j = Len(Q)
    BY <1>8
  <2>8. j \in S /\ \A x \in 2 .. j : x \in S => x - 1 \in S
    BY <2>5, <2>6, <2>7
  <2>9. \A x \in 1 .. j : x \in S
    BY <2>8, DownTheWalk
  <2> QED BY <2>3, <2>7, <2>9
<1>11. Content(W) \subseteq Content(V)
  <2> SUFFICES ASSUME NEW k \in 1 .. Len(Q), NEW m \in W[k].holds PROVE m \in Content(V)
    BY <1>8 DEF Content
  <2>1. PICK q \in 1 .. Len(P) : P[q] = Q[k]
    BY <1>10
  <2>2. m \in V[q].holds /\ q \in DOMAIN V
    BY <1>8, <2>1
  <2> QED BY <2>2 DEF Content
<1> QED BY <1>2, <1>7, <1>9, <1>11

(* A message that is carried at a head is shown by the view from there, or *)
(* was folded away by a summary that does not hold it.                     *)
LEMMA CarriedIsShown ==
    ASSUME TypeInv, CursorInv, NEW m, Carries(Filed, m, file.head)
    PROVE  m \in Content(OnDisk) \cup UNION {Unheld(c) : c \in Folds}
<1>1. file \in Stores /\ file.nodes \in NodeMaps /\ file.head \in Ident /\ LinesOf(file) \subseteq Said /\ Keyed(file.nodes)
  BY DEF TypeInv, DiskTyped, CursorInv, Books, Said, Stores
<1>2. PICK n \in NodeMaps : n = file.nodes
  BY <1>1
<1>3. PICK rank : Ranked(rank) /\ Rooted(rank, n)
  <2>1. PICK rank, F : Sound(rank, F, Said, Coming, fed)
    BY DEF CursorInv, TreeInv
  <2>2. PICK given : given = fed
    OBVIOUS
  <2>3. Sound(rank, F, Said, Coming, given)
    BY <2>1, <2>2
  <2> QED BY <1>1, <1>2, <2>3, PartIsRooted
<1>4. DOMAIN n \subseteq Ident /\ \A i \in DOMAIN n : n[i] \in Nodes /\ n[i].id = i
  <2>1. n \in [DOMAIN n -> Nodes] /\ DOMAIN n \subseteq Ident
    BY NodeMap
  <2> QED BY <1>1, <1>2, <2>1 DEF Keyed
<1>5. Filed = {n[i] : i \in DOMAIN n}
  BY <1>1, <1>2, StoreLines DEF Filed
<1>6. SUFFICES ASSUME m \notin Content(OnDisk), \A c \in Folds : m \notin Unheld(c) PROVE FALSE
  OBVIOUS
<1>7. PICK G : G = {i \in Ident : m \notin Content(buildActiveView(n, i))}
  OBVIOUS
<1>8. file.head \in G
  BY <1>1, <1>2, <1>6, <1>7 DEF OnDisk
<1>9. \A i \in DOMAIN n : /\ n[i].holds \subseteq Content(buildActiveView(n, i))
                          /\ Content(buildActiveView(n, n[i].parent)) \subseteq Content(buildActiveView(n, i))
  BY <1>1, <1>2, <1>3, PathGrows
<1>10. ASSUME NEW i \in DOMAIN n, i \in G PROVE Source(n[i]) \in G
  <2>1. m \notin Content(buildActiveView(n, i)) /\ i \in Ident /\ n[i].id = i
    BY <1>4, <1>7, <1>10
  <2>2. CASE i < 0
    <3>1. i \in Folds /\ m \notin n[i].holds
      BY <1>2, <1>9, <2>1, <2>2 DEF Folds
    <3>2. m \notin Content(buildActiveView(n, -i))
      BY <1>2, <1>6, <3>1 DEF Unheld
    <3>3. -i \in Ident
      BY <2>1, Identifiers
    <3> QED BY <1>7, <2>1, <2>2, <3>2, <3>3 DEF Source
  <2>3. CASE ~(i < 0)
    <3>1. m \notin Content(buildActiveView(n, n[i].parent))
      BY <1>9, <2>1
    <3>2. n[i].parent \in Ident
      BY <1>4 DEF Nodes
    <3> QED BY <1>7, <2>1, <2>3, <3>1, <3>2 DEF Source
  <2> QED BY <2>2, <2>3
<1>11. Shut(G, Filed)
  BY <1>4, <1>5, <1>10 DEF Shut
<1>12. PICK l \in Filed : l.id \in G /\ m \in l.holds
  <2>1. G \in SUBSET Ident
    BY <1>7
  <2> QED BY <1>8, <1>11, <2>1 DEF Carries
<1>13. PICK i \in DOMAIN n : l = n[i]
  BY <1>5
<1> QED BY <1>4, <1>7, <1>9, <1>12, <1>13

(* At first nothing is there to forget. *)
LEMMA LossInit ==
    ASSUME Init
    PROVE  LossInv
<1>1. /\ file = Nothing /\ store = Nothing /\ conv = <<>> /\ todo = <<>> /\ stage = "idle" /\ hist = <<>>
      /\ fresh = {} /\ told = {} /\ next = 0
  BY DEF Init
<1>2. PICK none : none = Nothing
  OBVIOUS
<1>3. DOMAIN none.nodes = {}
  BY <1>2 DEF Nothing
<1>4. Declaring(LinesOf(none)) = {}
  BY <1>3 DEF Declaring, LinesOf, Mark
<1>5. Filed = {} /\ Stored = {}
  BY <1>1, <1>2, <1>4 DEF Filed, Stored
<1>6. DOMAIN todo = {} /\ DOMAIN conv = {} /\ DOMAIN hist = {} /\ Asked(todo) = {} /\ Live = {}
  BY <1>1 DEF Asked, Live
<1>7. HoldInv
  BY <1>1, <1>5, <1>6 DEF HoldInv, Declaring
<1>8. DiskKept
  BY <1>1, <1>5, <1>6 DEF DiskKept
<1>9. ConvKept /\ TodoKept
  BY <1>6 DEF ConvKept, TodoKept
<1>10. RunInv
  BY <1>1 DEF RunInv
<1>11. FreshKept
  BY <1>1 DEF FreshKept
<1> QED BY <1>7, <1>8, <1>9, <1>10, <1>11 DEF LossInv

(* No step forgets. *)
LEMMA LossStep ==
    ASSUME TypeInv, TypeInv', CursorInv, LossInv, [Next]_vars
    PROVE  LossInv'
<1>1. CASE appendRecord
  BY <1>1, appendHolds
<1>2. CASE AppendFails
  BY <1>2, failureHolds
<1>3. CASE \/ BeginRun \/ AcceptFails \/ EndRun \/ MarkInterrupted \/ Recovered
           \/ JournalEvent \/ UNCHANGED vars
  BY <1>3, idleHolds
<1>4. CASE AcceptRun
  BY <1>4, AcceptHolds
<1>5. CASE Reply
  BY <1>5, ReplyHolds
<1>6. CASE FinishRun
  <2>1. CASE DetectCompact(conv, hist) = 0
    BY <1>6, <2>1, CommitsHold
  <2>2. CASE DetectCompact(conv, hist) # 0
    BY <1>6, <2>2, RunFoldHolds
  <2> QED BY <2>1, <2>2
<1>7. CASE CommitRest
  BY <1>7, CommitsHold
<1>8. CASE RefreshRun \/ Done \/ Open
  BY <1>8, RefreshHolds
<1>9. CASE Consolidate("cursor") \/ Consolidate("consolidate") \/ CheckpointRun \/ Rewind
  BY <1>9, markHolds
<1>10. CASE CompressStore
  BY <1>10, CompressHolds
<1>11. CASE Crash \/ CloseSession
  BY <1>11, CrashHolds
<1> QED BY <1>1, <1>2, <1>3, <1>4, <1>5, <1>6, <1>7, <1>8, <1>9, <1>10, <1>11 DEF Next

(* No message that was reported persisted is forgotten: the view that the  *)
(* file yields shows it, or a summary that holds it, through any           *)
(* compactions, failed appends, crashes and reopenings, unless the user    *)
(* rewound past it, a fold of more than its summary holds took it, or a    *)
(* line was written behind an unfinished one (Run's Persisted, Commit,     *)
(* Compact, Open).                                                         *)
THEOREM NotForgotten == Spec => []NothingForgotten
<1>1. Init => TypeInv /\ CursorInv /\ LossInv
  BY TypeInit, CursorInit, LossInit
<1>2. (TypeInv /\ CursorInv /\ LossInv) /\ [Next]_vars => (TypeInv /\ CursorInv /\ LossInv)'
  <2> SUFFICES ASSUME TypeInv, CursorInv, LossInv, [Next]_vars PROVE TypeInv' /\ CursorInv' /\ LossInv'
    OBVIOUS
  <2>1. TypeInv'
    BY TypeStep
  <2>2. CursorInv'
    BY <2>1, CursorStep
  <2>3. LossInv'
    BY <2>1, LossStep
  <2> QED BY <2>1, <2>2, <2>3
<1>3. TypeInv /\ CursorInv /\ LossInv => NothingForgotten
  <2> SUFFICES ASSUME TypeInv, CursorInv, LossInv, ~spoiled, NEW m \in told
               PROVE  m \in Content(OnDisk) \cup UNION {Unheld(c) : c \in Folds}
    BY DEF NothingForgotten
  <2>1. Carries(Filed, m, file.head)
    BY DEF LossInv, DiskKept
  <2> QED BY <2>1, CarriedIsShown
<1> QED BY <1>1, <1>2, <1>3, PTL DEF Spec
==============================================================================
