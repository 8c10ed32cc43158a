---------------------------- MODULE EmitLLVMProofs ----------------------------
(***************************************************************************)
(* Proofs about the code generator, for every function LLVM's verifier     *)
(* accepts and every placement.                                            *)
(***************************************************************************)
EXTENDS EmitLLVM, SortBlocksSpec, WellFoundedInduction, FiniteSetTheorems, SequenceTheorems, TLAPS

------------------------------------------------------------------------------
(* The order in which the blocks are visited (SortBlocks), for every control *)
(* flow graph.                                                               *)

\* Induction up to a bound, stated of sets.
LEMMA UpTo ==
  ASSUME NEW N \in Nat, NEW S, 0 \in S, \A n \in 0 .. N : n + 1 \in 0 .. N /\ n \in S => n + 1 \in S
  PROVE  \A n \in 0 .. N : n \in S
<1> DEFINE Bad == {n \in 0 .. N : n \notin S}
<1> SUFFICES ASSUME Bad # {} PROVE FALSE
  OBVIOUS
<1>1. IsWellFoundedOn(OpToRel(<, Nat), Nat)
  BY NatLessThanWellFounded
<1>2. Bad \subseteq Nat
  OBVIOUS
<1>3. PICK k \in Bad : \A j \in Bad : ~(<<j, k>> \in OpToRel(<, Nat))
  <2> HIDE DEF Bad
  <2> QED BY <1>1, <1>2, WFMin
<1>4. k \in Nat /\ k # 0 /\ k - 1 \in 0 .. N /\ k = (k - 1) + 1
  OBVIOUS
<1>5. k - 1 \in S => FALSE
  BY <1>4
<1>6. <<k - 1, k>> \in OpToRel(<, Nat)
  BY <1>4 DEF OpToRel
<1> QED BY <1>3, <1>4, <1>5, <1>6

Foldable(S, T, step, start, xs) == step \in [S -> [T -> S]] /\ start \in S /\ xs \in Seq(T)

\* The values a fold goes through.
Trace(S, step, start, xs, after) ==
  /\ after \in [0 .. Len(xs) -> S]
  /\ after[0] = start
  /\ \A n \in 1 .. Len(xs) : after[n] = step[after[n - 1]][xs[n]]
  /\ Fold(step, start, xs) = after[Len(xs)]

LEMMA FoldSteps ==
  ASSUME NEW S, NEW T, NEW step, NEW start, NEW xs, Foldable(S, T, step, start, xs)
  PROVE  \E after : Trace(S, step, start, xs, after)
<1> USE DEF Foldable
<1> DEFINE run(n, a) == a = [k \in 0 .. n |-> IF k = 0 THEN start ELSE step[a[k - 1]][xs[k]]]
           Runs == {n \in Nat : \E a \in [0 .. n -> S] : run(n, a)}
<1>1. Len(xs) \in Nat /\ \A n \in 1 .. Len(xs) : xs[n] \in T
  OBVIOUS
<1>2. 0 \in Runs
  <2> DEFINE a == [k \in 0 .. 0 |-> start]
  <2>1. a \in [0 .. 0 -> S] /\ run(0, a)
    OBVIOUS
  <2> QED BY <2>1
<1>3. ASSUME NEW n \in 0 .. Len(xs), n + 1 \in 0 .. Len(xs), n \in Runs
      PROVE  n + 1 \in Runs
  <2>1. PICK a \in [0 .. n -> S] : run(n, a)
    BY <1>3
  <2> DEFINE e == step[a[n]][xs[n + 1]]
             b == [k \in 0 .. n + 1 |-> IF k = n + 1 THEN e ELSE a[k]]
  <2>2. n \in Nat /\ n + 1 \in Nat /\ n + 1 \in 1 .. Len(xs) /\ n \in 0 .. n
    BY <1>1, <1>3
  <2>3. e \in S
    BY <1>1, <2>2
  <2> HIDE DEF e
  <2>4. b \in [0 .. n + 1 -> S]
    BY <2>2, <2>3
  <2>5. \A k \in 0 .. n : a[k] = IF k = 0 THEN start ELSE step[a[k - 1]][xs[k]]
    BY <2>1
  <2>6. \A k \in 0 .. n : b[k] = a[k]
    BY <2>2
  <2>7. \A k \in 0 .. n + 1 : b[k] = IF k = 0 THEN start ELSE step[b[k - 1]][xs[k]]
    <3> TAKE k \in 0 .. n + 1
    <3>1. CASE k = n + 1
      <4>1. b[k] = e /\ b[k - 1] = a[n]
        BY <2>2, <2>6, <3>1
      <4> QED BY <2>2, <3>1, <4>1 DEF e
    <3>2. CASE k = 0
      BY <2>2, <2>5, <2>6, <3>2
    <3>3. CASE k \in 1 .. n
      <4>1. k \in 0 .. n /\ k - 1 \in 0 .. n /\ k # 0
        BY <2>2, <3>3
      <4> QED BY <2>5, <2>6, <4>1
    <3> QED BY <2>2, <3>1, <3>2, <3>3
  <2>8. run(n + 1, b)
    <3>1. b = [k \in 0 .. n + 1 |-> b[k]]
      OBVIOUS
    <3> HIDE DEF b
    <3> QED BY <2>7, <3>1
  <2> QED BY <2>2, <2>4, <2>8
<1>4. \A n \in 0 .. Len(xs) : n \in Runs
  <2> HIDE DEF Runs
  <2> QED BY <1>1, <1>2, <1>3, UpTo
<1> DEFINE after == CHOOSE a : run(Len(xs), a)
<1>5. PICK a \in [0 .. Len(xs) -> S] : run(Len(xs), a)
  <2>1. Len(xs) \in Runs
    <3> HIDE DEF Runs
    <3> QED BY <1>1, <1>4
  <2> QED BY <2>1
<1>6. run(Len(xs), after)
  BY <1>5
<1>7. Fold(step, start, xs) = after[Len(xs)]
  BY DEF Fold
<1> HIDE DEF after
<1>8. DOMAIN after = 0 .. Len(xs) /\ after[0] = start
  BY <1>1, <1>6
<1>9. \A n \in 1 .. Len(xs) : after[n] = step[after[n - 1]][xs[n]]
  <2> TAKE n \in 1 .. Len(xs)
  <2>1. n \in 0 .. Len(xs) /\ n # 0
    BY <1>1
  <2> QED BY <1>6, <2>1
<1> DEFINE Typed == {n \in 0 .. Len(xs) : after[n] \in S}
<1>10. 0 \in Typed
  BY <1>1, <1>8
<1>11. ASSUME NEW n \in 0 .. Len(xs), n + 1 \in 0 .. Len(xs), n \in Typed
       PROVE  n + 1 \in Typed
  <2>1. n + 1 \in 1 .. Len(xs) /\ n + 1 - 1 = n
    BY <1>1, <1>11
  <2>2. after[n + 1] = step[after[n]][xs[n + 1]]
    BY <1>9, <2>1
  <2> QED BY <1>1, <1>11, <2>1, <2>2
<1>12. \A n \in 0 .. Len(xs) : n \in Typed
  <2> HIDE DEF Typed
  <2> QED BY <1>1, <1>10, <1>11, UpTo
<1>13. after \in [0 .. Len(xs) -> S]
  BY <1>6, <1>12
<1> QED BY <1>7, <1>8, <1>9, <1>13 DEF Trace

------------------------------------------------------------------------------
(* Sequences and the sets of their elements. *)

LEMMA ToSetAppend ==
  ASSUME NEW B, NEW s \in Seq(B), NEW e \in B
  PROVE  ToSet(Append(s, e)) = ToSet(s) \cup {e}
<1>1. /\ Len(s) \in Nat /\ DOMAIN s = 1 .. Len(s)
      /\ DOMAIN Append(s, e) = 1 .. Len(s) + 1
      /\ \A i \in 1 .. Len(s) : Append(s, e)[i] = s[i]
      /\ Append(s, e)[Len(s) + 1] = e
  OBVIOUS
<1>2. 1 .. Len(s) + 1 = (1 .. Len(s)) \cup {Len(s) + 1}
  BY <1>1
<1>3. ToSet(Append(s, e)) = {Append(s, e)[i] : i \in (1 .. Len(s)) \cup {Len(s) + 1}}
  BY <1>1, <1>2 DEF ToSet
<1>4. ToSet(s) = {s[i] : i \in 1 .. Len(s)}
  BY <1>1 DEF ToSet
<1> HIDE <1>2
<1> QED BY <1>1, <1>3, <1>4

LEMMA ConcatRegroup ==
  ASSUME NEW B, NEW s \in Seq(B), NEW t \in Seq(B), NEW u \in Seq(B), NEW w, w = s \o (t \o u)
  PROVE  w = (s \o t) \o u
OBVIOUS

LEMMA ToSetConcat ==
  ASSUME NEW B, NEW s \in Seq(B), NEW t \in Seq(B)
  PROVE  /\ s \o t \in Seq(B)
         /\ ToSet(s \o t) = ToSet(s) \cup ToSet(t)
         /\ ToSet(s) \subseteq B
<1>1. /\ Len(s) \in Nat /\ DOMAIN s = 1 .. Len(s) /\ Len(t) \in Nat /\ DOMAIN t = 1 .. Len(t)
      /\ s \o t \in Seq(B)
      /\ DOMAIN (s \o t) = 1 .. Len(s) + Len(t)
      /\ \A i \in 1 .. Len(s) + Len(t) :
           (s \o t)[i] = IF i <= Len(s) THEN s[i] ELSE t[i - Len(s)]
  OBVIOUS
<1>2. \A i \in 1 .. Len(s) : i \in 1 .. Len(s) + Len(t) /\ (s \o t)[i] = s[i]
  BY <1>1
<1>3. \A i \in 1 .. Len(t) : Len(s) + i \in 1 .. Len(s) + Len(t) /\ (s \o t)[Len(s) + i] = t[i]
  BY <1>1
<1>4. \A i \in 1 .. Len(s) + Len(t) :
        \/ i \in 1 .. Len(s) /\ (s \o t)[i] = s[i]
        \/ i - Len(s) \in 1 .. Len(t) /\ (s \o t)[i] = t[i - Len(s)]
  BY <1>1
<1> DEFINE c == s \o t
<1>5. /\ ToSet(c) = {c[i] : i \in 1 .. Len(s) + Len(t)}
      /\ ToSet(s) = {s[i] : i \in 1 .. Len(s)}
      /\ ToSet(t) = {t[i] : i \in 1 .. Len(t)}
  BY <1>1 DEF ToSet
<1>6. \A i \in 1 .. Len(s) : s[i] \in B
  OBVIOUS
<1> HIDE DEF c
<1>7. ToSet(c) = ToSet(s) \cup ToSet(t)
  BY <1>2, <1>3, <1>4, <1>5 DEF c
<1>8. c \in Seq(B) /\ ToSet(s) \subseteq B
  BY <1>1, <1>5, <1>6 DEF c
<1> QED BY <1>7, <1>8 DEF c

------------------------------------------------------------------------------
(* The order: what explore computes. *)

Graph(g) == g \in Seq(Seq(DOMAIN g)) /\ 1 \in DOMAIN g

\* The edges explored are those to other blocks.
LEMMA EdgesOut ==
  ASSUME NEW g, Graph(g), NEW node \in DOMAIN g
  PROVE  /\ OutgoingEdges(g, node) \in Seq(DOMAIN g)
         /\ ToSet(OutgoingEdges(g, node)) = ToSet(g[node]) \ {node}
<1> DEFINE B == DOMAIN g
           xs == g[node]
           step == [kept \in Seq(B) |-> [n \in B |-> IF n # node THEN Append(kept, n) ELSE kept]]
<1>1. xs \in Seq(B)
  BY DEF Graph
<1>2. step \in [Seq(B) -> [B -> Seq(B)]]
  <2>1. ASSUME NEW kept \in Seq(B)
        PROVE  [n \in B |-> IF n # node THEN Append(kept, n) ELSE kept] \in [B -> Seq(B)]
    <3> HIDE DEF B
    <3> QED OBVIOUS
  <2> QED BY <2>1
<1>3. OutgoingEdges(g, node) = Fold(step, <<>>, xs)
  BY DEF OutgoingEdges
<1>4. \A kept \in Seq(B), n \in B : step[kept][n] = IF n # node THEN Append(kept, n) ELSE kept
  OBVIOUS
<1>5. <<>> \in Seq(B)
  OBVIOUS
<1> HIDE DEF step, xs
<1>6. PICK after : Trace(Seq(B), step, <<>>, xs, after)
  <2>1. Foldable(Seq(B), B, step, <<>>, xs)
    BY <1>1, <1>2, <1>5 DEF Foldable
  <2> QED BY <2>1, FoldSteps, Zenon
<1> USE DEF Trace
<1> DEFINE Right == {n \in 0 .. Len(xs) : ToSet(after[n]) = {xs[k] : k \in 1 .. n} \ {node}}
<1>7. Len(xs) \in Nat /\ 0 \in Right
  BY <1>1, <1>6 DEF ToSet
<1>8. ASSUME NEW n \in 0 .. Len(xs), n + 1 \in 0 .. Len(xs), n \in Right
      PROVE  n + 1 \in Right
  <2>1. n + 1 \in 1 .. Len(xs) /\ n + 1 - 1 = n /\ after[n] \in Seq(B) /\ xs[n + 1] \in B
    BY <1>1, <1>6, <1>7, <1>8
  <2>2. after[n + 1] = IF xs[n + 1] # node THEN Append(after[n], xs[n + 1]) ELSE after[n]
    BY <1>4, <1>6, <2>1
  <2>3. {xs[k] : k \in 1 .. n + 1} = {xs[k] : k \in 1 .. n} \cup {xs[n + 1]}
    BY <1>7, <2>1
  <2>4. \A s \in Seq(B), e \in B : ToSet(Append(s, e)) = ToSet(s) \cup {e}
    <3> HIDE DEF B
    <3> QED BY ToSetAppend
  <2>5. ToSet(after[n]) = {xs[k] : k \in 1 .. n} \ {node}
    BY <1>8
  <2> QED BY <1>8, <2>1, <2>2, <2>3, <2>4, <2>5
<1>9. \A n \in 0 .. Len(xs) : n \in Right
  <2> HIDE DEF Right
  <2> QED BY <1>7, <1>8, UpTo
<1>10. ToSet(after[Len(xs)]) = {xs[k] : k \in 1 .. Len(xs)} \ {node}
  BY <1>7, <1>9
<1>11. {xs[k] : k \in 1 .. Len(xs)} = ToSet(xs)
  <2>1. DOMAIN xs = 1 .. Len(xs)
    BY <1>1
  <2> QED BY <2>1 DEF ToSet
<1>12. after[Len(xs)] \in Seq(B)
  BY <1>6, <1>7
<1> QED BY <1>3, <1>6, <1>10, <1>11, <1>12 DEF xs

\* What is left to explore shrinks with every block put on the path.
LEMMA Shrinks ==
  ASSUME NEW B, IsFiniteSet(B), NEW path \in SUBSET B, NEW node \in B, node \notin path,
         NEW n \in Nat, Cardinality(B \ path) <= n + 1
  PROVE  path \cup {node} \in SUBSET B /\ Cardinality(B \ (path \cup {node})) <= n
<1>1. IsFiniteSet(B \ path)
  BY FS_Difference
<1>2. B \ (path \cup {node}) = (B \ path) \ {node} /\ node \in B \ path
  OBVIOUS
<1>3. Cardinality((B \ path) \ {node}) = Cardinality(B \ path) - 1 /\ Cardinality(B \ path) \in Nat
  BY <1>1, <1>2, FS_RemoveElement, FS_CardinalityType
<1> QED BY <1>2, <1>3

LEMMA Exhausted ==
  ASSUME NEW B, IsFiniteSet(B), NEW path \in SUBSET B, Cardinality(B \ path) <= 0
  PROVE  path = B
<1>1. IsFiniteSet(B \ path)
  BY FS_Difference
<1>2. Cardinality(B \ path) = 0
  BY <1>1, FS_CardinalityType
<1> QED BY <1>1, <1>2, FS_EmptySet

LEMMA GraphFinite ==
  ASSUME NEW g, Graph(g)
  PROVE  /\ IsFiniteSet(DOMAIN g) /\ Cardinality(DOMAIN g) = Len(g) /\ Len(g) \in Nat
         /\ \A path \in SUBSET DOMAIN g : Cardinality(DOMAIN g \ path) <= Len(g)
<1>1. Len(g) \in Nat /\ DOMAIN g = 1 .. Len(g)
  BY DEF Graph
<1>2. IsFiniteSet(1 .. Len(g)) /\ Cardinality(1 .. Len(g)) = Len(g)
  <2>1. 1 \in Int /\ Len(g) \in Int
    BY <1>1
  <2>2. /\ IsFiniteSet(1 .. Len(g))
        /\ Cardinality(1 .. Len(g)) = IF 1 > Len(g) THEN 0 ELSE Len(g) - 1 + 1
    BY <2>1, FS_Interval
  <2> QED BY <1>1, <2>2
<1>3. ASSUME NEW path \in SUBSET DOMAIN g
      PROVE  Cardinality(DOMAIN g \ path) <= Len(g)
  <2>1. DOMAIN g \ path \subseteq DOMAIN g
    OBVIOUS
  <2> QED BY <1>1, <1>2, <2>1, FS_Subset
<1> QED BY <1>1, <1>2, <1>3

\* One call of explore, given the function explore for longer paths.
Body(g, f, path) ==
  [visited \in Seq(DOMAIN g) |-> [node \in DOMAIN g |->
     IF node \in ToSet(visited) \cup path
     THEN visited
     ELSE <<node>> \o Fold(f[path \cup {node}], visited, OutgoingEdges(g, node))]]

Explorations(g) == [Seq(DOMAIN g) -> [DOMAIN g -> Seq(DOMAIN g)]]

LEMMA BodyTyped ==
  ASSUME NEW g, Graph(g), NEW f, NEW path \in SUBSET DOMAIN g,
         \A node \in DOMAIN g \ path : f[path \cup {node}] \in Explorations(g)
  PROVE  Body(g, f, path) \in Explorations(g)
<1> DEFINE B == DOMAIN g
           result(visited, node) ==
             IF node \in ToSet(visited) \cup path
             THEN visited
             ELSE <<node>> \o Fold(f[path \cup {node}], visited, OutgoingEdges(g, node))
<1>1. ASSUME NEW visited \in Seq(B), NEW node \in B
      PROVE  result(visited, node) \in Seq(B)
  <2>1. CASE node \in ToSet(visited) \cup path
    BY <2>1
  <2>2. CASE node \notin ToSet(visited) \cup path
    <3> DEFINE step == f[path \cup {node}]
               es == OutgoingEdges(g, node)
    <3>1. Foldable(Seq(B), B, step, visited, es)
      BY <2>2, EdgesOut DEF Foldable, Explorations
    <3>2. PICK after : Trace(Seq(B), step, visited, es, after)
      <4> HIDE DEF B, step, es
      <4> QED BY <3>1, FoldSteps, Zenon
    <3>3. Len(es) \in 0 .. Len(es)
      BY EdgesOut
    <3>4. Fold(step, visited, es) \in Seq(B)
      <4> HIDE DEF step, es, B
      <4> QED BY <3>2, <3>3 DEF Trace
    <3>5. <<node>> \o Fold(step, visited, es) \in Seq(B)
      <4> HIDE DEF step, es
      <4> QED BY <3>4
    <3> QED BY <2>2, <3>5
  <2> QED BY <2>1, <2>2
<1>2. Body(g, f, path) = [visited \in Seq(B) |-> [node \in B |-> result(visited, node)]]
  BY DEF Body
<1> HIDE DEF result, B
<1>3. \A visited \in Seq(B) : [node \in B |-> result(visited, node)] \in [B -> Seq(B)]
  BY <1>1
<1> QED BY <1>2, <1>3 DEF Explorations, B

\* The function explore is one: a call only uses longer paths.
LEMMA ExploreBody ==
  ASSUME NEW g, Graph(g)
  PROVE  \A path \in SUBSET DOMAIN g :
           Explore(g)[path] \in Explorations(g) /\ Explore(g)[path] = Body(g, Explore(g), path)
<1> DEFINE B == DOMAIN g
           N == Len(g)
           Rest(path) == Cardinality(B \ path)
           Solved == {n \in Nat : \E f \in [SUBSET B -> Explorations(g)] :
                        \A path \in SUBSET B : Rest(path) <= n => f[path] = Body(g, f, path)}
<1>1. IsFiniteSet(B) /\ N \in Nat /\ \A path \in SUBSET B : Rest(path) <= N
  BY GraphFinite
<1>2. 0 \in Solved
  <2> DEFINE idle == [visited \in Seq(B) |-> [node \in B |-> visited]]
             f == [path \in SUBSET B |-> idle]
  <2>1. idle \in Explorations(g)
    <3>1. \A visited \in Seq(B) : [node \in B |-> visited] \in [B -> Seq(B)]
      OBVIOUS
    <3> QED BY <3>1 DEF Explorations
  <2>2. Body(g, f, B) = idle
    <3>1. \A visited \in Seq(B), node \in B : node \in ToSet(visited) \cup B
      OBVIOUS
    <3> QED BY <3>1 DEF Body
  <2>3. f \in [SUBSET B -> Explorations(g)] /\ f[B] = idle
    <3> HIDE DEF idle
    <3> QED BY <2>1
  <2>4. \A path \in SUBSET B : Rest(path) <= 0 => path = B
    BY <1>1, Exhausted
  <2>5. \A path \in SUBSET B : Rest(path) <= 0 => f[path] = Body(g, f, path)
    <3> HIDE DEF f, idle, Rest
    <3> QED BY <2>2, <2>3, <2>4
  <2> HIDE DEF f
  <2> QED BY <2>3, <2>5
<1>3. ASSUME NEW n \in 0 .. N, n + 1 \in 0 .. N, n \in Solved
      PROVE  n + 1 \in Solved
  <2>1. PICK f \in [SUBSET B -> Explorations(g)] :
          \A path \in SUBSET B : Rest(path) <= n => f[path] = Body(g, f, path)
    BY <1>3
  <2> DEFINE h == [path \in SUBSET B |-> Body(g, f, path)]
  <2>2. h \in [SUBSET B -> Explorations(g)]
    <3>1. \A path \in SUBSET B : \A node \in B \ path : f[path \cup {node}] \in Explorations(g)
      OBVIOUS
    <3>2. \A path \in SUBSET B : Body(g, f, path) \in Explorations(g)
      BY <3>1, BodyTyped
    <3> QED BY <3>2
  <2>3. ASSUME NEW path \in SUBSET B, Rest(path) <= n + 1
        PROVE  h[path] = Body(g, h, path)
    <3>1. ASSUME NEW node \in B, node \notin path
          PROVE  h[path \cup {node}] = f[path \cup {node}]
      <4>1. path \cup {node} \in SUBSET B /\ Rest(path \cup {node}) <= n
        BY <1>1, <2>3, <3>1, Shrinks
      <4>2. f[path \cup {node}] = Body(g, f, path \cup {node})
        <5> HIDE DEF Rest
        <5> QED BY <2>1, <4>1
      <4> QED BY <4>1, <4>2
    <3>2. Body(g, h, path) = Body(g, f, path)
      <4> HIDE DEF h
      <4> QED BY <3>1 DEF Body
    <3> QED BY <3>2
  <2>4. n + 1 \in Nat
    BY <1>1, <1>3
  <2> HIDE DEF h
  <2> QED BY <2>2, <2>3, <2>4
<1>4. N \in Solved
  <2>1. \A n \in 0 .. N : n \in Solved
    <3> HIDE DEF Solved, N
    <3> QED BY <1>1, <1>2, <1>3, UpTo
  <2> HIDE DEF Solved
  <2> QED BY <1>1, <2>1
<1>5. PICK f \in [SUBSET B -> Explorations(g)] : \A path \in SUBSET B : f[path] = Body(g, f, path)
  <2>1. PICK f \in [SUBSET B -> Explorations(g)] :
          \A path \in SUBSET B : Rest(path) <= N => f[path] = Body(g, f, path)
    BY <1>4
  <2> QED BY <1>1, <2>1
<1>6. f = [path \in SUBSET B |-> Body(g, f, path)]
  BY <1>5
<1> DEFINE e == CHOOSE e : e = [path \in SUBSET B |-> Body(g, e, path)]
<1>7. e = [path \in SUBSET B |-> Body(g, e, path)]
  BY <1>6
<1>8. Explore(g) = e
  BY DEF Explore, Body
<1> HIDE DEF e
<1>9. \A path \in SUBSET B : e[path] = Body(g, e, path)
  BY <1>7
<1> DEFINE Typed == {n \in Nat : \A path \in SUBSET B : Rest(path) <= n => e[path] \in Explorations(g)}
<1>10. 0 \in Typed
  <2>1. ASSUME NEW path \in SUBSET B, Rest(path) <= 0
        PROVE  e[path] \in Explorations(g)
    <3>1. path = B
      BY <1>1, <2>1, Exhausted
    <3>2. Body(g, e, path) \in Explorations(g)
      BY <3>1, BodyTyped
    <3> QED BY <1>9, <3>2
  <2> QED BY <2>1
<1>11. ASSUME NEW n \in 0 .. N, n + 1 \in 0 .. N, n \in Typed
       PROVE  n + 1 \in Typed
  <2>1. ASSUME NEW path \in SUBSET B, Rest(path) <= n + 1
        PROVE  e[path] \in Explorations(g)
    <3>1. \A node \in B \ path : e[path \cup {node}] \in Explorations(g)
      <4> TAKE node \in B \ path
      <4>1. path \cup {node} \in SUBSET B /\ Rest(path \cup {node}) <= n
        BY <1>1, <2>1, <1>11, Shrinks
      <4> HIDE DEF Rest
      <4> QED BY <1>11, <4>1
    <3>2. Body(g, e, path) \in Explorations(g)
      BY <3>1, BodyTyped
    <3> QED BY <1>9, <3>2
  <2>2. n + 1 \in Nat
    BY <1>1
  <2> HIDE DEF Rest
  <2> QED BY <2>1, <2>2
<1>12. N \in Typed
  <2>1. \A n \in 0 .. N : n \in Typed
    <3> HIDE DEF Typed, N
    <3> QED BY <1>1, <1>10, <1>11, UpTo
  <2> HIDE DEF Typed
  <2> QED BY <1>1, <2>1
<1>13. \A path \in SUBSET B : e[path] \in Explorations(g)
  BY <1>1, <1>12
<1> QED BY <1>8, <1>9, <1>13

------------------------------------------------------------------------------
(* The order: what a call of explore adds. *)

\* The blocks that a call with this path and these visited blocks adds in front.
New(g, path, visited, new) ==
  /\ new \in Seq(DOMAIN g)
  /\ \A j, k \in DOMAIN new : new[j] = new[k] => j = k
  /\ \A j \in DOMAIN new :
       /\ new[j] \notin path \cup ToSet(visited)
       /\ ToSet(g[new[j]]) \subseteq path \cup ToSet(new) \cup ToSet(visited)
       /\ \A d : Dominates(g, d, new[j]) => d \in path \/ \E i \in DOMAIN new : i <= j /\ new[i] = d

LEMMA NothingNew == ASSUME NEW g, NEW path, NEW visited PROVE New(g, path, visited, <<>>)
BY DEF New

LEMMA NewMore ==
  ASSUME NEW g, NEW path, NEW visited \in Seq(DOMAIN g), NEW new, NEW more,
         New(g, path, visited, new), New(g, path, new \o visited, more)
  PROVE  New(g, path, visited, more \o new)
<1> DEFINE B == DOMAIN g
           all == more \o new
<1>1. /\ new \in Seq(B) /\ more \in Seq(B)
      /\ Len(more) \in Nat /\ DOMAIN more = 1 .. Len(more)
      /\ Len(new) \in Nat /\ DOMAIN new = 1 .. Len(new)
  BY DEF New
<1>2. all \in Seq(B) /\ ToSet(all) = ToSet(more) \cup ToSet(new)
  BY <1>1, ToSetConcat
<1>3. ToSet(new \o visited) = ToSet(new) \cup ToSet(visited)
  BY <1>1, ToSetConcat
<1>4. /\ DOMAIN all = 1 .. Len(more) + Len(new)
      /\ \A i \in DOMAIN more : i \in DOMAIN all /\ all[i] = more[i]
      /\ \A i \in DOMAIN new : i + Len(more) \in DOMAIN all /\ all[i + Len(more)] = new[i]
      /\ \A i \in DOMAIN all : i \in DOMAIN more \/ i - Len(more) \in DOMAIN new
      /\ \A i \in DOMAIN all : i \in Nat /\ i = (i - Len(more)) + Len(more)
  <2> HIDE DEF B
  <2> QED BY <1>1
<1>5. \A i \in DOMAIN more : \A j \in DOMAIN new : more[i] # new[j]
  BY <1>3 DEF New, ToSet
<1>6. ASSUME NEW j \in DOMAIN all, NEW k \in DOMAIN all, all[j] = all[k]
      PROVE  j = k
  <2> HIDE DEF all
  <2>1. CASE j \in DOMAIN more /\ k \in DOMAIN more
    BY <1>4, <1>6, <2>1 DEF New
  <2>2. CASE j - Len(more) \in DOMAIN new /\ k - Len(more) \in DOMAIN new
    <3>1. new[j - Len(more)] = new[k - Len(more)]
      BY <1>4, <1>6, <2>2
    <3>2. j - Len(more) = k - Len(more)
      BY <2>2, <3>1 DEF New
    <3> QED BY <1>1, <1>4, <3>2
  <2>3. CASE j \in DOMAIN more /\ k - Len(more) \in DOMAIN new
    BY <1>4, <1>5, <1>6, <2>3
  <2>4. CASE k \in DOMAIN more /\ j - Len(more) \in DOMAIN new
    BY <1>4, <1>5, <1>6, <2>4
  <2> QED BY <1>4, <2>1, <2>2, <2>3, <2>4
<1>7. ASSUME NEW j \in DOMAIN all
      PROVE  /\ all[j] \notin path \cup ToSet(visited)
             /\ ToSet(g[all[j]]) \subseteq path \cup ToSet(all) \cup ToSet(visited)
             /\ \A d : Dominates(g, d, all[j]) => d \in path \/ \E i \in DOMAIN all : i <= j /\ all[i] = d
  <2> HIDE DEF all
  <2>1. CASE j \in DOMAIN more
    <3>1. all[j] = more[j]
      BY <1>4, <2>1
    <3>2. /\ more[j] \notin path \cup ToSet(visited)
          /\ ToSet(g[more[j]]) \subseteq path \cup ToSet(all) \cup ToSet(visited)
      BY <1>2, <1>3, <2>1 DEF New
    <3>3. ASSUME NEW d, Dominates(g, d, more[j]), d \notin path
          PROVE  \E i \in DOMAIN all : i <= j /\ all[i] = d
      <4>1. PICK i \in DOMAIN more : i <= j /\ more[i] = d
        BY <2>1, <3>3 DEF New
      <4> QED BY <1>4, <4>1
    <3> QED BY <3>1, <3>2, <3>3
  <2>2. CASE j - Len(more) \in DOMAIN new
    <3> DEFINE k == j - Len(more)
    <3>1. all[j] = new[k]
      BY <1>4, <2>2
    <3>2. /\ new[k] \notin path \cup ToSet(visited)
          /\ ToSet(g[new[k]]) \subseteq path \cup ToSet(all) \cup ToSet(visited)
      BY <1>2, <2>2 DEF New
    <3>3. ASSUME NEW d, Dominates(g, d, new[k]), d \notin path
          PROVE  \E i \in DOMAIN all : i <= j /\ all[i] = d
      <4>1. PICK i \in DOMAIN new : i <= k /\ new[i] = d
        BY <2>2, <3>3 DEF New
      <4>2. i + Len(more) <= j
        BY <1>1, <1>4, <4>1
      <4> QED BY <1>4, <4>1, <4>2
    <3> QED BY <3>1, <3>2, <3>3
  <2> QED BY <1>4, <2>1, <2>2
<1> QED BY <1>2, <1>6, <1>7 DEF New

LEMMA NewFront ==
  ASSUME NEW g, NEW path, NEW visited \in Seq(DOMAIN g), NEW new, NEW node \in DOMAIN g,
         New(g, path \cup {node}, visited, new),
         node \notin path \cup ToSet(visited),
         ToSet(g[node]) \subseteq path \cup {node} \cup ToSet(new) \cup ToSet(visited),
         \A d : Dominates(g, d, node) => d \in path \cup {node}
  PROVE  New(g, path, visited, <<node>> \o new)
<1> DEFINE B == DOMAIN g
           all == <<node>> \o new
<1>1. new \in Seq(B) /\ Len(new) \in Nat /\ DOMAIN new = 1 .. Len(new)
  BY DEF New
<1>2. all \in Seq(B) /\ ToSet(all) = {node} \cup ToSet(new)
  <2> DEFINE one == <<node>>
  <2>1. one \in Seq(B) /\ ToSet(one) = {node}
    BY DEF ToSet
  <2> HIDE DEF B, one
  <2>2. one \o new \in Seq(B) /\ ToSet(one \o new) = ToSet(one) \cup ToSet(new)
    BY <1>1, <2>1, ToSetConcat
  <2> QED BY <2>1, <2>2 DEF one
<1>3. /\ DOMAIN all = 1 .. Len(new) + 1
      /\ 1 \in DOMAIN all /\ all[1] = node
      /\ \A i \in DOMAIN new : i + 1 \in DOMAIN all /\ all[i + 1] = new[i]
      /\ \A i \in DOMAIN all : i = 1 \/ i - 1 \in DOMAIN new
      /\ \A i \in DOMAIN all : i \in Nat /\ 1 <= i /\ i = (i - 1) + 1
  <2> HIDE DEF B
  <2> QED BY <1>1
<1>4. \A i \in DOMAIN new : new[i] # node
  BY DEF New
<1> HIDE DEF all
<1>5. ASSUME NEW j \in DOMAIN all, NEW k \in DOMAIN all, all[j] = all[k]
      PROVE  j = k
  <2>1. CASE j - 1 \in DOMAIN new /\ k - 1 \in DOMAIN new
    <3>1. new[j - 1] = new[k - 1]
      BY <1>3, <1>5, <2>1
    <3>2. j - 1 = k - 1
      BY <2>1, <3>1 DEF New
    <3> QED BY <1>3, <3>2
  <2>2. CASE j = 1 /\ k - 1 \in DOMAIN new
    BY <1>3, <1>4, <1>5, <2>2
  <2>3. CASE k = 1 /\ j - 1 \in DOMAIN new
    BY <1>3, <1>4, <1>5, <2>3
  <2> QED BY <1>3, <2>1, <2>2, <2>3
<1>6. ASSUME NEW j \in DOMAIN all
      PROVE  /\ all[j] \notin path \cup ToSet(visited)
             /\ ToSet(g[all[j]]) \subseteq path \cup ToSet(all) \cup ToSet(visited)
             /\ \A d : Dominates(g, d, all[j]) => d \in path \/ \E i \in DOMAIN all : i <= j /\ all[i] = d
  <2>1. CASE j = 1
    BY <1>2, <1>3, <2>1
  <2>2. CASE j - 1 \in DOMAIN new
    <3>1. all[j] = new[j - 1]
      BY <1>3, <2>2
    <3>2. /\ new[j - 1] \notin path \cup ToSet(visited)
          /\ ToSet(g[new[j - 1]]) \subseteq path \cup ToSet(all) \cup ToSet(visited)
      BY <1>2, <2>2 DEF New
    <3>3. ASSUME NEW d, Dominates(g, d, new[j - 1]), d \notin path
          PROVE  \E i \in DOMAIN all : i <= j /\ all[i] = d
      <4>1. CASE d = node
        BY <1>3, <4>1
      <4>2. CASE d # node
        <5>1. PICK i \in DOMAIN new : i <= j - 1 /\ new[i] = d
          BY <2>2, <3>3, <4>2 DEF New
        <5>2. i + 1 <= j
          BY <1>1, <1>3, <5>1
        <5> QED BY <1>3, <5>1, <5>2
      <4> QED BY <4>1, <4>2
    <3> QED BY <3>1, <3>2, <3>3
  <2> QED BY <1>3, <2>1, <2>2
<1> QED BY <1>2, <1>5, <1>6 DEF New, all

\* An edge can be followed only if every dominator has been passed.
LEMMA EdgeDominators ==
  ASSUME NEW g, Graph(g), NEW a \in Reachable(g), NEW b \in ToSet(g[a])
  PROVE  /\ b \in DOMAIN g /\ b \in Reachable(g)
         /\ \A d : Dominates(g, d, b) => d = b \/ Dominates(g, d, a)
<1>1. a \in DOMAIN g
  BY DEF Reachable, ReachedWithout
<1>2. b \in DOMAIN g
  <2>1. g[a] \in Seq(DOMAIN g)
    BY <1>1 DEF Graph
  <2> QED BY <2>1 DEF ToSet
<1>3. b # 0
  BY <1>2 DEF Graph
<1>4. ASSUME NEW d, a \in ReachedWithout(g, d), b # d
      PROVE  b \in ReachedWithout(g, d)
  BY <1>2, <1>4 DEF ReachedWithout, Closed
<1>5. b \in Reachable(g)
  BY <1>3, <1>4 DEF Reachable
<1> QED BY <1>2, <1>4, <1>5 DEF Dominates

\* A call is made for a reachable block whose dominators are on the path.
Entered(g, path, node) ==
  node \in Reachable(g) /\ \A d : Dominates(g, d, node) => d \in path \cup {node}

\* It adds new blocks in front of the visited ones, node among them.
Explored(g, path, visited, node, new) ==
  /\ New(g, path, visited, new)
  /\ Explore(g)[path][visited][node] = new \o visited
  /\ node \in path \cup ToSet(new) \cup ToSet(visited)

Correct(g, path) ==
  \A visited \in Seq(DOMAIN g), node \in DOMAIN g :
    Entered(g, path, node) => \E new : Explored(g, path, visited, node, new)

\* Exploring the successors of a block, if longer paths are explored correctly.
Exploring(g, path, visited, es) ==
  /\ Graph(g) /\ path \in SUBSET DOMAIN g /\ Correct(g, path)
  /\ visited \in Seq(DOMAIN g) /\ es \in Seq(DOMAIN g)
  /\ \A e \in ToSet(es) : Entered(g, path, e)

EdgesExplored(g, path, visited, es, new) ==
  /\ New(g, path, visited, new)
  /\ Fold(Explore(g)[path], visited, es) = new \o visited
  /\ ToSet(es) \subseteq path \cup ToSet(new) \cup ToSet(visited)

LEMMA EdgesCorrect ==
  ASSUME NEW g, NEW path, NEW visited, NEW es, Exploring(g, path, visited, es)
  PROVE  \E new : EdgesExplored(g, path, visited, es, new)
<1> USE DEF Exploring
<1> DEFINE B == DOMAIN g
           call == Explore(g)[path]
<1>1. Foldable(Seq(B), B, call, visited, es)
  BY ExploreBody DEF Foldable, Explorations
<1>2. PICK after : Trace(Seq(B), call, visited, es, after)
  <2> HIDE DEF B, call
  <2> QED BY <1>1, FoldSteps, Zenon
<1>3. Len(es) \in Nat /\ DOMAIN es = 1 .. Len(es)
  OBVIOUS
<1> DEFINE Good == {n \in 0 .. Len(es) :
              \E new : /\ New(g, path, visited, new)
                       /\ after[n] = new \o visited
                       /\ \A i \in 1 .. n : es[i] \in path \cup ToSet(new) \cup ToSet(visited)}
<1>4. 0 \in Good
  <2>1. after[0] = <<>> \o visited
    BY <1>2 DEF Trace
  <2>2. New(g, path, visited, <<>>) /\ \A i \in 1 .. 0 : FALSE
    BY NothingNew
  <2>3. 0 \in 0 .. Len(es) /\ 1 .. 0 = {}
    BY <1>3
  <2> HIDE DEF call
  <2> QED BY <2>1, <2>2, <2>3
<1>5. ASSUME NEW n \in 0 .. Len(es), n + 1 \in 0 .. Len(es), n \in Good
      PROVE  n + 1 \in Good
  <2> DEFINE e == es[n + 1]
  <2>1. PICK new : /\ New(g, path, visited, new)
                   /\ after[n] = new \o visited
                   /\ \A i \in 1 .. n : es[i] \in path \cup ToSet(new) \cup ToSet(visited)
    BY <1>5
  <2>2. n + 1 \in 1 .. Len(es) /\ n + 1 - 1 = n /\ n \in Nat
    BY <1>3, <1>5
  <2>3. e \in B /\ e \in ToSet(es)
    BY <1>3, <2>2 DEF ToSet
  <2>4. after[n + 1] = call[after[n]][e] /\ after[n] \in Seq(B)
    <3> HIDE DEF B, call
    <3>1. /\ after \in [0 .. Len(es) -> Seq(B)]
          /\ \A k \in 1 .. Len(es) : after[k] = call[after[k - 1]][es[k]]
      BY <1>2 DEF Trace
    <3>2. after[n + 1] = call[after[n + 1 - 1]][es[n + 1]]
      BY <2>2, <3>1
    <3> QED BY <1>5, <2>2, <3>1, <3>2
  <2>5. PICK more : /\ New(g, path, after[n], more)
                    /\ call[after[n]][e] = more \o after[n]
                    /\ e \in path \cup ToSet(more) \cup ToSet(after[n])
    <3> HIDE DEF e
    <3>1. Entered(g, path, e)
      BY <2>3
    <3> QED BY <2>3, <2>4, <3>1 DEF Correct, Explored
  <2>6. New(g, path, visited, more \o new)
    BY <2>1, <2>5, NewMore
  <2>7. /\ new \in Seq(B) /\ more \in Seq(B)
        /\ ToSet(more \o new) = ToSet(more) \cup ToSet(new)
        /\ ToSet(new \o visited) = ToSet(new) \cup ToSet(visited)
    <3>1. new \in Seq(B) /\ more \in Seq(B)
      BY <2>1, <2>5 DEF New
    <3> HIDE DEF B
    <3>2. ToSet(more \o new) = ToSet(more) \cup ToSet(new)
      BY <3>1, ToSetConcat
    <3>3. visited \in Seq(B)
      BY DEF B
    <3>4. ToSet(new \o visited) = ToSet(new) \cup ToSet(visited)
      BY <3>1, <3>3, ToSetConcat
    <3> QED BY <3>1, <3>2, <3>4
  <2>8. after[n + 1] = (more \o new) \o visited
    <3>1. after[n + 1] = more \o (new \o visited)
      BY <2>1, <2>4, <2>5
    <3>2. visited \in Seq(B)
      BY DEF B
    <3> HIDE DEF B
    <3>3. more \in Seq(B) /\ new \in Seq(B)
      BY <2>7
    <3> QED BY <3>1, <3>2, <3>3, ConcatRegroup
  <2>9. \A i \in 1 .. n + 1 : es[i] \in path \cup ToSet(more \o new) \cup ToSet(visited)
    <3> TAKE i \in 1 .. n + 1
    <3>1. CASE i \in 1 .. n
      BY <2>1, <2>7, <3>1
    <3>2. CASE i = n + 1
      BY <2>1, <2>5, <2>7, <3>2
    <3> QED BY <2>2, <3>1, <3>2
  <2> QED BY <1>5, <2>6, <2>8, <2>9
<1>6. \A n \in 0 .. Len(es) : n \in Good
  <2> HIDE DEF Good
  <2> QED BY <1>3, <1>4, <1>5, UpTo
<1>7. Len(es) \in Good
  <2> HIDE DEF Good
  <2> QED BY <1>3, <1>6
<1>8. Fold(call, visited, es) = after[Len(es)]
  BY <1>2 DEF Trace
<1>9. PICK new : /\ New(g, path, visited, new)
                 /\ after[Len(es)] = new \o visited
                 /\ \A i \in 1 .. Len(es) : es[i] \in path \cup ToSet(new) \cup ToSet(visited)
  BY <1>7
<1>10. ToSet(es) \subseteq path \cup ToSet(new) \cup ToSet(visited)
  <2> HIDE DEF call, B
  <2> QED BY <1>3, <1>9 DEF ToSet
<1> QED BY <1>8, <1>9, <1>10 DEF EdgesExplored

LEMMA ExploreCorrect ==
  ASSUME NEW g, Graph(g)
  PROVE  \A path \in SUBSET DOMAIN g : Correct(g, path)
<1> DEFINE B == DOMAIN g
           N == Len(g)
           Rest(path) == Cardinality(B \ path)
           Good == {n \in Nat : \A path \in SUBSET B : Rest(path) <= n => Correct(g, path)}
<1>1. IsFiniteSet(B) /\ N \in Nat /\ \A path \in SUBSET B : Rest(path) <= N
  BY GraphFinite
<1>2. ASSUME NEW path \in SUBSET B, NEW visited \in Seq(B), NEW node \in B
      PROVE  Explore(g)[path][visited][node] =
               IF node \in ToSet(visited) \cup path
               THEN visited
               ELSE <<node>> \o Fold(Explore(g)[path \cup {node}], visited, OutgoingEdges(g, node))
  <2>1. Explore(g)[path] = Body(g, Explore(g), path)
    BY ExploreBody
  <2> QED BY <2>1 DEF Body
\* A block on the path or visited before is not entered.
<1>3. ASSUME NEW path \in SUBSET B, NEW visited \in Seq(B), NEW node \in ToSet(visited) \cup path,
             node \in B
      PROVE  \E new : Explored(g, path, visited, node, new)
  <2>1. Explore(g)[path][visited][node] = visited
    BY <1>2, <1>3
  <2>2. visited = <<>> \o visited
    OBVIOUS
  <2>3. New(g, path, visited, <<>>)
    BY NothingNew
  <2>4. Explored(g, path, visited, node, <<>>)
    BY <1>3, <2>1, <2>2, <2>3 DEF Explored
  <2> QED BY <2>4
<1>4. 0 \in Good
  <2>1. ASSUME NEW path \in SUBSET B, Rest(path) <= 0
        PROVE  Correct(g, path)
    <3>1. path = B
      BY <1>1, <2>1, Exhausted
    <3> QED BY <1>3, <3>1 DEF Correct
  <2> QED BY <2>1
<1>5. ASSUME NEW n \in 0 .. N, n + 1 \in 0 .. N, n \in Good
      PROVE  n + 1 \in Good
  <2>1. ASSUME NEW path \in SUBSET B, Rest(path) <= n + 1
        PROVE  Correct(g, path)
    <3> SUFFICES ASSUME NEW visited \in Seq(B), NEW node \in B, Entered(g, path, node)
                 PROVE  \E new : Explored(g, path, visited, node, new)
      BY DEF Correct
    <3>1. CASE node \in ToSet(visited) \cup path
      BY <1>3, <3>1
    <3>2. CASE node \notin ToSet(visited) \cup path
      <4> DEFINE longer == path \cup {node}
                 es == OutgoingEdges(g, node)
      <4>1. longer \in SUBSET B /\ Rest(longer) <= n
        BY <1>1, <2>1, <3>2, Shrinks
      <4>2. Correct(g, longer)
        <5> HIDE DEF Rest, longer
        <5> QED BY <1>5, <4>1
      <4>3. es \in Seq(B) /\ ToSet(es) = ToSet(g[node]) \ {node}
        BY EdgesOut
      <4>4. \A e \in ToSet(es) : Entered(g, longer, e)
        BY <4>3, EdgeDominators DEF Entered
      <4>5. PICK new : EdgesExplored(g, longer, visited, es, new)
        <5>1. Exploring(g, longer, visited, es)
          BY <4>1, <4>2, <4>3, <4>4 DEF Exploring
        <5> HIDE DEF longer, es, B
        <5> QED BY <5>1, EdgesCorrect
      <4> USE DEF EdgesExplored
      <4>6. New(g, path, visited, <<node>> \o new)
        BY <3>2, <4>3, <4>5, NewFront DEF Entered
      <4>7. new \in Seq(B)
        BY <4>5 DEF New
      <4>8. Explore(g)[path][visited][node] = (<<node>> \o new) \o visited
        <5>1. Explore(g)[path][visited][node] = <<node>> \o Fold(Explore(g)[longer], visited, es)
          BY <1>2, <3>2
        <5> HIDE DEF longer, es
        <5>2. Explore(g)[path][visited][node] = <<node>> \o (new \o visited)
          BY <4>5, <5>1
        <5>3. <<node>> \in Seq(B) /\ visited \in Seq(B)
          OBVIOUS
        <5> HIDE DEF B
        <5>4. (<<node>> \o new) \o visited = <<node>> \o (new \o visited)
          BY <4>7, <5>3, ConcatAssociative
        <5> QED BY <5>2, <5>4
      <4>9. node \in ToSet(<<node>> \o new)
        <5>1. 1 \in DOMAIN (<<node>> \o new) /\ (<<node>> \o new)[1] = node
          BY <4>7
        <5> QED BY <5>1 DEF ToSet
      <4> QED BY <4>6, <4>8, <4>9 DEF Explored
    <3> QED BY <3>1, <3>2
  <2>2. n + 1 \in Nat
    BY <1>1
  <2> HIDE DEF Rest
  <2> QED BY <2>1, <2>2
<1>6. \A n \in 0 .. N : n \in Good
  <2> HIDE DEF Good, N
  <2> QED BY <1>1, <1>4, <1>5, UpTo
<1>7. N \in Good
  <2> HIDE DEF Good
  <2> QED BY <1>1, <1>6
<1> QED BY <1>1, <1>7

------------------------------------------------------------------------------
(* The order. *)

\* The order holds no block twice, holds the entry, and with a block its
\* successors and, before it, its dominators.
LEMMA OrderFacts ==
  ASSUME NEW g, Graph(g)
  PROVE  /\ Dfs(g) \in Seq(DOMAIN g)
         /\ \A j, k \in DOMAIN Dfs(g) : Dfs(g)[j] = Dfs(g)[k] => j = k
         /\ 1 \in ToSet(Dfs(g))
         /\ \A a \in ToSet(Dfs(g)) : ToSet(g[a]) \subseteq ToSet(Dfs(g))
         /\ \A j \in DOMAIN Dfs(g) : \A d : Dominates(g, d, Dfs(g)[j]) =>
              \E i \in DOMAIN Dfs(g) : i <= j /\ Dfs(g)[i] = d
<1>1. 1 \in DOMAIN g /\ \A d : d # 1 => 1 \in ReachedWithout(g, d)
  BY DEF Graph, ReachedWithout, Closed
<1>2. Entered(g, {}, 1)
  BY <1>1 DEF Entered, Reachable, Dominates
<1>3. Correct(g, {}) /\ <<>> \in Seq(DOMAIN g)
  BY ExploreCorrect
<1>4. PICK new : Explored(g, {}, <<>>, 1, new)
  BY <1>1, <1>2, <1>3 DEF Correct
<1>5. new \in Seq(DOMAIN g) /\ Dfs(g) = new
  <2>1. new \in Seq(DOMAIN g) /\ Dfs(g) = new \o <<>>
    BY <1>4 DEF Explored, New, Dfs
  <2> QED BY <2>1
<1>6. ToSet(<<>>) = {}
  BY DEF ToSet
<1>7. New(g, {}, <<>>, new) /\ 1 \in ToSet(new)
  BY <1>4, <1>6 DEF Explored
<1>8. \A a \in ToSet(new) : \E j \in DOMAIN new : new[j] = a
  BY DEF ToSet
<1>9. \A j \in DOMAIN new : ToSet(g[new[j]]) \subseteq ToSet(new)
  BY <1>6, <1>7 DEF New
<1>10. \A a \in ToSet(new) : ToSet(g[a]) \subseteq ToSet(new)
  BY <1>8, <1>9
<1> QED BY <1>5, <1>7, <1>10 DEF New

\* Everything that can be reached is in the order.
LEMMA ReachableOrdered ==
  ASSUME NEW g, Graph(g)
  PROVE  Reachable(g) \subseteq ToSet(Dfs(g)) /\ ToSet(Dfs(g)) \subseteq DOMAIN g
<1>1. ToSet(Dfs(g)) \subseteq DOMAIN g /\ Dfs(g) \in Seq(DOMAIN g)
  BY OrderFacts DEF ToSet
<1>2. 0 \notin DOMAIN g
  BY DEF Graph
<1>3. Closed(g, 0, ToSet(Dfs(g)))
  BY OrderFacts DEF Closed
<1> QED BY <1>1, <1>2, <1>3 DEF Reachable, ReachedWithout

\* An order as long as the list of blocks holds every block.
LEMMA OrderComplete ==
  ASSUME NEW g, Graph(g)
  PROVE  AllSorted(g) <=> ToSet(Dfs(g)) = DOMAIN g
<1> DEFINE s == Dfs(g)
<1>1. s \in Seq(DOMAIN g) /\ Len(s) \in Nat /\ DOMAIN s = 1 .. Len(s)
  BY OrderFacts
<1>2. IsFiniteSet(DOMAIN g) /\ Cardinality(DOMAIN g) = Len(g)
  BY GraphFinite
<1>3. ExistsBijection(1 .. Len(s), ToSet(s))
  <2>1. \A j, k \in 1 .. Len(s) : s[j] = s[k] => j = k
    BY <1>1, OrderFacts
  <2> HIDE DEF s
  <2>2. s \in [1 .. Len(s) -> ToSet(s)] /\ \A b \in ToSet(s) : \E i \in 1 .. Len(s) : s[i] = b
    BY <1>1 DEF ToSet
  <2>3. s \in Injection(1 .. Len(s), ToSet(s))
    BY <2>1, <2>2 DEF Injection, IsInjective
  <2>4. s \in Surjection(1 .. Len(s), ToSet(s))
    BY <2>2 DEF Surjection
  <2> QED BY <2>3, <2>4 DEF Bijection, ExistsBijection
<1>5. IsFiniteSet(ToSet(s)) /\ Cardinality(ToSet(s)) = Len(s)
  <2> HIDE DEF s
  <2> QED BY <1>1, <1>3, FS_NatBijection, FS_CountingElements
<1>6. ToSet(s) \subseteq DOMAIN g
  BY ReachableOrdered
<1>7. Cardinality(ToSet(s)) = Cardinality(DOMAIN g) => ToSet(s) = DOMAIN g
  BY <1>2, <1>6, FS_Subset
<1> QED BY <1>2, <1>5, <1>7 DEF AllSorted

\* What holds of the machine: the result is that of sort_blocks.
SortInv ==
  /\ Graph(cfg)
  /\ outcome # "start" => sorted = Dfs(cfg)
  /\ outcome = "sorted" => AllSorted(cfg)
  /\ outcome = "failed" => ~AllSorted(cfg)

LEMMA SortInvariance == SortSpec => []SortInv
<1>1. SortInit => SortInv
  <2> SUFFICES ASSUME SortInit PROVE SortInv
    OBVIOUS
  <2>1. PICK n \in 1 .. NumBlocks : cfg \in [1 .. n -> Terminators(2 .. n)]
    BY DEF SortInit
  <2>2. n \in Nat /\ n >= 1 /\ DOMAIN cfg = 1 .. n
    BY <2>1, TerminatorsAssumption
  <2>3. \A b \in 1 .. n : cfg[b] \in Seq(1 .. n)
    <3> TAKE b \in 1 .. n
    <3>1. cfg[b] \in Seq(2 .. n)
      BY <2>1, TerminatorsAssumption
    <3>2. 2 .. n \subseteq 1 .. n
      BY <2>2
    <3> QED BY <3>1, <3>2
  <2>4. cfg \in Seq(Seq(1 .. n))
    BY <2>1, <2>2, <2>3
  <2>5. Graph(cfg)
    BY <2>2, <2>4 DEF Graph
  <2> QED BY <2>5 DEF SortInit, SortInv
<1>2. SortInv /\ [Sort]_sortVars => SortInv'
  BY DEF SortInv, Sort, sortVars
<1> QED BY <1>1, <1>2, PTL DEF SortSpec

\* sort_blocks puts every block after all blocks that dominate it, so a value
\* is defined before its uses are emitted: for every graph.
THEOREM Dominance == SortSpec => []DominatorsFirst
<1>1. SortInv => DominatorsFirst
  <2> SUFFICES ASSUME SortInv, outcome = "sorted", NEW m \in DOMAIN sorted, NEW n \in DOMAIN sorted,
                      Dominates(cfg, sorted[m], sorted[n])
               PROVE  m <= n
    BY DEF DominatorsFirst
  <2>1. Graph(cfg) /\ sorted = Dfs(cfg)
    BY DEF SortInv
  <2>2. PICK i \in DOMAIN sorted : i <= n /\ sorted[i] = sorted[m]
    BY <2>1, OrderFacts
  <2>3. i = m
    BY <2>1, <2>2, OrderFacts
  <2> QED BY <2>2, <2>3
<1> QED BY <1>1, SortInvariance, PTL

\* A result that passes the assertion holds every block once; the assertion
\* only fails when a block cannot be reached.
THEOREM Completeness == SortSpec => []NothingDropped
<1>1. SortInv => NothingDropped
  <2> SUFFICES ASSUME SortInv PROVE NothingDropped
    OBVIOUS
  <2>1. Graph(cfg) /\ (outcome # "start" => sorted = Dfs(cfg))
    BY DEF SortInv
  <2>2. AllSorted(cfg) <=> ToSet(Dfs(cfg)) = DOMAIN cfg
    BY <2>1, OrderComplete
  <2>3. ASSUME outcome = "sorted"
        PROVE  ToSet(sorted) = DOMAIN cfg /\ Len(sorted) = Cardinality(DOMAIN cfg)
    BY <2>1, <2>2, <2>3, GraphFinite DEF SortInv, AllSorted
  <2>4. ASSUME outcome = "failed"
        PROVE  Reachable(cfg) # DOMAIN cfg
    BY <2>1, <2>2, <2>4, ReachableOrdered DEF SortInv
  <2> QED BY <2>3, <2>4 DEF NothingDropped
<1> QED BY <1>1, SortInvariance, PTL

------------------------------------------------------------------------------
(* What is true of the emitted code c, for a function f, its placement pl and *)
(* the registers args of its parameters.                                     *)

Parts(pl) == {pl[v] : v \in DOMAIN pl} \cup OtherPartitions
Calls     == {"exec", "send", "receive", "peek", "send_return", "ret"}

Terminal(i) == i.do = "ret" \/ (i.do = "exec" /\ i.op = "br")

\* What the verifier says of one instruction.
LEMMA VerifiedInstr ==
  ASSUME NEW f, Verified(f), NEW b \in Blocks(f), NEW n \in DOMAIN f.body[b]
  PROVE  /\ ToSet(f.body[b][n].blocks) \subseteq Blocks(f)
         /\ f.body[b][n].op = "phi" => Len(f.body[b][n].blocks) = Len(f.body[b][n].args)
         /\ f.body[b][n].op = "ret" => Len(f.body[b][n].args) <= 1
BY DEF Verified

LEMMA VerifiedBranch ==
  ASSUME NEW f, Verified(f), NEW b \in Blocks(f), NEW n \in DOMAIN f.body[b], f.body[b][n].op = "br"
  PROVE  <<Len(f.body[b][n].args), Len(f.body[b][n].blocks)>> \in {<<0, 1>>, <<1, 2>>}
BY DEF Verified

\* A name is defined in one place.
LEMMA NameUnique ==
  ASSUME NEW f, Verified(f), NEW b \in Blocks(f), NEW n \in DOMAIN f.body[b],
         NEW c \in Blocks(f), NEW m \in DOMAIN f.body[c], f.body[c][m].name = f.body[b][n].name
  PROVE  c = b /\ m = n
BY DEF Verified

\* The order of the items of a row.
RowOK(r) ==
  \A m, n \in DOMAIN r : m < n =>
    /\ r[m].line <= r[n].line
    /\ r[m].do = "exec" \/ (r[m].do = "send_return" /\ IsComm(r[n])) => r[m].line < r[n].line
    /\ ~Terminal(r[m])
    /\ IsComm(r[m]) /\ IsComm(r[n]) => r[m].at < r[n].at
    /\ r[n].do = "peek" => r[m].do = "peek"

\* The other side of a communication of partition p.
Partner(i, j, p) ==
  j.at = i.at /\ j.line = i.line /\ j.peer = p /\ {i.do, j.do} = {"send", "receive"}

\* Register r holds value v on partition p when instruction n of block b is executed.
Gives(f, pl, args, c, p, b, n, r, v) ==
  \/ v \in ToSet(f.args) /\ <<p, v>> \in DOMAIN args /\ r = args[<<p, v>>]
  \/ /\ v \notin ToSet(f.args) /\ r = Value(v)
     /\ v \in DOMAIN f.consts \/ v \in Allocas(f) \/ (v \in DOMAIN pl /\ pl[v] = p)
  \/ \E i \in ToSet(c[p][b]) :
       /\ i.do = "receive" /\ i.val = r /\ i.line = n
       /\ \E j \in ToSet(c[i.peer][b]) : Partner(i, j, p) /\ j.val = Value(v)

ExecOK(f, pl, args, c, p, b, i) ==
  LET j == f.body[b][i.line]
  IN  /\ i.op = j.op /\ i.val = Value(j.name) /\ i.blocks = j.blocks
      /\ i.op \notin {"alloca", "ret"}
      /\ i.op # "br" => pl[j.name] = p
      /\ DOMAIN i.args = DOMAIN j.args \/ (i.op = "phi" /\ i.args = <<>>)
      /\ \A k \in DOMAIN i.args :
           IF i.op = "phi"
           THEN Gives(f, pl, args, c, p, j.blocks[k], Len(f.body[j.blocks[k]]), i.args[k], j.args[k])
           ELSE Gives(f, pl, args, c, p, b, i.line, i.args[k], j.args[k])

CommOK(f, pl, c, p, b, i) ==
  /\ f.body[b][i.line].op # "phi"
  /\ i.at \in Nat /\ i.peer \in DOMAIN c /\ i.peer # p
  /\ \E j \in ToSet(c[i.peer][b]) : Partner(i, j, p)
  /\ i.do = "receive" => i.val = Received(i.at)
  /\ i.do = "send" => \E v \in DOMAIN pl : i.val = Value(v) /\ pl[v] = p

PeekOK(f, args, p, b, i) ==
  /\ b = 1 /\ i.line = 1 /\ i.at \in Nat /\ i.val = Argument(i.at)
  /\ \E v \in ToSet(f.args) : <<p, v>> \in DOMAIN args /\ args[<<p, v>>] = i.val

ReturnOK(f, pl, args, c, p, b, i) ==
  LET t == Last(f.body[b])
  IN  /\ i.line = Len(f.body[b]) /\ t.op = "ret"
      /\ i.do = "send_return" => /\ t.args # <<>> /\ pl[t.name] = p
                                 /\ Gives(f, pl, args, c, p, b, i.line, i.val, t.args[1])

ItemOK(f, pl, args, c, p, b, i) ==
  /\ i.do \in Calls
  /\ i.line \in DOMAIN f.body[b]
  /\ i.do # "exec" => i.op = "none" /\ i.args = <<>>
  /\ i.do = "exec" => ExecOK(f, pl, args, c, p, b, i)
  /\ IsComm(i) => CommOK(f, pl, c, p, b, i)
  /\ i.do = "peek" => PeekOK(f, args, p, b, i)
  /\ i.do \in {"send_return", "ret"} => ReturnOK(f, pl, args, c, p, b, i)

ItemsOK(f, pl, args, c) ==
  \A p \in DOMAIN c : \A b \in Blocks(f) : \A i \in ToSet(c[p][b]) : ItemOK(f, pl, args, c, p, b, i)

\* An address is used by one row on each side.
Owned(f, c) ==
  \A p, q \in DOMAIN c : \A a, b \in Blocks(f) : \A i \in ToSet(c[p][a]), j \in ToSet(c[q][b]) :
    IsComm(i) /\ IsComm(j) /\ i.do = j.do /\ i.at = j.at => p = q /\ a = b

\* The arguments partitions receive, each at an address of its own.
ArgsOK(f, args, c) ==
  \A d \in DOMAIN args :
    /\ d[1] \in DOMAIN c /\ d[2] \in ToSet(f.args) /\ d = <<d[1], d[2]>>
    /\ \E x \in Nat : args[d] = Argument(x)
    /\ \E i \in ToSet(c[d[1]][1]) : i.do = "peek" /\ i.val = args[d]
    /\ \A e \in DOMAIN args : args[d] = args[e] => d = e
    /\ \A p \in DOMAIN c : \A b \in Blocks(f) : \A i \in ToSet(c[p][b]) :
         IsComm(i) => args[d] # Argument(i.at)

\* Every instruction has its copy on its partition, with its operands, and
\* every row comes to its end.
Complete(f, pl, c) ==
  /\ \A p \in DOMAIN c : \A b \in Blocks(f) : Len(c[p][b]) > 0 /\ Terminal(Last(c[p][b]))
  /\ \A b \in Blocks(f) : \A k \in DOMAIN f.body[b] :
       LET j == f.body[b][k]
       IN  j.op \notin {"alloca", "ret", "br"} =>
             \E i \in ToSet(c[pl[j.name]][b]) :
               i.do = "exec" /\ i.line = k /\ DOMAIN i.args = DOMAIN j.args

RowsTyped(f, pl, c) ==
  /\ DOMAIN c = Parts(pl)
  /\ \A p \in DOMAIN c : /\ DOMAIN c[p] = Blocks(f)
                         /\ \A b \in Blocks(f) : Len(c[p][b]) \in Nat /\ DOMAIN c[p][b] = 1 .. Len(c[p][b])

CodeOK(f, pl, args, c) ==
  /\ RowsTyped(f, pl, c)
  /\ \A p \in DOMAIN c : \A b \in Blocks(f) : RowOK(c[p][b])
  /\ ItemsOK(f, pl, args, c)
  /\ Owned(f, c)
  /\ ArgsOK(f, args, c)
  /\ Complete(f, pl, c)

\* The addresses that the call sets up are all there is.
InRange(f, args, c, ids) ==
  /\ \A p \in DOMAIN c : \A b \in Blocks(f) : \A i \in ToSet(c[p][b]) : IsComm(i) => i.at \in ids
  /\ \A d \in DOMAIN args : \A x : args[d] = Argument(x) => x \in ids

------------------------------------------------------------------------------
(* The invariant.  Its parts are about a function f, its placement pl and   *)
(* a state s of a visit, so that they can be stated of the states between  *)
(* two of its operations.                                                  *)

Registers == {Value(v) : v \in STRING} \cup {Received(id) : id \in Nat} \cup {Argument(id) : id \in Nat}

Items == [do : Calls, val : Registers \cup {NoRegister}, at : Nat, peer : Nat, line : Nat,
          op : Opcodes \cup {"none"}, args : Seq(Registers), blocks : Seq(Nat)]

Rows(f, pl) == [Parts(pl) -> [Blocks(f) -> Seq(Items)]]

FieldNames == {"code", "argReg", "launched", "host", "commsId", "regs"}
Fields(s)  == DOMAIN s = FieldNames /\ s = [x \in FieldNames |-> s[x]]

Good(f, pl, s) ==
  /\ Fields(s)
  /\ s.code \in Rows(f, pl) /\ s.commsId \in Nat /\ s.launched \subseteq Parts(pl)
  /\ \A p \in Parts(pl) : \A b \in Blocks(f) : RowOK(s.code[p][b])
  /\ ItemsOK(f, pl, s.argReg, s.code)
  /\ Owned(f, s.code)
  /\ ArgsOK(f, s.argReg, s.code)
  /\ InRange(f, s.argReg, s.code, 0 .. s.commsId - 1)

\* The host sends the arguments that partitions receive.
Hosted(s) ==
  /\ s.host \in Seq([do : {"send_argument"}, val : Registers, at : Nat, peer : Nat, line : Nat,
                     op : {"none"}, args : {<<>>}, blocks : {<<>>}])
  /\ \A n \in DOMAIN s.host :
       \E d \in DOMAIN s.argReg : s.argReg[d] = Argument(s.host[n].at) /\ s.host[n].val = Value(d[2])

------------------------------------------------------------------------------
(* A step adds items, or gives a phi its operands; the rest is kept.        *)

Keeps(a, c, d, e) ==
  /\ \A x \in DOMAIN a : x \in DOMAIN d /\ d[x] = a[x]
  /\ DOMAIN e = DOMAIN c
  /\ \A p \in DOMAIN c : /\ DOMAIN e[p] = DOMAIN c[p]
                         /\ \A b \in DOMAIN c[p] : \A i \in ToSet(c[p][b]) :
                              i.do # "exec" => i \in ToSet(e[p][b])

LEMMA GivesKept ==
  ASSUME NEW f, NEW pl, NEW a, NEW c, NEW d, NEW e, Keeps(a, c, d, e),
         NEW p \in DOMAIN c, NEW b \in DOMAIN c[p], NEW n, NEW r, NEW v,
         Gives(f, pl, a, c, p, b, n, r, v),
         \A i \in ToSet(c[p][b]) : i.do = "receive" => i.peer \in DOMAIN c /\ b \in DOMAIN c[i.peer]
  PROVE  Gives(f, pl, d, e, p, b, n, r, v)
<1>1. CASE v \in ToSet(f.args) /\ <<p, v>> \in DOMAIN a /\ r = a[<<p, v>>]
  BY <1>1 DEF Keeps, Gives
<1>2. CASE /\ v \notin ToSet(f.args) /\ r = Value(v)
           /\ v \in DOMAIN f.consts \/ v \in Allocas(f) \/ (v \in DOMAIN pl /\ pl[v] = p)
  BY <1>2 DEF Gives
<1>3. CASE \E i \in ToSet(c[p][b]) :
             /\ i.do = "receive" /\ i.val = r /\ i.line = n
             /\ \E j \in ToSet(c[i.peer][b]) : Partner(i, j, p) /\ j.val = Value(v)
  <2>1. PICK i \in ToSet(c[p][b]) :
             /\ i.do = "receive" /\ i.val = r /\ i.line = n
             /\ \E j \in ToSet(c[i.peer][b]) : Partner(i, j, p) /\ j.val = Value(v)
    BY <1>3
  <2>2. PICK j \in ToSet(c[i.peer][b]) : Partner(i, j, p) /\ j.val = Value(v)
    BY <2>1
  <2>3. i \in ToSet(e[p][b])
    BY <2>1 DEF Keeps
  <2>4. j.do # "exec"
    BY <2>1, <2>2 DEF Partner
  <2>5. j \in ToSet(e[i.peer][b])
    BY <2>1, <2>4 DEF Keeps
  <2> QED BY <2>1, <2>2, <2>3, <2>5 DEF Gives
<1> QED BY <1>1, <1>2, <1>3 DEF Gives

\* Communications have their other side in the code.
Peered(c) ==
  \A p \in DOMAIN c : \A b \in DOMAIN c[p] : \A i \in ToSet(c[p][b]) :
    IsComm(i) => i.peer \in DOMAIN c /\ b \in DOMAIN c[i.peer]

LEMMA ItemKept ==
  ASSUME NEW f, NEW pl, NEW a, NEW c, NEW d, NEW e, Keeps(a, c, d, e), Peered(c),
         \A q \in DOMAIN c : DOMAIN c[q] = Blocks(f), Verified(f),
         NEW p \in DOMAIN c, NEW b \in DOMAIN c[p], NEW i, ItemOK(f, pl, a, c, p, b, i)
  PROVE  ItemOK(f, pl, d, e, p, b, i)
<1>1. /\ i.do \in Calls /\ i.line \in DOMAIN f.body[b]
      /\ i.do # "exec" => i.op = "none" /\ i.args = <<>>
  BY DEF ItemOK
<1>2. ASSUME NEW x \in DOMAIN c[p], NEW n, NEW r, NEW v, Gives(f, pl, a, c, p, x, n, r, v)
      PROVE  Gives(f, pl, d, e, p, x, n, r, v)
  <2>1. \A k \in ToSet(c[p][x]) : k.do = "receive" => k.peer \in DOMAIN c /\ x \in DOMAIN c[k.peer]
    BY DEF Peered, IsComm
  <2> QED BY <1>2, <2>1, GivesKept
<1>3. ASSUME i.do = "exec" PROVE ExecOK(f, pl, d, e, p, b, i)
  <2> DEFINE j == f.body[b][i.line]
  <2>1. ExecOK(f, pl, a, c, p, b, i)
    BY <1>3 DEF ItemOK
  <2>2. /\ i.op = j.op /\ i.val = Value(j.name) /\ i.blocks = j.blocks
        /\ i.op \notin {"alloca", "ret"}
        /\ i.op # "br" => pl[j.name] = p
        /\ DOMAIN i.args = DOMAIN j.args \/ (i.op = "phi" /\ i.args = <<>>)
    BY <2>1 DEF ExecOK
  <2>3. ASSUME NEW k \in DOMAIN i.args
        PROVE  IF i.op = "phi"
               THEN Gives(f, pl, d, e, p, j.blocks[k], Len(f.body[j.blocks[k]]), i.args[k], j.args[k])
               ELSE Gives(f, pl, d, e, p, b, i.line, i.args[k], j.args[k])
    <3>1. CASE i.op # "phi"
      BY <1>2, <2>1, <3>1 DEF ExecOK
    <3>2. CASE i.op = "phi"
      <4>1. Gives(f, pl, a, c, p, j.blocks[k], Len(f.body[j.blocks[k]]), i.args[k], j.args[k])
        BY <2>1, <3>2 DEF ExecOK
      <4>2. j.blocks[k] \in DOMAIN c[p]
        <5>1. /\ Len(j.blocks) = Len(j.args) /\ ToSet(j.blocks) \subseteq Blocks(f)
              /\ j.args \in Seq(STRING) /\ j.blocks \in Seq(Nat)
          <6>0. b \in Blocks(f) /\ i.line \in DOMAIN f.body[b] /\ j.op = "phi"
            BY <1>1, <2>2, <3>2
          <6>1. Len(j.blocks) = Len(j.args) /\ ToSet(j.blocks) \subseteq Blocks(f)
            BY <6>0, <1>1, VerifiedInstr
          <6>2. f.body \in Seq(Seq(Instruction))
            BY DEF Verified
          <6>3. f.body[b] \in Seq(Instruction)
            BY <6>0, <6>2 DEF Blocks
          <6>4. j \in Instruction
            BY <6>0, <6>3
          <6> HIDE DEF j
          <6> QED BY <6>1, <6>4 DEF Instruction
        <5>2. k \in DOMAIN j.args
          <6>1. i.args # <<>>
            BY <2>3
          <6> QED BY <2>2, <6>1
        <5> HIDE DEF j
        <5>3. k \in DOMAIN j.blocks
          BY <5>1, <5>2
        <5>4. j.blocks[k] \in ToSet(j.blocks)
          BY <5>3 DEF ToSet
        <5> QED BY <5>1, <5>4
      <4> HIDE DEF j
      <4> QED BY <1>2, <3>2, <4>1, <4>2
    <3> QED BY <3>1, <3>2
  <2> QED BY <2>2, <2>3 DEF ExecOK
<1>4. ASSUME IsComm(i) PROVE CommOK(f, pl, e, p, b, i)
  <2>1. CommOK(f, pl, c, p, b, i)
    BY <1>4 DEF ItemOK
  <2>2. PICK j \in ToSet(c[i.peer][b]) : Partner(i, j, p)
    BY <2>1 DEF CommOK
  <2>3. j.do # "exec"
    BY <2>2 DEF Partner
  <2>4. i.peer \in DOMAIN c /\ b \in DOMAIN c[i.peer]
    BY <2>1 DEF CommOK
  <2>5. j \in ToSet(e[i.peer][b])
    BY <2>3, <2>4 DEF Keeps
  <2>6. DOMAIN e = DOMAIN c
    BY DEF Keeps
  <2> QED BY <2>1, <2>2, <2>5, <2>6 DEF CommOK
<1>5. ASSUME i.do = "peek" PROVE PeekOK(f, d, p, b, i)
  <2>1. PeekOK(f, a, p, b, i)
    BY <1>5 DEF ItemOK
  <2> QED BY <2>1 DEF PeekOK, Keeps
<1>6. ASSUME i.do \in {"send_return", "ret"} PROVE ReturnOK(f, pl, d, e, p, b, i)
  <2>1. ReturnOK(f, pl, a, c, p, b, i)
    BY <1>6 DEF ItemOK
  <2> QED BY <1>2, <2>1 DEF ReturnOK
<1> QED BY <1>1, <1>3, <1>4, <1>5, <1>6 DEF ItemOK

LEMMA RegistersDiffer ==
  /\ \A x, y : (Argument(x) = Argument(y) <=> x = y) /\ (Received(x) = Received(y) <=> x = y)
               /\ (Value(x) = Value(y) <=> x = y)
  /\ \A x, y : Argument(x) # Received(y) /\ Argument(x) # Value(y) /\ Received(x) # Value(y)
BY DEF Argument, Received, Value

\* What holds of the items of a good state.
LEMMA GoodRows ==
  ASSUME NEW f, NEW pl, NEW s, Good(f, pl, s)
  PROVE  /\ DOMAIN s.code = Parts(pl)
         /\ \A p \in Parts(pl) : /\ DOMAIN s.code[p] = Blocks(f)
                                 /\ \A b \in Blocks(f) : s.code[p][b] \in Seq(Items)
         /\ Peered(s.code)
         /\ \A p \in Parts(pl) : \A b \in Blocks(f) : \A i \in ToSet(s.code[p][b]) :
              /\ ItemOK(f, pl, s.argReg, s.code, p, b, i)
              /\ IsComm(i) => i.at < s.commsId
<1>1. /\ DOMAIN s.code = Parts(pl)
      /\ \A p \in Parts(pl) : /\ DOMAIN s.code[p] = Blocks(f)
                              /\ \A b \in Blocks(f) : s.code[p][b] \in Seq(Items)
  BY DEF Good, Rows
<1>2. \A p \in Parts(pl) : \A b \in Blocks(f) : \A i \in ToSet(s.code[p][b]) :
        ItemOK(f, pl, s.argReg, s.code, p, b, i)
  BY <1>1 DEF Good, ItemsOK
<1>3. Peered(s.code)
  BY <1>1, <1>2 DEF Peered, ItemOK, CommOK
<1>4. \A p \in Parts(pl) : \A b \in Blocks(f) : \A i \in ToSet(s.code[p][b]) :
        IsComm(i) => i.at \in 0 .. s.commsId - 1
  BY <1>1 DEF Good, InRange
<1>5. \A p \in Parts(pl) : \A b \in Blocks(f) : \A i \in ToSet(s.code[p][b]) :
        IsComm(i) => i.at < s.commsId
  BY <1>4 DEF Good
<1> QED BY <1>1, <1>2, <1>3, <1>5

\* Item i is in the code of t but not in that of s.
Added(s, t, p, b, i) == i \in ToSet(t.code[p][b]) /\ i \notin ToSet(s.code[p][b])

NewItem(f, pl, s, t, p, b, i) ==
  /\ ItemOK(f, pl, t.argReg, t.code, p, b, i)
  /\ IsComm(i) => i.at = s.commsId /\ s.commsId < t.commsId

\* The first use of a parameter; no communication is added with it.
NewArgument(f, pl, s, t, d) ==
  /\ d[1] \in Parts(pl) /\ d[2] \in ToSet(f.args) /\ d = <<d[1], d[2]>>
  /\ t.argReg[d] = Argument(s.commsId) /\ s.commsId < t.commsId
  /\ \E i \in ToSet(t.code[d[1]][1]) : i.do = "peek" /\ i.val = t.argReg[d]
  /\ \A e \in DOMAIN t.argReg : e \in DOMAIN s.argReg \/ e = d
  /\ \A p \in Parts(pl) : \A b \in Blocks(f) : \A i : Added(s, t, p, b, i) => ~IsComm(i)

Continues(f, pl, s, t) ==
  /\ Fields(t) /\ t.code \in Rows(f, pl) /\ t.commsId \in Nat /\ s.commsId <= t.commsId
  /\ t.launched \subseteq Parts(pl)
  /\ Keeps(s.argReg, s.code, t.argReg, t.code)
  /\ \A p \in Parts(pl) : \A b \in Blocks(f) : RowOK(t.code[p][b])
  /\ \A p \in Parts(pl) : \A b \in Blocks(f) : \A i : Added(s, t, p, b, i) => NewItem(f, pl, s, t, p, b, i)
  /\ \A p, q \in Parts(pl) : \A a, b \in Blocks(f) : \A i, j :
       Added(s, t, p, a, i) /\ Added(s, t, q, b, j) /\ IsComm(i) /\ IsComm(j) /\ i.do = j.do =>
         p = q /\ a = b
  /\ \A d \in DOMAIN t.argReg : d \in DOMAIN s.argReg \/ NewArgument(f, pl, s, t, d)

LEMMA ContinuesItems ==
  ASSUME NEW f, NEW pl, NEW s, NEW t, Verified(f), Good(f, pl, s), Continues(f, pl, s, t)
  PROVE  /\ DOMAIN t.code = Parts(pl)
         /\ \A p \in Parts(pl) : DOMAIN t.code[p] = Blocks(f)
         /\ ItemsOK(f, pl, t.argReg, t.code)
         /\ \A p \in Parts(pl) : \A b \in Blocks(f) : \A i \in ToSet(t.code[p][b]) :
              IsComm(i) => \/ i \in ToSet(s.code[p][b]) /\ i.at < s.commsId
                           \/ Added(s, t, p, b, i) /\ i.at = s.commsId /\ s.commsId < t.commsId
<1>1. /\ DOMAIN s.code = Parts(pl) /\ Peered(s.code)
      /\ \A p \in Parts(pl) : DOMAIN s.code[p] = Blocks(f)
      /\ \A p \in Parts(pl) : \A b \in Blocks(f) : \A i \in ToSet(s.code[p][b]) :
           /\ ItemOK(f, pl, s.argReg, s.code, p, b, i)
           /\ IsComm(i) => i.at < s.commsId
  BY GoodRows
<1>2. DOMAIN t.code = Parts(pl) /\ \A p \in Parts(pl) : DOMAIN t.code[p] = Blocks(f)
  BY DEF Continues, Rows
<1>3. Keeps(s.argReg, s.code, t.argReg, t.code)
  BY DEF Continues
<1>4. ASSUME NEW p \in Parts(pl), NEW b \in Blocks(f), NEW i \in ToSet(t.code[p][b])
      PROVE  /\ ItemOK(f, pl, t.argReg, t.code, p, b, i)
             /\ IsComm(i) => \/ i \in ToSet(s.code[p][b]) /\ i.at < s.commsId
                             \/ Added(s, t, p, b, i) /\ i.at = s.commsId /\ s.commsId < t.commsId
  <2>1. CASE i \in ToSet(s.code[p][b])
    <3>1. ItemOK(f, pl, s.argReg, s.code, p, b, i)
      BY <1>1, <2>1
    <3>2. p \in DOMAIN s.code /\ b \in DOMAIN s.code[p]
      BY <1>1
    <3>3. ItemOK(f, pl, t.argReg, t.code, p, b, i)
      BY <1>1, <1>3, <3>1, <3>2, ItemKept
    <3> QED BY <1>1, <2>1, <3>3
  <2>2. CASE i \notin ToSet(s.code[p][b])
    <3>1. Added(s, t, p, b, i)
      BY <2>2 DEF Added
    <3>2. NewItem(f, pl, s, t, p, b, i)
      BY <3>1 DEF Continues
    <3> QED BY <3>1, <3>2 DEF NewItem
  <2> QED BY <2>1, <2>2
<1>5. ItemsOK(f, pl, t.argReg, t.code)
  <2>1. \A p \in Parts(pl) : \A b \in Blocks(f) : \A i \in ToSet(t.code[p][b]) :
          ItemOK(f, pl, t.argReg, t.code, p, b, i)
    BY <1>4
  <2> QED BY <1>2, <2>1 DEF ItemsOK
<1>6. \A p \in Parts(pl) : \A b \in Blocks(f) : \A i \in ToSet(t.code[p][b]) :
        IsComm(i) => \/ i \in ToSet(s.code[p][b]) /\ i.at < s.commsId
                     \/ Added(s, t, p, b, i) /\ i.at = s.commsId /\ s.commsId < t.commsId
  BY <1>4
<1> QED BY <1>2, <1>5, <1>6

LEMMA ContinuesOwned ==
  ASSUME NEW f, NEW pl, NEW s, NEW t, Verified(f), Good(f, pl, s), Continues(f, pl, s, t)
  PROVE  Owned(f, t.code)
<1>1. DOMAIN t.code = Parts(pl) /\ DOMAIN s.code = Parts(pl) /\ Owned(f, s.code) /\ s.commsId \in Nat
  BY ContinuesItems, GoodRows DEF Good
<1> SUFFICES ASSUME NEW p \in Parts(pl), NEW q \in Parts(pl), NEW a \in Blocks(f), NEW b \in Blocks(f),
                    NEW i \in ToSet(t.code[p][a]), NEW j \in ToSet(t.code[q][b]),
                    IsComm(i), IsComm(j), i.do = j.do, i.at = j.at
             PROVE  p = q /\ a = b
  BY <1>1 DEF Owned
<1>2. \/ i \in ToSet(s.code[p][a]) /\ i.at < s.commsId
      \/ Added(s, t, p, a, i) /\ i.at = s.commsId
  BY ContinuesItems
<1>3. \/ j \in ToSet(s.code[q][b]) /\ j.at < s.commsId
      \/ Added(s, t, q, b, j) /\ j.at = s.commsId
  BY ContinuesItems
<1>4. CASE i \in ToSet(s.code[p][a]) /\ i.at < s.commsId
  <2>1. j \in ToSet(s.code[q][b])
    BY <1>1, <1>3, <1>4
  <2> QED BY <1>1, <1>4, <2>1 DEF Owned
<1>5. CASE Added(s, t, p, a, i) /\ i.at = s.commsId
  <2>1. Added(s, t, q, b, j)
    BY <1>1, <1>3, <1>5
  <2> QED BY <1>5, <2>1 DEF Continues
<1> QED BY <1>2, <1>4, <1>5

LEMMA ContinuesArgs ==
  ASSUME NEW f, NEW pl, NEW s, NEW t, Verified(f), Good(f, pl, s), Continues(f, pl, s, t)
  PROVE  ArgsOK(f, t.argReg, t.code) /\ InRange(f, t.argReg, t.code, 0 .. t.commsId - 1)
<1>1. /\ DOMAIN t.code = Parts(pl) /\ DOMAIN s.code = Parts(pl) /\ 1 \in Blocks(f)
      /\ \A p \in Parts(pl) : DOMAIN s.code[p] = Blocks(f)
      /\ ArgsOK(f, s.argReg, s.code) /\ InRange(f, s.argReg, s.code, 0 .. s.commsId - 1)
      /\ s.commsId \in Nat /\ t.commsId \in Nat /\ s.commsId <= t.commsId
  <2>1. f.body \in Seq(Seq(Instruction)) /\ f.body # <<>>
    BY DEF Verified
  <2>2. 1 \in Blocks(f)
    BY <2>1 DEF Blocks
  <2>3. DOMAIN s.code = Parts(pl) /\ \A p \in Parts(pl) : DOMAIN s.code[p] = Blocks(f)
    BY GoodRows
  <2>4. DOMAIN t.code = Parts(pl)
    BY DEF Continues, Rows
  <2>5. ArgsOK(f, s.argReg, s.code) /\ InRange(f, s.argReg, s.code, 0 .. s.commsId - 1) /\ s.commsId \in Nat
    BY DEF Good
  <2>6. t.commsId \in Nat /\ s.commsId <= t.commsId
    BY DEF Continues
  <2> QED BY <2>2, <2>3, <2>4, <2>5, <2>6
<1>2. /\ \A d \in DOMAIN s.argReg : d \in DOMAIN t.argReg /\ t.argReg[d] = s.argReg[d]
      /\ \A p \in Parts(pl) : \A b \in Blocks(f) : \A i \in ToSet(s.code[p][b]) :
           i.do # "exec" => i \in ToSet(t.code[p][b])
  BY <1>1 DEF Continues, Keeps
<1>3. ASSUME NEW d \in DOMAIN s.argReg
      PROVE  \E x \in 0 .. s.commsId - 1 : s.argReg[d] = Argument(x)
  <2>1. PICK x \in Nat : s.argReg[d] = Argument(x)
    BY DEF ArgsOK, Good
  <2>2. x \in 0 .. s.commsId - 1
    BY <1>1, <2>1 DEF InRange
  <2> QED BY <2>1, <2>2
<1>4. \A d \in DOMAIN t.argReg : \/ d \in DOMAIN s.argReg /\ t.argReg[d] = s.argReg[d]
                                 \/ NewArgument(f, pl, s, t, d)
  BY <1>2 DEF Continues
<1>5. ASSUME NEW d \in DOMAIN t.argReg
      PROVE  \E x \in 0 .. t.commsId - 1 : t.argReg[d] = Argument(x)
  <2>1. CASE d \in DOMAIN s.argReg
    <3>1. PICK x \in 0 .. s.commsId - 1 : s.argReg[d] = Argument(x)
      BY <1>3, <2>1
    <3>2. x \in 0 .. t.commsId - 1
      BY <1>1
    <3> QED BY <1>2, <2>1, <3>1, <3>2
  <2>2. CASE NewArgument(f, pl, s, t, d)
    <3>1. t.argReg[d] = Argument(s.commsId) /\ s.commsId < t.commsId
      BY <2>2 DEF NewArgument
    <3>2. s.commsId \in 0 .. t.commsId - 1
      BY <1>1, <3>1
    <3> QED BY <3>1, <3>2
  <2> QED BY <1>4, <2>1, <2>2
<1>6. ASSUME NEW d \in DOMAIN t.argReg, NEW e \in DOMAIN t.argReg, t.argReg[d] = t.argReg[e]
      PROVE  d = e
  <2>1. CASE d \in DOMAIN s.argReg /\ e \in DOMAIN s.argReg
    BY <1>1, <1>2, <1>6, <2>1 DEF ArgsOK
  <2>2. ASSUME NEW x \in DOMAIN s.argReg, NEW y \in DOMAIN t.argReg, NewArgument(f, pl, s, t, y),
               t.argReg[x] = t.argReg[y]
        PROVE  FALSE
    <3>1. PICK z \in 0 .. s.commsId - 1 : s.argReg[x] = Argument(z)
      BY <1>3
    <3>2. t.argReg[y] = Argument(s.commsId) /\ t.argReg[x] = Argument(z)
      BY <1>2, <2>2, <3>1 DEF NewArgument
    <3>3. z = s.commsId
      BY <2>2, <3>2, RegistersDiffer
    <3> QED BY <1>1, <3>3
  <2>3. CASE d \in DOMAIN s.argReg /\ NewArgument(f, pl, s, t, e)
    BY <1>6, <2>2, <2>3
  <2>4. CASE e \in DOMAIN s.argReg /\ NewArgument(f, pl, s, t, d)
    BY <1>6, <2>2, <2>4
  <2>5. CASE e \notin DOMAIN s.argReg /\ NewArgument(f, pl, s, t, d)
    BY <2>5 DEF NewArgument
  <2> QED BY <1>4, <2>1, <2>3, <2>4, <2>5
<1>7. ASSUME NEW d \in DOMAIN t.argReg, NEW p \in Parts(pl), NEW b \in Blocks(f),
             NEW i \in ToSet(t.code[p][b]), IsComm(i)
      PROVE  t.argReg[d] # Argument(i.at)
  <2>1. \/ i \in ToSet(s.code[p][b]) /\ i.at < s.commsId
        \/ Added(s, t, p, b, i) /\ i.at = s.commsId
    BY <1>7, ContinuesItems
  <2>2. CASE d \in DOMAIN s.argReg /\ i \in ToSet(s.code[p][b])
    BY <1>1, <1>2, <1>7, <2>2 DEF ArgsOK
  <2>3. CASE d \in DOMAIN s.argReg /\ i.at = s.commsId
    <3>1. PICK z \in 0 .. s.commsId - 1 : s.argReg[d] = Argument(z)
      BY <1>3, <2>3
    <3>2. z # i.at
      BY <1>1, <2>3
    <3> QED BY <1>2, <2>3, <3>1, <3>2, RegistersDiffer
  <2>4. CASE NewArgument(f, pl, s, t, d)
    <3>1. i.at < s.commsId
      BY <1>7, <2>1, <2>4 DEF NewArgument
    <3>2. t.argReg[d] = Argument(s.commsId)
      BY <2>4 DEF NewArgument
    <3>3. s.commsId # i.at
      <4>1. ~(s.commsId < s.commsId)
        BY <1>1
      <4> QED BY <3>1, <4>1
    <3> QED BY <3>2, <3>3, RegistersDiffer
  <2> QED BY <1>4, <2>1, <2>2, <2>3, <2>4
<1>8. ASSUME NEW d \in DOMAIN t.argReg
      PROVE  /\ d[1] \in Parts(pl) /\ d[2] \in ToSet(f.args) /\ d = <<d[1], d[2]>>
             /\ \E i \in ToSet(t.code[d[1]][1]) : i.do = "peek" /\ i.val = t.argReg[d]
  <2>1. CASE d \in DOMAIN s.argReg
    <3>1. /\ d[1] \in Parts(pl) /\ d[2] \in ToSet(f.args) /\ d = <<d[1], d[2]>>
          /\ \E i \in ToSet(s.code[d[1]][1]) : i.do = "peek" /\ i.val = s.argReg[d]
      BY <1>1, <2>1 DEF ArgsOK
    <3>2. PICK i \in ToSet(s.code[d[1]][1]) : i.do = "peek" /\ i.val = s.argReg[d]
      BY <3>1
    <3>3. i \in ToSet(t.code[d[1]][1])
      BY <1>1, <1>2, <3>1, <3>2
    <3> QED BY <1>2, <2>1, <3>1, <3>2, <3>3
  <2>2. CASE NewArgument(f, pl, s, t, d)
    BY <2>2 DEF NewArgument
  <2> QED BY <1>4, <2>1, <2>2
<1>9. ArgsOK(f, t.argReg, t.code)
  <2>1. \A d \in DOMAIN t.argReg : \E x \in Nat : t.argReg[d] = Argument(x)
    BY <1>5
  <2> QED BY <1>1, <1>6, <1>7, <1>8, <2>1 DEF ArgsOK
<1>10. InRange(f, t.argReg, t.code, 0 .. t.commsId - 1)
  <2>1. ASSUME NEW p \in Parts(pl), NEW b \in Blocks(f), NEW i \in ToSet(t.code[p][b]), IsComm(i)
        PROVE  i.at \in 0 .. t.commsId - 1
    <3>1. \/ i \in ToSet(s.code[p][b]) /\ i.at < s.commsId
          \/ i.at = s.commsId /\ s.commsId < t.commsId
      BY <2>1, ContinuesItems
    <3>2. CASE i \in ToSet(s.code[p][b])
      <4>1. i.at \in 0 .. s.commsId - 1
        BY <1>1, <2>1, <3>2 DEF InRange
      <4> QED BY <1>1, <4>1
    <3>3. CASE i.at = s.commsId /\ s.commsId < t.commsId
      BY <1>1, <3>3
    <3> QED BY <3>1, <3>2, <3>3
  <2>2. ASSUME NEW d \in DOMAIN t.argReg, NEW x, t.argReg[d] = Argument(x)
        PROVE  x \in 0 .. t.commsId - 1
    BY <1>5, <2>2, RegistersDiffer
  <2> QED BY <1>1, <2>1, <2>2 DEF InRange
<1> QED BY <1>9, <1>10

LEMMA ContinuesGood ==
  ASSUME NEW f, NEW pl, NEW s, NEW t, Verified(f), Good(f, pl, s), Continues(f, pl, s, t)
  PROVE  Good(f, pl, t)
<1>1. ItemsOK(f, pl, t.argReg, t.code)
  BY ContinuesItems
<1>2. Owned(f, t.code)
  BY ContinuesOwned
<1>3. ArgsOK(f, t.argReg, t.code) /\ InRange(f, t.argReg, t.code, 0 .. t.commsId - 1)
  BY ContinuesArgs
<1> QED BY <1>1, <1>2, <1>3 DEF Good, Continues

------------------------------------------------------------------------------
(* Rows: the items of one partition in one block. *)

\* Item i may follow those of row r.
Room(r, i) ==
  \A j \in ToSet(r) :
    /\ j.line <= i.line
    /\ j.do = "exec" \/ (j.do = "send_return" /\ IsComm(i)) => j.line < i.line
    /\ ~Terminal(j)
    /\ IsComm(j) /\ IsComm(i) => j.at < i.at

LEMMA AppendRow ==
  ASSUME NEW r \in Seq(Items), NEW i \in Items, i.do # "peek", RowOK(r), Room(r, i)
  PROVE  /\ Append(r, i) \in Seq(Items) /\ RowOK(Append(r, i))
         /\ ToSet(Append(r, i)) = ToSet(r) \cup {i}
<1> DEFINE t == Append(r, i)
<1>1. /\ t \in Seq(Items) /\ Len(r) \in Nat /\ DOMAIN r = 1 .. Len(r) /\ DOMAIN t = 1 .. Len(r) + 1
      /\ t[Len(r) + 1] = i
      /\ \A n \in 1 .. Len(r) : t[n] = r[n]
  OBVIOUS
<1>2. ToSet(t) = ToSet(r) \cup {i}
  BY ToSetAppend
<1> HIDE DEF t
<1>3. ASSUME NEW m \in DOMAIN t, NEW n \in DOMAIN t, m < n
      PROVE  /\ t[m].line <= t[n].line
             /\ t[m].do = "exec" \/ (t[m].do = "send_return" /\ IsComm(t[n])) => t[m].line < t[n].line
             /\ ~Terminal(t[m])
             /\ IsComm(t[m]) /\ IsComm(t[n]) => t[m].at < t[n].at
             /\ t[n].do = "peek" => t[m].do = "peek"
  <2>1. m \in DOMAIN r /\ t[m] = r[m]
    BY <1>1, <1>3
  <2>2. CASE n \in DOMAIN r
    <3>1. t[n] = r[n]
      BY <1>1, <2>2
    <3> QED BY <1>3, <2>1, <2>2, <3>1 DEF RowOK
  <2>3. CASE n = Len(r) + 1
    <3>1. t[n] = i
      BY <1>1, <2>3
    <3>2. r[m] \in ToSet(r)
      BY <2>1 DEF ToSet
    <3> QED BY <2>1, <3>1, <3>2 DEF Room
  <2> QED BY <1>1, <2>2, <2>3
<1>4. RowOK(t)
  BY <1>3 DEF RowOK
<1> QED BY <1>1, <1>2, <1>4 DEF t

LEMMA FrontRow ==
  ASSUME NEW r \in Seq(Items), NEW i \in Items, i.do = "peek", RowOK(r), \A j \in ToSet(r) : i.line <= j.line
  PROVE  /\ <<i>> \o r \in Seq(Items) /\ RowOK(<<i>> \o r)
         /\ ToSet(<<i>> \o r) = ToSet(r) \cup {i}
<1> DEFINE t == <<i>> \o r
<1>1. /\ t \in Seq(Items) /\ Len(r) \in Nat /\ DOMAIN r = 1 .. Len(r) /\ DOMAIN t = 1 .. Len(r) + 1
      /\ t[1] = i
      /\ \A n \in 1 .. Len(r) : t[n + 1] = r[n]
  OBVIOUS
<1>2. \A n \in DOMAIN t : n = 1 \/ (n - 1 \in DOMAIN r /\ t[n] = r[n - 1])
  <2> TAKE n \in DOMAIN t
  <2>1. n = 1 \/ (n - 1 \in 1 .. Len(r) /\ n - 1 + 1 = n)
    BY <1>1
  <2> HIDE DEF t
  <2> QED BY <1>1, <2>1
<1> HIDE DEF t
<1>3. ASSUME NEW m \in DOMAIN t, NEW n \in DOMAIN t, m < n
      PROVE  /\ t[m].line <= t[n].line
             /\ t[m].do = "exec" \/ (t[m].do = "send_return" /\ IsComm(t[n])) => t[m].line < t[n].line
             /\ ~Terminal(t[m])
             /\ IsComm(t[m]) /\ IsComm(t[n]) => t[m].at < t[n].at
             /\ t[n].do = "peek" => t[m].do = "peek"
  <2>1. n - 1 \in DOMAIN r /\ t[n] = r[n - 1]
    <3>1. n # 1
      BY <1>1, <1>3
    <3> QED BY <1>2, <3>1
  <2>2. CASE m = 1
    <3>1. r[n - 1] \in ToSet(r)
      BY <2>1 DEF ToSet
    <3> QED BY <1>1, <2>1, <2>2, <3>1 DEF Terminal, IsComm
  <2>3. CASE m # 1
    <3>1. m - 1 \in DOMAIN r /\ t[m] = r[m - 1]
      BY <1>2, <2>3
    <3>2. m - 1 < n - 1
      BY <1>1, <1>3
    <3> QED BY <2>1, <3>1, <3>2 DEF RowOK
  <2> QED BY <2>2, <2>3
<1>4. RowOK(t)
  BY <1>3 DEF RowOK
<1>5. ToSet(t) = ToSet(r) \cup {i}
  <2>1. \A x \in ToSet(r) : x \in ToSet(t)
    <3> TAKE x \in ToSet(r)
    <3>1. PICK n \in DOMAIN r : x = r[n]
      BY DEF ToSet
    <3>2. n + 1 \in DOMAIN t /\ t[n + 1] = x
      BY <1>1, <3>1
    <3> QED BY <3>2 DEF ToSet
  <2>2. i \in ToSet(t)
    <3>1. 1 \in DOMAIN t
      BY <1>1
    <3> QED BY <1>1, <3>1 DEF ToSet
  <2>3. \A x \in ToSet(t) : x = i \/ x \in ToSet(r)
    <3> TAKE x \in ToSet(t)
    <3>1. PICK n \in DOMAIN t : x = t[n]
      BY DEF ToSet
    <3>2. CASE n = 1
      BY <1>1, <3>1, <3>2
    <3>3. CASE n - 1 \in DOMAIN r /\ t[n] = r[n - 1]
      BY <3>1, <3>3 DEF ToSet
    <3> QED BY <1>2, <3>2, <3>3
  <2> QED BY <2>1, <2>2, <2>3
<1> QED BY <1>1, <1>4, <1>5 DEF t

\* Partitions Q get an item at the end of their copy of block b.
Pushed(f, pl, s, t, Q, b, its) ==
  /\ Fields(t) /\ t.code \in Rows(f, pl) /\ t.argReg = s.argReg
  /\ t.commsId \in Nat /\ s.commsId <= t.commsId /\ t.launched \subseteq Parts(pl)
  /\ Q \subseteq Parts(pl) /\ b \in Blocks(f)
  /\ \A p \in Q : /\ its[p] \in Items /\ its[p].do # "peek" /\ Room(s.code[p][b], its[p])
                  /\ t.code[p][b] = Append(s.code[p][b], its[p])
                  /\ IsComm(its[p]) => its[p].at = s.commsId /\ s.commsId < t.commsId
  /\ \A p, q \in Q : IsComm(its[p]) /\ IsComm(its[q]) /\ its[p].do = its[q].do => p = q
  /\ \A p \in Parts(pl) : \A d \in Blocks(f) : p \notin Q \/ d # b => t.code[p][d] = s.code[p][d]

LEMMA PushedSets ==
  ASSUME NEW f, NEW pl, NEW s, NEW t, NEW Q, NEW b, NEW its, Good(f, pl, s), Pushed(f, pl, s, t, Q, b, its)
  PROVE  /\ \A p \in Q : ToSet(t.code[p][b]) = ToSet(s.code[p][b]) \cup {its[p]}
         /\ \A p \in Parts(pl) : \A d \in Blocks(f) : p \notin Q \/ d # b => t.code[p][d] = s.code[p][d]
         /\ \A p \in Parts(pl) : \A d \in Blocks(f) : /\ RowOK(t.code[p][d])
                                                      /\ ToSet(s.code[p][d]) \subseteq ToSet(t.code[p][d])
         /\ \A p \in Parts(pl) : \A d \in Blocks(f) : \A i : Added(s, t, p, d, i) => p \in Q /\ d = b /\ i = its[p]
<1>1. \A p \in Parts(pl) : \A d \in Blocks(f) : s.code[p][d] \in Seq(Items) /\ RowOK(s.code[p][d])
  BY GoodRows DEF Good
<1>2. /\ Q \subseteq Parts(pl) /\ b \in Blocks(f)
      /\ \A p \in Parts(pl) : \A d \in Blocks(f) : p \notin Q \/ d # b => t.code[p][d] = s.code[p][d]
  BY DEF Pushed
<1>3. \A p \in Q : RowOK(t.code[p][b]) /\ ToSet(t.code[p][b]) = ToSet(s.code[p][b]) \cup {its[p]}
  <2> TAKE p \in Q
  <2>1. /\ its[p] \in Items /\ its[p].do # "peek" /\ Room(s.code[p][b], its[p])
        /\ t.code[p][b] = Append(s.code[p][b], its[p])
    BY DEF Pushed
  <2>2. s.code[p][b] \in Seq(Items) /\ RowOK(s.code[p][b])
    BY <1>1, <1>2
  <2> QED BY <2>1, <2>2, AppendRow
<1>4. ASSUME NEW p \in Parts(pl), NEW d \in Blocks(f)
      PROVE  /\ RowOK(t.code[p][d]) /\ ToSet(s.code[p][d]) \subseteq ToSet(t.code[p][d])
             /\ \A i : Added(s, t, p, d, i) => p \in Q /\ d = b /\ i = its[p]
  <2>1. CASE p \in Q /\ d = b
    BY <1>3, <2>1 DEF Added
  <2>2. CASE p \notin Q \/ d # b
    BY <1>1, <1>2, <2>2 DEF Added
  <2> QED BY <2>1, <2>2
<1> QED BY <1>2, <1>3, <1>4

LEMMA PushedGood ==
  ASSUME NEW f, NEW pl, NEW s, NEW t, NEW Q, NEW b, NEW its, Verified(f), Good(f, pl, s),
         Pushed(f, pl, s, t, Q, b, its),
         \A p \in Q : ItemOK(f, pl, t.argReg, t.code, p, b, its[p])
  PROVE  Good(f, pl, t)
<1>1. /\ \A p \in Parts(pl) : \A d \in Blocks(f) : /\ RowOK(t.code[p][d])
                                                   /\ ToSet(s.code[p][d]) \subseteq ToSet(t.code[p][d])
      /\ \A p \in Parts(pl) : \A d \in Blocks(f) : \A i : Added(s, t, p, d, i) => p \in Q /\ d = b /\ i = its[p]
  BY PushedSets
<1>2. /\ DOMAIN s.code = Parts(pl) /\ DOMAIN t.code = Parts(pl)
      /\ \A p \in Parts(pl) : DOMAIN s.code[p] = Blocks(f) /\ DOMAIN t.code[p] = Blocks(f)
  BY GoodRows DEF Pushed, Rows
<1>3. Keeps(s.argReg, s.code, t.argReg, t.code)
  <2>1. t.argReg = s.argReg
    BY DEF Pushed
  <2> QED BY <1>1, <1>2, <2>1 DEF Keeps
<1>4. \A p \in Parts(pl) : \A d \in Blocks(f) : \A i : Added(s, t, p, d, i) => NewItem(f, pl, s, t, p, d, i)
  BY <1>1 DEF Pushed, NewItem
<1>5. \A p, q \in Parts(pl) : \A a, d \in Blocks(f) : \A i, j :
       Added(s, t, p, a, i) /\ Added(s, t, q, d, j) /\ IsComm(i) /\ IsComm(j) /\ i.do = j.do =>
         p = q /\ a = d
  BY <1>1 DEF Pushed
<1>6. /\ Fields(t) /\ t.code \in Rows(f, pl) /\ t.commsId \in Nat /\ s.commsId <= t.commsId
      /\ t.launched \subseteq Parts(pl) /\ t.argReg = s.argReg
  BY DEF Pushed
<1>7. Continues(f, pl, s, t)
  BY <1>1, <1>3, <1>4, <1>5, <1>6 DEF Continues
<1> QED BY <1>7, ContinuesGood

------------------------------------------------------------------------------
(* Operands are made available at sites: a line of each block of T, which is *)
(* not a phi and which no item of the block has passed.                     *)

Sites(f, T) ==
  \A b \in DOMAIN T : b \in Blocks(f) /\ T[b] \in DOMAIN f.body[b] /\ f.body[b][T[b]].op # "phi"

Open(T, s) ==
  \A b \in DOMAIN T : \A p \in DOMAIN s.code : \A i \in ToSet(s.code[p][b]) :
    /\ i.line <= T[b]
    /\ i.do = "exec" => i.line < T[b]
    /\ i.do # "send_return" /\ ~Terminal(i)

\* What it takes is added at those lines, or in front of the entry block.
Grows(T, s, t) ==
  /\ s.launched \subseteq t.launched
  /\ \A d \in DOMAIN s.argReg : d \in DOMAIN t.argReg /\ t.argReg[d] = s.argReg[d]
  /\ DOMAIN t.code = DOMAIN s.code
  /\ \A p \in DOMAIN s.code : DOMAIN t.code[p] = DOMAIN s.code[p]
  /\ \A p \in DOMAIN s.code : \A b \in DOMAIN s.code[p] :
       /\ ToSet(s.code[p][b]) \subseteq ToSet(t.code[p][b])
       /\ \A i : Added(s, t, p, b, i) => i.do = "peek" \/ (IsComm(i) /\ b \in DOMAIN T /\ i.line = T[b])
  /\ Hosted(s) => Hosted(t)

LEMMA GrowsOrder ==
  ASSUME NEW T, NEW s, NEW t, NEW u
  PROVE  Grows(T, s, s) /\ (Grows(T, s, t) /\ Grows(T, t, u) => Grows(T, s, u))
<1>1. Grows(T, s, s)
  BY DEF Grows, Added
<1>2. ASSUME Grows(T, s, t), Grows(T, t, u)
      PROVE  Grows(T, s, u)
  <2>1. /\ s.launched \subseteq u.launched
        /\ \A d \in DOMAIN s.argReg : d \in DOMAIN u.argReg /\ u.argReg[d] = s.argReg[d]
        /\ DOMAIN u.code = DOMAIN s.code
        /\ \A p \in DOMAIN s.code : DOMAIN u.code[p] = DOMAIN s.code[p]
        /\ Hosted(s) => Hosted(u)
    BY <1>2 DEF Grows
  <2>2. ASSUME NEW p \in DOMAIN s.code, NEW b \in DOMAIN s.code[p]
        PROVE  /\ ToSet(s.code[p][b]) \subseteq ToSet(u.code[p][b])
               /\ \A i : Added(s, u, p, b, i) => i.do = "peek" \/ (IsComm(i) /\ b \in DOMAIN T /\ i.line = T[b])
    <3>1. p \in DOMAIN t.code /\ b \in DOMAIN t.code[p]
      BY <1>2 DEF Grows
    <3>2. ToSet(s.code[p][b]) \subseteq ToSet(t.code[p][b]) /\ ToSet(t.code[p][b]) \subseteq ToSet(u.code[p][b])
      BY <1>2, <3>1 DEF Grows
    <3>3. ASSUME NEW i, Added(s, u, p, b, i)
          PROVE  i.do = "peek" \/ (IsComm(i) /\ b \in DOMAIN T /\ i.line = T[b])
      <4>1. Added(s, t, p, b, i) \/ Added(t, u, p, b, i)
        BY <3>3 DEF Added
      <4> QED BY <1>2, <3>1, <4>1 DEF Grows
    <3> QED BY <3>2, <3>3
  <2> QED BY <2>1, <2>2 DEF Grows
<1> QED BY <1>1, <1>2

LEMMA GrowsOpen ==
  ASSUME NEW f, NEW pl, NEW T, NEW s, NEW t, Verified(f), Sites(f, T),
         Good(f, pl, s), Good(f, pl, t), Grows(T, s, t), Open(T, s)
  PROVE  Open(T, t)
<1>0. /\ DOMAIN s.code = Parts(pl)
      /\ \A p \in Parts(pl) : DOMAIN s.code[p] = Blocks(f)
  BY GoodRows
<1>1. /\ DOMAIN s.code = Parts(pl) /\ DOMAIN t.code = Parts(pl)
      /\ \A p \in Parts(pl) : DOMAIN s.code[p] = Blocks(f)
      /\ \A p \in Parts(pl) : \A b \in Blocks(f) : \A i \in ToSet(t.code[p][b]) :
           ItemOK(f, pl, t.argReg, t.code, p, b, i)
  <2>1. /\ DOMAIN t.code = Parts(pl)
        /\ \A p \in Parts(pl) : \A b \in Blocks(f) : \A i \in ToSet(t.code[p][b]) :
             ItemOK(f, pl, t.argReg, t.code, p, b, i)
    BY GoodRows
  <2> QED BY <1>0, <2>1
<1> SUFFICES ASSUME NEW b \in DOMAIN T, NEW p \in Parts(pl), NEW i \in ToSet(t.code[p][b])
             PROVE  /\ i.line <= T[b]
                    /\ i.do = "exec" => i.line < T[b]
                    /\ i.do # "send_return" /\ ~Terminal(i)
  BY <1>1 DEF Open
<1>2. b \in Blocks(f) /\ T[b] \in DOMAIN f.body[b]
  BY DEF Sites
<1>3. T[b] \in Nat /\ 1 <= T[b]
  <2>1. f.body \in Seq(Seq(Instruction))
    BY DEF Verified
  <2>2. f.body[b] \in Seq(Instruction)
    BY <1>2, <2>1 DEF Blocks
  <2> QED BY <1>2, <2>2
<1>4. CASE i \in ToSet(s.code[p][b])
  BY <1>1, <1>4 DEF Open
<1>5. CASE Added(s, t, p, b, i) /\ i.do = "peek"
  <2>1. i.line = 1
    BY <1>1, <1>2, <1>5 DEF ItemOK, PeekOK
  <2> QED BY <1>3, <1>5, <2>1 DEF Terminal
<1>6. CASE Added(s, t, p, b, i) /\ IsComm(i) /\ i.line = T[b]
  BY <1>3, <1>6 DEF Terminal, IsComm
<1>7. i \in ToSet(s.code[p][b]) \/ Added(s, t, p, b, i)
  BY DEF Added
<1> QED BY <1>1, <1>2, <1>4, <1>5, <1>6, <1>7 DEF Grows

LEMMA GrowsGives ==
  ASSUME NEW f, NEW pl, NEW T, NEW s, NEW t, Good(f, pl, s), Grows(T, s, t),
         NEW p \in Parts(pl), NEW b \in Blocks(f), NEW n, NEW r, NEW v,
         Gives(f, pl, s.argReg, s.code, p, b, n, r, v)
  PROVE  Gives(f, pl, t.argReg, t.code, p, b, n, r, v)
<1>1. /\ DOMAIN s.code = Parts(pl) /\ Peered(s.code)
      /\ \A q \in Parts(pl) : DOMAIN s.code[q] = Blocks(f)
  BY GoodRows
<1>2. Keeps(s.argReg, s.code, t.argReg, t.code)
  BY DEF Grows, Keeps
<1>3. \A i \in ToSet(s.code[p][b]) : i.do = "receive" => i.peer \in DOMAIN s.code /\ b \in DOMAIN s.code[i.peer]
  BY <1>1 DEF Peered, IsComm
<1> QED BY <1>1, <1>2, <1>3, GivesKept

LEMMA OpenRoom ==
  ASSUME NEW f, NEW pl, NEW T, NEW s, Good(f, pl, s), Open(T, s), Sites(f, T),
         NEW b \in DOMAIN T, NEW p \in Parts(pl), NEW i, i.line = T[b], IsComm(i) => i.at = s.commsId
  PROVE  Room(s.code[p][b], i)
<1>1. b \in Blocks(f) /\ DOMAIN s.code = Parts(pl)
      /\ \A j \in ToSet(s.code[p][b]) : IsComm(j) => j.at < s.commsId
  BY GoodRows DEF Sites
<1> QED BY <1>1 DEF Open, Room

------------------------------------------------------------------------------
(* The operations on the state of a visit. *)

IsItem(i, do, val, at, peer, line) ==
  /\ i \in Items /\ i.op = "none" /\ i.args = <<>> /\ i.blocks = <<>>
  /\ i.do = do /\ i.val = val /\ i.at = at /\ i.peer = peer /\ i.line = line

LEMMA ItemFields ==
  ASSUME NEW do \in Calls, NEW val \in Registers \cup {NoRegister}, NEW at \in Nat, NEW peer \in Nat,
         NEW line \in Nat
  PROVE  IsItem(Item(do, val, at, peer, line), do, val, at, peer, line)
<1>1. ASSUME NEW op \in Opcodes \cup {"none"}, NEW args \in Seq(Registers), NEW blocks \in Seq(Nat)
      PROVE  [do |-> do, val |-> val, at |-> at, peer |-> peer, line |-> line,
              op |-> op, args |-> args, blocks |-> blocks] \in Items
  BY DEF Items
<1>2. "none" \in Opcodes \cup {"none"} /\ <<>> \in Seq(Registers) /\ <<>> \in Seq(Nat)
  OBVIOUS
<1>3. Item(do, val, at, peer, line) \in Items
  BY <1>1, <1>2 DEF Item
<1> QED BY <1>3 DEF Item, IsItem

\* The rest of the state that a visit changes.
SameBut(s, t) == t.argReg = s.argReg /\ t.launched = s.launched /\ t.host = s.host

\* t is s with item i at the end of a row.
Appended(f, pl, s, t, p, b, i) ==
  /\ Fields(t) /\ t.code \in Rows(f, pl)
  /\ t.code[p][b] = Append(s.code[p][b], i)
  /\ \A q \in Parts(pl), d \in Blocks(f) : d # b \/ q # p => t.code[q][d] = s.code[q][d]
  /\ SameBut(s, t) /\ t.commsId = s.commsId /\ t.regs = s.regs

LEMMA AtFields ==
  ASSUME NEW f, NEW pl, NEW s, Fields(s), s.code \in Rows(f, pl),
         NEW p \in Parts(pl), NEW b \in Blocks(f), NEW i \in Items
  PROVE  Appended(f, pl, s, At(s, p, b, i), p, b, i)
<1> DEFINE t == At(s, p, b, i)
           c == s.code
           e == [c EXCEPT ![p][b] = Append(c[p][b], i)]
<1>1. /\ t.code = e /\ Fields(t) /\ SameBut(s, t) /\ t.commsId = s.commsId /\ t.regs = s.regs
  BY DEF At, Fields, FieldNames, SameBut
<1>2. c \in [Parts(pl) -> [Blocks(f) -> Seq(Items)]]
  BY DEF Rows
<1> HIDE DEF t, c
<1>3. Append(c[p][b], i) \in Seq(Items)
  BY <1>2
<1>4. /\ e \in [Parts(pl) -> [Blocks(f) -> Seq(Items)]]
      /\ e[p][b] = Append(c[p][b], i)
      /\ \A q \in Parts(pl), d \in Blocks(f) : d # b \/ q # p => e[q][d] = c[q][d]
  BY <1>2, <1>3
<1> QED BY <1>1, <1>4 DEF Rows, Appended, t, c

\* A send and a receive at a new address, at the ends of the same block.
NewPair(f, pl, s, t, from, to, b, v, n) ==
  /\ Fields(t) /\ t.code \in Rows(f, pl) /\ SameBut(s, t) /\ t.commsId = s.commsId + 1
  /\ \A q \in Parts(pl), d \in Blocks(f) : d # b \/ q \notin {from, to} => t.code[q][d] = s.code[q][d]
  /\ \E i, j : /\ t.code[from][b] = Append(s.code[from][b], i)
               /\ t.code[to][b] = Append(s.code[to][b], j)
               /\ IsItem(i, "send", Value(v), s.commsId, to, n)
               /\ IsItem(j, "receive", Received(s.commsId), s.commsId, from, n)

LEMMA PairGood ==
  ASSUME NEW f, NEW pl, NEW T, NEW s, NEW t, Verified(f), Good(f, pl, s), Open(T, s), Sites(f, T),
         NEW v \in DOMAIN pl, NEW to \in Parts(pl), pl[v] # to, NEW b \in DOMAIN T,
         NewPair(f, pl, s, t, pl[v], to, b, v, T[b])
  PROVE  /\ Good(f, pl, t) /\ Grows(T, s, t)
         /\ Gives(f, pl, t.argReg, t.code, to, b, T[b], Received(s.commsId), v)
<1> DEFINE from == pl[v]
           n == T[b]
           id == s.commsId
<1>1. PICK i, j : /\ t.code[from][b] = Append(s.code[from][b], i)
                  /\ t.code[to][b] = Append(s.code[to][b], j)
                  /\ IsItem(i, "send", Value(v), id, to, n)
                  /\ IsItem(j, "receive", Received(id), id, from, n)
  BY DEF NewPair
<1>2. /\ from \in Parts(pl) /\ b \in Blocks(f) /\ n \in DOMAIN f.body[b] /\ f.body[b][n].op # "phi"
      /\ id \in Nat /\ s.launched \subseteq Parts(pl)
  BY DEF Parts, Sites, Good
<1>3. /\ i \in Items /\ i.op = "none" /\ i.args = <<>> /\ i.do = "send" /\ i.val = Value(v) /\ i.at = id /\ i.peer = to /\ i.line = n
      /\ j \in Items /\ j.op = "none" /\ j.args = <<>> /\ j.do = "receive" /\ j.val = Received(id) /\ j.at = id /\ j.peer = from /\ j.line = n
      /\ IsComm(i) /\ IsComm(j)
  BY <1>1 DEF IsItem, IsComm
<1> DEFINE Q == {from, to}
           its == [q \in Q |-> IF q = from THEN i ELSE j]
<1>4. its[from] = i /\ its[to] = j /\ Q \subseteq Parts(pl) /\ from # to
  BY <1>2
<1>5. Pushed(f, pl, s, t, Q, b, its)
  <2>1. ASSUME NEW q \in Q
        PROVE  /\ its[q] \in Items /\ its[q].do # "peek" /\ Room(s.code[q][b], its[q])
               /\ t.code[q][b] = Append(s.code[q][b], its[q])
               /\ IsComm(its[q]) => its[q].at = s.commsId /\ s.commsId < t.commsId
    <3>1. Room(s.code[from][b], i) /\ Room(s.code[to][b], j)
      BY <1>2, <1>3, OpenRoom
    <3>2. s.commsId < t.commsId
      BY <1>2 DEF NewPair
    <3>3. q = from \/ q = to
      OBVIOUS
    <3> HIDE DEF its, Q, from, n, id
    <3>4. CASE q = from
      BY <1>1, <1>3, <1>4, <3>1, <3>2, <3>4 DEF id
    <3>5. CASE q = to
      BY <1>1, <1>3, <1>4, <3>1, <3>2, <3>5 DEF id
    <3> QED BY <3>3, <3>4, <3>5
  <2>2. \A p, q \in Q : its[p].do = its[q].do => p = q
    BY <1>3, <1>4
  <2>3. Fields(t) /\ t.code \in Rows(f, pl) /\ t.argReg = s.argReg /\ t.launched \subseteq Parts(pl)
    BY <1>2 DEF NewPair, SameBut
  <2>4. t.commsId \in Nat /\ s.commsId <= t.commsId
    BY <1>2 DEF NewPair
  <2>5. \A p \in Parts(pl) : \A d \in Blocks(f) : p \notin Q \/ d # b => t.code[p][d] = s.code[p][d]
    BY DEF NewPair
  <2> HIDE DEF its, Q
  <2> QED BY <1>2, <1>4, <2>1, <2>2, <2>3, <2>4, <2>5 DEF Pushed
<1>6. /\ ToSet(t.code[from][b]) = ToSet(s.code[from][b]) \cup {i}
      /\ ToSet(t.code[to][b]) = ToSet(s.code[to][b]) \cup {j}
      /\ \A p \in Parts(pl) : \A d \in Blocks(f) : ToSet(s.code[p][d]) \subseteq ToSet(t.code[p][d])
      /\ \A p \in Parts(pl) : \A d \in Blocks(f) : \A k : Added(s, t, p, d, k) => d = b /\ k \in {i, j}
  <2>1. \A p \in Q : its[p] \in {i, j}
    OBVIOUS
  <2>2. /\ \A p \in Q : ToSet(t.code[p][b]) = ToSet(s.code[p][b]) \cup {its[p]}
        /\ \A p \in Parts(pl) : \A d \in Blocks(f) : ToSet(s.code[p][d]) \subseteq ToSet(t.code[p][d])
        /\ \A p \in Parts(pl) : \A d \in Blocks(f) : \A k : Added(s, t, p, d, k) => p \in Q /\ d = b /\ k = its[p]
    <3> HIDE DEF its, Q
    <3>1. \A p \in Q : ToSet(t.code[p][b]) = ToSet(s.code[p][b]) \cup {its[p]}
      BY <1>5, PushedSets
    <3>2. \A p \in Parts(pl) : \A d \in Blocks(f) : ToSet(s.code[p][d]) \subseteq ToSet(t.code[p][d])
      BY <1>5, PushedSets
    <3>3. \A p \in Parts(pl) : \A d \in Blocks(f) : \A k : Added(s, t, p, d, k) => p \in Q /\ d = b /\ k = its[p]
      BY <1>5, PushedSets
    <3> QED BY <3>1, <3>2, <3>3
  <2>3. from \in Q /\ to \in Q
    OBVIOUS
  <2> HIDE DEF its, Q
  <2> QED BY <1>4, <2>1, <2>2, <2>3
<1>7. DOMAIN t.code = Parts(pl) /\ DOMAIN s.code = Parts(pl)
      /\ \A p \in Parts(pl) : DOMAIN t.code[p] = Blocks(f) /\ DOMAIN s.code[p] = Blocks(f)
  BY GoodRows DEF NewPair, Rows
<1>8. i \in ToSet(t.code[from][b]) /\ j \in ToSet(t.code[to][b])
  BY <1>6
<1>9. Partner(i, j, from) /\ Partner(j, i, to)
  BY <1>3 DEF Partner
<1> HIDE DEF Q, its, n, id, from
<1>10. ItemOK(f, pl, t.argReg, t.code, from, b, i)
  <2>1. \E k \in ToSet(t.code[to][b]) : Partner(i, k, from)
    BY <1>8, <1>9
  <2>2. CommOK(f, pl, t.code, from, b, i)
    BY <1>2, <1>3, <1>4, <1>7, <2>1 DEF CommOK, from
  <2> QED BY <1>2, <1>3, <2>2 DEF ItemOK, Calls
<1>11. ItemOK(f, pl, t.argReg, t.code, to, b, j)
  <2>1. \E k \in ToSet(t.code[from][b]) : Partner(j, k, to)
    BY <1>8, <1>9
  <2>2. CommOK(f, pl, t.code, to, b, j)
    BY <1>2, <1>3, <1>4, <1>7, <2>1 DEF CommOK
  <2> QED BY <1>2, <1>3, <2>2 DEF ItemOK, Calls
<1>12. Good(f, pl, t)
  <2>1. \A p \in Q : ItemOK(f, pl, t.argReg, t.code, p, b, its[p])
    <3>1. \A p \in Q : p = from \/ p = to
      BY DEF Q
    <3> QED BY <1>4, <1>10, <1>11, <3>1
  <2> QED BY <1>5, <2>1, PushedGood
<1>13. Grows(T, s, t)
  <2>1. Hosted(s) => Hosted(t)
    BY DEF NewPair, SameBut, Hosted
  <2>2. t.launched = s.launched /\ t.argReg = s.argReg
    BY DEF NewPair, SameBut
  <2>3. ASSUME NEW p \in Parts(pl), NEW d \in Blocks(f)
        PROVE  /\ ToSet(s.code[p][d]) \subseteq ToSet(t.code[p][d])
               /\ \A k : Added(s, t, p, d, k) => k.do = "peek" \/ (IsComm(k) /\ d \in DOMAIN T /\ k.line = T[d])
    BY <1>3, <1>6 DEF n
  <2> QED BY <1>7, <2>1, <2>2, <2>3 DEF Grows
<1>14. Gives(f, pl, t.argReg, t.code, to, b, n, Received(id), v)
  BY <1>3, <1>8, <1>9 DEF Gives
<1> QED BY <1>12, <1>13, <1>14 DEF n, id

\* One more register: it holds v on partition p at the site of block b.
Supplied(f, pl, T, p, b, v, s, t) ==
  /\ Good(f, pl, t) /\ Grows(T, s, t)
  /\ \E r \in Registers : t.regs = Append(s.regs, r) /\ Gives(f, pl, t.argReg, t.code, p, b, T[b], r, v)

LEMMA PairItems ==
  ASSUME NEW f, NEW pl, NEW s, Good(f, pl, s), Parts(pl) \subseteq Nat, Verified(f),
         NEW v \in DOMAIN pl, v \in STRING, NEW to \in Parts(pl), NEW T, Sites(f, T), NEW b \in DOMAIN T
  PROVE  /\ IsItem(Item("send", Value(v), s.commsId, to, T[b]), "send", Value(v), s.commsId, to, T[b])
         /\ IsItem(Item("receive", Received(s.commsId), s.commsId, pl[v], T[b]),
                   "receive", Received(s.commsId), s.commsId, pl[v], T[b])
         /\ Received(s.commsId) \in Registers /\ pl[v] \in Parts(pl) /\ b \in Blocks(f)
<1> DEFINE id == s.commsId
           n  == T[b]
           from == pl[v]
<1>1. id \in Nat /\ from \in Parts(pl) /\ b \in Blocks(f) /\ n \in DOMAIN f.body[b]
  BY DEF Good, Parts, Sites
<1>2. n \in Nat
  <2>1. f.body \in Seq(Seq(Instruction))
    BY DEF Verified
  <2>2. f.body[b] \in Seq(Instruction)
    BY <1>1, <2>1 DEF Blocks
  <2> HIDE DEF n
  <2> QED BY <1>1, <2>2
<1>3. /\ Received(id) \in Registers /\ from \in Nat /\ to \in Nat /\ Value(v) \in Registers
      /\ "send" \in Calls /\ "receive" \in Calls
  BY <1>1 DEF Registers, Calls
<1> HIDE DEF id, n, from
<1>4. IsItem(Item("send", Value(v), id, to, n), "send", Value(v), id, to, n)
  BY <1>1, <1>2, <1>3, ItemFields
<1>5. IsItem(Item("receive", Received(id), id, from, n), "receive", Received(id), id, from, n)
  BY <1>1, <1>2, <1>3, ItemFields
<1> QED BY <1>1, <1>3, <1>4, <1>5 DEF id, n, from

LEMMA CommunicateSupplies ==
  ASSUME NEW f, NEW pl, NEW s, Good(f, pl, s), Parts(pl) \subseteq Nat, Verified(f),
         NEW T, Open(T, s), Sites(f, T), NEW b \in DOMAIN T,
         NEW v \in DOMAIN pl, v \in STRING, NEW to \in Parts(pl), pl[v] # to
  PROVE  Supplied(f, pl, T, to, b, v, s, Communicate(s, v, pl[v], to, b, T[b]))
<1> DEFINE id  == s.commsId
           n   == T[b]
           from == pl[v]
           rcv == Item("receive", Received(id), id, from, n)
           snd == Item("send", Value(v), id, to, n)
           r   == At(s, to, b, rcv)
           w   == At(r, from, b, snd)
           t   == [w EXCEPT !.commsId = id + 1, !.regs = Append(@, Received(id))]
<1>1. id \in Nat /\ Fields(s) /\ s.code \in Rows(f, pl)
  BY DEF Good
<1>2. /\ Received(id) \in Registers /\ from \in Parts(pl) /\ b \in Blocks(f)
      /\ IsItem(snd, "send", Value(v), id, to, n) /\ IsItem(rcv, "receive", Received(id), id, from, n)
  BY PairItems
<1>3. snd \in Items /\ rcv \in Items
  BY <1>2 DEF IsItem
<1> HIDE DEF rcv, snd, n, from
<1>5. Appended(f, pl, s, r, to, b, rcv)
  BY <1>1, <1>2, <1>3, AtFields
<1> HIDE DEF r
<1>6. Appended(f, pl, r, w, from, b, snd)
  <2>1. Fields(r) /\ r.code \in Rows(f, pl)
    BY <1>5 DEF Appended
  <2> QED BY <1>2, <1>3, <2>1, AtFields
<1> HIDE DEF w
<1>7. /\ Fields(t) /\ t.code = w.code /\ t.commsId = id + 1 /\ SameBut(s, t)
      /\ t.regs = Append(s.regs, Received(id))
  <2>1. /\ Fields(w) /\ SameBut(s, w) /\ w.regs = s.regs
    BY <1>5, <1>6 DEF Appended, SameBut
  <2> HIDE DEF id
  <2>2. Fields(t)
    BY <2>1 DEF Fields
  <2>3. /\ t.code = w.code /\ t.commsId = id + 1 /\ SameBut(s, t)
        /\ t.regs = Append(s.regs, Received(id))
    BY <2>1 DEF Fields, FieldNames, SameBut
  <2> QED BY <2>2, <2>3
<1>8. t = Communicate(s, v, from, to, b, n)
  BY DEF t, w, r, rcv, snd, Communicate
<1> HIDE DEF t
<1>9. /\ t.code[from][b] = Append(s.code[from][b], snd)
      /\ t.code[to][b] = Append(s.code[to][b], rcv)
      /\ \A p \in Parts(pl), d \in Blocks(f) : d # b \/ p \notin {from, to} => t.code[p][d] = s.code[p][d]
  <2>1. from # to
    BY DEF from
  <2>2. t.code[from][b] = Append(s.code[from][b], snd)
    BY <1>2, <1>5, <1>6, <1>7, <2>1 DEF Appended
  <2>3. t.code[to][b] = Append(s.code[to][b], rcv)
    BY <1>2, <1>5, <1>6, <1>7, <2>1 DEF Appended
  <2>4. \A p \in Parts(pl), d \in Blocks(f) : d # b \/ p \notin {from, to} => t.code[p][d] = s.code[p][d]
    BY <1>5, <1>6, <1>7 DEF Appended
  <2> QED BY <2>2, <2>3, <2>4
<1>10. NewPair(f, pl, s, t, from, to, b, v, n)
  <2>1. t.code \in Rows(f, pl)
    BY <1>6, <1>7 DEF Appended
  <2> QED BY <1>2, <1>7, <1>9, <2>1 DEF NewPair, id
<1>11. /\ Good(f, pl, t) /\ Grows(T, s, t)
       /\ Gives(f, pl, t.argReg, t.code, to, b, n, Received(id), v)
  BY <1>10, PairGood DEF from, n
<1> QED BY <1>2, <1>7, <1>8, <1>11 DEF Supplied, from, n

LEMMA SendConditionGives ==
  ASSUME NEW f, NEW pl, NEW s, Good(f, pl, s), Parts(pl) \subseteq Nat, Verified(f), f = fn,
         NEW T, Open(T, s), Sites(f, T), NEW b \in DOMAIN T, T[b] = Len(f.body[b]),
         NEW v \in DOMAIN pl, v \in STRING, NEW to \in Parts(pl), pl[v] # to
  PROVE  LET t == SendCondition(s, v, pl[v], to, b)
         IN  /\ Good(f, pl, t) /\ Grows(T, s, t)
             /\ t.regs = Extended(s.regs, to, Received(s.commsId))
             /\ Received(s.commsId) \in Registers
             /\ Gives(f, pl, t.argReg, t.code, to, b, T[b], Received(s.commsId), v)
<1> DEFINE id  == s.commsId
           n   == T[b]
           from == pl[v]
           rcv == Item("receive", Received(id), id, from, n)
           snd == Item("send", Value(v), id, to, n)
           w   == At(s, from, b, snd)
           r   == At(w, to, b, rcv)
           t   == [r EXCEPT !.commsId = id + 1, !.regs = Extended(@, to, Received(id))]
<1>1. id \in Nat /\ Fields(s) /\ s.code \in Rows(f, pl)
  BY DEF Good
<1>2. /\ Received(id) \in Registers /\ from \in Parts(pl) /\ b \in Blocks(f)
      /\ IsItem(snd, "send", Value(v), id, to, n) /\ IsItem(rcv, "receive", Received(id), id, from, n)
  BY PairItems
<1>3. snd \in Items /\ rcv \in Items
  BY <1>2 DEF IsItem
<1>4. t = SendCondition(s, v, from, to, b)
  BY DEF SendCondition
<1> HIDE DEF rcv, snd, n, from
<1>5. Appended(f, pl, s, w, from, b, snd)
  BY <1>1, <1>2, <1>3, AtFields
<1> HIDE DEF w
<1>6. Appended(f, pl, w, r, to, b, rcv)
  <2>1. Fields(w) /\ w.code \in Rows(f, pl)
    BY <1>5 DEF Appended
  <2> QED BY <1>2, <1>3, <2>1, AtFields
<1> HIDE DEF r
<1>7. /\ Fields(t) /\ t.code = r.code /\ t.commsId = id + 1 /\ SameBut(s, t)
      /\ t.regs = Extended(s.regs, to, Received(id))
  <2>1. /\ Fields(r) /\ SameBut(s, r) /\ r.regs = s.regs
    BY <1>5, <1>6 DEF Appended, SameBut
  <2> HIDE DEF id
  <2>2. Fields(t)
    BY <2>1 DEF Fields
  <2>3. /\ t.code = r.code /\ t.commsId = id + 1 /\ SameBut(s, t)
        /\ t.regs = Extended(s.regs, to, Received(id))
    BY <2>1 DEF Fields, FieldNames, SameBut
  <2> QED BY <2>2, <2>3
<1> HIDE DEF t
<1>9. /\ t.code[from][b] = Append(s.code[from][b], snd)
      /\ t.code[to][b] = Append(s.code[to][b], rcv)
      /\ \A p \in Parts(pl), d \in Blocks(f) : d # b \/ p \notin {from, to} => t.code[p][d] = s.code[p][d]
  <2>1. from # to
    BY DEF from
  <2>2. t.code[from][b] = Append(s.code[from][b], snd)
    BY <1>2, <1>5, <1>6, <1>7, <2>1 DEF Appended
  <2>3. t.code[to][b] = Append(s.code[to][b], rcv)
    BY <1>2, <1>5, <1>6, <1>7, <2>1 DEF Appended
  <2>4. \A p \in Parts(pl), d \in Blocks(f) : d # b \/ p \notin {from, to} => t.code[p][d] = s.code[p][d]
    BY <1>5, <1>6, <1>7 DEF Appended
  <2> QED BY <2>2, <2>3, <2>4
<1>10. NewPair(f, pl, s, t, from, to, b, v, n)
  <2>1. t.code \in Rows(f, pl)
    BY <1>6, <1>7 DEF Appended
  <2> QED BY <1>2, <1>7, <1>9, <2>1 DEF NewPair, id
<1>11. /\ Good(f, pl, t) /\ Grows(T, s, t)
       /\ Gives(f, pl, t.argReg, t.code, to, b, n, Received(id), v)
  BY <1>10, PairGood DEF from, n
<1> QED BY <1>2, <1>4, <1>7, <1>11 DEF from, n, id

WithRegister(s, r) == [s EXCEPT !.regs = Append(@, r)]

LEMMA SameGood ==
  ASSUME NEW f, NEW pl, NEW T, NEW s, NEW t, Good(f, pl, s), Fields(t), SameBut(s, t),
         t.code = s.code, t.commsId = s.commsId
  PROVE  Good(f, pl, t) /\ Grows(T, s, t)
<1>1. Good(f, pl, t)
  BY DEF Good, SameBut
<1>2. Hosted(s) => Hosted(t)
  BY DEF Hosted, SameBut
<1> QED BY <1>1, <1>2 DEF Grows, SameBut, Added

LEMMA Reuse ==
  ASSUME NEW f, NEW pl, NEW T, NEW s, NEW p, NEW b, NEW v, Good(f, pl, s),
         NEW r \in Registers, Gives(f, pl, s.argReg, s.code, p, b, T[b], r, v)
  PROVE  Supplied(f, pl, T, p, b, v, s, WithRegister(s, r))
<1> DEFINE t == [s EXCEPT !.regs = Append(@, r)]
<1>1. Fields(s)
  BY DEF Good
<1>2. Fields(t)
  BY <1>1 DEF Fields
<1>3. t.code = s.code /\ SameBut(s, t) /\ t.commsId = s.commsId /\ t.regs = Append(s.regs, r)
  BY <1>1 DEF Fields, FieldNames, SameBut
<1> HIDE DEF t
<1>4. Good(f, pl, t) /\ Grows(T, s, t)
  BY <1>2, <1>3, SameGood
<1>5. Supplied(f, pl, T, p, b, v, s, t)
  <2>1. t.argReg = s.argReg
    BY <1>3 DEF SameBut
  <2> QED BY <1>3, <1>4, <2>1 DEF Supplied
<1> QED BY <1>5 DEF t, WithRegister

\* t is s after the first use of parameter v on partition p.
FirstUse(f, pl, s, t, p, v) ==
  /\ Fields(t) /\ t.code \in Rows(f, pl)
  /\ t.commsId = s.commsId + 1 /\ t.launched = s.launched \cup {p}
  /\ <<p, v>> \notin DOMAIN s.argReg /\ v \in ToSet(f.args)
  /\ DOMAIN t.argReg = DOMAIN s.argReg \cup {<<p, v>>}
  /\ t.argReg[<<p, v>>] = Argument(s.commsId)
  /\ \A d \in DOMAIN s.argReg : t.argReg[d] = s.argReg[d]
  /\ \A q \in Parts(pl), d \in Blocks(f) : d # 1 \/ q # p => t.code[q][d] = s.code[q][d]
  /\ \E i : /\ IsItem(i, "peek", Argument(s.commsId), s.commsId, p, 1)
            /\ t.code[p][1] = <<i>> \o s.code[p][1]
  /\ Hosted(s) => Hosted(t)

LEMMA FirstUseGood ==
  ASSUME NEW f, NEW pl, NEW T, NEW s, NEW t, NEW p \in Parts(pl), NEW v, Verified(f), Good(f, pl, s),
         FirstUse(f, pl, s, t, p, v)
  PROVE  Good(f, pl, t) /\ Grows(T, s, t)
<1> DEFINE id == s.commsId
           a == <<p, v>>
<1>1. PICK i : /\ IsItem(i, "peek", Argument(id), id, p, 1)
               /\ t.code[p][1] = <<i>> \o s.code[p][1]
  BY DEF FirstUse
<1>2. /\ i \in Items /\ i.op = "none" /\ i.args = <<>> /\ i.do = "peek" /\ i.val = Argument(id) /\ i.at = id /\ i.line = 1
      /\ ~IsComm(i)
  BY <1>1 DEF IsItem, IsComm
<1>3. /\ DOMAIN t.code = Parts(pl) /\ DOMAIN s.code = Parts(pl)
      /\ \A q \in Parts(pl) : /\ DOMAIN t.code[q] = Blocks(f) /\ DOMAIN s.code[q] = Blocks(f)
                              /\ \A d \in Blocks(f) : s.code[q][d] \in Seq(Items) /\ RowOK(s.code[q][d])
      /\ \A q \in Parts(pl) : \A d \in Blocks(f) : \A j \in ToSet(s.code[q][d]) :
           ItemOK(f, pl, s.argReg, s.code, q, d, j)
  <2>1. /\ DOMAIN t.code = Parts(pl) /\ \A q \in Parts(pl) : DOMAIN t.code[q] = Blocks(f)
    BY DEF FirstUse, Rows
  <2>2. /\ DOMAIN s.code = Parts(pl)
        /\ \A q \in Parts(pl) : /\ DOMAIN s.code[q] = Blocks(f)
                                /\ \A d \in Blocks(f) : s.code[q][d] \in Seq(Items)
        /\ \A q \in Parts(pl) : \A d \in Blocks(f) : \A j \in ToSet(s.code[q][d]) :
             ItemOK(f, pl, s.argReg, s.code, q, d, j)
    BY GoodRows
  <2>3. \A q \in Parts(pl) : \A d \in Blocks(f) : RowOK(s.code[q][d])
    BY DEF Good
  <2> QED BY <2>1, <2>2, <2>3
<1>4. 1 \in Blocks(f) /\ \A b \in Blocks(f) : 1 \in DOMAIN f.body[b] /\ \A n \in DOMAIN f.body[b] : 1 <= n
  <2>1. f.body \in Seq(Seq(Instruction)) /\ f.body # <<>>
    BY DEF Verified
  <2>2. ASSUME NEW b \in Blocks(f)
        PROVE  1 \in DOMAIN f.body[b] /\ \A n \in DOMAIN f.body[b] : 1 <= n
    <3>1. f.body[b] \in Seq(Instruction) /\ f.body[b] # <<>>
      BY <2>1 DEF Blocks, Verified
    <3> QED BY <3>1
  <2> QED BY <2>1, <2>2 DEF Blocks
<1>5. RowOK(t.code[p][1]) /\ ToSet(t.code[p][1]) = ToSet(s.code[p][1]) \cup {i}
  <2>1. s.code[p][1] \in Seq(Items) /\ RowOK(s.code[p][1])
    BY <1>3, <1>4
  <2>2. \A j \in ToSet(s.code[p][1]) : i.line <= j.line
    <3> TAKE j \in ToSet(s.code[p][1])
    <3>1. j.line \in DOMAIN f.body[1]
      BY <1>3, <1>4 DEF ItemOK
    <3> QED BY <1>2, <1>4, <3>1
  <2> QED BY <1>1, <1>2, <2>1, <2>2, FrontRow
<1>6. \A q \in Parts(pl), d \in Blocks(f) :
        /\ RowOK(t.code[q][d])
        /\ ToSet(s.code[q][d]) \subseteq ToSet(t.code[q][d])
        /\ \A j : Added(s, t, q, d, j) => q = p /\ d = 1 /\ j = i
  <2> TAKE q \in Parts(pl), d \in Blocks(f)
  <2>1. CASE q = p /\ d = 1
    BY <1>5, <2>1 DEF Added
  <2>2. CASE d # 1 \/ q # p
    <3>1. t.code[q][d] = s.code[q][d]
      BY <2>2 DEF FirstUse
    <3> QED BY <1>3, <3>1 DEF Added
  <2> QED BY <2>1, <2>2
<1>7. /\ id \in Nat /\ s.launched \subseteq Parts(pl)
  BY DEF Good
<1>8. /\ v \in ToSet(f.args) /\ DOMAIN t.argReg = DOMAIN s.argReg \cup {a} /\ t.argReg[a] = Argument(id)
      /\ \A d \in DOMAIN s.argReg : t.argReg[d] = s.argReg[d]
      /\ t.commsId = id + 1 /\ t.launched = s.launched \cup {p}
      /\ Fields(t) /\ t.code \in Rows(f, pl)
      /\ Hosted(s) => Hosted(t)
  BY DEF FirstUse
<1> HIDE DEF id
<1>9. Keeps(s.argReg, s.code, t.argReg, t.code)
  BY <1>3, <1>6, <1>8 DEF Keeps
<1>10. NewItem(f, pl, s, t, p, 1, i)
  <2>1. PeekOK(f, t.argReg, p, 1, i)
    <3> HIDE DEF a
    <3>1. a \in DOMAIN t.argReg /\ t.argReg[a] = i.val
      BY <1>2, <1>8
    <3> QED BY <1>2, <1>7, <1>8, <3>1 DEF PeekOK, a
  <2>2. ItemOK(f, pl, t.argReg, t.code, p, 1, i)
    BY <1>2, <1>4, <2>1 DEF ItemOK, Calls
  <2> QED BY <1>2, <2>2 DEF NewItem
<1>11. NewArgument(f, pl, s, t, a)
  <2>1. a[1] = p /\ a[2] = v /\ a = <<a[1], a[2]>>
    OBVIOUS
  <2>2. s.commsId < t.commsId /\ s.commsId = id
    BY <1>7, <1>8 DEF id
  <2>3. i \in ToSet(t.code[p][1])
    BY <1>5
  <2>4. \A q \in Parts(pl) : \A b \in Blocks(f) : \A j : Added(s, t, q, b, j) => ~IsComm(j)
    BY <1>2, <1>6
  <2>5. \A e \in DOMAIN t.argReg : e \in DOMAIN s.argReg \/ e = a
    BY <1>8
  <2> HIDE DEF a
  <2> QED BY <1>2, <1>8, <2>1, <2>2, <2>3, <2>4, <2>5 DEF NewArgument
<1>12. Continues(f, pl, s, t)
  <2>1. /\ Fields(t) /\ t.code \in Rows(f, pl) /\ t.commsId \in Nat /\ s.commsId <= t.commsId
        /\ t.launched \subseteq Parts(pl)
    BY <1>7, <1>8 DEF id
  <2>2. \A d \in DOMAIN t.argReg : d \in DOMAIN s.argReg \/ NewArgument(f, pl, s, t, d)
    BY <1>8, <1>11
  <2>3. \A q \in Parts(pl) : \A b \in Blocks(f) : \A j : Added(s, t, q, b, j) => NewItem(f, pl, s, t, q, b, j)
    BY <1>6, <1>10
  <2>4. \A q, r \in Parts(pl) : \A x, b \in Blocks(f) : \A j, k :
          Added(s, t, q, x, j) /\ Added(s, t, r, b, k) /\ IsComm(j) /\ IsComm(k) /\ j.do = k.do =>
            q = r /\ x = b
    BY <1>6
  <2>5. \A q \in Parts(pl) : \A b \in Blocks(f) : RowOK(t.code[q][b])
    BY <1>6
  <2> QED BY <1>9, <2>1, <2>2, <2>3, <2>4, <2>5 DEF Continues
<1>13. Good(f, pl, t)
  BY <1>12, ContinuesGood
<1>14. Grows(T, s, t)
  <2>1. ASSUME NEW q \in Parts(pl), NEW d \in Blocks(f)
        PROVE  /\ ToSet(s.code[q][d]) \subseteq ToSet(t.code[q][d])
               /\ \A k : Added(s, t, q, d, k) => k.do = "peek" \/ (IsComm(k) /\ d \in DOMAIN T /\ k.line = T[d])
    BY <1>2, <1>6
  <2>2. /\ s.launched \subseteq t.launched /\ (Hosted(s) => Hosted(t))
        /\ \A d \in DOMAIN s.argReg : d \in DOMAIN t.argReg /\ t.argReg[d] = s.argReg[d]
    BY <1>8
  <2>3. /\ DOMAIN t.code = DOMAIN s.code /\ DOMAIN s.code = Parts(pl)
        /\ \A q \in Parts(pl) : DOMAIN t.code[q] = DOMAIN s.code[q] /\ DOMAIN s.code[q] = Blocks(f)
    BY <1>3
  <2> HIDE DEF a
  <2> QED BY <2>1, <2>2, <2>3 DEF Grows
<1> QED BY <1>13, <1>14

LEMMA ReceiveArgSupplies ==
  ASSUME NEW f, NEW pl, NEW T, NEW s, NEW p \in Parts(pl), NEW b, Good(f, pl, s), Verified(f),
         Parts(pl) \subseteq Nat, NEW v \in ToSet(f.args), v \in STRING
  PROVE  Supplied(f, pl, T, p, b, v, s, ReceiveArg(s, v, p))
<1> DEFINE a == <<p, v>>
           id == s.commsId
           i == Item("peek", Argument(id), id, p, 1)
           h == Item("send_argument", Value(v), id, p, 0)
           t == [s EXCEPT !.code[p][1] = <<i>> \o @,
                          !.host = Append(@, h),
                          !.argReg = Extended(@, a, Argument(id)),
                          !.launched = @ \cup {p},
                          !.commsId = id + 1,
                          !.regs = Append(@, Argument(id))]
<1>1. Fields(s) /\ s.code \in Rows(f, pl) /\ id \in Nat /\ 1 \in Blocks(f)
  <2>1. f.body \in Seq(Seq(Instruction)) /\ f.body # <<>>
    BY DEF Verified
  <2> QED BY <2>1 DEF Good, Blocks
<1>2. CASE a \in DOMAIN s.argReg
  <2>1. s.argReg[a] \in Registers
    <3>1. \E x \in Nat : s.argReg[a] = Argument(x)
      BY <1>2 DEF Good, ArgsOK
    <3> QED BY <3>1 DEF Registers
  <2>2. Gives(f, pl, s.argReg, s.code, p, b, T[b], s.argReg[a], v)
    BY <1>2 DEF Gives
  <2>3. ReceiveArg(s, v, p) = WithRegister(s, s.argReg[a])
    BY <1>2 DEF ReceiveArg, WithRegister
  <2> QED BY <2>1, <2>2, <2>3, Reuse
<1>3. CASE a \notin DOMAIN s.argReg
  <2>1. ReceiveArg(s, v, p) = t
    BY <1>3 DEF ReceiveArg
  <2> DEFINE e == [s.code EXCEPT ![p][1] = <<i>> \o s.code[p][1]]
  <2>2. Argument(id) \in Registers /\ "peek" \in Calls /\ Value(v) \in Registers /\ p \in Nat /\ 1 \in Nat
    BY <1>1 DEF Registers, Calls
  <2>3. IsItem(i, "peek", Argument(id), id, p, 1)
    <3> HIDE DEF id
    <3> QED BY <1>1, <2>2, ItemFields
  <2>4. /\ h.at = id /\ h.val = Value(v)
        /\ h \in [do : {"send_argument"}, val : Registers, at : Nat, peer : Nat, line : Nat,
                  op : {"none"}, args : {<<>>}, blocks : {<<>>}]
    <3> HIDE DEF id
    <3> QED BY <1>1, <2>2 DEF Item
  <2> HIDE DEF i, id, a, h
  <2>5. Fields(t)
    BY <1>1 DEF Fields
  <2>6. /\ t.code = e /\ t.argReg = Extended(s.argReg, a, Argument(id))
        /\ t.launched = s.launched \cup {p} /\ t.commsId = id + 1
        /\ t.host = Append(s.host, h)
        /\ t.regs = Append(s.regs, Argument(id))
    BY <1>1 DEF Fields, FieldNames
  <2> HIDE DEF t
  <2>7. /\ e \in Rows(f, pl) /\ e[p][1] = <<i>> \o s.code[p][1]
        /\ \A q \in Parts(pl), d \in Blocks(f) : d # 1 \/ q # p => e[q][d] = s.code[q][d]
    <3> DEFINE c == s.code
    <3>1. c \in [Parts(pl) -> [Blocks(f) -> Seq(Items)]]
      BY <1>1 DEF Rows
    <3> HIDE DEF c
    <3>2. i \in Items
      BY <2>3 DEF IsItem
    <3>3. <<i>> \o c[p][1] \in Seq(Items)
      BY <1>1, <3>1, <3>2
    <3>4. /\ e \in [Parts(pl) -> [Blocks(f) -> Seq(Items)]]
          /\ e[p][1] = <<i>> \o c[p][1]
          /\ \A q \in Parts(pl), d \in Blocks(f) : d # 1 \/ q # p => e[q][d] = c[q][d]
      BY <1>1, <3>1, <3>3 DEF c
    <3> QED BY <3>4 DEF Rows, c
  <2>8. /\ DOMAIN t.argReg = DOMAIN s.argReg \cup {a} /\ t.argReg[a] = Argument(id)
        /\ \A d \in DOMAIN s.argReg : t.argReg[d] = s.argReg[d]
    <3> DEFINE g == Extended(s.argReg, a, Argument(id))
    <3>1. /\ DOMAIN g = DOMAIN s.argReg \cup {a} /\ g[a] = Argument(id)
          /\ \A z \in DOMAIN s.argReg : z # a => g[z] = s.argReg[z]
      BY DEF Extended
    <3>2. t.argReg = g
      BY <2>6
    <3> HIDE DEF g
    <3> QED BY <1>3, <3>1, <3>2
  <2>9. Hosted(s) => Hosted(t)
    <3> DEFINE S == [do : {"send_argument"}, val : Registers, at : Nat, peer : Nat, line : Nat,
                     op : {"none"}, args : {<<>>}, blocks : {<<>>}]
    <3> HIDE DEF S
    <3>1. h \in S
      BY <2>4 DEF S
    <3> SUFFICES ASSUME Hosted(s) PROVE Hosted(t)
      OBVIOUS
    <3> DEFINE x == s.host
               y == t.host
    <3>2. x \in Seq(S) /\ \A n \in DOMAIN x : \E d \in DOMAIN s.argReg : s.argReg[d] = Argument(x[n].at) /\ x[n].val = Value(d[2])
      BY DEF Hosted, S
    <3>3. y = Append(x, h)
      BY <2>6
    <3> HIDE DEF x, y
    <3>4. /\ y \in Seq(S) /\ DOMAIN y = DOMAIN x \cup {Len(x) + 1} /\ y[Len(x) + 1] = h
          /\ \A n \in DOMAIN x : y[n] = x[n]
      BY <3>1, <3>2, <3>3
    <3>5. ASSUME NEW n \in DOMAIN y
          PROVE  \E d \in DOMAIN t.argReg : t.argReg[d] = Argument(y[n].at) /\ y[n].val = Value(d[2])
      <4>1. CASE n \in DOMAIN x
        BY <2>8, <3>2, <3>4, <4>1
      <4>2. CASE n = Len(x) + 1
        <5>1. a[2] = v
          BY DEF a
        <5> QED BY <2>4, <2>8, <3>4, <4>2, <5>1
      <4> QED BY <3>4, <4>1, <4>2
    <3> QED BY <3>4, <3>5 DEF Hosted, S, y
  <2>10. FirstUse(f, pl, s, t, p, v)
    <3>1. <<p, v>> = a /\ s.commsId = id
      BY DEF a, id
    <3> HIDE DEF e
    <3> QED BY <1>3, <2>3, <2>5, <2>6, <2>7, <2>8, <2>9, <3>1 DEF FirstUse
  <2>11. Good(f, pl, t) /\ Grows(T, s, t)
    BY <2>10, FirstUseGood
  <2>12. Gives(f, pl, t.argReg, t.code, p, b, T[b], Argument(id), v)
    <3>1. <<p, v>> \in DOMAIN t.argReg /\ t.argReg[<<p, v>>] = Argument(id)
      BY <2>8 DEF a
    <3> QED BY <3>1 DEF Gives
  <2> QED BY <2>1, <2>2, <2>6, <2>11, <2>12 DEF Supplied
<1> QED BY <1>2, <1>3

------------------------------------------------------------------------------
(* Operands. *)

Compiling == fn \in Functions /\ place \in Placements(fn) /\ mapped \subseteq DOMAIN place

LEMMA UniqueNames ==
  ASSUME NEW f, Verified(f), NEW i \in Instrs(f), NEW j \in Instrs(f), i.name = j.name
  PROVE  i = j
<1>1. PICK b \in Blocks(f) : i \in ToSet(f.body[b])
  BY DEF Instrs
<1>2. PICK n \in DOMAIN f.body[b] : i = f.body[b][n]
  BY <1>1 DEF ToSet
<1>3. PICK c \in Blocks(f) : j \in ToSet(f.body[c])
  BY DEF Instrs
<1>4. PICK m \in DOMAIN f.body[c] : j = f.body[c][m]
  BY <1>3 DEF ToSet
<1>5. c = b /\ m = n
  BY <1>2, <1>4 DEF Verified
<1> QED BY <1>2, <1>4, <1>5

LEMMA InstrFacts ==
  ASSUME NEW f, Verified(f), NEW i \in Instrs(f)
  PROVE  /\ i \in Instruction
         /\ i.name \notin ToSet(f.args) \cup DOMAIN f.consts
<1>1. PICK b \in Blocks(f) : i \in ToSet(f.body[b])
  BY DEF Instrs
<1>2. PICK n \in DOMAIN f.body[b] : i = f.body[b][n]
  BY <1>1 DEF ToSet
<1>3. f.body \in Seq(Seq(Instruction))
  BY DEF Verified
<1>4. f.body[b] \in Seq(Instruction)
  BY <1>3 DEF Blocks
<1>5. f.body[b][n] \in Instruction
  BY <1>4
<1>6. f.body[b][n].name \notin ToSet(f.args) \cup DOMAIN f.consts
  BY DEF Verified
<1> QED BY <1>2, <1>5, <1>6

LEMMA CompilingFacts ==
  ASSUME Compiling
  PROVE  /\ Verified(fn) /\ AllSorted(Cfg(fn))
         /\ AllPartitions = Parts(place) /\ Parts(place) \subseteq 0 .. Cores - 1
         /\ Parts(place) \subseteq Nat
         /\ DOMAIN place = {i.name : i \in Placed(fn)}
         /\ \A v \in DOMAIN place : /\ v \in STRING /\ place[v] \in Parts(place)
                                    /\ ~IsArg(v) /\ v \notin DOMAIN fn.consts
         /\ 1 \in Blocks(fn)
<1>1. Verified(fn) /\ AllSorted(Cfg(fn))
  BY FunctionsAssumption DEF Compiling
<1>2. AllPartitions = Parts(place)
  BY DEF AllPartitions, Parts
<1>3. place \in [{i.name : i \in Placed(fn)} -> Partitions]
  BY DEF Compiling, Placements
<1>4. Parts(place) \subseteq 0 .. Cores - 1
  BY <1>3, PartitionsAssumption DEF Parts, Partitions
<1>5. Parts(place) \subseteq Nat
  BY <1>4, PartitionsAssumption
<1>6. ASSUME NEW v \in DOMAIN place
      PROVE  v \in STRING /\ place[v] \in Parts(place) /\ ~IsArg(v) /\ v \notin DOMAIN fn.consts
  <2>1. PICK i \in Instrs(fn) : v = i.name
    BY <1>3 DEF Placed
  <2>2. i \in Instruction /\ i.name \notin ToSet(fn.args) \cup DOMAIN fn.consts
    BY <1>1, InstrFacts
  <2>3. i.name \in STRING
    BY <2>2 DEF Instruction
  <2> QED BY <2>1, <2>2, <2>3 DEF IsArg, Parts
<1>7. 1 \in Blocks(fn)
  BY <1>1 DEF Verified, Blocks
<1> QED BY <1>1, <1>2, <1>3, <1>4, <1>5, <1>6, <1>7

LEMMA AllocaNames ==
  ASSUME Compiling, NEW v
  PROVE  IsAlloca(v) <=> v \in Allocas(fn)
<1>1. Verified(fn)
  BY CompilingFacts
<1>2. ASSUME IsInstr(v)
      PROVE  Instr(v) \in Instrs(fn) /\ Instr(v).name = v
  BY <1>2 DEF IsInstr, Instr
<1>3. ASSUME NEW i \in Instrs(fn), i.name = v
      PROVE  IsInstr(v) /\ Instr(v) = i
  <2>1. IsInstr(v)
    BY <1>3 DEF IsInstr
  <2> QED BY <1>1, <1>2, <1>3, <2>1, UniqueNames
<1>4. ASSUME IsAlloca(v) PROVE v \in Allocas(fn)
  BY <1>2, <1>4 DEF IsAlloca, Allocas
<1>5. ASSUME v \in Allocas(fn) PROVE IsAlloca(v)
  <2>1. PICK i \in Instrs(fn) : i.op = "alloca" /\ v = i.name
    BY <1>5 DEF Allocas
  <2> QED BY <1>3, <2>1 DEF IsAlloca
<1> QED BY <1>4, <1>5


\* A value that has a copy or needs none.
Ready(v) == v \in STRING /\ (IsArg(v) \/ v \in DOMAIN fn.consts \/ v \in mapped)

LEMMA AvailableSupplies ==
  ASSUME Compiling, NEW T, NEW s, Good(fn, place, s), Open(T, s), Sites(fn, T),
         NEW p \in Parts(place), NEW b \in DOMAIN T, NEW v, Ready(v)
  PROVE  Supplied(fn, place, T, p, b, v, s, Available(s, v, p, b, T[b]))
<1>1. /\ Verified(fn) /\ Parts(place) \subseteq Nat
      /\ \A w \in DOMAIN place : place[w] \in Parts(place) /\ ~IsArg(w)
  BY CompilingFacts
<1>2. v \in STRING /\ Value(v) \in Registers
  BY DEF Ready, Registers
<1>3. v \in mapped => v \in DOMAIN place
  BY DEF Compiling
<1>4. CASE IsArg(v)
  <2>1. Available(s, v, p, b, T[b]) = ReceiveArg(s, v, p)
    BY <1>1, <1>3, <1>4 DEF Available
  <2>2. v \in ToSet(fn.args)
    BY <1>4 DEF IsArg
  <2> QED BY <1>1, <1>2, <2>1, <2>2, ReceiveArgSupplies
<1>5. CASE v \in mapped /\ place[v] = p
  <2>1. Available(s, v, p, b, T[b]) = WithRegister(s, Value(v))
    BY <1>1, <1>3, <1>5 DEF WithRegister, Available
  <2>2. Gives(fn, place, s.argReg, s.code, p, b, T[b], Value(v), v)
    BY <1>1, <1>3, <1>5 DEF Gives, IsArg
  <2> QED BY <1>2, <2>1, <2>2, Reuse
<1>6. CASE v \in mapped /\ place[v] # p
  <2>1. Available(s, v, p, b, T[b]) = Communicate(s, v, place[v], p, b, T[b])
    BY <1>1, <1>3, <1>6 DEF Available
  <2> QED BY <1>1, <1>2, <1>3, <1>6, <2>1, CommunicateSupplies
<1>7. CASE ~IsArg(v) /\ v \notin mapped
  <2>1. v \in DOMAIN fn.consts
    BY <1>7 DEF Ready
  <2>2. ~IsInstr(v)
    BY <1>1, <2>1, InstrFacts DEF IsInstr
  <2>3. Available(s, v, p, b, T[b]) = WithRegister(s, Value(v))
    BY <1>7, <2>2 DEF WithRegister, Available
  <2>4. Gives(fn, place, s.argReg, s.code, p, b, T[b], Value(v), v)
    BY <1>7, <2>1 DEF Gives, IsArg
  <2> QED BY <1>2, <2>3, <2>4, Reuse
<1> QED BY <1>4, <1>5, <1>6, <1>7

LEMMA OperandSupplies ==
  ASSUME Compiling, NEW T, NEW s, Good(fn, place, s), Open(T, s), Sites(fn, T),
         NEW p \in Parts(place), NEW b \in DOMAIN T, NEW v, Ready(v)
  PROVE  Supplied(fn, place, T, p, b, v, s, Operand(s, v, p, b, T[b]))
<1>1. CASE v \in mapped /\ IsAlloca(v)
  <2>1. Operand(s, v, p, b, T[b]) = WithRegister(s, Value(v))
    BY <1>1 DEF WithRegister, Operand
  <2>2. v \in Allocas(fn)
    BY <1>1, AllocaNames
  <2>3. v \notin ToSet(fn.args)
    BY <1>1, CompilingFacts DEF IsArg, Compiling
  <2>4. Gives(fn, place, s.argReg, s.code, p, b, T[b], Value(v), v)
    BY <2>2, <2>3 DEF Gives
  <2>5. Value(v) \in Registers
    BY DEF Ready, Registers
  <2> QED BY <2>1, <2>4, <2>5, Reuse
<1>2. CASE ~(v \in mapped /\ IsAlloca(v))
  <2>1. Operand(s, v, p, b, T[b]) = Available(s, v, p, b, T[b])
    BY <1>2 DEF Operand
  <2> QED BY <2>1, AvailableSupplies
<1> QED BY <1>1, <1>2

------------------------------------------------------------------------------
(* The three iterations of a visit: over the operands of an instruction, the *)
(* incoming values of a phi and the partitions a condition is sent to.      *)

Supply(how, s, n, x, p, b, line) ==
  IF how = "operands" THEN Operand(s, x[n], p, b, line)
  ELSE IF how = "incoming" THEN Available(s, x.args[n], p, x.blocks[n], Len(fn.body[x.blocks[n]]))
  ELSE IF n - 1 \in AllPartitions \ {p} THEN SendCondition(s, x, p, n - 1, b)
  ELSE s

Run(how, s, N, x, p, b, line, after) ==
  after = [n \in 0 .. N |-> IF n = 0 THEN s ELSE Supply(how, after[n - 1], n, x, p, b, line)]

LEMMA RunExists ==
  ASSUME NEW how, NEW s, NEW N \in Nat, NEW x, NEW p, NEW b, NEW line
  PROVE  \E after : Run(how, s, N, x, p, b, line, after)
<1> DEFINE Runs == {n \in Nat : \E a : Run(how, s, n, x, p, b, line, a)}
<1>1. 0 \in Runs
  <2> DEFINE a == [k \in 0 .. 0 |-> s]
  <2>1. Run(how, s, 0, x, p, b, line, a)
    BY DEF Run
  <2> HIDE DEF a
  <2> QED BY <2>1
<1>2. ASSUME NEW n \in 0 .. N, n + 1 \in 0 .. N, n \in Runs
      PROVE  n + 1 \in Runs
  <2>1. PICK a : Run(how, s, n, x, p, b, line, a)
    BY <1>2
  <2> DEFINE e == Supply(how, a[n], n + 1, x, p, b, line)
             c == [k \in 0 .. n + 1 |-> IF k = n + 1 THEN e ELSE a[k]]
  <2>2. n \in Nat /\ n + 1 \in Nat /\ n \in 0 .. n /\ n + 1 # 0 /\ n + 1 - 1 = n /\ n # n + 1
    BY <1>2
  <2> HIDE DEF e
  <2>3. \A k \in 0 .. n : a[k] = IF k = 0 THEN s ELSE Supply(how, a[k - 1], k, x, p, b, line)
    BY <2>1 DEF Run
  <2>4. \A k \in 0 .. n : c[k] = a[k]
    BY <2>2
  <2>5. c[n + 1] = e
    BY <2>2
  <2>6. c = [k \in 0 .. n + 1 |-> c[k]]
    OBVIOUS
  <2> HIDE DEF c
  <2>7. \A k \in 0 .. n + 1 : c[k] = IF k = 0 THEN s ELSE Supply(how, c[k - 1], k, x, p, b, line)
    <3> TAKE k \in 0 .. n + 1
    <3>1. CASE k = n + 1
      BY <2>2, <2>4, <2>5, <3>1 DEF e
    <3>2. CASE k = 0
      BY <2>2, <2>3, <2>4, <3>2
    <3>3. CASE k \in 1 .. n
      <4>1. k \in 0 .. n /\ k - 1 \in 0 .. n /\ k # 0
        BY <2>2, <3>3
      <4> QED BY <2>3, <2>4, <4>1
    <3> QED BY <2>2, <3>1, <3>2, <3>3
  <2>8. Run(how, s, n + 1, x, p, b, line, c)
    BY <2>6, <2>7 DEF Run
  <2> QED BY <2>2, <2>8
<1>3. \A n \in 0 .. N : n \in Runs
  <2> HIDE DEF Runs
  <2> QED BY <1>1, <1>2, UpTo
<1>4. N \in Runs
  <2> HIDE DEF Runs
  <2> QED BY <1>3
<1> QED BY <1>4

\* What an iteration goes through.
Stages(how, s, N, x, p, b, line, after) ==
  /\ after[0] = s
  /\ \A n \in 1 .. N : after[n] = Supply(how, after[n - 1], n, x, p, b, line)

LEMMA OperandStages ==
  ASSUME NEW s, NEW vs \in Seq(STRING), NEW p, NEW b, NEW line
  PROVE  \E after : /\ Stages("operands", s, Len(vs), vs, p, b, line, after)
                    /\ ReplaceOperands(s, vs, p, b, line) = after[Len(vs)]
<1> DEFINE N == Len(vs)
           run(a) == a = [n \in 0 .. N |-> IF n = 0 THEN s ELSE Operand(a[n - 1], vs[n], p, b, line)]
           after == CHOOSE a : run(a)
<1>1. N \in Nat
  OBVIOUS
<1>2. \A a : Run("operands", s, N, vs, p, b, line, a) => run(a)
  BY DEF Run, Supply
<1>3. run(after)
  <2>1. PICK a : Run("operands", s, N, vs, p, b, line, a)
    <3> HIDE DEF N
    <3> QED BY <1>1, RunExists
  <2>2. run(a)
    BY <1>2, <2>1
  <2> QED BY <2>2
<1>4. ReplaceOperands(s, vs, p, b, line) = after[N]
  BY DEF ReplaceOperands
<1> HIDE DEF after
<1>5. Stages("operands", s, N, vs, p, b, line, after)
  <2> HIDE DEF N
  <2>1. 0 \in 0 .. N /\ \A n \in 1 .. N : n \in 0 .. N /\ n # 0
    BY <1>1
  <2>2. after[0] = s /\ \A n \in 1 .. N : after[n] = Operand(after[n - 1], vs[n], p, b, line)
    BY <1>3, <2>1
  <2>3. \A e, n : Supply("operands", e, n, vs, p, b, line) = Operand(e, vs[n], p, b, line)
    BY DEF Supply
  <2> QED BY <2>2, <2>3 DEF Stages
<1> QED BY <1>4, <1>5

IncomingRuns(s, phi, p) ==
  \E after : /\ Stages("incoming", s, Len(phi.args), phi, p, 1, 1, after)
             /\ MapIncoming(s, phi, p) = after[Len(phi.args)]

LEMMA IncomingStages ==
  ASSUME NEW s, NEW p, NEW phi, phi.args \in Seq(STRING)
  PROVE  IncomingRuns(s, phi, p)
<1> DEFINE N == Len(phi.args)
           run(a) == a = [n \in 0 .. N |-> IF n = 0 THEN s
                                           ELSE Available(a[n - 1], phi.args[n], p, phi.blocks[n], Len(fn.body[phi.blocks[n]]))]
           after == CHOOSE a : run(a)
<1>1. N \in Nat
  OBVIOUS
<1>2. \A a : Run("incoming", s, N, phi, p, 1, 1, a) => run(a)
  BY DEF Run, Supply
<1>3. run(after)
  <2>1. PICK a : Run("incoming", s, N, phi, p, 1, 1, a)
    <3> HIDE DEF N
    <3> QED BY <1>1, RunExists
  <2>2. run(a)
    BY <1>2, <2>1
  <2> QED BY <2>2
<1>4. MapIncoming(s, phi, p) = after[N]
  BY DEF MapIncoming
<1> HIDE DEF after
<1>5. Stages("incoming", s, N, phi, p, 1, 1, after)
  <2> HIDE DEF N
  <2>1. 0 \in 0 .. N /\ \A n \in 1 .. N : n \in 0 .. N /\ n # 0
    BY <1>1
  <2>2. /\ after[0] = s
        /\ \A n \in 1 .. N : after[n] = Available(after[n - 1], phi.args[n], p, phi.blocks[n], Len(fn.body[phi.blocks[n]]))
    BY <1>3, <2>1
  <2>3. \A e, n : Supply("incoming", e, n, phi, p, 1, 1) = Available(e, phi.args[n], p, phi.blocks[n], Len(fn.body[phi.blocks[n]]))
    BY DEF Supply
  <2> QED BY <2>2, <2>3 DEF Stages
<1> QED BY <1>4, <1>5 DEF IncomingRuns

LEMMA ConditionStages ==
  ASSUME NEW s, NEW v, NEW p, NEW b, NEW line
  PROVE  \E after : /\ Stages("condition", [s EXCEPT !.regs = [q \in {p} |-> Value(v)]], Cores, v, p, b, line, after)
                    /\ Broadcast(s, v, p, b) = after[Cores]
<1> DEFINE start == [s EXCEPT !.regs = [q \in {p} |-> Value(v)]]
           run(a) == a = [n \in 0 .. Cores |->
                            IF n = 0 THEN start
                            ELSE IF n - 1 \in AllPartitions \ {p} THEN SendCondition(a[n - 1], v, p, n - 1, b)
                            ELSE a[n - 1]]
           after == CHOOSE a : run(a)
<1>1. Cores \in Nat
  BY PartitionsAssumption
<1>4. Broadcast(s, v, p, b) = after[Cores]
  BY DEF Broadcast
<1> HIDE DEF start
<1>2. \A a : Run("condition", start, Cores, v, p, b, line, a) => run(a)
  BY DEF Run, Supply
<1>3. run(after)
  <2>1. PICK a : Run("condition", start, Cores, v, p, b, line, a)
    BY <1>1, RunExists
  <2>2. run(a)
    BY <1>2, <2>1
  <2> QED BY <2>2
<1> HIDE DEF after
<1>5. Stages("condition", start, Cores, v, p, b, line, after)
  BY <1>1, <1>3 DEF Stages, Supply
<1> QED BY <1>4, <1>5 DEF start

\* A register for each of the n values vs, each at the site of its block.
Provided(T, p, s, t, n, vs, bs) ==
  /\ Good(fn, place, t) /\ Open(T, t) /\ Grows(T, s, t)
  /\ t.regs \in Seq(Registers) /\ Len(t.regs) = n
  /\ \A k \in 1 .. n : Gives(fn, place, t.argReg, t.code, p, bs[k], T[bs[k]], t.regs[k], vs[k])

LEMMA ProvidedMore ==
  ASSUME NEW T, Verified(fn), Sites(fn, T), NEW p \in Parts(place), NEW s, NEW t, NEW u, NEW n \in Nat,
         NEW m, m = n + 1, NEW vs, NEW bs, \A k \in 1 .. m : bs[k] \in DOMAIN T,
         Provided(T, p, s, t, n, vs, bs), Supplied(fn, place, T, p, bs[m], vs[m], t, u)
  PROVE  Provided(T, p, s, u, m, vs, bs)
<1>1. PICK r \in Registers : /\ u.regs = Append(t.regs, r)
                             /\ Gives(fn, place, u.argReg, u.code, p, bs[m], T[bs[m]], r, vs[m])
  BY DEF Supplied
<1>2. Good(fn, place, u) /\ Grows(T, t, u) /\ Good(fn, place, t) /\ Open(T, t) /\ Grows(T, s, t)
  BY DEF Supplied, Provided
<1>3. Open(T, u) /\ Grows(T, s, u)
  BY <1>2, GrowsOpen, GrowsOrder
<1>4. t.regs \in Seq(Registers) /\ Len(t.regs) = n
  BY DEF Provided
<1>5. /\ u.regs \in Seq(Registers) /\ Len(u.regs) = m /\ u.regs[m] = r
      /\ \A k \in 1 .. n : u.regs[k] = t.regs[k]
  BY <1>1, <1>4
<1>6. ASSUME NEW k \in 1 .. m
      PROVE  Gives(fn, place, u.argReg, u.code, p, bs[k], T[bs[k]], u.regs[k], vs[k])
  <2>1. CASE k = m
    BY <1>1, <1>5, <2>1
  <2>2. CASE k \in 1 .. n
    <3>1. Gives(fn, place, t.argReg, t.code, p, bs[k], T[bs[k]], t.regs[k], vs[k])
      BY <2>2 DEF Provided
    <3>2. bs[k] \in Blocks(fn)
      BY DEF Sites
    <3>3. Gives(fn, place, u.argReg, u.code, p, bs[k], T[bs[k]], t.regs[k], vs[k])
      BY <1>2, <3>1, <3>2, GrowsGives
    <3> QED BY <1>5, <2>2, <3>3
  <2> QED BY <2>1, <2>2
<1> QED BY <1>2, <1>3, <1>5, <1>6 DEF Provided

\* Every stage supplies one register more.
Feeds(how, N, x, p, b, line, T, vs, bs) ==
  \A n \in 1 .. N :
    /\ bs[n] \in DOMAIN T
    /\ \A s : Good(fn, place, s) /\ Open(T, s) =>
         Supplied(fn, place, T, p, bs[n], vs[n], s, Supply(how, s, n, x, p, b, line))

LEMMA StagesProvide ==
  ASSUME NEW how, NEW N \in Nat, NEW x, NEW p \in Parts(place), NEW b, NEW line, NEW s, NEW after,
         NEW T, Verified(fn), Sites(fn, T), NEW vs, NEW bs,
         Good(fn, place, s), Open(T, s), s.regs = <<>>,
         Stages(how, s, N, x, p, b, line, after), Feeds(how, N, x, p, b, line, T, vs, bs)
  PROVE  Provided(T, p, s, after[N], N, vs, bs)
<1> DEFINE Fine == {n \in 0 .. N : Provided(T, p, s, after[n], n, vs, bs)}
<1>1. 0 \in Fine
  <2>1. after[0] = s /\ <<>> \in Seq(Registers) /\ Len(<<>>) = 0 /\ 1 .. 0 = {}
    BY DEF Stages
  <2>2. Grows(T, s, s)
    BY GrowsOrder
  <2>3. Provided(T, p, s, s, 0, vs, bs)
    BY <2>1, <2>2 DEF Provided
  <2> QED BY <2>1, <2>3
<1>2. ASSUME NEW n \in 0 .. N, n + 1 \in 0 .. N, n \in Fine
      PROVE  n + 1 \in Fine
  <2> DEFINE m == n + 1
  <2>1. n \in Nat /\ m \in 1 .. N /\ m - 1 = n /\ \A k \in 1 .. m : k \in 1 .. N
    BY <1>2
  <2>0. m = n + 1
    OBVIOUS
  <2> HIDE DEF m
  <2>2. after[m] = Supply(how, after[n], m, x, p, b, line)
    BY <2>1 DEF Stages
  <2>3. Provided(T, p, s, after[n], n, vs, bs)
    BY <1>2
  <2>4. Good(fn, place, after[n]) /\ Open(T, after[n])
    BY <2>3 DEF Provided
  <2>5. Supplied(fn, place, T, p, bs[m], vs[m], after[n], after[m])
    BY <2>1, <2>2, <2>4 DEF Feeds
  <2>6. \A k \in 1 .. m : bs[k] \in DOMAIN T
    BY <2>1 DEF Feeds
  <2>7. Provided(T, p, s, after[m], m, vs, bs)
    BY <2>0, <2>1, <2>3, <2>5, <2>6, ProvidedMore
  <2> QED BY <1>2, <2>0, <2>7
<1>3. \A n \in 0 .. N : n \in Fine
  <2> HIDE DEF Fine
  <2> QED BY <1>1, <1>2, UpTo
<1> QED BY <1>3

LEMMA ReplaceOperandsProvides ==
  ASSUME Compiling, NEW T, Sites(fn, T), NEW s, Good(fn, place, s), Open(T, s), s.regs = <<>>,
         NEW p \in Parts(place), NEW b \in DOMAIN T, NEW vs \in Seq(STRING),
         \A k \in DOMAIN vs : Ready(vs[k])
  PROVE  Provided(T, p, s, ReplaceOperands(s, vs, p, b, T[b]), Len(vs), vs, [k \in 1 .. Len(vs) |-> b])
<1> DEFINE line == T[b]
           bs == [k \in 1 .. Len(vs) |-> b]
<1>1. PICK after : /\ Stages("operands", s, Len(vs), vs, p, b, line, after)
                   /\ ReplaceOperands(s, vs, p, b, line) = after[Len(vs)]
  BY OperandStages
<1>2. Len(vs) \in Nat /\ DOMAIN vs = 1 .. Len(vs) /\ \A k \in 1 .. Len(vs) : bs[k] = b
  OBVIOUS
<1> HIDE DEF bs
<1>3. Feeds("operands", Len(vs), vs, p, b, line, T, vs, bs)
  BY <1>2, OperandSupplies DEF Feeds, Supply
<1>4. Verified(fn)
  BY CompilingFacts
<1> HIDE DEF line
<1>5. Provided(T, p, s, after[Len(vs)], Len(vs), vs, bs)
  BY <1>1, <1>2, <1>3, <1>4, StagesProvide
<1> QED BY <1>1, <1>5 DEF bs, line

LEMMA MapIncomingProvides ==
  ASSUME Compiling, NEW T, Sites(fn, T), NEW s, Good(fn, place, s), Open(T, s), s.regs = <<>>,
         NEW p \in Parts(place), NEW phi, phi.args \in Seq(STRING),
         \A k \in DOMAIN phi.args : /\ Ready(phi.args[k]) /\ phi.blocks[k] \in DOMAIN T
                                    /\ T[phi.blocks[k]] = Len(fn.body[phi.blocks[k]])
  PROVE  Provided(T, p, s, MapIncoming(s, phi, p), Len(phi.args), phi.args, phi.blocks)
<1>1. PICK after : /\ Stages("incoming", s, Len(phi.args), phi, p, 1, 1, after)
                   /\ MapIncoming(s, phi, p) = after[Len(phi.args)]
  <2>1. IncomingRuns(s, phi, p)
    BY IncomingStages
  <2> QED BY <2>1 DEF IncomingRuns
<1> DEFINE N == Len(phi.args)
<1>2. N \in Nat /\ DOMAIN phi.args = 1 .. N
  OBVIOUS
<1>3. Feeds("incoming", N, phi, p, 1, 1, T, phi.args, phi.blocks)
  <2> SUFFICES ASSUME NEW n \in 1 .. N, NEW t, Good(fn, place, t), Open(T, t)
               PROVE  Supplied(fn, place, T, p, phi.blocks[n], phi.args[n], t,
                               Supply("incoming", t, n, phi, p, 1, 1))
    BY <1>2 DEF Feeds
  <2>1. /\ Ready(phi.args[n]) /\ phi.blocks[n] \in DOMAIN T
        /\ T[phi.blocks[n]] = Len(fn.body[phi.blocks[n]])
    BY <1>2
  <2>2. Supplied(fn, place, T, p, phi.blocks[n], phi.args[n], t,
                 Available(t, phi.args[n], p, phi.blocks[n], T[phi.blocks[n]]))
    BY <2>1, AvailableSupplies
  <2>3. Supply("incoming", t, n, phi, p, 1, 1) =
          Available(t, phi.args[n], p, phi.blocks[n], Len(fn.body[phi.blocks[n]]))
    BY DEF Supply
  <2> QED BY <2>1, <2>2, <2>3
<1>4. Verified(fn)
  BY CompilingFacts
<1> HIDE DEF N
<1> QED BY <1>1, <1>2, <1>3, <1>4, StagesProvide DEF N

\* Each partition of got has a register for the condition v of block b.
Shared(T, b, v, s, t, got) ==
  /\ Good(fn, place, t) /\ Open(T, t) /\ Grows(T, s, t)
  /\ got \subseteq DOMAIN t.regs
  /\ \A q \in DOMAIN t.regs : /\ q \in Parts(place) /\ t.regs[q] \in Registers
                             /\ Gives(fn, place, t.argReg, t.code, q, b, T[b], t.regs[q], v)

LEMMA SharedMore ==
  ASSUME Compiling, NEW T, Sites(fn, T), NEW b \in DOMAIN T, T[b] = Len(fn.body[b]), NEW v \in DOMAIN place,
         NEW s, NEW t, NEW u, NEW got, Shared(T, b, v, s, t, got), NEW n \in Parts(place), place[v] # n,
         u = SendCondition(t, v, place[v], n, b)
  PROVE  Shared(T, b, v, s, u, got \cup {n})
<1> DEFINE r == Received(t.commsId)
<1>1. Verified(fn) /\ Parts(place) \subseteq Nat /\ v \in STRING
  BY CompilingFacts
<1>2. Good(fn, place, t) /\ Open(T, t) /\ Grows(T, s, t) /\ got \subseteq DOMAIN t.regs
  BY DEF Shared
<1>3. /\ Good(fn, place, u) /\ Grows(T, t, u)
      /\ u.regs = Extended(t.regs, n, r) /\ r \in Registers
      /\ Gives(fn, place, u.argReg, u.code, n, b, T[b], r, v)
  BY <1>1, <1>2, SendConditionGives
<1> HIDE DEF r
<1>4. Open(T, u) /\ Grows(T, s, u)
  BY <1>1, <1>2, <1>3, GrowsOpen, GrowsOrder
<1>5. /\ DOMAIN u.regs = DOMAIN t.regs \cup {n} /\ u.regs[n] = r
      /\ \A q \in DOMAIN t.regs : q # n => u.regs[q] = t.regs[q]
  BY <1>3 DEF Extended
<1>6. ASSUME NEW q \in DOMAIN u.regs
      PROVE  /\ q \in Parts(place) /\ u.regs[q] \in Registers
             /\ Gives(fn, place, u.argReg, u.code, q, b, T[b], u.regs[q], v)
  <2>1. CASE q = n
    BY <1>3, <1>5, <2>1
  <2>2. CASE q # n
    <3>1. q \in DOMAIN t.regs /\ u.regs[q] = t.regs[q]
      BY <1>5, <2>2
    <3>2. /\ q \in Parts(place) /\ t.regs[q] \in Registers
          /\ Gives(fn, place, t.argReg, t.code, q, b, T[b], t.regs[q], v)
      BY <3>1 DEF Shared
    <3>3. b \in Blocks(fn)
      BY DEF Sites
    <3>4. Gives(fn, place, u.argReg, u.code, q, b, T[b], t.regs[q], v)
      BY <1>2, <1>3, <3>2, <3>3, GrowsGives
    <3> QED BY <3>1, <3>2, <3>4
  <2> QED BY <2>1, <2>2
<1> QED BY <1>2, <1>3, <1>4, <1>5, <1>6 DEF Shared

LEMMA BroadcastShares ==
  ASSUME Compiling, NEW T, Sites(fn, T), NEW b \in DOMAIN T, T[b] = Len(fn.body[b]),
         NEW s, Good(fn, place, s), Open(T, s), NEW v \in DOMAIN place
  PROVE  Shared(T, b, v, s, Broadcast(s, v, place[v], b), Parts(place))
<1> DEFINE p == place[v]
           start == [s EXCEPT !.regs = [q \in {p} |-> Value(v)]]
           Upto(n) == {p} \cup {q \in Parts(place) : q < n}
<1>1. PICK after : /\ Stages("condition", start, Cores, v, p, b, 1, after)
                   /\ Broadcast(s, v, p, b) = after[Cores]
  BY ConditionStages
<1>2. /\ Cores \in Nat /\ p \in Parts(place) /\ AllPartitions = Parts(place)
      /\ Parts(place) \subseteq 0 .. Cores - 1 /\ Parts(place) \subseteq Nat
      /\ Value(v) \in Registers /\ v \notin ToSet(fn.args)
  BY CompilingFacts, PartitionsAssumption DEF Registers, IsArg
<1>3. Shared(T, b, v, s, start, {p})
  <2>1. Fields(s)
    BY DEF Good
  <2>2. Fields(start)
    BY <2>1 DEF Fields
  <2>3. /\ start.code = s.code /\ SameBut(s, start)
        /\ start.commsId = s.commsId /\ start.regs = [q \in {p} |-> Value(v)]
    BY <2>1 DEF Fields, FieldNames, SameBut
  <2> HIDE DEF start
  <2>4. Good(fn, place, start) /\ Grows(T, s, start)
    BY <2>2, <2>3, SameGood
  <2>5. Open(T, start)
    BY <2>3 DEF Open
  <2>6. Gives(fn, place, start.argReg, start.code, p, b, T[b], Value(v), v)
    BY <1>2 DEF Gives
  <2> QED BY <1>2, <2>3, <2>4, <2>5, <2>6 DEF Shared
<1> HIDE DEF start
<1> DEFINE Fine == {n \in 0 .. Cores : Shared(T, b, v, s, after[n], Upto(n))}
<1>4. 0 \in Fine
  <2>1. after[0] = start
    BY <1>1 DEF Stages
  <2>2. Upto(0) = {p}
    BY <1>2
  <2>3. Shared(T, b, v, s, after[0], Upto(0))
    BY <1>3, <2>1, <2>2
  <2> QED BY <1>2, <2>3
<1>5. ASSUME NEW n \in 0 .. Cores, n + 1 \in 0 .. Cores, n \in Fine
      PROVE  n + 1 \in Fine
  <2> DEFINE t == after[n]
             u == after[n + 1]
  <2>1. n \in Nat /\ n + 1 \in 1 .. Cores /\ n + 1 - 1 = n
    BY <1>2, <1>5
  <2>2. Shared(T, b, v, s, t, Upto(n))
    BY <1>5
  <2>3. u = IF n \in Parts(place) \ {p} THEN SendCondition(t, v, p, n, b) ELSE t
    BY <1>1, <1>2, <2>1 DEF Stages, Supply
  <2>4. Upto(n + 1) \subseteq Upto(n) \cup {n}
    BY <1>2, <2>1
  <2>5. CASE n \notin Parts(place) \ {p}
    <3>1. Upto(n + 1) \subseteq Upto(n)
      BY <2>4, <2>5
    <3> HIDE DEF t, u, Upto
    <3>2. Shared(T, b, v, s, u, Upto(n + 1))
      BY <2>2, <2>3, <2>5, <3>1 DEF Shared
    <3> QED BY <1>5, <3>2 DEF u
  <2>6. CASE n \in Parts(place) \ {p}
    <3>1. Shared(T, b, v, s, u, Upto(n) \cup {n})
      <4>1. n \in Parts(place) /\ place[v] # n /\ u = SendCondition(t, v, place[v], n, b)
        BY <2>3, <2>6
      <4> HIDE DEF t, u, Upto, p
      <4> QED BY <2>2, <4>1, SharedMore
    <3> HIDE DEF t, u, Upto
    <3>2. Shared(T, b, v, s, u, Upto(n + 1))
      BY <2>4, <3>1 DEF Shared
    <3> QED BY <1>5, <3>2 DEF u
  <2> QED BY <2>5, <2>6
<1>6. \A n \in 0 .. Cores : n \in Fine
  <2> HIDE DEF Fine
  <2> QED BY <1>2, <1>4, <1>5, UpTo
<1>7. Shared(T, b, v, s, after[Cores], Upto(Cores))
  <2>1. Cores \in Fine
    <3> HIDE DEF Fine
    <3> QED BY <1>2, <1>6
  <2> QED BY <2>1
<1>8. Upto(Cores) = Parts(place)
  BY <1>2
<1> QED BY <1>1, <1>7, <1>8

------------------------------------------------------------------------------
(* The walks. *)

Walks == {"straightline", "phi", "branch"}

Rank(ph) == IF ph = "straightline" THEN 1 ELSE IF ph = "phi" THEN 2 ELSE IF ph = "branch" THEN 3 ELSE 4

\* Walk w has visited instruction k of block b.
Past(f, w, ph, nx, b, k) ==
  \/ w < Rank(ph)
  \/ /\ w = Rank(ph)
     /\ \E m \in DOMAIN Dfs(Cfg(f)) :
          /\ Dfs(Cfg(f))[m] = b
          /\ m < nx[1] \/ (m = nx[1] /\ k < nx[2])

\* The copy of instruction k of block b, and the end of the copies of block b.
Copied(f, pl, c, b, k) ==
  \E i \in ToSet(c[pl[f.body[b][k].name]][b]) :
    /\ i.do = "exec" /\ i.line = k
    /\ f.body[b][k].op # "phi" => DOMAIN i.args = DOMAIN f.body[b][k].args

Filled(f, pl, c, b, k) ==
  \E i \in ToSet(c[pl[f.body[b][k].name]][b]) :
    i.do = "exec" /\ i.line = k /\ DOMAIN i.args = DOMAIN f.body[b][k].args

Ended(c, b) == \A p \in DOMAIN c : \E i \in ToSet(c[p][b]) : Terminal(i)

\* What walk w leaves behind for instruction k of block b.
Visited(f, pl, c, mp, la, w, b, k) ==
  LET j == f.body[b][k]
  IN  /\ w = 1 => /\ j.op \notin {"ret", "br"} => j.name \in mp
                  /\ j.op \notin {"alloca", "br"} => pl[j.name] \in la
                  /\ j.op \notin {"alloca", "ret", "br"} => Copied(f, pl, c, b, k)
                  /\ j.op = "ret" => Ended(c, b)
      /\ w = 2 /\ j.op = "phi" => Filled(f, pl, c, b, k)
      /\ w = 3 /\ j.op = "br" => Ended(c, b)

Walked(f, pl, c, mp, la, ph, nx) ==
  \A w \in 1 .. 3 : \A b \in Blocks(f) : \A k \in DOMAIN f.body[b] :
    Past(f, w, ph, nx, b, k) => Visited(f, pl, c, mp, la, w, b, k)

\* No item is there before the visit that emits it.
OnTime(f, ph, nx, b, i) ==
  /\ i.do # "peek" => Past(f, 1, ph, nx, b, i.line)
  /\ i.do = "exec" /\ i.op = "br" => Past(f, 3, ph, nx, b, i.line)

Timely(f, c, ph, nx) ==
  \A p \in DOMAIN c : \A b \in Blocks(f) : \A i \in ToSet(c[p][b]) : OnTime(f, ph, nx, b, i)

Position(f, nx) ==
  /\ nx \in Nat \X Nat
  /\ nx[1] \in 1 .. Len(Dfs(Cfg(f)))
  /\ nx[2] \in 1 .. Len(f.body[Dfs(Cfg(f))[nx[1]]])

\* The calls of the replace_ function.
HostShape(f, args, h) ==
  /\ Len(h) \in Nat /\ Len(h) >= 2 /\ DOMAIN h = 1 .. Len(h)
  /\ \A n \in DOMAIN h :
       /\ h[n].do = "spawn" <=> n = 1
       /\ h[n].do = "join" <=> n = Len(h)
       /\ h[n].do = "send_argument" =>
            \E d \in DOMAIN args : args[d] = Argument(h[n].at) /\ h[n].val = Value(d[2])
  /\ (\E i \in Instrs(f) : i.op = "ret" /\ i.args # <<>>) =>
       \E n \in DOMAIN h : h[n].do = "receive_return"

EmitInv ==
  /\ Compiling
  /\ Good(fn, place, Emitted)
  /\ phase \in Walks \cup {"host", "failed", "done"}
  /\ phase # "done" => Hosted(Emitted)
  /\ phase = "done" => HostShape(fn, argReg, host)
  /\ phase \in Walks => Position(fn, next)
  /\ phase # "failed" => /\ Walked(fn, place, code, mapped, launched, phase, next)
                         /\ Timely(fn, code, phase, next)

LEMMA CfgGraph ==
  ASSUME NEW f, Verified(f)
  PROVE  /\ Graph(Cfg(f)) /\ DOMAIN Cfg(f) = Blocks(f) /\ Len(f.body) \in Nat
         /\ \A b \in Blocks(f) : /\ f.body[b] \in Seq(Instruction) /\ Len(f.body[b]) \in Nat \ {0}
                                 /\ DOMAIN f.body[b] = 1 .. Len(f.body[b])
<1>1. f.body \in Seq(Seq(Instruction)) /\ f.body # <<>>
  BY DEF Verified
<1>2. Len(f.body) \in Nat \ {0} /\ Blocks(f) = 1 .. Len(f.body)
  BY <1>1 DEF Blocks
<1>3. ASSUME NEW b \in Blocks(f)
      PROVE  /\ f.body[b] \in Seq(Instruction) /\ Len(f.body[b]) \in Nat \ {0}
             /\ DOMAIN f.body[b] = 1 .. Len(f.body[b])
  <2>1. f.body[b] \in Seq(Instruction)
    BY <1>1 DEF Blocks
  <2>2. f.body[b] # <<>>
    BY DEF Verified
  <2> QED BY <2>1, <2>2
<1>4. ASSUME NEW b \in Blocks(f)
      PROVE  Cfg(f)[b] \in Seq(Blocks(f))
  <2> DEFINE t == Last(f.body[b])
  <2>1. Len(f.body[b]) \in DOMAIN f.body[b] /\ t = f.body[b][Len(f.body[b])]
    BY <1>3 DEF Last
  <2>2. t \in Instruction /\ ToSet(t.blocks) \subseteq Blocks(f)
    BY <1>3, <2>1 DEF Verified
  <2> HIDE DEF t
  <2>3. t.blocks \in Seq(Nat)
    BY <2>2 DEF Instruction
  <2>4. t.blocks \in Seq(Blocks(f))
    <3>1. \A n \in DOMAIN t.blocks : t.blocks[n] \in Blocks(f)
      BY <2>2 DEF ToSet
    <3> QED BY <2>3, <3>1
  <2>5. Cfg(f)[b] = IF t.op = "br" THEN t.blocks ELSE <<>>
    BY DEF Cfg, t
  <2> QED BY <2>4, <2>5
<1>5. DOMAIN Cfg(f) = Blocks(f) /\ Cfg(f) = [b \in Blocks(f) |-> Cfg(f)[b]]
  BY DEF Cfg
<1>6. Cfg(f) \in Seq(Seq(Blocks(f)))
  <2> DEFINE g == Cfg(f)
             B == Blocks(f)
  <2>1. \A b \in B : g[b] \in Seq(B)
    BY <1>4
  <2>2. g = [b \in 1 .. Len(f.body) |-> g[b]] /\ B = 1 .. Len(f.body)
    BY <1>2, <1>5
  <2> HIDE DEF g, B
  <2>3. g \in [1 .. Len(f.body) -> Seq(B)]
    BY <2>1, <2>2
  <2>4. g \in Seq(Seq(B))
    BY <1>2, <2>3
  <2> QED BY <2>4 DEF g, B
<1>7. 1 \in Blocks(f)
  BY <1>2
<1> QED BY <1>2, <1>3, <1>5, <1>6, <1>7 DEF Graph

LEMMA InstrAt ==
  ASSUME NEW f, Verified(f), NEW b \in Blocks(f), NEW n \in DOMAIN f.body[b]
  PROVE  LET i == f.body[b][n]
         IN  /\ i \in Instrs(f) /\ i \in Instruction
             /\ i.op \in {"ret", "br"} <=> n = Len(f.body[b])
             /\ i.name \in STRING /\ i.args \in Seq(STRING) /\ i.blocks \in Seq(Nat)
             /\ i.op # "br" => i \in Placed(f)
             /\ ToSet(i.blocks) \subseteq Blocks(f)
             /\ i.op = "phi" => Len(i.blocks) = Len(i.args)
<1> DEFINE i == f.body[b][n]
<1>1. i \in ToSet(f.body[b])
  BY DEF ToSet
<1>2. i \in Instrs(f)
  BY <1>1 DEF Instrs
<1>3. i \in Instruction
  BY <1>2, InstrFacts
<1>4. /\ i.op \in {"ret", "br"} <=> n = Len(f.body[b])
      /\ ToSet(i.blocks) \subseteq Blocks(f)
      /\ i.op = "phi" => Len(i.blocks) = Len(i.args)
  BY DEF Verified
<1>5. i.op # "br" => i \in Placed(f)
  BY <1>2 DEF Placed
<1> HIDE DEF i
<1>6. i.name \in STRING /\ i.args \in Seq(STRING) /\ i.blocks \in Seq(Nat)
  BY <1>3 DEF Instruction
<1> QED BY <1>2, <1>3, <1>4, <1>5, <1>6 DEF i

LEMMA UseDefined ==
  ASSUME NEW f, Verified(f), NEW b \in Blocks(f), NEW n \in DOMAIN f.body[b],
         NEW k \in DOMAIN f.body[b][n].args
  PROVE  LET i == f.body[b][n]
         IN  \/ i.args[k] \in ToSet(f.args) \cup DOMAIN f.consts
             \/ i.op # "phi" /\ Defines(f, i.args[k], b, n)
             \/ i.op = "phi" /\ Defines(f, i.args[k], i.blocks[k], Len(f.body[i.blocks[k]]) + 1)
BY DEF Verified


\* The instruction the walk has come to.
LEMMA CurrentFacts ==
  ASSUME EmitInv, phase \in Walks
  PROVE  /\ Compiling /\ Good(fn, place, Emitted) /\ Hosted(Emitted) /\ Verified(fn)
         /\ next[1] \in DOMAIN Order /\ Block \in Blocks(fn) /\ next[2] \in DOMAIN fn.body[Block]
         /\ next[1] \in Nat /\ next[2] \in Nat
         /\ Order[next[1]] = Block
         /\ Current = fn.body[Block][next[2]]
         /\ Current \in Instrs(fn) /\ Current \in Instruction
         /\ Current.op # "br" => Current.name \in DOMAIN place /\ Part \in Parts(place)
<1>1. Compiling /\ Good(fn, place, Emitted) /\ Hosted(Emitted) /\ Position(fn, next)
  BY DEF EmitInv, Walks
<1>2. Verified(fn)
  BY <1>1, CompilingFacts
<1>3. Graph(Cfg(fn)) /\ DOMAIN Cfg(fn) = Blocks(fn)
  BY <1>2, CfgGraph
<1>4. Order \in Seq(Blocks(fn)) /\ Len(Order) \in Nat /\ DOMAIN Order = 1 .. Len(Order)
  BY <1>3, OrderFacts DEF Order
<1>5. next[1] \in DOMAIN Order /\ next[1] \in Nat /\ next[2] \in Nat
  BY <1>1, <1>4 DEF Position, Order
<1>6. Block \in Blocks(fn) /\ Order[next[1]] = Block
  BY <1>4, <1>5 DEF Block
<1>7. next[2] \in DOMAIN fn.body[Block]
  BY <1>1, <1>2, <1>6, CfgGraph DEF Position, Order, Block
<1>8. Current \in Instrs(fn) /\ Current \in Instruction /\ (Current.op # "br" => Current \in Placed(fn))
  BY <1>2, <1>6, <1>7, InstrAt DEF Current
<1>9. Current.op # "br" => Current.name \in DOMAIN place /\ Part \in Parts(place)
  BY <1>1, <1>8, CompilingFacts DEF Part
<1>10. Current = fn.body[Block][next[2]]
  BY DEF Current
<1> QED BY <1>1, <1>2, <1>5, <1>6, <1>7, <1>8, <1>9, <1>10

\* The walk has passed what comes before instruction n of block b.
PastBefore(b, n) ==
  \A c \in Blocks(fn) : \A m \in DOMAIN fn.body[c] :
    (c = b /\ m < n) \/ (c # b /\ Dominates(Cfg(fn), c, b)) => Past(fn, 1, phase, next, c, m)

\* A definition the walk has passed has a copy.
LEMMA DefinedReady ==
  ASSUME EmitInv, phase # "failed", NEW v \in STRING, NEW b \in Blocks(fn), NEW n, Defines(fn, v, b, n),
         PastBefore(b, n)
  PROVE  Ready(v)
<1>1. PICK c \in Blocks(fn) : \E m \in DOMAIN fn.body[c] :
        /\ fn.body[c][m].name = v
        /\ fn.body[c][m].op \notin {"ret", "br"}
        /\ \/ c = b /\ m < n
           \/ c # b /\ Dominates(Cfg(fn), c, b)
  BY DEF Defines
<1>2. PICK m \in DOMAIN fn.body[c] :
        /\ fn.body[c][m].name = v
        /\ fn.body[c][m].op \notin {"ret", "br"}
        /\ \/ c = b /\ m < n
           \/ c # b /\ Dominates(Cfg(fn), c, b)
  BY <1>1
<1>3. Past(fn, 1, phase, next, c, m)
  BY <1>2 DEF PastBefore
<1>4. v \in mapped
  <2>1. Visited(fn, place, code, mapped, launched, 1, c, m)
    BY <1>3 DEF EmitInv, Walked
  <2> QED BY <1>2, <2>1 DEF Visited
<1> QED BY <1>4 DEF Ready

\* In the first walk the operands of an instruction have a copy, ...
LEMMA OperandsReady ==
  ASSUME EmitInv, phase = "straightline", Current.op # "phi"
  PROVE  \A k \in DOMAIN Current.args : Ready(Current.args[k])
<1> SUFFICES ASSUME NEW k \in DOMAIN Current.args PROVE Ready(Current.args[k])
  OBVIOUS
<1> DEFINE v == Current.args[k]
<1>1. /\ Compiling /\ next[1] \in DOMAIN Order
      /\ Block \in Blocks(fn) /\ next[2] \in DOMAIN fn.body[Block]
  BY CurrentFacts DEF Walks
<1>2. Verified(fn)
  BY <1>1, CompilingFacts
<1>3. Current.args \in Seq(STRING)
  BY <1>1, <1>2, InstrAt DEF Current
<1>4. v \in STRING
  BY <1>3
<1>5. v \in ToSet(fn.args) \cup DOMAIN fn.consts \/ Defines(fn, v, Block, next[2])
  BY <1>1, <1>2, UseDefined DEF Current
<1>6. CASE v \in ToSet(fn.args) \cup DOMAIN fn.consts
  BY <1>4, <1>6 DEF Ready, IsArg
<1>7. CASE Defines(fn, v, Block, next[2])
  <2>1. ASSUME NEW c \in Blocks(fn), NEW m \in DOMAIN fn.body[c], c = Block, m < next[2]
        PROVE  Past(fn, 1, phase, next, c, m)
    BY <1>1, <2>1 DEF Past, Rank, Order, Block
  <2>2. ASSUME NEW c \in Blocks(fn), NEW m \in DOMAIN fn.body[c], c # Block,
               Dominates(Cfg(fn), c, Block)
        PROVE  Past(fn, 1, phase, next, c, m)
    <3>1. Graph(Cfg(fn))
      BY <1>2, CfgGraph
    <3>2. PICK i \in DOMAIN Order : i <= next[1] /\ Order[i] = c
      BY <1>1, <2>2, <3>1, OrderFacts DEF Order, Block
    <3>3. i # next[1]
      BY <2>2, <3>2 DEF Block
    <3>4. i \in Nat /\ next[1] \in Nat
      <4>1. Order \in Seq(DOMAIN Cfg(fn))
        BY <3>1, OrderFacts DEF Order
      <4>2. DOMAIN Order = 1 .. Len(Order) /\ Len(Order) \in Nat
        BY <4>1
      <4> QED BY <1>1, <4>2
    <3>5. i < next[1]
      BY <3>2, <3>3, <3>4
    <3> QED BY <3>2, <3>5 DEF Past, Rank, Order
  <2> HIDE DEF v
  <2>3. PastBefore(Block, next[2])
    BY <2>1, <2>2 DEF PastBefore
  <2>4. Ready(v)
    BY <1>1, <1>4, <1>7, <2>3, DefinedReady
  <2> QED BY <2>4 DEF v
<1> QED BY <1>5, <1>6, <1>7

\* ... and after it all values have one.
LEMMA IncomingReady ==
  ASSUME EmitInv, phase = "phi", Current.op = "phi"
  PROVE  \A k \in DOMAIN Current.args :
           Ready(Current.args[k]) /\ Current.blocks[k] \in Blocks(fn)
<1> SUFFICES ASSUME NEW k \in DOMAIN Current.args
             PROVE  Ready(Current.args[k]) /\ Current.blocks[k] \in Blocks(fn)
  OBVIOUS
<1> DEFINE v == Current.args[k]
           d == Current.blocks[k]
<1>1. /\ Compiling /\ Block \in Blocks(fn) /\ next[2] \in DOMAIN fn.body[Block]
  BY CurrentFacts DEF Walks
<1>2. Verified(fn)
  BY <1>1, CompilingFacts
<1>3. /\ Current.args \in Seq(STRING) /\ Current.blocks \in Seq(Nat)
      /\ ToSet(Current.blocks) \subseteq Blocks(fn) /\ Len(Current.blocks) = Len(Current.args)
  BY <1>1, <1>2, InstrAt DEF Current
<1>4. v \in STRING /\ d \in Blocks(fn)
  <2>1. k \in DOMAIN Current.blocks
    BY <1>3
  <2> QED BY <1>3, <2>1 DEF ToSet
<1>5. \/ v \in ToSet(fn.args) \cup DOMAIN fn.consts
      \/ Defines(fn, v, d, Len(fn.body[d]) + 1)
  BY <1>1, <1>2, UseDefined DEF Current
<1>6. CASE v \in ToSet(fn.args) \cup DOMAIN fn.consts
  BY <1>4, <1>6 DEF Ready, IsArg
<1>7. CASE Defines(fn, v, d, Len(fn.body[d]) + 1)
  <2> HIDE DEF v, d
  <2>1. PastBefore(d, Len(fn.body[d]) + 1)
    BY DEF PastBefore, Past, Rank
  <2>2. Ready(v)
    BY <1>4, <1>7, <2>1, DefinedReady
  <2> QED BY <1>4, <2>2 DEF v, d
<1> QED BY <1>4, <1>5, <1>6, <1>7

\* What a step of a walk passes is the instruction it has come to.

\* The walks follow one another.
Follows(following) ==
  \/ phase = "straightline" /\ following = "phi"
  \/ phase = "phi" /\ following = "branch"
  \/ phase = "branch" /\ following = "host"

LEMMA StepOfWalk ==
  ASSUME EmitInv, NEW following, Follows(following), Advance(following)
  PROVE  /\ phase \in Walks /\ Rank(phase) \in 1 .. 3
         /\ UNCHANGED <<fn, place>>
         /\ Len(Order) \in Nat /\ DOMAIN Order = 1 .. Len(Order)
         /\ \A b \in Blocks(fn) : Len(fn.body[b]) \in Nat \ {0} /\ DOMAIN fn.body[b] = 1 .. Len(fn.body[b])
         /\ \A m \in DOMAIN Order : Order[m] \in Blocks(fn)
         /\ \A m, n \in DOMAIN Order : Order[m] = Order[n] => m = n
         /\ \A b \in Blocks(fn) : \E m \in DOMAIN Order : Order[m] = b
         /\ \/ /\ Rank(phase') = Rank(phase)
               /\ next[2] < Len(fn.body[Block]) /\ next' = <<next[1], next[2] + 1>>
            \/ /\ Rank(phase') = Rank(phase)
               /\ next[2] = Len(fn.body[Block]) /\ next[1] < Len(Order) /\ next' = <<next[1] + 1, 1>>
            \/ /\ Rank(phase') = Rank(phase) + 1
               /\ next[1] = Len(Order) /\ next[2] = Len(fn.body[Block]) /\ next' = <<1, 1>>
<1>1. phase \in Walks /\ Rank(phase) \in 1 .. 3 /\ Rank(following) = Rank(phase) + 1
  BY DEF Follows, Walks, Rank
<1>2. Compiling /\ Verified(fn) /\ AllSorted(Cfg(fn))
  BY <1>1, CurrentFacts, CompilingFacts
<1>3. /\ Graph(Cfg(fn)) /\ DOMAIN Cfg(fn) = Blocks(fn)
      /\ \A b \in Blocks(fn) : Len(fn.body[b]) \in Nat \ {0} /\ DOMAIN fn.body[b] = 1 .. Len(fn.body[b])
  BY <1>2, CfgGraph
<1>4. Order \in Seq(Blocks(fn)) /\ \A m, n \in DOMAIN Order : Order[m] = Order[n] => m = n
  BY <1>3, OrderFacts DEF Order
<1>5. Len(Order) \in Nat /\ DOMAIN Order = 1 .. Len(Order) /\ \A m \in DOMAIN Order : Order[m] \in Blocks(fn)
  BY <1>4
<1>6. \A b \in Blocks(fn) : \E m \in DOMAIN Order : Order[m] = b
  <2>1. ToSet(Order) = Blocks(fn)
    BY <1>2, <1>3, OrderComplete DEF Order
  <2> QED BY <2>1 DEF ToSet
<1>7. \/ /\ phase' = phase
         /\ next[2] < Len(fn.body[Block]) /\ next' = <<next[1], next[2] + 1>>
      \/ /\ phase' = phase
         /\ next[2] = Len(fn.body[Block]) /\ next[1] < Len(Order) /\ next' = <<next[1] + 1, 1>>
      \/ /\ phase' = following
         /\ next[1] = Len(Order) /\ next[2] = Len(fn.body[Block]) /\ next' = <<1, 1>>
  BY DEF Advance
<1>8. UNCHANGED <<fn, place>>
  BY DEF Advance
<1> QED BY <1>1, <1>3, <1>4, <1>5, <1>6, <1>7, <1>8

\* What a step of a walk passes is the instruction it has come to.
LEMMA VisitPasses ==
  ASSUME EmitInv, NEW following, Follows(following), Advance(following),
         NEW w \in 1 .. 3, NEW b \in Blocks(fn), NEW k \in DOMAIN fn.body[b]
  PROVE  /\ Past(fn, w, phase', next', b, k) =>
              Past(fn, w, phase, next, b, k) \/ (w = Rank(phase) /\ b = Block /\ k = next[2])
         /\ Past(fn, w, phase, next, b, k) => Past(fn, w, phase', next', b, k)
         /\ w = Rank(phase) /\ b = Block /\ k = next[2] => Past(fn, w, phase', next', b, k)
<1> DEFINE y == Rank(phase)
           z == Rank(phase')
           N == Len(Order)
<1>1. /\ y \in 1 .. 3 /\ N \in Nat /\ DOMAIN Order = 1 .. N
      /\ \A c \in Blocks(fn) : Len(fn.body[c]) \in Nat \ {0} /\ DOMAIN fn.body[c] = 1 .. Len(fn.body[c])
      /\ \A m, n \in DOMAIN Order : Order[m] = Order[n] => m = n
      /\ \/ z = y /\ next[2] < Len(fn.body[Block]) /\ next' = <<next[1], next[2] + 1>>
         \/ z = y /\ next[2] = Len(fn.body[Block]) /\ next[1] < N /\ next' = <<next[1] + 1, 1>>
         \/ z = y + 1 /\ next[1] = N /\ next[2] = Len(fn.body[Block]) /\ next' = <<1, 1>>
      /\ \E m \in DOMAIN Order : Order[m] = b
  BY StepOfWalk
<1>2. /\ next[1] \in DOMAIN Order /\ Block \in Blocks(fn) /\ next[2] \in DOMAIN fn.body[Block]
      /\ next[1] \in Nat /\ next[2] \in Nat /\ Order[next[1]] = Block
  BY StepOfWalk, CurrentFacts
<1>3. PICK x \in DOMAIN Order : Order[x] = b
  BY <1>1
<1>4. Past(fn, w, phase, next, b, k) <=> w < y \/ (w = y /\ (x < next[1] \/ (x = next[1] /\ k < next[2])))
  BY <1>1, <1>3 DEF Past, Order
<1>5. Past(fn, w, phase', next', b, k) <=> w < z \/ (w = z /\ (x < next'[1] \/ (x = next'[1] /\ k < next'[2])))
  BY <1>1, <1>3 DEF Past, Order
<1>6. (b = Block <=> x = next[1]) /\ x \in Nat /\ x <= N /\ x >= 1 /\ k \in Nat /\ k >= 1 /\ k <= Len(fn.body[b])
  BY <1>1, <1>2, <1>3
<1> HIDE DEF y, z, N
<1>7. CASE z = y /\ next[2] < Len(fn.body[Block]) /\ next' = <<next[1], next[2] + 1>>
  <2>1. next'[1] = next[1] /\ next'[2] = next[2] + 1
    BY <1>7
  <2> QED BY <1>1, <1>2, <1>4, <1>5, <1>6, <1>7, <2>1 DEF y
<1>8. CASE z = y /\ next[2] = Len(fn.body[Block]) /\ next[1] < N /\ next' = <<next[1] + 1, 1>>
  <2>1. next'[1] = next[1] + 1 /\ next'[2] = 1
    BY <1>8
  <2> QED BY <1>1, <1>2, <1>4, <1>5, <1>6, <1>8, <2>1 DEF y
<1>9. CASE z = y + 1 /\ next[1] = N /\ next[2] = Len(fn.body[Block]) /\ next' = <<1, 1>>
  <2>1. next'[1] = 1 /\ next'[2] = 1
    BY <1>9
  <2> QED BY <1>1, <1>2, <1>4, <1>5, <1>6, <1>9, <2>1 DEF y
<1> QED BY <1>1, <1>7, <1>8, <1>9

LEMMA PositionKept ==
  ASSUME EmitInv, NEW following, Follows(following), Advance(following)
  PROVE  Position(fn, next')
<1>1. /\ next[1] \in DOMAIN Order /\ Block \in Blocks(fn) /\ next[2] \in DOMAIN fn.body[Block]
      /\ next[1] \in Nat /\ next[2] \in Nat /\ Order[next[1]] = Block
  BY StepOfWalk, CurrentFacts
<1>2. /\ Len(Order) \in Nat /\ DOMAIN Order = 1 .. Len(Order)
      /\ \A m \in DOMAIN Order : Order[m] \in Blocks(fn)
      /\ \A c \in Blocks(fn) : Len(fn.body[c]) \in Nat \ {0} /\ DOMAIN fn.body[c] = 1 .. Len(fn.body[c])
  BY StepOfWalk
<1>3. \/ next[2] < Len(fn.body[Block]) /\ next' = <<next[1], next[2] + 1>>
      \/ next[1] < Len(Order) /\ next' = <<next[1] + 1, 1>>
      \/ next' = <<1, 1>>
  BY StepOfWalk
<1>5. ASSUME NEW m \in 1 .. Len(Order), NEW k \in 1 .. Len(fn.body[Order[m]]), next' = <<m, k>>
      PROVE  Position(fn, next')
  <2>1. Order[m] \in Blocks(fn)
    BY <1>2
  <2>2. m \in Nat /\ k \in Nat
    BY <1>2, <2>1
  <2> QED BY <1>5, <2>2 DEF Position, Order
<1>6. \A m \in 1 .. Len(Order) : 1 \in 1 .. Len(fn.body[Order[m]])
  <2> TAKE m \in 1 .. Len(Order)
  <2>1. Order[m] \in Blocks(fn)
    BY <1>2
  <2> QED BY <1>2, <2>1
<1>7. CASE next[2] < Len(fn.body[Block]) /\ next' = <<next[1], next[2] + 1>>
  <2>1. next[1] \in 1 .. Len(Order)
    BY <1>1, <1>2
  <2>2. next[2] + 1 \in 1 .. Len(fn.body[Order[next[1]]])
    BY <1>1, <1>2, <1>7
  <2> QED BY <1>5, <1>7, <2>1, <2>2
<1>8. CASE next[1] < Len(Order) /\ next' = <<next[1] + 1, 1>>
  <2>1. next[1] + 1 \in 1 .. Len(Order)
    BY <1>1, <1>2, <1>8
  <2> QED BY <1>5, <1>6, <1>8, <2>1
<1>9. CASE next' = <<1, 1>>
  <2>1. 1 \in 1 .. Len(Order)
    BY <1>1, <1>2
  <2> QED BY <1>5, <1>6, <1>9, <2>1
<1> QED BY <1>3, <1>7, <1>8, <1>9

\* What holds of an item because of its line.
LEMMA ItemLine ==
  ASSUME EmitInv, NEW p \in Parts(place), NEW b \in Blocks(fn), NEW i \in ToSet(code[p][b])
  PROVE  /\ i.line \in DOMAIN fn.body[b] /\ i.line \in Nat /\ Len(fn.body[b]) \in Nat \ {0}
         /\ 1 <= i.line /\ i.line <= Len(fn.body[b])
         /\ i.do = "exec" => /\ i.op = fn.body[b][i.line].op
                             /\ i.line = Len(fn.body[b]) => i.op = "br"
                             /\ i.op = "br" => i.line = Len(fn.body[b])
         /\ i.do \in {"send_return", "ret"} => i.line = Len(fn.body[b]) /\ fn.body[b][i.line].op = "ret"
         /\ i.do = "peek" => i.line = 1
         /\ Terminal(i) => i.do # "peek"
<1>1. Compiling /\ Good(fn, place, Emitted) /\ Verified(fn) /\ Emitted.code = code
  BY CompilingFacts DEF EmitInv, Emitted
<1>2. \A q \in Parts(place) : \A c \in Blocks(fn) : \A x \in ToSet(code[q][c]) :
        ItemOK(fn, place, Emitted.argReg, code, q, c, x)
  <2>1. \A q \in Parts(place) : \A c \in Blocks(fn) : \A x \in ToSet(Emitted.code[q][c]) :
          ItemOK(fn, place, Emitted.argReg, Emitted.code, q, c, x)
    BY <1>1, GoodRows
  <2> QED BY <1>1, <2>1
<1>3. ItemOK(fn, place, Emitted.argReg, code, p, b, i)
  BY <1>2
<1>4. Len(fn.body[b]) \in Nat \ {0} /\ DOMAIN fn.body[b] = 1 .. Len(fn.body[b])
  BY <1>1, CfgGraph
<1>5. i.line \in DOMAIN fn.body[b]
  BY <1>3 DEF ItemOK
<1>6. /\ fn.body[b][i.line].op \in {"ret", "br"} <=> i.line = Len(fn.body[b])
      /\ fn.body[b][Len(fn.body[b])].op \in {"ret", "br"}
  BY <1>1, <1>4, <1>5, InstrAt
<1>7. i.do = "exec" => ExecOK(fn, place, Emitted.argReg, code, p, b, i)
  BY <1>3 DEF ItemOK
<1>8. i.do = "exec" => i.op = fn.body[b][i.line].op /\ i.op # "ret"
  BY <1>7 DEF ExecOK
<1>9. i.do \in {"send_return", "ret"} => i.line = Len(fn.body[b]) /\ Last(fn.body[b]).op = "ret"
  BY <1>3 DEF ItemOK, ReturnOK
<1>10. i.do = "peek" => i.line = 1
  BY <1>3 DEF ItemOK, PeekOK
<1>11. Last(fn.body[b]) = fn.body[b][Len(fn.body[b])]
  BY DEF Last
<1> QED BY <1>4, <1>5, <1>6, <1>8, <1>9, <1>10, <1>11 DEF Terminal

\* In the first walk the items of the block are those of earlier instructions, ...
LEMMA StraightlineOpen ==
  ASSUME EmitInv, phase = "straightline", NEW T, T = [b \in {Block} |-> next[2]]
  PROVE  Open(T, Emitted) /\ (Current.op # "phi" => Sites(fn, T))
<1>1. /\ next[1] \in DOMAIN Order /\ Block \in Blocks(fn) /\ next[2] \in DOMAIN fn.body[Block]
      /\ next[1] \in Nat /\ next[2] \in Nat /\ Order[next[1]] = Block
      /\ Current = fn.body[Block][next[2]]
      /\ Good(fn, place, Emitted) /\ Verified(fn)
  BY CurrentFacts DEF Walks
<1>2. DOMAIN Emitted.code = Parts(place) /\ Emitted.code = code
  <2>1. DOMAIN Emitted.code = Parts(place)
    BY <1>1, GoodRows
  <2> QED BY <2>1 DEF Emitted
<1>3. \A m, n \in DOMAIN Order : Order[m] = Order[n] => m = n
  <2>1. Graph(Cfg(fn))
    BY <1>1, CfgGraph
  <2> QED BY <2>1, OrderFacts DEF Order
<1>4. Current.op # "phi" => Sites(fn, T)
  BY <1>1 DEF Sites
<1>5. ASSUME NEW p \in Parts(place), NEW i \in ToSet(code[p][Block])
      PROVE  /\ i.line <= next[2]
             /\ i.do = "exec" => i.line < next[2]
             /\ i.do # "send_return" /\ ~Terminal(i)
  <2>1. OnTime(fn, phase, next, Block, i)
    BY <1>1, <1>2 DEF EmitInv, Timely
  <2>2. ~Past(fn, 3, phase, next, Block, i.line)
    BY DEF Past, Rank
  <2>3. Past(fn, 1, phase, next, Block, i.line) => i.line < next[2]
    <3> SUFFICES ASSUME Past(fn, 1, phase, next, Block, i.line) PROVE i.line < next[2]
      OBVIOUS
    <3>1. PICK m \in DOMAIN Order : Order[m] = Block /\ (m < next[1] \/ (m = next[1] /\ i.line < next[2]))
      BY DEF Past, Rank, Order
    <3>2. m = next[1]
      BY <1>1, <1>3, <3>1
    <3> QED BY <1>1, <3>1, <3>2
  <2>4. /\ i.line \in Nat /\ 1 <= i.line /\ i.line <= Len(fn.body[Block])
        /\ i.do \in {"send_return", "ret"} => i.line = Len(fn.body[Block])
        /\ i.do = "peek" => i.line = 1
    BY <1>1, ItemLine
  <2>5. Len(fn.body[Block]) \in Nat /\ next[2] <= Len(fn.body[Block]) /\ 1 <= next[2]
    <3>1. Len(fn.body[Block]) \in Nat /\ DOMAIN fn.body[Block] = 1 .. Len(fn.body[Block])
      BY <1>1, CfgGraph
    <3> QED BY <1>1, <3>1
  <2> QED BY <1>1, <2>1, <2>2, <2>3, <2>4, <2>5 DEF OnTime, Terminal
<1>6. Open(T, Emitted)
  <2>1. DOMAIN T = {Block} /\ T[Block] = next[2]
    OBVIOUS
  <2> QED BY <1>2, <1>5, <2>1 DEF Open
<1> QED BY <1>4, <1>6

\* ... in the second the blocks that branch have no end, ...
Branching(f) == {b \in Blocks(f) : f.body[b][Len(f.body[b])].op = "br"}

LEMMA PhiOpen ==
  ASSUME EmitInv, phase = "phi", NEW T, T = [b \in Branching(fn) |-> Len(fn.body[b])]
  PROVE  Sites(fn, T) /\ Open(T, Emitted)
<1>1. Good(fn, place, Emitted) /\ Verified(fn)
  BY CurrentFacts DEF Walks
<1>2. DOMAIN Emitted.code = Parts(place) /\ Emitted.code = code
  <2>1. DOMAIN Emitted.code = Parts(place)
    BY <1>1, GoodRows
  <2> QED BY <2>1 DEF Emitted
<1>3. \A b \in Branching(fn) : b \in Blocks(fn) /\ T[b] = Len(fn.body[b]) /\ fn.body[b][T[b]].op = "br"
  BY DEF Branching
<1>4. Sites(fn, T)
  <2>1. \A b \in Branching(fn) : T[b] \in DOMAIN fn.body[b]
    BY <1>1, <1>3, CfgGraph
  <2> QED BY <1>3, <2>1 DEF Sites
<1>5. ASSUME NEW b \in Branching(fn), NEW p \in Parts(place), NEW i \in ToSet(code[p][b])
      PROVE  /\ i.line <= T[b]
             /\ i.do = "exec" => i.line < T[b]
             /\ i.do # "send_return" /\ ~Terminal(i)
  <2>1. OnTime(fn, phase, next, b, i)
    BY <1>2, <1>3 DEF EmitInv, Timely
  <2>2. ~Past(fn, 3, phase, next, b, i.line)
    BY DEF Past, Rank
  <2>3. /\ i.line \in Nat /\ Len(fn.body[b]) \in Nat /\ i.line <= Len(fn.body[b])
        /\ i.do = "exec" => (i.line = Len(fn.body[b]) => i.op = "br")
        /\ i.do \in {"send_return", "ret"} => i.line = Len(fn.body[b]) /\ fn.body[b][i.line].op = "ret"
    BY <1>3, ItemLine
  <2> QED BY <1>3, <2>1, <2>2, <2>3 DEF OnTime, Terminal
<1>6. Open(T, Emitted)
  <2>1. DOMAIN T = Branching(fn)
    OBVIOUS
  <2> QED BY <1>2, <1>5, <2>1 DEF Open
<1> QED BY <1>4, <1>6

\* ... and in the third the block has no branch before its visit.
LEMMA BranchOpen ==
  ASSUME EmitInv, phase = "branch", Current.op = "br", NEW T, T = [b \in {Block} |-> next[2]]
  PROVE  Sites(fn, T) /\ Open(T, Emitted) /\ next[2] = Len(fn.body[Block])
<1>1. /\ next[1] \in DOMAIN Order /\ Block \in Blocks(fn) /\ next[2] \in DOMAIN fn.body[Block]
      /\ next[1] \in Nat /\ next[2] \in Nat /\ Order[next[1]] = Block
      /\ Current = fn.body[Block][next[2]]
      /\ Good(fn, place, Emitted) /\ Verified(fn)
  BY CurrentFacts DEF Walks
<1>2. DOMAIN Emitted.code = Parts(place) /\ Emitted.code = code
  <2>1. DOMAIN Emitted.code = Parts(place)
    BY <1>1, GoodRows
  <2> QED BY <2>1 DEF Emitted
<1>3. \A m, n \in DOMAIN Order : Order[m] = Order[n] => m = n
  <2>1. Graph(Cfg(fn))
    BY <1>1, CfgGraph
  <2> QED BY <2>1, OrderFacts DEF Order
<1>4. Sites(fn, T)
  BY <1>1 DEF Sites
<1>7. next[2] = Len(fn.body[Block])
  BY <1>1, InstrAt
<1>5. ASSUME NEW p \in Parts(place), NEW i \in ToSet(code[p][Block])
      PROVE  /\ i.line <= next[2]
             /\ i.do = "exec" => i.line < next[2]
             /\ i.do # "send_return" /\ ~Terminal(i)
  <2>1. OnTime(fn, phase, next, Block, i)
    BY <1>1, <1>2 DEF EmitInv, Timely
  <2>3. Past(fn, 3, phase, next, Block, i.line) => i.line < next[2]
    <3> SUFFICES ASSUME Past(fn, 3, phase, next, Block, i.line) PROVE i.line < next[2]
      OBVIOUS
    <3>1. PICK m \in DOMAIN Order : Order[m] = Block /\ (m < next[1] \/ (m = next[1] /\ i.line < next[2]))
      BY DEF Past, Rank, Order
    <3>2. m = next[1]
      BY <1>1, <1>3, <3>1
    <3> QED BY <1>1, <3>1, <3>2
  <2>4. /\ i.line \in Nat /\ Len(fn.body[Block]) \in Nat /\ i.line <= Len(fn.body[Block])
        /\ i.do = "exec" => (i.line = Len(fn.body[Block]) <=> i.op = "br")
        /\ i.do \in {"send_return", "ret"} => i.line = Len(fn.body[Block]) /\ fn.body[Block][i.line].op = "ret"
    BY <1>1, ItemLine
  <2> QED BY <1>1, <1>7, <2>1, <2>3, <2>4 DEF OnTime, Terminal
<1>6. Open(T, Emitted)
  <2>1. DOMAIN T = {Block} /\ T[Block] = next[2]
    OBVIOUS
  <2> QED BY <1>2, <1>5, <2>1 DEF Open
<1> QED BY <1>4, <1>6, <1>7

\* A phi has an operand for each predecessor, which branches to its block.
LEMMA PhiFacts ==
  ASSUME EmitInv, phase = "phi", Current.op = "phi"
  PROVE  /\ Current.args \in Seq(STRING)
         /\ \A k \in DOMAIN Current.args : Ready(Current.args[k]) /\ Current.blocks[k] \in Branching(fn)
<1>1. /\ Verified(fn) /\ Block \in Blocks(fn) /\ next[2] \in DOMAIN fn.body[Block]
      /\ Current = fn.body[Block][next[2]]
  BY CurrentFacts DEF Walks
<1>2. /\ Current.args \in Seq(STRING) /\ Current.blocks \in Seq(Nat)
      /\ Len(Current.blocks) = Len(Current.args)
  BY <1>1, InstrAt
<1>3. ToSet(Current.blocks) = {c \in Blocks(fn) : Block \in ToSet(Cfg(fn)[c])}
  BY <1>1 DEF Verified
<1>4. ASSUME NEW k \in DOMAIN Current.args
      PROVE  Current.blocks[k] \in Branching(fn)
  <2>1. k \in DOMAIN Current.blocks
    BY <1>2
  <2> DEFINE c == Current.blocks[k]
  <2>2. c \in Blocks(fn) /\ Block \in ToSet(Cfg(fn)[c])
    BY <1>3, <2>1 DEF ToSet
  <2> HIDE DEF c
  <2>3. Cfg(fn)[c] = IF Last(fn.body[c]).op = "br" THEN Last(fn.body[c]).blocks ELSE <<>>
    BY <2>2 DEF Cfg
  <2>4. Last(fn.body[c]).op = "br"
    <3>1. ToSet(<<>>) = {}
      BY DEF ToSet
    <3> QED BY <2>2, <2>3, <3>1
  <2>5. Last(fn.body[c]) = fn.body[c][Len(fn.body[c])]
    BY DEF Last
  <2>6. c \in Branching(fn)
    BY <2>2, <2>4, <2>5 DEF Branching
  <2> QED BY <2>6 DEF c
<1>5. \A k \in DOMAIN Current.args : Ready(Current.args[k])
  BY IncomingReady
<1> QED BY <1>2, <1>4, <1>5

\* What the visit of an instruction does to the rows.
Akin(x, i) == x.do = i.do /\ x.line = i.line /\ x.op = i.op

Timed(x, b) ==
  /\ phase = "straightline" => b = Block /\ x.line = next[2]
  /\ x.do = "exec" /\ x.op = "br" => phase = "branch" /\ b = Block /\ x.line = next[2]

Evolves(d) ==
  /\ DOMAIN d = Parts(place)
  /\ \A p \in Parts(place) : \A b \in Blocks(fn) :
       /\ \A i \in ToSet(code[p][b]) : \E x \in ToSet(d[p][b]) :
            Akin(x, i) /\ (x.args = i.args \/ DOMAIN x.args = DOMAIN fn.body[b][i.line].args)
       /\ \A x \in ToSet(d[p][b]) : x.do = "peek" \/ (\E i \in ToSet(code[p][b]) : Akin(x, i)) \/ Timed(x, b)

LEMMA VisitedKept ==
  ASSUME EmitInv, NEW d, Evolves(d), NEW mp, mapped \subseteq mp, NEW la, launched \subseteq la,
         NEW w \in 1 .. 3, NEW b \in Blocks(fn), NEW k \in DOMAIN fn.body[b],
         Visited(fn, place, code, mapped, launched, w, b, k)
  PROVE  Visited(fn, place, d, mp, la, w, b, k)
<1> DEFINE j == fn.body[b][k]
<1>1. Compiling /\ Verified(fn) /\ Good(fn, place, Emitted)
  BY CompilingFacts DEF EmitInv
<1>2. DOMAIN code = Parts(place) /\ DOMAIN d = Parts(place)
  <2>1. DOMAIN Emitted.code = Parts(place)
    BY <1>1, GoodRows
  <2> QED BY <2>1 DEF Emitted, Evolves
<1>3. j.op # "br" => place[j.name] \in Parts(place)
  BY <1>1, InstrAt, CompilingFacts
<1>4. ASSUME Ended(code, b) PROVE Ended(d, b)
  <2> SUFFICES ASSUME NEW p \in Parts(place) PROVE \E x \in ToSet(d[p][b]) : Terminal(x)
    BY <1>2 DEF Ended
  <2>1. PICK i \in ToSet(code[p][b]) : Terminal(i)
    BY <1>2, <1>4 DEF Ended
  <2>2. PICK x \in ToSet(d[p][b]) : Akin(x, i)
    BY DEF Evolves
  <2> QED BY <2>1, <2>2 DEF Akin, Terminal
<1> HIDE DEF j
<1>5. ASSUME NEW p \in Parts(place), NEW i \in ToSet(code[p][b]), i.do = "exec", i.line = k
      PROVE  \E x \in ToSet(d[p][b]) : /\ x.do = "exec" /\ x.line = k
                                       /\ DOMAIN i.args = DOMAIN j.args => DOMAIN x.args = DOMAIN j.args
  <2>1. PICK x \in ToSet(d[p][b]) :
            Akin(x, i) /\ (x.args = i.args \/ DOMAIN x.args = DOMAIN fn.body[b][i.line].args)
    BY DEF Evolves
  <2> QED BY <1>5, <2>1 DEF Akin, j
<1>6. ASSUME Copied(fn, place, code, b, k), j.op # "br" PROVE Copied(fn, place, d, b, k)
  BY <1>3, <1>5, <1>6 DEF Copied, j
<1>7. ASSUME Filled(fn, place, code, b, k), j.op # "br" PROVE Filled(fn, place, d, b, k)
  BY <1>3, <1>5, <1>7 DEF Filled, j
<1> QED BY <1>4, <1>6, <1>7 DEF Visited, j

\* A step of a walk keeps the invariant if what it emits is sound, on time and
\* all that the visit is to leave behind.
LEMMA VisitStep ==
  ASSUME EmitInv, NEW following, Follows(following), Advance(following),
         NEW s, Commit(s), Good(fn, place, s), Hosted(s), Evolves(s.code),
         mapped \subseteq mapped', mapped' \subseteq DOMAIN place, launched \subseteq s.launched,
         Visited(fn, place, s.code, mapped', s.launched, Rank(phase), Block, next[2])
  PROVE  EmitInv'
<1>1. UNCHANGED <<fn, place>> /\ phase \in Walks /\ Rank(phase) \in 1 .. 3
  BY StepOfWalk
<1>2. Position(fn, next')
  BY PositionKept
<1>3. phase' \in Walks \cup {"host"}
  BY <1>1 DEF Advance, Follows, Walks
<1>4. /\ code' = s.code /\ argReg' = s.argReg /\ launched' = s.launched
      /\ host' = s.host /\ commsId' = s.commsId
  BY DEF Commit
<1>5. Good(fn, place, Emitted') /\ Hosted(Emitted')
  <2>1. /\ Emitted'.code = s.code /\ Emitted'.argReg = s.argReg /\ Emitted'.launched = s.launched
        /\ Emitted'.host = s.host /\ Emitted'.commsId = s.commsId
        /\ Fields(Emitted')
    BY <1>4 DEF Emitted, Fields, FieldNames
  <2> QED BY <2>1 DEF Good, Hosted
<1>6. Walked(fn, place, code', mapped', launched', phase', next')
  <2> SUFFICES ASSUME NEW w \in 1 .. 3, NEW b \in Blocks(fn), NEW k \in DOMAIN fn.body[b],
                      Past(fn, w, phase', next', b, k)
               PROVE  Visited(fn, place, s.code, mapped', s.launched, w, b, k)
    BY <1>4 DEF Walked
  <2>1. Past(fn, w, phase, next, b, k) \/ (w = Rank(phase) /\ b = Block /\ k = next[2])
    BY VisitPasses
  <2>2. CASE Past(fn, w, phase, next, b, k)
    <3>1. Visited(fn, place, code, mapped, launched, w, b, k)
      BY <1>1, <2>2 DEF EmitInv, Walked, Walks
    <3> QED BY <3>1, VisitedKept
  <2> QED BY <2>1, <2>2
<1>7. Timely(fn, code', phase', next')
  <2>1. DOMAIN s.code = Parts(place)
    BY DEF Evolves
  <2>2. ItemsOK(fn, place, s.argReg, s.code)
    BY DEF Good
  <2> SUFFICES ASSUME NEW p \in Parts(place), NEW b \in Blocks(fn), NEW x \in ToSet(s.code[p][b])
               PROVE  OnTime(fn, phase', next', b, x)
    BY <1>4, <2>1 DEF Timely
  <2>3. x.line \in DOMAIN fn.body[b]
    BY <2>1, <2>2 DEF ItemsOK, ItemOK
  <2>4. \A w \in 1 .. 3 :
          /\ Past(fn, w, phase, next, b, x.line) => Past(fn, w, phase', next', b, x.line)
          /\ w = Rank(phase) /\ b = Block /\ x.line = next[2] => Past(fn, w, phase', next', b, x.line)
    BY <2>3, VisitPasses
  <2>5. 1 \in 1 .. 3 /\ 3 \in 1 .. 3
    OBVIOUS
  <2>6. CASE x.do = "peek"
    BY <2>6 DEF OnTime
  <2>7. CASE \E i \in ToSet(code[p][b]) : Akin(x, i)
    <3>1. PICK i \in ToSet(code[p][b]) : Akin(x, i)
      BY <2>7
    <3>2. DOMAIN code = Parts(place)
      <4>1. DOMAIN Emitted.code = Parts(place)
        BY GoodRows DEF EmitInv
      <4> QED BY <4>1 DEF Emitted
    <3>3. OnTime(fn, phase, next, b, i)
      BY <1>1, <3>2 DEF EmitInv, Timely, Walks
    <3> QED BY <2>4, <2>5, <3>1, <3>3 DEF OnTime, Akin
  <2>8. CASE Timed(x, b)
    <3>1. Past(fn, 1, phase', next', b, x.line)
      <4>1. CASE phase = "straightline"
        BY <2>4, <2>5, <2>8, <4>1 DEF Timed, Rank
      <4>2. CASE phase # "straightline"
        <5>1. Past(fn, 1, phase, next, b, x.line)
          BY <1>1, <4>2 DEF Past, Rank, Walks
        <5> QED BY <2>4, <2>5, <5>1
      <4> QED BY <4>1, <4>2
    <3>2. x.do = "exec" /\ x.op = "br" => Past(fn, 3, phase', next', b, x.line)
      BY <2>4, <2>5, <2>8 DEF Timed, Rank
    <3> QED BY <3>1, <3>2 DEF OnTime
  <2> QED BY <2>6, <2>7, <2>8 DEF Evolves
<1>8. Compiling'
  BY <1>1 DEF EmitInv, Compiling
<1>9. phase' # "done" /\ phase' # "failed"
  BY <1>3 DEF Walks
<1> QED BY <1>1, <1>2, <1>3, <1>5, <1>6, <1>7, <1>8, <1>9 DEF EmitInv

------------------------------------------------------------------------------
(* What the operations of a visit do to the rows. *)

LEMMA SelfEvolves ==
  ASSUME EmitInv
  PROVE  Evolves(code)
<1>1. DOMAIN code = Parts(place)
  <2>1. DOMAIN Emitted.code = Parts(place)
    BY GoodRows DEF EmitInv
  <2> QED BY <2>1 DEF Emitted
<1>2. \A i : Akin(i, i)
  BY DEF Akin
<1> QED BY <1>1, <1>2 DEF Evolves

LEMMA GrowsEvolves ==
  ASSUME EmitInv, NEW T, NEW s, s.code = code, NEW t, Good(fn, place, t), Grows(T, s, t),
         phase = "straightline" => DOMAIN T = {Block} /\ T[Block] = next[2]
  PROVE  Evolves(t.code)
<1>1. DOMAIN code = Parts(place) /\ \A p \in Parts(place) : DOMAIN code[p] = Blocks(fn)
  <2>1. DOMAIN Emitted.code = Parts(place) /\ \A p \in Parts(place) : DOMAIN Emitted.code[p] = Blocks(fn)
    BY GoodRows DEF EmitInv
  <2> QED BY <2>1 DEF Emitted
<1>2. DOMAIN t.code = Parts(place)
  BY GoodRows
<1>3. ASSUME NEW p \in Parts(place), NEW b \in Blocks(fn), NEW i \in ToSet(code[p][b])
      PROVE  i \in ToSet(t.code[p][b]) /\ Akin(i, i)
  BY <1>1 DEF Grows, Akin
<1>4. ASSUME NEW p \in Parts(place), NEW b \in Blocks(fn), NEW x \in ToSet(t.code[p][b])
      PROVE  x.do = "peek" \/ (\E i \in ToSet(code[p][b]) : Akin(x, i)) \/ Timed(x, b)
  <2>1. CASE x \in ToSet(code[p][b])
    BY <2>1 DEF Akin
  <2>2. CASE x \notin ToSet(code[p][b])
    <3>1. Added(s, t, p, b, x)
      BY <2>2 DEF Added
    <3>2. x.do = "peek" \/ (IsComm(x) /\ b \in DOMAIN T /\ x.line = T[b])
      BY <1>1, <3>1 DEF Grows
    <3> QED BY <3>2 DEF Timed, IsComm
  <2> QED BY <2>1, <2>2
<1> QED BY <1>2, <1>3, <1>4 DEF Evolves

\* A state that the visit has come to, from which it emits items for Q.
Reached(s) == Good(fn, place, s) /\ Hosted(s) /\ Evolves(s.code)

LEMMA PushedReached ==
  ASSUME EmitInv, NEW s, Reached(s), NEW t, NEW Q, NEW b, NEW its, Pushed(fn, place, s, t, Q, b, its),
         SameBut(s, t),
         \A p \in Q : Timed(its[p], b) /\ ItemOK(fn, place, t.argReg, t.code, p, b, its[p])
  PROVE  /\ Reached(t) /\ t.launched = s.launched
         /\ \A p \in Q : its[p] \in ToSet(t.code[p][b])
<1>1. Verified(fn)
  BY CompilingFacts DEF EmitInv
<1>2. Good(fn, place, s) /\ Hosted(s) /\ Evolves(s.code)
  BY DEF Reached
<1>3. Good(fn, place, t)
  BY <1>1, <1>2, PushedGood
<1>4. Hosted(t) /\ t.launched = s.launched
  BY <1>2 DEF Hosted, SameBut
<1>5. /\ \A p \in Q : ToSet(t.code[p][b]) = ToSet(s.code[p][b]) \cup {its[p]}
      /\ \A p \in Parts(place) : \A d \in Blocks(fn) :
           /\ ToSet(s.code[p][d]) \subseteq ToSet(t.code[p][d])
           /\ \A i : Added(s, t, p, d, i) => p \in Q /\ d = b /\ i = its[p]
  BY <1>2, PushedSets
<1>6. DOMAIN t.code = Parts(place)
  BY <1>3, GoodRows
<1>7. ASSUME NEW p \in Parts(place), NEW d \in Blocks(fn)
      PROVE  /\ \A i \in ToSet(code[p][d]) : \E x \in ToSet(t.code[p][d]) :
                  Akin(x, i) /\ (x.args = i.args \/ DOMAIN x.args = DOMAIN fn.body[d][i.line].args)
             /\ \A x \in ToSet(t.code[p][d]) :
                  x.do = "peek" \/ (\E i \in ToSet(code[p][d]) : Akin(x, i)) \/ Timed(x, d)
  <2>1. ToSet(s.code[p][d]) \subseteq ToSet(t.code[p][d])
    BY <1>5
  <2>2. ASSUME NEW x \in ToSet(t.code[p][d])
        PROVE  x.do = "peek" \/ (\E i \in ToSet(code[p][d]) : Akin(x, i)) \/ Timed(x, d)
    <3>1. CASE x \in ToSet(s.code[p][d])
      BY <1>2, <3>1 DEF Evolves
    <3>2. CASE x \notin ToSet(s.code[p][d])
      <4>1. p \in Q /\ d = b /\ x = its[p]
        BY <1>5, <3>2 DEF Added
      <4> QED BY <4>1
    <3> QED BY <3>1, <3>2
  <2>3. \A i \in ToSet(code[p][d]) : \E x \in ToSet(s.code[p][d]) :
          Akin(x, i) /\ (x.args = i.args \/ DOMAIN x.args = DOMAIN fn.body[d][i.line].args)
    BY <1>2 DEF Evolves
  <2> QED BY <2>1, <2>2, <2>3
<1>8. Evolves(t.code)
  BY <1>6, <1>7 DEF Evolves
<1> QED BY <1>3, <1>4, <1>5, <1>8 DEF Reached

LEMMA AtPushes ==
  ASSUME Compiling, NEW s, Good(fn, place, s), NEW p \in Parts(place), NEW b \in Blocks(fn), NEW i \in Items,
         i.do # "peek", ~IsComm(i), Room(s.code[p][b], i)
  PROVE  /\ Pushed(fn, place, s, At(s, p, b, i), {p}, b, [q \in {p} |-> i])
         /\ SameBut(s, At(s, p, b, i))
<1>1. PICK t : t = At(s, p, b, i)
  OBVIOUS
<1>2. Fields(s) /\ s.code \in Rows(fn, place) /\ s.commsId \in Nat /\ s.launched \subseteq Parts(place)
  BY DEF Good
<1>3. Appended(fn, place, s, t, p, b, i)
  BY <1>1, <1>2, AtFields
<1>4. PICK its : its = [q \in {p} |-> i]
  OBVIOUS
<1>5. its[p] = i
  BY <1>4
<1>6. /\ Fields(t) /\ t.code \in Rows(fn, place) /\ t.code[p][b] = Append(s.code[p][b], i)
      /\ \A q \in Parts(place), d \in Blocks(fn) : d # b \/ q # p => t.code[q][d] = s.code[q][d]
      /\ SameBut(s, t) /\ t.commsId = s.commsId
  BY <1>3 DEF Appended
<1>7. Pushed(fn, place, s, t, {p}, b, its)
  BY <1>2, <1>5, <1>6 DEF Pushed, SameBut
<1> QED BY <1>1, <1>4, <1>6, <1>7

LEMMA EachPushes ==
  ASSUME Compiling, NEW s, Good(fn, place, s), NEW b \in Blocks(fn), NEW its,
         \A p \in Parts(place) : /\ its[p] \in Items /\ its[p].do # "peek" /\ ~IsComm(its[p])
                                 /\ Room(s.code[p][b], its[p])
  PROVE  /\ Pushed(fn, place, s, AtEach(s, b, its), Parts(place), b, its)
         /\ SameBut(s, AtEach(s, b, its))
<1> DEFINE e == [p \in AllPartitions |-> [s.code[p] EXCEPT ![b] = Append(s.code[p][b], its[p])]]
           t == AtEach(s, b, its)
<1>1. Fields(s) /\ s.code \in Rows(fn, place) /\ s.commsId \in Nat /\ s.launched \subseteq Parts(place)
  BY DEF Good
<1>2. AllPartitions = Parts(place)
  BY CompilingFacts
<1>3. t = [s EXCEPT !.code = e]
  BY DEF AtEach
<1> HIDE DEF e
<1>4. Fields(t) /\ t.code = e /\ SameBut(s, t) /\ t.commsId = s.commsId
  BY <1>1, <1>3 DEF Fields, FieldNames, SameBut
<1> HIDE DEF t
<1>5. \A p \in Parts(place) : s.code[p] \in [Blocks(fn) -> Seq(Items)]
  BY <1>1 DEF Rows
<1>6. ASSUME NEW p \in Parts(place)
      PROVE  /\ e[p] \in [Blocks(fn) -> Seq(Items)]
             /\ e[p][b] = Append(s.code[p][b], its[p])
             /\ \A d \in Blocks(fn) : d # b => e[p][d] = s.code[p][d]
  <2> DEFINE row == Append(s.code[p][b], its[p])
             q == s.code[p]
  <2>1. e[p] = [q EXCEPT ![b] = row]
    BY <1>2 DEF e
  <2>2. row \in Seq(Items) /\ q \in [Blocks(fn) -> Seq(Items)]
    BY <1>5
  <2> HIDE DEF row, q
  <2>3. /\ e[p] \in [Blocks(fn) -> Seq(Items)]
        /\ e[p][b] = row
        /\ \A d \in Blocks(fn) : d # b => e[p][d] = q[d]
    BY <2>1, <2>2
  <2> QED BY <2>3 DEF row, q
<1>7. e \in Rows(fn, place)
  <2>1. DOMAIN e = Parts(place) /\ e = [p \in Parts(place) |-> e[p]]
    BY <1>2 DEF e
  <2> QED BY <1>6, <2>1 DEF Rows
<1>8. Pushed(fn, place, s, t, Parts(place), b, its)
  BY <1>1, <1>4, <1>6, <1>7 DEF Pushed, SameBut
<1> QED BY <1>4, <1>8 DEF t

LEMMA LaunchedReached ==
  ASSUME EmitInv, phase \in Walks, Current.op # "br"
  PROVE  /\ Reached(Emitted) /\ Reached(Launched)
         /\ Launched.launched = launched \cup {Part} /\ Launched.code = code /\ Launched.regs = <<>>
         /\ Emitted.launched = launched /\ Emitted.code = code /\ Emitted.regs = <<>>
<1>1. Good(fn, place, Emitted) /\ Hosted(Emitted) /\ Part \in Parts(place)
  BY CurrentFacts
<1>2. Emitted.launched = launched /\ Emitted.code = code /\ Emitted.regs = <<>>
  BY DEF Emitted
<1>3. /\ Fields(Launched) /\ Launched.code = Emitted.code /\ Launched.argReg = Emitted.argReg
      /\ Launched.host = Emitted.host /\ Launched.commsId = Emitted.commsId /\ Launched.regs = <<>>
      /\ Launched.launched = launched \cup {Part}
  BY DEF Launched, Emitted, Fields, FieldNames
<1>4. Good(fn, place, Launched)
  BY <1>1, <1>2, <1>3 DEF Good
<1>5. Hosted(Launched)
  BY <1>1, <1>3 DEF Hosted
<1>6. Evolves(code)
  BY SelfEvolves
<1> QED BY <1>1, <1>2, <1>3, <1>4, <1>5, <1>6 DEF Reached

\* The room a line has where its items are open.
LEMMA RoomAt ==
  ASSUME Compiling, NEW T, NEW s, Good(fn, place, s), Open(T, s), NEW b \in DOMAIN T,
         NEW p \in Parts(place), NEW i, i.line = T[b], ~IsComm(i)
  PROVE  Room(s.code[p][b], i)
<1>1. DOMAIN s.code = Parts(place)
  BY GoodRows
<1> QED BY <1>1 DEF Open, Room

IsClone(i, j, regs, line) ==
  /\ i \in Items /\ i.do = "exec" /\ i.val = Value(j.name) /\ i.line = line
  /\ i.op = j.op /\ i.args = regs /\ i.blocks = j.blocks

LEMMA CloneFields ==
  ASSUME NEW j \in Instruction, NEW regs \in Seq(Registers), NEW line \in Nat
  PROVE  IsClone(Clone(j, regs, line), j, regs, line)
<1>1. j.name \in STRING /\ j.op \in Opcodes /\ j.blocks \in Seq(Nat)
  BY DEF Instruction
<1>2. Value(j.name) \in Registers
  BY <1>1 DEF Registers
<1> QED BY <1>1, <1>2 DEF Clone, Items, Calls, IsClone

LEMMA CloneOK ==
  ASSUME EmitInv, phase \in Walks, NEW i, NEW regs, IsClone(i, Current, regs, next[2]),
         Current.op \notin {"alloca", "ret"}, NEW p, Current.op # "br" => p = Part,
         DOMAIN regs = DOMAIN Current.args \/ (Current.op = "phi" /\ regs = <<>>),
         Current.op = "phi" => regs = <<>>,
         NEW a, NEW c,
         \A k \in DOMAIN regs : Gives(fn, place, a, c, p, Block, next[2], regs[k], Current.args[k])
  PROVE  ItemOK(fn, place, a, c, p, Block, i)
<1>1. Block \in Blocks(fn) /\ next[2] \in DOMAIN fn.body[Block] /\ Current = fn.body[Block][next[2]]
  BY CurrentFacts
<1>2. /\ i.do = "exec" /\ i.val = Value(Current.name) /\ i.line = next[2]
      /\ i.op = Current.op /\ i.args = regs /\ i.blocks = Current.blocks
  BY DEF IsClone
<1>3. DOMAIN <<>> = {}
  OBVIOUS
<1>4. ExecOK(fn, place, a, c, p, Block, i)
  <2>1. \A k \in DOMAIN i.args : i.op # "phi" /\ Gives(fn, place, a, c, p, Block, i.line, i.args[k], Current.args[k])
    BY <1>2, <1>3
  <2>2. i.op # "br" => place[Current.name] = p
    BY <1>2 DEF Part
  <2> QED BY <1>1, <1>2, <2>1, <2>2 DEF ExecOK
<1> QED BY <1>1, <1>2, <1>4 DEF ItemOK, Calls, IsComm

------------------------------------------------------------------------------
(* The actions. *)

\* A visit that emits nothing.
LEMMA QuietStep ==
  ASSUME EmitInv, NEW following, Follows(following), Advance(following),
         UNCHANGED <<code, argReg, launched, host, commsId>>,
         mapped \subseteq mapped', mapped' \subseteq DOMAIN place,
         Visited(fn, place, code, mapped', launched, Rank(phase), Block, next[2])
  PROVE  EmitInv'
<1>1. PICK s : s = Emitted
  OBVIOUS
<1>2. Good(fn, place, Emitted) /\ Hosted(Emitted)
  BY StepOfWalk, CurrentFacts
<1>3. /\ s.code = code /\ s.argReg = argReg /\ s.launched = launched
      /\ s.host = host /\ s.commsId = commsId
  BY <1>1 DEF Emitted
<1>4. Commit(s)
  BY <1>3 DEF Commit
<1>5. Evolves(s.code)
  BY <1>3, SelfEvolves
<1>6. Visited(fn, place, s.code, mapped', s.launched, Rank(phase), Block, next[2])
  BY <1>3
<1>7. launched \subseteq s.launched
  BY <1>3
<1> QED BY <1>1, <1>2, <1>4, <1>5, <1>6, <1>7, VisitStep

LEMMA EmitAllocaKeeps == ASSUME EmitInv, EmitAlloca PROVE EmitInv'
<1>1. /\ phase = "straightline" /\ Current.op = "alloca" /\ Advance("phi")
      /\ mapped' = mapped \cup {Current.name} /\ UNCHANGED <<code, argReg, launched, host, commsId>>
  BY DEF EmitAlloca, Visit
<1>2. Follows("phi")
  BY <1>1 DEF Follows
<1>3. Current.name \in DOMAIN place /\ Current = fn.body[Block][next[2]]
  BY <1>1, CurrentFacts DEF Walks
<1>4. mapped \subseteq mapped' /\ mapped' \subseteq DOMAIN place
  BY <1>1, <1>3 DEF EmitInv, Compiling
<1>5. Visited(fn, place, code, mapped', launched, Rank(phase), Block, next[2])
  BY <1>1, <1>3 DEF Visited, Rank
<1> QED BY <1>1, <1>2, <1>4, <1>5, QuietStep

LEMMA SkipBranchKeeps == ASSUME EmitInv, SkipBranch PROVE EmitInv'
<1>1. /\ phase = "straightline" /\ Current.op = "br" /\ Advance("phi")
      /\ UNCHANGED <<code, mapped, argReg, launched, host, commsId>>
  BY DEF SkipBranch, Visit
<1>2. Follows("phi")
  BY <1>1 DEF Follows
<1>3. Current = fn.body[Block][next[2]]
  BY DEF Current
<1>4. mapped \subseteq mapped' /\ mapped' \subseteq DOMAIN place
  BY <1>1 DEF EmitInv, Compiling
<1>5. Visited(fn, place, code, mapped', launched, Rank(phase), Block, next[2])
  BY <1>1, <1>3 DEF Visited, Rank
<1> QED BY <1>1, <1>2, <1>4, <1>5, QuietStep

LEMMA SkipNonPhiKeeps == ASSUME EmitInv, SkipNonPhi PROVE EmitInv'
<1>1. /\ phase = "phi" /\ Current.op # "phi" /\ Advance("branch")
      /\ UNCHANGED <<code, mapped, argReg, launched, host, commsId>>
  BY DEF SkipNonPhi
<1>2. Follows("branch")
  BY <1>1 DEF Follows
<1>3. Current = fn.body[Block][next[2]]
  BY DEF Current
<1>4. mapped \subseteq mapped' /\ mapped' \subseteq DOMAIN place
  BY <1>1 DEF EmitInv, Compiling
<1>5. Visited(fn, place, code, mapped', launched, Rank(phase), Block, next[2])
  BY <1>1, <1>3 DEF Visited, Rank
<1> QED BY <1>1, <1>2, <1>4, <1>5, QuietStep

LEMMA SkipNonBranchKeeps == ASSUME EmitInv, SkipNonBranch PROVE EmitInv'
<1>1. /\ phase = "branch" /\ Current.op # "br" /\ Advance("host")
      /\ UNCHANGED <<code, mapped, argReg, launched, host, commsId>>
  BY DEF SkipNonBranch
<1>2. Follows("host")
  BY <1>1 DEF Follows
<1>3. Current = fn.body[Block][next[2]]
  BY DEF Current
<1>4. mapped \subseteq mapped' /\ mapped' \subseteq DOMAIN place
  BY <1>1 DEF EmitInv, Compiling
<1>5. Visited(fn, place, code, mapped', launched, Rank(phase), Block, next[2])
  BY <1>1, <1>3 DEF Visited, Rank
<1> QED BY <1>1, <1>2, <1>4, <1>5, QuietStep

LEMMA FailKeeps == ASSUME EmitInv, FailStraightline \/ FailBranch PROVE EmitInv'
<1>1. /\ phase # "done" /\ phase' = "failed"
      /\ UNCHANGED <<fn, place, next, code, mapped, argReg, launched, host, commsId>>
  BY DEF FailStraightline, FailBranch
<1>2. Emitted' = Emitted
  BY <1>1 DEF Emitted
<1>3. Compiling' /\ Good(fn, place, Emitted)' /\ Hosted(Emitted)'
  BY <1>1, <1>2 DEF EmitInv, Compiling
<1> QED BY <1>1, <1>3 DEF EmitInv, Walks

LEMMA PushedItem ==
  ASSUME EmitInv, NEW s, Good(fn, place, s), NEW t, NEW Q, NEW b, NEW its, Pushed(fn, place, s, t, Q, b, its),
         NEW p \in Parts(place), NEW i, ItemOK(fn, place, s.argReg, s.code, p, b, i)
  PROVE  ItemOK(fn, place, t.argReg, t.code, p, b, i)
<1>1. Verified(fn)
  BY CompilingFacts DEF EmitInv
<1>2. /\ DOMAIN s.code = Parts(place) /\ Peered(s.code)
      /\ \A q \in Parts(place) : DOMAIN s.code[q] = Blocks(fn)
  BY GoodRows
<1>3. /\ \A q \in Parts(place) : \A d \in Blocks(fn) : ToSet(s.code[q][d]) \subseteq ToSet(t.code[q][d])
  BY PushedSets
<1>4. t.code \in Rows(fn, place) /\ t.argReg = s.argReg /\ b \in Blocks(fn)
  BY DEF Pushed
<1>5. DOMAIN t.code = Parts(place) /\ \A q \in Parts(place) : DOMAIN t.code[q] = Blocks(fn)
  BY <1>4 DEF Rows
<1>6. Keeps(s.argReg, s.code, t.argReg, t.code)
  BY <1>2, <1>3, <1>4, <1>5 DEF Keeps
<1>7. p \in DOMAIN s.code /\ b \in DOMAIN s.code[p] /\ \A q \in DOMAIN s.code : DOMAIN s.code[q] = Blocks(fn)
  BY <1>2, <1>4
<1> QED BY <1>1, <1>2, <1>6, <1>7, ItemKept

\* The copy of an instruction of the first walk.
LEMMA CloneStep ==
  ASSUME EmitInv, phase = "straightline", Current.op \notin {"alloca", "ret", "br"}, Advance("phi"),
         NEW T, T = [b \in {Block} |-> next[2]], NEW s, Reached(s), Open(T, s),
         launched \cup {Part} \subseteq s.launched,
         NEW regs \in Seq(Registers),
         DOMAIN regs = DOMAIN Current.args \/ (Current.op = "phi" /\ regs = <<>>),
         Current.op = "phi" => regs = <<>>,
         \A k \in DOMAIN regs :
           Gives(fn, place, s.argReg, s.code, Part, Block, next[2], regs[k], Current.args[k]),
         Commit(At(s, Part, Block, Clone(Current, regs, next[2]))),
         mapped' = mapped \cup {Current.name}
  PROVE  EmitInv'
<1>1. /\ Compiling /\ Block \in Blocks(fn) /\ next[2] \in DOMAIN fn.body[Block] /\ next[2] \in Nat
      /\ Current = fn.body[Block][next[2]] /\ Current \in Instruction
      /\ Current.name \in DOMAIN place /\ Part \in Parts(place)
  BY CurrentFacts DEF Walks
<1>2. PICK i : i = Clone(Current, regs, next[2])
  OBVIOUS
<1>3. PICK t : t = At(s, Part, Block, i)
  OBVIOUS
<1>4. IsClone(i, Current, regs, next[2])
  BY <1>1, <1>2, CloneFields
<1>5. i \in Items /\ i.do = "exec" /\ i.line = next[2] /\ i.op = Current.op /\ i.args = regs /\ ~IsComm(i)
  BY <1>4 DEF IsClone, IsComm
<1>6. Good(fn, place, s)
  BY DEF Reached
<1>7. Room(s.code[Part][Block], i)
  <2>1. Block \in DOMAIN T /\ T[Block] = next[2]
    OBVIOUS
  <2> QED BY <1>1, <1>5, <1>6, <2>1, RoomAt
<1>8. PICK its : its = [q \in {Part} |-> i]
  OBVIOUS
<1>9. Pushed(fn, place, s, t, {Part}, Block, its) /\ SameBut(s, t) /\ its[Part] = i
  BY <1>1, <1>3, <1>5, <1>6, <1>7, <1>8, AtPushes
<1>10. ItemOK(fn, place, s.argReg, s.code, Part, Block, i)
  BY <1>4, CloneOK DEF Walks
<1>11. ItemOK(fn, place, t.argReg, t.code, Part, Block, i)
  BY <1>1, <1>6, <1>9, <1>10, PushedItem
<1>12. Timed(i, Block)
  BY <1>5 DEF Timed
<1>13. Reached(t) /\ t.launched = s.launched /\ i \in ToSet(t.code[Part][Block])
  <2>1. \A p \in {Part} : Timed(its[p], Block) /\ ItemOK(fn, place, t.argReg, t.code, p, Block, its[p])
    BY <1>9, <1>11, <1>12
  <2>2. /\ Reached(t) /\ t.launched = s.launched
        /\ \A p \in {Part} : its[p] \in ToSet(t.code[p][Block])
    BY <1>9, <2>1, PushedReached
  <2> QED BY <1>9, <2>2
<1>14. Copied(fn, place, t.code, Block, next[2])
  BY <1>1, <1>5, <1>13 DEF Copied, Part
<1>15. Visited(fn, place, t.code, mapped', t.launched, Rank(phase), Block, next[2])
  <2>1. Rank(phase) = 1
    BY DEF Rank
  <2>2. Current.name \in mapped' /\ place[Current.name] \in t.launched
    BY <1>13 DEF Part
  <2>3. Current.op # "br" /\ Current.op # "ret"
    OBVIOUS
  <2>4. PICK j : j = fn.body[Block][next[2]]
    OBVIOUS
  <2>5. j.op # "br" /\ j.op # "ret" /\ j.name \in mapped' /\ place[j.name] \in t.launched
    BY <1>1, <2>2, <2>3, <2>4
  <2> QED BY <1>14, <2>1, <2>4, <2>5 DEF Visited
<1>16. Follows("phi") /\ Commit(t)
  BY <1>2, <1>3 DEF Follows
<1>17. /\ mapped \subseteq mapped' /\ mapped' \subseteq DOMAIN place /\ launched \subseteq t.launched
  BY <1>1, <1>13 DEF Compiling
<1>18. Good(fn, place, t) /\ Hosted(t) /\ Evolves(t.code)
  BY <1>13 DEF Reached
<1> QED BY <1>15, <1>16, <1>17, <1>18, VisitStep

LEMMA EmitPhiKeeps == ASSUME EmitInv, EmitPhi PROVE EmitInv'
<1>1. /\ phase = "straightline" /\ Current.op = "phi" /\ Advance("phi")
      /\ Commit(At(Launched, Part, Block, Clone(Current, <<>>, next[2])))
      /\ mapped' = mapped \cup {Current.name}
  BY DEF EmitPhi, Visit
<1>2. PICK T : T = [b \in {Block} |-> next[2]]
  OBVIOUS
<1>3. /\ Reached(Launched) /\ Launched.launched = launched \cup {Part} /\ Launched.code = code
      /\ Emitted.code = code
  BY <1>1, LaunchedReached DEF Walks
<1>4. Open(T, Emitted)
  BY <1>1, <1>2, StraightlineOpen
<1>5. Open(T, Launched)
  BY <1>3, <1>4 DEF Open
<1>6. <<>> \in Seq(Registers) /\ DOMAIN <<>> = {}
  OBVIOUS
<1>7. PICK s : s = Launched
  OBVIOUS
<1>8. /\ Reached(s) /\ Open(T, s) /\ launched \cup {Part} \subseteq s.launched
      /\ Commit(At(s, Part, Block, Clone(Current, <<>>, next[2])))
  BY <1>1, <1>3, <1>5, <1>7
<1>9. \A k \in DOMAIN <<>> :
        Gives(fn, place, s.argReg, s.code, Part, Block, next[2], <<>>[k], Current.args[k])
  BY <1>6
<1>10. Current.op \notin {"alloca", "ret", "br"}
  BY <1>1
<1> QED BY <1>1, <1>2, <1>6, <1>8, <1>9, <1>10, CloneStep

\* The operands of an instruction of the first walk.
LEMMA OperandsProvided ==
  ASSUME EmitInv, phase = "straightline", Current.op \notin {"phi", "br"},
         NEW T, T = [b \in {Block} |-> next[2]],
         NEW s, s = ReplaceOperands(Launched, Current.args, Part, Block, next[2])
  PROVE  /\ Reached(s) /\ Open(T, s) /\ launched \cup {Part} \subseteq s.launched
         /\ s.regs \in Seq(Registers) /\ DOMAIN s.regs = DOMAIN Current.args
         /\ \A k \in DOMAIN s.regs :
              Gives(fn, place, s.argReg, s.code, Part, Block, next[2], s.regs[k], Current.args[k])
<1>1. /\ Compiling /\ Block \in Blocks(fn) /\ next[2] \in DOMAIN fn.body[Block]
      /\ Current \in Instruction /\ Part \in Parts(place)
  BY CurrentFacts DEF Walks
<1>2. Current.args \in Seq(STRING)
  BY <1>1 DEF Instruction
<1>3. /\ Reached(Launched) /\ Launched.launched = launched \cup {Part} /\ Launched.code = code
      /\ Launched.regs = <<>> /\ Emitted.code = code
  BY LaunchedReached DEF Walks
<1>4. Open(T, Emitted) /\ Sites(fn, T)
  BY StraightlineOpen
<1>5. Open(T, Launched)
  BY <1>3, <1>4 DEF Open
<1>6. PICK l : l = Launched
  OBVIOUS
<1>7. Good(fn, place, l) /\ Hosted(l) /\ Open(T, l) /\ l.regs = <<>>
  BY <1>3, <1>5, <1>6 DEF Reached
<1>8. \A k \in DOMAIN Current.args : Ready(Current.args[k])
  BY OperandsReady
<1>9. Block \in DOMAIN T /\ T[Block] = next[2] /\ DOMAIN T = {Block}
  OBVIOUS
<1>10. PICK vs : vs = Current.args
  OBVIOUS
<1>11. Provided(T, Part, l, s, Len(vs), vs, [k \in 1 .. Len(vs) |-> Block])
  <2>1. vs \in Seq(STRING) /\ \A k \in DOMAIN vs : Ready(vs[k])
    BY <1>2, <1>8, <1>10
  <2>2. s = ReplaceOperands(l, vs, Part, Block, T[Block])
    BY <1>6, <1>9, <1>10
  <2> QED BY <1>1, <1>4, <1>7, <1>9, <2>1, <2>2, ReplaceOperandsProvides
<1>12. PICK n : n = Len(vs)
  OBVIOUS
<1>13. n \in Nat /\ DOMAIN vs = 1 .. n
  BY <1>2, <1>10, <1>12
<1>14. PICK bs : bs = [k \in 1 .. n |-> Block]
  OBVIOUS
<1>15. Provided(T, Part, l, s, n, vs, bs)
  BY <1>11, <1>12, <1>14
<1>16. /\ Good(fn, place, s) /\ Open(T, s) /\ Grows(T, l, s)
       /\ s.regs \in Seq(Registers) /\ Len(s.regs) = n
  BY <1>15 DEF Provided
<1>17. \A k \in 1 .. n : Gives(fn, place, s.argReg, s.code, Part, Block, next[2], s.regs[k], vs[k])
  <2>1. \A k \in 1 .. n : Gives(fn, place, s.argReg, s.code, Part, bs[k], T[bs[k]], s.regs[k], vs[k])
    BY <1>15 DEF Provided
  <2>2. \A k \in 1 .. n : bs[k] = Block
    BY <1>14
  <2> QED BY <1>9, <2>1, <2>2
<1>18. DOMAIN s.regs = 1 .. n
  BY <1>16
<1>19. Hosted(s) /\ launched \cup {Part} \subseteq s.launched
  BY <1>3, <1>6, <1>7, <1>16 DEF Grows
<1>20. Evolves(s.code)
  <2>1. l.code = code
    BY <1>3, <1>6
  <2> QED BY <1>9, <1>16, <2>1, GrowsEvolves
<1> QED BY <1>10, <1>13, <1>16, <1>17, <1>18, <1>19, <1>20 DEF Reached

LEMMA EmitStraightlineKeeps == ASSUME EmitInv, EmitStraightline PROVE EmitInv'
<1>1. PICK s : s = ReplaceOperands(Launched, Current.args, Part, Block, next[2])
  OBVIOUS
<1>2. /\ phase = "straightline" /\ Advance("phi") /\ Current.op \in {"add", "lt", "load", "store", "call"}
      /\ Commit(At(s, Part, Block, Clone(Current, s.regs, next[2])))
      /\ mapped' = mapped \cup {Current.name}
  BY <1>1 DEF EmitStraightline, Visit
<1>3. Current.op \notin {"alloca", "phi", "ret", "br"}
  BY <1>2
<1>4. PICK T : T = [b \in {Block} |-> next[2]]
  OBVIOUS
<1>5. PICK regs : regs = s.regs
  OBVIOUS
<1>6. /\ Reached(s) /\ Open(T, s) /\ launched \cup {Part} \subseteq s.launched
      /\ regs \in Seq(Registers) /\ DOMAIN regs = DOMAIN Current.args
      /\ \A k \in DOMAIN regs :
           Gives(fn, place, s.argReg, s.code, Part, Block, next[2], regs[k], Current.args[k])
  <2>1. Current.op \notin {"phi", "br"}
    BY <1>3
  <2> QED BY <1>1, <1>2, <1>4, <1>5, <2>1, OperandsProvided
<1>7. Current.op \notin {"alloca", "ret", "br"} /\ Current.op # "phi"
  BY <1>3
<1>8. Commit(At(s, Part, Block, Clone(Current, regs, next[2])))
  BY <1>2, <1>5
<1> QED BY <1>2, <1>4, <1>6, <1>7, <1>8, CloneStep

\* The rows of block b have room for its last items, at line n.
Ending(s, b, n) ==
  \A p \in Parts(place) : \A j \in ToSet(s.code[p][b]) :
    j.line <= n /\ (j.do = "exec" => j.line < n) /\ ~Terminal(j)

\* The value is sent to the host, ...
LEMMA ReturnSent ==
  ASSUME EmitInv, phase = "straightline", Current.op = "ret", Current.args # <<>>,
         NEW T, T = [b \in {Block} |-> next[2]], NEW s, Reached(s), Open(T, s),
         s.regs \in Seq(Registers), DOMAIN s.regs = DOMAIN Current.args,
         \A k \in DOMAIN s.regs :
           Gives(fn, place, s.argReg, s.code, Part, Block, next[2], s.regs[k], Current.args[k]),
         NEW r, r = At(s, Part, Block, Item("send_return", Last(s.regs), 0, Part, next[2]))
  PROVE  Reached(r) /\ r.launched = s.launched /\ Ending(r, Block, next[2])
<1>1. /\ Compiling /\ Verified(fn) /\ Block \in Blocks(fn) /\ next[2] \in DOMAIN fn.body[Block] /\ next[2] \in Nat
      /\ Current = fn.body[Block][next[2]] /\ Current \in Instruction
      /\ Part \in Parts(place) /\ Part \in Nat
  BY CurrentFacts, CompilingFacts DEF Walks
<1>2. next[2] = Len(fn.body[Block]) /\ Last(fn.body[Block]) = Current
  <2>1. next[2] = Len(fn.body[Block])
    BY <1>1, InstrAt
  <2> QED BY <1>1, <2>1 DEF Last
<1>3. 1 \in DOMAIN Current.args /\ Len(s.regs) = 1
  <2>1. PICK vs : vs = Current.args
    OBVIOUS
  <2>2. vs \in Seq(STRING) /\ vs # <<>>
    BY <1>1, <2>1 DEF Instruction
  <2>3. Len(Current.args) <= 1
    BY <1>1, VerifiedInstr
  <2>4. Len(vs) <= 1
    BY <2>1, <2>3
  <2>5. Len(vs) \in Nat /\ Len(vs) # 0 /\ DOMAIN vs = 1 .. Len(vs)
    BY <2>2
  <2>6. DOMAIN vs = 1 .. 1
    BY <2>4, <2>5
  <2>7. PICK qs : qs = s.regs
    OBVIOUS
  <2>8. qs \in Seq(Registers)
    BY <2>7
  <2>10. DOMAIN qs = 1 .. 1
    BY <2>1, <2>6, <2>7
  <2>9. Len(qs) = 1
    <3>1. Len(qs) \in Nat /\ DOMAIN qs = 1 .. Len(qs)
      BY <2>8
    <3>3. PICK n : n = Len(qs)
      OBVIOUS
    <3>2. n \in Nat /\ 1 .. n = 1 .. 1
      BY <2>10, <3>1, <3>3
    <3>4. n = 1
      <4>1. 1 \in 1 .. n
        BY <3>2
      <4>2. n \in 1 .. n
        BY <3>2, <4>1
      <4>3. n \in 1 .. 1
        BY <3>2, <4>2
      <4> QED BY <4>3
    <3> QED BY <3>3, <3>4
  <2> QED BY <2>1, <2>6, <2>7, <2>9
<1>4. Last(s.regs) = s.regs[1] /\ s.regs[1] \in Registers
  BY <1>3 DEF Last
<1>5. PICK i : i = Item("send_return", Last(s.regs), 0, Part, next[2])
  OBVIOUS
<1>6. IsItem(i, "send_return", s.regs[1], 0, Part, next[2])
  <2>1. "send_return" \in Calls /\ s.regs[1] \in Registers \cup {NoRegister} /\ 0 \in Nat
    BY <1>4 DEF Calls
  <2> QED BY <1>1, <1>4, <1>5, <2>1, ItemFields
<1>7. i \in Items /\ i.do = "send_return" /\ i.val = s.regs[1] /\ i.line = next[2] /\ i.op = "none" /\ i.args = <<>> /\ ~IsComm(i)
  BY <1>6 DEF IsItem, IsComm
<1>8. Good(fn, place, s)
  BY DEF Reached
<1>9. Room(s.code[Part][Block], i)
  <2>1. Block \in DOMAIN T /\ T[Block] = next[2]
    OBVIOUS
  <2> QED BY <1>1, <1>7, <1>8, <2>1, RoomAt
<1>10. PICK its : its = [q \in {Part} |-> i]
  OBVIOUS
<1>11. Pushed(fn, place, s, r, {Part}, Block, its) /\ SameBut(s, r) /\ its[Part] = i
  BY <1>1, <1>5, <1>7, <1>8, <1>9, <1>10, AtPushes
<1>12. ItemOK(fn, place, s.argReg, s.code, Part, Block, i)
  <2>1. Gives(fn, place, s.argReg, s.code, Part, Block, i.line, i.val, Current.args[1])
    BY <1>3, <1>7
  <2>2. ReturnOK(fn, place, s.argReg, s.code, Part, Block, i)
    BY <1>2, <1>7, <2>1 DEF ReturnOK, Part
  <2> QED BY <1>1, <1>7, <2>2 DEF ItemOK, Calls
<1>13. ItemOK(fn, place, r.argReg, r.code, Part, Block, i)
  BY <1>1, <1>8, <1>11, <1>12, PushedItem
<1>14. Timed(i, Block)
  BY <1>7 DEF Timed
<1>15. Reached(r) /\ r.launched = s.launched
  <2>1. \A p \in {Part} : Timed(its[p], Block) /\ ItemOK(fn, place, r.argReg, r.code, p, Block, its[p])
    BY <1>11, <1>13, <1>14
  <2> QED BY <1>11, <2>1, PushedReached
<1>16. Ending(r, Block, next[2])
  <2>1. \A p \in Parts(place) : \A d \in Blocks(fn) : \A j : Added(s, r, p, d, j) => j = i
    BY <1>8, <1>11, PushedSets
  <2>2. DOMAIN s.code = Parts(place) /\ Block \in DOMAIN T /\ T[Block] = next[2]
    BY <1>8, GoodRows
  <2> SUFFICES ASSUME NEW p \in Parts(place), NEW j \in ToSet(r.code[p][Block])
               PROVE  j.line <= next[2] /\ (j.do = "exec" => j.line < next[2]) /\ ~Terminal(j)
    BY DEF Ending
  <2>3. CASE j \in ToSet(s.code[p][Block])
    BY <2>2, <2>3 DEF Open
  <2>4. CASE j \notin ToSet(s.code[p][Block])
    <3>1. j = i
      BY <1>1, <2>1, <2>4 DEF Added
    <3> QED BY <1>1, <1>7, <3>1 DEF Terminal
  <2> QED BY <2>3, <2>4
<1> QED BY <1>15, <1>16

\* ... and every partition returns.
LEMMA EmitRetKeeps == ASSUME EmitInv, EmitRet PROVE EmitInv'
<1>1. PICK s : s = ReplaceOperands(Launched, Current.args, Part, Block, next[2])
  OBVIOUS
<1>2. PICK r : r = IF Current.args = <<>> THEN s
                   ELSE At(s, Part, Block, Item("send_return", Last(s.regs), 0, Part, next[2]))
  OBVIOUS
<1>3. PICK its : its = [p \in AllPartitions |-> Item("ret", NoRegister, 0, p, next[2])]
  OBVIOUS
<1>4. PICK t : t = AtEach(r, Block, its)
  OBVIOUS
<1>5. /\ phase = "straightline" /\ Advance("phi") /\ Current.op = "ret"
      /\ Commit(t) /\ mapped' = mapped
  BY <1>1, <1>2, <1>3, <1>4 DEF EmitRet, Visit
<1>6. PICK T : T = [b \in {Block} |-> next[2]]
  OBVIOUS
<1>7. /\ Reached(s) /\ Open(T, s) /\ launched \cup {Part} \subseteq s.launched
      /\ s.regs \in Seq(Registers) /\ DOMAIN s.regs = DOMAIN Current.args
      /\ \A k \in DOMAIN s.regs :
           Gives(fn, place, s.argReg, s.code, Part, Block, next[2], s.regs[k], Current.args[k])
  <2>1. Current.op \notin {"phi", "br"}
    BY <1>5
  <2> QED BY <1>1, <1>5, <1>6, <2>1, OperandsProvided
<1>8. /\ Compiling /\ Verified(fn) /\ Block \in Blocks(fn) /\ next[2] \in DOMAIN fn.body[Block] /\ next[2] \in Nat
      /\ Current = fn.body[Block][next[2]] /\ Part \in Parts(place)
      /\ Parts(place) \subseteq Nat /\ AllPartitions = Parts(place)
  BY <1>5, CurrentFacts, CompilingFacts DEF Walks
<1>9. Reached(r) /\ r.launched = s.launched /\ Ending(r, Block, next[2])
  <2>1. CASE Current.args = <<>>
    <3>1. r = s
      BY <1>2, <2>1
    <3>2. DOMAIN s.code = Parts(place) /\ Block \in DOMAIN T /\ T[Block] = next[2]
      BY <1>6, <1>7, GoodRows DEF Reached
    <3>3. Ending(s, Block, next[2])
      BY <1>7, <3>2 DEF Open, Ending
    <3> QED BY <1>7, <3>1, <3>3
  <2>2. CASE Current.args # <<>>
    <3>1. r = At(s, Part, Block, Item("send_return", Last(s.regs), 0, Part, next[2]))
      BY <1>2, <2>2
    <3> QED BY <1>5, <1>6, <1>7, <2>2, <3>1, ReturnSent
  <2> QED BY <2>1, <2>2
<1>10. Good(fn, place, r)
  BY <1>9 DEF Reached
<1>11. \A p \in Parts(place) : IsItem(its[p], "ret", NoRegister, 0, p, next[2])
  <2> TAKE p \in Parts(place)
  <2>1. "ret" \in Calls /\ NoRegister \in Registers \cup {NoRegister} /\ 0 \in Nat /\ p \in Nat
    BY <1>8 DEF Calls
  <2>2. its[p] = Item("ret", NoRegister, 0, p, next[2])
    BY <1>3, <1>8
  <2> QED BY <1>8, <2>1, <2>2, ItemFields
<1>12. \A p \in Parts(place) : /\ its[p] \in Items /\ its[p].do = "ret" /\ its[p].line = next[2] /\ its[p].op = "none" /\ its[p].args = <<>>
                               /\ ~IsComm(its[p]) /\ Terminal(its[p])
  BY <1>11 DEF IsItem, IsComm, Terminal
<1>13. \A p \in Parts(place) : Room(r.code[p][Block], its[p])
  BY <1>9, <1>12 DEF Ending, Room
<1>14. Pushed(fn, place, r, t, Parts(place), Block, its) /\ SameBut(r, t)
  <2>1. \A p \in Parts(place) : /\ its[p] \in Items /\ its[p].do # "peek" /\ ~IsComm(its[p])
                                /\ Room(r.code[p][Block], its[p])
    BY <1>12, <1>13
  <2> QED BY <1>4, <1>8, <1>10, <2>1, EachPushes
<1>15. \A p \in Parts(place) : Timed(its[p], Block) /\ ItemOK(fn, place, t.argReg, t.code, p, Block, its[p])
  <2>1. next[2] = Len(fn.body[Block]) /\ Last(fn.body[Block]) = Current
    <3>1. next[2] = Len(fn.body[Block])
      BY <1>5, <1>8, InstrAt
    <3> QED BY <1>8, <3>1 DEF Last
  <2>2. \A p \in Parts(place) : Timed(its[p], Block)
    BY <1>12 DEF Timed
  <2>3. \A p \in Parts(place) : ReturnOK(fn, place, t.argReg, t.code, p, Block, its[p])
    BY <1>5, <1>12, <2>1 DEF ReturnOK
  <2>4. \A p \in Parts(place) : ItemOK(fn, place, t.argReg, t.code, p, Block, its[p])
    BY <1>8, <1>12, <2>3 DEF ItemOK, Calls
  <2> QED BY <2>2, <2>4
<1>16. /\ Reached(t) /\ t.launched = r.launched
       /\ \A p \in Parts(place) : its[p] \in ToSet(t.code[p][Block])
  BY <1>9, <1>14, <1>15, PushedReached
<1>17. Ended(t.code, Block)
  <2>1. DOMAIN t.code = Parts(place)
    BY <1>16 DEF Reached, Evolves
  <2> QED BY <1>12, <1>16, <2>1 DEF Ended
<1>18. Visited(fn, place, t.code, mapped', t.launched, Rank(phase), Block, next[2])
  <2>1. Rank(phase) = 1
    BY <1>5 DEF Rank
  <2>2. place[Current.name] \in t.launched
    BY <1>7, <1>9, <1>16 DEF Part
  <2> QED BY <1>5, <1>8, <1>17, <2>1, <2>2 DEF Visited
<1>19. Follows("phi") /\ launched \subseteq t.launched
  BY <1>5, <1>7, <1>9, <1>16 DEF Follows
<1>20. mapped \subseteq mapped' /\ mapped' \subseteq DOMAIN place
  BY <1>5, <1>8 DEF Compiling
<1>21. Good(fn, place, t) /\ Hosted(t) /\ Evolves(t.code)
  BY <1>16 DEF Reached
<1> QED BY <1>5, <1>18, <1>19, <1>20, <1>21, VisitStep

\* The copies of a branch, for registers its on each partition.
LEMMA BranchStep ==
  ASSUME EmitInv, phase = "branch", Current.op = "br", Advance("host"),
         NEW T, T = [b \in {Block} |-> next[2]], NEW s, Reached(s), Open(T, s), launched \subseteq s.launched,
         NEW its, NEW regs,
         \A p \in Parts(place) :
           /\ IsClone(its[p], Current, regs[p], next[2])
           /\ DOMAIN regs[p] = DOMAIN Current.args
           /\ \A k \in DOMAIN regs[p] :
                Gives(fn, place, s.argReg, s.code, p, Block, next[2], regs[p][k], Current.args[k]),
         Commit(AtEach(s, Block, its)), mapped' = mapped
  PROVE  EmitInv'
<1>1. /\ Compiling /\ Block \in Blocks(fn) /\ next[2] \in DOMAIN fn.body[Block] /\ next[2] \in Nat
      /\ Current = fn.body[Block][next[2]]
  BY CurrentFacts DEF Walks
<1>2. PICK t : t = AtEach(s, Block, its)
  OBVIOUS
<1>3. Good(fn, place, s)
  BY DEF Reached
<1>4. \A p \in Parts(place) : /\ its[p] \in Items /\ its[p].do = "exec" /\ its[p].line = next[2]
                              /\ its[p].op = "br" /\ ~IsComm(its[p]) /\ Terminal(its[p])
  BY DEF IsClone, IsComm, Terminal
<1>5. \A p \in Parts(place) : Room(s.code[p][Block], its[p])
  <2>1. Block \in DOMAIN T /\ T[Block] = next[2]
    OBVIOUS
  <2> QED BY <1>1, <1>3, <1>4, <2>1, RoomAt
<1>6. Pushed(fn, place, s, t, Parts(place), Block, its) /\ SameBut(s, t)
  <2>1. \A p \in Parts(place) : /\ its[p] \in Items /\ its[p].do # "peek" /\ ~IsComm(its[p])
                                /\ Room(s.code[p][Block], its[p])
    BY <1>4, <1>5
  <2> QED BY <1>1, <1>2, <1>3, <2>1, EachPushes
<1>7. ASSUME NEW p \in Parts(place)
      PROVE  Timed(its[p], Block) /\ ItemOK(fn, place, t.argReg, t.code, p, Block, its[p])
  <2>1. Timed(its[p], Block)
    BY <1>4 DEF Timed
  <2>2. PICK i : i = its[p]
    OBVIOUS
  <2>3. PICK rs : rs = regs[p]
    OBVIOUS
  <2>4. /\ IsClone(i, Current, rs, next[2]) /\ DOMAIN rs = DOMAIN Current.args
        /\ \A k \in DOMAIN rs :
             Gives(fn, place, s.argReg, s.code, p, Block, next[2], rs[k], Current.args[k])
    BY <2>2, <2>3
  <2>5. Current.op \notin {"alloca", "ret"} /\ (Current.op # "br" => p = Part)
        /\ (Current.op = "phi" => rs = <<>>) /\ phase \in Walks
        /\ (DOMAIN rs = DOMAIN Current.args \/ (Current.op = "phi" /\ rs = <<>>))
    BY <2>4 DEF Walks
  <2>6. ItemOK(fn, place, s.argReg, s.code, p, Block, i)
    BY <2>4, <2>5, CloneOK
  <2>7. ItemOK(fn, place, t.argReg, t.code, p, Block, i)
    BY <1>3, <1>6, <2>6, PushedItem
  <2> QED BY <2>1, <2>2, <2>7
<1>8. /\ Reached(t) /\ t.launched = s.launched
      /\ \A p \in Parts(place) : its[p] \in ToSet(t.code[p][Block])
  BY <1>6, <1>7, PushedReached
<1>9. Ended(t.code, Block)
  <2>1. DOMAIN t.code = Parts(place)
    BY <1>8 DEF Reached, Evolves
  <2> QED BY <1>4, <1>8, <2>1 DEF Ended
<1>10. Visited(fn, place, t.code, mapped', t.launched, Rank(phase), Block, next[2])
  <2>1. Rank(phase) = 3
    BY DEF Rank
  <2> QED BY <1>9, <2>1 DEF Visited
<1>11. Follows("host") /\ launched \subseteq t.launched /\ Commit(t)
  BY <1>2, <1>8 DEF Follows
<1>12. mapped \subseteq mapped' /\ mapped' \subseteq DOMAIN place
  BY <1>1 DEF Compiling
<1>13. Good(fn, place, t) /\ Hosted(t) /\ Evolves(t.code)
  BY <1>8 DEF Reached
<1> QED BY <1>10, <1>11, <1>12, <1>13, VisitStep

LEMMA RepairJumpKeeps == ASSUME EmitInv, RepairJump PROVE EmitInv'
<1>1. PICK its : its = [p \in AllPartitions |-> Clone(Current, <<>>, next[2])]
  OBVIOUS
<1>2. /\ phase = "branch" /\ Current.op = "br" /\ Advance("host") /\ Current.args = <<>>
      /\ Commit(AtEach(Emitted, Block, its)) /\ mapped' = mapped
  BY <1>1 DEF RepairJump, Visit
<1>3. PICK T : T = [b \in {Block} |-> next[2]]
  OBVIOUS
<1>4. PICK s : s = Emitted
  OBVIOUS
<1>5. /\ Good(fn, place, s) /\ Hosted(s) /\ Current \in Instruction /\ next[2] \in Nat /\ Compiling
  BY <1>2, <1>4, CurrentFacts DEF Walks
<1>6. Open(T, s)
  BY <1>2, <1>3, <1>4, BranchOpen
<1>7. Reached(s) /\ launched \subseteq s.launched
  <2>1. s.code = code /\ s.launched = launched
    BY <1>4 DEF Emitted
  <2> QED BY <1>5, <2>1, SelfEvolves DEF Reached
<1>8. AllPartitions = Parts(place)
  BY <1>5, CompilingFacts
<1>9. <<>> \in Seq(Registers) /\ DOMAIN <<>> = {}
  OBVIOUS
<1>10. PICK regs : regs = [p \in Parts(place) |-> <<>>]
  OBVIOUS
<1>11. \A p \in Parts(place) : IsClone(its[p], Current, regs[p], next[2])
  <2> TAKE p \in Parts(place)
  <2>1. its[p] = Clone(Current, <<>>, next[2]) /\ regs[p] = <<>>
    BY <1>1, <1>8, <1>10
  <2>2. IsClone(Clone(Current, <<>>, next[2]), Current, <<>>, next[2])
    BY <1>5, <1>9, CloneFields
  <2> QED BY <2>1, <2>2
<1>12. \A p \in Parts(place) :
         /\ IsClone(its[p], Current, regs[p], next[2])
         /\ DOMAIN regs[p] = DOMAIN Current.args
         /\ \A k \in DOMAIN regs[p] :
              Gives(fn, place, s.argReg, s.code, p, Block, next[2], regs[p][k], Current.args[k])
  BY <1>2, <1>9, <1>10, <1>11
<1>13. Commit(AtEach(s, Block, its))
  BY <1>2, <1>4
<1> QED BY <1>2, <1>3, <1>6, <1>7, <1>12, <1>13, BranchStep

LEMMA RepairBranchKeeps == ASSUME EmitInv, RepairBranch PROVE EmitInv'
<1>1. PICK v : v = Current.args[1]
  OBVIOUS
<1>2. PICK e : e = Emitted
  OBVIOUS
<1>3. PICK s : s = Broadcast(e, v, place[v], Block)
  OBVIOUS
<1>4. PICK its : its = [p \in AllPartitions |-> Clone(Current, <<s.regs[p]>>, next[2])]
  OBVIOUS
<1>5. /\ phase = "branch" /\ Current.op = "br" /\ Advance("host") /\ Current.args # <<>>
      /\ v \in DOMAIN place /\ Commit(AtEach(s, Block, its)) /\ mapped' = mapped
  BY <1>1, <1>2, <1>3, <1>4 DEF RepairBranch, Visit
<1>6. PICK T : T = [b \in {Block} |-> next[2]]
  OBVIOUS
<1>7. /\ Good(fn, place, e) /\ Hosted(e) /\ Current \in Instruction /\ next[2] \in Nat /\ Compiling /\ Verified(fn)
      /\ Block \in Blocks(fn) /\ next[2] \in DOMAIN fn.body[Block] /\ Current = fn.body[Block][next[2]]
  BY <1>2, <1>5, CurrentFacts DEF Walks
<1>8. Open(T, e) /\ Sites(fn, T) /\ next[2] = Len(fn.body[Block])
  BY <1>2, <1>5, <1>6, BranchOpen
<1>9. AllPartitions = Parts(place)
  BY <1>7, CompilingFacts
<1>10. Block \in DOMAIN T /\ T[Block] = next[2]
  BY <1>6
<1>11. Shared(T, Block, v, e, s, Parts(place))
  <2>1. T[Block] = Len(fn.body[Block])
    BY <1>8, <1>10
  <2> QED BY <1>3, <1>5, <1>7, <1>8, <1>10, <2>1, BroadcastShares
<1>12. /\ Good(fn, place, s) /\ Open(T, s) /\ Grows(T, e, s)
  BY <1>11 DEF Shared
<1>13. Reached(s) /\ launched \subseteq s.launched
  <2>1. e.code = code /\ e.launched = launched
    BY <1>2 DEF Emitted
  <2>2. Evolves(s.code)
    BY <1>5, <1>12, <2>1, GrowsEvolves
  <2>3. Hosted(s) /\ launched \subseteq s.launched
    BY <1>7, <1>12, <2>1 DEF Grows
  <2> QED BY <1>12, <2>2, <2>3 DEF Reached
<1>14. \A p \in Parts(place) : s.regs[p] \in Registers
         /\ Gives(fn, place, s.argReg, s.code, p, Block, next[2], s.regs[p], v)
  BY <1>10, <1>11 DEF Shared
<1>15. PICK regs : regs = [p \in Parts(place) |-> <<s.regs[p]>>]
  OBVIOUS
<1>16. \A p \in Parts(place) : IsClone(its[p], Current, regs[p], next[2])
  <2> TAKE p \in Parts(place)
  <2>1. its[p] = Clone(Current, regs[p], next[2]) /\ regs[p] = <<s.regs[p]>>
    BY <1>4, <1>9, <1>15
  <2>2. regs[p] \in Seq(Registers)
    BY <1>14, <2>1
  <2> QED BY <1>7, <2>1, <2>2, CloneFields
<1>17. DOMAIN Current.args = {1}
  <2>1. PICK vs : vs = Current.args
    OBVIOUS
  <2>2. vs \in Seq(STRING) /\ vs # <<>>
    BY <1>5, <1>7, <2>1 DEF Instruction
  <2>3. <<Len(Current.args), Len(Current.blocks)>> \in {<<0, 1>>, <<1, 2>>}
    BY <1>5, <1>7, VerifiedBranch
  <2>4. Len(vs) = 0 \/ Len(vs) = 1
    BY <2>1, <2>3
  <2>5. Len(vs) # 0 /\ DOMAIN vs = 1 .. Len(vs)
    BY <2>2
  <2>6. DOMAIN vs = 1 .. 1
    BY <2>4, <2>5
  <2> QED BY <2>1, <2>6
<1>18. \A p \in Parts(place) :
         /\ IsClone(its[p], Current, regs[p], next[2])
         /\ DOMAIN regs[p] = DOMAIN Current.args
         /\ \A k \in DOMAIN regs[p] :
              Gives(fn, place, s.argReg, s.code, p, Block, next[2], regs[p][k], Current.args[k])
  <2> TAKE p \in Parts(place)
  <2>1. regs[p] = <<s.regs[p]>> /\ DOMAIN <<s.regs[p]>> = {1} /\ <<s.regs[p]>>[1] = s.regs[p]
    BY <1>15
  <2>2. DOMAIN regs[p] = {1} /\ regs[p][1] = s.regs[p]
    BY <2>1
  <2>3. ASSUME NEW k \in DOMAIN regs[p]
        PROVE  Gives(fn, place, s.argReg, s.code, p, Block, next[2], regs[p][k], Current.args[k])
    <3>1. k = 1
      BY <2>2
    <3> QED BY <1>1, <1>14, <2>2, <3>1
  <2> QED BY <1>16, <1>17, <2>2, <2>3
<1> QED BY <1>5, <1>6, <1>12, <1>13, <1>18, BranchStep

\* Item x is y with the operands regs if y is the copy of phi v.
IsFill(x, y, v, regs) ==
  /\ x \in Items /\ Akin(x, y) /\ x.val = y.val /\ x.at = y.at /\ x.blocks = y.blocks
  /\ IF y.op = "phi" /\ y.val = Value(v) THEN x.args = regs ELSE x = y

LEMMA FillFields ==
  ASSUME NEW s, Good(fn, place, s), s.regs \in Seq(Registers), NEW p \in Parts(place), NEW b \in Blocks(fn), NEW v,
         NEW t, t = FillPhi(s, p, b, v)
  PROVE  /\ Fields(t) /\ t.code \in Rows(fn, place) /\ SameBut(s, t) /\ t.commsId = s.commsId
         /\ \A q \in Parts(place), d \in Blocks(fn) : d # b \/ q # p => t.code[q][d] = s.code[q][d]
         /\ DOMAIN t.code[p][b] = DOMAIN s.code[p][b]
         /\ \A n \in DOMAIN s.code[p][b] : IsFill(t.code[p][b][n], s.code[p][b][n], v, s.regs)
<1> DEFINE row == s.code[p][b]
           fill(item) == IF item.op = "phi" /\ item.val = Value(v) THEN [item EXCEPT !.args = s.regs] ELSE item
           filled == [n \in DOMAIN row |-> fill(row[n])]
           c == s.code
           e == [c EXCEPT ![p][b] = filled]
<1>1. Fields(s) /\ c \in [Parts(place) -> [Blocks(fn) -> Seq(Items)]]
  BY DEF Good, Rows
<1>2. t = [s EXCEPT !.code = e]
  BY DEF FillPhi
<1>3. row \in Seq(Items)
  BY <1>1
<1>4. \A item \in Items : IsFill(fill(item), item, v, s.regs)
  BY DEF IsFill, Items, Akin
<1> HIDE DEF fill
<1>5. \A n \in DOMAIN row : row[n] \in Items /\ IsFill(filled[n], row[n], v, s.regs)
  BY <1>3, <1>4
<1>6. filled \in Seq(Items) /\ DOMAIN filled = DOMAIN row
  <2>1. \A n \in DOMAIN row : fill(row[n]) \in Items
    BY <1>5 DEF IsFill
  <2>2. Len(row) \in Nat /\ DOMAIN row = 1 .. Len(row)
    BY <1>3
  <2> HIDE DEF row
  <2> QED BY <2>1, <2>2
<1> HIDE DEF filled, row
<1>7. /\ e \in [Parts(place) -> [Blocks(fn) -> Seq(Items)]] /\ e[p][b] = filled
      /\ \A q \in Parts(place), d \in Blocks(fn) : d # b \/ q # p => e[q][d] = c[q][d]
  <2> HIDE DEF c
  <2> QED BY <1>1, <1>6
<1> HIDE DEF e
<1>8. Fields(t) /\ t.code = e /\ SameBut(s, t) /\ t.commsId = s.commsId
  BY <1>1, <1>2 DEF Fields, FieldNames, SameBut
<1> QED BY <1>5, <1>6, <1>7, <1>8 DEF Rows, row

\* The operands of a phi, each at the end of its incoming block.
LEMMA IncomingProvided ==
  ASSUME EmitInv, phase = "phi", Current.op = "phi", NEW s, s = MapIncoming(Emitted, Current, Part)
  PROVE  /\ Reached(s) /\ launched \subseteq s.launched
         /\ \A p \in Parts(place) : \A b \in Blocks(fn) : ToSet(code[p][b]) \subseteq ToSet(s.code[p][b])
         /\ s.regs \in Seq(Registers) /\ DOMAIN s.regs = DOMAIN Current.args
         /\ \A k \in DOMAIN s.regs :
              /\ Current.blocks[k] \in Blocks(fn)
              /\ Gives(fn, place, s.argReg, s.code, Part, Current.blocks[k], Len(fn.body[Current.blocks[k]]),
                       s.regs[k], Current.args[k])
<1>1. PICK e : e = Emitted
  OBVIOUS
<1>2. Compiling /\ Good(fn, place, e) /\ Hosted(e) /\ Part \in Parts(place)
  BY <1>1, CurrentFacts DEF Walks
<1>3. PICK T : T = [b \in Branching(fn) |-> Len(fn.body[b])]
  OBVIOUS
<1>4. Sites(fn, T) /\ Open(T, e)
  BY <1>1, <1>3, PhiOpen
<1>5. PICK phi : phi = Current
  OBVIOUS
<1>6. phi.args \in Seq(STRING)
  BY <1>5, PhiFacts
<1>7. \A k \in DOMAIN phi.args : Ready(phi.args[k]) /\ phi.blocks[k] \in Branching(fn)
  BY <1>5, PhiFacts
<1>8. \A k \in DOMAIN phi.args : /\ Ready(phi.args[k]) /\ phi.blocks[k] \in DOMAIN T
                                 /\ T[phi.blocks[k]] = Len(fn.body[phi.blocks[k]])
  BY <1>3, <1>7
<1>9. e.regs = <<>> /\ e.code = code /\ e.launched = launched
  BY <1>1 DEF Emitted
<1>10. s = MapIncoming(e, phi, Part)
  BY <1>1, <1>5
<1>11. Provided(T, Part, e, s, Len(phi.args), phi.args, phi.blocks)
  BY <1>2, <1>4, <1>6, <1>8, <1>9, <1>10, MapIncomingProvides
<1>12. PICK n : n = Len(phi.args)
  OBVIOUS
<1>13. n \in Nat /\ DOMAIN phi.args = 1 .. n
  BY <1>6, <1>12
<1>14. Provided(T, Part, e, s, n, phi.args, phi.blocks)
  BY <1>11, <1>12
<1>15. /\ Good(fn, place, s) /\ Grows(T, e, s) /\ s.regs \in Seq(Registers) /\ Len(s.regs) = n
       /\ \A k \in 1 .. n :
            Gives(fn, place, s.argReg, s.code, Part, phi.blocks[k], T[phi.blocks[k]], s.regs[k], phi.args[k])
  BY <1>14 DEF Provided
<1>16. DOMAIN s.regs = 1 .. n
  BY <1>15
<1>17. ASSUME NEW k \in 1 .. n
       PROVE  /\ phi.blocks[k] \in Blocks(fn)
              /\ Gives(fn, place, s.argReg, s.code, Part, phi.blocks[k], Len(fn.body[phi.blocks[k]]),
                       s.regs[k], phi.args[k])
  <2>1. k \in DOMAIN phi.args
    BY <1>13
  <2>2. phi.blocks[k] \in Branching(fn) /\ T[phi.blocks[k]] = Len(fn.body[phi.blocks[k]])
    BY <1>7, <1>8, <2>1
  <2>3. Gives(fn, place, s.argReg, s.code, Part, phi.blocks[k], T[phi.blocks[k]], s.regs[k], phi.args[k])
    BY <1>15
  <2> QED BY <2>2, <2>3 DEF Branching
<1>18. Hosted(s) /\ launched \subseteq s.launched
  BY <1>2, <1>9, <1>15 DEF Grows
<1>19. Evolves(s.code)
  BY <1>9, <1>15, GrowsEvolves
<1>20. \A p \in Parts(place) : \A b \in Blocks(fn) : ToSet(code[p][b]) \subseteq ToSet(s.code[p][b])
  <2>1. DOMAIN e.code = Parts(place) /\ \A p \in Parts(place) : DOMAIN e.code[p] = Blocks(fn)
    BY <1>2, GoodRows
  <2> QED BY <1>9, <1>15, <2>1 DEF Grows
<1> QED BY <1>5, <1>13, <1>15, <1>16, <1>17, <1>18, <1>19, <1>20 DEF Reached

\* What filling in the operands does to the items.
FilledRows(s, t) ==
  /\ \A p \in Parts(place) : \A b \in Blocks(fn) :
       /\ \A y \in ToSet(s.code[p][b]) : \E x \in ToSet(t.code[p][b]) : IsFill(x, y, Current.name, s.regs)
       /\ \A x \in ToSet(t.code[p][b]) :
            \/ x \in ToSet(s.code[p][b])
            \/ /\ p = Part /\ b = Block
               /\ \E y \in ToSet(s.code[p][b]) :
                    /\ IsFill(x, y, Current.name, s.regs) /\ y.op = "phi" /\ y.val = Value(Current.name)
  /\ \A p \in Parts(place) : \A b \in Blocks(fn) : RowOK(t.code[p][b])

LEMMA FillRows ==
  ASSUME EmitInv, phase = "phi", Current.op = "phi", NEW s, Good(fn, place, s), s.regs \in Seq(Registers),
         NEW t, t = FillPhi(s, Part, Block, Current.name)
  PROVE  FilledRows(s, t)
<1> DEFINE r == s.code[Part][Block]
           q == t.code[Part][Block]
           v == Current.name
<1>1. Part \in Parts(place) /\ Block \in Blocks(fn)
  BY CurrentFacts DEF Walks
<1>2. /\ \A p \in Parts(place), b \in Blocks(fn) : b # Block \/ p # Part => t.code[p][b] = s.code[p][b]
      /\ DOMAIN q = DOMAIN r
      /\ \A n \in DOMAIN r : IsFill(q[n], r[n], v, s.regs)
  BY <1>1, FillFields
<1>3. \A p \in Parts(place) : \A b \in Blocks(fn) : s.code[p][b] \in Seq(Items) /\ RowOK(s.code[p][b])
  BY GoodRows DEF Good
<1> HIDE DEF r, q, v
<1>4. r \in Seq(Items) /\ RowOK(r)
  BY <1>1, <1>3 DEF r
<1>5. ASSUME NEW y \in Items
      PROVE  ~(y.op = "phi" /\ y.val = Value(v)) => IsFill(y, y, v, s.regs)
  BY DEF IsFill, Akin
<1>6. ASSUME NEW p \in Parts(place), NEW b \in Blocks(fn), b # Block \/ p # Part
      PROVE  /\ t.code[p][b] = s.code[p][b]
             /\ \A y \in ToSet(s.code[p][b]) : y.op = "phi" /\ y.val = Value(v) => FALSE
  <2>1. t.code[p][b] = s.code[p][b]
    BY <1>2, <1>6
  <2>2. ASSUME NEW y \in ToSet(s.code[p][b]), y.op = "phi", y.val = Value(v)
        PROVE  FALSE
    <3>1. Verified(fn) /\ Compiling
      BY CompilingFacts DEF EmitInv
    <3>2. ItemOK(fn, place, s.argReg, s.code, p, b, y)
      BY GoodRows
    <3>3. y.do = "exec"
      BY <2>2, <3>2 DEF ItemOK
    <3>4. ExecOK(fn, place, s.argReg, s.code, p, b, y) /\ y.line \in DOMAIN fn.body[b]
      BY <3>2, <3>3 DEF ItemOK
    <3>5. y.val = Value(fn.body[b][y.line].name) /\ (y.op # "br" => place[fn.body[b][y.line].name] = p)
      BY <3>4 DEF ExecOK
    <3>6. fn.body[b][y.line].name = v
      BY <2>2, <3>5, RegistersDiffer
    <3>7. next[2] \in DOMAIN fn.body[Block] /\ fn.body[Block][next[2]].name = v
      BY CurrentFacts DEF Walks, v
    <3>8. b = Block
      BY <1>1, <3>1, <3>4, <3>6, <3>7, NameUnique
    <3>9. place[v] = p
      BY <2>2, <3>5, <3>6
    <3> QED BY <1>6, <3>8, <3>9 DEF Part, v
  <2> QED BY <2>1, <2>2
<1>7. ASSUME NEW p \in Parts(place), NEW b \in Blocks(fn)
      PROVE  /\ \A y \in ToSet(s.code[p][b]) : \E x \in ToSet(t.code[p][b]) : IsFill(x, y, v, s.regs)
             /\ \A x \in ToSet(t.code[p][b]) :
                  \/ x \in ToSet(s.code[p][b])
                  \/ /\ p = Part /\ b = Block
                     /\ \E y \in ToSet(s.code[p][b]) :
                          /\ IsFill(x, y, v, s.regs) /\ y.op = "phi" /\ y.val = Value(v)
  <2>1. CASE b # Block \/ p # Part
    <3>1. \A y \in ToSet(s.code[p][b]) : y \in Items
      BY <1>3 DEF ToSet
    <3> QED BY <1>5, <1>6, <2>1, <3>1
  <2>2. CASE b = Block /\ p = Part
    <3>1. s.code[p][b] = r /\ t.code[p][b] = q
      BY <2>2 DEF r, q
    <3>2. \A y \in ToSet(r) : \E x \in ToSet(q) : IsFill(x, y, v, s.regs)
      BY <1>2 DEF ToSet
    <3>3. ASSUME NEW x \in ToSet(q)
          PROVE  \/ x \in ToSet(r)
                 \/ \E y \in ToSet(r) : IsFill(x, y, v, s.regs) /\ y.op = "phi" /\ y.val = Value(v)
      <4>1. PICK n \in DOMAIN r : x = q[n] /\ r[n] \in ToSet(r)
        BY <1>2 DEF ToSet
      <4>2. IsFill(x, r[n], v, s.regs)
        BY <1>2, <4>1
      <4>3. CASE r[n].op = "phi" /\ r[n].val = Value(v)
        BY <4>1, <4>2, <4>3
      <4>4. CASE ~(r[n].op = "phi" /\ r[n].val = Value(v))
        <5>1. x = r[n]
          BY <4>2, <4>4 DEF IsFill
        <5> QED BY <4>1, <5>1
      <4> QED BY <4>3, <4>4
    <3> QED BY <2>2, <3>1, <3>2, <3>3
  <2> QED BY <2>1, <2>2
<1>8. RowOK(q)
  <2>1. \A n \in DOMAIN r : /\ q[n].do = r[n].do /\ q[n].line = r[n].line /\ q[n].op = r[n].op /\ q[n].at = r[n].at
    BY <1>2 DEF IsFill, Akin
  <2>2. \A n \in DOMAIN r : /\ IsComm(q[n]) <=> IsComm(r[n])
                            /\ Terminal(q[n]) <=> Terminal(r[n])
    BY <2>1 DEF IsComm, Terminal
  <2> QED BY <1>2, <1>4, <2>1, <2>2 DEF RowOK
<1>9. \A p \in Parts(place) : \A b \in Blocks(fn) : RowOK(t.code[p][b])
  <2> TAKE p \in Parts(place)
  <2> TAKE b \in Blocks(fn)
  <2>1. CASE b # Block \/ p # Part
    BY <1>3, <1>6, <2>1
  <2>2. CASE b = Block /\ p = Part
    BY <1>8, <2>2 DEF q
  <2> QED BY <2>1, <2>2
<1> QED BY <1>7, <1>9 DEF FilledRows, v

\* The copy of the phi, before and after.
LEMMA PhiCopy ==
  ASSUME EmitInv, phase = "phi", Current.op = "phi", NEW s, Good(fn, place, s),
         NEW p \in Parts(place), NEW b \in Blocks(fn), NEW y \in ToSet(s.code[p][b])
  PROVE  /\ y.do # "exec" => y.op = "none" /\ y.args = <<>>
         /\ y.op = "phi" /\ y.val = Value(Current.name) =>
              /\ p = Part /\ b = Block /\ y.do = "exec" /\ y.line = next[2] /\ y.blocks = Current.blocks
         /\ p = Part /\ b = Block /\ y.do = "exec" /\ y.line = next[2] =>
              y.op = "phi" /\ y.val = Value(Current.name)
<1>1. Verified(fn) /\ Compiling
  BY CompilingFacts DEF EmitInv
<1>2. /\ Block \in Blocks(fn) /\ next[2] \in DOMAIN fn.body[Block] /\ fn.body[Block][next[2]] = Current
  BY CurrentFacts DEF Walks
<1>3. ItemOK(fn, place, s.argReg, s.code, p, b, y)
  BY GoodRows
<1>4. y.do # "exec" => y.op = "none" /\ y.args = <<>>
  BY <1>3 DEF ItemOK
<1>5. y.do = "exec" => ExecOK(fn, place, s.argReg, s.code, p, b, y) /\ y.line \in DOMAIN fn.body[b]
  BY <1>3 DEF ItemOK
<1>6. y.do = "exec" =>
        /\ y.op = fn.body[b][y.line].op /\ y.val = Value(fn.body[b][y.line].name)
        /\ y.blocks = fn.body[b][y.line].blocks
        /\ y.op # "br" => place[fn.body[b][y.line].name] = p
  BY <1>5 DEF ExecOK
<1>7. ASSUME y.op = "phi", y.val = Value(Current.name)
      PROVE  p = Part /\ b = Block /\ y.do = "exec" /\ y.line = next[2] /\ y.blocks = Current.blocks
  <2>1. y.do = "exec"
    BY <1>4, <1>7
  <2>2. fn.body[b][y.line].name = Current.name
    BY <1>6, <1>7, <2>1, RegistersDiffer
  <2>3. b = Block /\ y.line = next[2]
    BY <1>1, <1>2, <1>5, <2>1, <2>2, NameUnique
  <2> QED BY <1>2, <1>6, <1>7, <2>1, <2>3 DEF Part
<1>8. ASSUME p = Part, b = Block, y.do = "exec", y.line = next[2]
      PROVE  y.op = "phi" /\ y.val = Value(Current.name)
  BY <1>2, <1>6, <1>8
<1> QED BY <1>4, <1>7, <1>8

LEMMA FillContinues ==
  ASSUME EmitInv, phase = "phi", Current.op = "phi", NEW s, Good(fn, place, s),
         s.regs \in Seq(Registers), DOMAIN s.regs = DOMAIN Current.args,
         \A k \in DOMAIN s.regs :
           /\ Current.blocks[k] \in Blocks(fn)
           /\ Gives(fn, place, s.argReg, s.code, Part, Current.blocks[k], Len(fn.body[Current.blocks[k]]),
                    s.regs[k], Current.args[k]),
         NEW t, t = FillPhi(s, Part, Block, Current.name)
  PROVE  Good(fn, place, t)
<1>1. /\ Compiling /\ Verified(fn) /\ Part \in Parts(place) /\ Block \in Blocks(fn)
      /\ next[2] \in DOMAIN fn.body[Block] /\ fn.body[Block][next[2]] = Current
  BY CurrentFacts DEF Walks
<1>2. FilledRows(s, t)
  BY FillRows
<1>3. Fields(t) /\ t.code \in Rows(fn, place) /\ SameBut(s, t) /\ t.commsId = s.commsId
  BY <1>1, FillFields
<1>4. /\ DOMAIN s.code = Parts(place) /\ Peered(s.code)
      /\ \A p \in Parts(place) : DOMAIN s.code[p] = Blocks(fn)
  BY GoodRows
<1>5. DOMAIN t.code = Parts(place) /\ \A p \in Parts(place) : DOMAIN t.code[p] = Blocks(fn)
  BY <1>3 DEF Rows
<1>6. t.argReg = s.argReg
  BY <1>3 DEF SameBut
<1>7. Keeps(s.argReg, s.code, t.argReg, t.code)
  <2> SUFFICES ASSUME NEW p \in Parts(place), NEW b \in Blocks(fn), NEW i \in ToSet(s.code[p][b]), i.do # "exec"
               PROVE  i \in ToSet(t.code[p][b])
    BY <1>4, <1>5, <1>6 DEF Keeps
  <2>1. PICK x \in ToSet(t.code[p][b]) : IsFill(x, i, Current.name, s.regs)
    BY <1>2 DEF FilledRows
  <2>2. i.op = "none"
    BY PhiCopy
  <2> QED BY <2>1, <2>2 DEF IsFill
<1>8. ASSUME NEW p \in Parts(place), NEW b \in Blocks(fn), NEW i, Added(s, t, p, b, i)
      PROVE  NewItem(fn, place, s, t, p, b, i) /\ ~IsComm(i)
  <2>1. i \in ToSet(t.code[p][b]) /\ i \notin ToSet(s.code[p][b])
    BY <1>8 DEF Added
  <2>2. p = Part /\ b = Block
    BY <1>2, <2>1 DEF FilledRows
  <2>3. PICK y \in ToSet(s.code[p][b]) :
          IsFill(i, y, Current.name, s.regs) /\ y.op = "phi" /\ y.val = Value(Current.name)
    BY <1>2, <2>1 DEF FilledRows
  <2>4. y.do = "exec" /\ y.line = next[2] /\ y.blocks = Current.blocks
    BY <2>3, PhiCopy
  <2>5. /\ i.do = "exec" /\ i.line = next[2] /\ i.op = "phi" /\ i.val = Value(Current.name)
        /\ i.blocks = Current.blocks /\ i.args = s.regs
    BY <2>3, <2>4 DEF IsFill, Akin
  <2>6. ASSUME NEW k \in DOMAIN s.regs
        PROVE  Gives(fn, place, t.argReg, t.code, Part, Current.blocks[k], Len(fn.body[Current.blocks[k]]),
                     s.regs[k], Current.args[k])
    <3>1. PICK d \in Blocks(fn) : d = Current.blocks[k]
      OBVIOUS
    <3>2. Gives(fn, place, s.argReg, s.code, Part, d, Len(fn.body[d]), s.regs[k], Current.args[k])
      BY <3>1
    <3>3. Part \in DOMAIN s.code /\ d \in DOMAIN s.code[Part]
      BY <1>1, <1>4
    <3>4. \A x \in ToSet(s.code[Part][d]) : x.do = "receive" => x.peer \in DOMAIN s.code /\ d \in DOMAIN s.code[x.peer]
      BY <1>4, <3>3 DEF Peered, IsComm
    <3>5. Gives(fn, place, t.argReg, t.code, Part, d, Len(fn.body[d]), s.regs[k], Current.args[k])
      BY <1>7, <3>2, <3>3, <3>4, GivesKept
    <3> QED BY <3>1, <3>5
  <2>7. ExecOK(fn, place, t.argReg, t.code, p, b, i)
    <3>1. place[Current.name] = p
      BY <2>2 DEF Part
    <3> QED BY <1>1, <2>2, <2>5, <2>6, <3>1 DEF ExecOK
  <2>8. ~IsComm(i)
    BY <2>5 DEF IsComm
  <2>9. ItemOK(fn, place, t.argReg, t.code, p, b, i)
    BY <1>1, <2>2, <2>5, <2>7, <2>8 DEF ItemOK, Calls
  <2> QED BY <2>8, <2>9 DEF NewItem
<1>9. s.commsId \in Nat /\ s.launched \subseteq Parts(place)
  BY DEF Good
<1>10. \A p \in Parts(place) : \A b \in Blocks(fn) : RowOK(t.code[p][b])
  BY <1>2 DEF FilledRows
<1>11. t.launched \subseteq Parts(place) /\ s.commsId <= t.commsId /\ t.commsId \in Nat
  BY <1>3, <1>9 DEF SameBut
<1>12. \A p \in Parts(place) : \A b \in Blocks(fn) : \A i : Added(s, t, p, b, i) => NewItem(fn, place, s, t, p, b, i)
  BY <1>8
<1>13. \A p, q \in Parts(place) : \A a, b \in Blocks(fn) : \A i, j :
         Added(s, t, p, a, i) /\ Added(s, t, q, b, j) /\ IsComm(i) /\ IsComm(j) /\ i.do = j.do =>
           p = q /\ a = b
  BY <1>8
<1>14. Continues(fn, place, s, t)
  BY <1>3, <1>6, <1>7, <1>10, <1>11, <1>12, <1>13 DEF Continues
<1> QED BY <1>1, <1>14, ContinuesGood

LEMMA RepairPhiKeeps == ASSUME EmitInv, RepairPhi PROVE EmitInv'
<1>1. PICK s : s = MapIncoming(Emitted, Current, Part)
  OBVIOUS
<1>2. PICK t : t = FillPhi(s, Part, Block, Current.name)
  OBVIOUS
<1>3. /\ phase = "phi" /\ Current.op = "phi" /\ Advance("branch") /\ Commit(t) /\ mapped' = mapped
  BY <1>1, <1>2 DEF RepairPhi, Visit
<1>4. /\ Compiling /\ Part \in Parts(place) /\ Block \in Blocks(fn)
      /\ next[2] \in DOMAIN fn.body[Block] /\ fn.body[Block][next[2]] = Current
      /\ Current.name \in DOMAIN place
  BY <1>3, CurrentFacts DEF Walks
<1>5. /\ Reached(s) /\ launched \subseteq s.launched
      /\ \A p \in Parts(place) : \A b \in Blocks(fn) : ToSet(code[p][b]) \subseteq ToSet(s.code[p][b])
      /\ s.regs \in Seq(Registers) /\ DOMAIN s.regs = DOMAIN Current.args
      /\ \A k \in DOMAIN s.regs :
           /\ Current.blocks[k] \in Blocks(fn)
           /\ Gives(fn, place, s.argReg, s.code, Part, Current.blocks[k], Len(fn.body[Current.blocks[k]]),
                    s.regs[k], Current.args[k])
  BY <1>1, <1>3, IncomingProvided
<1>6. Good(fn, place, s) /\ Hosted(s) /\ Evolves(s.code)
  BY <1>5 DEF Reached
<1>7. Good(fn, place, t)
  BY <1>2, <1>3, <1>5, <1>6, FillContinues
<1>8. SameBut(s, t)
  BY <1>2, <1>4, <1>5, <1>6, FillFields
<1>9. Hosted(t) /\ launched \subseteq t.launched
  BY <1>5, <1>6, <1>8 DEF SameBut, Hosted
<1>10. FilledRows(s, t)
  BY <1>2, <1>3, <1>5, <1>6, FillRows
<1>11. \A p \in Parts(place) : \A b \in Blocks(fn) : \A y \in ToSet(s.code[p][b]) :
         \E x \in ToSet(t.code[p][b]) : IsFill(x, y, Current.name, s.regs)
  BY <1>10 DEF FilledRows
<1>12. ASSUME NEW p \in Parts(place), NEW b \in Blocks(fn), NEW i \in ToSet(code[p][b])
       PROVE  \E x \in ToSet(t.code[p][b]) :
                Akin(x, i) /\ (x.args = i.args \/ DOMAIN x.args = DOMAIN fn.body[b][i.line].args)
  <2>1. i \in ToSet(s.code[p][b])
    BY <1>5
  <2>2. PICK x \in ToSet(t.code[p][b]) : IsFill(x, i, Current.name, s.regs)
    BY <1>11, <2>1
  <2>3. CASE i.op = "phi" /\ i.val = Value(Current.name)
    <3>1. b = Block /\ i.line = next[2]
      BY <1>3, <1>6, <2>1, <2>3, PhiCopy
    <3>2. x.args = s.regs /\ Akin(x, i)
      BY <2>2, <2>3 DEF IsFill
    <3> QED BY <1>4, <1>5, <3>1, <3>2
  <2>4. CASE ~(i.op = "phi" /\ i.val = Value(Current.name))
    BY <2>2, <2>4 DEF IsFill
  <2> QED BY <2>3, <2>4
<1>13. ASSUME NEW p \in Parts(place), NEW b \in Blocks(fn), NEW x \in ToSet(t.code[p][b])
       PROVE  x.do = "peek" \/ (\E i \in ToSet(code[p][b]) : Akin(x, i)) \/ Timed(x, b)
  <2>1. \E y \in ToSet(s.code[p][b]) : Akin(x, y)
    <3>1. CASE x \in ToSet(s.code[p][b])
      BY <3>1 DEF Akin
    <3>2. CASE x \notin ToSet(s.code[p][b])
      BY <1>10, <3>2 DEF FilledRows, IsFill
    <3> QED BY <3>1, <3>2
  <2>2. PICK y \in ToSet(s.code[p][b]) : Akin(x, y)
    BY <2>1
  <2>3. y.do = "peek" \/ (\E i \in ToSet(code[p][b]) : Akin(y, i)) \/ Timed(y, b)
    BY <1>6 DEF Evolves
  <2> QED BY <2>2, <2>3 DEF Akin, Timed
<1>14. Evolves(t.code)
  <2>1. DOMAIN t.code = Parts(place)
    BY <1>7, GoodRows
  <2> QED BY <1>12, <1>13, <2>1 DEF Evolves
<1>15. Filled(fn, place, t.code, Block, next[2])
  <2>1. Past(fn, 1, phase, next, Block, next[2])
    BY <1>3 DEF Past, Rank
  <2>2. Visited(fn, place, code, mapped, launched, 1, Block, next[2])
    <3>1. 1 \in 1 .. 3 /\ phase # "failed"
      BY <1>3
    <3> QED BY <1>4, <2>1, <3>1 DEF EmitInv, Walked
  <2>3. Copied(fn, place, code, Block, next[2])
    BY <1>3, <1>4, <2>2 DEF Visited
  <2>4. PICK i \in ToSet(code[Part][Block]) : i.do = "exec" /\ i.line = next[2]
    BY <1>4, <2>3 DEF Copied, Part
  <2>5. i \in ToSet(s.code[Part][Block])
    BY <1>4, <1>5
  <2>6. i.op = "phi" /\ i.val = Value(Current.name)
    BY <1>3, <1>4, <1>6, <2>4, <2>5, PhiCopy
  <2>7. PICK x \in ToSet(t.code[Part][Block]) : IsFill(x, i, Current.name, s.regs)
    BY <1>4, <1>11, <2>5
  <2>8. x.do = "exec" /\ x.line = next[2] /\ x.args = s.regs
    BY <2>4, <2>6, <2>7 DEF IsFill, Akin
  <2> QED BY <1>4, <1>5, <2>7, <2>8 DEF Filled, Part
<1>16. Visited(fn, place, t.code, mapped', t.launched, Rank(phase), Block, next[2])
  <2>1. Rank(phase) = 2
    BY <1>3 DEF Rank
  <2> QED BY <1>15, <2>1 DEF Visited
<1>17. Follows("branch")
  BY <1>3 DEF Follows
<1>18. mapped \subseteq mapped' /\ mapped' \subseteq DOMAIN place
  BY <1>3, <1>4 DEF Compiling
<1> QED BY <1>3, <1>7, <1>9, <1>14, <1>16, <1>17, <1>18, VisitStep

\* h is row a followed by row c.
Followed(S, a, c, h) ==
  /\ h \in Seq(S) /\ Len(h) = Len(a) + Len(c)
  /\ \A n \in 1 .. Len(a) : h[n] = a[n]
  /\ \A n \in 1 .. Len(c) : h[Len(a) + n] = c[n]

LEMMA JoinedRow ==
  ASSUME NEW S, NEW a \in Seq(S), NEW c \in Seq(S)
  PROVE  Followed(S, a, c, a \o c)
BY DEF Followed

LEMMA ReplaceFunKeeps == ASSUME EmitInv, ReplaceFun PROVE EmitInv'
<1>1. /\ phase = "host" /\ phase' = "done"
      /\ UNCHANGED <<fn, place, next, code, mapped, argReg, launched, commsId>>
  BY DEF ReplaceFun
<1>2. Compiling /\ Good(fn, place, Emitted) /\ Hosted(Emitted)
  BY <1>1 DEF EmitInv
<1>3. /\ Emitted'.code = Emitted.code /\ Emitted'.argReg = Emitted.argReg
      /\ Emitted'.launched = Emitted.launched /\ Emitted'.commsId = Emitted.commsId /\ Fields(Emitted')
  BY <1>1 DEF Emitted, Fields, FieldNames
<1>4. Good(fn, place, Emitted') /\ Compiling'
  BY <1>1, <1>2, <1>3 DEF Good, Compiling
<1>5. Walked(fn, place, code', mapped', launched', phase', next') /\ Timely(fn, code', phase', next')
  <2>1. Rank(phase') = 4 /\ Rank(phase) = 4
    BY <1>1 DEF Rank
  <2>2. \A w, b, k : Past(fn, w, phase', next', b, k) <=> Past(fn, w, phase, next, b, k)
    BY <1>1, <2>1 DEF Past
  <2>3. Walked(fn, place, code, mapped, launched, phase, next) /\ Timely(fn, code, phase, next)
    BY <1>1 DEF EmitInv
  <2>4. Walked(fn, place, code, mapped, launched, phase', next')
    BY <2>2, <2>3 DEF Walked
  <2>5. Timely(fn, code, phase', next')
    BY <2>2, <2>3 DEF Timely, OnTime
  <2> QED BY <1>1, <2>4, <2>5
<1>6. HostShape(fn, argReg', host')
  <2> DEFINE H == [do : {"send_argument"}, val : Registers, at : Nat, peer : Nat, line : Nat,
                   op : {"none"}, args : {<<>>}, blocks : {<<>>}]
             first == Item("spawn", NoRegister, 0, 0, 0)
             last == Item("join", NoRegister, 0, 0, 0)
             back == Item("receive_return", NoRegister, 0, 0, 0)
  <2>1. first.do = "spawn" /\ last.do = "join" /\ back.do = "receive_return"
    BY DEF Item
  <2>2. host' = <<first>> \o host \o (IF Returns THEN <<back>> ELSE <<>>) \o <<last>>
    BY DEF ReplaceFun
  <2>3. host \in Seq(H) /\ \A n \in DOMAIN host : \E d \in DOMAIN argReg :
          argReg[d] = Argument(host[n].at) /\ host[n].val = Value(d[2])
    BY <1>2 DEF Hosted, Emitted
  <2>4. \A n \in DOMAIN host : host[n].do = "send_argument"
    <3>1. \A x \in H : x.do = "send_argument"
      OBVIOUS
    <3> HIDE DEF H
    <3> QED BY <2>3, <3>1
  <2>5. PICK m : m = Len(host)
    OBVIOUS
  <2> HIDE DEF H, first, last, back
  <2>6. m \in Nat /\ DOMAIN host = 1 .. m
    BY <2>3, <2>5
  <2>7. PICK mid : mid = IF Returns THEN <<back>> ELSE <<>>
    OBVIOUS
  <2> DEFINE S == H \cup {first, last, back}
             a == <<first>> \o host
             c == a \o mid
             h == c \o <<last>>
  <2>8. host \in Seq(S) /\ <<first>> \in Seq(S) /\ <<last>> \in Seq(S) /\ mid \in Seq(S)
    <3>1. Seq(H) \subseteq Seq(S)
      OBVIOUS
    <3>2. <<first>> \in Seq(S) /\ <<last>> \in Seq(S) /\ <<back>> \in Seq(S) /\ <<>> \in Seq(S)
      OBVIOUS
    <3> HIDE DEF S
    <3> QED BY <2>3, <2>7, <3>1, <3>2
  <2>9. Len(mid) \in {0, 1} /\ \A n \in 1 .. Len(mid) : mid[n] = back
    <3>1. Len(<<back>>) = 1 /\ Len(<<>>) = 0 /\ <<back>>[1] = back
      OBVIOUS
    <3> QED BY <2>7, <3>1
  <2>10. PICK k : k = Len(mid)
    OBVIOUS
  <2>11. k \in {0, 1} /\ (Returns => k = 1) /\ \A n \in 1 .. k : mid[n] = back
    <3>1. Len(<<back>>) = 1
      OBVIOUS
    <3> QED BY <2>7, <2>9, <2>10, <3>1
  <2>12. Len(<<first>>) = 1 /\ <<first>>[1] = first /\ Len(<<last>>) = 1 /\ <<last>>[1] = last
    OBVIOUS
  <2> HIDE DEF S, a, c, h
  <2>13. /\ a \in Seq(S) /\ Len(a) = 1 + m /\ a[1] = first
         /\ \A n \in 1 .. m : a[1 + n] = host[n]
    <3>1. Followed(S, <<first>>, host, a)
      BY <2>8, JoinedRow DEF a
    <3> QED BY <2>5, <2>6, <2>12, <3>1 DEF Followed
  <2>14. /\ c \in Seq(S) /\ Len(c) = 1 + m + k
         /\ \A n \in 1 .. 1 + m : c[n] = a[n]
         /\ \A n \in 1 .. k : c[1 + m + n] = back
    <3>1. Followed(S, a, mid, c)
      BY <2>8, <2>13, JoinedRow DEF c
    <3> QED BY <2>10, <2>11, <2>13, <3>1 DEF Followed
  <2>15. /\ h \in Seq(S) /\ Len(h) = 1 + m + k + 1
         /\ \A n \in 1 .. 1 + m + k : h[n] = c[n]
         /\ h[1 + m + k + 1] = last
    <3>1. Followed(S, c, <<last>>, h)
      BY <2>8, <2>14, JoinedRow DEF h
    <3> QED BY <2>12, <2>14, <3>1 DEF Followed
  <2>16. host' = h
    BY <2>2, <2>7 DEF h, c, a
  <2>17. DOMAIN h = 1 .. 1 + m + k + 1 /\ Len(h) \in Nat /\ Len(h) >= 2 /\ Len(h) # 1
    <3>1. DOMAIN h = 1 .. Len(h)
      BY <2>15
    <3> QED BY <2>6, <2>11, <2>15, <3>1
  <2>18. ASSUME NEW n \in DOMAIN h
         PROVE  \/ n = 1 /\ h[n] = first
                \/ n - 1 \in DOMAIN host /\ h[n] = host[n - 1] /\ n # 1 /\ n # Len(h)
                \/ h[n] = back /\ n # 1 /\ n # Len(h)
                \/ n = Len(h) /\ h[n] = last
    <3>1. CASE n = 1
      BY <2>6, <2>11, <2>13, <2>14, <2>15, <3>1
    <3>2. CASE n \in 2 .. 1 + m
      <4>1. n - 1 \in 1 .. m /\ n = 1 + (n - 1) /\ n \in 1 .. 1 + m /\ n \in 1 .. 1 + m + k
        BY <2>6, <2>11, <3>2
      <4> QED BY <2>6, <2>11, <2>13, <2>14, <2>15, <3>2, <4>1
    <3>3. CASE n \in 2 + m .. 1 + m + k
      <4>1. n - 1 - m \in 1 .. k /\ n = 1 + m + (n - 1 - m) /\ n \in 1 .. 1 + m + k /\ n # 1 /\ n # 1 + m + k + 1
        BY <2>6, <2>11, <3>3
      <4> QED BY <2>14, <2>15, <4>1
    <3>4. CASE n = 1 + m + k + 1
      BY <2>15, <3>4
    <3> QED BY <2>6, <2>11, <2>17, <3>1, <3>2, <3>3, <3>4
  <2>19. \A n \in DOMAIN h :
           /\ h[n].do = "spawn" <=> n = 1
           /\ h[n].do = "join" <=> n = Len(h)
           /\ h[n].do = "send_argument" =>
                \E d \in DOMAIN argReg : argReg[d] = Argument(h[n].at) /\ h[n].val = Value(d[2])
    <3> TAKE n \in DOMAIN h
    <3>0. 1 # Len(h)
      BY <2>17
    <3>1. CASE n = 1 /\ h[n] = first
      <4>1. h[n].do = "spawn"
        BY <2>1, <3>1
      <4> QED BY <3>0, <3>1, <4>1
    <3>2. CASE n - 1 \in DOMAIN host /\ h[n] = host[n - 1] /\ n # 1 /\ n # Len(h)
      <4>1. h[n].do = "send_argument"
        BY <2>4, <3>2
      <4>2. \E d \in DOMAIN argReg : argReg[d] = Argument(h[n].at) /\ h[n].val = Value(d[2])
        BY <2>3, <3>2
      <4> QED BY <3>2, <4>1, <4>2
    <3>3. CASE h[n] = back /\ n # 1 /\ n # Len(h)
      <4>1. h[n].do = "receive_return"
        BY <2>1, <3>3
      <4> QED BY <3>3, <4>1
    <3>4. CASE n = Len(h) /\ h[n] = last
      <4>1. h[n].do = "join"
        BY <2>1, <3>4
      <4> QED BY <3>0, <3>4, <4>1
    <3> QED BY <2>18, <3>1, <3>2, <3>3, <3>4
  <2>20. Returns => \E n \in DOMAIN h : h[n].do = "receive_return"
    <3> SUFFICES ASSUME Returns PROVE \E n \in DOMAIN h : h[n].do = "receive_return"
      OBVIOUS
    <3>1. k = 1 /\ 1 \in 1 .. k /\ 1 + m + 1 \in 1 .. 1 + m + k /\ 1 + m + 1 \in DOMAIN h
      BY <2>6, <2>11, <2>17
    <3>2. h[1 + m + 1] = back
      BY <2>14, <2>15, <3>1
    <3> QED BY <2>1, <3>1, <3>2
  <2> QED BY <1>1, <2>16, <2>17, <2>19, <2>20 DEF HostShape, Returns
<1> QED BY <1>1, <1>4, <1>5, <1>6 DEF EmitInv, Walks

LEMMA InitHolds == ASSUME EmitInit PROVE EmitInv
<1>1. /\ fn \in Functions /\ place \in Placements(fn) /\ phase = "straightline" /\ next = <<1, 1>>
      /\ code = [p \in AllPartitions |-> [b \in Blocks(fn) |-> <<>>]]
      /\ mapped = {} /\ argReg = <<>> /\ launched = {} /\ host = <<>> /\ commsId = 0
  BY DEF EmitInit
<1>2. Compiling
  BY <1>1 DEF Compiling
<1>3. Verified(fn) /\ AllPartitions = Parts(place)
  BY <1>2, CompilingFacts
<1>4. /\ Graph(Cfg(fn)) /\ DOMAIN Cfg(fn) = Blocks(fn)
      /\ \A b \in Blocks(fn) : Len(fn.body[b]) \in Nat \ {0} /\ DOMAIN fn.body[b] = 1 .. Len(fn.body[b])
  BY <1>3, CfgGraph
<1>5. /\ \A p \in Parts(place) : DOMAIN code[p] = Blocks(fn)
      /\ \A p \in Parts(place) : \A b \in Blocks(fn) :
           code[p][b] = <<>> /\ DOMAIN code[p][b] = {} /\ ToSet(code[p][b]) = {}
      /\ DOMAIN code = Parts(place) /\ code \in Rows(fn, place)
  <2>1. code = [p \in Parts(place) |-> [b \in Blocks(fn) |-> <<>>]] /\ <<>> \in Seq(Items)
    BY <1>1, <1>3
  <2>2. DOMAIN <<>> = {} /\ ToSet(<<>>) = {}
    BY DEF ToSet
  <2>3. /\ \A p \in Parts(place) : DOMAIN code[p] = Blocks(fn)
        /\ \A p \in Parts(place) : \A b \in Blocks(fn) :
             code[p][b] = <<>> /\ DOMAIN code[p][b] = {} /\ ToSet(code[p][b]) = {}
    BY <2>1, <2>2
  <2>4. code \in Rows(fn, place)
    BY <2>1 DEF Rows
  <2> QED BY <2>1, <2>3, <2>4
<1>6. Good(fn, place, Emitted)
  <2>1. /\ Fields(Emitted) /\ Emitted.code = code /\ Emitted.argReg = argReg
        /\ Emitted.commsId = commsId /\ Emitted.launched = launched
    BY DEF Emitted, Fields, FieldNames
  <2>2. DOMAIN argReg = {}
    BY <1>1
  <2>3. \A p \in Parts(place) : \A b \in Blocks(fn) : RowOK(code[p][b])
    BY <1>5 DEF RowOK
  <2>4. ItemsOK(fn, place, argReg, code)
    BY <1>5 DEF ItemsOK
  <2>5. Owned(fn, code)
    BY <1>5 DEF Owned
  <2>6. ArgsOK(fn, argReg, code) /\ InRange(fn, argReg, code, 0 .. commsId - 1)
    BY <1>5, <2>2 DEF ArgsOK, InRange
  <2> QED BY <1>1, <1>5, <2>1, <2>3, <2>4, <2>5, <2>6 DEF Good
<1>7. Hosted(Emitted)
  <2>1. Emitted.host = <<>>
    BY <1>1 DEF Emitted
  <2>2. DOMAIN <<>> = {} /\ \A S : <<>> \in Seq(S)
    OBVIOUS
  <2> QED BY <2>1, <2>2 DEF Hosted
<1>8. Position(fn, next)
  <2>1. Dfs(Cfg(fn)) \in Seq(Blocks(fn)) /\ 1 \in ToSet(Dfs(Cfg(fn)))
    BY <1>4, OrderFacts
  <2>2. 1 \in 1 .. Len(Dfs(Cfg(fn))) /\ Dfs(Cfg(fn))[1] \in Blocks(fn)
    BY <2>1 DEF ToSet
  <2> QED BY <1>1, <1>4, <2>2 DEF Position
<1>9. Walked(fn, place, code, mapped, launched, phase, next)
  <2> SUFFICES ASSUME NEW w \in 1 .. 3, NEW b \in Blocks(fn), NEW k \in DOMAIN fn.body[b],
                      Past(fn, w, phase, next, b, k)
               PROVE  FALSE
    BY DEF Walked
  <2>1. Dfs(Cfg(fn)) \in Seq(Blocks(fn))
    BY <1>4, OrderFacts
  <2>2. \A m \in DOMAIN Dfs(Cfg(fn)) : m \in Nat /\ 1 <= m
    BY <2>1
  <2>3. k \in Nat /\ 1 <= k
    BY <1>4
  <2>4. Rank(phase) = 1
    BY <1>1 DEF Rank
  <2> QED BY <1>1, <2>2, <2>3, <2>4 DEF Past
<1>10. Timely(fn, code, phase, next)
  BY <1>5 DEF Timely
<1>11. phase \in Walks /\ phase # "done"
  BY <1>1 DEF Walks
<1> QED BY <1>2, <1>6, <1>7, <1>8, <1>9, <1>10, <1>11 DEF EmitInv

LEMMA EmitStepKeeps == EmitInv /\ [EmitNext]_emitVars => EmitInv'
<1> SUFFICES ASSUME EmitInv, [EmitNext]_emitVars PROVE EmitInv'
  OBVIOUS
<1>1. CASE UNCHANGED emitVars
  <2>1. UNCHANGED <<fn, place, phase, next, code, mapped, argReg, launched, host, commsId>>
    BY <1>1 DEF emitVars
  <2>2. Emitted' = Emitted
    BY <2>1 DEF Emitted
  <2>3. Compiling' /\ Good(fn, place, Emitted)' /\ (phase' # "done" => Hosted(Emitted)')
    BY <2>1, <2>2 DEF EmitInv, Compiling
  <2> QED BY <2>1, <2>3 DEF EmitInv
<1> QED BY <1>1, EmitAllocaKeeps, SkipBranchKeeps, EmitPhiKeeps, EmitRetKeeps,
           EmitStraightlineKeeps, RepairPhiKeeps, SkipNonPhiKeeps, RepairJumpKeeps,
           RepairBranchKeeps, FailKeeps, SkipNonBranchKeeps, ReplaceFunKeeps DEF EmitNext

\* In every state of the compiler the code emitted so far is well formed, what
\* the walks have passed has its copy, and nothing is there before its visit.
THEOREM EmitInvariance == EmitSpec => []EmitInv
<1>1. EmitInit => EmitInv
  BY InitHolds
<1> QED BY <1>1, EmitStepKeeps, PTL DEF EmitSpec

------------------------------------------------------------------------------
(* What the emitted code satisfies. *)

\* When the compiler is done every walk has visited every instruction.
LEMMA AllVisited ==
  ASSUME EmitInv, phase = "done"
  PROVE  \A w \in 1 .. 3 : \A b \in Blocks(fn) : \A k \in DOMAIN fn.body[b] :
           Visited(fn, place, code, mapped, launched, w, b, k)
<1>1. Rank(phase) = 4
  BY DEF Rank
<1>2. \A w \in 1 .. 3 : w < 4
  OBVIOUS
<1>3. \A w \in 1 .. 3 : \A b, k : Past(fn, w, phase, next, b, k)
  BY <1>1, <1>2 DEF Past
<1>4. Walked(fn, place, code, mapped, launched, phase, next)
  BY DEF EmitInv
<1> QED BY <1>3, <1>4 DEF Walked

\* The last item of a row that has a terminator is that terminator.
LEMMA RowEnds ==
  ASSUME NEW r, NEW n \in Nat, DOMAIN r = 1 .. n, Len(r) = n, RowOK(r),
         \E i \in ToSet(r) : Terminal(i)
  PROVE  Len(r) > 0 /\ Terminal(Last(r))
<1>1. PICK m \in 1 .. n : Terminal(r[m])
  BY DEF ToSet
<1>2. n \in 1 .. n /\ n > 0
  BY <1>1
<1>3. m < n => ~Terminal(r[m])
  BY <1>2 DEF RowOK
<1>4. m = n
  BY <1>1, <1>3
<1> QED BY <1>1, <1>2, <1>4 DEF Last

LEMMA EmittedComplete ==
  ASSUME EmitInv, phase = "done"
  PROVE  RowsTyped(fn, place, code) /\ Complete(fn, place, code)
<1>1. Compiling /\ Good(fn, place, Emitted) /\ Emitted.code = code /\ Verified(fn)
  BY CompilingFacts DEF EmitInv, Emitted
<1>2. code \in Rows(fn, place) /\ \A p \in Parts(place) : \A b \in Blocks(fn) : RowOK(code[p][b])
  BY <1>1 DEF Good
<1>3. DOMAIN code = Parts(place) /\ \A p \in Parts(place) : DOMAIN code[p] = Blocks(fn)
  BY <1>2 DEF Rows
<1>4. \A p \in Parts(place) : \A b \in Blocks(fn) :
        Len(code[p][b]) \in Nat /\ DOMAIN code[p][b] = 1 .. Len(code[p][b])
  <2>1. \A p \in Parts(place) : \A b \in Blocks(fn) : code[p][b] \in Seq(Items)
    BY <1>2 DEF Rows
  <2>2. \A r \in Seq(Items) : Len(r) \in Nat /\ DOMAIN r = 1 .. Len(r)
    OBVIOUS
  <2> QED BY <2>1, <2>2
<1>5. RowsTyped(fn, place, code)
  BY <1>3, <1>4 DEF RowsTyped
<1>6. ASSUME NEW p \in Parts(place), NEW b \in Blocks(fn)
      PROVE  Len(code[p][b]) > 0 /\ Terminal(Last(code[p][b]))
  <2>1. PICK n : n = Len(fn.body[b])
    OBVIOUS
  <2>2. n \in DOMAIN fn.body[b] /\ fn.body[b][n].op \in {"ret", "br"}
    <3>1. n \in Nat \ {0} /\ DOMAIN fn.body[b] = 1 .. n
      BY <1>1, <2>1, CfgGraph
    <3>2. n \in DOMAIN fn.body[b]
      BY <3>1
    <3> QED BY <1>1, <2>1, <3>2, InstrAt
  <2>3. Visited(fn, place, code, mapped, launched, 1, b, n) /\ Visited(fn, place, code, mapped, launched, 3, b, n)
    <3>1. 1 \in 1 .. 3 /\ 3 \in 1 .. 3
      OBVIOUS
    <3> QED BY <2>2, <3>1, AllVisited
  <2>4. Ended(code, b)
    BY <2>2, <2>3 DEF Visited
  <2>5. \E i \in ToSet(code[p][b]) : Terminal(i)
    BY <1>3, <2>4 DEF Ended
  <2>6. RowOK(code[p][b]) /\ Len(code[p][b]) \in Nat /\ DOMAIN code[p][b] = 1 .. Len(code[p][b])
    BY <1>2, <1>4
  <2> QED BY <2>5, <2>6, RowEnds
<1>7. ASSUME NEW b \in Blocks(fn), NEW k \in DOMAIN fn.body[b],
             fn.body[b][k].op \notin {"alloca", "ret", "br"}
      PROVE  \E i \in ToSet(code[place[fn.body[b][k].name]][b]) :
               i.do = "exec" /\ i.line = k /\ DOMAIN i.args = DOMAIN fn.body[b][k].args
  <2>1. Visited(fn, place, code, mapped, launched, 1, b, k) /\ Visited(fn, place, code, mapped, launched, 2, b, k)
    <3>1. 1 \in 1 .. 3 /\ 2 \in 1 .. 3
      OBVIOUS
    <3> QED BY <3>1, AllVisited
  <2>2. CASE fn.body[b][k].op = "phi"
    BY <2>1, <2>2 DEF Visited, Filled
  <2>3. CASE fn.body[b][k].op # "phi"
    <3>1. Copied(fn, place, code, b, k)
      BY <1>7, <2>1 DEF Visited
    <3> QED BY <2>3, <3>1 DEF Copied
  <2> QED BY <2>2, <2>3
<1> QED BY <1>3, <1>5, <1>6, <1>7 DEF Complete

\* What the compiler has written when it is done.
LEMMA EmittedCode ==
  ASSUME EmitInv, phase = "done"
  PROVE  /\ Compiling
         /\ CodeOK(fn, place, argReg, code)
         /\ InRange(fn, argReg, code, 0 .. commsId - 1)
         /\ commsId \in Nat
         /\ launched \subseteq Parts(place)
         /\ HostShape(fn, argReg, host)
         /\ \A i \in Instrs(fn) : i.op \notin {"alloca", "br"} => place[i.name] \in launched
<1>1. Compiling /\ Good(fn, place, Emitted) /\ HostShape(fn, argReg, host)
  BY DEF EmitInv
<1>2. /\ Emitted.code = code /\ Emitted.argReg = argReg /\ Emitted.commsId = commsId
      /\ Emitted.launched = launched
  BY DEF Emitted
<1>3. /\ commsId \in Nat /\ launched \subseteq Parts(place) /\ code \in Rows(fn, place)
      /\ \A p \in Parts(place) : \A b \in Blocks(fn) : RowOK(code[p][b])
      /\ ItemsOK(fn, place, argReg, code)
      /\ Owned(fn, code)
      /\ ArgsOK(fn, argReg, code)
      /\ InRange(fn, argReg, code, 0 .. commsId - 1)
  BY <1>1, <1>2 DEF Good
<1>4. RowsTyped(fn, place, code) /\ Complete(fn, place, code)
  BY EmittedComplete
<1>5. CodeOK(fn, place, argReg, code)
  BY <1>3, <1>4 DEF CodeOK, RowsTyped
<1>6. ASSUME NEW i \in Instrs(fn), i.op \notin {"alloca", "br"}
      PROVE  place[i.name] \in launched
  <2>1. PICK b \in Blocks(fn) : i \in ToSet(fn.body[b])
    BY DEF Instrs
  <2>2. PICK k \in DOMAIN fn.body[b] : i = fn.body[b][k]
    BY <2>1 DEF ToSet
  <2>3. 1 \in 1 .. 3
    OBVIOUS
  <2>4. Visited(fn, place, code, mapped, launched, 1, b, k)
    BY <2>3, AllVisited
  <2> QED BY <1>6, <2>2, <2>4 DEF Visited
<1> QED BY <1>1, <1>3, <1>5, <1>6

\* Every partition's calls in a block use the addresses in the order of their
\* creation (CommonOrder): two partitions of a block never wait for each other.
THEOREM AddressesOrdered == EmitSpec => []CommonOrder
<1>1. EmitInv => CommonOrder
  <2> SUFFICES ASSUME EmitInv PROVE CommonOrder
    OBVIOUS
  <2>1. Compiling /\ Good(fn, place, Emitted) /\ Emitted.code = code
    BY DEF EmitInv, Emitted
  <2>2. AllPartitions = Parts(place)
    BY <2>1, CompilingFacts
  <2>3. \A p \in Parts(place) : \A b \in Blocks(fn) : RowOK(code[p][b])
    BY <2>1 DEF Good
  <2> SUFFICES ASSUME NEW p \in AllPartitions, NEW b \in Blocks(fn),
                      NEW m \in DOMAIN code[p][b], NEW n \in DOMAIN code[p][b], m < n,
                      IsComm(code[p][b][m]), IsComm(code[p][b][n])
               PROVE  code[p][b][m].at < code[p][b][n].at
    BY DEF CommonOrder
  <2>4. RowOK(code[p][b])
    BY <2>2, <2>3
  <2> QED BY <2>4 DEF RowOK
<1> QED BY <1>1, EmitInvariance, PTL

\* Every send has its receive and every receive its send, in the same block of
\* the partition it names (Paired).
THEOREM AddressesPaired == EmitSpec => []Paired
<1>1. EmitInv => Paired
  <2> SUFFICES ASSUME EmitInv PROVE Paired
    OBVIOUS
  <2>1. Compiling /\ Good(fn, place, Emitted) /\ Emitted.code = code
    BY DEF EmitInv, Emitted
  <2>2. AllPartitions = Parts(place)
    BY <2>1, CompilingFacts
  <2>3. DOMAIN code = Parts(place)
    BY <2>1 DEF Good, Rows
  <2>4. ItemsOK(fn, place, Emitted.argReg, code)
    BY <2>1 DEF Good
  <2> SUFFICES ASSUME NEW p \in AllPartitions, NEW b \in Blocks(fn), NEW n \in DOMAIN code[p][b],
                      IsComm(code[p][b][n])
               PROVE \E m \in DOMAIN code[code[p][b][n].peer][b] :
                       /\ code[code[p][b][n].peer][b][m].at = code[p][b][n].at
                       /\ {code[p][b][n].do, code[code[p][b][n].peer][b][m].do} = {"send", "receive"}
                       /\ code[code[p][b][n].peer][b][m].peer = p
    BY Zenon DEF Paired
  <2>5. PICK i : i = code[p][b][n]
    OBVIOUS
  <2>6. i \in ToSet(code[p][b])
    BY <2>5 DEF ToSet
  <2>7. CommOK(fn, place, code, p, b, i)
    BY <2>2, <2>3, <2>4, <2>5, <2>6 DEF ItemsOK, ItemOK
  <2>8. PICK j \in ToSet(code[i.peer][b]) : Partner(i, j, p)
    BY <2>7 DEF CommOK
  <2>9. PICK m \in DOMAIN code[i.peer][b] : j = code[i.peer][b][m]
    BY <2>8 DEF ToSet
  <2> QED BY <2>5, <2>8, <2>9 DEF Partner
<1> QED BY <1>1, EmitInvariance, PTL

\* Register r holds a value on partition p.
OfPartition(p, r) ==
  \/ \E v \in DOMAIN fn.consts : r = Value(v)
  \/ \E v \in DOMAIN place : r = Value(v) /\ (place[v] = p \/ IsAlloca(v))
  \/ \E d \in DOMAIN argReg : d[1] = p /\ argReg[d] = r
  \/ \E c \in Blocks(fn) : \E m \in DOMAIN code[p][c] :
       code[p][c][m].do = "receive" /\ code[p][c][m].val = r

\* A register that gives a value on partition p is one of that partition.
LEMMA GivesLocal ==
  ASSUME Compiling, NEW p, NEW b \in Blocks(fn), NEW n, NEW r, NEW v,
         DOMAIN code[p] = Blocks(fn), Gives(fn, place, argReg, code, p, b, n, r, v)
  PROVE  OfPartition(p, r)
<1>1. CASE v \in ToSet(fn.args) /\ <<p, v>> \in DOMAIN argReg /\ r = argReg[<<p, v>>]
  <2>1. <<p, v>>[1] = p
    OBVIOUS
  <2> QED BY <1>1, <2>1 DEF OfPartition
<1>2. CASE v \in DOMAIN fn.consts /\ r = Value(v)
  BY <1>2 DEF OfPartition
<1>3. CASE v \in Allocas(fn) /\ r = Value(v)
  <2>1. v \in DOMAIN place
    <3>1. PICK i \in Instrs(fn) : i.op = "alloca" /\ v = i.name
      BY <1>3 DEF Allocas
    <3>2. i \in Placed(fn)
      BY <3>1 DEF Placed
    <3> QED BY <3>1, <3>2, CompilingFacts
  <2>2. IsAlloca(v)
    BY <1>3, AllocaNames
  <2> QED BY <1>3, <2>1, <2>2 DEF OfPartition
<1>4. CASE v \in DOMAIN place /\ place[v] = p /\ r = Value(v)
  BY <1>4 DEF OfPartition
<1>5. CASE \E i \in ToSet(code[p][b]) : i.do = "receive" /\ i.val = r
  BY <1>5 DEF ToSet, OfPartition
<1> QED BY <1>1, <1>2, <1>3, <1>4, <1>5 DEF Gives

\* No partition reads a register of another partition or of the function that
\* was compiled (OperandsLocal).
THEOREM RegistersLocal == EmitSpec => []OperandsLocal
<1>1. EmitInv => OperandsLocal
  <2> SUFFICES ASSUME EmitInv PROVE OperandsLocal
    OBVIOUS
  <2>1. Compiling /\ Good(fn, place, Emitted) /\ Emitted.code = code /\ Emitted.argReg = argReg
    BY DEF EmitInv, Emitted
  <2>2. AllPartitions = Parts(place) /\ Verified(fn)
    BY <2>1, CompilingFacts
  <2>3. DOMAIN code = Parts(place) /\ \A p \in Parts(place) : DOMAIN code[p] = Blocks(fn)
    BY <2>1 DEF Good, Rows
  <2>4. ItemsOK(fn, place, argReg, code)
    BY <2>1 DEF Good
  <2> SUFFICES ASSUME phase = "done", NEW p \in AllPartitions, NEW b \in Blocks(fn),
                      NEW n \in DOMAIN code[p][b],
                      NEW r \in ToSet(code[p][b][n].args)
                                \cup (IF code[p][b][n].do \in {"send", "send_return"}
                                      THEN {code[p][b][n].val} ELSE {})
               PROVE  OfPartition(p, r)
    BY DEF OperandsLocal, OfPartition
  <2>5. PICK i : i = code[p][b][n]
    OBVIOUS
  <2>6. i \in ToSet(code[p][b])
    BY <2>5 DEF ToSet
  <2>7. ItemOK(fn, place, argReg, code, p, b, i)
    BY <2>2, <2>3, <2>4, <2>6 DEF ItemsOK
  <2>8. DOMAIN code[p] = Blocks(fn)
    BY <2>2, <2>3
  <2>9. \/ \E k \in DOMAIN i.args : r = i.args[k]
        \/ i.do \in {"send", "send_return"} /\ r = i.val
    BY <2>5 DEF ToSet
  <2>10. i.args = <<>> \/ i.do = "exec"
    BY <2>7 DEF ItemOK
  <2>11. CASE i.do = "exec" /\ \E k \in DOMAIN i.args : r = i.args[k]
    <3>1. ExecOK(fn, place, argReg, code, p, b, i) /\ i.line \in DOMAIN fn.body[b]
      BY <2>7, <2>11 DEF ItemOK
    <3>2. PICK k \in DOMAIN i.args : r = i.args[k]
      BY <2>11
    <3>3. PICK j : j = fn.body[b][i.line]
      OBVIOUS
    <3>4. CASE i.op # "phi"
      <4>1. Gives(fn, place, argReg, code, p, b, i.line, r, j.args[k])
        BY <3>1, <3>2, <3>3, <3>4 DEF ExecOK
      <4> QED BY <2>1, <2>8, <4>1, GivesLocal
    <3>5. CASE i.op = "phi"
      <4>1. /\ Gives(fn, place, argReg, code, p, j.blocks[k], Len(fn.body[j.blocks[k]]), r, j.args[k])
            /\ j.op = "phi"
        BY <3>1, <3>2, <3>3, <3>5 DEF ExecOK
      <4>2. k \in DOMAIN j.args /\ j.op = "phi"
        <5>1. DOMAIN <<>> = {}
          OBVIOUS
        <5>2. i.args # <<>>
          BY <3>2, <5>1
        <5>3. DOMAIN i.args = DOMAIN j.args /\ i.op = j.op
          BY <3>1, <3>3, <5>2 DEF ExecOK
        <5> QED BY <3>2, <3>5, <5>3
      <4>3. /\ j.args \in Seq(STRING) /\ j.blocks \in Seq(Nat) /\ ToSet(j.blocks) \subseteq Blocks(fn)
            /\ Len(j.blocks) = Len(j.args)
        BY <2>2, <3>1, <3>3, <4>2, InstrAt
      <4>4. k \in DOMAIN j.blocks
        BY <4>2, <4>3
      <4>5. PICK c : c = j.blocks[k]
        OBVIOUS
      <4>6. c \in Blocks(fn)
        BY <4>3, <4>4, <4>5 DEF ToSet
      <4>7. Gives(fn, place, argReg, code, p, c, Len(fn.body[c]), r, j.args[k])
        BY <3>1, <3>2, <3>3, <3>5, <4>5 DEF ExecOK
      <4> QED BY <2>1, <2>8, <4>6, <4>7, GivesLocal
    <3> QED BY <3>4, <3>5
  <2>12. CASE i.do = "send" /\ r = i.val
    <3>1. CommOK(fn, place, code, p, b, i)
      BY <2>7, <2>12 DEF ItemOK, IsComm
    <3> QED BY <2>12, <3>1 DEF CommOK, OfPartition
  <2>13. CASE i.do = "send_return" /\ r = i.val
    <3>1. ReturnOK(fn, place, argReg, code, p, b, i)
      BY <2>7, <2>13 DEF ItemOK
    <3>2. Gives(fn, place, argReg, code, p, b, i.line, r, Last(fn.body[b]).args[1])
      BY <2>13, <3>1 DEF ReturnOK
    <3> QED BY <2>1, <2>8, <3>2, GivesLocal
  <2>14. \/ i.do = "exec" /\ \E k \in DOMAIN i.args : r = i.args[k]
         \/ i.do = "send" /\ r = i.val
         \/ i.do = "send_return" /\ r = i.val
    <3>1. DOMAIN <<>> = {}
      OBVIOUS
    <3> QED BY <2>9, <2>10, <3>1
  <2> QED BY <2>11, <2>12, <2>13, <2>14
<1> QED BY <1>1, EmitInvariance, PTL

\* Memory that is allocated is accessed, and no other function of the module
\* has partitions.
LaunchAssumption ==
  /\ OtherPartitions = {}
  /\ \A f \in Functions : (\E i \in Instrs(f) : i.op = "alloca") =>
                            \E i \in Instrs(f) : i.op \in {"load", "store"}

LEMMA AllLaunched ==
  ASSUME LaunchAssumption, EmitInv, phase = "done", NEW p \in AllPartitions
  PROVE  p \in launched
<1>1. Compiling
  BY DEF EmitInv, Compiling
<1>2. Verified(fn) /\ DOMAIN place = {i.name : i \in Placed(fn)}
  BY <1>1, CompilingFacts
<1>3. \A i \in Instrs(fn) : i.op \notin {"alloca", "br"} => place[i.name] \in launched
  BY EmittedCode
<1>4. PICK i \in Placed(fn) : p = place[i.name]
  BY <1>2 DEF AllPartitions, LaunchAssumption
<1>5. i \in Instrs(fn) /\ i.op # "br"
  BY DEF Placed
<1>6. CASE i.op # "alloca"
  BY <1>3, <1>4, <1>5, <1>6
<1>7. CASE i.op = "alloca"
  <2>1. PICK j \in Instrs(fn) : j.op \in {"load", "store"}
    BY <1>1, <1>5, <1>7 DEF Compiling, LaunchAssumption
  <2>2. place[j.name] = 0 /\ place[i.name] = 0
    <3>1. j \in Placed(fn)
      BY <2>1 DEF Placed
    <3> QED BY <1>1, <1>4, <1>7, <2>1, <3>1 DEF Compiling, Placements
  <2>3. place[j.name] \in launched
    BY <1>3, <2>1
  <2> QED BY <1>4, <2>2, <2>3
<1> QED BY <1>6, <1>7

\* When all partitions are this function's, and memory it allocates is accessed,
\* every partition is started, so both ends of every address are
\* (PeersLaunched).  RunUnlaunched.cfg shows what happens otherwise.
THEOREM PartitionsLaunched ==
  ASSUME LaunchAssumption
  PROVE  EmitSpec => []PeersLaunched
<1>1. EmitInv => PeersLaunched
  BY AllLaunched DEF PeersLaunched
<1> QED BY <1>1, EmitInvariance, PTL

===============================================================================
