---------------------------- MODULE EngineProofs ----------------------------
(***************************************************************************)
(* Theorems about WorkflowEngine, for every set of drawn workflows and     *)
(* every cap on loops.                                                     *)
(***************************************************************************)
EXTENDS WorkflowEngine, SumProofs, TLAPS

-----------------------------------------------------------------------------
(* The recursive definitions have the values they are read as.              *)

LEMMA SmallestNat ==
  ASSUME NEW S \in SUBSET Nat, S # {}
  PROVE  \E n \in S : \A m \in S : n <= m
<1>1. \E n \in S : \A m \in S : ~(<<m, n>> \in OpToRel(<, Nat))
  BY NatLessThanWellFounded, WFMin
<1>2. PICK n \in S : \A m \in S : ~(<<m, n>> \in OpToRel(<, Nat))
  BY <1>1
<1>3. \A m \in S : ~(m < n)
  BY <1>2 DEF OpToRel
<1> QED BY <1>3

(* One step of Reachable. *)
Onward(pairs, S, without) ==
  S \union {p[2] : p \in {q \in pairs : q[1] \in S /\ q[2] \notin without}}

(* g is what Reachable finds, step by step, in up to m steps. *)
Finds(g, m, pairs, starts, without) ==
  /\ g[0] = starts \ without
  /\ \A k \in 1 .. m : g[k] = Onward(pairs, g[k - 1], without)

(* What can be found at all. *)
Places(pairs, starts) == starts \union {p[2] : p \in pairs}

LEMMA FindsExist ==
  ASSUME NEW pairs, NEW starts, NEW without, NEW m \in Nat
  PROVE  \E g \in [0 .. m -> SUBSET Places(pairs, starts)] : Finds(g, m, pairs, starts, without)
<1> DEFINE P == SUBSET Places(pairs, starts)
           Bad == {n \in Nat : ~\E g \in [0 .. n -> P] : Finds(g, n, pairs, starts, without)}
<1> SUFFICES ASSUME Bad # {} PROVE FALSE
  OBVIOUS
<1>1. PICK n \in Bad : \A k \in Bad : n <= k
  <2>1. Bad \in SUBSET Nat
    OBVIOUS
  <2> HIDE DEF Bad
  <2> QED BY <2>1, SmallestNat
<1>2. ASSUME n = 0 PROVE FALSE
  <2> DEFINE g == [k \in 0 .. 0 |-> starts \ without]
  <2>1. g \in [0 .. 0 -> P]
    BY DEF Places
  <2>2. Finds(g, 0, pairs, starts, without)
    BY DEF Finds
  <2> QED BY <1>2, <2>1, <2>2
<1>3. ASSUME n # 0 PROVE FALSE
  <2>1. n - 1 \in Nat /\ n - 1 \notin Bad
    BY <1>1, <1>3
  <2>2. PICK g \in [0 .. n - 1 -> P] : Finds(g, n - 1, pairs, starts, without)
    BY <2>1
  <2> DEFINE h == [k \in 0 .. n |-> IF k = n THEN Onward(pairs, g[n - 1], without) ELSE g[k]]
  <2>3. Onward(pairs, g[n - 1], without) \in P
    <3>1. g[n - 1] \in P
      BY <2>1, <2>2
    <3> QED BY <3>1 DEF Onward, Places
  <2>4. h \in [0 .. n -> P]
    BY <2>2, <2>3
  <2>5. \A k \in 1 .. n : h[k] = Onward(pairs, h[k - 1], without)
    <3> TAKE k \in 1 .. n
    <3>1. h[k - 1] = g[k - 1]
      OBVIOUS
    <3>2. CASE k = n
      BY <3>1, <3>2
    <3>3. CASE k # n
      <4>1. k \in 1 .. n - 1
        BY <3>3
      <4>2. h[k] = g[k]
        BY <4>1
      <4> QED BY <2>2, <3>1, <4>1, <4>2 DEF Finds
    <3> QED BY <3>2, <3>3
  <2>6. h[0] = starts \ without
    BY <1>3, <2>1, <2>2 DEF Finds
  <2>7. Finds(h, n, pairs, starts, without)
    <3> HIDE DEF h
    <3> QED BY <2>5, <2>6 DEF Finds
  <2> HIDE DEF h
  <2> QED BY <1>1, <2>4, <2>7
<1> QED BY <1>2, <1>3

LEMMA ReachableFinds ==
  ASSUME NEW pairs, IsFiniteSet(pairs), NEW starts, NEW without
  PROVE  \E g \in [0 .. Cardinality(pairs) -> SUBSET Places(pairs, starts)] :
           /\ Finds(g, Cardinality(pairs), pairs, starts, without)
           /\ Reachable(pairs, starts, without) = g[Cardinality(pairs)]
<1> DEFINE N == Cardinality(pairs)
           Ahead(n) == {p[2] : p \in {q \in pairs : q[1] = n /\ q[2] \notin without}}
           Rec(g) == g = [k \in 0 .. N |->
                            IF k = 0 THEN starts \ without
                            ELSE UNION {{n} \union Ahead(n) : n \in g[k - 1]}]
           it == CHOOSE g : Rec(g)
<1>1. Reachable(pairs, starts, without) = it[N]
  BY DEF Reachable
<1>9. \A S : UNION {{n} \union Ahead(n) : n \in S} = Onward(pairs, S, without)
  BY DEF Onward
<1>2. N \in Nat
  BY FS_CardinalityType
<1> HIDE DEF N
<1>3. PICK g \in [0 .. N -> SUBSET Places(pairs, starts)] : Finds(g, N, pairs, starts, without)
  BY <1>2, FindsExist
<1>4. Rec(g)
  <2>1. ASSUME NEW k \in 0 .. N
        PROVE  g[k] = IF k = 0 THEN starts \ without ELSE Onward(pairs, g[k - 1], without)
    BY <1>2, <1>3 DEF Finds
  <2> QED BY <1>3, <1>9, <2>1
<1>5. Rec(it)
  BY <1>4
<1> HIDE DEF it
<1>6. \A k \in 0 .. N : it[k] = IF k = 0 THEN starts \ without ELSE Onward(pairs, it[k - 1], without)
  BY <1>5, <1>9
<1>7. ASSUME NEW n \in 0 .. N, it[n] # g[n] PROVE FALSE
  <2> DEFINE Bad == {k \in 0 .. N : it[k] # g[k]}
  <2>1. PICK k \in Bad : \A j \in Bad : k <= j
    <3>1. Bad \in SUBSET Nat /\ Bad # {}
      BY <1>2, <1>7
    <3> HIDE DEF Bad
    <3> QED BY <3>1, SmallestNat
  <2>2. k # 0
    BY <1>2, <1>3, <1>6 DEF Finds
  <2>3. k - 1 \in 0 .. N /\ it[k - 1] = g[k - 1] /\ k \in 1 .. N
    BY <1>2, <2>1, <2>2
  <2> QED BY <1>3, <1>6, <2>1, <2>2, <2>3 DEF Finds
<1>8. Reachable(pairs, starts, without) = g[N]
  BY <1>1, <1>2, <1>7
<1> QED BY <1>3, <1>8 DEF N

(* It holds the starts and nothing but them and what the pairs lead to. *)
LEMMA ReachableType ==
  ASSUME NEW pairs, IsFiniteSet(pairs), NEW starts, NEW without
  PROVE  /\ Reachable(pairs, starts, without) \subseteq Places(pairs, starts)
         /\ starts \ without \subseteq Reachable(pairs, starts, without)
<1> DEFINE N == Cardinality(pairs)
<1>1. N \in Nat
  BY FS_CardinalityType
<1>2. PICK g \in [0 .. N -> SUBSET Places(pairs, starts)] :
        /\ Finds(g, N, pairs, starts, without)
        /\ Reachable(pairs, starts, without) = g[N]
  BY ReachableFinds
<1> HIDE DEF N
<1>3. ASSUME NEW n \in 0 .. N, ~(starts \ without \subseteq g[n]) PROVE FALSE
  <2> DEFINE Bad == {k \in 0 .. N : ~(starts \ without \subseteq g[k])}
  <2>1. PICK k \in Bad : \A j \in Bad : k <= j
    <3>1. Bad \in SUBSET Nat /\ Bad # {}
      BY <1>1, <1>3
    <3> HIDE DEF Bad
    <3> QED BY <3>1, SmallestNat
  <2>2. k # 0
    BY <1>2 DEF Finds
  <2>3. k - 1 \in 0 .. N /\ starts \ without \subseteq g[k - 1] /\ k \in 1 .. N
    BY <1>1, <2>1, <2>2
  <2> QED BY <1>2, <2>1, <2>3 DEF Finds, Onward
<1>4. N \in 0 .. N
  BY <1>1
<1>5. g[N] \in SUBSET Places(pairs, starts)
  BY <1>2, <1>4
<1> QED BY <1>2, <1>3, <1>4, <1>5

(* It holds nothing but what the pairs must lead to. *)
LEMMA ReachableLeast ==
  ASSUME NEW pairs, IsFiniteSet(pairs), NEW starts, NEW without,
         NEW S, starts \ without \subseteq S,
         \A q \in pairs : q[1] \in S /\ q[2] \notin without => q[2] \in S
  PROVE  Reachable(pairs, starts, without) \subseteq S
<1> DEFINE N == Cardinality(pairs)
<1>1. N \in Nat
  BY FS_CardinalityType
<1>2. PICK g \in [0 .. N -> SUBSET Places(pairs, starts)] :
        /\ Finds(g, N, pairs, starts, without)
        /\ Reachable(pairs, starts, without) = g[N]
  BY ReachableFinds
<1> HIDE DEF N
<1>3. ASSUME NEW n \in 0 .. N, ~(g[n] \subseteq S) PROVE FALSE
  <2> DEFINE Bad == {k \in 0 .. N : ~(g[k] \subseteq S)}
  <2>1. PICK k \in Bad : \A j \in Bad : k <= j
    <3>1. Bad \in SUBSET Nat /\ Bad # {}
      BY <1>1, <1>3
    <3> HIDE DEF Bad
    <3> QED BY <3>1, SmallestNat
  <2>2. k # 0
    BY <1>2 DEF Finds
  <2>3. k - 1 \in 0 .. N /\ g[k - 1] \subseteq S /\ k \in 1 .. N
    BY <1>1, <2>1, <2>2
  <2>4. g[k] = Onward(pairs, g[k - 1], without)
    BY <1>2, <2>3 DEF Finds
  <2>5. g[k] \subseteq S
    BY <2>3, <2>4 DEF Onward
  <2> QED BY <2>1, <2>5
<1>4. N \in 0 .. N
  BY <1>1
<1> QED BY <1>2, <1>3, <1>4

(* And it holds all of it: each step that finds anything takes a pair more. *)
LEMMA ReachableClosed ==
  ASSUME NEW pairs, IsFiniteSet(pairs), NEW starts, NEW without, NEW q \in pairs,
         q[1] \in Reachable(pairs, starts, without), q[2] \notin without
  PROVE  q[2] \in Reachable(pairs, starts, without)
<1> DEFINE N == Cardinality(pairs)
<1>1. N \in Nat
  BY FS_CardinalityType
<1>2. PICK g \in [0 .. N -> SUBSET Places(pairs, starts)] :
        /\ Finds(g, N, pairs, starts, without)
        /\ Reachable(pairs, starts, without) = g[N]
  BY ReachableFinds
<1> DEFINE F(k) == {p \in pairs : p[2] \in g[k]}
<1>3. \A k \in 0 .. N : F(k) \subseteq pairs /\ IsFiniteSet(F(k)) /\ Cardinality(F(k)) \in Nat
  BY FS_Subset, FS_CardinalityType
<1>4. N = Cardinality(pairs)
  OBVIOUS
<1> HIDE DEF N
<1> SUFFICES ASSUME q[2] \notin g[N] PROVE FALSE
  BY <1>2
<1>5. \A k \in 1 .. N : g[k] = Onward(pairs, g[k - 1], without)
  BY <1>2 DEF Finds
<1>6. ASSUME NEW k \in 1 .. N, g[k] = g[k - 1] PROVE FALSE
  <2> DEFINE Bad == {j \in k .. N : g[j] # g[k]}
  <2>1. ASSUME Bad # {} PROVE FALSE
    <3>1. PICK j \in Bad : \A i \in Bad : j <= i
      <4>1. Bad \in SUBSET Nat
        BY <1>1
      <4> HIDE DEF Bad
      <4> QED BY <2>1, <4>1, SmallestNat
    <3>2. j # k
      BY <3>1
    <3>3. j - 1 \in k .. N /\ j - 1 \notin Bad /\ j \in 1 .. N
      BY <1>1, <3>1, <3>2
    <3>4. g[j - 1] = g[k]
      BY <3>3
    <3>5. g[j] = Onward(pairs, g[k], without)
      BY <1>5, <3>3, <3>4
    <3>6. g[k] = Onward(pairs, g[k], without)
      BY <1>5, <1>6
    <3> QED BY <3>1, <3>5, <3>6
  <2>2. N \in k .. N
    BY <1>1
  <2>3. g[N] = g[k]
    BY <2>1, <2>2
  <2>4. q[1] \in g[k - 1] /\ g[k] = Onward(pairs, g[k - 1], without)
    BY <1>2, <1>5, <1>6, <2>3
  <2> QED BY <2>3, <2>4 DEF Onward
<1> DEFINE C(k) == Cardinality(F(k))
<1>7. \A k \in 0 .. N : C(k) \in Nat
  BY <1>3
<1>8. ASSUME NEW k \in 1 .. N PROVE C(k - 1) < C(k)
  <2>1. k - 1 \in 0 .. N /\ k \in 0 .. N
    BY <1>1
  <2>2. g[k] = Onward(pairs, g[k - 1], without) /\ g[k] # g[k - 1]
    BY <1>5, <1>6
  <2>3. PICK p \in pairs : p[2] \in g[k] /\ p[2] \notin g[k - 1]
    BY <2>2 DEF Onward
  <2>4. F(k - 1) \subseteq F(k) /\ F(k - 1) # F(k)
    BY <2>2, <2>3 DEF Onward
  <2>5. IsFiniteSet(F(k))
    BY <1>3, <2>1
  <2> HIDE DEF F
  <2>6. Cardinality(F(k - 1)) <= Cardinality(F(k)) /\ Cardinality(F(k - 1)) # Cardinality(F(k))
    BY <2>4, <2>5, FS_Subset
  <2>7. C(k - 1) \in Nat /\ C(k) \in Nat
    BY <1>7, <2>1
  <2> QED BY <2>6, <2>7
<1> HIDE DEF C
<1>9. ASSUME NEW m \in 0 .. N, ~(m <= C(m)) PROVE FALSE
  <2> DEFINE Bad == {k \in 0 .. N : ~(k <= C(k))}
  <2>1. PICK k \in Bad : \A j \in Bad : k <= j
    <3>1. Bad \in SUBSET Nat /\ Bad # {}
      BY <1>1, <1>9
    <3> HIDE DEF Bad
    <3> QED BY <3>1, SmallestNat
  <2>2. k # 0
    BY <1>1, <1>7, <2>1
  <2>3. k - 1 \in 0 .. N /\ k \in 1 .. N /\ k - 1 <= C(k - 1)
    BY <1>1, <2>1, <2>2
  <2> QED BY <1>7, <1>8, <2>1, <2>3
<1>10. N \in 0 .. N
  BY <1>1
<1>11. F(N) \subseteq pairs /\ N <= Cardinality(F(N)) /\ Cardinality(F(N)) \in Nat
  BY <1>3, <1>9, <1>10 DEF C
<1>12. F(N) = pairs
  <2> HIDE DEF F
  <2>1. Cardinality(F(N)) <= N
    BY <1>4, <1>11, FS_Subset
  <2> QED BY <1>1, <1>4, <1>11, <2>1, FS_Subset
<1> QED BY <1>12

-----------------------------------------------------------------------------
(* What is known of the workflow a run is of.                               *)

LEMMA GraphFacts ==
  ASSUME graph \in Graphs
  PROVE  /\ IsFiniteSet(Nodes) /\ Trigger \in Nodes /\ Preds(Trigger) = {}
         /\ graph.edges \subseteq Nodes \X {"out", "true", "false", "loop", "done"} \X Nodes
         /\ graph.back \subseteq Nodes \X Nodes /\ graph.forward \subseteq Nodes \X Nodes
         /\ graph.back \union graph.forward = {<<e[1], e[3]>> : e \in graph.edges}
         /\ graph.back \intersect graph.forward = {}
         /\ IsFiniteSet(graph.back) /\ IsFiniteSet(graph.forward)
         /\ None \notin Nodes \X Nat
<1>1. Drawn(graph) /\ None \notin Nodes \X Nat
  BY EngineAssumption DEF Nodes
<1>2. /\ IsFiniteSet(Nodes)
      /\ graph.edges \subseteq Nodes \X {"out", "true", "false", "loop", "done"} \X Nodes
      /\ graph.back \union graph.forward = {<<e[1], e[3]>> : e \in graph.edges}
      /\ graph.back \intersect graph.forward = {}
  BY <1>1 DEF Drawn, Nodes
<1>3. Trigger \in Nodes
  BY <1>1 DEF Drawn, Nodes, Trigger
<1>4. graph.back \union graph.forward \subseteq Nodes \X Nodes
  <2>1. ASSUME NEW e \in graph.edges PROVE e[1] \in Nodes /\ e[3] \in Nodes
    BY <1>2
  <2> QED BY <1>2, <2>1
<1>5. IsFiniteSet(Nodes \X Nodes)
  BY <1>2, FS_Product
<1>6. IsFiniteSet(graph.back) /\ IsFiniteSet(graph.forward)
  BY <1>4, <1>5, FS_Subset
<1>7. Preds(Trigger) = {}
  <2>1. graph.kind[Trigger] = "trigger" /\ \A e \in graph.edges : graph.kind[e[3]] # "trigger"
    BY <1>1 DEF Drawn, Nodes, Trigger
  <2>2. ASSUME NEW q \in graph.forward, q[2] = Trigger PROVE FALSE
    <3>1. PICK e \in graph.edges : q = <<e[1], e[3]>>
      BY <1>2
    <3> QED BY <2>1, <2>2, <3>1
  <2> QED BY <2>2 DEF Preds
<1> QED BY <1>1, <1>2, <1>3, <1>4, <1>6, <1>7

(* A nonempty set of nodes has one that nothing in the set leads to. *)
LEMMA HasFirst ==
  ASSUME graph \in Graphs, NEW S \in SUBSET Nodes, S # {}
  PROVE  \E n \in S : Preds(n) \intersect S = {}
<1>1. \E n \in S : \A p \in graph.forward : p[2] = n => p[1] \notin S
  BY EngineAssumption DEF Nodes, Drawn
<1> QED BY <1>1 DEF Preds

(* Where a node's predecessors and targets are. *)
LEMMA Neighbours ==
  ASSUME graph \in Graphs, NEW n
  PROVE  /\ Preds(n) \subseteq Nodes /\ ForwardFrom(n) \subseteq Nodes
         /\ \A m : m \in Preds(n) <=> <<m, n>> \in graph.forward
         /\ \A m : m \in ForwardFrom(n) <=> <<n, m>> \in graph.forward
         /\ \A handles : Targets(n, handles) \subseteq AllTargets(n)
         /\ AllTargets(n) \subseteq Nodes
         /\ \A m \in AllTargets(n) : <<n, m>> \notin graph.back => <<n, m>> \in graph.forward
         /\ \A m \in AllTargets(n) : <<n, m>> \notin graph.forward => <<n, m>> \in graph.back
         /\ ForwardFrom(n) \subseteq AllTargets(n)
<1>1. /\ graph.forward \subseteq Nodes \X Nodes
      /\ graph.back \union graph.forward = {<<e[1], e[3]>> : e \in graph.edges}
  BY GraphFacts
<1>2. ASSUME NEW m PROVE m \in Preds(n) <=> <<m, n>> \in graph.forward
  <2>1. ASSUME NEW q \in graph.forward, q[2] = n PROVE <<q[1], n>> \in graph.forward
    BY <1>1, <2>1
  <2> QED BY <2>1 DEF Preds
<1>3. ASSUME NEW m PROVE m \in ForwardFrom(n) <=> <<n, m>> \in graph.forward
  <2>1. ASSUME NEW q \in graph.forward, q[1] = n PROVE <<n, q[2]>> \in graph.forward
    BY <1>1, <2>1
  <2> QED BY <2>1 DEF ForwardFrom
<1>4. ASSUME NEW m \in AllTargets(n)
      PROVE  m \in Nodes /\ <<n, m>> \in graph.back \union graph.forward
  <2>1. PICK e \in graph.edges : e[1] = n /\ e[3] = m
    BY <1>4 DEF AllTargets
  <2> QED BY <1>1, <2>1, GraphFacts
<1>5. ASSUME NEW m \in ForwardFrom(n) PROVE m \in AllTargets(n)
  <2>1. <<n, m>> \in graph.forward
    BY <1>3, <1>5
  <2>2. PICK e \in graph.edges : <<n, m>> = <<e[1], e[3]>>
    BY <1>1, <2>1
  <2> QED BY <2>2 DEF AllTargets
<1>6. ASSUME NEW handles PROVE Targets(n, handles) \subseteq AllTargets(n)
  BY DEF Targets, AllTargets
<1>7. Preds(n) \subseteq Nodes /\ ForwardFrom(n) \subseteq Nodes
  BY <1>1 DEF Preds, ForwardFrom
<1> QED BY <1>2, <1>3, <1>4, <1>5, <1>6, <1>7

-----------------------------------------------------------------------------
(* The walk of the skips is defined, since no forward edges close a cycle.  *)

(* What the walk finds before n, given what it found before the nodes that *)
(* lead to n.                                                              *)
Into(w, from, ids, n) ==
  (IF n \in ids THEN {from} ELSE {}) \union
  {p \in Preds(n) :
     /\ w[p] # {}
     /\ p \in Joins => Preds(p) \subseteq w[p] \union {s \in Preds(p) : <<s, p>> \in skips}}

LEMMA SkipWalkUnfolds ==
  ASSUME graph \in Graphs, NEW from, NEW ids
  PROVE  \A n \in Nodes : SkipWalk(from, ids)[n] = Into(SkipWalk(from, ids), from, ids, n)
<1> DEFINE V == SUBSET (Nodes \union {from})
           Closed(D) == \A n \in D : Preds(n) \subseteq D
           Walks(w, D) == \A n \in D : w[n] = Into(w, from, ids, n)
           Rest == {R \in SUBSET Nodes : /\ Closed(Nodes \ R)
                                         /\ \E w \in [Nodes \ R -> V] : Walks(w, Nodes \ R)}
           Rec(w) == w = [n \in Nodes |->
                            (IF n \in ids THEN {from} ELSE {}) \union
                            {p \in Preds(n) :
                               LET into == w[p]
                               IN  /\ into # {}
                                   /\ p \in Joins => Preds(p) \subseteq
                                        into \union {s \in Preds(p) : <<s, p>> \in skips}}]
           it == CHOOSE w : Rec(w)
<1>1. ASSUME NEW w, NEW n PROVE Into(w, from, ids, n) \in V
  BY Neighbours DEF Into
<1>2. Nodes \in Rest
  <2> DEFINE w == [n \in Nodes \ Nodes |-> {from}]
  <2>1. w \in [Nodes \ Nodes -> V]
    OBVIOUS
  <2>2. Walks(w, Nodes \ Nodes) /\ Closed(Nodes \ Nodes)
    OBVIOUS
  <2> QED BY <2>1, <2>2
<1>3. PICK R \in Rest : \A T \in Rest : T \subseteq R => T = R
  <2>1. Rest \subseteq FiniteSubsetsOf(Nodes) /\ Rest # {}
    BY <1>2, GraphFacts, FS_Subset DEF FiniteSubsetsOf
  <2> HIDE DEF Rest
  <2> QED BY <2>1, Smallest
<1>4. R = {}
  <2> SUFFICES ASSUME R # {} PROVE FALSE
    OBVIOUS
  <2>1. PICK m \in R : Preds(m) \intersect R = {}
    BY <1>3, HasFirst
  <2>2. PICK w \in [Nodes \ R -> V] : Walks(w, Nodes \ R)
    BY <1>3
  <2> DEFINE T == R \ {m}
             x == [n \in Nodes \ T |-> IF n = m THEN Into(w, from, ids, m) ELSE w[n]]
  <2>3. Preds(m) \subseteq Nodes \ R /\ m \in Nodes
    BY <1>3, <2>1, Neighbours
  <2>4. Nodes \ T = (Nodes \ R) \union {m}
    BY <2>3
  <2>5. Closed(Nodes \ T)
    BY <1>3, <2>3, <2>4
  <2>6. x \in [Nodes \ T -> V]
    BY <1>1, <2>2, <2>4
  <2>7. ASSUME NEW n \in Nodes \ T PROVE x[n] = Into(x, from, ids, n)
    <3>1. Preds(n) \subseteq Nodes \ R
      BY <1>3, <2>3, <2>4
    <3>2. \A p \in Preds(n) : x[p] = w[p]
      BY <2>3, <2>4, <3>1, <2>1
    <3>3. Into(x, from, ids, n) = Into(w, from, ids, n)
      BY <3>2 DEF Into
    <3> QED BY <2>2, <2>4, <3>3
  <2>8. T \in Rest
    BY <1>3, <2>5, <2>6, <2>7
  <2> QED BY <1>3, <2>1, <2>8
<1>5. PICK w \in [Nodes -> V] : Walks(w, Nodes)
  <2>1. Nodes \ R = Nodes
    BY <1>4
  <2> QED BY <1>3, <2>1
<1>6. Rec(w)
  BY <1>5 DEF Into
<1>7. SkipWalk(from, ids) = it
  BY DEF SkipWalk
<1> HIDE DEF Rec
<1>8. Rec(it)
  BY <1>6
<1> HIDE DEF it
<1>9. \A n \in Nodes : it[n] = Into(it, from, ids, n)
  BY <1>8 DEF Rec, Into
<1> QED BY <1>7, <1>9

-----------------------------------------------------------------------------
(* The type invariant, and what it rests on.                                *)

Keys == Nodes \X Nat
Waiting == {"await", "iterated"}
Activations ==
  [at : {"step", "iterating"} \union Waiting, parent : Keys \union {None},
   from : Nodes \union {None}, loops : SUBSET Nodes, spare : SUBSET Nodes, seen : Nat]

(* Only what has a successor waits: an activation whose step or whose       *)
(* iterations are running has started nothing yet.  What it re-enters lies   *)
(* behind back edges, and what it skips is next to it.                       *)
LiveInv ==
  /\ DOMAIN live \subseteq Keys /\ live \in [DOMAIN live -> Activations]
  /\ \A t \in DOMAIN live :
       /\ t[1] \in attempted /\ 1 <= t[2] /\ t[2] <= turn[t[1]]
       /\ live[t].parent # None =>
            live[t].parent \in DOMAIN live /\ live[live[t].parent].at \in Waiting
       /\ \A n \in live[t].loops : <<live[t].from, n>> \in graph.back
       /\ \A n \in live[t].spare : <<t[1], n>> \in graph.forward
       /\ live[t].at \in {"iterating", "iterated"} => t[1] \in Of("foreach")

(* A node has run once for each re-entry and once more if it is entered now. *)
Once(n, entered) == IF n \in entered THEN 1 ELSE 0
LoopInv ==
  /\ passes \in [graph.back -> 0 .. MaxIterations] /\ Traversals <= MaxTraversals
  /\ reentries \in [Nodes -> Nat] /\ turn \in [Nodes -> Nat]
  /\ \A n \in Nodes : /\ reentries[n] <= Traversals
                      /\ turn[n] <= reentries[n] + Once(n, visited)

JoinPairs == {p \in graph.forward : p[2] \in Joins}
SetInv ==
  /\ visited \subseteq Nodes /\ attempted \subseteq Nodes /\ skipped \subseteq Nodes
  /\ visited \ (Bodies \union Of("collect")) \subseteq attempted
  /\ skips \subseteq arrived /\ arrived \subseteq JoinPairs

ValueInv ==
  /\ result \in [Nodes -> Results]
  /\ claimed \subseteq Nodes
  /\ recorded \in [Nodes -> {"none", "ok", "true", "false"}]
  /\ late \subseteq Nodes \X {"ok", "true", "false"}
  /\ logs \in [Nodes -> SUBSET {"success", "error"}]
  /\ <<verdict, row>> \in {<<"none", "running">>, <<"success", "success">>,
                           <<"error", "success">>, <<"error", "error">>}

EngineInv == graph \in Graphs /\ LiveInv /\ LoopInv /\ SetInv /\ ValueInv

LEMMA EngineInvTypes == EngineInv => TypeOK
<1> SUFFICES ASSUME EngineInv PROVE TypeOK
  OBVIOUS
<1>1. \A n \in Nodes : reentries[n] <= Traversals /\ turn[n] <= 1 + reentries[n]
  BY DEF EngineInv, LoopInv, Once
<1>2. ASSUME NEW t \in DOMAIN live
      PROVE  /\ t[1] \in attempted /\ t[2] \in 1 .. turn[t[1]]
             /\ live[t].at \in {"step", "iterating", "await", "iterated"}
             /\ live[t].parent \in DOMAIN live \union {None}
             /\ live[t].loops \union live[t].spare \subseteq Nodes
  <2>1. t \in Keys /\ live[t] \in Activations
    BY <1>2 DEF EngineInv, LiveInv
  <2>2. t[1] \in Nodes /\ t[2] \in Nat /\ turn[t[1]] \in Nat
    BY <2>1 DEF Keys, EngineInv, LoopInv
  <2> QED BY <1>2, <2>1, <2>2 DEF EngineInv, LiveInv, Activations, Waiting
<1> QED BY <1>1, <1>2 DEF EngineInv, LoopInv, SetInv, ValueInv, JoinPairs, TypeOK

LEMMA SameGraph ==
  ASSUME graph' = graph
  PROVE  /\ Nodes' = Nodes /\ Keys' = Keys /\ Activations' = Activations
         /\ \A k : Of(k)' = Of(k)
         /\ Joins' = Joins /\ JoinPairs' = JoinPairs /\ Bodies' = Bodies
<1>1. Nodes' = Nodes
  BY DEF Nodes
<1>2. \A k : Of(k)' = Of(k)
  BY <1>1 DEF Of
<1>3. Joins' = Joins
  BY <1>1 DEF Joins, Preds
<1>4. Keys' = Keys /\ Activations' = Activations
  BY <1>1 DEF Keys, Activations
<1>5. JoinPairs' = JoinPairs
  BY <1>3 DEF JoinPairs
<1>6. Bodies' = Bodies
  BY DEF Bodies, BodyOf, InnerCollect, Seeds, HasHandles, Targets, AllTargets, ForwardFrom, Of, Nodes
<1> QED BY <1>1, <1>2, <1>3, <1>4, <1>5, <1>6

-----------------------------------------------------------------------------
(* What an activation does to those that are live.                          *)

(* What a may become of the activation t. *)
Fits(t, a) ==
  /\ a \in Activations /\ a.parent = live[t].parent
  /\ \A n \in a.loops : <<a.from, n>> \in graph.back
  /\ \A n \in a.spare : <<t[1], n>> \in graph.forward
  /\ a.at \in {"iterating", "iterated"} => t[1] \in Of("foreach")

IsMap(f) == f = [u \in DOMAIN f |-> f[u]]

(* What Enter starts: the nodes, and the activations. *)
Started(new) == {<<n, turn[n] + 1>> : n \in new}

Entering(t, new, before, others) ==
  /\ visited' = before \union new
  /\ attempted' = attempted \union new
  /\ turn' \in [Nodes -> Nat]
  /\ \A n \in Nodes : turn'[n] = IF n \in new THEN turn[n] + 1 ELSE turn[n]
  /\ DOMAIN live' = Started(new) \union DOMAIN others
  /\ \A u \in DOMAIN live' : live'[u] = IF u \in Started(new) THEN Fresh(t) ELSE others[u]
  /\ IsMap(live')

LEMMA EnterEffect ==
  ASSUME NEW t, NEW ids \in SUBSET Nodes, NEW before, NEW others,
         turn \in [Nodes -> Nat], Enter(t, ids, before, others)
  PROVE  Entering(t, ids \ before, before, others)
<1> DEFINE new == ids \ before
           turns == [n \in Nodes |-> IF n \in new THEN turn[n] + 1 ELSE turn[n]]
<1>1. {<<n, turns[n]>> : n \in new} = Started(new)
  <2>1. \A n \in new : turns[n] = turn[n] + 1
    OBVIOUS
  <2> HIDE DEF turns
  <2> QED BY <2>1 DEF Started
<1>2. live' = [u \in Started(new) \union DOMAIN others |->
                 IF u \in Started(new) THEN Fresh(t) ELSE others[u]]
  BY <1>1 DEF Enter
<1>3. IsMap(live')
  BY <1>2 DEF IsMap
<1>4. visited' = before \union new /\ attempted' = attempted \union new /\ turn' = turns
  BY DEF Enter
<1> HIDE DEF new
<1>5. \A n \in Nodes : turn'[n] = IF n \in new THEN turn[n] + 1 ELSE turn[n]
  BY <1>4
<1>6. turn' \in [Nodes -> Nat]
  BY <1>4
<1> QED BY <1>2, <1>3, <1>4, <1>5, <1>6 DEF Entering, new

LEMMA EnterLive ==
  ASSUME graph \in Graphs, graph' = graph, LiveInv, turn \in [Nodes -> Nat],
         NEW t \in DOMAIN live, NEW a, Fits(t, a), a.at \in Waiting,
         NEW ids \in SUBSET Nodes, NEW before, Enter(t, ids, before, [live EXCEPT ![t] = a])
  PROVE  LiveInv'
<1> DEFINE new == ids \ before
           others == [live EXCEPT ![t] = a]
           begun == Started(new)
<1>1. /\ attempted' = attempted \union new
      /\ turn' \in [Nodes -> Nat]
      /\ \A n \in Nodes : turn'[n] = IF n \in new THEN turn[n] + 1 ELSE turn[n]
      /\ DOMAIN live' = begun \union DOMAIN others
      /\ \A u \in DOMAIN live' : live'[u] = IF u \in begun THEN Fresh(t) ELSE others[u]
      /\ IsMap(live')
  <2>1. Entering(t, new, before, others)
    BY EnterEffect
  <2> HIDE DEF new, others
  <2> QED BY <2>1 DEF Entering
<1>2. new \subseteq Nodes
  OBVIOUS
<1>3. DOMAIN others = DOMAIN live /\ \A u \in DOMAIN live : others[u] = IF u = t THEN a ELSE live[u]
  BY DEF LiveInv
<1>4. \A u \in begun : u[1] \in new /\ u[2] = turn[u[1]] + 1 /\ u \in Keys
  BY <1>2 DEF Started, Keys
<1>5. \A u \in DOMAIN live : u \notin begun
  <2> SUFFICES ASSUME NEW u \in DOMAIN live, u \in begun PROVE FALSE
    OBVIOUS
  <2>1. u[1] \in Nodes /\ u[2] \in Nat /\ u[2] <= turn[u[1]] /\ turn[u[1]] \in Nat
    BY DEF LiveInv, Keys
  <2>2. u[2] = turn[u[1]] + 1
    BY <1>4
  <2> HIDE DEF begun
  <2> QED BY <2>1, <2>2
<1>6. \A u \in DOMAIN live : u \in DOMAIN live' /\ live'[u] = IF u = t THEN a ELSE live[u]
  BY <1>1, <1>3, <1>5
<1>7. \A u \in begun : u \in DOMAIN live' /\ live'[u] = Fresh(t)
  BY <1>1
<1>8. \A n \in Nodes : turn[n] \in Nat /\ turn'[n] \in Nat /\ turn[n] <= turn'[n]
  BY <1>1
<1>9. \A n \in new : turn'[n] = turn[n] + 1
  BY <1>1, <1>2
<1> HIDE DEF new, others, begun
<1>10. DOMAIN live' \subseteq Keys'
  BY <1>1, <1>3, <1>4, SameGraph DEF LiveInv
<1>11. t \in Keys
  BY DEF LiveInv
<1>12. ASSUME NEW u \in DOMAIN live' PROVE live'[u] \in Activations
  <2>1. CASE u \in begun
    BY <1>7, <1>11, <2>1 DEF Fresh, Activations
  <2>2. CASE u \in DOMAIN live
    BY <1>6, <2>2 DEF LiveInv, Fits
  <2> QED BY <1>1, <1>3, <2>1, <2>2
<1>13. live' \in [DOMAIN live' -> Activations']
  BY <1>1, <1>12, SameGraph DEF IsMap
<1>14. \A u \in DOMAIN live : (live[u].at \in Waiting => live'[u].at \in Waiting)
  BY <1>6
<1>15. live'[t].at \in Waiting /\ t \in DOMAIN live'
  BY <1>6
<1>16. ASSUME NEW u \in DOMAIN live'
       PROVE  /\ u[1] \in attempted' /\ 1 <= u[2] /\ u[2] <= turn'[u[1]]
              /\ live'[u].parent # None =>
                   live'[u].parent \in DOMAIN live' /\ live'[live'[u].parent].at \in Waiting
              /\ \A n \in live'[u].loops : <<live'[u].from, n>> \in graph'.back
              /\ \A n \in live'[u].spare : <<u[1], n>> \in graph'.forward
              /\ live'[u].at \in {"iterating", "iterated"} => u[1] \in Of("foreach")'
  <2>1. CASE u \in begun
    <3>1. u[1] \in new /\ u[2] = turn[u[1]] + 1 /\ u[1] \in Nodes
      BY <1>2, <1>4, <2>1
    <3>2. 1 <= u[2] /\ u[2] <= turn'[u[1]]
      BY <1>8, <1>9, <3>1
    <3>3. live'[u] = Fresh(t)
      BY <1>7, <2>1
    <3>4. /\ live'[u].parent = t /\ live'[u].loops = {} /\ live'[u].spare = {}
          /\ live'[u].at = "step"
      BY <3>3 DEF Fresh
    <3> QED BY <1>1, <1>15, <3>1, <3>2, <3>4
  <2>2. CASE u \in DOMAIN live
    <3>1. u \in Keys /\ u[1] \in Nodes /\ u[2] \in Nat
      BY <2>2 DEF LiveInv, Keys
    <3>2. u[1] \in attempted' /\ 1 <= u[2] /\ u[2] <= turn'[u[1]]
      <4>1. u[1] \in attempted /\ 1 <= u[2] /\ u[2] <= turn[u[1]]
        BY <2>2 DEF LiveInv
      <4> QED BY <1>1, <1>8, <3>1, <4>1
    <3>3. CASE u = t
      <4>1. live'[u] = a /\ a.parent = live[u].parent
        BY <1>6, <3>3 DEF Fits
      <4>2. a.parent # None => a.parent \in DOMAIN live /\ live[a.parent].at \in Waiting
        BY <2>2, <4>1 DEF LiveInv
      <4> QED BY <1>6, <1>14, <3>2, <3>3, <4>1, <4>2, SameGraph DEF Fits
    <3>4. CASE u # t
      <4>1. live'[u] = live[u]
        BY <1>6, <2>2, <3>4
      <4>2. /\ live[u].parent # None =>
                 live[u].parent \in DOMAIN live /\ live[live[u].parent].at \in Waiting
            /\ \A n \in live[u].loops : <<live[u].from, n>> \in graph.back
            /\ \A n \in live[u].spare : <<u[1], n>> \in graph.forward
            /\ live[u].at \in {"iterating", "iterated"} => u[1] \in Of("foreach")
        BY <2>2 DEF LiveInv
      <4> QED BY <1>6, <1>14, <3>2, <4>1, <4>2, SameGraph
    <3> QED BY <3>3, <3>4
  <2> QED BY <1>1, <1>3, <2>1, <2>2
<1> QED BY <1>10, <1>13, <1>16 DEF LiveInv

(* Nobody waits for an activation whose step or whose iterations run. *)
LEMMA NobodyWaits ==
  ASSUME graph \in Graphs, LiveInv, NEW t \in DOMAIN live, live[t].at \notin Waiting
  PROVE  \A u \in DOMAIN live : live[u].parent # t
<1>1. t # None
  BY GraphFacts DEF LiveInv, Keys
<1> QED BY <1>1 DEF LiveInv

LEMMA AmendLive ==
  ASSUME graph \in Graphs, graph' = graph, LiveInv, NEW t \in DOMAIN live, NEW a, Fits(t, a),
         a.at \in Waiting \/ \A u \in DOMAIN live : live[u].parent # t,
         live' = [live EXCEPT ![t] = a], turn' = turn, attempted' = attempted
  PROVE  LiveInv'
<1>1. DOMAIN live' = DOMAIN live /\ \A u \in DOMAIN live : live'[u] = IF u = t THEN a ELSE live[u]
  BY DEF LiveInv
<1>2. DOMAIN live' \subseteq Keys' /\ live' \in [DOMAIN live' -> Activations']
  <2>1. \A u \in DOMAIN live' : live'[u] \in Activations
    BY <1>1 DEF LiveInv, Fits
  <2> QED BY <1>1, <2>1, SameGraph DEF LiveInv, IsMap
<1>3. ASSUME NEW u \in DOMAIN live'
      PROVE  /\ u[1] \in attempted' /\ 1 <= u[2] /\ u[2] <= turn'[u[1]]
             /\ live'[u].parent # None =>
                  live'[u].parent \in DOMAIN live' /\ live'[live'[u].parent].at \in Waiting
             /\ \A n \in live'[u].loops : <<live'[u].from, n>> \in graph'.back
             /\ \A n \in live'[u].spare : <<u[1], n>> \in graph'.forward
             /\ live'[u].at \in {"iterating", "iterated"} => u[1] \in Of("foreach")'
  <2>1. /\ u[1] \in attempted /\ 1 <= u[2] /\ u[2] <= turn[u[1]]
        /\ live[u].parent # None =>
             live[u].parent \in DOMAIN live /\ live[live[u].parent].at \in Waiting
        /\ \A n \in live[u].loops : <<live[u].from, n>> \in graph.back
        /\ \A n \in live[u].spare : <<u[1], n>> \in graph.forward
        /\ live[u].at \in {"iterating", "iterated"} => u[1] \in Of("foreach")
    BY <1>1 DEF LiveInv
  <2>2. live'[u].parent = live[u].parent
    BY <1>1 DEF Fits
  <2>3. live'[u].parent # None =>
          live'[u].parent \in DOMAIN live' /\ live'[live'[u].parent].at \in Waiting
    BY <1>1, <2>1, <2>2
  <2>4. CASE u = t
    BY <1>1, <2>1, <2>3, <2>4, SameGraph DEF Fits
  <2>5. CASE u # t
    BY <1>1, <2>1, <2>3, <2>5, SameGraph
  <2> QED BY <2>4, <2>5
<1> QED BY <1>2, <1>3 DEF LiveInv

LEMMA ReturnLive ==
  ASSUME graph \in Graphs, graph' = graph, LiveInv, NEW t \in DOMAIN live,
         \A u \in DOMAIN live : live[u].parent # t,
         live' = Without(t), turn' = turn, attempted \subseteq attempted'
  PROVE  LiveInv'
<1>1. /\ DOMAIN live' = DOMAIN live \ {t} /\ \A u \in DOMAIN live' : live'[u] = live[u]
      /\ IsMap(live')
  BY DEF Without, IsMap
<1>2. DOMAIN live' \subseteq Keys' /\ live' \in [DOMAIN live' -> Activations']
  <2>1. \A u \in DOMAIN live' : live'[u] \in Activations
    BY <1>1 DEF LiveInv
  <2> QED BY <1>1, <2>1, SameGraph DEF LiveInv, IsMap
<1>3. ASSUME NEW u \in DOMAIN live'
      PROVE  /\ u[1] \in attempted' /\ 1 <= u[2] /\ u[2] <= turn'[u[1]]
             /\ live'[u].parent # None =>
                  live'[u].parent \in DOMAIN live' /\ live'[live'[u].parent].at \in Waiting
             /\ \A n \in live'[u].loops : <<live'[u].from, n>> \in graph'.back
             /\ \A n \in live'[u].spare : <<u[1], n>> \in graph'.forward
             /\ live'[u].at \in {"iterating", "iterated"} => u[1] \in Of("foreach")'
  <2>1. /\ u[1] \in attempted /\ 1 <= u[2] /\ u[2] <= turn[u[1]]
        /\ live[u].parent # None =>
             live[u].parent \in DOMAIN live /\ live[live[u].parent].at \in Waiting
        /\ \A n \in live[u].loops : <<live[u].from, n>> \in graph.back
        /\ \A n \in live[u].spare : <<u[1], n>> \in graph.forward
        /\ live[u].at \in {"iterating", "iterated"} => u[1] \in Of("foreach")
    BY <1>1 DEF LiveInv
  <2>2. live'[u] = live[u] /\ live[u].parent # t /\ u \in DOMAIN live
    BY <1>1
  <2>3. live'[u].parent # None =>
          live'[u].parent \in DOMAIN live' /\ live'[live'[u].parent].at \in Waiting
    BY <1>1, <2>1, <2>2
  <2> QED BY <2>1, <2>2, <2>3, SameGraph
<1> QED BY <1>2, <1>3 DEF LiveInv

-----------------------------------------------------------------------------
(* What entering nodes does to the sets and the counts.                     *)

LEMMA TraversalsTotal ==
  /\ Traversals = Total(passes, graph.back)
  /\ Traversals' = Total(passes', graph'.back)
<1>1. Traversals = Total(passes, graph.back)
  BY DEF Traversals, Total
<1>2. Traversals' = Total(passes', graph'.back)
  BY DEF Traversals, Total, MapThenSumSet, MapThenFoldSet
<1> QED BY <1>1, <1>2

LEMMA EnterSets ==
  ASSUME graph \in Graphs, graph' = graph, SetInv, turn \in [Nodes -> Nat],
         NEW t, NEW ids \in SUBSET Nodes, NEW before \in SUBSET Nodes, NEW others,
         before \ (Bodies \union Of("collect")) \subseteq attempted,
         Enter(t, ids, before, others)
  PROVE  /\ visited' \subseteq Nodes' /\ attempted' \subseteq Nodes'
         /\ (visited \ (Bodies \union Of("collect")) \subseteq attempted)'
<1>1. Entering(t, ids \ before, before, others)
  BY EnterEffect
<1>2. visited' = before \union (ids \ before) /\ attempted' = attempted \union (ids \ before)
  BY <1>1 DEF Entering
<1>3. Nodes' = Nodes /\ Bodies' = Bodies /\ Of("collect")' = Of("collect")
  BY SameGraph
<1> QED BY <1>2, <1>3 DEF SetInv

LEMMA EnterTurns ==
  ASSUME turn \in [Nodes -> Nat], NEW again \in [Nodes -> Nat],
         NEW t, NEW ids \in SUBSET Nodes, NEW before, NEW others,
         \A n \in Nodes : turn[n] <= again[n] + Once(n, before),
         Enter(t, ids, before, others)
  PROVE  /\ turn' \in [Nodes -> Nat]
         /\ \A n \in Nodes : turn'[n] <= again[n] + Once(n, visited')
<1>1. Entering(t, ids \ before, before, others)
  BY EnterEffect
<1>2. ASSUME NEW n \in Nodes PROVE turn'[n] <= again[n] + Once(n, visited')
  <2>1. visited' = before \union (ids \ before)
    BY <1>1 DEF Entering
  <2>2. turn'[n] = IF n \in ids \ before THEN turn[n] + 1 ELSE turn[n]
    BY <1>1 DEF Entering
  <2>3. turn[n] \in Nat /\ again[n] \in Nat
    OBVIOUS
  <2> QED BY <2>1, <2>2, <2>3 DEF Once
<1> QED BY <1>1, <1>2 DEF Entering

LEMMA Arrivals ==
  ASSUME graph \in Graphs, NEW from, NEW ids, \A n \in ids : <<from, n>> \in graph.forward
  PROVE  Arriving(from, ids) \subseteq JoinPairs
BY DEF Arriving, JoinPairs

(* Where only the values change, the rest stays as it is. *)
LEMMA Stays ==
  ASSUME EngineInv, UNCHANGED <<traversal, joining, looping>>
  PROVE  LiveInv' /\ LoopInv' /\ SetInv' /\ graph' \in Graphs
<1>1. /\ graph' = graph /\ visited' = visited /\ attempted' = attempted /\ live' = live
      /\ turn' = turn /\ arrived' = arrived /\ skips' = skips /\ skipped' = skipped
      /\ passes' = passes /\ reentries' = reentries
  BY DEF traversal, joining, looping
<1>2. SetInv'
  BY <1>1, SameGraph DEF EngineInv, SetInv
<1>3. LoopInv'
  <2>1. Traversals' = Traversals
    BY <1>1, TraversalsTotal
  <2> QED BY <1>1, <2>1, SameGraph DEF EngineInv, LoopInv, Once
<1>4. LiveInv'
  BY <1>1, SameGraph DEF EngineInv, LiveInv
<1> QED BY <1>1, <1>2, <1>3, <1>4 DEF EngineInv

(* So does what a loop has counted, in a step that is no loop's. *)
LEMMA NoLoop ==
  ASSUME EngineInv, UNCHANGED looping, turn' \in [Nodes -> Nat],
         \A n \in Nodes : turn'[n] <= reentries[n] + Once(n, visited')
  PROVE  LoopInv' /\ graph' \in Graphs
<1>1. graph' = graph /\ passes' = passes /\ reentries' = reentries
  BY DEF looping
<1>2. Traversals' = Traversals
  BY <1>1, TraversalsTotal
<1> QED BY <1>1, <1>2, SameGraph DEF EngineInv, LoopInv, Once

(* The activation's way onwards: executeReadyDownstream, and the like of it *)
(* behind a For Each.                                                       *)
LEMMA Onwards ==
  ASSUME EngineInv, UNCHANGED <<skips, skipped, looping>>,
         NEW t \in DOMAIN live, NEW a, Fits(t, a), a.at \in Waiting,
         NEW from, NEW forward, \A n \in forward : <<from, n>> \in graph.forward,
         NEW before \in SUBSET Nodes, visited \subseteq before,
         before \ (Bodies \union Of("collect")) \subseteq attempted,
         arrived' = arrived \union Arriving(from, forward),
         NEW ids \in SUBSET forward, Enter(t, ids, before, [live EXCEPT ![t] = a])
  PROVE  LiveInv' /\ LoopInv' /\ SetInv' /\ graph' \in Graphs
<1>1. graph' = graph /\ graph \in Graphs /\ skips' = skips /\ skipped' = skipped
  BY DEF looping, EngineInv
<1>2. ids \subseteq Nodes
  <2>1. ASSUME NEW n \in ids PROVE n \in Nodes
    <3>1. <<from, n>> \in Nodes \X Nodes
      BY <1>1, GraphFacts
    <3> QED BY <3>1
  <2> QED BY <2>1
<1>3. LiveInv'
  BY <1>1, <1>2, EnterLive DEF EngineInv, LoopInv
<1>4. LoopInv' /\ graph' \in Graphs
  <2> DEFINE others == [live EXCEPT ![t] = a]
  <2>1. reentries \in [Nodes -> Nat] /\ turn \in [Nodes -> Nat]
    BY DEF EngineInv, LoopInv
  <2>2. \A n \in Nodes : turn[n] <= reentries[n] + Once(n, before)
    BY <2>1 DEF EngineInv, LoopInv, Once
  <2>3. Enter(t, ids, before, others)
    OBVIOUS
  <2> HIDE DEF others
  <2>4. turn' \in [Nodes -> Nat] /\ \A n \in Nodes : turn'[n] <= reentries[n] + Once(n, visited')
    BY <1>2, <2>1, <2>2, <2>3, EnterTurns
  <2> QED BY <2>4, NoLoop
<1>5. SetInv'
  <2> DEFINE others == [live EXCEPT ![t] = a]
  <2>1. Enter(t, ids, before, others)
    OBVIOUS
  <2> HIDE DEF others
  <2>2. /\ visited' \subseteq Nodes' /\ attempted' \subseteq Nodes'
        /\ (visited \ (Bodies \union Of("collect")) \subseteq attempted)'
    BY <1>1, <1>2, <2>1, EnterSets DEF EngineInv, LoopInv
  <2>3. Arriving(from, forward) \subseteq JoinPairs
    BY <1>1, Arrivals
  <2> QED BY <1>1, <2>2, <2>3, SameGraph DEF EngineInv, SetInv
<1> QED BY <1>3, <1>4, <1>5

-----------------------------------------------------------------------------
(* The steps, but for the values they leave.                                *)

Placed == LiveInv /\ LoopInv /\ SetInv /\ graph \in Graphs

LEMMA ActivationFields ==
  ASSUME EngineInv, NEW t \in DOMAIN live
  PROVE  /\ live[t] \in Activations /\ t[1] \in Nodes /\ reentries[t[1]] \in Nat
         /\ live[t].loops \subseteq Nodes /\ live[t].spare \subseteq Nodes
         /\ live[t].parent \in Keys \union {None}
<1>1. t \in Keys /\ live[t] \in Activations
  BY DEF EngineInv, LiveInv
<1> QED BY <1>1 DEF EngineInv, LoopInv, Keys, Activations

(* What Awaiting makes of the activation. *)
Awaits(t, from, loops, spare) ==
  [live[t] EXCEPT !.at = "await", !.from = from, !.loops = loops,
                  !.spare = spare, !.seen = reentries[t[1]]]

PutToWait(t, a, others) == Fits(t, a) /\ a.at \in Waiting /\ others = [live EXCEPT ![t] = a]

LEMMA AwaitsFits ==
  ASSUME EngineInv, NEW t \in DOMAIN live, NEW from \in Nodes,
         NEW loops \in SUBSET Nodes, NEW spare \in SUBSET Nodes,
         \A n \in loops : <<from, n>> \in graph.back,
         \A n \in spare : <<t[1], n>> \in graph.forward
  PROVE  PutToWait(t, Awaits(t, from, loops, spare), Awaiting(t, from, loops, spare))
<1> DEFINE a == Awaits(t, from, loops, spare)
<1>1. live[t] \in Activations /\ reentries[t[1]] \in Nat
  BY ActivationFields
<1>2. /\ a \in Activations /\ a.at = "await" /\ a.from = from /\ a.loops = loops
      /\ a.spare = spare /\ a.parent = live[t].parent
  BY <1>1 DEF Awaits, Activations, Waiting
<1>3. Awaiting(t, from, loops, spare) = [live EXCEPT ![t] = a]
  BY DEF Awaiting, Awaits
<1> HIDE DEF a
<1>4. Fits(t, a) /\ a.at \in Waiting
  BY <1>2 DEF Fits, Waiting
<1> QED BY <1>3, <1>4 DEF a, PutToWait

LEMMA ContinueStep ==
  ASSUME EngineInv, UNCHANGED <<skips, skipped, looping>>, NEW t \in DOMAIN live,
         NEW from \in Nodes, NEW targets, targets \subseteq AllTargets(from),
         NEW spare \in SUBSET Nodes, \A n \in spare : <<t[1], n>> \in graph.forward,
         Continue(t, from, targets, spare, visited)
  PROVE  Placed'
<1> DEFINE forward == {n \in targets : <<from, n>> \notin graph.back}
           loops == targets \ forward
           a == Awaits(t, from, loops, spare)
           ids == (forward \ Joins) \union Unblocked(arrived', forward, visited)
<1>1. graph \in Graphs /\ targets \subseteq Nodes
  BY Neighbours DEF EngineInv
<1>2. \A n \in forward : <<from, n>> \in graph.forward
  BY <1>1, Neighbours
<1>3. \A n \in loops : <<from, n>> \in graph.back
  OBVIOUS
<1>4. loops \in SUBSET Nodes
  BY <1>1
<1>5. ids \subseteq forward
  BY DEF Unblocked
<1>6. arrived' = arrived \union Arriving(from, forward)
  BY DEF Continue
<1>7. Enter(t, ids, visited, Awaiting(t, from, loops, spare))
  BY DEF Continue
<1> HIDE DEF ids, forward, loops
<1>0. PutToWait(t, a, Awaiting(t, from, loops, spare))
  BY <1>3, <1>4, AwaitsFits
<1> HIDE DEF a
<1>8. /\ Fits(t, a) /\ a.at \in Waiting
      /\ Awaiting(t, from, loops, spare) = [live EXCEPT ![t] = a]
  BY <1>0 DEF PutToWait
<1>9. Enter(t, ids, visited, [live EXCEPT ![t] = a])
  BY <1>7, <1>8
<1>10. visited \in SUBSET Nodes /\ visited \ (Bodies \union Of("collect")) \subseteq attempted
  BY DEF EngineInv, SetInv
<1>11. Fits(t, a) /\ a.at \in Waiting /\ ids \in SUBSET forward
  BY <1>5, <1>8
<1> QED BY <1>2, <1>6, <1>9, <1>10, <1>11, Onwards DEF Placed

LEMMA SignalStep ==
  ASSUME EngineInv, UNCHANGED <<skips, skipped, looping>>, NEW t \in DOMAIN live,
         SignalFailure(t)
  PROVE  Placed'
<1> DEFINE n == t[1]
           joins == IF n \in Of("condition") THEN {} ELSE ForwardFrom(n)
           a == Awaits(t, n, {}, {})
           ids == Unblocked(arrived', joins, visited)
<1>1. graph \in Graphs /\ n \in Nodes
  BY ActivationFields DEF EngineInv
<1>2. \A m \in joins : <<n, m>> \in graph.forward
  BY <1>1, Neighbours
<1>3. ids \subseteq joins
  BY DEF Unblocked
<1>4. arrived' = arrived \union Arriving(n, joins)
  BY DEF SignalFailure
<1>5. Enter(t, ids, visited, Awaiting(t, n, {}, {}))
  BY DEF SignalFailure
<1> HIDE DEF ids, joins
<1>0. PutToWait(t, a, Awaiting(t, n, {}, {}))
  <2> DEFINE none == {}
  <2>1. none \in SUBSET Nodes /\ \A m \in none : FALSE
    OBVIOUS
  <2>2. a = Awaits(t, t[1], none, none) /\ Awaiting(t, n, {}, {}) = Awaiting(t, t[1], none, none)
    OBVIOUS
  <2> HIDE DEF none, a
  <2>3. PutToWait(t, Awaits(t, t[1], none, none), Awaiting(t, t[1], none, none))
    BY <1>1, <2>1, AwaitsFits
  <2> QED BY <2>2, <2>3
<1> HIDE DEF a
<1>6. /\ Fits(t, a) /\ a.at \in Waiting
      /\ Awaiting(t, n, {}, {}) = [live EXCEPT ![t] = a]
  BY <1>0 DEF PutToWait
<1>7. Enter(t, ids, visited, [live EXCEPT ![t] = a])
  BY <1>5, <1>6
<1>8. visited \in SUBSET Nodes /\ visited \ (Bodies \union Of("collect")) \subseteq attempted
  BY DEF EngineInv, SetInv
<1> QED BY <1>2, <1>3, <1>4, <1>6, <1>7, <1>8, Onwards DEF Placed

LEMMA FollowStep ==
  ASSUME EngineInv, UNCHANGED <<skips, skipped, looping>>, NEW t \in DOMAIN live,
         NEW d, FollowCondition(t, d)
  PROVE  Placed'
<1> DEFINE n == t[1]
           other == IF d = "true" THEN "false" ELSE "true"
           taken == IF HasHandles(n) THEN Targets(n, {d})
                    ELSE IF d = "true" THEN AllTargets(n) ELSE {}
           spare == {m \in Targets(n, {other}) : <<n, m>> \notin graph.back}
<1>1. graph \in Graphs /\ n \in Nodes
  BY ActivationFields DEF EngineInv
<1>2. taken \subseteq AllTargets(n)
  BY <1>1, Neighbours
<1>3. spare \in SUBSET Nodes /\ \A m \in spare : <<n, m>> \in graph.forward
  BY <1>1, Neighbours
<1>4. Continue(t, n, taken, spare, visited)
  BY DEF FollowCondition
<1> HIDE DEF taken, spare
<1> QED BY <1>1, <1>2, <1>3, <1>4, ContinueStep

LEMMA SucceedStep ==
  ASSUME EngineInv, NEW t \in DOMAIN live, live[t].at = "step", NEW out, Succeed(t, out)
  PROVE  Placed'
<1>1. graph \in Graphs /\ t[1] \in Nodes /\ AllTargets(t[1]) \subseteq Nodes
  BY ActivationFields, Neighbours DEF EngineInv
<1>2. UNCHANGED <<skips, skipped, looping>>
  BY DEF Succeed
<1>3. CASE t[1] \in Of("condition")
  <2>1. t[1] \notin Of("foreach")
    BY <1>3 DEF Of
  <2>2. FollowCondition(t, out)
    BY <1>3, <2>1 DEF Succeed
  <2> QED BY <1>2, <2>2, FollowStep
<1>4. CASE t[1] \notin Of("condition") /\ t[1] \in Of("foreach")
  <2> DEFINE a == [live[t] EXCEPT !.at = "iterating"]
  <2>1. /\ live' = [live EXCEPT ![t].at = "iterating"]
        /\ UNCHANGED <<visited, attempted, turn, arrived>>
    BY <1>4 DEF Succeed
  <2>2. live' = [live EXCEPT ![t] = a]
    BY <2>1
  <2>3. /\ a \in Activations /\ a.loops = live[t].loops /\ a.spare = live[t].spare
        /\ a.from = live[t].from /\ a.parent = live[t].parent
    BY ActivationFields DEF Activations
  <2>4. Fits(t, a)
    <3> HIDE DEF a
    <3> QED BY <1>4, <2>3 DEF Fits, EngineInv, LiveInv
  <2> HIDE DEF a
  <2>5. \A u \in DOMAIN live : live[u].parent # t
    BY NobodyWaits DEF EngineInv, Waiting
  <2>6. graph' = graph
    BY <1>2 DEF looping
  <2>7. LiveInv'
    BY <2>1, <2>2, <2>4, <2>5, <2>6, AmendLive DEF EngineInv
  <2>8. LoopInv' /\ graph' \in Graphs
    <3>1. turn' \in [Nodes -> Nat] /\ \A n \in Nodes : turn'[n] <= reentries[n] + Once(n, visited')
      BY <2>1 DEF EngineInv, LoopInv
    <3> QED BY <1>2, <3>1, NoLoop
  <2>9. SetInv'
    BY <1>2, <2>1, <2>6, SameGraph DEF EngineInv, SetInv
  <2> QED BY <2>7, <2>8, <2>9 DEF Placed
<1>5. CASE t[1] \notin Of("condition") /\ t[1] \notin Of("foreach")
  <2>1. Continue(t, t[1], AllTargets(t[1]), {}, visited)
    BY <1>5 DEF Succeed
  <2> QED BY <1>1, <1>2, <2>1, ContinueStep
<1> QED BY <1>3, <1>4, <1>5

(* An activation that nobody waits for returns. *)
LEMMA ReturnStep ==
  ASSUME EngineInv, UNCHANGED <<joining, looping>>, NEW t \in DOMAIN live,
         \A u \in DOMAIN live : live[u].parent # t, live' = Without(t), turn' = turn,
         NEW marked \in SUBSET Nodes, visited' = visited \union marked,
         marked \ (Bodies \union Of("collect")) = {},
         NEW known \in SUBSET Nodes, attempted' = attempted \union known
  PROVE  Placed'
<1>1. /\ graph' = graph /\ graph \in Graphs
      /\ arrived' = arrived /\ skips' = skips /\ skipped' = skipped
  BY DEF looping, joining, EngineInv
<1>2. LiveInv'
  BY <1>1, ReturnLive DEF EngineInv
<1>3. LoopInv' /\ graph' \in Graphs
  <2>1. turn' \in [Nodes -> Nat] /\ \A n \in Nodes : turn'[n] <= reentries[n] + Once(n, visited')
    BY DEF EngineInv, LoopInv, Once
  <2>2. UNCHANGED looping
    OBVIOUS
  <2> QED BY <2>1, <2>2, NoLoop
<1>4. SetInv'
  BY <1>1, SameGraph DEF EngineInv, SetInv
<1> QED BY <1>2, <1>3, <1>4 DEF Placed

LEMMA IterationTypes ==
  ASSUME graph \in Graphs, NEW f
  PROVE  /\ BodyOf(f) \subseteq Nodes
         /\ InnerCollect(f) \subseteq Of("collect") /\ Aggregate(f) \subseteq Of("collect")
         /\ Of("collect") \subseteq Nodes
         /\ f \in Of("foreach") => BodyOf(f) \union InnerCollect(f) \subseteq Bodies
<1>1. Seeds(f) \subseteq Nodes
  BY Neighbours DEF Seeds
<1>2. Places(graph.forward, Seeds(f)) \subseteq Nodes
  BY <1>1, GraphFacts DEF Places
<1>3. BodyOf(f) \subseteq Nodes
  BY <1>2, GraphFacts, ReachableType DEF BodyOf
<1>4. InnerCollect(f) \subseteq Of("collect")
  BY DEF InnerCollect
<1>5. Aggregate(f) \subseteq Of("collect")
  BY <1>4 DEF Aggregate
<1> QED BY <1>3, <1>4, <1>5 DEF Bodies, Of

LEMMA IterationsSucceedStep ==
  ASSUME EngineInv, NEW t \in DOMAIN live, IterationsSucceed(t)
  PROVE  Placed'
<1> DEFINE f == t[1]
           sink == Aggregate(f)
           from == IF sink = {} THEN f ELSE CHOOSE c \in sink : TRUE
           targets == IF sink = {} THEN Targets(f, {"done"}) ELSE AllTargets(from)
           marked == visited \union BodyOf(f) \union sink \union
                     (IF sink = {} THEN {} ELSE InnerCollect(f))
           forward == {n \in targets : <<from, n>> \notin graph.back}
           loops == targets \ forward
           ids == (forward \ Joins) \union Unblocked(arrived', forward, marked)
           a == [Awaits(t, from, loops, {}) EXCEPT !.at = "iterated"]
<1>1. graph \in Graphs /\ f \in Nodes /\ live[t].at = "iterating" /\ f \in Of("foreach")
  BY ActivationFields DEF EngineInv, LiveInv, IterationsSucceed
<1>2. from \in Nodes
  <2>1. sink \subseteq Nodes
    BY <1>1, IterationTypes
  <2> HIDE DEF sink
  <2> QED BY <1>1, <2>1
<1>3. targets \subseteq AllTargets(from) /\ targets \subseteq Nodes
  <2>1. Targets(f, {"done"}) \subseteq AllTargets(f)
    BY <1>1, Neighbours
  <2>2. targets \subseteq AllTargets(from)
    BY <2>1
  <2> QED BY <1>1, <2>2, Neighbours
<1>4. marked \in SUBSET Nodes /\ visited \subseteq marked
  BY <1>1, IterationTypes DEF EngineInv, SetInv
<1>5. marked \ (Bodies \union Of("collect")) \subseteq attempted
  BY <1>1, IterationTypes DEF EngineInv, SetInv
<1>6. ids \subseteq forward
  BY DEF Unblocked
<1>7. arrived' = arrived \union Arriving(from, forward)
  BY DEF IterationsSucceed
<1>8. Enter(t, ids, marked, [Awaiting(t, from, loops, {}) EXCEPT ![t].at = "iterated"])
  BY DEF IterationsSucceed
<1>9. UNCHANGED <<skips, skipped, looping>>
  BY DEF IterationsSucceed
<1> HIDE DEF ids, marked, from, targets
<1>10. \A n \in forward : <<from, n>> \in graph.forward
  BY <1>1, <1>3, Neighbours
<1>11. (\A n \in loops : <<from, n>> \in graph.back) /\ loops \in SUBSET Nodes
  BY <1>3
<1> HIDE DEF loops, forward
<1>12. /\ Fits(t, Awaits(t, from, loops, {}))
       /\ Awaiting(t, from, loops, {}) = [live EXCEPT ![t] = Awaits(t, from, loops, {})]
  <2> DEFINE none == {}
  <2>1. none \in SUBSET Nodes /\ \A m \in none : FALSE
    OBVIOUS
  <2> HIDE DEF none
  <2>2. PutToWait(t, Awaits(t, from, loops, none), Awaiting(t, from, loops, none))
    BY <1>2, <1>11, <2>1, AwaitsFits
  <2> QED BY <2>2 DEF PutToWait, none
<1>13. [Awaiting(t, from, loops, {}) EXCEPT ![t].at = "iterated"] = [live EXCEPT ![t] = a]
  BY <1>12 DEF EngineInv, LiveInv
<1>14. /\ a.at = "iterated" /\ a.parent = live[t].parent /\ a \in Activations
       /\ a.loops = loops /\ a.spare = {} /\ a.from = from
  <2>1. live[t] \in Activations /\ reentries[t[1]] \in Nat
    BY ActivationFields
  <2> QED BY <1>2, <1>11, <2>1 DEF Awaits, Activations, Waiting
<1> HIDE DEF a
<1>15. Fits(t, a) /\ a.at \in Waiting
  BY <1>1, <1>11, <1>14 DEF Fits, Waiting
<1>16. Enter(t, ids, marked, [live EXCEPT ![t] = a])
  BY <1>8, <1>13
<1>17. ids \in SUBSET forward
  BY <1>6
<1> QED BY <1>4, <1>5, <1>7, <1>9, <1>10, <1>15, <1>16, <1>17, Onwards DEF Placed

LEMMA IterationsFailStep ==
  ASSUME EngineInv, NEW t \in DOMAIN live, IterationsFail(t)
  PROVE  Placed'
<1> DEFINE f == t[1]
           unfed == Aggregate(f) \union (IF Aggregate(f) = {} THEN {} ELSE InnerCollect(f))
<1>1. graph \in Graphs /\ live[t].at = "iterating" /\ f \in Of("foreach")
  BY DEF EngineInv, LiveInv, IterationsFail
<1>2. \A u \in DOMAIN live : live[u].parent # t
  BY <1>1, NobodyWaits DEF EngineInv, Waiting
<1>3. /\ UNCHANGED <<joining, looping>> /\ live' = Without(t) /\ turn' = turn
      /\ visited' = visited \union (BodyOf(f) \union unfed)
      /\ attempted' = attempted \union unfed
  BY DEF IterationsFail
<1>4. /\ unfed \in SUBSET Nodes /\ BodyOf(f) \union unfed \in SUBSET Nodes
      /\ (BodyOf(f) \union unfed) \ (Bodies \union Of("collect")) = {}
  BY <1>1, IterationTypes
<1> HIDE DEF unfed
<1> QED BY <1>2, <1>3, <1>4, ReturnStep

(* A For Each that throws: it marks its body or nothing, and tells its joins or *)
(* follows its edges.                                                          *)
Thrown(t, marked, forward, loops, ids) ==
  /\ live[t].at = "iterating" /\ t[1] \in Of("foreach") /\ marked \subseteq BodyOf(t[1])
  /\ forward \union loops \subseteq AllTargets(t[1])
  /\ \A n \in forward : <<t[1], n>> \in graph.forward
  /\ \A n \in loops : <<t[1], n>> \in graph.back
  /\ ids \intersect Joins = Unblocked(arrived', forward, visited \union marked)
  /\ arrived' = arrived \union Arriving(t[1], forward)
  /\ Enter(t, ids, visited \union marked, Awaiting(t, t[1], loops, {}))
  /\ UNCHANGED <<skips, skipped, looping, decision>>

LEMMA IterationsThrown ==
  ASSUME EngineInv, NEW t \in DOMAIN live, IterationsThrow(t)
  PROVE  \E marked, forward, loops : \E ids \in SUBSET forward :
           Thrown(t, marked, forward, loops, ids)
<1> DEFINE f == t[1]
           joins == ForwardFrom(f)
<1>1. PICK error \in {"failed", "retries", "ok"}, sunk \in {{}, Aggregate(f)} :
        LET marked == visited \union (IF sunk = {} THEN {} ELSE BodyOf(f))
        IN  /\ live[t].at = "iterating" /\ UNCHANGED <<skips, skipped, looping, decision>>
            /\ IF error = "ok" THEN Continue(t, f, AllTargets(f), {}, marked)
               ELSE /\ arrived' = arrived \union Arriving(f, joins)
                    /\ Enter(t, Unblocked(arrived', joins, marked), marked, Awaiting(t, f, {}, {}))
  BY DEF IterationsThrow
<1> DEFINE marked == IF sunk = {} THEN {} ELSE BodyOf(f)
<1>2. /\ graph \in Graphs /\ f \in Nodes /\ f \in Of("foreach") /\ marked \subseteq BodyOf(f)
  BY <1>1, ActivationFields DEF EngineInv, LiveInv
<1>3. CASE error = "ok"
  <2> DEFINE targets == AllTargets(f)
             forward == {n \in targets : <<f, n>> \notin graph.back}
             loops == targets \ forward
             ids == (forward \ Joins) \union Unblocked(arrived', forward, visited \union marked)
  <2>1. Continue(t, f, targets, {}, visited \union marked)
    BY <1>1, <1>3
  <2> HIDE DEF marked
  <2>2. /\ arrived' = arrived \union Arriving(f, forward)
        /\ Enter(t, ids, visited \union marked, Awaiting(t, f, loops, {}))
    BY <2>1 DEF Continue
  <2>3. \A n \in forward : <<f, n>> \in graph.forward
    BY <1>2, Neighbours
  <2>4. \A n \in loops : <<f, n>> \in graph.back
    OBVIOUS
  <2>5. ids \in SUBSET forward /\ ids \intersect Joins = Unblocked(arrived', forward, visited \union marked)
    BY DEF Unblocked
  <2>6. forward \union loops \subseteq AllTargets(t[1])
    OBVIOUS
  <2> HIDE DEF forward, loops, ids
  <2>7. Thrown(t, marked, forward, loops, ids)
    BY <1>1, <1>2, <2>2, <2>3, <2>4, <2>5, <2>6 DEF Thrown
  <2> QED BY <2>5, <2>7
<1>4. CASE error # "ok"
  <2> DEFINE ids == Unblocked(arrived', joins, visited \union marked)
             none == {}
  <2>1. /\ arrived' = arrived \union Arriving(f, joins)
        /\ Enter(t, ids, visited \union marked, Awaiting(t, f, none, {}))
    BY <1>1, <1>4
  <2> HIDE DEF marked
  <2>2. /\ \A n \in joins : <<f, n>> \in graph.forward
        /\ joins \union none \subseteq AllTargets(t[1]) /\ \A n \in none : <<f, n>> \in graph.back
    BY <1>2, Neighbours
  <2>3. ids \in SUBSET joins /\ ids \intersect Joins = Unblocked(arrived', joins, visited \union marked)
    BY DEF Unblocked
  <2> HIDE DEF joins, none, ids
  <2>4. Thrown(t, marked, joins, none, ids)
    BY <1>1, <1>2, <2>1, <2>2, <2>3 DEF Thrown
  <2> QED BY <2>3, <2>4
<1> QED BY <1>1, <1>3, <1>4

LEMMA IterationsThrowStep ==
  ASSUME EngineInv, NEW t \in DOMAIN live, IterationsThrow(t)
  PROVE  Placed'
<1>1. PICK marked, forward, loops : \E ids \in SUBSET forward : Thrown(t, marked, forward, loops, ids)
  BY IterationsThrown
<1>2. PICK ids \in SUBSET forward : Thrown(t, marked, forward, loops, ids)
  BY <1>1
<1> DEFINE before == visited \union marked
           none == {}
           a == Awaits(t, t[1], loops, none)
<1>3. graph \in Graphs /\ t[1] \in Nodes /\ t[1] \in Of("foreach")
  BY <1>2, ActivationFields DEF EngineInv, Thrown
<1>4. /\ before \in SUBSET Nodes /\ visited \subseteq before
      /\ before \ (Bodies \union Of("collect")) \subseteq attempted
  BY <1>2, <1>3, IterationTypes DEF EngineInv, SetInv, Thrown
<1>5. /\ loops \in SUBSET Nodes /\ \A n \in loops : <<t[1], n>> \in graph.back
      /\ none \in SUBSET Nodes /\ \A n \in none : <<t[1], n>> \in graph.forward
  BY <1>2, <1>3, Neighbours DEF Thrown
<1>6. Enter(t, ids, before, Awaiting(t, t[1], loops, none))
  BY <1>2 DEF Thrown
<1> HIDE DEF none, before
<1>7. PutToWait(t, a, Awaiting(t, t[1], loops, none))
  BY <1>3, <1>5, AwaitsFits
<1> HIDE DEF a
<1>8. Fits(t, a) /\ a.at \in Waiting /\ Awaiting(t, t[1], loops, none) = [live EXCEPT ![t] = a]
  BY <1>7 DEF PutToWait
<1>9. Enter(t, ids, before, [live EXCEPT ![t] = a])
  BY <1>6, <1>8
<1>10. /\ UNCHANGED <<skips, skipped, looping>> /\ arrived' = arrived \union Arriving(t[1], forward)
       /\ \A n \in forward : <<t[1], n>> \in graph.forward
  BY <1>2 DEF Thrown
<1> QED BY <1>4, <1>8, <1>9, <1>10, Onwards DEF Placed

LEMMA ScopeTypes ==
  ASSUME graph \in Graphs, NEW entry \in Nodes
  PROVE  Scope(entry) \subseteq Nodes /\ entry \in Scope(entry)
<1>1. Places(graph.forward, {entry}) \subseteq Nodes
  BY GraphFacts DEF Places
<1> QED BY <1>1, GraphFacts, ReachableType DEF Scope

(* An entry that is no longer asked for, and a branch that has been skipped. *)
LEMMA DropsFit ==
  ASSUME EngineInv, NEW t \in DOMAIN live, live[t].at \in Waiting
  PROVE  /\ \A entry : LET a == [live[t] EXCEPT !.loops = @ \ {entry}]
                       IN  Fits(t, a) /\ a.at \in Waiting
         /\ LET a == [live[t] EXCEPT !.spare = {}]
            IN  Fits(t, a) /\ a.at \in Waiting
<1>1. live[t] \in Activations
  BY ActivationFields
<1>2. ASSUME NEW entry
      PROVE  LET a == [live[t] EXCEPT !.loops = @ \ {entry}]
             IN  Fits(t, a) /\ a.at \in Waiting
  <2> DEFINE a == [live[t] EXCEPT !.loops = @ \ {entry}]
  <2>1. /\ a \in Activations /\ a.at = live[t].at /\ a.parent = live[t].parent
        /\ a.from = live[t].from /\ a.spare = live[t].spare /\ a.loops \subseteq live[t].loops
    BY <1>1 DEF Activations
  <2> HIDE DEF a
  <2>2. Fits(t, a) /\ a.at \in Waiting
    BY <2>1 DEF Fits, EngineInv, LiveInv
  <2> QED BY <2>2 DEF a
<1>3. LET a == [live[t] EXCEPT !.spare = {}]
      IN  Fits(t, a) /\ a.at \in Waiting
  <2> DEFINE a == [live[t] EXCEPT !.spare = {}]
  <2>1. /\ a \in Activations /\ a.at = live[t].at /\ a.parent = live[t].parent
        /\ a.from = live[t].from /\ a.spare = {} /\ a.loops = live[t].loops
    BY <1>1 DEF Activations
  <2> HIDE DEF a
  <2>2. Fits(t, a) /\ a.at \in Waiting
    BY <2>1 DEF Fits, EngineInv, LiveInv
  <2> QED BY <2>2 DEF a
<1> QED BY <1>2, <1>3

LEMMA LoopBackStep ==
  ASSUME EngineInv, NEW t \in DOMAIN live, LoopBack(t)
  PROVE  Placed'
<1>1. PICK entry \in live[t].loops :
        LET e == <<live[t].from, entry>>
            body == Scope(entry)
            rest == [live EXCEPT ![t].loops = @ \ {entry}]
        IN  /\ Quiet(t) /\ Admits(e)
            /\ passes' = [passes EXCEPT ![e] = @ + 1]
            /\ reentries' = [n \in Nodes |-> IF n \in body THEN reentries[n] + 1 ELSE reentries[n]]
            /\ arrived' = arrived \ Inside(arrived, body)
            /\ skips' = skips \ Inside(skips, body)
            /\ skipped' = skipped \ body
            /\ Enter(t, {entry}, visited \ body, rest)
            /\ graph' = graph
  BY DEF LoopBack
<1> DEFINE e == <<live[t].from, entry>>
           body == Scope(entry)
           a == [live[t] EXCEPT !.loops = @ \ {entry}]
           others == [live EXCEPT ![t] = a]
<1>2. graph \in Graphs /\ graph' = graph /\ live[t].at \in Waiting
  BY <1>1 DEF EngineInv, Quiet, Waiting
<1>3. entry \in Nodes /\ e \in graph.back
  BY ActivationFields DEF EngineInv, LiveInv
<1>4. body \subseteq Nodes /\ entry \in body
  BY <1>2, <1>3, ScopeTypes
<1>5. Fits(t, a) /\ a.at \in Waiting
  BY <1>2, DropsFit
<1>6. Enter(t, {entry}, visited \ body, others)
  BY <1>1
<1>7. /\ passes \in [graph.back -> 0 .. MaxIterations] /\ passes \in [graph.back -> Nat]
      /\ reentries \in [Nodes -> Nat] /\ turn \in [Nodes -> Nat] /\ MaxIterations \in Nat
  BY EngineAssumption DEF EngineInv, LoopInv
<1>8. graph.back \in FiniteSubsetsOf(graph.back)
  BY <1>2, GraphFacts DEF FiniteSubsetsOf
<1>9. LiveInv'
  <2>1. {entry} \in SUBSET Nodes /\ Enter(t, {entry}, visited \ body, [live EXCEPT ![t] = a])
    BY <1>3, <1>6
  <2> HIDE DEF a, body
  <2> QED BY <1>2, <1>5, <1>7, <2>1, EnterLive DEF EngineInv
<1> HIDE DEF a, others
<1>10. LoopInv'
  <2>1. passes' = [passes EXCEPT ![e] = @ + 1] /\ passes[e] < MaxIterations
        /\ Traversals < MaxTraversals
    BY <1>1 DEF Admits
  <2> HIDE DEF e
  <2>2. passes' \in [graph.back -> 0 .. MaxIterations]
    BY <1>3, <1>7, <2>1
  <2>3. Traversals' = Traversals + 1 /\ Traversals \in Nat
    BY <1>2, <1>3, <1>7, <1>8, <2>1, TotalOneMore, TotalType, TraversalsTotal
  <2>4. MaxTraversals \in Nat
    BY EngineAssumption
  <2>5. reentries' = [n \in Nodes |-> IF n \in body THEN reentries[n] + 1 ELSE reentries[n]]
    BY <1>1
  <2> HIDE DEF body
  <2>6. reentries' \in [Nodes -> Nat]
    BY <1>7, <2>5
  <2>7. \A n \in Nodes : turn[n] <= reentries'[n] + Once(n, visited \ body)
    <3>1. \A n \in Nodes : turn[n] <= reentries[n] + Once(n, visited)
      BY DEF EngineInv, LoopInv
    <3> QED BY <1>7, <2>5, <3>1 DEF Once
  <2>8. turn' \in [Nodes -> Nat] /\ \A n \in Nodes : turn'[n] <= reentries'[n] + Once(n, visited')
    <3>1. {entry} \in SUBSET Nodes
      BY <1>3
    <3> QED BY <1>6, <1>7, <2>6, <2>7, <3>1, EnterTurns
  <2>9. \A n \in Nodes : reentries'[n] <= Traversals'
    <3>1. \A n \in Nodes : reentries[n] <= Traversals
      BY DEF EngineInv, LoopInv
    <3> QED BY <1>7, <2>3, <2>5, <3>1
  <2>10. Traversals' <= MaxTraversals
    BY <2>1, <2>3, <2>4
  <2>11. Nodes' = Nodes /\ graph'.back = graph.back
    BY <1>2, SameGraph
  <2> QED BY <2>2, <2>6, <2>8, <2>9, <2>10, <2>11 DEF LoopInv
<1>11. SetInv'
  <2>1. {entry} \in SUBSET Nodes /\ visited \ body \in SUBSET Nodes
    BY <1>3 DEF EngineInv, SetInv
  <2>2. /\ visited' \subseteq Nodes' /\ attempted' \subseteq Nodes'
        /\ (visited \ (Bodies \union Of("collect")) \subseteq attempted)'
    <3>1. (visited \ body) \ (Bodies \union Of("collect")) \subseteq attempted
      BY DEF EngineInv, SetInv
    <3> HIDE DEF body
    <3> QED BY <1>2, <1>6, <1>7, <2>1, <3>1, EnterSets DEF EngineInv
  <2>3. skips' \subseteq arrived' /\ arrived' \subseteq arrived /\ skipped' \subseteq skipped
    BY <1>1 DEF EngineInv, SetInv, Inside
  <2> QED BY <1>2, <2>2, <2>3, SameGraph DEF EngineInv, SetInv
<1> QED BY <1>2, <1>9, <1>10, <1>11 DEF Placed

LEMMA LoopRefusedStep ==
  ASSUME EngineInv, NEW t \in DOMAIN live, LoopRefused(t)
  PROVE  Placed'
<1>1. PICK entry \in live[t].loops :
        /\ Quiet(t) /\ live' = [live EXCEPT ![t].loops = @ \ {entry}]
        /\ UNCHANGED <<visited, attempted, turn, joining, looping>>
  BY DEF LoopRefused
<1> DEFINE a == [live[t] EXCEPT !.loops = @ \ {entry}]
<1>2. live' = [live EXCEPT ![t] = a]
  BY <1>1
<1>3. Fits(t, a) /\ a.at \in Waiting
  BY <1>1, DropsFit DEF Quiet, Waiting
<1> HIDE DEF a
<1>4. graph' = graph /\ graph \in Graphs
  BY <1>1 DEF looping, EngineInv
<1>5. LiveInv'
  BY <1>1, <1>2, <1>3, <1>4, AmendLive DEF EngineInv
<1>6. LoopInv' /\ graph' \in Graphs
  <2>1. turn' \in [Nodes -> Nat] /\ \A n \in Nodes : turn'[n] <= reentries[n] + Once(n, visited')
    BY <1>1 DEF EngineInv, LoopInv
  <2> QED BY <1>1, <2>1, NoLoop
<1>7. SetInv'
  BY <1>1, <1>4, SameGraph DEF EngineInv, SetInv, joining
<1> QED BY <1>5, <1>6, <1>7 DEF Placed

(* A skip comes over a forward edge. *)
LEMMA SkipsForward ==
  ASSUME EngineInv, NEW t \in DOMAIN live, NEW n \in Nodes,
         NEW s \in SkipWalk(t[1], live[t].spare)[n]
  PROVE  <<s, n>> \in graph.forward
<1> DEFINE w == SkipWalk(t[1], live[t].spare)
<1>1. graph \in Graphs
  BY DEF EngineInv
<1>2. w[n] = Into(w, t[1], live[t].spare, n)
  BY <1>1, SkipWalkUnfolds
<1> HIDE DEF w
<1>3. s \in Into(w, t[1], live[t].spare, n)
  BY <1>2 DEF w
<1>4. (n \in live[t].spare /\ s = t[1]) \/ s \in Preds(n)
  BY <1>3 DEF Into
<1> QED BY <1>1, <1>4, Neighbours DEF EngineInv, LiveInv

LEMMA SkipBranchStep ==
  ASSUME EngineInv, NEW t \in DOMAIN live, SkipBranch(t)
  PROVE  Placed'
<1> DEFINE sources == SkipWalk(t[1], live[t].spare)
           reached == {n \in Nodes : sources[n] # {}}
           hits == UNION {{<<s, n>> : s \in sources[n]} : n \in reached \intersect Joins}
           through == {n \in reached : n \in Joins => Complete(skips', n)}
           ids == Unblocked(arrived', reached \ through, visited)
           a == [live[t] EXCEPT !.spare = {}]
           others == [live EXCEPT ![t] = a]
<1>1. /\ Quiet(t) /\ skips' = skips \union hits /\ arrived' = arrived \union hits
      /\ skipped' = skipped \union through
      /\ UNCHANGED looping /\ Enter(t, ids, visited, others)
  BY DEF SkipBranch
<1>2. graph \in Graphs /\ graph' = graph
  BY <1>1 DEF EngineInv, looping
<1>3. ids \in SUBSET Nodes /\ through \subseteq Nodes
  BY DEF Unblocked
<1>4. Fits(t, a) /\ a.at \in Waiting
  BY <1>1, DropsFit DEF Quiet, Waiting
<1>5. hits \subseteq JoinPairs
  <2>1. ASSUME NEW n \in reached \intersect Joins, NEW s \in sources[n]
        PROVE  <<s, n>> \in JoinPairs
    <3>1. <<s, n>> \in graph.forward
      BY <2>1, SkipsForward
    <3> QED BY <2>1, <3>1 DEF JoinPairs
  <2> HIDE DEF sources, reached
  <2> QED BY <2>1
<1> HIDE DEF sources, reached, hits, through, ids, a
<1>6. LiveInv'
  BY <1>1, <1>2, <1>3, <1>4, EnterLive DEF EngineInv, LoopInv
<1> HIDE DEF others
<1>7. LoopInv' /\ graph' \in Graphs
  <2>1. reentries \in [Nodes -> Nat] /\ turn \in [Nodes -> Nat]
        /\ \A n \in Nodes : turn[n] <= reentries[n] + Once(n, visited)
    BY DEF EngineInv, LoopInv
  <2>2. turn' \in [Nodes -> Nat] /\ \A n \in Nodes : turn'[n] <= reentries[n] + Once(n, visited')
    BY <1>1, <1>3, <2>1, EnterTurns
  <2> QED BY <1>1, <2>2, NoLoop
<1>8. SetInv'
  <2>1. visited \in SUBSET Nodes /\ visited \ (Bodies \union Of("collect")) \subseteq attempted
    BY DEF EngineInv, SetInv
  <2>2. /\ visited' \subseteq Nodes' /\ attempted' \subseteq Nodes'
        /\ (visited \ (Bodies \union Of("collect")) \subseteq attempted)'
    BY <1>1, <1>2, <1>3, <2>1, EnterSets DEF EngineInv, LoopInv
  <2> QED BY <1>1, <1>2, <1>3, <1>5, <2>2, SameGraph DEF EngineInv, SetInv
<1> QED BY <1>6, <1>7, <1>8 DEF Placed

LEMMA ActivationReturnsStep ==
  ASSUME EngineInv, NEW t \in DOMAIN live, ActivationReturns(t)
  PROVE  Placed'
<1>1. /\ UNCHANGED <<joining, looping>> /\ live' = Without(t) /\ turn' = turn
      /\ visited' = visited \union {} /\ attempted' = attempted \union {}
      /\ \A u \in DOMAIN live : live[u].parent # t
  BY DEF ActivationReturns, Return, Quiet
<1>2. {} \in SUBSET Nodes /\ {} \ (Bodies \union Of("collect")) = {}
  OBVIOUS
<1> QED BY <1>1, <1>2, ReturnStep

LEMMA PlacedStep ==
  ASSUME EngineInv, [Next]_vars
  PROVE  Placed'
<1>1. ASSUME NEW t \in DOMAIN live, StepEnds(t) PROVE Placed'
  <2>1. CASE StepSucceeds(t)
    <3>1. live[t].at = "step" /\ \E out \in Outputs(t[1]) : Succeed(t, out)
      BY <2>1 DEF StepSucceeds, Running
    <3> QED BY <3>1, SucceedStep
  <2>2. CASE StepReused(t)
    BY <2>2, SucceedStep DEF StepReused, Running
  <2>3. CASE DisabledPassed(t)
    <3>1. graph \in Graphs /\ t[1] \in Nodes
      BY ActivationFields DEF EngineInv
    <3>2. Continue(t, t[1], AllTargets(t[1]), {}, visited) /\ UNCHANGED <<skips, skipped, looping>>
      BY <2>3 DEF DisabledPassed
    <3> QED BY <3>1, <3>2, ContinueStep
  <2>4. CASE StepReturnsFailure(t)
    <3>1. live[t].at \notin Waiting
      BY <2>4 DEF StepReturnsFailure, Running, Waiting
    <3>2. \A u \in DOMAIN live : live[u].parent # t
      BY <3>1, NobodyWaits DEF EngineInv
    <3>3. /\ UNCHANGED <<joining, looping>> /\ live' = Without(t) /\ turn' = turn
          /\ visited' = visited \union {} /\ attempted' = attempted \union {}
      BY <2>4 DEF StepReturnsFailure, Return
    <3>4. {} \in SUBSET Nodes /\ {} \ (Bodies \union Of("collect")) = {}
      OBVIOUS
    <3> QED BY <3>2, <3>3, <3>4, ReturnStep
  <2>5. CASE StepThrows(t)
    BY <2>5, SignalStep DEF StepThrows
  <2>6. CASE CompletionRecovered(t)
    <3>1. PICK out \in Outputs(t[1]) :
            /\ IF t[1] \in Of("condition") THEN FollowCondition(t, out)
               ELSE Continue(t, t[1], AllTargets(t[1]), {}, visited)
            /\ UNCHANGED <<skips, skipped, looping>>
      BY <2>6 DEF CompletionRecovered
    <3>2. graph \in Graphs /\ t[1] \in Nodes
      BY ActivationFields DEF EngineInv
    <3>3. CASE t[1] \in Of("condition")
      BY <3>1, <3>3, FollowStep
    <3>4. CASE t[1] \notin Of("condition")
      BY <3>1, <3>2, <3>4, ContinueStep
    <3> QED BY <3>3, <3>4
  <2>7. CASE CompletionLost(t)
    BY <2>7, SignalStep DEF CompletionLost
  <2> QED BY <1>1, <2>1, <2>2, <2>3, <2>4, <2>5, <2>6, <2>7,
             IterationsSucceedStep, IterationsFailStep, IterationsThrowStep DEF StepEnds
<1>2. ASSUME NEW t \in DOMAIN live, GoesOn(t) PROVE Placed'
  BY <1>2, LoopBackStep, LoopRefusedStep, SkipBranchStep, ActivationReturnsStep DEF GoesOn
<1>3. ASSUME UNCHANGED <<traversal, joining, looping>> PROVE Placed'
  BY <1>3, Stays DEF Placed
<1>4. ASSUME NEW n \in Nodes, ClaimLapses(n) PROVE Placed'
  BY <1>3, <1>4 DEF ClaimLapses
<1>5. ASSUME NEW p \in late, LateCommit(p) PROVE Placed'
  BY <1>3, <1>5 DEF LateCommit
<1>6. CASE Finalize
  BY <1>3, <1>6 DEF Finalize
<1>7. CASE UNCHANGED vars
  BY <1>3, <1>7 DEF vars, traversal, joining, looping
<1> QED BY <1>1, <1>2, <1>4, <1>5, <1>6, <1>7 DEF Next

-----------------------------------------------------------------------------
(* The values, and the theorem.                                             *)

LEMMA OutputTypes == \A n : Outputs(n) \subseteq {"ok", "true", "false"}
BY DEF Outputs

LEMMA SameNodes ==
  ASSUME [Next]_vars
  PROVE  graph' = graph /\ Nodes' = Nodes
<1>1. ASSUME NEW t \in DOMAIN live, StepEnds(t) PROVE graph' = graph
  <2>1. CASE StepSucceeds(t) \/ StepReused(t)
    BY <2>1 DEF StepSucceeds, StepReused, Succeed, looping
  <2>2. CASE DisabledPassed(t) \/ StepReturnsFailure(t) \/ StepThrows(t)
    BY <2>2 DEF DisabledPassed, StepReturnsFailure, StepThrows, looping
  <2>3. CASE CompletionRecovered(t) \/ CompletionLost(t)
    BY <2>3 DEF CompletionRecovered, CompletionLost, looping
  <2>4. CASE IterationsSucceed(t) \/ IterationsFail(t) \/ IterationsThrow(t)
    BY <2>4 DEF IterationsSucceed, IterationsFail, IterationsThrow, looping
  <2> QED BY <1>1, <2>1, <2>2, <2>3, <2>4 DEF StepEnds
<1>2. ASSUME NEW t \in DOMAIN live, GoesOn(t) PROVE graph' = graph
  BY <1>2 DEF GoesOn, LoopBack, LoopRefused, SkipBranch, ActivationReturns, looping
<1>3. ASSUME NEW n \in Nodes, ClaimLapses(n) PROVE graph' = graph
  BY <1>3 DEF ClaimLapses, looping
<1>4. ASSUME NEW p \in late, LateCommit(p) PROVE graph' = graph
  BY <1>4 DEF LateCommit, looping
<1>5. ASSUME Finalize PROVE graph' = graph
  <2>1. UNCHANGED looping
    BY <1>5 DEF Finalize
  <2> QED BY <2>1 DEF looping
<1>6. ASSUME UNCHANGED vars PROVE graph' = graph
  BY <1>6 DEF vars
<1>7. graph' = graph
  BY <1>1, <1>2, <1>3, <1>4, <1>5, <1>6 DEF Next
<1> QED BY <1>7 DEF Nodes

LEMMA ValueStep ==
  ASSUME EngineInv, [Next]_vars
  PROVE  ValueInv'
<1>1. Nodes' = Nodes
  BY SameNodes
<1>2. /\ result \in [Nodes -> Results] /\ claimed \subseteq Nodes
      /\ recorded \in [Nodes -> {"none", "ok", "true", "false"}]
      /\ late \subseteq Nodes \X {"ok", "true", "false"}
      /\ logs \in [Nodes -> SUBSET {"success", "error"}]
      /\ <<verdict, row>> \in {<<"none", "running">>, <<"success", "success">>,
                               <<"error", "success">>, <<"error", "error">>}
  BY DEF EngineInv, ValueInv
<1>3. ASSUME NEW t \in DOMAIN live, StepEnds(t) PROVE ValueInv'
  <2>1. t[1] \in Nodes
    BY ActivationFields
  <2>2. UNCHANGED ended
    BY <1>3 DEF StepEnds, StepSucceeds, StepReused, DisabledPassed, StepReturnsFailure,
         StepThrows, CompletionRecovered, CompletionLost, IterationsSucceed, IterationsFail,
         IterationsThrow, Succeed
  <2>3. CASE StepSucceeds(t)
    <3>1. PICK out \in Outputs(t[1]) :
            /\ Record(t[1], out) /\ claimed' = claimed \union {t[1]} /\ late' = late
            /\ result' = Assign(result, t[1], "ok")
      BY <2>3 DEF StepSucceeds, Succeed
    <3> QED BY <1>1, <1>2, <2>1, <2>2, <3>1, OutputTypes
            DEF ValueInv, ended, Record, Assign, Results
  <2>4. CASE StepReused(t)
    <3>1. UNCHANGED storing /\ result' = Assign(result, t[1], "ok")
      BY <2>4 DEF StepReused, Succeed
    <3> QED BY <1>1, <1>2, <2>1, <2>2, <3>1 DEF ValueInv, ended, storing, Assign, Results
  <2>5. CASE DisabledPassed(t)
    BY <1>1, <1>2, <2>2, <2>5 DEF ValueInv, ended, storing, DisabledPassed
  <2>6. CASE StepReturnsFailure(t)
    BY <1>1, <1>2, <2>1, <2>2, <2>6 DEF ValueInv, ended, StepReturnsFailure, Assign, Results
  <2>7. CASE StepThrows(t)
    <3>1. PICK error \in {"failed", "retries"} :
            /\ logs' = Assign(logs, t[1], logs[t[1]] \union {"error"})
            /\ result' = Assign(result, t[1], error)
            /\ claimed' = claimed /\ recorded' = recorded /\ late' = late
      BY <2>7 DEF StepThrows
    <3> QED BY <1>1, <1>2, <2>1, <2>2, <3>1 DEF ValueInv, ended, Assign, Results
  <2>8. CASE CompletionRecovered(t)
    <3>1. PICK out \in Outputs(t[1]) :
            /\ Record(t[1], out) /\ claimed' = claimed \union {t[1]} /\ late' = late
            /\ result' = Assign(result, t[1], "ok")
      BY <2>8 DEF CompletionRecovered
    <3> QED BY <1>1, <1>2, <2>1, <2>2, <3>1, OutputTypes
            DEF ValueInv, ended, Record, Assign, Results
  <2>9. CASE CompletionLost(t)
    <3>1. PICK out \in Outputs(t[1]), landed \in BOOLEAN :
            /\ IF landed THEN Record(t[1], out) /\ UNCHANGED late
               ELSE late' = late \union {<<t[1], out>>} /\ UNCHANGED <<logs, recorded>>
            /\ claimed' = claimed \union (IF landed THEN {t[1]} ELSE {})
            /\ result' = Assign(result, t[1], "retries")
      BY <2>9 DEF CompletionLost
    <3>2. /\ result' \in [Nodes -> Results] /\ claimed' \subseteq Nodes
      BY <1>2, <2>1, <3>1 DEF Assign, Results
    <3>3. CASE landed
      BY <1>1, <1>2, <2>1, <2>2, <3>1, <3>2, <3>3, OutputTypes DEF ValueInv, ended, Record, Assign
    <3>4. CASE ~landed
      BY <1>1, <1>2, <2>1, <2>2, <3>1, <3>2, <3>4, OutputTypes DEF ValueInv, ended
    <3> QED BY <3>3, <3>4
  <2>10. CASE IterationsSucceed(t)
    <3> DEFINE sink == Aggregate(t[1])
    <3>1. /\ result' = [n \in Nodes |-> IF n \in sink THEN "ok" ELSE result[n]]
          /\ logs' = [n \in Nodes |-> IF n \in sink THEN logs[n] \union {"success"} ELSE logs[n]]
          /\ claimed' = claimed /\ recorded' = recorded /\ late' = late
      BY <2>10 DEF IterationsSucceed
    <3> HIDE DEF sink
    <3> QED BY <1>1, <1>2, <2>2, <3>1 DEF ValueInv, ended, Results
  <2>11. CASE IterationsFail(t)
    <3>1. PICK unfed :
            /\ result' = [n \in Nodes |-> IF n \in unfed \union {t[1]} THEN "failed" ELSE result[n]]
            /\ logs' = Assign(logs, t[1], {"error"})
            /\ claimed' = claimed /\ recorded' = recorded /\ late' = late
      BY <2>11 DEF IterationsFail
    <3> QED BY <1>1, <1>2, <2>1, <2>2, <3>1 DEF ValueInv, ended, Assign, Results
  <2>12. CASE IterationsThrow(t)
    <3>1. PICK error \in {"failed", "retries", "ok"}, said \in SUBSET {"success", "error"},
               own \in {logs[t[1]], logs[t[1]] \union {"error"}, {"error"}},
               sunk \in {{}, Aggregate(t[1])} :
            /\ logs' = Rowed(t[1], own, sunk, said)
            /\ result' = Assign(result, t[1], error)
            /\ claimed' = claimed /\ recorded' = recorded /\ late' = late
      BY <2>12 DEF IterationsThrow
    <3>2. own \in SUBSET {"success", "error"}
      BY <1>2, <2>1
    <3>3. logs' \in [Nodes -> SUBSET {"success", "error"}]
      BY <1>2, <3>1, <3>2 DEF Rowed
    <3>4. result' \in [Nodes -> Results]
      BY <1>2, <2>1, <3>1 DEF Assign, Results
    <3> QED BY <1>1, <1>2, <2>2, <3>1, <3>3, <3>4 DEF ValueInv, ended
  <2> QED BY <1>3, <2>3, <2>4, <2>5, <2>6, <2>7, <2>8, <2>9, <2>10, <2>11, <2>12 DEF StepEnds
<1>4. ASSUME NEW t \in DOMAIN live, GoesOn(t) PROVE ValueInv'
  <2>1. t[1] \in Nodes
    BY ActivationFields
  <2>2. CASE LoopBack(t)
    BY <1>1, <1>2, <2>2 DEF LoopBack, ValueInv, storing, ended
  <2>3. CASE LoopRefused(t)
    BY <1>1, <1>2, <2>3 DEF LoopRefused, ValueInv, storing, ended, Assign, Results
  <2>4. CASE SkipBranch(t)
    BY <1>1, <1>2, <2>4 DEF SkipBranch, ValueInv, storing, ended
  <2>5. CASE ActivationReturns(t)
    BY <1>1, <1>2, <2>1, <2>5 DEF ActivationReturns, ValueInv, storing, ended, Assign, Results
  <2> QED BY <1>4, <2>2, <2>3, <2>4, <2>5 DEF GoesOn
<1>5. ASSUME NEW n \in Nodes, ClaimLapses(n) PROVE ValueInv'
  BY <1>1, <1>2, <1>5 DEF ClaimLapses, ValueInv, ended
<1>6. ASSUME NEW p \in late, LateCommit(p) PROVE ValueInv'
  <2>1. p[1] \in Nodes /\ p[2] \in {"ok", "true", "false"}
    BY <1>2
  <2> QED BY <1>1, <1>2, <1>6, <2>1 DEF LateCommit, ValueInv, ended, Record, Assign
<1>7. CASE Finalize
  <2>1. PICK found \in SUBSET Recoverable :
          LET orphans == Orphans(Reconciled(found))
              results == [n \in Nodes |-> IF n \in orphans THEN "orphan" ELSE Reconciled(found)[n]]
              good == \A n \in Nodes \ skipped : Fine(results[n])
          IN  /\ result' = results
              /\ verdict' = IF good THEN "success" ELSE "error"
              /\ \/ row' = "success"
                 \/ row' = "error" /\ ~good
              /\ UNCHANGED storing
    BY <1>7 DEF Finalize
  <2>2. \A n \in Nodes : Reconciled(found)[n] \in Results
    BY <1>2 DEF Reconciled, Results
  <2>3. result' \in [Nodes -> Results]
    BY <2>1, <2>2 DEF Results
  <2>4. <<verdict', row'>> \in {<<"none", "running">>, <<"success", "success">>,
                                <<"error", "success">>, <<"error", "error">>}
    BY <2>1
  <2> QED BY <1>1, <1>2, <2>1, <2>3, <2>4 DEF ValueInv, storing
<1>8. CASE UNCHANGED vars
  BY <1>1, <1>2, <1>8 DEF ValueInv, vars
<1> QED BY <1>3, <1>4, <1>5, <1>6, <1>7, <1>8 DEF Next

LEMMA EngineInitially == Init => EngineInv
<1> SUFFICES ASSUME Init PROVE EngineInv
  OBVIOUS
<1>1. graph \in Graphs /\ Trigger \in Nodes /\ None \notin Keys
  BY GraphFacts DEF Init, Keys
<1>2. DOMAIN live = {<<Trigger, 1>>} /\ live[<<Trigger, 1>>] = Fresh(None)
      /\ live = [t \in {<<Trigger, 1>>} |-> Fresh(None)]
  BY DEF Init
<1>3. /\ Fresh(None) \in Activations /\ Fresh(None).parent = None /\ Fresh(None).loops = {}
      /\ Fresh(None).spare = {} /\ Fresh(None).at = "step"
  BY DEF Fresh, Activations
<1>4. turn \in [Nodes -> Nat] /\ turn[Trigger] = 1
  BY <1>1 DEF Init
<1>5. LiveInv
  <2>1. <<Trigger, 1>> \in Keys
    BY <1>1 DEF Keys
  <2>2. live \in [DOMAIN live -> Activations]
    BY <1>2, <1>3
  <2>3. ASSUME NEW t \in DOMAIN live
        PROVE  /\ t[1] \in attempted /\ 1 <= t[2] /\ t[2] <= turn[t[1]]
               /\ live[t] = Fresh(None)
    BY <1>2, <1>4 DEF Init
  <2> QED BY <1>2, <1>3, <2>1, <2>2, <2>3 DEF LiveInv
<1>6. LoopInv
  <2>1. passes = [e \in graph.back |-> 0] /\ passes \in [graph.back -> Nat]
    BY DEF Init
  <2>2. graph.back \in FiniteSubsetsOf(graph.back)
    BY <1>1, GraphFacts DEF FiniteSubsetsOf
  <2>3. Total(passes, graph.back) = Total(passes, {})
    <3>1. {} \in FiniteSubsetsOf(graph.back)
      BY <2>2, Smaller
    <3>2. /\ Total(passes, graph.back) <= Total(passes, {})
          /\ Total(passes, graph.back) \in Nat /\ Total(passes, {}) = 0
      BY <2>1, <2>2, <3>1, TotalMonotone, TotalType, TotalEmpty
    <3> QED BY <3>2
  <2>4. Traversals = 0
    BY <2>1, <2>3, TotalEmpty, TraversalsTotal
  <2>5. \A n \in Nodes : turn[n] <= reentries[n] + Once(n, visited)
    BY DEF Init, Once
  <2>6. reentries = [n \in Nodes |-> 0]
    BY DEF Init
  <2> QED BY <1>4, <2>1, <2>4, <2>5, <2>6, EngineAssumption DEF LoopInv
<1>7. SetInv
  BY <1>1 DEF Init, SetInv
<1>8. ValueInv
  BY DEF Init, ValueInv, Results
<1> QED BY <1>1, <1>5, <1>6, <1>7, <1>8 DEF EngineInv

LEMMA EngineInvariant == Spec => []EngineInv
<1>1. EngineInv /\ [Next]_vars => EngineInv'
  BY PlacedStep, ValueStep DEF EngineInv, Placed
<1> QED BY EngineInitially, <1>1, PTL DEF Spec

(* Every variable keeps its type; a skip is an arrival, and arrivals are at *)
(* joins; every activation waits for one that is live; no back edge is      *)
(* traversed more often than MAX_LOOP_ITERATIONS, nor all of them together  *)
(* more often than MAX_LOOP_TRAVERSALS_PER_EXECUTION (loop-back.ts), so that *)
(* no node runs more often than that and once.                              *)
THEOREM EngineTypes == Spec => []TypeOK
BY EngineInvariant, EngineInvTypes, PTL

-----------------------------------------------------------------------------
(* What is recorded of a node is an output of its.                          *)

RecordInv ==
  /\ \A n \in Nodes : recorded[n] \in Outputs(n) \union {"none"}
  /\ \A n \in claimed : recorded[n] # "none"
  /\ \A p \in late : p[2] \in Outputs(p[1])

LEMMA RecordStep ==
  ASSUME EngineInv, RecordInv, [Next]_vars
  PROVE  RecordInv'
<1>1. graph' = graph /\ Nodes' = Nodes
  BY SameNodes
<1>2. \A n : Outputs(n)' = Outputs(n)
  BY <1>1, SameGraph DEF Outputs
<1>3. /\ claimed \subseteq Nodes /\ recorded \in [Nodes -> {"none", "ok", "true", "false"}]
      /\ late \subseteq Nodes \X {"ok", "true", "false"}
  BY DEF EngineInv, ValueInv
<1>4. \A n \in Nodes : "none" \notin Outputs(n)
  BY DEF Outputs
<1>5. ASSUME NEW n \in Nodes, NEW out \in Outputs(n), recorded' = Assign(recorded, n, out),
             claimed' \subseteq claimed \union {n}, late' \subseteq late
      PROVE  RecordInv'
  BY <1>1, <1>2, <1>3, <1>4, <1>5 DEF RecordInv, Assign
<1>6. ASSUME NEW n \in Nodes, NEW out \in Outputs(n), recorded' = recorded,
             claimed' \subseteq claimed, late' \subseteq late \union {<<n, out>>}
      PROVE  RecordInv'
  BY <1>1, <1>2, <1>3, <1>6 DEF RecordInv
<1>7. ASSUME recorded' = recorded, claimed' \subseteq claimed, late' \subseteq late PROVE RecordInv'
  BY <1>1, <1>2, <1>3, <1>7 DEF RecordInv
<1>8. ASSUME NEW t \in DOMAIN live, StepEnds(t) PROVE RecordInv'
  <2>1. t[1] \in Nodes
    BY ActivationFields
  <2>2. CASE StepSucceeds(t) \/ CompletionRecovered(t)
    <3>1. \E out \in Outputs(t[1]) :
            recorded' = Assign(recorded, t[1], out) /\ claimed' = claimed \union {t[1]} /\ late' = late
      BY <2>2 DEF StepSucceeds, CompletionRecovered, Record
    <3> QED BY <1>5, <2>1, <3>1
  <2>3. CASE StepReused(t) \/ DisabledPassed(t) \/ StepReturnsFailure(t) \/ StepThrows(t)
             \/ IterationsSucceed(t) \/ IterationsFail(t) \/ IterationsThrow(t)
    <3>1. recorded' = recorded /\ claimed' = claimed /\ late' = late
      BY <2>3 DEF StepReused, DisabledPassed, StepReturnsFailure, StepThrows,
                  IterationsSucceed, IterationsFail, IterationsThrow, storing
    <3> QED BY <1>7, <3>1
  <2>4. CASE CompletionLost(t)
    <3>1. PICK out \in Outputs(t[1]), landed \in BOOLEAN :
            /\ IF landed THEN Record(t[1], out) /\ UNCHANGED late
               ELSE late' = late \union {<<t[1], out>>} /\ UNCHANGED <<logs, recorded>>
            /\ claimed' = claimed \union (IF landed THEN {t[1]} ELSE {})
      BY <2>4 DEF CompletionLost
    <3> QED BY <1>5, <1>6, <2>1, <3>1 DEF Record
  <2> QED BY <1>8, <2>2, <2>3, <2>4 DEF StepEnds
<1>9. ASSUME NEW t \in DOMAIN live, GoesOn(t) PROVE RecordInv'
  <2>1. recorded' = recorded /\ claimed' = claimed /\ late' = late
    BY <1>9 DEF GoesOn, LoopBack, LoopRefused, SkipBranch, ActivationReturns, storing
  <2> QED BY <1>7, <2>1
<1>10. ASSUME NEW n \in Nodes, ClaimLapses(n) PROVE RecordInv'
  BY <1>7, <1>10 DEF ClaimLapses
<1>11. ASSUME NEW p \in late, LateCommit(p) PROVE RecordInv'
  <2>1. p[1] \in Nodes /\ p[2] \in Outputs(p[1])
    BY <1>3 DEF RecordInv
  <2> QED BY <1>5, <1>11, <2>1 DEF LateCommit, Record
<1>12. CASE Finalize
  <2>1. UNCHANGED storing
    BY <1>12 DEF Finalize
  <2> QED BY <1>7, <2>1 DEF storing
<1>13. CASE UNCHANGED vars
  BY <1>7, <1>13 DEF vars
<1> QED BY <1>8, <1>9, <1>10, <1>11, <1>12, <1>13 DEF Next

-----------------------------------------------------------------------------
(* What a pass knows of itself.                                             *)

Runs(t) == live[t].at \notin Waiting

(* The conditions, as d has them, lead from n to m, or chose against it. *)
Leads(n, m, d) == \E e \in graph.edges : e[1] = n /\ e[3] = m /\ Decided(e, d)
Opposite(d) == IF d = "true" THEN "false" ELSE "true"
Against(n, m, d) == d[n] # "none" /\ m \in Targets(n, {Opposite(d[n])})
Dead(p, n, d) == p \in skipped \/ Against(p, n, d)

Decisions ==
  /\ decision \in [Nodes -> {"none", "true", "false"}]
  /\ \A n \in Nodes \ Of("condition") : decision[n] = "none"

(* No activation has seen a re-entry to come. *)
SeenInv == \A t \in DOMAIN live : live[t].seen <= reentries[t[1]]

(* What runs, or has not been outrun, is its node's newest activation, and *)
(* the node counts as entered in this pass.                                 *)
CurrentInv ==
  \A t \in DOMAIN live : Runs(t) \/ ~Outrun(t) => t[2] = turn[t[1]] /\ t[1] \in visited

(* A condition has decided nothing before its step ends. *)
UndecidedInv ==
  /\ \A n \in Nodes \ visited : decision[n] = "none"
  /\ \A t \in DOMAIN live : Runs(t) => decision[t[1]] = "none"

(* What has arrived was skipped, or is done with its step. *)
ArrivedInv ==
  \A p \in arrived :
    \/ p[1] \in skipped
    \/ /\ p[1] \in visited
       /\ p[1] \in Of("collect") \/ \A t \in DOMAIN live : t[1] = p[1] => ~Runs(t)

(* What arrived other than as a skip came over an edge that was chosen. *)
RealInv == \A p \in arrived \ skips : p[1] \in visited /\ Leads(p[1], p[2], decision)

(* An activation that has not been outrun still has what it chose before it. *)
PendingInv ==
  \A t \in DOMAIN live :
    /\ live[t].loops # {} => live[t].from \in {t[1]} \union Of("collect")
    /\ ~Outrun(t) => /\ \A m \in live[t].loops : Leads(live[t].from, m, decision)
                     /\ \A m \in live[t].spare : Against(t[1], m, decision)

(* A skip comes from what was skipped or chose otherwise, and what was      *)
(* skipped has no other way in.                                             *)
DeadInv ==
  /\ \A p \in skips : Dead(p[1], p[2], decision)
  /\ \A n \in skipped : \A p \in Preds(n) : Dead(p, n, decision)

OnePass == CurrentInv /\ UndecidedInv /\ ArrivedInv /\ RealInv /\ PendingInv /\ DeadInv
PassInv == SeenInv /\ Decisions /\ (~overlapped => OnePass)

LEMMA SameChoices ==
  ASSUME graph' = graph
  PROVE  /\ \A n, m : Leads(n, m, decision)' <=> Leads(n, m, decision')
         /\ \A n, m : Against(n, m, decision)' <=> Against(n, m, decision')
         /\ \A n, m : Dead(n, m, decision)' <=> n \in skipped' \/ Against(n, m, decision')
         /\ \A n : Preds(n)' = Preds(n)
         /\ \A arrivals, n : Complete(arrivals, n)' <=> Complete(arrivals', n)
<1>1. Of("condition")' = Of("condition")
  BY SameGraph
<1>2. \A n : Preds(n)' = Preds(n)
  BY DEF Preds
<1> QED BY <1>1, <1>2 DEF Leads, Decided, HasHandles, Against, Targets, Dead, Complete

(* What a node leads to depends on what it decided, if it is a condition. *)
LEMMA ChoiceIsOwn ==
  ASSUME graph \in Graphs, NEW d, NEW e, NEW n, d[n] = e[n]
  PROVE  /\ \A m : Leads(n, m, d) <=> Leads(n, m, e)
         /\ \A m : Against(n, m, d) <=> Against(n, m, e)
BY DEF Leads, Decided, Against

LEMMA NoChoice ==
  ASSUME graph \in Graphs, NEW n, n \notin Of("condition"), NEW d
  PROVE  \A m \in AllTargets(n) : Leads(n, m, d)
BY DEF Leads, Decided, AllTargets

LEMMA UndecidedLeadsNowhere ==
  ASSUME graph \in Graphs, NEW n \in Of("condition"), NEW d, d[n] = "none"
  PROVE  \A m : ~Leads(n, m, d) /\ ~Against(n, m, d)
<1>1. \A e \in graph.edges : e[2] # "none"
  BY GraphFacts
<1> QED BY <1>1 DEF Leads, Decided, Against

-----------------------------------------------------------------------------
(* The shapes a step can have, as far as the pass is concerned.             *)

(* t has become a, and the nodes of `new` have been entered for it, those of *)
(* `before` staying visited.                                                *)
Grown(t, a, before, new) ==
  /\ visited' = before \union new /\ attempted' = attempted \union new
  /\ turn' \in [Nodes -> Nat]
  /\ \A n \in Nodes : turn'[n] = IF n \in new THEN turn[n] + 1 ELSE turn[n]
  /\ DOMAIN live' = DOMAIN live \union Started(new)
  /\ \A u \in DOMAIN live : u \notin Started(new) /\ live'[u] = IF u = t THEN a ELSE live[u]
  /\ \A u \in Started(new) :
       /\ u[1] \in new /\ u[2] = turn[u[1]] + 1
       /\ live'[u].at = "step" /\ live'[u].seen = 0 /\ live'[u].parent = t
       /\ live'[u].loops = {} /\ live'[u].spare = {}

Amended(t, a) == [live EXCEPT ![t] = a]

LEMMA EnterGrows ==
  ASSUME EngineInv, NEW t \in DOMAIN live, NEW a, NEW ids \in SUBSET Nodes, NEW before,
         NEW others, others = Amended(t, a), Enter(t, ids, before, others)
  PROVE  Grown(t, a, before, ids \ before)
<1> DEFINE new == ids \ before
           begun == Started(new)
<1>1. turn \in [Nodes -> Nat] /\ LiveInv
  BY DEF EngineInv, LoopInv
<1>2. /\ visited' = before \union new /\ attempted' = attempted \union new
      /\ turn' \in [Nodes -> Nat]
      /\ \A n \in Nodes : turn'[n] = IF n \in new THEN turn[n] + 1 ELSE turn[n]
      /\ DOMAIN live' = begun \union DOMAIN others
      /\ \A u \in DOMAIN live' : live'[u] = IF u \in begun THEN Fresh(t) ELSE others[u]
  <2>1. Entering(t, new, before, others)
    BY <1>1, EnterEffect
  <2> HIDE DEF new
  <2> QED BY <2>1 DEF Entering
<1>3. DOMAIN others = DOMAIN live /\ \A u \in DOMAIN live : others[u] = IF u = t THEN a ELSE live[u]
  BY <1>1 DEF LiveInv, Amended
<1>4. new \subseteq Nodes
  OBVIOUS
<1> HIDE DEF new
<1>5. \A u \in begun : u[1] \in new /\ u[2] = turn[u[1]] + 1
  BY <1>4 DEF Started
<1> HIDE DEF begun
<1>6. \A u \in DOMAIN live : u \notin begun
  <2> SUFFICES ASSUME NEW u \in DOMAIN live, u \in begun PROVE FALSE
    OBVIOUS
  <2>1. u[1] \in Nodes /\ u[2] \in Nat /\ u[2] <= turn[u[1]] /\ turn[u[1]] \in Nat
    BY <1>1 DEF LiveInv, Keys
  <2> QED BY <1>5, <2>1
<1>7. \A u \in begun : live'[u] = Fresh(t)
  BY <1>2
<1>8. \A u \in begun :
        /\ live'[u].at = "step" /\ live'[u].seen = 0 /\ live'[u].parent = t
        /\ live'[u].loops = {} /\ live'[u].spare = {}
  BY <1>7 DEF Fresh
<1>9. \A u \in DOMAIN live : live'[u] = IF u = t THEN a ELSE live[u]
  BY <1>2, <1>3, <1>6
<1>10. Grown(t, a, before, new)
  BY <1>2, <1>3, <1>5, <1>6, <1>8, <1>9 DEF Grown, begun
<1> QED BY <1>10 DEF new

Failed == {"failed", "retries", "capped", "orphan", "reconciled"}

(* The step or the iterations of t are over: it becomes a, which waits, its *)
(* result arrives at what is before `from`, and nodes there are entered.    *)
Moved(t, from, forward, marked, new, a) ==
  /\ Runs(t)
  /\ from = t[1] \/ (from \in Of("collect") /\ from \in marked)
  /\ \A n \in forward : <<from, n>> \in graph.forward
  /\ marked # {} => t[1] \in Of("foreach")
  /\ marked \subseteq BodyOf(t[1]) \union InnerCollect(t[1]) \union Aggregate(t[1])
  /\ a.at \in Waiting /\ a.from = from /\ a.seen = reentries[t[1]]
  /\ a.at = "iterated" => live[t].at = "iterating"
  /\ Grown(t, a, visited \union marked, new)
  /\ new \subseteq forward \ (visited \union marked)
  /\ arrived' = arrived \union Arriving(from, forward)
  /\ \A n \in forward \intersect Joins :
       IF Complete(arrived', n) THEN n \in visited \union marked \union new ELSE n \notin new
  /\ UNCHANGED <<skips, skipped, looping>>

(* What it decides, if it is a condition, is what it goes by. *)
Chose(t, from, forward, a) ==
  /\ \A n \in Nodes : n = t[1] \/ decision'[n] = decision[n]
  /\ \A n \in forward \union a.loops : Leads(from, n, decision')
  /\ \A n \in a.spare : Against(t[1], n, decision')

(* It failed, and joins are told unless it is a condition; or it is told of  *)
(* wherever it leads, and what a condition chose against is to be skipped.   *)
Told(t, forward, a) ==
  \/ t[1] \in Of("foreach")
  \/ /\ result'[t[1]] \in Failed /\ decision' = decision
     /\ t[1] \notin Of("condition") => ForwardFrom(t[1]) \intersect Joins \subseteq forward
  \/ /\ t[1] \in Of("condition") => decision'[t[1]] # "none"
     /\ \A n \in ForwardFrom(t[1]) :
          /\ Leads(t[1], n, decision') => n \in forward /\ (n \in Joins \/ n \in visited')
          /\ Against(t[1], n, decision') => n \in a.spare

Moves(t) ==
  \E from \in Nodes, forward \in SUBSET Nodes, marked \in SUBSET Nodes,
     new \in SUBSET Nodes, a \in Activations :
    Moved(t, from, forward, marked, new, a) /\ Chose(t, from, forward, a) /\ Told(t, forward, a)

(* The like of Onwards: how executeReadyDownstream moves the traversal. *)
LEMMA EnterMoves ==
  ASSUME EngineInv, UNCHANGED <<skips, skipped, looping>>,
         NEW t \in DOMAIN live, Runs(t), NEW a \in Activations, a.at = "await",
         NEW from \in Nodes, a.from = from, a.seen = reentries[t[1]],
         NEW forward, \A n \in forward : <<from, n>> \in graph.forward,
         NEW marked \in SUBSET Nodes, marked # {} => t[1] \in Of("foreach"),
         marked \subseteq BodyOf(t[1]) \union InnerCollect(t[1]) \union Aggregate(t[1]),
         from = t[1] \/ (from \in Of("collect") /\ from \in marked),
         arrived' = arrived \union Arriving(from, forward),
         NEW ids \in SUBSET forward,
         ids \intersect Joins = Unblocked(arrived', forward, visited \union marked),
         Enter(t, ids, visited \union marked, Amended(t, a))
  PROVE  /\ forward \subseteq Nodes /\ ids \subseteq Nodes
         /\ Moved(t, from, forward, marked, ids \ (visited \union marked), a)
<1> DEFINE before == visited \union marked
           new == ids \ before
<1>1. graph \in Graphs
  BY DEF EngineInv
<1>2. forward \subseteq Nodes
  <2>1. ASSUME NEW n \in forward PROVE n \in Nodes
    <3>1. <<from, n>> \in Nodes \X Nodes
      BY <1>1, GraphFacts
    <3> QED BY <3>1
  <2> QED BY <2>1
<1>3. ids \in SUBSET Nodes
  BY <1>2
<1>4. Grown(t, a, before, new)
  <2> DEFINE others == Amended(t, a)
  <2>1. Enter(t, ids, before, others) /\ others = Amended(t, a)
    OBVIOUS
  <2> HIDE DEF before, others
  <2> QED BY <1>3, <2>1, EnterGrows
<1>5. \A n \in forward \intersect Joins :
        IF Complete(arrived', n) THEN n \in visited \union marked \union new ELSE n \notin new
  BY DEF Unblocked
<1>6. a.at \in Waiting
  BY DEF Waiting
<1> QED BY <1>2, <1>3, <1>4, <1>5, <1>6 DEF Moved

LEMMA AwaitsFields ==
  ASSUME EngineInv, NEW t \in DOMAIN live, NEW from \in Nodes,
         NEW loops \in SUBSET Nodes, NEW spare \in SUBSET Nodes
  PROVE  /\ Awaits(t, from, loops, spare) \in Activations
         /\ Awaits(t, from, loops, spare).at = "await"
         /\ Awaits(t, from, loops, spare).from = from
         /\ Awaits(t, from, loops, spare).loops = loops
         /\ Awaits(t, from, loops, spare).spare = spare
         /\ Awaits(t, from, loops, spare).seen = reentries[t[1]]
         /\ Awaiting(t, from, loops, spare) = Amended(t, Awaits(t, from, loops, spare))
<1>1. live[t] \in Activations /\ reentries[t[1]] \in Nat
  BY ActivationFields
<1>2. Awaiting(t, from, loops, spare) = Amended(t, Awaits(t, from, loops, spare))
  BY DEF Awaiting, Awaits, Amended
<1> QED BY <1>1, <1>2 DEF Awaits, Activations, Waiting

LEMMA ContinueMoves ==
  ASSUME EngineInv, UNCHANGED <<skips, skipped, looping>>, NEW t \in DOMAIN live, Runs(t),
         NEW targets, targets \subseteq AllTargets(t[1]), NEW spare \in SUBSET Nodes,
         Continue(t, t[1], targets, spare, visited),
         \A n \in Nodes : n = t[1] \/ decision'[n] = decision[n],
         \A n \in targets : Leads(t[1], n, decision'),
         \A n \in spare : Against(t[1], n, decision'),
         t[1] \in Of("condition") => decision'[t[1]] # "none",
         \A n \in ForwardFrom(t[1]) : /\ Leads(t[1], n, decision') => n \in targets
                                      /\ Against(t[1], n, decision') => n \in spare
  PROVE  Moves(t)
<1> DEFINE from == t[1]
           forward == {n \in targets : <<from, n>> \notin graph.back}
           loops == targets \ forward
           a == Awaits(t, from, loops, spare)
           others == Awaiting(t, from, loops, spare)
           ids == (forward \ Joins) \union Unblocked(arrived', forward, visited)
           new == ids \ (visited \union {})
<1>1. graph \in Graphs /\ from \in Nodes
  BY ActivationFields DEF EngineInv
<1>2. targets \subseteq Nodes /\ \A n \in forward : <<from, n>> \in graph.forward
  BY <1>1, Neighbours
<1>3. loops \in SUBSET Nodes
  BY <1>2
<1>4. ids \in SUBSET forward /\ ids \intersect Joins = Unblocked(arrived', forward, visited \union {})
  BY DEF Unblocked
<1>5. arrived' = arrived \union Arriving(from, forward)
  BY DEF Continue
<1>6. Enter(t, ids, visited, others)
  BY DEF Continue
<1>7. /\ a \in Activations /\ a.at = "await" /\ a.from = from /\ a.loops = loops
      /\ a.spare = spare /\ a.seen = reentries[t[1]] /\ others = Amended(t, a)
  <2> HIDE DEF from, forward, loops
  <2> QED BY <1>1, <1>3, AwaitsFields
<1>8. \A n \in forward \union loops : n \in targets
  OBVIOUS
<1>9. \A n \in ForwardFrom(from) : /\ Leads(from, n, decision') => n \in targets
                                   /\ Against(from, n, decision') => n \in spare
  OBVIOUS
<1>10. \A n \in ForwardFrom(from) : n \in targets => n \in forward
  <2>1. \A n \in ForwardFrom(from) : <<from, n>> \in graph.forward
    BY <1>1, Neighbours
  <2> QED BY <1>1, <2>1, GraphFacts
<1>11. forward \ Joins \subseteq ids
  OBVIOUS
<1> HIDE DEF from, forward, loops, a, others, ids
<1>12. Enter(t, ids, visited \union {}, Amended(t, a))
  <2>1. visited \union {} = visited
    OBVIOUS
  <2> QED BY <1>6, <1>7, <2>1
<1>13. /\ forward \subseteq Nodes /\ ids \subseteq Nodes
       /\ Moved(t, from, forward, {}, new, a)
  <2>1. a.at = "await"
    BY <1>7
  <2>2. from = t[1]
    BY DEF from
  <2> DEFINE none == {}
  <2>3. /\ none \in SUBSET Nodes /\ (none # {} => t[1] \in Of("foreach"))
        /\ none \subseteq BodyOf(t[1]) \union InnerCollect(t[1]) \union Aggregate(t[1])
    OBVIOUS
  <2>4. /\ Enter(t, ids, visited \union none, Amended(t, a))
        /\ ids \intersect Joins = Unblocked(arrived', forward, visited \union none)
        /\ new = ids \ (visited \union none)
    BY <1>4, <1>12
  <2> HIDE DEF none, new
  <2>5. Moved(t, from, forward, none, new, a) /\ forward \subseteq Nodes /\ ids \subseteq Nodes
    BY <1>1, <1>2, <1>4, <1>5, <1>7, <2>1, <2>2, <2>3, <2>4, EnterMoves
  <2> QED BY <2>5 DEF none
<1>14. Chose(t, from, forward, a)
  BY <1>7, <1>8 DEF Chose, from
<1>15. Told(t, forward, a)
  <2>1. visited' = visited \union {} \union new
    BY <1>13 DEF Moved, Grown
  <2>2. \A n \in ForwardFrom(from) :
          /\ Leads(from, n, decision') => n \in forward /\ (n \in Joins \/ n \in visited')
          /\ Against(from, n, decision') => n \in a.spare
    BY <1>7, <1>9, <1>10, <1>11, <2>1
  <2> QED BY <2>2 DEF Told, from
<1>16. new \in SUBSET Nodes /\ {} \in SUBSET Nodes
  BY <1>13
<1> QED BY <1>1, <1>7, <1>13, <1>14, <1>15, <1>16 DEF Moves

LEMMA SignalMoves ==
  ASSUME EngineInv, UNCHANGED <<skips, skipped, looping, decision>>, NEW t \in DOMAIN live, Runs(t),
         SignalFailure(t), result'[t[1]] \in Failed
  PROVE  Moves(t)
<1> DEFINE from == t[1]
           forward == IF from \in Of("condition") THEN {} ELSE ForwardFrom(from)
           a == Awaits(t, from, {}, {})
           others == Awaiting(t, from, {}, {})
           ids == Unblocked(arrived', forward, visited)
           new == ids \ (visited \union {})
<1>1. graph \in Graphs /\ from \in Nodes
  BY ActivationFields DEF EngineInv
<1>2. \A n \in forward : <<from, n>> \in graph.forward
  BY <1>1, Neighbours
<1>3. ids \in SUBSET forward /\ ids \intersect Joins = Unblocked(arrived', forward, visited \union {})
  BY DEF Unblocked
<1>4. arrived' = arrived \union Arriving(from, forward)
  BY DEF SignalFailure
<1>5. Enter(t, ids, visited, others)
  BY DEF SignalFailure
<1>6. /\ a \in Activations /\ a.at = "await" /\ a.from = from /\ a.loops = {}
      /\ a.spare = {} /\ a.seen = reentries[t[1]] /\ others = Amended(t, a)
  BY <1>1, AwaitsFields
<1>7. \A n \in forward : Leads(from, n, decision')
  <2>1. ForwardFrom(from) \subseteq AllTargets(from)
    BY <1>1, Neighbours
  <2> HIDE DEF from
  <2>2. from \notin Of("condition") => \A n \in AllTargets(from) : Leads(from, n, decision')
    BY <1>1, NoChoice
  <2> QED BY <2>1, <2>2
<1> HIDE DEF from, forward, a, others, ids
<1>8. Enter(t, ids, visited \union {}, Amended(t, a))
  <2>1. visited \union {} = visited
    OBVIOUS
  <2> QED BY <1>5, <1>6, <2>1
<1>9. /\ forward \subseteq Nodes /\ ids \subseteq Nodes
      /\ Moved(t, from, forward, {}, new, a)
  <2>1. a.at = "await"
    BY <1>6
  <2>2. from = t[1]
    BY DEF from
  <2> DEFINE none == {}
  <2>3. /\ none \in SUBSET Nodes /\ (none # {} => t[1] \in Of("foreach"))
        /\ none \subseteq BodyOf(t[1]) \union InnerCollect(t[1]) \union Aggregate(t[1])
    OBVIOUS
  <2>4. /\ Enter(t, ids, visited \union none, Amended(t, a))
        /\ ids \intersect Joins = Unblocked(arrived', forward, visited \union none)
        /\ new = ids \ (visited \union none)
    BY <1>3, <1>8
  <2> HIDE DEF none, new
  <2>5. Moved(t, from, forward, none, new, a) /\ forward \subseteq Nodes /\ ids \subseteq Nodes
    BY <1>1, <1>2, <1>3, <1>4, <1>6, <2>1, <2>2, <2>3, <2>4, EnterMoves
  <2> QED BY <2>5 DEF none
<1>10. Chose(t, from, forward, a)
  BY <1>6, <1>7 DEF Chose, from
<1>11. Told(t, forward, a)
  BY DEF Told, forward, from
<1>12. new \in SUBSET Nodes /\ {} \in SUBSET Nodes
  BY <1>9
<1> QED BY <1>1, <1>6, <1>9, <1>10, <1>11, <1>12 DEF Moves

LEMMA FollowMoves ==
  ASSUME EngineInv, Decisions, UNCHANGED <<skips, skipped, looping>>, NEW t \in DOMAIN live, Runs(t),
         t[1] \in Of("condition"), NEW d \in {"true", "false"}, FollowCondition(t, d)
  PROVE  Moves(t)
<1> DEFINE n == t[1]
           other == IF d = "true" THEN "false" ELSE "true"
           taken == IF HasHandles(n) THEN Targets(n, {d})
                    ELSE IF d = "true" THEN AllTargets(n) ELSE {}
           spare == {m \in Targets(n, {other}) : <<n, m>> \notin graph.back}
<1>1. graph \in Graphs /\ n \in Nodes
  BY ActivationFields DEF EngineInv
<1>2. taken \subseteq AllTargets(n) /\ spare \in SUBSET Nodes
  BY <1>1, Neighbours
<1>3. Continue(t, n, taken, spare, visited)
  BY DEF FollowCondition
<1>4. decision'[n] = d /\ \A m \in Nodes : m = n \/ decision'[m] = decision[m]
  BY <1>1 DEF FollowCondition, Assign, Decisions
<1>5. ASSUME NEW m \in taken PROVE Leads(n, m, decision')
  <2>1. CASE HasHandles(n)
    <3>1. PICK e \in graph.edges : e[1] = n /\ e[2] = d /\ e[3] = m
      BY <1>5, <2>1 DEF Targets
    <3>2. Decided(e, decision')
      BY <1>4, <2>1, <3>1 DEF Decided
    <3> QED BY <3>1, <3>2 DEF Leads
  <2>2. CASE ~HasHandles(n)
    <3>1. d = "true" /\ m \in AllTargets(n)
      BY <1>5, <2>2
    <3>2. PICK e \in graph.edges : e[1] = n /\ e[3] = m
      BY <3>1 DEF AllTargets
    <3>3. Decided(e, decision')
      BY <1>4, <2>2, <3>1, <3>2 DEF Decided
    <3> QED BY <3>2, <3>3 DEF Leads
  <2> QED BY <2>1, <2>2
<1>6. \A m \in spare : Against(n, m, decision')
  BY <1>4 DEF Against, Opposite
<1>7. ASSUME NEW m \in ForwardFrom(n), Leads(n, m, decision') PROVE m \in taken
  <2>1. PICK e \in graph.edges : e[1] = n /\ e[3] = m /\ Decided(e, decision')
    BY <1>7 DEF Leads
  <2>2. d = (IF HasHandles(n) THEN e[2] ELSE "true")
    BY <1>4, <2>1 DEF Decided
  <2>3. CASE HasHandles(n)
    BY <2>1, <2>2, <2>3 DEF Targets
  <2>4. CASE ~HasHandles(n)
    BY <2>1, <2>2, <2>4 DEF AllTargets
  <2> QED BY <2>3, <2>4
<1>8. ASSUME NEW m \in ForwardFrom(n), Against(n, m, decision') PROVE m \in spare
  <2>1. m \in Targets(n, {other})
    BY <1>4, <1>8 DEF Against, Opposite
  <2>2. <<n, m>> \notin graph.back
    BY <1>1, Neighbours, GraphFacts
  <2> QED BY <2>1, <2>2
<1>9. decision'[n] # "none"
  BY <1>4
<1> HIDE DEF taken, spare
<1> QED BY <1>2, <1>3, <1>4, <1>5, <1>6, <1>7, <1>8, <1>9, ContinueMoves

LEMMA IterationsMove ==
  ASSUME EngineInv, NEW t \in DOMAIN live, IterationsSucceed(t)
  PROVE  Moves(t)
<1> DEFINE f == t[1]
           sink == Aggregate(f)
           from == IF sink = {} THEN f ELSE CHOOSE c \in sink : TRUE
           targets == IF sink = {} THEN Targets(f, {"done"}) ELSE AllTargets(from)
           more == IF sink = {} THEN {} ELSE InnerCollect(f)
           marked == BodyOf(f) \union sink \union more
           before == visited \union BodyOf(f) \union sink \union more
           forward == {n \in targets : <<from, n>> \notin graph.back}
           loops == targets \ forward
           ids == (forward \ Joins) \union Unblocked(arrived', forward, before)
           a == [Awaits(t, from, loops, {}) EXCEPT !.at = "iterated"]
           others == [Awaiting(t, from, loops, {}) EXCEPT ![t].at = "iterated"]
           new == ids \ (visited \union marked)
<1>1. /\ graph \in Graphs /\ f \in Nodes /\ live[t].at = "iterating" /\ f \in Of("foreach")
      /\ f \notin Of("condition")
  <2>1. live[t].at = "iterating"
    BY DEF IterationsSucceed
  <2>2. f \in Of("foreach")
    BY <2>1 DEF EngineInv, LiveInv
  <2> QED BY <2>1, <2>2, ActivationFields DEF EngineInv, Of
<1>2. from \in Nodes /\ (from = f \/ (from \in Of("collect") /\ from \in sink))
  <2>1. sink \subseteq Nodes /\ sink \subseteq Of("collect")
    BY <1>1, IterationTypes
  <2> HIDE DEF sink
  <2> QED BY <1>1, <2>1
<1>3. targets \subseteq AllTargets(from) /\ targets \subseteq Nodes
  <2>1. Targets(f, {"done"}) \subseteq AllTargets(f)
    BY <1>1, Neighbours
  <2>2. targets \subseteq AllTargets(from)
    BY <2>1
  <2> QED BY <1>1, <2>2, Neighbours
<1>4. /\ marked \in SUBSET Nodes /\ before = visited \union marked
      /\ marked \subseteq BodyOf(f) \union InnerCollect(f) \union Aggregate(f)
  BY <1>1, IterationTypes DEF EngineInv, SetInv
<1>5. ids \in SUBSET forward /\ ids \intersect Joins = Unblocked(arrived', forward, before)
  BY DEF Unblocked
<1>6. arrived' = arrived \union Arriving(from, forward)
  BY DEF IterationsSucceed
<1>7. Enter(t, ids, before, others)
  BY DEF IterationsSucceed
<1>8. UNCHANGED <<skips, skipped, looping>> /\ decision' = decision
  BY DEF IterationsSucceed
<1>9. sink \subseteq marked /\ f = t[1]
  OBVIOUS
<1> HIDE DEF ids, marked, before, from, targets, new, sink, f
<1>10. \A n \in forward : <<from, n>> \in graph.forward
  BY <1>1, <1>3, Neighbours
<1>11. forward \subseteq Nodes /\ loops \in SUBSET Nodes /\ forward \union loops \subseteq AllTargets(from)
  BY <1>3
<1> HIDE DEF loops, forward
<1>12. /\ Awaits(t, from, loops, {}) \in Activations
       /\ Awaits(t, from, loops, {}).from = from /\ Awaits(t, from, loops, {}).loops = loops
       /\ Awaits(t, from, loops, {}).spare = {}
       /\ Awaits(t, from, loops, {}).seen = reentries[t[1]]
       /\ Awaiting(t, from, loops, {}) = Amended(t, Awaits(t, from, loops, {}))
  BY <1>2, <1>11, AwaitsFields
<1>13. others = Amended(t, a)
  BY <1>12 DEF Amended, EngineInv, LiveInv
<1>14. /\ a \in Activations /\ a.at = "iterated" /\ a.from = from /\ a.loops = loops
       /\ a.spare = {} /\ a.seen = reentries[t[1]]
  BY <1>12 DEF Activations, Waiting
<1> HIDE DEF a, others
<1>15. Runs(t) /\ a.at \in Waiting
  BY <1>1, <1>14 DEF Runs, Waiting
<1>16. /\ ids \subseteq Nodes /\ Moved(t, from, forward, marked, new, a)
  <2>1. /\ Enter(t, ids, visited \union marked, Amended(t, a))
        /\ ids \intersect Joins = Unblocked(arrived', forward, visited \union marked)
        /\ new = ids \ (visited \union marked)
    BY <1>4, <1>5, <1>7, <1>13 DEF new
  <2>2. from = t[1] \/ (from \in Of("collect") /\ from \in marked)
    BY <1>2, <1>9
  <2>3. /\ marked \in SUBSET Nodes /\ (marked # {} => t[1] \in Of("foreach"))
        /\ marked \subseteq BodyOf(t[1]) \union InnerCollect(t[1]) \union Aggregate(t[1])
    BY <1>1, <1>4, <1>9
  <2>4. UNCHANGED <<skips, skipped, looping>>
    BY <1>8
  <2>5. /\ Runs(t) /\ a.at \in Waiting /\ live[t].at = "iterating" /\ from \in Nodes
        /\ \A n \in forward : <<from, n>> \in graph.forward
    BY <1>1, <1>2, <1>10, <1>15
  <2>6. /\ a \in Activations /\ a.from = from /\ a.seen = reentries[t[1]]
        /\ arrived' = arrived \union Arriving(from, forward) /\ ids \in SUBSET forward
    BY <1>5, <1>6, <1>14
  <2>7. ids \in SUBSET Nodes
    BY <1>11, <2>6
  <2>8. Grown(t, a, before, ids \ before)
    <3> DEFINE amended == Amended(t, a)
    <3>1. Enter(t, ids, before, amended) /\ amended = Amended(t, a)
      BY <1>7, <1>13
    <3> HIDE DEF amended
    <3> QED BY <2>7, <3>1, EnterGrows
  <2>9. \A n \in forward \intersect Joins :
          IF Complete(arrived', n) THEN n \in visited \union marked \union new ELSE n \notin new
    BY <2>1, <2>6 DEF Unblocked
  <2>10. Grown(t, a, visited \union marked, new)
    BY <1>4, <2>1, <2>8
  <2> QED BY <2>1, <2>2, <2>3, <2>4, <2>5, <2>6, <2>7, <2>9, <2>10 DEF Moved
<1>17. Chose(t, from, forward, a)
  <2>1. from \notin Of("condition")
    BY <1>1, <1>2 DEF Of
  <2>2. \A n \in AllTargets(from) : Leads(from, n, decision')
    BY <1>1, <2>1, NoChoice
  <2> QED BY <1>8, <1>11, <1>14, <2>2 DEF Chose
<1>18. Told(t, forward, a)
  BY <1>1, <1>9 DEF Told
<1>19. new \in SUBSET Nodes
  BY <1>16 DEF new
<1> QED BY <1>2, <1>4, <1>11, <1>14, <1>16, <1>17, <1>18, <1>19 DEF Moves

LEMMA ThrowMoves ==
  ASSUME EngineInv, NEW t \in DOMAIN live, IterationsThrow(t)
  PROVE  Moves(t)
<1>1. PICK marked, forward, loops : \E ids \in SUBSET forward : Thrown(t, marked, forward, loops, ids)
  BY IterationsThrown
<1>2. PICK ids \in SUBSET forward : Thrown(t, marked, forward, loops, ids)
  BY <1>1
<1> DEFINE none == {}
           a == Awaits(t, t[1], loops, none)
           new == ids \ (visited \union marked)
<1>3. /\ graph \in Graphs /\ t[1] \in Nodes /\ t[1] \in Of("foreach") /\ t[1] \notin Of("condition")
  BY <1>2, ActivationFields DEF EngineInv, Thrown, Of
<1>4. /\ marked \in SUBSET Nodes
      /\ marked \subseteq BodyOf(t[1]) \union InnerCollect(t[1]) \union Aggregate(t[1])
  BY <1>2, <1>3, IterationTypes DEF Thrown
<1>5. loops \in SUBSET Nodes /\ none \in SUBSET Nodes
  BY <1>2, <1>3, Neighbours DEF Thrown
<1>6. Enter(t, ids, visited \union marked, Awaiting(t, t[1], loops, none))
  BY <1>2 DEF Thrown
<1>7. \A n \in none : FALSE
  OBVIOUS
<1> HIDE DEF none
<1>8. /\ a \in Activations /\ a.at = "await" /\ a.from = t[1] /\ a.loops = loops
      /\ a.spare = none /\ a.seen = reentries[t[1]]
      /\ Awaiting(t, t[1], loops, none) = Amended(t, a)
  BY <1>3, <1>5, AwaitsFields
<1> HIDE DEF a
<1>9. Enter(t, ids, visited \union marked, Amended(t, a))
  BY <1>6, <1>8
<1>10. Runs(t) /\ (marked # {} => t[1] \in Of("foreach")) /\ UNCHANGED <<skips, skipped, looping>>
  BY <1>2, <1>3 DEF Runs, Waiting, Thrown
<1>11. /\ \A n \in forward : <<t[1], n>> \in graph.forward
       /\ arrived' = arrived \union Arriving(t[1], forward)
       /\ ids \intersect Joins = Unblocked(arrived', forward, visited \union marked)
       /\ forward \union loops \subseteq AllTargets(t[1]) /\ decision' = decision
  BY <1>2 DEF Thrown
<1>12. forward \subseteq Nodes /\ ids \subseteq Nodes /\ Moved(t, t[1], forward, marked, new, a)
  BY <1>3, <1>4, <1>8, <1>9, <1>10, <1>11, EnterMoves
<1>13. Chose(t, t[1], forward, a)
  <2>1. \A n \in AllTargets(t[1]) : Leads(t[1], n, decision')
    BY <1>3, NoChoice
  <2> QED BY <1>7, <1>8, <1>11, <2>1 DEF Chose
<1>14. Told(t, forward, a)
  BY <1>3 DEF Told
<1>15. new \in SUBSET Nodes
  BY <1>12
<1> HIDE DEF new
<1> QED BY <1>3, <1>4, <1>8, <1>12, <1>13, <1>14, <1>15 DEF Moves

LEMMA ThrowWaits ==
  ASSUME EngineInv, NEW t \in DOMAIN live, IterationsThrow(t)
  PROVE  t \in DOMAIN live' /\ live'[t].at = "await"
<1>1. PICK marked, forward, loops : \E ids \in SUBSET forward : Thrown(t, marked, forward, loops, ids)
  BY IterationsThrown
<1>2. PICK ids \in SUBSET forward : Thrown(t, marked, forward, loops, ids)
  BY <1>1
<1> DEFINE none == {}
           a == Awaits(t, t[1], loops, none)
           before == visited \union marked
           others == Awaiting(t, t[1], loops, none)
<1>3. graph \in Graphs /\ t[1] \in Nodes
  BY ActivationFields DEF EngineInv
<1>4. forward \union loops \subseteq Nodes /\ none \in SUBSET Nodes
  BY <1>2, <1>3, Neighbours DEF Thrown
<1>5. Enter(t, ids, before, others)
  BY <1>2 DEF Thrown
<1>6. ids \in SUBSET Nodes /\ loops \in SUBSET Nodes
  BY <1>4
<1> HIDE DEF none, before
<1>7. a.at = "await" /\ others = Amended(t, a)
  BY <1>3, <1>4, <1>6, AwaitsFields
<1> HIDE DEF a, others
<1>8. Grown(t, a, before, ids \ before)
  BY <1>5, <1>6, <1>7, EnterGrows
<1> QED BY <1>7, <1>8 DEF Grown

LEMMA PlainMoves ==
  ASSUME EngineInv, Decisions, UNCHANGED <<skips, skipped, looping>>, decision' = decision,
         NEW t \in DOMAIN live, Runs(t), t[1] \notin Of("condition"),
         Continue(t, t[1], AllTargets(t[1]), {}, visited)
  PROVE  Moves(t)
<1>1. graph \in Graphs /\ t[1] \in Nodes
  BY ActivationFields DEF EngineInv
<1>2. \A n \in AllTargets(t[1]) : Leads(t[1], n, decision')
  BY <1>1, NoChoice
<1> DEFINE targets == AllTargets(t[1])
           none == {}
<1>3. /\ targets \subseteq AllTargets(t[1]) /\ none \in SUBSET Nodes
      /\ (\A n \in targets : Leads(t[1], n, decision'))
      /\ (\A n \in none : Against(t[1], n, decision'))
      /\ Continue(t, t[1], targets, none, visited)
      /\ \A n \in Nodes : n = t[1] \/ decision'[n] = decision[n]
  BY <1>2
<1>4. ForwardFrom(t[1]) \subseteq targets
  BY <1>1, Neighbours
<1>5. \A n : ~Against(t[1], n, decision')
  BY <1>1 DEF Against, Decisions
<1> HIDE DEF targets, none
<1> QED BY <1>3, <1>4, <1>5, ContinueMoves

(* The iterations of a For Each begin. *)
Iterates(t) ==
  /\ Running(t) /\ t[1] \in Of("foreach") /\ live' = [live EXCEPT ![t].at = "iterating"]
  /\ UNCHANGED <<visited, turn, joining, looping, decision>>

(* It is over with t, and nobody is told. *)
Leaves(t) ==
  /\ live' = Without(t)
  /\ \E marked \in SUBSET Nodes :
       /\ visited' = visited \union marked
       /\ marked # {} => t[1] \in Of("foreach")
       /\ marked \subseteq BodyOf(t[1]) \union InnerCollect(t[1]) \union Aggregate(t[1])
  /\ attempted' = attempted \/ t[1] \in Of("foreach")
  /\ Runs(t) \/ Outrun(t) \/ live[t].spare = {}
  /\ UNCHANGED <<turn, joining, looping, decision>>

LEMMA NothingMarked ==
  ASSUME visited' = visited, NEW t
  PROVE  \E marked \in SUBSET Nodes :
           /\ visited' = visited \union marked
           /\ marked # {} => t[1] \in Of("foreach")
           /\ marked \subseteq BodyOf(t[1]) \union InnerCollect(t[1]) \union Aggregate(t[1])
<1> DEFINE none == {}
<1>1. /\ none \in SUBSET Nodes /\ visited' = visited \union none /\ (none # {} => t[1] \in Of("foreach"))
      /\ none \subseteq BodyOf(t[1]) \union InnerCollect(t[1]) \union Aggregate(t[1])
  OBVIOUS
<1> HIDE DEF none
<1> QED BY <1>1

Idles == UNCHANGED <<visited, attempted, live, turn, joining, looping, decision>>

LEMMA SucceedMoves ==
  ASSUME EngineInv, Decisions, NEW t \in DOMAIN live, Running(t), NEW out,
         t[1] \in Of("condition") => out \in {"true", "false"}, Succeed(t, out)
  PROVE  Moves(t) \/ Iterates(t)
<1>1. graph \in Graphs /\ t[1] \in Nodes /\ Runs(t)
  BY ActivationFields DEF EngineInv, Running, Runs, Waiting
<1>2. UNCHANGED <<skips, skipped, looping>>
  BY DEF Succeed
<1>3. CASE t[1] \in Of("condition")
  <2>1. FollowCondition(t, out)
    <3>1. t[1] \notin Of("foreach")
      BY <1>3 DEF Of
    <3> QED BY <1>3, <3>1 DEF Succeed
  <2> QED BY <1>1, <1>2, <1>3, <2>1, FollowMoves
<1>4. CASE t[1] \in Of("foreach")
  <2>1. t[1] \notin Of("condition")
    BY <1>4 DEF Of
  <2>2. live' = [live EXCEPT ![t].at = "iterating"] /\ UNCHANGED <<visited, attempted, turn, arrived, decision>>
    BY <1>4, <2>1 DEF Succeed
  <2> QED BY <1>2, <1>4, <2>2 DEF Iterates, joining
<1>5. CASE t[1] \notin Of("condition") \union Of("foreach")
  <2>1. Continue(t, t[1], AllTargets(t[1]), {}, visited) /\ decision' = decision
    BY <1>5 DEF Succeed
  <2> QED BY <1>1, <1>2, <1>5, <2>1, PlainMoves
<1> QED BY <1>3, <1>4, <1>5

LEMMA StepMoves ==
  ASSUME EngineInv, RecordInv, Decisions, NEW t \in DOMAIN live, StepEnds(t)
  PROVE  Moves(t) \/ Iterates(t) \/ (Leaves(t) /\ result'[t[1]] = "failed")
<1>1. graph \in Graphs /\ t[1] \in Nodes
  BY ActivationFields DEF EngineInv
<1>2. t[1] \in Of("condition") => Outputs(t[1]) = {"true", "false"}
  BY DEF Outputs
<1>3. Running(t) => Runs(t)
  BY DEF Running, Runs, Waiting
<1>4. CASE StepSucceeds(t)
  <2>1. PICK out \in Outputs(t[1]) : Running(t) /\ Succeed(t, out)
    BY <1>4 DEF StepSucceeds
  <2> QED BY <1>2, <2>1, SucceedMoves
<1>5. CASE StepReused(t)
  <2>1. Running(t) /\ t[1] \in claimed /\ Succeed(t, recorded[t[1]])
    BY <1>5 DEF StepReused, Held
  <2>2. t[1] \in Of("condition") => recorded[t[1]] \in {"true", "false"}
    BY <1>1, <1>2, <2>1 DEF RecordInv
  <2> QED BY <2>1, <2>2, SucceedMoves
<1>6. CASE DisabledPassed(t)
  <2>1. /\ Runs(t) /\ t[1] \notin Of("condition") /\ decision' = decision
        /\ Continue(t, t[1], AllTargets(t[1]), {}, visited)
        /\ UNCHANGED <<skips, skipped, looping>>
    BY <1>3, <1>6 DEF DisabledPassed, Of
  <2> QED BY <2>1, PlainMoves
<1>7. CASE StepReturnsFailure(t)
  <2>1. /\ live' = Without(t) /\ UNCHANGED <<visited, attempted, turn, joining, looping, decision>>
        /\ result' = Assign(result, t[1], "failed") /\ Runs(t)
    BY <1>3, <1>7 DEF StepReturnsFailure, Return
  <2>2. result'[t[1]] = "failed"
    BY <1>1, <2>1 DEF EngineInv, ValueInv, Assign
  <2> QED BY <2>1, <2>2, NothingMarked DEF Leaves
<1>8. CASE StepThrows(t)
  <2>1. PICK error \in {"failed", "retries"} : result' = Assign(result, t[1], error)
    BY <1>8 DEF StepThrows
  <2>2. Runs(t) /\ SignalFailure(t) /\ UNCHANGED <<skips, skipped, looping, decision>>
    BY <1>3, <1>8 DEF StepThrows
  <2>3. result'[t[1]] \in Failed
    BY <1>1, <2>1 DEF EngineInv, ValueInv, Assign, Failed
  <2> QED BY <2>2, <2>3, SignalMoves
<1>9. CASE CompletionRecovered(t)
  <2>1. PICK out \in Outputs(t[1]) :
          /\ Running(t) /\ UNCHANGED <<skips, skipped, looping>>
          /\ IF t[1] \in Of("condition") THEN FollowCondition(t, out)
             ELSE Continue(t, t[1], AllTargets(t[1]), {}, visited) /\ decision' = decision
    BY <1>9 DEF CompletionRecovered
  <2>2. CASE t[1] \in Of("condition")
    BY <1>2, <1>3, <2>1, <2>2, FollowMoves
  <2>3. CASE t[1] \notin Of("condition")
    BY <1>3, <2>1, <2>3, PlainMoves
  <2> QED BY <2>2, <2>3
<1>10. CASE CompletionLost(t)
  <2>1. /\ Runs(t) /\ SignalFailure(t) /\ UNCHANGED <<skips, skipped, looping, decision>>
        /\ result' = Assign(result, t[1], "retries")
    BY <1>3, <1>10 DEF CompletionLost
  <2>2. result'[t[1]] \in Failed
    BY <1>1, <2>1 DEF EngineInv, ValueInv, Assign, Failed
  <2> QED BY <2>1, <2>2, SignalMoves
<1>11. CASE IterationsSucceed(t)
  BY <1>11, IterationsMove
<1>12. CASE IterationsFail(t)
  <2> DEFINE unfed == Aggregate(t[1]) \union (IF Aggregate(t[1]) = {} THEN {} ELSE InnerCollect(t[1]))
             marked == BodyOf(t[1]) \union unfed
  <2>1. /\ live' = Without(t) /\ visited' = visited \union BodyOf(t[1]) \union unfed
        /\ live[t].at = "iterating" /\ UNCHANGED <<turn, joining, looping, decision>>
        /\ result' = [n \in Nodes |-> IF n \in unfed \union {t[1]} THEN "failed" ELSE result[n]]
        /\ Runs(t)
    BY <1>12 DEF IterationsFail, Runs, Waiting
  <2>2. t[1] \in Of("foreach")
    BY <2>1 DEF EngineInv, LiveInv
  <2>3. /\ marked \subseteq BodyOf(t[1]) \union InnerCollect(t[1]) \union Aggregate(t[1])
        /\ visited' = visited \union marked
    BY <2>1
  <2>4. marked \in SUBSET Nodes
    BY <1>1, <2>3, IterationTypes
  <2>5. result'[t[1]] = "failed"
    BY <1>1, <2>1
  <2> HIDE DEF marked
  <2> QED BY <2>1, <2>2, <2>3, <2>4, <2>5 DEF Leaves
<1>13. CASE IterationsThrow(t)
  BY <1>13, ThrowMoves
<1> QED BY <1>4, <1>5, <1>6, <1>7, <1>8, <1>9, <1>10, <1>11, <1>12, <1>13 DEF StepEnds

LEMMA StepShapes ==
  ASSUME EngineInv, RecordInv, Decisions, [Next]_vars
  PROVE  \/ \E t \in DOMAIN live : \/ Moves(t) \/ Iterates(t) \/ Leaves(t)
                                   \/ LoopBack(t) \/ LoopRefused(t) \/ SkipBranch(t)
         \/ Idles
<1>1. ASSUME NEW t \in DOMAIN live, GoesOn(t)
      PROVE  LoopBack(t) \/ LoopRefused(t) \/ SkipBranch(t) \/ Leaves(t)
  <2>1. CASE ActivationReturns(t)
    <3>1. /\ live' = Without(t) /\ UNCHANGED <<visited, attempted, turn, joining, looping, decision>>
          /\ Outrun(t) \/ live[t].spare = {}
      BY <2>1 DEF ActivationReturns, Return
    <3> QED BY <3>1, NothingMarked DEF Leaves
  <2> QED BY <1>1, <2>1 DEF GoesOn
<1>2. ASSUME NEW n \in Nodes, ClaimLapses(n) PROVE Idles
  BY <1>2 DEF ClaimLapses, traversal, Idles
<1>3. ASSUME NEW p \in late, LateCommit(p) PROVE Idles
  BY <1>3 DEF LateCommit, traversal, Idles
<1>4. CASE Finalize
  <2>1. UNCHANGED <<traversal, joining, looping, decision>>
    BY <1>4 DEF Finalize
  <2> QED BY <2>1 DEF traversal, Idles
<1>5. CASE UNCHANGED vars
  BY <1>5 DEF vars, Idles, joining, looping
<1> QED BY <1>1, <1>2, <1>3, <1>4, <1>5, StepMoves DEF Next

(* Nothing is entered, decided or counted. *)
Settles ==
  /\ visited \subseteq visited' /\ DOMAIN live' \subseteq DOMAIN live
  /\ \A u \in DOMAIN live' :
       /\ live'[u].seen = live[u].seen /\ live'[u].from = live[u].from
       /\ live'[u].spare = live[u].spare /\ live'[u].loops \subseteq live[u].loops
       /\ Runs(u)' => Runs(u)
  /\ \A n \in visited' \ visited :
       \E f \in Of("foreach") : n \in BodyOf(f) \union InnerCollect(f) \union Aggregate(f)
  /\ attempted' = attempted \/ Of("foreach") # {}
  /\ \A u \in DOMAIN live \ DOMAIN live' : Runs(u) \/ Outrun(u) \/ live[u].spare = {}
  /\ UNCHANGED <<turn, joining, looping, decision>>

LEMMA SettlesShape ==
  ASSUME EngineInv, NEW t,
         (t \in DOMAIN live /\ (Iterates(t) \/ Leaves(t) \/ LoopRefused(t))) \/ Idles
  PROVE  Settles
<1>1. \A u \in DOMAIN live : live[u] \in Activations
  BY DEF EngineInv, LiveInv
<1>2. ASSUME t \in DOMAIN live, Iterates(t) PROVE Settles
  <2> DEFINE a == [live[t] EXCEPT !.at = "iterating"]
  <2>1. /\ live' = [live EXCEPT ![t] = a] /\ live[t].at = "step"
        /\ UNCHANGED <<visited, turn, joining, looping, decision>>
    BY <1>2 DEF Iterates, Running
  <2>2. /\ a.seen = live[t].seen /\ a.from = live[t].from /\ a.spare = live[t].spare
        /\ a.loops = live[t].loops
    BY <1>1, <1>2 DEF Activations
  <2> HIDE DEF a
  <2>3. DOMAIN live' = DOMAIN live /\ \A u \in DOMAIN live : live'[u] = IF u = t THEN a ELSE live[u]
    BY <2>1
  <2>4. Of("foreach") # {}
    BY <1>2 DEF Iterates
  <2> QED BY <2>1, <2>2, <2>3, <2>4 DEF Settles, Runs, Waiting
<1>3. ASSUME Leaves(t) PROVE Settles
  <2>1. DOMAIN live' \subseteq DOMAIN live /\ \A u \in DOMAIN live' : live'[u] = live[u]
    BY <1>3 DEF Leaves, Without
  <2>2. visited \subseteq visited' /\ UNCHANGED <<turn, joining, looping, decision>>
    BY <1>3 DEF Leaves
  <2>3. \A n \in visited' \ visited :
          \E f \in Of("foreach") : n \in BodyOf(f) \union InnerCollect(f) \union Aggregate(f)
    BY <1>3 DEF Leaves
  <2>4. attempted' = attempted \/ Of("foreach") # {}
    BY <1>3 DEF Leaves
  <2>5. \A u \in DOMAIN live \ DOMAIN live' : Runs(u) \/ Outrun(u) \/ live[u].spare = {}
    BY <1>3 DEF Leaves, Without
  <2>6. \A u \in DOMAIN live' : Runs(u)' => Runs(u)
    BY <2>1 DEF Runs
  <2> QED BY <2>1, <2>2, <2>3, <2>4, <2>5, <2>6 DEF Settles
<1>4. ASSUME t \in DOMAIN live, LoopRefused(t) PROVE Settles
  <2>1. PICK entry \in live[t].loops :
          /\ live' = [live EXCEPT ![t].loops = @ \ {entry}]
          /\ UNCHANGED <<visited, attempted, turn, joining, looping, decision>>
    BY <1>4 DEF LoopRefused
  <2> DEFINE a == [live[t] EXCEPT !.loops = @ \ {entry}]
  <2>2. live' = [live EXCEPT ![t] = a]
    BY <2>1
  <2>3. /\ a.seen = live[t].seen /\ a.from = live[t].from /\ a.spare = live[t].spare
        /\ a.loops \subseteq live[t].loops /\ a.at = live[t].at
    BY <1>1, <1>4 DEF Activations
  <2> HIDE DEF a
  <2>4. DOMAIN live' = DOMAIN live /\ \A u \in DOMAIN live : live'[u] = IF u = t THEN a ELSE live[u]
    BY <2>2
  <2> QED BY <2>1, <2>3, <2>4 DEF Settles, Runs
<1>5. ASSUME Idles PROVE Settles
  BY <1>5 DEF Idles, Settles, Runs
<1> QED BY <1>2, <1>3, <1>4, <1>5

(* The loop that t waits to re-enter has been re-entered; t has become a. *)
Looped(t, entry, a) ==
  /\ live[t].at \in Waiting /\ entry \in live[t].loops
  /\ a.at = live[t].at /\ a.from = live[t].from /\ a.seen = live[t].seen
  /\ a.spare = live[t].spare /\ a.loops = live[t].loops \ {entry}
  /\ Grown(t, a, visited \ Scope(entry), {entry})
  /\ \A n \in Nodes :
       /\ reentries'[n] = IF n \in Scope(entry) THEN reentries[n] + 1 ELSE reentries[n]
       /\ decision'[n] = IF n \in Scope(entry) THEN "none" ELSE decision[n]
  /\ arrived' = arrived \ Inside(arrived, Scope(entry))
  /\ skips' = skips \ Inside(skips, Scope(entry))
  /\ skipped' = skipped \ Scope(entry)
  /\ (overlapped' <=> overlapped \/ \E u \in DOMAIN live \ Line(t) : u[1] \in Scope(entry))
  /\ (revived' <=> revived \/ Outrun(t))
  /\ graph' = graph /\ result' = result

LEMMA LoopBackShape ==
  ASSUME EngineInv, NEW t \in DOMAIN live, LoopBack(t)
  PROVE  \E entry \in Nodes, a \in Activations : Looped(t, entry, a)
<1>1. PICK entry \in live[t].loops :
        LET body == Scope(entry)
            rest == [live EXCEPT ![t].loops = @ \ {entry}]
        IN  /\ Quiet(t)
            /\ reentries' = [n \in Nodes |-> IF n \in body THEN reentries[n] + 1 ELSE reentries[n]]
            /\ arrived' = arrived \ Inside(arrived, body)
            /\ skips' = skips \ Inside(skips, body)
            /\ skipped' = skipped \ body
            /\ Enter(t, {entry}, visited \ body, rest)
            /\ decision' = [n \in Nodes |-> IF n \in body THEN "none" ELSE decision[n]]
            /\ (overlapped' <=> (overlapped \/ \E u \in DOMAIN live \ Line(t) : u[1] \in body))
            /\ (revived' <=> (revived \/ Outrun(t)))
            /\ graph' = graph /\ result' = result
  BY DEF LoopBack
<1> DEFINE body == Scope(entry)
           a == [live[t] EXCEPT !.loops = @ \ {entry}]
           before == visited \ body
           others == [live EXCEPT ![t].loops = @ \ {entry}]
<1>2. graph \in Graphs /\ entry \in Nodes /\ live[t] \in Activations
  BY ActivationFields DEF EngineInv
<1>3. entry \in body
  BY <1>2, ScopeTypes
<1>4. /\ a \in Activations /\ a.at = live[t].at /\ a.from = live[t].from /\ a.seen = live[t].seen
      /\ a.spare = live[t].spare /\ a.loops = live[t].loops \ {entry}
  BY <1>2 DEF Activations
<1>5. others = Amended(t, a) /\ Enter(t, {entry}, before, others)
  BY <1>1 DEF Amended
<1>6. {entry} \ before = {entry} /\ {entry} \in SUBSET Nodes
  BY <1>2, <1>3
<1>7. live[t].at \in Waiting
  BY <1>1 DEF Quiet, Waiting
<1> HIDE DEF a, others
<1>8. Grown(t, a, before, {entry})
  <2> HIDE DEF before
  <2> QED BY <1>5, <1>6, EnterGrows
<1>9. Looped(t, entry, a)
  BY <1>1, <1>4, <1>7, <1>8 DEF Looped
<1> QED BY <1>2, <1>4, <1>9

(* The branch that t did not take has been skipped: `hits` arrive as skips,  *)
(* `through` are skipped, and what is released is entered.                   *)
Spared(t, hits, through, new, a) ==
  /\ live[t].at \in Waiting /\ ~Outrun(t) /\ live[t].spare # {}
  /\ a.at = live[t].at /\ a.from = live[t].from /\ a.seen = live[t].seen
  /\ a.spare = {} /\ a.loops = live[t].loops
  /\ Grown(t, a, visited, new) /\ new \intersect visited = {}
  /\ new \subseteq {n \in Joins : Complete(arrived', n) /\ ~Complete(skips', n)}
  /\ skips' = skips \union hits /\ arrived' = arrived \union hits
  /\ skipped' = skipped \union through /\ through \subseteq Nodes
  /\ \A p \in hits :
       /\ p \in graph.forward
       /\ p[1] \in skipped' \/ (p[1] = t[1] /\ p[2] \in live[t].spare)
       /\ p[2] \in Joins
  /\ \A n \in through : \A p \in Preds(n) :
       <<p, n>> \in skips' \/ p \in skipped' \/ (p = t[1] /\ n \in live[t].spare)
  /\ (\A n \in through : Preds(n) # {})
  /\ \A n \in live[t].spare : IF n \in Joins THEN <<t[1], n>> \in hits ELSE n \in through
  /\ \A p \in through : \A n \in ForwardFrom(p) :
       IF n \in Joins THEN <<p, n>> \in hits ELSE n \in through
  /\ UNCHANGED <<looping, decision, result>>

(* A node with two ways in is a join. *)
LEMMA OneWayIn ==
  ASSUME graph \in Graphs, NEW n \in Nodes \ Joins, NEW p \in Preds(n), NEW q \in Preds(n)
  PROVE  p = q
<1>1. IsFiniteSet(Preds(n)) /\ Cardinality(Preds(n)) \in Nat
  <2>1. Preds(n) \subseteq Nodes /\ IsFiniteSet(Nodes)
    BY GraphFacts, Neighbours
  <2> QED BY <2>1, FS_Subset, FS_CardinalityType
<1>2. Cardinality(Preds(n)) <= 1
  BY <1>1 DEF Joins
<1> SUFFICES ASSUME p # q PROVE FALSE
  OBVIOUS
<1>3. Cardinality({p}) = 1 /\ IsFiniteSet({p})
  BY FS_Singleton
<1>4. {p} \subseteq Preds(n) /\ {p} # Preds(n)
  OBVIOUS
<1>5. Cardinality({p}) <= Cardinality(Preds(n)) /\ Cardinality({p}) # Cardinality(Preds(n))
  BY <1>1, <1>4, FS_Subset
<1> QED BY <1>1, <1>2, <1>3, <1>5

LEMMA SkipBranchShape ==
  ASSUME EngineInv, NEW t \in DOMAIN live, SkipBranch(t)
  PROVE  \E hits \in SUBSET (Nodes \X Nodes), through \in SUBSET Nodes,
            new \in SUBSET Nodes, a \in Activations :
           Spared(t, hits, through, new, a)
<1> DEFINE spare == live[t].spare
           sources == SkipWalk(t[1], spare)
           reached == {n \in Nodes : sources[n] # {}}
           hits == UNION {{<<s, n>> : s \in sources[n]} : n \in reached \intersect Joins}
           through == {n \in reached : n \in Joins => Complete(skips', n)}
           ids == Unblocked(arrived', reached \ through, visited)
           a == [live[t] EXCEPT !.spare = {}]
           others == [live EXCEPT ![t].spare = {}]
           new == ids \ visited
<1>1. /\ Quiet(t) /\ skips' = skips \union hits /\ arrived' = arrived \union hits
      /\ skipped' = skipped \union through /\ ~Outrun(t) /\ spare # {}
      /\ UNCHANGED <<looping, decision, result>> /\ Enter(t, ids, visited, others)
  BY DEF SkipBranch
<1>2. graph \in Graphs /\ live[t] \in Activations /\ spare \subseteq Nodes /\ t[1] \in Nodes
  BY ActivationFields DEF EngineInv
<1>3. ids \in SUBSET Nodes /\ through \in SUBSET Nodes
  BY DEF Unblocked
<1>4. /\ a \in Activations /\ a.at = live[t].at /\ a.from = live[t].from /\ a.seen = live[t].seen
      /\ a.spare = {} /\ a.loops = live[t].loops
  BY <1>2 DEF Activations
<1>5. others = Amended(t, a)
  BY DEF Amended
<1>6. live[t].at \in Waiting
  BY <1>1 DEF Quiet, Waiting
<1>7. Grown(t, a, visited, new)
  <2> HIDE DEF a, others, ids
  <2> QED BY <1>1, <1>3, <1>5, EnterGrows
<1>8. /\ new \intersect visited = {}
      /\ new \subseteq {n \in Joins : Complete(arrived', n) /\ ~Complete(skips', n)}
  BY DEF Unblocked
<1>9. \A n \in Nodes : sources[n] = Into(sources, t[1], spare, n)
  <2> HIDE DEF spare
  <2> QED BY <1>2, SkipWalkUnfolds
<1>10. ASSUME NEW n \in Nodes, NEW s \in sources[n]
       PROVE  s \in through \/ (s = t[1] /\ n \in spare)
  <2> HIDE DEF sources
  <2>1. s \in Into(sources, t[1], spare, n)
    BY <1>9, <1>10
  <2>2. CASE n \in spare /\ s = t[1]
    BY <2>2
  <2>3. CASE ~(n \in spare /\ s = t[1])
    <3>1. /\ s \in Preds(n) /\ sources[s] # {}
          /\ s \in Joins => Preds(s) \subseteq sources[s] \union {x \in Preds(s) : <<x, s>> \in skips}
      BY <2>1, <2>3 DEF Into
    <3>2. s \in Nodes
      BY <1>2, <3>1, Neighbours
    <3>3. s \in reached
      BY <3>1, <3>2
    <3>4. ASSUME s \in Joins, NEW p \in Preds(s) PROVE \E q \in skips' : q[2] = s /\ q[1] = p
      <4>1. <<p, s>> \in hits \/ <<p, s>> \in skips
        BY <3>1, <3>3, <3>4
      <4>2. <<p, s>> \in skips'
        BY <1>1, <4>1
      <4> QED BY <4>2
    <3>5. s \in Joins => Complete(skips', s)
      BY <3>4 DEF Complete
    <3> QED BY <3>3, <3>5
  <2> QED BY <2>2, <2>3
<1>11. ASSUME NEW p \in hits
       PROVE  /\ p \in graph.forward /\ p[2] \in Joins
              /\ p[1] \in skipped' \/ (p[1] = t[1] /\ p[2] \in spare)
  <2>1. PICK n \in reached \intersect Joins : \E s \in sources[n] : p = <<s, n>>
    BY <1>11
  <2>2. PICK s \in sources[n] : p = <<s, n>>
    BY <2>1
  <2>3. <<s, n>> \in graph.forward
    BY <2>1, SkipsForward
  <2>4. s \in through \/ (s = t[1] /\ n \in spare)
    BY <1>10, <2>1
  <2> HIDE DEF through, sources, reached, hits
  <2> QED BY <1>1, <2>1, <2>2, <2>3, <2>4
<1>12. ASSUME NEW n \in through, NEW p \in Preds(n)
       PROVE  <<p, n>> \in skips' \/ p \in skipped' \/ (p = t[1] /\ n \in spare)
  <2>1. n \in Nodes /\ sources[n] # {}
    OBVIOUS
  <2>2. CASE n \in Joins
    <3>1. Complete(skips', n)
      BY <2>2
    <3>2. PICK q \in skips' : q[2] = n /\ q[1] = p
      BY <3>1 DEF Complete
    <3>3. q = <<q[1], q[2]>>
      <4>1. q \in skips \/ q \in hits
        BY <1>1
      <4>2. q \in skips => q \in graph.forward
        BY DEF EngineInv, SetInv, JoinPairs
      <4>3. q \in graph.forward
        BY <1>11, <4>1, <4>2
      <4> QED BY <1>2, <4>3, GraphFacts
    <3> QED BY <3>2, <3>3
  <2>3. CASE n \notin Joins
    <3>1. PICK s \in sources[n] : TRUE
      BY <2>1
    <3>2. <<s, n>> \in graph.forward
      BY <2>1, SkipsForward
    <3>3. s = p
      BY <1>2, <2>1, <2>3, <3>2, Neighbours, OneWayIn
    <3> QED BY <1>1, <1>10, <2>1, <3>1, <3>3
  <2> QED BY <2>2, <2>3
<1>13. ASSUME NEW n \in through PROVE Preds(n) # {}
  <2>1. n \in Nodes /\ sources[n] # {}
    OBVIOUS
  <2>2. PICK s \in sources[n] : TRUE
    BY <2>1
  <2>3. <<s, n>> \in graph.forward
    BY <2>1, SkipsForward
  <2> QED BY <1>2, <2>3, Neighbours
<1>14. ASSUME NEW n \in Nodes, NEW s \in Into(sources, t[1], spare, n)
       PROVE  IF n \in Joins THEN <<s, n>> \in hits ELSE n \in through
  <2>1. s \in sources[n]
    <3> HIDE DEF sources
    <3> QED BY <1>9, <1>14
  <2> HIDE DEF sources
  <2> QED BY <2>1
<1>15. \A n \in spare : IF n \in Joins THEN <<t[1], n>> \in hits ELSE n \in through
  <2> SUFFICES ASSUME NEW n \in spare
               PROVE  IF n \in Joins THEN <<t[1], n>> \in hits ELSE n \in through
    OBVIOUS
  <2>1. n \in Nodes
    BY <1>2
  <2>2. t[1] \in Into(sources, t[1], spare, n)
    BY DEF Into
  <2> HIDE DEF sources, hits, through
  <2> QED BY <1>14, <2>1, <2>2
<1>16. ASSUME NEW p \in through, NEW n \in ForwardFrom(p)
       PROVE  IF n \in Joins THEN <<p, n>> \in hits ELSE n \in through
  <2>1. n \in Nodes /\ p \in Preds(n) /\ p \in Nodes
    BY <1>2, <1>3, Neighbours
  <2>2. sources[p] # {}
    OBVIOUS
  <2>3. ASSUME p \in Joins, NEW q \in Preds(p) PROVE q \in sources[p] \/ <<q, p>> \in skips
    <3>1. Complete(skips', p)
      BY <2>3
    <3>2. PICK x \in skips' : x[2] = p /\ x[1] = q
      BY <2>3, <3>1 DEF Complete
    <3>3. CASE x \in skips
      <4>1. x \in graph.forward
        BY <3>3 DEF EngineInv, SetInv, JoinPairs
      <4>2. x = <<q, p>>
        BY <1>2, <3>2, <4>1, GraphFacts
      <4> QED BY <3>3, <4>2
    <3>4. CASE x \in hits
      <4>1. PICK m \in reached \intersect Joins : \E s \in sources[m] : x = <<s, m>>
        BY <3>4
      <4> QED BY <3>2, <4>1
    <3> QED BY <1>1, <3>2, <3>3, <3>4
  <2>4. p \in Joins => Preds(p) \subseteq sources[p] \union {s \in Preds(p) : <<s, p>> \in skips}
    BY <2>3
  <2>5. p \in Into(sources, t[1], spare, n)
    BY <2>1, <2>2, <2>4 DEF Into
  <2> HIDE DEF sources, hits, through
  <2> QED BY <1>14, <2>1, <2>5
<1> HIDE DEF sources, reached, hits, through, ids, a, others
<1>17. Spared(t, hits, through, new, a)
  BY <1>1, <1>3, <1>4, <1>6, <1>7, <1>8, <1>11, <1>12, <1>13, <1>15, <1>16 DEF Spared
<1>18. new \in SUBSET Nodes /\ hits \in SUBSET (Nodes \X Nodes)
  BY <1>2, <1>3, <1>11, GraphFacts DEF new
<1> QED BY <1>3, <1>4, <1>17, <1>18

LEMMA PassShapes ==
  ASSUME EngineInv, RecordInv, Decisions, [Next]_vars
  PROVE  \/ Settles
         \/ \E t \in DOMAIN live :
              \/ Moves(t)
              \/ \E entry \in Nodes, a \in Activations : Looped(t, entry, a)
              \/ \E hits \in SUBSET (Nodes \X Nodes), through \in SUBSET Nodes,
                    new \in SUBSET Nodes, a \in Activations : Spared(t, hits, through, new, a)
BY StepShapes, SettlesShape, LoopBackShape, SkipBranchShape

-----------------------------------------------------------------------------
(* What a pass knows of itself stays true.                                  *)

LEMMA DecisionsStep ==
  ASSUME EngineInv, RecordInv, Decisions, [Next]_vars
  PROVE  Decisions'
<1>1. graph' = graph /\ Nodes' = Nodes /\ Of("condition")' = Of("condition")
  BY SameNodes, SameGraph
<1>2. ASSUME decision' = decision PROVE Decisions'
  BY <1>1, <1>2 DEF Decisions
<1>3. ASSUME NEW n \in Of("condition"), NEW d \in Outputs(n), decision' = Assign(decision, n, d)
      PROVE  Decisions'
  BY <1>1, <1>3 DEF Decisions, Assign, Outputs, Of
<1>4. ASSUME NEW t \in DOMAIN live, NEW out, t[1] \in Of("condition") => out \in Outputs(t[1]),
             Succeed(t, out)
      PROVE  Decisions'
  <2>1. CASE t[1] \in Of("condition")
    <3>1. FollowCondition(t, out)
      <4>1. t[1] \notin Of("foreach")
        BY <2>1 DEF Of
      <4> QED BY <1>4, <2>1, <4>1 DEF Succeed
    <3> QED BY <1>3, <1>4, <2>1, <3>1 DEF FollowCondition
  <2>2. CASE t[1] \notin Of("condition")
    <3>1. decision' = decision
      BY <1>4, <2>2 DEF Succeed
    <3> QED BY <1>2, <3>1
  <2> QED BY <2>1, <2>2
<1>5. ASSUME NEW t \in DOMAIN live, StepEnds(t) PROVE Decisions'
  <2>1. CASE StepSucceeds(t)
    BY <1>4, <2>1 DEF StepSucceeds
  <2>2. CASE StepReused(t)
    <3>1. t[1] \in claimed /\ Succeed(t, recorded[t[1]]) /\ t[1] \in Nodes
      BY <2>2, ActivationFields DEF StepReused, Held
    <3> QED BY <1>4, <3>1 DEF RecordInv
  <2>3. CASE CompletionRecovered(t)
    <3>1. PICK out \in Outputs(t[1]) :
            IF t[1] \in Of("condition") THEN FollowCondition(t, out) ELSE decision' = decision
      BY <2>3 DEF CompletionRecovered
    <3> QED BY <1>2, <1>3, <3>1 DEF FollowCondition
  <2>4. CASE DisabledPassed(t) \/ StepReturnsFailure(t) \/ StepThrows(t) \/ CompletionLost(t)
             \/ IterationsSucceed(t) \/ IterationsFail(t) \/ IterationsThrow(t)
    <3>1. decision' = decision
      BY <2>4 DEF DisabledPassed, StepReturnsFailure, StepThrows, CompletionLost,
                  IterationsSucceed, IterationsFail, IterationsThrow
    <3> QED BY <1>2, <3>1
  <2> QED BY <1>5, <2>1, <2>2, <2>3, <2>4 DEF StepEnds
<1>6. ASSUME NEW t \in DOMAIN live, LoopBack(t) PROVE Decisions'
  <2>1. PICK body : decision' = [n \in Nodes |-> IF n \in body THEN "none" ELSE decision[n]]
    BY <1>6 DEF LoopBack
  <2> QED BY <1>1, <2>1 DEF Decisions
<1>7. ASSUME NEW t \in DOMAIN live, LoopRefused(t) \/ SkipBranch(t) \/ ActivationReturns(t)
      PROVE  Decisions'
  <2>1. decision' = decision
    BY <1>7 DEF LoopRefused, SkipBranch, ActivationReturns
  <2> QED BY <1>2, <2>1
<1>8. ASSUME NEW n \in Nodes, ClaimLapses(n) PROVE Decisions'
  BY <1>2, <1>8 DEF ClaimLapses
<1>9. ASSUME NEW p \in late, LateCommit(p) PROVE Decisions'
  BY <1>2, <1>9 DEF LateCommit
<1>10. CASE Finalize
  <2>1. decision' = decision
    BY <1>10 DEF Finalize
  <2> QED BY <1>2, <2>1
<1>11. CASE UNCHANGED vars
  BY <1>2, <1>11 DEF vars
<1> QED BY <1>5, <1>6, <1>7, <1>8, <1>9, <1>10, <1>11 DEF Next, GoesOn

LEMMA SeenStep ==
  ASSUME EngineInv, RecordInv, Decisions, SeenInv, [Next]_vars
  PROVE  SeenInv'
<1>1. /\ reentries \in [Nodes -> Nat] /\ DOMAIN live \subseteq Keys
      /\ \A u \in DOMAIN live : live[u].seen \in Nat /\ live[u] \in Activations
  BY DEF EngineInv, LiveInv, LoopInv, Activations
<1>2. \A u \in DOMAIN live : u[1] \in Nodes
  BY <1>1 DEF Keys
<1>3. ASSUME NEW t \in DOMAIN live, NEW a \in Activations, a.seen <= reentries[t[1]],
             NEW before, NEW new \in SUBSET Nodes, Grown(t, a, before, new),
             \A n \in Nodes : reentries'[n] \in Nat /\ reentries[n] <= reentries'[n]
      PROVE  SeenInv'
  <2> SUFFICES ASSUME NEW u \in DOMAIN live' PROVE live'[u].seen <= reentries'[u[1]]
    BY DEF SeenInv
  <2>1. CASE u \in Started(new)
    <3>1. live'[u].seen = 0 /\ u[1] \in Nodes
      BY <1>3, <2>1 DEF Grown
    <3> QED BY <1>3, <3>1
  <2>2. CASE u \in DOMAIN live
    <3>1. live'[u] = IF u = t THEN a ELSE live[u]
      BY <1>3, <2>2 DEF Grown
    <3>2. a.seen \in Nat
      BY DEF Activations
    <3>3. live'[u].seen <= reentries[u[1]] /\ live'[u].seen \in Nat
      BY <1>1, <1>3, <2>2, <3>1, <3>2 DEF SeenInv
    <3>4. reentries[u[1]] <= reentries'[u[1]] /\ reentries[u[1]] \in Nat /\ reentries'[u[1]] \in Nat
      BY <1>1, <1>2, <1>3, <2>2
    <3> QED BY <3>3, <3>4
  <2> QED BY <1>3, <2>1, <2>2 DEF Grown
<1>4. \A u \in DOMAIN live : live[u].seen <= reentries[u[1]]
  BY DEF SeenInv
<1>5. reentries' = reentries => \A n \in Nodes : reentries'[n] \in Nat /\ reentries[n] <= reentries'[n]
  BY <1>1
<1>6. CASE Settles
  BY <1>4, <1>6 DEF Settles, SeenInv, looping
<1>7. ASSUME NEW t \in DOMAIN live, Moves(t) PROVE SeenInv'
  <2>1. PICK from \in Nodes, forward \in SUBSET Nodes, marked \in SUBSET Nodes,
             new \in SUBSET Nodes, a \in Activations : Moved(t, from, forward, marked, new, a)
    BY <1>7 DEF Moves
  <2>2. a.seen = reentries[t[1]] /\ Grown(t, a, visited \union marked, new) /\ reentries' = reentries
    BY <2>1 DEF Moved, looping
  <2> DEFINE before == visited \union marked
  <2>3. a.seen <= reentries[t[1]] /\ Grown(t, a, before, new)
    BY <1>1, <1>2, <2>2
  <2> HIDE DEF before
  <2> QED BY <1>3, <1>5, <2>2, <2>3
<1>8. ASSUME NEW t \in DOMAIN live, NEW entry \in Nodes, NEW a \in Activations, Looped(t, entry, a)
      PROVE  SeenInv'
  <2> DEFINE before == visited \ Scope(entry)
             new == {entry}
  <2>1. /\ a.seen <= reentries[t[1]] /\ Grown(t, a, before, new) /\ new \in SUBSET Nodes
        /\ \A n \in Nodes : reentries'[n] \in Nat /\ reentries[n] <= reentries'[n]
    BY <1>1, <1>4, <1>8 DEF Looped
  <2> HIDE DEF before, new
  <2> QED BY <1>3, <2>1
<1>9. ASSUME NEW t \in DOMAIN live, NEW hits, NEW through, NEW new \in SUBSET Nodes,
             NEW a \in Activations, Spared(t, hits, through, new, a)
      PROVE  SeenInv'
  <2>1. a.seen <= reentries[t[1]] /\ Grown(t, a, visited, new) /\ reentries' = reentries
    BY <1>4, <1>9 DEF Spared, looping
  <2> QED BY <1>3, <1>5, <2>1
<1> QED BY <1>6, <1>7, <1>8, <1>9, PassShapes

(* What PendingInv says of one activation. *)
Pending(u, b, outrun, d) ==
  /\ b.loops # {} => b.from \in {u[1]} \union Of("collect")
  /\ ~outrun => /\ \A m \in b.loops : Leads(b.from, m, d)
                /\ \A m \in b.spare : Against(u[1], m, d)

LEMMA PendingPrimed ==
  ASSUME graph' = graph, \A u \in DOMAIN live' : Pending(u, live'[u], Outrun(u)', decision')
  PROVE  PendingInv'
<1>1. Of("collect")' = Of("collect") /\ Of("condition")' = Of("condition")
  BY SameGraph
<1> QED BY <1>1 DEF Pending, PendingInv, Leads, Against, Targets, Decided, HasHandles, Opposite

(* A step that settles keeps all of it. *)
LEMMA PassSettles ==
  ASSUME EngineInv, OnePass, Settles
  PROVE  OnePass'
<1>1. /\ graph' = graph /\ UNCHANGED <<turn, joining, looping, decision>>
      /\ skips' = skips /\ skipped' = skipped /\ arrived' = arrived /\ reentries' = reentries
  BY DEF Settles, looping, joining
<1>2. Nodes' = Nodes /\ \A k : Of(k)' = Of(k)
  BY <1>1, SameGraph
<1>3. \A u \in DOMAIN live' : Outrun(u)' <=> Outrun(u)
  BY <1>1 DEF Settles, Outrun
<1>4. CurrentInv'
  BY <1>1, <1>3 DEF OnePass, CurrentInv, Settles
<1>5. UndecidedInv'
  BY <1>1, <1>2 DEF OnePass, UndecidedInv, Settles
<1>6. ArrivedInv'
  BY <1>1, <1>2 DEF OnePass, ArrivedInv, Settles
<1>7. /\ \A n, m : Leads(n, m, decision)' <=> Leads(n, m, decision)
      /\ \A n, m : Against(n, m, decision)' <=> Against(n, m, decision)
      /\ \A n, m : Dead(n, m, decision)' <=> Dead(n, m, decision)
      /\ \A n : Preds(n)' = Preds(n)
  BY <1>1, SameChoices DEF Dead
<1>8. RealInv'
  BY <1>1, <1>7 DEF OnePass, RealInv, Settles
<1>9. PendingInv'
  <2> SUFFICES ASSUME NEW u \in DOMAIN live' PROVE Pending(u, live'[u], Outrun(u)', decision')
    BY <1>1, PendingPrimed
  <2>1. /\ u \in DOMAIN live /\ live'[u].from = live[u].from /\ live'[u].spare = live[u].spare
        /\ live'[u].loops \subseteq live[u].loops
    BY DEF Settles
  <2>2. Pending(u, live[u], Outrun(u), decision)
    BY <2>1 DEF OnePass, PendingInv, Pending
  <2> QED BY <1>1, <1>3, <2>1, <2>2 DEF Pending
<1>10. DeadInv'
  BY <1>1, <1>7 DEF OnePass, DeadInv
<1> QED BY <1>4, <1>5, <1>6, <1>8, <1>9, <1>10 DEF OnePass

(* A node that runs has one activation that runs. *)
LEMMA OneRuns ==
  ASSUME EngineInv, CurrentInv, NEW t \in DOMAIN live, Runs(t), NEW u \in DOMAIN live, Runs(u),
         u[1] = t[1]
  PROVE  u = t
<1>1. t \in Nodes \X Nat /\ u \in Nodes \X Nat
  BY DEF EngineInv, LiveInv, Keys
<1>2. t[2] = turn[t[1]] /\ u[2] = turn[u[1]]
  BY DEF CurrentInv
<1> QED BY <1>1, <1>2

(* What was decided stays so while t moves on. *)
LEMMA ChoicesStay ==
  ASSUME EngineInv, Decisions, NEW n, decision[n] = "none",
         \A m \in Nodes : m = n \/ decision'[m] = decision[m]
  PROVE  \A x, y : /\ Leads(x, y, decision) => Leads(x, y, decision')
                   /\ Against(x, y, decision) => Against(x, y, decision')
<1>1. graph \in Graphs
  BY DEF EngineInv
<1> SUFFICES ASSUME NEW x, NEW y
             PROVE  /\ Leads(x, y, decision) => Leads(x, y, decision')
                    /\ Against(x, y, decision) => Against(x, y, decision')
  OBVIOUS
<1>2. CASE x \notin Nodes
  BY <1>1, <1>2, GraphFacts DEF Leads, Against, Targets
<1>3. CASE x \in Nodes /\ x # n
  <2>1. decision'[x] = decision[x]
    BY <1>3
  <2> QED BY <1>1, <2>1, ChoiceIsOwn
<1>4. CASE x = n
  <2>1. ~Against(x, y, decision)
    BY <1>4 DEF Against
  <2>2. CASE n \in Of("condition")
    BY <1>1, <1>4, <2>2, UndecidedLeadsNowhere
  <2>3. CASE n \notin Of("condition")
    BY <1>4, <2>1, <2>3 DEF Leads, Decided
  <2> QED BY <2>2, <2>3
<1> QED BY <1>2, <1>3, <1>4

(* What t becomes: done with its step, or as far as it was. *)
Follows(t, a) ==
  \/ Runs(t) /\ a.at \in Waiting
  \/ live[t].at \in Waiting /\ a.at = live[t].at /\ a.seen = live[t].seen

LEMMA CurrentGrown ==
  ASSUME EngineInv, CurrentInv, UndecidedInv, UNCHANGED looping,
         NEW t \in DOMAIN live, NEW a, Follows(t, a), NEW before, visited \subseteq before,
         NEW new \in SUBSET Nodes, new \intersect before = {}, Grown(t, a, before, new),
         \A n \in Nodes : (Runs(t) /\ n = t[1]) \/ decision'[n] = decision[n]
  PROVE  CurrentInv' /\ UndecidedInv'
<1>1. graph' = graph /\ reentries' = reentries /\ Nodes' = Nodes
  BY SameGraph DEF looping
<1>2. /\ visited' = before \union new
      /\ \A n \in Nodes : turn'[n] = IF n \in new THEN turn[n] + 1 ELSE turn[n]
      /\ DOMAIN live' = DOMAIN live \union Started(new)
      /\ \A u \in DOMAIN live : u \notin Started(new) /\ live'[u] = IF u = t THEN a ELSE live[u]
      /\ \A u \in Started(new) : u[1] \in new /\ u[2] = turn[u[1]] + 1 /\ live'[u].at = "step"
  BY DEF Grown
<1>3. \A u \in DOMAIN live : u[1] \in Nodes
  BY DEF EngineInv, LiveInv, Keys
<1>4. Runs(t) => t[1] \in visited
  BY DEF CurrentInv
<1>5. ASSUME NEW u \in DOMAIN live, Runs(u)' \/ ~Outrun(u)'
      PROVE  u[2] = turn'[u[1]] /\ u[1] \in visited'
  <2>1. Runs(u) \/ ~Outrun(u)
    <3>1. CASE u = t
      BY <1>1, <1>2, <1>5, <3>1 DEF Follows, Runs, Outrun
    <3>2. CASE u # t
      BY <1>1, <1>2, <1>5, <3>2 DEF Runs, Outrun
    <3> QED BY <3>1, <3>2
  <2>2. u[2] = turn[u[1]] /\ u[1] \in visited
    BY <2>1 DEF CurrentInv
  <2>3. u[1] \notin new
    BY <2>2
  <2> QED BY <1>2, <1>3, <2>2, <2>3
<1>6. CurrentInv'
  <2> SUFFICES ASSUME NEW u \in DOMAIN live', Runs(u)' \/ ~Outrun(u)'
               PROVE  u[2] = turn'[u[1]] /\ u[1] \in visited'
    BY DEF CurrentInv
  <2>1. CASE u \in Started(new)
    BY <1>2, <2>1
  <2>2. CASE u \in DOMAIN live
    BY <1>5, <2>2
  <2> QED BY <1>2, <2>1, <2>2
<1>7. ASSUME NEW u \in DOMAIN live', Runs(u)' PROVE decision'[u[1]] = "none"
  <2>1. CASE u \in Started(new)
    <3>1. u[1] \in Nodes \ visited
      BY <1>2, <2>1
    <3>2. decision[u[1]] = "none"
      BY <3>1 DEF UndecidedInv
    <3> QED BY <1>4, <3>1, <3>2
  <2>2. CASE u \in DOMAIN live
    <3>1. Runs(u) /\ (Runs(t) => u # t)
      BY <1>2, <1>7, <2>2 DEF Runs, Follows
    <3>2. decision[u[1]] = "none" /\ ~(Runs(t) /\ u[1] = t[1])
      BY <2>2, <3>1, OneRuns DEF UndecidedInv
    <3> QED BY <1>3, <2>2, <3>2
  <2> QED BY <1>2, <2>1, <2>2
<1>8. ASSUME NEW n \in Nodes \ visited' PROVE decision'[n] = "none"
  <2>1. n \notin visited
    BY <1>2, <1>8
  <2> QED BY <1>4, <2>1 DEF UndecidedInv
<1>9. UndecidedInv'
  BY <1>1, <1>7, <1>8 DEF UndecidedInv
<1> QED BY <1>6, <1>9

(* A node that is done with its step stays so while others are entered. *)
LEMMA DoneStays ==
  ASSUME EngineInv, NEW t \in DOMAIN live, NEW a, Follows(t, a), NEW before,
         NEW new \in SUBSET Nodes, Grown(t, a, before, new), NEW n, n \notin new,
         \A u \in DOMAIN live : u[1] = n => ~Runs(u) \/ u = t
  PROVE  \A u \in DOMAIN live' : u[1] = n => ~Runs(u)'
<1> SUFFICES ASSUME NEW u \in DOMAIN live', u[1] = n PROVE ~Runs(u)'
  OBVIOUS
<1>1. u \in DOMAIN live /\ live'[u] = IF u = t THEN a ELSE live[u]
  BY DEF Grown
<1>2. CASE u = t
  BY <1>1, <1>2 DEF Follows, Runs
<1>3. CASE u # t
  BY <1>1, <1>3 DEF Runs
<1> QED BY <1>2, <1>3

LEMMA PassMoves ==
  ASSUME EngineInv, Decisions, OnePass, NEW t \in DOMAIN live, Moves(t)
  PROVE  OnePass'
<1>1. PICK from \in Nodes, forward \in SUBSET Nodes, marked \in SUBSET Nodes,
          new \in SUBSET Nodes, a \in Activations :
        Moved(t, from, forward, marked, new, a) /\ Chose(t, from, forward, a)
  BY DEF Moves
<1> DEFINE before == visited \union marked
<1>2. /\ Runs(t)
      /\ from = t[1] \/ (from \in Of("collect") /\ from \in marked)
      /\ a.at \in Waiting /\ a.from = from /\ a.seen = reentries[t[1]]
      /\ Grown(t, a, before, new) /\ new \subseteq forward \ before
      /\ arrived' = arrived \union Arriving(from, forward)
      /\ skips' = skips /\ skipped' = skipped /\ UNCHANGED looping
  BY <1>1 DEF Moved
<1>3. graph' = graph /\ reentries' = reentries /\ t[1] \in Nodes /\ graph \in Graphs
  BY <1>2, ActivationFields DEF looping, EngineInv
<1>4. visited \subseteq before /\ new \intersect before = {} /\ marked \subseteq before
  BY <1>2
<1>5. /\ \A n \in Nodes : n = t[1] \/ decision'[n] = decision[n]
      /\ \A n \in forward \union a.loops : Leads(from, n, decision')
      /\ \A n \in a.spare : Against(t[1], n, decision')
  BY <1>1 DEF Chose
<1>6. /\ t[1] \in visited /\ decision[t[1]] = "none"
  BY <1>2 DEF OnePass, CurrentInv, UndecidedInv
<1> HIDE DEF before
<1>7. Follows(t, a)
  BY <1>2 DEF Follows
<1>8. CurrentInv' /\ UndecidedInv'
  BY <1>2, <1>4, <1>5, <1>7, CurrentGrown DEF OnePass
<1>9. \A x, y : /\ Leads(x, y, decision) => Leads(x, y, decision')
                /\ Against(x, y, decision) => Against(x, y, decision')
  BY <1>5, <1>6, ChoicesStay
<1>10. visited' = before \union new /\ before \subseteq visited'
  BY <1>2 DEF Grown
<1>11. ASSUME NEW n \in visited, \A u \in DOMAIN live : u[1] = n => ~Runs(u) \/ u = t
       PROVE  \A u \in DOMAIN live' : u[1] = n => ~Runs(u)'
  <2>1. n \notin new
    BY <1>4
  <2> QED BY <1>2, <1>7, <1>11, <2>1, DoneStays
<1>12. \A u \in DOMAIN live : u[1] = t[1] => ~Runs(u) \/ u = t
  BY <1>2, OneRuns DEF OnePass
<1>13. ASSUME NEW p \in arrived'
       PROVE  \/ p \in arrived
              \/ p[1] = from /\ p[2] \in forward /\ from \in before /\ p \notin arrived
  <2>1. p \in arrived \/ p \in {<<from, n>> : n \in forward \intersect Joins}
    BY <1>2 DEF Arriving
  <2>2. from \in before
    BY <1>2, <1>4, <1>6
  <2> QED BY <2>1, <2>2
<1>14. ArrivedInv'
  <2> SUFFICES ASSUME NEW p \in arrived', p[1] \notin skipped'
               PROVE  /\ p[1] \in visited'
                      /\ p[1] \in Of("collect") \/ \A u \in DOMAIN live' : u[1] = p[1] => ~Runs(u)'
    BY <1>3, SameGraph DEF ArrivedInv
  <2>1. CASE p \in arrived
    <3>1. /\ p[1] \in visited
          /\ p[1] \in Of("collect") \/ \A u \in DOMAIN live : u[1] = p[1] => ~Runs(u)
      BY <1>2, <2>1 DEF OnePass, ArrivedInv
    <3> QED BY <1>4, <1>10, <1>11, <3>1
  <2>2. CASE p \notin arrived
    <3>1. p[1] = from /\ from \in before
      BY <1>13, <2>2
    <3>2. CASE from = t[1]
      BY <1>6, <1>10, <1>11, <1>12, <3>1, <3>2
    <3> QED BY <1>2, <1>10, <3>1, <3>2
  <2> QED BY <2>1, <2>2
<1>15. /\ \A n, m : Leads(n, m, decision)' <=> Leads(n, m, decision')
       /\ \A n, m : Dead(n, m, decision)' <=> n \in skipped' \/ Against(n, m, decision')
       /\ \A n : Preds(n)' = Preds(n)
  BY <1>3, SameChoices
<1>16. RealInv'
  <2> SUFFICES ASSUME NEW p \in arrived' \ skips'
               PROVE  p[1] \in visited' /\ Leads(p[1], p[2], decision')
    BY <1>15 DEF RealInv
  <2>1. CASE p \in arrived
    <3>1. p[1] \in visited /\ Leads(p[1], p[2], decision)
      BY <1>2, <2>1 DEF OnePass, RealInv
    <3> QED BY <1>4, <1>9, <1>10, <3>1
  <2>2. CASE p \notin arrived
    BY <1>5, <1>10, <1>13, <2>2
  <2> QED BY <2>1, <2>2
<1>17. PendingInv'
  <2> SUFFICES ASSUME NEW u \in DOMAIN live' PROVE Pending(u, live'[u], Outrun(u)', decision')
    BY <1>3, PendingPrimed
  <2>1. CASE u \in Started(new)
    BY <1>2, <2>1 DEF Grown, Pending
  <2>2. CASE u = t
    <3>1. live'[u] = a
      BY <1>2, <2>2 DEF Grown
    <3> QED BY <1>2, <1>5, <2>2, <3>1 DEF Pending
  <2>3. CASE u \in DOMAIN live /\ u # t
    <3>1. live'[u] = live[u]
      BY <1>2, <2>3 DEF Grown
    <3>2. Pending(u, live[u], Outrun(u), decision)
      BY <2>3 DEF OnePass, PendingInv, Pending
    <3>3. Outrun(u)' <=> Outrun(u)
      BY <1>3, <3>1 DEF Outrun
    <3> QED BY <1>9, <3>1, <3>2, <3>3 DEF Pending
  <2> QED BY <1>2, <2>1, <2>2, <2>3 DEF Grown
<1>18. DeadInv'
  BY <1>2, <1>9, <1>15 DEF OnePass, DeadInv, Dead
<1> QED BY <1>8, <1>14, <1>16, <1>17, <1>18 DEF OnePass

LEMMA PassSpares ==
  ASSUME EngineInv, Decisions, OnePass, NEW t \in DOMAIN live,
         NEW hits, NEW through, NEW new \in SUBSET Nodes, NEW a \in Activations,
         Spared(t, hits, through, new, a)
  PROVE  OnePass'
<1>1. /\ live[t].at \in Waiting /\ ~Outrun(t)
      /\ a.at = live[t].at /\ a.from = live[t].from /\ a.seen = live[t].seen
      /\ a.spare = {} /\ a.loops = live[t].loops
      /\ Grown(t, a, visited, new) /\ new \intersect visited = {}
      /\ skips' = skips \union hits /\ arrived' = arrived \union hits
      /\ skipped' = skipped \union through /\ through \subseteq Nodes
      /\ \A p \in hits : p[1] \in skipped' \/ (p[1] = t[1] /\ p[2] \in live[t].spare)
      /\ \A n \in through : \A p \in Preds(n) :
           <<p, n>> \in skips' \/ p \in skipped' \/ (p = t[1] /\ n \in live[t].spare)
      /\ UNCHANGED looping /\ decision' = decision
  BY DEF Spared
<1>2. graph' = graph /\ reentries' = reentries /\ t[1] \in Nodes /\ graph \in Graphs
  BY <1>1, ActivationFields DEF looping, EngineInv
<1>3. Follows(t, a)
  BY <1>1 DEF Follows
<1>4. CurrentInv' /\ UndecidedInv'
  BY <1>1, <1>3, CurrentGrown DEF OnePass
<1>5. visited' = visited \union new
  BY <1>1 DEF Grown
<1>6. ASSUME NEW n \in visited, \A u \in DOMAIN live : u[1] = n => ~Runs(u)
      PROVE  \A u \in DOMAIN live' : u[1] = n => ~Runs(u)'
  <2>1. n \notin new
    BY <1>1
  <2> QED BY <1>1, <1>3, <1>6, <2>1, DoneStays
<1>7. \A m \in live[t].spare : Against(t[1], m, decision)
  BY <1>1 DEF OnePass, PendingInv
<1>8. /\ \A n, m : Leads(n, m, decision)' <=> Leads(n, m, decision)
      /\ \A n, m : Dead(n, m, decision)' <=> n \in skipped' \/ Against(n, m, decision)
      /\ \A n : Preds(n)' = Preds(n)
  BY <1>1, <1>2, SameChoices
<1>9. \A p \in skips' : p[1] \in skipped' \/ Against(p[1], p[2], decision)
  BY <1>1, <1>7 DEF OnePass, DeadInv, Dead
<1>10. ASSUME NEW n \in skipped', NEW p \in Preds(n)
       PROVE  p \in skipped' \/ Against(p, n, decision)
  <2>1. CASE n \in skipped
    BY <1>1, <1>10, <2>1 DEF OnePass, DeadInv, Dead
  <2>2. CASE n \in through
    <3>1. <<p, n>> \in skips' => p \in skipped' \/ Against(p, n, decision)
      BY <1>9
    <3> QED BY <1>1, <1>7, <1>10, <2>2, <3>1
  <2> QED BY <1>1, <2>1, <2>2
<1>11. DeadInv'
  BY <1>8, <1>9, <1>10 DEF DeadInv
<1>12. ASSUME NEW n \in Nodes, NEW m, Against(n, m, decision)
       PROVE  n \in visited /\ \A u \in DOMAIN live : u[1] = n => ~Runs(u)
  <2>1. decision[n] # "none"
    BY <1>12 DEF Against
  <2> QED BY <2>1 DEF OnePass, UndecidedInv
<1>13. ArrivedInv'
  <2> SUFFICES ASSUME NEW p \in arrived', p[1] \notin skipped'
               PROVE  /\ p[1] \in visited'
                      /\ p[1] \in Of("collect") \/ \A u \in DOMAIN live' : u[1] = p[1] => ~Runs(u)'
    BY <1>2, SameGraph DEF ArrivedInv
  <2>1. /\ p[1] \in visited
        /\ p[1] \in Of("collect") \/ \A u \in DOMAIN live : u[1] = p[1] => ~Runs(u)
    <3>1. CASE p \in arrived
      BY <1>1, <3>1 DEF OnePass, ArrivedInv
    <3>2. CASE p \in hits
      <4>1. p[1] = t[1] /\ p[2] \in live[t].spare
        BY <1>1, <3>2
      <4> QED BY <1>2, <1>7, <1>12, <4>1
    <3> QED BY <1>1, <3>1, <3>2
  <2> QED BY <1>5, <1>6, <2>1
<1>14. RealInv'
  <2>1. arrived' \ skips' \subseteq arrived \ skips
    BY <1>1
  <2> QED BY <1>5, <1>8, <2>1 DEF OnePass, RealInv
<1>15. PendingInv'
  <2> SUFFICES ASSUME NEW u \in DOMAIN live' PROVE Pending(u, live'[u], Outrun(u)', decision')
    BY <1>2, PendingPrimed
  <2>1. CASE u \in Started(new)
    BY <1>1, <2>1 DEF Grown, Pending
  <2>2. CASE u \in DOMAIN live
    <3>1. live'[u] = IF u = t THEN a ELSE live[u]
      BY <1>1, <2>2 DEF Grown
    <3>2. Pending(u, live[u], Outrun(u), decision)
      BY <2>2 DEF OnePass, PendingInv, Pending
    <3>3. Outrun(u)' <=> Outrun(u)
      BY <1>1, <1>2, <3>1 DEF Outrun
    <3> QED BY <1>1, <3>1, <3>2, <3>3 DEF Pending
  <2> QED BY <1>1, <2>1, <2>2 DEF Grown
<1> QED BY <1>4, <1>11, <1>13, <1>14, <1>15 DEF OnePass

(* Only finitely many activations are live. *)
LEMMA LiveFinite ==
  ASSUME EngineInv
  PROVE  IsFiniteSet(DOMAIN live)
<1>1. IsFiniteSet(Nodes) /\ MaxTraversals \in Nat
  BY GraphFacts, EngineAssumption DEF EngineInv
<1>2. IsFiniteSet(0 .. 1 + MaxTraversals)
  BY <1>1, FS_Interval
<1>3. IsFiniteSet(Nodes \X (0 .. 1 + MaxTraversals))
  BY <1>1, <1>2, FS_Product
<1>4. Traversals \in Nat
  <2>1. graph.back \in FiniteSubsetsOf(graph.back)
    BY GraphFacts DEF FiniteSubsetsOf, EngineInv
  <2>2. passes \in [graph.back -> Nat]
    BY EngineAssumption DEF EngineInv, LoopInv
  <2> QED BY <2>1, <2>2, TotalType, TraversalsTotal
<1>5. ASSUME NEW t \in DOMAIN live PROVE t \in Nodes \X (0 .. 1 + MaxTraversals)
  <2>1. t \in Nodes \X Nat /\ t[2] <= turn[t[1]]
    BY DEF EngineInv, LiveInv, Keys
  <2>2. /\ turn[t[1]] \in Nat /\ turn[t[1]] <= reentries[t[1]] + 1 /\ reentries[t[1]] \in Nat
        /\ reentries[t[1]] <= Traversals /\ Traversals <= MaxTraversals
    BY <2>1 DEF EngineInv, LoopInv, Once
  <2>3. t[2] \in 0 .. 1 + MaxTraversals
    BY <1>1, <1>4, <2>1, <2>2
  <2> QED BY <2>1, <2>3
<1>6. DOMAIN live \subseteq Nodes \X (0 .. 1 + MaxTraversals)
  BY <1>5
<1> QED BY <1>3, <1>6, FS_Subset

(* Those that wait for t await something, as t does. *)
LEMMA LineWaits ==
  ASSUME EngineInv, NEW t \in DOMAIN live, live[t].at \in Waiting, NEW u \in Line(t)
  PROVE  u \notin DOMAIN live \/ ~Runs(u)
<1> DEFINE pairs == {<<v, live[v].parent>> : v \in DOMAIN live}
           S == {v \in DOMAIN live : ~Runs(v)}
<1>1. IsFiniteSet(pairs)
  <2>1. pairs \subseteq (DOMAIN live) \X (DOMAIN live \union {None})
    <3>1. \A v \in DOMAIN live : live[v].parent \in DOMAIN live \union {None}
      BY DEF EngineInv, LiveInv
    <3> QED BY <3>1
  <2>2. IsFiniteSet(DOMAIN live) /\ IsFiniteSet({None})
    BY LiveFinite, FS_Singleton
  <2>3. IsFiniteSet((DOMAIN live) \X (DOMAIN live \union {None}))
    <3> DEFINE D == DOMAIN live
    <3>1. IsFiniteSet(D \union {None})
      BY <2>2, FS_Union
    <3> HIDE DEF D
    <3> QED BY <2>2, <3>1, FS_Product DEF D
  <2> QED BY <2>1, <2>3, FS_Subset
<1>2. {t} \ {None} \subseteq S
  BY DEF Runs
<1>3. \A q \in pairs : q[1] \in S /\ q[2] \notin {None} => q[2] \in S
  BY DEF EngineInv, LiveInv, Runs
<1>4. Reachable(pairs, {t}, {None}) \subseteq S
  <2> DEFINE starts == {t}
             without == {None}
  <2>1. starts \ without \subseteq S /\ \A q \in pairs : q[1] \in S /\ q[2] \notin without => q[2] \in S
    BY <1>2, <1>3
  <2> HIDE DEF pairs, S, starts, without
  <2>2. Reachable(pairs, starts, without) \subseteq S
    BY <1>1, <2>1, ReachableLeast
  <2> QED BY <2>2 DEF starts, without
<1> QED BY <1>4 DEF Line

(* What a node leads to is closed. *)
LEMMA ScopeClosed ==
  ASSUME graph \in Graphs, NEW entry, NEW p \in graph.forward, p[1] \in Scope(entry)
  PROVE  p[2] \in Scope(entry)
<1>1. p[2] \notin {} /\ IsFiniteSet(graph.forward)
  BY GraphFacts
<1> QED BY <1>1, ReachableClosed DEF Scope

(* Where the activations that run do not overlap, the body of a loop that is *)
(* re-entered holds none of them.                                            *)
LEMMA BodyIsDone ==
  ASSUME EngineInv, NEW t \in DOMAIN live, NEW entry, NEW a, Looped(t, entry, a), ~overlapped',
         NEW u \in DOMAIN live, Runs(u)
  PROVE  u[1] \notin Scope(entry)
<1>1. live[t].at \in Waiting /\ ~\E v \in DOMAIN live \ Line(t) : v[1] \in Scope(entry)
  BY DEF Looped
<1> QED BY <1>1, LineWaits

LEMMA PassLoops ==
  ASSUME EngineInv, Decisions, SeenInv, OnePass, ~overlapped', NEW t \in DOMAIN live,
         NEW entry \in Nodes, NEW a \in Activations, Looped(t, entry, a)
  PROVE  OnePass'
<1> DEFINE body == Scope(entry)
           before == visited \ body
           new == {entry}
<1>1. /\ entry \in live[t].loops /\ a.at = live[t].at /\ a.from = live[t].from
      /\ a.seen = live[t].seen /\ a.spare = live[t].spare /\ a.loops = live[t].loops \ {entry}
      /\ Grown(t, a, before, new)
      /\ \A n \in Nodes : /\ reentries'[n] = IF n \in body THEN reentries[n] + 1 ELSE reentries[n]
                          /\ decision'[n] = IF n \in body THEN "none" ELSE decision[n]
      /\ arrived' = arrived \ Inside(arrived, body) /\ skips' = skips \ Inside(skips, body)
      /\ skipped' = skipped \ body /\ graph' = graph
  BY DEF Looped
<1>2. /\ graph \in Graphs /\ entry \in body /\ body \subseteq Nodes
      /\ \A p \in graph.forward : p[1] \in body => p[2] \in body
  BY ScopeTypes, ScopeClosed DEF EngineInv
<1>3. \A u \in DOMAIN live : Runs(u) => u[1] \notin body
  BY BodyIsDone
<1>4. \A u \in DOMAIN live : u[1] \in Nodes /\ live[u].seen <= reentries[u[1]] /\ live[u].seen \in Nat
  BY DEF EngineInv, LiveInv, Keys, SeenInv, Activations
<1>5. reentries \in [Nodes -> Nat] /\ arrived \subseteq graph.forward /\ skips \subseteq arrived
  BY DEF EngineInv, LoopInv, SetInv, JoinPairs
<1> HIDE DEF body, before
<1>6. /\ visited' = before \union {entry} /\ before = visited \ body
      /\ DOMAIN live' = DOMAIN live \union Started(new)
      /\ \A u \in Started(new) : /\ u[1] = entry /\ u[2] = turn'[u[1]] /\ u[1] \in visited'
                                 /\ live'[u].loops = {} /\ live'[u].spare = {}
      /\ \A n \in Nodes : n # entry => turn'[n] = turn[n]
  <2> HIDE DEF new
  <2>1. /\ visited' = before \union new /\ DOMAIN live' = DOMAIN live \union Started(new)
        /\ \A n \in Nodes : turn'[n] = IF n \in new THEN turn[n] + 1 ELSE turn[n]
        /\ \A u \in Started(new) : /\ u[1] \in new /\ u[2] = turn[u[1]] + 1
                                   /\ live'[u].loops = {} /\ live'[u].spare = {}
    BY <1>1 DEF Grown
  <2>2. \A n : n \in new <=> n = entry
    BY DEF new
  <2>3. \A u \in Started(new) : u[1] = entry /\ u[2] = turn'[entry]
    BY <2>1, <2>2
  <2> QED BY <2>1, <2>2, <2>3 DEF before
<1>7. ASSUME NEW u \in DOMAIN live
      PROVE  /\ live'[u].at = live[u].at /\ live'[u].seen = live[u].seen
             /\ live'[u].from = live[u].from /\ live'[u].spare = live[u].spare
             /\ live'[u].loops \subseteq live[u].loops
             /\ Runs(u)' <=> Runs(u)
  <2>1. live'[u] = IF u = t THEN a ELSE live[u]
    BY <1>1 DEF Grown
  <2> QED BY <1>1, <2>1 DEF Runs
<1>8. ASSUME NEW u \in DOMAIN live, Runs(u)' \/ ~Outrun(u)'
      PROVE  u[1] \notin body /\ (Runs(u) \/ ~Outrun(u)) /\ (Outrun(u)' <=> Outrun(u))
  <2>1. u[1] \in body => Outrun(u)' /\ ~Runs(u)
    <3>1. u[1] \in body => reentries'[u[1]] = reentries[u[1]] + 1
      BY <1>1, <1>4
    <3>2. u[1] \in body => reentries'[u[1]] # live'[u].seen
      BY <1>4, <1>5, <1>7, <3>1
    <3> QED BY <1>3, <3>2 DEF Outrun
  <2>2. u[1] \notin body
    BY <1>7, <1>8, <2>1
  <2>3. reentries'[u[1]] = reentries[u[1]]
    BY <1>1, <1>4, <2>2
  <2> QED BY <1>7, <1>8, <2>2, <2>3 DEF Outrun
<1>9. CurrentInv'
  <2> SUFFICES ASSUME NEW u \in DOMAIN live', Runs(u)' \/ ~Outrun(u)'
               PROVE  u[2] = turn'[u[1]] /\ u[1] \in visited'
    BY DEF CurrentInv
  <2>1. CASE u \in Started(new)
    BY <1>6, <2>1
  <2>2. CASE u \in DOMAIN live
    <3>1. u[1] \notin body /\ u[1] # entry /\ u[2] = turn[u[1]] /\ u[1] \in visited
      BY <1>2, <1>8, <2>2 DEF OnePass, CurrentInv
    <3> QED BY <1>4, <1>6, <2>2, <3>1
  <2> QED BY <1>6, <2>1, <2>2
<1>10. UndecidedInv'
  <2>1. ASSUME NEW n \in Nodes \ visited' PROVE decision'[n] = "none"
    BY <1>1, <1>6, <2>1 DEF OnePass, UndecidedInv
  <2>2. ASSUME NEW u \in DOMAIN live', Runs(u)' PROVE decision'[u[1]] = "none"
    <3>1. CASE u \in Started(new)
      BY <1>1, <1>2, <1>6, <3>1
    <3>2. CASE u \in DOMAIN live
      BY <1>1, <1>4, <1>7, <2>2, <3>2 DEF OnePass, UndecidedInv
    <3> QED BY <1>6, <3>1, <3>2
  <2>3. Nodes' = Nodes
    BY <1>1, SameGraph
  <2> QED BY <2>1, <2>2, <2>3 DEF UndecidedInv
<1>11. \A p \in arrived' : p \in arrived /\ p[1] \notin body /\ p[1] \in Nodes
  <2> SUFFICES ASSUME NEW p \in arrived' PROVE p \in arrived /\ p[1] \notin body /\ p[1] \in Nodes
    OBVIOUS
  <2>1. p \in arrived /\ p \in graph.forward /\ ~(p[1] \in body /\ p[2] \in body)
    BY <1>1, <1>5 DEF Inside
  <2> QED BY <1>2, <2>1, GraphFacts
<1>12. ArrivedInv'
  <2> SUFFICES ASSUME NEW p \in arrived', p[1] \notin skipped'
               PROVE  /\ p[1] \in visited'
                      /\ p[1] \in Of("collect") \/ \A u \in DOMAIN live' : u[1] = p[1] => ~Runs(u)'
    BY <1>1, SameGraph DEF ArrivedInv
  <2>1. p \in arrived /\ p[1] \notin body /\ p[1] \notin skipped
    BY <1>1, <1>11
  <2>2. /\ p[1] \in visited
        /\ p[1] \in Of("collect") \/ \A u \in DOMAIN live : u[1] = p[1] => ~Runs(u)
    BY <2>1 DEF OnePass, ArrivedInv
  <2>3. \A u \in Started(new) : u[1] # p[1]
    BY <1>2, <1>6, <2>1
  <2> QED BY <1>6, <1>7, <2>1, <2>2, <2>3
<1>13. /\ \A n, m : Leads(n, m, decision)' <=> Leads(n, m, decision')
       /\ \A n, m : Dead(n, m, decision)' <=> n \in skipped' \/ Against(n, m, decision')
       /\ \A n : Preds(n)' = Preds(n)
  BY <1>1, SameChoices
<1>14. ASSUME NEW n \in Nodes \ body, NEW m
       PROVE  /\ Leads(n, m, decision) <=> Leads(n, m, decision')
              /\ Against(n, m, decision) <=> Against(n, m, decision')
  <2>1. decision[n] = decision'[n]
    BY <1>1
  <2> QED BY <1>2, <2>1, ChoiceIsOwn
<1>15. \A p \in skips' : p \in skips /\ p[1] \in Nodes \ body
  BY <1>1, <1>5, <1>11 DEF Inside
<1>16. RealInv'
  <2> SUFFICES ASSUME NEW p \in arrived' \ skips'
               PROVE  p[1] \in visited' /\ Leads(p[1], p[2], decision')
    BY <1>13 DEF RealInv
  <2>1. p \in arrived /\ p[1] \in Nodes \ body
    BY <1>11
  <2>2. p \notin skips
    BY <1>1, <2>1 DEF Inside
  <2> QED BY <1>6, <1>14, <2>1, <2>2 DEF OnePass, RealInv
<1>17. PendingInv'
  <2> SUFFICES ASSUME NEW u \in DOMAIN live' PROVE Pending(u, live'[u], Outrun(u)', decision')
    BY <1>1, PendingPrimed
  <2>1. CASE u \in Started(new)
    BY <1>6, <2>1 DEF Pending
  <2>2. CASE u \in DOMAIN live
    <3>1. Pending(u, live[u], Outrun(u), decision)
      BY <2>2 DEF OnePass, PendingInv, Pending
    <3>2. live[u].loops # {} => live[u].from \in {u[1]} \union Of("collect")
      BY <3>1 DEF Pending
    <3>3. ASSUME ~Outrun(u)', NEW m \in live'[u].loops PROVE Leads(live[u].from, m, decision')
      <4>1. Leads(live[u].from, m, decision) /\ u[1] \in Nodes \ body
        BY <1>4, <1>7, <1>8, <2>2, <3>1, <3>3 DEF Pending
      <4>2. CASE live[u].from = u[1]
        BY <1>14, <4>1, <4>2
      <4>3. CASE live[u].from \in Of("collect")
        <5>1. live[u].from \notin Of("condition")
          BY <4>3 DEF Of
        <5> QED BY <4>1, <5>1 DEF Leads, Decided
      <4> QED BY <1>7, <2>2, <3>2, <3>3, <4>2, <4>3
    <3>4. ASSUME ~Outrun(u)', NEW m \in live'[u].spare PROVE Against(u[1], m, decision')
      BY <1>4, <1>7, <1>8, <1>14, <2>2, <3>1, <3>4 DEF Pending
    <3> QED BY <1>7, <2>2, <3>2, <3>3, <3>4 DEF Pending
  <2> QED BY <1>6, <2>1, <2>2
<1>18. DeadInv'
  <2>1. ASSUME NEW p \in skips' PROVE p[1] \in skipped' \/ Against(p[1], p[2], decision')
    BY <1>1, <1>14, <1>15 DEF OnePass, DeadInv, Dead
  <2>2. ASSUME NEW n \in skipped', NEW p \in Preds(n) PROVE p \in skipped' \/ Against(p, n, decision')
    <3>1. <<p, n>> \in graph.forward /\ p \in Nodes
      BY <1>2, Neighbours
    <3>2. n \in skipped /\ n \notin body
      BY <1>1
    <3>3. p \in Nodes \ body
      BY <1>2, <3>1, <3>2
    <3> QED BY <1>1, <1>14, <3>2, <3>3 DEF OnePass, DeadInv, Dead
  <2> QED BY <1>13, <2>1, <2>2 DEF DeadInv
<1> QED BY <1>9, <1>10, <1>12, <1>16, <1>17, <1>18 DEF OnePass

LEMMA OverlapStays ==
  ASSUME EngineInv, RecordInv, Decisions, [Next]_vars, ~overlapped'
  PROVE  ~overlapped
<1>1. ASSUME NEW t \in DOMAIN live, Moves(t) PROVE overlapped' = overlapped
  <2>1. PICK from \in Nodes, forward \in SUBSET Nodes, marked \in SUBSET Nodes,
             new \in SUBSET Nodes, a \in Activations : Moved(t, from, forward, marked, new, a)
    BY <1>1 DEF Moves
  <2> QED BY <2>1 DEF Moved, looping
<1>2. ASSUME NEW t \in DOMAIN live, NEW entry, NEW a, Looped(t, entry, a), overlapped
      PROVE  overlapped'
  BY <1>2 DEF Looped
<1>3. ASSUME NEW t \in DOMAIN live, NEW hits, NEW through, NEW new, NEW a,
             Spared(t, hits, through, new, a)
      PROVE  overlapped' = overlapped
  BY <1>3 DEF Spared, looping
<1>4. Settles => overlapped' = overlapped
  BY DEF Settles, looping
<1> QED BY <1>1, <1>2, <1>3, <1>4, PassShapes

LEMMA PassStep ==
  ASSUME EngineInv, RecordInv, PassInv, [Next]_vars
  PROVE  PassInv'
<1>1. SeenInv' /\ Decisions'
  BY DecisionsStep, SeenStep DEF PassInv
<1>2. ASSUME ~overlapped' PROVE OnePass'
  <2>1. OnePass /\ Decisions /\ SeenInv
    BY <1>2, OverlapStays DEF PassInv
  <2> QED BY <1>2, <2>1, PassShapes, PassSettles, PassMoves, PassLoops, PassSpares
<1> QED BY <1>1, <1>2 DEF PassInv

LEMMA PassInitially == Init => RecordInv /\ PassInv
<1> SUFFICES ASSUME Init PROVE RecordInv /\ PassInv
  OBVIOUS
<1>1. DOMAIN live = {<<Trigger, 1>>} /\ live[<<Trigger, 1>>] = Fresh(None)
  BY DEF Init
<1>2. /\ Fresh(None).seen = 0 /\ Fresh(None).loops = {} /\ Fresh(None).spare = {}
  BY DEF Fresh
<1>3. Trigger \in Nodes
  BY GraphFacts DEF Init
<1>4. /\ recorded = [n \in Nodes |-> "none"] /\ claimed = {} /\ late = {}
      /\ decision = [n \in Nodes |-> "none"] /\ reentries = [n \in Nodes |-> 0]
      /\ arrived = {} /\ skips = {} /\ skipped = {} /\ visited = {Trigger} /\ turn[Trigger] = 1
  BY <1>3 DEF Init
<1>5. RecordInv
  BY <1>4 DEF RecordInv
<1>6. SeenInv /\ Decisions /\ CurrentInv /\ UndecidedInv
  BY <1>1, <1>2, <1>3, <1>4 DEF SeenInv, Decisions, CurrentInv, UndecidedInv
<1>7. ArrivedInv /\ RealInv /\ PendingInv /\ DeadInv
  BY <1>1, <1>2, <1>4 DEF ArrivedInv, RealInv, PendingInv, DeadInv
<1> QED BY <1>5, <1>6, <1>7 DEF PassInv, OnePass

LEMMA PassInvariant == Spec => [](EngineInv /\ RecordInv /\ PassInv)
<1>1. EngineInv /\ RecordInv /\ PassInv /\ [Next]_vars => RecordInv' /\ PassInv'
  BY RecordStep, PassStep
<1>2. EngineInv /\ [Next]_vars => EngineInv'
  BY PlacedStep, ValueStep DEF EngineInv, Placed
<1> QED BY EngineInitially, PassInitially, <1>1, <1>2, PTL DEF Spec

-----------------------------------------------------------------------------
(* What is entered, and what that waited for.                               *)

LEMMA JoinCompletes ==
  ASSUME EngineInv, RecordInv, Decisions, [Next]_vars,
         NEW j \in Joins, Entered(j), reentries' = reentries
  PROVE  Complete(arrived', j) /\ overlapped' = overlapped
<1>1. j \in Nodes
  BY DEF Joins
<1>2. CASE Settles
  BY <1>2 DEF Settles, Entered
<1>3. ASSUME NEW t \in DOMAIN live, Moves(t)
      PROVE  Complete(arrived', j) /\ overlapped' = overlapped
  <2>1. PICK from \in Nodes, forward \in SUBSET Nodes, marked \in SUBSET Nodes,
            new \in SUBSET Nodes, a \in Activations : Moved(t, from, forward, marked, new, a)
    BY <1>3 DEF Moves
  <2>2. j \in new
    BY <1>1, <2>1 DEF Moved, Grown, Entered
  <2> QED BY <2>1, <2>2 DEF Moved, looping
<1>4. ASSUME NEW t \in DOMAIN live, NEW entry \in Nodes, NEW a, Looped(t, entry, a)
      PROVE  FALSE
  <2>1. reentries'[entry] = reentries[entry] + 1
    BY <1>4, ScopeTypes DEF Looped, EngineInv
  <2>2. reentries[entry] \in Nat
    BY DEF EngineInv, LoopInv
  <2> QED BY <2>1, <2>2
<1>5. ASSUME NEW t \in DOMAIN live, NEW hits, NEW through, NEW new, NEW a,
             Spared(t, hits, through, new, a)
      PROVE  Complete(arrived', j) /\ overlapped' = overlapped
  <2>1. j \in new
    BY <1>1, <1>5 DEF Spared, Grown, Entered
  <2> QED BY <1>5, <2>1 DEF Spared, looping
<1> QED BY <1>2, <1>3, <1>4, <1>5, PassShapes

(* A join starts only when each node before it was skipped or has run and   *)
(* is done with its step and its iterations, although the barrier            *)
(* (convergence-barrier.ts) counts arrivals and knows nothing of steps.      *)
THEOREM JoinsWaitForAll == Spec => JoinsWait
<1>1. ASSUME EngineInv, RecordInv, PassInv, [Next]_vars,
             NEW j \in Joins, Entered(j), reentries' = reentries, ~overlapped, NEW p \in Preds(j)
      PROVE  \/ p \in skipped'
             \/ /\ p \in visited'
                /\ p \in Of("collect") \/ \A t \in DOMAIN live' :
                                            t[1] = p => live'[t].at \in {"await", "iterated"}
  <2>1. Complete(arrived', j) /\ ~overlapped'
    BY <1>1, JoinCompletes DEF PassInv
  <2>2. PICK q \in arrived' : q[1] = p
    BY <2>1 DEF Complete
  <2>3. ArrivedInv'
    BY <1>1, <2>1, PassStep DEF PassInv, OnePass
  <2>4. graph' = graph
    BY <1>1, SameNodes
  <2> QED BY <2>2, <2>3, <2>4, SameGraph DEF ArrivedInv, Runs, Waiting
<1>2. EngineInv /\ RecordInv /\ PassInv /\ [Next]_vars =>
        [\A j \in Joins : Entered(j) /\ reentries' = reentries /\ ~overlapped =>
           \A p \in Preds(j) :
             \/ p \in skipped'
             \/ /\ p \in visited'
                /\ p \in Of("collect") \/ \A t \in DOMAIN live' :
                                            t[1] = p => live'[t].at \in {"await", "iterated"}]_vars
  BY <1>1
<1> QED BY PassInvariant, <1>2, PTL DEF Spec, JoinsWait

(* A node is entered only over an edge whose source was entered and, where  *)
(* that is a condition, chose it: neither a recovered condition, nor a skip  *)
(* that releases a join, nor a failure's signal, nor a loop that is taken in *)
(* time starts a branch that was not taken (continueFromCondition,           *)
(* propagateConvergenceSkips, runLoopIteration).                             *)
THEOREM NoBranchUntaken == Spec => NotTakenNeverRuns
<1> DEFINE Right(n) ==
             \/ \E e \in graph.edges :
                  /\ e[3] = n /\ e[1] \in visited \union visited' \union Of("collect")
                  /\ Decided(e, decision) \/ Decided(e, decision')
             \/ \E t \in DOMAIN live : n \in live[t].loops /\ Outrun(t)
<1>1. ASSUME EngineInv, RecordInv, PassInv, [Next]_vars, NEW n \in Nodes, Entered(n), ~overlapped
      PROVE  Right(n)
  <2>1. OnePass /\ Decisions
    BY <1>1 DEF PassInv
  <2>2. ASSUME NEW p \in visited \union visited' \union Of("collect"),
               Leads(p, n, decision) \/ Leads(p, n, decision')
        PROVE  Right(n)
    BY <2>2 DEF Leads
  <2>3. CASE Settles
    BY <1>1, <2>3 DEF Settles, Entered
  <2>4. ASSUME NEW t \in DOMAIN live, Moves(t) PROVE Right(n)
    <3>1. PICK from \in Nodes, forward \in SUBSET Nodes, marked \in SUBSET Nodes,
              new \in SUBSET Nodes, a \in Activations :
            Moved(t, from, forward, marked, new, a) /\ Chose(t, from, forward, a)
      BY <2>4 DEF Moves
    <3>2. n \in new
      BY <1>1, <3>1 DEF Moved, Grown, Entered
    <3>3. Leads(from, n, decision') /\ (from = t[1] \/ from \in Of("collect")) /\ Runs(t)
      BY <3>1, <3>2 DEF Moved, Chose
    <3>4. t[1] \in visited
      BY <2>1, <3>3 DEF OnePass, CurrentInv
    <3> QED BY <2>2, <3>3, <3>4
  <2>5. ASSUME NEW t \in DOMAIN live, NEW entry, NEW a, Looped(t, entry, a) PROVE Right(n)
    <3>1. n = entry /\ entry \in live[t].loops
      BY <1>1, <2>5 DEF Looped, Grown, Entered
    <3>2. CASE ~Outrun(t)
      <4>1. /\ Leads(live[t].from, n, decision) /\ live[t].from \in {t[1]} \union Of("collect")
            /\ t[1] \in visited
        BY <2>1, <3>1, <3>2 DEF OnePass, PendingInv, CurrentInv
      <4> QED BY <2>2, <4>1
    <3> QED BY <3>1, <3>2
  <2>6. ASSUME NEW t \in DOMAIN live, NEW hits, NEW through, NEW new, NEW a,
               Spared(t, hits, through, new, a)
        PROVE  Right(n)
    <3>1. n \in new
      BY <1>1, <2>6 DEF Spared, Grown, Entered
    <3>2. Complete(arrived', n) /\ ~Complete(skips', n) /\ overlapped' = overlapped /\ decision' = decision
      BY <2>6, <3>1 DEF Spared, looping
    <3>3. PICK p \in Preds(n) : p \notin {q[1] : q \in {x \in skips' : x[2] = n}}
      BY <3>2 DEF Complete
    <3>4. PICK q \in arrived' : q[2] = n /\ q[1] = p
      BY <3>2 DEF Complete
    <3>5. q \in arrived' \ skips'
      BY <3>3, <3>4
    <3>6. RealInv'
      BY <1>1, <3>2, PassStep DEF PassInv, OnePass
    <3>7. p \in visited' /\ Leads(p, n, decision')
      <4>1. graph' = graph
        BY <1>1, SameNodes
      <4>2. q[1] \in visited' /\ Leads(q[1], q[2], decision)'
        BY <3>5, <3>6 DEF RealInv
      <4> QED BY <3>4, <4>1, <4>2, SameChoices
    <3> QED BY <2>2, <3>7
  <2> QED BY <1>1, <2>1, <2>3, <2>4, <2>5, <2>6, PassShapes
<1>2. EngineInv /\ RecordInv /\ PassInv /\ [Next]_vars =>
        [\A n \in Nodes : Entered(n) /\ ~overlapped => Right(n)]_vars
  BY <1>1
<1> QED BY PassInvariant, <1>2, PTL DEF Spec, NotTakenNeverRuns

-----------------------------------------------------------------------------
(* What was entered, was entered from where the conditions lead.            *)

Pairs == {<<e[1], e[3]>> : e \in graph.edges}

(* A For Each and what it leads to. *)
Swept == Reachable(Pairs, Of("foreach"), {})

LEMMA SweptClosed ==
  ASSUME graph \in Graphs
  PROVE  /\ Of("foreach") \subseteq Swept /\ IsFiniteSet(Pairs) /\ graph.forward \subseteq Pairs
         /\ \A p \in Pairs : p[1] \in Swept => p[2] \in Swept
         /\ \A f \in Of("foreach") :
              BodyOf(f) \union InnerCollect(f) \union Aggregate(f) \subseteq Swept
<1>1. /\ IsFiniteSet(Pairs) /\ graph.forward \subseteq Pairs /\ graph.back \subseteq Pairs
      /\ IsFiniteSet(graph.forward)
  <2>1. Pairs = graph.back \union graph.forward
    BY GraphFacts DEF Pairs
  <2> QED BY <2>1, GraphFacts, FS_Union
<1> DEFINE none == {}
           foreach == Of("foreach")
<1>2. \A p \in Pairs : p[1] \in Swept => p[2] \in Swept
  <2> SUFFICES ASSUME NEW p \in Pairs, p[1] \in Swept PROVE p[2] \in Swept
    OBVIOUS
  <2>1. p[2] \notin none /\ Swept = Reachable(Pairs, foreach, none)
    BY DEF Swept
  <2> HIDE DEF none, foreach
  <2> QED BY <1>1, <2>1, ReachableClosed
<1>3. foreach \subseteq Swept
  <2>1. foreach \ none = foreach /\ Swept = Reachable(Pairs, foreach, none)
    BY DEF Swept
  <2> HIDE DEF none, foreach
  <2> QED BY <1>1, <2>1, ReachableType
<1>4. \A n, m : <<n, m>> \in Pairs /\ n \in Swept => m \in Swept
  BY <1>2
<1> HIDE DEF none, foreach
<1>5. ASSUME NEW f \in foreach
      PROVE  BodyOf(f) \union InnerCollect(f) \union Aggregate(f) \subseteq Swept
  <2>1. AllTargets(f) \subseteq Swept
    <3> SUFFICES ASSUME NEW e \in graph.edges, e[1] = f PROVE e[3] \in Swept
      BY DEF AllTargets
    <3>1. <<f, e[3]>> \in Pairs
      BY DEF Pairs
    <3> QED BY <1>3, <1>4, <3>1
  <2>2. Seeds(f) \subseteq Swept
    BY <2>1, Neighbours DEF Seeds
  <2>3. BodyOf(f) \subseteq Swept
    <3> DEFINE starts == Seeds(f)
               without == Of("collect")
    <3>1. /\ BodyOf(f) = Reachable(graph.forward, starts, without)
          /\ starts \ without \subseteq Swept
          /\ \A q \in graph.forward : q[1] \in Swept /\ q[2] \notin without => q[2] \in Swept
      BY <1>1, <1>2, <2>2 DEF BodyOf
    <3> HIDE DEF starts, without
    <3> QED BY <1>1, <3>1, ReachableLeast
  <2>4. \A n \in BodyOf(f) : ForwardFrom(n) \subseteq Swept
    BY <1>1, <1>4, <2>3, Neighbours
  <2>5. InnerCollect(f) \subseteq Swept
    BY <2>2, <2>4 DEF InnerCollect
  <2>6. Targets(f, {"done"}) \subseteq Swept
    BY <2>1, Neighbours
  <2>7. Aggregate(f) \subseteq Swept
    BY <2>5, <2>6 DEF Aggregate
  <2> QED BY <2>3, <2>5, <2>7
<1> QED BY <1>1, <1>2, <1>3, <1>5 DEF foreach

(* Without a For Each there are no iterations to lead from. *)
LEMMA NoIterations ==
  ASSUME graph \in Graphs, Of("foreach") = {}
  PROVE  Swept = {} /\ Bodies = {} /\ PassedOver = {}
<1> DEFINE none == {}
<1>1. none \ none \subseteq none /\ \A q \in Pairs : q[1] \in none /\ q[2] \notin none => q[2] \in none
  OBVIOUS
<1>2. Swept = Reachable(Pairs, none, none)
  BY DEF Swept
<1>3. PassedOver = Reachable(graph.forward, none, none) /\ IsFiniteSet(graph.forward)
  BY GraphFacts DEF PassedOver
<1>4. \A q \in graph.forward : q[1] \in none /\ q[2] \notin none => q[2] \in none
  OBVIOUS
<1> HIDE DEF none
<1>5. Swept \subseteq none
  BY <1>1, <1>2, SweptClosed, ReachableLeast
<1>6. PassedOver \subseteq none
  BY <1>1, <1>3, <1>4, ReachableLeast
<1> QED BY <1>5, <1>6 DEF none, Bodies

(* Behind a loop's entry, every node has a way in from there. *)
LEMMA ScopeHasWay ==
  ASSUME graph \in Graphs, NEW entry \in Nodes, NEW n \in Scope(entry), n # entry
  PROVE  Preds(n) \intersect Scope(entry) # {}
<1> DEFINE none == {}
           starts == {entry}
           S == Scope(entry) \ {n}
<1> SUFFICES ASSUME Preds(n) \intersect Scope(entry) = {} PROVE FALSE
  OBVIOUS
<1>1. starts \ none \subseteq S
  BY ScopeTypes
<1>2. \A q \in graph.forward : q[1] \in S /\ q[2] \notin none => q[2] \in S
  <2> SUFFICES ASSUME NEW q \in graph.forward, q[1] \in S PROVE q[2] \in S
    OBVIOUS
  <2>1. q[2] \in Scope(entry)
    BY ScopeClosed
  <2>2. q[2] # n
    BY DEF Preds
  <2> QED BY <2>1, <2>2
<1>3. Scope(entry) = Reachable(graph.forward, starts, none) /\ IsFiniteSet(graph.forward)
  BY GraphFacts DEF Scope
<1> HIDE DEF S, none, starts
<1>4. Scope(entry) \subseteq S
  BY <1>1, <1>2, <1>3, ReachableLeast
<1> QED BY <1>4 DEF S

(* And no forward edge leads back to the entry. *)
LEMMA NoWayBack ==
  ASSUME graph \in Graphs, NEW entry \in Nodes, NEW p \in Scope(entry)
  PROVE  p \notin Preds(entry)
<1> DEFINE S == {x \in Scope(entry) : entry \in Scope(x)}
<1> SUFFICES ASSUME p \in Preds(entry) PROVE FALSE
  OBVIOUS
<1>1. Scope(entry) \subseteq Nodes /\ \A x \in Nodes : x \in Scope(x)
  BY ScopeTypes
<1>2. <<p, entry>> \in graph.forward
  BY Neighbours
<1>3. entry \in Scope(p)
  BY <1>1, <1>2, ScopeClosed
<1>4. p \in S /\ S \in SUBSET Nodes
  BY <1>1, <1>3
<1>5. PICK m \in S : Preds(m) \intersect S = {}
  <2> HIDE DEF S
  <2> QED BY <1>4, HasFirst
<1>6. m # entry
  BY <1>4, <1>5
<1>7. PICK x \in Preds(m) : x \in Scope(entry)
  BY <1>5, <1>6, ScopeHasWay
<1>8. Scope(m) \subseteq Scope(x)
  <2> DEFINE none == {}
             starts == {m}
  <2>1. <<x, m>> \in graph.forward /\ x \in Nodes
    BY <1>1, <1>7, Neighbours
  <2>2. m \in Scope(x)
    BY <1>1, <2>1, ScopeClosed
  <2>3. starts \ none \subseteq Scope(x)
    BY <2>2
  <2>4. \A q \in graph.forward : q[1] \in Scope(x) /\ q[2] \notin none => q[2] \in Scope(x)
    BY ScopeClosed
  <2>5. Scope(m) = Reachable(graph.forward, starts, none) /\ IsFiniteSet(graph.forward)
    BY GraphFacts DEF Scope
  <2> HIDE DEF none, starts
  <2> QED BY <2>3, <2>4, <2>5, ReachableLeast
<1>9. x \in S
  BY <1>5, <1>7, <1>8
<1> QED BY <1>5, <1>7, <1>9

(* What an activation follows is its own node's edges, or a Collect's. *)
FromInv ==
  \A t \in DOMAIN live : live[t].loops # {} => live[t].from \in {t[1]} \union Swept

(* What has been entered was chosen by something that was entered before it. *)
AliveInv ==
  \A n \in visited \ Swept :
    n = Trigger \/ \E p \in Preds(n) : p \in visited /\ Leads(p, n, decision)

AliveIfTimely == ~overlapped /\ ~revived => AliveInv

LEMMA FromStep ==
  ASSUME EngineInv, RecordInv, Decisions, FromInv, [Next]_vars
  PROVE  FromInv'
<1>1. graph' = graph /\ graph \in Graphs /\ Swept' = Swept
  <2>1. graph' = graph
    BY SameNodes
  <2>2. Of("foreach")' = Of("foreach")
    BY <2>1, SameGraph
  <2> QED BY <2>1, <2>2 DEF Swept, Pairs, EngineInv
<1> SUFFICES ASSUME NEW u \in DOMAIN live', live'[u].loops # {}
             PROVE  live'[u].from \in {u[1]} \union Swept
  BY <1>1 DEF FromInv
<1>2. ASSUME u \in DOMAIN live, live'[u].from = live[u].from, live'[u].loops \subseteq live[u].loops
      PROVE  live'[u].from \in {u[1]} \union Swept
  BY <1>2 DEF FromInv
<1>3. ASSUME NEW t, NEW a, NEW before, NEW new, Grown(t, a, before, new),
             a.from = live[t].from, a.loops \subseteq live[t].loops
      PROVE  live'[u].from \in {u[1]} \union Swept
  <2>1. u \in DOMAIN live
    BY <1>3 DEF Grown
  <2>2. live'[u] = IF u = t THEN a ELSE live[u]
    BY <1>3, <2>1 DEF Grown
  <2> QED BY <1>2, <1>3, <2>1, <2>2
<1>4. CASE Settles
  BY <1>2, <1>4 DEF Settles
<1>5. ASSUME NEW t \in DOMAIN live, Moves(t) PROVE live'[u].from \in {u[1]} \union Swept
  <2>1. PICK from \in Nodes, forward \in SUBSET Nodes, marked \in SUBSET Nodes,
            new \in SUBSET Nodes, a \in Activations : Moved(t, from, forward, marked, new, a)
    BY <1>5 DEF Moves
  <2>2. u \in DOMAIN live /\ live'[u] = IF u = t THEN a ELSE live[u]
    BY <2>1 DEF Moved, Grown
  <2>3. from = t[1] \/ from \in Swept
    <3>1. CASE marked # {}
      <4>1. t[1] \in Of("foreach")
        BY <2>1, <3>1 DEF Moved
      <4>2. marked \subseteq BodyOf(t[1]) \union InnerCollect(t[1]) \union Aggregate(t[1])
        BY <2>1 DEF Moved
      <4>3. marked \subseteq Swept
        BY <1>1, <4>1, <4>2, SweptClosed
      <4> QED BY <2>1, <4>3 DEF Moved
    <3>2. CASE marked = {}
      BY <2>1, <3>2 DEF Moved
    <3> QED BY <3>1, <3>2
  <2>4. a.from = from
    BY <2>1 DEF Moved
  <2> QED BY <1>2, <2>2, <2>3, <2>4
<1>6. ASSUME NEW t, NEW entry, NEW a, Looped(t, entry, a) PROVE live'[u].from \in {u[1]} \union Swept
  <2> DEFINE before == visited \ Scope(entry)
             new == {entry}
  <2>1. Grown(t, a, before, new) /\ a.from = live[t].from /\ a.loops \subseteq live[t].loops
    BY <1>6 DEF Looped
  <2> HIDE DEF before, new
  <2> QED BY <1>3, <2>1
<1>7. ASSUME NEW t, NEW hits, NEW through, NEW new, NEW a, Spared(t, hits, through, new, a)
      PROVE  live'[u].from \in {u[1]} \union Swept
  <2>1. Grown(t, a, visited, new) /\ a.from = live[t].from /\ a.loops \subseteq live[t].loops
    BY <1>7 DEF Spared
  <2> QED BY <1>3, <2>1
<1> QED BY <1>4, <1>5, <1>6, <1>7, PassShapes

(* The entry of a loop that is taken in time had been entered. *)
LEMMA EntryWasEntered ==
  ASSUME EngineInv, OneEntry(graph), AliveInv, CurrentInv, FromInv, NEW t \in DOMAIN live, ~Outrun(t),
         NEW entry \in live[t].loops, entry \notin Swept
  PROVE  entry \in visited \/ entry = Trigger
<1> DEFINE from == live[t].from
           roots == {n \in DOMAIN graph.kind : graph.kind[n] = "trigger"}
           without == {entry}
           W == Reachable(Pairs, roots, without)
<1> SUFFICES ASSUME entry \notin visited, entry # Trigger PROVE FALSE
  OBVIOUS
<1>1. graph \in Graphs /\ <<from, entry>> \in graph.back /\ t[1] \in visited
  BY DEF EngineInv, LiveInv, CurrentInv
<1>2. <<from, entry>> \in Pairs
  BY <1>1, GraphFacts DEF Pairs
<1>3. from = t[1] /\ t[1] \notin Swept
  <2>1. from \notin Swept
    BY <1>1, <1>2, SweptClosed
  <2> QED BY <2>1 DEF FromInv
<1>4. t[1] \notin W
  <2>1. Reachable({<<e[1], e[3]>> : e \in graph.edges}, roots, {entry}) = W
    BY DEF Pairs
  <2> HIDE DEF W, roots
  <2>2. <<t[1], entry>> \in graph.back
    BY <1>1, <1>3
  <2> QED BY <2>1, <2>2 DEF OneEntry, roots
<1>5. IsFiniteSet(Pairs) /\ graph.forward \subseteq Pairs
  BY <1>1, SweptClosed
<1>6. Trigger \in W
  <2>1. Trigger \in roots \ without
    BY <1>1, EngineAssumption DEF Trigger, Drawn, Nodes
  <2> HIDE DEF roots, without
  <2> QED BY <1>5, <2>1, ReachableType
<1>7. \A q \in Pairs : q[1] \in W /\ q[2] # entry => q[2] \in W
  <2> HIDE DEF roots
  <2> SUFFICES ASSUME NEW q \in Pairs, q[1] \in W, q[2] # entry PROVE q[2] \in W
    OBVIOUS
  <2>1. q[2] \notin without
    OBVIOUS
  <2> HIDE DEF without
  <2> QED BY <1>5, <2>1, ReachableClosed
<1> DEFINE S == visited \ (Swept \union W)
<1> HIDE DEF W
<1>8. S # {} /\ S \in SUBSET Nodes
  BY <1>1, <1>3, <1>4 DEF EngineInv, SetInv
<1>9. PICK n \in S : Preds(n) \intersect S = {}
  <2> HIDE DEF S
  <2> QED BY <1>1, <1>8, HasFirst
<1>10. PICK p \in Preds(n) : p \in visited
  BY <1>6, <1>9 DEF AliveInv
<1>11. <<p, n>> \in Pairs
  BY <1>1, <1>5, <1>10, Neighbours
<1>12. p \notin Swept
  <2>1. p \in Swept => n \in Swept
    BY <1>1, <1>11, SweptClosed
  <2> QED BY <1>9, <2>1
<1>13. p \in W
  BY <1>9, <1>10, <1>12
<1>14. n # entry
  BY <1>9
<1>15. n \in W
  BY <1>7, <1>11, <1>13, <1>14
<1> QED BY <1>9, <1>15

(* What a released join was entered over: an arrival that was no skip. *)
LEMMA ReleasedOver ==
  ASSUME EngineInv, RealInv', NEW t, NEW hits, NEW through, NEW new, NEW a,
         Spared(t, hits, through, new, a), NEW n \in new
  PROVE  \E p \in Preds(n) : p \in visited' /\ Leads(p, n, decision')
<1>1. Complete(arrived', n) /\ ~Complete(skips', n) /\ graph' = graph
  BY DEF Spared, looping
<1>2. PICK p \in Preds(n) : p \notin {q[1] : q \in {x \in skips' : x[2] = n}}
  BY <1>1 DEF Complete
<1>3. PICK q \in arrived' : q[2] = n /\ q[1] = p
  BY <1>1 DEF Complete
<1>4. q \in arrived' \ skips'
  BY <1>2, <1>3
<1>5. q[1] \in visited' /\ Leads(q[1], q[2], decision)'
  BY <1>4 DEF RealInv
<1>6. p \in visited' /\ Leads(p, n, decision')
  BY <1>1, <1>3, <1>5, SameChoices
<1> QED BY <1>6

LEMMA AliveStep ==
  ASSUME \A g \in Graphs : OneEntry(g), EngineInv, RecordInv, PassInv, FromInv, AliveIfTimely,
         [Next]_vars
  PROVE  AliveIfTimely'
<1> SUFFICES ASSUME ~overlapped', ~revived' PROVE AliveInv'
  BY DEF AliveIfTimely
<1>1. ~overlapped /\ OnePass /\ Decisions /\ PassInv' /\ OnePass'
  BY OverlapStays, PassStep DEF PassInv
<1>2. /\ graph' = graph /\ graph \in Graphs /\ Nodes' = Nodes /\ Trigger' = Trigger /\ Swept' = Swept
      /\ (\A n : Preds(n)' = Preds(n)) /\ (\A n, m : Leads(n, m, decision)' <=> Leads(n, m, decision'))
  <2>1. graph' = graph
    BY SameNodes
  <2>2. Of("foreach")' = Of("foreach")
    BY <2>1, SameGraph
  <2> QED BY <2>1, <2>2, SameChoices DEF Swept, Pairs, EngineInv, Trigger, Nodes
<1> DEFINE Alive(n) == n = Trigger \/ \E p \in Preds(n) : p \in visited' /\ Leads(p, n, decision')
<1> SUFFICES ASSUME NEW n \in visited' \ Swept PROVE Alive(n)
  BY <1>2 DEF AliveInv
<1>3. ASSUME NEW from, <<from, n>> \in graph.forward PROVE from \notin Swept
  BY <1>2, <1>3, SweptClosed
<1>4. ASSUME AliveInv, n \in visited, visited \subseteq visited',
             \A x, y : Leads(x, y, decision) => Leads(x, y, decision')
      PROVE  Alive(n)
  BY <1>4 DEF AliveInv
<1>5. CASE Settles
  <2>1. ~revived /\ decision' = decision /\ visited \subseteq visited'
    BY <1>5 DEF Settles, looping
  <2>2. n \in visited
    <3> SUFFICES ASSUME n \notin visited PROVE FALSE
      OBVIOUS
    <3>1. PICK f \in Of("foreach") : n \in BodyOf(f) \union InnerCollect(f) \union Aggregate(f)
      BY <1>5 DEF Settles
    <3> QED BY <1>2, <3>1, SweptClosed
  <2> QED BY <1>1, <1>4, <2>1, <2>2 DEF AliveIfTimely
<1>6. ASSUME NEW t \in DOMAIN live, Moves(t) PROVE Alive(n)
  <2>1. PICK from \in Nodes, forward \in SUBSET Nodes, marked \in SUBSET Nodes,
            new \in SUBSET Nodes, a \in Activations :
          Moved(t, from, forward, marked, new, a) /\ Chose(t, from, forward, a)
    BY <1>6 DEF Moves
  <2>2. /\ visited' = visited \union marked \union new /\ new \subseteq forward /\ ~revived /\ Runs(t)
    BY <2>1 DEF Moved, Grown, looping
  <2>3. decision[t[1]] = "none" /\ t[1] \in visited
    BY <1>1, <2>2 DEF OnePass, UndecidedInv, CurrentInv
  <2>4. \A m \in Nodes : m = t[1] \/ decision'[m] = decision[m]
    BY <2>1 DEF Chose
  <2>5. \A x, y : Leads(x, y, decision) => Leads(x, y, decision')
    BY <1>1, <2>3, <2>4, ChoicesStay
  <2>6. marked \subseteq Swept
    <3>1. marked # {} => t[1] \in Of("foreach")
      BY <2>1 DEF Moved
    <3>2. marked \subseteq BodyOf(t[1]) \union InnerCollect(t[1]) \union Aggregate(t[1])
      BY <2>1 DEF Moved
    <3> QED BY <1>2, <3>1, <3>2, SweptClosed
  <2>7. CASE n \in visited
    BY <1>1, <1>4, <2>2, <2>5, <2>7 DEF AliveIfTimely
  <2>8. CASE n \in new
    <3>1. /\ <<from, n>> \in graph.forward /\ Leads(from, n, decision')
          /\ from = t[1] \/ from \in marked
      BY <2>1, <2>2, <2>8 DEF Moved, Chose
    <3>2. from \in visited' /\ from \in Preds(n)
      BY <1>2, <2>2, <2>3, <3>1, Neighbours
    <3> QED BY <3>1, <3>2
  <2> QED BY <2>2, <2>6, <2>7, <2>8
<1>7. ASSUME NEW t \in DOMAIN live, NEW entry \in Nodes, NEW a, Looped(t, entry, a) PROVE Alive(n)
  <2>1. /\ ~revived /\ ~Outrun(t) /\ entry \in live[t].loops
        /\ visited' = (visited \ Scope(entry)) \union {entry}
        /\ \A m \in Nodes : decision'[m] = IF m \in Scope(entry) THEN "none" ELSE decision[m]
    BY <1>7 DEF Looped, Grown
  <2>2. AliveInv
    BY <1>1, <2>1 DEF AliveIfTimely
  <2>3. n \in visited \/ n = Trigger
    <3>1. n = entry => OneEntry(graph) /\ entry \notin Swept
      BY <1>2
    <3>2. CurrentInv
      BY <1>1 DEF OnePass
    <3> QED BY <2>1, <2>2, <3>1, <3>2, EntryWasEntered
  <2>4. CASE n # Trigger
    <3>1. PICK p \in Preds(n) : p \in visited /\ Leads(p, n, decision)
      BY <2>2, <2>3, <2>4 DEF AliveInv
    <3>2. p \notin Scope(entry)
      <4>1. CASE n = entry
        BY <1>2, <4>1, NoWayBack
      <4>2. CASE n # entry
        <5>1. n \notin Scope(entry) /\ <<p, n>> \in graph.forward
          BY <1>2, <2>1, <3>1, <4>2, Neighbours
        <5> QED BY <1>2, <5>1, ScopeClosed
      <4> QED BY <4>1, <4>2
    <3>3. p \in Nodes /\ decision'[p] = decision[p]
      BY <1>2, <2>1, <3>2, Neighbours
    <3>4. Leads(p, n, decision')
      BY <1>2, <3>1, <3>3, ChoiceIsOwn
    <3> QED BY <2>1, <3>1, <3>2, <3>4
  <2> QED BY <2>4
<1>8. ASSUME NEW t \in DOMAIN live, NEW hits, NEW through, NEW new, NEW a,
             Spared(t, hits, through, new, a)
      PROVE  Alive(n)
  <2>1. visited' = visited \union new /\ ~revived /\ decision' = decision
    BY <1>8 DEF Spared, Grown, looping
  <2>2. CASE n \in visited
    BY <1>1, <1>4, <2>1, <2>2 DEF AliveIfTimely
  <2>3. CASE n \in new
    <3>1. RealInv'
      BY <1>1 DEF OnePass
    <3> QED BY <1>8, <2>3, <3>1, ReleasedOver
  <2> QED BY <2>1, <2>2, <2>3
<1> QED BY <1>1, <1>5, <1>6, <1>7, <1>8, PassShapes

LEMMA AliveInitially == Init => FromInv /\ AliveInv
<1> SUFFICES ASSUME Init PROVE FromInv /\ AliveInv
  OBVIOUS
<1>1. DOMAIN live = {<<Trigger, 1>>} /\ live[<<Trigger, 1>>].loops = {} /\ visited = {Trigger}
  BY DEF Init, Fresh
<1> QED BY <1>1 DEF FromInv, AliveInv

(* Behind what is wired to both handles, everything counts as wired to both. *)
LEMMA BothWaysClosed ==
  ASSUME graph \in Graphs
  PROVE  /\ \A p \in graph.forward : p[1] \in BothWays => p[2] \in BothWays
         /\ \A n \in Nodes, p \in Nodes :
              p \in Preds(n) /\ n \in Targets(p, {"true"}) \intersect Targets(p, {"false"}) =>
                n \in BothWays
<1> DEFINE none == {}
           starts == {n \in Nodes : \E p \in Preds(n) :
                        n \in Targets(p, {"true"}) \intersect Targets(p, {"false"})}
<1>1. BothWays = Reachable(graph.forward, starts, none) /\ IsFiniteSet(graph.forward)
  BY GraphFacts DEF BothWays
<1>2. \A p \in graph.forward : p[1] \in BothWays => p[2] \in BothWays
  <2> SUFFICES ASSUME NEW p \in graph.forward, p[1] \in BothWays PROVE p[2] \in BothWays
    OBVIOUS
  <2>1. p[2] \notin none
    OBVIOUS
  <2> HIDE DEF none, starts
  <2> QED BY <1>1, <2>1, ReachableClosed
<1>3. starts \subseteq BothWays
  <2>1. starts \ none = starts
    OBVIOUS
  <2> HIDE DEF none, starts
  <2> QED BY <1>1, <2>1, ReachableType
<1> QED BY <1>2, <1>3

(* A node wired to both handles of its condition follows from it either way. *)
LEMMA BothHandles ==
  ASSUME EngineInv, Decisions, NEW n \in Nodes, NEW p \in Preds(n),
         Leads(p, n, decision), Against(p, n, decision)
  PROVE  n \in BothWays
<1>1. graph \in Graphs /\ p \in Nodes
  BY Neighbours DEF EngineInv
<1>2. decision[p] \in {"true", "false"} /\ p \in Of("condition")
  BY <1>1 DEF Against, Decisions
<1>3. PICK x \in graph.edges : x[1] = p /\ x[2] = Opposite(decision[p]) /\ x[3] = n
  BY DEF Against, Targets
<1>4. HasHandles(p)
  BY <1>2, <1>3 DEF HasHandles, Opposite
<1>5. PICK e \in graph.edges : e[1] = p /\ e[3] = n /\ e[2] = decision[p]
  BY <1>2, <1>4 DEF Leads, Decided
<1>6. n \in Targets(p, {"true"}) /\ n \in Targets(p, {"false"})
  BY <1>2, <1>3, <1>5 DEF Targets, Opposite
<1> QED BY <1>1, <1>6, BothWaysClosed

(* What has been skipped has a way in. *)
WayInv == \A n \in skipped : Preds(n) # {}

LEMMA WayStep ==
  ASSUME EngineInv, RecordInv, Decisions, WayInv, [Next]_vars
  PROVE  WayInv'
<1>1. \A n : Preds(n)' = Preds(n)
  BY SameNodes, SameChoices
<1>2. ASSUME NEW t \in DOMAIN live, Moves(t) PROVE skipped' = skipped
  <2>1. PICK from \in Nodes, forward \in SUBSET Nodes, marked \in SUBSET Nodes,
            new \in SUBSET Nodes, a \in Activations : Moved(t, from, forward, marked, new, a)
    BY <1>2 DEF Moves
  <2> QED BY <2>1 DEF Moved
<1>3. ASSUME NEW t, NEW hits, NEW through, NEW new, NEW a, Spared(t, hits, through, new, a)
      PROVE  \A n \in skipped' : n \in skipped \/ Preds(n) # {}
  BY <1>3 DEF Spared
<1>4. ASSUME NEW t, NEW entry, NEW a, Looped(t, entry, a) PROVE skipped' \subseteq skipped
  BY <1>4 DEF Looped
<1>5. Settles => skipped' = skipped
  BY DEF Settles, joining
<1> QED BY <1>1, <1>2, <1>3, <1>4, <1>5, PassShapes DEF WayInv

(* A node counted as skipped, whose failure the verdict leaves out           *)
(* (computeFinalSuccess), did not run in this pass, where loops have one     *)
(* entry and none was taken by an activation that had been outrun; and the   *)
(* bodies of For Each nodes, which are marked as run whole, and what is      *)
(* behind them aside.                                                        *)
THEOREM SkippedNeverRan ==
  ASSUME \A g \in Graphs : OneEntry(g)
  PROVE  Spec => [](~revived => /\ \A n \in skipped \intersect visited :
                                     n \in BothWays \union Swept \/ overlapped
                                /\ Of("foreach") = {} => SkippedDidNotRun)
<1> DEFINE Inv == EngineInv /\ RecordInv /\ PassInv
           Alive == FromInv /\ AliveIfTimely /\ WayInv
           Goal == ~revived => /\ \A n \in skipped \intersect visited :
                                    n \in BothWays \union Swept \/ overlapped
                               /\ Of("foreach") = {} => SkippedDidNotRun
<1>1. Init => Alive
  <2>1. Init => skipped = {}
    BY DEF Init
  <2> QED BY <2>1, AliveInitially DEF AliveIfTimely, WayInv
<1>2. Inv /\ Alive /\ [Next]_vars => Alive'
  BY FromStep, AliveStep, WayStep DEF PassInv
<1>3. ASSUME Inv, Alive, ~revived, ~overlapped
      PROVE  skipped \intersect visited \subseteq BothWays \union Swept
  <2> DEFINE S == (skipped \intersect visited) \ (BothWays \union Swept)
  <2>1. graph \in Graphs /\ Decisions /\ DeadInv /\ AliveInv /\ S \in SUBSET Nodes
    BY <1>3 DEF EngineInv, SetInv, PassInv, OnePass, AliveIfTimely
  <2> SUFFICES ASSUME S # {} PROVE FALSE
    OBVIOUS
  <2>2. PICK n \in S : Preds(n) \intersect S = {}
    <3> HIDE DEF S
    <3> QED BY <2>1, HasFirst
  <2>3. n # Trigger
    BY <1>3, <2>1, <2>2, GraphFacts DEF WayInv
  <2>4. PICK p \in Preds(n) : p \in visited /\ Leads(p, n, decision)
    BY <2>1, <2>2, <2>3 DEF AliveInv
  <2>5. p \in Nodes /\ <<p, n>> \in graph.forward
    BY <2>1, <2>4, Neighbours
  <2>6. p \notin BothWays /\ p \notin Swept
    <3>1. p \in BothWays => n \in BothWays
      BY <2>1, <2>5, BothWaysClosed
    <3>2. p \in Swept => n \in Swept
      BY <2>1, <2>5, SweptClosed
    <3> QED BY <2>2, <3>1, <3>2
  <2>7. p \notin skipped
    BY <2>2, <2>4, <2>6
  <2>8. Against(p, n, decision)
    BY <2>1, <2>2, <2>4, <2>7 DEF DeadInv, Dead
  <2> QED BY <1>3, <2>1, <2>2, <2>4, <2>8, BothHandles
<1>4. Inv /\ Alive => Goal
  BY <1>3, NoIterations DEF SkippedDidNotRun, EngineInv
<1> QED BY PassInvariant, <1>1, <1>2, <1>4, PTL DEF Spec


-----------------------------------------------------------------------------
(* What ran was followed, and what was completed was entered or skipped.    *)

(* The nodes that findOrphanedNodes can take an accusation from: what they  *)
(* lead to is due once they have run.                                       *)
Followed ==
  Nodes \ (Of("condition") \union Of("foreach") \union Of("collect") \union Bodies)
AtWork(p) == \E t \in DOMAIN live : t[1] = p /\ Runs(t)
Served(p) ==
  \A n \in ForwardFrom(p) : IF n \in Joins THEN <<p, n>> \in arrived ELSE n \in visited

(* A node that was entered is at work, has failed, or has told all that it  *)
(* leads to.                                                                *)
ServedInv ==
  \A p \in visited \intersect Followed : AtWork(p) \/ result[p] \in Failed \/ Served(p)

(* A join that has heard of all its sources was entered or skipped. *)
JoinedInv == \A n \in Joins : Complete(arrived, n) => n \in visited \union skipped

(* Results are final with the verdict, and only that accuses or absolves. *)
FinalInv ==
  IF verdict = "none" THEN \A n \in Nodes : result[n] \notin {"orphan", "reconciled"}
  ELSE DOMAIN live = {}

(* What these speak of changes with a step as its parts do. *)
LEMMA SameDuties ==
  ASSUME graph' = graph
  PROVE  /\ Followed' = Followed /\ Nodes' = Nodes /\ Joins' = Joins
         /\ \A n : ForwardFrom(n)' = ForwardFrom(n) /\ Preds(n)' = Preds(n)
<1>1. \A n : ForwardFrom(n)' = ForwardFrom(n) /\ Preds(n)' = Preds(n)
  BY DEF ForwardFrom, Preds
<1> QED BY <1>1, SameGraph DEF Followed

(* Arrivals and entries do not undo what was served. *)
LEMMA StaysServed ==
  ASSUME graph' = graph, NEW p, Served(p), arrived \subseteq arrived', visited \subseteq visited'
  PROVE  Served(p)'
BY SameDuties DEF Served

LEMMA StaysComplete ==
  ASSUME graph' = graph, NEW n, Complete(arrived', n), \A q \in arrived' : q[2] = n => q \in arrived
  PROVE  Complete(arrived, n)
BY DEF Complete

(* The end of a step says nothing of the results of others, Collects aside. *)
LEMMA ResultsAreOwn ==
  ASSUME EngineInv, NEW t \in DOMAIN live, StepEnds(t)
  PROVE  /\ verdict' = verdict
         /\ \A p \in Nodes \ {t[1]} :
              result'[p] = result[p] \/ (p \in Of("collect") /\ t[1] \in Of("foreach"))
         /\ \A p \in Nodes : result'[p] \in {"orphan", "reconciled"} => result'[p] = result[p]
<1>1. graph \in Graphs /\ t[1] \in Nodes /\ result \in [Nodes -> Results]
  BY ActivationFields DEF EngineInv, ValueInv
<1>2. ASSUME NEW r, r \notin {"orphan", "reconciled"}, result' = Assign(result, t[1], r)
      PROVE  /\ \A p \in Nodes \ {t[1]} : result'[p] = result[p]
             /\ \A p \in Nodes : result'[p] \in {"orphan", "reconciled"} => result'[p] = result[p]
  BY <1>1, <1>2 DEF Assign
<1>3. CASE StepSucceeds(t) \/ StepReused(t)
  <2>1. verdict' = verdict /\ result' = Assign(result, t[1], "ok")
    BY <1>3 DEF StepSucceeds, StepReused, Succeed, ended
  <2> QED BY <1>2, <2>1
<1>4. CASE DisabledPassed(t)
  BY <1>4 DEF DisabledPassed, ended
<1>5. CASE StepReturnsFailure(t)
  <2>1. verdict' = verdict /\ result' = Assign(result, t[1], "failed")
    BY <1>5 DEF StepReturnsFailure, ended
  <2> QED BY <1>2, <2>1
<1>6. CASE StepThrows(t)
  <2>1. PICK error \in {"failed", "retries"} :
          verdict' = verdict /\ result' = Assign(result, t[1], error)
    BY <1>6 DEF StepThrows, ended
  <2>2. error \notin {"orphan", "reconciled"}
    OBVIOUS
  <2> QED BY <1>2, <2>1, <2>2
<1>7. CASE CompletionRecovered(t)
  <2>1. verdict' = verdict /\ result' = Assign(result, t[1], "ok")
    BY <1>7 DEF CompletionRecovered, ended
  <2> QED BY <1>2, <2>1
<1>8. CASE CompletionLost(t)
  <2>1. verdict' = verdict /\ result' = Assign(result, t[1], "retries")
    BY <1>8 DEF CompletionLost, ended
  <2> QED BY <1>2, <2>1
<1>9. CASE IterationsSucceed(t)
  <2>1. /\ verdict' = verdict
        /\ result' = [n \in Nodes |-> IF n \in Aggregate(t[1]) THEN "ok" ELSE result[n]]
        /\ live[t].at = "iterating"
    BY <1>9 DEF IterationsSucceed, ended
  <2>2. Aggregate(t[1]) \subseteq Of("collect") /\ t[1] \in Of("foreach")
    BY <1>1, <2>1, IterationTypes DEF EngineInv, LiveInv
  <2> QED BY <2>1, <2>2
<1>10. CASE IterationsFail(t)
  <2> DEFINE unfed == Aggregate(t[1]) \union (IF Aggregate(t[1]) = {} THEN {} ELSE InnerCollect(t[1]))
  <2>1. /\ verdict' = verdict
        /\ result' = [n \in Nodes |-> IF n \in unfed \union {t[1]} THEN "failed" ELSE result[n]]
        /\ live[t].at = "iterating"
    BY <1>10 DEF IterationsFail, ended
  <2>2. unfed \subseteq Of("collect") /\ t[1] \in Of("foreach")
    BY <1>1, <2>1, IterationTypes DEF EngineInv, LiveInv
  <2> HIDE DEF unfed
  <2> QED BY <2>1, <2>2
<1>11. CASE IterationsThrow(t)
  <2>1. PICK error \in {"failed", "retries", "ok"} :
          verdict' = verdict /\ result' = Assign(result, t[1], error)
    BY <1>11 DEF IterationsThrow, ended
  <2>2. error \notin {"orphan", "reconciled"}
    OBVIOUS
  <2> QED BY <1>2, <2>1, <2>2
<1> QED BY <1>3, <1>4, <1>5, <1>6, <1>7, <1>8, <1>9, <1>10, <1>11 DEF StepEnds

LEMMA MovesServe ==
  ASSUME EngineInv, ServedInv, JoinedInv, graph' = graph, NEW t \in DOMAIN live, Moves(t),
         \A p \in Nodes \ (Of("collect") \union {t[1]}) : result'[p] = result[p]
  PROVE  ServedInv' /\ JoinedInv'
<1>1. PICK from \in Nodes, forward \in SUBSET Nodes, marked \in SUBSET Nodes,
          new \in SUBSET Nodes, a \in Activations :
        Moved(t, from, forward, marked, new, a) /\ Told(t, forward, a)
  BY DEF Moves
<1>2. graph \in Graphs /\ t[1] \in Nodes /\ Runs(t)
  BY <1>1, ActivationFields DEF EngineInv, Moved
<1>3. /\ Grown(t, a, visited \union marked, new)
      /\ arrived' = arrived \union Arriving(from, forward) /\ skipped' = skipped
      /\ marked # {} => t[1] \in Of("foreach")
      /\ from = t[1] \/ (from \in Of("collect") /\ from \in marked)
  BY <1>1 DEF Moved
<1>4. visited' = visited \union marked \union new
  BY <1>3 DEF Grown
<1>5. marked \intersect Followed = {}
  <2>1. marked \subseteq BodyOf(t[1]) \union InnerCollect(t[1]) \union Aggregate(t[1])
    BY <1>1 DEF Moved
  <2> QED BY <1>2, <1>3, <2>1, IterationTypes DEF Followed
<1>6. ASSUME NEW p \in visited' \intersect Followed
      PROVE  AtWork(p)' \/ result'[p] \in Failed \/ Served(p)'
  <2>1. p \in Nodes /\ p \notin Of("collect")
    BY DEF Followed
  <2>2. CASE p \in new
    <3>1. <<p, turn[p] + 1>> \in Started(new)
      BY <2>2 DEF Started
    <3>2. <<p, turn[p] + 1>> \in DOMAIN live' /\ live'[<<p, turn[p] + 1>>].at = "step"
      BY <1>3, <3>1 DEF Grown
    <3> QED BY <3>2 DEF AtWork, Runs, Waiting
  <2>3. CASE p = t[1]
    <3>1. t[1] \notin Of("condition") \union Of("foreach") /\ from = p
      BY <1>3, <2>3 DEF Followed
    <3>2. ASSUME \A n \in ForwardFrom(p) :
                   Leads(p, n, decision') => n \in forward /\ (n \in Joins \/ n \in visited')
          PROVE  Served(p)'
      <4>1. \A n \in forward \intersect Joins : <<p, n>> \in arrived'
        BY <1>3, <3>1 DEF Arriving
      <4>2. \A n \in ForwardFrom(p) : Leads(p, n, decision')
        BY <1>2, <2>3, <3>1, NoChoice, Neighbours
      <4> QED BY <3>2, <4>1, <4>2, SameDuties DEF Served
    <3> QED BY <1>1, <2>3, <3>1, <3>2 DEF Told
  <2>4. CASE p \in visited /\ p # t[1]
    <3>1. result'[p] = result[p]
      BY <2>1, <2>4
    <3>2. ASSUME NEW u \in DOMAIN live, u[1] = p, Runs(u) PROVE AtWork(p)'
      <4>1. u \in DOMAIN live' /\ live'[u] = live[u]
        BY <1>3, <2>4, <3>2 DEF Grown
      <4> QED BY <3>2, <4>1 DEF AtWork, Runs
    <3>3. Served(p) => Served(p)'
      BY <1>3, <1>4, StaysServed
    <3> QED BY <2>4, <3>1, <3>2, <3>3 DEF ServedInv, AtWork
  <2> QED BY <1>4, <1>5, <2>2, <2>3, <2>4
<1>7. ASSUME NEW n \in Joins, Complete(arrived', n) PROVE n \in visited' \union skipped'
  <2>1. CASE n \in forward
    <3>1. n \in visited \union marked \union new
      BY <1>1, <1>7, <2>1 DEF Moved
    <3> QED BY <1>4, <3>1
  <2>2. CASE n \notin forward
    <3>1. \A q \in arrived' : q[2] = n => q \in arrived
      BY <1>3, <2>2 DEF Arriving
    <3>2. Complete(arrived, n)
      BY <1>7, <3>1, StaysComplete
    <3> QED BY <1>3, <1>4, <3>2 DEF JoinedInv
  <2> QED BY <2>1, <2>2
<1>8. ServedInv'
  BY <1>6, SameDuties DEF ServedInv
<1>9. JoinedInv'
  <2>1. \A n : Complete(arrived, n)' <=> Complete(arrived', n)
    BY SameChoices
  <2> QED BY <1>7, <2>1, SameDuties DEF JoinedInv
<1> QED BY <1>8, <1>9

(* A step that enters nobody, lets nothing arrive and undoes no failure.    *)
LEMMA OthersServe ==
  ASSUME EngineInv, ServedInv, JoinedInv, graph' = graph, arrived' = arrived, skipped' = skipped,
         visited \subseteq visited', (visited' \ visited) \intersect Followed = {},
         \A p \in Followed : result[p] \in Failed => result'[p] \in Failed,
         \A p \in Followed : AtWork(p) => AtWork(p)' \/ result'[p] \in Failed
  PROVE  ServedInv' /\ JoinedInv'
<1>1. ASSUME NEW p \in visited' \intersect Followed
      PROVE  AtWork(p)' \/ result'[p] \in Failed \/ Served(p)'
  <2>1. p \in visited /\ p \in Followed
    OBVIOUS
  <2>2. Served(p) => Served(p)'
    BY StaysServed
  <2> QED BY <2>1, <2>2 DEF ServedInv
<1>2. \A n : Complete(arrived, n)' <=> Complete(arrived, n)
  BY SameChoices
<1>3. JoinedInv'
  BY <1>2, SameDuties DEF JoinedInv
<1> QED BY <1>1, <1>3, SameDuties DEF ServedInv

LEMMA LoopsServe ==
  ASSUME EngineInv, ServedInv, JoinedInv, NEW t \in DOMAIN live, NEW entry \in Nodes, NEW a,
         Looped(t, entry, a)
  PROVE  ServedInv' /\ JoinedInv'
<1> DEFINE body == Scope(entry)
           before == visited \ body
           new == {entry}
<1>1. graph \in Graphs /\ graph' = graph /\ result' = result /\ ~Runs(t)
  BY DEF EngineInv, Looped, Runs
<1>2. entry \in body /\ body \subseteq Nodes
  BY <1>1, ScopeTypes
<1>3. Grown(t, a, before, new) /\ arrived' = arrived \ Inside(arrived, body) /\ skipped' = skipped \ body
  BY DEF Looped
<1>4. visited' = before \union new
  BY <1>3 DEF Grown
<1>5. ASSUME NEW p \in visited' \intersect Followed
      PROVE  AtWork(p)' \/ result'[p] \in Failed \/ Served(p)'
  <2>1. CASE p = entry
    <3>1. <<p, turn[p] + 1>> \in Started(new)
      BY <2>1 DEF Started
    <3>2. <<p, turn[p] + 1>> \in DOMAIN live' /\ live'[<<p, turn[p] + 1>>].at = "step"
      BY <1>3, <3>1 DEF Grown
    <3> QED BY <3>2 DEF AtWork, Runs, Waiting
  <2>2. CASE p # entry
    <3>1. p \in visited /\ p \notin body /\ p \in Followed
      BY <1>4, <2>2
    <3>2. ASSUME NEW u \in DOMAIN live, u[1] = p, Runs(u) PROVE AtWork(p)'
      <4>1. u \in DOMAIN live' /\ live'[u] = live[u]
        BY <1>1, <1>3, <3>2 DEF Grown
      <4> QED BY <3>2, <4>1 DEF AtWork, Runs
    <3>3. ASSUME Served(p), NEW n \in ForwardFrom(p)
          PROVE  IF n \in Joins THEN <<p, n>> \in arrived' ELSE n \in visited'
      <4>1. CASE n \in Joins
        <5>1. <<p, n>> \in arrived
          BY <3>3, <4>1 DEF Served
        <5> QED BY <1>3, <3>1, <4>1, <5>1 DEF Inside
      <4>2. CASE n \notin Joins
        <5>1. n \in visited
          BY <3>3, <4>2 DEF Served
        <5>2. n \in Nodes /\ p \in Preds(n)
          BY <1>1, Neighbours
        <5>3. ASSUME n \in body, n # entry PROVE FALSE
          <6>1. PICK q \in Preds(n) : q \in body
            BY <1>1, <5>3, ScopeHasWay
          <6>2. q = p
            BY <1>1, <4>2, <5>2, OneWayIn
          <6> QED BY <3>1, <6>1, <6>2
        <5> QED BY <1>4, <4>2, <5>1, <5>3
      <4> QED BY <4>1, <4>2
    <3>4. Served(p) => Served(p)'
      BY <1>1, <3>3, SameDuties DEF Served
    <3> QED BY <1>1, <3>1, <3>2, <3>4 DEF ServedInv, AtWork
  <2> QED BY <2>1, <2>2
<1>6. ASSUME NEW n \in Joins, Complete(arrived', n) PROVE n \in visited' \union skipped'
  <2>1. CASE n \in body /\ n # entry
    <3>1. PICK q \in Preds(n) : q \in body
      BY <1>1, <2>1, ScopeHasWay
    <3>2. PICK r \in arrived' : r[2] = n /\ r[1] = q
      BY <1>6, <3>1 DEF Complete
    <3>3. r \in Inside(arrived, body)
      BY <1>3, <2>1, <3>1, <3>2 DEF Inside
    <3> QED BY <1>3, <3>2, <3>3
  <2>2. CASE n \notin body \/ n = entry
    <3>1. \A q \in arrived' : q[2] = n => q \in arrived
      BY <1>3
    <3>2. Complete(arrived, n)
      BY <1>1, <1>6, <3>1, StaysComplete
    <3> QED BY <1>3, <1>4, <2>2, <3>2 DEF JoinedInv
  <2> QED BY <2>1, <2>2
<1>7. \A n : Complete(arrived, n)' <=> Complete(arrived', n)
  BY <1>1, SameChoices
<1>8. ServedInv'
  BY <1>1, <1>5, SameDuties DEF ServedInv
<1>9. JoinedInv'
  BY <1>1, <1>6, <1>7, SameDuties DEF JoinedInv
<1> QED BY <1>8, <1>9

(* What skips complete is entered or skipped itself. *)
LEMMA SkipFeeds ==
  ASSUME EngineInv, NEW t \in DOMAIN live, SkipBranch(t), NEW n \in Joins, Complete(arrived', n)
  PROVE  Complete(arrived, n) \/ n \in visited' \union skipped'
<1> DEFINE sources == SkipWalk(t[1], live[t].spare)
           reached == {m \in Nodes : sources[m] # {}}
           hits == UNION {{<<s, m>> : s \in sources[m]} : m \in reached \intersect Joins}
           through == {m \in reached : m \in Joins => Complete(skips', m)}
           ids == Unblocked(arrived', reached \ through, visited)
           others == [live EXCEPT ![t].spare = {}]
<1>1. /\ arrived' = arrived \union hits /\ skipped' = skipped \union through
      /\ Enter(t, ids, visited, others) /\ graph' = graph
  BY DEF SkipBranch, looping
<1>2. visited' = visited \union (ids \ visited)
  <2> HIDE DEF ids, others
  <2> QED BY <1>1 DEF Enter
<1>3. CASE n \in through
  <2> HIDE DEF through
  <2> QED BY <1>1, <1>3
<1>4. CASE n \in reached /\ n \notin through
  <2>1. n \in visited \/ n \in ids
    BY <1>4 DEF Unblocked
  <2> HIDE DEF ids
  <2> QED BY <1>2, <2>1
<1>5. CASE n \notin reached
  <2>1. \A q \in hits : q[2] # n
    BY <1>5
  <2>2. \A q \in arrived' : q[2] = n => q \in arrived
    BY <1>1, <2>1
  <2> QED BY <1>1, <2>2, StaysComplete
<1> QED BY <1>3, <1>4, <1>5

LEMMA SkipsServe ==
  ASSUME EngineInv, ServedInv, JoinedInv, NEW t \in DOMAIN live, SkipBranch(t)
  PROVE  ServedInv' /\ JoinedInv'
<1>1. PICK hits \in SUBSET (Nodes \X Nodes), through \in SUBSET Nodes,
          new \in SUBSET Nodes, a \in Activations : Spared(t, hits, through, new, a)
  BY SkipBranchShape
<1>2. /\ Grown(t, a, visited, new) /\ arrived' = arrived \union hits
      /\ skipped' = skipped \union through /\ result' = result /\ graph' = graph /\ ~Runs(t)
  BY <1>1 DEF Spared, looping, Runs
<1>3. visited' = visited \union new
  BY <1>2 DEF Grown
<1>4. ASSUME NEW p \in visited' \intersect Followed
      PROVE  AtWork(p)' \/ result'[p] \in Failed \/ Served(p)'
  <2>1. CASE p \in new
    <3>1. <<p, turn[p] + 1>> \in Started(new)
      BY <2>1 DEF Started
    <3>2. <<p, turn[p] + 1>> \in DOMAIN live' /\ live'[<<p, turn[p] + 1>>].at = "step"
      BY <1>2, <3>1 DEF Grown
    <3> QED BY <3>2 DEF AtWork, Runs, Waiting
  <2>2. CASE p \in visited
    <3>1. ASSUME NEW u \in DOMAIN live, u[1] = p, Runs(u) PROVE AtWork(p)'
      <4>1. u \in DOMAIN live' /\ live'[u] = live[u]
        BY <1>2, <3>1 DEF Grown
      <4> QED BY <3>1, <4>1 DEF AtWork, Runs
    <3>2. Served(p) => Served(p)'
      BY <1>2, <1>3, StaysServed
    <3> QED BY <1>2, <2>2, <3>1, <3>2 DEF ServedInv, AtWork
  <2> QED BY <1>3, <2>1, <2>2
<1>5. ASSUME NEW n \in Joins, Complete(arrived', n) PROVE n \in visited' \union skipped'
  <2>1. Complete(arrived, n) \/ n \in visited' \union skipped'
    BY <1>5, SkipFeeds
  <2> QED BY <1>2, <1>3, <2>1 DEF JoinedInv
<1>6. \A n : Complete(arrived, n)' <=> Complete(arrived', n)
  BY <1>2, SameChoices
<1>7. ServedInv'
  BY <1>2, <1>4, SameDuties DEF ServedInv
<1>8. JoinedInv'
  BY <1>2, <1>5, <1>6, SameDuties DEF JoinedInv
<1> QED BY <1>7, <1>8

LEMMA StepServes ==
  ASSUME EngineInv, RecordInv, Decisions, ServedInv, JoinedInv,
         NEW t \in DOMAIN live, StepEnds(t), graph' = graph
  PROVE  ServedInv' /\ JoinedInv'
<1>1. \A p \in Nodes \ (Of("collect") \union {t[1]}) : result'[p] = result[p]
  BY ResultsAreOwn
<1>2. CASE Moves(t)
  BY <1>1, <1>2, MovesServe
<1>3. CASE Iterates(t)
  <2>1. /\ live' = [live EXCEPT ![t].at = "iterating"] /\ t[1] \in Of("foreach")
        /\ visited' = visited /\ arrived' = arrived /\ skipped' = skipped
    BY <1>3 DEF Iterates, joining
  <2>2. \A p \in Followed : result'[p] = result[p]
    BY <1>1, <2>1 DEF Followed
  <2>3. ASSUME NEW p \in Followed, NEW u \in DOMAIN live, u[1] = p, Runs(u) PROVE AtWork(p)'
    <3>1. u # t
      BY <2>1, <2>3 DEF Followed
    <3>2. u \in DOMAIN live' /\ live'[u] = live[u]
      BY <2>1, <3>1
    <3> QED BY <2>3, <3>2 DEF AtWork, Runs
  <2>4. \A p \in Followed : AtWork(p) => AtWork(p)' \/ result'[p] \in Failed
    BY <2>3 DEF AtWork
  <2>5. (visited' \ visited) \intersect Followed = {}
    BY <2>1
  <2> QED BY <2>1, <2>2, <2>4, <2>5, OthersServe
<1>4. CASE Leaves(t) /\ result'[t[1]] = "failed"
  <2>1. /\ live' = Without(t) /\ arrived' = arrived /\ skipped' = skipped
        /\ result'[t[1]] \in Failed
    BY <1>4 DEF Leaves, joining, Failed
  <2>2. PICK marked \in SUBSET Nodes :
          /\ visited' = visited \union marked
          /\ marked # {} => t[1] \in Of("foreach")
          /\ marked \subseteq BodyOf(t[1]) \union InnerCollect(t[1]) \union Aggregate(t[1])
    BY <1>4 DEF Leaves
  <2>3. marked \intersect Followed = {}
    BY <2>2, IterationTypes DEF Followed, EngineInv
  <2>4. \A p \in Followed : p = t[1] \/ result'[p] = result[p]
    BY <1>1 DEF Followed
  <2>5. ASSUME NEW p \in Followed, NEW u \in DOMAIN live, u[1] = p, Runs(u), p # t[1]
        PROVE  AtWork(p)'
    <3>1. u \in DOMAIN live' /\ live'[u] = live[u]
      BY <2>1, <2>5 DEF Without
    <3> QED BY <2>5, <3>1 DEF AtWork, Runs
  <2>6. \A p \in Followed : AtWork(p) => AtWork(p)' \/ result'[p] \in Failed
    BY <2>1, <2>5 DEF AtWork
  <2>7. \A p \in Followed : result[p] \in Failed => result'[p] \in Failed
    BY <2>1, <2>4
  <2>8. visited \subseteq visited' /\ (visited' \ visited) \intersect Followed = {}
    BY <2>2, <2>3
  <2> QED BY <2>1, <2>6, <2>7, <2>8, OthersServe
<1> QED BY <1>2, <1>3, <1>4, StepMoves

LEMMA ServedStep ==
  ASSUME EngineInv, RecordInv, Decisions, ServedInv, JoinedInv, [Next]_vars
  PROVE  ServedInv' /\ JoinedInv'
<1>1. graph' = graph /\ graph \in Graphs /\ result \in [Nodes -> Results]
  BY SameNodes DEF EngineInv, ValueInv
<1>2. ASSUME UNCHANGED <<visited, arrived, skipped, live>>,
             \A p \in Followed : result[p] \in Failed => result'[p] \in Failed
      PROVE  ServedInv' /\ JoinedInv'
  <2>1. \A p : AtWork(p) => AtWork(p)'
    BY <1>2 DEF AtWork, Runs
  <2>2. (visited' \ visited) \intersect Followed = {}
    BY <1>2
  <2> QED BY <1>1, <1>2, <2>1, <2>2, OthersServe
<1>3. ASSUME NEW t \in DOMAIN live, StepEnds(t) PROVE ServedInv' /\ JoinedInv'
  BY <1>1, <1>3, StepServes
<1>4. ASSUME NEW t \in DOMAIN live, LoopBack(t) PROVE ServedInv' /\ JoinedInv'
  BY <1>4, LoopBackShape, LoopsServe
<1>5. ASSUME NEW t \in DOMAIN live, LoopRefused(t) PROVE ServedInv' /\ JoinedInv'
  <2>1. PICK entry \in live[t].loops :
          /\ live' = [live EXCEPT ![t].loops = @ \ {entry}]
          /\ result' = Assign(result, live[t].from, "capped")
          /\ UNCHANGED <<visited, arrived, skipped>>
    BY <1>5 DEF LoopRefused, joining
  <2>2. \A p \in Followed : result[p] \in Failed => result'[p] \in Failed
    BY <1>1, <2>1 DEF Assign, Failed, Followed
  <2>3. \A u \in DOMAIN live : u \in DOMAIN live' /\ live'[u].at = live[u].at
    <3>1. live[t] \in Activations /\ live \in [DOMAIN live -> Activations]
      BY DEF EngineInv, LiveInv
    <3> QED BY <2>1, <3>1 DEF Activations
  <2>4. \A p : AtWork(p) => AtWork(p)'
    BY <2>3 DEF AtWork, Runs
  <2>5. (visited' \ visited) \intersect Followed = {}
    BY <2>1
  <2> QED BY <1>1, <2>1, <2>2, <2>4, <2>5, OthersServe
<1>6. ASSUME NEW t \in DOMAIN live, SkipBranch(t) PROVE ServedInv' /\ JoinedInv'
  BY <1>6, SkipsServe
<1>7. ASSUME NEW t \in DOMAIN live, ActivationReturns(t) PROVE ServedInv' /\ JoinedInv'
  <2>1. /\ live' = Without(t) /\ UNCHANGED <<visited, arrived, skipped>> /\ ~Runs(t)
        /\ result' = IF live[t].at = "iterated" THEN Assign(result, t[1], "ok") ELSE result
    BY <1>7 DEF ActivationReturns, Return, joining, Quiet, Runs, Waiting
  <2>2. live[t].at = "iterated" => t[1] \in Of("foreach")
    BY DEF EngineInv, LiveInv
  <2>3. \A p \in Followed : result'[p] = result[p]
    BY <1>1, <2>1, <2>2 DEF Assign, Followed
  <2>4. \A u \in DOMAIN live : Runs(u) => u \in DOMAIN live' /\ live'[u] = live[u]
    BY <2>1 DEF Without
  <2>5. \A p : AtWork(p) => AtWork(p)'
    BY <2>4 DEF AtWork, Runs
  <2>6. (visited' \ visited) \intersect Followed = {}
    BY <2>1
  <2> QED BY <1>1, <2>1, <2>3, <2>5, <2>6, OthersServe
<1>8. ASSUME NEW n \in Nodes, ClaimLapses(n) PROVE ServedInv' /\ JoinedInv'
  <2>1. UNCHANGED <<visited, arrived, skipped, live, result>>
    BY <1>8 DEF ClaimLapses, traversal, joining
  <2> QED BY <1>2, <2>1
<1>9. ASSUME NEW p \in late, LateCommit(p) PROVE ServedInv' /\ JoinedInv'
  <2>1. UNCHANGED <<visited, arrived, skipped, live, result>>
    BY <1>9 DEF LateCommit, traversal, joining
  <2> QED BY <1>2, <2>1
<1>10. ASSUME Finalize PROVE ServedInv' /\ JoinedInv'
  <2>1. PICK found \in SUBSET Recoverable :
          LET orphans == Orphans(Reconciled(found))
          IN  result' = [n \in Nodes |-> IF n \in orphans THEN "orphan" ELSE Reconciled(found)[n]]
    BY <1>10 DEF Finalize
  <2>2. \A p \in Nodes : result[p] \in Failed => result'[p] \in Failed
    BY <2>1 DEF Reconciled, Failed
  <2>3. UNCHANGED <<visited, arrived, skipped, live>>
    BY <1>10 DEF Finalize, traversal, joining
  <2> QED BY <1>2, <2>2, <2>3 DEF Followed
<1>11. ASSUME UNCHANGED vars PROVE ServedInv' /\ JoinedInv'
  <2>1. UNCHANGED <<visited, arrived, skipped, live, result>>
    BY <1>11 DEF vars
  <2> QED BY <1>2, <2>1
<1> QED BY <1>3, <1>4, <1>5, <1>6, <1>7, <1>8, <1>9, <1>10, <1>11 DEF Next, GoesOn

LEMMA FinalStep ==
  ASSUME EngineInv, FinalInv, [Next]_vars
  PROVE  /\ FinalInv'
         /\ Finalize \/ verdict' = "none" \/ UNCHANGED vars
<1>1. graph' = graph /\ Nodes' = Nodes /\ result \in [Nodes -> Results]
  BY SameNodes DEF EngineInv, ValueInv
<1>2. ASSUME verdict = "none", verdict' = verdict,
             \A p \in Nodes : result'[p] \in {"orphan", "reconciled"} => result'[p] = result[p]
      PROVE  FinalInv' /\ verdict' = "none"
  BY <1>1, <1>2 DEF FinalInv
<1>3. \A t \in DOMAIN live : verdict = "none"
  BY DEF FinalInv
<1>4. ASSUME NEW t \in DOMAIN live, StepEnds(t) PROVE FinalInv' /\ verdict' = "none"
  BY <1>2, <1>3, <1>4, ResultsAreOwn
<1>5. ASSUME NEW t \in DOMAIN live, GoesOn(t) PROVE FinalInv' /\ verdict' = "none"
  <2>1. CASE LoopBack(t) \/ SkipBranch(t)
    <3>1. verdict' = verdict /\ result' = result
      BY <2>1 DEF LoopBack, SkipBranch, ended
    <3> QED BY <1>2, <1>3, <3>1
  <2>2. CASE LoopRefused(t)
    <3>1. verdict' = verdict /\ result' = Assign(result, live[t].from, "capped")
      BY <2>2 DEF LoopRefused, ended
    <3>2. \A p \in Nodes : result'[p] \in {"orphan", "reconciled"} => result'[p] = result[p]
      BY <1>1, <3>1 DEF Assign
    <3> QED BY <1>2, <1>3, <3>1, <3>2
  <2>3. CASE ActivationReturns(t)
    <3>1. /\ verdict' = verdict
          /\ result' = IF live[t].at = "iterated" THEN Assign(result, t[1], "ok") ELSE result
      BY <2>3 DEF ActivationReturns, ended
    <3>2. \A p \in Nodes : result'[p] \in {"orphan", "reconciled"} => result'[p] = result[p]
      BY <1>1, <3>1 DEF Assign
    <3> QED BY <1>2, <1>3, <3>1, <3>2
  <2> QED BY <1>5, <2>1, <2>2, <2>3 DEF GoesOn
<1>6. ASSUME NEW n \in Nodes, ClaimLapses(n) PROVE FinalInv' /\ verdict' = "none"
  <2>1. verdict' = verdict /\ result' = result /\ verdict = "none"
    BY <1>3, <1>6 DEF ClaimLapses, ended
  <2> QED BY <1>2, <2>1
<1>7. ASSUME NEW p \in late, LateCommit(p) PROVE FinalInv' /\ verdict' = "none"
  <2>1. verdict' = verdict /\ result' = result /\ verdict = "none"
    BY <1>7 DEF LateCommit, ended
  <2> QED BY <1>2, <2>1
<1>8. ASSUME Finalize PROVE FinalInv'
  <2>1. verdict' # "none" /\ live' = live /\ DOMAIN live = {}
    BY <1>8 DEF Finalize, traversal
  <2> QED BY <2>1 DEF FinalInv
<1>9. ASSUME UNCHANGED vars PROVE FinalInv'
  <2>1. verdict' = verdict /\ result' = result /\ live' = live
    BY <1>9 DEF vars
  <2> QED BY <1>1, <2>1 DEF FinalInv
<1> QED BY <1>4, <1>5, <1>6, <1>7, <1>8, <1>9 DEF Next

(* What a body leads to is of the body, or a Collect. *)
LEMMA BodyLeadsOn ==
  ASSUME graph \in Graphs, NEW p \in Bodies \ Of("collect"), NEW n \in ForwardFrom(p),
         n \notin Of("collect")
  PROVE  n \in Bodies
<1>1. PICK f \in Of("foreach") : p \in BodyOf(f) \union InnerCollect(f)
  BY DEF Bodies
<1>2. p \in BodyOf(f)
  BY <1>1, IterationTypes
<1>3. <<p, n>> \in graph.forward /\ IsFiniteSet(graph.forward)
  BY Neighbours, GraphFacts
<1>4. n \in BodyOf(f)
  <2> DEFINE q == <<p, n>>
             collect == Of("collect")
             seeds == Seeds(f)
  <2>1. q \in graph.forward /\ q[1] \in Reachable(graph.forward, seeds, collect) /\ q[2] \notin collect
    BY <1>2, <1>3 DEF BodyOf
  <2>2. q[2] = n
    OBVIOUS
  <2> HIDE DEF q, collect, seeds
  <2>3. q[2] \in Reachable(graph.forward, seeds, collect)
    BY <1>3, <2>1, ReachableClosed
  <2> QED BY <2>2, <2>3 DEF BodyOf, collect, seeds
<1> QED BY <1>1, <1>4, IterationTypes

LEMMA OrphansAtVerdict ==
  ASSUME EngineInv, ServedInv, JoinedInv, FinalInv, Finalize
  PROVE  OrphansWereCutOff'
<1>1. /\ graph \in Graphs /\ graph' = graph /\ visited' = visited
      /\ DOMAIN live = {} /\ verdict = "none"
  BY DEF EngineInv, Finalize, traversal, looping
<1>2. PICK found \in SUBSET Recoverable :
        LET orphans == Orphans(Reconciled(found))
        IN  result' = [n \in Nodes |-> IF n \in orphans THEN "orphan" ELSE Reconciled(found)[n]]
  BY DEF Finalize
<1>3. ASSUME NEW n \in Nodes \ Of("collect"), result'[n] = "orphan",
             \A p \in Preds(n) : /\ result'[p] # "reconciled" /\ p \in visited
                                 /\ p \notin Of("foreach") \union Of("collect")
      PROVE  FALSE
  <2>1. n \in Orphans(Reconciled(found))
    <3>1. Reconciled(found)[n] # "orphan"
      BY <1>1 DEF Reconciled, FinalInv
    <3> QED BY <1>2, <1>3, <3>1
  <2>2. n \notin attempted \union skipped \union Bodies /\ Preds(n) # {}
    BY <2>1 DEF Orphans
  <2>3. ASSUME NEW p \in Preds(n) PROVE Served(p) /\ n \in ForwardFrom(p)
    <3>1. p \in Nodes /\ n \in ForwardFrom(p)
      BY <1>1, <2>3, Neighbours
    <3>2. p \in attempted /\ Fine(Reconciled(found)[p]) /\ p \notin Of("condition")
      BY <2>1, <2>3 DEF Orphans
    <3>3. result[p] \notin Failed
      <4>1. result'[p] = Reconciled(found)[p]
        BY <1>2, <3>1, <3>2 DEF Orphans
      <4>2. Reconciled(found)[p] = result[p]
        BY <1>3, <2>3, <3>1, <4>1 DEF Reconciled
      <4>3. result[p] \in {"none", "ok"}
        BY <1>3, <2>3, <3>2, <4>1, <4>2 DEF Fine
      <4> QED BY <4>3 DEF Failed
    <3>4. p \notin Bodies
      BY <1>1, <1>3, <2>2, <2>3, <3>1, BodyLeadsOn
    <3>5. p \in visited \intersect Followed
      BY <1>3, <2>3, <3>1, <3>2, <3>4 DEF Followed
    <3>6. ~AtWork(p)
      BY <1>1 DEF AtWork
    <3> QED BY <3>1, <3>3, <3>5, <3>6 DEF ServedInv
  <2>4. n \in visited
    <3>1. CASE n \in Joins
      <4>1. \A p \in Preds(n) : <<p, n>> \in arrived
        BY <2>3, <3>1 DEF Served
      <4>2. ASSUME NEW p \in Preds(n) PROVE p \in {q[1] : q \in {r \in arrived : r[2] = n}}
        <5> DEFINE q == <<p, n>>
        <5>1. q \in arrived /\ q[1] = p /\ q[2] = n
          BY <4>1, <4>2
        <5> HIDE DEF q
        <5> QED BY <5>1
      <4>3. Complete(arrived, n)
        BY <4>2 DEF Complete
      <4> QED BY <2>2, <3>1, <4>3 DEF JoinedInv
    <3>2. CASE n \notin Joins
      BY <2>2, <2>3, <3>2 DEF Served
    <3> QED BY <3>1, <3>2
  <2> QED BY <1>3, <2>2, <2>4 DEF EngineInv, SetInv
<1>4. \A n : Preds(n)' = Preds(n)
  BY <1>1, SameDuties
<1> QED BY <1>1, <1>3, <1>4, SameGraph DEF OrphansWereCutOff

LEMMA ServedInitially == Init => ServedInv /\ JoinedInv /\ FinalInv
<1> SUFFICES ASSUME Init PROVE ServedInv /\ JoinedInv /\ FinalInv
  OBVIOUS
<1>1. /\ graph \in Graphs /\ visited = {Trigger} /\ arrived = {} /\ verdict = "none"
      /\ live = [t \in {<<Trigger, 1>>} |-> Fresh(None)]
      /\ \A n \in Nodes : result[n] = "none"
  BY DEF Init
<1>2. AtWork(Trigger)
  <2>1. <<Trigger, 1>> \in DOMAIN live /\ live[<<Trigger, 1>>].at = "step"
    BY <1>1 DEF Fresh
  <2> QED BY <2>1 DEF AtWork, Runs, Waiting
<1>3. \A n \in Joins : ~Complete(arrived, n)
  <2>1. ASSUME NEW n \in Joins, Preds(n) = {} PROVE FALSE
    <3>1. Cardinality(Preds(n)) = 0
      BY <2>1, FS_EmptySet
    <3> QED BY <3>1 DEF Joins
  <2> QED BY <1>1, <2>1 DEF Complete
<1>4. ServedInv /\ FinalInv
  BY <1>1, <1>2 DEF ServedInv, FinalInv
<1> QED BY <1>3, <1>4 DEF JoinedInv

(* findOrphanedNodes accuses only what a completion found too late had cut  *)
(* off, or what lies behind a node that a loop took back, whatever fails,   *)
(* loops or overlaps; what Collects and For Each nodes lead to aside.       *)
THEOREM OrphansAreCutOff == Spec => []OrphansWereCutOff
<1> DEFINE Inv == EngineInv /\ RecordInv /\ PassInv
           Duties == ServedInv /\ JoinedInv /\ FinalInv /\ OrphansWereCutOff
<1>1. ASSUME Init PROVE Duties
  <2>1. OrphansWereCutOff
    BY <1>1 DEF Init, OrphansWereCutOff
  <2> QED BY <1>1, <2>1, ServedInitially
<1>2. ASSUME Inv, Duties, [Next]_vars PROVE Duties'
  <2>1. ServedInv' /\ JoinedInv'
    BY <1>2, ServedStep DEF PassInv
  <2>2. FinalInv' /\ (Finalize \/ verdict' = "none" \/ UNCHANGED vars)
    BY <1>2, FinalStep
  <2>3. CASE Finalize
    BY <1>2, <2>1, <2>2, <2>3, OrphansAtVerdict
  <2>4. CASE verdict' = "none"
    <3>1. OrphansWereCutOff'
      BY <2>2, <2>4 DEF FinalInv, OrphansWereCutOff
    <3> QED BY <2>1, <2>2, <3>1
  <2>5. CASE UNCHANGED vars
    <3>1. graph' = graph /\ visited' = visited /\ result' = result
      BY <2>5 DEF vars
    <3>2. OrphansWereCutOff'
      BY <1>2, <3>1, SameGraph, SameDuties DEF OrphansWereCutOff
    <3> QED BY <2>1, <2>2, <3>2
  <2> QED BY <2>2, <2>3, <2>4, <2>5
<1>3. Inv /\ Duties => OrphansWereCutOff
  OBVIOUS
<1> QED BY PassInvariant, <1>1, <1>2, <1>3, PTL DEF Spec

-----------------------------------------------------------------------------
(* A failure shows.                                                         *)

(* Where iterations run, a Collect's row and result are those of its For Each. *)
Alone == IF Of("foreach") = {} THEN Nodes ELSE Nodes \ Of("collect")
Iterating == {"iterating", "iterated"}
ToRun(n) == turn[n] = 0 \/ \E t \in DOMAIN live : t[1] = n /\ live[t].at = "step"

(* What is known of a node before a loop re-enters it: nothing is recorded  *)
(* of it before its step ends, and what is recorded is how it ended.        *)
First(n) ==
  /\ ToRun(n) => /\ outcome[n] = "none" /\ recorded[n] = "none" /\ n \notin claimed
                 /\ n \in Alone => logs[n] = {}
  /\ outcome[n] \in {"failed", "threw"} /\ result[n] = "retries" => recorded[n] = "none"
  /\ outcome[n] = "failed" /\ n \in Alone \ Of("unset") => logs[n] = {"error"}
  /\ \A t \in DOMAIN live : t[1] = n /\ live[t].at \in Iterating => outcome[n] = "ok"
  /\ \A p \in late : p[1] = n => outcome[n] = "lost"
FirstInv ==
  /\ outcome \in [Nodes -> {"none", "ok", "failed", "threw", "lost"}]
  /\ \A n \in Nodes : reentries[n] = 0 => First(n)

(* A failure of this pass is the node's result, until the verdict. *)
ShownInv ==
  ~overlapped => \A n \in Nodes :
    /\ outcome[n] # "none" => n \in visited
    /\ /\ verdict = "none" /\ outcome[n] \in {"failed", "threw"} /\ n \in Alone
       /\ n \in Of("foreach") => reentries[n] = 0
       => result[n] \in {"failed", "retries", "capped"}

LEMMA SameAlone ==
  ASSUME graph' = graph
  PROVE  Alone' = Alone
BY SameGraph DEF Alone

(* A node's first activation is its only one until a loop re-enters it. *)
LEMMA OnlyOne ==
  ASSUME EngineInv, NEW n \in Nodes, reentries[n] = 0
  PROVE  /\ turn[n] \in {0, 1}
         /\ \A t \in DOMAIN live : t[1] = n => t = <<n, 1>> /\ turn[n] = 1
<1>1. turn[n] \in Nat /\ turn[n] <= reentries[n] + Once(n, visited)
  BY DEF EngineInv, LoopInv
<1>2. turn[n] \in {0, 1}
  BY <1>1 DEF Once
<1>3. ASSUME NEW t \in DOMAIN live, t[1] = n PROVE t = <<n, 1>> /\ turn[n] = 1
  <2>1. t \in Nodes \X Nat /\ 1 <= t[2] /\ t[2] <= turn[n]
    BY <1>3 DEF EngineInv, LiveInv, Keys
  <2>2. t = <<t[1], t[2]>> /\ t[2] \in Nat
    BY <2>1
  <2>3. t[2] = 1
    BY <1>2, <2>1, <2>2
  <2> QED BY <1>2, <1>3, <2>1, <2>2, <2>3
<1> QED BY <1>2, <1>3

LEMMA OnlyOneStill ==
  ASSUME EngineInv', graph' = graph, NEW n \in Nodes, reentries'[n] = 0
  PROVE  /\ turn'[n] \in {0, 1}
         /\ \A t \in DOMAIN live' : t[1] = n => t = <<n, 1>> /\ turn'[n] = 1
<1>0. Nodes' = Nodes /\ Keys' = Keys
  BY SameGraph
<1>1. turn'[n] \in Nat /\ turn'[n] <= reentries'[n] + Once(n, visited')
  BY <1>0 DEF EngineInv, LoopInv, Once
<1>2. turn'[n] \in {0, 1}
  BY <1>1 DEF Once
<1>3. ASSUME NEW t \in DOMAIN live', t[1] = n PROVE t = <<n, 1>> /\ turn'[n] = 1
  <2>1. t \in Nodes \X Nat /\ 1 <= t[2] /\ t[2] <= turn'[n]
    BY <1>0, <1>3 DEF EngineInv, LiveInv, Keys
  <2>2. t = <<t[1], t[2]>> /\ t[2] \in Nat
    BY <2>1
  <2>3. t[2] = 1
    BY <1>2, <2>1, <2>2
  <2> QED BY <1>2, <1>3, <2>1, <2>2, <2>3
<1> QED BY <1>2, <1>3

(* What is recorded of n changes in no way that matters, and neither does    *)
(* what becomes of its activations.                                         *)
Unmoved(n) ==
  /\ outcome'[n] = outcome[n] /\ recorded'[n] = recorded[n] /\ (n \in claimed' => n \in claimed)
  /\ n \in Alone => logs'[n] = logs[n]
  /\ result'[n] = "retries" => result[n] = "retries"
  /\ \A p \in late' : p[1] = n => p \in late
Lasts(n) ==
  /\ ToRun(n)' => ToRun(n)
  /\ \A t \in DOMAIN live' : t[1] = n /\ live'[t].at \in Iterating =>
       t \in DOMAIN live /\ live[t].at \in Iterating

LEMMA FirstKept ==
  ASSUME graph' = graph, NEW n \in Nodes, First(n), Unmoved(n), Lasts(n)
  PROVE  First(n)'
<1>1. Alone' = Alone /\ Of("unset")' = Of("unset")
  BY SameAlone, SameGraph
<1>2. ToRun(n)' => ToRun(n)
  BY DEF Lasts
<1> QED BY <1>1, <1>2 DEF First, Unmoved, Lasts

LEMMA GrownLasts ==
  ASSUME EngineInv, EngineInv', graph' = graph, NEW t \in DOMAIN live, NEW a, NEW before,
         NEW new \in SUBSET Nodes, Grown(t, a, before, new),
         a.at # "step" \/ a.at = live[t].at, a.at \in Iterating => live[t].at \in Iterating,
         NEW n \in Nodes, reentries'[n] = 0
  PROVE  Lasts(n)
<1>1. /\ turn'[n] = IF n \in new THEN turn[n] + 1 ELSE turn[n]
      /\ DOMAIN live' = DOMAIN live \union Started(new)
      /\ \A u \in DOMAIN live : u \notin Started(new) /\ live'[u] = IF u = t THEN a ELSE live[u]
      /\ \A u \in Started(new) : u[1] \in new /\ live'[u].at = "step"
  BY DEF Grown
<1>2. turn'[n] \in {0, 1} /\ turn[n] \in Nat
  BY OnlyOneStill DEF EngineInv, LoopInv
<1>3. ASSUME n \in new PROVE turn[n] = 0
  BY <1>1, <1>2, <1>3
<1>4. ASSUME NEW u \in DOMAIN live', u[1] = n, live'[u].at = "step" PROVE ToRun(n)
  <2>1. CASE u \in Started(new)
    BY <1>1, <1>3, <1>4, <2>1 DEF ToRun
  <2>2. CASE u \notin Started(new)
    <3>1. u \in DOMAIN live /\ live[u].at = "step"
      BY <1>1, <1>4, <2>2
    <3> QED BY <1>4, <3>1 DEF ToRun
  <2> QED BY <2>1, <2>2
<1>5. turn'[n] = 0 => turn[n] = 0
  BY <1>1, <1>2
<1>6. ToRun(n)' => ToRun(n)
  BY <1>4, <1>5 DEF ToRun
<1>7. ASSUME NEW u \in DOMAIN live', live'[u].at \in Iterating
      PROVE  u \in DOMAIN live /\ live[u].at \in Iterating
  <2>1. u \notin Started(new)
    BY <1>1, <1>7 DEF Iterating
  <2> QED BY <1>1, <1>7, <2>1
<1> QED BY <1>6, <1>7 DEF Lasts

LEMMA ShrunkLasts ==
  ASSUME turn' = turn, DOMAIN live' \subseteq DOMAIN live,
         \A u \in DOMAIN live' : live'[u].at = live[u].at, NEW n
  PROVE  Lasts(n)
BY DEF Lasts, ToRun

(* How the activations of a node stand when the step of one of them has ended. *)
LEMMA EndLasts ==
  ASSUME EngineInv, EngineInv', RecordInv, Decisions, graph' = graph, NEW t \in DOMAIN live, StepEnds(t),
         NEW n \in Nodes, reentries'[n] = 0
  PROVE  /\ t[1] # n \/ live[t].at = "iterating" => Lasts(n)
         /\ t[1] = n /\ live[t].at = "step" =>
              /\ ~ToRun(n)'
              /\ \/ Iterates(t)
                 \/ \A u \in DOMAIN live' : u[1] = n => live'[u].at \notin Iterating
<1>1. CASE Moves(t)
  <2>1. PICK from \in Nodes, forward \in SUBSET Nodes, marked \in SUBSET Nodes,
            new \in SUBSET Nodes, a \in Activations : Moved(t, from, forward, marked, new, a)
    BY <1>1 DEF Moves
  <2>2. /\ Grown(t, a, visited \union marked, new) /\ a.at \in Waiting /\ Runs(t)
        /\ a.at = "iterated" => live[t].at = "iterating"
    BY <2>1 DEF Moved
  <2>3. Lasts(n)
    <3>1. a.at # "step" /\ (a.at \in Iterating => live[t].at \in Iterating)
      BY <2>2 DEF Waiting, Iterating
    <3> QED BY <2>2, <3>1, GrownLasts
  <2>4. ASSUME t[1] = n, live[t].at = "step"
        PROVE  ~ToRun(n)' /\ \A u \in DOMAIN live' : u[1] = n => live'[u].at \notin Iterating
    <3>1. t = <<n, 1>> /\ turn[n] = 1
      <4>1. reentries[n] = 0
        BY <2>1 DEF Moved, looping
      <4> QED BY <2>4, <4>1, OnlyOne
    <3>2. t \in DOMAIN live' /\ live'[t].at = "await"
      BY <2>2, <2>4 DEF Grown, Waiting
    <3>3. turn'[n] = 1 /\ \A u \in DOMAIN live' : u[1] = n => u = t
      BY <2>4, <3>1, <3>2, OnlyOneStill
    <3> QED BY <3>2, <3>3 DEF ToRun, Iterating
  <2> QED BY <2>3, <2>4
<1>2. CASE Iterates(t)
  <2>1. live' = [live EXCEPT ![t].at = "iterating"] /\ UNCHANGED <<turn, looping>> /\ live[t].at = "step"
    BY <1>2 DEF Iterates, Running
  <2>2. \A u \in DOMAIN live : live[u] \in Activations
    BY DEF EngineInv, LiveInv
  <2>3. DOMAIN live' = DOMAIN live /\ \A u \in DOMAIN live : u # t => live'[u] = live[u]
    BY <2>1
  <2>4. ASSUME t[1] # n PROVE Lasts(n)
    BY <2>1, <2>3, <2>4 DEF Lasts, ToRun
  <2>5. ASSUME t[1] = n PROVE ~ToRun(n)'
    <3>1. t = <<n, 1>> /\ turn[n] = 1 /\ \A u \in DOMAIN live : u[1] = n => u = t
      <4>1. reentries[n] = 0
        BY <2>1 DEF looping
      <4> QED BY <2>5, <4>1, OnlyOne
    <3>2. live'[t].at = "iterating"
      BY <2>1, <2>2 DEF Activations
    <3> QED BY <2>1, <2>3, <3>1, <3>2 DEF ToRun
  <2> QED BY <1>2, <2>1, <2>4, <2>5
<1>3. CASE Leaves(t)
  <2>1. live' = Without(t) /\ UNCHANGED <<turn, looping>>
    BY <1>3 DEF Leaves
  <2>2. DOMAIN live' = DOMAIN live \ {t} /\ \A u \in DOMAIN live' : live'[u] = live[u]
    BY <2>1 DEF Without
  <2>3. Lasts(n)
    BY <2>1, <2>2, ShrunkLasts
  <2>4. ASSUME t[1] = n PROVE ~ToRun(n)' /\ \A u \in DOMAIN live' : u[1] # n
    <3>1. t = <<n, 1>> /\ turn[n] = 1 /\ \A u \in DOMAIN live : u[1] = n => u = t
      <4>1. reentries[n] = 0
        BY <2>1 DEF looping
      <4> QED BY <2>4, <4>1, OnlyOne
    <3> QED BY <2>1, <2>2, <3>1 DEF ToRun
  <2> QED BY <2>3, <2>4
<1> QED BY <1>1, <1>2, <1>3, StepMoves

LEMMA ComesTo ==
  ASSUME EngineInv, FirstInv, NEW t \in DOMAIN live, NEW o, Comes(t, o)
  PROVE  /\ t[2] = turn[t[1]] => outcome'[t[1]] = o
         /\ outcome'[t[1]] \in {outcome[t[1]], o}
         /\ \A n \in Nodes \ {t[1]} : outcome'[n] = outcome[n]
         /\ o \in {"ok", "failed", "threw", "lost"} => outcome' \in [Nodes -> {"none", "ok", "failed", "threw", "lost"}]
<1>1. t[1] \in Nodes
  BY ActivationFields
<1> QED BY <1>1 DEF Comes, Assign, FirstInv

(* The end of a step is of its own node, but for what a For Each tells of Collects. *)
Elsewhere(t) ==
  \A n \in Nodes \ {t[1]} : Unmoved(n) /\ (n \in Alone => result'[n] = result[n])

LEMMA EndsElsewhere ==
  ASSUME EngineInv, FirstInv, NEW t \in DOMAIN live, StepEnds(t)
  PROVE  Elsewhere(t) /\ outcome' \in [Nodes -> {"none", "ok", "failed", "threw", "lost"}]
<1>1. /\ graph \in Graphs /\ t[1] \in Nodes /\ result \in [Nodes -> Results]
      /\ logs \in [Nodes -> SUBSET {"success", "error"}]
      /\ recorded \in [Nodes -> {"none", "ok", "true", "false"}]
      /\ outcome \in [Nodes -> {"none", "ok", "failed", "threw", "lost"}]
  BY ActivationFields DEF EngineInv, ValueInv, FirstInv
<1>2. ASSUME NEW l, NEW v, NEW o \in {"ok", "failed", "threw", "lost"}, NEW r,
             logs' = Assign(logs, t[1], l) \/ logs' = logs,
             recorded' = Assign(recorded, t[1], v) \/ recorded' = recorded,
             Comes(t, o) \/ outcome' = outcome,
             result' = Assign(result, t[1], r) \/ result' = result,
             claimed' \subseteq claimed \union {t[1]}, \A p \in late' \ late : p[1] = t[1]
      PROVE  Elsewhere(t) /\ outcome' \in [Nodes -> {"none", "ok", "failed", "threw", "lost"}]
  <2>1. /\ outcome' \in [Nodes -> {"none", "ok", "failed", "threw", "lost"}]
        /\ \A n \in Nodes \ {t[1]} : outcome'[n] = outcome[n]
    BY <1>1, <1>2, ComesTo
  <2>2. \A n \in Nodes \ {t[1]} : /\ logs'[n] = logs[n] /\ recorded'[n] = recorded[n]
                                  /\ result'[n] = result[n]
    BY <1>1, <1>2 DEF Assign
  <2> QED BY <1>2, <2>1, <2>2 DEF Elsewhere, Unmoved
<1>3. ASSUME NEW out, Succeed(t, out) PROVE result' = Assign(result, t[1], "ok") /\ Comes(t, "ok")
  BY <1>3 DEF Succeed
<1>4. CASE StepSucceeds(t)
  <2>1. PICK out \in Outputs(t[1]) :
          Record(t[1], out) /\ claimed' = claimed \union {t[1]} /\ late' = late /\ Succeed(t, out)
    BY <1>4 DEF StepSucceeds
  <2> QED BY <1>2, <1>3, <2>1 DEF Record
<1>5. CASE StepReused(t)
  <2>1. UNCHANGED storing /\ Succeed(t, recorded[t[1]])
    BY <1>5 DEF StepReused
  <2> QED BY <1>2, <1>3, <2>1 DEF storing
<1>6. CASE DisabledPassed(t)
  <2>1. UNCHANGED storing /\ result' = result /\ outcome' = outcome
    BY <1>6 DEF DisabledPassed
  <2> QED BY <1>2, <2>1 DEF storing
<1>7. CASE StepReturnsFailure(t)
  <2>1. /\ logs' = logs \/ logs' = Assign(logs, t[1], logs[t[1]] \union {"error"})
        /\ result' = Assign(result, t[1], "failed") /\ Comes(t, "failed")
        /\ UNCHANGED <<claimed, recorded, late>>
    BY <1>7 DEF StepReturnsFailure
  <2> QED BY <1>2, <2>1
<1>8. CASE StepThrows(t)
  <2>1. PICK error \in {"failed", "retries"} :
          /\ logs' = Assign(logs, t[1], logs[t[1]] \union {"error"})
          /\ result' = Assign(result, t[1], error) /\ Comes(t, "failed")
          /\ UNCHANGED <<claimed, recorded, late>>
    BY <1>8 DEF StepThrows
  <2> QED BY <1>2, <2>1
<1>9. CASE CompletionRecovered(t)
  <2>1. PICK out \in Outputs(t[1]) :
          /\ Record(t[1], out) /\ claimed' = claimed \union {t[1]} /\ late' = late
          /\ result' = Assign(result, t[1], "ok") /\ Comes(t, "ok")
    BY <1>9 DEF CompletionRecovered
  <2> QED BY <1>2, <2>1 DEF Record
<1>10. CASE CompletionLost(t)
  <2>1. PICK out \in Outputs(t[1]), landed \in BOOLEAN :
          /\ IF landed THEN Record(t[1], out) /\ UNCHANGED late
             ELSE late' = late \union {<<t[1], out>>} /\ UNCHANGED <<logs, recorded>>
          /\ claimed' = claimed \union (IF landed THEN {t[1]} ELSE {})
          /\ result' = Assign(result, t[1], "retries") /\ Comes(t, "lost")
    BY <1>10 DEF CompletionLost
  <2>2. claimed' \subseteq claimed \union {t[1]} /\ \A p \in late' \ late : p[1] = t[1]
    BY <2>1
  <2>3. /\ logs' = Assign(logs, t[1], logs[t[1]] \union {"success"}) \/ logs' = logs
        /\ recorded' = Assign(recorded, t[1], out) \/ recorded' = recorded
    BY <2>1 DEF Record
  <2> QED BY <1>2, <2>1, <2>2, <2>3
<1>11. CASE IterationsSucceed(t) \/ IterationsFail(t)
  <2>1. t[1] \in Of("foreach")
    <3>1. live[t].at = "iterating"
      BY <1>11 DEF IterationsSucceed, IterationsFail
    <3> QED BY <3>1 DEF EngineInv, LiveInv
  <2>2. Of("collect") \intersect Alone = {}
    BY <2>1 DEF Alone
  <2>3. PICK sink \in SUBSET Of("collect"), r \in {"ok", "failed"} :
          /\ result' = [n \in Nodes |-> IF n \in sink THEN r ELSE result[n]] \/
             result' = [n \in Nodes |-> IF n \in sink \union {t[1]} THEN r ELSE result[n]]
          /\ \/ logs' = [n \in Nodes |-> IF n \in sink THEN logs[n] \union {"success"} ELSE logs[n]]
             \/ logs' = Assign(logs, t[1], {"error"})
          /\ Comes(t, "failed") \/ outcome' = outcome
          /\ UNCHANGED <<claimed, recorded, late>>
    <3>1. CASE IterationsSucceed(t)
      <4> DEFINE sink == Aggregate(t[1])
      <4>1. /\ result' = [n \in Nodes |-> IF n \in sink THEN "ok" ELSE result[n]]
            /\ logs' = [n \in Nodes |-> IF n \in sink THEN logs[n] \union {"success"} ELSE logs[n]]
            /\ outcome' = outcome /\ UNCHANGED <<claimed, recorded, late>>
        BY <3>1 DEF IterationsSucceed
      <4>2. sink \in SUBSET Of("collect")
        BY <1>1, <2>1, IterationTypes
      <4> HIDE DEF sink
      <4> QED BY <4>1, <4>2
    <3>2. CASE IterationsFail(t)
      <4> DEFINE sink == Aggregate(t[1]) \union (IF Aggregate(t[1]) = {} THEN {} ELSE InnerCollect(t[1]))
      <4>1. /\ result' = [n \in Nodes |-> IF n \in sink \union {t[1]} THEN "failed" ELSE result[n]]
            /\ logs' = Assign(logs, t[1], {"error"})
            /\ Comes(t, "failed") /\ UNCHANGED <<claimed, recorded, late>>
        BY <3>2 DEF IterationsFail
      <4>2. sink \in SUBSET Of("collect")
        BY <1>1, <2>1, IterationTypes
      <4> HIDE DEF sink
      <4> QED BY <4>1, <4>2
    <3> QED BY <1>11, <3>1, <3>2
  <2>4. /\ outcome' \in [Nodes -> {"none", "ok", "failed", "threw", "lost"}]
        /\ \A n \in Nodes \ {t[1]} : outcome'[n] = outcome[n]
    BY <1>1, <2>3, ComesTo
  <2>5. \A n \in Nodes \ {t[1]} : /\ n \notin sink => result'[n] = result[n] /\ logs'[n] = logs[n]
                                  /\ n \in sink => result'[n] = r
    BY <1>1, <2>3 DEF Assign
  <2>6. \A n \in Nodes \ {t[1]} : n \in Alone => result'[n] = result[n] /\ logs'[n] = logs[n]
    BY <2>2, <2>5
  <2>7. \A n \in Nodes \ {t[1]} : result'[n] = "retries" => result[n] = "retries"
    BY <2>5
  <2> QED BY <2>3, <2>4, <2>6, <2>7 DEF Elsewhere, Unmoved
<1>12. CASE IterationsThrow(t)
  <2>1. PICK error \in {"failed", "retries", "ok"}, said \in SUBSET {"success", "error"},
             own \in {logs[t[1]], logs[t[1]] \union {"error"}, {"error"}}, sunk \in {{}, Aggregate(t[1])} :
          /\ live[t].at = "iterating" /\ logs' = Rowed(t[1], own, sunk, said)
          /\ result' = Assign(result, t[1], error)
          /\ Comes(t, IF error = "failed" THEN "threw" ELSE "lost")
          /\ UNCHANGED <<claimed, recorded, late>>
    BY <1>12 DEF IterationsThrow
  <2>2. t[1] \in Of("foreach") /\ sunk \subseteq Of("collect")
    <3>1. t[1] \in Of("foreach")
      BY <2>1 DEF EngineInv, LiveInv
    <3> QED BY <1>1, <3>1, IterationTypes
  <2>3. Of("collect") \intersect Alone = {}
    BY <2>2 DEF Alone
  <2>4. \A n \in Nodes \ {t[1]} : result'[n] = result[n] /\ (n \in Alone => logs'[n] = logs[n])
    BY <1>1, <2>1, <2>2, <2>3 DEF Assign, Rowed
  <2>5. /\ outcome' \in [Nodes -> {"none", "ok", "failed", "threw", "lost"}]
        /\ \A n \in Nodes \ {t[1]} : outcome'[n] = outcome[n]
    BY <2>1, ComesTo
  <2> QED BY <2>1, <2>4, <2>5 DEF Elsewhere, Unmoved
<1> QED BY <1>4, <1>5, <1>6, <1>7, <1>8, <1>9, <1>10, <1>11, <1>12 DEF StepEnds

(* How a node's step ends, and what is then known of it. *)
Ends(t) ==
  LET n == t[1] IN
  \/ /\ live[t].at = "step" /\ Comes(t, "ok") /\ late' = late
  \/ /\ live[t].at = "step" /\ ~Iterates(t)
     /\ UNCHANGED <<outcome, result, recorded, claimed, late, logs>>
  \/ /\ live[t].at = "step" /\ ~Iterates(t) /\ Comes(t, "failed") /\ result'[n] \in {"failed", "retries"}
     /\ UNCHANGED <<recorded, claimed, late>>
     /\ n \notin Of("unset") => logs' = Assign(logs, n, logs[n] \union {"error"})
  \/ /\ live[t].at = "step" /\ ~Iterates(t) /\ Comes(t, "lost")
     /\ \A p \in late' \ late : p[1] = n
  \/ /\ live[t].at = "iterating" /\ UNCHANGED <<outcome, recorded, claimed, late>>
     /\ result'[n] = result[n] /\ logs'[n] = logs[n]
  \/ /\ live[t].at = "iterating" /\ Comes(t, "failed") /\ result'[n] = "failed"
     /\ logs'[n] = {"error"} /\ late' = late /\ t \notin DOMAIN live'
  \/ /\ live[t].at = "iterating" /\ late' = late
     /\ t \in DOMAIN live' /\ live'[t].at = "await"
     /\ Comes(t, "lost") \/ (Comes(t, "threw") /\ result'[n] = "failed")

LEMMA StepsEnd ==
  ASSUME EngineInv, NEW t \in DOMAIN live, StepEnds(t)
  PROVE  Ends(t)
<1>1. /\ graph \in Graphs /\ t[1] \in Nodes /\ result \in [Nodes -> Results]
      /\ logs \in [Nodes -> SUBSET {"success", "error"}]
  BY ActivationFields DEF EngineInv, ValueInv
<1>2. ASSUME Iterates(t) PROVE live'[t].at = "iterating" /\ t \in DOMAIN live'
  <2>1. live[t] \in Activations /\ live' = [live EXCEPT ![t].at = "iterating"]
    BY <1>2 DEF EngineInv, LiveInv, Iterates
  <2> QED BY <2>1 DEF Activations
<1>3. CASE StepSucceeds(t) \/ StepReused(t) \/ CompletionRecovered(t)
  <2>1. live[t].at = "step" /\ Comes(t, "ok") /\ late' = late
    BY <1>3 DEF StepSucceeds, StepReused, CompletionRecovered, Succeed, Running, storing
  <2> QED BY <2>1 DEF Ends
<1>4. ASSUME SignalFailure(t) PROVE ~Iterates(t)
  <2>1. Awaits(t, t[1], {}, {}).at = "await" /\ Awaiting(t, t[1], {}, {}) = Amended(t, Awaits(t, t[1], {}, {}))
    <3> DEFINE none == {}
    <3>1. none \in SUBSET Nodes
      OBVIOUS
    <3> HIDE DEF none
    <3>2. /\ Awaits(t, t[1], none, none).at = "await"
          /\ Awaiting(t, t[1], none, none) = Amended(t, Awaits(t, t[1], none, none))
      BY <1>1, <3>1, AwaitsFields
    <3> QED BY <3>2 DEF none
  <2>2. PICK ids \in SUBSET Nodes : Enter(t, ids, visited, Awaiting(t, t[1], {}, {}))
    <3> DEFINE joins == IF t[1] \in Of("condition") THEN {} ELSE ForwardFrom(t[1])
               ids == Unblocked(arrived', joins, visited)
    <3>1. Enter(t, ids, visited, Awaiting(t, t[1], {}, {}))
      BY <1>4 DEF SignalFailure
    <3>2. ids \in SUBSET Nodes
      BY <1>1, Neighbours DEF Unblocked
    <3> HIDE DEF ids
    <3> QED BY <3>1, <3>2
  <2>3. Grown(t, Awaits(t, t[1], {}, {}), visited, ids \ visited)
    BY <2>1, <2>2, EnterGrows
  <2>4. live'[t].at = "await"
    BY <2>1, <2>3 DEF Grown
  <2> QED BY <1>2, <2>4
<1>5. CASE DisabledPassed(t)
  <2>1. live[t].at = "step" /\ UNCHANGED <<outcome, result, recorded, claimed, late, logs>>
    BY <1>5 DEF DisabledPassed, Running, storing
  <2>2. t[1] \notin Of("foreach")
    BY <1>5 DEF DisabledPassed, Of
  <2> QED BY <2>1, <2>2 DEF Ends, Iterates
<1>6. CASE StepReturnsFailure(t)
  <2>1. /\ live[t].at = "step" /\ Comes(t, "failed") /\ UNCHANGED <<recorded, claimed, late>>
        /\ result' = Assign(result, t[1], "failed") /\ live' = Without(t)
        /\ t[1] \notin Of("unset") => logs' = Assign(logs, t[1], logs[t[1]] \union {"error"})
    BY <1>6 DEF StepReturnsFailure, Running, Return
  <2>2. t \notin DOMAIN live'
    BY <2>1 DEF Without
  <2> QED BY <1>1, <1>2, <2>1, <2>2 DEF Ends, Assign
<1>7. CASE StepThrows(t)
  <2>1. PICK error \in {"failed", "retries"} :
          /\ live[t].at = "step" /\ Comes(t, "failed") /\ UNCHANGED <<recorded, claimed, late>>
          /\ result' = Assign(result, t[1], error) /\ SignalFailure(t)
          /\ logs' = Assign(logs, t[1], logs[t[1]] \union {"error"})
    BY <1>7 DEF StepThrows, Running
  <2>2. result'[t[1]] \in {"failed", "retries"}
    BY <1>1, <2>1 DEF Assign
  <2> QED BY <1>4, <2>1, <2>2 DEF Ends
<1>8. CASE CompletionLost(t)
  <2>1. /\ live[t].at = "step" /\ Comes(t, "lost") /\ SignalFailure(t)
        /\ \A p \in late' \ late : p[1] = t[1]
    BY <1>8 DEF CompletionLost, Running
  <2> QED BY <1>4, <2>1 DEF Ends
<1>9. CASE IterationsSucceed(t)
  <2> DEFINE sink == Aggregate(t[1])
  <2>1. /\ live[t].at = "iterating" /\ UNCHANGED <<outcome, recorded, claimed, late>>
        /\ result' = [n \in Nodes |-> IF n \in sink THEN "ok" ELSE result[n]]
        /\ logs' = [n \in Nodes |-> IF n \in sink THEN logs[n] \union {"success"} ELSE logs[n]]
    BY <1>9 DEF IterationsSucceed
  <2>2. t[1] \in Of("foreach")
    BY <2>1 DEF EngineInv, LiveInv
  <2>3. t[1] \notin sink
    BY <1>1, <2>2, IterationTypes DEF Of
  <2> HIDE DEF sink
  <2> QED BY <1>1, <2>1, <2>3 DEF Ends
<1>10. CASE IterationsFail(t)
  <2> DEFINE unfed == Aggregate(t[1]) \union (IF Aggregate(t[1]) = {} THEN {} ELSE InnerCollect(t[1]))
  <2>1. /\ live[t].at = "iterating" /\ Comes(t, "failed") /\ late' = late
        /\ result' = [n \in Nodes |-> IF n \in unfed \union {t[1]} THEN "failed" ELSE result[n]]
        /\ logs' = Assign(logs, t[1], {"error"}) /\ live' = Without(t)
    BY <1>10 DEF IterationsFail
  <2>2. t \notin DOMAIN live'
    BY <2>1 DEF Without
  <2> HIDE DEF unfed
  <2> QED BY <1>1, <2>1, <2>2 DEF Ends, Assign
<1>11. CASE IterationsThrow(t)
  <2>1. PICK error \in {"failed", "retries", "ok"} :
          /\ live[t].at = "iterating" /\ late' = late /\ result' = Assign(result, t[1], error)
          /\ Comes(t, IF error = "failed" THEN "threw" ELSE "lost")
    BY <1>11 DEF IterationsThrow
  <2>2. t \in DOMAIN live' /\ live'[t].at = "await"
    BY <1>11, ThrowWaits
  <2> QED BY <1>1, <2>1, <2>2 DEF Ends, Assign
<1> QED BY <1>3, <1>5, <1>6, <1>7, <1>8, <1>9, <1>10, <1>11 DEF StepEnds

LEMMA FirstEnds ==
  ASSUME EngineInv, EngineInv', RecordInv, Decisions, FirstInv, graph' = graph,
         NEW t \in DOMAIN live, StepEnds(t), reentries' = reentries,
         NEW n \in Nodes, reentries[n] = 0, First(n)
  PROVE  First(n)'
<1>1. Elsewhere(t) /\ Ends(t)
  BY EndsElsewhere, StepsEnd
<1>2. /\ t[1] # n \/ live[t].at = "iterating" => Lasts(n)
      /\ t[1] = n /\ live[t].at = "step" =>
           /\ ~ToRun(n)'
           /\ \/ Iterates(t)
              \/ \A u \in DOMAIN live' : u[1] = n => live'[u].at \notin Iterating
  BY EndLasts
<1>3. Alone' = Alone /\ Of("unset")' = Of("unset")
  BY SameAlone, SameGraph
<1>4. CASE t[1] # n
  <2>1. Unmoved(n)
    BY <1>1, <1>4 DEF Elsewhere
  <2> QED BY <1>2, <1>4, <2>1, FirstKept
<1>5. CASE t[1] = n
  <2>1. t = <<n, 1>> /\ turn[n] = 1
    BY <1>5, OnlyOne
  <2>2. t[2] = turn[t[1]]
    BY <2>1
  <2>3. logs \in [Nodes -> SUBSET {"success", "error"}] /\ result \in [Nodes -> Results]
    BY DEF EngineInv, ValueInv
  <2>4. CASE live[t].at = "step"
    <3>1. ToRun(n)
      BY <1>5, <2>4 DEF ToRun
    <3>2. /\ outcome[n] = "none" /\ recorded[n] = "none"
          /\ n \in Alone => logs[n] = {}
          /\ \A p \in late : p[1] # n
      BY <3>1 DEF First
    <3>3. CASE Comes(t, "ok") /\ late' = late
      <4>1. outcome'[n] = "ok"
        BY <1>5, <2>2, <3>3, ComesTo
      <4> QED BY <1>2, <1>5, <2>4, <3>2, <3>3, <4>1 DEF First
    <3>4. CASE ~Iterates(t) /\ UNCHANGED <<outcome, result, recorded, claimed, late, logs>>
      BY <1>2, <1>3, <1>5, <2>4, <3>2, <3>4 DEF First
    <3>5. CASE /\ ~Iterates(t) /\ Comes(t, "failed") /\ result'[n] \in {"failed", "retries"}
               /\ UNCHANGED <<recorded, claimed, late>>
               /\ n \notin Of("unset") => logs' = Assign(logs, n, logs[n] \union {"error"})
      <4>1. outcome'[n] = "failed"
        BY <1>5, <2>2, <3>5, ComesTo
      <4>2. n \in Alone \ Of("unset") => logs'[n] = {"error"}
        BY <2>3, <3>2, <3>5 DEF Assign
      <4> QED BY <1>2, <1>3, <1>5, <2>4, <3>2, <3>5, <4>1, <4>2 DEF First
    <3>6. CASE ~Iterates(t) /\ Comes(t, "lost")
      <4>1. outcome'[n] = "lost"
        BY <1>5, <2>2, <3>6, ComesTo
      <4> QED BY <1>2, <1>5, <2>4, <3>6, <4>1 DEF First
    <3> QED BY <1>1, <1>5, <2>4, <3>3, <3>4, <3>5, <3>6 DEF Ends
  <2>5. CASE live[t].at = "iterating"
    <3>1. outcome[n] = "ok" /\ \A p \in late : p[1] # n
      BY <1>5, <2>5 DEF First, Iterating
    <3>2. CASE /\ UNCHANGED <<outcome, recorded, claimed, late>>
               /\ result'[n] = result[n] /\ logs'[n] = logs[n]
      <4>1. Unmoved(n)
        BY <3>2 DEF Unmoved
      <4> QED BY <1>2, <2>5, <4>1, FirstKept
    <3>3. CASE /\ Comes(t, "failed") /\ result'[n] = "failed" /\ logs'[n] = {"error"}
               /\ late' = late /\ t \notin DOMAIN live'
      <4>1. outcome'[n] = "failed"
        BY <1>5, <2>2, <3>3, ComesTo
      <4>2. ~ToRun(n)'
        <5>1. turn[n] # 0 /\ ~\E u \in DOMAIN live : u[1] = n /\ live[u].at = "step"
          BY <2>1, <2>5, OnlyOne
        <5> QED BY <1>2, <2>5, <5>1 DEF Lasts, ToRun
      <4>3. \A u \in DOMAIN live' : u[1] = n => live'[u].at \notin Iterating
        BY <2>1, <3>3, OnlyOneStill
      <4> QED BY <1>3, <3>1, <3>3, <4>1, <4>2, <4>3 DEF First
    <3>4. CASE /\ late' = late /\ t \in DOMAIN live' /\ live'[t].at = "await"
               /\ Comes(t, "lost") \/ (Comes(t, "threw") /\ result'[n] = "failed")
      <4>1. outcome'[n] = "lost" \/ (outcome'[n] = "threw" /\ result'[n] = "failed")
        BY <1>5, <2>2, <3>4, ComesTo
      <4>2. ~ToRun(n)'
        <5>1. turn[n] # 0 /\ ~\E u \in DOMAIN live : u[1] = n /\ live[u].at = "step"
          BY <2>1, <2>5, OnlyOne
        <5> QED BY <1>2, <2>5, <5>1 DEF Lasts, ToRun
      <4>3. \A u \in DOMAIN live' : u[1] = n => live'[u].at \notin Iterating
        <5>1. \A u \in DOMAIN live' : u[1] = n => u = t
          BY <2>1, OnlyOneStill
        <5> QED BY <3>4, <5>1 DEF Iterating
      <4> QED BY <1>3, <3>1, <3>4, <4>1, <4>2, <4>3 DEF First
    <3> QED BY <1>1, <1>5, <2>5, <3>2, <3>3, <3>4 DEF Ends
  <2> QED BY <1>1, <2>4, <2>5 DEF Ends
<1> QED BY <1>4, <1>5

LEMMA StepKeeps ==
  ASSUME EngineInv, RecordInv, Decisions, NEW t \in DOMAIN live, StepEnds(t)
  PROVE  UNCHANGED looping /\ visited \subseteq visited'
<1>1. CASE Moves(t)
  <2>1. PICK from \in Nodes, forward \in SUBSET Nodes, marked \in SUBSET Nodes,
            new \in SUBSET Nodes, a \in Activations : Moved(t, from, forward, marked, new, a)
    BY <1>1 DEF Moves
  <2> QED BY <2>1 DEF Moved, Grown
<1>2. CASE Iterates(t)
  BY <1>2 DEF Iterates
<1>3. CASE Leaves(t)
  BY <1>3 DEF Leaves
<1> QED BY <1>1, <1>2, <1>3, StepMoves

LEMMA FirstStep ==
  ASSUME EngineInv, EngineInv', RecordInv, Decisions, FirstInv, [Next]_vars
  PROVE  FirstInv'
<1>1. graph' = graph /\ Nodes' = Nodes
  BY SameNodes
<1>2. /\ outcome \in [Nodes -> {"none", "ok", "failed", "threw", "lost"}]
      /\ result \in [Nodes -> Results] /\ reentries \in [Nodes -> Nat]
      /\ recorded \in [Nodes -> {"none", "ok", "true", "false"}]
      /\ logs \in [Nodes -> SUBSET {"success", "error"}]
  BY DEF FirstInv, EngineInv, ValueInv, LoopInv
<1>3. \A t \in DOMAIN live : live[t] \in Activations
  BY DEF EngineInv, LiveInv
<1>4. ASSUME reentries' = reentries, outcome' = outcome, \A n \in Nodes : Unmoved(n) /\ Lasts(n)
      PROVE  FirstInv'
  <2>1. ASSUME NEW n \in Nodes, reentries'[n] = 0 PROVE First(n)'
    <3>1. First(n)
      BY <1>4, <2>1 DEF FirstInv
    <3> QED BY <1>1, <1>4, <3>1, FirstKept
  <2> QED BY <1>1, <1>2, <1>4, <2>1 DEF FirstInv
<1>5. ASSUME UNCHANGED storing, outcome' = outcome, NEW n \in Nodes,
             result'[n] = "retries" => result[n] = "retries"
      PROVE  Unmoved(n)
  BY <1>5 DEF storing, Unmoved
<1>6. ASSUME UNCHANGED <<turn, live>>, NEW n \in Nodes PROVE Lasts(n)
  BY <1>6, ShrunkLasts
<1>7. ASSUME NEW t \in DOMAIN live, StepEnds(t) PROVE FirstInv'
  <2>1. reentries' = reentries
    <3>1. UNCHANGED looping
      BY <1>7, StepKeeps
    <3> QED BY <3>1 DEF looping
  <2>2. outcome' \in [Nodes -> {"none", "ok", "failed", "threw", "lost"}]
    BY <1>7, EndsElsewhere
  <2>3. ASSUME NEW n \in Nodes, reentries[n] = 0 PROVE First(n)'
    <3>1. First(n)
      BY <2>3 DEF FirstInv
    <3> QED BY <1>1, <1>7, <2>1, <2>3, <3>1, FirstEnds
  <2> QED BY <1>1, <2>1, <2>2, <2>3 DEF FirstInv
<1>8. ASSUME NEW t \in DOMAIN live, LoopBack(t) PROVE FirstInv'
  <2>1. PICK entry \in Nodes, a \in Activations : Looped(t, entry, a)
    BY <1>8, LoopBackShape
  <2>2. /\ UNCHANGED storing /\ result' = result
        /\ \E body : outcome' = [n \in Nodes |-> IF n \in body THEN "none" ELSE outcome[n]] /\
                     reentries' = [n \in Nodes |-> IF n \in body THEN reentries[n] + 1 ELSE reentries[n]]
    BY <1>8 DEF LoopBack
  <2>3. /\ outcome' \in [Nodes -> {"none", "ok", "failed", "threw", "lost"}]
        /\ \A n \in Nodes : reentries'[n] = 0 => reentries[n] = 0 /\ outcome'[n] = outcome[n]
    BY <1>2, <2>2
  <2>4. ASSUME NEW n \in Nodes, reentries'[n] = 0 PROVE First(n)'
    <3>1. First(n)
      BY <2>3, <2>4 DEF FirstInv
    <3>2. Unmoved(n)
      BY <2>2, <2>3, <2>4 DEF storing, Unmoved
    <3>3. Lasts(n)
      <4> DEFINE new == {entry}
                 before == visited \ Scope(entry)
      <4>1. new \in SUBSET Nodes /\ Grown(t, a, before, new) /\ a.at = live[t].at
        BY <2>1 DEF Looped
      <4> HIDE DEF new, before
      <4> QED BY <1>1, <2>4, <4>1, GrownLasts
    <3> QED BY <1>1, <3>1, <3>2, <3>3, FirstKept
  <2> QED BY <1>1, <2>3, <2>4 DEF FirstInv
<1>9. ASSUME NEW t \in DOMAIN live, LoopRefused(t) PROVE FirstInv'
  <2>1. PICK entry \in live[t].loops :
          /\ result' = Assign(result, live[t].from, "capped")
          /\ live' = [live EXCEPT ![t].loops = @ \ {entry}]
          /\ turn' = turn /\ outcome' = outcome /\ UNCHANGED <<looping, storing>>
    BY <1>9 DEF LoopRefused
  <2>2. DOMAIN live' \subseteq DOMAIN live /\ \A u \in DOMAIN live' : live'[u].at = live[u].at
    BY <1>3, <2>1 DEF Activations
  <2>3. \A n \in Nodes : result'[n] = "retries" => result[n] = "retries"
    BY <1>2, <2>1 DEF Assign
  <2>4. \A n \in Nodes : Unmoved(n) /\ Lasts(n)
    BY <1>5, <2>1, <2>2, <2>3, ShrunkLasts
  <2> QED BY <1>4, <2>1, <2>4 DEF looping
<1>10. ASSUME NEW t \in DOMAIN live, SkipBranch(t) PROVE FirstInv'
  <2>1. PICK hits \in SUBSET (Nodes \X Nodes), through \in SUBSET Nodes,
            new \in SUBSET Nodes, a \in Activations : Spared(t, hits, through, new, a)
    BY <1>10, SkipBranchShape
  <2>2. UNCHANGED <<looping, storing>> /\ result' = result /\ outcome' = outcome
    BY <1>10 DEF SkipBranch
  <2>3. ASSUME NEW n \in Nodes, reentries[n] = 0 PROVE First(n)'
    <3>1. First(n) /\ Unmoved(n)
      BY <1>5, <2>2, <2>3 DEF FirstInv
    <3>2. Lasts(n)
      <4>1. Grown(t, a, visited, new) /\ a.at = live[t].at
        BY <2>1 DEF Spared
      <4> QED BY <1>1, <2>2, <2>3, <4>1, GrownLasts DEF looping
    <3> QED BY <1>1, <3>1, <3>2, FirstKept
  <2> QED BY <1>1, <1>2, <2>2, <2>3 DEF FirstInv, looping
<1>11. ASSUME NEW t \in DOMAIN live, ActivationReturns(t) PROVE FirstInv'
  <2>1. /\ live' = Without(t) /\ turn' = turn /\ outcome' = outcome /\ UNCHANGED <<looping, storing>>
        /\ result' = IF live[t].at = "iterated" THEN Assign(result, t[1], "ok") ELSE result
    BY <1>11 DEF ActivationReturns, Return
  <2>2. \A n \in Nodes : result'[n] = "retries" => result[n] = "retries"
    BY <1>2, <2>1 DEF Assign
  <2>3. DOMAIN live' \subseteq DOMAIN live /\ \A u \in DOMAIN live' : live'[u].at = live[u].at
    BY <2>1 DEF Without
  <2>4. \A n \in Nodes : Unmoved(n) /\ Lasts(n)
    BY <1>5, <2>1, <2>2, <2>3, ShrunkLasts
  <2> QED BY <1>4, <2>1, <2>4 DEF looping
<1>12. ASSUME NEW m \in Nodes, ClaimLapses(m) PROVE FirstInv'
  <2>1. /\ UNCHANGED <<turn, live, reentries, outcome, recorded, logs, result, late>>
        /\ claimed' \subseteq claimed
    BY <1>12 DEF ClaimLapses, traversal, looping
  <2>2. \A n \in Nodes : Unmoved(n) /\ Lasts(n)
    BY <1>6, <2>1 DEF Unmoved
  <2> QED BY <1>4, <2>1, <2>2
<1>13. ASSUME NEW p \in late, LateCommit(p) PROVE FirstInv'
  <2>1. /\ UNCHANGED <<turn, live, reentries, outcome, result, claimed>>
        /\ late' = late \ {p} /\ Record(p[1], p[2])
    BY <1>13 DEF LateCommit, traversal, looping
  <2>2. ASSUME NEW n \in Nodes, reentries[n] = 0 PROVE First(n)'
    <3>1. First(n) /\ Lasts(n)
      BY <1>6, <2>1, <2>2 DEF FirstInv
    <3>2. CASE n = p[1]
      <4>1. outcome[n] = "lost"
        BY <3>1, <3>2 DEF First
      <4> QED BY <2>1, <3>1, <4>1 DEF First, Lasts
    <3>3. CASE n # p[1]
      <4>1. Unmoved(n)
        BY <1>2, <2>1, <3>3 DEF Unmoved, Record, Assign
      <4> QED BY <1>1, <3>1, <4>1, FirstKept
    <3> QED BY <3>2, <3>3
  <2> QED BY <1>1, <1>2, <2>1, <2>2 DEF FirstInv
<1>14. ASSUME Finalize PROVE FirstInv'
  <2>1. PICK found \in SUBSET Recoverable :
          LET orphans == Orphans(Reconciled(found))
          IN  result' = [n \in Nodes |-> IF n \in orphans THEN "orphan" ELSE Reconciled(found)[n]]
    BY <1>14 DEF Finalize
  <2>2. \A n \in Nodes : result'[n] = "retries" => result[n] = "retries"
    BY <2>1 DEF Reconciled
  <2>3. UNCHANGED <<turn, live, reentries, outcome>> /\ UNCHANGED storing
    BY <1>14 DEF Finalize, traversal, looping
  <2>4. \A n \in Nodes : Unmoved(n) /\ Lasts(n)
    BY <1>5, <1>6, <2>2, <2>3
  <2> QED BY <1>4, <2>3, <2>4
<1>15. ASSUME UNCHANGED vars PROVE FirstInv'
  <2>1. UNCHANGED <<turn, live, reentries, outcome, result>> /\ UNCHANGED storing
    BY <1>15 DEF vars, storing
  <2>2. \A n \in Nodes : Unmoved(n) /\ Lasts(n)
    BY <1>5, <1>6, <2>1
  <2> QED BY <1>4, <2>1, <2>2
<1> QED BY <1>7, <1>8, <1>9, <1>10, <1>11, <1>12, <1>13, <1>14, <1>15 DEF Next, GoesOn

(* Its own result, while the passes do not overlap, is what a step came to. *)
LEMMA ShownStep ==
  ASSUME EngineInv, EngineInv', RecordInv, Decisions, CurrentInv, FirstInv, ShownInv,
         ~overlapped, [Next]_vars
  PROVE  ShownInv'
<1>1. graph' = graph /\ Nodes' = Nodes /\ Alone' = Alone /\ \A k : Of(k)' = Of(k)
  BY SameNodes, SameGraph, SameAlone
<1>2. /\ outcome \in [Nodes -> {"none", "ok", "failed", "threw", "lost"}]
      /\ result \in [Nodes -> Results] /\ reentries \in [Nodes -> Nat]
  BY DEF FirstInv, EngineInv, ValueInv, LoopInv
<1> DEFINE Counts(n) == n \in Alone /\ (n \in Of("foreach") => reentries[n] = 0)
           Bad == {"failed", "retries", "capped"}
<1>3. ASSUME outcome' = outcome, visited \subseteq visited', verdict' = "none" => verdict = "none",
             reentries' = reentries,
             \A n \in Nodes : verdict' = "none" /\ outcome[n] \in {"failed", "threw"} /\ Counts(n) /\ result[n] \in Bad
                                => result'[n] \in Bad
      PROVE  ShownInv'
  BY <1>1, <1>3 DEF ShownInv
<1>4. ASSUME NEW t \in DOMAIN live, StepEnds(t) PROVE ShownInv'
  <2>1. Elsewhere(t) /\ Ends(t) /\ verdict' = verdict
    BY <1>4, EndsElsewhere, StepsEnd, ResultsAreOwn
  <2>2. UNCHANGED looping /\ visited \subseteq visited' /\ Runs(t)
    <3>1. Runs(t)
      BY <2>1 DEF Ends, Runs, Waiting
    <3> QED BY <1>4, <3>1, StepKeeps
  <2>3. t[2] = turn[t[1]] /\ t[1] \in visited
    BY <2>2 DEF CurrentInv
  <2>4. ASSUME NEW n \in Nodes
        PROVE  /\ outcome'[n] # "none" => n \in visited'
               /\ verdict' = "none" /\ outcome'[n] \in {"failed", "threw"} /\ Counts(n) => result'[n] \in Bad
    <3>1. CASE n # t[1]
      <4>1. outcome'[n] = outcome[n] /\ (n \in Alone => result'[n] = result[n])
        BY <2>1, <3>1 DEF Elsewhere, Unmoved
      <4> QED BY <2>1, <2>2, <4>1 DEF ShownInv
    <3>2. CASE n = t[1]
      <4>1. CASE Comes(t, "ok") \/ Comes(t, "lost")
        <5>1. outcome'[n] \in {"ok", "lost"}
          BY <2>3, <3>2, <4>1, ComesTo
        <5> QED BY <2>2, <2>3, <3>2, <5>1
      <4>2. CASE outcome' = outcome /\ result'[n] = result[n]
        BY <2>1, <2>2, <2>3, <3>2, <4>2 DEF ShownInv
      <4>3. CASE (Comes(t, "failed") \/ Comes(t, "threw")) /\ result'[n] \in {"failed", "retries"}
        BY <2>2, <2>3, <3>2, <4>3
      <4> QED BY <2>1, <3>2, <4>1, <4>2, <4>3 DEF Ends
    <3> QED BY <3>1, <3>2
  <2> QED BY <1>1, <2>2, <2>4 DEF ShownInv, looping
<1>5. ASSUME NEW t \in DOMAIN live, LoopBack(t) PROVE ShownInv'
  <2>1. PICK body :
          /\ reentries' = [n \in Nodes |-> IF n \in body THEN reentries[n] + 1 ELSE reentries[n]]
          /\ outcome' = [n \in Nodes |-> IF n \in body THEN "none" ELSE outcome[n]]
          /\ visited \ body \subseteq visited' /\ verdict' = verdict /\ result' = result
    BY <1>5 DEF LoopBack, Enter, ended
  <2>2. ASSUME NEW n \in Nodes, outcome'[n] # "none"
        PROVE  outcome'[n] = outcome[n] /\ n \notin body /\ reentries'[n] = reentries[n]
    BY <1>2, <2>1, <2>2
  <2> QED BY <1>1, <2>1, <2>2 DEF ShownInv
<1>6. ASSUME NEW t \in DOMAIN live, LoopRefused(t) PROVE ShownInv'
  <2>1. /\ result' = Assign(result, live[t].from, "capped") /\ verdict' = verdict
        /\ UNCHANGED <<visited, outcome, reentries>>
    BY <1>6 DEF LoopRefused, looping, ended
  <2>2. \A n \in Nodes : result[n] \in Bad => result'[n] \in Bad
    BY <1>2, <2>1 DEF Assign
  <2> QED BY <1>3, <2>1, <2>2
<1>7. ASSUME NEW t \in DOMAIN live, SkipBranch(t) PROVE ShownInv'
  <2>1. PICK hits \in SUBSET (Nodes \X Nodes), through \in SUBSET Nodes,
            new \in SUBSET Nodes, a \in Activations : Spared(t, hits, through, new, a)
    BY <1>7, SkipBranchShape
  <2>2. visited \subseteq visited'
    BY <2>1 DEF Spared, Grown
  <2>3. UNCHANGED <<result, outcome, verdict, reentries>>
    BY <1>7 DEF SkipBranch, looping, ended
  <2> QED BY <1>3, <2>2, <2>3
<1>8. ASSUME NEW t \in DOMAIN live, ActivationReturns(t) PROVE ShownInv'
  <2>1. /\ UNCHANGED <<visited, outcome, verdict, reentries>>
        /\ result' = IF live[t].at = "iterated" THEN Assign(result, t[1], "ok") ELSE result
    BY <1>8 DEF ActivationReturns, Return, looping, ended
  <2>2. ASSUME NEW n \in Nodes, outcome[n] \in {"failed", "threw"}, Counts(n) PROVE result'[n] = result[n]
    <3>1. CASE live[t].at = "iterated" /\ n = t[1]
      <4>1. reentries[n] = 0
        BY <2>2, <3>1 DEF EngineInv, LiveInv
      <4>2. outcome[n] = "ok"
        BY <3>1, <4>1 DEF FirstInv, First, Iterating
      <4> QED BY <2>2, <4>2
    <3>2. CASE live[t].at # "iterated" \/ n # t[1]
      BY <1>2, <2>1, <3>2 DEF Assign
    <3> QED BY <3>1, <3>2
  <2> QED BY <1>3, <2>1, <2>2
<1>9. ASSUME UNCHANGED <<visited, outcome, verdict, reentries, result>> PROVE ShownInv'
  BY <1>3, <1>9
<1>10. ASSUME NEW m \in Nodes, ClaimLapses(m) PROVE ShownInv'
  BY <1>9, <1>10 DEF ClaimLapses, traversal, looping, ended
<1>11. ASSUME NEW p \in late, LateCommit(p) PROVE ShownInv'
  BY <1>9, <1>11 DEF LateCommit, traversal, looping, ended
<1>12. ASSUME Finalize PROVE ShownInv'
  <2>1. verdict' # "none" /\ UNCHANGED <<visited, outcome, reentries>>
    BY <1>12 DEF Finalize, traversal, looping
  <2> QED BY <1>1, <2>1 DEF ShownInv
<1>13. ASSUME UNCHANGED vars PROVE ShownInv'
  BY <1>9, <1>13 DEF vars
<1> QED BY <1>4, <1>5, <1>6, <1>7, <1>8, <1>10, <1>11, <1>12, <1>13 DEF Next, GoesOn

LEMMA FailureAtVerdict ==
  ASSUME EngineInv, FirstInv, ShownInv, Finalize, SkippedDidNotRun,
         NEW n \in Alone
  PROVE  FailureShows(n)'
<1>1. /\ UNCHANGED <<graph, visited, skipped, overlapped, reentries, outcome, logs>>
      /\ verdict = "none" /\ n \in Nodes /\ logs \in [Nodes -> SUBSET {"success", "error"}]
  BY DEF EngineInv, ValueInv, Alone, Finalize, traversal, joining, looping, storing
<1>2. PICK found \in SUBSET Recoverable :
        LET orphans == Orphans(Reconciled(found))
            results == [m \in Nodes |-> IF m \in orphans THEN "orphan" ELSE Reconciled(found)[m]]
            good == \A m \in Nodes \ skipped : Fine(results[m])
        IN  /\ result' = results
            /\ verdict' = IF good THEN "success" ELSE "error"
            /\ \/ row' = "success" /\ (good \/ TrulyFailed = {} \/ Awaited(results))
               \/ row' = "error" /\ ~good /\ TrulyFailed # {}
  BY DEF Finalize
<1>3. BothWays' = BothWays
  BY <1>1, SameGraph DEF BothWays, Preds, Targets
<1>4. \A k : Of(k)' = Of(k)
  BY <1>1, SameGraph
<1> SUFFICES ASSUME outcome[n] \in {"failed", "threw"}, n \notin BothWays, ~overlapped,
                    reentries[n] > 0 => result'[n] # "reconciled" /\ n \notin Of("foreach")
             PROVE  /\ verdict' = "error"
                    /\ outcome[n] = "failed" /\ reentries[n] = 0 /\ n \notin Of("unset")
                         => row' = "error"
  BY <1>1, <1>3, <1>4 DEF FailureShows
<1>5. reentries[n] = 0 \/ reentries[n] > 0
  BY <1>1 DEF EngineInv, LoopInv
<1>6. n \notin skipped /\ result[n] \in {"failed", "retries", "capped"}
  BY <1>1, <1>5 DEF ShownInv, SkippedDidNotRun
<1>7. result'[n] # "reconciled"
  <2>1. CASE reentries[n] = 0
    <3>1. n \notin found
      BY <1>1, <2>1 DEF FirstInv, First, Recoverable
    <3> QED BY <1>1, <1>2, <1>6, <3>1 DEF Reconciled
  <2> QED BY <1>5, <2>1
<1>8. ~Fine(result'[n])
  BY <1>1, <1>2, <1>6, <1>7 DEF Reconciled, Fine
<1>9. verdict' = "error"
  BY <1>1, <1>2, <1>6, <1>8
<1>10. ASSUME outcome[n] = "failed", reentries[n] = 0, n \notin Of("unset") PROVE row' = "error"
  <2>1. logs[n] = {"error"}
    BY <1>1, <1>10 DEF FirstInv, First
  <2>2. n \in TrulyFailed /\ \A results : ~Awaited(results)
    BY <1>1, <2>1 DEF TrulyFailed, Awaited
  <2>3. ~\A m \in Nodes \ skipped : Fine(result'[m])
    BY <1>1, <1>6, <1>8
  <2> QED BY <1>2, <2>2, <2>3
<1> QED BY <1>9, <1>10

FailuresInv == SkippedDidNotRun => \A n \in Alone : FailureShows(n)

(* Wherever no node is both skipped and run, a step that failed in its last *)
(* pass makes the verdict an error, and the row's status too where its log   *)
(* row tells of it; a For Each that threw after its step had logged success  *)
(* makes the verdict an error.  What FailuresShow leaves out is left out;    *)
(* the nodes are all, or where iterations run, all but Collects.             *)
THEOREM FailuresAreShown ==
  Spec => [](/\ SkippedDidNotRun => \A n \in Alone : FailureShows(n)
             /\ SkippedDidNotRun /\ Alone = Nodes => FailuresShow)
<1> DEFINE Inv == EngineInv /\ RecordInv /\ PassInv
           Shown == FinalInv /\ FirstInv /\ ShownInv /\ FailuresInv
           Claim == /\ SkippedDidNotRun => \A n \in Alone : FailureShows(n)
                    /\ SkippedDidNotRun /\ Alone = Nodes => FailuresShow
<1>1. ASSUME Init PROVE Shown
  <2>1. /\ verdict = "none" /\ late = {} /\ claimed = {}
        /\ turn = [n \in Nodes |-> IF n = Trigger THEN 1 ELSE 0]
        /\ live = [t \in {<<Trigger, 1>>} |-> Fresh(None)]
        /\ outcome = [n \in Nodes |-> "none"] /\ recorded = [n \in Nodes |-> "none"]
        /\ logs = [n \in Nodes |-> {}] /\ \A n \in Nodes : result[n] = "none"
    BY <1>1 DEF Init
  <2>2. \A t \in DOMAIN live : live[t].at = "step"
    BY <2>1 DEF Fresh
  <2>3. \A n \in Nodes : First(n)
    BY <2>1, <2>2 DEF First, Iterating, Alone
  <2>4. FirstInv
    BY <2>1, <2>3 DEF FirstInv
  <2>5. ShownInv
    BY <2>1 DEF ShownInv
  <2>6. FinalInv /\ FailuresInv
    BY <2>1 DEF FinalInv, FailuresInv, FailureShows
  <2> QED BY <2>4, <2>5, <2>6
<1>2. ASSUME Inv, Inv', Shown, [Next]_vars PROVE Shown'
  <2>1. FinalInv' /\ (Finalize \/ verdict' = "none" \/ UNCHANGED vars)
    BY <1>2, FinalStep
  <2>2. FirstInv'
    BY <1>2, FirstStep DEF PassInv
  <2>3. ShownInv'
    <3>1. CASE overlapped'
      BY <3>1 DEF ShownInv
    <3>2. CASE ~overlapped'
      <4>1. ~overlapped
        BY <1>2, <3>2, OverlapStays DEF PassInv
      <4>2. Decisions /\ CurrentInv
        BY <1>2, <4>1 DEF PassInv, OnePass
      <4> QED BY <1>2, <4>1, <4>2, ShownStep
    <3> QED BY <3>1, <3>2
  <2>4. FailuresInv'
    <3>1. graph' = graph /\ Alone' = Alone
      BY <1>2, SameNodes, SameAlone
    <3>2. CASE Finalize
      <4>1. SkippedDidNotRun' <=> SkippedDidNotRun
        <5>1. UNCHANGED <<graph, visited, skipped, overlapped>>
          BY <3>2 DEF Finalize, traversal, joining, looping
        <5>2. BothWays' = BothWays
          BY <5>1, SameGraph DEF BothWays, Preds, Targets
        <5> QED BY <5>1, <5>2 DEF SkippedDidNotRun
      <4> QED BY <1>2, <3>1, <3>2, <4>1, FailureAtVerdict DEF FailuresInv
    <3>3. CASE verdict' = "none"
      BY <3>3 DEF FailuresInv, FailureShows
    <3>4. CASE UNCHANGED vars
      <4>1. UNCHANGED <<graph, visited, skipped, overlapped, verdict, row, outcome, reentries, result>>
        BY <3>4 DEF vars
      <4>2. BothWays' = BothWays
        BY <4>1, SameGraph DEF BothWays, Preds, Targets
      <4>3. \A k : Of(k)' = Of(k)
        BY <4>1, SameGraph
      <4>4. \A n : FailureShows(n)' <=> FailureShows(n)
        BY <4>1, <4>2, <4>3 DEF FailureShows
      <4>5. SkippedDidNotRun' <=> SkippedDidNotRun
        BY <4>1, <4>2 DEF SkippedDidNotRun
      <4> QED BY <1>2, <3>1, <4>4, <4>5 DEF FailuresInv
    <3> QED BY <2>1, <3>2, <3>3, <3>4
  <2> QED BY <2>1, <2>2, <2>3, <2>4
<1>3. Shown => Claim
  BY DEF FailuresInv, FailuresShow
<1> QED BY PassInvariant, <1>1, <1>2, <1>3, PTL DEF Spec

(* Without a For Each, and where every loop has one entry, nothing more is   *)
(* asked: until a loop is taken for an activation that had been outrun, every *)
(* step that failed in its last pass shows in the verdict and in the row.    *)
COROLLARY PlainFailuresAreShown ==
  ASSUME \A g \in Graphs : OneEntry(g)
  PROVE  Spec => [](~revived /\ Of("foreach") = {} => FailuresShow)
<1> DEFINE Kept  == ~revived => /\ \A n \in skipped \intersect visited :
                                     n \in BothWays \union Swept \/ overlapped
                                /\ Of("foreach") = {} => SkippedDidNotRun
           Shown == /\ SkippedDidNotRun => \A n \in Alone : FailureShows(n)
                    /\ SkippedDidNotRun /\ Alone = Nodes => FailuresShow
           Plain == ~revived /\ Of("foreach") = {} => FailuresShow
<1>1. Spec => []Kept
  BY SkippedNeverRan
<1>2. Spec => []Shown
  BY FailuresAreShown
<1>3. Kept /\ Shown => Plain
  BY DEF Alone
<1> QED BY <1>1, <1>2, <1>3, PTL

-----------------------------------------------------------------------------
(* A green run ran the whole, where no For Each runs iterations of its own.  *)

(* n has heard of p by an arrival or by its entry; or so, or as a skip. *)
Heard(p, n) == IF n \in Joins THEN <<p, n>> \in arrived ELSE n \in visited
Passed(p, n) == IF n \in Joins THEN <<p, n>> \in arrived ELSE n \in visited \union skipped

(* What was skipped has been passed by on to what it leads to. *)
SkippedOn == \A p \in skipped : \A n \in ForwardFrom(p) : Passed(p, n)

(* Only a loop takes a node back that was attempted. *)
AttemptInv ==
  /\ visited \subseteq attempted
  /\ \A n \in (attempted \ visited) \ Joins : \A p \in Preds(n) : reentries[p] > 0

(* What a condition chose against was passed by, or is still to be skipped. *)
Waits(p, n) == \E t \in DOMAIN live : t[1] = p /\ ~Runs(t) /\ ~Outrun(t) /\ n \in live[t].spare
AgainstInv ==
  \A p \in Nodes : \A n \in ForwardFrom(p) : Against(p, n, decision) => Passed(p, n) \/ Waits(p, n)

(* What p leads to has heard of it; or joins have, and p may be found again. *)
Tells(p) ==
  /\ p \in Of("condition") => decision[p] # "none"
  /\ \A n \in ForwardFrom(p) : Leads(p, n, decision) => Heard(p, n)
Signals(p) ==
  /\ result[p] = "retries"
  /\ p \notin Of("condition") => \A n \in ForwardFrom(p) \intersect Joins : <<p, n>> \in arrived

(* What was entered is at work, has failed for good, or has told of itself. *)
ToldInv ==
  \A p \in visited : AtWork(p) \/ result[p] \in {"failed", "capped"} \/ Signals(p) \/ Tells(p)

PlainSpread == Trigger \in visited /\ SkippedOn /\ AttemptInv
TimelySpread == AgainstInv /\ (verdict = "none" => ToldInv)
SpreadInv ==
  Of("foreach") = {} => PlainSpread /\ (~overlapped => TimelySpread)

LEMMA PassedPrimed ==
  ASSUME graph' = graph
  PROVE  /\ \A p, n : Heard(p, n)' <=> IF n \in Joins THEN <<p, n>> \in arrived' ELSE n \in visited'
         /\ \A p, n : Passed(p, n)' <=>
              IF n \in Joins THEN <<p, n>> \in arrived' ELSE n \in visited' \union skipped'
         /\ \A n : ForwardFrom(n)' = ForwardFrom(n) /\ Preds(n)' = Preds(n)
         /\ Trigger' = Trigger /\ Nodes' = Nodes /\ Joins' = Joins
BY SameDuties DEF Heard, Passed, Trigger, Nodes

LEMMA PassedStays ==
  ASSUME graph' = graph, visited \subseteq visited', arrived \subseteq arrived',
         skipped \subseteq skipped'
  PROVE  \A p, n : (Heard(p, n) => Heard(p, n)') /\ (Passed(p, n) => Passed(p, n)')
BY PassedPrimed DEF Heard, Passed

(* A loop takes back nothing that a node outside its body has told. *)
LEMMA PassedLoops ==
  ASSUME EngineInv, NEW t \in DOMAIN live, NEW entry \in Nodes, NEW a, Looped(t, entry, a),
         NEW p \in Nodes \ Scope(entry), NEW n \in ForwardFrom(p)
  PROVE  (Heard(p, n) => Heard(p, n)') /\ (Passed(p, n) => Passed(p, n)')
<1>1. /\ graph \in Graphs /\ graph' = graph
      /\ arrived' = arrived \ Inside(arrived, Scope(entry)) /\ skipped' = skipped \ Scope(entry)
      /\ visited' = (visited \ Scope(entry)) \union {entry}
  BY DEF EngineInv, Looped, Grown
<1>2. n \in Nodes /\ p \in Preds(n)
  BY <1>1, Neighbours
<1>3. CASE n \in Joins
  <2>1. <<p, n>> \in arrived => <<p, n>> \in arrived'
    BY <1>1 DEF Inside
  <2> QED BY <1>1, <1>3, <2>1, PassedPrimed DEF Heard, Passed
<1>4. CASE n \notin Joins
  <2>1. ASSUME n \in Scope(entry), n # entry PROVE FALSE
    <3>1. PICK q \in Preds(n) : q \in Scope(entry)
      BY <1>1, <2>1, ScopeHasWay
    <3>2. q = p
      BY <1>1, <1>2, <1>4, OneWayIn
    <3> QED BY <3>1, <3>2
  <2> QED BY <1>1, <1>4, <2>1, PassedPrimed DEF Heard, Passed
<1> QED BY <1>3, <1>4

LEMMA PlainSpreads ==
  ASSUME EngineInv, RecordInv, Decisions, Of("foreach") = {}, PlainSpread, [Next]_vars
  PROVE  PlainSpread'
<1>1. graph \in Graphs /\ graph' = graph /\ SkippedOn /\ AttemptInv /\ Trigger \in visited
  BY SameNodes DEF EngineInv, PlainSpread
<1>2. ASSUME visited \subseteq visited', arrived \subseteq arrived', skipped' = skipped
      PROVE  SkippedOn'
  BY <1>1, <1>2, PassedStays, PassedPrimed DEF SkippedOn
<1>3. ASSUME NEW new, visited' = visited \union new, attempted' = attempted \union new,
             reentries' = reentries
      PROVE  AttemptInv'
  BY <1>1, <1>3, PassedPrimed DEF AttemptInv
<1>4. ASSUME visited \subseteq visited' PROVE Trigger' \in visited'
  BY <1>1, <1>4, PassedPrimed
<1>5. CASE Settles
  <2>1. /\ visited' = visited /\ attempted' = attempted
        /\ arrived' = arrived /\ skipped' = skipped /\ reentries' = reentries
    BY <1>5 DEF Settles, joining, looping
  <2>2. SkippedOn' /\ Trigger' \in visited'
    BY <1>2, <1>4, <2>1
  <2>3. AttemptInv'
    BY <1>1, <2>1, PassedPrimed DEF AttemptInv
  <2> QED BY <2>2, <2>3 DEF PlainSpread
<1>6. ASSUME NEW t \in DOMAIN live, Moves(t) PROVE PlainSpread'
  <2>1. PICK from \in Nodes, forward \in SUBSET Nodes, marked \in SUBSET Nodes,
            new \in SUBSET Nodes, a \in Activations : Moved(t, from, forward, marked, new, a)
    BY <1>6 DEF Moves
  <2>2. marked = {}
    BY <2>1 DEF Moved
  <2>3. /\ visited' = visited \union new /\ attempted' = attempted \union new
        /\ arrived \subseteq arrived' /\ skipped' = skipped /\ reentries' = reentries
    BY <2>1, <2>2 DEF Moved, Grown, looping
  <2>4. visited \subseteq visited'
    BY <2>3
  <2> QED BY <1>2, <1>3, <1>4, <2>3, <2>4 DEF PlainSpread
<1>7. ASSUME NEW t \in DOMAIN live, NEW entry \in Nodes, NEW a, Looped(t, entry, a)
      PROVE  PlainSpread'
  <2> DEFINE body == Scope(entry)
  <2>1. /\ visited' = (visited \ body) \union {entry} /\ attempted' = attempted \union {entry}
        /\ skipped' = skipped \ body
        /\ \A n \in Nodes : reentries'[n] = IF n \in body THEN reentries[n] + 1 ELSE reentries[n]
    BY <1>7 DEF Looped, Grown
  <2>2. skipped \subseteq Nodes /\ attempted \subseteq Nodes /\ reentries \in [Nodes -> Nat]
    BY DEF EngineInv, SetInv, LoopInv
  <2>3. SkippedOn'
    <3> SUFFICES ASSUME NEW p \in skipped', NEW n \in ForwardFrom(p) PROVE Passed(p, n)'
      BY <1>1, PassedPrimed DEF SkippedOn
    <3>1. p \in skipped /\ p \in Nodes \ Scope(entry)
      BY <2>1, <2>2
    <3> QED BY <1>1, <1>7, <3>1, PassedLoops DEF SkippedOn
  <2>4. AttemptInv'
    <3>1. ASSUME NEW n \in (attempted' \ visited') \ Joins, NEW p \in Preds(n) PROVE reentries'[p] > 0
      <4>1. n \in attempted /\ n # entry /\ n \in Nodes /\ p \in Nodes
        BY <1>1, <2>1, <2>2, Neighbours
      <4>2. CASE n \in visited
        <5>1. n \in body
          BY <2>1, <4>2
        <5>2. PICK q \in Preds(n) : q \in body
          BY <1>1, <4>1, <5>1, ScopeHasWay
        <5>3. q = p
          BY <1>1, <4>1, OneWayIn
        <5> QED BY <2>1, <2>2, <4>1, <5>2, <5>3
      <4>3. CASE n \notin visited
        <5>1. reentries[p] > 0
          BY <1>1, <4>1, <4>3 DEF AttemptInv
        <5> QED BY <2>1, <2>2, <4>1, <5>1
      <4> QED BY <4>2, <4>3
    <3>2. visited' \subseteq attempted'
      BY <1>1, <2>1 DEF AttemptInv
    <3> QED BY <1>1, <3>1, <3>2, PassedPrimed DEF AttemptInv
  <2>5. Trigger \in body => Trigger = entry
    <3>1. Preds(Trigger) = {}
      BY <1>1, GraphFacts
    <3> QED BY <1>1, <3>1, ScopeHasWay
  <2>6. Trigger' \in visited'
    BY <1>1, <2>1, <2>5, PassedPrimed
  <2> QED BY <2>3, <2>4, <2>6 DEF PlainSpread
<1>8. ASSUME NEW t \in DOMAIN live, NEW hits, NEW through, NEW new, NEW a,
             Spared(t, hits, through, new, a)
      PROVE  PlainSpread'
  <2>1. /\ visited' = visited \union new /\ attempted' = attempted \union new
        /\ arrived' = arrived \union hits /\ skipped' = skipped \union through
        /\ reentries' = reentries
        /\ \A p \in through : \A n \in ForwardFrom(p) :
             IF n \in Joins THEN <<p, n>> \in hits ELSE n \in through
    BY <1>8 DEF Spared, Grown, looping
  <2>2. \A p, n : Passed(p, n) => Passed(p, n)'
    <3>1. visited \subseteq visited' /\ arrived \subseteq arrived' /\ skipped \subseteq skipped'
      BY <2>1
    <3> QED BY <1>1, <3>1, PassedStays
  <2>3. SkippedOn'
    <3> SUFFICES ASSUME NEW p \in skipped', NEW n \in ForwardFrom(p) PROVE Passed(p, n)'
      BY <1>1, PassedPrimed DEF SkippedOn
    <3>1. CASE p \in skipped
      BY <1>1, <2>2, <3>1 DEF SkippedOn
    <3>2. CASE p \in through
      BY <1>1, <2>1, <3>2, PassedPrimed
    <3> QED BY <2>1, <3>1, <3>2
  <2> QED BY <1>3, <1>4, <2>1, <2>3 DEF PlainSpread
<1> QED BY <1>5, <1>6, <1>7, <1>8, PassShapes

(* What was chosen against stays passed by, or waits to be. *)
LEMMA AgainstStep ==
  ASSUME EngineInv, RecordInv, Decisions, OnePass, Of("foreach") = {}, AgainstInv, [Next]_vars
  PROVE  AgainstInv'
<1>1. graph \in Graphs /\ graph' = graph
  BY SameNodes DEF EngineInv
<1> SUFFICES ASSUME NEW p \in Nodes, NEW n \in ForwardFrom(p), Against(p, n, decision')
             PROVE  Passed(p, n)' \/ Waits(p, n)'
  BY <1>1, PassedPrimed, SameChoices DEF AgainstInv
<1>2. decision'[p] = decision[p] => Passed(p, n) \/ Waits(p, n)
  BY <1>1, ChoiceIsOwn DEF AgainstInv
<1>3. ASSUME NEW u \in DOMAIN live', u[1] = p, live'[u].at \in Waiting,
             live'[u].seen = reentries'[p], n \in live'[u].spare
      PROVE  Waits(p, n)'
  BY <1>3 DEF Waits, Runs, Outrun
<1>4. ASSUME reentries'[p] = reentries[p], NEW u \in DOMAIN live, u[1] = p, ~Runs(u), ~Outrun(u),
             n \in live[u].spare, u \in DOMAIN live', live'[u].at \in Waiting,
             live'[u].seen = live[u].seen, live'[u].spare = live[u].spare
      PROVE  Waits(p, n)'
  <2>1. live[u].seen = reentries[p]
    BY <1>4 DEF Outrun
  <2> QED BY <1>3, <1>4, <2>1
<1>5. CASE Settles
  <2>1. /\ decision' = decision /\ reentries' = reentries
        /\ visited \subseteq visited' /\ arrived' = arrived /\ skipped' = skipped
    BY <1>5 DEF Settles, joining, looping
  <2>2. Passed(p, n) => Passed(p, n)'
    BY <1>1, <2>1, PassedStays
  <2>3. ASSUME NEW u \in DOMAIN live, u[1] = p, ~Runs(u), ~Outrun(u), n \in live[u].spare
        PROVE  Waits(p, n)'
    <3>1. u \in DOMAIN live'
      BY <1>5, <2>3 DEF Settles
    <3>2. /\ live'[u].seen = live[u].seen /\ live'[u].spare = live[u].spare
          /\ live'[u].at \in Waiting
      BY <1>5, <2>3, <3>1 DEF Settles, Runs
    <3> QED BY <1>4, <2>1, <2>3, <3>1, <3>2
  <2> QED BY <1>2, <2>1, <2>2, <2>3 DEF Waits
<1>6. ASSUME NEW t \in DOMAIN live, Moves(t) PROVE Passed(p, n)' \/ Waits(p, n)'
  <2>1. PICK from \in Nodes, forward \in SUBSET Nodes, marked \in SUBSET Nodes,
            new \in SUBSET Nodes, a \in Activations :
          /\ Moved(t, from, forward, marked, new, a) /\ Chose(t, from, forward, a)
          /\ Told(t, forward, a)
    BY <1>6 DEF Moves
  <2>2. /\ Runs(t) /\ a.at \in Waiting /\ a.seen = reentries[t[1]] /\ reentries' = reentries
        /\ visited \subseteq visited' /\ arrived \subseteq arrived' /\ skipped' = skipped
        /\ \A u \in DOMAIN live : u \in DOMAIN live' /\ live'[u] = IF u = t THEN a ELSE live[u]
    BY <2>1 DEF Moved, Grown, looping
  <2>3. CASE p = t[1]
    <3>1. decision[p] = "none"
      BY <2>2, <2>3 DEF OnePass, UndecidedInv
    <3>2. decision' # decision
      BY <3>1 DEF Against
    <3>3. n \in a.spare
      BY <2>1, <2>3, <3>2 DEF Told
    <3> QED BY <1>3, <2>2, <2>3, <3>3
  <2>4. CASE p # t[1]
    <3>1. Passed(p, n) \/ Waits(p, n)
      BY <1>2, <2>1, <2>4 DEF Chose
    <3>2. Passed(p, n) => Passed(p, n)'
      BY <1>1, <2>2, PassedStays
    <3>3. ASSUME NEW u \in DOMAIN live, u[1] = p, ~Runs(u), ~Outrun(u), n \in live[u].spare
          PROVE  Waits(p, n)'
      <4>1. u \in DOMAIN live' /\ live'[u] = live[u]
        BY <2>2, <2>4, <3>3
      <4> QED BY <1>4, <2>2, <3>3, <4>1 DEF Runs
    <3> QED BY <3>1, <3>2, <3>3 DEF Waits
  <2> QED BY <2>3, <2>4
<1>7. ASSUME NEW t \in DOMAIN live, NEW entry \in Nodes, NEW a, Looped(t, entry, a)
      PROVE  Passed(p, n)' \/ Waits(p, n)'
  <2>1. /\ a.at = live[t].at /\ a.seen = live[t].seen /\ a.spare = live[t].spare
        /\ \A u \in DOMAIN live : u \in DOMAIN live' /\ live'[u] = IF u = t THEN a ELSE live[u]
        /\ \A m \in Nodes :
             /\ reentries'[m] = IF m \in Scope(entry) THEN reentries[m] + 1 ELSE reentries[m]
             /\ decision'[m] = IF m \in Scope(entry) THEN "none" ELSE decision[m]
    BY <1>7 DEF Looped, Grown
  <2>2. p \notin Scope(entry) /\ decision'[p] = decision[p] /\ reentries'[p] = reentries[p]
    BY <2>1 DEF Against
  <2>3. Passed(p, n) => Passed(p, n)'
    BY <1>7, <2>2, PassedLoops
  <2>4. ASSUME NEW u \in DOMAIN live, u[1] = p, ~Runs(u), ~Outrun(u), n \in live[u].spare
        PROVE  Waits(p, n)'
    <3>1. /\ u \in DOMAIN live' /\ live'[u].at = live[u].at /\ live'[u].seen = live[u].seen
          /\ live'[u].spare = live[u].spare
      BY <2>1
    <3> QED BY <1>4, <2>2, <2>4, <3>1 DEF Runs
  <2> QED BY <1>2, <2>2, <2>3, <2>4 DEF Waits
<1>8. ASSUME NEW t \in DOMAIN live, NEW hits, NEW through, NEW new, NEW a,
             Spared(t, hits, through, new, a)
      PROVE  Passed(p, n)' \/ Waits(p, n)'
  <2>1. /\ visited \subseteq visited' /\ arrived' = arrived \union hits
        /\ skipped' = skipped \union through /\ reentries' = reentries /\ decision' = decision
        /\ \A m \in live[t].spare : IF m \in Joins THEN <<t[1], m>> \in hits ELSE m \in through
        /\ \A u \in DOMAIN live : u \in DOMAIN live' /\ live'[u] = IF u = t THEN a ELSE live[u]
    BY <1>8 DEF Spared, Grown, looping
  <2>2. arrived \subseteq arrived' /\ skipped \subseteq skipped'
    BY <2>1
  <2>3. Passed(p, n) => Passed(p, n)'
    BY <1>1, <2>1, <2>2, PassedStays
  <2>4. ASSUME NEW u \in DOMAIN live, u[1] = p, ~Runs(u), ~Outrun(u), n \in live[u].spare
        PROVE  Passed(p, n)' \/ Waits(p, n)'
    <3>1. CASE u = t
      <4>1. IF n \in Joins THEN <<p, n>> \in arrived' ELSE n \in skipped'
        BY <2>1, <2>4, <3>1
      <4> QED BY <1>1, <4>1, PassedPrimed
    <3>2. CASE u # t
      <4>1. u \in DOMAIN live' /\ live'[u] = live[u]
        BY <2>1, <3>2
      <4> QED BY <1>4, <2>1, <2>4, <4>1 DEF Runs
    <3> QED BY <3>1, <3>2
  <2> QED BY <1>2, <2>1, <2>3, <2>4 DEF Waits
<1> QED BY <1>5, <1>6, <1>7, <1>8, PassShapes

(* What was told stays told while more is entered, skipped or heard of.     *)
LEMMA ToldOthers ==
  ASSUME EngineInv, graph' = graph, visited \subseteq visited', arrived \subseteq arrived',
         skipped \subseteq skipped', NEW p \in visited, decision'[p] = decision[p],
         result'[p] \in {result[p], "failed", "capped"},
         \A u \in DOMAIN live : u[1] = p /\ Runs(u) => u \in DOMAIN live' /\ live'[u].at = live[u].at,
         AtWork(p) \/ result[p] \in {"failed", "capped"} \/ Signals(p) \/ Tells(p)
  PROVE  (AtWork(p) \/ result[p] \in {"failed", "capped"} \/ Signals(p) \/ Tells(p))'
<1>1. graph \in Graphs
  BY DEF EngineInv
<1>2. AtWork(p) => AtWork(p)'
  BY DEF AtWork, Runs
<1>3. \A n \in ForwardFrom(p) : (Leads(p, n, decision') => Leads(p, n, decision))
  BY <1>1, ChoiceIsOwn
<1>4. \A n : (Heard(p, n) => Heard(p, n)')
  BY PassedStays
<1>5. ForwardFrom(p)' = ForwardFrom(p) /\ Of("condition")' = Of("condition") /\ Joins' = Joins
  BY SameDuties, SameGraph
<1>6. Tells(p) => Tells(p)'
  BY <1>3, <1>4, <1>5, SameChoices DEF Tells
<1>7. Signals(p) => Signals(p)' \/ result'[p] \in {"failed", "capped"}
  BY <1>5 DEF Signals
<1> QED BY <1>2, <1>6, <1>7

LEMMA ToldMoves ==
  ASSUME EngineInv, Of("foreach") = {}, ToldInv, FinalInv', verdict' = "none", graph' = graph,
         NEW t \in DOMAIN live, Moves(t), \A p \in Nodes \ {t[1]} : result'[p] = result[p]
  PROVE  ToldInv'
<1>1. PICK from \in Nodes, forward \in SUBSET Nodes, marked \in SUBSET Nodes,
          new \in SUBSET Nodes, a \in Activations :
        /\ Moved(t, from, forward, marked, new, a) /\ Chose(t, from, forward, a)
        /\ Told(t, forward, a)
  BY DEF Moves
<1>2. marked = {} /\ from = t[1]
  BY <1>1 DEF Moved
<1>3. /\ Grown(t, a, visited, new) /\ visited' = visited \union new /\ skipped' = skipped
      /\ arrived' = arrived \union Arriving(from, forward)
  BY <1>1, <1>2 DEF Moved, Grown
<1>4. \A p : /\ ForwardFrom(p)' = ForwardFrom(p)
             /\ (\A n : Leads(p, n, decision)' <=> Leads(p, n, decision'))
  BY SameDuties, SameChoices
<1>5. Joins' = Joins /\ Nodes' = Nodes /\ Of("condition")' = Of("condition")
  BY SameGraph
<1> SUFFICES ASSUME NEW p \in visited'
             PROVE  (AtWork(p) \/ result[p] \in {"failed", "capped"} \/ Signals(p) \/ Tells(p))'
  BY DEF ToldInv
<1>6. visited \subseteq Nodes /\ t[1] \in Nodes
  BY ActivationFields DEF EngineInv, SetInv
<1>7. CASE p \in new
  <2>1. <<p, turn[p] + 1>> \in Started(new)
    BY <1>7 DEF Started
  <2>2. <<p, turn[p] + 1>> \in DOMAIN live' /\ live'[<<p, turn[p] + 1>>].at = "step"
    BY <1>3, <2>1 DEF Grown
  <2> QED BY <2>2 DEF AtWork, Runs, Waiting
<1>8. CASE p = t[1]
  <2>1. \A n \in forward \intersect Joins : <<p, n>> \in arrived'
    BY <1>2, <1>3, <1>8 DEF Arriving
  <2>2. ASSUME result'[p] \in Failed,
               p \notin Of("condition") => ForwardFrom(p) \intersect Joins \subseteq forward
        PROVE  result'[p] \in {"failed", "capped"} \/ Signals(p)'
    <3>1. result'[p] \in {"failed", "retries", "capped"}
      BY <1>5, <1>6, <1>8, <2>2 DEF FinalInv, Failed
    <3>2. result'[p] = "retries" => Signals(p)'
      BY <1>4, <1>5, <2>1, <2>2 DEF Signals
    <3> QED BY <3>1, <3>2
  <2>3. ASSUME p \in Of("condition") => decision'[p] # "none",
               \A n \in ForwardFrom(p) :
                 Leads(p, n, decision') => n \in forward /\ (n \in Joins \/ n \in visited')
        PROVE  Tells(p)'
    <3>1. \A n \in ForwardFrom(p) : Leads(p, n, decision') => Heard(p, n)'
      BY <2>1, <2>3, PassedPrimed
    <3> QED BY <1>4, <1>5, <2>3, <3>1 DEF Tells
  <2> QED BY <1>1, <1>8, <2>2, <2>3 DEF Told
<1>9. CASE p \in visited /\ p # t[1]
  <2>1. result'[p] = result[p] /\ decision'[p] = decision[p]
    BY <1>1, <1>6, <1>9 DEF Chose
  <2>2. \A u \in DOMAIN live : u[1] = p => u \in DOMAIN live' /\ live'[u].at = live[u].at
    BY <1>3, <1>9 DEF Grown
  <2>3. visited \subseteq visited' /\ arrived \subseteq arrived' /\ skipped \subseteq skipped'
    BY <1>3
  <2> QED BY <1>9, <2>1, <2>2, <2>3, ToldOthers DEF ToldInv
<1> QED BY <1>3, <1>7, <1>8, <1>9

LEMMA ToldLoops ==
  ASSUME EngineInv, ToldInv, NEW t \in DOMAIN live, NEW entry \in Nodes, NEW a, Looped(t, entry, a)
  PROVE  ToldInv'
<1>1. /\ graph \in Graphs /\ graph' = graph /\ result' = result /\ ~Runs(t)
      /\ visited' = (visited \ Scope(entry)) \union {entry}
      /\ Grown(t, a, visited \ Scope(entry), {entry})
      /\ arrived' = arrived \ Inside(arrived, Scope(entry))
      /\ \A n \in Nodes : decision'[n] = IF n \in Scope(entry) THEN "none" ELSE decision[n]
  BY DEF EngineInv, Looped, Grown, Runs
<1>2. \A p : /\ ForwardFrom(p)' = ForwardFrom(p)
             /\ (\A n : Leads(p, n, decision)' <=> Leads(p, n, decision'))
  BY <1>1, SameDuties, SameChoices
<1>3. Joins' = Joins /\ Of("condition")' = Of("condition")
  BY <1>1, SameGraph
<1> SUFFICES ASSUME NEW p \in visited'
             PROVE  (AtWork(p) \/ result[p] \in {"failed", "capped"} \/ Signals(p) \/ Tells(p))'
  BY DEF ToldInv
<1>4. CASE p = entry
  <2> DEFINE new == {entry}
  <2>1. <<p, turn[p] + 1>> \in Started(new)
    BY <1>4 DEF Started
  <2>2. Grown(t, a, visited \ Scope(entry), new)
    BY <1>1
  <2> HIDE DEF new
  <2>3. <<p, turn[p] + 1>> \in DOMAIN live' /\ live'[<<p, turn[p] + 1>>].at = "step"
    BY <2>1, <2>2 DEF Grown
  <2> QED BY <2>3 DEF AtWork, Runs, Waiting
<1>5. CASE p # entry
  <2>1. p \in visited /\ p \in Nodes \ Scope(entry) /\ decision'[p] = decision[p]
    BY <1>1, <1>5 DEF EngineInv, SetInv
  <2>2. ASSUME NEW u \in DOMAIN live, u[1] = p, Runs(u) PROVE AtWork(p)'
    <3>1. u \in DOMAIN live' /\ live'[u] = live[u]
      BY <1>1, <2>2 DEF Grown
    <3> QED BY <2>2, <3>1 DEF AtWork, Runs
  <2>3. AtWork(p) => AtWork(p)'
    BY <2>2 DEF AtWork
  <2>4. \A n \in ForwardFrom(p) : Heard(p, n) => Heard(p, n)'
    BY <2>1, PassedLoops
  <2>5. \A n \in ForwardFrom(p) : (Leads(p, n, decision') => Leads(p, n, decision))
    BY <1>1, <2>1, ChoiceIsOwn
  <2>6. Tells(p) => Tells(p)'
    BY <1>2, <1>3, <2>1, <2>4, <2>5 DEF Tells
  <2>7. \A n \in ForwardFrom(p) \intersect Joins : <<p, n>> \in arrived => <<p, n>> \in arrived'
    BY <2>4, <1>1, PassedPrimed DEF Heard
  <2>8. Signals(p) => Signals(p)'
    BY <1>1, <1>2, <1>3, <2>7 DEF Signals
  <2> QED BY <1>1, <2>1, <2>3, <2>6, <2>8 DEF ToldInv
<1> QED BY <1>4, <1>5

LEMMA ToldStep ==
  ASSUME EngineInv, RecordInv, Decisions, Of("foreach") = {}, FinalInv, FinalInv',
         verdict = "none", verdict' = "none", ToldInv, [Next]_vars
  PROVE  ToldInv'
<1>1. /\ graph' = graph /\ graph \in Graphs /\ result \in [Nodes -> Results] /\ visited \subseteq Nodes
      /\ Nodes' = Nodes
  BY SameNodes DEF EngineInv, ValueInv, SetInv
<1>2. ASSUME UNCHANGED <<visited, arrived, skipped, decision>>,
             \A p \in Nodes : result'[p] \in {result[p], "failed", "capped"},
             NEW n, \A u \in DOMAIN live : u[1] # n /\ Runs(u) => u \in DOMAIN live' /\ live'[u].at = live[u].at,
             n \in visited => (AtWork(n) \/ result[n] \in {"failed", "capped"} \/ Signals(n) \/ Tells(n))'
      PROVE  ToldInv'
  <2> SUFFICES ASSUME NEW p \in visited, p # n
               PROVE  (AtWork(p) \/ result[p] \in {"failed", "capped"} \/ Signals(p) \/ Tells(p))'
    BY <1>2 DEF ToldInv
  <2> QED BY <1>1, <1>2, ToldOthers DEF ToldInv
<1>3. ASSUME UNCHANGED <<visited, arrived, skipped, decision>>,
             \A p \in Nodes : result'[p] \in {result[p], "failed", "capped"},
             \A u \in DOMAIN live : Runs(u) => u \in DOMAIN live' /\ live'[u].at = live[u].at
      PROVE  ToldInv'
  <2> SUFFICES ASSUME NEW p \in visited
               PROVE  (AtWork(p) \/ result[p] \in {"failed", "capped"} \/ Signals(p) \/ Tells(p))'
    BY <1>3 DEF ToldInv
  <2> QED BY <1>1, <1>3, ToldOthers DEF ToldInv
<1>4. ASSUME NEW t \in DOMAIN live, StepEnds(t) PROVE ToldInv'
  <2>1. \A p \in Nodes \ {t[1]} : result'[p] = result[p]
    BY <1>4, ResultsAreOwn
  <2>2. CASE Moves(t)
    BY <1>1, <2>1, <2>2, ToldMoves
  <2>3. ~Iterates(t)
    BY DEF Iterates
  <2>4. CASE Leaves(t) /\ result'[t[1]] = "failed"
    <3>1. /\ visited' = visited /\ arrived' = arrived /\ skipped' = skipped /\ decision' = decision
          /\ live' = Without(t)
      BY <2>4 DEF Leaves, joining
    <3>2. \A u \in DOMAIN live : u[1] # t[1] => u \in DOMAIN live' /\ live'[u].at = live[u].at
      BY <3>1 DEF Without
    <3>3. \A p \in Nodes : result'[p] \in {result[p], "failed", "capped"}
      BY <2>1, <2>4
    <3> QED BY <1>2, <2>4, <3>1, <3>2, <3>3
  <2> QED BY <1>4, <2>2, <2>3, <2>4, StepMoves
<1>5. ASSUME NEW t \in DOMAIN live, LoopBack(t) PROVE ToldInv'
  BY <1>5, LoopBackShape, ToldLoops
<1>6. ASSUME NEW t \in DOMAIN live, LoopRefused(t) PROVE ToldInv'
  <2>1. PICK entry \in live[t].loops :
          /\ live' = [live EXCEPT ![t].loops = @ \ {entry}]
          /\ result' = Assign(result, live[t].from, "capped")
          /\ UNCHANGED <<visited, arrived, skipped, decision>>
    BY <1>6 DEF LoopRefused, joining
  <2>2. \A p \in Nodes : result'[p] \in {result[p], "failed", "capped"}
    BY <1>1, <2>1 DEF Assign
  <2>3. \A u \in DOMAIN live : u \in DOMAIN live' /\ live'[u].at = live[u].at
    <3>1. live[t] \in Activations /\ live \in [DOMAIN live -> Activations]
      BY DEF EngineInv, LiveInv
    <3> QED BY <2>1, <3>1 DEF Activations
  <2> QED BY <1>3, <2>1, <2>2, <2>3
<1>7. ASSUME NEW t \in DOMAIN live, SkipBranch(t) PROVE ToldInv'
  <2>1. PICK hits \in SUBSET (Nodes \X Nodes), through \in SUBSET Nodes,
            new \in SUBSET Nodes, a \in Activations : Spared(t, hits, through, new, a)
    BY <1>7, SkipBranchShape
  <2>2. /\ Grown(t, a, visited, new) /\ visited' = visited \union new
        /\ arrived' = arrived \union hits /\ skipped' = skipped \union through
        /\ result' = result /\ decision' = decision /\ a.at = live[t].at
    BY <2>1 DEF Spared, Grown
  <2> SUFFICES ASSUME NEW p \in visited'
               PROVE  (AtWork(p) \/ result[p] \in {"failed", "capped"} \/ Signals(p) \/ Tells(p))'
    BY DEF ToldInv
  <2>3. CASE p \in new
    <3>1. <<p, turn[p] + 1>> \in Started(new)
      BY <2>3 DEF Started
    <3>2. <<p, turn[p] + 1>> \in DOMAIN live' /\ live'[<<p, turn[p] + 1>>].at = "step"
      BY <2>2, <3>1 DEF Grown
    <3> QED BY <3>2 DEF AtWork, Runs, Waiting
  <2>4. CASE p \in visited
    <3>1. \A u \in DOMAIN live : u \in DOMAIN live' /\ live'[u].at = live[u].at
      BY <2>2 DEF Grown
    <3>2. visited \subseteq visited' /\ arrived \subseteq arrived' /\ skipped \subseteq skipped'
      BY <2>2
    <3> QED BY <1>1, <2>2, <2>4, <3>1, <3>2, ToldOthers DEF ToldInv
  <2> QED BY <2>2, <2>3, <2>4
<1>8. ASSUME NEW t \in DOMAIN live, ActivationReturns(t) PROVE ToldInv'
  <2>1. /\ live' = Without(t) /\ UNCHANGED <<visited, arrived, skipped, decision>> /\ ~Runs(t)
        /\ result' = IF live[t].at = "iterated" THEN Assign(result, t[1], "ok") ELSE result
    BY <1>8 DEF ActivationReturns, Return, joining, Quiet, Runs, Waiting
  <2>2. live[t].at # "iterated"
    BY DEF EngineInv, LiveInv
  <2>3. \A u \in DOMAIN live : Runs(u) => u \in DOMAIN live' /\ live'[u].at = live[u].at
    BY <2>1 DEF Without
  <2> QED BY <1>3, <2>1, <2>2, <2>3
<1>9. ASSUME UNCHANGED <<traversal, joining, result, decision>> PROVE ToldInv'
  <2>1. UNCHANGED <<visited, arrived, skipped, decision, live, result>>
    BY <1>9 DEF traversal, joining
  <2> QED BY <1>3, <2>1
<1>10. ASSUME NEW n \in Nodes, ClaimLapses(n) PROVE ToldInv'
  BY <1>9, <1>10 DEF ClaimLapses
<1>11. ASSUME NEW p \in late, LateCommit(p) PROVE ToldInv'
  BY <1>9, <1>11 DEF LateCommit
<1>12. ~Finalize
  BY DEF Finalize
<1>13. ASSUME UNCHANGED vars PROVE ToldInv'
  BY <1>9, <1>13 DEF vars, traversal, joining
<1> QED BY <1>4, <1>5, <1>6, <1>7, <1>8, <1>10, <1>11, <1>12, <1>13 DEF Next, GoesOn

(* Nothing happens once the verdict is known. *)
LEMMA VerdictIsLast ==
  ASSUME FinalInv, verdict # "none", [Next]_vars
  PROVE  UNCHANGED vars
<1>1. DOMAIN live = {}
  BY DEF FinalInv
<1> QED BY <1>1 DEF Next, ClaimLapses, LateCommit, Finalize

LEMMA SpreadStep ==
  ASSUME EngineInv, RecordInv, PassInv, FinalInv, FinalInv', SpreadInv, [Next]_vars
  PROVE  SpreadInv'
<1>1. graph' = graph /\ Decisions /\ (Of("foreach")' = Of("foreach"))
  BY SameNodes, SameGraph DEF PassInv
<1> SUFFICES ASSUME Of("foreach") = {} PROVE PlainSpread' /\ (~overlapped' => TimelySpread')
  BY <1>1 DEF SpreadInv
<1>2. PlainSpread'
  BY <1>1, PlainSpreads DEF SpreadInv
<1>3. ASSUME ~overlapped' PROVE TimelySpread'
  <2>1. ~overlapped /\ OnePass /\ TimelySpread
    BY <1>1, <1>3, OverlapStays DEF PassInv, SpreadInv
  <2>2. AgainstInv'
    BY <1>1, <2>1, AgainstStep DEF TimelySpread
  <2>3. ASSUME verdict' = "none" PROVE ToldInv'
    <3>1. verdict = "none"
      BY <2>3, VerdictIsLast DEF vars
    <3> QED BY <1>1, <2>1, <2>3, <3>1, ToldStep DEF TimelySpread
  <2> QED BY <2>2, <2>3 DEF TimelySpread
<1> QED BY <1>2, <1>3

LEMMA SpreadInitially == Init => SpreadInv
<1> SUFFICES ASSUME Init PROVE PlainSpread /\ TimelySpread
  BY DEF SpreadInv
<1>1. /\ visited = {Trigger} /\ attempted = {Trigger} /\ skipped = {}
      /\ \A n \in Nodes : decision[n] = "none"
      /\ live = [t \in {<<Trigger, 1>>} |-> Fresh(None)]
  BY DEF Init
<1>2. PlainSpread
  BY <1>1 DEF PlainSpread, SkippedOn, AttemptInv
<1>3. AgainstInv
  BY <1>1 DEF AgainstInv, Against
<1>4. AtWork(Trigger)
  <2>1. <<Trigger, 1>> \in DOMAIN live /\ live[<<Trigger, 1>>].at = "step"
    BY <1>1 DEF Fresh
  <2> QED BY <2>1 DEF AtWork, Runs, Waiting
<1> QED BY <1>1, <1>2, <1>3, <1>4 DEF TimelySpread, ToldInv

-----------------------------------------------------------------------------
(* What a run that ended well has come to.                                   *)

(* Where a loop has one entry, going back to it leads to nothing new. *)
LEMMA BackAddsNothing ==
  ASSUME graph \in Graphs, OneEntry(graph), NEW F \in SUBSET graph.forward,
         NEW start, start = {Trigger}, NEW none, none = {},
         NEW q \in graph.back, q[1] \in Reachable(F, start, none)
  PROVE  q[2] \in Reachable(F, start, none)
<1> DEFINE R == Reachable(F, start, none)
           roots == {n \in DOMAIN graph.kind : graph.kind[n] = "trigger"}
           without == {q[2]}
           W == Reachable(Pairs, roots, without)
<1> SUFFICES ASSUME q[2] \notin R PROVE FALSE
  OBVIOUS
<1>1. IsFiniteSet(F) /\ IsFiniteSet(Pairs) /\ F \subseteq Pairs
  BY SweptClosed, GraphFacts, FS_Subset
<1>2. q[1] \notin W
  <2>1. Reachable({<<e[1], e[3]>> : e \in graph.edges}, roots, {q[2]}) = W
    BY DEF Pairs
  <2> HIDE DEF W, roots
  <2> QED BY <2>1 DEF OneEntry, roots
<1>3. Trigger \in R
  <2>1. start \ none \subseteq R
    BY <1>1, ReachableType
  <2> QED BY <2>1
<1>4. Trigger \in W
  <2>1. Trigger \in roots \ without
    BY <1>3, EngineAssumption DEF Trigger, Drawn, Nodes
  <2> HIDE DEF roots, without
  <2> QED BY <1>1, <2>1, ReachableType
<1>5. \A x \in Pairs : x[1] \in W /\ x[2] # q[2] => x[2] \in W
  <2> HIDE DEF roots
  <2> SUFFICES ASSUME NEW x \in Pairs, x[1] \in W, x[2] # q[2] PROVE x[2] \in W
    OBVIOUS
  <2>1. x[2] \notin without
    OBVIOUS
  <2> HIDE DEF without
  <2> QED BY <1>1, <2>1, ReachableClosed
<1> DEFINE S == R \intersect W
<1>6. start \ none \subseteq S
  BY <1>3, <1>4
<1>7. \A x \in F : x[1] \in S /\ x[2] \notin none => x[2] \in S
  <2> SUFFICES ASSUME NEW x \in F, x[1] \in S, x[2] \notin none PROVE x[2] \in S
    OBVIOUS
  <2>1. x[2] \in R
    <3> HIDE DEF W
    <3> QED BY <1>1, ReachableClosed
  <2> HIDE DEF W, R
  <2> QED BY <1>1, <1>5, <2>1
<1>8. R \subseteq S
  <2> HIDE DEF S
  <2> QED BY <1>1, <1>6, <1>7, ReachableLeast
<1> QED BY <1>2, <1>8

(* What an edge that names neither branch leads to, when it is not followed. *)
NotFollowed ==
  {e \in graph.edges : e[1] \in Of("condition") /\ decision[e[1]] # "none" /\
                       e[2] \notin {"true", "false"} /\ ~Decided(e, decision)}

LEMMA UnheardClosed ==
  ASSUME graph \in Graphs
  PROVE  /\ \A p, n : <<p, n>> \in graph.forward /\ p \in Unheard => n \in Unheard
         /\ \A e \in NotFollowed : e[3] \in Unheard
         /\ Nodes \ Scope(Trigger) \subseteq Unheard
<1> DEFINE none == {}
           starts == {e[3] : e \in NotFollowed} \union (Nodes \ Scope(Trigger))
<1>1. Unheard = Reachable(graph.forward, starts, none) /\ IsFiniteSet(graph.forward)
  BY GraphFacts DEF Unheard, NotFollowed
<1>2. ASSUME NEW p, NEW n, <<p, n>> \in graph.forward, p \in Unheard PROVE n \in Unheard
  <2> DEFINE q == <<p, n>>
  <2>1. q \in graph.forward /\ q[1] \in Reachable(graph.forward, starts, none) /\ q[2] \notin none
    BY <1>1, <1>2
  <2> HIDE DEF starts, none, q
  <2>2. q[2] \in Reachable(graph.forward, starts, none)
    BY <1>1, <2>1, ReachableClosed
  <2> QED BY <1>1, <2>2 DEF q
<1>3. starts \subseteq Unheard
  <2>1. starts \ none = starts
    OBVIOUS
  <2> HIDE DEF starts, none
  <2> QED BY <1>1, <2>1, ReachableType
<1> QED BY <1>2, <1>3

AllTold == \A p \in visited \ skipped : Tells(p)
AllPassed == \A p \in Nodes : \A n \in ForwardFrom(p) : Against(p, n, decision) => Passed(p, n)

(* Nothing that the trigger leads to is missed, unless it is unheard. *)
LEMMA NothingMissed ==
  ASSUME EngineInv, Decisions, PlainSpread, AllTold, AllPassed, JoinedInv,
         NEW m \in Scope(Trigger) \ Unheard
  PROVE  m \in visited \union skipped
<1> DEFINE S == (Scope(Trigger) \ Unheard) \ (visited \union skipped)
<1> SUFFICES ASSUME m \in S PROVE FALSE
  OBVIOUS
<1>1. graph \in Graphs /\ Trigger \in Nodes /\ Trigger \in visited /\ SkippedOn
  BY GraphFacts DEF EngineInv, PlainSpread
<1>2. S \in SUBSET Nodes
  BY <1>1, ScopeTypes
<1>3. PICK n \in S : Preds(n) \intersect S = {}
  <2> HIDE DEF S
  <2> QED BY <1>1, <1>2, HasFirst
<1>4. n \in Nodes /\ n # Trigger
  BY <1>1, <1>2, <1>3
<1>5. ASSUME NEW p \in Preds(n) PROVE Passed(p, n)
  <2>1. p \in Nodes /\ <<p, n>> \in graph.forward /\ n \in ForwardFrom(p)
    BY <1>1, Neighbours
  <2>2. p \in Scope(Trigger) \ Unheard
    BY <1>1, <1>3, <2>1, UnheardClosed
  <2>3. p \in visited \union skipped
    BY <1>3, <2>2
  <2>4. CASE p \in skipped
    BY <1>1, <2>1, <2>4 DEF SkippedOn
  <2>5. CASE p \in visited \ skipped
    <3>1. Tells(p)
      BY <2>5 DEF AllTold
    <3>2. CASE Leads(p, n, decision)
      <4>1. Heard(p, n)
        BY <2>1, <3>1, <3>2 DEF Tells
      <4> QED BY <4>1 DEF Heard, Passed
    <3>3. CASE ~Leads(p, n, decision)
      <4>1. p \in Of("condition")
        BY <1>1, <2>1, <3>3, NoChoice, Neighbours
      <4>2. decision[p] \in {"true", "false"}
        BY <2>1, <3>1, <4>1 DEF Tells, Decisions
      <4>3. <<p, n>> \in {<<e[1], e[3]>> : e \in graph.edges}
        BY <1>1, <2>1, GraphFacts
      <4>4. PICK e \in graph.edges : <<p, n>> = <<e[1], e[3]>>
        BY <4>3
      <4>5. e[1] = p /\ e[3] = n /\ ~Decided(e, decision)
        BY <3>3, <4>4 DEF Leads
      <4>6. e[2] \in {"true", "false"}
        <5>1. e[2] \notin {"true", "false"} => e \in NotFollowed
          BY <4>1, <4>2, <4>5 DEF NotFollowed
        <5> QED BY <1>1, <1>3, <4>5, <5>1, UnheardClosed
      <4>7. HasHandles(p)
        BY <4>5, <4>6 DEF HasHandles
      <4>8. e[2] = Opposite(decision[p])
        BY <4>2, <4>5, <4>6, <4>7 DEF Decided, Opposite
      <4>9. Against(p, n, decision)
        BY <4>2, <4>5, <4>8 DEF Against, Targets
      <4> QED BY <2>1, <4>9 DEF AllPassed
    <3> QED BY <3>2, <3>3
  <2> QED BY <2>3, <2>4, <2>5
<1>6. CASE n \in Joins
  <2>1. \A p \in Preds(n) : <<p, n>> \in arrived
    BY <1>5, <1>6 DEF Passed
  <2>2. ASSUME NEW p \in Preds(n) PROVE p \in {q[1] : q \in {x \in arrived : x[2] = n}}
    <3> DEFINE q == <<p, n>>
    <3>1. q \in arrived /\ q[1] = p /\ q[2] = n
      BY <2>1
    <3> HIDE DEF q
    <3> QED BY <3>1
  <2>3. Complete(arrived, n)
    BY <2>2 DEF Complete
  <2> QED BY <1>3, <1>6, <2>3 DEF JoinedInv
<1>7. CASE n \notin Joins
  <2>1. PICK p \in Preds(n) : TRUE
    BY <1>1, <1>3, <1>4, ScopeHasWay
  <2>2. Passed(p, n)
    BY <1>5, <2>1
  <2> QED BY <1>3, <1>7, <2>2 DEF Passed
<1> QED BY <1>6, <1>7

(* What is due has been entered, and what was entered was due. *)
LEMMA DueWasRun ==
  ASSUME EngineInv, Decisions, OneEntry(graph), Of("foreach") = {}, PlainSpread, AllTold, AllPassed,
         JoinedInv, DeadInv, AliveInv, Unheard \intersect Joins = {},
         skipped \intersect visited \subseteq BothWays
  PROVE  visited \ BothWays = Due \ BothWays
<1> DEFINE D == {<<e[1], e[3]>> : e \in {x \in graph.edges : Decided(x, decision)}}
           F == D \intersect graph.forward
           none == {}
           start == {Trigger}
           R == Reachable(F, start, none)
           V == visited \union BothWays
<1>1. /\ graph \in Graphs /\ Trigger \in Nodes /\ Trigger \in visited /\ visited \subseteq Nodes
      /\ Swept = {} /\ Bodies = {}
  BY GraphFacts, NoIterations DEF EngineInv, PlainSpread, SetInv
<1>2. D \subseteq Pairs /\ IsFiniteSet(D) /\ IsFiniteSet(F)
  <2>1. D \subseteq Pairs
    BY DEF Pairs
  <2> HIDE DEF D
  <2> QED BY <1>1, <2>1, SweptClosed, FS_Subset
<1>3. \A p, n : <<p, n>> \in D <=> Leads(p, n, decision)
  BY DEF Leads
<1>4. Due = Reachable(D, start, none)
  <2>1. D = {<<e[1], e[3]>> : e \in {x \in graph.edges :
                                       Decided(x, decision) \/ (x[1] \in Bodies /\ decision[x[1]] = "none")}}
    BY <1>1
  <2> QED BY <2>1 DEF Due
<1>5. Trigger \in Due
  <2>1. Trigger \in start \ none
    OBVIOUS
  <2> HIDE DEF start, none, D
  <2> QED BY <1>2, <1>4, <2>1, ReachableType
<1>6. visited \subseteq Due
  <2> DEFINE S == visited \ Due
  <2> SUFFICES ASSUME S # {} PROVE FALSE
    OBVIOUS
  <2>1. PICK n \in S : Preds(n) \intersect S = {}
    <3>1. S \in SUBSET Nodes
      BY <1>1
    <3> HIDE DEF S
    <3> QED BY <1>1, <3>1, HasFirst
  <2>2. PICK p \in Preds(n) : p \in visited /\ Leads(p, n, decision)
    BY <1>1, <1>5, <2>1 DEF AliveInv
  <2>3. p \in Due
    BY <2>1, <2>2
  <2> DEFINE q == <<p, n>>
  <2>4. q \in D /\ q[1] \in Reachable(D, start, none) /\ q[2] \notin none
    BY <1>3, <1>4, <2>2, <2>3
  <2> HIDE DEF D, start, none, q
  <2>5. q[2] \in Reachable(D, start, none)
    BY <1>2, <2>4, ReachableClosed
  <2> QED BY <1>4, <2>1, <2>5 DEF q
<1>7. Due \subseteq R
  <2>1. start \ none \subseteq R
    <3> HIDE DEF start, none, F
    <3> QED BY <1>2, ReachableType
  <2>2. ASSUME NEW q \in D, q[1] \in R, q[2] \notin none PROVE q[2] \in R
    <3>1. CASE q \in graph.forward
      <4>1. q \in F
        BY <2>2, <3>1
      <4> HIDE DEF start, none, F
      <4> QED BY <1>2, <2>2, <4>1, ReachableClosed
    <3>2. CASE q \in graph.back
      <4>1. F \in SUBSET graph.forward /\ start = {Trigger} /\ none = {}
        OBVIOUS
      <4> HIDE DEF start, none, F
      <4> QED BY <1>1, <2>2, <3>2, <4>1, BackAddsNothing
    <3>3. q \in Pairs
      BY <1>2, <2>2
    <3> QED BY <1>1, <3>1, <3>2, <3>3, GraphFacts DEF Pairs
  <2> HIDE DEF start, none, D, R
  <2> QED BY <1>2, <1>4, <2>1, <2>2, ReachableLeast
<1>8. ASSUME NEW p \in V, NEW n, <<p, n>> \in graph.forward, Leads(p, n, decision) PROVE n \in V
  <2>1. n \in Nodes /\ p \in Preds(n) /\ n \in ForwardFrom(p)
    BY <1>1, <1>8, GraphFacts, Neighbours
  <2>2. CASE p \in BothWays
    <3>1. \A q \in graph.forward : q[1] \in BothWays => q[2] \in BothWays
      BY <1>1, BothWaysClosed
    <3> DEFINE q == <<p, n>>
    <3>2. q \in graph.forward /\ q[1] = p /\ q[2] = n
      BY <1>8
    <3> HIDE DEF q
    <3> QED BY <2>2, <3>1, <3>2
  <2>3. CASE p \notin BothWays
    <3>1. p \in visited \ skipped
      BY <1>8, <2>3
    <3>2. Heard(p, n)
      BY <1>8, <2>1, <3>1 DEF AllTold, Tells
    <3>3. CASE n \notin Joins
      BY <3>2, <3>3 DEF Heard
    <3>4. CASE n \in Joins
      <4>1. n \notin Unheard
        BY <3>4
      <4>2. n \in Scope(Trigger)
        BY <1>1, <2>1, <4>1, UnheardClosed
      <4>3. n \in visited \union skipped
        BY <4>1, <4>2, NothingMissed
      <4>4. n \in skipped => Against(p, n, decision)
        BY <2>1, <3>1 DEF DeadInv, Dead
      <4>5. Against(p, n, decision) => n \in BothWays
        BY <1>8, <2>1, BothHandles
      <4> QED BY <4>3, <4>4, <4>5
    <3> QED BY <3>3, <3>4
  <2> QED BY <2>2, <2>3
<1>9. R \subseteq V
  <2>1. start \ none \subseteq V
    BY <1>1
  <2>2. ASSUME NEW q \in F, q[1] \in V PROVE q[2] \in V
    <3>1. q = <<q[1], q[2]>>
      BY <1>1, GraphFacts
    <3>2. Leads(q[1], q[2], decision) /\ <<q[1], q[2]>> \in graph.forward
      BY <1>3, <3>1
    <3> HIDE DEF V, F
    <3> QED BY <1>8, <2>2, <3>2
  <2> HIDE DEF start, none, F, V
  <2> QED BY <1>2, <2>1, <2>2, ReachableLeast
<1> HIDE DEF R
<1> QED BY <1>6, <1>7, <1>9

(* Where the verdict is green, every node that was entered has told what it *)
(* leads to: a completion found too late had told the joins before it, and  *)
(* what it had not told would have been accused.                            *)
LEMMA EndSettled ==
  ASSUME EngineInv, PassInv, FinalInv, SpreadInv, Finalize, Of("foreach") = {}, ~overlapped,
         verdict' = "success",
         \A n \in Nodes : result'[n] = "reconciled" => reentries[n] = 0 /\ n \notin Of("condition")
  PROVE  AllTold /\ AllPassed
<1>1. /\ graph \in Graphs /\ DOMAIN live = {} /\ verdict = "none"
      /\ OnePass /\ Decisions /\ DeadInv /\ PlainSpread /\ AgainstInv /\ ToldInv
      /\ result \in [Nodes -> Results] /\ visited \subseteq Nodes
  BY DEF EngineInv, Finalize, PassInv, OnePass, SpreadInv, TimelySpread, ValueInv, SetInv
<1>2. PICK found \in SUBSET Recoverable :
        LET orphans == Orphans(Reconciled(found))
            results == [m \in Nodes |-> IF m \in orphans THEN "orphan" ELSE Reconciled(found)[m]]
            good == \A m \in Nodes \ skipped : Fine(results[m])
        IN  /\ result' = results
            /\ verdict' = IF good THEN "success" ELSE "error"
  BY DEF Finalize
<1>3. \A m \in Nodes \ skipped : Fine(result'[m])
  BY <1>2
<1>4. \A m \in Nodes : m \notin Orphans(Reconciled(found)) => result'[m] = Reconciled(found)[m]
  BY <1>2
<1>5. AllPassed
  BY <1>1 DEF AgainstInv, AllPassed, Waits
<1>6. ASSUME NEW p \in visited \ skipped PROVE Tells(p)
  <2>1. p \in Nodes /\ p \in attempted
    BY <1>1 DEF PlainSpread, AttemptInv
  <2>2. Fine(Reconciled(found)[p])
    <3>1. p \notin Orphans(Reconciled(found))
      BY <2>1 DEF Orphans
    <3>2. result'[p] = Reconciled(found)[p]
      BY <1>4, <2>1, <3>1
    <3> QED BY <1>3, <2>1, <3>2
  <2>3. Signals(p) \/ Tells(p)
    <3>1. result[p] \notin {"failed", "capped"}
      <4>1. result[p] \in {"failed", "capped"} => Reconciled(found)[p] = result[p]
        BY <2>1 DEF Reconciled, Recoverable
      <4> QED BY <2>2, <4>1 DEF Fine
    <3>2. ~AtWork(p)
      BY <1>1 DEF AtWork
    <3> QED BY <1>1, <3>1, <3>2 DEF ToldInv
  <2>4. ASSUME Signals(p) PROVE Tells(p)
    <3>1. result[p] = "retries"
      BY <2>4 DEF Signals
    <3>2. p \in found
      <4>1. p \notin found => Reconciled(found)[p] = "retries"
        BY <2>1, <3>1 DEF Reconciled
      <4> QED BY <2>2, <4>1 DEF Fine
    <3>3. result'[p] = "reconciled"
      <4>1. p \notin Orphans(Reconciled(found)) /\ Reconciled(found)[p] = "reconciled"
        BY <2>1, <3>2 DEF Reconciled, Orphans
      <4> QED BY <1>4, <2>1, <4>1
    <3>4. reentries[p] = 0 /\ p \notin Of("condition")
      BY <2>1, <3>3
    <3>5. ASSUME NEW n \in ForwardFrom(p), n \notin Joins PROVE n \in visited
      <4> SUFFICES ASSUME n \notin visited PROVE FALSE
        OBVIOUS
      <4>1. n \in Nodes /\ p \in Preds(n)
        BY <1>1, <3>5, Neighbours
      <4>2. \A q \in Preds(n) : q = p
        BY <1>1, <3>5, <4>1, OneWayIn
      <4>3. n \notin attempted
        BY <1>1, <3>4, <3>5, <4>1 DEF PlainSpread, AttemptInv
      <4>4. n \notin skipped
        BY <1>1, <1>6, <2>1, <3>4, <4>1 DEF DeadInv, Dead, Against, Decisions
      <4>5. n \in Orphans(Reconciled(found))
        <5>1. n \notin attempted \union skipped \union Bodies
          BY <1>1, <4>3, <4>4, NoIterations
        <5> QED BY <1>6, <2>1, <2>2, <3>4, <4>1, <4>2, <5>1 DEF Orphans
      <4>6. result'[n] = "orphan"
        BY <1>2, <4>1, <4>5
      <4> QED BY <1>3, <4>1, <4>4, <4>6 DEF Fine
    <3>6. \A n \in ForwardFrom(p) : Heard(p, n)
      BY <1>1, <2>4, <3>4, <3>5, Neighbours DEF Signals, Heard
    <3> QED BY <3>4, <3>6 DEF Tells
  <2> QED BY <2>3, <2>4
<1> QED BY <1>5, <1>6 DEF AllTold

LEMMA SameAside ==
  ASSUME UNCHANGED <<graph, decision>>
  PROVE  Due' = Due /\ PassedOver' = PassedOver
<1>1. Bodies' = Bodies /\ Trigger' = Trigger /\ \A k : Of(k)' = Of(k)
  BY SameGraph DEF Trigger, Nodes
<1>2. ASSUME NEW f PROVE Aggregate(f)' = Aggregate(f)
  <2>1. /\ Targets(f, {"loop"})' = Targets(f, {"loop"}) /\ Targets(f, {"done"})' = Targets(f, {"done"})
        /\ AllTargets(f)' = AllTargets(f) /\ (HasHandles(f)' <=> HasHandles(f))
        /\ \A n : ForwardFrom(n)' = ForwardFrom(n)
    BY DEF Targets, AllTargets, HasHandles, ForwardFrom
  <2>2. Seeds(f)' = Seeds(f)
    BY <2>1 DEF Seeds
  <2>3. BodyOf(f)' = BodyOf(f)
    BY <1>1, <2>2 DEF BodyOf
  <2>4. InnerCollect(f)' = InnerCollect(f)
    BY <1>1, <2>1, <2>2, <2>3 DEF InnerCollect
  <2> QED BY <1>1, <2>1, <2>4 DEF Aggregate
<1>3. Due' = Due
  BY <1>1 DEF Due, Decided, HasHandles
<1> QED BY <1>1, <1>2, <1>3 DEF PassedOver, Targets

LEMMA WholeAtVerdict ==
  ASSUME \A g \in Graphs : OneEntry(g),
         EngineInv, PassInv, FinalInv, SpreadInv, JoinedInv, AliveIfTimely,
         ~revived => (Of("foreach") = {} => SkippedDidNotRun),
         Finalize, Of("foreach") = {}
  PROVE  GreenRunsWhole'
<1>1. /\ UNCHANGED <<graph, visited, skipped, overlapped, revived, reentries, decision>>
      /\ graph \in Graphs
  BY DEF EngineInv, Finalize, traversal, joining, looping
<1>2. /\ Nodes' = Nodes /\ Joins' = Joins /\ Bodies' = Bodies
      /\ Of("foreach")' = Of("foreach") /\ Of("condition")' = Of("condition")
  BY <1>1, SameGraph
<1>3. BothWays' = BothWays
  BY <1>1, SameGraph DEF BothWays, Preds, Targets
<1>4. Due' = Due /\ PassedOver' = PassedOver
  BY <1>1, <1>2, SameAside
<1>5. Unheard' = Unheard
  BY <1>1, <1>2 DEF Unheard, Decided, HasHandles, Scope, Trigger, Nodes
<1> SUFFICES ASSUME verdict' = "success", ~overlapped, ~revived,
                    \A n \in Nodes : result'[n] = "reconciled" =>
                      reentries[n] = 0 /\ n \notin Of("condition") \union Bodies,
                    Unheard \intersect Joins = {}
             PROVE  LET aside == Bodies \union BothWays \union PassedOver
                    IN  visited \ aside = Due \ aside
  BY <1>1, <1>2, <1>3, <1>4, <1>5 DEF GreenRunsWhole
<1>6. AllTold /\ AllPassed
  BY EndSettled
<1>7. Decisions /\ DeadInv /\ AliveInv /\ PlainSpread
  BY DEF PassInv, OnePass, AliveIfTimely, SpreadInv
<1>8. skipped \intersect visited \subseteq BothWays
  BY DEF SkippedDidNotRun
<1>9. Bodies = {} /\ PassedOver = {} /\ OneEntry(graph)
  BY <1>1, NoIterations
<1> QED BY <1>6, <1>7, <1>8, <1>9, DueWasRun

(* Without a For Each, and where every loop has one entry, a green run ran the *)
(* whole of what its conditions decided and nothing else, whatever was lost,   *)
(* found again or skipped, and in whatever order its branches ended.           *)
THEOREM PlainGreenRunsAreWhole ==
  ASSUME \A g \in Graphs : OneEntry(g)
  PROVE  Spec => [](Of("foreach") = {} => GreenRunsWhole)
<1> DEFINE Inv == EngineInv /\ RecordInv /\ PassInv
           Kept == ~revived => /\ \A n \in skipped \intersect visited :
                                    n \in BothWays \union Swept \/ overlapped
                               /\ Of("foreach") = {} => SkippedDidNotRun
           Whole == Of("foreach") = {} => GreenRunsWhole
           Duties == /\ FromInv /\ AliveIfTimely
                     /\ ServedInv /\ JoinedInv /\ FinalInv /\ SpreadInv /\ Whole
<1>1. Spec => []Kept
  BY SkippedNeverRan
<1>2. ASSUME Init PROVE Duties
  <2>1. ServedInv /\ JoinedInv /\ FinalInv
    BY <1>2, ServedInitially
  <2>2. Whole
    BY <1>2 DEF Init, GreenRunsWhole
  <2> QED BY <1>2, <2>1, <2>2, AliveInitially, SpreadInitially DEF AliveIfTimely
<1>3. ASSUME Inv, Kept, Duties, [Next]_vars PROVE Duties'
  <2>1. FromInv' /\ AliveIfTimely'
    BY <1>3, FromStep, AliveStep DEF PassInv
  <2>2. ServedInv' /\ JoinedInv'
    BY <1>3, ServedStep DEF PassInv
  <2>3. FinalInv' /\ (Finalize \/ verdict' = "none" \/ UNCHANGED vars)
    BY <1>3, FinalStep
  <2>4. SpreadInv'
    BY <1>3, <2>3, SpreadStep
  <2>5. graph' = graph /\ Of("foreach")' = Of("foreach")
    BY <1>3, SameNodes, SameGraph
  <2>6. CASE Finalize
    <3>1. Whole'
      BY <1>3, <2>5, <2>6, WholeAtVerdict
    <3> QED BY <2>1, <2>2, <2>3, <2>4, <3>1
  <2>7. CASE verdict' = "none"
    <3>1. Whole'
      BY <2>7 DEF GreenRunsWhole
    <3> QED BY <2>1, <2>2, <2>3, <2>4, <3>1
  <2>8. CASE UNCHANGED vars
    <3>1. UNCHANGED <<graph, visited, result, reentries, decision, outcome, verdict, overlapped, revived>>
      BY <2>8 DEF vars
    <3>2. GreenRunsWhole' <=> GreenRunsWhole
      <4>1. /\ Nodes' = Nodes /\ Joins' = Joins /\ Bodies' = Bodies
            /\ Of("condition")' = Of("condition")
        BY <3>1, SameGraph
      <4>2. BothWays' = BothWays
        BY <3>1, SameGraph DEF BothWays, Preds, Targets
      <4>3. Due' = Due /\ PassedOver' = PassedOver
        BY <3>1, <4>1, SameAside
      <4>4. Unheard' = Unheard
        BY <3>1, <4>1 DEF Unheard, Decided, HasHandles, Scope, Trigger, Nodes
      <4> QED BY <2>5, <3>1, <4>1, <4>2, <4>3, <4>4 DEF GreenRunsWhole
    <3>3. Whole'
      BY <1>3, <2>5, <3>2
    <3> QED BY <2>1, <2>2, <2>3, <2>4, <3>3
  <2> QED BY <2>3, <2>6, <2>7, <2>8
<1>4. Inv /\ Duties => Whole
  OBVIOUS
<1> QED BY PassInvariant, <1>1, <1>2, <1>3, <1>4, PTL DEF Spec

=============================================================================
