------------------------------ MODULE SumProofs -------------------------------
(***************************************************************************)
(* What MapThenSumSet computes, for every finite set and every weight: the  *)
(* cap of DirectExecution and the loop budget of WorkflowEngine are such    *)
(* sums.  A property of every finite set is shown of a smallest set that    *)
(* would not have it.                                                       *)
(***************************************************************************)
EXTENDS FiniteSetsExt, FiniteSetTheorems, TLAPS

Total(w, S) == MapThenSumSet(LAMBDA x : w[x], S)

Any(s) == CHOOSE x \in s : TRUE

(* g sums the weights of every subset of S. *)
Sums(w, g, S) ==
  \A s \in SUBSET S :
    g[s] = IF s = {} THEN 0 ELSE w[Any(s)] + g[s \ {Any(s)}]

LEMMA Smallest ==
  ASSUME NEW X, NEW Bad, Bad \subseteq FiniteSubsetsOf(X), Bad # {}
  PROVE  \E S \in Bad : \A T \in Bad : T \subseteq S => T = S
<1>1. \E S \in Bad : \A T \in Bad : ~(<<T, S>> \in StrictSubsetOrdering(X))
  BY FS_StrictSubsetOrderingWellFounded, WFMin
<1> QED BY <1>1 DEF StrictSubsetOrdering, FiniteSubsetsOf

LEMMA Smaller ==
  ASSUME NEW X, NEW S \in FiniteSubsetsOf(X)
  PROVE  /\ S \subseteq X /\ IsFiniteSet(S)
         /\ \A T : T \subseteq S => T \in FiniteSubsetsOf(X)
         /\ S # {} => Any(S) \in S
<1>1. S # {} => Any(S) \in S
  BY DEF Any
<1>2. ASSUME NEW T, T \subseteq S PROVE T \in FiniteSubsetsOf(X)
  BY <1>2, FS_Subset DEF FiniteSubsetsOf
<1> QED BY <1>1, <1>2 DEF FiniteSubsetsOf

(* Two such functions agree wherever both are defined. *)
LEMMA SumsAgree ==
  ASSUME NEW X, NEW w, NEW g, NEW h, NEW S, NEW T, NEW U \in FiniteSubsetsOf(X),
         Sums(w, g, S), Sums(w, h, T), U \subseteq S, U \subseteq T
  PROVE  g[U] = h[U]
<1> DEFINE Bad == {s \in FiniteSubsetsOf(X) : s \subseteq S /\ s \subseteq T /\ g[s] # h[s]}
<1> SUFFICES ASSUME Bad # {} PROVE FALSE
  OBVIOUS
<1>1. PICK s \in Bad : \A t \in Bad : t \subseteq s => t = s
  <2>1. Bad \subseteq FiniteSubsetsOf(X)
    OBVIOUS
  <2> HIDE DEF Bad
  <2> QED BY <2>1, Smallest
<1>2. s # {}
  BY DEF Sums
<1>3. Any(s) \in s /\ s \ {Any(s)} \in FiniteSubsetsOf(X)
  BY <1>1, <1>2, Smaller
<1>4. g[s \ {Any(s)}] = h[s \ {Any(s)}]
  BY <1>1, <1>3
<1> QED BY <1>2, <1>4 DEF Sums

LEMMA SumsExist ==
  ASSUME NEW X, NEW w \in [X -> Nat], NEW S \in FiniteSubsetsOf(X)
  PROVE  \E g \in [SUBSET S -> Nat] : Sums(w, g, S)
<1> DEFINE Bad == {s \in FiniteSubsetsOf(X) : ~\E g \in [SUBSET s -> Nat] : Sums(w, g, s)}
           G(s) == CHOOSE g \in [SUBSET s -> Nat] : Sums(w, g, s)
<1> SUFFICES ASSUME Bad # {} PROVE FALSE
  OBVIOUS
<1>1. PICK T \in Bad : \A t \in Bad : t \subseteq T => t = T
  <2>1. Bad \subseteq FiniteSubsetsOf(X)
    OBVIOUS
  <2> HIDE DEF Bad
  <2> QED BY <2>1, Smallest
<1>2. ASSUME NEW s, s \subseteq T, s # T
      PROVE  /\ s \in FiniteSubsetsOf(X) /\ G(s) \in [SUBSET s -> Nat] /\ Sums(w, G(s), s)
  <2>1. s \in FiniteSubsetsOf(X)
    BY <1>1, <1>2, Smaller
  <2>2. \E g \in [SUBSET s -> Nat] : Sums(w, g, s)
    BY <1>1, <1>2, <2>1
  <2> QED BY <2>1, <2>2
<1> DEFINE part(s) == s \ {Any(s)}
           v(s) == IF s = {} THEN 0 ELSE w[Any(s)] + G(part(s))[part(s)]
           h == [s \in SUBSET T |-> v(s)]
<1> HIDE DEF G
<1>3. ASSUME NEW s, s \subseteq T, s # {}
      PROVE  /\ Any(s) \in s /\ Any(s) \in X /\ part(s) \subseteq T /\ part(s) # T
             /\ G(part(s))[part(s)] \in Nat /\ w[Any(s)] \in Nat
  <2>1. Any(s) \in s /\ T \subseteq X
    BY <1>1, <1>3, Smaller DEF Any
  <2>2. part(s) \subseteq T /\ part(s) # T
    BY <1>3, <2>1
  <2>3. G(part(s)) \in [SUBSET part(s) -> Nat]
    BY <1>2, <2>2
  <2>4. part(s) \in SUBSET part(s)
    OBVIOUS
  <2>5. G(part(s))[part(s)] \in Nat
    BY <2>3, <2>4
  <2> QED BY <1>3, <2>1, <2>2, <2>5
<1>4. h \in [SUBSET T -> Nat]
  <2>1. \A s \in SUBSET T : v(s) \in Nat
    BY <1>3
  <2> QED BY <2>1
<1>5. ASSUME NEW s, s \subseteq T, s # T PROVE h[s] = G(s)[s]
  <2>1. CASE s = {}
    BY <1>2, <1>5, <2>1 DEF Sums
  <2>2. CASE s # {}
    <3>1. Sums(w, G(s), s) /\ Sums(w, G(part(s)), part(s)) /\ part(s) \in FiniteSubsetsOf(X)
      BY <1>2, <1>3, <1>5, <2>2
    <3>2. G(s)[part(s)] = G(part(s))[part(s)]
      BY <3>1, SumsAgree
    <3>3. G(s)[s] = w[Any(s)] + G(s)[part(s)]
      BY <2>2, <3>1 DEF Sums
    <3> QED BY <1>5, <2>2, <3>2, <3>3
  <2> QED BY <2>1, <2>2
<1>6. Sums(w, h, T)
  <2>1. ASSUME NEW s \in SUBSET T, s # {} PROVE h[s] = w[Any(s)] + h[part(s)]
    BY <1>3, <1>5, <2>1
  <2> QED BY <2>1 DEF Sums
<1> QED BY <1>1, <1>4, <1>6

LEMMA TotalIsSummed ==
  ASSUME NEW X, NEW w \in [X -> Nat], NEW S \in FiniteSubsetsOf(X)
  PROVE  \E g \in [SUBSET S -> Nat] : Sums(w, g, S) /\ Total(w, S) = g[S]
<1> DEFINE Rec(g) == g = [s \in SUBSET S |->
                            IF s = {} THEN 0 ELSE w[Any(s)] + g[s \ {Any(s)}]]
           it == CHOOSE g : Rec(g)
<1>1. Total(w, S) = it[S]
  BY DEF Total, MapThenSumSet, MapThenFoldSet, Any
<1>2. PICK g \in [SUBSET S -> Nat] : Sums(w, g, S)
  BY SumsExist
<1>3. Rec(g)
  BY <1>2 DEF Sums
<1>4. Rec(it)
  BY <1>3
<1> HIDE DEF it
<1>5. Sums(w, it, S)
  BY <1>4 DEF Sums
<1>6. ASSUME NEW s \in SUBSET S PROVE it[s] = g[s]
  BY <1>2, <1>5, <1>6, SumsAgree, Smaller
<1>7. it \in [SUBSET S -> Nat]
  BY <1>2, <1>4, <1>6
<1> QED BY <1>1, <1>5, <1>7

-----------------------------------------------------------------------------
(* The sum of a finite set of weights: nothing for no elements, and with    *)
(* each element its weight.                                                 *)
LEMMA TotalType ==
  ASSUME NEW X, NEW w \in [X -> Nat], NEW S \in FiniteSubsetsOf(X)
  PROVE  Total(w, S) \in Nat
<1>1. PICK g \in [SUBSET S -> Nat] : Sums(w, g, S) /\ Total(w, S) = g[S]
  BY TotalIsSummed
<1> QED BY <1>1

LEMMA TotalEmpty ==
  ASSUME NEW X, NEW w \in [X -> Nat]
  PROVE  Total(w, {}) = 0
<1>1. {} \in FiniteSubsetsOf(X)
  BY FS_EmptySet DEF FiniteSubsetsOf
<1>2. PICK g \in [SUBSET {} -> Nat] : Sums(w, g, {}) /\ Total(w, {}) = g[{}]
  BY <1>1, TotalIsSummed
<1> QED BY <1>2 DEF Sums

LEMMA TotalOfAny ==
  ASSUME NEW X, NEW w \in [X -> Nat], NEW S \in FiniteSubsetsOf(X), S # {}
  PROVE  Total(w, S) = w[Any(S)] + Total(w, S \ {Any(S)})
<1> DEFINE T == S \ {Any(S)}
<1>1. T \subseteq S /\ T \in FiniteSubsetsOf(X)
  BY Smaller
<1> HIDE DEF T
<1>2. PICK g \in [SUBSET S -> Nat] : Sums(w, g, S) /\ Total(w, S) = g[S]
  BY TotalIsSummed
<1>3. PICK h \in [SUBSET T -> Nat] : Sums(w, h, T) /\ Total(w, T) = h[T]
  BY <1>1, TotalIsSummed
<1>4. g[T] = h[T]
  BY <1>1, <1>2, <1>3, SumsAgree
<1>5. g[S] = w[Any(S)] + g[T]
  BY <1>2 DEF Sums, T
<1> QED BY <1>2, <1>3, <1>4, <1>5 DEF T

(* In whatever order the elements are taken. *)
LEMMA TotalRemove ==
  ASSUME NEW X, NEW w \in [X -> Nat], NEW S \in FiniteSubsetsOf(X), NEW x \in S
  PROVE  Total(w, S) = w[x] + Total(w, S \ {x})
<1> DEFINE Bad == {s \in FiniteSubsetsOf(X) :
                     \E e \in s : Total(w, s) # w[e] + Total(w, s \ {e})}
<1> SUFFICES ASSUME Bad # {} PROVE FALSE
  OBVIOUS
<1>1. PICK T \in Bad : \A t \in Bad : t \subseteq T => t = T
  <2>1. Bad \subseteq FiniteSubsetsOf(X)
    OBVIOUS
  <2> HIDE DEF Bad
  <2> QED BY <2>1, Smallest
<1>2. PICK e \in T : Total(w, T) # w[e] + Total(w, T \ {e})
  BY <1>1
<1> DEFINE a == Any(T)
<1>3. /\ T \in FiniteSubsetsOf(X) /\ T # {} /\ a \in T /\ T \subseteq X
      /\ Total(w, T) = w[a] + Total(w, T \ {a})
  BY <1>1, <1>2, Smaller, TotalOfAny
<1> HIDE DEF a
<1>4. a # e
  BY <1>2, <1>3
<1>5. ASSUME NEW t, t \subseteq T, t # T, NEW d \in t
      PROVE  Total(w, t) = w[d] + Total(w, t \ {d})
  <2>1. t \in FiniteSubsetsOf(X) /\ t \notin Bad
    <3> HIDE DEF Bad
    <3> QED BY <1>1, <1>3, <1>5, Smaller
  <2> QED BY <1>5, <2>1
<1>6. Total(w, T \ {a}) = w[e] + Total(w, (T \ {a}) \ {e})
  BY <1>3, <1>4, <1>5
<1>7. Total(w, T \ {e}) = w[a] + Total(w, (T \ {e}) \ {a})
  BY <1>2, <1>3, <1>4, <1>5
<1>8. (T \ {a}) \ {e} = (T \ {e}) \ {a}
  OBVIOUS
<1>9. /\ w[a] \in Nat /\ w[e] \in Nat
      /\ Total(w, (T \ {a}) \ {e}) \in Nat
  BY <1>3, <1>2, Smaller, TotalType
<1> QED BY <1>2, <1>3, <1>6, <1>7, <1>8, <1>9

LEMMA TotalAdd ==
  ASSUME NEW X, NEW w \in [X -> Nat], NEW S \in FiniteSubsetsOf(X), NEW x \in X, x \notin S
  PROVE  /\ S \cup {x} \in FiniteSubsetsOf(X)
         /\ Total(w, S \cup {x}) = w[x] + Total(w, S)
<1>1. S \cup {x} \in FiniteSubsetsOf(X)
  BY FS_AddElement DEF FiniteSubsetsOf
<1>2. (S \cup {x}) \ {x} = S
  OBVIOUS
<1> QED BY <1>1, <1>2, TotalRemove

(* What weighs nothing does not count. *)
LEMMA TotalMonotone ==
  ASSUME NEW X, NEW w \in [X -> Nat],
         NEW S \in FiniteSubsetsOf(X), NEW T \in FiniteSubsetsOf(X),
         \A x \in S : w[x] > 0 => x \in T
  PROVE  Total(w, S) <= Total(w, T)
<1> DEFINE Less(s) == \A t \in FiniteSubsetsOf(X) :
                        (\A x \in s : w[x] > 0 => x \in t) => Total(w, s) <= Total(w, t)
           Bad == {s \in FiniteSubsetsOf(X) : ~Less(s)}
<1> SUFFICES ASSUME Bad # {} PROVE FALSE
  OBVIOUS
<1>1. PICK s \in Bad : \A t \in Bad : t \subseteq s => t = s
  <2>1. Bad \subseteq FiniteSubsetsOf(X)
    OBVIOUS
  <2> HIDE DEF Bad
  <2> QED BY <2>1, Smallest
<1>2. PICK t \in FiniteSubsetsOf(X) :
        (\A x \in s : w[x] > 0 => x \in t) /\ ~(Total(w, s) <= Total(w, t))
  BY <1>1
<1>3. Total(w, s) \in Nat /\ Total(w, t) \in Nat /\ s \subseteq X
  BY <1>1, Smaller, TotalType
<1>4. s # {}
  BY <1>2, <1>3, TotalEmpty
<1>5. PICK e \in s : TRUE
  BY <1>4
<1> DEFINE r == s \ {e}
<1>6. /\ r \subseteq s /\ r # s /\ r \in FiniteSubsetsOf(X)
      /\ Total(w, s) = w[e] + Total(w, r)
      /\ Total(w, r) \in Nat /\ w[e] \in Nat
  BY <1>1, <1>3, <1>5, Smaller, TotalRemove, TotalType
<1>7. Less(r)
  <2> HIDE DEF Less
  <2> QED BY <1>1, <1>6
<1>8. CASE w[e] = 0
  <2>1. Total(w, r) <= Total(w, t)
    BY <1>2, <1>6, <1>7
  <2> HIDE DEF r
  <2> QED BY <1>2, <1>3, <1>6, <1>8, <2>1
<1>9. CASE w[e] > 0
  <2> DEFINE u == t \ {e}
  <2>1. e \in t
    BY <1>2, <1>9
  <2>2. /\ u \in FiniteSubsetsOf(X) /\ Total(w, t) = w[e] + Total(w, u)
        /\ Total(w, u) \in Nat
    BY <2>1, Smaller, TotalRemove, TotalType
  <2>3. \A x \in r : w[x] > 0 => x \in u
    BY <1>2
  <2>4. Total(w, r) <= Total(w, u)
    BY <1>7, <2>2, <2>3
  <2> QED BY <1>2, <1>6, <2>2, <2>4
<1> QED BY <1>6, <1>8, <1>9
(* Only the weights of its elements count, and one more for one of them is   *)
(* one more in all.                                                         *)
LEMMA TotalSame ==
  ASSUME NEW X, NEW v \in [X -> Nat], NEW w \in [X -> Nat], NEW S \in FiniteSubsetsOf(X),
         \A x \in S : v[x] = w[x]
  PROVE  Total(v, S) = Total(w, S)
<1> DEFINE Bad == {s \in FiniteSubsetsOf(X) : (\A x \in s : v[x] = w[x]) /\ Total(v, s) # Total(w, s)}
<1> SUFFICES ASSUME Bad # {} PROVE FALSE
  OBVIOUS
<1>1. PICK T \in Bad : \A t \in Bad : t \subseteq T => t = T
  <2>1. Bad \subseteq FiniteSubsetsOf(X)
    OBVIOUS
  <2> HIDE DEF Bad
  <2> QED BY <2>1, Smallest
<1>2. T # {}
  BY TotalEmpty
<1>3. Any(T) \in T /\ T \ {Any(T)} \in FiniteSubsetsOf(X)
  BY <1>1, <1>2, Smaller
<1>4. Total(v, T \ {Any(T)}) = Total(w, T \ {Any(T)})
  BY <1>1, <1>3
<1>5. /\ Total(v, T) = v[Any(T)] + Total(v, T \ {Any(T)})
      /\ Total(w, T) = w[Any(T)] + Total(w, T \ {Any(T)})
  BY <1>2, TotalOfAny
<1> QED BY <1>3, <1>4, <1>5

LEMMA TotalOneMore ==
  ASSUME NEW X, NEW w \in [X -> Nat], NEW S \in FiniteSubsetsOf(X), NEW e \in S
  PROVE  Total([w EXCEPT ![e] = @ + 1], S) = Total(w, S) + 1
<1> DEFINE v == [w EXCEPT ![e] = @ + 1]
           T == S \ {e}
<1>1. e \in X /\ T \in FiniteSubsetsOf(X)
  BY Smaller
<1>2. v \in [X -> Nat] /\ v[e] = w[e] + 1 /\ \A x \in T : v[x] = w[x]
  BY <1>1, Smaller
<1> HIDE DEF v
<1>3. Total(v, S) = v[e] + Total(v, T) /\ Total(w, S) = w[e] + Total(w, T)
  BY <1>2, TotalRemove
<1> HIDE DEF T
<1>4. Total(v, T) = Total(w, T)
  BY <1>1, <1>2, TotalSame
<1>5. Total(w, T) \in Nat /\ w[e] \in Nat
  BY <1>1, TotalType
<1> QED BY <1>2, <1>3, <1>4, <1>5 DEF v

=============================================================================
