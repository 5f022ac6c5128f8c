------------------------------ MODULE SetSums ------------------------------
(***************************************************************************)
(* What the sums of the models are: MapThenSumSet of FiniteSetsExt, here   *)
(* with the weights as a function, so that a lemma can be stated for any.  *)
(*                                                                         *)
(* A fact about every finite set is proved by descent: the subsets of S    *)
(* that break it, were there any, would include a smallest one (the order  *)
(* of strict inclusion is well-founded on finite sets), and a break is     *)
(* shown to have a smaller one.                                            *)
(***************************************************************************)
EXTENDS FiniteSetsExt, FiniteSetTheorems, TLAPS

\* The sum of the weights w of the elements of S.
SumOver(w, S) == MapThenSumSet(LAMBDA x : w[x], S)

\* The element that the fold takes first.
Picked(s) == CHOOSE x \in s : TRUE

\* One step of the fold, g being the sums of smaller sets.
Total(w, s, g) == IF s = {} THEN 0 ELSE w[Picked(s)] + g[s \ {Picked(s)}]

\* g is the sum of each subset of S.
Adds(w, S, g) == g = [s \in SUBSET S |-> Total(w, s, g)]

\* A sum, by the definition of the fold it is.
LEMMA SumUnfolds ==
    ASSUME NEW w, NEW S
    PROVE  SumOver(w, S) = (CHOOSE g : Adds(w, S, g))[S]
BY DEF SumOver, MapThenSumSet, MapThenFoldSet, Adds, Total, Picked

\* Of the subsets of a finite set, none is in a family without a smallest member.
LEMMA FiniteDescent ==
    ASSUME NEW S, IsFiniteSet(S), NEW Bad \in SUBSET (SUBSET S),
           \A T \in Bad : \E U \in Bad : U \subseteq T /\ U # T
    PROVE  Bad = {}
<1> SUFFICES ASSUME Bad # {} PROVE FALSE
  OBVIOUS
<1>1. IsWellFoundedOn(StrictSubsetOrdering(S), FiniteSubsetsOf(S))
  BY FS_StrictSubsetOrderingWellFounded
<1>2. Bad \subseteq FiniteSubsetsOf(S)
  BY FS_FiniteSubsetsOfFinite
<1>3. PICK T \in Bad : \A U \in Bad : ~(<<U, T>> \in StrictSubsetOrdering(S))
  BY <1>1, <1>2, WFMin
<1>4. PICK U \in Bad : U \subseteq T /\ U # T
  OBVIOUS
<1>5. <<U, T>> \in StrictSubsetOrdering(S)
  BY <1>4 DEF StrictSubsetOrdering
<1>. QED BY <1>3, <1>5

\* What is picked is an element.
LEMMA PickedIn == ASSUME NEW s, s # {} PROVE Picked(s) \in s
BY DEF Picked

\* A function of the sums takes the step at each subset.
LEMMA AddsAt ==
    ASSUME NEW w, NEW S, NEW g, Adds(w, S, g), NEW s \in SUBSET S
    PROVE  g[s] = Total(w, s, g)
BY DEF Adds

\* Two such functions agree wherever both are defined.
LEMMA AddsAgree ==
    ASSUME NEW w, NEW S, NEW T, NEW g, NEW h, Adds(w, S, g), Adds(w, T, h), IsFiniteSet(S),
           NEW s \in SUBSET (S \cap T)
    PROVE  g[s] = h[s]
<1> DEFINE Bad == {u \in SUBSET (S \cap T) : g[u] # h[u]}
<1>1. ASSUME NEW u \in Bad
      PROVE  \E v \in Bad : v \subseteq u /\ v # u
  <2>1. g[u] = Total(w, u, g) /\ h[u] = Total(w, u, h)
    <3>1. u \in SUBSET S /\ u \in SUBSET T
      OBVIOUS
    <3>. QED BY <3>1, AddsAt, Zenon
  <2>2. u # {}
    BY <2>1 DEF Total
  <2>3. Picked(u) \in u
    BY <2>2, PickedIn
  <2>4. g[u \ {Picked(u)}] # h[u \ {Picked(u)}]
    BY <2>1, <2>2 DEF Total
  <2>. QED BY <2>3, <2>4
<1>2. Bad = {}
  <2>1. IsFiniteSet(S \cap T) /\ Bad \in SUBSET (SUBSET (S \cap T))
    BY FS_Intersection
  <2> HIDE DEF Bad
  <2>. QED BY <1>1, <2>1, FiniteDescent
<1>. QED BY <1>2

\* A finite set has a function that adds up its subsets, and the sum is its value.
LEMMA SumIsAdded ==
    ASSUME NEW w, NEW S, IsFiniteSet(S)
    PROVE  \E g : Adds(w, S, g) /\ SumOver(w, S) = g[S]
<1> DEFINE Solved(T) == \E g : Adds(w, T, g)
<1> DEFINE Bad == {T \in SUBSET S : ~Solved(T)}
<1> DEFINE G(T) == CHOOSE g : Adds(w, T, g)
<1>1. ASSUME NEW T \in SUBSET S, \A U \in SUBSET T : U # T => Solved(U)
      PROVE  Solved(T)
  <2> DEFINE f == [s \in SUBSET T |-> IF s = {} THEN 0
                                     ELSE w[Picked(s)] + G(s \ {Picked(s)})[s \ {Picked(s)}]]
  <2>1. ASSUME NEW U \in SUBSET T, U # T
        PROVE  Adds(w, U, G(U))
    BY <1>1, <2>1
  <2>2. ASSUME NEW s \in SUBSET T, s # T
        PROVE  f[s] = G(s)[s]
    <3>1. G(s)[s] = Total(w, s, G(s))
      BY <2>1, <2>2, AddsAt
    <3>2. CASE s = {}
      BY <3>1, <3>2 DEF Total
    <3>3. CASE s # {}
      <4> DEFINE p == Picked(s)
      <4>1. p \in s
        BY <3>3, PickedIn
      <4>2. s \ {p} \in SUBSET T /\ s \ {p} # T
        BY <4>1
      <4>3. Adds(w, s, G(s)) /\ Adds(w, s \ {p}, G(s \ {p}))
        BY <2>1, <2>2, <4>2
      <4>4. IsFiniteSet(s) /\ s \ {p} \in SUBSET (s \cap (s \ {p}))
        BY FS_Subset
      <4> HIDE DEF G, p
      <4>5. G(s)[s \ {p}] = G(s \ {p})[s \ {p}]
        BY <4>3, <4>4, AddsAgree
      <4>6. f[s] = w[p] + G(s \ {p})[s \ {p}]
        BY <3>3 DEF p
      <4>7. G(s)[s] = w[p] + G(s)[s \ {p}]
        BY <3>1, <3>3 DEF p, Total
      <4>. QED BY <4>5, <4>6, <4>7
    <3>. QED BY <3>2, <3>3
  <2>3. ASSUME NEW s \in SUBSET T
        PROVE  f[s] = Total(w, s, f)
    <3>1. CASE s = {}
      BY <3>1 DEF Total
    <3>2. CASE s # {}
      <4>1. Picked(s) \in s
        BY <3>2, PickedIn
      <4>2. s \ {Picked(s)} \in SUBSET T /\ s \ {Picked(s)} # T
        BY <4>1
      <4>3. f[s \ {Picked(s)}] = G(s \ {Picked(s)})[s \ {Picked(s)}]
        BY <2>2, <4>2
      <4>4. f[s] = w[Picked(s)] + G(s \ {Picked(s)})[s \ {Picked(s)}]
        BY <3>2
      <4> HIDE DEF f, G
      <4>. QED BY <3>2, <4>3, <4>4 DEF Total
    <3>. QED BY <3>1, <3>2
  <2>4. f = [s \in SUBSET T |-> f[s]]
    OBVIOUS
  <2> HIDE DEF f
  <2>5. f = [s \in SUBSET T |-> Total(w, s, f)]
    BY <2>3, <2>4
  <2>. QED BY <2>5 DEF Adds
<1>2. ASSUME NEW T \in Bad
      PROVE  \E U \in Bad : U \subseteq T /\ U # T
  BY <1>1, <1>2
<1>3. Bad = {}
  <2>1. Bad \in SUBSET (SUBSET S)
    OBVIOUS
  <2> HIDE DEF Bad
  <2>. QED BY <1>2, <2>1, FiniteDescent
<1>4. Solved(S)
  BY <1>3
<1>5. Adds(w, S, G(S)) /\ SumOver(w, S) = G(S)[S]
  BY <1>4, SumUnfolds
<1>. QED BY <1>5

\* Any such function gives the sum of each subset.
LEMMA SumIsSolution ==
    ASSUME NEW w, NEW S, IsFiniteSet(S), NEW g, Adds(w, S, g), NEW s \in SUBSET S
    PROVE  SumOver(w, s) = g[s]
<1>1. IsFiniteSet(s)
  BY FS_Subset
<1>2. PICK h : Adds(w, s, h) /\ SumOver(w, s) = h[s]
  BY <1>1, SumIsAdded
<1>3. s \in SUBSET (s \cap S)
  OBVIOUS
<1>. QED BY <1>1, <1>2, <1>3, AddsAgree

\* An empty sum is 0, and any other is that of what is left when one is picked.
LEMMA SumPicks ==
    ASSUME NEW w, NEW S, IsFiniteSet(S)
    PROVE  SumOver(w, S) = IF S = {} THEN 0 ELSE w[Picked(S)] + SumOver(w, S \ {Picked(S)})
<1>1. PICK g : Adds(w, S, g) /\ SumOver(w, S) = g[S]
  BY SumIsAdded
<1>2. g[S] = Total(w, S, g)
  BY <1>1, AddsAt
<1>3. SumOver(w, S \ {Picked(S)}) = g[S \ {Picked(S)}]
  BY <1>1, SumIsSolution
<1>. QED BY <1>1, <1>2, <1>3 DEF Total

\* The empty sum.
LEMMA SumOfNone == ASSUME NEW w PROVE SumOver(w, {}) = 0
BY SumPicks, FS_EmptySet

\* A sum of integers is one.
LEMMA SumType ==
    ASSUME NEW w, NEW S, IsFiniteSet(S), \A x \in S : w[x] \in Int
    PROVE  SumOver(w, S) \in Int
<1> DEFINE Bad == {T \in SUBSET S : SumOver(w, T) \notin Int}
<1>1. ASSUME NEW T \in Bad
      PROVE  \E U \in Bad : U \subseteq T /\ U # T
  <2>1. IsFiniteSet(T)
    BY FS_Subset
  <2>2. T # {}
    BY SumOfNone
  <2>3. Picked(T) \in T
    BY <2>2, PickedIn
  <2>4. SumOver(w, T) = w[Picked(T)] + SumOver(w, T \ {Picked(T)})
    BY <2>1, <2>2, SumPicks
  <2>5. SumOver(w, T \ {Picked(T)}) \notin Int
    BY <2>3, <2>4
  <2>. QED BY <2>3, <2>5
<1>2. Bad = {}
  <2>1. Bad \in SUBSET (SUBSET S)
    OBVIOUS
  <2> HIDE DEF Bad
  <2>. QED BY <1>1, <2>1, FiniteDescent
<1>. QED BY <1>2

\* Any element may be taken out first.
LEMMA SumTakesOut ==
    ASSUME NEW w, NEW S, IsFiniteSet(S), \A x \in S : w[x] \in Int, NEW e \in S
    PROVE  SumOver(w, S) = w[e] + SumOver(w, S \ {e})
<1> DEFINE Bad == {T \in SUBSET S : \E x \in T : SumOver(w, T) # w[x] + SumOver(w, T \ {x})}
<1>1. ASSUME NEW T \in Bad
      PROVE  \E U \in Bad : U \subseteq T /\ U # T
  <2> SUFFICES ASSUME \A U \in Bad : ~(U \subseteq T /\ U # T) PROVE FALSE
    OBVIOUS
  <2>1. PICK x \in T : SumOver(w, T) # w[x] + SumOver(w, T \ {x})
    OBVIOUS
  <2> DEFINE p == Picked(T)
  <2>2. p \in T
    BY PickedIn
  <2>3. \A U \in SUBSET T : IsFiniteSet(U) /\ SumOver(w, U) \in Int
    BY FS_Subset, SumType
  <2>4. SumOver(w, T) = w[p] + SumOver(w, T \ {p})
    BY <2>3, SumPicks
  <2>5. x # p
    BY <2>1, <2>4
  <2>6. T \ {p} \notin Bad /\ T \ {x} \notin Bad
    BY <2>2
  <2> HIDE DEF p
  <2>7. SumOver(w, T \ {p}) = w[x] + SumOver(w, (T \ {p}) \ {x})
    BY <2>5, <2>6
  <2>8. SumOver(w, T \ {x}) = w[p] + SumOver(w, (T \ {x}) \ {p})
    BY <2>2, <2>5, <2>6
  <2>9. (T \ {p}) \ {x} = (T \ {x}) \ {p}
    OBVIOUS
  <2>10. /\ w[x] \in Int /\ w[p] \in Int
         /\ SumOver(w, (T \ {x}) \ {p}) \in Int
    BY <2>2, <2>3
  <2>11. \A a, b, c \in Int : a + (b + c) = b + (a + c)
    OBVIOUS
  <2>12. w[p] + (w[x] + SumOver(w, (T \ {x}) \ {p})) = w[x] + (w[p] + SumOver(w, (T \ {x}) \ {p}))
    BY <2>10, <2>11, Zenon
  <2>. QED BY <2>1, <2>4, <2>7, <2>8, <2>9, <2>12, Zenon
<1>2. Bad = {}
  <2>1. Bad \in SUBSET (SUBSET S)
    OBVIOUS
  <2> HIDE DEF Bad
  <2>. QED BY <1>1, <2>1, FiniteDescent
<1>. QED BY <1>2

\* One more element adds its weight.
LEMMA SumTakesIn ==
    ASSUME NEW w, NEW S, IsFiniteSet(S), NEW e, e \notin S, \A x \in S \cup {e} : w[x] \in Int
    PROVE  SumOver(w, S \cup {e}) = SumOver(w, S) + w[e]
<1>1. IsFiniteSet(S \cup {e})
  BY FS_AddElement
<1>2. SumOver(w, S \cup {e}) = w[e] + SumOver(w, (S \cup {e}) \ {e})
  <2> DEFINE T == S \cup {e}
  <2>1. IsFiniteSet(T) /\ e \in T /\ \A x \in T : w[x] \in Int
    BY <1>1
  <2> HIDE DEF T
  <2>2. SumOver(w, T) = w[e] + SumOver(w, T \ {e})
    BY <2>1, SumTakesOut
  <2>. QED BY <2>2 DEF T
<1>3. (S \cup {e}) \ {e} = S
  OBVIOUS
<1>4. SumOver(w, S) \in Int /\ w[e] \in Int
  BY SumType
<1>5. \A a, b \in Int : a + b = b + a
  OBVIOUS
<1>. QED BY <1>2, <1>3, <1>4, <1>5, Zenon

\* Weights that agree on a set have the same sum over it.
LEMMA SumAgrees ==
    ASSUME NEW w, NEW v, NEW S, IsFiniteSet(S), \A x \in S : w[x] = v[x]
    PROVE  SumOver(w, S) = SumOver(v, S)
<1>1. PICK g : Adds(w, S, g) /\ SumOver(w, S) = g[S]
  BY SumIsAdded
<1>2. \A s \in SUBSET S : Total(w, s, g) = Total(v, s, g)
  BY PickedIn DEF Total
<1>3. Adds(v, S, g)
  BY <1>1, <1>2 DEF Adds
<1>. QED BY <1>1, <1>3, SumIsSolution

\* A change of one weight changes the sum by as much.
LEMMA SumShifts ==
    ASSUME NEW w, NEW v, NEW S, IsFiniteSet(S), NEW e \in S,
           \A x \in S : w[x] \in Int /\ v[x] \in Int,
           \A x \in S \ {e} : w[x] = v[x]
    PROVE  SumOver(v, S) = SumOver(w, S) + (v[e] - w[e])
<1>1. IsFiniteSet(S \ {e})
  BY FS_Subset
<1>2. SumOver(w, S \ {e}) = SumOver(v, S \ {e}) /\ SumOver(v, S \ {e}) \in Int
  BY <1>1, SumAgrees, SumType
<1>3. /\ SumOver(w, S) = w[e] + SumOver(w, S \ {e})
      /\ SumOver(v, S) = v[e] + SumOver(v, S \ {e})
  BY SumTakesOut
<1>. QED BY <1>2, <1>3

\* Weights that are each higher by at most q add up to at most that much more.
LEMMA SumGrowsBy ==
    ASSUME NEW w, NEW v, NEW S, IsFiniteSet(S), NEW q \in Int,
           \A x \in S : w[x] \in Int /\ v[x] \in Int /\ v[x] <= w[x] + q
    PROVE  SumOver(v, S) <= SumOver(w, S) + q * Cardinality(S)
<1> DEFINE Bad == {T \in SUBSET S : ~(SumOver(v, T) <= SumOver(w, T) + q * Cardinality(T))}
<1>1. ASSUME NEW T \in Bad
      PROVE  \E U \in Bad : U \subseteq T /\ U # T
  <2>1. IsFiniteSet(T) /\ \A U \in SUBSET T : IsFiniteSet(U)
    BY FS_Subset
  <2>2. T # {}
    BY SumOfNone, FS_EmptySet
  <2>3. PICK e \in T : TRUE
    BY <2>2
  <2> DEFINE R == T \ {e}
  <2>4. /\ SumOver(w, T) = w[e] + SumOver(w, R)
        /\ SumOver(v, T) = v[e] + SumOver(v, R)
    BY <2>1, SumTakesOut
  <2>5. SumOver(w, R) \in Int /\ SumOver(v, R) \in Int
    BY <2>1, SumType
  <2>6. w[e] \in Int /\ v[e] \in Int /\ v[e] <= w[e] + q
    OBVIOUS
  <2>7. ~(SumOver(v, T) <= SumOver(w, T) + q * Cardinality(T))
    OBVIOUS
  <2>8. Cardinality(R) \in Nat /\ Cardinality(T) = Cardinality(R) + 1
    <3>1. IsFiniteSet(R) /\ Cardinality(R) = Cardinality(T) - 1
      BY <2>1, <2>3, FS_RemoveElement
    <3>2. Cardinality(R) \in Nat /\ Cardinality(T) \in Nat
      BY <2>1, <3>1, FS_CardinalityType
    <3> HIDE DEF R
    <3>. QED BY <3>1, <3>2
  <2>9. q * Cardinality(T) = q * Cardinality(R) + q /\ q * Cardinality(R) \in Int
    BY <2>8
  <2>10. ~(SumOver(v, R) <= SumOver(w, R) + q * Cardinality(R))
    <3> HIDE DEF Bad, R
    <3>. QED BY <2>4, <2>5, <2>6, <2>7, <2>9
  <2>11. R \in Bad /\ R \subseteq T /\ R # T
    BY <2>10
  <2>. QED
    <3> HIDE DEF Bad, R
    <3>. QED BY <2>11
<1>2. Bad = {}
  <2>1. Bad \in SUBSET (SUBSET S)
    OBVIOUS
  <2> HIDE DEF Bad
  <2>. QED BY <1>1, <2>1, FiniteDescent
<1>. QED BY <1>2

\* The sum over one element is its weight.
LEMMA SumOfOne ==
    ASSUME NEW w, NEW e, w[e] \in Int
    PROVE  SumOver(w, {e}) = w[e]
<1>1. IsFiniteSet({}) /\ {} \cup {e} = {e} /\ e \notin {}
  BY FS_EmptySet
<1>2. SumOver(w, {} \cup {e}) = SumOver(w, {}) + w[e]
  BY <1>1, SumTakesIn
<1>. QED BY <1>1, <1>2, SumOfNone

\* A sum is that of any part and of what is left.
LEMMA SumSplits ==
    ASSUME NEW w, NEW S, IsFiniteSet(S), \A x \in S : w[x] \in Int, NEW T
    PROVE  SumOver(w, S) = SumOver(w, S \cap T) + SumOver(w, S \ T)
<1> DEFINE Bad == {U \in SUBSET S : SumOver(w, U) # SumOver(w, U \cap T) + SumOver(w, U \ T)}
<1>1. ASSUME NEW U \in Bad
      PROVE  \E V \in Bad : V \subseteq U /\ V # U
  <2>1. \A V \in SUBSET U : IsFiniteSet(V) /\ SumOver(w, V) \in Int
    BY FS_Subset, SumType
  <2>2. U # {}
    BY SumOfNone
  <2>3. PICK e \in U : TRUE
    BY <2>2
  <2> DEFINE R == U \ {e}
  <2>4. SumOver(w, U) = w[e] + SumOver(w, R)
    BY <2>1, SumTakesOut
  <2>5. \/ /\ SumOver(w, U \cap T) = w[e] + SumOver(w, R \cap T)
           /\ SumOver(w, U \ T) = SumOver(w, R \ T)
        \/ /\ SumOver(w, U \ T) = w[e] + SumOver(w, R \ T)
           /\ SumOver(w, U \cap T) = SumOver(w, R \cap T)
    <3>1. ASSUME NEW V \in SUBSET U, e \in V
          PROVE  SumOver(w, V) = w[e] + SumOver(w, V \ {e})
      BY <2>1, <3>1, SumTakesOut
    <3>2. CASE e \in T
      <4>1. SumOver(w, U \cap T) = w[e] + SumOver(w, (U \cap T) \ {e})
        BY <3>1, <3>2
      <4>2. (U \cap T) \ {e} = R \cap T /\ U \ T = R \ T
        BY <3>2
      <4>. QED BY <4>1, <4>2
    <3>3. CASE e \notin T
      <4>1. SumOver(w, U \ T) = w[e] + SumOver(w, (U \ T) \ {e})
        BY <3>1, <3>3
      <4>2. (U \ T) \ {e} = R \ T /\ U \cap T = R \cap T
        BY <3>3
      <4>. QED BY <4>1, <4>2
    <3>. QED BY <3>2, <3>3
  <2>6. /\ w[e] \in Int /\ SumOver(w, R) \in Int
        /\ SumOver(w, R \cap T) \in Int /\ SumOver(w, R \ T) \in Int
    BY <2>1
  <2>7. SumOver(w, U) # SumOver(w, U \cap T) + SumOver(w, U \ T)
    OBVIOUS
  <2>8. SumOver(w, R) # SumOver(w, R \cap T) + SumOver(w, R \ T)
    <3> HIDE DEF Bad, R
    <3>. QED BY <2>4, <2>5, <2>6, <2>7
  <2>9. R \in Bad /\ R \subseteq U /\ R # U
    BY <2>8
  <2>. QED
    <3> HIDE DEF Bad, R
    <3>. QED BY <2>9
<1>2. Bad = {}
  <2>1. Bad \in SUBSET (SUBSET S)
    OBVIOUS
  <2> HIDE DEF Bad
  <2>. QED BY <1>1, <2>1, FiniteDescent
<1>3. S \notin Bad
  BY <1>2
<1>. QED BY <1>3

\* Weights that are all 0 add up to 0.
LEMMA SumOfZeros ==
    ASSUME NEW w, NEW S, IsFiniteSet(S), \A x \in S : w[x] = 0
    PROVE  SumOver(w, S) = 0
<1> DEFINE Bad == {T \in SUBSET S : SumOver(w, T) # 0}
<1>1. ASSUME NEW T \in Bad
      PROVE  \E U \in Bad : U \subseteq T /\ U # T
  <2>1. IsFiniteSet(T)
    BY FS_Subset
  <2>2. T # {}
    BY SumOfNone
  <2>3. Picked(T) \in T
    BY <2>2, PickedIn
  <2>4. SumOver(w, T) = w[Picked(T)] + SumOver(w, T \ {Picked(T)})
    BY <2>1, <2>2, SumPicks
  <2>5. SumOver(w, T \ {Picked(T)}) # 0
    BY <2>3, <2>4
  <2>. QED BY <2>3, <2>5
<1>2. Bad = {}
  <2>1. Bad \in SUBSET (SUBSET S)
    OBVIOUS
  <2> HIDE DEF Bad
  <2>. QED BY <1>1, <2>1, FiniteDescent
<1>. QED BY <1>2

\* Weights of one sign do not cancel out.
LEMMA SumCancelsNothing ==
    ASSUME NEW w, NEW S, IsFiniteSet(S), SumOver(w, S) = 0,
           \/ \A x \in S : w[x] \in Int /\ w[x] > 0
           \/ \A x \in S : w[x] \in Int /\ w[x] < 0
    PROVE  S = {}
<1> DEFINE zero == [x \in S |-> 0]
<1>1. SumOver(zero, S) = 0 /\ \A x \in S : zero[x] = 0
  BY SumOfZeros
<1>2. Cardinality(S) \in Nat /\ (Cardinality(S) = 0 => S = {})
  BY FS_CardinalityType, FS_EmptySet
<1> HIDE DEF zero
<1>3. CASE \A x \in S : w[x] \in Int /\ w[x] > 0
  <2>1. \A x \in S : zero[x] \in Int /\ w[x] \in Int /\ zero[x] <= w[x] + (-1)
    BY <1>1, <1>3
  <2>2. SumOver(zero, S) <= SumOver(w, S) + (-1) * Cardinality(S)
    BY <2>1, SumGrowsBy
  <2>. QED BY <1>1, <1>2, <2>2
<1>4. CASE \A x \in S : w[x] \in Int /\ w[x] < 0
  <2>1. \A x \in S : zero[x] \in Int /\ w[x] \in Int /\ w[x] <= zero[x] + (-1)
    BY <1>1, <1>4
  <2>2. SumOver(w, S) <= SumOver(zero, S) + (-1) * Cardinality(S)
    BY <2>1, SumGrowsBy
  <2>. QED BY <1>1, <1>2, <2>2
<1>. QED BY <1>3, <1>4

\* A sum of natural numbers counts at least those that are above 0.
LEMMA SumCounts ==
    ASSUME NEW w, NEW S, IsFiniteSet(S), \A x \in S : w[x] \in Nat
    PROVE  /\ IsFiniteSet({x \in S : w[x] > 0})
           /\ Cardinality({x \in S : w[x] > 0}) <= SumOver(w, S)
           /\ SumOver(w, S) \in Nat
<1> DEFINE Above(T) == {x \in T : w[x] > 0}
           Bad == {T \in SUBSET S : ~(Cardinality(Above(T)) <= SumOver(w, T))}
<1>1. ASSUME NEW T \in SUBSET S
      PROVE  /\ IsFiniteSet(T) /\ IsFiniteSet(Above(T)) /\ Cardinality(Above(T)) \in Nat
             /\ SumOver(w, T) \in Int
  <2>1. IsFiniteSet(T) /\ IsFiniteSet(Above(T))
    BY FS_Subset
  <2>2. \A x \in T : w[x] \in Int
    OBVIOUS
  <2>. QED BY <2>1, <2>2, FS_CardinalityType, SumType
<1>2. ASSUME NEW T \in Bad
      PROVE  \E U \in Bad : U \subseteq T /\ U # T
  <2>1. T # {}
    BY SumOfNone, FS_EmptySet
  <2>2. PICK e \in T : TRUE
    BY <2>1
  <2>3. T \in SUBSET S /\ T \ {e} \in SUBSET S /\ e \in S /\ w[e] \in Nat
        /\ ~(Cardinality(Above(T)) <= SumOver(w, T))
    OBVIOUS
  <2>4. SumOver(w, T) = w[e] + SumOver(w, T \ {e})
    <3>1. IsFiniteSet(T) /\ \A x \in T : w[x] \in Int
      BY <1>1, <2>3
    <3>. QED BY <3>1, SumTakesOut
  <2>5. Cardinality(Above(T)) <= Cardinality(Above(T \ {e})) + w[e]
    <3>1. CASE w[e] = 0
      <4>1. Above(T) = Above(T \ {e})
        BY <3>1
      <4>. QED BY <1>1, <2>3, <3>1, <4>1
    <3>2. CASE w[e] # 0
      <4> DEFINE A == Above(T \ {e})
      <4>1. Above(T) = A \cup {e} /\ e \notin A
        BY <2>3, <3>2
      <4>2. IsFiniteSet(A) /\ Cardinality(A) \in Nat
        BY <1>1, <2>3
      <4> HIDE DEF A
      <4>3. Cardinality(A \cup {e}) = Cardinality(A) + 1
        BY <4>1, <4>2, FS_AddElement
      <4>4. Cardinality(A) + 1 <= Cardinality(A) + w[e]
        BY <2>3, <3>2, <4>2
      <4>. QED BY <4>1, <4>3, <4>4 DEF A
    <3>. QED BY <3>1, <3>2
  <2>6. /\ Cardinality(Above(T)) \in Int /\ Cardinality(Above(T \ {e})) \in Int
        /\ SumOver(w, T \ {e}) \in Int
    BY <1>1, <2>3
  <2>7. ~(Cardinality(Above(T \ {e})) <= SumOver(w, T \ {e}))
    <3> HIDE DEF Above, Bad
    <3>. QED BY <2>3, <2>4, <2>5, <2>6
  <2>8. T \ {e} \in Bad
    BY <2>3, <2>7
  <2>9. T \ {e} \subseteq T /\ T \ {e} # T
    BY <2>2
  <2>. QED
    <3> HIDE DEF Bad
    <3>. QED BY <2>8, <2>9
<1>3. Bad = {}
  <2>1. Bad \in SUBSET (SUBSET S)
    OBVIOUS
  <2> HIDE DEF Bad
  <2>. QED BY <1>2, <2>1, FiniteDescent
<1>4. Cardinality(Above(S)) <= SumOver(w, S)
  BY <1>3
<1> HIDE DEF Bad
<1>5. SumOver(w, S) \in Nat
  <2> HIDE DEF Above
  <2>. QED BY <1>1, <1>4
<1>. QED BY <1>1, <1>4, <1>5
=============================================================================
