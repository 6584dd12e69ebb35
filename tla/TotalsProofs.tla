------------------------------ MODULE TotalsProofs ------------------------------
(***************************************************************************)
(* The sum of the elements of a finite set, in whatever order the fold of  *)
(* the library takes them, and the products and rounded quotients of the   *)
(* contracts.  The facts about sums are proved by smallest counterexample: *)
(* no finite set is the smallest on which they fail.                       *)
(***************************************************************************)
EXTENDS Totals, FiniteSetTheorems, WellFoundedInduction, TLAPS

\* What the fold of the library does on the subsets of U.
Pick(s) == CHOOSE x \in s : TRUE
Rest(s) == s \ {Pick(s)}
Adds(w, U, g) == g = [s \in SUBSET U |-> IF s = {} THEN 0 ELSE w[Pick(s)] + g[Rest(s)]]

\* A set of finite sets has a smallest one.
LEMMA SmallestSet ==
  ASSUME NEW S, IsFiniteSet(S), NEW T, T \subseteq SUBSET S, T # {}
  PROVE  \E x \in T : \A y \in T : y \subseteq x => y = x
<1>1. IsWellFoundedOn(StrictSubsetOrdering(S), SUBSET S)
  BY FS_StrictSubsetOrderingWellFounded, FS_FiniteSubsetsOfFinite
<1>2. PICK x \in T : \A y \in T : <<y, x>> \notin StrictSubsetOrdering(S)
  BY <1>1, WFMin
<1>3. \A y \in T : y \subseteq x => y = x
  BY <1>2 DEF StrictSubsetOrdering
<1>. QED
  BY <1>3

\* A finite set of integers has a greatest element.
LEMMA GreatestExists ==
  ASSUME NEW S, IsFiniteSet(S)
  PROVE  S \subseteq Int /\ S # {} => \E m \in S : \A x \in S : x <= m
<1>. DEFINE bad == {U \in SUBSET S : U \subseteq Int /\ U # {} /\ ~ \E m \in U : \A x \in U : x <= m}
<1>. SUFFICES ASSUME bad # {} PROVE FALSE
  OBVIOUS
<1>0. bad \subseteq SUBSET S
  OBVIOUS
<1>. HIDE DEF bad
<1>1. PICK U \in bad : \A V \in bad : V \subseteq U => V = U
  BY <1>0, SmallestSet
<1>. USE DEF bad
<1>2. PICK y \in U : y \in Int
  OBVIOUS
<1>3. U \ {y} \notin bad
  BY <1>1, <1>2
<1>4. CASE U \ {y} = {}
  BY <1>2, <1>4
<1>5. CASE U \ {y} # {}
  <2>1. PICK m \in U \ {y} : \A x \in U \ {y} : x <= m
    BY <1>3, <1>5
  <2>2. U \subseteq Int /\ m \in Int
    OBVIOUS
  <2>3. CASE m <= y
    <3>1. \A x \in U : x <= y
      BY <1>2, <2>1, <2>2, <2>3
    <3>. QED
      BY <1>2, <3>1
  <2>4. CASE y <= m
    <3>1. \A x \in U : x <= m
      BY <1>2, <2>1, <2>2, <2>4
    <3>. QED
      BY <2>1, <3>1
  <2>. QED
    BY <1>2, <2>2, <2>3, <2>4
<1>. QED
  BY <1>4, <1>5

\* The chosen element is one of the set.
LEMMA PickIn ==
  ASSUME NEW s, s # {}
  PROVE  Pick(s) \in s /\ Rest(s) \subseteq s /\ Rest(s) # s
BY DEF Pick, Rest

\* The fold of a set does not depend on the set it is a part of.
LEMMA AddsAgree ==
  ASSUME NEW w, NEW U, IsFiniteSet(U), NEW V, NEW g, NEW h, Adds(w, U, g), Adds(w, V, h),
         NEW s \in SUBSET U, s \in SUBSET V
  PROVE  g[s] = h[s]
<1>. DEFINE bad == {t \in SUBSET U : t \in SUBSET V /\ g[t] # h[t]}
<1>. SUFFICES ASSUME bad # {} PROVE FALSE
  OBVIOUS
<1>0. bad \subseteq SUBSET U
  OBVIOUS
<1>. HIDE DEF bad
<1>1. PICK t \in bad : \A u \in bad : u \subseteq t => u = t
  BY <1>0, SmallestSet
<1>. USE DEF bad
<1>2. t \in SUBSET U /\ t \in SUBSET V /\ g[t] # h[t]
  OBVIOUS
<1>3. g[t] = IF t = {} THEN 0 ELSE w[Pick(t)] + g[Rest(t)]
  BY <1>2 DEF Adds
<1>4. h[t] = IF t = {} THEN 0 ELSE w[Pick(t)] + h[Rest(t)]
  BY <1>2 DEF Adds
<1>5. t # {}
  BY <1>2, <1>3, <1>4
<1>6. Rest(t) \notin bad
  BY <1>1, <1>5, PickIn
<1>7. g[Rest(t)] = h[Rest(t)]
  BY <1>2, <1>5, <1>6, PickIn
<1>. QED
  BY <1>2, <1>3, <1>4, <1>5, <1>7

\* The fold is defined on every finite set.
LEMMA AddsExists ==
  ASSUME NEW w, NEW S, IsFiniteSet(S)
  PROVE  \E g : Adds(w, S, g)
<1>. DEFINE bad == {U \in SUBSET S : ~ \E g : Adds(w, U, g)}
<1>. SUFFICES ASSUME bad # {} PROVE FALSE
  OBVIOUS
<1>0. bad \subseteq SUBSET S
  OBVIOUS
<1>. HIDE DEF bad
<1>1. PICK U \in bad : \A V \in bad : V \subseteq U => V = U
  BY <1>0, SmallestSet
<1>. USE DEF bad
<1>. DEFINE G(t) == CHOOSE g : Adds(w, t, g)
            h == [s \in SUBSET U |-> IF s = {} THEN 0 ELSE w[Pick(s)] + G(Rest(s))[Rest(s)]]
<1>2. \A t \in SUBSET U : t # U => Adds(w, t, G(t))
  <2>. SUFFICES ASSUME NEW t \in SUBSET U, t # U PROVE \E g : Adds(w, t, g)
    OBVIOUS
  <2>. QED
    BY <1>1
<1>3. \A t \in SUBSET U : IsFiniteSet(t)
  BY FS_Subset
<1>. HIDE DEF bad
<1>. HIDE DEF G
<1>7. h = [s \in SUBSET U |-> IF s = {} THEN 0 ELSE w[Pick(s)] + G(Rest(s))[Rest(s)]]
  OBVIOUS
<1>. HIDE DEF h
<1>4. ASSUME NEW t \in SUBSET U, t # U
      PROVE  h[t] = G(t)[t]
  <2>1. Adds(w, t, G(t))
    BY <1>2, <1>4
  <2>2. G(t)[t] = IF t = {} THEN 0 ELSE w[Pick(t)] + G(t)[Rest(t)]
    BY <2>1 DEF Adds
  <2>3. CASE t = {}
    BY <1>4, <1>7, <2>2, <2>3
  <2>4. CASE t # {}
    <3>1. Rest(t) \in SUBSET U /\ Rest(t) # U /\ Rest(t) \in SUBSET t
      BY <1>4, <2>4, PickIn
    <3>2. Adds(w, Rest(t), G(Rest(t)))
      BY <1>2, <3>1
    <3>3. IsFiniteSet(t) /\ Rest(t) \in SUBSET Rest(t)
      BY <1>3, <1>4
    <3>4. G(t)[Rest(t)] = G(Rest(t))[Rest(t)]
      BY <2>1, <3>1, <3>2, <3>3, AddsAgree
    <3>5. h[t] = w[Pick(t)] + G(Rest(t))[Rest(t)]
      BY <1>4, <1>7, <2>4
    <3>. QED
      BY <2>2, <2>4, <3>4, <3>5
  <2>. QED
    BY <2>3, <2>4
<1>5. \A s \in SUBSET U : s # {} => h[Rest(s)] = G(Rest(s))[Rest(s)]
  <2>. SUFFICES ASSUME NEW s \in SUBSET U, s # {} PROVE h[Rest(s)] = G(Rest(s))[Rest(s)]
    OBVIOUS
  <2>1. Rest(s) \in SUBSET U /\ Rest(s) # U
    BY PickIn
  <2>. QED
    BY <1>4, <2>1
<1>6. Adds(w, U, h)
  <2>1. h = [s \in SUBSET U |-> IF s = {} THEN 0 ELSE w[Pick(s)] + h[Rest(s)]]
    BY <1>5, <1>7
  <2>. QED
    BY <2>1 DEF Adds
<1>. QED
  BY <1>6 DEF bad

\* A total is what the fold computes.
LEMMA TotalDef ==
  ASSUME NEW w, NEW S, IsFiniteSet(S)
  PROVE  \E g : Adds(w, S, g) /\ Total(w, S) = g[S]
<1>. DEFINE g == CHOOSE g : Adds(w, S, g)
<1>1. Adds(w, S, g)
  BY AddsExists
<1>2. Total(w, S) = g[S]
  BY DEF Total, MapThenSumSet, MapThenFoldSet, Adds, Pick, Rest
<1>. QED
  BY <1>1, <1>2

\* A total is 0, or the weight of one element and the total of the others.
LEMMA TotalPick ==
  ASSUME NEW w, NEW S, IsFiniteSet(S)
  PROVE  Total(w, S) = IF S = {} THEN 0 ELSE w[Pick(S)] + Total(w, Rest(S))
<1>1. PICK g : Adds(w, S, g) /\ Total(w, S) = g[S]
  BY TotalDef
<1>2. g[S] = IF S = {} THEN 0 ELSE w[Pick(S)] + g[Rest(S)]
  BY <1>1 DEF Adds
<1>3. ASSUME S # {}
      PROVE  g[Rest(S)] = Total(w, Rest(S))
  <2>1. Rest(S) \in SUBSET S /\ IsFiniteSet(Rest(S))
    BY <1>3, PickIn, FS_Subset
  <2>2. PICK h : Adds(w, Rest(S), h) /\ Total(w, Rest(S)) = h[Rest(S)]
    BY <2>1, TotalDef
  <2>. QED
    BY <1>1, <2>1, <2>2, AddsAgree
<1>. QED
  BY <1>1, <1>2, <1>3

\* Totals of natural numbers are natural numbers.
LEMMA TotalNat ==
  ASSUME NEW w, NEW S, IsFiniteSet(S), \A x \in S : w[x] \in Nat
  PROVE  Total(w, S) \in Nat
<1>. DEFINE bad == {U \in SUBSET S : Total(w, U) \notin Nat}
<1>. SUFFICES ASSUME bad # {} PROVE FALSE
  OBVIOUS
<1>0. bad \subseteq SUBSET S
  OBVIOUS
<1>. HIDE DEF bad
<1>1. PICK U \in bad : \A V \in bad : V \subseteq U => V = U
  BY <1>0, SmallestSet
<1>. USE DEF bad
<1>2. IsFiniteSet(U) /\ U \subseteq S /\ Total(w, U) \notin Nat
  BY FS_Subset
<1>3. Total(w, U) = IF U = {} THEN 0 ELSE w[Pick(U)] + Total(w, Rest(U))
  BY <1>2, TotalPick
<1>4. U # {}
  BY <1>2, <1>3
<1>5. Pick(U) \in S /\ Rest(U) \in SUBSET S /\ Rest(U) \notin bad
  BY <1>1, <1>2, <1>4, PickIn
<1>6. Total(w, Rest(U)) \in Nat
  BY <1>5
<1>7. w[Pick(U)] \in Nat
  BY <1>5
<1>. QED
  BY <1>2, <1>3, <1>4, <1>6, <1>7

\* Any element can be the one counted apart.
LEMMA TotalRemove ==
  ASSUME NEW w, NEW S, IsFiniteSet(S), \A x \in S : w[x] \in Nat, NEW x \in S
  PROVE  Total(w, S) = w[x] + Total(w, S \ {x})
<1>. DEFINE bad == {U \in SUBSET S : \E y \in U : Total(w, U) # w[y] + Total(w, U \ {y})}
<1>. SUFFICES ASSUME bad # {} PROVE FALSE
  OBVIOUS
<1>0. bad \subseteq SUBSET S
  OBVIOUS
<1>. HIDE DEF bad
<1>1. PICK U \in bad : \A V \in bad : V \subseteq U => V = U
  BY <1>0, SmallestSet
<1>. USE DEF bad
<1>2. PICK y \in U : Total(w, U) # w[y] + Total(w, U \ {y})
  OBVIOUS
<1>. DEFINE p == Pick(U)
<1>3. IsFiniteSet(U) /\ U \subseteq S /\ U # {} /\ IsFiniteSet(U \ {y}) /\ p \in U
  BY <1>2, FS_Subset, PickIn
<1>4. Total(w, U) = w[p] + Total(w, U \ {p})
  BY <1>3, TotalPick DEF Rest
<1>5. p # y
  BY <1>2, <1>4
<1>. HIDE DEF p
<1>6. U \ {p} \notin bad /\ U \ {y} \notin bad /\ U \ {p} \in SUBSET S /\ U \ {y} \in SUBSET S
  BY <1>1, <1>2, <1>3
<1>7. Total(w, U \ {p}) = w[y] + Total(w, (U \ {p}) \ {y})
  BY <1>2, <1>5, <1>6
<1>8. Total(w, U \ {y}) = w[p] + Total(w, (U \ {y}) \ {p})
  BY <1>3, <1>5, <1>6
<1>9. (U \ {p}) \ {y} = (U \ {y}) \ {p}
  OBVIOUS
<1>10. w[p] \in Nat /\ w[y] \in Nat
  BY <1>2, <1>3
<1>11. Total(w, (U \ {y}) \ {p}) \in Nat
  <2>1. IsFiniteSet((U \ {y}) \ {p}) /\ \A z \in (U \ {y}) \ {p} : w[z] \in Nat
    BY <1>3, FS_Subset
  <2>. QED
    BY <2>1, TotalNat
<1>. DEFINE rest == Total(w, (U \ {y}) \ {p})
<1>12. Total(w, U) = w[p] + (w[y] + rest) /\ Total(w, U \ {y}) = w[p] + rest
  BY <1>4, <1>7, <1>8, <1>9
<1>13. rest \in Nat
  BY <1>11
<1>. HIDE DEF rest
<1>14. Total(w, U) = w[y] + Total(w, U \ {y})
  BY <1>10, <1>12, <1>13
<1>. QED
  BY <1>2, <1>14

\* A total depends on the weights of its elements only.
LEMMA TotalSame ==
  ASSUME NEW w, NEW v, NEW S, IsFiniteSet(S), \A x \in S : w[x] = v[x]
  PROVE  Total(w, S) = Total(v, S)
<1>. DEFINE bad == {U \in SUBSET S : Total(w, U) # Total(v, U)}
<1>. SUFFICES ASSUME bad # {} PROVE FALSE
  OBVIOUS
<1>0. bad \subseteq SUBSET S
  OBVIOUS
<1>. HIDE DEF bad
<1>1. PICK U \in bad : \A V \in bad : V \subseteq U => V = U
  BY <1>0, SmallestSet
<1>. USE DEF bad
<1>2. IsFiniteSet(U) /\ U \subseteq S /\ Total(w, U) # Total(v, U)
  BY FS_Subset
<1>3. Total(w, U) = IF U = {} THEN 0 ELSE w[Pick(U)] + Total(w, Rest(U))
  BY <1>2, TotalPick
<1>4. Total(v, U) = IF U = {} THEN 0 ELSE v[Pick(U)] + Total(v, Rest(U))
  BY <1>2, TotalPick
<1>5. U # {}
  BY <1>2, <1>3, <1>4
<1>6. Pick(U) \in S /\ Rest(U) \in SUBSET S /\ Rest(U) \notin bad
  BY <1>1, <1>2, <1>5, PickIn
<1>. QED
  BY <1>2, <1>3, <1>4, <1>5, <1>6

\* The empty sum, and one element more.
LEMMA TotalAdd ==
  ASSUME NEW w, NEW S, IsFiniteSet(S), NEW x, x \notin S, \A y \in S \cup {x} : w[y] \in Nat
  PROVE  /\ Total(w, {}) = 0
         /\ Total(w, S \cup {x}) = Total(w, S) + w[x]
         /\ IsFiniteSet(S \cup {x})
<1>1. Total(w, {}) = 0
  BY FS_EmptySet, TotalPick
<1>2. IsFiniteSet(S \cup {x})
  BY FS_AddElement
<1>. DEFINE T == S \cup {x}
<1>3. IsFiniteSet(T) /\ x \in T /\ T \ {x} = S /\ \A y \in T : w[y] \in Nat
  BY <1>2
<1>. HIDE DEF T
<1>4. Total(w, T) = w[x] + Total(w, S)
  BY <1>3, TotalRemove
<1>5. Total(w, S) \in Nat /\ w[x] \in Nat
  BY <1>3, TotalNat
<1>. QED
  BY <1>1, <1>2, <1>4, <1>5 DEF T

\* The empty sum.
LEMMA TotalEmpty ==
  ASSUME NEW w
  PROVE  Total(w, {}) = 0
BY FS_EmptySet, TotalPick

\* A sum of zeros.
LEMMA TotalZero ==
  ASSUME NEW w, NEW S, IsFiniteSet(S), \A x \in S : w[x] = 0
  PROVE  Total(w, S) = 0
<1>. DEFINE bad == {U \in SUBSET S : Total(w, U) # 0}
<1>. SUFFICES ASSUME bad # {} PROVE FALSE
  OBVIOUS
<1>0. bad \subseteq SUBSET S
  OBVIOUS
<1>. HIDE DEF bad
<1>1. PICK U \in bad : \A V \in bad : V \subseteq U => V = U
  BY <1>0, SmallestSet
<1>. USE DEF bad
<1>2. IsFiniteSet(U) /\ U \subseteq S /\ Total(w, U) # 0
  BY FS_Subset
<1>3. Total(w, U) = IF U = {} THEN 0 ELSE w[Pick(U)] + Total(w, Rest(U))
  BY <1>2, TotalPick
<1>4. U # {}
  BY <1>2, <1>3
<1>5. Pick(U) \in S /\ Rest(U) \in SUBSET S /\ Rest(U) \notin bad
  BY <1>1, <1>2, <1>4, PickIn
<1>6. Total(w, Rest(U)) = 0
  BY <1>5
<1>. QED
  BY <1>2, <1>3, <1>4, <1>5, <1>6

\* One weight changes.
LEMMA TotalUpdate ==
  ASSUME NEW w, NEW S, IsFiniteSet(S), \A y \in S : w[y] \in Nat,
         NEW x \in S, NEW v, v[x] \in Nat, \A y \in S \ {x} : v[y] = w[y]
  PROVE  Total(v, S) = Total(w, S) + v[x] - w[x]
<1>. DEFINE T == S \ {x}
<1>1. IsFiniteSet(T)
  BY FS_Subset
<1>2. Total(w, S) = w[x] + Total(w, T)
  BY TotalRemove
<1>3. Total(v, S) = v[x] + Total(v, T)
  BY TotalRemove
<1>4. Total(v, T) = Total(w, T)
  BY <1>1, TotalSame
<1>5. Total(w, T) \in Nat
  BY <1>1, TotalNat
<1>. HIDE DEF T
<1>6. w[x] \in Nat
  OBVIOUS
<1>. QED
  BY <1>2, <1>3, <1>4, <1>5, <1>6

\* Smaller weights make a smaller total.
LEMMA TotalLe ==
  ASSUME NEW w, NEW v, NEW S, IsFiniteSet(S),
         \A x \in S : w[x] \in Nat /\ v[x] \in Nat /\ w[x] <= v[x]
  PROVE  Total(w, S) <= Total(v, S)
<1>. DEFINE bad == {U \in SUBSET S : ~ (Total(w, U) <= Total(v, U))}
<1>. SUFFICES ASSUME bad # {} PROVE FALSE
  OBVIOUS
<1>0. bad \subseteq SUBSET S
  OBVIOUS
<1>. HIDE DEF bad
<1>1. PICK U \in bad : \A V \in bad : V \subseteq U => V = U
  BY <1>0, SmallestSet
<1>. USE DEF bad
<1>2. IsFiniteSet(U) /\ U \subseteq S /\ ~ (Total(w, U) <= Total(v, U))
  BY FS_Subset
<1>3. Total(w, U) = IF U = {} THEN 0 ELSE w[Pick(U)] + Total(w, Rest(U))
  BY <1>2, TotalPick
<1>4. Total(v, U) = IF U = {} THEN 0 ELSE v[Pick(U)] + Total(v, Rest(U))
  BY <1>2, TotalPick
<1>5. U # {}
  BY <1>2, <1>3, <1>4
<1>6. Pick(U) \in S /\ Rest(U) \in SUBSET S /\ Rest(U) \notin bad
  BY <1>1, <1>2, <1>5, PickIn
<1>7. Total(w, Rest(U)) <= Total(v, Rest(U))
  BY <1>6
<1>8. w[Pick(U)] \in Nat /\ v[Pick(U)] \in Nat /\ w[Pick(U)] <= v[Pick(U)]
  BY <1>6
<1>9. Total(w, Rest(U)) \in Nat /\ Total(v, Rest(U)) \in Nat
  <2>1. IsFiniteSet(Rest(U)) /\ \A x \in Rest(U) : w[x] \in Nat /\ v[x] \in Nat
    BY <1>6, FS_Subset
  <2>. QED
    BY <2>1, TotalNat
<1>. QED
  BY <1>2, <1>3, <1>4, <1>5, <1>7, <1>8, <1>9

\* Two disjoint parts.
LEMMA TotalSplit ==
  ASSUME NEW w, NEW A, NEW B, IsFiniteSet(A), IsFiniteSet(B), A \cap B = {},
         \A x \in A \cup B : w[x] \in Nat
  PROVE  Total(w, A \cup B) = Total(w, A) + Total(w, B)
<1>. DEFINE bad == {U \in SUBSET B : Total(w, A \cup U) # Total(w, A) + Total(w, U)}
<1>. SUFFICES ASSUME bad # {} PROVE FALSE
  OBVIOUS
<1>0. bad \subseteq SUBSET B
  OBVIOUS
<1>. HIDE DEF bad
<1>1. PICK U \in bad : \A V \in bad : V \subseteq U => V = U
  BY <1>0, SmallestSet
<1>. USE DEF bad
<1>2. IsFiniteSet(U) /\ U \subseteq B /\ Total(w, A \cup U) # Total(w, A) + Total(w, U)
  BY FS_Subset
<1>3. Total(w, {}) = 0 /\ Total(w, A) \in Nat
  BY TotalEmpty, TotalNat
<1>4. U # {}
  <2>. SUFFICES ASSUME U = {} PROVE FALSE
    OBVIOUS
  <2>1. A \cup U = A
    OBVIOUS
  <2>2. Total(w, A \cup U) = Total(w, A)
    BY <2>1
  <2>3. Total(w, U) = 0
    BY <1>3
  <2>. QED
    BY <1>2, <1>3, <2>2, <2>3
<1>5. PICK x \in U : TRUE
  BY <1>4
<1>. DEFINE V == U \ {x}
<1>6. V \in SUBSET B /\ V \notin bad /\ IsFiniteSet(V) /\ x \notin V /\ V \cup {x} = U
  BY <1>1, <1>2, <1>5, FS_Subset
<1>7. Total(w, A \cup V) = Total(w, A) + Total(w, V)
  BY <1>6
<1>8. Total(w, U) = Total(w, V) + w[x]
  BY <1>2, <1>6, TotalAdd
<1>9. IsFiniteSet(A \cup V) /\ x \notin A \cup V /\ (A \cup V) \cup {x} = A \cup U
      /\ \A y \in (A \cup V) \cup {x} : w[y] \in Nat
  <2>1. IsFiniteSet(A \cup V)
    BY <1>6, FS_Union
  <2>. QED
    BY <1>2, <1>5, <1>6, <2>1
<1>10. Total(w, A \cup U) = Total(w, A \cup V) + w[x]
  BY <1>9, TotalAdd
<1>11. Total(w, V) \in Nat /\ w[x] \in Nat
  BY <1>2, <1>5, <1>6, TotalNat
<1>. QED
  BY <1>2, <1>3, <1>7, <1>8, <1>10, <1>11

\* A part is not more than the whole.
LEMMA TotalSubset ==
  ASSUME NEW w, NEW A, NEW S, IsFiniteSet(S), A \subseteq S, \A x \in S : w[x] \in Nat
  PROVE  Total(w, A) <= Total(w, S)
<1>. DEFINE B == S \ A
<1>1. IsFiniteSet(A) /\ IsFiniteSet(B) /\ A \cap B = {} /\ A \cup B = S
  BY FS_Subset
<1>2. Total(w, A) \in Nat /\ Total(w, B) \in Nat
  BY <1>1, TotalNat
<1>. HIDE DEF B
<1>3. Total(w, S) = Total(w, A) + Total(w, B)
  BY <1>1, TotalSplit
<1>. QED
  BY <1>2, <1>3

\* No part is more than the whole.
LEMMA PartAtMost ==
  ASSUME NEW w, NEW S, IsFiniteSet(S), \A y \in S : w[y] \in Nat, NEW x \in S
  PROVE  w[x] <= Total(w, S)
<1>1. Total(w, S) = w[x] + Total(w, S \ {x}) /\ w[x] \in Nat
  BY TotalRemove
<1>2. IsFiniteSet(S \ {x}) /\ \A y \in S \ {x} : w[y] \in Nat
  BY FS_Subset
<1>3. Total(w, S \ {x}) \in Nat
  BY <1>2, TotalNat
<1>. QED
  BY <1>1, <1>3

\* The weights in V that g gives to u.
SharedOut(w, g, V, u) == Total(w, {x \in V : g[x] = u})

\* Weights that are handed out, each to one account at most, raise the accounts' total by
\* no more than their sum.
LEMMA TotalHandedOut ==
  ASSUME NEW b, NEW c, NEW U, IsFiniteSet(U), \A u \in U : b[u] \in Nat,
         NEW w, NEW g, NEW V, IsFiniteSet(V), \A x \in V : w[x] \in Nat,
         \A u \in U : c[u] = b[u] + SharedOut(w, g, V, u)
  PROVE  Total(c, U) <= Total(b, U) + Total(w, V)
<1>. DEFINE Out(W) == [u \in U |-> b[u] + Total(w, {x \in W : g[x] = u})]
            bad == {W \in SUBSET V : ~ (Total(Out(W), U) <= Total(b, U) + Total(w, W))}
<1>0. \A W \in SUBSET V : IsFiniteSet(W) /\ \A u \in U : Out(W)[u] \in Nat
  <2>. TAKE W \in SUBSET V
  <2>1. IsFiniteSet(W)
    BY FS_Subset
  <2>2. ASSUME NEW u \in U PROVE Out(W)[u] \in Nat
    <3>1. IsFiniteSet({x \in W : g[x] = u}) /\ \A x \in {x \in W : g[x] = u} : w[x] \in Nat
      BY <2>1, FS_Subset
    <3>2. Total(w, {x \in W : g[x] = u}) \in Nat
      BY <3>1, TotalNat
    <3>. QED
      BY <3>2
  <2>. QED
    BY <2>1, <2>2
<1>1. bad = {}
  <2>. SUFFICES ASSUME bad # {} PROVE FALSE
    OBVIOUS
  <2>0. bad \subseteq SUBSET V
    OBVIOUS
  <2>. HIDE DEF bad
  <2>1. PICK W \in bad : \A X \in bad : X \subseteq W => X = W
    BY <2>0, SmallestSet
  <2>. USE DEF bad
  <2>2. W \subseteq V /\ IsFiniteSet(W) /\ ~ (Total(Out(W), U) <= Total(b, U) + Total(w, W))
    BY <2>1, <1>0
  <2>3. Total(b, U) \in Nat
    BY TotalNat
  <2>4. W # {}
    <3>. SUFFICES ASSUME W = {} PROVE FALSE
      OBVIOUS
    <3>1. Total(w, {}) = 0
      BY TotalEmpty
    <3>2. \A u \in U : Out(W)[u] = b[u]
      <4>. TAKE u \in U
      <4>1. {x \in W : g[x] = u} = {}
        OBVIOUS
      <4>2. Out(W)[u] = b[u] + Total(w, {x \in W : g[x] = u})
        OBVIOUS
      <4>. QED
        BY <3>1, <4>1, <4>2
    <3>. HIDE DEF Out
    <3>3. Total(Out(W), U) = Total(b, U)
      BY <3>2, TotalSame
    <3>. QED
      BY <2>2, <2>3, <3>1, <3>3
  <2>5. PICK y \in W : TRUE
    BY <2>4
  <2>. DEFINE X == W \ {y}
  <2>6. X \in SUBSET V /\ X \notin bad /\ IsFiniteSet(X) /\ y \notin X /\ X \cup {y} = W
    <3>1. X \in SUBSET V /\ y \notin X /\ X \cup {y} = W /\ X \subseteq W /\ X # W
      BY <2>2, <2>5
    <3>2. X \notin bad
      <4>. HIDE DEF bad, X
      <4>. QED
        BY <2>1, <3>1
    <3>3. IsFiniteSet(X)
      BY <2>2, FS_RemoveElement
    <3>. HIDE DEF bad, X
    <3>. QED
      BY <3>1, <3>2, <3>3
  <2>7. Total(w, W) = Total(w, X) + w[y] /\ w[y] \in Nat
    <3>. HIDE DEF bad, X
    <3>1. IsFiniteSet(X) /\ y \notin X /\ W = X \cup {y}
      BY <2>6
    <3>2. \A x \in X \cup {y} : w[x] \in Nat
      BY <2>2, <3>1
    <3>3. w[y] \in Nat
      BY <3>2
    <3>4. Total(w, X \cup {y}) = Total(w, X) + w[y]
      BY <3>1, <3>2, TotalAdd
    <3>. QED
      BY <3>1, <3>3, <3>4
  <2>8. Total(w, X) \in Nat /\ Total(Out(X), U) \in Nat
    <3>1. \A u \in U : Out(X)[u] \in Nat
      BY <1>0, <2>6
    <3>. HIDE DEF Out
    <3>. QED
      BY <2>6, <3>1, TotalNat
  <2>9. Total(Out(X), U) <= Total(b, U) + Total(w, X)
    BY <2>6
  <2>. HIDE DEF X
  <2>10. \A u \in U : u # g[y] => Out(W)[u] = Out(X)[u]
    <3>. TAKE u \in U
    <3>. HAVE u # g[y]
    <3>1. {x \in W : g[x] = u} = {x \in X : g[x] = u}
      BY <2>6
    <3>. QED
      BY <3>1
  <2>11. CASE g[y] \in U
    <3>. DEFINE u == g[y]
                F == {x \in X : g[x] = u}
    <3>1. IsFiniteSet(F) /\ y \notin F /\ F \cup {y} = {x \in W : g[x] = u}
          /\ \A x \in F \cup {y} : w[x] \in Nat
      BY <2>2, <2>5, <2>6, FS_Subset
    <3>2. Total(w, {x \in W : g[x] = u}) = Total(w, F) + w[y] /\ Total(w, F) \in Nat
      <4>. HIDE DEF F
      <4>1. Total(w, F \cup {y}) = Total(w, F) + w[y] /\ Total(w, F) \in Nat
        BY <3>1, TotalAdd, TotalNat
      <4>. QED
        BY <3>1, <4>1
    <3>3. Out(W)[u] = Out(X)[u] + w[y] /\ b[u] \in Nat
      <4>1. Out(W)[u] = b[u] + Total(w, {x \in W : g[x] = u}) /\ Out(X)[u] = b[u] + Total(w, F)
        BY <2>11
      <4>2. b[u] \in Nat
        BY <2>11
      <4>. HIDE DEF Out, F, u
      <4>. QED
        BY <2>7, <3>2, <4>1, <4>2
    <3>4. /\ u \in U /\ \A v \in U : Out(X)[v] \in Nat
          /\ Out(W)[u] \in Nat /\ \A v \in U \ {u} : Out(W)[v] = Out(X)[v]
      BY <1>0, <2>2, <2>6, <2>10, <2>11
    <3>. HIDE DEF Out, u
    <3>5. Total(Out(W), U) = Total(Out(X), U) + Out(W)[u] - Out(X)[u]
      BY <3>4, TotalUpdate
    <3>6. Out(X)[u] \in Nat
      BY <3>4
    <3>. QED
      BY <2>2, <2>3, <2>7, <2>8, <2>9, <3>3, <3>5, <3>6
  <2>12. CASE g[y] \notin U
    <3>1. \A u \in U : Out(W)[u] = Out(X)[u]
      BY <2>10, <2>12
    <3>. HIDE DEF Out
    <3>2. Total(Out(W), U) = Total(Out(X), U)
      BY <3>1, TotalSame
    <3>. QED
      BY <2>2, <2>3, <2>7, <2>8, <2>9, <3>2
  <2>. QED
    BY <2>11, <2>12
<1>2. Total(Out(V), U) <= Total(b, U) + Total(w, V)
  BY <1>1
<1>3. \A u \in U : Out(V)[u] = c[u]
  BY DEF SharedOut
<1>. HIDE DEF Out
<1>4. Total(Out(V), U) = Total(c, U)
  BY <1>3, TotalSame
<1>. QED
  BY <1>2, <1>4

---------------------------------------------------------------------------------
(* Products and quotients *)

\* A quotient is rounded down, by less than one.
LEMMA DivBounds ==
  ASSUME NEW a \in Nat, NEW n \in Nat \ {0}
  PROVE  a \div n \in Nat /\ n * (a \div n) <= a /\ a < n * (a \div n) + n
OBVIOUS

\* A factor keeps the order of two numbers, and tells it.
LEMMA TimesLe ==
  ASSUME NEW a \in Nat, NEW b \in Nat, NEW c \in Nat, a <= b
  PROVE  c * a <= c * b /\ a * c <= b * c
<1>1. PICK d \in Nat : b = a + d
  <2>1. b - a \in Nat /\ b = a + (b - a)
    OBVIOUS
  <2>. QED
    BY <2>1
<1>2. c * b = c * a + c * d /\ b * c = a * c + d * c /\ c * d \in Nat /\ d * c \in Nat
  BY <1>1
<1>3. c * a \in Nat /\ a * c \in Nat
  OBVIOUS
<1>. QED
  BY <1>2, <1>3

\* A positive factor cancels from an inequality.
LEMMA TimesCancel ==
  ASSUME NEW a \in Nat, NEW b \in Nat, NEW c \in Nat \ {0}, c * a <= c * b
  PROVE  a <= b
<1>. SUFFICES ASSUME a >= b + 1 PROVE FALSE
  OBVIOUS
<1>1. c * (b + 1) <= c * a
  BY TimesLe
<1>2. c * (b + 1) = c * b + c /\ c * b \in Nat /\ c * a \in Nat
  OBVIOUS
<1>. QED
  BY <1>1, <1>2

\* It is the greatest such number.
LEMMA DivGreatest ==
  ASSUME NEW a \in Nat, NEW n \in Nat \ {0}, NEW x \in Nat, n * x <= a
  PROVE  x <= a \div n
<1>. DEFINE d == a \div n
<1>1. d \in Nat /\ a < n * d + n
  BY DivBounds
<1>. HIDE DEF d
<1>. SUFFICES ASSUME d + 1 <= x PROVE FALSE
  BY <1>1 DEF d
<1>2. n * (d + 1) <= n * x
  BY <1>1, TimesLe
<1>3. n * (d + 1) = n * d + n /\ n * d \in Nat /\ n * x \in Nat
  BY <1>1
<1>. QED
  BY <1>1, <1>2, <1>3

\* Rounding the parts loses more than rounding the whole.
LEMMA DivSum ==
  ASSUME NEW a \in Nat, NEW b \in Nat, NEW n \in Nat \ {0}
  PROVE  a \div n + b \div n <= (a + b) \div n
<1>. DEFINE d == a \div n
            e == b \div n
<1>1. d \in Nat /\ n * d <= a /\ e \in Nat /\ n * e <= b
  BY DivBounds
<1>. HIDE DEF d, e
<1>2. n * (d + e) = n * d + n * e /\ n * d \in Nat /\ n * e \in Nat /\ d + e \in Nat
  BY <1>1
<1>3. n * (d + e) <= a + b
  BY <1>1, <1>2
<1>. QED
  BY <1>2, <1>3, DivGreatest DEF d, e

=================================================================================
