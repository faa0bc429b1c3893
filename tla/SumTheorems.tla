---------------------------- MODULE SumTheorems ----------------------------
(***************************************************************************)
(* Facts about SumFunctionOnSet(f, S), the sum of f[x] over the elements x *)
(* of a finite set S.                                                      *)
(*                                                                         *)
(* The community modules define the sum by a fold that takes the elements  *)
(* of S in an order that CHOOSE picks.  The library has no theorem on it,  *)
(* and its induction theorems have an operator as a parameter.  So the     *)
(* induction is on sets: a claim is the set Good of the subsets of S that  *)
(* satisfy it, and the smallest subset outside Good is refuted             *)
(* (FiniteInduction).  From SumRemove on, the fold is not looked at again. *)
(***************************************************************************)
EXTENDS FiniteSetsExt, FiniteSetTheorems, WellFoundedInduction, TLAPS

\* The element that the fold of the community modules takes next.
Pick(s) == CHOOSE x \in s : TRUE

\* The function by which that fold is defined.
IsIter(it, f, S) ==
    it = [s \in SUBSET S |->
            IF s = {} THEN 0 ELSE f[Pick(s)] + it[s \ {Pick(s)}]]

\* It is an element.
LEMMA PickIn == ASSUME NEW s, s # {} PROVE Pick(s) \in s
BY Zenon DEF Pick

\* A set of finite sets that is not empty has a smallest member.
LEMMA SmallestSet ==
  ASSUME NEW S, IsFiniteSet(S), NEW T, T \subseteq SUBSET S, T # {}
  PROVE  \E U \in T : \A V \in SUBSET U : V # U => V \notin T
<1>1. IsWellFoundedOn(StrictSubsetOrdering(S), SUBSET S)
  BY FS_FiniteSubsetsOfFinite, FS_StrictSubsetOrderingWellFounded, Zenon
<1>2. \E U \in T : \A V \in T : ~(<<V, U>> \in StrictSubsetOrdering(S))
  BY <1>1, WFMin, Zenon
<1>3. PICK U \in T : \A V \in T : ~(<<V, U>> \in StrictSubsetOrdering(S))
  BY <1>2
<1>4. ASSUME NEW V \in SUBSET U, V # U, V \in T PROVE FALSE
  <2>1. <<V, U>> \in (SUBSET S) \X (SUBSET S)
    BY <1>4
  <2>2. <<V, U>> \in StrictSubsetOrdering(S)
    BY <1>4, <2>1 DEF StrictSubsetOrdering
  <2> QED BY <1>3, <1>4, <2>2
<1> QED BY <1>4

\* The fold is that function, if there is one.
LEMMA SumIsIter ==
  ASSUME NEW f, NEW S, \E it : IsIter(it, f, S)
  PROVE  \E it : IsIter(it, f, S) /\ SumFunctionOnSet(f, S) = it[S]
<1> DEFINE it == CHOOSE g : IsIter(g, f, S)
<1>1. IsIter(it, f, S)
  BY Zenon
<1>2. SumFunctionOnSet(f, S) = it[S]
  BY Zenon DEF SumFunctionOnSet, FoldFunctionOnSet, MapThenFoldSet, IsIter, Pick
<1> QED BY <1>1, <1>2, Zenon

\* Any two such functions agree: a smallest set on which they differ has none.
LEMMA IterAgree ==
  ASSUME NEW f, NEW A, NEW B, IsFiniteSet(A), NEW i, NEW j, IsIter(i, f, A), IsIter(j, f, B),
         NEW s, s \subseteq A, s \subseteq B
  PROVE  i[s] = j[s]
<1> DEFINE T == {r \in SUBSET (A \cap B) : i[r] # j[r]}
<1>1. SUFFICES ASSUME T # {} PROVE FALSE
  OBVIOUS
<1>2. T \subseteq SUBSET A
  OBVIOUS
<1>3a. \E U \in T : \A V \in SUBSET U : V # U => V \notin T
  <2> HIDE DEF T
  <2> QED BY <1>1, <1>2, SmallestSet, Zenon
<1>3. PICK U \in T : \A V \in SUBSET U : V # U => V \notin T
  BY <1>3a
<1>4. CASE U = {}
  BY <1>3, <1>4 DEF IsIter
<1>5. CASE U # {}
  <2> DEFINE V == U \ {Pick(U)}
  <2>1. Pick(U) \in U
    BY <1>5, PickIn
  <2>2. V \in SUBSET U /\ V # U
    BY <2>1
  <2>3. i[V] = j[V]
    BY <1>3, <2>2
  <2>4. i[U] = f[Pick(U)] + i[V]
    BY <1>5, <1>3 DEF IsIter
  <2>5. j[U] = f[Pick(U)] + j[V]
    BY <1>5, <1>3 DEF IsIter
  <2> QED BY <2>3, <2>4, <2>5, <1>3
<1> QED BY <1>4, <1>5

\* There is one: it is built up from the smaller sets.
LEMMA IterExists ==
  ASSUME NEW f, NEW S, IsFiniteSet(S)
  PROVE  \E it : IsIter(it, f, S)
<1> DEFINE Has(U) == \E it : IsIter(it, f, U)
           T == {U \in SUBSET S : ~Has(U)}
<1>1. SUFFICES ASSUME T # {} PROVE FALSE
  OBVIOUS
<1>a. T \subseteq SUBSET S
  OBVIOUS
<1>b. \E U \in T : \A V \in SUBSET U : V # U => V \notin T
  <2> HIDE DEF T
  <2> QED BY <1>1, <1>a, SmallestSet, Zenon
<1>2. PICK U \in T : \A V \in SUBSET U : V # U => V \notin T
  BY <1>b
<1>3. \A V \in SUBSET U : V # U => Has(V)
  BY <1>2
<1> DEFINE It(V) == CHOOSE it : IsIter(it, f, V)
           Rest(s) == s \ {Pick(s)}
           g == [s \in SUBSET U |-> IF s = {} THEN 0 ELSE f[Pick(s)] + It(Rest(s))[Rest(s)]]
<1>4. ASSUME NEW V \in SUBSET U, V # U PROVE IsIter(It(V), f, V)
  BY <1>3, <1>4, Zenon
<1> HIDE DEF Has, It
<1>5. ASSUME NEW s \in SUBSET U, s # {} PROVE Rest(s) \in SUBSET U /\ Rest(s) # U /\ Rest(s) # s
  BY <1>5, PickIn
<1>6. ASSUME NEW V \in SUBSET U, V # U PROVE g[V] = It(V)[V]
  <2>1. IsIter(It(V), f, V)
    BY <1>4, <1>6
  <2>2. CASE V = {}
    BY <2>1, <2>2 DEF IsIter
  <2>3. CASE V # {}
    <3>1. It(V)[V] = f[Pick(V)] + It(V)[Rest(V)]
      BY <2>1, <2>3 DEF IsIter
    <3>2. g[V] = f[Pick(V)] + It(Rest(V))[Rest(V)]
      BY <2>3
    <3>3. IsIter(It(Rest(V)), f, Rest(V))
      BY <1>4, <1>5, <2>3
    <3>4. IsFiniteSet(V)
      BY FS_Subset, <1>2
    <3>6. It(V)[Rest(V)] = It(Rest(V))[Rest(V)]
      <4> HIDE DEF Rest, T, g
      <4>1. Rest(V) \subseteq V
        BY DEF Rest
      <4>2. It(V)[Rest(V)] = It(Rest(V))[Rest(V)]
        BY <2>1, <3>3, <3>4, <4>1, IterAgree
      <4> QED BY <4>2
    <3> QED BY <3>1, <3>2, <3>6
  <2> QED BY <2>2, <2>3
<1>7. ASSUME NEW s \in SUBSET U
      PROVE  g[s] = IF s = {} THEN 0 ELSE f[Pick(s)] + g[s \ {Pick(s)}]
  <2>1. CASE s = {}
    BY <2>1
  <2>2. CASE s # {}
    <3>1. g[s] = f[Pick(s)] + It(Rest(s))[Rest(s)]
      BY <2>2
    <3>2. g[Rest(s)] = It(Rest(s))[Rest(s)]
      BY <1>5, <1>6, <2>2
    <3> QED BY <3>1, <3>2, <2>2
  <2> QED BY <2>1, <2>2
<1>8. IsIter(g, f, U)
  <2> DEFINE h == [s \in SUBSET U |-> IF s = {} THEN 0 ELSE f[Pick(s)] + g[s \ {Pick(s)}]]
  <2>1. \A s \in SUBSET U : g[s] = h[s]
    BY <1>7
  <2>2. DOMAIN g = SUBSET U /\ DOMAIN h = SUBSET U
    OBVIOUS
  <2>3. g = h
    BY <2>1, <2>2
  <2> QED BY <2>3 DEF IsIter
<1> QED BY <1>8, <1>2 DEF Has

\* The sum over a set, one element at a time.
LEMMA SumEmpty == ASSUME NEW f PROVE SumFunctionOnSet(f, {}) = 0
<1>1. IsFiniteSet({})
  BY FS_EmptySet
<1>2. PICK it : IsIter(it, f, {}) /\ SumFunctionOnSet(f, {}) = it[{}]
  BY <1>1, IterExists, SumIsIter
<1> QED BY <1>2 DEF IsIter

\* Not the empty one: the next element, and the others.
LEMMA SumPick ==
  ASSUME NEW f, NEW S, IsFiniteSet(S), S # {}
  PROVE  SumFunctionOnSet(f, S) = f[Pick(S)] + SumFunctionOnSet(f, S \ {Pick(S)})
<1> DEFINE R == S \ {Pick(S)}
<1>1. IsFiniteSet(R)
  BY FS_Subset
<1>2. PICK i : IsIter(i, f, S) /\ SumFunctionOnSet(f, S) = i[S]
  BY IterExists, SumIsIter
<1>3. PICK j : IsIter(j, f, R) /\ SumFunctionOnSet(f, R) = j[R]
  <2> HIDE DEF R
  <2> QED BY <1>1, IterExists, SumIsIter
<1>4. i[S] = f[Pick(S)] + i[R]
  BY <1>2 DEF IsIter
<1>5. i[R] = j[R]
  <2>1. R \subseteq S
    OBVIOUS
  <2> HIDE DEF R
  <2> QED BY <1>2, <1>3, <2>1, IterAgree
<1> QED BY <1>2, <1>3, <1>4, <1>5

\* A sum of integers is an integer.
LEMMA SumInt ==
  ASSUME NEW f, NEW S, IsFiniteSet(S), \A x \in S : f[x] \in Int
  PROVE  SumFunctionOnSet(f, S) \in Int
<1> DEFINE T == {U \in SUBSET S : SumFunctionOnSet(f, U) \notin Int}
<1>1. SUFFICES ASSUME T # {} PROVE FALSE
  OBVIOUS
<1>2. T \subseteq SUBSET S
  OBVIOUS
<1>3. \E U \in T : \A V \in SUBSET U : V # U => V \notin T
  <2> HIDE DEF T
  <2> QED BY <1>1, <1>2, SmallestSet, Zenon
<1>4. PICK U \in T : \A V \in SUBSET U : V # U => V \notin T
  BY <1>3
<1>5. U # {}
  <2>1. SumFunctionOnSet(f, U) \notin Int
    BY <1>4
  <2>2. SumFunctionOnSet(f, {}) = 0 /\ 0 \in Int
    BY SumEmpty
  <2> QED BY <2>1, <2>2
<1>6. Pick(U) \in U
  BY <1>5, PickIn
<1>7. IsFiniteSet(U)
  BY FS_Subset
<1>8. SumFunctionOnSet(f, U) = f[Pick(U)] + SumFunctionOnSet(f, U \ {Pick(U)})
  BY <1>5, <1>7, SumPick
<1>9. SumFunctionOnSet(f, U \ {Pick(U)}) \in Int
  BY <1>4, <1>6
<1> QED BY <1>4, <1>6, <1>8, <1>9

\* The order does not matter: any element may be taken out first.
LEMMA SumRemove ==
  ASSUME NEW f, NEW S, IsFiniteSet(S), \A x \in S : f[x] \in Int, NEW x \in S
  PROVE  SumFunctionOnSet(f, S) = f[x] + SumFunctionOnSet(f, S \ {x})
<1> DEFINE P(U) == \A y \in U : SumFunctionOnSet(f, U) = f[y] + SumFunctionOnSet(f, U \ {y})
           T == {U \in SUBSET S : ~P(U)}
<1>1. SUFFICES ASSUME T # {} PROVE FALSE
  OBVIOUS
<1>2. T \subseteq SUBSET S
  OBVIOUS
<1>3. \E U \in T : \A V \in SUBSET U : V # U => V \notin T
  <2> HIDE DEF T
  <2> QED BY <1>1, <1>2, SmallestSet, Zenon
<1>4. PICK U \in T : \A V \in SUBSET U : V # U => V \notin T
  BY <1>3
<1>5. PICK y \in U : SumFunctionOnSet(f, U) # f[y] + SumFunctionOnSet(f, U \ {y})
  BY <1>4
<1>6. \A V \in SUBSET U : V # U => P(V)
  BY <1>4
<1> DEFINE p == Pick(U)
<1>7. p \in U /\ U # {}
  BY <1>5, PickIn
<1>8. IsFiniteSet(U) /\ IsFiniteSet(U \ {y}) /\ IsFiniteSet(U \ {p, y}) /\ IsFiniteSet(U \ {p})
  BY FS_Subset
<1>9. SumFunctionOnSet(f, U) = f[p] + SumFunctionOnSet(f, U \ {p})
  BY <1>7, <1>8, SumPick
<1> HIDE DEF p, T
<1>10. p # y
  BY <1>5, <1>9
<1>11. /\ P(U \ {p}) /\ P(U \ {y})
  BY <1>5, <1>6, <1>7
<1>12. SumFunctionOnSet(f, U \ {p}) = f[y] + SumFunctionOnSet(f, (U \ {p}) \ {y})
  BY <1>5, <1>10, <1>11
<1>13. SumFunctionOnSet(f, U \ {y}) = f[p] + SumFunctionOnSet(f, (U \ {y}) \ {p})
  BY <1>7, <1>10, <1>11
<1>14. (U \ {y}) \ {p} = U \ {p, y} /\ (U \ {p}) \ {y} = U \ {p, y}
  OBVIOUS
<1>15. U \in SUBSET S
  BY <1>4 DEF T
<1>16. SumFunctionOnSet(f, U \ {p, y}) \in Int
  BY <1>8, <1>15, SumInt
<1>17. f[p] \in Int /\ f[y] \in Int
  BY <1>5, <1>7, <1>15
<1> DEFINE r == SumFunctionOnSet(f, U \ {p, y})
<1>18. /\ SumFunctionOnSet(f, U \ {p}) = f[y] + r
       /\ SumFunctionOnSet(f, U \ {y}) = f[p] + r
       /\ r \in Int
  BY <1>12, <1>13, <1>14, <1>16, Zenon
<1> HIDE DEF r
<1> QED BY <1>5, <1>9, <1>18, <1>17

\* An element is added.
LEMMA SumAdd ==
  ASSUME NEW f, NEW S, IsFiniteSet(S), NEW x, x \notin S,
         \A y \in S \cup {x} : f[y] \in Int
  PROVE  SumFunctionOnSet(f, S \cup {x}) = f[x] + SumFunctionOnSet(f, S)
<1>1. IsFiniteSet(S \cup {x})
  BY FS_AddElement
<1>2. (S \cup {x}) \ {x} = S
  OBVIOUS
<1>3. x \in S \cup {x}
  OBVIOUS
<1> DEFINE R == S \cup {x}
<1> HIDE DEF R
<1>4. SumFunctionOnSet(f, R) = f[x] + SumFunctionOnSet(f, R \ {x})
  BY <1>1, <1>3, SumRemove DEF R
<1> QED BY <1>2, <1>4 DEF R

\* Induction on a finite set: Good is the set of the subsets of S for which the claim holds.
LEMMA FiniteInduction ==
  ASSUME NEW S, IsFiniteSet(S), NEW Good, {} \in Good,
         \A U \in Good : \A x \in S \ U : U \subseteq S => U \cup {x} \in Good
  PROVE  S \in Good
<1> DEFINE T == (SUBSET S) \ Good
<1>1. SUFFICES ASSUME S \notin Good PROVE FALSE
  OBVIOUS
<1>2. T \subseteq SUBSET S /\ T # {}
  BY <1>1
<1>3. \E U \in T : \A V \in SUBSET U : V # U => V \notin T
  <2> HIDE DEF T
  <2> QED BY <1>2, SmallestSet, Zenon
<1>4. PICK U \in T : \A V \in SUBSET U : V # U => V \notin T
  BY <1>3
<1>5. PICK x : x \in U
  BY <1>4
<1>6. U \ {x} \in Good
  BY <1>4, <1>5
<1>7. (U \ {x}) \cup {x} \in Good
  BY <1>4, <1>5, <1>6
<1>8. (U \ {x}) \cup {x} = U
  BY <1>5
<1> QED BY <1>4, <1>7, <1>8

\* Functions that agree have the same sum.
LEMMA SumEq ==
  ASSUME NEW f, NEW g, NEW S, IsFiniteSet(S), \A x \in S : f[x] \in Int /\ f[x] = g[x]
  PROVE  SumFunctionOnSet(f, S) = SumFunctionOnSet(g, S)
<1> DEFINE Good == {U \in SUBSET S : SumFunctionOnSet(f, U) = SumFunctionOnSet(g, U)}
<1>1. {} \in Good
  BY SumEmpty
<1>2. ASSUME NEW U \in Good, NEW x \in S \ U PROVE U \cup {x} \in Good
  <2>1. IsFiniteSet(U)
    BY FS_Subset
  <2>2. SumFunctionOnSet(f, U \cup {x}) = f[x] + SumFunctionOnSet(f, U)
    BY <2>1, SumAdd
  <2>3. SumFunctionOnSet(g, U \cup {x}) = g[x] + SumFunctionOnSet(g, U)
    BY <2>1, SumAdd
  <2> QED BY <2>2, <2>3
<1>3. S \in Good
  <2> HIDE DEF Good
  <2> QED BY <1>1, <1>2, FiniteInduction
<1> QED BY <1>3

\* The sum is monotonic.
LEMMA SumLe ==
  ASSUME NEW f, NEW g, NEW S, IsFiniteSet(S),
         \A x \in S : f[x] \in Int /\ g[x] \in Int /\ f[x] <= g[x]
  PROVE  SumFunctionOnSet(f, S) <= SumFunctionOnSet(g, S)
<1> DEFINE Good == {U \in SUBSET S : SumFunctionOnSet(f, U) <= SumFunctionOnSet(g, U)}
<1>1. {} \in Good
  BY SumEmpty
<1>2. ASSUME NEW U \in Good, NEW x \in S \ U PROVE U \cup {x} \in Good
  <2>1. IsFiniteSet(U)
    BY FS_Subset
  <2>2. SumFunctionOnSet(f, U \cup {x}) = f[x] + SumFunctionOnSet(f, U)
    BY <2>1, SumAdd
  <2>3. SumFunctionOnSet(g, U \cup {x}) = g[x] + SumFunctionOnSet(g, U)
    BY <2>1, SumAdd
  <2>4. SumFunctionOnSet(f, U) \in Int /\ SumFunctionOnSet(g, U) \in Int
    BY <2>1, SumInt
  <2> QED BY <2>2, <2>3, <2>4
<1>3. S \in Good
  <2> HIDE DEF Good
  <2> QED BY <1>1, <1>2, FiniteInduction
<1> QED BY <1>3

\* The sum of a sum.
LEMMA SumPlus ==
  ASSUME NEW f, NEW g, NEW h, NEW S, IsFiniteSet(S),
         \A x \in S : f[x] \in Int /\ g[x] \in Int /\ h[x] = f[x] + g[x]
  PROVE  SumFunctionOnSet(h, S) = SumFunctionOnSet(f, S) + SumFunctionOnSet(g, S)
<1> DEFINE Good == {U \in SUBSET S :
              SumFunctionOnSet(h, U) = SumFunctionOnSet(f, U) + SumFunctionOnSet(g, U)}
<1>1. {} \in Good
  BY SumEmpty
<1>2. ASSUME NEW U \in Good, NEW x \in S \ U PROVE U \cup {x} \in Good
  <2>1. IsFiniteSet(U)
    BY FS_Subset
  <2>2. SumFunctionOnSet(f, U \cup {x}) = f[x] + SumFunctionOnSet(f, U)
    BY <2>1, SumAdd
  <2>3. SumFunctionOnSet(g, U \cup {x}) = g[x] + SumFunctionOnSet(g, U)
    BY <2>1, SumAdd
  <2>4. SumFunctionOnSet(h, U \cup {x}) = h[x] + SumFunctionOnSet(h, U)
    BY <2>1, SumAdd
  <2>5. SumFunctionOnSet(f, U) \in Int /\ SumFunctionOnSet(g, U) \in Int
    BY <2>1, SumInt
  <2> QED BY <2>2, <2>3, <2>4, <2>5
<1>3. S \in Good
  <2> HIDE DEF Good
  <2> QED BY <1>1, <1>2, FiniteInduction
<1> QED BY <1>3

\* What is zero does not count.
LEMMA SumSupport ==
  ASSUME NEW f, NEW S, IsFiniteSet(S), NEW C, C \subseteq S,
         \A x \in S : f[x] \in Int, \A x \in S \ C : f[x] = 0
  PROVE  SumFunctionOnSet(f, S) = SumFunctionOnSet(f, C)
<1> DEFINE Good == {U \in SUBSET S : SumFunctionOnSet(f, U) = SumFunctionOnSet(f, U \cap C)}
<1>1. {} \in Good
  OBVIOUS
<1>2. ASSUME NEW U \in Good, NEW x \in S \ U PROVE U \cup {x} \in Good
  <2>1. IsFiniteSet(U) /\ IsFiniteSet(U \cap C)
    BY FS_Subset
  <2>2. SumFunctionOnSet(f, U \cup {x}) = f[x] + SumFunctionOnSet(f, U)
    BY <2>1, SumAdd
  <2>3. SumFunctionOnSet(f, U) \in Int
    BY <2>1, SumInt
  <2>4. CASE x \in C
    <3>1. SumFunctionOnSet(f, (U \cap C) \cup {x}) = f[x] + SumFunctionOnSet(f, U \cap C)
      BY <2>1, SumAdd
    <3>2. (U \cap C) \cup {x} = (U \cup {x}) \cap C
      BY <2>4
    <3> QED BY <2>2, <3>1, <3>2
  <2>5. CASE x \notin C
    <3>1. (U \cup {x}) \cap C = U \cap C
      BY <2>5
    <3>2. f[x] = 0
      BY <2>5
    <3>3. SumFunctionOnSet(f, U \cup {x}) = SumFunctionOnSet(f, U)
      BY <2>2, <2>3, <3>2
    <3>4. SumFunctionOnSet(f, U \cup {x}) = SumFunctionOnSet(f, (U \cup {x}) \cap C)
      BY <3>1, <3>3, Zenon
    <3> QED BY <3>4
  <2> QED BY <2>4, <2>5
<1>3. S \in Good
  <2> HIDE DEF Good
  <2> QED BY <1>1, <1>2, FiniteInduction
<1>4. S \cap C = C
  OBVIOUS
<1> QED BY <1>3, <1>4

\* A sum of terms that are at most m.
LEMMA SumBound ==
  ASSUME NEW f, NEW S, IsFiniteSet(S), NEW m \in Nat, \A x \in S : f[x] \in 0 .. m
  PROVE  SumFunctionOnSet(f, S) \in 0 .. m * Cardinality(S)
<1> DEFINE Good == {U \in SUBSET S : SumFunctionOnSet(f, U) \in 0 .. m * Cardinality(U)}
<1>1. {} \in Good
  BY SumEmpty, FS_EmptySet
<1>2. ASSUME NEW U \in Good, NEW x \in S \ U PROVE U \cup {x} \in Good
  <2>1. IsFiniteSet(U)
    BY FS_Subset
  <2>2. SumFunctionOnSet(f, U \cup {x}) = f[x] + SumFunctionOnSet(f, U)
    BY <2>1, SumAdd
  <2>3. SumFunctionOnSet(f, U) \in Int
    BY <2>1, SumInt
  <2>4. Cardinality(U \cup {x}) = Cardinality(U) + 1 /\ Cardinality(U) \in Nat
    BY <2>1, FS_AddElement, FS_CardinalityType
  <2>5. m * (Cardinality(U) + 1) = m * Cardinality(U) + m /\ m * Cardinality(U) \in Nat
    BY <2>4
  <2> DEFINE c == m * Cardinality(U)
  <2> HIDE DEF c
  <2>6. f[x] \in 0 .. m /\ SumFunctionOnSet(f, U) \in 0 .. c /\ c \in Nat
    BY <2>5 DEF c
  <2>7. f[x] + SumFunctionOnSet(f, U) \in 0 .. c + m
    BY <2>6
  <2> QED BY <2>2, <2>4, <2>5, <2>7 DEF c
<1>3. S \in Good
  <2> HIDE DEF Good
  <2> QED BY <1>1, <1>2, FiniteInduction
<1> QED BY <1>3

\* A sum of ones is a cardinality.
LEMMA SumOnes ==
  ASSUME NEW f, NEW S, IsFiniteSet(S), \A x \in S : f[x] = 1
  PROVE  SumFunctionOnSet(f, S) = Cardinality(S)
<1> DEFINE Good == {U \in SUBSET S : SumFunctionOnSet(f, U) = Cardinality(U)}
<1>1. {} \in Good
  BY SumEmpty, FS_EmptySet
<1>2. ASSUME NEW U \in Good, NEW x \in S \ U PROVE U \cup {x} \in Good
  <2>1. IsFiniteSet(U)
    BY FS_Subset
  <2>2. SumFunctionOnSet(f, U \cup {x}) = f[x] + SumFunctionOnSet(f, U)
    BY <2>1, SumAdd
  <2>3. Cardinality(U \cup {x}) = Cardinality(U) + 1 /\ Cardinality(U) \in Nat
    BY <2>1, FS_AddElement, FS_CardinalityType
  <2> QED BY <2>2, <2>3
<1>3. S \in Good
  <2> HIDE DEF Good
  <2> QED BY <1>1, <1>2, FiniteInduction
<1> QED BY <1>3

\* One term changes.
LEMMA SumUpdate ==
  ASSUME NEW f, NEW g, NEW S, IsFiniteSet(S), NEW x \in S,
         \A y \in S : f[y] \in Int /\ g[y] \in Int,
         \A y \in S \ {x} : g[y] = f[y]
  PROVE  SumFunctionOnSet(g, S) = SumFunctionOnSet(f, S) - f[x] + g[x]
<1> DEFINE R == S \ {x}
<1>1. IsFiniteSet(R)
  BY FS_Subset
<1>2. SumFunctionOnSet(g, R) = SumFunctionOnSet(f, R)
  BY <1>1, SumEq
<1>3. SumFunctionOnSet(f, R) \in Int
  BY <1>1, SumInt
<1>4. SumFunctionOnSet(f, S) = f[x] + SumFunctionOnSet(f, R)
  BY SumRemove
<1>5. SumFunctionOnSet(g, S) = g[x] + SumFunctionOnSet(g, R)
  BY SumRemove
<1> HIDE DEF R
<1> QED BY <1>2, <1>3, <1>4, <1>5

\* The difference of two sums is at least that of two of their terms.
LEMMA SumGap ==
  ASSUME NEW f, NEW g, NEW S, IsFiniteSet(S), NEW x \in S,
         \A y \in S : f[y] \in Int /\ g[y] \in Int /\ f[y] <= g[y]
  PROVE  g[x] - f[x] <= SumFunctionOnSet(g, S) - SumFunctionOnSet(f, S)
<1> DEFINE R == S \ {x}
<1>1. IsFiniteSet(R)
  BY FS_Subset
<1>2. SumFunctionOnSet(f, R) <= SumFunctionOnSet(g, R)
  BY <1>1, SumLe
<1>3. SumFunctionOnSet(f, R) \in Int /\ SumFunctionOnSet(g, R) \in Int
  BY <1>1, SumInt
<1>4. SumFunctionOnSet(f, S) = f[x] + SumFunctionOnSet(f, R)
  BY SumRemove
<1>5. SumFunctionOnSet(g, S) = g[x] + SumFunctionOnSet(g, R)
  BY SumRemove
<1> HIDE DEF R
<1> QED BY <1>2, <1>3, <1>4, <1>5

\* A sum that is not zero has a term that is not.
LEMMA SumZero ==
  ASSUME NEW f, NEW S, IsFiniteSet(S), \A x \in S : f[x] = 0
  PROVE  SumFunctionOnSet(f, S) = 0
<1>1. SumFunctionOnSet(f, S) = SumFunctionOnSet(f, {})
  BY SumSupport
<1> QED BY <1>1, SumEmpty

\* A sum of one term.
LEMMA SumOne ==
  ASSUME NEW f, NEW x, f[x] \in Int
  PROVE  SumFunctionOnSet(f, {x}) = f[x]
<1>1. IsFiniteSet({}) /\ x \notin {}
  BY FS_EmptySet
<1>2. SumFunctionOnSet(f, {} \cup {x}) = f[x] + SumFunctionOnSet(f, {})
  BY <1>1, SumAdd
<1>3. {} \cup {x} = {x}
  OBVIOUS
<1> QED BY <1>2, <1>3, SumEmpty

\* A term of a sum of natural numbers is at most the sum.
LEMMA SumTerm ==
  ASSUME NEW f, NEW S, IsFiniteSet(S), \A y \in S : f[y] \in Nat, NEW x \in S
  PROVE  f[x] <= SumFunctionOnSet(f, S)
<1> DEFINE R == S \ {x}
           z == [y \in S |-> 0]
<1>1. IsFiniteSet(R)
  BY FS_Subset
<1>2. SumFunctionOnSet(z, R) = 0
  BY <1>1, SumZero
<1>3. SumFunctionOnSet(z, R) <= SumFunctionOnSet(f, R)
  BY <1>1, SumLe
<1>4. SumFunctionOnSet(f, R) \in Int
  BY <1>1, SumInt
<1>5. SumFunctionOnSet(f, S) = f[x] + SumFunctionOnSet(f, R)
  BY SumRemove
<1> HIDE DEF R, z
<1> QED BY <1>2, <1>3, <1>4, <1>5

\* The sum over a set is that of the sums over the classes of a partition.
LEMMA SumOfClasses ==
  ASSUME NEW f, NEW S, IsFiniteSet(S), \A x \in S : f[x] \in Int,
         NEW B, IsFiniteSet(B), NEW h, \A x \in S : h[x] \in B
  PROVE  SumFunctionOnSet([b \in B |-> SumFunctionOnSet(f, {x \in S : h[x] = b})], B)
           = SumFunctionOnSet(f, S)
<1> DEFINE Class(b) == {x \in S : h[x] = b}
           g == [b \in B |-> SumFunctionOnSet(f, Class(b))]
           F(U) == [x \in S |-> IF h[x] \in U THEN f[x] ELSE 0]
           G == {U \in SUBSET B : SumFunctionOnSet(g, U) = SumFunctionOnSet(F(U), S)}
<1>1. \A b \in B : IsFiniteSet(Class(b)) /\ g[b] \in Int
  <2> TAKE b \in B
  <2>1. IsFiniteSet(Class(b))
    BY FS_Subset
  <2>2. SumFunctionOnSet(f, Class(b)) \in Int
    BY <2>1, SumInt
  <2> QED BY <2>1, <2>2
<1>2. {} \in G
  <2>1. \A x \in S : F({})[x] = 0
    OBVIOUS
  <2>2. SumFunctionOnSet(F({}), S) = 0
    <3> HIDE DEF F
    <3> QED BY <2>1, SumZero
  <2>3. SumFunctionOnSet(g, {}) = 0
    BY SumEmpty
  <2> QED BY <2>2, <2>3
<1>3. ASSUME NEW U \in G, NEW b \in B \ U PROVE U \cup {b} \in G
  <2> DEFINE c == [x \in S |-> IF h[x] = b THEN f[x] ELSE 0]
             k == F(U)
             l == F(U \cup {b})
  <2>1. IsFiniteSet(U)
    BY FS_Subset
  <2>2. SumFunctionOnSet(g, U \cup {b}) = g[b] + SumFunctionOnSet(g, U)
    <3>1. \A y \in U \cup {b} : g[y] \in Int
      BY <1>1
    <3> HIDE DEF g
    <3> QED BY <2>1, <3>1, SumAdd
  <2>3. \A x \in S : k[x] \in Int /\ c[x] \in Int /\ l[x] = k[x] + c[x]
    <3> TAKE x \in S
    <3>1. f[x] \in Int
      OBVIOUS
    <3>2. CASE h[x] = b
      BY <3>1, <3>2
    <3>3. CASE h[x] # b
      BY <3>1, <3>3
    <3> QED BY <3>2, <3>3
  <2>4. \A x \in Class(b) : c[x] = f[x] /\ f[x] \in Int
    OBVIOUS
  <2>5. (\A x \in S \ Class(b) : c[x] = 0) /\ Class(b) \subseteq S
    OBVIOUS
  <2> HIDE DEF k, l, c, Class
  <2>6. SumFunctionOnSet(l, S) = SumFunctionOnSet(k, S) + SumFunctionOnSet(c, S)
    BY <2>3, SumPlus
  <2>7. SumFunctionOnSet(c, S) = SumFunctionOnSet(c, Class(b))
    BY <2>3, <2>5, SumSupport
  <2>8. SumFunctionOnSet(c, Class(b)) = SumFunctionOnSet(f, Class(b))
    <3>1. IsFiniteSet(Class(b))
      BY <1>1
    <3> QED BY <3>1, <2>4, SumEq
  <2>9. g[b] = SumFunctionOnSet(f, Class(b)) /\ g[b] \in Int
    BY <1>1
  <2>10. SumFunctionOnSet(k, S) \in Int
    BY <2>3, SumInt
  <2>11. SumFunctionOnSet(g, U) = SumFunctionOnSet(k, S)
    BY DEF k
  <2> HIDE DEF g
  <2>12. SumFunctionOnSet(g, U \cup {b}) = SumFunctionOnSet(l, S)
    BY <2>2, <2>6, <2>7, <2>8, <2>9, <2>10, <2>11
  <2> QED BY <2>12 DEF l
<1>4. B \in G
  <2> HIDE DEF G
  <2> QED BY <1>2, <1>3, FiniteInduction
<1>5. SumFunctionOnSet(F(B), S) = SumFunctionOnSet(f, S)
  <2>1. \A x \in S : F(B)[x] \in Int /\ F(B)[x] = f[x]
    OBVIOUS
  <2> HIDE DEF F
  <2> QED BY <2>1, SumEq
<1>6. SumFunctionOnSet(g, B) = SumFunctionOnSet(f, S)
  BY <1>4, <1>5
<1> QED BY <1>6

\* The smaller of two integers.
LEMMA MinPair ==
  ASSUME NEW a \in Int, NEW b \in Int
  PROVE  Min({a, b}) = IF a <= b THEN a ELSE b
<1> DEFINE m == IF a <= b THEN a ELSE b
<1>1. m \in {a, b} /\ \A y \in {a, b} : m <= y
  OBVIOUS
<1>2. \A x \in {a, b} : (\A y \in {a, b} : x <= y) => x = m
  OBVIOUS
<1> HIDE DEF m
<1>3. Min({a, b}) = m
  BY <1>1, <1>2, Zenon DEF Min
<1> QED BY <1>3 DEF m

\* The larger of two integers.
LEMMA MaxPair ==
  ASSUME NEW a \in Int, NEW b \in Int
  PROVE  Max({a, b}) = IF a <= b THEN b ELSE a
<1> DEFINE m == IF a <= b THEN b ELSE a
<1>1. m \in {a, b} /\ \A y \in {a, b} : m >= y
  OBVIOUS
<1>2. \A x \in {a, b} : (\A y \in {a, b} : x >= y) => x = m
  OBVIOUS
<1> HIDE DEF m
<1>3. Max({a, b}) = m
  BY <1>1, <1>2, Zenon DEF Max
<1> QED BY <1>3 DEF m
=============================================================================
