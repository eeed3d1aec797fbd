---------------------------- MODULE SumTheorems ----------------------------
(***************************************************************************)
(* Facts about SumFunctionOnSet(f, S), the sum of f[x] for x in the finite *)
(* set S.  The models add up on-hand quantities, batch balances, payments  *)
(* and ledger lines with it, as the code does with sum() and Sum().        *)
(*                                                                         *)
(* The sum is a fold that removes one element at a time.  That the         *)
(* recursion defines a function is proved here from well-foundedness of    *)
(* strict inclusion: a smallest set on which a fact fails cannot exist.    *)
(***************************************************************************)
EXTENDS Integers, Functions, FiniteSets, FiniteSetTheorems,
        WellFoundedInduction, TLAPS

Pick(s) == CHOOSE x \in s : TRUE
FoldStep(f, g, s) == IF s = {} THEN 0 ELSE f[Pick(s)] + g[s \ {Pick(s)}]

\* g is the fold of f on every subset of s.
Folds1(f, g, s) == g = [u \in SUBSET s |-> FoldStep(f, g, u)]
Fold1(f, S) == CHOOSE g : Folds1(f, g, S)

\* The fold the library evaluates is Fold1.
LEMMA SumIsFold ==
    ASSUME NEW f, NEW S PROVE SumFunctionOnSet(f, S) = Fold1(f, S)[S]
BY DEF SumFunctionOnSet, FoldFunctionOnSet, MapThenFoldSet, Fold1, Folds1, FoldStep, Pick

LEMMA PickInSet == ASSUME NEW s, s # {} PROVE Pick(s) \in s
BY DEF Pick

\* Every nonempty set of subsets of a finite set has a smallest member.
LEMMA SmallestSubset ==
    ASSUME NEW S, IsFiniteSet(S), NEW T, T \subseteq SUBSET S, T # {}
    PROVE  \E u \in T : \A x \in u : u \ {x} \notin T
<1>1. IsWellFoundedOn(StrictSubsetOrdering(S), SUBSET S)
  BY FS_StrictSubsetOrderingWellFounded, FS_FiniteSubsetsOfFinite
<1>2. PICK u \in T : \A y \in T : ~ (<<y, u>> \in StrictSubsetOrdering(S))
  BY <1>1, WFMin
<1>3. ASSUME NEW x \in u, u \ {x} \in T PROVE FALSE
  <2>1. <<u \ {x}, u>> \in StrictSubsetOrdering(S)
    BY <1>3 DEF StrictSubsetOrdering
  <2>. QED BY <1>2, <1>3, <2>1
<1>. QED BY <1>2, <1>3

\* Two folds of the same function agree where both are defined.
LEMMA FoldUnique ==
    ASSUME NEW S, IsFiniteSet(S), NEW f, NEW s \in SUBSET S, NEW t \in SUBSET S,
           NEW g, NEW h, Folds1(f, g, s), Folds1(f, h, t)
    PROVE  \A u \in SUBSET (s \cap t) : g[u] = h[u]
<1> DEFINE T == {u \in SUBSET (s \cap t) : g[u] # h[u]}
<1>1. SUFFICES ASSUME T # {} PROVE FALSE
  OBVIOUS
<1>2. T \subseteq SUBSET S
  OBVIOUS
<1>3. PICK u \in T : \A x \in u : u \ {x} \notin T
  BY <1>1, <1>2, SmallestSubset, ZenonT(60)
<1>4. g[u] = FoldStep(f, g, u) /\ h[u] = FoldStep(f, h, u)
  BY DEF Folds1
<1>5. u # {}
  BY <1>4 DEF FoldStep
<1>6. Pick(u) \in u
  BY <1>5, PickInSet
<1>7. g[u \ {Pick(u)}] = h[u \ {Pick(u)}]
  BY <1>3, <1>6
<1>. QED BY <1>4, <1>5, <1>7 DEF FoldStep

\* The fold exists on every subset of a finite set.
LEMMA FoldExists ==
    ASSUME NEW S, IsFiniteSet(S), NEW f
    PROVE  \A s \in SUBSET S : \E g : Folds1(f, g, s)
<1> DEFINE T == {s \in SUBSET S : ~ \E g : Folds1(f, g, s)}
<1>1. SUFFICES ASSUME T # {} PROVE FALSE
  OBVIOUS
<1>2. T \subseteq SUBSET S
  OBVIOUS
<1>3. PICK s \in T : \A x \in s : s \ {x} \notin T
  BY <1>1, <1>2, SmallestSubset
<1> DEFINE H(v) == CHOOSE h : Folds1(f, h, v)
<1>4. \A x \in s : Folds1(f, H(s \ {x}), s \ {x})
  BY <1>3
<1> DEFINE below(u) == CHOOSE x \in s : x \notin u
           value(u) == IF u = s THEN 0 ELSE H(s \ {below(u)})[u]
           g == [u \in SUBSET s |->
                    IF u = {} THEN 0 ELSE f[Pick(u)] + value(u \ {Pick(u)})]
<1>5. ASSUME NEW u \in SUBSET s, u # s
      PROVE  below(u) \in s /\ below(u) \notin u /\ u \in SUBSET (s \ {below(u)})
  BY <1>5
<1> HIDE DEF H, below
<1>6. ASSUME NEW u \in SUBSET s, u # s PROVE g[u] = value(u)
  <2>1. Folds1(f, H(s \ {below(u)}), s \ {below(u)})
    BY <1>4, <1>5, <1>6
  <2>2. value(u) = FoldStep(f, H(s \ {below(u)}), u)
    BY <2>1, <1>5, <1>6 DEF Folds1
  <2>3. CASE u = {}
    BY <2>2, <2>3 DEF FoldStep
  <2>4. CASE u # {}
    <3> DEFINE r == u \ {Pick(u)}
    <3>1. Pick(u) \in u
      BY <2>4, PickInSet
    <3>2. r \in SUBSET s /\ r # s
      BY <3>1
    <3>3. Folds1(f, H(s \ {below(r)}), s \ {below(r)}) /\ r \in SUBSET (s \ {below(r)})
      BY <1>4, <1>5, <3>2
    <3>4. H(s \ {below(r)})[r] = H(s \ {below(u)})[r]
      <4>1. r \in SUBSET ((s \ {below(r)}) \cap (s \ {below(u)}))
        BY <3>3, <1>5, <1>6
      <4>2. s \ {below(r)} \in SUBSET S /\ s \ {below(u)} \in SUBSET S
        OBVIOUS
      <4> HIDE DEF T, g, value, r
      <4>3. \A z \in SUBSET ((s \ {below(r)}) \cap (s \ {below(u)})) :
               H(s \ {below(r)})[z] = H(s \ {below(u)})[z]
        BY <4>2, <3>3, <2>1, FoldUnique
      <4>. QED BY <4>1, <4>3
    <3>5. value(r) = H(s \ {below(u)})[r]
      BY <3>2, <3>4
    <3>. QED BY <2>2, <2>4, <3>5 DEF FoldStep
  <2>. QED BY <2>3, <2>4
<1>7. ASSUME NEW u \in SUBSET s PROVE g[u] = FoldStep(f, g, u)
  <2>1. CASE u = {}
    BY <2>1 DEF FoldStep
  <2>2. CASE u # {}
    <3>1. Pick(u) \in u
      BY <2>2, PickInSet
    <3>2. u \ {Pick(u)} \in SUBSET s /\ u \ {Pick(u)} # s
      BY <3>1
    <3>3. g[u \ {Pick(u)}] = value(u \ {Pick(u)})
      BY <3>2, <1>6
    <3>. QED BY <2>2, <3>3 DEF FoldStep
  <2>. QED BY <2>1, <2>2
<1>8. Folds1(f, g, s)
  BY <1>7 DEF Folds1
<1>. QED BY <1>8

LEMMA Fold1IsFold ==
    ASSUME NEW S, IsFiniteSet(S), NEW f
    PROVE  Folds1(f, Fold1(f, S), S)
<1>1. \E g : Folds1(f, g, S)
  BY FoldExists
<1>. QED BY <1>1 DEF Fold1

\* The recursion equations of the sum.
LEMMA SumEmpty == ASSUME NEW f PROVE SumFunctionOnSet(f, {}) = 0
<1>1. Folds1(f, Fold1(f, {}), {})
  BY Fold1IsFold, FS_EmptySet
<1>2. Fold1(f, {})[{}] = 0
  BY <1>1 DEF Folds1, FoldStep
<1>. QED BY <1>2, SumIsFold

LEMMA SumPick ==
    ASSUME NEW S, IsFiniteSet(S), S # {}, NEW f
    PROVE  SumFunctionOnSet(f, S) = f[Pick(S)] + SumFunctionOnSet(f, S \ {Pick(S)})
<1> DEFINE R == S \ {Pick(S)}
<1>1. Pick(S) \in S
  BY PickInSet
<1>2. IsFiniteSet(R) /\ R \in SUBSET S /\ S \in SUBSET S
  BY FS_Subset
<1>3. Folds1(f, Fold1(f, S), S) /\ Folds1(f, Fold1(f, R), R)
  BY <1>2, Fold1IsFold
<1>4. Fold1(f, S)[S] = f[Pick(S)] + Fold1(f, S)[R]
  BY <1>3 DEF Folds1, FoldStep
<1>5. R \in SUBSET (S \cap R)
  OBVIOUS
<1> HIDE DEF R
<1>6. \A u \in SUBSET (S \cap R) : Fold1(f, S)[u] = Fold1(f, R)[u]
  BY <1>2, <1>3, FoldUnique
<1>7. Fold1(f, S)[R] = Fold1(f, R)[R]
  BY <1>5, <1>6
<1>8. SumFunctionOnSet(f, S) = Fold1(f, S)[S] /\ SumFunctionOnSet(f, R) = Fold1(f, R)[R]
  BY SumIsFold
<1>. QED BY <1>4, <1>7, <1>8 DEF R

----------------------------------------------------------------------------
(* What follows uses SumEmpty and SumPick only.  Each is proved on the     *)
(* smallest subset it could fail on.                                       *)

LEMMA SumInt ==
    ASSUME NEW S, IsFiniteSet(S), NEW f, \A x \in S : f[x] \in Int
    PROVE  SumFunctionOnSet(f, S) \in Int
<1> DEFINE T == {s \in SUBSET S : SumFunctionOnSet(f, s) \notin Int}
<1>1. SUFFICES ASSUME T # {} PROVE FALSE
  OBVIOUS
<1>2. PICK s \in T : \A x \in s : s \ {x} \notin T
  BY <1>1, SmallestSubset
<1>3. IsFiniteSet(s)
  BY FS_Subset
<1>4. s # {}
  BY SumEmpty
<1>5. Pick(s) \in s
  BY <1>4, PickInSet
<1>6. SumFunctionOnSet(f, s \ {Pick(s)}) \in Int
  BY <1>2, <1>5
<1>7. SumFunctionOnSet(f, s) = f[Pick(s)] + SumFunctionOnSet(f, s \ {Pick(s)})
  BY <1>3, <1>4, SumPick
<1>. QED BY <1>5, <1>6, <1>7

LEMMA SumNat ==
    ASSUME NEW S, IsFiniteSet(S), NEW f, \A x \in S : f[x] \in Nat
    PROVE  SumFunctionOnSet(f, S) \in Nat
<1> DEFINE T == {s \in SUBSET S : SumFunctionOnSet(f, s) \notin Nat}
<1>1. SUFFICES ASSUME T # {} PROVE FALSE
  OBVIOUS
<1>2. PICK s \in T : \A x \in s : s \ {x} \notin T
  BY <1>1, SmallestSubset
<1>3. IsFiniteSet(s)
  BY FS_Subset
<1>4. s # {}
  BY SumEmpty
<1>5. Pick(s) \in s
  BY <1>4, PickInSet
<1>6. SumFunctionOnSet(f, s \ {Pick(s)}) \in Nat
  BY <1>2, <1>5
<1>7. SumFunctionOnSet(f, s) = f[Pick(s)] + SumFunctionOnSet(f, s \ {Pick(s)})
  BY <1>3, <1>4, SumPick
<1>. QED BY <1>5, <1>6, <1>7

\* The sum reads nothing but the values on the set.
LEMMA SumEqual ==
    ASSUME NEW S, IsFiniteSet(S), NEW f, NEW g, \A x \in S : f[x] = g[x]
    PROVE  SumFunctionOnSet(f, S) = SumFunctionOnSet(g, S)
<1> DEFINE T == {s \in SUBSET S : SumFunctionOnSet(f, s) # SumFunctionOnSet(g, s)}
<1>1. SUFFICES ASSUME T # {} PROVE FALSE
  OBVIOUS
<1>2. PICK s \in T : \A x \in s : s \ {x} \notin T
  BY <1>1, SmallestSubset
<1>3. IsFiniteSet(s)
  BY FS_Subset
<1>4. s # {}
  BY SumEmpty
<1>5. Pick(s) \in s
  BY <1>4, PickInSet
<1>6. SumFunctionOnSet(f, s \ {Pick(s)}) = SumFunctionOnSet(g, s \ {Pick(s)})
  BY <1>2, <1>5
<1>. QED BY <1>3, <1>4, <1>5, <1>6, SumPick

\* Any member may be split off, not only the one the fold picks: on a
\* smallest counterexample the picked element and the other one commute.
LEMMA SumRemove ==
    ASSUME NEW S, IsFiniteSet(S), NEW f, \A x \in S : f[x] \in Int, NEW m \in S
    PROVE  SumFunctionOnSet(f, S) = f[m] + SumFunctionOnSet(f, S \ {m})
<1> DEFINE Splits(s, x) == SumFunctionOnSet(f, s) = f[x] + SumFunctionOnSet(f, s \ {x})
           T == {s \in SUBSET S : \E x \in s : ~ Splits(s, x)}
<1>1. SUFFICES ASSUME T # {} PROVE FALSE
  <2>1. S \in SUBSET S
    OBVIOUS
  <2>. QED BY <2>1
<1>2. PICK s \in T : \A x \in s : s \ {x} \notin T
  BY <1>1, SmallestSubset
<1>3. PICK e \in s : ~ Splits(s, e)
  OBVIOUS
<1>4. IsFiniteSet(s) /\ s # {} /\ e \in S
  BY FS_Subset
<1> DEFINE k == Pick(s)
<1>5. k \in s
  BY <1>4, PickInSet
<1>6. Splits(s, k)
  BY <1>4, SumPick
<1>7. e # k
  BY <1>3, <1>6
<1>8. Splits(s \ {k}, e)
  BY <1>2, <1>5, <1>7
<1>9. Splits(s \ {e}, k)
  BY <1>2, <1>5, <1>7
<1> DEFINE rest == SumFunctionOnSet(f, s \ {e, k})
<1>10. (s \ {k}) \ {e} = s \ {e, k} /\ (s \ {e}) \ {k} = s \ {e, k}
  OBVIOUS
<1>11. /\ SumFunctionOnSet(f, s) = f[k] + SumFunctionOnSet(f, s \ {k})
       /\ SumFunctionOnSet(f, s \ {k}) = f[e] + rest
       /\ SumFunctionOnSet(f, s \ {e}) = f[k] + rest
  BY <1>6, <1>8, <1>9, <1>10
<1>12. IsFiniteSet(s \ {e, k}) /\ \A x \in s \ {e, k} : f[x] \in Int
  BY <1>4, FS_Subset
<1>13. rest \in Int /\ f[e] \in Int /\ f[k] \in Int
  BY <1>4, <1>5, <1>12, SumInt
<1>14. SumFunctionOnSet(f, s) # f[e] + SumFunctionOnSet(f, s \ {e})
  BY <1>3
<1> HIDE DEF rest, k, Splits, T
<1>. QED BY <1>11, <1>13, <1>14

\* Two functions that differ at one member only have sums that differ by as
\* much.
LEMMA SumChange ==
    ASSUME NEW S, IsFiniteSet(S), NEW f, NEW g, NEW m \in S,
           \A x \in S : f[x] \in Int /\ g[x] \in Int,
           \A x \in S \ {m} : g[x] = f[x]
    PROVE  SumFunctionOnSet(g, S) = SumFunctionOnSet(f, S) + g[m] - f[m]
<1>1. IsFiniteSet(S \ {m})
  BY FS_Subset
<1>2. SumFunctionOnSet(g, S \ {m}) = SumFunctionOnSet(f, S \ {m})
  BY <1>1, SumEqual
<1>3. /\ SumFunctionOnSet(f, S) = f[m] + SumFunctionOnSet(f, S \ {m})
      /\ SumFunctionOnSet(g, S) = g[m] + SumFunctionOnSet(g, S \ {m})
  BY SumRemove
<1>4. SumFunctionOnSet(f, S \ {m}) \in Int
  BY <1>1, SumInt
<1>. QED BY <1>2, <1>3, <1>4

\* The sum of the differences is the difference of the sums.
LEMMA SumMinus ==
    ASSUME NEW S, IsFiniteSet(S), NEW f, NEW g, NEW h,
           \A x \in S : f[x] \in Int /\ g[x] \in Int /\ h[x] = f[x] - g[x]
    PROVE  SumFunctionOnSet(h, S) = SumFunctionOnSet(f, S) - SumFunctionOnSet(g, S)
<1> DEFINE Fails(s) == SumFunctionOnSet(h, s) # SumFunctionOnSet(f, s) - SumFunctionOnSet(g, s)
           T == {s \in SUBSET S : Fails(s)}
<1>1. SUFFICES ASSUME T # {} PROVE FALSE
  <2>1. S \in SUBSET S
    OBVIOUS
  <2>. QED BY <2>1
<1>2. PICK s \in T : \A x \in s : s \ {x} \notin T
  BY <1>1, SmallestSubset
<1>3. IsFiniteSet(s)
  BY FS_Subset
<1>4. s # {}
  <2>1. SumFunctionOnSet(f, {}) = 0 /\ SumFunctionOnSet(g, {}) = 0 /\ SumFunctionOnSet(h, {}) = 0
    BY SumEmpty
  <2>. QED BY <2>1
<1> DEFINE k == Pick(s)
           r == s \ {k}
<1>5. k \in s
  BY <1>4, PickInSet
<1>6. ~ Fails(r)
  BY <1>2, <1>5
<1>7. /\ SumFunctionOnSet(f, s) = f[k] + SumFunctionOnSet(f, r)
      /\ SumFunctionOnSet(g, s) = g[k] + SumFunctionOnSet(g, r)
      /\ SumFunctionOnSet(h, s) = h[k] + SumFunctionOnSet(h, r)
  BY <1>3, <1>4, SumPick
<1>8. IsFiniteSet(r) /\ \A x \in r : f[x] \in Int /\ g[x] \in Int
  BY <1>3, FS_Subset
<1>9. SumFunctionOnSet(f, r) \in Int /\ SumFunctionOnSet(g, r) \in Int
  BY <1>8, SumInt
<1>10. f[k] \in Int /\ g[k] \in Int /\ h[k] = f[k] - g[k]
  BY <1>5
<1>11. Fails(s)
  OBVIOUS
<1> HIDE DEF r, k, T
<1>. QED BY <1>6, <1>7, <1>9, <1>10, <1>11

\* The sum over two sets without a common member is the sum of the sums.
LEMMA SumUnion ==
    ASSUME NEW S, IsFiniteSet(S), NEW f, \A x \in S : f[x] \in Int,
           NEW A \in SUBSET S, NEW B \in SUBSET S, A \cap B = {}
    PROVE  SumFunctionOnSet(f, A \cup B) = SumFunctionOnSet(f, A) + SumFunctionOnSet(f, B)
<1> DEFINE Fails(s) == SumFunctionOnSet(f, A \cup s) # SumFunctionOnSet(f, A) + SumFunctionOnSet(f, s)
           T == {s \in SUBSET B : Fails(s)}
<1>1. SUFFICES ASSUME T # {} PROVE FALSE
  <2>1. B \in SUBSET B
    OBVIOUS
  <2>. QED BY <2>1
<1>2. IsFiniteSet(A) /\ IsFiniteSet(B)
  BY FS_Subset
<1>3. PICK s \in T : \A x \in s : s \ {x} \notin T
  BY <1>1, <1>2, SmallestSubset
<1>4. /\ IsFiniteSet(s) /\ IsFiniteSet(A \cup s) /\ IsFiniteSet(s \ {Pick(s)})
      /\ s \in SUBSET B /\ Fails(s)
  BY <1>2, FS_Subset, FS_Union
<1>5. SumFunctionOnSet(f, A) \in Int
  BY <1>2, SumInt
<1>6. s # {}
  <2>1. SumFunctionOnSet(f, {}) = 0
    BY SumEmpty
  <2>2. A \cup {} = A
    OBVIOUS
  <2>3. ~ Fails({})
    BY <2>1, <2>2, <1>5
  <2>. QED BY <1>4, <2>3
<1> DEFINE k == Pick(s)
           r == s \ {k}
<1>7. k \in s /\ k \notin A
  BY <1>4, <1>6, PickInSet
<1>8. ~ Fails(r)
  BY <1>3, <1>7
<1>9. (A \cup s) \ {k} = A \cup r
  BY <1>7
<1>10. \A x \in A \cup s : f[x] \in Int
  BY <1>4
<1>11. /\ SumFunctionOnSet(f, A \cup s) = f[k] + SumFunctionOnSet(f, A \cup r)
       /\ SumFunctionOnSet(f, s) = f[k] + SumFunctionOnSet(f, r)
  <2>1. SumFunctionOnSet(f, A \cup s) = f[k] + SumFunctionOnSet(f, (A \cup s) \ {k})
    BY <1>4, <1>7, <1>10, SumRemove
  <2>2. SumFunctionOnSet(f, s) = f[k] + SumFunctionOnSet(f, s \ {k})
    BY <1>4, <1>7, <1>10, SumRemove
  <2>. QED BY <2>1, <2>2, <1>9
<1>12. f[k] \in Int /\ SumFunctionOnSet(f, r) \in Int
  BY <1>4, <1>7, <1>10, SumInt
<1>13. SumFunctionOnSet(f, A \cup r) = SumFunctionOnSet(f, A) + SumFunctionOnSet(f, r)
  BY <1>8
<1> HIDE DEF r, k, T
<1>14. ~ Fails(s)
  BY <1>5, <1>11, <1>12, <1>13
<1>. QED BY <1>4, <1>14

\* Negating every value negates the sum.
LEMMA SumNegate ==
    ASSUME NEW S, IsFiniteSet(S), NEW f, NEW g, \A x \in S : f[x] \in Int /\ g[x] = 0 - f[x]
    PROVE  SumFunctionOnSet(g, S) = 0 - SumFunctionOnSet(f, S)
<1> DEFINE zero == [x \in S |-> 0]
<1>1. SumFunctionOnSet(zero, S) \in Int
  BY SumInt
<1>2. SumFunctionOnSet(zero, S) = SumFunctionOnSet(zero, S) - SumFunctionOnSet(zero, S)
  <2>1. \A x \in S : zero[x] \in Int /\ zero[x] = zero[x] - zero[x]
    OBVIOUS
  <2> HIDE DEF zero
  <2>. QED BY <2>1, SumMinus
<1>3. \A x \in S : zero[x] \in Int /\ f[x] \in Int /\ g[x] = zero[x] - f[x]
  OBVIOUS
<1> HIDE DEF zero
<1>4. SumFunctionOnSet(g, S) = SumFunctionOnSet(zero, S) - SumFunctionOnSet(f, S)
  BY <1>3, SumMinus
<1>5. SumFunctionOnSet(f, S) \in Int
  BY SumInt
<1>. QED BY <1>1, <1>2, <1>4, <1>5

\* Nothing adds up to nothing.
LEMMA SumZero ==
    ASSUME NEW S, IsFiniteSet(S), NEW f, \A x \in S : f[x] = 0
    PROVE  SumFunctionOnSet(f, S) = 0
<1>1. SumFunctionOnSet(f, S) \in Int
  BY SumInt
<1>2. SumFunctionOnSet(f, S) = 0 - SumFunctionOnSet(f, S)
  BY SumNegate
<1>. QED BY <1>1, <1>2

\* One more member brings its value, one fewer takes it away.
LEMMA SumJoin ==
    ASSUME NEW S, IsFiniteSet(S), NEW m, m \notin S, NEW f, NEW g,
           \A x \in S : f[x] \in Int /\ g[x] = f[x], g[m] \in Int
    PROVE  SumFunctionOnSet(g, S \cup {m}) = SumFunctionOnSet(f, S) + g[m]
<1> DEFINE U == S \cup {m}
<1>1. IsFiniteSet(U) /\ m \in U /\ U \ {m} = S
  BY FS_AddElement
<1>2. \A x \in U : g[x] \in Int
  OBVIOUS
<1> HIDE DEF U
<1>3. SumFunctionOnSet(g, U) = g[m] + SumFunctionOnSet(g, S)
  <2>1. SumFunctionOnSet(g, U) = g[m] + SumFunctionOnSet(g, U \ {m})
    BY <1>1, <1>2, SumRemove
  <2>. QED BY <1>1, <2>1
<1>4. SumFunctionOnSet(g, S) = SumFunctionOnSet(f, S)
  BY SumEqual
<1>5. SumFunctionOnSet(f, S) \in Int
  BY SumInt
<1>6. SumFunctionOnSet(g, U) = SumFunctionOnSet(f, S) + g[m]
  BY <1>1, <1>3, <1>4, <1>5
<1>. QED BY <1>6 DEF U

LEMMA SumLeave ==
    ASSUME NEW S, IsFiniteSet(S), NEW m \in S, NEW f, NEW g,
           \A x \in S : f[x] \in Int, \A x \in S \ {m} : g[x] = f[x]
    PROVE  SumFunctionOnSet(g, S \ {m}) = SumFunctionOnSet(f, S) - f[m]
<1> DEFINE U == S \ {m}
<1>1. IsFiniteSet(U) /\ \A x \in U : f[x] \in Int /\ g[x] = f[x]
  BY FS_Subset
<1>2. SumFunctionOnSet(f, S) = f[m] + SumFunctionOnSet(f, U)
  BY SumRemove
<1> HIDE DEF U
<1>3. SumFunctionOnSet(g, U) = SumFunctionOnSet(f, U)
  BY <1>1, SumEqual
<1>4. SumFunctionOnSet(f, U) \in Int
  BY <1>1, SumInt
<1>5. SumFunctionOnSet(g, U) = SumFunctionOnSet(f, S) - f[m]
  BY <1>2, <1>3, <1>4
<1>. QED BY <1>5 DEF U

LEMMA SumSingle ==
    ASSUME NEW m, NEW f, f[m] \in Int
    PROVE  SumFunctionOnSet(f, {m}) = f[m]
<1> DEFINE S == {m}
<1>1. IsFiniteSet(S) /\ m \in S /\ \A x \in S : f[x] \in Int
  BY FS_Singleton
<1>2. S \ {m} = {}
  OBVIOUS
<1> HIDE DEF S
<1>3. SumFunctionOnSet(f, S) = f[m] + SumFunctionOnSet(f, S \ {m})
  BY <1>1, SumRemove
<1>4. SumFunctionOnSet(f, S) = f[m]
  BY <1>2, <1>3, SumEmpty
<1>. QED BY <1>4 DEF S

\* Members without a share may be left out.
LEMMA SumSupport ==
    ASSUME NEW S, IsFiniteSet(S), NEW T \in SUBSET S, NEW f,
           \A x \in T : f[x] \in Int, \A x \in S \ T : f[x] = 0
    PROVE  SumFunctionOnSet(f, S) = SumFunctionOnSet(f, T)
<1> DEFINE R == S \ T
<1>1. IsFiniteSet(R) /\ IsFiniteSet(T) /\ R \in SUBSET S /\ T \cup R = S /\ T \cap R = {}
  BY FS_Subset
<1>2. \A x \in S : f[x] \in Int
  OBVIOUS
<1>3. \A x \in R : f[x] = 0
  OBVIOUS
<1> HIDE DEF R
<1>4. SumFunctionOnSet(f, R) = 0
  BY <1>1, <1>3, SumZero
<1>5. SumFunctionOnSet(f, T \cup R) = SumFunctionOnSet(f, T) + SumFunctionOnSet(f, R)
  BY <1>1, <1>2, SumUnion
<1>6. SumFunctionOnSet(f, T \cup R) = SumFunctionOnSet(f, S)
  BY <1>1
<1>7. SumFunctionOnSet(f, T) \in Int
  BY <1>1, SumInt
<1>. QED BY <1>4, <1>5, <1>6, <1>7

LEMMA SumPair ==
    ASSUME NEW m, NEW n, m # n, NEW f, f[m] \in Int, f[n] \in Int
    PROVE  SumFunctionOnSet(f, {m, n}) = f[m] + f[n]
<1> DEFINE S == {m, n}
<1>1. IsFiniteSet(S) /\ n \in S /\ S \ {n} = {m} /\ \A x \in S : f[x] \in Int
  <2>1. IsFiniteSet({m}) /\ IsFiniteSet({m} \cup {n}) /\ {m} \cup {n} = S
    BY FS_Singleton, FS_AddElement
  <2>. QED BY <2>1
<1>2. SumFunctionOnSet(f, {m}) = f[m]
  BY SumSingle
<1> HIDE DEF S
<1>3. SumFunctionOnSet(f, S) = f[n] + SumFunctionOnSet(f, S \ {n})
  BY <1>1, SumRemove
<1>4. SumFunctionOnSet(f, S \ {n}) = SumFunctionOnSet(f, {m})
  BY <1>1, Zenon
<1>5. SumFunctionOnSet(f, S) = f[m] + f[n]
  BY <1>2, <1>3, <1>4
<1>. QED BY <1>5 DEF S

LEMMA SumTriple ==
    ASSUME NEW m, NEW n, NEW k, m # n, m # k, n # k,
           NEW f, f[m] \in Int, f[n] \in Int, f[k] \in Int,
           NEW S, S = {m, n, k}
    PROVE  SumFunctionOnSet(f, S) = f[m] + f[n] + f[k]
<1>1. IsFiniteSet(S) /\ k \in S /\ S \ {k} = {m, n} /\ \A x \in S : f[x] \in Int
  <2>1. IsFiniteSet({m}) /\ IsFiniteSet({m} \cup {n}) /\ IsFiniteSet(({m} \cup {n}) \cup {k})
    BY FS_Singleton, FS_AddElement
  <2>2. ({m} \cup {n}) \cup {k} = S
    OBVIOUS
  <2>. QED BY <2>1, <2>2
<1>2. SumFunctionOnSet(f, {m, n}) = f[m] + f[n]
  BY SumPair
<1>3. SumFunctionOnSet(f, S) = f[k] + SumFunctionOnSet(f, S \ {k})
  BY <1>1, SumRemove
<1>4. SumFunctionOnSet(f, S \ {k}) = SumFunctionOnSet(f, {m, n})
  BY <1>1, Zenon
<1>. QED BY <1>2, <1>3, <1>4

\* A common factor passes through the sum.
LEMMA SumTimes ==
    ASSUME NEW S, IsFiniteSet(S), NEW k \in Int, NEW f, NEW g,
           \A x \in S : f[x] \in Int /\ g[x] = k * f[x]
    PROVE  SumFunctionOnSet(g, S) = k * SumFunctionOnSet(f, S)
<1> DEFINE Fails(s) == SumFunctionOnSet(g, s) # k * SumFunctionOnSet(f, s)
           T == {s \in SUBSET S : Fails(s)}
<1>1. SUFFICES ASSUME T # {} PROVE FALSE
  <2>1. S \in SUBSET S
    OBVIOUS
  <2>. QED BY <2>1
<1>2. PICK s \in T : \A x \in s : s \ {x} \notin T
  BY <1>1, SmallestSubset
<1>3. IsFiniteSet(s)
  BY FS_Subset
<1>4. s # {}
  <2>1. SumFunctionOnSet(f, {}) = 0 /\ SumFunctionOnSet(g, {}) = 0
    BY SumEmpty
  <2>. QED BY <2>1
<1> DEFINE m == Pick(s)
           r == s \ {m}
<1>5. m \in s
  BY <1>4, PickInSet
<1>6. ~ Fails(r)
  BY <1>2, <1>5
<1>7. /\ SumFunctionOnSet(f, s) = f[m] + SumFunctionOnSet(f, r)
      /\ SumFunctionOnSet(g, s) = g[m] + SumFunctionOnSet(g, r)
  BY <1>3, <1>4, SumPick
<1>8. IsFiniteSet(r) /\ \A x \in r : f[x] \in Int
  BY <1>3, FS_Subset
<1>9. SumFunctionOnSet(f, r) \in Int
  BY <1>8, SumInt
<1>10. f[m] \in Int /\ g[m] = k * f[m]
  BY <1>5
<1>11. Fails(s)
  OBVIOUS
<1> HIDE DEF r, m, T
<1>12. k * (f[m] + SumFunctionOnSet(f, r)) = k * f[m] + k * SumFunctionOnSet(f, r)
  BY <1>9, <1>10
<1>. QED BY <1>6, <1>7, <1>10, <1>11, <1>12

\* A table g has the number g[a][b] in row a and column b; what its columns,
\* and what its rows, come to.
ColumnSums(g, A, B) == [b \in B |-> SumFunctionOnSet([a \in A |-> g[a][b]], A)]
IntTable(g, A, B) == \A a \in A : \A b \in B : g[a][b] \in Int
RowSums(g, A, B) == [a \in A |-> SumFunctionOnSet(g[a], B)]

LEMMA ColumnStep ==
    ASSUME NEW A, IsFiniteSet(A), NEW x \in A, NEW B, NEW b \in B, NEW g,
           IntTable(g, A, B)
    PROVE  /\ ColumnSums(g, A, B)[b] \in Int /\ ColumnSums(g, A \ {x}, B)[b] \in Int
           /\ ColumnSums(g, A \ {x}, B)[b] = ColumnSums(g, A, B)[b] - g[x][b]
<1> DEFINE R == A \ {x}
           f == [a \in A |-> g[a][b]]
           h == [a \in R |-> g[a][b]]
<1>1. \A a \in A : f[a] \in Int
  BY DEF IntTable
<1>2. \A a \in R : h[a] = f[a]
  OBVIOUS
<1>3. ColumnSums(g, A, B)[b] = SumFunctionOnSet(f, A) /\ ColumnSums(g, R, B)[b] = SumFunctionOnSet(h, R)
      /\ f[x] = g[x][b]
  BY DEF ColumnSums
<1> HIDE DEF f, h, R
<1>4. SumFunctionOnSet(h, A \ {x}) = SumFunctionOnSet(f, A) - f[x]
  BY <1>1, <1>2, SumLeave DEF R
<1>5. SumFunctionOnSet(f, A) \in Int /\ f[x] \in Int
  BY <1>1, SumInt
<1>. QED BY <1>3, <1>4, <1>5 DEF R

\* A table comes to the same by rows and by columns.
LEMMA SumSwap ==
    ASSUME NEW A, IsFiniteSet(A), NEW B, IsFiniteSet(B), NEW g,
           IntTable(g, A, B)
    PROVE  SumFunctionOnSet(ColumnSums(g, A, B), B) = SumFunctionOnSet(RowSums(g, A, B), A)
<1> DEFINE Same(s) == SumFunctionOnSet(ColumnSums(g, s, B), B) = SumFunctionOnSet(RowSums(g, s, B), s)
           T == {s \in SUBSET A : ~ Same(s)}
<1>1. SUFFICES ASSUME T # {} PROVE FALSE
  <2>1. A \in SUBSET A
    OBVIOUS
  <2>. QED BY <2>1
<1>2. PICK s \in T : \A x \in s : s \ {x} \notin T
  BY <1>1, SmallestSubset
<1>3. IsFiniteSet(s) /\ s \in SUBSET A /\ ~ Same(s) /\ \A x \in s : Same(s \ {x})
  BY <1>2, FS_Subset
<1>4. CASE s = {}
  <2>1. \A b \in B : ColumnSums(g, {}, B)[b] = 0
    BY SumEmpty DEF ColumnSums
  <2>2. SumFunctionOnSet(ColumnSums(g, {}, B), B) = 0
    BY <2>1, SumZero
  <2>. QED BY <1>3, <1>4, <2>2, SumEmpty
<1>5. CASE s # {}
  <2>1. PICK x \in s : TRUE
    BY <1>5
  <2> DEFINE R == s \ {x}
             c == ColumnSums(g, s, B)
             d == ColumnSums(g, R, B)
             u == RowSums(g, s, B)
             v == RowSums(g, R, B)
  <2>2. ASSUME NEW b \in B
        PROVE  c[b] \in Int /\ d[b] \in Int /\ g[x][b] \in Int /\ d[b] = c[b] - g[x][b]
    <3>1. IsFiniteSet(s) /\ x \in s /\ b \in B /\ IntTable(g, s, B)
      BY <1>3, <2>1 DEF IntTable
    <3>2. c[b] \in Int /\ d[b] \in Int /\ d[b] = c[b] - g[x][b]
      BY ONLY <3>1, ColumnStep
    <3>3. g[x][b] \in Int
      BY <3>1 DEF IntTable
    <3>. QED BY <3>2, <3>3
  <2>3. u[x] = SumFunctionOnSet(g[x], B) /\ \A a \in s : u[a] \in Int
    BY <1>3, SumInt DEF RowSums, IntTable
  <2>4. \A a \in s \ {x} : v[a] = u[a]
    BY DEF RowSums
  <2>5. SumFunctionOnSet(d, B) = SumFunctionOnSet(v, R)
    BY <1>3, <2>1
  <2> HIDE DEF c, d, u, v, R
  <2>6. SumFunctionOnSet(d, B) = SumFunctionOnSet(c, B) - SumFunctionOnSet(g[x], B)
    BY <2>2, SumMinus
  <2>7. SumFunctionOnSet(v, s \ {x}) = SumFunctionOnSet(u, s) - u[x]
    <3>1. IsFiniteSet(s) /\ x \in s /\ \A a \in s : u[a] \in Int
      BY <1>3, <2>1, <2>3
    <3>. QED BY ONLY <2>4, <3>1, SumLeave
  <2>8. SumFunctionOnSet(c, B) \in Int /\ SumFunctionOnSet(u, s) \in Int /\ u[x] = SumFunctionOnSet(g[x], B) /\ u[x] \in Int
    BY <1>3, <2>1, <2>2, <2>3, SumInt
  <2>9. SumFunctionOnSet(c, B) = SumFunctionOnSet(u, s)
    <3>1. SumFunctionOnSet(v, R) = SumFunctionOnSet(u, s) - u[x]
      BY <2>7 DEF R
    <3>2. SumFunctionOnSet(v, R) = SumFunctionOnSet(c, B) - u[x]
      BY <2>5, <2>6, <2>8
    <3>. QED BY <2>8, <3>1, <3>2
  <2>. QED BY <1>3, <2>9, Zenon DEF c, u
<1>. QED BY <1>4, <1>5

\* Counting along an injection: each value is added once.
LEMMA SumReindex ==
    ASSUME NEW S, IsFiniteSet(S), NEW f, NEW r, NEW g,
           \A x \in S : g[x] = f[r[x]] /\ f[r[x]] \in Int,
           \A x, y \in S : r[x] = r[y] => x = y
    PROVE  SumFunctionOnSet(g, S) = SumFunctionOnSet(f, {r[x] : x \in S})
<1> DEFINE Img(s) == {r[x] : x \in s}
           Same(s) == IsFiniteSet(Img(s)) /\ SumFunctionOnSet(g, s) = SumFunctionOnSet(f, Img(s))
           T == {s \in SUBSET S : ~ Same(s)}
<1>1. SUFFICES ASSUME T # {} PROVE FALSE
  <2>1. S \in SUBSET S
    OBVIOUS
  <2>. QED BY <2>1
<1>2. PICK s \in T : \A x \in s : s \ {x} \notin T
  BY <1>1, SmallestSubset
<1>3. IsFiniteSet(s) /\ s \in SUBSET S /\ ~ Same(s) /\ \A x \in s : Same(s \ {x})
  BY <1>2, FS_Subset
<1>4. CASE s = {}
  <2>1. Img({}) = {}
    OBVIOUS
  <2>. QED BY <1>3, <1>4, <2>1, SumEmpty, FS_EmptySet
<1>5. CASE s # {}
  <2>1. PICK x \in s : TRUE
    BY <1>5
  <2> DEFINE R == s \ {x}
             I == Img(R)
             m == r[x]
  <2>2. IsFiniteSet(I) /\ SumFunctionOnSet(g, R) = SumFunctionOnSet(f, I)
    BY <1>3, <2>1
  <2>3. Img(s) = I \cup {m}
    BY <2>1
  <2>4. m \notin I /\ \A z \in I : f[z] \in Int
    BY <1>3, <2>1
  <2>5. f[m] \in Int /\ g[x] = f[m] /\ \A y \in s : g[y] \in Int
    BY <1>3, <2>1
  <2> HIDE DEF I, Img, m
  <2>6. IsFiniteSet(I \cup {m})
    BY <2>2, FS_AddElement
  <2>7. SumFunctionOnSet(f, I \cup {m}) = SumFunctionOnSet(f, I) + f[m]
    <3> DEFINE U == I \cup {m}
    <3>1. IsFiniteSet(U) /\ m \in U /\ U \ {m} = I /\ \A z \in U : f[z] \in Int
      BY <2>2, <2>4, <2>5, <2>6
    <3> HIDE DEF U
    <3>2. SumFunctionOnSet(f, U) = f[m] + SumFunctionOnSet(f, U \ {m})
      BY ONLY <3>1, SumRemove
    <3>3. SumFunctionOnSet(f, I) \in Int
      BY <2>2, <2>4, SumInt
    <3>4. SumFunctionOnSet(f, U) = SumFunctionOnSet(f, I) + f[m]
      <4>1. f[m] \in Int
        BY <2>5
      <4>2. SumFunctionOnSet(f, U) = f[m] + SumFunctionOnSet(f, I)
        BY <3>1, <3>2, Zenon
      <4>. QED BY ONLY <3>3, <4>1, <4>2
    <3>. QED BY <3>4 DEF U
  <2>8. SumFunctionOnSet(g, s) = g[x] + SumFunctionOnSet(g, R)
    BY <1>3, <2>1, <2>5, SumRemove
  <2>9. SumFunctionOnSet(f, I) \in Int
    BY <2>2, <2>4, SumInt
  <2>10. SumFunctionOnSet(g, s) = SumFunctionOnSet(f, Img(s))
    BY <2>2, <2>3, <2>5, <2>7, <2>8, <2>9
  <2>. QED BY <1>3, <2>3, <2>6, <2>10
<1>. QED BY <1>4, <1>5
=============================================================================
