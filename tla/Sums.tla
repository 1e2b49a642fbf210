-------------------------------- MODULE Sums --------------------------------
(***************************************************************************)
(* Sums of natural numbers over a finite set, SumFunctionOnSet(a, S): they *)
(* are natural, do not depend on the order the set is gone through, and    *)
(* add up over disjoint sets.                                              *)
(***************************************************************************)
EXTENDS Integers, FiniteSets, Functions, FiniteSetTheorems, WellFoundedInduction, TLAPS

(* Induction over the subsets of a finite set, for a set of them given as data. *)
LEMMA SmallestSet ==
  ASSUME NEW S, IsFiniteSet(S), NEW Bad \in SUBSET (SUBSET S), Bad # {}
  PROVE  \E T \in Bad : \A U \in Bad : U \subseteq T => U = T
<1>1. Bad \subseteq FiniteSubsetsOf(S)
  BY FS_FiniteSubsetsOfFinite
<1>2. PICK T \in Bad : \A U \in Bad : <<U, T>> \notin StrictSubsetOrdering(S)
  BY <1>1, FS_StrictSubsetOrderingWellFounded, WFMin
<1>3. \A U \in Bad : U \subseteq T => U = T
  BY <1>2 DEF StrictSubsetOrdering
<1> QED
  BY <1>2, <1>3

LEMMA OneByOne ==
  ASSUME NEW S, IsFiniteSet(S), NEW Good, {} \in Good,
         \A T \in SUBSET S : \A x \in S \ T : T \in Good => T \cup {x} \in Good
  PROVE  S \in Good
<1> DEFINE Bad == {T \in SUBSET S : T \notin Good}
<1> SUFFICES ASSUME Bad # {} PROVE FALSE
  OBVIOUS
<1>1. PICK T \in Bad : \A U \in Bad : U \subseteq T => U = T
  <2>1. Bad \in SUBSET (SUBSET S)
    OBVIOUS
  <2> HIDE DEF Bad
  <2> QED BY <2>1, SmallestSet
<1>2. PICK x \in T : TRUE
  BY <1>1
<1>3. T \ {x} \in SUBSET S /\ x \in S \ (T \ {x}) /\ T = (T \ {x}) \cup {x}
  BY <1>1, <1>2
<1>4. T \ {x} \in Good
  BY <1>1, <1>2, <1>3
<1> QED
  BY <1>1, <1>3, <1>4

Pick(s) == CHOOSE x \in s : TRUE
IsIter(it, a, S) == it = [s \in SUBSET S |-> IF s = {} THEN 0 ELSE a[Pick(s)] + it[s \ {Pick(s)}]]

LEMMA SumIsIter ==
  ASSUME NEW a, NEW S, \E it : IsIter(it, a, S)
  PROVE  \E it : IsIter(it, a, S) /\ SumFunctionOnSet(a, S) = it[S]
<1> DEFINE it == CHOOSE i : IsIter(i, a, S)
<1>1. IsIter(it, a, S)
  OBVIOUS
<1>2. SumFunctionOnSet(a, S) = it[S]
  BY DEF SumFunctionOnSet, FoldFunctionOnSet, MapThenFoldSet, IsIter, Pick
<1> QED
  BY <1>1, <1>2

LEMMA PickIsIn ==
  ASSUME NEW s, s # {}
  PROVE  Pick(s) \in s
BY DEF Pick

LEMMA ItersAgree ==
  ASSUME NEW a, NEW S, IsFiniteSet(S), NEW T \in SUBSET S, NEW it, NEW jt, IsIter(it, a, S), IsIter(jt, a, T)
  PROVE  jt[T] = it[T]
<1> DEFINE Bad == {s \in SUBSET T : jt[s] # it[s]}
<1> SUFFICES ASSUME Bad # {} PROVE FALSE
  OBVIOUS
<1>1. PICK s \in Bad : \A u \in Bad : u \subseteq s => u = s
  <2>1. Bad \in SUBSET (SUBSET T) /\ IsFiniteSet(T)
    BY FS_Subset
  <2> HIDE DEF Bad
  <2> QED BY <2>1, SmallestSet
<1>2. s \in SUBSET T /\ s \in SUBSET S
  BY <1>1
<1>3. /\ jt[s] = IF s = {} THEN 0 ELSE a[Pick(s)] + jt[s \ {Pick(s)}]
      /\ it[s] = IF s = {} THEN 0 ELSE a[Pick(s)] + it[s \ {Pick(s)}]
  <2>1. \A r \in SUBSET T : jt[r] = IF r = {} THEN 0 ELSE a[Pick(r)] + jt[r \ {Pick(r)}]
    BY DEF IsIter
  <2>2. \A r \in SUBSET S : it[r] = IF r = {} THEN 0 ELSE a[Pick(r)] + it[r \ {Pick(r)}]
    BY DEF IsIter
  <2> QED BY <1>2, <2>1, <2>2
<1>4. s # {}
  BY <1>1, <1>3
<1>5. jt[s \ {Pick(s)}] = it[s \ {Pick(s)}]
  BY <1>1, <1>2, <1>4, PickIsIn
<1> QED
  BY <1>1, <1>3, <1>4, <1>5

LEMMA SumsHaveIters ==
  ASSUME NEW a, NEW S, IsFiniteSet(S)
  PROVE  \E it : IsIter(it, a, S)
<1> DEFINE Bad == {s \in SUBSET S : ~ \E it : IsIter(it, a, s)}
<1> SUFFICES ASSUME Bad # {} PROVE FALSE
  OBVIOUS
<1>1. PICK s \in Bad : \A u \in Bad : u \subseteq s => u = s
  <2>1. Bad \in SUBSET (SUBSET S)
    OBVIOUS
  <2> HIDE DEF Bad
  <2> QED BY <2>1, SmallestSet
<1>2. s \in SUBSET S /\ IsFiniteSet(s) /\ ~ \E it : IsIter(it, a, s)
  BY <1>1, FS_Subset
<1> DEFINE V(u) == SumFunctionOnSet(a, u)
           j == [u \in SUBSET s |-> IF u = {} THEN 0 ELSE a[Pick(u)] + V(u \ {Pick(u)})]
<1>3. ASSUME NEW u \in SUBSET s, u # s
      PROVE  j[u] = V(u)
  <2>1. \E it : IsIter(it, a, u)
    BY <1>1, <1>2, <1>3
  <2>2. PICK it : IsIter(it, a, u) /\ V(u) = it[u]
    BY <2>1, SumIsIter
  <2>3. V(u) = IF u = {} THEN 0 ELSE a[Pick(u)] + it[u \ {Pick(u)}]
    BY <2>2 DEF IsIter
  <2>4. CASE u = {}
    BY <2>3, <2>4
  <2>5. CASE u # {}
    <3> DEFINE w == u \ {Pick(u)}
    <3>1. w \in SUBSET u /\ w \in SUBSET s /\ w # s
      BY <1>3, <2>5, PickIsIn
    <3>2. \E jt : IsIter(jt, a, w)
      BY <1>1, <1>2, <3>1
    <3>3. PICK jt : IsIter(jt, a, w) /\ V(w) = jt[w]
      BY <3>2, SumIsIter
    <3>4. IsFiniteSet(u)
      BY <1>2, FS_Subset
    <3>5. jt[w] = it[w]
      BY <2>2, <3>1, <3>3, <3>4, ItersAgree
    <3> QED
      BY <2>3, <2>5, <3>3, <3>5
  <2> QED
    BY <2>4, <2>5
<1>4. \A u \in SUBSET s : u # {} => u \ {Pick(u)} \in SUBSET s /\ u \ {Pick(u)} # s
  BY PickIsIn
<1>5. \A u \in SUBSET s : u # {} => V(u \ {Pick(u)}) = j[u \ {Pick(u)}]
  <2> HIDE DEF V, j
  <2> QED BY <1>3, <1>4
<1>6. j = [u \in SUBSET s |-> IF u = {} THEN 0 ELSE a[Pick(u)] + j[u \ {Pick(u)}]]
  <2>1. \A u \in SUBSET s : (IF u = {} THEN 0 ELSE a[Pick(u)] + V(u \ {Pick(u)}))
                             = (IF u = {} THEN 0 ELSE a[Pick(u)] + j[u \ {Pick(u)}])
    <3> HIDE DEF V, j
    <3> QED BY <1>5
  <2>2. j = [u \in SUBSET s |-> IF u = {} THEN 0 ELSE a[Pick(u)] + V(u \ {Pick(u)})]
    OBVIOUS
  <2> HIDE DEF V, j
  <2> QED BY <2>1, <2>2
<1>7. IsIter(j, a, s)
  <2> HIDE DEF j
  <2> QED BY <1>6 DEF IsIter
<1> QED
  BY <1>2, <1>7

LEMMA SumUnfolds ==
  ASSUME NEW a, NEW S, IsFiniteSet(S)
  PROVE  SumFunctionOnSet(a, S) = IF S = {} THEN 0 ELSE a[Pick(S)] + SumFunctionOnSet(a, S \ {Pick(S)})
<1>1. PICK it : IsIter(it, a, S) /\ SumFunctionOnSet(a, S) = it[S]
  BY SumsHaveIters, SumIsIter
<1>2. SumFunctionOnSet(a, S) = IF S = {} THEN 0 ELSE a[Pick(S)] + it[S \ {Pick(S)}]
  BY <1>1 DEF IsIter
<1>3. CASE S # {}
  <2> DEFINE T == S \ {Pick(S)}
  <2>1. T \in SUBSET S /\ IsFiniteSet(T)
    BY FS_Subset
  <2>2. PICK jt : IsIter(jt, a, T) /\ SumFunctionOnSet(a, T) = jt[T]
    BY <2>1, SumsHaveIters, SumIsIter
  <2>3. jt[T] = it[T]
    BY <1>1, <2>1, <2>2, ItersAgree
  <2> QED
    BY <1>2, <1>3, <2>2, <2>3
<1> QED
  BY <1>2, <1>3

(* The sum of numbers does not depend on the order they are taken in. *)
LEMMA SumSplits ==
  ASSUME NEW S, IsFiniteSet(S), NEW a, \A x \in S : a[x] \in Int
  PROVE  /\ SumFunctionOnSet(a, S) \in Int
         /\ \A x \in S : SumFunctionOnSet(a, S) = a[x] + SumFunctionOnSet(a, S \ {x})
<1> DEFINE V(u) == SumFunctionOnSet(a, u)
           Splits(u) == V(u) \in Int /\ \A x \in u : V(u) = a[x] + V(u \ {x})
           Bad == {u \in SUBSET S : ~Splits(u)}
<1> SUFFICES ASSUME Bad # {} PROVE FALSE
  OBVIOUS
<1>1. PICK s \in Bad : \A u \in Bad : u \subseteq s => u = s
  <2>1. Bad \in SUBSET (SUBSET S)
    OBVIOUS
  <2> HIDE DEF Bad
  <2> QED BY <2>1, SmallestSet
<1>2. s \in SUBSET S /\ IsFiniteSet(s) /\ ~Splits(s)
  BY <1>1, FS_Subset
<1>3. \A u \in SUBSET s : u # s => Splits(u)
  BY <1>1, <1>2
<1>4. V(s) = IF s = {} THEN 0 ELSE a[Pick(s)] + V(s \ {Pick(s)})
  BY <1>2, SumUnfolds
<1>5. s # {}
  BY <1>2, <1>4
<1> DEFINE c == Pick(s)
<1>6. c \in s
  BY <1>5, PickIsIn
<1> HIDE DEF V, c
<1>7. V(s) = a[c] + V(s \ {c}) /\ V(s \ {c}) \in Int /\ a[c] \in Int
  BY <1>2, <1>3, <1>4, <1>5, <1>6 DEF c
<1>8. ASSUME NEW x \in s, x # c
      PROVE  V(s) = a[x] + V(s \ {x})
  <2>1. V(s \ {c}) = a[x] + V((s \ {c}) \ {x})
    BY <1>3, <1>6, <1>8
  <2>2. V(s \ {x}) = a[c] + V((s \ {x}) \ {c})
    BY <1>3, <1>6, <1>8
  <2>3. (s \ {x}) \ {c} = (s \ {c}) \ {x}
    OBVIOUS
  <2>4. V((s \ {c}) \ {x}) \in Int /\ a[x] \in Int
    BY <1>2, <1>3, <1>6, <1>8
  <2>5. V(s \ {x}) = a[c] + V((s \ {c}) \ {x})
    BY <2>2, <2>3
  <2> DEFINE rest == V((s \ {c}) \ {x})
  <2>6. V(s) = a[c] + (a[x] + rest) /\ a[x] + V(s \ {x}) = a[x] + (a[c] + rest)
    BY <1>7, <2>1, <2>5
  <2>7. rest \in Int /\ a[x] \in Int /\ a[c] \in Int
    BY <1>7, <2>4
  <2> HIDE DEF rest
  <2>8. a[c] + (a[x] + rest) = a[x] + (a[c] + rest)
    BY <2>7
  <2> QED
    BY <2>6, <2>8
<1>9. V(s) \in Int
  BY <1>7
<1>10. \A x \in s : V(s) = a[x] + V(s \ {x})
  BY <1>7, <1>8
<1> QED
  BY <1>2, <1>9, <1>10

LEMMA SumOfNone ==
  ASSUME NEW a
  PROVE  SumFunctionOnSet(a, {}) = 0
BY SumUnfolds, FS_EmptySet

LEMMA SumAdds ==
  ASSUME NEW S, IsFiniteSet(S), NEW a, \A x \in S : a[x] \in Int, NEW y, y \notin S, a[y] \in Int
  PROVE  SumFunctionOnSet(a, S \cup {y}) = a[y] + SumFunctionOnSet(a, S)
<1>1. IsFiniteSet(S \cup {y}) /\ (S \cup {y}) \ {y} = S
  BY FS_AddElement
<1> QED
  BY <1>1, SumSplits

LEMMA SumIsNatural ==
  ASSUME NEW S, IsFiniteSet(S), NEW a, \A x \in S : a[x] \in Nat
  PROVE  SumFunctionOnSet(a, S) \in Nat
<1> DEFINE Good == {T \in SUBSET S : SumFunctionOnSet(a, T) \in Nat}
<1>1. {} \in Good
  BY SumOfNone
<1>2. ASSUME NEW T \in SUBSET S, NEW x \in S \ T, T \in Good
      PROVE  T \cup {x} \in Good
  <2>1. IsFiniteSet(T) /\ a[x] \in Int /\ \A y \in T : a[y] \in Int
    BY FS_Subset
  <2>2. SumFunctionOnSet(a, T \cup {x}) = a[x] + SumFunctionOnSet(a, T)
    BY <2>1, SumAdds
  <2> QED BY <1>2, <2>2
<1> HIDE DEF Good
<1>3. S \in Good
  BY <1>1, <1>2, OneByOne
<1> QED BY <1>3 DEF Good

LEMMA SumIsOfValues ==
  ASSUME NEW S, IsFiniteSet(S), NEW a, NEW b, \A x \in S : a[x] \in Int, \A x \in S : b[x] = a[x]
  PROVE  SumFunctionOnSet(b, S) = SumFunctionOnSet(a, S)
<1> DEFINE Good == {T \in SUBSET S : SumFunctionOnSet(b, T) = SumFunctionOnSet(a, T)}
<1>1. {} \in Good
  BY SumOfNone
<1>2. ASSUME NEW T \in SUBSET S, NEW x \in S \ T, T \in Good
      PROVE  T \cup {x} \in Good
  <2>1. IsFiniteSet(T) /\ \A y \in T : a[y] \in Int /\ b[y] \in Int
    BY FS_Subset
  <2>2. /\ SumFunctionOnSet(a, T \cup {x}) = a[x] + SumFunctionOnSet(a, T)
        /\ SumFunctionOnSet(b, T \cup {x}) = b[x] + SumFunctionOnSet(b, T)
    BY <2>1, SumAdds
  <2> QED BY <1>2, <2>2
<1> HIDE DEF Good
<1>3. S \in Good
  BY <1>1, <1>2, OneByOne
<1> QED BY <1>3 DEF Good

(* Sums of disjoint sets add up. *)
LEMMA SumsAddUp ==
  ASSUME NEW S, IsFiniteSet(S), NEW a, \A x \in S : a[x] \in Int, NEW T, NEW U, T \cup U = S, T \cap U = {}
  PROVE  /\ SumFunctionOnSet(a, S) = SumFunctionOnSet(a, T) + SumFunctionOnSet(a, U)
         /\ SumFunctionOnSet(a, T) \in Int /\ SumFunctionOnSet(a, U) \in Int
<1> DEFINE V(u) == SumFunctionOnSet(a, u)
           Good == {W \in SUBSET U : V(T \cup W) = V(T) + V(W)}
<1>1. IsFiniteSet(T) /\ IsFiniteSet(U) /\ T \subseteq S /\ U \subseteq S
  BY FS_Subset
<1>2. V(T) \in Int /\ V(U) \in Int
  BY <1>1, SumSplits
<1>3. {} \in Good
  BY <1>2, SumOfNone
<1>4. ASSUME NEW W \in SUBSET U, NEW x \in U \ W, W \in Good
      PROVE  W \cup {x} \in Good
  <2>1. /\ IsFiniteSet(W) /\ IsFiniteSet(T \cup W) /\ \A y \in T \cup W : a[y] \in Int
        /\ a[x] \in Int /\ x \notin T \cup W
    BY <1>1, <1>4, FS_Subset, FS_Union
  <2>2. V((T \cup W) \cup {x}) = a[x] + V(T \cup W) /\ V(W \cup {x}) = a[x] + V(W) /\ V(W) \in Int
    BY <2>1, SumAdds, SumSplits
  <2>3. (T \cup W) \cup {x} = T \cup (W \cup {x})
    OBVIOUS
  <2>4. V(T \cup W) = V(T) + V(W)
    BY <1>4
  <2>5. V(T \cup (W \cup {x})) = a[x] + V(T \cup W)
    BY <2>2, <2>3
  <2>6. V(T \cup (W \cup {x})) = V(T) + V(W \cup {x})
    <3> HIDE DEF V
    <3>1. a[x] \in Int /\ V(T) \in Int /\ V(W) \in Int
      BY <1>2, <2>1, <2>2
    <3>2. a[x] + (V(T) + V(W)) = V(T) + (a[x] + V(W))
      BY <3>1
    <3> QED BY <2>2, <2>4, <2>5, <3>2
  <2> QED BY <1>4, <2>6
<1> HIDE DEF Good
<1>5. U \in Good
  BY <1>1, <1>3, <1>4, OneByOne
<1> QED BY <1>2, <1>5 DEF Good
=============================================================================
