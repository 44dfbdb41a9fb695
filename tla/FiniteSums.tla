----------------------------- MODULE FiniteSums -----------------------------
(***************************************************************************)
(* Facts about finite sets and about the sum of a function over one        *)
(* (SumFunctionOnSet), for the proofs about properties that add up rows.   *)
(***************************************************************************)
EXTENDS Functions, FiniteSetTheorems, TLAPS

(* Induction over the subsets of a finite set, in the form of a set G of   *)
(* the subsets that are good: what holds of no rows, and still when one    *)
(* more is added, holds of any finite set of rows.                         *)
THEOREM SubsetInduction ==
  ASSUME NEW S, IsFiniteSet(S), NEW G, {} \in G,
         \A T \in SUBSET S, x \in S : x \notin T /\ T \in G => T \cup {x} \in G
  PROVE  \A T \in SUBSET S : T \in G
<1> DEFINE Bad == {T \in SUBSET S : T \notin G}
<1> SUFFICES ASSUME Bad # {} PROVE FALSE
  OBVIOUS
<1>1. IsWellFoundedOn(StrictSubsetOrdering(S), SUBSET S)
  BY FS_StrictSubsetOrderingWellFounded, FS_FiniteSubsetsOfFinite
<1>2. Bad \subseteq SUBSET S
  OBVIOUS
<1> HIDE DEF Bad
<1>3. PICK T \in Bad : \A U \in Bad : <<U, T>> \notin StrictSubsetOrdering(S)
  BY <1>1, <1>2, WFMin
<1> USE DEF Bad
<1>4. PICK x \in T : TRUE
  OBVIOUS
<1>5. T \ {x} \in SUBSET S /\ T \ {x} # T /\ T \ {x} \subseteq T
  BY <1>4
<1>6. <<T \ {x}, T>> \in StrictSubsetOrdering(S)
  BY <1>5 DEF StrictSubsetOrdering
<1>7. T \ {x} \in G
  BY <1>3, <1>5, <1>6
<1>8. (T \ {x}) \cup {x} = T
  BY <1>4
<1> QED BY <1>5, <1>7, <1>8, <1>4

-----------------------------------------------------------------------------
(* The recursion behind SumFunctionOnSet: it takes out one chosen element  *)
(* after the other.                                                        *)
Some(s) == CHOOSE x \in s : TRUE

IsIter(it, F, S) ==
  it = [s \in SUBSET S |-> IF s = {} THEN 0 ELSE F[Some(s)] + it[s \ {Some(s)}]]

LEMMA SumDef ==
  ASSUME NEW F, NEW S
  PROVE  SumFunctionOnSet(F, S) = (CHOOSE it : IsIter(it, F, S))[S]
BY DEF SumFunctionOnSet, FoldFunctionOnSet, MapThenFoldSet, IsIter, Some

(* A minimal bad subset.                                                   *)
LEMMA LeastSubset ==
  ASSUME NEW S, IsFiniteSet(S), NEW Bad \in SUBSET SUBSET S, Bad # {}
  PROVE  \E T \in Bad : \A U \in SUBSET T : U # T => U \notin Bad
<1>1. IsWellFoundedOn(StrictSubsetOrdering(S), SUBSET S)
  BY FS_StrictSubsetOrderingWellFounded, FS_FiniteSubsetsOfFinite
<1>2. PICK T \in Bad : \A U \in Bad : <<U, T>> \notin StrictSubsetOrdering(S)
  BY <1>1, WFMin
<1> QED BY <1>2 DEF StrictSubsetOrdering

LEMMA IterUnique ==
  ASSUME NEW S, IsFiniteSet(S), NEW F, NEW f, NEW g, IsIter(f, F, S), IsIter(g, F, S)
  PROVE  f = g
<1> DEFINE Bad == {T \in SUBSET S : f[T] # g[T]}
<1>1. /\ \A s \in SUBSET S : f[s] = IF s = {} THEN 0 ELSE F[Some(s)] + f[s \ {Some(s)}]
      /\ \A s \in SUBSET S : g[s] = IF s = {} THEN 0 ELSE F[Some(s)] + g[s \ {Some(s)}]
      /\ f = [s \in SUBSET S |-> f[s]] /\ g = [s \in SUBSET S |-> g[s]]
  BY DEF IsIter
<1>2. CASE Bad = {}
  BY <1>1, <1>2
<1>3. CASE Bad # {}
  <2>1. PICK T \in Bad : \A U \in SUBSET T : U # T => U \notin Bad
    <3> HIDE DEF Bad
    <3>1. Bad \in SUBSET SUBSET S
      BY DEF Bad
    <3> QED BY <1>3, <3>1, LeastSubset
  <2>2. T # {}
    BY <1>1, <2>1
  <2>3. Some(T) \in T
    BY <2>2 DEF Some
  <2>4. T \ {Some(T)} \notin Bad
    BY <2>1, <2>3
  <2> QED BY <1>1, <2>1, <2>2, <2>4
<1> QED BY <1>2, <1>3

(* One step of the recursion.                                              *)
Unfolds(F, s) ==
  SumFunctionOnSet(F, s) = IF s = {} THEN 0
                           ELSE F[Some(s)] + SumFunctionOnSet(F, s \ {Some(s)})

LEMMA SumUnfolds ==
  ASSUME NEW S, IsFiniteSet(S), NEW F
  PROVE  Unfolds(F, S)
<1> DEFINE Bad == {T \in SUBSET S : ~Unfolds(F, T)}
<1> SUFFICES ASSUME Bad # {} PROVE FALSE
  OBVIOUS
<1>1. PICK T \in Bad : \A U \in SUBSET T : U # T => U \notin Bad
  <2> HIDE DEF Bad
  <2>1. Bad \in SUBSET SUBSET S
    BY DEF Bad
  <2> QED BY <2>1, LeastSubset
<1>2. T \in SUBSET S /\ ~Unfolds(F, T) /\ IsFiniteSet(T)
  BY <1>1, FS_Subset
<1>3. \A U \in SUBSET T : U # T => Unfolds(F, U)
  BY <1>1, <1>2
<1> HIDE DEF Bad
<1> DEFINE sum(s) == SumFunctionOnSet(F, s)
           top == IF T = {} THEN 0 ELSE F[Some(T)] + sum(T \ {Some(T)})
           h == [s \in SUBSET T |-> IF s = T THEN top ELSE sum(s)]
<1>4. \A s \in SUBSET T : s # {} => Some(s) \in s
  BY DEF Some
<1>5. IsIter(h, F, T)
  <2>1. ASSUME NEW s \in SUBSET T, s # T
        PROVE  h[s] = IF s = {} THEN 0 ELSE F[Some(s)] + h[s \ {Some(s)}]
    <3>1. h[s] = sum(s)
      BY <2>1
    <3>2. sum(s) = IF s = {} THEN 0 ELSE F[Some(s)] + sum(s \ {Some(s)})
      BY <1>3, <2>1 DEF Unfolds
    <3>3. s \ {Some(s)} \in SUBSET T /\ s \ {Some(s)} # T
      BY <2>1
    <3>4. h[s \ {Some(s)}] = sum(s \ {Some(s)})
      BY <3>3
    <3> HIDE DEF h, sum
    <3> QED BY <3>1, <3>2, <3>4
  <2>2. h[T] = IF T = {} THEN 0 ELSE F[Some(T)] + h[T \ {Some(T)}]
    <3>1. CASE T = {}
      BY <3>1
    <3>2. CASE T # {}
      <4>1. T \ {Some(T)} \in SUBSET T /\ T \ {Some(T)} # T
        BY <1>4, <3>2
      <4>2. h[T \ {Some(T)}] = sum(T \ {Some(T)})
        BY <4>1
      <4>3. h[T] = top
        OBVIOUS
      <4> HIDE DEF h, sum
      <4> QED BY <3>2, <4>2, <4>3
    <3> QED BY <3>1, <3>2
  <2>3. h = [s \in SUBSET T |-> h[s]]
    OBVIOUS
  <2> HIDE DEF h
  <2> QED BY <2>1, <2>2, <2>3 DEF IsIter
<1>6. IsIter(CHOOSE it : IsIter(it, F, T), F, T)
  <2> HIDE DEF h
  <2> QED BY <1>5
<1>7. (CHOOSE it : IsIter(it, F, T)) = h
  <2> HIDE DEF h
  <2> QED BY <1>2, <1>5, <1>6, IterUnique
<1>8. sum(T) = h[T]
  BY <1>7, SumDef
<1>9. h[T] = top
  OBVIOUS
<1> QED BY <1>2, <1>8, <1>9 DEF Unfolds
-----------------------------------------------------------------------------
LEMMA SumEmpty ==
  ASSUME NEW F
  PROVE  SumFunctionOnSet(F, {}) = 0
BY SumUnfolds, FS_EmptySet DEF Unfolds

LEMMA SumInt ==
  ASSUME NEW S, IsFiniteSet(S), NEW F, \A x \in S : F[x] \in Int
  PROVE  SumFunctionOnSet(F, S) \in Int
<1> DEFINE Bad == {T \in SUBSET S : SumFunctionOnSet(F, T) \notin Int}
<1> SUFFICES ASSUME Bad # {} PROVE FALSE
  OBVIOUS
<1>1. PICK T \in Bad : \A U \in SUBSET T : U # T => U \notin Bad
  <2> HIDE DEF Bad
  <2>1. Bad \in SUBSET SUBSET S
    BY DEF Bad
  <2> QED BY <2>1, LeastSubset
<1>2. IsFiniteSet(T)
  BY <1>1, FS_Subset
<1>3. T # {}
  <2>1. SumFunctionOnSet(F, {}) \in Int
    BY SumEmpty
  <2> QED BY <1>1, <2>1
<1>4. Some(T) \in T
  BY <1>3 DEF Some
<1>5. SumFunctionOnSet(F, T) = F[Some(T)] + SumFunctionOnSet(F, T \ {Some(T)})
  BY <1>2, <1>3, SumUnfolds DEF Unfolds
<1>6. SumFunctionOnSet(F, T \ {Some(T)}) \in Int
  BY <1>1, <1>4
<1> QED BY <1>1, <1>4, <1>5, <1>6

(* Any element can be taken out first.                                     *)
LEMMA SumRemove ==
  ASSUME NEW S, IsFiniteSet(S), NEW F, \A x \in S : F[x] \in Int, NEW o \in S
  PROVE  SumFunctionOnSet(F, S) = F[o] + SumFunctionOnSet(F, S \ {o})
<1> DEFINE sum(s) == SumFunctionOnSet(F, s)
           Bad == {T \in SUBSET S : \E y \in T : sum(T) # F[y] + sum(T \ {y})}
<1> SUFFICES ASSUME Bad # {} PROVE FALSE
  OBVIOUS
<1>1. PICK T \in Bad : \A U \in SUBSET T : U # T => U \notin Bad
  <2> HIDE DEF Bad
  <2>1. Bad \in SUBSET SUBSET S
    BY DEF Bad
  <2> QED BY <2>1, LeastSubset
<1>2. PICK y \in T : sum(T) # F[y] + sum(T \ {y})
  BY <1>1
<1> DEFINE x == Some(T)
<1>3. x \in T /\ T \in SUBSET S
  BY <1>1, <1>2 DEF Some
<1>4. /\ IsFiniteSet(T) /\ IsFiniteSet(T \ {x}) /\ IsFiniteSet(T \ {y})
      /\ IsFiniteSet((T \ {x}) \ {y})
  BY <1>3, FS_Subset
<1>5. sum(T) = F[x] + sum(T \ {x})
  BY <1>3, <1>4, SumUnfolds DEF Unfolds
<1>6. x # y
  BY <1>2, <1>5
<1>7. sum(T \ {x}) = F[y] + sum((T \ {x}) \ {y})
  <2>1. T \ {x} \in SUBSET T /\ T \ {x} # T /\ y \in T \ {x}
    BY <1>2, <1>3, <1>6
  <2> QED BY <1>1, <2>1
<1>8. sum(T \ {y}) = F[x] + sum((T \ {y}) \ {x})
  <2>1. T \ {y} \in SUBSET T /\ T \ {y} # T /\ x \in T \ {y}
    BY <1>2, <1>3, <1>6
  <2> QED BY <1>1, <2>1
<1>9. (T \ {x}) \ {y} = (T \ {y}) \ {x}
  OBVIOUS
<1> DEFINE c == sum((T \ {x}) \ {y})
<1>10. F[x] \in Int /\ F[y] \in Int /\ c \in Int
  BY <1>2, <1>3, <1>4, SumInt
<1>11. \A i, j, k \in Int : i + (j + k) = j + (i + k)
  OBVIOUS
<1>12. sum(T) = F[x] + (F[y] + c)
  BY <1>5, <1>7
<1>13. sum(T \ {y}) = F[x] + c
  BY <1>8, <1>9
<1>14. F[x] + (F[y] + c) = F[y] + (F[x] + c)
  <2> HIDE DEF c, x
  <2> QED BY <1>10, <1>11
<1> QED BY <1>2, <1>12, <1>13, <1>14

LEMMA SumAdd ==
  ASSUME NEW S, IsFiniteSet(S), NEW F, NEW o, o \notin S, \A x \in S \cup {o} : F[x] \in Int
  PROVE  SumFunctionOnSet(F, S \cup {o}) = F[o] + SumFunctionOnSet(F, S)
<1>1. IsFiniteSet(S \cup {o}) /\ (S \cup {o}) \ {o} = S
  BY FS_AddElement
<1> QED BY <1>1, SumRemove

(* Only the values on the set count.                                       *)
LEMMA SumSame ==
  ASSUME NEW S, IsFiniteSet(S), NEW F, NEW H, \A x \in S : F[x] = H[x]
  PROVE  SumFunctionOnSet(F, S) = SumFunctionOnSet(H, S)
<1> DEFINE Bad == {T \in SUBSET S : SumFunctionOnSet(F, T) # SumFunctionOnSet(H, T)}
<1> SUFFICES ASSUME Bad # {} PROVE FALSE
  OBVIOUS
<1>1. PICK T \in Bad : \A U \in SUBSET T : U # T => U \notin Bad
  <2> HIDE DEF Bad
  <2>1. Bad \in SUBSET SUBSET S
    BY DEF Bad
  <2> QED BY <2>1, LeastSubset
<1>2. IsFiniteSet(T)
  BY <1>1, FS_Subset
<1>3. T # {}
  BY <1>1, SumEmpty
<1>4. Some(T) \in T
  BY <1>3 DEF Some
<1>5. /\ SumFunctionOnSet(F, T) = F[Some(T)] + SumFunctionOnSet(F, T \ {Some(T)})
      /\ SumFunctionOnSet(H, T) = H[Some(T)] + SumFunctionOnSet(H, T \ {Some(T)})
  BY <1>2, <1>3, SumUnfolds DEF Unfolds
<1>6. SumFunctionOnSet(F, T \ {Some(T)}) = SumFunctionOnSet(H, T \ {Some(T)})
  BY <1>1, <1>4
<1> QED BY <1>1, <1>4, <1>5, <1>6

(* A sum over rows follows the one row that a step changes, in whatever    *)
(* order the sum takes them: the fact behind every property that adds up   *)
(* the units or the money of orders (lib/stock.ts, refunds/route.ts).      *)
THEOREM SumChange ==
  ASSUME NEW S, IsFiniteSet(S), NEW F, NEW H, NEW o \in S,
         \A x \in S : F[x] \in Int /\ H[x] \in Int,
         \A x \in S \ {o} : F[x] = H[x]
  PROVE  SumFunctionOnSet(H, S) = SumFunctionOnSet(F, S) - F[o] + H[o]
<1>1. IsFiniteSet(S \ {o})
  BY FS_RemoveElement
<1>2. /\ SumFunctionOnSet(F, S) = F[o] + SumFunctionOnSet(F, S \ {o})
      /\ SumFunctionOnSet(H, S) = H[o] + SumFunctionOnSet(H, S \ {o})
  BY SumRemove
<1>3. SumFunctionOnSet(F, S \ {o}) = SumFunctionOnSet(H, S \ {o})
  BY <1>1, SumSame
<1>4. SumFunctionOnSet(F, S \ {o}) \in Int
  BY <1>1, SumInt
<1> QED BY <1>2, <1>3, <1>4

(* A larger set with larger values, none of them negative.                 *)
LEMMA SumMonotone ==
  ASSUME NEW S, IsFiniteSet(S), NEW R \in SUBSET S, NEW F, NEW H,
         \A x \in S : H[x] \in Nat,
         \A x \in R : F[x] \in Int /\ F[x] <= H[x]
  PROVE  SumFunctionOnSet(F, R) <= SumFunctionOnSet(H, S)
<1> DEFINE sum(T) == SumFunctionOnSet(F, T \cap R)
           all(T) == SumFunctionOnSet(H, T)
           G == {T \in SUBSET S : sum(T) <= all(T)}
<1>1. {} \in G
  BY SumEmpty
<1>2. ASSUME NEW T \in SUBSET S, NEW x \in S, x \notin T, T \in G
      PROVE  T \cup {x} \in G
  <2>1. IsFiniteSet(T) /\ IsFiniteSet(T \cap R)
    BY FS_Subset
  <2>2. sum(T) \in Int /\ all(T) \in Int
    BY <2>1, SumInt
  <2>3. all(T \cup {x}) = H[x] + all(T)
    <3>1. \A y \in T \cup {x} : H[y] \in Int
      OBVIOUS
    <3> QED BY <1>2, <2>1, <3>1, SumAdd
  <2>4. sum(T \cup {x}) = IF x \in R THEN F[x] + sum(T) ELSE sum(T)
    <3>1. CASE x \in R
      <4>1. (T \cup {x}) \cap R = (T \cap R) \cup {x} /\ x \notin T \cap R
        BY <1>2, <3>1
      <4>2. \A y \in (T \cap R) \cup {x} : F[y] \in Int
        BY <3>1
      <4>3. SumFunctionOnSet(F, (T \cap R) \cup {x}) = F[x] + SumFunctionOnSet(F, T \cap R)
        BY <2>1, <4>1, <4>2, SumAdd
      <4> QED BY <3>1, <4>1, <4>3
    <3>2. CASE x \notin R
      <4>1. (T \cup {x}) \cap R = T \cap R
        BY <3>2
      <4> QED BY <3>2, <4>1
    <3> QED BY <3>1, <3>2
  <2>5. sum(T) <= all(T)
    BY <1>2
  <2>6. H[x] \in Nat /\ (x \in R => F[x] \in Int /\ F[x] <= H[x])
    OBVIOUS
  <2>7. sum(T \cup {x}) <= all(T \cup {x})
    <3> HIDE DEF sum, all
    <3> QED BY <2>2, <2>3, <2>4, <2>5, <2>6
  <2> QED BY <2>7
<1>3. S \in G
  <2> HIDE DEF G
  <2> QED BY <1>1, <1>2, SubsetInduction
<1>4. S \cap R = R
  OBVIOUS
<1> QED BY <1>3, <1>4

LEMMA SumZero ==
  ASSUME NEW S, IsFiniteSet(S), NEW F, \A x \in S : F[x] = 0
  PROVE  SumFunctionOnSet(F, S) = 0
<1> DEFINE G == {T \in SUBSET S : SumFunctionOnSet(F, T) = 0}
<1>1. {} \in G
  BY SumEmpty
<1>2. ASSUME NEW T \in SUBSET S, NEW x \in S, x \notin T, T \in G
      PROVE  T \cup {x} \in G
  <2>1. IsFiniteSet(T)
    BY FS_Subset
  <2>2. \A y \in T \cup {x} : F[y] \in Int
    OBVIOUS
  <2>3. SumFunctionOnSet(F, T \cup {x}) = F[x] + SumFunctionOnSet(F, T)
    BY <1>2, <2>1, <2>2, SumAdd
  <2> QED BY <1>2, <2>3
<1>3. S \in G
  <2> HIDE DEF G
  <2> QED BY <1>1, <1>2, SubsetInduction
<1> QED BY <1>3

LEMMA SumNat ==
  ASSUME NEW S, IsFiniteSet(S), NEW F, \A x \in S : F[x] \in Nat
  PROVE  SumFunctionOnSet(F, S) \in Nat
<1>1. SumFunctionOnSet(F, {}) <= SumFunctionOnSet(F, S)
  BY SumMonotone
<1>2. \A x \in S : F[x] \in Int
  OBVIOUS
<1>3. SumFunctionOnSet(F, S) \in Int
  BY <1>2, SumInt
<1> QED BY <1>1, <1>3, SumEmpty

-----------------------------------------------------------------------------
(* Induction over the natural numbers, in the form of a set.               *)
LEMMA NatSetInduction ==
  ASSUME NEW G, 0 \in G, \A n \in Nat : n \in G => n + 1 \in G
  PROVE  \A n \in Nat : n \in G
<1> SUFFICES ASSUME NEW N \in Nat, N \notin G PROVE FALSE
  OBVIOUS
<1> DEFINE Bad == {0..k : k \in {i \in 0..N : i \notin G}}
<1>1. IsFiniteSet(0..N)
  BY FS_Interval
<1>2. Bad \subseteq SUBSET (0..N) /\ 0..N \in Bad
  OBVIOUS
<1>3. \E T \in Bad : \A U \in SUBSET T : U # T => U \notin Bad
  <2>1. Bad \in SUBSET SUBSET (0..N) /\ Bad # {}
    BY <1>2
  <2> HIDE DEF Bad
  <2> QED BY <1>1, <2>1, LeastSubset
<1>4. PICK m \in 0..N : m \notin G /\ \A U \in SUBSET (0..m) : U # 0..m => U \notin Bad
  BY <1>3
<1>5. m # 0 /\ m - 1 \in 0..N /\ m - 1 \notin G
  BY <1>4
<1>6. 0..(m - 1) \in SUBSET (0..m) /\ 0..(m - 1) # 0..m /\ 0..(m - 1) \in Bad
  BY <1>5
<1> QED
  BY <1>4, <1>6
=============================================================================
