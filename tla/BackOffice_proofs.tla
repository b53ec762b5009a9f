-------------------------- MODULE BackOffice_proofs --------------------------
(***************************************************************************)
(* Theorems about what becomes of a workbook: its orders are found on its  *)
(* sheets, it becomes a snapshot, and removals and drifts explain what     *)
(* differs from the snapshot before.  And about figures: what queries of   *)
(* different services find is the same, whichever way it is grouped, and   *)
(* corrections that overlap leave an implied price that is its row's.      *)
(***************************************************************************)
EXTENDS BackOffice, FiniteSetTheorems, SequenceTheorems, WellFoundedInduction, TLAPS

-----------------------------------------------------------------------------
(* Least numbers.                                                          *)

LEMMA LeastNatural ==
    ASSUME NEW T, T \subseteq Nat, T # {}
    PROVE  \E x \in T : \A y \in T : x <= y
<1> DEFINE R == OpToRel(<, Nat)
<1>1. IsWellFoundedOn(R, Nat)
  BY NatLessThanWellFounded
<1>2. \A x, y \in Nat : x < y => <<x, y>> \in R
  BY DEF OpToRel
<1> HIDE DEF R
<1>3. PICK x \in T : \A y \in T : ~(<<y, x>> \in R)
  BY <1>1, WFMin
<1>4. ASSUME NEW y \in T PROVE x <= y
  <2>1. x \in Nat /\ y \in Nat
    OBVIOUS
  <2>2. ~(<<y, x>> \in R)
    BY <1>3
  <2>3. ~(y < x)
    BY ONLY <2>1, <2>2, <1>2
  <2> QED BY ONLY <2>1, <2>3
<1> QED BY <1>4

LEMMA FirstOf ==
    ASSUME NEW P, P \subseteq Nat, P # {}
    PROVE  First(P) \in P /\ \A j \in P : First(P) <= j
BY LeastNatural DEF First

LEMMA FirstIs ==
    ASSUME NEW P, P \subseteq Nat, NEW m \in P, \A j \in P : m <= j
    PROVE  First(P) = m
<1>1. First(P) \in P /\ \A j \in P : First(P) <= j
  BY FirstOf
<1>2. First(P) <= m /\ m <= First(P) /\ First(P) \in Nat /\ m \in Nat
  BY <1>1
<1> QED BY ONLY <1>2

LEMMA FirstOfNone == First({}) = None
BY DEF First

LEMMA AtMostOne ==
    ASSUME NEW S, IsFiniteSet(S), Cardinality(S) <= 1, NEW a \in S, NEW b \in S
    PROVE  a = b
<1> SUFFICES ASSUME a # b PROVE FALSE
  OBVIOUS
<1>1. IsFiniteSet({a}) /\ Cardinality({a}) = 1
  BY FS_Singleton
<1>2. Cardinality({a} \cup {b}) = 2
  BY <1>1, FS_AddElement
<1>3. {a} \cup {b} \in SUBSET S
  OBVIOUS
<1>4. Cardinality({a} \cup {b}) <= Cardinality(S)
  BY <1>3, FS_Subset
<1>5. Cardinality(S) \in Nat
  BY FS_CardinalityType
<1> QED BY <1>2, <1>4, <1>5

LEMMA AtMostTwo ==
    ASSUME NEW S, IsFiniteSet(S), Cardinality(S) <= 2,
           NEW a \in S, NEW b \in S, a # b, NEW c \in S
    PROVE  c \in {a, b}
<1> SUFFICES ASSUME c \notin {a, b} PROVE FALSE
  OBVIOUS
<1>1. IsFiniteSet({a}) /\ Cardinality({a}) = 1
  BY FS_Singleton
<1>a. \A T, x : IsFiniteSet(T) /\ x \notin T =>
          IsFiniteSet(T \cup {x}) /\ Cardinality(T \cup {x}) = Cardinality(T) + 1
  BY FS_AddElement
<1>2. IsFiniteSet({a} \cup {b}) /\ Cardinality({a} \cup {b}) = 2
  <2>1. b \notin {a}
    OBVIOUS
  <2> QED BY ONLY <1>1, <1>a, <2>1
<1>3. Cardinality(({a} \cup {b}) \cup {c}) = 3
  <2>1. c \notin {a} \cup {b}
    OBVIOUS
  <2> QED BY ONLY <1>2, <1>a, <2>1
<1>4. ({a} \cup {b}) \cup {c} \in SUBSET S
  OBVIOUS
<1>5. Cardinality(({a} \cup {b}) \cup {c}) <= Cardinality(S)
  BY <1>4, FS_Subset
<1>6. Cardinality(S) \in Nat
  BY FS_CardinalityType
<1> QED BY <1>3, <1>5, <1>6

LEMMA RowsAreFinite ==
    ASSUME NEW n \in Nat, NEW P, P \subseteq 1..n
    PROVE  IsFiniteSet(P) /\ Cardinality(P) \in Nat
<1>1. IsFiniteSet(1..n)
  BY FS_Interval
<1> QED BY <1>1, FS_Subset, FS_CardinalityType

-----------------------------------------------------------------------------
(* Sums.  What holds of nothing, and still when an element is added, holds *)
(* of every finite set.                                                    *)

LEMMA SetsBuildUp ==
    ASSUME NEW U, IsFiniteSet(U), NEW C, {} \in C,
           \A T \in SUBSET U : \A x \in U \ T : T \in C => T \cup {x} \in C
    PROVE  U \in C
<1> DEFINE bad == {n \in Nat : \E T \in SUBSET U : T \notin C /\ Cardinality(T) = n}
<1>1. \A T \in SUBSET U : IsFiniteSet(T) /\ Cardinality(T) \in Nat
  BY FS_Subset, FS_CardinalityType
<1>2. bad = {}
  <2> SUFFICES ASSUME bad # {} PROVE FALSE
    OBVIOUS
  <2>1. PICK n \in bad : \A k \in bad : n <= k
    <3>1. bad \subseteq Nat
      OBVIOUS
    <3> HIDE DEF bad
    <3> QED BY <3>1, LeastNatural
  <2>2. PICK T \in SUBSET U : T \notin C /\ Cardinality(T) = n
    BY <2>1
  <2>3. PICK x \in T : TRUE
    BY <2>2
  <2>4. IsFiniteSet(T \ {x}) /\ Cardinality(T \ {x}) = n - 1
    BY <1>1, <2>2, <2>3, FS_RemoveElement
  <2>5. n - 1 \in Nat /\ n \in Nat
    BY <2>1, <2>4, FS_CardinalityType
  <2>6. T \ {x} \in C
    <3> SUFFICES ASSUME T \ {x} \notin C PROVE FALSE
      OBVIOUS
    <3>1. n - 1 \in bad
      BY <2>4, <2>5
    <3> HIDE DEF bad
    <3>2. n <= n - 1
      BY <2>1, <3>1
    <3> QED BY <2>5, <3>2
  <2>7. (T \ {x}) \cup {x} \in C
    BY <2>6
  <2>8. (T \ {x}) \cup {x} = T
    BY <2>3
  <2> QED BY <2>2, <2>7, <2>8
<1>3. U \in SUBSET U /\ Cardinality(U) \in Nat
  BY <1>1
<1> QED BY <1>2, <1>3

(* g gives the sum of f over each subset of U. *)
Additive(f, U, g) ==
    /\ g \in [SUBSET U -> Int]
    /\ g[{}] = 0
    /\ \A T \in SUBSET U : \A x \in U \ T : g[T \cup {x}] = g[T] + f[x]

LEMMA AdditiveExists ==
    ASSUME NEW f, NEW U, IsFiniteSet(U), \A x \in U : f[x] \in Int
    PROVE  \E g : Additive(f, U, g)
<1> DEFINE C == {T \in SUBSET U : \E g : Additive(f, T, g)}
<1>1. {} \in C
  <2>1. Additive(f, {}, [T \in SUBSET {} |-> 0])
    BY DEF Additive
  <2> QED BY <2>1
<1>2. ASSUME NEW T \in SUBSET U, NEW x \in U \ T, T \in C
      PROVE  T \cup {x} \in C
  <2>1. PICK g : Additive(f, T, g)
    BY <1>2
  <2> DEFINE V == T \cup {x}
             h == [R \in SUBSET V |-> IF x \in R THEN g[R \ {x}] + f[x] ELSE g[R]]
  <2>2. \A R \in SUBSET V : R \ {x} \in SUBSET T /\ (x \notin R => R \in SUBSET T)
    OBVIOUS
  <2>3. \A R \in SUBSET T : g[R] \in Int
    BY <2>1 DEF Additive
  <2>4. f[x] \in Int
    OBVIOUS
  <2>5. h \in [SUBSET V -> Int]
    BY <2>2, <2>3, <2>4
  <2>6. h[{}] = 0
    BY <2>1 DEF Additive
  <2>7. ASSUME NEW R \in SUBSET V, NEW y \in V \ R
        PROVE  h[R \cup {y}] = h[R] + f[y]
    <3>1. R \cup {y} \in SUBSET V
      OBVIOUS
    <3>2. CASE y = x
      <4>1. (R \cup {y}) \ {x} = R /\ x \notin R
        BY <2>7, <3>2
      <4> QED BY <3>1, <3>2, <4>1
    <3>3. CASE y # x /\ x \in R
      <4>1. (R \cup {y}) \ {x} = (R \ {x}) \cup {y} /\ x \in R \cup {y} /\ y \in T \ (R \ {x})
        BY <2>7, <3>3
      <4>2. g[(R \ {x}) \cup {y}] = g[R \ {x}] + f[y]
        BY <2>1, <2>2, <4>1 DEF Additive
      <4>3. g[R \ {x}] \in Int /\ f[y] \in Int
        BY <2>2, <2>3, <4>1
      <4>4. h[R \cup {y}] = g[(R \ {x}) \cup {y}] + f[x] /\ h[R] = g[R \ {x}] + f[x]
        BY <3>1, <3>3, <4>1
      <4> QED BY <2>4, <4>2, <4>3, <4>4
    <3>4. CASE y # x /\ x \notin R
      <4>1. x \notin R \cup {y} /\ R \in SUBSET T /\ y \in T \ R
        BY <2>7, <3>4
      <4>2. g[R \cup {y}] = g[R] + f[y]
        BY <2>1, <4>1 DEF Additive
      <4> QED BY <3>1, <3>4, <4>1, <4>2
    <3> QED BY <3>2, <3>3, <3>4
  <2> HIDE DEF h
  <2>8. Additive(f, V, h)
    BY <2>5, <2>6, <2>7 DEF Additive
  <2> QED BY <2>8
<1> HIDE DEF C
<1>3. U \in C
  BY <1>1, <1>2, SetsBuildUp
<1> QED BY <1>3 DEF C

Picked(T) == CHOOSE x \in T : TRUE

(* h unfolds as a fold does.                                               *)
Unfolds(f, U, h) ==
    \A T \in SUBSET U :
        h[T] = IF T = {} THEN 0 ELSE f[Picked(T)] + h[T \ {Picked(T)}]

(* A function that unfolds as a fold does is the additive one.             *)
LEMMA FoldIsAdditive ==
    ASSUME NEW f, NEW U, IsFiniteSet(U), \A x \in U : f[x] \in Int,
           NEW g, Additive(f, U, g), NEW h, Unfolds(f, U, h)
    PROVE  \A T \in SUBSET U : h[T] = g[T]
<1> DEFINE bad == {n \in Nat : \E T \in SUBSET U : h[T] # g[T] /\ Cardinality(T) = n}
<1>1. \A T \in SUBSET U : IsFiniteSet(T) /\ Cardinality(T) \in Nat
  BY FS_Subset, FS_CardinalityType
<1>2. bad = {}
  <2> SUFFICES ASSUME bad # {} PROVE FALSE
    OBVIOUS
  <2>1. PICK n \in bad : \A k \in bad : n <= k
    <3>1. bad \subseteq Nat
      OBVIOUS
    <3> HIDE DEF bad
    <3> QED BY <3>1, LeastNatural
  <2>2. PICK T \in SUBSET U : h[T] # g[T] /\ Cardinality(T) = n
    BY <2>1
  <2>3. T # {}
    BY <2>2 DEF Additive, Unfolds
  <2> DEFINE x == Picked(T)
  <2>4. x \in T
    BY <2>3 DEF Picked
  <2>5. h[T] = f[x] + h[T \ {x}]
    BY <2>3 DEF Unfolds
  <2> HIDE DEF x
  <2>6. Cardinality(T \ {x}) = n - 1
    BY <1>1, <2>2, <2>4, FS_RemoveElement
  <2>7. n - 1 \in Nat /\ n \in Nat
    BY <1>1, <2>1, <2>6
  <2>8. h[T \ {x}] = g[T \ {x}]
    <3> SUFFICES ASSUME h[T \ {x}] # g[T \ {x}] PROVE FALSE
      OBVIOUS
    <3>1. n - 1 \in bad
      BY <2>6, <2>7
    <3> HIDE DEF bad
    <3>2. n <= n - 1
      BY <2>1, <3>1
    <3> QED BY <2>7, <3>2
  <2>9. g[(T \ {x}) \cup {x}] = g[T \ {x}] + f[x] /\ (T \ {x}) \cup {x} = T
    BY <2>4 DEF Additive
  <2>10. g[T \ {x}] \in Int /\ f[x] \in Int
    BY <2>4 DEF Additive
  <2>11. g[T] = g[T \ {x}] + f[x]
    BY <2>9
  <2>12. h[T] = g[T]
    BY ONLY <2>5, <2>8, <2>10, <2>11
  <2> QED BY <2>2, <2>12
<1> QED BY <1>1, <1>2

LEMMA SumIsAdditive ==
    ASSUME NEW f, NEW U, IsFiniteSet(U), \A x \in U : f[x] \in Int,
           NEW g, Additive(f, U, g)
    PROVE  SumFunctionOnSet(f, U) = g[U]
<1> DEFINE unfolds(k) ==
        k = [T \in SUBSET U |->
                IF T = {} THEN 0 ELSE f[Picked(T)] + k[T \ {Picked(T)}]]
           h == CHOOSE k : unfolds(k)
<1>1. SumFunctionOnSet(f, U) = h[U]
  BY DEF SumFunctionOnSet, FoldFunctionOnSet, MapThenFoldSet, Picked
<1>2. unfolds(g)
  <2>1. ASSUME NEW T \in SUBSET U
        PROVE  g[T] = IF T = {} THEN 0 ELSE f[Picked(T)] + g[T \ {Picked(T)}]
    <3>1. CASE T = {}
      BY <3>1 DEF Additive
    <3>2. CASE T # {}
      <4> DEFINE x == Picked(T)
      <4>1. x \in T
        BY <3>2 DEF Picked
      <4> HIDE DEF x
      <4>2. g[(T \ {x}) \cup {x}] = g[T \ {x}] + f[x] /\ (T \ {x}) \cup {x} = T
        BY <4>1 DEF Additive
      <4>3. g[T \ {x}] \in Int /\ f[x] \in Int
        BY <4>1 DEF Additive
      <4>4. g[T] = g[T \ {x}] + f[x]
        BY <4>2
      <4>5. g[T] = f[x] + g[T \ {x}]
        BY ONLY <4>3, <4>4
      <4> QED BY <3>2, <4>5 DEF x
    <3> QED BY <3>1, <3>2
  <2>2. g = [T \in SUBSET U |-> g[T]]
    BY DEF Additive
  <2> QED BY <2>1, <2>2
<1>3. unfolds(h)
  BY <1>2
<1> HIDE DEF h
<1>4. Unfolds(f, U, h)
  BY <1>3 DEF Unfolds
<1> HIDE DEF unfolds
<1>5. \A T \in SUBSET U : h[T] = g[T]
  BY <1>4, FoldIsAdditive
<1> QED BY <1>1, <1>5

LEMMA Sums ==
    ASSUME NEW f, NEW U, IsFiniteSet(U), \A x \in U : f[x] \in Int
    PROVE  \E g : Additive(f, U, g) /\ \A T \in SUBSET U : SumFunctionOnSet(f, T) = g[T]
<1>1. PICK g : Additive(f, U, g)
  BY AdditiveExists
<1>2. ASSUME NEW T \in SUBSET U PROVE SumFunctionOnSet(f, T) = g[T]
  <2> DEFINE h == [R \in SUBSET T |-> g[R]]
  <2>1. IsFiniteSet(T) /\ \A x \in T : f[x] \in Int
    BY FS_Subset
  <2>2. \A R \in SUBSET T : R \in SUBSET U /\ \A x \in T \ R : x \in U \ R /\ R \cup {x} \in SUBSET T
    OBVIOUS
  <2>3. Additive(f, T, h)
    BY <1>1, <2>2 DEF Additive
  <2> HIDE DEF h
  <2>4. SumFunctionOnSet(f, T) = h[T]
    BY <2>1, <2>3, SumIsAdditive
  <2> QED BY <2>4 DEF h
<1> QED BY <1>1, <1>2

(* Nothing adds up to nothing. *)
LEMMA SumOfNone ==
    ASSUME NEW f
    PROVE  SumFunctionOnSet(f, {}) = 0
<1>1. IsFiniteSet({})
  BY FS_EmptySet
<1>2. PICK g : Additive(f, {}, g) /\ \A T \in SUBSET {} : SumFunctionOnSet(f, T) = g[T]
  BY <1>1, Sums
<1> QED BY <1>2 DEF Additive

LEMMA SumIsNumber ==
    ASSUME NEW f, NEW T, IsFiniteSet(T), \A x \in T : f[x] \in Int
    PROVE  SumFunctionOnSet(f, T) \in Int
<1>1. PICK g : Additive(f, T, g) /\ \A R \in SUBSET T : SumFunctionOnSet(f, R) = g[R]
  BY Sums
<1> QED BY <1>1 DEF Additive

LEMMA SumAdds ==
    ASSUME NEW f, NEW T, IsFiniteSet(T), \A y \in T : f[y] \in Int,
           NEW x, x \notin T, f[x] \in Int
    PROVE  SumFunctionOnSet(f, T \cup {x}) = SumFunctionOnSet(f, T) + f[x]
<1> DEFINE U == T \cup {x}
<1>1. IsFiniteSet(U) /\ \A y \in U : f[y] \in Int
  BY FS_AddElement
<1> HIDE DEF U
<1>2. PICK g : Additive(f, U, g) /\ \A R \in SUBSET U : SumFunctionOnSet(f, R) = g[R]
  BY <1>1, Sums
<1> QED BY <1>2 DEF Additive, U

(* Only the summands matter. *)
LEMMA SumIsOf ==
    ASSUME NEW f, NEW g, NEW T, IsFiniteSet(T),
           \A x \in T : f[x] \in Int /\ g[x] = f[x]
    PROVE  SumFunctionOnSet(g, T) = SumFunctionOnSet(f, T)
<1>1. PICK h : Additive(f, T, h) /\ \A R \in SUBSET T : SumFunctionOnSet(f, R) = h[R]
  BY Sums
<1>2. \A x \in T : g[x] \in Int
  OBVIOUS
<1>3. Additive(g, T, h)
  BY <1>1 DEF Additive
<1>4. SumFunctionOnSet(g, T) = h[T]
  BY <1>2, <1>3, SumIsAdditive
<1> QED BY <1>1, <1>4

LEMMA SumOfOne ==
    ASSUME NEW f, NEW x, f[x] \in Int
    PROVE  SumFunctionOnSet(f, {x}) = f[x]
<1>1. IsFiniteSet({})
  BY FS_EmptySet
<1>2. SumFunctionOnSet(f, {} \cup {x}) = SumFunctionOnSet(f, {}) + f[x]
  BY <1>1, SumAdds
<1>3. {} \cup {x} = {x}
  OBVIOUS
<1> QED BY <1>2, <1>3, SumOfNone

(* One summand is another. *)
LEMMA SumChanges ==
    ASSUME NEW f, NEW g, NEW T, IsFiniteSet(T), NEW x \in T,
           \A y \in T : f[y] \in Int /\ g[y] \in Int /\ (y # x => g[y] = f[y])
    PROVE  SumFunctionOnSet(g, T) = SumFunctionOnSet(f, T) + (g[x] - f[x])
<1> DEFINE R == T \ {x}
<1>1. IsFiniteSet(R) /\ x \notin R /\ R \cup {x} = T
  BY FS_Subset
<1>2. \A y \in R : f[y] \in Int /\ g[y] = f[y]
  OBVIOUS
<1> HIDE DEF R
<1>3. SumFunctionOnSet(g, R) = SumFunctionOnSet(f, R)
  BY <1>1, <1>2, SumIsOf
<1>4. SumFunctionOnSet(f, R \cup {x}) = SumFunctionOnSet(f, R) + f[x]
  BY <1>1, <1>2, SumAdds
<1>5. SumFunctionOnSet(g, R \cup {x}) = SumFunctionOnSet(g, R) + g[x]
  BY <1>1, <1>2, SumAdds
<1>6. SumFunctionOnSet(f, R) \in Int /\ f[x] \in Int /\ g[x] \in Int
  BY <1>1, <1>2, SumIsNumber
<1>7. SumFunctionOnSet(f, T) = SumFunctionOnSet(f, R) + f[x]
      /\ SumFunctionOnSet(g, T) = SumFunctionOnSet(f, R) + g[x]
  BY <1>1, <1>3, <1>4, <1>5
<1> QED BY ONLY <1>6, <1>7

(* Two sums over the same set make one. *)
LEMMA SumsTogether ==
    ASSUME NEW f, NEW g, NEW h, NEW T, IsFiniteSet(T),
           \A x \in T : f[x] \in Int /\ g[x] \in Int /\ h[x] = f[x] + g[x]
    PROVE  SumFunctionOnSet(h, T) = SumFunctionOnSet(f, T) + SumFunctionOnSet(g, T)
<1> DEFINE C == {R \in SUBSET T :
                    SumFunctionOnSet(h, R) = SumFunctionOnSet(f, R) + SumFunctionOnSet(g, R)}
<1>1. {} \in C
  BY SumOfNone
<1>2. ASSUME NEW R \in SUBSET T, NEW x \in T \ R, R \in C
      PROVE  R \cup {x} \in C
  <2>1. IsFiniteSet(R) /\ (\A y \in R : f[y] \in Int /\ g[y] \in Int /\ h[y] \in Int)
        /\ f[x] \in Int /\ g[x] \in Int /\ h[x] \in Int /\ x \notin R
    BY FS_Subset
  <2>2. SumFunctionOnSet(f, R \cup {x}) = SumFunctionOnSet(f, R) + f[x]
    BY <2>1, SumAdds
  <2>3. SumFunctionOnSet(g, R \cup {x}) = SumFunctionOnSet(g, R) + g[x]
    BY <2>1, SumAdds
  <2>4. SumFunctionOnSet(h, R \cup {x}) = SumFunctionOnSet(h, R) + h[x]
    BY <2>1, SumAdds
  <2>5. SumFunctionOnSet(f, R) \in Int /\ SumFunctionOnSet(g, R) \in Int
    BY <2>1, SumIsNumber
  <2>6. SumFunctionOnSet(h, R) = SumFunctionOnSet(f, R) + SumFunctionOnSet(g, R)
    BY <1>2
  <2>7. h[x] = f[x] + g[x]
    OBVIOUS
  <2>8. SumFunctionOnSet(h, R \cup {x})
        = SumFunctionOnSet(f, R \cup {x}) + SumFunctionOnSet(g, R \cup {x})
    BY ONLY <2>1, <2>2, <2>3, <2>4, <2>5, <2>6, <2>7
  <2> QED BY <2>8
<1> HIDE DEF C
<1>3. T \in C
  BY <1>1, <1>2, SetsBuildUp
<1> QED BY <1>3 DEF C

(* What has a key. *)
Keyed(T, key, l) == {x \in T : key[x] = l}

(* Summing group by group comes to the same, whatever the rows are grouped *)
(* by; groups may be empty.                                                *)
LEMMA SumOfGroups ==
    ASSUME NEW f, NEW key, NEW T, IsFiniteSet(T), NEW L, IsFiniteSet(L),
           \A x \in T : f[x] \in Int /\ key[x] \in L,
           NEW g, \A l \in L : g[l] = SumFunctionOnSet(f, Keyed(T, key, l))
    PROVE  SumFunctionOnSet(g, L) = SumFunctionOnSet(f, T)
<1> DEFINE G(R) == [l \in L |-> SumFunctionOnSet(f, {x \in R : key[x] = l})]
           C == {R \in SUBSET T : SumFunctionOnSet(G(R), L) = SumFunctionOnSet(f, R)}
<1>1. ASSUME NEW R \in SUBSET T, NEW l \in L PROVE G(R)[l] \in Int
  <2>1. IsFiniteSet({x \in R : key[x] = l}) /\ \A x \in {y \in R : key[y] = l} : f[x] \in Int
    BY FS_Subset
  <2> QED BY <2>1, SumIsNumber
<1>2. {} \in C
  <2> DEFINE zero == G({})
             C0 == {M \in SUBSET L : SumFunctionOnSet(zero, M) = 0}
  <2>1. \A l \in L : zero[l] = 0
    BY SumOfNone
  <2> HIDE DEF zero
  <2>2. {} \in C0
    BY SumOfNone
  <2>3. ASSUME NEW M \in SUBSET L, NEW l \in L \ M, M \in C0 PROVE M \cup {l} \in C0
    <3>1. IsFiniteSet(M) /\ \A m \in M : zero[m] \in Int
      BY <2>1, FS_Subset
    <3>2. SumFunctionOnSet(zero, M \cup {l}) = SumFunctionOnSet(zero, M) + zero[l]
      BY <2>1, <3>1, SumAdds
    <3> QED BY <2>1, <2>3, <3>2
  <2> HIDE DEF C0
  <2>4. L \in C0
    BY <2>2, <2>3, SetsBuildUp
  <2> QED BY <2>4, SumOfNone DEF C0, zero
<1>3. ASSUME NEW R \in SUBSET T, NEW x \in T \ R, R \in C
      PROVE  R \cup {x} \in C
  <2> DEFINE V == R \cup {x}
             k == key[x]
  <2>1. V \in SUBSET T /\ k \in L /\ IsFiniteSet(R) /\ f[x] \in Int
    BY FS_Subset
  <2>2. ASSUME NEW l \in L, l # k PROVE G(V)[l] = G(R)[l]
    <3>1. {y \in V : key[y] = l} = {y \in R : key[y] = l}
      BY <2>2
    <3> QED BY <3>1
  <2>3. G(V)[k] = G(R)[k] + f[x]
    <3> DEFINE M == {y \in R : key[y] = k}
    <3>1. {y \in V : key[y] = k} = M \cup {x} /\ x \notin M
      OBVIOUS
    <3>2. IsFiniteSet(M) /\ \A y \in M : f[y] \in Int
      BY <2>1, FS_Subset
    <3> HIDE DEF M
    <3>3. SumFunctionOnSet(f, M \cup {x}) = SumFunctionOnSet(f, M) + f[x]
      BY <2>1, <3>1, <3>2, SumAdds
    <3>4. G(V)[k] = SumFunctionOnSet(f, M \cup {x}) /\ G(R)[k] = SumFunctionOnSet(f, M)
      BY <2>1, <3>1 DEF M
    <3> QED BY <3>3, <3>4
  <2>4. \A l \in L : G(R)[l] \in Int /\ G(V)[l] \in Int
    BY <1>1, <2>1
  <2> DEFINE a == G(R)
             b == G(V)
  <2> HIDE DEF G, k, V
  <2>5. SumFunctionOnSet(b, L) = SumFunctionOnSet(a, L) + (b[k] - a[k])
    BY <2>1, <2>2, <2>4, SumChanges
  <2>6. SumFunctionOnSet(f, V) = SumFunctionOnSet(f, R) + f[x]
    BY <2>1, SumAdds DEF V
  <2>7. SumFunctionOnSet(a, L) = SumFunctionOnSet(f, R) /\ SumFunctionOnSet(f, R) \in Int
    BY <1>3, <2>1, SumIsNumber
  <2>8. SumFunctionOnSet(b, L) = SumFunctionOnSet(f, V)
    BY ONLY <2>1, <2>3, <2>4, <2>5, <2>6, <2>7
  <2> QED BY <2>1, <2>8 DEF V
<1> HIDE DEF C
<1>4. T \in C
  BY <1>2, <1>3, SetsBuildUp
<1> DEFINE a == G(T)
<1>5. \A l \in L : a[l] \in Int /\ g[l] = a[l]
  BY <1>1 DEF Keyed
<1>6. SumFunctionOnSet(a, L) = SumFunctionOnSet(f, T)
  BY <1>4 DEF C
<1> HIDE DEF a
<1>7. SumFunctionOnSet(g, L) = SumFunctionOnSet(a, L)
  BY <1>5, SumIsOf
<1> QED BY <1>6, <1>7

-----------------------------------------------------------------------------
(* One sheet.                                                              *)

Legible(sheet) ==
    /\ Len(sheet) \in Nat
    /\ \A i \in 1..Len(sheet) :
           /\ sheet[i].id \in {None, "TOTAL", "TEXT"} \cup Words
           /\ sheet[i].matches \in Nat

(* A sheet with orders people can find. *)
Kept(sheet) == Legible(sheet) /\ WellKept(sheet) /\ ~RicherBelow(sheet)

LEMMA TopIsFirst ==
    ASSUME NEW sheet, Kept(sheet)
    PROVE  /\ Headings(sheet) \subseteq 1..Len(sheet)
           /\ Top(sheet) \in Headings(sheet)
           /\ \A i \in Headings(sheet) : Top(sheet) <= i
<1>1. Headings(sheet) \subseteq 1..Len(sheet)
  BY DEF Headings
<1>2. Headings(sheet) # {} /\ Headings(sheet) \subseteq Nat
  BY <1>1 DEF Kept, WellKept, Legible
<1> QED BY <1>1, <1>2, FirstOf DEF Top

(* The first heading is the one the search from the top comes to.          *)
LEMMA HeaderIsTop ==
    ASSUME NEW sheet, Kept(sheet)
    PROVE  FindHeader(sheet) = Top(sheet)
<1> DEFINE window == {i \in 1..Len(sheet) : /\ i < 1 + MaxHeaderScanRows
                                            /\ sheet[i].matches >= MinHeaderMatches}
           best == {i \in window : \A j \in window : sheet[i].matches >= sheet[j].matches}
           t == Top(sheet)
<1>1. /\ Len(sheet) \in Nat /\ MaxHeaderScanRows \in Nat /\ MinHeaderMatches \in Nat
      /\ \A i \in 1..Len(sheet) : sheet[i].matches \in Nat
  BY LayoutAssumption DEF Kept, Legible
<1>2. t \in Headings(sheet) /\ (\A i \in Headings(sheet) : t <= i) /\ t <= MaxHeaderScanRows
  BY TopIsFirst DEF Kept, WellKept
<1>3. t \in window /\ \A i \in window : i \in Headings(sheet) /\ i <= MaxHeaderScanRows
  BY <1>1, <1>2 DEF Headings
<1>4. ASSUME NEW j \in window
      PROVE  sheet[t].matches >= sheet[j].matches
  <2>1. sheet[t].matches \in Nat /\ sheet[j].matches \in Nat /\ t \in Nat /\ j \in Nat
    BY <1>1, <1>3
  <2>2. CASE j = t
    BY <2>1, <2>2
  <2>3. CASE j # t
    <3>1. t < j /\ j \in Headings(sheet) /\ j <= MaxHeaderScanRows
      BY <1>2, <1>3, <2>1, <2>3
    <3>2. ~(sheet[j].matches > sheet[t].matches)
      BY <3>1, <1>2 DEF Kept, RicherBelow
    <3> QED BY <2>1, <3>2
  <2> QED BY <2>2, <2>3
<1>5. t \in best /\ (\A j \in best : t <= j) /\ best \subseteq Nat
  BY <1>1, <1>2, <1>3, <1>4
<1>6. First(best) = t
  BY <1>5, FirstIs
<1> QED BY <1>6 DEF FindHeader, HeaderRow

LEMMA MarkerIsMark ==
    ASSUME NEW sheet, Kept(sheet)
    PROVE  MarkerRow(sheet, Top(sheet)) = First(Marks(sheet))
<1>1. sheet[Top(sheet)].named
  BY TopIsFirst DEF Kept, WellKept
<1>2. {i \in Top(sheet) + 1..Len(sheet) :
         IF sheet[Top(sheet)].named THEN sheet[i].id = "LOADED" ELSE Says(sheet[i], "LOADED")}
      = Marks(sheet)
  BY <1>1 DEF Marks
<1> QED BY <1>2 DEF MarkerRow

(* There is at most one marker, below the first heading; any other heading *)
(* is the second, and below the marker.                                    *)
LEMMA MarksAndHeadings ==
    ASSUME NEW sheet, Kept(sheet)
    PROVE  /\ Marks(sheet) \subseteq Top(sheet) + 1..Len(sheet)
           /\ Marks(sheet) \subseteq Nat
           /\ \A i, j \in Marks(sheet) : i = j
           /\ \A m \in Marks(sheet) : First(Marks(sheet)) = m /\ m \notin Headings(sheet)
           /\ \A i, j \in Headings(sheet) \ {Top(sheet)} : i = j
           /\ \A i \in Headings(sheet) \ {Top(sheet)} :
                  \E m \in Marks(sheet) : /\ m < i /\ i - m <= LoadedScanRows
                                          /\ \A k \in Orders(sheet) : k \notin m..i
<1>1. /\ Top(sheet) \in 1..Len(sheet) /\ Len(sheet) \in Nat /\ Top(sheet) \in Headings(sheet)
      /\ Headings(sheet) \subseteq 1..Len(sheet)
  BY TopIsFirst DEF Kept, Legible
<1>2. Marks(sheet) \subseteq Top(sheet) + 1..Len(sheet)
  BY DEF Marks
<1>3. Marks(sheet) \subseteq 1..Len(sheet) /\ Marks(sheet) \subseteq Nat
  BY <1>1, <1>2
<1>4. \A i, j \in Marks(sheet) : i = j
  <2>1. IsFiniteSet(Marks(sheet))
    BY <1>1, <1>3, RowsAreFinite
  <2> QED BY <2>1, AtMostOne DEF Kept, WellKept
<1>5. \A i \in Headings(sheet) \ {Top(sheet)} :
          \E m \in Marks(sheet) : /\ m < i /\ i - m <= LoadedScanRows
                                  /\ \A k \in Orders(sheet) : k \notin m..i
  BY DEF Kept, WellKept
<1>6. \A i, j \in Headings(sheet) \ {Top(sheet)} : i = j
  <2>1. IsFiniteSet(Headings(sheet)) /\ Cardinality(Headings(sheet)) <= 2
    BY <1>1, RowsAreFinite DEF Kept, WellKept
  <2>2. ASSUME NEW i \in Headings(sheet) \ {Top(sheet)}, NEW j \in Headings(sheet) \ {Top(sheet)}
        PROVE  i = j
    <3>1. j \in {Top(sheet), i}
      BY <1>1, <2>1, AtMostTwo
    <3> QED BY <3>1
  <2> QED BY <2>2
<1>7. ASSUME NEW m \in Marks(sheet)
      PROVE  First(Marks(sheet)) = m /\ m \notin Headings(sheet)
  <2>1. First(Marks(sheet)) = m
    <3>1. \A j \in Marks(sheet) : m <= j
      BY <1>3, <1>4
    <3> QED BY <1>3, <3>1, FirstIs
  <2>2. m # Top(sheet)
    BY <1>1, <1>2
  <2>3. ASSUME m \in Headings(sheet) PROVE FALSE
    <3>1. PICK n \in Marks(sheet) : n < m
      BY <1>5, <2>2, <2>3
    <3>2. n = m /\ m \in Nat
      BY <1>3, <1>4
    <3> QED BY <3>1, <3>2
  <2> QED BY <2>1, <2>3
<1> QED BY <1>2, <1>3, <1>4, <1>5, <1>6, <1>7

(* Below the first heading, a row that is neither a heading nor a marker   *)
(* is an order if and only if it is taken for one.                         *)
LEMMA OrdersAreTaken ==
    ASSUME NEW sheet, Kept(sheet), NEW h \in Headings(sheet),
           NEW i \in Top(sheet) + 1..Len(sheet), i \notin Headings(sheet), i \notin Marks(sheet)
    PROVE  IsOrder(sheet[i], sheet[h]) <=> i \in Orders(sheet)
<1>1. sheet[h].named
  BY DEF Kept, WellKept
<1>2. /\ Top(sheet) \in Nat /\ Len(sheet) \in Nat /\ i \in 1..Len(sheet)
      /\ MinHeaderMatches \in Nat \ {0}
  BY TopIsFirst, LayoutAssumption DEF Kept, Legible
<1>3. sheet[i].matches \in Nat /\ sheet[i].id \in {None, "TOTAL", "TEXT"} \cup Words
  BY <1>2 DEF Kept, Legible
<1>4. sheet[i].matches < MinHeaderMatches
  BY <1>2, <1>3 DEF Headings
<1>5. sheet[i].matches = 0 /\ sheet[i].id # "ACTIVE"
  BY <1>4 DEF Kept, WellKept
<1>6. sheet[i].id # "LOADED"
  BY DEF Marks
<1>7. None # "TEXT"
  BY NullAssumption
<1> QED BY <1>1, <1>3, <1>5, <1>6, <1>7 DEF IsOrder, Orders, Words

(* A search of one row finds the heading there, if it is one. *)
LEMMA OnTheSpot ==
    ASSUME NEW sheet, Kept(sheet), NEW h \in 1..Len(sheet)
    PROVE  HeaderRow(sheet, h, 1) = IF h \in Headings(sheet) THEN h ELSE None
<1> DEFINE window == {i \in h..Len(sheet) : /\ i < h + 1
                                            /\ sheet[i].matches >= MinHeaderMatches}
           best == {i \in window : \A j \in window : sheet[i].matches >= sheet[j].matches}
<1>1. Len(sheet) \in Nat /\ h \in Nat /\ sheet[h].matches \in Nat /\ MinHeaderMatches \in Nat
  BY LayoutAssumption DEF Kept, Legible
<1>2. CASE h \in Headings(sheet)
  <2>1. window = {h}
    BY <1>1, <1>2 DEF Headings
  <2>2. best = {h}
    BY <1>1, <2>1
  <2>3. First(best) = h
    <3>1. best \subseteq Nat /\ h \in best /\ \A j \in best : h <= j
      BY <1>1, <2>2
    <3> QED BY <3>1, FirstIs
  <2> QED BY <1>2, <2>3 DEF HeaderRow
<1>3. CASE h \notin Headings(sheet)
  <2>1. window = {}
    BY <1>1, <1>3 DEF Headings
  <2>2. best = {}
    BY <2>1
  <2> QED BY <1>3, <2>2, FirstOfNone DEF HeaderRow
<1> QED BY <1>2, <1>3

(* The active orders are those before the marker. *)
LEMMA ActiveRows ==
    ASSUME NEW sheet, Kept(sheet)
    PROVE  RealRows(sheet, Top(sheet), End(sheet, Top(sheet)))
           = Orders(sheet) \ LoadedOrders(sheet)
<1> DEFINE t == Top(sheet)
           e == End(sheet, t)
<1>1. /\ t \in Headings(sheet) /\ t \in Nat /\ Len(sheet) \in Nat
      /\ Headings(sheet) \subseteq 1..Len(sheet) /\ \A i \in Headings(sheet) : t <= i
  BY TopIsFirst DEF Kept, Legible
<1>2. e \in Nat /\ e <= Len(sheet) + 1
      /\ \A i \in t + 1..Len(sheet) : i < e <=> \A m \in Marks(sheet) : i < m
  <2>1. CASE Marks(sheet) = {}
    <3>1. e = Len(sheet) + 1
      BY <2>1, MarkerIsMark, FirstOfNone DEF End, OrElse
    <3> QED BY <1>1, <2>1, <3>1
  <2>2. ASSUME NEW m \in Marks(sheet)
        PROVE  e \in Nat /\ e <= Len(sheet) + 1
               /\ \A i \in t + 1..Len(sheet) : i < e <=> \A n \in Marks(sheet) : i < n
    <3>1. m \in t + 1..Len(sheet) /\ m \in Nat /\ \A n \in Marks(sheet) : n = m
      BY MarksAndHeadings
    <3>2. MarkerRow(sheet, t) = m
      BY MarkerIsMark, MarksAndHeadings
    <3>3. m # None
      BY <3>1, NullAssumption
    <3>4. e = m
      BY <3>2, <3>3 DEF End, OrElse
    <3> QED BY <1>1, <3>1, <3>4
  <2> QED BY <2>1, <2>2
<1> HIDE DEF e
<1>3. ASSUME NEW i \in t + 1..Len(sheet), i < e
      PROVE  i \notin Headings(sheet) /\ i \notin Marks(sheet) /\ i \in Nat
  <2>1. \A m \in Marks(sheet) : i < m /\ m \in Nat
    BY <1>2, <1>3, MarksAndHeadings
  <2>2. i \in Nat
    BY <1>1
  <2>3. i \notin Marks(sheet)
    BY <2>1, <2>2
  <2>4. ASSUME i \in Headings(sheet) PROVE FALSE
    <3>1. i # t
      BY <1>1
    <3>2. PICK m \in Marks(sheet) : m < i
      BY <2>4, <3>1, MarksAndHeadings
    <3> QED BY <2>1, <2>2, <3>2
  <2> QED BY <2>2, <2>3, <2>4
<1>4. ASSUME NEW i \in RealRows(sheet, t, e)
      PROVE  i \in Orders(sheet) \ LoadedOrders(sheet)
  <2>1. i \in t + 1..Len(sheet) /\ i < e /\ IsOrder(sheet[i], sheet[t])
    BY <1>1, <1>2 DEF RealRows
  <2>2. i \in Orders(sheet)
    BY <1>1, <1>3, <2>1, OrdersAreTaken
  <2>3. i \notin LoadedOrders(sheet)
    <3>1. \A m \in Marks(sheet) : i < m /\ m \in Nat /\ i \in Nat
      BY <1>2, <1>3, <2>1, MarksAndHeadings
    <3> QED BY <3>1 DEF LoadedOrders
  <2> QED BY <2>2, <2>3
<1>5. ASSUME NEW i \in Orders(sheet) \ LoadedOrders(sheet)
      PROVE  i \in RealRows(sheet, t, e)
  <2>1. i \in t + 1..Len(sheet) /\ i \in Nat /\ sheet[i].id = "TEXT"
    BY <1>1 DEF Orders
  <2>2. \A m \in Marks(sheet) : ~(m < i) /\ m \in Nat /\ m # i
    BY <2>1, MarksAndHeadings DEF LoadedOrders, Marks
  <2>3. i < e
    BY <1>2, <2>1, <2>2
  <2>4. IsOrder(sheet[i], sheet[t])
    BY <1>1, <1>3, <2>1, <2>3, OrdersAreTaken
  <2> QED BY <1>1, <1>2, <2>1, <2>3, <2>4 DEF RealRows
<1>6. RealRows(sheet, t, e) = Orders(sheet) \ LoadedOrders(sheet)
  BY <1>4, <1>5
<1> QED BY <1>6 DEF e

(* The orders between two rows of a sheet, which has no other heading and  *)
(* no marker there.                                                        *)
OrdersBetween(sheet, h, e) == {i \in h + 1..e - 1 : i \in Orders(sheet)}
Plain(sheet, h, e) ==
    \A i \in h + 1..e - 1 : i \notin Headings(sheet) /\ i \notin Marks(sheet)

(* What is read of a section below the heading h, or below a row that is   *)
(* none and then under the first heading.                                  *)
LEMMA RowsBelow ==
    ASSUME NEW book, NEW s \in Nat, Kept(book[s]), NEW h \in 1..Len(book[s]),
           NEW e \in Nat, e <= Len(book[s]) + 1, h >= Top(book[s]),
           Plain(book[s], h, e)
    PROVE  Rows(book, Section(s, h, e)) = OrdersBetween(book[s], h, e)
<1> DEFINE sheet == book[s]
           under == OrElse(HeaderRow(sheet, h, 1), FindHeader(sheet))
<1>1. under \in Headings(sheet)
  <2>1. CASE h \in Headings(sheet)
    <3>1. HeaderRow(sheet, h, 1) = h
      BY <2>1, OnTheSpot
    <3>2. h # None
      BY NullAssumption
    <3> QED BY <2>1, <3>1, <3>2 DEF OrElse
  <2>2. CASE h \notin Headings(sheet)
    <3>1. HeaderRow(sheet, h, 1) = None
      BY <2>2, OnTheSpot
    <3> QED BY <3>1, HeaderIsTop, TopIsFirst DEF OrElse
  <2> QED BY <2>1, <2>2
<1>0. Len(sheet) \in Nat /\ h \in Nat /\ Top(sheet) \in Nat
  BY TopIsFirst DEF Kept, Legible
<1>2. Rows(book, Section(s, h, e)) = {i \in h + 1..e - 1 : IsOrder(sheet[i], sheet[under])}
  <2> DEFINE sec == Section(s, h, e)
  <2>1. /\ sec # None /\ sec.sheet = s /\ sec.header = h /\ sec.start = h + 1 /\ sec.end = e
    <3>1. sec \in Sections
      BY <1>0 DEF Section, Sections
    <3>2. sec # None
      BY <3>1, NullAssumption
    <3> QED BY <3>2 DEF Section
  <2> HIDE DEF sec
  <2>2. Rows(book, sec) = {i \in h + 1..e - 1 : IsOrder(sheet[i], sheet[under])}
    BY <2>1 DEF Rows
  <2> QED BY <2>2 DEF sec
<1> HIDE DEF under
<1>3. ASSUME NEW i \in h + 1..e - 1
      PROVE  IsOrder(sheet[i], sheet[under]) <=> i \in Orders(sheet)
  <2>2. i \in Top(sheet) + 1..Len(sheet)
    BY ONLY <1>0, h >= Top(sheet), e \in Nat, e <= Len(sheet) + 1, i \in h + 1..e - 1
  <2>3. i \notin Headings(sheet) /\ i \notin Marks(sheet)
    BY DEF Plain
  <2> QED BY <1>1, <2>2, <2>3, OrdersAreTaken
<1> QED BY <1>2, <1>3 DEF OrdersBetween

(* A sheet without a marker, read from its heading down. *)
LEMMA WholeSheet ==
    ASSUME NEW book, NEW s \in Nat, Kept(book[s]), Marks(book[s]) = {}
    PROVE  Rows(book, Section(s, FindHeader(book[s]), Len(book[s]) + 1)) = Orders(book[s])
<1> DEFINE sheet == book[s]
           t == Top(sheet)
<1>1. t \in 1..Len(sheet) /\ Len(sheet) \in Nat /\ \A i \in Headings(sheet) : t <= i
  BY TopIsFirst DEF Kept, Legible
<1>2. Plain(book[s], t, Len(sheet) + 1)
  <2>1. \A i \in Headings(sheet) : i = t
    BY MarksAndHeadings
  <2> QED BY <1>1, <2>1 DEF Plain
<1>3. Rows(book, Section(s, t, Len(sheet) + 1)) = OrdersBetween(sheet, t, Len(sheet) + 1)
  <2>1. /\ t \in 1..Len(book[s]) /\ t >= Top(book[s])
        /\ Len(sheet) + 1 \in Nat /\ Len(sheet) + 1 <= Len(book[s]) + 1
    BY ONLY <1>1
  <2> QED BY <2>1, <1>2, RowsBelow
<1>4. Orders(sheet) \subseteq t + 1..Len(sheet)
  BY DEF Orders
<1>5. OrdersBetween(sheet, t, Len(sheet) + 1) = Orders(sheet)
  <2>1. Len(sheet) + 1 - 1 = Len(sheet)
    BY <1>1
  <2> QED BY <1>4, <2>1 DEF OrdersBetween
<1> QED BY <1>3, <1>5, HeaderIsTop

(* The loaded orders are those below the marker, whether there is a second *)
(* heading or not.                                                         *)
LEMMA LoadedRows ==
    ASSUME NEW book, NEW s \in Nat, Kept(book[s]), NEW m \in Marks(book[s])
    PROVE  /\ LoadedBeside(book, s, m) # None
           /\ LoadedBeside(book, s, m).sheet = s
           /\ Rows(book, LoadedBeside(book, s, m)) = LoadedOrders(book[s])
<1> DEFINE sheet == book[s]
           own == HeaderRow(sheet, m + 1, LoadedScanRows)
           h == OrElse(own, m)
           window == {i \in m + 1..Len(sheet) : /\ i < m + 1 + LoadedScanRows
                                                /\ sheet[i].matches >= MinHeaderMatches}
           best == {i \in window : \A j \in window : sheet[i].matches >= sheet[j].matches}
           n == Len(sheet)
<1>1. /\ Top(sheet) \in 1..n /\ n \in Nat /\ LoadedScanRows \in Nat
      /\ m \in Top(sheet) + 1..n /\ m \in 1..n
      /\ \A i \in 1..n : sheet[i].matches \in Nat
  BY TopIsFirst, MarksAndHeadings, LayoutAssumption DEF Kept, Legible
<1>2. /\ \A i \in Headings(sheet) : i \in Nat /\ (i > m => i \in window)
      /\ \A i \in window : i \in Headings(sheet) \ {Top(sheet)}
  <2>1. ASSUME NEW i \in Headings(sheet), i > m
        PROVE  i \in window
    <3>1. i \in Headings(sheet) \ {Top(sheet)} /\ i \in 1..n
      BY <1>1, <2>1 DEF Headings
    <3>2. PICK k \in Marks(sheet) : i - k <= LoadedScanRows
      BY <3>1, MarksAndHeadings
    <3>3. k = m
      BY MarksAndHeadings
    <3> QED BY <1>1, <2>1, <3>1, <3>2, <3>3 DEF Headings
  <2>2. ASSUME NEW i \in window
        PROVE  i \in Headings(sheet) \ {Top(sheet)}
    BY <1>1 DEF Headings
  <2> QED BY <1>1, <2>1, <2>2 DEF Headings
<1>3. own = First(best)
  BY DEF HeaderRow
<1>4. \A i, j \in window : i = j
  BY <1>2, MarksAndHeadings
<1>5. /\ h \in 1..n /\ h >= m
      /\ \A i \in h + 1..n : i \notin Headings(sheet)
      /\ \A i \in Orders(sheet) : i > m => i > h
  <2>1. CASE window = {}
    <3>1. best = {}
      BY <2>1
    <3>2. h = m
      BY <1>3, <3>1, FirstOfNone DEF OrElse
    <3>3. \A i \in m + 1..n : i \notin Headings(sheet)
      BY <1>1, <1>2, <2>1
    <3> QED BY <1>1, <3>2, <3>3
  <2>2. ASSUME NEW w \in window
        PROVE  /\ h \in 1..n /\ h >= m
               /\ \A i \in h + 1..n : i \notin Headings(sheet)
               /\ \A i \in Orders(sheet) : i > m => i > h
    <3>1. w \in m + 1..n /\ w \in 1..n /\ w > m /\ sheet[w].matches \in Nat
      BY <1>1, <2>2
    <3>2. best = {w}
      BY <1>4, <2>2, <3>1
    <3>3. First(best) = w
      <4>1. best \subseteq Nat /\ w \in best /\ \A j \in best : w <= j
        BY <3>1, <3>2
      <4> QED BY <4>1, FirstIs
    <3>4. w # None
      BY <3>1, NullAssumption
    <3>5. h = w
      BY <1>3, <3>3, <3>4 DEF OrElse
    <3> HIDE DEF h, best, own
    <3>6. \A i \in w + 1..n : i \notin Headings(sheet)
      <4> SUFFICES ASSUME NEW i \in w + 1..n, i \in Headings(sheet) PROVE FALSE
        OBVIOUS
      <4>1. i > m /\ i # w
        BY <1>1, <3>1
      <4>2. i \in window
        BY <1>2, <4>1
      <4> QED BY <1>4, <2>2, <4>1, <4>2
    <3>7. ASSUME NEW i \in Orders(sheet), i > m
          PROVE  i > w
      <4>1. PICK k \in Marks(sheet) : \A o \in Orders(sheet) : o \notin k..w
        BY <1>2, <2>2, MarksAndHeadings
      <4>2. k = m
        BY MarksAndHeadings
      <4>3. i \in Nat
        BY <1>1 DEF Orders
      <4> QED BY <1>1, <3>1, <3>7, <4>1, <4>2, <4>3
    <3> HIDE DEF window
    <3>8. h \in 1..n /\ h >= m
      BY <1>1, <3>1, <3>5
    <3>9. \A i \in h + 1..n : i \notin Headings(sheet)
      BY <3>5, <3>6
    <3>10. \A i \in Orders(sheet) : i > m => i > h
      BY <3>5, <3>7
    <3> QED BY <3>8, <3>9, <3>10
  <2> QED BY <2>1, <2>2
<1>6. LoadedBeside(book, s, m) = Section(s, h, n + 1)
  <2>1. m # None
    BY <1>1, NullAssumption
  <2> QED BY <2>1 DEF LoadedBeside
<1> HIDE DEF h, own, window, best
<1>7. Plain(book[s], h, n + 1)
  <2>1. \A i \in Marks(sheet) : i = m
    BY MarksAndHeadings
  <2> QED BY <1>1, <1>5, <2>1 DEF Plain
<1>8. Rows(book, Section(s, h, n + 1)) = OrdersBetween(sheet, h, n + 1)
  <2>1. h \in 1..Len(book[s]) /\ h >= Top(book[s]) /\ n + 1 \in Nat /\ n + 1 <= Len(book[s]) + 1
    BY <1>1, <1>5
  <2> QED BY <2>1, <1>7, RowsBelow
<1>9. OrdersBetween(sheet, h, n + 1) = LoadedOrders(sheet)
  <2>1. \A i \in Orders(sheet) : i \in 1..n
    BY <1>1 DEF Orders
  <2>2. \A i \in Orders(sheet) : i \in LoadedOrders(sheet) <=> i > m
    <3>1. \A j \in Marks(sheet) : j = m
      BY MarksAndHeadings
    <3> QED BY <1>1, <2>1, <3>1 DEF LoadedOrders
  <2>3. \A i \in Orders(sheet) : i \in h + 1..n + 1 - 1 <=> i > h
    BY <1>1, <1>5, <2>1
  <2>4. \A i \in Orders(sheet) : i > h <=> i > m
    BY <1>1, <1>5, <2>1
  <2>5. LoadedOrders(sheet) \subseteq Orders(sheet)
    BY DEF LoadedOrders
  <2> QED BY <2>2, <2>3, <2>4, <2>5 DEF OrdersBetween
<1>10. h \in Nat /\ n + 1 \in Nat
  BY <1>1, <1>5
<1>11. /\ Section(s, h, n + 1) # None /\ Section(s, h, n + 1).sheet = s
  <2>1. Section(s, h, n + 1) \in Sections
    BY <1>10 DEF Section, Sections
  <2> QED BY <2>1, NullAssumption DEF Section
<1> QED BY ONLY <1>6, <1>8, <1>9, <1>11

-----------------------------------------------------------------------------
(* All sheets of a workbook.                                               *)

LegibleBook(book) ==
    Len(book) \in Nat /\ \A s \in 1..Len(book) : Legible(book[s])

ScoreOf(book, s) == Score(book, s, FindHeader(book[s]))

LEMMA FirstWithin ==
    ASSUME NEW P, P \subseteq Nat, First(P) # None
    PROVE  First(P) \in P
BY FirstOf, FirstOfNone

(* A heading that is found, or a marker, is on the sheet.                  *)
LEMMA OnTheSheet ==
    ASSUME NEW sheet, Legible(sheet), NEW start \in Nat \ {0}, NEW scan
    PROVE  /\ HeaderRow(sheet, start, scan) # None
                 => HeaderRow(sheet, start, scan) \in start..Len(sheet)
           /\ MarkerRow(sheet, start) # None
                 => MarkerRow(sheet, start) \in start + 1..Len(sheet)
<1>1. Len(sheet) \in Nat
  BY DEF Legible
<1> DEFINE window == {i \in start..Len(sheet) : /\ i < start + scan
                                                /\ sheet[i].matches >= MinHeaderMatches}
           best == {i \in window : \A j \in window : sheet[i].matches >= sheet[j].matches}
           marks == {i \in start + 1..Len(sheet) :
                        IF sheet[start].named THEN sheet[i].id = "LOADED"
                        ELSE Says(sheet[i], "LOADED")}
<1>2. best \subseteq start..Len(sheet) /\ marks \subseteq start + 1..Len(sheet)
  OBVIOUS
<1>3. best \subseteq Nat /\ marks \subseteq Nat
  BY <1>1
<1>4. HeaderRow(sheet, start, scan) = First(best) /\ MarkerRow(sheet, start) = First(marks)
  BY DEF HeaderRow, MarkerRow
<1> HIDE DEF best, marks
<1> QED BY <1>2, <1>3, <1>4, FirstWithin

(* The active orders of a sheet end at its marker or below its last row.   *)
LEMMA EndIsOnTheSheet ==
    ASSUME NEW sheet, Legible(sheet), NEW header \in 1..Len(sheet)
    PROVE  End(sheet, header) \in Nat /\ End(sheet, header) <= Len(sheet) + 1
<1>1. Len(sheet) \in Nat /\ header \in Nat \ {0}
  BY DEF Legible
<1>2. CASE MarkerRow(sheet, header) = None
  BY <1>1, <1>2 DEF End, OrElse
<1>3. CASE MarkerRow(sheet, header) # None
  <2>1. MarkerRow(sheet, header) \in header + 1..Len(sheet)
    BY <1>1, <1>3, OnTheSheet
  <2> QED BY <1>1, <1>3, <2>1 DEF End, OrElse
<1> QED BY <1>2, <1>3

LEMMA ScoreIsTyped ==
    ASSUME NEW book, NEW s \in Nat, Legible(book[s]), FindHeader(book[s]) # None
    PROVE  /\ ScoreOf(book, s).sheet = s
           /\ ScoreOf(book, s).orders \in Nat /\ ScoreOf(book, s).matches \in Nat
<1> DEFINE sheet == book[s]
           h == FindHeader(sheet)
           rows == RealRows(sheet, h, End(sheet, h))
<1>1. h \in 1..Len(sheet) /\ Len(sheet) \in Nat /\ sheet[h].matches \in Nat
  BY OnTheSheet DEF FindHeader, Legible
<1>2. rows \subseteq 1..Len(sheet)
  <2> HIDE DEF h
  <2>1. End(sheet, h) \in Nat /\ End(sheet, h) <= Len(sheet) + 1
    BY <1>1, EndIsOnTheSheet
  <2> QED BY <1>1, <2>1 DEF RealRows
<1>3. Cardinality(rows) \in Nat
  BY <1>1, <1>2, RowsAreFinite
<1>4. ScoreOf(book, s) =
          [orders |-> Cardinality(rows), matches |-> sheet[h].matches, sheet |-> s]
  BY DEF ScoreOf, Score
<1> HIDE DEF rows, h
<1> QED BY <1>1, <1>3, <1>4

LEMMA Scored ==
    ASSUME NEW book, NEW s \in Nat, Kept(book[s])
    PROVE  /\ ScoreOf(book, s).sheet = s
           /\ ScoreOf(book, s).orders = Cardinality(Orders(book[s]) \ LoadedOrders(book[s]))
           /\ ScoreOf(book, s).orders \in Nat /\ ScoreOf(book, s).matches \in Nat
<1> DEFINE sheet == book[s]
           active == Orders(sheet) \ LoadedOrders(sheet)
<1>1. Top(sheet) \in 1..Len(sheet) /\ Len(sheet) \in Nat /\ sheet[Top(sheet)].matches \in Nat
  BY TopIsFirst DEF Kept, Legible
<1>2. active \subseteq 1..Len(sheet)
  BY <1>1 DEF Orders
<1>3. Cardinality(active) \in Nat
  BY <1>1, <1>2, RowsAreFinite
<1>4. RealRows(sheet, Top(sheet), End(sheet, Top(sheet))) = active
  BY ActiveRows
<1>5. ScoreOf(book, s) =
        [orders |-> Cardinality(active), matches |-> sheet[Top(sheet)].matches, sheet |-> s]
  BY <1>4, HeaderIsTop DEF ScoreOf, Score
<1> HIDE DEF active
<1>6. /\ ScoreOf(book, s).sheet = s /\ ScoreOf(book, s).orders = Cardinality(active)
      /\ ScoreOf(book, s).orders \in Nat /\ ScoreOf(book, s).matches \in Nat
  BY <1>1, <1>3, <1>5
<1> QED BY <1>6 DEF active

LEMMA OutscoresIsTotal ==
    ASSUME NEW a, NEW b, a.orders \in Nat, a.matches \in Nat, a.sheet \in Nat,
           b.orders \in Nat, b.matches \in Nat, b.sheet \in Nat
    PROVE  Outscores(a, a) /\ (Outscores(a, b) \/ Outscores(b, a))
BY DEF Outscores

LEMMA OutscoresIsTransitive ==
    ASSUME NEW a, NEW b, NEW c, a.orders \in Nat, a.matches \in Nat, a.sheet \in Nat,
           b.orders \in Nat, b.matches \in Nat, b.sheet \in Nat,
           c.orders \in Nat, c.matches \in Nat, c.sheet \in Nat,
           Outscores(a, b), Outscores(b, c)
    PROVE  Outscores(a, c)
BY DEF Outscores

(* Of some of the first n sheets, one outscores all.                       *)
LEMMA OneOutscoresAll ==
    ASSUME NEW book, NEW P, NEW N \in Nat, P \subseteq 1..N, P # {},
           \A s \in P : Legible(book[s]) /\ FindHeader(book[s]) # None
    PROVE  \E s \in P : \A t \in P : Outscores(ScoreOf(book, s), ScoreOf(book, t))
<1> DEFINE S(s) == ScoreOf(book, s)
           upTo(n) == {s \in P : s <= n}
           best(n) == \E s \in upTo(n) : \A t \in upTo(n) : Outscores(S(s), S(t))
           bad == {n \in Nat : upTo(n) # {} /\ ~best(n)}
<1>1. \A s \in P : /\ s \in Nat \ {0} /\ s <= N
                   /\ S(s).orders \in Nat /\ S(s).matches \in Nat /\ S(s).sheet \in Nat
  <2> SUFFICES ASSUME NEW s \in P
               PROVE  /\ s \in Nat \ {0} /\ s <= N
                      /\ S(s).orders \in Nat /\ S(s).matches \in Nat /\ S(s).sheet \in Nat
    OBVIOUS
  <2>1. s \in Nat \ {0} /\ s <= N /\ Legible(book[s]) /\ FindHeader(book[s]) # None
    OBVIOUS
  <2> QED BY <2>1, ScoreIsTyped
<1> HIDE DEF S
<1>2. \A s, t \in P : Outscores(S(s), S(s)) /\ (Outscores(S(s), S(t)) \/ Outscores(S(t), S(s)))
  BY <1>1, OutscoresIsTotal
<1>3. \A r, s, t \in P : Outscores(S(r), S(s)) /\ Outscores(S(s), S(t)) => Outscores(S(r), S(t))
  BY <1>1, OutscoresIsTransitive
<1>4. bad = {}
  <2> SUFFICES ASSUME bad # {} PROVE FALSE
    OBVIOUS
  <2>1. PICK n \in bad : \A k \in bad : n <= k
    <3>1. bad \subseteq Nat
      OBVIOUS
    <3> HIDE DEF bad
    <3> QED BY <3>1, LeastNatural
  <2>2. n \in Nat /\ upTo(n) # {} /\ ~best(n)
    BY <2>1
  <2>3. n # 0
    <3>1. PICK s \in P : s <= n
      BY <2>2
    <3>2. s \in Nat \ {0}
      BY <1>1
    <3> QED BY ONLY <2>2, <3>1, <3>2
  <2>4. n - 1 \in Nat /\ n - 1 \notin bad
    BY <2>1, <2>2, <2>3
  <2>5. upTo(n) = upTo(n - 1) \cup (IF n \in P THEN {n} ELSE {})
    <3>1. \A s \in P : s <= n <=> s <= n - 1 \/ s = n
      <4>1. \A s \in P : s \in Nat
        BY <1>1
      <4> QED BY ONLY <2>2, <4>1
    <3> QED BY <3>1
  <2> HIDE DEF upTo
  <2>6. upTo(n) \subseteq P
    BY DEF upTo
  <2>7. CASE upTo(n - 1) = {}
    <3>1. upTo(n) = {n} /\ n \in P
      BY <2>2, <2>5, <2>7
    <3> QED BY <1>2, <2>2, <3>1
  <2>8. CASE upTo(n - 1) # {}
    <3>1. PICK a \in upTo(n - 1) : \A t \in upTo(n - 1) : Outscores(S(a), S(t))
      BY <2>4, <2>8
    <3>2. n \in P
      BY <2>2, <2>5, <3>1
    <3>3. upTo(n) = upTo(n - 1) \cup {n}
      BY <2>5, <3>2
    <3>4. CASE Outscores(S(a), S(n))
      BY <2>2, <3>1, <3>3, <3>4
    <3>5. CASE Outscores(S(n), S(a))
      <4>1. \A t \in upTo(n - 1) : Outscores(S(n), S(t))
        BY <1>3, <2>6, <3>1, <3>2, <3>3, <3>5
      <4>2. Outscores(S(n), S(n))
        BY <1>2, <3>2
      <4> QED BY <2>2, <3>3, <4>1, <4>2
    <3> QED BY <1>2, <2>6, <3>2, <3>3, <3>4, <3>5
  <2> QED BY <2>7, <2>8
<1>5. upTo(N) = P
  BY <1>1
<1>6. best(N)
  BY <1>4, <1>5
<1> QED BY <1>5, <1>6 DEF S

(* The sheet that is picked outscores every other one.                     *)
LEMMA WinnerOutscores ==
    ASSUME NEW book, LegibleBook(book), Candidates(book) # {}
    PROVE  /\ Winner(book) \in Candidates(book)
           /\ \A t \in Candidates(book) :
                  Outscores(ScoreOf(book, Winner(book)), ScoreOf(book, t))
<1> DEFINE P == Candidates(book)
           scores == {ScoreOf(book, s) : s \in P}
           a == CHOOSE x \in scores : \A y \in scores : Outscores(x, y)
<1>1. P \subseteq 1..Len(book) /\ Len(book) \in Nat
  BY DEF Candidates, LegibleBook
<1>2. \A s \in P : s \in Nat /\ Legible(book[s]) /\ FindHeader(book[s]) # None
  BY <1>1 DEF Candidates, LegibleBook
<1>3. PICK s \in P : \A t \in P : Outscores(ScoreOf(book, s), ScoreOf(book, t))
  BY <1>1, <1>2, OneOutscoresAll
<1>4. ScoreOf(book, s) \in scores /\ \A y \in scores : Outscores(ScoreOf(book, s), y)
  BY <1>3
<1>5. a \in scores /\ \A y \in scores : Outscores(a, y)
  BY <1>4
<1>6. PICK w \in P : a = ScoreOf(book, w)
  BY <1>5
<1>7. a.sheet = w
  BY <1>2, <1>6, ScoreIsTyped
<1>8. Winner(book) = a.sheet
  BY DEF Winner, ScoreOf
<1>9. \A t \in P : Outscores(ScoreOf(book, w), ScoreOf(book, t))
  BY <1>5, <1>6
<1> QED BY <1>7, <1>8, <1>9

LEMMA ActiveIsRead ==
    ASSUME NEW book, NEW s \in Nat, Kept(book[s])
    PROVE  Rows(book, ActiveIn(book, s)) = Orders(book[s]) \ LoadedOrders(book[s])
<1> DEFINE sheet == book[s]
           t == Top(sheet)
           e == End(sheet, t)
           sec == Section(s, t, e)
<1>1. t \in 1..Len(sheet) /\ t \in Nat /\ t \in Headings(sheet) /\ Len(sheet) \in Nat
  BY TopIsFirst DEF Kept, Legible
<1>2. e \in Nat
  <2>1. CASE Marks(sheet) = {}
    <3>1. MarkerRow(sheet, t) = None
      BY <2>1, MarkerIsMark, FirstOfNone
    <3>2. e = Len(sheet) + 1
      BY <3>1 DEF End, OrElse
    <3> QED BY <1>1, <3>2
  <2>2. ASSUME NEW m \in Marks(sheet) PROVE e \in Nat
    <3>1. MarkerRow(sheet, t) = m /\ m \in Nat
      BY MarkerIsMark, MarksAndHeadings
    <3> QED BY <1>1, <3>1 DEF End, OrElse
  <2> QED BY <2>1, <2>2
<1>3. HeaderRow(sheet, t, 1) = t /\ t # None
  BY <1>1, OnTheSpot, NullAssumption
<1> HIDE DEF e, t
<1>4. sec \in Sections
  BY <1>1, <1>2 DEF Section, Sections
<1>5. sec # None
  BY <1>4, NullAssumption
<1>6. sec.sheet = s /\ sec.header = t /\ sec.start = t + 1 /\ sec.end = e
  BY DEF Section
<1> HIDE DEF sec
<1>7. Rows(book, sec) = {i \in t + 1..e - 1 : IsOrder(sheet[i], sheet[t])}
  BY <1>3, <1>5, <1>6 DEF Rows, OrElse
<1>8. Rows(book, sec) = RealRows(sheet, t, e)
  BY <1>7 DEF RealRows
<1>9. ActiveIn(book, s) = sec
  BY HeaderIsTop DEF ActiveIn, ActiveOn, sec, e, t
<1> QED BY <1>8, <1>9, ActiveRows DEF e, t

(* Where the loaded orders of a book are. *)
LoadedAsMeant(book, w, loaded) ==
    /\ loaded # None => loaded.sheet \in 1..Len(book)
    /\ IF loaded # None /\ loaded.sheet # w
       THEN Marks(book[w]) = {} /\ Rows(book, loaded) = Orders(book[loaded.sheet])
       ELSE Rows(book, loaded) = LoadedOrders(book[w])

LEMMA LoadedIsRead ==
    ASSUME NEW book, LegibleBook(book), Unambiguous(book), NEW w \in 1..Len(book)
    PROVE  LoadedAsMeant(book, w, LoadedIn(book, w))
<1> DEFINE marker == MarkerRow(book[w], FindHeader(book[w]))
           loaded == LoadedIn(book, w)
           beside == {t \in 1..Len(book) \ {w} : /\ TitleMatches(book[t], "LOADED")
                                                 /\ FindHeader(book[t]) # None}
           apart == First(beside)
<1>1. Len(book) \in Nat /\ w \in Nat /\ \A t \in 1..Len(book) : Kept(book[t])
  BY DEF LegibleBook, Unambiguous, Kept
<1>2. marker = First(Marks(book[w]))
  BY <1>1, HeaderIsTop, MarkerIsMark
<1>3. ASSUME NEW m \in Marks(book[w])
      PROVE  loaded # None /\ loaded.sheet = w /\ Rows(book, loaded) = LoadedOrders(book[w])
  <2>1. marker = m
    BY <1>1, <1>2, MarksAndHeadings
  <2>2. loaded = LoadedBeside(book, w, m)
    BY <2>1 DEF LoadedIn
  <2> QED BY <1>1, <2>2, LoadedRows
<1>4. ASSUME Marks(book[w]) = {} PROVE LoadedAsMeant(book, w, loaded)
  <2>1. marker = None
    BY <1>2, <1>4, FirstOfNone
  <2>2. LoadedOrders(book[w]) = {}
    BY <1>4 DEF LoadedOrders
  <2>3. CASE beside = {}
    <3>1. apart = None
      BY <2>3, FirstOfNone
    <3>2. loaded = None
      BY <2>1, <3>1 DEF LoadedIn, LoadedBeside
    <3>3. Rows(book, loaded) = {}
      BY <3>2 DEF Rows
    <3> QED BY <2>2, <3>2, <3>3 DEF LoadedAsMeant
  <2>4. CASE beside # {}
    <3>1. beside \subseteq Nat
      BY <1>1
    <3>2. apart \in beside
      BY <2>4, <3>1, FirstOf
    <3> DEFINE t == apart
               sec == Section(t, FindHeader(book[t]), Len(book[t]) + 1)
    <3>3. t \in 1..Len(book) /\ t # w /\ TitleMatches(book[t], "LOADED") /\ t \in Nat
      BY <1>1, <3>2
    <3>4. t # None
      BY <3>3, NullAssumption
    <3>5. loaded = sec
      BY <2>1, <3>4 DEF LoadedIn, LoadedBeside
    <3> HIDE DEF t
    <3>6. Kept(book[t])
      BY <1>1, <3>3
    <3>7. FindHeader(book[t]) \in Nat /\ Len(book[t]) + 1 \in Nat
      BY <3>6, HeaderIsTop, TopIsFirst DEF Kept, Legible
    <3>8. sec \in Sections /\ sec.sheet = t
      BY <3>3, <3>7 DEF Section, Sections
    <3>9. sec # None
      BY <3>8, NullAssumption
    <3>10. Len(book) > 1
      BY <1>1, <3>3
    <3>11. Marks(book[t]) = {}
      BY <3>3, <3>10 DEF Unambiguous
    <3>12. Rows(book, sec) = Orders(book[t])
      BY <3>3, <3>6, <3>11, WholeSheet
    <3> HIDE DEF sec
    <3> QED BY <1>4, <3>3, <3>5, <3>8, <3>9, <3>12 DEF LoadedAsMeant
  <2> QED BY <2>3, <2>4
<1> HIDE DEF loaded
<1>5. ASSUME NEW m \in Marks(book[w]) PROVE LoadedAsMeant(book, w, loaded)
  BY <1>3, <1>5 DEF LoadedAsMeant
<1>6. LoadedAsMeant(book, w, loaded)
  BY <1>4, <1>5
<1> QED BY <1>6 DEF loaded

(* A workbook that is well kept is read as it is meant, however many       *)
(* sheets and rows it has (detect_layout, _parse_section).                 *)
THEOREM EveryOrderIsRead ==
    ASSUME NEW book, LegibleBook(book)
    PROVE  ReadsEveryOrder(book)
<1> SUFFICES ASSUME Candidates(book) # {}, Unambiguous(book)
             PROVE  AreRead(book, Winner(book), LoadedSection(book))
  BY DEF ReadsEveryOrder
<1> DEFINE w == Winner(book)
           active(t) == Orders(book[t]) \ LoadedOrders(book[t])
<1>1. Len(book) \in Nat /\ \A t \in 1..Len(book) : Kept(book[t])
  BY DEF LegibleBook, Unambiguous, Kept
<1>2. /\ w \in Candidates(book)
      /\ \A t \in Candidates(book) : Outscores(ScoreOf(book, w), ScoreOf(book, t))
  BY WinnerOutscores
<1>3. w \in 1..Len(book) /\ w \in Nat /\ Kept(book[w])
  BY <1>1, <1>2 DEF Candidates
<1> HIDE DEF w
<1>4. Rows(book, ActiveIn(book, w)) = active(w)
  BY <1>3, ActiveIsRead
<1>5. ASSUME NEW t \in 1..Len(book), TitleMatches(book[t], "ACTIVE")
      PROVE  Cardinality(active(t)) <= Cardinality(active(w))
  <2>1. Kept(book[t]) /\ t \in Nat
    BY <1>1
  <2>2. FindHeader(book[t]) \in Nat
    BY <2>1, HeaderIsTop, TopIsFirst DEF Kept, Legible
  <2>3. t \in Candidates(book)
    BY <1>5, <2>2, NullAssumption DEF Candidates
  <2>4. ScoreOf(book, w).orders = Cardinality(active(w)) /\ ScoreOf(book, w).orders \in Nat
    BY <1>3, Scored
  <2>5. ScoreOf(book, t).orders = Cardinality(active(t)) /\ ScoreOf(book, t).orders \in Nat
    BY <2>1, Scored
  <2>6. Outscores(ScoreOf(book, w), ScoreOf(book, t))
    BY <1>2, <2>3
  <2> HIDE DEF active
  <2>7. ScoreOf(book, w).orders >= ScoreOf(book, t).orders
    BY <2>4, <2>5, <2>6 DEF Outscores
  <2> QED BY <2>4, <2>5, <2>7
<1>6. LoadedSection(book) = LoadedIn(book, w)
  BY DEF LoadedSection, w
<1>7. LoadedAsMeant(book, w, LoadedIn(book, w))
  BY <1>3, LoadedIsRead
<1>8. AreRead(book, w, LoadedIn(book, w))
  BY <1>4, <1>5, <1>7 DEF AreRead, LoadedAsMeant
<1> QED BY <1>6, <1>8 DEF w

LEMMA SmallBooksAreRead == SheetsAreRead
<1> SUFFICES ASSUME NEW book \in SmallBooks PROVE ReadsEveryOrder(book)
  BY DEF SheetsAreRead
<1>1. book \in Seq(Seq(Line))
  BY IngestionAssumption
<1>2. Len(book) \in Nat /\ \A s \in 1..Len(book) : book[s] \in Seq(Line)
  BY <1>1
<1>3. ASSUME NEW s \in 1..Len(book) PROVE Legible(book[s])
  <2>1. book[s] \in Seq(Line)
    BY <1>2
  <2>2. Len(book[s]) \in Nat /\ \A i \in 1..Len(book[s]) : book[s][i] \in Line
    BY <2>1
  <2> QED BY <2>2 DEF Legible, Line
<1> QED BY <1>2, <1>3, EveryOrderIsRead DEF LegibleBook

-----------------------------------------------------------------------------
(* What is parsed of a workbook.                                           *)

LEMMA FunctionsAreSequences ==
    ASSUME NEW n \in Nat, NEW S, NEW f \in [1..n -> S]
    PROVE  f \in Seq(S) /\ Len(f) = n
OBVIOUS

Increasing(P, s) ==
    /\ s \in [1..Cardinality(P) -> P]
    /\ \A k, n \in 1..Cardinality(P) : k < n => s[k] < s[n]

LEMMA RowsCanBeOrdered ==
    ASSUME NEW N \in Nat, NEW P, P \subseteq 1..N
    PROVE  \E s : Increasing(P, s)
<1> DEFINE bad == {n \in Nat : \E Q \in SUBSET (1..n) : \A s : ~Increasing(Q, s)}
<1>1. bad = {}
  <2> SUFFICES ASSUME bad # {} PROVE FALSE
    OBVIOUS
  <2>1. PICK n \in bad : \A k \in bad : n <= k
    <3>1. bad \subseteq Nat
      OBVIOUS
    <3> HIDE DEF bad
    <3> QED BY <3>1, LeastNatural
  <2>2. n \in Nat
    BY <2>1
  <2>3. PICK Q \in SUBSET (1..n) : \A s : ~Increasing(Q, s)
    BY <2>1
  <2>4. Q # {}
    <3> SUFFICES ASSUME Q = {} PROVE FALSE
      OBVIOUS
    <3> DEFINE none == [k \in 1..0 |-> 0]
    <3>1. Cardinality(Q) = 0
      BY FS_EmptySet
    <3>2. none \in [1..0 -> Q]
      OBVIOUS
    <3>3. Increasing(Q, none)
      BY <3>1, <3>2 DEF Increasing
    <3> QED BY <2>3, <3>3
  <2>5. n - 1 \in Nat /\ n - 1 \notin bad
    <3>1. n # 0
      <4>1. 1..0 = {}
        OBVIOUS
      <4> QED BY ONLY <2>3, <2>4, <4>1
    <3>2. n - 1 \in Nat /\ ~(n <= n - 1)
      BY <2>2, <3>1
    <3> HIDE DEF bad
    <3> QED BY <2>1, <3>2
  <2>6. \A R \in SUBSET (1..n - 1) : \E s : Increasing(R, s)
    BY <2>5
  <2>7. n \in Q
    <3> SUFFICES ASSUME n \notin Q PROVE FALSE
      OBVIOUS
    <3>1. Q \in SUBSET (1..n - 1)
      BY <2>2, <2>3
    <3> QED BY <2>3, <2>6, <3>1
  <2> DEFINE R == Q \ {n}
             c == Cardinality(R)
  <2>8. R \in SUBSET (1..n - 1)
    BY <2>2, <2>3
  <2>9. IsFiniteSet(R) /\ c \in Nat
    BY <2>5, <2>8, RowsAreFinite
  <2>10. Cardinality(Q) = c + 1
    <3>1. Cardinality(R \cup {n}) = c + 1
      BY <2>9, FS_AddElement
    <3>2. R \cup {n} = Q
      BY <2>7
    <3> QED BY <3>1, <3>2
  <2>11. PICK r : Increasing(R, r)
    BY <2>6, <2>8
  <2> DEFINE s == [k \in 1..c + 1 |-> IF k = c + 1 THEN n ELSE r[k]]
  <2> HIDE DEF c
  <2>12. /\ \A k \in 1..c : r[k] \in R
         /\ \A k, m \in 1..c : k < m => r[k] < r[m]
    BY <2>11 DEF Increasing, c
  <2>13. \A k \in 1..c + 1 : k = c + 1 \/ k \in 1..c
    BY <2>9
  <2>14. s \in [1..c + 1 -> Q]
    BY <2>7, <2>12, <2>13
  <2>15. ASSUME NEW k \in 1..c + 1, NEW m \in 1..c + 1, k < m
         PROVE  s[k] < s[m]
    <3>1. k \in 1..c /\ k # c + 1
      BY <2>9, <2>15
    <3>2. r[k] \in R /\ r[k] < n
      <4>1. r[k] \in R
        BY <2>12, <3>1
      <4>2. r[k] \in 1..n - 1
        BY <2>8, <4>1
      <4> QED BY <2>2, <4>1, <4>2
    <3>3. CASE m = c + 1
      BY <3>1, <3>2, <3>3
    <3>4. CASE m \in 1..c
      <4>1. r[k] < r[m]
        BY <2>12, <2>15, <3>1, <3>4
      <4>2. m # c + 1
        BY <2>9, <3>4
      <4> QED BY <3>1, <4>1, <4>2
    <3> QED BY <2>13, <3>3, <3>4
  <2> HIDE DEF s
  <2>16. Increasing(Q, s)
    BY <2>10, <2>14, <2>15 DEF Increasing
  <2> QED BY <2>3, <2>16
<1>2. N \notin bad
  BY <1>1
<1> QED BY <1>2

LEMMA RowsInOrder ==
    ASSUME NEW N \in Nat, NEW P, P \subseteq 1..N
    PROVE  InOrder(P) \in Seq(P)
<1>1. InOrder(P) \in [1..Cardinality(P) -> P]
  BY RowsCanBeOrdered DEF InOrder, Increasing
<1> QED BY <1>1, RowsAreFinite, FunctionsAreSequences

LEMMA SectionsAreTyped ==
    ASSUME NEW f, NEW section, NEW lifecycle \in {"ACTIVE", "LOADED"}, NEW N \in Nat,
           Rows(ContentOf[f].sheets, section) \subseteq 1..N,
           \A i \in Rows(ContentOf[f].sheets, section) :
               ContentOf[f].sheets[section.sheet][i].order \in Row
    PROVE  ParsedSection(f, section, lifecycle) \in Seq(StoredLine)
<1> DEFINE book == ContentOf[f].sheets
           P == Rows(book, section)
           rows == InOrder(P)
<1>1. rows \in Seq(P)
  BY RowsInOrder
<1> HIDE DEF rows
<1>2. Len(rows) \in Nat /\ \A n \in 1..Len(rows) : rows[n] \in P
  BY <1>1
<1>3. \A n \in 1..Len(rows) :
          [row |-> book[section.sheet][rows[n]].order, lifecycle |-> lifecycle] \in StoredLine
  BY <1>2 DEF StoredLine
<1>4. [n \in 1..Len(rows) |->
          [row |-> book[section.sheet][rows[n]].order, lifecycle |-> lifecycle]]
      \in [1..Len(rows) -> StoredLine]
  BY <1>3
<1>5. [n \in 1..Len(rows) |->
          [row |-> book[section.sheet][rows[n]].order, lifecycle |-> lifecycle]]
      \in Seq(StoredLine)
  BY <1>2, <1>4, FunctionsAreSequences
<1> QED BY <1>5 DEF ParsedSection, rows

LEMMA WorkbooksAreLegible ==
    ASSUME NEW f \in Files
    PROVE  /\ LegibleBook(ContentOf[f].sheets)
           /\ \A s \in 1..Len(ContentOf[f].sheets) : IsSheet(ContentOf[f].sheets[s])
<1> DEFINE book == ContentOf[f].sheets
<1>1. IsWorkbook(ContentOf[f])
  BY IngestionAssumption
<1>2. Len(book) \in Nat /\ \A s \in 1..Len(book) : IsSheet(book[s])
  BY <1>1 DEF IsWorkbook
<1> HIDE DEF book
<1>3. ASSUME NEW s \in 1..Len(book) PROVE Legible(book[s])
  <2>1. book[s] \in Seq(SheetRow)
    BY <1>2 DEF IsSheet
  <2>2. Len(book[s]) \in Nat /\ \A i \in 1..Len(book[s]) : book[s][i] \in SheetRow
    BY <2>1
  <2> QED BY <2>2 DEF Legible, SheetRow
<1>4. LegibleBook(book)
  BY <1>2, <1>3 DEF LegibleBook
<1> QED BY <1>2, <1>4 DEF book

(* A section is part of a sheet, well kept or not.                         *)
OnASheet(book, section) ==
    /\ section.sheet \in 1..Len(book)
    /\ section.start \in Nat \ {0}
    /\ section.end \in Nat /\ section.end <= Len(book[section.sheet]) + 1

LEMMA ActiveIsOnASheet ==
    ASSUME NEW book, LegibleBook(book), Candidates(book) # {}
    PROVE  OnASheet(book, ActiveSection(book))
<1> DEFINE w == Winner(book)
           h == FindHeader(book[w])
<1>1. w \in 1..Len(book) /\ h # None /\ Legible(book[w])
  BY WinnerOutscores DEF Candidates, LegibleBook
<1>2. h \in 1..Len(book[w]) /\ Len(book[w]) \in Nat
  BY <1>1, OnTheSheet DEF FindHeader, Legible
<1>3. ActiveSection(book) = Section(w, h, End(book[w], h))
  BY DEF ActiveSection, ActiveIn, ActiveOn
<1> HIDE DEF w, h
<1>4. End(book[w], h) \in Nat /\ End(book[w], h) <= Len(book[w]) + 1
  BY <1>1, <1>2, EndIsOnTheSheet
<1> QED BY <1>1, <1>2, <1>3, <1>4 DEF OnASheet, Section

LEMMA LoadedIsOnASheet ==
    ASSUME NEW book, LegibleBook(book), Candidates(book) # {}, LoadedSection(book) # None
    PROVE  OnASheet(book, LoadedSection(book))
<1> DEFINE w == Winner(book)
           h == FindHeader(book[w])
           m == MarkerRow(book[w], h)
           own == HeaderRow(book[w], m + 1, LoadedScanRows)
           others == {t \in 1..Len(book) \ {w} : /\ TitleMatches(book[t], "LOADED")
                                                  /\ FindHeader(book[t]) # None}
           t == First(others)
<1>1. w \in 1..Len(book) /\ h # None /\ Legible(book[w]) /\ Len(book[w]) \in Nat
  BY WinnerOutscores DEF Candidates, LegibleBook, Legible
<1>2. h \in 1..Len(book[w])
  BY <1>1, OnTheSheet DEF FindHeader
<1>3. LoadedSection(book)
          = CASE m # None -> Section(w, OrElse(own, m), Len(book[w]) + 1)
              [] m = None /\ t # None -> Section(t, FindHeader(book[t]), Len(book[t]) + 1)
              [] OTHER -> None
  BY DEF LoadedSection, LoadedIn, LoadedBeside
<1> HIDE DEF w, h
<1>4. CASE m # None
  <2>1. m \in h + 1..Len(book[w])
    BY <1>1, <1>2, <1>4, OnTheSheet
  <2> HIDE DEF m
  <2>2. m \in Nat \ {0} /\ m + 1 \in Nat \ {0}
    BY <1>1, <1>2, <2>1
  <2>3. own # None => own \in m + 1..Len(book[w])
    BY <1>1, <2>2, OnTheSheet
  <2> HIDE DEF own
  <2>4. OrElse(own, m) \in Nat
    BY <1>1, <2>2, <2>3 DEF OrElse
  <2>5. LoadedSection(book) = Section(w, OrElse(own, m), Len(book[w]) + 1)
    BY <1>3, <1>4
  <2> QED BY <1>1, <2>4, <2>5 DEF OnASheet, Section
<1>5. CASE m = None /\ t # None
  <2>1. others \subseteq Nat
    BY DEF LegibleBook
  <2> HIDE DEF others
  <2>2. t \in others
    BY <1>5, <2>1, FirstWithin
  <2> HIDE DEF t
  <2>3. t \in 1..Len(book) /\ FindHeader(book[t]) # None /\ Legible(book[t])
    BY <2>2 DEF others, LegibleBook
  <2>4. FindHeader(book[t]) \in Nat /\ Len(book[t]) \in Nat
    BY <2>3, OnTheSheet DEF FindHeader, Legible
  <2>5. LoadedSection(book) = Section(t, FindHeader(book[t]), Len(book[t]) + 1)
    BY <1>3, <1>5
  <2> QED BY <2>3, <2>4, <2>5 DEF OnASheet, Section
<1> QED BY <1>3, <1>4, <1>5

(* Every row that is read has an order to read.                            *)
LEMMA RowsHaveOrders ==
    ASSUME NEW f \in Files, NEW section, section # None,
           OnASheet(ContentOf[f].sheets, section)
    PROVE  LET book == ContentOf[f].sheets
           IN  /\ Len(book[section.sheet]) \in Nat
               /\ Rows(book, section) \subseteq 1..Len(book[section.sheet])
               /\ \A i \in Rows(book, section) : book[section.sheet][i].order \in Row
<1> DEFINE book == ContentOf[f].sheets
           sheet == book[section.sheet]
<1>1. /\ section.start \in Nat \ {0} /\ section.end \in Nat
      /\ section.end <= Len(sheet) + 1 /\ IsSheet(sheet) /\ Len(sheet) \in Nat
  BY WorkbooksAreLegible DEF OnASheet, LegibleBook, Legible
<1>2. ASSUME NEW i \in Rows(book, section)
      PROVE  i \in section.start..section.end - 1 /\ sheet[i].id \notin {None, "TOTAL"}
  BY <1>2 DEF Rows, IsOrder
<1> HIDE DEF sheet
<1>3. ASSUME NEW i \in Rows(book, section)
      PROVE  i \in 1..Len(sheet) /\ sheet[i].order \in Row
  <2>1. i \in 1..Len(sheet) /\ sheet[i].id \notin {None, "TOTAL"}
    <3>1. i \in section.start..section.end - 1 /\ sheet[i].id \notin {None, "TOTAL"}
      BY <1>2, <1>3
    <3> QED BY ONLY <1>1, <3>1
  <2>2. sheet \in Seq(SheetRow) /\ sheet[i].order # None
    BY <1>1, <2>1 DEF IsSheet
  <2>3. sheet[i] \in SheetRow
    BY <2>1, <2>2
  <2> QED BY <2>1, <2>2, <2>3 DEF SheetRow
<1> QED BY <1>1, <1>3 DEF sheet

LEMMA ParsedLinesAreTyped ==
    ASSUME NEW f \in Files
    PROVE  ParsedLines(f) \in Seq(StoredLine)
<1> DEFINE book == ContentOf[f].sheets
           active == ActiveSection(book)
           loaded == LoadedSection(book)
<1>1. LegibleBook(book)
  BY WorkbooksAreLegible
<1>2. CASE ~Readable(f)
  <2>1. ParsedLines(f) = << >>
    BY <1>2 DEF ParsedLines, Parsed
  <2> QED BY <2>1
<1>3. CASE Readable(f)
  <2>1. Candidates(book) # {}
    BY <1>3 DEF Readable
  <2>2. active # None
    <3>1. active \in Sections
      <4>1. active = Section(active.sheet, active.header, active.end)
            /\ active.header = FindHeader(book[Winner(book)])
            /\ active.sheet = Winner(book)
        BY DEF ActiveSection, ActiveIn, ActiveOn, Section
      <4>2. Winner(book) \in 1..Len(book) /\ FindHeader(book[Winner(book)]) # None
            /\ Legible(book[Winner(book)])
        BY <1>1, <2>1, WinnerOutscores DEF Candidates, LegibleBook
      <4>3. FindHeader(book[Winner(book)]) \in Nat
        BY <4>2, OnTheSheet DEF FindHeader, Legible
      <4>4. active.end \in Nat
        BY <1>1, <2>1, ActiveIsOnASheet DEF OnASheet
      <4> HIDE DEF active
      <4> QED BY <4>1, <4>2, <4>3, <4>4 DEF Section, Sections
    <3> QED BY <3>1, NullAssumption
  <2>3. OnASheet(book, active) /\ (loaded # None => OnASheet(book, loaded))
    BY <1>1, <2>1, ActiveIsOnASheet, LoadedIsOnASheet
  <2>4. ParsedLines(f) = ParsedSection(f, active, "ACTIVE") \o ParsedSection(f, loaded, "LOADED")
    BY <1>3 DEF ParsedLines, Parsed
  <2> HIDE DEF active, loaded
  <2>5. ParsedSection(f, active, "ACTIVE") \in Seq(StoredLine)
    BY <2>2, <2>3, RowsHaveOrders, SectionsAreTyped
  <2>6. ParsedSection(f, loaded, "LOADED") \in Seq(StoredLine)
    <3>1. CASE loaded = None
      <4>1. Rows(book, loaded) = {} /\ Rows(book, loaded) \subseteq 1..0
        BY <3>1 DEF Rows
      <4> QED BY <4>1, SectionsAreTyped
    <3>2. CASE loaded # None
      BY <2>3, <3>2, RowsHaveOrders, SectionsAreTyped
    <3> QED BY <3>1, <3>2
  <2> QED BY <2>4, <2>5, <2>6, ConcatProperties
<1> QED BY <1>2, <1>3

(* Whether there is a lookup sheet or not.                                 *)
LEMMA ParsedTablesAreTyped ==
    ASSUME NEW f \in Files
    PROVE  ParsedTables(f) \in Tables
<1>1. ContentOf[f].tables \in Tables \cup {None}
  BY IngestionAssumption DEF IsWorkbook
<1> QED BY <1>1 DEF ParsedTables, Tables

-----------------------------------------------------------------------------
(* What is stored of a workbook, and what is compared.                     *)

LEMMA RoundedIsTyped ==
    ASSUME NEW number \in Nat \cup {None}
    PROVE  Rounded(number) \in Nat \cup {None}
<1>1. CASE number = None
  BY <1>1 DEF Rounded
<1>2. CASE number # None
  <2>1. Precision \in Nat /\ Precision > 0 /\ number \in Nat
    BY <1>2, IngestionAssumption
  <2>2. number + Precision \div 2 \in Nat
    BY <2>1
  <2>3. \A a \in Nat : a \div Precision \in Nat
    BY <2>1
  <2>4. \A a \in Nat : a * Precision \in Nat
    BY <2>1
  <2>5. ((number + Precision \div 2) \div Precision) * Precision \in Nat
    BY <2>2, <2>3, <2>4
  <2> QED BY <1>2, <2>5 DEF Rounded
<1> QED BY <1>1, <1>2

(* A stored line is the parsed one but for an unknown incoterm and rounding. *)
LEMMA StoredLineIs ==
    ASSUME NEW line \in StoredLine
    PROVE  /\ OrderLineModel(line) \in StoredLine
           /\ OrderLineModel(line).row.contract = line.row.contract
           /\ OrderLineModel(line).row.species = line.row.species
           /\ OrderLineModel(line).row.incoterm =
                  IF line.row.incoterm \in KnownIncoterms THEN line.row.incoterm ELSE None
<1> DEFINE row == line.row
           kept == [row EXCEPT !.incoterm = IF @ \in KnownIncoterms THEN @ ELSE None,
                               !.amount = Rounded(@),
                               !.heads = Rounded(@)]
<1>1. row \in Row /\ line = [row |-> row, lifecycle |-> line.lifecycle]
      /\ line.lifecycle \in {"ACTIVE", "LOADED"}
  BY DEF StoredLine
<1>2. OrderLineModel(line) = [row |-> kept, lifecycle |-> line.lifecycle]
  <2>1. OrderLineModel(line) = [line EXCEPT !.row = kept]
    BY DEF OrderLineModel
  <2> HIDE DEF kept, row
  <2>2. [line EXCEPT !.row = kept] = [row |-> kept, lifecycle |-> line.lifecycle]
    BY ONLY <1>1
  <2> QED BY <2>1, <2>2
<1>3. /\ Rounded(row.amount) \in Nat \cup {None} /\ Rounded(row.heads) \in Nat \cup {None}
  BY <1>1, RoundedIsTyped DEF Row
<1> HIDE DEF row
<1>4. /\ kept \in Row
      /\ kept.contract = row.contract /\ kept.species = row.species
      /\ kept.incoterm = IF row.incoterm \in KnownIncoterms THEN row.incoterm ELSE None
  BY <1>1, <1>3 DEF Row
<1> HIDE DEF kept
<1> QED BY <1>1, <1>2, <1>4 DEF StoredLine, row

LEMMA StoredLinesAre ==
    ASSUME NEW f \in Files
    PROVE  /\ StoredLines(f) \in Seq(StoredLine)
           /\ Len(StoredLines(f)) = Len(ParsedLines(f))
           /\ Len(ParsedLines(f)) \in Nat
           /\ \A i \in 1..Len(ParsedLines(f)) :
                  /\ ParsedLines(f)[i] \in StoredLine
                  /\ StoredLines(f)[i] = OrderLineModel(ParsedLines(f)[i])
<1> DEFINE lines == ParsedLines(f)
<1>1. lines \in Seq(StoredLine)
  BY ParsedLinesAreTyped
<1> HIDE DEF lines
<1>2. Len(lines) \in Nat /\ \A i \in 1..Len(lines) : lines[i] \in StoredLine
  BY <1>1
<1>3. StoredLines(f) = [i \in 1..Len(lines) |-> OrderLineModel(lines[i])]
  BY DEF StoredLines, lines
<1>4. \A i \in 1..Len(lines) : OrderLineModel(lines[i]) \in StoredLine
  BY <1>2, StoredLineIs
<1>5. StoredLines(f) \in [1..Len(lines) -> StoredLine]
  BY <1>3, <1>4
<1>6. StoredLines(f) \in Seq(StoredLine) /\ Len(StoredLines(f)) = Len(lines)
  BY <1>2, <1>5, FunctionsAreSequences
<1>7. \A i \in 1..Len(lines) : StoredLines(f)[i] = OrderLineModel(lines[i])
  BY <1>3
<1> QED BY <1>2, <1>6, <1>7 DEF lines

LEMMA KeysAreTyped ==
    ASSUME NEW lines \in Seq(StoredLine)
    PROVE  Keys(lines) \subseteq Key
<1> SUFFICES ASSUME NEW i \in 1..Len(lines) PROVE IdentityKey(lines[i]) \in Key
  BY DEF Keys
<1>1. lines[i] \in StoredLine
  OBVIOUS
<1>2. lines[i].row \in Row
  BY <1>1 DEF StoredLine
<1> QED BY <1>2 DEF Row, Key, IdentityKey

(* Keys of the first that are not in the second are removed. *)
LEMMA ComparedIs ==
    ASSUME NEW previous, NEW current
    PROVE  Compare(previous, current).removed
           = IF previous = None THEN {} ELSE Keys(previous) \ Keys(current)
<1>1. DOMAIN ByKey(previous) = Keys(previous) /\ DOMAIN ByKey(current) = Keys(current)
  BY DEF ByKey
<1>2. CASE previous \in {None, << >>}
  <2>1. Compare(previous, current).removed = {}
    BY <1>2 DEF Compare
  <2>2. Keys(<< >>) = {}
    BY DEF Keys
  <2> QED BY <1>2, <2>1, <2>2
<1>3. CASE previous \notin {None, << >>}
  BY <1>1, <1>3 DEF Compare
<1> QED BY <1>2, <1>3

LEMMA ComparedIsTyped ==
    ASSUME NEW previous, previous = None \/ previous \in Seq(StoredLine),
           NEW current \in Seq(StoredLine)
    PROVE  Compare(previous, current) \in Diff
<1>1. DOMAIN ByKey(previous) = Keys(previous) /\ DOMAIN ByKey(current) = Keys(current)
  BY DEF ByKey
<1>2. Keys(current) \subseteq Key
  BY KeysAreTyped
<1>3. CASE previous \in {None, << >>}
  BY <1>2, <1>3 DEF Compare, Diff
<1>4. CASE previous \notin {None, << >>}
  <2>1. Keys(previous) \subseteq Key
    BY <1>4, KeysAreTyped
  <2> QED BY <1>1, <1>2, <1>4, <2>1 DEF Compare, Diff
<1> QED BY <1>3, <1>4

(* What is gone of stored lines when a workbook is stored was recorded as  *)
(* removed when it was compared; and what was recorded otherwise has an    *)
(* incoterm that was not recognised.                                       *)
LEMMA RemovalsExplained ==
    ASSUME NEW f \in Files, NEW before \in Seq(StoredLine),
           \A i \in 1..Len(before) : before[i].row.incoterm \in KnownIncoterms \cup {None}
    PROVE  /\ Keys(before) \ Keys(StoredLines(f)) \subseteq Keys(before) \ Keys(ParsedLines(f))
           /\ \A k \in (Keys(before) \ Keys(ParsedLines(f)))
                       \ (Keys(before) \ Keys(StoredLines(f))) :
                  k[3] = None /\ <<k[1], k[2]>> \in Unrecognised(f)
<1> DEFINE parsed == ParsedLines(f)
           stored == StoredLines(f)
<1>1. /\ Len(stored) = Len(parsed)
      /\ \A i \in 1..Len(parsed) :
             /\ IdentityKey(stored[i]) =
                    <<parsed[i].row.contract, parsed[i].row.species,
                      IF parsed[i].row.incoterm \in KnownIncoterms
                      THEN parsed[i].row.incoterm ELSE None>>
  <2>1. ASSUME NEW i \in 1..Len(parsed)
        PROVE  IdentityKey(stored[i]) =
                    <<parsed[i].row.contract, parsed[i].row.species,
                      IF parsed[i].row.incoterm \in KnownIncoterms
                      THEN parsed[i].row.incoterm ELSE None>>
    <3>1. parsed[i] \in StoredLine /\ stored[i] = OrderLineModel(parsed[i])
      BY StoredLinesAre
    <3> QED BY <3>1, StoredLineIs DEF IdentityKey
  <2>2. Len(stored) = Len(parsed)
    BY StoredLinesAre
  <2> QED BY <2>1, <2>2
<1> HIDE DEF parsed, stored
<1>2. \A k \in Keys(before) : k[3] \in KnownIncoterms \cup {None}
  BY DEF Keys, IdentityKey
<1>3. ASSUME NEW k \in Keys(before), k \in Keys(parsed)
      PROVE  k \in Keys(stored)
  <2>1. PICK i \in 1..Len(parsed) : k = IdentityKey(parsed[i])
    BY <1>3 DEF Keys
  <2>2. parsed[i].row.incoterm = k[3] /\ k = <<parsed[i].row.contract, parsed[i].row.species, k[3]>>
    BY <2>1 DEF IdentityKey
  <2>3. (IF parsed[i].row.incoterm \in KnownIncoterms THEN parsed[i].row.incoterm ELSE None) = k[3]
    BY <1>2, <2>2
  <2>4. IdentityKey(stored[i]) = k
    BY <1>1, <2>2, <2>3
  <2> QED BY <1>1, <2>4 DEF Keys
<1>4. ASSUME NEW k \in Keys(stored), k \notin Keys(parsed)
      PROVE  k[3] = None /\ <<k[1], k[2]>> \in Unrecognised(f)
  <2>1. PICK i \in 1..Len(parsed) : k = IdentityKey(stored[i])
    BY <1>1 DEF Keys
  <2>2. IdentityKey(parsed[i]) # k
    BY <1>4 DEF Keys
  <2> DEFINE incoterm == parsed[i].row.incoterm
  <2>3. k = <<parsed[i].row.contract, parsed[i].row.species,
              IF incoterm \in KnownIncoterms THEN incoterm ELSE None>>
    BY <1>1, <2>1
  <2>4. IdentityKey(parsed[i]) = <<parsed[i].row.contract, parsed[i].row.species, incoterm>>
    BY DEF IdentityKey
  <2> HIDE DEF incoterm
  <2>5. incoterm \notin KnownIncoterms /\ incoterm # None
    BY <2>2, <2>3, <2>4
  <2>6. k = <<parsed[i].row.contract, parsed[i].row.species, None>>
    BY <2>3, <2>5
  <2>7. <<parsed[i].row.contract, parsed[i].row.species>> \in Unrecognised(f)
    BY <2>5 DEF Unrecognised, incoterm, parsed
  <2> QED BY <2>6, <2>7
<1> QED BY <1>3, <1>4 DEF parsed, stored

-----------------------------------------------------------------------------
(* Types and attempts.                                                     *)

IntakeTyped ==
    /\ uploads \in 0..MaxUploads /\ attempts \in 0..MaxCommits
    /\ previews \in [PreviewIds -> Preview \cup {None}]
    /\ expired \subseteq PreviewIds /\ cut \subseteq PreviewIds
    /\ commit \in [Requests -> {Idle} \cup Begun \cup Written]
    /\ objects \subseteq 1..attempts
    /\ snapshots \in Seq(Snapshot)
    /\ removals \subseteq Removal /\ drifts \subseteq Drift

Busy(r) == commit[r].step # "idle"
HasRead(r) == commit[r].step \in {"read", "deleted"}

(* Attempts are numbered, so that no two snapshots have the same instant.  *)
Numbered ==
    /\ \A i \in 1..Len(snapshots) : snapshots[i].id <= attempts
    /\ \A i, j \in 1..Len(snapshots) : i # j => snapshots[i].id # snapshots[j].id
    /\ \A r \in Requests : Busy(r) =>
           /\ commit[r].id <= attempts
           /\ \A i \in 1..Len(snapshots) : snapshots[i].id # commit[r].id
    /\ \A r, q \in Requests : r # q /\ Busy(r) /\ Busy(q) => commit[r].id # commit[q].id
    /\ \A r \in Requests : HasRead(r) => commit[r].previous <= Len(snapshots)
    /\ \A x \in removals \cup drifts :
           \E i \in 1..Len(snapshots) : snapshots[i].id = x.snapshot

LEMMA BookIsTyped ==
    ASSUME snapshots \in Seq(Snapshot)
    PROVE  /\ Len(snapshots) \in Nat
           /\ \A i \in 1..Len(snapshots) :
                  /\ snapshots[i] \in Snapshot
                  /\ snapshots[i].id \in SnapshotIds /\ snapshots[i].preview \in PreviewIds
                  /\ snapshots[i].of \in Preview /\ snapshots[i].of.file \in Files
                  /\ snapshots[i].lines \in Seq(StoredLine) /\ snapshots[i].tables \in Tables
                  /\ snapshots[i].found \in Nat /\ snapshots[i].known \in Nat
<1>1. Len(snapshots) \in Nat /\ \A i \in 1..Len(snapshots) : snapshots[i] \in Snapshot
  OBVIOUS
<1>2. \A i \in 1..Len(snapshots) :
          /\ snapshots[i].id \in SnapshotIds /\ snapshots[i].preview \in PreviewIds
          /\ snapshots[i].of \in Preview
          /\ snapshots[i].lines \in Seq(StoredLine) /\ snapshots[i].tables \in Tables
          /\ snapshots[i].found \in 0..MaxCommits /\ snapshots[i].known \in 0..MaxCommits
  BY <1>1 DEF Snapshot
<1>3. \A w \in Preview : w.file \in Files
  BY DEF Preview
<1> QED BY <1>1, <1>2, <1>3

LEMMA RequestIsTyped ==
    ASSUME IntakeTyped, NEW r \in Requests
    PROVE  /\ commit[r].step = "begun" => commit[r] \in Begun
           /\ HasRead(r) => commit[r] \in Written
           /\ Busy(r) => /\ commit[r].id \in SnapshotIds /\ commit[r].preview \in PreviewIds
                         /\ commit[r].of \in Preview /\ commit[r].of.file \in Files
                         /\ commit[r].found \in Nat
                         /\ commit[r].step = "begun" \/ HasRead(r)
<1>1. commit[r] \in {Idle} \cup Begun \cup Written
  BY DEF IntakeTyped
<1>2. \A w \in Preview : w.file \in Files
  BY DEF Preview
<1>3. CASE commit[r] = Idle
  BY <1>3 DEF Idle, HasRead, Busy
<1>4. CASE commit[r] \in Begun
  <2>1. commit[r].step = "begun" /\ commit[r].id \in SnapshotIds /\ commit[r].preview \in PreviewIds
        /\ commit[r].of \in Preview /\ commit[r].found \in Nat
    BY <1>4 DEF Begun
  <2> QED BY <1>2, <1>4, <2>1 DEF HasRead, Busy
<1>5. CASE commit[r] \in Written
  <2>1. commit[r].step \in {"read", "deleted"} /\ commit[r].id \in SnapshotIds
        /\ commit[r].preview \in PreviewIds
        /\ commit[r].of \in Preview /\ commit[r].found \in Nat
    BY <1>5 DEF Written
  <2> QED BY <1>2, <1>5, <2>1 DEF HasRead, Busy
<1> QED BY <1>1, <1>3, <1>4, <1>5

(* There are no more snapshots than attempts, since each has a number of   *)
(* its own.                                                                *)
LEMMA FewSnapshots ==
    ASSUME IntakeTyped, Numbered
    PROVE  Len(snapshots) \in Nat /\ Len(snapshots) <= attempts /\ attempts <= MaxCommits
<1>1. Len(snapshots) \in Nat /\ \A i \in 1..Len(snapshots) : snapshots[i].id \in SnapshotIds
  BY BookIsTyped DEF IntakeTyped
<1>2. attempts \in Nat /\ attempts <= MaxCommits /\ MaxCommits \in Nat
  BY IngestionAssumption DEF IntakeTyped
<1>3. Len(snapshots) <= attempts
  <2> SUFFICES ASSUME attempts < Len(snapshots) PROVE FALSE
    BY <1>1, <1>2
  <2> DEFINE S == 1..Len(snapshots)
             T == 1..attempts
             ids == [i \in S |-> snapshots[i].id]
  <2>1. IsFiniteSet(S) /\ Cardinality(S) = Len(snapshots)
    BY <1>1, FS_Interval
  <2>2. IsFiniteSet(T) /\ Cardinality(T) = attempts
    BY <1>2, FS_Interval
  <2>3. ids \in [S -> T]
    BY <1>1, <1>2 DEF Numbered, SnapshotIds
  <2>4. Cardinality(T) < Cardinality(S)
    BY <2>1, <2>2
  <2> HIDE DEF S, T, ids
  <2>5. PICK i, j \in S : i # j /\ ids[i] = ids[j]
    BY <2>1, <2>2, <2>3, <2>4, FS_PigeonHole
  <2> QED BY <2>5 DEF Numbered, S, ids
<1> QED BY <1>1, <1>2, <1>3

(* What a snapshot is compared with: of the first n, the one created last. *)
IsLatestIn(book, q, n) ==
    IF n = 0 THEN q = 0 ELSE q \in 1..n /\ \A j \in 1..n : book[j].id <= book[q].id

LEMMA LatestIsLast ==
    ASSUME IntakeTyped, Numbered
    PROVE  /\ Latest \in 0..Len(snapshots) /\ Latest \in 0..MaxCommits
           /\ IsLatestIn(snapshots, Latest, Len(snapshots))
<1>1. /\ Len(snapshots) \in Nat /\ Len(snapshots) <= MaxCommits /\ MaxCommits \in Nat
      /\ \A i \in 1..Len(snapshots) : snapshots[i].id \in SnapshotIds
  BY FewSnapshots, BookIsTyped, IngestionAssumption DEF IntakeTyped
<1>2. CASE snapshots = << >>
  <2>1. Len(snapshots) = 0 /\ Latest = 0
    BY <1>2 DEF Latest
  <2> QED BY <1>1, <2>1 DEF IsLatestIn
<1>3. CASE snapshots # << >>
  <2> DEFINE N == Len(snapshots)
             id(i) == snapshots[i].id
             T == {MaxCommits - id(i) : i \in 1..N}
  <2>1. N # 0
    BY <1>1, <1>3 DEF IntakeTyped
  <2>2. \A i \in 1..N : id(i) \in Nat /\ id(i) <= MaxCommits
    BY <1>1 DEF SnapshotIds
  <2> HIDE DEF id
  <2>3. T \subseteq Nat
    BY <1>1, <2>2
  <2>4. MaxCommits - id(1) \in T
    BY <1>1, <2>1
  <2>5. PICK x \in T : \A y \in T : x <= y
    <3> HIDE DEF T
    <3> QED BY <2>3, <2>4, LeastNatural
  <2>6. PICK i \in 1..N : x = MaxCommits - id(i)
    BY <2>5
  <2>7. \A j \in 1..N : id(j) <= id(i)
    <3> SUFFICES ASSUME NEW j \in 1..N PROVE id(j) <= id(i)
      OBVIOUS
    <3>1. MaxCommits - id(j) \in T
      OBVIOUS
    <3>2. MaxCommits - id(i) <= MaxCommits - id(j)
      BY <2>5, <2>6, <3>1
    <3>3. id(i) \in Nat /\ id(j) \in Nat
      BY <2>2
    <3> QED BY ONLY <1>1, <3>2, <3>3
  <2>8. Latest \in 1..N /\ \A j \in 1..N : id(j) <= id(Latest)
    BY <1>3, <2>7 DEF Latest, id
  <2> QED BY <1>1, <2>1, <2>8 DEF IsLatestIn, id
<1> QED BY <1>2, <1>3

LEMMA LinesAreTyped ==
    ASSUME IntakeTyped, NEW q \in 0..Len(snapshots)
    PROVE  /\ LinesOf(q) = None \/ LinesOf(q) \in Seq(StoredLine)
           /\ TablesOf(q) = None \/ TablesOf(q) \in Tables
<1>1. Len(snapshots) \in Nat /\ \A i \in 1..Len(snapshots) :
          snapshots[i].lines \in Seq(StoredLine) /\ snapshots[i].tables \in Tables
  BY BookIsTyped DEF IntakeTyped
<1>2. q = 0 \/ q \in 1..Len(snapshots)
  BY <1>1
<1> QED BY <1>1, <1>2 DEF LinesOf, TablesOf

LEMMA BookGrows ==
    ASSUME NEW book \in Seq(Snapshot), NEW s \in Snapshot
    PROVE  /\ Append(book, s) \in Seq(Snapshot) /\ Len(book) \in Nat
           /\ Len(Append(book, s)) = Len(book) + 1
           /\ \A i \in 1..Len(book) : Append(book, s)[i] = book[i]
           /\ Append(book, s)[Len(book) + 1] = s
           /\ \A i \in 1..Len(Append(book, s)) : i \in 1..Len(book) \/ i = Len(book) + 1
<1>1. Len(book) \in Nat
  OBVIOUS
<1> QED BY <1>1, AppendProperties

LEMMA TypedInit == Init => IntakeTyped /\ Numbered
<1> SUFFICES ASSUME Init PROVE IntakeTyped /\ Numbered
  OBVIOUS
<1> USE DEF Init, IntakeInit
<1>1. IntakeTyped
  <2>1. 0 \in 0..MaxUploads /\ 0 \in 0..MaxCommits
    BY IngestionAssumption
  <2>2. << >> \in Seq(Snapshot)
    OBVIOUS
  <2> QED BY <2>1, <2>2 DEF IntakeTyped
<1>2. 1..Len(snapshots) = {}
  OBVIOUS
<1>3. \A r \in Requests : ~Busy(r) /\ ~HasRead(r)
  BY DEF Busy, HasRead, Idle
<1> QED BY <1>1, <1>2, <1>3 DEF Numbered

(* What an upload leaves in Redis. *)
PreviewOf(f) ==
    [file |-> f, shown |-> Compare(LinesOf(Latest), ParsedLines(f)),
     duplicate |-> Latest # 0 /\ snapshots[Latest].of.file = f,
     known |-> Len(snapshots)]

LEMMA UploadIs ==
    ASSUME IntakeTyped, Numbered, NEW f \in Files, Upload(f)
    PROVE  /\ PreviewOf(f) \in Preview /\ PreviewOf(f) # None
           /\ PreviewOf(f).file = f /\ PreviewOf(f).known = Len(snapshots)
           /\ PreviewOf(f).shown = Compare(LinesOf(Latest), ParsedLines(f))
           /\ uploads + 1 \in PreviewIds /\ uploads' = uploads + 1 /\ uploads' \in 0..MaxUploads
           /\ previews'[uploads + 1] = PreviewOf(f)
           /\ \A p \in PreviewIds : p # uploads + 1 => previews'[p] = previews[p]
           /\ previews' \in [PreviewIds -> Preview \cup {None}]
           /\ UNCHANGED <<expired, attempts, commit, objects, snapshots, removals, drifts, cut>>
<1> DEFINE w == PreviewOf(f)
<1>1. w \in Preview
  <2>1. Compare(LinesOf(Latest), ParsedLines(f)) \in Diff
    BY LatestIsLast, LinesAreTyped, ParsedLinesAreTyped, ComparedIsTyped
  <2>2. Len(snapshots) \in 0..MaxCommits
    BY FewSnapshots, IngestionAssumption DEF IntakeTyped
  <2> QED BY <2>1, <2>2 DEF PreviewOf, Preview
<1>2. w.file = f /\ w.known = Len(snapshots) /\ w.shown = Compare(LinesOf(Latest), ParsedLines(f))
  BY DEF PreviewOf
<1>3. previews' = [previews EXCEPT ![uploads + 1] = w]
  BY DEF Upload, PreviewOf
<1> HIDE DEF w
<1>4. uploads' = uploads + 1 /\ uploads' \in 0..MaxUploads /\ uploads + 1 \in PreviewIds
  BY IngestionAssumption DEF Upload, IntakeTyped, PreviewIds
<1>5. /\ previews' \in [PreviewIds -> Preview \cup {None}]
      /\ previews'[uploads + 1] = w
      /\ \A p \in PreviewIds : p # uploads + 1 => previews'[p] = previews[p]
  BY <1>1, <1>3, <1>4 DEF IntakeTyped
<1>6. w # None
  BY <1>1, PreviewsAreNotNull
<1>7. UNCHANGED <<expired, attempts, commit, objects, snapshots, removals, drifts, cut>>
  BY DEF Upload
<1> QED BY <1>1, <1>2, <1>4, <1>5, <1>6, <1>7 DEF w

LEMMA TypedUpload ==
    ASSUME IntakeTyped, Numbered, NEW f \in Files, Upload(f)
    PROVE  IntakeTyped' /\ Numbered'
<1>1. IntakeTyped'
  BY UploadIs DEF IntakeTyped
<1>2. Numbered'
  BY DEF Upload, Numbered, Busy, HasRead
<1> QED BY <1>1, <1>2

LEMMA TypedExpire ==
    ASSUME IntakeTyped, Numbered, NEW p \in PreviewIds, Expire(p)
    PROVE  IntakeTyped' /\ Numbered'
<1>1. IntakeTyped'
  BY DEF Expire, IntakeTyped
<1>2. Numbered'
  BY DEF Expire, Numbered, Busy, HasRead
<1> QED BY <1>1, <1>2

LEMMA TypedBeginCommit ==
    ASSUME IntakeTyped, Numbered, NEW r \in Requests, NEW p \in PreviewIds, BeginCommit(r, p)
    PROVE  IntakeTyped' /\ Numbered'
<1> DEFINE c == [step |-> "begun", id |-> attempts + 1, preview |-> p,
                 of |-> previews[p], found |-> Len(snapshots)]
<1>0. attempts \in Nat /\ attempts < MaxCommits /\ MaxCommits \in Nat
  BY IngestionAssumption DEF BeginCommit, IntakeTyped
<1>1. c \in Begun
  <2>1. Len(snapshots) \in 0..MaxCommits
    BY <1>0, FewSnapshots
  <2>2. previews[p] \in Preview
    BY DEF BeginCommit, IntakeTyped
  <2>3. attempts + 1 \in SnapshotIds
    BY <1>0 DEF SnapshotIds
  <2> QED BY <2>1, <2>2, <2>3 DEF Begun
<1>2. c.step = "begun" /\ c.id = attempts + 1
  OBVIOUS
<1>3. commit' = [commit EXCEPT ![r] = c]
  BY DEF BeginCommit
<1> HIDE DEF c
<1>4. /\ commit' \in [Requests -> {Idle} \cup Begun \cup Written]
      /\ commit'[r] = c /\ \A q \in Requests : q # r => commit'[q] = commit[q]
  BY <1>1, <1>3 DEF IntakeTyped
<1>5. IntakeTyped'
  <2>1. attempts' \in 0..MaxCommits /\ objects' \subseteq 1..attempts'
    BY <1>0 DEF BeginCommit, IntakeTyped
  <2> QED BY <1>4, <2>1 DEF BeginCommit, IntakeTyped
<1>6. Numbered'
  <2>1. snapshots' = snapshots /\ attempts' = attempts + 1
        /\ removals' = removals /\ drifts' = drifts
    BY DEF BeginCommit
  <2>2. \A i \in 1..Len(snapshots) : snapshots[i].id \in Nat /\ snapshots[i].id <= attempts
    BY BookIsTyped DEF Numbered, IntakeTyped, SnapshotIds
  <2>3. \A q \in Requests : Busy(q) => commit[q].id \in Nat /\ commit[q].id <= attempts
    BY RequestIsTyped DEF Numbered, SnapshotIds
  <2>4. \A i \in 1..Len(snapshots)' : snapshots'[i].id <= attempts'
    BY <1>0, <2>1, <2>2
  <2>5. \A i, j \in 1..Len(snapshots)' : i # j => snapshots'[i].id # snapshots'[j].id
    BY <2>1 DEF Numbered
  <2>6. \A q \in Requests : Busy(q)' =>
           /\ commit'[q].id <= attempts'
           /\ \A i \in 1..Len(snapshots)' : snapshots'[i].id # commit'[q].id
    <3> SUFFICES ASSUME NEW q \in Requests, Busy(q)'
                 PROVE  /\ commit'[q].id <= attempts'
                        /\ \A i \in 1..Len(snapshots)' : snapshots'[i].id # commit'[q].id
      OBVIOUS
    <3>1. CASE q = r
      BY <1>0, <1>2, <1>4, <2>1, <2>2, <3>1
    <3>2. CASE q # r
      <4>1. commit'[q] = commit[q] /\ Busy(q)
        BY <1>4, <3>2 DEF Busy
      <4> QED BY <1>0, <2>1, <2>3, <4>1 DEF Numbered
    <3> QED BY <3>1, <3>2
  <2>7. \A s, q \in Requests : s # q /\ Busy(s)' /\ Busy(q)' => commit'[s].id # commit'[q].id
    <3> SUFFICES ASSUME NEW s \in Requests, NEW q \in Requests, s # q, Busy(s)', Busy(q)'
                 PROVE  commit'[s].id # commit'[q].id
      OBVIOUS
    <3>1. \A u \in Requests : u # r /\ Busy(u)' => Busy(u) /\ commit'[u] = commit[u]
      BY <1>4 DEF Busy
    <3>2. CASE s = r
      <4>1. Busy(q) /\ commit'[q] = commit[q]
        BY <3>1, <3>2
      <4> QED BY <1>0, <1>2, <1>4, <2>3, <3>2, <4>1
    <3>3. CASE q = r
      <4>1. Busy(s) /\ commit'[s] = commit[s]
        BY <3>1, <3>3
      <4> QED BY <1>0, <1>2, <1>4, <2>3, <3>3, <4>1
    <3>4. CASE s # r /\ q # r
      BY <3>1, <3>4 DEF Numbered
    <3> QED BY <3>2, <3>3, <3>4
  <2>8. \A q \in Requests : HasRead(q)' => commit'[q].previous <= Len(snapshots)'
    BY <1>2, <1>4, <2>1 DEF Numbered, HasRead
  <2>9. (\A x \in removals \cup drifts :
           \E i \in 1..Len(snapshots) : snapshots[i].id = x.snapshot)'
    BY <2>1 DEF Numbered
  <2> QED BY <2>4, <2>5, <2>6, <2>7, <2>8, <2>9 DEF Numbered
<1> QED BY <1>5, <1>6

(* A request moves on, or stops. *)
LEMMA NumberedStays ==
    ASSUME Numbered,
           snapshots' = snapshots, attempts' = attempts, removals' = removals, drifts' = drifts,
           \A q \in Requests : Busy(q)' => Busy(q) /\ commit'[q].id = commit[q].id,
           \A q \in Requests : HasRead(q)' => commit'[q].previous <= Len(snapshots)
    PROVE  Numbered'
<1>1. \A q \in Requests : Busy(q)' =>
          /\ commit'[q].id <= attempts'
          /\ \A i \in 1..Len(snapshots)' : snapshots'[i].id # commit'[q].id
  BY DEF Numbered
<1>2. \A r, q \in Requests : r # q /\ Busy(r)' /\ Busy(q)' => commit'[r].id # commit'[q].id
  BY DEF Numbered
<1>3. \A q \in Requests : HasRead(q)' => commit'[q].previous <= Len(snapshots)'
  OBVIOUS
<1>4. /\ \A i \in 1..Len(snapshots)' : snapshots'[i].id <= attempts'
      /\ \A i, j \in 1..Len(snapshots)' : i # j => snapshots'[i].id # snapshots'[j].id
      /\ (\A x \in removals \cup drifts :
              \E i \in 1..Len(snapshots) : snapshots[i].id = x.snapshot)'
  BY DEF Numbered
<1> QED BY <1>1, <1>2, <1>3, <1>4 DEF Numbered

LEMMA TypedReadPrevious ==
    ASSUME IntakeTyped, Numbered, NEW r \in Requests, ReadPrevious(r)
    PROVE  IntakeTyped' /\ Numbered'
<1> DEFINE c == commit[r]
           d == [step |-> "read", id |-> c.id, preview |-> c.preview, of |-> c.of,
                 found |-> c.found, known |-> Len(snapshots), previous |-> Latest]
<1>1. c.step = "begun" /\ c \in Begun
  BY RequestIsTyped DEF ReadPrevious
<1>2. d \in Written
  <2>1. Len(snapshots) \in 0..MaxCommits
    BY FewSnapshots, IngestionAssumption DEF IntakeTyped
  <2>2. Latest \in 0..MaxCommits
    BY LatestIsLast
  <2> HIDE DEF c
  <2> QED BY <1>1, <2>1, <2>2 DEF Begun, Written
<1>3. d.step = "read" /\ d.id = c.id /\ d.previous = Latest
  OBVIOUS
<1>4. commit' = [commit EXCEPT ![r] = d] /\ objects' = objects \cup {c.id}
  BY DEF ReadPrevious
<1> HIDE DEF d
<1>5. /\ commit' \in [Requests -> {Idle} \cup Begun \cup Written]
      /\ commit'[r] = d /\ \A q \in Requests : q # r => commit'[q] = commit[q]
  BY <1>2, <1>4 DEF IntakeTyped
<1>6. c.id \in 1..attempts
  <2>1. Busy(r)
    BY <1>1 DEF Busy
  <2>2. c.id \in SnapshotIds /\ c.id <= attempts
    BY <2>1, RequestIsTyped DEF Numbered
  <2> QED BY <2>2 DEF SnapshotIds, IntakeTyped
<1>7. IntakeTyped'
  BY <1>4, <1>5, <1>6 DEF ReadPrevious, IntakeTyped
<1>8. Numbered'
  <2>1. \A q \in Requests : Busy(q)' => Busy(q) /\ commit'[q].id = commit[q].id
    BY <1>1, <1>3, <1>5 DEF Busy
  <2>2. Latest <= Len(snapshots)
    BY LatestIsLast, FewSnapshots
  <2>3. \A q \in Requests : HasRead(q)' => commit'[q].previous <= Len(snapshots)
    BY <1>3, <1>5, <2>2 DEF HasRead, Numbered
  <2> QED BY <2>1, <2>3, NumberedStays DEF ReadPrevious
<1> QED BY <1>7, <1>8

LEMMA TypedDeletePreview ==
    ASSUME IntakeTyped, Numbered, NEW r \in Requests, DeletePreview(r)
    PROVE  IntakeTyped' /\ Numbered'
<1> DEFINE d == [commit[r] EXCEPT !.step = "deleted"]
<1>1. commit[r].step = "read" /\ commit[r] \in Written /\ commit[r].preview \in PreviewIds
  BY RequestIsTyped DEF DeletePreview, HasRead, Busy
<1>2. d \in Written /\ d.id = commit[r].id /\ d.previous = commit[r].previous
  BY <1>1 DEF Written
<1>3. commit' = [commit EXCEPT ![r] = d]
  BY DEF DeletePreview
<1> HIDE DEF d
<1>4. /\ commit' \in [Requests -> {Idle} \cup Begun \cup Written]
      /\ commit'[r] = d /\ \A q \in Requests : q # r => commit'[q] = commit[q]
  BY <1>2, <1>3 DEF IntakeTyped
<1>5. previews' \in [PreviewIds -> Preview \cup {None}]
  BY <1>1 DEF DeletePreview, IntakeTyped
<1>6. IntakeTyped'
  BY <1>4, <1>5 DEF DeletePreview, IntakeTyped
<1>7. Numbered'
  <2>1. \A q \in Requests : Busy(q)' => Busy(q) /\ commit'[q].id = commit[q].id
    BY <1>1, <1>2, <1>4 DEF Busy
  <2>2. \A q \in Requests : HasRead(q)' => commit'[q].previous <= Len(snapshots)
    BY <1>1, <1>2, <1>4 DEF HasRead, Numbered
  <2> QED BY <2>1, <2>2, NumberedStays DEF DeletePreview
<1> QED BY <1>6, <1>7

(* The row, and the removals and drifts, of an attempt. *)
SnapshotOf(c) ==
    [id |-> c.id, preview |-> c.preview, of |-> c.of,
     lines |-> StoredLines(c.of.file), tables |-> ParsedTables(c.of.file),
     found |-> c.found, known |-> c.known]
RemovalsOf(c) ==
    {[snapshot |-> c.id, key |-> k, acknowledged |-> FALSE] :
        k \in RemovedKeys(c.previous, c.of.file)}
DriftsOf(c) ==
    {[snapshot |-> c.id, key |-> d.key, old |-> d.old, new |-> d.new, acknowledged |-> FALSE] :
        d \in CompareAbattoirTables(TablesOf(c.previous), ParsedTables(c.of.file))}

LEMMA DriftsAreTyped ==
    ASSUME NEW old, old = None \/ old \in Tables, NEW new \in Tables,
           NEW d \in CompareAbattoirTables(old, new)
    PROVE  d.key \in TableKeys /\ d.old \in Nat \cup {None} /\ d.new \in Nat \cup {None}
<1>1. old # None
  BY DEF CompareAbattoirTables
<1>2. old \in Tables
  BY <1>1
<1>3. PICK k \in TableKeys : d = [key |-> k, old |-> old[k], new |-> new[k]]
  BY <1>1 DEF CompareAbattoirTables
<1> QED BY <1>2, <1>3 DEF Tables

LEMMA CommitIs ==
    ASSUME IntakeTyped, Numbered, NEW r \in Requests, CommitSnapshot(r)
    PROVE  /\ commit[r].step = "deleted" /\ commit[r] \in Written
           /\ commit[r].of.file \in Files /\ commit[r].previous \in 0..Len(snapshots)
           /\ SnapshotOf(commit[r]) \in Snapshot
           /\ RemovalsOf(commit[r]) \subseteq Removal /\ DriftsOf(commit[r]) \subseteq Drift
           /\ snapshots' = Append(snapshots, SnapshotOf(commit[r]))
           /\ removals' = removals \cup RemovalsOf(commit[r])
           /\ drifts' = drifts \cup DriftsOf(commit[r])
           /\ commit' = [commit EXCEPT ![r] = Idle]
<1> DEFINE c == commit[r]
           f == c.of.file
<1>1. c.step = "deleted" /\ c \in Written /\ f \in Files
  BY RequestIsTyped DEF CommitSnapshot, HasRead, Busy
<1>2. c.previous \in 0..Len(snapshots)
  <2>1. c.previous \in Nat /\ c.previous <= Len(snapshots) /\ Len(snapshots) \in Nat
    BY <1>1, FewSnapshots, IngestionAssumption DEF Written, Numbered, HasRead
  <2> QED BY <2>1
<1>3. SnapshotOf(c) \in Snapshot
  <2>1. StoredLines(f) \in Seq(StoredLine) /\ ParsedTables(f) \in Tables
    BY <1>1, StoredLinesAre, ParsedTablesAreTyped
  <2> HIDE DEF c
  <2> QED BY <1>1, <2>1 DEF SnapshotOf, Snapshot, Written
<1>4. c.id \in SnapshotIds
  BY <1>1 DEF Written
<1>5. RemovalsOf(c) \subseteq Removal
  <2>1. RemovedKeys(c.previous, f) \subseteq Key
    <3>1. Compare(LinesOf(c.previous), ParsedLines(f)) \in Diff
      BY <1>1, <1>2, LinesAreTyped, ParsedLinesAreTyped, ComparedIsTyped
    <3> QED BY <3>1 DEF RemovedKeys, Diff
  <2>2. ASSUME NEW x \in RemovalsOf(c) PROVE x \in Removal
    <3>1. PICK k \in RemovedKeys(c.previous, f) :
              x = [snapshot |-> c.id, key |-> k, acknowledged |-> FALSE]
      BY <2>2 DEF RemovalsOf
    <3>2. k \in Key
      BY <2>1
    <3> HIDE DEF c
    <3> QED BY <1>4, <3>1, <3>2 DEF Removal
  <2> QED BY <2>2
<1>6. DriftsOf(c) \subseteq Drift
  <2> DEFINE found == CompareAbattoirTables(TablesOf(c.previous), ParsedTables(f))
  <2>1. \A d \in found :
            d.key \in TableKeys /\ d.old \in Nat \cup {None} /\ d.new \in Nat \cup {None}
    BY <1>1, <1>2, LinesAreTyped, ParsedTablesAreTyped, DriftsAreTyped
  <2> HIDE DEF found
  <2>2. DriftsOf(c) =
          {[snapshot |-> c.id, key |-> d.key, old |-> d.old, new |-> d.new,
            acknowledged |-> FALSE] : d \in found}
    BY DEF DriftsOf, found
  <2>3. ASSUME NEW x \in DriftsOf(c) PROVE x \in Drift
    <3>1. PICK d \in found : x = [snapshot |-> c.id, key |-> d.key, old |-> d.old,
                                  new |-> d.new, acknowledged |-> FALSE]
      BY <2>2, <2>3
    <3>2. d.key \in TableKeys /\ d.old \in Nat \cup {None} /\ d.new \in Nat \cup {None}
      BY <2>1
    <3> HIDE DEF c
    <3> QED BY <1>4, <3>1, <3>2 DEF Drift
  <2> QED BY <2>3
<1>7. /\ snapshots' = Append(snapshots, SnapshotOf(c))
      /\ removals' = removals \cup RemovalsOf(c) /\ drifts' = drifts \cup DriftsOf(c)
      /\ commit' = [commit EXCEPT ![r] = Idle]
  BY DEF CommitSnapshot, SnapshotOf, RemovalsOf, DriftsOf
<1> QED BY <1>1, <1>2, <1>3, <1>5, <1>6, <1>7

LEMMA TypedCommitSnapshot ==
    ASSUME IntakeTyped, Numbered, NEW r \in Requests, CommitSnapshot(r)
    PROVE  IntakeTyped' /\ Numbered'
<1> DEFINE c == commit[r]
           s == SnapshotOf(c)
           n == Len(snapshots)
<1>1. /\ c.step = "deleted" /\ s \in Snapshot
      /\ RemovalsOf(c) \subseteq Removal /\ DriftsOf(c) \subseteq Drift
      /\ snapshots' = Append(snapshots, s)
      /\ removals' = removals \cup RemovalsOf(c) /\ drifts' = drifts \cup DriftsOf(c)
      /\ commit' = [commit EXCEPT ![r] = Idle]
  BY CommitIs
<1>2. /\ snapshots' \in Seq(Snapshot) /\ n \in Nat /\ Len(snapshots)' = n + 1
      /\ \A i \in 1..n : snapshots'[i] = snapshots[i]
      /\ snapshots'[n + 1] = s
      /\ \A i \in 1..Len(snapshots)' : i \in 1..n \/ i = n + 1
  BY <1>1, BookGrows DEF IntakeTyped
<1>3. s.id = c.id
  BY DEF SnapshotOf
<1> HIDE DEF s
<1>4. /\ commit' \in [Requests -> {Idle} \cup Begun \cup Written]
      /\ commit'[r] = Idle /\ \A q \in Requests : q # r => commit'[q] = commit[q]
  BY <1>1 DEF IntakeTyped
<1>5. attempts' = attempts /\ uploads' = uploads
  BY DEF CommitSnapshot
<1>6. IntakeTyped'
  BY <1>1, <1>2, <1>4 DEF CommitSnapshot, IntakeTyped
<1>7. Numbered'
  <2>1. Busy(r) /\ ~Busy(r)' /\ ~HasRead(r)'
    BY <1>1, <1>4 DEF Busy, HasRead, Idle
  <2>2. \A q \in Requests : Busy(q)' => q # r /\ Busy(q) /\ commit'[q] = commit[q]
    BY <1>4, <2>1 DEF Busy
  <2>3. /\ \A i \in 1..n : snapshots[i].id <= attempts /\ snapshots[i].id # c.id
        /\ \A i, j \in 1..n : i # j => snapshots[i].id # snapshots[j].id
        /\ c.id <= attempts
    BY <2>1 DEF Numbered
  <2>4. \A i \in 1..Len(snapshots)' : snapshots'[i].id <= attempts'
    BY <1>2, <1>3, <1>5, <2>3
  <2>5. ASSUME NEW i \in 1..Len(snapshots)', NEW j \in 1..Len(snapshots)', i # j
        PROVE  snapshots'[i].id # snapshots'[j].id
    <3>1. CASE i \in 1..n /\ j \in 1..n
      BY <1>2, <2>3, <2>5, <3>1
    <3>2. CASE i \in 1..n /\ j = n + 1
      BY <1>2, <1>3, <2>3, <3>2
    <3>3. CASE i = n + 1 /\ j \in 1..n
      BY <1>2, <1>3, <2>3, <3>3
    <3> QED BY <1>2, <2>5, <3>1, <3>2, <3>3
  <2>6. ASSUME NEW q \in Requests, Busy(q)'
        PROVE  /\ commit'[q].id <= attempts'
               /\ \A i \in 1..Len(snapshots)' : snapshots'[i].id # commit'[q].id
    <3>1. q # r /\ Busy(q) /\ commit'[q] = commit[q]
      BY <2>2, <2>6
    <3>2. commit[q].id # c.id
      BY <2>1, <3>1 DEF Numbered
    <3>3. commit[q].id <= attempts /\ \A i \in 1..n : snapshots[i].id # commit[q].id
      BY <3>1 DEF Numbered
    <3> QED BY <1>2, <1>3, <1>5, <3>1, <3>2, <3>3
  <2>7. \A p, q \in Requests : p # q /\ Busy(p)' /\ Busy(q)' => commit'[p].id # commit'[q].id
    BY <2>2 DEF Numbered
  <2>8. ASSUME NEW q \in Requests, HasRead(q)'
        PROVE  commit'[q].previous <= Len(snapshots)'
    <3>1. q # r /\ HasRead(q) /\ commit'[q] = commit[q]
      BY <1>4, <2>1, <2>8 DEF HasRead
    <3>2. commit[q].previous <= n /\ commit[q].previous \in Nat
      BY <3>1, RequestIsTyped DEF Numbered, Written
    <3> QED BY <1>2, <3>1, <3>2
  <2>9. (\A x \in removals \cup drifts :
            \E i \in 1..Len(snapshots) : snapshots[i].id = x.snapshot)'
    <3> SUFFICES ASSUME NEW x \in (removals \cup drifts)'
                 PROVE  \E i \in 1..Len(snapshots)' : snapshots'[i].id = x.snapshot
      OBVIOUS
    <3>1. CASE x \in removals \cup drifts
      <4>1. PICK i \in 1..n : snapshots[i].id = x.snapshot
        BY <3>1 DEF Numbered
      <4>2. i \in 1..Len(snapshots)' /\ snapshots'[i] = snapshots[i]
        BY <1>2
      <4> QED BY <4>1, <4>2
    <3>2. CASE x \in RemovalsOf(c) \cup DriftsOf(c)
      <4>1. x.snapshot = c.id
        BY <3>2 DEF RemovalsOf, DriftsOf
      <4>2. n + 1 \in 1..Len(snapshots)'
        BY <1>2
      <4> QED BY <1>2, <1>3, <4>1, <4>2
    <3> QED BY <1>1, <3>1, <3>2
  <2> QED BY <2>4, <2>5, <2>6, <2>7, <2>8, <2>9 DEF Numbered
<1> QED BY <1>6, <1>7

LEMMA TypedStop ==
    ASSUME IntakeTyped, Numbered, NEW r \in Requests, Stop(r)
    PROVE  IntakeTyped' /\ Numbered'
<1>1. commit' = [commit EXCEPT ![r] = Idle]
  BY DEF Stop
<1>2. /\ commit' \in [Requests -> {Idle} \cup Begun \cup Written]
      /\ commit'[r] = Idle /\ \A q \in Requests : q # r => commit'[q] = commit[q]
  BY <1>1 DEF IntakeTyped
<1>3. cut' \subseteq PreviewIds
  <2>1. commit[r].step = "deleted" => commit[r].preview \in PreviewIds
    BY RequestIsTyped DEF Busy
  <2> QED BY <2>1 DEF Stop, IntakeTyped
<1>4. IntakeTyped'
  BY <1>2, <1>3 DEF Stop, IntakeTyped
<1>5. Numbered'
  <2>1. ~Busy(r)' /\ ~HasRead(r)'
    BY <1>2 DEF Busy, HasRead, Idle
  <2>2. \A q \in Requests : Busy(q)' => Busy(q) /\ commit'[q].id = commit[q].id
    BY <1>2, <2>1 DEF Busy
  <2>3. \A q \in Requests : HasRead(q)' => commit'[q].previous <= Len(snapshots)
    BY <1>2, <2>1 DEF HasRead, Numbered
  <2> QED BY <2>2, <2>3, NumberedStays DEF Stop
<1> QED BY <1>4, <1>5

LEMMA TypedAcknowledge ==
    ASSUME IntakeTyped, Numbered,
           \/ \E x \in removals : AcknowledgeRemoval(x)
           \/ \E x \in drifts : AcknowledgeDrift(x)
    PROVE  IntakeTyped' /\ Numbered'
<1>1. ASSUME NEW x \in removals, AcknowledgeRemoval(x)
      PROVE  IntakeTyped' /\ Numbered'
  <2> DEFINE y == [x EXCEPT !.acknowledged = TRUE]
  <2>1. x \in Removal
    BY DEF IntakeTyped
  <2>2. y \in Removal /\ y.snapshot = x.snapshot
    BY <2>1 DEF Removal
  <2>3. removals' = (removals \ {x}) \cup {y}
    BY <1>1 DEF AcknowledgeRemoval
  <2> HIDE DEF y
  <2>4. IntakeTyped'
    BY <1>1, <2>2, <2>3 DEF AcknowledgeRemoval, IntakeTyped
  <2>5. \A z \in (removals \cup drifts)' : \E v \in removals \cup drifts : z.snapshot = v.snapshot
    BY <1>1, <2>2, <2>3 DEF AcknowledgeRemoval
  <2>6. Numbered'
    BY <1>1, <2>5 DEF AcknowledgeRemoval, Numbered, Busy, HasRead
  <2> QED BY <2>4, <2>6
<1>2. ASSUME NEW x \in drifts, AcknowledgeDrift(x)
      PROVE  IntakeTyped' /\ Numbered'
  <2> DEFINE y == [x EXCEPT !.acknowledged = TRUE]
  <2>1. x \in Drift
    BY DEF IntakeTyped
  <2>2. y \in Drift /\ y.snapshot = x.snapshot
    BY <2>1 DEF Drift
  <2>3. drifts' = (drifts \ {x}) \cup {y}
    BY <1>2 DEF AcknowledgeDrift
  <2> HIDE DEF y
  <2>4. IntakeTyped'
    BY <1>2, <2>2, <2>3 DEF AcknowledgeDrift, IntakeTyped
  <2>5. \A z \in (removals \cup drifts)' : \E v \in removals \cup drifts : z.snapshot = v.snapshot
    BY <1>2, <2>2, <2>3 DEF AcknowledgeDrift
  <2>6. Numbered'
    BY <1>2, <2>5 DEF AcknowledgeDrift, Numbered, Busy, HasRead
  <2> QED BY <2>4, <2>6
<1> QED BY <1>1, <1>2

LEMMA TypedStays ==
    ASSUME IntakeTyped, Numbered, UNCHANGED intakeVars
    PROVE  IntakeTyped' /\ Numbered'
<1> USE DEF intakeVars
<1>1. IntakeTyped'
  BY DEF IntakeTyped
<1>2. Numbered'
  BY DEF Numbered, Busy, HasRead
<1> QED BY <1>1, <1>2

LEMMA TypedNext == IntakeTyped /\ Numbered /\ [Next]_vars => IntakeTyped' /\ Numbered'
<1> SUFFICES ASSUME IntakeTyped, Numbered, [Next]_vars PROVE IntakeTyped' /\ Numbered'
  OBVIOUS
<1>1. CASE IntakeNext
  BY <1>1, TypedUpload, TypedExpire, TypedBeginCommit, TypedReadPrevious, TypedDeletePreview,
     TypedCommitSnapshot, TypedStop, TypedAcknowledge DEF IntakeNext
<1>2. CASE UNCHANGED intakeVars
  BY <1>2, TypedStays
<1> QED BY <1>1, <1>2 DEF Next, vars

-----------------------------------------------------------------------------
(* What becomes of an upload.                                              *)

(* Only what was uploaded is in Redis, being committed or in the book; and *)
(* what is in the book, or about to be, is no longer in Redis.             *)
Uploaded ==
    /\ \A p \in PreviewIds : previews[p] # None => p <= uploads
    /\ \A r \in Requests : Busy(r) => commit[r].preview <= uploads
    /\ \A r \in Requests : commit[r].step = "deleted" => previews[commit[r].preview] = None
    /\ \A i \in 1..Len(snapshots) :
           snapshots[i].preview <= uploads /\ previews[snapshots[i].preview] = None

(* A request whose preview was committed meanwhile had found it before.    *)
FoundBefore ==
    \A r \in Requests : Busy(r) =>
        /\ commit[r].found <= Len(snapshots)
        /\ \A i \in 1..Len(snapshots) :
               snapshots[i].preview = commit[r].preview => commit[r].found < i

Filed ==
    /\ \A r \in Requests : HasRead(r) => commit[r].id \in objects
    /\ \A i \in 1..Len(snapshots) : snapshots[i].id \in objects

(* Where the upload p is.                                                  *)
Accounted(p) ==
    \/ previews[p] # None
    \/ p \in expired \cup cut
    \/ \E r \in Requests : commit[r].step = "deleted" /\ commit[r].preview = p
    \/ \E i \in 1..Len(snapshots) : snapshots[i].preview = p

NothingTwice ==
    \A j \in 1..Len(snapshots) : \A i \in 1..j - 1 :
        snapshots[i].preview = snapshots[j].preview => snapshots[j].found < i

Traced ==
    /\ Uploaded /\ FoundBefore /\ Filed /\ NothingTwice
    /\ \A p \in 1..uploads : Accounted(p)

LEMMA TracedIs == Traced => UploadsBecomeSnapshots
BY DEF Traced, Accounted, NothingTwice, Filed, UploadsBecomeSnapshots

LEMMA TracedInit == Init => Traced
<1> SUFFICES ASSUME Init PROVE Traced
  OBVIOUS
<1> USE DEF Init, IntakeInit
<1>1. Len(snapshots) = 0 /\ 1..Len(snapshots) = {} /\ 1..uploads = {}
  OBVIOUS
<1>2. \A r \in Requests : ~Busy(r) /\ ~HasRead(r) /\ commit[r].step # "deleted"
  BY DEF Busy, HasRead, Idle
<1> QED BY <1>1, <1>2 DEF Traced, Uploaded, FoundBefore, Filed, NothingTwice

LEMMA UploadsAreIds ==
    ASSUME IntakeTyped
    PROVE  uploads \in Nat /\ 1..uploads \subseteq PreviewIds
BY IngestionAssumption DEF IntakeTyped, PreviewIds

(* Nothing but what is in Redis or being committed changes.                *)
LEMMA TracedBook ==
    ASSUME Traced, snapshots' = snapshots, objects \subseteq objects'
    PROVE  /\ NothingTwice'
           /\ \A i \in 1..Len(snapshots)' : snapshots'[i].id \in objects'
<1>1. NothingTwice'
  BY DEF Traced, NothingTwice
<1> QED BY <1>1 DEF Traced, Filed

LEMMA TracedUpload ==
    ASSUME IntakeTyped, Numbered, Traced, NEW f \in Files, Upload(f)
    PROVE  Traced'
<1>1. /\ uploads \in Nat /\ uploads + 1 \in PreviewIds /\ uploads' = uploads + 1
      /\ previews'[uploads + 1] # None
      /\ \A p \in PreviewIds : p # uploads + 1 => previews'[p] = previews[p]
      /\ UNCHANGED <<expired, attempts, commit, objects, snapshots, removals, drifts, cut>>
  BY UploadIs DEF IntakeTyped
<1>2. Uploaded'
  <2>1. \A p \in PreviewIds : previews'[p] # None => p <= uploads'
    BY <1>1 DEF Traced, Uploaded, PreviewIds
  <2>2. \A r \in Requests : Busy(r) =>
            /\ commit[r].preview \in PreviewIds /\ commit[r].preview <= uploads
            /\ commit[r].preview # uploads + 1
    <3>1. \A r \in Requests : Busy(r) =>
              commit[r].preview \in PreviewIds /\ commit[r].preview <= uploads
      BY RequestIsTyped DEF Traced, Uploaded
    <3> QED BY <1>1, <3>1 DEF PreviewIds
  <2>3. \A i \in 1..Len(snapshots) :
            /\ snapshots[i].preview \in PreviewIds /\ snapshots[i].preview <= uploads
            /\ snapshots[i].preview # uploads + 1
    <3>1. \A i \in 1..Len(snapshots) :
              snapshots[i].preview \in PreviewIds /\ snapshots[i].preview <= uploads
      BY BookIsTyped DEF IntakeTyped, Traced, Uploaded
    <3> QED BY <1>1, <3>1 DEF PreviewIds
  <2>4. \A r \in Requests : Busy(r)' => commit'[r].preview <= uploads'
    BY <1>1, <2>2 DEF Busy, PreviewIds
  <2>5. \A r \in Requests : commit'[r].step = "deleted" => previews'[commit'[r].preview] = None
    BY <1>1, <2>2 DEF Busy, Traced, Uploaded
  <2>6. \A i \in 1..Len(snapshots)' :
            snapshots'[i].preview <= uploads' /\ previews'[snapshots'[i].preview] = None
    BY <1>1, <2>3 DEF Traced, Uploaded, PreviewIds
  <2> QED BY <2>1, <2>4, <2>5, <2>6 DEF Uploaded
<1>3. FoundBefore'
  BY <1>1 DEF Traced, FoundBefore, Busy
<1>4. Filed' /\ NothingTwice'
  BY <1>1, TracedBook DEF Traced, Filed, HasRead
<1>5. ASSUME NEW p \in 1..uploads' PROVE Accounted(p)'
  <2>1. CASE p = uploads + 1
    BY <1>1, <2>1 DEF Accounted
  <2>2. CASE p # uploads + 1
    <3>1. p \in 1..uploads /\ p \in PreviewIds
      <4>1. p \in 1..uploads
        BY <1>1, <2>2
      <4> QED BY <4>1, UploadsAreIds
    <3>2. Accounted(p)
      BY <3>1 DEF Traced
    <3> QED BY <1>1, <2>2, <3>1, <3>2 DEF Accounted
  <2> QED BY <2>1, <2>2
<1> QED BY <1>2, <1>3, <1>4, <1>5 DEF Traced

LEMMA TracedExpire ==
    ASSUME IntakeTyped, Numbered, Traced, NEW p \in PreviewIds, Expire(p)
    PROVE  Traced'
<1>1. /\ previews'[p] = None /\ \A q \in PreviewIds : q # p => previews'[q] = previews[q]
      /\ expired' = expired \cup {p}
      /\ UNCHANGED <<uploads, attempts, commit, objects, snapshots, removals, drifts, cut>>
  BY DEF Expire, IntakeTyped
<1>2. \A q \in PreviewIds : previews[q] = None => previews'[q] = None
  BY <1>1
<1>3. Uploaded'
  <2>1. \A r \in Requests : commit[r].step = "deleted" => commit[r].preview \in PreviewIds
    BY RequestIsTyped DEF Busy
  <2>2. \A i \in 1..Len(snapshots) : snapshots[i].preview \in PreviewIds
    BY BookIsTyped DEF IntakeTyped
  <2> QED BY <1>1, <1>2, <2>1, <2>2 DEF Traced, Uploaded, Busy
<1>4. FoundBefore'
  BY <1>1 DEF Traced, FoundBefore, Busy
<1>5. Filed' /\ NothingTwice'
  BY <1>1, TracedBook DEF Traced, Filed, HasRead
<1>6. ASSUME NEW q \in 1..uploads' PROVE Accounted(q)'
  <2>1. Accounted(q) /\ q \in PreviewIds
    BY <1>1, UploadsAreIds DEF Traced
  <2> QED BY <1>1, <2>1 DEF Accounted
<1> QED BY <1>3, <1>4, <1>5, <1>6 DEF Traced

LEMMA TracedBeginCommit ==
    ASSUME IntakeTyped, Numbered, Traced,
           NEW r \in Requests, NEW p \in PreviewIds, BeginCommit(r, p)
    PROVE  Traced'
<1> DEFINE c == [step |-> "begun", id |-> attempts + 1, preview |-> p,
                 of |-> previews[p], found |-> Len(snapshots)]
<1>1. c.step = "begun" /\ c.preview = p /\ c.found = Len(snapshots)
  OBVIOUS
<1>2. commit' = [commit EXCEPT ![r] = c]
  BY DEF BeginCommit
<1> HIDE DEF c
<1>3. /\ commit'[r] = c /\ \A q \in Requests : q # r => commit'[q] = commit[q]
      /\ commit[r] = Idle /\ previews[p] # None
      /\ UNCHANGED <<uploads, previews, expired, objects, snapshots, removals, drifts, cut>>
  BY <1>2 DEF BeginCommit, IntakeTyped
<1>4. Len(snapshots) \in Nat
  BY BookIsTyped DEF IntakeTyped
<1>5. Uploaded'
  BY <1>1, <1>3 DEF Traced, Uploaded, Busy
<1>6. FoundBefore'
  <2>1. \A i \in 1..Len(snapshots) : snapshots[i].preview # p
    BY <1>3 DEF Traced, Uploaded
  <2> QED BY <1>1, <1>3, <1>4, <2>1 DEF Traced, FoundBefore, Busy
<1>7. Filed' /\ NothingTwice'
  BY <1>1, <1>3, TracedBook DEF Traced, Filed, HasRead
<1>8. ASSUME NEW q \in 1..uploads' PROVE Accounted(q)'
  <2>1. Accounted(q)
    BY <1>3 DEF Traced
  <2>2. commit[r].step # "deleted"
    BY <1>3 DEF Idle
  <2> QED BY <1>3, <2>1, <2>2 DEF Accounted
<1> QED BY <1>5, <1>6, <1>7, <1>8 DEF Traced

LEMMA TracedReadPrevious ==
    ASSUME IntakeTyped, Numbered, Traced, NEW r \in Requests, ReadPrevious(r)
    PROVE  Traced'
<1> DEFINE c == commit[r]
           d == [step |-> "read", id |-> c.id, preview |-> c.preview, of |-> c.of,
                 found |-> c.found, known |-> Len(snapshots), previous |-> Latest]
<1>1. d.step = "read" /\ d.id = c.id /\ d.preview = c.preview /\ d.found = c.found
  OBVIOUS
<1>2. commit' = [commit EXCEPT ![r] = d]
  BY DEF ReadPrevious
<1> HIDE DEF d
<1>3. /\ commit'[r] = d /\ \A q \in Requests : q # r => commit'[q] = commit[q]
      /\ c.step = "begun" /\ Busy(r) /\ objects' = objects \cup {c.id}
      /\ UNCHANGED <<uploads, previews, expired, attempts, snapshots, removals, drifts, cut>>
  BY <1>2 DEF ReadPrevious, IntakeTyped, Busy
<1>4. Uploaded'
  BY <1>1, <1>3 DEF Traced, Uploaded, Busy
<1>5. FoundBefore'
  BY <1>1, <1>3 DEF Traced, FoundBefore, Busy
<1>6. Filed' /\ NothingTwice'
  BY <1>1, <1>3, TracedBook DEF Traced, Filed, HasRead
<1>7. ASSUME NEW q \in 1..uploads' PROVE Accounted(q)'
  <2>1. Accounted(q)
    BY <1>3 DEF Traced
  <2> QED BY <1>3, <2>1 DEF Accounted
<1> QED BY <1>4, <1>5, <1>6, <1>7 DEF Traced

LEMMA TracedDeletePreview ==
    ASSUME IntakeTyped, Numbered, Traced, NEW r \in Requests, DeletePreview(r)
    PROVE  Traced'
<1> DEFINE d == [commit[r] EXCEPT !.step = "deleted"]
           p == commit[r].preview
<1>1. commit[r].step = "read" /\ commit[r] \in Written /\ p \in PreviewIds
  BY RequestIsTyped DEF DeletePreview, HasRead, Busy
<1>2. /\ d.step = "deleted" /\ d.id = commit[r].id /\ d.preview = p
      /\ d.found = commit[r].found
  BY <1>1 DEF Written
<1>3. commit' = [commit EXCEPT ![r] = d] /\ previews' = [previews EXCEPT ![p] = None]
  BY DEF DeletePreview
<1> HIDE DEF d
<1>4. /\ commit'[r] = d /\ \A q \in Requests : q # r => commit'[q] = commit[q]
      /\ previews'[p] = None /\ \A q \in PreviewIds : q # p => previews'[q] = previews[q]
      /\ UNCHANGED <<uploads, expired, attempts, objects, snapshots, removals, drifts, cut>>
  BY <1>1, <1>3 DEF DeletePreview, IntakeTyped
<1> HIDE DEF p
<1>5. \A q \in PreviewIds : previews[q] = None => previews'[q] = None
  BY <1>4
<1>6. Uploaded'
  <2>1. \A q \in Requests : commit[q].step = "deleted" => commit[q].preview \in PreviewIds
    BY RequestIsTyped DEF Busy
  <2>2. \A i \in 1..Len(snapshots) : snapshots[i].preview \in PreviewIds
    BY BookIsTyped DEF IntakeTyped
  <2>3. \A q \in PreviewIds : previews'[q] # None => q <= uploads'
    BY <1>4 DEF Traced, Uploaded
  <2>4. \A q \in Requests : Busy(q)' => commit'[q].preview <= uploads'
    <3>1. Busy(r)
      BY <1>1 DEF Busy
    <3> QED BY <1>2, <1>4, <3>1 DEF Traced, Uploaded, Busy, p
  <2>5. \A q \in Requests : commit'[q].step = "deleted" => previews'[commit'[q].preview] = None
    BY <1>2, <1>4, <1>5, <2>1 DEF Traced, Uploaded
  <2>6. \A i \in 1..Len(snapshots)' :
            snapshots'[i].preview <= uploads' /\ previews'[snapshots'[i].preview] = None
    BY <1>4, <1>5, <2>2 DEF Traced, Uploaded
  <2> QED BY <2>3, <2>4, <2>5, <2>6 DEF Uploaded
<1>7. FoundBefore'
  <2>1. Busy(r)
    BY <1>1 DEF Busy
  <2> QED BY <1>2, <1>4, <2>1 DEF Traced, FoundBefore, Busy, p
<1>8. Filed' /\ NothingTwice'
  BY <1>1, <1>2, <1>4, TracedBook DEF Traced, Filed, HasRead
<1>9. ASSUME NEW q \in 1..uploads' PROVE Accounted(q)'
  <2>1. Accounted(q) /\ q \in PreviewIds
    BY <1>4, UploadsAreIds DEF Traced
  <2>2. CASE q = p
    BY <1>2, <1>4, <2>2 DEF Accounted
  <2>3. CASE q # p
    BY <1>1, <1>4, <2>1, <2>3 DEF Accounted
  <2> QED BY <2>2, <2>3
<1> QED BY <1>6, <1>7, <1>8, <1>9 DEF Traced

LEMMA TracedCommitSnapshot ==
    ASSUME IntakeTyped, Numbered, Traced, NEW r \in Requests, CommitSnapshot(r)
    PROVE  Traced'
<1> DEFINE c == commit[r]
           s == SnapshotOf(c)
           n == Len(snapshots)
<1>1. /\ c.step = "deleted" /\ s \in Snapshot
      /\ snapshots' = Append(snapshots, s) /\ commit' = [commit EXCEPT ![r] = Idle]
  BY CommitIs
<1>2. s.id = c.id /\ s.preview = c.preview /\ s.found = c.found
  BY DEF SnapshotOf
<1> HIDE DEF s
<1>3. /\ n \in Nat /\ Len(snapshots)' = n + 1
      /\ \A i \in 1..n : snapshots'[i] = snapshots[i]
      /\ snapshots'[n + 1] = s
      /\ \A i \in 1..Len(snapshots)' : i \in 1..n \/ i = n + 1
  BY <1>1, BookGrows DEF IntakeTyped
<1>4. /\ commit'[r] = Idle /\ \A q \in Requests : q # r => commit'[q] = commit[q]
      /\ UNCHANGED <<uploads, previews, expired, attempts, objects, cut>>
  BY <1>1 DEF CommitSnapshot, IntakeTyped
<1>5. Busy(r) /\ HasRead(r) /\ ~Busy(r)' /\ ~HasRead(r)' /\ commit'[r].step # "deleted"
  BY <1>1, <1>4 DEF Busy, HasRead, Idle
<1>6. \A q \in Requests : Busy(q)' => q # r /\ Busy(q) /\ commit'[q] = commit[q]
  BY <1>4, <1>5 DEF Busy
<1>7. Uploaded'
  <2>1. \A q \in Requests : Busy(q)' => commit'[q].preview <= uploads'
    BY <1>4, <1>6 DEF Traced, Uploaded
  <2>2. \A q \in Requests : commit'[q].step = "deleted" => previews'[commit'[q].preview] = None
    BY <1>4, <1>5 DEF Traced, Uploaded
  <2>3. \A i \in 1..Len(snapshots)' :
            snapshots'[i].preview <= uploads' /\ previews'[snapshots'[i].preview] = None
    BY <1>1, <1>2, <1>3, <1>4, <1>5 DEF Traced, Uploaded
  <2> QED BY <1>4, <2>1, <2>2, <2>3 DEF Traced, Uploaded
<1>8. FoundBefore'
  <2> SUFFICES ASSUME NEW q \in Requests, Busy(q)'
               PROVE  /\ commit'[q].found <= Len(snapshots)'
                      /\ \A i \in 1..Len(snapshots)' :
                             snapshots'[i].preview = commit'[q].preview => commit'[q].found < i
    BY DEF FoundBefore
  <2>1. Busy(q) /\ commit'[q] = commit[q] /\ commit[q].found \in Nat
    BY <1>6, RequestIsTyped
  <2>2. /\ commit[q].found <= n
        /\ \A i \in 1..n : snapshots[i].preview = commit[q].preview => commit[q].found < i
    BY <2>1 DEF Traced, FoundBefore
  <2> QED BY <1>3, <2>1, <2>2
<1>9. Filed'
  <2>1. \A q \in Requests : HasRead(q)' => commit'[q].id \in objects'
    BY <1>4, <1>5 DEF Traced, Filed, HasRead
  <2>2. \A i \in 1..Len(snapshots)' : snapshots'[i].id \in objects'
    BY <1>2, <1>3, <1>4, <1>5 DEF Traced, Filed
  <2> QED BY <2>1, <2>2 DEF Filed
<1>10. NothingTwice'
  <2> SUFFICES ASSUME NEW j \in 1..Len(snapshots)', NEW i \in 1..j - 1,
                      snapshots'[i].preview = snapshots'[j].preview
               PROVE  snapshots'[j].found < i
    BY DEF NothingTwice
  <2>1. CASE j \in 1..n
    <3>1. i \in 1..n
      BY <1>3, <2>1
    <3> QED BY <1>3, <2>1, <3>1 DEF Traced, NothingTwice
  <2>2. CASE j = n + 1
    <3>1. i \in 1..n
      BY <1>3, <2>2
    <3>2. snapshots[i].preview = c.preview
      BY <1>2, <1>3, <2>2, <3>1
    <3>3. c.found < i
      BY <1>5, <3>1, <3>2 DEF Traced, FoundBefore
    <3> QED BY <1>2, <1>3, <2>2, <3>3
  <2> QED BY <1>3, <2>1, <2>2
<1>11. ASSUME NEW p \in 1..uploads' PROVE Accounted(p)'
  <2>1. Accounted(p)
    BY <1>4 DEF Traced
  <2>2. CASE p = c.preview
    <3>1. n + 1 \in 1..Len(snapshots)' /\ snapshots'[n + 1].preview = p
      BY <1>2, <1>3, <2>2
    <3> QED BY <3>1 DEF Accounted
  <2>3. CASE p # c.preview
    <3>1. (\E i \in 1..n : snapshots[i].preview = p)
              => \E i \in 1..Len(snapshots)' : snapshots'[i].preview = p
      BY <1>3
    <3>2. \A q \in Requests : commit[q].step = "deleted" /\ commit[q].preview = p
              => commit'[q].step = "deleted" /\ commit'[q].preview = p
      BY <1>4, <2>3
    <3> QED BY <1>4, <2>1, <3>1, <3>2 DEF Accounted
  <2> QED BY <2>2, <2>3
<1> QED BY <1>7, <1>8, <1>9, <1>10, <1>11 DEF Traced

LEMMA TracedStop ==
    ASSUME IntakeTyped, Numbered, Traced, NEW r \in Requests, Stop(r)
    PROVE  Traced'
<1>1. /\ commit'[r] = Idle /\ \A q \in Requests : q # r => commit'[q] = commit[q]
      /\ cut' = cut \cup (IF commit[r].step = "deleted" THEN {commit[r].preview} ELSE {})
      /\ UNCHANGED <<uploads, previews, expired, attempts, objects, snapshots, removals, drifts>>
  BY DEF Stop, IntakeTyped
<1>2. ~Busy(r)' /\ ~HasRead(r)' /\ commit'[r].step # "deleted"
  BY <1>1 DEF Busy, HasRead, Idle
<1>3. Uploaded'
  BY <1>1, <1>2 DEF Traced, Uploaded, Busy
<1>4. FoundBefore'
  BY <1>1, <1>2 DEF Traced, FoundBefore, Busy
<1>5. Filed' /\ NothingTwice'
  BY <1>1, <1>2, TracedBook DEF Traced, Filed, HasRead
<1>6. ASSUME NEW p \in 1..uploads' PROVE Accounted(p)'
  <2>1. Accounted(p)
    BY <1>1 DEF Traced
  <2>2. CASE commit[r].step = "deleted" /\ commit[r].preview = p
    BY <1>1, <2>2 DEF Accounted
  <2>3. CASE ~(commit[r].step = "deleted" /\ commit[r].preview = p)
    BY <1>1, <2>1, <2>3 DEF Accounted
  <2> QED BY <2>2, <2>3
<1> QED BY <1>3, <1>4, <1>5, <1>6 DEF Traced

LEMMA TracedStays ==
    ASSUME Traced, UNCHANGED <<uploads, previews, expired, commit, objects, snapshots, cut>>
    PROVE  Traced'
<1>1. Uploaded' /\ FoundBefore' /\ Filed' /\ NothingTwice'
  BY DEF Traced, Uploaded, FoundBefore, Filed, NothingTwice, Busy, HasRead
<1>2. ASSUME NEW p \in 1..uploads' PROVE Accounted(p)'
  <2>1. Accounted(p)
    BY DEF Traced
  <2> QED BY <2>1 DEF Accounted
<1> QED BY <1>1, <1>2 DEF Traced

LEMMA TracedNext == IntakeTyped /\ Numbered /\ Traced /\ [Next]_vars => Traced'
<1> SUFFICES ASSUME IntakeTyped, Numbered, Traced, [Next]_vars PROVE Traced'
  OBVIOUS
<1>1. CASE UNCHANGED <<uploads, previews, expired, commit, objects, snapshots, cut>>
  BY <1>1, TracedStays
<1>2. CASE IntakeNext
  BY <1>1, <1>2, TracedUpload, TracedExpire, TracedBeginCommit, TracedReadPrevious,
     TracedDeletePreview, TracedCommitSnapshot, TracedStop
     DEF IntakeNext, AcknowledgeRemoval, AcknowledgeDrift
<1>3. CASE UNCHANGED intakeVars
  BY <1>1, <1>3 DEF intakeVars
<1> QED BY <1>2, <1>3 DEF Next, vars

-----------------------------------------------------------------------------
(* What the records say.                                                   *)

LinesIn(book, q) == IF q = 0 THEN None ELSE book[q].lines
TablesIn(book, q) == IF q = 0 THEN None ELSE book[q].tables

(* What the uploader was shown to disappear is relative to the snapshot    *)
(* that was the latest then.                                               *)
ShownIn(book, w) ==
    \E q \in 0..w.known :
        /\ IsLatestIn(book, q, w.known)
        /\ w.shown.removed = Compare(LinesIn(book, q), ParsedLines(w.file)).removed

KeysRecorded(found, id) == {x.key : x \in {y \in found : y.snapshot = id}}
ValuesRecorded(found, id) ==
    {[key |-> x.key, old |-> x.old, new |-> x.new] : x \in {y \in found : y.snapshot = id}}

(* So are the removals and drifts that are recorded of a snapshot.         *)
RecordedIn(book, gone, changed, i) ==
    \E q \in 0..book[i].known :
        /\ IsLatestIn(book, q, book[i].known)
        /\ KeysRecorded(gone, book[i].id)
           = Compare(LinesIn(book, q), ParsedLines(book[i].of.file)).removed
        /\ ValuesRecorded(changed, book[i].id)
           = CompareAbattoirTables(TablesIn(book, q), ParsedTables(book[i].of.file))

StoredIn(book, i) ==
    /\ book[i].lines = StoredLines(book[i].of.file)
    /\ book[i].tables = ParsedTables(book[i].of.file)

Explained ==
    /\ \A p \in PreviewIds : previews[p] # None =>
           previews[p].known <= Len(snapshots) /\ ShownIn(snapshots, previews[p])
    /\ \A r \in Requests : Busy(r) =>
           commit[r].of.known <= Len(snapshots) /\ ShownIn(snapshots, commit[r].of)
    /\ \A r \in Requests : HasRead(r) =>
           /\ commit[r].known <= Len(snapshots)
           /\ IsLatestIn(snapshots, commit[r].previous, commit[r].known)
    /\ \A i \in 1..Len(snapshots) :
           /\ snapshots[i].of.known <= Len(snapshots) /\ ShownIn(snapshots, snapshots[i].of)
           /\ snapshots[i].known <= Len(snapshots)
           /\ StoredIn(snapshots, i) /\ RecordedIn(snapshots, removals, drifts, i)

(* A longer book says the same of its first snapshots.                     *)
LEMMA LongerBook ==
    ASSUME NEW n \in Nat, NEW book, NEW longer, \A i \in 1..n : longer[i] = book[i]
    PROVE  /\ \A k \in 0..n : \A q : IsLatestIn(book, q, k) => IsLatestIn(longer, q, k)
           /\ \A q \in 0..n : /\ LinesIn(longer, q) = LinesIn(book, q)
                              /\ TablesIn(longer, q) = TablesIn(book, q)
           /\ \A w : w.known \in 0..n /\ ShownIn(book, w) => ShownIn(longer, w)
<1>1. ASSUME NEW k \in 0..n, NEW q, IsLatestIn(book, q, k)
      PROVE  IsLatestIn(longer, q, k)
  <2>1. CASE k = 0
    BY <1>1, <2>1 DEF IsLatestIn
  <2>2. CASE k # 0
    <3>1. q \in 1..k /\ \A j \in 1..k : book[j].id <= book[q].id
      BY <1>1, <2>2 DEF IsLatestIn
    <3>2. \A j \in 1..k : longer[j] = book[j]
      OBVIOUS
    <3> QED BY <2>2, <3>1, <3>2 DEF IsLatestIn
  <2> QED BY <2>1, <2>2
<1>2. \A q \in 0..n : LinesIn(longer, q) = LinesIn(book, q) /\ TablesIn(longer, q) = TablesIn(book, q)
  BY DEF LinesIn, TablesIn
<1>3. ASSUME NEW w, w.known \in 0..n, ShownIn(book, w)
      PROVE  ShownIn(longer, w)
  <2>1. PICK q \in 0..w.known :
            /\ IsLatestIn(book, q, w.known)
            /\ w.shown.removed = Compare(LinesIn(book, q), ParsedLines(w.file)).removed
    BY <1>3 DEF ShownIn
  <2>2. q \in 0..n
    BY <1>3
  <2>3. IsLatestIn(longer, q, w.known) /\ LinesIn(longer, q) = LinesIn(book, q)
    BY <1>1, <1>2, <1>3, <2>1, <2>2
  <2> QED BY <2>1, <2>3 DEF ShownIn
<1> QED BY <1>1, <1>2, <1>3

(* Only what was the latest snapshot is.                                   *)
LEMMA OneLatest ==
    ASSUME IntakeTyped, Numbered, NEW n \in 0..Len(snapshots), NEW p, NEW q,
           IsLatestIn(snapshots, p, n), IsLatestIn(snapshots, q, n)
    PROVE  p = q
<1>1. Len(snapshots) \in Nat /\ \A i \in 1..Len(snapshots) : snapshots[i].id \in Nat
  BY BookIsTyped DEF IntakeTyped, SnapshotIds
<1>2. CASE n = 0
  BY <1>2 DEF IsLatestIn
<1>3. CASE n # 0
  <2>1. /\ p \in 1..n /\ q \in 1..n
        /\ snapshots[p].id <= snapshots[q].id /\ snapshots[q].id <= snapshots[p].id
    BY <1>3 DEF IsLatestIn
  <2>2. p \in 1..Len(snapshots) /\ q \in 1..Len(snapshots)
    BY <1>1, <2>1
  <2>3. snapshots[p].id = snapshots[q].id
    BY <1>1, <2>1, <2>2
  <2> QED BY <2>2, <2>3 DEF Numbered
<1> QED BY <1>2, <1>3

LEMMA ExplainedInit == Init => Explained
<1> SUFFICES ASSUME Init PROVE Explained
  OBVIOUS
<1> USE DEF Init, IntakeInit
<1>1. Len(snapshots) = 0 /\ 1..Len(snapshots) = {}
  OBVIOUS
<1>2. \A r \in Requests : ~Busy(r) /\ ~HasRead(r)
  BY DEF Busy, HasRead, Idle
<1> QED BY <1>1, <1>2 DEF Explained

LEMMA ExplainedUpload ==
    ASSUME IntakeTyped, Numbered, Explained, NEW f \in Files, Upload(f)
    PROVE  Explained'
<1> DEFINE w == PreviewOf(f)
<1>1. /\ w.file = f /\ w.known = Len(snapshots)
      /\ w.shown = Compare(LinesOf(Latest), ParsedLines(f))
      /\ previews'[uploads + 1] = w
      /\ \A p \in PreviewIds : p # uploads + 1 => previews'[p] = previews[p]
      /\ UNCHANGED <<commit, snapshots, removals, drifts>>
  BY UploadIs
<1> HIDE DEF w
<1>2. ShownIn(snapshots, w)
  <2>1. Latest \in 0..Len(snapshots) /\ IsLatestIn(snapshots, Latest, Len(snapshots))
    BY LatestIsLast
  <2>2. LinesOf(Latest) = LinesIn(snapshots, Latest)
    BY DEF LinesOf, LinesIn
  <2> QED BY <1>1, <2>1, <2>2 DEF ShownIn
<1>3. Len(snapshots) \in Nat
  BY BookIsTyped DEF IntakeTyped
<1>4. \A p \in PreviewIds : previews'[p] # None =>
          previews'[p].known <= Len(snapshots) /\ ShownIn(snapshots, previews'[p])
  BY <1>1, <1>2, <1>3 DEF Explained
<1> QED BY <1>1, <1>4 DEF Explained, Busy, HasRead

LEMMA ExplainedExpire ==
    ASSUME IntakeTyped, Numbered, Explained, NEW p \in PreviewIds, Expire(p)
    PROVE  Explained'
<1>1. /\ previews'[p] = None /\ \A q \in PreviewIds : q # p => previews'[q] = previews[q]
      /\ UNCHANGED <<commit, snapshots, removals, drifts>>
  BY DEF Expire, IntakeTyped
<1> QED BY <1>1 DEF Explained, Busy, HasRead

LEMMA ExplainedBeginCommit ==
    ASSUME IntakeTyped, Numbered, Explained,
           NEW r \in Requests, NEW p \in PreviewIds, BeginCommit(r, p)
    PROVE  Explained'
<1> DEFINE c == [step |-> "begun", id |-> attempts + 1, preview |-> p,
                 of |-> previews[p], found |-> Len(snapshots)]
<1>1. c.step = "begun" /\ c.of = previews[p]
  OBVIOUS
<1>2. commit' = [commit EXCEPT ![r] = c]
  BY DEF BeginCommit
<1> HIDE DEF c
<1>3. /\ commit'[r] = c /\ \A q \in Requests : q # r => commit'[q] = commit[q]
      /\ previews[p] # None
      /\ UNCHANGED <<previews, snapshots, removals, drifts>>
  BY <1>2 DEF BeginCommit, IntakeTyped
<1>4. \A q \in Requests : Busy(q)' =>
          commit'[q].of.known <= Len(snapshots) /\ ShownIn(snapshots, commit'[q].of)
  BY <1>1, <1>3 DEF Explained, Busy
<1>5. \A q \in Requests : HasRead(q)' =>
          /\ commit'[q].known <= Len(snapshots)
          /\ IsLatestIn(snapshots, commit'[q].previous, commit'[q].known)
  BY <1>1, <1>3 DEF Explained, HasRead
<1> QED BY <1>3, <1>4, <1>5 DEF Explained

LEMMA ExplainedReadPrevious ==
    ASSUME IntakeTyped, Numbered, Explained, NEW r \in Requests, ReadPrevious(r)
    PROVE  Explained'
<1> DEFINE c == commit[r]
           d == [step |-> "read", id |-> c.id, preview |-> c.preview, of |-> c.of,
                 found |-> c.found, known |-> Len(snapshots), previous |-> Latest]
<1>1. d.step = "read" /\ d.of = c.of /\ d.known = Len(snapshots) /\ d.previous = Latest
  OBVIOUS
<1>2. commit' = [commit EXCEPT ![r] = d]
  BY DEF ReadPrevious
<1> HIDE DEF d
<1>3. /\ commit'[r] = d /\ \A q \in Requests : q # r => commit'[q] = commit[q]
      /\ Busy(r)
      /\ UNCHANGED <<previews, snapshots, removals, drifts>>
  BY <1>2 DEF ReadPrevious, IntakeTyped, Busy
<1>4. \A q \in Requests : Busy(q)' =>
          commit'[q].of.known <= Len(snapshots) /\ ShownIn(snapshots, commit'[q].of)
  BY <1>1, <1>3 DEF Explained, Busy
<1>5. \A q \in Requests : HasRead(q)' =>
          /\ commit'[q].known <= Len(snapshots)
          /\ IsLatestIn(snapshots, commit'[q].previous, commit'[q].known)
  <2>1. Len(snapshots) \in Nat /\ IsLatestIn(snapshots, Latest, Len(snapshots))
    BY LatestIsLast, FewSnapshots
  <2> QED BY <1>1, <1>3, <2>1 DEF Explained, HasRead
<1> QED BY <1>3, <1>4, <1>5 DEF Explained

LEMMA ExplainedDeletePreview ==
    ASSUME IntakeTyped, Numbered, Explained, NEW r \in Requests, DeletePreview(r)
    PROVE  Explained'
<1> DEFINE d == [commit[r] EXCEPT !.step = "deleted"]
<1>1. /\ commit[r].step = "read" /\ commit[r] \in Written /\ commit[r].preview \in PreviewIds
      /\ Busy(r) /\ HasRead(r)
  BY RequestIsTyped DEF DeletePreview, HasRead, Busy
<1>2. /\ d.of = commit[r].of /\ d.known = commit[r].known /\ d.previous = commit[r].previous
  BY <1>1 DEF Written
<1>3. commit' = [commit EXCEPT ![r] = d]
  BY DEF DeletePreview
<1> HIDE DEF d
<1>4. /\ commit'[r] = d /\ \A q \in Requests : q # r => commit'[q] = commit[q]
      /\ previews'[commit[r].preview] = None
      /\ \A q \in PreviewIds : q # commit[r].preview => previews'[q] = previews[q]
      /\ UNCHANGED <<snapshots, removals, drifts>>
  BY <1>1, <1>3 DEF DeletePreview, IntakeTyped
<1>5. \A q \in Requests : Busy(q)' =>
          commit'[q].of.known <= Len(snapshots) /\ ShownIn(snapshots, commit'[q].of)
  BY <1>1, <1>2, <1>4 DEF Explained, Busy
<1>6. \A q \in Requests : HasRead(q)' =>
          /\ commit'[q].known <= Len(snapshots)
          /\ IsLatestIn(snapshots, commit'[q].previous, commit'[q].known)
  BY <1>1, <1>2, <1>4 DEF Explained, HasRead
<1>7. \A q \in PreviewIds : previews'[q] # None =>
          previews'[q].known <= Len(snapshots) /\ ShownIn(snapshots, previews'[q])
  BY <1>4 DEF Explained
<1> QED BY <1>4, <1>5, <1>6, <1>7 DEF Explained

(* What an attempt records is what it found to be removed and changed.     *)
LEMMA RecordedByAttempt ==
    ASSUME NEW c, NEW gone, NEW changed,
           \A x \in gone \cup changed : x.snapshot # c.id
    PROVE  /\ KeysRecorded(gone \cup RemovalsOf(c), c.id) = RemovedKeys(c.previous, c.of.file)
           /\ ValuesRecorded(changed \cup DriftsOf(c), c.id)
              = CompareAbattoirTables(TablesOf(c.previous), ParsedTables(c.of.file))
<1> DEFINE removed == RemovedKeys(c.previous, c.of.file)
           found == CompareAbattoirTables(TablesOf(c.previous), ParsedTables(c.of.file))
<1>1. \A d \in found : d = [key |-> d.key, old |-> d.old, new |-> d.new]
  BY DEF CompareAbattoirTables
<1>2. RemovalsOf(c) = {[snapshot |-> c.id, key |-> k, acknowledged |-> FALSE] : k \in removed}
  BY DEF RemovalsOf
<1>3. DriftsOf(c) = {[snapshot |-> c.id, key |-> d.key, old |-> d.old, new |-> d.new,
                      acknowledged |-> FALSE] : d \in found}
  BY DEF DriftsOf
<1> HIDE DEF removed, found
<1>4. {y \in gone \cup RemovalsOf(c) : y.snapshot = c.id} = RemovalsOf(c)
  BY <1>2
<1>5. {y \in changed \cup DriftsOf(c) : y.snapshot = c.id} = DriftsOf(c)
  BY <1>3
<1>6. {x.key : x \in RemovalsOf(c)} = removed
  <2>1. ASSUME NEW x \in RemovalsOf(c) PROVE x.key \in removed
    <3>1. PICK k \in removed : x = [snapshot |-> c.id, key |-> k, acknowledged |-> FALSE]
      BY <1>2
    <3> QED BY <3>1
  <2>2. ASSUME NEW k \in removed PROVE \E x \in RemovalsOf(c) : k = x.key
    <3> DEFINE x == [snapshot |-> c.id, key |-> k, acknowledged |-> FALSE]
    <3>1. x \in RemovalsOf(c) /\ x.key = k
      BY <1>2
    <3> QED BY <3>1
  <2> QED BY <2>1, <2>2
<1>7. {[key |-> x.key, old |-> x.old, new |-> x.new] : x \in DriftsOf(c)} = found
  <2>1. ASSUME NEW x \in DriftsOf(c)
        PROVE  [key |-> x.key, old |-> x.old, new |-> x.new] \in found
    <3>1. PICK d \in found : x = [snapshot |-> c.id, key |-> d.key, old |-> d.old,
                                  new |-> d.new, acknowledged |-> FALSE]
      BY <1>3
    <3>2. [key |-> x.key, old |-> x.old, new |-> x.new]
          = [key |-> d.key, old |-> d.old, new |-> d.new]
      BY <3>1
    <3> QED BY <1>1, <3>2
  <2>2. ASSUME NEW d \in found
        PROVE  \E x \in DriftsOf(c) : d = [key |-> x.key, old |-> x.old, new |-> x.new]
    <3> DEFINE x == [snapshot |-> c.id, key |-> d.key, old |-> d.old,
                     new |-> d.new, acknowledged |-> FALSE]
    <3>1. x \in DriftsOf(c)
      BY <1>3
    <3>2. d = [key |-> x.key, old |-> x.old, new |-> x.new]
      BY <1>1
    <3> QED BY <3>1, <3>2
  <2> QED BY <2>1, <2>2
<1>8. KeysRecorded(gone \cup RemovalsOf(c), c.id) = removed
  BY <1>4, <1>6 DEF KeysRecorded
<1>9. ValuesRecorded(changed \cup DriftsOf(c), c.id) = found
  BY <1>5, <1>7 DEF ValuesRecorded
<1> QED BY <1>8, <1>9 DEF removed, found

LEMMA ExplainedCommitSnapshot ==
    ASSUME IntakeTyped, Numbered, Explained, NEW r \in Requests, CommitSnapshot(r)
    PROVE  Explained'
<1> DEFINE c == commit[r]
           s == SnapshotOf(c)
           n == Len(snapshots)
<1>1. /\ c.step = "deleted" /\ c \in Written /\ s \in Snapshot
      /\ c.previous \in 0..n
      /\ snapshots' = Append(snapshots, s) /\ commit' = [commit EXCEPT ![r] = Idle]
      /\ removals' = removals \cup RemovalsOf(c) /\ drifts' = drifts \cup DriftsOf(c)
  BY CommitIs
<1>2. /\ s.id = c.id /\ s.of = c.of /\ s.known = c.known
      /\ s.lines = StoredLines(c.of.file) /\ s.tables = ParsedTables(c.of.file)
  BY DEF SnapshotOf
<1> HIDE DEF s
<1>3. /\ n \in Nat /\ Len(snapshots)' = n + 1
      /\ \A i \in 1..n : snapshots'[i] = snapshots[i]
      /\ snapshots'[n + 1] = s
      /\ \A i \in 1..Len(snapshots)' : i \in 1..n \/ i = n + 1
  BY <1>1, BookGrows DEF IntakeTyped
<1>4. /\ commit'[r] = Idle /\ \A q \in Requests : q # r => commit'[q] = commit[q]
      /\ UNCHANGED previews
  BY <1>1 DEF CommitSnapshot, IntakeTyped
<1>5. Busy(r) /\ HasRead(r) /\ ~Busy(r)' /\ ~HasRead(r)'
  BY <1>1, <1>4 DEF Busy, HasRead, Idle
<1>6. /\ \A k \in 0..n : \A q : IsLatestIn(snapshots, q, k) => IsLatestIn(snapshots', q, k)
      /\ \A q \in 0..n : /\ LinesIn(snapshots', q) = LinesIn(snapshots, q)
                         /\ TablesIn(snapshots', q) = TablesIn(snapshots, q)
      /\ \A w : w.known \in 0..n /\ ShownIn(snapshots, w) => ShownIn(snapshots', w)
  BY <1>3, LongerBook
<1>7. \A w \in Preview : w.known <= n => w.known \in 0..n /\ w.known <= Len(snapshots)'
  BY <1>3, IngestionAssumption DEF Preview
<1>8. \A p \in PreviewIds : previews'[p] # None =>
          previews'[p].known <= Len(snapshots)' /\ ShownIn(snapshots', previews'[p])
  <2> SUFFICES ASSUME NEW p \in PreviewIds, previews'[p] # None
               PROVE  previews'[p].known <= Len(snapshots)' /\ ShownIn(snapshots', previews'[p])
    OBVIOUS
  <2>1. previews'[p] = previews[p] /\ previews[p] \in Preview
    BY <1>4 DEF IntakeTyped
  <2>2. previews[p].known <= n /\ ShownIn(snapshots, previews[p])
    BY <2>1 DEF Explained
  <2> QED BY <1>6, <1>7, <2>1, <2>2
<1>9. \A q \in Requests : Busy(q) =>
          commit[q].of.known <= Len(snapshots)' /\ ShownIn(snapshots', commit[q].of)
  <2> SUFFICES ASSUME NEW q \in Requests, Busy(q)
               PROVE  commit[q].of.known <= Len(snapshots)' /\ ShownIn(snapshots', commit[q].of)
    OBVIOUS
  <2>1. commit[q].of \in Preview
    BY RequestIsTyped
  <2>2. commit[q].of.known <= n /\ ShownIn(snapshots, commit[q].of)
    BY DEF Explained
  <2> QED BY <1>6, <1>7, <2>1, <2>2
<1>10. \A q \in Requests : Busy(q)' =>
           commit'[q].of.known <= Len(snapshots)' /\ ShownIn(snapshots', commit'[q].of)
  BY <1>4, <1>5, <1>9 DEF Busy
<1>11. \A q \in Requests : HasRead(q) =>
           /\ commit[q].known \in 0..n
           /\ IsLatestIn(snapshots, commit[q].previous, commit[q].known)
  <2>1. \A q \in Requests : HasRead(q) => commit[q].known \in 0..MaxCommits
    BY RequestIsTyped DEF Written
  <2> QED BY <1>3, <2>1, IngestionAssumption DEF Explained
<1>12. \A q \in Requests : HasRead(q)' =>
           /\ commit'[q].known <= Len(snapshots)'
           /\ IsLatestIn(snapshots', commit'[q].previous, commit'[q].known)
  <2> SUFFICES ASSUME NEW q \in Requests, HasRead(q)'
               PROVE  /\ commit'[q].known <= Len(snapshots)'
                      /\ IsLatestIn(snapshots', commit'[q].previous, commit'[q].known)
    OBVIOUS
  <2>1. commit'[q] = commit[q] /\ HasRead(q)
    BY <1>4, <1>5 DEF HasRead
  <2>2. commit[q].known \in 0..n
    BY <1>11, <2>1
  <2> QED BY <1>3, <1>6, <1>11, <2>1, <2>2
<1>13. ASSUME NEW i \in 1..n
       PROVE  /\ snapshots'[i].of.known <= Len(snapshots)' /\ ShownIn(snapshots', snapshots'[i].of)
              /\ snapshots'[i].known <= Len(snapshots)'
              /\ StoredIn(snapshots', i) /\ RecordedIn(snapshots', removals', drifts', i)
  <2>1. snapshots'[i] = snapshots[i] /\ snapshots[i].of \in Preview /\ snapshots[i].known \in Nat
    BY <1>3, BookIsTyped DEF IntakeTyped
  <2>2. /\ snapshots[i].of.known <= n /\ ShownIn(snapshots, snapshots[i].of)
        /\ snapshots[i].known <= n
        /\ StoredIn(snapshots, i) /\ RecordedIn(snapshots, removals, drifts, i)
    BY DEF Explained
  <2>3. snapshots[i].id # c.id
    BY <1>5 DEF Numbered
  <2>4. /\ KeysRecorded(removals', snapshots[i].id) = KeysRecorded(removals, snapshots[i].id)
        /\ ValuesRecorded(drifts', snapshots[i].id) = ValuesRecorded(drifts, snapshots[i].id)
    <3> DEFINE id == snapshots[i].id
    <3>1. id # c.id
      BY <2>3
    <3>2. \A x \in RemovalsOf(c) \cup DriftsOf(c) : x.snapshot # id
      BY <3>1 DEF RemovalsOf, DriftsOf
    <3> HIDE DEF id, c
    <3>3. {y \in removals' : y.snapshot = id} = {y \in removals : y.snapshot = id}
      BY <1>1, <3>2
    <3>4. {y \in drifts' : y.snapshot = id} = {y \in drifts : y.snapshot = id}
      BY <1>1, <3>2
    <3>5. /\ KeysRecorded(removals', id) = KeysRecorded(removals, id)
          /\ ValuesRecorded(drifts', id) = ValuesRecorded(drifts, id)
      BY <3>3, <3>4 DEF KeysRecorded, ValuesRecorded
    <3> QED BY <3>5 DEF id
  <2>5. PICK q \in 0..snapshots[i].known :
            /\ IsLatestIn(snapshots, q, snapshots[i].known)
            /\ KeysRecorded(removals, snapshots[i].id)
               = Compare(LinesIn(snapshots, q), ParsedLines(snapshots[i].of.file)).removed
            /\ ValuesRecorded(drifts, snapshots[i].id)
               = CompareAbattoirTables(TablesIn(snapshots, q), ParsedTables(snapshots[i].of.file))
    BY <2>2 DEF RecordedIn
  <2>6. q \in 0..n /\ snapshots[i].known \in 0..n
    BY <1>3, <2>1, <2>2
  <2>7. RecordedIn(snapshots', removals', drifts', i)
    BY <1>6, <2>1, <2>4, <2>5, <2>6 DEF RecordedIn
  <2>8. StoredIn(snapshots', i)
    BY <2>1, <2>2 DEF StoredIn
  <2>9. snapshots'[i].of.known <= Len(snapshots)' /\ ShownIn(snapshots', snapshots'[i].of)
    BY <1>6, <1>7, <2>1, <2>2
  <2>10. snapshots'[i].known <= Len(snapshots)'
    BY <1>3, <2>1, <2>2
  <2> QED BY <2>7, <2>8, <2>9, <2>10
<1>14. /\ s.of.known <= Len(snapshots)' /\ ShownIn(snapshots', s.of)
       /\ s.known <= Len(snapshots)'
       /\ StoredIn(snapshots', n + 1) /\ RecordedIn(snapshots', removals', drifts', n + 1)
  <2>1. s.of.known <= Len(snapshots)' /\ ShownIn(snapshots', s.of)
    BY <1>2, <1>5, <1>9
  <2>2. s.known \in 0..n /\ IsLatestIn(snapshots', c.previous, s.known)
    BY <1>2, <1>5, <1>6, <1>11
  <2>3. s.known <= Len(snapshots)'
    BY <1>3, <2>2
  <2>4. StoredIn(snapshots', n + 1)
    BY <1>2, <1>3 DEF StoredIn
  <2>5. \A x \in removals \cup drifts : x.snapshot # c.id
    BY <1>5 DEF Numbered
  <2>6. /\ KeysRecorded(removals', c.id) = RemovedKeys(c.previous, c.of.file)
        /\ ValuesRecorded(drifts', c.id)
           = CompareAbattoirTables(TablesOf(c.previous), ParsedTables(c.of.file))
    BY <1>1, <2>5, RecordedByAttempt
  <2>7. /\ LinesOf(c.previous) = LinesIn(snapshots', c.previous)
        /\ TablesOf(c.previous) = TablesIn(snapshots', c.previous)
    BY <1>1, <1>6 DEF LinesOf, LinesIn, TablesOf, TablesIn
  <2>8. c.previous \in 0..s.known
    BY <1>1, <2>2 DEF IsLatestIn
  <2>9. RemovedKeys(c.previous, c.of.file)
        = Compare(LinesIn(snapshots', c.previous), ParsedLines(c.of.file)).removed
    BY <2>7 DEF RemovedKeys
  <2> HIDE DEF c
  <2>10. RecordedIn(snapshots', removals', drifts', n + 1)
    BY <1>2, <1>3, <2>2, <2>6, <2>7, <2>8, <2>9 DEF RecordedIn
  <2> QED BY <2>1, <2>3, <2>4, <2>10
<1>15. \A i \in 1..Len(snapshots)' :
           /\ snapshots'[i].of.known <= Len(snapshots)' /\ ShownIn(snapshots', snapshots'[i].of)
           /\ snapshots'[i].known <= Len(snapshots)'
           /\ StoredIn(snapshots', i) /\ RecordedIn(snapshots', removals', drifts', i)
  BY <1>3, <1>13, <1>14
<1> QED BY <1>8, <1>10, <1>12, <1>15 DEF Explained

LEMMA ExplainedStop ==
    ASSUME IntakeTyped, Numbered, Explained, NEW r \in Requests, Stop(r)
    PROVE  Explained'
<1>1. /\ commit'[r] = Idle /\ \A q \in Requests : q # r => commit'[q] = commit[q]
      /\ UNCHANGED <<previews, snapshots, removals, drifts>>
  BY DEF Stop, IntakeTyped
<1>2. ~Busy(r)' /\ ~HasRead(r)'
  BY <1>1 DEF Busy, HasRead, Idle
<1> QED BY <1>1, <1>2 DEF Explained, Busy, HasRead

(* An acknowledgement changes no key and no value.                         *)
LEMMA ExplainedAcknowledge ==
    ASSUME IntakeTyped, Numbered, Explained,
           \/ \E x \in removals : AcknowledgeRemoval(x)
           \/ \E x \in drifts : AcknowledgeDrift(x)
    PROVE  Explained'
<1>1. UNCHANGED <<previews, commit, snapshots>>
  BY DEF AcknowledgeRemoval, AcknowledgeDrift
<1>2. \A id : KeysRecorded(removals', id) = KeysRecorded(removals, id)
  <2>1. CASE removals' = removals
    BY <2>1
  <2>2. ASSUME NEW x \in removals, AcknowledgeRemoval(x), NEW id
        PROVE  KeysRecorded(removals', id) = KeysRecorded(removals, id)
    <3> DEFINE y == [x EXCEPT !.acknowledged = TRUE]
    <3>1. x \in Removal
      BY DEF IntakeTyped
    <3>2. y.snapshot = x.snapshot /\ y.key = x.key
      BY <3>1 DEF Removal
    <3>3. removals' = (removals \ {x}) \cup {y}
      BY <2>2 DEF AcknowledgeRemoval
    <3> HIDE DEF y
    <3> QED BY <3>2, <3>3 DEF KeysRecorded
  <2> QED BY <2>1, <2>2 DEF AcknowledgeDrift
<1>3. \A id : ValuesRecorded(drifts', id) = ValuesRecorded(drifts, id)
  <2>1. CASE drifts' = drifts
    BY <2>1
  <2>2. ASSUME NEW x \in drifts, AcknowledgeDrift(x), NEW id
        PROVE  ValuesRecorded(drifts', id) = ValuesRecorded(drifts, id)
    <3> DEFINE y == [x EXCEPT !.acknowledged = TRUE]
    <3>1. x \in Drift
      BY DEF IntakeTyped
    <3>2. y.snapshot = x.snapshot /\ y.key = x.key /\ y.old = x.old /\ y.new = x.new
      BY <3>1 DEF Drift
    <3>3. drifts' = (drifts \ {x}) \cup {y}
      BY <2>2 DEF AcknowledgeDrift
    <3> HIDE DEF y
    <3> QED BY <3>2, <3>3 DEF ValuesRecorded
  <2> QED BY <2>1, <2>2 DEF AcknowledgeRemoval
<1>4. \A i \in 1..Len(snapshots) : RecordedIn(snapshots, removals, drifts, i)
          => RecordedIn(snapshots, removals', drifts', i)
  BY <1>2, <1>3 DEF RecordedIn
<1> QED BY <1>1, <1>4 DEF Explained, Busy, HasRead

LEMMA ExplainedStays ==
    ASSUME Explained, UNCHANGED intakeVars
    PROVE  Explained'
BY DEF intakeVars, Explained, Busy, HasRead

LEMMA ExplainedNext == IntakeTyped /\ Numbered /\ Explained /\ [Next]_vars => Explained'
<1> SUFFICES ASSUME IntakeTyped, Numbered, Explained, [Next]_vars PROVE Explained'
  OBVIOUS
<1>1. CASE IntakeNext
  BY <1>1, ExplainedUpload, ExplainedExpire, ExplainedBeginCommit, ExplainedReadPrevious,
     ExplainedDeletePreview, ExplainedCommitSnapshot, ExplainedStop, ExplainedAcknowledge
     DEF IntakeNext
<1>2. CASE UNCHANGED intakeVars
  BY <1>2, ExplainedStays
<1> QED BY <1>1, <1>2 DEF Next, vars

LEMMA StoredIncoterms ==
    ASSUME NEW f \in Files, NEW i \in 1..Len(StoredLines(f))
    PROVE  StoredLines(f)[i].row.incoterm \in KnownIncoterms \cup {None}
<1>1. /\ i \in 1..Len(ParsedLines(f)) /\ ParsedLines(f)[i] \in StoredLine
      /\ StoredLines(f)[i] = OrderLineModel(ParsedLines(f)[i])
  BY StoredLinesAre
<1> QED BY <1>1, StoredLineIs

(* Of two snapshots that did not overlap with others the later was         *)
(* compared with the earlier one.                                          *)
LEMMA ComparedWithTheOneBefore ==
    ASSUME IntakeTyped, Numbered, NEW i \in 1..Len(snapshots), NEW q,
           ~Overlapping(i), i > 1 => ~Overlapping(i - 1),
           IsLatestIn(snapshots, q, i - 1)
    PROVE  q = i - 1
<1>1. /\ Len(snapshots) \in Nat /\ i \in Nat
      /\ \A j \in 1..Len(snapshots) : snapshots[j].id \in Nat
  BY BookIsTyped DEF IntakeTyped, SnapshotIds
<1>2. CASE i = 1
  BY <1>2 DEF IsLatestIn
<1>3. CASE i > 1
  <2>1. i - 1 \in 1..i - 1 /\ i - 1 \in 0..Len(snapshots) /\ i - 1 # 0
    BY <1>1, <1>3
  <2>2. \A j \in 1..i - 1 : snapshots[j].id <= snapshots[i - 1].id
    <3> SUFFICES ASSUME NEW j \in 1..i - 1 PROVE snapshots[j].id <= snapshots[i - 1].id
      OBVIOUS
    <3>1. j = i - 1 \/ j \in 1..(i - 1) - 1
      BY <1>1
    <3>2. snapshots[j].id \in Nat /\ snapshots[i - 1].id \in Nat
      BY <1>1, <2>1
    <3>3. CASE j \in 1..(i - 1) - 1
      <4>1. ~(snapshots[j].id > snapshots[i - 1].id)
        BY <1>3, <3>3 DEF Overlapping
      <4> QED BY <3>2, <4>1
    <3> QED BY <3>1, <3>2, <3>3
  <2>3. IsLatestIn(snapshots, i - 1, i - 1)
    BY <2>1, <2>2 DEF IsLatestIn
  <2> QED BY <2>1, <2>3, OneLatest
<1> QED BY <1>1, <1>2, <1>3

LEMMA ExplainedIs == IntakeTyped /\ Numbered /\ Explained => RecordsExplainTheBook
<1> SUFFICES ASSUME IntakeTyped, Numbered, Explained,
                    NEW i \in 1..Len(snapshots),
                    ~Overlapping(i), i > 1 => ~Overlapping(i - 1)
             PROVE  LET gone == IF i = 1 THEN {} ELSE DiffSnapshots(i - 1, i).removed
                    IN  /\ gone \subseteq RecordedRemovals(i)
                        /\ \A k \in RecordedRemovals(i) \ gone :
                               /\ k[3] = None
                               /\ <<k[1], k[2]>> \in Unrecognised(snapshots[i].of.file)
                        /\ RecordedDrifts(i) =
                               CompareAbattoirTables(TablesOf(i - 1), TablesOf(i))
                        /\ snapshots[i].of.known = i - 1 =>
                               snapshots[i].of.shown.removed = RecordedRemovals(i)
  BY DEF RecordsExplainTheBook
<1> DEFINE gone == IF i = 1 THEN {} ELSE DiffSnapshots(i - 1, i).removed
           f == snapshots[i].of.file
           before == LinesOf(i - 1)
<1>1. /\ Len(snapshots) \in Nat /\ i \in Nat /\ f \in Files /\ i - 1 \in 0..Len(snapshots)
  BY BookIsTyped DEF IntakeTyped
<1>2. snapshots[i].known = i - 1
  BY DEF Overlapping
<1>3. /\ snapshots[i].lines = StoredLines(f) /\ snapshots[i].tables = ParsedTables(f)
      /\ ShownIn(snapshots, snapshots[i].of) /\ RecordedIn(snapshots, removals, drifts, i)
  BY DEF Explained, StoredIn
<1>4. LinesOf(i) = StoredLines(f) /\ TablesOf(i) = ParsedTables(f)
  BY <1>3 DEF LinesOf, TablesOf
<1>5. LinesIn(snapshots, i - 1) = before /\ TablesIn(snapshots, i - 1) = TablesOf(i - 1)
  BY DEF LinesIn, TablesIn, LinesOf, TablesOf
<1> HIDE DEF f, before
<1>6. /\ RecordedRemovals(i) = Compare(before, ParsedLines(f)).removed
      /\ RecordedDrifts(i) = CompareAbattoirTables(TablesOf(i - 1), TablesOf(i))
  <2>1. PICK q \in 0..snapshots[i].known :
            /\ IsLatestIn(snapshots, q, snapshots[i].known)
            /\ KeysRecorded(removals, snapshots[i].id)
               = Compare(LinesIn(snapshots, q), ParsedLines(f)).removed
            /\ ValuesRecorded(drifts, snapshots[i].id)
               = CompareAbattoirTables(TablesIn(snapshots, q), ParsedTables(f))
    BY <1>3 DEF RecordedIn, f
  <2>2. q = i - 1
    BY <1>2, <2>1, ComparedWithTheOneBefore
  <2>3. /\ RecordedRemovals(i) = KeysRecorded(removals, snapshots[i].id)
        /\ RecordedDrifts(i) = ValuesRecorded(drifts, snapshots[i].id)
    BY DEF RecordedRemovals, RecordedDrifts, KeysRecorded, ValuesRecorded
  <2> QED BY <1>4, <1>5, <2>1, <2>2, <2>3
<1>7. snapshots[i].of.known = i - 1 => snapshots[i].of.shown.removed = RecordedRemovals(i)
  <2> SUFFICES ASSUME snapshots[i].of.known = i - 1
               PROVE  snapshots[i].of.shown.removed = RecordedRemovals(i)
    OBVIOUS
  <2>1. PICK q \in 0..snapshots[i].of.known :
            /\ IsLatestIn(snapshots, q, snapshots[i].of.known)
            /\ snapshots[i].of.shown.removed
               = Compare(LinesIn(snapshots, q), ParsedLines(f)).removed
    BY <1>3 DEF ShownIn, f
  <2>2. q = i - 1
    BY <2>1, ComparedWithTheOneBefore
  <2> QED BY <1>5, <1>6, <2>1, <2>2
<1>8. CASE before = None
  <2>1. RecordedRemovals(i) = {}
    BY <1>6, <1>8, ComparedIs
  <2>2. gone = {}
    <3>1. Compare(before, LinesOf(i)).removed = {}
      BY <1>8, ComparedIs
    <3> QED BY <3>1 DEF DiffSnapshots, before
  <2> HIDE DEF gone
  <2>3. gone \subseteq RecordedRemovals(i) /\ RecordedRemovals(i) \ gone = {}
    BY <2>1, <2>2
  <2> QED BY <1>6, <1>7, <2>3 DEF gone, f
<1>9. CASE before # None
  <2>1. i # 1
    BY <1>9 DEF before, LinesOf
  <2>2. i - 1 \in 1..Len(snapshots)
    BY <1>1, <2>1
  <2> DEFINE g == snapshots[i - 1].of.file
  <2>3. g \in Files
    BY <2>2, BookIsTyped DEF IntakeTyped
  <2>4. before = StoredLines(g)
    BY <1>1, <2>1, <2>2 DEF Explained, StoredIn, before, LinesOf
  <2> HIDE DEF g
  <2>5. /\ before \in Seq(StoredLine)
        /\ \A j \in 1..Len(before) : before[j].row.incoterm \in KnownIncoterms \cup {None}
    BY <2>3, <2>4, StoredLinesAre, StoredIncoterms
  <2>6. RecordedRemovals(i) = Keys(before) \ Keys(ParsedLines(f))
    BY <1>6, <1>9, ComparedIs
  <2>7. gone = Keys(before) \ Keys(StoredLines(f))
    <3>1. gone = Compare(before, StoredLines(f)).removed
      BY <1>4, <2>1 DEF DiffSnapshots, before
    <3> HIDE DEF gone
    <3> QED BY <1>9, <3>1, ComparedIs
  <2> HIDE DEF gone
  <2>8. /\ gone \subseteq RecordedRemovals(i)
        /\ \A k \in RecordedRemovals(i) \ gone : k[3] = None /\ <<k[1], k[2]>> \in Unrecognised(f)
    BY <1>1, <2>5, <2>6, <2>7, RemovalsExplained
  <2> QED BY <1>6, <1>7, <2>8 DEF gone, f
<1> QED BY <1>8, <1>9

-----------------------------------------------------------------------------
(* The rest of the office.                                                 *)

(* A row of buy_entries, deleted or not, has the fields of a purchase.     *)
IsEntry(e) ==
    /\ DOMAIN e = {"lot", "buyer", "species", "saleyard", "day", "heads", "price", "weight",
                   "dnbp", "deleted"}
    /\ e.buyer \in Buyers
    /\ {e.day, e.heads, e.price, e.weight, e.dnbp} \subseteq Int

(* Of what nobody weighed there is no implied price.                       *)
IsObservation(o, u) ==
    /\ o \in Observation /\ o.client_uuid = u
    /\ o.weight = None => o.implied = None

(* A correction under way loaded a row that was weighed no later than the  *)
(* row as it is now.                                                       *)
IsCorrection(c) ==
    /\ DOMAIN c = {"of", "loaded", "patch"}
    /\ c.of \in Sightings /\ c.patch \in PatchesOf[c.of]
    /\ observations[c.of] # None
    /\ IsObservation(c.loaded, c.of)
    /\ observations[c.of].weight = None => c.loaded.weight = None

Implied(o) == PricePerKg(o.price, o.weight, None)

OfficeTyped ==
    /\ {[e EXCEPT !.deleted = FALSE] : e \in purchases} \subseteq Purchases
    /\ \A e, f \in purchases : e.lot = f.lot => e = f
    /\ IsFiniteSet(purchases) /\ \A e \in purchases : IsEntry(e)
    /\ fills \subseteq FillsThereAre
    /\ IsFiniteSet(fills) /\ \A x \in fills : FillsAllowed(x)

(* Corrections that did not cross left the implied price it should be.     *)
MarketTyped ==
    /\ observations = [u \in Sightings |-> observations[u]]
    /\ \A u \in Stored : IsObservation(observations[u], u)
    /\ \A c \in corrections : IsCorrection(c)
    /\ crossed \subseteq Sightings
    /\ \A u \in Stored \ crossed : observations[u].implied = Implied(observations[u])

LEMMA OfficeInit == Init => OfficeTyped /\ MarketTyped
BY FS_EmptySet DEF Init, OfficeTyped, MarketTyped, Stored

LEMMA ImpliedIs ==
    ASSUME NEW price \in Int, NEW weight \in Nat \cup {None}
    PROVE  PricePerKg(price, weight, None) \in Int \cup {None}
<1>1. CASE weight \in {None, 0}
  BY <1>1 DEF PricePerKg
<1>2. CASE weight \notin {None, 0}
  <2>1. weight \in Nat /\ weight > 0
    BY <1>2
  <2>2. price \div weight \in Int
    BY <2>1
  <2> QED BY <1>2, <2>2 DEF PricePerKg
<1> QED BY <1>1, <1>2

LEMMA PatchedIs ==
    ASSUME NEW u \in Sightings, NEW p \in PatchesOf[u], NEW o \in Observation
    PROVE  Patched(o, p) \in Observation
<1> DEFINE price == OrElse(p.price, o.price)
           weight == OrElse(p.weight, o.weight)
           heads == OrElse(p.heads, o.heads)
           implied == IF p.price = None /\ p.weight = None THEN o.implied
                      ELSE PricePerKg(price, weight, None)
<1>1. price \in Int /\ heads \in Int /\ weight \in Nat \cup {None}
  <2>1. /\ p.price \in Int \cup {None} /\ p.heads \in Int \cup {None}
        /\ p.weight \in Nat \cup {None}
    BY OfficeAssumption
  <2> QED BY <2>1 DEF OrElse, Observation
<1>2. PricePerKg(price, weight, None) \in Int \cup {None}
  <2> HIDE DEF price, weight
  <2> QED BY <1>1, ImpliedIs
<1>3. implied \in Int \cup {None}
  BY <1>2 DEF Observation
<1>4. Patched(o, p) = [o EXCEPT !.price = price, !.weight = weight, !.heads = heads,
                                !.implied = implied]
  BY DEF Patched, Observation
<1> HIDE DEF price, weight, heads, implied
<1> QED BY <1>1, <1>3, <1>4 DEF Observation

LEMMA MergedRowIs ==
    ASSUME NEW row \in Observation, NEW old \in Observation, NEW new \in Observation
    PROVE  MergedRow(row, old, new) \in Observation
<1>1. DOMAIN row = {"client_uuid", "competitor", "species", "price", "weight", "heads",
                    "implied", "deleted"}
  BY DEF Observation
<1>2. MergedRow(row, old, new) =
          [client_uuid |-> IF new.client_uuid # old.client_uuid THEN new.client_uuid
                           ELSE row.client_uuid,
           competitor |-> IF new.competitor # old.competitor THEN new.competitor
                          ELSE row.competitor,
           species |-> IF new.species # old.species THEN new.species ELSE row.species,
           price |-> IF new.price # old.price THEN new.price ELSE row.price,
           weight |-> IF new.weight # old.weight THEN new.weight ELSE row.weight,
           heads |-> IF new.heads # old.heads THEN new.heads ELSE row.heads,
           implied |-> IF new.implied # old.implied THEN new.implied ELSE row.implied,
           deleted |-> IF new.deleted # old.deleted THEN new.deleted ELSE row.deleted]
  BY <1>1 DEF MergedRow
<1> QED BY <1>2 DEF Observation

(* The columns that make up the implied price, as a correction leaves them.*)
LEMMA MergedIs ==
    ASSUME MarketTyped, NEW c \in corrections, NEW row, row = observations[c.of],
           NEW merged, merged = MergedRow(row, c.loaded, Patched(c.loaded, c.patch))
    PROVE  /\ IsObservation(merged, c.of) /\ (merged.weight = None => row.weight = None)
           /\ (c.patch.price # None \/ c.patch.weight # None) /\ FiguresOf(row) = FiguresOf(c.loaded)
                  => merged.implied = Implied(merged)
           /\ c.patch.price = None /\ c.patch.weight = None => FiguresOf(merged) = FiguresOf(row)
<1> DEFINE old == c.loaded
           price == OrElse(c.patch.price, old.price)
           weight == OrElse(c.patch.weight, old.weight)
           implied == IF c.patch.price = None /\ c.patch.weight = None THEN old.implied
                      ELSE PricePerKg(price, weight, None)
           n == Patched(old, c.patch)
<1>1. /\ IsCorrection(c) /\ IsObservation(old, c.of) /\ IsObservation(row, c.of)
      /\ row.weight = None => old.weight = None
  BY DEF MarketTyped, IsCorrection, Stored
<1>2. /\ n.price = price /\ n.weight = weight /\ n.implied = implied
      /\ n.client_uuid = c.of
  BY <1>1 DEF Patched, IsObservation, Observation
<1>t. row \in Observation /\ old \in Observation /\ merged \in Observation
  <2>1. n \in Observation
    BY <1>1, PatchedIs DEF IsCorrection, IsObservation
  <2> HIDE DEF n
  <2> QED BY <1>1, <2>1, MergedRowIs DEF IsObservation, n
<1> HIDE DEF n
<1>3. /\ merged.price = IF price # old.price THEN price ELSE row.price
      /\ merged.weight = IF weight # old.weight THEN weight ELSE row.weight
      /\ merged.implied = IF implied # old.implied THEN implied ELSE row.implied
      /\ merged.client_uuid = c.of
  <2>1. {"client_uuid", "price", "weight", "implied"} \subseteq DOMAIN row
    BY <1>t DEF Observation
  <2> QED BY <1>1, <1>2, <2>1 DEF MergedRow, IsObservation, n
<1>4. ASSUME merged.weight = None PROVE row.weight = None /\ merged.implied = None
  <2>1. weight = old.weight /\ row.weight = None
    BY <1>3, <1>4 DEF OrElse
  <2>2. old.weight = None /\ old.implied = None /\ row.implied = None
    BY <1>1, <2>1 DEF IsObservation
  <2>3. implied = None
    BY <2>1, <2>2 DEF PricePerKg
  <2> QED BY <1>3, <2>1, <2>2, <2>3
<1>5. ASSUME c.patch.price # None \/ c.patch.weight # None, FiguresOf(row) = FiguresOf(old)
      PROVE  merged.implied = Implied(merged)
  <2>1. row.price = old.price /\ row.weight = old.weight /\ row.implied = old.implied
    BY <1>5 DEF FiguresOf
  <2>2. merged.price = price /\ merged.weight = weight /\ merged.implied = implied
    <3> HIDE DEF price, weight, implied
    <3> QED BY <1>3, <2>1
  <2>3. implied = PricePerKg(price, weight, None)
    BY <1>5
  <2> HIDE DEF price, weight, implied
  <2> QED BY <2>2, <2>3 DEF Implied
<1>6. ASSUME c.patch.price = None, c.patch.weight = None PROVE FiguresOf(merged) = FiguresOf(row)
  <2>1. price = old.price /\ weight = old.weight /\ implied = old.implied
    BY <1>6 DEF OrElse
  <2> QED BY <1>3, <2>1 DEF FiguresOf
<1> QED BY <1>t, <1>3, <1>4, <1>5, <1>6 DEF IsObservation

(* What a correction leaves of the market.                                 *)
LEMMA CommittedIs ==
    ASSUME MarketTyped, NEW c \in corrections, CommitPatch(c)
    PROVE  MarketTyped'
<1> DEFINE row == observations[c.of]
           merged == MergedRow(row, c.loaded, Patched(c.loaded, c.patch))
<1>1. /\ observations' = [observations EXCEPT ![c.of] = merged]
      /\ corrections' = corrections \ {c}
      /\ crossed' = IF c.patch.price = None /\ c.patch.weight = None THEN crossed
                    ELSE IF FiguresOf(row) = FiguresOf(c.loaded) THEN crossed \ {c.of}
                    ELSE crossed \cup {c.of}
  BY DEF CommitPatch
<1>2. c.of \in Sightings /\ c.of \in Stored
  BY DEF MarketTyped, IsCorrection, Stored
<1>3. /\ IsObservation(merged, c.of) /\ (merged.weight = None => row.weight = None)
      /\ (c.patch.price # None \/ c.patch.weight # None) /\ FiguresOf(row) = FiguresOf(c.loaded)
             => merged.implied = Implied(merged)
      /\ c.patch.price = None /\ c.patch.weight = None => FiguresOf(merged) = FiguresOf(row)
  BY MergedIs
<1> HIDE DEF merged, row
<1>4. /\ observations' = [v \in Sightings |-> observations'[v]]
      /\ observations'[c.of] = merged
      /\ \A v \in Sightings : v # c.of => observations'[v] = observations[v]
  BY <1>1, <1>2 DEF MarketTyped
<1>5. \A u \in Stored' : IsObservation(observations'[u], u)
  BY <1>3, <1>4 DEF MarketTyped, Stored
<1>6. crossed' \subseteq Sightings
  BY <1>1, <1>2 DEF MarketTyped
<1>7. ASSUME NEW d \in corrections' PROVE IsCorrection(d)'
  <2>1. IsCorrection(d)
    BY <1>1 DEF MarketTyped
  <2>2. merged # None
    <3>1. merged = MergedRow(row, c.loaded, Patched(c.loaded, c.patch))
      BY DEF merged
    <3> QED BY <3>1, <1>3, RowsAreNotNull DEF IsObservation
  <2> QED BY <1>3, <1>4, <2>1, <2>2 DEF IsCorrection, row
<1>8. ASSUME NEW u \in Stored' \ crossed' PROVE observations'[u].implied = Implied(observations'[u])
  <2>1. CASE u # c.of
    <3>1. u \in Stored \ crossed /\ observations'[u] = observations[u]
      BY <1>1, <1>4, <2>1 DEF Stored
    <3> QED BY <3>1 DEF MarketTyped
  <2>2. CASE u = c.of
    <3>1. CASE c.patch.price = None /\ c.patch.weight = None
      <4>1. row.implied = Implied(row) /\ FiguresOf(merged) = FiguresOf(row)
        BY <1>1, <1>2, <1>3, <1>8, <2>2, <3>1 DEF MarketTyped, row
      <4>2. merged.price = row.price /\ merged.weight = row.weight /\ merged.implied = row.implied
        BY <4>1 DEF FiguresOf
      <4> QED BY <1>4, <2>2, <4>1, <4>2 DEF Implied
    <3>2. CASE ~(c.patch.price = None /\ c.patch.weight = None)
      <4>1. FiguresOf(row) = FiguresOf(c.loaded)
        BY <1>1, <1>8, <2>2, <3>2
      <4> QED BY <1>3, <1>4, <2>2, <3>2, <4>1
    <3> QED BY <3>1, <3>2
  <2> QED BY <2>1, <2>2
<1> QED BY <1>4, <1>5, <1>6, <1>7, <1>8 DEF MarketTyped

LEMMA MarketStep ==
    ASSUME MarketTyped, OfficeNext
    PROVE  MarketTyped'
<1>1. CASE UNCHANGED <<observations, patchVars>>
  BY <1>1 DEF MarketTyped, Stored, IsCorrection, patchVars
<1>2. ASSUME NEW batch \in SUBSET Sightings, BulkSync(batch) PROVE MarketTyped'
  <2>1. /\ observations' = [u \in Sightings |->
               IF u \in batch THEN CreateOrSyncObservation(u) ELSE observations[u]]
        /\ corrections' = corrections /\ crossed' = crossed
    BY <1>2 DEF BulkSync, patchVars
  <2>2. \A u \in Stored : observations'[u] = observations[u]
    BY <2>1 DEF CreateOrSyncObservation, Stored
  <2>3. ASSUME NEW u \in Stored', u \notin Stored
        PROVE  /\ IsObservation(observations'[u], u)
               /\ observations'[u].implied = Implied(observations'[u])
    <3>1. /\ SightingOf[u].heads \in Int /\ SightingOf[u].price \in Int
          /\ SightingOf[u].weight \in Nat \cup {None} /\ u \in Sightings /\ observations[u] = None
      BY <2>3, OfficeAssumption DEF Stored
    <3> DEFINE i == PricePerKg(SightingOf[u].price, SightingOf[u].weight, None)
    <3>2. i \in Int \cup {None} /\ (SightingOf[u].weight = None => i = None)
      BY <3>1, ImpliedIs DEF PricePerKg
    <3>3. observations'[u] =
              [client_uuid |-> u, competitor |-> SightingOf[u].competitor,
               species |-> SightingOf[u].species, price |-> SightingOf[u].price,
               weight |-> SightingOf[u].weight, heads |-> SightingOf[u].heads,
               deleted |-> FALSE, implied |-> i]
      BY <2>1, <2>3, <3>1 DEF CreateOrSyncObservation, Stored
    <3>4. i = PricePerKg(SightingOf[u].price, SightingOf[u].weight, None)
      OBVIOUS
    <3> HIDE DEF i
    <3>5. IsObservation(observations'[u], u)
      BY <3>1, <3>2, <3>3 DEF IsObservation, Observation
    <3>6. observations'[u].implied = Implied(observations'[u])
      BY <3>3, <3>4 DEF Implied
    <3> QED BY <3>5, <3>6
  <2>4. observations' = [u \in Sightings |-> observations'[u]]
    BY <2>1
  <2>5. \A u \in Stored' : IsObservation(observations'[u], u)
    BY <2>2, <2>3 DEF MarketTyped
  <2>6. ASSUME NEW c \in corrections' PROVE IsCorrection(c)'
    <3>1. IsCorrection(c) /\ c.of \in Stored
      BY <2>1 DEF MarketTyped, IsCorrection, Stored
    <3> QED BY <2>2, <3>1 DEF IsCorrection
  <2>7. \A u \in Stored' \ crossed' : observations'[u].implied = Implied(observations'[u])
    BY <2>1, <2>2, <2>3 DEF MarketTyped
  <2> QED BY <2>1, <2>4, <2>5, <2>6, <2>7 DEF MarketTyped
<1>3. ASSUME NEW u \in Sightings, NEW p \in PatchesOf[u], BeginPatch(u, p) PROVE MarketTyped'
  <2> DEFINE c == [of |-> u, loaded |-> observations[u], patch |-> p]
  <2>1. corrections' = corrections \cup {c} /\ observations' = observations /\ crossed' = crossed
        /\ observations[u] # None
    BY <1>3 DEF BeginPatch
  <2>2. IsCorrection(c)
    BY <2>1 DEF IsCorrection, MarketTyped, Stored
  <2> HIDE DEF c
  <2>3. \A d \in corrections' : IsCorrection(d)'
    BY <2>1, <2>2 DEF MarketTyped, IsCorrection
  <2> QED BY <2>1, <2>3 DEF MarketTyped, Stored
<1>4. ASSUME NEW u \in Sightings, DeleteObservation(u) PROVE MarketTyped'
  <2> DEFINE o == [observations[u] EXCEPT !.deleted = TRUE]
  <2>1. IsObservation(observations[u], u) /\ u \in Stored
    BY <1>4 DEF DeleteObservation, MarketTyped, Stored
  <2>2. /\ IsObservation(o, u) /\ o.price = observations[u].price
        /\ o.weight = observations[u].weight /\ o.implied = observations[u].implied
    BY <2>1 DEF IsObservation, Observation
  <2>3. /\ observations' = [observations EXCEPT ![u] = o]
        /\ corrections' = corrections /\ crossed' = crossed
    BY <1>4 DEF DeleteObservation, patchVars
  <2>4. o # None
    BY <2>2, RowsAreNotNull DEF IsObservation
  <2> HIDE DEF o
  <2>5. /\ observations' = [v \in Sightings |-> observations'[v]]
        /\ observations'[u] = o
        /\ \A v \in Sightings : v # u => observations'[v] = observations[v]
    BY <2>3 DEF MarketTyped
  <2>6. Stored' = Stored
    BY <2>1, <2>4, <2>5 DEF Stored
  <2>7. \A v \in Stored : IsObservation(observations'[v], v)
    BY <2>2, <2>5 DEF MarketTyped, Stored
  <2>8. \A v \in Stored : /\ observations'[v].price = observations[v].price
                          /\ observations'[v].weight = observations[v].weight
                          /\ observations'[v].implied = observations[v].implied
    BY <2>2, <2>5 DEF Stored
  <2>9. ASSUME NEW c \in corrections PROVE IsCorrection(c)'
    <3>1. IsCorrection(c) /\ c.of \in Stored
      BY DEF MarketTyped, IsCorrection, Stored
    <3>2. observations'[c.of] # None
      BY <2>4, <2>5, <3>1 DEF Stored
    <3> QED BY <2>8, <3>1, <3>2 DEF IsCorrection
  <2>10. \A v \in Stored \ crossed : observations'[v].implied = Implied(observations'[v])
    BY <2>8 DEF MarketTyped, Implied
  <2> QED BY <2>3, <2>5, <2>6, <2>7, <2>9, <2>10 DEF MarketTyped
<1>5. ASSUME NEW c \in corrections, CommitPatch(c) PROVE MarketTyped'
  BY <1>5, CommittedIs
<1>6. \/ UNCHANGED <<observations, patchVars>>
      \/ \E batch \in SUBSET Sightings : BulkSync(batch)
      \/ \E u \in Sightings : \E p \in PatchesOf[u] : BeginPatch(u, p)
      \/ \E u \in Sightings : DeleteObservation(u)
      \/ \E c \in corrections : CommitPatch(c)
  BY DEF OfficeNext, CreateEntry, DeleteEntry, AddFill, RemoveFill, patchVars
<1> QED BY <1>1, <1>2, <1>3, <1>4, <1>5, <1>6

LEMMA OfficeStep ==
    ASSUME OfficeTyped, OfficeNext
    PROVE  OfficeTyped'
<1>1. ASSUME NEW e \in Purchases, CreateEntry(e) PROVE OfficeTyped'
  <2>1. IsEntry(e) /\ [e EXCEPT !.deleted = FALSE] = e
    BY OfficeAssumption DEF IsPurchase, IsEntry
  <2>2. purchases' = purchases \cup {e} /\ \A f \in purchases : f.lot # e.lot
    BY <1>1 DEF CreateEntry
  <2>3. IsFiniteSet(purchases')
    BY <2>2, FS_AddElement DEF OfficeTyped
  <2>4. (\A x \in fills : FillsAllowed(x)) /\ fills' = fills
    BY <1>1 DEF CreateEntry, OfficeTyped
  <2>5. \A f \in purchases' : IsEntry(f)
    BY <2>1, <2>2 DEF OfficeTyped
  <2> QED BY <2>1, <2>2, <2>3, <2>4, <2>5 DEF OfficeTyped
<1>2. ASSUME NEW e \in purchases, DeleteEntry(e) PROVE OfficeTyped'
  <2> DEFINE d == [e EXCEPT !.deleted = TRUE]
  <2>1. IsEntry(e)
    BY DEF OfficeTyped
  <2>2. /\ [d EXCEPT !.deleted = FALSE] = [e EXCEPT !.deleted = FALSE]
        /\ d.lot = e.lot /\ IsEntry(d)
    BY <2>1 DEF IsEntry
  <2>3. purchases' = (purchases \ {e}) \cup {d}
    BY <1>2 DEF DeleteEntry
  <2> HIDE DEF d
  <2>4. {[f EXCEPT !.deleted = FALSE] : f \in purchases'} \subseteq Purchases
    <3>1. \A f \in purchases : [f EXCEPT !.deleted = FALSE] \in Purchases
      BY DEF OfficeTyped
    <3>2. \A f \in purchases' : [f EXCEPT !.deleted = FALSE] \in Purchases
      BY <2>2, <2>3, <3>1
    <3> QED BY <3>2
  <2>5. \A f, g \in purchases' : f.lot = g.lot => f = g
    BY <2>2, <2>3 DEF OfficeTyped
  <2>6. \A f \in purchases' : IsEntry(f)
    BY <2>2, <2>3 DEF OfficeTyped
  <2>7. IsFiniteSet(purchases')
    <3>1. IsFiniteSet(purchases \ {e})
      BY FS_RemoveElement DEF OfficeTyped
    <3> QED BY <2>3, <3>1, FS_AddElement
  <2>8. fills' = fills
    BY <1>2 DEF DeleteEntry
  <2> QED BY <2>4, <2>5, <2>6, <2>7, <2>8 DEF OfficeTyped
<1>3. ASSUME NEW x \in FillsThereAre, AddFill(x) PROVE OfficeTyped'
  <2>1. FillsAllowed(x) /\ fills' = fills \cup {x}
        /\ purchases' = purchases
    BY <1>3 DEF AddFill
  <2>2. IsFiniteSet(fills')
    BY <2>1, FS_AddElement DEF OfficeTyped
  <2> QED BY <2>1, <2>2 DEF OfficeTyped
<1>4. ASSUME NEW x \in fills, RemoveFill(x) PROVE OfficeTyped'
  <2>1. fills' = fills \ {x} /\ purchases' = purchases
    BY <1>4 DEF RemoveFill
  <2>2. IsFiniteSet(fills')
    BY <2>1, FS_RemoveElement DEF OfficeTyped
  <2> QED BY <2>1, <2>2 DEF OfficeTyped
<1>5. CASE UNCHANGED <<purchases, fills>>
  <2>1. (\A x \in fills : FillsAllowed(x)) /\ fills' = fills /\ purchases' = purchases
    BY <1>5 DEF OfficeTyped
  <2> QED BY <2>1 DEF OfficeTyped
<1>6. \/ \E e \in Purchases : CreateEntry(e)
      \/ \E e \in purchases : DeleteEntry(e)
      \/ \E x \in FillsThereAre : AddFill(x)
      \/ \E x \in fills : RemoveFill(x)
      \/ UNCHANGED <<purchases, fills>>
  BY DEF OfficeNext, BulkSync, BeginPatch, CommitPatch, DeleteObservation
<1> QED BY <1>1, <1>2, <1>3, <1>4, <1>5, <1>6

LEMMA OfficeTypedNext ==
    OfficeTyped /\ MarketTyped /\ [Next]_vars => OfficeTyped' /\ MarketTyped'
<1> SUFFICES ASSUME OfficeTyped, MarketTyped, [Next]_vars PROVE OfficeTyped' /\ MarketTyped'
  OBVIOUS
<1>1. CASE OfficeNext
  BY <1>1, OfficeStep, MarketStep
<1>2. CASE UNCHANGED officeVars
  <2>1. (\A x \in fills : FillsAllowed(x)) /\ fills' = fills /\ purchases' = purchases
        /\ observations' = observations /\ corrections' = corrections /\ crossed' = crossed
    BY <1>2 DEF officeVars, patchVars, OfficeTyped
  <2>2. OfficeTyped'
    BY <2>1 DEF OfficeTyped
  <2>3. MarketTyped'
    BY <2>1 DEF MarketTyped, Stored, IsCorrection
  <2> QED BY <2>2, <2>3
<1> QED BY <1>1, <1>2 DEF Next, vars

-----------------------------------------------------------------------------
(* Columns of rows.                                                        *)

(* What a set is mapped to is no larger than the set. *)
LEMMA ImageIsFinite ==
    ASSUME NEW S, IsFiniteSet(S), NEW f
    PROVE  IsFiniteSet({f[x] : x \in S})
<1> DEFINE T == {f[x] : x \in S}
           h == [x \in S |-> f[x]]
<1>1. h \in Surjection(S, T)
  BY DEF Surjection
<1> QED BY <1>1, FS_Surjection

LEMMA ValuesAreFinite ==
    ASSUME NEW S, IsFiniteSet(S), NEW field
    PROVE  IsFiniteSet(Values(S, field))
<1> DEFINE f == [x \in S |-> x[field]]
<1>1. IsFiniteSet({f[x] : x \in S})
  BY ImageIsFinite
<1>2. {f[x] : x \in S} = Values(S, field)
  BY DEF Values
<1> QED BY <1>1, <1>2

(* A column of some of the rows adds up to what the column does there. *)
LEMMA SumOfPart ==
    ASSUME NEW f, NEW R, IsFiniteSet(R), NEW g, DOMAIN g = R,
           \A x \in R : f[x] \in Int /\ g[x] = f[x]
    PROVE  SumFunction(g) = SumFunctionOnSet(f, R)
BY SumIsOf DEF SumFunction

(* f is a column of numbers of rows whose field is in L, and g has for     *)
(* each of these what the column adds up to.                               *)
Numbers(f, S, field, L) == \A x \in S : f[x] \in Int /\ x[field] \in L
AddsUp(g, f, S, field, L) == \A l \in L : g[l] = SumFunctionOnSet(f, Group(S, field, l))

LEMMA SumByField ==
    ASSUME NEW f, NEW S, IsFiniteSet(S), NEW field, NEW L, IsFiniteSet(L),
           Numbers(f, S, field, L), NEW g, AddsUp(g, f, S, field, L)
    PROVE  SumFunctionOnSet(g, L) = SumFunctionOnSet(f, S)
<1> DEFINE key == [x \in S |-> x[field]]
<1>1. \A x \in S : f[x] \in Int /\ key[x] \in L
  BY DEF Numbers
<1>2. ASSUME NEW l \in L PROVE g[l] = SumFunctionOnSet(f, Keyed(S, key, l))
  <2>1. Keyed(S, key, l) = Group(S, field, l)
    BY DEF Group, Keyed
  <2> QED BY <2>1 DEF AddsUp
<1> HIDE DEF key
<1> QED BY <1>1, <1>2, SumOfGroups

LEMMA GroupIsPart ==
    ASSUME NEW S, IsFiniteSet(S), NEW field, NEW l
    PROVE  Group(S, field, l) \subseteq S /\ IsFiniteSet(Group(S, field, l))
BY FS_Subset DEF Group

(* The columns the figures are made of. *)
SchwIn(S) == [e \in S |-> e.weight * e.heads]
CostIn(S) == [e \in S |-> e.price * e.heads]
HeadsIn(S) == [e \in S |-> e.heads]

AreEntries(S) == IsFiniteSet(S) /\ \A e \in S : IsEntry(e)

LEMMA ColumnsAreNumbers ==
    ASSUME NEW S, AreEntries(S), NEW e \in S
    PROVE  SchwIn(S)[e] \in Int /\ CostIn(S)[e] \in Int /\ HeadsIn(S)[e] \in Int
<1>1. e.weight \in Int /\ e.price \in Int /\ e.heads \in Int
  BY DEF AreEntries, IsEntry
<1> QED BY <1>1 DEF SchwIn, CostIn, HeadsIn

LEMMA FiguresOfPart ==
    ASSUME NEW S, AreEntries(S), NEW R, R \subseteq S
    PROVE  /\ SchwKg(R) = SumFunctionOnSet(SchwIn(S), R)
           /\ Cost(R) = SumFunctionOnSet(CostIn(S), R)
           /\ Total(R, "heads") = SumFunctionOnSet(HeadsIn(S), R)
<1>0. IsFiniteSet(R) /\ \A e \in R : e \in S
  BY FS_Subset DEF AreEntries
<1>1. SchwKg(R) = SumFunctionOnSet(SchwIn(S), R)
  <2> DEFINE g == [e \in R |-> e.weight * e.heads]
  <2>1. \A e \in R : SchwIn(S)[e] \in Int /\ g[e] = SchwIn(S)[e]
    BY <1>0, ColumnsAreNumbers DEF SchwIn
  <2>2. DOMAIN g = R
    OBVIOUS
  <2> HIDE DEF g
  <2> QED BY <1>0, <2>1, <2>2, SumOfPart DEF SchwKg, g
<1>2. Cost(R) = SumFunctionOnSet(CostIn(S), R)
  <2> DEFINE g == [e \in R |-> e.price * e.heads]
  <2>1. \A e \in R : CostIn(S)[e] \in Int /\ g[e] = CostIn(S)[e]
    BY <1>0, ColumnsAreNumbers DEF CostIn
  <2>2. DOMAIN g = R
    OBVIOUS
  <2> HIDE DEF g
  <2> QED BY <1>0, <2>1, <2>2, SumOfPart DEF Cost, g
<1>3. Total(R, "heads") = SumFunctionOnSet(HeadsIn(S), R)
  <2> DEFINE g == [e \in R |-> e["heads"]]
  <2>1. \A e \in R : HeadsIn(S)[e] \in Int /\ g[e] = HeadsIn(S)[e]
    BY <1>0, ColumnsAreNumbers DEF HeadsIn
  <2>2. DOMAIN g = R
    OBVIOUS
  <2> HIDE DEF g
  <2> QED BY <1>0, <2>1, <2>2, SumOfPart DEF Total, g
<1> QED BY <1>1, <1>2, <1>3

(* g has a figure of each group. *)
SchwBy(g, R, field, L) == \A l \in L : g[l] = SchwKg(Group(R, field, l))
CostBy(g, R, field, L) == \A l \in L : g[l] = Cost(Group(R, field, l))
HeadsBy(g, R, field, L) == \A l \in L : g[l] = Total(Group(R, field, l), "heads")
Within(R, field, L) == \A e \in R : e[field] \in L

(* The figures of the groups of some entries are, together, theirs. *)
LEMMA FiguresByField ==
    ASSUME NEW S, AreEntries(S), NEW R, R \subseteq S, NEW field, NEW L, IsFiniteSet(L),
           Within(R, field, L), NEW g
    PROVE  /\ SchwBy(g, R, field, L) => SumFunctionOnSet(g, L) = SchwKg(R)
           /\ CostBy(g, R, field, L) => SumFunctionOnSet(g, L) = Cost(R)
           /\ HeadsBy(g, R, field, L) => SumFunctionOnSet(g, L) = Total(R, "heads")
<1>0. IsFiniteSet(R) /\ \A l \in L : Group(R, field, l) \subseteq S
  BY FS_Subset DEF AreEntries, Group
<1>1. \A e \in R : SchwIn(S)[e] \in Int /\ CostIn(S)[e] \in Int /\ HeadsIn(S)[e] \in Int
  BY ColumnsAreNumbers
<1>2. \A l \in L :
          /\ SchwKg(Group(R, field, l)) = SumFunctionOnSet(SchwIn(S), Group(R, field, l))
          /\ Cost(Group(R, field, l)) = SumFunctionOnSet(CostIn(S), Group(R, field, l))
          /\ Total(Group(R, field, l), "heads") = SumFunctionOnSet(HeadsIn(S), Group(R, field, l))
  BY <1>0, FiguresOfPart
<1>3. ASSUME SchwBy(g, R, field, L)
      PROVE  SumFunctionOnSet(g, L) = SchwKg(R)
  <2>1. AddsUp(g, SchwIn(S), R, field, L)
    BY <1>2, <1>3 DEF AddsUp, SchwBy
  <2>2. Numbers(SchwIn(S), R, field, L)
    BY <1>1 DEF Numbers, Within
  <2>3. SumFunctionOnSet(g, L) = SumFunctionOnSet(SchwIn(S), R)
    BY <1>0, <2>1, <2>2, SumByField
  <2> QED BY <2>3, FiguresOfPart
<1>4. ASSUME CostBy(g, R, field, L)
      PROVE  SumFunctionOnSet(g, L) = Cost(R)
  <2>1. AddsUp(g, CostIn(S), R, field, L)
    BY <1>2, <1>4 DEF AddsUp, CostBy
  <2>2. Numbers(CostIn(S), R, field, L)
    BY <1>1 DEF Numbers, Within
  <2>3. SumFunctionOnSet(g, L) = SumFunctionOnSet(CostIn(S), R)
    BY <1>0, <2>1, <2>2, SumByField
  <2> QED BY <2>3, FiguresOfPart
<1>5. ASSUME HeadsBy(g, R, field, L)
      PROVE  SumFunctionOnSet(g, L) = Total(R, "heads")
  <2>1. AddsUp(g, HeadsIn(S), R, field, L)
    BY <1>2, <1>5 DEF AddsUp, HeadsBy
  <2>2. Numbers(HeadsIn(S), R, field, L)
    BY <1>1 DEF Numbers, Within
  <2>3. SumFunctionOnSet(g, L) = SumFunctionOnSet(HeadsIn(S), R)
    BY <1>0, <2>1, <2>2, SumByField
  <2> QED BY <2>3, FiguresOfPart
<1> QED BY <1>3, <1>4, <1>5

-----------------------------------------------------------------------------
(* Purchases.                                                              *)

(* What was bought from one day to another. *)
Between(entries, first, last) ==
    {e \in entries : ~e.deleted /\ e.day >= first /\ e.day <= last}

LEMMA MatchesDays ==
    ASSUME NEW e, NEW first, NEW last, NEW b
    PROVE  /\ Matches(e, [since |-> first, until |-> last]) <=> e.day >= first /\ e.day <= last
           /\ Matches(e, [buyer |-> b, since |-> first, until |-> last])
                  <=> e.buyer = b /\ e.day >= first /\ e.day <= last
<1>1. DOMAIN [since |-> first, until |-> last] = {"since", "until"}
      /\ DOMAIN [buyer |-> b, since |-> first, until |-> last] = {"buyer", "since", "until"}
  OBVIOUS
<1>2. Matches(e, [since |-> first, until |-> last]) <=> e.day >= first /\ e.day <= last
  BY <1>1 DEF Matches
<1>3. Matches(e, [buyer |-> b, since |-> first, until |-> last])
          <=> e.buyer = b /\ e.day >= first /\ e.day <= last
  BY <1>1 DEF Matches
<1> QED BY <1>2, <1>3

(* The queries of the dashboard, of a scorecard and of a reconciliation    *)
(* find the same rows.                                                     *)
LEMMA QueriesFind ==
    ASSUME NEW entries, NEW first, NEW last, NEW b
    PROVE  /\ ListOrgBuyEntries(entries, [since |-> first, until |-> last])
              = Between(entries, first, last)
           /\ ListOrgBuyEntries(entries, [buyer |-> b, since |-> first, until |-> last])
              = Group(Between(entries, first, last), "buyer", b)
           /\ ListEntriesInWindow(entries, [since |-> first, until |-> last])
              = Between(entries, first, last)
<1>1. ListOrgBuyEntries(entries, [since |-> first, until |-> last])
      = Between(entries, first, last)
  BY MatchesDays DEF ListOrgBuyEntries, Between
<1>2. ListOrgBuyEntries(entries, [buyer |-> b, since |-> first, until |-> last])
      = Group(Between(entries, first, last), "buyer", b)
  BY MatchesDays DEF ListOrgBuyEntries, Between, Group
<1>3. ListEntriesInWindow(entries, [since |-> first, until |-> last])
      = Between(entries, first, last)
  BY DEF ListEntriesInWindow, Between
<1> QED BY <1>1, <1>2, <1>3

LEMMA PurchasesAreEntries ==
    ASSUME OfficeTyped
    PROVE  AreEntries(purchases) /\ \A R \in SUBSET purchases : AreEntries(R)
BY FS_Subset DEF OfficeTyped, AreEntries

(* A figure of a function of sums. *)
LEMMA SumOver ==
    ASSUME NEW f, NEW L, DOMAIN f = L
    PROVE  SumFunction(f) = SumFunctionOnSet(f, L)
BY DEF SumFunction

(* The scorecards of the buyers, together. *)
CardOf(b, first, last) == BuildScorecard(purchases, Published, b, first, last, None)

LEMMA CardsAddUp ==
    ASSUME OfficeTyped, NEW first, NEW last
    PROVE  LET found == Between(purchases, first, last)
           IN  /\ SumFunction([b \in Buyers |-> CardOf(b, first, last).heads])
                  = Total(found, "heads")
               /\ SumFunction([b \in Buyers |-> SumFunction(CardOf(b, first, last).spend)])
                  = Cost(found)
<1> DEFINE found == Between(purchases, first, last)
           of(b) == Group(found, "buyer", b)
<1>1. AreEntries(purchases) /\ found \subseteq purchases /\ AreEntries(found)
      /\ IsFiniteSet(Buyers) /\ Within(found, "buyer", Buyers)
  <2>1. found \subseteq purchases
    BY DEF Between
  <2>2. AreEntries(purchases) /\ AreEntries(found)
    BY <2>1, PurchasesAreEntries
  <2> QED BY <2>1, <2>2, OfficeAssumption DEF AreEntries, IsEntry, Within
<1>2. ASSUME NEW b \in Buyers
      PROVE  /\ CardOf(b, first, last).heads = Total(of(b), "heads")
             /\ CardOf(b, first, last).spend
                = [y \in Values(of(b), "saleyard") |-> Cost(Group(of(b), "saleyard", y))]
  <2> DEFINE mine == ListOrgBuyEntries(purchases,
                         [buyer |-> b, since |-> first, until |-> last])
  <2>1. mine = of(b)
    BY QueriesFind
  <2> HIDE DEF mine
  <2>2. /\ CardOf(b, first, last).heads = Total(mine, "heads")
        /\ CardOf(b, first, last).spend
           = [y \in Values(mine, "saleyard") |-> Cost(Group(mine, "saleyard", y))]
    BY DEF CardOf, BuildScorecard, mine
  <2> QED BY <2>1, <2>2
<1>3. ASSUME NEW b \in Buyers
      PROVE  SumFunction(CardOf(b, first, last).spend) = Cost(of(b))
  <2> DEFINE g == CardOf(b, first, last).spend
             L == Values(of(b), "saleyard")
  <2>1. of(b) \subseteq found /\ IsFiniteSet(of(b))
    BY <1>1, GroupIsPart DEF AreEntries
  <2>2. IsFiniteSet(L) /\ Within(of(b), "saleyard", L)
    BY <2>1, ValuesAreFinite DEF Values, Within
  <2>3. DOMAIN g = L /\ CostBy(g, of(b), "saleyard", L)
    BY <1>2 DEF CostBy
  <2> HIDE DEF g, L, of, found
  <2>4. SumFunctionOnSet(g, L) = Cost(of(b))
    BY <1>1, <2>1, <2>2, <2>3, FiguresByField
  <2> QED BY <2>3, <2>4, SumOver DEF g
<1> DEFINE n == [b \in Buyers |-> CardOf(b, first, last).heads]
           c == [b \in Buyers |-> SumFunction(CardOf(b, first, last).spend)]
<1>4. DOMAIN n = Buyers /\ DOMAIN c = Buyers
  OBVIOUS
<1>5. HeadsBy(n, found, "buyer", Buyers) /\ CostBy(c, found, "buyer", Buyers)
  BY <1>2, <1>3 DEF HeadsBy, CostBy
<1> HIDE DEF n, c, found
<1>6. /\ SumFunctionOnSet(n, Buyers) = Total(found, "heads")
      /\ SumFunctionOnSet(c, Buyers) = Cost(found)
  BY <1>1, <1>5, FiguresByField
<1>7. /\ SumFunction(n) = Total(found, "heads")
      /\ SumFunction(c) = Cost(found)
  BY <1>4, <1>6, SumOver
<1> QED BY <1>7 DEF n, c, found

(* What the dashboard has of a buyer is what his scorecard has, and it     *)
(* shows the saleyards that scorecards do.                                 *)
LEMMA PerformanceIs ==
    ASSUME OfficeTyped, NEW first, NEW last
    PROVE  LET all == BuyerPerformance(purchases, [since |-> first, until |-> last])
               yards == Values(Between(purchases, first, last), "saleyard")
           IN  /\ \A b \in DOMAIN all.byBuyer :
                      /\ all.byBuyer[b].headroom = CardOf(b, first, last).headroom
                      /\ all.byBuyer[b].breaches = CardOf(b, first, last).breaches
               /\ DOMAIN all.bySaleyard = yards
               /\ UNION {DOMAIN CardOf(b, first, last).spend : b \in Buyers} = yards
<1> DEFINE found == Between(purchases, first, last)
           listed == ListOrgBuyEntries(purchases, [since |-> first, until |-> last])
           mine(b) == ListOrgBuyEntries(purchases,
                          [buyer |-> b, since |-> first, until |-> last])
           all == BuyerPerformance(purchases, [since |-> first, until |-> last])
<1>1. listed = found /\ \A b : mine(b) = Group(found, "buyer", b)
  BY QueriesFind
<1>2. /\ all.byBuyer = [b \in Values(listed, "buyer") |->
             [count |-> Cardinality(Group(listed, "buyer", b)),
              headroom |-> HeadroomCaptured(Group(listed, "buyer", b)),
              breaches |-> BreachCount(Group(listed, "buyer", b))]]
      /\ DOMAIN all.bySaleyard = Values(listed, "saleyard")
  BY DEF BuyerPerformance
<1>3. ASSUME NEW b
      PROVE  /\ CardOf(b, first, last).headroom = HeadroomCaptured(mine(b))
             /\ CardOf(b, first, last).breaches = BreachCount(mine(b))
             /\ DOMAIN CardOf(b, first, last).spend = Values(mine(b), "saleyard")
  BY DEF CardOf, BuildScorecard
<1> HIDE DEF all, listed, mine
<1>4. \A b \in DOMAIN all.byBuyer :
          /\ all.byBuyer[b].headroom = CardOf(b, first, last).headroom
          /\ all.byBuyer[b].breaches = CardOf(b, first, last).breaches
  BY <1>1, <1>2, <1>3
<1>5. UNION {DOMAIN CardOf(b, first, last).spend : b \in Buyers} = Values(found, "saleyard")
  <2>1. \A e \in found : e.buyer \in Buyers
    BY DEF Between, OfficeTyped, IsEntry
  <2>2. \A b : DOMAIN CardOf(b, first, last).spend = Values(Group(found, "buyer", b), "saleyard")
    BY <1>1, <1>3
  <2> HIDE DEF found
  <2> QED BY <2>1, <2>2 DEF Values, Group
<1> QED BY <1>1, <1>2, <1>4, <1>5 DEF all

(* A reconciliation, by saleyard. *)
LEMMA ReconciliationAddsUp ==
    ASSUME OfficeTyped, NEW i, NEW first, NEW last,
           TradingWeek(i.day) = [since |-> first, until |-> last]
    PROVE  LET found == Between(purchases, first, last)
               r == ComputeReconciliation(i, purchases)
           IN  /\ r.boughtSchw = SchwKg(found)
               /\ r.actualHeads = Total(found, "heads")
               /\ r.actualCost = Cost(found)
               /\ DOMAIN r.rows = Values(found, "saleyard")
<1> DEFINE found == Between(purchases, first, last)
           listed == ListEntriesInWindow(purchases, TradingWeek(i.day))
           r == ComputeReconciliation(i, purchases)
           Y == Values(found, "saleyard")
           row(y) == [schw |-> SchwKg(Group(found, "saleyard", y)),
                      heads |-> Total(Group(found, "saleyard", y), "heads"),
                      cost |-> Cost(Group(found, "saleyard", y))]
           s == [y \in Y |-> row(y)["schw"]]
           h == [y \in Y |-> row(y)["heads"]]
           c == [y \in Y |-> row(y)["cost"]]
<1>1. AreEntries(purchases) /\ found \subseteq purchases /\ AreEntries(found)
  <2>1. found \subseteq purchases
    BY DEF Between
  <2> QED BY <2>1, PurchasesAreEntries
<1>2. listed = found
  BY QueriesFind
<1>3. r.boughtSchw = SumFunction(s) /\ r.actualHeads = SumFunction(h)
      /\ r.actualCost = SumFunction(c)
  <2> DEFINE rows == [y \in Values(listed, "saleyard") |->
                         [schw |-> SchwKg(Group(listed, "saleyard", y)),
                          heads |-> Total(Group(listed, "saleyard", y), "heads"),
                          cost |-> Cost(Group(listed, "saleyard", y))]]
  <2>1. /\ r.boughtSchw = SumFunction([y \in DOMAIN rows |-> rows[y]["schw"]])
        /\ r.actualHeads = SumFunction([y \in DOMAIN rows |-> rows[y]["heads"]])
        /\ r.actualCost = SumFunction([y \in DOMAIN rows |-> rows[y]["cost"]])
    BY DEF ComputeReconciliation
  <2>2. DOMAIN rows = Y /\ \A y \in Y : rows[y] = row(y)
    BY <1>2
  <2> HIDE DEF rows, r
  <2>3. /\ [y \in DOMAIN rows |-> rows[y]["schw"]] = s
        /\ [y \in DOMAIN rows |-> rows[y]["heads"]] = h
        /\ [y \in DOMAIN rows |-> rows[y]["cost"]] = c
    BY <2>2
  <2> QED BY <2>1, <2>3
<1>4. IsFiniteSet(Y) /\ Within(found, "saleyard", Y)
  BY <1>1, ValuesAreFinite DEF AreEntries, Within, Values
<1>5. /\ SchwBy(s, found, "saleyard", Y) /\ HeadsBy(h, found, "saleyard", Y)
      /\ CostBy(c, found, "saleyard", Y)
  BY DEF SchwBy, HeadsBy, CostBy
<1>6. DOMAIN s = Y /\ DOMAIN h = Y /\ DOMAIN c = Y
  OBVIOUS
<1>9. DOMAIN r.rows = Y
  <2>1. DOMAIN r.rows = Values(listed, "saleyard")
    BY DEF ComputeReconciliation
  <2> HIDE DEF r, listed, found
  <2> QED BY <1>2, <2>1
<1> HIDE DEF s, h, c, found, Y, r
<1>7. /\ SumFunctionOnSet(s, Y) = SchwKg(found)
      /\ SumFunctionOnSet(h, Y) = Total(found, "heads")
      /\ SumFunctionOnSet(c, Y) = Cost(found)
  BY <1>1, <1>4, <1>5, FiguresByField
<1>8. /\ SumFunction(s) = SchwKg(found) /\ SumFunction(h) = Total(found, "heads")
      /\ SumFunction(c) = Cost(found)
  BY <1>6, <1>7, SumOver
<1> QED BY <1>3, <1>8, <1>9 DEF found, r, Y

(* What was bought, by trade date. *)
LEMMA FulfilmentAddsUp ==
    ASSUME OfficeTyped, NEW first, NEW last
    PROVE  LET days == Fulfilment(Instructions, purchases, [since |-> first, until |-> last])
           IN  SumFunction([d \in DOMAIN days |-> days[d].bought])
               = SchwKg(Between(purchases, first, last))
<1> DEFINE week == [since |-> first, until |-> last]
           found == Between(purchases, first, last)
           instructed == {i \in Instructions : Matches(i, week)}
           days == Fulfilment(Instructions, purchases, week)
           L == Values(found, "day") \cup Values(instructed, "day")
           g == [d \in DOMAIN days |-> days[d].bought]
<1>1. AreEntries(purchases) /\ found \subseteq purchases /\ AreEntries(found)
  <2>1. found \subseteq purchases
    BY DEF Between
  <2> QED BY <2>1, PurchasesAreEntries
<1>2. IsFiniteSet(L) /\ Within(found, "day", L)
  <2>1. IsFiniteSet(Instructions)
    BY OfficeAssumption
  <2>2. IsFiniteSet(instructed)
    BY <2>1, FS_Subset
  <2> HIDE DEF instructed
  <2>3. IsFiniteSet(Values(found, "day")) /\ IsFiniteSet(Values(instructed, "day"))
    BY <1>1, <2>2, ValuesAreFinite DEF AreEntries
  <2>4. IsFiniteSet(L)
    BY <2>3, FS_Union
  <2>5. Within(found, "day", L)
    BY DEF Within, Values
  <2> QED BY <2>4, <2>5
<1>3. DOMAIN days = L /\ \A d \in L : days[d].bought = SchwKg(Group(found, "day", d))
  <2> DEFINE listed == ListOrgBuyEntries(purchases, week)
  <2>1. listed = found
    BY QueriesFind
  <2>2. /\ DOMAIN days = Values(listed, "day") \cup Values(instructed, "day")
        /\ \A d \in DOMAIN days : days[d].bought = SchwKg(Group(listed, "day", d))
    BY DEF Fulfilment
  <2> HIDE DEF listed, days, found, instructed
  <2> QED BY <2>1, <2>2
<1> HIDE DEF days, found, L
<1>4. SchwBy(g, found, "day", L) /\ DOMAIN g = L
  BY <1>3 DEF SchwBy
<1> HIDE DEF g
<1>5. SumFunctionOnSet(g, L) = SchwKg(found)
  BY <1>1, <1>2, <1>4, FiguresByField
<1>6. SumFunction(g) = SchwKg(found)
  BY <1>4, <1>5, SumOver
<1> QED BY <1>6 DEF g, days, found

LEMMA PurchasesInAgreement == OfficeTyped => PurchasesAgree
<1> SUFFICES ASSUME OfficeTyped PROVE PurchasesAgree
  OBVIOUS
<1> DEFINE first == Today - (Today % 7)
           last == Today - (Today % 7) + 6
           found == Between(purchases, first, last)
           all == BuyerPerformance(purchases, Week)
           card == [b \in Buyers |->
                       BuildScorecard(purchases, Published, b, Week.since, Week.until, None)]
           days == Fulfilment(Instructions, purchases, Week)
           yards == UNION {DOMAIN card[b].spend : b \in Buyers}
<1>1. Week = [since |-> first, until |-> last] /\ Week.since = first /\ Week.until = last
  BY DEF Week
<1>2. TradingWeek(Today) = Week
  BY DEF Week, TradingWeek
<1> HIDE DEF first, last
<1>c. \A b \in Buyers : card[b] = CardOf(b, first, last)
  BY <1>1 DEF CardOf
<1>d. card = [b \in Buyers |-> card[b]]
  OBVIOUS
<1> HIDE DEF card
<1>3. /\ SumFunction([b \in Buyers |-> card[b].heads]) = Total(found, "heads")
      /\ SumFunction([b \in Buyers |-> SumFunction(card[b].spend)]) = Cost(found)
  <2>1. /\ [b \in Buyers |-> card[b].heads]
           = [b \in Buyers |-> CardOf(b, first, last).heads]
        /\ [b \in Buyers |-> SumFunction(card[b].spend)]
           = [b \in Buyers |-> SumFunction(CardOf(b, first, last).spend)]
    BY <1>c
  <2> HIDE DEF found
  <2> QED BY <2>1, CardsAddUp DEF found
<1>4. /\ \A b \in DOMAIN all.byBuyer : /\ all.byBuyer[b].headroom = card[b].headroom
                                      /\ all.byBuyer[b].breaches = card[b].breaches
      /\ DOMAIN all.bySaleyard = Values(found, "saleyard") /\ yards = Values(found, "saleyard")
  <2>1. DOMAIN all.byBuyer \subseteq Buyers
    <3> DEFINE listed == ListOrgBuyEntries(purchases, Week)
    <3>1. DOMAIN all.byBuyer = Values(listed, "buyer") /\ listed \subseteq purchases
      BY DEF BuyerPerformance, ListOrgBuyEntries
    <3> QED BY <3>1 DEF Values, OfficeTyped, IsEntry
  <2>2. {DOMAIN card[b].spend : b \in Buyers}
        = {DOMAIN CardOf(b, first, last).spend : b \in Buyers}
    BY <1>c
  <2> QED BY <1>1, <1>c, <2>1, <2>2, PerformanceIs
<1>5. SumFunction([d \in DOMAIN days |-> days[d].bought]) = SchwKg(found)
  BY <1>1, FulfilmentAddsUp
<1>6. ASSUME NEW i \in Instructions, TradingWeek(i.day) = TradingWeek(Today)
      PROVE  LET r == ComputeReconciliation(i, purchases)
             IN  /\ DOMAIN r.rows = yards
                 /\ r.boughtSchw = SumFunction([d \in DOMAIN days |-> days[d].bought])
                 /\ r.actualHeads = SumFunction([b \in Buyers |-> card[b].heads])
                 /\ r.actualCost = SumFunction([b \in Buyers |-> SumFunction(card[b].spend)])
  <2>1. TradingWeek(i.day) = [since |-> first, until |-> last]
    BY <1>1, <1>2, <1>6
  <2> HIDE DEF found, days, yards
  <2>2. /\ ComputeReconciliation(i, purchases).boughtSchw = SchwKg(found)
        /\ ComputeReconciliation(i, purchases).actualHeads = Total(found, "heads")
        /\ ComputeReconciliation(i, purchases).actualCost = Cost(found)
        /\ DOMAIN ComputeReconciliation(i, purchases).rows = Values(found, "saleyard")
    BY <2>1, ReconciliationAddsUp DEF found
  <2> QED BY <1>3, <1>4, <1>5, <2>2
<1> HIDE DEF found
<1> QED BY <1>4, <1>6 DEF PurchasesAgree, card

-----------------------------------------------------------------------------
(* The order book.                                                         *)

BookLine == [no : Nat, row : Row, lifecycle : {"ACTIVE", "LOADED"}]

LEMMA BookIsFinite ==
    ASSUME Latest # 0, LinesOf(Latest) \in Seq(StoredLine)
    PROVE  /\ LatestBook.lines \in SUBSET BookLine /\ IsFiniteSet(LatestBook.lines)
           /\ LatestBook # None
<1> DEFINE lines == LinesOf(Latest)
           n == Len(lines)
           f == [i \in 1..n |-> [no |-> i, row |-> lines[i].row, lifecycle |-> lines[i].lifecycle]]
<1>1. LatestBook = [lines |-> {f[i] : i \in 1..n}]
  BY DEF LatestBook
<1>2. n \in Nat /\ \A i \in 1..n : lines[i] \in StoredLine
  OBVIOUS
<1>3. \A i \in 1..n : f[i] \in BookLine
  BY <1>2 DEF StoredLine, BookLine
<1>4. IsFiniteSet(1..n)
  BY <1>2, FS_Interval
<1> HIDE DEF f, n, lines
<1>5. IsFiniteSet({f[i] : i \in 1..n})
  BY <1>4, ImageIsFinite
<1>6. LatestBook.lines \in SUBSET BookLine /\ LatestBook \in Book
  BY <1>1, <1>3 DEF Book, BookLine
<1> QED BY <1>1, <1>5, <1>6, RowsAreNotNull

SpeciesOf(l) == IF l.row.species = None THEN "UNKNOWN" ELSE l.row.species

(* What the panel shows of a book. *)
Active == {l \in LatestBook.lines : l.lifecycle = "ACTIVE"}
Alive == {e \in purchases : ~e.deleted}
Panel == OrderBookPanel(LatestBook, purchases, Today, None)

LEMMA PanelIs ==
    ASSUME LatestBook # None
    PROVE  LET shown == {SpeciesOf(l) : l \in Active} \cup Values(Alive, "species")
           IN  /\ DOMAIN Panel.bySpecies = shown
               /\ \A s \in shown :
                      Panel.bySpecies[s].bought = Total(Group(Alive, "species", s), "heads")
<1> DEFINE bought == ListOrgBuyEntries(purchases, << >>)
           shown == {SpeciesOf(l) : l \in Active} \cup Values(bought, "species")
<1>1. bought = Alive
  <2>1. DOMAIN << >> = {}
    OBVIOUS
  <2>2. \A e : Matches(e, << >>)
    BY <2>1 DEF Matches
  <2> QED BY <2>2 DEF ListOrgBuyEntries, Alive
<1>2. /\ DOMAIN Panel.bySpecies = shown
      /\ \A s \in shown :
             Panel.bySpecies[s].bought = Total(Group(bought, "species", s), "heads")
  BY DEF Panel, OrderBookPanel, Active, SpeciesOf
<1> QED BY <1>1, <1>2

LEMMA BookInAgreement ==
    ASSUME OfficeTyped, Latest # 0, LinesOf(Latest) \in Seq(StoredLine)
    PROVE  BookAgrees
<1> DEFINE top == Overview(Panel, purchases, Week)
           shown == {SpeciesOf(l) : l \in Active} \cup Values(Alive, "species")
           species == [l \in Active |-> SpeciesOf(l)]
           bought == [s \in DOMAIN Panel.bySpecies |-> Panel.bySpecies[s].bought]
<1>1. /\ LatestBook.lines \in SUBSET BookLine /\ IsFiniteSet(LatestBook.lines)
      /\ LatestBook # None
  BY BookIsFinite
<1>2. Active \subseteq BookLine /\ IsFiniteSet(Active)
  BY <1>1, FS_Subset DEF Active
<1>3. AreEntries(Alive) /\ Alive \subseteq purchases /\ AreEntries(purchases)
  BY PurchasesAreEntries DEF Alive
<1>4. IsFiniteSet(shown)
  <2>1. IsFiniteSet({species[l] : l \in Active})
    BY <1>2, ImageIsFinite
  <2>2. {species[l] : l \in Active} = {SpeciesOf(l) : l \in Active}
    OBVIOUS
  <2>3. IsFiniteSet(Values(Alive, "species"))
    BY <1>3, ValuesAreFinite DEF AreEntries
  <2> QED BY <2>1, <2>2, <2>3, FS_Union
<1>5. /\ DOMAIN Panel.bySpecies = shown
      /\ \A s \in shown : Panel.bySpecies[s].bought = Total(Group(Alive, "species", s), "heads")
  BY <1>1, PanelIs
<1>6. top.bought = SumFunction(bought)
  BY <1>5 DEF Overview
<1>7. SumFunction(bought) = Total(Alive, "heads")
  <2>1. DOMAIN bought = shown /\ HeadsBy(bought, Alive, "species", shown)
    BY <1>5 DEF HeadsBy
  <2>2. Within(Alive, "species", shown)
    BY DEF Within, Values
  <2> HIDE DEF bought, shown
  <2>3. SumFunctionOnSet(bought, shown) = Total(Alive, "heads")
    BY <1>3, <1>4, <2>1, <2>2, FiguresByField
  <2> QED BY <2>1, <2>3, SumOver
<1>8. ASSUME NEW first \in Values(purchases, "day"), NEW last \in Values(purchases, "day"),
              \A d \in Values(purchases, "day") : first <= d /\ d <= last
       PROVE  Total(Alive, "heads")
              = SumFunction([b \in Buyers |->
                    BuildScorecard(purchases, Published, b, first, last, None).heads])
  <2>1. \A e \in purchases : e.day \in Int /\ e.day \in Values(purchases, "day")
    BY <1>3 DEF AreEntries, IsEntry, Values
  <2>2. first \in Int /\ last \in Int
    BY <2>1 DEF Values
  <2>3. Between(purchases, first, last) = Alive
    BY <1>8, <2>1, <2>2 DEF Between, Alive
  <2>4. SumFunction([b \in Buyers |-> CardOf(b, first, last).heads]) = Total(Alive, "heads")
    BY <2>3, CardsAddUp
  <2> QED BY <2>4 DEF CardOf
<1> HIDE DEF top, bought
<1> QED BY <1>6, <1>7, <1>8 DEF BookAgrees, top, Panel

-----------------------------------------------------------------------------
(* Fills.                                                                  *)

FillsOf(l) == {x \in fills : x.line = l.seq}
ExportLine(l) == [seq |-> l.seq, fills |-> FillsOf(l), balance |-> LineBalance(l, FillsOf(l))]

(* The fills of an instruction's lines, together. *)
LEMMA FillsAddUp ==
    ASSUME OfficeTyped, NEW i \in Instructions, NEW filled,
           filled = {x \in fills : \E l \in i.lines : x.line = l.seq},
           NEW m, \A l \in i.lines : m[l] = Total(FillsOf(l), "kg")
    PROVE  /\ SumFunctionOnSet(m, i.lines) = Total(filled, "kg")
           /\ \A l \in i.lines : m[l] \in Int
<1> DEFINE f == [x \in filled |-> x["kg"]]
           key == [x \in filled |-> CHOOSE l \in i.lines : l.seq = x.line]
<1>1. IsFiniteSet(filled) /\ IsFiniteSet(i.lines)
  BY OfficeAssumption, FS_Subset DEF OfficeTyped
<1>2. \A x \in filled : f[x] \in Int /\ key[x] \in i.lines /\ key[x].seq = x.line
  <2>1. \A x \in filled : x.kg \in Int
    BY OfficeAssumption DEF OfficeTyped
  <2>2. \A x \in filled : \E l \in i.lines : l.seq = x.line
    OBVIOUS
  <2> QED BY <2>1, <2>2
<1>3. ASSUME NEW l \in i.lines
      PROVE  m[l] = SumFunctionOnSet(f, Keyed(filled, key, l)) /\ m[l] \in Int
  <2>1. Keyed(filled, key, l) = FillsOf(l)
    <3>1. \A k \in i.lines : k.seq = l.seq => k = l
      BY OfficeAssumption
    <3>2. Keyed(filled, key, l) \subseteq FillsOf(l)
      BY <1>2 DEF Keyed, FillsOf
    <3>3. FillsOf(l) \subseteq Keyed(filled, key, l)
      BY <1>2, <3>1 DEF Keyed, FillsOf
    <3> QED BY <3>2, <3>3
  <2>2. FillsOf(l) \subseteq filled /\ IsFiniteSet(FillsOf(l))
    <3>1. FillsOf(l) \subseteq filled
      BY DEF FillsOf
    <3> QED BY <1>1, <3>1, FS_Subset
  <2> DEFINE g == [x \in FillsOf(l) |-> x["kg"]]
  <2>3. DOMAIN g = FillsOf(l) /\ \A x \in FillsOf(l) : f[x] \in Int /\ g[x] = f[x]
    BY <1>2, <2>2
  <2> HIDE DEF f, g
  <2>4. SumFunction(g) = SumFunctionOnSet(f, FillsOf(l))
    BY <2>2, <2>3, SumOfPart
  <2>5. SumFunctionOnSet(f, FillsOf(l)) \in Int
    BY <2>2, <2>3, SumIsNumber
  <2>6. m[l] = SumFunction(g)
    BY DEF Total, g
  <2> QED BY <2>1, <2>4, <2>5, <2>6
<1>4. \A x \in filled : f[x] \in Int /\ key[x] \in i.lines
  BY <1>2
<1>5. DOMAIN f = filled /\ Total(filled, "kg") = SumFunction(f)
  BY DEF Total
<1> HIDE DEF f, key
<1>6. SumFunctionOnSet(m, i.lines) = SumFunctionOnSet(f, filled)
  <2>1. \A l \in i.lines : m[l] = SumFunctionOnSet(f, Keyed(filled, key, l))
    BY <1>3
  <2> QED BY ONLY <1>1, <1>4, <2>1, SumOfGroups
<1> QED BY <1>3, <1>5, <1>6, SumOver

(* The balances of an export are those of the lines, once each. *)
LEMMA BalancesAddUp ==
    ASSUME NEW i \in Instructions, NEW b,
           \A l \in i.lines : b[l] = LineBalance(l, FillsOf(l)) /\ b[l] \in Int
    PROVE  Total({ExportLine(l) : l \in i.lines}, "balance") = SumFunctionOnSet(b, i.lines)
<1> DEFINE lines == {ExportLine(l) : l \in i.lines}
           key == [l \in i.lines |-> ExportLine(l)]
           g == [r \in lines |-> r["balance"]]
<1>1. IsFiniteSet(i.lines) /\ \A k, l \in i.lines : k.seq = l.seq => k = l
  BY OfficeAssumption
<1>2. IsFiniteSet(lines)
  <2>1. IsFiniteSet({key[l] : l \in i.lines})
    <3> HIDE DEF key
    <3> QED BY <1>1, ImageIsFinite
  <2>2. {key[l] : l \in i.lines} = lines
    OBVIOUS
  <2> QED BY <2>1, <2>2
<1>3. ASSUME NEW r \in lines PROVE g[r] = SumFunctionOnSet(b, Keyed(i.lines, key, r))
  <2>1. PICK l \in i.lines : r = ExportLine(l)
    OBVIOUS
  <2>2. \A k \in i.lines : ExportLine(k).seq = k.seq
    BY DEF ExportLine
  <2>3. Keyed(i.lines, key, r) = {l}
    BY <1>1, <2>1, <2>2 DEF Keyed
  <2>4. SumFunctionOnSet(b, {l}) = b[l]
    BY SumOfOne
  <2>5. g[r] = b[l]
    BY <2>1 DEF ExportLine
  <2> QED BY <2>3, <2>4, <2>5
<1>4. \A l \in i.lines : b[l] \in Int /\ key[l] \in lines
  OBVIOUS
<1>5. DOMAIN g = lines /\ Total(lines, "balance") = SumFunction(g)
  BY DEF Total
<1> HIDE DEF g, key, lines
<1>6. SumFunctionOnSet(g, lines) = SumFunctionOnSet(b, i.lines)
  BY <1>1, <1>2, <1>3, <1>4, SumOfGroups
<1>7. SumFunction(g) = SumFunctionOnSet(b, i.lines)
  BY <1>5, <1>6, SumOver
<1> QED BY <1>5, <1>7 DEF lines

LEMMA FillsInAgreement == OfficeTyped => FillsAgree
<1> SUFFICES ASSUME OfficeTyped, NEW i \in Instructions
             PROVE  LET data == BuildExportData(i, fills, purchases)
                        filled == UNION {l.fills : l \in data.lines}
                    IN  /\ data.summary.orderedSchw
                           = Total(data.lines, "balance") + Total(filled, "kg")
                        /\ i.status = "DRAFT" => filled = {}
  BY DEF FillsAgree
<1> DEFINE data == BuildExportData(i, fills, purchases)
           filled == UNION {l.fills : l \in data.lines}
           s == [l \in i.lines |-> l["schw"]]
           m == [l \in i.lines |-> Total(FillsOf(l), "kg")]
           b == [l \in i.lines |-> LineBalance(l, FillsOf(l))]
<1>1. data.lines = {ExportLine(l) : l \in i.lines}
  BY DEF BuildExportData, ExportLine, FillsOf
<1>2. data.summary.orderedSchw = SumFunction(s)
  BY DEF BuildExportData, ComputeReconciliation, Total
<1> HIDE DEF data
<1>3. filled = {x \in fills : \E l \in i.lines : x.line = l.seq}
  <2>1. \A l \in i.lines : ExportLine(l).fills = FillsOf(l)
    BY DEF ExportLine
  <2>2. ASSUME NEW x \in filled PROVE x \in fills /\ \E l \in i.lines : x.line = l.seq
    BY <1>1, <2>1 DEF FillsOf
  <2>3. ASSUME NEW x \in fills, NEW l \in i.lines, x.line = l.seq PROVE x \in filled
    <3>1. x \in ExportLine(l).fills
      BY <2>1, <2>3 DEF FillsOf
    <3> QED BY <1>1, <3>1
  <2> QED BY <2>2, <2>3
<1> HIDE DEF filled
<1>4. SumFunctionOnSet(m, i.lines) = Total(filled, "kg") /\ \A l \in i.lines : m[l] \in Int
  <2>1. \A l \in i.lines : m[l] = Total(FillsOf(l), "kg")
    OBVIOUS
  <2> HIDE DEF m
  <2> QED BY <1>3, <2>1, FillsAddUp
<1>5. \A l \in i.lines : s[l] \in Int /\ b[l] \in Int /\ s[l] = b[l] + m[l]
  <2>1. ASSUME NEW l \in i.lines PROVE s[l] \in Int /\ b[l] \in Int /\ s[l] = b[l] + m[l]
    <3>1. l.schw \in Int
      BY OfficeAssumption DEF IsOrderLine
    <3>2. m[l] \in Int /\ m[l] = Total(FillsOf(l), "kg")
      BY <1>4
    <3>3. s[l] = l.schw /\ b[l] = l.schw - Total(FillsOf(l), "kg")
      BY DEF LineBalance
    <3> HIDE DEF s, b, m
    <3> QED BY <3>1, <3>2, <3>3
  <2> QED BY <2>1
<1>6. SumFunctionOnSet(b, i.lines) = Total(data.lines, "balance")
  <2>1. \A l \in i.lines : b[l] = LineBalance(l, FillsOf(l)) /\ b[l] \in Int
    BY <1>5
  <2> HIDE DEF b
  <2> QED BY <1>1, <2>1, BalancesAddUp
<1>7. IsFiniteSet(i.lines) /\ DOMAIN s = i.lines
  BY OfficeAssumption
<1> HIDE DEF s, b, m
<1>8. \A l \in i.lines : b[l] \in Int /\ m[l] \in Int /\ s[l] = b[l] + m[l]
  BY <1>4, <1>5
<1>9. SumFunctionOnSet(s, i.lines)
      = SumFunctionOnSet(b, i.lines) + SumFunctionOnSet(m, i.lines)
  BY <1>7, <1>8, SumsTogether
<1>10. data.summary.orderedSchw = Total(data.lines, "balance") + Total(filled, "kg")
  BY <1>2, <1>4, <1>6, <1>7, <1>9, SumOver
<1>11. ASSUME i.status = "DRAFT", NEW x \in filled PROVE FALSE
  <2>1. PICK l \in i.lines : x \in fills /\ x.line = l.seq
    BY <1>3
  <2>2. PICK j \in Instructions : /\ j.status \in {"ISSUED", "ACKNOWLEDGED"}
                                  /\ \E k \in j.lines : k.seq = x.line
    BY <2>1 DEF OfficeTyped, FillsAllowed
  <2>3. i = j
    BY <2>1, <2>2, OfficeAssumption
  <2> QED BY <1>11, <2>2, <2>3
<1> QED BY <1>10, <1>11 DEF data, filled

-----------------------------------------------------------------------------
(* The market.                                                             *)

LEMMA MarketInAgreement == MarketTyped => MarketAgrees
<1> SUFFICES ASSUME MarketTyped PROVE MarketAgrees
  OBVIOUS
<1> DEFINE left == {u \in Stored : ~observations[u].deleted}
           rows == {observations[u] : u \in left}
           keyOf(u) == <<observations[u].competitor, observations[u].species>>
           summary == Summarize(rows, << >>, None)
<1>1. \A u \in Stored \ crossed : observations[u].implied = Implied(observations[u])
  BY DEF MarketTyped
<1>2. \A u \in Stored : observations[u].weight = None => observations[u].implied = None
  BY DEF MarketTyped, IsObservation
<1>3. ListObservations(rows, << >>) = rows
  <2>1. DOMAIN << >> = {}
    OBVIOUS
  <2>2. \A o : Matches(o, << >>)
    BY <2>1 DEF Matches
  <2> QED BY <2>2 DEF ListObservations
<1>4. /\ DOMAIN summary = {<<o.competitor, o.species>> : o \in rows}
      /\ \A k \in DOMAIN summary :
             summary[k].price =
                 Average([o \in {x \in {y \in rows : <<y.competitor, y.species>> = k} :
                                    x.implied # None} |-> o.implied], None)
  <2> DEFINE found == ListObservations(rows, << >>)
  <2>1. /\ DOMAIN summary = {<<o.competitor, o.species>> : o \in found}
        /\ \A k \in DOMAIN summary :
               summary[k].price =
                   Average([o \in {x \in {y \in found : <<y.competitor, y.species>> = k} :
                                      x.implied # None} |-> o.implied], None)
    BY DEF Summarize
  <2>2. found = rows
    BY <1>3
  <2> HIDE DEF summary, found, rows
  <2> QED BY <2>1, <2>2
<1>5. {<<o.competitor, o.species>> : o \in rows} = {keyOf(u) : u \in left}
  OBVIOUS
<1> HIDE DEF summary
<1>6. ASSUME NEW k \in DOMAIN summary, {u \in left : keyOf(u) = k} \cap crossed = {}
      PROVE  LET group == {u \in left : keyOf(u) = k}
                 priced == {o \in {observations[u] : u \in group} : Implied(o) # None}
             IN  summary[k].price = Average([o \in priced |-> Implied(o)], None)
  <2> DEFINE group == {u \in left : keyOf(u) = k}
             priced == {o \in {observations[u] : u \in group} : Implied(o) # None}
             seen == {x \in {y \in rows : <<y.competitor, y.species>> = k} : x.implied # None}
  <2>1. {y \in rows : <<y.competitor, y.species>> = k} = {observations[u] : u \in group}
    OBVIOUS
  <2>2. \A u \in group : observations[u].implied = Implied(observations[u])
    BY <1>1, <1>6
  <2>3. seen = priced /\ \A o \in priced : o.implied = Implied(o)
    BY <2>1, <2>2
  <2> HIDE DEF group, priced, rows
  <2>4. [o \in seen |-> o.implied] = [o \in priced |-> Implied(o)]
    BY <2>3
  <2>5. summary[k].price = Average([o \in seen |-> o.implied], None)
    BY <1>4
  <2> QED BY <2>4, <2>5 DEF group, priced
<1> QED BY <1>1, <1>2, <1>4, <1>5, <1>6 DEF MarketAgrees, Implied, summary

-----------------------------------------------------------------------------

Inv == IntakeTyped /\ Numbered /\ Traced /\ Explained /\ OfficeTyped /\ MarketTyped

LEMMA Inductive == Spec => []Inv
<1>1. Init => Inv
  BY TypedInit, TracedInit, ExplainedInit, OfficeInit DEF Inv
<1>2. Inv /\ [Next]_vars => Inv'
  BY TypedNext, TracedNext, ExplainedNext, OfficeTypedNext DEF Inv
<1> QED BY <1>1, <1>2, PTL DEF Spec

LEMMA InvImpliesTypeOK == Inv => TypeOK
<1> SUFFICES ASSUME Inv PROVE TypeOK
  OBVIOUS
<1> USE DEF Inv
<1>1. Len(snapshots) <= attempts /\ \A i \in 1..Len(snapshots) : snapshots[i] \in Snapshot
  BY FewSnapshots, BookIsTyped DEF IntakeTyped
<1>2. \A p \in PreviewIds : previews[p] \in Preview \cup {None}
  BY DEF IntakeTyped
<1>3. IntakeTypeOK
  BY <1>1, <1>2 DEF IntakeTyped, Numbered, IntakeTypeOK
<1>4. /\ \A u \in Sightings : observations[u] \in Observation \cup {None}
      /\ \A c \in corrections : /\ c.of \in Sightings /\ observations[c.of] # None
                               /\ c.patch \in PatchesOf[c.of]
      /\ crossed \subseteq Sightings
  BY DEF MarketTyped, IsObservation, IsCorrection, Stored
<1> QED BY <1>3, <1>4 DEF OfficeTyped, TypeOK

(* Every variable has its type; there are no more snapshots than attempts  *)
(* to commit, and every removal and drift belongs to a snapshot.           *)
THEOREM TypesHold == Spec => []TypeOK
BY Inductive, InvImpliesTypeOK, PTL

(* However many workbooks, requests and attempts there are: no upload and  *)
(* no line of the book disappears without a record, nothing that was not   *)
(* under way twice is stored twice, and workbooks are read as they are     *)
(* meant (ingestion_service, detect_layout).                               *)
THEOREM NothingIsLost == Spec => []NothingDisappears
<1>1. Inv => NothingDisappears
  BY TracedIs, ExplainedIs, SmallBooksAreRead DEF Inv, NothingDisappears
<1> QED BY <1>1, Inductive, PTL

(* Whatever is bought, deleted, noted, observed, corrected and submitted,  *)
(* in whatever order, and however many corrections of an observation run   *)
(* at once: dashboard, scorecards, reconciliations and order book count    *)
(* the same purchases; an implied price follows from its row, unless the   *)
(* last correction of it had loaded figures another changed meanwhile      *)
(* (analytics_service, scorecard_service, buy_instruction_service,         *)
(* market_observation_service, patch_observation).                         *)
THEOREM FiguresHold == Spec => []FiguresAgree
<1>1. ASSUME Inv PROVE FiguresAgree
  <2>1. OfficeTyped /\ MarketTyped /\ IntakeTyped /\ Numbered
    BY <1>1 DEF Inv
  <2>2. BookAgrees
    <3>1. CASE Latest = 0
      BY <3>1 DEF BookAgrees
    <3>2. CASE Latest # 0
      <4>1. Latest \in 1..Len(snapshots) /\ Len(snapshots) \in Nat
            /\ \A i \in 1..Len(snapshots) : snapshots[i].lines \in Seq(StoredLine)
        BY <2>1, <3>2, LatestIsLast, BookIsTyped DEF IntakeTyped
      <4>2. LinesOf(Latest) \in Seq(StoredLine)
        BY <3>2, <4>1 DEF LinesOf
      <4> QED BY <2>1, <3>2, <4>2, BookInAgreement
    <3> QED BY <3>1, <3>2
  <2> QED BY <2>1, <2>2, PurchasesInAgreement, FillsInAgreement, MarketInAgreement
          DEF FiguresAgree
<1> QED BY <1>1, Inductive, PTL
=============================================================================
