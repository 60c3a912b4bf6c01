---------------------------- MODULE OrderTheorems -----------------------------
(***************************************************************************)
(* Facts about orders that the proofs about build_clusters and parse_log   *)
(* need: a least natural number and a least element of a finite set exist, *)
(* and tuples of integers are ordered by their first difference, as Python *)
(* compares the rank tuples of clustering.py.                              *)
(***************************************************************************)
EXTENDS Integers, Sequences, FiniteSets, FiniteSetTheorems, WellFoundedInduction, TLAPS

(* The order of the natural numbers is well founded. *)
LEMMA LessIsWellFounded ==
  IsWellFoundedOn({p \in Nat \X Nat : p[1] < p[2]}, Nat)
  BY NatLessThanWellFounded DEF OpToRel

(* A non-empty set of natural numbers has a least element. *)
LEMMA LeastNatural ==
  ASSUME NEW T \in SUBSET Nat, T # {}
  PROVE  \E x \in T : \A y \in T : x <= y
  <1> DEFINE R == {p \in Nat \X Nat : p[1] < p[2]}
  <1>1. IsWellFoundedOn(R, Nat)
    BY LessIsWellFounded
  <1>2. \A x, y \in Nat : x < y => <<x, y>> \in R
    OBVIOUS
  <1> HIDE DEF R
  <1>3. PICK x \in T : \A y \in T : ~ (<<y, x>> \in R)
    <2>1. T \subseteq Nat /\ T # {}
      OBVIOUS
    <2>2. QED BY <1>1, <2>1, WFMin
  <1>4. ASSUME NEW y \in T, y < x PROVE FALSE
    <2>1. x \in Nat /\ y \in Nat
      OBVIOUS
    <2>2. <<y, x>> \in R
      BY <1>2, <1>4, <2>1
    <2>3. QED BY <1>3, <2>2
  <1>5. \A y \in T : x <= y
    BY <1>4
  <1>6. QED BY <1>5

(* A strict total order has a least element in every finite set: of the     *)
(* subsets without one, a smallest would be that of a smaller one's and one *)
(* element more.                                                            *)
LEMMA LeastOfFinite ==
  ASSUME NEW S, IsFiniteSet(S), S # {}, NEW R,
         \A x, y, z \in S : <<x, y>> \in R /\ <<y, z>> \in R => <<x, z>> \in R,
         \A x, y \in S : x # y => <<x, y>> \in R \/ <<y, x>> \in R
  PROVE  \E x \in S : \A y \in S \ {x} : <<x, y>> \in R
  <1> DEFINE HasLeast(T) == \E x \in T : \A y \in T \ {x} : <<x, y>> \in R
             Bad == {T \in SUBSET S : T # {} /\ ~HasLeast(T)}
             Sizes == {Cardinality(T) : T \in Bad}
  <1>1. SUFFICES ASSUME Bad # {} PROVE FALSE
    OBVIOUS
  <1>2. \A T \in SUBSET S : IsFiniteSet(T) /\ Cardinality(T) \in Nat
    BY FS_Subset, FS_CardinalityType
  <1>3. Sizes \in SUBSET Nat /\ Sizes # {}
    BY <1>1, <1>2
  <1>4. PICK n \in Sizes : \A m \in Sizes : n <= m
    <2> HIDE DEF Sizes
    <2>1. QED BY <1>3, LeastNatural
  <1>5. PICK T \in Bad : Cardinality(T) = n
    BY <1>4
  <1>6. PICK e \in T : TRUE
    BY <1>5
  <1> DEFINE U == T \ {e}
  <1>7. U \in SUBSET S /\ Cardinality(U) = n - 1 /\ n \in Nat
    BY <1>2, <1>3, <1>5, <1>6, FS_RemoveElement
  <1>8. U \notin Bad
    <2>1. SUFFICES ASSUME U \in Bad PROVE FALSE
      OBVIOUS
    <2>2. n - 1 \in Sizes
      BY <1>7, <2>1
    <2>3. n <= n - 1
      BY <1>4, <2>2
    <2>4. QED BY <1>7, <2>3
  <1>9. CASE U = {}
    <2>1. HasLeast(T)
      BY <1>6, <1>9
    <2>2. QED BY <1>5, <2>1
  <1>10. CASE U # {}
    <2>1. PICK u \in U : \A y \in U \ {u} : <<u, y>> \in R
      BY <1>7, <1>8, <1>10
    <2>2. CASE <<u, e>> \in R
      <3>1. \A y \in T \ {u} : <<u, y>> \in R
        BY <2>1, <2>2
      <3>2. QED BY <1>5, <2>1, <3>1
    <2>3. CASE <<e, u>> \in R
      <3>1. \A y \in T \ {e} : <<e, y>> \in R
        BY <1>5, <1>6, <2>1, <2>3
      <3>2. QED BY <1>5, <1>6, <3>1
    <2>4. u \in S /\ e \in S /\ u # e
      BY <1>5, <1>6, <2>1
    <2>5. QED BY <2>2, <2>3, <2>4
  <1>11. QED BY <1>9, <1>10

-----------------------------------------------------------------------------
(* Tuples of integers, compared at the first place where they differ. *)

Ranks(n) == [1..n -> Int]

Before(a, b) == \E k \in DOMAIN a : a[k] < b[k] /\ \A j \in 1..k - 1 : a[j] = b[j]

(* Of two tuples at most one is before the other. *)
LEMMA BeforeAsymmetric ==
  ASSUME NEW n \in Nat, NEW a \in Ranks(n), NEW b \in Ranks(n), Before(a, b)
  PROVE  ~Before(b, a)
  <1> SUFFICES ASSUME Before(b, a) PROVE FALSE
    OBVIOUS
  <1>1. PICK k \in 1..n : a[k] < b[k] /\ \A j \in 1..k - 1 : a[j] = b[j]
    BY DEF Before, Ranks
  <1>2. PICK l \in 1..n : b[l] < a[l] /\ \A j \in 1..l - 1 : a[j] = b[j]
    BY DEF Before, Ranks
  <1>3. a[k] \in Int /\ b[k] \in Int /\ a[l] \in Int /\ b[l] \in Int
    BY DEF Ranks
  <1>4. k < l \/ k = l \/ l < k
    OBVIOUS
  <1>5. QED BY <1>1, <1>2, <1>3, <1>4

(* The order of tuples is transitive. *)
LEMMA BeforeTransitive ==
  ASSUME NEW n \in Nat, NEW a \in Ranks(n), NEW b \in Ranks(n), NEW c \in Ranks(n),
         Before(a, b), Before(b, c)
  PROVE  Before(a, c)
  <1>1. PICK k \in 1..n : a[k] < b[k] /\ \A j \in 1..k - 1 : a[j] = b[j]
    BY DEF Before, Ranks
  <1>2. PICK l \in 1..n : b[l] < c[l] /\ \A j \in 1..l - 1 : b[j] = c[j]
    BY DEF Before, Ranks
  <1>3. \A i \in 1..n : a[i] \in Int /\ b[i] \in Int /\ c[i] \in Int
    BY DEF Ranks
  <1> DEFINE m == IF k <= l THEN k ELSE l
  <1>4. a[m] < c[m] /\ \A j \in 1..m - 1 : a[j] = c[j]
    <2>1. CASE k < l
      BY <1>1, <1>2, <1>3, <2>1
    <2>2. CASE k = l
      BY <1>1, <1>2, <1>3, <2>2
    <2>3. CASE l < k
      BY <1>1, <1>2, <1>3, <2>3
    <2>4. QED BY <2>1, <2>2, <2>3
  <1>5. m \in 1..n /\ DOMAIN a = 1..n
    BY DEF Ranks
  <1> HIDE DEF m
  <1>6. QED BY <1>4, <1>5 DEF Before

(* Of two different tuples one is before the other. *)
LEMMA BeforeTotal ==
  ASSUME NEW n \in Nat, NEW a \in Ranks(n), NEW b \in Ranks(n), a # b
  PROVE  Before(a, b) \/ Before(b, a)
  <1> DEFINE D == {k \in 1..n : a[k] # b[k]}
  <1>1. D \in SUBSET Nat /\ D # {}
    BY DEF Ranks
  <1>2. PICK k \in D : \A l \in D : k <= l
    BY <1>1, LeastNatural
  <1>3. k \in 1..n /\ a[k] \in Int /\ b[k] \in Int /\ a[k] # b[k]
    BY <1>2 DEF Ranks
  <1>4. \A j \in 1..k - 1 : a[j] = b[j]
    BY <1>2, <1>3
  <1>5. a[k] < b[k] \/ b[k] < a[k]
    BY <1>3
  <1>6. DOMAIN a = 1..n /\ DOMAIN b = 1..n
    BY DEF Ranks
  <1>7. QED BY <1>3, <1>4, <1>5, <1>6 DEF Before

-----------------------------------------------------------------------------
(* Finite sets of natural numbers, from above and in ascending order. *)

(* A non-empty finite set of natural numbers has a greatest element. *)
LEMMA GreatestOfFinite ==
  ASSUME NEW S \in SUBSET Nat, IsFiniteSet(S), S # {}
  PROVE  \E x \in S : \A y \in S : y <= x
  <1> DEFINE R == {p \in S \X S : p[2] < p[1]}
  <1>1. \A x, y \in S : <<x, y>> \in R <=> y < x
    OBVIOUS
  <1>2. \A x \in S : x \in Nat
    OBVIOUS
  <1> HIDE DEF R
  <1>3. ASSUME NEW x \in S, NEW y \in S, NEW z \in S, <<x, y>> \in R, <<y, z>> \in R
        PROVE  <<x, z>> \in R
    BY <1>1, <1>2, <1>3
  <1>4. ASSUME NEW x \in S, NEW y \in S, x # y
        PROVE  <<x, y>> \in R \/ <<y, x>> \in R
    BY <1>1, <1>2, <1>4
  <1>5. \E x \in S : \A y \in S \ {x} : <<x, y>> \in R
    <2>1. IsFiniteSet(S) /\ S # {}
      OBVIOUS
    <2>2. \A x, y, z \in S : <<x, y>> \in R /\ <<y, z>> \in R => <<x, z>> \in R
      BY <1>3
    <2>3. \A x, y \in S : x # y => <<x, y>> \in R \/ <<y, x>> \in R
      BY <1>4
    <2>4. QED BY <2>1, <2>2, <2>3, LeastOfFinite, Zenon
  <1>6. PICK x \in S : \A y \in S \ {x} : <<x, y>> \in R
    BY <1>5
  <1>7. ASSUME NEW y \in S PROVE y <= x
    <2>1. y = x \/ y < x
      BY <1>1, <1>6
    <2>2. QED BY <1>2, <2>1
  <1>8. QED BY <1>7

(* Its elements can be listed in ascending order: of the sets that have no  *)
(* such list, a smallest would be one element larger than one that has.     *)
Lists(s, T) ==
  /\ s \in [1..Cardinality(T) -> T]
  /\ \A j, k \in DOMAIN s : j < k => s[j] < s[k]
  /\ \A x \in T : \E k \in DOMAIN s : s[k] = x

(* Every finite set of natural numbers has an ascending list. *)
LEMMA AscendingList ==
  ASSUME NEW S \in SUBSET Nat, IsFiniteSet(S)
  PROVE  \E s \in [1..Cardinality(S) -> S] : Lists(s, S)
  <1> DEFINE Bad == {T \in SUBSET S : ~\E s \in [1..Cardinality(T) -> T] : Lists(s, T)}
             Sizes == {Cardinality(T) : T \in Bad}
  <1>1. SUFFICES ASSUME Bad # {} PROVE FALSE
    OBVIOUS
  <1>2. \A T \in SUBSET S : IsFiniteSet(T) /\ Cardinality(T) \in Nat
    BY FS_Subset, FS_CardinalityType
  <1>3. Sizes \in SUBSET Nat /\ Sizes # {}
    BY <1>1, <1>2
  <1>4. PICK n \in Sizes : \A m \in Sizes : n <= m
    <2> HIDE DEF Sizes
    <2>1. QED BY <1>3, LeastNatural
  <1>5. PICK T \in Bad : Cardinality(T) = n
    BY <1>4
  <1>6. T \in SUBSET Nat /\ IsFiniteSet(T) /\ n \in Nat
    BY <1>2, <1>5
  <1>7. T # {}
    <2>1. SUFFICES ASSUME T = {} PROVE FALSE
      OBVIOUS
    <2>2. Cardinality(T) = 0
      BY <2>1, FS_EmptySet
    <2> DEFINE s == [k \in 1..0 |-> 0]
    <2>3. s \in [1..Cardinality(T) -> T] /\ Lists(s, T)
      BY <2>1, <2>2 DEF Lists
    <2>4. QED BY <1>5, <2>3
  <1>8. PICK e \in T : \A y \in T : y <= e
    BY <1>6, <1>7, GreatestOfFinite
  <1> DEFINE U == T \ {e}
  <1>9. U \in SUBSET S /\ Cardinality(U) = n - 1 /\ n >= 1
    <2>1. Cardinality(U) = n - 1 /\ Cardinality(U) \in Nat
      BY <1>2, <1>5, <1>6, <1>8, FS_RemoveElement
    <2>2. QED BY <1>5, <1>6, <2>1
  <1>10. U \notin Bad
    <2>1. SUFFICES ASSUME U \in Bad PROVE FALSE
      OBVIOUS
    <2>2. n - 1 \in Sizes
      BY <1>9, <2>1
    <2>3. n <= n - 1
      BY <1>4, <2>2
    <2>4. QED BY <1>6, <2>3
  <1>11. PICK u \in [1..n - 1 -> U] :
           /\ \A j, k \in 1..n - 1 : j < k => u[j] < u[k]
           /\ \A x \in U : \E k \in 1..n - 1 : u[k] = x
    BY <1>9, <1>10 DEF Lists
  <1> DEFINE s == [k \in 1..n |-> IF k = n THEN e ELSE u[k]]
  <1>12. s \in [1..n -> T] /\ s[n] = e /\ \A k \in 1..n - 1 : s[k] = u[k]
    BY <1>6, <1>8, <1>9, <1>11
  <1>13. \A k \in 1..n - 1 : u[k] \in Nat /\ u[k] < e
    <2>1. SUFFICES ASSUME NEW k \in 1..n - 1 PROVE u[k] \in Nat /\ u[k] < e
      OBVIOUS
    <2>2. u[k] \in T /\ u[k] # e
      BY <1>11
    <2>3. u[k] <= e /\ u[k] \in Nat /\ e \in Nat
      BY <1>6, <1>8, <2>2
    <2>4. QED BY <2>2, <2>3
  <1>14. \A k \in 1..n : k \in 1..n - 1 \/ k = n
    BY <1>6, <1>9
  <1> HIDE DEF s, Bad, Sizes
  <1>15. \A j, k \in 1..n : j < k => s[j] < s[k]
    <2>1. SUFFICES ASSUME NEW j \in 1..n, NEW k \in 1..n, j < k PROVE s[j] < s[k]
      OBVIOUS
    <2>2. j \in 1..n - 1
      BY <1>6, <2>1
    <2>3. QED BY <1>11, <1>12, <1>13, <1>14, <2>1, <2>2
  <1>16. \A x \in T : \E k \in 1..n : s[k] = x
    <2>1. n \in 1..n /\ 1..n - 1 \subseteq 1..n
      BY <1>6, <1>9
    <2>2. QED BY <1>11, <1>12, <2>1
  <1>17. s \in [1..Cardinality(T) -> T] /\ Lists(s, T)
    BY <1>5, <1>12, <1>15, <1>16 DEF Lists
  <1>18. QED BY <1>5, <1>17 DEF Bad

=============================================================================
