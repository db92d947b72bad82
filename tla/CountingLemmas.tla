--------------------------- MODULE CountingLemmas ---------------------------
(***************************************************************************)
(* Facts about numbers, finite sets and lists that the proofs of several   *)
(* components rest on: least elements, chunks of a batch, the permits that *)
(* are out, the places a sort assigns, lists in ascending order and lists  *)
(* one after the other.                                                    *)
(***************************************************************************)
EXTENDS Permits, Lists, FiniteSetsExt, FiniteSetTheorems, FunctionTheorems,
        SequenceTheorems, WellFoundedInduction, TLAPS

-----------------------------------------------------------------------------
(* Least elements.  With these a statement about all natural numbers is    *)
(* proved from its least exception.                                        *)

Smaller == {p \in Nat \X Nat : p[1] < p[2]}

LEMMA SmallerWellFounded == IsWellFoundedOn(Smaller, Nat)
BY NatLessThanWellFounded, Zenon DEF OpToRel, Smaller

(* A set of natural numbers that is not empty has a least element.         *)
LEMMA LeastElement ==
  ASSUME NEW S, S \subseteq Nat, S # {}
  PROVE  \E m \in S : \A k \in S : m <= k
<1>1. PICK m \in S : \A k \in S : ~ (<<k, m>> \in Smaller)
  BY SmallerWellFounded, WFMin, Zenon
<1>2. ASSUME NEW k \in S PROVE m <= k
  <2>1. k \in Nat /\ m \in Nat
    OBVIOUS
  <2>2. <<k, m>> \in Nat \X Nat /\ <<k, m>>[1] = k /\ <<k, m>>[2] = m
    BY <2>1
  <2>3. ~ (k < m)
    BY <1>1, <2>2 DEF Smaller
  <2> QED
    BY <2>1, <2>3
<1> QED
  BY <1>2

(* Min is that element.                                                    *)
LEMMA MinIsLeast ==
  ASSUME NEW S, S \subseteq Nat, S # {}
  PROVE  Min(S) \in S /\ \A k \in S : Min(S) <= k
BY LeastElement DEF Min

LEMMA LeastIsMin ==
  ASSUME NEW S, S \subseteq Nat, NEW m \in S, \A k \in S : ~ (k < m)
  PROVE  Min(S) = m
<1>1. Min(S) \in S /\ Min(S) <= m
  BY MinIsLeast
<1>2. ~ (Min(S) < m) /\ Min(S) \in Nat /\ m \in Nat
  BY <1>1
<1> QED
  BY <1>1, <1>2

(* What 0 has, and each number passes on to the next, all have up to a     *)
(* bound.                                                                  *)
LEMMA UpTo ==
  ASSUME NEW n \in Nat, NEW S, 0 \in S, \A m \in 1..n : m - 1 \in S => m \in S
  PROVE  0..n \subseteq S
<1> DEFINE Without == {m \in 0..n : m \notin S}
<1>1. SUFFICES ASSUME Without # {} PROVE FALSE
  OBVIOUS
<1>2. PICK m \in Without : \A k \in Without : m <= k
  <2>1. Without \subseteq Nat
    OBVIOUS
  <2> QED
    BY <1>1, <2>1, LeastElement
<1>3. m \in 1..n /\ m - 1 \notin Without
  BY <1>2
<1> QED
  BY <1>2, <1>3
-----------------------------------------------------------------------------
(* Chunks.                                                                 *)

(* usize::div_ceil.                                                        *)
Ceiling(n, w) == n \div w + (IF n % w = 0 THEN 0 ELSE 1)

(* As many chunks of that size as there are workers cover everything.      *)
LEMMA CeilingCovers ==
  ASSUME NEW n \in Nat, NEW w \in Nat \ {0}
  PROVE  Ceiling(n, w) \in Nat /\ w * Ceiling(n, w) >= n
<1> DEFINE q == n \div w
           m == n % w
<1>1. q \in Nat /\ m \in 0..(w - 1) /\ n = w * q + m
  OBVIOUS
<1> HIDE DEF q, m
<1>2. CASE m = 0
  BY <1>1, <1>2 DEF Ceiling, q, m
<1>3. CASE m # 0
  <2>1. Ceiling(n, w) = q + 1
    BY <1>3 DEF Ceiling, q, m
  <2>2. w * (q + 1) = w * q + w
    BY <1>1
  <2> QED
    BY <1>1, <2>1, <2>2
<1> QED
  BY <1>2, <1>3

(* So whoever still finds something behind s chunks has used fewer workers *)
(* than there are.                                                         *)
LEMMA CeilingBounds ==
  ASSUME NEW n \in Nat, NEW w \in Nat \ {0}, NEW s \in Nat, s * Ceiling(n, w) < n
  PROVE  s < w
<1> DEFINE c == Ceiling(n, w)
<1>1. c \in Nat /\ w * c >= n
  BY CeilingCovers
<1> HIDE DEF c
<1>2. s * c < n
  BY DEF c
<1>3. ASSUME s >= w PROVE FALSE
  <2>1. PICK d \in Nat : s = w + d
    <3>1. s - w \in Nat /\ s = w + (s - w)
      BY <1>3
    <3> QED
      BY <3>1
  <2>2. s * c = w * c + d * c
    BY <1>1, <2>1
  <2>3. d * c \in Nat
    BY <1>1, <2>1
  <2> QED
    BY <1>1, <1>2, <2>2, <2>3
<1> QED
  BY <1>3

-----------------------------------------------------------------------------
(* The permits that are out: how their set grows and shrinks with one      *)
(* lease.                                                                  *)

(* A block of n permits of one holder has n elements.                      *)
LEMMA BlockCardinality ==
  ASSUME NEW h, NEW n \in Nat
  PROVE  /\ IsFiniteSet({h} \X (1..n))
         /\ Cardinality({h} \X (1..n)) = n
<1> DEFINE f == [i \in 1..n |-> <<h, i>>]
<1>1. IsFiniteSet(1..n) /\ Cardinality(1..n) = n
  BY FS_Interval
<1>2. f \in Bijection(1..n, {h} \X (1..n))
  <2>1. f \in [1..n -> {h} \X (1..n)]
    OBVIOUS
  <2>2. \A i, j \in 1..n : f[i] = f[j] => i = j
    OBVIOUS
  <2>3. \A p \in {h} \X (1..n) : \E i \in 1..n : f[i] = p
    OBVIOUS
  <2> QED
    BY <2>1, <2>2, <2>3 DEF Bijection, Injection, Surjection, IsInjective
<1>3. ExistsBijection(1..n, {h} \X (1..n))
  BY <1>2 DEF ExistsBijection
<1> QED
  BY <1>1, <1>3, FS_Bijection

(* The permits that are out are finitely many.                             *)
LEMMA PermitsFinite ==
  ASSUME NEW Holders, IsFiniteSet(Holders), NEW capacity \in Nat,
         NEW held \in [Holders -> Nat]
  PROVE  /\ IsFiniteSet(PermitsOf(Holders, capacity, held))
         /\ Cardinality(PermitsOf(Holders, capacity, held)) \in Nat
<1>1. IsFiniteSet(1..capacity)
  BY FS_Interval
<1>2. IsFiniteSet(Holders \X (1..capacity))
  BY <1>1, FS_Product
<1>3. PermitsOf(Holders, capacity, held) \in SUBSET (Holders \X (1..capacity))
  BY DEF PermitsOf
<1> QED
  BY <1>2, <1>3, FS_Subset, FS_CardinalityType

(* A holder without permits that takes n more adds n to the count.         *)
LEMMA PermitsGrow ==
  ASSUME NEW Holders, IsFiniteSet(Holders), NEW capacity \in Nat,
         NEW held \in [Holders -> Nat], NEW h \in Holders,
         NEW n \in 0..capacity, held[h] = 0
  PROVE  Cardinality(PermitsOf(Holders, capacity, [held EXCEPT ![h] = n]))
           = Cardinality(PermitsOf(Holders, capacity, held)) + n
<1> DEFINE Old == PermitsOf(Holders, capacity, held)
           Block == {h} \X (1..n)
           New == PermitsOf(Holders, capacity, [held EXCEPT ![h] = n])
<1>1. New = Old \cup Block
  BY DEF PermitsOf
<1>2. Old \cap Block = {}
  BY DEF PermitsOf
<1>3. IsFiniteSet(Old) /\ Cardinality(Old) \in Nat
  BY PermitsFinite
<1>4. IsFiniteSet(Block) /\ Cardinality(Block) = n
  <2>1. n \in Nat
    OBVIOUS
  <2> QED
    BY <2>1, BlockCardinality, Zenon
<1>5. Cardinality(Old \cap Block) = 0
  BY <1>2, FS_EmptySet
<1> HIDE DEF Old, Block, New
<1>6. Cardinality(Old \cup Block)
        = Cardinality(Old) + Cardinality(Block) - Cardinality(Old \cap Block)
  BY <1>3, <1>4, FS_Union
<1>7. Cardinality(New) = Cardinality(Old) + n
  BY <1>1, <1>3, <1>4, <1>5, <1>6
<1> QED
  BY <1>7 DEF Old, New

(* A holder that gives its permits back takes their number off the count.  *)
LEMMA PermitsShrink ==
  ASSUME NEW Holders, IsFiniteSet(Holders), NEW capacity \in Nat,
         NEW held \in [Holders -> Nat], NEW h \in Holders,
         held[h] \in 0..capacity
  PROVE  Cardinality(PermitsOf(Holders, capacity, [held EXCEPT ![h] = 0]))
           = Cardinality(PermitsOf(Holders, capacity, held)) - held[h]
<1> DEFINE rest == [held EXCEPT ![h] = 0]
<1>1. rest \in [Holders -> Nat] /\ rest[h] = 0
  OBVIOUS
<1>2. held = [rest EXCEPT ![h] = held[h]]
  OBVIOUS
<1> HIDE DEF rest
<1>3. Cardinality(PermitsOf(Holders, capacity, [rest EXCEPT ![h] = held[h]]))
        = Cardinality(PermitsOf(Holders, capacity, rest)) + held[h]
  BY <1>1, PermitsGrow
<1>4. Cardinality(PermitsOf(Holders, capacity, rest)) \in Nat
  BY <1>1, PermitsFinite
<1>5. Cardinality(PermitsOf(Holders, capacity, held))
        = Cardinality(PermitsOf(Holders, capacity, rest)) + held[h]
  BY <1>2, <1>3
<1> QED
  BY <1>4, <1>5 DEF rest

(* Things that each occupy a permit of their own are no more than the      *)
(* permits that are out.                                                   *)
LEMMA OccupantsBounded ==
  ASSUME NEW Holders, IsFiniteSet(Holders), NEW capacity \in Nat,
         NEW held \in [Holders -> Nat],
         NEW Occupied \in SUBSET PermitsOf(Holders, capacity, held)
  PROVE  /\ IsFiniteSet(Occupied)
         /\ Cardinality(Occupied) \in Nat
         /\ Cardinality(Occupied) <= Cardinality(PermitsOf(Holders, capacity, held))
  BY PermitsFinite, FS_Subset, FS_CardinalityType

-----------------------------------------------------------------------------
(* The places a sort assigns.                                              *)

LEMMA BijectionMeans ==
  ASSUME NEW S, NEW T, NEW f
  PROVE  f \in Bijection(S, T) <=>
           /\ f \in [S -> T]
           /\ \A a, b \in S : f[a] = f[b] => a = b
           /\ \A t \in T : \E a \in S : f[a] = t
BY DEF Bijection, Injection, Surjection, IsInjective

LEMMA PermutationMeans ==
  ASSUME NEW n, NEW p, p \in Bijection(1..n, 1..n)
  PROVE  /\ p \in [1..n -> 1..n]
         /\ \A j, k \in 1..n : p[j] = p[k] => j = k
         /\ \A k \in 1..n : \E j \in 1..n : p[j] = k
BY DEF Bijection, Injection, Surjection, IsInjective

(* One more than the number of elements that come before x.                *)
Rank(S, before, x) == Cardinality({y \in S : <<y, x>> \in before}) + 1

(* What comes before has the lower rank.                                   *)
LEMMA RanksAscend ==
  ASSUME NEW S, IsFiniteSet(S), NEW before,
         \A x \in S : <<x, x>> \notin before,
         \A x, y, z \in S : <<x, y>> \in before /\ <<y, z>> \in before => <<x, z>> \in before
  PROVE  /\ \A x \in S : Rank(S, before, x) \in 1..Cardinality(S)
         /\ \A x, y \in S : <<x, y>> \in before => Rank(S, before, x) < Rank(S, before, y)
<1> DEFINE Ahead(x) == {y \in S : <<y, x>> \in before}
<1>1. ASSUME NEW x \in S
      PROVE  IsFiniteSet(Ahead(x)) /\ Cardinality(Ahead(x)) \in 0..(Cardinality(S) - 1)
  <2>1. Ahead(x) \in SUBSET (S \ {x})
    OBVIOUS
  <2>2. /\ IsFiniteSet(S \ {x}) /\ Cardinality(S \ {x}) = Cardinality(S) - 1
        /\ Cardinality(S) \in Nat
    BY FS_RemoveElement, FS_CardinalityType
  <2> HIDE DEF Ahead
  <2>3. IsFiniteSet(Ahead(x)) /\ Cardinality(Ahead(x)) <= Cardinality(S) - 1
    BY <2>1, <2>2, FS_Subset
  <2>4. Cardinality(Ahead(x)) \in Nat
    BY <2>3, FS_CardinalityType
  <2> QED
    BY <2>2, <2>3, <2>4
<1>2. ASSUME NEW x \in S, NEW y \in S, <<x, y>> \in before
      PROVE  Cardinality(Ahead(x)) < Cardinality(Ahead(y))
  <2>1. Ahead(x) \cup {x} \in SUBSET Ahead(y) /\ x \notin Ahead(x)
    BY <1>2
  <2>2. Cardinality(Ahead(x) \cup {x}) = Cardinality(Ahead(x)) + 1
    BY <1>1, <2>1, FS_AddElement
  <2>3. Cardinality(Ahead(x) \cup {x}) <= Cardinality(Ahead(y))
    BY <1>1, <2>1, FS_Subset
  <2> HIDE DEF Ahead
  <2>4. Cardinality(Ahead(x)) \in Nat /\ Cardinality(Ahead(y)) \in Nat
    BY <1>1
  <2> QED
    BY <2>2, <2>3, <2>4
<1>3. \A x \in S : Rank(S, before, x) = Cardinality(Ahead(x)) + 1
  BY DEF Rank
<1>4. Cardinality(S) \in Nat
  BY FS_CardinalityType
<1> HIDE DEF Ahead
<1>5. ASSUME NEW x \in S PROVE Rank(S, before, x) \in 1..Cardinality(S)
  BY <1>1, <1>3, <1>4, <1>5
<1>6. ASSUME NEW x \in S, NEW y \in S, <<x, y>> \in before
      PROVE  Rank(S, before, x) < Rank(S, before, y)
  BY <1>1, <1>2, <1>3, <1>6
<1> QED
  BY <1>5, <1>6

(* Where everything is ordered, each element has a rank of its own.        *)
LEMMA RanksAreDistinct ==
  ASSUME NEW S, IsFiniteSet(S), NEW before,
         \A x \in S : <<x, x>> \notin before,
         \A x, y, z \in S : <<x, y>> \in before /\ <<y, z>> \in before => <<x, z>> \in before,
         \A x, y \in S : x = y \/ <<x, y>> \in before \/ <<y, x>> \in before
  PROVE  [x \in S |-> Rank(S, before, x)] \in Bijection(S, 1..Cardinality(S))
<1> DEFINE rank == [x \in S |-> Rank(S, before, x)]
           n == Cardinality(S)
<1>1. n \in Nat
  BY FS_CardinalityType
<1>2. /\ \A x \in S : Rank(S, before, x) \in 1..n
      /\ \A x, y \in S : <<x, y>> \in before => Rank(S, before, x) < Rank(S, before, y)
  BY RanksAscend
<1>3. rank \in [S -> 1..n]
  BY <1>2
<1>4. ASSUME NEW x \in S, NEW y \in S, rank[x] = rank[y] PROVE x = y
  <2>1. Rank(S, before, x) = Rank(S, before, y)
    BY <1>4
  <2>2. Rank(S, before, x) \in Nat /\ Rank(S, before, y) \in Nat
    BY <1>1, <1>2
  <2>3. <<x, y>> \notin before /\ <<y, x>> \notin before
    BY <1>2, <2>1, <2>2
  <2> QED
    BY <2>3
<1> HIDE DEF rank
<1>5. rank \in Injection(S, 1..n)
  BY <1>3, <1>4, Fun_IsInj
<1>6. IsFiniteSet(1..n) /\ Cardinality(1..n) = n
  BY <1>1, FS_Interval
<1>7. rank \in Surjection(S, 1..n)
  BY <1>5, <1>6, FS_Injection
<1>8. rank \in Bijection(S, 1..n)
  BY <1>5, <1>7, Fun_IsBij
<1> QED
  BY <1>8 DEF rank

(* The places of a sort are the ranks of the positions.                    *)
LEMMA PlacesAreRanks ==
  ASSUME NEW n \in Nat, NEW before
  PROVE  /\ IsFiniteSet(1..n) /\ Cardinality(1..n) = n
         /\ \A i \in 1..n : Place(n, before, i) = Rank(1..n, before, i)
BY FS_Interval DEF Place, Rank

LEMMA PlacesAscend ==
  ASSUME NEW n \in Nat, NEW before,
         \A i \in 1..n : <<i, i>> \notin before,
         \A i, j, k \in 1..n : <<i, j>> \in before /\ <<j, k>> \in before => <<i, k>> \in before
  PROVE  /\ \A i \in 1..n : Place(n, before, i) \in 1..n
         /\ \A i, j \in 1..n : <<i, j>> \in before => Place(n, before, i) < Place(n, before, j)
<1> DEFINE S == 1..n
<1>1. IsFiniteSet(S) /\ Cardinality(S) = n /\ \A i \in S : Place(n, before, i) = Rank(S, before, i)
  BY PlacesAreRanks
<1>2. /\ \A i \in S : <<i, i>> \notin before
      /\ \A i, j, k \in S : <<i, j>> \in before /\ <<j, k>> \in before => <<i, k>> \in before
  OBVIOUS
<1> HIDE DEF S
<1>3. /\ \A i \in S : Rank(S, before, i) \in 1..Cardinality(S)
      /\ \A i, j \in S : <<i, j>> \in before => Rank(S, before, i) < Rank(S, before, j)
  BY <1>1, <1>2, RanksAscend
<1>4. /\ \A i \in S : Place(n, before, i) \in 1..n
      /\ \A i, j \in S : <<i, j>> \in before => Place(n, before, i) < Place(n, before, j)
  BY <1>1, <1>3
<1> QED
  BY <1>4 DEF S

(* Where "before" orders all positions, each has a place of its own.       *)
LEMMA PlacesAreDistinct ==
  ASSUME NEW n \in Nat, NEW before,
         \A i \in 1..n : <<i, i>> \notin before,
         \A i, j, k \in 1..n : <<i, j>> \in before /\ <<j, k>> \in before => <<i, k>> \in before,
         \A i, j \in 1..n : i = j \/ <<i, j>> \in before \/ <<j, i>> \in before
  PROVE  [i \in 1..n |-> Place(n, before, i)] \in Bijection(1..n, 1..n)
<1>1. [i \in 1..n |-> Place(n, before, i)] = [i \in 1..n |-> Rank(1..n, before, i)]
  BY PlacesAreRanks
<1>2. [i \in 1..n |-> Rank(1..n, before, i)] \in Bijection(1..n, 1..Cardinality(1..n))
  BY PlacesAreRanks, RanksAreDistinct
<1> QED
  BY <1>1, <1>2, PlacesAreRanks

(* So the sorted sequence has the elements it was sorted from, each once.  *)
LEMMA ArrangedPermutes ==
  ASSUME NEW os, Len(os) \in Nat, NEW before,
         [i \in 1..Len(os) |-> Place(Len(os), before, i)] \in Bijection(1..Len(os), 1..Len(os))
  PROVE  /\ \A k \in 1..Len(os) : \E i \in 1..Len(os) : Arranged(os, before)[k] = os[i]
         /\ \A i \in 1..Len(os) :
              LET k == Place(Len(os), before, i)
              IN  k \in 1..Len(os) /\ Arranged(os, before)[k] = os[i]
<1> DEFINE n == Len(os)
           place == [i \in 1..n |-> Place(n, before, i)]
<1>1. /\ place \in [1..n -> 1..n]
      /\ \A i, j \in 1..n : place[i] = place[j] => i = j
      /\ \A k \in 1..n : \E i \in 1..n : place[i] = k
  <2>1. place \in Bijection(1..n, 1..n)
    OBVIOUS
  <2> HIDE DEF place, n
  <2> QED
    BY <2>1, PermutationMeans, Zenon
<1>2. ASSUME NEW k \in 1..n
      PROVE  \E i \in 1..n : place[i] = k /\ Arranged(os, before)[k] = os[i]
  BY <1>1 DEF Arranged
<1> QED
  BY <1>1, <1>2

(* If the positions already have an order that "before" follows, it is the *)
(* places that are assigned.                                               *)
LEMMA PlacesFollow ==
  ASSUME NEW n \in Nat, NEW p, p \in Bijection(1..n, 1..n), NEW before,
         \A i, j \in 1..n : <<j, i>> \in before <=> p[j] < p[i],
         NEW i \in 1..n
  PROVE  Place(n, before, i) = p[i]
<1> DEFINE Ahead == {j \in 1..n : <<j, i>> \in before}
           Below == 1..(p[i] - 1)
           f == [j \in Ahead |-> p[j]]
<1>1. /\ p \in [1..n -> 1..n]
      /\ \A j, k \in 1..n : p[j] = p[k] => j = k
      /\ \A k \in 1..n : \E j \in 1..n : p[j] = k
  BY PermutationMeans, Zenon
<1>2. f \in Bijection(Ahead, Below)
  <2>1. f \in [Ahead -> Below]
    BY <1>1
  <2>2. \A j, k \in Ahead : f[j] = f[k] => j = k
    BY <1>1
  <2>3. \A k \in Below : \E j \in Ahead : f[j] = k
    <3>1. ASSUME NEW k \in Below PROVE \E j \in Ahead : f[j] = k
      <4>1. p[i] \in 1..n /\ k \in 1..n /\ k < p[i]
        BY <1>1
      <4>2. PICK j \in 1..n : p[j] = k
        BY <1>1, <4>1
      <4>3. j \in Ahead
        BY <4>1, <4>2
      <4> QED
        BY <4>2, <4>3
    <3> QED
      BY <3>1
  <2> HIDE DEF f, Ahead, Below
  <2> QED
    BY <2>1, <2>2, <2>3, BijectionMeans, Zenon
<1>3. IsFiniteSet(Ahead)
  <2>1. IsFiniteSet(1..n) /\ Ahead \in SUBSET (1..n)
    BY FS_Interval
  <2> QED
    BY <2>1, FS_Subset
<1>4. Cardinality(Below) = Cardinality(Ahead)
  <2>1. ExistsBijection(Ahead, Below)
    BY <1>2 DEF ExistsBijection
  <2> QED
    BY <1>3, <2>1, FS_Bijection
<1>5. Cardinality(Below) = p[i] - 1
  <2>1. p[i] \in 1..n
    BY <1>1
  <2> QED
    BY <2>1, FS_Interval
<1> QED
  BY <1>1, <1>4, <1>5 DEF Place

(* Sorting then puts each element where that order has it.                 *)
LEMMA ArrangedFollows ==
  ASSUME NEW os, Len(os) \in Nat, NEW p, p \in Bijection(1..Len(os), 1..Len(os)), NEW before,
         \A i, j \in 1..Len(os) : <<j, i>> \in before <=> p[j] < p[i],
         NEW i \in 1..Len(os)
  PROVE  p[i] \in 1..Len(os) /\ Arranged(os, before)[p[i]] = os[i]
<1>1. \A j \in 1..Len(os) : Place(Len(os), before, j) = p[j]
  BY PlacesFollow
<1>2. /\ p \in [1..Len(os) -> 1..Len(os)]
      /\ \A j, k \in 1..Len(os) : p[j] = p[k] => j = k
  BY PermutationMeans, Zenon
<1> QED
  BY <1>1, <1>2 DEF Arranged

(* And what is in order stays as it is.                                    *)
LEMMA ArrangedInOrder ==
  ASSUME NEW os, Len(os) \in Nat, NEW before,
         \A i, j \in 1..Len(os) : <<j, i>> \in before <=> j < i
  PROVE  Arranged(os, before) = [k \in 1..Len(os) |-> os[k]]
<1> DEFINE p == [k \in 1..Len(os) |-> k]
<1>1. p \in Bijection(1..Len(os), 1..Len(os))
  <2>1. p \in [1..Len(os) -> 1..Len(os)]
    OBVIOUS
  <2> QED
    BY <2>1, Fun_IsBij
<1>2. \A i, j \in 1..Len(os) : <<j, i>> \in before <=> p[j] < p[i]
  OBVIOUS
<1>3. \A k \in 1..Len(os) : p[k] = k
  OBVIOUS
<1> HIDE DEF p
<1>4. \A k \in 1..Len(os) : Arranged(os, before)[k] = os[k]
  BY <1>1, <1>2, <1>3, ArrangedFollows
<1> QED
  BY <1>4 DEF Arranged

-----------------------------------------------------------------------------
(* The members of a finite set in ascending order.                         *)

Below(S, x) == {y \in S : y < x}

LEMMA AscendingMeans ==
  ASSUME NEW S, S \subseteq Nat, IsFiniteSet(S)
  PROVE  /\ Cardinality(S) \in Nat
         /\ Ascending(S) \in Seq(S) /\ Len(Ascending(S)) = Cardinality(S)
         /\ \A k \in 1..Cardinality(S) :
              Ascending(S)[k] \in S /\ Cardinality(Below(S, Ascending(S)[k])) = k - 1
         /\ \A x \in S : /\ Cardinality(Below(S, x)) + 1 \in 1..Cardinality(S)
                         /\ Ascending(S)[Cardinality(Below(S, x)) + 1] = x
<1> DEFINE before == {p \in S \X S : p[1] < p[2]}
           rank == [x \in S |-> Rank(S, before, x)]
           n == Cardinality(S)
<1>1. n \in Nat
  BY FS_CardinalityType
<1>2. /\ rank \in [S -> 1..n]
      /\ \A x, y \in S : rank[x] = rank[y] => x = y
      /\ \A k \in 1..n : \E x \in S : rank[x] = k
  <2>1. /\ \A x \in S : <<x, x>> \notin before
        /\ \A x, y, z \in S : <<x, y>> \in before /\ <<y, z>> \in before => <<x, z>> \in before
        /\ \A x, y \in S : x = y \/ <<x, y>> \in before \/ <<y, x>> \in before
    OBVIOUS
  <2> HIDE DEF before
  <2>2. rank \in Bijection(S, 1..n)
    BY <2>1, RanksAreDistinct
  <2> HIDE DEF rank, n
  <2> QED
    BY <2>2 DEF Bijection, Injection, Surjection, IsInjective
<1>3. \A x \in S : Below(S, x) = {y \in S : <<y, x>> \in before}
  BY DEF Below
<1>4. ASSUME NEW x \in S PROVE rank[x] = Cardinality(Below(S, x)) + 1
  <2> HIDE DEF before
  <2> QED
    BY <1>3, <1>4 DEF Rank
<1>5. ASSUME NEW x \in S PROVE Cardinality(Below(S, x)) \in Nat
  <2>1. Below(S, x) \in SUBSET S
    BY DEF Below
  <2> QED
    BY <2>1, FS_Subset, FS_CardinalityType
<1> HIDE DEF rank, n
<1>6. \A x \in S : Cardinality(Below(S, x)) = rank[x] - 1
  BY <1>4, <1>5
<1>7. ASSUME NEW k \in 1..n
      PROVE  Ascending(S)[k] \in S /\ Cardinality(Below(S, Ascending(S)[k])) = k - 1
  <2>1. \E x \in S : Cardinality(Below(S, x)) = k - 1
    BY <1>2, <1>6
  <2>2. Ascending(S)[k] = CHOOSE x \in S : Cardinality(Below(S, x)) = k - 1
    BY DEF Ascending, Below, n
  <2> QED
    BY <2>1, <2>2
<1>8. ASSUME NEW x \in S
      PROVE  /\ Cardinality(Below(S, x)) + 1 \in 1..n
             /\ Ascending(S)[Cardinality(Below(S, x)) + 1] = x
  <2> DEFINE k == Cardinality(Below(S, x)) + 1
  <2>1. k \in 1..n /\ rank[x] = k
    BY <1>2, <1>4
  <2> HIDE DEF k
  <2>2. Ascending(S)[k] \in S /\ rank[Ascending(S)[k]] = k
    <3>1. Cardinality(Below(S, Ascending(S)[k])) = k - 1 /\ Ascending(S)[k] \in S
      BY <1>7, <2>1
    <3>2. rank[Ascending(S)[k]] = Cardinality(Below(S, Ascending(S)[k])) + 1
      BY <1>4, <3>1
    <3> QED
      BY <2>1, <3>1, <3>2
  <2>3. Ascending(S)[k] = x
    BY <1>2, <2>1, <2>2
  <2> QED
    BY <2>1, <2>3 DEF k
<1>9. Ascending(S) \in Seq(S) /\ Len(Ascending(S)) = n
  <2>1. Ascending(S) = [k \in 1..n |-> Ascending(S)[k]]
    <3> DEFINE entry(k) == CHOOSE x \in S : Cardinality({y \in S : y < x}) = k - 1
    <3>1. Ascending(S) = [k \in 1..n |-> entry(k)]
      BY DEF Ascending, n
    <3> HIDE DEF entry, n
    <3> QED
      BY <3>1
  <2>2. \A k \in 1..n : Ascending(S)[k] \in S
    BY <1>7
  <2> HIDE DEF n
  <2> QED
    BY <1>1, <2>1, <2>2
<1> QED
  BY <1>1, <1>7, <1>8, <1>9 DEF n

(* A member greater than all others comes last.                            *)
LEMMA AscendingAppends ==
  ASSUME NEW S, S \subseteq Nat, IsFiniteSet(S), NEW x \in Nat, \A y \in S : y < x
  PROVE  Ascending(S \cup {x}) = Append(Ascending(S), x)
<1> DEFINE T == S \cup {x}
           n == Cardinality(S)
           s == Ascending(S)
           t == Ascending(T)
<1>0. T \subseteq Nat /\ x \in T /\ S \subseteq T
  OBVIOUS
<1>1. IsFiniteSet(T) /\ x \notin S
  <2>1. ~ (x < x)
    OBVIOUS
  <2> QED
    BY <2>1, FS_AddElement
<1>2. n \in Nat /\ Cardinality(T) = n + 1
  BY <1>1, FS_AddElement, FS_CardinalityType
<1>3. Below(T, x) = S /\ \A y \in S : Below(T, y) = Below(S, y)
  <2>1. \A y \in S : y \in Nat /\ y < x /\ ~ (x < y)
    OBVIOUS
  <2>2. ~ (x < x)
    OBVIOUS
  <2> QED
    BY <2>1, <2>2 DEF Below
<1>4. s \in Seq(S) /\ Len(s) = n /\ \A k \in 1..n : s[k] \in S /\ Cardinality(Below(S, s[k])) = k - 1
  BY AscendingMeans
<1>5. t \in Seq(T) /\ Len(t) = n + 1
      /\ \A y \in T : t[Cardinality(Below(T, y)) + 1] = y
  <2> HIDE DEF T
  <2> QED
    BY <1>0, <1>1, <1>2, AscendingMeans
<1> HIDE DEF T, n, s, t
<1>6. t[n + 1] = x
  BY <1>0, <1>3, <1>5 DEF n
<1>7. ASSUME NEW k \in 1..n PROVE t[k] = s[k]
  <2>1. s[k] \in S /\ s[k] \in T /\ Cardinality(Below(T, s[k])) = k - 1
    BY <1>0, <1>3, <1>4
  <2>2. t[(k - 1) + 1] = s[k]
    BY <1>5, <2>1
  <2> QED
    BY <2>2
<1>8. t = Append(s, x)
  <2>1. s \in Seq(T) /\ t \in Seq(T) /\ x \in T
    BY <1>0, <1>4, <1>5, SeqMonotonic
  <2>2. /\ Append(s, x) \in Seq(T) /\ Len(Append(s, x)) = n + 1
        /\ Append(s, x)[n + 1] = x /\ \A k \in 1..n : Append(s, x)[k] = s[k]
    BY <1>2, <1>4, <2>1
  <2>3. \A k \in 1..(n + 1) : t[k] = Append(s, x)[k]
    BY <1>2, <1>6, <1>7, <2>2
  <2> QED
    BY <1>5, <2>1, <2>2, <2>3, SeqEqual
<1> QED
  BY <1>8 DEF s, t, T

-----------------------------------------------------------------------------
(* Lists one after the other.                                              *)

LEMMA JoinedEquation ==
  ASSUME NEW parts, Len(parts) \in Nat
  PROVE  Joined(parts) =
           [k \in 0..Len(parts) |-> IF k = 0 THEN <<>> ELSE Joined(parts)[k - 1] \o parts[k]]
<1> DEFINE n == Len(parts)
           Body(g, k) == IF k = 0 THEN <<>> ELSE g[k - 1] \o parts[k]
           Upto(m) == \E g : g = [k \in 0..m |-> Body(g, k)]
           S == {m \in 0..n : Upto(m)}
<1>1. 0 \in S
  <2> DEFINE g == [k \in 0..0 |-> <<>>]
  <2>1. g = [k \in 0..0 |-> Body(g, k)]
    OBVIOUS
  <2> HIDE DEF g, Body
  <2>2. Upto(0)
    BY <2>1, Zenon
  <2> HIDE DEF Upto
  <2> QED
    BY <2>2
<1>2. ASSUME NEW m \in 1..n, m - 1 \in S PROVE m \in S
  <2>1. PICK g : g = [k \in 0..(m - 1) |-> Body(g, k)]
    BY <1>2
  <2> DEFINE h == [k \in 0..m |-> IF k = m THEN Body(g, m) ELSE g[k]]
  <2>2. \A k \in 0..m : k # 0 => k - 1 \in 0..(m - 1) /\ h[k - 1] = g[k - 1]
    OBVIOUS
  <2>3. \A k \in 0..m : h[k] = Body(h, k)
    <3>1. ASSUME NEW k \in 0..m PROVE Body(h, k) = Body(g, k)
      BY <2>2
    <3>2. \A k \in 0..(m - 1) : g[k] = Body(g, k)
      BY <2>1
    <3>3. ASSUME NEW k \in 0..m PROVE h[k] = Body(g, k)
      BY <3>2
    <3> HIDE DEF Body, h
    <3> QED
      BY <3>1, <3>3
  <2>4. h = [k \in 0..m |-> Body(h, k)]
    <3> HIDE DEF Body
    <3> QED
      BY <2>3
  <2> HIDE DEF h, Body
  <2>5. Upto(m)
    BY <2>4, Zenon
  <2> HIDE DEF Upto
  <2> QED
    BY <2>5
<1>3. Upto(n)
  <2>1. n \in 0..n /\ n \in Nat
    OBVIOUS
  <2> HIDE DEF Upto, n
  <2>2. 0..n \subseteq S
    <3> HIDE DEF S
    <3> QED
      BY <1>1, <1>2, <2>1, UpTo
  <2> QED
    BY <2>1, <2>2
<1>4. Joined(parts) = CHOOSE g : g = [k \in 0..n |-> Body(g, k)]
  BY DEF Joined
<1> HIDE DEF Body
<1>5. Joined(parts) = [k \in 0..n |-> Body(Joined(parts), k)]
  BY <1>3, <1>4, Zenon
<1> QED
  BY <1>5 DEF Body

(* What one part adds.                                                     *)
LEMMA JoinedParts ==
  ASSUME NEW S, NEW parts \in Seq(Seq(S))
  PROVE  /\ Joined(parts)[0] = <<>>
         /\ \A k \in 0..Len(parts) : Joined(parts)[k] \in Seq(S)
         /\ \A k \in 1..Len(parts) : Joined(parts)[k] = Joined(parts)[k - 1] \o parts[k]
<1> DEFINE J == Joined(parts)
           n == Len(parts)
           Fine == {k \in 0..n : J[k] \in Seq(S)}
<1>1. n \in Nat /\ \A k \in 1..n : parts[k] \in Seq(S)
  BY LenProperties
<1>2. J = [k \in 0..n |-> IF k = 0 THEN <<>> ELSE J[k - 1] \o parts[k]]
  BY <1>1, JoinedEquation
<1> HIDE DEF J, n
<1>3. J[0] = <<>> /\ \A k \in 1..n : J[k] = J[k - 1] \o parts[k]
  <2>1. \A k \in 0..n : J[k] = IF k = 0 THEN <<>> ELSE J[k - 1] \o parts[k]
    BY <1>2
  <2>2. 0 \in 0..n /\ \A k \in 1..n : k \in 0..n /\ k # 0
    BY <1>1
  <2> QED
    BY <2>1, <2>2
<1>4. 0..n \subseteq Fine
  <2>1. 0 \in Fine
    <3>1. <<>> \in Seq(S)
      BY EmptySeq
    <3>2. J[0] \in Seq(S)
      BY <1>3, <3>1, Zenon
    <3>3. 0 \in 0..n
      BY <1>1
    <3> QED
      BY <3>2, <3>3, Zenon
  <2>2. ASSUME NEW m \in 1..n, m - 1 \in Fine PROVE m \in Fine
    <3>1. J[m - 1] \o parts[m] \in Seq(S)
      BY <1>1, <2>2, ConcatProperties
    <3>2. J[m] = J[m - 1] \o parts[m]
      BY <1>3
    <3>3. J[m] \in Seq(S)
      BY <3>1, <3>2, Zenon
    <3>4. m \in 0..n
      BY <1>1
    <3> QED
      BY <3>3, <3>4, Zenon
  <2> HIDE DEF Fine
  <2> QED
    BY <1>1, <2>1, <2>2, UpTo
<1> QED
  BY <1>3, <1>4 DEF J, n

Continues(old, part, new) ==
  /\ Len(part) \in Nat /\ Len(old) \in Nat /\ Len(new) = Len(old) + Len(part)
  /\ \A q \in 1..Len(old) : new[q] = old[q]
  /\ \A i \in 1..Len(part) : new[Len(old) + i] = part[i]

LEMMA JoinedStep ==
  ASSUME NEW S, NEW parts \in Seq(Seq(S)), NEW k \in 1..Len(parts)
  PROVE  Continues(Joined(parts)[k - 1], parts[k], Joined(parts)[k])
<1> DEFINE new == Joined(parts)[k]
           old == Joined(parts)[k - 1]
           part == parts[k]
<1>1. old \in Seq(S) /\ part \in Seq(S) /\ new = old \o part
  <2>1. k - 1 \in 0..Len(parts)
    BY LenProperties
  <2> QED
    BY <2>1, JoinedParts, ElementOfSeq
<1> HIDE DEF new, old, part
<1>2. Len(old) \in Nat /\ Len(part) \in Nat
  BY <1>1, LenProperties
<1>3. Len(new) = Len(old) + Len(part)
      /\ \A q \in 1..(Len(old) + Len(part)) :
           new[q] = IF q <= Len(old) THEN old[q] ELSE part[q - Len(old)]
  BY <1>1, ConcatProperties
<1>4. \A q \in 1..Len(old) : new[q] = old[q]
  BY <1>2, <1>3
<1>5. \A i \in 1..Len(part) : new[Len(old) + i] = part[i]
  <2>1. ASSUME NEW i \in 1..Len(part) PROVE new[Len(old) + i] = part[i]
    <3>1. /\ Len(old) + i \in 1..(Len(old) + Len(part)) /\ ~ (Len(old) + i <= Len(old))
          /\ (Len(old) + i) - Len(old) = i
      BY <1>2
    <3> QED
      BY <1>3, <3>1
  <2> QED
    BY <2>1
<1> QED
  BY <1>2, <1>3, <1>4, <1>5 DEF new, old, part, Continues

(* What is in an earlier list stays where it is.                           *)
LEMMA JoinedGrows ==
  ASSUME NEW S, NEW parts \in Seq(Seq(S)), NEW a \in 0..Len(parts), NEW b \in a..Len(parts)
  PROVE  /\ Len(Joined(parts)[a]) \in Nat /\ Len(Joined(parts)[b]) \in Nat
         /\ Len(Joined(parts)[a]) <= Len(Joined(parts)[b])
         /\ \A q \in 1..Len(Joined(parts)[a]) : Joined(parts)[b][q] = Joined(parts)[a][q]
<1> DEFINE J == Joined(parts)
           n == Len(parts)
           Fine == {m \in 0..n : m >= a => /\ Len(J[a]) <= Len(J[m])
                                           /\ \A q \in 1..Len(J[a]) : J[m][q] = J[a][q]}
<1>1. n \in Nat /\ a \in 0..n /\ b \in 0..n /\ b >= a
  BY LenProperties
<1>2. \A m \in 0..n : Len(J[m]) \in Nat
  BY JoinedParts, LenProperties
<1>3. ASSUME NEW m \in 1..n
      PROVE  /\ Len(J[m - 1]) <= Len(J[m])
             /\ \A q \in 1..Len(J[m - 1]) : J[m][q] = J[m - 1][q]
  <2>1. /\ Len(parts[m]) \in Nat /\ Len(J[m - 1]) \in Nat
        /\ Len(J[m]) = Len(J[m - 1]) + Len(parts[m])
        /\ \A q \in 1..Len(J[m - 1]) : J[m][q] = J[m - 1][q]
    <3>1. Continues(J[m - 1], parts[m], J[m])
      BY JoinedStep
    <3> QED
      BY <3>1, Zenon DEF Continues
  <2> DEFINE old == Len(J[m - 1])
             part == Len(parts[m])
             new == Len(J[m])
  <2>2. old \in Nat /\ part \in Nat /\ new = old + part
    BY <2>1
  <2> HIDE DEF old, part, new
  <2>3. old <= new
    BY <2>2
  <2> QED
    BY <2>1, <2>3 DEF old, new
<1> HIDE DEF J, n
<1>4. 0 \in Fine
  BY <1>1, <1>2
<1>5. ASSUME NEW m \in 1..n, m - 1 \in Fine PROVE m \in Fine
  <2>1. m \in 0..n /\ m - 1 \in 0..n /\ a \in Nat
    BY <1>1
  <2>2. CASE m < a
    BY <2>1, <2>2
  <2>3. CASE m = a
    BY <1>2, <2>1, <2>3
  <2>4. CASE m > a
    <3>1. m - 1 >= a
      BY <2>1, <2>4
    <3>2. Len(J[a]) <= Len(J[m - 1]) /\ \A q \in 1..Len(J[a]) : J[m - 1][q] = J[a][q]
      BY <1>5, <3>1
    <3>3. Len(J[a]) \in Nat /\ Len(J[m - 1]) \in Nat /\ Len(J[m]) \in Nat
      BY <1>1, <1>2, <2>1
    <3>4. Len(J[a]) <= Len(J[m])
      BY <1>3, <3>2, <3>3
    <3>5. ASSUME NEW q \in 1..Len(J[a]) PROVE J[m][q] = J[a][q]
      <4>1. q \in 1..Len(J[m - 1])
        BY <3>2, <3>3
      <4> QED
        BY <1>3, <3>2, <4>1
    <3> QED
      BY <2>1, <3>4, <3>5
  <2> QED
    BY <2>1, <2>2, <2>3, <2>4
<1>6. 0..n \subseteq Fine
  <2> HIDE DEF Fine
  <2> QED
    BY <1>1, <1>4, <1>5, UpTo
<1> QED
  BY <1>1, <1>2, <1>6 DEF J, n

(* Every element of a part has its place behind the parts before it.       *)
LEMMA JoinedAt ==
  ASSUME NEW S, NEW parts \in Seq(Seq(S)), NEW k \in 1..Len(parts), NEW i \in 1..Len(parts[k])
  PROVE  LET all == Joined(parts)[Len(parts)]
             q   == Len(Joined(parts)[k - 1]) + i
         IN  q \in 1..Len(all) /\ all[q] = parts[k][i]
<1> DEFINE J == Joined(parts)
           n == Len(parts)
           q == Len(J[k - 1]) + i
<1>1. n \in Nat /\ k \in 0..n /\ n \in k..n
  BY LenProperties
<1>2. /\ Len(parts[k]) \in Nat /\ Len(J[k - 1]) \in Nat
      /\ Len(J[k]) = Len(J[k - 1]) + Len(parts[k])
      /\ J[k][q] = parts[k][i]
  BY JoinedStep DEF Continues
<1>3. q \in 1..Len(J[k])
  <2> DEFINE old == Len(J[k - 1])
             part == Len(parts[k])
             new == Len(J[k])
  <2>1. old \in Nat /\ part \in Nat /\ new = old + part /\ i \in 1..part /\ q = old + i
    BY <1>2
  <2> HIDE DEF old, part, new, q
  <2>2. q \in 1..new
    BY <2>1
  <2> QED
    BY <2>2 DEF new
<1>4. /\ Len(J[k]) \in Nat /\ Len(J[n]) \in Nat /\ Len(J[k]) <= Len(J[n])
      /\ \A p \in 1..Len(J[k]) : J[n][p] = J[k][p]
  BY <1>1, JoinedGrows
<1> HIDE DEF J, n, q
<1>5. q \in 1..Len(J[n]) /\ J[n][q] = parts[k][i]
  <2> DEFINE some == Len(J[k])
             whole == Len(J[n])
  <2>1. some \in Nat /\ whole \in Nat /\ some <= whole /\ q \in 1..some
    BY <1>3, <1>4
  <2> HIDE DEF some, whole
  <2>2. q \in 1..whole
    BY <2>1
  <2>3. J[n][q] = J[k][q]
    BY <1>3, <1>4
  <2> QED
    BY <1>2, <2>2, <2>3 DEF whole
<1> QED
  BY <1>5 DEF J, n, q

(* And there is nothing else.                                              *)
LEMMA JoinedFrom ==
  ASSUME NEW S, NEW parts \in Seq(Seq(S)), NEW q \in 1..Len(Joined(parts)[Len(parts)])
  PROVE  \E k \in 1..Len(parts) : \E i \in 1..Len(parts[k]) : q = Len(Joined(parts)[k - 1]) + i
<1> DEFINE J == Joined(parts)
           n == Len(parts)
           From(p, m) == \E k \in 1..m : \E i \in 1..Len(parts[k]) : p = Len(J[k - 1]) + i
           Fine == {m \in 0..n : \A p \in 1..Len(J[m]) : From(p, m)}
<1>1. n \in Nat /\ n \in 0..n /\ Len(J[0]) = 0
  <2>1. n \in Nat
    BY LenProperties
  <2>2. J[0] = <<>> /\ Len(<<>>) = 0
    BY JoinedParts, EmptySeq
  <2> HIDE DEF J, n
  <2> QED
    BY <2>1, <2>2
<1>2. 0 \in Fine
  <2>1. \A p \in 1..Len(J[0]) : FALSE
    BY <1>1
  <2> HIDE DEF J, From
  <2> QED
    BY <1>1, <2>1
<1>3. ASSUME NEW m \in 1..n, m - 1 \in Fine PROVE m \in Fine
  <2>1. /\ Len(parts[m]) \in Nat /\ Len(J[m - 1]) \in Nat
        /\ Len(J[m]) = Len(J[m - 1]) + Len(parts[m])
    <3>1. Continues(J[m - 1], parts[m], J[m])
      BY JoinedStep
    <3> QED
      BY <3>1, Zenon DEF Continues
  <2>2. ASSUME NEW p \in 1..Len(J[m]) PROVE From(p, m)
    <3>1. CASE p <= Len(J[m - 1])
      <4>1. p \in 1..Len(J[m - 1])
        BY <2>1, <3>1
      <4>2. From(p, m - 1)
        BY <1>3, <4>1
      <4>3. \A k \in 1..(m - 1) : k \in 1..m
        OBVIOUS
      <4> HIDE DEF J
      <4> QED
        BY <4>2, <4>3
    <3>2. CASE p > Len(J[m - 1])
      <4> HIDE DEF J
      <4> DEFINE old == Len(J[m - 1])
                 part == Len(parts[m])
                 new == Len(J[m])
      <4>0. p \in 1..new /\ new = old + part /\ old \in Nat /\ part \in Nat /\ p > old
        BY <2>1, <3>2
      <4> HIDE DEF old, part, new
      <4>1. p - old \in 1..part /\ p = old + (p - old)
        BY <4>0
      <4> USE DEF old, part
      <4>2. m \in 1..m
        OBVIOUS
      <4> QED
        BY <4>1, <4>2
    <3> HIDE DEF J, From
    <3> QED
      BY <2>1, <3>1, <3>2
  <2>3. m \in 0..n
    OBVIOUS
  <2> HIDE DEF J, From
  <2> QED
    BY <2>2, <2>3
<1>4. 0..n \subseteq Fine
  <2> HIDE DEF Fine, n
  <2> QED
    BY <1>1, <1>2, <1>3, UpTo
<1>5. From(q, n)
  <2> HIDE DEF From, J, n
  <2>1. q \in 1..Len(J[n])
    BY DEF J, n
  <2> QED
    BY <1>1, <1>4, <2>1
<1> QED
  BY <1>5
=============================================================================
