--------------------------- MODULE GreeMap_proofs ---------------------------
(***************************************************************************)
(* The Gree VRF map decoder, for every traffic: whichever frames arrive,   *)
(* in whichever order.  The rows of a frame are applied one after the      *)
(* other by a recursive function; what it computes is proved by induction  *)
(* on the place in the table.                                              *)
(***************************************************************************)
EXTENDS GreeMap, WellFoundedInduction, TLAPS

-----------------------------------------------------------------------------
(* Induction.  The induction theorems of the library are about an operator; *)
(* the least element of a set of naturals gives one about a set.           *)

LEMMA LeastOf ==
  ASSUME NEW T \in SUBSET Nat, T # {}
  PROVE  \E m \in T : \A k \in T : m <= k
<1> DEFINE R == OpToRel(<, Nat)
<1>1. IsWellFoundedOn(R, Nat)
  BY NatLessThanWellFounded, Zenon
<1>2. \A a, b \in Nat : a < b => <<a, b>> \in R
  BY DEF OpToRel
<1>3. \E x \in T : \A y \in T : ~(<<y, x>> \in R)
  <2> HIDE DEF R
  <2> QED
    BY <1>1, WFMin, Zenon
<1>4. PICK x \in T : \A y \in T : ~(<<y, x>> \in R)
  BY <1>3, Zenon
<1>5. ASSUME NEW y \in T
      PROVE  x <= y
  <2>1. ~(<<y, x>> \in R)
    BY <1>4, Zenon
  <2>2. y \in Nat /\ x \in Nat
    OBVIOUS
  <2>3. ~ (y < x)
    BY <1>2, <2>1, <2>2, Zenon
  <2>4. QED
    BY <2>2, <2>3
<1>6. QED
  BY <1>5

\* A set of places that has the first and with each its successor has them all.
LEMMA PlaceInduction ==
  ASSUME NEW n \in Nat, NEW T, 0 \in T, \A j \in 1 .. n : j - 1 \in T => j \in T
  PROVE  0 .. n \subseteq T
<1> DEFINE rest == (0 .. n) \ T
<1> SUFFICES ASSUME rest # {}
             PROVE  FALSE
  OBVIOUS
<1>0. rest \in SUBSET Nat
  OBVIOUS
<1>1. PICK m \in rest : \A k \in rest : m <= k
  <2> HIDE DEF rest
  <2> QED
    BY <1>0, LeastOf
<1>2. m \in 1 .. n /\ m - 1 \in 0 .. n
  OBVIOUS
<1>3. m - 1 \in T
  BY <1>1, <1>2
<1>4. QED
  BY <1>2, <1>3

LEMMA LastIs ==
  ASSUME NEW n \in Nat, NEW S \in SUBSET (0 .. n), S # {}
  PROVE  Last(S) \in S /\ \A k \in S : k <= Last(S)
<1> DEFINE T == {n - k : k \in S}
<1>1. T \in SUBSET Nat /\ T # {}
  OBVIOUS
<1>2. PICK m \in T : \A k \in T : m <= k
  BY <1>1, LeastOf
<1>3. PICK j \in S : m = n - j
  OBVIOUS
<1>4. \A k \in S : k <= j
  <2>1. \A k \in S : n - k \in T
    OBVIOUS
  <2> HIDE DEF T
  <2>2. QED
    BY <1>2, <1>3, <2>1
<1>5. QED
  BY <1>4 DEF Last
-----------------------------------------------------------------------------
(* The rows of a frame, one after the other.                               *)

\* f lists the states after 0, 1, .. rows of the table.
Applies(f, d, s, frame, n) ==
  /\ f[0] = Restarted(s, frame)
  /\ \A j \in 1 .. n :
       f[j] = IF j \in Matched(d, frame)
              THEN ApplyEntry(f[j - 1], Table(d)[j], Raw(Table(d)[j], frame.data))
              ELSE f[j - 1]

LEMMA StatesExist ==
  ASSUME NEW d, NEW s, NEW frame, NEW n \in Nat
  PROVE  \E f : Applies(f, d, s, frame, n)
<1> DEFINE T == {m \in Nat : \E f : Applies(f, d, s, frame, m)}
<1>1. 0 \in T
  <2>1. Applies([j \in {0} |-> Restarted(s, frame)], d, s, frame, 0)
    BY DEF Applies
  <2>2. QED
    BY <2>1, Zenon
<1>2. ASSUME NEW m \in 1 .. n, m - 1 \in T
      PROVE  m \in T
  <2>1. PICK f : Applies(f, d, s, frame, m - 1)
    BY <1>2
  <2> DEFINE last == IF m \in Matched(d, frame)
                     THEN ApplyEntry(f[m - 1], Table(d)[m], Raw(Table(d)[m], frame.data))
                     ELSE f[m - 1]
             g == [j \in 0 .. m |-> IF j = m THEN last ELSE f[j]]
  <2>2. g[0] = f[0] /\ g[m] = last /\ \A j \in 0 .. m - 1 : g[j] = f[j]
    OBVIOUS
  <2>3. g[m] = IF m \in Matched(d, frame)
               THEN ApplyEntry(g[m - 1], Table(d)[m], Raw(Table(d)[m], frame.data))
               ELSE g[m - 1]
    BY <2>2
  <2> HIDE DEF g, last
  <2>4. \A j \in 1 .. m - 1 : g[j] = f[j] /\ g[j - 1] = f[j - 1]
    BY <2>2
  <2>5. Applies(g, d, s, frame, m)
    BY <2>1, <2>2, <2>3, <2>4 DEF Applies
  <2>6. QED
    BY <2>5
<1>3. n \in 0 .. n /\ 0 .. n \subseteq T
  <2> HIDE DEF T
  <2> QED
    BY <1>1, <1>2, PlaceInduction
<1>4. QED
  BY <1>3

\* What a table and a frame have to do with each other.
Fits(d, frame, n) ==
  /\ n \in Nat /\ n = Len(Table(d))
  /\ Matched(d, frame) \subseteq 1 .. n

\* The recursive function of RowsApplied, unfolded.
LEMMA RowsInOrder ==
  ASSUME NEW d, NEW s, NEW frame, NEW n, Fits(d, frame, n)
  PROVE  \E f : Applies(f, d, s, frame, n) /\ RowsApplied(d, s, frame) = f[n]
<1> DEFINE M == Matched(d, frame)
           places == M \cup {0}
           before(j) == Last({k \in places : k < j})
           upto(j) == Last({k \in places : k <= j})
           apply(t, j) == ApplyEntry(t, Table(d)[j], Raw(Table(d)[j], frame.data))
           Steps(g) == g = [j \in places |-> IF j = 0 THEN Restarted(s, frame)
                                             ELSE apply(g[before(j)], j)]
<1>1. n \in Nat /\ n = Len(Table(d)) /\ M \subseteq 1 .. n
  BY DEF Fits
<1>2. ASSUME NEW j \in 0 .. n
      PROVE  /\ upto(j) \in places /\ upto(j) <= j
             /\ j \in places => upto(j) = j
             /\ j \in 1 .. n => before(j) = upto(j - 1)
             /\ j \in 1 .. n /\ j \notin M => upto(j) = upto(j - 1)
  <2> DEFINE S == {k \in places : k <= j}
  <2>1. S \in SUBSET (0 .. n) /\ S # {}
    BY <1>1
  <2>2. Last(S) \in S /\ \A k \in S : k <= Last(S)
    <3> HIDE DEF S
    <3> QED
      BY <1>1, <2>1, LastIs
  <2>3. j \in places => Last(S) = j
    BY <1>1, <2>2
  <2>4. j \in 1 .. n => {k \in places : k < j} = {k \in places : k <= j - 1}
    BY <1>1
  <2>5. j \in 1 .. n /\ j \notin M => S = {k \in places : k <= j - 1}
    BY <1>1
  <2>6. QED
    BY <2>2, <2>3, <2>4, <2>5
<1>3. Last(places) = upto(n)
  <2>1. places = {k \in places : k <= n}
    BY <1>1
  <2>2. QED
    BY <2>1
<1>n. \A j \in 1 .. n : j \in 0 .. n /\ j - 1 \in 0 .. n /\ j # 0
  BY <1>1
<1>z. 0 \in 0 .. n /\ 0 \in places /\ 0 \notin M
  BY <1>1
<1>m. \A j \in M : j \in places /\ j \in 1 .. n
  BY <1>1
<1> HIDE DEF upto, before, places, M
<1>0. upto(0) = 0
  BY <1>2, <1>z
<1>4. \E g : Steps(g)
  <2>1. PICK f : Applies(f, d, s, frame, n)
    BY <1>1, StatesExist
  <2> DEFINE T == {j \in 0 .. n : f[j] = f[upto(j)]}
             g == [j \in places |-> f[j]]
  <2>2. 0 .. n \subseteq T
    <3>1. 0 \in T
      BY <1>0, <1>z
    <3>2. ASSUME NEW j \in 1 .. n, j - 1 \in T
          PROVE  j \in T
      <4>1. CASE j \in M
        BY <1>2, <1>m, <1>n, <4>1
      <4>2. CASE j \notin M
        <5>1. f[j] = f[j - 1]
          BY <2>1, <4>2 DEF Applies, M
        <5>2. upto(j) = upto(j - 1)
          BY <1>2, <1>n, <4>2
        <5>3. QED
          BY <1>n, <3>2, <5>1, <5>2
      <4>3. QED
        BY <4>1, <4>2
    <3> HIDE DEF T
    <3>3. QED
      BY <1>1, <3>1, <3>2, PlaceInduction
  <2>3. ASSUME NEW j \in M
        PROVE  f[j] = apply(g[before(j)], j)
    <3>1. j \in 1 .. n /\ j - 1 \in 0 .. n /\ j \in 0 .. n
      BY <1>m, <1>n
    <3>2. f[j] = apply(f[j - 1], j)
      BY <2>1, <3>1 DEF Applies, M
    <3>3. f[j - 1] = f[upto(j - 1)] /\ before(j) = upto(j - 1) /\ upto(j - 1) \in places
      BY <1>2, <2>2, <3>1
    <3>4. f[j - 1] = g[before(j)]
      BY <3>3
    <3>5. QED
      BY <3>2, <3>4
  <2>4. f[0] = Restarted(s, frame)
    BY <2>1 DEF Applies
  <2>5. \A j \in places : g[j] = IF j = 0 THEN Restarted(s, frame) ELSE apply(g[before(j)], j)
    <3>1. \A j \in places : g[j] = f[j]
      OBVIOUS
    <3>2. \A j \in places : j = 0 \/ j \in M
      BY DEF places
    <3> HIDE DEF apply, g
    <3>3. QED
      BY <1>z, <2>3, <2>4, <3>1, <3>2
  <2>6. Steps(g)
    <3>1. g = [j \in places |-> g[j]]
      OBVIOUS
    <3> HIDE DEF apply, g
    <3>2. QED
      BY <2>5, <3>1
  <2>7. QED
    BY <2>6
<1> DEFINE after == CHOOSE g : Steps(g)
           h == [j \in 0 .. n |-> after[upto(j)]]
<1>5. Steps(after)
  <2> HIDE DEF Steps
  <2> QED
    BY <1>4
<1>6. RowsApplied(d, s, frame) = after[Last(places)]
  BY DEF RowsApplied, places, before, M
<1>7. Applies(h, d, s, frame, n)
  <2>1. h[0] = Restarted(s, frame)
    <3>1. after[0] = Restarted(s, frame)
      BY <1>5, <1>z
    <3>2. QED
      BY <1>0, <1>z, <3>1
  <2>2. ASSUME NEW j \in 1 .. n
        PROVE  h[j] = IF j \in M THEN apply(h[j - 1], j) ELSE h[j - 1]
    <3>1. j \in 0 .. n /\ j - 1 \in 0 .. n /\ j # 0
      BY <1>n
    <3>2. h[j] = after[upto(j)] /\ h[j - 1] = after[upto(j - 1)]
      BY <3>1
    <3>3. CASE j \in M
      <4>1. upto(j) = j /\ before(j) = upto(j - 1) /\ j # 0
        BY <1>2, <1>m, <3>1, <3>3
      <4>2. after[j] = apply(after[before(j)], j)
        <5> HIDE DEF apply, after
        <5> QED
          BY <1>5, <1>m, <3>1, <3>3
      <4>3. QED
        BY <3>2, <3>3, <4>1, <4>2
    <3>4. CASE j \notin M
      BY <1>2, <3>1, <3>2, <3>4
    <3>5. QED
      BY <3>3, <3>4
  <2> HIDE DEF h, apply
  <2>3. QED
    BY <2>1, <2>2 DEF Applies, M, apply
<1>8. RowsApplied(d, s, frame) = h[n]
  BY <1>1, <1>3, <1>6
<1>9. QED
  BY <1>7, <1>8
-----------------------------------------------------------------------------
(* Bits.                                                                   *)

LEMMA Powers ==
  /\ 2 ^ 0 = 1 /\ 2 ^ 1 = 2 /\ 2 ^ 2 = 4 /\ 2 ^ 3 = 8
  /\ 2 ^ 4 = 16 /\ 2 ^ 5 = 32 /\ 2 ^ 6 = 64 /\ 2 ^ 7 = 128
OBVIOUS

LEMMA BitTyped ==
  ASSUME NEW b \in Nat, NEW k \in 0 .. 7
  PROVE  BitOf(b, k) \in 0 .. 1
<1>1. k \in {0, 1, 2, 3, 4, 5, 6, 7}
  OBVIOUS
<1>2. QED
  BY <1>1, Powers DEF BitOf

\* The byte of eight bits.
SumOf(a) ==
  a[0] + 2 * a[1] + 4 * a[2] + 8 * a[3] + 16 * a[4] + 32 * a[5] + 64 * a[6] + 128 * a[7]

LEMMA BitsOfSum ==
  ASSUME NEW a \in [0 .. 7 -> 0 .. 1]
  PROVE  SumOf(a) \in U8 /\ \A k \in 0 .. 7 : BitOf(SumOf(a), k) = a[k]
<1>1. \A k \in 0 .. 7 : a[k] \in 0 .. 1
  OBVIOUS
<1>2. SumOf(a) \in U8
  BY <1>1 DEF SumOf, U8
<1> USE Powers DEF BitOf, SumOf
<1>3. BitOf(SumOf(a), 0) = a[0] BY <1>1
<1>4. BitOf(SumOf(a), 1) = a[1] BY <1>1
<1>5. BitOf(SumOf(a), 2) = a[2] BY <1>1
<1>6. BitOf(SumOf(a), 3) = a[3] BY <1>1
<1>7. BitOf(SumOf(a), 4) = a[4] BY <1>1
<1>8. BitOf(SumOf(a), 5) = a[5] BY <1>1
<1>9. BitOf(SumOf(a), 6) = a[6] BY <1>1
<1>10. BitOf(SumOf(a), 7) = a[7] BY <1>1
<1> HIDE DEF BitOf, SumOf
<1>11. \A k \in 0 .. 7 : k \in {0, 1, 2, 3, 4, 5, 6, 7} 
  OBVIOUS
<1>12. QED
  BY <1>2, <1>3, <1>4, <1>5, <1>6, <1>7, <1>8, <1>9, <1>10, <1>11

LEMMA SumOfBits ==
  ASSUME NEW b \in U8
  PROVE  b = SumOf([k \in 0 .. 7 |-> BitOf(b, k)])
BY Powers DEF BitOf, SumOf, U8

\* Writing one bit leaves the others alone.
LEMMA BitWritten ==
  ASSUME NEW b \in U8, NEW k \in 0 .. 7, NEW v \in 0 .. 1
  PROVE  /\ WithBit(b, k, v) \in U8
         /\ BitOf(WithBit(b, k, v), k) = v
         /\ \A j \in 0 .. 7 \ {k} : BitOf(WithBit(b, k, v), j) = BitOf(b, j)
<1> DEFINE a == [j \in 0 .. 7 |-> BitOf(b, j)]
           w == [j \in 0 .. 7 |-> IF j = k THEN v ELSE BitOf(b, j)]
<1>1. a \in [0 .. 7 -> 0 .. 1] /\ w \in [0 .. 7 -> 0 .. 1]
  BY BitTyped DEF U8
<1>2. b = SumOf(a)
  BY SumOfBits
<1>3. WithBit(b, k, v) = SumOf(w)
  <2>1. \A j \in 0 .. 7 : a[j] = BitOf(b, j) /\ a[j] \in 0 .. 1
    BY <1>1
  <2>2. WithBit(b, k, v) = SumOf(a) + (v - a[k]) * 2 ^ k
    BY <1>2, <2>1 DEF WithBit
  <2>3. k \in {0, 1, 2, 3, 4, 5, 6, 7}
    OBVIOUS
  <2>4. \A j \in 0 .. 7 : w[j] = IF j = k THEN v ELSE a[j]
    OBVIOUS
  <2> HIDE DEF a, w
  <2>a. /\ a[0] \in Int /\ a[1] \in Int /\ a[2] \in Int /\ a[3] \in Int
        /\ a[4] \in Int /\ a[5] \in Int /\ a[6] \in Int /\ a[7] \in Int
    BY <2>1
  <2>5. CASE k = 0
    <3> DEFINE r == 2 * a[1] + 4 * a[2] + 8 * a[3] + 16 * a[4] + 32 * a[5] + 64 * a[6] + 128 * a[7]
    <3>1. WithBit(b, k, v) = SumOf(a) + (v - a[0]) * 1
      BY <2>2, <2>5, Powers
    <3>2. w[0] = v /\ \A j \in 0 .. 7 \ {0} : w[j] = a[j]
      BY <2>4, <2>5
    <3>3. SumOf(a) = r + 1 * a[0] /\ r \in Int
      BY <2>a DEF SumOf
    <3>4. SumOf(w) = r + 1 * v
      BY <2>a, <3>2 DEF SumOf
    <3> HIDE DEF r
    <3>5. QED
      BY <2>a, <3>1, <3>3, <3>4
  <2>6. CASE k = 1
    <3> DEFINE r == a[0] + 4 * a[2] + 8 * a[3] + 16 * a[4] + 32 * a[5] + 64 * a[6] + 128 * a[7]
    <3>1. WithBit(b, k, v) = SumOf(a) + (v - a[1]) * 2
      BY <2>2, <2>6, Powers
    <3>2. w[1] = v /\ \A j \in 0 .. 7 \ {1} : w[j] = a[j]
      BY <2>4, <2>6
    <3>3. SumOf(a) = r + 2 * a[1] /\ r \in Int
      BY <2>a DEF SumOf
    <3>4. SumOf(w) = r + 2 * v
      BY <2>a, <3>2 DEF SumOf
    <3> HIDE DEF r
    <3>5. QED
      BY <2>a, <3>1, <3>3, <3>4
  <2>7. CASE k = 2
    <3> DEFINE r == a[0] + 2 * a[1] + 8 * a[3] + 16 * a[4] + 32 * a[5] + 64 * a[6] + 128 * a[7]
    <3>1. WithBit(b, k, v) = SumOf(a) + (v - a[2]) * 4
      BY <2>2, <2>7, Powers
    <3>2. w[2] = v /\ \A j \in 0 .. 7 \ {2} : w[j] = a[j]
      BY <2>4, <2>7
    <3>3. SumOf(a) = r + 4 * a[2] /\ r \in Int
      BY <2>a DEF SumOf
    <3>4. SumOf(w) = r + 4 * v
      BY <2>a, <3>2 DEF SumOf
    <3> HIDE DEF r
    <3>5. QED
      BY <2>a, <3>1, <3>3, <3>4
  <2>8. CASE k = 3
    <3> DEFINE r == a[0] + 2 * a[1] + 4 * a[2] + 16 * a[4] + 32 * a[5] + 64 * a[6] + 128 * a[7]
    <3>1. WithBit(b, k, v) = SumOf(a) + (v - a[3]) * 8
      BY <2>2, <2>8, Powers
    <3>2. w[3] = v /\ \A j \in 0 .. 7 \ {3} : w[j] = a[j]
      BY <2>4, <2>8
    <3>3. SumOf(a) = r + 8 * a[3] /\ r \in Int
      BY <2>a DEF SumOf
    <3>4. SumOf(w) = r + 8 * v
      BY <2>a, <3>2 DEF SumOf
    <3> HIDE DEF r
    <3>5. QED
      BY <2>a, <3>1, <3>3, <3>4
  <2>9. CASE k = 4
    <3> DEFINE r == a[0] + 2 * a[1] + 4 * a[2] + 8 * a[3] + 32 * a[5] + 64 * a[6] + 128 * a[7]
    <3>1. WithBit(b, k, v) = SumOf(a) + (v - a[4]) * 16
      BY <2>2, <2>9, Powers
    <3>2. w[4] = v /\ \A j \in 0 .. 7 \ {4} : w[j] = a[j]
      BY <2>4, <2>9
    <3>3. SumOf(a) = r + 16 * a[4] /\ r \in Int
      BY <2>a DEF SumOf
    <3>4. SumOf(w) = r + 16 * v
      BY <2>a, <3>2 DEF SumOf
    <3> HIDE DEF r
    <3>5. QED
      BY <2>a, <3>1, <3>3, <3>4
  <2>10. CASE k = 5
    <3> DEFINE r == a[0] + 2 * a[1] + 4 * a[2] + 8 * a[3] + 16 * a[4] + 64 * a[6] + 128 * a[7]
    <3>1. WithBit(b, k, v) = SumOf(a) + (v - a[5]) * 32
      BY <2>2, <2>10, Powers
    <3>2. w[5] = v /\ \A j \in 0 .. 7 \ {5} : w[j] = a[j]
      BY <2>4, <2>10
    <3>3. SumOf(a) = r + 32 * a[5] /\ r \in Int
      BY <2>a DEF SumOf
    <3>4. SumOf(w) = r + 32 * v
      BY <2>a, <3>2 DEF SumOf
    <3> HIDE DEF r
    <3>5. QED
      BY <2>a, <3>1, <3>3, <3>4
  <2>11. CASE k = 6
    <3> DEFINE r == a[0] + 2 * a[1] + 4 * a[2] + 8 * a[3] + 16 * a[4] + 32 * a[5] + 128 * a[7]
    <3>1. WithBit(b, k, v) = SumOf(a) + (v - a[6]) * 64
      BY <2>2, <2>11, Powers
    <3>2. w[6] = v /\ \A j \in 0 .. 7 \ {6} : w[j] = a[j]
      BY <2>4, <2>11
    <3>3. SumOf(a) = r + 64 * a[6] /\ r \in Int
      BY <2>a DEF SumOf
    <3>4. SumOf(w) = r + 64 * v
      BY <2>a, <3>2 DEF SumOf
    <3> HIDE DEF r
    <3>5. QED
      BY <2>a, <3>1, <3>3, <3>4
  <2>12. CASE k = 7
    <3> DEFINE r == a[0] + 2 * a[1] + 4 * a[2] + 8 * a[3] + 16 * a[4] + 32 * a[5] + 64 * a[6]
    <3>1. WithBit(b, k, v) = SumOf(a) + (v - a[7]) * 128
      BY <2>2, <2>12, Powers
    <3>2. w[7] = v /\ \A j \in 0 .. 7 \ {7} : w[j] = a[j]
      BY <2>4, <2>12
    <3>3. SumOf(a) = r + 128 * a[7] /\ r \in Int
      BY <2>a DEF SumOf
    <3>4. SumOf(w) = r + 128 * v
      BY <2>a, <3>2 DEF SumOf
    <3> HIDE DEF r
    <3>5. QED
      BY <2>a, <3>1, <3>3, <3>4
  <2>13. QED
    BY <2>3, <2>5, <2>6, <2>7, <2>8, <2>9, <2>10, <2>11, <2>12
<1>4. \A j \in 0 .. 7 : w[j] = IF j = k THEN v ELSE BitOf(b, j)
  OBVIOUS
<1> HIDE DEF a, w
<1>5. QED
  BY <1>1, <1>3, <1>4, BitsOfSum
-----------------------------------------------------------------------------
(* Cells and states.                                                       *)

PartialCells == UNION {[D -> U8] : D \in SUBSET U8}

MapState == [cells : PartialCells, slotFlags : [1 .. SlotCount -> U8],
             errorLatch : BOOLEAN, modeLatch : BOOLEAN]

SameLatches(s, t) ==
  t.slotFlags = s.slotFlags /\ t.errorLatch = s.errorLatch /\ t.modeLatch = s.modeLatch

LEMMA CellTyped ==
  ASSUME NEW s \in MapState, NEW c
  PROVE  Cell(s, c) \in U8
<1>1. PICK D \in SUBSET U8 : s.cells \in [D -> U8]
  BY DEF MapState, PartialCells
<1>2. c \in DOMAIN s.cells => s.cells[c] \in U8
  BY <1>1
<1>3. 0 \in U8
  BY DEF U8
<1>4. QED
  BY <1>2, <1>3 DEF Cell

LEMMA PutIs ==
  ASSUME NEW s \in MapState, NEW c \in Int, NEW v \in U8
  PROVE  /\ Put(s, c, v) \in MapState
         /\ SameLatches(s, Put(s, c, v))
         /\ \A k \in Int : Cell(Put(s, c, v), k) = IF k = c /\ c \in U8 THEN v ELSE Cell(s, k)
         /\ DOMAIN Put(s, c, v).cells = DOMAIN s.cells \cup ({c} \cap U8)
<1>1. PICK D \in SUBSET U8 : s.cells \in [D -> U8]
  BY DEF MapState, PartialCells
<1>2. CASE c \notin U8
  BY <1>2 DEF Put, SameLatches
<1>3. CASE c \in U8
  <2> DEFINE cells == [k \in D \cup {c} |-> IF k = c THEN v ELSE s.cells[k]]
             t == [s EXCEPT !.cells = cells]
  <2>1. Put(s, c, v) = t
    BY <1>1, <1>3 DEF Put
  <2>2. cells \in [D \cup {c} -> U8] /\ D \cup {c} \in SUBSET U8
    BY <1>1, <1>3
  <2>3. cells \in PartialCells
    BY <2>2 DEF PartialCells
  <2>4. DOMAIN cells = DOMAIN s.cells \cup ({c} \cap U8)
    BY <1>1, <1>3
  <2>5. \A k : (IF k \in DOMAIN cells THEN cells[k] ELSE 0)
                 = IF k = c THEN v ELSE IF k \in DOMAIN s.cells THEN s.cells[k] ELSE 0
    BY <1>1, <1>3
  <2>6. t.cells = cells /\ t \in MapState /\ SameLatches(s, t)
    <3> HIDE DEF cells
    <3> QED
      BY <2>3 DEF MapState, SameLatches
  <2> HIDE DEF cells, t
  <2>7. QED
    BY <1>3, <2>1, <2>4, <2>5, <2>6 DEF Cell
<1>4. QED
  BY <1>2, <1>3

\* The other fields of a state.
LEMMA LatchesAre ==
  ASSUME NEW s \in MapState, NEW b \in BOOLEAN
  PROVE  [s EXCEPT !.errorLatch = b] \in MapState /\ [s EXCEPT !.modeLatch = b] \in MapState
BY DEF MapState

LEMMA SlotsAre ==
  ASSUME NEW s \in MapState, NEW v \in U8
  PROVE  /\ AllSlots(s, v) \in MapState
         /\ AllSlots(s, v) = [s EXCEPT !.slotFlags = [k \in 1 .. SlotCount |-> v]]
BY DEF MapState, AllSlots
-----------------------------------------------------------------------------
(* One row.                                                                *)

RawFits(row, raw) == raw \in U8 /\ (row.kind = "bit" => raw \in 0 .. 1)

\* The cells a row may write: its own, and those its transform couples to it.
Touched(row) ==
  {row.cell}
    \cup (IF row.transform \in {"run_mode_coupled_remap", "coupled_state_remap"}
          THEN {row.cell + 3} ELSE {})
    \cup (IF row.transform = "mode_updates_all_100_slot_flags" THEN {row.cell + 17} ELSE {})

\* What changes from s to t is within the row's reach.
Local(s, t, row) ==
  /\ t \in MapState
  /\ \A c \in Int \ Touched(row) : Cell(t, c) = Cell(s, c)
  /\ DOMAIN t.cells \subseteq DOMAIN s.cells \cup Touched(row)
  /\ DOMAIN s.cells \subseteq DOMAIN t.cells
  /\ row.transform # "mode_updates_all_100_slot_flags" => t.slotFlags = s.slotFlags
  /\ row.transform \notin {"aggregate_error_latch_part", "aggregate_error_latch_finalize"} =>
       t.errorLatch = s.errorLatch
  /\ row.transform # "global_mode_latch_update" => t.modeLatch = s.modeLatch

LEMMA WrittenIs ==
  ASSUME NEW s \in MapState, NEW row \in Row, NEW raw, RawFits(row, raw)
  PROVE  /\ Local(s, Written(s, row, raw), row)
         /\ SameLatches(s, Written(s, row, raw))
         /\ row.cell \in U8
         /\ row.kind # "bit" => Cell(Written(s, row, raw), row.cell) = raw
         /\ row.kind = "bit" =>
              /\ Cell(Written(s, row, raw), row.cell) = WithBit(Cell(s, row.cell), row.bit, raw)
              /\ WithBit(Cell(s, row.cell), row.bit, raw) \in U8
<1> DEFINE v == IF row.kind = "bit" THEN WithBit(Cell(s, row.cell), row.bit, raw) ELSE raw
           t == Put(s, row.cell, v)
<1>1. row.cell \in U8 /\ row.bit \in 0 .. 7
  BY DEF Row
<1>2. v \in U8
  BY <1>1, CellTyped, BitWritten DEF RawFits
<1>0. row.cell \in Int
  BY <1>1 DEF U8
<1>3. Written(s, row, raw) = t
  BY DEF Written
<1> HIDE DEF v
<1>4. /\ t \in MapState /\ SameLatches(s, t)
      /\ \A k \in Int : Cell(t, k) = IF k = row.cell THEN v ELSE Cell(s, k)
      /\ DOMAIN t.cells = DOMAIN s.cells \cup {row.cell}
  <2>1. {row.cell} \cap U8 = {row.cell}
    BY <1>1
  <2>2. QED
    BY <1>0, <1>1, <1>2, <2>1, PutIs
<1> HIDE DEF t
<1>5. Local(s, t, row)
  BY <1>0, <1>4 DEF Local, Touched, SameLatches
<1>6. QED
  BY <1>0, <1>1, <1>2, <1>3, <1>4, <1>5 DEF v

LEMMA WrittenAt ==
  ASSUME NEW s \in MapState, NEW row \in Row, NEW raw, RawFits(row, raw)
  PROVE  DOMAIN Written(s, row, raw).cells = DOMAIN s.cells \cup {row.cell}
<1> DEFINE v == IF row.kind = "bit" THEN WithBit(Cell(s, row.cell), row.bit, raw) ELSE raw
<1>1. row.cell \in U8 /\ row.cell \in Int /\ row.bit \in 0 .. 7
  BY DEF Row, U8
<1>2. v \in U8
  BY <1>1, CellTyped, BitWritten DEF RawFits
<1>3. Written(s, row, raw) = Put(s, row.cell, v)
  BY DEF Written
<1> HIDE DEF v
<1>4. QED
  BY <1>1, <1>2, <1>3, PutIs

\* A write within the reach of a row.
LEMMA PutLocal ==
  ASSUME NEW s \in MapState, NEW row \in Row, NEW c \in Touched(row), NEW v \in U8
  PROVE  Local(s, Put(s, c, v), row)
<1>1. row.cell \in Int
  BY DEF Row, U8
<1>2. c \in Int
  BY <1>1 DEF Touched
<1>3. QED
  BY <1>2, PutIs DEF Local, SameLatches

LEMMA LocalChains ==
  ASSUME NEW s, NEW t, NEW u, NEW row, Local(s, t, row), Local(t, u, row)
  PROVE  Local(s, u, row)
BY DEF Local

LEMMA RemappedLocal ==
  ASSUME NEW s \in MapState, NEW row \in Row, NEW raw,
         NEW table, \A k \in DOMAIN table : table[k] \in U8
  PROVE  Local(s, Remapped(s, row.cell, table, raw), row)
<1>1. row.cell \in Touched(row)
  BY DEF Touched
<1>2. Local(s, s, row)
  BY DEF Local
<1>3. QED
  BY <1>1, <1>2, PutLocal DEF Remapped

LEMMA TablesTyped ==
  /\ \A k \in DOMAIN SwingValue : SwingValue[k] \in U8
  /\ \A k \in DOMAIN ModeRange : ModeRange[k] \in U8
  /\ \A k \in DOMAIN ModeValue : ModeValue[k] \in U8
BY DEF SwingValue, ModeRange, ModeValue, U8

LEMMA TransformedLocal ==
  ASSUME NEW s \in MapState, NEW row \in Row, NEW raw \in U8
  PROVE  Local(s, Transformed(s, row, raw), row)
<1> DEFINE c == row.cell
<1>1. c \in U8 /\ c \in Int /\ c \in Touched(row)
  BY DEF Row, U8, Touched
<1>2. Local(s, s, row)
  BY DEF Local
<1>3. \A k \in Int, v \in 0 .. 255 : k \in Touched(row) => Local(s, Put(s, k, v), row)
  BY PutLocal DEF U8
<1>4. \A table : (\A k \in DOMAIN table : table[k] \in U8) =>
         Local(s, Remapped(s, c, table, raw), row)
  BY RemappedLocal
<1>5. CASE row.transform = "none"
  BY <1>2, <1>5 DEF Transformed
<1>6. CASE row.transform = "boolean_to_magic_aa55"
  BY <1>1, <1>3, <1>6 DEF Transformed
<1>7. CASE row.transform = "swing_value_remap"
  BY <1>4, <1>7, TablesTyped DEF Transformed
<1>8. CASE row.transform = "mode_range_to_boolean"
  BY <1>4, <1>8, TablesTyped DEF Transformed
<1>9. CASE row.transform = "nonzero_boolean_with_one_cleared"
  BY <1>1, <1>3, <1>9 DEF Transformed
<1>10. CASE row.transform = "aggregate_error_latch_part"
  <2> DEFINE b == s.errorLatch \/ raw = 1
  <2>1. Transformed(s, row, raw) = [s EXCEPT !.errorLatch = b]
    BY <1>10 DEF Transformed
  <2>2. b \in BOOLEAN
    OBVIOUS
  <2> HIDE DEF b
  <2>3. [s EXCEPT !.errorLatch = b] \in MapState
    BY <2>2, LatchesAre
  <2>4. QED
    BY <1>10, <2>1, <2>3 DEF Local, Cell, MapState
<1>11. CASE row.transform = "aggregate_error_latch_finalize"
  <2>1. [s EXCEPT !.errorLatch = FALSE] \in MapState
    BY LatchesAre DEF U8
  <2>2. Local(s, [s EXCEPT !.errorLatch = FALSE], row)
    BY <1>11, <2>1 DEF Local, Cell, MapState
  <2>3. (Cell(s, c) + 1) % 256 \in 0 .. 255
    BY CellTyped DEF U8
  <2>4. Transformed(s, row, raw) = ErrorLatchFinalized(s, c, raw)
    BY <1>11 DEF Transformed
  <2>5. QED
    BY <1>1, <1>2, <1>3, <2>2, <2>3, <2>4 DEF ErrorLatchFinalized
<1>12. CASE row.transform = "run_mode_coupled_remap"
  <2>1. c + 3 \in Touched(row) /\ c + 3 \in Int
    BY <1>1, <1>12 DEF Touched
  <2> DEFINE forced == IF Cell(s, c + 3) # 0 THEN Put(s, c, 5) ELSE s
  <2>2. Local(s, forced, row) /\ forced \in MapState
    <3>1. Local(s, Put(s, c, 5), row)
      BY <1>1, <1>3
    <3>2. QED
      BY <1>2, <3>1 DEF Local
  <2>3. Local(forced, Put(forced, c + 3, 1), row)
    <3> HIDE DEF forced
    <3> QED
      BY <2>1, <2>2, PutLocal DEF U8
  <2>4. Transformed(s, row, raw) = IF raw \in {5, 6} THEN Put(forced, c + 3, 1) ELSE forced
    BY <1>12 DEF Transformed, RunModeCoupled
  <2> HIDE DEF forced
  <2>5. QED
    BY <2>2, <2>3, <2>4, LocalChains
<1>13. CASE row.transform = "global_mode_latch_update"
  <2> DEFINE t == Put(s, c, 7)
  <2>1. t \in MapState /\ Local(s, t, row)
    <3>1. Local(s, t, row)
      BY <1>1, <1>3
    <3> HIDE DEF t
    <3>2. QED
      BY <3>1 DEF Local
  <2>2. [t EXCEPT !.modeLatch = TRUE] \in MapState /\ [s EXCEPT !.modeLatch = FALSE] \in MapState
    BY <2>1, LatchesAre DEF U8
  <2> HIDE DEF t
  <2>3. Local(t, [t EXCEPT !.modeLatch = TRUE], row) /\ Local(s, [s EXCEPT !.modeLatch = FALSE], row)
    BY <1>13, <2>1, <2>2 DEF Local, Cell, MapState
  <2>4. Local(s, [t EXCEPT !.modeLatch = TRUE], row)
    BY <2>1, <2>3, LocalChains
  <2>5. Transformed(s, row, raw) =
          IF raw = 1 THEN [t EXCEPT !.modeLatch = TRUE] ELSE [s EXCEPT !.modeLatch = FALSE]
    BY <1>13 DEF Transformed, ModeLatchUpdated, t
  <2>6. QED
    BY <2>3, <2>4, <2>5
<1>14. CASE row.transform = "mode_updates_all_100_slot_flags"
  <2>1. c + 17 \in Touched(row) /\ c + 17 \in Int
    BY <1>1, <1>14 DEF Touched
  <2>2. Local(s, Put(s, c + 17, 2), row)
    BY <1>3, <2>1
  <2>3. \A v \in {0, 1} : Local(s, AllSlots(s, v), row)
    <3>1. \A v \in {0, 1} : AllSlots(s, v) \in MapState
      BY SlotsAre DEF U8
    <3>2. QED
      BY <1>14, <3>1 DEF Local, Cell, MapState, AllSlots
  <2>4. Transformed(s, row, raw) = SlotFlagsUpdated(s, c, raw)
    BY <1>14 DEF Transformed
  <2>5. QED
    BY <1>2, <2>2, <2>3, <2>4 DEF SlotFlagsUpdated
<1>15. CASE row.transform = "global_mode_latch_projection"
  BY <1>1, <1>2, <1>3, <1>15 DEF Transformed
<1>16. CASE row.transform = "coupled_state_remap"
  <2>1. c + 3 \in Touched(row) /\ c + 3 \in Int
    BY <1>1, <1>16 DEF Touched
  <2>2. QED
    BY <1>2, <1>3, <1>16, <2>1 DEF Transformed
<1>17. CASE row.transform = "mode_value_remap"
  <2>1. Local(s, Put(s, c, 6), row) /\ Local(s, Remapped(s, c, ModeValue, raw), row)
    BY <1>1, <1>3, <1>4, TablesTyped
  <2>2. QED
    BY <1>17, <2>1 DEF Transformed, ModeValueForced
<1>18. QED
  BY <1>5, <1>6, <1>7, <1>8, <1>9, <1>10, <1>11, <1>12, <1>13, <1>14, <1>15, <1>16, <1>17
     DEF Row, Transforms

\* A row changes what is within its reach, and nothing else.
LEMMA RowIsLocal ==
  ASSUME NEW s \in MapState, NEW row \in Row, NEW raw, RawFits(row, raw)
  PROVE  Local(s, ApplyEntry(s, row, raw), row)
<1>1. Local(s, Written(s, row, raw), row) /\ Written(s, row, raw) \in MapState
  BY WrittenIs DEF Local
<1>2. Local(Written(s, row, raw), ApplyEntry(s, row, raw), row)
  BY <1>1, TransformedLocal DEF ApplyEntry, RawFits
<1>3. QED
  BY <1>1, <1>2, LocalChains
-----------------------------------------------------------------------------
(* The tables: what their rows have in common, as far as cells are coupled. *)

\* The rows of opcode 0x10 copy bytes; the other opcodes of the candidate have no rows.
Copies94(r) ==
  /\ r.kind = "u8" /\ r.transform = "none"
  /\ <<r.coordinate, r.cell>> \in {<<2, 3>>, <<3, 4>>, <<4, 0>>, <<5, 1>>, <<6, 2>>}

Copies115(r) ==
  /\ r.kind = "u8" /\ r.transform = "none"
  /\ <<r.coordinate, r.cell>> \in {<<2, 3>>, <<3, 4>>, <<4, 1>>, <<5, 2>>}

LEMMA JoinIs ==
  ASSUME NEW S, NEW t \in Seq(S), NEW u \in Seq(S)
  PROVE  /\ t \o u \in Seq(S)
         /\ Len(t) \in Nat /\ Len(u) \in Nat /\ Len(t \o u) = Len(t) + Len(u)
         /\ \A j \in 1 .. Len(t) : (t \o u)[j] = t[j]
         /\ \A j \in Len(t) + 1 .. Len(t) + Len(u) : (t \o u)[j] = u[j - Len(t)]
OBVIOUS

\* A row of a table that grows at its end.
RowAt(S, t, k, row) == t \in Seq(S) /\ k \in 1 .. Len(t) /\ t[k] = row

LEMMA RowStays ==
  ASSUME NEW S, NEW t, NEW k, NEW row, RowAt(S, t, k, row), NEW u \in Seq(S)
  PROVE  RowAt(S, t \o u, k, row)
<1>1. t \in Seq(S) /\ k \in 1 .. Len(t) /\ t[k] = row
  BY DEF RowAt
<1>2. Len(t) \in Nat /\ Len(u) \in Nat /\ Len(t \o u) = Len(t) + Len(u) /\ t \o u \in Seq(S)
  BY <1>1, JoinIs
<1>3. (t \o u)[k] = t[k]
  BY <1>1, JoinIs
<1>4. k \in 1 .. Len(t \o u)
  BY <1>1, <1>2
<1>5. QED
  BY <1>1, <1>2, <1>3, <1>4 DEF RowAt

LEMMA RowJoins ==
  ASSUME NEW S, NEW t \in Seq(S), NEW u \in Seq(S), Len(t) = 2, Len(u) \in 2 .. 3
  PROVE  RowAt(S, t \o u, 4, u[2])
<1>1. t \o u \in Seq(S) /\ Len(t \o u) = Len(t) + Len(u)
  BY JoinIs
<1>2. 4 \in Len(t) + 1 .. Len(t) + Len(u) /\ 4 - Len(t) = 2
  BY SMTT(30)
<1>3. (t \o u)[4] = u[4 - Len(t)]
  BY <1>2, JoinIs
<1>4. QED
  BY <1>1, <1>2, <1>3 DEF RowAt

\* Where the untransformed rows of an opcode of M94 stand: a cell, or a bit of one, has
\* one coordinate.
Place94_1c(r) ==
  <<r.coordinate, r.cell>> \in
    {<<0, \h37>>, <<1, \h49>>, <<2, \h38>>, <<3, \h4a>>, <<4, \h56>>, <<5, \h48>>, <<6, \h47>>,
     <<7, \h40>>, <<8, \h3f>>, <<\h21, \h50>>, <<\h26, \h52>>, <<\h29, \h51>>}

Place94_1e(r) ==
  \/ r.cell = \h05 /\ r.coordinate = 0
  \/ r.cell = \h32 /\ <<r.coordinate, r.bit>> \in
       {<<\h03, 0>>, <<\h05, 1>>, <<\h09, 2>>, <<\h0b, 3>>, <<\h0c, 4>>, <<\h0e, 5>>, <<\h0f, 6>>,
        <<\h13, 7>>}
  \/ r.cell = \h33 /\ <<r.coordinate, r.bit>> \in
       {<<\h14, 0>>, <<\h17, 1>>, <<\h21, 2>>, <<\h23, 3>>}

Place94_1f(r) ==
  <<r.coordinate, r.cell>> \in
    {<<1, \h07>>, <<6, \h08>>, <<\h1b, \h1d>>, <<\h1e, \h09>>, <<\h20, \h0a>>, <<\h24, \h1f>>,
     <<\h25, \h28>>}

Place94_21(r) ==
  \/ <<r.coordinate, r.cell>> \in
       {<<2, \h25>>, <<6, \h20>>, <<\h11, \h53>>, <<\h15, \h39>>, <<\h17, \h3e>>, <<\h20, \h36>>}
  \/ r.cell \in \h44 .. \h46 /\ r.coordinate = r.cell - \h2c

Place94_22(r) ==
  \/ r.cell = \h33 /\ <<r.coordinate, r.bit>> \in {<<0, 4>>, <<1, 5>>, <<3, 6>>, <<5, 7>>}
  \/ r.cell = \h34 /\ <<r.coordinate, r.bit>> \in
       {<<\h08, 0>>, <<\h0a, 1>>, <<\h0b, 2>>, <<\h0d, 3>>, <<\h0d, 4>>, <<\h0e, 5>>, <<\h0f, 6>>,
        <<\h12, 7>>}

Place94_73(r) ==
  \/ r.cell \in \h10 .. \h1b /\ r.coordinate = r.cell - \h10
  \/ r.cell \in \h3c .. \h3d /\ r.coordinate = r.cell - \h2c
  \/ r.cell \in \h4d .. \h4e /\ r.coordinate = r.cell - \h39
  \/ r.cell \in \h42 .. \h43 /\ r.coordinate = r.cell - \h2c
  \/ r.cell \in \h4b .. \h4c /\ r.coordinate = r.cell - \h25

Place94(r) ==
  \/ r.opcode = \h10 /\ Copies94(r)
  \/ r.opcode = \h1c /\ Place94_1c(r)
  \/ r.opcode = \h1e /\ Place94_1e(r)
  \/ r.opcode = \h1f /\ Place94_1f(r)
  \/ r.opcode = \h20 /\ <<r.coordinate, r.cell>> \in {<<\h11, \h54>>, <<\h13, \h55>>}
  \/ r.opcode = \h21 /\ Place94_21(r)
  \/ r.opcode = \h22 /\ Place94_22(r)
  \/ r.opcode = \h3d /\ r.coordinate = \h13
  \/ r.opcode = \h6d /\ <<r.coordinate, r.cell>> \in {<<1, \h23>>, <<2, \h24>>}
  \/ r.opcode = \h6f /\ <<r.coordinate, r.cell>> \in {<<\h1f, \h41>>, <<\h23, \h4f>>}
  \/ r.opcode = \h71 /\ r.cell \in \h3a .. \h3b /\ r.coordinate = r.cell - \h1a
  \/ r.opcode = \h73 /\ Place94_73(r)

\* An untransformed row also keeps out of the cells of the transforms.
Plain94(r) ==
  /\ r.cell \notin {\h06, \h0b, \h0c, \h0d, \h0e, \h0f, \h26}
  /\ Place94(r)

\* A transform of M94 has one row.
Seat94(r) ==
  <<r.transform, r.opcode, r.coordinate, r.cell>> \in
    {<<"boolean_to_magic_aa55", \h1f, 0, \h06>>,
     <<"swing_value_remap", \h21, \h03, \h26>>,
     <<"mode_range_to_boolean", \h21, \h0d, \h0c>>,
     <<"nonzero_boolean_with_one_cleared", \h21, \h0f, \h0d>>,
     <<"global_mode_latch_update", \h6f, 1, \h0e>>,
     <<"mode_updates_all_100_slot_flags", \h71, 0, \h0b>>,
     <<"global_mode_latch_projection", \h71, 1, \h0f>>}

BitOpcodes94 == {\h1c, \h1e, \h1f, \h22, \h3d, \h6d, \h6f}

\* Every cell behind a remap of M94 has one row, and two cells have none.
M94Row ==
  {r \in Row :
     /\ r.transform \in {"none", "boolean_to_magic_aa55", "swing_value_remap",
                         "mode_range_to_boolean", "nonzero_boolean_with_one_cleared",
                         "global_mode_latch_update", "mode_updates_all_100_slot_flags",
                         "global_mode_latch_projection"}
     /\ r.cell = \h06 <=> r.transform = "boolean_to_magic_aa55"
     /\ r.cell = \h26 <=> r.transform = "swing_value_remap"
     /\ r.cell = \h0c <=> r.transform = "mode_range_to_boolean"
     /\ r.cell = \h0d <=> r.transform = "nonzero_boolean_with_one_cleared"
     /\ r.cell = \h0e <=> r.transform = "global_mode_latch_update"
     /\ r.cell = \h0e => r.kind = "bit" /\ r.bit = 0
     /\ r.cell \in {\h0c, \h26} => r.kind = "u8"
     /\ r.transform = "mode_updates_all_100_slot_flags" => r.cell = \h0b
     /\ r.transform = "global_mode_latch_projection" => r.cell = \h0f
     /\ r.cell \notin {\h1c, \h1e}
     /\ r.opcode = \h10 => Copies94(r)
     /\ r.opcode \notin {\h11, \h52, \h58}
     /\ r.kind = "bit" <=> r.opcode \in BitOpcodes94
     /\ r.transform = "none" => Plain94(r)
     /\ r.transform # "none" => Seat94(r)}

\* Where the untransformed rows of an opcode of M115 stand.
Place115_3d(r) ==
  \/ r.cell = 0 /\ r.coordinate = 0
  \/ r.cell = \h53 /\ <<r.coordinate, r.bit>> \in
       {<<\h09, 1>>, <<\h0a, 2>>, <<\h0b, 3>>, <<\h10, 4>>, <<\h13, 5>>, <<\h16, 6>>, <<\h18, 7>>}
  \/ r.cell = \h54 /\ <<r.coordinate, r.bit>> \in
       {<<\h1e, 0>>, <<\h1f, 1>>, <<\h22, 2>>, <<\h11, 3>>, <<\h20, 4>>, <<\h21, 5>>, <<\h27, 6>>,
        <<\h28, 7>>}

Place115_3e(r) ==
  \/ r.cell = \h4c /\ r.coordinate = r.bit
  \/ r.cell = \h4d /\ r.coordinate = r.bit + \h19

Place115_3f(r) ==
  \/ r.cell = \h42 /\ <<r.coordinate, r.bit>> \in {<<\h0f, 0>>, <<\h16, 1>>}
  \/ r.cell = \h43 /\ <<r.coordinate, r.bit>> \in {<<\h10, 0>>, <<\h17, 1>>}
  \/ r.cell = \h0d /\ r.coordinate = \h18

Place115_40(r) ==
  \/ r.cell = \h0f /\ r.coordinate = 5
  \/ r.cell \in \h10 .. \h11 /\ r.coordinate = r.cell + 2
  \/ r.cell \in \h12 .. \h1c /\ r.coordinate = r.cell - \h0c

Place115_41(r) ==
  \/ r.cell \in \h07 .. \h08 /\ r.coordinate = r.cell - 7
  \/ r.cell = \h0c /\ r.coordinate = 4
  \/ r.cell \in \h1f .. \h23 /\ r.coordinate = r.cell - \h1a
  \/ r.cell \in \h46 .. \h4b /\ r.coordinate = r.cell - \h3c
  \/ r.cell = \h5b /\ r.coordinate = \h11

Place115(r) ==
  \/ r.opcode = \h10 /\ Copies115(r)
  \/ r.opcode = \h3d /\ Place115_3d(r)
  \/ r.opcode = \h3e /\ Place115_3e(r)
  \/ r.opcode = \h3f /\ Place115_3f(r)
  \/ r.opcode = \h40 /\ Place115_40(r)
  \/ r.opcode = \h41 /\ Place115_41(r)
  \/ r.opcode = \h4d /\ r.coordinate = r.cell - \h1e
  \/ r.opcode = \h73 /\ r.coordinate = r.cell - \h59
  \/ r.opcode = \h7b /\ <<r.coordinate, r.cell>> \in
       {<<8, \h1d>>, <<9, \h1e>>, <<\h0d, \h44>>, <<\h0e, \h45>>}
  \/ r.opcode = \h7d /\ r.coordinate = 2

Plain115(r) ==
  /\ r.cell \notin {\h05, \h06, \h09, \h0a, \h58}
  /\ Place115(r)

\* A transform of M115 that is no part of the error has one row.
Seat115(r) ==
  <<r.transform, r.opcode, r.coordinate, r.cell>> \in
    {<<"boolean_to_magic_aa55", \h3f, 0, \h05>>,
     <<"run_mode_coupled_remap", \h41, \h10, \h0a>>,
     <<"mode_updates_all_100_slot_flags", \h71, 0, \h58>>,
     <<"coupled_state_remap", \h7b, 1, \h06>>,
     <<"mode_value_remap", \h7d, 1, \h09>>}

BitOpcodes115 == {\h3d, \h3e, \h3f, \h7b}

\* The transforms of M115 have cells of their own, but for the parts of the error, which
\* share cell 0x53 with plain bits above theirs.  What brings a mode brings nothing to
\* the cells of others.
Parts == {"aggregate_error_latch_part", "aggregate_error_latch_finalize"}

M115Row ==
  {r \in Row :
     /\ r.transform \in {"none", "boolean_to_magic_aa55", "run_mode_coupled_remap",
                         "mode_updates_all_100_slot_flags", "coupled_state_remap",
                         "mode_value_remap"} \cup Parts
     /\ r.cell = \h06 <=> r.transform = "coupled_state_remap"
     /\ r.cell = \h06 => r.kind = "bit" /\ r.bit = 0
     /\ r.cell = \h09 <=> r.transform = "mode_value_remap"
     /\ r.cell = \h09 => r.kind = "u8"
     /\ r.transform = "boolean_to_magic_aa55" => r.cell = \h05
     /\ r.transform = "run_mode_coupled_remap" => r.cell = \h0a
     /\ r.transform = "mode_updates_all_100_slot_flags" => r.cell = \h58
     /\ r.transform \in Parts => r.cell = \h53 /\ r.bit = 0
     /\ r.cell = \h53 => r.kind = "bit" /\ r.opcode = \h3d /\ (r.bit = 0 => r.transform \in Parts)
     /\ r.cell = \h42 => r.kind = "bit" /\ r.transform = "none"
     /\ r.cell = \h09 => r.opcode = \h7d
     /\ r.opcode = \h7d => r.cell \in {\h09, \h0b}
     /\ r.cell \notin {\h69, \h6b}
     /\ r.opcode = \h10 => Copies115(r)
     /\ r.opcode \notin {\h11, \h52, \h58}
     /\ r.opcode = \h41 => r.cell # \h0d
     /\ r.transform = "run_mode_coupled_remap" => r.opcode = \h41
     /\ r.transform = "coupled_state_remap" => r.opcode = \h7b
     /\ r.kind = "bit" <=> r.opcode \in BitOpcodes115
     /\ r.transform = "none" => Plain115(r)
     /\ r.transform \notin {"none"} \cup Parts => Seat115(r)}

LEMMA M94RowsAre ==
  /\ M94Entries \in Seq(M94Row)
  /\ \E k, row : RowAt(M94Row, M94Entries, k, row) /\ row.opcode = \h10 /\ row.coordinate = 5
<1> DEFINE p1 == U8s(\h10, \h02, \h03, 2)
           p2 == U8s(\h10, \h04, \h00, 3)
           p3 == Flags(\h1c, <<<<0, \h37>>, <<1, \h49>>, <<2, \h38>>, <<3, \h4a>>, <<4,
                    \h56>>, <<5, \h48>>, <<6, \h47>>, <<7, \h40>>, <<8, \h3f>>>>)
           p4 == Flags(\h1c, <<<<\h21, \h50>>, <<\h26, \h52>>, <<\h29, \h51>>>>)
           p5 == Flags(\h1e, <<<<0, \h05>>>>)
           p6 == Bits(\h1e, \h32, 0, <<\h03, \h05, \h09, \h0b, \h0c, \h0e, \h0f, \h13>>)
           p7 == Bits(\h1e, \h33, 0, <<\h14, \h17, \h21, \h23>>)
           p8 == Remap("boolean_to_magic_aa55", Flags(\h1f, <<<<0, \h06>>>>))
           p9 == Flags(\h1f, <<<<1, \h07>>, <<6, \h08>>, <<\h1b, \h1d>>, <<\h1e, \h09>>,
                    <<\h20, \h0a>>, <<\h24, \h1f>>, <<\h25, \h28>>>>)
           p10 == U8s(\h20, \h11, \h54, 1)
           p11 == U8s(\h20, \h13, \h55, 1)
           p12 == U8s(\h21, \h02, \h25, 1)
           p13 == Remap("swing_value_remap", U8s(\h21, \h03, \h26, 1))
           p14 == U8s(\h21, \h06, \h20, 1)
           p15 == Remap("mode_range_to_boolean", U8s(\h21, \h0d, \h0c, 1))
           p16 == Remap("nonzero_boolean_with_one_cleared", U8s(\h21, \h0f, \h0d, 1))
           p17 == U8s(\h21, \h11, \h53, 1)
           p18 == U8s(\h21, \h15, \h39, 1)
           p19 == U8s(\h21, \h17, \h3e, 1)
           p20 == U8s(\h21, \h18, \h44, 3)
           p21 == U8s(\h21, \h20, \h36, 1)
           p22 == Bits(\h22, \h33, 4, <<\h00, \h01, \h03, \h05>>)
           p23 == Bits(\h22, \h34, 0, <<\h08, \h0a, \h0b, \h0d>>)
           p24 == Bits(\h22, \h34, 4, <<\h0d, \h0e, \h0f, \h12>>)
           p25 == Flags(\h3d, <<<<\h13, \h35>>>>)
           p26 == Flags(\h6d, <<<<1, \h23>>, <<2, \h24>>>>)
           p27 == Remap("global_mode_latch_update", Flags(\h6f, <<<<1, \h0e>>>>))
           p28 == Flags(\h6f, <<<<\h1f, \h41>>, <<\h23, \h4f>>>>)
           p29 == Remap("mode_updates_all_100_slot_flags", U8s(\h71, \h00, \h0b, 1))
           p30 == Remap("global_mode_latch_projection", U8s(\h71, \h01, \h0f, 1))
           p31 == U8s(\h71, \h20, \h3a, 2)
           p32 == U16s(\h73, \h00, \h10, 12)
           p33 == U16s(\h73, \h10, \h3c, 2)
           p34 == U16s(\h73, \h14, \h4d, 2)
           p35 == U16s(\h73, \h16, \h42, 2)
           p36 == U16s(\h73, \h26, \h4b, 2)
<1> USE DEF Flags, Bits, U8s, U16s, ByteRows, BitRow, Remap, M94Row, Row, U8, Transforms,
             Plain94, Place94, BitOpcodes94, Seat94
<1>1. p1 \in Seq(M94Row) BY DEF Copies94
<1>2. p2 \in Seq(M94Row) BY DEF Copies94
<1>3. p3 \in Seq(M94Row)
  <2>1. p3 = [k \in 1 .. 9 |-> p3[k]]
    OBVIOUS
  <2>2. p3[1] \in M94Row
    BY DEF Place94_1c
  <2>3. p3[2] \in M94Row
    BY DEF Place94_1c
  <2>4. p3[3] \in M94Row
    BY DEF Place94_1c
  <2>5. p3[4] \in M94Row
    BY DEF Place94_1c
  <2>6. p3[5] \in M94Row
    BY DEF Place94_1c
  <2>7. p3[6] \in M94Row
    BY DEF Place94_1c
  <2>8. p3[7] \in M94Row
    BY DEF Place94_1c
  <2>9. p3[8] \in M94Row
    BY DEF Place94_1c
  <2>10. p3[9] \in M94Row
    BY DEF Place94_1c
  <2> HIDE DEF p3, M94Row
  <2>11. \A k \in 1 .. 9 : p3[k] \in M94Row
    BY <2>2, <2>3, <2>4, <2>5, <2>6, <2>7, <2>8, <2>9, <2>10
  <2>12. QED
    BY <2>1, <2>11
<1>4. p4 \in Seq(M94Row) BY DEF Place94_1c
<1>5. p5 \in Seq(M94Row) BY DEF Place94_1e
<1>6. p6 \in Seq(M94Row)
  <2>1. p6 = [k \in 1 .. 8 |-> p6[k]]
    OBVIOUS
  <2>2. p6[1] \in M94Row
    BY DEF Place94_1e
  <2>3. p6[2] \in M94Row
    BY DEF Place94_1e
  <2>4. p6[3] \in M94Row
    BY DEF Place94_1e
  <2>5. p6[4] \in M94Row
    BY DEF Place94_1e
  <2>6. p6[5] \in M94Row
    BY DEF Place94_1e
  <2>7. p6[6] \in M94Row
    BY DEF Place94_1e
  <2>8. p6[7] \in M94Row
    BY DEF Place94_1e
  <2>9. p6[8] \in M94Row
    BY DEF Place94_1e
  <2> HIDE DEF p6, M94Row
  <2>10. \A k \in 1 .. 8 : p6[k] \in M94Row
    BY <2>2, <2>3, <2>4, <2>5, <2>6, <2>7, <2>8, <2>9
  <2>11. QED
    BY <2>1, <2>10
<1>7. p7 \in Seq(M94Row) BY DEF Place94_1e
<1>8. p8 \in Seq(M94Row) OBVIOUS
<1>9. p9 \in Seq(M94Row)
  <2>1. p9 = [k \in 1 .. 7 |-> p9[k]]
    OBVIOUS
  <2>2. p9[1] \in M94Row
    BY DEF Place94_1f
  <2>3. p9[2] \in M94Row
    BY DEF Place94_1f
  <2>4. p9[3] \in M94Row
    BY DEF Place94_1f
  <2>5. p9[4] \in M94Row
    BY DEF Place94_1f
  <2>6. p9[5] \in M94Row
    BY DEF Place94_1f
  <2>7. p9[6] \in M94Row
    BY DEF Place94_1f
  <2>8. p9[7] \in M94Row
    BY DEF Place94_1f
  <2> HIDE DEF p9, M94Row
  <2>9. \A k \in 1 .. 7 : p9[k] \in M94Row
    BY <2>2, <2>3, <2>4, <2>5, <2>6, <2>7, <2>8
  <2>10. QED
    BY <2>1, <2>9
<1>10. p10 \in Seq(M94Row) OBVIOUS
<1>11. p11 \in Seq(M94Row) OBVIOUS
<1>12. p12 \in Seq(M94Row) BY DEF Place94_21
<1>13. p13 \in Seq(M94Row) OBVIOUS
<1>14. p14 \in Seq(M94Row) BY DEF Place94_21
<1>15. p15 \in Seq(M94Row) OBVIOUS
<1>16. p16 \in Seq(M94Row) OBVIOUS
<1>17. p17 \in Seq(M94Row) BY DEF Place94_21
<1>18. p18 \in Seq(M94Row) BY DEF Place94_21
<1>19. p19 \in Seq(M94Row) BY DEF Place94_21
<1>20. p20 \in Seq(M94Row) BY DEF Place94_21
<1>21. p21 \in Seq(M94Row) BY DEF Place94_21
<1>22. p22 \in Seq(M94Row) BY DEF Place94_22
<1>23. p23 \in Seq(M94Row) BY DEF Place94_22
<1>24. p24 \in Seq(M94Row) BY DEF Place94_22
<1>25. p25 \in Seq(M94Row) OBVIOUS
<1>26. p26 \in Seq(M94Row) OBVIOUS
<1>27. p27 \in Seq(M94Row) OBVIOUS
<1>28. p28 \in Seq(M94Row) OBVIOUS
<1>29. p29 \in Seq(M94Row) OBVIOUS
<1>30. p30 \in Seq(M94Row) OBVIOUS
<1>31. p31 \in Seq(M94Row) OBVIOUS
<1>32. p32 \in Seq(M94Row) BY DEF Place94_73
<1>33. p33 \in Seq(M94Row) BY DEF Place94_73
<1>34. p34 \in Seq(M94Row) BY DEF Place94_73
<1>35. p35 \in Seq(M94Row) BY DEF Place94_73
<1>36. p36 \in Seq(M94Row) BY DEF Place94_73
<1>37. M94Entries
      = p1 \o p2 \o p3 \o p4 \o p5 \o p6 \o p7 \o p8 \o p9 \o p10 \o p11 \o p12 \o p13 \o
        p14 \o p15 \o p16 \o p17 \o p18 \o p19 \o p20 \o p21 \o p22 \o p23 \o p24 \o p25 \o
        p26 \o p27 \o p28 \o p29 \o p30 \o p31 \o p32 \o p33 \o p34 \o p35 \o p36
  BY DEF M94Entries
<1> HIDE DEF p1, p2, p3, p4, p5, p6, p7, p8, p9, p10, p11, p12, p13, p14, p15, p16, p17,
             p18, p19, p20, p21, p22, p23, p24, p25, p26, p27, p28, p29, p30, p31, p32, p33,
             p34, p35, p36,
             Flags, Bits, U8s, U16s, ByteRows, BitRow, Remap, M94Row, Row, U8, Transforms,
             Plain94, Place94, BitOpcodes94, Seat94
<1>38. M94Entries \in Seq(M94Row)
  BY <1>1, <1>2, <1>3, <1>4, <1>5, <1>6, <1>7, <1>8, <1>9, <1>10, <1>11, <1>12, <1>13,
     <1>14, <1>15, <1>16, <1>17, <1>18, <1>19, <1>20, <1>21, <1>22, <1>23, <1>24, <1>25,
     <1>26, <1>27, <1>28, <1>29, <1>30, <1>31, <1>32, <1>33, <1>34, <1>35, <1>36, <1>37
<1> DEFINE r == p2[2]
<1>39. Len(p1) = 2 /\ Len(p2) \in 2 .. 3 /\ r.opcode = \h10 /\ r.coordinate = 5
  BY DEF p1, p2, U8s, ByteRows
<1> HIDE DEF r
<1>40. RowAt(M94Row, p1 \o p2, 4, r)
  BY <1>1, <1>2, <1>39, RowJoins DEF r
<1> DEFINE q1 == p1 \o p2 \o p3 \o p4 \o p5 \o p6 \o p7 \o p8 \o p9 \o p10
<1>41. RowAt(M94Row, q1, 4, r)
  BY <1>3, <1>4, <1>5, <1>6, <1>7, <1>8, <1>9, <1>10, <1>40, RowStays
<1> HIDE DEF q1
<1> DEFINE q2 == q1 \o p11 \o p12 \o p13 \o p14 \o p15 \o p16 \o p17 \o p18
<1>42. RowAt(M94Row, q2, 4, r)
  BY <1>11, <1>12, <1>13, <1>14, <1>15, <1>16, <1>17, <1>18, <1>41, RowStays
<1> HIDE DEF q2
<1> DEFINE q3 == q2 \o p19 \o p20 \o p21 \o p22 \o p23 \o p24 \o p25 \o p26
<1>43. RowAt(M94Row, q3, 4, r)
  BY <1>19, <1>20, <1>21, <1>22, <1>23, <1>24, <1>25, <1>26, <1>42, RowStays
<1> HIDE DEF q3
<1> DEFINE q4 == q3 \o p27 \o p28 \o p29 \o p30 \o p31 \o p32 \o p33 \o p34
<1>44. RowAt(M94Row, q4, 4, r)
  BY <1>27, <1>28, <1>29, <1>30, <1>31, <1>32, <1>33, <1>34, <1>43, RowStays
<1> HIDE DEF q4
<1> DEFINE q5 == q4 \o p35 \o p36
<1>45. RowAt(M94Row, q5, 4, r)
  BY <1>35, <1>36, <1>44, RowStays
<1> HIDE DEF q5
<1>46. M94Entries = q5
  BY <1>37 DEF q1, q2, q3, q4, q5
<1>47. QED
  BY <1>38, <1>39, <1>45, <1>46

\* The finalizing row is in one place; the other parts of the error stand before it.
Before == {r \in M115Row : r.transform # "aggregate_error_latch_finalize"}
After == {r \in M115Row : r.transform \notin Parts}

Finalizes(t, k) ==
  /\ t \in Seq(M115Row) /\ k \in 1 .. Len(t)
  /\ t[k].transform = "aggregate_error_latch_finalize"
  /\ \A j \in 1 .. k - 1 : t[j] \in Before
  /\ \A j \in k + 1 .. Len(t) : t[j] \in After

LEMMA FinalizesWith ==
  ASSUME NEW t \in Seq(Before), NEW u \in Seq(M115Row), Len(u) = 1,
         u[1].transform = "aggregate_error_latch_finalize"
  PROVE  Finalizes(t \o u, Len(t) + 1)
<1>1. t \in Seq(M115Row)
  BY DEF Before
<1>2. /\ t \o u \in Seq(M115Row)
      /\ Len(t) \in Nat
      /\ Len(t \o u) = Len(t) + 1
  <2>1. t \o u \in Seq(M115Row)
    BY <1>1, JoinIs
  <2>2. Len(t) \in Nat
    OBVIOUS
  <2>3. Len(t \o u) = Len(t) + Len(u)
    BY <1>1, JoinIs
  <2>4. QED
    BY <2>1, <2>2, <2>3
<1>3. \A j \in 1 .. Len(t) : (t \o u)[j] = t[j]
  BY <1>1, JoinIs
<1>4. (t \o u)[Len(t) + 1] = u[1]
  BY <1>1, JoinIs
<1>5. \A j \in 1 .. Len(t) : t[j] \in Before
  OBVIOUS
<1>6. QED
  BY <1>2, <1>3, <1>4, <1>5 DEF Finalizes

LEMMA FinalizesStill ==
  ASSUME NEW k, NEW t, NEW u \in Seq(After), Finalizes(t, k)
  PROVE  Finalizes(t \o u, k)
<1> DEFINE w == t \o u
<1>1. t \in Seq(M115Row) /\ u \in Seq(M115Row) /\ k \in 1 .. Len(t)
  BY DEF Finalizes, After
<1>2. /\ Len(t) \in Nat /\ Len(u) \in Nat /\ Len(w) = Len(t) + Len(u)
      /\ \A j \in 1 .. Len(t) : w[j] = t[j]
      /\ \A j \in Len(t) + 1 .. Len(w) : w[j] = u[j - Len(t)] /\ w[j] \in After
      /\ w \in Seq(M115Row)
  BY <1>1
<1> HIDE DEF w
<1>3. \A j \in k + 1 .. Len(w) : w[j] \in After
  <2> TAKE j \in k + 1 .. Len(w)
  <2>1. \A i \in k + 1 .. Len(t) : t[i] \in After
    BY DEF Finalizes
  <2>2. k \in Nat /\ j \in Nat
    BY <1>1, <1>2
  <2>3. \/ j \in k + 1 .. Len(t) /\ j \in 1 .. Len(t)
        \/ j \in Len(t) + 1 .. Len(w)
    BY <1>1, <1>2, <2>2
  <2>4. QED
    BY <1>2, <2>1, <2>3
<1>4. QED
  BY <1>1, <1>2, <1>3 DEF Finalizes, w

LEMMA M115RowsAre ==
  /\ \E k : Finalizes(M115Entries, k)
  /\ \E k, row : RowAt(M115Row, M115Entries, k, row) /\ row.opcode = \h10 /\ row.coordinate = 5
<1> DEFINE p1 == U8s(\h10, \h02, \h03, 2)
           p2 == U8s(\h10, \h04, \h01, 2)
           p3 == Flags(\h3d, <<<<0, \h00>>>>)
           p4 == Remap("aggregate_error_latch_part", Flags(\h3d, <<<<5, \h53>>, <<6,
                    \h53>>, <<7, \h53>>, <<8, \h53>>>>))
           p5 == Bits(\h3d, \h53, 1, <<\h09, \h0a, \h0b, \h10>>)
           p6 == Bits(\h3d, \h54, 3, <<\h11>>)
           p7 == Bits(\h3d, \h53, 5, <<\h13, \h16, \h18>>)
           p8 == Remap("aggregate_error_latch_part", Flags(\h3d, <<<<\h19, \h53>>,
                    <<\h1a, \h53>>, <<\h1b, \h53>>, <<\h1c, \h53>>>>))
           p9 == Remap("aggregate_error_latch_finalize", Flags(\h3d, <<<<\h1d, \h53>>>>))
           p10 == Bits(\h3d, \h54, 0, <<\h1e, \h1f>>)
           p11 == Bits(\h3d, \h54, 4, <<\h20, \h21>>)
           p12 == Bits(\h3d, \h54, 2, <<\h22>>)
           p13 == Bits(\h3d, \h54, 6, <<\h27, \h28>>)
           p14 == Bits(\h3e, \h4c, 0, <<\h00, \h01, \h02, \h03, \h04>>)
           p15 == Bits(\h3e, \h4d, 0, <<\h19, \h1a, \h1b, \h1c, \h1d>>)
           p16 == Remap("boolean_to_magic_aa55", Flags(\h3f, <<<<0, \h05>>>>))
           p17 == Bits(\h3f, \h42, 0, <<\h0f>>)
           p18 == Bits(\h3f, \h43, 0, <<\h10>>)
           p19 == Bits(\h3f, \h42, 1, <<\h16>>)
           p20 == Bits(\h3f, \h43, 1, <<\h17>>)
           p21 == Flags(\h3f, <<<<\h18, \h0d>>>>)
           p22 == U8s(\h40, \h05, \h0f, 1)
           p23 == U8s(\h40, \h06, \h12, 11)
           p24 == U8s(\h40, \h12, \h10, 2)
           p25 == U8s(\h41, \h00, \h07, 2)
           p26 == U8s(\h41, \h04, \h0c, 1)
           p27 == U8s(\h41, \h05, \h1f, 5)
           p28 == U8s(\h41, \h0a, \h46, 6)
           p29 == Remap("run_mode_coupled_remap", U8s(\h41, \h10, \h0a, 1))
           p30 == U8s(\h41, \h11, \h5b, 1)
           p31 == U16s(\h4d, \h06, \h24, 30)
           p32 == Remap("mode_updates_all_100_slot_flags", U8s(\h71, \h00, \h58, 1))
           p33 == U16s(\h73, \h00, \h59, 2)
           p34 == Remap("coupled_state_remap", Flags(\h7b, <<<<1, \h06>>>>))
           p35 == Flags(\h7b, <<<<8, \h1d>>, <<9, \h1e>>, <<\h0d, \h44>>, <<\h0e,
                    \h45>>>>)
           p36 == Remap("mode_value_remap", U8s(\h7d, \h01, \h09, 1))
           p37 == U8s(\h7d, \h02, \h0b, 1)
<1> USE DEF Flags, Bits, U8s, U16s, ByteRows, BitRow, Remap, Row, U8, Transforms,
             Before, After, M115Row, Parts, Plain115, Place115, BitOpcodes115,
             Seat115
<1>1. p1 \in Seq(Before) BY DEF Copies115
<1>2. p2 \in Seq(Before) BY DEF Copies115
<1>3. p3 \in Seq(Before) BY SMTT(40) DEF Place115_3d
<1>4. p4 \in Seq(Before)
  <2>1. p4 = [k \in 1 .. 4 |-> p4[k]]
    OBVIOUS
  <2>2. p4[1] \in Before
    OBVIOUS
  <2>3. p4[2] \in Before
    OBVIOUS
  <2>4. p4[3] \in Before
    OBVIOUS
  <2>5. p4[4] \in Before
    OBVIOUS
  <2> HIDE DEF p4, Before
  <2>6. \A k \in 1 .. 4 : p4[k] \in Before
    BY <2>2, <2>3, <2>4, <2>5
  <2>7. QED
    BY <2>1, <2>6
<1>5. p5 \in Seq(Before) BY SMTT(40) DEF Place115_3d
<1>6. p6 \in Seq(Before) BY SMTT(40) DEF Place115_3d
<1>7. p7 \in Seq(Before) BY SMTT(40) DEF Place115_3d
<1>8. p8 \in Seq(Before)
  <2>1. p8 = [k \in 1 .. 4 |-> p8[k]]
    OBVIOUS
  <2>2. p8[1] \in Before
    OBVIOUS
  <2>3. p8[2] \in Before
    OBVIOUS
  <2>4. p8[3] \in Before
    OBVIOUS
  <2>5. p8[4] \in Before
    OBVIOUS
  <2> HIDE DEF p8, Before
  <2>6. \A k \in 1 .. 4 : p8[k] \in Before
    BY <2>2, <2>3, <2>4, <2>5
  <2>7. QED
    BY <2>1, <2>6
<1>9. p9 \in Seq(M115Row) /\ Len(p9) = 1 /\ p9[1].transform = "aggregate_error_latch_finalize"
  OBVIOUS
<1>10. p10 \in Seq(After) BY DEF Place115_3d
<1>11. p11 \in Seq(After) BY DEF Place115_3d
<1>12. p12 \in Seq(After) BY DEF Place115_3d
<1>13. p13 \in Seq(After) BY DEF Place115_3d
<1>14. p14 \in Seq(After) BY DEF Place115_3e
<1>15. p15 \in Seq(After) BY DEF Place115_3e
<1>16. p16 \in Seq(After) OBVIOUS
<1>17. p17 \in Seq(After) BY DEF Place115_3f
<1>18. p18 \in Seq(After) BY DEF Place115_3f
<1>19. p19 \in Seq(After) BY DEF Place115_3f
<1>20. p20 \in Seq(After) BY DEF Place115_3f
<1>21. p21 \in Seq(After) BY DEF Place115_3f
<1>22. p22 \in Seq(After) BY DEF Place115_40
<1>23. p23 \in Seq(After) BY DEF Place115_40
<1>24. p24 \in Seq(After) BY DEF Place115_40
<1>25. p25 \in Seq(After) BY DEF Place115_41
<1>26. p26 \in Seq(After) BY DEF Place115_41
<1>27. p27 \in Seq(After) BY DEF Place115_41
<1>28. p28 \in Seq(After) BY DEF Place115_41
<1>29. p29 \in Seq(After) OBVIOUS
<1>30. p30 \in Seq(After) BY DEF Place115_41
<1>31. p31 \in Seq(After) OBVIOUS
<1>32. p32 \in Seq(After) OBVIOUS
<1>33. p33 \in Seq(After) OBVIOUS
<1>34. p34 \in Seq(After) OBVIOUS
<1>35. p35 \in Seq(After) OBVIOUS
<1>36. p36 \in Seq(After) OBVIOUS
<1>37. p37 \in Seq(After) OBVIOUS
<1> DEFINE first == p1 \o p2 \o p3 \o p4 \o p5 \o p6 \o p7 \o p8
<1>38. M115Entries
      = first \o p9 \o p10 \o p11 \o p12 \o p13 \o p14 \o p15 \o p16 \o p17 \o p18 \o p19 \o p20 \o
        p21 \o p22 \o p23 \o p24 \o p25 \o p26 \o p27 \o p28 \o p29 \o p30 \o p31 \o p32 \o
        p33 \o p34 \o p35 \o p36 \o p37
  BY DEF M115Entries
<1> HIDE DEF p1, p2, p3, p4, p5, p6, p7, p8, p9, p10, p11, p12, p13, p14, p15, p16, p17,
             p18, p19, p20, p21, p22, p23, p24, p25, p26, p27, p28, p29, p30, p31, p32, p33,
             p34, p35, p36, p37,
             Flags, Bits, U8s, U16s, ByteRows, BitRow, Remap, Row, U8, Transforms,
             Before, After, M115Row, Parts
<1>39. first \in Seq(Before)
  BY <1>1, <1>2, <1>3, <1>4, <1>5, <1>6, <1>7, <1>8
<1> HIDE DEF first
<1>40. Finalizes(first \o p9, Len(first) + 1)
  BY <1>9, <1>39, FinalizesWith
<1> DEFINE k == Len(first) + 1
<1> DEFINE t1 == first \o p9 \o p10 \o p11 \o p12 \o p13 \o p14 \o p15 \o p16 \o p17
<1>41. Finalizes(t1, k)
  BY <1>10, <1>11, <1>12, <1>13, <1>14, <1>15, <1>16, <1>17, <1>40, FinalizesStill
<1> HIDE DEF t1, k
<1> DEFINE t2 == t1 \o p18 \o p19 \o p20 \o p21 \o p22 \o p23 \o p24 \o p25
<1>42. Finalizes(t2, k)
  BY <1>18, <1>19, <1>20, <1>21, <1>22, <1>23, <1>24, <1>25, <1>41, FinalizesStill
<1> HIDE DEF t2
<1> DEFINE t3 == t2 \o p26 \o p27 \o p28 \o p29 \o p30 \o p31 \o p32 \o p33 \o p34 \o p35 \o
                    p36 \o p37
<1>43. Finalizes(t3, k)
  BY <1>26, <1>27, <1>28, <1>29, <1>30, <1>31, <1>32, <1>33, <1>34, <1>35, <1>36, <1>37, <1>42,
     FinalizesStill
<1> HIDE DEF t3
<1>44. M115Entries = t3
  BY <1>38 DEF t1, t2, t3
<1>45. \A t : t \in Seq(Before) \/ t \in Seq(After) => t \in Seq(M115Row)
  BY DEF Before, After
<1>46. /\ p1 \in Seq(M115Row) /\ p2 \in Seq(M115Row) /\ p3 \in Seq(M115Row) /\ p4 \in Seq(M115Row)
      /\ p5 \in Seq(M115Row) /\ p6 \in Seq(M115Row) /\ p7 \in Seq(M115Row) /\ p8 \in Seq(M115Row)
      /\ p9 \in Seq(M115Row) /\ p10 \in Seq(M115Row) /\ p11 \in Seq(M115Row) /\ p12 \in Seq(M115Row)
      /\ p13 \in Seq(M115Row) /\ p14 \in Seq(M115Row) /\ p15 \in Seq(M115Row) /\ p16 \in Seq(M115Row)
      /\ p17 \in Seq(M115Row) /\ p18 \in Seq(M115Row) /\ p19 \in Seq(M115Row) /\ p20 \in Seq(M115Row)
      /\ p21 \in Seq(M115Row) /\ p22 \in Seq(M115Row) /\ p23 \in Seq(M115Row) /\ p24 \in Seq(M115Row)
      /\ p25 \in Seq(M115Row) /\ p26 \in Seq(M115Row) /\ p27 \in Seq(M115Row) /\ p28 \in Seq(M115Row)
      /\ p29 \in Seq(M115Row) /\ p30 \in Seq(M115Row) /\ p31 \in Seq(M115Row) /\ p32 \in Seq(M115Row)
      /\ p33 \in Seq(M115Row) /\ p34 \in Seq(M115Row) /\ p35 \in Seq(M115Row) /\ p36 \in Seq(M115Row)
      /\ p37 \in Seq(M115Row)
  BY <1>1, <1>2, <1>3, <1>4, <1>5, <1>6, <1>7, <1>8, <1>9, <1>10, <1>11, <1>12, <1>13,
     <1>14, <1>15, <1>16, <1>17, <1>18, <1>19, <1>20, <1>21, <1>22, <1>23, <1>24, <1>25,
     <1>26, <1>27, <1>28, <1>29, <1>30, <1>31, <1>32, <1>33, <1>34, <1>35, <1>36, <1>37, <1>45
<1> DEFINE r == p2[2]
<1>47. Len(p1) = 2 /\ Len(p2) \in 2 .. 3 /\ r.opcode = \h10 /\ r.coordinate = 5
  BY DEF p1, p2, U8s, ByteRows
<1> HIDE DEF r
<1>48. RowAt(M115Row, p1 \o p2, 4, r)
  BY <1>46, <1>47, RowJoins DEF r
<1> DEFINE q1 == p1 \o p2 \o p3 \o p4 \o p5 \o p6 \o p7 \o p8 \o p9 \o p10
<1>49. RowAt(M115Row, q1, 4, r)
  BY <1>46, <1>48, RowStays
<1> HIDE DEF q1
<1> DEFINE q2 == q1 \o p11 \o p12 \o p13 \o p14 \o p15 \o p16 \o p17 \o p18
<1>50. RowAt(M115Row, q2, 4, r)
  BY <1>46, <1>49, RowStays
<1> HIDE DEF q2
<1> DEFINE q3 == q2 \o p19 \o p20 \o p21 \o p22 \o p23 \o p24 \o p25 \o p26
<1>51. RowAt(M115Row, q3, 4, r)
  BY <1>46, <1>50, RowStays
<1> HIDE DEF q3
<1> DEFINE q4 == q3 \o p27 \o p28 \o p29 \o p30 \o p31 \o p32 \o p33 \o p34
<1>52. RowAt(M115Row, q4, 4, r)
  BY <1>46, <1>51, RowStays
<1> HIDE DEF q4
<1> DEFINE q5 == q4 \o p35 \o p36 \o p37
<1>53. RowAt(M115Row, q5, 4, r)
  BY <1>46, <1>52, RowStays
<1> HIDE DEF q5
<1>54. M115Entries = q5
  BY <1>38 DEF q1, q2, q3, q4, q5, first
<1>55. QED
  BY <1>43, <1>44, <1>47, <1>53, <1>54
-----------------------------------------------------------------------------
(* The rows of a frame keep what each of them keeps.                       *)

LEMMA TableIs ==
  ASSUME NEW d, d.profile \in DOMAIN Entries
  PROVE  /\ d.profile = "M94" \/ d.profile = "M115"
         /\ d.profile = "M94" => Table(d) \in Seq(M94Row)
         /\ d.profile = "M115" => Table(d) \in Seq(M115Row)
         /\ Table(d) \in Seq(Row)
         /\ \A opcode \in U8 :
              RowsOf(d, opcode) = {j \in DOMAIN Table(d) : Table(d)[j].opcode = opcode}
<1>1. d.profile = "M94" \/ d.profile = "M115"
  BY DEF Entries
<1>2. \A opcode \in U8 :
        RowsOf(d, opcode) = {j \in DOMAIN Table(d) : Table(d)[j].opcode = opcode}
  BY DEF RowsOf, RowsBy, Table
<1>3. CASE d.profile = "M94"
  <2>1. Table(d) = M94Entries
    BY <1>3 DEF Table, Entries
  <2>2. M94Entries \in Seq(Row)
    BY M94RowsAre DEF M94Row
  <2>3. QED
    BY <1>2, <1>3, <2>1, <2>2, M94RowsAre
<1>4. CASE d.profile = "M115"
  <2>1. Table(d) = M115Entries
    BY <1>4 DEF Table, Entries
  <2>2. M115Entries \in Seq(M115Row)
    BY M115RowsAre DEF Finalizes
  <2>3. M115Entries \in Seq(Row)
    BY <2>2 DEF M115Row
  <2>4. QED
    BY <1>2, <1>4, <2>1, <2>2, <2>3
<1>5. QED
  BY <1>1, <1>3, <1>4

\* The coordinate of the pair of opcode 0x10 has a row in either table.
LEMMA PairHasRow ==
  ASSUME NEW d, d.profile \in DOMAIN Entries
  PROVE  \E j \in DOMAIN Table(d) : Table(d)[j].opcode = \h10 /\ Table(d)[j].coordinate = 5
<1>1. CASE d.profile = "M94"
  <2>1. Table(d) = M94Entries
    BY <1>1 DEF Table, Entries
  <2>2. PICK k, row : RowAt(M94Row, M94Entries, k, row) /\ row.opcode = \h10 /\ row.coordinate = 5
    BY M94RowsAre
  <2>3. k \in DOMAIN M94Entries /\ M94Entries[k] = row
    BY <2>2 DEF RowAt
  <2>4. QED
    BY <2>1, <2>2, <2>3
<1>2. CASE d.profile = "M115"
  <2>1. Table(d) = M115Entries
    BY <1>2 DEF Table, Entries
  <2>2. PICK k, row : RowAt(M115Row, M115Entries, k, row) /\ row.opcode = \h10 /\ row.coordinate = 5
    BY M115RowsAre
  <2>3. k \in DOMAIN M115Entries /\ M115Entries[k] = row
    BY <2>2 DEF RowAt
  <2>4. QED
    BY <2>1, <2>2, <2>3
<1>3. QED
  BY <1>1, <1>2, TableIs

\* A covered row reads inside of the frame.
LEMMA RawTyped ==
  ASSUME NEW row \in Row, NEW data \in Seq(U8), Len(data) \in 1 .. 8, Covers(data, row)
  PROVE  RawFits(row, Raw(row, data))
<1> DEFINE delta == Delta(row, data)
           i == 2 + delta \div 8
           k == delta % 8
           start == data[1]
           coordinate == row.coordinate
<1>0. Len(data) \in Nat /\ \A m \in 1 .. Len(data) : data[m] \in U8
  OBVIOUS
<1>1. start \in U8 /\ coordinate \in U8
  BY DEF Row
<1>2. coordinate >= start /\ delta = coordinate - start
  BY DEF Covers, Delta
<1> HIDE DEF start, coordinate
<1>3. delta \in Nat
  BY <1>1, <1>2 DEF U8
<1> HIDE DEF delta
<1>4. CASE row.kind = "bit"
  <2>1. delta < 8 * (Len(data) - 1)
    BY <1>4 DEF Covers, delta
  <2>2. i \in 1 .. Len(data) /\ k \in 0 .. 7
    BY <1>0, <1>3, <2>1
  <2>3. Raw(row, data) = BitOf(data[i], k)
    BY <1>4 DEF Raw, delta
  <2> HIDE DEF i, k
  <2> DEFINE byte == data[i]
  <2>4. byte \in U8
    BY <1>0, <2>2
  <2> HIDE DEF byte
  <2>a. byte \in Nat
    BY <2>4 DEF U8
  <2>5. BitOf(byte, k) \in 0 .. 1
    BY <2>2, <2>a, BitTyped
  <2>6. Raw(row, data) \in 0 .. 1
    BY <2>3, <2>5 DEF byte
  <2>7. QED
    BY <2>6 DEF RawFits, U8
<1>5. CASE row.kind # "bit"
  <2>1. 2 + delta \in 1 .. Len(data)
    BY <1>0, <1>3, <1>5 DEF Covers, delta
  <2>2. Raw(row, data) = data[2 + delta]
    BY <1>5 DEF Raw, delta
  <2>3. QED
    BY <1>0, <1>5, <2>1, <2>2 DEF RawFits
<1>6. QED
  BY <1>4, <1>5

LEMMA MatchedAre ==
  ASSUME NEW d, NEW frame \in Frame, Accepts(d, frame)
  PROVE  /\ Fits(d, frame, Len(Table(d)))
         /\ \A j \in Matched(d, frame) :
              /\ j \in 1 .. Len(Table(d))
              /\ Table(d)[j] \in Row
              /\ Table(d)[j].opcode = frame.opcode
              /\ d.profile = "M94" => Table(d)[j] \in M94Row
              /\ d.profile = "M115" => Table(d)[j] \in M115Row
              /\ RawFits(Table(d)[j], Raw(Table(d)[j], frame.data))
<1>1. /\ d.profile \in DOMAIN Entries /\ frame.opcode \in U8
      /\ frame.data \in Seq(U8) /\ Len(frame.data) \in 1 .. 8
  BY DEF Accepts, Frame
<1>2. Table(d) \in Seq(Row) /\ DOMAIN Table(d) = 1 .. Len(Table(d)) /\ Len(Table(d)) \in Nat
  BY <1>1, TableIs
<1>3. ASSUME NEW j \in Matched(d, frame)
      PROVE  j \in DOMAIN Table(d) /\ Table(d)[j].opcode = frame.opcode
             /\ Covers(frame.data, Table(d)[j])
  BY <1>1, TableIs DEF Matched
<1>4. QED
  BY <1>1, <1>2, <1>3, RawTyped, TableIs DEF Fits

LEMMA RowsKeep ==
  ASSUME NEW d, NEW s, NEW frame \in Frame, Accepts(d, frame),
         NEW S, Restarted(s, frame) \in S,
         \A j \in Matched(d, frame) : \A t \in S :
           ApplyEntry(t, Table(d)[j], Raw(Table(d)[j], frame.data)) \in S
  PROVE  RowsApplied(d, s, frame) \in S
<1> DEFINE n == Len(Table(d))
<1>1. Fits(d, frame, n) /\ n \in Nat
  BY MatchedAre DEF Fits
<1> HIDE DEF n
<1>2. PICK f : Applies(f, d, s, frame, n) /\ RowsApplied(d, s, frame) = f[n]
  BY <1>1, RowsInOrder
<1> DEFINE T == {j \in 0 .. n : f[j] \in S}
<1>3. 0 \in T
  BY <1>1, <1>2 DEF Applies
<1>4. ASSUME NEW j \in 1 .. n, j - 1 \in T
      PROVE  j \in T
  BY <1>1, <1>2, <1>4 DEF Applies
<1>5. n \in 0 .. n /\ 0 .. n \subseteq T
  <2> HIDE DEF T
  <2> QED
    BY <1>1, <1>3, <1>4, PlaceInduction
<1>6. QED
  BY <1>2, <1>5

LEMMA RestartedIs ==
  ASSUME NEW s \in MapState, NEW frame
  PROVE  /\ Restarted(s, frame) \in MapState
         /\ Restarted(s, frame) = s
            \/ Restarted(s, frame) = [s EXCEPT !.errorLatch = FALSE]
         /\ Restarted(s, frame).cells = s.cells
         /\ Restarted(s, frame).slotFlags = s.slotFlags
         /\ Restarted(s, frame).modeLatch = s.modeLatch
BY LatchesAre DEF Restarted, MapState
-----------------------------------------------------------------------------
(* What a state of M94 is like, after whichever frames.                    *)

SlotsEqual(s) == \A j, k \in 1 .. SlotCount : s.slotFlags[j] = s.slotFlags[k]

Good94 ==
  {s \in MapState :
     /\ s.modeLatch <=> Cell(s, \h0e) = 7
     /\ Cell(s, \h06) \in {0, \haa, \h55}
     /\ Cell(s, \h26) # 2
     /\ Cell(s, \h0c) \notin 2 .. 4
     /\ Cell(s, \h0d) \in 0 .. 1
     /\ SlotsEqual(s)
     /\ {\h1c, \h1e} \cap DOMAIN s.cells = {}}

\* Clearing bit 0 of a cell that showed 7 makes it show something else.
LEMMA ClearedIsNotSeven ==
  ASSUME NEW b \in U8
  PROVE  WithBit(b, 0, 0) # 7
BY Powers DEF WithBit, BitOf, U8

LEMMA Kept94 ==
  ASSUME NEW s \in Good94, NEW row \in M94Row, NEW raw, RawFits(row, raw)
  PROVE  ApplyEntry(s, row, raw) \in Good94
<1> DEFINE w == Written(s, row, raw)
           t == ApplyEntry(s, row, raw)
           c == row.cell
<1>1. row \in Row /\ s \in MapState /\ c \in U8 /\ c \in Int
  BY DEF M94Row, Good94, Row, U8
<1>2. w \in MapState /\ Local(s, w, row) /\ SameLatches(s, w)
  BY <1>1, WrittenIs DEF Local
<1>3. Local(s, t, row) /\ t \in MapState
  BY <1>1, RowIsLocal DEF Local
<1>4. t = Transformed(w, row, raw)
  BY DEF ApplyEntry
<1>5. raw \in U8
  BY DEF RawFits
<1>6. \A v \in U8 : Put(w, c, v) \in MapState /\ Cell(Put(w, c, v), c) = v
  BY <1>1, <1>2, PutIs
<1>7. row.kind # "bit" => Cell(w, c) = raw
  BY <1>1, WrittenIs
<1> HIDE DEF w, t, c
\* A row that is not remapped is local to a cell without a promise.
<1>8. CASE row.transform \in {"none", "global_mode_latch_projection"}
  <2>1. Touched(row) = {c} /\ c \notin {\h06, \h0c, \h0d, \h0e, \h1c, \h1e, \h26}
    BY <1>8 DEF Touched, M94Row, c
  <2>2. /\ \A k \in {\h06, \h0c, \h0d, \h0e, \h26} : Cell(t, k) = Cell(s, k)
        /\ DOMAIN t.cells \subseteq DOMAIN s.cells \cup {c}
        /\ t.slotFlags = s.slotFlags /\ t.modeLatch = s.modeLatch
    BY <1>3, <1>8, <2>1 DEF Local
  <2>3. QED
    BY <1>3, <2>1, <2>2 DEF Good94, SlotsEqual, t
<1>9. CASE row.transform \in {"boolean_to_magic_aa55", "swing_value_remap",
                              "mode_range_to_boolean", "nonzero_boolean_with_one_cleared"}
  <2>1. Touched(row) = {c} /\ c \in {\h06, \h0c, \h0d, \h26}
    BY <1>9 DEF Touched, M94Row, c
  <2>2. /\ \A k \in {\h06, \h0c, \h0d, \h0e, \h26} \ {c} : Cell(t, k) = Cell(s, k)
        /\ DOMAIN t.cells \subseteq DOMAIN s.cells \cup {c}
        /\ t.slotFlags = s.slotFlags /\ t.modeLatch = s.modeLatch
    BY <1>3, <1>9, <2>1 DEF Local
  <2>3. c = \h06 => Cell(t, c) \in {\haa, \h55}
    <3>1. c = \h06 => t = Put(w, c, IF raw = 1 THEN \haa ELSE \h55)
      BY <1>4 DEF Transformed, M94Row, c
    <3>2. QED
      BY <1>6, <3>1 DEF U8
  <2>4. c = \h26 => Cell(t, c) # 2
    <3>1. c = \h26 => t = Remapped(w, c, SwingValue, raw) /\ Cell(w, c) = raw
      BY <1>4, <1>7 DEF Transformed, M94Row, c
    <3>2. c = \h26 /\ raw \in 1 .. 2 => t = Put(w, c, raw - 1)
      BY <3>1 DEF Remapped, SwingValue
    <3>3. c = \h26 /\ raw \notin 1 .. 2 => t = w
      BY <3>1 DEF Remapped, SwingValue
    <3>4. QED
      BY <1>5, <1>6, <3>1, <3>2, <3>3 DEF U8
  <2>5. c = \h0c => Cell(t, c) \notin 2 .. 4
    <3>1. c = \h0c => t = Remapped(w, c, ModeRange, raw) /\ Cell(w, c) = raw
      BY <1>4, <1>7 DEF Transformed, M94Row, c
    <3>2. c = \h0c /\ raw \in 1 .. 4 => t = Put(w, c, IF raw = 1 THEN 0 ELSE 1)
      BY <3>1 DEF Remapped, ModeRange
    <3>3. c = \h0c /\ raw \notin 1 .. 4 => t = w
      BY <3>1 DEF Remapped, ModeRange
    <3>4. QED
      BY <1>5, <1>6, <3>1, <3>2, <3>3 DEF U8
  <2>6. c = \h0d => Cell(t, c) \in 0 .. 1
    <3>1. c = \h0d => t = Put(w, c, IF raw > 1 THEN 1 ELSE 0)
      BY <1>4 DEF Transformed, M94Row, c
    <3>2. QED
      BY <1>6, <3>1 DEF U8
  <2>7. QED
    BY <1>3, <2>1, <2>2, <2>3, <2>4, <2>5, <2>6 DEF Good94, SlotsEqual, t
<1>10. CASE row.transform = "global_mode_latch_update"
  <2>1. Touched(row) = {c} /\ c = \h0e /\ row.kind = "bit" /\ row.bit = 0
    BY <1>10 DEF Touched, M94Row, c
  <2>2. /\ \A k \in {\h06, \h0c, \h0d, \h26} : Cell(t, k) = Cell(s, k)
        /\ DOMAIN t.cells \subseteq DOMAIN s.cells \cup {c}
        /\ t.slotFlags = s.slotFlags
    BY <1>3, <1>10, <2>1 DEF Local
  <2>3. t = ModeLatchUpdated(w, c, raw)
    BY <1>4, <1>10 DEF Transformed, c
  <2>4. CASE raw = 1
    <3>1. t = [Put(w, c, 7) EXCEPT !.modeLatch = TRUE]
      BY <2>3, <2>4 DEF ModeLatchUpdated
    <3> DEFINE p == Put(w, c, 7)
    <3>2. p \in MapState /\ Cell(p, c) = 7
      BY <1>6 DEF U8
    <3> HIDE DEF p
    <3>3. t = [p EXCEPT !.modeLatch = TRUE]
      BY <3>1 DEF p
    <3>4. t.modeLatch = TRUE /\ t.cells = p.cells
      BY <3>2, <3>3 DEF MapState
    <3>5. Cell(t, c) = 7
      BY <3>2, <3>4 DEF Cell
    <3>6. QED
      BY <1>3, <2>1, <2>2, <3>4, <3>5 DEF Good94, SlotsEqual, t
  <2>5. CASE raw # 1
    <3>1. t = [w EXCEPT !.modeLatch = FALSE]
      BY <2>3, <2>5 DEF ModeLatchUpdated
    <3>2. t.modeLatch = FALSE /\ t.cells = w.cells
      BY <1>2, <3>1 DEF MapState
    <3>3. raw = 0
      BY <2>1, <2>5 DEF RawFits
    <3>4. Cell(w, c) = WithBit(Cell(s, c), 0, 0)
      BY <1>1, <2>1, <3>3, WrittenIs DEF w, c
    <3>5. Cell(t, c) # 7
      BY <1>1, <3>2, <3>4, CellTyped, ClearedIsNotSeven DEF Cell
    <3>6. QED
      BY <1>3, <2>1, <2>2, <3>2, <3>5 DEF Good94, SlotsEqual, t
  <2>6. QED
    BY <2>4, <2>5
<1>11. CASE row.transform = "mode_updates_all_100_slot_flags"
  <2>1. c = \h0b
    BY <1>11 DEF M94Row, c
  \* The guard that would freeze the slots is dead.
  <2>2. Cell(w, c + 19) = 0
    <3>1. \h1e \notin Touched(row)
      BY <1>11, <2>1 DEF Touched, c
    <3>2. Cell(w, \h1e) = Cell(s, \h1e)
      BY <1>2, <3>1 DEF Local
    <3>3. Cell(s, \h1e) = 0
      BY DEF Good94, Cell
    <3>4. QED
      BY <2>1, <3>2, <3>3
  <2>3. t = SlotFlagsUpdated(w, c, raw)
    BY <1>4, <1>11 DEF Transformed, c
  <2>4. t = w \/ t = AllSlots(w, 0) \/ t = AllSlots(w, 1)
    BY <2>2, <2>3 DEF SlotFlagsUpdated
  <2>5. t.cells = w.cells /\ SlotsEqual(t) /\ t.modeLatch = w.modeLatch
    <3>1. SlotsEqual(w)
      BY <1>2 DEF Good94, SlotsEqual, SameLatches
    <3>2. ASSUME NEW v \in {0, 1}, t = AllSlots(w, v)
          PROVE  t.cells = w.cells /\ SlotsEqual(t) /\ t.modeLatch = w.modeLatch
      <4>1. t = [w EXCEPT !.slotFlags = [k \in 1 .. SlotCount |-> v]]
        <5>1. v \in U8
          BY DEF U8
        <5>2. QED
          BY <1>2, <3>2, <5>1, SlotsAre
      <4>2. t.slotFlags = [k \in 1 .. SlotCount |-> v]
        BY <1>2, <4>1 DEF MapState
      <4>3. t.cells = w.cells /\ t.modeLatch = w.modeLatch
        BY <1>2, <4>1 DEF MapState
      <4>4. QED
        BY <4>2, <4>3 DEF SlotsEqual
    <3>3. QED
      BY <2>4, <3>1, <3>2
  <2>6. DOMAIN w.cells = DOMAIN s.cells \cup {c}
    BY <1>1, WrittenAt DEF w, c
  <2>7. \A k \in {\h06, \h0c, \h0d, \h0e, \h26} : Cell(t, k) = Cell(s, k)
    <3>1. \A k \in {\h06, \h0c, \h0d, \h0e, \h26} : k \notin Touched(row)
      BY <1>11, <2>1 DEF Touched, c
    <3>2. QED
      BY <1>3, <3>1 DEF Local
  <2>8. QED
    BY <1>2, <1>3, <2>1, <2>5, <2>6, <2>7 DEF Good94, SlotsEqual, SameLatches, t
<1>12. QED
  BY <1>8, <1>9, <1>10, <1>11 DEF M94Row, t
-----------------------------------------------------------------------------
(* What a state of M115 is like, after whichever frames.                   *)

Good115 ==
  {s \in MapState :
     /\ Cell(s, \h06) \in 0 .. 1
     /\ Cell(s, \h06) # 0 => Cell(s, \h09) = 6
     /\ SlotsEqual(s)
     /\ {\h69, \h6b} \cap DOMAIN s.cells = {}}

LEMMA LowBitWritten ==
  ASSUME NEW b \in 0 .. 1, NEW v \in 0 .. 1
  PROVE  WithBit(b, 0, v) = v
BY Powers DEF WithBit, BitOf

LEMMA Kept115 ==
  ASSUME NEW s \in Good115, NEW row \in M115Row, NEW raw, RawFits(row, raw)
  PROVE  ApplyEntry(s, row, raw) \in Good115
<1> DEFINE w == Written(s, row, raw)
           t == ApplyEntry(s, row, raw)
           c == row.cell
<1>1. row \in Row /\ s \in MapState /\ c \in U8 /\ c \in Int
  BY DEF M115Row, Good115, Row, U8
<1>2. w \in MapState /\ Local(s, w, row) /\ SameLatches(s, w)
  BY <1>1, WrittenIs DEF Local
<1>3. Local(s, t, row) /\ t \in MapState
  BY <1>1, RowIsLocal DEF Local
<1>4. t = Transformed(w, row, raw)
  BY DEF ApplyEntry
<1>5. \A j \in Int : Cell(Put(w, \h09, 6), j) = IF j = \h09 THEN 6 ELSE Cell(w, j)
  <2>1. 6 \in U8 /\ \h09 \in U8 /\ \h09 \in Int
    BY DEF U8
  <2>2. QED
    BY <1>2, <2>1, PutIs
<1> HIDE DEF w, t, c
<1>6. CASE row.transform \in {"none", "boolean_to_magic_aa55", "run_mode_coupled_remap"} \cup Parts
  <2>1. Touched(row) \cap {\h06, \h09, \h69, \h6b} = {}
    BY <1>6 DEF Touched, M115Row, Parts, c
  <2>2. /\ Cell(t, \h06) = Cell(s, \h06) /\ Cell(t, \h09) = Cell(s, \h09)
        /\ DOMAIN t.cells \subseteq DOMAIN s.cells \cup Touched(row)
        /\ t.slotFlags = s.slotFlags
    BY <1>3, <1>6, <2>1 DEF Local, Parts
  <2>3. QED
    BY <1>3, <2>1, <2>2 DEF Good115, SlotsEqual, t
<1>7. CASE row.transform = "coupled_state_remap"
  <2>1. c = \h06 /\ row.kind = "bit" /\ row.bit = 0 /\ raw \in 0 .. 1
    BY <1>7 DEF M115Row, RawFits, c
  <2>2. Touched(row) \cap {\h69, \h6b} = {}
    BY <1>7, <2>1 DEF Touched, c
  <2>3. DOMAIN t.cells \subseteq DOMAIN s.cells \cup Touched(row) /\ t.slotFlags = s.slotFlags
    BY <1>3, <1>7 DEF Local
  <2>4. Cell(w, \h06) = raw
    <3>1. Cell(w, \h06) = WithBit(Cell(s, \h06), 0, raw)
      BY <1>1, <2>1, WrittenIs DEF w, c
    <3>2. Cell(s, \h06) \in 0 .. 1
      BY DEF Good115
    <3>3. QED
      BY <2>1, <3>1, <3>2, LowBitWritten
  <2>5. t = IF raw = 1 THEN Put(w, \h09, 6) ELSE w
    BY <1>4, <1>7, <2>1, <2>4 DEF Transformed, c
  <2>6. Cell(t, \h06) = raw /\ (raw = 1 => Cell(t, \h09) = 6)
    BY <1>5, <2>4, <2>5
  <2>7. QED
    BY <1>3, <2>1, <2>2, <2>3, <2>6 DEF Good115, SlotsEqual, t
<1>8. CASE row.transform = "mode_value_remap"
  <2>1. c = \h09
    BY <1>8 DEF M115Row, c
  <2>2. Touched(row) = {\h09}
    BY <1>8, <2>1 DEF Touched, c
  <2>3. /\ DOMAIN t.cells \subseteq DOMAIN s.cells \cup {\h09}
        /\ t.slotFlags = s.slotFlags
        /\ Cell(t, \h06) = Cell(s, \h06) /\ Cell(w, \h06) = Cell(s, \h06)
    BY <1>2, <1>3, <1>8, <2>2 DEF Local
  <2>4. Cell(w, \h06) # 0 => t = Put(w, \h09, 6)
    BY <1>4, <1>8, <2>1 DEF Transformed, ModeValueForced, c
  <2>5. Cell(t, \h06) # 0 => Cell(t, \h09) = 6
    BY <1>5, <2>3, <2>4
  <2>6. QED
    BY <1>3, <2>3, <2>5 DEF Good115, SlotsEqual, t
<1>9. CASE row.transform = "mode_updates_all_100_slot_flags"
  <2>1. c = \h58
    BY <1>9 DEF M115Row, c
  \* The guard that would freeze the slots is dead.
  <2>2. Cell(w, c + 19) = 0
    <3>1. \h6b \notin Touched(row)
      BY <1>9, <2>1 DEF Touched, c
    <3>2. Cell(w, \h6b) = Cell(s, \h6b)
      BY <1>2, <3>1 DEF Local
    <3>3. Cell(s, \h6b) = 0
      BY DEF Good115, Cell
    <3>4. QED
      BY <2>1, <3>2, <3>3
  <2>3. t = SlotFlagsUpdated(w, c, raw)
    BY <1>4, <1>9 DEF Transformed, c
  <2>4. t = w \/ t = AllSlots(w, 0) \/ t = AllSlots(w, 1)
    BY <2>2, <2>3 DEF SlotFlagsUpdated
  <2>5. t.cells = w.cells /\ SlotsEqual(t)
    <3>1. SlotsEqual(w)
      BY <1>2 DEF Good115, SlotsEqual, SameLatches
    <3>2. ASSUME NEW v \in {0, 1}, t = AllSlots(w, v)
          PROVE  t.cells = w.cells /\ SlotsEqual(t)
      <4>1. t = [w EXCEPT !.slotFlags = [k \in 1 .. SlotCount |-> v]]
        <5>1. v \in U8
          BY DEF U8
        <5>2. QED
          BY <1>2, <3>2, <5>1, SlotsAre
      <4>2. t.slotFlags = [k \in 1 .. SlotCount |-> v] /\ t.cells = w.cells
        BY <1>2, <4>1 DEF MapState
      <4>3. QED
        BY <4>2 DEF SlotsEqual
    <3>3. QED
      BY <2>4, <3>1, <3>2
  <2>6. DOMAIN w.cells = DOMAIN s.cells \cup {c}
    BY <1>1, WrittenAt DEF w, c
  <2>7. Cell(t, \h06) = Cell(s, \h06) /\ Cell(t, \h09) = Cell(s, \h09)
    <3>1. {\h06, \h09} \cap Touched(row) = {}
      BY <1>9, <2>1 DEF Touched, c
    <3>2. QED
      BY <1>3, <3>1 DEF Local
  <2>8. QED
    BY <1>2, <1>3, <2>1, <2>5, <2>6, <2>7 DEF Good115, SlotsEqual, t
<1>10. QED
  BY <1>6, <1>7, <1>8, <1>9 DEF M115Row, Parts, t

\* The cleanup clears cells; the bit it clears is one of a byte.
LEMMA CleanedIs ==
  ASSUME NEW d, NEW s \in MapState
  PROVE  /\ Cleaned(d, s) \in MapState
         /\ SameLatches(s, Cleaned(d, s))
         /\ ~Cleans(d) => Cleaned(d, s) = s
         /\ Cleans(d) =>
              /\ \A c \in {\h06, \h11, \h44} : Cell(Cleaned(d, s), c) = 0
              /\ Cell(Cleaned(d, s), \h42) = WithBit(Cell(s, \h42), 1, 0)
              /\ \A c \in Int \ {\h06, \h11, \h42, \h44} : Cell(Cleaned(d, s), c) = Cell(s, c)
              /\ DOMAIN Cleaned(d, s).cells = DOMAIN s.cells \cup {\h06, \h11, \h42, \h44}
<1>1. CASE ~Cleans(d)
  BY <1>1 DEF Cleaned, SameLatches
<1>2. CASE Cleans(d)
  <2> DEFINE s1 == Put(s, \h06, 0)
             s2 == Put(s1, \h11, 0)
             v == WithBit(Cell(s, \h42), 1, 0)
             s3 == Put(s2, \h42, v)
             s4 == Put(s3, \h44, 0)
  <2>1. Cleaned(d, s) = s4
    BY <1>2 DEF Cleaned
  <2>0. 0 \in U8 /\ {\h06, \h11, \h42, \h44} \subseteq U8
    BY DEF U8
  <2>2. v \in U8
    BY CellTyped, BitWritten
  <2> HIDE DEF v
  <2>3. /\ s1 \in MapState /\ SameLatches(s, s1)
        /\ \A c \in Int : Cell(s1, c) = IF c = \h06 THEN 0 ELSE Cell(s, c)
        /\ DOMAIN s1.cells = DOMAIN s.cells \cup {\h06}
    BY <2>0, PutIs
  <2> HIDE DEF s1
  <2>4. /\ s2 \in MapState /\ SameLatches(s1, s2)
        /\ \A c \in Int : Cell(s2, c) = IF c = \h11 THEN 0 ELSE Cell(s1, c)
        /\ DOMAIN s2.cells = DOMAIN s1.cells \cup {\h11}
    BY <2>0, <2>3, PutIs
  <2> HIDE DEF s2
  <2>5. /\ s3 \in MapState /\ SameLatches(s2, s3)
        /\ \A c \in Int : Cell(s3, c) = IF c = \h42 THEN v ELSE Cell(s2, c)
        /\ DOMAIN s3.cells = DOMAIN s2.cells \cup {\h42}
    BY <2>0, <2>2, <2>4, PutIs
  <2> HIDE DEF s3
  <2>6. /\ s4 \in MapState /\ SameLatches(s3, s4)
        /\ \A c \in Int : Cell(s4, c) = IF c = \h44 THEN 0 ELSE Cell(s3, c)
        /\ DOMAIN s4.cells = DOMAIN s3.cells \cup {\h44}
    BY <2>0, <2>5, PutIs
  <2> HIDE DEF s4
  <2>7. SameLatches(s, s4)
    BY <2>3, <2>4, <2>5, <2>6 DEF SameLatches
  <2>8. \A c \in Int : Cell(s4, c) = IF c \in {\h06, \h11, \h44} THEN 0
                                     ELSE IF c = \h42 THEN v ELSE Cell(s, c)
    BY <2>3, <2>4, <2>5, <2>6
  <2>9. DOMAIN s4.cells = DOMAIN s.cells \cup {\h06, \h11, \h42, \h44}
    BY <2>3, <2>4, <2>5, <2>6
  <2>10. QED
    BY <1>2, <2>1, <2>6, <2>7, <2>8, <2>9 DEF v
<1>3. QED
  BY <1>1, <1>2
-----------------------------------------------------------------------------
(* The inductive invariant.                                                *)

\* What the rows, the restart and the cleanup keep, one frame keeps.
LEMMA RowsTyped ==
  ASSUME NEW d, NEW s \in MapState, NEW frame \in Frame, Accepts(d, frame)
  PROVE  RowsApplied(d, s, frame) \in MapState
<1>1. Restarted(s, frame) \in MapState
  BY RestartedIs
<1>2. ASSUME NEW j \in Matched(d, frame), NEW t \in MapState
      PROVE  ApplyEntry(t, Table(d)[j], Raw(Table(d)[j], frame.data)) \in MapState
  <2>1. Table(d)[j] \in Row /\ RawFits(Table(d)[j], Raw(Table(d)[j], frame.data))
    BY MatchedAre
  <2>2. QED
    BY <2>1, RowIsLocal DEF Local
<1>3. QED
  BY <1>1, <1>2, RowsKeep

LEMMA Decoded94 ==
  ASSUME NEW d, d.profile = "M94", NEW s \in Good94, NEW frame \in Frame, Accepts(d, frame)
  PROVE  Decoded(d, s, frame) \in Good94
<1>1. Restarted(s, frame) \in Good94
  <2>1. s \in MapState
    BY DEF Good94
  <2>2. QED
    BY <2>1, RestartedIs DEF Good94, Cell, SlotsEqual
<1>2. ASSUME NEW j \in Matched(d, frame), NEW t \in Good94
      PROVE  ApplyEntry(t, Table(d)[j], Raw(Table(d)[j], frame.data)) \in Good94
  <2>1. Table(d)[j] \in M94Row /\ RawFits(Table(d)[j], Raw(Table(d)[j], frame.data))
    BY MatchedAre
  <2>2. QED
    BY <2>1, Kept94
<1>3. RowsApplied(d, s, frame) \in Good94
  BY <1>1, <1>2, RowsKeep
<1>4. ~Cleans(d)
  BY DEF Cleans
<1>5. QED
  BY <1>3, <1>4 DEF Decoded, Cleaned

LEMMA Decoded115 ==
  ASSUME NEW d, d.profile = "M115", NEW s \in Good115, NEW frame \in Frame, Accepts(d, frame)
  PROVE  Decoded(d, s, frame) \in Good115
<1>1. Restarted(s, frame) \in Good115
  <2>1. s \in MapState
    BY DEF Good115
  <2>2. QED
    BY <2>1, RestartedIs DEF Good115, Cell, SlotsEqual
<1>2. ASSUME NEW j \in Matched(d, frame), NEW t \in Good115
      PROVE  ApplyEntry(t, Table(d)[j], Raw(Table(d)[j], frame.data)) \in Good115
  <2>1. Table(d)[j] \in M115Row /\ RawFits(Table(d)[j], Raw(Table(d)[j], frame.data))
    BY MatchedAre
  <2>2. QED
    BY <2>1, Kept115
<1> DEFINE t == RowsApplied(d, s, frame)
<1>3. t \in Good115 /\ t \in MapState
  BY <1>1, <1>2, RowsKeep DEF Good115
<1>4. Decoded(d, s, frame) = Cleaned(d, t)
  BY DEF Decoded
<1> HIDE DEF t
<1>5. CASE ~Cleans(d)
  BY <1>3, <1>4, <1>5, CleanedIs
<1>6. CASE Cleans(d)
  BY <1>3, <1>4, <1>6, CleanedIs DEF Good115, SlotsEqual, SameLatches
<1>7. QED
  BY <1>5, <1>6

MapInv ==
  /\ decoder \in Decoders
  /\ state \in MapState /\ uncleaned \in MapState
  /\ SlotsEqual(state)
  /\ decoder.profile = "M94" => state \in Good94
  /\ decoder.profile = "M115" => state \in Good115
  /\ latest.frame.opcode \in U8 /\ latest.accepted \in BOOLEAN
  /\ latest.accepted =>
       /\ latest.frame \in Frame /\ Accepts(decoder, latest.frame)
       /\ \E before \in MapState : state = Decoded(decoder, before, latest.frame)

Nothing ==
  [cells |-> [c \in {} |-> 0], slotFlags |-> [k \in 1 .. SlotCount |-> 0],
   errorLatch |-> FALSE, modeLatch |-> FALSE]

LEMMA NothingIsGood ==
  /\ Nothing \in MapState /\ SlotsEqual(Nothing) /\ DOMAIN Nothing.cells = {}
  /\ Nothing \in Good94 /\ Nothing \in Good115
<1>1. [c \in {} |-> 0] \in PartialCells
  <2>1. [c \in {} |-> 0] \in [{} -> U8]
    OBVIOUS
  <2>2. QED
    BY <2>1 DEF PartialCells
<1>2. [k \in 1 .. SlotCount |-> 0] \in [1 .. SlotCount -> U8]
  BY DEF U8
<1>3. Nothing \in MapState
  BY <1>1, <1>2 DEF Nothing, MapState
<1>4. SlotsEqual(Nothing) /\ DOMAIN Nothing.cells = {} /\ Nothing.modeLatch = FALSE
  BY DEF Nothing, SlotsEqual
<1>5. \A c : Cell(Nothing, c) = 0
  BY <1>4 DEF Cell
<1>6. QED
  BY <1>3, <1>4, <1>5 DEF Good94, Good115

LEMMA MapInitially == Init => MapInv
<1> SUFFICES ASSUME Init
             PROVE  MapInv
  OBVIOUS
<1>1. state = Nothing /\ uncleaned = Nothing
  BY DEF Init, Nothing
<1>2. latest.frame.opcode = 0 /\ latest.accepted = FALSE /\ decoder \in Decoders
  BY DEF Init
<1>3. /\ state \in MapState /\ uncleaned \in MapState /\ SlotsEqual(state)
      /\ state \in Good94 /\ state \in Good115
  BY <1>1, NothingIsGood
<1>4. latest.frame.opcode \in U8
  BY <1>2 DEF U8
<1>5. QED
  BY <1>2, <1>3, <1>4 DEF MapInv

LEMMA MapStep ==
  ASSUME MapInv, [Next]_vars
  PROVE  MapInv'
<1>1. CASE UNCHANGED vars
  BY <1>1 DEF MapInv, vars
<1>2. ASSUME NEW frame \in Traffic[decoder.traffic], Apply(frame)
      PROVE  MapInv'
  <2>1. frame \in Frame /\ frame.opcode \in U8 /\ decoder' = decoder /\ decoder \in Decoders
    BY <1>2, MapAssumption DEF MapInv, Apply, Frame
  <2>2. latest'.frame = frame /\ latest'.accepted = Accepts(decoder, frame)
    BY <1>2 DEF Apply
  <2>3. latest'.accepted \in BOOLEAN
    BY <2>2 DEF Accepts
  <2>4. CASE Accepts(decoder, frame)
    <3>1. /\ state' = Decoded(decoder, state, frame)
          /\ uncleaned' = RowsApplied(decoder, uncleaned, frame)
      BY <1>2, <2>4 DEF Apply
    <3>2. uncleaned' \in MapState
      BY <2>1, <2>4, <3>1, RowsTyped DEF MapInv
    <3>3. decoder.profile = "M94" \/ decoder.profile = "M115"
      BY <2>4, TableIs DEF Accepts
    <3>4. CASE decoder.profile = "M94"
      <4>1. state' \in Good94
        BY <2>1, <2>4, <3>1, <3>4, Decoded94 DEF MapInv
      <4>2. state' \in MapState /\ SlotsEqual(state')
        BY <4>1 DEF Good94
      <4>3. QED
        BY <2>1, <2>2, <2>3, <2>4, <3>1, <3>2, <3>4, <4>1, <4>2 DEF MapInv, SlotsEqual
    <3>5. CASE decoder.profile = "M115"
      <4>1. state' \in Good115
        BY <2>1, <2>4, <3>1, <3>5, Decoded115 DEF MapInv
      <4>2. state' \in MapState /\ SlotsEqual(state')
        BY <4>1 DEF Good115
      <4>3. QED
        BY <2>1, <2>2, <2>3, <2>4, <3>1, <3>2, <3>5, <4>1, <4>2 DEF MapInv, SlotsEqual
    <3>6. QED
      BY <3>3, <3>4, <3>5
  <2>5. CASE ~Accepts(decoder, frame)
    <3>1. UNCHANGED <<state, uncleaned>>
      BY <1>2, <2>5 DEF Apply
    <3>2. QED
      BY <2>1, <2>2, <2>3, <2>5, <3>1 DEF MapInv, SlotsEqual
  <2>6. QED
    BY <2>4, <2>5
<1>3. QED
  BY <1>1, <1>2 DEF Next

LEMMA MapInvariant == Spec => []MapInv
BY MapInitially, MapStep, PTL DEF Spec

\* Types, whichever frames arrive.
THEOREM Typed == Spec => []TypeOK
<1>1. MapInv => TypeOK
  <2> SUFFICES ASSUME MapInv
               PROVE  TypeOK
    OBVIOUS
  <2>1. PICK D \in SUBSET U8 : state.cells \in [D -> U8]
    BY DEF MapInv, MapState, PartialCells
  <2>2. DOMAIN state.cells \subseteq U8 /\ \A c \in DOMAIN state.cells : state.cells[c] \in U8
    BY <2>1
  <2>3. QED
    BY <2>2 DEF MapInv, MapState, TypeOK
<1>2. QED
  BY <1>1, MapInvariant, PTL

\* M94: the mode latch, which no caller sees, is set exactly when cell 0x0e shows 7.
THEOREM LatchShown == Spec => []ModeLatchIsShown
<1>1. MapInv => ModeLatchIsShown
  BY DEF MapInv, ModeLatchIsShown, Good94
<1>2. QED
  BY <1>1, MapInvariant, PTL

\* M94: no frame leaves a raw value from inside of the remapped range in a remapped cell.
THEOREM RemapsTotal == Spec => []RemapsAreTotal
<1>1. MapInv => RemapsAreTotal
  BY DEF MapInv, RemapsAreTotal, Good94
<1>2. QED
  BY <1>1, MapInvariant, PTL

\* M115: as long as cell 0x06 is set, cell 0x09 shows mode 6.
THEOREM ModeForced == Spec => []CoupledModeIsForced
<1>1. MapInv => CoupledModeIsForced
  BY DEF MapInv, CoupledModeIsForced, Good115
<1>2. QED
  BY <1>1, MapInvariant, PTL

\* The slot flags are equal, and nothing ever writes the cells that would freeze them.
THEOREM SlotsTogether == Spec => []SlotsMoveTogether
<1>1. MapInv => SlotsMoveTogether
  BY DEF MapInv, SlotsMoveTogether, SlotsEqual, Good94, Good115
<1>2. QED
  BY <1>1, MapInvariant, PTL
-----------------------------------------------------------------------------
(* One error from nine rows.                                               *)

LEMMA CountingSetsBit ==
  ASSUME NEW b \in U8, BitOf(b, 0) = 0
  PROVE  (b + 1) % 256 \in U8 /\ BitOf((b + 1) % 256, 0) = 1
BY Powers DEF BitOf, U8

\* Place j of the table is a part of the error and reads 1.
ReadsError(d, frame, j) ==
  j \in Matched(d, frame) /\ Table(d)[j].transform \in Parts
    /\ Raw(Table(d)[j], frame.data) = 1

\* Until the finalizing row the latch gathers the parts that were read.
LEMMA LatchGathers ==
  ASSUME NEW d, d.profile = "M115", NEW s \in MapState, NEW frame \in Frame, Accepts(d, frame),
         NEW f, NEW n, n = Len(Table(d)), Applies(f, d, s, frame, n),
         NEW k, Finalizes(Table(d), k)
  PROVE  \A j \in 0 .. k - 1 :
           /\ f[j] \in MapState
           /\ f[j].errorLatch \in BOOLEAN
           /\ f[j].errorLatch <=>
                f[0].errorLatch \/ \E i \in 1 .. j : ReadsError(d, frame, i)
<1> DEFINE Gathered(j) == f[j].errorLatch <=>
                            f[0].errorLatch \/ \E i \in 1 .. j : ReadsError(d, frame, i)
           T == {j \in 0 .. k - 1 : f[j] \in MapState /\ Gathered(j)}
<1>1. n \in Nat /\ k \in 1 .. n /\ \A j \in 1 .. k - 1 : Table(d)[j] \in Before
  <2>1. Table(d) \in Seq(M115Row)
    BY DEF Finalizes
  <2>2. QED
    BY <2>1 DEF Finalizes
<1>2. 0 \in T
  <2>1. f[0] \in MapState
    BY RestartedIs DEF Applies
  <2>2. QED
    BY <1>1, <2>1
<1>3. ASSUME NEW j \in 1 .. k - 1, j - 1 \in T
      PROVE  j \in T
  <2> DEFINE row == Table(d)[j]
             raw == Raw(row, frame.data)
             t == f[j - 1]
  <2>0. j \in 1 .. n /\ j \in 0 .. k - 1 /\ \A i : i \in 1 .. j <=> i \in 1 .. j - 1 \/ i = j
    BY <1>1
  <2>1. t \in MapState /\ Gathered(j - 1) /\ row \in Before
    BY <1>1, <1>3
  <2>2. CASE j \notin Matched(d, frame)
    <3>1. f[j] = t
      BY <2>0, <2>2 DEF Applies
    <3>2. ~ReadsError(d, frame, j)
      BY <2>2 DEF ReadsError
    <3>3. QED
      BY <2>0, <2>1, <3>1, <3>2
  <2>3. CASE j \in Matched(d, frame)
    <3>1. f[j] = ApplyEntry(t, row, raw)
      BY <2>0, <2>3 DEF Applies
    <3>2. row \in Row /\ RawFits(row, raw)
      BY <2>3, MatchedAre
    <3>3. ReadsError(d, frame, j) <=> row.transform \in Parts /\ raw = 1
      BY <2>3 DEF ReadsError
    <3> HIDE DEF row, raw, t
    <3>4. f[j] \in MapState
      BY <2>1, <3>1, <3>2, RowIsLocal DEF Local
    <3>5. CASE row.transform \in Parts
      <4>1. row.transform = "aggregate_error_latch_part"
        BY <2>1, <3>5 DEF Before, Parts
      <4> DEFINE w == Written(t, row, raw)
      <4>2. w \in MapState /\ w.errorLatch = t.errorLatch
        BY <2>1, <3>2, WrittenIs DEF Local, SameLatches
      <4>3. f[j] = [w EXCEPT !.errorLatch = @ \/ raw = 1]
        BY <3>1, <4>1 DEF ApplyEntry, Transformed
      <4> HIDE DEF w
      <4>4. f[j].errorLatch = (t.errorLatch \/ raw = 1)
        BY <4>2, <4>3 DEF MapState
      <4>5. QED
        BY <2>0, <2>1, <3>3, <3>4, <3>5, <4>4 DEF t
    <3>6. CASE row.transform \notin Parts
      <4>1. f[j].errorLatch = t.errorLatch
        BY <2>1, <3>1, <3>2, <3>6, RowIsLocal DEF Local, Parts
      <4>2. QED
        BY <2>0, <2>1, <3>3, <3>4, <3>6, <4>1 DEF t
    <3>7. QED
      BY <3>5, <3>6
  <2>4. QED
    BY <2>2, <2>3
<1>4. 0 .. k - 1 \subseteq T
  <2>1. k - 1 \in Nat
    BY <1>1
  <2> HIDE DEF T
  <2>2. QED
    BY <1>2, <1>3, <2>1, PlaceInduction
<1>5. QED
  BY <1>4 DEF MapState

\* After the finalizing row nothing touches bit 0 of cell 0x53.
LEMMA ErrorBitStays ==
  ASSUME NEW t \in MapState, NEW row \in After, NEW raw, RawFits(row, raw)
  PROVE  BitOf(Cell(ApplyEntry(t, row, raw), \h53), 0) = BitOf(Cell(t, \h53), 0)
<1>1. row \in Row /\ row \in M115Row /\ row.transform \notin Parts
  BY DEF After, M115Row
<1>2. CASE row.cell = \h53
  <2>1. row.kind = "bit" /\ row.bit \in 1 .. 7 /\ row.transform = "none"
    BY <1>1, <1>2 DEF M115Row, Row
  <2>2. Cell(ApplyEntry(t, row, raw), \h53) = WithBit(Cell(t, \h53), row.bit, raw)
    BY <1>1, <1>2, <2>1, WrittenIs DEF ApplyEntry, Transformed
  <2>3. Cell(t, \h53) \in U8 /\ raw \in 0 .. 1 /\ row.bit \in 0 .. 7 /\ 0 \in 0 .. 7 \ {row.bit}
    BY <2>1, CellTyped DEF RawFits
  <2> HIDE DEF BitOf
  <2>4. QED
    BY <2>2, <2>3, BitWritten
<1>3. CASE row.cell # \h53
  <2>1. \h53 \notin Touched(row)
    BY <1>1, <1>3 DEF Touched, M115Row, Row, U8
  <2>2. QED
    BY <1>1, <2>1, RowIsLocal DEF Local
<1>4. QED
  BY <1>2, <1>3

LEMMA Finalized ==
  ASSUME NEW t \in MapState, NEW row \in M115Row, NEW raw, RawFits(row, raw),
         row.transform = "aggregate_error_latch_finalize"
  PROVE  BitOf(Cell(ApplyEntry(t, row, raw), \h53), 0) = 1 <=> raw = 1 \/ t.errorLatch
<1> DEFINE w == Written(t, row, raw)
           u == ApplyEntry(t, row, raw)
<1>1. row \in Row /\ row.cell = \h53 /\ row.bit = 0 /\ row.kind = "bit"
  BY DEF M115Row, Parts
<1>2. raw \in 0 .. 1
  BY <1>1 DEF RawFits
<1>3. w \in MapState /\ w.errorLatch = t.errorLatch /\ w.errorLatch \in BOOLEAN
  BY <1>1, WrittenIs DEF Local, SameLatches, MapState
<1>4. Cell(w, \h53) \in U8 /\ BitOf(Cell(w, \h53), 0) = raw
  <2>1. Cell(w, \h53) = WithBit(Cell(t, \h53), 0, raw)
    BY <1>1, WrittenIs
  <2>2. QED
    BY <1>2, <2>1, CellTyped, BitWritten
<1>5. u = ErrorLatchFinalized(w, \h53, raw)
  BY <1>1 DEF ApplyEntry, Transformed
<1> HIDE DEF w, u
<1>6. CASE raw = 1
  <2>1. u = [w EXCEPT !.errorLatch = FALSE]
    BY <1>5, <1>6 DEF ErrorLatchFinalized
  <2>2. Cell(u, \h53) = Cell(w, \h53)
    BY <1>3, <2>1 DEF MapState, Cell
  <2>3. QED
    BY <1>4, <1>6, <2>2 DEF u
<1>7. CASE raw = 0 /\ t.errorLatch
  <2>1. u = Put(w, \h53, (Cell(w, \h53) + 1) % 256)
    BY <1>3, <1>5, <1>7 DEF ErrorLatchFinalized
  <2>2. (Cell(w, \h53) + 1) % 256 \in U8 /\ BitOf((Cell(w, \h53) + 1) % 256, 0) = 1
    BY <1>4, <1>7, CountingSetsBit
  <2> DEFINE v == (Cell(w, \h53) + 1) % 256
  <2> HIDE DEF v
  <2>3. u = Put(w, \h53, v) /\ v \in U8 /\ BitOf(v, 0) = 1
    BY <2>1, <2>2 DEF v
  <2>4. \h53 \in U8 /\ \h53 \in Int
    BY DEF U8
  <2>5. Cell(u, \h53) = v
    BY <1>3, <2>3, <2>4, PutIs
  <2>6. QED
    BY <1>7, <2>3, <2>5 DEF u
<1>8. CASE raw = 0 /\ ~t.errorLatch
  <2>1. u = w
    BY <1>3, <1>5, <1>8 DEF ErrorLatchFinalized
  <2>2. QED
    BY <1>4, <1>8, <2>1 DEF u
<1>9. QED
  BY <1>2, <1>6, <1>7, <1>8

LEMMA ErrorBitDecoded ==
  ASSUME NEW d, d.profile = "M115", NEW s \in MapState, NEW frame \in Frame, Accepts(d, frame),
         frame.data[1] = 0, NEW p \in Matched(d, frame),
         Table(d)[p].transform = "aggregate_error_latch_finalize"
  PROVE  BitOf(Cell(Decoded(d, s, frame), \h53), 0) = 1
           <=> \E i \in Matched(d, frame) : ReadsError(d, frame, i)
<1> DEFINE n == Len(Table(d))
<1>1. PICK k : Finalizes(Table(d), k)
  <2>1. Table(d) = M115Entries
    BY DEF Table, Entries
  <2>2. QED
    BY <2>1, M115RowsAre
<1>2. Fits(d, frame, n) /\ n \in Nat
  BY MatchedAre DEF Fits
<1>3. p = k /\ k \in 1 .. n /\ p \in 1 .. n
  <2>1. p \in 1 .. n /\ k \in 1 .. n
    BY <1>1, MatchedAre DEF Finalizes
  <2>2. p < k => Table(d)[p] \in Before
    BY <1>1, <2>1 DEF Finalizes
  <2>3. k < p => Table(d)[p] \in After
    BY <1>1, <2>1 DEF Finalizes
  <2>4. ~(p < k) /\ ~(k < p)
    BY <2>2, <2>3 DEF Before, After, Parts
  <2> HIDE DEF n
  <2>5. QED
    BY <1>2, <2>1, <2>4
<1>4. frame.opcode = \h3d
  <2>1. Table(d)[p] \in M115Row /\ Table(d)[p].opcode = frame.opcode
    BY MatchedAre
  <2>2. QED
    BY <2>1 DEF M115Row, Parts
<1>5. PICK f : Applies(f, d, s, frame, n) /\ RowsApplied(d, s, frame) = f[n]
  BY <1>2, RowsInOrder
<1>6. /\ f[k - 1] \in MapState
      /\ f[k - 1].errorLatch <=> \E i \in 1 .. k - 1 : ReadsError(d, frame, i)
  <2>1. k - 1 \in 0 .. k - 1
    BY <1>2, <1>3
  <2>2. /\ f[k - 1] \in MapState
        /\ f[k - 1].errorLatch <=>
             f[0].errorLatch \/ \E i \in 1 .. k - 1 : ReadsError(d, frame, i)
    BY <1>1, <1>5, <2>1, LatchGathers
  <2>3. f[0] = [s EXCEPT !.errorLatch = FALSE]
    BY <1>4, <1>5 DEF Applies, Restarted
  <2>4. ~f[0].errorLatch
    BY <2>3 DEF MapState
  <2>5. QED
    BY <2>2, <2>4
<1> DEFINE row == Table(d)[k]
           raw == Raw(row, frame.data)
           Error(t) == BitOf(Cell(t, \h53), 0) = 1
           Reads == \E i \in Matched(d, frame) : ReadsError(d, frame, i)
<1>7. f[k] = ApplyEntry(f[k - 1], row, raw)
  BY <1>3, <1>5 DEF Applies
<1>8. row \in M115Row /\ row \in Row /\ RawFits(row, raw)
      /\ row.transform = "aggregate_error_latch_finalize"
  BY <1>3, MatchedAre
<1>9. Reads <=> raw = 1 \/ \E i \in 1 .. k - 1 : ReadsError(d, frame, i)
  <2>1. ReadsError(d, frame, k) <=> raw = 1
    BY <1>3, <1>8 DEF ReadsError, Parts
  <2>2. ASSUME NEW i \in Matched(d, frame), ReadsError(d, frame, i)
        PROVE  i = k \/ i \in 1 .. k - 1
    <3>1. i \in 1 .. n
      BY MatchedAre
    <3>2. k < i => Table(d)[i] \in After
      BY <1>1, <3>1 DEF Finalizes
    <3>3. ~(k < i)
      BY <2>2, <3>2 DEF After, ReadsError
    <3> HIDE DEF n
    <3>4. QED
      BY <1>2, <1>3, <3>1, <3>3
  <2>3. \A i : ReadsError(d, frame, i) => i \in Matched(d, frame)
    BY DEF ReadsError
  <2> HIDE DEF raw, row
  <2>4. QED
    BY <1>3, <2>1, <2>2, <2>3
<1> HIDE DEF row, raw, Reads
<1>10. Error(f[k]) <=> Reads
  BY <1>6, <1>7, <1>8, <1>9, Finalized
<1>11. f[k] \in MapState
  BY <1>6, <1>7, <1>8, RowIsLocal DEF Local
<1> HIDE DEF Error
<1> DEFINE T == {j \in 0 .. n : j < k \/ (f[j] \in MapState /\ (Error(f[j]) <=> Reads))}
<1>12. 0 \in T
  BY <1>2, <1>3
<1>13. ASSUME NEW j \in 1 .. n, j - 1 \in T
       PROVE  j \in T
  <2>1. CASE j < k
    BY <2>1
  <2>2. CASE j = k
    BY <1>10, <1>11, <2>2
  <2>3. CASE k < j
    <3> DEFINE r == Table(d)[j]
               v == Raw(r, frame.data)
    <3>1. f[j - 1] \in MapState /\ (Error(f[j - 1]) <=> Reads)
      BY <1>2, <1>3, <1>13, <2>3
    <3>2. r \in After
      BY <1>1, <1>2, <1>3, <2>3 DEF Finalizes
    <3>3. CASE j \in Matched(d, frame)
      <4>1. RawFits(r, v) /\ r \in Row /\ f[j] = ApplyEntry(f[j - 1], r, v)
        BY <1>5, <3>3, MatchedAre DEF Applies
      <4> HIDE DEF r, v, n
      <4>2. f[j] \in MapState
        BY <3>1, <4>1, RowIsLocal DEF Local
      <4>3. Error(f[j]) <=> Error(f[j - 1])
        BY <3>1, <3>2, <4>1, ErrorBitStays DEF Error
      <4>4. QED
        BY <3>1, <4>2, <4>3
    <3>4. CASE j \notin Matched(d, frame)
      <4>1. f[j] = f[j - 1]
        BY <1>5, <3>4 DEF Applies
      <4>2. QED
        BY <3>1, <4>1
    <3>5. QED
      BY <3>3, <3>4
  <2> HIDE DEF n
  <2>4. QED
    BY <1>2, <1>3, <2>1, <2>2, <2>3
<1>14. n \in T
  <2> HIDE DEF T, n
  <2>1. 0 .. n \subseteq T
    BY <1>2, <1>12, <1>13, PlaceInduction
  <2>2. QED
    BY <1>2, <2>1
<1>15. f[n] \in MapState /\ (Error(f[n]) <=> Reads)
  <2> HIDE DEF n
  <2>1. ~(n < k)
    BY <1>2, <1>3
  <2>2. QED
    BY <1>14, <2>1
<1>16. Cell(Decoded(d, s, frame), \h53) = Cell(f[n], \h53)
  <2> HIDE DEF n
  <2>1. Decoded(d, s, frame) = Cleaned(d, f[n])
    BY <1>5 DEF Decoded
  <2>2. QED
    BY <1>15, <2>1, CleanedIs
<1>17. QED
  BY <1>15, <1>16 DEF Error, Reads

\* M115: after a frame that covers the finalizing row from the start, bit 0 of cell 0x53
\* is the disjunction of the nine rows that write it, for every frame and state.
THEOREM ErrorIsDisjunction == Spec => []ErrorBitIsDisjunction
<1>1. MapInv => ErrorBitIsDisjunction
  <2> SUFFICES ASSUME MapInv
               PROVE  ErrorBitIsDisjunction
    OBVIOUS
  <2> DEFINE frame == latest.frame
             parts == {row \in Read : row.transform \in {"aggregate_error_latch_part",
                                                         "aggregate_error_latch_finalize"}}
  <2> SUFFICES ASSUME latest.accepted, frame.data[1] = 0,
                      NEW r \in parts, r.transform = "aggregate_error_latch_finalize"
               PROVE  BitOf(Cell(state, \h53), 0) = 1 <=> \E row \in parts : RawOf(row) = 1
    BY DEF ErrorBitIsDisjunction
  <2>1. frame \in Frame /\ Accepts(decoder, frame)
    BY DEF MapInv
  <2>2. PICK s \in MapState : state = Decoded(decoder, s, frame)
    BY DEF MapInv
  <2>3. PICK p \in Matched(decoder, frame) : r = Table(decoder)[p]
    BY DEF Read
  <2>4. decoder.profile = "M115"
    <3>1. decoder.profile = "M94" => r \in M94Row
      BY <2>1, <2>3, MatchedAre
    <3>2. decoder.profile # "M94"
      BY <3>1 DEF M94Row
    <3>3. QED
      BY <2>1, <3>2, TableIs DEF Accepts
  <2>5. BitOf(Cell(state, \h53), 0) = 1
          <=> \E i \in Matched(decoder, frame) : ReadsError(decoder, frame, i)
    BY <2>1, <2>2, <2>3, <2>4, ErrorBitDecoded
  <2>6. (\E i \in Matched(decoder, frame) : ReadsError(decoder, frame, i))
          <=> \E row \in parts : RawOf(row) = 1
    BY DEF ReadsError, Read, RawOf, Parts
  <2>7. QED
    BY <2>5, <2>6
<1>2. QED
  BY <1>1, MapInvariant, PTL
-----------------------------------------------------------------------------
(* The cleanup, against a decoder that never cleans up.                    *)

\* Equal but for the cells of the cleanup, and cell 0x09 behind one of them.
Near(s, u) ==
  /\ \A c \in Int \ {\h06, \h09, \h11, \h42, \h44} : Cell(s, c) = Cell(u, c)
  /\ \A k \in 0 .. 7 \ {1} : BitOf(Cell(s, \h42), k) = BitOf(Cell(u, \h42), k)
  /\ SameLatches(s, u)

LEMMA PutNear ==
  ASSUME NEW s \in MapState, NEW u \in MapState, Near(s, u), NEW c \in U8, NEW v \in U8
  PROVE  /\ Put(s, c, v) \in MapState /\ Put(u, c, v) \in MapState
         /\ Near(Put(s, c, v), Put(u, c, v))
<1>1. c \in Int
  BY DEF U8
<1> DEFINE s1 == Put(s, c, v)
           u1 == Put(u, c, v)
<1>2. /\ s1 \in MapState /\ SameLatches(s, s1)
      /\ \A k \in Int : Cell(s1, k) = IF k = c THEN v ELSE Cell(s, k)
  BY <1>1, PutIs
<1>3. /\ u1 \in MapState /\ SameLatches(u, u1)
      /\ \A k \in Int : Cell(u1, k) = IF k = c THEN v ELSE Cell(u, k)
  BY <1>1, PutIs
<1> HIDE DEF s1, u1
<1>4. Near(s1, u1)
  BY <1>2, <1>3 DEF Near, SameLatches
<1>5. QED
  BY <1>2, <1>3, <1>4 DEF s1, u1

LEMMA WrittenNear ==
  ASSUME NEW s \in MapState, NEW u \in MapState, Near(s, u),
         NEW row \in M115Row, NEW raw, RawFits(row, raw)
  PROVE  Near(Written(s, row, raw), Written(u, row, raw))
<1> DEFINE s1 == Written(s, row, raw)
           u1 == Written(u, row, raw)
           c == row.cell
<1>1. row \in Row /\ c \in U8 /\ c \in Int /\ Touched(row) \cap {c} = {c}
  BY DEF M115Row, Row, U8, Touched
<1>2. /\ s1 = Put(s, c, IF row.kind = "bit" THEN WithBit(Cell(s, c), row.bit, raw) ELSE raw)
      /\ u1 = Put(u, c, IF row.kind = "bit" THEN WithBit(Cell(u, c), row.bit, raw) ELSE raw)
  BY DEF Written
<1>3. CASE row.kind # "bit"
  BY <1>1, <1>2, <1>3, PutNear DEF RawFits
<1>4. CASE row.kind = "bit"
  <2> DEFINE v == WithBit(Cell(s, c), row.bit, raw)
             x == WithBit(Cell(u, c), row.bit, raw)
  <2>1. row.bit \in 0 .. 7 /\ raw \in 0 .. 1
    BY <1>1, <1>4 DEF Row, RawFits
  <2>2. Cell(s, c) \in U8 /\ Cell(u, c) \in U8
    BY CellTyped
  <2>3. /\ v \in U8 /\ BitOf(v, row.bit) = raw
        /\ \A k \in 0 .. 7 \ {row.bit} : BitOf(v, k) = BitOf(Cell(s, c), k)
    BY <2>1, <2>2, BitWritten
  <2>4. /\ x \in U8 /\ BitOf(x, row.bit) = raw
        /\ \A k \in 0 .. 7 \ {row.bit} : BitOf(x, k) = BitOf(Cell(u, c), k)
    BY <2>1, <2>2, BitWritten
  <2>5. CASE c \notin {\h06, \h09, \h11, \h42, \h44}
    <3>1. Cell(s, c) = Cell(u, c)
      BY <1>1, <2>5 DEF Near
    <3>2. QED
      BY <1>1, <1>2, <1>4, <2>3, <3>1, PutNear
  <2>6. CASE c \in {\h06, \h09, \h11, \h42, \h44}
    <3>1. s1 = Put(s, c, v) /\ u1 = Put(u, c, x)
      BY <1>2, <1>4
    <3> HIDE DEF s1, u1, v, x
    <3>2. SameLatches(s, s1) /\ \A k \in Int : Cell(s1, k) = IF k = c THEN v ELSE Cell(s, k)
      BY <1>1, <2>3, <3>1, PutIs
    <3>3. SameLatches(u, u1) /\ \A k \in Int : Cell(u1, k) = IF k = c THEN x ELSE Cell(u, k)
      BY <1>1, <2>4, <3>1, PutIs
    <3>4. SameLatches(s1, u1)
      BY <3>2, <3>3 DEF Near, SameLatches
    <3>5. \A k \in Int \ {\h06, \h09, \h11, \h42, \h44} : Cell(s1, k) = Cell(u1, k)
      BY <2>6, <3>2, <3>3 DEF Near
    <3>6. \A k \in 0 .. 7 \ {1} : BitOf(Cell(s1, \h42), k) = BitOf(Cell(u1, \h42), k)
      BY <2>1, <2>3, <2>4, <3>2, <3>3 DEF Near
    <3>7. QED
      BY <3>4, <3>5, <3>6 DEF Near, s1, u1
  <2>7. QED
    BY <2>5, <2>6
<1>5. QED
  BY <1>3, <1>4

\* No row carries a difference from the cells of the cleanup to another cell.
LEMMA RowNear ==
  ASSUME NEW s \in MapState, NEW u \in MapState, Near(s, u),
         NEW row \in M115Row, NEW raw, RawFits(row, raw)
  PROVE  Near(ApplyEntry(s, row, raw), ApplyEntry(u, row, raw))
<1> DEFINE s1 == Written(s, row, raw)
           u1 == Written(u, row, raw)
           s2 == ApplyEntry(s, row, raw)
           u2 == ApplyEntry(u, row, raw)
           c == row.cell
<1>1. row \in Row /\ c \in U8 /\ raw \in U8
  BY DEF M115Row, Row, RawFits
<1>2. s1 \in MapState /\ u1 \in MapState /\ Near(s1, u1)
  BY <1>1, WrittenIs, WrittenNear DEF Local
<1>3. s2 = Transformed(s1, row, raw) /\ u2 = Transformed(u1, row, raw)
  BY DEF ApplyEntry
<1>4. \A k \in U8, v \in U8 : /\ Put(s1, k, v) \in MapState /\ Put(u1, k, v) \in MapState
                              /\ Near(Put(s1, k, v), Put(u1, k, v))
  BY <1>2, PutNear
<1> HIDE DEF s1, u1, s2, u2, c
<1>5. CASE row.transform = "none"
  BY <1>2, <1>3, <1>5 DEF Transformed, s2, u2
<1>6. CASE row.transform = "boolean_to_magic_aa55"
  <2> DEFINE v == IF raw = 1 THEN \haa ELSE \h55
  <2>1. v \in U8 /\ s2 = Put(s1, c, v) /\ u2 = Put(u1, c, v)
    BY <1>3, <1>6 DEF Transformed, U8, c
  <2> HIDE DEF v
  <2>2. QED
    BY <1>1, <1>4, <2>1 DEF s2, u2
<1>7. CASE row.transform = "run_mode_coupled_remap"
  <2>1. c = \h0a /\ \h0d \in U8 /\ 5 \in U8 /\ 1 \in U8
    BY <1>7 DEF M115Row, U8, c
  <2>2. Cell(s1, c + 3) = Cell(u1, c + 3)
    BY <1>2, <2>1 DEF Near
  <2> DEFINE s3 == IF Cell(s1, c + 3) # 0 THEN Put(s1, c, 5) ELSE s1
             u3 == IF Cell(u1, c + 3) # 0 THEN Put(u1, c, 5) ELSE u1
  <2>3. s3 \in MapState /\ u3 \in MapState /\ Near(s3, u3)
    BY <1>1, <1>2, <1>4, <2>1, <2>2
  <2>4. /\ s2 = IF raw \in {5, 6} THEN Put(s3, c + 3, 1) ELSE s3
        /\ u2 = IF raw \in {5, 6} THEN Put(u3, c + 3, 1) ELSE u3
    BY <1>3, <1>7 DEF Transformed, RunModeCoupled, c
  <2> HIDE DEF s3, u3
  <2>5. Near(Put(s3, c + 3, 1), Put(u3, c + 3, 1))
    BY <2>1, <2>3, PutNear
  <2>6. QED
    BY <2>3, <2>4, <2>5 DEF s2, u2
<1>8. CASE row.transform = "mode_updates_all_100_slot_flags"
  <2>1. c = \h58 /\ c + 17 \in U8 /\ 2 \in U8 /\ 0 \in U8 /\ 1 \in U8
    BY <1>8 DEF M115Row, U8, c
  <2>2. Cell(s1, c + 19) = Cell(u1, c + 19) /\ Cell(s1, c - 4) = Cell(u1, c - 4)
    BY <1>2, <2>1 DEF Near
  <2>3. ASSUME NEW v \in U8
        PROVE  Near(AllSlots(s1, v), AllSlots(u1, v))
    <3> DEFINE s3 == AllSlots(s1, v)
               u3 == AllSlots(u1, v)
               slots == [k \in 1 .. SlotCount |-> v]
    <3>1. s3 = [s1 EXCEPT !.slotFlags = slots] /\ u3 = [u1 EXCEPT !.slotFlags = slots]
      BY <1>2, SlotsAre
    <3> HIDE DEF s3, u3, slots
    <3>2. /\ s3.cells = s1.cells /\ s3.errorLatch = s1.errorLatch
          /\ s3.modeLatch = s1.modeLatch /\ s3.slotFlags = slots
      BY <1>2, <3>1 DEF MapState
    <3>3. /\ u3.cells = u1.cells /\ u3.errorLatch = u1.errorLatch
          /\ u3.modeLatch = u1.modeLatch /\ u3.slotFlags = slots
      BY <1>2, <3>1 DEF MapState
    <3>4. Near(s3, u3)
      BY <1>2, <3>2, <3>3 DEF Near, SameLatches, Cell
    <3>5. QED
      BY <3>4 DEF s3, u3
  <2>4. s2 = SlotFlagsUpdated(s1, c, raw) /\ u2 = SlotFlagsUpdated(u1, c, raw)
    BY <1>3, <1>8 DEF Transformed, c
  <2>5. Near(Put(s1, c + 17, 2), Put(u1, c + 17, 2))
    BY <1>4, <2>1
  <2>6. Near(AllSlots(s1, 0), AllSlots(u1, 0)) /\ Near(AllSlots(s1, 1), AllSlots(u1, 1))
    BY <2>1, <2>3
  <2>7. Near(s2, u2)
    BY <1>2, <2>2, <2>4, <2>5, <2>6 DEF SlotFlagsUpdated
  <2>8. QED
    BY <2>7 DEF s2, u2
<1>9. CASE row.transform = "aggregate_error_latch_part"
  <2>1. /\ s2 = [s1 EXCEPT !.errorLatch = @ \/ raw = 1]
        /\ u2 = [u1 EXCEPT !.errorLatch = @ \/ raw = 1]
    BY <1>3, <1>9 DEF Transformed
  <2>2. /\ s2.cells = s1.cells /\ s2.slotFlags = s1.slotFlags /\ s2.modeLatch = s1.modeLatch
        /\ u2.cells = u1.cells /\ u2.slotFlags = u1.slotFlags /\ u2.modeLatch = u1.modeLatch
    BY <1>2, <2>1 DEF MapState
  <2>3. s2.errorLatch = (s1.errorLatch \/ raw = 1) /\ u2.errorLatch = (u1.errorLatch \/ raw = 1)
    BY <1>2, <2>1 DEF MapState
  <2>4. s1.errorLatch = u1.errorLatch
    BY <1>2 DEF Near, SameLatches
  <2>5. s2.errorLatch = u2.errorLatch
    BY <2>3, <2>4
  <2>6. Near(s2, u2)
    BY <1>2, <2>2, <2>5 DEF Near, SameLatches, Cell
  <2>7. QED
    BY <2>6 DEF s2, u2
<1>10. CASE row.transform = "aggregate_error_latch_finalize"
  <2>1. c = \h53
    BY <1>10 DEF M115Row, Parts, c
  <2>2. Cell(s1, c) = Cell(u1, c) /\ s1.errorLatch = u1.errorLatch
    BY <1>2, <2>1 DEF Near, SameLatches
  <2>3. s2 = ErrorLatchFinalized(s1, c, raw) /\ u2 = ErrorLatchFinalized(u1, c, raw)
    BY <1>3, <1>10 DEF Transformed, c
  <2> DEFINE v == (Cell(s1, c) + 1) % 256
  <2>4. v \in U8
    BY <1>2, CellTyped DEF U8
  <2>5. Near(Put(s1, c, v), Put(u1, c, v))
    <3> HIDE DEF v
    <3> QED
      BY <1>1, <1>4, <2>4
  <2>6. Near([s1 EXCEPT !.errorLatch = FALSE], [u1 EXCEPT !.errorLatch = FALSE])
    BY <1>2 DEF Near, SameLatches, Cell, MapState
  <2>7. Near(s2, u2)
    BY <1>2, <2>2, <2>3, <2>5, <2>6 DEF ErrorLatchFinalized
  <2>8. QED
    BY <2>7 DEF s2, u2
<1>11. CASE row.transform \in {"coupled_state_remap", "mode_value_remap"}
  <2>1. Touched(row) \subseteq {\h06, \h09}
    BY <1>11 DEF Touched, M115Row
  <2>2. Local(s, s2, row) /\ Local(u, u2, row)
    BY <1>1, RowIsLocal DEF s2, u2
  <2>3. /\ \A k \in Int \ {\h06, \h09} : Cell(s2, k) = Cell(s, k) /\ Cell(u2, k) = Cell(u, k)
        /\ SameLatches(s, s2) /\ SameLatches(u, u2)
    BY <1>11, <2>1, <2>2 DEF Local, SameLatches
  <2>4. Near(s2, u2)
    BY <2>3 DEF Near, SameLatches
  <2>5. QED
    BY <2>4 DEF s2, u2
<1>12. QED
  BY <1>5, <1>6, <1>7, <1>8, <1>9, <1>10, <1>11 DEF M115Row, Parts
\* Two states with the same frame.
LEMMA RowsNear ==
  ASSUME NEW d, d.profile = "M115", NEW s \in MapState, NEW u \in MapState, Near(s, u),
         NEW frame \in Frame, Accepts(d, frame)
  PROVE  Near(RowsApplied(d, s, frame), RowsApplied(d, u, frame))
<1> DEFINE n == Len(Table(d))
<1>1. Fits(d, frame, n) /\ n \in Nat
  BY MatchedAre DEF Fits
<1> HIDE DEF n
<1>2. PICK f : Applies(f, d, s, frame, n) /\ RowsApplied(d, s, frame) = f[n]
  BY <1>1, RowsInOrder
<1>3. PICK g : Applies(g, d, u, frame, n) /\ RowsApplied(d, u, frame) = g[n]
  BY <1>1, RowsInOrder
<1> DEFINE T == {j \in 0 .. n : f[j] \in MapState /\ g[j] \in MapState /\ Near(f[j], g[j])}
<1>4. 0 \in T
  <2> DEFINE s0 == Restarted(s, frame)
             u0 == Restarted(u, frame)
  <2>1. f[0] = s0 /\ g[0] = u0
    BY <1>2, <1>3 DEF Applies
  <2>2. /\ s0 \in MapState /\ s0.cells = s.cells
        /\ s0.slotFlags = s.slotFlags /\ s0.modeLatch = s.modeLatch
    BY RestartedIs
  <2>3. /\ u0 \in MapState /\ u0.cells = u.cells
        /\ u0.slotFlags = u.slotFlags /\ u0.modeLatch = u.modeLatch
    BY RestartedIs
  <2>4. s0.errorLatch = u0.errorLatch
    BY DEF Restarted, MapState, Near, SameLatches
  <2> HIDE DEF s0, u0
  <2>5. Near(s0, u0)
    BY <2>2, <2>3, <2>4 DEF Near, SameLatches, Cell
  <2>6. QED
    BY <1>1, <2>1, <2>2, <2>3, <2>5
<1>5. ASSUME NEW j \in 1 .. n, j - 1 \in T
      PROVE  j \in T
  <2> DEFINE row == Table(d)[j]
             raw == Raw(row, frame.data)
  <2>1. f[j - 1] \in MapState /\ g[j - 1] \in MapState /\ Near(f[j - 1], g[j - 1])
    BY <1>5
  <2>2. CASE j \in Matched(d, frame)
    <3>1. f[j] = ApplyEntry(f[j - 1], row, raw) /\ g[j] = ApplyEntry(g[j - 1], row, raw)
      BY <1>2, <1>3, <2>2 DEF Applies
    <3>2. row \in M115Row /\ row \in Row /\ RawFits(row, raw)
      BY <2>2, MatchedAre
    <3> HIDE DEF row, raw
    <3>3. f[j] \in MapState /\ g[j] \in MapState
      BY <2>1, <3>1, <3>2, RowIsLocal DEF Local
    <3>4. Near(f[j], g[j])
      BY <2>1, <3>1, <3>2, RowNear
    <3>5. QED
      BY <3>3, <3>4
  <2>3. CASE j \notin Matched(d, frame)
    BY <1>2, <1>3, <2>1, <2>3 DEF Applies
  <2>4. QED
    BY <2>2, <2>3
<1>6. n \in 0 .. n /\ 0 .. n \subseteq T
  <2> HIDE DEF T
  <2> QED
    BY <1>1, <1>4, <1>5, PlaceInduction
<1>7. QED
  BY <1>2, <1>3, <1>6

\* In a frame that brings a mode no row writes cell 0x06, and where that cell is clear the
\* two states get the same mode.
LEMMA ModeBrought ==
  ASSUME NEW d, d.profile = "M115", NEW s \in MapState, NEW u \in MapState,
         NEW frame \in Frame, Accepts(d, frame),
         NEW p \in Matched(d, frame), Table(d)[p].transform = "mode_value_remap",
         Cell(s, \h06) = 0
  PROVE  /\ Cell(RowsApplied(d, u, frame), \h06) = Cell(u, \h06)
         /\ Cell(u, \h06) = 0 =>
              Cell(RowsApplied(d, s, frame), \h09) = Cell(RowsApplied(d, u, frame), \h09)
<1> DEFINE n == Len(Table(d))
<1>1. Fits(d, frame, n) /\ n \in Nat /\ p \in 1 .. n
  BY MatchedAre DEF Fits
<1> HIDE DEF n
<1>2. PICK f : Applies(f, d, s, frame, n) /\ RowsApplied(d, s, frame) = f[n]
  BY <1>1, RowsInOrder
<1>3. PICK g : Applies(g, d, u, frame, n) /\ RowsApplied(d, u, frame) = g[n]
  BY <1>1, RowsInOrder
<1>4. frame.opcode = \h7d
  <2>1. Table(d)[p] \in M115Row /\ Table(d)[p].opcode = frame.opcode
    BY MatchedAre
  <2>2. QED
    BY <2>1 DEF M115Row
<1>5. ASSUME NEW t \in MapState, NEW j \in Matched(d, frame), NEW t2,
             t2 = ApplyEntry(t, Table(d)[j], Raw(Table(d)[j], frame.data))
      PROVE  /\ t2 \in MapState
             /\ Cell(t2, \h06) = Cell(t, \h06)
             /\ Table(d)[j].transform # "mode_value_remap" => Cell(t2, \h09) = Cell(t, \h09)
  <2> DEFINE row == Table(d)[j]
             raw == Raw(row, frame.data)
  <2>1. row \in M115Row /\ row \in Row /\ RawFits(row, raw) /\ row.opcode = \h7d
    BY <1>4, MatchedAre
  <2>2. Local(t, t2, row)
    BY <1>5, <2>1, RowIsLocal
  <2> HIDE DEF row, raw
  <2>3. Touched(row) \subseteq {\h09, \h0b}
    BY <2>1 DEF M115Row, Touched
  <2>4. row.transform # "mode_value_remap" => Touched(row) \subseteq {\h0b}
    BY <2>1 DEF M115Row, Touched
  <2>5. QED
    BY <2>2, <2>3, <2>4 DEF Local, row
<1>6. ASSUME NEW t \in MapState, NEW j \in Matched(d, frame), Cell(t, \h06) = 0,
             Table(d)[j].transform = "mode_value_remap"
      PROVE  Cell(ApplyEntry(t, Table(d)[j], Raw(Table(d)[j], frame.data)), \h09)
               = LET raw == Raw(Table(d)[j], frame.data)
                 IN  IF raw \in DOMAIN ModeValue THEN ModeValue[raw] ELSE raw
  <2> DEFINE row == Table(d)[j]
             raw == Raw(row, frame.data)
             w == Written(t, row, raw)
             t2 == ApplyEntry(t, row, raw)
  <2>1. row \in M115Row /\ row \in Row /\ RawFits(row, raw)
    BY MatchedAre
  <2>2. row.cell = \h09 /\ row.kind # "bit" /\ row.transform = "mode_value_remap"
    BY <1>6, <2>1 DEF M115Row
  <2>3. w \in MapState /\ Cell(w, \h09) = raw /\ Local(t, w, row)
    BY <2>1, <2>2, WrittenIs DEF Local
  <2>4. Cell(w, \h06) = 0
    BY <1>6, <2>2, <2>3 DEF Local, Touched
  <2>5. t2 = Remapped(w, \h09, ModeValue, raw)
    BY <2>2, <2>4 DEF ApplyEntry, Transformed, ModeValueForced
  <2> HIDE DEF row, raw, w, t2
  <2>6. CASE raw \in DOMAIN ModeValue
    <3> DEFINE v == ModeValue[raw]
    <3>1. v \in U8 /\ \h09 \in U8 /\ \h09 \in Int
      BY <2>6, TablesTyped DEF U8
    <3>2. t2 = Put(w, \h09, v)
      BY <2>5, <2>6 DEF Remapped
    <3> HIDE DEF v
    <3>3. Cell(t2, \h09) = v
      BY <2>3, <3>1, <3>2, PutIs
    <3>4. QED
      BY <2>6, <3>3 DEF row, raw, t2, v
  <2>7. CASE raw \notin DOMAIN ModeValue
    <3>1. t2 = w
      BY <2>5, <2>7 DEF Remapped
    <3>2. QED
      BY <2>3, <2>7, <3>1 DEF row, raw, t2
  <2>8. QED
    BY <2>6, <2>7
<1> DEFINE T == {j \in 0 .. n :
                   /\ f[j] \in MapState /\ g[j] \in MapState
                   /\ Cell(f[j], \h06) = 0 /\ Cell(g[j], \h06) = Cell(u, \h06)
                   /\ Cell(u, \h06) = 0 /\ p <= j => Cell(f[j], \h09) = Cell(g[j], \h09)}
<1>7. 0 \in T
  <2>1. f[0] = Restarted(s, frame) /\ g[0] = Restarted(u, frame)
    BY <1>2, <1>3 DEF Applies
  <2>2. f[0] \in MapState /\ g[0] \in MapState /\ f[0].cells = s.cells /\ g[0].cells = u.cells
    BY <2>1, RestartedIs
  <2>3. QED
    BY <1>1, <2>2 DEF Cell
<1>8. ASSUME NEW j \in 1 .. n, j - 1 \in T
      PROVE  j \in T
  <2>1. /\ f[j - 1] \in MapState /\ g[j - 1] \in MapState
        /\ Cell(f[j - 1], \h06) = 0 /\ Cell(g[j - 1], \h06) = Cell(u, \h06)
        /\ Cell(u, \h06) = 0 /\ p <= j - 1 => Cell(f[j - 1], \h09) = Cell(g[j - 1], \h09)
    BY <1>8
  <2>2. CASE j \notin Matched(d, frame)
    <3>1. f[j] = f[j - 1] /\ g[j] = g[j - 1]
      BY <1>2, <1>3, <2>2 DEF Applies
    <3>2. p <= j => p <= j - 1
      BY <1>1, <2>2
    <3>3. QED
      BY <2>1, <3>1, <3>2
  <2>3. CASE j \in Matched(d, frame)
    <3>1. /\ f[j] = ApplyEntry(f[j - 1], Table(d)[j], Raw(Table(d)[j], frame.data))
          /\ g[j] = ApplyEntry(g[j - 1], Table(d)[j], Raw(Table(d)[j], frame.data))
      BY <1>2, <1>3, <2>3 DEF Applies
    <3>2. /\ f[j] \in MapState /\ g[j] \in MapState
          /\ Cell(f[j], \h06) = 0 /\ Cell(g[j], \h06) = Cell(u, \h06)
      BY <1>5, <2>1, <2>3, <3>1
    <3>3. ASSUME Cell(u, \h06) = 0, p <= j
          PROVE  Cell(f[j], \h09) = Cell(g[j], \h09)
      <4>1. CASE Table(d)[j].transform = "mode_value_remap"
        BY <1>6, <2>1, <2>3, <3>1, <3>3, <4>1
      <4>2. CASE Table(d)[j].transform # "mode_value_remap"
        <5>1. p <= j - 1
          BY <1>1, <3>3, <4>2
        <5>2. QED
          BY <1>5, <2>1, <2>3, <3>1, <3>3, <4>2, <5>1
      <4>3. QED
        BY <4>1, <4>2
    <3>4. QED
      BY <3>2, <3>3
  <2>4. QED
    BY <2>2, <2>3
<1>9. n \in 0 .. n /\ 0 .. n \subseteq T
  <2> HIDE DEF T
  <2> QED
    BY <1>1, <1>7, <1>8, PlaceInduction
<1>10. QED
  BY <1>1, <1>2, <1>3, <1>9
CleanInv ==
  /\ Near(state, uncleaned)
  /\ Cleans(decoder) => Cell(state, \h06) = 0
  /\ ~Cleans(decoder) => state = uncleaned
  /\ (\E row \in Read : row.transform = "mode_value_remap") /\ Cell(uncleaned, \h06) = 0 =>
       Cell(state, \h09) = Cell(uncleaned, \h09)

\* What one frame does to a state and to its uncleaned twin.
LEMMA DecodedNear ==
  ASSUME NEW d, Cleans(d), NEW s \in MapState, NEW u \in MapState, Near(s, u),
         Cell(s, \h06) = 0, NEW frame \in Frame, Accepts(d, frame)
  PROVE  /\ Near(Decoded(d, s, frame), RowsApplied(d, u, frame))
         /\ Cell(Decoded(d, s, frame), \h06) = 0
         /\ \A p \in Matched(d, frame) :
              Table(d)[p].transform = "mode_value_remap"
              /\ Cell(RowsApplied(d, u, frame), \h06) = 0 =>
                Cell(Decoded(d, s, frame), \h09) = Cell(RowsApplied(d, u, frame), \h09)
<1> DEFINE a == RowsApplied(d, s, frame)
           b == RowsApplied(d, u, frame)
           e == Decoded(d, s, frame)
<1>1. d.profile = "M115"
  BY DEF Cleans
<1>2. a \in MapState /\ b \in MapState /\ Near(a, b)
  BY <1>1, RowsTyped, RowsNear
<1>3. e = Cleaned(d, a)
  BY DEF Decoded
<1>4. \A p \in Matched(d, frame) :
        Table(d)[p].transform = "mode_value_remap" /\ Cell(b, \h06) = 0 =>
          Cell(a, \h09) = Cell(b, \h09)
  BY <1>1, ModeBrought
<1> HIDE DEF a, b, e
<1>5. /\ SameLatches(a, e)
      /\ \A c \in {\h06, \h11, \h44} : Cell(e, c) = 0
      /\ Cell(e, \h42) = WithBit(Cell(a, \h42), 1, 0)
      /\ \A c \in Int \ {\h06, \h11, \h42, \h44} : Cell(e, c) = Cell(a, c)
  BY <1>2, <1>3, CleanedIs
<1>6. \A k \in 0 .. 7 \ {1} : BitOf(Cell(e, \h42), k) = BitOf(Cell(a, \h42), k)
  <2>1. Cell(a, \h42) \in U8 /\ 1 \in 0 .. 7 /\ 0 \in 0 .. 1
    BY <1>2, CellTyped
  <2>2. QED
    BY <1>5, <2>1, BitWritten
<1>7. Near(e, b)
  BY <1>2, <1>5, <1>6 DEF Near, SameLatches
<1>8. QED
  BY <1>4, <1>5, <1>7 DEF b, e

LEMMA CleanStep ==
  ASSUME MapInv, CleanInv, [Next]_vars
  PROVE  CleanInv'
<1>1. CASE UNCHANGED vars
  <2>1. UNCHANGED <<decoder, state, latest, uncleaned>>
    BY <1>1 DEF vars
  <2>2. Read' = Read
    BY <2>1 DEF Read
  <2>3. QED
    BY <2>1, <2>2 DEF CleanInv
<1>2. ASSUME NEW frame \in Traffic[decoder.traffic], Apply(frame)
      PROVE  CleanInv'
  <2>1. frame \in Frame /\ decoder' = decoder
    BY <1>2, MapAssumption DEF MapInv, Apply
  <2>2. latest'.frame = frame /\ latest'.accepted = Accepts(decoder, frame)
    BY <1>2 DEF Apply
  <2>3. state \in MapState /\ uncleaned \in MapState
    BY DEF MapInv
  <2>4. CASE Accepts(decoder, frame)
    <3>1. /\ state' = Decoded(decoder, state, frame)
          /\ uncleaned' = RowsApplied(decoder, uncleaned, frame)
      BY <1>2, <2>4 DEF Apply
    <3>2. Read' = {Table(decoder)[j] : j \in Matched(decoder, frame)}
      BY <2>1, <2>2, <2>4 DEF Read
    <3>3. CASE Cleans(decoder)
      <4>1. Near(state, uncleaned) /\ Cell(state, \h06) = 0
        BY <3>3 DEF CleanInv
      <4>2. /\ Near(state', uncleaned') /\ Cell(state', \h06) = 0
            /\ \A p \in Matched(decoder, frame) :
                 Table(decoder)[p].transform = "mode_value_remap" /\ Cell(uncleaned', \h06) = 0 =>
                   Cell(state', \h09) = Cell(uncleaned', \h09)
        BY <2>1, <2>3, <2>4, <3>1, <3>3, <4>1, DecodedNear
      <4>3. QED
        BY <2>1, <3>2, <3>3, <4>2 DEF CleanInv
    <3>4. CASE ~Cleans(decoder)
      <4>1. state = uncleaned
        BY <3>4 DEF CleanInv
      <4>2. state' = uncleaned'
        BY <3>1, <3>4, <4>1 DEF Decoded, Cleaned
      <4>3. Near(state', uncleaned')
        BY <4>2 DEF Near, SameLatches
      <4>4. QED
        BY <2>1, <3>4, <4>2, <4>3 DEF CleanInv
    <3>5. QED
      BY <3>3, <3>4
  <2>5. CASE ~Accepts(decoder, frame)
    <3>1. UNCHANGED <<state, uncleaned>> /\ Read' = {}
      BY <1>2, <2>2, <2>5 DEF Apply, Read
    <3>2. QED
      BY <2>1, <3>1 DEF CleanInv
  <2>6. QED
    BY <2>4, <2>5
<1>3. QED
  BY <1>1, <1>2 DEF Next

LEMMA CleanInitially == Init => CleanInv
<1> SUFFICES ASSUME Init
             PROVE  CleanInv
  OBVIOUS
<1>1. state = uncleaned /\ state = Nothing
  BY DEF Init, Nothing
<1>2. Near(state, uncleaned)
  BY <1>1 DEF Near, SameLatches
<1>3. Cell(state, \h06) = 0
  BY <1>1 DEF Cell, Nothing
<1>4. QED
  BY <1>1, <1>2, <1>3 DEF CleanInv

\* Whatever was received before, the cleanup after every frame costs a caller its own cells,
\* one bit of cell 0x42, and a forced mode until a frame brings one.
THEOREM CleanupLocal == Spec => []CleanupIsLocal
<1>1. MapInv /\ CleanInv => CleanupIsLocal
  <2> SUFFICES ASSUME MapInv, CleanInv
               PROVE  CleanupIsLocal
    OBVIOUS
  <2>1. state \in MapState /\ uncleaned \in MapState
    BY DEF MapInv
  <2>2. \A s \in MapState : DOMAIN s.cells \subseteq Int
    <3> TAKE s \in MapState
    <3>1. PICK D \in SUBSET U8 : s.cells \in [D -> U8]
      BY DEF MapState, PartialCells
    <3>2. DOMAIN s.cells \subseteq U8
      BY <3>1
    <3>3. U8 \subseteq Int
      BY DEF U8
    <3>4. QED
      BY <3>2, <3>3
  <2>3. \A field \in {"slotFlags", "errorLatch", "modeLatch"} : state[field] = uncleaned[field]
    BY <2>1 DEF CleanInv, Near, SameLatches, MapState
  <2>4. QED
    BY <2>1, <2>2, <2>3 DEF CleanInv, Near, CleanupIsLocal
<1>2. QED
  BY <1>1, CleanInitially, CleanStep, MapInvariant, PTL DEF Spec
-----------------------------------------------------------------------------
(* No row overwrites an untransformed row of the same frame.               *)

ShownIn(t, row) ==
  IF row.kind = "bit" THEN BitOf(Cell(t, row.cell), row.bit) ELSE Cell(t, row.cell)

\* Two untransformed rows of an opcode with the same destination have the same source.
OneSource(p, q) ==
  /\ p.kind = "bit" <=> q.kind = "bit"
  /\ q.transform = "none" /\ p.cell = q.cell /\ (p.kind = "bit" => p.bit = q.bit) =>
       p.coordinate = q.coordinate

LEMMA OneSource94 ==
  ASSUME NEW p \in M94Row, NEW q \in M94Row, p.opcode = q.opcode, p.transform = "none"
  PROVE  OneSource(p, q)
<1>1. /\ Place94(p) /\ (q.transform = "none" => Place94(q))
      /\ p.kind = "bit" <=> p.opcode \in BitOpcodes94
      /\ q.kind = "bit" <=> p.opcode \in BitOpcodes94
  BY DEF M94Row, Plain94
<1>2. p \in Row /\ q \in Row
  BY DEF M94Row
<1>3. p.cell \in Int /\ q.cell \in Int
  BY <1>2 DEF Row, U8
<1> SUFFICES ASSUME q.transform = "none", p.cell = q.cell, p.kind = "bit" => p.bit = q.bit
             PROVE  p.coordinate = q.coordinate
  BY <1>1 DEF OneSource
<1>4. Place94(q)
  BY <1>1
<1>5. CASE p.opcode \in {\h10, \h20}
  BY <1>1, <1>4, <1>5 DEF Place94, Copies94
<1>6. CASE p.opcode = \h1c
  BY <1>1, <1>4, <1>6 DEF Place94, Place94_1c
<1>7. CASE p.opcode = \h1e
  <2>1. p.bit = q.bit /\ Place94_1e(p) /\ Place94_1e(q)
    BY <1>1, <1>4, <1>7 DEF Place94, BitOpcodes94
  <2>2. QED
    BY <2>1 DEF Place94_1e
<1>8. CASE p.opcode = \h1f
  BY <1>1, <1>4, <1>8 DEF Place94, Place94_1f
<1>9. CASE p.opcode = \h21
  BY <1>1, <1>4, <1>9 DEF Place94, Place94_21
<1>10. CASE p.opcode = \h22
  <2>1. p.bit = q.bit /\ Place94_22(p) /\ Place94_22(q)
    BY <1>1, <1>4, <1>10 DEF Place94, BitOpcodes94
  <2>2. QED
    BY <2>1 DEF Place94_22
<1>11. CASE p.opcode = \h73
  BY <1>1, <1>3, <1>4, <1>11 DEF Place94, Place94_73
<1>12. CASE p.opcode \in {\h3d, \h6d, \h6f, \h71}
  BY <1>1, <1>3, <1>4, <1>12 DEF Place94
<1>13. QED
  BY <1>1, <1>5, <1>6, <1>7, <1>8, <1>9, <1>10, <1>11, <1>12 DEF Place94

LEMMA OneSource115 ==
  ASSUME NEW p \in M115Row, NEW q \in M115Row, p.opcode = q.opcode, p.transform = "none"
  PROVE  OneSource(p, q)
<1>1. /\ Place115(p) /\ (q.transform = "none" => Place115(q))
      /\ p.kind = "bit" <=> p.opcode \in BitOpcodes115
      /\ q.kind = "bit" <=> p.opcode \in BitOpcodes115
  BY DEF M115Row, Plain115
<1>2. p \in Row /\ q \in Row
  BY DEF M115Row
<1>3. p.cell \in Int /\ q.cell \in Int
  BY <1>2 DEF Row, U8
<1> SUFFICES ASSUME q.transform = "none", p.cell = q.cell, p.kind = "bit" => p.bit = q.bit
             PROVE  p.coordinate = q.coordinate
  BY <1>1 DEF OneSource
<1>4. Place115(q)
  BY <1>1
<1>5. CASE p.opcode \in {\h10, \h7b}
  BY <1>1, <1>4, <1>5 DEF Place115, Copies115
<1>6. CASE p.opcode = \h3d
  <2>1. p.bit = q.bit /\ Place115_3d(p) /\ Place115_3d(q)
    BY <1>1, <1>4, <1>6 DEF Place115, BitOpcodes115
  <2>2. QED
    BY <2>1 DEF Place115_3d
<1>7. CASE p.opcode = \h3e
  <2>1. p.bit = q.bit /\ Place115_3e(p) /\ Place115_3e(q)
    BY <1>1, <1>4, <1>7 DEF Place115, BitOpcodes115
  <2>2. QED
    BY <2>1 DEF Place115_3e
<1>8. CASE p.opcode = \h3f
  <2>1. p.bit = q.bit /\ Place115_3f(p) /\ Place115_3f(q)
    BY <1>1, <1>4, <1>8 DEF Place115, BitOpcodes115
  <2>2. QED
    BY <2>1 DEF Place115_3f
<1>9. CASE p.opcode = \h40
  BY <1>1, <1>3, <1>4, <1>9 DEF Place115, Place115_40
<1>10. CASE p.opcode = \h41
  BY <1>1, <1>3, <1>4, <1>10 DEF Place115, Place115_41
<1>11. CASE p.opcode \in {\h4d, \h73, \h7d}
  BY <1>1, <1>3, <1>4, <1>11 DEF Place115
<1>12. QED
  BY <1>1, <1>5, <1>6, <1>7, <1>8, <1>9, <1>10, <1>11 DEF Place115

\* What q may touch of the cell of p.
Apart(p, q) ==
  p.cell \in Touched(q) =>
    /\ p.cell = q.cell
    /\ \/ q.transform = "none"
       \/ q.transform \in Parts /\ p.kind = "bit" /\ q.kind = "bit" /\ p.bit # 0 /\ q.bit = 0

LEMMA RowsApart ==
  ASSUME NEW p, NEW q, p.opcode = q.opcode, p.transform = "none",
         \/ p \in M94Row /\ q \in M94Row
         \/ p \in M115Row /\ q \in M115Row
  PROVE  Apart(p, q)
<1>1. CASE p \in M94Row /\ q \in M94Row
  <2>1. /\ p.cell \notin {\h06, \h0b, \h0c, \h0d, \h0e, \h0f, \h26, \h1c}
        /\ q.transform = "none" \/ q.cell \in {\h06, \h0b, \h0c, \h0d, \h0e, \h0f, \h26}
    BY <1>1 DEF M94Row, Plain94
  <2>2. Touched(q) \subseteq {q.cell, \h1c}
    BY <1>1 DEF M94Row, Touched
  <2>3. QED
    BY <2>1, <2>2 DEF Apart
<1>2. CASE p \in M115Row /\ q \in M115Row
  <2>1. p.cell \notin {\h05, \h06, \h09, \h0a, \h58, \h69}
    BY <1>2 DEF M115Row, Plain115
  <2>2. q.transform \in {"none"} \cup Parts \/ q.cell \in {\h05, \h06, \h09, \h0a, \h58}
    BY <1>2 DEF M115Row
  <2>3. p.opcode = \h41 => p.cell # \h0d
    BY <1>2 DEF M115Row
  <2>4. /\ q.transform = "run_mode_coupled_remap" => q.opcode = \h41 /\ q.cell = \h0a
        /\ q.transform = "coupled_state_remap" => q.cell = \h06
        /\ q.transform = "mode_updates_all_100_slot_flags" => q.cell = \h58
    BY <1>2 DEF M115Row
  <2>5. p.cell \in Touched(q) => p.cell = q.cell
    BY <2>1, <2>3, <2>4 DEF Touched
  <2>6. p.cell = q.cell /\ q.transform \in Parts =>
          p.kind = "bit" /\ q.kind = "bit" /\ p.bit # 0 /\ q.bit = 0
    BY <1>2 DEF M115Row, Parts
  <2>7. QED
    BY <2>1, <2>2, <2>5, <2>6 DEF Apart
<1>3. QED
  BY <1>1, <1>2

\* Incrementing an even byte changes one bit.
LEMMA CountingKeepsBits ==
  ASSUME NEW b \in U8, BitOf(b, 0) = 0, NEW k \in 1 .. 7
  PROVE  BitOf((b + 1) % 256, k) = BitOf(b, k)
<1>1. (b + 1) % 256 = WithBit(b, 0, 1)
  BY Powers DEF WithBit, BitOf, U8
<1>2. QED
  BY <1>1, BitWritten

\* A bit row without further transform, or a part of the error, keeps the other bits.
LEMMA OtherBitsKept ==
  ASSUME NEW t \in MapState, NEW q \in Row, q.kind = "bit",
         q.transform \in {"none"} \cup Parts, q.transform \in Parts => q.bit = 0,
         NEW raw, RawFits(q, raw), NEW k \in 0 .. 7 \ {q.bit}
  PROVE  BitOf(Cell(ApplyEntry(t, q, raw), q.cell), k) = BitOf(Cell(t, q.cell), k)
<1> DEFINE w == Written(t, q, raw)
           u == ApplyEntry(t, q, raw)
           c == q.cell
<1>1. w \in MapState /\ c \in U8 /\ c \in Int /\ Cell(w, c) = WithBit(Cell(t, c), q.bit, raw)
  BY WrittenIs DEF Local, U8
<1>2. /\ BitOf(Cell(w, c), k) = BitOf(Cell(t, c), k)
      /\ BitOf(Cell(w, c), q.bit) = raw
  <2>1. Cell(t, c) \in U8 /\ q.bit \in 0 .. 7 /\ raw \in 0 .. 1
    BY <1>1, CellTyped DEF Row, RawFits
  <2>2. QED
    BY <1>1, <2>1, BitWritten
<1>3. u = Transformed(w, q, raw)
  BY DEF ApplyEntry
<1> HIDE DEF w, u
<1>4. CASE q.transform = "none"
  <2>1. u = w
    BY <1>3, <1>4 DEF Transformed
  <2>2. QED
    BY <1>2, <2>1 DEF u, c
<1>5. CASE q.transform = "aggregate_error_latch_part"
  <2>1. u.cells = w.cells
    BY <1>1, <1>3, <1>5 DEF Transformed, MapState
  <2>2. QED
    BY <1>2, <2>1 DEF Cell, u, c
<1>6. CASE q.transform = "aggregate_error_latch_finalize"
  <2>1. u = ErrorLatchFinalized(w, c, raw)
    BY <1>3, <1>6 DEF Transformed
  <2>2. CASE raw # 0
    <3>1. u.cells = w.cells
      BY <1>1, <2>1, <2>2 DEF ErrorLatchFinalized, MapState
    <3>2. QED
      BY <1>2, <3>1 DEF Cell, u, c
  <2>3. CASE raw = 0 /\ w.errorLatch
    <3> DEFINE v == (Cell(w, c) + 1) % 256
    <3>1. u = Put(w, c, v)
      BY <2>1, <2>3 DEF ErrorLatchFinalized
    <3>2. Cell(w, c) \in U8 /\ BitOf(Cell(w, c), 0) = 0 /\ k \in 1 .. 7
      BY <1>1, <1>2, <1>6, <2>3, CellTyped DEF Parts
    <3>3. BitOf(v, k) = BitOf(Cell(w, c), k) /\ v \in U8
      BY <3>2, CountingKeepsBits, CountingSetsBit
    <3> HIDE DEF v
    <3>4. Cell(u, c) = v
      BY <1>1, <3>1, <3>3, PutIs
    <3>5. QED
      BY <1>2, <3>3, <3>4 DEF u, c
  <2>4. CASE raw = 0 /\ ~w.errorLatch
    <3>1. u = w
      BY <2>1, <2>4 DEF ErrorLatchFinalized
    <3>2. QED
      BY <1>2, <3>1 DEF u, c
  <2>5. QED
    BY <2>2, <2>3, <2>4
<1>7. QED
  BY <1>4, <1>5, <1>6 DEF Parts

\* An untransformed row shows what it read.
LEMMA PlainShows ==
  ASSUME NEW t \in MapState, NEW row \in Row, row.transform = "none", NEW raw, RawFits(row, raw)
  PROVE  ShownIn(ApplyEntry(t, row, raw), row) = raw
<1>1. ApplyEntry(t, row, raw) = Written(t, row, raw)
  BY DEF ApplyEntry, Transformed
<1>2. row.kind # "bit" => Cell(Written(t, row, raw), row.cell) = raw
  BY WrittenIs
<1>3. ASSUME row.kind = "bit"
      PROVE  BitOf(Cell(Written(t, row, raw), row.cell), row.bit) = raw
  <2>1. Cell(Written(t, row, raw), row.cell) = WithBit(Cell(t, row.cell), row.bit, raw)
    BY <1>3, WrittenIs
  <2>2. Cell(t, row.cell) \in U8 /\ row.bit \in 0 .. 7 /\ raw \in 0 .. 1
    BY <1>3, CellTyped DEF Row, RawFits, U8
  <2>3. QED
    BY <2>1, <2>2, BitWritten
<1>4. QED
  BY <1>1, <1>2, <1>3 DEF ShownIn

\* Another row of the frame leaves it so.
LEMMA PlainStays ==
  ASSUME NEW t \in MapState, NEW p \in Row, NEW q \in Row, p.transform = "none",
         Apart(p, q), OneSource(p, q), NEW data,
         RawFits(q, Raw(q, data)), ShownIn(t, p) = Raw(p, data)
  PROVE  ShownIn(ApplyEntry(t, q, Raw(q, data)), p) = Raw(p, data)
<1> DEFINE raw == Raw(q, data)
           u == ApplyEntry(t, q, raw)
<1>1. p.cell \in Int /\ p.bit \in 0 .. 7 /\ Local(t, u, q)
  BY RowIsLocal DEF Row, U8
<1>2. ASSUME q.transform = "none", p.cell = q.cell, p.kind = "bit" => p.bit = q.bit
      PROVE  ShownIn(u, p) = Raw(p, data)
  <2>1. p.coordinate = q.coordinate /\ (p.kind = "bit" <=> q.kind = "bit")
    BY <1>2 DEF OneSource
  <2>2. Raw(p, data) = raw
    BY <2>1 DEF Raw, Delta
  <2>3. ShownIn(u, q) = raw
    <3> HIDE DEF raw
    <3> QED
      BY <1>2, PlainShows DEF raw
  <2>4. ShownIn(u, p) = ShownIn(u, q)
    BY <1>2, <2>1 DEF ShownIn
  <2>5. QED
    BY <2>2, <2>3, <2>4
<1> HIDE DEF u, raw
<1>3. CASE p.cell \notin Touched(q)
  <2>1. Cell(u, p.cell) = Cell(t, p.cell)
    BY <1>1, <1>3 DEF Local
  <2>2. QED
    BY <2>1 DEF ShownIn, u, raw
<1>4. CASE p.cell \in Touched(q)
  <2>1. /\ p.cell = q.cell
        /\ \/ q.transform = "none"
           \/ q.transform \in Parts /\ p.kind = "bit" /\ q.kind = "bit" /\ p.bit # 0 /\ q.bit = 0
    BY <1>4 DEF Apart
  <2>2. CASE q.transform = "none" /\ (p.kind = "bit" => p.bit = q.bit)
    BY <1>2, <2>1, <2>2 DEF u, raw
  <2>3. CASE p.kind = "bit" /\ p.bit # q.bit
    <3>1. q.kind = "bit"
      BY <2>3 DEF OneSource
    <3>2. p.bit \in 0 .. 7 \ {q.bit}
      BY <1>1, <2>3
    <3>3. q.transform \in {"none"} \cup Parts /\ (q.transform \in Parts => q.bit = 0)
      BY <2>1 DEF Parts
    <3>4. RawFits(q, raw)
      BY DEF raw
    <3>5. BitOf(Cell(u, q.cell), p.bit) = BitOf(Cell(t, q.cell), p.bit)
      BY <3>1, <3>2, <3>3, <3>4, OtherBitsKept DEF u
    <3>6. QED
      BY <2>1, <2>3, <3>5 DEF ShownIn, u, raw
  <2>4. QED
    BY <2>1, <2>2, <2>3
<1>5. QED
  BY <1>3, <1>4

\* After all rows of a frame each untransformed one shows what it read.
LEMMA RowsSurvive ==
  ASSUME NEW d, NEW s \in MapState, NEW frame \in Frame, Accepts(d, frame),
         NEW i \in Matched(d, frame), Table(d)[i].transform = "none"
  PROVE  ShownIn(RowsApplied(d, s, frame), Table(d)[i]) = Raw(Table(d)[i], frame.data)
<1> DEFINE n == Len(Table(d))
           p == Table(d)[i]
<1>1. Fits(d, frame, n) /\ n \in Nat /\ i \in 1 .. n
  BY MatchedAre DEF Fits
<1>2. d.profile = "M94" \/ d.profile = "M115"
  BY TableIs DEF Accepts
<1> HIDE DEF n
<1>3. PICK f : Applies(f, d, s, frame, n) /\ RowsApplied(d, s, frame) = f[n]
  BY <1>1, RowsInOrder
<1> DEFINE T == {j \in 0 .. n :
                   f[j] \in MapState /\ (i <= j => ShownIn(f[j], p) = Raw(p, frame.data))}
<1>4. 0 \in T
  <2>1. f[0] \in MapState
    BY <1>3, RestartedIs DEF Applies
  <2>2. QED
    BY <1>1, <2>1
<1>5. ASSUME NEW j \in 1 .. n, j - 1 \in T
      PROVE  j \in T
  <2>1. f[j - 1] \in MapState /\ (i <= j - 1 => ShownIn(f[j - 1], p) = Raw(p, frame.data))
    BY <1>5
  <2>2. CASE j \notin Matched(d, frame)
    <3>1. f[j] = f[j - 1]
      BY <1>3, <2>2 DEF Applies
    <3>2. i <= j => i <= j - 1
      BY <1>1, <2>2
    <3>3. QED
      BY <2>1, <3>1, <3>2
  <2>3. CASE j \in Matched(d, frame)
    <3> DEFINE q == Table(d)[j]
               raw == Raw(q, frame.data)
    <3>1. f[j] = ApplyEntry(f[j - 1], q, raw)
      BY <1>3, <2>3 DEF Applies
    <3>2. /\ p \in Row /\ q \in Row /\ p.opcode = q.opcode /\ RawFits(q, raw)
          /\ d.profile = "M94" => p \in M94Row /\ q \in M94Row
          /\ d.profile = "M115" => p \in M115Row /\ q \in M115Row
      <4>1. /\ p \in Row /\ p.opcode = frame.opcode
            /\ d.profile = "M94" => p \in M94Row
            /\ d.profile = "M115" => p \in M115Row
        BY MatchedAre
      <4>2. /\ q \in Row /\ q.opcode = frame.opcode /\ RawFits(q, raw)
            /\ d.profile = "M94" => q \in M94Row
            /\ d.profile = "M115" => q \in M115Row
        BY <2>3, MatchedAre
      <4>3. QED
        BY <4>1, <4>2
    <3>3. p.transform = "none"
      OBVIOUS
    <3> HIDE DEF p, q, raw
    <3>4. f[j] \in MapState
      BY <2>1, <3>1, <3>2, RowIsLocal DEF Local
    <3>5. CASE i = j
      <4>1. p = q
        BY <3>5 DEF p, q
      <4>2. ShownIn(f[j], q) = raw
        BY <2>1, <3>1, <3>2, <3>3, <4>1, PlainShows
      <4>3. QED
        BY <3>4, <4>1, <4>2 DEF raw
    <3>6. CASE i <= j - 1
      <4>1. Apart(p, q) /\ OneSource(p, q)
        BY <1>2, <3>2, <3>3, RowsApart, OneSource94, OneSource115
      <4>2. ShownIn(f[j], p) = Raw(p, frame.data)
        <5>1. f[j] = ApplyEntry(f[j - 1], q, Raw(q, frame.data)) /\ RawFits(q, Raw(q, frame.data))
          BY <3>1, <3>2 DEF raw
        <5>2. ShownIn(f[j - 1], p) = Raw(p, frame.data)
          BY <2>1, <3>6
        <5>3. QED
          BY <2>1, <3>2, <3>3, <4>1, <5>1, <5>2, PlainStays
      <4>3. QED
        BY <3>4, <4>2
    <3>7. CASE i > j
      BY <1>1, <3>4, <3>7
    <3>8. QED
      BY <1>1, <3>5, <3>6, <3>7
  <2>4. QED
    BY <2>2, <2>3
<1>6. n \in 0 .. n /\ 0 .. n \subseteq T
  <2> HIDE DEF T
  <2> QED
    BY <1>1, <1>4, <1>5, PlaceInduction
<1>7. QED
  BY <1>1, <1>3, <1>6

\* Whatever the caller's state was, an untransformed row of the latest frame shows what the
\* frame says, unless the cleanup owns its cell.
THEOREM PlainSurvives == Spec => []PlainRowsSurvive
<1>1. MapInv => PlainRowsSurvive
  <2> SUFFICES ASSUME MapInv, NEW row \in Read, row.transform = "none",
                      ~CleansRow(decoder, row)
               PROVE  Shown(row) = RawOf(row)
    BY DEF PlainRowsSurvive
  <2> DEFINE frame == latest.frame
  <2>1. latest.accepted
    BY DEF Read
  <2>2. frame \in Frame /\ Accepts(decoder, frame)
    BY <2>1 DEF MapInv
  <2>3. PICK before \in MapState : state = Decoded(decoder, before, frame)
    BY <2>1 DEF MapInv
  <2>4. PICK i \in Matched(decoder, frame) : row = Table(decoder)[i]
    BY <2>1 DEF Read
  <2> DEFINE a == RowsApplied(decoder, before, frame)
  <2>5. ShownIn(a, row) = Raw(row, frame.data)
    BY <2>2, <2>3, <2>4, RowsSurvive
  <2>6. a \in MapState
    BY <2>2, <2>3, RowsTyped
  <2>7. state = Cleaned(decoder, a)
    BY <2>3 DEF Decoded
  <2>8. row \in Row /\ (decoder.profile = "M115" => row \in M115Row)
    BY <2>2, <2>4, MatchedAre
  <2> HIDE DEF a, frame
  <2>9. ShownIn(state, row) = ShownIn(a, row)
    <3>1. CASE ~Cleans(decoder)
      BY <2>6, <2>7, <3>1, CleanedIs
    <3>2. CASE Cleans(decoder) /\ row.cell # \h42
      <4>1. row.cell \notin {\h06, \h11, \h42, \h44} /\ row.cell \in Int
        BY <2>8, <3>2 DEF CleansRow, Cleans, M115Row, Row, U8
      <4>2. Cell(state, row.cell) = Cell(a, row.cell)
        BY <2>6, <2>7, <3>2, <4>1, CleanedIs
      <4>3. QED
        BY <4>2 DEF ShownIn
    <3>3. CASE Cleans(decoder) /\ row.cell = \h42
      <4>1. row.kind = "bit" /\ row.bit \in 0 .. 7 \ {1}
        BY <2>8, <3>3 DEF CleansRow, Cleans, M115Row, Row
      <4>2. Cell(a, \h42) \in U8 /\ Cell(state, \h42) = WithBit(Cell(a, \h42), 1, 0)
        BY <2>6, <2>7, <3>3, CleanedIs, CellTyped
      <4>3. BitOf(Cell(state, \h42), row.bit) = BitOf(Cell(a, \h42), row.bit)
        BY <4>1, <4>2, BitWritten
      <4>4. QED
        BY <3>3, <4>1, <4>3 DEF ShownIn
    <3>4. QED
      BY <3>1, <3>2, <3>3
  <2>10. QED
    BY <2>5, <2>9 DEF ShownIn, Shown, RawOf, frame
<1>2. QED
  BY <1>1, MapInvariant, PTL DEF Spec
-----------------------------------------------------------------------------
(* Applying a frame again: states.                                         *)

\* A state is its cells and latches.
LEMMA StateIs ==
  ASSUME NEW t \in MapState, NEW u \in MapState, SameLatches(t, u),
         DOMAIN u.cells = DOMAIN t.cells, \A c \in DOMAIN t.cells : Cell(u, c) = Cell(t, c)
  PROVE  u = t
<1>1. PICK D \in SUBSET U8 : t.cells \in [D -> U8]
  BY DEF MapState, PartialCells
<1>2. PICK E \in SUBSET U8 : u.cells \in [E -> U8]
  BY DEF MapState, PartialCells
<1>3. D = E /\ \A c \in D : u.cells[c] = t.cells[c]
  BY <1>1, <1>2 DEF Cell
<1>4. u.cells = t.cells
  BY <1>1, <1>2, <1>3
<1>5. QED
  BY <1>4 DEF MapState, SameLatches

LEMMA BitsDetermine ==
  ASSUME NEW a \in U8, NEW b \in U8, \A k \in 0 .. 7 : BitOf(a, k) = BitOf(b, k)
  PROVE  a = b
<1>1. [k \in 0 .. 7 |-> BitOf(a, k)] = [k \in 0 .. 7 |-> BitOf(b, k)]
  OBVIOUS
<1>2. QED
  BY <1>1, SumOfBits

\* Writing to a bit what it holds.
LEMMA BitRewritten ==
  ASSUME NEW b \in U8, NEW k \in 0 .. 7
  PROVE  WithBit(b, k, BitOf(b, k)) = b
<1>1. BitOf(b, k) \in 0 .. 1
  BY BitTyped DEF U8
<1>2. QED
  BY <1>1, BitWritten, BitsDetermine

OwnCells == {\h06, \h11, \h42, \h44}

\* Two states that the cleanup makes equal.
LEMMA CleanedSame ==
  ASSUME NEW d, Cleans(d), NEW t \in MapState, NEW u \in MapState, SameLatches(t, u),
         DOMAIN u.cells \cup OwnCells = DOMAIN t.cells \cup OwnCells,
         \A c \in Int \ OwnCells : Cell(u, c) = Cell(t, c),
         \A k \in 0 .. 7 \ {1} : BitOf(Cell(u, \h42), k) = BitOf(Cell(t, \h42), k)
  PROVE  Cleaned(d, u) = Cleaned(d, t)
<1> DEFINE t1 == Cleaned(d, t)
           u1 == Cleaned(d, u)
<1>1. /\ t1 \in MapState /\ SameLatches(t, t1)
      /\ \A c \in {\h06, \h11, \h44} : Cell(t1, c) = 0
      /\ Cell(t1, \h42) = WithBit(Cell(t, \h42), 1, 0)
      /\ \A c \in Int \ OwnCells : Cell(t1, c) = Cell(t, c)
      /\ DOMAIN t1.cells = DOMAIN t.cells \cup OwnCells
  BY CleanedIs DEF OwnCells
<1>2. /\ u1 \in MapState /\ SameLatches(u, u1)
      /\ \A c \in {\h06, \h11, \h44} : Cell(u1, c) = 0
      /\ Cell(u1, \h42) = WithBit(Cell(u, \h42), 1, 0)
      /\ \A c \in Int \ OwnCells : Cell(u1, c) = Cell(u, c)
      /\ DOMAIN u1.cells = DOMAIN u.cells \cup OwnCells
  BY CleanedIs DEF OwnCells
<1>3. Cell(t, \h42) \in U8 /\ Cell(u, \h42) \in U8
  BY CellTyped
<1>4. WithBit(Cell(t, \h42), 1, 0) = WithBit(Cell(u, \h42), 1, 0)
  <2> DEFINE a == WithBit(Cell(t, \h42), 1, 0)
             b == WithBit(Cell(u, \h42), 1, 0)
  <2>1. a \in U8 /\ BitOf(a, 1) = 0 /\ \A k \in 0 .. 7 \ {1} : BitOf(a, k) = BitOf(Cell(t, \h42), k)
    BY <1>3, BitWritten
  <2>2. b \in U8 /\ BitOf(b, 1) = 0 /\ \A k \in 0 .. 7 \ {1} : BitOf(b, k) = BitOf(Cell(u, \h42), k)
    BY <1>3, BitWritten
  <2> HIDE DEF a, b
  <2>3. \A k \in 0 .. 7 : BitOf(a, k) = BitOf(b, k)
    BY <2>1, <2>2
  <2>4. QED
    BY <2>1, <2>2, <2>3, BitsDetermine DEF a, b
<1> HIDE DEF t1, u1
<1>5. SameLatches(t1, u1)
  BY <1>1, <1>2 DEF SameLatches
<1>6. DOMAIN t1.cells \subseteq Int
  <2>1. DOMAIN t1.cells \subseteq U8
    BY <1>1 DEF MapState, PartialCells
  <2>2. QED
    BY <2>1 DEF U8
<1>7. \A c \in DOMAIN t1.cells : Cell(u1, c) = Cell(t1, c)
  BY <1>1, <1>2, <1>4, <1>6 DEF OwnCells
<1>8. QED
  BY <1>1, <1>2, <1>5, <1>7, StateIs DEF t1, u1
-----------------------------------------------------------------------------
(* What a row wants of a state: if it is so, the row changes nothing but   *)
(* what the cleanup puts back.                                             *)

InTable(d, row) ==
  \/ d.profile = "M94" /\ row \in M94Row
  \/ d.profile = "M115" /\ row \in M115Row

ShownBy(table, raw) == IF raw \in DOMAIN table THEN table[raw] ELSE raw

\* Transforms whose cell is a function of what was read.
Valued ==
  {"boolean_to_magic_aa55", "swing_value_remap", "mode_range_to_boolean",
   "nonzero_boolean_with_one_cleared", "global_mode_latch_projection", "mode_value_remap"}

ValueOf(t, row, raw) ==
  CASE row.transform = "boolean_to_magic_aa55" -> IF raw = 1 THEN \haa ELSE \h55
    [] row.transform = "swing_value_remap" -> ShownBy(SwingValue, raw)
    [] row.transform = "mode_range_to_boolean" -> ShownBy(ModeRange, raw)
    [] row.transform = "nonzero_boolean_with_one_cleared" -> IF raw > 1 THEN 1 ELSE 0
    [] row.transform = "global_mode_latch_projection" -> IF t.modeLatch THEN 7 ELSE raw
    [] row.transform = "mode_value_remap" ->
         IF Cell(t, row.cell - 3) # 0 THEN 6 ELSE ShownBy(ModeValue, raw)

WantsLatch(t, row, raw) ==
  /\ t.modeLatch <=> raw = 1
  /\ IF raw = 1 THEN Cell(t, row.cell) = 7 ELSE BitOf(Cell(t, row.cell), 0) = 0

WantsSlots(t, row, raw) ==
  /\ Cell(t, row.cell) = raw
  /\ Cell(t, row.cell - 4) # 0 /\ raw \in {1, 2, 5} =>
       t.slotFlags = [k \in 1 .. SlotCount |-> 0]
  /\ Cell(t, row.cell - 4) # 0 /\ raw \in {4, 6} =>
       t.slotFlags = [k \in 1 .. SlotCount |-> 1]

\* Run mode 6 is at rest once it has become 5.
WantsRun(t, row, raw) ==
  /\ raw \in {5, 6} => row.cell + 3 \in DOMAIN t.cells /\ Cell(t, row.cell + 3) = 1
  /\ raw # 6 => Cell(t, row.cell) = IF Cell(t, row.cell + 3) # 0 THEN 5 ELSE raw
  /\ raw = 6 => Cell(t, row.cell) \in {5, 6}

WantsCoupled(d, t, row, raw) ==
  /\ ~Cleans(d) => Cell(t, row.cell) = raw
  /\ raw = 1 => row.cell + 3 \in DOMAIN t.cells /\ Cell(t, row.cell + 3) = 6

Wants(d, t, row, raw) ==
  /\ row.cell \in DOMAIN t.cells
  /\ row.transform = "none" => CleansRow(d, row) \/ ShownIn(t, row) = raw
  /\ row.transform \in Valued => Cell(t, row.cell) = ValueOf(t, row, raw)
  /\ row.transform = "global_mode_latch_update" => WantsLatch(t, row, raw)
  /\ row.transform = "mode_updates_all_100_slot_flags" => WantsSlots(t, row, raw)
  /\ row.transform = "run_mode_coupled_remap" => WantsRun(t, row, raw)
  /\ row.transform = "coupled_state_remap" => WantsCoupled(d, t, row, raw)

\* What holds of the state before a frame: in a frame that brings a mode, what the cleanup
\* owns forces none.
Ready(d, t, opcode) ==
  /\ t \in MapState
  /\ d.profile = "M94" => t \in Good94
  /\ d.profile = "M115" => t \in Good115
  /\ Cleans(d) /\ opcode = \h7d => Cell(t, \h06) = 0

LEMMA RowKeepsReady ==
  ASSUME NEW d, NEW t, NEW row, InTable(d, row), Ready(d, t, row.opcode),
         NEW raw, RawFits(row, raw)
  PROVE  Ready(d, ApplyEntry(t, row, raw), row.opcode)
<1> DEFINE u == ApplyEntry(t, row, raw)
<1>1. t \in MapState
  BY DEF Ready
<1>2. CASE d.profile = "M94" /\ row \in M94Row
  <2>1. u \in Good94
    BY <1>2, Kept94 DEF Ready
  <2>2. ~Cleans(d) /\ d.profile # "M115"
    BY <1>2 DEF Cleans
  <2>3. QED
    BY <2>1, <2>2 DEF Ready, Good94
<1>3. CASE d.profile = "M115" /\ row \in M115Row
  <2>1. u \in Good115
    BY <1>3, Kept115 DEF Ready
  <2>2. row \in Row
    BY <1>3 DEF M115Row
  <2>3. ASSUME row.opcode = \h7d
        PROVE  Cell(u, \h06) = Cell(t, \h06)
    <3>1. \h06 \notin Touched(row)
      BY <1>3, <2>3 DEF M115Row, Touched
    <3>2. QED
      BY <1>1, <2>2, <3>1, RowIsLocal DEF Local
  <2>4. d.profile # "M94"
    BY <1>3
  <2>5. QED
    BY <2>1, <2>3, <2>4 DEF Ready, Good115
<1>4. QED
  BY <1>2, <1>3 DEF InTable
-----------------------------------------------------------------------------
(* What a row does to a state, by transform.                               *)

\* The row's cell gets a value, and nothing else changes.
Becomes(t, u, c, v) ==
  /\ u \in MapState /\ SameLatches(t, u)
  /\ DOMAIN u.cells = DOMAIN t.cells \cup {c}
  /\ Cell(u, c) = v
  /\ \A k \in Int \ {c} : Cell(u, k) = Cell(t, k)

LEMMA WrittenBecomes ==
  ASSUME NEW t \in MapState, NEW row \in Row, NEW raw, RawFits(row, raw)
  PROVE  \E v \in U8 :
           /\ Becomes(t, Written(t, row, raw), row.cell, v)
           /\ row.kind # "bit" => v = raw
           /\ row.kind = "bit" => v = WithBit(Cell(t, row.cell), row.bit, raw)
<1> DEFINE w == Written(t, row, raw)
           v == IF row.kind = "bit" THEN WithBit(Cell(t, row.cell), row.bit, raw) ELSE raw
<1>1. v \in U8 /\ row.cell \in U8 /\ row.cell \in Int
  <2>1. row.kind = "bit" => WithBit(Cell(t, row.cell), row.bit, raw) \in U8
    BY WrittenIs
  <2>2. QED
    BY <2>1 DEF RawFits, Row, U8
<1>2. w = Put(t, row.cell, v)
  BY DEF Written
<1> HIDE DEF v, w
<1>3. Becomes(t, w, row.cell, v)
  BY <1>1, <1>2, PutIs DEF Becomes
<1>4. QED
  BY <1>1, <1>3 DEF v, w

LEMMA PutBecomes ==
  ASSUME NEW t, NEW w, NEW c \in U8, NEW x, Becomes(t, w, c, x), NEW v \in U8
  PROVE  Becomes(t, Put(w, c, v), c, v)
<1>1. c \in Int /\ w \in MapState
  BY DEF U8, Becomes
<1>2. /\ Put(w, c, v) \in MapState
      /\ SameLatches(w, Put(w, c, v))
      /\ \A k \in Int : Cell(Put(w, c, v), k) = IF k = c THEN v ELSE Cell(w, k)
      /\ DOMAIN Put(w, c, v).cells = DOMAIN w.cells \cup {c}
  <2>1. /\ Put(w, c, v) \in MapState
        /\ SameLatches(w, Put(w, c, v))
        /\ \A k \in Int :
             Cell(Put(w, c, v), k) = IF k = c /\ c \in U8 THEN v ELSE Cell(w, k)
        /\ DOMAIN Put(w, c, v).cells = DOMAIN w.cells \cup ({c} \cap U8)
    BY <1>1, PutIs
  <2>2. {c} \cap U8 = {c}
    OBVIOUS
  <2>3. QED
    BY <2>1, <2>2
<1>3. SameLatches(t, Put(w, c, v))
  BY <1>2 DEF Becomes, SameLatches
<1>4. QED
  BY <1>1, <1>2, <1>3 DEF Becomes

\* A value that is there already.
LEMMA BecomesSame ==
  ASSUME NEW t \in MapState, NEW u, NEW c \in DOMAIN t.cells, Becomes(t, u, c, Cell(t, c))
  PROVE  u = t
<1>1. DOMAIN u.cells = DOMAIN t.cells
  BY DEF Becomes
<1>2. DOMAIN t.cells \subseteq Int
  <2>1. DOMAIN t.cells \subseteq U8
    BY DEF MapState, PartialCells
  <2>2. QED
    BY <2>1 DEF U8
<1>3. \A k \in DOMAIN t.cells : Cell(u, k) = Cell(t, k)
  BY <1>2 DEF Becomes
<1>4. QED
  BY <1>1, <1>3, StateIs DEF Becomes

LEMMA RemappedBecomes ==
  ASSUME NEW t, NEW w, NEW c \in U8, NEW raw \in U8, Becomes(t, w, c, raw),
         NEW table, \A k \in DOMAIN table : table[k] \in U8
  PROVE  Becomes(t, Remapped(w, c, table, raw), c, ShownBy(table, raw))
BY PutBecomes DEF Remapped, ShownBy

LEMMA ValuedBecomes ==
  ASSUME NEW d, NEW t, NEW row, InTable(d, row), Ready(d, t, row.opcode),
         NEW raw, RawFits(row, raw), row.transform \in Valued
  PROVE  Becomes(t, ApplyEntry(t, row, raw), row.cell, ValueOf(t, row, raw))
<1> DEFINE w == Written(t, row, raw)
           u == ApplyEntry(t, row, raw)
           c == row.cell
<1>1. t \in MapState /\ row \in Row /\ c \in U8 /\ raw \in U8
  BY DEF Ready, InTable, M94Row, M115Row, Row, RawFits
<1>2. PICK x \in U8 : Becomes(t, w, c, x) /\ (row.kind # "bit" => x = raw)
  BY <1>1, WrittenBecomes
<1>3. u = Transformed(w, row, raw)
  BY DEF ApplyEntry
<1>4. \A v \in U8 : Becomes(t, Put(w, c, v), c, v)
  BY <1>1, <1>2, PutBecomes
<1>5. \haa \in U8 /\ \h55 \in U8 /\ 0 \in U8 /\ 1 \in U8 /\ 6 \in U8 /\ 7 \in U8
  BY DEF U8
<1> HIDE DEF w, u, c
<1>6. CASE row.transform = "boolean_to_magic_aa55"
  BY <1>3, <1>4, <1>5, <1>6 DEF Transformed, ValueOf, u, c
<1>7. CASE row.transform = "nonzero_boolean_with_one_cleared"
  BY <1>3, <1>4, <1>5, <1>7 DEF Transformed, ValueOf, u, c
<1>8. row.transform \in {"swing_value_remap", "mode_range_to_boolean",
                         "global_mode_latch_projection", "mode_value_remap"} => row.kind # "bit"
  <2>1. row \in M94Row /\ row.transform \in Valued \ {"boolean_to_magic_aa55"} => row.kind # "bit"
    BY DEF M94Row, Seat94, BitOpcodes94, Valued
  <2>2. row \in M115Row /\ row.transform \in Valued \ {"boolean_to_magic_aa55"} => row.kind # "bit"
    BY DEF M115Row, Seat115, BitOpcodes115, Valued, Parts
  <2>3. QED
    BY <2>1, <2>2 DEF InTable, Valued
<1>9. row.kind # "bit" => Becomes(t, w, c, raw)
  BY <1>2
<1>10. CASE row.transform = "swing_value_remap"
  <2>1. Becomes(t, Remapped(w, c, SwingValue, raw), c, ShownBy(SwingValue, raw))
    BY <1>1, <1>8, <1>9, <1>10, TablesTyped, RemappedBecomes
  <2>2. QED
    BY <1>3, <1>10, <2>1 DEF Transformed, ValueOf, u, c
<1>11. CASE row.transform = "mode_range_to_boolean"
  <2>1. Becomes(t, Remapped(w, c, ModeRange, raw), c, ShownBy(ModeRange, raw))
    BY <1>1, <1>8, <1>9, <1>11, TablesTyped, RemappedBecomes
  <2>2. QED
    BY <1>3, <1>11, <2>1 DEF Transformed, ValueOf, u, c
<1>12. CASE row.transform = "global_mode_latch_projection"
  <2>1. w.modeLatch = t.modeLatch
    BY <1>2 DEF Becomes, SameLatches
  <2>2. QED
    BY <1>3, <1>4, <1>5, <1>8, <1>9, <1>12, <2>1 DEF Transformed, ValueOf, u, c
<1>13. CASE row.transform = "mode_value_remap"
  <2>1. Becomes(t, Remapped(w, c, ModeValue, raw), c, ShownBy(ModeValue, raw))
    BY <1>1, <1>8, <1>9, <1>13, TablesTyped, RemappedBecomes
  <2>2. Cell(w, c - 3) = Cell(t, c - 3)
    <3>1. c - 3 \in Int /\ c - 3 # c
      BY <1>1 DEF U8
    <3>2. QED
      BY <1>2, <3>1 DEF Becomes
  <2>3. u = IF Cell(w, c - 3) # 0 THEN Put(w, c, 6) ELSE Remapped(w, c, ModeValue, raw)
    BY <1>3, <1>13 DEF Transformed, ModeValueForced, c
  <2>4. QED
    BY <1>4, <1>5, <1>13, <2>1, <2>2, <2>3 DEF ValueOf, u, c
<1>14. QED
  BY <1>6, <1>7, <1>10, <1>11, <1>12, <1>13 DEF Valued
LEMMA PutSame ==
  ASSUME NEW t \in MapState, NEW c \in U8, NEW v \in U8, c \in DOMAIN t.cells, Cell(t, c) = v
  PROVE  Put(t, c, v) = t
<1>1. Becomes(t, t, c, v)
  BY DEF Becomes, SameLatches
<1>2. Becomes(t, Put(t, c, v), c, v)
  BY <1>1, PutBecomes
<1>3. QED
  BY <1>2, BecomesSame

\* A row of each kind gets what it wants, and changes nothing if it has that already.
LEMMA ValuedRow ==
  ASSUME NEW d, NEW t, NEW row, InTable(d, row), Ready(d, t, row.opcode),
         NEW raw, RawFits(row, raw), row.transform \in Valued
  PROVE  /\ Wants(d, ApplyEntry(t, row, raw), row, raw)
         /\ Wants(d, t, row, raw) => ApplyEntry(t, row, raw) = t
<1> DEFINE u == ApplyEntry(t, row, raw)
<1>1. Becomes(t, u, row.cell, ValueOf(t, row, raw)) /\ t \in MapState
  BY ValuedBecomes DEF Ready
<1>2. row.cell - 3 \in Int /\ row.cell - 3 # row.cell
  BY DEF InTable, M94Row, M115Row, Row, U8
<1> HIDE DEF u
<1>3. ValueOf(u, row, raw) = ValueOf(t, row, raw)
  <2>1. u.modeLatch = t.modeLatch
    BY <1>1 DEF Becomes, SameLatches
  <2>2. Cell(u, row.cell - 3) = Cell(t, row.cell - 3)
    BY <1>1, <1>2 DEF Becomes
  <2>3. QED
    BY <2>1, <2>2 DEF ValueOf
<1>4. Cell(u, row.cell) = ValueOf(u, row, raw) /\ row.cell \in DOMAIN u.cells
  BY <1>1, <1>3 DEF Becomes
<1>5. Wants(d, u, row, raw)
  BY <1>4 DEF Wants, Valued
<1>6. ASSUME Wants(d, t, row, raw)
      PROVE  u = t
  <2>1. row.cell \in DOMAIN t.cells /\ Cell(t, row.cell) = ValueOf(t, row, raw)
    BY <1>6 DEF Wants
  <2>2. QED
    BY <1>1, <2>1, BecomesSame
<1>7. QED
  BY <1>5, <1>6 DEF u

LEMMA PlainRow ==
  ASSUME NEW d, NEW t, NEW row, InTable(d, row), Ready(d, t, row.opcode),
         NEW raw, RawFits(row, raw), row.transform = "none"
  PROVE  /\ Wants(d, ApplyEntry(t, row, raw), row, raw)
         /\ Wants(d, t, row, raw) => Cleaned(d, ApplyEntry(t, row, raw)) = Cleaned(d, t)
<1> DEFINE u == ApplyEntry(t, row, raw)
           c == row.cell
<1>1. t \in MapState /\ row \in Row /\ c \in U8 /\ c \in Int /\ row.bit \in 0 .. 7
  BY DEF Ready, InTable, M94Row, M115Row, Row, U8
<1>2. PICK v \in U8 : /\ Becomes(t, Written(t, row, raw), c, v)
                      /\ row.kind # "bit" => v = raw
                      /\ row.kind = "bit" => v = WithBit(Cell(t, c), row.bit, raw)
  BY <1>1, WrittenBecomes
<1>3. u = Written(t, row, raw)
  BY DEF ApplyEntry, Transformed
<1>4. ShownIn(u, row) = raw
  BY <1>1, PlainShows
<1> HIDE DEF u
<1>5. Wants(d, u, row, raw)
  <2>1. row.cell \in DOMAIN u.cells
    BY <1>2, <1>3 DEF Becomes
  <2>2. QED
    BY <1>4, <2>1 DEF Wants, Valued
<1>6. ASSUME Wants(d, t, row, raw)
      PROVE  Cleaned(d, u) = Cleaned(d, t)
  <2>1. c \in DOMAIN t.cells /\ (CleansRow(d, row) \/ ShownIn(t, row) = raw)
    BY <1>6 DEF Wants
  <2>2. Cell(t, c) \in U8
    BY <1>1, CellTyped
  <2>3. CASE ShownIn(t, row) = raw
    <3>1. v = Cell(t, c)
      BY <1>1, <1>2, <2>2, <2>3, BitRewritten DEF ShownIn
    <3>2. u = t
      BY <1>1, <1>2, <1>3, <2>1, <3>1, BecomesSame
    <3>3. QED
      BY <3>2
  <2>4. CASE CleansRow(d, row)
    <3>1. Cleans(d) /\ c \in OwnCells /\ (c = \h42 => row.bit = 1 /\ row.kind = "bit")
      BY <2>4 DEF CleansRow, OwnCells, Cleans, InTable, M115Row
    <3>2. SameLatches(t, u) /\ DOMAIN u.cells = DOMAIN t.cells /\ u \in MapState
      BY <1>2, <1>3, <2>1 DEF Becomes
    <3>3. \A k \in Int \ OwnCells : Cell(u, k) = Cell(t, k)
      BY <1>2, <1>3, <3>1 DEF Becomes
    <3>4. \A k \in 0 .. 7 \ {1} : BitOf(Cell(u, \h42), k) = BitOf(Cell(t, \h42), k)
      <4>1. CASE c # \h42
        <5>1. \h42 \in Int \ {c}
          BY <4>1
        <5>2. Cell(u, \h42) = Cell(t, \h42)
          BY <1>2, <1>3, <5>1 DEF Becomes
        <5>3. QED
          BY <5>2
      <4>2. CASE c = \h42
        <5>1. Cell(u, c) = WithBit(Cell(t, c), 1, raw) /\ raw \in 0 .. 1 /\ 1 \in 0 .. 7
          BY <1>2, <1>3, <3>1, <4>2 DEF Becomes, RawFits
        <5>2. QED
          BY <2>2, <4>2, <5>1, BitWritten
      <4>3. QED
        BY <4>1, <4>2
    <3>5. QED
      BY <1>1, <3>1, <3>2, <3>3, <3>4, CleanedSame
  <2>5. QED
    BY <2>1, <2>3, <2>4
<1>7. QED
  BY <1>5, <1>6 DEF u

LEMMA LatchRow ==
  ASSUME NEW d, NEW t, NEW row, InTable(d, row), Ready(d, t, row.opcode),
         NEW raw, RawFits(row, raw), row.transform = "global_mode_latch_update"
  PROVE  /\ Wants(d, ApplyEntry(t, row, raw), row, raw)
         /\ Wants(d, t, row, raw) => ApplyEntry(t, row, raw) = t
<1> DEFINE w == Written(t, row, raw)
           u == ApplyEntry(t, row, raw)
           c == row.cell
<1>1. /\ t \in MapState /\ row \in Row /\ c \in U8 /\ 7 \in U8
      /\ row.kind = "bit" /\ row.bit = 0 /\ raw \in 0 .. 1
  BY DEF Ready, InTable, M94Row, M115Row, Parts, Row, U8, RawFits
<1>2. Becomes(t, w, c, WithBit(Cell(t, c), 0, raw))
  BY <1>1, WrittenBecomes
<1>3. Becomes(t, Put(w, c, 7), c, 7)
  BY <1>1, <1>2, PutBecomes
<1>4. /\ BitOf(WithBit(Cell(t, c), 0, raw), 0) = raw
      /\ WithBit(Cell(t, c), 0, BitOf(Cell(t, c), 0)) = Cell(t, c)
  <2>1. Cell(t, c) \in U8 /\ 0 \in 0 .. 7
    BY <1>1, CellTyped
  <2>2. QED
    BY <1>1, <2>1, BitWritten, BitRewritten
<1>5. u = ModeLatchUpdated(w, c, raw)
  BY DEF ApplyEntry, Transformed
<1> DEFINE p == Put(w, c, 7)
<1> HIDE DEF w, u, c, p
<1>6. CASE raw = 1
  <2>1. u = [p EXCEPT !.modeLatch = TRUE]
    BY <1>5, <1>6 DEF ModeLatchUpdated, p
  <2>2. p \in MapState /\ c \in DOMAIN p.cells /\ Cell(p, c) = 7
    BY <1>3 DEF Becomes, p
  <2>3. u.modeLatch = TRUE /\ u.cells = p.cells
    BY <2>1, <2>2 DEF MapState
  <2>4. c \in DOMAIN u.cells /\ Cell(u, c) = 7
    BY <2>2, <2>3 DEF Cell
  <2>5. Wants(d, u, row, raw)
    BY <1>6, <2>3, <2>4 DEF Wants, WantsLatch, Valued, c
  <2>6. ASSUME Wants(d, t, row, raw)
        PROVE  u = t
    <3>1. c \in DOMAIN t.cells /\ Cell(t, c) = 7 /\ t.modeLatch
      BY <1>6, <2>6 DEF Wants, WantsLatch, c
    <3>2. p = t
      BY <1>1, <1>3, <3>1, BecomesSame DEF p
    <3>3. QED
      BY <1>1, <2>1, <3>1, <3>2 DEF MapState
  <2>7. QED
    BY <2>5, <2>6 DEF u
<1>7. CASE raw = 0
  <2>1. u = [w EXCEPT !.modeLatch = FALSE]
    BY <1>5, <1>7 DEF ModeLatchUpdated
  <2>2. w \in MapState /\ c \in DOMAIN w.cells /\ BitOf(Cell(w, c), 0) = 0
    BY <1>2, <1>4, <1>7 DEF Becomes
  <2>3. u.modeLatch = FALSE /\ u.cells = w.cells
    BY <2>1, <2>2 DEF MapState
  <2>4. c \in DOMAIN u.cells /\ BitOf(Cell(u, c), 0) = 0
    BY <2>2, <2>3 DEF Cell
  <2>5. Wants(d, u, row, raw)
    BY <1>7, <2>3, <2>4 DEF Wants, WantsLatch, Valued, c
  <2>6. ASSUME Wants(d, t, row, raw)
        PROVE  u = t
    <3>1. c \in DOMAIN t.cells /\ BitOf(Cell(t, c), 0) = 0 /\ ~t.modeLatch
      BY <1>7, <2>6 DEF Wants, WantsLatch, c
    <3>2. w = t
      BY <1>1, <1>2, <1>4, <1>7, <3>1, BecomesSame
    <3>3. QED
      BY <1>1, <2>1, <3>1, <3>2 DEF MapState
  <2>7. QED
    BY <2>5, <2>6 DEF u
<1>8. QED
  BY <1>1, <1>6, <1>7

LEMMA SlotsRow ==
  ASSUME NEW d, NEW t, NEW row, InTable(d, row), Ready(d, t, row.opcode),
         NEW raw, RawFits(row, raw), row.transform = "mode_updates_all_100_slot_flags"
  PROVE  /\ Wants(d, ApplyEntry(t, row, raw), row, raw)
         /\ Wants(d, t, row, raw) => ApplyEntry(t, row, raw) = t
<1> DEFINE w == Written(t, row, raw)
           u == ApplyEntry(t, row, raw)
           c == row.cell
<1>1. /\ t \in MapState /\ row \in Row /\ c \in U8
      /\ c - 4 \in Int /\ c - 4 # c /\ c + 19 \in Int /\ c + 19 # c
  BY DEF Ready, InTable, M94Row, M115Row, Row, U8
<1>2. row.kind # "bit"
  BY DEF InTable, M94Row, M115Row, Parts, Seat94, Seat115, BitOpcodes94, BitOpcodes115
<1>3. Becomes(t, w, c, raw)
  BY <1>1, <1>2, WrittenBecomes
<1>4. Cell(w, c + 19) = 0
  <2>1. Cell(w, c + 19) = Cell(t, c + 19)
    BY <1>1, <1>3 DEF Becomes
  <2>2. CASE d.profile = "M94" /\ row \in M94Row
    <3>1. c = \h0b /\ t \in Good94
      BY <2>2 DEF M94Row, Ready
    <3>2. QED
      BY <2>1, <3>1 DEF Good94, Cell
  <2>3. CASE d.profile = "M115" /\ row \in M115Row
    <3>1. c = \h58 /\ t \in Good115
      BY <2>3 DEF M115Row, Ready
    <3>2. QED
      BY <2>1, <3>1 DEF Good115, Cell
  <2>4. QED
    BY <2>2, <2>3 DEF InTable
<1>5. u = SlotFlagsUpdated(w, c, raw)
  BY DEF ApplyEntry, Transformed
<1>6. w \in MapState /\ Cell(w, c - 4) = Cell(t, c - 4) /\ w.slotFlags = t.slotFlags
  BY <1>1, <1>3 DEF Becomes, SameLatches
<1> HIDE DEF w, u, c
<1>7. \A v \in {0, 1} : AllSlots(w, v) = [w EXCEPT !.slotFlags = [k \in 1 .. SlotCount |-> v]]
  <2>1. 0 \in U8 /\ 1 \in U8
    BY DEF U8
  <2>2. QED
    BY <1>6, <2>1, SlotsAre
<1>8. u.cells = w.cells
  BY <1>4, <1>5, <1>6, <1>7 DEF SlotFlagsUpdated, MapState
<1>9. /\ c \in DOMAIN u.cells /\ Cell(u, c) = raw
      /\ Cell(u, c - 4) = Cell(t, c - 4)
  BY <1>3, <1>6, <1>8 DEF Becomes, Cell
<1>10. /\ Cell(t, c - 4) # 0 /\ raw \in {1, 2, 5} => u.slotFlags = [k \in 1 .. SlotCount |-> 0]
       /\ Cell(t, c - 4) # 0 /\ raw \in {4, 6} => u.slotFlags = [k \in 1 .. SlotCount |-> 1]
  <2>1. Cell(t, c - 4) # 0 /\ raw \in {1, 2, 5} => u = AllSlots(w, 0)
    BY <1>4, <1>5, <1>6 DEF SlotFlagsUpdated
  <2>2. Cell(t, c - 4) # 0 /\ raw \in {4, 6} => u = AllSlots(w, 1)
    BY <1>4, <1>5, <1>6 DEF SlotFlagsUpdated
  <2>3. \A v \in {0, 1} : AllSlots(w, v).slotFlags = [k \in 1 .. SlotCount |-> v]
    BY <1>6, <1>7 DEF MapState
  <2>4. QED
    BY <2>1, <2>2, <2>3
<1>11. Wants(d, u, row, raw)
  BY <1>9, <1>10 DEF Wants, WantsSlots, Valued, c
<1>12. ASSUME Wants(d, t, row, raw)
       PROVE  u = t
  <2>1. /\ c \in DOMAIN t.cells /\ Cell(t, c) = raw
        /\ Cell(t, c - 4) # 0 /\ raw \in {1, 2, 5} => t.slotFlags = [k \in 1 .. SlotCount |-> 0]
        /\ Cell(t, c - 4) # 0 /\ raw \in {4, 6} => t.slotFlags = [k \in 1 .. SlotCount |-> 1]
    BY <1>12 DEF Wants, WantsSlots, c
  <2>2. w = t
    BY <1>1, <1>3, <2>1, BecomesSame
  <2>3. CASE u = w
    BY <2>2, <2>3
  <2>4. CASE Cell(t, c - 4) # 0 /\ raw \in {1, 2, 5}
    <3>1. u = AllSlots(w, 0)
      BY <1>4, <1>5, <1>6, <2>4 DEF SlotFlagsUpdated
    <3>2. u = [t EXCEPT !.slotFlags = [k \in 1 .. SlotCount |-> 0]]
      BY <1>7, <2>2, <3>1
    <3>3. QED
      BY <1>1, <2>1, <2>4, <3>2 DEF MapState
  <2>5. CASE Cell(t, c - 4) # 0 /\ raw \in {4, 6}
    <3>1. u = AllSlots(w, 1)
      BY <1>4, <1>5, <1>6, <2>5 DEF SlotFlagsUpdated
    <3>2. u = [t EXCEPT !.slotFlags = [k \in 1 .. SlotCount |-> 1]]
      BY <1>7, <2>2, <3>1
    <3>3. QED
      BY <1>1, <2>1, <2>5, <3>2 DEF MapState
  <2>6. QED
    BY <1>4, <1>5, <1>6, <2>3, <2>4, <2>5 DEF SlotFlagsUpdated
<1>13. QED
  BY <1>11, <1>12 DEF u

LEMMA BecomesUnique ==
  ASSUME NEW t \in MapState, NEW c \in U8, NEW v, NEW x, NEW y,
         Becomes(t, x, c, v), Becomes(t, y, c, v)
  PROVE  x = y
<1>1. /\ x \in MapState /\ y \in MapState /\ SameLatches(y, x)
      /\ DOMAIN x.cells = DOMAIN y.cells
  BY DEF Becomes, SameLatches
<1>2. DOMAIN y.cells \subseteq Int
  <2>1. DOMAIN y.cells \subseteq U8
    BY <1>1 DEF MapState, PartialCells
  <2>2. QED
    BY <2>1 DEF U8
<1>3. \A k \in DOMAIN y.cells : Cell(x, k) = Cell(y, k)
  BY <1>2 DEF Becomes
<1>4. QED
  BY <1>1, <1>3, StateIs

\* The cleanup leaves cell 0x0a alone.
LEMMA CleanedPut ==
  ASSUME NEW d, NEW t \in MapState
  PROVE  Cleaned(d, Put(t, \h0a, 5)) = Put(Cleaned(d, t), \h0a, 5)
<1> DEFINE x == Put(t, \h0a, 5)
           cx == Cleaned(d, x)
           ct == Cleaned(d, t)
           pt == Put(ct, \h0a, 5)
<1>1. \h0a \in U8 /\ 5 \in U8 /\ \h0a \in Int /\ \h42 \in Int \ {\h0a}
  BY DEF U8
<1>2. /\ x \in MapState /\ SameLatches(t, x)
      /\ DOMAIN x.cells = DOMAIN t.cells \cup {\h0a}
      /\ Cell(x, \h0a) = 5
      /\ \A k \in Int \ {\h0a} : Cell(x, k) = Cell(t, k)
  BY <1>1, PutIs
<1>3. /\ ct \in MapState /\ SameLatches(t, ct)
      /\ ~Cleans(d) => ct = t
      /\ Cleans(d) =>
           /\ \A c \in {\h06, \h11, \h44} : Cell(ct, c) = 0
           /\ Cell(ct, \h42) = WithBit(Cell(t, \h42), 1, 0)
           /\ \A c \in Int \ OwnCells : Cell(ct, c) = Cell(t, c)
           /\ DOMAIN ct.cells = DOMAIN t.cells \cup OwnCells
  BY CleanedIs DEF OwnCells
<1>4. /\ cx \in MapState /\ SameLatches(x, cx)
      /\ ~Cleans(d) => cx = x
      /\ Cleans(d) =>
           /\ \A c \in {\h06, \h11, \h44} : Cell(cx, c) = 0
           /\ Cell(cx, \h42) = WithBit(Cell(x, \h42), 1, 0)
           /\ \A c \in Int \ OwnCells : Cell(cx, c) = Cell(x, c)
           /\ DOMAIN cx.cells = DOMAIN x.cells \cup OwnCells
  BY <1>2, CleanedIs DEF OwnCells
<1>5. /\ pt \in MapState /\ SameLatches(ct, pt)
      /\ DOMAIN pt.cells = DOMAIN ct.cells \cup {\h0a}
      /\ Cell(pt, \h0a) = 5
      /\ \A k \in Int \ {\h0a} : Cell(pt, k) = Cell(ct, k)
  BY <1>1, <1>3, PutIs
<1> HIDE DEF x, cx, ct, pt
<1>6. CASE ~Cleans(d)
  BY <1>3, <1>4, <1>6 DEF x, cx, ct, pt
<1>7. CASE Cleans(d)
  <2>1. SameLatches(pt, cx)
    BY <1>2, <1>3, <1>4, <1>5 DEF SameLatches
  <2>2. DOMAIN cx.cells = DOMAIN pt.cells
    BY <1>2, <1>3, <1>4, <1>5, <1>7
  <2>3. DOMAIN pt.cells \subseteq Int
    <3>1. DOMAIN pt.cells \subseteq U8
      BY <1>5 DEF MapState, PartialCells
    <3>2. QED
      BY <3>1 DEF U8
  <2>4. \A c \in Int : Cell(cx, c) = Cell(pt, c)
    <3> SUFFICES ASSUME NEW c \in Int PROVE Cell(cx, c) = Cell(pt, c)
      OBVIOUS
    <3>1. CASE c = \h0a
      BY <1>2, <1>4, <1>5, <1>7, <3>1 DEF OwnCells
    <3>2. CASE c = \h42
      BY <1>1, <1>2, <1>3, <1>4, <1>5, <1>7, <3>2
    <3>3. CASE c \in {\h06, \h11, \h44}
      BY <1>3, <1>4, <1>5, <1>7, <3>3
    <3>4. CASE c \notin OwnCells \cup {\h0a}
      <4>1. Cell(cx, c) = Cell(x, c) /\ Cell(x, c) = Cell(t, c)
        BY <1>2, <1>4, <1>7, <3>4
      <4>2. Cell(pt, c) = Cell(ct, c) /\ Cell(ct, c) = Cell(t, c)
        BY <1>3, <1>5, <1>7, <3>4
      <4>3. QED
        BY <4>1, <4>2
    <3>5. QED
      BY <3>1, <3>2, <3>3, <3>4 DEF OwnCells
  <2>5. cx = pt
    BY <1>4, <1>5, <2>1, <2>2, <2>3, <2>4, StateIs
  <2>6. QED
    BY <2>5 DEF x, cx, ct, pt
<1>8. QED
  BY <1>6, <1>7

LEMMA RunRow ==
  ASSUME NEW d, NEW t, NEW row, InTable(d, row), Ready(d, t, row.opcode),
         NEW raw, RawFits(row, raw), row.transform = "run_mode_coupled_remap"
  PROVE  /\ Wants(d, ApplyEntry(t, row, raw), row, raw)
         /\ Wants(d, t, row, raw) =>
              \/ ApplyEntry(t, row, raw) = t
              \/ raw = 6 /\ ApplyEntry(t, row, raw) = Put(t, \h0a, 5)
<1> DEFINE w == Written(t, row, raw)
           u == ApplyEntry(t, row, raw)
           forced == IF Cell(w, \h0d) # 0 THEN Put(w, \h0a, 5) ELSE w
           v == IF Cell(t, \h0d) # 0 THEN 5 ELSE raw
<1>1. /\ t \in MapState /\ row \in Row /\ row.cell = \h0a /\ raw \in U8
      /\ \h0a \in U8 /\ \h0d \in U8 /\ 5 \in U8 /\ 1 \in U8 /\ row.cell + 3 = \h0d
      /\ \h0d \in Int \ {\h0a} /\ \h0a \in Int \ {\h0d}
  BY DEF Ready, InTable, M94Row, M115Row, U8, RawFits
<1>2. row.kind # "bit"
  BY DEF InTable, M94Row, M115Row, Parts, Seat115, BitOpcodes115
<1>3. Becomes(t, w, \h0a, raw)
  BY <1>1, <1>2, WrittenBecomes
<1>4. u = RunModeCoupled(w, \h0a, raw)
  BY <1>1 DEF ApplyEntry, Transformed
<1>5. u = IF raw \in {5, 6} THEN Put(forced, \h0d, 1) ELSE forced
  BY <1>4 DEF RunModeCoupled
<1> HIDE DEF w, u
<1>6. Becomes(t, forced, \h0a, v)
  <2>1. Cell(w, \h0d) = Cell(t, \h0d)
    BY <1>1, <1>3 DEF Becomes
  <2>2. QED
    BY <1>1, <1>3, <2>1, PutBecomes
<1> HIDE DEF forced
<1>7. Wants(d, u, row, raw)
  <2>1. CASE raw \in {5, 6}
    <3>1. /\ DOMAIN u.cells = DOMAIN forced.cells \cup {\h0d}
          /\ Cell(u, \h0d) = 1 /\ Cell(u, \h0a) = Cell(forced, \h0a)
      BY <1>1, <1>5, <1>6, <2>1, PutIs DEF Becomes
    <3>2. \h0a \in DOMAIN u.cells /\ \h0d \in DOMAIN u.cells /\ Cell(u, \h0a) = v
      BY <1>6, <3>1 DEF Becomes
    <3>3. WantsRun(u, row, raw)
      BY <1>1, <2>1, <3>1, <3>2 DEF WantsRun
    <3>4. QED
      BY <1>1, <3>2, <3>3 DEF Wants, Valued
  <2>2. CASE raw \notin {5, 6}
    <3>1. u = forced
      BY <1>5, <2>2
    <3>2. \h0a \in DOMAIN u.cells /\ Cell(u, \h0a) = v /\ Cell(u, \h0d) = Cell(t, \h0d)
      BY <1>1, <1>6, <3>1 DEF Becomes
    <3>3. WantsRun(u, row, raw)
      BY <1>1, <2>2, <3>2 DEF WantsRun
    <3>4. QED
      BY <1>1, <3>2, <3>3 DEF Wants, Valued
  <2>3. QED
    BY <2>1, <2>2
<1>8. ASSUME Wants(d, t, row, raw)
      PROVE  \/ u = t
             \/ raw = 6 /\ u = Put(t, \h0a, 5)
  <2>1. /\ \h0a \in DOMAIN t.cells
        /\ raw \in {5, 6} => \h0d \in DOMAIN t.cells /\ Cell(t, \h0d) = 1
        /\ raw # 6 => Cell(t, \h0a) = v
    BY <1>1, <1>8 DEF Wants, WantsRun
  <2>2. raw # 6 => forced = t
    BY <1>1, <1>6, <2>1, BecomesSame
  <2>3. CASE raw \notin {5, 6}
    BY <1>5, <2>2, <2>3
  <2>4. CASE raw = 5
    <3>1. Put(t, \h0d, 1) = t
      BY <1>1, <2>1, <2>4, PutSame
    <3>2. QED
      BY <1>5, <2>2, <2>4, <3>1
  <2>5. CASE raw = 6
    <3>1. v = 5
      BY <2>1, <2>5
    <3>2. Becomes(t, t, \h0a, Cell(t, \h0a))
      BY <1>1, <2>1 DEF Becomes, SameLatches
    <3>3. Becomes(t, Put(t, \h0a, 5), \h0a, 5)
      BY <1>1, <3>2, PutBecomes
    <3>4. forced = Put(t, \h0a, 5)
      BY <1>1, <1>6, <3>1, <3>3, BecomesUnique
    <3>5. \h0d \in DOMAIN forced.cells /\ Cell(forced, \h0d) = 1 /\ forced \in MapState
      BY <1>1, <1>6, <2>1, <2>5 DEF Becomes
    <3>6. Put(forced, \h0d, 1) = forced
      BY <1>1, <3>5, PutSame
    <3>7. QED
      BY <1>5, <2>5, <3>4, <3>6
  <2>6. QED
    BY <2>3, <2>4, <2>5
<1>9. QED
  BY <1>7, <1>8 DEF u

LEMMA CoupledRow ==
  ASSUME NEW d, NEW t, NEW row, InTable(d, row), Ready(d, t, row.opcode),
         NEW raw, RawFits(row, raw), row.transform = "coupled_state_remap"
  PROVE  /\ Wants(d, ApplyEntry(t, row, raw), row, raw)
         /\ Wants(d, t, row, raw) => Cleaned(d, ApplyEntry(t, row, raw)) = Cleaned(d, t)
<1> DEFINE w == Written(t, row, raw)
           u == ApplyEntry(t, row, raw)
<1>1. /\ t \in MapState /\ row \in Row /\ row.cell = \h06 /\ row.kind = "bit" /\ row.bit = 0
      /\ \h06 \in U8 /\ \h09 \in U8 /\ 6 \in U8 /\ row.cell + 3 = \h09
      /\ \h09 \in Int \ {\h06} /\ \h06 \in Int \ {\h09}
      /\ raw \in 0 .. 1 /\ raw \in U8 /\ Cell(t, \h06) \in 0 .. 1
  BY DEF Ready, InTable, M94Row, M115Row, U8, RawFits, Good115
<1>2. WithBit(Cell(t, \h06), 0, raw) = raw
  BY <1>1, LowBitWritten
<1>3. Becomes(t, w, \h06, raw)
  BY <1>1, <1>2, WrittenBecomes
<1>4. u = IF Cell(w, \h06) = 1 THEN Put(w, \h09, 6) ELSE w
  BY <1>1 DEF ApplyEntry, Transformed
<1>5. u = IF raw = 1 THEN Put(w, \h09, 6) ELSE w
  BY <1>3, <1>4 DEF Becomes
<1> HIDE DEF w, u
<1>6. /\ u \in MapState /\ SameLatches(t, u)
      /\ DOMAIN u.cells = DOMAIN t.cells \cup {\h06} \cup (IF raw = 1 THEN {\h09} ELSE {})
      /\ Cell(u, \h06) = raw
      /\ raw = 1 => Cell(u, \h09) = 6
      /\ raw # 1 => Cell(u, \h09) = Cell(t, \h09)
      /\ \A k \in Int \ {\h06, \h09} : Cell(u, k) = Cell(t, k)
  <2>1. CASE raw = 1
    <3>1. u = Put(w, \h09, 6) /\ w \in MapState
      BY <1>3, <1>5, <2>1 DEF Becomes
    <3>2. /\ u \in MapState /\ SameLatches(w, u)
          /\ DOMAIN u.cells = DOMAIN w.cells \cup {\h09}
          /\ \A k \in Int : Cell(u, k) = IF k = \h09 THEN 6 ELSE Cell(w, k)
      BY <1>1, <3>1, PutIs
    <3>3. SameLatches(t, u)
      BY <1>3, <3>2 DEF Becomes, SameLatches
    <3>4. QED
      BY <1>1, <1>3, <2>1, <3>2, <3>3 DEF Becomes
  <2>2. CASE raw # 1
    BY <1>1, <1>3, <1>5, <2>2 DEF Becomes
  <2>3. QED
    BY <2>1, <2>2
<1>7. Wants(d, u, row, raw)
  <2>1. WantsCoupled(d, u, row, raw)
    BY <1>1, <1>6 DEF WantsCoupled
  <2>2. QED
    BY <1>1, <1>6, <2>1 DEF Wants, Valued
<1>8. ASSUME Wants(d, t, row, raw)
      PROVE  Cleaned(d, u) = Cleaned(d, t)
  <2>1. /\ \h06 \in DOMAIN t.cells
        /\ ~Cleans(d) => Cell(t, \h06) = raw
        /\ raw = 1 => \h09 \in DOMAIN t.cells /\ Cell(t, \h09) = 6
    BY <1>1, <1>8 DEF Wants, WantsCoupled
  <2>2. DOMAIN u.cells = DOMAIN t.cells /\ \A k \in Int \ {\h06} : Cell(u, k) = Cell(t, k)
    BY <1>6, <2>1
  <2>3. CASE Cleans(d)
    <3>1. /\ \A k \in Int \ OwnCells : Cell(u, k) = Cell(t, k)
          /\ Cell(u, \h42) = Cell(t, \h42)
      BY <2>2 DEF OwnCells
    <3>2. QED
      BY <1>1, <1>6, <2>2, <2>3, <3>1, CleanedSame
  <2>4. CASE ~Cleans(d)
    <3>1. Becomes(t, u, \h06, Cell(t, \h06))
      BY <1>6, <2>1, <2>2, <2>4 DEF Becomes
    <3>2. u = t
      BY <1>1, <2>1, <3>1, BecomesSame
    <3>3. QED
      BY <3>2
  <2>5. QED
    BY <2>3, <2>4
<1>9. QED
  BY <1>7, <1>8 DEF u

\* Every row but the parts of the error gets what it wants; with that it rests, except for
\* run mode 6.
LEMMA RowRests ==
  ASSUME NEW d, NEW t, NEW row, InTable(d, row), Ready(d, t, row.opcode),
         NEW raw, RawFits(row, raw), row.transform \notin Parts
  PROVE  /\ Wants(d, ApplyEntry(t, row, raw), row, raw)
         /\ Wants(d, t, row, raw) =>
              \/ Cleaned(d, ApplyEntry(t, row, raw)) = Cleaned(d, t)
              \/ /\ row.transform = "run_mode_coupled_remap" /\ raw = 6
                 /\ Cleaned(d, ApplyEntry(t, row, raw)) = Put(Cleaned(d, t), \h0a, 5)
<1>1. CASE row.transform \in Valued
  BY <1>1, ValuedRow
<1>2. CASE row.transform = "none"
  BY <1>2, PlainRow
<1>3. CASE row.transform = "global_mode_latch_update"
  BY <1>3, LatchRow
<1>4. CASE row.transform = "mode_updates_all_100_slot_flags"
  BY <1>4, SlotsRow
<1>5. CASE row.transform = "run_mode_coupled_remap"
  <2>1. t \in MapState
    BY DEF Ready
  <2>2. QED
    BY <1>5, <2>1, RunRow, CleanedPut
<1>6. CASE row.transform = "coupled_state_remap"
  BY <1>6, CoupledRow
<1>7. row.transform \in Valued \cup {"none", "global_mode_latch_update",
        "mode_updates_all_100_slot_flags", "run_mode_coupled_remap", "coupled_state_remap"}
  BY DEF InTable, M94Row, M115Row, Valued
<1>8. QED
  BY <1>1, <1>2, <1>3, <1>4, <1>5, <1>6, <1>7
-----------------------------------------------------------------------------
(* What a row wants is not taken from it by another row of the frame, nor  *)
(* by the cleanup.                                                         *)

\* The cells that decide whether a transformed row has what it wants.
Reads(row) ==
  {row.cell}
    \cup (IF row.transform = "mode_value_remap" THEN {row.cell - 3} ELSE {})
    \cup (IF row.transform = "mode_updates_all_100_slot_flags" THEN {row.cell - 4} ELSE {})
    \cup (IF row.transform \in {"run_mode_coupled_remap", "coupled_state_remap"}
          THEN {row.cell + 3} ELSE {})

LEMMA WantsLike ==
  ASSUME NEW d, NEW t, NEW u, NEW row, row.transform # "none", NEW raw,
         DOMAIN t.cells \subseteq DOMAIN u.cells,
         \A c \in Reads(row) : Cell(u, c) = Cell(t, c),
         row.transform \in {"global_mode_latch_update", "global_mode_latch_projection"} =>
           u.modeLatch = t.modeLatch,
         row.transform = "mode_updates_all_100_slot_flags" => u.slotFlags = t.slotFlags,
         Wants(d, t, row, raw)
  PROVE  Wants(d, u, row, raw)
<1>1. row.cell \in DOMAIN u.cells /\ Cell(u, row.cell) = Cell(t, row.cell)
  BY DEF Wants, Reads
<1>2. row.transform \in Valued => Cell(u, row.cell) = ValueOf(u, row, raw)
  <2>1. row.transform \in Valued => Cell(t, row.cell) = ValueOf(t, row, raw)
    BY DEF Wants
  <2>2. row.transform \in Valued => ValueOf(u, row, raw) = ValueOf(t, row, raw)
    BY DEF Valued, ValueOf, Reads
  <2>3. QED
    BY <1>1, <2>1, <2>2
<1>3. row.transform = "global_mode_latch_update" => WantsLatch(u, row, raw)
  BY <1>1 DEF Wants, WantsLatch
<1>4. row.transform = "mode_updates_all_100_slot_flags" => WantsSlots(u, row, raw)
  BY <1>1 DEF Wants, WantsSlots, Reads
<1>5. row.transform = "run_mode_coupled_remap" => WantsRun(u, row, raw)
  BY <1>1 DEF Wants, WantsRun, Reads
<1>6. row.transform = "coupled_state_remap" => WantsCoupled(d, u, row, raw)
  BY <1>1 DEF Wants, WantsCoupled, Reads
<1>7. QED
  BY <1>1, <1>2, <1>3, <1>4, <1>5, <1>6 DEF Wants

\* A transformed row of an opcode against another row of it: the same transform is the same
\* place, and any other stays out of what the first one reads.
Undisturbed(p, q) ==
  \/ /\ q.transform = p.transform /\ q.cell = p.cell
     /\ q.coordinate = p.coordinate /\ (q.kind = "bit" <=> p.kind = "bit")
  \/ /\ Touched(q) \cap Reads(p) = {}
     /\ p.transform \in {"global_mode_latch_update", "global_mode_latch_projection"} =>
          q.transform # "global_mode_latch_update"
     /\ p.transform = "mode_updates_all_100_slot_flags" =>
          q.transform # "mode_updates_all_100_slot_flags"

LEMMA Undisturbed94 ==
  ASSUME NEW p \in M94Row, NEW q \in M94Row, p.opcode = q.opcode, p.transform # "none"
  PROVE  Undisturbed(p, q)
<1>1. Seat94(p) /\ (q.transform # "none" => Seat94(q)) /\ (q.transform = "none" => Plain94(q))
  BY DEF M94Row
<1>2. q.kind = "bit" <=> p.kind = "bit"
  BY DEF M94Row
<1>3. CASE q.transform = p.transform
  <2>1. q.cell = p.cell /\ q.coordinate = p.coordinate
    BY <1>1, <1>3 DEF Seat94
  <2>2. QED
    BY <1>2, <1>3, <2>1 DEF Undisturbed
<1>4. CASE q.transform # "none" /\ q.transform # p.transform
  <2>1. p.opcode \in {\h21, \h71}
    BY <1>1, <1>4 DEF Seat94
  <2>2. q.cell # p.cell /\ q.transform # "global_mode_latch_update"
    BY <1>1, <1>4 DEF Seat94
  <2>3. p.transform \notin {"mode_value_remap", "run_mode_coupled_remap", "coupled_state_remap"}
        /\ q.transform \notin {"mode_value_remap", "run_mode_coupled_remap", "coupled_state_remap"}
    BY DEF M94Row
  <2>4. /\ p.transform = "mode_updates_all_100_slot_flags" => p.cell = \h0b /\ q.cell = \h0f
        /\ q.transform = "mode_updates_all_100_slot_flags" => q.cell = \h0b /\ p.cell = \h0f
    BY <1>1, <1>4 DEF Seat94
  <2>5. Touched(q) \cap Reads(p) = {}
    BY <1>4, <2>2, <2>3, <2>4 DEF Touched, Reads
  <2>6. QED
    BY <1>4, <2>2, <2>5 DEF Undisturbed
<1>5. CASE q.transform = "none"
  <2>1. Touched(q) = {q.cell}
    BY <1>5 DEF Touched
  <2>2. q.cell # p.cell
    BY <1>1, <1>5 DEF Seat94, Plain94
  <2>3. p.transform = "mode_updates_all_100_slot_flags" => p.cell = \h0b /\ q.cell # \h07
    BY <1>1, <1>5 DEF Seat94, Plain94, Place94
  <2>4. p.transform \notin {"mode_value_remap", "run_mode_coupled_remap", "coupled_state_remap"}
    BY DEF M94Row
  <2>5. Touched(q) \cap Reads(p) = {}
    BY <2>1, <2>2, <2>3, <2>4 DEF Reads
  <2>6. QED
    BY <1>5, <2>5 DEF Undisturbed
<1>6. QED
  BY <1>3, <1>4, <1>5

LEMMA Undisturbed115 ==
  ASSUME NEW p \in M115Row, NEW q \in M115Row, p.opcode = q.opcode,
         p.transform \notin {"none"} \cup Parts
  PROVE  Undisturbed(p, q)
<1>1. /\ Seat115(p)
      /\ q.transform \notin {"none"} \cup Parts => Seat115(q)
      /\ q.transform = "none" => Plain115(q)
  BY DEF M115Row
<1>2. q.kind = "bit" <=> p.kind = "bit"
  BY DEF M115Row
<1>3. q.transform \notin Parts
  <2>1. p.opcode # \h3d
    BY <1>1 DEF Seat115
  <2>2. QED
    BY <2>1 DEF M115Row
<1>4. CASE q.transform # "none"
  <2>1. q.transform = p.transform /\ q.cell = p.cell /\ q.coordinate = p.coordinate
    BY <1>1, <1>3, <1>4 DEF Seat115
  <2>2. QED
    BY <1>2, <2>1 DEF Undisturbed
<1>5. CASE q.transform = "none"
  <2>1. Touched(q) = {q.cell}
    BY <1>5 DEF Touched
  <2>2. q.cell \notin {\h05, \h06, \h09, \h0a, \h58} /\ p.cell \in {\h05, \h06, \h09, \h0a, \h58}
    BY <1>1, <1>5 DEF Seat115, Plain115
  <2>3. p.transform = "mode_updates_all_100_slot_flags" => p.cell = \h58 /\ q.cell # \h54
    BY <1>1, <1>5 DEF Seat115, Plain115, Place115
  <2>4. p.transform = "run_mode_coupled_remap" => p.cell = \h0a /\ q.cell # \h0d
    BY <1>1 DEF M115Row, Seat115
  <2>5. /\ p.transform = "coupled_state_remap" => p.cell = \h06
        /\ p.transform = "mode_value_remap" => p.cell = \h09
    BY <1>1 DEF Seat115
  <2>6. Touched(q) \cap Reads(p) = {}
    BY <2>1, <2>2, <2>3, <2>4, <2>5 DEF Reads
  <2>7. QED
    BY <1>5, <2>6 DEF Undisturbed
<1>6. QED
  BY <1>4, <1>5

\* Applying row q leaves to row p of the same frame what p wants.
LEMMA WantsKept ==
  ASSUME NEW d, NEW t, NEW p, NEW q, InTable(d, p), InTable(d, q), p.opcode = q.opcode,
         p.transform \notin Parts, q.transform \notin Parts,
         Ready(d, t, p.opcode), NEW data, RawFits(p, Raw(p, data)), RawFits(q, Raw(q, data)),
         Wants(d, t, p, Raw(p, data))
  PROVE  Wants(d, ApplyEntry(t, q, Raw(q, data)), p, Raw(p, data))
<1> DEFINE u == ApplyEntry(t, q, Raw(q, data))
<1>1. /\ t \in MapState /\ p \in Row /\ q \in Row
      /\ \/ p \in M94Row /\ q \in M94Row
         \/ p \in M115Row /\ q \in M115Row
  BY DEF Ready, InTable, M94Row, M115Row
<1>2. Local(t, u, q)
  BY <1>1, RowIsLocal
<1>3. DOMAIN t.cells \subseteq DOMAIN u.cells
  BY <1>2 DEF Local
<1>4. CASE p.transform = "none"
  <2>1. p.cell \in DOMAIN u.cells
    BY <1>3 DEF Wants
  <2>2. CleansRow(d, p) \/ ShownIn(u, p) = Raw(p, data)
    <3>1. Apart(p, q) /\ OneSource(p, q)
      BY <1>1, <1>4, RowsApart, OneSource94, OneSource115
    <3>2. CleansRow(d, p) \/ ShownIn(t, p) = Raw(p, data)
      BY <1>4 DEF Wants
    <3>3. QED
      BY <1>1, <1>4, <3>1, <3>2, PlainStays
  <2> HIDE DEF u
  <2>3. QED
    BY <1>4, <2>1, <2>2 DEF Wants, Valued, u
<1>5. CASE p.transform # "none"
  <2>1. Undisturbed(p, q)
    BY <1>1, <1>5, Undisturbed94, Undisturbed115 DEF Parts
  <2>2. CASE /\ q.transform = p.transform /\ q.cell = p.cell
             /\ q.coordinate = p.coordinate /\ (q.kind = "bit" <=> p.kind = "bit")
    <3>1. Raw(p, data) = Raw(q, data)
      BY <2>2 DEF Raw, Delta
    <3>2. Wants(d, u, q, Raw(q, data))
      BY RowRests
    <3> HIDE DEF u
    <3>3. QED
      BY <1>5, <2>2, <3>1, <3>2
      DEF Wants, Valued, ValueOf, WantsLatch, WantsSlots, WantsRun, WantsCoupled, u
  <2>3. CASE /\ Touched(q) \cap Reads(p) = {}
             /\ p.transform \in {"global_mode_latch_update", "global_mode_latch_projection"} =>
                  q.transform # "global_mode_latch_update"
             /\ p.transform = "mode_updates_all_100_slot_flags" =>
                  q.transform # "mode_updates_all_100_slot_flags"
    <3>1. Reads(p) \subseteq Int
      BY <1>1 DEF Reads, Row, U8
    <3>2. \A c \in Reads(p) : Cell(u, c) = Cell(t, c)
      BY <1>2, <2>3, <3>1 DEF Local
    <3>3. /\ p.transform \in {"global_mode_latch_update", "global_mode_latch_projection"} =>
               u.modeLatch = t.modeLatch
          /\ p.transform = "mode_updates_all_100_slot_flags" => u.slotFlags = t.slotFlags
      BY <1>2, <2>3 DEF Local
    <3> HIDE DEF u
    <3>4. QED
      BY <1>3, <1>5, <3>2, <3>3, WantsLike DEF u
  <2>4. QED
    BY <2>1, <2>2, <2>3 DEF Undisturbed
<1>6. QED
  BY <1>4, <1>5

LEMMA WantsCleaned ==
  ASSUME NEW d, NEW t, NEW p, InTable(d, p), p.transform \notin Parts,
         Ready(d, t, p.opcode), NEW raw, Wants(d, t, p, raw)
  PROVE  Wants(d, Cleaned(d, t), p, raw)
<1> DEFINE u == Cleaned(d, t)
<1>1. t \in MapState
  BY DEF Ready
<1>2. /\ u \in MapState /\ SameLatches(t, u)
      /\ ~Cleans(d) => u = t
      /\ Cleans(d) =>
           /\ \A c \in {\h06, \h11, \h44} : Cell(u, c) = 0
           /\ Cell(u, \h42) = WithBit(Cell(t, \h42), 1, 0)
           /\ \A c \in Int \ OwnCells : Cell(u, c) = Cell(t, c)
           /\ DOMAIN u.cells = DOMAIN t.cells \cup OwnCells
  BY <1>1, CleanedIs DEF OwnCells
<1> HIDE DEF u
<1>3. CASE ~Cleans(d)
  BY <1>2, <1>3 DEF u
<1>4. CASE Cleans(d)
  <2>1. p \in M115Row /\ p \in Row /\ p.cell \in Int
    BY <1>4 DEF Cleans, InTable, M115Row, Row, U8
  <2>2. DOMAIN t.cells \subseteq DOMAIN u.cells
    BY <1>2, <1>4
  <2>3. CASE p.transform = "none"
    <3>1. p.cell \in DOMAIN u.cells
      BY <2>2 DEF Wants
    <3>2. CleansRow(d, p) \/ ShownIn(t, p) = raw
      BY <2>3 DEF Wants
    <3>3. CASE CleansRow(d, p)
      BY <2>3, <3>1, <3>3 DEF Wants, Valued, u
    <3>4. CASE ~CleansRow(d, p) /\ p.cell # \h42
      <4>1. p.cell \notin OwnCells
        BY <1>4, <2>1, <2>3, <3>4 DEF CleansRow, OwnCells, M115Row
      <4>2. ShownIn(u, p) = ShownIn(t, p)
        BY <1>2, <1>4, <2>1, <4>1 DEF ShownIn
      <4>3. QED
        BY <2>3, <3>1, <3>2, <3>4, <4>2 DEF Wants, Valued, u
    <3>5. CASE ~CleansRow(d, p) /\ p.cell = \h42
      <4>1. p.kind = "bit" /\ p.bit \in 0 .. 7 \ {1}
        BY <1>4, <2>1, <3>5 DEF CleansRow, M115Row, Row
      <4>2. Cell(t, \h42) \in U8
        BY <1>1, CellTyped
      <4>3. BitOf(Cell(u, \h42), p.bit) = BitOf(Cell(t, \h42), p.bit)
        BY <1>2, <1>4, <4>1, <4>2, BitWritten
      <4>4. ShownIn(u, p) = ShownIn(t, p)
        BY <3>5, <4>1, <4>3 DEF ShownIn
      <4>5. QED
        BY <2>3, <3>1, <3>2, <3>5, <4>4 DEF Wants, Valued, u
    <3>6. QED
      BY <3>3, <3>4, <3>5
  <2>4. CASE p.transform = "coupled_state_remap"
    <3>1. p.cell = \h06 /\ p.cell + 3 = \h09 /\ \h09 \in Int \ OwnCells
      BY <2>1, <2>4 DEF M115Row, OwnCells
    <3>2. WantsCoupled(d, t, p, raw) /\ p.cell \in DOMAIN u.cells
      BY <2>2, <2>4 DEF Wants
    <3>3. WantsCoupled(d, u, p, raw)
      BY <1>2, <1>4, <2>2, <3>1, <3>2 DEF WantsCoupled
    <3>4. QED
      BY <2>4, <3>2, <3>3 DEF Wants, Valued, u
  <2>5. CASE p.transform \notin {"none", "coupled_state_remap"}
    <3>1. Seat115(p)
      BY <2>1, <2>5 DEF M115Row
    <3>2. \A c \in Reads(p) : Cell(u, c) = Cell(t, c)
      <4>1. CASE p.transform = "mode_value_remap"
        <5>1. p.opcode = \h7d /\ p.cell = \h09 /\ Reads(p) = {\h09, \h06}
          BY <3>1, <4>1 DEF Seat115, Reads
        <5>2. Cell(t, \h06) = 0 /\ Cell(u, \h06) = 0
          BY <1>2, <1>4, <5>1 DEF Ready
        <5>3. \h09 \in Int \ OwnCells
          BY DEF OwnCells
        <5>4. QED
          BY <1>2, <1>4, <5>1, <5>2, <5>3
      <4>2. CASE p.transform # "mode_value_remap"
        <5>1. p.transform = "boolean_to_magic_aa55" => Reads(p) = {\h05}
          BY <3>1 DEF Seat115, Reads
        <5>2. p.transform = "run_mode_coupled_remap" => Reads(p) = {\h0a, \h0d}
          BY <3>1 DEF Seat115, Reads
        <5>3. p.transform = "mode_updates_all_100_slot_flags" => Reads(p) = {\h58, \h54}
          BY <3>1 DEF Seat115, Reads
        <5>4. Reads(p) \subseteq Int \ OwnCells
          BY <2>5, <3>1, <4>2, <5>1, <5>2, <5>3 DEF Seat115, OwnCells
        <5>5. QED
          BY <1>2, <1>4, <5>4
      <4>3. QED
        BY <4>1, <4>2
    <3>3. u.modeLatch = t.modeLatch /\ u.slotFlags = t.slotFlags
      BY <1>2 DEF SameLatches
    <3>4. QED
      BY <2>2, <2>5, <3>2, <3>3, WantsLike DEF u
  <2>6. QED
    BY <2>3, <2>4, <2>5
<1>5. QED
  BY <1>3, <1>4
-----------------------------------------------------------------------------
(* A frame again, without errors spread over rows.                         *)

LEMMA RestartedReady ==
  ASSUME NEW d, NEW s, NEW frame, Ready(d, s, frame.opcode)
  PROVE  Ready(d, Restarted(s, frame), frame.opcode)
<1> DEFINE t == Restarted(s, frame)
<1>1. s \in MapState
  BY DEF Ready
<1>2. /\ t \in MapState /\ t.cells = s.cells
      /\ t.slotFlags = s.slotFlags /\ t.modeLatch = s.modeLatch
  BY <1>1, RestartedIs
<1> HIDE DEF t
<1>3. \A c : Cell(t, c) = Cell(s, c)
  BY <1>2 DEF Cell
<1>4. s \in Good94 => t \in Good94
  BY <1>2, <1>3 DEF Good94, SlotsEqual
<1>5. s \in Good115 => t \in Good115
  BY <1>2, <1>3 DEF Good115, SlotsEqual
<1>6. QED
  BY <1>2, <1>3, <1>4, <1>5 DEF Ready, t

NoParts(d, frame) == \A j \in Matched(d, frame) : Table(d)[j].transform \notin Parts

LEMMA MatchedFit ==
  ASSUME NEW d, NEW frame \in Frame, Accepts(d, frame), NEW j \in Matched(d, frame)
  PROVE  /\ InTable(d, Table(d)[j]) /\ Table(d)[j].opcode = frame.opcode
         /\ RawFits(Table(d)[j], Raw(Table(d)[j], frame.data))
<1>1. d.profile = "M94" \/ d.profile = "M115"
  BY TableIs DEF Accepts
<1>2. QED
  BY <1>1, MatchedAre DEF InTable

\* What one row of a frame brings about stays, if every row keeps it.
LEMMA RowsReach ==
  ASSUME NEW d, NEW s, NEW frame \in Frame, Accepts(d, frame), NEW i \in Matched(d, frame),
         NEW R, NEW S \in SUBSET R, Restarted(s, frame) \in R,
         \A j \in Matched(d, frame) : \A t \in R :
           ApplyEntry(t, Table(d)[j], Raw(Table(d)[j], frame.data)) \in R,
         \A j \in Matched(d, frame) : \A t \in S :
           ApplyEntry(t, Table(d)[j], Raw(Table(d)[j], frame.data)) \in S,
         \A t \in R : ApplyEntry(t, Table(d)[i], Raw(Table(d)[i], frame.data)) \in S
  PROVE  RowsApplied(d, s, frame) \in S
<1> DEFINE n == Len(Table(d))
<1>1. Fits(d, frame, n) /\ n \in Nat /\ i \in 1 .. n
  BY MatchedAre DEF Fits
<1> HIDE DEF n
<1>2. PICK f : Applies(f, d, s, frame, n) /\ RowsApplied(d, s, frame) = f[n]
  BY <1>1, RowsInOrder
<1> DEFINE T == {j \in 0 .. n : f[j] \in R /\ (i <= j => f[j] \in S)}
<1>3. 0 \in T
  BY <1>1, <1>2 DEF Applies
<1>4. ASSUME NEW j \in 1 .. n, j - 1 \in T
      PROVE  j \in T
  <2>1. f[j - 1] \in R /\ (i <= j - 1 => f[j - 1] \in S) /\ j \in 0 .. n
    BY <1>1, <1>4
  <2>2. CASE j \notin Matched(d, frame)
    <3>1. f[j] = f[j - 1]
      BY <1>2, <2>2 DEF Applies
    <3>2. i <= j => i <= j - 1
      BY <1>1, <2>2
    <3>3. QED
      BY <2>1, <3>1, <3>2
  <2>3. CASE j \in Matched(d, frame)
    <3>1. f[j] = ApplyEntry(f[j - 1], Table(d)[j], Raw(Table(d)[j], frame.data))
      BY <1>2, <2>3 DEF Applies
    <3>2. i <= j => i = j \/ i <= j - 1
      BY <1>1
    <3>3. QED
      BY <2>1, <2>3, <3>1, <3>2
  <2>4. QED
    BY <2>2, <2>3
<1>5. n \in 0 .. n /\ 0 .. n \subseteq T
  <2> HIDE DEF T
  <2> QED
    BY <1>1, <1>3, <1>4, PlaceInduction
<1>6. QED
  BY <1>1, <1>2, <1>5

\* After all rows of a frame each of them has what it wants.
LEMMA RowsWant ==
  ASSUME NEW d, NEW s, NEW frame \in Frame, Accepts(d, frame), Ready(d, s, frame.opcode),
         NoParts(d, frame), NEW i \in Matched(d, frame)
  PROVE  /\ Ready(d, RowsApplied(d, s, frame), frame.opcode)
         /\ Wants(d, RowsApplied(d, s, frame), Table(d)[i], Raw(Table(d)[i], frame.data))
<1> DEFINE p == Table(d)[i]
           R == {t \in MapState : Ready(d, t, frame.opcode)}
           S == {t \in R : Wants(d, t, p, Raw(p, frame.data))}
<1>1. /\ InTable(d, p) /\ p.opcode = frame.opcode /\ RawFits(p, Raw(p, frame.data))
      /\ p.transform \notin Parts
  BY MatchedFit DEF NoParts
<1>2. Restarted(s, frame) \in R
  BY RestartedReady DEF Ready
<1>3. ASSUME NEW j \in Matched(d, frame), NEW t \in R
      PROVE  /\ ApplyEntry(t, Table(d)[j], Raw(Table(d)[j], frame.data)) \in R
             /\ t \in S => ApplyEntry(t, Table(d)[j], Raw(Table(d)[j], frame.data)) \in S
  <2> DEFINE q == Table(d)[j]
  <2>1. /\ InTable(d, q) /\ q.opcode = frame.opcode /\ RawFits(q, Raw(q, frame.data))
        /\ q.transform \notin Parts
    BY MatchedFit DEF NoParts
  <2>2. Ready(d, t, q.opcode) /\ Ready(d, t, p.opcode)
    BY <1>1, <2>1
  <2> HIDE DEF p, q
  <2>3. Ready(d, ApplyEntry(t, q, Raw(q, frame.data)), frame.opcode)
    BY <2>1, <2>2, RowKeepsReady
  <2>4. Wants(d, t, p, Raw(p, frame.data)) =>
          Wants(d, ApplyEntry(t, q, Raw(q, frame.data)), p, Raw(p, frame.data))
    BY <1>1, <2>1, <2>2, WantsKept
  <2>5. QED
    BY <2>3, <2>4 DEF Ready, q
<1>4. ASSUME NEW t \in R
      PROVE  ApplyEntry(t, p, Raw(p, frame.data)) \in S
  <2>1. Ready(d, t, p.opcode)
    BY <1>1
  <2>2. ApplyEntry(t, p, Raw(p, frame.data)) \in R
    BY <1>3
  <2> HIDE DEF p, R
  <2>3. Wants(d, ApplyEntry(t, p, Raw(p, frame.data)), p, Raw(p, frame.data))
    BY <1>1, <2>1, RowRests
  <2>4. QED
    BY <2>2, <2>3
<1>5. S \in SUBSET R
  OBVIOUS
<1> HIDE DEF R, S
<1>6. RowsApplied(d, s, frame) \in S
  BY <1>2, <1>3, <1>4, <1>5, RowsReach
<1>7. QED
  BY <1>6 DEF S, R

LEMMA CleanedTwice ==
  ASSUME NEW d, NEW t \in MapState
  PROVE  Cleaned(d, Cleaned(d, t)) = Cleaned(d, t)
<1> DEFINE u == Cleaned(d, t)
<1>1. /\ u \in MapState /\ SameLatches(t, u)
      /\ ~Cleans(d) => u = t
      /\ Cleans(d) =>
           /\ Cell(u, \h42) = WithBit(Cell(t, \h42), 1, 0)
           /\ \A c \in Int \ OwnCells : Cell(u, c) = Cell(t, c)
           /\ DOMAIN u.cells = DOMAIN t.cells \cup OwnCells
  BY CleanedIs DEF OwnCells
<1> HIDE DEF u
<1>2. CASE ~Cleans(d)
  BY <1>1, <1>2 DEF u
<1>3. CASE Cleans(d)
  <2>1. Cell(t, \h42) \in U8 /\ 1 \in 0 .. 7 /\ 0 \in 0 .. 1
    BY CellTyped
  <2>2. \A k \in 0 .. 7 \ {1} : BitOf(Cell(u, \h42), k) = BitOf(Cell(t, \h42), k)
    BY <1>1, <1>3, <2>1, BitWritten
  <2>3. DOMAIN u.cells \cup OwnCells = DOMAIN t.cells \cup OwnCells
    BY <1>1, <1>3
  <2>4. QED
    BY <1>1, <1>3, <2>2, <2>3, CleanedSame DEF u
<1>4. QED
  BY <1>2, <1>3

\* Without parts of the error the latch that a restart clears is still clear afterwards.
LEMMA LatchUntouched ==
  ASSUME NEW d, NEW s \in MapState, NEW frame \in Frame, Accepts(d, frame), NoParts(d, frame)
  PROVE  Restarted(Decoded(d, s, frame), frame) = Decoded(d, s, frame)
<1> DEFINE e == Decoded(d, s, frame)
           a == RowsApplied(d, s, frame)
<1>1. a \in MapState
  BY RowsTyped
<1>2. e = Cleaned(d, a)
  BY DEF Decoded
<1>3. e \in MapState /\ e.errorLatch = a.errorLatch
  BY <1>1, <1>2, CleanedIs DEF SameLatches
<1> HIDE DEF e
<1>4. CASE frame.opcode = \h3d /\ frame.data[1] = 0
  <2> DEFINE S == {t \in MapState : ~t.errorLatch}
  <2>1. Restarted(s, frame) \in S
    <3>1. Restarted(s, frame) = [s EXCEPT !.errorLatch = FALSE]
      BY <1>4 DEF Restarted
    <3>2. QED
      BY <3>1, RestartedIs DEF MapState
  <2>2. ASSUME NEW j \in Matched(d, frame), NEW t \in S
        PROVE  ApplyEntry(t, Table(d)[j], Raw(Table(d)[j], frame.data)) \in S
    <3>1. Table(d)[j] \in Row /\ RawFits(Table(d)[j], Raw(Table(d)[j], frame.data))
      BY MatchedAre
    <3>2. Table(d)[j].transform \notin Parts
      BY DEF NoParts
    <3>3. QED
      BY <3>1, <3>2, RowIsLocal DEF Local, Parts
  <2> HIDE DEF S
  <2>3. a \in S
    BY <2>1, <2>2, RowsKeep
  <2>4. ~e.errorLatch
    BY <1>3, <2>3 DEF S
  <2>5. [e EXCEPT !.errorLatch = FALSE] = e
    BY <1>3, <2>4 DEF MapState
  <2>6. QED
    BY <1>4, <2>5 DEF Restarted, e
<1>5. CASE ~(frame.opcode = \h3d /\ frame.data[1] = 0)
  BY <1>5 DEF Restarted, e
<1>6. QED
  BY <1>4, <1>5

RunsSix(d, frame) ==
  \E j \in Matched(d, frame) :
    Table(d)[j].transform = "run_mode_coupled_remap" /\ Raw(Table(d)[j], frame.data) = 6

LEMMA RestsAgain ==
  ASSUME NEW d, NEW s, NEW frame \in Frame, Accepts(d, frame), Ready(d, s, frame.opcode),
         NoParts(d, frame), Ready(d, Decoded(d, s, frame), frame.opcode)
  PROVE  \/ Decoded(d, Decoded(d, s, frame), frame) = Decoded(d, s, frame)
         \/ /\ RunsSix(d, frame)
            /\ Decoded(d, Decoded(d, s, frame), frame) = Put(Decoded(d, s, frame), \h0a, 5)
<1> DEFINE e == Decoded(d, s, frame)
           a == RowsApplied(d, s, frame)
           raw(j) == Raw(Table(d)[j], frame.data)
           S == {t \in MapState :
                   /\ Ready(d, t, frame.opcode)
                   /\ \A j \in Matched(d, frame) : Wants(d, t, Table(d)[j], raw(j))
                   /\ \/ Cleaned(d, t) = e
                      \/ RunsSix(d, frame) /\ Cleaned(d, t) = Put(e, \h0a, 5)}
<1>1. s \in MapState
  BY DEF Ready
<1>2. a \in MapState /\ e = Cleaned(d, a)
  BY <1>1, RowsTyped DEF Decoded
<1>3. e \in MapState /\ Cleaned(d, e) = e
  BY <1>2, CleanedIs, CleanedTwice
<1>4. Restarted(e, frame) = e
  BY <1>1, LatchUntouched
<1>5. \A j \in Matched(d, frame) : Wants(d, e, Table(d)[j], raw(j))
  <2> SUFFICES ASSUME NEW j \in Matched(d, frame) PROVE Wants(d, e, Table(d)[j], raw(j))
    OBVIOUS
  <2>1. Wants(d, a, Table(d)[j], raw(j)) /\ Ready(d, a, frame.opcode)
    BY RowsWant
  <2>3. InTable(d, Table(d)[j]) /\ Table(d)[j].opcode = frame.opcode
    BY MatchedFit
  <2>4. Table(d)[j].transform \notin Parts
    BY DEF NoParts
  <2> HIDE DEF a, e
  <2>5. QED
    BY <1>2, <2>1, <2>3, <2>4, WantsCleaned
<1> HIDE DEF e, a
<1>6. Restarted(e, frame) \in S
  BY <1>3, <1>4, <1>5 DEF e
<1>7. ASSUME NEW j \in Matched(d, frame), NEW t \in S
      PROVE  ApplyEntry(t, Table(d)[j], Raw(Table(d)[j], frame.data)) \in S
  <2> DEFINE q == Table(d)[j]
             u == ApplyEntry(t, q, Raw(q, frame.data))
  <2>1. /\ InTable(d, q) /\ q.opcode = frame.opcode /\ RawFits(q, Raw(q, frame.data))
        /\ q.transform \notin Parts
    BY MatchedFit DEF NoParts
  <2>2. Ready(d, t, frame.opcode) /\ Wants(d, t, q, Raw(q, frame.data))
    OBVIOUS
  <2>3. Ready(d, u, frame.opcode)
    <3> HIDE DEF q
    <3> QED
      BY <2>1, <2>2, RowKeepsReady
  <2>4. u \in MapState
    BY <2>3 DEF Ready
  <2>5. ASSUME NEW i \in Matched(d, frame)
        PROVE  Wants(d, u, Table(d)[i], raw(i))
    <3> DEFINE p == Table(d)[i]
    <3>1. /\ InTable(d, p) /\ p.opcode = frame.opcode /\ RawFits(p, Raw(p, frame.data))
          /\ p.transform \notin Parts
      BY MatchedFit DEF NoParts
    <3>2. Wants(d, t, p, Raw(p, frame.data))
      OBVIOUS
    <3> HIDE DEF p, q
    <3>3. Wants(d, u, p, Raw(p, frame.data))
      BY <2>1, <2>2, <3>1, <3>2, WantsKept
    <3>4. QED
      BY <3>3 DEF p
  <2>6. \/ Cleaned(d, u) = Cleaned(d, t)
        \/ RunsSix(d, frame) /\ Cleaned(d, u) = Put(Cleaned(d, t), \h0a, 5)
    <3>1. \/ Cleaned(d, u) = Cleaned(d, t)
          \/ /\ q.transform = "run_mode_coupled_remap" /\ Raw(q, frame.data) = 6
             /\ Cleaned(d, u) = Put(Cleaned(d, t), \h0a, 5)
      <4> HIDE DEF q
      <4> QED
        BY <2>1, <2>2, RowRests
    <3>2. q.transform = "run_mode_coupled_remap" /\ Raw(q, frame.data) = 6 => RunsSix(d, frame)
      BY DEF RunsSix
    <3>3. QED
      BY <3>1, <3>2
  <2>7. Put(Put(e, \h0a, 5), \h0a, 5) = Put(e, \h0a, 5)
    <3>1. \h0a \in U8 /\ 5 \in U8 /\ \h0a \in Int
      BY DEF U8
    <3>2. /\ Put(e, \h0a, 5) \in MapState /\ Cell(Put(e, \h0a, 5), \h0a) = 5
          /\ \h0a \in DOMAIN Put(e, \h0a, 5).cells
      BY <1>3, <3>1, PutIs
    <3>3. QED
      BY <3>1, <3>2, PutSame
  <2>8. \/ Cleaned(d, t) = e
        \/ RunsSix(d, frame) /\ Cleaned(d, t) = Put(e, \h0a, 5)
    OBVIOUS
  <2> HIDE DEF u, q
  <2>9. \/ Cleaned(d, u) = e
        \/ RunsSix(d, frame) /\ Cleaned(d, u) = Put(e, \h0a, 5)
    BY <2>6, <2>7, <2>8
  <2>10. u \in S
    BY <2>3, <2>4, <2>5, <2>9
  <2>11. QED
    BY <2>10 DEF u, q
<1> HIDE DEF S
<1>8. RowsApplied(d, e, frame) \in S
  BY <1>6, <1>7, RowsKeep
<1>9. \/ Cleaned(d, RowsApplied(d, e, frame)) = e
      \/ RunsSix(d, frame) /\ Cleaned(d, RowsApplied(d, e, frame)) = Put(e, \h0a, 5)
  BY <1>8 DEF S
<1>10. QED
  BY <1>9 DEF Decoded, e
-----------------------------------------------------------------------------
(* A frame with the parts of the error again.                              *)

LEMMA SpreadRows ==
  ASSUME NEW row \in M115Row, row.opcode = \h3d
  PROVE  /\ row \in Row /\ row.kind = "bit" /\ row.cell \in {0, \h53, \h54}
         /\ row.bit \in 0 .. 7 /\ Touched(row) = {row.cell}
         /\ row.transform = "none" \/ row.transform \in Parts
         /\ row.transform = "none" => ~(row.cell = \h53 /\ row.bit = 0)
         /\ row.transform \in Parts => row.cell = \h53 /\ row.bit = 0
<1>1. row \in Row /\ row.kind = "bit" /\ row.bit \in 0 .. 7
  BY DEF M115Row, BitOpcodes115, Row
<1>2. row.transform \in {"none"} \cup Parts
  BY DEF M115Row, Seat115
<1>3. row.transform \in Parts => row.cell = \h53 /\ row.bit = 0
  BY DEF M115Row
<1>4. row.transform = "none" => row.cell \in {0, \h53, \h54} /\ ~(row.cell = \h53 /\ row.bit = 0)
  BY DEF M115Row, Plain115, Place115, Place115_3d, Parts
<1>5. Touched(row) = {row.cell}
  BY <1>2 DEF Touched, Parts
<1>6. QED
  BY <1>1, <1>2, <1>3, <1>4, <1>5

\* The cell of a row is there once the row was applied.
LEMMA RowsOccupy ==
  ASSUME NEW d, NEW s \in MapState, NEW frame \in Frame, Accepts(d, frame),
         NEW i \in Matched(d, frame)
  PROVE  Table(d)[i].cell \in DOMAIN RowsApplied(d, s, frame).cells
<1> DEFINE p == Table(d)[i]
           S == {t \in MapState : p.cell \in DOMAIN t.cells}
<1>1. ASSUME NEW j \in Matched(d, frame), NEW t \in MapState
      PROVE  LET u == ApplyEntry(t, Table(d)[j], Raw(Table(d)[j], frame.data))
             IN  u \in MapState /\ DOMAIN t.cells \subseteq DOMAIN u.cells
  <2>1. Table(d)[j] \in Row /\ RawFits(Table(d)[j], Raw(Table(d)[j], frame.data))
    BY MatchedAre
  <2>2. QED
    BY <2>1, RowIsLocal DEF Local
<1>2. ASSUME NEW t \in MapState
      PROVE  ApplyEntry(t, p, Raw(p, frame.data)) \in S
  <2> DEFINE raw == Raw(p, frame.data)
             w == Written(t, p, raw)
  <2>1. p \in Row /\ RawFits(p, raw)
    BY MatchedAre
  <2>2. ApplyEntry(t, p, raw) \in MapState
    BY <1>1
  <2> HIDE DEF p, raw
  <2>3. w \in MapState /\ DOMAIN w.cells = DOMAIN t.cells \cup {p.cell}
    BY <2>1, WrittenIs, WrittenAt DEF Local
  <2>4. Local(w, Transformed(w, p, raw), p)
    BY <2>1, <2>3, TransformedLocal DEF RawFits
  <2>5. p.cell \in DOMAIN ApplyEntry(t, p, raw).cells
    BY <2>3, <2>4 DEF Local, ApplyEntry
  <2>6. QED
    BY <2>2, <2>5 DEF raw
<1>3. Restarted(s, frame) \in MapState
  BY RestartedIs
<1>4. \A j \in Matched(d, frame) : \A t \in S :
        ApplyEntry(t, Table(d)[j], Raw(Table(d)[j], frame.data)) \in S
  BY <1>1
<1>5. S \in SUBSET MapState
  OBVIOUS
<1>6. \A j \in Matched(d, frame) : \A t \in MapState :
        ApplyEntry(t, Table(d)[j], Raw(Table(d)[j], frame.data)) \in MapState
  BY <1>1
<1> HIDE DEF S
<1>7. RowsApplied(d, s, frame) \in S
  BY <1>2, <1>3, <1>4, <1>5, <1>6, RowsReach
<1>8. QED
  BY <1>7 DEF S

\* Equal up to the error latch and the bit that carries the error.
Loosely(e, t) ==
  /\ t \in MapState /\ DOMAIN t.cells = DOMAIN e.cells
  /\ t.slotFlags = e.slotFlags /\ t.modeLatch = e.modeLatch
  /\ \A c \in Int \ {\h53} : Cell(t, c) = Cell(e, c)
  /\ \A k \in 1 .. 7 : BitOf(Cell(t, \h53), k) = BitOf(Cell(e, \h53), k)

LEMMA SpreadLoosely ==
  ASSUME NEW d, d.profile = "M115", NEW s \in MapState, NEW frame \in Frame, Accepts(d, frame),
         frame.opcode = \h3d
  PROVE  Loosely(Decoded(d, s, frame), RowsApplied(d, Decoded(d, s, frame), frame))
<1> DEFINE a == RowsApplied(d, s, frame)
           e == Decoded(d, s, frame)
           S == {t \in MapState : Loosely(e, t)}
<1>1. a \in MapState /\ e = Cleaned(d, a)
  BY RowsTyped DEF Decoded
<1>2. ASSUME NEW j \in Matched(d, frame)
      PROVE  /\ Table(d)[j] \in M115Row /\ Table(d)[j].opcode = \h3d
             /\ RawFits(Table(d)[j], Raw(Table(d)[j], frame.data))
             /\ Table(d)[j].cell \in DOMAIN e.cells
             /\ Table(d)[j].transform = "none" =>
                  ShownIn(e, Table(d)[j]) = Raw(Table(d)[j], frame.data)
  <2> DEFINE p == Table(d)[j]
  <2>1. p \in M115Row /\ p.opcode = \h3d /\ RawFits(p, Raw(p, frame.data))
    BY MatchedAre
  <2>2. p.cell \in DOMAIN a.cells
    BY RowsOccupy
  <2>3. p.transform = "none" => ShownIn(a, p) = Raw(p, frame.data)
    BY RowsSurvive
  <2> HIDE DEF a, e, p
  <2>4. p.cell \in Int \ {\h06, \h11, \h42, \h44}
    BY <2>1, SpreadRows
  <2>5. Cell(e, p.cell) = Cell(a, p.cell) /\ DOMAIN a.cells \subseteq DOMAIN e.cells
    BY <1>1, <2>4, CleanedIs
  <2>6. QED
    BY <2>1, <2>2, <2>3, <2>5 DEF ShownIn, p
<1>3. e \in MapState
  BY <1>1, CleanedIs
<1> HIDE DEF a, e
<1>4. Restarted(e, frame) \in S
  <2>1. \A c : Cell(Restarted(e, frame), c) = Cell(e, c)
    BY <1>3, RestartedIs DEF Cell
  <2>2. QED
    BY <1>3, <2>1, RestartedIs DEF Loosely
<1>5. ASSUME NEW j \in Matched(d, frame), NEW t \in S
      PROVE  ApplyEntry(t, Table(d)[j], Raw(Table(d)[j], frame.data)) \in S
  <2> DEFINE p == Table(d)[j]
             raw == Raw(p, frame.data)
             u == ApplyEntry(t, p, raw)
  <2>1. /\ p \in M115Row /\ p.opcode = \h3d /\ RawFits(p, raw) /\ p.cell \in DOMAIN e.cells
        /\ p.transform = "none" => ShownIn(e, p) = raw
    BY <1>2
  <2>2. t \in MapState /\ Loosely(e, t)
    OBVIOUS
  <2> HIDE DEF p, raw, u, S
  <2>3. /\ p \in Row /\ p.kind = "bit" /\ p.cell \in {0, \h53, \h54}
        /\ p.bit \in 0 .. 7 /\ Touched(p) = {p.cell}
        /\ p.transform = "none" \/ p.transform \in Parts
        /\ p.transform = "none" => ~(p.cell = \h53 /\ p.bit = 0)
        /\ p.transform \in Parts => p.cell = \h53 /\ p.bit = 0
    BY <2>1, SpreadRows
  <2>4. p.cell \in DOMAIN t.cells /\ p.cell \in U8
    BY <2>1, <2>2, <2>3 DEF Loosely, U8
  <2>5. CASE p.transform = "none"
    <3>1. BitOf(Cell(t, p.cell), p.bit) = BitOf(Cell(e, p.cell), p.bit)
      <4>1. CASE p.cell = \h53
        <5>1. p.bit \in 1 .. 7
          BY <2>3, <2>5, <4>1
        <5>2. QED
          BY <2>2, <4>1, <5>1 DEF Loosely
      <4>2. CASE p.cell # \h53
        <5>1. p.cell \in Int \ {\h53}
          BY <2>3, <4>2
        <5>2. QED
          BY <2>2, <5>1 DEF Loosely
      <4>3. QED
        BY <4>1, <4>2
    <3>2. BitOf(Cell(t, p.cell), p.bit) = raw
      BY <2>1, <2>3, <2>5, <3>1 DEF ShownIn
    <3>3. Cell(t, p.cell) \in U8
      BY <2>2, CellTyped
    <3>4. WithBit(Cell(t, p.cell), p.bit, raw) = Cell(t, p.cell)
      BY <2>3, <3>2, <3>3, BitRewritten
    <3>5. Becomes(t, Written(t, p, raw), p.cell, Cell(t, p.cell))
      BY <2>1, <2>2, <2>3, <3>4, WrittenBecomes
    <3>6. Written(t, p, raw) = t
      BY <2>2, <2>4, <3>5, BecomesSame
    <3>7. u = t
      BY <2>5, <3>6 DEF u, ApplyEntry, Transformed
    <3>8. QED
      BY <3>7 DEF u, raw, p
  <2>6. CASE p.transform \in Parts
    <3>1. Local(t, u, p)
      BY <2>1, <2>2, <2>3, RowIsLocal DEF u
    <3>2. p.cell = \h53 /\ p.bit = 0 /\ p.transform # "mode_updates_all_100_slot_flags"
          /\ p.transform # "global_mode_latch_update"
      BY <2>3, <2>6 DEF Parts
    <3>3. /\ u \in MapState /\ DOMAIN u.cells = DOMAIN t.cells
          /\ u.slotFlags = t.slotFlags /\ u.modeLatch = t.modeLatch
          /\ \A c \in Int \ {\h53} : Cell(u, c) = Cell(t, c)
      BY <2>3, <2>4, <3>1, <3>2 DEF Local
    <3>4. \A k \in 1 .. 7 : BitOf(Cell(u, \h53), k) = BitOf(Cell(t, \h53), k)
      <4> SUFFICES ASSUME NEW k \in 1 .. 7
                   PROVE  BitOf(Cell(u, \h53), k) = BitOf(Cell(t, \h53), k)
        OBVIOUS
      <4>1. k \in 0 .. 7 \ {p.bit} /\ p.transform \in {"none"} \cup Parts
        BY <2>6, <3>2
      <4>2. QED
        BY <2>1, <2>2, <2>3, <3>2, <4>1, OtherBitsKept DEF u
    <3>5. Loosely(e, u)
      BY <2>2, <3>3, <3>4 DEF Loosely
    <3>6. QED
      BY <3>3, <3>5 DEF u, raw, p, S
  <2>7. QED
    BY <2>3, <2>5, <2>6
<1> HIDE DEF S
<1>6. RowsApplied(d, e, frame) \in S
  BY <1>4, <1>5, RowsKeep
<1>7. QED
  BY <1>6 DEF S, e

\* A part of the error writes what it read to the bit; the finalizing row also clears the
\* latch if it reads an error.
LEMMA PartWrites ==
  ASSUME NEW t \in MapState, NEW row \in M115Row, NEW raw, RawFits(row, raw),
         row.transform = "aggregate_error_latch_part"
  PROVE  BitOf(Cell(ApplyEntry(t, row, raw), \h53), 0) = raw
<1> DEFINE w == Written(t, row, raw)
           u == ApplyEntry(t, row, raw)
<1>1. row \in Row /\ row.cell = \h53 /\ row.bit = 0 /\ row.kind = "bit" /\ raw \in 0 .. 1
  BY DEF M115Row, Parts, RawFits
<1>2. w \in MapState /\ Cell(w, \h53) = WithBit(Cell(t, \h53), 0, raw)
  BY <1>1, WrittenIs DEF Local
<1>3. u = [w EXCEPT !.errorLatch = @ \/ raw = 1]
  BY DEF ApplyEntry, Transformed
<1> HIDE DEF w, u
<1>4. Cell(u, \h53) = Cell(w, \h53)
  BY <1>2, <1>3 DEF MapState, Cell
<1>5. BitOf(WithBit(Cell(t, \h53), 0, raw), 0) = raw
  BY <1>1, CellTyped, BitWritten
<1>6. QED
  BY <1>2, <1>4, <1>5 DEF u

LEMMA FinalizedLatch ==
  ASSUME NEW t \in MapState, NEW row \in M115Row, NEW raw, RawFits(row, raw),
         row.transform = "aggregate_error_latch_finalize"
  PROVE  ApplyEntry(t, row, raw).errorLatch <=> raw = 0 /\ t.errorLatch
<1> DEFINE w == Written(t, row, raw)
           u == ApplyEntry(t, row, raw)
<1>1. row \in Row /\ row.cell = \h53 /\ raw \in 0 .. 1
  BY DEF M115Row, Parts, RawFits
<1>2. w \in MapState /\ w.errorLatch = t.errorLatch
  BY <1>1, WrittenIs DEF Local, SameLatches
<1>3. u = ErrorLatchFinalized(w, \h53, raw)
  BY <1>1 DEF ApplyEntry, Transformed
<1> HIDE DEF w, u
<1>4. CASE raw # 0
  <2>1. u = [w EXCEPT !.errorLatch = FALSE]
    BY <1>3, <1>4 DEF ErrorLatchFinalized
  <2>2. ~u.errorLatch
    BY <1>2, <2>1 DEF MapState
  <2>3. QED
    BY <1>4, <2>2 DEF u
<1>5. CASE raw = 0
  <2>1. u.errorLatch = w.errorLatch
    BY <1>2, <1>3, <1>5 DEF ErrorLatchFinalized, Put, MapState
  <2>2. QED
    BY <1>2, <1>5, <2>1 DEF u
<1>6. QED
  BY <1>4, <1>5

\* After the place of the finalizing row latch and bit stay.
LEMMA AfterFinalizing ==
  ASSUME NEW d, NEW s, NEW frame \in Frame, Accepts(d, frame),
         NEW f, NEW n, n = Len(Table(d)), Applies(f, d, s, frame, n),
         NEW k, Finalizes(Table(d), k), f[k] \in MapState
  PROVE  /\ f[n].errorLatch = f[k].errorLatch
         /\ BitOf(Cell(f[n], \h53), 0) = BitOf(Cell(f[k], \h53), 0)
<1> DEFINE Same(t) == /\ t \in MapState /\ t.errorLatch = f[k].errorLatch
                      /\ BitOf(Cell(t, \h53), 0) = BitOf(Cell(f[k], \h53), 0)
           T == {j \in 0 .. n : j < k \/ Same(f[j])}
<1>1. n \in Nat /\ k \in 1 .. n /\ \A j \in k + 1 .. n : Table(d)[j] \in After
  <2>1. Table(d) \in Seq(M115Row)
    BY DEF Finalizes
  <2>2. QED
    BY <2>1 DEF Finalizes
<1>2. Same(f[k])
  OBVIOUS
<1>3. ASSUME NEW j \in 1 .. n, k < j, Same(f[j - 1])
      PROVE  Same(f[j])
  <2> DEFINE row == Table(d)[j]
             raw == Raw(row, frame.data)
  <2>1. row \in After
    BY <1>1, <1>3
  <2>2. CASE j \in Matched(d, frame)
    <3>1. RawFits(row, raw) /\ row \in Row /\ f[j] = ApplyEntry(f[j - 1], row, raw)
      BY <2>2, MatchedAre DEF Applies
    <3> HIDE DEF row, raw
    <3>2. Local(f[j - 1], f[j], row)
      BY <1>3, <3>1, RowIsLocal
    <3>3. BitOf(Cell(f[j], \h53), 0) = BitOf(Cell(f[j - 1], \h53), 0)
      BY <1>3, <2>1, <3>1, ErrorBitStays
    <3>4. f[j] \in MapState /\ f[j].errorLatch = f[j - 1].errorLatch
      BY <2>1, <3>2 DEF Local, After, Parts
    <3>5. QED
      BY <1>3, <3>3, <3>4
  <2>3. CASE j \notin Matched(d, frame)
    <3>1. f[j] = f[j - 1]
      BY <2>3 DEF Applies
    <3>2. QED
      BY <1>3, <3>1
  <2>4. QED
    BY <2>2, <2>3
<1> HIDE DEF Same
<1>4. 0 \in T
  BY <1>1
<1>5. ASSUME NEW j \in 1 .. n, j - 1 \in T
      PROVE  j \in T
  <2>1. j < k \/ j = k \/ (k < j /\ k <= j - 1)
    BY <1>1
  <2>2. k <= j - 1 => Same(f[j - 1])
    BY <1>1, <1>5
  <2>3. QED
    BY <1>2, <1>3, <2>1, <2>2
<1>6. n \in T
  <2>1. n \in Nat /\ n \in 0 .. n
    BY <1>1
  <2> HIDE DEF T
  <2>2. 0 .. n \subseteq T
    BY <1>4, <1>5, <2>1, PlaceInduction
  <2>3. QED
    BY <2>1, <2>2
<1>7. Same(f[n])
  BY <1>1, <1>6
<1>8. QED
  BY <1>7 DEF Same

\* Two passes of one frame: up to the finalizing row the bit is the same in both, or the
\* second has not touched it yet.
LEMMA BitsBefore ==
  ASSUME NEW d, d.profile = "M115", NEW s \in MapState, NEW e \in MapState,
         NEW frame \in Frame, Accepts(d, frame), NEW f, NEW g, NEW n, n = Len(Table(d)),
         Applies(f, d, s, frame, n), Applies(g, d, e, frame, n),
         NEW k, Finalizes(Table(d), k)
  PROVE  \/ BitOf(Cell(g[k - 1], \h53), 0) = BitOf(Cell(f[k - 1], \h53), 0)
         \/ BitOf(Cell(g[k - 1], \h53), 0) = BitOf(Cell(e, \h53), 0)
<1> DEFINE bit(t) == BitOf(Cell(t, \h53), 0)
           T == {j \in 0 .. k - 1 : bit(g[j]) = bit(f[j]) \/ bit(g[j]) = bit(e)}
<1>1. n \in Nat /\ k \in 1 .. n /\ k - 1 \in Nat /\ \A j \in 1 .. k - 1 : Table(d)[j] \in Before
  <2>1. Table(d) \in Seq(M115Row)
    BY DEF Finalizes
  <2>2. QED
    BY <2>1 DEF Finalizes
<1>2. \A j \in 0 .. k - 1 : f[j] \in MapState /\ g[j] \in MapState
  BY LatchGathers
<1>3. 0 \in T
  <2>1. Cell(g[0], \h53) = Cell(e, \h53)
    BY RestartedIs DEF Applies, Cell
  <2>2. QED
    BY <1>1, <2>1
<1>4. ASSUME NEW j \in 1 .. k - 1, j - 1 \in T
      PROVE  j \in T
  <2> DEFINE row == Table(d)[j]
             raw == Raw(row, frame.data)
  <2>1. /\ j \in 1 .. n /\ j - 1 \in 0 .. k - 1 /\ j \in 0 .. k - 1 /\ row \in Before
        /\ f[j - 1] \in MapState /\ g[j - 1] \in MapState
        /\ bit(g[j - 1]) = bit(f[j - 1]) \/ bit(g[j - 1]) = bit(e)
    BY <1>1, <1>2, <1>4
  <2>2. CASE j \notin Matched(d, frame)
    <3>1. f[j] = f[j - 1] /\ g[j] = g[j - 1]
      BY <2>1, <2>2 DEF Applies
    <3>2. QED
      BY <2>1, <3>1
  <2>3. CASE j \in Matched(d, frame)
    <3>1. /\ f[j] = ApplyEntry(f[j - 1], row, raw) /\ g[j] = ApplyEntry(g[j - 1], row, raw)
          /\ RawFits(row, raw)
      BY <2>1, <2>3, MatchedAre DEF Applies
    <3>2. row \in M115Row
      BY <2>1 DEF Before
    <3> HIDE DEF row, raw
    <3>3. CASE row.transform = "aggregate_error_latch_part"
      <4>1. bit(f[j]) = raw /\ bit(g[j]) = raw
        BY <2>1, <3>1, <3>2, <3>3, PartWrites
      <4>2. QED
        BY <2>1, <4>1
    <3>4. CASE row.transform # "aggregate_error_latch_part"
      <4>1. row \in After
        BY <2>1, <3>2, <3>4 DEF After, Before, Parts
      <4>2. bit(f[j]) = bit(f[j - 1]) /\ bit(g[j]) = bit(g[j - 1])
        BY <2>1, <3>1, <4>1, ErrorBitStays
      <4>3. QED
        BY <2>1, <4>2
    <3>5. QED
      BY <3>3, <3>4
  <2>4. QED
    BY <2>2, <2>3
<1>5. k - 1 \in 0 .. k - 1 /\ 0 .. k - 1 \subseteq T
  <2> HIDE DEF T
  <2> QED
    BY <1>1, <1>3, <1>4, PlaceInduction
<1>6. QED
  BY <1>5

LEMMA SpreadTight ==
  ASSUME NEW d, d.profile = "M115", NEW s \in MapState, NEW frame \in Frame, Accepts(d, frame),
         frame.opcode = \h3d
  PROVE  LET e == Decoded(d, s, frame)
             b == RowsApplied(d, e, frame)
         IN  /\ b.errorLatch = e.errorLatch
             /\ BitOf(Cell(b, \h53), 0) = BitOf(Cell(e, \h53), 0)
<1> DEFINE n == Len(Table(d))
           a == RowsApplied(d, s, frame)
           e == Decoded(d, s, frame)
           b == RowsApplied(d, e, frame)
           bit(t) == BitOf(Cell(t, \h53), 0)
<1>1. PICK k : Finalizes(Table(d), k)
  <2>1. Table(d) = M115Entries
    BY DEF Table, Entries
  <2>2. QED
    BY <2>1, M115RowsAre
<1>2. Fits(d, frame, n) /\ n \in Nat
  BY MatchedAre DEF Fits
<1>3. k \in 1 .. n /\ k - 1 \in 0 .. k - 1
  BY <1>1, <1>2 DEF Finalizes
<1>4. a \in MapState /\ e = Cleaned(d, a)
  BY RowsTyped DEF Decoded
<1>5. e \in MapState /\ e.errorLatch = a.errorLatch /\ bit(e) = bit(a)
  <2> HIDE DEF a, e
  <2>1. Cell(e, \h53) = Cell(a, \h53)
    BY <1>4, CleanedIs
  <2>2. QED
    BY <1>4, <2>1, CleanedIs DEF SameLatches
<1> HIDE DEF e, n
<1>6. PICK f : Applies(f, d, s, frame, n) /\ a = f[n]
  BY <1>2, RowsInOrder
<1>7. PICK g : Applies(g, d, e, frame, n) /\ b = g[n]
  BY <1>2, RowsInOrder
<1> HIDE DEF a, b
<1> DEFINE Error == \E i \in 1 .. k - 1 : ReadsError(d, frame, i)
<1>8. /\ f[k - 1] \in MapState /\ g[k - 1] \in MapState
      /\ f[k - 1].errorLatch \in BOOLEAN /\ g[k - 1].errorLatch \in BOOLEAN
      /\ f[k - 1].errorLatch <=> f[0].errorLatch \/ Error
      /\ g[k - 1].errorLatch <=> g[0].errorLatch \/ Error
  BY <1>1, <1>3, <1>5, <1>6, <1>7, LatchGathers DEF n
<1> HIDE DEF Error
<1>9. \/ ~f[0].errorLatch /\ ~g[0].errorLatch
      \/ f[0] = s /\ g[0] = e
  <2>1. f[0] = Restarted(s, frame) /\ g[0] = Restarted(e, frame)
    BY <1>6, <1>7 DEF Applies
  <2>2. QED
    BY <1>5, <2>1 DEF Restarted, MapState
<1>10. bit(g[k - 1]) = bit(f[k - 1]) \/ bit(g[k - 1]) = bit(e)
  BY <1>1, <1>5, <1>6, <1>7, BitsBefore DEF n
<1> DEFINE row == Table(d)[k]
           raw == Raw(row, frame.data)
<1>11. CASE k \notin Matched(d, frame)
  <2>1. f[k] = f[k - 1] /\ g[k] = g[k - 1]
    BY <1>3, <1>6, <1>7, <1>11 DEF Applies
  <2>2. /\ f[n].errorLatch = f[k - 1].errorLatch /\ bit(f[n]) = bit(f[k - 1])
        /\ g[n].errorLatch = g[k - 1].errorLatch /\ bit(g[n]) = bit(g[k - 1])
    BY <1>1, <1>6, <1>7, <1>8, <2>1, AfterFinalizing DEF n
  <2>3. bit(g[n]) = bit(e)
    BY <1>5, <1>6, <1>10, <2>2
  <2>4. f[k - 1].errorLatch = e.errorLatch
    BY <1>5, <1>6, <2>2
  <2>5. g[k - 1].errorLatch = e.errorLatch
    BY <1>8, <1>9, <2>4
  <2>6. QED
    BY <1>7, <2>2, <2>3, <2>5 DEF e, b
<1>12. CASE k \in Matched(d, frame)
  <2>1. /\ f[k] = ApplyEntry(f[k - 1], row, raw) /\ g[k] = ApplyEntry(g[k - 1], row, raw)
        /\ row \in M115Row /\ row \in Row /\ RawFits(row, raw)
        /\ row.transform = "aggregate_error_latch_finalize"
    BY <1>1, <1>3, <1>6, <1>7, <1>12, MatchedAre DEF Applies, Finalizes
  <2> HIDE DEF row, raw
  <2>2. raw \in 0 .. 1
    BY <2>1 DEF RawFits, M115Row, Parts
  <2>3. f[k] \in MapState /\ g[k] \in MapState
    BY <1>8, <2>1, RowIsLocal DEF Local
  <2>4. /\ f[k].errorLatch <=> raw = 0 /\ f[k - 1].errorLatch
        /\ g[k].errorLatch <=> raw = 0 /\ g[k - 1].errorLatch
        /\ f[k].errorLatch \in BOOLEAN /\ g[k].errorLatch \in BOOLEAN
    BY <1>8, <2>1, <2>3, FinalizedLatch DEF MapState
  <2>5. /\ bit(f[k]) = 1 <=> raw = 1 \/ f[k - 1].errorLatch
        /\ bit(g[k]) = 1 <=> raw = 1 \/ g[k - 1].errorLatch
    BY <1>8, <2>1, Finalized
  <2>6. bit(f[k]) \in 0 .. 1 /\ bit(g[k]) \in 0 .. 1
    <3>1. Cell(f[k], \h53) \in Nat /\ Cell(g[k], \h53) \in Nat
      BY <2>3, CellTyped DEF U8
    <3>2. QED
      BY <3>1, BitTyped
  <2>7. /\ f[n].errorLatch = f[k].errorLatch /\ bit(f[n]) = bit(f[k])
        /\ g[n].errorLatch = g[k].errorLatch /\ bit(g[n]) = bit(g[k])
    BY <1>1, <1>6, <1>7, <2>3, AfterFinalizing DEF n
  <2>8. e.errorLatch = f[k].errorLatch
    BY <1>5, <1>6, <2>7
  <2>9. raw = 0 => g[k - 1].errorLatch = f[k - 1].errorLatch
    BY <1>8, <1>9, <2>4, <2>8
  <2>10. g[k].errorLatch = f[k].errorLatch
    BY <2>2, <2>4, <2>9
  <2> HIDE DEF bit
  <2>11. bit(g[k]) = bit(f[k])
    BY <2>2, <2>5, <2>6, <2>9
  <2>12. b.errorLatch = e.errorLatch /\ bit(b) = bit(e)
    BY <1>5, <1>6, <1>7, <2>7, <2>8, <2>10, <2>11
  <2>13. QED
    BY <2>12 DEF bit, e, b
<1>13. QED
  BY <1>11, <1>12

LEMMA SpreadAgain ==
  ASSUME NEW d, d.profile = "M115", NEW s \in MapState, NEW frame \in Frame, Accepts(d, frame),
         frame.opcode = \h3d
  PROVE  Decoded(d, Decoded(d, s, frame), frame) = Decoded(d, s, frame)
<1> DEFINE a == RowsApplied(d, s, frame)
           e == Decoded(d, s, frame)
           b == RowsApplied(d, e, frame)
<1>1. a \in MapState /\ e = Cleaned(d, a)
  BY RowsTyped DEF Decoded
<1>2. e \in MapState /\ Cleaned(d, e) = e
  BY <1>1, CleanedIs, CleanedTwice
<1>3. Loosely(e, b)
  BY SpreadLoosely
<1>4. b.errorLatch = e.errorLatch /\ BitOf(Cell(b, \h53), 0) = BitOf(Cell(e, \h53), 0)
  BY SpreadTight
<1> HIDE DEF a, e, b
<1>5. b \in MapState /\ DOMAIN b.cells = DOMAIN e.cells /\ SameLatches(e, b)
  BY <1>3, <1>4 DEF Loosely, SameLatches
<1>6. Cell(b, \h53) = Cell(e, \h53)
  <2>1. Cell(b, \h53) \in U8 /\ Cell(e, \h53) \in U8
    BY <1>2, <1>5, CellTyped
  <2>2. \A k \in 0 .. 7 : BitOf(Cell(b, \h53), k) = BitOf(Cell(e, \h53), k)
    <3>1. \A k \in 1 .. 7 : BitOf(Cell(b, \h53), k) = BitOf(Cell(e, \h53), k)
      BY <1>3 DEF Loosely
    <3>2. \A k \in 0 .. 7 : k = 0 \/ k \in 1 .. 7
      OBVIOUS
    <3>3. QED
      BY <1>4, <3>1, <3>2
  <2>3. QED
    BY <2>1, <2>2, BitsDetermine
<1>7. \A c \in DOMAIN e.cells : Cell(b, c) = Cell(e, c)
  <2>1. DOMAIN e.cells \subseteq U8
    BY <1>2 DEF MapState, PartialCells
  <2>2. DOMAIN e.cells \subseteq Int
    BY <2>1 DEF U8
  <2>3. QED
    BY <1>3, <1>6, <2>2 DEF Loosely
<1>8. b = e
  BY <1>2, <1>5, <1>7, StateIs
<1>9. QED
  BY <1>2, <1>8 DEF Decoded, e, b
-----------------------------------------------------------------------------
(* A frame again.                                                          *)

\* The latest accepted frame was applied to a state that was ready for it.
RestInv ==
  latest.accepted =>
    \E before : /\ Ready(decoder, before, latest.frame.opcode)
                /\ state = Decoded(decoder, before, latest.frame)

LEMMA StateReady ==
  ASSUME MapInv, CleanInv, NEW opcode
  PROVE  Ready(decoder, state, opcode)
BY DEF MapInv, CleanInv, Ready

LEMMA RestStep ==
  ASSUME MapInv, CleanInv, RestInv, [Next]_vars
  PROVE  RestInv'
<1>1. CASE UNCHANGED vars
  BY <1>1 DEF RestInv, vars
<1>2. ASSUME NEW frame \in Traffic[decoder.traffic], Apply(frame)
      PROVE  RestInv'
  <2>1. latest' = [frame |-> frame, accepted |-> Accepts(decoder, frame)] /\ decoder' = decoder
    BY <1>2 DEF Apply
  <2>2. CASE Accepts(decoder, frame)
    <3>1. state' = Decoded(decoder, state, frame)
      BY <1>2, <2>2 DEF Apply
    <3>2. Ready(decoder, state, frame.opcode)
      BY StateReady
    <3>3. QED
      BY <2>1, <3>1, <3>2 DEF RestInv
  <2>3. CASE ~Accepts(decoder, frame)
    <3>1. ~latest'.accepted
      BY <2>1, <2>3
    <3>2. QED
      BY <3>1 DEF RestInv
  <2>4. QED
    BY <2>2, <2>3
<1>3. QED
  BY <1>1, <1>2 DEF Next

LEMMA RestHarmless ==
  ASSUME MapInv, CleanInv, RestInv
  PROVE  RepeatIsHarmless
<1> SUFFICES ASSUME latest.accepted
             PROVE  LET again == Decoded(decoder, state, latest.frame)
                    IN  \/ again = state
                        \/ /\ \E row \in Read :
                                row.transform = "run_mode_coupled_remap" /\ RawOf(row) = 6
                           /\ again = Put(state, \h0a, 5)
  BY DEF RepeatIsHarmless
<1> DEFINE frame == latest.frame
<1>1. frame \in Frame /\ Accepts(decoder, frame)
  BY DEF MapInv
<1>2. PICK before : Ready(decoder, before, frame.opcode) /\ state = Decoded(decoder, before, frame)
  BY DEF RestInv
<1>3. before \in MapState
  BY <1>2 DEF Ready
<1>4. CASE NoParts(decoder, frame)
  <2>1. Ready(decoder, state, frame.opcode)
    BY StateReady
  <2> HIDE DEF frame
  <2>2. \/ Decoded(decoder, state, frame) = state
        \/ RunsSix(decoder, frame) /\ Decoded(decoder, state, frame) = Put(state, \h0a, 5)
    BY <1>1, <1>2, <1>4, <2>1, RestsAgain
  <2>3. ASSUME RunsSix(decoder, frame)
        PROVE  \E row \in Read : row.transform = "run_mode_coupled_remap" /\ RawOf(row) = 6
    <3>1. PICK j \in Matched(decoder, frame) :
            /\ Table(decoder)[j].transform = "run_mode_coupled_remap"
            /\ Raw(Table(decoder)[j], frame.data) = 6
      BY <2>3 DEF RunsSix
    <3>2. Table(decoder)[j] \in Read /\ RawOf(Table(decoder)[j]) = 6
      BY <3>1 DEF Read, RawOf, frame
    <3>3. QED
      BY <3>1, <3>2
  <2>4. QED
    BY <2>2, <2>3 DEF frame
<1>5. CASE ~NoParts(decoder, frame)
  <2> HIDE DEF frame
  <2>1. PICK j \in Matched(decoder, frame) : Table(decoder)[j].transform \in Parts
    BY <1>5 DEF NoParts
  <2>2. InTable(decoder, Table(decoder)[j]) /\ Table(decoder)[j].opcode = frame.opcode
    BY <1>1, MatchedFit
  <2>3. decoder.profile = "M115" /\ frame.opcode = \h3d
    BY <2>1, <2>2 DEF InTable, M94Row, M115Row, Parts
  <2>4. Decoded(decoder, state, frame) = state
    BY <1>1, <1>2, <1>3, <2>3, SpreadAgain
  <2>5. QED
    BY <2>4 DEF frame
<1>6. QED
  BY <1>4, <1>5

\* A repeated frame changes nothing, whichever frames came before it; only run mode 6 of M115
\* becomes mode 5 when it is repeated.
THEOREM RepeatHarmless == Spec => []RepeatIsHarmless
<1> DEFINE Inv == MapInv /\ CleanInv /\ RestInv
<1>1. Init => Inv
  <2>1. Init => RestInv
    BY DEF Init, RestInv
  <2>2. QED
    BY <2>1, MapInitially, CleanInitially
<1>2. Inv /\ [Next]_vars => Inv'
  BY MapStep, CleanStep, RestStep
<1>3. Inv => RepeatIsHarmless
  BY RestHarmless
<1> HIDE DEF Inv
<1>4. QED
  BY <1>1, <1>2, <1>3, PTL DEF Spec
=============================================================================
