------------------------------ MODULE CsimProof ------------------------------
(***************************************************************************)
(* Proofs about csim.c, for every geometry of the cache, every set of      *)
(* addresses and every length of trace: its type invariant, that lines do  *)
(* not alias, that it is an LRU cache, and that a cache with more lines    *)
(* holds what one with fewer holds.                                        *)
(*                                                                         *)
(* An event is seen as an access that takes one line of one set, whichever *)
(* of several lines the searches of the code settle on; the accesses of    *)
(* two caches over one trace are compared line by line.                    *)
(***************************************************************************)
EXTENDS CsimPair, FiniteSetTheorems, SequenceTheorems, WellFoundedInduction, TLAPS

(* Arithmetic of which_block: the set index is within the cache.           *)

(* The subsets of m + n things are those of m with those of n.             *)
LEMMA PowerSum ==
  ASSUME NEW m \in Nat, NEW n \in Nat
  PROVE  2 ^ (m + n) = 2 ^ m * 2 ^ n /\ 2 ^ m \in Nat
<1> DEFINE A == 1 .. m
           C == (m + 1) .. (m + n)
           f == [p \in (SUBSET A) \X (SUBSET C) |-> p[1] \union p[2]]
<1>1. /\ IsFiniteSet(A) /\ Cardinality(A) = m
      /\ IsFiniteSet(C) /\ Cardinality(C) = n
      /\ IsFiniteSet(A \union C) /\ Cardinality(A \union C) = m + n
  <2>1. A \union C = 1 .. (m + n)
    OBVIOUS
  <2>2. IsFiniteSet(A) /\ Cardinality(A) = m
    BY FS_Interval
  <2>3. IsFiniteSet(C) /\ Cardinality(C) = n
    BY FS_Interval
  <2>4. IsFiniteSet(1 .. (m + n)) /\ Cardinality(1 .. (m + n)) = m + n
    <3>1. m + n \in Nat /\ ~(1 > m + n /\ m + n # 0)
      OBVIOUS
    <3> DEFINE k == m + n
    <3>2. IsFiniteSet(1 .. k) /\ Cardinality(1 .. k) = IF 1 > k THEN 0 ELSE k - 1 + 1
      BY <3>1, FS_Interval, 1 \in Int
    <3> QED BY <3>1, <3>2
  <2> QED BY <2>1, <2>2, <2>3, <2>4
<1>2. /\ IsFiniteSet(SUBSET A) /\ Cardinality(SUBSET A) = 2 ^ m
      /\ IsFiniteSet(SUBSET C) /\ Cardinality(SUBSET C) = 2 ^ n
      /\ Cardinality(SUBSET (A \union C)) = 2 ^ (m + n)
  <2> HIDE DEF A, C
  <2>1. Cardinality(SUBSET A) = 2 ^ Cardinality(A) /\ IsFiniteSet(SUBSET A)
    BY <1>1, FS_SUBSET, Zenon
  <2>2. Cardinality(SUBSET C) = 2 ^ Cardinality(C) /\ IsFiniteSet(SUBSET C)
    BY <1>1, FS_SUBSET, Zenon
  <2>3. Cardinality(SUBSET (A \union C)) = 2 ^ Cardinality(A \union C)
    BY <1>1, FS_SUBSET, Zenon
  <2> QED BY <1>1, <2>1, <2>2, <2>3, Zenon
<1>3. A \cap C = {}
  OBVIOUS
<1> HIDE DEF A, C
<1>4. f \in Bijection((SUBSET A) \X (SUBSET C), SUBSET (A \union C))
  <2>1. f \in [(SUBSET A) \X (SUBSET C) -> SUBSET (A \union C)]
    OBVIOUS
  <2>2. ASSUME NEW p \in (SUBSET A) \X (SUBSET C), NEW q \in (SUBSET A) \X (SUBSET C),
               f[p] = f[q]
        PROVE  p = q
    <3>1. p[1] \union p[2] = q[1] \union q[2]
      BY <2>2
    <3>2. p[1] = q[1] /\ p[2] = q[2]
      BY <1>3, <3>1
    <3> QED BY <3>2
  <2>3. ASSUME NEW U \in SUBSET (A \union C)
        PROVE  \E p \in (SUBSET A) \X (SUBSET C) : f[p] = U
    <3>1. <<U \cap A, U \cap C>> \in (SUBSET A) \X (SUBSET C)
      OBVIOUS
    <3>2. f[<<U \cap A, U \cap C>>] = U
      BY <3>1
    <3> QED BY <3>1, <3>2
  <2> QED BY <2>1, <2>2, <2>3 DEF Bijection, Injection, IsInjective, Surjection
<1>5. Cardinality(SUBSET (A \union C)) = Cardinality((SUBSET A) \X (SUBSET C))
  <2>1. IsFiniteSet((SUBSET A) \X (SUBSET C))
    BY <1>2, FS_Product, Zenon
  <2>2. ExistsBijection((SUBSET A) \X (SUBSET C), SUBSET (A \union C))
    <3> HIDE DEF f
    <3> QED BY <1>4 DEF ExistsBijection
  <2> QED BY <2>1, <2>2, FS_Bijection, Zenon
<1>6. Cardinality((SUBSET A) \X (SUBSET C)) = Cardinality(SUBSET A) * Cardinality(SUBSET C)
  BY <1>2, FS_Product, Zenon
<1>7. Cardinality(SUBSET A) \in Nat
  BY <1>2, FS_CardinalityType, Zenon
<1> QED BY <1>2, <1>5, <1>6, <1>7, Zenon

(* So a power of two is not zero.                                          *)
LEMMA PowerPositive ==
  ASSUME NEW m \in Nat
  PROVE  2 ^ m \in Nat /\ 2 ^ m > 0
<1>1. 2 ^ m \in Nat
  BY PowerSum, 0 \in Nat, Zenon
<1>2. /\ IsFiniteSet(1 .. m) /\ Cardinality(1 .. m) = m
  BY FS_Interval
<1>3. IsFiniteSet(SUBSET (1 .. m)) /\ Cardinality(SUBSET (1 .. m)) = 2 ^ Cardinality(1 .. m)
  BY <1>2, FS_SUBSET, Zenon
<1>4. 2 ^ m # 0
  <2>1. SUBSET (1 .. m) # {}
    OBVIOUS
  <2> QED BY <1>2, <1>3, <2>1, FS_EmptySet
<1> QED BY <1>1, <1>4

(* which_block finds a set of the cache for every address.                 *)
LEMMA SetOfBlock ==
  ASSUME NEW a \in Address
  PROVE  block_set(a) \in SetIndex
<1> DEFINE n == t_bits + block_bits
           N == 2 ^ n
           M == 2 ^ s_bits
           x == shift_left(a, t_bits)
<1>1. /\ t_bits \in Nat /\ s_bits \in Nat /\ n \in Nat /\ Width = n + s_bits /\ a \in Nat
  BY CsimAssumption DEF t_bits
<1>2. /\ 2 ^ Width = N * M /\ N \in Nat /\ N > 0 /\ M \in Nat /\ M > 0 /\ 2 ^ t_bits \in Nat
      /\ 2 ^ Width \in Nat /\ 2 ^ Width > 0
  <2>1. 2 ^ (n + s_bits) = N * M
    BY <1>1, PowerSum, Zenon
  <2>2. N \in Nat /\ N > 0 /\ M \in Nat /\ M > 0 /\ 2 ^ t_bits \in Nat
    BY <1>1, PowerPositive, Zenon
  <2>3. n + s_bits \in Nat
    BY <1>1
  <2>4. 2 ^ (n + s_bits) \in Nat /\ 2 ^ (n + s_bits) > 0
    BY <2>3, PowerPositive, Zenon
  <2> QED BY <1>1, <2>1, <2>2, <2>4, Zenon
<1> HIDE DEF n, N, M
<1>3. x \in 0 .. (N * M - 1)
  <2>1. a * 2 ^ t_bits \in Nat
    BY <1>1, <1>2
  <2>2. x = (a * 2 ^ t_bits) % (N * M)
    BY <1>2 DEF shift_left
  <2>3. \A y, z \in Nat : z > 0 => y % z \in 0 .. (z - 1)
    OBVIOUS
  <2>4. N * M \in Nat /\ N * M > 0
    BY <1>2
  <2> QED BY <2>1, <2>2, <2>3, <2>4
<1>4. x \div N \in 0 .. (M - 1)
  <2> DEFINE q == x \div N
  <2>1. q \in Int /\ N * q <= x /\ x < N * q + N /\ x \in Nat
    <3>1. x \in Nat
      BY <1>2, <1>3
    <3>2. \A y, z \in Nat : z > 0 =>
            y \div z \in Int /\ z * (y \div z) <= y /\ y < z * (y \div z) + z
      OBVIOUS
    <3> HIDE DEF x
    <3> QED BY <1>2, <3>1, <3>2
  <2> HIDE DEF q, x
  <2>2. q >= 0
    <3>1. SUFFICES ASSUME q <= -1 PROVE FALSE
      BY <2>1
    <3>2. N * q <= N * (-1)
      BY <1>2, <2>1, <3>1
    <3> QED BY <1>2, <2>1, <3>2
  <2>3. q < M
    <3>1. SUFFICES ASSUME q >= M PROVE FALSE
      BY <1>2, <2>1
    <3>2. N * q >= N * M
      BY <1>2, <2>1, <3>1
    <3> QED BY <1>2, <1>3, <2>1, <3>2
  <2> QED BY <1>2, <2>1, <2>2, <2>3 DEF q
<1> QED BY <1>4 DEF block_set, shift_right, SetIndex, n, N, M

(* A set of numbers has a least one.                                       *)
LEMMA Least ==
  ASSUME NEW T, T \subseteq Nat, T # {}
  PROVE  \E x \in T : \A y \in T : x <= y
<1> DEFINE R == {ss \in Nat \X Nat : ss[1] < ss[2]}
<1>1. IsWellFoundedOn(R, Nat)
  BY NatLessThanWellFounded DEF OpToRel
<1>2. \A x, y \in Nat : y < x => <<y, x>> \in R
  OBVIOUS
<1> HIDE DEF R
<1>3. PICK x \in T : \A y \in T : ~(<<y, x>> \in R)
  BY <1>1, WFMin
<1>4. ASSUME NEW y \in T PROVE x <= y
  <2>1. x \in Nat /\ y \in Nat
    OBVIOUS
  <2>2. ~(y < x)
    BY <2>1, <1>2, <1>3
  <2> QED BY <2>1, <2>2
<1> QED BY <1>4

----------------------------------------------------------------------------
(* A cache c of either size: its lines are L.                              *)
Block == [valid : BOOLEAN, tag : Tags \union {0}, time_stamp : 0 .. num_events]
CacheOf(L) == [SetIndex -> [L -> Block]]
Held(c, L, s, t) == {j \in L : c[s][j].valid /\ c[s][j].tag = t}
Empty(c, L, s) == {j \in L : ~c[s][j].valid}
Oldest(c, L, s) ==
  {j \in L : \A k \in L : c[s][j].time_stamp <= c[s][k].time_stamp}

(* Line k of set s is one that an access of t may take.                    *)
Takes(c, L, s, t, k) ==
  \/ k \in Held(c, L, s, t)
  \/ Held(c, L, s, t) = {} /\ k \in Empty(c, L, s)
  \/ Held(c, L, s, t) = {} /\ Empty(c, L, s) = {} /\ k \in Oldest(c, L, s)

(* d is c after access n, of t, took line k of set s.                      *)
After(c, d, L, s, t, k, n) ==
  /\ d[s][k].valid /\ d[s][k].tag = t /\ d[s][k].time_stamp = n
  /\ \A r \in SetIndex, j \in L : ~(r = s /\ j = k) => d[r][j] = c[r][j]

Apart(c, L, n) ==
  \A s \in SetIndex, j, k \in L :
    /\ c[s][j].valid /\ c[s][k].valid /\ j # k
         => /\ c[s][j].tag # c[s][k].tag
            /\ c[s][j].time_stamp # c[s][k].time_stamp
    /\ c[s][j].valid => c[s][j].time_stamp < n

(* What any access of t in set s keeps: the lines stay apart.              *)
LEMMA AccessApart ==
  ASSUME NEW L, NEW c \in CacheOf(L), NEW d \in CacheOf(L), NEW n \in Nat,
         NEW s \in SetIndex, NEW t, NEW k \in L,
         Apart(c, L, n), Takes(c, L, s, t, k), After(c, d, L, s, t, k, n)
  PROVE  Apart(d, L, n + 1)
<1>1. \A r \in SetIndex, j \in L : c[r][j].time_stamp \in Int
  BY DEF CacheOf, Block
<1>2. \A j \in L : c[s][j].valid /\ c[s][j].tag = t => j = k
  BY DEF Takes, Held, Apart
<1>3. ASSUME NEW r \in SetIndex, NEW j \in L, NEW l \in L, j # l,
             d[r][j].valid, d[r][l].valid
      PROVE  d[r][j].tag # d[r][l].tag /\ d[r][j].time_stamp # d[r][l].time_stamp
  <2>1. CASE r = s /\ j = k
    <3>1. d[r][j].tag = t /\ d[r][j].time_stamp = n /\ d[r][l] = c[r][l]
      BY <1>3, <2>1 DEF After
    <3>2. c[s][l].tag # t /\ c[s][l].time_stamp < n
      BY <1>2, <1>3, <2>1, <3>1 DEF Apart
    <3> QED BY <1>1, <2>1, <3>1, <3>2
  <2>2. CASE r = s /\ l = k
    <3>1. d[r][l].tag = t /\ d[r][l].time_stamp = n /\ d[r][j] = c[r][j]
      BY <1>3, <2>2 DEF After
    <3>2. c[s][j].tag # t /\ c[s][j].time_stamp < n
      BY <1>2, <1>3, <2>2, <3>1 DEF Apart
    <3> QED BY <1>1, <2>2, <3>1, <3>2
  <2>3. CASE ~(r = s /\ (j = k \/ l = k))
    <3>1. d[r][j] = c[r][j] /\ d[r][l] = c[r][l]
      BY <2>3 DEF After
    <3> QED BY <1>3, <3>1 DEF Apart
  <2> QED BY <2>1, <2>2, <2>3
<1>4. ASSUME NEW r \in SetIndex, NEW j \in L, d[r][j].valid
      PROVE  d[r][j].time_stamp < n + 1
  <2>1. CASE r = s /\ j = k
    BY <2>1 DEF After
  <2>2. CASE ~(r = s /\ j = k)
    <3>1. d[r][j] = c[r][j]
      BY <2>2 DEF After
    <3> QED BY <1>1, <1>4, <3>1 DEF Apart
  <2> QED BY <2>1, <2>2
<1> QED BY <1>3, <1>4 DEF Apart

(* The first line of a set of lines is one of them.                        *)
LEMMA FirstIsOne ==
  ASSUME NEW T, T \subseteq Nat, T # {}
  PROVE  first(T) \in T /\ Small!first(T) \in T
<1>1. \E x \in T : \A y \in T : x <= y
  BY Least
<1> QED BY <1>1 DEF first, Small!first

(* find_LRU's loop finds a line.                                           *)
LEMMA OldestIsOne ==
  ASSUME NEW L, L # {}, NEW c \in CacheOf(L), NEW s \in SetIndex
  PROVE  Oldest(c, L, s) # {}
<1> DEFINE T == {c[s][j].time_stamp : j \in L}
<1>1. T \subseteq Nat /\ T # {}
  BY DEF CacheOf, Block
<1>2. PICK x \in T : \A y \in T : x <= y
  BY <1>1, Least
<1>3. PICK j \in L : x = c[s][j].time_stamp
  OBVIOUS
<1> QED BY <1>2, <1>3 DEF Oldest

(* Loading a line is an access as the lemmas above see it.                 *)
LEMMA LoadIsAfter ==
  ASSUME NEW L, NEW c \in CacheOf(L), NEW s \in SetIndex, NEW k \in L, NEW t \in Tags,
         NEW n \in 0 .. num_events,
         NEW d, d = [c EXCEPT ![s][k] = [valid |-> TRUE, tag |-> t, time_stamp |-> n]]
  PROVE  d \in CacheOf(L) /\ After(c, d, L, s, t, k, n)
<1>1. [valid |-> TRUE, tag |-> t, time_stamp |-> n] \in Block
  BY DEF Block
<1> QED BY <1>1 DEF CacheOf, After

LEMMA StampIsAfter ==
  ASSUME NEW L, NEW c \in CacheOf(L), NEW s \in SetIndex, NEW k \in L, NEW t \in Tags,
         NEW n \in 0 .. num_events, c[s][k].valid, c[s][k].tag = t,
         NEW d, d = [c EXCEPT ![s][k].time_stamp = n]
  PROVE  d \in CacheOf(L) /\ After(c, d, L, s, t, k, n)
<1>1. ASSUME NEW x \in Block
      PROVE  /\ [x EXCEPT !.time_stamp = n] \in Block
             /\ [x EXCEPT !.time_stamp = n].valid = x.valid
             /\ [x EXCEPT !.time_stamp = n].tag = x.tag
             /\ [x EXCEPT !.time_stamp = n].time_stamp = n
  BY DEF Block
<1>2. \A r \in SetIndex, j \in L : c[r][j] \in Block
  BY DEF CacheOf
<1>3. ASSUME NEW r \in SetIndex, NEW j \in L
      PROVE  d[r][j] = IF r = s /\ j = k THEN [c[s][k] EXCEPT !.time_stamp = n] ELSE c[r][j]
  BY DEF CacheOf
<1>4. d \in CacheOf(L)
  <2>1. d = [c EXCEPT ![s] = [c[s] EXCEPT ![k] = [c[s][k] EXCEPT !.time_stamp = n]]]
    OBVIOUS
  <2> DEFINE b == [c[s][k] EXCEPT !.time_stamp = n]
  <2>2. b \in Block
    BY <1>1, <1>2
  <2>3. d = [c EXCEPT ![s] = [c[s] EXCEPT ![k] = b]]
    BY <2>1
  <2> HIDE DEF b
  <2> QED BY <2>2, <2>3 DEF CacheOf
<1>5. /\ d[s][k].valid /\ d[s][k].tag = t /\ d[s][k].time_stamp = n
  <2> DEFINE b == [c[s][k] EXCEPT !.time_stamp = n]
  <2>1. b.valid /\ b.tag = t /\ b.time_stamp = n
    BY <1>1, <1>2
  <2>2. d[s][k] = b
    BY <1>3
  <2> HIDE DEF b
  <2> QED BY <2>1, <2>2
<1> QED BY <1>3, <1>4, <1>5 DEF After

(* An event as it changes a cache of lines L and its three counts.         *)
Happens(c, d, L, s, t, n, more, h, m, e, h2, m2, e2) ==
  LET put(k) == d = [c EXCEPT ![s][k] = [valid |-> TRUE, tag |-> t, time_stamp |-> n]]
  IN  \/ /\ Held(c, L, s, t) # {}
         /\ h2 = h + 1 + more /\ m2 = m /\ e2 = e
         /\ d = [c EXCEPT ![s][first(Held(c, L, s, t))].time_stamp = n]
      \/ /\ Held(c, L, s, t) = {} /\ Empty(c, L, s) # {}
         /\ h2 = h + more /\ m2 = m + 1 /\ e2 = e
         /\ put(first(Empty(c, L, s)))
      \/ /\ Held(c, L, s, t) = {} /\ Empty(c, L, s) = {}
         /\ h2 = h + more /\ m2 = m + 1 /\ e2 = e + 1
         /\ put(first(Oldest(c, L, s)))

(* What it comes to, whichever line the searches settle on.                *)
Accessed(c, d, L, s, t, n, more, h, m, e, h2, m2, e2) ==
  /\ d \in CacheOf(L)
  /\ \E k \in L : Takes(c, L, s, t, k) /\ After(c, d, L, s, t, k, n)
  /\ h2 = h + more + IF Held(c, L, s, t) = {} THEN 0 ELSE 1
  /\ m2 = m + IF Held(c, L, s, t) = {} THEN 1 ELSE 0
  /\ e2 = e + IF Held(c, L, s, t) = {} /\ Empty(c, L, s) = {} THEN 1 ELSE 0

LEMMA HappensIsAccess ==
  ASSUME NEW L, L # {}, L \subseteq Nat, NEW c \in CacheOf(L), NEW d,
         NEW s \in SetIndex, NEW t \in Tags, NEW n \in 0 .. num_events, NEW more \in Nat,
         NEW h \in Nat, NEW m \in Nat, NEW e \in Nat, NEW h2, NEW m2, NEW e2,
         Happens(c, d, L, s, t, n, more, h, m, e, h2, m2, e2)
  PROVE  Accessed(c, d, L, s, t, n, more, h, m, e, h2, m2, e2)
<1>1. /\ Held(c, L, s, t) \subseteq Nat /\ Held(c, L, s, t) \subseteq L
      /\ Empty(c, L, s) \subseteq Nat /\ Empty(c, L, s) \subseteq L
      /\ Oldest(c, L, s) \subseteq Nat /\ Oldest(c, L, s) \subseteq L /\ Oldest(c, L, s) # {}
  <2>1. Oldest(c, L, s) # {}
    BY OldestIsOne
  <2> QED BY <2>1 DEF Held, Empty, Oldest
<1>2. ASSUME NEW k \in L, Takes(c, L, s, t, k),
             d = [c EXCEPT ![s][k] = [valid |-> TRUE, tag |-> t, time_stamp |-> n]]
      PROVE  d \in CacheOf(L) /\ \E x \in L : Takes(c, L, s, t, x) /\ After(c, d, L, s, t, x, n)
  BY <1>2, LoadIsAfter
<1> DEFINE Kept == d \in CacheOf(L) /\ \E x \in L : Takes(c, L, s, t, x) /\ After(c, d, L, s, t, x, n)
<1>3. ASSUME Held(c, L, s, t) # {} PROVE Kept
  <2> DEFINE k == first(Held(c, L, s, t))
  <2>1. k \in Held(c, L, s, t)
    BY <1>1, <1>3, FirstIsOne
  <2>2. d = [c EXCEPT ![s][k].time_stamp = n]
    BY <1>3 DEF Happens
  <2> HIDE DEF k
  <2>3. k \in L /\ c[s][k].valid /\ c[s][k].tag = t /\ Takes(c, L, s, t, k)
    BY <2>1 DEF Held, Takes
  <2>4. d \in CacheOf(L) /\ After(c, d, L, s, t, k, n)
    BY <2>2, <2>3, StampIsAfter
  <2> QED BY <2>3, <2>4
<1>4. ASSUME Held(c, L, s, t) = {}, Empty(c, L, s) # {} PROVE Kept
  <2> DEFINE k == first(Empty(c, L, s))
  <2>1. k \in Empty(c, L, s)
    BY <1>1, <1>4, FirstIsOne
  <2>2. d = [c EXCEPT ![s][k] = [valid |-> TRUE, tag |-> t, time_stamp |-> n]]
    BY <1>4 DEF Happens
  <2> HIDE DEF k
  <2>3. k \in L /\ Takes(c, L, s, t, k)
    BY <1>1, <1>4, <2>1 DEF Takes
  <2> QED BY <1>2, <2>2, <2>3
<1>5. ASSUME Held(c, L, s, t) = {}, Empty(c, L, s) = {} PROVE Kept
  <2> DEFINE k == first(Oldest(c, L, s))
  <2>1. k \in Oldest(c, L, s)
    BY <1>1, FirstIsOne
  <2>2. d = [c EXCEPT ![s][k] = [valid |-> TRUE, tag |-> t, time_stamp |-> n]]
    BY <1>5 DEF Happens
  <2> HIDE DEF k
  <2>3. k \in L /\ Takes(c, L, s, t, k)
    BY <1>1, <1>5, <2>1 DEF Takes
  <2> QED BY <1>2, <2>2, <2>3
<1>6. /\ h2 = h + more + IF Held(c, L, s, t) = {} THEN 0 ELSE 1
      /\ m2 = m + IF Held(c, L, s, t) = {} THEN 1 ELSE 0
      /\ e2 = e + IF Held(c, L, s, t) = {} /\ Empty(c, L, s) = {} THEN 1 ELSE 0
  <2>1. \/ Held(c, L, s, t) # {} /\ h2 = h + 1 + more /\ m2 = m /\ e2 = e
        \/ /\ Held(c, L, s, t) = {} /\ Empty(c, L, s) # {}
           /\ h2 = h + more /\ m2 = m + 1 /\ e2 = e
        \/ /\ Held(c, L, s, t) = {} /\ Empty(c, L, s) = {}
           /\ h2 = h + more /\ m2 = m + 1 /\ e2 = e + 1
    BY DEF Happens
  <2> QED BY <2>1
<1> QED BY <1>3, <1>4, <1>5, <1>6 DEF Accessed

(* Event is such an event, of the larger cache and of the smaller one.     *)
LEMMA EventHappens ==
  ASSUME NEW type \in Type, NEW a \in Address, Event(type, a)
  PROVE  Happens(cache, cache', Line, block_set(a), block_tag(a), i, second_access(type),
                 hits, misses, evictions, hits', misses', evictions')
<1> DEFINE s == block_set(a)
           t == block_tag(a)
<1>1. /\ in_cache(s, t) = Held(cache, Line, s, t) /\ invalid_line(s) = Empty(cache, Line, s)
      /\ find_LRU(s) = Oldest(cache, Line, s)
  BY DEF in_cache, invalid_line, find_LRU, Held, Empty, Oldest
<1>2. hit(type, s, t) \/ fill(type, s, t) \/ evict(type, s, t)
  BY DEF Event
<1> HIDE DEF s, t
<1>3. Happens(cache, cache', Line, s, t, i, second_access(type),
              hits, misses, evictions, hits', misses', evictions')
  BY <1>1, <1>2 DEF hit, fill, evict, load, Happens
<1> QED BY <1>3 DEF s, t

LEMMA SmallEventHappens ==
  ASSUME NEW type \in Type, NEW a \in Address, Small!Event(type, a)
  PROVE  Happens(small, small', Small!Line, block_set(a), block_tag(a), i, second_access(type),
                 small_hits, small_misses, small_evictions,
                 small_hits', small_misses', small_evictions')
<1> DEFINE s == block_set(a)
           t == block_tag(a)
<1>1. /\ Small!in_cache(s, t) = Held(small, Small!Line, s, t)
      /\ Small!invalid_line(s) = Empty(small, Small!Line, s)
      /\ Small!find_LRU(s) = Oldest(small, Small!Line, s)
  BY DEF Small!in_cache, Small!invalid_line, Small!find_LRU, Held, Empty, Oldest
<1>2. \A L : Small!first(L) = first(L)
  BY DEF Small!first, first
<1>3. Small!block_set(a) = s /\ Small!block_tag(a) = t /\ Small!second_access(type) = second_access(type)
  BY DEF Small!block_set, block_set, Small!block_tag, block_tag, Small!second_access, second_access,
         Small!shift_left, Small!shift_right, shift_left, shift_right, Small!t_bits, t_bits
<1>4. Small!hit(type, s, t) \/ Small!fill(type, s, t) \/ Small!evict(type, s, t)
  BY <1>3 DEF Small!Event
<1> HIDE DEF s, t
<1>5. Happens(small, small', Small!Line, s, t, i, second_access(type),
              small_hits, small_misses, small_evictions,
              small_hits', small_misses', small_evictions')
  BY <1>1, <1>2, <1>3, <1>4
     DEF Small!hit, Small!fill, Small!evict, Small!load, Happens
<1> QED BY <1>5 DEF s, t

----------------------------------------------------------------------------
(* The type invariant, and that lines stay apart.                          *)

(* Neither cache is without lines.                                         *)
LEMMA LinesFinite ==
  /\ IsFiniteSet(Line) /\ Cardinality(Line) = lines /\ lines \in Nat
  /\ IsFiniteSet(Small!Line) /\ Cardinality(Small!Line) = few /\ few <= lines
  /\ Line # {} /\ Line \subseteq Nat /\ Small!Line # {} /\ Small!Line \subseteq Nat
<1>1. /\ lines \in Nat /\ few \in Nat /\ few <= lines
      /\ few - 1 \in Int /\ lines - 1 \in Int /\ few - 1 >= 0 /\ lines - 1 >= 0
  BY CsimAssumption, PairAssumption
<1>2. ASSUME NEW x \in Int, x >= 0
      PROVE  IsFiniteSet(0 .. x) /\ Cardinality(0 .. x) = x + 1
  <2>1. IsFiniteSet(0 .. x) /\ Cardinality(0 .. x) = IF 0 > x THEN 0 ELSE x - 0 + 1
    BY FS_Interval, 0 \in Int
  <2> QED BY <1>2, <2>1
<1>3. Line = 0 .. (lines - 1) /\ Small!Line = 0 .. (few - 1)
  BY DEF Line, Small!Line
<1>4. IsFiniteSet(Line) /\ Cardinality(Line) = lines - 1 + 1
  BY <1>1, <1>2, <1>3
<1>5. IsFiniteSet(Small!Line) /\ Cardinality(Small!Line) = few - 1 + 1
  BY <1>1, <1>2, <1>3
<1>6. 0 \in Line /\ 0 \in Small!Line /\ Line \subseteq Nat /\ Small!Line \subseteq Nat
  BY <1>1, <1>3
<1> QED BY <1>1, <1>4, <1>5, <1>6

(* Each event is an access of its block in either cache.                   *)
LEMMA EventAccessed ==
  ASSUME cache \in CacheOf(Line), i \in 0 .. num_events,
         hits \in Nat, misses \in Nat, evictions \in Nat,
         NEW type \in Type, NEW a \in Address, Event(type, a)
  PROVE  /\ block_set(a) \in SetIndex /\ block_tag(a) \in Tags
         /\ second_access(type) = IF type = "M" THEN 1 ELSE 0
         /\ Accessed(cache, cache', Line, block_set(a), block_tag(a), i, second_access(type),
                     hits, misses, evictions, hits', misses', evictions')
<1>1. /\ block_set(a) \in SetIndex /\ block_tag(a) \in Tags
      /\ second_access(type) = (IF type = "M" THEN 1 ELSE 0) /\ second_access(type) \in Nat
  BY SetOfBlock DEF Tags, second_access
<1>2. Happens(cache, cache', Line, block_set(a), block_tag(a), i, second_access(type),
              hits, misses, evictions, hits', misses', evictions')
  BY EventHappens
<1> QED BY <1>1, <1>2, LinesFinite, HappensIsAccess

LEMMA SmallAccessed ==
  ASSUME small \in CacheOf(Small!Line), i \in 0 .. num_events,
         small_hits \in Nat, small_misses \in Nat, small_evictions \in Nat,
         NEW type \in Type, NEW a \in Address, Small!Event(type, a)
  PROVE  Accessed(small, small', Small!Line, block_set(a), block_tag(a), i, second_access(type),
                  small_hits, small_misses, small_evictions,
                  small_hits', small_misses', small_evictions')
<1>1. /\ block_set(a) \in SetIndex /\ block_tag(a) \in Tags /\ second_access(type) \in Nat
  BY SetOfBlock DEF Tags, second_access
<1>2. Happens(small, small', Small!Line, block_set(a), block_tag(a), i, second_access(type),
              small_hits, small_misses, small_evictions,
              small_hits', small_misses', small_evictions')
  BY SmallEventHappens
<1> QED BY <1>1, <1>2, LinesFinite, HappensIsAccess

(* What the type invariant and NoAlias say of the cache.                   *)
LEMMA Caches ==
  /\ TypeOK => /\ cache \in CacheOf(Line) /\ i \in 0 .. num_events /\ i \in Nat
               /\ hits \in Nat /\ misses \in Nat /\ evictions \in Nat
  /\ NoAlias <=> Apart(cache, Line, i)
<1>1. NoAlias <=> Apart(cache, Line, i)
  BY DEF NoAlias, Apart
<1>2. TypeOK => /\ cache \in CacheOf(Line) /\ i \in 0 .. num_events /\ i \in Nat
                /\ hits \in Nat /\ misses \in Nat /\ evictions \in Nat
  BY CsimAssumption DEF TypeOK, CacheOf, Block
<1> QED BY <1>1, <1>2

(* A set that starts out with every line invalid has its type.             *)
LEMMA InitTyped == ASSUME Init PROVE TypeOK
<1> USE CsimAssumption
<1>1. [valid |-> FALSE, tag |-> 0, time_stamp |-> 0] \in Block
  BY DEF Block
<1>2. cache \in [SetIndex -> [Line -> Block]]
  BY <1>1 DEF Init, create_cache
<1> QED  BY <1>2 DEF Init, TypeOK, Block

(* An event adds to the counts what its access says.                       *)
LEMMA EventTyped ==
  ASSUME TypeOK, NEW type \in Type, NEW a \in Address, Event(type, a)
  PROVE  TypeOK'
<1> DEFINE s == block_set(a)
           t == block_tag(a)
<1>1. /\ second_access(type) \in 0 .. 1
      /\ Accessed(cache, cache', Line, s, t, i, second_access(type),
                  hits, misses, evictions, hits', misses', evictions')
  BY Caches, EventAccessed
<1>2. /\ hits' \in {hits, hits + 1, hits + 2}
      /\ misses' \in {misses, misses + 1} /\ evictions' \in {evictions, evictions + 1}
      /\ evictions' = evictions + 1 => misses' = misses + 1
  <2>1. hits \in Nat /\ misses \in Nat /\ evictions \in Nat
    BY Caches
  <2> HIDE DEF s, t
  <2> QED BY <1>1, <2>1 DEF Accessed
<1>3. i' = i + 1 /\ i < num_events
  BY DEF Event
<1>4. cache' \in [SetIndex -> [Line -> Block]]
  BY <1>1 DEF Accessed, CacheOf
<1> QED  BY <1>2, <1>3, <1>4, CsimAssumption DEF TypeOK, Block

(* Every variable of csim.c keeps its type: no event drives a count past   *)
(* what the events so far allow, and every line holds a tag of the trace.  *)
THEOREM TypeCorrect == Spec => []TypeOK
<1>1. TypeOK /\ [Next]_vars => TypeOK'
  BY EventTyped DEF Next, vars, TypeOK
<1> QED  BY InitTyped, <1>1, PTL DEF Spec

(* NoAlias is inductive: a block is loaded only where it is not, and every *)
(* event stamps with its own index.                                        *)
LEMMA EventApart ==
  ASSUME TypeOK, NoAlias, NEW type \in Type, NEW a \in Address, Event(type, a)
  PROVE  NoAlias'
<1> DEFINE s == block_set(a)
           t == block_tag(a)
<1>1. /\ s \in SetIndex
      /\ Accessed(cache, cache', Line, s, t, i, second_access(type),
                  hits, misses, evictions, hits', misses', evictions')
  BY Caches, EventAccessed
<1> HIDE DEF s, t
<1>2. /\ cache \in CacheOf(Line) /\ i \in Nat /\ Apart(cache, Line, i)
  BY Caches
<1>3. cache' \in CacheOf(Line)
  BY <1>1 DEF Accessed
<1>4. PICK k \in Line : Takes(cache, Line, s, t, k) /\ After(cache, cache', Line, s, t, k, i)
  BY <1>1 DEF Accessed
<1>5. Apart(cache', Line, i + 1)
  BY <1>1, <1>2, <1>3, <1>4, AccessApart
<1>6. i' = i + 1
  BY DEF Event
<1> QED BY <1>5, <1>6 DEF Apart, NoAlias

(* No set of csim.c ever holds a block twice, and no two of its lines were *)
(* last used by the same event, whatever the geometry and the trace.       *)
THEOREM LinesApart == Spec => []NoAlias
<1>1. Init => NoAlias
  BY DEF Init, create_cache, NoAlias
<1>2. TypeOK /\ NoAlias /\ [Next]_vars => NoAlias'
  BY EventApart DEF Next, vars, NoAlias
<1> QED  BY TypeCorrect, <1>1, <1>2, PTL DEF Spec

----------------------------------------------------------------------------
(* The lines S of one set, as recency orders them.                         *)
Used(S, L) == {j \in L : S[j].valid}
Newer(S, U, j) == {k \in U : S[k].time_stamp >= S[j].time_stamp}
order(S, L) ==
  [n \in 1 .. Cardinality(Used(S, L)) |->
     S[CHOOSE j \in Used(S, L) : Cardinality(Newer(S, Used(S, L), j)) = n].tag]

(* The lines U are used, and each was used by an access of its own.        *)
Stamped(S, U) ==
  /\ IsFiniteSet(U)
  /\ \A j \in U : S[j].time_stamp \in Int
  /\ \A j, k \in U : j # k => S[j].time_stamp # S[k].time_stamp

(* Ranks number the lines from the newest to the oldest, without a gap.    *)
LEMMA Ranks ==
  ASSUME NEW S, NEW U, Stamped(S, U)
  PROVE  /\ Cardinality(U) \in Nat
         /\ \A j \in U : Cardinality(Newer(S, U, j)) \in 1 .. Cardinality(U)
         /\ \A j, k \in U : /\ Cardinality(Newer(S, U, j)) = Cardinality(Newer(S, U, k)) => j = k
                            /\ Cardinality(Newer(S, U, k)) < Cardinality(Newer(S, U, j))
                                 <=> S[j].time_stamp < S[k].time_stamp
         /\ \A n \in 1 .. Cardinality(U) : \E j \in U : Cardinality(Newer(S, U, j)) = n
<1> DEFINE r(j) == Cardinality(Newer(S, U, j))
<1>1. Cardinality(U) \in Nat
  BY FS_CardinalityType DEF Stamped
<1>2. ASSUME NEW j \in U
      PROVE  IsFiniteSet(Newer(S, U, j)) /\ r(j) \in Nat /\ r(j) >= 1 /\ r(j) <= Cardinality(U)
  <2>1. Newer(S, U, j) \in SUBSET U /\ j \in Newer(S, U, j)
    BY DEF Newer, Stamped
  <2>2. IsFiniteSet(U)
    BY DEF Stamped
  <2>3. IsFiniteSet(Newer(S, U, j)) /\ r(j) <= Cardinality(U)
    BY <2>1, <2>2, FS_Subset
  <2>4. r(j) \in Nat /\ r(j) # 0
    BY <2>1, <2>3, FS_CardinalityType, FS_EmptySet
  <2> QED BY <2>3, <2>4
<1>3. ASSUME NEW j \in U, NEW k \in U, S[j].time_stamp < S[k].time_stamp
      PROVE  r(k) < r(j)
  <2>1. /\ Newer(S, U, k) \in SUBSET Newer(S, U, j)
        /\ j \in Newer(S, U, j) /\ j \notin Newer(S, U, k)
    BY <1>3 DEF Newer, Stamped
  <2>2. Newer(S, U, k) # Newer(S, U, j)
    BY <2>1
  <2>3. r(k) <= r(j) /\ r(j) # r(k)
    BY <1>2, <2>1, <2>2, FS_Subset
  <2> QED BY <1>2, <2>3
<1>4. \A j, k \in U : S[j].time_stamp < S[k].time_stamp \/ S[k].time_stamp < S[j].time_stamp \/ j = k
  BY DEF Stamped
<1>5. \A j \in U : S[j].time_stamp \in Int
  BY DEF Stamped
<1> HIDE DEF r
<1>6. ASSUME NEW j \in U, NEW k \in U
      PROVE  /\ r(j) = r(k) => j = k
             /\ r(k) < r(j) <=> S[j].time_stamp < S[k].time_stamp
  BY <1>2, <1>3, <1>4, <1>5
<1> DEFINE f == [j \in U |-> r(j)]
           N == 1 .. Cardinality(U)
<1>7. ASSUME NEW n \in N PROVE \E j \in U : r(j) = n
  <2>1. f \in [U -> N]
    BY <1>1, <1>2
  <2>2. \A j, k \in U : f[j] = f[k] => j = k
    BY <1>6
  <2>3. f \in Injection(U, N)
    BY <2>1, <2>2 DEF Injection, IsInjective
  <2>4. IsFiniteSet(N) /\ Cardinality(N) = Cardinality(U)
    <3> DEFINE x == Cardinality(U)
    <3>1. x \in Nat
      BY <1>1
    <3> HIDE DEF x
    <3>2. IsFiniteSet(1 .. x) /\ Cardinality(1 .. x) = IF 1 > x THEN 0 ELSE x - 1 + 1
      BY <3>1, FS_Interval, 1 \in Int
    <3>3. IsFiniteSet(1 .. x) /\ Cardinality(1 .. x) = x
      BY <3>1, <3>2
    <3> QED BY <3>3 DEF x
  <2>5. f \in Surjection(U, N)
    <3> HIDE DEF f, N
    <3> QED BY <2>3, <2>4, FS_Injection
  <2>6. \E j \in U : f[j] = n
    BY <2>5 DEF Surjection
  <2> QED BY <2>6
<1> QED BY <1>1, <1>2, <1>6, <1>7 DEF r

(* Each place of the order holds the tag of the line of that rank.         *)
LEMMA OrderPlaces ==
  ASSUME NEW S, NEW L, Stamped(S, Used(S, L))
  PROVE  LET U == Used(S, L)
         IN  /\ Len(order(S, L)) = Cardinality(U) /\ Cardinality(U) \in Nat
             /\ DOMAIN order(S, L) = 1 .. Cardinality(U)
             /\ \A j \in U : order(S, L)[Cardinality(Newer(S, U, j))] = S[j].tag
<1> DEFINE U == Used(S, L)
           r(j) == Cardinality(Newer(S, U, j))
           q == order(S, L)
           m == Cardinality(U)
<1>1. m \in Nat /\ \A j \in U : r(j) \in 1 .. m
  BY Ranks
<1>2. q = [n \in 1 .. m |-> S[CHOOSE j \in U : r(j) = n].tag]
  BY DEF order
<1>3. ASSUME NEW j \in U PROVE q[r(j)] = S[j].tag
  <2>1. \A k \in U : r(k) = r(j) => k = j
    BY Ranks
  <2>2. (CHOOSE k \in U : r(k) = r(j)) = j
    BY <2>1
  <2> QED BY <1>1, <1>2, <2>2
<1>4. Len(q) = m /\ DOMAIN q = 1 .. m
  <2> HIDE DEF U, r, m
  <2> DEFINE T == {q[n] : n \in 1 .. m}
  <2>1. DOMAIN q = 1 .. m
    BY <1>2
  <2>2. q \in [1 .. m -> T]
    BY <1>2
  <2> HIDE DEF q, T
  <2>3. q \in Seq(T)
    BY <1>1, <2>2, IsASeq
  <2> QED BY <1>1, <2>1, <2>3, LenProperties
<1> QED BY <1>1, <1>3, <1>4

(* The place of line k, or the next one if it is not used.                 *)
Place(S, L, k) == IF S[k].valid THEN Cardinality(Newer(S, Used(S, L), k))
                  ELSE Cardinality(Used(S, L)) + 1

(* An access of line k brings it to the front and lets those newer than    *)
(* it, or all if it was not used, move back by one.                        *)
LEMMA OrderMoves ==
  ASSUME NEW L, IsFiniteSet(L), NEW S, NEW D, NEW k \in L, NEW t, NEW n \in Int,
         Stamped(S, Used(S, L)), \A j \in Used(S, L) : S[j].time_stamp < n,
         D[k].valid, D[k].tag = t, D[k].time_stamp = n,
         \A j \in L \ {k} : D[j] = S[j]
  PROVE  order(D, L) = LRU!ToFront(order(S, L), t, Place(S, L, k))
<1> DEFINE U == Used(S, L)
           V == Used(D, L)
           r(j) == Cardinality(Newer(S, U, j))
           v(j) == Cardinality(Newer(D, V, j))
           p == IF S[k].valid THEN r(k) ELSE Cardinality(U) + 1
           last == IF p > Cardinality(U) THEN p ELSE Cardinality(U)
           q == order(S, L)
<1>1. V = U \union {k} /\ (S[k].valid <=> k \in U) /\ k \in V
  BY DEF Used
<1>2. IsFiniteSet(U) /\ IsFiniteSet(V)
  BY FS_Subset DEF Used
<1>3. Stamped(D, V)
  <2>1. \A j \in V \ {k} : j \in U /\ D[j] = S[j] /\ D[j].time_stamp < n /\ D[j].time_stamp \in Int
    BY <1>1 DEF Stamped, Used
  <2> QED BY <1>2, <2>1 DEF Stamped
<1>4. /\ Len(q) = Cardinality(U) /\ Cardinality(U) \in Nat
      /\ \A j \in U : q[r(j)] = S[j].tag
  BY OrderPlaces
<1>5. \A j \in U : r(j) \in 1 .. Cardinality(U)
  BY Ranks
<1>6. p \in Nat \ {0} /\ last \in Nat \ {0} /\ last = Cardinality(V)
  <2>1. CASE S[k].valid
    <3>1. U = V /\ k \in U
      BY <1>1, <2>1
    <3>2. p \in 1 .. Cardinality(U)
      BY <1>5, <2>1, <3>1
    <3> HIDE DEF p, U, V
    <3>3. last = Cardinality(U)
      BY <1>4, <3>2
    <3> QED BY <1>4, <3>1, <3>2, <3>3
  <2>2. CASE ~S[k].valid
    BY <1>1, <1>2, <1>4, <2>2, FS_AddElement
  <2> QED BY <2>1, <2>2
<1>7. v(k) = 1
  <2>1. Newer(D, V, k) = {k}
    BY <1>1 DEF Newer, Stamped, Used
  <2> QED BY <2>1, FS_Singleton
<1>8. ASSUME NEW j \in U \ {k}
      PROVE  v(j) = IF r(j) < p THEN r(j) + 1 ELSE r(j)
  <2>1. Newer(D, V, j) = Newer(S, U, j) \union {k}
    BY <1>1, <1>8 DEF Newer, Stamped, Used
  <2>2. Newer(S, U, j) \in SUBSET U
    BY DEF Newer
  <2>3. IsFiniteSet(Newer(S, U, j))
    BY <1>2, <2>2, FS_Subset
  <2>4. v(j) = IF k \in Newer(S, U, j) THEN r(j) ELSE r(j) + 1
    BY <2>1, <2>3, FS_AddElement
  <2>5. k \in Newer(S, U, j) <=> ~(r(j) < p)
    <3>1. CASE S[k].valid
      <4>1. k \in U /\ j \in U /\ S[j].time_stamp \in Int /\ S[k].time_stamp \in Int
            /\ S[j].time_stamp # S[k].time_stamp
        BY <1>1, <1>8, <3>1 DEF Stamped
      <4>2. r(j) < r(k) <=> S[k].time_stamp < S[j].time_stamp
        BY <4>1, Ranks
      <4> QED BY <3>1, <4>1, <4>2 DEF Newer
    <3>2. CASE ~S[k].valid
      <4>1. r(j) < p
        BY <1>4, <1>5, <1>8, <3>2
      <4> QED BY <1>1, <3>2, <4>1 DEF Newer
    <3> QED BY <3>1, <3>2
  <2> QED BY <2>4, <2>5
<1>9. ASSUME NEW x \in 1 .. last
      PROVE  order(D, L)[x] = IF x = 1 THEN t ELSE IF x <= p THEN q[x - 1] ELSE q[x]
  <2>1. x \in 1 .. Cardinality(V)
    BY <1>6
  <2>2. PICK j \in V : v(j) = x
    BY <1>3, <2>1, Ranks
  <2>3. order(D, L)[x] = D[j].tag
    BY <1>3, <2>2, OrderPlaces
  <2>4. CASE j = k
    BY <1>7, <2>2, <2>3, <2>4
  <2>5. CASE j # k
    <3>1. j \in U \ {k} /\ D[j] = S[j]
      BY <1>1, <2>5 DEF Used
    <3>2. v(j) = IF r(j) < p THEN r(j) + 1 ELSE r(j)
      BY <1>8, <3>1
    <3>3. r(j) \in Nat /\ r(j) >= 1 /\ q[r(j)] = S[j].tag
      BY <1>4, <1>5, <3>1
    <3>4. S[k].valid => r(j) # p
      BY <1>1, <3>1, Ranks
    <3>5. ~S[k].valid => r(j) < p
      BY <1>4, <1>5, <3>1
    <3>6. r(j) # p
      BY <3>3, <3>4, <3>5, <1>6
    <3> HIDE DEF r, p, v
    <3>7. CASE r(j) < p
      <4>1. x = r(j) + 1 /\ x # 1 /\ x <= p /\ x - 1 = r(j)
        BY <1>6, <2>2, <3>2, <3>3, <3>7
      <4> QED BY <2>3, <3>1, <3>3, <4>1
    <3>8. CASE ~(r(j) < p)
      <4>1. x = r(j) /\ x # 1 /\ ~(x <= p)
        BY <1>6, <2>2, <3>2, <3>3, <3>6, <3>8
      <4> QED BY <2>3, <3>1, <3>3, <4>1
    <3> QED BY <3>7, <3>8
  <2> QED BY <2>4, <2>5
<1>10. DOMAIN order(D, L) = 1 .. last
  BY <1>3, <1>6, OrderPlaces
<1>11. order(D, L) = [x \in 1 .. last |-> order(D, L)[x]]
  BY <1>10 DEF order
<1> HIDE DEF U, V, r, v
<1>12. LRU!ToFront(q, t, p) = [x \in 1 .. last |-> IF x = 1 THEN t
                                              ELSE IF x <= p THEN q[x - 1] ELSE q[x]]
  BY <1>4 DEF LRU!ToFront
<1>13. order(D, L) = [x \in 1 .. last |-> IF x = 1 THEN t
                                              ELSE IF x <= p THEN q[x - 1] ELSE q[x]]
  <2> HIDE DEF p, last, q
  <2> QED BY <1>9, <1>11
<1> QED BY <1>12, <1>13 DEF Place, U, r

(* Each event is one access of the abstract cache.                         *)
LEMMA EventIsAccess ==
  ASSUME TypeOK, NoAlias, NEW type \in Type, NEW a \in Address, Event(type, a)
  PROVE  LRU!Access(block_set(a), block_tag(a), type = "M")
<1> DEFINE s == block_set(a)
           t == block_tag(a)
           more == second_access(type)
           S == cache[s]
           D == cache'[s]
           U == Used(S, Line)
           q == order(S, Line)
<1>1. /\ s \in SetIndex /\ t \in Tags /\ more = IF type = "M" THEN 1 ELSE 0
      /\ Accessed(cache, cache', Line, s, t, i, more, hits, misses, evictions,
                  hits', misses', evictions')
  BY Caches, EventAccessed
<1>2. /\ IsFiniteSet(Line) /\ Cardinality(Line) = lines /\ Line # {} /\ Line \subseteq Nat
      /\ lines \in Nat
  BY LinesFinite
<1>3. /\ cache \in CacheOf(Line) /\ i \in Int
      /\ hits \in Nat /\ misses \in Nat /\ evictions \in Nat
      /\ Apart(cache, Line, i)
  BY Caches
<1>4. more \in Nat
  BY <1>1
<1> HIDE DEF s, t, more
<1>5. PICK k \in Line : Takes(cache, Line, s, t, k) /\ After(cache, cache', Line, s, t, k, i)
  BY <1>1 DEF Accessed
<1>6. /\ IsFiniteSet(U) /\ Stamped(S, U) /\ \A j \in U : S[j].time_stamp < i
      /\ Cardinality(U) <= lines /\ (Cardinality(U) = lines => U = Line)
  <2>1. U \in SUBSET Line
    BY DEF Used
  <2>2. IsFiniteSet(U) /\ Cardinality(U) <= lines /\ (Cardinality(U) = lines => U = Line)
    BY <1>2, <2>1, FS_Subset
  <2>3. \A j \in Line : S[j].time_stamp \in Int
    BY <1>1, <1>3 DEF CacheOf, Block
  <2> QED BY <1>1, <1>3, <2>2, <2>3 DEF Used, Stamped, Apart
<1>7. /\ D[k].valid /\ D[k].tag = t /\ D[k].time_stamp = i
      /\ \A j \in Line \ {k} : D[j] = S[j]
  BY <1>1, <1>5 DEF After
<1> DEFINE p == Place(S, Line, k)
<1>p. p = IF S[k].valid THEN Cardinality(Newer(S, U, k)) ELSE Cardinality(U) + 1
  BY DEF Place
<1>8. order(D, Line) = LRU!ToFront(q, t, p)
  <2> HIDE DEF S, D
  <2>1. /\ IsFiniteSet(Line) /\ k \in Line /\ i \in Int
        /\ Stamped(S, Used(S, Line)) /\ \A j \in Used(S, Line) : S[j].time_stamp < i
        /\ D[k].valid /\ D[k].tag = t /\ D[k].time_stamp = i
        /\ \A j \in Line \ {k} : D[j] = S[j]
    BY <1>2, <1>3, <1>5, <1>6, <1>7
  <2> QED BY <2>1, OrderMoves
<1>9. /\ Len(q) = Cardinality(U) /\ Cardinality(U) \in Nat
      /\ \A j \in U : q[Cardinality(Newer(S, U, j))] = S[j].tag
  BY <1>6, OrderPlaces
<1>10. /\ \A j \in U : Cardinality(Newer(S, U, j)) \in 1 .. Cardinality(U)
       /\ \A x \in 1 .. Cardinality(U) : \E j \in U : Cardinality(Newer(S, U, j)) = x
  BY <1>6, Ranks
<1>11. LRU!Holds(q, t) <=> Held(cache, Line, s, t) # {}
  <2>1. ASSUME NEW j \in Held(cache, Line, s, t) PROVE LRU!Holds(q, t)
    <3>1. j \in U /\ S[j].tag = t
      BY DEF Held, Used
    <3> QED BY <1>9, <1>10, <3>1 DEF LRU!Holds
  <2>2. ASSUME LRU!Holds(q, t) PROVE Held(cache, Line, s, t) # {}
    <3>1. PICK x \in 1 .. Cardinality(U) : q[x] = t
      BY <1>9, <2>2 DEF LRU!Holds
    <3>2. PICK j \in U : Cardinality(Newer(S, U, j)) = x
      BY <1>10
    <3>3. S[j].tag = t
      BY <1>9, <3>1, <3>2
    <3> QED BY <3>3 DEF Used, Held
  <2> QED BY <2>1, <2>2
<1>12. Empty(cache, Line, s) = {} <=> Len(q) = lines
  <2>1. Empty(cache, Line, s) = {} <=> U = Line
    BY DEF Empty, Used
  <2> QED BY <1>2, <1>6, <1>9, <2>1
<1>13. p \in LRU!Vacated(q, t)
  <2>1. CASE k \in Held(cache, Line, s, t)
    <3>1. k \in U /\ S[k].tag = t /\ S[k].valid
      BY <2>1 DEF Held, Used
    <3>2. p \in 1 .. Len(q) /\ q[p] = t
      BY <1>9, <1>10, <1>p, <3>1
    <3> HIDE DEF p, q
    <3> QED BY <1>11, <2>1, <3>2 DEF LRU!Vacated
  <2>2. CASE Held(cache, Line, s, t) = {} /\ k \in Empty(cache, Line, s)
    <3>1. ~S[k].valid /\ Len(q) # lines
      BY <1>12, <2>2 DEF Empty
    <3>2. p = Len(q) + 1 /\ Len(q) < lines
      BY <1>2, <1>6, <1>9, <1>p, <3>1
    <3> HIDE DEF p, q
    <3> QED BY <1>11, <2>2, <3>2 DEF LRU!Vacated
  <2>3. CASE /\ Held(cache, Line, s, t) = {} /\ Empty(cache, Line, s) = {}
             /\ k \in Oldest(cache, Line, s)
    <3>1. S[k].valid /\ U = Line
      BY <2>3 DEF Empty, Used
    <3>2. Newer(S, U, k) = U
      <4>1. \A j \in Line : S[k].time_stamp <= S[j].time_stamp
        BY <2>3 DEF Oldest
      <4>2. \A j \in Line : S[j].time_stamp \in Int
        BY <1>1, <1>3 DEF CacheOf, Block
      <4> QED BY <3>1, <4>1, <4>2 DEF Newer
    <3>3. p = lines /\ Len(q) = lines
      BY <1>2, <1>9, <1>p, <3>1, <3>2
    <3>4. p = IF Len(q) < lines THEN Len(q) + 1 ELSE lines
      BY <1>2, <3>3
    <3> HIDE DEF p, q
    <3> QED BY <1>11, <2>3, <3>4 DEF LRU!Vacated
  <2> QED BY <1>5, <2>1, <2>2, <2>3 DEF Takes
<1>14. /\ \A r \in SetIndex : recency(r) = order(cache[r], Line)
       /\ \A r \in SetIndex : recency(r)' = order(cache'[r], Line)
  BY DEF recency, rank, order, Newer, Used
<1> DEFINE st == [r \in SetIndex |-> recency(r)]
<1>15. st' = [st EXCEPT ![s] = LRU!ToFront(q, t, p)]
  <2>1. \A r \in SetIndex \ {s} : order(cache'[r], Line) = order(cache[r], Line)
    <3>1. ASSUME NEW r \in SetIndex \ {s}
          PROVE  order(cache'[r], Line) = order(cache[r], Line)
      <4>1. cache' \in CacheOf(Line) /\ cache \in CacheOf(Line)
        BY <1>1, <1>3 DEF Accessed
      <4>2. \A j \in Line : cache'[r][j] = cache[r][j]
        BY <1>5 DEF After
      <4>3. cache'[r] = cache[r]
        BY <4>1, <4>2 DEF CacheOf
      <4> QED BY <4>3
    <3> QED BY <3>1
  <2>2. st' = [r \in SetIndex |-> order(cache'[r], Line)]
    BY <1>14
  <2>3. st = [r \in SetIndex |-> order(cache[r], Line)]
    BY <1>14
  <2> HIDE DEF p, q, st
  <2> QED BY <1>1, <1>8, <2>1, <2>2, <2>3
<1>16. st[s] = q
  BY <1>1, <1>14
<1>17. /\ hits' = hits + (IF LRU!Holds(q, t) THEN 1 ELSE 0) + (IF type = "M" THEN 1 ELSE 0)
       /\ misses' = misses + (IF LRU!Holds(q, t) THEN 0 ELSE 1)
       /\ evictions' = evictions + (IF ~LRU!Holds(q, t) /\ Len(q) = lines THEN 1 ELSE 0)
  <2>1. /\ hits' = hits + more + IF Held(cache, Line, s, t) = {} THEN 0 ELSE 1
        /\ misses' = misses + IF Held(cache, Line, s, t) = {} THEN 1 ELSE 0
        /\ evictions' = evictions
             + IF Held(cache, Line, s, t) = {} /\ Empty(cache, Line, s) = {} THEN 1 ELSE 0
    BY <1>1 DEF Accessed
  <2> HIDE DEF q
  <2> QED BY <1>1, <1>3, <1>4, <1>11, <1>12, <2>1
<1>18. LRU!Access(s, t, type = "M")
  <2> HIDE DEF p, q
  <2> QED BY <1>13, <1>15, <1>16, <1>17 DEF LRU!Access
<1> QED BY <1>18 DEF s, t

(* csim.c implements an LRU cache: on every trace its sets, ordered by     *)
(* stamps, change as recency stacks do, and its counts are those of one.   *)
THEOREM IsLru == Spec => LruSpec
<1>1. Init => LRU!Init
  <2> SUFFICES ASSUME Init PROVE LRU!Init
    OBVIOUS
  <2>1. ASSUME NEW s \in SetIndex PROVE recency(s) = <<>>
    <3> DEFINE U == Used(cache[s], Line)
               e(n) == cache[s][CHOOSE j \in U : Cardinality(Newer(cache[s], U, j)) = n].tag
    <3>1. recency(s) = [n \in 1 .. Cardinality(U) |-> e(n)]
      BY DEF recency, rank, Newer, Used
    <3>2. U = {}
      BY DEF Init, create_cache, Used
    <3>3. 1 .. Cardinality(U) = {}
      BY <3>2, FS_EmptySet
    <3> HIDE DEF U, e
    <3> QED BY <3>1, <3>3
  <2> QED BY <2>1 DEF LRU!Init, Init
<1>2. TypeOK /\ NoAlias =>
        \A type \in Type, a \in Address :
          Event(type, a) => LRU!Access(block_set(a), block_tag(a), type = "M")
  BY EventIsAccess
<1> QED BY TypeCorrect, LinesApart, <1>1, <1>2, PTL DEF Spec, LruSpec

----------------------------------------------------------------------------
(* Two caches of one trace, c with lines L and d with lines M.             *)

(* What the smaller holds the larger holds, last used by the same access.  *)
Inside(c, L, d, M, s) ==
  \A j \in L : c[s][j].valid =>
    \E k \in M : /\ d[s][k].valid /\ d[s][k].tag = c[s][j].tag
                 /\ d[s][k].time_stamp = c[s][j].time_stamp

(* What only the larger holds is older than all the smaller one holds,     *)
(* which is full.                                                          *)
Older(c, L, d, M, s) ==
  \A k \in M : d[s][k].valid /\ Held(c, L, s, d[s][k].tag) = {} =>
    \A j \in L : c[s][j].valid /\ d[s][k].time_stamp < c[s][j].time_stamp

Nested(c, L, d, M) ==
  \A s \in SetIndex : Inside(c, L, d, M, s) /\ Older(c, L, d, M, s)

(* A full larger cache does not miss a block that a smaller one with room  *)
(* for it misses: its blocks are too many for the other lines.             *)
LEMMA RoomInside ==
  ASSUME NEW L, NEW M, IsFiniteSet(L), IsFiniteSet(M), Cardinality(L) <= Cardinality(M),
         NEW c, NEW d, NEW n, Apart(d, M, n), NEW s \in SetIndex,
         Older(c, L, d, M, s), Empty(c, L, s) # {}
  PROVE  Empty(d, M, s) # {}
<1> SUFFICES ASSUME Empty(d, M, s) = {} PROVE FALSE
  OBVIOUS
<1>1. PICK e \in L : ~c[s][e].valid
  BY DEF Empty
<1> DEFINE R == L \ {e}
           f == [k \in M |-> CHOOSE j \in R : j \in Held(c, L, s, d[s][k].tag)]
<1>2. ASSUME NEW k \in M PROVE f[k] \in R /\ c[s][f[k]].tag = d[s][k].tag
  <2>1. d[s][k].valid
    BY DEF Empty
  <2>2. \E j \in R : j \in Held(c, L, s, d[s][k].tag)
    BY <1>1, <2>1 DEF Older, Held
  <2> QED BY <2>2 DEF Held
<1>3. IsFiniteSet(R) /\ Cardinality(R) < Cardinality(M)
  <2>1. /\ IsFiniteSet(R) /\ Cardinality(R) = Cardinality(L) - 1
        /\ Cardinality(L) \in Nat /\ Cardinality(M) \in Nat
    BY <1>1, FS_RemoveElement, FS_CardinalityType
  <2> QED BY <2>1
<1>4. f \in [M -> R]
  BY <1>2
<1> HIDE DEF f, R
<1>5. PICK k, l \in M : k # l /\ f[k] = f[l]
  BY <1>3, <1>4, FS_PigeonHole
<1>6. d[s][k].tag = d[s][l].tag /\ d[s][k].valid /\ d[s][l].valid
  BY <1>2, <1>5 DEF Empty
<1> QED BY <1>5, <1>6 DEF Apart

(* One access of both caches keeps them nested; where the larger one       *)
(* misses or evicts, so does the smaller one.                              *)
LEMMA NestedAccess ==
  ASSUME NEW L, NEW M, IsFiniteSet(L), IsFiniteSet(M), Cardinality(L) <= Cardinality(M),
         NEW c \in CacheOf(L), NEW c2 \in CacheOf(L), NEW d \in CacheOf(M), NEW d2 \in CacheOf(M),
         NEW n \in Nat, Apart(c, L, n), Apart(d, M, n), Nested(c, L, d, M),
         NEW s \in SetIndex, NEW t, NEW j \in L, NEW k \in M,
         Takes(c, L, s, t, j), After(c, c2, L, s, t, j, n),
         Takes(d, M, s, t, k), After(d, d2, M, s, t, k, n)
  PROVE  /\ Nested(c2, L, d2, M)
         /\ Held(d, M, s, t) = {} => Held(c, L, s, t) = {}
         /\ Held(d, M, s, t) = {} /\ Empty(d, M, s) = {} => Empty(c, L, s) = {}
<1>1. /\ \A r \in SetIndex, x \in L : c[r][x].time_stamp \in Int
      /\ \A r \in SetIndex, x \in M : d[r][x].time_stamp \in Int
  BY DEF CacheOf, Block
<1>2. Inside(c, L, d, M, s) /\ Older(c, L, d, M, s)
  BY DEF Nested
<1>3. Held(c, L, s, t) # {} => Held(d, M, s, t) # {}
  BY <1>2 DEF Inside, Held
<1>4. Empty(c, L, s) # {} => Empty(d, M, s) # {}
  BY <1>2, RoomInside
<1>5. Held(c, L, s, t) = {} /\ Held(d, M, s, t) # {} => Empty(c, L, s) = {}
  BY <1>2 DEF Older, Held, Empty
<1>6. /\ c2[s][j].valid /\ c2[s][j].tag = t /\ c2[s][j].time_stamp = n
      /\ d2[s][k].valid /\ d2[s][k].tag = t /\ d2[s][k].time_stamp = n
      /\ \A x \in L \ {j} : c2[s][x] = c[s][x]
      /\ \A x \in M \ {k} : d2[s][x] = d[s][x]
  BY DEF After
<1>7. /\ \A x \in L \ {j} : c[s][x].valid => c[s][x].tag # t
      /\ \A x \in M \ {k} : d[s][x].valid => d[s][x].tag # t
  BY DEF Takes, Held, Apart
<1>8. ASSUME NEW x \in L \ {j}, c[s][x].valid
      PROVE  \E y \in M \ {k} : /\ d[s][y].valid /\ d[s][y].tag = c[s][x].tag
                                /\ d[s][y].time_stamp = c[s][x].time_stamp
  <2>1. PICK y \in M : /\ d[s][y].valid /\ d[s][y].tag = c[s][x].tag
                        /\ d[s][y].time_stamp = c[s][x].time_stamp
    BY <1>2, <1>8 DEF Inside
  <2>2. ASSUME y = k PROVE FALSE
    <3>1. c[s][x].tag # t
      BY <1>7, <1>8
    <3>2. Held(d, M, s, t) = {} /\ Empty(d, M, s) = {} /\ k \in Oldest(d, M, s)
      BY <2>1, <2>2, <3>1 DEF Takes, Held, Empty
    <3>3. Held(c, L, s, t) = {} /\ Empty(c, L, s) = {} /\ j \in Oldest(c, L, s)
      BY <1>3, <1>4, <3>2 DEF Takes, Held
    <3>4. PICK z \in M : d[s][z].valid /\ d[s][z].time_stamp = c[s][j].time_stamp
      BY <1>2, <3>3 DEF Empty, Inside
    <3>5. d[s][k].time_stamp <= d[s][z].time_stamp /\ c[s][j].time_stamp <= c[s][x].time_stamp
      BY <3>2, <3>3 DEF Oldest
    <3>6. c[s][j].time_stamp = c[s][x].time_stamp
      BY <1>1, <2>1, <2>2, <3>4, <3>5
    <3>7. c[s][j].valid
      BY <3>3 DEF Empty
    <3> QED BY <1>8, <3>6, <3>7 DEF Apart
  <2> QED BY <2>1, <2>2
<1>9. Inside(c2, L, d2, M, s)
  <2>1. ASSUME NEW x \in L, c2[s][x].valid
        PROVE  \E y \in M : /\ d2[s][y].valid /\ d2[s][y].tag = c2[s][x].tag
                            /\ d2[s][y].time_stamp = c2[s][x].time_stamp
    <3>1. CASE x = j
      BY <1>6, <3>1
    <3>2. CASE x # j
      <4>1. PICK y \in M \ {k} : /\ d[s][y].valid /\ d[s][y].tag = c[s][x].tag
                                 /\ d[s][y].time_stamp = c[s][x].time_stamp
        BY <1>6, <1>8, <2>1, <3>2
      <4>2. d2[s][y] = d[s][y] /\ c2[s][x] = c[s][x]
        BY <1>6, <3>2
      <4> QED BY <4>1, <4>2
    <3> QED BY <3>1, <3>2
  <2> QED BY <2>1 DEF Inside
<1>10. Older(c2, L, d2, M, s)
  <2>1. ASSUME NEW y \in M, d2[s][y].valid, Held(c2, L, s, d2[s][y].tag) = {}, NEW x \in L
        PROVE  c2[s][x].valid /\ d2[s][y].time_stamp < c2[s][x].time_stamp
    <3> DEFINE u == d[s][y].tag
    <3>1. y # k
      BY <1>6, <2>1 DEF Held
    <3>2. d2[s][y] = d[s][y] /\ d[s][y].valid /\ u # t
      BY <1>6, <1>7, <2>1, <3>1
    <3>3. \A z \in L \ {j} : ~(c[s][z].valid /\ c[s][z].tag = u)
      BY <1>6, <2>1, <3>2 DEF Held
    <3>4. \A z \in L \ {j} : c[s][z].valid /\ d[s][y].time_stamp < c[s][z].time_stamp
      <4>1. CASE Held(c, L, s, u) = {}
        BY <1>2, <3>2, <4>1 DEF Older
      <4>2. CASE Held(c, L, s, u) # {}
        <5>1. c[s][j].valid /\ c[s][j].tag = u
          BY <3>3, <4>2 DEF Held
        <5>2. Held(c, L, s, t) = {} /\ Empty(c, L, s) = {} /\ j \in Oldest(c, L, s)
          BY <3>2, <5>1 DEF Takes, Held, Empty
        <5>3. PICK z \in M : /\ d[s][z].valid /\ d[s][z].tag = u
                              /\ d[s][z].time_stamp = c[s][j].time_stamp
          BY <1>2, <5>1 DEF Inside
        <5>4. z = y
          BY <3>2, <5>3 DEF Apart
        <5>5. ASSUME NEW w \in L \ {j}
              PROVE  c[s][w].valid /\ d[s][y].time_stamp < c[s][w].time_stamp
          <6>1. c[s][w].valid /\ c[s][j].time_stamp <= c[s][w].time_stamp
            BY <5>2 DEF Empty, Oldest
          <6>2. c[s][j].time_stamp # c[s][w].time_stamp
            BY <5>1, <6>1 DEF Apart
          <6> QED BY <1>1, <5>3, <5>4, <6>1, <6>2
        <5> QED BY <5>5
      <4> QED BY <4>1, <4>2
    <3>5. CASE x = j
      <4>1. d[s][y].time_stamp < n
        BY <3>2 DEF Apart
      <4> QED BY <1>6, <3>2, <3>5, <4>1
    <3>6. CASE x # j
      BY <1>6, <3>2, <3>4, <3>6
    <3> QED BY <3>5, <3>6
  <2> QED BY <2>1 DEF Older
<1>11. ASSUME NEW r \in SetIndex, r # s
       PROVE  Inside(c2, L, d2, M, r) /\ Older(c2, L, d2, M, r)
  <2>1. /\ \A x \in L : c2[r][x] = c[r][x]
        /\ \A x \in M : d2[r][x] = d[r][x]
    BY <1>11 DEF After
  <2>2. Inside(c, L, d, M, r) /\ Older(c, L, d, M, r)
    BY DEF Nested
  <2>3. \A u : Held(c2, L, r, u) = Held(c, L, r, u)
    BY <2>1 DEF Held
  <2> QED BY <2>1, <2>2, <2>3 DEF Inside, Older
<1> QED BY <1>3, <1>4, <1>9, <1>10, <1>11 DEF Nested

----------------------------------------------------------------------------
(* What an event keeps of the two caches.                                  *)
PairInv ==
  /\ cache \in CacheOf(Line) /\ small \in CacheOf(Small!Line) /\ i \in 0 .. num_events
  /\ {hits, misses, evictions, small_hits, small_misses, small_evictions} \subseteq Nat
  /\ Apart(cache, Line, i) /\ Apart(small, Small!Line, i)
  /\ Nested(small, Small!Line, cache, Line)
  /\ misses <= small_misses /\ evictions <= small_evictions
  /\ small_hits + small_misses = hits + misses

LEMMA PairStart == PairInit => PairInv
<1> SUFFICES ASSUME PairInit PROVE PairInv
  OBVIOUS
<1> DEFINE none == [valid |-> FALSE, tag |-> 0, time_stamp |-> 0]
<1>1. /\ cache = [s \in SetIndex |-> [j \in Line |-> none]]
      /\ small = [s \in SetIndex |-> [j \in Small!Line |-> none]]
  BY DEF PairInit, Init, create_cache, Small!Init, Small!create_cache, SetIndex, Small!SetIndex
<1>2. none \in Block /\ ~none.valid
  BY CsimAssumption DEF Block
<1> HIDE DEF none
<1>3. cache \in CacheOf(Line) /\ small \in CacheOf(Small!Line)
  BY <1>1, <1>2 DEF CacheOf
<1>4. /\ \A s \in SetIndex, j \in Line : ~cache[s][j].valid
      /\ \A s \in SetIndex, j \in Small!Line : ~small[s][j].valid
  BY <1>1, <1>2
<1>5. /\ Apart(cache, Line, i) /\ Apart(small, Small!Line, i)
      /\ Nested(small, Small!Line, cache, Line)
  BY <1>4 DEF Apart, Nested, Inside, Older
<1>6. /\ hits = 0 /\ misses = 0 /\ evictions = 0 /\ i = 0
      /\ small_hits = 0 /\ small_misses = 0 /\ small_evictions = 0 /\ num_events \in Nat
  BY CsimAssumption DEF PairInit, Init, Small!Init
<1> QED BY <1>3, <1>5, <1>6 DEF PairInv

LEMMA PairEvent ==
  ASSUME PairInv, NEW type \in Type, NEW a \in Address, Event(type, a), Small!Event(type, a)
  PROVE  PairInv'
<1> DEFINE s == block_set(a)
           t == block_tag(a)
           more == second_access(type)
           L == Small!Line
<1>1. /\ s \in SetIndex /\ more \in Nat
      /\ Accessed(cache, cache', Line, s, t, i, more, hits, misses, evictions,
                  hits', misses', evictions')
      /\ Accessed(small, small', L, s, t, i, more, small_hits, small_misses, small_evictions,
                  small_hits', small_misses', small_evictions')
  <2>1. /\ s \in SetIndex /\ more = IF type = "M" THEN 1 ELSE 0
        /\ Accessed(cache, cache', Line, s, t, i, more, hits, misses, evictions,
                    hits', misses', evictions')
    BY EventAccessed DEF PairInv
  <2>2. Accessed(small, small', L, s, t, i, more, small_hits, small_misses, small_evictions,
                 small_hits', small_misses', small_evictions')
    BY SmallAccessed DEF PairInv
  <2>3. more \in Nat
    BY <2>1
  <2> QED BY <2>1, <2>2, <2>3
<1>2. /\ IsFiniteSet(L) /\ IsFiniteSet(Line) /\ Cardinality(L) <= Cardinality(Line)
  BY LinesFinite
<1>5. i' = i + 1 /\ i' \in 0 .. num_events /\ i \in Nat /\ i \in 0 .. num_events
  BY CsimAssumption DEF Event, PairInv
<1> HIDE DEF s, t, more, L
<1>6. /\ small \in CacheOf(L) /\ Apart(small, L, i) /\ Nested(small, L, cache, Line)
      /\ cache \in CacheOf(Line) /\ Apart(cache, Line, i)
  BY DEF PairInv, L
<1>7. /\ cache' \in CacheOf(Line)
      /\ \E k \in Line : Takes(cache, Line, s, t, k) /\ After(cache, cache', Line, s, t, k, i)
      /\ hits' = hits + more + IF Held(cache, Line, s, t) = {} THEN 0 ELSE 1
      /\ misses' = misses + IF Held(cache, Line, s, t) = {} THEN 1 ELSE 0
      /\ evictions' = evictions
           + IF Held(cache, Line, s, t) = {} /\ Empty(cache, Line, s) = {} THEN 1 ELSE 0
  BY <1>1 DEF Accessed
<1>8. /\ small' \in CacheOf(L)
      /\ \E k \in L : Takes(small, L, s, t, k) /\ After(small, small', L, s, t, k, i)
      /\ small_hits' = small_hits + more + IF Held(small, L, s, t) = {} THEN 0 ELSE 1
      /\ small_misses' = small_misses + IF Held(small, L, s, t) = {} THEN 1 ELSE 0
      /\ small_evictions' = small_evictions
           + IF Held(small, L, s, t) = {} /\ Empty(small, L, s) = {} THEN 1 ELSE 0
  BY <1>1 DEF Accessed
<1>9. PICK k \in Line : Takes(cache, Line, s, t, k) /\ After(cache, cache', Line, s, t, k, i)
  BY <1>7
<1>10. PICK j \in L : Takes(small, L, s, t, j) /\ After(small, small', L, s, t, j, i)
  BY <1>8
<1>12. Apart(cache', Line, i + 1)
  BY <1>1, <1>5, <1>6, <1>7, <1>9, AccessApart
<1>13. Apart(small', L, i + 1)
  BY <1>1, <1>5, <1>6, <1>8, <1>10, AccessApart
<1>14. /\ Nested(small', L, cache', Line)
       /\ Held(cache, Line, s, t) = {} => Held(small, L, s, t) = {}
       /\ Held(cache, Line, s, t) = {} /\ Empty(cache, Line, s) = {} => Empty(small, L, s) = {}
  BY <1>1, <1>2, <1>5, <1>6, <1>7, <1>8, <1>9, <1>10, NestedAccess
<1>15. /\ {hits', misses', evictions', small_hits', small_misses', small_evictions'} \subseteq Nat
       /\ misses' <= small_misses' /\ evictions' <= small_evictions'
       /\ small_hits' + small_misses' = hits' + misses'
  <2>1. /\ hits \in Nat /\ misses \in Nat /\ evictions \in Nat
        /\ small_hits \in Nat /\ small_misses \in Nat /\ small_evictions \in Nat
        /\ misses <= small_misses /\ evictions <= small_evictions
        /\ small_hits + small_misses = hits + misses
    BY DEF PairInv
  <2> QED BY <1>1, <1>7, <1>8, <1>14, <2>1
<1>16. /\ Apart(cache, Line, i)' /\ Apart(small, Small!Line, i)'
       /\ Nested(small, Small!Line, cache, Line)' /\ (small \in CacheOf(Small!Line))'
  <2>1. Apart(cache', Line, i') /\ Apart(small', L, i')
    BY <1>5, <1>12, <1>13
  <2>2. Apart(cache, Line, i)'
    BY <2>1 DEF Apart
  <2>3. Apart(small, Small!Line, i)'
    BY <2>1 DEF Apart, L
  <2>4. Nested(small, Small!Line, cache, Line)'
    BY <1>14 DEF Nested, Inside, Older, Held, L
  <2>5. (small \in CacheOf(Small!Line))'
    BY <1>8 DEF CacheOf, L
  <2> QED BY <2>2, <2>3, <2>4, <2>5
<1> QED BY <1>5, <1>7, <1>15, <1>16 DEF PairInv

(* On every trace the cache with more lines per set holds all the one with *)
(* fewer holds, and has no more misses and no more evictions.              *)
THEOREM LargerHoldsMore == PairSpec => []Inclusion
<1>1. PairInv => Inclusion
  BY DEF PairInv, Nested, Inside, Inclusion, resident
<1>2. PairInv /\ [PairNext]_<<vars, Small!vars>> => PairInv'
  <2> SUFFICES ASSUME PairInv, [PairNext]_<<vars, Small!vars>> PROVE PairInv'
    OBVIOUS
  <2>1. CASE PairNext
    BY <2>1, PairEvent DEF PairNext
  <2>2. CASE UNCHANGED <<vars, Small!vars>>
    BY <2>2 DEF vars, Small!vars, PairInv, Apart, Nested, Inside, Older, Held
  <2> QED BY <2>1, <2>2
<1> QED BY PairStart, <1>1, <1>2, PTL DEF PairSpec
=============================================================================
