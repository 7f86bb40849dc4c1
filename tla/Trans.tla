-------------------------------- MODULE Trans --------------------------------
(***************************************************************************)
(* The transpose functions of trans.c on the cache they are graded with:   *)
(* direct mapped, 32 sets of 32 bytes (eval_perf(5, 1, 5)).  A step is one *)
(* iteration of the loop over x.  What A holds does not matter: an element *)
(* is its place in A.                                                      *)
(***************************************************************************)
EXTENDS Integers, Sequences, SequencesExt

CONSTANTS Sizes,        \* pairs <<M, N>>
          AddrA, AddrB  \* of tracegen's static arrays, in ints

VARIABLES M, N,
          i, j, x,    \* of the loops
          v0, v1,     \* of the 64x64 case, which keep what they held
          B,          \* place in B -> element
          cache, misses
vars == <<M, N, i, j, x, v0, v1, B, cache, misses>>

Old == <<-1, -1>>

Init == /\ \E s \in Sizes : M = s[1] /\ N = s[2]
        /\ i = 0 /\ j = 0 /\ x = 0 /\ v0 = Old /\ v1 = -1
        /\ B = [p \in (0 .. M - 1) \X (0 .. N - 1) |-> Old]
        /\ cache = [set \in 0 .. 31 |-> -1] /\ misses = 0

square == M = 32 /\ N = 32
large  == M = 64 /\ N = 64
wide   == M = 32 /\ N = 64
odd    == N = 67

block_eight == 8
block == IF large THEN 4 ELSE 8
\* How far i and j go, and x and y within a block.
i_end == CASE square -> M [] large -> 64 [] wide -> 64 [] odd -> 67 [] OTHER -> 0
j_end == CASE square -> M [] large -> 64 [] wide -> 32 [] odd -> 61 [] OTHER -> 0
upto_full(from, limit) == from + block
upto(from, limit) == IF from + block < limit THEN from + block ELSE limit
xs == upto(j, j_end) - j
ys == [k \in 1 .. upto(i, i_end) - i |-> i + k - 1]

-----------------------------------------------------------------------------
(* The element and the accesses of each copy, in the order of the code:    *)
(* a copy is [from |-> place in A, to |-> place in B].                     *)

row == j + x
copy(y) == IF large \/ square THEN [from |-> <<row, y>>, to |-> <<y, row>>]
                              ELSE [from |-> <<y, row>>, to |-> <<row, y>>]

\* On the diagonal of the 64x64 case the element waits in v0 for the row's end.
deferred(c) == large /\ c.from[1] = c.from[2]
copies == [k \in DOMAIN ys |-> copy(ys[k])]
diagonal == SelectSeq(copies, deferred)
v0_now == IF diagonal = <<>> THEN v0 ELSE Last(diagonal).from
v1_in_block == IF diagonal = <<>> THEN v1 ELSE x
v1_now == IF diagonal = <<>> THEN v1 ELSE Last(diagonal).from[1]
stores == SelectSeq(copies, LAMBDA c : ~deferred(c))
              \o IF large /\ i = j THEN <<[from |-> v0_now, to |-> <<v1_now, v1_now>>]>>
                                   ELSE <<>>

addrA(p) == AddrA + p[1] * M + p[2]
addrB(p) == AddrB + p[1] * N + p[2]
reads(c) == addrA(c.from)
writes(c) == addrB(c.to)
Map(s, Op(_)) == [k \in DOMAIN s |-> Op(s[k])]
accesses ==
    CASE square -> Map(copies, reads) \o Map(copies, writes)
      [] large  -> FlattenSeq(Map(copies, LAMBDA c :
                      IF deferred(c) THEN <<reads(c)>> ELSE <<reads(c), writes(c)>>))
                   \o IF i = j THEN <<AddrB + v1_now * N + v1_now>> ELSE <<>>
      [] OTHER  -> FlattenSeq(Map(copies, LAMBDA c : <<reads(c), writes(c)>>))

line(a) == a \div 8
access(c, a) ==
    IF c.lines[line(a) % 32] = line(a) THEN c
    ELSE [lines |-> [c.lines EXCEPT ![line(a) % 32] = line(a)], misses |-> c.misses + 1]

Row == /\ i < i_end
       /\ B' = FoldLeft(LAMBDA b, c : [b EXCEPT ![c.to] = c.from], B, stores)
       /\ v0' = v0_now /\ v1' = v1_now
       /\ LET c == FoldLeft(access, [lines |-> cache, misses |-> misses], accesses)
          IN  cache' = c.lines /\ misses' = c.misses
       /\ IF x + 1 < xs
            THEN x' = x + 1 /\ UNCHANGED <<i, j>>
            ELSE /\ x' = 0
                 /\ IF j + block < j_end THEN j' = j + block /\ UNCHANGED i
                                         ELSE j' = 0 /\ i' = i + block
       /\ UNCHANGED <<M, N>>

Next == Row
Spec == Init /\ [][Next]_vars

-----------------------------------------------------------------------------
\* No access outside the arrays, whatever the bounds of the blocks: B's places
\* of a step are places of B and A's are places of A (trans.c:45-93).
InBounds == i < i_end =>
    \A c \in ToSet(stores) :
        c.to \in DOMAIN B /\ <<c.from[2], c.from[1]>> \in DOMAIN B

\* An element of B is its old one or the right one at every step, and all are
\* right in the end: no block is left out at the ragged edges and no diagonal
\* element is lost to a value v0 kept from another row (trans.c:45-93).
Transposed ==
    /\ \A p \in DOMAIN B : B[p] \in {Old, <<p[2], p[1]>>}
    /\ i >= i_end => \A p \in DOMAIN B : B[p] # Old

\* The blocks fit the cache: every size stays below the bound of driver.py
\* where points begin to go, but for 64x64, which stays below the bound where
\* none are left (driver.py:103-106).
Misses == misses <= CASE square -> 300 [] large -> 1999 [] wide -> 700 [] odd -> 2000
=============================================================================
