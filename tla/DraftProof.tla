----------------------------- MODULE DraftProof -----------------------------
(***************************************************************************)
(* Proofs about the simple allocators, for every heap, trace and request:  *)
(* mm-implicit.c keeps its heap well formed with and without NEXT_FIT, its *)
(* search misses nothing, and it and mm-naive.c implement Allocator.       *)
(*                                                                         *)
(* As in MmHeapProof a heap is taken apart into its blocks B, their sizes  *)
(* S and their allocated bits A; here the prologue is where this allocator *)
(* has it, and there is no list to keep.                                   *)
(***************************************************************************)
EXTENDS DraftClient, WellFoundedInduction, TLAPS

USE DEF WSIZE, DSIZE, OVERHEAD, NULL, PACK, HDRP, PUT, GET,
        Implicit!WSIZE, Implicit!DSIZE, Implicit!OVERHEAD, Implicit!NULL,
        Implicit!PACK, Implicit!HDRP, Implicit!PUT, Implicit!GET

Memory == [Addr -> Word]
first == HeapBase + 2

LEMMA Defs ==
  /\ HeapBase \in Nat /\ HeapBase > 0 /\ HeapBase % 2 = 0
  /\ MAX_HEAP \in Nat /\ WordMod \in Nat /\ HeapBase + MAX_HEAP < WordMod
  /\ CHUNKSIZE \in Nat /\ CHUNKSIZE % 2 = 0 /\ CHUNKSIZE >= 4
  /\ 4 + CHUNKSIZE <= MAX_HEAP /\ 4 * MAX_HEAP <= WordMod
  /\ first = HeapBase + 2 /\ Implicit!heap_listp = first
BY MemAssumption, ClientAssumption DEF Implicit!ImplicitAssumption, first, Implicit!heap_listp

LEMMA PutFact ==
  ASSUME NEW m \in Memory, NEW p \in Addr, NEW v \in Word
  PROVE  /\ [m EXCEPT ![p] = v] \in Memory
         /\ [m EXCEPT ![p] = v][p] = v
         /\ \A a \in Addr : a # p => [m EXCEPT ![p] = v][a] = m[a]
BY DEF Memory

----------------------------------------------------------------------------
(* Blocks, sizes and tags.                                                 *)

(* The blocks of B, of S[p] words each, tile the heap up to the break.     *)
Layout(top, B, S) ==
  /\ top \in Int /\ top <= HeapBase + MAX_HEAP
  /\ S \in [B -> Nat]
  /\ first \in B /\ S[first] = 2
  /\ \A p \in B : /\ p \in Int /\ p >= first /\ p % 2 = 0
                  /\ S[p] >= 2 /\ S[p] % 2 = 0
                  /\ p # first => S[p] >= 4
                  /\ p + S[p] <= top
                  /\ p + S[p] \in B \union {top}
  /\ \A p, q \in B : p < q => p + S[p] <= q
  /\ \A q \in (B \union {top}) \ {first} : \E p \in B : p + S[p] = q

(* Header and footer of every block hold its size and bit.                 *)
Tagged(m, top, B, S, A) ==
  /\ A \in [B -> {0, 1}] /\ A[first] = 1
  /\ \A p \in B : m[p - 1] = S[p] + A[p] /\ m[p + S[p] - 2] = S[p] + A[p]
  /\ m[top - 1] = 1

FreeOf(B, A) == {p \in B : A[p] = 0}

(* The arithmetic of a layout, for use in one go.                          *)
LEMMA LayoutFacts ==
  ASSUME NEW top, NEW B, NEW S, Layout(top, B, S)
  PROVE  /\ top \in Int /\ top > first + 1 /\ top \notin B /\ top % 2 = 0
         /\ top - 1 \in Addr
         /\ \A p \in B : /\ p \in Int /\ S[p] \in Int /\ p \in Addr /\ p - 1 \in Addr
                         /\ p + S[p] - 2 \in Addr
                         /\ S[p] \in Word /\ S[p] + 1 \in Word /\ p # NULL
                         /\ p \in Word
<1>1. first \in B /\ first + 2 <= top
  BY DEF Layout
<1>2. top \in Int /\ top - 1 \in Addr
  BY <1>1, Defs DEF Layout, Addr
<1>3. top \notin B
  <2>1. \A p \in B : p \in Int /\ S[p] \in Int /\ S[p] >= 2 /\ p + S[p] <= top
    BY DEF Layout
  <2>2. \A p \in B : p < top
    BY <2>1, <1>2
  <2> QED BY <2>2, <1>2
<1>4. top % 2 = 0
  <2>1. \A q \in (B \union {top}) \ {first} : \E p \in B : p + S[p] = q
    BY DEF Layout
  <2>2. top # first
    BY <1>1, <1>3
  <2>3. PICK p \in B : p + S[p] = top
    BY <2>1, <2>2
  <2>4. p \in Int /\ S[p] \in Int /\ p % 2 = 0 /\ S[p] % 2 = 0
    BY DEF Layout
  <2> QED BY <2>3, <2>4
<1>5. \A p \in B : /\ p \in Int /\ S[p] \in Int /\ p \in Addr /\ p - 1 \in Addr
                   /\ p + S[p] - 2 \in Addr
                   /\ S[p] \in Word /\ S[p] + 1 \in Word /\ p # NULL /\ p \in Word
  <2> SUFFICES ASSUME NEW p \in B
               PROVE  /\ p \in Int /\ S[p] \in Int /\ p \in Addr /\ p - 1 \in Addr
                      /\ p + S[p] - 2 \in Addr
                      /\ S[p] \in Word /\ S[p] + 1 \in Word /\ p # NULL /\ p \in Word
    OBVIOUS
  <2>1. /\ p \in Int /\ p >= first /\ S[p] \in Int /\ S[p] >= 2
        /\ p + S[p] <= top
    BY DEF Layout
  <2>2. top \in Int /\ top <= HeapBase + MAX_HEAP
    BY DEF Layout
  <2> QED BY <2>1, <2>2, Defs DEF Addr, Word, NULL
<1> QED BY <1>1, <1>2, <1>3, <1>4, <1>5, Defs


----------------------------------------------------------------------------
(* Merging, splitting, growing.                                            *)

(* The block pointers left when s takes in every block below e.            *)
Cut(B, s, e) == {p \in B : p < s \/ p >= e} \union {s}
Join(B, S, s, e) == [p \in Cut(B, s, e) |-> IF p = s THEN e - s ELSE S[p]]

(* Neighbouring blocks merged into one tile the heap as before.            *)
LEMMA JoinLayout ==
  ASSUME NEW top, NEW B, NEW S, Layout(top, B, S),
         NEW s \in B, s # first, NEW e \in B \union {top}, s < e
  PROVE  Layout(top, Cut(B, s, e), Join(B, S, s, e))
<1> DEFINE C == Cut(B, s, e)
<1> DEFINE T == Join(B, S, s, e)
<1>1. \A p \in B : /\ p \in Int /\ p >= first /\ p % 2 = 0
                   /\ S[p] \in Nat /\ S[p] >= 2 /\ S[p] % 2 = 0
                   /\ p # first => S[p] >= 4
                   /\ p + S[p] <= top
                   /\ p + S[p] \in B \union {top}
  BY DEF Layout
<1>2. \A p, q \in B : p < q => p + S[p] <= q
  BY DEF Layout
<1>3. top \in Int /\ top % 2 = 0 /\ top \notin B /\ top <= HeapBase + MAX_HEAP
  <2>1. top \in Int /\ top % 2 = 0 /\ top \notin B
    BY LayoutFacts
  <2>2. top <= HeapBase + MAX_HEAP
    BY DEF Layout
  <2> QED BY <2>1, <2>2
<1>4. e \in Int /\ e % 2 = 0 /\ e <= top /\ s \in Int /\ s + S[s] <= e /\ s % 2 = 0
  <2>1. CASE e = top
    BY <2>1, <1>1, <1>3
  <2>2. CASE e \in B
    <3>1. e \in Int /\ e % 2 = 0 /\ e + S[e] <= top /\ S[e] \in Nat /\ s + S[s] <= e
      BY <2>2, <1>1, <1>2
    <3> QED BY <3>1, <1>1, <1>3
  <2> QED BY <2>1, <2>2
<1>5. /\ \A p \in C : p \in B /\ (p # s => p < s \/ p >= e)
      /\ \A p \in B : p < s \/ p >= e => p \in C
      /\ s \in C
  BY DEF Cut
<1>6. T[s] = e - s /\ (\A p \in C : p # s => T[p] = S[p]) /\ DOMAIN T = C
  BY DEF Join, Cut
<1>7. e - s \in Nat /\ e - s >= 4 /\ (e - s) % 2 = 0
  BY <1>1, <1>4
<1>8. T \in [C -> Nat]
  BY <1>1, <1>5, <1>7 DEF Join, Cut
<1> HIDE DEF C, T
<1>9. first \in C /\ T[first] = 2
  <2>1. first \in B /\ S[first] = 2 /\ first < s
    BY <1>1 DEF Layout
  <2> QED BY <2>1, <1>5, <1>6
<1>10. e \in C \union {top}
  BY <1>4, <1>5
<1>11. ASSUME NEW p \in C
       PROVE  /\ p \in Int /\ p >= first /\ p % 2 = 0
              /\ T[p] >= 2 /\ T[p] % 2 = 0
              /\ p # first => T[p] >= 4
              /\ p + T[p] <= top
              /\ p + T[p] \in C \union {top}
  <2>1. CASE p = s
    BY <2>1, <1>1, <1>4, <1>6, <1>7, <1>10
  <2>2. CASE p # s
    <3>1. p \in B /\ T[p] = S[p] /\ (p < s \/ p >= e)
      BY <2>2, <1>5, <1>6
    <3>2. p + S[p] \in C \union {top}
      <4>1. CASE p < s
        <5>1. p + S[p] <= s
          BY <4>1, <3>1, <1>2
        <5> QED BY <5>1, <3>1, <1>1, <1>4, <1>5
      <4>2. CASE p >= e
        <5>1. p + S[p] >= e
          BY <4>2, <3>1, <1>1, <1>4
        <5> QED BY <5>1, <3>1, <1>1, <1>4, <1>5
      <4> QED BY <3>1, <4>1, <4>2
    <3> QED BY <3>1, <3>2, <1>1
  <2> QED BY <2>1, <2>2
<1>12. ASSUME NEW p \in C, NEW q \in C, p < q
       PROVE  p + T[p] <= q
  <2>1. CASE p = s
    <3>1. q >= e
      <4>1. q \in Int /\ s \in Int /\ s < q
        BY <2>1, <1>1, <1>4, <1>5, <1>12
      <4>2. q # s => q < s \/ q >= e
        BY <1>5
      <4> QED BY <4>1, <4>2
    <3> QED BY <3>1, <2>1, <1>4, <1>6
  <2>2. CASE p # s
    BY <2>2, <1>2, <1>5, <1>6, <1>12
  <2> QED BY <2>1, <2>2
<1>13. ASSUME NEW q \in (C \union {top}) \ {first}
       PROVE  \E p \in C : p + T[p] = q
  <2>1. CASE q = e
    BY <2>1, <1>4, <1>5, <1>6
  <2>2. CASE q # e
    <3>1. PICK p \in B : p + S[p] = q
      BY <1>5 DEF Layout
    <3>2. p < s \/ p >= e
      <4>1. CASE q = s
        BY <4>1, <3>1, <1>1
      <4>2. CASE q # s /\ q < s
        BY <4>2, <3>1, <1>1, <1>4
      <4>3. CASE q # s /\ q >= s
        <5>1. q > e
          BY <4>3, <2>2, <1>1, <1>3, <1>4, <1>5
        <5>2. e \in B
          BY <5>1, <1>1, <1>3, <1>5
        <5>3. p < e => p + S[p] <= e
          BY <5>2, <1>2
        <5> QED BY <5>1, <5>3, <3>1, <1>1, <1>4
      <4> QED BY <4>1, <4>2, <4>3, <1>1, <1>3, <1>4, <1>5
    <3>3. p \in C /\ p # s
      BY <3>2, <1>4, <1>5, <1>1, <3>1
    <3> QED BY <3>1, <3>3, <1>6
  <2> QED BY <2>1, <2>2
<1>14. Layout(top, C, T)
  BY <1>3, <1>8, <1>9, <1>11, <1>12, <1>13 DEF Layout
<1> QED BY <1>14 DEF C, T

(* A block of S[s] words cut into one of a words and the rest.             *)
Split(B, S, s, a) ==
  [p \in B \union {s + a} |->
     IF p = s THEN a ELSE IF p = s + a THEN S[s] - a ELSE S[p]]

(* A block cut in two tiles the heap as before.                            *)
LEMMA SplitLayout ==
  ASSUME NEW top, NEW B, NEW S, Layout(top, B, S),
         NEW s \in B, s # first, NEW a \in Nat, a % 2 = 0, a >= 4,
         S[s] - a >= 4
  PROVE  /\ Layout(top, B \union {s + a}, Split(B, S, s, a))
         /\ s + a \notin B
<1> DEFINE C == B \union {s + a}
<1> DEFINE T == Split(B, S, s, a)
<1>1. \A p \in B : /\ p \in Int /\ p >= first /\ p % 2 = 0
                   /\ S[p] \in Nat /\ S[p] >= 2 /\ S[p] % 2 = 0
                   /\ p # first => S[p] >= 4
                   /\ p + S[p] <= top
                   /\ p + S[p] \in B \union {top}
  BY DEF Layout
<1>2. \A p, q \in B : p < q => p + S[p] <= q
  BY DEF Layout
<1>3. top \in Int /\ top <= HeapBase + MAX_HEAP
  BY DEF Layout
<1>4. s + a \notin B /\ s + a \in Int /\ s + a > s /\ s + a < top
  BY <1>1, <1>2, <1>3
<1>5. /\ \A p \in B : p # s => T[p] = S[p]
      /\ T[s] = a /\ T[s + a] = S[s] - a
  BY <1>4 DEF Split
<1>6. T \in [C -> Nat]
  BY <1>1 DEF Split
<1>7. /\ \A p \in C : p \in B \/ p = s + a
      /\ \A p \in B : p \in C
      /\ s + a \in C
  OBVIOUS
<1> HIDE DEF C, T
<1>8. first \in C /\ T[first] = 2
  BY <1>5, <1>7 DEF Layout
<1>9. ASSUME NEW p \in C
      PROVE  /\ p \in Int /\ p >= first /\ p % 2 = 0
             /\ T[p] >= 2 /\ T[p] % 2 = 0
             /\ p # first => T[p] >= 4
             /\ p + T[p] <= top
             /\ p + T[p] \in C \union {top}
  <2>0. /\ s \in Int /\ s >= first /\ s % 2 = 0 /\ S[s] \in Nat /\ S[s] % 2 = 0
        /\ s + S[s] <= top /\ s + S[s] \in B \union {top} /\ first \in Int
    BY <1>1, Defs
  <2>1. CASE p = s
    <3>1. T[p] = a /\ p + T[p] \in C
      BY <2>1, <1>5, <1>7
    <3>2. p + T[p] <= top /\ a >= 2
      <4>1. top \in Int
        BY <1>3
      <4>2. s + a <= top /\ a >= 2
        BY <2>0, <4>1
      <4> QED BY <2>1, <3>1, <4>2
    <3>3. p + T[p] \in C \union {top}
      BY <3>1
    <3> QED BY <2>0, <2>1, <3>1, <3>2, <3>3
  <2>2. CASE p = s + a
    <3>1. T[p] = S[s] - a
      BY <2>2, <1>5
    <3>2. p + T[p] = s + S[s]
      BY <2>0, <2>2, <3>1
    <3>3. p + T[p] \in C \union {top}
      BY <3>2, <2>0, <1>7
    <3>4. (s + a) % 2 = 0 /\ (S[s] - a) % 2 = 0
      BY <2>0
    <3>5. /\ S[s] - a \in Int /\ S[s] - a >= 4 /\ S[s] - a >= 2
          /\ s + a \in Int /\ s + a >= first
      BY <2>0
    <3>6. p + T[p] <= top
      BY <2>0, <3>2
    <3> HIDE DEF C
    <3> QED BY <2>2, <3>1, <3>3, <3>4, <3>5, <3>6
  <2>3. CASE p # s /\ p \in B
    BY <2>3, <1>1, <1>5, <1>7
  <2> QED BY <2>1, <2>2, <2>3, <1>7
<1>10. ASSUME NEW p \in C, NEW q \in C, p < q
       PROVE  p + T[p] <= q
  <2>0. s \in Int /\ S[s] \in Nat
    BY <1>1
  <2>1. CASE p = s
    BY <2>0, <2>1, <1>1, <1>2, <1>5, <1>7, <1>10
  <2>2. CASE p = s + a
    <3>1. q \in B /\ s < q
      BY <2>0, <2>2, <1>4, <1>7, <1>10, <1>1
    <3> QED BY <2>0, <3>1, <2>2, <1>2, <1>5
  <2>3. CASE p # s /\ p # s + a
    <3>1. p \in B /\ T[p] = S[p] /\ p \in Int /\ S[p] \in Nat
      BY <2>3, <1>5, <1>7, <1>1
    <3>2. CASE q \in B
      BY <3>1, <3>2, <1>2, <1>10
    <3>3. CASE q = s + a
      <4>1. p < s
        <5>1. p > s => s + S[s] <= p
          BY <3>1, <1>2
        <5> QED BY <5>1, <2>0, <2>3, <3>1, <3>3, <1>10
      <4> QED BY <4>1, <3>1, <3>3, <2>0, <1>2
    <3> QED BY <3>2, <3>3, <1>7
  <2> QED BY <2>1, <2>2, <2>3
<1>11. ASSUME NEW q \in (C \union {top}) \ {first}
       PROVE  \E p \in C : p + T[p] = q
  <2>1. CASE q = s + a
    BY <2>1, <1>5, <1>7
  <2>2. CASE q # s + a
    <3>1. PICK p \in B : p + S[p] = q
      BY <2>2, <1>7 DEF Layout
    <3>2. CASE p = s
      BY <3>1, <3>2, <1>1, <1>5, <1>7
    <3>3. CASE p # s
      BY <3>1, <3>3, <1>5, <1>7
    <3> QED BY <3>2, <3>3
  <2> QED BY <2>1, <2>2
<1>12. Layout(top, C, T)
  BY <1>3, <1>6, <1>8, <1>9, <1>10, <1>11 DEF Layout
<1> QED BY <1>4, <1>12 DEF C, T

(* A block of g words added at the break.                                  *)
Grow(B, S, top, g) == [p \in B \union {top} |-> IF p = top THEN g ELSE S[p]]

(* The layout extend_heap leaves: the new block starts at the old break.   *)
LEMMA GrowLayout ==
  ASSUME NEW top, NEW B, NEW S, Layout(top, B, S),
         NEW g \in Nat, g % 2 = 0, g >= 4, top + g <= HeapBase + MAX_HEAP
  PROVE  Layout(top + g, B \union {top}, Grow(B, S, top, g))
<1> DEFINE C == B \union {top}
<1> DEFINE T == Grow(B, S, top, g)
<1>1. \A p \in B : /\ p \in Int /\ p >= first /\ p % 2 = 0
                   /\ S[p] \in Nat /\ S[p] >= 2 /\ S[p] % 2 = 0
                   /\ p # first => S[p] >= 4
                   /\ p + S[p] <= top
                   /\ p + S[p] \in B \union {top}
  BY DEF Layout
<1>2. \A p, q \in B : p < q => p + S[p] <= q
  BY DEF Layout
<1>3. top \in Int /\ top \notin B /\ top > first /\ top % 2 = 0 /\ first \in Int
  BY LayoutFacts, Defs
<1>4. (\A p \in B : T[p] = S[p]) /\ T[top] = g
  BY <1>3 DEF Grow
<1>5. T \in [C -> Nat]
  BY <1>1 DEF Grow
<1>6. \A p : p \in C <=> p \in B \/ p = top
  OBVIOUS
<1> HIDE DEF C, T
<1>7. first \in C /\ T[first] = 2
  BY <1>4, <1>6 DEF Layout
<1>8. ASSUME NEW p \in C
      PROVE  /\ p \in Int /\ p >= first /\ p % 2 = 0
             /\ T[p] >= 2 /\ T[p] % 2 = 0
             /\ p # first => T[p] >= 4
             /\ p + T[p] <= top + g
             /\ p + T[p] \in C \union {top + g}
  <2>1. CASE p = top
    BY <2>1, <1>3, <1>4
  <2>2. CASE p \in B
    BY <2>2, <1>1, <1>3, <1>4, <1>6
  <2> QED BY <2>1, <2>2, <1>6
<1>9. ASSUME NEW p \in C, NEW q \in C, p < q
      PROVE  p + T[p] <= q
  <2>1. p \in B /\ T[p] = S[p]
    BY <1>1, <1>3, <1>4, <1>6, <1>9
  <2>2. CASE q = top
    BY <2>1, <2>2, <1>1
  <2>3. CASE q \in B
    BY <2>1, <2>3, <1>2, <1>9
  <2> QED BY <2>2, <2>3, <1>6
<1>10. ASSUME NEW q \in (C \union {top + g}) \ {first}
       PROVE  \E p \in C : p + T[p] = q
  <2>1. CASE q = top + g
    BY <2>1, <1>4, <1>6
  <2>2. CASE q # top + g
    <3>1. PICK p \in B : p + S[p] = q
      BY <2>2, <1>6 DEF Layout
    <3> QED BY <3>1, <1>4, <1>6
  <2> QED BY <2>1, <2>2
<1>11. top + g \in Int
  BY <1>3
<1>12. Layout(top + g, C, T)
  BY <1>5, <1>7, <1>8, <1>9, <1>10, <1>11 DEF Layout
<1> QED BY <1>12 DEF C, T

------------------------------------------------------------------

----------------------------------------------------------------------------
(* What the macros read of a heap, and what the routines write.            *)

LEMMA Reads ==
  ASSUME NEW m, NEW top, NEW B, NEW S, NEW A,
         Layout(top, B, S), Tagged(m, top, B, S, A), NEW p \in B
  PROVE  /\ GET_SIZE(m, p - 1) = S[p] /\ GET_ALLOC(m, p - 1) = A[p]
         /\ NEXT_BLKP(m, p) = p + S[p] /\ FTRP(m, p) = p + S[p] - 2
         /\ Implicit!GET_SIZE(m, p - 1) = S[p] /\ Implicit!GET_ALLOC(m, p - 1) = A[p]
         /\ Implicit!NEXT_BLKP(m, p) = p + S[p] /\ Implicit!FTRP(m, p) = p + S[p] - 2
         /\ Implicit!GET_SIZE(m, p + S[p] - 2) = S[p]
         /\ Implicit!GET_ALLOC(m, p + S[p] - 2) = A[p]
         /\ Implicit!PREV_BLKP(m, p + S[p]) = p
<1>1. /\ S[p] \in Int /\ S[p] % 2 = 0 /\ A[p] \in {0, 1} /\ p \in Int
      /\ m[p - 1] = S[p] + A[p] /\ m[p + S[p] - 2] = S[p] + A[p]
  BY DEF Layout, Tagged
<1>2. (S[p] + A[p]) % 2 = A[p] /\ (S[p] + A[p]) - A[p] = S[p]
  BY <1>1
<1>3. GET_SIZE(m, p - 1) = S[p] /\ GET_ALLOC(m, p - 1) = A[p]
  BY <1>1, <1>2 DEF GET_SIZE, GET_ALLOC
<1>4. Implicit!GET_SIZE(m, p - 1) = S[p] /\ Implicit!GET_ALLOC(m, p - 1) = A[p]
  BY <1>1, <1>2 DEF Implicit!GET_SIZE, Implicit!GET_ALLOC
<1>5. NEXT_BLKP(m, p) = p + S[p] /\ FTRP(m, p) = p + S[p] - 2
  BY <1>3 DEF NEXT_BLKP, FTRP
<1>6. Implicit!NEXT_BLKP(m, p) = p + S[p] /\ Implicit!FTRP(m, p) = p + S[p] - 2
  BY <1>4 DEF Implicit!NEXT_BLKP, Implicit!FTRP
<1>7. /\ Implicit!GET_SIZE(m, p + S[p] - 2) = S[p]
      /\ Implicit!GET_ALLOC(m, p + S[p] - 2) = A[p]
  BY <1>1, <1>2 DEF Implicit!GET_SIZE, Implicit!GET_ALLOC
<1>8. Implicit!PREV_BLKP(m, p + S[p]) = p
  <2>1. Implicit!GET_SIZE(m, p + S[p] - 2) = S[p]
    BY <1>7
  <2> QED BY <2>1, <1>1 DEF Implicit!PREV_BLKP
<1> QED BY <1>3, <1>4, <1>5, <1>6, <1>7, <1>8

(* The epilogue reads as an allocated block of no size.                    *)
LEMMA TopReads ==
  ASSUME NEW m, NEW top \in Int, NEW B, NEW S, NEW A, Tagged(m, top, B, S, A)
  PROVE  /\ Implicit!GET_SIZE(m, top - 1) = 0 /\ Implicit!GET_ALLOC(m, top - 1) = 1
         /\ Implicit!NEXT_BLKP(m, top) = top
<1>1. m[top - 1] = 1
  BY DEF Tagged
<1> QED BY <1>1 DEF Implicit!GET_SIZE, Implicit!GET_ALLOC, Implicit!NEXT_BLKP

(* n is m but for the two tags of a block of size words at b.              *)
Tags(m, n, b, size, alloc) ==
  /\ n \in Memory /\ n[b - 1] = size + alloc /\ n[b + size - 2] = size + alloc
  /\ \A a \in Addr : a # b - 1 /\ a # b + size - 2 => n[a] = m[a]

LEMMA TagsWritten ==
  ASSUME NEW m \in Memory, NEW b \in Int, NEW size \in Nat, NEW alloc \in {0, 1},
         size % 2 = 0, size >= 2, size + 1 \in Word,
         b - 1 \in Addr, b + size - 2 \in Addr
  PROVE  Tags(m, Implicit!tags(m, b, size, alloc), b, size, alloc)
<1> DEFINE v == size + alloc
           m1 == [m EXCEPT ![b - 1] = v]
           m2 == [m1 EXCEPT ![b + size - 2] = v]
<1>1. v \in Word /\ v % 2 = alloc /\ v - alloc = size
  BY Defs DEF Word
<1>2. m1 \in Memory /\ m1[b - 1] = v /\ \A a \in Addr : a # b - 1 => m1[a] = m[a]
  BY <1>1, PutFact
<1>3. Implicit!GET_SIZE(m1, b - 1) = size
  <2> HIDE DEF m1
  <2> QED BY <1>1, <1>2 DEF Implicit!GET_SIZE
<1>4. Implicit!FTRP(m1, b) = b + size - 2
  BY <1>3 DEF Implicit!FTRP
<1>5. Implicit!tags(m, b, size, alloc) = m2
  BY <1>4 DEF Implicit!tags
<1> HIDE DEF m1
<1>6. m2 \in Memory /\ m2[b + size - 2] = v /\ \A a \in Addr : a # b + size - 2 => m2[a] = m1[a]
  BY <1>1, <1>2, PutFact
<1>7. m2[b - 1] = v
  BY <1>2, <1>6
<1> HIDE DEF m2
<1> QED BY <1>2, <1>5, <1>6, <1>7 DEF Tags

LEMMA BlockFacts ==
  ASSUME NEW m, NEW top, NEW B, NEW S, NEW A,
         Layout(top, B, S), Tagged(m, top, B, S, A)
  PROVE  \A p \in B : /\ p \in Int /\ S[p] \in Int /\ S[p] >= 2 /\ p >= first
                     /\ p + S[p] <= top /\ p + S[p] - 2 \in Addr /\ p - 1 \in Addr
                     /\ A[p] \in {0, 1}
<1>1. \A p \in B : p \in Int /\ S[p] \in Int /\ p + S[p] - 2 \in Addr /\ p - 1 \in Addr
  BY LayoutFacts
<1>2. \A p \in B : S[p] >= 2 /\ p >= first /\ p + S[p] <= top
  BY DEF Layout
<1>3. \A p \in B : A[p] \in {0, 1}
  BY DEF Tagged
<1> QED BY <1>1, <1>2, <1>3

(* One block where there were those from s up to e, tagged as such.        *)
Bits(B, A, s, e, v) == [p \in Cut(B, s, e) |-> IF p = s THEN v ELSE A[p]]

LEMMA JoinTagged ==
  ASSUME NEW m \in Memory, NEW top, NEW B, NEW S, NEW A,
         Layout(top, B, S), Tagged(m, top, B, S, A),
         NEW s \in B, s # first, NEW e \in B \union {top}, s < e, NEW v \in {0, 1},
         NEW n, Tags(m, n, s, e - s, v)
  PROVE  Tagged(n, top, Cut(B, s, e), Join(B, S, s, e), Bits(B, A, s, e, v))
<1> DEFINE C == Cut(B, s, e)
           T == Join(B, S, s, e)
           D == Bits(B, A, s, e, v)
<1>1. \A p \in B : /\ p \in Int /\ S[p] \in Int /\ S[p] >= 2 /\ p >= first
                   /\ p + S[p] <= top /\ p + S[p] - 2 \in Addr /\ p - 1 \in Addr
                   /\ A[p] \in {0, 1}
  BY BlockFacts
<1>2. \A p, q \in B : p < q => p + S[p] <= q
  BY DEF Layout
<1>3. top \in Int /\ e \in Int /\ e <= top /\ s \in Int /\ s + S[s] <= e /\ top - 1 \in Addr
  <2>1. top \in Int /\ top - 1 \in Addr
    BY LayoutFacts
  <2>2. CASE e = top
    BY <1>1, <2>1, <2>2
  <2>3. CASE e \in B
    BY <1>1, <1>2, <2>1, <2>3
  <2> QED BY <2>2, <2>3, <2>1
<1>4. \A p \in C : p = s \/ (p \in B /\ p # s /\ (p < s \/ p >= e))
  BY DEF Cut
<1>5. /\ D \in [C -> {0, 1}] /\ D[s] = v /\ T[s] = e - s /\ s \in C
      /\ \A p \in C : p # s => D[p] = A[p] /\ T[p] = S[p]
  BY <1>1, <1>4 DEF Bits, Join, Cut
<1>6. first \in C /\ D[first] = 1
  <2>1. first \in B /\ first < s /\ A[first] = 1
    BY <1>1 DEF Layout, Tagged, first
  <2>2. first \in C
    BY <2>1 DEF Cut
  <2> QED BY <2>1, <2>2, <1>5
<1>7. n[s - 1] = e - s + v /\ n[s + (e - s) - 2] = e - s + v
      /\ \A a \in Addr : a # s - 1 /\ a # s + (e - s) - 2 => n[a] = m[a]
  BY DEF Tags
<1> HIDE DEF C, T, D
<1>8. ASSUME NEW p \in C
      PROVE  n[p - 1] = T[p] + D[p] /\ n[p + T[p] - 2] = T[p] + D[p]
  <2>1. CASE p = s
    BY <2>1, <1>5, <1>7
  <2>2. CASE p # s
    <3>1. p \in B /\ T[p] = S[p] /\ D[p] = A[p] /\ (p < s \/ p >= e)
      BY <2>2, <1>4, <1>5
    <3>2. m[p - 1] = S[p] + A[p] /\ m[p + S[p] - 2] = S[p] + A[p]
      BY <3>1 DEF Tagged
    <3>3. CASE p < s
      <4>1. p + S[p] <= s
        BY <3>1, <3>3, <1>2
      <4>2. /\ p - 1 # s - 1 /\ p - 1 # s + (e - s) - 2
            /\ p + S[p] - 2 # s - 1 /\ p + S[p] - 2 # s + (e - s) - 2
        BY <3>1, <3>3, <4>1, <1>1, <1>3
      <4> QED BY <3>1, <3>2, <4>2, <1>1, <1>7
    <3>4. CASE p >= e
      <4>1. /\ p - 1 # s - 1 /\ p - 1 # s + (e - s) - 2
            /\ p + S[p] - 2 # s - 1 /\ p + S[p] - 2 # s + (e - s) - 2
        BY <3>1, <3>4, <1>1, <1>3
      <4> QED BY <3>1, <3>2, <4>1, <1>1, <1>7
    <3> QED BY <3>1, <3>3, <3>4
  <2> QED BY <2>1, <2>2
<1>9. n[top - 1] = 1
  <2>1. top - 1 # s - 1 /\ top - 1 # s + (e - s) - 2
    BY <1>1, <1>3
  <2> QED BY <2>1, <1>3, <1>7 DEF Tagged
<1> QED BY <1>5, <1>6, <1>8, <1>9 DEF Tagged, C, T, D

(* Where one block stays one block the blocks are the same.                *)
LEMMA SameBlocks ==
  ASSUME NEW top, NEW B, NEW S, Layout(top, B, S), NEW s \in B
  PROVE  Cut(B, s, s + S[s]) = B /\ Join(B, S, s, s + S[s]) = S
<1>1. \A p \in B : p \in Int /\ S[p] \in Nat
  BY DEF Layout
<1>2. \A p \in B : s < p => s + S[s] <= p
  BY DEF Layout
<1>3. Cut(B, s, s + S[s]) = B
  BY <1>1, <1>2 DEF Cut
<1>4. S = [p \in B |-> S[p]] /\ (s + S[s]) - s = S[s]
  BY <1>1 DEF Layout
<1> QED BY <1>3, <1>4 DEF Join

(* The first a words of s allocated and the rest left free.                *)
SplitBits(B, A, s, a) ==
  [p \in B \union {s + a} |-> IF p = s THEN 1 ELSE IF p = s + a THEN 0 ELSE A[p]]

LEMMA SplitTagged ==
  ASSUME NEW m \in Memory, NEW top, NEW B, NEW S, NEW A,
         Layout(top, B, S), Tagged(m, top, B, S, A),
         NEW s \in B, s # first, NEW a \in Nat, a % 2 = 0, a >= 4, S[s] - a >= 4,
         NEW n1, Tags(m, n1, s, a, 1), NEW n, Tags(n1, n, s + a, S[s] - a, 0)
  PROVE  Tagged(n, top, B \union {s + a}, Split(B, S, s, a), SplitBits(B, A, s, a))
<1> DEFINE C == B \union {s + a}
           T == Split(B, S, s, a)
           D == SplitBits(B, A, s, a)
<1>1. \A p \in B : /\ p \in Int /\ S[p] \in Int /\ S[p] >= 2 /\ p >= first
                   /\ p + S[p] <= top /\ p + S[p] - 2 \in Addr /\ p - 1 \in Addr
                   /\ A[p] \in {0, 1}
  BY BlockFacts
<1>2. \A p, q \in B : p < q => p + S[p] <= q
  BY DEF Layout
<1>3. top \in Int /\ top - 1 \in Addr
  BY LayoutFacts
<1>4. s + a \notin B /\ s + a # s
  BY SplitLayout, <1>1
<1>5. /\ D \in [C -> {0, 1}] /\ D[s] = 1 /\ T[s] = a /\ D[s + a] = 0 /\ T[s + a] = S[s] - a
      /\ \A p \in B : p # s => D[p] = A[p] /\ T[p] = S[p]
  BY <1>1, <1>4 DEF Split, SplitBits
<1>6. first \in C /\ D[first] = 1
  BY <1>5 DEF Layout, Tagged
<1>7. /\ n1[s - 1] = a + 1 /\ n1[s + a - 2] = a + 1
      /\ \A x \in Addr : x # s - 1 /\ x # s + a - 2 => n1[x] = m[x]
  BY DEF Tags
<1>8. /\ n[s + a - 1] = S[s] - a /\ n[s + S[s] - 2] = S[s] - a
      /\ \A x \in Addr : x # s + a - 1 /\ x # s + S[s] - 2 => n[x] = n1[x]
  <2>1. /\ (s + a) + (S[s] - a) - 2 = s + S[s] - 2 /\ (S[s] - a) + 0 = S[s] - a
        /\ (s + a) - 1 = s + a - 1
    BY <1>1
  <2>2. /\ n[(s + a) - 1] = (S[s] - a) + 0 /\ n[(s + a) + (S[s] - a) - 2] = (S[s] - a) + 0
        /\ \A x \in Addr : x # (s + a) - 1 /\ x # (s + a) + (S[s] - a) - 2 => n[x] = n1[x]
    BY DEF Tags
  <2> QED BY <2>1, <2>2
<1>9. s - 1 \in Addr /\ s + a - 2 \in Addr
  BY <1>1, Defs DEF Addr
<1> HIDE DEF C, T, D
<1>10. n[s - 1] = a + 1 /\ n[s + a - 2] = a + 1
  <2>1. /\ s - 1 # s + a - 1 /\ s - 1 # s + S[s] - 2
        /\ s + a - 2 # s + a - 1 /\ s + a - 2 # s + S[s] - 2
    BY <1>1
  <2> QED BY <2>1, <1>7, <1>8, <1>9
<1>11. \A x \in Addr : x < s - 1 \/ x > s + S[s] - 2 => n[x] = m[x]
  <2>1. \A x \in Addr : x \in Int
    BY Defs DEF Addr
  <2> QED BY <2>1, <1>1, <1>7, <1>8
<1>12. ASSUME NEW p \in C
       PROVE  n[p - 1] = T[p] + D[p] /\ n[p + T[p] - 2] = T[p] + D[p]
  <2>1. CASE p = s
    BY <2>1, <1>5, <1>10
  <2>2. CASE p = s + a
    <3>1. p + T[p] - 2 = s + S[s] - 2 /\ T[p] + D[p] = S[s] - a
      BY <2>2, <1>1, <1>5
    <3> QED BY <3>1, <2>2, <1>1, <1>8
  <2>3. CASE p # s /\ p # s + a
    <3>1. p \in B /\ T[p] = S[p] /\ D[p] = A[p]
      BY <2>3, <1>5 DEF C
    <3>2. m[p - 1] = S[p] + A[p] /\ m[p + S[p] - 2] = S[p] + A[p]
      BY <3>1 DEF Tagged
    <3>3. p + S[p] <= s \/ s + S[s] <= p
      BY <2>3, <3>1, <1>1, <1>2
    <3> QED BY <3>1, <3>2, <3>3, <1>1, <1>11
  <2> QED BY <2>1, <2>2, <2>3
<1>13. n[top - 1] = 1
  BY <1>1, <1>3, <1>11 DEF Tagged
<1> QED BY <1>5, <1>6, <1>12, <1>13 DEF Tagged, C, T, D

(* A block of g words at the old break, and a new epilogue.                *)
LEMMA GrowTagged ==
  ASSUME NEW m \in Memory, NEW top, NEW B, NEW S, NEW A,
         Layout(top, B, S), Tagged(m, top, B, S, A),
         NEW g \in Nat, g % 2 = 0, g >= 4, top + g <= HeapBase + MAX_HEAP,
         NEW n1, Tags(m, n1, top, g, 0), NEW after, after = [n1 EXCEPT ![top + g - 1] = 1],
         NEW D, D = [p \in B \union {top} |-> IF p = top THEN 0 ELSE A[p]]
  PROVE  Tagged(after, top + g, B \union {top}, Grow(B, S, top, g), D)
<1> DEFINE C == B \union {top}
           T == Grow(B, S, top, g)
<1>1. \A p \in B : /\ p \in Int /\ S[p] \in Int /\ S[p] >= 2 /\ p >= first
                   /\ p + S[p] <= top /\ p + S[p] - 2 \in Addr /\ p - 1 \in Addr
                   /\ A[p] \in {0, 1}
  BY BlockFacts
<1>2. top \in Int /\ top - 1 \in Addr /\ top \notin B /\ top + g - 1 \in Addr
  <2>1. top \in Int /\ top - 1 \in Addr /\ top \notin B
    BY LayoutFacts
  <2> QED BY <2>1, Defs DEF Addr
<1>3. n1 \in Memory /\ 1 \in Word
  BY Defs DEF Tags, Word
<1>4. after[top + g - 1] = 1 /\ \A x \in Addr : x # top + g - 1 => after[x] = n1[x]
  <2> DEFINE q == top + g - 1
  <2>1. q \in Addr
    BY <1>2
  <2> HIDE DEF q
  <2>2. [n1 EXCEPT ![q] = 1][q] = 1 /\ \A x \in Addr : x # q => [n1 EXCEPT ![q] = 1][x] = n1[x]
    BY <2>1, <1>3 DEF Memory
  <2>3. after = [n1 EXCEPT ![q] = 1]
    BY DEF q
  <2>4. after[q] = 1 /\ \A x \in Addr : x # q => after[x] = n1[x]
    BY <2>2, <2>3
  <2> QED BY <2>4 DEF q
<1>5. /\ D \in [C -> {0, 1}] /\ D[top] = 0 /\ T[top] = g
      /\ \A p \in B : D[p] = A[p] /\ T[p] = S[p]
  BY <1>1, <1>2 DEF Grow
<1>6. first \in C /\ D[first] = 1
  BY <1>5 DEF Layout, Tagged
<1>7. /\ n1[top - 1] = g /\ n1[top + g - 2] = g
      /\ \A x \in Addr : x # top - 1 /\ x # top + g - 2 => n1[x] = m[x]
  BY DEF Tags
<1> HIDE DEF C, T
<1>8. top + g - 2 \in Addr
  BY <1>2, Defs DEF Addr
<1>9. after[top - 1] = g /\ after[top + g - 2] = g
  <2>1. top - 1 # top + g - 1 /\ top + g - 2 # top + g - 1
    BY <1>2
  <2> QED BY <2>1, <1>2, <1>4, <1>7, <1>8
<1>10. \A x \in Addr : x < top - 1 => after[x] = m[x]
  <2>1. \A x \in Addr : x \in Int
    BY Defs DEF Addr
  <2> QED BY <2>1, <1>2, <1>4, <1>7
<1>11. ASSUME NEW p \in C
       PROVE  after[p - 1] = T[p] + D[p] /\ after[p + T[p] - 2] = T[p] + D[p]
  <2>1. CASE p = top
    BY <2>1, <1>5, <1>9
  <2>2. CASE p \in B
    <3>1. m[p - 1] = S[p] + A[p] /\ m[p + S[p] - 2] = S[p] + A[p]
      BY <2>2 DEF Tagged
    <3> QED BY <2>2, <3>1, <1>1, <1>2, <1>5, <1>10
  <2> QED BY <2>1, <2>2 DEF C
<1>12. after[(top + g) - 1] = 1
  BY <1>2, <1>4
<1> QED BY <1>5, <1>6, <1>11, <1>12 DEF Tagged, C, T

----------------------------------------------------------------------------
(* The routines of mm-implicit.c.                                          *)

Records == [mem : Memory, brk : Int, rover : Int]
NextFit == draft = "next fit"

(* A heap in pieces, in which no two free blocks but those of X, which are *)
(* yet to be coalesced, are neighbours.                                    *)
HeapBut(h, B, S, A, X) ==
  /\ h \in Records
  /\ Layout(h.brk, B, S) /\ Tagged(h.mem, h.brk, B, S, A)
  /\ \A p, q \in B \ X : A[p] = 0 /\ A[q] = 0 => p + S[p] # q
  /\ NextFit => h.rover \in B \union {h.brk}
Heap(h, B, S, A) == HeapBut(h, B, S, A, {})

Held(B, A) == {p \in B : A[p] = 1} \ {first}

(* The blocks of X are in g what they are in h.                            *)
Keeps(h, S, X, g, C, T, D) ==
  \A p \in X : /\ p \in C /\ T[p] = S[p] /\ D[p] = 1
               /\ \A a \in p .. (p + S[p] - 3) : g.mem[a] = h.mem[a]

(* The result of merging the free blocks from s up to e around b.          *)
LEMMA Merging ==
  ASSUME NEW h, NEW B, NEW S, NEW A, NEW b \in B, HeapBut(h, B, S, A, {b}),
         NEW s \in B, NEW e \in B \union {h.brk}, s <= b, b + S[b] <= e,
         \A p \in B : s <= p /\ p < e => A[p] = 0,
         \A p \in B : p + S[p] = s => A[p] = 1,
         e \in B => A[e] = 1,
         NEW n, Tags(h.mem, n, s, e - s, 0),
         NEW g, g \in Records, g.mem = n, g.brk = h.brk,
         NextFit => g.rover = IF n # h.mem /\ h.rover > s /\ h.rover < e THEN s ELSE h.rover
  PROVE  \E C, T, D : /\ Heap(g, C, T, D) /\ s \in C /\ D[s] = 0 /\ T[s] >= S[b]
                      /\ Held(C, D) = Held(B, A) /\ Keeps(h, S, Held(B, A), g, C, T, D)
<1> DEFINE top == h.brk
           m == h.mem
           C == Cut(B, s, e)
           T == Join(B, S, s, e)
           D == Bits(B, A, s, e, 0)
<1>1. /\ m \in Memory /\ Layout(top, B, S) /\ Tagged(m, top, B, S, A)
      /\ \A p, q \in B \ {b} : A[p] = 0 /\ A[q] = 0 => p + S[p] # q
      /\ NextFit => h.rover \in B \union {top}
  BY DEF HeapBut, Records
<1> HIDE DEF top, m
<1>2. \A p \in B : /\ p \in Int /\ S[p] \in Int /\ S[p] >= 2 /\ p >= first
                   /\ p + S[p] <= top /\ p + S[p] - 2 \in Addr /\ p - 1 \in Addr
                   /\ A[p] \in {0, 1}
  BY <1>1, BlockFacts
<1>3. \A p, q \in B : p < q => p + S[p] <= q
  BY <1>1 DEF Layout
<1>4. top \in Int /\ top \notin B
  BY <1>1, LayoutFacts
<1>5. e \in B \union {top} /\ e \in Int /\ s < e
  BY <1>2, <1>4 DEF top
<1>6. A[s] = 0 /\ s # first
  <2>1. A[s] = 0
    BY <1>2, <1>5
  <2>2. A[first] = 1
    BY <1>1 DEF Tagged
  <2> QED BY <2>1, <2>2
<1>7. Layout(top, C, T)
  BY <1>1, <1>5, <1>6, JoinLayout
<1>8. Tagged(n, top, C, T, D)
  BY <1>1, <1>5, <1>6, JoinTagged DEF m
<1>9. /\ \A p \in C : p = s \/ (p \in B /\ p # s /\ (p < s \/ p >= e))
      /\ \A p \in B : p < s \/ p >= e => p \in C
      /\ s \in C
  BY DEF Cut
<1>10. T[s] = e - s /\ D[s] = 0 /\ \A p \in C : p # s => T[p] = S[p] /\ D[p] = A[p]
  BY <1>9 DEF Join, Bits
<1>11. n \in Memory /\ \A a \in Addr : a # s - 1 /\ a # s + (e - s) - 2 => n[a] = m[a]
  BY DEF Tags, m
<1> HIDE DEF C, T, D
<1>12. \A p, q \in C : D[p] = 0 /\ D[q] = 0 => p + T[p] # q
  <2> SUFFICES ASSUME NEW p \in C, NEW q \in C, D[p] = 0, D[q] = 0, p + T[p] = q PROVE FALSE
    OBVIOUS
  <2>1. CASE p = s
    <3>1. q = e
      BY <2>1, <1>2, <1>5, <1>10
    <3>2. q \in B /\ D[q] = A[q]
      BY <3>1, <1>5, <1>9, <1>10
    <3> QED BY <3>1, <3>2
  <2>2. CASE p # s /\ q = s
    <3>1. p \in B /\ A[p] = 0 /\ p + S[p] = s
      BY <2>2, <1>9, <1>10
    <3> QED BY <3>1
  <2>3. CASE p # s /\ q # s
    <3>1. p \in B /\ q \in B /\ A[p] = 0 /\ A[q] = 0 /\ p + S[p] = q
      BY <2>3, <1>9, <1>10
    <3>2. p # b /\ q # b
      BY <2>3, <1>2, <1>5, <1>9
    <3> QED BY <3>1, <3>2, <1>1
  <2> QED BY <2>1, <2>2, <2>3
<1>13. NextFit => g.rover \in C \union {top}
  <2> SUFFICES ASSUME NextFit PROVE g.rover \in C \union {top}
    OBVIOUS
  <2>1. h.rover \in B \union {top} /\ h.rover \in Int
    BY <1>1, <1>2, <1>4
  <2>2. CASE n # m /\ h.rover > s /\ h.rover < e
    BY <2>2, <1>9 DEF m
  <2>3. CASE n = m /\ h.rover > s /\ h.rover < e
    <3>1. m[s - 1] = S[s] + 0
      BY <1>1, <1>6 DEF Tagged
    <3>2. n[s - 1] = e - s + 0
      BY DEF Tags
    <3>3. e = s + S[s]
      BY <2>3, <3>1, <3>2, <1>2, <1>5
    <3>4. h.rover \in B
      BY <2>1, <2>3, <1>2, <1>4, <1>5
    <3>5. s + S[s] <= h.rover
      BY <2>3, <3>4, <1>3
    <3> QED BY <2>1, <2>3, <3>3, <3>5, <1>5
  <2>4. CASE ~(h.rover > s /\ h.rover < e)
    <3>1. g.rover = h.rover
      BY <2>4
    <3>2. h.rover = s \/ h.rover < s \/ h.rover >= e
      BY <2>1, <2>4, <1>2, <1>5
    <3> QED BY <3>1, <3>2, <2>1, <1>9
  <2> QED BY <2>2, <2>3, <2>4
<1>14. Heap(g, C, T, D)
  BY <1>7, <1>8, <1>12, <1>13 DEF Heap, HeapBut, top
<1>15. \A p \in Held(B, A) : p \in B /\ A[p] = 1 /\ p # s /\ (p < s \/ p >= e)
  BY <1>2, <1>5, <1>6 DEF Held
<1>16. Held(C, D) = Held(B, A)
  <2>1. \A p \in Held(B, A) : p \in C /\ D[p] = 1 /\ p # first
    BY <1>9, <1>10, <1>15 DEF Held
  <2>2. \A p \in Held(C, D) : p \in B /\ A[p] = 1 /\ p # first
    BY <1>9, <1>10 DEF Held
  <2> QED BY <2>1, <2>2 DEF Held
<1>17. Keeps(h, S, Held(B, A), g, C, T, D)
  <2> SUFFICES ASSUME NEW p \in Held(B, A)
               PROVE  /\ p \in C /\ T[p] = S[p] /\ D[p] = 1
                      /\ \A a \in p .. (p + S[p] - 3) : g.mem[a] = h.mem[a]
    BY DEF Keeps
  <2>1. p \in C /\ T[p] = S[p] /\ D[p] = 1
    BY <1>9, <1>10, <1>15
  <2>2. ASSUME NEW a \in p .. (p + S[p] - 3) PROVE n[a] = m[a]
    <3>1. p \in Int /\ S[p] \in Int /\ p - 1 \in Addr /\ p + S[p] - 2 \in Addr /\ a \in Int
      BY <1>2, <1>15
    <3>2. a \in Addr
      BY <3>1, Defs DEF Addr
    <3>3. p < s => p + S[p] <= s
      BY <1>3, <1>15
    <3>4. a # s - 1 /\ a # s + (e - s) - 2
      BY <3>1, <3>3, <1>2, <1>5, <1>15
    <3> QED BY <3>2, <3>4, <1>11
  <2> QED BY <2>1, <2>2 DEF m
<1>18. T[s] >= S[b]
  BY <1>2, <1>5, <1>10
<1> QED BY <1>9, <1>10, <1>14, <1>16, <1>17, <1>18

(* coalesce chooses one of its cases by what the tags of the neighbours    *)
(* say, and its result is the block from some s up to some e.              *)
Chosen(h, B, S, A, b, c, s, e) ==
  /\ s \in B /\ e \in B \union {h.brk} /\ s <= b /\ b + S[b] <= e
  /\ \A p \in B : s <= p /\ p < e => A[p] = 0
  /\ \A p \in B : p + S[p] = s => A[p] = 1
  /\ e \in B => A[e] = 1
  /\ c.bp = s /\ Tags(h.mem, c.mem, s, e - s, 0)

LEMMA FootAndHead ==
  ASSUME NEW m \in Memory, NEW s \in Int, NEW e \in Int, NEW f,
         f = e - 2, s - 1 \in Addr, e - 2 \in Addr, s < e - 1, e - s \in Word
  PROVE  Tags(m, [[m EXCEPT ![f] = (e - s) + 0] EXCEPT ![s - 1] = (e - s) + 0], s, e - s, 0)
<1> DEFINE v == (e - s) + 0
           m1 == [m EXCEPT ![e - 2] = v]
           m2 == [m1 EXCEPT ![s - 1] = v]
<1>1. v = e - s /\ v \in Word /\ s + (e - s) - 2 = e - 2 /\ e - 2 # s - 1
  OBVIOUS
<1> HIDE DEF v
<1>2. m1 \in Memory /\ m1[e - 2] = v /\ \A a \in Addr : a # e - 2 => m1[a] = m[a]
  BY <1>1, PutFact
<1> HIDE DEF m1
<1>3. m2 \in Memory /\ m2[s - 1] = v /\ \A a \in Addr : a # s - 1 => m2[a] = m1[a]
  BY <1>1, <1>2, PutFact
<1> HIDE DEF m2
<1>4. m2[e - 2] = v
  BY <1>1, <1>2, <1>3
<1>5. Tags(m, m2, s, e - s, 0)
  BY <1>1, <1>2, <1>3, <1>4 DEF Tags, v
<1> QED BY <1>5 DEF m2, m1, v

LEMMA CaseChosen ==
  ASSUME NEW h, NEW B, NEW S, NEW A, NEW b \in B, HeapBut(h, B, S, A, {b}), A[b] = 0
  PROVE  \E s, e : Chosen(h, B, S, A, b, Implicit!coalesced(h, b), s, e)
<1> DEFINE top == h.brk
           m == h.mem
           next == b + S[b]
           c == Implicit!coalesced(h, b)
<1>1. /\ m \in Memory /\ Layout(top, B, S) /\ Tagged(m, top, B, S, A)
      /\ \A p, q \in B \ {b} : A[p] = 0 /\ A[q] = 0 => p + S[p] # q
  BY DEF HeapBut, Records
<1> HIDE DEF top, m
<1>2. \A p \in B : /\ p \in Int /\ S[p] \in Int /\ S[p] >= 2 /\ p >= first
                   /\ p + S[p] <= top /\ p + S[p] - 2 \in Addr /\ p - 1 \in Addr
                   /\ A[p] \in {0, 1}
  BY <1>1, BlockFacts
<1>3. \A p, q \in B : p < q => p + S[p] <= q
  BY <1>1 DEF Layout
<1>4. top \in Int /\ top \notin B /\ \A p \in B : p + S[p] \in B \union {top}
  BY <1>1, LayoutFacts DEF Layout
<1>5. b # first
  BY <1>1 DEF Tagged
<1>6. PICK p \in B : p + S[p] = b
  BY <1>1, <1>5 DEF Layout
<1>7. \A q \in B : q + S[q] = b => q = p
  <2> SUFFICES ASSUME NEW q \in B, q + S[q] = b, q # p PROVE FALSE
    OBVIOUS
  <2>1. q < p => q + S[q] <= p
    BY <1>3
  <2>2. p < q => p + S[p] <= q
    BY <1>3
  <2> QED BY <2>1, <2>2, <1>2, <1>6
<1>8. /\ Implicit!GET_SIZE(m, b - 1) = S[b] /\ Implicit!NEXT_BLKP(m, b) = next
      /\ Implicit!FTRP(m, b) = next - 2
      /\ Implicit!PREV_BLKP(m, b) = p /\ Implicit!FTRP(m, p) = b - 2
      /\ Implicit!GET_ALLOC(m, b - 2) = A[p] /\ Implicit!GET_SIZE(m, p - 1) = S[p]
  <2>1. /\ Implicit!GET_SIZE(m, b - 1) = S[b] /\ Implicit!NEXT_BLKP(m, b) = b + S[b]
        /\ Implicit!FTRP(m, b) = b + S[b] - 2
    BY <1>1, Reads
  <2>2. /\ Implicit!PREV_BLKP(m, p + S[p]) = p /\ Implicit!FTRP(m, p) = p + S[p] - 2
        /\ Implicit!GET_ALLOC(m, p + S[p] - 2) = A[p] /\ Implicit!GET_SIZE(m, p - 1) = S[p]
    BY <1>1, Reads
  <2>3. /\ Implicit!PREV_BLKP(m, b) = p /\ Implicit!FTRP(m, p) = b - 2
        /\ Implicit!GET_ALLOC(m, b - 2) = A[p] /\ Implicit!GET_SIZE(m, p - 1) = S[p]
    BY <2>2, <1>2, <1>6
  <2> HIDE DEF c
  <2>4. b \in Int /\ S[b] \in Int /\ p \in Int
    BY <1>2
  <2> QED BY <2>1, <2>3, <2>4 DEF next
<1>9. next \in Int /\ b < next /\ next \in B \union {top} /\ next - 1 \in Addr
  <2>1. next \in Int /\ b < next /\ next \in B \union {top}
    BY <1>2, <1>4
  <2>2. top - 1 \in Addr
    BY <1>1, LayoutFacts
  <2> QED BY <2>1, <2>2, <1>2
<1>10. /\ next = top => /\ Implicit!GET_ALLOC(m, next - 1) = 1
                        /\ Implicit!GET_SIZE(m, next - 1) = 0
       /\ next \in B => /\ Implicit!GET_ALLOC(m, next - 1) = A[next]
                        /\ Implicit!GET_SIZE(m, next - 1) = S[next]
                        /\ Implicit!FTRP(m, next) = next + S[next] - 2
                        /\ Implicit!GET_SIZE(m, next + S[next] - 2) = S[next]
  <2>1. next = top => /\ Implicit!GET_ALLOC(m, next - 1) = 1
                      /\ Implicit!GET_SIZE(m, next - 1) = 0
    BY <1>1, <1>4, TopReads
  <2>2. next \in B => /\ Implicit!GET_ALLOC(m, next - 1) = A[next]
                      /\ Implicit!GET_SIZE(m, next - 1) = S[next]
                      /\ Implicit!FTRP(m, next) = next + S[next] - 2
                      /\ Implicit!GET_SIZE(m, next + S[next] - 2) = S[next]
    BY <1>1, Reads
  <2> QED BY <2>1, <2>2
<1> DEFINE taken == next = top \/ A[next] = 1
           end == IF taken THEN next ELSE next + S[next]
           s == IF A[p] = 1 THEN b ELSE p
<1>11. Implicit!GET_ALLOC(m, next - 1) = 1 <=> taken
  BY <1>2, <1>9, <1>10
<1>12. ~taken => next \in B /\ A[next] = 0
  BY <1>2, <1>9
<1> HIDE DEF next, taken
<1>13. /\ end \in B \union {top} /\ next <= end /\ end \in Int /\ end <= top
       /\ end - 2 \in Addr
       /\ \A q \in B : b <= q /\ q < end => q = b \/ (q = next /\ ~taken)
       /\ end \in B => A[end] = 1
  <2>1. CASE taken
    <3>1. next \in B => A[next] = 1
      BY <2>1, <1>4 DEF taken
    <3>2. \A q \in B : b <= q /\ q < next => q = b
      BY <1>2, <1>3, <1>9 DEF next
    <3>3. next - 2 \in Addr /\ next <= top
      BY <1>2 DEF next
    <3> QED BY <2>1, <3>1, <3>2, <3>3, <1>9
  <2>2. CASE ~taken
    <3>1. next \in B /\ A[next] = 0 /\ end = next + S[next]
      BY <2>2, <1>12
    <3>2. next # b
      BY <1>2, <1>9
    <3>3. end \in B => A[end] = 1
      <4> SUFFICES ASSUME end \in B, A[end] = 0 PROVE FALSE
        BY <1>2
      <4>1. end # b
        BY <3>1, <1>2, <1>9
      <4> QED BY <3>1, <3>2, <4>1, <1>1
    <3>4. \A q \in B : b <= q /\ q < end => q = b \/ q = next
      <4> SUFFICES ASSUME NEW q \in B, b <= q, q < end, q # b, q # next PROVE FALSE
        OBVIOUS
      <4>1. b < q => next <= q
        BY <1>3 DEF next
      <4>2. next < q => next + S[next] <= q
        BY <3>1, <1>3
      <4> QED BY <3>1, <4>1, <4>2, <1>2
    <3> QED BY <2>2, <3>1, <3>3, <3>4, <1>2, <1>4
  <2> QED BY <2>1, <2>2
<1>14. /\ s \in B /\ s <= b /\ s >= first /\ s # first
       /\ \A q \in B : s <= q /\ q < b => q = p /\ A[p] = 0
       /\ \A q \in B : q + S[q] = s => A[q] = 1
  <2>1. CASE A[p] = 1
    <3>1. \A q \in B : q + S[q] = s => A[q] = 1
      BY <2>1, <1>7
    <3> QED BY <2>1, <3>1, <1>2, <1>5
  <2>2. CASE A[p] = 0
    <3>1. p # first
      BY <2>2, <1>1 DEF Tagged
    <3>2. ASSUME NEW q \in B, q + S[q] = p PROVE A[q] = 1
      <4>1. q # b /\ p # b
        BY <3>2, <1>2, <1>6
      <4> QED BY <2>2, <3>2, <4>1, <1>1, <1>2
    <3>3. ASSUME NEW q \in B, p <= q, q < b PROVE q = p
      <4>1. p < q => p + S[p] <= q
        BY <1>3
      <4> QED BY <3>3, <4>1, <1>2, <1>6
    <3> QED BY <2>2, <3>1, <3>2, <3>3, <1>2, <1>6
  <2> QED BY <2>1, <2>2, <1>2
<1>15. \A q \in B : s <= q /\ q < end => A[q] = 0
  BY <1>2, <1>12, <1>13, <1>14
<1>16. /\ s \in Int /\ s - 1 \in Addr /\ s < end - 1 /\ end - s \in Word /\ (end - s) + 0 = end - s
  BY <1>2, <1>9, <1>13, <1>14, Defs DEF Word, Addr, next
<1>17. c.bp = s /\ Tags(m, c.mem, s, end - s, 0)
  <2>1. CASE A[p] = 1 /\ taken
    <3>1. c = [mem |-> m, bp |-> b]
      BY <2>1, <1>8, <1>9, <1>11 DEF Implicit!coalesced, m, next
    <3>2. m[b - 1] = S[b] + A[b] /\ m[b + S[b] - 2] = S[b] + A[b]
      BY <1>1 DEF Tagged
    <3>3. next - b = S[b] /\ S[b] + A[b] = (next - b) + 0 /\ b + (next - b) - 2 = b + S[b] - 2
      BY <1>2 DEF next
    <3>4. Tags(m, m, b, next - b, 0)
      BY <3>2, <3>3, <1>1 DEF Tags
    <3> QED BY <2>1, <3>1, <3>4
  <2>2. CASE A[p] = 1 /\ ~taken
    <3>1. next \in B
      BY <2>2, <1>12
    <3>2. c = [mem |-> Implicit!tags(m, b, S[b] + S[next], 0), bp |-> b]
      BY <2>2, <3>1, <1>8, <1>9, <1>10, <1>11 DEF Implicit!coalesced, m, next
    <3>3. S[b] + S[next] = end - b /\ end - b \in Nat /\ end - b >= 2
      BY <2>2, <3>1, <1>2, <1>13 DEF next
    <3>4. (end - b) % 2 = 0 /\ (end - b) + 1 \in Word
      <4>1. S[b] % 2 = 0 /\ S[next] % 2 = 0
        BY <3>1, <1>1 DEF Layout
      <4>2. (S[b] + S[next]) % 2 = 0
        BY <4>1, <3>1, <1>2
      <4>3. (end - b) + 1 \in Word
        BY <3>3, <1>2, <1>13, <1>16, <2>2, Defs DEF Word, Addr
      <4> QED BY <4>2, <4>3, <3>3
    <3>5. b + (end - b) - 2 \in Addr /\ b - 1 \in Addr
      BY <1>2, <1>13
    <3>6. Tags(m, Implicit!tags(m, b, end - b, 0), b, end - b, 0)
      BY <3>3, <3>4, <3>5, <1>1, <1>2, TagsWritten
    <3> QED BY <2>2, <3>2, <3>3, <3>6
  <2>3. CASE A[p] = 0 /\ taken
    <3>1. c = [mem |-> Implicit!tags_low_footer(m, b, p, S[b] + S[p]), bp |-> p]
      BY <2>3, <1>8, <1>9, <1>11 DEF Implicit!coalesced, m, next
    <3>2. S[b] + S[p] = end - p /\ end = next
      BY <2>3, <1>2, <1>6 DEF next
    <3>3. Implicit!tags_low_footer(m, b, p, S[b] + S[p])
            = [[m EXCEPT ![next - 2] = (S[b] + S[p]) + 0] EXCEPT ![p - 1] = (S[b] + S[p]) + 0]
      BY <1>8 DEF Implicit!tags_low_footer
    <3>4. p \in Int /\ end \in Int /\ p - 1 \in Addr /\ end - 2 \in Addr /\ p < end - 1 /\ end - p \in Word
      BY <2>3, <1>2, <1>13, <1>16
    <3>5. next - 2 = end - 2 /\ s = p
      BY <2>3, <3>2, <1>2
    <3> HIDE DEF end, s
    <3>6. Tags(m, [[m EXCEPT ![next - 2] = (end - p) + 0] EXCEPT ![p - 1] = (end - p) + 0],
               p, end - p, 0)
      BY <3>4, <3>5, <1>1, FootAndHead
    <3>7. c.mem = [[m EXCEPT ![next - 2] = (end - p) + 0] EXCEPT ![p - 1] = (end - p) + 0]
          /\ c.bp = p
      <4> DEFINE z == S[b] + S[p]
      <4>1. z + 0 = (end - p) + 0
        BY <3>2
      <4>2. c.mem = [[m EXCEPT ![next - 2] = z + 0] EXCEPT ![p - 1] = z + 0] /\ c.bp = p
        <5> HIDE DEF c
        <5> QED BY <3>1, <3>3
      <4> HIDE DEF z, c
      <4> QED BY <4>1, <4>2
    <3> QED BY <3>5, <3>6, <3>7
  <2>4. CASE A[p] = 0 /\ ~taken
    <3>1. next \in B
      BY <2>4, <1>12
    <3>2. c = [mem |-> Implicit!tags_low_footer(m, next, p, (S[b] + S[p]) + S[next]), bp |-> p]
      BY <2>4, <3>1, <1>8, <1>9, <1>10, <1>11 DEF Implicit!coalesced, m, next
    <3>3. (S[b] + S[p]) + S[next] = end - p /\ end = next + S[next]
      BY <2>4, <3>1, <1>2, <1>6 DEF next
    <3>4. Implicit!tags_low_footer(m, next, p, (S[b] + S[p]) + S[next])
            = [[m EXCEPT ![next + S[next] - 2] = ((S[b] + S[p]) + S[next]) + 0]
                 EXCEPT ![p - 1] = ((S[b] + S[p]) + S[next]) + 0]
      BY <3>1, <1>10 DEF Implicit!tags_low_footer
    <3>5. p \in Int /\ end \in Int /\ p - 1 \in Addr /\ end - 2 \in Addr /\ p < end - 1 /\ end - p \in Word
      BY <2>4, <1>2, <1>13, <1>16
    <3>6. next + S[next] - 2 = end - 2 /\ s = p
      BY <2>4, <3>1, <3>3, <1>2
    <3> HIDE DEF end, s
    <3>7. Tags(m, [[m EXCEPT ![next + S[next] - 2] = (end - p) + 0] EXCEPT ![p - 1] = (end - p) + 0],
               p, end - p, 0)
      BY <3>5, <3>6, <1>1, FootAndHead
    <3>8. c.mem = [[m EXCEPT ![next + S[next] - 2] = (end - p) + 0] EXCEPT ![p - 1] = (end - p) + 0]
          /\ c.bp = p
      <4> DEFINE z == (S[b] + S[p]) + S[next]
      <4>1. z + 0 = (end - p) + 0
        BY <3>3
      <4>2. c.mem = [[m EXCEPT ![next + S[next] - 2] = z + 0] EXCEPT ![p - 1] = z + 0] /\ c.bp = p
        <5> HIDE DEF c
        <5> QED BY <3>2, <3>4
      <4> HIDE DEF z, c
      <4> QED BY <4>1, <4>2
    <3> QED BY <3>6, <3>7, <3>8
  <2> QED BY <2>1, <2>2, <2>3, <2>4, <1>2
<1>18. Chosen(h, B, S, A, b, c, s, end)
  BY <1>13, <1>14, <1>15, <1>17 DEF Chosen, top, m, next
<1> QED BY <1>18

LEMMA CoalesceGood ==
  ASSUME NEW h, NEW B, NEW S, NEW A, NEW b \in B, HeapBut(h, B, S, A, {b}), A[b] = 0,
         NEW r, r = Implicit!coalesce(h, b)
  PROVE  /\ r.heap.brk = h.brk
         /\ \E C, T, D :
               /\ Heap(r.heap, C, T, D) /\ r.bp \in C /\ D[r.bp] = 0 /\ T[r.bp] >= S[b]
               /\ Held(C, D) = Held(B, A) /\ Keeps(h, S, Held(B, A), r.heap, C, T, D)
<1> DEFINE c == Implicit!coalesced(h, b)
           g == [h EXCEPT !.mem = c.mem, !.rover = Implicit!moved_rover(h, c)]
<1>1. PICK s, e : Chosen(h, B, S, A, b, c, s, e)
  BY CaseChosen
<1>2. r.heap = g /\ r.bp = s
  BY <1>1 DEF Implicit!coalesce, Chosen
<1>3. h \in Records /\ Layout(h.brk, B, S) /\ (NextFit => h.rover \in B \union {h.brk})
  BY DEF HeapBut
<1> HIDE DEF c
<1>4. c.mem \in Memory /\ c.mem[s - 1] = (e - s) + 0 /\ c.bp = s
  BY <1>1 DEF Chosen, Tags
<1>5. s \in Int /\ e \in Int /\ e - s \in Nat /\ (e - s) % 2 = 0
  <2>1. \A p \in B : p \in Int /\ p % 2 = 0 /\ S[p] \in Int /\ S[p] >= 2
    BY <1>3 DEF Layout
  <2>2. h.brk \in Int /\ h.brk % 2 = 0
    BY <1>3, LayoutFacts
  <2>3. s \in B /\ e \in B \union {h.brk} /\ s <= b /\ b + S[b] <= e
    BY <1>1 DEF Chosen
  <2>4. s \in Int /\ e \in Int /\ s % 2 = 0 /\ e % 2 = 0 /\ e - s \in Nat
    BY <2>1, <2>2, <2>3
  <2> QED BY <2>4
<1>6. Implicit!NEXT_BLKP(c.mem, c.bp) = e
  <2>1. Implicit!GET_SIZE(c.mem, s - 1) = e - s
    BY <1>4, <1>5 DEF Implicit!GET_SIZE
  <2> QED BY <2>1, <1>4, <1>5 DEF Implicit!NEXT_BLKP
<1>7. Implicit!moved_rover(h, c)
        = IF NextFit /\ c.mem # h.mem /\ h.rover > s /\ h.rover < e THEN s ELSE h.rover
  BY <1>4, <1>6 DEF Implicit!moved_rover, NextFit
<1>8. /\ g \in Records /\ g.mem = c.mem /\ g.brk = h.brk
      /\ g.rover = Implicit!moved_rover(h, c)
  BY <1>3, <1>4, <1>5, <1>7 DEF Records
<1> HIDE DEF g
<1>9. \E C, T, D :
               /\ Heap(g, C, T, D) /\ s \in C /\ D[s] = 0 /\ T[s] >= S[b]
               /\ Held(C, D) = Held(B, A) /\ Keeps(h, S, Held(B, A), g, C, T, D)
  <2>1. /\ s \in B /\ e \in B \union {h.brk} /\ s <= b /\ b + S[b] <= e
        /\ \A p \in B : s <= p /\ p < e => A[p] = 0
        /\ \A p \in B : p + S[p] = s => A[p] = 1
        /\ e \in B => A[e] = 1
        /\ Tags(h.mem, c.mem, s, e - s, 0)
    BY <1>1 DEF Chosen
  <2>2. NextFit => g.rover = IF c.mem # h.mem /\ h.rover > s /\ h.rover < e
                             THEN s ELSE h.rover
    BY <1>7, <1>8
  <2>3. g \in Records /\ g.mem = c.mem /\ g.brk = h.brk
    BY <1>8
  <2> QED BY <2>1, <2>2, <2>3, Merging
<1> QED BY <1>2, <1>8, <1>9

(* The bit of one block changed.                                           *)
BitSet(A, b, v) == [A EXCEPT ![b] = v]

LEMMA Retagged ==
  ASSUME NEW m \in Memory, NEW top, NEW B, NEW S, NEW A,
         Layout(top, B, S), Tagged(m, top, B, S, A),
         NEW b \in B, b # first, NEW v \in {0, 1}, NEW n, n = Implicit!tags(m, b, S[b], v)
  PROVE  /\ n \in Memory /\ Tagged(n, top, B, S, BitSet(A, b, v))
         /\ \A p \in B : \A a \in p .. (p + S[p] - 3) : n[a] = m[a]
<1> DEFINE e == b + S[b]
           D == BitSet(A, b, v)
<1>1. \A p \in B : /\ p \in Int /\ S[p] \in Int /\ S[p] >= 2 /\ p >= first
                   /\ p + S[p] <= top /\ p + S[p] - 2 \in Addr /\ p - 1 \in Addr
                   /\ A[p] \in {0, 1}
  BY BlockFacts
<1>2. /\ \A p, q \in B : p < q => p + S[p] <= q
      /\ S[b] % 2 = 0 /\ S[b] \in Nat /\ b + S[b] \in B \union {top} /\ S \in [B -> Nat]
  BY DEF Layout
<1>3. S[b] + 1 \in Word
  BY LayoutFacts
<1>4. Tags(m, n, b, S[b], v)
  BY <1>1, <1>2, <1>3, TagsWritten
<1>5. e - b = S[b] /\ b < e /\ e \in B \union {top}
  BY <1>1, <1>2
<1>6. Cut(B, b, e) = B /\ Join(B, S, b, e) = S
  BY SameBlocks
<1> HIDE DEF e
<1>7. Tagged(n, top, Cut(B, b, e), Join(B, S, b, e), Bits(B, A, b, e, v))
  <2>1. Tags(m, n, b, e - b, v)
    BY <1>4, <1>5
  <2> QED BY <2>1, <1>5, JoinTagged
<1>8. Bits(B, A, b, e, v) = D
  <2>1. A \in [B -> {0, 1}]
    BY DEF Tagged
  <2> QED BY <2>1, <1>6 DEF Bits, BitSet
<1>9. Tagged(n, top, B, S, D)
  BY <1>6, <1>7, <1>8
<1>10. ASSUME NEW p \in B, NEW a \in p .. (p + S[p] - 3) PROVE n[a] = m[a]
  <2>1. p \in Int /\ S[p] \in Int /\ p - 1 \in Addr /\ p + S[p] - 2 \in Addr /\ a \in Int
    BY <1>1
  <2>2. a \in Addr
    BY <2>1, Defs DEF Addr
  <2>3. p < b => p + S[p] <= b
    BY <1>2
  <2>4. b < p => b + S[b] <= p
    BY <1>2
  <2>5. a # b - 1 /\ a # b + S[b] - 2
    <3>1. CASE p < b
      BY <3>1, <2>1, <2>3, <1>1
    <3>2. CASE b < p
      BY <3>2, <2>1, <2>4, <1>1
    <3>3. CASE p = b
      BY <3>3, <2>1, <1>1
    <3> QED BY <3>1, <3>2, <3>3, <2>1, <1>1
  <2> QED BY <2>2, <2>5, <1>4 DEF Tags
<1>11. n \in Memory
  BY <1>4 DEF Tags
<1> QED BY <1>9, <1>10, <1>11

LEMMA FreeGood ==
  ASSUME NEW h, NEW B, NEW S, NEW A, Heap(h, B, S, A), NEW b \in Held(B, A),
         NEW g, g = Implicit!mm_free(h, b)
  PROVE  \E C, T, D : /\ Heap(g, C, T, D) /\ Held(C, D) = Held(B, A) \ {b}
                      /\ Keeps(h, S, Held(B, A) \ {b}, g, C, T, D)
<1> DEFINE n == Implicit!tags(h.mem, b, S[b], 0)
           h1 == [h EXCEPT !.mem = n]
           A1 == BitSet(A, b, 0)
           r == Implicit!coalesce(h1, b)
<1>1. /\ h \in Records /\ h.mem \in Memory /\ Layout(h.brk, B, S) /\ Tagged(h.mem, h.brk, B, S, A)
      /\ \A p, q \in B : A[p] = 0 /\ A[q] = 0 => p + S[p] # q
      /\ NextFit => h.rover \in B \union {h.brk}
  BY DEF Heap, HeapBut, Records
<1>2. b \in B /\ b # first /\ A[b] = 1 /\ A \in [B -> {0, 1}]
  BY <1>1 DEF Held, Tagged
<1>3. b # NULL /\ Implicit!GET_SIZE(h.mem, b - 1) = S[b]
  <2>1. b # NULL
    BY <1>1, <1>2, LayoutFacts
  <2>2. Implicit!GET_SIZE(h.mem, b - 1) = S[b]
    BY <1>1, <1>2, Reads
  <2> QED BY <2>1, <2>2
<1>4. g = r.heap
  BY <1>3 DEF Implicit!mm_free
<1>5. /\ n \in Memory /\ Tagged(n, h.brk, B, S, A1)
      /\ \A p \in B : \A a \in p .. (p + S[p] - 3) : n[a] = h.mem[a]
  <2>1. 0 \in {0, 1}
    OBVIOUS
  <2> HIDE DEF h1, r
  <2> QED BY <2>1, <1>1, <1>2, Retagged
<1> HIDE DEF n
<1>6. h1 \in Records /\ h1.mem = n /\ h1.brk = h.brk /\ h1.rover = h.rover
  BY <1>1, <1>5 DEF Records
<1> HIDE DEF h1
<1>7. A1[b] = 0 /\ \A p \in B : p # b => A1[p] = A[p]
  BY <1>2 DEF BitSet
<1> HIDE DEF A1
<1>8. HeapBut(h1, B, S, A1, {b})
  BY <1>1, <1>5, <1>6, <1>7 DEF HeapBut
<1>9. PICK C, T, D : /\ Heap(r.heap, C, T, D)
                     /\ Held(C, D) = Held(B, A1) /\ Keeps(h1, S, Held(B, A1), r.heap, C, T, D)
  BY <1>2, <1>7, <1>8, CoalesceGood
<1> HIDE DEF r
<1>10. Held(B, A1) = Held(B, A) \ {b}
  BY <1>2, <1>7 DEF Held
<1>11. Keeps(h, S, Held(B, A) \ {b}, r.heap, C, T, D)
  <2>1. \A p \in Held(B, A) : p \in B
    BY DEF Held
  <2>2. \A p \in Held(B, A) \ {b} :
          /\ p \in C /\ T[p] = S[p] /\ D[p] = 1
          /\ \A a \in p .. (p + S[p] - 3) : r.heap.mem[a] = h1.mem[a]
    BY <1>9, <1>10 DEF Keeps
  <2> QED BY <2>1, <2>2, <1>5, <1>6 DEF Keeps
<1> QED BY <1>4, <1>9, <1>10, <1>11

LEMMA ExtendGood ==
  ASSUME NEW h, NEW B, NEW S, NEW A, Heap(h, B, S, A),
         NEW words \in Nat, words % 2 = 0, words >= 4, h.brk + words <= HeapBase + MAX_HEAP,
         NEW r, r = Implicit!extend_heap(h, words)
  PROVE  \E C, T, D : /\ Heap(r.heap, C, T, D)
                      /\ r.bp \in C /\ D[r.bp] = 0 /\ T[r.bp] >= words
                      /\ Held(C, D) = Held(B, A) /\ Keeps(h, S, Held(B, A), r.heap, C, T, D)
<1> DEFINE top == h.brk
           n == Implicit!tags(h.mem, top, words, 0)
           n2 == [n EXCEPT ![top + words - 1] = 1]
           h1 == [h EXCEPT !.mem = n2, !.brk = @ + words]
           B1 == B \union {top}
           S1 == Grow(B, S, top, words)
           A1 == [p \in B \union {top} |-> IF p = top THEN 0 ELSE A[p]]
<1>1. /\ h \in Records /\ h.mem \in Memory /\ Layout(top, B, S) /\ Tagged(h.mem, top, B, S, A)
      /\ \A p, q \in B : A[p] = 0 /\ A[q] = 0 => p + S[p] # q
      /\ NextFit => h.rover \in B \union {top}
  BY DEF Heap, HeapBut, Records
<1>2. /\ top \in Int /\ top - 1 \in Addr /\ top \notin B /\ top > first + 1
      /\ \A p \in B : p \in Int /\ S[p] \in Int
  BY <1>1, LayoutFacts
<1>3. /\ words + 1 \in Word /\ top + words - 2 \in Addr /\ top + words - 1 \in Addr
      /\ top + words \in Int
  BY <1>2, Defs DEF Word, Addr
<1>4. Tags(h.mem, n, top, words, 0)
  <2> HIDE DEF top
  <2> QED BY <1>1, <1>2, <1>3, TagsWritten
<1>5. Implicit!NEXT_BLKP(n, top) = top + words
  <2> HIDE DEF n, top
  <2>1. n[top - 1] = words + 0
    BY <1>4 DEF Tags
  <2>2. Implicit!GET_SIZE(n, top - 1) = words
    BY <2>1 DEF Implicit!GET_SIZE
  <2> QED BY <2>2 DEF Implicit!NEXT_BLKP
<1>6. r = Implicit!coalesce(h1, top)
  <2>1. Implicit!extend_size(words) = words
    BY DEF Implicit!extend_size
  <2>2. 0 + 1 = 1
    OBVIOUS
  <2>3. r = Implicit!coalesce(
              [h EXCEPT !.mem = [n EXCEPT ![Implicit!NEXT_BLKP(n, top) - 1] = 0 + 1],
                        !.brk = @ + words], top)
    BY <2>1 DEF Implicit!extend_heap
  <2>4. [n EXCEPT ![Implicit!NEXT_BLKP(n, top) - 1] = 0 + 1] = n2
    <3> HIDE DEF n, h1
    <3> DEFINE x == Implicit!NEXT_BLKP(n, top) - 1
    <3>1. x = top + words - 1
      BY <1>2, <1>5
    <3> HIDE DEF x
    <3>2. [n EXCEPT ![x] = 0 + 1] = n2
      BY <3>1, <2>2
    <3> QED BY <3>2 DEF x
  <2> HIDE DEF n2
  <2> QED BY <2>3, <2>4
<1>7. Tagged(n2, top + words, B1, S1, A1)
  <2> HIDE DEF n, top
  <2>1. top + words <= HeapBase + MAX_HEAP
    BY DEF top
  <2> HIDE DEF h1
  <2>2. n2 = [n EXCEPT ![top + words - 1] = 1]
    OBVIOUS
  <2>3. A1 = [p \in B \union {top} |-> IF p = top THEN 0 ELSE A[p]]
    OBVIOUS
  <2> HIDE DEF n2, A1
  <2> QED BY <2>1, <2>2, <2>3, <1>1, <1>4, GrowTagged
<1>8. Layout(top + words, B1, S1)
  BY <1>1, GrowLayout
<1>9. n2 \in Memory /\ \A a \in Addr : a < top - 1 => n2[a] = h.mem[a]
  <2>1. 1 \in Word
    BY Defs DEF Word
  <2>2. n \in Memory /\ \A a \in Addr : a # top - 1 /\ a # top + words - 2 => n[a] = h.mem[a]
    BY <1>4 DEF Tags
  <2> HIDE DEF n, top
  <2> DEFINE q == top + words - 1
  <2>3. q \in Addr
    BY <1>3
  <2> HIDE DEF q
  <2>4. [n EXCEPT ![q] = 1] \in Memory /\ \A a \in Addr : a # q => [n EXCEPT ![q] = 1][a] = n[a]
    BY <2>1, <2>2, <2>3 DEF Memory
  <2>5. \A a \in Addr : a \in Int
    BY Defs DEF Addr
  <2>6. n2 = [n EXCEPT ![q] = 1]
    BY DEF q
  <2> HIDE DEF n2
  <2>7. \A a \in Addr : a < top - 1 => a # q /\ a # top - 1 /\ a # top + words - 2
    BY <2>5, <1>2 DEF q
  <2> QED BY <2>2, <2>4, <2>6, <2>7
<1> HIDE DEF n2
<1>10. /\ h1 \in Records /\ h1.mem = n2 /\ h1.brk = top + words /\ h1.rover = h.rover
  BY <1>1, <1>3, <1>9 DEF Records
<1> HIDE DEF h1
<1>11. /\ top \in B1 /\ A1[top] = 0 /\ S1[top] = words
       /\ \A p \in B : p \in B1 /\ A1[p] = A[p] /\ S1[p] = S[p]
       /\ \A p \in B1 : p \in B \/ p = top
  BY <1>2 DEF Grow
<1> HIDE DEF A1, S1, B1, top
<1>12. HeapBut(h1, B1, S1, A1, {top})
  <2>1. \A p, q \in B1 \ {top} : A1[p] = 0 /\ A1[q] = 0 => p + S1[p] # q
    BY <1>1, <1>11
  <2>2. NextFit => h1.rover \in B1 \union {h1.brk}
    BY <1>1, <1>10, <1>11
  <2> QED BY <2>1, <2>2, <1>7, <1>8, <1>10 DEF HeapBut
<1>13. PICK C, T, D : /\ Heap(r.heap, C, T, D) /\ r.bp \in C /\ D[r.bp] = 0 /\ T[r.bp] >= S1[top]
                      /\ Held(C, D) = Held(B1, A1) /\ Keeps(h1, S1, Held(B1, A1), r.heap, C, T, D)
  BY <1>6, <1>11, <1>12, CoalesceGood
<1>14. Held(B1, A1) = Held(B, A)
  BY <1>11 DEF Held
<1>15. Keeps(h, S, Held(B, A), r.heap, C, T, D)
  <2> SUFFICES ASSUME NEW p \in Held(B, A)
               PROVE  /\ p \in C /\ T[p] = S[p] /\ D[p] = 1
                      /\ \A a \in p .. (p + S[p] - 3) : r.heap.mem[a] = h.mem[a]
    BY DEF Keeps
  <2>1. p \in B /\ S1[p] = S[p]
    BY <1>11 DEF Held
  <2>2. /\ p \in C /\ T[p] = S[p] /\ D[p] = 1
        /\ \A a \in p .. (p + S[p] - 3) : r.heap.mem[a] = n2[a]
    BY <2>1, <1>10, <1>13, <1>14 DEF Keeps
  <2>3. ASSUME NEW a \in p .. (p + S[p] - 3) PROVE n2[a] = h.mem[a]
    <3>1. p \in Int /\ S[p] \in Int /\ p - 1 \in Addr /\ p + S[p] - 2 \in Addr /\ p + S[p] <= top
      BY <2>1, <1>1, BlockFacts
    <3>2. a \in Int /\ a \in Addr /\ a < top - 1
      BY <3>1, <1>2, Defs DEF Addr
    <3> QED BY <3>2, <1>9
  <2> QED BY <2>2, <2>3
<1> QED BY <1>11, <1>13, <1>14, <1>15

LEMMA InitGood ==
  ASSUME NEW m \in Memory, NEW g, g = Implicit!mm_init(m)
  PROVE  \E B, S, A : Heap(g, B, S, A) /\ Held(B, A) = {}
<1> DEFINE m1 == [m EXCEPT ![HeapBase] = 0]
           m2 == [m1 EXCEPT ![HeapBase + 1] = 3]
           m3 == [m2 EXCEPT ![HeapBase + 2] = 3]
           m4 == [m3 EXCEPT ![HeapBase + 3] = 1]
           h == [mem |-> m4, brk |-> HeapBase + 4, rover |-> first]
           B == {first}
           S == [p \in {first} |-> 2]
           A == [p \in {first} |-> 1]
           r == Implicit!extend_heap(h, CHUNKSIZE)
<1>1. /\ HeapBase \in Addr /\ HeapBase + 1 \in Addr /\ HeapBase + 2 \in Addr /\ HeapBase + 3 \in Addr
      /\ 0 \in Word /\ 1 \in Word /\ 3 \in Word
  BY Defs DEF Addr, Word
<1>2. m1 \in Memory
  BY <1>1 DEF Memory
<1> HIDE DEF m1
<1>3. m2 \in Memory /\ m2[HeapBase + 1] = 3
  BY <1>1, <1>2, PutFact
<1> HIDE DEF m2
<1>4. m3 \in Memory /\ m3[HeapBase + 2] = 3 /\ m3[HeapBase + 1] = 3
  <2>1. HeapBase + 1 # HeapBase + 2
    BY Defs
  <2> QED BY <2>1, <1>1, <1>3, PutFact
<1> HIDE DEF m3
<1>5. m4 \in Memory /\ m4[HeapBase + 3] = 1 /\ m4[HeapBase + 2] = 3 /\ m4[HeapBase + 1] = 3
  <2>1. HeapBase + 1 # HeapBase + 3 /\ HeapBase + 2 # HeapBase + 3
    BY Defs
  <2> QED BY <2>1, <1>1, <1>4 DEF Memory
<1>6. g = r.heap
  <2>1. 2 + 1 = 3 /\ 0 + 1 = 1
    OBVIOUS
  <2>2. /\ HeapBase + 1 + 2 = HeapBase + 3 /\ HeapBase + 2 * 2 = HeapBase + 4
    BY Defs
  <2> QED BY <2>1, <2>2, Defs DEF Implicit!mm_init, m1, m2, m3
<1> HIDE DEF m4
<1>7. h \in Records /\ h.mem = m4 /\ h.brk = HeapBase + 4 /\ h.rover = first
  BY <1>5, Defs DEF Records
<1> HIDE DEF h
<1>8. first \in Int /\ first = HeapBase + 2 /\ first % 2 = 0 /\ HeapBase \in Int
  BY Defs
<1>9. Layout(HeapBase + 4, B, S)
  <2>1. S[first] = 2 /\ S \in [B -> Nat]
    OBVIOUS
  <2>2. first + 2 = HeapBase + 4 /\ HeapBase + 4 # first /\ HeapBase + 4 <= HeapBase + MAX_HEAP
    BY <1>8, Defs
  <2> HIDE DEF S
  <2> QED BY <2>1, <2>2, <1>8 DEF Layout
<1> DEFINE top == HeapBase + 4
<1>10. Tagged(m4, top, B, S, A)
  <2>1. first - 1 = HeapBase + 1 /\ first + 2 - 2 = HeapBase + 2 /\ HeapBase + 4 - 1 = HeapBase + 3
    BY <1>8
  <2>2. A \in [B -> {0, 1}] /\ A[first] = 1 /\ S[first] = 2
    OBVIOUS
  <2>3. m4[first - 1] = 3 /\ m4[first + S[first] - 2] = 3 /\ m4[HeapBase + 4 - 1] = 1
    BY <2>1, <2>2, <1>5
  <2> HIDE DEF S, A
  <2>4. S[first] + A[first] = 3
    BY <2>2
  <2>5. \A p \in B : m4[p - 1] = S[p] + A[p] /\ m4[p + S[p] - 2] = S[p] + A[p]
    BY <2>2, <2>3, <2>4
  <2>7. m4[top - 1] = 1
    BY <2>3, <1>8 DEF top
  <2>8. top \in Int
    BY <1>8
  <2> HIDE DEF B, top
  <2> QED BY <2>2, <2>5, <2>7, <2>8 DEF Tagged
<1>11. Held(B, A) = {} /\ A[first] = 1
  BY DEF Held
<1> HIDE DEF S, A
<1>12. Heap(h, B, S, A)
  BY <1>7, <1>9, <1>10, <1>11 DEF Heap, HeapBut
<1>13. h.brk + CHUNKSIZE <= HeapBase + MAX_HEAP
  BY <1>7, Defs
<1>14. \E C, T, D : Heap(r.heap, C, T, D) /\ Held(C, D) = Held(B, A)
  <2> HIDE DEF B
  <2> QED BY <1>12, <1>13, Defs, ExtendGood
<1> QED BY <1>6, <1>11, <1>14

(* place takes a free block that is large enough, or the first part of it. *)
LEMMA PlaceGood ==
  ASSUME NEW h, NEW B, NEW S, NEW A, Heap(h, B, S, A), NEW b \in B, A[b] = 0,
         NEW asize \in Nat, asize % 2 = 0, asize >= 4, asize <= S[b],
         NEW g, g = Implicit!place(h, b, asize)
  PROVE  \E C, T, D : /\ Heap(g, C, T, D) /\ b \in C /\ T[b] >= asize
                      /\ b \notin Held(B, A) /\ Held(C, D) = Held(B, A) \union {b}
                      /\ Keeps(h, S, Held(B, A), g, C, T, D)
<1> DEFINE top == h.brk
           m == h.mem
<1>1. /\ h \in Records /\ m \in Memory /\ Layout(top, B, S) /\ Tagged(m, top, B, S, A)
      /\ \A p, q \in B : A[p] = 0 /\ A[q] = 0 => p + S[p] # q
      /\ NextFit => h.rover \in B \union {top}
  BY DEF Heap, HeapBut, Records
<1> HIDE DEF top, m
<1>2. /\ b # first /\ A \in [B -> {0, 1}] /\ S \in [B -> Nat] /\ S[b] % 2 = 0
      /\ b \notin Held(B, A) /\ first \in B /\ A[first] = 1
  <2>1. /\ A \in [B -> {0, 1}] /\ A[first] = 1 /\ S \in [B -> Nat] /\ S[b] % 2 = 0
        /\ first \in B
    BY <1>1 DEF Tagged, Layout
  <2>2. b # first
    BY <2>1
  <2>3. b \notin Held(B, A)
    BY DEF Held
  <2> QED BY <2>1, <2>2, <2>3
<1>3. \A p \in B : /\ p \in Int /\ S[p] \in Int /\ S[p] >= 2 /\ p >= first
                   /\ p + S[p] <= top /\ p + S[p] - 2 \in Addr /\ p - 1 \in Addr
                   /\ A[p] \in {0, 1}
  BY <1>1, BlockFacts
<1>4. /\ Implicit!GET_SIZE(m, b - 1) = S[b]
      /\ S[b] \in Word /\ S[b] + 1 \in Word
  <2>1. Implicit!GET_SIZE(m, b - 1) = S[b]
    BY <1>1, Reads
  <2>2. S[b] \in Word /\ S[b] + 1 \in Word
    BY <1>1, LayoutFacts
  <2> QED BY <2>1, <2>2
<1>5. CASE S[b] - asize < 4
  <2> DEFINE n == Implicit!tags(m, b, S[b], 1)
             D == BitSet(A, b, 1)
  <2>1. g = [h EXCEPT !.mem = n]
    <3>1. ~(S[b] - asize >= 2 + 2)
      BY <1>3, <1>5
    <3> QED BY <3>1, <1>4 DEF Implicit!place, m
  <2>2. /\ n \in Memory /\ Tagged(n, top, B, S, D)
        /\ \A p \in B : \A a \in p .. (p + S[p] - 3) : n[a] = m[a]
    <3>1. 1 \in {0, 1}
      OBVIOUS
    <3> QED BY <3>1, <1>1, <1>2, Retagged
  <2> HIDE DEF n
  <2>3. g \in Records /\ g.mem = n /\ g.brk = top /\ g.rover = h.rover
    BY <2>1, <2>2, <1>1 DEF Records, top
  <2>4. D[b] = 1 /\ \A p \in B : p # b => D[p] = A[p]
    BY <1>2 DEF BitSet
  <2> HIDE DEF D
  <2>5. \A p, q \in B : D[p] = 0 /\ D[q] = 0 => p + S[p] # q
    BY <2>4, <1>1
  <2>6. Heap(g, B, S, D)
    BY <2>2, <2>3, <2>5, <1>1 DEF Heap, HeapBut
  <2>7. Held(B, D) = Held(B, A) \union {b}
    BY <2>4, <1>2 DEF Held
  <2>8. Keeps(h, S, Held(B, A), g, B, S, D)
    <3>1. \A p \in Held(B, A) : p \in B /\ A[p] = 1 /\ p # b
      BY <1>2 DEF Held
    <3> QED BY <3>1, <2>2, <2>3, <2>4 DEF Keeps, m
  <2> QED BY <2>6, <2>7, <2>8, <1>2
<1>6. CASE S[b] - asize >= 4
  <2> DEFINE n1 == Implicit!tags(m, b, asize, 1)
             rest == S[b] - asize
             n == Implicit!tags(n1, b + asize, rest, 0)
             C == B \union {b + asize}
             T == Split(B, S, b, asize)
             D == SplitBits(B, A, b, asize)
  <2>1. /\ rest \in Nat /\ rest >= 4 /\ rest % 2 = 0 /\ rest + 1 \in Word /\ asize + 1 \in Word
        /\ b \in Int /\ b - 1 \in Addr /\ b + asize - 2 \in Addr /\ b + asize \in Int
        /\ (b + asize) - 1 \in Addr /\ (b + asize) + rest - 2 \in Addr
        /\ (b + asize) + rest = b + S[b] /\ asize >= 2 /\ rest >= 2
    <3>1. b \in Int /\ S[b] \in Int /\ b - 1 \in Addr /\ b + S[b] - 2 \in Addr
      BY <1>3
    <3>2. rest \in Nat /\ rest >= 4 /\ rest % 2 = 0
      BY <3>1, <1>2, <1>6
    <3> QED BY <3>1, <3>2, <1>4, <1>6, Defs DEF Word, Addr
  <2> HIDE DEF rest
  <2>2. Tags(m, n1, b, asize, 1)
    BY <2>1, <1>1, TagsWritten
  <2> HIDE DEF n1
  <2>3. n1 \in Memory /\ n1[b - 1] = asize + 1
    BY <2>2 DEF Tags
  <2>4. Implicit!NEXT_BLKP(n1, b) = b + asize
    <3>1. (asize + 1) % 2 = 1 /\ (asize + 1) - 1 = asize
      OBVIOUS
    <3>2. Implicit!GET_SIZE(n1, b - 1) = asize
      BY <3>1, <2>3 DEF Implicit!GET_SIZE
    <3> QED BY <3>2 DEF Implicit!NEXT_BLKP
  <2>5. Tags(n1, n, b + asize, rest, 0)
    BY <2>1, <2>3, TagsWritten
  <2>6. g = [h EXCEPT !.mem = n]
    <3>1. g = [h EXCEPT !.mem = Implicit!tags(n1, Implicit!NEXT_BLKP(n1, b), rest, 0)]
      BY <1>4, <1>6 DEF Implicit!place, m, n1, rest
    <3> QED BY <3>1, <2>4
  <2> HIDE DEF n
  <2>7. n \in Memory /\ \A a \in Addr : a # (b + asize) - 1 /\ a # (b + asize) + rest - 2 => n[a] = n1[a]
    BY <2>5 DEF Tags
  <2>8. \A a \in Addr : a # b - 1 /\ a # b + asize - 2 => n1[a] = m[a]
    BY <2>2 DEF Tags
  <2>9. Tagged(n, top, C, T, D)
    BY <2>2, <2>5, <1>1, <1>2, <1>6, SplitTagged DEF rest
  <2>10. Layout(top, C, T) /\ b + asize \notin B
    BY <1>1, <1>2, <1>6, SplitLayout
  <2>11. g \in Records /\ g.mem = n /\ g.brk = top /\ g.rover = h.rover
    BY <2>6, <2>7, <1>1 DEF Records, top
  <2>12. /\ D[b] = 1 /\ T[b] = asize /\ D[b + asize] = 0 /\ T[b + asize] = rest
         /\ \A p \in B : p \in C /\ (p # b => D[p] = A[p] /\ T[p] = S[p])
         /\ \A p \in C : p \in B \/ p = b + asize
         /\ b + asize # b
    BY <2>1, <2>10 DEF Split, SplitBits, rest
  <2> HIDE DEF C, T, D
  <2>13. \A p, q \in B : p < q => p + S[p] <= q
    BY <1>1 DEF Layout
  <2>14. \A p, q \in C : D[p] = 0 /\ D[q] = 0 => p + T[p] # q
    <3> SUFFICES ASSUME NEW p \in C, NEW q \in C, D[p] = 0, D[q] = 0, p + T[p] = q PROVE FALSE
      OBVIOUS
    <3>1. p # b /\ q # b
      BY <2>12
    <3>2. CASE p \in B /\ q \in B
      BY <3>1, <3>2, <2>12, <1>1
    <3>3. CASE p = b + asize
      <4>1. q = b + S[b]
        BY <3>3, <2>1, <2>12
      <4>2. q \in B /\ A[q] = 0
        BY <4>1, <3>1, <2>12, <1>3, <1>6
      <4> QED BY <4>1, <4>2, <1>1
    <3>4. CASE p \in B /\ q = b + asize
      <4>1. p + S[p] = b + asize
        BY <3>1, <3>4, <2>12
      <4>2. p < b => p + S[p] <= b
        BY <3>4, <2>13
      <4>3. b < p => b + S[b] <= p
        BY <3>4, <2>13
      <4> QED BY <4>1, <4>2, <4>3, <3>1, <3>4, <1>3, <1>6
    <3> QED BY <3>2, <3>3, <3>4, <2>12
  <2>15. Heap(g, C, T, D)
    <3>1. NextFit => g.rover \in C \union {g.brk}
      BY <2>11, <2>12, <1>1
    <3> QED BY <3>1, <2>9, <2>10, <2>11, <2>14 DEF Heap, HeapBut
  <2>16. Held(C, D) = Held(B, A) \union {b}
    <3>1. \A p : p \in Held(C, D) <=> p \in Held(B, A) \/ p = b
      BY <2>12, <1>2 DEF Held
    <3> QED BY <3>1
  <2>17. Keeps(h, S, Held(B, A), g, C, T, D)
    <3> SUFFICES ASSUME NEW p \in Held(B, A)
                 PROVE  /\ p \in C /\ T[p] = S[p] /\ D[p] = 1
                        /\ \A a \in p .. (p + S[p] - 3) : n[a] = m[a]
      BY <2>11 DEF Keeps, m
    <3>1. p \in B /\ A[p] = 1 /\ p # b
      BY <1>2 DEF Held
    <3>2. ASSUME NEW a \in p .. (p + S[p] - 3) PROVE n[a] = m[a]
      <4>1. p \in Int /\ S[p] \in Int /\ p - 1 \in Addr /\ p + S[p] - 2 \in Addr /\ a \in Int
        BY <3>1, <1>3
      <4>2. a \in Addr
        BY <4>1, Defs DEF Addr
      <4>3. p + S[p] <= b \/ b + S[b] <= p
        BY <3>1, <2>13, <1>3
      <4>4. a < b - 1 \/ a > b + S[b] - 2
        BY <4>1, <4>3, <2>1, <1>3
      <4>5. /\ a # b - 1 /\ a # b + asize - 2
            /\ a # (b + asize) - 1 /\ a # (b + asize) + rest - 2
        BY <4>1, <4>4, <2>1, <1>3
      <4> QED BY <4>2, <4>5, <2>7, <2>8
    <3> QED BY <3>1, <3>2, <2>12
  <2> QED BY <2>12, <2>15, <2>16, <2>17, <1>2
<1>7. S[b] - asize \in Int
  BY <1>3
<1> QED BY <1>5, <1>6, <1>7

----------------------------------------------------------------------------
(* The walk upwards, and the search.                                       *)

(* A set of numbers has a least one.                                       *)
LEMMA Least ==
  ASSUME NEW T, T \subseteq Nat, T # {}
  PROVE  \E x \in T : \A y \in T : x <= y
<1> DEFINE R == {ss \in Nat \X Nat : ss[1] < ss[2]}
<1>1. IsWellFoundedOn(R, Nat)
  BY NatLessThanWellFounded DEF OpToRel
<1>2. \A x, y \in Nat : y < x => <<y, x>> \in R
  OBVIOUS
<1> HIDE DEF R
<1>3. PICK x \in T : \A y \in T : ~(<<y, x>> \in R)
  BY <1>1, WFMin
<1>4. ASSUME NEW y \in T PROVE x <= y
  <2>1. x \in Nat /\ y \in Nat
    OBVIOUS
  <2>2. ~(y < x)
    BY <2>1, <1>2, <1>3
  <2> QED BY <2>1, <2>2
<1> QED BY <1>4

(* A set of numbers with a bound has a greatest one.                       *)
LEMMA Greatest ==
  ASSUME NEW T, T \subseteq Int, T # {}, NEW n \in Int, \A x \in T : x <= n
  PROVE  \E x \in T : \A y \in T : y <= x
<1> DEFINE D == {n - x : x \in T}
<1>1. D \subseteq Nat /\ D # {}
  <2>1. \A x \in T : x \in Int /\ x <= n /\ n - x \in Nat
    OBVIOUS
  <2> QED BY <2>1
<1>2. PICK d \in D : \A y \in D : d <= y
  BY <1>1, Least
<1>3. PICK x \in T : d = n - x
  OBVIOUS
<1>4. ASSUME NEW y \in T PROVE y <= x
  <2>1. n - y \in D
    OBVIOUS
  <2>2. n - x <= n - y /\ x \in Int /\ y \in Int
    BY <2>1, <1>2, <1>3
  <2> QED BY <2>2
<1> QED BY <1>4

(* Where heap_blocks may look for a header.                                *)
Places == (HeapBase + 1) .. (HeapBase + MAX_HEAP)

(* w[b] holds the blocks found by walking up from b.                       *)
IsWalk(h, w) ==
  w = [b \in Places |->
         IF Implicit!GET_SIZE(h.mem, b - 1) = 0 THEN {b}
         ELSE {b} \union IF Implicit!NEXT_BLKP(h.mem, b) <= h.brk
                         THEN w[Implicit!NEXT_BLKP(h.mem, b)] ELSE {}]

(* Whatever the memory, there is such a function: the least sets closed    *)
(* under the walk's step.                                                  *)
LEMMA WalkExists ==
  ASSUME NEW h \in Records, h.brk <= HeapBase + MAX_HEAP
  PROVE  \E w : IsWalk(h, w)
<1> DEFINE N(b) == Implicit!NEXT_BLKP(h.mem, b)
           On(b) == Implicit!GET_SIZE(h.mem, b - 1) # 0 /\ N(b) <= h.brk
           Closed(X, b) == b \in X /\ \A x \in X : On(x) => N(x) \in X
           w == [b \in Places |-> {q \in Places : \A X \in SUBSET Places : Closed(X, b) => q \in X}]
<1>0. ASSUME NEW b \in Places, On(b) PROVE N(b) \in Places
  <2> DEFINE v == h.mem[b - 1]
  <2>1. b \in Int /\ b - 1 \in Addr /\ b > HeapBase
    BY Defs DEF Places, Addr
  <2>2. v \in Word /\ h.brk \in Int
    BY <2>1 DEF Records, Memory
  <2>3. v \in Int /\ v >= 0
    BY <2>2, Defs DEF Word
  <2> HIDE DEF v
  <2>4. v - (v % 2) \in Int /\ v - (v % 2) >= 0
    BY <2>3
  <2>5. N(b) = b + (v - (v % 2))
    BY DEF Implicit!NEXT_BLKP, Implicit!GET_SIZE, v
  <2>6. N(b) <= h.brk
    BY <1>0
  <2> HIDE DEF N
  <2> QED BY <2>1, <2>2, <2>4, <2>5, <2>6, Defs DEF Places
<1> HIDE DEF N, On
<1>1. DOMAIN w = Places /\ \A b \in Places : w[b] \in SUBSET Places
  OBVIOUS
<1>2. ASSUME NEW b \in Places, NEW q
      PROVE  q \in w[b] <=> q \in Places /\ \A X \in SUBSET Places : Closed(X, b) => q \in X
  OBVIOUS
<1>3. ASSUME NEW b \in Places PROVE Closed(w[b], b)
  BY <1>0, <1>2
<1>4. ASSUME NEW b \in Places, NEW X \in SUBSET Places, Closed(X, b) PROVE w[b] \subseteq X
  BY <1>2, <1>4
<1> HIDE DEF w
<1>5. ASSUME NEW b \in Places
      PROVE  w[b] = {b} \union IF On(b) THEN w[N(b)] ELSE {}
  <2>1. CASE ~On(b)
    <3>1. Closed({b}, b)
      BY <2>1
    <3>2. w[b] \subseteq {b}
      BY <3>1, <1>4
    <3>3. b \in w[b]
      BY <1>3
    <3> QED BY <3>2, <3>3, <2>1
  <2>2. CASE On(b)
    <3>1. Closed(w[N(b)], N(b)) /\ Closed(w[b], b) /\ N(b) \in Places
      BY <2>2, <1>0, <1>3
    <3>2. Closed({b} \union w[N(b)], b) /\ {b} \union w[N(b)] \in SUBSET Places
      BY <2>2, <3>1, <1>1
    <3>3. w[b] \subseteq {b} \union w[N(b)]
      BY <3>2, <1>4
    <3>4. b \in w[b] /\ Closed(w[b], N(b))
      BY <2>2, <3>1
    <3>5. w[N(b)] \subseteq w[b]
      BY <3>1, <3>4, <1>1, <1>4
    <3> QED BY <3>3, <3>4, <3>5, <2>2
  <2> QED BY <2>1, <2>2
<1>6. w = [b \in Places |-> w[b]]
  BY DEF w
<1>7. ASSUME NEW b \in Places
      PROVE  w[b] = IF Implicit!GET_SIZE(h.mem, b - 1) = 0 THEN {b}
                    ELSE {b} \union IF Implicit!NEXT_BLKP(h.mem, b) <= h.brk
                                    THEN w[Implicit!NEXT_BLKP(h.mem, b)] ELSE {}
  BY <1>5 DEF On, N
<1>8. IsWalk(h, w)
  BY <1>6, <1>7 DEF IsWalk
<1> QED BY <1>8

(* In a tiled heap, the walk finds the blocks of the tiling.               *)
LEMMA HeapBlocks ==
  ASSUME NEW h, NEW B, NEW S, NEW A, Heap(h, B, S, A)
  PROVE  Implicit!heap_blocks(h) = B \union {h.brk}
<1> DEFINE walk[b \in (HeapBase + 1) .. (HeapBase + MAX_HEAP)] ==
        IF Implicit!GET_SIZE(h.mem, b - 1) = 0 THEN {b}
        ELSE {b} \union IF Implicit!NEXT_BLKP(h.mem, b) <= h.brk
                        THEN walk[Implicit!NEXT_BLKP(h.mem, b)] ELSE {}
           top == h.brk
           m == h.mem
           U == B \union {top}
<1>1. /\ h \in Records /\ m \in Memory /\ Layout(top, B, S) /\ Tagged(m, top, B, S, A)
      /\ h.brk <= HeapBase + MAX_HEAP
  BY DEF Heap, HeapBut, Records, Layout
<1>2. Implicit!heap_blocks(h) = walk[first]
  BY Defs DEF Implicit!heap_blocks
<1>3. PICK w : IsWalk(h, w)
  BY <1>1, WalkExists
<1>4. IsWalk(h, walk)
  BY <1>3 DEF IsWalk, Places
<1> HIDE DEF walk, top, m
<1>5. /\ top \in Int /\ top \notin B /\ top > first + 1 /\ top - 1 \in Addr
      /\ \A p \in B : p \in Int /\ S[p] \in Int /\ p - 1 \in Addr
  BY <1>1, LayoutFacts
<1>6. /\ \A p \in B : S[p] >= 2 /\ p >= first /\ p + S[p] <= top /\ p + S[p] \in U
      /\ first \in B /\ \A p, q \in B : p < q => p + S[p] <= q
  BY <1>1 DEF Layout
<1>7. \A p \in B : Implicit!GET_SIZE(m, p - 1) = S[p] /\ Implicit!NEXT_BLKP(m, p) = p + S[p]
  BY <1>1, Reads
<1>8. Implicit!GET_SIZE(m, top - 1) = 0
  BY <1>1, <1>5, TopReads
<1>9. \A p \in U : p \in Places
  BY <1>5, Defs DEF Addr, Places
<1>10. walk[top] = {top}
  BY <1>4, <1>8, <1>9 DEF IsWalk, m
<1>11. \A p \in B : walk[p] = {p} \union walk[p + S[p]]
  <2> SUFFICES ASSUME NEW p \in B PROVE walk[p] = {p} \union walk[p + S[p]]
    OBVIOUS
  <2>1. Implicit!GET_SIZE(h.mem, p - 1) # 0 /\ Implicit!NEXT_BLKP(h.mem, p) = p + S[p]
    BY <1>5, <1>6, <1>7 DEF m
  <2>2. p + S[p] <= h.brk
    BY <1>6 DEF top
  <2>3. walk[p] = IF Implicit!GET_SIZE(h.mem, p - 1) = 0 THEN {p}
                  ELSE {p} \union IF Implicit!NEXT_BLKP(h.mem, p) <= h.brk
                                  THEN walk[Implicit!NEXT_BLKP(h.mem, p)] ELSE {}
    BY <1>4, <1>9 DEF IsWalk
  <2> QED BY <2>1, <2>2, <2>3
<1> DEFINE Above(p) == {q \in U : q >= p}
           Bad == {p \in B : walk[p] # Above(p)}
<1>12. Bad = {}
  <2>1. SUFFICES ASSUME Bad # {} PROVE FALSE
    OBVIOUS
  <2>2. Bad \subseteq Int /\ \A p \in Bad : p <= top
    <3>1. \A p \in B : p \in Int /\ p <= top
      BY <1>5, <1>6
    <3>2. Bad \subseteq B
      OBVIOUS
    <3> HIDE DEF Bad
    <3> QED BY <3>1, <3>2
  <2>3. PICK p \in Bad : \A q \in Bad : q <= p
    BY <2>1, <2>2, <1>5, Greatest
  <2>4. p \in B /\ walk[p] # Above(p)
    OBVIOUS
  <2>5. CASE p + S[p] = top
    <3>1. \A q \in U : q >= p => q = p \/ q = top
      BY <2>4, <2>5, <1>5, <1>6
    <3>2. Above(p) = {p, top}
      BY <2>4, <3>1, <1>5, <1>6
    <3> QED BY <2>4, <2>5, <3>2, <1>10, <1>11
  <2>6. CASE p + S[p] \in B
    <3>1. p + S[p] \notin Bad
      BY <2>3, <2>4, <1>5, <1>6
    <3>2. walk[p + S[p]] = Above(p + S[p])
      BY <2>6, <3>1
    <3>3. Above(p) = {p} \union Above(p + S[p])
      <4>1. \A q \in U : q >= p <=> q = p \/ q >= p + S[p]
        BY <2>4, <1>5, <1>6
      <4> QED BY <4>1, <2>4
    <3> QED BY <2>4, <3>2, <3>3, <1>11
  <2> QED BY <2>4, <2>5, <2>6, <1>6
<1>13. first \in B /\ Above(first) = U
  BY <1>5, <1>6
<1> QED BY <1>2, <1>12, <1>13 DEF top

Stops(h, limit, asize, b) ==
  b >= limit \/ Implicit!GET_SIZE(h.mem, b - 1) = 0 \/ Implicit!fits(h.mem, b, asize)

(* f searches upwards through U.                                           *)
IsSearch(h, U, limit, asize, f) ==
  f = [b \in U |-> IF Stops(h, limit, asize, b) THEN b ELSE f[Implicit!NEXT_BLKP(h.mem, b)]]

FirstStop(h, U, limit, asize, b, q) ==
  /\ q \in U /\ b <= q /\ Stops(h, limit, asize, q)
  /\ \A r \in U : b <= r /\ r < q => ~Stops(h, limit, asize, r)

(* search ends at the first block that stops it, and there is one.         *)
LEMMA SearchStops ==
  ASSUME NEW h, NEW B, NEW S, NEW A, Heap(h, B, S, A),
         NEW p \in B \union {h.brk}, NEW limit, NEW asize
  PROVE  FirstStop(h, B \union {h.brk}, limit, asize, p, Implicit!search(h, p, limit, asize))
<1> DEFINE U == B \union {h.brk}
           top == h.brk
           N(b) == Implicit!NEXT_BLKP(h.mem, b)
           St(b) == Stops(h, limit, asize, b)
           FS(b, q) == /\ q \in U /\ b <= q /\ St(q)
                       /\ \A r \in U : b <= r /\ r < q => ~St(r)
           g == [b \in U |-> CHOOSE q \in U : FS(b, q)]
           from[b \in U] == IF b >= limit \/ Implicit!GET_SIZE(h.mem, b - 1) = 0
                               \/ Implicit!fits(h.mem, b, asize)
                            THEN b ELSE from[Implicit!NEXT_BLKP(h.mem, b)]
<1>1. h \in Records /\ Layout(top, B, S) /\ Tagged(h.mem, top, B, S, A)
  BY DEF Heap, HeapBut
<1>2. Implicit!search(h, p, limit, asize) = from[p]
  BY HeapBlocks DEF Implicit!search
<1> HIDE DEF from, N
<1>3. /\ top \in U /\ U \subseteq Nat /\ \A q \in U : q <= top
      /\ \A q \in B : N(q) \in U /\ q < N(q) /\ \A r \in U : q <= r /\ r < N(q) => r = q
  <2>1. top \in Int /\ top > first + 1 /\ \A q \in B : q \in Int /\ S[q] \in Int
    BY <1>1, LayoutFacts
  <2>2. /\ \A q \in B : S[q] >= 2 /\ q >= first /\ q + S[q] <= top /\ q + S[q] \in U
        /\ \A q, r \in B : q < r => q + S[q] <= r
    BY <1>1 DEF Layout
  <2>3. \A q \in B : N(q) = q + S[q]
    BY <1>1, Reads DEF N
  <2>4. first \in Nat
    BY Defs
  <2>5. \A q \in B : q \in Nat /\ q <= top
    BY <2>1, <2>2, <2>4
  <2>6. top \in Nat
    BY <2>1, <2>4
  <2>7. \A q \in B : N(q) \in U /\ q < N(q)
    BY <2>1, <2>2, <2>3
  <2>8. ASSUME NEW q \in B, NEW r \in U, q <= r, r < N(q) PROVE r = q
    BY <2>1, <2>2, <2>3, <2>8
  <2> QED BY <2>5, <2>6, <2>7, <2>8
<1>4. St(top)
  <2>1. Implicit!GET_SIZE(h.mem, top - 1) = 0
    BY <1>1, <1>3, TopReads
  <2> QED BY <2>1 DEF Stops
<1> HIDE DEF St, top, U
<1>5. ASSUME NEW b \in U PROVE \E q \in U : FS(b, q)
  <2> DEFINE K == {q \in U : b <= q /\ St(q)}
  <2>1. top \in K /\ K \subseteq Nat
    BY <1>3, <1>4
  <2>2. PICK q \in K : \A r \in K : q <= r
    <3> HIDE DEF K
    <3> QED BY <2>1, Least
  <2>3. \A r \in U : b <= r /\ r < q => ~St(r)
    <3> SUFFICES ASSUME NEW r \in U, b <= r, r < q, St(r) PROVE FALSE
      OBVIOUS
    <3>1. r \in K /\ q \in Nat /\ r \in Nat
      BY <1>3
    <3> QED BY <3>1, <2>2
  <2> QED BY <2>2, <2>3
<1>6. \A b \in U : FS(b, g[b])
  BY <1>5
<1> HIDE DEF g
<1>7. ASSUME NEW b \in U PROVE g[b] = IF St(b) THEN b ELSE g[N(b)]
  <2>1. FS(b, g[b]) /\ b \in Nat /\ g[b] \in Nat
    BY <1>3, <1>6
  <2>2. CASE St(b)
    <3>1. ~(b < g[b])
      BY <2>1, <2>2
    <3> QED BY <2>1, <2>2, <3>1
  <2>3. CASE ~St(b)
    <3>1. b \in B
      BY <2>3, <1>4 DEF U, top
    <3>2. N(b) \in U /\ b < N(b) /\ \A r \in U : b <= r /\ r < N(b) => r = b
      BY <3>1, <1>3
    <3>3. FS(N(b), g[N(b)]) /\ N(b) \in Nat /\ g[N(b)] \in Nat
      BY <3>2, <1>3, <1>6
    <3>4. N(b) <= g[b]
      BY <2>1, <2>3, <3>2, <3>3
    <3>5. ~(g[b] < g[N(b)])
      BY <2>1, <3>3, <3>4
    <3>6. ~(g[N(b)] < g[b])
      BY <2>1, <3>2, <3>3
    <3> QED BY <2>1, <2>3, <3>3, <3>5, <3>6
  <2> QED BY <2>2, <2>3
<1>8. g = [b \in U |-> g[b]]
  BY DEF g
<1>9. IsSearch(h, U, limit, asize, g)
  BY <1>7, <1>8 DEF IsSearch, St, N
<1>10. IsSearch(h, U, limit, asize, from)
  BY <1>9 DEF IsSearch, Stops, from
<1>11. ASSUME NEW b \in U PROVE from[b] = IF St(b) THEN b ELSE from[N(b)]
  BY <1>10 DEF IsSearch, St, N
<1> DEFINE Bad == {b \in U : from[b] # g[b]}
<1>12. Bad = {}
  <2>1. SUFFICES ASSUME Bad # {} PROVE FALSE
    OBVIOUS
  <2>2. Bad \subseteq Int /\ \A b \in Bad : b <= top
    <3>1. Bad \subseteq U
      OBVIOUS
    <3> HIDE DEF Bad
    <3> QED BY <3>1, <1>3
  <2>3. PICK b \in Bad : \A q \in Bad : q <= b
    <3>1. top \in Int
      BY <1>3
    <3> HIDE DEF Bad
    <3> QED BY <2>1, <2>2, <3>1, Greatest
  <2>4. b \in U /\ from[b] # g[b]
    OBVIOUS
  <2>5. ~St(b)
    BY <2>4, <1>7, <1>11
  <2>6. b \in B
    BY <2>4, <2>5, <1>4 DEF U, top
  <2>7. N(b) \in U /\ b < N(b) /\ b \in Nat /\ N(b) \in Nat
    BY <2>4, <2>6, <1>3
  <2>8. N(b) \notin Bad
    BY <2>3, <2>7
  <2>9. from[N(b)] = g[N(b)]
    BY <2>7, <2>8
  <2> QED BY <2>4, <2>5, <2>9, <1>7, <1>11
<1>13. p \in U
  BY DEF U
<1>14. FS(p, from[p])
  BY <1>6, <1>12, <1>13
<1> QED BY <1>2, <1>14 DEF FirstStop, St, U

(* What find_fit finds, in a heap whose search it keeps well formed.       *)
LEMMA FindFitGood ==
  ASSUME NEW h, NEW B, NEW S, NEW A, Heap(h, B, S, A), NEW asize,
         NEW fit, fit = Implicit!find_fit(h, asize)
  PROVE  /\ Heap(fit.heap, B, S, A) /\ fit.heap.mem = h.mem /\ fit.heap.brk = h.brk
         /\ fit.bp # NULL => fit.bp \in B /\ A[fit.bp] = 0 /\ asize <= S[fit.bp]
         /\ fit.bp = NULL <=> \A b \in B \union {h.brk} : ~Implicit!fits(h.mem, b, asize)
<1> DEFINE U == B \union {h.brk}
           top == h.brk
           m == h.mem
           b == Implicit!found(h, asize)
           Fits(q) == Implicit!fits(m, q, asize)
<1>1. /\ h \in Records /\ Layout(top, B, S) /\ Tagged(m, top, B, S, A)
      /\ NextFit => h.rover \in U
  BY DEF Heap, HeapBut
<1>2. /\ top \in Int /\ top > first + 1
      /\ \A q \in B : q \in Int /\ S[q] \in Int /\ q # 0
  BY <1>1, LayoutFacts
<1>3. \A q \in B : S[q] >= 2 /\ q >= first /\ q + S[q] <= top
  BY <1>1 DEF Layout
<1>4. /\ Implicit!GET_SIZE(m, top - 1) = 0 /\ Implicit!GET_ALLOC(m, top - 1) = 1
      /\ \A q \in B : Implicit!GET_SIZE(m, q - 1) = S[q] /\ Implicit!GET_ALLOC(m, q - 1) = A[q]
  <2>1. Implicit!GET_SIZE(m, top - 1) = 0 /\ Implicit!GET_ALLOC(m, top - 1) = 1
    BY <1>1, <1>2, TopReads
  <2>2. \A q \in B : Implicit!GET_SIZE(m, q - 1) = S[q] /\ Implicit!GET_ALLOC(m, q - 1) = A[q]
    BY <1>1, Reads
  <2> QED BY <2>1, <2>2
<1>5. ~Fits(top) /\ \A q \in B : Fits(q) <=> A[q] = 0 /\ asize <= S[q]
  BY <1>4 DEF Implicit!fits
<1>6. ASSUME NEW limit, NEW q \in U
      PROVE  Stops(h, limit, asize, q) <=> q >= limit \/ q = top \/ Fits(q)
  <2>1. Implicit!GET_SIZE(m, q - 1) = 0 <=> q = top
    BY <1>2, <1>3, <1>4
  <2> QED BY <2>1 DEF Stops
<1>7. first \in U /\ first \in Int
  BY <1>1, Defs DEF Layout
<1> HIDE DEF U, top, m, Fits
<1>8. \A q \in U : q \in Int /\ first <= q /\ q <= top
  BY <1>2, <1>3, <1>7 DEF U, top
<1>9. b \in U /\ (~Fits(b) => \A q \in U : ~Fits(q))
  <2>1. CASE ~NextFit
    <3>1. b = Implicit!search(h, first, top, asize)
      BY <2>1, Defs DEF Implicit!found, Implicit!found_forward, NextFit, top
    <3> HIDE DEF b
    <3>2. FirstStop(h, U, top, asize, first, b)
      BY <3>1, <1>7, SearchStops DEF U
    <3>3. /\ b \in U /\ Stops(h, top, asize, b)
          /\ \A q \in U : first <= q /\ q < b => ~Stops(h, top, asize, q)
      BY <3>2 DEF FirstStop
    <3>4. ASSUME ~Fits(b), NEW q \in U PROVE ~Fits(q)
      <4>1. b = top
        BY <3>3, <3>4, <1>6, <1>8, <1>2
      <4>2. q < top \/ q = top
        BY <1>2, <1>8
      <4> QED BY <3>3, <3>4, <4>1, <4>2, <1>6, <1>8
    <3> QED BY <3>3, <3>4
  <2>2. CASE NextFit
    <3> DEFINE b1 == Implicit!search(h, h.rover, top, asize)
               b2 == Implicit!search(h, first, h.rover, asize)
    <3>1. b = IF b1 = top THEN b2 ELSE b1
      BY <2>2, Defs DEF Implicit!found, Implicit!found_forward, NextFit, top
    <3> HIDE DEF b, b1, b2
    <3>2. FirstStop(h, U, top, asize, h.rover, b1)
      BY <2>2, <1>1, SearchStops DEF U, b1
    <3>3. FirstStop(h, U, h.rover, asize, first, b2)
      BY <1>7, SearchStops DEF U, b2
    <3>4. /\ b1 \in U /\ h.rover <= b1 /\ Stops(h, top, asize, b1)
          /\ \A q \in U : h.rover <= q /\ q < b1 => ~Stops(h, top, asize, q)
      BY <3>2 DEF FirstStop
    <3>5. /\ b2 \in U /\ first <= b2 /\ Stops(h, h.rover, asize, b2)
          /\ \A q \in U : first <= q /\ q < b2 => ~Stops(h, h.rover, asize, q)
      BY <3>3 DEF FirstStop
    <3>6. h.rover \in U
      BY <2>2, <1>1
    <3>7. CASE b1 # top
      <4>1. b1 < top
        BY <3>4, <3>7, <1>2, <1>8
      <4>2. Fits(b1)
        BY <3>4, <4>1, <3>7, <1>2, <1>6, <1>8
      <4> QED BY <3>1, <3>4, <3>7, <4>2
    <3>8. CASE b1 = top
      <4>1. b = b2
        BY <3>1, <3>8
      <4>2. ASSUME ~Fits(b2), NEW q \in U, Fits(q) PROVE FALSE
        <5>1. h.rover <= b2
          BY <3>5, <3>6, <4>2, <1>6, <1>8
        <5>2. CASE q < h.rover
          BY <5>1, <5>2, <3>5, <3>6, <4>2, <1>6, <1>8
        <5>3. CASE h.rover <= q
          <6>1. q < top
            BY <4>2, <1>2, <1>5, <1>8
          <6> QED BY <5>3, <6>1, <3>4, <3>8, <4>2, <1>6
        <5> QED BY <5>2, <5>3, <3>6, <1>8
      <4> QED BY <4>1, <4>2, <3>5
    <3> QED BY <3>7, <3>8
  <2> QED BY <2>1, <2>2
<1> HIDE DEF b
<1>10. /\ fit.heap = IF NextFit THEN [h EXCEPT !.rover = b] ELSE h
       /\ fit.bp = IF Fits(b) THEN b ELSE 0
  BY DEF Implicit!find_fit, NextFit, Fits, m, b
<1>11. b \in Int
  BY <1>8, <1>9
<1>12. /\ fit.heap \in Records /\ fit.heap.mem = h.mem /\ fit.heap.brk = h.brk
       /\ NextFit => fit.heap.rover = b
  BY <1>1, <1>10, <1>11 DEF Records
<1>13. Heap(fit.heap, B, S, A)
  <2>1. NextFit => fit.heap.rover \in B \union {fit.heap.brk}
    BY <1>9, <1>12 DEF U
  <2>2. \A p, q \in B : A[p] = 0 /\ A[q] = 0 => p + S[p] # q
    BY DEF Heap, HeapBut
  <2> QED BY <2>1, <2>2, <1>1, <1>12 DEF Heap, HeapBut, m, top
<1>14. fit.bp # NULL => fit.bp \in B /\ A[fit.bp] = 0 /\ asize <= S[fit.bp]
  BY <1>5, <1>9, <1>10 DEF U, top
<1>15. fit.bp = NULL <=> \A q \in U : ~Fits(q)
  <2>1. Fits(b) => b # 0
    BY <1>2, <1>5, <1>9 DEF U, top
  <2> QED BY <2>1, <1>9, <1>10
<1> QED BY <1>12, <1>13, <1>14, <1>15 DEF U, Fits, m

----------------------------------------------------------------------------
(* The client's calls.                                                     *)

(* The words a request of size bytes needs.                                *)
LEMMA AdjustFact ==
  ASSUME NEW size \in Nat, size > 0
  PROVE  /\ payload_words(size) \in Nat /\ payload_words(size) >= 1
         /\ payload_words(size) = (size + 3) \div 4
         /\ Implicit!adjust(size) \in Nat /\ Implicit!adjust(size) % 2 = 0
         /\ Implicit!adjust(size) >= 4
         /\ Implicit!adjust(size) >= payload_words(size) + 2
<1>1. payload_words(size) = (size + 3) \div 4
  BY DEF payload_words
<1>2. (size + 3) \div 4 \in Nat /\ (size + 3) \div 4 >= 1 /\ 4 * ((size + 3) \div 4) <= size + 3
  OBVIOUS
<1>3. CASE size <= 8
  <2>1. Implicit!adjust(size) = 4
    BY <1>3 DEF Implicit!adjust
  <2>2. (size + 3) \div 4 <= 2
    BY <1>2, <1>3
  <2> QED BY <1>1, <1>2, <2>1, <2>2
<1>4. CASE size > 8
  <2> DEFINE q == (size + 8 + 7) \div 8
             p == (size + 3) \div 4
  <2>1. Implicit!adjust(size) = 2 * q
    BY <1>4 DEF Implicit!adjust
  <2>2. q \in Nat /\ 8 * q <= size + 15 /\ size + 15 < 8 * q + 8
    OBVIOUS
  <2>3. p \in Nat /\ p >= 1 /\ 4 * p <= size + 3 /\ payload_words(size) = p
    BY <1>1, <1>2
  <2> HIDE DEF p, q
  <2>4. q >= 2 /\ 2 * q >= p + 2 /\ (2 * q) % 2 = 0 /\ 2 * q \in Nat
    BY <1>4, <2>2, <2>3
  <2>5. payload_words(size) \in Nat /\ payload_words(size) >= 1
    BY <2>3
  <2>6. /\ Implicit!adjust(size) \in Nat /\ Implicit!adjust(size) % 2 = 0
        /\ Implicit!adjust(size) >= 4 /\ Implicit!adjust(size) >= payload_words(size) + 2
    BY <2>1, <2>3, <2>4
  <2> QED BY <2>5, <2>6, <1>1
<1> QED BY <1>3, <1>4

(* The two ways a heap is extended or not: the request is met by a block   *)
(* the heap has, by one it grows, or not at all.                           *)
LEMMA MallocGood ==
  ASSUME NEW h, NEW B, NEW S, NEW A, Heap(h, B, S, A), NEW size \in Nat, size > 0,
         NEW r, r = Implicit!mm_malloc(h, size)
  PROVE  \/ /\ r.bp = NULL /\ Heap(r.heap, B, S, A) /\ r.heap.mem = h.mem
         \/ /\ r.bp # NULL /\ r.bp \notin Held(B, A)
            /\ \E C, T, D : /\ Heap(r.heap, C, T, D) /\ r.bp \in C
                            /\ T[r.bp] >= Implicit!adjust(size)
                            /\ Held(C, D) = Held(B, A) \union {r.bp}
                            /\ Keeps(h, S, Held(B, A), r.heap, C, T, D)
<1> DEFINE asize == Implicit!adjust(size)
           fit == Implicit!find_fit(h, asize)
           ext == IF asize > CHUNKSIZE THEN asize ELSE CHUNKSIZE
           grown == Implicit!extend_heap(fit.heap, ext)
           ok == Implicit!mem_sbrk_ok(h.brk, ext)
<1>1. asize \in Nat /\ asize % 2 = 0 /\ asize >= 4
  BY AdjustFact
<1>2. r = IF fit.bp # NULL THEN [heap |-> Implicit!place(fit.heap, fit.bp, asize), bp |-> fit.bp]
          ELSE IF ok THEN [heap |-> Implicit!place(grown.heap, grown.bp, asize), bp |-> grown.bp]
          ELSE [heap |-> fit.heap, bp |-> NULL]
  BY DEF Implicit!mm_malloc
<1> HIDE DEF asize, fit
<1>3. /\ Heap(fit.heap, B, S, A) /\ fit.heap.mem = h.mem /\ fit.heap.brk = h.brk
      /\ fit.bp # NULL => fit.bp \in B /\ A[fit.bp] = 0 /\ asize <= S[fit.bp]
  BY FindFitGood DEF fit
<1>4. CASE fit.bp # NULL
  <2> DEFINE g == Implicit!place(fit.heap, fit.bp, asize)
  <2>1. r.heap = g /\ r.bp = fit.bp
    BY <1>2, <1>4
  <2>2. fit.bp \in B /\ A[fit.bp] = 0 /\ asize <= S[fit.bp]
    BY <1>3, <1>4
  <2> HIDE DEF g
  <2>3. PICK C, T, D : /\ Heap(g, C, T, D) /\ fit.bp \in C /\ T[fit.bp] >= asize
                       /\ fit.bp \notin Held(B, A) /\ Held(C, D) = Held(B, A) \union {fit.bp}
                       /\ Keeps(fit.heap, S, Held(B, A), g, C, T, D)
    BY <2>2, <1>1, <1>3, PlaceGood DEF g
  <2>4. Keeps(h, S, Held(B, A), g, C, T, D)
    BY <2>3, <1>3 DEF Keeps
  <2> QED BY <2>1, <2>3, <2>4, <1>4 DEF asize
<1>5. CASE fit.bp = NULL /\ ok
  <2> DEFINE g == Implicit!place(grown.heap, grown.bp, asize)
  <2>1. r.heap = g /\ r.bp = grown.bp
    BY <1>2, <1>5
  <2>2. ext \in Nat /\ ext % 2 = 0 /\ ext >= 4 /\ ext >= asize
    BY <1>1, Defs
  <2>3. fit.heap.brk + ext <= HeapBase + MAX_HEAP
    BY <1>3, <1>5 DEF Implicit!mem_sbrk_ok
  <2> HIDE DEF ext
  <2>4. PICK C1, T1, D1 : /\ Heap(grown.heap, C1, T1, D1)
                          /\ grown.bp \in C1 /\ D1[grown.bp] = 0 /\ T1[grown.bp] >= ext
                          /\ Held(C1, D1) = Held(B, A)
                          /\ Keeps(fit.heap, S, Held(B, A), grown.heap, C1, T1, D1)
    BY <2>2, <2>3, <1>3, ExtendGood
  <2> HIDE DEF grown, g
  <2>5. asize <= T1[grown.bp] /\ grown.bp # NULL
    <3>1. Layout(grown.heap.brk, C1, T1)
      BY <2>4 DEF Heap, HeapBut
    <3>2. T1[grown.bp] \in Int /\ grown.bp # NULL
      BY <2>4, <3>1, LayoutFacts
    <3> QED BY <3>2, <2>2, <2>4, <1>1
  <2>6. PICK C, T, D : /\ Heap(g, C, T, D) /\ grown.bp \in C /\ T[grown.bp] >= asize
                       /\ grown.bp \notin Held(C1, D1) /\ Held(C, D) = Held(C1, D1) \union {grown.bp}
                       /\ Keeps(grown.heap, T1, Held(C1, D1), g, C, T, D)
    BY <2>4, <2>5, <1>1, PlaceGood DEF g
  <2>7. Keeps(h, S, Held(B, A), g, C, T, D)
    <3> SUFFICES ASSUME NEW p \in Held(B, A)
                 PROVE  /\ p \in C /\ T[p] = S[p] /\ D[p] = 1
                        /\ \A a \in p .. (p + S[p] - 3) : g.mem[a] = h.mem[a]
      BY DEF Keeps
    <3>1. T1[p] = S[p] /\ \A a \in p .. (p + S[p] - 3) : grown.heap.mem[a] = h.mem[a]
      BY <2>4, <1>3 DEF Keeps
    <3>2. /\ p \in C /\ T[p] = T1[p] /\ D[p] = 1
          /\ \A a \in p .. (p + T1[p] - 3) : g.mem[a] = grown.heap.mem[a]
      BY <2>4, <2>6 DEF Keeps
    <3> QED BY <3>1, <3>2
  <2> QED BY <2>1, <2>4, <2>5, <2>6, <2>7 DEF asize
<1>6. CASE fit.bp = NULL /\ ~ok
  BY <1>2, <1>3, <1>6
<1> QED BY <1>4, <1>5, <1>6

(* Writing inside one block's payload disturbs no tag and no other block.  *)
LEMMA PayloadWritten ==
  ASSUME NEW h, NEW B, NEW S, NEW A, Heap(h, B, S, A), NEW q \in B,
         NEW n \in Memory, \A a \in Addr : ~(q <= a /\ a <= q + S[q] - 3) => n[a] = h.mem[a],
         NEW g, g = [h EXCEPT !.mem = n]
  PROVE  /\ Heap(g, B, S, A) /\ g.mem = n /\ g.brk = h.brk
         /\ \A p \in B \ {q} : \A a \in p .. (p + S[p] - 3) : g.mem[a] = h.mem[a]
<1> DEFINE top == h.brk
           m == h.mem
<1>1. /\ h \in Records /\ m \in Memory /\ Layout(top, B, S) /\ Tagged(m, top, B, S, A)
      /\ \A p, r \in B : A[p] = 0 /\ A[r] = 0 => p + S[p] # r
      /\ NextFit => h.rover \in B \union {top}
  BY DEF Heap, HeapBut, Records
<1>2. g \in Records /\ g.mem = n /\ g.brk = top /\ g.rover = h.rover
  BY <1>1 DEF Records
<1> HIDE DEF top, m
<1>3. \A p \in B : /\ p \in Int /\ S[p] \in Int /\ S[p] >= 2 /\ p >= first
                   /\ p + S[p] <= top /\ p + S[p] - 2 \in Addr /\ p - 1 \in Addr
                   /\ A[p] \in {0, 1}
  BY <1>1, BlockFacts
<1>4. top \in Int /\ top - 1 \in Addr
  BY <1>1, LayoutFacts
<1>5. \A p, r \in B : p < r => p + S[p] <= r
  BY <1>1 DEF Layout
<1>6. \A a \in Addr : a \in Int /\ (a < q \/ a > q + S[q] - 3 => n[a] = m[a])
  <2>1. \A a \in Addr : a \in Int
    BY Defs DEF Addr
  <2> QED BY <2>1, <1>3 DEF m
<1>7. ASSUME NEW p \in B PROVE n[p - 1] = S[p] + A[p] /\ n[p + S[p] - 2] = S[p] + A[p]
  <2>1. m[p - 1] = S[p] + A[p] /\ m[p + S[p] - 2] = S[p] + A[p]
    BY <1>1 DEF Tagged
  <2>2. p < q => p + S[p] <= q
    BY <1>5
  <2>3. q < p => q + S[q] <= p
    BY <1>5
  <2>4. /\ p - 1 < q \/ p - 1 > q + S[q] - 3
        /\ p + S[p] - 2 < q \/ p + S[p] - 2 > q + S[q] - 3
    BY <2>2, <2>3, <1>3
  <2> QED BY <2>1, <2>4, <1>3, <1>6
<1>8. n[top - 1] = 1
  <2>1. top - 1 > q + S[q] - 3
    BY <1>3, <1>4
  <2> QED BY <2>1, <1>1, <1>4, <1>6 DEF Tagged
<1>9. Tagged(n, top, B, S, A)
  BY <1>1, <1>7, <1>8 DEF Tagged
<1>10. Heap(g, B, S, A)
  BY <1>1, <1>2, <1>9 DEF Heap, HeapBut
<1>11. ASSUME NEW p \in B, p # q, NEW a \in p .. (p + S[p] - 3) PROVE n[a] = m[a]
  <2>1. p \in Int /\ S[p] \in Int /\ p - 1 \in Addr /\ p + S[p] - 2 \in Addr /\ a \in Int
    BY <1>3
  <2>2. a \in Addr
    BY <2>1, Defs DEF Addr
  <2>3. p < q => p + S[p] <= q
    BY <1>5
  <2>4. q < p => q + S[q] <= p
    BY <1>5
  <2>5. a < q \/ a > q + S[q] - 3
    BY <2>1, <2>3, <2>4, <1>3, <1>11
  <2> QED BY <2>2, <2>5, <1>6
<1> QED BY <1>2, <1>10, <1>11 DEF m, top

(* The first w words at p in h are at q in g, as far as size bytes reach.   *)
Copied(h, p, w, g, q, size) ==
  \A j \in 0 .. (payload_words(size) - 1) : j < w => g.mem[q + j] = h.mem[p + j]

LEMMA ReallocGood ==
  ASSUME NEW h, NEW B, NEW S, NEW A, Heap(h, B, S, A), NEW p \in Held(B, A),
         NEW size \in Nat, size > 0, NEW w \in Nat, S[p] >= w + 2,
         NEW r, r = Implicit!mm_realloc(h, p, size)
  PROVE  \/ /\ r.bp = NULL /\ Heap(r.heap, B, S, A) /\ r.heap.mem = h.mem
         \/ /\ r.bp # NULL /\ r.bp \notin Held(B, A)
            /\ \E C, T, D :
                  /\ Heap(r.heap, C, T, D)
                  /\ T[r.bp] >= Implicit!adjust(size)
                  /\ Held(C, D) = (Held(B, A) \ {p}) \union {r.bp}
                  /\ Keeps(h, S, Held(B, A) \ {p}, r.heap, C, T, D)
                  /\ Copied(h, p, w, r.heap, r.bp, size)
<1> DEFINE new == Implicit!mm_malloc(h, size)
           g == new.heap
           q == new.bp
           oldsize == 4 * Implicit!GET_SIZE(g.mem, p - 1)
           bytes == IF size < oldsize THEN size ELSE oldsize
           n == Implicit!memcpy(g.mem, q, p, bytes)
           g1 == [g EXCEPT !.mem = n]
           g2 == Implicit!mm_free(g1, p)
<1>1. Layout(h.brk, B, S) /\ p \in B /\ p # NULL
  <2>1. Layout(h.brk, B, S) /\ p \in B
    BY DEF Heap, HeapBut, Held
  <2> QED BY <2>1, LayoutFacts
<1>2. r = IF q = NULL THEN new ELSE [heap |-> g2, bp |-> q]
  BY <1>1 DEF Implicit!mm_realloc
<1> HIDE DEF new
<1>3. \/ q = NULL /\ Heap(g, B, S, A) /\ g.mem = h.mem
      \/ /\ q # NULL /\ q \notin Held(B, A)
         /\ \E C, T, D : /\ Heap(g, C, T, D) /\ q \in C
                         /\ T[q] >= Implicit!adjust(size)
                         /\ Held(C, D) = Held(B, A) \union {q}
                         /\ Keeps(h, S, Held(B, A), g, C, T, D)
  BY MallocGood DEF new
<1>4. CASE q = NULL
  BY <1>2, <1>3, <1>4
<1>5. CASE q # NULL
  <2>1. r.heap = g2 /\ r.bp = q
    BY <1>2, <1>5
  <2> HIDE DEF g, q, n, g1, g2
  <2>2. PICK C, T, D : /\ Heap(g, C, T, D) /\ q \in C
                       /\ T[q] >= Implicit!adjust(size)
                       /\ Held(C, D) = Held(B, A) \union {q}
                       /\ Keeps(h, S, Held(B, A), g, C, T, D)
    BY <1>3, <1>5
  <2>3. q \notin Held(B, A) /\ p # q /\ q \in Held(C, D) /\ p \in Held(C, D) /\ p \in C
    BY <1>3, <1>5, <2>2 DEF Held
  <2>4. /\ T[p] = S[p] /\ \A a \in p .. (p + S[p] - 3) : g.mem[a] = h.mem[a]
    BY <2>2 DEF Keeps
  <2>5. /\ Layout(g.brk, C, T) /\ Tagged(g.mem, g.brk, C, T, D) /\ g \in Records /\ g.mem \in Memory
    BY <2>2 DEF Heap, HeapBut, Records
  <2>6. \A x \in C : /\ x \in Int /\ T[x] \in Int /\ T[x] >= 2 /\ x >= first
                     /\ x + T[x] <= g.brk /\ x + T[x] - 2 \in Addr /\ x - 1 \in Addr
    BY <2>5, BlockFacts
  <2>7. Implicit!GET_SIZE(g.mem, p - 1) = S[p]
    BY <2>3, <2>4, <2>5, Reads
  <2> DEFINE k == (bytes + 3) \div 4
             words == payload_words(size)
  <2>8. /\ bytes = (IF size < 4 * S[p] THEN size ELSE 4 * S[p])
    BY <2>7
  <2>9. /\ words \in Nat /\ T[q] >= words + 2 /\ S[p] \in Nat /\ words = (size + 3) \div 4
    <3> DEFINE asize == Implicit!adjust(size)
    <3>1. /\ words \in Nat /\ words = (size + 3) \div 4 /\ asize \in Nat /\ asize >= words + 2
      BY AdjustFact
    <3>2. T[q] \in Int /\ T[q] >= asize /\ T[p] \in Int /\ T[p] >= 2 /\ T[p] = S[p]
      BY <2>2, <2>3, <2>4, <2>6
    <3> HIDE DEF asize, words
    <3> QED BY <3>1, <3>2
  <2>10. k \in Nat /\ k <= words /\ k <= S[p] /\ (words <= k \/ S[p] <= k)
    BY <2>8, <2>9
  <2> HIDE DEF bytes, k, words
  <2>11. n = [a \in Addr |-> IF a \in q .. (q + k - 1) THEN g.mem[p + (a - q)] ELSE g.mem[a]]
    BY <2>5 DEF Implicit!memcpy, n, k, Memory
  <2>12. p \in Int /\ q \in Int /\ T[q] \in Int /\ p >= first /\ p + S[p] <= g.brk /\ q >= first
         /\ p - 1 \in Addr /\ g.brk - 1 \in Addr /\ q + T[q] - 2 \in Addr /\ q - 1 \in Addr
         /\ g.brk \in Int
    <3>1. g.brk - 1 \in Addr /\ g.brk \in Int
      BY <2>5, LayoutFacts
    <3> QED BY <3>1, <2>2, <2>3, <2>4, <2>6
  <2>13. n \in Memory
    <3> SUFFICES ASSUME NEW a \in Addr
                 PROVE  (IF a \in q .. (q + k - 1) THEN g.mem[p + (a - q)] ELSE g.mem[a]) \in Word
      BY <2>11 DEF Memory
    <3>1. CASE a \in q .. (q + k - 1)
      <4>1. p + (a - q) \in Addr
        BY <3>1, <2>9, <2>10, <2>12, Defs DEF Addr
      <4> QED BY <3>1, <4>1, <2>5 DEF Memory
    <3>2. CASE a \notin q .. (q + k - 1)
      BY <3>2, <2>5 DEF Memory
    <3> QED BY <3>1, <3>2
  <2>14. \A a \in Addr : ~(q <= a /\ a <= q + T[q] - 3) => n[a] = g.mem[a]
    BY <2>9, <2>10, <2>11, <2>12
  <2>15. /\ Heap(g1, C, T, D) /\ g1.mem = n
         /\ \A x \in C \ {q} : \A a \in x .. (x + T[x] - 3) : g1.mem[a] = g.mem[a]
    BY <2>2, <2>13, <2>14, PayloadWritten DEF g1
  <2>16. PICK C2, T2, D2 : /\ Heap(g2, C2, T2, D2) /\ Held(C2, D2) = Held(C, D) \ {p}
                           /\ Keeps(g1, T, Held(C, D) \ {p}, g2, C2, T2, D2)
    BY <2>3, <2>15, FreeGood DEF g2
  <2>17. Held(C2, D2) = (Held(B, A) \ {p}) \union {q}
    BY <2>2, <2>3, <2>16
  <2>18. Keeps(h, S, Held(B, A) \ {p}, g2, C2, T2, D2)
    <3> SUFFICES ASSUME NEW x \in Held(B, A) \ {p}
                 PROVE  /\ x \in C2 /\ T2[x] = S[x] /\ D2[x] = 1
                        /\ \A a \in x .. (x + S[x] - 3) : g2.mem[a] = h.mem[a]
      BY DEF Keeps
    <3>1. x \in Held(C, D) \ {p} /\ x # q
      BY <2>2, <2>3
    <3>2. T[x] = S[x] /\ x \in C /\ \A a \in x .. (x + S[x] - 3) : g.mem[a] = h.mem[a]
      BY <2>2 DEF Keeps
    <3>3. \A a \in x .. (x + T[x] - 3) : g1.mem[a] = g.mem[a]
      BY <3>1, <3>2, <2>15
    <3>4. /\ x \in C2 /\ T2[x] = T[x] /\ D2[x] = 1
          /\ \A a \in x .. (x + T[x] - 3) : g2.mem[a] = g1.mem[a]
      BY <3>1, <2>16 DEF Keeps
    <3> QED BY <3>2, <3>3, <3>4
  <2>19. T2[q] = T[q] /\ \A a \in q .. (q + T[q] - 3) : g2.mem[a] = g1.mem[a]
    BY <2>3, <2>16 DEF Keeps
  <2>20. ASSUME NEW j \in 0 .. (words - 1), j < w
         PROVE  g2.mem[q + j] = h.mem[p + j]
    <3>1. j \in Int /\ 0 <= j /\ j < k /\ j < words /\ j < S[p] - 2
      BY <2>9, <2>10, <2>20
    <3>2. q + j \in q .. (q + T[q] - 3) /\ q + j \in q .. (q + k - 1) /\ q + j \in Addr
      <4>1. q + j \in Int /\ q <= q + j /\ q + j <= q + T[q] - 3 /\ q + j <= q + k - 1
        BY <3>1, <2>9, <2>10, <2>12
      <4>2. q + j \in Addr
        BY <4>1, <2>12, Defs DEF Addr
      <4> QED BY <4>1, <4>2, <2>10, <2>12
    <3>3. p + ((q + j) - q) = p + j /\ p + j \in p .. (p + S[p] - 3)
      BY <3>1, <2>9, <2>12
    <3>4. n[q + j] = g.mem[p + ((q + j) - q)]
      BY <3>2, <2>11
    <3>5. n[q + j] = g.mem[p + j]
      BY <3>3, <3>4
    <3>6. g.mem[p + j] = h.mem[p + j]
      BY <3>3, <2>4
    <3>7. g2.mem[q + j] = g1.mem[q + j]
      BY <3>2, <2>19
    <3> QED BY <3>5, <3>6, <3>7, <2>15
  <2>21. T2[q] >= Implicit!adjust(size)
    BY <2>2, <2>19
  <2>22. /\ q # NULL /\ q \notin Held(B, A)
         /\ \E CC, TT, DD :
                  /\ Heap(g2, CC, TT, DD)
                  /\ TT[q] >= Implicit!adjust(size)
                  /\ Held(CC, DD) = (Held(B, A) \ {p}) \union {q}
                  /\ Keeps(h, S, Held(B, A) \ {p}, g2, CC, TT, DD)
                  /\ Copied(h, p, w, g2, q, size)
    <3>1. Copied(h, p, w, g2, q, size)
      BY <2>20 DEF words, Copied
    <3> QED BY <1>5, <2>3, <2>16, <2>17, <2>18, <2>21, <3>1
  <2> QED BY <2>1, <2>22
<1> QED BY <1>4, <1>5

----------------------------------------------------------------------------
(* The client of mm-implicit.c: bl and sz are its blocks and block_sizes.  *)

Blocks == [Index -> Int]
BlockSizes == [Index -> Nat]
Users(sz) == {i \in Index : sz[i] > 0}

(* The allocated blocks are the client's, one each, and large enough.      *)
ImplicitGood(h, bl, sz, B, S, A) ==
  /\ Heap(h, B, S, A)
  /\ Held(B, A) = {bl[i] : i \in Users(sz)}
  /\ \A i \in Users(sz) : S[bl[i]] >= payload_words(sz[i]) + 2
  /\ \A i, j \in Users(sz) : i # j => bl[i] # bl[j]

(* The payloads of all ids but i are in g what they are in h.              *)
SameBut(i, h, bl, sz, g) ==
  \A j \in Users(sz) : j # i =>
    \A k \in 0 .. (payload_words(sz[j]) - 1) : g.mem[bl[j] + k] = h.mem[bl[j] + k]

(* The block i has, if it has one.                                         *)
BlockOf(bl, sz, i) == IF sz[i] > 0 THEN {bl[i]} ELSE {}

LEMMA WordsFact ==
  ASSUME NEW size \in Nat, size > 0
  PROVE  payload_words(size) \in Nat /\ payload_words(size) >= 1
BY AdjustFact

(* What is kept of the other blocks is kept of their payloads.             *)
LEMMA OthersKept ==
  ASSUME NEW h, NEW bl \in Blocks, NEW sz \in BlockSizes, NEW B, NEW S, NEW A,
         ImplicitGood(h, bl, sz, B, S, A), NEW i,
         NEW g, NEW C, NEW T, NEW D, NEW X, Keeps(h, S, X, g, C, T, D),
         \A j \in Users(sz) : j # i => bl[j] \in X
  PROVE  SameBut(i, h, bl, sz, g)
<1> SUFFICES ASSUME NEW j \in Users(sz), j # i, NEW k \in 0 .. (payload_words(sz[j]) - 1)
             PROVE  g.mem[bl[j] + k] = h.mem[bl[j] + k]
  BY DEF SameBut
<1>1. bl[j] \in X /\ bl[j] \in Int /\ S[bl[j]] >= payload_words(sz[j]) + 2 /\ sz[j] \in Nat /\ sz[j] > 0
  BY DEF Users, Blocks, BlockSizes, ImplicitGood
<1>2. S[bl[j]] \in Int
  <2>1. Layout(h.brk, B, S) /\ bl[j] \in B
    BY DEF ImplicitGood, Heap, HeapBut, Held
  <2> QED BY <2>1, LayoutFacts
<1>3. payload_words(sz[j]) \in Nat
  BY <1>1, WordsFact
<1>4. \A a \in bl[j] .. (bl[j] + S[bl[j]] - 3) : g.mem[a] = h.mem[a]
  BY <1>1 DEF Keeps
<1> DEFINE p == bl[j]
           w == payload_words(sz[j])
           z == S[bl[j]]
<1>5. p + k \in p .. (p + z - 3)
  <2>1. p \in Int /\ w \in Nat /\ z \in Int /\ z >= w + 2 /\ k \in 0 .. (w - 1)
    BY <1>1, <1>2, <1>3
  <2> HIDE DEF p, w, z
  <2> QED BY <2>1
<1> QED BY <1>4, <1>5

(* i has a new block q, instead of the one it had.                         *)
LEMMA ImplicitNew ==
  ASSUME NEW h, NEW bl \in Blocks, NEW sz \in BlockSizes, NEW B, NEW S, NEW A,
         ImplicitGood(h, bl, sz, B, S, A), NEW i \in Index,
         NEW q, q \notin Held(B, A), NEW size \in Nat, size > 0,
         NEW g, NEW C, NEW T, NEW D, Heap(g, C, T, D), T[q] >= Implicit!adjust(size),
         Held(C, D) = (Held(B, A) \ BlockOf(bl, sz, i)) \union {q},
         Keeps(h, S, Held(B, A) \ BlockOf(bl, sz, i), g, C, T, D)
  PROVE  /\ ImplicitGood(g, [bl EXCEPT ![i] = q], [sz EXCEPT ![i] = size], C, T, D)
         /\ SameBut(i, h, bl, sz, g)
<1> DEFINE X == Held(B, A) \ BlockOf(bl, sz, i)
           bl2 == [bl EXCEPT ![i] = q]
           sz2 == [sz EXCEPT ![i] = size]
<1>1. /\ Held(B, A) = {bl[j] : j \in Users(sz)}
      /\ \A j \in Users(sz) : S[bl[j]] >= payload_words(sz[j]) + 2
      /\ \A j, k \in Users(sz) : j # k => bl[j] # bl[k]
  BY DEF ImplicitGood
<1>2. \A j \in Users(sz) : j # i => bl[j] \in X
  BY <1>1 DEF BlockOf, Users
<1>3. \A x \in X : \E j \in Users(sz) : j # i /\ x = bl[j]
  BY <1>1 DEF BlockOf, Users
<1>4. \A x \in X : T[x] = S[x]
  BY DEF Keeps
<1>5. /\ bl2[i] = q /\ sz2[i] = size /\ \A j \in Index : j # i => bl2[j] = bl[j] /\ sz2[j] = sz[j]
  BY DEF Blocks, BlockSizes
<1>6. /\ i \in Users(sz2) /\ \A j \in Index : j # i => (j \in Users(sz2) <=> j \in Users(sz))
      /\ \A j \in Users(sz2) : j \in Index
  BY <1>5 DEF Users
<1>7. SameBut(i, h, bl, sz, g)
  BY <1>2, OthersKept
<1>8. Held(C, D) = X \union {q}
  OBVIOUS
<1> HIDE DEF X, bl2, sz2
<1>9. Held(C, D) = {bl2[j] : j \in Users(sz2)}
  <2>1. ASSUME NEW x \in Held(C, D) PROVE \E j \in Users(sz2) : x = bl2[j]
    <3>1. CASE x = q
      BY <3>1, <1>5, <1>6
    <3>2. CASE x \in X
      <4>1. PICK j \in Users(sz) : j # i /\ x = bl[j]
        BY <3>2, <1>3
      <4> QED BY <4>1, <1>5, <1>6 DEF Users
    <3> QED BY <3>1, <3>2, <1>8
  <2>2. ASSUME NEW j \in Users(sz2) PROVE bl2[j] \in Held(C, D)
    <3>1. CASE j = i
      BY <3>1, <1>5, <1>8
    <3>2. CASE j # i
      BY <3>2, <1>2, <1>5, <1>6, <1>8
    <3> QED BY <3>1, <3>2
  <2> QED BY <2>1, <2>2
<1>10. ASSUME NEW j \in Users(sz2) PROVE T[bl2[j]] >= payload_words(sz2[j]) + 2
  <2>1. CASE j = i
    <3>1. /\ Implicit!adjust(size) \in Nat /\ payload_words(size) \in Nat
          /\ Implicit!adjust(size) >= payload_words(size) + 2
      BY AdjustFact
    <3>2. T[q] \in Int
      <4>1. Layout(g.brk, C, T) /\ q \in C
        BY <1>8 DEF Heap, HeapBut, Held
      <4> QED BY <4>1, LayoutFacts
    <3>3. T[q] >= payload_words(size) + 2
      BY <3>1, <3>2
    <3> QED BY <2>1, <3>3, <1>5
  <2>2. CASE j # i
    <3>1. j \in Users(sz) /\ bl2[j] = bl[j] /\ sz2[j] = sz[j] /\ T[bl[j]] = S[bl[j]]
      BY <2>2, <1>2, <1>4, <1>5, <1>6
    <3>2. S[bl[j]] >= payload_words(sz[j]) + 2
      BY <3>1, <1>1
    <3> QED BY <3>1, <3>2
  <2> QED BY <2>1, <2>2
<1>11. ASSUME NEW j \in Users(sz2), NEW k \in Users(sz2), j # k PROVE bl2[j] # bl2[k]
  <2>1. \A l \in Users(sz2) : l # i => l \in Users(sz) /\ bl2[l] = bl[l] /\ bl[l] # q
    BY <1>1, <1>5, <1>6
  <2> QED BY <2>1, <1>1, <1>5, <1>11
<1>12. ImplicitGood(g, bl2, sz2, C, T, D)
  BY <1>9, <1>10, <1>11 DEF ImplicitGood
<1> QED BY <1>7, <1>12 DEF bl2, sz2

(* i has no block any more.                                                *)
LEMMA ImplicitGone ==
  ASSUME NEW h, NEW bl \in Blocks, NEW sz \in BlockSizes, NEW B, NEW S, NEW A,
         ImplicitGood(h, bl, sz, B, S, A), NEW i \in Users(sz),
         NEW g, NEW C, NEW T, NEW D, Heap(g, C, T, D),
         Held(C, D) = Held(B, A) \ {bl[i]},
         Keeps(h, S, Held(B, A) \ {bl[i]}, g, C, T, D)
  PROVE  /\ ImplicitGood(g, [bl EXCEPT ![i] = 0], [sz EXCEPT ![i] = 0], C, T, D)
         /\ SameBut(i, h, bl, sz, g)
<1> DEFINE X == Held(B, A) \ {bl[i]}
           bl2 == [bl EXCEPT ![i] = 0]
           sz2 == [sz EXCEPT ![i] = 0]
<1>1. /\ Held(B, A) = {bl[j] : j \in Users(sz)}
      /\ \A j \in Users(sz) : S[bl[j]] >= payload_words(sz[j]) + 2
      /\ \A j, k \in Users(sz) : j # k => bl[j] # bl[k]
  BY DEF ImplicitGood
<1>2. \A j \in Users(sz) : j # i => bl[j] \in X
  BY <1>1
<1>3. \A x \in X : \E j \in Users(sz) : j # i /\ x = bl[j]
  BY <1>1
<1>4. \A x \in X : T[x] = S[x]
  BY DEF Keeps
<1>5. i \in Index /\ sz2[i] = 0 /\ \A j \in Index : j # i => bl2[j] = bl[j] /\ sz2[j] = sz[j]
  BY DEF Blocks, BlockSizes, Users
<1>6. \A j : j \in Users(sz2) <=> j \in Users(sz) /\ j # i
  BY <1>5 DEF Users
<1>7. SameBut(i, h, bl, sz, g)
  BY <1>2, OthersKept
<1>8. \A j \in Users(sz2) : /\ j # i /\ j \in Users(sz) /\ bl2[j] = bl[j] /\ sz2[j] = sz[j]
                            /\ bl2[j] \in X /\ T[bl2[j]] = S[bl[j]]
  BY <1>2, <1>4, <1>5, <1>6 DEF Users
<1> HIDE DEF X, bl2, sz2
<1>9. Held(C, D) = {bl2[j] : j \in Users(sz2)}
  <2>1. ASSUME NEW x \in Held(C, D) PROVE \E j \in Users(sz2) : x = bl2[j]
    BY <1>3, <1>6, <1>8 DEF X
  <2>2. ASSUME NEW j \in Users(sz2) PROVE bl2[j] \in Held(C, D)
    BY <1>8 DEF X
  <2> QED BY <2>1, <2>2
<1>10. \A j \in Users(sz2) : T[bl2[j]] >= payload_words(sz2[j]) + 2
  BY <1>1, <1>8
<1>11. \A j, k \in Users(sz2) : j # k => bl2[j] # bl2[k]
  BY <1>1, <1>8
<1>12. ImplicitGood(g, bl2, sz2, C, T, D)
  BY <1>9, <1>10, <1>11 DEF ImplicitGood
<1> QED BY <1>7, <1>12 DEF bl2, sz2

(* What fill writes.                                                       *)
LEMMA FillFact ==
  ASSUME NEW h \in Records, NEW i \in Index, NEW lo \in Int, NEW size \in Nat, size > 0,
         HeapBase <= lo, lo + payload_words(size) <= HeapBase + MAX_HEAP,
         NEW g, g = fill(h, i, lo, size)
  PROVE  /\ g \in Records /\ g = [h EXCEPT !.mem = g.mem]
         /\ g.mem \in Memory /\ g.brk = h.brk /\ g.rover = h.rover
         /\ \A a \in Addr : ~(lo <= a /\ a <= lo + payload_words(size) - 1) => g.mem[a] = h.mem[a]
<1> DEFINE w == payload_words(size)
           n == [a \in Addr |-> IF a \in lo .. (lo + w - 1) THEN random_data[i][a - lo] ELSE h.mem[a]]
<1>1. w \in Nat
  BY WordsFact
<1>2. h.mem \in Memory /\ h.brk \in Int /\ h.rover \in Int
  BY DEF Records
<1>3. g = [h EXCEPT !.mem = n]
  BY <1>2 DEF fill, Memory
<1> HIDE DEF w
<1>4. n \in Memory
  <2> SUFFICES ASSUME NEW a \in Addr
               PROVE  (IF a \in lo .. (lo + w - 1) THEN random_data[i][a - lo] ELSE h.mem[a]) \in Word
    BY DEF Memory
  <2>1. CASE a \in lo .. (lo + w - 1)
    <3>1. random_data[i] \in [0 .. (MAX_HEAP - 1) -> Word]
      BY ClientAssumption
    <3>2. lo + w <= HeapBase + MAX_HEAP
      BY DEF w
    <3>3. a - lo \in 0 .. (MAX_HEAP - 1)
      BY <2>1, <3>2, <1>1, Defs
    <3> QED BY <2>1, <3>1, <3>3
  <2>2. CASE a \notin lo .. (lo + w - 1)
    BY <2>2, <1>2 DEF Memory
  <2> QED BY <2>1, <2>2
<1>5. ASSUME NEW a \in Addr, ~(lo <= a /\ a <= lo + w - 1) PROVE n[a] = h.mem[a]
  BY <1>5, <1>1
<1> HIDE DEF n
<1>6. g \in Records /\ g.mem = n /\ g.brk = h.brk /\ g.rover = h.rover
  BY <1>2, <1>3, <1>4 DEF Records
<1> QED BY <1>3, <1>4, <1>5, <1>6 DEF w

(* The client fills the payload of i.                                      *)
LEMMA ImplicitFilled ==
  ASSUME NEW h, NEW bl \in Blocks, NEW sz \in BlockSizes, NEW B, NEW S, NEW A,
         ImplicitGood(h, bl, sz, B, S, A), NEW i \in Users(sz),
         NEW g, g = fill(h, i, bl[i], sz[i])
  PROVE  ImplicitGood(g, bl, sz, B, S, A) /\ SameBut(i, h, bl, sz, g)
<1> DEFINE p == bl[i]
           w == payload_words(sz[i])
           z == S[bl[i]]
<1>1. /\ i \in Index /\ bl[i] \in Int /\ sz[i] \in Nat /\ sz[i] > 0
      /\ bl[i] \in Held(B, A) /\ S[bl[i]] >= payload_words(sz[i]) + 2
      /\ Heap(h, B, S, A) /\ h \in Records
  BY DEF ImplicitGood, Users, Blocks, BlockSizes, Heap, HeapBut
<1>2. Layout(h.brk, B, S) /\ bl[i] \in B
  BY <1>1 DEF Heap, HeapBut, Held
<1>3. S[bl[i]] \in Int /\ bl[i] \in Addr /\ h.brk \in Int
  BY <1>2, LayoutFacts
<1>4. bl[i] + S[bl[i]] <= h.brk /\ h.brk <= HeapBase + MAX_HEAP
  BY <1>2 DEF Layout
<1>5. payload_words(sz[i]) \in Nat
  BY <1>1, WordsFact
<1>6. HeapBase <= p /\ p + w <= HeapBase + MAX_HEAP /\ p + w - 1 <= p + z - 3
      /\ p \in Int /\ w \in Nat /\ z \in Int
  BY <1>1, <1>3, <1>4, <1>5, Defs DEF Addr
<1>7. /\ g = [h EXCEPT !.mem = g.mem] /\ g.mem \in Memory
      /\ \A a \in Addr : ~(p <= a /\ a <= p + w - 1) => g.mem[a] = h.mem[a]
  BY <1>1, <1>6, FillFact
<1>8. \A a \in Addr : ~(p <= a /\ a <= p + z - 3) => g.mem[a] = h.mem[a]
  <2>1. \A a \in Addr : a \in Int
    BY Defs DEF Addr
  <2> HIDE DEF p, w, z
  <2> QED BY <2>1, <1>6, <1>7
<1>9. /\ Heap(g, B, S, A)
      /\ \A q \in B \ {p} : \A a \in q .. (q + S[q] - 3) : g.mem[a] = h.mem[a]
  BY <1>1, <1>2, <1>7, <1>8, PayloadWritten
<1>10. ImplicitGood(g, bl, sz, B, S, A)
  BY <1>9 DEF ImplicitGood
<1>11. Keeps(h, S, Held(B, A) \ {p}, g, B, S, A)
  BY <1>9 DEF Keeps, Held
<1>12. \A j \in Users(sz) : j # i => bl[j] \in Held(B, A) \ {p}
  BY DEF ImplicitGood
<1>13. SameBut(i, h, bl, sz, g)
  BY <1>11, <1>12, OthersKept
<1> QED BY <1>10, <1>13

----------------------------------------------------------------------------
(* The client of mm-naive.c.                                               *)

(* The held payloads are apart, below the break, and each with its size    *)
(* in the word two below it.                                               *)
NaiveGood(h, bl, sz) ==
  /\ h \in Records
  /\ HeapBase <= h.brk /\ h.brk <= HeapBase + MAX_HEAP /\ h.brk % 2 = 0
  /\ \A i \in Users(sz) : /\ bl[i] % 2 = 0 /\ HeapBase <= bl[i] - 2
                          /\ bl[i] + payload_words(sz[i]) <= h.brk
                          /\ h.mem[bl[i] - 2] = sz[i]
  /\ \A i, j \in Users(sz) : i # j =>
       \/ bl[i] + payload_words(sz[i]) <= bl[j] - 2
       \/ bl[j] + payload_words(sz[j]) <= bl[i] - 2

LEMMA NaiveFacts ==
  ASSUME NEW h, NEW bl \in Blocks, NEW sz \in BlockSizes, NaiveGood(h, bl, sz)
  PROVE  /\ h.mem \in Memory /\ h.brk \in Int
         /\ \A i \in Users(sz) : /\ i \in Index /\ bl[i] \in Int /\ sz[i] \in Nat /\ sz[i] > 0
                                 /\ payload_words(sz[i]) \in Nat /\ payload_words(sz[i]) >= 1
                                 /\ bl[i] % 2 = 0 /\ HeapBase + 2 <= bl[i]
                                 /\ bl[i] + payload_words(sz[i]) <= h.brk
                                 /\ h.mem[bl[i] - 2] = sz[i]
                                 /\ bl[i] - 2 \in Addr
<1>1. h.mem \in Memory /\ h.brk \in Int
  BY DEF NaiveGood, Records
<1>2. ASSUME NEW i \in Users(sz)
      PROVE  /\ i \in Index /\ bl[i] \in Int /\ sz[i] \in Nat /\ sz[i] > 0
             /\ payload_words(sz[i]) \in Nat /\ payload_words(sz[i]) >= 1
  <2>1. i \in Index /\ bl[i] \in Int /\ sz[i] \in Nat /\ sz[i] > 0
    BY DEF Users, Blocks, BlockSizes
  <2> QED BY <2>1, WordsFact
<1>3. ASSUME NEW i \in Users(sz)
      PROVE  /\ bl[i] % 2 = 0 /\ HeapBase + 2 <= bl[i]
             /\ bl[i] + payload_words(sz[i]) <= h.brk
             /\ h.mem[bl[i] - 2] = sz[i]
             /\ bl[i] - 2 \in Addr
  <2>1. /\ bl[i] % 2 = 0 /\ HeapBase <= bl[i] - 2
        /\ bl[i] + payload_words(sz[i]) <= h.brk
        /\ h.mem[bl[i] - 2] = sz[i] /\ h.brk <= HeapBase + MAX_HEAP
    BY DEF NaiveGood
  <2>2. bl[i] \in Int /\ payload_words(sz[i]) \in Nat
    BY <1>2
  <2>3. HeapBase + 2 <= bl[i]
    BY <2>1, <2>2, Defs
  <2>4. bl[i] - 2 \in Addr
    BY <2>1, <2>2, <1>1, Defs DEF Addr
  <2> QED BY <2>1, <2>3, <2>4
<1> QED BY <1>1, <1>2, <1>3

(* Nothing below the break has changed.                                    *)
LEMMA NaiveKept ==
  ASSUME NEW h, NEW bl \in Blocks, NEW sz \in BlockSizes, NaiveGood(h, bl, sz), NEW i,
         NEW g, \A a \in Addr : a < h.brk => g.mem[a] = h.mem[a]
  PROVE  SameBut(i, h, bl, sz, g)
<1> SUFFICES ASSUME NEW j \in Users(sz), j # i, NEW k \in 0 .. (payload_words(sz[j]) - 1)
             PROVE  g.mem[bl[j] + k] = h.mem[bl[j] + k]
  BY DEF SameBut
<1> DEFINE p == bl[j]
           w == payload_words(sz[j])
<1>1. /\ p \in Int /\ w \in Nat /\ HeapBase + 2 <= p /\ p + w <= h.brk /\ h.brk \in Int
      /\ h.brk <= HeapBase + MAX_HEAP
  BY NaiveFacts DEF NaiveGood
<1>2. k \in 0 .. (w - 1)
  OBVIOUS
<1> HIDE DEF p, w
<1>3. p + k \in Addr /\ p + k < h.brk
  BY <1>1, <1>2, Defs DEF Addr
<1>4. g.mem[p + k] = h.mem[p + k]
  BY <1>3
<1> QED BY <1>4 DEF p

(* mm_malloc takes its block at the break, or leaves the heap.             *)
LEMMA NaiveMalloc ==
  ASSUME NEW h, NEW bl \in Blocks, NEW sz \in BlockSizes, NaiveGood(h, bl, sz),
         NEW size \in Nat, size > 0, NEW r, r = Naive!mm_malloc(h, size)
  PROVE  \/ r.bp = NULL /\ r.heap = h
         \/ /\ r.bp # NULL /\ r.bp = h.brk + 2
            /\ r.heap \in Records
            /\ r.heap.brk <= HeapBase + MAX_HEAP /\ r.heap.brk % 2 = 0
            /\ h.brk + 2 + payload_words(size) <= r.heap.brk
            /\ r.heap.mem[h.brk] = size
            /\ \A a \in Addr : a < h.brk => r.heap.mem[a] = h.mem[a]
<1> DEFINE newsize == Naive!ALIGN(size + 4 * Naive!SIZE_T_SIZE)
           p == h.brk + Naive!SIZE_T_SIZE
           m1 == [h.mem EXCEPT ![h.brk] = size]
           m2 == [m1 EXCEPT ![h.brk + 1] = 0]
           ok == Naive!mem_sbrk_ok(h.brk, newsize)
           w == payload_words(size)
<1>1. Naive!SIZE_T_SIZE = 2
  BY DEF Naive!SIZE_T_SIZE, Naive!ALIGN
<1>2. newsize = 2 * ((size + 15) \div 8)
  BY <1>1 DEF Naive!ALIGN
<1>3. newsize \in Nat /\ newsize % 2 = 0 /\ newsize >= w + 2 /\ w \in Nat /\ w >= 1 /\ size <= 4 * w
  <2> DEFINE d == (size + 15) \div 8
             e == (size + 3) \div 4
  <2>1. w = e
    BY DEF payload_words
  <2>2. d \in Nat /\ 8 * d <= size + 15 /\ size + 15 < 8 * d + 8
    OBVIOUS
  <2>3. e \in Nat /\ e >= 1 /\ 4 * e <= size + 3 /\ size + 3 < 4 * e + 4
    OBVIOUS
  <2> HIDE DEF d, e
  <2>4. 2 * d \in Nat /\ (2 * d) % 2 = 0 /\ 2 * d >= e + 2 /\ size <= 4 * e
    BY <2>2, <2>3
  <2>5. newsize = 2 * d
    BY <1>2 DEF d
  <2> HIDE DEF newsize, w
  <2> QED BY <2>1, <2>3, <2>4, <2>5
<1> HIDE DEF newsize, w
<1>4. /\ h \in Records /\ h.mem \in Memory /\ h.brk \in Int /\ HeapBase <= h.brk
      /\ h.brk <= HeapBase + MAX_HEAP /\ h.brk % 2 = 0
  BY NaiveFacts DEF NaiveGood
<1>5. Naive!SIZE_PTR(p) = h.brk
  BY <1>1, <1>4 DEF Naive!SIZE_PTR
<1>6. r = IF ok THEN [heap |-> [h EXCEPT !.mem = m2, !.brk = @ + newsize], bp |-> p]
          ELSE [heap |-> h, bp |-> NULL]
  <2>1. m2 = [[h.mem EXCEPT ![Naive!SIZE_PTR(p)] = size] EXCEPT ![Naive!SIZE_PTR(p) + 1] = 0]
    BY <1>5
  <2> HIDE DEF m2
  <2> QED BY <2>1 DEF Naive!mm_malloc, Naive!PUT, Naive!NULL, newsize
<1>7. CASE ~ok
  BY <1>6, <1>7
<1>8. CASE ok
  <2>1. h.brk + newsize <= HeapBase + MAX_HEAP
    BY <1>8 DEF Naive!mem_sbrk_ok
  <2>2. h.brk \in Addr /\ h.brk + 1 \in Addr /\ size \in Word /\ 0 \in Word
    <3>1. 4 * w + 8 <= 4 * MAX_HEAP
      BY <2>1, <1>3, <1>4, Defs
    <3>2. size < WordMod
      BY <3>1, <1>3, Defs
    <3> QED BY <2>1, <3>2, <1>3, <1>4, Defs DEF Addr, Word
  <2>3. m1 \in Memory /\ m1[h.brk] = size /\ \A a \in Addr : a # h.brk => m1[a] = h.mem[a]
    BY <2>2, <1>4, PutFact
  <2> HIDE DEF m1
  <2>4. m2 \in Memory /\ \A a \in Addr : a # h.brk + 1 => m2[a] = m1[a]
    <3> DEFINE q == h.brk + 1
    <3>1. q \in Addr
      BY <2>2
    <3> HIDE DEF q
    <3>2. [m1 EXCEPT ![q] = 0] \in Memory /\ \A a \in Addr : a # q => [m1 EXCEPT ![q] = 0][a] = m1[a]
      BY <2>2, <2>3, <3>1 DEF Memory
    <3> QED BY <3>2 DEF q
  <2> HIDE DEF m2
  <2> DEFINE g == [h EXCEPT !.mem = m2, !.brk = @ + newsize]
  <2>5. r.heap = g /\ r.bp = h.brk + 2
    BY <1>1, <1>6, <1>8
  <2>6. g \in Records /\ g.mem = m2 /\ g.brk = h.brk + newsize
    <3> DEFINE g0 == [h EXCEPT !.mem = m2]
               top == h.brk + newsize
    <3>1. g0 \in Records
      BY <2>4, <1>4 DEF Records
    <3>2. g = [g0 EXCEPT !.brk = top] /\ g0.mem = m2 /\ top \in Int
      BY <1>3, <1>4 DEF Records
    <3> HIDE DEF g0, g, top
    <3>3. g \in Records /\ g.mem = m2 /\ g.brk = top
      BY <3>1, <3>2 DEF Records
    <3> QED BY <3>3 DEF top
  <2> HIDE DEF g
  <2>7. m2[h.brk] = size
    BY <2>2, <2>3, <2>4, <1>4
  <2>8. \A a \in Addr : a < h.brk => m2[a] = h.mem[a]
    <3>1. \A a \in Addr : a \in Int
      BY Defs DEF Addr
    <3> QED BY <3>1, <2>3, <2>4, <1>4
  <2>9. h.brk + 2 # 0 /\ (h.brk + newsize) % 2 = 0 /\ h.brk + 2 + w <= h.brk + newsize
    BY <1>3, <1>4, Defs
  <2> QED BY <2>1, <2>5, <2>6, <2>7, <2>8, <2>9 DEF w
<1> QED BY <1>7, <1>8

(* i has a new block, at the break h had.                                  *)
LEMMA NaiveNew ==
  ASSUME NEW h, NEW bl \in Blocks, NEW sz \in BlockSizes, NaiveGood(h, bl, sz),
         NEW i \in Index, NEW size \in Nat, size > 0,
         NEW g \in Records, g.brk <= HeapBase + MAX_HEAP, g.brk % 2 = 0,
         h.brk + 2 + payload_words(size) <= g.brk, g.mem[h.brk] = size,
         \A a \in Addr : a < h.brk => g.mem[a] = h.mem[a]
  PROVE  /\ NaiveGood(g, [bl EXCEPT ![i] = h.brk + 2], [sz EXCEPT ![i] = size])
         /\ SameBut(i, h, bl, sz, g)
<1> DEFINE p == h.brk + 2
           bl2 == [bl EXCEPT ![i] = p]
           sz2 == [sz EXCEPT ![i] = size]
           w == payload_words(size)
<1>1. \A j \in Users(sz) : /\ j \in Index /\ bl[j] \in Int /\ payload_words(sz[j]) \in Nat
                           /\ bl[j] % 2 = 0 /\ HeapBase + 2 <= bl[j]
                           /\ payload_words(sz[j]) >= 1
                           /\ bl[j] + payload_words(sz[j]) <= h.brk
                           /\ h.mem[bl[j] - 2] = sz[j] /\ bl[j] - 2 \in Addr
  BY NaiveFacts
<1>2. /\ h.brk \in Int /\ HeapBase <= h.brk /\ h.brk % 2 = 0
      /\ \A j, k \in Users(sz) : j # k =>
           \/ bl[j] + payload_words(sz[j]) <= bl[k] - 2
           \/ bl[k] + payload_words(sz[k]) <= bl[j] - 2
  BY NaiveFacts DEF NaiveGood
<1>3. w \in Nat /\ w >= 1 /\ g.brk \in Int /\ p + w <= g.brk
  BY WordsFact DEF Records
<1>4. /\ bl2[i] = p /\ sz2[i] = size /\ \A j \in Index : j # i => bl2[j] = bl[j] /\ sz2[j] = sz[j]
  BY DEF Blocks, BlockSizes
<1>5. SameBut(i, h, bl, sz, g)
  BY NaiveKept
<1> HIDE DEF bl2, sz2
<1>6. \A j \in Users(sz2) : j # i => j \in Users(sz) /\ bl2[j] = bl[j] /\ sz2[j] = sz[j]
  BY <1>4 DEF Users
<1>7. ASSUME NEW j \in Users(sz2)
      PROVE  /\ bl2[j] % 2 = 0 /\ HeapBase <= bl2[j] - 2
             /\ bl2[j] + payload_words(sz2[j]) <= g.brk
             /\ g.mem[bl2[j] - 2] = sz2[j]
  <2>1. CASE j = i
    <3>1. bl2[j] = p /\ sz2[j] = size /\ p - 2 = h.brk /\ p % 2 = 0
      BY <2>1, <1>2, <1>4
    <3> QED BY <3>1, <1>2, <1>3
  <2>2. CASE j # i
    <3>1. j \in Users(sz) /\ bl2[j] = bl[j] /\ sz2[j] = sz[j]
      BY <2>2, <1>6
    <3> DEFINE q == bl[j]
    <3>2. /\ q \in Int /\ payload_words(sz[j]) \in Nat
          /\ q % 2 = 0 /\ HeapBase + 2 <= q
          /\ q + payload_words(sz[j]) <= h.brk
          /\ h.mem[q - 2] = sz[j] /\ q - 2 \in Addr
      BY <3>1, <1>1
    <3>3. g.mem[q - 2] = sz[j]
      BY <3>2, <1>2
    <3> HIDE DEF q
    <3>4. HeapBase <= q - 2 /\ q + payload_words(sz[j]) <= g.brk
      BY <3>2, <1>2, <1>3, Defs
    <3> QED BY <3>1, <3>2, <3>3, <3>4 DEF q
  <2> QED BY <2>1, <2>2
<1>8. ASSUME NEW j \in Users(sz2), NEW k \in Users(sz2), j # k
      PROVE  \/ bl2[j] + payload_words(sz2[j]) <= bl2[k] - 2
             \/ bl2[k] + payload_words(sz2[k]) <= bl2[j] - 2
  <2>1. ASSUME NEW l \in Users(sz2), l # i PROVE bl2[l] + payload_words(sz2[l]) <= p - 2
    <3>1. l \in Users(sz) /\ bl2[l] = bl[l] /\ sz2[l] = sz[l] /\ p - 2 = h.brk
      BY <2>1, <1>2, <1>6
    <3> QED BY <3>1, <1>1
  <2>2. CASE j = i
    BY <2>1, <2>2, <1>4, <1>8
  <2>3. CASE k = i
    BY <2>1, <2>3, <1>4, <1>8
  <2>4. CASE j # i /\ k # i
    BY <2>4, <1>2, <1>6, <1>8
  <2> QED BY <2>2, <2>3, <2>4
<1>9. HeapBase <= g.brk
  BY <1>2, <1>3, Defs
<1>10. NaiveGood(g, bl2, sz2)
  BY <1>7, <1>8, <1>9 DEF NaiveGood
<1> QED BY <1>5, <1>10 DEF bl2, sz2, p

(* i has no block any more.                                                *)
LEMMA NaiveGone ==
  ASSUME NEW h, NEW bl \in Blocks, NEW sz \in BlockSizes, NaiveGood(h, bl, sz),
         NEW i \in Users(sz)
  PROVE  /\ NaiveGood(h, [bl EXCEPT ![i] = 0], [sz EXCEPT ![i] = 0])
         /\ SameBut(i, h, bl, sz, h)
<1> DEFINE bl2 == [bl EXCEPT ![i] = 0]
           sz2 == [sz EXCEPT ![i] = 0]
<1>1. i \in Index /\ sz2[i] = 0 /\ \A j \in Index : j # i => bl2[j] = bl[j] /\ sz2[j] = sz[j]
  BY DEF Blocks, BlockSizes, Users
<1> HIDE DEF bl2, sz2
<1>2. \A j \in Users(sz2) : j \in Users(sz) /\ bl2[j] = bl[j] /\ sz2[j] = sz[j]
  BY <1>1 DEF Users
<1>3. NaiveGood(h, bl2, sz2)
  BY <1>2 DEF NaiveGood
<1>4. SameBut(i, h, bl, sz, h)
  BY DEF SameBut
<1> QED BY <1>3, <1>4 DEF bl2, sz2

(* Writing inside one payload disturbs no size and no other payload.       *)
LEMMA NaiveWritten ==
  ASSUME NEW h, NEW bl \in Blocks, NEW sz \in BlockSizes, NaiveGood(h, bl, sz),
         NEW i \in Users(sz), NEW g \in Records, g.brk = h.brk,
         \A a \in Addr : ~(bl[i] <= a /\ a <= bl[i] + payload_words(sz[i]) - 1) => g.mem[a] = h.mem[a]
  PROVE  NaiveGood(g, bl, sz) /\ SameBut(i, h, bl, sz, g)
<1> DEFINE lo(j) == bl[j]
           w(j) == payload_words(sz[j])
<1>1. \A j \in Users(sz) : /\ j \in Index /\ lo(j) \in Int /\ w(j) \in Nat
                           /\ HeapBase + 2 <= lo(j) /\ w(j) >= 1
                           /\ lo(j) + w(j) <= h.brk
                           /\ h.mem[lo(j) - 2] = sz[j] /\ lo(j) - 2 \in Addr
  BY NaiveFacts
<1>2. /\ h.brk \in Int /\ h.brk <= HeapBase + MAX_HEAP
      /\ \A j, k \in Users(sz) : j # k =>
           lo(j) + w(j) <= lo(k) - 2 \/ lo(k) + w(k) <= lo(j) - 2
  BY NaiveFacts DEF NaiveGood
<1>3. \A a \in Addr : ~(lo(i) <= a /\ a <= lo(i) + w(i) - 1) => g.mem[a] = h.mem[a]
  OBVIOUS
<1> HIDE DEF lo, w
<1>4. \A a \in Addr : a < lo(i) \/ a > lo(i) + w(i) - 1 => g.mem[a] = h.mem[a]
  <2>1. \A a \in Addr : a \in Int
    BY Defs DEF Addr
  <2> QED BY <2>1, <1>1, <1>3
<1>5. ASSUME NEW j \in Users(sz) PROVE g.mem[lo(j) - 2] = sz[j]
  <2>1. j # i => lo(j) + w(j) <= lo(i) - 2 \/ lo(i) + w(i) <= lo(j) - 2
    BY <1>2
  <2>2. lo(j) - 2 < lo(i) \/ lo(j) - 2 > lo(i) + w(i) - 1
    BY <2>1, <1>1
  <2> QED BY <2>2, <1>1, <1>4
<1>6. NaiveGood(g, bl, sz)
  BY <1>5 DEF NaiveGood, lo
<1>7. ASSUME NEW j \in Users(sz), j # i, NEW k \in 0 .. (w(j) - 1)
      PROVE  g.mem[lo(j) + k] = h.mem[lo(j) + k]
  <2>1. lo(j) + w(j) <= lo(i) - 2 \/ lo(i) + w(i) <= lo(j) - 2
    BY <1>2, <1>7
  <2>2. /\ lo(j) \in Int /\ w(j) \in Nat /\ HeapBase + 2 <= lo(j) /\ lo(j) + w(j) <= h.brk
        /\ lo(i) \in Int /\ w(i) \in Nat
    BY <1>1
  <2>3. lo(j) + k \in Addr
    BY <2>2, <1>2, Defs DEF Addr
  <2>4. lo(j) + k < lo(i) \/ lo(j) + k > lo(i) + w(i) - 1
    BY <2>1, <2>2
  <2> QED BY <2>3, <2>4, <1>4
<1> QED BY <1>6, <1>7 DEF SameBut, lo, w

LEMMA NaiveFilled ==
  ASSUME NEW h, NEW bl \in Blocks, NEW sz \in BlockSizes, NaiveGood(h, bl, sz),
         NEW i \in Users(sz), NEW g, g = fill(h, i, bl[i], sz[i])
  PROVE  NaiveGood(g, bl, sz) /\ SameBut(i, h, bl, sz, g)
<1>1. /\ i \in Index /\ bl[i] \in Int /\ sz[i] \in Nat /\ sz[i] > 0
      /\ payload_words(sz[i]) \in Nat /\ HeapBase + 2 <= bl[i]
      /\ bl[i] + payload_words(sz[i]) <= h.brk /\ h.brk \in Int
  BY NaiveFacts
<1>2. h \in Records /\ h.brk <= HeapBase + MAX_HEAP
  BY DEF NaiveGood
<1>3. HeapBase <= bl[i] /\ bl[i] + payload_words(sz[i]) <= HeapBase + MAX_HEAP
  BY <1>1, <1>2, Defs
<1>4. /\ g \in Records /\ g.brk = h.brk
      /\ \A a \in Addr : ~(bl[i] <= a /\ a <= bl[i] + payload_words(sz[i]) - 1) => g.mem[a] = h.mem[a]
  BY <1>1, <1>2, <1>3, FillFact
<1> QED BY <1>4, NaiveWritten

LEMMA NaiveRealloc ==
  ASSUME NEW h, NEW bl \in Blocks, NEW sz \in BlockSizes, NaiveGood(h, bl, sz),
         NEW i \in Users(sz), NEW size \in Nat, size > 0,
         NEW r, r = Naive!mm_realloc(h, bl[i], size)
  PROVE  \/ r.bp = NULL /\ r.heap = h
         \/ /\ r.bp # NULL /\ r.bp \in Int
            /\ NaiveGood(r.heap, [bl EXCEPT ![i] = r.bp], [sz EXCEPT ![i] = size])
            /\ SameBut(i, h, bl, sz, r.heap)
            /\ Copied(h, bl[i], payload_words(sz[i]), r.heap, r.bp, size)
<1> DEFINE new == Naive!mm_malloc(h, size)
           g == new.heap
           q == new.bp
           p == bl[i]
           oldsize == g.mem[Naive!SIZE_PTR(p)]
           bytes == IF size < oldsize THEN size ELSE oldsize
           n == Naive!memcpy(g.mem, q, p, bytes)
           g1 == [g EXCEPT !.mem = n]
<1>1. /\ i \in Index /\ p \in Int /\ sz[i] \in Nat /\ sz[i] > 0
      /\ payload_words(sz[i]) \in Nat /\ HeapBase + 2 <= p /\ p # NULL
      /\ p + payload_words(sz[i]) <= h.brk /\ h.brk \in Int
      /\ h.mem[p - 2] = sz[i] /\ p - 2 \in Addr
  <2>1. /\ i \in Index /\ p \in Int /\ sz[i] \in Nat /\ sz[i] > 0
        /\ payload_words(sz[i]) \in Nat /\ HeapBase + 2 <= p
        /\ p + payload_words(sz[i]) <= h.brk /\ h.brk \in Int
        /\ h.mem[p - 2] = sz[i] /\ p - 2 \in Addr
    BY NaiveFacts
  <2> HIDE DEF p
  <2>2. p # NULL
    BY <2>1, Defs
  <2> QED BY <2>1, <2>2
<1>2. r = IF q = NULL THEN new ELSE [heap |-> g1, bp |-> q]
  BY <1>1 DEF Naive!mm_realloc, Naive!mm_free, Naive!NULL
<1>3. \/ q = NULL /\ g = h
      \/ /\ q # NULL /\ q = h.brk + 2
         /\ g \in Records
         /\ g.brk <= HeapBase + MAX_HEAP /\ g.brk % 2 = 0
         /\ h.brk + 2 + payload_words(size) <= g.brk
         /\ g.mem[h.brk] = size
         /\ \A a \in Addr : a < h.brk => g.mem[a] = h.mem[a]
  <2>1. new = Naive!mm_malloc(h, size)
    OBVIOUS
  <2> HIDE DEF new
  <2> QED BY <2>1, NaiveMalloc
<1> HIDE DEF new
<1>4. CASE q = NULL
  BY <1>2, <1>3, <1>4
<1>5. CASE q # NULL
  <2> DEFINE bl2 == [bl EXCEPT ![i] = h.brk + 2]
             sz2 == [sz EXCEPT ![i] = size]
             w == payload_words(size)
             w0 == payload_words(sz[i])
             k == (bytes + 3) \div 4
  <2>1. r.heap = g1 /\ r.bp = q /\ q = h.brk + 2
    BY <1>2, <1>3, <1>5
  <2> HIDE DEF g, q, g1
  <2>2. NaiveGood(g, bl2, sz2) /\ SameBut(i, h, bl, sz, g)
    BY <1>1, <1>3, <1>5, NaiveNew
  <2>3. bl2 \in Blocks /\ sz2 \in BlockSizes /\ i \in Users(sz2) /\ bl2[i] = h.brk + 2 /\ sz2[i] = size
    BY <1>1 DEF Blocks, BlockSizes, Users
  <2>4. oldsize = sz[i]
    <3>1. Naive!SIZE_PTR(p) = p - 2 /\ p - 2 < h.brk
      BY <1>1 DEF Naive!SIZE_PTR, Naive!SIZE_T_SIZE, Naive!ALIGN
    <3> HIDE DEF p
    <3> QED BY <3>1, <1>1, <1>3, <1>5
  <2>5. bytes = IF size < sz[i] THEN size ELSE sz[i]
    BY <2>4
  <2>6. w = (size + 3) \div 4 /\ w0 = (sz[i] + 3) \div 4 /\ w \in Nat /\ w >= 1 /\ w0 \in Nat
    BY <1>1, WordsFact DEF payload_words
  <2>7. k \in Nat /\ k <= w /\ k <= w0 /\ (k = w \/ k = w0)
    <3> DEFINE old == sz[i]
    <3>1. old \in Nat /\ bytes = (IF size < old THEN size ELSE old) /\ w0 = (old + 3) \div 4
      BY <1>1, <2>5, <2>6
    <3> HIDE DEF old, bytes, w, w0
    <3>2. CASE size < old
      BY <3>1, <3>2, <2>6
    <3>3. CASE ~(size < old)
      BY <3>1, <3>3, <2>6
    <3> QED BY <3>2, <3>3
  <2> HIDE DEF bytes, k, w, w0, bl2, sz2, p
  <2>8. g \in Records /\ g.mem \in Memory /\ g.brk \in Int /\ h.brk + 2 + w <= g.brk
        /\ g.brk <= HeapBase + MAX_HEAP /\ h.brk >= HeapBase /\ h.brk \in Int
    BY <1>1, <1>3, <1>5, Defs DEF Records, w, NaiveGood
  <2>9. n = [a \in Addr |-> IF a \in q .. (q + k - 1) THEN g.mem[p + (a - q)] ELSE g.mem[a]]
    BY <2>8 DEF Naive!memcpy, k, Memory
  <2>10. p + w0 <= h.brk /\ p \in Int /\ HeapBase + 2 <= p
    BY <1>1 DEF w0
  <2>11. \A j \in 0 .. (k - 1) : p + j \in Addr /\ p + j < h.brk
    BY <2>6, <2>7, <2>8, <2>10, Defs DEF Addr
  <2>12. n \in Memory
    <3> SUFFICES ASSUME NEW a \in Addr
                 PROVE  (IF a \in q .. (q + k - 1) THEN g.mem[p + (a - q)] ELSE g.mem[a]) \in Word
      BY <2>9 DEF Memory
    <3>1. CASE a \in q .. (q + k - 1)
      <4>1. a - q \in 0 .. (k - 1)
        BY <3>1, <2>1, <2>7, <2>8
      <4>2. p + (a - q) \in Addr
        BY <4>1, <2>11
      <4> QED BY <3>1, <4>2, <2>8 DEF Memory
    <3>2. CASE a \notin q .. (q + k - 1)
      BY <3>2, <2>8 DEF Memory
    <3> QED BY <3>1, <3>2
  <2> HIDE DEF n
  <2>13. g1 \in Records /\ g1.brk = g.brk /\ g1.mem = n
    BY <2>8, <2>12 DEF g1, Records
  <2>14. q \in Int /\ q = h.brk + 2
    BY <2>1, <2>8
  <2>15. \A a \in Addr : ~(q <= a /\ a <= q + w - 1) => n[a] = g.mem[a]
    <3>1. \A a \in Addr : a \in Int
      BY Defs DEF Addr
    <3> QED BY <3>1, <2>6, <2>7, <2>9, <2>14
  <2>16. NaiveGood(g1, bl2, sz2) /\ SameBut(i, g, bl2, sz2, g1)
    <3>1. \A a \in Addr : ~(bl2[i] <= a /\ a <= bl2[i] + payload_words(sz2[i]) - 1)
              => g1.mem[a] = g.mem[a]
      BY <2>3, <2>13, <2>14, <2>15 DEF w
    <3> QED BY <3>1, <2>2, <2>3, <2>13, NaiveWritten
  <2>17. \A a \in Addr : a < h.brk => g1.mem[a] = h.mem[a]
    <3>1. \A a \in Addr : a < h.brk => ~(q <= a /\ a <= q + w - 1)
      <4>1. \A a \in Addr : a \in Int
        BY Defs DEF Addr
      <4> QED BY <4>1, <2>6, <2>8, <2>14
    <3> QED BY <3>1, <2>13, <2>15, <1>3, <1>5
  <2>18. SameBut(i, h, bl, sz, g1)
    BY <2>17, NaiveKept
  <2>19. ASSUME NEW j \in 0 .. (w - 1), j < w0 PROVE g1.mem[q + j] = h.mem[p + j]
    <3>1. j \in 0 .. (k - 1)
      BY <2>6, <2>7, <2>19
    <3>2. p + j \in Addr /\ p + j < h.brk
      BY <3>1, <2>11
    <3>3. q + j \in q .. (q + k - 1) /\ q + j \in Addr /\ p + ((q + j) - q) = p + j
      BY <3>1, <2>6, <2>7, <2>8, <2>10, <2>14, Defs DEF Addr
    <3>4. n[q + j] = g.mem[p + ((q + j) - q)]
      BY <3>3, <2>9
    <3>5. n[q + j] = g.mem[p + j]
      BY <3>3, <3>4
    <3> QED BY <3>2, <3>5, <2>13, <1>3, <1>5
  <2>20. bl2 = [bl EXCEPT ![i] = q] /\ sz2 = [sz EXCEPT ![i] = size]
    BY <2>14 DEF bl2, sz2
  <2>21. Copied(h, p, w0, g1, q, size)
    BY <2>19 DEF Copied, w
  <2> QED BY <1>5, <2>1, <2>14, <2>16, <2>18, <2>20, <2>21 DEF w0, p
<1> QED BY <1>4, <1>5

----------------------------------------------------------------------------
(* The client of either package: what its calls make of a good heap.       *)

Good(h, bl, sz) == IF implicit THEN \E B, S, A : ImplicitGood(h, bl, sz, B, S, A)
                               ELSE NaiveGood(h, bl, sz)

LEMMA EmptyGood ==
  ASSUME NEW m \in Memory
  PROVE  Good(init(m), Nobody, Nobody)
<1>1. Users(Nobody) = {}
  BY DEF Users, Nobody
<1>2. CASE implicit
  <2> DEFINE g == Implicit!mm_init(m)
  <2>1. PICK B, S, A : Heap(g, B, S, A) /\ Held(B, A) = {}
    BY InitGood
  <2> HIDE DEF g
  <2>2. ImplicitGood(g, Nobody, Nobody, B, S, A)
    BY <1>1, <2>1 DEF ImplicitGood
  <2>3. Good(g, Nobody, Nobody)
    BY <1>2, <2>2 DEF Good
  <2> QED BY <1>2, <2>3 DEF init, g
<1>3. CASE ~implicit
  <2> DEFINE g == Naive!mm_init(m)
  <2>1. g = [mem |-> m, brk |-> HeapBase, rover |-> 0]
    BY DEF Naive!mm_init, Naive!NULL
  <2>2. g \in Records /\ g.brk = HeapBase
    BY <2>1, Defs DEF Records
  <2> HIDE DEF g
  <2>3. NaiveGood(g, Nobody, Nobody)
    BY <1>1, <2>2, Defs DEF NaiveGood
  <2>4. Good(g, Nobody, Nobody)
    BY <1>3, <2>3 DEF Good
  <2> QED BY <1>3, <2>4 DEF init, g
<1> QED BY <1>2, <1>3

LEMMA NaiveMallocKeeps ==
  ASSUME NEW h, NEW bl \in Blocks, NEW sz \in BlockSizes, NaiveGood(h, bl, sz),
         NEW i \in Index, NEW size \in Nat, size > 0, NEW r, r = Naive!mm_malloc(h, size)
  PROVE  \/ r.bp = NULL /\ r.heap = h
         \/ /\ r.bp # NULL /\ r.bp \in Int
            /\ NaiveGood(r.heap, [bl EXCEPT ![i] = r.bp], [sz EXCEPT ![i] = size])
            /\ SameBut(i, h, bl, sz, r.heap)
<1> DEFINE q == r.bp
           g == r.heap
<1>1. \/ q = NULL /\ g = h
      \/ /\ q # NULL /\ q = h.brk + 2
         /\ g \in Records
         /\ g.brk <= HeapBase + MAX_HEAP /\ g.brk % 2 = 0
         /\ h.brk + 2 + payload_words(size) <= g.brk
         /\ g.mem[h.brk] = size
         /\ \A a \in Addr : a < h.brk => g.mem[a] = h.mem[a]
  BY NaiveMalloc
<1> HIDE DEF g, q
<1>2. CASE q = NULL /\ g = h
  BY <1>2 DEF g, q
<1>3. CASE ~(q = NULL /\ g = h)
  <2>1. /\ NaiveGood(g, [bl EXCEPT ![i] = h.brk + 2], [sz EXCEPT ![i] = size])
        /\ SameBut(i, h, bl, sz, g)
    BY <1>1, <1>3, NaiveNew
  <2>2. q = h.brk + 2 /\ q # NULL /\ h.brk \in Int
    BY <1>1, <1>3, NaiveFacts
  <2> QED BY <2>1, <2>2 DEF g, q
<1> QED BY <1>2, <1>3

LEMMA MallocKeeps ==
  ASSUME NEW h, NEW bl \in Blocks, NEW sz \in BlockSizes, Good(h, bl, sz),
         NEW i \in Index, sz[i] = 0, NEW size \in Nat, size > 0,
         NEW r, r = IF implicit THEN Implicit!mm_malloc(h, size) ELSE Naive!mm_malloc(h, size)
  PROVE  \/ r.bp = NULL /\ Good(r.heap, bl, sz) /\ r.heap.mem = h.mem
         \/ /\ r.bp # NULL /\ r.bp \in Int
            /\ Good(r.heap, [bl EXCEPT ![i] = r.bp], [sz EXCEPT ![i] = size])
            /\ SameBut(i, h, bl, sz, r.heap)
<1>1. CASE implicit
  <2>1. PICK B, S, A : ImplicitGood(h, bl, sz, B, S, A)
    BY <1>1 DEF Good
  <2>2. r = Implicit!mm_malloc(h, size) /\ Heap(h, B, S, A)
    BY <1>1, <2>1 DEF ImplicitGood
  <2> DEFINE q == r.bp
             g == r.heap
  <2>3. \/ q = NULL /\ Heap(g, B, S, A) /\ g.mem = h.mem
        \/ /\ q # NULL /\ q \notin Held(B, A)
           /\ \E C, T, D : /\ Heap(g, C, T, D) /\ q \in C
                           /\ T[q] >= Implicit!adjust(size)
                           /\ Held(C, D) = Held(B, A) \union {q}
                           /\ Keeps(h, S, Held(B, A), g, C, T, D)
    BY <2>2, MallocGood
  <2> HIDE DEF g, q
  <2>4. CASE q = NULL /\ Heap(g, B, S, A) /\ g.mem = h.mem
    <3>1. ImplicitGood(g, bl, sz, B, S, A)
      BY <2>1, <2>4 DEF ImplicitGood
    <3>2. Good(g, bl, sz)
      BY <1>1, <3>1 DEF Good
    <3> QED BY <2>4, <3>2 DEF g, q
  <2>5. CASE /\ q # NULL /\ q \notin Held(B, A)
             /\ \E C, T, D : /\ Heap(g, C, T, D) /\ q \in C
                             /\ T[q] >= Implicit!adjust(size)
                             /\ Held(C, D) = Held(B, A) \union {q}
                             /\ Keeps(h, S, Held(B, A), g, C, T, D)
    <3>1. PICK C, T, D : /\ Heap(g, C, T, D) /\ q \in C
                         /\ T[q] >= Implicit!adjust(size)
                         /\ Held(C, D) = Held(B, A) \union {q}
                         /\ Keeps(h, S, Held(B, A), g, C, T, D)
      BY <2>5
    <3>2. Held(B, A) \ BlockOf(bl, sz, i) = Held(B, A)
      BY DEF BlockOf
    <3>3. /\ Held(C, D) = (Held(B, A) \ BlockOf(bl, sz, i)) \union {q}
          /\ Keeps(h, S, Held(B, A) \ BlockOf(bl, sz, i), g, C, T, D)
      BY <3>1, <3>2
    <3>4. /\ ImplicitGood(g, [bl EXCEPT ![i] = q], [sz EXCEPT ![i] = size], C, T, D)
          /\ SameBut(i, h, bl, sz, g)
      BY <2>1, <2>5, <3>1, <3>3, ImplicitNew
    <3>5. Good(g, [bl EXCEPT ![i] = q], [sz EXCEPT ![i] = size])
      BY <1>1, <3>4 DEF Good
    <3>6. q \in Int
      <4>1. Layout(g.brk, C, T)
        BY <3>1 DEF Heap, HeapBut
      <4> QED BY <3>1, <4>1, LayoutFacts
    <3> QED BY <2>5, <3>4, <3>5, <3>6 DEF g, q
  <2> QED BY <2>3, <2>4, <2>5
<1>2. CASE ~implicit
  <2>1. r = Naive!mm_malloc(h, size) /\ NaiveGood(h, bl, sz)
    BY <1>2 DEF Good
  <2> DEFINE q == r.bp
             g == r.heap
  <2>2. \/ q = NULL /\ g = h
        \/ /\ q # NULL /\ q \in Int
           /\ NaiveGood(g, [bl EXCEPT ![i] = q], [sz EXCEPT ![i] = size])
           /\ SameBut(i, h, bl, sz, g)
    BY <2>1, NaiveMallocKeeps
  <2> HIDE DEF g, q
  <2>3. CASE q = NULL /\ g = h
    <3>1. Good(g, bl, sz) /\ g.mem = h.mem
      BY <1>2, <2>1, <2>3 DEF Good
    <3> QED BY <2>3, <3>1 DEF g, q
  <2>4. CASE ~(q = NULL /\ g = h)
    <3>1. Good(g, [bl EXCEPT ![i] = q], [sz EXCEPT ![i] = size])
      BY <1>2, <2>2, <2>4 DEF Good
    <3> QED BY <2>2, <2>4, <3>1 DEF g, q
  <2> QED BY <2>3, <2>4
<1> QED BY <1>1, <1>2

LEMMA FillKeeps ==
  ASSUME NEW h, NEW bl \in Blocks, NEW sz \in BlockSizes, Good(h, bl, sz),
         NEW i \in Users(sz), NEW g, g = fill(h, i, bl[i], sz[i])
  PROVE  Good(g, bl, sz) /\ SameBut(i, h, bl, sz, g)
<1>1. CASE implicit
  <2>1. PICK B, S, A : ImplicitGood(h, bl, sz, B, S, A)
    BY <1>1 DEF Good
  <2>2. ImplicitGood(g, bl, sz, B, S, A) /\ SameBut(i, h, bl, sz, g)
    BY <2>1, ImplicitFilled
  <2> QED BY <1>1, <2>2 DEF Good
<1>2. CASE ~implicit
  <2>1. NaiveGood(h, bl, sz)
    BY <1>2 DEF Good
  <2>2. NaiveGood(g, bl, sz) /\ SameBut(i, h, bl, sz, g)
    BY <2>1, NaiveFilled
  <2> QED BY <1>2, <2>2 DEF Good
<1> QED BY <1>1, <1>2

LEMMA FreeKeeps ==
  ASSUME NEW h, NEW bl \in Blocks, NEW sz \in BlockSizes, Good(h, bl, sz),
         NEW i \in Users(sz),
         NEW g, g = IF implicit THEN Implicit!mm_free(h, bl[i]) ELSE Naive!mm_free(h, bl[i])
  PROVE  /\ Good(g, [bl EXCEPT ![i] = 0], [sz EXCEPT ![i] = 0])
         /\ SameBut(i, h, bl, sz, g)
<1>1. CASE implicit
  <2>1. PICK B, S, A : ImplicitGood(h, bl, sz, B, S, A)
    BY <1>1 DEF Good
  <2>2. Heap(h, B, S, A) /\ bl[i] \in Held(B, A) /\ g = Implicit!mm_free(h, bl[i])
    BY <1>1, <2>1 DEF ImplicitGood
  <2>3. PICK C, T, D : /\ Heap(g, C, T, D) /\ Held(C, D) = Held(B, A) \ {bl[i]}
                       /\ Keeps(h, S, Held(B, A) \ {bl[i]}, g, C, T, D)
    BY <2>2, FreeGood
  <2>4. /\ ImplicitGood(g, [bl EXCEPT ![i] = 0], [sz EXCEPT ![i] = 0], C, T, D)
        /\ SameBut(i, h, bl, sz, g)
    BY <2>1, <2>3, ImplicitGone
  <2> QED BY <1>1, <2>4 DEF Good
<1>2. CASE ~implicit
  <2>1. NaiveGood(h, bl, sz) /\ g = h
    BY <1>2 DEF Good, Naive!mm_free
  <2>2. /\ NaiveGood(h, [bl EXCEPT ![i] = 0], [sz EXCEPT ![i] = 0])
        /\ SameBut(i, h, bl, sz, h)
    BY <2>1, NaiveGone
  <2> QED BY <1>2, <2>1, <2>2 DEF Good
<1> QED BY <1>1, <1>2

LEMMA ImplicitReallocKeeps ==
  ASSUME NEW h, NEW bl \in Blocks, NEW sz \in BlockSizes, NEW B, NEW S, NEW A,
         implicit, ImplicitGood(h, bl, sz, B, S, A), NEW i \in Users(sz), NEW size \in Nat, size > 0
  PROVE  LET r == Implicit!mm_realloc(h, bl[i], size)
         IN  \/ r.bp = NULL /\ Good(r.heap, bl, sz) /\ r.heap.mem = h.mem
             \/ /\ r.bp # NULL /\ r.bp \in Int
                /\ Good(r.heap, [bl EXCEPT ![i] = r.bp], [sz EXCEPT ![i] = size])
                /\ SameBut(i, h, bl, sz, r.heap)
                /\ Copied(h, bl[i], payload_words(sz[i]), r.heap, r.bp, size)
<1> DEFINE r == Implicit!mm_realloc(h, bl[i], size)
<1>1. i \in Index /\ sz[i] \in Nat /\ sz[i] > 0
  BY DEF Users, BlockSizes
<1>2. /\ Heap(h, B, S, A) /\ bl[i] \in Held(B, A)
      /\ payload_words(sz[i]) \in Nat /\ S[bl[i]] >= payload_words(sz[i]) + 2
  BY <1>1, WordsFact DEF ImplicitGood
<1>3. \/ /\ r.bp = NULL /\ Heap(r.heap, B, S, A) /\ r.heap.mem = h.mem
      \/ /\ r.bp # NULL /\ r.bp \notin Held(B, A)
         /\ \E C, T, D :
               /\ Heap(r.heap, C, T, D)
               /\ T[r.bp] >= Implicit!adjust(size)
               /\ Held(C, D) = (Held(B, A) \ {bl[i]}) \union {r.bp}
               /\ Keeps(h, S, Held(B, A) \ {bl[i]}, r.heap, C, T, D)
               /\ Copied(h, bl[i], payload_words(sz[i]), r.heap, r.bp, size)
  BY <1>2, ReallocGood
<1> HIDE DEF r
<1>4. CASE r.bp = NULL /\ Heap(r.heap, B, S, A) /\ r.heap.mem = h.mem
  <2>1. ImplicitGood(r.heap, bl, sz, B, S, A)
    BY <1>4 DEF ImplicitGood
  <2>2. Good(r.heap, bl, sz)
    BY <2>1 DEF Good
  <2> QED BY <1>4, <2>2 DEF r
<1>5. ASSUME r.bp # NULL, r.bp \notin Held(B, A),
             NEW C, NEW T, NEW D,
             Heap(r.heap, C, T, D), T[r.bp] >= Implicit!adjust(size),
             Held(C, D) = (Held(B, A) \ {bl[i]}) \union {r.bp},
             Keeps(h, S, Held(B, A) \ {bl[i]}, r.heap, C, T, D),
             Copied(h, bl[i], payload_words(sz[i]), r.heap, r.bp, size)
      PROVE  /\ r.bp # NULL /\ r.bp \in Int
             /\ Good(r.heap, [bl EXCEPT ![i] = r.bp], [sz EXCEPT ![i] = size])
             /\ SameBut(i, h, bl, sz, r.heap)
             /\ Copied(h, bl[i], payload_words(sz[i]), r.heap, r.bp, size)
  <2> DEFINE q == r.bp
             g == r.heap
  <2>1. Copied(h, bl[i], payload_words(sz[i]), g, q, size) /\ q # NULL
    BY <1>5
  <2> HIDE DEF g, q
  <2>2. BlockOf(bl, sz, i) = {bl[i]}
    BY <1>1 DEF BlockOf
  <2>3. /\ Held(C, D) = (Held(B, A) \ BlockOf(bl, sz, i)) \union {q}
        /\ Keeps(h, S, Held(B, A) \ BlockOf(bl, sz, i), g, C, T, D)
        /\ Heap(g, C, T, D) /\ T[q] >= Implicit!adjust(size) /\ q \notin Held(B, A)
    BY <1>5, <2>2 DEF g, q
  <2>4. /\ ImplicitGood(g, [bl EXCEPT ![i] = q], [sz EXCEPT ![i] = size], C, T, D)
        /\ SameBut(i, h, bl, sz, g)
    BY <1>1, <2>3, ImplicitNew
  <2>5. q \in Int
    <3>1. Layout(g.brk, C, T) /\ q \in C
      BY <2>3 DEF Heap, HeapBut, Held
    <3> QED BY <3>1, LayoutFacts
  <2>6. Good(g, [bl EXCEPT ![i] = q], [sz EXCEPT ![i] = size])
    BY <2>4 DEF Good
  <2> QED BY <2>1, <2>4, <2>5, <2>6 DEF g, q
<1> QED BY <1>3, <1>4, <1>5 DEF r

LEMMA ReallocKeeps ==
  ASSUME NEW h, NEW bl \in Blocks, NEW sz \in BlockSizes, Good(h, bl, sz),
         NEW i \in Users(sz), NEW size \in Nat, size > 0,
         NEW r, r = IF implicit THEN Implicit!mm_realloc(h, bl[i], size)
                    ELSE Naive!mm_realloc(h, bl[i], size)
  PROVE  \/ r.bp = NULL /\ Good(r.heap, bl, sz) /\ r.heap.mem = h.mem
         \/ /\ r.bp # NULL /\ r.bp \in Int
            /\ Good(r.heap, [bl EXCEPT ![i] = r.bp], [sz EXCEPT ![i] = size])
            /\ SameBut(i, h, bl, sz, r.heap)
            /\ Copied(h, bl[i], payload_words(sz[i]), r.heap, r.bp, size)
<1> DEFINE q == r.bp
           g == r.heap
<1>1. CASE implicit
  <2>1. PICK B, S, A : ImplicitGood(h, bl, sz, B, S, A)
    BY <1>1 DEF Good
  <2>2. r = Implicit!mm_realloc(h, bl[i], size)
    BY <1>1
  <2>3. \/ q = NULL /\ Good(g, bl, sz) /\ g.mem = h.mem
        \/ /\ q # NULL /\ q \in Int
           /\ Good(g, [bl EXCEPT ![i] = q], [sz EXCEPT ![i] = size])
           /\ SameBut(i, h, bl, sz, g)
           /\ Copied(h, bl[i], payload_words(sz[i]), g, q, size)
    BY <1>1, <2>1, <2>2, ImplicitReallocKeeps
  <2> QED BY <2>3
<1>2. CASE ~implicit
  <2>1. r = Naive!mm_realloc(h, bl[i], size) /\ NaiveGood(h, bl, sz)
    BY <1>2 DEF Good
  <2>2. \/ q = NULL /\ g = h
        \/ /\ q # NULL /\ q \in Int
           /\ NaiveGood(g, [bl EXCEPT ![i] = q], [sz EXCEPT ![i] = size])
           /\ SameBut(i, h, bl, sz, g)
           /\ Copied(h, bl[i], payload_words(sz[i]), g, q, size)
    BY <2>1, NaiveRealloc
  <2> HIDE DEF g, q
  <2>3. CASE q = NULL /\ g = h
    <3>1. Good(g, bl, sz) /\ g.mem = h.mem
      BY <1>2, <2>1, <2>3 DEF Good
    <3> QED BY <2>3, <3>1 DEF g, q
  <2>4. CASE ~(q = NULL /\ g = h)
    <3>1. Good(g, [bl EXCEPT ![i] = q], [sz EXCEPT ![i] = size])
      BY <1>2, <2>2, <2>4 DEF Good
    <3> QED BY <2>2, <2>4, <3>1 DEF g, q
  <2> QED BY <2>3, <2>4
<1> QED BY <1>1, <1>2

(* Of those facts, what the client sees of a payload of mm-naive.          *)
LEMMA NaiveHeld ==
  ASSUME NEW h, NEW bl \in Blocks, NEW sz \in BlockSizes, NaiveGood(h, bl, sz)
  PROVE  \A i \in Users(sz) : /\ bl[i] \in Int /\ bl[i] % 2 = 0 /\ HeapBase + 2 <= bl[i]
                              /\ bl[i] + payload_words(sz[i]) <= h.brk
BY NaiveFacts

(* A held payload is aligned, in the heap, and apart from every other.     *)
LEMMA Placed ==
  ASSUME NEW h, NEW bl \in Blocks, NEW sz \in BlockSizes, Good(h, bl, sz)
  PROVE  /\ \A i \in Users(sz) :
              /\ bl[i] \in Int /\ bl[i] % 2 = 0 /\ HeapBase <= bl[i]
              /\ payload_words(sz[i]) \in Nat /\ payload_words(sz[i]) >= 1
              /\ bl[i] + payload_words(sz[i]) <= HeapBase + MAX_HEAP
         /\ \A i, j \in Users(sz) : i # j =>
              \/ bl[i] + payload_words(sz[i]) <= bl[j]
              \/ bl[j] + payload_words(sz[j]) <= bl[i]
<1> DEFINE w(i) == payload_words(sz[i])
<1>1. \A i \in Users(sz) : /\ i \in Index /\ bl[i] \in Int /\ sz[i] \in Nat /\ sz[i] > 0
  BY DEF Users, Blocks, BlockSizes
<1>2. \A i \in Users(sz) : w(i) \in Nat /\ w(i) >= 1
  BY <1>1, WordsFact
<1>3. CASE implicit
  <2>1. PICK B, S, A : ImplicitGood(h, bl, sz, B, S, A)
    BY <1>3 DEF Good
  <2>2. /\ \A i \in Users(sz) : bl[i] \in B /\ S[bl[i]] >= w(i) + 2
        /\ \A i, j \in Users(sz) : i # j => bl[i] # bl[j]
        /\ Layout(h.brk, B, S)
    BY <2>1 DEF ImplicitGood, Heap, HeapBut, Held
  <2>3. /\ \A p \in B : /\ p \in Int /\ p >= first /\ p % 2 = 0 /\ p + S[p] <= h.brk
        /\ \A p, q \in B : p < q => p + S[p] <= q
        /\ h.brk <= HeapBase + MAX_HEAP
    BY <2>2 DEF Layout
  <2>4. h.brk \in Int /\ \A p \in B : S[p] \in Int
    BY <2>2, LayoutFacts
  <2> HIDE DEF w
  <2>5. ASSUME NEW i \in Users(sz)
        PROVE  /\ bl[i] % 2 = 0 /\ HeapBase <= bl[i]
               /\ bl[i] + w(i) <= HeapBase + MAX_HEAP
    <3> DEFINE p == bl[i]
               z == S[bl[i]]
    <3>1. /\ p \in Int /\ p >= first /\ p % 2 = 0 /\ p + z <= h.brk
          /\ z \in Int /\ z >= w(i) + 2 /\ w(i) \in Nat
      BY <1>2, <2>2, <2>3, <2>4
    <3> HIDE DEF p, z
    <3>2. p % 2 = 0 /\ HeapBase <= p /\ p + w(i) <= HeapBase + MAX_HEAP
      BY <3>1, <2>3, <2>4, Defs
    <3> QED BY <3>2 DEF p
  <2>6. ASSUME NEW i \in Users(sz), NEW j \in Users(sz), i # j
        PROVE  bl[i] + w(i) <= bl[j] \/ bl[j] + w(j) <= bl[i]
    <3> DEFINE p == bl[i]
               q == bl[j]
               y == S[bl[i]]
               z == S[bl[j]]
    <3>1. /\ p \in Int /\ q \in Int /\ y \in Int /\ z \in Int /\ w(i) \in Nat /\ w(j) \in Nat
          /\ y >= w(i) + 2 /\ z >= w(j) + 2 /\ p # q
      BY <1>2, <2>2, <2>3, <2>4, <2>6
    <3>2. (p < q => p + y <= q) /\ (q < p => q + z <= p)
      BY <2>2, <2>3
    <3> HIDE DEF p, q, y, z
    <3>3. p + w(i) <= q \/ q + w(j) <= p
      BY <3>1, <3>2
    <3> QED BY <3>3 DEF p, q
  <2> QED BY <1>1, <1>2, <2>5, <2>6 DEF w
<1>4. CASE ~implicit
  <2>1. NaiveGood(h, bl, sz)
    BY <1>4 DEF Good
  <2>2. \A i \in Users(sz) : /\ bl[i] \in Int /\ bl[i] % 2 = 0 /\ HeapBase + 2 <= bl[i]
                             /\ bl[i] + w(i) <= h.brk
    BY <2>1, NaiveHeld
  <2>3. /\ \A i, j \in Users(sz) : i # j => bl[i] + w(i) <= bl[j] - 2 \/ bl[j] + w(j) <= bl[i] - 2
        /\ h.brk <= HeapBase + MAX_HEAP /\ h.brk \in Int
    BY <2>1, NaiveFacts DEF NaiveGood
  <2> HIDE DEF w
  <2>4. \A i \in Users(sz) : HeapBase <= bl[i] /\ bl[i] + w(i) <= HeapBase + MAX_HEAP
    BY <1>2, <2>2, <2>3, Defs
  <2>5. ASSUME NEW i \in Users(sz), NEW j \in Users(sz), i # j
        PROVE  bl[i] + w(i) <= bl[j] \/ bl[j] + w(j) <= bl[i]
    <3> DEFINE p == bl[i]
               q == bl[j]
    <3>1. /\ p \in Int /\ q \in Int /\ w(i) \in Nat /\ w(j) \in Nat
          /\ p + w(i) <= q - 2 \/ q + w(j) <= p - 2
      BY <1>2, <2>2, <2>3, <2>5
    <3> HIDE DEF p, q
    <3>2. p + w(i) <= q \/ q + w(j) <= p
      BY <3>1
    <3> QED BY <3>2 DEF p, q
  <2> QED BY <1>1, <1>2, <2>2, <2>4, <2>5 DEF w
<1> QED BY <1>3, <1>4

LEMMA SameTrans ==
  ASSUME NEW h, NEW bl \in Blocks, NEW sz \in BlockSizes, NEW i, NEW q, NEW size,
         NEW g, SameBut(i, h, bl, sz, g),
         NEW f, SameBut(i, g, [bl EXCEPT ![i] = q], [sz EXCEPT ![i] = size], f)
  PROVE  SameBut(i, h, bl, sz, f)
<1> DEFINE bl2 == [bl EXCEPT ![i] = q]
           sz2 == [sz EXCEPT ![i] = size]
<1>1. \A j \in Users(sz) : j # i => j \in Users(sz2) /\ bl2[j] = bl[j] /\ sz2[j] = sz[j]
  BY DEF Users, Blocks, BlockSizes
<1> HIDE DEF bl2, sz2
<1>2. SameBut(i, g, bl2, sz2, f)
  BY DEF bl2, sz2
<1> QED BY <1>1, <1>2 DEF SameBut

----------------------------------------------------------------------------
(* The inductive invariant, and what a step keeps of it.                   *)

Inv ==
  /\ draft \in {"first fit", "next fit", "naive"}
  /\ blocks \in Blocks /\ block_sizes \in BlockSizes
  /\ Good(heap, blocks, block_sizes)

LEMMA GoodNext ==
  ASSUME Inv, UNCHANGED draft, blocks' \in Blocks, block_sizes' \in BlockSizes,
         Good(heap', blocks', block_sizes')
  PROVE  Inv'
<1>1. CASE implicit
  <2>1. PICK B, S, A : ImplicitGood(heap', blocks', block_sizes', B, S, A)
    BY <1>1 DEF Good
  <2>2. ImplicitGood(heap, blocks, block_sizes, B, S, A)'
    BY <2>1 DEF ImplicitGood, Heap, HeapBut, NextFit, Held, Users, Layout, Tagged, Records, Memory,
                first, payload_words
  <2>3. implicit'
    BY <1>1 DEF implicit
  <2>4. Good(heap, blocks, block_sizes)'
    BY <2>2, <2>3 DEF Good
  <2> QED BY <2>4 DEF Inv, Blocks, BlockSizes
<1>2. CASE ~implicit
  <2>1. NaiveGood(heap, blocks, block_sizes)'
    BY <1>2 DEF Good, NaiveGood, Users, Records, Memory, payload_words
  <2>2. ~implicit'
    BY <1>2 DEF implicit
  <2>3. Good(heap, blocks, block_sizes)'
    BY <2>1, <2>2 DEF Good
  <2> QED BY <2>3 DEF Inv, Blocks, BlockSizes
<1> QED BY <1>1, <1>2

LEMMA NobodyFact == Nobody \in Blocks /\ Nobody \in BlockSizes
BY DEF Nobody, Blocks, BlockSizes

LEMMA MemoryFact ==
  ASSUME Inv
  PROVE  heap.mem \in Memory
<1>1. CASE implicit
  BY <1>1 DEF Inv, Good, ImplicitGood, Heap, HeapBut, Records
<1>2. CASE ~implicit
  BY <1>2 DEF Inv, Good, NaiveGood, Records
<1> QED BY <1>1, <1>2

LEMMA NewTraceStep ==
  ASSUME Inv, NewTrace, UNCHANGED draft
  PROVE  Inv'
<1>1. blocks' = Nobody /\ block_sizes' = Nobody /\ heap' = init(heap.mem)
  BY DEF NewTrace
<1>2. Good(init(heap.mem), Nobody, Nobody)
  BY MemoryFact, EmptyGood
<1>3. Good(heap', blocks', block_sizes')
  BY <1>1, <1>2
<1> QED BY <1>1, <1>3, NobodyFact, GoodNext

(* A step that changes i's block alone.                                    *)
Changed(i) ==
  /\ blocks' \in Blocks /\ block_sizes' \in BlockSizes
  /\ \A j \in Index \ {i} : blocks'[j] = blocks[j] /\ block_sizes'[j] = block_sizes[j]
  /\ SameBut(i, heap, blocks, block_sizes, heap')

LEMMA ChangedFact ==
  ASSUME Inv, NEW i \in Index, NEW q \in Int, NEW size \in Nat,
         blocks' = [blocks EXCEPT ![i] = q], block_sizes' = [block_sizes EXCEPT ![i] = size],
         SameBut(i, heap, blocks, block_sizes, heap')
  PROVE  Changed(i) /\ blocks'[i] = q /\ block_sizes'[i] = size
BY DEF Changed, Inv, Blocks, BlockSizes

LEMMA MallocStep ==
  ASSUME Inv, NEW i \in Index, NEW size \in Sizes, Malloc(i, size), UNCHANGED draft
  PROVE  /\ Inv'
         /\ block_sizes[i] = 0
         /\ \/ UNCHANGED <<blocks, block_sizes>> /\ heap'.mem = heap.mem
            \/ Changed(i) /\ block_sizes'[i] > 0
<1> DEFINE new == malloc(size)
           g == new.heap
           q == new.bp
           bl2 == [blocks EXCEPT ![i] = q]
           sz2 == [block_sizes EXCEPT ![i] = size]
<1>1. /\ size \in Nat /\ size > 0 /\ block_sizes[i] = 0
      /\ blocks \in Blocks /\ block_sizes \in BlockSizes /\ Good(heap, blocks, block_sizes)
  <2>1. blocks \in Blocks /\ block_sizes \in BlockSizes /\ Good(heap, blocks, block_sizes)
    BY DEF Inv
  <2>2. block_sizes[i] \in Nat /\ ~(block_sizes[i] > 0) /\ size > 0
    BY <2>1 DEF Malloc, holds, BlockSizes
  <2>3. size \in Nat
    BY ClientAssumption
  <2> QED BY <2>1, <2>2, <2>3
<1>2. IF q = NULL THEN heap' = g /\ UNCHANGED <<blocks, block_sizes>>
      ELSE /\ heap' = fill(g, i, q, size) /\ blocks' = bl2 /\ block_sizes' = sz2
  BY DEF Malloc
<1>3. new = IF implicit THEN Implicit!mm_malloc(heap, size) ELSE Naive!mm_malloc(heap, size)
  BY DEF malloc
<1> HIDE DEF new
<1>4. \/ q = NULL /\ Good(g, blocks, block_sizes) /\ g.mem = heap.mem
      \/ /\ q # NULL /\ q \in Int
         /\ Good(g, bl2, sz2)
         /\ SameBut(i, heap, blocks, block_sizes, g)
  BY <1>1, <1>3, MallocKeeps
<1> HIDE DEF g, q
<1>5. CASE q = NULL
  BY <1>1, <1>2, <1>4, <1>5, GoodNext
<1>6. CASE q # NULL
  <2>1. heap' = fill(g, i, q, size) /\ blocks' = bl2 /\ block_sizes' = sz2
    BY <1>2, <1>6
  <2>2. bl2 \in Blocks /\ sz2 \in BlockSizes /\ i \in Users(sz2) /\ bl2[i] = q /\ sz2[i] = size
    BY <1>1, <1>4, <1>6 DEF Blocks, BlockSizes, Users
  <2> HIDE DEF bl2, sz2
  <2>3. heap' = fill(g, i, bl2[i], sz2[i])
    BY <2>1, <2>2
  <2>4. Good(heap', bl2, sz2) /\ SameBut(i, g, bl2, sz2, heap')
    BY <1>4, <1>6, <2>2, <2>3, FillKeeps
  <2>5. SameBut(i, heap, blocks, block_sizes, heap')
    BY <1>1, <1>4, <1>6, <2>4, SameTrans DEF bl2, sz2
  <2>6. Changed(i) /\ block_sizes'[i] = size
    BY <1>1, <1>4, <1>6, <2>1, <2>5, ChangedFact DEF bl2, sz2
  <2>7. Inv'
    BY <2>1, <2>2, <2>4, GoodNext
  <2> QED BY <1>1, <2>6, <2>7
<1> QED BY <1>5, <1>6

LEMMA FreedStep ==
  ASSUME Inv, NEW i \in Index, block_sizes[i] > 0, UNCHANGED draft,
         heap' = free(blocks[i]),
         blocks' = [blocks EXCEPT ![i] = 0], block_sizes' = [block_sizes EXCEPT ![i] = 0]
  PROVE  Inv' /\ Changed(i) /\ block_sizes'[i] = 0
<1>1. /\ blocks \in Blocks /\ block_sizes \in BlockSizes /\ Good(heap, blocks, block_sizes)
      /\ i \in Users(block_sizes)
  BY DEF Inv, Users
<1> DEFINE g == free(blocks[i])
<1>2. g = IF implicit THEN Implicit!mm_free(heap, blocks[i]) ELSE Naive!mm_free(heap, blocks[i])
  BY DEF free
<1> HIDE DEF g
<1>3. /\ Good(g, [blocks EXCEPT ![i] = 0], [block_sizes EXCEPT ![i] = 0])
      /\ SameBut(i, heap, blocks, block_sizes, g)
  BY <1>1, <1>2, FreeKeeps
<1>6. heap' = g
  BY DEF g
<1>4. Changed(i) /\ block_sizes'[i] = 0
  <2>1. /\ i \in Index /\ block_sizes'[i] = 0
        /\ \A j \in Index \ {i} : blocks'[j] = blocks[j] /\ block_sizes'[j] = block_sizes[j]
    BY <1>1 DEF Blocks, BlockSizes
  <2>2. blocks' \in Blocks /\ block_sizes' \in BlockSizes
    BY <1>1 DEF Blocks, BlockSizes
  <2> QED BY <1>3, <1>6, <2>1, <2>2 DEF Changed
<1>5. Inv'
  BY <1>3, <1>4, <1>6, GoodNext DEF Changed
<1> QED BY <1>4, <1>5

LEMMA FreeStep ==
  ASSUME Inv, NEW i \in Index, Free(i), UNCHANGED draft
  PROVE  Inv' /\ Changed(i) /\ block_sizes[i] > 0 /\ block_sizes'[i] = 0
BY FreedStep DEF Free, holds

LEMMA ReallocStep ==
  ASSUME Inv, NEW i \in Index, NEW size \in Sizes, Realloc(i, size), UNCHANGED draft
  PROVE  /\ Inv'
         /\ block_sizes[i] > 0
         /\ \/ UNCHANGED <<blocks, block_sizes>> /\ heap'.mem = heap.mem
            \/ Changed(i) /\ block_sizes'[i] = 0
            \/ /\ Changed(i) /\ block_sizes'[i] > 0
               /\ Copied(heap, blocks[i], payload_words(block_sizes[i]),
                         heap', blocks'[i], block_sizes'[i])
<1> DEFINE new == realloc(blocks[i], size)
           g == new.heap
           q == new.bp
           bl2 == [blocks EXCEPT ![i] = q]
           sz2 == [block_sizes EXCEPT ![i] = size]
<1>1. /\ size \in Nat /\ block_sizes[i] > 0 /\ i \in Users(block_sizes)
      /\ blocks \in Blocks /\ block_sizes \in BlockSizes /\ Good(heap, blocks, block_sizes)
  BY ClientAssumption DEF Realloc, holds, Inv, BlockSizes, Users
<1>2. /\ heap' = g
      /\ IF q = NULL /\ size # 0 THEN UNCHANGED <<blocks, block_sizes>>
         ELSE blocks' = bl2 /\ block_sizes' = sz2
  BY DEF Realloc
<1>3. new = IF implicit THEN Implicit!mm_realloc(heap, blocks[i], size)
            ELSE Naive!mm_realloc(heap, blocks[i], size)
  BY DEF realloc
<1>4. CASE size = 0
  <2>1. g = free(blocks[i]) /\ q = 0
    BY <1>3, <1>4 DEF free, Implicit!mm_realloc, Naive!mm_realloc, Naive!NULL
  <2> HIDE DEF new
  <2>2. heap' = free(blocks[i]) /\ blocks' = [blocks EXCEPT ![i] = 0]
        /\ block_sizes' = [block_sizes EXCEPT ![i] = 0]
    BY <1>2, <1>4, <2>1
  <2> QED BY <1>1, <2>2, FreedStep
<1>5. CASE size > 0
  <2> HIDE DEF new
  <2>1. \/ q = NULL /\ Good(g, blocks, block_sizes) /\ g.mem = heap.mem
        \/ /\ q # NULL /\ q \in Int
           /\ Good(g, bl2, sz2)
           /\ SameBut(i, heap, blocks, block_sizes, g)
           /\ Copied(heap, blocks[i], payload_words(block_sizes[i]), g, q, size)
    BY <1>1, <1>3, <1>5, ReallocKeeps
  <2> HIDE DEF g, q
  <2>2. CASE q = NULL
    BY <1>1, <1>2, <1>5, <2>1, <2>2, GoodNext
  <2>3. CASE q # NULL
    <3>1. heap' = g /\ blocks' = bl2 /\ block_sizes' = sz2
      BY <1>2, <2>3
    <3>2. Changed(i) /\ blocks'[i] = q /\ block_sizes'[i] = size
      BY <1>1, <2>1, <2>3, <3>1, ChangedFact
    <3> HIDE DEF bl2, sz2
    <3>3. Inv'
      BY <2>1, <2>3, <3>1, <3>2, GoodNext DEF Changed
    <3>4. Copied(heap, blocks[i], payload_words(block_sizes[i]), heap', blocks'[i], block_sizes'[i])
      BY <2>1, <2>3, <3>1, <3>2
    <3> QED BY <1>1, <1>5, <3>2, <3>3, <3>4
  <2> QED BY <2>2, <2>3
<1> QED BY <1>1, <1>4, <1>5

LEMMA StepGood ==
  ASSUME Inv, [Next]_vars
  PROVE  Inv'
<1>1. CASE UNCHANGED vars
  BY <1>1, GoodNext DEF vars, Inv
<1>2. CASE Next
  <2>1. UNCHANGED draft
    BY <1>2 DEF Next
  <2>2. CASE NewTrace
    BY <2>1, <2>2, NewTraceStep
  <2>3. ASSUME NEW i \in Index, NEW size \in Sizes, Malloc(i, size) PROVE Inv'
    BY <2>1, <2>3, MallocStep
  <2>4. ASSUME NEW i \in Index, NEW size \in Sizes, Realloc(i, size) PROVE Inv'
    BY <2>1, <2>4, ReallocStep
  <2>5. ASSUME NEW i \in Index, Free(i) PROVE Inv'
    BY <2>1, <2>5, FreeStep
  <2> QED BY <1>2, <2>2, <2>3, <2>4, <2>5 DEF Next
<1> QED BY <1>1, <1>2

LEMMA StartGood == Init => Inv
<1> SUFFICES ASSUME Init PROVE Inv
  OBVIOUS
<1> DEFINE m == [a \in Addr |-> 0]
<1>1. m \in Memory
  BY Defs DEF Memory, Word
<1> HIDE DEF m
<1>2. Good(init(m), Nobody, Nobody)
  BY <1>1, EmptyGood
<1>3. heap = init(m) /\ blocks = Nobody /\ block_sizes = Nobody
  BY DEF Init, m
<1> QED BY <1>2, <1>3, NobodyFact DEF Init, Inv

LEMMA Invariant == Spec => []Inv
BY StartGood, StepGood, PTL DEF Spec

----------------------------------------------------------------------------
(* What mm_checkheap and the search see of a good heap.                    *)

(* The block behind a payload, from header to footer or from the size in   *)
(* front, is all the client's and shares no word with another.             *)
LEMMA InvHandedOutOnce ==
  ASSUME Inv
  PROVE  HandedOutOnce
<1> DEFINE m == heap.mem
           top == heap.brk
           w(i) == payload_words(block_sizes[i])
           held == {i \in Index : holds(i)}
           Fine(i) ==
             /\ blocks[i] % DSIZE = 0
             /\ extent(i) \subseteq HeapBase .. (heap.brk - 1)
             /\ IF implicit
                THEN payload(i) \subseteq extent(i) \ {HDRP(blocks[i]), FTRP(heap.mem, blocks[i])}
                ELSE heap.mem[Naive!SIZE_PTR(blocks[i])] = block_sizes[i]
<1>1. blocks \in Blocks /\ block_sizes \in BlockSizes /\ Good(heap, blocks, block_sizes)
  BY DEF Inv
<1>2. held = Users(block_sizes)
  BY DEF holds, Users
<1>3. \A i \in held : blocks[i] \in Int /\ w(i) \in Nat /\ w(i) >= 1
  BY <1>1, <1>2, Placed
<1>4. CASE implicit
  <2>1. PICK B, S, A : ImplicitGood(heap, blocks, block_sizes, B, S, A)
    BY <1>1, <1>4 DEF Good
  <2>2. /\ \A i \in held : blocks[i] \in B /\ S[blocks[i]] >= w(i) + 2
        /\ \A i, j \in held : i # j => blocks[i] # blocks[j]
        /\ Layout(top, B, S) /\ Tagged(m, top, B, S, A)
    BY <1>2, <2>1 DEF ImplicitGood, Heap, HeapBut, Held
  <2>3. /\ \A p \in B : /\ p \in Int /\ p >= first /\ p % 2 = 0 /\ p + S[p] <= top
        /\ \A p, q \in B : p < q => p + S[p] <= q
    BY <2>2 DEF Layout
  <2>4. top \in Int /\ \A p \in B : S[p] \in Int
    BY <2>2, LayoutFacts
  <2>5. \A p \in B : FTRP(m, p) = p + S[p] - 2
    BY <1>1, <2>2, Reads, MemoryFact
  <2>6. ASSUME NEW i \in held
        PROVE  /\ extent(i) = (blocks[i] - 1) .. (blocks[i] + S[blocks[i]] - 2)
               /\ payload(i) = blocks[i] .. (blocks[i] + w(i) - 1)
    BY <1>4, <2>2, <2>5 DEF extent, payload
  <2> HIDE DEF held, w, m, top
  <2>7. ASSUME NEW i \in held PROVE Fine(i)
    <3> DEFINE p == blocks[i]
               z == S[blocks[i]]
    <3>1. /\ p \in Int /\ p >= first /\ p % 2 = 0 /\ p + z <= top
          /\ z \in Int /\ z >= w(i) + 2 /\ w(i) \in Nat
      BY <1>3, <2>2, <2>3, <2>4
    <3>2. /\ extent(i) = (p - 1) .. (p + z - 2) /\ payload(i) = p .. (p + w(i) - 1)
          /\ FTRP(m, p) = p + z - 2
      BY <2>2, <2>5, <2>6
    <3> HIDE DEF p, z
    <3>3. (p - 1) .. (p + z - 2) \subseteq HeapBase .. (top - 1)
      BY <3>1, <2>4, Defs
    <3>4. p .. (p + w(i) - 1) \subseteq ((p - 1) .. (p + z - 2)) \ {p - 1, p + z - 2}
      BY <3>1
    <3>5. /\ p % DSIZE = 0 /\ extent(i) \subseteq HeapBase .. (top - 1)
          /\ payload(i) \subseteq extent(i) \ {HDRP(p), FTRP(m, p)}
      BY <3>1, <3>2, <3>3, <3>4
    <3> QED BY <1>4, <3>5 DEF p, m, top
  <2>8. ASSUME NEW i \in held, NEW j \in held, i # j
        PROVE  extent(i) \intersect extent(j) = {}
    <3> DEFINE p == blocks[i]
               q == blocks[j]
               y == S[blocks[i]]
               z == S[blocks[j]]
    <3>1. /\ p \in Int /\ q \in Int /\ y \in Int /\ z \in Int /\ p # q
          /\ (p < q => p + y <= q) /\ (q < p => q + z <= p)
      BY <2>2, <2>3, <2>4, <2>8
    <3>2. extent(i) = (p - 1) .. (p + y - 2) /\ extent(j) = (q - 1) .. (q + z - 2)
      BY <2>6
    <3> HIDE DEF p, q, y, z
    <3>3. ((p - 1) .. (p + y - 2)) \intersect ((q - 1) .. (q + z - 2)) = {}
      BY <3>1
    <3> QED BY <3>2, <3>3
  <2> QED BY <2>7, <2>8 DEF HandedOutOnce, held
<1>5. CASE ~implicit
  <2>1. NaiveGood(heap, blocks, block_sizes)
    BY <1>1, <1>5 DEF Good
  <2>2. /\ \A i \in held : /\ blocks[i] % 2 = 0 /\ HeapBase <= blocks[i] - 2
                          /\ blocks[i] + w(i) <= top /\ m[blocks[i] - 2] = block_sizes[i]
        /\ \A i, j \in held : i # j => \/ blocks[i] + w(i) <= blocks[j] - 2
                                       \/ blocks[j] + w(j) <= blocks[i] - 2
        /\ top \in Int
    BY <1>1, <1>2, <2>1, NaiveFacts DEF NaiveGood
  <2>3. \A p \in Int : Naive!SIZE_PTR(p) = p - 2
    BY DEF Naive!SIZE_PTR, Naive!SIZE_T_SIZE, Naive!ALIGN
  <2>4. ASSUME NEW i \in held
        PROVE  extent(i) = (blocks[i] - 2) .. (blocks[i] + w(i) - 1)
    BY <1>3, <1>5, <2>3 DEF extent
  <2> HIDE DEF held, w, m, top
  <2>5. ASSUME NEW i \in held PROVE Fine(i)
    <3> DEFINE p == blocks[i]
    <3>1. /\ p \in Int /\ w(i) \in Nat /\ p % 2 = 0 /\ HeapBase <= p - 2 /\ p + w(i) <= top
          /\ extent(i) = (p - 2) .. (p + w(i) - 1)
          /\ m[Naive!SIZE_PTR(p)] = block_sizes[i]
      BY <1>3, <2>2, <2>3, <2>4
    <3> HIDE DEF p
    <3>2. p % DSIZE = 0 /\ extent(i) \subseteq HeapBase .. (top - 1)
      BY <3>1, <2>2, Defs
    <3> QED BY <1>5, <3>1, <3>2 DEF p, m, top
  <2>6. ASSUME NEW i \in held, NEW j \in held, i # j
        PROVE  extent(i) \intersect extent(j) = {}
    <3> DEFINE p == blocks[i]
               q == blocks[j]
    <3>1. /\ p \in Int /\ q \in Int /\ w(i) \in Nat /\ w(j) \in Nat
          /\ p + w(i) <= q - 2 \/ q + w(j) <= p - 2
          /\ extent(i) = (p - 2) .. (p + w(i) - 1) /\ extent(j) = (q - 2) .. (q + w(j) - 1)
      BY <1>3, <2>2, <2>4, <2>6
    <3> HIDE DEF p, q
    <3> QED BY <3>1
  <2> QED BY <2>5, <2>6 DEF HandedOutOnce, held
<1> QED BY <1>4, <1>5

LEMMA InvSound ==
  ASSUME Inv
  PROVE  Sound
<1> DEFINE m == heap.mem
           top == heap.brk
<1>1. /\ blocks \in Blocks /\ block_sizes \in BlockSizes /\ Good(heap, blocks, block_sizes)
      /\ m \in Memory
  BY MemoryFact DEF Inv
<1>2. \A i \in Index : holds(i) <=> i \in Users(block_sizes)
  BY DEF holds, Users
<1>3. \A i \in Index : holds(i) => blocks[i] \in Addr
  <2>1. \A i \in Users(block_sizes) :
              /\ blocks[i] \in Int /\ HeapBase <= blocks[i]
              /\ payload_words(block_sizes[i]) \in Nat /\ payload_words(block_sizes[i]) >= 1
              /\ blocks[i] + payload_words(block_sizes[i]) <= HeapBase + MAX_HEAP
    BY <1>1, Placed
  <2>2. ASSUME NEW p \in Int, NEW w \in Nat, w >= 1, HeapBase <= p, p + w <= HeapBase + MAX_HEAP
        PROVE  p \in Addr
    BY <2>2, Defs DEF Addr
  <2> QED BY <1>2, <2>1, <2>2
<1>4. CASE implicit
  <2>1. PICK B, S, A : ImplicitGood(heap, blocks, block_sizes, B, S, A)
    BY <1>1, <1>4 DEF Good
  <2>2. /\ Heap(heap, B, S, A) /\ Layout(top, B, S) /\ Tagged(m, top, B, S, A)
        /\ \A p, q \in B : A[p] = 0 /\ A[q] = 0 => p + S[p] # q
        /\ NextFit => heap.rover \in B \union {top}
        /\ Held(B, A) = {blocks[i] : i \in Users(block_sizes)}
    BY <2>1 DEF ImplicitGood, Heap, HeapBut
  <2>3. heap_blocks = B \union {top}
    BY <2>2, HeapBlocks DEF heap_blocks
  <2>4. top \in Int /\ top > first + 1 /\ top \notin B
    BY <2>2, LayoutFacts
  <2>5. heap_blocks \ {top} = B
    BY <2>3, <2>4
  <2>6. /\ first \in B /\ S[first] = 2 /\ A[first] = 1 /\ m[top - 1] = 1
        /\ top <= HeapBase + MAX_HEAP
        /\ \A b \in B : /\ b \in Int /\ b % 2 = 0 /\ S[b] \in Nat /\ A[b] \in {0, 1}
                        /\ m[b - 1] = S[b] + A[b] /\ m[b + S[b] - 2] = S[b] + A[b]
                        /\ b + S[b] \in B \union {top}
    BY <2>2 DEF Layout, Tagged
  <2>7. \A b \in B : /\ GET_ALLOC(m, b - 1) = A[b]
                     /\ NEXT_BLKP(m, b) = b + S[b] /\ FTRP(m, b) = b + S[b] - 2
    BY <2>2, Reads
  <2> HIDE DEF m, top
  <2>8. TypeOK
    <3>1. top \in HeapBase .. HeapBase + MAX_HEAP
      BY <2>4, <2>6, Defs
    <3>2. draft = "next fit" => heap.rover \in heap_blocks
      BY <2>2, <2>3 DEF NextFit
    <3> QED BY <1>1, <1>3, <3>1, <3>2 DEF TypeOK, Memory, m, top
  <2>9. m[HDRP(Implicit!heap_listp)] = PACK(DSIZE, 1)
    BY <2>6, Defs
  <2>10. top \in heap_blocks /\ m[HDRP(top)] = PACK(0, 1)
    BY <2>3, <2>6
  <2>11. \A b \in B : b % 2 = 0 /\ m[HDRP(b)] = m[FTRP(m, b)]
    BY <2>6, <2>7
  <2>12. ASSUME NEW b \in B
         PROVE  GET_ALLOC(m, HDRP(b)) = 1 \/ GET_ALLOC(m, HDRP(NEXT_BLKP(m, b))) = 1
    <3> DEFINE next == b + S[b]
    <3>1. GET_ALLOC(m, b - 1) = A[b] /\ NEXT_BLKP(m, b) = next /\ A[b] \in {0, 1}
          /\ next \in B \union {top}
      BY <2>6, <2>7
    <3>2. CASE next = top
      <4>1. GET_ALLOC(m, top - 1) = 1
        BY <2>6 DEF GET_ALLOC
      <4> QED BY <3>1, <3>2, <4>1
    <3>3. CASE next \in B
      <4>1. GET_ALLOC(m, next - 1) = A[next] /\ A[next] \in {0, 1}
        BY <3>3, <2>6, <2>7
      <4>2. ~(A[b] = 0 /\ A[next] = 0)
        BY <3>3, <2>2
      <4> HIDE DEF next
      <4> QED BY <3>1, <4>1, <4>2
    <3> QED BY <3>1, <3>2, <3>3
  <2>13. {b \in B : GET_ALLOC(m, HDRP(b)) = 1}
            = {blocks[i] : i \in {j \in Index : holds(j)}} \union {Implicit!heap_listp}
    <3>1. {j \in Index : holds(j)} = Users(block_sizes)
      BY <1>2 DEF Users
    <3>2. {b \in B : GET_ALLOC(m, HDRP(b)) = 1} = {b \in B : A[b] = 1}
      BY <2>7
    <3>3. {b \in B : A[b] = 1} = Held(B, A) \union {first}
      BY <2>6 DEF Held
    <3>4. Implicit!heap_listp = first
      BY Defs
    <3> QED BY <2>2, <3>1, <3>2, <3>3, <3>4
  <2> QED BY <2>5, <2>8, <2>9, <2>10, <2>11, <2>12, <2>13,
            InvHandedOutOnce DEF Sound, m, top
<1>5. CASE ~implicit
  <2>1. HeapBase <= top /\ top <= HeapBase + MAX_HEAP /\ top \in Int
    BY <1>1, <1>5 DEF Good, NaiveGood, Records
  <2>2. top \in HeapBase .. HeapBase + MAX_HEAP
    BY <2>1, Defs
  <2>3. draft # "next fit"
    BY <1>5 DEF implicit
  <2> QED BY <1>1, <1>3, <1>5, <2>2, <2>3, InvHandedOutOnce DEF Sound, TypeOK, Memory
<1> QED BY <1>4, <1>5

(* In every heap, for every trace, sizes and payloads, the blocks the      *)
(* client holds are aligned, large enough and have no word in common, and  *)
(* mm-naive.c's have their size in front; and in mm-implicit.c             *)
(* mm_checkheap (mm-implicit.c:190-211) never has anything to report, no   *)
(* two neighbours are free, the allocated blocks are exactly the client's, *)
(* and the rover of NEXT_FIT stays at a block through every coalescing.    *)
THEOREM DraftsSound == Spec => []Sound
<1>1. Inv => Sound
  BY InvSound
<1> QED BY <1>1, Invariant, PTL

LEMMA InvSearchComplete ==
  ASSUME Inv
  PROVE  SearchComplete
<1> SUFFICES ASSUME draft = "next fit", NEW size \in Sizes \ {0}
             PROVE  LET asize == Implicit!adjust(size)
                    IN  Implicit!find_fit(heap, asize).bp = NULL <=>
                          \A b \in heap_blocks : ~Implicit!fits(heap.mem, b, asize)
  BY DEF SearchComplete
<1> DEFINE asize == Implicit!adjust(size)
           fit == Implicit!find_fit(heap, asize)
<1>1. implicit
  BY DEF implicit
<1>2. PICK B, S, A : Heap(heap, B, S, A)
  BY <1>1 DEF Inv, Good, ImplicitGood
<1>3. heap_blocks = B \union {heap.brk}
  BY <1>2, HeapBlocks DEF heap_blocks
<1> HIDE DEF asize
<1>4. fit.bp = NULL <=> \A b \in B \union {heap.brk} : ~Implicit!fits(heap.mem, b, asize)
  BY <1>2, FindFitGood
<1> QED BY <1>3, <1>4 DEF asize

(* The next fit search of mm-implicit.c:270-298 gives up only when no      *)
(* block fits, wherever the rover is, for every request.                   *)
THEOREM DraftsSearchComplete == Spec => []SearchComplete
<1>1. Inv => SearchComplete
  BY InvSearchComplete
<1> QED BY <1>1, Invariant, PTL

----------------------------------------------------------------------------
(* The packages implement Allocator.                                       *)

Regions == [i \in Index |-> region(i)]

(* The region that i has in a heap h with blocks bl and sizes sz.          *)
At(h, bl, sz, i) ==
  IF sz[i] > 0
  THEN [lo |-> bl[i], words |-> payload_words(sz[i]),
        data |-> [k \in 0 .. (payload_words(sz[i]) - 1) |-> h.mem[bl[i] + k]]]
  ELSE [lo |-> 0, words |-> 0, data |-> <<>>]

LEMMA RegionAt ==
  ASSUME NEW i \in Index
  PROVE  /\ Regions[i] = At(heap, blocks, block_sizes, i)
         /\ Regions'[i] = At(heap', blocks', block_sizes', i)
BY DEF Regions, region, holds, At, payload_words

(* r is the region that i has in h.                                        *)
RegionIs(r, h, bl, sz, i) ==
  /\ sz[i] \in Nat
  /\ sz[i] = 0 => r = Package!Nothing
  /\ sz[i] > 0 => /\ r.lo = bl[i] /\ r.words = payload_words(sz[i])
                  /\ r.words > 0 /\ r # Package!Nothing
                  /\ DOMAIN r.data = 0 .. (r.words - 1)
                  /\ \A k \in 0 .. (r.words - 1) : r.data[k] = h.mem[bl[i] + k]

LEMMA AtFact ==
  ASSUME NEW h, NEW bl \in Blocks, NEW sz \in BlockSizes, NEW i \in Index
  PROVE  RegionIs(At(h, bl, sz, i), h, bl, sz, i)
<1> DEFINE w == payload_words(sz[i])
           r == At(h, bl, sz, i)
<1>1. sz[i] \in Nat
  BY DEF BlockSizes
<1>2. CASE sz[i] = 0
  BY <1>1, <1>2 DEF At, Package!Nothing, RegionIs
<1>3. CASE sz[i] > 0
  <2>1. w \in Nat /\ w >= 1
    BY <1>1, <1>3, WordsFact
  <2>2. r = [lo |-> bl[i], words |-> w, data |-> [k \in 0 .. (w - 1) |-> h.mem[bl[i] + k]]]
    BY <1>3 DEF At
  <2> HIDE DEF w
  <2>3. /\ r.lo = bl[i] /\ r.words = w
        /\ r.data = [k \in 0 .. (w - 1) |-> h.mem[bl[i] + k]]
    BY <2>2
  <2>4. r # Package!Nothing
    <3>1. Package!Nothing.words = 0
      BY DEF Package!Nothing
    <3> QED BY <2>1, <2>3, <3>1
  <2> HIDE DEF r
  <2>5. RegionIs(r, h, bl, sz, i)
    BY <1>1, <1>3, <2>1, <2>3, <2>4 DEF w, RegionIs
  <2> QED BY <2>5 DEF r
<1> QED BY <1>1, <1>2, <1>3

LEMMA RegionNow ==
  ASSUME Inv, NEW i \in Index
  PROVE  RegionIs(Regions[i], heap, blocks, block_sizes, i)
BY AtFact, RegionAt DEF Inv

LEMMA RegionNext ==
  ASSUME NEW i \in Index, blocks' \in Blocks, block_sizes' \in BlockSizes
  PROVE  RegionIs(Regions'[i], heap', blocks', block_sizes', i)
BY AtFact, RegionAt

(* What SameBut keeps of another id's payload is its region.               *)
LEMMA RegionKept ==
  ASSUME Inv, NEW i \in Index, Changed(i), NEW j \in Index, j # i
  PROVE  Regions'[j] = Regions[j]
<1>1. blocks'[j] = blocks[j] /\ block_sizes'[j] = block_sizes[j] /\ block_sizes[j] \in Nat
  BY DEF Changed, Inv, BlockSizes
<1>2. CASE block_sizes[j] > 0
  <2> DEFINE w == payload_words(block_sizes[j])
  <2>1. \A k \in 0 .. (w - 1) : heap'.mem[blocks[j] + k] = heap.mem[blocks[j] + k]
    BY <1>2 DEF Changed, SameBut, Users
  <2> HIDE DEF w
  <2>2. [k \in 0 .. (w - 1) |-> heap'.mem[blocks[j] + k]]
          = [k \in 0 .. (w - 1) |-> heap.mem[blocks[j] + k]]
    BY <2>1
  <2>3. At(heap', blocks', block_sizes', j) = At(heap, blocks, block_sizes, j)
    BY <1>1, <2>2 DEF At, w
  <2> QED BY <2>3, RegionAt
<1>3. CASE ~(block_sizes[j] > 0)
  BY <1>1, <1>3, RegionAt DEF At
<1> QED BY <1>2, <1>3

LEMMA RegionsSame ==
  ASSUME UNCHANGED <<blocks, block_sizes>>, heap'.mem = heap.mem
  PROVE  UNCHANGED Regions
BY DEF Regions, region, holds, payload_words

PlacedIn(bl, sz) ==
  /\ \A i \in Users(sz) :
       /\ bl[i] \in Int /\ bl[i] % 2 = 0 /\ HeapBase <= bl[i]
       /\ payload_words(sz[i]) \in Nat /\ payload_words(sz[i]) >= 1
       /\ bl[i] + payload_words(sz[i]) <= HeapBase + MAX_HEAP
  /\ \A i, j \in Users(sz) : i # j =>
       \/ bl[i] + payload_words(sz[i]) <= bl[j]
       \/ bl[j] + payload_words(sz[j]) <= bl[i]

LEMMA PlacedNow == Inv => PlacedIn(blocks, block_sizes)
BY Placed DEF Inv, PlacedIn

LEMMA PlacedThen == (Inv => PlacedIn(blocks, block_sizes))'
BY PlacedNow, PTL

LEMMA PlacedNext == Inv' => PlacedIn(blocks', block_sizes')
BY PlacedThen DEF PlacedIn, Users, payload_words

(* i alone has another region, one that is well placed if it holds any.    *)
LEMMA Grants ==
  ASSUME Inv, Inv', NEW i \in Index, Changed(i)
  PROVE  /\ Regions' = [Regions EXCEPT ![i] = Regions'[i]]
         /\ block_sizes'[i] = 0 => Regions' = [Regions EXCEPT ![i] = Package!Nothing]
         /\ block_sizes'[i] > 0 => Package!WellPlaced(i, Regions'[i])
<1>1. /\ blocks' \in Blocks /\ block_sizes' \in BlockSizes
      /\ blocks \in Blocks /\ block_sizes \in BlockSizes
  BY DEF Inv, Changed
<1>2. Regions' = [Regions EXCEPT ![i] = Regions'[i]]
  <2>1. \A j \in Index : j # i => Regions'[j] = Regions[j]
    BY RegionKept
  <2>2. DOMAIN Regions = Index /\ DOMAIN Regions' = Index
        /\ Regions = [j \in Index |-> Regions[j]] /\ Regions' = [j \in Index |-> Regions'[j]]
    BY DEF Regions
  <2> QED BY <2>1, <2>2
<1>3. ASSUME block_sizes'[i] = 0
      PROVE  Regions' = [Regions EXCEPT ![i] = Package!Nothing]
  <2>1. Regions'[i] = Package!Nothing
    BY <1>1, <1>3, RegionNext DEF RegionIs
  <2> QED BY <1>2, <2>1
<1>4. ASSUME block_sizes'[i] > 0
      PROVE  Package!WellPlaced(i, Regions'[i])
  <2> DEFINE r == Regions'[i]
             w(j) == payload_words(block_sizes'[j])
  <2>1. /\ r.lo = blocks'[i] /\ r.words = w(i) /\ r.words > 0
        /\ DOMAIN r.data = 0 .. (r.words - 1)
    BY <1>1, <1>4, RegionNext DEF RegionIs
  <2>2. PlacedIn(blocks', block_sizes')
    BY PlacedNext
  <2>3. \A j \in Users(block_sizes') :
          /\ blocks'[j] \in Int /\ blocks'[j] % 2 = 0 /\ HeapBase <= blocks'[j]
          /\ w(j) \in Nat /\ w(j) >= 1 /\ blocks'[j] + w(j) <= HeapBase + MAX_HEAP
    BY <2>2 DEF PlacedIn
  <2>4. i \in Users(block_sizes')
    BY <1>4 DEF Users
  <2>5. ASSUME NEW j \in Package!Others(i)
        PROVE  /\ j \in Index /\ j # i /\ j \in Users(block_sizes')
               /\ Regions[j].lo = blocks'[j] /\ Regions[j].words = w(j)
    <3>1. j \in Index /\ j # i /\ Regions[j] # Package!Nothing
      BY DEF Package!Others, Package!Holds, Regions
    <3>2. Regions'[j] = Regions[j] /\ block_sizes'[j] \in Nat
      BY <1>1, <3>1, RegionKept DEF BlockSizes
    <3>3. block_sizes'[j] # 0
      BY <1>1, <3>1, <3>2, RegionNext DEF RegionIs
    <3>4. block_sizes'[j] > 0
      BY <3>2, <3>3
    <3>5. Regions'[j].lo = blocks'[j] /\ Regions'[j].words = w(j)
      BY <1>1, <3>1, <3>4, RegionNext DEF RegionIs
    <3> QED BY <3>1, <3>2, <3>4, <3>5 DEF Users
  <2> HIDE DEF r, w
  <2>6. ASSUME NEW j \in Package!Others(i)
        PROVE  Package!Extent(r) \intersect Package!Extent(Regions[j]) = {}
    <3> DEFINE p == blocks'[i]
               q == blocks'[j]
    <3>1. p \in Int /\ q \in Int /\ w(i) \in Nat /\ w(j) \in Nat
      BY <2>3, <2>4, <2>5
    <3>2. p + w(i) <= q \/ q + w(j) <= p
      BY <2>2, <2>4, <2>5 DEF PlacedIn, w
    <3>3. /\ Package!Extent(r) = p .. (p + w(i) - 1)
          /\ Package!Extent(Regions[j]) = q .. (q + w(j) - 1)
      BY <2>1, <2>5 DEF Package!Extent
    <3> HIDE DEF p, q
    <3> QED BY <3>1, <3>2, <3>3
  <2>7. r.lo % 2 = 0 /\ HeapBase <= r.lo /\ r.lo + r.words - 1 <= HeapBase + MAX_HEAP - 1
    <3> DEFINE p == blocks'[i]
    <3>1. p \in Int /\ p % 2 = 0 /\ HeapBase <= p /\ w(i) \in Nat /\ p + w(i) <= HeapBase + MAX_HEAP
          /\ r.lo = p /\ r.words = w(i)
      BY <2>1, <2>3, <2>4
    <3> HIDE DEF p
    <3> QED BY <3>1, Defs
  <2>8. \A j \in Package!Others(i) : [k \in Index |-> region(k)][j] = Regions[j]
    BY DEF Regions
  <2>9. Package!WellPlaced(i, r)
    BY <2>1, <2>6, <2>7, <2>8 DEF Package!WellPlaced
  <2> QED BY <2>9 DEF r
<1> QED BY <1>2, <1>3, <1>4

LEMMA StepPromised ==
  ASSUME Inv, [Next]_vars
  PROVE  [Package!Next]_Regions
<1>1. CASE UNCHANGED vars
  <2>1. UNCHANGED Regions
    BY <1>1, RegionsSame DEF vars
  <2> QED BY <2>1
<1>2. CASE Next
  <2> USE <1>2
  <2>1. UNCHANGED draft /\ Inv'
    BY StepGood DEF Next
  <2>2. \A i \in Index : Package!Holds(i) <=> block_sizes[i] > 0
    <3> SUFFICES ASSUME NEW i \in Index PROVE Package!Holds(i) <=> block_sizes[i] > 0
      OBVIOUS
    <3>1. blocks \in Blocks /\ block_sizes \in BlockSizes /\ block_sizes[i] \in Nat
      BY DEF Inv, BlockSizes
    <3>2. Package!Holds(i) <=> Regions[i] # Package!Nothing
      BY DEF Package!Holds, Regions
    <3>3. RegionIs(Regions[i], heap, blocks, block_sizes, i)
      BY RegionNow
    <3> QED BY <3>1, <3>2, <3>3 DEF RegionIs
  <2>3. CASE NewTrace
    <3>1. ASSUME NEW i \in Index PROVE region(i)' = Package!Nothing
      BY <2>3 DEF NewTrace, Nobody, region, holds, Package!Nothing
    <3>2. Package!Reset
      BY <3>1 DEF Package!Reset
    <3> QED BY <3>2 DEF Package!Next, Package!Promise
  <2>4. ASSUME NEW i \in Index, NEW size \in Sizes, Malloc(i, size)
        PROVE  [Package!Next]_Regions
    <3>1. /\ block_sizes[i] = 0
          /\ \/ UNCHANGED <<blocks, block_sizes>> /\ heap'.mem = heap.mem
             \/ Changed(i) /\ block_sizes'[i] > 0
      BY <2>1, <2>4, MallocStep
    <3>2. CASE UNCHANGED <<blocks, block_sizes>> /\ heap'.mem = heap.mem
      BY <3>2, RegionsSame
    <3>3. CASE Changed(i) /\ block_sizes'[i] > 0
      <4>1. /\ Regions' = [Regions EXCEPT ![i] = Regions'[i]]
            /\ Package!WellPlaced(i, Regions'[i])
        BY <2>1, <3>3, Grants
      <4>2. Package!Malloc(i)
        BY <2>2, <3>1, <4>1 DEF Package!Malloc, Package!OnlyChanges, Regions
      <4> QED BY <4>2 DEF Package!Next, Package!Promise
    <3> QED BY <3>1, <3>2, <3>3
  <2>5. ASSUME NEW i \in Index, Changed(i), block_sizes[i] > 0, block_sizes'[i] = 0
        PROVE  Package!Next
    <3>1. Regions' = [Regions EXCEPT ![i] = Package!Nothing]
      BY <2>1, <2>5, Grants
    <3>2. Package!Free(i)
      BY <2>2, <2>5, <3>1 DEF Package!Free, Regions
    <3> QED BY <3>2 DEF Package!Next, Package!Promise
  <2>6. ASSUME NEW i \in Index, NEW size \in Sizes, Realloc(i, size)
        PROVE  [Package!Next]_Regions
    <3>1. /\ block_sizes[i] > 0
          /\ \/ UNCHANGED <<blocks, block_sizes>> /\ heap'.mem = heap.mem
             \/ Changed(i) /\ block_sizes'[i] = 0
             \/ /\ Changed(i) /\ block_sizes'[i] > 0
                /\ Copied(heap, blocks[i], payload_words(block_sizes[i]),
                          heap', blocks'[i], block_sizes'[i])
      BY <2>1, <2>6, ReallocStep
    <3>2. CASE UNCHANGED <<blocks, block_sizes>> /\ heap'.mem = heap.mem
      BY <3>2, RegionsSame
    <3>3. CASE Changed(i) /\ block_sizes'[i] = 0
      BY <2>5, <3>1, <3>3
    <3>4. CASE /\ Changed(i) /\ block_sizes'[i] > 0
               /\ Copied(heap, blocks[i], payload_words(block_sizes[i]),
                         heap', blocks'[i], block_sizes'[i])
      <4>1. /\ Regions' = [Regions EXCEPT ![i] = Regions'[i]]
            /\ Package!WellPlaced(i, Regions'[i])
        BY <2>1, <3>4, Grants
      <4> DEFINE w == payload_words(block_sizes[i])
                 v == payload_words(block_sizes'[i])
      <4>2. /\ blocks \in Blocks /\ block_sizes \in BlockSizes
            /\ blocks' \in Blocks /\ block_sizes' \in BlockSizes
        BY <3>4 DEF Inv, Changed
      <4>3. /\ DOMAIN Regions[i].data = 0 .. (w - 1)
            /\ \A k \in 0 .. (w - 1) : Regions[i].data[k] = heap.mem[blocks[i] + k]
        BY <3>1, RegionNow DEF RegionIs
      <4>4. /\ DOMAIN Regions'[i].data = 0 .. (v - 1)
            /\ \A k \in 0 .. (v - 1) : Regions'[i].data[k] = heap'.mem[blocks'[i] + k]
        BY <3>4, <4>2, RegionNext DEF RegionIs
      <4>5. w \in Nat /\ v \in Nat
        <5>1. block_sizes[i] \in Nat /\ block_sizes'[i] \in Nat
          BY <4>2 DEF BlockSizes
        <5> QED BY <3>1, <3>4, <5>1, WordsFact
      <4>6. \A k \in 0 .. (v - 1) : k < w => heap'.mem[blocks'[i] + k] = heap.mem[blocks[i] + k]
        BY <3>4 DEF Copied
      <4> HIDE DEF w, v
      <4>7. \A k \in (0 .. (w - 1)) \intersect (0 .. (v - 1)) : Regions'[i].data[k] = Regions[i].data[k]
        BY <4>3, <4>4, <4>5, <4>6
      <4>8. \A k \in DOMAIN Regions[i].data \intersect DOMAIN Regions'[i].data :
               Regions'[i].data[k] = Regions[i].data[k]
        BY <4>3, <4>4, <4>7
      <4>9. Package!Realloc(i)
        BY <2>2, <3>1, <4>1, <4>8 DEF Package!Realloc, Package!OnlyChanges, Regions
      <4> QED BY <4>9 DEF Package!Next, Package!Promise
    <3> QED BY <3>1, <3>2, <3>3, <3>4
  <2>7. ASSUME NEW i \in Index, Free(i)
        PROVE  Package!Next
    <3>1. Changed(i) /\ block_sizes[i] > 0 /\ block_sizes'[i] = 0
      BY <2>1, <2>7, FreeStep
    <3> QED BY <2>5, <3>1
  <2> QED BY <2>3, <2>4, <2>6, <2>7 DEF Next
<1> QED BY <1>1, <1>2

(* mm-implicit.c with and without NEXT_FIT, and mm-naive.c, implement      *)
(* Allocator: whatever the calls, a payload is aligned, in the heap and    *)
(* apart from the others, realloc keeps the common prefix and a failed one *)
(* everything, and nothing but its owner's call changes a payload.         *)
THEOREM DraftsAreAllocators == Spec => AllocatorSpec
<1>1. Init => Package!Init
  <2> SUFFICES ASSUME Init PROVE Package!Init
    OBVIOUS
  <2>1. ASSUME NEW i \in Index PROVE region(i) = Package!Nothing
    <3>1. block_sizes[i] = 0
      BY DEF Init, Nobody
    <3>2. ~holds(i)
      BY <3>1 DEF holds
    <3> QED BY <3>2 DEF region, Package!Nothing
  <2> QED BY <2>1 DEF Package!Init
<1>2. Inv /\ [Next]_vars => [Package!Next]_Regions
  BY StepPromised
<1> QED BY <1>1, <1>2, Invariant, PTL DEF Spec, AllocatorSpec, Package!Spec, Regions
=============================================================================
