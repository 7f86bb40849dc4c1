---------------------------- MODULE MmHeapProof ----------------------------
(***************************************************************************)
(* Proofs about the routines of mm.c: each takes a heap (HeapOK, with some *)
(* set of block pointers) to a heap, and leaves the blocks the client      *)
(* holds where they are, with the size and the contents they had.          *)
(*                                                                         *)
(* LIFO_INSERT and REMOVE_BLOCK keep the links of the free list well       *)
(* formed (ListOK), for every memory and every set of free blocks.  A heap *)
(* is taken apart into its block pointers B, their sizes S and their       *)
(* allocated bits A (Layout), and the tags that store S and A in memory    *)
(* (Tagged).  The lemmas say what the macros read of such a heap, and that *)
(* merging neighbours, splitting a block and growing the heap give a       *)
(* layout again; then what that means for each routine a call is made of:  *)
(* mm_init, place, extend_heap, mm_free, and the writes of a client into a *)
(* payload.  Then come the two walks: upwards from the prologue, as        *)
(* mm_checkheap does, and along the free list, as find_fit does.           *)
(*                                                                         *)
(* Last, what a routine does depends on the root of the free list, the     *)
(* tags and the links alone, never on payloads or on what an earlier run   *)
(* left in the memory: two heaps that are Alike stay Alike under every     *)
(* routine, and mm_init makes any two memories Alike.                      *)
(***************************************************************************)
EXTENDS MmHeap, WellFoundedInduction, FiniteSetTheorems, TLAPS

Memory == [Addr -> Word]

(* The link words of the blocks of F are distinct words above the prologue.*)
Spread(F) ==
  /\ \A p \in F : p \in Int /\ p >= heap_listp /\ p + 1 < HeapBase + MAX_HEAP
  /\ \A p, q \in F : p # q => p + 1 < q \/ q + 1 < p

IsLinkWord(F, a) == a = free_listp \/ \E q \in F : a = q \/ a = q + 1

----------------------------------------------------------------------------
(* Words, tags and sizes.                                                  *)

(* The arithmetic of the constants: the root of the free list, the         *)
(* prologue, and a heap that mm_init fits in.                              *)
LEMMA Defs ==
  /\ HeapBase \in Nat /\ HeapBase > 0 /\ MAX_HEAP \in Nat /\ WordMod \in Nat
  /\ HeapBase + MAX_HEAP < WordMod
  /\ free_listp = HeapBase + 1 /\ heap_listp = HeapBase + 4
  /\ CHUNKSIZE \in Nat /\ CHUNKSIZE >= 4 /\ 7 + CHUNKSIZE <= MAX_HEAP
  /\ HeapBase % 2 = 0
BY MemAssumption, ChunkAssumption DEF free_listp, heap_listp, WSIZE, DSIZE

(* PUT writes one word of the memory and leaves the others alone.          *)
LEMMA PutFact ==
  ASSUME NEW m \in Memory, NEW p \in Addr, NEW v \in Word
  PROVE  /\ PUT(m, p, v) \in Memory
         /\ PUT(m, p, v)[p] = v
         /\ \A a \in Addr : a # p => PUT(m, p, v)[a] = m[a]
BY DEF PUT, Memory

(* LIFO_INSERT adds its block to the list and writes only link words.      *)
LEMMA InsertLinks ==
  ASSUME NEW m \in Memory, NEW F, NEW b, b \notin F,
         Spread(F \union {b}), ListOK(m, F), m[b] = NULL
  PROVE  /\ LIFO_INSERT(m, b) \in Memory
         /\ ListOK(LIFO_INSERT(m, b), F \union {b})
         /\ \A a \in Addr : ~IsLinkWord(F \union {b}, a)
              => LIFO_INSERT(m, b)[a] = m[a]
<1> USE DEF ListOK
<1> DEFINE root == m[free_listp]
<1> DEFINE m1 == IF root # NULL THEN PUT(m, root, b) ELSE m
<1> DEFINE m2 == PUT(m1, b + 1, root)
<1> DEFINE m3 == PUT(m2, free_listp, b)
<1>1. /\ b \in Int /\ b >= HeapBase + 4 /\ b \in Addr /\ b + 1 \in Addr /\ b \in Word
      /\ free_listp \in Addr /\ free_listp + 1 \in Addr
  BY Defs DEF Spread, Addr, Word
<1>2. /\ GET_PT(m, free_listp) = root
      /\ root \in Word /\ (root # NULL => root \in F /\ root \in Addr)
  <2>1. m[free_listp + 1] = 0 /\ root \in F \union {NULL}
    BY DEF Linked, GET, WSIZE
  <2>2. root \in Word /\ root \in Int
    BY <1>1, Defs DEF Memory, Word
  <2>3. WordMod * m[free_listp + 1] = 0
    BY <2>1, Defs
  <2>4. GET_PT(m, free_listp) = root
    BY <2>2, <2>3 DEF GET_PT, WSIZE
  <2>5. root # NULL => root \in F /\ root \in Addr
    BY <2>1, Defs DEF Spread, Addr
  <2> QED BY <2>2, <2>4, <2>5
<1>3. LIFO_INSERT(m, b) = m3
  BY <1>2 DEF LIFO_INSERT, PREV_P, NEXT_P, WSIZE
<1>4. m1 \in Memory /\ \A a \in Addr : m1[a] = IF root # NULL /\ a = root THEN b ELSE m[a]
  BY <1>1, <1>2 DEF Memory, PUT
<1> HIDE DEF m1
<1>5. m2 \in Memory /\ \A a \in Addr : m2[a] = IF a = b + 1 THEN root ELSE m1[a]
  BY <1>1, <1>2, <1>4 DEF Memory, PUT
<1>6. m3 \in Memory /\ \A a \in Addr : m3[a] = IF a = free_listp THEN b ELSE m2[a]
  BY <1>1, <1>5 DEF Memory, PUT
<1> HIDE DEF m2, m3
<1>7. \A a \in Addr : m3[a] = IF a = free_listp THEN b
                              ELSE IF a = b + 1 THEN root
                              ELSE IF root # NULL /\ a = root THEN b ELSE m[a]
  BY <1>4, <1>5, <1>6
<1>8. \A a \in Addr : ~IsLinkWord(F \union {b}, a) => m3[a] = m[a]
  BY <1>7, <1>2 DEF IsLinkWord
<1>9. Linked(m3, F \union {b})
  <2> USE DEF GET, NEXT_P, PREV_P, WSIZE, NULL
  <2>1. \A p \in F : p \in Addr /\ p + 1 \in Addr /\ p > free_listp + 1 
    BY Defs DEF Spread, Addr
  <2>2. m3[free_listp + 1] = 0
    BY <1>7, <1>1, <2>1, <1>2, Defs DEF Linked
  <2>3. m3[free_listp] = b
    BY <1>7, <1>1
  <2>4. m3[b] = 0 /\ m3[b + 1] = root
    BY <1>7, <1>1, <1>2, Defs
  <2>5. \A p \in F : /\ m3[p] = IF p = root THEN b ELSE m[p]
                     /\ m3[p + 1] = m[p + 1]
    <3> SUFFICES ASSUME NEW p \in F
                 PROVE  /\ m3[p] = IF p = root THEN b ELSE m[p]
                        /\ m3[p + 1] = m[p + 1]
      OBVIOUS
    <3>1. p # free_listp /\ p # b + 1 /\ p + 1 # free_listp /\ p + 1 # b + 1
      BY <2>1, <1>1, Defs DEF Spread
    <3>2. p + 1 # root
      BY <1>2, <2>1, Defs DEF Spread
    <3> QED BY <3>1, <3>2, <2>1, <1>7, Defs
  <2>6. b # 0 /\ \A p \in F : p # 0
    BY <2>1, <1>1, Defs
  <2>7. \A p \in F : m[p] = NULL <=> root = p
    BY DEF Linked
  <2> QED BY <2>2, <2>3, <2>4, <2>5, <2>6, <2>7, <1>2 DEF Linked
<1>10. ASSUME NEW r \in [F -> Nat], Ranked(m, F, r)
       PROVE  \E s \in [F \union {b} -> Nat] : Ranked(m3, F \union {b}, s)
  <2> DEFINE s == [p \in F \union {b} |-> IF p # b THEN r[p]
                     ELSE IF root # NULL THEN r[root] + 1 ELSE 0]
  <2>1. s \in [F \union {b} -> Nat]
    BY <1>2, <1>10
  <2>2. m3[b + 1] = root /\ \A p \in F : m3[p + 1] = m[p + 1]
    BY <1>7, <1>1, <1>2, Defs DEF Spread, Addr, NULL
  <2>3. \A p \in F : m[p + 1] # NULL => m[p + 1] \in F /\ r[m[p + 1]] < r[p]
    BY <1>10 DEF Ranked, Linked, GET, NEXT_P, WSIZE
  <2>4. Ranked(m3, F \union {b}, s)
    BY <2>2, <2>3, <1>2, <1>10 DEF Ranked, GET, NEXT_P, WSIZE
  <2> QED BY <2>1, <2>4
<1> QED BY <1>3, <1>6, <1>8, <1>9, <1>10

(* REMOVE_BLOCK takes a block off the list, clears its links and writes    *)
(* only link words.                                                        *)
LEMMA RemoveLinks ==
  ASSUME NEW m \in Memory, NEW F, NEW b \in F, Spread(F), ListOK(m, F)
  PROVE  /\ REMOVE_BLOCK(m, b) \in Memory
         /\ ListOK(REMOVE_BLOCK(m, b), F \ {b})
         /\ REMOVE_BLOCK(m, b)[b] = NULL
         /\ \A a \in Addr : ~IsLinkWord(F, a) => REMOVE_BLOCK(m, b)[a] = m[a]
<1>1. PICK r \in [F -> Nat] : Ranked(m, F, r)
  BY DEF ListOK
<1>2. \A p \in F : m[p + 1] # NULL => r[m[p + 1]] < r[p] /\ r[p] \in Nat
  BY <1>1 DEF Ranked, GET, NEXT_P, WSIZE
<1> DEFINE next == m[b + 1]
<1> DEFINE prev == m[b]
<1> DEFINE from == IF prev = NULL THEN free_listp ELSE prev + 1
<1> DEFINE m1 == IF next # NULL THEN PUT(m, next, prev) ELSE m
<1> DEFINE m2 == PUT(m1, from, next)
<1> DEFINE m3 == PUT(m2, b + 1, NULL)
<1> DEFINE m4 == PUT(m3, b, NULL)
<1>3. /\ \A p \in F : /\ p \in Int /\ p \in Addr /\ p + 1 \in Addr /\ p # NULL
                      /\ p > free_listp + 1
      /\ free_listp \in Addr /\ free_listp + 1 \in Addr /\ free_listp \in Int
      /\ NULL \in Word
  BY Defs DEF Spread, Addr, NULL, Word
<1>4. /\ next \in Word /\ prev \in Word
      /\ next # NULL => next \in F \ {b} /\ m[next] = b
      /\ prev # NULL => prev \in F /\ m[prev + 1] = b
      /\ prev = NULL <=> m[free_listp] = b
  BY <1>3, <1>2 DEF ListOK, Linked, GET, Memory, NEXT_P, PREV_P, WSIZE
<1>5. /\ prev # NULL => prev # b
      /\ next # NULL => next # b /\ next # b + 1
      /\ b + 1 # b
  BY <1>3, <1>4 DEF Spread
<1>6. from = free_listp \/ (prev # NULL /\ from = prev + 1)
  OBVIOUS
<1>7. from \in Addr /\ from # b /\ from # b + 1
  BY <1>3, <1>4, <1>5, <1>6 DEF Spread
<1>8. next # NULL => next # from
  BY <1>3, <1>4, <1>5, <1>6 DEF Spread
<1>9. /\ \A p \in F : r[p] \in Nat
      /\ next # NULL => r[next] < r[b]
      /\ prev # NULL => r[b] < r[prev]
  BY <1>1, <1>2, <1>3, <1>4
<1>10. REMOVE_BLOCK(m, b) = m4
  BY DEF REMOVE_BLOCK, GET, PREV_P, NEXT_P, WSIZE
<1> HIDE DEF from
<1>11. m1 \in Memory /\ \A a \in Addr :
        m1[a] = IF next # NULL /\ a = next THEN prev ELSE m[a]
  BY <1>3, <1>4 DEF Memory, PUT
<1> HIDE DEF m1
<1>12. m2 \in Memory /\ \A a \in Addr : m2[a] = IF a = from THEN next ELSE m1[a]
  BY <1>4, <1>7, <1>11 DEF Memory, PUT
<1> HIDE DEF m2
<1>13. m3 \in Memory /\ \A a \in Addr : m3[a] = IF a = b + 1 THEN NULL ELSE m2[a]
  BY <1>3, <1>12 DEF Memory, PUT
<1> HIDE DEF m3
<1>14. m4 \in Memory /\ \A a \in Addr : m4[a] = IF a = b THEN NULL ELSE m3[a]
  BY <1>3, <1>13 DEF Memory, PUT
<1> HIDE DEF m4
<1>15. \A a \in Addr : m4[a] = IF a = b \/ a = b + 1 THEN NULL
                              ELSE IF a = from THEN next
                              ELSE IF next # NULL /\ a = next THEN prev
                              ELSE m[a]
  BY <1>11, <1>12, <1>13, <1>14
<1>16. \A a \in Addr : ~IsLinkWord(F, a) => m4[a] = m[a]
  BY <1>15, <1>6, <1>4 DEF IsLinkWord
<1>17. ASSUME NEW p \in F \ {b}
      PROVE  /\ m4[p] = IF next # NULL /\ p = next THEN prev ELSE m[p]
             /\ m4[p + 1] = IF prev # NULL /\ p = prev THEN next ELSE m[p + 1]
  <2>1. p # b /\ p # b + 1 /\ p + 1 # b /\ p # free_listp /\ p + 1 # free_listp
        /\ p + 1 # b + 1
    BY <1>3 DEF Spread
  <2>2. (prev # NULL => p # prev + 1 /\ p \in Int /\ prev \in Int)
        /\ (next # NULL => p + 1 # next)
    BY <1>3, <1>4 DEF Spread
  <2>3. p # from
    BY <2>1, <2>2, <1>6
  <2>4. p + 1 = from <=> prev # NULL /\ p = prev
    BY <2>1, <2>2, <1>6 DEF from
  <2> QED BY <2>1, <2>2, <2>3, <2>4, <1>15, <1>3
<1>18. Linked(m4, F \ {b})
  <2>1. m4[free_listp + 1] = 0
    BY <1>3, <1>4, <1>15, <1>6 DEF ListOK, Linked, GET, WSIZE
  <2>2. m4[free_listp] = IF prev = NULL THEN next ELSE m[free_listp]
    BY <1>3, <1>4, <1>8, <1>15 DEF from
  <2>4. m[free_listp] \in F \union {NULL}
    BY DEF ListOK, Linked, GET
  <2>5. \A p \in F : /\ m[p + 1] # NULL => m[p + 1] \in F \ {p} /\ m[m[p + 1]] = p
                     /\ m[p] # NULL => m[p] \in F /\ m[m[p] + 1] = p
                     /\ m[p] = NULL <=> m[free_listp] = p
    BY <1>2 DEF ListOK, Linked, GET, NEXT_P, PREV_P, WSIZE
  <2>6. m4[free_listp] \in (F \ {b}) \union {NULL}
    BY <2>2, <2>4, <1>4, <1>5
  <2>7. ASSUME NEW p \in F \ {b}
        PROVE  /\ m4[p + 1] # NULL => m4[p + 1] \in F \ {b, p} /\ m4[m4[p + 1]] = p
               /\ m4[p] # NULL => m4[p] \in F \ {b} /\ m4[m4[p] + 1] = p
               /\ m4[p] = NULL <=> m4[free_listp] = p
    <3>1. m4[p + 1] # NULL => m4[p + 1] \in F \ {b, p} /\ m4[m4[p + 1]] = p
      <4>1. CASE prev # NULL /\ p = prev
        <5>1. m4[p + 1] = next BY <4>1, <1>17
        <5>2. next # NULL => next \in F \ {b} /\ r[next] < r[b] /\ r[b] < r[p]
          BY <4>1, <1>4, <1>9
        <5>3. next # NULL => next \in F \ {b, p}
          BY <5>2, <1>4, <1>9
        <5>4. next # NULL => m4[next] = prev BY <5>3, <1>17
        <5> QED BY <5>1, <5>3, <5>4, <4>1
      <4>2. CASE ~(prev # NULL /\ p = prev)
        <5>1. m4[p + 1] = m[p + 1] BY <4>2, <1>17
        <5>2. m[p + 1] # b BY <4>2, <2>5, <1>3
        <5>3. m[p + 1] # NULL => m[p + 1] # next
          BY <2>5, <1>4
        <5> QED BY <5>1, <5>2, <5>3, <1>17, <2>5
      <4> QED BY <4>1, <4>2
    <3>2. m4[p] # NULL => m4[p] \in F \ {b} /\ m4[m4[p] + 1] = p
      <4>1. CASE next # NULL /\ p = next
        BY <4>1, <1>17, <1>4, <1>5, <2>5, <1>2
      <4>2. CASE ~(next # NULL /\ p = next)
        <5>1. m4[p] = m[p] BY <4>2, <1>17
        <5>2. m[p] # b BY <4>2, <2>5, <1>3
        <5>3. m[p] # NULL => m[p] # prev
          BY <2>5, <1>4
        <5> QED BY <5>1, <5>2, <5>3, <1>17, <2>5
      <4> QED BY <4>1, <4>2
    <3>3. m4[p] = NULL <=> m4[free_listp] = p
      BY <2>2, <1>17, <2>5, <1>3, <1>4, <1>5
    <3> QED BY <3>1, <3>2, <3>3
  <2> QED BY <2>1, <2>6, <2>7 DEF ListOK, Linked, GET, NEXT_P, PREV_P, WSIZE
<1>19. m4[b] = NULL
  BY <1>15, <1>3
<1>20. \E s \in [F \ {b} -> Nat] : Ranked(m4, F \ {b}, s)
  <2> DEFINE s == [p \in F \ {b} |-> r[p]]
  <2>1. s \in [F \ {b} -> Nat]
    OBVIOUS
  <2>2. \A p \in F \ {b} : m4[p + 1] # NULL => m4[p + 1] \in F \ {b}
    BY <1>18 DEF ListOK, Linked, GET, NEXT_P, WSIZE
  <2>3. ASSUME NEW p \in F \ {b}, m4[p + 1] # NULL
        PROVE  r[m4[p + 1]] < r[p]
    <3>1. CASE prev # NULL /\ p = prev
      BY <3>1, <2>3, <1>17, <1>9, <1>4
    <3>2. CASE ~(prev # NULL /\ p = prev)
      BY <3>2, <2>3, <1>17, <1>2
    <3> QED BY <3>1, <3>2
  <2>4. Ranked(m4, F \ {b}, s)
    BY <2>2, <2>3 DEF Ranked, GET, NEXT_P, WSIZE
  <2> QED BY <2>1, <2>4
<1> QED BY <1>10, <1>14, <1>16, <1>18, <1>19, <1>20 DEF ListOK

----------------------------------------------------------------------------
(* Blocks, sizes and tags.                                                 *)

(* The blocks of B, of S[p] words each, tile the heap up to the break.     *)
Layout(top, B, S) ==
  /\ top \in Int /\ top <= HeapBase + MAX_HEAP
  /\ S \in [B -> Nat]
  /\ heap_listp \in B /\ S[heap_listp] = 2
  /\ \A p \in B : /\ p \in Int /\ p >= heap_listp /\ p % 2 = 0
                  /\ S[p] >= 2 /\ S[p] % 2 = 0
                  /\ p # heap_listp => S[p] >= 4
                  /\ p + S[p] <= top
                  /\ p + S[p] \in B \union {top}
  /\ \A p, q \in B : p < q => p + S[p] <= q
  /\ \A q \in (B \union {top}) \ {heap_listp} : \E p \in B : p + S[p] = q

(* Header and footer of every block hold its size and bit.                 *)
Tagged(m, top, B, S, A) ==
  /\ A \in [B -> {0, 1}] /\ A[heap_listp] = 1
  /\ \A p \in B : m[p - 1] = S[p] + A[p] /\ m[p + S[p] - 2] = S[p] + A[p]
  /\ m[top - 1] = 1

FreeOf(B, A) == {p \in B : A[p] = 0}

(* The arithmetic of a layout, for use in one go.                          *)
LEMMA LayoutFacts ==
  ASSUME NEW top, NEW B, NEW S, Layout(top, B, S)
  PROVE  /\ top \in Int /\ top > heap_listp + 1 /\ top \notin B /\ top % 2 = 0
         /\ top - 1 \in Addr
         /\ \A p \in B : /\ p \in Int /\ S[p] \in Int /\ p \in Addr /\ p - 1 \in Addr
                         /\ p + S[p] - 2 \in Addr
                         /\ S[p] \in Word /\ S[p] + 1 \in Word /\ p # NULL
                         /\ p \in Word
<1>1. heap_listp \in B /\ heap_listp + 2 <= top
  BY DEF Layout
<1>2. top \in Int /\ top - 1 \in Addr
  BY <1>1, Defs DEF Layout, Addr
<1>3. top \notin B
  <2>1. \A p \in B : p \in Int /\ S[p] \in Int /\ S[p] >= 2 /\ p + S[p] <= top
    BY DEF Layout
  <2>2. \A p \in B : p < top
    BY <2>1, <1>2
  <2> QED BY <2>2, <1>2
<1>4. top % 2 = 0
  <2>1. \A q \in (B \union {top}) \ {heap_listp} : \E p \in B : p + S[p] = q
    BY DEF Layout
  <2>2. top # heap_listp
    BY <1>1, <1>3
  <2>3. PICK p \in B : p + S[p] = top
    BY <2>1, <2>2
  <2>4. p \in Int /\ S[p] \in Int /\ p % 2 = 0 /\ S[p] % 2 = 0
    BY DEF Layout
  <2> QED BY <2>3, <2>4
<1>5. \A p \in B : /\ p \in Int /\ S[p] \in Int /\ p \in Addr /\ p - 1 \in Addr
                   /\ p + S[p] - 2 \in Addr
                   /\ S[p] \in Word /\ S[p] + 1 \in Word /\ p # NULL /\ p \in Word
  <2> SUFFICES ASSUME NEW p \in B
               PROVE  /\ p \in Int /\ S[p] \in Int /\ p \in Addr /\ p - 1 \in Addr
                      /\ p + S[p] - 2 \in Addr
                      /\ S[p] \in Word /\ S[p] + 1 \in Word /\ p # NULL /\ p \in Word
    OBVIOUS
  <2>1. /\ p \in Int /\ p >= heap_listp /\ S[p] \in Int /\ S[p] >= 2
        /\ p + S[p] <= top
    BY DEF Layout
  <2>2. top \in Int /\ top <= HeapBase + MAX_HEAP
    BY DEF Layout
  <2> QED BY <2>1, <2>2, Defs DEF Addr, Word, NULL
<1> QED BY <1>1, <1>2, <1>3, <1>4, <1>5, Defs

(* What the macros read at a block, and of the block before an address.    *)
LEMMA Reads ==
  ASSUME NEW m, NEW top, NEW B, NEW S, NEW A,
         Layout(top, B, S), Tagged(m, top, B, S, A), NEW p \in B
  PROVE  /\ GET_SIZE(m, HDRP(p)) = S[p] /\ GET_ALLOC(m, HDRP(p)) = A[p]
         /\ Block_size(m, p) = S[p] /\ (Allocated(m, p) <=> A[p] = 1)
         /\ NEXT_BLKP(m, p) = p + S[p]
         /\ FTRP(m, p) = p + S[p] - 2
         /\ GET_SIZE(m, FTRP(m, p)) = S[p] /\ GET_ALLOC(m, FTRP(m, p)) = A[p]
         /\ PREV_BLKP(m, p + S[p]) = p
<1>1. /\ S[p] \in Int /\ S[p] % 2 = 0 /\ A[p] \in {0, 1} /\ p \in Int
      /\ m[p - 1] = S[p] + A[p] /\ m[p + S[p] - 2] = S[p] + A[p]
  BY DEF Layout, Tagged
<1>2. (S[p] + A[p]) % 2 = A[p] /\ (S[p] + A[p]) - A[p] = S[p]
  BY <1>1
<1>3. GET_SIZE(m, HDRP(p)) = S[p] /\ GET_ALLOC(m, HDRP(p)) = A[p]
  BY <1>1, <1>2 DEF GET_SIZE, GET_ALLOC, HDRP, WSIZE
<1>4. NEXT_BLKP(m, p) = p + S[p] /\ FTRP(m, p) = p + S[p] - 2
  BY <1>3 DEF NEXT_BLKP, FTRP, DSIZE
<1>5. GET_SIZE(m, FTRP(m, p)) = S[p] /\ GET_ALLOC(m, FTRP(m, p)) = A[p]
  BY <1>1, <1>2, <1>4 DEF GET_SIZE, GET_ALLOC
<1>6. PREV_BLKP(m, p + S[p]) = p
  <2>1. GET_SIZE(m, p + S[p] - 2) = S[p]
    BY <1>4, <1>5
  <2> QED BY <2>1, <1>1 DEF PREV_BLKP, DSIZE
<1> QED BY <1>3, <1>4, <1>5, <1>6 DEF Block_size, Allocated

(* The epilogue reads as an allocated block.                               *)
LEMMA TopReads ==
  ASSUME NEW m, NEW top, NEW B, NEW S, NEW A,
         Layout(top, B, S), Tagged(m, top, B, S, A)
  PROVE  GET_SIZE(m, HDRP(top)) = 0 /\ GET_ALLOC(m, HDRP(top)) = 1
BY DEF Tagged, GET_SIZE, GET_ALLOC, HDRP, WSIZE

(* The tiling MmHeap defines, taken apart ...                              *)
LEMMA TiledElim ==
  ASSUME NEW m \in Memory, NEW top \in Int, top <= HeapBase + MAX_HEAP,
         NEW B, Tiled(m, top, B)
  PROVE  \E S, A : Layout(top, B, S) /\ Tagged(m, top, B, S, A)
<1> DEFINE S == [p \in B |-> Block_size(m, p)]
<1> DEFINE A == [p \in B |-> GET_ALLOC(m, HDRP(p))]
<1>1. ASSUME NEW p \in B
      PROVE  /\ p \in Int /\ p >= heap_listp /\ p + 2 <= top /\ p % 2 = 0
             /\ S[p] = m[p - 1] - (m[p - 1] % 2) /\ A[p] = m[p - 1] % 2
             /\ m[p - 1] \in Nat
             /\ NEXT_BLKP(m, p) = p + S[p] /\ FTRP(m, p) = p + S[p] - 2
             /\ m[p - 1] = m[FTRP(m, p)]
             /\ p + S[p] <= top /\ p + S[p] \in B \union {top}
             /\ IF p = heap_listp THEN m[p - 1] = 3 ELSE S[p] >= 4
             /\ S[p] % 2 = 0
  <2>1. BlockOK(m, top, B, p)
    BY DEF Tiled
  <2>2. p \in Int /\ p >= heap_listp /\ p + 2 <= top /\ p % 2 = 0
    BY <2>1, Defs DEF BlockOK, DSIZE
  <2>3. p - 1 \in Addr
    BY <2>2, Defs DEF Addr
  <2>4. m[p - 1] \in Nat
    BY <2>3, Defs DEF Memory, Word
  <2>5. S[p] = m[p - 1] - (m[p - 1] % 2) /\ A[p] = m[p - 1] % 2
    BY DEF Block_size, GET_SIZE, GET_ALLOC, HDRP, WSIZE
  <2>6. NEXT_BLKP(m, p) = p + S[p] /\ FTRP(m, p) = p + S[p] - 2
    BY DEF NEXT_BLKP, FTRP, Block_size, DSIZE
  <2>7. /\ m[p - 1] = m[FTRP(m, p)]
        /\ p + S[p] <= top /\ p + S[p] \in B \union {top}
        /\ IF p = heap_listp THEN m[p - 1] = 3 ELSE S[p] >= 4
        /\ S[p] % 2 = 0
    BY <2>1, <2>6 DEF BlockOK, GET, HDRP, WSIZE, DSIZE, PACK
  <2> HIDE DEF S, A
  <2> QED BY <2>2, <2>4, <2>5, <2>6, <2>7
<1>2. \A p \in B : /\ S[p] \in Nat /\ A[p] \in {0, 1} /\ m[p - 1] = S[p] + A[p]
                   /\ p = heap_listp => S[p] = 2 /\ A[p] = 1
                   /\ S[p] >= 2
  <2> SUFFICES ASSUME NEW p \in B
               PROVE  /\ S[p] \in Nat /\ A[p] \in {0, 1} /\ m[p - 1] = S[p] + A[p]
                      /\ p = heap_listp => S[p] = 2 /\ A[p] = 1
                      /\ S[p] >= 2
    OBVIOUS
  <2> HIDE DEF S, A
  <2> QED BY <1>1
<1>3. heap_listp \in B /\ m[top - 1] = 1
  BY DEF Tiled, GET, HDRP, WSIZE, PACK
<1>4. \A p, q \in B : p < q => p + S[p] <= q
  BY <1>1 DEF Tiled, Apart
<1>5. \A q \in (B \union {top}) \ {heap_listp} : \E p \in B : p + S[p] = q
  <2>1. \A p \in B : NEXT_BLKP(m, p) = p + S[p]
    BY <1>1
  <2>2. \A q \in (B \union {top}) \ {heap_listp} :
          PREV_BLKP(m, q) \in B /\ NEXT_BLKP(m, PREV_BLKP(m, q)) = q
    BY DEF Tiled
  <2> HIDE DEF S
  <2> QED BY <2>1, <2>2
<1>6. S \in [B -> Nat] /\ A \in [B -> {0, 1}]
  BY <1>2
<1> HIDE DEF S, A
<1>7. Layout(top, B, S)
  BY <1>1, <1>2, <1>3, <1>4, <1>5, <1>6 DEF Layout
<1>8. Tagged(m, top, B, S, A)
  BY <1>1, <1>2, <1>3, <1>6 DEF Tagged
<1> QED BY <1>7, <1>8

(* ... and put together.                                                   *)
LEMMA TiledIntro ==
  ASSUME NEW m, NEW top, NEW B, NEW S, NEW A,
         Layout(top, B, S), Tagged(m, top, B, S, A)
  PROVE  /\ Tiled(m, top, B)
         /\ FreeBlocks(m, B) = FreeOf(B, A)
<1>1. \A p \in B : /\ Block_size(m, p) = S[p] /\ NEXT_BLKP(m, p) = p + S[p]
                   /\ FTRP(m, p) = p + S[p] - 2
                   /\ PREV_BLKP(m, p + S[p]) = p
                   /\ Allocated(m, p) <=> A[p] = 1
  BY Reads
<1>2. ASSUME NEW p \in B PROVE BlockOK(m, top, B, p)
  <2>1. p \in heap_listp .. (top - 2) /\ p % 2 = 0
    BY Defs DEF Layout
  <2>2. m[p - 1] = m[p + S[p] - 2]
    BY DEF Tagged
  <2>3. p = heap_listp => m[p - 1] = 3
    <3>1. S[heap_listp] = 2 /\ A[heap_listp] = 1 /\ m[p - 1] = S[p] + A[p]
      BY DEF Layout, Tagged
    <3> QED BY <3>1
  <2>4. S[p] % 2 = 0 /\ p + S[p] <= top /\ p + S[p] \in B \union {top}
        /\ (p # heap_listp => S[p] >= 4)
    BY DEF Layout
  <2> QED BY <1>1, <2>1, <2>2, <2>3, <2>4 DEF BlockOK, GET, HDRP, WSIZE, DSIZE, PACK
<1>3. Apart(m, B)
  BY <1>1 DEF Apart, Layout
<1>4. \A q \in (B \union {top}) \ {heap_listp} :
        PREV_BLKP(m, q) \in B /\ NEXT_BLKP(m, PREV_BLKP(m, q)) = q
  <2>1. \A q \in (B \union {top}) \ {heap_listp} : \E p \in B : p + S[p] = q
    BY DEF Layout
  <2>2. \A p \in B : PREV_BLKP(m, p + S[p]) = p /\ NEXT_BLKP(m, p) = p + S[p]
    BY <1>1
  <2> QED BY <2>1, <2>2
<1>5. GET(m, HDRP(top)) = PACK(0, 1) /\ heap_listp \in B
  BY DEF Layout, Tagged, GET, HDRP, WSIZE, PACK
<1>6. FreeBlocks(m, B) = FreeOf(B, A)
  BY <1>1 DEF FreeBlocks, FreeOf, Tagged
<1> QED BY <1>2, <1>3, <1>4, <1>5, <1>6 DEF Tiled

----------------------------------------------------------------------------
(* Merging, splitting, growing.                                            *)

(* The block pointers left when s takes in every block below e.            *)
Cut(B, s, e) == {p \in B : p < s \/ p >= e} \union {s}
Join(B, S, s, e) == [p \in Cut(B, s, e) |-> IF p = s THEN e - s ELSE S[p]]

(* Neighbouring blocks merged into one tile the heap as before.            *)
LEMMA JoinLayout ==
  ASSUME NEW top, NEW B, NEW S, Layout(top, B, S),
         NEW s \in B, s # heap_listp, NEW e \in B \union {top}, s < e
  PROVE  Layout(top, Cut(B, s, e), Join(B, S, s, e))
<1> DEFINE C == Cut(B, s, e)
<1> DEFINE T == Join(B, S, s, e)
<1>1. \A p \in B : /\ p \in Int /\ p >= heap_listp /\ p % 2 = 0
                   /\ S[p] \in Nat /\ S[p] >= 2 /\ S[p] % 2 = 0
                   /\ p # heap_listp => S[p] >= 4
                   /\ p + S[p] <= top
                   /\ p + S[p] \in B \union {top}
  BY DEF Layout
<1>2. \A p, q \in B : p < q => p + S[p] <= q
  BY DEF Layout
<1>3. top \in Int /\ top % 2 = 0 /\ top \notin B /\ top <= HeapBase + MAX_HEAP
  <2>1. top \in Int /\ top % 2 = 0 /\ top \notin B
    BY LayoutFacts
  <2>2. top <= HeapBase + MAX_HEAP
    BY DEF Layout
  <2> QED BY <2>1, <2>2
<1>4. e \in Int /\ e % 2 = 0 /\ e <= top /\ s \in Int /\ s + S[s] <= e /\ s % 2 = 0
  BY <1>1, <1>2, <1>3
<1>5. /\ \A p \in C : p \in B /\ (p # s => p < s \/ p >= e)
      /\ \A p \in B : p < s \/ p >= e => p \in C
      /\ s \in C
  BY DEF Cut
<1>6. T[s] = e - s /\ (\A p \in C : p # s => T[p] = S[p]) /\ DOMAIN T = C
  BY DEF Join, Cut
<1>7. e - s \in Nat /\ e - s >= 4 /\ (e - s) % 2 = 0
  BY <1>1, <1>4
<1>8. T \in [C -> Nat]
  BY <1>1, <1>5, <1>7 DEF Join, Cut
<1> HIDE DEF C, T
<1>9. heap_listp \in C /\ T[heap_listp] = 2
  <2>1. heap_listp \in B /\ S[heap_listp] = 2 /\ heap_listp < s
    BY <1>1 DEF Layout
  <2> QED BY <2>1, <1>5, <1>6
<1>10. e \in C \union {top}
  BY <1>4, <1>5
<1>11. ASSUME NEW p \in C
       PROVE  /\ p \in Int /\ p >= heap_listp /\ p % 2 = 0
              /\ T[p] >= 2 /\ T[p] % 2 = 0
              /\ p # heap_listp => T[p] >= 4
              /\ p + T[p] <= top
              /\ p + T[p] \in C \union {top}
  <2>1. CASE p = s
    BY <2>1, <1>1, <1>4, <1>6, <1>7, <1>10
  <2>2. CASE p # s
    <3>1. p \in B /\ T[p] = S[p] /\ (p < s \/ p >= e)
      BY <2>2, <1>5, <1>6
    <3>2. p + S[p] \in C \union {top}
      <4>1. CASE p < s
        <5>1. p + S[p] <= s
          BY <4>1, <3>1, <1>2
        <5> QED BY <5>1, <3>1, <1>1, <1>4, <1>5
      <4>2. CASE p >= e
        <5>1. p + S[p] >= e
          BY <4>2, <3>1, <1>1, <1>4
        <5> QED BY <5>1, <3>1, <1>1, <1>4, <1>5
      <4> QED BY <3>1, <4>1, <4>2
    <3> QED BY <3>1, <3>2, <1>1
  <2> QED BY <2>1, <2>2
<1>12. ASSUME NEW p \in C, NEW q \in C, p < q
       PROVE  p + T[p] <= q
  <2>1. CASE p = s
    <3>1. q >= e
      <4>1. q \in Int /\ s \in Int /\ s < q
        BY <2>1, <1>1, <1>4, <1>5, <1>12
      <4>2. q # s => q < s \/ q >= e
        BY <1>5
      <4> QED BY <4>1, <4>2
    <3> QED BY <3>1, <2>1, <1>4, <1>6
  <2>2. CASE p # s
    BY <2>2, <1>2, <1>5, <1>6, <1>12
  <2> QED BY <2>1, <2>2
<1>13. ASSUME NEW q \in (C \union {top}) \ {heap_listp}
       PROVE  \E p \in C : p + T[p] = q
  <2>1. CASE q = e
    BY <2>1, <1>4, <1>5, <1>6
  <2>2. CASE q # e
    <3>1. PICK p \in B : p + S[p] = q
      BY <1>5 DEF Layout
    <3>2. p < s \/ p >= e
      <4>1. CASE q = s
        BY <4>1, <3>1, <1>1
      <4>2. CASE q # s /\ q < s
        BY <4>2, <3>1, <1>1, <1>4
      <4>3. CASE q # s /\ q >= s
        <5>1. q > e
          BY <4>3, <2>2, <1>1, <1>3, <1>4, <1>5
        <5>2. e \in B
          BY <5>1, <1>1, <1>3, <1>5
        <5>3. p < e => p + S[p] <= e
          BY <5>2, <1>2
        <5> QED BY <5>1, <5>3, <3>1, <1>1, <1>4
      <4> QED BY <4>1, <4>2, <4>3, <1>1, <1>3, <1>4, <1>5
    <3>3. p \in C /\ p # s
      BY <3>2, <1>4, <1>5, <1>1, <3>1
    <3> QED BY <3>1, <3>3, <1>6
  <2> QED BY <2>1, <2>2
<1>14. Layout(top, C, T)
  BY <1>3, <1>8, <1>9, <1>11, <1>12, <1>13 DEF Layout
<1> QED BY <1>14 DEF C, T

(* A block of S[s] words cut into one of a words and the rest.             *)
Split(B, S, s, a) ==
  [p \in B \union {s + a} |->
     IF p = s THEN a ELSE IF p = s + a THEN S[s] - a ELSE S[p]]

(* A block cut in two tiles the heap as before.                            *)
LEMMA SplitLayout ==
  ASSUME NEW top, NEW B, NEW S, Layout(top, B, S),
         NEW s \in B, s # heap_listp, NEW a \in Nat, a % 2 = 0, a >= 4,
         S[s] - a >= 4
  PROVE  /\ Layout(top, B \union {s + a}, Split(B, S, s, a))
         /\ s + a \notin B
<1> DEFINE C == B \union {s + a}
<1> DEFINE T == Split(B, S, s, a)
<1>1. \A p \in B : /\ p \in Int /\ p >= heap_listp /\ p % 2 = 0
                   /\ S[p] \in Nat /\ S[p] >= 2 /\ S[p] % 2 = 0
                   /\ p # heap_listp => S[p] >= 4
                   /\ p + S[p] <= top
                   /\ p + S[p] \in B \union {top}
  BY DEF Layout
<1>2. \A p, q \in B : p < q => p + S[p] <= q
  BY DEF Layout
<1>3. top \in Int /\ top <= HeapBase + MAX_HEAP
  BY DEF Layout
<1>4. s + a \notin B /\ s + a \in Int /\ s + a > s /\ s + a < top
  BY <1>1, <1>2, <1>3
<1>5. /\ \A p \in B : p # s => T[p] = S[p]
      /\ T[s] = a /\ T[s + a] = S[s] - a
  BY <1>4 DEF Split
<1>6. T \in [C -> Nat]
  BY <1>1 DEF Split
<1>7. /\ \A p \in C : p \in B \/ p = s + a
      /\ \A p \in B : p \in C
      /\ s + a \in C
  OBVIOUS
<1> HIDE DEF C, T
<1>8. heap_listp \in C /\ T[heap_listp] = 2
  BY <1>5, <1>7 DEF Layout
<1>9. ASSUME NEW p \in C
      PROVE  /\ p \in Int /\ p >= heap_listp /\ p % 2 = 0
             /\ T[p] >= 2 /\ T[p] % 2 = 0
             /\ p # heap_listp => T[p] >= 4
             /\ p + T[p] <= top
             /\ p + T[p] \in C \union {top}
  <2>0. /\ s \in Int /\ s >= heap_listp /\ s % 2 = 0 /\ S[s] \in Nat /\ S[s] % 2 = 0
        /\ s + S[s] <= top /\ s + S[s] \in B \union {top} /\ heap_listp \in Int
    BY <1>1, Defs
  <2>1. CASE p = s
    <3>1. T[p] = a /\ p + T[p] \in C
      BY <2>1, <1>5, <1>7
    <3>2. p + T[p] <= top /\ a >= 2
      <4>1. top \in Int
        BY <1>3
      <4>2. s + a <= top /\ a >= 2
        BY <2>0, <4>1
      <4> QED BY <2>1, <3>1, <4>2
    <3>3. p + T[p] \in C \union {top}
      BY <3>1
    <3> QED BY <2>0, <2>1, <3>1, <3>2, <3>3
  <2>2. CASE p = s + a
    <3>1. T[p] = S[s] - a
      BY <2>2, <1>5
    <3>2. p + T[p] = s + S[s]
      BY <2>0, <2>2, <3>1
    <3>3. p + T[p] \in C \union {top}
      BY <3>2, <2>0, <1>7
    <3>4. (s + a) % 2 = 0 /\ (S[s] - a) % 2 = 0
      BY <2>0
    <3>5. /\ S[s] - a \in Int /\ S[s] - a >= 4 /\ S[s] - a >= 2
          /\ s + a \in Int /\ s + a >= heap_listp
      BY <2>0
    <3>6. p + T[p] <= top
      BY <2>0, <3>2
    <3> HIDE DEF C
    <3> QED BY <2>2, <3>1, <3>3, <3>4, <3>5, <3>6
  <2>3. CASE p # s /\ p \in B
    BY <2>3, <1>1, <1>5, <1>7
  <2> QED BY <2>1, <2>2, <2>3, <1>7
<1>10. ASSUME NEW p \in C, NEW q \in C, p < q
       PROVE  p + T[p] <= q
  <2>0. s \in Int /\ S[s] \in Nat
    BY <1>1
  <2>1. CASE p = s
    BY <2>0, <2>1, <1>1, <1>2, <1>5, <1>7, <1>10
  <2>2. CASE p = s + a
    <3>1. q \in B /\ s < q
      BY <2>0, <2>2, <1>4, <1>7, <1>10, <1>1
    <3> QED BY <2>0, <3>1, <2>2, <1>2, <1>5
  <2>3. CASE p # s /\ p # s + a
    <3>1. p \in B /\ T[p] = S[p] /\ p \in Int /\ S[p] \in Nat
      BY <2>3, <1>5, <1>7, <1>1
    <3>2. CASE q \in B
      BY <3>1, <3>2, <1>2, <1>10
    <3>3. CASE q = s + a
      <4>1. p < s
        <5>1. p > s => s + S[s] <= p
          BY <3>1, <1>2
        <5> QED BY <5>1, <2>0, <2>3, <3>1, <3>3, <1>10
      <4> QED BY <4>1, <3>1, <3>3, <2>0, <1>2
    <3> QED BY <3>2, <3>3, <1>7
  <2> QED BY <2>1, <2>2, <2>3
<1>11. ASSUME NEW q \in (C \union {top}) \ {heap_listp}
       PROVE  \E p \in C : p + T[p] = q
  <2>1. CASE q = s + a
    BY <2>1, <1>5, <1>7
  <2>2. CASE q # s + a
    <3>1. PICK p \in B : p + S[p] = q
      BY <2>2, <1>7 DEF Layout
    <3>2. CASE p = s
      BY <3>1, <3>2, <1>1, <1>5, <1>7
    <3>3. CASE p # s
      BY <3>1, <3>3, <1>5, <1>7
    <3> QED BY <3>2, <3>3
  <2> QED BY <2>1, <2>2
<1>12. Layout(top, C, T)
  BY <1>3, <1>6, <1>8, <1>9, <1>10, <1>11 DEF Layout
<1> QED BY <1>4, <1>12 DEF C, T

(* A block of g words added at the break.                                  *)
Grow(B, S, top, g) == [p \in B \union {top} |-> IF p = top THEN g ELSE S[p]]

(* The layout extend_heap leaves: the new block starts at the old break.   *)
LEMMA GrowLayout ==
  ASSUME NEW top, NEW B, NEW S, Layout(top, B, S),
         NEW g \in Nat, g % 2 = 0, g >= 4, top + g <= HeapBase + MAX_HEAP
  PROVE  Layout(top + g, B \union {top}, Grow(B, S, top, g))
<1> DEFINE C == B \union {top}
<1> DEFINE T == Grow(B, S, top, g)
<1>1. \A p \in B : /\ p \in Int /\ p >= heap_listp /\ p % 2 = 0
                   /\ S[p] \in Nat /\ S[p] >= 2 /\ S[p] % 2 = 0
                   /\ p # heap_listp => S[p] >= 4
                   /\ p + S[p] <= top
                   /\ p + S[p] \in B \union {top}
  BY DEF Layout
<1>2. \A p, q \in B : p < q => p + S[p] <= q
  BY DEF Layout
<1>3. top \in Int /\ top \notin B /\ top > heap_listp /\ top % 2 = 0 /\ heap_listp \in Int
  BY LayoutFacts, Defs
<1>4. (\A p \in B : T[p] = S[p]) /\ T[top] = g
  BY <1>3 DEF Grow
<1>5. T \in [C -> Nat]
  BY <1>1 DEF Grow
<1>6. \A p : p \in C <=> p \in B \/ p = top
  OBVIOUS
<1> HIDE DEF C, T
<1>7. heap_listp \in C /\ T[heap_listp] = 2
  BY <1>4, <1>6 DEF Layout
<1>8. ASSUME NEW p \in C
      PROVE  /\ p \in Int /\ p >= heap_listp /\ p % 2 = 0
             /\ T[p] >= 2 /\ T[p] % 2 = 0
             /\ p # heap_listp => T[p] >= 4
             /\ p + T[p] <= top + g
             /\ p + T[p] \in C \union {top + g}
  <2>1. CASE p = top
    BY <2>1, <1>3, <1>4
  <2>2. CASE p \in B
    BY <2>2, <1>1, <1>3, <1>4, <1>6
  <2> QED BY <2>1, <2>2, <1>6
<1>9. ASSUME NEW p \in C, NEW q \in C, p < q
      PROVE  p + T[p] <= q
  <2>1. p \in B /\ T[p] = S[p]
    BY <1>1, <1>3, <1>4, <1>6, <1>9
  <2>2. CASE q = top
    BY <2>1, <2>2, <1>1
  <2>3. CASE q \in B
    BY <2>1, <2>3, <1>2, <1>9
  <2> QED BY <2>2, <2>3, <1>6
<1>10. ASSUME NEW q \in (C \union {top + g}) \ {heap_listp}
       PROVE  \E p \in C : p + T[p] = q
  <2>1. CASE q = top + g
    BY <2>1, <1>4, <1>6
  <2>2. CASE q # top + g
    <3>1. PICK p \in B : p + S[p] = q
      BY <2>2, <1>6 DEF Layout
    <3> QED BY <3>1, <1>4, <1>6
  <2> QED BY <2>1, <2>2
<1>11. top + g \in Int
  BY <1>3
<1>12. Layout(top + g, C, T)
  BY <1>5, <1>7, <1>8, <1>9, <1>10, <1>11 DEF Layout
<1> QED BY <1>12 DEF C, T

----------------------------------------------------------------------------
(* The routines.                                                           *)

(* A heap in pieces, F being the blocks on the free list.                  *)
Heap(m, top, B, S, A, F) ==
  /\ m \in Memory
  /\ Layout(top, B, S) /\ Tagged(m, top, B, S, A)
  /\ ListOK(m, F)

(* No two blocks of F are neighbours.                                      *)
Sparse(S, F) == \A p, q \in F : p + S[p] # q

(* The allocated blocks of B in m are in n what they were.                 *)
Keeps(m, B, n, C) ==
  \A p \in B : Allocated(m, p) =>
    /\ p \in C /\ Allocated(n, p)
    /\ Block_size(n, p) = Block_size(m, p)
    /\ \A a \in p .. (p + Block_size(m, p) - 3) : n[a] = m[a]

(* The block pointers of B that are allocated in m.                        *)
Taken(m, B) == {p \in B : Allocated(m, p)}

(* Memory n is memory m outside the words lo .. hi.                        *)
Outside(m, n, lo, hi) == \A a \in Addr : a < lo \/ a > hi => n[a] = m[a]

(* What each of two calls keeps, both together keep.                       *)
LEMMA KeepsTrans ==
  ASSUME NEW m, NEW n, NEW o, NEW B, NEW C, NEW D, Keeps(m, B, n, C), Keeps(n, C, o, D)
  PROVE  Keeps(m, B, o, D)
BY DEF Keeps

(* The links of a set of blocks are two words each, apart from one another.*)
LEMMA SpreadBlocks ==
  ASSUME NEW top, NEW B, NEW S, Layout(top, B, S), NEW F, F \subseteq B \ {heap_listp}
  PROVE  Spread(F)
<1>1. \A p \in F : /\ p \in Int /\ p >= heap_listp /\ S[p] \in Int /\ S[p] >= 4
                   /\ p + S[p] <= top
  BY DEF Layout
<1>2. \A p, q \in F : p < q => p + S[p] <= q
  BY DEF Layout
<1>3. top \in Int /\ top <= HeapBase + MAX_HEAP
  BY DEF Layout
<1> QED BY <1>1, <1>2, <1>3, Defs DEF Spread

(* Writing link words of free blocks leaves the tags and the payloads of   *)
(* the others alone.                                                       *)
LEMMA LinkFrame ==
  ASSUME NEW m \in Memory, NEW n, NEW top, NEW B, NEW S, NEW A,
         Layout(top, B, S), Tagged(m, top, B, S, A),
         NEW F, F \subseteq FreeOf(B, A),
         \A a \in Addr : ~IsLinkWord(F, a) => n[a] = m[a]
  PROVE  /\ Tagged(n, top, B, S, A)
         /\ Keeps(m, B, n, B)
         /\ \A p \in B \ F : n[p] = m[p]
<1>0. \A q \in F : q \in B /\ A[q] = 0 /\ q # heap_listp
  BY DEF FreeOf, Tagged
<1>1. \A q \in F : q \in Int /\ S[q] \in Int /\ S[q] >= 4 /\ q + S[q] <= top
  BY <1>0 DEF Layout
<1>2. \A p \in B : p \in Int /\ S[p] \in Int /\ S[p] >= 2 /\ p >= heap_listp
  BY DEF Layout
<1>3. \A p, q \in B : p < q => p + S[p] <= q
  BY DEF Layout
<1>4. ASSUME NEW p \in B
      PROVE  /\ ~IsLinkWord(F, p - 1)
             /\ ~IsLinkWord(F, p + S[p] - 2)
             /\ \A a \in p .. (p + S[p] - 3) : p \notin F => ~IsLinkWord(F, a)
             /\ p \notin F => ~IsLinkWord(F, p)
  <2>1. \A q \in F : p # q => p + S[p] <= q \/ q + 4 <= p
    BY <1>0, <1>1, <1>2, <1>3
  <2>2. p - 1 # free_listp /\ p + S[p] - 2 # free_listp /\ p > free_listp
        /\ free_listp \in Int
    BY <1>2, Defs
  <2> QED BY <1>1, <1>2, <2>1, <2>2 DEF IsLinkWord
<1>5. top \in Int /\ ~IsLinkWord(F, top - 1)
  <2>1. top \in Int /\ top > heap_listp + 1
    BY LayoutFacts
  <2> QED BY <2>1, <1>1, Defs DEF IsLinkWord
<1>6. /\ top - 1 \in Addr
      /\ \A p \in B : p \in Addr /\ p - 1 \in Addr /\ p + S[p] - 2 \in Addr
  BY LayoutFacts
<1>7. Tagged(n, top, B, S, A)
  BY <1>4, <1>5, <1>6 DEF Tagged
<1>8. Keeps(m, B, n, B)
  <2> SUFFICES ASSUME NEW p \in B, Allocated(m, p)
               PROVE  /\ Allocated(n, p)
                      /\ Block_size(n, p) = Block_size(m, p)
                      /\ \A a \in p .. (p + Block_size(m, p) - 3) : n[a] = m[a]
    BY DEF Keeps
  <2>1. /\ Block_size(m, p) = S[p] /\ (Allocated(m, p) <=> A[p] = 1)
        /\ Block_size(n, p) = S[p] /\ (Allocated(n, p) <=> A[p] = 1)
    BY <1>7, Reads
  <2>2. p \notin F
    BY <2>1, <1>0
  <2>3. \A a \in p .. (p + S[p] - 3) : a \in Addr
    BY <1>2, <1>6, Defs DEF Addr
  <2> QED BY <2>1, <2>2, <2>3, <1>4
<1>9. \A p \in B \ F : n[p] = m[p]
  BY <1>4, <1>6
<1> QED BY <1>7, <1>8, <1>9

(* Writes away from the link words leave the list as it was.               *)
LEMMA ListOutside ==
  ASSUME NEW m, NEW n, NEW F, Spread(F), ListOK(m, F),
         NEW lo \in Int, NEW hi \in Int, lo > free_listp + 1, Outside(m, n, lo, hi),
         \A p \in F : p + 1 < lo \/ p > hi
  PROVE  ListOK(n, F)
<1>1. \A p \in F : p \in Int /\ p \in Addr /\ p + 1 \in Addr
  BY Defs DEF Spread, Addr
<1>2. \A p \in F : n[p] = m[p] /\ n[p + 1] = m[p + 1]
  BY <1>1 DEF Outside
<1>3. n[free_listp] = m[free_listp] /\ n[free_listp + 1] = m[free_listp + 1]
  <2>1. free_listp \in Addr /\ free_listp + 1 \in Addr /\ free_listp \in Int
    BY Defs DEF Addr
  <2> QED BY <2>1 DEF Outside
<1>4. Linked(n, F)
  BY <1>2, <1>3 DEF ListOK, Linked, GET, NEXT_P, PREV_P, WSIZE
<1>5. \A r : Ranked(m, F, r) => Ranked(n, F, r)
  BY <1>2 DEF Ranked, GET, NEXT_P, WSIZE
<1> QED BY <1>4, <1>5 DEF ListOK

(* The blocks from s up to e become one block with bit v, by writes inside *)
(* them: a merge, or a change of s's bit.                                  *)
SetBit(B, A, s, v) == [p \in B |-> IF p = s THEN v ELSE A[p]]

(* Tags written at both ends of the run s .. e make it one block of a      *)
(* heap; the blocks outside the run keep their place on the list.          *)
LEMMA JoinHeap ==
  ASSUME NEW m \in Memory, NEW n \in Memory, NEW top, NEW B, NEW S, NEW A,
         Layout(top, B, S), Tagged(m, top, B, S, A),
         NEW s \in B, s # heap_listp, NEW e \in B \union {top}, s < e,
         NEW F, F \subseteq B \ {heap_listp}, \A p \in F : p < s \/ p >= e,
         ListOK(m, F),
         NEW v \in {0, 1}, n[s - 1] = (e - s) + v, n[e - 2] = (e - s) + v,
         Outside(m, n, s - 1, e - 2)
  PROVE  /\ Layout(top, Cut(B, s, e), Join(B, S, s, e))
         /\ Tagged(n, top, Cut(B, s, e), Join(B, S, s, e), SetBit(Cut(B, s, e), A, s, v))
         /\ ListOK(n, F)
         /\ Keeps(m, {p \in B : p < s \/ p >= e}, n, Cut(B, s, e))
         /\ (\A p \in B : s <= p /\ p < e => A[p] = 0) => Keeps(m, B, n, Cut(B, s, e))
<1> DEFINE C == Cut(B, s, e)
<1> DEFINE T == Join(B, S, s, e)
<1> DEFINE D == SetBit(C, A, s, v)
<1>1. Layout(top, C, T)
  BY JoinLayout
<1>2. \A p \in B : p \in Int /\ S[p] \in Int /\ S[p] >= 2 /\ p >= heap_listp
  BY DEF Layout
<1>3. \A p, q \in B : p < q => p + S[p] <= q
  BY DEF Layout
<1>4. /\ s \in Int /\ e \in Int /\ e <= top /\ top \in Int /\ s > heap_listp /\ heap_listp \in Int
      /\ s + S[s] <= e
  <2>1. \A p \in B : p + S[p] <= top /\ top \in Int
    BY DEF Layout
  <2> QED BY <2>1, <1>2, <1>3, Defs
<1>5. ASSUME NEW p \in C, p # s
      PROVE  /\ p \in B /\ T[p] = S[p] /\ D[p] = A[p]
             /\ n[p - 1] = m[p - 1] /\ n[p + S[p] - 2] = m[p + S[p] - 2]
             /\ \A a \in p .. (p + S[p] - 3) : n[a] = m[a]
  <2>1. p \in B /\ (p < s \/ p >= e) /\ T[p] = S[p] /\ D[p] = A[p]
    BY <1>5 DEF Cut, Join, SetBit
  <2>2. p - 1 \in Addr /\ p + S[p] - 2 \in Addr
    BY <2>1, LayoutFacts
  <2>3. p + S[p] <= s \/ p >= e
    BY <2>1, <1>3
  <2>4. n[p - 1] = m[p - 1]
    BY <2>1, <2>2, <1>2, <1>4 DEF Outside
  <2>5. n[p + S[p] - 2] = m[p + S[p] - 2]
    BY <2>1, <2>2, <2>3, <1>2, <1>4 DEF Outside
  <2>6. ASSUME NEW a \in p .. (p + S[p] - 3) PROVE n[a] = m[a]
    <3>1. a \in Addr /\ (a < s - 1 \/ a > e - 2)
      BY <2>1, <2>2, <2>3, <1>2, <1>4, Defs DEF Addr
    <3> QED BY <3>1 DEF Outside
  <2> QED BY <2>1, <2>4, <2>5, <2>6
<1>6. s \in C /\ T[s] = e - s /\ D[s] = v
  BY DEF Cut, Join, SetBit
<1>7. heap_listp \in C /\ heap_listp # s
  BY <1>1 DEF Layout
<1>8. D \in [C -> {0, 1}]
  BY DEF Tagged, Cut, SetBit
<1>9. n[top - 1] = 1
  <2>1. top - 1 \in Addr
    BY LayoutFacts
  <2> QED BY <2>1, <1>4 DEF Tagged, Outside
<1> HIDE DEF C, T, D
<1>10. Tagged(n, top, C, T, D)
  <2>1. D[heap_listp] = 1
    BY <1>5, <1>7 DEF Tagged
  <2>2. ASSUME NEW p \in C
        PROVE  n[p - 1] = T[p] + D[p] /\ n[p + T[p] - 2] = T[p] + D[p]
    <3>1. CASE p = s
      <4>1. p + T[p] - 2 = e - 2
        BY <3>1, <1>6, <1>4
      <4> QED BY <4>1, <3>1, <1>6
    <3>2. CASE p # s
      BY <3>2, <1>5 DEF Tagged
    <3> QED BY <3>1, <3>2
  <2> QED BY <2>1, <2>2, <1>8, <1>9 DEF Tagged
<1>11. ListOK(n, F)
  <2>1. Spread(F)
    BY SpreadBlocks
  <2>2. \A p \in F : p \in Int /\ S[p] \in Int /\ S[p] >= 4 /\ (p < s => p + S[p] <= s)
    BY DEF Layout
  <2>3. \A p \in F : p + 1 < s - 1 \/ p > e - 2
    BY <2>2, <1>4
  <2>4. s - 1 > free_listp + 1 /\ s - 1 \in Int /\ e - 2 \in Int
    BY <1>4, Defs
  <2> QED BY <2>1, <2>3, <2>4, ListOutside
<1>12. Keeps(m, {p \in B : p < s \/ p >= e}, n, C)
  <2> SUFFICES ASSUME NEW p \in B, p < s \/ p >= e, Allocated(m, p)
               PROVE  /\ p \in C /\ Allocated(n, p)
                      /\ Block_size(n, p) = Block_size(m, p)
                      /\ \A a \in p .. (p + Block_size(m, p) - 3) : n[a] = m[a]
    BY DEF Keeps
  <2>1. Block_size(m, p) = S[p] /\ A[p] = 1
    BY Reads
  <2>2. p \in C /\ p # s
    BY <1>4 DEF C, Cut
  <2>3. Block_size(n, p) = T[p] /\ (Allocated(n, p) <=> D[p] = 1)
    BY <2>2, <1>1, <1>10, Reads
  <2> QED BY <2>1, <2>2, <2>3, <1>5
<1>13. ASSUME \A p \in B : s <= p /\ p < e => A[p] = 0
       PROVE  Keeps(m, B, n, C)
  <2>1. ASSUME NEW p \in B, Allocated(m, p) PROVE p < s \/ p >= e
    <3>1. A[p] = 1
      BY <2>1, Reads
    <3> QED BY <3>1, <1>2, <1>4, <1>13
  <2> QED BY <2>1, <1>12 DEF Keeps
<1> QED BY <1>1, <1>10, <1>11, <1>12, <1>13 DEF C, T, D

(* The free blocks from s up to e become one block that goes on the list.  *)
JoinGiven(m, n, top, B, S, A, s, e, F) ==
  /\ m \in Memory /\ n \in Memory
  /\ Layout(top, B, S) /\ Tagged(m, top, B, S, A)
  /\ s \in B /\ s # heap_listp /\ e \in B \union {top} /\ s < e
  /\ \A p \in B : s <= p /\ p < e => A[p] = 0
  /\ F = {p \in FreeOf(B, A) : p < s \/ p >= e} /\ ListOK(m, F)
  /\ n[s - 1] = e - s /\ n[e - 2] = e - s /\ n[s] = NULL
  /\ Outside(m, n, s - 1, e - 2)

JoinDone(m, n, top, B, S, A, s, e, F) ==
  LET C == Cut(B, s, e)
      T == Join(B, S, s, e)
      D == SetBit(C, A, s, 0)
      o == LIFO_INSERT(n, s)
  IN  /\ Heap(o, top, C, T, D, FreeOf(C, D))
      /\ FreeOf(C, D) = F \union {s}
      /\ Keeps(m, B, o, C)
      /\ \A a \in Addr : a > s + 1 /\ a < e => o[a] = n[a]

(* LIFO_INSERT of a merged run puts the one new free block on the list,    *)
(* and makes the memory a heap again.                                      *)
LEMMA JoinInsert ==
  ASSUME NEW m, NEW n, NEW top, NEW B, NEW S, NEW A, NEW s, NEW e, NEW F,
         JoinGiven(m, n, top, B, S, A, s, e, F)
  PROVE  JoinDone(m, n, top, B, S, A, s, e, F)
<1> DEFINE C == Cut(B, s, e)
<1> DEFINE T == Join(B, S, s, e)
<1> DEFINE D == SetBit(C, A, s, 0)
<1> DEFINE o == LIFO_INSERT(n, s)
<1>0. /\ m \in Memory /\ n \in Memory
      /\ Layout(top, B, S) /\ Tagged(m, top, B, S, A)
      /\ s \in B /\ s # heap_listp /\ e \in B \union {top} /\ s < e
      /\ \A p \in B : s <= p /\ p < e => A[p] = 0
      /\ F = {p \in FreeOf(B, A) : p < s \/ p >= e} /\ ListOK(m, F)
      /\ n[s - 1] = e - s /\ n[e - 2] = e - s /\ n[s] = NULL
      /\ Outside(m, n, s - 1, e - 2)
  BY DEF JoinGiven
<1>1. F \subseteq B \ {heap_listp} /\ (\A p \in F : p < s \/ p >= e) /\ s \notin F
  <2>1. s \in Int
    BY <1>0 DEF Layout
  <2> QED BY <1>0, <2>1 DEF FreeOf, Tagged
<1>2. n[s - 1] = (e - s) + 0 /\ n[e - 2] = (e - s) + 0
  <2>1. s \in Int /\ e \in Int
    BY <1>0, LayoutFacts
  <2> QED BY <1>0, <2>1
<1>3. /\ Layout(top, C, T) /\ Tagged(n, top, C, T, D) /\ ListOK(n, F)
      /\ Keeps(m, B, n, C)
  BY <1>0, <1>1, <1>2, JoinHeap
<1>4. FreeOf(C, D) = F \union {s}
  BY <1>0, <1>1 DEF FreeOf, Cut, SetBit
<1>5. s \in C /\ heap_listp \notin F \union {s}
  BY <1>0, <1>1 DEF Cut
<1>6. F \union {s} \subseteq C \ {heap_listp}
  BY <1>4, <1>5 DEF FreeOf
<1> HIDE DEF C, T, D
<1>7. Spread(F \union {s})
  BY <1>3, <1>6, SpreadBlocks
<1>8. /\ o \in Memory /\ ListOK(o, F \union {s})
      /\ \A a \in Addr : ~IsLinkWord(F \union {s}, a) => o[a] = n[a]
  <2>1. n[s] = NULL /\ n \in Memory /\ s \notin F /\ ListOK(n, F)
    BY <1>0, <1>1, <1>3
  <2> QED BY <2>1, <1>7, InsertLinks
<1> HIDE DEF o
<1>9. Tagged(o, top, C, T, D) /\ Keeps(n, C, o, C)
  BY <1>0, <1>3, <1>4, <1>8, LinkFrame
<1>10. Keeps(m, B, o, C)
  BY <1>3, <1>9, KeepsTrans
<1>11. ASSUME NEW a \in Addr, a > s + 1, a < e PROVE o[a] = n[a]
  <2>1. /\ \A p \in F : p \in Int /\ S[p] \in Int /\ S[p] >= 4 /\ (p < s => p + S[p] <= s)
        /\ s \in Int /\ s >= heap_listp
    BY <1>0, <1>1 DEF Layout
  <2>2. e \in Int /\ a \in Int
    BY <1>0, <1>11, LayoutFacts, Defs DEF Addr
  <2>3. ~IsLinkWord(F \union {s}, a)
    BY <2>1, <2>2, <1>1, <1>11, Defs DEF IsLinkWord
  <2> QED BY <2>3, <1>8
<1>12. Heap(o, top, C, T, D, FreeOf(C, D))
  BY <1>3, <1>4, <1>8, <1>9 DEF Heap
<1> QED BY <1>4, <1>10, <1>11, <1>12 DEF C, T, D, o, JoinDone

(* What coalesce returns for the block b, just freed and not yet listed.   *)
Coalesces(m, top, B, S, A, b, r) ==
  \E C, T, D :
    /\ Heap(r.mem, top, C, T, D, FreeOf(C, D))
    /\ Sparse(T, FreeOf(C, D))
    /\ Keeps(m, B, r.mem, C)
    /\ \A p \in C : D[p] = 1 => p \in B /\ A[p] = 1
    /\ r.bp \in FreeOf(C, D) /\ T[r.bp] >= S[b]

(* What coalesce is given.                                                 *)
Freed(m, top, B, S, A, b) ==
  /\ Heap(m, top, B, S, A, FreeOf(B, A) \ {b})
  /\ Sparse(S, FreeOf(B, A) \ {b})
  /\ b \in FreeOf(B, A) /\ m[b] = NULL

(* When everything from s up to e is free, its neighbours are not, and b   *)
(* is in it, the merged block s leaves no two free neighbours.             *)
LEMMA JoinSparse ==
  ASSUME NEW top, NEW B, NEW S, NEW A, Layout(top, B, S), A \in [B -> {0, 1}],
         A[heap_listp] = 1,
         NEW b \in B, Sparse(S, FreeOf(B, A) \ {b}),
         NEW s \in B, s # heap_listp, NEW e \in B \union {top}, s <= b, b < e,
         \A p \in B : p + S[p] = s => A[p] = 1,
         e # top => A[e] = 1
  PROVE  /\ Sparse(Join(B, S, s, e), FreeOf(Cut(B, s, e), SetBit(Cut(B, s, e), A, s, 0)))
         /\ Join(B, S, s, e)[s] >= S[b]
<1> DEFINE C == Cut(B, s, e)
<1> DEFINE T == Join(B, S, s, e)
<1> DEFINE D == SetBit(C, A, s, 0)
<1>1. /\ T[s] = e - s /\ s \in C
      /\ \A p \in C : p # s => p \in B /\ T[p] = S[p] /\ D[p] = A[p] /\ (p < s \/ p >= e)
  BY DEF Cut, Join, SetBit
<1>2. \A p \in B : p \in Int /\ S[p] \in Int /\ S[p] >= 2 /\ p + S[p] <= top
  BY DEF Layout
<1>3. \A p, q \in B : p < q => p + S[p] <= q
  BY DEF Layout
<1>4. top \in Int /\ top \notin B /\ e \in Int /\ s \in Int /\ b \in Int
  BY LayoutFacts
<1>5. T[s] >= S[b]
  BY <1>1, <1>2, <1>3, <1>4
<1> HIDE DEF T, D
<1>6. ASSUME NEW p \in FreeOf(C, D), NEW q \in FreeOf(C, D), p + T[p] = q
      PROVE  FALSE
  <2>1. p \in C /\ q \in C /\ D[p] = 0 /\ D[q] = 0
    BY DEF FreeOf
  <2> HIDE DEF C
  <2>2. CASE p = s
    <3>1. q = e
      BY <2>2, <1>1, <1>4, <1>6
    <3>2. e # s /\ e \in B
      BY <3>1, <2>1, <2>2, <1>1, <1>4
    <3> QED BY <3>1, <3>2, <2>1, <1>1, <1>4
  <2>3. CASE p # s /\ q = s
    BY <2>1, <2>3, <1>1, <1>6
  <2>4. CASE p # s /\ q # s
    <3>1. p # b /\ q # b
      BY <2>1, <2>4, <1>1, <1>4
    <3>2. p \in FreeOf(B, A) \ {b} /\ q \in FreeOf(B, A) \ {b} /\ p + S[p] = q
      BY <3>1, <2>1, <2>4, <1>1, <1>6 DEF FreeOf
    <3> QED BY <3>2 DEF Sparse
  <2> QED BY <2>2, <2>3, <2>4
<1>7. Sparse(T, FreeOf(C, D))
  BY <1>6 DEF Sparse
<1> QED BY <1>5, <1>7 DEF C, T, D

(* A block but the prologue has a block before it, and only one.           *)
LEMMA Before ==
  ASSUME NEW top, NEW B, NEW S, Layout(top, B, S),
         NEW q \in B \union {top}, q # heap_listp
  PROVE  \E p \in B : /\ p + S[p] = q /\ p < q /\ \A x \in B : x + S[x] = q => x = p
                      /\ \A x \in B : p < x => q <= x
<1>1. PICK p \in B : p + S[p] = q
  BY DEF Layout
<1>2. \A x, y \in B : x < y => x + S[x] <= y
  BY DEF Layout
<1>3. \A x \in B : x \in Int /\ S[x] \in Int /\ S[x] >= 2
  BY DEF Layout
<1>4. \A x \in B : x + S[x] = q => x = p
  BY <1>1, <1>2, <1>3
<1> QED BY <1>1, <1>2, <1>3, <1>4

(* What the four cases of coalesce start from.                             *)
FreedShape(m, top, B, S, A, b) ==
  /\ m \in Memory /\ Layout(top, B, S) /\ Tagged(m, top, B, S, A)
  /\ b \in B /\ b # heap_listp /\ A[b] = 0 /\ b + S[b] \in B \union {top}
  /\ b \in Int /\ S[b] \in Int /\ S[b] >= 4 /\ b < b + S[b]
  /\ b - 1 \in Addr /\ b + S[b] - 2 \in Addr
  /\ S[b] \in Nat
  /\ \A p \in B : b < p => b + S[b] <= p
  /\ ListOK(m, FreeOf(B, A) \ {b})

(* What coalesce is given, spelled out.                                    *)
LEMMA FreedFacts ==
  ASSUME NEW m, NEW top, NEW B, NEW S, NEW A, NEW b, Freed(m, top, B, S, A, b)
  PROVE  FreedShape(m, top, B, S, A, b)
<1>1. m \in Memory /\ Layout(top, B, S) /\ Tagged(m, top, B, S, A) /\ ListOK(m, FreeOf(B, A) \ {b})
  BY DEF Freed, Heap
<1>2. b \in B /\ A[b] = 0 /\ b # heap_listp
  BY <1>1 DEF Freed, FreeOf, Tagged
<1>3. b + S[b] \in B \union {top} /\ S[b] >= 4 /\ S[b] \in Nat /\ b \in Int
  BY <1>1, <1>2 DEF Layout
<1>4. b - 1 \in Addr /\ b + S[b] - 2 \in Addr
  BY <1>1, <1>2, LayoutFacts
<1>5. \A p \in B : b < p => b + S[b] <= p
  BY <1>1, <1>2 DEF Layout
<1>6. S[b] \in Int /\ b < b + S[b]
  BY <1>3
<1> QED BY <1>1, <1>2, <1>3, <1>4, <1>5, <1>6 DEF FreedShape

(* A merge of b with its free neighbours is what coalesce promises.        *)
LEMMA JoinCoalesces ==
  ASSUME NEW m, NEW top, NEW B, NEW S, NEW A, NEW b, Freed(m, top, B, S, A, b),
         NEW m1, NEW n, NEW s, NEW e, NEW F,
         JoinGiven(m1, n, top, B, S, A, s, e, F), Keeps(m, B, m1, B),
         s <= b, b < e,
         \A p \in B : p + S[p] = s => A[p] = 1,
         e # top => A[e] = 1
  PROVE  /\ Coalesces(m, top, B, S, A, b, [mem |-> LIFO_INSERT(n, s), bp |-> s])
         /\ \A a \in Addr : a > s + 1 /\ a < e => LIFO_INSERT(n, s)[a] = n[a]
<1> DEFINE C == Cut(B, s, e)
<1> DEFINE T == Join(B, S, s, e)
<1> DEFINE D == SetBit(C, A, s, 0)
<1> DEFINE o == LIFO_INSERT(n, s)
<1>1. /\ Heap(o, top, C, T, D, FreeOf(C, D))
      /\ FreeOf(C, D) = F \union {s}
      /\ Keeps(m1, B, o, C)
      /\ \A a \in Addr : a > s + 1 /\ a < e => o[a] = n[a]
  BY JoinInsert DEF JoinDone
<1>2. Sparse(T, FreeOf(C, D)) /\ T[s] >= S[b]
  <2>1. /\ Layout(top, B, S) /\ A \in [B -> {0, 1}] /\ A[heap_listp] = 1
        /\ s \in B /\ s # heap_listp /\ e \in B \union {top}
    BY DEF JoinGiven, Tagged
  <2>2. Sparse(S, FreeOf(B, A) \ {b}) /\ b \in B
    BY DEF Freed, FreeOf
  <2> QED BY <2>1, <2>2, JoinSparse
<1>3. s \in FreeOf(C, D)
  BY <1>1
<1>4. Keeps(m, B, o, C)
  BY <1>1, KeepsTrans
<1>5. \A p \in C : D[p] = 1 => p \in B /\ A[p] = 1
  BY DEF Cut, SetBit
<1> HIDE DEF C, T, D, o
<1> DEFINE r == [mem |-> o, bp |-> s]
<1>6. r.mem = o /\ r.bp = s
  OBVIOUS
<1> HIDE DEF r
<1>7. Coalesces(m, top, B, S, A, b, r)
  <2>1. /\ Heap(r.mem, top, C, T, D, FreeOf(C, D))
        /\ Sparse(T, FreeOf(C, D)) /\ Keeps(m, B, r.mem, C)
        /\ \A p \in C : D[p] = 1 => p \in B /\ A[p] = 1
        /\ r.bp \in FreeOf(C, D) /\ T[r.bp] >= S[b]
    BY <1>1, <1>2, <1>3, <1>4, <1>5, <1>6
  <2> QED BY <2>1 DEF Coalesces
<1> QED BY <1>1, <1>7 DEF r, o

(* coalesce when neither neighbour is free.                                *)
LEMMA CoalesceAlone ==
  ASSUME NEW m, NEW top, NEW B, NEW S, NEW A, NEW b, Freed(m, top, B, S, A, b),
         \A p \in B : p + S[p] = b => A[p] = 1,
         b + S[b] # top => A[b + S[b]] = 1
  PROVE  Coalesces(m, top, B, S, A, b, [mem |-> LIFO_INSERT(m, b), bp |-> b])
<1> DEFINE e == b + S[b]
<1> DEFINE F == FreeOf(B, A) \ {b}
<1>1. /\ m \in Memory /\ Layout(top, B, S) /\ Tagged(m, top, B, S, A)
      /\ b \in B /\ b # heap_listp /\ A[b] = 0 /\ e \in B \union {top}
      /\ b \in Int /\ S[b] \in Int /\ b < e
      /\ \A p \in B : b < p => e <= p
      /\ ListOK(m, F)
  <2>1. FreedShape(m, top, B, S, A, b)
    BY FreedFacts
  <2> QED BY <2>1 DEF FreedShape
<1>2. \A p \in B : p \in Int
  BY <1>1 DEF Layout
<1>3. \A p \in B : b <= p /\ p < e => A[p] = 0
  BY <1>1, <1>2
<1>4. F = {p \in FreeOf(B, A) : p < b \/ p >= e}
  <2>1. \A p \in FreeOf(B, A) : p \in B
    BY DEF FreeOf
  <2>2. \A p \in FreeOf(B, A) : p # b <=> p < b \/ p >= e
    <3>1. e \in Int
      BY <1>1
    <3>2. b \in Int /\ b < e /\ \A p \in B : p \in Int /\ (b < p => e <= p)
      BY <1>1, <1>2
    <3> HIDE DEF e
    <3> QED BY <2>1, <3>1, <3>2
  <2> QED BY <2>2
<1>5. m[b - 1] = e - b /\ m[e - 2] = e - b /\ m[b] = NULL
  BY <1>1 DEF Tagged, Freed
<1>6. Outside(m, m, b - 1, e - 2)
  BY DEF Outside
<1>7. JoinGiven(m, m, top, B, S, A, b, e, F)
  BY <1>1, <1>3, <1>4, <1>5, <1>6 DEF JoinGiven
<1>8. Keeps(m, B, m, B)
  BY DEF Keeps
<1>9. b <= b /\ (e # top => A[e] = 1)
  BY <1>1
<1> HIDE DEF e, F
<1> QED BY <1>1, <1>7, <1>8, <1>9, JoinCoalesces

(* The writes of coalesce, when c is the block above b, s the block below. *)
NextMerged(m, S, b) ==
  LET c == b + S[b]
      e == c + S[c]
  IN  [mem |-> LIFO_INSERT(PUT(PUT(REMOVE_BLOCK(m, c), b - 1, e - b),
                               e - 2, e - b), b),
       bp  |-> b]
PrevMerged(m, S, b, s) ==
  LET e == b + S[b]
  IN  [mem |-> LIFO_INSERT(PUT(PUT(REMOVE_BLOCK(m, s), e - 2, e - s),
                               s - 1, e - s), s),
       bp  |-> s]
BothMerged(m, S, b, s) ==
  LET c == b + S[b]
      e == c + S[c]
  IN  [mem |-> LIFO_INSERT(PUT(PUT(REMOVE_BLOCK(REMOVE_BLOCK(m, c), s),
                                   s - 1, e - s), e - 2, e - s), s),
       bp  |-> s]

(* coalesce with the block above.                                          *)
LEMMA CoalesceNext ==
  ASSUME NEW m, NEW top, NEW B, NEW S, NEW A, NEW b, Freed(m, top, B, S, A, b),
         \A p \in B : p + S[p] = b => A[p] = 1,
         b + S[b] \in B, A[b + S[b]] = 0
  PROVE  /\ Coalesces(m, top, B, S, A, b, coalesce_next(m, b))
         /\ coalesce_next(m, b) = NextMerged(m, S, b)
<1> DEFINE c == b + S[b]
<1> DEFINE e == c + S[c]
<1> DEFINE F == FreeOf(B, A) \ {b}
<1> DEFINE m1 == REMOVE_BLOCK(m, c)
<1> DEFINE m2 == PUT(m1, b - 1, e - b)
<1> DEFINE m3 == PUT(m2, e - 2, e - b)
<1> DEFINE o == LIFO_INSERT(m3, b)
<1>1. /\ m \in Memory /\ Layout(top, B, S) /\ Tagged(m, top, B, S, A)
      /\ b \in B /\ b # heap_listp /\ A[b] = 0
      /\ b \in Int /\ S[b] \in Int /\ S[b] >= 4 /\ b < c
      /\ \A p \in B : b < p => c <= p
      /\ b - 1 \in Addr
      /\ ListOK(m, F)
  <2>1. FreedShape(m, top, B, S, A, b)
    BY FreedFacts
  <2> QED BY <2>1 DEF FreedShape
<1>2. /\ c \in B /\ c \in FreeOf(B, A) /\ c \in F /\ e \in B \union {top}
      /\ c \in Int /\ S[c] \in Int /\ S[c] >= 4 /\ e \in Int /\ c # heap_listp
      /\ e <= HeapBase + MAX_HEAP /\ e - 2 \in Addr
      /\ \A p \in B : p \in Int /\ (c < p => e <= p)
  <2>1. c \in B /\ A[c] = 0
    OBVIOUS
  <2>2. c \in FreeOf(B, A) /\ c \in F /\ c # heap_listp
    BY <2>1, <1>1 DEF FreeOf, Tagged
  <2>3. /\ e \in B \union {top} /\ c \in Int /\ S[c] \in Int /\ S[c] >= 4
        /\ e <= top /\ top <= HeapBase + MAX_HEAP /\ top \in Int
        /\ \A p \in B : p \in Int /\ (c < p => e <= p)
    BY <1>1, <2>1, <2>2 DEF Layout
  <2>4. e - 2 \in Addr
    BY <1>1, <2>1, LayoutFacts
  <2> QED BY <2>2, <2>3, <2>4, Defs
<1> HIDE DEF c, e
<1>3. F \subseteq B \ {heap_listp} /\ F \subseteq FreeOf(B, A) /\ b \in B \ F
  BY <1>1 DEF FreeOf, Tagged
<1>4. Spread(F)
  BY <1>1, <1>3, SpreadBlocks
<1>5. /\ m1 \in Memory /\ ListOK(m1, F \ {c})
      /\ \A a \in Addr : ~IsLinkWord(F, a) => m1[a] = m[a]
  BY <1>1, <1>2, <1>4, RemoveLinks
<1>6. Tagged(m1, top, B, S, A) /\ Keeps(m, B, m1, B) /\ m1[b] = NULL
  <2>1. m[b] = NULL
    BY DEF Freed
  <2>2. /\ Tagged(m1, top, B, S, A) /\ Keeps(m, B, m1, B)
        /\ \A p \in B \ F : m1[p] = m[p]
    <3>1. F \subseteq FreeOf(B, A) /\ Layout(top, B, S) /\ Tagged(m, top, B, S, A)
      BY <1>1, <1>3
    <3>2. m \in Memory /\ \A a \in Addr : ~IsLinkWord(F, a) => m1[a] = m[a]
      BY <1>1, <1>5
    <3> HIDE DEF F, m1
    <3> QED BY <3>1, <3>2, LinkFrame
  <2> QED BY <2>1, <2>2, <1>3
<1>7. coalesce_next(m, b) = [mem |-> o, bp |-> b]
  <2>1. GET_SIZE(m, HDRP(b)) = S[b] /\ NEXT_BLKP(m, b) = c
    BY <1>1, Reads DEF c
  <2>2. GET_SIZE(m, HDRP(c)) = S[c]
    BY <1>1, <1>2, Reads
  <2>3. S[b] + S[c] = e - b
    BY <1>1, <1>2 DEF c, e
  <2>4. HDRP(b) = b - 1 /\ PACK(e - b, 0) = e - b
    BY <1>1, <1>2 DEF HDRP, PACK, WSIZE
  <2>5. FTRP(m2, b) = e - 2
    <3>1. m2[b - 1] = e - b
      BY <1>1, <1>5 DEF PUT, Memory
    <3>2. (e - b) % 2 = 0
      <4>1. e % 2 = 0 /\ b % 2 = 0
        <5>1. \A p \in B : p % 2 = 0
          BY <1>1 DEF Layout
        <5> QED BY <5>1, <1>1, <1>2, LayoutFacts
      <4> QED BY <4>1, <1>1, <1>2
    <3>3. GET_SIZE(m2, b - 1) = e - b
      BY <3>1, <3>2, <1>1, <1>2 DEF GET_SIZE
    <3> QED BY <3>3, <2>4, <1>1, <1>2 DEF FTRP, DSIZE
  <2> HIDE DEF m1
  <2> QED BY <2>1, <2>2, <2>3, <2>4, <2>5 DEF coalesce_next, m1
<1>8. e - b \in Word /\ b - 1 # e - 2 /\ b < e
  BY <1>1, <1>2, Defs DEF Word, c, e, Addr
<1> HIDE DEF m1
<1>9. /\ m3 \in Memory /\ m3[b - 1] = e - b /\ m3[e - 2] = e - b
      /\ \A a \in Addr : a # b - 1 /\ a # e - 2 => m3[a] = m1[a]
  BY <1>1, <1>2, <1>5, <1>8 DEF PUT, Memory
<1> HIDE DEF m3
<1>10. m3[b] = NULL /\ Outside(m1, m3, b - 1, e - 2)
  <2>1. b \in Addr
    BY <1>1, LayoutFacts
  <2>2. b # b - 1 /\ b # e - 2
    BY <1>1, <1>2, Defs DEF c, e
  <2>3. \A a \in Addr : a \in Int
    BY Defs DEF Addr
  <2> QED BY <2>1, <2>2, <2>3, <1>1, <1>2, <1>6, <1>8, <1>9 DEF Outside
<1>11. \A p \in B : b <= p /\ p < e => p = b \/ p = c
  BY <1>1, <1>2
<1>12. F \ {c} = {p \in FreeOf(B, A) : p < b \/ p >= e}
  <2>1. b < c /\ c < e
    BY <1>1, <1>2 DEF e
  <2>2. \A p \in FreeOf(B, A) : p \in B
    BY DEF FreeOf
  <2>3. \A p \in FreeOf(B, A) : p # b /\ p # c <=> p < b \/ p >= e
    BY <2>1, <2>2, <1>1, <1>2, <1>11
  <2> QED BY <2>3
<1>13. \A p \in B : b <= p /\ p < e => A[p] = 0
  BY <1>11, <1>1, <1>2 DEF FreeOf
<1>131. JoinGiven(m1, m3, top, B, S, A, b, e, F \ {c})
  BY <1>1, <1>2, <1>5, <1>6, <1>8, <1>9, <1>10, <1>12, <1>13 DEF JoinGiven
<1>14. \A p \in B : p + S[p] = b => A[p] = 1
  OBVIOUS
<1>15. e # top => A[e] = 1
  <2>1. Sparse(S, F)
    BY DEF Freed
  <2>2. A \in [B -> {0, 1}]
    BY <1>1 DEF Tagged
  <2>3. SUFFICES ASSUME e # top, A[e] # 1 PROVE FALSE
    OBVIOUS
  <2>4. e \in F
    BY <1>1, <1>2, <1>8, <2>2, <2>3 DEF FreeOf
  <2> QED BY <2>4, <2>1, <1>2 DEF Sparse, e
<1>16. b <= b
  BY <1>1
<1> HIDE DEF F, o
<1>17. Coalesces(m, top, B, S, A, b, [mem |-> o, bp |-> b])
  BY <1>6, <1>8, <1>131, <1>14, <1>15, <1>16, JoinCoalesces DEF o
<1>18. [mem |-> o, bp |-> b] = NextMerged(m, S, b)
  BY DEF NextMerged, o, m3, m1, c, e
<1> QED BY <1>7, <1>17, <1>18

(* coalesce with the block below.                                          *)
LEMMA CoalescePrev ==
  ASSUME NEW m, NEW top, NEW B, NEW S, NEW A, NEW b, Freed(m, top, B, S, A, b),
         NEW s \in B, s + S[s] = b, A[s] = 0,
         b + S[b] # top => A[b + S[b]] = 1
  PROVE  /\ Coalesces(m, top, B, S, A, b, coalesce_prev(m, b))
         /\ coalesce_prev(m, b) = PrevMerged(m, S, b, s)
<1> DEFINE e == b + S[b]
<1> DEFINE F == FreeOf(B, A) \ {b}
<1> DEFINE m1 == REMOVE_BLOCK(m, s)
<1> DEFINE m2 == PUT(m1, e - 2, e - s)
<1> DEFINE m3 == PUT(m2, s - 1, e - s)
<1> DEFINE o == LIFO_INSERT(m3, s)
<1>1. /\ m \in Memory /\ Layout(top, B, S) /\ Tagged(m, top, B, S, A)
      /\ b \in B /\ b # heap_listp /\ A[b] = 0 /\ e \in B \union {top}
      /\ b \in Int /\ S[b] \in Int /\ S[b] >= 4 /\ b < e /\ e \in Int
      /\ \A p \in B : b < p => e <= p
      /\ e - 2 \in Addr /\ b - 1 \in Addr
      /\ ListOK(m, F)
  <2>1. FreedShape(m, top, B, S, A, b)
    BY FreedFacts
  <2> QED BY <2>1 DEF FreedShape
<1>2. /\ s \in FreeOf(B, A) /\ s # heap_listp
      /\ s \in Int /\ S[s] \in Int /\ S[s] >= 4 /\ s < b
      /\ s - 1 \in Addr /\ s \in Addr /\ b - 2 \in Addr
      /\ \A p \in B : p \in Int /\ (s < p => b <= p)
  <2>1. s \in FreeOf(B, A) /\ s # heap_listp
    BY <1>1 DEF FreeOf, Tagged
  <2>2. /\ s \in Int /\ S[s] \in Int /\ S[s] >= 4
        /\ \A p \in B : p \in Int /\ (s < p => b <= p)
    BY <1>1, <2>1 DEF Layout
  <2>3. s - 1 \in Addr /\ s \in Addr /\ s + S[s] - 2 \in Addr
    BY <1>1, LayoutFacts
  <2> QED BY <2>1, <2>2, <2>3
<1> HIDE DEF e
<1>3. F \subseteq B \ {heap_listp} /\ F \subseteq FreeOf(B, A) /\ s \in F
  BY <1>1, <1>2 DEF FreeOf, Tagged
<1>4. Spread(F)
  BY <1>1, <1>3, SpreadBlocks
<1>5. /\ m1 \in Memory /\ ListOK(m1, F \ {s}) /\ m1[s] = NULL
      /\ \A a \in Addr : ~IsLinkWord(F, a) => m1[a] = m[a]
  <2>1. m \in Memory /\ s \in F /\ Spread(F) /\ ListOK(m, F)
    BY <1>1, <1>3, <1>4
  <2> HIDE DEF F
  <2> QED BY <2>1, RemoveLinks
<1>6. Tagged(m1, top, B, S, A) /\ Keeps(m, B, m1, B)
  BY <1>1, <1>3, <1>5, LinkFrame
<1>7. e - s \in Word /\ s - 1 # e - 2 /\ s < e /\ b - 2 # e - 2 /\ b - 2 # s - 1
      /\ s # s - 1 /\ s # e - 2 /\ b - 2 > s + 1 /\ b - 2 < e
  BY <1>1, <1>2, Defs DEF Word, e, Addr
<1>8. m1[b - 2] = S[s]
  BY <1>1, <1>2, <1>6 DEF Tagged
<1>9. S[b] + S[s] = e - s /\ PACK(e - s, 0) = e - s
  BY <1>1, <1>2 DEF e, PACK
<1>10. /\ GET_SIZE(m, HDRP(b)) = S[b] /\ PREV_BLKP(m, b) = s
       /\ GET_SIZE(m, HDRP(s)) = S[s] /\ FTRP(m1, b) = e - 2
  <2>1. PREV_BLKP(m, s + S[s]) = s
    BY <1>1, Reads
  <2>2. GET_SIZE(m, HDRP(b)) = S[b] /\ GET_SIZE(m, HDRP(s)) = S[s]
    BY <1>1, Reads
  <2>3. FTRP(m1, b) = e - 2
    BY <1>1, <1>6, Reads DEF e
  <2> QED BY <2>1, <2>2, <2>3
<1>11. \A x : x[b - 2] = S[s] => PREV_BLKP(x, b) = s
  <2>1. S[s] % 2 = 0
    BY <1>1 DEF Layout
  <2> QED BY <2>1, <1>1, <1>2 DEF PREV_BLKP, GET_SIZE, DSIZE
<1> HIDE DEF m1
<1>12. m2 \in Memory /\ m2[e - 2] = e - s
       /\ \A a \in Addr : a # e - 2 => m2[a] = m1[a]
  BY <1>1, <1>5, <1>7 DEF PUT, Memory
<1> HIDE DEF m2
<1>13. /\ m3 \in Memory /\ m3[s - 1] = e - s /\ m3[e - 2] = e - s
       /\ \A a \in Addr : a # s - 1 /\ a # e - 2 => m3[a] = m1[a]
  BY <1>1, <1>2, <1>7, <1>12 DEF PUT, Memory
<1>14. m2[b - 2] = S[s] /\ m3[b - 2] = S[s]
  BY <1>2, <1>7, <1>8, <1>12, <1>13
<1> HIDE DEF m3
<1>15. m3[s] = NULL /\ Outside(m1, m3, s - 1, e - 2)
  <2>1. \A a \in Addr : a \in Int
    BY Defs DEF Addr
  <2> QED BY <2>1, <1>1, <1>2, <1>5, <1>7, <1>13 DEF Outside
<1>16. \A p \in B : s <= p /\ p < e => p = s \/ p = b
  BY <1>1, <1>2
<1>17. F \ {s} = {p \in FreeOf(B, A) : p < s \/ p >= e}
  <2>2. \A p \in FreeOf(B, A) : p \in B
    BY DEF FreeOf
  <2>3. \A p \in FreeOf(B, A) : p # b /\ p # s <=> p < s \/ p >= e
    BY <2>2, <1>1, <1>2, <1>7, <1>16
  <2> QED BY <2>3
<1>18. \A p \in B : s <= p /\ p < e => A[p] = 0
  BY <1>16, <1>1
<1>19. JoinGiven(m1, m3, top, B, S, A, s, e, F \ {s})
  BY <1>1, <1>2, <1>5, <1>6, <1>7, <1>13, <1>15, <1>17, <1>18 DEF JoinGiven
<1>20. \A p \in B : p + S[p] = s => A[p] = 1
  <2>1. Sparse(S, F)
    BY DEF Freed
  <2>2. A \in [B -> {0, 1}]
    BY <1>1 DEF Tagged
  <2>3. SUFFICES ASSUME NEW p \in B, p + S[p] = s, A[p] # 1 PROVE FALSE
    OBVIOUS
  <2>4. p # b
    BY <2>3, <1>1, <1>2
  <2>5. p \in F
    BY <2>2, <2>3, <2>4 DEF FreeOf
  <2> QED BY <2>1, <2>3, <2>5, <1>3 DEF Sparse
<1>21. s <= b /\ b < e /\ (e # top => A[e] = 1)
  BY <1>1, <1>2 DEF e
<1> HIDE DEF F
<1>22. /\ Coalesces(m, top, B, S, A, b, [mem |-> o, bp |-> s])
       /\ \A a \in Addr : a > s + 1 /\ a < e => o[a] = m3[a]
  BY <1>6, <1>19, <1>20, <1>21, JoinCoalesces
<1> HIDE DEF o
<1>23. o[b - 2] = S[s]
  BY <1>2, <1>7, <1>14, <1>22
<1>24. PREV_BLKP(m2, b) = s /\ PREV_BLKP(m3, b) = s /\ PREV_BLKP(o, b) = s
  BY <1>11, <1>14, <1>23
<1>25. HDRP(s) = s - 1
  BY DEF HDRP, WSIZE
<1>26. coalesce_prev(m, b) = [mem |-> o, bp |-> s]
  BY <1>9, <1>10, <1>24, <1>25 DEF coalesce_prev, m1, m2, m3, o
<1>27. [mem |-> o, bp |-> s] = PrevMerged(m, S, b, s)
  BY DEF PrevMerged, o, m3, m2, m1, e
<1> QED BY <1>22, <1>26, <1>27

(* coalesce with both neighbours.                                          *)
LEMMA CoalesceBoth ==
  ASSUME NEW m, NEW top, NEW B, NEW S, NEW A, NEW b, Freed(m, top, B, S, A, b),
         NEW s \in B, s + S[s] = b, A[s] = 0,
         b + S[b] \in B, A[b + S[b]] = 0
  PROVE  /\ Coalesces(m, top, B, S, A, b, coalesce_both(m, b))
         /\ coalesce_both(m, b) = BothMerged(m, S, b, s)
<1> DEFINE c == b + S[b]
<1> DEFINE e == c + S[c]
<1> DEFINE F == FreeOf(B, A) \ {b}
<1> DEFINE m1 == REMOVE_BLOCK(m, c)
<1> DEFINE m2 == REMOVE_BLOCK(m1, s)
<1> DEFINE m3 == PUT(m2, s - 1, e - s)
<1> DEFINE m4 == PUT(m3, e - 2, e - s)
<1> DEFINE o == LIFO_INSERT(m4, s)
<1>1. /\ m \in Memory /\ Layout(top, B, S) /\ Tagged(m, top, B, S, A)
      /\ b \in B /\ b # heap_listp /\ A[b] = 0
      /\ b \in Int /\ S[b] \in Int /\ S[b] >= 4 /\ b < c /\ c \in Int
      /\ \A p \in B : b < p => c <= p
      /\ ListOK(m, F)
  <2>1. FreedShape(m, top, B, S, A, b)
    BY FreedFacts
  <2> QED BY <2>1 DEF FreedShape
<1>2. /\ s \in FreeOf(B, A) /\ s # heap_listp
      /\ s \in Int /\ S[s] \in Int /\ S[s] >= 4 /\ s < b
      /\ s - 1 \in Addr /\ s \in Addr /\ b - 2 \in Addr
      /\ \A p \in B : p \in Int /\ (s < p => b <= p)
  <2>1. s \in FreeOf(B, A) /\ s # heap_listp
    BY <1>1 DEF FreeOf, Tagged
  <2>2. /\ s \in Int /\ S[s] \in Int /\ S[s] >= 4
        /\ \A p \in B : p \in Int /\ (s < p => b <= p)
    BY <1>1, <2>1 DEF Layout
  <2>3. s - 1 \in Addr /\ s \in Addr /\ s + S[s] - 2 \in Addr
    BY <1>1, LayoutFacts
  <2> QED BY <2>1, <2>2, <2>3
<1>3. /\ c \in B /\ A[c] = 0 /\ c \in FreeOf(B, A) /\ c # heap_listp /\ e \in B \union {top}
      /\ S[c] \in Int /\ S[c] >= 4 /\ e \in Int
      /\ e <= HeapBase + MAX_HEAP /\ e - 2 \in Addr
      /\ \A p \in B : c < p => e <= p
  <2>1. c \in B /\ A[c] = 0
    OBVIOUS
  <2>2. c \in FreeOf(B, A) /\ c # heap_listp
    BY <2>1, <1>1 DEF FreeOf, Tagged
  <2>3. /\ e \in B \union {top} /\ c \in Int /\ S[c] \in Int /\ S[c] >= 4
        /\ e <= top /\ top <= HeapBase + MAX_HEAP /\ top \in Int
        /\ \A p \in B : c < p => e <= p
    BY <1>1, <2>1, <2>2 DEF Layout
  <2>4. e - 2 \in Addr
    BY <1>1, <2>1, LayoutFacts
  <2> QED BY <2>1, <2>2, <2>3, <2>4, Defs
<1>4. /\ s < b /\ b < c /\ c < e /\ e - s \in Word /\ s - 1 # e - 2 /\ b - 2 # e - 2
      /\ b - 2 # s - 1 /\ s # s - 1 /\ s # e - 2 /\ b - 2 > s + 1 /\ b - 2 < e
      /\ s < e /\ b - 1 # s - 1 /\ c - 1 # s - 1 /\ b < e
      /\ b - 1 \in Addr /\ c - 1 \in Addr
  <2>1. b - 1 \in Addr /\ c - 1 \in Addr
    BY <1>1, <1>3, LayoutFacts
  <2> QED BY <2>1, <1>1, <1>2, <1>3, Defs DEF Word, e, Addr
<1> HIDE DEF c, e
<1>5. /\ F \subseteq B \ {heap_listp} /\ F \subseteq FreeOf(B, A)
      /\ s \in F \ {c} /\ c \in F /\ F \ {c} \subseteq B \ {heap_listp}
      /\ F \ {c} \subseteq FreeOf(B, A)
  BY <1>1, <1>2, <1>3, <1>4 DEF FreeOf, Tagged
<1>6. Spread(F) /\ Spread(F \ {c})
  BY <1>1, <1>5, SpreadBlocks
<1>7. /\ m1 \in Memory /\ ListOK(m1, F \ {c})
      /\ \A a \in Addr : ~IsLinkWord(F, a) => m1[a] = m[a]
  <2>1. m \in Memory /\ c \in F /\ Spread(F) /\ ListOK(m, F)
    BY <1>1, <1>5, <1>6
  <2> HIDE DEF F
  <2> QED BY <2>1, RemoveLinks
<1>8. Tagged(m1, top, B, S, A) /\ Keeps(m, B, m1, B)
  BY <1>1, <1>5, <1>7, LinkFrame
<1> HIDE DEF m1
<1>9. /\ m2 \in Memory /\ ListOK(m2, (F \ {c}) \ {s}) /\ m2[s] = NULL
      /\ \A a \in Addr : ~IsLinkWord(F \ {c}, a) => m2[a] = m1[a]
  BY <1>5, <1>6, <1>7, RemoveLinks
<1>10. Tagged(m2, top, B, S, A) /\ Keeps(m1, B, m2, B)
  BY <1>1, <1>5, <1>7, <1>8, <1>9, LinkFrame
<1>11. Keeps(m, B, m2, B)
  BY <1>8, <1>10, KeepsTrans
<1>12. m2[b - 2] = S[s]
  BY <1>1, <1>2, <1>10 DEF Tagged
<1>13. S[b] + S[s] + S[c] = e - s /\ PACK(e - s, 0) = e - s
  BY <1>1, <1>2, <1>3, <1>4 DEF c, e, PACK
<1>14. \A x : x[b - 2] = S[s] => PREV_BLKP(x, b) = s
  <2>1. S[s] % 2 = 0
    BY <1>1 DEF Layout
  <2> QED BY <2>1, <1>1, <1>2 DEF PREV_BLKP, GET_SIZE, DSIZE
<1>15. /\ GET_SIZE(m, HDRP(b)) = S[b] /\ PREV_BLKP(m, b) = s /\ PREV_BLKP(m1, b) = s
       /\ GET_SIZE(m, HDRP(s)) = S[s] /\ NEXT_BLKP(m, b) = c
       /\ GET_SIZE(m, FTRP(m, c)) = S[c]
  <2>1. PREV_BLKP(m, s + S[s]) = s /\ PREV_BLKP(m1, s + S[s]) = s
    BY <1>1, <1>8, Reads
  <2>2. GET_SIZE(m, HDRP(b)) = S[b] /\ GET_SIZE(m, HDRP(s)) = S[s] /\ NEXT_BLKP(m, b) = c
    BY <1>1, Reads DEF c
  <2>3. GET_SIZE(m, FTRP(m, c)) = S[c]
    BY <1>1, <1>3, Reads
  <2> QED BY <2>1, <2>2, <2>3
<1> HIDE DEF m2
<1>16. m3 \in Memory /\ m3[s - 1] = e - s /\ \A a \in Addr : a # s - 1 => m3[a] = m2[a]
  BY <1>2, <1>4, <1>9 DEF PUT, Memory
<1> HIDE DEF m3
<1>17. NEXT_BLKP(m3, b) = c /\ FTRP(m3, c) = e - 2
  <2>1. m3[b - 1] = m2[b - 1] /\ m3[c - 1] = m2[c - 1]
    BY <1>4, <1>16
  <2>2. m2[b - 1] = S[b] /\ m2[c - 1] = S[c]
    BY <1>1, <1>2, <1>3, <1>10 DEF Tagged
  <2>3. S[b] % 2 = 0 /\ S[c] % 2 = 0
    BY <1>1, <1>3 DEF Layout
  <2>4. GET_SIZE(m3, b - 1) = S[b] /\ GET_SIZE(m3, c - 1) = S[c]
    BY <2>1, <2>2, <2>3, <1>1, <1>3 DEF GET_SIZE
  <2>5. c = b + S[b] /\ e = c + S[c]
    BY DEF c, e
  <2>6. NEXT_BLKP(m3, b) = b + GET_SIZE(m3, b - 1) /\ FTRP(m3, c) = c + GET_SIZE(m3, c - 1) - 2
    BY DEF NEXT_BLKP, FTRP, HDRP, WSIZE, DSIZE
  <2>7. NEXT_BLKP(m3, b) = b + S[b] /\ FTRP(m3, c) = c + S[c] - 2
    BY <2>4, <2>6
  <2>8. c \in Int /\ S[c] \in Int
    BY <1>1, <1>3
  <2> QED BY <2>5, <2>7, <2>8
<1>18. /\ m4 \in Memory /\ m4[s - 1] = e - s /\ m4[e - 2] = e - s
       /\ \A a \in Addr : a # s - 1 /\ a # e - 2 => m4[a] = m2[a]
  BY <1>2, <1>3, <1>4, <1>16 DEF PUT, Memory
<1> HIDE DEF m4
<1>19. m4[b - 2] = S[s]
  BY <1>2, <1>4, <1>12, <1>18
<1>20. m4[s] = NULL /\ Outside(m2, m4, s - 1, e - 2)
  <2>1. \A a \in Addr : a \in Int
    BY Defs DEF Addr
  <2> QED BY <2>1, <1>2, <1>3, <1>4, <1>9, <1>18 DEF Outside
<1>21. \A p \in B : s <= p /\ p < e => p = s \/ p = b \/ p = c
  BY <1>1, <1>2, <1>3
<1>22. (F \ {c}) \ {s} = {p \in FreeOf(B, A) : p < s \/ p >= e}
  <2>2. \A p \in FreeOf(B, A) : p \in B
    BY DEF FreeOf
  <2>3. \A p \in FreeOf(B, A) : p # b /\ p # s /\ p # c <=> p < s \/ p >= e
    BY <2>2, <1>1, <1>2, <1>3, <1>4, <1>21
  <2> QED BY <2>3
<1>23. \A p \in B : s <= p /\ p < e => A[p] = 0
  BY <1>21, <1>1, <1>3
<1>24. JoinGiven(m2, m4, top, B, S, A, s, e, (F \ {c}) \ {s})
  BY <1>1, <1>2, <1>3, <1>4, <1>9, <1>10, <1>18, <1>20, <1>22, <1>23 DEF JoinGiven
<1>25. Sparse(S, F) /\ A \in [B -> {0, 1}]
  BY <1>1 DEF Freed, Tagged
<1>26. \A p \in B : p + S[p] = s => A[p] = 1
  <2>1. SUFFICES ASSUME NEW p \in B, p + S[p] = s, A[p] # 1 PROVE FALSE
    OBVIOUS
  <2>2. p # b
    BY <2>1, <1>1, <1>2
  <2>3. p \in F
    BY <2>1, <2>2, <1>25 DEF FreeOf
  <2> QED BY <2>1, <2>3, <1>5, <1>25 DEF Sparse
<1>27. e # top => A[e] = 1
  <2>1. SUFFICES ASSUME e # top, A[e] # 1 PROVE FALSE
    OBVIOUS
  <2>2. e \in F
    BY <2>1, <1>1, <1>3, <1>4, <1>25 DEF FreeOf
  <2> QED BY <2>2, <1>5, <1>25 DEF Sparse, e
<1>28. s <= b /\ b < e
  BY <1>1, <1>2, <1>4
<1> HIDE DEF F
<1>29. /\ Coalesces(m, top, B, S, A, b, [mem |-> o, bp |-> s])
       /\ \A a \in Addr : a > s + 1 /\ a < e => o[a] = m4[a]
  BY <1>11, <1>24, <1>26, <1>27, <1>28, JoinCoalesces
<1> HIDE DEF o
<1>30. PREV_BLKP(m2, b) = s /\ PREV_BLKP(m4, b) = s /\ PREV_BLKP(o, b) = s
  <2>1. o[b - 2] = S[s]
    BY <1>2, <1>4, <1>19, <1>29
  <2> QED BY <2>1, <1>12, <1>14, <1>19
<1>31. HDRP(s) = s - 1
  BY DEF HDRP, WSIZE
<1>32. coalesce_both(m, b) = [mem |-> o, bp |-> s]
  BY <1>13, <1>15, <1>17, <1>30, <1>31 DEF coalesce_both, m1, m2, m3, m4, o
<1>33. [mem |-> o, bp |-> s] = BothMerged(m, S, b, s)
  BY DEF BothMerged, o, m4, m3, m2, m1, e, c
<1> QED BY <1>29, <1>32, <1>33

(* What coalesce writes is a matter of the layout: s is the block below b. *)
CoalesceWrites(m, top, S, A, b, s) ==
  LET next_alloc == b + S[b] # top => A[b + S[b]] = 1
  IN  IF A[s] = 1
      THEN IF next_alloc THEN [mem |-> LIFO_INSERT(m, b), bp |-> b]
                         ELSE NextMerged(m, S, b)
      ELSE IF next_alloc THEN PrevMerged(m, S, b, s)
                         ELSE BothMerged(m, S, b, s)

(* coalesce, whichever of the neighbours of b are free.                    *)
LEMMA CoalesceFreed ==
  ASSUME NEW m, NEW top, NEW B, NEW S, NEW A, NEW b, Freed(m, top, B, S, A, b)
  PROVE  /\ Coalesces(m, top, B, S, A, b, coalesce(m, b))
         /\ \A s \in B : s + S[s] = b => coalesce(m, b) = CoalesceWrites(m, top, S, A, b, s)
<1>1. /\ Layout(top, B, S) /\ Tagged(m, top, B, S, A)
      /\ b \in B /\ b # heap_listp /\ b + S[b] \in B \union {top}
  <2>1. FreedShape(m, top, B, S, A, b)
    BY FreedFacts
  <2> QED BY <2>1 DEF FreedShape
<1>2. PICK s \in B : s + S[s] = b /\ \A x \in B : x + S[x] = b => x = s
  BY <1>1, Before
<1>3. A \in [B -> {0, 1}] /\ top \notin B
  BY <1>1, LayoutFacts DEF Tagged
<1>4. GET_ALLOC(m, FTRP(m, PREV_BLKP(m, b))) = A[s]
  BY <1>1, <1>2, Reads
<1>5. NEXT_BLKP(m, b) = b + S[b]
  BY <1>1, Reads
<1>6. /\ b + S[b] \in B => GET_ALLOC(m, HDRP(NEXT_BLKP(m, b))) = A[b + S[b]]
      /\ b + S[b] = top => GET_ALLOC(m, HDRP(NEXT_BLKP(m, b))) = 1
  <2>1. b + S[b] \in B => GET_ALLOC(m, HDRP(b + S[b])) = A[b + S[b]]
    BY <1>1, Reads
  <2>2. GET_ALLOC(m, HDRP(top)) = 1
    BY <1>1, TopReads
  <2> QED BY <2>1, <2>2, <1>5
<1> DEFINE next_alloc == GET_ALLOC(m, HDRP(NEXT_BLKP(m, b))) = 1
<1>7. /\ next_alloc <=> (b + S[b] # top => A[b + S[b]] = 1)
      /\ ~next_alloc => b + S[b] \in B /\ A[b + S[b]] = 0
  BY <1>1, <1>3, <1>6
<1>8. coalesce(m, b) = IF A[s] = 1
                       THEN IF next_alloc THEN [mem |-> LIFO_INSERT(m, b), bp |-> b]
                                          ELSE coalesce_next(m, b)
                       ELSE IF next_alloc THEN coalesce_prev(m, b)
                                          ELSE coalesce_both(m, b)
  <2>1. CASE A[s] = 1 BY <2>1, <1>4 DEF coalesce
  <2>2. CASE A[s] # 1 BY <2>2, <1>4 DEF coalesce
  <2> QED BY <2>1, <2>2
<1> HIDE DEF next_alloc
<1>9. SUFFICES /\ Coalesces(m, top, B, S, A, b, coalesce(m, b))
               /\ coalesce(m, b) = CoalesceWrites(m, top, S, A, b, s)
  BY <1>2
<1>10. CASE A[s] = 1 /\ next_alloc
  BY <1>2, <1>7, <1>8, <1>10, CoalesceAlone DEF CoalesceWrites
<1>11. CASE A[s] = 1 /\ ~next_alloc
  BY <1>2, <1>7, <1>8, <1>11, CoalesceNext DEF CoalesceWrites
<1>12. CASE A[s] = 0 /\ next_alloc
  BY <1>2, <1>7, <1>8, <1>12, CoalescePrev DEF CoalesceWrites
<1>13. CASE A[s] = 0 /\ ~next_alloc
  BY <1>2, <1>7, <1>8, <1>13, CoalesceBoth DEF CoalesceWrites
<1>14. A[s] \in {0, 1}
  BY <1>3
<1> QED BY <1>10, <1>11, <1>12, <1>13, <1>14

----------------------------------------------------------------------------
(* The routines a call is made of.                                         *)

(* A memory and a break that form a heap with block pointers B.            *)
Good(m, top, B) ==
  /\ m \in Memory /\ top \in Int /\ top <= HeapBase + MAX_HEAP
  /\ HeapOK(m, top, B)

Pieces(m, top, B, S, A) ==
  Heap(m, top, B, S, A, FreeOf(B, A)) /\ Sparse(S, FreeOf(B, A))

(* A heap has pieces: block sizes, allocated bits and a sparse set of free *)
(* blocks.                                                                 *)
LEMMA GoodElim ==
  ASSUME NEW m, NEW top, NEW B, Good(m, top, B)
  PROVE  \E S, A : Pieces(m, top, B, S, A) /\ FreeBlocks(m, B) = FreeOf(B, A)
<1>1. m \in Memory /\ top \in Int /\ top <= HeapBase + MAX_HEAP /\ Tiled(m, top, B)
  BY DEF Good, HeapOK
<1>2. PICK S, A : Layout(top, B, S) /\ Tagged(m, top, B, S, A)
  BY <1>1, TiledElim
<1>3. FreeBlocks(m, B) = FreeOf(B, A)
  BY <1>2, TiledIntro
<1>4. ListOK(m, FreeOf(B, A)) /\ Coalesced(m, FreeOf(B, A))
  BY <1>3 DEF Good, HeapOK
<1>5. \A p \in FreeOf(B, A) : NEXT_BLKP(m, p) = p + S[p]
  BY <1>2, Reads DEF FreeOf
<1>6. Sparse(S, FreeOf(B, A))
  BY <1>4, <1>5 DEF Sparse, Coalesced
<1> QED BY <1>1, <1>2, <1>3, <1>4, <1>6 DEF Pieces, Heap

(* The pieces make a heap, and say what the macros read in it.             *)
LEMMA GoodIntro ==
  ASSUME NEW m, NEW top, NEW B, NEW S, NEW A, Pieces(m, top, B, S, A)
  PROVE  /\ Good(m, top, B) /\ FreeBlocks(m, B) = FreeOf(B, A)
         /\ \A p \in B : Block_size(m, p) = S[p] /\ (Allocated(m, p) <=> A[p] = 1)
<1>1. /\ m \in Memory /\ Layout(top, B, S) /\ Tagged(m, top, B, S, A)
      /\ ListOK(m, FreeOf(B, A)) /\ Sparse(S, FreeOf(B, A))
  BY DEF Pieces, Heap
<1>2. Tiled(m, top, B) /\ FreeBlocks(m, B) = FreeOf(B, A)
  BY <1>1, TiledIntro
<1>3. \A p \in FreeOf(B, A) : NEXT_BLKP(m, p) = p + S[p]
  BY <1>1, Reads DEF FreeOf
<1>4. Coalesced(m, FreeOf(B, A))
  BY <1>1, <1>3 DEF Sparse, Coalesced
<1>5. top \in Int /\ top <= HeapBase + MAX_HEAP
  BY <1>1 DEF Layout
<1>6. \A p \in B : Block_size(m, p) = S[p] /\ (Allocated(m, p) <=> A[p] = 1)
  BY <1>1, Reads
<1> QED BY <1>1, <1>2, <1>4, <1>5, <1>6 DEF Good, HeapOK

(* The three predicates a heap in pieces is made of, as separate facts.    *)
LEMMA PiecesFacts ==
  ASSUME NEW m, NEW top, NEW B, NEW S, NEW A, Pieces(m, top, B, S, A)
  PROVE  /\ m \in Memory /\ Layout(top, B, S) /\ Tagged(m, top, B, S, A)
         /\ ListOK(m, FreeOf(B, A)) /\ Sparse(S, FreeOf(B, A))
         /\ FreeOf(B, A) \subseteq B \ {heap_listp}
BY DEF Pieces, Heap, FreeOf, Tagged

(* What coalesce gives a caller that knows the heap by its pieces.         *)
LEMMA CoalesceGood ==
  ASSUME NEW m, NEW top, NEW B, NEW S, NEW A, NEW b, Freed(m, top, B, S, A, b)
  PROVE  \E C : /\ Good(coalesce(m, b).mem, top, C)
                /\ Keeps(m, B, coalesce(m, b).mem, C)
                /\ Taken(coalesce(m, b).mem, C) \subseteq Taken(m, B)
                /\ coalesce(m, b).bp \in FreeBlocks(coalesce(m, b).mem, C)
                /\ Block_size(coalesce(m, b).mem, coalesce(m, b).bp) >= S[b]
<1> DEFINE r == coalesce(m, b)
<1>1. Coalesces(m, top, B, S, A, b, r)
  BY CoalesceFreed
<1> HIDE DEF r
<1>2. PICK C, T, D : /\ Heap(r.mem, top, C, T, D, FreeOf(C, D))
                     /\ Sparse(T, FreeOf(C, D))
                     /\ Keeps(m, B, r.mem, C)
                     /\ \A p \in C : D[p] = 1 => p \in B /\ A[p] = 1
                     /\ r.bp \in FreeOf(C, D) /\ T[r.bp] >= S[b]
  BY <1>1 DEF Coalesces
<1>3. Pieces(r.mem, top, C, T, D)
  BY <1>2 DEF Pieces
<1>4. /\ Good(r.mem, top, C) /\ FreeBlocks(r.mem, C) = FreeOf(C, D)
      /\ \A p \in C : Block_size(r.mem, p) = T[p] /\ (Allocated(r.mem, p) <=> D[p] = 1)
  BY <1>3, GoodIntro
<1>5. r.bp \in C
  BY <1>2 DEF FreeOf
<1>6. Taken(r.mem, C) \subseteq Taken(m, B)
  <2>1. Layout(top, B, S) /\ Tagged(m, top, B, S, A)
    BY DEF Freed, Heap
  <2>2. \A p \in B : Allocated(m, p) <=> A[p] = 1
    BY <2>1, Reads
  <2> QED BY <2>2, <1>2, <1>4 DEF Taken
<1>7. /\ Good(r.mem, top, C) /\ Keeps(m, B, r.mem, C)
      /\ Taken(r.mem, C) \subseteq Taken(m, B)
      /\ r.bp \in FreeBlocks(r.mem, C) /\ Block_size(r.mem, r.bp) >= S[b]
  BY <1>2, <1>4, <1>5, <1>6
<1> QED BY <1>7 DEF r

----------------------------------------------------------------------------
(* The writes of format_free and mark_allocated.                           *)

(* A tag PACK made of an even size reads back as that size.                *)
LEMMA EvenTag ==
  ASSUME NEW m, NEW p \in Int, NEW s \in Nat, s % 2 = 0, NEW v \in {0, 1},
         m[p - 1] = s + v
  PROVE  GET_SIZE(m, HDRP(p)) = s /\ FTRP(m, p) = p + s - 2 /\ NEXT_BLKP(m, p) = p + s
<1>1. (s + v) - ((s + v) % 2) = s
  OBVIOUS
<1>2. GET_SIZE(m, HDRP(p)) = s
  BY <1>1 DEF GET_SIZE, HDRP, WSIZE
<1> QED BY <1>2 DEF FTRP, NEXT_BLKP, DSIZE

(* mm_free, place and extend_heap write the same four words to make a      *)
(* block free: its tags and its links, none outside the block.             *)
LEMMA FormatFreeWrites ==
  ASSUME NEW m \in Memory, NEW b \in Int, NEW s \in Nat, s % 2 = 0, s >= 4,
         b - 1 \in Addr, b + s - 2 \in Addr, s \in Word
  PROVE  LET n == format_free(m, b, s)
         IN  /\ n \in Memory
             /\ n[b - 1] = s /\ n[b + s - 2] = s /\ n[b] = NULL
             /\ Outside(m, n, b - 1, b + s - 2)
<1> DEFINE m1 == PUT(m, b - 1, s)
<1> DEFINE m2 == PUT(m1, b + s - 2, s)
<1> DEFINE m3 == PUT(m2, b + 1, NULL)
<1> DEFINE m4 == PUT(m3, b, NULL)
<1>0. b \in Addr /\ b + 1 \in Addr /\ NULL \in Word /\ \A a \in Addr : a \in Int
  BY Defs DEF Addr, Word, NULL
<1>1. m1 \in Memory /\ \A a \in Addr : m1[a] = IF a = b - 1 THEN s ELSE m[a]
  BY DEF PUT, Memory
<1>2. FTRP(m1, b) = b + s - 2
  <2>1. m1[b - 1] = s + 0
    BY <1>1
  <2> HIDE DEF m1
  <2> QED BY <2>1, EvenTag
<1>3. format_free(m, b, s) = m4
  <2>1. PACK(s, 0) = s /\ HDRP(b) = b - 1 /\ NEXT_P(b) = b + 1 /\ PREV_P(b) = b
    BY DEF PACK, HDRP, NEXT_P, PREV_P, WSIZE
  <2> QED BY <2>1, <1>2 DEF format_free
<1> HIDE DEF m1
<1>4. m2 \in Memory /\ \A a \in Addr : m2[a] = IF a = b + s - 2 THEN s ELSE m1[a]
  BY <1>1 DEF PUT, Memory
<1> HIDE DEF m2
<1>5. m3 \in Memory /\ \A a \in Addr : m3[a] = IF a = b + 1 THEN NULL ELSE m2[a]
  BY <1>0, <1>4 DEF PUT, Memory
<1> HIDE DEF m3
<1>6. m4 \in Memory /\ \A a \in Addr : m4[a] = IF a = b THEN NULL ELSE m3[a]
  BY <1>0, <1>5 DEF PUT, Memory
<1> HIDE DEF m4
<1>7. m4[b - 1] = s /\ m4[b + s - 2] = s /\ m4[b] = NULL
  BY <1>0, <1>1, <1>4, <1>5, <1>6
<1>8. Outside(m, m4, b - 1, b + s - 2)
  BY <1>0, <1>1, <1>4, <1>5, <1>6 DEF Outside
<1> QED BY <1>3, <1>6, <1>7, <1>8

(* place writes the two tags of the block it hands out, and nothing else.  *)
LEMMA MarkAllocatedWrites ==
  ASSUME NEW m \in Memory, NEW b \in Int, NEW s \in Nat, s % 2 = 0, s >= 4,
         b - 1 \in Addr, b + s - 2 \in Addr, s + 1 \in Word
  PROVE  LET n == mark_allocated(m, b, s)
         IN  /\ n \in Memory
             /\ n[b - 1] = s + 1 /\ n[b + s - 2] = s + 1
             /\ Outside(m, n, b - 1, b + s - 2)
             /\ \A a \in Addr : a # b - 1 /\ a # b + s - 2 => n[a] = m[a]
<1> DEFINE m1 == PUT(m, b - 1, s + 1)
<1> DEFINE m2 == PUT(m1, b + s - 2, s + 1)
<1>0. \A a \in Addr : a \in Int
  BY Defs DEF Addr
<1>1. m1 \in Memory /\ \A a \in Addr : m1[a] = IF a = b - 1 THEN s + 1 ELSE m[a]
  BY DEF PUT, Memory
<1>2. FTRP(m1, b) = b + s - 2
  <2>1. m1[b - 1] = s + 1
    BY <1>1
  <2> HIDE DEF m1
  <2> QED BY <2>1, EvenTag
<1>3. mark_allocated(m, b, s) = m2
  <2>1. PACK(s, 1) = s + 1 /\ HDRP(b) = b - 1
    BY DEF PACK, HDRP, WSIZE
  <2> QED BY <2>1, <1>2 DEF mark_allocated
<1> HIDE DEF m1
<1>4. m2 \in Memory /\ \A a \in Addr : m2[a] = IF a = b + s - 2 THEN s + 1 ELSE m1[a]
  BY <1>1 DEF PUT, Memory
<1> HIDE DEF m2
<1>5. m2[b - 1] = s + 1 /\ m2[b + s - 2] = s + 1
  BY <1>1, <1>4
<1>6. \A a \in Addr : a # b - 1 /\ a # b + s - 2 => m2[a] = m[a]
  BY <1>1, <1>4
<1>7. Outside(m, m2, b - 1, b + s - 2)
  BY <1>0, <1>6 DEF Outside
<1> QED BY <1>3, <1>4, <1>5, <1>6, <1>7

----------------------------------------------------------------------------
(* mm_free.                                                                *)

(* The block of one pointer only: Cut and Join leave everything as it was. *)
LEMMA CutOne ==
  ASSUME NEW top, NEW B, NEW S, Layout(top, B, S), NEW b \in B
  PROVE  /\ Cut(B, b, b + S[b]) = B /\ Join(B, S, b, b + S[b]) = S
         /\ \A p \in B : p # b <=> p < b \/ p >= b + S[b]
         /\ b < b + S[b] /\ b + S[b] \in B \union {top}
         /\ (b + S[b]) - b = S[b]
<1>1. /\ \A p \in B : p \in Int /\ S[p] \in Int /\ S[p] >= 2 /\ (b < p => b + S[b] <= p)
      /\ b + S[b] \in B \union {top}
      /\ S \in [B -> Nat]
  BY DEF Layout
<1>2. \A p \in B : p # b <=> p < b \/ p >= b + S[b]
  BY <1>1
<1>3. Cut(B, b, b + S[b]) = B
  BY <1>2 DEF Cut
<1>4. (b + S[b]) - b = S[b]
  BY <1>1
<1>5. Join(B, S, b, b + S[b]) = S
  BY <1>1, <1>3, <1>4 DEF Join
<1> QED BY <1>1, <1>2, <1>3, <1>4, <1>5

(* The allocated block b becomes a free one that coalesce is given.        *)
LEMMA FreeFreed ==
  ASSUME NEW m, NEW top, NEW B, NEW S, NEW A, Pieces(m, top, B, S, A),
         NEW b \in B, b # heap_listp, A[b] = 1
  PROVE  LET n == format_free(m, b, S[b])
             D == SetBit(B, A, b, 0)
         IN  /\ mm_free(m, b) = coalesce(n, b).mem
             /\ Freed(n, top, B, S, D, b)
             /\ Tagged(n, top, B, S, D)
             /\ Keeps(m, B \ {b}, n, B)
<1>2. /\ m \in Memory /\ Layout(top, B, S) /\ Tagged(m, top, B, S, A)
      /\ ListOK(m, FreeOf(B, A)) /\ Sparse(S, FreeOf(B, A))
      /\ FreeOf(B, A) \subseteq B \ {heap_listp}
  BY PiecesFacts
<1>3. Block_size(m, b) = S[b]
  BY <1>2, Reads
<1>4. /\ b \in Int /\ S[b] \in Nat /\ S[b] % 2 = 0 /\ S[b] >= 4
      /\ b - 1 \in Addr /\ b + S[b] - 2 \in Addr /\ S[b] \in Word /\ b # NULL
  <2>1. b \in Int /\ S[b] \in Nat /\ S[b] % 2 = 0 /\ S[b] >= 4
    BY <1>2 DEF Layout
  <2>2. b - 1 \in Addr /\ b + S[b] - 2 \in Addr /\ S[b] \in Word /\ b # NULL
    BY <1>2, LayoutFacts
  <2> QED BY <2>1, <2>2
<1> DEFINE n == format_free(m, b, S[b])
<1> DEFINE e == b + S[b]
<1> DEFINE D == SetBit(B, A, b, 0)
<1> DEFINE F == FreeOf(B, A)
<1>5. /\ n \in Memory /\ n[b - 1] = S[b] /\ n[e - 2] = S[b] /\ n[b] = NULL
      /\ Outside(m, n, b - 1, e - 2)
  BY <1>2, <1>4, FormatFreeWrites
<1>6. mm_free(m, b) = coalesce(n, b).mem
  BY <1>3, <1>4 DEF mm_free, Block_size
<1> HIDE DEF n
<1>7. /\ Cut(B, b, e) = B /\ Join(B, S, b, e) = S /\ e - b = S[b]
      /\ \A p \in B : p # b <=> p < b \/ p >= e
      /\ b < e /\ e \in B \union {top}
  BY <1>2, CutOne
<1> HIDE DEF e
<1>8. \A p \in F : p < b \/ p >= e
  BY <1>3, <1>7 DEF FreeOf
<1>9. n[b - 1] = (e - b) + 0 /\ n[e - 2] = (e - b) + 0
  BY <1>4, <1>5, <1>7
<1>10. /\ Layout(top, Cut(B, b, e), Join(B, S, b, e))
       /\ Tagged(n, top, Cut(B, b, e), Join(B, S, b, e), SetBit(Cut(B, b, e), A, b, 0))
       /\ ListOK(n, F)
       /\ Keeps(m, {p \in B : p < b \/ p >= e}, n, Cut(B, b, e))
  <2> HIDE DEF F
  <2>1. F \subseteq B \ {heap_listp} /\ ListOK(m, F)
    BY <1>2 DEF F
  <2> QED BY <1>2, <1>5, <1>7, <1>8, <1>9, <2>1, JoinHeap
<1>11. {p \in B : p < b \/ p >= e} = B \ {b}
  BY <1>7
<1>12. Tagged(n, top, B, S, D) /\ ListOK(n, F) /\ Keeps(m, B \ {b}, n, B)
  BY <1>7, <1>10, <1>11
<1>13. FreeOf(B, D) \ {b} = F /\ b \in FreeOf(B, D)
  BY <1>3 DEF FreeOf, SetBit
<1>14. Freed(n, top, B, S, D, b)
  BY <1>2, <1>5, <1>12, <1>13 DEF Freed, Heap
<1> QED BY <1>6, <1>12, <1>14 DEF n

(* mm_free takes an allocated block away and touches no other.             *)
LEMMA FreeGood ==
  ASSUME NEW m, NEW top, NEW B, Good(m, top, B),
         NEW b \in B, b # heap_listp, Allocated(m, b)
  PROVE  \E C : /\ Good(mm_free(m, b), top, C) /\ Keeps(m, B \ {b}, mm_free(m, b), C)
                /\ Taken(mm_free(m, b), C) \subseteq Taken(m, B) \ {b}
<1>1. PICK S, A : Pieces(m, top, B, S, A)
  BY GoodElim
<1>2. Layout(top, B, S) /\ Tagged(m, top, B, S, A)
  BY <1>1, PiecesFacts
<1>3. A[b] = 1
  BY <1>2, Reads
<1> DEFINE n == format_free(m, b, S[b])
<1> DEFINE D == SetBit(B, A, b, 0)
<1>4. /\ mm_free(m, b) = coalesce(n, b).mem /\ Freed(n, top, B, S, D, b)
      /\ Tagged(n, top, B, S, D) /\ Keeps(m, B \ {b}, n, B)
  BY <1>1, <1>3, FreeFreed
<1> HIDE DEF n
<1>5. PICK C : /\ Good(coalesce(n, b).mem, top, C) /\ Keeps(n, B, coalesce(n, b).mem, C)
               /\ Taken(coalesce(n, b).mem, C) \subseteq Taken(n, B)
  <2> HIDE DEF D
  <2> QED BY <1>4, CoalesceGood
<1>6. Keeps(m, B \ {b}, coalesce(n, b).mem, C)
  BY <1>4, <1>5, KeepsTrans
<1>7. Taken(n, B) \subseteq Taken(m, B) \ {b}
  <2>1. \A p \in B : (Allocated(n, p) <=> D[p] = 1) /\ (Allocated(m, p) <=> A[p] = 1)
    <3> HIDE DEF D
    <3> QED BY <1>2, <1>4, Reads
  <2> QED BY <2>1 DEF Taken, SetBit
<1> QED BY <1>4, <1>5, <1>6, <1>7

----------------------------------------------------------------------------
(* place.                                                                  *)

(* Block b, free in m, is allocated in n with room for s words, and the    *)
(* blocks that were allocated are what they were.                          *)
Placed(m, top, B, n, b, s) ==
  \E C : /\ Good(n, top, C) /\ Keeps(m, B, n, C)
         /\ b \in C /\ Allocated(n, b) /\ Block_size(n, b) >= s
         /\ Taken(n, C) \subseteq Taken(m, B) \union {b}

(* What place knows of a free block once it is off the list.               *)
LEMMA Unlist ==
  ASSUME NEW m, NEW top, NEW B, NEW S, NEW A, Pieces(m, top, B, S, A),
         NEW b \in FreeOf(B, A)
  PROVE  LET n == REMOVE_BLOCK(m, b)
         IN  /\ n \in Memory /\ Tagged(n, top, B, S, A)
             /\ ListOK(n, FreeOf(B, A) \ {b}) /\ Keeps(m, B, n, B)
<1>1. /\ m \in Memory /\ Layout(top, B, S) /\ Tagged(m, top, B, S, A)
      /\ ListOK(m, FreeOf(B, A)) /\ FreeOf(B, A) \subseteq B \ {heap_listp}
  BY PiecesFacts
<1>2. Spread(FreeOf(B, A))
  BY <1>1, SpreadBlocks
<1> DEFINE n == REMOVE_BLOCK(m, b)
<1>3. /\ n \in Memory /\ ListOK(n, FreeOf(B, A) \ {b})
      /\ \A a \in Addr : ~IsLinkWord(FreeOf(B, A), a) => n[a] = m[a]
  BY <1>1, <1>2, RemoveLinks
<1> HIDE DEF n
<1>4. Tagged(n, top, B, S, A) /\ Keeps(m, B, n, B)
  BY <1>1, <1>3, LinkFrame
<1> QED BY <1>3, <1>4 DEF n

(* The whole block is used.                                                *)
LEMMA PlaceWhole ==
  ASSUME NEW m, NEW top, NEW B, NEW S, NEW A, Pieces(m, top, B, S, A),
         NEW b \in FreeOf(B, A)
  PROVE  LET n == mark_allocated(REMOVE_BLOCK(m, b), b, S[b])
         IN  /\ Placed(m, top, B, n, b, S[b])
             /\ Pieces(n, top, B, S, SetBit(B, A, b, 1))
<1>1. /\ Layout(top, B, S) /\ Tagged(m, top, B, S, A) /\ Sparse(S, FreeOf(B, A))
      /\ FreeOf(B, A) \subseteq B \ {heap_listp} /\ b \in B /\ A[b] = 0 /\ b # heap_listp
  <2>1. b \in B /\ A[b] = 0
    BY DEF FreeOf
  <2>2. /\ Layout(top, B, S) /\ Tagged(m, top, B, S, A) /\ Sparse(S, FreeOf(B, A))
        /\ FreeOf(B, A) \subseteq B \ {heap_listp}
    BY PiecesFacts
  <2> QED BY <2>1, <2>2
<1> DEFINE m1 == REMOVE_BLOCK(m, b)
<1> DEFINE n == mark_allocated(m1, b, S[b])
<1> DEFINE e == b + S[b]
<1> DEFINE F == FreeOf(B, A) \ {b}
<1> DEFINE D == SetBit(B, A, b, 1)
<1>2. /\ m1 \in Memory /\ Tagged(m1, top, B, S, A) /\ ListOK(m1, F) /\ Keeps(m, B, m1, B)
  BY Unlist
<1> HIDE DEF m1
<1>3. /\ b \in Int /\ S[b] \in Nat /\ S[b] % 2 = 0 /\ S[b] >= 4
      /\ b - 1 \in Addr /\ b + S[b] - 2 \in Addr /\ S[b] + 1 \in Word
  <2>1. b \in Int /\ S[b] \in Nat /\ S[b] % 2 = 0 /\ S[b] >= 4
    BY <1>1 DEF Layout
  <2>2. b - 1 \in Addr /\ b + S[b] - 2 \in Addr /\ S[b] + 1 \in Word
    BY <1>1, LayoutFacts
  <2> QED BY <2>1, <2>2
<1>4. /\ n \in Memory /\ n[b - 1] = S[b] + 1 /\ n[e - 2] = S[b] + 1
      /\ Outside(m1, n, b - 1, e - 2)
  BY <1>2, <1>3, MarkAllocatedWrites
<1> HIDE DEF n
<1>5. /\ Cut(B, b, e) = B /\ Join(B, S, b, e) = S /\ e - b = S[b]
      /\ \A p \in B : p # b <=> p < b \/ p >= e
      /\ b < e /\ e \in B \union {top}
  BY <1>1, CutOne
<1> HIDE DEF e
<1>6. n[b - 1] = (e - b) + 1 /\ n[e - 2] = (e - b) + 1
  BY <1>4, <1>5
<1>7. F \subseteq B \ {heap_listp} /\ \A p \in F : p < b \/ p >= e
  BY <1>1, <1>5 DEF FreeOf
<1>8. \A p \in B : b <= p /\ p < e => A[p] = 0
  <2>1. \A p \in B : p \in Int /\ e \in Int
    BY <1>1, <1>5, LayoutFacts
  <2> QED BY <2>1, <1>1, <1>3, <1>5
<1>9. Tagged(n, top, B, S, D) /\ ListOK(n, F) /\ Keeps(m1, B, n, B)
  <2> HIDE DEF F
  <2>0. 1 \in {0, 1}
    OBVIOUS
  <2>1. /\ Layout(top, Cut(B, b, e), Join(B, S, b, e))
        /\ Tagged(n, top, Cut(B, b, e), Join(B, S, b, e), SetBit(Cut(B, b, e), A, b, 1))
        /\ ListOK(n, F)
        /\ Keeps(m1, {p \in B : p < b \/ p >= e}, n, Cut(B, b, e))
        /\ (\A p \in B : b <= p /\ p < e => A[p] = 0) => Keeps(m1, B, n, Cut(B, b, e))
    BY <2>0, <1>1, <1>2, <1>4, <1>5, <1>6, <1>7, JoinHeap
  <2> QED BY <2>1, <1>5, <1>8
<1>10. FreeOf(B, D) = F /\ D[b] = 1
  BY <1>1 DEF FreeOf, SetBit
<1>11. Sparse(S, FreeOf(B, D))
  BY <1>1, <1>10 DEF Sparse
<1>12. Pieces(n, top, B, S, D)
  BY <1>1, <1>4, <1>9, <1>10, <1>11 DEF Pieces, Heap
<1> HIDE DEF D
<1>13. Good(n, top, B) /\ Block_size(n, b) = S[b] /\ Allocated(n, b)
  BY <1>1, <1>10, <1>12, GoodIntro
<1>14. Keeps(m, B, n, B)
  BY <1>2, <1>9, KeepsTrans
<1>15. S[b] >= S[b]
  BY <1>3
<1>16. Taken(n, B) \subseteq Taken(m, B) \union {b}
  <2>1. \A p \in B : (Allocated(n, p) <=> D[p] = 1) /\ (Allocated(m, p) <=> A[p] = 1)
    BY <1>1, <1>9, Reads
  <2> QED BY <2>1 DEF Taken, SetBit, D
<1>17. Placed(m, top, B, n, b, S[b])
  BY <1>1, <1>13, <1>14, <1>15, <1>16 DEF Placed
<1> QED BY <1>12, <1>17 DEF n, m1, D

(* The bits when b is allocated and r is what is cut off.                  *)
SplitBits(B, A, b, r) ==
  [p \in B \union {r} |-> IF p = b THEN 1 ELSE IF p = r THEN 0 ELSE A[p]]

(* Block b of memory m, a words of it now allocated, the rest free in n.   *)
IsSplit(m, top, B, S, A, b, a, n, C, T, D) ==
  LET r == b + a
  IN  /\ C = B \union {r}
      /\ Freed(n, top, C, T, D, r)
      /\ Layout(top, C, T) /\ Tagged(n, top, C, T, D)
      /\ T[b] = a /\ D[b] = 1 /\ D[r] = 0 /\ T[r] = S[b] - a
      /\ \A p \in B : p # b => T[p] = S[p] /\ D[p] = A[p]
      /\ Keeps(m, B, n, C)

(* The end of the block becomes a free block that coalesce is given.       *)
LEMMA SplitFreed ==
  ASSUME NEW m, NEW top, NEW B, NEW S, NEW A, Pieces(m, top, B, S, A),
         NEW b \in FreeOf(B, A),
         NEW a \in Nat, a % 2 = 0, a >= 4, S[b] - a >= 4
  PROVE  LET m2 == mark_allocated(REMOVE_BLOCK(m, b), b, a)
             n == format_free(m2, b + a, S[b] - a)
         IN  IsSplit(m, top, B, S, A, b, a, n, B \union {b + a},
                     Split(B, S, b, a), SplitBits(B, A, b, b + a))
<1>1. /\ Layout(top, B, S) /\ Tagged(m, top, B, S, A) /\ Sparse(S, FreeOf(B, A))
      /\ FreeOf(B, A) \subseteq B \ {heap_listp} /\ b \in B /\ A[b] = 0 /\ b # heap_listp
  <2>1. b \in B /\ A[b] = 0
    BY DEF FreeOf
  <2>2. /\ Layout(top, B, S) /\ Tagged(m, top, B, S, A) /\ Sparse(S, FreeOf(B, A))
        /\ FreeOf(B, A) \subseteq B \ {heap_listp}
    BY PiecesFacts
  <2> QED BY <2>1, <2>2
<1> DEFINE m1 == REMOVE_BLOCK(m, b)
<1> DEFINE m2 == mark_allocated(m1, b, a)
<1> DEFINE r == b + a
<1> DEFINE t == S[b] - a
<1> DEFINE n == format_free(m2, r, t)
<1> DEFINE e == b + S[b]
<1> DEFINE F == FreeOf(B, A) \ {b}
<1> DEFINE C == B \union {r}
<1> DEFINE T == Split(B, S, b, a)
<1> DEFINE D == SplitBits(B, A, b, r)
<1>2. /\ m1 \in Memory /\ Tagged(m1, top, B, S, A) /\ ListOK(m1, F) /\ Keeps(m, B, m1, B)
  BY Unlist
<1> HIDE DEF m1
<1>3. /\ b \in Int /\ S[b] \in Nat /\ S[b] % 2 = 0 /\ e <= top /\ top \in Int
      /\ b > heap_listp /\ b - 1 \in Addr /\ e - 2 \in Addr
      /\ S[b] \in Word /\ heap_listp \in Int
  <2>1. /\ b \in Int /\ S[b] \in Nat /\ S[b] % 2 = 0 /\ e <= top /\ top \in Int
        /\ b > heap_listp /\ heap_listp \in Int
    BY <1>1, Defs DEF Layout
  <2>2. b - 1 \in Addr /\ e - 2 \in Addr /\ S[b] \in Word
    BY <1>1, LayoutFacts
  <2> QED BY <2>1, <2>2
<1>4. /\ t \in Nat /\ t % 2 = 0 /\ t >= 4 /\ r \in Int /\ r + t - 2 = e - 2
      /\ r - 1 \in Addr /\ r + t - 2 \in Addr /\ t \in Word
      /\ b + a - 2 \in Addr /\ a + 1 \in Word /\ r < e /\ b < r
  BY <1>3, Defs DEF Addr, Word
<1>5. /\ m2 \in Memory /\ m2[b - 1] = a + 1 /\ m2[r - 2] = a + 1
      /\ Outside(m1, m2, b - 1, r - 2)
  BY <1>2, <1>3, <1>4, MarkAllocatedWrites
<1> HIDE DEF m2, t
<1>6. /\ n \in Memory /\ n[r - 1] = t /\ n[r + t - 2] = t /\ n[r] = NULL
      /\ Outside(m2, n, r - 1, r + t - 2)
  <2> HIDE DEF r
  <2> QED BY <1>4, <1>5, FormatFreeWrites
<1> HIDE DEF n
<1>7. n[b - 1] = a + 1 /\ n[r - 2] = a + 1
  BY <1>3, <1>4, <1>5, <1>6 DEF Outside
<1>8. Outside(m1, n, b - 1, e - 2)
  <2>1. \A x \in Addr : x \in Int
    BY Defs DEF Addr
  <2> QED BY <2>1, <1>3, <1>4, <1>5, <1>6 DEF Outside
<1>9. Layout(top, C, T) /\ r \notin B
  BY <1>1, SplitLayout
<1>10. /\ T[b] = a /\ T[r] = t /\ \A p \in B : p # b => T[p] = S[p]
  BY <1>1, <1>3, <1>4, <1>9 DEF Split, t
<1>11. /\ D[b] = 1 /\ D[r] = 0 /\ \A p \in B : p # b => D[p] = A[p]
       /\ D \in [C -> {0, 1}]
  BY <1>1, <1>3, <1>4, <1>9 DEF Tagged, SplitBits
<1>12. \A p \in B : p # b => /\ p \in Int /\ S[p] \in Int /\ (p < b \/ p >= e)
                             /\ (p < b => p + S[p] <= b) /\ S[p] >= 2 /\ p >= heap_listp
                             /\ p - 1 \in Addr /\ p + S[p] - 2 \in Addr
  <2>1. \A p \in B : p \in Int /\ S[p] \in Int /\ S[p] >= 2 /\ p >= heap_listp
    BY <1>1 DEF Layout
  <2>2. \A p, q \in B : p < q => p + S[p] <= q
    BY <1>1 DEF Layout
  <2>3. \A p \in B : p - 1 \in Addr /\ p + S[p] - 2 \in Addr
    BY <1>1, LayoutFacts
  <2> QED BY <2>1, <2>2, <2>3, <1>1, <1>3
<1> HIDE DEF C, T, D
<1>13. \A p : p \in C <=> p \in B \/ p = r
  BY DEF C
<1> HIDE DEF r, e
<1>14. e \in Int /\ e - 2 >= r /\ r + t = e
  BY <1>3, <1>4 DEF e, r, t
<1>15. ASSUME NEW p \in B, p # b
       PROVE  /\ n[p - 1] = m1[p - 1] /\ n[p + S[p] - 2] = m1[p + S[p] - 2]
              /\ \A x \in p .. (p + S[p] - 3) : n[x] = m1[x]
  <2>1. /\ p \in Int /\ S[p] \in Int /\ (p < b \/ p >= e)
        /\ (p < b => p + S[p] <= b) /\ S[p] >= 2
        /\ p - 1 \in Addr /\ p + S[p] - 2 \in Addr
    BY <1>12, <1>15
  <2>2. n[p - 1] = m1[p - 1] /\ n[p + S[p] - 2] = m1[p + S[p] - 2]
    BY <2>1, <1>3, <1>8, <1>14 DEF Outside
  <2>3. \A x \in p .. (p + S[p] - 3) : x \in Addr /\ (x < b - 1 \/ x > e - 2)
    BY <2>1, <1>3, <1>14, Defs DEF Addr
  <2> QED BY <2>2, <2>3, <1>8 DEF Outside
<1>16. Tagged(n, top, C, T, D)
  <2>1. n[top - 1] = 1
    <3>1. top - 1 \in Addr /\ m1[top - 1] = 1
      BY <1>1, <1>2, LayoutFacts DEF Tagged
    <3>2. top - 1 > e - 2
      BY <1>3, <1>14 DEF e
    <3> QED BY <3>1, <3>2, <1>8 DEF Outside
  <2>2. D[heap_listp] = 1
    BY <1>1, <1>11 DEF Layout, Tagged
  <2>3. ASSUME NEW p \in C
        PROVE  n[p - 1] = T[p] + D[p] /\ n[p + T[p] - 2] = T[p] + D[p]
    <3>1. CASE p = b
      BY <3>1, <1>3, <1>7, <1>10, <1>11 DEF r
    <3>2. CASE p = r
      BY <3>2, <1>4, <1>6, <1>10, <1>11
    <3>3. CASE p # b /\ p # r
      <4>1. p \in B
        BY <3>3, <1>13
      <4>2. m1[p - 1] = S[p] + A[p] /\ m1[p + S[p] - 2] = S[p] + A[p]
        BY <4>1, <1>2 DEF Tagged
      <4>3. T[p] = S[p] /\ D[p] = A[p]
        BY <4>1, <3>3, <1>10, <1>11
      <4> QED BY <4>1, <4>2, <4>3, <3>3, <1>15
    <3> QED BY <3>1, <3>2, <3>3
  <2> QED BY <2>1, <2>2, <2>3, <1>11 DEF Tagged
<1>17. ListOK(n, F)
  <2>1. \A p \in F : p \in B /\ p # b /\ p # heap_listp
    BY <1>1
  <2>2. \A p \in F : p + 1 < b - 1 \/ p > e - 2
    <3>1. \A p \in F : S[p] >= 4
      BY <2>1, <1>1 DEF Layout
    <3> QED BY <3>1, <2>1, <1>3, <1>12, <1>14
  <2>3. Spread(F)
    BY <1>1, SpreadBlocks
  <2>4. b - 1 > free_listp + 1 /\ b - 1 \in Int /\ e - 2 \in Int
    BY <1>3, <1>14, Defs
  <2> HIDE DEF F
  <2> QED BY <2>2, <2>3, <2>4, <1>2, <1>8, ListOutside
<1>18. Keeps(m1, B, n, C)
  <2> SUFFICES ASSUME NEW p \in B, Allocated(m1, p)
               PROVE  /\ p \in C /\ Allocated(n, p)
                      /\ Block_size(n, p) = Block_size(m1, p)
                      /\ \A x \in p .. (p + Block_size(m1, p) - 3) : n[x] = m1[x]
    BY DEF Keeps
  <2>1. Block_size(m1, p) = S[p] /\ A[p] = 1 /\ p # b /\ p \in C
    BY <1>1, <1>2, <1>13, Reads
  <2>2. Block_size(n, p) = T[p] /\ (Allocated(n, p) <=> D[p] = 1)
    BY <2>1, <1>9, <1>16, Reads
  <2>3. T[p] = S[p] /\ D[p] = 1
    BY <2>1, <1>10, <1>11
  <2> QED BY <2>1, <2>2, <2>3, <1>15
<1>19. FreeOf(C, D) \ {r} = F /\ r \in FreeOf(C, D) /\ b \in C
  BY <1>1, <1>9, <1>11, <1>13 DEF FreeOf
<1>20. Sparse(T, F)
  <2>1. \A p \in F : p \in B /\ p # b
    BY <1>1
  <2> QED BY <2>1, <1>1, <1>10 DEF Sparse
<1>21. Freed(n, top, C, T, D, r)
  BY <1>6, <1>9, <1>16, <1>17, <1>19, <1>20 DEF Freed, Heap
<1>22. Keeps(m, B, n, C)
  BY <1>2, <1>18, KeepsTrans
<1>23. IsSplit(m, top, B, S, A, b, a, n, C, T, D)
  BY <1>9, <1>10, <1>11, <1>16, <1>21, <1>22 DEF IsSplit, r, t, C
<1> QED BY <1>23 DEF n, r, t, m2, m1, C, T, D

(* The block is cut, and what is left coalesced as any other.              *)
LEMMA PlaceSplit ==
  ASSUME NEW m, NEW top, NEW B, NEW S, NEW A, Pieces(m, top, B, S, A),
         NEW b \in FreeOf(B, A),
         NEW a \in Nat, a % 2 = 0, a >= 4, S[b] - a >= 4
  PROVE  LET m2 == mark_allocated(REMOVE_BLOCK(m, b), b, a)
             m3 == format_free(m2, b + a, S[b] - a)
         IN  Placed(m, top, B, coalesce(m3, b + a).mem, b, a)
<1> DEFINE r == b + a
<1> DEFINE n == format_free(mark_allocated(REMOVE_BLOCK(m, b), b, a), r, S[b] - a)
<1> DEFINE o == coalesce(n, r).mem
<1> DEFINE C == B \union {r}
<1> DEFINE T == Split(B, S, b, a)
<1> DEFINE D == SplitBits(B, A, b, r)
<1>0. IsSplit(m, top, B, S, A, b, a, n, C, T, D)
  BY SplitFreed
<1> HIDE DEF n, T, D, C
<1>1. /\ Freed(n, top, C, T, D, r) /\ Layout(top, C, T) /\ Tagged(n, top, C, T, D)
      /\ T[b] = a /\ D[b] = 1 /\ D[r] = 0 /\ C = B \union {r}
      /\ \A p \in B : p # b => D[p] = A[p]
      /\ Keeps(m, B, n, C)
  BY <1>0 DEF IsSplit
<1> HIDE DEF r
<1>2. Tagged(m, top, B, S, A) /\ Layout(top, B, S) /\ b \in B /\ A[b] = 0
  BY PiecesFacts DEF FreeOf
<1>3. PICK E : Good(o, top, E) /\ Keeps(n, C, o, E) /\ Taken(o, E) \subseteq Taken(n, C)
  BY <1>1, CoalesceGood
<1> HIDE DEF o
<1>4. Keeps(m, B, o, E)
  BY <1>1, <1>3, KeepsTrans
<1>5. b \in E /\ Allocated(o, b) /\ Block_size(o, b) = a
  <2>1. Block_size(n, b) = a /\ Allocated(n, b)
    BY <1>1, <1>2, Reads
  <2> QED BY <2>1, <1>1, <1>2, <1>3 DEF Keeps
<1>6. Taken(n, C) \subseteq Taken(m, B) \union {b}
  <2>1. \A p \in C : Allocated(n, p) <=> D[p] = 1
    BY <1>1, Reads
  <2>2. \A p \in B : Allocated(m, p) <=> A[p] = 1
    BY <1>2, Reads
  <2> QED BY <2>1, <2>2, <1>1 DEF Taken
<1>7. Placed(m, top, B, o, b, a)
  <2>1. Taken(o, E) \subseteq Taken(m, B) \union {b} /\ Block_size(o, b) >= a
    BY <1>3, <1>5, <1>6
  <2> QED BY <2>1, <1>3, <1>4, <1>5 DEF Placed
<1> QED BY <1>7 DEF o, n, r

(* place, as a write to the whole of b or a cut and a coalesce.            *)
LEMMA PlaceForms ==
  ASSUME NEW m, NEW top, NEW B, NEW S, NEW A, Pieces(m, top, B, S, A),
         NEW b \in FreeOf(B, A), NEW a \in Nat, a % 2 = 0, a >= 4
  PROVE  LET m1 == REMOVE_BLOCK(m, b)
             m2 == mark_allocated(m1, b, a)
         IN  place(m, b, a) = IF S[b] - a >= 4
                              THEN coalesce(format_free(m2, b + a, S[b] - a), b + a).mem
                              ELSE mark_allocated(m1, b, S[b])
<1>2. Layout(top, B, S) /\ Tagged(m, top, B, S, A) /\ b \in B
  BY PiecesFacts DEF FreeOf
<1>3. GET_SIZE(m, HDRP(b)) = S[b]
  BY <1>2, Reads
<1>4. S[b] \in Nat /\ b \in Int
  BY <1>2 DEF Layout
<1> DEFINE m1 == REMOVE_BLOCK(m, b)
<1> DEFINE m2 == mark_allocated(m1, b, a)
<1>5. CASE S[b] - a >= 4
  <2>1. NEXT_BLKP(m2, b) = b + a
    <3>1. m1 \in Memory
      BY <1>2, Unlist
    <3>2. b - 1 \in Addr /\ b + S[b] - 2 \in Addr /\ S[b] + 1 \in Word /\ S[b] \in Word
      BY <1>2, LayoutFacts
    <3>3. b + a - 2 \in Addr /\ a + 1 \in Word
      BY <3>2, <1>4, <1>5, Defs DEF Addr, Word
    <3> HIDE DEF m1
    <3>4. m2[b - 1] = a + 1
      BY <3>1, <3>2, <3>3, <1>4, MarkAllocatedWrites
    <3> QED BY <3>4, <1>4, EvenTag
  <2> HIDE DEF m2
  <2> QED BY <2>1, <1>3, <1>5 DEF place, DSIZE, m2
<1>6. CASE ~(S[b] - a >= 4)
  BY <1>3, <1>6 DEF place, DSIZE
<1> QED BY <1>5, <1>6

(* place gives the client the free block b, cut down when enough is left.  *)
LEMMA PlaceGood ==
  ASSUME NEW m, NEW top, NEW B, Good(m, top, B),
         NEW b \in FreeBlocks(m, B),
         NEW a \in Nat, a % 2 = 0, a >= 4, Block_size(m, b) >= a
  PROVE  Placed(m, top, B, place(m, b, a), b, a)
<1>1. PICK S, A : Pieces(m, top, B, S, A) /\ FreeBlocks(m, B) = FreeOf(B, A)
  BY GoodElim
<1>2. Layout(top, B, S) /\ Tagged(m, top, B, S, A) /\ b \in FreeOf(B, A) /\ b \in B
  BY <1>1, PiecesFacts DEF FreeOf
<1>3. GET_SIZE(m, HDRP(b)) = S[b] /\ Block_size(m, b) = S[b] /\ S[b] >= a
  BY <1>2, Reads
<1>4. S[b] \in Nat /\ b \in Int
  BY <1>2 DEF Layout
<1> DEFINE m1 == REMOVE_BLOCK(m, b)
<1> DEFINE m2 == mark_allocated(m1, b, a)
<1>5. CASE S[b] - a >= 4
  <2>2. place(m, b, a) = coalesce(format_free(m2, b + a, S[b] - a), b + a).mem
    BY <1>1, <1>2, <1>5, PlaceForms
  <2> QED BY <2>2, <1>1, <1>2, <1>5, PlaceSplit
<1>6. CASE ~(S[b] - a >= 4)
  <2>1. place(m, b, a) = mark_allocated(m1, b, S[b])
    BY <1>1, <1>2, <1>6, PlaceForms
  <2>2. Placed(m, top, B, place(m, b, a), b, S[b])
    BY <2>1, <1>1, <1>2, PlaceWhole
  <2>3. \A x \in Int : x >= S[b] => x >= a
    BY <1>3, <1>4
  <2>4. PICK C : /\ Good(place(m, b, a), top, C) /\ Keeps(m, B, place(m, b, a), C)
                 /\ b \in C /\ Allocated(place(m, b, a), b)
                 /\ Taken(place(m, b, a), C) \subseteq Taken(m, B) \union {b}
                 /\ Block_size(place(m, b, a), b) >= S[b]
    BY <2>2 DEF Placed
  <2>5. Block_size(place(m, b, a), b) \in Int
    <3>1. PICK T, D : Pieces(place(m, b, a), top, C, T, D)
      BY <2>4, GoodElim
    <3>2. Block_size(place(m, b, a), b) = T[b] /\ T[b] \in Int
      BY <3>1, <2>4, GoodIntro, PiecesFacts, LayoutFacts
    <3> QED BY <3>2
  <2>6. Block_size(place(m, b, a), b) >= a
    BY <2>3, <2>4, <2>5
  <2> QED BY <2>4, <2>6 DEF Placed
<1> QED BY <1>5, <1>6

----------------------------------------------------------------------------
(* extend_heap and mm_init.                                                *)

(* The bits when a free block is added at the break.                       *)
GrowBits(B, A, top) == [p \in B \union {top} |-> IF p = top THEN 0 ELSE A[p]]

(* The words at the old break, made a free block with an epilogue.         *)
Extended(m, top, size) == PUT(format_free(m, top, size), top + size - 1, 1)

(* Heap m has grown: there is a free block of size words at its break.     *)
IsGrown(m, top, B, S, A, size, n, C, T, D) ==
  /\ C = B \union {top}
  /\ Freed(n, top + size, C, T, D, top)
  /\ Keeps(m, B, n, C) /\ Taken(n, C) \subseteq Taken(m, B)
  /\ T[top] = size /\ D[top] = 0
  /\ \A p \in B : T[p] = S[p] /\ D[p] = A[p]

(* The room asked for, made even, is a free block that coalesce is given.  *)
LEMMA ExtendFreed ==
  ASSUME NEW m, NEW top, NEW B, NEW S, NEW A, Pieces(m, top, B, S, A),
         NEW words \in Nat, words >= 4,
         NEW size, size = extend_size(words), top + size <= HeapBase + MAX_HEAP
  PROVE  LET n == Extended(m, top, size)
         IN  /\ extend_heap(m, top, words) = coalesce(n, top)
             /\ IsGrown(m, top, B, S, A, size, n, B \union {top},
                        Grow(B, S, top, size), GrowBits(B, A, top))
<1>2. /\ m \in Memory /\ Layout(top, B, S) /\ Tagged(m, top, B, S, A)
      /\ ListOK(m, FreeOf(B, A)) /\ Sparse(S, FreeOf(B, A))
      /\ FreeOf(B, A) \subseteq B \ {heap_listp}
  BY PiecesFacts
<1>3. size \in Nat /\ size % 2 = 0 /\ size >= 4
  BY DEF extend_size
<1>4. /\ top \in Int /\ top > heap_listp + 1 /\ top \notin B /\ heap_listp \in Int
      /\ top - 1 \in Addr /\ top + size - 2 \in Addr /\ size \in Word
      /\ (top + size) - 1 \in Addr
  <2>1. top \in Int /\ top > heap_listp + 1 /\ top \notin B /\ top - 1 \in Addr
    BY <1>2, LayoutFacts
  <2> QED BY <2>1, <1>3, Defs DEF Addr, Word
<1> DEFINE e == top + size
<1> DEFINE m1 == format_free(m, top, size)
<1> DEFINE n == PUT(m1, e - 1, 1)
<1> DEFINE C == B \union {top}
<1> DEFINE T == Grow(B, S, top, size)
<1> DEFINE D == GrowBits(B, A, top)
<1> DEFINE F == FreeOf(B, A)
<1>5. /\ m1 \in Memory /\ m1[top - 1] = size /\ m1[top + size - 2] = size /\ m1[top] = NULL
      /\ Outside(m, m1, top - 1, top + size - 2)
  BY <1>2, <1>3, <1>4, FormatFreeWrites
<1> HIDE DEF m1
<1>6. extend_heap(m, top, words) = coalesce(n, top)
  <2>1. m1[top - 1] = size + 0
    BY <1>3, <1>5
  <2>2. NEXT_BLKP(m1, top) = e
    BY <2>1, <1>3, <1>4, EvenTag
  <2>3. HDRP(e) = e - 1 /\ PACK(0, 1) = 1
    BY DEF HDRP, WSIZE, PACK
  <2> QED BY <2>2, <2>3 DEF extend_heap, m1
<1>7. n \in Memory /\ \A a \in Addr : n[a] = IF a = e - 1 THEN 1 ELSE m1[a]
  <2>1. 1 \in Word
    BY Defs DEF Word
  <2> QED BY <2>1, <1>4, <1>5 DEF PUT, Memory
<1> HIDE DEF n
<1>8. /\ n[top - 1] = size /\ n[top + size - 2] = size /\ n[top] = NULL /\ n[e - 1] = 1
      /\ Outside(m, n, top - 1, e - 1)
  <2>1. top \in Addr /\ \A a \in Addr : a \in Int
    BY <1>3, <1>4, Defs DEF Addr
  <2>2. n[top - 1] = size /\ n[top + size - 2] = size /\ n[top] = NULL /\ n[e - 1] = 1
    BY <2>1, <1>3, <1>4, <1>5, <1>7
  <2>3. Outside(m, n, top - 1, e - 1)
    BY <2>1, <1>3, <1>4, <1>5, <1>7 DEF Outside
  <2> QED BY <2>2, <2>3
<1>9. Layout(e, C, T)
  BY <1>2, <1>3, GrowLayout
<1>10. T[top] = size /\ \A p \in B : T[p] = S[p]
  BY <1>4 DEF Grow
<1>11. D[top] = 0 /\ (\A p \in B : D[p] = A[p]) /\ D \in [C -> {0, 1}]
  BY <1>2, <1>4 DEF Tagged, GrowBits
<1> HIDE DEF T, D
<1>12. \A p \in B : /\ p \in Int /\ S[p] \in Int /\ S[p] >= 2 /\ p + S[p] <= top
                    /\ p - 1 \in Addr /\ p + S[p] - 2 \in Addr /\ p >= heap_listp
  <2>1. \A p \in B : p \in Int /\ S[p] \in Int /\ S[p] >= 2 /\ p + S[p] <= top /\ p >= heap_listp
    BY <1>2 DEF Layout
  <2>2. \A p \in B : p - 1 \in Addr /\ p + S[p] - 2 \in Addr
    BY <1>2, LayoutFacts
  <2> QED BY <2>1, <2>2
<1>13. ASSUME NEW p \in B
       PROVE  /\ n[p - 1] = m[p - 1] /\ n[p + S[p] - 2] = m[p + S[p] - 2]
              /\ \A x \in p .. (p + S[p] - 3) : n[x] = m[x]
  <2>1. /\ p \in Int /\ S[p] \in Int /\ S[p] >= 2 /\ p + S[p] <= top /\ p >= heap_listp
        /\ p - 1 \in Addr /\ p + S[p] - 2 \in Addr
    BY <1>12
  <2>2. n[p - 1] = m[p - 1] /\ n[p + S[p] - 2] = m[p + S[p] - 2]
    BY <2>1, <1>4, <1>8 DEF Outside
  <2>3. \A x \in p .. (p + S[p] - 3) : x \in Addr /\ x < top - 1
    BY <2>1, <1>4, Defs DEF Addr
  <2> QED BY <2>2, <2>3, <1>8 DEF Outside
<1>14. Tagged(n, e, C, T, D)
  <2>1. D[heap_listp] = 1
    BY <1>2, <1>11 DEF Tagged, Layout
  <2>2. ASSUME NEW p \in C
        PROVE  n[p - 1] = T[p] + D[p] /\ n[p + T[p] - 2] = T[p] + D[p]
    <3>1. CASE p = top
      BY <3>1, <1>3, <1>4, <1>8, <1>10, <1>11
    <3>2. CASE p \in B
      BY <3>2, <1>2, <1>10, <1>11, <1>13 DEF Tagged
    <3> QED BY <3>1, <3>2
  <2> QED BY <2>1, <2>2, <1>8, <1>11 DEF Tagged
<1>15. ListOK(n, F)
  <2>1. \A p \in F : p + 1 < top - 1 \/ p > e - 1
    <3>1. \A p \in F : S[p] >= 4 /\ p \in B
      BY <1>2 DEF Layout
    <3> QED BY <3>1, <1>4, <1>12
  <2>2. Spread(F)
    BY <1>2, SpreadBlocks
  <2>3. top - 1 > free_listp + 1 /\ top - 1 \in Int /\ e - 1 \in Int
    BY <1>3, <1>4, Defs
  <2>4. ListOK(m, F)
    BY <1>2
  <2> HIDE DEF F
  <2> QED BY <2>1, <2>2, <2>3, <2>4, <1>8, ListOutside
<1>16. Keeps(m, B, n, C)
  <2> SUFFICES ASSUME NEW p \in B, Allocated(m, p)
               PROVE  /\ p \in C /\ Allocated(n, p)
                      /\ Block_size(n, p) = Block_size(m, p)
                      /\ \A x \in p .. (p + Block_size(m, p) - 3) : n[x] = m[x]
    BY DEF Keeps
  <2>1. Block_size(m, p) = S[p] /\ A[p] = 1 /\ p \in C
    BY <1>2, Reads
  <2>2. Block_size(n, p) = T[p] /\ (Allocated(n, p) <=> D[p] = 1)
    BY <2>1, <1>9, <1>14, Reads
  <2>3. T[p] = S[p] /\ D[p] = 1
    BY <2>1, <1>10, <1>11
  <2> QED BY <2>1, <2>2, <2>3, <1>13
<1>17. FreeOf(C, D) \ {top} = F /\ top \in FreeOf(C, D)
  BY <1>4, <1>11 DEF FreeOf
<1>18. Sparse(T, F)
  <2>1. \A p \in F : p \in B
    BY <1>2
  <2> QED BY <2>1, <1>2, <1>10 DEF Sparse
<1>19. Freed(n, e, C, T, D, top)
  BY <1>7, <1>8, <1>9, <1>14, <1>15, <1>17, <1>18 DEF Freed, Heap
<1>20. Taken(n, C) \subseteq Taken(m, B)
  <2>1. \A p \in C : Allocated(n, p) <=> D[p] = 1
    BY <1>9, <1>14, Reads
  <2>2. \A p \in B : Allocated(m, p) <=> A[p] = 1
    BY <1>2, Reads
  <2> QED BY <2>1, <2>2, <1>11 DEF Taken
<1>21. n = Extended(m, top, size)
  BY <1>3, <1>4 DEF n, m1, Extended
<1>22. IsGrown(m, top, B, S, A, size, n, C, T, D)
  BY <1>10, <1>11, <1>16, <1>19, <1>20 DEF IsGrown
<1> QED BY <1>6, <1>21, <1>22 DEF T, D

(* The heap grows by a free block.                                         *)
LEMMA ExtendGood ==
  ASSUME NEW m, NEW top, NEW B, Good(m, top, B),
         NEW words \in Nat, words >= 4,
         NEW size, size = extend_size(words), top + size <= HeapBase + MAX_HEAP
  PROVE  LET x == extend_heap(m, top, words)
         IN  \E C : /\ Good(x.mem, top + size, C) /\ Keeps(m, B, x.mem, C)
                    /\ Taken(x.mem, C) \subseteq Taken(m, B)
                    /\ x.bp \in FreeBlocks(x.mem, C)
                    /\ Block_size(x.mem, x.bp) >= size
<1>1. PICK S, A : Pieces(m, top, B, S, A)
  BY GoodElim
<1> DEFINE n == Extended(m, top, size)
<1> DEFINE C == B \union {top}
<1> DEFINE T == Grow(B, S, top, size)
<1> DEFINE D == GrowBits(B, A, top)
<1> DEFINE e == top + size
<1>0. /\ extend_heap(m, top, words) = coalesce(n, top)
      /\ IsGrown(m, top, B, S, A, size, n, C, T, D)
  BY <1>1, ExtendFreed
<1> HIDE DEF n, C, T, D
<1>2. /\ extend_heap(m, top, words) = coalesce(n, top) /\ Freed(n, e, C, T, D, top)
      /\ Keeps(m, B, n, C) /\ Taken(n, C) \subseteq Taken(m, B) /\ T[top] = size
  BY <1>0 DEF IsGrown
<1> HIDE DEF e
<1> DEFINE x == coalesce(n, top)
<1>3. PICK E : /\ Good(x.mem, e, E) /\ Keeps(n, C, x.mem, E)
               /\ Taken(x.mem, E) \subseteq Taken(n, C)
               /\ x.bp \in FreeBlocks(x.mem, E) /\ Block_size(x.mem, x.bp) >= T[top]
  BY <1>2, CoalesceGood
<1> HIDE DEF x
<1>4. Keeps(m, B, x.mem, E)
  BY <1>2, <1>3, KeepsTrans
<1>5. Block_size(x.mem, x.bp) >= size
  BY <1>2, <1>3
<1> QED BY <1>2, <1>3, <1>4, <1>5 DEF x, e

(* What mm_init writes before it extends the heap: the root, a word of     *)
(* padding on either side of it, the prologue and the epilogue.            *)
Prologue(m) ==
  LET b == HeapBase
  IN  PUT(PUT(PUT(PUT(PUT(PUT(m, b, 0), b + 1, 0), b + 2, 0), b + 3, 3), b + 4, 3), b + 5, 1)

OneBlock == {heap_listp}

(* The prologue alone is a heap.                                           *)
LEMMA InitPieces ==
  ASSUME NEW m \in Memory
  PROVE  /\ mm_init(m) = extend_heap(Prologue(m), HeapBase + 6, CHUNKSIZE).mem
         /\ Pieces(Prologue(m), HeapBase + 6, OneBlock, [p \in OneBlock |-> 2],
                   [p \in OneBlock |-> 1])
         /\ Prologue(m)[HeapBase + 1] = 0 /\ Prologue(m)[HeapBase + 2] = 0
<1> DEFINE b == HeapBase
<1> DEFINE m1 == PUT(m, b, 0)
<1> DEFINE m2 == PUT(m1, b + 1, 0)
<1> DEFINE m3 == PUT(m2, b + 2, 0)
<1> DEFINE m4 == PUT(m3, b + 3, 3)
<1> DEFINE m5 == PUT(m4, b + 4, 3)
<1> DEFINE n == PUT(m5, b + 5, 1)
<1>0. n = Prologue(m)
  BY DEF Prologue
<1>1. /\ b \in Nat /\ b > 0 /\ b % 2 = 0 /\ b + 6 <= HeapBase + MAX_HEAP
      /\ b \in Addr /\ b + 1 \in Addr /\ b + 2 \in Addr /\ b + 3 \in Addr
      /\ b + 4 \in Addr /\ b + 5 \in Addr
      /\ 0 \in Word /\ 1 \in Word /\ 3 \in Word
      /\ free_listp = b + 1 /\ heap_listp = b + 4
  BY Defs DEF Addr, Word
<1>2. mm_init(m) = extend_heap(n, b + 6, CHUNKSIZE).mem
  <2>1. HDRP(heap_listp) = b + 3 /\ heap_listp + WSIZE = b + 5
    BY <1>1 DEF HDRP, WSIZE
  <2>2. PACK(DSIZE, 1) = 3 /\ PACK(0, 1) = 1 /\ b + DSIZE = b + 2 /\ b + 3 * DSIZE = b + 6
    BY DEF PACK, DSIZE
  <2> QED BY <2>1, <2>2, <1>1 DEF mm_init
<1>3. m1 \in Memory /\ \A a \in Addr : m1[a] = IF a = b THEN 0 ELSE m[a]
  BY <1>1 DEF PUT, Memory
<1> HIDE DEF m1
<1>4. m2 \in Memory /\ \A a \in Addr : m2[a] = IF a = b + 1 THEN 0 ELSE m1[a]
  BY <1>1, <1>3 DEF PUT, Memory
<1> HIDE DEF m2
<1>5. m3 \in Memory /\ \A a \in Addr : m3[a] = IF a = b + 2 THEN 0 ELSE m2[a]
  BY <1>1, <1>4 DEF PUT, Memory
<1> HIDE DEF m3
<1>6. m4 \in Memory /\ \A a \in Addr : m4[a] = IF a = b + 3 THEN 3 ELSE m3[a]
  BY <1>1, <1>5 DEF PUT, Memory
<1> HIDE DEF m4
<1>7. m5 \in Memory /\ \A a \in Addr : m5[a] = IF a = b + 4 THEN 3 ELSE m4[a]
  BY <1>1, <1>6 DEF PUT, Memory
<1> HIDE DEF m5
<1>8. n \in Memory /\ \A a \in Addr : n[a] = IF a = b + 5 THEN 1 ELSE m5[a]
  BY <1>1, <1>7 DEF PUT, Memory
<1> HIDE DEF n
<1>9. n[b + 1] = 0 /\ n[b + 2] = 0 /\ n[b + 3] = 3 /\ n[b + 4] = 3 /\ n[b + 5] = 1
  BY <1>1, <1>4, <1>5, <1>6, <1>7, <1>8
<1> DEFINE B == {heap_listp}
<1> DEFINE S == [p \in B |-> 2]
<1> DEFINE A == [p \in B |-> 1]
<1>10. Layout(b + 6, B, S)
  BY <1>1 DEF Layout
<1>11. Tagged(n, b + 6, B, S, A)
  <2>1. (b + 4) - 1 = b + 3 /\ (b + 4) + 2 - 2 = b + 4 /\ (b + 6) - 1 = b + 5
    BY <1>1
  <2> QED BY <2>1, <1>1, <1>9 DEF Tagged
<1>12. FreeOf(B, A) = {}
  BY DEF FreeOf
<1>13. ListOK(n, {})
  <2>1. Linked(n, {})
    BY <1>1, <1>9 DEF Linked, GET, WSIZE, NULL
  <2>2. [p \in {} |-> 0] \in [{} -> Nat] /\ \A r : Ranked(n, {}, r)
    BY DEF Ranked
  <2> QED BY <2>1, <2>2 DEF ListOK
<1>14. Pieces(n, b + 6, B, S, A)
  BY <1>8, <1>10, <1>11, <1>12, <1>13 DEF Pieces, Heap, Sparse
<1> HIDE DEF S, A
<1> QED BY <1>0, <1>2, <1>9, <1>14 DEF S, A, OneBlock

(* mm_init makes a heap of any memory.                                     *)
LEMMA InitGood ==
  ASSUME NEW m \in Memory
  PROVE  /\ \E C : /\ Good(mm_init(m), mm_init_brk, C)
                   /\ Taken(mm_init(m), C) \subseteq {heap_listp}
         /\ mm_init_brk \in HeapBase .. (HeapBase + MAX_HEAP) /\ mm_init_brk # HeapBase
<1> DEFINE b == HeapBase
<1> DEFINE n == Prologue(m)
<1> DEFINE B == OneBlock
<1>1. b \in Nat /\ b > 0 /\ b + 6 <= HeapBase + MAX_HEAP
  BY Defs
<1>2. mm_init(m) = extend_heap(n, b + 6, CHUNKSIZE).mem
  BY InitPieces
<1>15. Good(n, b + 6, B)
  BY InitPieces, GoodIntro
<1> HIDE DEF n
<1>16. /\ CHUNKSIZE \in Nat /\ CHUNKSIZE >= 4
       /\ b + 6 + extend_size(CHUNKSIZE) <= HeapBase + MAX_HEAP
       /\ extend_size(CHUNKSIZE) \in Nat
  BY Defs DEF extend_size
<1>17. mm_init_brk = b + 6 + extend_size(CHUNKSIZE)
  BY DEF mm_init_brk, DSIZE
<1>18. (b + 6) + extend_size(CHUNKSIZE) <= HeapBase + MAX_HEAP
  BY <1>16, <1>1
<1>19. \E C : /\ Good(mm_init(m), (b + 6) + extend_size(CHUNKSIZE), C)
              /\ Taken(mm_init(m), C) \subseteq {heap_listp}
  <2>1. Taken(n, B) \subseteq {heap_listp}
    BY DEF Taken, OneBlock
  <2> HIDE DEF B
  <2>2. \E C : /\ Good(mm_init(m), (b + 6) + extend_size(CHUNKSIZE), C)
               /\ Taken(mm_init(m), C) \subseteq Taken(n, B)
    BY <1>2, <1>15, <1>16, <1>18, ExtendGood
  <2> QED BY <2>1, <2>2
<1>20. (b + 6) + extend_size(CHUNKSIZE) = mm_init_brk
  BY <1>1, <1>16, <1>17
<1>21. mm_init_brk \in HeapBase .. (HeapBase + MAX_HEAP) /\ mm_init_brk # HeapBase
  BY <1>1, <1>16, <1>17, Defs
<1> QED BY <1>19, <1>20, <1>21

----------------------------------------------------------------------------
(* The writes of a client, and of mm_realloc's memcpy.                     *)

(* Writing inside the payload of an allocated block changes nothing else.  *)
LEMMA PayloadGood ==
  ASSUME NEW m, NEW top, NEW B, Good(m, top, B), NEW n \in Memory,
         NEW b \in B, Allocated(m, b),
         Outside(m, n, b, b + Block_size(m, b) - 3)
  PROVE  /\ Good(n, top, B) /\ Keeps(m, B \ {b}, n, B)
         /\ Allocated(n, b) /\ Block_size(n, b) = Block_size(m, b)
         /\ \A p \in B : Block_size(n, p) = Block_size(m, p) /\ (Allocated(n, p) <=> Allocated(m, p))
<1>1. PICK S, A : Pieces(m, top, B, S, A)
  BY GoodElim
<1>2. /\ m \in Memory /\ Layout(top, B, S) /\ Tagged(m, top, B, S, A)
      /\ ListOK(m, FreeOf(B, A)) /\ Sparse(S, FreeOf(B, A))
      /\ FreeOf(B, A) \subseteq B \ {heap_listp}
  BY <1>1, PiecesFacts
<1>3. Block_size(m, b) = S[b] /\ A[b] = 1
  BY <1>2, Reads
<1> DEFINE e == b + S[b]
<1> DEFINE F == FreeOf(B, A)
<1>4. /\ e \in Int /\ b \in Int /\ S[b] \in Int /\ S[b] >= 2 /\ e <= top /\ top \in Int
      /\ b >= heap_listp /\ heap_listp \in Int
  BY <1>2, Defs DEF Layout
<1>5. Outside(m, n, b, e - 3)
  <2>1. b + S[b] - 3 = e - 3
    BY <1>4
  <2> QED BY <2>1, <1>3
<1>6. \A p \in B : /\ p \in Int /\ S[p] \in Int /\ S[p] >= 2
                   /\ p # b => p + S[p] <= b \/ p >= e
                   /\ p - 1 \in Addr /\ p + S[p] - 2 \in Addr /\ p >= heap_listp
  <2>1. \A p \in B : p \in Int /\ S[p] \in Int /\ S[p] >= 2 /\ p >= heap_listp
    BY <1>2 DEF Layout
  <2>2. \A p, q \in B : p < q => p + S[p] <= q
    BY <1>2 DEF Layout
  <2>3. \A p \in B : p - 1 \in Addr /\ p + S[p] - 2 \in Addr
    BY <1>2, LayoutFacts
  <2> QED BY <2>1, <2>2, <2>3
<1> HIDE DEF e
<1>7. ASSUME NEW p \in B
      PROVE  /\ n[p - 1] = m[p - 1] /\ n[p + S[p] - 2] = m[p + S[p] - 2]
             /\ p # b => \A x \in p .. (p + S[p] - 3) : n[x] = m[x]
  <2>1. /\ p \in Int /\ S[p] \in Int /\ S[p] >= 2 /\ p >= heap_listp
        /\ p # b => p + S[p] <= b \/ p >= e
        /\ p - 1 \in Addr /\ p + S[p] - 2 \in Addr
    BY <1>6
  <2>2. e = b + S[b]
    BY DEF e
  <2>3. n[p - 1] = m[p - 1] /\ n[p + S[p] - 2] = m[p + S[p] - 2]
    <3>1. CASE p = b
      BY <3>1, <2>1, <2>2, <1>4, <1>5 DEF Outside
    <3>2. CASE p # b
      BY <3>2, <2>1, <2>2, <1>4, <1>5 DEF Outside
    <3> QED BY <3>1, <3>2
  <2>4. ASSUME p # b, NEW x \in p .. (p + S[p] - 3) PROVE n[x] = m[x]
    <3>1. x \in Addr /\ (x < b \/ x > e - 3)
      BY <2>1, <2>2, <2>4, <1>4, Defs DEF Addr
    <3> QED BY <3>1, <1>5 DEF Outside
  <2> QED BY <2>3, <2>4
<1>8. Tagged(n, top, B, S, A)
  <2>1. n[top - 1] = m[top - 1]
    <3>1. top - 1 \in Addr
      BY <1>2, LayoutFacts
    <3> QED BY <3>1, <1>4, <1>5 DEF Outside, e
  <2> QED BY <2>1, <1>2, <1>7 DEF Tagged
<1>9. ListOK(n, F)
  <2>1. \A p \in F : p + 1 < b \/ p > e - 3
    <3>1. \A p \in F : S[p] >= 4 /\ p \in B /\ p # b
      BY <1>2, <1>3 DEF Layout, FreeOf
    <3>2. \A p \in F : p \in Int /\ S[p] \in Int /\ (p + S[p] <= b \/ p >= e)
      BY <3>1, <1>6
    <3> HIDE DEF F
    <3> QED BY <3>1, <3>2, <1>4
  <2>2. Spread(F)
    BY <1>2, SpreadBlocks
  <2>3. b > free_listp + 1 /\ b \in Int /\ e - 3 \in Int
    BY <1>4, Defs DEF e
  <2>4. ListOK(m, F)
    BY <1>2
  <2> HIDE DEF F
  <2> QED BY <2>1, <2>2, <2>3, <2>4, <1>5, ListOutside
<1>10. Pieces(n, top, B, S, A)
  BY <1>2, <1>8, <1>9 DEF Pieces, Heap
<1>11. Good(n, top, B)
  BY <1>10, GoodIntro
<1>12. \A p \in B : /\ Block_size(n, p) = Block_size(m, p) /\ Block_size(m, p) = S[p]
                    /\ Allocated(n, p) <=> Allocated(m, p)
  BY <1>2, <1>8, Reads
<1>13. Keeps(m, B \ {b}, n, B)
  BY <1>7, <1>12 DEF Keeps
<1> QED BY <1>11, <1>12, <1>13

----------------------------------------------------------------------------
(* The walks.                                                              *)

(* A set of numbers has a least one.                                       *)
LEMMA Least ==
  ASSUME NEW T, T \subseteq Nat, T # {}
  PROVE  \E x \in T : \A y \in T : x <= y
<1> DEFINE R == {ss \in Nat \X Nat : ss[1] < ss[2]}
<1>1. IsWellFoundedOn(R, Nat)
  BY NatLessThanWellFounded DEF OpToRel
<1>2. \A x, y \in Nat : y < x => <<y, x>> \in R
  OBVIOUS
<1> HIDE DEF R
<1>3. PICK x \in T : \A y \in T : ~(<<y, x>> \in R)
  BY <1>1, WFMin
<1>4. ASSUME NEW y \in T PROVE x <= y
  <2>1. x \in Nat /\ y \in Nat
    OBVIOUS
  <2>2. ~(y < x)
    BY <2>1, <1>2, <1>3
  <2> QED BY <2>1, <2>2
<1> QED BY <1>4

(* A set of numbers with a bound has a greatest one.                       *)
LEMMA Greatest ==
  ASSUME NEW T, T \subseteq Int, T # {}, NEW n \in Int, \A x \in T : x <= n
  PROVE  \E x \in T : \A y \in T : y <= x
<1> DEFINE D == {n - x : x \in T}
<1>1. D \subseteq Nat /\ D # {}
  <2>1. \A x \in T : x \in Int /\ x <= n /\ n - x \in Nat
    OBVIOUS
  <2> QED BY <2>1
<1>2. PICK d \in D : \A y \in D : d <= y
  BY <1>1, Least
<1>3. PICK x \in T : d = n - x
  OBVIOUS
<1>4. ASSUME NEW y \in T PROVE y <= x
  <2>1. n - y \in D
    OBVIOUS
  <2>2. n - x <= n - y /\ x \in Int /\ y \in Int
    BY <2>1, <1>2, <1>3
  <2> QED BY <2>2
<1> QED BY <1>4

----------------------------------------------------------------------------
(* The walk upwards.                                                       *)

(* Where blocks_from may look for a header.                                *)
Places == Addr \union {HeapBase + MAX_HEAP}

(* w[p] holds the blocks found by walking up from p.                       *)
IsWalk(m, w) ==
  w = [p \in Places |->
         IF Block_size(m, p) = 0 THEN {}
         ELSE {p} \union IF NEXT_BLKP(m, p) \in DOMAIN w
                         THEN w[NEXT_BLKP(m, p)] ELSE {}]

(* Whatever the memory, there is such a function: the least sets closed    *)
(* under the walk's step.                                                  *)
LEMMA WalkExists ==
  ASSUME NEW m
  PROVE  \E w : IsWalk(m, w)
<1> DEFINE Z(p) == Block_size(m, p) = 0
<1> DEFINE N(p) == NEXT_BLKP(m, p)
<1> DEFINE Closed(X, p) == /\ ~Z(p) => p \in X
                           /\ \A x \in X : N(x) \in Places /\ ~Z(N(x)) => N(x) \in X
<1> DEFINE w == [p \in Places |-> {q \in Places : \A X \in SUBSET Places : Closed(X, p) => q \in X}]
<1> HIDE DEF Z, N
<1>0. DOMAIN w = Places /\ \A p \in Places : w[p] \in SUBSET Places
  OBVIOUS
<1>1. ASSUME NEW p \in Places, NEW q
      PROVE  q \in w[p] <=> q \in Places /\ \A X \in SUBSET Places : Closed(X, p) => q \in X
  OBVIOUS
<1>2. ASSUME NEW p \in Places PROVE Closed(w[p], p)
  BY <1>1
<1>3. ASSUME NEW p \in Places, NEW X \in SUBSET Places, Closed(X, p) PROVE w[p] \subseteq X
  BY <1>1, <1>3
<1> HIDE DEF w
<1>4. ASSUME NEW p \in Places
      PROVE  w[p] = IF Z(p) THEN {} ELSE {p} \union IF N(p) \in Places THEN w[N(p)] ELSE {}
  <2>1. CASE Z(p)
    <3>1. Closed({}, p)
      BY <2>1
    <3> QED BY <3>1, <2>1, <1>3
  <2>2. CASE ~Z(p) /\ N(p) \notin Places
    <3>1. Closed({p}, p)
      BY <2>2
    <3>2. w[p] \subseteq {p}
      BY <3>1, <1>3
    <3>3. p \in w[p]
      BY <2>2, <1>2
    <3> QED BY <3>2, <3>3, <2>2
  <2>3. CASE ~Z(p) /\ N(p) \in Places
    <3>1. Closed(w[N(p)], N(p)) /\ Closed(w[p], p)
      BY <2>3, <1>2
    <3>2. Closed({p} \union w[N(p)], p) /\ {p} \union w[N(p)] \in SUBSET Places
      BY <2>3, <3>1, <1>0
    <3>3. w[p] \subseteq {p} \union w[N(p)]
      BY <3>2, <1>3
    <3>4. p \in w[p] /\ Closed(w[p], N(p))
      BY <2>3, <3>1
    <3>5. w[N(p)] \subseteq w[p]
      BY <3>4, <2>3, <1>0, <1>3
    <3> QED BY <3>3, <3>4, <3>5, <2>3
  <2> QED BY <2>1, <2>2, <2>3
<1>5. w = [p \in Places |-> w[p]]
  BY DEF w
<1>6. IsWalk(m, w)
  BY <1>0, <1>4, <1>5 DEF IsWalk, Z, N
<1> QED BY <1>6

(* blocks_from is the value of such a function at the prologue.            *)
LEMMA BlocksFromWalk ==
  ASSUME NEW m
  PROVE  \E w : IsWalk(m, w) /\ blocks_from(m) = w[heap_listp]
<1> DEFINE walk[p \in Addr \union {HeapBase + MAX_HEAP}] ==
        IF Block_size(m, p) = 0 THEN {}
        ELSE {p} \union IF NEXT_BLKP(m, p) \in DOMAIN walk
                        THEN walk[NEXT_BLKP(m, p)] ELSE {}
<1>1. blocks_from(m) = walk[heap_listp]
  BY DEF blocks_from
<1>2. PICK w : IsWalk(m, w)
  BY WalkExists
<1>3. IsWalk(m, walk)
  BY <1>2 DEF IsWalk, Places
<1> HIDE DEF walk
<1> QED BY <1>1, <1>3

(* In a tiled heap, the walk finds the blocks of the tiling.               *)
LEMMA WalkFindsBlocks ==
  ASSUME NEW m, NEW top, NEW B, NEW S, NEW A,
         Layout(top, B, S), Tagged(m, top, B, S, A)
  PROVE  blocks_from(m) = B
<1>1. PICK w : IsWalk(m, w) /\ blocks_from(m) = w[heap_listp]
  BY BlocksFromWalk
<1>2. /\ top \in Places /\ Block_size(m, top) = 0 /\ top \in Int /\ top \notin B
      /\ B \subseteq Places
  <2>1. top - 1 \in Addr /\ top \in Int /\ top \notin B /\ \A p \in B : p \in Addr
    BY LayoutFacts
  <2>2. top \in Places
    BY <2>1, Defs DEF Addr, Places
  <2>3. Block_size(m, top) = 0
    BY TopReads DEF Block_size
  <2> QED BY <2>1, <2>2, <2>3 DEF Places
<1>3. \A p \in B : /\ p \in Int /\ S[p] \in Int /\ S[p] >= 2 /\ p >= heap_listp
                   /\ p + S[p] <= top /\ p + S[p] \in B \union {top}
                   /\ Block_size(m, p) = S[p] /\ NEXT_BLKP(m, p) = p + S[p]
  <2>1. \A p \in B : Block_size(m, p) = S[p] /\ NEXT_BLKP(m, p) = p + S[p]
    BY Reads
  <2>2. \A p \in B : /\ p \in Int /\ S[p] \in Int /\ S[p] >= 2 /\ p >= heap_listp
                     /\ p + S[p] <= top /\ p + S[p] \in B \union {top}
    BY DEF Layout
  <2> QED BY <2>1, <2>2
<1>4. \A p, q \in B : p < q => p + S[p] <= q
  BY DEF Layout
<1>5. \A p \in B : w[p] = {p} \union w[p + S[p]]
  <2>1. DOMAIN w = Places
    BY <1>1 DEF IsWalk
  <2> QED BY <2>1, <1>1, <1>2, <1>3 DEF IsWalk
<1>6. w[top] = {}
  BY <1>1, <1>2 DEF IsWalk
<1> DEFINE Above(p) == {q \in B : q >= p}
<1> DEFINE Bad == {p \in B : w[p] # Above(p)}
<1>7. Bad = {}
  <2>1. SUFFICES ASSUME Bad # {} PROVE FALSE
    OBVIOUS
  <2>2. Bad \subseteq Int /\ \A p \in Bad : p <= top
    <3>1. \A p \in B : p \in Int /\ p <= top
      BY <1>2, <1>3
    <3>2. Bad \subseteq B
      OBVIOUS
    <3> HIDE DEF Bad
    <3> QED BY <3>1, <3>2
  <2>3. PICK p \in Bad : \A q \in Bad : q <= p
    BY <2>1, <2>2, <1>2, Greatest
  <2>4. p \in B /\ w[p] # Above(p)
    OBVIOUS
  <2>5. CASE p + S[p] = top
    <3>1. \A q \in B : q >= p => q = p
      BY <2>4, <2>5, <1>2, <1>3, <1>4
    <3>2. Above(p) = {p}
      BY <2>4, <3>1, <1>3
    <3> QED BY <2>4, <2>5, <3>2, <1>5, <1>6
  <2>6. CASE p + S[p] \in B
    <3>1. p + S[p] \notin Bad
      BY <2>3, <2>4, <1>3
    <3>2. w[p + S[p]] = Above(p + S[p])
      BY <2>6, <3>1
    <3>3. Above(p) = {p} \union Above(p + S[p])
      BY <2>4, <1>3, <1>4
    <3> QED BY <2>4, <3>2, <3>3, <1>5
  <2> QED BY <2>4, <2>5, <2>6, <1>3
<1>8. heap_listp \in B /\ Above(heap_listp) = B
  BY <1>3 DEF Layout
<1> QED BY <1>1, <1>7, <1>8

----------------------------------------------------------------------------
(* The walk along the free list.                                           *)

(* Of finitely many blocks one ranks highest.                              *)
LEMMA Highest ==
  ASSUME NEW F, IsFiniteSet(F), NEW r \in [F -> Nat], NEW G \in SUBSET F, G # {}
  PROVE  \E p \in G : \A q \in G : r[q] <= r[p]
<1> DEFINE Has(U) == \E p \in U : \A q \in U : r[q] <= r[p]
<1> DEFINE Bad == {U \in SUBSET F : U # {} /\ ~Has(U)}
<1> DEFINE K == {k \in Nat : \E U \in Bad : Cardinality(U) = k}
<1>1. SUFFICES ASSUME Bad # {} PROVE FALSE
  <2>1. G \notin Bad => Has(G)
    OBVIOUS
  <2> QED BY <2>1
<1>2. \A U \in Bad : IsFiniteSet(U) /\ Cardinality(U) \in Nat
  BY FS_Subset, FS_CardinalityType
<1>3. K \subseteq Nat /\ K # {}
  BY <1>1, <1>2
<1>4. PICK k \in K : \A l \in K : k <= l
  <2> HIDE DEF K
  <2> QED BY <1>3, Least
<1>5. PICK U \in Bad : Cardinality(U) = k
  OBVIOUS
<1>6. PICK x \in U : TRUE
  OBVIOUS
<1>7. IsFiniteSet(U \ {x}) /\ Cardinality(U \ {x}) = k - 1 /\ k \in Nat
  BY <1>2, <1>5, FS_RemoveElement
<1>8. U \ {x} \notin Bad
  <2>1. SUFFICES ASSUME U \ {x} \in Bad PROVE FALSE
    OBVIOUS
  <2>2. k - 1 \in K
    BY <2>1, <1>2, <1>7
  <2> HIDE DEF K
  <2> QED BY <2>2, <1>4, <1>7
<1>9. CASE U \ {x} = {}
  <2>1. \A q \in U : q = x
    BY <1>9
  <2>2. r[x] <= r[x]
    OBVIOUS
  <2> QED BY <2>1, <2>2
<1>10. CASE U \ {x} # {}
  <2>1. PICK y \in U \ {x} : \A q \in U \ {x} : r[q] <= r[y]
    BY <1>8, <1>10
  <2>2. /\ r[x] \in Nat /\ r[y] \in Nat
        /\ \A q \in U : r[q] \in Nat /\ (q = x \/ r[q] <= r[y])
    BY <2>1
  <2>3. \E p \in {x, y} : \A q \in U : r[q] <= r[p]
    <3>1. CASE r[x] <= r[y]
      BY <2>2, <3>1
    <3>2. CASE r[y] <= r[x]
      <4>1. \A q \in U : r[q] <= r[x]
        BY <2>2, <3>2
      <4> QED BY <4>1
    <3> QED BY <2>2, <3>1, <3>2
  <2> QED BY <2>1, <2>3
<1> QED BY <1>9, <1>10

(* Only the whole list holds its root and, with a block, the next one.     *)
LEMMA ListComplete ==
  ASSUME NEW m, NEW F, ListOK(m, F), F \subseteq Addr, NEW P, P \subseteq F,
         GET(m, free_listp) \in P \union {NULL},
         \A p \in P : GET(m, NEXT_P(p)) \in P \union {NULL}
  PROVE  P = F
<1>1. PICK r \in [F -> Nat] : Ranked(m, F, r)
  BY DEF ListOK
<1>2. IsFiniteSet(F)
  <2>1. IsFiniteSet(Addr)
    <3>1. HeapBase \in Int /\ HeapBase + MAX_HEAP - 1 \in Int
      BY Defs
    <3> QED BY <3>1, FS_Interval DEF Addr
  <2> QED BY <2>1, FS_Subset
<1>3. SUFFICES ASSUME F \ P # {} PROVE FALSE
  OBVIOUS
<1>4. PICK p \in F \ P : \A q \in F \ P : r[q] <= r[p]
  BY <1>2, <1>3, Highest
<1>5. \A q \in F : q # NULL
  BY Defs DEF Addr, NULL
<1> DEFINE prev == GET(m, PREV_P(p))
<1>6. /\ prev # NULL => prev \in F /\ GET(m, NEXT_P(prev)) = p
      /\ prev = NULL <=> GET(m, free_listp) = p
  BY DEF ListOK, Linked
<1>7. prev # NULL
  BY <1>4, <1>5, <1>6
<1>8. prev \in F \ P
  BY <1>4, <1>5, <1>6, <1>7
<1>9. r[p] < r[prev]
  BY <1>1, <1>5, <1>6, <1>7, <1>8 DEF Ranked
<1> HIDE DEF prev
<1>10. r[prev] <= r[p] /\ r[prev] \in Nat /\ r[p] \in Nat
  BY <1>4, <1>8
<1> QED BY <1>9, <1>10

(* One step of free_list's path, and the path itself.                      *)
PathStart(m) == IF GET(m, free_listp) \in Addr THEN <<GET(m, free_listp)>> ELSE <<>>
PathStep(m, s) ==
  LET link == NEXT_P(s[Len(s)])
  IN  IF s # <<>> /\ link \in Addr /\ m[link] \in Addr THEN Append(s, m[link]) ELSE s
IsPath(m, n, f) ==
  f = [k \in 0 .. n |-> IF k = 0 THEN PathStart(m) ELSE PathStep(m, f[k - 1])]

(* However far, there is a path.                                           *)
LEMMA PathExists ==
  ASSUME NEW m
  PROVE  \A n \in Nat : \E f : IsPath(m, n, f)
<1> DEFINE Bad == {n \in Nat : ~\E f : IsPath(m, n, f)}
<1>1. SUFFICES ASSUME Bad # {} PROVE FALSE
  OBVIOUS
<1>2. PICK n \in Bad : \A k \in Bad : n <= k
  BY <1>1, Least
<1>3. n \in Nat /\ ~\E f : IsPath(m, n, f)
  OBVIOUS
<1>4. n # 0
  <2>1. IsPath(m, 0, [k \in 0 .. 0 |-> PathStart(m)])
    BY DEF IsPath
  <2> QED BY <2>1, <1>3
<1>5. n - 1 \in Nat /\ n - 1 \notin Bad
  BY <1>2, <1>3, <1>4
<1>6. PICK g : IsPath(m, n - 1, g)
  BY <1>5
<1> DEFINE f == [k \in 0 .. n |-> IF k = n THEN PathStep(m, g[n - 1]) ELSE g[k]]
<1> HIDE DEF Bad
<1>7. ASSUME NEW k \in 0 .. n
      PROVE  f[k] = IF k = 0 THEN PathStart(m) ELSE PathStep(m, f[k - 1])
  <2>1. CASE k = 0
    <3>1. 0 \in 0 .. (n - 1) /\ f[k] = g[0]
      BY <2>1, <1>3, <1>4
    <3> QED BY <3>1, <2>1, <1>6 DEF IsPath
  <2>2. CASE k # 0 /\ k # n
    <3>1. k \in 0 .. (n - 1) /\ k - 1 \in 0 .. n /\ k - 1 # n /\ f[k] = g[k] /\ f[k - 1] = g[k - 1]
      BY <2>2, <1>3
    <3>2. g[k] = PathStep(m, g[k - 1])
      BY <3>1, <2>2, <1>6 DEF IsPath
    <3> QED BY <3>1, <3>2, <2>2
  <2>3. CASE k = n
    <3>1. k - 1 \in 0 .. n /\ k - 1 # n /\ f[k] = PathStep(m, g[n - 1]) /\ f[k - 1] = g[k - 1]
      BY <2>3, <1>3, <1>4
    <3> QED BY <3>1, <2>3, <1>4
  <2> QED BY <2>1, <2>2, <2>3
<1>8. f = [k \in 0 .. n |-> f[k]]
  OBVIOUS
<1> HIDE DEF f
<1>9. IsPath(m, n, f)
  BY <1>7, <1>8 DEF IsPath
<1> QED BY <1>9, <1>3

(* free_list is the last sequence of such a path.                          *)
LEMMA FreeListPath ==
  ASSUME NEW m
  PROVE  \E f : IsPath(m, MAX_HEAP, f) /\ free_list(m) = f[MAX_HEAP]
<1> DEFINE path[n \in 0 .. MAX_HEAP] ==
        IF n = 0 THEN IF GET(m, free_listp) \in Addr THEN <<GET(m, free_listp)>> ELSE <<>>
        ELSE LET s == path[n - 1]
                 link == NEXT_P(s[Len(s)])
             IN  IF s # <<>> /\ link \in Addr /\ m[link] \in Addr
                 THEN Append(s, m[link]) ELSE s
<1>1. free_list(m) = path[MAX_HEAP]
  BY DEF free_list
<1>2. PICK f : IsPath(m, MAX_HEAP, f)
  BY PathExists, Defs
<1>3. IsPath(m, MAX_HEAP, path)
  BY <1>2 DEF IsPath, PathStart, PathStep
<1> HIDE DEF path
<1> QED BY <1>1, <1>3

(* s follows the list of F from its root, with falling ranks r.            *)
Follows(m, F, r, s) ==
  /\ s \in Seq(F)
  /\ IF s = <<>> THEN GET(m, free_listp) = NULL ELSE s[1] = GET(m, free_listp)
  /\ \A i \in 1 .. (Len(s) - 1) : GET(m, NEXT_P(s[i])) = s[i + 1]
  /\ \A i, j \in 1 .. Len(s) : i < j => r[s[j]] < r[s[i]]

AtEnd(m, s) == s # <<>> => GET(m, NEXT_P(s[Len(s)])) = NULL

(* A step of the path follows one more link, or is at the end of the list. *)
LEMMA StepFollows ==
  ASSUME NEW m, NEW F, Linked(m, F), F \subseteq Addr,
         \A p \in F : p + 1 \in Addr,
         NEW r \in [F -> Nat], Ranked(m, F, r),
         NEW s, Follows(m, F, r, s)
  PROVE  LET t == PathStep(m, s)
         IN  /\ Follows(m, F, r, t)
             /\ AtEnd(m, s) => t = s
             /\ ~AtEnd(m, s) => Len(t) = Len(s) + 1
<1>1. s \in Seq(F) /\ Len(s) \in Nat
  BY DEF Follows
<1>2. CASE s = <<>>
  BY <1>2 DEF PathStep, AtEnd
<1>3. CASE s # <<>>
  <2> DEFINE l == s[Len(s)]
  <2> DEFINE q == m[NEXT_P(l)]
  <2>1. Len(s) >= 1 /\ l \in F
    BY <1>1, <1>3
  <2>2. NEXT_P(l) \in Addr
    BY <2>1 DEF NEXT_P, WSIZE
  <2>3. q = GET(m, NEXT_P(l)) /\ (AtEnd(m, s) <=> q = NULL)
    BY <1>3 DEF GET, AtEnd
  <2>4. q # NULL => q \in F /\ r[q] < r[l]
    BY <2>1, <2>3 DEF Linked, Ranked
  <2>5. NULL \notin Addr
    BY Defs DEF Addr, NULL
  <2>6. CASE q = NULL
    BY <2>2, <2>3, <2>5, <2>6 DEF PathStep
  <2>7. CASE q # NULL
    <3> DEFINE t == Append(s, q)
    <3>1. q \in F /\ q \in Addr
      BY <2>4, <2>7
    <3>2. PathStep(m, s) = t
      BY <3>1, <2>2, <1>3 DEF PathStep
    <3> HIDE DEF l
    <3>3. /\ t \in Seq(F) /\ Len(t) = Len(s) + 1 /\ t # <<>>
          /\ \A i \in 1 .. Len(s) : t[i] = s[i]
          /\ t[Len(s) + 1] = q
      BY <3>1, <1>1
    <3> HIDE DEF t
    <3>4. t[1] = GET(m, free_listp)
      BY <3>3, <2>1, <1>3, <1>1 DEF Follows
    <3>5. ASSUME NEW i \in 1 .. (Len(t) - 1) PROVE GET(m, NEXT_P(t[i])) = t[i + 1]
      <4>1. CASE i = Len(s)
        <5>1. t[i] = l /\ t[i + 1] = q
          BY <4>1, <3>3, <2>1, <1>1 DEF l
        <5> QED BY <5>1, <2>3
      <4>2. CASE i # Len(s)
        <5>1. i \in 1 .. (Len(s) - 1) /\ i \in 1 .. Len(s) /\ i + 1 \in 1 .. Len(s)
          BY <4>2, <3>3, <1>1
        <5>2. GET(m, NEXT_P(s[i])) = s[i + 1]
          BY <5>1 DEF Follows
        <5> QED BY <5>1, <5>2, <3>3
      <4> QED BY <4>1, <4>2
    <3>6. ASSUME NEW i \in 1 .. Len(t), NEW j \in 1 .. Len(t), i < j
          PROVE  r[t[j]] < r[t[i]]
      <4>1. \A x, y \in 1 .. Len(s) : x < y => r[s[y]] < r[s[x]]
        BY DEF Follows
      <4>2. i \in 1 .. Len(s) /\ t[i] = s[i] /\ s[i] \in F /\ r[s[i]] \in Nat
        BY <3>3, <3>6, <1>1
      <4>3. CASE j \in 1 .. Len(s)
        BY <4>1, <4>2, <4>3, <3>3, <3>6
      <4>4. CASE j \notin 1 .. Len(s)
        <5>1. j = Len(s) + 1 /\ t[j] = q
          BY <4>4, <3>3, <1>1
        <5>2. r[q] < r[l] /\ r[q] \in Nat /\ r[l] \in Nat
          BY <2>1, <2>4, <2>7
        <5>3. i = Len(s) \/ (i < Len(s) /\ Len(s) \in 1 .. Len(s))
          BY <4>2, <1>1
        <5>4. r[l] <= r[s[i]]
          BY <5>2, <5>3, <4>1, <4>2 DEF l
        <5> QED BY <5>1, <5>2, <5>4, <4>2
      <4> QED BY <4>3, <4>4
    <3>7. Follows(m, F, r, t)
      BY <3>3, <3>4, <3>5, <3>6 DEF Follows
    <3> QED BY <3>2, <3>3, <3>7, <2>3, <2>7
  <2> QED BY <2>6, <2>7
<1> QED BY <1>2, <1>3

(* Along a path the sequences grow by one block until the list ends.       *)
LEMMA PathFollows ==
  ASSUME NEW m, NEW F, Linked(m, F), F \subseteq Addr,
         \A p \in F : p + 1 \in Addr,
         NEW r \in [F -> Nat], Ranked(m, F, r),
         NEW n \in Nat, NEW f, IsPath(m, n, f)
  PROVE  \A k \in 0 .. n : /\ Follows(m, F, r, f[k])
                           /\ AtEnd(m, f[k]) \/ Len(f[k]) = k + 1
<1> DEFINE Is(k) == Follows(m, F, r, f[k]) /\ (AtEnd(m, f[k]) \/ Len(f[k]) = k + 1)
<1> DEFINE Bad == {k \in 0 .. n : ~Is(k)}
<1>1. SUFFICES ASSUME Bad # {} PROVE FALSE
  OBVIOUS
<1>2. Bad \subseteq Nat
  OBVIOUS
<1>3. PICK k \in Bad : \A j \in Bad : k <= j
  <2> HIDE DEF Bad
  <2> QED BY <1>1, <1>2, Least
<1>4. k \in 0 .. n /\ ~Is(k)
  OBVIOUS
<1>5. k # 0
  <2>1. SUFFICES ASSUME k = 0 PROVE Is(0)
    BY <1>4
  <2>2. f[0] = PathStart(m)
    BY DEF IsPath
  <2>3. GET(m, free_listp) \in F \union {NULL} /\ NULL \notin Addr
    BY Defs DEF Linked, Addr, NULL
  <2>4. CASE GET(m, free_listp) = NULL
    <3>1. f[0] = <<>>
      BY <2>2, <2>3, <2>4 DEF PathStart
    <3> QED BY <3>1, <2>4 DEF Follows, AtEnd
  <2>5. CASE GET(m, free_listp) \in F
    <3>1. f[0] = <<GET(m, free_listp)>>
      BY <2>2, <2>5 DEF PathStart
    <3>2. Follows(m, F, r, f[0]) /\ Len(f[0]) = 1
      BY <3>1, <2>5 DEF Follows
    <3> QED BY <3>2
  <2> QED BY <2>3, <2>4, <2>5
<1>6. k - 1 \in 0 .. n /\ k - 1 \notin Bad /\ k - 1 \in Nat
  <2>1. k - 1 \in 0 .. n /\ k - 1 \in Nat /\ ~(k <= k - 1)
    BY <1>4, <1>5
  <2> QED BY <2>1, <1>3
<1>7. Is(k - 1)
  BY <1>6
<1>8. f[k] = PathStep(m, f[k - 1])
  BY <1>4, <1>5 DEF IsPath
<1> DEFINE s == f[k - 1]
<1>9. /\ Follows(m, F, r, f[k])
      /\ AtEnd(m, s) => f[k] = s
      /\ ~AtEnd(m, s) => Len(f[k]) = Len(s) + 1
  BY <1>7, <1>8, StepFollows
<1>10. AtEnd(m, f[k]) \/ Len(f[k]) = k + 1
  BY <1>6, <1>7, <1>9
<1> QED BY <1>4, <1>9, <1>10

(* The path from the root reaches the end of the list, has every free      *)
(* block once, and its back links mirror the forward ones.                 *)
LEMMA FreeListWhole ==
  ASSUME NEW m, NEW F, ListOK(m, F), F \subseteq Addr, \A p \in F : p + 1 \in Addr
  PROVE  LET fl == free_list(m)
         IN  /\ fl \in Seq(F) /\ {fl[k] : k \in 1 .. Len(fl)} = F
             /\ Len(fl) = Cardinality(F)
             /\ \A k \in 1 .. Len(fl) :
                  /\ GET(m, PREV_P(fl[k])) = IF k = 1 THEN NULL ELSE fl[k - 1]
                  /\ GET(m, NEXT_P(fl[k])) = IF k = Len(fl) THEN NULL ELSE fl[k + 1]
<1> DEFINE s == free_list(m)
<1>1. PICK r \in [F -> Nat] : Ranked(m, F, r)
  BY DEF ListOK
<1>2. PICK f : IsPath(m, MAX_HEAP, f) /\ s = f[MAX_HEAP]
  BY FreeListPath
<1>3. MAX_HEAP \in Nat /\ MAX_HEAP \in 0 .. MAX_HEAP
  BY Defs
<1> HIDE DEF s
<1>4. Follows(m, F, r, s) /\ (AtEnd(m, s) \/ Len(s) = MAX_HEAP + 1)
  BY <1>1, <1>2, <1>3, PathFollows DEF ListOK
<1>5. s \in Seq(F) /\ Len(s) \in Nat
  BY <1>4 DEF Follows
<1>6. s \in Injection(1 .. Len(s), F)
  <2>1. s \in [1 .. Len(s) -> F]
    BY <1>5
  <2>2. ASSUME NEW i \in 1 .. Len(s), NEW j \in 1 .. Len(s), s[i] = s[j] PROVE i = j
    <3>1. \A x, y \in 1 .. Len(s) : x < y => r[s[y]] < r[s[x]]
      BY <1>4 DEF Follows
    <3>2. r[s[i]] \in Nat
      BY <2>1
    <3> QED BY <2>2, <3>1, <3>2
  <2> QED BY <2>1, <2>2 DEF Injection, IsInjective
<1>7. /\ IsFiniteSet(F) /\ Cardinality(F) \in Nat /\ Cardinality(F) <= MAX_HEAP
  <2>1. HeapBase \in Int /\ HeapBase + MAX_HEAP - 1 \in Int
    BY Defs
  <2>2. IsFiniteSet(Addr) /\ Cardinality(Addr) = MAX_HEAP
    BY <2>1, Defs, FS_Interval DEF Addr
  <2> QED BY <2>2, FS_Subset, FS_CardinalityType
<1>8. Len(s) <= Cardinality(F)
  <2>1. Cardinality(1 .. Len(s)) = Len(s)
    BY <1>5, FS_Interval
  <2> QED BY <2>1, <1>6, <1>7, FS_Injection
<1>9. AtEnd(m, s)
  BY <1>3, <1>4, <1>5, <1>7, <1>8
<1> DEFINE P == {s[k] : k \in 1 .. Len(s)}
<1>10. P = F
  <2>1. P \subseteq F
    BY <1>5
  <2>2. GET(m, free_listp) \in P \union {NULL}
    <3>1. CASE s = <<>>
      BY <3>1, <1>4 DEF Follows
    <3>2. CASE s # <<>>
      <4>1. s[1] = GET(m, free_listp) /\ 1 \in 1 .. Len(s)
        BY <3>2, <1>4, <1>5 DEF Follows
      <4> QED BY <4>1
    <3> QED BY <3>1, <3>2
  <2>3. ASSUME NEW p \in P PROVE GET(m, NEXT_P(p)) \in P \union {NULL}
    <3>1. PICK k \in 1 .. Len(s) : p = s[k]
      OBVIOUS
    <3>2. CASE k = Len(s)
      <4>1. s # <<>>
        BY <1>5
      <4> QED BY <3>1, <3>2, <4>1, <1>9 DEF AtEnd
    <3>3. CASE k # Len(s)
      <4>1. k \in 1 .. (Len(s) - 1) /\ k + 1 \in 1 .. Len(s)
        BY <3>3, <1>5
      <4>2. GET(m, NEXT_P(s[k])) = s[k + 1]
        BY <4>1, <1>4 DEF Follows
      <4> QED BY <3>1, <4>1, <4>2
    <3> QED BY <3>2, <3>3
  <2> HIDE DEF P
  <2> QED BY <2>1, <2>2, <2>3, ListComplete
<1>11. Len(s) = Cardinality(F)
  <2>1. s \in Surjection(1 .. Len(s), F)
    <3>1. \A q \in F : \E k \in 1 .. Len(s) : s[k] = q
      BY <1>10
    <3>2. s \in [1 .. Len(s) -> F]
      BY <1>5
    <3> QED BY <3>1, <3>2 DEF Surjection
  <2>2. Cardinality(1 .. Len(s)) = Len(s) /\ IsFiniteSet(1 .. Len(s))
    <3>1. 1 \in Int /\ Len(s) \in Int /\ (1 > Len(s) => Len(s) = 0) /\ Len(s) - 1 + 1 = Len(s)
      BY <1>5
    <3> QED BY <3>1, FS_Interval
  <2>3. Cardinality(F) <= Len(s)
    BY <2>1, <2>2, FS_Surjection
  <2> QED BY <2>3, <1>5, <1>7, <1>8
<1>12. ASSUME NEW k \in 1 .. Len(s)
       PROVE  GET(m, NEXT_P(s[k])) = IF k = Len(s) THEN NULL ELSE s[k + 1]
  <2>1. CASE k = Len(s)
    <3>1. s # <<>>
      BY <1>5
    <3> QED BY <2>1, <3>1, <1>9 DEF AtEnd
  <2>2. CASE k # Len(s)
    <3>1. k \in 1 .. (Len(s) - 1)
      BY <2>2, <1>5
    <3> QED BY <2>2, <3>1, <1>4 DEF Follows
  <2> QED BY <2>1, <2>2
<1>13. ASSUME NEW k \in 1 .. Len(s)
       PROVE  GET(m, PREV_P(s[k])) = IF k = 1 THEN NULL ELSE s[k - 1]
  <2>1. CASE k = 1
    <3>1. s # <<>> /\ s[k] \in F
      BY <1>5
    <3>2. GET(m, free_listp) = s[k]
      BY <2>1, <3>1, <1>4 DEF Follows
    <3> QED BY <2>1, <3>1, <3>2 DEF ListOK, Linked
  <2>2. CASE k # 1
    <3>1. k - 1 \in 1 .. Len(s) /\ k - 1 # Len(s) /\ s[k - 1] \in F /\ s[k] \in F
      BY <2>2, <1>5
    <3>2. GET(m, NEXT_P(s[k - 1])) = s[k]
      BY <3>1, <1>5, <1>12
    <3>3. s[k] # NULL
      BY <3>1, Defs DEF Addr, NULL
    <3> QED BY <2>2, <3>1, <3>2, <3>3 DEF ListOK, Linked
  <2> QED BY <2>1, <2>2
<1> QED BY <1>5, <1>10, <1>11, <1>12, <1>13 DEF s

----------------------------------------------------------------------------
(* Heaps that are alike.                                                   *)

(* Two memories that agree on the words of X.                              *)
Agree(m, n, X) ==
  /\ m = [a \in Addr |-> m[a]] /\ n = [a \in Addr |-> n[a]]
  /\ X \subseteq Addr
  /\ \A a \in X : m[a] = n[a]

(* What the routines read of a heap: root, tags and links, but no payload. *)
Known(top, B, S, A) ==
  {free_listp, free_listp + 1, top - 1}
    \union {p - 1 : p \in B} \union {p + S[p] - 2 : p \in B}
    \union FreeOf(B, A) \union {p + 1 : p \in FreeOf(B, A)}

(* Two memories that are the same heap but for what payloads hold.         *)
Alike(m, n, top) ==
  \E B, S, A : /\ Pieces(m, top, B, S, A) /\ Pieces(n, top, B, S, A)
               /\ Agree(m, n, Known(top, B, S, A))

(* A PUT of the same word keeps an agreement, and adds to it.              *)
LEMMA AgreePut ==
  ASSUME NEW m, NEW n, NEW X, Agree(m, n, X), NEW p, NEW v
  PROVE  /\ Agree(PUT(m, p, v), PUT(n, p, v), X)
         /\ p \in Addr => Agree(PUT(m, p, v), PUT(n, p, v), X \union {p})
BY DEF Agree, PUT

(* LIFO_INSERT and REMOVE_BLOCK write the same to both.                    *)
LEMMA AgreeInsert ==
  ASSUME NEW m, NEW n, NEW X, Agree(m, n, X),
         free_listp \in X, free_listp + 1 \in X, NEW b
  PROVE  Agree(LIFO_INSERT(m, b), LIFO_INSERT(n, b), X)
<1> DEFINE root == GET_PT(m, free_listp)
<1>1. GET_PT(n, free_listp) = root
  BY DEF Agree, GET_PT, WSIZE
<1> HIDE DEF root
<1> DEFINE m1 == IF root # NULL THEN PUT(m, PREV_P(root), b) ELSE m
<1> DEFINE n1 == IF root # NULL THEN PUT(n, PREV_P(root), b) ELSE n
<1>2. Agree(m1, n1, X)
  BY AgreePut
<1> HIDE DEF m1, n1
<1>3. Agree(PUT(m1, NEXT_P(b), root), PUT(n1, NEXT_P(b), root), X)
  BY <1>2, AgreePut
<1>4. /\ LIFO_INSERT(m, b) = PUT(PUT(m1, NEXT_P(b), root), free_listp, b)
      /\ LIFO_INSERT(n, b) = PUT(PUT(n1, NEXT_P(b), root), free_listp, b)
  BY <1>1 DEF LIFO_INSERT, m1, n1, root
<1> QED BY <1>3, <1>4, AgreePut

(* The same of REMOVE_BLOCK.                                               *)
LEMMA AgreeRemove ==
  ASSUME NEW m, NEW n, NEW X, Agree(m, n, X), NEW b, b \in X, b + 1 \in X
  PROVE  Agree(REMOVE_BLOCK(m, b), REMOVE_BLOCK(n, b), X)
<1> DEFINE next == GET(m, NEXT_P(b))
<1> DEFINE prev == GET(m, PREV_P(b))
<1>1. GET(n, NEXT_P(b)) = next /\ GET(n, PREV_P(b)) = prev
  BY DEF Agree, GET, NEXT_P, PREV_P, WSIZE
<1> HIDE DEF next, prev
<1> DEFINE q == IF prev = NULL THEN free_listp ELSE NEXT_P(prev)
<1> DEFINE m1 == IF next # NULL THEN PUT(m, PREV_P(next), prev) ELSE m
<1> DEFINE n1 == IF next # NULL THEN PUT(n, PREV_P(next), prev) ELSE n
<1>2. Agree(m1, n1, X)
  BY AgreePut
<1> HIDE DEF m1, n1
<1>3. Agree(PUT(m1, q, next), PUT(n1, q, next), X)
  BY <1>2, AgreePut
<1>4. Agree(PUT(PUT(m1, q, next), NEXT_P(b), NULL), PUT(PUT(n1, q, next), NEXT_P(b), NULL), X)
  BY <1>3, AgreePut
<1>5. /\ REMOVE_BLOCK(m, b) = PUT(PUT(PUT(m1, q, next), NEXT_P(b), NULL), PREV_P(b), NULL)
      /\ REMOVE_BLOCK(n, b) = PUT(PUT(PUT(n1, q, next), NEXT_P(b), NULL), PREV_P(b), NULL)
  BY <1>1 DEF REMOVE_BLOCK, m1, n1, next, prev
<1> QED BY <1>4, <1>5, AgreePut

(* The words read of a heap are words of it.                               *)
LEMMA KnownAddr ==
  ASSUME NEW top, NEW B, NEW S, NEW A, Layout(top, B, S), A \in [B -> {0, 1}],
         A[heap_listp] = 1
  PROVE  /\ Known(top, B, S, A) \subseteq Addr
         /\ free_listp \in Known(top, B, S, A) /\ free_listp + 1 \in Known(top, B, S, A)
         /\ top - 1 \in Known(top, B, S, A)
         /\ \A p \in B : /\ p - 1 \in Known(top, B, S, A)
                         /\ p + S[p] - 2 \in Known(top, B, S, A)
                         /\ A[p] = 0 => p \in Known(top, B, S, A) /\ p + 1 \in Known(top, B, S, A)
<1>1. top - 1 \in Addr /\ \A p \in B : p - 1 \in Addr /\ p + S[p] - 2 \in Addr /\ p \in Addr
  BY LayoutFacts
<1>2. free_listp \in Addr /\ free_listp + 1 \in Addr
  BY Defs DEF Addr
<1>3. ASSUME NEW p \in FreeOf(B, A) PROVE p + 1 \in Addr
  <2>1. p \in B /\ p # heap_listp
    BY DEF FreeOf
  <2>2. p \in Int /\ S[p] \in Int /\ S[p] >= 4 /\ p >= heap_listp
    BY <2>1 DEF Layout
  <2>3. p + S[p] - 2 \in Addr
    BY <1>1, <2>1
  <2> QED BY <2>2, <2>3, Defs DEF Addr
<1> QED BY <1>1, <1>2, <1>3 DEF Known, FreeOf

(* coalesce reads known words only.                                        *)
LEMMA AgreeCoalesce ==
  ASSUME NEW m, NEW n, NEW top, NEW B, NEW S, NEW A, NEW b,
         Freed(m, top, B, S, A, b), Freed(n, top, B, S, A, b),
         NEW X, Known(top, B, S, A) \subseteq X, Agree(m, n, X)
  PROVE  /\ coalesce(m, b).bp = coalesce(n, b).bp
         /\ Agree(coalesce(m, b).mem, coalesce(n, b).mem, X)
<1> DEFINE c == b + S[b]
<1>1. /\ Layout(top, B, S) /\ Tagged(m, top, B, S, A)
      /\ b \in B /\ b # heap_listp /\ c \in B \union {top}
  <2>1. FreedShape(m, top, B, S, A, b)
    BY FreedFacts
  <2> QED BY <2>1 DEF FreedShape
<1>2. PICK s \in B : s + S[s] = b
  BY <1>1, Before
<1>3. A \in [B -> {0, 1}] /\ A[heap_listp] = 1
  BY <1>1 DEF Tagged
<1>4. /\ free_listp \in X /\ free_listp + 1 \in X
      /\ \A p \in B : A[p] = 0 => p \in X /\ p + 1 \in X
  BY <1>1, <1>3, KnownAddr
<1>5. /\ coalesce(m, b) = CoalesceWrites(m, top, S, A, b, s)
      /\ coalesce(n, b) = CoalesceWrites(n, top, S, A, b, s)
  BY <1>2, CoalesceFreed
<1> DEFINE next_alloc == c # top => A[c] = 1
<1>6. ~next_alloc => c \in X /\ c + 1 \in X
  BY <1>1, <1>3, <1>4
<1>7. A[s] # 1 => s \in X /\ s + 1 \in X
  BY <1>2, <1>3, <1>4
<1>8. CASE A[s] = 1 /\ next_alloc
  <2>1. Agree(LIFO_INSERT(m, b), LIFO_INSERT(n, b), X)
    BY <1>4, AgreeInsert
  <2> QED BY <2>1, <1>5, <1>8 DEF CoalesceWrites
<1> DEFINE e == c + S[c]
<1>9. CASE A[s] = 1 /\ ~next_alloc
  <2> DEFINE m1 == REMOVE_BLOCK(m, c)
  <2> DEFINE n1 == REMOVE_BLOCK(n, c)
  <2>1. Agree(m1, n1, X)
    BY <1>6, <1>9, AgreeRemove
  <2> HIDE DEF m1, n1, c, e
  <2>2. Agree(PUT(m1, b - 1, e - b), PUT(n1, b - 1, e - b), X)
    BY <2>1, AgreePut
  <2>3. Agree(PUT(PUT(m1, b - 1, e - b), e - 2, e - b), PUT(PUT(n1, b - 1, e - b), e - 2, e - b), X)
    BY <2>2, AgreePut
  <2>4. Agree(LIFO_INSERT(PUT(PUT(m1, b - 1, e - b), e - 2, e - b), b),
              LIFO_INSERT(PUT(PUT(n1, b - 1, e - b), e - 2, e - b), b), X)
    BY <2>3, <1>4, AgreeInsert
  <2>5. /\ coalesce(m, b) = NextMerged(m, S, b) /\ coalesce(n, b) = NextMerged(n, S, b)
    BY <1>5, <1>9 DEF CoalesceWrites, c
  <2> QED BY <2>4, <2>5 DEF NextMerged, m1, n1, c, e
<1>10. CASE A[s] # 1 /\ next_alloc
  <2> DEFINE m1 == REMOVE_BLOCK(m, s)
  <2> DEFINE n1 == REMOVE_BLOCK(n, s)
  <2>1. Agree(m1, n1, X)
    BY <1>7, <1>10, AgreeRemove
  <2> HIDE DEF m1, n1, c, e
  <2>2. Agree(PUT(m1, c - 2, c - s), PUT(n1, c - 2, c - s), X)
    BY <2>1, AgreePut
  <2>3. Agree(PUT(PUT(m1, c - 2, c - s), s - 1, c - s), PUT(PUT(n1, c - 2, c - s), s - 1, c - s), X)
    BY <2>2, AgreePut
  <2>4. Agree(LIFO_INSERT(PUT(PUT(m1, c - 2, c - s), s - 1, c - s), s),
              LIFO_INSERT(PUT(PUT(n1, c - 2, c - s), s - 1, c - s), s), X)
    BY <2>3, <1>4, AgreeInsert
  <2>5. /\ coalesce(m, b) = PrevMerged(m, S, b, s) /\ coalesce(n, b) = PrevMerged(n, S, b, s)
    BY <1>5, <1>10 DEF CoalesceWrites, c
  <2> QED BY <2>4, <2>5 DEF PrevMerged, m1, n1, c
<1>11. CASE A[s] # 1 /\ ~next_alloc
  <2> DEFINE m1 == REMOVE_BLOCK(REMOVE_BLOCK(m, c), s)
  <2> DEFINE n1 == REMOVE_BLOCK(REMOVE_BLOCK(n, c), s)
  <2>0. Agree(REMOVE_BLOCK(m, c), REMOVE_BLOCK(n, c), X)
    BY <1>6, <1>11, AgreeRemove
  <2>1. Agree(m1, n1, X)
    <3> HIDE DEF c
    <3> QED BY <2>0, <1>7, <1>11, AgreeRemove
  <2> HIDE DEF m1, n1, c, e
  <2>2. Agree(PUT(m1, s - 1, e - s), PUT(n1, s - 1, e - s), X)
    BY <2>1, AgreePut
  <2>3. Agree(PUT(PUT(m1, s - 1, e - s), e - 2, e - s), PUT(PUT(n1, s - 1, e - s), e - 2, e - s), X)
    BY <2>2, AgreePut
  <2>4. Agree(LIFO_INSERT(PUT(PUT(m1, s - 1, e - s), e - 2, e - s), s),
              LIFO_INSERT(PUT(PUT(n1, s - 1, e - s), e - 2, e - s), s), X)
    BY <2>3, <1>4, AgreeInsert
  <2>5. /\ coalesce(m, b) = BothMerged(m, S, b, s) /\ coalesce(n, b) = BothMerged(n, S, b, s)
    BY <1>5, <1>11 DEF CoalesceWrites, c
  <2> QED BY <2>4, <2>5 DEF BothMerged, m1, n1, c, e
<1> QED BY <1>8, <1>9, <1>10, <1>11

(* The pieces of a heap are those that the walk over its tags finds.       *)
LEMMA PiecesUnique ==
  ASSUME NEW m, NEW top, NEW B, NEW S, NEW A, Pieces(m, top, B, S, A),
         NEW C, NEW T, NEW D, Pieces(m, top, C, T, D)
  PROVE  B = C /\ S = T /\ A = D
<1>1. /\ Layout(top, B, S) /\ Tagged(m, top, B, S, A)
      /\ Layout(top, C, T) /\ Tagged(m, top, C, T, D)
  BY PiecesFacts
<1>2. B = C
  BY <1>1, WalkFindsBlocks
<1>3. S = [p \in B |-> S[p]] /\ T = [p \in C |-> T[p]]
  BY <1>1 DEF Layout
<1>4. A = [p \in B |-> A[p]] /\ D = [p \in C |-> D[p]]
  BY <1>1 DEF Tagged
<1>5. \A p \in B : S[p] = T[p] /\ A[p] = D[p]
  <2>1. \A p \in B : GET_SIZE(m, HDRP(p)) = S[p] /\ GET_ALLOC(m, HDRP(p)) = A[p]
    BY <1>1, Reads
  <2>2. \A p \in C : GET_SIZE(m, HDRP(p)) = T[p] /\ GET_ALLOC(m, HDRP(p)) = D[p]
    BY <1>1, Reads
  <2> QED BY <2>1, <2>2, <1>2
<1> QED BY <1>2, <1>3, <1>4, <1>5

(* A memory that agrees with a heap is a heap in the same pieces.          *)
LEMMA PiecesAgree ==
  ASSUME NEW m, NEW top, NEW B, NEW S, NEW A, Pieces(m, top, B, S, A),
         NEW n \in Memory, Agree(m, n, Known(top, B, S, A))
  PROVE  Pieces(n, top, B, S, A) /\ Alike(m, n, top)
<1>1. /\ Layout(top, B, S) /\ Tagged(m, top, B, S, A)
      /\ ListOK(m, FreeOf(B, A)) /\ Sparse(S, FreeOf(B, A))
  BY PiecesFacts
<1>2. \A a \in Known(top, B, S, A) : n[a] = m[a]
  BY DEF Agree
<1>3. A \in [B -> {0, 1}] /\ A[heap_listp] = 1
  BY <1>1 DEF Tagged
<1>4. /\ n[free_listp] = m[free_listp] /\ n[free_listp + 1] = m[free_listp + 1]
      /\ n[top - 1] = m[top - 1]
      /\ \A p \in B : n[p - 1] = m[p - 1] /\ n[p + S[p] - 2] = m[p + S[p] - 2]
      /\ \A p \in FreeOf(B, A) : n[p] = m[p] /\ n[p + 1] = m[p + 1]
  BY <1>1, <1>2, <1>3, KnownAddr DEF FreeOf
<1>5. Tagged(n, top, B, S, A)
  BY <1>1, <1>4 DEF Tagged
<1> DEFINE F == FreeOf(B, A)
<1>6. ListOK(n, F)
  <2>1. PICK rank \in [F -> Nat] : Ranked(m, F, rank)
    BY <1>1 DEF ListOK
  <2>2. Linked(m, F)
    BY <1>1 DEF ListOK
  <2> HIDE DEF F
  <2>3. /\ n[free_listp] = m[free_listp] /\ n[free_listp + 1] = m[free_listp + 1]
        /\ \A p \in F : n[p] = m[p] /\ n[p + 1] = m[p + 1]
    BY <1>4 DEF F
  <2>4. Linked(n, F)
    BY <2>2, <2>3 DEF Linked, GET, NEXT_P, PREV_P, WSIZE
  <2>5. Ranked(n, F, rank)
    BY <2>1, <2>3 DEF Ranked, GET, NEXT_P, WSIZE
  <2> QED BY <2>1, <2>4, <2>5 DEF ListOK
<1>7. Pieces(n, top, B, S, A)
  BY <1>1, <1>5, <1>6 DEF Pieces, Heap
<1> QED BY <1>7 DEF Alike

(* What is known of a heap after coalesce was known before it.             *)
LEMMA KnownShrinks ==
  ASSUME NEW m, NEW top, NEW B, NEW S, NEW A, NEW b, Freed(m, top, B, S, A, b),
         NEW o, NEW C, NEW T, NEW D, Pieces(o, top, C, T, D), Keeps(m, B, o, C),
         \A p \in C : D[p] = 1 => p \in B /\ A[p] = 1
  PROVE  Known(top, C, T, D) \subseteq Known(top, B, S, A)
<1> DEFINE K == Known(top, B, S, A)
<1>1. Layout(top, B, S) /\ Tagged(m, top, B, S, A)
  <2>1. FreedShape(m, top, B, S, A, b)
    BY FreedFacts
  <2> QED BY <2>1 DEF FreedShape
<1>2. /\ Layout(top, C, T) /\ Tagged(o, top, C, T, D) /\ Sparse(T, FreeOf(C, D))
  BY PiecesFacts
<1>3. /\ A \in [B -> {0, 1}] /\ A[heap_listp] = 1 /\ D \in [C -> {0, 1}] /\ D[heap_listp] = 1
      /\ heap_listp \in C
  BY <1>1, <1>2 DEF Tagged, Layout
<1>4. /\ free_listp \in K /\ free_listp + 1 \in K /\ top - 1 \in K
      /\ \A p \in B : /\ p - 1 \in K /\ p + S[p] - 2 \in K
                      /\ A[p] = 0 => p \in K /\ p + 1 \in K
  BY <1>1, <1>3, KnownAddr
<1> HIDE DEF K
<1>5. \A p \in C : D[p] = 1 => p \in B /\ A[p] = 1 /\ T[p] = S[p]
  <2> SUFFICES ASSUME NEW p \in C, D[p] = 1 PROVE p \in B /\ A[p] = 1 /\ T[p] = S[p]
    OBVIOUS
  <2>1. p \in B /\ A[p] = 1
    OBVIOUS
  <2>2. Allocated(m, p) /\ Block_size(m, p) = S[p]
    BY <2>1, <1>1, Reads
  <2>3. Block_size(o, p) = S[p]
    BY <2>1, <2>2 DEF Keeps
  <2>4. Block_size(o, p) = T[p]
    BY <1>2, Reads
  <2> QED BY <2>1, <2>3, <2>4
<1>6. \A p \in B : A[p] = 1 => p \in C /\ D[p] = 1
  <2> SUFFICES ASSUME NEW p \in B, A[p] = 1 PROVE p \in C /\ D[p] = 1
    OBVIOUS
  <2>1. Allocated(m, p)
    BY <1>1, Reads
  <2>2. p \in C /\ Allocated(o, p)
    BY <2>1 DEF Keeps
  <2> QED BY <2>2, <1>2, Reads
\* What precedes an allocated block of C, or the top, is the footer of a
\* block of B.
<1>7. \A e \in C \union {top} :
        (e = top \/ D[e] = 1) /\ e # heap_listp => e - 2 \in K
  <2> SUFFICES ASSUME NEW e \in C \union {top}, e = top \/ D[e] = 1, e # heap_listp
               PROVE  e - 2 \in K
    OBVIOUS
  <2>1. e \in B \union {top}
    BY <1>5
  <2>2. PICK x \in B : x + S[x] = e
    BY <2>1, <1>1, Before
  <2>3. x + S[x] - 2 \in K
    BY <1>4
  <2>4. x \in Int /\ S[x] \in Int
    BY <1>1 DEF Layout
  <2>5. e - 2 = x + S[x] - 2
    BY <2>2, <2>4
  <2> QED BY <2>3, <2>5, Zenon
<1>8. ASSUME NEW p \in C
      PROVE  /\ p - 1 \in K /\ p + T[p] - 2 \in K
             /\ D[p] = 0 => p \in K /\ p + 1 \in K
  <2>1. CASE D[p] = 1
    BY <2>1, <1>4, <1>5
  <2>2. CASE D[p] = 0
    <3>1. p # heap_listp /\ p \in FreeOf(C, D)
      BY <2>2, <1>3 DEF FreeOf
    <3>2. p # top /\ p \in Int
      BY <1>2, LayoutFacts
    <3>3. PICK q \in C : q + T[q] = p
      BY <3>1, <1>2, Before
    <3>4. D[q] = 1
      BY <3>1, <3>3, <1>2, <1>3 DEF Sparse, FreeOf
    <3>5. q \in B /\ q + S[q] = p
      BY <3>3, <3>4, <1>5
    <3>6. p \in B
      BY <3>2, <3>5, <1>1 DEF Layout
    <3>7. A[p] = 0
      BY <3>6, <2>2, <1>3, <1>6
    <3> DEFINE e == p + T[p]
    <3>8. e \in C \union {top} /\ e # heap_listp
      <4>1. e \in C \union {top} /\ p >= heap_listp /\ T[p] >= 2 /\ T[p] \in Int
        BY <1>2 DEF Layout
      <4> QED BY <4>1, <3>2, Defs
    <3>9. e = top \/ D[e] = 1
      <4>1. e \in C => e \notin FreeOf(C, D)
        BY <3>1, <1>2 DEF Sparse
      <4>2. e \in C => D[e] \in {0, 1}
        BY <1>3
      <4> HIDE DEF e
      <4> QED BY <3>8, <4>1, <4>2 DEF FreeOf
    <3>10. e - 2 \in K
      <4> HIDE DEF e
      <4> QED BY <3>8, <3>9, <1>7
    <3>11. p - 1 \in K /\ p \in K /\ p + 1 \in K
      BY <3>6, <3>7, <1>4
    <3>12. p + T[p] - 2 \in K
      <4>1. T[p] \in Int
        BY <1>2 DEF Layout
      <4> QED BY <3>2, <3>10, <4>1
    <3> QED BY <3>11, <3>12, Zenon
  <2> QED BY <2>1, <2>2, <1>3
<1> QED BY <1>4, <1>8 DEF Known, FreeOf, K

(* coalesce takes heaps that are alike to heaps that are alike.            *)
LEMMA CoalesceAlike ==
  ASSUME NEW m, NEW n, NEW top, NEW B, NEW S, NEW A, NEW b,
         Freed(m, top, B, S, A, b), Freed(n, top, B, S, A, b),
         Agree(m, n, Known(top, B, S, A))
  PROVE  /\ coalesce(m, b).bp = coalesce(n, b).bp
         /\ Alike(coalesce(m, b).mem, coalesce(n, b).mem, top)
<1> DEFINE o == coalesce(m, b).mem
<1> DEFINE r == coalesce(n, b).mem
<1> DEFINE K == Known(top, B, S, A)
<1>1. coalesce(m, b).bp = coalesce(n, b).bp /\ Agree(o, r, K)
  BY AgreeCoalesce
<1>2. Coalesces(m, top, B, S, A, b, coalesce(m, b)) /\ Coalesces(n, top, B, S, A, b, coalesce(n, b))
  BY CoalesceFreed
<1>3. PICK C, T, D : /\ Heap(o, top, C, T, D, FreeOf(C, D)) /\ Sparse(T, FreeOf(C, D))
                     /\ Keeps(m, B, o, C)
                     /\ \A p \in C : D[p] = 1 => p \in B /\ A[p] = 1
  BY <1>2 DEF Coalesces
<1>4. r \in Memory
  BY <1>2 DEF Coalesces, Heap
<1> HIDE DEF o, r
<1>5. Pieces(o, top, C, T, D)
  BY <1>3 DEF Pieces
<1>6. Known(top, C, T, D) \subseteq K
  BY <1>3, <1>5, KnownShrinks
<1>7. Agree(o, r, Known(top, C, T, D))
  BY <1>1, <1>6 DEF Agree
<1>8. Alike(o, r, top)
  BY <1>4, <1>5, <1>7, PiecesAgree
<1> QED BY <1>1, <1>8 DEF o, r

(* Likeness, for whatever pieces one knows of the one heap.                *)
LEMMA AlikePieces ==
  ASSUME NEW m, NEW n, NEW top, Alike(m, n, top),
         NEW B, NEW S, NEW A, Pieces(m, top, B, S, A)
  PROVE  Pieces(n, top, B, S, A) /\ Agree(m, n, Known(top, B, S, A))
<1>1. PICK C, T, D : /\ Pieces(m, top, C, T, D) /\ Pieces(n, top, C, T, D)
                     /\ Agree(m, n, Known(top, C, T, D))
  BY DEF Alike
<1>2. B = C /\ S = T /\ A = D
  BY <1>1, PiecesUnique
<1> QED BY <1>1, <1>2

(* Likeness goes both ways.                                                *)
LEMMA AlikeSymmetric ==
  ASSUME NEW m, NEW n, NEW top, Alike(m, n, top)
  PROVE  Alike(n, m, top)
BY DEF Alike, Agree

(* Likeness carries on.                                                    *)
LEMMA AlikeTransitive ==
  ASSUME NEW m, NEW n, NEW o, NEW top, Alike(m, n, top), Alike(n, o, top)
  PROVE  Alike(m, o, top)
<1>1. PICK B, S, A : /\ Pieces(m, top, B, S, A) /\ Pieces(n, top, B, S, A)
                     /\ Agree(m, n, Known(top, B, S, A))
  BY DEF Alike
<1>2. Pieces(o, top, B, S, A) /\ Agree(n, o, Known(top, B, S, A))
  BY <1>1, AlikePieces
<1>3. Agree(m, o, Known(top, B, S, A))
  BY <1>1, <1>2 DEF Agree
<1> QED BY <1>1, <1>2, <1>3 DEF Alike

(* What a call sees of two heaps that are alike is the same.               *)
LEMMA AlikeSees ==
  ASSUME NEW m, NEW n, NEW top, Alike(m, n, top), NEW B, Good(m, top, B)
  PROVE  /\ Good(n, top, B) /\ FreeBlocks(n, B) = FreeBlocks(m, B)
         /\ GET(n, free_listp) = GET(m, free_listp)
         /\ \A p \in B : /\ Block_size(n, p) = Block_size(m, p)
                         /\ Allocated(n, p) <=> Allocated(m, p)
         /\ \A p \in FreeBlocks(m, B) : GET(n, NEXT_P(p)) = GET(m, NEXT_P(p))
<1>1. PICK S, A : Pieces(m, top, B, S, A) /\ FreeBlocks(m, B) = FreeOf(B, A)
  BY GoodElim
<1>2. Pieces(n, top, B, S, A) /\ Agree(m, n, Known(top, B, S, A))
  BY <1>1, AlikePieces
<1>3. Good(n, top, B) /\ FreeBlocks(n, B) = FreeOf(B, A)
  BY <1>2, GoodIntro
<1>4. \A p \in B : /\ Block_size(n, p) = S[p] /\ (Allocated(n, p) <=> A[p] = 1)
                   /\ Block_size(m, p) = S[p] /\ (Allocated(m, p) <=> A[p] = 1)
  BY <1>1, <1>2, GoodIntro
<1>5. Layout(top, B, S) /\ A \in [B -> {0, 1}] /\ A[heap_listp] = 1
  BY <1>1, PiecesFacts DEF Tagged
<1>6. /\ free_listp \in Known(top, B, S, A)
      /\ \A p \in FreeOf(B, A) : p + 1 \in Known(top, B, S, A)
  BY <1>5, KnownAddr DEF FreeOf
<1>7. /\ n[free_listp] = m[free_listp]
      /\ \A p \in FreeOf(B, A) : n[p + 1] = m[p + 1]
  BY <1>2, <1>6 DEF Agree
<1> QED BY <1>1, <1>3, <1>4, <1>7 DEF GET, NEXT_P, WSIZE

(* Two memories that are alike form heaps.                                 *)
LEMMA AlikeGood ==
  ASSUME NEW m, NEW n, NEW top, Alike(m, n, top)
  PROVE  m \in Memory /\ n \in Memory /\ \E B : Good(m, top, B) /\ Good(n, top, B)
<1>1. PICK B, S, A : Pieces(m, top, B, S, A) /\ Pieces(n, top, B, S, A)
  BY DEF Alike
<1>2. Good(m, top, B) /\ Good(n, top, B)
  BY <1>1, GoodIntro
<1> QED BY <1>2 DEF Good

(* A heap is like itself.                                                  *)
LEMMA AlikeItself ==
  ASSUME NEW m, NEW top, NEW B, Good(m, top, B)
  PROVE  Alike(m, m, top)
<1>1. PICK S, A : Pieces(m, top, B, S, A)
  BY GoodElim
<1>2. m \in Memory /\ Layout(top, B, S) /\ A \in [B -> {0, 1}] /\ A[heap_listp] = 1
  BY <1>1, PiecesFacts DEF Tagged
<1>3. Known(top, B, S, A) \subseteq Addr
  BY <1>2, KnownAddr
<1>4. Agree(m, m, Known(top, B, S, A))
  BY <1>2, <1>3 DEF Agree, Memory
<1> QED BY <1>1, <1>4 DEF Alike

(* The writes of format_free and mark_allocated keep an agreement.         *)
LEMMA AgreeFormat ==
  ASSUME NEW m \in Memory, NEW n \in Memory, NEW X, Agree(m, n, X),
         NEW b \in Int, NEW s \in Nat, s % 2 = 0, s >= 4,
         b - 1 \in Addr, b + s - 2 \in Addr
  PROVE  /\ Agree(format_free(m, b, s), format_free(n, b, s),
                  X \union {b - 1, b + s - 2, b, b + 1})
<1> DEFINE m1 == PUT(m, b - 1, s)
<1> DEFINE n1 == PUT(n, b - 1, s)
<1> DEFINE m2 == PUT(m1, b + s - 2, s)
<1> DEFINE n2 == PUT(n1, b + s - 2, s)
<1> DEFINE m3 == PUT(m2, b + 1, NULL)
<1> DEFINE n3 == PUT(n2, b + 1, NULL)
<1>1. b \in Addr /\ b + 1 \in Addr
  BY Defs DEF Addr
<1>2. m1[b - 1] = s + 0 /\ n1[b - 1] = s + 0
  BY DEF PUT, Memory
<1>3. FTRP(m1, b) = b + s - 2 /\ FTRP(n1, b) = b + s - 2
  <2> HIDE DEF m1, n1
  <2> QED BY <1>2, EvenTag
<1>4. /\ format_free(m, b, s) = PUT(m3, b, NULL)
      /\ format_free(n, b, s) = PUT(n3, b, NULL)
  BY <1>3 DEF format_free, HDRP, PACK, NEXT_P, PREV_P, WSIZE
<1>5. Agree(m1, n1, X \union {b - 1})
  BY AgreePut
<1> HIDE DEF m1, n1
<1>6. Agree(m2, n2, (X \union {b - 1}) \union {b + s - 2})
  BY <1>5, AgreePut
<1> HIDE DEF m2, n2
<1>7. Agree(m3, n3, ((X \union {b - 1}) \union {b + s - 2}) \union {b + 1})
  BY <1>1, <1>6, AgreePut
<1> HIDE DEF m3, n3
<1>8. Agree(PUT(m3, b, NULL), PUT(n3, b, NULL),
            (((X \union {b - 1}) \union {b + s - 2}) \union {b + 1}) \union {b})
  BY <1>1, <1>7, AgreePut
<1> QED BY <1>4, <1>8 DEF Agree

(* The tags of an allocated block are written alike.                       *)
LEMMA AgreeMark ==
  ASSUME NEW m \in Memory, NEW n \in Memory, NEW X, Agree(m, n, X),
         NEW b \in Int, NEW s \in Nat, s % 2 = 0, s >= 4,
         b - 1 \in Addr, b + s - 2 \in Addr
  PROVE  /\ Agree(mark_allocated(m, b, s), mark_allocated(n, b, s),
                  X \union {b - 1, b + s - 2})
<1> DEFINE m1 == PUT(m, b - 1, s + 1)
<1> DEFINE n1 == PUT(n, b - 1, s + 1)
<1>1. m1[b - 1] = s + 1 /\ n1[b - 1] = s + 1
  BY DEF PUT, Memory
<1>2. FTRP(m1, b) = b + s - 2 /\ FTRP(n1, b) = b + s - 2
  <2> HIDE DEF m1, n1
  <2> QED BY <1>1, EvenTag
<1>3. /\ mark_allocated(m, b, s) = PUT(m1, b + s - 2, s + 1)
      /\ mark_allocated(n, b, s) = PUT(n1, b + s - 2, s + 1)
  BY <1>2 DEF mark_allocated, HDRP, PACK, WSIZE
<1>4. Agree(m1, n1, X \union {b - 1})
  BY AgreePut
<1> HIDE DEF m1, n1
<1>5. Agree(PUT(m1, b + s - 2, s + 1), PUT(n1, b + s - 2, s + 1),
            (X \union {b - 1}) \union {b + s - 2})
  BY <1>4, AgreePut
<1> QED BY <1>3, <1>5 DEF Agree

(* mm_free of the same block takes like to like.                           *)
LEMMA FreeAlike ==
  ASSUME NEW m, NEW n, NEW top, Alike(m, n, top), NEW B, Good(m, top, B),
         NEW b \in B, b # heap_listp, Allocated(m, b)
  PROVE  Alike(mm_free(m, b), mm_free(n, b), top)
<1>1. PICK S, A : Pieces(m, top, B, S, A)
  BY GoodElim
<1>2. Pieces(n, top, B, S, A) /\ Agree(m, n, Known(top, B, S, A))
  BY <1>1, AlikePieces
<1>3. A[b] = 1
  BY <1>1, GoodIntro
<1> DEFINE m1 == format_free(m, b, S[b])
<1> DEFINE n1 == format_free(n, b, S[b])
<1> DEFINE D == SetBit(B, A, b, 0)
<1>4. /\ mm_free(m, b) = coalesce(m1, b).mem /\ Freed(m1, top, B, S, D, b)
      /\ mm_free(n, b) = coalesce(n1, b).mem /\ Freed(n1, top, B, S, D, b)
  <2>1. /\ mm_free(m, b) = coalesce(m1, b).mem /\ Freed(m1, top, B, S, D, b)
        /\ Tagged(m1, top, B, S, D) /\ Keeps(m, B \ {b}, m1, B)
    BY <1>1, <1>3, FreeFreed
  <2>2. /\ mm_free(n, b) = coalesce(n1, b).mem /\ Freed(n1, top, B, S, D, b)
        /\ Tagged(n1, top, B, S, D) /\ Keeps(n, B \ {b}, n1, B)
    BY <1>2, <1>3, FreeFreed
  <2> QED BY <2>1, <2>2
<1>5. m \in Memory /\ n \in Memory /\ Layout(top, B, S)
  BY <1>1, <1>2, PiecesFacts
<1>6. /\ b \in Int /\ S[b] \in Nat /\ S[b] % 2 = 0 /\ S[b] >= 4
      /\ b - 1 \in Addr /\ b + S[b] - 2 \in Addr
  <2>1. b \in Int /\ S[b] \in Nat /\ S[b] % 2 = 0 /\ S[b] >= 4
    BY <1>5 DEF Layout
  <2> QED BY <2>1, <1>5, LayoutFacts
<1>7. Agree(m1, n1, Known(top, B, S, A) \union {b - 1, b + S[b] - 2, b, b + 1})
  BY <1>2, <1>5, <1>6, AgreeFormat
<1> HIDE DEF m1, n1
<1>8. Known(top, B, S, D) \subseteq Known(top, B, S, A) \union {b - 1, b + S[b] - 2, b, b + 1}
  <2>1. FreeOf(B, D) \subseteq FreeOf(B, A) \union {b}
    BY DEF FreeOf, SetBit
  <2> QED BY <2>1 DEF Known
<1>9. Agree(m1, n1, Known(top, B, S, D))
  BY <1>7, <1>8 DEF Agree
<1> HIDE DEF D
<1> QED BY <1>4, <1>9, CoalesceAlike

(* place of the same free block takes like to like.                        *)
LEMMA PlaceAlike ==
  ASSUME NEW m, NEW n, NEW top, Alike(m, n, top), NEW B, Good(m, top, B),
         NEW b \in FreeBlocks(m, B),
         NEW a \in Nat, a % 2 = 0, a >= 4, Block_size(m, b) >= a
  PROVE  Alike(place(m, b, a), place(n, b, a), top)
<1>1. PICK S, A : Pieces(m, top, B, S, A) /\ FreeBlocks(m, B) = FreeOf(B, A)
  BY GoodElim
<1>2. Pieces(n, top, B, S, A) /\ Agree(m, n, Known(top, B, S, A))
  BY <1>1, AlikePieces
<1>3. /\ m \in Memory /\ n \in Memory /\ Layout(top, B, S)
      /\ A \in [B -> {0, 1}] /\ A[heap_listp] = 1
  BY <1>1, <1>2, PiecesFacts DEF Tagged
<1>4. b \in FreeOf(B, A) /\ b \in B /\ A[b] = 0 /\ S[b] >= a
  BY <1>1, GoodIntro DEF FreeOf
<1>5. /\ b \in Int /\ S[b] \in Nat /\ S[b] % 2 = 0 /\ S[b] >= 4
      /\ b - 1 \in Addr /\ b + S[b] - 2 \in Addr
  <2>1. b \in Int /\ S[b] \in Nat /\ S[b] % 2 = 0
    BY <1>3, <1>4 DEF Layout
  <2>2. b - 1 \in Addr /\ b + S[b] - 2 \in Addr
    BY <1>3, <1>4, LayoutFacts
  <2> QED BY <2>1, <2>2, <1>4
<1> DEFINE K == Known(top, B, S, A)
<1> DEFINE m1 == REMOVE_BLOCK(m, b)
<1> DEFINE n1 == REMOVE_BLOCK(n, b)
<1>6. m1 \in Memory /\ n1 \in Memory
  BY <1>1, <1>2, <1>4, Unlist
<1>7. Agree(m1, n1, K)
  <2>1. b \in K /\ b + 1 \in K
    BY <1>3, <1>4, KnownAddr
  <2> QED BY <2>1, <1>2, AgreeRemove
<1>8. CASE ~(S[b] - a >= 4)
  <2> DEFINE m2 == mark_allocated(m1, b, S[b])
  <2> DEFINE n2 == mark_allocated(n1, b, S[b])
  <2> DEFINE D == SetBit(B, A, b, 1)
  <2>1. place(m, b, a) = m2 /\ place(n, b, a) = n2
    BY <1>1, <1>2, <1>4, <1>8, PlaceForms
  <2>2. Pieces(m2, top, B, S, D)
    BY <1>1, <1>4, PlaceWhole
  <2>3. Pieces(n2, top, B, S, D)
    BY <1>2, <1>4, PlaceWhole
  <2> HIDE DEF m1, n1
  <2>4. Agree(m2, n2, K \union {b - 1, b + S[b] - 2})
    BY <1>5, <1>6, <1>7, AgreeMark
  <2>5. Known(top, B, S, D) \subseteq K
    <3>1. FreeOf(B, D) \subseteq FreeOf(B, A)
      BY DEF FreeOf, SetBit
    <3> QED BY <3>1 DEF Known
  <2>6. Agree(m2, n2, Known(top, B, S, D))
    BY <2>4, <2>5 DEF Agree
  <2> HIDE DEF m2, n2, D
  <2>7. Alike(m2, n2, top)
    BY <2>2, <2>3, <2>6 DEF Alike
  <2> QED BY <2>1, <2>7
<1>9. CASE S[b] - a >= 4
  <2> DEFINE r == b + a
  <2> DEFINE t == S[b] - a
  <2> DEFINE m2 == mark_allocated(m1, b, a)
  <2> DEFINE n2 == mark_allocated(n1, b, a)
  <2> DEFINE m3 == format_free(m2, r, t)
  <2> DEFINE n3 == format_free(n2, r, t)
  <2> DEFINE C == B \union {r}
  <2> DEFINE T == Split(B, S, b, a)
  <2> DEFINE D == SplitBits(B, A, b, r)
  <2>1. place(m, b, a) = coalesce(m3, r).mem /\ place(n, b, a) = coalesce(n3, r).mem
    BY <1>1, <1>2, <1>4, <1>9, PlaceForms
  <2>2. IsSplit(m, top, B, S, A, b, a, m3, C, T, D)
    BY <1>1, <1>4, <1>9, SplitFreed
  <2>3. IsSplit(n, top, B, S, A, b, a, n3, C, T, D)
    BY <1>2, <1>4, <1>9, SplitFreed
  <2>4. /\ r \in Int /\ t \in Nat /\ t % 2 = 0 /\ t >= 4 /\ r + t = b + S[b]
        /\ b + a - 2 \in Addr /\ r - 1 \in Addr /\ r + t - 2 \in Addr
        /\ a + 1 \in Word
    <3>1. r \in Int /\ t \in Nat /\ t % 2 = 0 /\ t >= 4 /\ r + t = b + S[b]
      BY <1>5, <1>9
    <3>2. r + t - 2 = b + S[b] - 2
      BY <1>5, <1>9
    <3>3. b + a - 2 \in Addr /\ r - 1 \in Addr /\ a + 1 \in Word
      BY <1>5, <1>9, Defs DEF Addr, Word
    <3> QED BY <3>1, <3>2, <3>3, <1>5
  <2> HIDE DEF m1, n1
  <2>5. m2 \in Memory /\ n2 \in Memory
    BY <2>4, <1>5, <1>6, MarkAllocatedWrites
  <2>6. Agree(m2, n2, K \union {b - 1, b + a - 2})
    BY <2>4, <1>5, <1>6, <1>7, AgreeMark
  <2> HIDE DEF m2, n2, t
  <2>7. Agree(m3, n3, (K \union {b - 1, b + a - 2}) \union {r - 1, r + t - 2, r, r + 1})
    <3> HIDE DEF r
    <3> QED BY <2>4, <2>5, <2>6, AgreeFormat
  <2> HIDE DEF m3, n3, T, D
  <2>8. Known(top, C, T, D)
          \subseteq (K \union {b - 1, b + a - 2}) \union {r - 1, r + t - 2, r, r + 1}
    <3> DEFINE X == (K \union {b - 1, b + a - 2}) \union {r - 1, r + t - 2, r, r + 1}
    <3>1. /\ T[b] = a /\ D[b] = 1 /\ D[r] = 0 /\ T[r] = t
          /\ \A p \in B : p # b => T[p] = S[p] /\ D[p] = A[p]
      BY <2>2 DEF IsSplit, t
    <3> HIDE DEF r
    <3>2. /\ free_listp \in K /\ free_listp + 1 \in K /\ top - 1 \in K
          /\ \A p \in B : p - 1 \in K /\ p + S[p] - 2 \in K
          /\ \A p \in B : A[p] = 0 => p \in K /\ p + 1 \in K
      BY <1>3, KnownAddr
    <3> HIDE DEF K
    <3>3. ASSUME NEW p \in C
          PROVE  p - 1 \in X /\ p + T[p] - 2 \in X /\ (D[p] = 0 => p \in X /\ p + 1 \in X)
      <4>1. CASE p = r
        BY <4>1, <3>1
      <4>2. CASE p = b /\ p # r
        BY <4>2, <3>1
      <4>3. CASE p # b /\ p # r
        <5>1. p \in B
          BY <4>3
        <5> QED BY <5>1, <4>3, <3>1, <3>2
      <4> QED BY <4>1, <4>2, <4>3
    <3>4. free_listp \in X /\ free_listp + 1 \in X /\ top - 1 \in X
      BY <3>2
    <3> HIDE DEF X
    <3>5. Known(top, C, T, D) \subseteq X
      BY <3>3, <3>4 DEF Known, FreeOf
    <3> QED BY <3>5 DEF X
  <2>9. Agree(m3, n3, Known(top, C, T, D))
    BY <2>7, <2>8 DEF Agree
  <2>10. Freed(m3, top, C, T, D, r) /\ Freed(n3, top, C, T, D, r)
    BY <2>2, <2>3 DEF IsSplit
  <2>11. Alike(coalesce(m3, r).mem, coalesce(n3, r).mem, top)
    BY <2>9, <2>10, CoalesceAlike
  <2> QED BY <2>1, <2>11
<1> QED BY <1>8, <1>9

(* What is known of a heap that has grown was known or has been written.   *)
LEMMA KnownGrows ==
  ASSUME NEW m, NEW top, NEW B, NEW S, NEW A, Layout(top, B, S),
         A \in [B -> {0, 1}], A[heap_listp] = 1,
         NEW size \in Nat, NEW n, NEW C, NEW T, NEW D,
         IsGrown(m, top, B, S, A, size, n, C, T, D)
  PROVE  Known(top + size, C, T, D)
           \subseteq (Known(top, B, S, A) \union {top - 1, top + size - 2, top, top + 1})
                       \union {top + size - 1}
<1> DEFINE K == Known(top, B, S, A)
<1> DEFINE X == (K \union {top - 1, top + size - 2, top, top + 1}) \union {top + size - 1}
<1>1. /\ C = B \union {top} /\ T[top] = size
      /\ \A p \in B : T[p] = S[p] /\ D[p] = A[p]
  BY DEF IsGrown
<1>2. /\ free_listp \in K /\ free_listp + 1 \in K
      /\ \A p \in B : p - 1 \in K /\ p + S[p] - 2 \in K
      /\ \A p \in B : A[p] = 0 => p \in K /\ p + 1 \in K
  BY KnownAddr
<1> HIDE DEF K
<1>3. ASSUME NEW p \in C
      PROVE  p - 1 \in X /\ p + T[p] - 2 \in X /\ (D[p] = 0 => p \in X /\ p + 1 \in X)
  <2>1. CASE p = top
    BY <2>1, <1>1
  <2>2. CASE p # top
    <3>1. p \in B
      BY <1>1, <2>2
    <3> QED BY <3>1, <1>1, <1>2
  <2> QED BY <2>1, <2>2
<1>4. free_listp \in X /\ free_listp + 1 \in X /\ top + size - 1 \in X
  BY <1>2
<1> HIDE DEF X
<1>5. Known(top + size, C, T, D) \subseteq X
  <2> DEFINE e == top + size
  <2>1. e - 1 \in X
    <3>1. e - 1 = top + size - 1
      BY DEF Layout
    <3> QED BY <3>1, <1>4
  <2> HIDE DEF e
  <2>2. Known(e, C, T, D) \subseteq X
    BY <1>3, <1>4, <2>1 DEF Known, FreeOf
  <2> QED BY <2>2 DEF e
<1> QED BY <1>5 DEF X, K

(* extend_heap takes like to like and answers the same.                    *)
LEMMA ExtendPieces ==
  ASSUME NEW m, NEW n, NEW top, NEW B, NEW S, NEW A,
         Pieces(m, top, B, S, A), Pieces(n, top, B, S, A),
         Agree(m, n, Known(top, B, S, A)),
         NEW words \in Nat, words >= 4,
         NEW size, size = extend_size(words), top + size <= HeapBase + MAX_HEAP
  PROVE  /\ extend_heap(m, top, words).bp = extend_heap(n, top, words).bp
         /\ Alike(extend_heap(m, top, words).mem, extend_heap(n, top, words).mem, top + size)
<1>1. /\ m \in Memory /\ n \in Memory /\ Layout(top, B, S)
      /\ A \in [B -> {0, 1}] /\ A[heap_listp] = 1
  BY PiecesFacts DEF Tagged
<1> DEFINE m1 == format_free(m, top, size)
<1> DEFINE n1 == format_free(n, top, size)
<1> DEFINE m2 == Extended(m, top, size)
<1> DEFINE n2 == Extended(n, top, size)
<1> DEFINE C == B \union {top}
<1> DEFINE T == Grow(B, S, top, size)
<1> DEFINE D == GrowBits(B, A, top)
<1> DEFINE K == Known(top, B, S, A)
<1>2. /\ extend_heap(m, top, words) = coalesce(m2, top)
      /\ IsGrown(m, top, B, S, A, size, m2, C, T, D)
  BY ExtendFreed
<1>3. /\ extend_heap(n, top, words) = coalesce(n2, top)
      /\ IsGrown(n, top, B, S, A, size, n2, C, T, D)
  BY ExtendFreed
<1>4. size \in Nat /\ size % 2 = 0 /\ size >= 4
  BY DEF extend_size
<1>5. /\ top \in Int /\ top - 1 \in Addr /\ top + size - 2 \in Addr
      /\ top + size - 1 \in Addr
  <2>1. top \in Int /\ top > heap_listp + 1 /\ top - 1 \in Addr
    BY <1>1, LayoutFacts
  <2> QED BY <2>1, <1>4, Defs DEF Addr
<1>6. Agree(m1, n1, K \union {top - 1, top + size - 2, top, top + 1})
  BY <1>1, <1>4, <1>5, AgreeFormat
<1>7. m2 = PUT(m1, top + size - 1, 1) /\ n2 = PUT(n1, top + size - 1, 1)
  BY DEF Extended
<1> HIDE DEF m1, n1, m2, n2, C, T, D
<1>8. Agree(m2, n2, (K \union {top - 1, top + size - 2, top, top + 1}) \union {top + size - 1})
  <2> HIDE DEF K
  <2> QED BY <1>5, <1>6, <1>7, AgreePut
<1>9. Known(top + size, C, T, D)
        \subseteq (K \union {top - 1, top + size - 2, top, top + 1}) \union {top + size - 1}
  BY <1>1, <1>2, <1>4, KnownGrows
<1>10. Agree(m2, n2, Known(top + size, C, T, D))
  BY <1>8, <1>9 DEF Agree
<1>11. Freed(m2, top + size, C, T, D, top) /\ Freed(n2, top + size, C, T, D, top)
  BY <1>2, <1>3 DEF IsGrown
<1>12. /\ coalesce(m2, top).bp = coalesce(n2, top).bp
       /\ Alike(coalesce(m2, top).mem, coalesce(n2, top).mem, top + size)
  BY <1>10, <1>11, CoalesceAlike
<1> QED BY <1>2, <1>3, <1>12

(* Heaps that are alike grow alike.                                        *)
LEMMA ExtendAlike ==
  ASSUME NEW m, NEW n, NEW top, Alike(m, n, top),
         NEW words \in Nat, words >= 4,
         NEW size, size = extend_size(words), top + size <= HeapBase + MAX_HEAP
  PROVE  /\ extend_heap(m, top, words).bp = extend_heap(n, top, words).bp
         /\ Alike(extend_heap(m, top, words).mem, extend_heap(n, top, words).mem, top + size)
<1>1. PICK B, S, A : /\ Pieces(m, top, B, S, A) /\ Pieces(n, top, B, S, A)
                     /\ Agree(m, n, Known(top, B, S, A))
  BY DEF Alike
<1> QED BY <1>1, ExtendPieces

(* mm_init makes of any two memories heaps that are alike.                 *)
LEMMA InitAlike ==
  ASSUME NEW m \in Memory, NEW n \in Memory
  PROVE  Alike(mm_init(m), mm_init(n), mm_init_brk)
<1> DEFINE b == HeapBase
<1> DEFINE top == HeapBase + 6
<1> DEFINE S == [p \in OneBlock |-> 2]
<1> DEFINE A == [p \in OneBlock |-> 1]
<1> DEFINE o == Prologue(m)
<1> DEFINE r == Prologue(n)
<1>1. /\ mm_init(m) = extend_heap(o, top, CHUNKSIZE).mem
      /\ Pieces(o, top, OneBlock, S, A)
  BY InitPieces
<1>2. /\ mm_init(n) = extend_heap(r, top, CHUNKSIZE).mem
      /\ Pieces(r, top, OneBlock, S, A)
  BY InitPieces
<1>3. /\ b \in Nat /\ b + 1 \in Addr /\ b + 2 \in Addr /\ b + 3 \in Addr
      /\ b + 4 \in Addr /\ b + 5 \in Addr /\ b \in Addr
      /\ free_listp = b + 1 /\ heap_listp = b + 4
  BY Defs DEF Addr
<1>4. Known(top, OneBlock, S, A) \subseteq {b + 1, b + 2, b + 3, b + 4, b + 5}
  <2>1. FreeOf(OneBlock, A) = {}
    BY DEF FreeOf
  <2>2. {p - 1 : p \in OneBlock} = {heap_listp - 1}
    BY DEF OneBlock
  <2>3. {p + S[p] - 2 : p \in OneBlock} = {heap_listp + 2 - 2}
    BY DEF OneBlock
  <2>4. /\ free_listp + 1 = b + 2 /\ top - 1 = b + 5
        /\ heap_listp - 1 = b + 3 /\ heap_listp + 2 - 2 = b + 4
    BY <1>3
  <2> HIDE DEF S, A, top, b
  <2> QED BY <2>1, <2>2, <2>3, <2>4, <1>3 DEF Known
<1>5. Agree(o, r, {b + 1, b + 2, b + 3, b + 4, b + 5})
  <2>1. Agree(PUT(m, b, 0), PUT(n, b, 0), {})
    BY DEF Agree, PUT, Memory
  <2> DEFINE m2 == PUT(PUT(m, b, 0), b + 1, 0)
  <2> DEFINE n2 == PUT(PUT(n, b, 0), b + 1, 0)
  <2>2. Agree(m2, n2, {} \union {b + 1})
    BY <2>1, <1>3, AgreePut
  <2> HIDE DEF m2, n2
  <2> DEFINE m3 == PUT(m2, b + 2, 0)
  <2> DEFINE n3 == PUT(n2, b + 2, 0)
  <2>3. Agree(m3, n3, ({} \union {b + 1}) \union {b + 2})
    BY <2>2, <1>3, AgreePut
  <2> HIDE DEF m3, n3
  <2> DEFINE m4 == PUT(m3, b + 3, 3)
  <2> DEFINE n4 == PUT(n3, b + 3, 3)
  <2>4. Agree(m4, n4, (({} \union {b + 1}) \union {b + 2}) \union {b + 3})
    BY <2>3, <1>3, AgreePut
  <2> HIDE DEF m4, n4
  <2> DEFINE m5 == PUT(m4, b + 4, 3)
  <2> DEFINE n5 == PUT(n4, b + 4, 3)
  <2>5. Agree(m5, n5, ((({} \union {b + 1}) \union {b + 2}) \union {b + 3}) \union {b + 4})
    BY <2>4, <1>3, AgreePut
  <2> HIDE DEF m5, n5
  <2>6. Agree(PUT(m5, b + 5, 1), PUT(n5, b + 5, 1),
              (((({} \union {b + 1}) \union {b + 2}) \union {b + 3}) \union {b + 4}) \union {b + 5})
    BY <2>5, <1>3, AgreePut
  <2>7. o = PUT(m5, b + 5, 1) /\ r = PUT(n5, b + 5, 1)
    BY DEF Prologue, m2, n2, m3, n3, m4, n4, m5, n5
  <2> QED BY <2>6, <2>7 DEF Agree
<1>6. Agree(o, r, Known(top, OneBlock, S, A))
  BY <1>4, <1>5 DEF Agree
<1>7. /\ CHUNKSIZE \in Nat /\ CHUNKSIZE >= 4
      /\ top + extend_size(CHUNKSIZE) <= HeapBase + MAX_HEAP
      /\ top + extend_size(CHUNKSIZE) = mm_init_brk
  BY Defs DEF extend_size, mm_init_brk, DSIZE
<1> HIDE DEF o, r, S, A, top
<1>8. Alike(extend_heap(o, top, CHUNKSIZE).mem, extend_heap(r, top, CHUNKSIZE).mem,
            top + extend_size(CHUNKSIZE))
  BY <1>1, <1>2, <1>6, <1>7, ExtendPieces
<1> QED BY <1>1, <1>2, <1>7, <1>8

(* What is written inside the payload of an allocated block is not seen.   *)
LEMMA PayloadAlike ==
  ASSUME NEW m, NEW top, NEW B, Good(m, top, B), NEW n \in Memory,
         NEW b \in B, Allocated(m, b),
         Outside(m, n, b, b + Block_size(m, b) - 3)
  PROVE  Alike(m, n, top)
<1>1. PICK S, A : Pieces(m, top, B, S, A)
  BY GoodElim
<1>2. /\ m \in Memory /\ Layout(top, B, S) /\ A \in [B -> {0, 1}] /\ A[heap_listp] = 1
  BY <1>1, PiecesFacts DEF Tagged
<1>3. Block_size(m, b) = S[b] /\ A[b] = 1
  BY <1>1, GoodIntro
<1> DEFINE K == Known(top, B, S, A)
<1>4. K \subseteq Addr
  BY <1>2, KnownAddr
<1>5. /\ b \in Int /\ S[b] \in Int /\ S[b] >= 2 /\ b >= heap_listp /\ b + S[b] <= top
      /\ top \in Int /\ heap_listp = free_listp + 3 /\ free_listp \in Int
  BY <1>2, Defs DEF Layout
<1>6. \A p \in B : /\ p \in Int /\ S[p] \in Int /\ S[p] >= 2 /\ (p # heap_listp => S[p] >= 4)
                   /\ p # b => p + S[p] <= b \/ p >= b + S[b]
  <2>1. \A p \in B : p \in Int /\ S[p] \in Int /\ S[p] >= 2 /\ (p # heap_listp => S[p] >= 4)
    BY <1>2 DEF Layout
  <2>2. \A p, q \in B : p < q => p + S[p] <= q
    BY <1>2 DEF Layout
  <2> QED BY <2>1, <2>2
<1>7. \A p \in B : A[p] = 0 => p # b /\ p # heap_listp
  BY <1>2, <1>3
<1>8. \A a \in K : a < b \/ a > b + S[b] - 3
  <2> SUFFICES ASSUME NEW a \in K PROVE a < b \/ a > b + S[b] - 3
    OBVIOUS
  <2>1. CASE a \in {free_listp, free_listp + 1, top - 1}
    BY <2>1, <1>5
  <2>2. CASE \E p \in B : a = p - 1 \/ a = p + S[p] - 2
    BY <2>2, <1>5, <1>6
  <2>3. CASE \E p \in B : A[p] = 0 /\ (a = p \/ a = p + 1)
    BY <2>3, <1>5, <1>6, <1>7
  <2> QED BY <2>1, <2>2, <2>3 DEF Known, FreeOf
<1>9. Agree(m, n, K)
  <2>1. \A a \in K : n[a] = m[a]
    BY <1>3, <1>4, <1>8 DEF Outside
  <2> HIDE DEF K
  <2> QED BY <2>1, <1>2, <1>4 DEF Agree, Memory
<1> QED BY <1>1, <1>9, PiecesAgree
=============================================================================
