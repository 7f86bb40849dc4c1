---------------------------- MODULE MDriverProof ----------------------------
(***************************************************************************)
(* Proofs about mm.c under its driver: for every heap size, chunk size,    *)
(* set of ids and of request sizes, the memory is a heap at every step,    *)
(* the type invariant holds, and the driver never finds a payload          *)
(* misaligned, outside the heap, overlapping another or garbled.           *)
(*                                                                         *)
(* The second half is about the replays.  Once mm_init has returned, what  *)
(* a call answers is a function of the tags and links before it (After),   *)
(* and mm_init leaves any two memories Alike: eval_mm_util and             *)
(* eval_mm_speed get the answers that eval_mm_valid checked, and what the  *)
(* client holds at its peak fits in the heap the allocator grew.           *)
(***************************************************************************)
EXTENDS MDriverProps, DriverPerf, MmHeapProof

----------------------------------------------------------------------------
(* The inductive invariant.                                                *)

(* The pointer p is an allocated block of B with room for size bytes.      *)
Owns(m, B, p, size) ==
  /\ p \in B /\ p # heap_listp /\ Allocated(m, p)
  /\ Block_size(m, p) >= payload_words(size) + 2

(* Its first size bytes are id i's data.                                   *)
Filled(m, i, p, size) ==
  \A k \in 0 .. (payload_words(size) - 1) : m[p + k] = random_data[i][k]

(* The ids whose block the allocator has not taken back.                   *)
IsReleased == pc = "ret" /\ req.op = "realloc" /\ (bp # NULL \/ req.size = 0)
Live == IF IsReleased THEN ranges \ {index} ELSE ranges

(* A pointer has been granted and is not yet in the driver's tables.       *)
IsGranted == pc \in {"copy", "ret"} /\ bp # NULL

(* What the blocks of the ids rs leave allocated besides: the prologue.     *)
Client(rs) == {heap_listp} \union {blocks[i] : i \in rs}
Ours == Client(Live) \union (IF IsGranted THEN {bp} ELSE {})

(* find_fit has passed over P: the free list up to bp, all of it too small. *)
Passed(P) ==
  /\ GET(mem, free_listp) \in P \union {bp}
  /\ \A p \in P : /\ GET(mem, NEXT_P(p)) \in P \union {bp}
                  /\ Block_size(mem, p) < adjust(req.size)

Ids ==
  /\ \A i \in Index : blocks[i] = NULL => block_sizes[i] = 0
  /\ \A i \in ranges : blocks[i] # NULL /\ block_sizes[i] > 0
  /\ \A i, j \in ranges : i # j => blocks[i] # blocks[j]

Control ==
  /\ running => initialised
  /\ ranges # {} => initialised
  /\ pc # "idle" => running /\ index \in Index /\ req.op \in {"malloc", "realloc"}
  /\ pc # "idle" /\ req.op = "malloc" => index \notin ranges /\ req.size > 0
  /\ pc # "idle" /\ req.op = "realloc"
       => index \in ranges \/ blocks[index] = NULL
  /\ pc \in {"find_fit", "copy"} /\ req.op = "realloc" => req.ptr = blocks[index]
  /\ pc \in {"find_fit", "copy"} => req.size > 0
  /\ pc = "copy" => req.op = "realloc" /\ index \in ranges /\ bp # NULL
  /\ pc = "ret" /\ req.size = 0 => bp = NULL
  /\ IsGranted => \A j \in Live : blocks[j] # bp

HeldHeap(B) ==
  /\ Good(mem, brk, B)
  /\ \A i \in Live : /\ Owns(mem, B, blocks[i], block_sizes[i])
                     /\ Filled(mem, i, blocks[i], block_sizes[i])
  /\ Taken(mem, B) \subseteq Ours
  /\ pc = "find_fit" => /\ bp \in FreeBlocks(mem, B) \union {NULL}
                        /\ \E P \in SUBSET FreeBlocks(mem, B) : Passed(P)
  /\ IsGranted => Owns(mem, B, bp, req.size)
  /\ pc = "ret" /\ req.op = "realloc" /\ bp # NULL
       => Filled(mem, index, bp, kept_size)

HeapInv == initialised => \E B : HeldHeap(B)

(* The heap part of it alone.                                              *)
HeapIsOK == initialised => \E B : HeapOK(mem, brk, B)

IInv == TypeOK /\ DriverSatisfied /\ Ids /\ Control /\ HeapInv

----------------------------------------------------------------------------
(* Sizes.                                                                  *)

(* mm_malloc rounds a request up to an even number of words that has room  *)
(* for the payload and both tags.                                          *)
LEMMA SizeFacts ==
  ASSUME NEW size \in Nat
  PROVE  /\ adjust(size) \in Nat /\ adjust(size) % 2 = 0 /\ adjust(size) >= 4
         /\ payload_words(size) \in Nat /\ 4 * payload_words(size) >= size
         /\ adjust(size) >= payload_words(size) + 2
         /\ size = 0 => payload_words(size) = 0
         /\ size > 0 => payload_words(size) > 0
BY DEF adjust, payload_words, OVERHEAD

(* More bytes never take fewer words.                                      *)
LEMMA SizeMonotone ==
  ASSUME NEW s \in Nat, NEW t \in Nat, s <= t
  PROVE  payload_words(s) <= payload_words(t)
BY DEF payload_words

(* Request sizes are numbers of bytes.                                     *)
LEMMA SizesNat == Sizes \union {0} \subseteq Nat
BY DriverAssumption

----------------------------------------------------------------------------
(* A payload survives what the allocator does.                             *)

(* A block that a call of mm.c keeps is still its owner's, data included.  *)
LEMMA KeptPayload ==
  ASSUME NEW m, NEW top, NEW B, Good(m, top, B), NEW n, NEW C, NEW D,
         D \subseteq B, Keeps(m, D, n, C),
         NEW p \in D, NEW size \in Nat, Owns(m, B, p, size)
  PROVE  /\ Owns(n, C, p, size)
         /\ \A k \in 0 .. (payload_words(size) - 1) : n[p + k] = m[p + k]
<1>1. /\ p \in C /\ Allocated(n, p) /\ Block_size(n, p) = Block_size(m, p)
      /\ \A a \in p .. (p + Block_size(m, p) - 3) : n[a] = m[a]
  BY DEF Keeps, Owns
<1>2. Owns(n, C, p, size)
  BY <1>1 DEF Owns
<1>3. p \in Int /\ Block_size(m, p) \in Int
  <2>1. PICK S, A : Pieces(m, top, B, S, A)
    BY GoodElim
  <2>2. Layout(top, B, S) /\ Block_size(m, p) = S[p]
    BY <2>1, PiecesFacts, GoodIntro
  <2> QED BY <2>2, LayoutFacts
<1>4. ASSUME NEW k \in 0 .. (payload_words(size) - 1) PROVE n[p + k] = m[p + k]
  <2>1. payload_words(size) \in Nat /\ Block_size(m, p) >= payload_words(size) + 2
    BY SizeFacts DEF Owns
  <2>2. p + k \in p .. (p + Block_size(m, p) - 3)
    BY <2>1, <1>3
  <2> QED BY <2>2, <1>1
<1> QED BY <1>2, <1>4

(* Blocks owned by different ids: their payloads, as byte ranges, are in   *)
(* the heap, aligned and apart.                                            *)
LEMMA OwnedBlock ==
  ASSUME NEW m, NEW top, NEW B, Good(m, top, B),
         NEW p, NEW size \in Nat, Owns(m, B, p, size)
  PROVE  /\ p \in Int /\ p >= HeapBase /\ p # NULL /\ p % 2 = 0 /\ p \in Addr
         /\ p + payload_words(size) + 2 <= top
         /\ \A a \in p .. (p + payload_words(size) - 1) : a \in Addr
         /\ \A q \in B : q # p => q >= p + payload_words(size) + 2
                               \/ q + Block_size(m, q) <= p
         /\ Block_size(m, p) \in Int
<1>1. PICK S, A : Pieces(m, top, B, S, A)
  BY GoodElim
<1>2. Layout(top, B, S) /\ \A q \in B : Block_size(m, q) = S[q]
  BY <1>1, PiecesFacts, GoodIntro
<1>3. p \in B /\ S[p] >= payload_words(size) + 2
  BY <1>2 DEF Owns
<1>4. payload_words(size) \in Nat
  BY SizeFacts
<1>5. /\ p \in Int /\ p >= heap_listp /\ p % 2 = 0 /\ p \in Addr /\ p # NULL
      /\ S[p] \in Int /\ p + S[p] <= top /\ top \in Int /\ top <= HeapBase + MAX_HEAP
      /\ \A q \in B : q \in Int /\ S[q] \in Int
  <2>1. /\ p \in Int /\ p >= heap_listp /\ p % 2 = 0 /\ p + S[p] <= top
        /\ top \in Int /\ top <= HeapBase + MAX_HEAP
    BY <1>2, <1>3 DEF Layout
  <2>2. p \in Addr /\ p # NULL /\ \A q \in B : q \in Int /\ S[q] \in Int
    BY <1>2, <1>3, LayoutFacts
  <2> QED BY <2>1, <2>2, <1>3
<1>6. \A q \in B : q # p => q >= p + S[p] \/ q + S[q] <= p
  <2>1. \A q, r \in B : q < r => q + S[q] <= r
    BY <1>2 DEF Layout
  <2> QED BY <2>1, <1>3, <1>5
<1>7. p + payload_words(size) + 2 <= top
  BY <1>3, <1>4, <1>5
<1>8. \A q \in B : q # p => q >= p + payload_words(size) + 2 \/ q + S[q] <= p
  BY <1>3, <1>4, <1>5, <1>6
<1>9. \A a \in p .. (p + payload_words(size) - 1) : a \in Addr
  BY <1>4, <1>5, <1>7, Defs DEF Addr
<1> QED BY <1>2, <1>3, <1>5, <1>7, <1>8, <1>9, Defs

(* add_range accepts what the allocator grants.                            *)
LEMMA RangeAccepted ==
  ASSUME NEW B, Good(mem, brk, B), NEW rs, rs \subseteq Index,
         block_sizes \in [Index -> Nat], brk \in Int,
         \A j \in rs : Owns(mem, B, blocks[j], block_sizes[j]),
         NEW p, NEW size \in Nat, size > 0, Owns(mem, B, p, size),
         \A j \in rs : blocks[j] # p
  PROVE  add_range_ok(rs, p, size)
<1>1. /\ p \in Int /\ p >= HeapBase /\ p % 2 = 0
      /\ p + payload_words(size) + 2 <= brk
  BY OwnedBlock
<1>2. payload_words(size) \in Nat /\ 4 * payload_words(size) >= size
  BY SizeFacts
<1>3. in_heap(byte(p)) /\ in_heap(range_hi(p, size))
  BY <1>1, <1>2, Defs DEF in_heap, byte, range_hi
<1>4. ASSUME NEW j \in rs
      PROVE  /\ ~(byte(blocks[j]) <= byte(p) /\ byte(p) <= range_hi(blocks[j], block_sizes[j]))
             /\ ~(/\ byte(blocks[j]) <= range_hi(p, size)
                  /\ range_hi(p, size) <= range_hi(blocks[j], block_sizes[j]))
  <2> DEFINE q == blocks[j]
  <2> DEFINE s == block_sizes[j]
  <2>1. s \in Nat /\ Owns(mem, B, q, s) /\ q # p
    OBVIOUS
  <2> HIDE DEF q, s
  <2>2. payload_words(s) \in Nat /\ 4 * payload_words(s) >= s
    BY <2>1, SizeFacts
  <2>3. /\ q \in Int /\ q \in B /\ p \in B
        /\ \A r \in B : r # q => r >= q + payload_words(s) + 2 \/ r + Block_size(mem, r) <= q
        /\ Block_size(mem, p) >= payload_words(size) + 2 /\ Block_size(mem, p) \in Int
    BY <2>1, OwnedBlock DEF Owns
  <2>4. p >= q + payload_words(s) + 2 \/ p + Block_size(mem, p) <= q
    BY <2>1, <2>3
  <2>5. p >= q + payload_words(s) + 2 \/ p + payload_words(size) + 2 <= q
    BY <2>3, <2>4, <1>1, <1>2, <2>2
  <2>6. 4 * p > 4 * q + s \/ 4 * p + size < 4 * q
    BY <2>3, <2>5, <1>1, <1>2, <2>1, <2>2
  <2>7. /\ ~(4 * q <= 4 * p /\ 4 * p <= 4 * q + s - 1)
        /\ ~(4 * q <= 4 * p + size - 1 /\ 4 * p + size - 1 <= 4 * q + s - 1)
    BY <2>3, <2>6, <1>1, <2>1
  <2> QED BY <2>7 DEF byte, range_hi, q, s
<1> QED BY <1>1, <1>3, <1>4 DEF add_range_ok, DSIZE

----------------------------------------------------------------------------
(* The steps of a call.                                                    *)

(* The prologue is allocated, and a pointer to a free block is no id's.    *)
LEMMA FreeIsNoOnes ==
  ASSUME NEW m, NEW top, NEW B, Good(m, top, B), NEW b \in FreeBlocks(m, B)
  PROVE  /\ b # heap_listp /\ b \in B /\ ~Allocated(m, b) /\ b \in Addr /\ b # NULL
         /\ \A p, s : Owns(m, B, p, s) => p # b
<1>1. PICK S, A : Pieces(m, top, B, S, A) /\ FreeBlocks(m, B) = FreeOf(B, A)
  BY GoodElim
<1>2. Layout(top, B, S) /\ FreeOf(B, A) \subseteq B \ {heap_listp}
  BY <1>1, PiecesFacts
<1>3. b \in B /\ ~Allocated(m, b)
  BY DEF FreeBlocks
<1>4. b \in Addr /\ b # NULL
  BY <1>2, <1>3, LayoutFacts
<1> QED BY <1>1, <1>2, <1>3, <1>4 DEF Owns

(* What is known at a step of find_fit.                                    *)
LEMMA FindFitFacts ==
  ASSUME IInv, pc = "find_fit"
  PROVE  /\ \E B : /\ Good(mem, brk, B)
                   /\ \A i \in ranges : /\ Owns(mem, B, blocks[i], block_sizes[i])
                                        /\ Filled(mem, i, blocks[i], block_sizes[i])
                   /\ Taken(mem, B) \subseteq Client(ranges)
                   /\ bp \in FreeBlocks(mem, B) \union {NULL}
                   /\ \E P \in SUBSET FreeBlocks(mem, B) : Passed(P)
         /\ req.size \in Nat /\ req.size > 0
         /\ index \in Index /\ req.op \in {"malloc", "realloc"}
         /\ req.op = "malloc" => index \notin ranges
         /\ req.op = "realloc" => req.ptr = blocks[index] /\ (index \in ranges \/ blocks[index] = NULL)
         /\ running
<1>1. Control /\ HeapInv /\ TypeOK
  BY DEF IInv
<1>2. initialised
  BY <1>1 DEF Control
<1>3. PICK B : HeldHeap(B)
  BY <1>1, <1>2 DEF HeapInv
<1>4. Live = ranges /\ Ours = Client(ranges)
  BY DEF Live, IsReleased, Ours, IsGranted
<1>5. req.size \in Nat
  BY <1>1, SizesNat DEF TypeOK
<1> QED BY <1>1, <1>3, <1>4, <1>5 DEF HeldHeap, Control

(* mm_malloc has found the block b and returns it.                         *)
LEMMA MallocReturns ==
  ASSUME IInv, pc = "find_fit", NEW b, b # NULL, malloc_returns(b),
         UNCHANGED drvvars,
         NEW B, Good(mem, brk, B),
         \A i \in ranges : /\ Owns(mem, B, blocks[i], block_sizes[i])
                           /\ Filled(mem, i, blocks[i], block_sizes[i])
                           /\ blocks[i] # b,
         Taken(mem, B) \subseteq Client(ranges),
         NEW C, Good(mem', brk', C), Taken(mem', C) \subseteq Taken(mem, B) \union {b}, Keeps(mem, B, mem', C), brk' \in HeapBase .. (HeapBase + MAX_HEAP),
         brk' # HeapBase,
         b \in C, b # heap_listp, Allocated(mem', b), Block_size(mem', b) >= adjust(req.size)
  PROVE  IInv'
<1>1. /\ req.size \in Nat /\ req.size > 0
      /\ index \in Index /\ req.op \in {"malloc", "realloc"}
      /\ req.op = "malloc" => index \notin ranges
      /\ req.op = "realloc" => req.ptr = blocks[index] /\ (index \in ranges \/ blocks[index] = NULL)
      /\ running
  BY FindFitFacts
<1>2. /\ bp' = b /\ req' = req
      /\ blocks' = blocks /\ block_sizes' = block_sizes /\ ranges' = ranges /\ index' = index
      /\ errors' = errors /\ running' = running /\ opnum' = opnum /\ tracenum' = tracenum
  BY DEF malloc_returns, drvvars
<1>3. \/ pc' = "copy" /\ req.op = "realloc" /\ index \in ranges /\ req.ptr = blocks[index]
      \/ pc' = "ret" /\ (req.op = "realloc" => blocks[index] = NULL /\ index \notin ranges)
  <2>1. \A i \in ranges : blocks[i] # NULL
    BY DEF IInv, Ids
  <2> QED BY <1>1, <2>1 DEF malloc_returns
<1>4. Live' \subseteq ranges /\ Live \subseteq ranges /\ Live = ranges
  BY <1>2 DEF Live, IsReleased
<1>5. Owns(mem', C, b, req.size)
  <2>1. adjust(req.size) >= payload_words(req.size) + 2 /\ adjust(req.size) \in Nat
        /\ payload_words(req.size) \in Nat
    BY <1>1, SizeFacts
  <2>2. Block_size(mem', b) \in Int
    <3>1. PICK S, A : Pieces(mem', brk', C, S, A)
      BY GoodElim
    <3>2. Layout(brk', C, S) /\ Block_size(mem', b) = S[b]
      BY <3>1, PiecesFacts, GoodIntro
    <3> QED BY <3>2, LayoutFacts
  <2>3. Block_size(mem', b) >= payload_words(req.size) + 2
    BY <2>1, <2>2
  <2> QED BY <2>3 DEF Owns
<1>6. b \in Addr
  BY <1>1, <1>5, OwnedBlock
<1>7. \A i \in ranges : block_sizes[i] \in Nat
  BY SizesNat DEF IInv, TypeOK
<1>8. ASSUME NEW i \in ranges
      PROVE  /\ Owns(mem', C, blocks[i], block_sizes[i])
             /\ Filled(mem', i, blocks[i], block_sizes[i])
  <2>1. blocks[i] \in B
    BY DEF Owns
  <2>2. Owns(mem', C, blocks[i], block_sizes[i])
        /\ \A k \in 0 .. (payload_words(block_sizes[i]) - 1) : mem'[blocks[i] + k] = mem[blocks[i] + k]
    BY <1>7, <2>1, KeptPayload
  <2> QED BY <2>2 DEF Filled
<1>9. TypeOK'
  <2>1. mem' \in [Addr -> Word]
    BY DEF Good, Memory
  <2>2. pc' \in {"idle", "find_fit", "copy", "ret"} /\ bp' \in Pointer
    BY <1>2, <1>3, <1>6 DEF Pointer
  <2> QED BY <2>1, <2>2, <1>2 DEF IInv, TypeOK
<1>10. DriverSatisfied' /\ Ids'
  BY <1>2 DEF IInv, DriverSatisfied, Ids
<1>11. Control'
  <2>1. IsGranted' => \A j \in Live' : blocks'[j] # bp'
    BY <1>2, <1>4
  <2>2. initialised'
    BY DEF initialised
  <2> QED BY <1>1, <1>2, <1>3, <2>1, <2>2 DEF Control
<1>12. HeldHeap(C)'
  <2>1. pc' = "ret" /\ req'.op = "realloc" /\ bp' # NULL => Filled(mem', index', bp', kept_size')
    <3>1. SUFFICES ASSUME pc' = "ret", req.op = "realloc" PROVE Filled(mem', index, b, kept_size')
      BY <1>2
    <3>2. block_sizes[index] = 0
      BY <1>1, <1>3, <3>1 DEF IInv, Ids
    <3>3. kept_size' = 0
      BY <1>1, <1>2, <3>2 DEF kept_size
    <3>4. payload_words(0) = 0
      BY SizeFacts
    <3> QED BY <3>3, <3>4 DEF Filled
  <2>2. pc' # "find_fit"
    BY <1>3
  <2>3. Taken(mem', C) \subseteq Ours'
    <3>1. Live' = ranges /\ IsGranted'
      BY <1>2, <1>3 DEF Live, IsReleased, IsGranted
    <3>2. Client(Live)' = Client(ranges)
      BY <1>2, <3>1 DEF Client
    <3> QED BY <1>2, <3>1, <3>2 DEF Ours
  <2> QED BY <1>2, <1>4, <1>5, <1>8, <2>1, <2>2, <2>3 DEF HeldHeap
<1> QED BY <1>9, <1>10, <1>11, <1>12 DEF IInv, HeapInv

(* find_fit passes over a block that is too small.                         *)
LEMMA FindFitNextStep ==
  ASSUME IInv, find_fit_next, UNCHANGED drvvars
  PROVE  IInv'
<1>1. /\ pc = "find_fit" /\ pc' = pc /\ bp' = GET(mem, NEXT_P(bp)) /\ bp # NULL
      /\ mem' = mem /\ brk' = brk /\ req' = req
      /\ blocks' = blocks /\ block_sizes' = block_sizes /\ ranges' = ranges /\ index' = index
      /\ errors' = errors /\ running' = running /\ opnum' = opnum /\ tracenum' = tracenum
  BY DEF find_fit_next, drvvars
<1>2. PICK B : /\ Good(mem, brk, B)
               /\ \A i \in ranges : /\ Owns(mem, B, blocks[i], block_sizes[i])
                                    /\ Filled(mem, i, blocks[i], block_sizes[i])
               /\ Taken(mem, B) \subseteq Client(ranges)
               /\ bp \in FreeBlocks(mem, B) \union {NULL}
               /\ \E P \in SUBSET FreeBlocks(mem, B) : Passed(P)
  BY <1>1, FindFitFacts
<1>3. bp' \in FreeBlocks(mem, B) \union {NULL}
  <2>1. ListOK(mem, FreeBlocks(mem, B)) /\ bp \in FreeBlocks(mem, B)
    BY <1>1, <1>2 DEF Good, HeapOK
  <2> QED BY <1>1, <2>1 DEF ListOK, Linked
<1>4. bp' \in Pointer
  BY <1>2, <1>3, FreeIsNoOnes DEF Pointer
<1>5. TypeOK'
  BY <1>1, <1>4 DEF IInv, TypeOK
<1>6. DriverSatisfied' /\ Ids'
  BY <1>1 DEF IInv, DriverSatisfied, Ids
<1>7. Live = ranges /\ Live' = ranges /\ ~IsGranted'
  BY <1>1 DEF Live, IsReleased, IsGranted
<1>8. Control'
  BY <1>1, <1>7 DEF IInv, Control, initialised
<1>9. \E P \in SUBSET FreeBlocks(mem, B) : Passed(P)'
  <2>1. PICK P \in SUBSET FreeBlocks(mem, B) : Passed(P)
    BY <1>2
  <2>2. Block_size(mem, bp) < adjust(req.size)
    BY DEF find_fit_next, Block_size
  <2>3. PICK Q \in SUBSET FreeBlocks(mem, B) : Q = P \union {bp}
    BY <1>1, <1>2
  <2>4. Passed(Q)'
    BY <1>1, <2>1, <2>2, <2>3 DEF Passed
  <2> QED BY <2>4
<1>10. Taken(mem', B) \subseteq Ours'
  BY <1>1, <1>2, <1>7 DEF Ours, Client
<1>11. HeldHeap(B)'
  BY <1>1, <1>2, <1>3, <1>7, <1>9, <1>10 DEF HeldHeap
<1> QED BY <1>5, <1>6, <1>8, <1>11 DEF IInv, HeapInv

(* find_fit finds a block that is large enough, and place hands it out.    *)
LEMMA FindFitHitStep ==
  ASSUME IInv, find_fit_hit, UNCHANGED drvvars
  PROVE  IInv'
<1>1. /\ pc = "find_fit" /\ bp # NULL /\ brk' = brk /\ malloc_returns(bp)
      /\ mem' = place(mem, bp, adjust(req.size))
      /\ GET_SIZE(mem, HDRP(bp)) >= adjust(req.size)
  BY DEF find_fit_hit
<1>2. PICK B : /\ Good(mem, brk, B)
               /\ \A i \in ranges : /\ Owns(mem, B, blocks[i], block_sizes[i])
                                    /\ Filled(mem, i, blocks[i], block_sizes[i])
               /\ Taken(mem, B) \subseteq Client(ranges)
               /\ bp \in FreeBlocks(mem, B) \union {NULL}
  BY <1>1, FindFitFacts
<1>3. adjust(req.size) \in Nat /\ adjust(req.size) % 2 = 0 /\ adjust(req.size) >= 4
  BY <1>1, FindFitFacts, SizeFacts
<1>4. bp \in FreeBlocks(mem, B) /\ Block_size(mem, bp) >= adjust(req.size)
  BY <1>1, <1>2 DEF Block_size
<1>5. Placed(mem, brk, B, mem', bp, adjust(req.size))
  BY <1>1, <1>2, <1>3, <1>4, PlaceGood
<1>6. PICK C : /\ Good(mem', brk, C) /\ Keeps(mem, B, mem', C)
               /\ Taken(mem', C) \subseteq Taken(mem, B) \union {bp}
               /\ bp \in C /\ Allocated(mem', bp) /\ Block_size(mem', bp) >= adjust(req.size)
  BY <1>5 DEF Placed
<1>7. bp # heap_listp /\ \A i \in ranges : blocks[i] # bp
  BY <1>2, <1>4, FreeIsNoOnes
<1>8. brk \in HeapBase .. (HeapBase + MAX_HEAP) /\ brk # HeapBase
  BY <1>1 DEF IInv, TypeOK, Control, initialised
<1> QED BY <1>1, <1>2, <1>6, <1>7, <1>8, MallocReturns

(* find_fit finds none: the heap grows, and the new block is handed out.   *)
LEMMA GrowStep ==
  ASSUME IInv, find_fit_miss_grow, UNCHANGED drvvars
  PROVE  IInv'
<1> DEFINE g == extend_heap(mem, brk, extendsize)
<1>1. /\ pc = "find_fit" /\ bp = NULL /\ brk' = brk + extendsize
      /\ mem_sbrk_ok(brk, extendsize) /\ malloc_returns(g.bp)
      /\ mem' = place(g.mem, g.bp, adjust(req.size))
  BY DEF find_fit_miss_grow
<1>2. PICK B : /\ Good(mem, brk, B)
               /\ \A i \in ranges : /\ Owns(mem, B, blocks[i], block_sizes[i])
                                    /\ Filled(mem, i, blocks[i], block_sizes[i])
               /\ Taken(mem, B) \subseteq Client(ranges)
  BY <1>1, FindFitFacts
<1>3. adjust(req.size) \in Nat /\ adjust(req.size) % 2 = 0 /\ adjust(req.size) >= 4
  BY <1>1, FindFitFacts, SizeFacts
<1>4. /\ extendsize \in Nat /\ extendsize >= 4 /\ extendsize >= adjust(req.size)
      /\ extend_size(extendsize) = extendsize
  BY <1>3, Defs DEF extendsize, extend_size, MAX
<1>5. /\ brk \in HeapBase .. (HeapBase + MAX_HEAP) /\ brk # HeapBase
      /\ brk + extendsize <= HeapBase + MAX_HEAP
      /\ brk + extendsize \in HeapBase .. (HeapBase + MAX_HEAP) /\ brk + extendsize # HeapBase
  <2>1. TypeOK /\ Control /\ brk + extendsize <= HeapBase + MAX_HEAP
    BY <1>1 DEF IInv, mem_sbrk_ok
  <2>2. brk \in HeapBase .. (HeapBase + MAX_HEAP)
    BY <2>1 DEF TypeOK
  <2>3. brk # HeapBase
    BY <2>1, <1>1 DEF Control, initialised
  <2> QED BY <2>1, <2>2, <2>3, <1>4, Defs
<1>6. PICK D : /\ Good(g.mem, brk + extendsize, D) /\ Keeps(mem, B, g.mem, D)
               /\ Taken(g.mem, D) \subseteq Taken(mem, B)
               /\ g.bp \in FreeBlocks(g.mem, D) /\ Block_size(g.mem, g.bp) >= extendsize
  BY <1>2, <1>4, <1>5, ExtendGood
<1> HIDE DEF g
<1>7. /\ g.bp # heap_listp /\ g.bp # NULL /\ g.bp \in D
      /\ \A p, s : Owns(g.mem, D, p, s) => p # g.bp
  BY <1>6, FreeIsNoOnes
<1>8. Block_size(g.mem, g.bp) >= adjust(req.size)
  <2>1. Block_size(g.mem, g.bp) \in Int
    <3>1. PICK S, A : Pieces(g.mem, brk + extendsize, D, S, A)
      BY <1>6, GoodElim
    <3>2. Layout(brk + extendsize, D, S) /\ Block_size(g.mem, g.bp) = S[g.bp]
      BY <1>7, <3>1, PiecesFacts, GoodIntro
    <3> QED BY <1>7, <3>2, LayoutFacts
  <2> QED BY <2>1, <1>3, <1>4, <1>6
<1>9. Placed(g.mem, brk', D, mem', g.bp, adjust(req.size))
  BY <1>1, <1>3, <1>6, <1>8, PlaceGood
<1>10. PICK C : /\ Good(mem', brk', C) /\ Keeps(g.mem, D, mem', C)
                /\ Taken(mem', C) \subseteq Taken(g.mem, D) \union {g.bp}
                /\ g.bp \in C /\ Allocated(mem', g.bp)
                /\ Block_size(mem', g.bp) >= adjust(req.size)
  BY <1>9 DEF Placed
<1>11. Keeps(mem, B, mem', C)
  BY <1>6, <1>10, KeepsTrans
<1>12. \A i \in ranges : blocks[i] # g.bp
  <2>1. ASSUME NEW i \in ranges PROVE Owns(g.mem, D, blocks[i], block_sizes[i])
    <3>1. blocks[i] \in B /\ block_sizes[i] \in Nat
      BY <1>2, SizesNat DEF Owns, IInv, TypeOK
    <3> QED BY <1>2, <1>6, <3>1, KeptPayload
  <2> QED BY <2>1, <1>7
<1>13. Taken(mem', C) \subseteq Taken(mem, B) \union {g.bp}
  BY <1>6, <1>10
<1> QED BY <1>1, <1>2, <1>5, <1>7, <1>10, <1>11, <1>12, <1>13, MallocReturns

(* find_fit finds none and mem_sbrk fails: mm_malloc returns NULL.         *)
LEMMA MissFailStep ==
  ASSUME IInv, find_fit_miss_fail, UNCHANGED drvvars
  PROVE  IInv'
<1>1. /\ pc = "find_fit" /\ pc' = "ret" /\ bp' = NULL
      /\ mem' = mem /\ brk' = brk /\ req' = req
      /\ blocks' = blocks /\ block_sizes' = block_sizes /\ ranges' = ranges /\ index' = index
      /\ errors' = errors /\ running' = running /\ opnum' = opnum /\ tracenum' = tracenum
  BY DEF find_fit_miss_fail, malloc_returns, drvvars
<1>2. PICK B : /\ Good(mem, brk, B)
               /\ \A i \in ranges : /\ Owns(mem, B, blocks[i], block_sizes[i])
                                    /\ Filled(mem, i, blocks[i], block_sizes[i])
               /\ Taken(mem, B) \subseteq Client(ranges)
  BY <1>1, FindFitFacts
<1>3. req.size \in Nat /\ req.size > 0
  BY <1>1, FindFitFacts
<1>4. TypeOK'
  BY <1>1 DEF IInv, TypeOK, Pointer
<1>5. DriverSatisfied' /\ Ids'
  BY <1>1 DEF IInv, DriverSatisfied, Ids
<1>6. Live = ranges /\ Live' = ranges /\ ~IsGranted'
  BY <1>1, <1>3 DEF Live, IsReleased, IsGranted
<1>7. Control'
  BY <1>1, <1>3, <1>6 DEF IInv, Control, initialised
<1>8. HeldHeap(B)'
  BY <1>1, <1>2, <1>6 DEF HeldHeap, Ours, Client
<1> QED BY <1>4, <1>5, <1>7, <1>8 DEF IInv, HeapInv

----------------------------------------------------------------------------
(* Payloads: what the client and memcpy write.                             *)

(* memcpy of n words whose source and destination are in the heap: what it *)
(* writes, and that it writes nothing else.                                *)
LEMMA MemcpyFacts ==
  ASSUME NEW m \in Memory, NEW dst \in Int, NEW src \in Int, NEW n \in Nat,
         \A k \in 0 .. (n - 1) : src + k \in Addr /\ dst + k \in Addr
  PROVE  /\ memcpy(m, dst, src, n) \in Memory
         /\ Outside(m, memcpy(m, dst, src, n), dst, dst + n - 1)
         /\ \A k \in 0 .. (n - 1) : memcpy(m, dst, src, n)[dst + k] = m[src + k]
<1> DEFINE w == memcpy(m, dst, src, n)
<1>1. w = [a \in Addr |-> IF a \in dst .. (dst + n - 1) THEN m[src + (a - dst)] ELSE m[a]]
  BY DEF memcpy, Memory
<1>2. ASSUME NEW a \in Addr, a \in dst .. (dst + n - 1) PROVE src + (a - dst) \in Addr
  <2>1. a - dst \in 0 .. (n - 1)
    BY <1>2
  <2> QED BY <2>1
<1>3. w \in Memory
  BY <1>1, <1>2 DEF Memory
<1>4. Outside(m, w, dst, dst + n - 1)
  BY <1>1, Defs DEF Outside, Addr
<1>5. ASSUME NEW k \in 0 .. (n - 1) PROVE w[dst + k] = m[src + k]
  <2>1. dst + k \in dst .. (dst + n - 1) /\ dst + k \in Addr /\ src + ((dst + k) - dst) = src + k
    OBVIOUS
  <2> QED BY <1>1, <2>1
<1> QED BY <1>3, <1>4, <1>5

(* randomize_block fills the payload it is given and nothing else.         *)
LEMMA RandomizeFacts ==
  ASSUME NEW m \in Memory, NEW i \in Index, NEW lo \in Int, NEW size \in Nat,
         payload_words(size) <= MAX_HEAP,
         \A a \in lo .. (lo + payload_words(size) - 1) : a \in Addr
  PROVE  /\ randomize_block(m, i, lo, size) \in Memory
         /\ Outside(m, randomize_block(m, i, lo, size), lo, lo + payload_words(size) - 1)
         /\ Filled(randomize_block(m, i, lo, size), i, lo, size)
<1> DEFINE w == randomize_block(m, i, lo, size)
<1> DEFINE n == payload_words(size)
<1>1. w = [a \in Addr |-> IF a \in lo .. (lo + n - 1) THEN random_data[i][a - lo] ELSE m[a]]
  BY DEF randomize_block, Memory
<1>2. n \in Nat /\ n <= MAX_HEAP /\ MAX_HEAP \in Nat
  BY SizeFacts, Defs
<1> HIDE DEF n
<1>3. ASSUME NEW a \in lo .. (lo + n - 1) PROVE random_data[i][a - lo] \in Word
  <2>1. a - lo \in 0 .. (MAX_HEAP - 1)
    BY <1>2
  <2>2. random_data[i] \in [0 .. (MAX_HEAP - 1) -> Word]
    BY DriverAssumption
  <2> QED BY <2>1, <2>2
<1>4. w \in Memory
  BY <1>1, <1>3 DEF Memory
<1>5. Outside(m, w, lo, lo + n - 1)
  BY <1>1, <1>2, Defs DEF Outside, Addr
<1>6. ASSUME NEW k \in 0 .. (n - 1) PROVE w[lo + k] = random_data[i][k]
  <2>1. lo + k \in lo .. (lo + n - 1) /\ (lo + k) - lo = k
    BY <1>2
  <2>2. lo + k \in Addr
    BY <2>1 DEF n
  <2> QED BY <1>1, <2>1, <2>2
<1> QED BY <1>4, <1>5, <1>6 DEF Filled, n

(* What the client holds stays its own while D is kept.                    *)
LEMMA HeldKept ==
  ASSUME NEW m, NEW top, NEW B, Good(m, top, B), NEW n, NEW C, NEW D,
         D \subseteq B, Keeps(m, D, n, C),
         NEW p \in D, NEW size \in Nat, NEW i,
         Owns(m, B, p, size), Filled(m, i, p, size)
  PROVE  Owns(n, C, p, size) /\ Filled(n, i, p, size)
BY KeptPayload DEF Filled

(* Filling one's own payload disturbs no other block.                      *)
LEMMA FillGood ==
  ASSUME NEW m, NEW top, NEW B, Good(m, top, B), NEW i \in Index,
         NEW p, NEW size \in Nat, Owns(m, B, p, size)
  PROVE  LET n == randomize_block(m, i, p, size)
         IN  /\ Good(n, top, B) /\ Keeps(m, B \ {p}, n, B)
             /\ Taken(n, B) = Taken(m, B)
             /\ Owns(n, B, p, size) /\ Filled(n, i, p, size)
<1> DEFINE n == randomize_block(m, i, p, size)
<1>1. m \in Memory /\ top \in Int /\ top <= HeapBase + MAX_HEAP
  BY DEF Good
<1>2. /\ p \in Int /\ p >= HeapBase /\ p + payload_words(size) + 2 <= top
      /\ \A a \in p .. (p + payload_words(size) - 1) : a \in Addr
      /\ Block_size(m, p) \in Int
  BY OwnedBlock
<1>3. payload_words(size) \in Nat
  BY SizeFacts
<1>4. payload_words(size) <= MAX_HEAP
  BY <1>1, <1>2, <1>3, Defs
<1>5. n \in Memory /\ Outside(m, n, p, p + payload_words(size) - 1) /\ Filled(n, i, p, size)
  BY <1>1, <1>2, <1>4, RandomizeFacts
<1> HIDE DEF n
<1>6. p \in B /\ p # heap_listp /\ Allocated(m, p) /\ Block_size(m, p) >= payload_words(size) + 2
  BY DEF Owns
<1>7. Outside(m, n, p, p + Block_size(m, p) - 3)
  <2>1. \A a \in Int : a > p + Block_size(m, p) - 3 => a > p + payload_words(size) - 1
    BY <1>2, <1>3, <1>6
  <2> QED BY <1>5, <2>1, Defs DEF Outside, Addr
<1>8. /\ Good(n, top, B) /\ Keeps(m, B \ {p}, n, B)
      /\ Allocated(n, p) /\ Block_size(n, p) = Block_size(m, p)
      /\ \A q \in B : Allocated(n, q) <=> Allocated(m, q)
  <2>1. n \in Memory
    BY <1>5
  <2>2. p \in B /\ Allocated(m, p)
    BY <1>6
  <2> QED BY <1>7, <2>1, <2>2, PayloadGood, SMTT(60)
<1>9. Taken(n, B) = Taken(m, B)
  BY <1>8 DEF Taken
<1> QED BY <1>5, <1>6, <1>8, <1>9 DEF Owns, n

----------------------------------------------------------------------------
(* mm_realloc's copy into the new block: only the new block's payload is   *)
(* written, and the data kept by the smaller of the two sizes arrives.     *)
LEMMA CopyGood ==
  ASSUME NEW B, Good(mem, brk, B), pc = "copy", NEW i, NEW kept \in Nat,
         NEW old \in Nat, req.size \in Nat, req.ptr # bp, kept <= req.size, kept <= old,
         Owns(mem, B, req.ptr, old), Filled(mem, i, req.ptr, old),
         Owns(mem, B, bp, req.size)
  PROVE  LET m == memcpy(mem, bp, req.ptr, copy_words)
         IN  /\ Good(m, brk, B) /\ Keeps(mem, B \ {bp}, m, B)
             /\ Taken(m, B) = Taken(mem, B)
             /\ Owns(m, B, bp, req.size) /\ Filled(m, i, bp, kept)
<1> DEFINE p == req.ptr
<1> DEFINE size == req.size
<1> DEFINE n == copy_words
<1> DEFINE m == memcpy(mem, bp, p, n)
<1> DEFINE S == Block_size(mem, p)
<1>1. /\ payload_words(size) \in Nat /\ payload_words(old) \in Nat /\ payload_words(kept) \in Nat
      /\ payload_words(kept) <= payload_words(size) /\ payload_words(kept) <= payload_words(old)
  BY SizeFacts, SizeMonotone
<1>2. /\ p \in Int /\ p >= HeapBase /\ S \in Int /\ S >= payload_words(old) + 2
      /\ p + S <= brk
  <2>1. PICK T, A : Pieces(mem, brk, B, T, A)
    BY GoodElim
  <2>2. Layout(brk, B, T) /\ S = T[p]
    BY <2>1, PiecesFacts, GoodIntro DEF Owns
  <2>3. p + S <= brk
    BY <2>2 DEF Layout, Owns
  <2> QED BY <2>3, OwnedBlock DEF Owns
<1>3. /\ bp \in Int /\ bp >= HeapBase /\ bp + payload_words(size) + 2 <= brk
      /\ Block_size(mem, bp) \in Int /\ Block_size(mem, bp) >= payload_words(size) + 2
  BY OwnedBlock DEF Owns
<1>4. brk \in Int /\ brk <= HeapBase + MAX_HEAP /\ mem \in Memory
  BY DEF Good
<1>5. n = IF size < 4 * S THEN payload_words(size) ELSE S
  BY DEF copy_words, Block_size
<1>6. n \in Nat /\ n <= payload_words(size) /\ n <= S /\ payload_words(kept) <= n
  BY <1>1, <1>2, <1>5 DEF payload_words
<1> HIDE DEF n, S
<1>7. \A k \in 0 .. (n - 1) : p + k \in Addr /\ bp + k \in Addr
  BY <1>1, <1>2, <1>3, <1>4, <1>6, Defs DEF Addr
<1>8. m \in Memory /\ Outside(mem, m, bp, bp + n - 1)
      /\ \A k \in 0 .. (n - 1) : m[bp + k] = mem[p + k]
  <2>1. mem \in Memory /\ bp \in Int /\ p \in Int /\ n \in Nat
    BY <1>2, <1>3, <1>4, <1>6
  <2> HIDE DEF p
  <2> QED BY <1>7, <2>1, MemcpyFacts
<1> HIDE DEF m
<1>9. Outside(mem, m, bp, bp + Block_size(mem, bp) - 3)
  <2>1. \A a \in Int : a > bp + Block_size(mem, bp) - 3 => a > bp + n - 1
    BY <1>1, <1>3, <1>6
  <2> QED BY <1>8, <2>1, Defs DEF Outside, Addr
<1>10. /\ Good(m, brk, B) /\ Keeps(mem, B \ {bp}, m, B)
       /\ Allocated(m, bp) /\ Block_size(m, bp) = Block_size(mem, bp)
       /\ \A q \in B : Allocated(m, q) <=> Allocated(mem, q)
  <2>1. m \in Memory
    BY <1>8
  <2>2. bp \in B /\ Allocated(mem, bp)
    BY DEF Owns
  <2> QED BY <1>9, <2>1, <2>2, PayloadGood, SMTT(60)
<1>11. Owns(m, B, bp, req.size)
  BY <1>10 DEF Owns
<1>12. Filled(m, i, bp, kept)
  <2>1. ASSUME NEW k \in 0 .. (payload_words(kept) - 1) PROVE m[bp + k] = random_data[i][k]
    <3>1. k \in 0 .. (n - 1) /\ k \in 0 .. (payload_words(old) - 1)
      BY <1>1, <1>6
    <3> QED BY <3>1, <1>8 DEF Filled
  <2> QED BY <2>1 DEF Filled
<1>13. Taken(m, B) = Taken(mem, B)
  BY <1>10 DEF Taken
<1> QED BY <1>10, <1>11, <1>12, <1>13 DEF m, n

(* mm_realloc copies to the new block and frees the old one.               *)
LEMMA ReallocCopyStep ==
  ASSUME IInv, realloc_copy_free, UNCHANGED drvvars
  PROVE  IInv'
<1> DEFINE m == memcpy(mem, bp, req.ptr, copy_words)
<1>1. /\ pc = "copy" /\ pc' = "ret" /\ bp' = bp /\ brk' = brk /\ req' = req
      /\ mem' = mm_free(m, req.ptr)
      /\ blocks' = blocks /\ block_sizes' = block_sizes /\ ranges' = ranges /\ index' = index
      /\ errors' = errors /\ running' = running /\ opnum' = opnum /\ tracenum' = tracenum
  BY DEF realloc_copy_free, drvvars
<1>2. /\ index \in ranges /\ req.op = "realloc" /\ bp # NULL /\ req.ptr = blocks[index]
      /\ running /\ initialised /\ index \in Index /\ req.size > 0
      /\ \A j \in Live : blocks[j] # bp
  BY <1>1 DEF IInv, Control, IsGranted
<1>3. Live = ranges /\ Live' = ranges \ {index} /\ IsGranted /\ IsGranted'
  BY <1>1, <1>2 DEF Live, IsReleased, IsGranted
<1>4. PICK B : HeldHeap(B)
  BY <1>2 DEF IInv, HeapInv
<1>5. req.size \in Nat /\ \A i \in ranges : block_sizes[i] \in Nat
  BY SizesNat DEF IInv, TypeOK
<1>6. /\ Good(mem, brk, B) /\ Owns(mem, B, bp, req.size)
      /\ Taken(mem, B) \subseteq Client(ranges) \union {bp}
      /\ \A i \in ranges : Owns(mem, B, blocks[i], block_sizes[i])
                           /\ Filled(mem, i, blocks[i], block_sizes[i])
  BY <1>3, <1>4 DEF HeldHeap, Ours
<1>7. kept_size' = kept_size /\ kept_size \in Nat
      /\ kept_size <= req.size /\ kept_size <= block_sizes[index]
  BY <1>1, <1>2, <1>5 DEF kept_size
<1>8. /\ Good(m, brk, B) /\ Keeps(mem, B \ {bp}, m, B)
      /\ Taken(m, B) = Taken(mem, B)
      /\ Owns(m, B, bp, req.size) /\ Filled(m, index, bp, kept_size)
  BY <1>1, <1>2, <1>3, <1>5, <1>6, <1>7, CopyGood
<1> HIDE DEF m
<1>9. ASSUME NEW i \in ranges
      PROVE  Owns(m, B, blocks[i], block_sizes[i]) /\ Filled(m, i, blocks[i], block_sizes[i])
  <2>1. blocks[i] \in B \ {bp}
    BY <1>2, <1>3, <1>6 DEF Owns
  <2> QED BY <1>5, <1>6, <1>8, <2>1, HeldKept
<1>10. PICK C : /\ Good(mem', brk, C) /\ Keeps(m, B \ {req.ptr}, mem', C)
                /\ Taken(mem', C) \subseteq Taken(m, B) \ {req.ptr}
  <2>1. Owns(m, B, req.ptr, block_sizes[index])
    BY <1>2, <1>9
  <2>2. req.ptr \in B /\ req.ptr # heap_listp /\ Allocated(m, req.ptr)
    BY <2>1 DEF Owns
  <2>3. Good(m, brk, B)
    BY <1>8
  <2>4. \E C : /\ Good(mm_free(m, req.ptr), brk, C)
               /\ Keeps(m, B \ {req.ptr}, mm_free(m, req.ptr), C)
               /\ Taken(mm_free(m, req.ptr), C) \subseteq Taken(m, B) \ {req.ptr}
    BY <2>2, <2>3, FreeGood
  <2> QED BY <1>1, <2>4
<1>11. Owns(mem', C, bp, req.size) /\ Filled(mem', index, bp, kept_size)
  <2>1. bp \in B \ {req.ptr}
    BY <1>2, <1>3, <1>8 DEF Owns
  <2>2. /\ Owns(mem', C, bp, req.size)
        /\ \A k \in 0 .. (payload_words(req.size) - 1) : mem'[bp + k] = m[bp + k]
    BY <1>5, <1>8, <1>10, <2>1, KeptPayload
  <2>3. payload_words(kept_size) \in Nat /\ payload_words(req.size) \in Nat
        /\ payload_words(kept_size) <= payload_words(req.size)
    BY <1>5, <1>7, SizeFacts, SizeMonotone
  <2>4. \A k \in 0 .. (payload_words(kept_size) - 1) : k \in 0 .. (payload_words(req.size) - 1)
    BY <2>3
  <2> QED BY <2>2, <2>4, <1>8 DEF Filled
<1>12. ASSUME NEW i \in ranges \ {index}
       PROVE  Owns(mem', C, blocks[i], block_sizes[i]) /\ Filled(mem', i, blocks[i], block_sizes[i])
  <2>1. blocks[i] \in B \ {req.ptr}
    BY <1>2, <1>9 DEF IInv, Ids, Owns
  <2> QED BY <1>5, <1>8, <1>9, <1>10, <2>1, HeldKept
<1>13. TypeOK'
  <2>1. mem' \in [Addr -> Word]
    BY <1>10 DEF Good, Memory
  <2> QED BY <1>1, <2>1 DEF IInv, TypeOK
<1>14. DriverSatisfied' /\ Ids'
  BY <1>1 DEF IInv, DriverSatisfied, Ids
<1>15. Control'
  <2>1. IsGranted' => \A j \in Live' : blocks'[j] # bp'
    BY <1>1, <1>2, <1>3
  <2> QED BY <1>1, <1>2, <2>1 DEF IInv, Control, initialised
<1>16. Taken(mem', C) \subseteq Ours'
  <2>1. Ours' = {heap_listp} \union {blocks[i] : i \in ranges \ {index}} \union {bp}
    BY <1>1, <1>3 DEF Ours, Client
  <2>2. Taken(mem', C) \subseteq (Client(ranges) \union {bp}) \ {blocks[index]}
    BY <1>2, <1>6, <1>8, <1>10
  <2> QED BY <2>1, <2>2 DEF Client
<1>17. HeldHeap(C)'
  BY <1>1, <1>3, <1>7, <1>10, <1>11, <1>12, <1>16 DEF HeldHeap
<1> QED BY <1>13, <1>14, <1>15, <1>17 DEF IInv, HeapInv

----------------------------------------------------------------------------
(* The requests.                                                           *)

(* The counter of requests stays within a trace.                           *)
LEMMA OpCounted ==
  ASSUME TypeOK, opnum < num_ops, opnum' = opnum + 1
  PROVE  opnum' \in 0 .. num_ops
<1>1. num_ops \in Nat
  BY DriverAssumption
<1>2. opnum \in 0 .. num_ops
  BY DEF TypeOK
<1> QED BY <1>1, <1>2

(* What is known between requests.                                         *)
LEMMA IdleFacts ==
  ASSUME IInv, pc = "idle", initialised
  PROVE  /\ Live = ranges /\ ~IsGranted
         /\ \E B : /\ Good(mem, brk, B)
                   /\ \A i \in ranges : /\ Owns(mem, B, blocks[i], block_sizes[i])
                                        /\ Filled(mem, i, blocks[i], block_sizes[i])
                   /\ Taken(mem, B) \subseteq Client(ranges)
<1>1. PICK B : HeldHeap(B)
  BY DEF IInv, HeapInv
<1>2. Live = ranges /\ ~IsGranted /\ Ours = Client(ranges)
  BY DEF Live, IsReleased, IsGranted, Ours
<1> QED BY <1>1, <1>2 DEF HeldHeap

(* check_index finds the data where the driver put it.                     *)
LEMMA CheckedFine ==
  ASSUME IInv, pc = "idle", running, NEW i \in Index, i \in ranges \/ blocks[i] = NULL
  PROVE  check_index(i, blocks[i], block_sizes[i]) = {}
<1>1. initialised
  BY DEF IInv, Control
<1>2. CASE i \in ranges
  <2>1. PICK B : Filled(mem, i, blocks[i], block_sizes[i])
    BY <1>1, <1>2, IdleFacts
  <2>2. ~garbled(i, blocks[i], block_sizes[i])
    BY <2>1 DEF Filled, garbled
  <2> QED BY <2>2 DEF check_index
<1>3. CASE blocks[i] = NULL
  <2>1. payload_words(block_sizes[i]) = 0
    BY <1>3, SizeFacts DEF IInv, Ids
  <2>2. ~garbled(i, blocks[i], block_sizes[i])
    BY <2>1 DEF garbled
  <2> QED BY <2>2 DEF check_index
<1> QED BY <1>2, <1>3

(* A request for memory enters find_fit at the head of the list.           *)
LEMMA EntryStep ==
  ASSUME IInv, next_op, NEW i \in Index, NEW size \in Sizes, size > 0,
         NEW op \in {"malloc", "realloc"}, NEW p,
         op = "malloc" => i \notin ranges /\ p = NULL,
         op = "realloc" => p = blocks[i] /\ (i \in ranges \/ blocks[i] = NULL),
         mm_malloc_entry(op, p, size), index' = i, errors' = errors, ranges' = ranges
  PROVE  IInv'
<1>1. size \in Nat /\ size # 0
  BY SizesNat
<1>2. /\ pc = "idle" /\ pc' = "find_fit" /\ bp' = GET(mem, free_listp)
      /\ req' = [op |-> op, ptr |-> p, size |-> size]
      /\ mem' = mem /\ brk' = brk
  BY <1>1 DEF mm_malloc_entry
<1>3. /\ blocks' = blocks /\ block_sizes' = block_sizes /\ running' = running
      /\ tracenum' = tracenum /\ running /\ opnum < num_ops /\ opnum' = opnum + 1
  BY DEF next_op
<1>4. initialised
  BY <1>3 DEF IInv, Control
<1>5. PICK B : /\ Good(mem, brk, B)
               /\ \A j \in ranges : /\ Owns(mem, B, blocks[j], block_sizes[j])
                                    /\ Filled(mem, j, blocks[j], block_sizes[j])
               /\ Taken(mem, B) \subseteq Client(ranges)
  BY <1>2, <1>4, IdleFacts
<1>6. bp' \in FreeBlocks(mem, B) \union {NULL}
  <2>1. ListOK(mem, FreeBlocks(mem, B))
    BY <1>5 DEF Good, HeapOK
  <2> QED BY <1>2, <2>1 DEF ListOK, Linked
<1>7. TypeOK'
  <2>1. bp' \in Pointer
    BY <1>5, <1>6, FreeIsNoOnes DEF Pointer
  <2>2. p \in Pointer
    BY DEF IInv, TypeOK, Pointer
  <2>3. req' \in [op : {"none", "malloc", "realloc"}, ptr : Pointer, size : Sizes \union {0}]
    BY <1>2, <2>2
  <2>4. opnum' \in 0 .. num_ops
    BY <1>3, OpCounted DEF IInv
  <2> QED BY <1>2, <1>3, <2>1, <2>3, <2>4 DEF IInv, TypeOK
<1>8. DriverSatisfied' /\ Ids'
  BY <1>3 DEF IInv, DriverSatisfied, Ids
<1>9. Live' = ranges /\ ~IsGranted'
  BY <1>2 DEF Live, IsReleased, IsGranted
<1>10. req'.op = op /\ req'.ptr = p /\ req'.size = size
  BY <1>2
<1>11. Control'
  BY <1>1, <1>2, <1>3, <1>4, <1>9, <1>10 DEF IInv, Control, initialised
<1>12. Passed({})'
  BY <1>2 DEF Passed
<1>13. HeldHeap(B)'
  <2>1. Ours' = Client(ranges)
    BY <1>3, <1>9 DEF Ours, Client
  <2>2. {} \in SUBSET FreeBlocks(mem', B)
    OBVIOUS
  <2> QED BY <1>2, <1>3, <1>5, <1>6, <1>9, <1>12, <2>1, <2>2 DEF HeldHeap
<1> QED BY <1>7, <1>8, <1>11, <1>13 DEF IInv, HeapInv

(* The driver asks mm_malloc for a block.                                  *)
LEMMA AllocStep ==
  ASSUME IInv, NEW i \in Index, NEW size \in Sizes, Alloc(i, size)
  PROVE  IInv'
<1>1. /\ next_op /\ i \notin ranges /\ size > 0 /\ mm_malloc_entry("malloc", NULL, size)
      /\ index' = i /\ errors' = errors /\ ranges' = ranges
  BY DEF Alloc, mm_malloc
<1> QED BY <1>1, EntryStep

(* Freeing id i's block leaves every other id's block as it is.            *)
LEMMA FreeHeld ==
  ASSUME IInv, pc = "idle", running, NEW i \in ranges
  PROVE  \E C : /\ Good(mm_free(mem, blocks[i]), brk, C)
                /\ \A j \in ranges \ {i} :
                     /\ Owns(mm_free(mem, blocks[i]), C, blocks[j], block_sizes[j])
                     /\ Filled(mm_free(mem, blocks[i]), j, blocks[j], block_sizes[j])
                /\ Taken(mm_free(mem, blocks[i]), C) \subseteq Client(ranges \ {i})
<1> DEFINE n == mm_free(mem, blocks[i])
<1>1. initialised
  BY DEF IInv, Control
<1>2. PICK B : /\ Good(mem, brk, B)
               /\ \A j \in ranges : /\ Owns(mem, B, blocks[j], block_sizes[j])
                                    /\ Filled(mem, j, blocks[j], block_sizes[j])
               /\ Taken(mem, B) \subseteq Client(ranges)
  BY <1>1, IdleFacts
<1>3. PICK C : /\ Good(n, brk, C) /\ Keeps(mem, B \ {blocks[i]}, n, C)
               /\ Taken(n, C) \subseteq Taken(mem, B) \ {blocks[i]}
  BY <1>2, FreeGood DEF Owns
<1> HIDE DEF n
<1>4. ASSUME NEW j \in ranges \ {i}
      PROVE  Owns(n, C, blocks[j], block_sizes[j]) /\ Filled(n, j, blocks[j], block_sizes[j])
  <2>1. blocks[j] \in B \ {blocks[i]}
    BY <1>2 DEF IInv, Ids, Owns
  <2>2. block_sizes[j] \in Nat
    BY SizesNat DEF IInv, TypeOK
  <2> QED BY <1>2, <1>3, <2>1, <2>2, HeldKept
<1>5. Taken(n, C) \subseteq Client(ranges \ {i})
  BY <1>2, <1>3 DEF Client
<1>6. \E D : /\ Good(n, brk, D)
             /\ \A j \in ranges \ {i} : /\ Owns(n, D, blocks[j], block_sizes[j])
                                        /\ Filled(n, j, blocks[j], block_sizes[j])
             /\ Taken(n, D) \subseteq Client(ranges \ {i})
  BY <1>3, <1>4, <1>5
<1> QED BY <1>6 DEF n

(* The range removed for id i's pointer is i's and no other's.             *)
LEMMA RangeOfId ==
  ASSUME IInv, NEW i \in Index, i \in ranges \/ blocks[i] = NULL
  PROVE  remove_range(ranges, blocks[i]) = ranges \ {i}
BY DEF IInv, Ids, remove_range

(* The driver checks an id's payload and frees it.                         *)
LEMMA FreeStep ==
  ASSUME IInv, NEW i \in Index, Free(i)
  PROVE  IInv'
<1>1. /\ pc = "idle" /\ running /\ i \in ranges
      /\ blocks' = blocks /\ block_sizes' = block_sizes /\ running' = running
      /\ tracenum' = tracenum /\ opnum < num_ops /\ opnum' = opnum + 1
      /\ brk' = brk /\ pc' = pc /\ req' = req /\ bp' = bp /\ index' = index
      /\ mem' = mm_free(mem, blocks[i])
  BY DEF Free, next_op
<1>2. errors' = errors
  BY <1>1, CheckedFine DEF Free
<1>3. ranges' = ranges \ {i}
  BY <1>1, RangeOfId DEF Free
<1>4. PICK C : /\ Good(mem', brk, C)
               /\ \A j \in ranges \ {i} : /\ Owns(mem', C, blocks[j], block_sizes[j])
                                          /\ Filled(mem', j, blocks[j], block_sizes[j])
               /\ Taken(mem', C) \subseteq Client(ranges \ {i})
  BY <1>1, FreeHeld
<1>5. TypeOK'
  <2>1. mem' \in [Addr -> Word]
    BY <1>4 DEF Good, Memory
  <2>2. opnum' \in 0 .. num_ops
    BY <1>1, OpCounted DEF IInv
  <2> QED BY <1>1, <1>2, <1>3, <2>1, <2>2 DEF IInv, TypeOK
<1>6. DriverSatisfied' /\ Ids'
  BY <1>1, <1>2, <1>3 DEF IInv, DriverSatisfied, Ids
<1>7. Live' = ranges' /\ ~IsGranted'
  BY <1>1 DEF Live, IsReleased, IsGranted
<1>8. Control'
  BY <1>1, <1>3, <1>7 DEF IInv, Control, initialised
<1>9. HeldHeap(C)'
  BY <1>1, <1>3, <1>4, <1>7 DEF HeldHeap, Ours, Client
<1> QED BY <1>5, <1>6, <1>8, <1>9 DEF IInv, HeapInv

(* free(NULL) only counts as a request.                                    *)
LEMMA FreeNullStep ==
  ASSUME IInv, FreeNull
  PROVE  IInv'
<1>1. /\ pc = "idle" /\ running /\ mem' = mem
      /\ blocks' = blocks /\ block_sizes' = block_sizes /\ running' = running
      /\ tracenum' = tracenum /\ opnum < num_ops /\ opnum' = opnum + 1
      /\ brk' = brk /\ pc' = pc /\ req' = req /\ bp' = bp /\ index' = index
      /\ ranges' = ranges /\ errors' = errors
  BY DEF FreeNull, next_op, mm_free
<1>2. opnum' \in 0 .. num_ops
  BY <1>1, OpCounted DEF IInv
<1>3. TypeOK'
  BY <1>1, <1>2 DEF IInv, TypeOK
<1>4. DriverSatisfied' /\ Ids'
  BY <1>1 DEF IInv, DriverSatisfied, Ids
<1>5. /\ Live' = Live /\ IsGranted' = IsGranted /\ initialised' = initialised
      /\ kept_size' = kept_size /\ Ours' = Ours
  BY <1>1 DEF Live, IsReleased, IsGranted, initialised, kept_size, Ours, Client
<1>6. Control'
  BY <1>1, <1>5 DEF IInv, Control
<1>7. ASSUME NEW B, HeldHeap(B) PROVE HeldHeap(B)'
  BY <1>1, <1>5, <1>7 DEF HeldHeap
<1> QED BY <1>3, <1>4, <1>5, <1>6, <1>7 DEF IInv, HeapInv

(* mm_realloc of size 0: a free, of nothing when the id has no pointer.    *)
LEMMA ReallocZeroStep ==
  ASSUME IInv, next_op, NEW i \in Index, i \in ranges \/ blocks[i] = NULL,
         pc' = "ret", req' = [op |-> "realloc", ptr |-> blocks[i], size |-> 0],
         bp' = NULL, mem' = mm_free(mem, blocks[i]), brk' = brk,
         index' = i, errors' = errors, ranges' = ranges
  PROVE  IInv'
<1>1. /\ pc = "idle" /\ running /\ blocks' = blocks /\ block_sizes' = block_sizes
      /\ running' = running /\ tracenum' = tracenum
      /\ opnum < num_ops /\ opnum' = opnum + 1
  BY DEF next_op
<1>2. initialised
  BY <1>1 DEF IInv, Control
<1>3. PICK C : /\ Good(mem', brk, C)
               /\ \A j \in ranges \ {i} : /\ Owns(mem', C, blocks[j], block_sizes[j])
                                          /\ Filled(mem', j, blocks[j], block_sizes[j])
               /\ Taken(mem', C) \subseteq Client(ranges \ {i})
  <2>1. CASE i \in ranges
    BY <1>1, <2>1, FreeHeld
  <2>2. CASE blocks[i] = NULL
    <3>1. mem' = mem
      BY <2>2 DEF mm_free
    <3>2. ranges \ {i} = ranges
      BY <2>2 DEF IInv, Ids
    <3> QED BY <1>1, <1>2, <3>1, <3>2, IdleFacts
  <2> QED BY <2>1, <2>2
<1>4. req'.op = "realloc" /\ req'.ptr = blocks[i] /\ req'.size = 0
  OBVIOUS
<1>5. Live' = ranges \ {i} /\ ~IsGranted'
  BY <1>4 DEF Live, IsReleased, IsGranted
<1>6. TypeOK'
  <2>1. mem' \in [Addr -> Word]
    BY <1>3 DEF Good, Memory
  <2>2. opnum' \in 0 .. num_ops
    BY <1>1, OpCounted DEF IInv
  <2>3. req' \in [op : {"none", "malloc", "realloc"}, ptr : Pointer, size : Sizes \union {0}]
    BY DEF IInv, TypeOK
  <2>4. bp' \in Pointer
    BY DEF Pointer
  <2> QED BY <1>1, <2>1, <2>2, <2>3, <2>4 DEF IInv, TypeOK
<1>7. DriverSatisfied' /\ Ids'
  BY <1>1 DEF IInv, DriverSatisfied, Ids
<1>8. Control'
  BY <1>1, <1>2, <1>4, <1>5 DEF IInv, Control, initialised
<1>9. HeldHeap(C)'
  BY <1>1, <1>3, <1>5 DEF HeldHeap, Ours, Client
<1> QED BY <1>6, <1>7, <1>8, <1>9 DEF IInv, HeapInv

(* The driver checks an id's payload and calls mm_realloc.                 *)
LEMMA ReallocStep ==
  ASSUME IInv, NEW i \in Index, NEW size \in Sizes, Realloc(i, size)
  PROVE  IInv'
<1>1. /\ next_op /\ (i \in ranges \/ blocks[i] = NULL) /\ mm_realloc(blocks[i], size)
      /\ index' = i /\ ranges' = ranges
  BY DEF Realloc
<1>2. errors' = errors
  <2>1. pc = "idle" /\ running
    BY <1>1 DEF next_op
  <2> QED BY <1>1, <2>1, CheckedFine DEF Realloc
<1>3. CASE size = 0
  <2>1. /\ pc' = "ret" /\ req' = [op |-> "realloc", ptr |-> blocks[i], size |-> 0]
        /\ bp' = NULL /\ mem' = mm_free(mem, blocks[i]) /\ brk' = brk
    BY <1>1, <1>3 DEF mm_realloc
  <2> QED BY <1>1, <1>2, <2>1, ReallocZeroStep
<1>4. CASE size # 0
  <2>1. size > 0 /\ mm_malloc_entry("realloc", blocks[i], size)
    BY <1>1, <1>4 DEF mm_realloc
  <2> QED BY <1>1, <1>2, <2>1, EntryStep
<1> QED BY <1>3, <1>4

----------------------------------------------------------------------------
(* The answers.                                                            *)

(* What is known at the return of a call.                                  *)
LEMMA ReturnFacts ==
  ASSUME IInv, pc = "ret"
  PROVE  /\ index \in Index /\ running /\ initialised
         /\ req.size \in Nat /\ req.size \in Sizes \union {0}
         /\ req.size = 0 => bp = NULL
         /\ \E B : /\ Good(mem, brk, B)
                   /\ \A i \in Live : /\ Owns(mem, B, blocks[i], block_sizes[i])
                                      /\ Filled(mem, i, blocks[i], block_sizes[i])
                   /\ Taken(mem, B) \subseteq Client(Live) \union (IF bp # NULL THEN {bp} ELSE {})
                   /\ bp # NULL => /\ Owns(mem, B, bp, req.size)
                                   /\ \A j \in Live : blocks[j] # bp
                   /\ req.op = "realloc" /\ bp # NULL => Filled(mem, index, bp, kept_size)
<1>1. /\ index \in Index /\ running /\ initialised
      /\ req.size = 0 => bp = NULL
      /\ bp # NULL => IsGranted /\ \A j \in Live : blocks[j] # bp
  BY DEF IInv, Control, IsGranted
<1>2. PICK B : HeldHeap(B)
  BY <1>1 DEF IInv, HeapInv
<1>3. req.size \in Nat /\ req.size \in Sizes \union {0}
  BY SizesNat DEF IInv, TypeOK
<1>4. Ours = Client(Live) \union (IF bp # NULL THEN {bp} ELSE {})
  BY DEF Ours, IsGranted
<1> QED BY <1>1, <1>2, <1>3, <1>4 DEF HeldHeap

(* The trace is given up when the heap is full; nothing else changes.      *)
LEMMA GiveUpStep ==
  ASSUME IInv, pc = "ret", bp = NULL, req.size # 0, mm_return, index' = NoIndex,
         give_up("failed"), ranges' = ranges, brk' = brk,
         opnum' = opnum, tracenum' = tracenum
  PROVE  IInv'
<1>1. /\ pc' = "idle" /\ req' = NoRequest /\ bp' = NULL
      /\ mem' = mem /\ blocks' = blocks /\ block_sizes' = block_sizes
      /\ running' = FALSE /\ errors' = errors \union {"failed"}
  BY DEF mm_return, give_up
<1>2. PICK B : /\ Good(mem, brk, B)
               /\ \A i \in Live : /\ Owns(mem, B, blocks[i], block_sizes[i])
                                  /\ Filled(mem, i, blocks[i], block_sizes[i])
               /\ Taken(mem, B) \subseteq Client(Live)
  BY ReturnFacts
<1>3. Live = ranges /\ Live' = ranges /\ ~IsGranted'
  BY <1>1 DEF Live, IsReleased, IsGranted
<1>4. TypeOK'
  <2>1. req' \in [op : {"none", "malloc", "realloc"}, ptr : Pointer, size : Sizes \union {0}]
    BY <1>1 DEF NoRequest, Pointer
  <2> QED BY <1>1, <2>1 DEF IInv, TypeOK, Pointer
<1>5. DriverSatisfied' /\ Ids'
  BY <1>1 DEF IInv, DriverSatisfied, Ids
<1>6. initialised
  BY ReturnFacts
<1>7. Control'
  BY <1>1, <1>3, <1>6 DEF Control, initialised
<1>8. HeldHeap(B)'
  BY <1>1, <1>2, <1>3 DEF HeldHeap, Ours, Client
<1> QED BY <1>4, <1>5, <1>7, <1>8 DEF IInv, HeapInv

(* The new payload is recorded and filled.                                 *)
LEMMA RememberStep ==
  ASSUME IInv, pc = "ret", bp # NULL, remember, mm_return, index' = NoIndex,
         Live = ranges \ {index}, ranges' = Live \union {index}, errors' = errors,
         brk' = brk, opnum' = opnum, tracenum' = tracenum
  PROVE  IInv'
<1>1. /\ pc' = "idle" /\ req' = NoRequest /\ bp' = NULL /\ running' = running
      /\ blocks' = [blocks EXCEPT ![index] = bp]
      /\ block_sizes' = [block_sizes EXCEPT ![index] = req.size]
      /\ mem' = randomize_block(mem, index, bp, req.size)
  BY DEF mm_return, remember
<1>2. /\ index \in Index /\ running /\ initialised
      /\ req.size \in Nat /\ req.size > 0 /\ req.size \in Sizes \union {0}
  BY ReturnFacts
<1>3. PICK B : /\ Good(mem, brk, B)
               /\ \A i \in Live : /\ Owns(mem, B, blocks[i], block_sizes[i])
                                  /\ Filled(mem, i, blocks[i], block_sizes[i])
                                  /\ blocks[i] # bp
               /\ Owns(mem, B, bp, req.size)
               /\ Taken(mem, B) \subseteq Client(Live) \union {bp}
  BY ReturnFacts
<1>4. /\ Good(mem', brk, B) /\ Keeps(mem, B \ {bp}, mem', B)
      /\ Taken(mem', B) = Taken(mem, B)
      /\ Owns(mem', B, bp, req.size) /\ Filled(mem', index, bp, req.size)
  BY <1>1, <1>2, <1>3, FillGood
<1>5. /\ blocks \in [Index -> Pointer] /\ block_sizes \in [Index -> Sizes \union {0}]
      /\ ranges \subseteq Index /\ bp \in Pointer
  BY DEF IInv, TypeOK
<1>6. /\ blocks'[index] = bp /\ block_sizes'[index] = req.size
      /\ \A i \in Index \ {index} : blocks'[i] = blocks[i] /\ block_sizes'[i] = block_sizes[i]
  BY <1>1, <1>2, <1>5
<1>7. ASSUME NEW i \in ranges'
      PROVE  /\ Owns(mem', B, blocks'[i], block_sizes'[i])
             /\ Filled(mem', i, blocks'[i], block_sizes'[i])
  <2>1. CASE i = index
    BY <1>4, <1>6, <2>1
  <2>2. CASE i # index
    <3>1. i \in Live /\ i \in Index /\ blocks'[i] = blocks[i] /\ block_sizes'[i] = block_sizes[i]
      BY <1>5, <1>6, <2>2
    <3>2. blocks[i] \in B \ {bp}
      BY <1>3, <3>1 DEF Owns
    <3>3. block_sizes[i] \in Nat
      BY <1>5, <3>1, SizesNat
    <3> QED BY <1>3, <1>4, <3>1, <3>2, <3>3, HeldKept
  <2> QED BY <2>1, <2>2
<1>8. TypeOK'
  <2>1. mem' \in [Addr -> Word]
    BY <1>4 DEF Good, Memory
  <2>2. req' \in [op : {"none", "malloc", "realloc"}, ptr : Pointer, size : Sizes \union {0}]
    BY <1>1 DEF NoRequest, Pointer
  <2>3. blocks' \in [Index -> Pointer] /\ block_sizes' \in [Index -> Sizes \union {0}]
    BY <1>1, <1>2, <1>5
  <2>4. ranges' \subseteq Index
    BY <1>2, <1>5
  <2>5. bp' \in Pointer
    BY <1>1 DEF Pointer
  <2> QED BY <1>1, <2>1, <2>2, <2>3, <2>4, <2>5 DEF IInv, TypeOK
<1>9. DriverSatisfied'
  BY DEF IInv, DriverSatisfied
<1>10. Ids'
  <2>1. ASSUME NEW i \in Index, blocks'[i] = NULL PROVE block_sizes'[i] = 0
    <3>1. i # index
      BY <1>6, <2>1
    <3> QED BY <1>6, <2>1, <3>1 DEF IInv, Ids
  <2>2. ASSUME NEW i \in ranges' PROVE blocks'[i] # NULL /\ block_sizes'[i] > 0
    <3>1. CASE i = index
      BY <1>2, <1>6, <3>1
    <3>2. CASE i # index
      BY <1>5, <1>6, <3>2 DEF IInv, Ids
    <3> QED BY <3>1, <3>2
  <2>3. ASSUME NEW i \in ranges', NEW j \in ranges', i # j PROVE blocks'[i] # blocks'[j]
    <3>1. \A k \in ranges' : k # index => k \in Live /\ k \in ranges /\ blocks'[k] = blocks[k]
      BY <1>5, <1>6
    <3>2. \A k \in Live : blocks[k] # bp
      BY <1>3
    <3>3. \A k, l \in ranges : k # l => blocks[k] # blocks[l]
      BY DEF IInv, Ids
    <3> QED BY <2>3, <1>6, <3>1, <3>2, <3>3
  <2> QED BY <2>1, <2>2, <2>3 DEF Ids
<1>11. Live' = ranges' /\ ~IsGranted'
  BY <1>1 DEF Live, IsReleased, IsGranted
<1>12. Control'
  BY <1>1, <1>2, <1>11 DEF Control, initialised
<1>13. Taken(mem', B) \subseteq Ours'
  <2>1. Ours' = {heap_listp} \union {blocks'[i] : i \in ranges'}
    BY <1>11 DEF Ours, Client
  <2>2. bp \in {blocks'[i] : i \in ranges'}
    BY <1>6
  <2>3. \A i \in Live : i \in ranges' /\ blocks'[i] = blocks[i]
    BY <1>5, <1>6
  <2>4. {blocks[i] : i \in Live} \subseteq {blocks'[i] : i \in ranges'}
    BY <2>3
  <2> QED BY <1>3, <1>4, <2>1, <2>2, <2>4 DEF Client
<1>14. HeldHeap(B)'
  BY <1>1, <1>4, <1>7, <1>11, <1>13 DEF HeldHeap
<1> QED BY <1>8, <1>9, <1>10, <1>12, <1>14 DEF IInv, HeapInv

(* The driver accepts the range of every payload it is given.              *)
LEMMA GrantAccepted ==
  ASSUME IInv, pc = "ret", bp # NULL, NEW rs, rs = Live
  PROVE  add_range_ok(rs, bp, req.size)
<1>1. PICK B : /\ Good(mem, brk, B)
               /\ \A i \in Live : Owns(mem, B, blocks[i], block_sizes[i]) /\ blocks[i] # bp
               /\ Owns(mem, B, bp, req.size)
  BY ReturnFacts
<1>2. /\ rs \subseteq Index /\ block_sizes \in [Index -> Nat] /\ brk \in Int
  <2>1. TypeOK
    BY DEF IInv
  <2>2. rs \subseteq Index
    BY <2>1 DEF TypeOK, Live
  <2>3. block_sizes \in [Index -> Nat]
    BY <2>1, SizesNat DEF TypeOK
  <2>4. brk \in Int
    BY <1>1 DEF Good
  <2> QED BY <2>2, <2>3, <2>4
<1>3. req.size \in Nat /\ req.size > 0
  BY ReturnFacts
<1> QED BY <1>1, <1>2, <1>3, RangeAccepted

(* The driver takes the answer of mm_malloc.                               *)
LEMMA AllocReturnStep ==
  ASSUME IInv, AllocReturn
  PROVE  IInv'
<1>1. /\ pc = "ret" /\ req.op = "malloc" /\ mm_return /\ index' = NoIndex
      /\ brk' = brk /\ opnum' = opnum /\ tracenum' = tracenum
  BY DEF AllocReturn
<1>2. index \notin ranges /\ req.size # 0 /\ Live = ranges
  BY <1>1, ReturnFacts DEF IInv, Control, Live, IsReleased
<1>3. CASE bp = NULL
  <2>1. alloc_verdict(ranges) = "failed"
    BY <1>3 DEF alloc_verdict
  <2>2. ranges' = ranges /\ give_up("failed")
    BY <2>1 DEF AllocReturn
  <2> QED BY <1>1, <1>2, <1>3, <2>2, GiveUpStep
<1>4. CASE bp # NULL
  <2>1. add_range_ok(ranges, bp, req.size)
    BY <1>1, <1>2, <1>4, GrantAccepted
  <2>2. alloc_verdict(ranges) = "ok"
    BY <1>4, <2>1 DEF alloc_verdict
  <2>3. ranges' = ranges \union {index} /\ remember /\ errors' = errors
    BY <2>2 DEF AllocReturn
  <2>4. Live = ranges \ {index}
    BY <1>2
  <2> QED BY <1>1, <1>2, <1>4, <2>3, <2>4, RememberStep
<1> QED BY <1>3, <1>4

(* mm_realloc of size 0 has answered: the id has no pointer any more.      *)
LEMMA ForgetStep ==
  ASSUME IInv, pc = "ret", req.op = "realloc", req.size = 0,
         remember, mm_return, index' = NoIndex,
         ranges' = ranges \ {index}, errors' = errors,
         brk' = brk, opnum' = opnum, tracenum' = tracenum
  PROVE  IInv'
<1>1. bp = NULL /\ index \in Index /\ running /\ initialised
  BY ReturnFacts
<1>2. /\ pc' = "idle" /\ req' = NoRequest /\ bp' = NULL /\ running' = running
      /\ blocks' = [blocks EXCEPT ![index] = NULL]
      /\ block_sizes' = [block_sizes EXCEPT ![index] = 0]
  BY <1>1 DEF mm_return, remember
<1>3. PICK B : /\ Good(mem, brk, B)
               /\ \A i \in Live : /\ Owns(mem, B, blocks[i], block_sizes[i])
                                  /\ Filled(mem, i, blocks[i], block_sizes[i])
               /\ Taken(mem, B) \subseteq Client(Live)
  BY <1>1, ReturnFacts
<1>4. mem' = mem
  <2>1. payload_words(0) = 0
    BY SizeFacts
  <2>2. \A a : a \notin NULL .. (NULL + payload_words(0) - 1)
    <3>1. NULL = 0 /\ NULL + payload_words(0) - 1 = -1
      BY <2>1 DEF NULL
    <3>2. \A a : a \notin 0 .. -1
      OBVIOUS
    <3> QED BY <3>1, <3>2
  <2>3. mem \in Memory
    BY <1>3 DEF Good
  <2> QED BY <1>1, <2>2, <2>3 DEF remember, randomize_block, Memory
<1>5. Live = ranges \ {index}
  BY DEF Live, IsReleased
<1>6. /\ blocks \in [Index -> Pointer] /\ block_sizes \in [Index -> Sizes \union {0}]
      /\ ranges \subseteq Index
  BY DEF IInv, TypeOK
<1>7. /\ blocks'[index] = NULL /\ block_sizes'[index] = 0
      /\ \A i \in Index \ {index} : blocks'[i] = blocks[i] /\ block_sizes'[i] = block_sizes[i]
  BY <1>1, <1>2, <1>6
<1>8. Live' = ranges' /\ ~IsGranted'
  BY <1>2 DEF Live, IsReleased, IsGranted
<1>9. TypeOK'
  <2>1. req' \in [op : {"none", "malloc", "realloc"}, ptr : Pointer, size : Sizes \union {0}]
    BY <1>2 DEF NoRequest, Pointer
  <2>2. blocks' \in [Index -> Pointer] /\ block_sizes' \in [Index -> Sizes \union {0}]
    BY <1>1, <1>2, <1>6 DEF Pointer
  <2> QED BY <1>2, <1>4, <2>1, <2>2 DEF IInv, TypeOK, Pointer
<1>10. DriverSatisfied'
  BY DEF IInv, DriverSatisfied
<1>11. Ids'
  BY <1>6, <1>7 DEF IInv, Ids
<1>12. Control'
  BY <1>1, <1>2, <1>8 DEF Control, initialised
<1>13. HeldHeap(B)'
  <2>1. ASSUME NEW i \in Live'
        PROVE  /\ Owns(mem, B, blocks'[i], block_sizes'[i])
               /\ Filled(mem, i, blocks'[i], block_sizes'[i])
    <3>1. i \in Live /\ i \in Index \ {index}
      BY <1>5, <1>6, <1>8
    <3> QED BY <1>3, <1>7, <3>1
  <2>2. \A i \in Live : i \in Live' /\ blocks'[i] = blocks[i]
    BY <1>5, <1>6, <1>7, <1>8
  <2>3. Taken(mem, B) \subseteq Ours'
    BY <1>3, <2>2 DEF Ours, Client
  <2> QED BY <1>2, <1>3, <1>4, <1>8, <2>1, <2>3 DEF HeldHeap
<1> QED BY <1>9, <1>10, <1>11, <1>12, <1>13 DEF IInv, HeapInv

(* The driver takes the answer of mm_realloc.                              *)
LEMMA ReallocReturnStep ==
  ASSUME IInv, ReallocReturn
  PROVE  IInv'
<1> DEFINE rest == remove_range(ranges, blocks[index])
<1>1. /\ pc = "ret" /\ req.op = "realloc" /\ mm_return /\ index' = NoIndex
      /\ brk' = brk /\ opnum' = opnum /\ tracenum' = tracenum
  BY DEF ReallocReturn
<1>2. index \in Index /\ (req.size = 0 => bp = NULL) /\ req.size \in Nat
  BY <1>1, ReturnFacts
<1>3. rest = ranges \ {index}
  <2>1. index \in ranges \/ blocks[index] = NULL
    BY <1>1 DEF IInv, Control
  <2> QED BY <1>2, <2>1, RangeOfId
<1> HIDE DEF rest
<1>4. CASE req.size = 0
  <2>1. bp = NULL
    BY <1>2, <1>4
  <2>2. realloc_verdict(rest) = "ok"
    BY <1>4, <2>1 DEF realloc_verdict
  <2>3. /\ ranges' = rest /\ remember
        /\ errors' = errors \union check_index(index, bp, kept_size)
    BY <1>4, <2>2 DEF ReallocReturn, rest
  <2>4. kept_size = 0
    <3>1. block_sizes[index] \in Nat
      BY <1>2, SizesNat DEF IInv, TypeOK
    <3> QED BY <1>4, <3>1 DEF kept_size
  <2>5. ~garbled(index, bp, kept_size)
    BY <2>4, SizeFacts DEF garbled
  <2>6. errors' = errors
    BY <2>3, <2>5 DEF check_index
  <2> QED BY <1>1, <1>3, <1>4, <2>3, <2>6, ForgetStep
<1>5. CASE req.size # 0 /\ bp = NULL
  <2>1. realloc_verdict(rest) = "failed"
    BY <1>5 DEF realloc_verdict, alloc_verdict
  <2>2. ranges' = ranges /\ give_up("failed")
    BY <2>1 DEF ReallocReturn, rest
  <2> QED BY <1>1, <1>5, <2>2, GiveUpStep
<1>6. CASE req.size # 0 /\ bp # NULL
  <2>1. Live = ranges \ {index}
    BY <1>1, <1>6 DEF Live, IsReleased
  <2>2. add_range_ok(rest, bp, req.size)
    BY <1>1, <1>3, <1>6, <2>1, GrantAccepted
  <2>3. realloc_verdict(rest) = "ok"
    BY <1>6, <2>2 DEF realloc_verdict, alloc_verdict
  <2>4. req.size > 0
    BY <1>2, <1>6
  <2>5. /\ ranges' = rest \union {index} /\ remember
        /\ errors' = errors \union check_index(index, bp, kept_size)
    BY <2>3, <2>4 DEF ReallocReturn, rest
  <2>6. ~garbled(index, bp, kept_size)
    BY <1>1, <1>6, ReturnFacts DEF garbled, Filled
  <2>7. errors' = errors
    BY <2>5, <2>6 DEF check_index
  <2>8. ranges' = Live \union {index}
    BY <1>3, <2>1, <2>5
  <2> QED BY <1>1, <1>6, <2>1, <2>5, <2>7, <2>8, RememberStep
<1> QED BY <1>4, <1>5, <1>6

----------------------------------------------------------------------------
(* The theorems.                                                           *)

(* Init: no heap yet, nothing held.                                        *)
LEMMA InitInv ==
  ASSUME Init
  PROVE  IInv
<1>1. TypeOK
  <2>1. mem \in [Addr -> Word]
    <3>1. 0 \in Word
      BY MemAssumption DEF Word
    <3> QED BY <3>1 DEF Init
  <2>2. brk \in HeapBase .. (HeapBase + MAX_HEAP)
    BY Defs DEF Init
  <2>3. req \in [op : {"none", "malloc", "realloc"}, ptr : Pointer, size : Sizes \union {0}]
    BY DEF Init, NoRequest, Pointer
  <2>4. opnum \in 0 .. num_ops /\ tracenum \in 0 .. num_traces
    <3>1. num_ops \in Nat /\ num_traces \in Nat
      BY DriverAssumption
    <3> QED BY <3>1 DEF Init
  <2>5. blocks \in [Index -> Pointer] /\ block_sizes \in [Index -> Sizes \union {0}]
    BY DEF Init, Pointer
  <2> QED BY <2>1, <2>2, <2>3, <2>4, <2>5 DEF Init, TypeOK, Pointer
<1>2. DriverSatisfied /\ Ids
  BY DEF Init, DriverSatisfied, Ids
<1>3. Control
  BY DEF Init, Control, IsGranted
<1>4. HeapInv
  BY DEF Init, HeapInv, initialised
<1> QED BY <1>1, <1>2, <1>3, <1>4 DEF IInv

(* A new trace: whatever the memory holds, mm_init makes it a heap.        *)
LEMMA StartTraceStep ==
  ASSUME IInv, StartTrace
  PROVE  IInv'
<1>1. /\ pc = "idle" /\ tracenum < num_traces /\ tracenum' = tracenum + 1 /\ opnum' = 0
      /\ mem' = mm_init(mem) /\ brk' = mm_init_brk /\ ranges' = {} /\ running' = TRUE
      /\ blocks' = [i \in Index |-> NULL] /\ block_sizes' = [i \in Index |-> 0]
      /\ pc' = pc /\ req' = req /\ bp' = bp /\ index' = index /\ errors' = errors
  BY DEF StartTrace
<1>2. mem \in Memory
  BY DEF IInv, TypeOK, Memory
<1>3. PICK C : Good(mem', mm_init_brk, C) /\ Taken(mem', C) \subseteq {heap_listp}
  BY <1>1, <1>2, InitGood
<1>4. mm_init_brk \in HeapBase .. (HeapBase + MAX_HEAP) /\ mm_init_brk # HeapBase
  BY <1>2, InitGood
<1>5. TypeOK'
  <2>1. mem' \in [Addr -> Word]
    BY <1>3 DEF Good, Memory
  <2>2. opnum' \in 0 .. num_ops /\ tracenum' \in 0 .. num_traces
    <3>1. num_ops \in Nat /\ num_traces \in Nat
      BY DriverAssumption
    <3>2. tracenum \in 0 .. num_traces
      BY DEF IInv, TypeOK
    <3> QED BY <1>1, <3>1, <3>2
  <2>3. blocks' \in [Index -> Pointer] /\ block_sizes' \in [Index -> Sizes \union {0}]
    BY <1>1 DEF Pointer
  <2>4. brk' \in HeapBase .. (HeapBase + MAX_HEAP)
    BY <1>1, <1>4
  <2> QED BY <1>1, <2>1, <2>2, <2>3, <2>4 DEF IInv, TypeOK
<1>6. DriverSatisfied' /\ Ids'
  BY <1>1 DEF IInv, DriverSatisfied, Ids
<1>7. Live' = {} /\ ~IsGranted'
  BY <1>1 DEF Live, IsReleased, IsGranted
<1>8. Control'
  BY <1>1, <1>4, <1>7 DEF Control, initialised
<1>9. HeldHeap(C)'
  <2>1. {heap_listp} \subseteq Ours'
    BY DEF Ours, Client
  <2> QED BY <1>1, <1>3, <1>7, <2>1 DEF HeldHeap
<1> QED BY <1>5, <1>6, <1>8, <1>9 DEF IInv, HeapInv

(* A step that changes nothing.                                            *)
LEMMA StutterStep ==
  ASSUME IInv, UNCHANGED vars
  PROVE  IInv'
<1>1. /\ mem' = mem /\ brk' = brk /\ pc' = pc /\ req' = req /\ bp' = bp
      /\ blocks' = blocks /\ block_sizes' = block_sizes /\ ranges' = ranges /\ index' = index
      /\ errors' = errors /\ running' = running /\ opnum' = opnum /\ tracenum' = tracenum
  BY DEF vars
<1>2. TypeOK' /\ DriverSatisfied' /\ Ids'
  BY <1>1 DEF IInv, TypeOK, DriverSatisfied, Ids
<1>3. /\ Live' = Live /\ IsGranted' = IsGranted /\ initialised' = initialised
      /\ kept_size' = kept_size /\ Ours' = Ours /\ \A P : Passed(P)' = Passed(P)
  BY <1>1 DEF Live, IsReleased, IsGranted, initialised, kept_size, Ours, Client, Passed
<1>4. Control'
  BY <1>1, <1>3 DEF IInv, Control
<1>5. ASSUME NEW B, HeldHeap(B) PROVE HeldHeap(B)'
  BY <1>1, <1>3, <1>5 DEF HeldHeap
<1> QED BY <1>2, <1>3, <1>4, <1>5 DEF IInv, HeapInv

(* Every step of the allocator and of its driver keeps the invariant.      *)
LEMMA StepKeeps == IInv /\ [Next]_vars => IInv'
<1> SUFFICES ASSUME IInv, [Next]_vars PROVE IInv'
  OBVIOUS
<1>1. CASE StartTrace
  BY <1>1, StartTraceStep
<1>2. CASE Call
  BY <1>2, AllocStep, ReallocStep, FreeStep, FreeNullStep DEF Call
<1>3. CASE Step
  BY <1>3, FindFitNextStep, FindFitHitStep, GrowStep, MissFailStep, ReallocCopyStep
  DEF Step, mm_step
<1>4. CASE AllocReturn
  BY <1>4, AllocReturnStep
<1>5. CASE ReallocReturn
  BY <1>5, ReallocReturnStep
<1>6. CASE UNCHANGED vars
  BY <1>6, StutterStep
<1> QED BY <1>1, <1>2, <1>3, <1>4, <1>5, <1>6 DEF Next

(* The invariant holds at every step.                                      *)
THEOREM Inductive == Spec => []IInv
<1>1. Init => IInv
  BY InitInv
<1> QED BY <1>1, StepKeeps, PTL DEF Spec

(* Type correctness: in particular no word the allocator writes is out of  *)
(* range and no write is out of the simulated heap.                        *)
THEOREM TypeCorrect == Spec => []TypeOK
<1>1. IInv => TypeOK
  BY DEF IInv
<1> QED BY <1>1, Inductive, PTL

(* eval_mm_valid never reports an error of the allocator but a full heap.  *)
THEOREM DriverIsSatisfied == Spec => []DriverSatisfied
<1>1. IInv => DriverSatisfied
  BY DEF IInv
<1> QED BY <1>1, Inductive, PTL

(* At every step mm.c's memory is a heap: blocks that tile it between its  *)
(* prologue and its epilogue with matching tags, no two free neighbours,   *)
(* and an acyclic doubly linked list of exactly the free blocks.           *)
THEOREM HeapCorrect == Spec => []HeapIsOK
<1>1. IInv => HeapIsOK
  BY DEF IInv, HeapInv, HeldHeap, Good, HeapIsOK
<1> QED BY <1>1, Inductive, PTL

----------------------------------------------------------------------------
(* The invariants the runs check, stated about the blocks and the list     *)
(* that walks of the memory find.                                          *)

(* Walking a heap upwards finds its blocks; a free block's pointer and its *)
(* second word are in the memory.                                          *)
LEMMA HeapWalked ==
  ASSUME NEW m, NEW top, NEW B, Good(m, top, B)
  PROVE  /\ blocks_from(m) = B
         /\ \A p \in FreeBlocks(m, B) : p \in Addr /\ p + 1 \in Addr
         /\ heap_listp \in B /\ Allocated(m, heap_listp)
<1>1. PICK S, A : Pieces(m, top, B, S, A)
  BY GoodElim
<1>2. /\ Layout(top, B, S) /\ Tagged(m, top, B, S, A)
      /\ FreeOf(B, A) \subseteq B \ {heap_listp}
  BY <1>1, PiecesFacts
<1>3. blocks_from(m) = B
  BY <1>2, WalkFindsBlocks
<1>4. FreeBlocks(m, B) = FreeOf(B, A) /\ \A p \in B : Allocated(m, p) <=> A[p] = 1
  BY <1>1, GoodIntro
<1>5. heap_listp \in B /\ A[heap_listp] = 1
  BY <1>2 DEF Layout, Tagged
<1>6. ASSUME NEW p \in FreeOf(B, A) PROVE p \in Addr /\ p + 1 \in Addr
  <2>1. p \in B /\ p # heap_listp
    BY <1>2
  <2>2. p \in Addr /\ p \in Int
    BY <1>2, <2>1, LayoutFacts
  <2>3. S[p] \in Int /\ S[p] >= 4 /\ p + S[p] <= top /\ top \in Int
        /\ top <= HeapBase + MAX_HEAP
    BY <1>2, <2>1 DEF Layout
  <2> QED BY <2>2, <2>3, Defs DEF Addr
<1> QED BY <1>3, <1>4, <1>5, <1>6

(* The invariant, seen from the blocks a walk finds.                       *)
LEMMA InvSeen ==
  ASSUME IInv, initialised
  PROVE  /\ HeldHeap(HeapBlocks) /\ Good(mem, brk, HeapBlocks)
         /\ HeapOK(mem, brk, HeapBlocks)
<1>1. PICK B : HeldHeap(B)
  BY DEF IInv, HeapInv
<1>2. Good(mem, brk, B)
  BY <1>1 DEF HeldHeap
<1>3. HeapBlocks = B
  BY <1>2, HeapWalked DEF HeapBlocks
<1> QED BY <1>1, <1>2, <1>3 DEF Good

(* mm_checkheap (mm.c:282) would never complain: the blocks found by       *)
(* walking up from the prologue always tile the heap, with matching tags.  *)
THEOREM AlwaysTiled == Spec => []HeapTiled
<1>1. IInv => HeapTiled
  BY InvSeen DEF HeapTiled, HeapOK
<1> QED BY <1>1, Inductive, PTL

(* coalesce (mm.c:401) leaves no two free neighbours, whatever the order   *)
(* in which blocks are freed, split and grown.                             *)
THEOREM AlwaysCoalesced == Spec => []NoFreeNeighbours
<1>1. IInv => NoFreeNeighbours
  BY InvSeen DEF NoFreeNeighbours, HeapOK
<1> QED BY <1>1, Inductive, PTL

(* The list of free_listp always visits every free block exactly once,     *)
(* ends, and is linked back the way it is linked forward.                  *)
THEOREM AlwaysListed == Spec => []FreeListExact
<1>1. ASSUME IInv, initialised
      PROVE  LET fl == free_list(mem)
                 F == FreeBlocks(mem, HeapBlocks)
             IN  /\ ToSet(fl) = F /\ Len(fl) = Cardinality(F)
                 /\ \A k \in 1 .. Len(fl) :
                      /\ mem[PREV_P(fl[k])] = IF k = 1 THEN NULL ELSE fl[k - 1]
                      /\ mem[NEXT_P(fl[k])] = IF k = Len(fl) THEN NULL ELSE fl[k + 1]
                 /\ mem[free_listp + WSIZE] = 0
  <2> DEFINE F == FreeBlocks(mem, HeapBlocks)
  <2>1. Good(mem, brk, HeapBlocks) /\ ListOK(mem, F)
    BY <1>1, InvSeen DEF HeapOK
  <2>2. \A p \in F : p \in Addr /\ p + 1 \in Addr
    BY <2>1, HeapWalked
  <2> HIDE DEF F
  <2> DEFINE fl == free_list(mem)
  <2>3. /\ fl \in Seq(F) /\ {fl[k] : k \in 1 .. Len(fl)} = F
        /\ Len(fl) = Cardinality(F)
        /\ \A k \in 1 .. Len(fl) :
             /\ GET(mem, PREV_P(fl[k])) = IF k = 1 THEN NULL ELSE fl[k - 1]
             /\ GET(mem, NEXT_P(fl[k])) = IF k = Len(fl) THEN NULL ELSE fl[k + 1]
    BY <2>1, <2>2, FreeListWhole
  <2>4. mem[free_listp + WSIZE] = 0
    BY <2>1 DEF ListOK, Linked, GET
  <2> HIDE DEF fl
  <2>5. ToSet(fl) = F
    <3>1. DOMAIN fl = 1 .. Len(fl)
      BY <2>3
    <3> QED BY <2>3, <3>1 DEF ToSet
  <2> QED BY <2>3, <2>4, <2>5 DEF GET, F, fl
<1>2. IInv => FreeListExact
  BY <1>1 DEF FreeListExact
<1> QED BY <1>2, Inductive, PTL

(* The allocated blocks of the heap are always exactly the client's and    *)
(* the prologue: none is lost, none is handed out twice.                   *)
THEOREM AlwaysAccounted == Spec => []NoLeak
<1>1. ASSUME IInv, initialised
      PROVE  {p \in HeapBlocks : Allocated(mem, p)} = Held \union {heap_listp}
  <2>1. /\ HeldHeap(HeapBlocks) /\ heap_listp \in HeapBlocks /\ Allocated(mem, heap_listp)
    BY <1>1, InvSeen, HeapWalked
  <2>2. {blocks[i] : i \in Live} = {blocks[i] : i \in ranges} \ released
    <3>1. CASE IsReleased
      <4>1. released = {blocks[index]} /\ Live = ranges \ {index}
        BY <3>1 DEF released, Live, IsReleased
      <4>2. \A i \in ranges : i # index => blocks[i] # blocks[index]
        BY <1>1, <3>1 DEF IInv, Ids, Control, IsReleased
      <4> QED BY <4>1, <4>2
    <3>2. CASE ~IsReleased
      <4>1. released = {} /\ Live = ranges
        BY <3>2 DEF released, Live, IsReleased
      <4> QED BY <4>1
    <3> QED BY <3>1, <3>2
  <2>3. granted = IF IsGranted THEN {bp} ELSE {}
    BY DEF granted, IsGranted
  <2>4. Ours = Held \union {heap_listp}
    BY <2>2, <2>3 DEF Ours, Client, Held
  <2>5. Taken(mem, HeapBlocks) \subseteq Ours
    BY <2>1 DEF HeldHeap
  <2>6. \A p \in Ours : p \in HeapBlocks /\ Allocated(mem, p)
    BY <2>1 DEF HeldHeap, Ours, Client, Owns
  <2> QED BY <2>4, <2>5, <2>6 DEF Taken
<1>2. IInv => NoLeak
  BY <1>1 DEF NoLeak
<1> QED BY <1>2, Inductive, PTL

(* When find_fit has reached the end of the list without a hit, it has     *)
(* seen every free block, and every one of them is too small.              *)
THEOREM AlwaysFullOnMiss == Spec => []MissMeansFull
<1>1. ASSUME IInv, pc = "find_fit", bp = NULL, NEW p \in FreeBlocks(mem, HeapBlocks)
      PROVE  Block_size(mem, p) < adjust(req.size)
  <2> DEFINE F == FreeBlocks(mem, HeapBlocks)
  <2>1. initialised
    BY <1>1 DEF IInv, Control
  <2>2. HeldHeap(HeapBlocks) /\ Good(mem, brk, HeapBlocks) /\ ListOK(mem, F)
    BY <1>1, <2>1, InvSeen DEF HeapOK
  <2>3. PICK P \in SUBSET F : Passed(P)
    BY <1>1, <2>2 DEF HeldHeap
  <2>4. F \subseteq Addr
    BY <2>2, HeapWalked
  <2> HIDE DEF F
  <2>5. P = F
    BY <1>1, <2>2, <2>3, <2>4, ListComplete DEF Passed
  <2> QED BY <1>1, <2>3, <2>5 DEF Passed, F
<1>2. IInv => MissMeansFull
  BY <1>1 DEF MissMeansFull
<1> QED BY <1>2, Inductive, PTL

----------------------------------------------------------------------------
(* The abstract allocator.                                                 *)

Nowhere == [lo |-> 0, words |-> 0, data |-> <<>>]

(* A region that holds id i's data.                                        *)
Stored(i, lo, size) ==
  [lo |-> lo, words |-> payload_words(size),
   data |-> [k \in 0 .. (payload_words(size) - 1) |-> random_data[i][k]]]

(* The region of an id, said without the memory for all but the id whose   *)
(* block has just been granted.                                            *)
Region(i) ==
  IF i \in Live THEN Stored(i, blocks[i], block_sizes[i])
  ELSE IF answered(i) /\ bp # NULL THEN held_region(bp, req.size)
       ELSE Nowhere

Seen == regions = [i \in Index |-> Region(i)]

(* The words an id's region takes, and those a block granted would.        *)
Words(lo, size) == lo .. (lo + payload_words(size) - 1)

GrantFits ==
  pc = "ret" /\ bp # NULL =>
    /\ bp \in Int /\ bp % DSIZE = 0 /\ payload_words(req.size) > 0
    /\ HeapBase <= bp /\ bp + payload_words(req.size) - 1 <= HeapBase + MAX_HEAP - 1
    /\ \A j \in Live : Words(bp, req.size) \cap Words(blocks[j], block_sizes[j]) = {}

(* What a client holds is what the driver filled it with.                  *)
LEMMA RegionsSeen == IInv => Seen
<1> SUFFICES ASSUME IInv PROVE Seen
  OBVIOUS
<1>1. ASSUME NEW i \in Index PROVE regions[i] = Region(i)
  <2>1. CASE i \in Live
    <3>1. i \in ranges
      BY <2>1 DEF Live
    <3>2. initialised
      BY <3>1 DEF IInv, Control
    <3>3. Filled(mem, i, blocks[i], block_sizes[i])
      BY <2>1, <3>2, InvSeen DEF HeldHeap
    <3>4. ~(answered(i) /\ bp # NULL)
          /\ ~(answered(i) /\ bp = NULL /\ (req.op = "malloc" \/ req.size = 0))
      <4>1. SUFFICES ASSUME answered(i) PROVE bp = NULL /\ req.op # "malloc" /\ req.size # 0
        OBVIOUS
      <4>2. pc = "ret" /\ i = index
        BY <4>1 DEF answered
      <4>3. req.op \in {"malloc", "realloc"} /\ (req.op = "malloc" => index \notin ranges)
        BY <4>2 DEF IInv, Control
      <4>4. req.op = "realloc" /\ ~IsReleased
        BY <2>1, <3>1, <4>2, <4>3 DEF Live
      <4> QED BY <4>2, <4>4 DEF IsReleased
    <3>5. regions[i] = held_region(blocks[i], block_sizes[i])
      BY <3>1, <3>4 DEF regions
    <3>6. held_region(blocks[i], block_sizes[i]) = Stored(i, blocks[i], block_sizes[i])
      BY <3>3 DEF held_region, Stored, Filled
    <3> QED BY <2>1, <3>5, <3>6 DEF Region
  <2>2. CASE i \notin Live /\ answered(i) /\ bp # NULL
    BY <2>2 DEF regions, Region
  <2>3. CASE i \notin Live /\ ~(answered(i) /\ bp # NULL)
    <3>1. CASE answered(i) /\ bp = NULL /\ (req.op = "malloc" \/ req.size = 0)
      BY <2>3, <3>1 DEF regions, Region, Nowhere
    <3>2. CASE ~(answered(i) /\ bp = NULL /\ (req.op = "malloc" \/ req.size = 0))
      <4>1. i \notin ranges
        <5>1. SUFFICES ASSUME i \in ranges PROVE FALSE
          OBVIOUS
        <5>2. IsReleased /\ i = index
          BY <2>3, <5>1 DEF Live
        <5> QED BY <2>3, <3>2, <5>2 DEF IsReleased, answered
      <4> QED BY <2>3, <3>2, <4>1 DEF regions, Region, Nowhere
    <3> QED BY <3>1, <3>2
  <2> QED BY <2>1, <2>2, <2>3
<1>2. regions = [i \in Index |-> regions[i]]
  BY DEF regions
<1> QED BY <1>1, <1>2 DEF Seen

(* A block just granted is aligned, in the heap and apart from the others. *)
LEMMA GrantsFit == IInv => GrantFits
<1> SUFFICES ASSUME IInv, pc = "ret", bp # NULL
             PROVE  /\ bp \in Int /\ bp % DSIZE = 0 /\ payload_words(req.size) > 0
                    /\ HeapBase <= bp
                    /\ bp + payload_words(req.size) - 1 <= HeapBase + MAX_HEAP - 1
                    /\ \A j \in Live : Words(bp, req.size) \cap Words(blocks[j], block_sizes[j]) = {}
  BY DEF GrantFits
<1>1. PICK B : /\ Good(mem, brk, B) /\ Owns(mem, B, bp, req.size)
               /\ \A j \in Live : Owns(mem, B, blocks[j], block_sizes[j]) /\ blocks[j] # bp
  BY ReturnFacts
<1>2. req.size \in Nat /\ req.size > 0 /\ brk \in Int /\ brk <= HeapBase + MAX_HEAP
  BY <1>1, ReturnFacts DEF Good
<1>3. /\ bp \in Int /\ bp >= HeapBase /\ bp % 2 = 0
      /\ bp + payload_words(req.size) + 2 <= brk
  BY <1>1, <1>2, OwnedBlock
<1>4. payload_words(req.size) \in Nat /\ payload_words(req.size) > 0
  BY <1>2, SizeFacts
<1>5. ASSUME NEW j \in Live
      PROVE  Words(bp, req.size) \cap Words(blocks[j], block_sizes[j]) = {}
  <2> DEFINE q == blocks[j]
  <2> DEFINE s == block_sizes[j]
  <2>1. s \in Nat
    BY SizesNat DEF IInv, TypeOK, Live
  <2>2. Owns(mem, B, q, s) /\ q # bp
    BY <1>1
  <2> HIDE DEF q, s
  <2>3. payload_words(s) \in Nat
    BY <2>1, SizeFacts
  <2>4. /\ q \in Int /\ q \in B
        /\ \A r \in B : r # q => r >= q + payload_words(s) + 2 \/ r + Block_size(mem, r) <= q
    BY <1>1, <2>1, <2>2, OwnedBlock DEF Owns
  <2>5. bp \in B /\ Block_size(mem, bp) \in Int /\ Block_size(mem, bp) >= payload_words(req.size) + 2
    BY <1>1, <1>2, OwnedBlock DEF Owns
  <2>6. bp >= q + payload_words(s) + 2 \/ bp + payload_words(req.size) + 2 <= q
    BY <2>2, <2>3, <2>4, <2>5, <1>3, <1>4
  <2>7. Words(bp, req.size) \cap Words(q, s) = {}
    BY <2>3, <2>4, <2>6, <1>3, <1>4 DEF Words
  <2> QED BY <2>7 DEF q, s
<1> QED BY <1>2, <1>3, <1>4, <1>5, Defs DEF DSIZE

(* The same one step later.                                                *)
LEMMA SeenNext == IInv' => Seen' /\ GrantFits'
BY RegionsSeen, GrantsFit, PTL

(* Ids that hold a region, and the empty region.                           *)
LEMMA LiveHolds ==
  ASSUME IInv
  PROVE  \A i \in Live : /\ i \in Index /\ i \in ranges
                         /\ payload_words(block_sizes[i]) > 0
                         /\ Stored(i, blocks[i], block_sizes[i]) # Nowhere
<1> SUFFICES ASSUME NEW i \in Live
             PROVE  /\ i \in Index /\ i \in ranges /\ payload_words(block_sizes[i]) > 0
                    /\ Stored(i, blocks[i], block_sizes[i]) # Nowhere
  OBVIOUS
<1>1. i \in ranges /\ i \in Index
  BY DEF Live, IInv, TypeOK
<1>2. block_sizes[i] > 0 /\ block_sizes[i] \in Nat
  BY <1>1, SizesNat DEF IInv, Ids, TypeOK
<1>3. payload_words(block_sizes[i]) > 0
  BY <1>2, SizeFacts
<1>4. Stored(i, blocks[i], block_sizes[i]).words > 0
  BY <1>3 DEF Stored
<1>5. Nowhere.words = 0
  BY DEF Nowhere
<1> QED BY <1>1, <1>3, <1>4, <1>5

(* Steps that leave every region alone, and steps that touch id i's only.  *)
LEMMA SameRegions ==
  ASSUME Seen, Seen', \A i \in Index : Region(i)' = Region(i)
  PROVE  regions' = regions
BY DEF Seen

(* Only one id's region changes.                                           *)
LEMMA OneRegion ==
  ASSUME Seen, Seen', NEW i \in Index, \A j \in Index \ {i} : Region(j)' = Region(j)
  PROVE  /\ Package!OnlyChanges(i)
         /\ regions[i] = Region(i) /\ regions'[i] = Region(i)'
<1>1. regions = [j \in Index |-> Region(j)] /\ regions' = [j \in Index |-> Region(j)']
  BY DEF Seen
<1>2. regions' = [regions EXCEPT ![i] = regions'[i]]
  BY <1>1
<1> QED BY <1>1, <1>2 DEF Package!OnlyChanges

(* The allocator's answer puts id i's region where the abstract allocator  *)
(* may put one, and touches no other id's.                                 *)
LEMMA Placing ==
  ASSUME IInv, IInv', NEW i \in Index, pc # "ret", pc' = "ret", index' = i, bp' # NULL,
         Live' = Live \ {i}, blocks' = blocks, block_sizes' = block_sizes
  PROVE  /\ Package!OnlyChanges(i) /\ Package!WellPlaced(i, regions'[i])
         /\ regions[i] = Region(i) /\ regions'[i] = held_region(bp, req.size)'
<1>1. Seen /\ Seen' /\ GrantFits'
  BY RegionsSeen, SeenNext
<1>2. \A j \in Index : ~answered(j) /\ (answered(j)' <=> j = i)
  BY DEF answered
<1>3. \A j \in Index \ {i} : Region(j)' = Region(j)
  BY <1>2 DEF Region, Stored
<1>4. Package!OnlyChanges(i) /\ regions[i] = Region(i) /\ regions'[i] = Region(i)'
  BY <1>1, <1>3, OneRegion
<1>5. Region(i)' = held_region(bp, req.size)'
  BY <1>2 DEF Region
<1> DEFINE r == held_region(bp, req.size)'
<1> DEFINE n == payload_words(req.size)'
<1>6. r.lo = bp' /\ r.words = n /\ DOMAIN r.data = 0 .. (n - 1)
  BY DEF held_region
<1>7. /\ bp' % DSIZE = 0 /\ n > 0
      /\ HeapBase <= bp' /\ bp' + n - 1 <= HeapBase + MAX_HEAP - 1
      /\ \A j \in Live' : Words(bp, req.size)' \cap Words(blocks[j], block_sizes[j])' = {}
  BY <1>1 DEF GrantFits
<1>8. Words(bp, req.size)' = bp' .. (bp' + n - 1)
  BY DEF Words
<1> HIDE DEF r, n
<1>9. ASSUME NEW j \in Index \ {i}, regions[j] # Nowhere
      PROVE  Package!Extent(r) \cap Package!Extent(regions[j]) = {}
  <2>1. regions[j] = Region(j)
    BY <1>1 DEF Seen
  <2>2. j \in Live
    BY <1>2, <1>9, <2>1 DEF Region
  <2>3. regions[j] = Stored(j, blocks[j], block_sizes[j])
    BY <2>1, <2>2 DEF Region
  <2>4. regions[j].lo = blocks[j] /\ regions[j].words = payload_words(block_sizes[j])
    BY <2>3 DEF Stored
  <2>5. Package!Extent(regions[j]) = Words(blocks[j], block_sizes[j])
    BY <2>4 DEF Package!Extent, Words
  <2>6. Words(blocks[j], block_sizes[j])' = Words(blocks[j], block_sizes[j])
    BY DEF Words, payload_words
  <2>7. Package!Extent(r) = Words(bp, req.size)'
    BY <1>6, <1>8 DEF Package!Extent
  <2> QED BY <1>7, <2>2, <2>5, <2>6, <2>7
<1>10. Package!WellPlaced(i, r)
  BY <1>6, <1>7, <1>9
  DEF Package!WellPlaced, Package!Others, Package!Holds, Package!Nothing, Nowhere
<1> QED BY <1>4, <1>5, <1>10 DEF r

(* mm_malloc's answer.                                                     *)
LEMMA MallocIsMalloc ==
  ASSUME IInv, IInv', NEW i \in Index, pc # "ret", pc' = "ret", index' = i, bp' # NULL,
         i \notin Live, Live' = Live, blocks' = blocks, block_sizes' = block_sizes
  PROVE  Package!Malloc(i)
<1>1. /\ Package!OnlyChanges(i) /\ Package!WellPlaced(i, regions'[i])
      /\ regions[i] = Region(i)
  BY Placing
<1>2. regions[i] = Nowhere
  BY <1>1 DEF Region, answered
<1> QED BY <1>1, <1>2 DEF Package!Malloc, Package!Holds, Package!Nothing, Nowhere

(* mm_realloc's answer: the new region holds what both have room for.      *)
LEMMA ReallocIsRealloc ==
  ASSUME IInv, IInv', realloc_copy_free, UNCHANGED drvvars
  PROVE  \E i \in Index : Package!Realloc(i)
<1>1. /\ pc = "copy" /\ pc' = "ret" /\ bp' = bp /\ req' = req
      /\ blocks' = blocks /\ block_sizes' = block_sizes /\ ranges' = ranges /\ index' = index
  BY DEF realloc_copy_free, drvvars
<1>2. /\ index \in ranges /\ req.op = "realloc" /\ bp # NULL /\ initialised'
      /\ index \in Index
  BY <1>1 DEF IInv, Control
<1>3. Live = ranges /\ Live' = ranges \ {index}
  BY <1>1, <1>2 DEF Live, IsReleased
<1>4. PICK i \in Index : i = index
  BY <1>2
<1>5. /\ Package!OnlyChanges(i) /\ Package!WellPlaced(i, regions'[i])
      /\ regions[i] = Region(i) /\ regions'[i] = held_region(bp, req.size)'
  BY <1>1, <1>2, <1>3, <1>4, Placing
<1>6. i \in Live /\ regions[i] = Stored(i, blocks[i], block_sizes[i]) /\ regions[i] # Nowhere
  BY <1>2, <1>3, <1>4, <1>5, LiveHolds DEF Region
<1> DEFINE n == payload_words(req.size)
<1> DEFINE o == payload_words(block_sizes[i])
<1>7. /\ DOMAIN regions[i].data = 0 .. (o - 1)
      /\ \A k \in 0 .. (o - 1) : regions[i].data[k] = random_data[i][k]
  BY <1>6 DEF Stored
<1>8. /\ DOMAIN regions'[i].data = 0 .. (n - 1)
      /\ \A k \in 0 .. (n - 1) : regions'[i].data[k] = mem'[bp + k]
  BY <1>1, <1>5 DEF held_region, payload_words
<1>9. Filled(mem', i, bp, kept_size)
  <2>1. PICK B : HeldHeap(B)'
    BY <1>2 DEF IInv, HeapInv
  <2>2. kept_size' = kept_size
    BY <1>1 DEF kept_size
  <2> QED BY <1>1, <1>2, <1>4, <2>1, <2>2 DEF HeldHeap, Filled
<1>10. \A k \in (0 .. (o - 1)) \cap (0 .. (n - 1)) : k \in 0 .. (payload_words(kept_size) - 1)
  BY <1>4 DEF kept_size
<1>11. \A k \in DOMAIN regions[i].data \cap DOMAIN regions'[i].data :
         regions'[i].data[k] = regions[i].data[k]
  BY <1>7, <1>8, <1>9, <1>10 DEF Filled
<1>12. Package!Realloc(i)
  BY <1>5, <1>6, <1>11 DEF Package!Realloc, Package!Holds, Package!Nothing, Nowhere
<1> QED BY <1>12

(* A step that takes id i's block away, if it had one, and grants nothing. *)
LEMMA LostIsFree ==
  ASSUME IInv, IInv', NEW i \in Index, pc # "ret", ~(pc' = "ret" /\ bp' # NULL),
         Live' = Live \ {i}, blocks' = blocks, block_sizes' = block_sizes
  PROVE  Package!Free(i) \/ UNCHANGED regions
<1>1. Seen /\ Seen'
  BY RegionsSeen, SeenNext
<1>2. \A j \in Index : ~answered(j) /\ ~(answered(j)' /\ bp' # NULL)
  BY DEF answered
<1>3. \A j \in Index \ {i} : Region(j)' = Region(j)
  BY <1>2 DEF Region, Stored
<1>4. Package!OnlyChanges(i) /\ regions[i] = Region(i) /\ regions'[i] = Region(i)'
  BY <1>1, <1>3, OneRegion
<1>5. Region(i)' = Nowhere
  BY <1>2 DEF Region, Nowhere
<1>6. CASE i \in Live
  <2>1. regions[i] # Nowhere
    BY <1>2, <1>4, <1>6, LiveHolds DEF Region
  <2>2. regions' = [regions EXCEPT ![i] = Nowhere]
    BY <1>4, <1>5 DEF Package!OnlyChanges
  <2> QED BY <2>1, <2>2 DEF Package!Free, Package!Holds, Package!Nothing, Nowhere
<1>7. CASE i \notin Live
  <2>1. Region(i) = Nowhere
    BY <1>2, <1>7 DEF Region
  <2> QED BY <1>1, <1>3, <1>5, <2>1, SameRegions
<1> QED BY <1>6, <1>7

(* A step that grants nothing and takes nothing away.                      *)
LEMMA NothingGranted ==
  ASSUME IInv, IInv', ~(pc = "ret" /\ bp # NULL), ~(pc' = "ret" /\ bp' # NULL),
         Live' = Live,
         \A i \in Live : blocks'[i] = blocks[i] /\ block_sizes'[i] = block_sizes[i]
  PROVE  UNCHANGED regions
<1>1. Seen /\ Seen'
  BY RegionsSeen, SeenNext
<1>2. ASSUME NEW i \in Index PROVE Region(i)' = Region(i)
  <2>1. ~(answered(i) /\ bp # NULL) /\ ~(answered(i)' /\ bp' # NULL)
    BY DEF answered
  <2>2. i \in Live => Stored(i, blocks[i], block_sizes[i])' = Stored(i, blocks[i], block_sizes[i])
    BY DEF Stored, payload_words
  <2>3. Nowhere' = Nowhere
    BY DEF Nowhere
  <2> QED BY <2>1, <2>2, <2>3 DEF Region
<1> QED BY <1>1, <1>2, SameRegions

(* The steps of mm.c: an answer of mm_malloc or mm_realloc, or nothing.    *)
LEMMA StepIsPromise ==
  ASSUME IInv, IInv', Step
  PROVE  Package!Promise \/ UNCHANGED regions
<1>1. /\ blocks' = blocks /\ block_sizes' = block_sizes /\ ranges' = ranges /\ index' = index
      /\ UNCHANGED drvvars
  BY DEF Step, drvvars
<1>2. CASE realloc_copy_free
  BY <1>1, <1>2, ReallocIsRealloc DEF Package!Promise
<1>3. CASE find_fit_next
  <2>1. pc = "find_fit" /\ pc' = pc
    BY <1>3 DEF find_fit_next
  <2>2. Live' = Live
    BY <1>1, <2>1 DEF Live, IsReleased
  <2> QED BY <1>1, <2>1, <2>2, NothingGranted
<1>4. ASSUME NEW b, pc = "find_fit", malloc_returns(b)
      PROVE  Package!Promise \/ UNCHANGED regions
  <2>1. /\ bp' = b /\ req' = req /\ pc' \in {"copy", "ret"}
        /\ pc' = "copy" <=> req.op = "realloc" /\ req.ptr # NULL /\ b # NULL
    BY <1>4 DEF malloc_returns
  <2>2. /\ index \in Index /\ req.op \in {"malloc", "realloc"}
        /\ req.op = "malloc" => index \notin ranges
        /\ req.op = "realloc" => req.ptr = blocks[index]
        /\ req.size > 0 /\ req.size \in Nat
    BY <1>4, FindFitFacts
  <2>3. Live = ranges
    BY <1>4 DEF Live, IsReleased
  <2>4. CASE pc' = "copy" \/ b = NULL
    <3>1. Live' = ranges
      BY <1>1, <2>1, <2>2, <2>4 DEF Live, IsReleased
    <3> QED BY <1>1, <1>4, <2>1, <2>3, <2>4, <3>1, NothingGranted
  <2>5. CASE pc' = "ret" /\ b # NULL
    <3>1. index \notin ranges
      BY <2>1, <2>2, <2>5 DEF IInv, Ids
    <3>2. Live' = ranges
      BY <1>1, <3>1 DEF Live, IsReleased
    <3>3. PICK i \in Index : i = index
      BY <2>2
    <3>4. Package!Malloc(i)
      BY <1>1, <1>4, <2>1, <2>3, <2>5, <3>1, <3>2, <3>3, MallocIsMalloc
    <3> QED BY <3>4 DEF Package!Promise
  <2> QED BY <2>1, <2>4, <2>5
<1>5. CASE find_fit_hit
  BY <1>4, <1>5 DEF find_fit_hit
<1>6. CASE find_fit_miss_grow
  BY <1>4, <1>6 DEF find_fit_miss_grow
<1>7. CASE find_fit_miss_fail
  BY <1>4, <1>7 DEF find_fit_miss_fail
<1> QED BY <1>2, <1>3, <1>5, <1>6, <1>7 DEF Step, mm_step

(* The driver's requests: mm_free and mm_realloc of size 0 take a block    *)
(* back, the others change no region.                                      *)
LEMMA CallIsPromise ==
  ASSUME IInv, IInv', Call
  PROVE  Package!Promise \/ UNCHANGED regions
<1>1. next_op
  BY DEF Call, Alloc, Realloc, Free, FreeNull
<1>2. /\ pc = "idle" /\ blocks' = blocks /\ block_sizes' = block_sizes /\ Live = ranges
  BY <1>1 DEF next_op, Live, IsReleased
<1>3. ASSUME NEW i \in Index, Live' = Live \ {i}, ~(pc' = "ret" /\ bp' # NULL)
      PROVE  Package!Promise \/ UNCHANGED regions
  BY <1>2, <1>3, LostIsFree DEF Package!Promise
<1>4. ASSUME Live' = Live, ~(pc' = "ret" /\ bp' # NULL)
      PROVE  UNCHANGED regions
  BY <1>2, <1>4, NothingGranted
<1>5. ASSUME NEW i \in Index, NEW size \in Sizes, Alloc(i, size)
      PROVE  UNCHANGED regions
  <2>1. ranges' = ranges /\ size # 0 /\ pc' = "find_fit"
    BY <1>5, SizesNat DEF Alloc, mm_malloc, mm_malloc_entry
  <2>2. Live' = Live
    BY <1>2, <2>1 DEF Live, IsReleased
  <2> QED BY <1>4, <2>1, <2>2
<1>6. ASSUME NEW i \in Index, NEW size \in Sizes, Realloc(i, size)
      PROVE  Package!Promise \/ UNCHANGED regions
  <2>1. ranges' = ranges /\ index' = i /\ mm_realloc(blocks[i], size)
    BY <1>6 DEF Realloc
  <2>2. CASE size = 0
    <3>1. /\ pc' = "ret" /\ bp' = NULL
          /\ req' = [op |-> "realloc", ptr |-> blocks[i], size |-> 0]
      BY <2>1, <2>2 DEF mm_realloc
    <3>2. req'.op = "realloc" /\ req'.size = 0
      BY <3>1
    <3>3. Live' = Live \ {i}
      BY <1>2, <2>1, <3>1, <3>2 DEF Live, IsReleased
    <3> QED BY <1>3, <3>1, <3>3
  <2>3. CASE size # 0
    <3>1. pc' = "find_fit"
      BY <2>1, <2>3 DEF mm_realloc, mm_malloc_entry
    <3>2. Live' = Live
      BY <1>2, <2>1, <3>1 DEF Live, IsReleased
    <3> QED BY <1>4, <3>1, <3>2
  <2> QED BY <2>2, <2>3
<1>7. ASSUME NEW i \in Index, Free(i)
      PROVE  Package!Promise \/ UNCHANGED regions
  <2>1. pc' = "idle" /\ i \in ranges /\ ranges' = remove_range(ranges, blocks[i])
    BY <1>2, <1>7 DEF Free
  <2>2. ranges' = ranges \ {i}
    BY <2>1, RangeOfId
  <2>3. Live' = Live \ {i}
    BY <1>2, <2>1, <2>2 DEF Live, IsReleased
  <2> QED BY <1>3, <2>1, <2>3
<1>8. CASE FreeNull
  <2>1. pc' = "idle" /\ ranges' = ranges
    BY <1>2, <1>8 DEF FreeNull
  <2>2. Live' = Live
    BY <1>2, <2>1 DEF Live, IsReleased
  <2> QED BY <1>4, <2>1, <2>2
<1> QED BY <1>5, <1>6, <1>7, <1>8 DEF Call

(* The driver's code after an answer: it fills the block it was given, or  *)
(* changes no region.                                                      *)
LEMMA ReturnIsWrite ==
  ASSUME IInv, IInv', AllocReturn \/ ReallocReturn
  PROVE  Package!Next \/ UNCHANGED regions
<1>1. pc = "ret" /\ mm_return /\ index \in Index /\ (req.size = 0 => bp = NULL)
  BY ReturnFacts DEF AllocReturn, ReallocReturn
<1>2. pc' = "idle" /\ bp' = NULL
  BY <1>1 DEF mm_return
<1>3. /\ blocks \in [Index -> Pointer] /\ block_sizes \in [Index -> Sizes \union {0}]
      /\ ranges \subseteq Index
  BY DEF IInv, TypeOK
<1>4. Live' = ranges'
  BY <1>2 DEF Live, IsReleased
<1>5. CASE bp = NULL
  <2>1. Live' = Live /\ \A i \in Live : blocks'[i] = blocks[i] /\ block_sizes'[i] = block_sizes[i]
    <3>1. CASE AllocReturn
      <4>1. alloc_verdict(ranges) = "failed"
        BY <1>5 DEF alloc_verdict
      <4>2. ranges' = ranges /\ blocks' = blocks /\ block_sizes' = block_sizes
        BY <3>1, <4>1 DEF AllocReturn, give_up
      <4>3. Live = ranges
        BY <3>1 DEF AllocReturn, Live, IsReleased
      <4> QED BY <1>4, <4>2, <4>3
    <3>2. CASE ReallocReturn /\ req.size # 0
      <4>1. realloc_verdict(remove_range(ranges, blocks[index])) = "failed"
        BY <1>5, <3>2 DEF realloc_verdict, alloc_verdict
      <4>2. ranges' = ranges /\ blocks' = blocks /\ block_sizes' = block_sizes
        BY <3>2, <4>1 DEF ReallocReturn, give_up
      <4>3. Live = ranges
        BY <1>5, <3>2 DEF Live, IsReleased
      <4> QED BY <1>4, <4>2, <4>3
    <3>3. CASE ReallocReturn /\ req.size = 0
      <4>1. realloc_verdict(remove_range(ranges, blocks[index])) = "ok"
        BY <1>5, <3>3 DEF realloc_verdict
      <4>2. remember /\ ranges' = remove_range(ranges, blocks[index]) /\ req.op = "realloc"
        BY <3>3, <4>1 DEF ReallocReturn
      <4>3. index \in ranges \/ blocks[index] = NULL
        BY <1>1, <4>2 DEF IInv, Control
      <4>4. ranges' = ranges \ {index}
        BY <1>1, <4>2, <4>3, RangeOfId
      <4>5. Live = ranges \ {index}
        BY <1>1, <3>3, <4>2 DEF Live, IsReleased
      <4>6. \A i \in Index \ {index} : blocks'[i] = blocks[i] /\ block_sizes'[i] = block_sizes[i]
        BY <1>3, <4>2 DEF remember
      <4> QED BY <1>3, <1>4, <4>4, <4>5, <4>6
    <3> QED BY <3>1, <3>2, <3>3
  <2> QED BY <1>2, <1>5, <2>1, NothingGranted
<1>6. CASE bp # NULL
  <2>1. remember /\ ranges' = Live \union {index} /\ index \notin Live
    <3>1. CASE AllocReturn
      <4>1. req.op = "malloc" /\ index \notin ranges /\ Live = ranges
        BY <1>1, <3>1 DEF AllocReturn, IInv, Control, Live, IsReleased
      <4>2. add_range_ok(ranges, bp, req.size)
        BY <1>1, <1>6, <4>1, GrantAccepted
      <4>3. alloc_verdict(ranges) = "ok"
        BY <1>6, <4>2 DEF alloc_verdict
      <4> QED BY <3>1, <4>1, <4>3 DEF AllocReturn
    <3>2. CASE ReallocReturn
      <4>1. req.op = "realloc" /\ req.size # 0 /\ req.size \in Nat
        BY <1>1, <1>6, <3>2, ReturnFacts DEF ReallocReturn
      <4>2. Live = ranges \ {index}
        BY <1>1, <1>6, <4>1 DEF Live, IsReleased
      <4>3. index \in ranges \/ blocks[index] = NULL
        BY <1>1, <4>1 DEF IInv, Control
      <4>4. remove_range(ranges, blocks[index]) = Live
        BY <1>1, <4>2, <4>3, RangeOfId
      <4>5. add_range_ok(remove_range(ranges, blocks[index]), bp, req.size)
        BY <1>1, <1>6, <4>4, GrantAccepted
      <4>6. realloc_verdict(remove_range(ranges, blocks[index])) = "ok" /\ req.size > 0
        BY <1>6, <4>1, <4>5 DEF realloc_verdict, alloc_verdict
      <4> QED BY <3>2, <4>2, <4>4, <4>6 DEF ReallocReturn
    <3> QED BY <3>1, <3>2
  <2>2. /\ blocks'[index] = bp /\ block_sizes'[index] = req.size
        /\ \A i \in Index \ {index} : blocks'[i] = blocks[i] /\ block_sizes'[i] = block_sizes[i]
    BY <1>1, <1>3, <2>1 DEF remember
  <2>3. PICK i \in Index : i = index
    BY <1>1
  <2>4. Seen /\ Seen'
    BY RegionsSeen, SeenNext
  <2>5. /\ answered(i) /\ \A j \in Index \ {i} : ~answered(j)
        /\ \A j \in Index : ~answered(j)'
    BY <1>1, <1>2, <2>3 DEF answered
  <2>6. \A j \in Index \ {i} : j \in Live' <=> j \in Live
    BY <1>4, <2>1, <2>3
  <2>7. \A j \in Index \ {i} : Region(j)' = Region(j)
    BY <2>2, <2>3, <2>5, <2>6 DEF Region, Stored, Nowhere, payload_words
  <2>8. Package!OnlyChanges(i) /\ regions[i] = Region(i) /\ regions'[i] = Region(i)'
    BY <2>4, <2>7, OneRegion
  <2>9. regions[i] = held_region(bp, req.size)
    BY <1>6, <2>1, <2>3, <2>5, <2>8 DEF Region
  <2>10. i \in Live'
    BY <1>4, <2>1, <2>3
  <2>11. regions'[i] = Stored(i, bp, req.size)
    BY <2>2, <2>3, <2>8, <2>10 DEF Region, Stored, payload_words
  <2>12. payload_words(req.size) > 0
    BY <1>1, <1>6, GrantsFit DEF GrantFits
  <2>13. regions[i] # Nowhere
    <3>1. regions[i].words > 0 /\ Nowhere.words = 0
      BY <2>9, <2>12 DEF held_region, Nowhere
    <3> QED BY <3>1
  <2>14. /\ regions'[i].lo = regions[i].lo /\ regions'[i].words = regions[i].words
         /\ DOMAIN regions'[i].data = DOMAIN regions[i].data
    BY <2>9, <2>11 DEF held_region, Stored
  <2>15. Package!Write(i)
    BY <2>8, <2>13, <2>14 DEF Package!Write, Package!Holds, Package!Nothing, Nowhere
  <2> QED BY <2>15 DEF Package!Next
<1> QED BY <1>5, <1>6

(* A new trace empties the heap.                                           *)
LEMMA StartIsReset ==
  ASSUME IInv, IInv', StartTrace
  PROVE  Package!Promise
<1>1. Seen'
  BY SeenNext
<1>2. \A i \in Index : Region(i)' = Nowhere
  BY DEF StartTrace, Region, Live, IsReleased, answered, Nowhere
<1>3. regions' = [i \in Index |-> Nowhere]
  BY <1>1, <1>2 DEF Seen
<1> QED BY <1>3 DEF Package!Promise, Package!Reset, Package!Nothing, Nowhere

(* A step that changes nothing.                                            *)
LEMMA StutterRegions ==
  ASSUME UNCHANGED vars
  PROVE  UNCHANGED regions
BY DEF vars, regions, answered, held_region, payload_words

(* mm.c under eval_mm_valid is an allocator, and only the driver's own     *)
(* code after an answer changes what is in a region its client holds.      *)
THEOREM IsAllocator == Spec => AllocatorSpec
<1>1. Init => Package!Init
  BY DEF Init, Package!Init, Package!Nothing, regions, answered
<1>2. ASSUME IInv, IInv', [Next]_vars
      PROVE  /\ [Package!Next]_regions
             /\ [AllocReturn \/ ReallocReturn \/ Package!Promise \/ UNCHANGED regions]_vars
  <2>1. CASE StartTrace
    BY <1>2, <2>1, StartIsReset DEF Package!Next
  <2>2. CASE Call
    BY <1>2, <2>2, CallIsPromise DEF Package!Next
  <2>3. CASE Step
    BY <1>2, <2>3, StepIsPromise DEF Package!Next
  <2>4. CASE AllocReturn \/ ReallocReturn
    BY <1>2, <2>4, ReturnIsWrite
  <2>5. CASE UNCHANGED vars
    BY <2>5, StutterRegions
  <2> QED BY <1>2, <2>1, <2>2, <2>3, <2>4, <2>5 DEF Next
<1>3. IInv /\ IInv' /\ [Next]_vars
        => /\ [Package!Next]_regions
           /\ [AllocReturn \/ ReallocReturn \/ Package!Promise \/ UNCHANGED regions]_vars
  BY <1>2
<1> QED BY <1>1, <1>3, Inductive, PTL DEF Spec, AllocatorSpec, Package!Spec

----------------------------------------------------------------------------
(* The replays.  A call of the allocator is a function of what it finds:   *)
(* After(s, e) is what one step makes of the state s while entry e of the  *)
(* log is carried out.                                                     *)

(* What a step depends on and changes; at is the place in the log.         *)
State(m, top, c, q, b, bl, n) ==
  [mem |-> m, brk |-> top, pc |-> c, req |-> q, bp |-> b, blocks |-> bl, at |-> n]

(* The pointer an entry passes.                                            *)
Holder(s, e) == IF e.index = NoIndex THEN NULL ELSE s.blocks[e.index]
Passes(s, e) == IF e.op = "malloc" THEN NULL ELSE Holder(s, e)

Freeing(s, e) ==
  State(mm_free(s.mem, Holder(s, e)), s.brk, s.pc, s.req, s.bp, s.blocks, s.at + 1)

Calling(s, e) ==
  LET p == Passes(s, e)
      q == [op |-> e.op, ptr |-> p, size |-> e.size]
  IN  IF e.size = 0
      THEN State(mm_free(s.mem, p), s.brk, "ret", q, NULL, s.blocks, s.at)
      ELSE State(s.mem, s.brk, "find_fit", q, GET(s.mem, free_listp), s.blocks, s.at)

Asked(s) == adjust(s.req.size)
Room(s) == extend_size(MAX(Asked(s), CHUNKSIZE))
Fits(s) == s.brk + Room(s) <= HeapBase + MAX_HEAP
GoesTo(s, b) == IF s.req.op = "realloc" /\ s.req.ptr # NULL /\ b # NULL
                THEN "copy" ELSE "ret"

Hitting(s) ==
  State(place(s.mem, s.bp, Asked(s)), s.brk, GoesTo(s, s.bp), s.req, s.bp, s.blocks, s.at)
Missing(s) ==
  State(s.mem, s.brk, GoesTo(s, NULL), s.req, NULL, s.blocks, s.at)
Walking(s) ==
  State(s.mem, s.brk, s.pc, s.req, GET(s.mem, NEXT_P(s.bp)), s.blocks, s.at)
Growing(s) ==
  LET x == extend_heap(s.mem, s.brk, Room(s))
  IN  State(place(x.mem, x.bp, Asked(s)), s.brk + Room(s), GoesTo(s, x.bp), s.req,
            x.bp, s.blocks, s.at)

Finding(s) ==
  IF s.bp = NULL THEN IF Fits(s) THEN Growing(s) ELSE Missing(s)
  ELSE IF Block_size(s.mem, s.bp) < Asked(s) THEN Walking(s) ELSE Hitting(s)

CopiedWords(s) == LET oldsize == Block_size(s.mem, s.req.ptr)
            IN  IF s.req.size < 4 * oldsize THEN payload_words(s.req.size) ELSE oldsize

Copying(s) ==
  State(mm_free(memcpy(s.mem, s.bp, s.req.ptr, CopiedWords(s)), s.req.ptr), s.brk, "ret",
        s.req, s.bp, s.blocks, s.at)

Returning(s, e) ==
  State(s.mem, s.brk, "idle", NoRequest, NULL,
        [s.blocks EXCEPT ![e.index] = s.bp], s.at + 1)

After(s, e) ==
  CASE s.pc = "idle" -> IF e.op = "free" THEN Freeing(s, e) ELSE Calling(s, e)
    [] s.pc = "find_fit" -> Finding(s)
    [] s.pc = "copy" -> Copying(s)
    [] s.pc = "ret" -> Returning(s, e)

----------------------------------------------------------------------------
(* Two states that differ at most in what payloads and free blocks hold.   *)
Same(s, r) ==
  /\ s.brk = r.brk /\ s.pc = r.pc /\ s.req = r.req /\ s.bp = r.bp
  /\ s.blocks = r.blocks /\ s.at = r.at
  /\ Alike(s.mem, r.mem, s.brk)

(* What is freed is an allocated block, or nothing.                        *)
Freeable(m, B, p) == p = NULL \/ (p \in B /\ p # heap_listp /\ Allocated(m, p))

(* The state s is one from which the allocator was seen to carry out e.    *)
Fit(s, e) ==
  /\ s.pc \in {"idle", "find_fit", "copy", "ret"}
  /\ \E B :
       /\ Good(s.mem, s.brk, B)
       /\ s.pc = "idle" /\ (e.op = "free" \/ e.size = 0) => Freeable(s.mem, B, Passes(s, e))
       /\ s.pc = "find_fit" => /\ s.bp \in FreeBlocks(s.mem, B) \union {NULL}
                               /\ s.req.size \in Nat
       /\ s.pc = "copy" => /\ Owns(s.mem, B, s.bp, s.req.size) /\ s.req.size \in Nat
                           /\ Freeable(s.mem, B, s.req.ptr) /\ s.req.ptr # NULL
  /\ s.pc = "ret" => s.bp = e.ptr /\ (s.bp = NULL => e.size = 0)

(* mm_free of what may be freed takes like to like.                        *)
LEMMA FreeableAlike ==
  ASSUME NEW m, NEW n, NEW top, Alike(m, n, top), NEW B, Good(m, top, B),
         NEW p, Freeable(m, B, p)
  PROVE  Alike(mm_free(m, p), mm_free(n, p), top)
<1>1. CASE p = NULL
  BY <1>1 DEF mm_free
<1>2. CASE p # NULL
  <2>1. p \in B /\ p # heap_listp /\ Allocated(m, p)
    BY <1>2 DEF Freeable
  <2> QED BY <2>1, FreeAlike
<1> QED BY <1>1, <1>2

(* What memcpy writes is not seen.                                         *)
LEMMA CopyAlike ==
  ASSUME NEW m, NEW top, NEW B, Good(m, top, B),
         NEW b, NEW size \in Nat, Owns(m, B, b, size),
         NEW p \in B, p # heap_listp, NEW n,
         n = IF size < 4 * Block_size(m, p) THEN payload_words(size) ELSE Block_size(m, p)
  PROVE  Alike(m, memcpy(m, b, p, n), top)
<1> DEFINE S == Block_size(m, p)
<1> DEFINE w == memcpy(m, b, p, n)
<1>1. payload_words(size) \in Nat
  BY SizeFacts
<1>2. /\ p \in Int /\ p >= HeapBase /\ S \in Int /\ S >= 0 /\ p + S <= top
  <2>1. PICK T, A : Pieces(m, top, B, T, A)
    BY GoodElim
  <2>2. Layout(top, B, T) /\ S = T[p]
    BY <2>1, PiecesFacts, GoodIntro
  <2>3. p \in Int /\ p >= heap_listp /\ T[p] >= 2 /\ p + T[p] <= top /\ T[p] \in Int
    BY <2>2 DEF Layout
  <2> QED BY <2>2, <2>3, Defs
<1>3. /\ b \in Int /\ b >= HeapBase /\ b + payload_words(size) + 2 <= top
      /\ Block_size(m, b) \in Int /\ Block_size(m, b) >= payload_words(size) + 2
  BY OwnedBlock DEF Owns
<1>4. top \in Int /\ top <= HeapBase + MAX_HEAP /\ m \in Memory
  BY DEF Good
<1>5. n \in Nat /\ n <= payload_words(size) /\ n <= S
  BY <1>1, <1>2 DEF payload_words
<1> HIDE DEF S
<1>6. \A k \in 0 .. (n - 1) : p + k \in Addr /\ b + k \in Addr
  BY <1>1, <1>2, <1>3, <1>4, <1>5, Defs DEF Addr
<1>7. w \in Memory /\ Outside(m, w, b, b + n - 1)
  BY <1>2, <1>3, <1>4, <1>5, <1>6, MemcpyFacts
<1> HIDE DEF w
<1>8. Outside(m, w, b, b + Block_size(m, b) - 3)
  <2>1. \A a \in Int : a > b + Block_size(m, b) - 3 => a > b + n - 1
    BY <1>1, <1>3, <1>5
  <2> QED BY <1>7, <2>1, Defs DEF Outside, Addr
<1>9. b \in B /\ Allocated(m, b)
  BY DEF Owns
<1>10. Alike(m, w, top)
  BY <1>7, <1>8, <1>9, PayloadAlike
<1> QED BY <1>10 DEF w

(* A payload that is owned in one heap is owned in any other like it.      *)
LEMMA OwnsAlike ==
  ASSUME NEW m, NEW n, NEW top, Alike(m, n, top), NEW B, Good(m, top, B),
         NEW p, NEW size, Owns(m, B, p, size)
  PROVE  Owns(n, B, p, size)
BY AlikeSees DEF Owns

(* A state in terms of its parts.                                          *)
LEMMA SameStates ==
  ASSUME NEW m1, NEW m2, NEW top, NEW c, NEW q, NEW b, NEW bl, NEW n, Alike(m1, m2, top)
  PROVE  Same(State(m1, top, c, q, b, bl, n), State(m2, top, c, q, b, bl, n))
BY DEF Same, State

(* A call or a free from states that are alike leads to states that are.   *)
LEMMA IdleAlike ==
  ASSUME NEW s, NEW r, Same(s, r), NEW e, Fit(s, e), s.pc = "idle"
  PROVE  Same(After(s, e), After(r, e))
<1>1. /\ r.brk = s.brk /\ r.pc = "idle" /\ r.req = s.req /\ r.bp = s.bp
      /\ r.blocks = s.blocks /\ r.at = s.at /\ Alike(s.mem, r.mem, s.brk)
  BY DEF Same
<1>2. Holder(r, e) = Holder(s, e) /\ Passes(r, e) = Passes(s, e)
  BY <1>1 DEF Holder, Passes
<1>3. PICK B : /\ Good(s.mem, s.brk, B)
               /\ e.op = "free" \/ e.size = 0 => Freeable(s.mem, B, Passes(s, e))
  BY DEF Fit
<1>4. CASE e.op = "free"
  <2>1. Passes(s, e) = Holder(s, e)
    BY <1>4 DEF Passes
  <2>2. Alike(mm_free(s.mem, Holder(s, e)), mm_free(r.mem, Holder(s, e)), s.brk)
    BY <2>1, <1>1, <1>3, <1>4, FreeableAlike
  <2>3. Same(Freeing(s, e), Freeing(r, e))
    BY <2>2, <1>1, <1>2, SameStates DEF Freeing
  <2> QED BY <2>3, <1>1, <1>4 DEF After
<1>5. CASE e.op # "free" /\ e.size = 0
  <2>1. Alike(mm_free(s.mem, Passes(s, e)), mm_free(r.mem, Passes(s, e)), s.brk)
    BY <1>1, <1>3, <1>5, FreeableAlike
  <2>2. Same(Calling(s, e), Calling(r, e))
    BY <2>1, <1>1, <1>2, <1>5, SameStates DEF Calling
  <2> QED BY <2>2, <1>1, <1>5 DEF After
<1>6. CASE e.op # "free" /\ e.size # 0
  <2>1. GET(r.mem, free_listp) = GET(s.mem, free_listp)
    BY <1>1, <1>3, AlikeSees
  <2>2. Same(Calling(s, e), Calling(r, e))
    BY <2>1, <1>1, <1>2, <1>6, SameStates DEF Calling
  <2> QED BY <2>2, <1>1, <1>6 DEF After
<1> QED BY <1>4, <1>5, <1>6

(* A request asks for a block, or failing that for room, of some words.    *)
LEMMA RoomFacts ==
  ASSUME NEW s, s.req.size \in Nat
  PROVE  /\ Asked(s) \in Nat /\ Asked(s) % 2 = 0 /\ Asked(s) >= 4
         /\ MAX(Asked(s), CHUNKSIZE) \in Nat /\ MAX(Asked(s), CHUNKSIZE) >= 4
         /\ Room(s) = extend_size(MAX(Asked(s), CHUNKSIZE))
         /\ Room(s) \in Nat /\ Room(s) >= Asked(s)
<1>1. Asked(s) \in Nat /\ Asked(s) % 2 = 0 /\ Asked(s) >= 4
  BY SizeFacts DEF Asked
<1>2. CHUNKSIZE \in Nat /\ CHUNKSIZE >= 4
  BY Defs
<1>3. /\ MAX(Asked(s), CHUNKSIZE) \in Nat /\ MAX(Asked(s), CHUNKSIZE) >= 4
      /\ MAX(Asked(s), CHUNKSIZE) >= Asked(s)
  BY <1>1, <1>2 DEF MAX
<1>4. \A x \in Nat : extend_size(x) \in Nat /\ extend_size(x) >= x
  BY DEF extend_size
<1>5. Room(s) \in Nat /\ Room(s) >= MAX(Asked(s), CHUNKSIZE)
  BY <1>3, <1>4 DEF Room
<1> QED BY <1>1, <1>3, <1>5 DEF Room

(* So does a step of find_fit.                                             *)
LEMMA FindingAlike ==
  ASSUME NEW s, NEW r, Same(s, r), NEW e, Fit(s, e), s.pc = "find_fit"
  PROVE  Same(After(s, e), After(r, e))
<1>1. /\ r.brk = s.brk /\ r.pc = "find_fit" /\ r.req = s.req /\ r.bp = s.bp
      /\ r.blocks = s.blocks /\ r.at = s.at /\ Alike(s.mem, r.mem, s.brk)
  BY DEF Same
<1>2. PICK B : /\ Good(s.mem, s.brk, B)
               /\ s.bp \in FreeBlocks(s.mem, B) \union {NULL} /\ s.req.size \in Nat
  BY DEF Fit
<1>3. /\ Asked(r) = Asked(s) /\ Room(r) = Room(s) /\ Fits(r) = Fits(s)
      /\ \A b : GoesTo(r, b) = GoesTo(s, b)
  BY <1>1 DEF Asked, Room, Fits, GoesTo
<1>4. /\ Asked(s) \in Nat /\ Asked(s) % 2 = 0 /\ Asked(s) >= 4
      /\ MAX(Asked(s), CHUNKSIZE) \in Nat /\ MAX(Asked(s), CHUNKSIZE) >= 4
      /\ Room(s) = extend_size(MAX(Asked(s), CHUNKSIZE))
      /\ Room(s) \in Nat /\ Room(s) >= Asked(s)
  BY <1>2, RoomFacts
<1>5. After(s, e) = Finding(s) /\ After(r, e) = Finding(r)
  BY <1>1 DEF After
<1>6. CASE s.bp = NULL /\ ~Fits(s)
  <2>1. Same(Missing(s), Missing(r))
    BY <1>1, <1>3, SameStates DEF Missing
  <2> QED BY <2>1, <1>1, <1>3, <1>5, <1>6 DEF Finding
<1>7. CASE s.bp = NULL /\ Fits(s)
  <2> DEFINE w == MAX(Asked(s), CHUNKSIZE)
  <2> DEFINE x == extend_heap(s.mem, s.brk, w)
  <2> DEFINE y == extend_heap(r.mem, s.brk, w)
  <2> DEFINE z == Room(s)
  <2>1. /\ w \in Nat /\ w >= 4 /\ z = extend_size(w) /\ s.brk + z <= HeapBase + MAX_HEAP
        /\ z \in Nat /\ z >= Asked(s)
    BY <1>4, <1>7 DEF Fits
  <2> HIDE DEF w, z
  <2>2. x.bp = y.bp /\ Alike(x.mem, y.mem, s.brk + z)
    BY <1>1, <2>1, ExtendAlike
  <2>3. PICK C : /\ Good(x.mem, s.brk + z, C) /\ x.bp \in FreeBlocks(x.mem, C)
                 /\ Block_size(x.mem, x.bp) >= z
    BY <1>2, <2>1, ExtendGood
  <2>4. Block_size(x.mem, x.bp) >= Asked(s)
    <3>1. Block_size(x.mem, x.bp) \in Int
      <4>1. PICK S, A : Pieces(x.mem, s.brk + z, C, S, A)
        BY <2>3, GoodElim
      <4>2. Layout(s.brk + z, C, S) /\ Block_size(x.mem, x.bp) = S[x.bp] /\ x.bp \in C
        BY <4>1, <2>3, PiecesFacts, GoodIntro DEF FreeBlocks
      <4> QED BY <4>2, LayoutFacts
    <3> QED BY <3>1, <2>1, <2>3, <1>4
  <2> HIDE DEF x, y
  <2>5. Alike(place(x.mem, x.bp, Asked(s)), place(y.mem, x.bp, Asked(s)), s.brk + z)
    BY <2>2, <2>3, <2>4, <1>4, PlaceAlike
  <2>6. /\ Growing(s) = State(place(x.mem, x.bp, Asked(s)), s.brk + z, GoesTo(s, x.bp),
                              s.req, x.bp, s.blocks, s.at)
        /\ Growing(r) = State(place(y.mem, x.bp, Asked(s)), s.brk + z, GoesTo(s, x.bp),
                              s.req, x.bp, s.blocks, s.at)
    <3>1. extend_heap(s.mem, s.brk, z) = x /\ extend_heap(r.mem, s.brk, z) = y
      <4>1. extend_size(z) = z
        BY <2>1 DEF extend_size
      <4> QED BY <2>1, <4>1 DEF extend_heap, x, y
    <3>2. Room(s) = z /\ Room(r) = z
      BY <1>3 DEF z
    <3> QED BY <3>1, <3>2, <1>1, <1>3, <2>2 DEF Growing
  <2>7. Same(Growing(s), Growing(r))
    BY <2>5, <2>6, SameStates
  <2> QED BY <2>7, <1>1, <1>3, <1>5, <1>7 DEF Finding
<1>8. CASE s.bp # NULL
  <2>1. s.bp \in FreeBlocks(s.mem, B) /\ s.bp \in B
    BY <1>2, <1>8 DEF FreeBlocks
  <2>2. /\ Block_size(r.mem, s.bp) = Block_size(s.mem, s.bp)
        /\ GET(r.mem, NEXT_P(s.bp)) = GET(s.mem, NEXT_P(s.bp))
    BY <2>1, <1>1, <1>2, AlikeSees
  <2>3. CASE Block_size(s.mem, s.bp) < Asked(s)
    <3>1. Same(Walking(s), Walking(r))
      BY <2>2, <1>1, SameStates DEF Walking
    <3> QED BY <3>1, <2>2, <2>3, <1>1, <1>3, <1>5, <1>8 DEF Finding
  <2>4. CASE ~(Block_size(s.mem, s.bp) < Asked(s))
    <3>1. Block_size(s.mem, s.bp) >= Asked(s)
      <4>1. PICK S, A : Pieces(s.mem, s.brk, B, S, A)
        BY <1>2, GoodElim
      <4>2. Layout(s.brk, B, S) /\ Block_size(s.mem, s.bp) = S[s.bp]
        BY <4>1, <2>1, PiecesFacts, GoodIntro
      <4>3. Block_size(s.mem, s.bp) \in Int
        BY <4>2, <2>1, LayoutFacts
      <4> QED BY <4>3, <2>4, <1>4
    <3>2. Alike(place(s.mem, s.bp, Asked(s)), place(r.mem, s.bp, Asked(s)), s.brk)
      BY <3>1, <2>1, <1>1, <1>2, <1>4, PlaceAlike
    <3>3. Same(Hitting(s), Hitting(r))
      BY <3>2, <1>1, <1>3, SameStates DEF Hitting
    <3> QED BY <3>3, <2>2, <2>4, <1>1, <1>3, <1>5, <1>8 DEF Finding
  <2> QED BY <2>3, <2>4
<1> QED BY <1>6, <1>7, <1>8

(* So does mm_realloc's copy and free.                                     *)
LEMMA CopyingAlike ==
  ASSUME NEW s, NEW r, Same(s, r), NEW e, Fit(s, e), s.pc = "copy"
  PROVE  Same(After(s, e), After(r, e))
<1>1. /\ r.brk = s.brk /\ r.pc = "copy" /\ r.req = s.req /\ r.bp = s.bp
      /\ r.blocks = s.blocks /\ r.at = s.at /\ Alike(s.mem, r.mem, s.brk)
  BY DEF Same
<1>2. PICK B : /\ Good(s.mem, s.brk, B) /\ Owns(s.mem, B, s.bp, s.req.size)
               /\ s.req.size \in Nat
               /\ s.req.ptr \in B /\ s.req.ptr # heap_listp /\ Allocated(s.mem, s.req.ptr)
  BY DEF Fit, Freeable
<1> DEFINE p == s.req.ptr
<1> DEFINE m == memcpy(s.mem, s.bp, p, CopiedWords(s))
<1> DEFINE n == memcpy(r.mem, s.bp, p, CopiedWords(s))
<1>3. /\ Good(r.mem, s.brk, B) /\ Block_size(r.mem, p) = Block_size(s.mem, p)
      /\ Owns(r.mem, B, s.bp, s.req.size)
  BY <1>1, <1>2, AlikeSees, OwnsAlike
<1>4. CopiedWords(r) = CopiedWords(s)
  BY <1>1, <1>3 DEF CopiedWords
<1>5. Alike(s.mem, m, s.brk) /\ Alike(r.mem, n, s.brk)
  BY <1>2, <1>3, CopyAlike DEF CopiedWords
<1> HIDE DEF m, n
<1>6. Alike(m, n, s.brk)
  <2>1. Alike(m, s.mem, s.brk)
    BY <1>5, AlikeSymmetric
  <2>2. Alike(m, r.mem, s.brk)
    BY <2>1, <1>1, AlikeTransitive
  <2> QED BY <2>2, <1>5, AlikeTransitive
<1>7. Good(m, s.brk, B) /\ Allocated(m, p)
  BY <1>2, <1>5, AlikeSees
<1>8. Alike(mm_free(m, p), mm_free(n, p), s.brk)
  BY <1>2, <1>6, <1>7, FreeAlike
<1>9. Same(Copying(s), Copying(r))
  BY <1>1, <1>4, <1>8, SameStates DEF Copying, m, n
<1> QED BY <1>1, <1>9 DEF After

(* A step from states that are alike leads to states that are alike.       *)
LEMMA AfterAlike ==
  ASSUME NEW s, NEW r, Same(s, r), NEW e, Fit(s, e)
  PROVE  Same(After(s, e), After(r, e))
<1>1. s.pc \in {"idle", "find_fit", "copy", "ret"}
  BY DEF Fit
<1>2. CASE s.pc = "ret"
  <2>1. Same(Returning(s, e), Returning(r, e))
    BY SameStates DEF Same, Returning
  <2>2. r.pc = "ret"
    BY <1>2 DEF Same
  <2> QED BY <2>1, <2>2, <1>2 DEF After
<1> QED BY <1>1, <1>2, IdleAlike, FindingAlike, CopyingAlike

(* What fits a state fits any state like it.                               *)
LEMMA FitAlike ==
  ASSUME NEW s, NEW r, Same(s, r), NEW e, Fit(s, e)
  PROVE  Fit(r, e)
<1>1. /\ r.brk = s.brk /\ r.pc = s.pc /\ r.req = s.req /\ r.bp = s.bp
      /\ r.blocks = s.blocks /\ r.at = s.at /\ Alike(s.mem, r.mem, s.brk)
  BY DEF Same
<1>2. Passes(r, e) = Passes(s, e)
  BY <1>1 DEF Holder, Passes
<1>3. PICK B :
       /\ Good(s.mem, s.brk, B)
       /\ s.pc = "idle" /\ (e.op = "free" \/ e.size = 0) => Freeable(s.mem, B, Passes(s, e))
       /\ s.pc = "find_fit" => /\ s.bp \in FreeBlocks(s.mem, B) \union {NULL}
                               /\ s.req.size \in Nat
       /\ s.pc = "copy" => /\ Owns(s.mem, B, s.bp, s.req.size) /\ s.req.size \in Nat
                           /\ Freeable(s.mem, B, s.req.ptr) /\ s.req.ptr # NULL
  BY DEF Fit
<1>4. /\ Good(r.mem, s.brk, B) /\ FreeBlocks(r.mem, B) = FreeBlocks(s.mem, B)
      /\ \A p \in B : Allocated(r.mem, p) <=> Allocated(s.mem, p)
  BY <1>1, <1>3, AlikeSees
<1>5. \A p : Freeable(s.mem, B, p) => Freeable(r.mem, B, p)
  BY <1>4 DEF Freeable
<1>6. Owns(s.mem, B, s.bp, s.req.size) => Owns(r.mem, B, s.bp, s.req.size)
  BY <1>1, <1>3, OwnsAlike
<1> QED BY <1>1, <1>2, <1>3, <1>4, <1>5, <1>6 DEF Fit

(* Likeness carries on.                                                    *)
LEMMA SameTransitive ==
  ASSUME NEW s, NEW t, NEW r, Same(s, t), Same(t, r)
  PROVE  Same(s, r)
<1>1. Alike(s.mem, t.mem, s.brk) /\ Alike(t.mem, r.mem, s.brk)
  BY DEF Same
<1>2. Alike(s.mem, r.mem, s.brk)
  BY <1>1, AlikeTransitive
<1> QED BY <1>2 DEF Same

(* Where the program stands, with n entries of the log before it.          *)
Now(n) == State(mem, brk, pc, req, bp, blocks, n)

(* A block that is free is of some number of words.                        *)
LEMMA FreeSizeInt ==
  ASSUME NEW m, NEW top, NEW B, Good(m, top, B), NEW p \in FreeBlocks(m, B)
  PROVE  Block_size(m, p) \in Int
<1>1. PICK S, A : Pieces(m, top, B, S, A)
  BY GoodElim
<1>2. p \in B
  BY DEF FreeBlocks
<1>3. Layout(top, B, S) /\ Block_size(m, p) = S[p]
  BY <1>1, <1>2, PiecesFacts, GoodIntro
<1> QED BY <1>2, <1>3, LayoutFacts

(* A step of the allocator is After's.                                     *)
LEMMA StepIsAfter ==
  ASSUME mm_step, blocks' = blocks, NEW n, NEW e, Fit(Now(n), e)
  PROVE  Now(n)' = After(Now(n), e)
<1> DEFINE s == Now(n)
<1>1. /\ s.mem = mem /\ s.brk = brk /\ s.pc = pc /\ s.req = req /\ s.bp = bp
      /\ s.blocks = blocks /\ s.at = n
  BY DEF Now, State
<1>2. Now(n)' = State(mem', brk', pc', req', bp', blocks', n)
  BY DEF Now
<1> HIDE DEF s
<1>3. Fit(s, e)
  BY DEF s
<1>4. SUFFICES State(mem', brk', pc', req', bp', blocks', n) = After(s, e)
  BY <1>2 DEF s
<1>5. CASE pc = "find_fit"
  <2>1. PICK B : /\ Good(mem, brk, B) /\ req.size \in Nat
                 /\ bp \in FreeBlocks(mem, B) \union {NULL}
    BY <1>1, <1>3, <1>5 DEF Fit
  <2>2. After(s, e) = Finding(s)
    BY <1>1, <1>5 DEF After
  <2>3. /\ Asked(s) = adjust(req.size) /\ Room(s) = extendsize /\ Asked(s) \in Nat
        /\ Room(s) \in Nat
    <3>1. Asked(s) \in Nat /\ Room(s) \in Nat
      BY <1>1, <2>1, RoomFacts
    <3> QED BY <3>1, <1>1 DEF Asked, Room, extendsize
  <2>4. mem_sbrk_ok(brk, extendsize) <=> Fits(s)
    BY <2>3, <1>1 DEF mem_sbrk_ok, Fits
  <2>5. \A b : malloc_returns(b) => bp' = b /\ pc' = GoesTo(s, b) /\ req' = req
    BY <1>1 DEF malloc_returns, GoesTo
  <2>6. bp # NULL => Block_size(mem, bp) \in Int
    BY <2>1, FreeSizeInt
  <2>7. CASE find_fit_next
    <3>1. /\ bp # NULL /\ Block_size(mem, bp) < adjust(req.size)
          /\ bp' = GET(mem, NEXT_P(bp)) /\ mem' = mem /\ brk' = brk /\ pc' = pc /\ req' = req
      BY <2>7 DEF find_fit_next, Block_size
    <3> QED BY <3>1, <2>2, <2>3, <1>1 DEF Finding, Walking
  <2>8. CASE find_fit_hit
    <3>1. /\ bp # NULL /\ Block_size(mem, bp) >= adjust(req.size)
          /\ mem' = place(mem, bp, adjust(req.size)) /\ malloc_returns(bp) /\ brk' = brk
      BY <2>8 DEF find_fit_hit, Block_size
    <3>2. ~(Block_size(mem, bp) < Asked(s))
      BY <3>1, <2>3, <2>6
    <3> QED BY <3>1, <3>2, <2>2, <2>3, <2>5, <1>1 DEF Finding, Hitting
  <2>9. CASE find_fit_miss_grow
    <3> DEFINE x == extend_heap(mem, brk, extendsize)
    <3>1. /\ bp = NULL /\ mem_sbrk_ok(brk, extendsize)
          /\ mem' = place(x.mem, x.bp, adjust(req.size))
          /\ malloc_returns(x.bp) /\ brk' = brk + extendsize
      BY <2>9 DEF find_fit_miss_grow
    <3>2. Finding(s) = Growing(s)
      BY <3>1, <2>4, <1>1 DEF Finding
    <3>3. Growing(s) = State(place(x.mem, x.bp, adjust(req.size)), brk + extendsize,
                             GoesTo(s, x.bp), req, x.bp, blocks, n)
      BY <2>3, <1>1 DEF Growing
    <3> QED BY <3>1, <3>2, <3>3, <2>2, <2>5
  <2>10. CASE find_fit_miss_fail
    <3>1. /\ bp = NULL /\ ~mem_sbrk_ok(brk, extendsize)
          /\ malloc_returns(NULL) /\ mem' = mem /\ brk' = brk
      BY <2>10 DEF find_fit_miss_fail
    <3> QED BY <3>1, <2>2, <2>4, <2>5, <1>1 DEF Finding, Missing
  <2>11. ~realloc_copy_free
    BY <1>5 DEF realloc_copy_free
  <2> QED BY <2>7, <2>8, <2>9, <2>10, <2>11 DEF mm_step
<1>6. CASE pc = "copy"
  <2>1. realloc_copy_free
    BY <1>6 DEF mm_step, find_fit_next, find_fit_hit, find_fit_miss_grow, find_fit_miss_fail
  <2>2. copy_words = CopiedWords(s)
    BY <1>1 DEF copy_words, CopiedWords, Block_size
  <2>3. /\ mem' = mm_free(memcpy(mem, bp, req.ptr, CopiedWords(s)), req.ptr)
        /\ pc' = "ret" /\ brk' = brk /\ req' = req /\ bp' = bp
    BY <2>1, <2>2 DEF realloc_copy_free
  <2>4. After(s, e) = Copying(s)
    BY <1>1, <1>6 DEF After
  <2> QED BY <2>3, <2>4, <1>1 DEF Copying
<1> QED BY <1>5, <1>6 DEF mm_step, find_fit_next, find_fit_hit, find_fit_miss_grow,
                          find_fit_miss_fail, realloc_copy_free

(* A call, as far as the allocator is concerned, is After's.               *)
LEMMA CallIsAfter ==
  ASSUME pc = "idle", blocks' = blocks, NEW n, NEW e, e.op \in {"malloc", "realloc"},
         e.op = "malloc" => mm_malloc(e.size),
         e.op = "realloc" => mm_realloc(Passes(Now(n), e), e.size)
  PROVE  Now(n)' = After(Now(n), e)
<1> DEFINE s == Now(n)
<1> DEFINE p == Passes(s, e)
<1>1. /\ s.mem = mem /\ s.brk = brk /\ s.pc = pc /\ s.req = req /\ s.bp = bp
      /\ s.blocks = blocks /\ s.at = n
  BY DEF Now, State
<1>2. Now(n)' = State(mem', brk', pc', req', bp', blocks', n)
  BY DEF Now
<1> HIDE DEF s
<1>3. After(s, e) = Calling(s, e)
  BY <1>1 DEF After
<1>4. e.op = "malloc" => p = NULL
  BY DEF Passes
<1> HIDE DEF p
<1>5. req' = [op |-> e.op, ptr |-> p, size |-> e.size] /\ brk' = brk
  BY <1>4 DEF mm_malloc, mm_realloc, mm_malloc_entry, p, s
<1>6. CASE e.size = 0
  <2>1. pc' = "ret" /\ bp' = NULL /\ mem' = mm_free(mem, p)
    BY <1>4, <1>6 DEF mm_malloc, mm_realloc, mm_malloc_entry, p, s, mm_free
  <2>2. Calling(s, e) = State(mm_free(mem, p), brk, "ret",
                              [op |-> e.op, ptr |-> p, size |-> e.size], NULL, blocks, n)
    BY <1>1, <1>6 DEF Calling, p
  <2> QED BY <2>1, <2>2, <1>2, <1>3, <1>5 DEF s
<1>7. CASE e.size # 0
  <2>1. pc' = "find_fit" /\ bp' = GET(mem, free_listp) /\ mem' = mem
    BY <1>4, <1>7 DEF mm_malloc, mm_realloc, mm_malloc_entry, p, s
  <2>2. Calling(s, e) = State(mem, brk, "find_fit",
                              [op |-> e.op, ptr |-> p, size |-> e.size],
                              GET(mem, free_listp), blocks, n)
    BY <1>1, <1>7 DEF Calling, p
  <2> QED BY <2>1, <2>2, <1>2, <1>3, <1>5 DEF s
<1> QED BY <1>6, <1>7

----------------------------------------------------------------------------
(* What the client holds, byte by byte, so that it can be counted.         *)
Bytes(i, n) == {i} \X (1 .. n)
HeldBytes == UNION {Bytes(i, block_sizes[i]) : i \in ranges}

(* A payload of n bytes has n bytes.                                       *)
LEMMA BytesCount ==
  ASSUME NEW i, NEW n \in Nat
  PROVE  IsFiniteSet(Bytes(i, n)) /\ Cardinality(Bytes(i, n)) = n
<1> DEFINE f == [k \in 1 .. n |-> <<i, k>>]
<1>1. f \in Bijection(1 .. n, Bytes(i, n))
  <2>1. f \in [1 .. n -> Bytes(i, n)]
    BY DEF Bytes
  <2>2. \A a, b \in 1 .. n : f[a] = f[b] => a = b
    OBVIOUS
  <2>3. \A x \in Bytes(i, n) : \E k \in 1 .. n : f[k] = x
    BY DEF Bytes
  <2> QED BY <2>1, <2>2, <2>3 DEF Bijection, Injection, Surjection, IsInjective
<1>2. IsFiniteSet(1 .. n) /\ Cardinality(1 .. n) = n
  BY FS_Interval
<1> QED BY <1>1, <1>2, FS_Bijection DEF ExistsBijection

(* An id's payload of old bytes is exchanged for one of new bytes.         *)
LEMMA BytesExchanged ==
  ASSUME NEW H, IsFiniteSet(H), NEW i, NEW old \in Nat, NEW new \in Nat,
         Bytes(i, old) \subseteq H, \A x \in H : x[1] = i => x \in Bytes(i, old),
         NEW K, K = (H \ Bytes(i, old)) \union Bytes(i, new)
  PROVE  IsFiniteSet(K) /\ Cardinality(K) = Cardinality(H) - old + new
<1> DEFINE R == H \ Bytes(i, old)
<1>1. /\ IsFiniteSet(Bytes(i, old)) /\ Cardinality(Bytes(i, old)) = old
      /\ IsFiniteSet(Bytes(i, new)) /\ Cardinality(Bytes(i, new)) = new
  BY BytesCount
<1>2. H \cap Bytes(i, old) = Bytes(i, old)
  OBVIOUS
<1>3. IsFiniteSet(R) /\ Cardinality(R) = Cardinality(H) - old
  <2>1. /\ IsFiniteSet(H \ Bytes(i, old))
        /\ Cardinality(H \ Bytes(i, old)) = Cardinality(H) - Cardinality(H \cap Bytes(i, old))
    BY FS_Difference, Zenon
  <2> QED BY <2>1, <1>1, <1>2
<1>4. R \cap Bytes(i, new) = {}
  BY DEF Bytes
<1>5. /\ IsFiniteSet(R \union Bytes(i, new))
      /\ Cardinality(R \union Bytes(i, new))
           = Cardinality(R) + Cardinality(Bytes(i, new)) - Cardinality({})
  <2> HIDE DEF R
  <2> DEFINE E == Bytes(i, new)
  <2>1. IsFiniteSet(E) /\ R \cap E = {}
    BY <1>1, <1>4
  <2> HIDE DEF E
  <2>2. /\ IsFiniteSet(R \union E)
        /\ Cardinality(R \union E) = Cardinality(R) + Cardinality(E) - Cardinality(R \cap E)
    BY <1>3, <2>1, FS_Union, Zenon
  <2> QED BY <2>1, <2>2 DEF E
<1>6. Cardinality({}) = 0
  BY FS_EmptySet
<1>7. Cardinality(H) \in Int /\ Cardinality(R) \in Int
  BY <1>3, FS_CardinalityType
<1>8. Cardinality(R \union Bytes(i, new)) = Cardinality(H) - old + new
  <2> HIDE DEF R
  <2> QED BY <1>1, <1>3, <1>5, <1>6, <1>7
<1> QED BY <1>5, <1>8

(* Between requests what the client holds fits in the heap.                *)
LEMMA HeldFits ==
  ASSUME IInv, pc = "idle", initialised
  PROVE  /\ IsFiniteSet(HeldBytes)
         /\ Cardinality(HeldBytes) \in Int
         /\ Cardinality(HeldBytes) <= byte(brk) - byte(HeapBase)
<1> DEFINE T == byte(HeapBase) .. (byte(brk) - 1)
<1> DEFINE cell(x) == 4 * blocks[x[1]] + (x[2] - 1)
<1> DEFINE f == [x \in HeldBytes |-> cell(x)]
<1>1. PICK B : /\ Good(mem, brk, B)
               /\ \A i \in ranges : Owns(mem, B, blocks[i], block_sizes[i])
  BY IdleFacts
<1>2. \A i \in ranges : i \in Index /\ block_sizes[i] \in Nat
  BY SizesNat DEF IInv, TypeOK
<1>3. brk \in Int /\ HeapBase \in Int /\ brk >= HeapBase
  <2>1. brk \in HeapBase .. (HeapBase + MAX_HEAP)
    BY DEF IInv, TypeOK
  <2> QED BY <2>1, Defs
<1>4. \A x \in HeldBytes : /\ x[1] \in ranges /\ x[2] \in Nat /\ 1 <= x[2]
                           /\ x[2] <= block_sizes[x[1]] /\ x = <<x[1], x[2]>>
  BY <1>2 DEF HeldBytes, Bytes
<1>5. ASSUME NEW i \in ranges
      PROVE  /\ blocks[i] \in Int /\ blocks[i] >= HeapBase
             /\ payload_words(block_sizes[i]) \in Nat
             /\ 4 * payload_words(block_sizes[i]) >= block_sizes[i]
             /\ blocks[i] + payload_words(block_sizes[i]) + 2 <= brk
             /\ \A j \in ranges : j # i =>
                  \/ blocks[j] >= blocks[i] + payload_words(block_sizes[i]) + 2
                  \/ blocks[i] >= blocks[j] + payload_words(block_sizes[j]) + 2
  <2>1. \A j \in ranges : /\ Owns(mem, B, blocks[j], block_sizes[j])
                          /\ block_sizes[j] \in Nat
    BY <1>1, <1>2
  <2>2. ASSUME NEW j \in ranges
        PROVE  /\ blocks[j] \in Int /\ blocks[j] >= HeapBase
               /\ blocks[j] + payload_words(block_sizes[j]) + 2 <= brk
               /\ \A q \in B : q # blocks[j]
                    => \/ q >= blocks[j] + payload_words(block_sizes[j]) + 2
                       \/ q + Block_size(mem, q) <= blocks[j]
               /\ Block_size(mem, blocks[j]) \in Int
    BY <2>1, <1>1, OwnedBlock
  <2>3. \A j \in ranges : /\ payload_words(block_sizes[j]) \in Nat
                          /\ 4 * payload_words(block_sizes[j]) >= block_sizes[j]
    BY <2>1, SizeFacts
  <2>4. ASSUME NEW j \in ranges, j # i
        PROVE  \/ blocks[j] >= blocks[i] + payload_words(block_sizes[i]) + 2
               \/ blocks[i] >= blocks[j] + payload_words(block_sizes[j]) + 2
    <3>1. blocks[j] \in B /\ blocks[j] # blocks[i]
      BY <2>1, <2>4 DEF IInv, Ids, Owns
    <3>2. \/ blocks[j] >= blocks[i] + payload_words(block_sizes[i]) + 2
          \/ blocks[j] + Block_size(mem, blocks[j]) <= blocks[i]
      BY <3>1, <2>2
    <3>3. Block_size(mem, blocks[j]) >= payload_words(block_sizes[j]) + 2
      BY <2>1 DEF Owns
    <3> QED BY <3>2, <3>3, <2>2, <2>3
  <2> QED BY <2>2, <2>3, <2>4
<1>6. f \in Injection(HeldBytes, T)
  <2>1. ASSUME NEW x \in HeldBytes
        PROVE  cell(x) \in T
    <3>1. /\ x[1] \in ranges /\ x[2] \in Nat /\ 1 <= x[2] /\ x[2] <= block_sizes[x[1]]
          /\ block_sizes[x[1]] \in Nat
      BY <1>2, <1>4
    <3>2. /\ blocks[x[1]] \in Int /\ blocks[x[1]] >= HeapBase
          /\ payload_words(block_sizes[x[1]]) \in Nat
          /\ 4 * payload_words(block_sizes[x[1]]) >= block_sizes[x[1]]
          /\ blocks[x[1]] + payload_words(block_sizes[x[1]]) + 2 <= brk
      BY <3>1, <1>5
    <3> QED BY <3>1, <3>2, <1>3 DEF byte
  <2>2. ASSUME NEW x \in HeldBytes, NEW y \in HeldBytes, cell(x) = cell(y)
        PROVE  x = y
    <3>1. /\ x[1] \in ranges /\ x[2] \in Nat /\ 1 <= x[2] /\ x[2] <= block_sizes[x[1]]
          /\ y[1] \in ranges /\ y[2] \in Nat /\ 1 <= y[2] /\ y[2] <= block_sizes[y[1]]
          /\ block_sizes[x[1]] \in Nat /\ block_sizes[y[1]] \in Nat
      BY <1>2, <1>4
    <3> DEFINE p == blocks[x[1]]
    <3> DEFINE q == blocks[y[1]]
    <3> DEFINE u == payload_words(block_sizes[x[1]])
    <3> DEFINE v == payload_words(block_sizes[y[1]])
    <3>2. /\ p \in Int /\ q \in Int /\ u \in Nat /\ v \in Nat
          /\ 4 * u >= block_sizes[x[1]] /\ 4 * v >= block_sizes[y[1]]
          /\ y[1] # x[1] => q >= p + u + 2 \/ p >= q + v + 2
      BY <3>1, <1>5
    <3> HIDE DEF p, q, u, v
    <3>3. 4 * p + (x[2] - 1) = 4 * q + (y[2] - 1)
      BY <2>2 DEF p, q
    <3>4. x[1] = y[1]
      <4>1. /\ x[2] <= 4 * u /\ y[2] <= 4 * v
        BY <3>1, <3>2
      <4> QED BY <4>1, <3>1, <3>2, <3>3
    <3>5. p = q
      BY <3>4 DEF p, q
    <3>6. x[2] = y[2]
      BY <3>1, <3>2, <3>3, <3>5
    <3> QED BY <3>4, <3>6, <1>4
  <2>3. f \in [HeldBytes -> T]
    BY <2>1
  <2>4. \A x, y \in HeldBytes : f[x] = f[y] => x = y
    BY <2>2
  <2> QED BY <2>3, <2>4 DEF Injection, IsInjective
<1>7. byte(HeapBase) \in Int /\ byte(brk) - 1 \in Int /\ byte(HeapBase) <= byte(brk)
  BY <1>3 DEF byte
<1>8. IsFiniteSet(T) /\ Cardinality(T) = byte(brk) - byte(HeapBase)
  <2> DEFINE lo == byte(HeapBase)
  <2> DEFINE hi == byte(brk) - 1
  <2>1. lo \in Int /\ hi \in Int /\ byte(brk) = hi + 1 /\ lo <= hi + 1
    BY <1>3, <1>7 DEF byte
  <2> HIDE DEF lo, hi
  <2>2. IsFiniteSet(lo .. hi) /\ Cardinality(lo .. hi) = IF lo > hi THEN 0 ELSE hi - lo + 1
    BY <2>1, FS_Interval
  <2>3. Cardinality(lo .. hi) = (hi + 1) - lo
    BY <2>1, <2>2
  <2> QED BY <2>1, <2>2, <2>3 DEF lo, hi
<1>9. IsFiniteSet(HeldBytes) /\ Cardinality(HeldBytes) <= Cardinality(T)
  <2> HIDE DEF f, T
  <2> QED BY <1>6, <1>8, FS_Injection
<1> QED BY <1>8, <1>9, FS_CardinalityType

----------------------------------------------------------------------------
(* The recorded run: the states in which the log's entries were carried    *)
(* out, and beside them what eval_mm_util makes of the same entries.       *)

Count(sizes, total) == [sizes |-> sizes, total |-> total]

(* What a step makes of the sizes of the ids and of their total.           *)
Tally(s, c, e) ==
  CASE s.pc = "idle" /\ e.op = "free"
         -> Count(c.sizes, c.total + -(IF e.index = NoIndex THEN 0 ELSE c.sizes[e.index]))
    [] s.pc = "ret"
         -> Count([c.sizes EXCEPT ![e.index] = e.size],
                  c.total + (IF e.op = "realloc" THEN e.size - c.sizes[e.index] ELSE e.size))
    [] OTHER -> c

Fresh(m) ==
  State(mm_init(m), mm_init_brk, "idle", NoRequest, NULL, [i \in Index |-> NULL], 1)
Starts(s, c) ==
  /\ \E m \in Memory : s = Fresh(m)
  /\ c = Count([i \in Index |-> 0], 0)

(* One step of the log L.                                                  *)
Moves(s, c, r, d, L) ==
  /\ s.at \in 1 .. Len(L) /\ Fit(s, L[s.at])
  /\ Same(r, After(s, L[s.at])) /\ d = Tally(s, c, L[s.at])

Bounded(s, c) ==
  c.total \in Int /\ s.brk \in Int /\ c.total <= byte(s.brk) - byte(HeapBase)

Recorded(h, c, N, L) ==
  /\ N \in Nat /\ Starts(h[0], c[0])
  /\ \A k \in 0 .. (N - 1) : Moves(h[k], c[k], h[k + 1], c[k + 1], L)
  /\ \A k \in 0 .. N : Bounded(h[k], c[k])

Begins(L, M) ==
  /\ Len(L) \in Nat /\ Len(M) \in Nat /\ Len(L) <= Len(M)
  /\ \A k \in 1 .. Len(L) : M[k] = L[k]

Longer(h, N, s) == [k \in 0 .. (N + 1) |-> IF k <= N THEN h[k] ELSE s]

(* A record grows by a step, while its log may grow too.                   *)
LEMMA RecordGrows ==
  ASSUME NEW h, NEW c, NEW N, NEW L, Recorded(h, c, N, L), NEW M, Begins(L, M),
         NEW s, NEW d, Moves(h[N], c[N], s, d, M), Bounded(s, d)
  PROVE  /\ Recorded(Longer(h, N, s), Longer(c, N, d), N + 1, M)
         /\ Longer(h, N, s)[N + 1] = s /\ Longer(c, N, d)[N + 1] = d
<1> DEFINE g == Longer(h, N, s)
<1> DEFINE f == Longer(c, N, d)
<1>1. N \in Nat
  BY DEF Recorded
<1>2. /\ g[N + 1] = s /\ f[N + 1] = d
      /\ \A k \in 0 .. N : g[k] = h[k] /\ f[k] = c[k]
  BY <1>1 DEF Longer
<1> HIDE DEF g, f
<1>3. Starts(g[0], f[0])
  BY <1>1, <1>2 DEF Recorded
<1>4. ASSUME NEW k \in 0 .. N
      PROVE  Moves(g[k], f[k], g[k + 1], f[k + 1], M)
  <2>1. CASE k = N
    BY <2>1, <1>1, <1>2
  <2>2. CASE k # N
    <3>1. k \in 0 .. (N - 1) /\ k + 1 \in 0 .. N
      BY <2>2, <1>1
    <3>2. Moves(h[k], c[k], h[k + 1], c[k + 1], L)
      BY <3>1 DEF Recorded
    <3>3. Moves(h[k], c[k], h[k + 1], c[k + 1], M)
      <4>1. h[k].at \in 1 .. Len(M) /\ M[h[k].at] = L[h[k].at]
        BY <3>2 DEF Moves, Begins
      <4> QED BY <3>2, <4>1 DEF Moves
    <3> QED BY <3>1, <3>3, <1>2
  <2> QED BY <2>1, <2>2
<1>5. ASSUME NEW k \in 0 .. (N + 1)
      PROVE  Bounded(g[k], f[k])
  <2>1. CASE k = N + 1
    BY <2>1, <1>2
  <2>2. CASE k # N + 1
    <3>1. k \in 0 .. N
      BY <2>2, <1>1
    <3> QED BY <3>1, <1>2 DEF Recorded
  <2> QED BY <2>1, <2>2
<1>6. N + 1 \in Nat /\ (N + 1) - 1 = N
  BY <1>1
<1> QED BY <1>2, <1>3, <1>4, <1>5, <1>6 DEF Recorded, g, f

(* A fresh heap's record.                                                  *)
LEMMA RecordStarts ==
  ASSUME NEW m \in Memory, NEW L
  PROVE  Recorded([k \in {0} |-> Fresh(m)],
                  [k \in {0} |-> Count([i \in Index |-> 0], 0)], 0, L)
<1> DEFINE h == [k \in {0} |-> Fresh(m)]
<1> DEFINE c == [k \in {0} |-> Count([i \in Index |-> 0], 0)]
<1>1. h[0] = Fresh(m) /\ c[0] = Count([i \in Index |-> 0], 0)
  OBVIOUS
<1> HIDE DEF h, c
<1>2. Fresh(m).brk = mm_init_brk /\ Count([i \in Index |-> 0], 0).total = 0
  BY DEF Fresh, State, Count
<1>3. mm_init_brk \in Int /\ mm_init_brk >= HeapBase /\ HeapBase \in Int
  <2>1. mm_init_brk \in HeapBase .. (HeapBase + MAX_HEAP)
    BY InitGood
  <2> QED BY <2>1, Defs
<1>4. Bounded(h[0], c[0])
  BY <1>1, <1>2, <1>3 DEF Bounded, byte
<1>5. Starts(h[0], c[0])
  BY <1>1 DEF Starts
<1>6. 0 \in Nat /\ 0 .. (0 - 1) = {} /\ 0 .. 0 = {0}
  OBVIOUS
<1>7. Recorded(h, c, 0, L)
  BY <1>4, <1>5, <1>6 DEF Recorded
<1> QED BY <1>7 DEF h, c

----------------------------------------------------------------------------
(* While eval_mm_valid runs, its run is recorded.                          *)

Entries ==
  [op : {"malloc", "realloc", "free"}, index : Index \union {NoIndex},
   size : Sizes \union {0}, ptr : Pointer]

(* The log once the request in progress is answered with p.                *)
Pending(p) == IF pc = "idle" THEN log ELSE Append(log, Entry(req.op, index, req.size, p))

Witnessed(h, c, N) ==
  /\ h[N] = Now(Len(log) + 1)
  /\ c[N] = Count(block_sizes, Cardinality(HeldBytes)) /\ IsFiniteSet(HeldBytes)
  /\ \A p \in Pointer : Recorded(h, c, N, Pending(p))

(* An appended log goes on where it was.                                   *)
LEMMA Appended ==
  ASSUME NEW L \in Seq(Entries), NEW e
  PROVE  /\ Begins(L, Append(L, e)) /\ Begins(L, L)
         /\ Len(Append(L, e)) = Len(L) + 1 /\ Append(L, e)[Len(L) + 1] = e
         /\ Len(L) \in Nat /\ Begins(Append(L, e), Append(L, e))
<1>1. /\ Len(L) \in Nat /\ Len(Append(L, e)) = Len(L) + 1
      /\ Append(L, e)[Len(L) + 1] = e
      /\ \A k \in 1 .. Len(L) : Append(L, e)[k] = L[k]
  OBVIOUS
<1> QED BY <1>1 DEF Begins

(* The allocator is asked for what it can do.                              *)
LEMMA FitNow ==
  ASSUME IInv, running, NEW n, NEW e,
         pc = "idle" => Passes(Now(n), e) = NULL \/ \E i \in ranges : Passes(Now(n), e) = blocks[i],
         pc = "ret" => bp = e.ptr /\ (bp = NULL => e.size = 0)
  PROVE  Fit(Now(n), e)
<1> DEFINE s == Now(n)
<1>1. /\ s.mem = mem /\ s.brk = brk /\ s.pc = pc /\ s.req = req /\ s.bp = bp
      /\ s.blocks = blocks /\ s.at = n
  BY DEF Now, State
<1> HIDE DEF s
<1>2. pc \in {"idle", "find_fit", "copy", "ret"} /\ req.size \in Nat
  BY SizesNat DEF IInv, TypeOK
<1>3. initialised
  BY DEF IInv, Control
<1>4. PICK B : HeldHeap(B)
  BY <1>3 DEF IInv, HeapInv
<1>5. Good(mem, brk, B)
  BY <1>4 DEF HeldHeap
<1>6. ASSUME NEW i \in ranges, pc # "ret"
      PROVE  Freeable(mem, B, blocks[i]) /\ blocks[i] # NULL
  <2>1. Live = ranges
    BY <1>6 DEF Live, IsReleased
  <2>2. Owns(mem, B, blocks[i], block_sizes[i])
    BY <1>4, <2>1 DEF HeldHeap
  <2>3. blocks[i] # NULL
    BY DEF IInv, Ids
  <2> QED BY <2>2, <2>3 DEF Owns, Freeable
<1>7. pc = "idle" => Freeable(mem, B, Passes(s, e))
  BY <1>6 DEF s, Freeable
<1>8. pc = "find_fit" => bp \in FreeBlocks(mem, B) \union {NULL}
  BY <1>4 DEF HeldHeap
<1>9. pc = "copy" => /\ Owns(mem, B, bp, req.size)
                     /\ Freeable(mem, B, req.ptr) /\ req.ptr # NULL
  <2> SUFFICES ASSUME pc = "copy"
               PROVE  /\ Owns(mem, B, bp, req.size)
                      /\ Freeable(mem, B, req.ptr) /\ req.ptr # NULL
    OBVIOUS
  <2>1. req.op = "realloc" /\ index \in ranges /\ bp # NULL
    BY DEF IInv, Control
  <2>2. req.ptr = blocks[index] /\ IsGranted
    BY <2>1 DEF IInv, Control, IsGranted
  <2> QED BY <2>1, <2>2, <1>4, <1>6 DEF HeldHeap
<1>10. Fit(s, e)
  BY <1>1, <1>2, <1>5, <1>7, <1>8, <1>9 DEF Fit
<1> QED BY <1>10 DEF s

(* The present is like itself.                                             *)
LEMMA SameNow ==
  ASSUME IInv, initialised, NEW n
  PROVE  Same(Now(n), Now(n))
<1>1. PICK B : Good(mem, brk, B)
  BY DEF IInv, HeapInv, HeldHeap
<1>2. Alike(mem, mem, brk)
  BY <1>1, AlikeItself
<1> QED BY <1>2, SameStates DEF Now

(* The same one step later.                                                *)
LEMMA SameNowNext ==
  (IInv /\ initialised)' => (\A n : Same(Now(n), Now(n)))'
<1>1. (IInv /\ initialised) => \A n : Same(Now(n), Now(n))
  BY SameNow
<1> QED BY <1>1, PTL

(* The same one step later.                                                *)
LEMMA HeldFitsNext ==
  (IInv /\ pc = "idle" /\ initialised)'
    => (/\ IsFiniteSet(HeldBytes) /\ Cardinality(HeldBytes) \in Int
        /\ Cardinality(HeldBytes) <= byte(brk) - byte(HeapBase))'
<1>1. (IInv /\ pc = "idle" /\ initialised)
        => /\ IsFiniteSet(HeldBytes) /\ Cardinality(HeldBytes) \in Int
           /\ Cardinality(HeldBytes) <= byte(brk) - byte(HeapBase)
  BY HeldFits
<1> QED BY <1>1, PTL

(* The heap never shrinks.                                                 *)
LEMMA BrkGrows ==
  ASSUME brk \in Int, pc = "find_fit" => req.size \in Nat, mm_step
  PROVE  brk' \in Int /\ brk' >= brk
<1>1. CASE pc # "find_fit"
  BY <1>1 DEF mm_step, find_fit_next, find_fit_hit, find_fit_miss_grow, find_fit_miss_fail,
              realloc_copy_free
<1>2. CASE pc = "find_fit"
  <2>1. Now(0).req = req
    BY DEF Now, State
  <2>2. Room(Now(0)) = extendsize /\ Room(Now(0)) \in Nat
    BY <1>2, <2>1, RoomFacts DEF Room, Asked, extendsize
  <2>3. brk' = brk \/ brk' = brk + extendsize
    BY DEF mm_step, find_fit_next, find_fit_hit, find_fit_miss_grow, find_fit_miss_fail,
           realloc_copy_free
  <2> QED BY <2>2, <2>3
<1> QED BY <1>1, <1>2

(* The allocator's steps are recorded.                                     *)
LEMMA StepWitnessed ==
  ASSUME IInv, IInv', log \in Seq(Entries), NEW h, NEW c, NEW N, Witnessed(h, c, N),
         Step, log' = log
  PROVE  \E g, f, K : Witnessed(g, f, K)'
<1> DEFINE n == Len(log) + 1
<1> DEFINE e(p) == Entry(req.op, index, req.size, p)
<1>1. pc \in {"find_fit", "copy"} /\ pc' # "idle" /\ req' = req /\ mm_step
  BY DEF Step, mm_step, find_fit_next, find_fit_hit, find_fit_miss_grow,
         find_fit_miss_fail, malloc_returns, realloc_copy_free
<1>2. /\ blocks' = blocks /\ block_sizes' = block_sizes /\ ranges' = ranges
      /\ index' = index /\ running' = running
  BY DEF Step, drvvars
<1>3. running /\ initialised /\ initialised'
  BY <1>1, <1>2 DEF IInv, Control
<1>4. HeldBytes' = HeldBytes
  BY <1>2 DEF HeldBytes
<1>5. \A p : Pending(p) = Append(log, e(p)) /\ Pending(p)' = Append(log, e(p))
  BY <1>1, <1>2 DEF Pending
<1>6. /\ h[N] = Now(n) /\ c[N] = Count(block_sizes, Cardinality(HeldBytes))
      /\ IsFiniteSet(HeldBytes)
      /\ \A p \in Pointer : Recorded(h, c, N, Append(log, e(p)))
  BY <1>5 DEF Witnessed
<1>7. /\ Now(n).at = n /\ Now(n).pc = pc /\ Now(n).brk = brk
      /\ Now(n)' = State(mem', brk', pc', req', bp', blocks', n)
  <2>1. n' = n
    OBVIOUS
  <2> QED BY <2>1 DEF Now, State
<1>8. Bounded(Now(n), c[N])
  <2>1. NULL \in Pointer
    BY DEF Pointer
  <2>2. Recorded(h, c, N, Append(log, e(NULL)))
    BY <2>1, <1>6
  <2>3. N \in 0 .. N
    BY <2>2 DEF Recorded
  <2> QED BY <2>2, <2>3, <1>6 DEF Recorded
<1>9. Bounded(Now(n)', c[N])
  <2>1. brk \in Int /\ brk' \in Int /\ brk' >= brk /\ HeapBase \in Int
    <3>1. brk \in HeapBase .. (HeapBase + MAX_HEAP) /\ req.size \in Nat
      BY SizesNat DEF IInv, TypeOK
    <3> QED BY <1>1, <3>1, BrkGrows, Defs
  <2>2. Now(n)'.brk = brk'
    BY <1>7 DEF State
  <2> QED BY <2>1, <2>2, <1>7, <1>8 DEF Bounded, byte
<1>10. ASSUME NEW p \in Pointer
       PROVE  Moves(Now(n), c[N], Now(n)', c[N], Append(log, e(p)))
  <2>1. Append(log, e(p))[n] = e(p) /\ n \in 1 .. Len(Append(log, e(p)))
    BY Appended
  <2>2. Fit(Now(n), e(p))
    BY <1>1, <1>3, FitNow
  <2>3. Now(n)' = After(Now(n), e(p))
    BY <1>1, <1>2, <2>2, StepIsAfter
  <2>4. Same(Now(n)', Now(n)')
    BY <1>3, SameNowNext
  <2>5. Tally(Now(n), c[N], e(p)) = c[N]
    BY <1>1, <1>7 DEF Tally
  <2> QED BY <2>1, <2>2, <2>3, <2>4, <2>5, <1>7 DEF Moves
<1>11. PICK g, f : /\ g[N + 1] = Now(n)' /\ f[N + 1] = c[N]
                   /\ \A p \in Pointer : Recorded(g, f, N + 1, Append(log, e(p)))
  <2> DEFINE g == Longer(h, N, Now(n)')
  <2> DEFINE f == Longer(c, N, c[N])
  <2>1. ASSUME NEW p \in Pointer
        PROVE  /\ Recorded(g, f, N + 1, Append(log, e(p)))
               /\ g[N + 1] = Now(n)' /\ f[N + 1] = c[N]
    <3>1. Begins(Append(log, e(p)), Append(log, e(p)))
      BY Appended
    <3> QED BY <3>1, <1>6, <1>9, <1>10, RecordGrows
  <2>2. NULL \in Pointer
    BY DEF Pointer
  <2> HIDE DEF g, f
  <2> QED BY <2>1, <2>2
<1>12. Witnessed(g, f, N + 1)'
  <2>1. Now(Len(log) + 1)' = Now(n)'
    OBVIOUS
  <2>2. Count(block_sizes, Cardinality(HeldBytes))' = c[N] /\ IsFiniteSet(HeldBytes)'
    BY <1>2, <1>4, <1>6
  <2>3. \A p \in Pointer : Recorded(g, f, N + 1, Pending(p)')
    BY <1>5, <1>11
  <2> QED BY <2>1, <2>2, <2>3, <1>11 DEF Witnessed
<1> QED BY <1>12

(* So is the call that a request makes.                                    *)
LEMMA CallWitnessed ==
  ASSUME IInv, IInv', log \in Seq(Entries), NEW h, NEW c, NEW N, Witnessed(h, c, N),
         next_op, NEW i \in Index, NEW size, NEW op \in {"malloc", "realloc"},
         op = "malloc" => mm_malloc(size),
         op = "realloc" => mm_realloc(blocks[i], size) /\ (i \in ranges \/ blocks[i] = NULL),
         index' = i, ranges' = ranges, log' = log
  PROVE  \E g, f, K : Witnessed(g, f, K)'
<1> DEFINE n == Len(log) + 1
<1> DEFINE e(p) == Entry(op, i, size, p)
<1>1. /\ pc = "idle" /\ pc' # "idle" /\ req'.op = op /\ req'.size = size
      /\ brk' = brk
  BY DEF next_op, mm_malloc, mm_realloc, mm_malloc_entry
<1>2. blocks' = blocks /\ block_sizes' = block_sizes /\ running' = running /\ running
  BY DEF next_op
<1>3. initialised'
  BY <1>2 DEF IInv, Control
<1>4. HeldBytes' = HeldBytes
  BY <1>2 DEF HeldBytes
<1>5. \A p : Pending(p) = log /\ Pending(p)' = Append(log, e(p))
  BY <1>1 DEF Pending
<1>6. /\ h[N] = Now(n) /\ c[N] = Count(block_sizes, Cardinality(HeldBytes))
      /\ IsFiniteSet(HeldBytes) /\ Recorded(h, c, N, log)
  <2>1. NULL \in Pointer
    BY DEF Pointer
  <2> QED BY <2>1, <1>5 DEF Witnessed
<1>7. /\ Now(n).at = n /\ Now(n).pc = pc /\ Now(n).brk = brk /\ Now(n).blocks = blocks
      /\ Now(n)' = State(mem', brk', pc', req', bp', blocks', n)
  <2>1. n' = n
    OBVIOUS
  <2> QED BY <2>1 DEF Now, State
<1>8. Bounded(Now(n)', c[N])
  <2>1. N \in 0 .. N
    BY <1>6 DEF Recorded
  <2>2. Bounded(Now(n), c[N])
    BY <2>1, <1>6 DEF Recorded
  <2>3. Now(n)'.brk = brk'
    BY <1>7 DEF State
  <2> QED BY <2>2, <2>3, <1>1, <1>7 DEF Bounded
<1>9. ASSUME NEW p
      PROVE  Moves(Now(n), c[N], Now(n)', c[N], Append(log, e(p)))
  <2>1. Append(log, e(p))[n] = e(p) /\ n \in 1 .. Len(Append(log, e(p)))
    BY Appended
  <2>2. e(p).op = op /\ e(p).index = i /\ e(p).size = size /\ i # NoIndex
    BY DriverAssumption DEF Entry
  <2> HIDE DEF e
  <2>3. Passes(Now(n), e(p)) = IF op = "malloc" THEN NULL ELSE blocks[i]
    BY <2>2, <1>7 DEF Passes, Holder
  <2>4. Fit(Now(n), e(p))
    BY <2>3, <1>1, <1>2, FitNow
  <2>5. Now(n)' = After(Now(n), e(p))
    BY <2>2, <2>3, <1>1, <1>2, CallIsAfter
  <2>6. Same(Now(n)', Now(n)')
    BY <1>3, SameNowNext
  <2>7. Tally(Now(n), c[N], e(p)) = c[N]
    BY <2>2, <1>1, <1>7 DEF Tally
  <2> QED BY <2>1, <2>4, <2>5, <2>6, <2>7, <1>7 DEF Moves
<1>10. PICK g, f : /\ g[N + 1] = Now(n)' /\ f[N + 1] = c[N]
                   /\ \A p \in Pointer : Recorded(g, f, N + 1, Append(log, e(p)))
  <2> DEFINE g == Longer(h, N, Now(n)')
  <2> DEFINE f == Longer(c, N, c[N])
  <2>1. ASSUME NEW p \in Pointer
        PROVE  /\ Recorded(g, f, N + 1, Append(log, e(p)))
               /\ g[N + 1] = Now(n)' /\ f[N + 1] = c[N]
    <3>1. Begins(log, Append(log, e(p)))
      BY Appended
    <3> QED BY <3>1, <1>6, <1>8, <1>9, RecordGrows
  <2>2. NULL \in Pointer
    BY DEF Pointer
  <2> HIDE DEF g, f
  <2> QED BY <2>1, <2>2
<1>11. Witnessed(g, f, N + 1)'
  <2>1. Now(Len(log) + 1)' = Now(n)'
    OBVIOUS
  <2>2. Count(block_sizes, Cardinality(HeldBytes))' = c[N] /\ IsFiniteSet(HeldBytes)'
    BY <1>2, <1>4, <1>6
  <2>3. \A p \in Pointer : Recorded(g, f, N + 1, Pending(p)')
    BY <1>5, <1>10
  <2> QED BY <2>1, <2>2, <2>3, <1>10 DEF Witnessed
<1> QED BY <1>11

(* A request is over: the log has its answer.                              *)
LEMMA EndWitnessed ==
  ASSUME IInv', initialised', pc' = "idle", NEW L, log' = L,
         NEW h, NEW c, NEW N, NEW J, Recorded(h, c, N, J), Begins(J, L),
         NEW n \in Nat, Len(L) = n, h[N].at = n,
         Fit(h[N], L[n]), Same(Now(n + 1)', After(h[N], L[n])),
         Count(block_sizes, Cardinality(HeldBytes))' = Tally(h[N], c[N], L[n]),
         n >= 1
  PROVE  \E g, f, K : Witnessed(g, f, K)'
<1> DEFINE d == Tally(h[N], c[N], L[n])
<1>1. /\ IsFiniteSet(HeldBytes)'
      /\ (Cardinality(HeldBytes) \in Int)'
      /\ (Cardinality(HeldBytes) <= byte(brk) - byte(HeapBase))'
  BY HeldFitsNext
<1>2. Bounded(Now(n + 1)', d)
  <2>1. brk' \in Int
    <3>1. brk' \in HeapBase .. (HeapBase + MAX_HEAP)
      BY DEF IInv, TypeOK
    <3> QED BY <3>1, Defs
  <2>2. Now(n + 1)'.brk = brk' /\ d.total = Cardinality(HeldBytes')
    BY DEF Now, State, Count
  <2> QED BY <2>1, <2>2, <1>1 DEF Bounded, byte
<1>3. Moves(h[N], c[N], Now(n + 1)', d, L)
  <2>1. n \in 1 .. Len(L)
    OBVIOUS
  <2> QED BY <2>1 DEF Moves
<1>4. PICK g, f : /\ g[N + 1] = Now(n + 1)' /\ f[N + 1] = d
                  /\ Recorded(g, f, N + 1, L)
  <2> HIDE DEF d
  <2> QED BY <1>2, <1>3, RecordGrows
<1>5. Witnessed(g, f, N + 1)'
  <2>1. Now(Len(log) + 1)' = Now(n + 1)'
    OBVIOUS
  <2>2. \A p : Pending(p)' = L
    BY DEF Pending
  <2>3. \A p \in Pointer : Recorded(g, f, N + 1, Pending(p)')
    BY <2>2, <1>4
  <2> QED BY <2>1, <2>3, <1>1, <1>4 DEF Witnessed
<1> QED BY <1>5

(* Only one id's payload changes.                                          *)
LEMMA HeldChanges ==
  ASSUME IInv, IsFiniteSet(HeldBytes), NEW i \in Index, NEW new \in Nat,
         ranges' \ {i} = ranges \ {i},
         \A j \in ranges \ {i} : block_sizes'[j] = block_sizes[j],
         i \in ranges' => block_sizes'[i] = new, i \notin ranges' => new = 0,
         NEW old, old = IF i \in ranges THEN block_sizes[i] ELSE 0
  PROVE  /\ Cardinality(HeldBytes)' = Cardinality(HeldBytes) - old + new
         /\ Cardinality(HeldBytes) \in Int /\ old \in Nat
<1>1. old \in Nat
  BY SizesNat DEF IInv, TypeOK
<1>2. Bytes(i, 0) = {}
  BY DEF Bytes
<1>3. Bytes(i, old) \subseteq HeldBytes
  BY <1>2 DEF HeldBytes
<1>4. \A x \in HeldBytes : x[1] = i => x \in Bytes(i, old)
  BY DEF HeldBytes, Bytes
<1>5. HeldBytes' = (HeldBytes \ Bytes(i, old)) \union Bytes(i, new)
  <2> DEFINE R == UNION {Bytes(j, block_sizes[j]) : j \in ranges \ {i}}
  <2>1. HeldBytes' = UNION {Bytes(j, block_sizes'[j]) : j \in ranges'}
    BY DEF HeldBytes
  <2>2. HeldBytes = R \union Bytes(i, old)
    BY <1>2 DEF HeldBytes
  <2>3. HeldBytes' = R \union Bytes(i, new)
    BY <1>2, <2>1
  <2>4. R \cap Bytes(i, old) = {}
    BY DEF Bytes
  <2> HIDE DEF R
  <2> QED BY <2>2, <2>3, <2>4
<1>6. Cardinality(HeldBytes') = Cardinality(HeldBytes) - old + new
  <2>1. PICK H, K : H = HeldBytes /\ K = HeldBytes'
    OBVIOUS
  <2>2. K = (H \ Bytes(i, old)) \union Bytes(i, new)
    BY <2>1, <1>5
  <2>3. IsFiniteSet(H) /\ Bytes(i, old) \subseteq H /\ \A x \in H : x[1] = i => x \in Bytes(i, old)
    BY <2>1, <1>3, <1>4
  <2>4. Cardinality(K) = Cardinality(H) - old + new
    BY <1>1, <2>2, <2>3, BytesExchanged
  <2> QED BY <2>1, <2>4
<1>7. Cardinality(HeldBytes) \in Int
  BY FS_CardinalityType
<1> QED BY <1>1, <1>6, <1>7

(* So is a free.                                                           *)
LEMMA FreeWitnessed ==
  ASSUME IInv, IInv', log \in Seq(Entries), NEW h, NEW c, NEW N, Witnessed(h, c, N),
         NEW i \in Index \union {NoIndex}, IF i = NoIndex THEN FreeNull ELSE Free(i),
         logged(Entry("free", i, 0, NULL))
  PROVE  \E g, f, K : Witnessed(g, f, K)'
<1>0. PICK n, e, L : n = Len(log) + 1 /\ e = Entry("free", i, 0, NULL) /\ L = Append(log, e)
  OBVIOUS
<1> DEFINE p == IF i = NoIndex THEN NULL ELSE blocks[i]
<1>1. /\ next_op /\ brk' = brk /\ pc' = pc /\ req' = req /\ bp' = bp
      /\ mem' = mm_free(mem, p) /\ (i # NoIndex => i \in ranges)
  BY DEF Free, FreeNull
<1>2. /\ blocks' = blocks /\ block_sizes' = block_sizes /\ running' = running /\ running
      /\ pc = "idle"
  BY <1>1 DEF next_op
<1>3. initialised'
  BY <1>2 DEF IInv, Control
<1>4. /\ h[N] = Now(n) /\ c[N] = Count(block_sizes, Cardinality(HeldBytes))
      /\ IsFiniteSet(HeldBytes) /\ Recorded(h, c, N, log)
  <2>1. NULL \in Pointer
    BY DEF Pointer
  <2> QED BY <2>1, <1>0, <1>2 DEF Witnessed, Pending
<1>5. /\ Now(n).at = n /\ Now(n).pc = pc /\ Now(n).brk = brk /\ Now(n).blocks = blocks
      /\ Now(n).mem = mem /\ Now(n).req = req /\ Now(n).bp = bp
      /\ Now(n + 1)' = State(mem', brk', pc', req', bp', blocks', n + 1)
  BY DEF Now, State
<1>6. e.op = "free" /\ e.index = i
  BY <1>0 DEF Entry
<1>7. Begins(log, L) /\ Len(L) = n /\ L[n] = e /\ n \in Nat /\ n >= 1 /\ log' = L
  BY <1>0, Appended DEF logged
<1>8. Passes(Now(n), e) = p /\ Holder(Now(n), e) = p
  BY <1>5, <1>6 DEF Passes, Holder
<1>9. Fit(Now(n), e)
  BY <1>1, <1>2, <1>8, FitNow
<1>10. Now(n + 1)' = After(Now(n), e)
  BY <1>1, <1>2, <1>5, <1>6, <1>8 DEF After, Freeing
<1>11. Same(Now(n + 1)', After(Now(n), e))
  <2>1. Same(Now(n + 1)', Now(n + 1)')
    BY <1>3, SameNowNext
  <2> QED BY <2>1, <1>10
<1>12. Count(block_sizes, Cardinality(HeldBytes))' = Tally(Now(n), c[N], e)
  <2>1. CASE i = NoIndex
    <3>1. ranges' = ranges
      BY <2>1 DEF FreeNull
    <3>2. HeldBytes' = HeldBytes
      BY <3>1, <1>2 DEF HeldBytes
    <3>3. Cardinality(HeldBytes) + -(0) = Cardinality(HeldBytes)
      BY <1>4, FS_CardinalityType
    <3> QED BY <2>1, <3>2, <3>3, <1>2, <1>4, <1>5, <1>6 DEF Tally, Count
  <2>2. CASE i # NoIndex
    <3>1. i \in ranges /\ i \in Index /\ block_sizes[i] \in Nat
      BY <2>2, <1>1, SizesNat DEF IInv, TypeOK
    <3>2. ranges' = ranges \ {i}
      BY <2>2, <3>1, RangeOfId DEF Free
    <3>3. /\ Cardinality(HeldBytes)' = Cardinality(HeldBytes) - block_sizes[i] + 0
          /\ Cardinality(HeldBytes) \in Int
      BY <3>1, <3>2, <1>2, <1>4, HeldChanges
    <3>4. Cardinality(HeldBytes)' = Cardinality(HeldBytes) + -(block_sizes[i])
      BY <3>1, <3>3
    <3> QED BY <2>2, <3>4, <1>2, <1>4, <1>5, <1>6 DEF Tally, Count
  <2> QED BY <2>1, <2>2
<1>13. /\ h[N].at = n /\ Fit(h[N], L[n]) /\ Same(Now(n + 1)', After(h[N], L[n]))
       /\ Count(block_sizes, Cardinality(HeldBytes))' = Tally(h[N], c[N], L[n])
       /\ pc' = "idle"
  BY <1>1, <1>2, <1>4, <1>5, <1>7, <1>9, <1>11, <1>12
<1> QED BY <1>3, <1>4, <1>7, <1>13, EndWitnessed

(* A trace that goes on accepted the answer.                               *)
LEMMA ReturnKept ==
  ASSUME IInv, running', AllocReturn \/ ReallocReturn
  PROVE  /\ pc = "ret" /\ remember /\ mm_return /\ index' = NoIndex /\ brk' = brk
         /\ index \in Index /\ req.size \in Nat /\ (bp = NULL <=> req.size = 0)
         /\ ranges' \ {index} = ranges \ {index}
         /\ index \in ranges' <=> req.size # 0
         /\ req.op \in {"malloc", "realloc"}
         /\ req.op = "malloc" => index \notin ranges
         /\ req.op = "realloc" => index \in ranges \/ block_sizes[index] = 0
<1>1. /\ pc = "ret" /\ mm_return /\ index' = NoIndex /\ brk' = brk
      /\ req.op \in {"malloc", "realloc"}
  BY DEF AllocReturn, ReallocReturn
<1>2. index \in Index /\ req.size \in Nat /\ (req.size = 0 => bp = NULL)
  BY <1>1, ReturnFacts
<1>3. \A v : ~give_up(v)
  BY DEF give_up
<1>4. CASE AllocReturn
  <2>1. req.op = "malloc" /\ alloc_verdict(ranges) = "ok"
    BY <1>3, <1>4 DEF AllocReturn
  <2>2. remember /\ ranges' = ranges \union {index}
    BY <2>1, <1>4 DEF AllocReturn
  <2>3. bp # NULL
    BY <2>1 DEF alloc_verdict
  <2>4. index \notin ranges
    BY <2>1, <1>1 DEF IInv, Control
  <2> QED BY <2>1, <2>2, <2>3, <2>4, <1>1, <1>2
<1>5. CASE ReallocReturn
  <2> DEFINE rest == remove_range(ranges, blocks[index])
  <2>1. req.op = "realloc" /\ realloc_verdict(rest) = "ok"
    BY <1>3, <1>5 DEF ReallocReturn
  <2>2. index \in ranges \/ blocks[index] = NULL
    BY <2>1, <1>1 DEF IInv, Control
  <2>3. rest = ranges \ {index}
    BY <2>2, <1>2, RangeOfId
  <2>4. remember
    BY <2>1, <1>5 DEF ReallocReturn
  <2>5. req.size # 0 => bp # NULL
    BY <2>1 DEF realloc_verdict, alloc_verdict
  <2>6. ranges' = IF req.size > 0 THEN rest \union {index} ELSE rest
    BY <2>1, <1>5 DEF ReallocReturn
  <2> HIDE DEF rest
  <2>7. req.size > 0 <=> req.size # 0
    BY <1>2
  <2>8. index \in ranges \/ block_sizes[index] = 0
    BY <2>2, <1>2 DEF IInv, Ids
  <2> QED BY <2>1, <2>3, <2>4, <2>5, <2>6, <2>7, <2>8, <1>1, <1>2
<1> QED BY <1>4, <1>5

(* Filling the payload that was answered with goes unseen.                 *)
LEMMA FilledAlike ==
  ASSUME IInv, pc = "ret", bp = NULL <=> req.size = 0
  PROVE  Alike(mem, randomize_block(mem, index, bp, req.size), brk)
<1> DEFINE m == randomize_block(mem, index, bp, req.size)
<1> DEFINE w == payload_words(req.size)
<1>1. PICK B : Good(mem, brk, B) /\ (bp # NULL => Owns(mem, B, bp, req.size))
  BY ReturnFacts
<1>2. req.size \in Nat /\ index \in Index
  BY ReturnFacts
<1>3. CASE bp = NULL
  <2>1. mem = [a \in DOMAIN mem |-> mem[a]]
    BY DEF IInv, TypeOK
  <2>2. bp .. (bp + w - 1) = {}
    <3>1. w = 0
      BY <1>2, <1>3, SizeFacts
    <3>2. 0 .. (0 + 0 - 1) = {} /\ NULL = 0
      BY DEF NULL
    <3> HIDE DEF w
    <3> QED BY <3>1, <3>2, <1>3
  <2>3. m = mem
    BY <2>1, <2>2 DEF randomize_block
  <2> QED BY <2>3, <1>1, AlikeItself
<1>4. CASE bp # NULL
  <2>1. /\ bp \in Int /\ bp >= HeapBase /\ bp + w + 2 <= brk
        /\ \A a \in bp .. (bp + w - 1) : a \in Addr
        /\ Block_size(mem, bp) \in Int /\ Block_size(mem, bp) >= w + 2
    BY <1>1, <1>2, <1>4, OwnedBlock DEF Owns
  <2>2. brk \in Int /\ brk <= HeapBase + MAX_HEAP /\ mem \in Memory
    BY <1>1 DEF Good
  <2>3. w \in Nat
    BY <1>2, SizeFacts
  <2> HIDE DEF w
  <2>4. w <= MAX_HEAP
    BY <2>1, <2>2, <2>3, Defs
  <2>5. m \in Memory /\ Outside(mem, m, bp, bp + w - 1)
    BY <2>1, <2>2, <2>4, <1>2, RandomizeFacts DEF w
  <2> HIDE DEF m
  <2>6. Outside(mem, m, bp, bp + Block_size(mem, bp) - 3)
    <3>1. \A a \in Int : a > bp + Block_size(mem, bp) - 3 => a > bp + w - 1
      BY <2>1, <2>3
    <3> QED BY <2>5, <3>1, Defs DEF Outside, Addr
  <2>7. bp \in B /\ Allocated(mem, bp)
    BY <1>1, <1>4 DEF Owns
  <2>8. Alike(mem, m, brk)
    BY <2>5, <2>6, <2>7, <1>1, PayloadAlike
  <2> QED BY <2>8 DEF m
<1> QED BY <1>3, <1>4

(* So is the answer to a request.                                          *)
LEMMA ReturnWitnessed ==
  ASSUME IInv, IInv', log \in Seq(Entries), NEW h, NEW c, NEW N, Witnessed(h, c, N),
         AllocReturn \/ ReallocReturn, logged(Entry(req.op, index, req.size, bp)), running'
  PROVE  \E g, f, K : Witnessed(g, f, K)'
<1>0. PICK n, e, L : /\ n = Len(log) + 1 /\ e = Entry(req.op, index, req.size, bp)
                     /\ L = Append(log, e)
  OBVIOUS
<1>1. /\ pc = "ret" /\ remember /\ mm_return /\ index' = NoIndex /\ brk' = brk
      /\ index \in Index /\ req.size \in Nat /\ (bp = NULL <=> req.size = 0)
      /\ ranges' \ {index} = ranges \ {index}
      /\ index \in ranges' <=> req.size # 0
      /\ req.op \in {"malloc", "realloc"}
      /\ req.op = "malloc" => index \notin ranges
      /\ req.op = "realloc" => index \in ranges \/ block_sizes[index] = 0
  BY ReturnKept
<1>2. /\ pc' = "idle" /\ req' = NoRequest /\ bp' = NULL
      /\ blocks' = [blocks EXCEPT ![index] = bp]
      /\ block_sizes' = [block_sizes EXCEPT ![index] = req.size]
      /\ mem' = randomize_block(mem, index, bp, req.size)
  BY <1>1 DEF remember, mm_return
<1>3. initialised' /\ running
  BY <1>1 DEF IInv, Control
<1>4. /\ h[N] = Now(n) /\ c[N] = Count(block_sizes, Cardinality(HeldBytes))
      /\ IsFiniteSet(HeldBytes) /\ Recorded(h, c, N, L)
  <2>1. bp \in Pointer
    BY DEF IInv, TypeOK
  <2>2. Pending(bp) = L
    BY <1>0, <1>1 DEF Pending
  <2> QED BY <2>1, <2>2, <1>0 DEF Witnessed
<1>5. /\ Now(n).at = n /\ Now(n).pc = pc /\ Now(n).brk = brk /\ Now(n).blocks = blocks
      /\ Now(n).mem = mem /\ Now(n).req = req /\ Now(n).bp = bp
      /\ Now(n + 1)' = State(mem', brk', pc', req', bp', blocks', n + 1)
  BY DEF Now, State
<1>6. e.op = req.op /\ e.index = index /\ e.size = req.size /\ e.ptr = bp
  BY <1>0 DEF Entry
<1>7. Begins(L, L) /\ Len(L) = n /\ L[n] = e /\ n \in Nat /\ n >= 1 /\ log' = L
  BY <1>0, Appended DEF logged
<1>8. Fit(Now(n), e)
  BY <1>1, <1>3, <1>6, FitNow
<1>9. Same(Now(n + 1)', After(Now(n), e))
  <2>1. After(Now(n), e) = State(mem, brk, "idle", NoRequest, NULL,
                                 [blocks EXCEPT ![index] = bp], n + 1)
    BY <1>1, <1>5, <1>6 DEF After, Returning
  <2>2. Alike(mem, mem', brk)
    BY <1>1, <1>2, FilledAlike
  <2>3. Alike(mem', mem, brk)
    BY <2>2, AlikeSymmetric
  <2>4. Now(n + 1)' = State(mem', brk, "idle", NoRequest, NULL,
                            [blocks EXCEPT ![index] = bp], n + 1)
    BY <1>1, <1>2, <1>5
  <2> QED BY <2>1, <2>3, <2>4, SameStates
<1>10. Count(block_sizes, Cardinality(HeldBytes))' = Tally(Now(n), c[N], e)
  <2> DEFINE old == IF index \in ranges THEN block_sizes[index] ELSE 0
  <2>1. block_sizes \in [Index -> Nat]
    BY SizesNat DEF IInv, TypeOK
  <2>2. /\ Cardinality(HeldBytes)' = Cardinality(HeldBytes) - old + req.size
        /\ Cardinality(HeldBytes) \in Int /\ old \in Nat
    <3>1. \A j \in ranges \ {index} : block_sizes'[j] = block_sizes[j]
      BY <1>2, <2>1 DEF IInv, TypeOK
    <3>2. block_sizes'[index] = req.size
      BY <1>1, <1>2, <2>1
    <3> QED BY <3>1, <3>2, <1>1, <1>4, HeldChanges
  <2>3. block_sizes[index] \in Nat
    BY <1>1, <2>1
  <2>4. (IF req.op = "realloc" THEN req.size - block_sizes[index] ELSE req.size)
          = req.size - old
    BY <1>1, <2>3
  <2> HIDE DEF old
  <2>5. Cardinality(HeldBytes)' = Cardinality(HeldBytes) + (req.size - old)
    BY <2>2, <1>1
  <2> QED BY <2>4, <2>5, <1>1, <1>2, <1>4, <1>5, <1>6 DEF Tally, Count
<1>11. /\ h[N].at = n /\ Fit(h[N], L[n]) /\ Same(Now(n + 1)', After(h[N], L[n]))
       /\ Count(block_sizes, Cardinality(HeldBytes))' = Tally(h[N], c[N], L[n])
  BY <1>4, <1>5, <1>7, <1>8, <1>9, <1>10
<1> QED BY <1>2, <1>3, <1>4, <1>7, <1>11, EndWitnessed

(* A trace starts with a record of its first state.                        *)
LEMMA StartWitnessed ==
  ASSUME IInv, StartTrace, log' = <<>>, req = NoRequest, bp = NULL
  PROVE  \E g, f, K : Witnessed(g, f, K)'
<1>1. PICK m : m = mem
  OBVIOUS
<1>2. m \in Memory
  BY <1>1 DEF IInv, TypeOK, Memory
<1>3. PICK g, f : /\ g[0] = Fresh(m) /\ f[0] = Count([i \in Index |-> 0], 0)
                  /\ \A L : Recorded(g, f, 0, L)
  <2> DEFINE g == [k \in {0} |-> Fresh(m)]
  <2> DEFINE f == [k \in {0} |-> Count([i \in Index |-> 0], 0)]
  <2>1. g[0] = Fresh(m) /\ f[0] = Count([i \in Index |-> 0], 0)
    OBVIOUS
  <2>2. \A L : Recorded(g, f, 0, L)
    BY <1>2, RecordStarts
  <2> HIDE DEF g, f
  <2> QED BY <2>1, <2>2
<1>4. /\ pc' = "idle" /\ req' = NoRequest /\ bp' = NULL /\ ranges' = {}
      /\ mem' = mm_init(m) /\ brk' = mm_init_brk
      /\ blocks' = [i \in Index |-> NULL] /\ block_sizes' = [i \in Index |-> 0]
  BY <1>1 DEF StartTrace
<1>5. (Now(Len(log) + 1))' = Fresh(m)
  <2>1. Len(log') = 0
    OBVIOUS
  <2> QED BY <2>1, <1>4 DEF Now, Fresh
<1>6. HeldBytes' = {}
  BY <1>4 DEF HeldBytes
<1>7. IsFiniteSet(HeldBytes)' /\ Cardinality(HeldBytes)' = 0
  BY <1>6, FS_EmptySet
<1>8. Witnessed(g, f, 0)'
  BY <1>3, <1>4, <1>5, <1>7 DEF Witnessed
<1> QED BY <1>8

----------------------------------------------------------------------------
(* The replays go through the recorded run once more.                      *)

(* Between calls the allocator has no request.                             *)
Quiet == pc = "idle" => req = NoRequest /\ bp = NULL

(* What eval_mm_util counts is what was counted of the recorded run.       *)
Measures(d) ==
  /\ d = Count(block_sizes, total_size)
  /\ max_total_size \in Int /\ max_total_size <= byte(brk) - byte(HeapBase)

(* The replay stands where the recorded run stood in its state k.          *)
Replays(h, c, N, k) ==
  /\ Recorded(h, c, N, log) /\ h[N].pc = "idle" /\ h[N].at = Len(log) + 1
  /\ k \in 0 .. N /\ Same(h[k], Now(pos))
  /\ phase = "util" => Measures(c[k])

PerfInv ==
  /\ phase \in {"valid", "util", "speed"}
  /\ log \in Seq(Entries) /\ Quiet
  /\ phase = "valid" => IInv /\ (running => \E h, c, N : Witnessed(h, c, N))
  /\ phase # "valid" => \E h, c, N, k : Replays(h, c, N, k)

(* While the replay is not through, there is a recorded step to follow.    *)
LEMMA ReplayMoves ==
  ASSUME log \in Seq(Entries), NEW h, NEW c, NEW N, NEW k, Replays(h, c, N, k),
         pc = "idle" => pos <= Len(log)
  PROVE  /\ k \in 0 .. (N - 1) /\ k + 1 \in 0 .. N /\ pos \in 1 .. Len(log)
         /\ h[k].pc = pc /\ h[k].at = pos
         /\ Moves(h[k], c[k], h[k + 1], c[k + 1], log)
         /\ Fit(h[k], now) /\ Fit(Now(pos), now) /\ Bounded(h[k + 1], c[k + 1])
<1>1. h[k].pc = pc /\ h[k].at = pos /\ Same(h[k], Now(pos))
  BY DEF Replays, Same, Now, State
<1>2. N \in Nat /\ k \in 0 .. N
  BY DEF Replays, Recorded
<1>3. k # N
  <2> SUFFICES ASSUME k = N PROVE FALSE
    OBVIOUS
  <2>1. pc = "idle" /\ pos = Len(log) + 1
    BY <1>1 DEF Replays
  <2>2. Len(log) \in Nat
    OBVIOUS
  <2> QED BY <2>1, <2>2
<1>4. k \in 0 .. (N - 1) /\ k + 1 \in 0 .. N
  BY <1>2, <1>3
<1>5. Moves(h[k], c[k], h[k + 1], c[k + 1], log) /\ Bounded(h[k + 1], c[k + 1])
  BY <1>4 DEF Replays, Recorded
<1>6. pos \in 1 .. Len(log) /\ Fit(h[k], now)
  BY <1>1, <1>5 DEF Moves, now
<1>7. Fit(Now(pos), now)
  BY <1>1, <1>6, FitAlike
<1> QED BY <1>1, <1>4, <1>5, <1>6, <1>7

(* A replay that does what the allocator does follows the recorded run.    *)
LEMMA ReplayNext ==
  ASSUME log \in Seq(Entries), NEW h, NEW c, NEW N, NEW k, Replays(h, c, N, k),
         pc = "idle" => pos <= Len(log),
         Now(pos)' = After(Now(pos), now), log' = log, phase' = phase,
         brk \in Int, brk' \in Int, brk' >= brk,
         phase = "util" =>
           /\ Count(block_sizes, total_size)' = Tally(Now(pos), c[k], now)
           /\ max_total_size' = max_total_size \/ max_total_size' = total_size'
  PROVE  Replays(h, c, N, k + 1)'
<1>1. /\ k \in 0 .. (N - 1) /\ k + 1 \in 0 .. N
      /\ h[k].pc = pc /\ h[k].at = pos
      /\ Moves(h[k], c[k], h[k + 1], c[k + 1], log)
      /\ Fit(h[k], now) /\ Bounded(h[k + 1], c[k + 1])
  BY ReplayMoves
<1>2. Same(h[k], Now(pos)) /\ Recorded(h, c, N, log) /\ h[N].pc = "idle" /\ h[N].at = Len(log) + 1
  BY DEF Replays
<1>3. Same(h[k + 1], After(h[k], now)) /\ c[k + 1] = Tally(h[k], c[k], now)
  BY <1>1 DEF Moves, now
<1>4. Same(After(h[k], now), After(Now(pos), now))
  BY <1>1, <1>2, AfterAlike
<1>5. Same(h[k + 1], Now(pos)')
  BY <1>3, <1>4, SameTransitive
<1>6. ASSUME phase = "util"
      PROVE  Measures(c[k + 1])'
  <2>1. Tally(Now(pos), c[k], now) = Tally(h[k], c[k], now)
    BY <1>1 DEF Tally, Now, State
  <2>2. c[k + 1] = Count(block_sizes, total_size)'
    BY <2>1, <1>3, <1>6
  <2>3. c[k + 1].total = total_size' /\ h[k + 1].brk = brk'
    BY <2>2, <1>5 DEF Count, Same, Now, State
  <2>4. max_total_size \in Int /\ max_total_size <= byte(brk) - byte(HeapBase)
    BY <1>6 DEF Replays, Measures
  <2>5. /\ max_total_size' \in Int
        /\ max_total_size' <= byte(brk') - byte(HeapBase)
    BY <2>3, <2>4, <1>1, <1>6, Defs DEF Bounded, byte
  <2> QED BY <2>2, <2>5 DEF Measures, byte
<1>7. h[N].at = Len(log)' + 1 /\ Recorded(h, c, N, log')
  BY <1>2
<1> QED BY <1>1, <1>2, <1>5, <1>6, <1>7 DEF Replays

(* The replayed heap is a heap.                                            *)
LEMMA ReplayedHeap ==
  ASSUME NEW h, NEW c, NEW N, NEW k, Replays(h, c, N, k)
  PROVE  mem \in Memory /\ brk \in Int
<1>1. Alike(h[k].mem, mem, brk)
  BY DEF Replays, Same, Now, State
<1> QED BY <1>1, AlikeGood DEF Good

(* The replays' calls, frees, steps and answers keep the invariant.        *)
LEMMA ReplayCallStep ==
  ASSUME PerfInv, ReplayCall
  PROVE  PerfInv'
<1>1. /\ phase # "valid" /\ pc = "idle" /\ pos <= Len(log)
      /\ log' = log /\ phase' = phase /\ pos' = pos /\ blocks' = blocks
      /\ block_sizes' = block_sizes /\ total_size' = total_size
      /\ max_total_size' = max_total_size
      /\ now.op \in {"malloc", "realloc"}
      /\ now.op = "malloc" => mm_malloc(now.size)
      /\ now.op = "realloc" => mm_realloc(ptr(now.index), now.size)
  BY DEF ReplayCall, perfvars
<1>2. PICK h, c, N, k : Replays(h, c, N, k)
  BY <1>1 DEF PerfInv
<1>3. Now(pos)' = After(Now(pos), now)
  <2>1. PICK n, e : n = pos /\ e = now
    OBVIOUS
  <2>2. e.op = "realloc" => Passes(Now(n), e) = ptr(e.index)
    BY DEF Passes, Holder, ptr, Now, State
  <2>3. Now(n)' = After(Now(n), e)
    BY <1>1, <2>1, <2>2, CallIsAfter
  <2>4. Now(n)' = Now(pos)'
    BY <1>1, <2>1
  <2> QED BY <2>1, <2>3, <2>4
<1>4. brk' = brk /\ pc' # "idle" /\ brk \in Int
  BY <1>1, <1>2, ReplayedHeap DEF mm_malloc, mm_realloc, mm_malloc_entry
<1>5. Tally(Now(pos), c[k], now) = c[k]
  BY <1>1 DEF Tally, Now, State
<1>6. Replays(h, c, N, k + 1)'
  <2>1. phase = "util" => Count(block_sizes, total_size)' = c[k]
    BY <1>1, <1>2 DEF Replays, Measures, Count
  <2> QED BY <1>1, <1>2, <1>3, <1>4, <1>5, <2>1, ReplayNext DEF PerfInv
<1> QED BY <1>1, <1>4, <1>6 DEF PerfInv, Quiet

(* A replayed free.                                                        *)
LEMMA ReplayFreeStep ==
  ASSUME PerfInv, ReplayFree
  PROVE  PerfInv'
<1>1. /\ phase # "valid" /\ pc = "idle" /\ pos <= Len(log) /\ now.op = "free"
      /\ mem' = mm_free(mem, ptr(now.index))
      /\ log' = log /\ phase' = phase /\ pos' = pos + 1 /\ blocks' = blocks
      /\ block_sizes' = block_sizes /\ count(-size_of(now.index))
      /\ brk' = brk /\ pc' = pc /\ req' = req /\ bp' = bp
  BY DEF ReplayFree, drvvars
<1>2. PICK h, c, N, k : Replays(h, c, N, k)
  BY <1>1 DEF PerfInv
<1>3. Now(pos)' = After(Now(pos), now)
  BY <1>1 DEF After, Freeing, Holder, ptr, Now, State
<1>4. brk \in Int
  BY <1>2, ReplayedHeap
<1>5. phase = "util" =>
        /\ Count(block_sizes, total_size)' = Tally(Now(pos), c[k], now)
        /\ max_total_size' = max_total_size \/ max_total_size' = total_size'
  BY <1>1, <1>2 DEF Replays, Measures, Count, Tally, Now, State, count, size_of
<1>6. Replays(h, c, N, k + 1)'
  BY <1>1, <1>2, <1>3, <1>4, <1>5, ReplayNext DEF PerfInv
<1> QED BY <1>1, <1>6 DEF PerfInv, Quiet

(* A step of the allocator in a replay.                                    *)
LEMMA ReplayStepStep ==
  ASSUME PerfInv, ReplayStep
  PROVE  PerfInv'
<1>1. /\ phase # "valid" /\ pc # "idle" /\ pc' # "idle" /\ mm_step
      /\ log' = log /\ phase' = phase /\ pos' = pos /\ blocks' = blocks
      /\ block_sizes' = block_sizes /\ total_size' = total_size
      /\ max_total_size' = max_total_size /\ pc # "ret"
  BY DEF ReplayStep, Step, drvvars, perfvars, mm_step, find_fit_next, find_fit_hit,
         find_fit_miss_grow, find_fit_miss_fail, malloc_returns, realloc_copy_free
<1>2. PICK h, c, N, k : Replays(h, c, N, k)
  BY <1>1 DEF PerfInv
<1>3. Fit(Now(pos), now)
  BY <1>1, <1>2, ReplayMoves DEF PerfInv
<1>4. Now(pos)' = After(Now(pos), now)
  <2>1. PICK n, e : n = pos /\ e = now
    OBVIOUS
  <2>2. Now(n)' = After(Now(n), e)
    BY <1>1, <1>3, <2>1, StepIsAfter
  <2>3. Now(n)' = Now(pos)'
    BY <1>1, <2>1
  <2> QED BY <2>1, <2>2, <2>3
<1>5. brk \in Int /\ brk' \in Int /\ brk' >= brk
  <2>1. pc = "find_fit" => req.size \in Nat
    BY <1>3 DEF Fit, Now, State
  <2>2. brk \in Int
    BY <1>2, ReplayedHeap
  <2> QED BY <1>1, <2>1, <2>2, BrkGrows
<1>6. Tally(Now(pos), c[k], now) = c[k]
  BY <1>1 DEF Tally, Now, State
<1>7. Replays(h, c, N, k + 1)'
  <2>1. phase = "util" => Count(block_sizes, total_size)' = c[k]
    BY <1>1, <1>2 DEF Replays, Measures, Count
  <2> QED BY <1>1, <1>2, <1>4, <1>5, <1>6, <2>1, ReplayNext DEF PerfInv
<1> QED BY <1>1, <1>7 DEF PerfInv, Quiet

(* An answer in a replay.                                                  *)
LEMMA ReplayReturnStep ==
  ASSUME PerfInv, ReplayReturn
  PROVE  PerfInv'
<1>1. /\ phase # "valid" /\ pc = "ret" /\ mm_return /\ mem' = mem /\ brk' = brk
      /\ log' = log
  BY DEF ReplayReturn
<1>2. PICK h, c, N, k : Replays(h, c, N, k)
  BY <1>1 DEF PerfInv
<1>3. Fit(Now(pos), now)
  BY <1>1, <1>2, ReplayMoves DEF PerfInv
<1>4. bp = NULL => now.size = 0
  BY <1>1, <1>3 DEF Fit, Now, State
<1>5. /\ blocks' = [blocks EXCEPT ![now.index] = bp] /\ pos' = pos + 1 /\ phase' = phase
      /\ phase = "util" => block_sizes' = [block_sizes EXCEPT ![now.index] = now.size]
      /\ count(added)
  BY <1>4 DEF ReplayReturn
<1>6. pc' = "idle" /\ req' = NoRequest /\ bp' = NULL
  BY <1>1 DEF mm_return
<1>7. Now(pos)' = After(Now(pos), now)
  BY <1>1, <1>5, <1>6 DEF After, Returning, Now, State
<1>8. brk \in Int
  BY <1>2, ReplayedHeap
<1>9. phase = "util" =>
        /\ Count(block_sizes, total_size)' = Tally(Now(pos), c[k], now)
        /\ max_total_size' = max_total_size \/ max_total_size' = total_size'
  BY <1>1, <1>2, <1>5 DEF Replays, Measures, Count, Tally, Now, State, count, added
<1>10. Replays(h, c, N, k + 1)'
  BY <1>1, <1>2, <1>5, <1>7, <1>8, <1>9, ReplayNext DEF PerfInv
<1> QED BY <1>1, <1>5, <1>6, <1>10 DEF PerfInv, Quiet

(* A replay starts like the recorded run.                                  *)
LEMMA Restarts ==
  ASSUME restart, pc = "idle", Quiet, mem \in Memory, phase' = "util" => max_total_size' = 0,
         NEW h, NEW c, NEW N, Recorded(h, c, N, log), h[N].pc = "idle",
         h[N].at = Len(log) + 1
  PROVE  Replays(h, c, N, 0)'
<1>1. /\ mem' = mm_init(mem) /\ brk' = mm_init_brk
      /\ blocks' = [i \in Index |-> NULL] /\ block_sizes' = [i \in Index |-> 0]
      /\ pos' = 1 /\ total_size' = 0 /\ pc' = pc /\ req' = req /\ bp' = bp /\ log' = log
  BY DEF restart
<1>2. PICK m \in Memory : h[0] = Fresh(m)
  BY DEF Recorded, Starts
<1>3. Now(pos)' = Fresh(mem)
  BY <1>1 DEF Now, Fresh, Quiet
<1>4. Same(h[0], Now(pos)')
  <2>1. Alike(mm_init(m), mm_init(mem), mm_init_brk)
    BY <1>2, InitAlike
  <2> QED BY <2>1, <1>2, <1>3, SameStates DEF Fresh
<1>5. N \in Nat /\ 0 \in 0 .. N /\ Bounded(h[0], c[0]) /\ c[0] = Count([i \in Index |-> 0], 0)
  <2>1. N \in Nat
    BY DEF Recorded
  <2>2. 0 \in 0 .. N
    BY <2>1
  <2> QED BY <2>1, <2>2 DEF Recorded, Starts
<1>6. phase' = "util" => Measures(c[0])'
  <2> SUFFICES ASSUME phase' = "util" PROVE Measures(c[0])'
    OBVIOUS
  <2>1. c[0] = Count(block_sizes, total_size)'
    BY <1>1, <1>5
  <2>2. h[0].brk = mm_init_brk /\ c[0].total = 0
    BY <1>2, <1>5 DEF Fresh, State, Count
  <2>3. max_total_size' \in Int /\ max_total_size' <= byte(brk') - byte(HeapBase)
    BY <2>2, <1>1, <1>5 DEF Bounded
  <2> QED BY <2>1, <2>3 DEF Measures, byte
<1>7. Recorded(h, c, N, log') /\ h[N].at = Len(log') + 1
  BY <1>1
<1> QED BY <1>4, <1>5, <1>6, <1>7 DEF Replays

(* eval_mm_util starts.                                                    *)
LEMMA EvalUtilStep ==
  ASSUME PerfInv, EvalUtil
  PROVE  PerfInv'
<1>1. /\ phase = "valid" /\ pc = "idle" /\ running /\ phase' = "util" /\ max_total_size' = 0
      /\ restart
  BY DEF EvalUtil
<1>2. IInv /\ log \in Seq(Entries) /\ Quiet
  BY <1>1 DEF PerfInv
<1>3. PICK h, c, N : Witnessed(h, c, N)
  BY <1>1 DEF PerfInv
<1>4. Recorded(h, c, N, log)
  <2>1. NULL \in Pointer
    BY DEF Pointer
  <2> QED BY <2>1, <1>1, <1>3 DEF Witnessed, Pending
<1>5. h[N].pc = "idle" /\ h[N].at = Len(log) + 1
  BY <1>1, <1>3 DEF Witnessed, Now, State
<1>6. mem \in Memory
  BY <1>2 DEF IInv, TypeOK, Memory
<1>7. Replays(h, c, N, 0)'
  BY <1>1, <1>2, <1>4, <1>5, <1>6, Restarts
<1> QED BY <1>1, <1>2, <1>7 DEF PerfInv, Quiet, restart

(* eval_mm_speed starts.                                                   *)
LEMMA EvalSpeedStep ==
  ASSUME PerfInv, EvalSpeed
  PROVE  PerfInv'
<1>1. phase = "util" /\ pc = "idle" /\ phase' = "speed" /\ restart
  BY DEF EvalSpeed
<1>2. log \in Seq(Entries) /\ Quiet
  BY DEF PerfInv
<1>3. PICK h, c, N, k : Replays(h, c, N, k)
  BY <1>1 DEF PerfInv
<1>4. Recorded(h, c, N, log) /\ h[N].pc = "idle" /\ h[N].at = Len(log) + 1
  BY <1>3 DEF Replays
<1>5. mem \in Memory
  BY <1>3, ReplayedHeap
<1>6. Replays(h, c, N, 0)'
  BY <1>1, <1>2, <1>4, <1>5, Restarts
<1> QED BY <1>1, <1>2, <1>6 DEF PerfInv, Quiet, restart

(* An entry of the log.                                                    *)
LEMMA LoggedEntry ==
  ASSUME log \in Seq(Entries), NEW op \in {"malloc", "realloc", "free"},
         NEW i \in Index \union {NoIndex}, NEW size \in Sizes \union {0}, NEW p \in Pointer,
         logged(Entry(op, i, size, p))
  PROVE  log' \in Seq(Entries)
<1>1. Entry(op, i, size, p) \in Entries
  BY DEF Entry, Entries
<1> QED BY <1>1 DEF logged

(* A step of eval_mm_valid.                                                *)
LEMMA ValidStep ==
  ASSUME PerfInv, Valid
  PROVE  PerfInv'
<1>1. phase = "valid" /\ phase' = phase
  BY DEF Valid
<1>2. IInv /\ log \in Seq(Entries) /\ Quiet /\ (running => \E h, c, N : Witnessed(h, c, N))
  BY <1>1 DEF PerfInv
<1>3. SUFFICES /\ IInv' /\ log' \in Seq(Entries) /\ Quiet'
               /\ running' => (\E h, c, N : Witnessed(h, c, N))'
  BY <1>1 DEF PerfInv
<1>4. CASE StartTrace /\ log' = <<>>
  <2>1. IInv'
    BY <1>2, <1>4, StepKeeps DEF Next
  <2>2. pc = "idle" /\ pc' = pc /\ req' = req /\ bp' = bp
    BY <1>4 DEF StartTrace
  <2>3. \E h, c, N : Witnessed(h, c, N)'
    BY <2>2, <1>2, <1>4, StartWitnessed DEF Quiet
  <2> QED BY <2>1, <2>2, <2>3, <1>2, <1>4 DEF Quiet
<1>5. ASSUME NEW i \in Index, NEW size \in Sizes, Alloc(i, size) \/ Realloc(i, size), log' = log
      PROVE  /\ IInv' /\ log' \in Seq(Entries) /\ Quiet'
             /\ running' => (\E h, c, N : Witnessed(h, c, N))'
  <2>1. IInv'
    BY <1>2, <1>5, StepKeeps DEF Next, Call
  <2>2. running /\ next_op /\ pc' # "idle"
    BY <1>5 DEF Alloc, Realloc, next_op, mm_malloc, mm_realloc, mm_malloc_entry
  <2>3. PICK h, c, N : Witnessed(h, c, N)
    BY <2>2, <1>2
  <2>4. \E g, f, K : Witnessed(g, f, K)'
    <3>1. CASE Alloc(i, size)
      <4>1. mm_malloc(size) /\ index' = i /\ ranges' = ranges
        BY <3>1 DEF Alloc
      <4> QED BY <4>1, <2>1, <2>2, <2>3, <1>2, <1>5, CallWitnessed
    <3>2. CASE Realloc(i, size)
      <4>1. /\ mm_realloc(blocks[i], size) /\ index' = i /\ ranges' = ranges
            /\ i \in ranges \/ blocks[i] = NULL
        BY <3>2 DEF Realloc
      <4> QED BY <4>1, <2>1, <2>2, <2>3, <1>2, <1>5, CallWitnessed
    <3> QED BY <3>1, <3>2, <1>5
  <2> QED BY <2>1, <2>2, <2>4, <1>2, <1>5 DEF Quiet
<1>6. ASSUME NEW i \in Index \union {NoIndex}, IF i = NoIndex THEN FreeNull ELSE Free(i),
             logged(Entry("free", i, 0, NULL))
      PROVE  /\ IInv' /\ log' \in Seq(Entries) /\ Quiet'
             /\ running' => (\E h, c, N : Witnessed(h, c, N))'
  <2>1. IInv'
    BY <1>2, <1>6, StepKeeps DEF Next, Call
  <2>2. running /\ pc' = pc /\ req' = req /\ bp' = bp
    BY <1>6 DEF FreeNull, Free, next_op
  <2>3. PICK h, c, N : Witnessed(h, c, N)
    BY <2>2, <1>2
  <2>4. \E g, f, K : Witnessed(g, f, K)'
    BY <2>1, <2>3, <1>2, <1>6, FreeWitnessed
  <2>5. log' \in Seq(Entries)
    BY <1>2, <1>6, LoggedEntry DEF Pointer
  <2> QED BY <2>1, <2>2, <2>4, <2>5, <1>2 DEF Quiet
<1>7. CASE Step /\ log' = log
  <2>1. IInv'
    BY <1>2, <1>7, StepKeeps DEF Next
  <2>2. pc # "idle" /\ pc' # "idle"
    BY <1>7 DEF Step, mm_step, find_fit_next, find_fit_hit, find_fit_miss_grow,
                find_fit_miss_fail, malloc_returns, realloc_copy_free
  <2>3. running
    BY <2>2, <1>2 DEF IInv, Control
  <2>4. PICK h, c, N : Witnessed(h, c, N)
    BY <2>3, <1>2
  <2>5. \E g, f, K : Witnessed(g, f, K)'
    BY <2>1, <2>4, <1>2, <1>7, StepWitnessed
  <2> QED BY <2>1, <2>2, <2>5, <1>2, <1>7 DEF Quiet
<1>8. CASE (AllocReturn \/ ReallocReturn) /\ logged(Entry(req.op, index, req.size, bp))
  <2>1. IInv'
    BY <1>2, <1>8, StepKeeps DEF Next
  <2>2. /\ pc = "ret" /\ pc' = "idle" /\ req' = NoRequest /\ bp' = NULL
        /\ req.op \in {"malloc", "realloc"}
    BY <1>8 DEF AllocReturn, ReallocReturn, mm_return
  <2>3. running
    BY <2>2, <1>2 DEF IInv, Control
  <2>4. PICK h, c, N : Witnessed(h, c, N)
    BY <2>3, <1>2
  <2>5. running' => \E g, f, K : Witnessed(g, f, K)'
    BY <2>1, <2>4, <1>2, <1>8, ReturnWitnessed
  <2>6. log' \in Seq(Entries)
    BY <2>2, <1>2, <1>8, LoggedEntry DEF IInv, TypeOK
  <2> QED BY <2>1, <2>2, <2>5, <2>6 DEF Quiet
<1>9. CASE \E i \in Index : Free(i) /\ logged(Entry("free", i, 0, NULL))
  <2>1. PICK i \in Index : Free(i) /\ logged(Entry("free", i, 0, NULL))
    BY <1>9
  <2>2. i # NoIndex
    BY DriverAssumption
  <2> QED BY <2>1, <2>2, <1>6
<1>10. CASE FreeNull /\ logged(Entry("free", NoIndex, 0, NULL))
  BY <1>10, <1>6
<1>11. CASE (\E i \in Index : \E size \in Sizes : Alloc(i, size) \/ Realloc(i, size)) /\ log' = log
  BY <1>5, <1>11
<1>12. CASE AllocReturn /\ logged(Entry("malloc", index, req.size, bp))
  BY <1>8, <1>12 DEF AllocReturn
<1>13. CASE ReallocReturn /\ logged(Entry("realloc", index, req.size, bp))
  BY <1>8, <1>13 DEF ReallocReturn
<1> QED BY <1>4, <1>7, <1>9, <1>10, <1>11, <1>12, <1>13 DEF Valid

(* A step that changes nothing.                                            *)
LEMMA PerfStutter ==
  ASSUME PerfInv, UNCHANGED <<vars, perfvars>>
  PROVE  PerfInv'
<1>1. UNCHANGED vars /\ UNCHANGED perfvars
  OBVIOUS
<1>2. /\ mem' = mem /\ brk' = brk /\ pc' = pc /\ req' = req /\ bp' = bp
      /\ blocks' = blocks /\ block_sizes' = block_sizes /\ ranges' = ranges /\ index' = index
      /\ running' = running
      /\ phase' = phase /\ log' = log /\ pos' = pos /\ total_size' = total_size
      /\ max_total_size' = max_total_size
  BY <1>1 DEF vars, perfvars
<1>3. IInv => IInv'
  BY <1>1, StutterStep
<1>4. ASSUME NEW h, NEW c, NEW N, Witnessed(h, c, N)
      PROVE  Witnessed(h, c, N)'
  <2>1. \A p : Pending(p)' = Pending(p)
    BY <1>2 DEF Pending
  <2>2. Now(Len(log) + 1)' = Now(Len(log) + 1) /\ HeldBytes' = HeldBytes
    BY <1>2 DEF Now, HeldBytes
  <2>3. \A p \in Pointer : Recorded(h, c, N, Pending(p)')
    BY <2>1, <1>4 DEF Witnessed
  <2> QED BY <2>2, <2>3, <1>2, <1>4 DEF Witnessed
<1>5. ASSUME NEW h, NEW c, NEW N, NEW k, Replays(h, c, N, k)
      PROVE  Replays(h, c, N, k)'
  <2>1. Now(pos)' = Now(pos) /\ (Measures(c[k]) => Measures(c[k])')
    BY <1>2 DEF Now, Measures
  <2>2. Recorded(h, c, N, log') /\ Same(h[k], Now(pos)')
    BY <2>1, <1>2, <1>5 DEF Replays
  <2> QED BY <2>1, <2>2, <1>2, <1>5 DEF Replays
<1> QED BY <1>2, <1>3, <1>4, <1>5 DEF PerfInv, Quiet

(* Both replays of eval_mm_util and eval_mm_speed get the answers that     *)
(* eval_mm_valid checked, to the pointer, none of them runs out of memory, *)
(* and the utilisation is at most 1, whatever the heap and the trace.      *)
THEOREM ReplaysAlwaysTrue == PerfSpec => []ReplaysTrue
<1>1. PerfInit => PerfInv
  <2> SUFFICES ASSUME PerfInit PROVE PerfInv
    OBVIOUS
  <2>1. Init /\ phase = "valid" /\ log = <<>> /\ ~running /\ req = NoRequest /\ bp = NULL
    BY DEF PerfInit, Init
  <2>2. IInv
    BY <2>1, InitInv
  <2>3. log \in Seq(Entries)
    BY <2>1
  <2> QED BY <2>1, <2>2, <2>3 DEF PerfInv, Quiet
<1>2. PerfInv /\ [PerfNext]_<<vars, perfvars>> => PerfInv'
  BY ValidStep, EvalUtilStep, EvalSpeedStep, ReplayCallStep, ReplayFreeStep,
     ReplayStepStep, ReplayReturnStep, PerfStutter DEF PerfNext
<1>3. PerfInv => ReplaysTrue
  <2> SUFFICES ASSUME PerfInv PROVE ReplaysTrue
    OBVIOUS
  <2>1. phase # "died"
    BY DEF PerfInv
  <2>2. ASSUME phase # "valid", pc = "ret"
        PROVE  bp = now.ptr
    <3>1. PICK h, c, N, k : Replays(h, c, N, k)
      BY <2>2 DEF PerfInv
    <3>2. Fit(Now(pos), now)
      BY <2>2, <3>1, ReplayMoves DEF PerfInv
    <3> QED BY <2>2, <3>2 DEF Fit, Now, State
  <2>3. ASSUME phase = "util"
        PROVE  max_total_size <= byte(brk) - byte(HeapBase)
    BY <2>3 DEF PerfInv, Replays, Measures
  <2> QED BY <2>1, <2>2, <2>3 DEF ReplaysTrue, ReplayAgrees, UtilAtMostOne
<1> QED BY <1>1, <1>2, <1>3, PTL DEF PerfSpec
=============================================================================
