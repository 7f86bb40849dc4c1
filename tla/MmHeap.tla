------------------------------- MODULE MmHeap -------------------------------
(***************************************************************************)
(* What it means for the memory of mm.c to be a heap: predicates on a      *)
(* memory m, a break top and a set B of block pointers, shared by the      *)
(* invariants TLC checks and by the proofs.  mm_checkheap and checkblock   *)
(* test a part of this at run time.                                        *)
(***************************************************************************)
EXTENDS MmExplicit, Sequences

Block_size(m, p) == GET_SIZE(m, HDRP(p))
Allocated(m, p) == GET_ALLOC(m, HDRP(p)) = 1
FreeBlocks(m, B) == {p \in B : ~Allocated(m, p)}

(* Header and footer agree, the size is even and leaves the block inside   *)
(* the heap, and what follows the block is a block or the epilogue.        *)
BlockOK(m, top, B, p) ==
  /\ p \in heap_listp .. (top - DSIZE) /\ p % 2 = 0
  /\ Block_size(m, p) % 2 = 0
  /\ p + Block_size(m, p) <= top
  /\ GET(m, HDRP(p)) = GET(m, FTRP(m, p))
  /\ NEXT_BLKP(m, p) \in B \union {top}
  /\ IF p = heap_listp THEN GET(m, HDRP(p)) = PACK(DSIZE, 1)
                       ELSE Block_size(m, p) >= 2 * DSIZE

(* Blocks do not overlap.                                                  *)
Apart(m, B) == \A p, q \in B : p < q => NEXT_BLKP(m, p) <= q

(* The words between the prologue and the epilogue are exactly B's blocks. *)
Tiled(m, top, B) ==
  /\ heap_listp \in B
  /\ \A p \in B : BlockOK(m, top, B, p)
  /\ Apart(m, B)
  /\ \A q \in (B \union {top}) \ {heap_listp} :
       PREV_BLKP(m, q) \in B /\ NEXT_BLKP(m, PREV_BLKP(m, q)) = q
  /\ GET(m, HDRP(top)) = PACK(0, 1)

(* Coalescing leaves no two free neighbours in F.                          *)
Coalesced(m, F) == \A p, q \in F : NEXT_BLKP(m, p) # q

(* The links of the blocks of F, seen locally: a link leads to a block of  *)
(* F that links back, and the block without a predecessor is the root.     *)
Linked(m, F) ==
  /\ GET(m, free_listp + WSIZE) = 0
  /\ GET(m, free_listp) \in F \union {NULL}
  /\ \A p \in F :
       LET next == GET(m, NEXT_P(p))
           prev == GET(m, PREV_P(p))
       IN  /\ next # NULL => next \in F /\ GET(m, PREV_P(next)) = p
           /\ prev # NULL => prev \in F /\ GET(m, NEXT_P(prev)) = p
           /\ prev = NULL <=> GET(m, free_listp) = p

(* The links never close a cycle: some rank falls along them.              *)
Ranked(m, F, rank) ==
  \A p \in F : GET(m, NEXT_P(p)) # NULL => rank[GET(m, NEXT_P(p))] < rank[p]

ListOK(m, F) == Linked(m, F) /\ \E rank \in [F -> Nat] : Ranked(m, F, rank)

HeapOK(m, top, B) ==
  /\ Tiled(m, top, B)
  /\ Coalesced(m, FreeBlocks(m, B))
  /\ ListOK(m, FreeBlocks(m, B))

----------------------------------------------------------------------------
(* The blocks of m found by walking it upwards from the prologue, as       *)
(* mm_checkheap does, and the free list found by following its links.      *)

blocks_from(m) ==
  LET walk[p \in Addr \union {HeapBase + MAX_HEAP}] ==
        IF Block_size(m, p) = 0 THEN {}
        ELSE {p} \union IF NEXT_BLKP(m, p) \in DOMAIN walk
                        THEN walk[NEXT_BLKP(m, p)] ELSE {}
  IN  walk[heap_listp]

free_list(m) ==
  LET root == GET(m, free_listp)
      path[n \in 0 .. MAX_HEAP] ==
        IF n = 0 THEN IF root \in Addr THEN <<root>> ELSE <<>>
        ELSE LET s == path[n - 1]
                 link == NEXT_P(s[Len(s)])
             IN  IF s # <<>> /\ link \in Addr /\ m[link] \in Addr
                 THEN Append(s, m[link]) ELSE s
  IN  path[MAX_HEAP]

=============================================================================
