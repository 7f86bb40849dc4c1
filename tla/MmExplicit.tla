----------------------------- MODULE MmExplicit -----------------------------
(***************************************************************************)
(* The explicit free list allocator p5malloc/mm.c, word for word.          *)
(*                                                                         *)
(* Every block carries its size and an allocated bit in a header and a     *)
(* footer word; a free block also holds, in its first two payload words,   *)
(* the links of a doubly linked LIFO list whose root is a word at the      *)
(* bottom of the heap.  The straight-line routines (LIFO_INSERT,           *)
(* REMOVE_BLOCK, coalesce, place, extend_heap, mm_free, mm_init) are       *)
(* operators from memory to memory, with the writes in the code's order:   *)
(* the address of a later write often depends on an earlier one.  The one  *)
(* loop, find_fit, is a step per iteration, so a call of mm_malloc or      *)
(* mm_realloc is a sequence of steps driven by pc.                         *)
(***************************************************************************)
EXTENDS MemWords

CONSTANT CHUNKSIZE   \* words the heap grows by at least

(* mm_init's two sbrk calls succeed on an empty heap.                      *)
ASSUME ChunkAssumption ==
  /\ CHUNKSIZE \in Nat /\ CHUNKSIZE >= 2 * DSIZE
  /\ 3 * DSIZE + CHUNKSIZE + 1 <= MAX_HEAP

VARIABLES
  mem,   \* contents of the simulated memory, garbage beyond brk included
  brk,   \* mem_brk
  pc,    \* "idle", or where the call in progress stands
  req,   \* the call in progress: entry point, realloc's ptr, size in bytes
  bp     \* find_fit's cursor, then the pointer mm_malloc returns

mmvars == <<mem, brk, pc, req, bp>>

(* req and bp are the locals of a call: they hold nothing between calls.   *)
NoRequest == [op |-> "none", ptr |-> NULL, size |-> 0]
mm_return == pc' = "idle" /\ req' = NoRequest /\ bp' = NULL

free_listp == HeapBase + WSIZE
heap_listp == HeapBase + 2 * DSIZE

----------------------------------------------------------------------------
(* The free list.                                                          *)

LIFO_INSERT(m, b) ==
  LET root == GET_PT(m, free_listp)
      m1 == IF root # NULL THEN PUT(m, PREV_P(root), b) ELSE m
      m2 == PUT(m1, NEXT_P(b), root)
  IN  PUT(m2, free_listp, b)

(* Mutant: the successor keeps its back link to the removed block.         *)
REMOVE_BLOCK_one_way(m, b) ==
  LET next == GET(m, NEXT_P(b))
      prev == GET(m, PREV_P(b))
      m1 == PUT(m, IF prev = NULL THEN free_listp ELSE NEXT_P(prev), next)
      m2 == PUT(m1, NEXT_P(b), NULL)
  IN  PUT(m2, PREV_P(b), NULL)

(* The block before b in the list is free_listp's word when b is first.    *)
REMOVE_BLOCK(m, b) ==
  LET next == GET(m, NEXT_P(b))
      prev == GET(m, PREV_P(b))
      m1 == IF next # NULL THEN PUT(m, PREV_P(next), prev) ELSE m
      m2 == PUT(m1, IF prev = NULL THEN free_listp ELSE NEXT_P(prev), next)
      m3 == PUT(m2, NEXT_P(b), NULL)
  IN  PUT(m3, PREV_P(b), NULL)

----------------------------------------------------------------------------
(* Blocks.  coalesce returns the memory and the pointer to the block that  *)
(* now holds b.                                                            *)

coalesce_next(m, b) ==
  LET size == GET_SIZE(m, HDRP(b)) + GET_SIZE(m, HDRP(NEXT_BLKP(m, b)))
      m1 == REMOVE_BLOCK(m, NEXT_BLKP(m, b))
      m2 == PUT(m1, HDRP(b), PACK(size, 0))
      m3 == PUT(m2, FTRP(m2, b), PACK(size, 0))
  IN  [mem |-> LIFO_INSERT(m3, b), bp |-> b]

coalesce_prev(m, b) ==
  LET size == GET_SIZE(m, HDRP(b)) + GET_SIZE(m, HDRP(PREV_BLKP(m, b)))
      m1 == REMOVE_BLOCK(m, PREV_BLKP(m, b))
      m2 == PUT(m1, FTRP(m1, b), PACK(size, 0))
      m3 == PUT(m2, HDRP(PREV_BLKP(m2, b)), PACK(size, 0))
      m4 == LIFO_INSERT(m3, PREV_BLKP(m3, b))
  IN  [mem |-> m4, bp |-> PREV_BLKP(m4, b)]

coalesce_both(m, b) ==
  LET size == GET_SIZE(m, HDRP(b)) + GET_SIZE(m, HDRP(PREV_BLKP(m, b)))
                + GET_SIZE(m, FTRP(m, NEXT_BLKP(m, b)))
      m1 == REMOVE_BLOCK(m, NEXT_BLKP(m, b))
      m2 == REMOVE_BLOCK(m1, PREV_BLKP(m1, b))
      m3 == PUT(m2, HDRP(PREV_BLKP(m2, b)), PACK(size, 0))
      m4 == PUT(m3, FTRP(m3, NEXT_BLKP(m3, b)), PACK(size, 0))
      m5 == LIFO_INSERT(m4, PREV_BLKP(m4, b))
  IN  [mem |-> m5, bp |-> PREV_BLKP(m5, b)]

(* Mutant: a free predecessor is not merged.                               *)
coalesce_upwards_only(m, b) ==
  IF GET_ALLOC(m, HDRP(NEXT_BLKP(m, b))) = 1
  THEN [mem |-> LIFO_INSERT(m, b), bp |-> b] ELSE coalesce_next(m, b)

coalesce(m, b) ==
  LET prev_alloc == GET_ALLOC(m, FTRP(m, PREV_BLKP(m, b))) = 1
      next_alloc == GET_ALLOC(m, HDRP(NEXT_BLKP(m, b))) = 1
  IN  CASE prev_alloc /\ next_alloc   -> [mem |-> LIFO_INSERT(m, b), bp |-> b]
        [] prev_alloc /\ ~next_alloc  -> coalesce_next(m, b)
        [] ~prev_alloc /\ next_alloc  -> coalesce_prev(m, b)
        [] ~prev_alloc /\ ~next_alloc -> coalesce_both(m, b)

(* Mutant: the footer is left as it was.                                   *)
format_free_header_only(m, b, size) ==
  LET m1 == PUT(m, HDRP(b), PACK(size, 0))
  IN  PUT(PUT(m1, NEXT_P(b), NULL), PREV_P(b), NULL)

(* A free block of size words at b: tags written, links cleared.           *)
format_free(m, b, size) ==
  LET m1 == PUT(m, HDRP(b), PACK(size, 0))
      m2 == PUT(m1, FTRP(m1, b), PACK(size, 0))
      m3 == PUT(m2, NEXT_P(b), NULL)
  IN  PUT(m3, PREV_P(b), NULL)

mark_allocated(m, b, size) ==
  LET m1 == PUT(m, HDRP(b), PACK(size, 1))
  IN  PUT(m1, FTRP(m1, b), PACK(size, 1))

place(m, b, asize) ==
  LET csize == GET_SIZE(m, HDRP(b))
      m1 == REMOVE_BLOCK(m, b)
      m2 == mark_allocated(m1, b, asize)
      rest == NEXT_BLKP(m2, b)
  IN  IF csize - asize >= 2 * DSIZE
      THEN coalesce(format_free(m2, rest, csize - asize), rest).mem
      ELSE mark_allocated(m1, b, csize)

(* The room extend_heap asks for: an even number of words.                 *)
extend_size(words) == IF words % 2 = 1 THEN words + 1 ELSE words

(* extend_heap once mem_sbrk has returned the old break b.                 *)
extend_heap(m, b, words) ==
  LET size == extend_size(words)
      m1 == format_free(m, b, size)
      m2 == PUT(m1, HDRP(NEXT_BLKP(m1, b)), PACK(0, 1))
  IN  coalesce(m2, b)

mm_free(m, b) ==
  IF b = NULL THEN m
  ELSE coalesce(format_free(m, b, GET_SIZE(m, HDRP(b))), b).mem

(* mm_init on a heap just emptied by mem_reset_brk: the memory and break   *)
(* it leaves.                                                              *)
mm_init_brk == HeapBase + 3 * DSIZE + extend_size(CHUNKSIZE)
(* Mutant: the prologue header also lands in the padding word.             *)
mm_init_tagged_padding(m) ==
  LET m1 == PUT(PUT(PUT(m, HeapBase, 0), free_listp, 0), HeapBase + DSIZE,
                PACK(DSIZE, 1))
      m2 == PUT(PUT(m1, HDRP(heap_listp), PACK(DSIZE, 1)),
                heap_listp, PACK(DSIZE, 1))
      m3 == PUT(m2, heap_listp + WSIZE, PACK(0, 1))
  IN  extend_heap(m3, HeapBase + 3 * DSIZE, CHUNKSIZE).mem
(* Mutant: the root of the free list is not cleared.                       *)
mm_init_keeps_list(m) ==
  LET m1 == PUT(PUT(m, HeapBase, 0), HeapBase + DSIZE, 0)
      m2 == PUT(PUT(m1, HDRP(heap_listp), PACK(DSIZE, 1)),
                heap_listp, PACK(DSIZE, 1))
      m3 == PUT(m2, heap_listp + WSIZE, PACK(0, 1))
  IN  extend_heap(m3, HeapBase + 3 * DSIZE, CHUNKSIZE).mem
mm_init(m) ==
  LET m1 == PUT(PUT(PUT(m, HeapBase, 0), free_listp, 0), HeapBase + DSIZE, 0)
      m2 == PUT(PUT(m1, HDRP(heap_listp), PACK(DSIZE, 1)),
                heap_listp, PACK(DSIZE, 1))
      m3 == PUT(m2, heap_listp + WSIZE, PACK(0, 1))
  IN  extend_heap(m3, HeapBase + 3 * DSIZE, CHUNKSIZE).mem

----------------------------------------------------------------------------
(* mm_malloc and mm_realloc.  Sizes a client asks for are in bytes.        *)

MAX(x, y) == IF x > y THEN x ELSE y

(* asize: room for the payload and the two tags, doubleword aligned.       *)
adjust(size) == IF size <= 8 THEN 2 * OVERHEAD ELSE 2 * ((size + 8 + 7) \div 8)

mm_malloc_entry(op, p, size) ==
  /\ pc = "idle"
  /\ req' = [op |-> op, ptr |-> p, size |-> size]
  /\ IF size = 0 THEN pc' = "ret" /\ bp' = NULL
                 ELSE pc' = "find_fit" /\ bp' = GET(mem, free_listp)
  /\ UNCHANGED <<mem, brk>>

mm_malloc(size) == mm_malloc_entry("malloc", NULL, size)

(* mm_realloc(p, 0) is mm_free(p), mm_realloc(NULL, size) is a malloc.     *)
mm_realloc(p, size) ==
  \/ /\ size = 0
     /\ pc = "idle"
     /\ pc' = "ret"
     /\ req' = [op |-> "realloc", ptr |-> p, size |-> 0]
     /\ bp' = NULL
     /\ mem' = mm_free(mem, p)
     /\ UNCHANGED brk
  \/ size > 0 /\ mm_malloc_entry("realloc", p, size)

(* mm_malloc returns b to its caller: the client, or mm_realloc, which has *)
(* the old contents to copy unless it had no block or the malloc failed.   *)
malloc_returns(b) ==
  /\ bp' = b
  /\ pc' = IF req.op = "realloc" /\ req.ptr # NULL /\ b # NULL
           THEN "copy" ELSE "ret"
  /\ UNCHANGED req

(* Mutant: an exact fit is passed over.                                    *)
find_fit_next_strict ==
  /\ pc = "find_fit" /\ bp # NULL
  /\ GET_SIZE(mem, HDRP(bp)) <= adjust(req.size)
  /\ bp' = GET(mem, NEXT_P(bp))
  /\ UNCHANGED <<mem, brk, pc, req>>

(* Mutant: the walk starts over at the end of the list.                    *)
find_fit_next_circular ==
  /\ pc = "find_fit" /\ bp # NULL
  /\ GET_SIZE(mem, HDRP(bp)) < adjust(req.size)
  /\ bp' = IF GET(mem, NEXT_P(bp)) = NULL THEN GET(mem, free_listp)
           ELSE GET(mem, NEXT_P(bp))
  /\ UNCHANGED <<mem, brk, pc, req>>

find_fit_next ==
  /\ pc = "find_fit" /\ bp # NULL
  /\ GET_SIZE(mem, HDRP(bp)) < adjust(req.size)
  /\ bp' = GET(mem, NEXT_P(bp))
  /\ UNCHANGED <<mem, brk, pc, req>>

find_fit_hit ==
  /\ pc = "find_fit" /\ bp # NULL
  /\ GET_SIZE(mem, HDRP(bp)) >= adjust(req.size)
  /\ mem' = place(mem, bp, adjust(req.size))
  /\ malloc_returns(bp)
  /\ UNCHANGED brk

extendsize == extend_size(MAX(adjust(req.size), CHUNKSIZE))

find_fit_miss_grow ==
  /\ pc = "find_fit" /\ bp = NULL
  /\ mem_sbrk_ok(brk, extendsize)
  /\ LET grown == extend_heap(mem, brk, extendsize)
     IN  /\ mem' = place(grown.mem, grown.bp, adjust(req.size))
         /\ malloc_returns(grown.bp)
  /\ brk' = brk + extendsize

find_fit_miss_fail ==
  /\ pc = "find_fit" /\ bp = NULL
  /\ ~mem_sbrk_ok(brk, extendsize)
  /\ malloc_returns(NULL)
  /\ UNCHANGED <<mem, brk>>

(* memcpy of n words, low address first.                                   *)
memcpy(m, dst, src, n) ==
  [a \in DOMAIN m |-> IF a \in dst .. (dst + n - 1) THEN m[src + (a - dst)]
                      ELSE m[a]]

payload_words(size) == (size + 3) \div 4

(* Mutant: the last word is not copied.                                    *)
copy_words_short ==
  LET oldsize == GET_SIZE(mem, HDRP(req.ptr))
  IN  (IF req.size < 4 * oldsize THEN payload_words(req.size) ELSE oldsize) - 1

(* The copy is bounded by the old BLOCK, tags included, as in the code.    *)
copy_words ==
  LET oldsize == GET_SIZE(mem, HDRP(req.ptr))
  IN  IF req.size < 4 * oldsize THEN payload_words(req.size) ELSE oldsize

(* Mutant: the old block is not freed.                                     *)
realloc_copy ==
  /\ pc = "copy"
  /\ mem' = memcpy(mem, bp, req.ptr, copy_words)
  /\ pc' = "ret"
  /\ UNCHANGED <<brk, req, bp>>

realloc_copy_free ==
  /\ pc = "copy"
  /\ mem' = mm_free(memcpy(mem, bp, req.ptr, copy_words), req.ptr)
  /\ pc' = "ret"
  /\ UNCHANGED <<brk, req, bp>>

mm_step ==
  \/ find_fit_next
  \/ find_fit_hit
  \/ find_fit_miss_grow
  \/ find_fit_miss_fail
  \/ realloc_copy_free

=============================================================================
