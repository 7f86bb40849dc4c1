----------------------------- MODULE MmImplicit -----------------------------
(***************************************************************************)
(* The allocator of p5malloc/mm-implicit.c: blocks with boundary tags and  *)
(* no list, searched from the first block on, or from a rover when the     *)
(* file is compiled with NEXT_FIT.                                         *)
(*                                                                         *)
(* A heap h is a record of the memory, the break and the rover.  The code  *)
(* is sequential, so a routine is an operator from a heap to a heap.       *)
(***************************************************************************)
EXTENDS MemWords

CONSTANTS CHUNKSIZE,  \* words the heap grows by at least
          NEXT_FIT    \* is the file compiled with it

ImplicitAssumption ==
  /\ CHUNKSIZE \in Nat /\ CHUNKSIZE % 2 = 0 /\ CHUNKSIZE >= 2 * DSIZE
  /\ 2 * DSIZE + CHUNKSIZE <= MAX_HEAP

heap_listp == HeapBase + DSIZE

\* Both tags of the block of size words at b.
tags(m, b, size, alloc) ==
  LET m1 == PUT(m, HDRP(b), PACK(size, alloc))
  IN  PUT(m1, FTRP(m1, b), PACK(size, alloc))

tags_low_footer(m, b, p, size) ==
  LET m1 == PUT(m, FTRP(m, b), PACK(size, 0)) IN PUT(m1, HDRP(p), PACK(size, 0))

coalesced_upwards(h, b) ==
  LET next == NEXT_BLKP(h.mem, b)
      size == GET_SIZE(h.mem, HDRP(b)) + GET_SIZE(h.mem, HDRP(next))
  IN  [mem |-> IF GET_ALLOC(h.mem, HDRP(next)) = 1 THEN h.mem
               ELSE tags(h.mem, b, size, 0), bp |-> b]
coalesced(h, b) ==
  LET m == h.mem
      prev == PREV_BLKP(m, b)
      next == NEXT_BLKP(m, b)
      prev_alloc == GET_ALLOC(m, FTRP(m, prev)) = 1
      next_alloc == GET_ALLOC(m, HDRP(next)) = 1
      size == GET_SIZE(m, HDRP(b))
      up == size + GET_SIZE(m, HDRP(next))
      down == size + GET_SIZE(m, HDRP(prev))
      both == down + GET_SIZE(m, FTRP(m, next))
  IN  CASE prev_alloc /\ next_alloc   -> [mem |-> m, bp |-> b]
        [] prev_alloc /\ ~next_alloc  -> [mem |-> tags(m, b, up, 0), bp |-> b]
        [] ~prev_alloc /\ next_alloc  ->
             [mem |-> tags_low_footer(m, b, prev, down), bp |-> prev]
        [] ~prev_alloc /\ ~next_alloc ->
             [mem |-> tags_low_footer(m, next, prev, both), bp |-> prev]

\* The rover must not be left inside the block that now reaches from bp.
moved_rover_kept(h, c) == h.rover
moved_rover(h, c) ==
  IF NEXT_FIT /\ c.mem # h.mem /\ h.rover > c.bp /\ h.rover < NEXT_BLKP(c.mem, c.bp)
  THEN c.bp ELSE h.rover

coalesce(h, b) ==
  LET c == coalesced(h, b)
  IN  [heap |-> [h EXCEPT !.mem = c.mem, !.rover = moved_rover(h, c)],
       bp |-> c.bp]

extend_size(words) == IF words % 2 = 1 THEN words + 1 ELSE words

extend_heap(h, words) ==
  LET size == extend_size(words)
      b == h.brk
      m1 == tags(h.mem, b, size, 0)
      m2 == PUT(m1, HDRP(NEXT_BLKP(m1, b)), PACK(0, 1))
  IN  coalesce([h EXCEPT !.mem = m2, !.brk = @ + size], b)

mm_init(m) ==
  LET m1 == PUT(PUT(m, HeapBase, 0), HeapBase + WSIZE, PACK(OVERHEAD, 1))
      m2 == PUT(PUT(m1, HeapBase + DSIZE, PACK(OVERHEAD, 1)),
                HeapBase + WSIZE + DSIZE, PACK(0, 1))
      h == [mem |-> m2, brk |-> HeapBase + 2 * DSIZE, rover |-> heap_listp]
  IN  extend_heap(h, CHUNKSIZE).heap

place(h, b, asize) ==
  LET csize == GET_SIZE(h.mem, HDRP(b))
      m == tags(h.mem, b, asize, 1)
  IN  [h EXCEPT !.mem = IF csize - asize >= DSIZE + OVERHEAD
                        THEN tags(m, NEXT_BLKP(m, b), csize - asize, 0)
                        ELSE tags(@, b, csize, 1)]

fits(m, b, asize) ==
  GET_ALLOC(m, HDRP(b)) = 0 /\ asize <= GET_SIZE(m, HDRP(b))

\* mm_checkheap's walk: the blocks from the prologue up to the epilogue.
heap_blocks(h) ==
  LET from[b \in (HeapBase + 1) .. (HeapBase + MAX_HEAP)] ==
        IF GET_SIZE(h.mem, HDRP(b)) = 0 THEN {b}
        ELSE {b} \cup IF NEXT_BLKP(h.mem, b) <= h.brk
                      THEN from[NEXT_BLKP(h.mem, b)] ELSE {}
  IN  from[heap_listp]

\* The first block from p on that fits, below limit or else the epilogue.
search(h, p, limit, asize) ==
  LET from[b \in heap_blocks(h)] ==
        IF b >= limit \/ GET_SIZE(h.mem, HDRP(b)) = 0 \/ fits(h.mem, b, asize)
        THEN b ELSE from[NEXT_BLKP(h.mem, b)]
  IN  from[p]

\* Where the search ends: the rover when it goes round.
found_forward(h, asize) == search(h, IF NEXT_FIT THEN h.rover ELSE heap_listp,
                                  h.brk, asize)
found(h, asize) ==
  LET first == found_forward(h, asize)
  IN  IF NEXT_FIT /\ first = h.brk
      THEN search(h, heap_listp, h.rover, asize) ELSE first

find_fit(h, asize) ==
  LET b == found(h, asize)
  IN  [heap |-> IF NEXT_FIT THEN [h EXCEPT !.rover = b] ELSE h,
       bp |-> IF fits(h.mem, b, asize) THEN b ELSE NULL]

\* asize for size bytes, in words.
adjust(size) == IF size <= 8 THEN DSIZE + OVERHEAD
                ELSE DSIZE * ((size + 8 + 7) \div 8)

mm_malloc(h, size) ==
  LET asize == adjust(size)
      fit == find_fit(h, asize)
      extendsize == IF asize > CHUNKSIZE THEN asize ELSE CHUNKSIZE
      grown == extend_heap(fit.heap, extendsize)
  IN  CASE size = 0 -> [heap |-> h, bp |-> NULL]
        [] size > 0 /\ fit.bp # NULL ->
             [heap |-> place(fit.heap, fit.bp, asize), bp |-> fit.bp]
        [] size > 0 /\ fit.bp = NULL /\ mem_sbrk_ok(h.brk, extendsize) ->
             [heap |-> place(grown.heap, grown.bp, asize), bp |-> grown.bp]
        [] OTHER -> [heap |-> fit.heap, bp |-> NULL]

mm_free(h, b) ==
  IF b = NULL THEN h
  ELSE coalesce([h EXCEPT !.mem = tags(@, b, GET_SIZE(@, HDRP(b)), 0)], b).heap

\* memcpy of n bytes, in whole words.
memcpy(m, dst, src, n) ==
  [a \in DOMAIN m |-> IF a \in dst .. (dst + ((n + 3) \div 4) - 1)
                      THEN m[src + (a - dst)] ELSE m[a]]

mm_realloc_free_first(h, p, size) ==
  LET freed == mm_free(h, p)
      new == mm_malloc(freed, size)
      oldsize == 4 * GET_SIZE(h.mem, HDRP(p))
      n == IF size < oldsize THEN size ELSE oldsize
  IN  IF size = 0 \/ p = NULL \/ new.bp = NULL
      THEN [heap |-> IF size = 0 THEN freed ELSE new.heap, bp |-> new.bp]
      ELSE [heap |-> [new.heap EXCEPT !.mem = memcpy(@, new.bp, p, n)],
            bp |-> new.bp]
mm_realloc(h, p, size) ==
  LET new == mm_malloc(h, size)
      oldsize == 4 * GET_SIZE(new.heap.mem, HDRP(p))
      n == IF size < oldsize THEN size ELSE oldsize
  IN  CASE size = 0 -> [heap |-> mm_free(h, p), bp |-> NULL]
        [] size > 0 /\ (p = NULL \/ new.bp = NULL) -> new
        [] OTHER ->
             [heap |-> mm_free([new.heap EXCEPT !.mem = memcpy(@, new.bp, p, n)], p),
              bp |-> new.bp]

=============================================================================
