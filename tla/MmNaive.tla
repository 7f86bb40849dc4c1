------------------------------- MODULE MmNaive -------------------------------
(***************************************************************************)
(* The allocator of p5malloc/mm-naive.c, which only moves the break and    *)
(* frees nothing.  A heap is the record of MmImplicit; there is no rover.  *)
(***************************************************************************)
EXTENDS MemWords

\* ALIGN and SIZE_T_SIZE, in words.
ALIGN_down(bytes) == 2 * (bytes \div 8)
ALIGN(bytes) == 2 * ((bytes + 7) \div 8)
SIZE_T_SIZE == ALIGN(8)
SIZE_PTR(p) == p - SIZE_T_SIZE

mm_init(m) == [mem |-> m, brk |-> HeapBase, rover |-> NULL]

mm_malloc(h, size) ==
  LET newsize == ALIGN(size + 4 * SIZE_T_SIZE)
      p == h.brk + SIZE_T_SIZE
      m1 == PUT(PUT(h.mem, SIZE_PTR(p), size), SIZE_PTR(p) + 1, 0)
  IN  IF mem_sbrk_ok(h.brk, newsize)
      THEN [heap |-> [h EXCEPT !.mem = m1, !.brk = @ + newsize], bp |-> p]
      ELSE [heap |-> h, bp |-> NULL]

mm_free(h, p) == h

memcpy(m, dst, src, n) ==
  [a \in DOMAIN m |-> IF a \in dst .. (dst + ((n + 3) \div 4) - 1)
                      THEN m[src + (a - dst)] ELSE m[a]]

mm_realloc(h, p, size) ==
  LET new == mm_malloc(h, size)
      oldsize == new.heap.mem[SIZE_PTR(p)]
      n == IF size < oldsize THEN size ELSE oldsize
  IN  CASE size = 0 -> [heap |-> mm_free(h, p), bp |-> NULL]
        [] size > 0 /\ (p = NULL \/ new.bp = NULL) -> new
        [] OTHER ->
             [heap |-> mm_free([new.heap EXCEPT !.mem = memcpy(@, new.bp, p, n)], p),
              bp |-> new.bp]
=============================================================================
