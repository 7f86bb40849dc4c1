------------------------------ MODULE MemWords ------------------------------
(***************************************************************************)
(* The simulated memory of p5malloc/memlib.c, and the boundary-tag macros  *)
(* the allocators of p5malloc (mm.c, mm-implicit.c) read and write it      *)
(* with.                                                                   *)
(*                                                                         *)
(* The unit of every address and of every block size is the WORD of the    *)
(* sources (WSIZE, 4 bytes): the allocators touch memory only at word      *)
(* boundaries, so the three low bits of a byte size collapse to one.  A    *)
(* block size is even (8-byte alignment), which leaves bit 0 of a boundary *)
(* tag free for the allocated flag, as in the code.                        *)
(*                                                                         *)
(* The contents of memory is a function m from word addresses to words:    *)
(* the macros are operators on such a function, and "write" returns the    *)
(* function after the write.                                               *)
(***************************************************************************)
EXTENDS Integers

CONSTANTS
  HeapBase,   \* word address of heap[0]
  MAX_HEAP,   \* size of the simulated heap, in words
  WordMod     \* number of values of a stored word (2^32 in the build)

(* heap[] is doubleword aligned and not at address NULL; its addresses fit *)
(* a word, because the allocators store pointers in 32-bit words.          *)
ASSUME MemAssumption ==
  /\ HeapBase \in Nat /\ HeapBase > 0 /\ HeapBase % 2 = 0
  /\ MAX_HEAP \in Nat
  /\ WordMod \in Nat /\ HeapBase + MAX_HEAP < WordMod

NULL == 0
Addr == HeapBase .. (HeapBase + MAX_HEAP - 1)
Word == 0 .. (WordMod - 1)

WSIZE == 1
DSIZE == 2
OVERHEAD == 2

GET(m, p) == m[p]
PUT(m, p, v) == [m EXCEPT ![p] = v]

(* GET_PT reads an unsigned long: the word at p and, above it, the next.   *)
GET_PT(m, p) == m[p] + WordMod * m[p + WSIZE]

PACK(size, alloc) == size + alloc
GET_SIZE(m, p) == m[p] - (m[p] % 2)
GET_ALLOC(m, p) == m[p] % 2

HDRP(bp) == bp - WSIZE
FTRP(m, bp) == bp + GET_SIZE(m, HDRP(bp)) - DSIZE
NEXT_BLKP(m, bp) == bp + GET_SIZE(m, HDRP(bp))
PREV_BLKP(m, bp) == bp - GET_SIZE(m, bp - DSIZE)
PREV_P(bp) == bp
NEXT_P(bp) == bp + WSIZE

(* mem_sbrk moves the break up by incr words, or fails and leaves it.      *)
mem_sbrk_ok(brk, incr) == incr >= 0 /\ brk + incr <= HeapBase + MAX_HEAP

=============================================================================
