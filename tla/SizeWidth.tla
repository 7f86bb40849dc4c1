------------------------------ MODULE SizeWidth ------------------------------
(***************************************************************************)
(* The width of the sizes in mm.c: size_t in mm_malloc and place, the int  *)
(* mem_sbrk takes, the unsigned int of a tag.  Only mm_malloc and          *)
(* mm_calloc are called, so the free blocks are at most one, the last of   *)
(* the heap.  Sizes are in bytes.                                          *)
(***************************************************************************)
EXTENDS Integers

CONSTANTS size_bits, int_bits,  \* of size_t and of int and unsigned int
          MAX_HEAP, CHUNKSIZE,
          Counts,               \* what nmemb may be
          num_calls             \* bound: calls made

VARIABLES brk,   \* from the start of the heap
          free,  \* size of the last block, 0 when it is allocated
          last,  \* the last call: bytes wanted, the block's size or 0 for none,
                 \* and whether the heap it came to had room
          state, \* "heap", "ruined" when the tags are no heap any more, "crashed"
          calls
vars == <<brk, free, last, state, calls>>

DSIZE == 8
OVERHEAD == 8

WidthAssumption ==
    /\ size_bits \in Nat /\ int_bits \in Nat \ {0} /\ int_bits <= size_bits
    /\ MAX_HEAP \in Nat /\ CHUNKSIZE \in Nat /\ Counts \subseteq Nat
    /\ MAX_HEAP < 2 ^ (int_bits - 1) /\ 3 * DSIZE + CHUNKSIZE <= MAX_HEAP
    /\ CHUNKSIZE % DSIZE = 0 /\ CHUNKSIZE >= 2 * DSIZE

size_t(x) == x % 2 ^ size_bits
unsigned(x) == x % 2 ^ int_bits
int(x) == IF unsigned(x) < 2 ^ (int_bits - 1) THEN unsigned(x)
                                              ELSE unsigned(x) - 2 ^ int_bits

\* mm_init
Init == /\ brk = 3 * DSIZE + CHUNKSIZE /\ free = CHUNKSIZE
        /\ last = [wanted |-> 0, block |-> 0, room |-> FALSE]
        /\ state = "heap" /\ calls = 0

asize_tight(size) == \* mutant: no room for the tags
    IF size <= OVERHEAD THEN 2 * OVERHEAD
    ELSE size_t(DSIZE * (size_t(size + (DSIZE - 1)) \div DSIZE))
asize(size) == IF size <= OVERHEAD THEN 2 * OVERHEAD
               ELSE size_t(DSIZE * (size_t(size + DSIZE + (DSIZE - 1)) \div DSIZE))

\* place takes the front of the free block and leaves a rest that can be a
\* block.  The difference is unsigned: a block too small is split as well.
splits(csize, a) == size_t(csize - a) >= 2 * DSIZE
rest(csize, a) == IF splits(csize, a) THEN csize - a ELSE 0
whole(csize, a) == a >= 2 * DSIZE /\ a <= csize
place(csize, a) ==
    /\ free' = IF whole(csize, a) THEN rest(csize, a) ELSE 0
    /\ state' = IF whole(csize, a) THEN "heap" ELSE "ruined"

\* What the client may write: up to the next block, or to the heap's end.
granted(csize, a) == IF a <= csize THEN a + (csize - a - rest(csize, a)) ELSE csize

incr(a) == int(IF a > CHUNKSIZE THEN a ELSE CHUNKSIZE)
mem_sbrk_refuses(n) == n < 0 \/ brk + n > MAX_HEAP
\* extend_heap merges with a free last block; a block of no bytes takes its
\* own header for a neighbour's, and is not merged.
grown(n) == IF n = 0 THEN 0 ELSE n + free

\* What the rounding and the growth amount to without any width, and whether
\* the heap can serve a request so.
needed(size) == IF size <= OVERHEAD THEN 2 * OVERHEAD
                ELSE DSIZE * ((size + DSIZE + (DSIZE - 1)) \div DSIZE)
growth(a) == IF a > CHUNKSIZE THEN a ELSE CHUNKSIZE
Room(wanted) == wanted > 0 /\ LET a == needed(wanted) IN
                                free >= a \/ brk + growth(a) <= MAX_HEAP

Answer(wanted, block) ==
    last' = [wanted |-> wanted, block |-> block, room |-> Room(wanted)]
Null(wanted) == Answer(wanted, 0)
Grant(wanted, csize, a) ==
    /\ place(csize, a)
    /\ Answer(wanted, granted(csize, a))

mm_malloc(size, wanted) == LET a == asize(size) IN
    \/ /\ size = 0
       /\ Null(wanted) /\ UNCHANGED <<brk, free, state>>
    \/ /\ size > 0 /\ free > 0 /\ free >= a
       /\ Grant(wanted, free, a) /\ UNCHANGED brk
    \/ /\ size > 0 /\ (free = 0 \/ free < a) /\ mem_sbrk_refuses(incr(a))
       /\ Null(wanted) /\ UNCHANGED <<brk, free, state>>
    \/ /\ size > 0 /\ (free = 0 \/ free < a) /\ ~mem_sbrk_refuses(incr(a))
       /\ Grant(wanted, grown(incr(a)), a) /\ brk' = brk + incr(a)

next_call == state = "heap" /\ calls < num_calls /\ calls' = calls + 1

Malloc == /\ next_call
          /\ \E size \in 0 .. (2 ^ size_bits - 1) : mm_malloc(size, size)

\* mm_calloc clears what mm_malloc answered: the NULL of a failure as well,
\* which ends the program.  A product that wraps to 0 clears nothing.
fails(size) == /\ size > 0 /\ (free = 0 \/ free < asize(size))
               /\ mem_sbrk_refuses(incr(asize(size)))
Calloc == /\ next_call
          /\ \E nmemb \in Counts, size \in 0 .. (2 ^ size_bits - 1) :
               LET bytes == size_t(nmemb * size) IN
                  IF fails(bytes)
                  THEN /\ state' = "crashed" /\ Null(nmemb * size)
                       /\ UNCHANGED <<brk, free>>
                  ELSE mm_malloc(bytes, nmemb * size)

Next == Malloc \/ Calloc
Spec == Init /\ [][Next]_vars

-----------------------------------------------------------------------------
\* malloc - Allocate a block with at least size bytes of payload (mm.c:173).
\* The code breaks this for sizes from 2 ^ int_bits - 15 on.
Enough == last.block # 0 => last.block >= last.wanted + OVERHEAD

\* Up to 16 below the width of a tag no width shows: a request is granted, with
\* enough, exactly when the heap has room for it by plain arithmetic, and the
\* heap stays one.  A growth that arrives at mem_sbrk negative is refused
\* there, and would not have fitted (mm.c:195, 326, memlib.c:55).  Otherwise
\* mm_malloc answers NULL, and mm_calloc ends the program on that NULL
\* (mm.c:488-489).
RightBelowWidth == last.wanted <= 2 ^ int_bits - 2 * DSIZE =>
    /\ Enough /\ (last.block # 0 <=> last.room)
    /\ state # "ruined"
    /\ state = "crashed" => ~last.room
=============================================================================
