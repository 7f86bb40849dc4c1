---------------------------- MODULE DraftClient ----------------------------
(***************************************************************************)
(* The simple malloc packages kept beside mm.c, each behind the same       *)
(* interface, under a client like eval_mm_valid: one that holds a payload  *)
(* per id and fills what it is given with data of its own.  A behaviour    *)
(* has one package: mm-implicit.c compiled without or with NEXT_FIT, or    *)
(* mm-naive.c.                                                             *)
(***************************************************************************)
EXTENDS MemWords, FiniteSets

CONSTANTS CHUNKSIZE,    \* of mm-implicit.c, in words
          Index, Sizes, \* the ids of a trace; request sizes in bytes
          random_data   \* id -> offset -> word

VARIABLES draft,  \* the package: "first fit", "next fit" or "naive"
          heap, blocks, block_sizes
vars == <<draft, heap, blocks, block_sizes>>

Implicit == INSTANCE MmImplicit WITH NEXT_FIT <- draft = "next fit"
Naive == INSTANCE MmNaive

\* The data are words, and so are the sizes that mm-naive.c stores, in bytes.
ASSUME ClientAssumption ==
  /\ Implicit!ImplicitAssumption /\ 4 * MAX_HEAP <= WordMod
  /\ Sizes \subseteq Nat
  /\ \A i \in Index : random_data[i] \in [0 .. (MAX_HEAP - 1) -> Word]

implicit == draft # "naive"

init(m) == IF implicit THEN Implicit!mm_init(m) ELSE Naive!mm_init(m)
malloc(size) == IF implicit THEN Implicit!mm_malloc(heap, size)
                ELSE Naive!mm_malloc(heap, size)
free(p) == IF implicit THEN Implicit!mm_free(heap, p) ELSE Naive!mm_free(heap, p)
realloc(p, size) == IF implicit THEN Implicit!mm_realloc(heap, p, size)
                    ELSE Naive!mm_realloc(heap, p, size)

payload_words(size) == (size + 3) \div 4
holds(i) == block_sizes[i] > 0

fill(h, i, lo, size) ==
  [h EXCEPT !.mem = [a \in DOMAIN @ |->
      IF a \in lo .. (lo + payload_words(size) - 1) THEN random_data[i][a - lo]
                                                    ELSE @[a]]]

Nobody == [i \in Index |-> 0]

Init == /\ draft \in {"first fit", "next fit", "naive"}
        /\ heap = init([a \in Addr |-> 0])
        /\ blocks = Nobody /\ block_sizes = Nobody

\* mem_reset_brk empties the heap and leaves what is in it.
NewTrace == /\ heap' = init(heap.mem)
            /\ blocks' = Nobody /\ block_sizes' = Nobody

Malloc(i, size) ==
  /\ ~holds(i) /\ size > 0
  /\ \E new \in {malloc(size)} :
       IF new.bp = NULL
       THEN heap' = new.heap /\ UNCHANGED <<blocks, block_sizes>>
       ELSE /\ heap' = fill(new.heap, i, new.bp, size)
            /\ blocks' = [blocks EXCEPT ![i] = new.bp]
            /\ block_sizes' = [block_sizes EXCEPT ![i] = size]

\* eval_mm_valid fills only what it had checked before: here the payload of a
\* grown block is left as the package gives it.
Realloc(i, size) ==
  /\ holds(i)
  /\ \E new \in {realloc(blocks[i], size)} :
       /\ heap' = new.heap
       /\ IF new.bp = NULL /\ size # 0
          THEN UNCHANGED <<blocks, block_sizes>>
          ELSE /\ blocks' = [blocks EXCEPT ![i] = new.bp]
               /\ block_sizes' = [block_sizes EXCEPT ![i] = size]

Free(i) ==
  /\ holds(i)
  /\ heap' = free(blocks[i])
  /\ blocks' = [blocks EXCEPT ![i] = NULL]
  /\ block_sizes' = [block_sizes EXCEPT ![i] = 0]

Next == /\ \/ NewTrace
           \/ \E i \in Index : \/ \E size \in Sizes : \/ Malloc(i, size)
                                                    \/ Realloc(i, size)
                               \/ Free(i)
        /\ UNCHANGED draft
Spec == Init /\ [][Next]_vars

----------------------------------------------------------------------------
heap_blocks == Implicit!heap_blocks(heap)

(* Every variable has its type; the rover is among the heap's blocks,      *)
(* whatever was coalesced around it (mm-implicit.c:334-339).               *)
TypeOK ==
  /\ heap.mem \in [Addr -> Word]
  /\ heap.brk \in HeapBase .. HeapBase + MAX_HEAP
  /\ \A i \in Index : holds(i) => blocks[i] \in Addr
  /\ draft = "next fit" => heap.rover \in heap_blocks

(* The words of the block behind i's payload: with both tags, or with the  *)
(* size that mm-naive.c keeps in front.                                    *)
payload(i) == blocks[i] .. (blocks[i] + payload_words(block_sizes[i]) - 1)
extent(i) ==
  IF implicit THEN HDRP(blocks[i]) .. FTRP(heap.mem, blocks[i])
  ELSE Naive!SIZE_PTR(blocks[i]) .. (blocks[i] + payload_words(block_sizes[i]) - 1)

(* What a client holds was handed out once: no two of its blocks share a   *)
(* word, each is aligned and between the heap's ends, and the payload has  *)
(* its words in it without touching the tags.  mm-naive.c's realloc finds  *)
(* the old size in front (mm-naive.c:106-108).                              *)
HandedOutOnce ==
  LET held == {i \in Index : holds(i)}
  IN  /\ \A i \in held :
           /\ blocks[i] % DSIZE = 0
           /\ extent(i) \subseteq HeapBase .. (heap.brk - 1)
           /\ IF implicit
              THEN payload(i) \subseteq extent(i) \ {HDRP(blocks[i]), FTRP(heap.mem, blocks[i])}
              ELSE heap.mem[Naive!SIZE_PTR(blocks[i])] = block_sizes[i]
      /\ \A i, j \in held : i # j => extent(i) \intersect extent(j) = {}

(* And mm-implicit.c loses none: mm_checkheap has nothing to report        *)
(* (mm-implicit.c:190-211), no two neighbours are free, and the allocated  *)
(* blocks are the client's and the prologue.  The rover is at one of them. *)
Sound ==
  LET m == heap.mem
      B == heap_blocks \ {heap.brk}
      prologue == Implicit!heap_listp
  IN  TypeOK /\ HandedOutOnce /\ (implicit =>
        /\ m[HDRP(prologue)] = PACK(DSIZE, 1)
        /\ heap.brk \in heap_blocks /\ m[HDRP(heap.brk)] = PACK(0, 1)
        /\ \A b \in B : b % 2 = 0 /\ m[HDRP(b)] = m[FTRP(m, b)]
        /\ \A b \in B : GET_ALLOC(m, HDRP(b)) = 1
                          \/ GET_ALLOC(m, HDRP(NEXT_BLKP(m, b))) = 1
        /\ {b \in B : GET_ALLOC(m, HDRP(b)) = 1}
             = {blocks[i] : i \in {j \in Index : holds(j)}} \cup {prologue})

(* The search misses only when nothing fits: the next fit search goes all  *)
(* the way round from wherever the rover is (mm-implicit.c:270-298).       *)
SearchComplete ==
  draft = "next fit" =>
    \A size \in Sizes \ {0} :
      LET asize == Implicit!adjust(size)
      IN  Implicit!find_fit(heap, asize).bp = NULL <=>
            \A b \in heap_blocks : ~Implicit!fits(heap.mem, b, asize)

(* The packages are allocators as their clients understand the word: held  *)
(* payloads are aligned, in the heap and apart, realloc keeps the common   *)
(* prefix and a failed one keeps all, and nothing but its owner's call     *)
(* changes a payload.                                                      *)
region(i) ==
  IF holds(i)
  THEN [lo |-> blocks[i], words |-> payload_words(block_sizes[i]),
        data |-> [k \in 0 .. (payload_words(block_sizes[i]) - 1)
                    |-> heap.mem[blocks[i] + k]]]
  ELSE [lo |-> 0, words |-> 0, data |-> <<>>]
Package == INSTANCE Allocator WITH regions <- [i \in Index |-> region(i)],
                                   HeapLo <- HeapBase,
                                   HeapHi <- HeapBase + MAX_HEAP - 1,
                                   Align <- DSIZE
AllocatorSpec == Package!Spec
=============================================================================
