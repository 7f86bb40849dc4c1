---------------------------- MODULE MDriverProps ----------------------------
(***************************************************************************)
(* What must hold of mm.c while eval_mm_valid drives it: the type          *)
(* invariant, the heap invariants, what the driver's own checks conclude,  *)
(* the abstract allocator they add up to, and termination of calls.        *)
(***************************************************************************)
EXTENDS MDriver, FiniteSets, SequencesExt

Pointer == Addr \union {NULL}

(* Every variable has its type.  mem is the informative one: no pointer or *)
(* size the allocator stores in a 32-bit word is cut off, and no write     *)
(* lands outside the simulated heap.                                       *)
TypeOK ==
  /\ mem \in [Addr -> Word]
  /\ brk \in HeapBase .. (HeapBase + MAX_HEAP)
  /\ pc \in {"idle", "find_fit", "copy", "ret"}
  /\ req \in [op : {"none", "malloc", "realloc"}, ptr : Pointer, size : Sizes \union {0}]
  /\ bp \in Pointer
  /\ blocks \in [Index -> Pointer]
  /\ block_sizes \in [Index -> Sizes \union {0}]
  /\ ranges \subseteq Index
  /\ index \in Index \union {NoIndex}
  /\ errors \subseteq {"failed", "range", "garbled", "not freed"}
  /\ running \in BOOLEAN
  /\ opnum \in 0 .. num_ops /\ tracenum \in 0 .. num_traces

initialised == brk # HeapBase
HeapBlocks == blocks_from(mem)

(* mm_checkheap (mm.c:282) and more: at every call boundary and between    *)
(* the steps of a call, the blocks found by walking up from the prologue   *)
(* tile the heap up to the epilogue, each with matching tags.              *)
HeapTiled == initialised => Tiled(mem, brk, HeapBlocks)

(* coalesce (mm.c:401) is immediate: whatever order blocks are freed in,   *)
(* split or grown, two free blocks are never neighbours.                   *)
NoFreeNeighbours == initialised => Coalesced(mem, FreeBlocks(mem, HeapBlocks))

(* The list of free_listp visits every free block once and nothing else,   *)
(* ends, and its back links mirror its forward links; the word above the   *)
(* root, which LIFO_INSERT reads as the root's upper half, stays zero.     *)
FreeListExact ==
  initialised =>
    LET fl == free_list(mem)
        F == FreeBlocks(mem, HeapBlocks)
    IN  /\ ToSet(fl) = F /\ Len(fl) = Cardinality(F)
        /\ \A k \in 1 .. Len(fl) :
             /\ mem[PREV_P(fl[k])] = IF k = 1 THEN NULL ELSE fl[k - 1]
             /\ mem[NEXT_P(fl[k])] = IF k = Len(fl) THEN NULL ELSE fl[k + 1]
        /\ mem[free_listp + WSIZE] = 0

(* The pointers the client may use: those of its ids, and between the      *)
(* allocator's answer and the driver's next step the one just granted.     *)
(* mm_realloc has released its argument by the time it returns.            *)
granted == IF pc \in {"copy", "ret"} /\ bp # NULL THEN {bp} ELSE {}
released ==
  IF pc = "ret" /\ req.op = "realloc" /\ (bp # NULL \/ req.size = 0)
  THEN {blocks[index]} ELSE {}
Held == ({blocks[i] : i \in ranges} \ released) \union granted

(* No block is lost and none is handed out twice: the allocated blocks of  *)
(* the heap, the prologue aside, are exactly the client's.                 *)
NoLeak ==
  initialised =>
    {p \in HeapBlocks : Allocated(mem, p)} = Held \union {heap_listp}

(* find_fit gives up, and the heap grows or malloc fails, only when no     *)
(* free block anywhere in the heap is large enough for the request.        *)
MissMeansFull ==
  pc = "find_fit" /\ bp = NULL
    => \A p \in FreeBlocks(mem, HeapBlocks) :
         Block_size(mem, p) < adjust(req.size)

(* eval_mm_valid reports no error but the heap running out: no payload     *)
(* misaligned, outside the heap or overlapping another, none garbled       *)
(* while it was held, realloc's copy included.                             *)
DriverSatisfied == errors \subseteq {"failed"}

(* A call of the allocator returns: find_fit's walk ends.                  *)
CallsReturn == pc # "idle" ~> pc = "idle"

----------------------------------------------------------------------------
(* The abstract allocator.  A region passes to its id when mm_malloc       *)
(* returns or mm_realloc has copied and freed, and leaves it in mm_free.   *)

held_region(lo, size) ==
  [lo |-> lo, words |-> payload_words(size),
   data |-> [k \in 0 .. (payload_words(size) - 1) |-> mem[lo + k]]]

answered(i) == pc = "ret" /\ i = index

regions ==
  [i \in Index |->
     CASE answered(i) /\ bp # NULL -> held_region(bp, req.size)
       [] answered(i) /\ bp = NULL /\ (req.op = "malloc" \/ req.size = 0)
            -> [lo |-> 0, words |-> 0, data |-> <<>>]
       [] OTHER -> IF i \in ranges THEN held_region(blocks[i], block_sizes[i])
                   ELSE [lo |-> 0, words |-> 0, data |-> <<>>]]

Package == INSTANCE Allocator WITH HeapLo <- HeapBase,
                                   HeapHi <- HeapBase + MAX_HEAP - 1,
                                   Align <- DSIZE

(* mm.c under eval_mm_valid is an allocator: regions are aligned, in the   *)
(* heap and disjoint, realloc keeps the common prefix, and a failed one    *)
(* leaves the original as it was.  Only the driver's own code after an     *)
(* answer fills a payload: no step of the allocator, and no other call,    *)
(* changes the contents of a region a client holds.                        *)
AllocatorSpec ==
  /\ Package!Spec
  /\ [][AllocReturn \/ ReallocReturn \/ Package!Promise \/ UNCHANGED regions]_vars
=============================================================================
