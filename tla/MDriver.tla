------------------------------ MODULE MDriver ------------------------------
(***************************************************************************)
(* eval_mm_valid of p5malloc/mdriver.c: the client that drives mm.c        *)
(* through a trace, fills every payload it is given with data of its own,  *)
(* and checks each answer.                                                 *)
(*                                                                         *)
(* A trace is any sequence of requests a well-formed .rep file holds: an   *)
(* id is allocated when it holds nothing, freed when it holds a block, and *)
(* reallocated when it holds a block or has no pointer at all.  A request  *)
(* is one step up to the call of mm_malloc or mm_realloc, the steps of the *)
(* allocator, and one step from the return on.                             *)
(***************************************************************************)
EXTENDS MmHeap

CONSTANTS
  Index,       \* the ids of a trace
  Sizes,       \* the request sizes, in bytes
  num_ops,     \* the requests of a trace
  num_traces,  \* the traces of a session
  random_data  \* random_data[i][k]: word k of what id i's payload is filled with

NoIndex == -1

ASSUME DriverAssumption ==
  /\ NoIndex \notin Index
  /\ Sizes \subseteq Nat
  /\ num_ops \in Nat /\ num_traces \in Nat
  /\ random_data \in [Index -> [0 .. (MAX_HEAP - 1) -> Word]]

VARIABLES
  blocks,       \* the pointer of each id, kept after its free
  block_sizes,  \* its size in bytes
  ranges,       \* the ids that have a record in the range list
  index,        \* the id of the request in progress, NoIndex between requests
  errors,       \* the kinds of error reported
  running,      \* a trace is being interpreted
  opnum,        \* the requests of the trace made so far
  tracenum      \* the traces started so far

vars == <<mem, brk, pc, req, bp, blocks, block_sizes, ranges, index, errors,
          running, opnum, tracenum>>
drvvars == <<blocks, block_sizes, ranges, index, errors, running,
             opnum, tracenum>>

----------------------------------------------------------------------------
(* The range record of id i is blocks[i] .. range_hi(i), in bytes.         *)

byte(p) == 4 * p
range_hi(lo, size) == byte(lo) + size - 1

in_heap(a) == byte(HeapBase) <= a /\ a <= byte(brk) - 1

(* add_range accepts payload lo of size bytes beside the ranges of rs.     *)
add_range_ok(rs, lo, size) ==
  /\ lo % DSIZE = 0
  /\ in_heap(byte(lo)) /\ in_heap(range_hi(lo, size))
  /\ \A j \in rs :
       LET plo == byte(blocks[j])
           phi == range_hi(blocks[j], block_sizes[j])
       IN  /\ ~(plo <= byte(lo) /\ byte(lo) <= phi)
           /\ ~(plo <= range_hi(lo, size) /\ range_hi(lo, size) <= phi)

remove_range(rs, lo) == {j \in rs : blocks[j] # lo}

randomize_block(m, i, lo, size) ==
  [a \in DOMAIN m |-> IF a \in lo .. (lo + payload_words(size) - 1)
                      THEN random_data[i][a - lo] ELSE m[a]]

garbled(i, lo, size) ==
  \E k \in 0 .. (payload_words(size) - 1) : mem[lo + k] # random_data[i][k]

check_index(i, lo, size) == IF garbled(i, lo, size) THEN {"garbled"} ELSE {}

----------------------------------------------------------------------------
Init ==
  /\ mem = [a \in Addr |-> 0] /\ brk = HeapBase
  /\ pc = "idle" /\ bp = NULL
  /\ req = NoRequest
  /\ blocks = [i \in Index |-> NULL] /\ block_sizes = [i \in Index |-> 0]
  /\ ranges = {} /\ index = NoIndex /\ errors = {} /\ running = FALSE
  /\ opnum = 0 /\ tracenum = 0

(* The next trace: the heap is emptied, not cleared.                       *)
StartTrace ==
  /\ pc = "idle" /\ tracenum < num_traces
  /\ tracenum' = tracenum + 1 /\ opnum' = 0
  /\ mem' = mm_init(mem) /\ brk' = mm_init_brk
  /\ blocks' = [i \in Index |-> NULL] /\ block_sizes' = [i \in Index |-> 0]
  /\ ranges' = {}
  /\ running' = TRUE
  /\ UNCHANGED <<pc, req, bp, index, errors>>

(* The next operation of the trace is read.                                *)
next_op ==
  /\ running /\ pc = "idle" /\ opnum < num_ops
  /\ opnum' = opnum + 1
  /\ UNCHANGED <<blocks, block_sizes, running, tracenum>>

Alloc(i, size) ==
  /\ next_op /\ i \notin ranges /\ size > 0
  /\ mm_malloc(size)
  /\ index' = i
  /\ UNCHANGED <<ranges, errors>>

Realloc(i, size) ==
  /\ next_op /\ (i \in ranges \/ blocks[i] = NULL)
  /\ mm_realloc(blocks[i], size)
  /\ index' = i
  /\ errors' = errors \union check_index(i, blocks[i], block_sizes[i])
  /\ UNCHANGED ranges

Free(i) ==
  /\ next_op /\ i \in ranges
  /\ errors' = errors \union check_index(i, blocks[i], block_sizes[i])
  /\ ranges' = remove_range(ranges, blocks[i])
  /\ mem' = mm_free(mem, blocks[i])
  /\ UNCHANGED <<brk, pc, req, bp, index>>

(* A free of id -1, which is free(NULL).                                   *)
FreeNull ==
  /\ next_op
  /\ mem' = mm_free(mem, NULL)
  /\ UNCHANGED <<brk, pc, req, bp, ranges, index, errors>>

----------------------------------------------------------------------------
(* The verdict on mm_malloc's answer, the range list then being rs.        *)
alloc_verdict(rs) ==
  CASE bp = NULL                          -> "failed"
    [] bp # NULL /\ add_range_ok(rs, bp, req.size) -> "ok"
    [] OTHER                              -> "range"

realloc_verdict(rs) ==
  CASE req.size # 0              -> alloc_verdict(rs)
    [] req.size = 0 /\ bp = NULL -> "ok"
    [] OTHER                     -> "not freed"

(* The payload is the id's, and the driver fills it with new data.         *)
remember ==
  /\ blocks' = [blocks EXCEPT ![index] = bp]
  /\ block_sizes' = [block_sizes EXCEPT ![index] = req.size]
  /\ mem' = randomize_block(mem, index, bp, req.size)
  /\ UNCHANGED running

(* eval_mm_valid returns 0: the rest of the trace is not interpreted.      *)
give_up(verdict) ==
  /\ errors' = errors \union {verdict}
  /\ running' = FALSE
  /\ UNCHANGED <<mem, blocks, block_sizes>>

AllocReturn ==
  LET verdict == alloc_verdict(ranges)
  IN  /\ pc = "ret" /\ req.op = "malloc"
      /\ mm_return /\ index' = NoIndex
      /\ ranges' = IF verdict = "ok" THEN ranges \union {index} ELSE ranges
      /\ IF verdict = "ok" THEN remember /\ UNCHANGED errors
                           ELSE give_up(verdict)
      /\ UNCHANGED <<brk, opnum, tracenum>>

(* Mutant: the whole new payload is checked, also what was never filled.   *)
kept_size_new == req.size

(* The size check_index goes up to after a realloc.                        *)
kept_size == IF req.size < block_sizes[index] THEN req.size
             ELSE block_sizes[index]

ReallocReturn ==
  LET rest == remove_range(ranges, blocks[index])
      verdict == realloc_verdict(rest)
  IN  /\ pc = "ret" /\ req.op = "realloc"
      /\ mm_return /\ index' = NoIndex
      /\ ranges' = CASE verdict \in {"failed", "not freed"} -> ranges
                     [] verdict = "ok" /\ req.size > 0 -> rest \union {index}
                     [] OTHER -> rest
      /\ IF verdict = "ok"
         THEN /\ remember
              /\ errors' = errors \union check_index(index, bp, kept_size)
         ELSE give_up(verdict)
      /\ UNCHANGED <<brk, opnum, tracenum>>

Call ==
  \/ \E i \in Index : \/ \E size \in Sizes : Alloc(i, size) \/ Realloc(i, size)
                      \/ Free(i)
  \/ FreeNull

Step == mm_step /\ UNCHANGED drvvars

Next == StartTrace \/ Call \/ Step \/ AllocReturn \/ ReallocReturn

Spec == Init /\ [][Next]_vars

(* The driver is one thread of straight code: a call in progress and the   *)
(* code after its return go on.  Nothing forces a further request.  This   *)
(* is weak fairness of Progress with its enabling condition written out:   *)
(* Progress can change the state exactly while a call is in progress.      *)
Progress == Step \/ AllocReturn \/ ReallocReturn
FairSpec == Spec /\ ([]<>(pc = "idle") \/ []<><<Progress>>_vars)

=============================================================================
