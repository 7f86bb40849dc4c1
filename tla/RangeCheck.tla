------------------------------ MODULE RangeCheck ------------------------------
(***************************************************************************)
(* eval_mm_valid as a judge: the same checks as in MDriver, here on an     *)
(* allocator that may answer any address and need not copy on a realloc.   *)
(* The range list is a list of records, as in the code.  A byte of the     *)
(* heap is the id that filled it and its place in that id's payload.       *)
(***************************************************************************)
EXTENDS Integers, FiniteSets, Sequences, SequencesExt

CONSTANTS Index,      \* the ids of a trace
          HeapSize,   \* bytes
          ALIGNMENT,
          Sizes,      \* of requests, in bytes
          num_ops     \* bound: requests of a trace

ASSUME RangeAssumption ==
    HeapSize \in Nat /\ Sizes \subseteq Nat /\ num_ops \in Nat

NULL == -1

VARIABLES debug_mode, ignore_ranges,
          heap,     \* byte -> what was written there last
          live,     \* the ids the trace holds
          blocks, block_sizes,
          ranges,   \* the range list
          errors,   \* kinds of error reported
          opnum,    \* num_ops when the evaluation has returned
          clash     \* history: ids held when another id was given a byte of theirs

vars == <<debug_mode, ignore_ranges, heap, live, blocks, block_sizes, ranges,
          errors, opnum, clash>>

Bytes == 0 .. (HeapSize - 1)
Nothing == <<>>

Init == /\ debug_mode \in {"NONE", "CHEAP", "EXPENSIVE"}
        /\ ignore_ranges \in BOOLEAN
        /\ heap = [a \in Bytes |-> Nothing]
        /\ live = {} /\ ranges = <<>> /\ errors = {} /\ opnum = 0 /\ clash = {}
        /\ blocks = [i \in Index |-> NULL] /\ block_sizes = [i \in Index |-> 0]

----------------------------------------------------------------------------
within(a, r) == r.lo <= a /\ a <= r.hi
hits_low(r, s) == within(r.lo, s)  \* mutant: forgets the second end
hits(r, s) == within(r.lo, s) \/ within(r.hi, s)

range_of(i, lo, size) == [lo |-> lo, hi |-> lo + size - 1, index |-> i]
listed == ~ignore_ranges /\ debug_mode # "NONE"

\* add_range on the list rs: whether it accepts, and the list then.
add_range_ok(rs, r) ==
    /\ r.lo % ALIGNMENT = 0
    /\ r.lo \in Bytes /\ r.hi \in Bytes
    /\ listed => \A k \in DOMAIN rs : ~hits(r, rs[k])
add_range(rs, r) == IF listed THEN <<r>> \o rs ELSE rs
first_at(rs, lo) == {k \in DOMAIN rs : /\ rs[k].lo = lo
                                       /\ \A l \in 1 .. (k - 1) : rs[l].lo # lo}
remove_range_last(rs, lo) == \* mutant: unlinks the record after it too
    IF first_at(rs, lo) = {} THEN rs
    ELSE SubSeq(rs, 1, (CHOOSE k \in first_at(rs, lo) : TRUE) - 1)
remove_range(rs, lo) ==
    IF first_at(rs, lo) = {} THEN rs
    ELSE RemoveAt(rs, CHOOSE k \in first_at(rs, lo) : TRUE)

payload(lo, size) == lo .. (lo + size - 1)
randomize_block(h, i, lo, size) ==
    IF debug_mode = "NONE" THEN h
    ELSE [a \in Bytes |-> IF a \in payload(lo, size) THEN <<i, a - lo>> ELSE h[a]]

garbled(h, i, lo, size) == \E a \in payload(lo, size) : h[a] # <<i, a - lo>>
check_index_never(h, i, lo, size) == {}  \* mutant
check_index(h, i, lo, size) ==
    IF debug_mode # "NONE" /\ garbled(h, i, lo, size) THEN {"garbled"} ELSE {}

\* What the debugging checks before a request find.
check_all == IF debug_mode = "EXPENSIVE"
             THEN UNION {check_index(heap, ranges[k].index, blocks[ranges[k].index],
                                     block_sizes[ranges[k].index]) : k \in DOMAIN ranges}
             ELSE {}
check_one(i) == check_all \cup check_index(heap, i, blocks[i], block_sizes[i])

----------------------------------------------------------------------------
\* What the allocator may do: any address, inside the heap or not, or NULL;
\* a realloc may or may not carry the payload over.
answers == (-1 .. HeapSize)
copied(i, lo, size) ==
    {heap, [a \in Bytes |-> IF a \in payload(lo, size) /\ a - lo < block_sizes[i]
                            THEN heap[blocks[i] + a - lo] ELSE heap[a]]}

struck(i, lo, size) == {j \in live \ {i} :
    payload(lo, size) \cap payload(blocks[j], block_sizes[j]) # {}}

next_op == opnum < num_ops /\ UNCHANGED <<debug_mode, ignore_ranges>>
give_up(found, rs) == /\ errors' = errors \cup found /\ opnum' = num_ops
                      /\ ranges' = rs
                      /\ UNCHANGED <<heap, live, blocks, block_sizes, clash>>

\* The payload is id i's from now on.
remember(i, lo, size, h) ==
    /\ opnum' = opnum + 1
    /\ blocks' = [blocks EXCEPT ![i] = lo]
    /\ block_sizes' = [block_sizes EXCEPT ![i] = size]
    /\ heap' = randomize_block(h, i, lo, size)
    /\ live' = IF size > 0 THEN live \cup {i} ELSE live \ {i}
    /\ clash' = clash \cup struck(i, lo, size)

Malloc(i, size) ==
    /\ next_op /\ i \notin live /\ size > 0
    /\ \E p \in answers : LET r == range_of(i, p, size) IN
          IF p = NULL THEN give_up(check_all \cup {"failed"}, ranges)
          ELSE IF add_range_ok(ranges, r)
          THEN /\ ranges' = add_range(ranges, r)
               /\ errors' = errors \cup check_all
               /\ remember(i, p, size, heap)
          ELSE give_up(check_all \cup {"range"}, ranges)

Realloc(i, size) ==
    /\ next_op /\ (i \in live \/ blocks[i] = NULL)
    /\ \E p \in answers :
         LET r == range_of(i, p, size)
             rest == remove_range(ranges, blocks[i])
             kept == IF size < block_sizes[i] THEN size ELSE block_sizes[i]
         IN IF (p = NULL) # (size = 0)
            THEN give_up(check_one(i) \cup {"failed"}, ranges)
            ELSE IF size > 0 /\ ~add_range_ok(rest, r)
            THEN give_up(check_one(i) \cup {"range"}, rest)
            ELSE \E h \in copied(i, p, size) :
                   /\ ranges' = IF size > 0 THEN add_range(rest, r) ELSE rest
                   /\ errors' = errors \cup check_one(i) \cup check_index(h, i, p, kept)
                   /\ remember(i, p, size, h)

Free(i) ==
    /\ next_op /\ i \in live
    /\ errors' = errors \cup check_one(i)
    /\ ranges' = remove_range(ranges, blocks[i])
    /\ live' = live \ {i} /\ opnum' = opnum + 1
    /\ UNCHANGED <<heap, blocks, block_sizes, clash>>

Next == \E i \in Index : \/ \E size \in Sizes : Malloc(i, size) \/ Realloc(i, size)
                         \/ Free(i)
Spec == Init /\ [][Next]_vars

----------------------------------------------------------------------------
overlap(i, j) == payload(blocks[i], block_sizes[i])
                    \cap payload(blocks[j], block_sizes[j]) # {}

\* Through requests that are refused, moved or freed in any order, the list
\* holds the payload of each id the trace holds once, and nothing else
\* (mdriver.c:581-606).
RangesExact == listed /\ opnum < num_ops =>
    /\ Len(ranges) = Cardinality(live)
    /\ ToSet(ranges) = {range_of(i, blocks[i], block_sizes[i]) : i \in live}

\* "assume the overlap will be caught by writing random bits": whatever the
\* mode but DBG_NONE, when the trace has freed what it held, an overlap of
\* two payloads, however long ago, has been reported (mdriver.c:562-564).
CaughtByData ==
    debug_mode # "NONE" /\ live = {} /\ clash # {} => "garbled" \in errors

\* With the list kept, two payloads overlap only if one lies strictly within
\* the other, and at the cost of its data (mdriver.c:568-576).
OnlyEnclosed == listed => \A i, j \in live : i # j /\ overlap(i, j) =>
    \E k, l \in {i, j} : /\ k # l
                         /\ payload(blocks[k], block_sizes[k])
                              \subseteq payload(blocks[l], block_sizes[l])
                         /\ blocks[k] # blocks[l]
                         /\ "garbled" \in errors \/ garbled(heap, k, blocks[k], block_sizes[k])
=============================================================================
