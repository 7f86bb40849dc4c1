--------------------------- MODULE DriverPartsProof ---------------------------
(***************************************************************************)
(* The parts of the malloc driver, for every value of their constants: the *)
(* judge's list and data against any allocator, a session's loop against   *)
(* any errors and a signal at any step, the clock with a timer's interrupt *)
(* at any step, and the widths of the sizes.                               *)
(***************************************************************************)
EXTENDS DriverParts, FiniteSetTheorems, WellFoundedInduction, TLAPS

----------------------------------------------------------------------------
(* The judge: RangeCheck.                                                  *)

Reported == "garbled" \in errors

TypeInv ==
    /\ debug_mode \in {"NONE", "CHEAP", "EXPENSIVE"}
    /\ live \subseteq Index
    /\ blocks \in [Index -> Int] /\ block_sizes \in [Index -> Int]
    /\ heap = [a \in Bytes |-> heap[a]]
    /\ \A x \in live : payload(blocks[x], block_sizes[x]) \subseteq Bytes

\* An id that was struck is still held and garbled, until that is reported.
Struck == debug_mode # "NONE" /\ ~Reported =>
    \A x \in clash : x \in live /\ garbled(heap, x, blocks[x], block_sizes[x])

IInv == TypeInv /\ Struck

LEMMA InitIInv == Init => IInv
  BY DEF Init, IInv, TypeInv, Struck, payload, NULL

\* Filling an id's payload leaves the others that it struck, or that were garbled
\* before, garbled (randomize_block, mdriver.c:643-660).
LEMMA FillGarbles ==
  ASSUME NEW h, NEW x, NEW lo \in Int, NEW size \in Int,
         NEW j, j # x, NEW jlo \in Int, NEW jsize \in Int,
         payload(jlo, jsize) \subseteq Bytes, debug_mode # "NONE",
         \/ payload(lo, size) \cap payload(jlo, jsize) # {}
         \/ garbled(h, j, jlo, jsize)
  PROVE  garbled(randomize_block(h, x, lo, size), j, jlo, jsize)
  <1> DEFINE filled == randomize_block(h, x, lo, size)
  <1>1. filled = [a \in Bytes |-> IF a \in payload(lo, size) THEN <<x, a - lo>> ELSE h[a]]
    BY DEF randomize_block
  <1>2. ASSUME NEW a \in payload(jlo, jsize), a \in payload(lo, size)
        PROVE  garbled(filled, j, jlo, jsize)
    <2>1. a \in Bytes /\ filled[a] = <<x, a - lo>>
      BY <1>1, <1>2
    <2>2. filled[a] # <<j, a - jlo>>
      BY <2>1
    <2> QED
      BY <1>2, <2>2 DEF garbled
  <1>3. ASSUME NEW a \in payload(jlo, jsize), a \notin payload(lo, size),
               h[a] # <<j, a - jlo>>
        PROVE  garbled(filled, j, jlo, jsize)
    <2>1. a \in Bytes /\ filled[a] = h[a]
      BY <1>1, <1>3
    <2> QED
      BY <1>3, <2>1 DEF garbled
  <1>4. CASE payload(lo, size) \cap payload(jlo, jsize) # {}
    BY <1>2, <1>4
  <1>5. CASE garbled(h, j, jlo, jsize)
    BY <1>2, <1>3, <1>5 DEF garbled
  <1> QED
    BY <1>4, <1>5

\* What a realloc carries over ends up under the fill (mdriver.c:891-928).
LEMMA CopyUnderFill ==
  ASSUME NEW x, NEW lo \in Int, NEW size \in Int, NEW h \in copied(x, lo, size),
         heap = [a \in Bytes |-> heap[a]], debug_mode # "NONE"
  PROVE  randomize_block(h, x, lo, size) = randomize_block(heap, x, lo, size)
  BY DEF copied, randomize_block

LEMMA AcceptedInside ==
  ASSUME NEW rs, NEW x, NEW lo \in Int, NEW size \in Int,
         add_range_ok(rs, range_of(x, lo, size))
  PROVE  payload(lo, size) \subseteq Bytes
  BY RangeAssumption DEF add_range_ok, range_of, payload, Bytes

\* An id is given a payload, and whatever was struck about it is reported.
LEMMA RememberKeeps ==
  ASSUME IInv, NEW x \in Index, NEW lo \in Int, NEW size \in Int, NEW h,
         h = heap \/ h \in copied(x, lo, size),
         remember(x, lo, size, h), payload(lo, size) \subseteq Bytes,
         debug_mode' = debug_mode, errors \subseteq errors',
         debug_mode # "NONE" /\ "garbled" \notin errors' => x \notin clash
  PROVE  IInv'
  <1> USE DEF IInv
  <1>1. TypeInv'
    <2>1. heap' = [a \in Bytes |-> heap'[a]]
      <3>1. CASE debug_mode = "NONE"
        BY <3>1 DEF remember, randomize_block, copied, TypeInv
      <3>2. CASE debug_mode # "NONE"
        BY <3>2 DEF remember, randomize_block
      <3> QED
        BY <3>1, <3>2
    <2>2. \A j \in live' : payload(blocks'[j], block_sizes'[j]) \subseteq Bytes
      BY DEF remember, TypeInv
    <2> QED
      BY <2>1, <2>2 DEF remember, TypeInv
  <1>2. Struck'
    <2> SUFFICES ASSUME debug_mode # "NONE", "garbled" \notin errors', NEW j \in clash'
                 PROVE  j \in live' /\ garbled(heap', j, blocks'[j], block_sizes'[j])
      BY DEF Struck, Reported
    <2>1. x \notin clash /\ j # x
      BY DEF remember, struck
    <2>2. j \in live /\ j \in live'
      BY <2>1 DEF remember, struck, Struck, Reported
    <2>3. blocks'[j] = blocks[j] /\ block_sizes'[j] = block_sizes[j]
      BY <2>1, <2>2 DEF remember, TypeInv
    <2>4. heap' = randomize_block(heap, x, lo, size)
      BY CopyUnderFill DEF remember, TypeInv
    <2>5. \/ payload(lo, size) \cap payload(blocks[j], block_sizes[j]) # {}
          \/ garbled(heap, j, blocks[j], block_sizes[j])
      BY <2>1 DEF remember, struck, Struck, Reported
    <2>6. garbled(heap', j, blocks[j], block_sizes[j])
      BY <2>1, <2>2, <2>4, <2>5, FillGarbles DEF TypeInv
    <2> QED
      BY <2>2, <2>3, <2>6
  <1> QED
    BY <1>1, <1>2

LEMMA GiveUpKeeps ==
  ASSUME IInv, NEW found, NEW rs, give_up(found, rs), debug_mode' = debug_mode
  PROVE  IInv'
  BY DEF IInv, TypeInv, Struck, Reported, give_up, garbled

\* An id that was struck is reported when it is looked at (mdriver.c:677-686).
LEMMA LookReports ==
  ASSUME IInv, NEW x \in clash, debug_mode # "NONE"
  PROVE  "garbled" \in errors \cup check_one(x)
  BY DEF IInv, Struck, Reported, check_one, check_index

LEMMA Step == IInv /\ [Next]_vars => IInv'
  <1> SUFFICES ASSUME IInv, [Next]_vars PROVE IInv'
    OBVIOUS
  <1>1. ASSUME NEW x \in Index, NEW size \in Sizes, Malloc(x, size) PROVE IInv'
    <2> USE <1>1, RangeAssumption
    <2>1. PICK p \in answers :
            LET r == range_of(x, p, size) IN
              IF p = NULL THEN give_up(check_all \cup {"failed"}, ranges)
              ELSE IF add_range_ok(ranges, r)
              THEN /\ ranges' = add_range(ranges, r)
                   /\ errors' = errors \cup check_all
                   /\ remember(x, p, size, heap)
              ELSE give_up(check_all \cup {"range"}, ranges)
      BY DEF Malloc
    <2>2. debug_mode' = debug_mode /\ p \in Int /\ size \in Int /\ x \notin live
      BY DEF Malloc, next_op, answers
    <2>3. CASE p # NULL /\ add_range_ok(ranges, range_of(x, p, size))
      <3>1. errors \subseteq errors' /\ remember(x, p, size, heap)
        BY <2>1, <2>3
      <3>2. debug_mode # "NONE" /\ "garbled" \notin errors' => x \notin clash
        BY <2>2, <3>1 DEF IInv, Struck, Reported
      <3>3. payload(p, size) \subseteq Bytes
        BY <2>2, <2>3, AcceptedInside
      <3> QED
        BY <2>2, <3>1, <3>2, <3>3, RememberKeeps
    <2> QED
      BY <2>1, <2>2, <2>3, GiveUpKeeps
  <1>2. ASSUME NEW x \in Index, NEW size \in Sizes, Realloc(x, size) PROVE IInv'
    <2> USE <1>2, RangeAssumption
    <2> DEFINE rest == remove_range(ranges, blocks[x])
               kept == IF size < block_sizes[x] THEN size ELSE block_sizes[x]
    <2>1. PICK p \in answers :
            LET r == range_of(x, p, size) IN
              IF (p = NULL) # (size = 0)
              THEN give_up(check_one(x) \cup {"failed"}, ranges)
              ELSE IF size > 0 /\ ~add_range_ok(rest, r)
              THEN give_up(check_one(x) \cup {"range"}, rest)
              ELSE \E h \in copied(x, p, size) :
                     /\ ranges' = IF size > 0 THEN add_range(rest, r) ELSE rest
                     /\ errors' = errors \cup check_one(x) \cup check_index(h, x, p, kept)
                     /\ remember(x, p, size, h)
      BY DEF Realloc
    <2> HIDE DEF rest, kept
    <2>2. debug_mode' = debug_mode /\ p \in Int /\ size \in Int
      BY DEF Realloc, next_op, answers
    <2>3. ASSUME ~(size > 0 /\ ~add_range_ok(rest, range_of(x, p, size))),
                 NEW h \in copied(x, p, size),
                 errors' = errors \cup check_one(x) \cup check_index(h, x, p, kept),
                 remember(x, p, size, h)
          PROVE  IInv'
      <3>1. debug_mode # "NONE" /\ "garbled" \notin errors' => x \notin clash
        BY <2>3, LookReports
      <3>2. payload(p, size) \subseteq Bytes
        <4>1. CASE size > 0
          BY <2>2, <2>3, <4>1, AcceptedInside
        <4>2. CASE ~(size > 0)
          BY <2>2, <4>2 DEF payload
        <4> QED
          BY <4>1, <4>2
      <3> QED
        BY <2>2, <2>3, <3>1, <3>2, RememberKeeps
    <2> QED
      BY <2>1, <2>2, <2>3, GiveUpKeeps
  <1>3. ASSUME NEW x \in Index, Free(x) PROVE IInv'
    <2>1. debug_mode' = debug_mode /\ errors' = errors \cup check_one(x)
      BY <1>3 DEF Free, next_op
    <2>2. debug_mode # "NONE" /\ "garbled" \notin errors' => x \notin clash
      BY <2>1, LookReports
    <2>3. TypeInv'
      BY <1>3 DEF Free, next_op, IInv, TypeInv
    <2>4. Struck'
      BY <1>3, <2>1, <2>2 DEF Free, IInv, Struck, Reported, garbled
    <2> QED
      BY <2>3, <2>4 DEF IInv
  <1>4. CASE UNCHANGED vars
    BY <1>4 DEF vars, IInv, TypeInv, Struck, Reported, garbled
  <1> QED
    BY <1>1, <1>2, <1>3, <1>4 DEF Next

----------------------------------------------------------------------------
(* The judge's list.                                                       *)

Record == [lo : Int, hi : Int, index : Index]

\* The list rs holds the payloads of the ids L, each once, at lo_of and of sizes size_of.
lists(rs, L, lo_of, size_of) ==
    /\ rs \in Seq(Record)
    /\ ToSet(rs) = {range_of(x, lo_of[x], size_of[x]) : x \in L}
    /\ \A k, l \in DOMAIN rs : rs[k].lo = rs[l].lo => k = l
    /\ Len(rs) = Cardinality(L)

LEMMA SeqJoined ==
  ASSUME NEW R, NEW s \in Seq(R), NEW t \in Seq(R)
  PROVE  /\ s \o t \in Seq(R) /\ Len(s \o t) = Len(s) + Len(t)
         /\ \A j \in 1 .. (Len(s) + Len(t)) :
               (s \o t)[j] = IF j <= Len(s) THEN s[j] ELSE t[j - Len(s)]
  OBVIOUS

LEMMA SeqRemoved ==
  ASSUME NEW R, NEW s \in Seq(R), NEW k \in 1 .. Len(s)
  PROVE  /\ RemoveAt(s, k) \in Seq(R)
         /\ Len(RemoveAt(s, k)) = Len(s) - 1
         /\ \A j \in 1 .. (Len(s) - 1) :
               RemoveAt(s, k)[j] = s[IF j < k THEN j ELSE j + 1]
  <1> DEFINE a == SubSeq(s, 1, k - 1)
             b == SubSeq(s, k + 1, Len(s))
  <1>1. a \in Seq(R) /\ Len(a) = k - 1 /\ \A j \in 1 .. (k - 1) : a[j] = s[j]
    OBVIOUS
  <1>2. /\ b \in Seq(R) /\ Len(b) = Len(s) - k
        /\ \A j \in 1 .. (Len(s) - k) : b[j] = s[k + j]
    OBVIOUS
  <1>3. RemoveAt(s, k) = a \o b
    BY DEF RemoveAt
  <1> HIDE DEF a, b
  <1>4. a \o b \in Seq(R) /\ Len(a \o b) = Len(s) - 1
    <2>1. Len(s) \in Nat
      OBVIOUS
    <2>2. a \o b \in Seq(R) /\ Len(a \o b) = Len(a) + Len(b)
      BY <1>1, <1>2, SeqJoined
    <2> QED
      BY <1>1, <1>2, <2>1, <2>2
  <1>5. ASSUME NEW j \in 1 .. (Len(s) - 1)
        PROVE  (a \o b)[j] = s[IF j < k THEN j ELSE j + 1]
    <2>1. CASE j < k
      BY <1>1, <1>2, <2>1
    <2>2. CASE ~(j < k)
      <3>1. (a \o b)[j] = b[j - (k - 1)]
        BY <1>1, <1>2, <2>2
      <3>2. j - (k - 1) \in 1 .. (Len(s) - k) /\ k + (j - (k - 1)) = j + 1
        BY <2>2
      <3> QED
        BY <1>2, <2>2, <3>1, <3>2
    <2> QED
      BY <2>1, <2>2
  <1> QED
    BY <1>3, <1>4, <1>5

LEMMA SeqAdded ==
  ASSUME NEW R, NEW s \in Seq(R), NEW r \in R
  PROVE  /\ <<r>> \o s \in Seq(R)
         /\ Len(<<r>> \o s) = Len(s) + 1
         /\ \A j \in 1 .. (Len(s) + 1) :
               (<<r>> \o s)[j] = IF j = 1 THEN r ELSE s[j - 1]
  <1>1. <<r>> \in Seq(R) /\ Len(<<r>>) = 1 /\ <<r>>[1] = r
    OBVIOUS
  <1> QED
    BY <1>1

\* remove_range unlinks the record of the one id that is there (mdriver.c:581).
LEMMA Removed ==
  ASSUME NEW rs, NEW L, L \subseteq Index, IsFiniteSet(L), NEW lo_of, NEW size_of,
         lists(rs, L, lo_of, size_of), NEW x \in Index,
         \A y \in L : lo_of[y] = lo_of[x] => y = x
  PROVE  lists(remove_range(rs, lo_of[x]), L \ {x}, lo_of, size_of)
  <1>1. \A k \in DOMAIN rs : \E y \in L : rs[k] = range_of(y, lo_of[y], size_of[y])
    BY DEF lists, ToSet
  <1>2. DOMAIN rs = 1 .. Len(rs) /\ Len(rs) \in Nat
    BY DEF lists
  <1>3. CASE x \notin L
    <2>1. \A k \in DOMAIN rs : rs[k].lo # lo_of[x]
      BY <1>1, <1>3 DEF range_of
    <2>2. remove_range(rs, lo_of[x]) = rs
      BY <2>1 DEF remove_range, first_at
    <2>3. L \ {x} = L
      BY <1>3
    <2> QED
      BY <2>2, <2>3
  <1>4. CASE x \in L
    <2>1. PICK k \in DOMAIN rs : rs[k] = range_of(x, lo_of[x], size_of[x])
      BY <1>4 DEF lists, ToSet
    <2>2. rs[k].lo = lo_of[x]
      BY <2>1 DEF range_of
    <2>3. first_at(rs, lo_of[x]) = {k}
      <3>1. \A l \in first_at(rs, lo_of[x]) : l = k
        BY <2>2 DEF first_at, lists
      <3>2. k \in first_at(rs, lo_of[x])
        BY <1>2, <2>2 DEF first_at, lists
      <3> QED
        BY <3>1, <3>2
    <2> DEFINE t == RemoveAt(rs, k)
               from(j) == IF j < k THEN j ELSE j + 1
    <2>4. remove_range(rs, lo_of[x]) = t
      BY <2>3 DEF remove_range
    <2>5. /\ t \in Seq(Record) /\ Len(t) = Len(rs) - 1
          /\ \A j \in 1 .. (Len(rs) - 1) : t[j] = rs[from(j)]
      BY <1>2, SeqRemoved DEF lists
    <2> HIDE DEF t
    <2>6. DOMAIN t = 1 .. (Len(rs) - 1) /\ k \in 1 .. Len(rs)
      BY <1>2, <2>5
    <2>7. \A j \in DOMAIN t : from(j) \in DOMAIN rs /\ from(j) # k
      BY <1>2, <2>6
    <2>8. Len(t) = Cardinality(L \ {x})
      BY <1>4, <2>5, FS_RemoveElement DEF lists
    <2>9. \A j, l \in DOMAIN t : t[j].lo = t[l].lo => j = l
      <3>1. \A j, l \in DOMAIN t : t[j].lo = t[l].lo => from(j) = from(l)
        BY <2>5, <2>6, <2>7 DEF lists
      <3> QED
        BY <1>2, <2>6, <3>1
    <2>10. ToSet(t) = {range_of(y, lo_of[y], size_of[y]) : y \in L \ {x}}
      <3>1. ASSUME NEW j \in DOMAIN t
            PROVE  \E y \in L \ {x} : t[j] = range_of(y, lo_of[y], size_of[y])
        <4>1. t[j] = rs[from(j)] /\ from(j) \in DOMAIN rs /\ from(j) # k
          BY <2>5, <2>6, <2>7
        <4>2. PICK y \in L : rs[from(j)] = range_of(y, lo_of[y], size_of[y])
          BY <1>1, <4>1
        <4>3. y # x
          BY <2>1, <4>1, <4>2 DEF lists
        <4> QED
          BY <4>1, <4>2, <4>3
      <3>2. ASSUME NEW y \in L \ {x}
            PROVE  \E j \in DOMAIN t : t[j] = range_of(y, lo_of[y], size_of[y])
        <4>1. PICK l \in DOMAIN rs : rs[l] = range_of(y, lo_of[y], size_of[y])
          BY DEF lists, ToSet
        <4>2. l # k
          BY <2>2, <4>1 DEF range_of
        <4> DEFINE j == IF l < k THEN l ELSE l - 1
        <4>3. j \in DOMAIN t /\ from(j) = l
          BY <1>2, <2>6, <4>2
        <4> HIDE DEF j
        <4> QED
          BY <2>5, <2>6, <4>1, <4>3
      <3> QED
        BY <3>1, <3>2 DEF ToSet
    <2> QED
      BY <2>4, <2>5, <2>8, <2>9, <2>10 DEF lists
  <1> QED
    BY <1>3, <1>4

\* What is not on the list may move.
LEMMA Moved ==
  ASSUME NEW rs, NEW L, L \subseteq Index, NEW lo_of \in [Index -> Int],
         NEW size_of \in [Index -> Int], lists(rs, L, lo_of, size_of),
         NEW x \in Index, x \notin L, NEW lo, NEW size
  PROVE  lists(rs, L, [lo_of EXCEPT ![x] = lo], [size_of EXCEPT ![x] = size])
  <1> DEFINE lo_then == [lo_of EXCEPT ![x] = lo]
             size_then == [size_of EXCEPT ![x] = size]
  <1>1. \A y \in L : lo_then[y] = lo_of[y] /\ size_then[y] = size_of[y]
    OBVIOUS
  <1> HIDE DEF lo_then, size_then
  <1>2. {range_of(y, lo_of[y], size_of[y]) : y \in L} = {range_of(y, lo_then[y], size_then[y]) : y \in L}
    BY <1>1
  <1>3. lists(rs, L, lo_then, size_then)
    BY <1>2 DEF lists
  <1> QED
    BY <1>3 DEF lo_then, size_then

\* add_range puts a record in front (mdriver.c:553-579).
LEMMA Added ==
  ASSUME NEW rs, NEW L, L \subseteq Index, IsFiniteSet(L),
         NEW lo_of \in [Index -> Int], NEW size_of \in [Index -> Int], lists(rs, L, lo_of, size_of),
         NEW x \in Index, x \notin L, \A y \in L : lo_of[y] # lo_of[x]
  PROVE  lists(<<range_of(x, lo_of[x], size_of[x])>> \o rs, L \cup {x}, lo_of, size_of)
  <1> DEFINE r == range_of(x, lo_of[x], size_of[x])
             t == <<r>> \o rs
  <1>1. r \in Record /\ r.lo = lo_of[x]
    BY DEF range_of, Record
  <1> HIDE DEF r
  <1>2. /\ t \in Seq(Record) /\ Len(t) = Len(rs) + 1
        /\ \A j \in 1 .. (Len(rs) + 1) : t[j] = IF j = 1 THEN r ELSE rs[j - 1]
    BY <1>1, SeqAdded DEF lists
  <1> HIDE DEF t
  <1>3. /\ DOMAIN rs = 1 .. Len(rs) /\ Len(rs) \in Nat
        /\ DOMAIN t = 1 .. (Len(rs) + 1)
    BY <1>2 DEF lists
  <1>4. Len(t) = Cardinality(L \cup {x})
    <2>1. Cardinality(L \cup {x}) = Cardinality(L) + 1
      BY FS_AddElement
    <2>2. Len(rs) = Cardinality(L)
      BY DEF lists
    <2> QED
      BY <1>2, <2>1, <2>2
  <1>5. \A k \in DOMAIN rs : rs[k].lo # r.lo
    <2>1. \A k \in DOMAIN rs : \E y \in L : rs[k] = range_of(y, lo_of[y], size_of[y])
      BY DEF lists, ToSet
    <2> QED
      BY <1>1, <2>1 DEF range_of
  <1>6. \A j, l \in DOMAIN t : t[j].lo = t[l].lo => j = l
    <2> SUFFICES ASSUME NEW j \in DOMAIN t, NEW l \in DOMAIN t, t[j].lo = t[l].lo
                 PROVE  j = l
      OBVIOUS
    <2>1. CASE j = 1 \/ l = 1
      <3>1. \A m \in DOMAIN t : m # 1 => t[m].lo # r.lo
        <4>1. \A m \in DOMAIN t : m # 1 => m - 1 \in DOMAIN rs /\ t[m] = rs[m - 1]
          BY <1>2, <1>3
        <4> QED
          BY <1>5, <4>1
      <3>2. 1 \in DOMAIN t /\ t[1] = r
        BY <1>2, <1>3
      <3> QED
        BY <2>1, <3>1, <3>2
    <2>2. CASE j # 1 /\ l # 1
      <3>1. j - 1 \in DOMAIN rs /\ l - 1 \in DOMAIN rs
        BY <1>3, <2>2
      <3>2. rs[j - 1].lo = rs[l - 1].lo
        BY <1>2, <1>3, <2>2
      <3>3. j - 1 = l - 1
        BY <3>1, <3>2 DEF lists
      <3> QED
        BY <1>3, <3>3
    <2> QED
      BY <2>1, <2>2
  <1>7. ToSet(t) = ToSet(rs) \cup {r}
    <2>1. \A j \in DOMAIN t : t[j] = r \/ \E k \in DOMAIN rs : t[j] = rs[k]
      <3> SUFFICES ASSUME NEW j \in DOMAIN t, j # 1
                   PROVE  \E k \in DOMAIN rs : t[j] = rs[k]
        BY <1>2, <1>3
      <3>1. j - 1 \in DOMAIN rs /\ t[j] = rs[j - 1]
        BY <1>2, <1>3
      <3> QED
        BY <3>1
    <2>2. 1 \in DOMAIN t /\ t[1] = r
      BY <1>2, <1>3
    <2>3. \A k \in DOMAIN rs : k + 1 \in DOMAIN t /\ t[k + 1] = rs[k]
      BY <1>2, <1>3
    <2> QED
      BY <2>1, <2>2, <2>3 DEF ToSet
  <1>8. ToSet(t) = {range_of(y, lo_of[y], size_of[y]) : y \in L \cup {x}}
    BY <1>7 DEF lists, r
  <1>9. lists(t, L \cup {x}, lo_of, size_of)
    BY <1>2, <1>4, <1>6, <1>8 DEF lists
  <1> QED
    BY <1>9 DEF t, r

----------------------------------------------------------------------------
(* The judge's list through a trace.                                       *)

\* What the list says holds of the payloads, and of the list while more
\* requests may come.
LiveInv ==
    /\ IsFiniteSet(live)
    /\ \A x \in live : block_sizes[x] > 0
Apart == listed => \A x, y \in live : blocks[x] = blocks[y] => x = y
ListHolds == listed /\ opnum < num_ops => lists(ranges, live, blocks, block_sizes)

\* k lies strictly within l, and at the cost of its data.
within_block(k, l) ==
    /\ payload(blocks[k], block_sizes[k]) \subseteq payload(blocks[l], block_sizes[l])
    /\ blocks[k] # blocks[l]
    /\ Reported \/ garbled(heap, k, blocks[k], block_sizes[k])
Within == listed => \A x, y \in live :
             x # y /\ overlap(x, y) => within_block(x, y) \/ within_block(y, x)

ListInv == LiveInv /\ Apart /\ ListHolds /\ Within

LEMMA InitListInv == Init => ListInv
  <1> SUFFICES ASSUME Init PROVE ListInv
    OBVIOUS
  <1>1. LiveInv
    BY FS_EmptySet DEF Init, LiveInv
  <1>2. ListHolds
    <2>1. ranges = <<>> /\ live = {}
      BY DEF Init
    <2>2. ranges \in Seq(Record) /\ Len(ranges) = 0 /\ DOMAIN ranges = {}
      BY <2>1
    <2>3. ToSet(ranges) = {}
      BY <2>2 DEF ToSet
    <2> QED
      BY <2>1, <2>2, <2>3, FS_EmptySet DEF ListHolds, lists
  <1>3. Apart /\ Within
    <2>1. live = {}
      BY DEF Init
    <2> QED
      BY <2>1 DEF Apart, Within
  <1> QED
    BY <1>1, <1>2, <1>3 DEF ListInv

\* Two payloads that overlap although neither end of the one is in the other.
LEMMA MissedByEnds ==
  ASSUME NEW x, NEW lo \in Int, NEW size \in Nat, NEW y, NEW ylo \in Int,
         NEW ysize \in Nat, ysize > 0,
         ~hits(range_of(x, lo, size), range_of(y, ylo, ysize))
  PROVE  /\ lo # ylo
         /\ payload(lo, size) \cap payload(ylo, ysize) # {} =>
                payload(ylo, ysize) \subseteq payload(lo, size)
  BY DEF hits, within, range_of, payload

LEMMA RememberLists ==
  ASSUME IInv, ListInv, NEW x \in Index, NEW lo \in Int, NEW size \in Nat, NEW h,
         h = heap \/ h \in copied(x, lo, size), NEW rest,
         remember(x, lo, size, h), payload(lo, size) \subseteq Bytes,
         UNCHANGED <<debug_mode, ignore_ranges>>, errors \subseteq errors',
         listed => lists(rest, live \ {x}, blocks, block_sizes),
         size > 0 => add_range_ok(rest, range_of(x, lo, size)),
         ranges' = IF size > 0 THEN add_range(rest, range_of(x, lo, size)) ELSE rest
  PROVE  ListInv'
  <1> DEFINE r == range_of(x, lo, size)
             others == live \ {x}
  <1> USE DEF ListInv
  <1>1. listed' = listed
    BY DEF listed
  <1>2. /\ live' = IF size > 0 THEN others \cup {x} ELSE others
        /\ blocks' = [blocks EXCEPT ![x] = lo]
        /\ block_sizes' = [block_sizes EXCEPT ![x] = size]
    BY DEF remember
  <1>3. /\ blocks'[x] = lo /\ block_sizes'[x] = size
        /\ \A y \in others : blocks'[y] = blocks[y] /\ block_sizes'[y] = block_sizes[y]
    BY <1>2 DEF IInv, TypeInv
  <1>4. IsFiniteSet(others) /\ others \subseteq Index /\ x \notin others
    BY FS_RemoveElement DEF LiveInv, IInv, TypeInv
  <1>5. \A y \in others : /\ blocks[y] \in Int /\ block_sizes[y] \in Nat
                          /\ block_sizes[y] > 0
                          /\ payload(blocks[y], block_sizes[y]) \subseteq Bytes
    BY DEF LiveInv, IInv, TypeInv
  <1>6. LiveInv'
    BY <1>2, <1>3, <1>4, FS_AddElement DEF LiveInv
  <1>7. ASSUME listed, size > 0, NEW y \in others
        PROVE  /\ lo # blocks[y]
               /\ payload(lo, size) \cap payload(blocks[y], block_sizes[y]) # {} =>
                    payload(blocks[y], block_sizes[y]) \subseteq payload(lo, size)
    <2>1. PICK k \in DOMAIN rest : rest[k] = range_of(y, blocks[y], block_sizes[y])
      BY <1>7 DEF lists, ToSet
    <2>2. ~hits(r, rest[k])
      BY <1>7, <2>1 DEF add_range_ok
    <2> QED
      BY <1>5, <2>1, <2>2, MissedByEnds
  <1>8. Apart'
    BY <1>1, <1>2, <1>3, <1>7 DEF Apart
  <1>9. ListHolds'
    <2> SUFFICES ASSUME listed
                 PROVE  lists(ranges', live', blocks', block_sizes')
      BY <1>1 DEF ListHolds
    <2>1. lists(rest, others, blocks', block_sizes')
      BY <1>2, <1>4, Moved DEF IInv, TypeInv
    <2>2. CASE ~(size > 0)
      BY <1>2, <2>1, <2>2
    <2>3. CASE size > 0
      <3>1. ranges' = <<range_of(x, blocks'[x], block_sizes'[x])>> \o rest
        BY <1>3, <2>3 DEF add_range
      <3>2. \A y \in others : blocks'[y] # blocks'[x]
        BY <1>3, <1>7, <2>3
      <3>3. blocks' \in [Index -> Int] /\ block_sizes' \in [Index -> Int]
        BY <1>2 DEF IInv, TypeInv
      <3>4. lists(<<range_of(x, blocks'[x], block_sizes'[x])>> \o rest, others \cup {x},
                  blocks', block_sizes')
        <4> HIDE DEF others
        <4> QED
          BY <1>4, <2>1, <3>2, <3>3, Added
      <3> QED
        BY <1>2, <2>3, <3>1, <3>4
    <2> QED
      BY <2>2, <2>3
  <1>10. Within'
    <2> SUFFICES ASSUME listed, NEW y \in live', NEW z \in live', y # z, overlap(y, z)'
                 PROVE  within_block(y, z)' \/ within_block(z, y)'
      BY <1>1 DEF Within
    <2>1. debug_mode # "NONE"
      BY DEF listed
    <2>2. heap' = randomize_block(heap, x, lo, size)
      BY <2>1, CopyUnderFill DEF remember, IInv, TypeInv
    <2>3. ASSUME NEW w \in others,
                 \/ payload(lo, size) \cap payload(blocks[w], block_sizes[w]) # {}
                 \/ garbled(heap, w, blocks[w], block_sizes[w])
          PROVE  garbled(heap', w, blocks[w], block_sizes[w])
      BY <1>5, <2>1, <2>2, <2>3, FillGarbles
    <2>4. Reported => Reported'
      BY DEF Reported
    <2>5. ASSUME NEW u \in others, NEW w \in others, within_block(u, w)
          PROVE  within_block(u, w)'
      BY <1>3, <2>3, <2>4, <2>5 DEF within_block
    <2>6. ASSUME NEW w \in others, size > 0,
                 payload(lo, size) \cap payload(blocks[w], block_sizes[w]) # {}
          PROVE  within_block(w, x)'
      BY <1>3, <1>7, <2>3, <2>6 DEF within_block
    <2>7. CASE y \in others /\ z \in others
      <3>1. overlap(y, z)
        BY <1>3, <2>7 DEF overlap
      <3>2. within_block(y, z) \/ within_block(z, y)
        BY <2>7, <3>1 DEF Within
      <3> QED
        BY <2>5, <2>7, <3>2
    <2>8. CASE y = x /\ z \in others
      BY <1>2, <1>3, <1>4, <2>6, <2>8 DEF overlap
    <2>9. CASE z = x /\ y \in others
      BY <1>2, <1>3, <1>4, <2>6, <2>9 DEF overlap
    <2> QED
      BY <1>2, <2>7, <2>8, <2>9
  <1> QED
    BY <1>6, <1>8, <1>9, <1>10

LEMMA GiveUpLists ==
  ASSUME ListInv, NEW found, NEW rs, give_up(found, rs),
         UNCHANGED <<debug_mode, ignore_ranges>>
  PROVE  ListInv'
  <1>1. opnum' = num_ops /\ ~(opnum' < num_ops)
    BY RangeAssumption DEF give_up
  <1>2. UNCHANGED <<heap, live, blocks, block_sizes>> /\ errors \subseteq errors'
    BY DEF give_up
  <1>3. listed' = listed
    BY DEF listed
  <1>4. LiveInv' /\ Apart' /\ ListHolds'
    BY <1>1, <1>2, <1>3 DEF ListInv, LiveInv, Apart, ListHolds
  <1>5. Within'
    BY <1>2, <1>3 DEF ListInv, Within, within_block, Reported, overlap, garbled
  <1> QED
    BY <1>4, <1>5 DEF ListInv

LEMMA ListStep == IInv /\ ListInv /\ [Next]_vars => ListInv'
  <1> SUFFICES ASSUME IInv, ListInv, [Next]_vars PROVE ListInv'
    OBVIOUS
  <1>1. ASSUME NEW x \in Index, next_op, \A y \in live : blocks[y] = blocks[x] => y = x
        PROVE  listed => lists(remove_range(ranges, blocks[x]), live \ {x},
                               blocks, block_sizes)
    BY <1>1, Removed DEF next_op, IInv, TypeInv, ListInv, LiveInv, ListHolds
  <1>2. ASSUME NEW x \in Index, NEW size \in Sizes, Malloc(x, size) PROVE ListInv'
    <2> USE <1>2, RangeAssumption
    <2>1. PICK p \in answers :
            LET r == range_of(x, p, size) IN
              IF p = NULL THEN give_up(check_all \cup {"failed"}, ranges)
              ELSE IF add_range_ok(ranges, r)
              THEN /\ ranges' = add_range(ranges, r)
                   /\ errors' = errors \cup check_all
                   /\ remember(x, p, size, heap)
              ELSE give_up(check_all \cup {"range"}, ranges)
      BY DEF Malloc
    <2>2. /\ UNCHANGED <<debug_mode, ignore_ranges>> /\ p \in Int /\ size \in Nat
          /\ x \notin live /\ size > 0 /\ opnum < num_ops
      BY DEF Malloc, next_op, answers
    <2>3. CASE p # NULL /\ add_range_ok(ranges, range_of(x, p, size))
      <3>1. /\ errors \subseteq errors' /\ remember(x, p, size, heap)
            /\ ranges' = add_range(ranges, range_of(x, p, size))
        BY <2>1, <2>3
      <3>2. payload(p, size) \subseteq Bytes
        BY <2>2, <2>3, AcceptedInside
      <3>3. listed => lists(ranges, live \ {x}, blocks, block_sizes)
        <4>1. live \ {x} = live
          BY <2>2
        <4> QED
          BY <2>2, <4>1 DEF ListInv, ListHolds
      <3> QED
        BY <2>2, <2>3, <3>1, <3>2, <3>3, RememberLists
    <2> QED
      BY <2>1, <2>2, <2>3, GiveUpLists
  <1>3. ASSUME NEW x \in Index, NEW size \in Sizes, Realloc(x, size) PROVE ListInv'
    <2> USE <1>3, RangeAssumption
    <2> DEFINE rest == remove_range(ranges, blocks[x])
               kept == IF size < block_sizes[x] THEN size ELSE block_sizes[x]
    <2>1. PICK p \in answers :
            LET r == range_of(x, p, size) IN
              IF (p = NULL) # (size = 0)
              THEN give_up(check_one(x) \cup {"failed"}, ranges)
              ELSE IF size > 0 /\ ~add_range_ok(rest, r)
              THEN give_up(check_one(x) \cup {"range"}, rest)
              ELSE \E h \in copied(x, p, size) :
                     /\ ranges' = IF size > 0 THEN add_range(rest, r) ELSE rest
                     /\ errors' = errors \cup check_one(x) \cup check_index(h, x, p, kept)
                     /\ remember(x, p, size, h)
      BY DEF Realloc
    <2>2. /\ UNCHANGED <<debug_mode, ignore_ranges>> /\ p \in Int /\ size \in Nat
          /\ next_op /\ (x \in live \/ blocks[x] = NULL)
      BY DEF Realloc, next_op, answers
    <2>3. listed => lists(rest, live \ {x}, blocks, block_sizes)
      <3> SUFFICES ASSUME listed, NEW y \in live, blocks[y] = blocks[x] PROVE y = x
        BY <1>1, <2>2
      <3>1. CASE x \in live
        BY <3>1 DEF ListInv, Apart
      <3>2. CASE blocks[x] = NULL
        <4>1. blocks[y] \in payload(blocks[y], block_sizes[y])
          BY DEF IInv, TypeInv, ListInv, LiveInv, payload
        <4>2. blocks[y] \in Bytes
          BY <4>1 DEF IInv, TypeInv
        <4> QED
          BY <3>2, <4>2 DEF Bytes, NULL
      <3> QED
        BY <2>2, <3>1, <3>2
    <2> HIDE DEF rest, kept
    <2>4. ASSUME ~(size > 0 /\ ~add_range_ok(rest, range_of(x, p, size))),
                 NEW h \in copied(x, p, size),
                 ranges' = IF size > 0 THEN add_range(rest, range_of(x, p, size))
                           ELSE rest,
                 errors' = errors \cup check_one(x) \cup check_index(h, x, p, kept),
                 remember(x, p, size, h)
          PROVE  ListInv'
      <3>1. payload(p, size) \subseteq Bytes
        <4>1. CASE size > 0
          BY <2>2, <2>4, <4>1, AcceptedInside
        <4>2. CASE ~(size > 0)
          BY <2>2, <4>2 DEF payload
        <4> QED
          BY <4>1, <4>2
      <3>2. errors \subseteq errors'
        BY <2>4
      <3> QED
        BY <2>2, <2>3, <2>4, <3>1, <3>2, RememberLists
    <2> QED
      BY <2>1, <2>2, <2>4, GiveUpLists
  <1>4. ASSUME NEW x \in Index, Free(x) PROVE ListInv'
    <2>1. /\ next_op /\ x \in live /\ ranges' = remove_range(ranges, blocks[x])
          /\ live' = live \ {x} /\ errors \subseteq errors'
          /\ UNCHANGED <<heap, blocks, block_sizes, debug_mode, ignore_ranges>>
      BY <1>4 DEF Free, next_op
    <2>2. listed' = listed
      BY <2>1 DEF listed
    <2>3. LiveInv' /\ Apart'
      BY <2>1, <2>2, FS_RemoveElement DEF ListInv, LiveInv, Apart
    <2>4. ListHolds'
      <3> SUFFICES ASSUME listed
                   PROVE  lists(ranges', live', blocks', block_sizes')
        BY <2>2 DEF ListHolds
      <3>1. \A y \in live : blocks[y] = blocks[x] => y = x
        BY <2>1 DEF ListInv, Apart
      <3> QED
        BY <1>1, <2>1, <3>1
    <2>5. Within'
      BY <2>1, <2>2 DEF ListInv, Within, within_block, Reported, overlap, garbled
    <2> QED
      BY <2>3, <2>4, <2>5 DEF ListInv
  <1>5. CASE UNCHANGED vars
    BY <1>5 DEF vars, ListInv, LiveInv, Apart, ListHolds, Within, within_block,
                Reported, overlap, garbled, listed
  <1> QED
    BY <1>2, <1>3, <1>4, <1>5 DEF Next

LEMMA ListInvTrue == ListInv => ListTrue
  <1>1. ASSUME NEW x, NEW y, x # y, within_block(x, y) \/ within_block(y, x)
        PROVE  \E k, l \in {x, y} : k # l /\ within_block(k, l)
    BY <1>1
  <1>2. ListInv => OnlyEnclosed
    <2> SUFFICES ASSUME ListInv, listed, NEW x \in live, NEW y \in live,
                        x # y, overlap(x, y)
                 PROVE  \E k, l \in {x, y} : k # l /\ within_block(k, l)
      BY DEF OnlyEnclosed, within_block, Reported
    <2>1. within_block(x, y) \/ within_block(y, x)
      BY DEF ListInv, Within
    <2> QED
      BY <1>1, <2>1
  <1>3. ListInv => RangesExact
    BY DEF ListInv, ListHolds, lists, RangesExact
  <1> QED
    BY <1>2, <1>3 DEF ListTrue

----------------------------------------------------------------------------
(* A session: Session.                                                     *)

LibcPlaces == {"libc_read", "libc_valid", "libc_speed", "libc_free"}
TracePlaces == {"read", "valid", "util", "speed", "free", "step"}
Places == LibcPlaces \cup TracePlaces
            \cup {"next", "report", "score", "done", "failed", "undefined"}

\* Where a trace's records are in use.
in_use == IF at \in {"libc_valid", "libc_speed", "libc_free", "valid", "util",
                     "speed", "free"} THEN 1 ELSE 0

SessionTypes ==
    /\ at \in Places /\ timed_out \in BOOLEAN /\ opt.onetime \in BOOLEAN
    /\ i \in 1 .. (num_tracefiles + 1)
    /\ at \in LibcPlaces \cup TracePlaces => i <= num_tracefiles
    /\ reported \in 0 .. MaxErrors /\ garbled_in \subseteq S!Trace
    /\ stats \in [S!Trace -> [valid : BOOLEAN, util : Utils \cup {0}, secs : {0, 1}]]

\* After the one signal nothing but the records it left behind is extra, and
\* the allocator is left alone.
RecordsKept ==
    /\ timed_out = TRUE => alarm # "set" /\ at \notin {"valid", "util", "speed"} \cup LibcPlaces
    /\ held \in 0 .. 2
    /\ at \notin {"failed", "undefined"} =>
          in_use <= held /\ held <= in_use + 1 /\ (timed_out = FALSE => held = in_use)

\* While nothing is reported every trace so far is valid.
ValidSoFar ==
    reported = 0 =>
        /\ timed_out = FALSE /\ garbled_in = {}
        /\ at \notin LibcPlaces \cup {"failed"} => \A t \in S!Trace : t < i => stats[t].valid = TRUE
        /\ at \in {"util", "speed", "free", "step"} => stats[i].valid = TRUE
        /\ at \in {"report", "score", "done"} /\ opt.onetime = FALSE => i = num_tracefiles + 1

SessionInv == SessionTypes /\ RecordsKept /\ ValidSoFar

LEMMA SessionConstants ==
  num_tracefiles \in Nat /\ num_tracefiles >= 1 /\ MaxErrors \in Nat /\ MaxErrors >= 1
  BY PartsAssumption DEF S!SessionAssumption

LEMMA InitSession == S!Init => SessionInv
  <1> SUFFICES ASSUME S!Init PROVE SessionInv
    OBVIOUS
  <1>1. /\ at \in {"libc_read", "next"} /\ i = 1 /\ timed_out = FALSE /\ reported = 0
        /\ held = 0 /\ garbled_in = {}
    BY DEF S!Init
  <1>2. stats \in [S!Trace -> [valid : BOOLEAN, util : Utils \cup {0}, secs : {0, 1}]]
    BY DEF S!Init, S!NoStats
  <1>3. opt.onetime \in BOOLEAN
    BY DEF S!Init, S!Options
  <1>4. at \in Places /\ i \in 1 .. (num_tracefiles + 1) /\ i <= num_tracefiles
    BY <1>1, SessionConstants DEF Places, LibcPlaces
  <1>5. reported \in 0 .. MaxErrors
    BY <1>1, SessionConstants
  <1>6. timed_out \in BOOLEAN /\ garbled_in \subseteq S!Trace
    BY <1>1
  <1>7. SessionTypes
    BY <1>2, <1>3, <1>4, <1>5, <1>6 DEF SessionTypes
  <1>8. RecordsKept
    BY <1>1 DEF RecordsKept, in_use
  <1>9. ValidSoFar
    BY <1>1 DEF ValidSoFar, S!Trace
  <1> QED
    BY <1>7, <1>8, <1>9 DEF SessionInv

LEMMA SessionStep == SessionInv /\ [S!Next]_session_vars => SessionInv'
  <1> SUFFICES ASSUME SessionInv, [S!Next]_session_vars PROVE SessionInv'
    OBVIOUS
  <1> USE SessionConstants DEF S!Trace
  <1>1. CASE S!Dies
    <2>1. at' = "failed" /\ UNCHANGED <<i, reported, stats, held, garbled_in, timed_out, alarm, opt>>
      BY <1>1 DEF S!Dies, S!dies, S!same
    <2>2. at \in {"read", "util", "speed"} \cup LibcPlaces
      BY <1>1 DEF S!Dies, LibcPlaces
    <2>3. SessionTypes'
      BY <2>1 DEF SessionInv, SessionTypes, Places, LibcPlaces, TracePlaces
    <2>4. RecordsKept'
      BY <2>1 DEF SessionInv, RecordsKept, LibcPlaces
    <2>5. ValidSoFar'
      BY <2>1, <2>2 DEF SessionInv, ValidSoFar, LibcPlaces
    <2> QED
      BY <2>3, <2>4, <2>5 DEF SessionInv
  <1>2. CASE S!LibcRead
    <2>1. SessionTypes'
      BY <1>2 DEF S!LibcRead, S!goes, S!same, SessionInv, SessionTypes, Places, LibcPlaces, TracePlaces
    <2>2. RecordsKept'
      <3>1. /\ at = "libc_read" /\ at' = "libc_valid" /\ held' = held + 1
            /\ UNCHANGED <<timed_out, alarm>>
        BY <1>2 DEF S!LibcRead, S!goes, S!same
      <3>2. in_use = 0 /\ in_use' = 1 /\ timed_out = FALSE /\ held = 0
        BY <3>1 DEF in_use, SessionInv, RecordsKept, SessionTypes, LibcPlaces
      <3> QED
        BY <3>1, <3>2 DEF RecordsKept
    <2>3. ValidSoFar'
      BY <1>2 DEF S!LibcRead, S!goes, S!same, SessionInv, SessionTypes, ValidSoFar,
         RecordsKept, Places, LibcPlaces, TracePlaces
    <2> QED
      BY <2>1, <2>2, <2>3 DEF SessionInv
  <1>3. CASE S!LibcEval
    <2>1. SessionTypes'
      BY <1>3 DEF S!LibcEval, S!goes, S!same, SessionInv, SessionTypes, Places, LibcPlaces, TracePlaces
    <2>2. RecordsKept'
      BY <1>3 DEF S!LibcEval, S!goes, S!same, SessionInv, SessionTypes, RecordsKept,
         in_use, Places, LibcPlaces, TracePlaces
    <2>3. ValidSoFar'
      BY <1>3 DEF S!LibcEval, S!goes, S!same, SessionInv, SessionTypes, ValidSoFar,
         RecordsKept, Places, LibcPlaces, TracePlaces
    <2> QED
      BY <2>1, <2>2, <2>3 DEF SessionInv
  <1>4. CASE S!LibcFree
    <2>1. /\ at = "libc_free" /\ held' = held - 1
          /\ \/ at' = "libc_read" /\ i' = i + 1 /\ i < num_tracefiles
             \/ at' = "next" /\ i' = 1
          /\ UNCHANGED <<timed_out, alarm, reported, stats, garbled_in, opt>>
      BY <1>4 DEF S!LibcFree, S!goes, S!same
    <2>2. in_use = 1 /\ in_use' = 0 /\ timed_out = FALSE /\ held = 1
      BY <2>1 DEF in_use, SessionInv, RecordsKept, SessionTypes, LibcPlaces
    <2>3. SessionTypes'
      BY <2>1 DEF SessionInv, SessionTypes, Places, LibcPlaces, TracePlaces
    <2>4. RecordsKept'
      BY <2>1, <2>2 DEF RecordsKept
    <2>5. ValidSoFar'
      BY <2>1 DEF SessionInv, ValidSoFar, LibcPlaces
    <2> QED
      BY <2>3, <2>4, <2>5 DEF SessionInv
  <1>5. CASE S!NextTrace
    <2>1. /\ at = "next"
          /\ \/ at' = "read" /\ i <= num_tracefiles
             \/ at' = "report" /\ i > num_tracefiles
          /\ UNCHANGED <<i, held, timed_out, alarm, reported, stats, garbled_in, opt>>
      BY <1>5 DEF S!NextTrace, S!goes, S!same
    <2>2. SessionTypes'
      BY <2>1 DEF SessionInv, SessionTypes, Places, LibcPlaces, TracePlaces
    <2>3. RecordsKept'
      <3>1. in_use = 0 /\ in_use' = 0
        BY <2>1 DEF in_use
      <3> QED
        BY <2>1, <3>1 DEF SessionInv, RecordsKept, LibcPlaces
    <2>4. ValidSoFar'
      BY <2>1 DEF SessionInv, SessionTypes, ValidSoFar, LibcPlaces
    <2> QED
      BY <2>2, <2>3, <2>4 DEF SessionInv
  <1>6. CASE S!ReadTrace
    <2>1. SessionTypes'
      BY <1>6 DEF S!ReadTrace, S!goes, S!same, SessionInv, SessionTypes, Places, LibcPlaces, TracePlaces
    <2>2. RecordsKept'
      BY <1>6 DEF S!ReadTrace, S!goes, S!same, SessionInv, SessionTypes, RecordsKept,
         in_use, Places, LibcPlaces, TracePlaces
    <2>3. ValidSoFar'
      BY <1>6 DEF S!ReadTrace, S!goes, S!same, SessionInv, SessionTypes, ValidSoFar,
         RecordsKept, Places, LibcPlaces, TracePlaces
    <2> QED
      BY <2>1, <2>2, <2>3 DEF SessionInv
  <1>7. CASE S!EvalValid
    <2>1. PICK outcome \in {"clean", "garbled", "error"} :
            /\ at = "valid"
            /\ \/ at' = "report" /\ opt.onetime = TRUE /\ held' = held - 1
               \/ at' \in {"free", "util"} /\ held' = held
            /\ stats' = [stats EXCEPT ![i].valid = outcome # "error"]
            /\ reported' = IF outcome = "clean" THEN reported ELSE S!plus_one
            /\ garbled_in' = IF outcome = "garbled" THEN garbled_in \cup {i} ELSE garbled_in
            /\ UNCHANGED <<i, timed_out, alarm, opt>>
      BY <1>7 DEF S!EvalValid, S!goes, S!same
    <2>2. reported \in 0 .. MaxErrors /\ i \in 1 .. num_tracefiles
      BY <2>1 DEF SessionInv, SessionTypes, TracePlaces
    <2>3. /\ reported' \in 0 .. MaxErrors
          /\ reported' = 0 => reported = 0 /\ outcome = "clean"
      BY <2>1, <2>2 DEF S!plus_one
    <2>4. stats' \in [S!Trace -> [valid : BOOLEAN, util : Utils \cup {0}, secs : {0, 1}]]
      <3>1. stats \in [S!Trace -> [valid : BOOLEAN, util : Utils \cup {0}, secs : {0, 1}]]
        BY DEF SessionInv, SessionTypes
      <3>2. \/ stats' = [stats EXCEPT ![i].valid = TRUE]
            \/ stats' = [stats EXCEPT ![i].valid = FALSE]
        BY <2>1
      <3>3. CASE stats' = [stats EXCEPT ![i].valid = TRUE]
        BY <3>1, <3>3
      <3>4. CASE stats' = [stats EXCEPT ![i].valid = FALSE]
        BY <3>1, <3>4
      <3> QED
        BY <3>2, <3>3, <3>4
    <2>5. SessionTypes'
      BY <2>1, <2>2, <2>3, <2>4, SMTT(40) DEF SessionInv, SessionTypes, Places, LibcPlaces,
         TracePlaces
    <2>6. RecordsKept'
      <3>1. in_use = 1 /\ timed_out = FALSE /\ held = 1
        BY <2>1 DEF in_use, SessionInv, RecordsKept, SessionTypes
      <3>2. \/ in_use' = 0 /\ held' = 0
            \/ at' = "free" /\ in_use' = 1 /\ held' = 1
            \/ at' = "util" /\ in_use' = 1 /\ held' = 1
        BY <2>1, <3>1 DEF in_use
      <3> QED
        BY <2>1, <3>1, <3>2 DEF RecordsKept
    <2>7. ValidSoFar'
      <3> SUFFICES ASSUME reported' = 0 PROVE ValidSoFar'
        BY DEF ValidSoFar
      <3>1. /\ reported = 0 /\ outcome = "clean" /\ timed_out' = FALSE /\ garbled_in' = {}
            /\ \A t \in S!Trace : t < i => stats[t].valid = TRUE
        BY <2>1, <2>3 DEF SessionInv, ValidSoFar, LibcPlaces
      <3>2. stats'[i].valid = TRUE /\ \A t \in S!Trace : t < i => stats'[t].valid = TRUE
        <4>1. stats \in [S!Trace -> [valid : BOOLEAN, util : Utils \cup {0}, secs : {0, 1}]]
          BY DEF SessionInv, SessionTypes
        <4>2. stats'[i] = [stats[i] EXCEPT !.valid = TRUE]
          BY <2>1, <2>2, <3>1, <4>1
        <4>3. \A t \in S!Trace : t < i => stats'[t] = stats[t]
          BY <2>1, <2>2, <4>1
        <4> QED
          BY <2>2, <3>1, <4>1, <4>2, <4>3
      <3> QED
        BY <2>1, <3>1, <3>2 DEF ValidSoFar
    <2> QED
      BY <2>5, <2>6, <2>7 DEF SessionInv
  <1>8. CASE S!EvalUtil
    <2>1. SessionTypes'
      BY <1>8, SMTT(40) DEF S!EvalUtil, S!goes, S!same, SessionInv, SessionTypes, Places, LibcPlaces,
         TracePlaces
    <2>2. RecordsKept'
      BY <1>8 DEF S!EvalUtil, S!goes, S!same, SessionInv, SessionTypes, RecordsKept,
         in_use, Places, LibcPlaces, TracePlaces
    <2>3. ValidSoFar'
      BY <1>8 DEF S!EvalUtil, S!goes, S!same, SessionInv, SessionTypes, ValidSoFar,
         RecordsKept, Places, LibcPlaces, TracePlaces
    <2> QED
      BY <2>1, <2>2, <2>3 DEF SessionInv
  <1>9. CASE S!EvalSpeed
    <2>1. SessionTypes'
      BY <1>9 DEF S!EvalSpeed, S!goes, S!same, SessionInv, SessionTypes, Places, LibcPlaces, TracePlaces
    <2>2. RecordsKept'
      BY <1>9 DEF S!EvalSpeed, S!goes, S!same, SessionInv, SessionTypes, RecordsKept,
         in_use, Places, LibcPlaces, TracePlaces
    <2>3. ValidSoFar'
      BY <1>9 DEF S!EvalSpeed, S!goes, S!same, SessionInv, SessionTypes, ValidSoFar,
         RecordsKept, Places, LibcPlaces, TracePlaces
    <2> QED
      BY <2>1, <2>2, <2>3 DEF SessionInv
  <1>10. CASE S!FreeTrace
    <2>1. SessionTypes'
      BY <1>10 DEF S!FreeTrace, S!goes, S!same, SessionInv, SessionTypes, Places, LibcPlaces, TracePlaces
    <2>2. RecordsKept'
      BY <1>10 DEF S!FreeTrace, S!goes, S!same, SessionInv, SessionTypes, RecordsKept,
         in_use, Places, LibcPlaces, TracePlaces
    <2>3. ValidSoFar'
      BY <1>10 DEF S!FreeTrace, S!goes, S!same, SessionInv, SessionTypes, ValidSoFar,
         RecordsKept, Places, LibcPlaces, TracePlaces
    <2> QED
      BY <2>1, <2>2, <2>3 DEF SessionInv
  <1>11. CASE S!StepTrace
    <2>1. SessionTypes'
      BY <1>11 DEF S!StepTrace, S!goes, S!same, SessionInv, SessionTypes, Places, LibcPlaces, TracePlaces
    <2>2. RecordsKept'
      BY <1>11 DEF S!StepTrace, S!goes, S!same, SessionInv, SessionTypes, RecordsKept,
         in_use, Places, LibcPlaces, TracePlaces
    <2>3. ValidSoFar'
      BY <1>11 DEF S!StepTrace, S!goes, S!same, SessionInv, SessionTypes, ValidSoFar,
         RecordsKept, Places, LibcPlaces, TracePlaces
    <2> QED
      BY <2>1, <2>2, <2>3 DEF SessionInv
  <1>12. CASE S!Report
    <2>1. SessionTypes'
      BY <1>12 DEF S!Report, S!goes, S!same, SessionInv, SessionTypes, Places, LibcPlaces, TracePlaces
    <2>2. RecordsKept'
      BY <1>12 DEF S!Report, S!goes, S!same, SessionInv, SessionTypes, RecordsKept,
         in_use, Places, LibcPlaces, TracePlaces
    <2>3. ValidSoFar'
      BY <1>12 DEF S!Report, S!goes, S!same, SessionInv, SessionTypes, ValidSoFar,
         RecordsKept, Places, LibcPlaces, TracePlaces
    <2> QED
      BY <2>1, <2>2, <2>3 DEF SessionInv
  <1>13. CASE S!Score
    <2>1. SessionTypes'
      BY <1>13 DEF S!Score, S!goes, S!same, SessionInv, SessionTypes, Places, LibcPlaces, TracePlaces
    <2>2. RecordsKept'
      BY <1>13 DEF S!Score, S!goes, S!same, SessionInv, SessionTypes, RecordsKept,
         in_use, Places, LibcPlaces, TracePlaces
    <2>3. ValidSoFar'
      BY <1>13 DEF S!Score, S!goes, S!same, SessionInv, SessionTypes, ValidSoFar,
         RecordsKept, Places, LibcPlaces, TracePlaces
    <2> QED
      BY <2>1, <2>2, <2>3 DEF SessionInv
  <1>14. CASE S!Hang
    <2>1. SessionTypes'
      BY <1>14 DEF S!Hang, SessionInv, SessionTypes, Places, LibcPlaces, TracePlaces
    <2>2. RecordsKept'
      BY <1>14 DEF S!Hang, SessionInv, SessionTypes, RecordsKept,
         in_use, Places, LibcPlaces, TracePlaces
    <2>3. ValidSoFar'
      BY <1>14 DEF S!Hang, SessionInv, SessionTypes, ValidSoFar,
         RecordsKept, Places, LibcPlaces, TracePlaces
    <2> QED
      BY <2>1, <2>2, <2>3 DEF SessionInv
  <1>15. CASE S!Alarm
    <2>1. /\ alarm = "set" /\ alarm' = "gone" /\ reported' = 1
          /\ at \notin {"done", "failed", "undefined"}
          /\ UNCHANGED <<i, stats, held, garbled_in>>
          /\ \/ timed_out' = TRUE /\ at' = "read" /\ i <= num_tracefiles
             \/ at' = "undefined" /\ timed_out' = timed_out
      BY <1>15 DEF S!Alarm, S!rings, S!lands
    <2>2. timed_out = FALSE /\ held \in {0, 1}
      <3>1. timed_out = FALSE /\ held = in_use
        BY <2>1 DEF SessionInv, SessionTypes, RecordsKept
      <3> QED
        BY <3>1 DEF in_use
    <2>3. SessionTypes'
      <3>1. reported' \in 0 .. MaxErrors
        BY <2>1
      <3>2. timed_out' \in BOOLEAN
        BY <2>1, <2>2
      <3>3. /\ at' \in Places
            /\ at' \in LibcPlaces \cup TracePlaces => i' <= num_tracefiles
        BY <2>1 DEF Places, LibcPlaces, TracePlaces
      <3>4. opt'.onetime \in BOOLEAN
        BY <1>15 DEF S!Alarm, S!rings, SessionInv, SessionTypes
      <3> QED
        BY <2>1, <3>1, <3>2, <3>3, <3>4 DEF SessionInv, SessionTypes
    <2>4. RecordsKept'
      <3>1. at' = "read" => in_use' = 0
        BY DEF in_use
      <3> QED
        BY <2>1, <2>2, <3>1 DEF RecordsKept, LibcPlaces
    <2>5. ValidSoFar'
      BY <2>1 DEF ValidSoFar
    <2> QED
      BY <2>3, <2>4, <2>5 DEF SessionInv
  <1>16. CASE UNCHANGED session_vars
    BY <1>16 DEF session_vars, SessionInv, SessionTypes, RecordsKept, ValidSoFar, in_use
  <1> QED
    BY <1>1, <1>2, <1>3, <1>4, <1>5, <1>6, <1>7, <1>8, <1>9, <1>10, <1>11, <1>12,
       <1>13, <1>14, <1>15, <1>16 DEF S!Next, S!Main

LEMMA SessionInvTrue == SessionInv => NeverReentered /\ PointsMeanAllWell
  <1> SUFFICES ASSUME SessionInv PROVE NeverReentered /\ PointsMeanAllWell
    OBVIOUS
  <1> USE DEF SessionInv
  <1>1. S!NeverReentered
    BY DEF S!NeverReentered, RecordsKept
  <1>2. S!TypeOK
    <2>1. at = "done" => held <= 1 /\ (~timed_out => held = 0)
      <3>1. at = "done" => in_use = 0
        BY DEF in_use
      <3>2. at = "done" => held <= 1 /\ (timed_out = FALSE => held = 0)
        BY <3>1 DEF RecordsKept
      <3> QED
        BY <3>2
    <2> QED
      BY <2>1 DEF S!TypeOK, SessionTypes, RecordsKept
  <1>3. ASSUME at = "done", reported = 0, ~opt.onetime
        PROVE  S!Valid = S!Trace /\ garbled_in = {} /\ ~timed_out
    <2>1. i = num_tracefiles + 1
      BY <1>3 DEF SessionTypes, ValidSoFar
    <2>2. \A t \in S!Trace : stats[t].valid = TRUE
      BY <1>3, <2>1, SessionConstants DEF ValidSoFar, LibcPlaces, S!Trace
    <2> QED
      BY <1>3, <2>2 DEF S!Valid, ValidSoFar
  <1>4. S!PointsMeanAllWell
    <2> SUFFICES ASSUME at = "done", S!perfindex > 0, ~opt.onetime
                 PROVE  reported = 0
      BY <1>3 DEF S!PointsMeanAllWell
    <2> QED
      BY DEF S!perfindex
  <1>5. S!SumsAgree
    BY <1>3 DEF S!SumsAgree, S!printed_util, S!printed_ops
  <1> QED
    BY <1>1, <1>2, <1>4, <1>5 DEF NeverReentered, PointsMeanAllWell

----------------------------------------------------------------------------
(* The widths of the sizes: SizeWidth.                                     *)

LEMMA PowerGrows ==
  ASSUME NEW m \in Nat, NEW n \in Nat, m <= n
  PROVE  /\ 2 ^ m \in Nat /\ 2 ^ n \in Nat
         /\ 0 < 2 ^ m /\ 2 ^ m <= 2 ^ n
  <1> DEFINE A == 1 .. m
             C == 1 .. n
  <1>1. IsFiniteSet(A) /\ Cardinality(A) = m /\ IsFiniteSet(C) /\ Cardinality(C) = n
    BY FS_Interval
  <1>2. A \subseteq C
    OBVIOUS
  <1> HIDE DEF A, C
  <1>3. /\ IsFiniteSet(SUBSET A) /\ Cardinality(SUBSET A) = 2 ^ m
        /\ IsFiniteSet(SUBSET C) /\ Cardinality(SUBSET C) = 2 ^ n
    <2>1. Cardinality(SUBSET A) = 2 ^ Cardinality(A) /\ IsFiniteSet(SUBSET A)
      BY <1>1, FS_SUBSET, Zenon
    <2>2. Cardinality(SUBSET C) = 2 ^ Cardinality(C) /\ IsFiniteSet(SUBSET C)
      BY <1>1, FS_SUBSET, Zenon
    <2> QED
      BY <1>1, <2>1, <2>2, Zenon
  <1>4. Cardinality(SUBSET A) \in Nat /\ Cardinality(SUBSET C) \in Nat
    BY <1>3, FS_CardinalityType
  <1>5. Cardinality(SUBSET A) <= Cardinality(SUBSET C)
    <2>1. SUBSET A \subseteq SUBSET C
      BY <1>2
    <2> QED
      BY <1>3, <2>1, FS_Subset
  <1>6. Cardinality(SUBSET A) # 0
    <2>1. SUBSET A # {}
      OBVIOUS
    <2> QED
      BY <1>3, <2>1, FS_EmptySet
  <1> QED
    BY <1>3, <1>4, <1>5, <1>6

\* The widths as plain numbers: half an int's, an int's and a size_t's.
LEMMA Widths ==
  \E H, P, Q \in Nat :
     /\ 2 ^ (int_bits - 1) = H /\ 2 ^ int_bits = P /\ 2 ^ size_bits = Q
     /\ 0 < H /\ H <= P /\ P <= Q /\ CHUNKSIZE <= MAX_HEAP /\ MAX_HEAP < H
  <1>1. /\ int_bits - 1 \in Nat /\ int_bits \in Nat /\ size_bits \in Nat
        /\ int_bits - 1 <= int_bits /\ int_bits <= size_bits
    BY PartsAssumption DEF Z!WidthAssumption
  <1>2. /\ 2 ^ (int_bits - 1) \in Nat /\ 2 ^ int_bits \in Nat
        /\ 0 < 2 ^ (int_bits - 1) /\ 2 ^ (int_bits - 1) <= 2 ^ int_bits
    BY <1>1, PowerGrows, Zenon
  <1>3. 2 ^ size_bits \in Nat /\ 2 ^ int_bits <= 2 ^ size_bits
    BY <1>1, PowerGrows, Zenon
  <1>4. CHUNKSIZE <= MAX_HEAP /\ MAX_HEAP < 2 ^ (int_bits - 1)
    BY PartsAssumption DEF Z!WidthAssumption, Z!DSIZE
  <1> QED
    BY <1>2, <1>3, <1>4, Zenon

LEMMA Remainder ==
  ASSUME NEW q \in Nat, q > 0, NEW x \in Nat
  PROVE  x % q \in Nat /\ x % q < q /\ (x < q => x % q = x)
  OBVIOUS

\* Between calls the one free block lies in the heap, and the last answer was
\* right unless its size came near the width of a tag.
HeapFits == state = "heap" => /\ brk \in Nat /\ free \in Nat
                              /\ free <= brk /\ brk <= MAX_HEAP
SizesInv == HeapFits /\ RightBelowWidth

LEMMA InitSizes == Z!Init => SizesInv
  <1> SUFFICES ASSUME Z!Init PROVE SizesInv
    OBVIOUS
  <1>1. HeapFits
    BY PartsAssumption DEF Z!Init, Z!WidthAssumption, Z!DSIZE, HeapFits
  <1>2. RightBelowWidth
    BY DEF Z!Init, RightBelowWidth, Z!RightBelowWidth, Z!Enough
  <1> QED
    BY <1>1, <1>2 DEF SizesInv

\* A size below the width is rounded up to room for it and its tags
\* (mm.c:191-195).
LEMMA RoundedUp ==
  ASSUME NEW size \in Nat, size > 0
  PROVE  /\ Z!asize(size) \in Nat
         /\ size <= 2 ^ int_bits - 16 =>
               /\ Z!asize(size) = Z!needed(size)
               /\ Z!asize(size) >= size + 8 /\ Z!asize(size) >= 16
               /\ Z!asize(size) < 2 ^ int_bits \/ Z!asize(size) = 16
  <1>1. PICK H \in Nat, P \in Nat, Q \in Nat :
           /\ 2 ^ int_bits = P /\ 2 ^ size_bits = Q /\ 0 < H /\ H <= P /\ P <= Q
    BY Widths
  <1> USE DEF Z!DSIZE, Z!OVERHEAD
  <1>2. CASE size <= 8
    BY <1>1, <1>2 DEF Z!asize, Z!needed
  <1>3. CASE ~(size <= 8)
    <2> DEFINE w == (size + 15) % Q
    <2>1. w \in Nat /\ (size + 15 < Q => w = size + 15)
      BY <1>1, Remainder
    <2> HIDE DEF w
    <2>2. 8 * (w \div 8) \in Nat /\ 8 * (w \div 8) <= w /\ w < 8 * (w \div 8) + 8
      BY <2>1
    <2> DEFINE u == 8 * (w \div 8)
    <2> HIDE DEF u
    <2>3. u % Q \in Nat /\ (u < Q => u % Q = u)
      BY <1>1, <2>2, Remainder DEF u
    <2>4. Z!asize(size) = u % Q
      <3>1. size + 8 + (8 - 1) = size + 15
        OBVIOUS
      <3> QED
        BY <1>1, <1>3, <3>1 DEF Z!asize, Z!size_t, w, u
    <2>5. Z!needed(size) = 8 * ((size + 15) \div 8)
      BY <1>3 DEF Z!needed
    <2>6. size <= P - 16 => w = size + 15 /\ u < Q /\ u < P
      BY <1>1, <1>3, <2>1, <2>2 DEF u
    <2>7. size <= P - 16 => Z!asize(size) = Z!needed(size)
      BY <2>3, <2>4, <2>5, <2>6 DEF u
    <2> QED
      BY <1>1, <1>3, <2>1, <2>2, <2>3, <2>4, <2>7 DEF u
  <1> QED
    BY <1>2, <1>3

\* What extend_heap asks of mem_sbrk, when it is not refused, is what it
\* meant, or more than the width; what arrives negative is longer than the heap
\* (mm.c:325, memlib.c:51).
LEMMA Asked ==
  ASSUME NEW a \in Nat
  PROVE  /\ Z!incr(a) \in Int
         /\ a < 2 ^ int_bits /\ Z!incr(a) >= 0 => Z!incr(a) = Z!growth(a)
         /\ a < 2 ^ int_bits /\ Z!incr(a) < 0 => Z!growth(a) > MAX_HEAP
         /\ Z!growth(a) \in Nat /\ Z!growth(a) >= a /\ Z!growth(a) >= CHUNKSIZE
  <1>1. PICK H \in Nat, P \in Nat, Q \in Nat :
           /\ 2 ^ (int_bits - 1) = H /\ 2 ^ int_bits = P
           /\ 0 < H /\ H <= P /\ CHUNKSIZE <= MAX_HEAP /\ MAX_HEAP < H
    BY Widths
  <1>2. CHUNKSIZE \in Nat /\ MAX_HEAP \in Nat
    BY PartsAssumption DEF Z!WidthAssumption
  <1> DEFINE m == IF a > CHUNKSIZE THEN a ELSE CHUNKSIZE
  <1>3. m \in Nat /\ (a < P => m < P)
    BY <1>1, <1>2
  <1> HIDE DEF m
  <1>4. m % P \in Nat /\ m % P < P /\ (m < P => m % P = m)
    BY <1>1, <1>3, Remainder
  <1>5. Z!incr(a) = IF m % P < H THEN m % P ELSE (m % P) - P
    BY <1>1 DEF Z!incr, Z!int, Z!unsigned, m
  <1>6. /\ Z!incr(a) \in Int
        /\ a < P /\ Z!incr(a) >= 0 => Z!incr(a) = m
        /\ a < P /\ Z!incr(a) < 0 => m > MAX_HEAP
    BY <1>1, <1>2, <1>3, <1>4, <1>5
  <1>7. Z!growth(a) = m /\ m >= a /\ m >= CHUNKSIZE
    BY <1>2 DEF Z!growth, m
  <1> QED
    BY <1>1, <1>3, <1>6, <1>7

\* place leaves a heap, and grants all that was asked for, unless the tags
\* are ruined (mm.c:350-373).
LEMMA Placed ==
  ASSUME NEW wanted \in Nat, NEW csize \in Nat, NEW a \in Nat,
         Z!Grant(wanted, csize, a)
  PROVE  /\ state' = "heap" => free' \in Nat /\ free' <= csize
         /\ state' \in {"heap", "ruined"}
         /\ a >= 16 /\ a <= csize =>
               state' = "heap" /\ last'.block \in Nat /\ last'.block >= a
         /\ last'.wanted = wanted /\ last'.room = Z!Room(wanted)
  <1> DEFINE left == Z!rest(csize, a)
  <1>1. a <= csize => left \in Nat /\ left <= csize - a
    BY DEF Z!rest
  <1>2. Z!whole(csize, a) => a <= csize
    BY DEF Z!whole
  <1>3. a >= 16 /\ a <= csize => Z!whole(csize, a)
    BY DEF Z!whole, Z!DSIZE
  <1>4. /\ free' = IF Z!whole(csize, a) THEN left ELSE 0
        /\ state' = IF Z!whole(csize, a) THEN "heap" ELSE "ruined"
        /\ last' = [wanted |-> wanted, block |-> Z!granted(csize, a), room |-> Z!Room(wanted)]
    BY DEF Z!Grant, Z!place, Z!Answer
  <1>5. a <= csize => Z!granted(csize, a) \in Nat /\ Z!granted(csize, a) >= a
    <2> HIDE DEF left
    <2>1. a <= csize => Z!granted(csize, a) = a + (csize - a - left)
      BY DEF Z!granted, left
    <2> QED
      BY <1>1, <2>1
  <1> HIDE DEF left
  <1>6. state' = "heap" <=> Z!whole(csize, a)
    BY <1>4
  <1>7. last'.wanted = wanted /\ last'.block = Z!granted(csize, a)
        /\ last'.room = Z!Room(wanted)
    BY <1>4
  <1>8. state' = "heap" => free' \in Nat /\ free' <= csize
    BY <1>1, <1>2, <1>4, <1>6
  <1>9. state' \in {"heap", "ruined"}
    BY <1>4
  <1> QED
    BY <1>3, <1>5, <1>6, <1>7, <1>8, <1>9

\* Whether the free block serves a request below the width, or a growth that
\* mem_sbrk allows, is whether the heap has room for it.
LEMMA RoomIs ==
  ASSUME HeapFits, state = "heap", NEW size \in Nat, size > 0,
         size <= 2 ^ int_bits - 16
  PROVE  LET a == Z!asize(size)
         IN  /\ a \in Nat /\ a >= 16 /\ a >= size + 8
             /\ Z!Room(size) <=> free >= a \/ ~Z!mem_sbrk_refuses(Z!incr(a))
             /\ ~Z!mem_sbrk_refuses(Z!incr(a)) =>
                   Z!incr(a) = Z!growth(a) /\ Z!growth(a) >= a
  <1> DEFINE a == Z!asize(size)
             n == Z!incr(a)
             g == Z!growth(a)
  <1>1. /\ a \in Nat /\ a = Z!needed(size) /\ a >= 16 /\ a >= size + 8
        /\ a < 2 ^ int_bits \/ a = 16
    BY RoundedUp
  <1>2. a < 2 ^ int_bits
    <2>1. PICK H \in Nat, P \in Nat :
             2 ^ int_bits = P /\ H <= P /\ CHUNKSIZE <= MAX_HEAP /\ MAX_HEAP < H
      BY Widths
    <2>2. 16 <= CHUNKSIZE /\ CHUNKSIZE \in Nat /\ MAX_HEAP \in Nat
      BY PartsAssumption DEF Z!WidthAssumption, Z!DSIZE
    <2> HIDE DEF a
    <2> QED
      BY <1>1, <2>1, <2>2
  <1> HIDE DEF a
  <1>3. /\ n \in Int /\ g \in Nat /\ g >= a
        /\ n >= 0 => n = g
        /\ n < 0 => g > MAX_HEAP
    BY <1>1, <1>2, Asked
  <1>4. brk \in Nat /\ MAX_HEAP \in Nat
    BY PartsAssumption DEF HeapFits, Z!WidthAssumption
  <1>5. Z!mem_sbrk_refuses(n) <=> n < 0 \/ brk + n > MAX_HEAP
    BY DEF Z!mem_sbrk_refuses
  <1>6. Z!Room(size) <=> free >= a \/ brk + g <= MAX_HEAP
    BY <1>1 DEF Z!Room
  <1> HIDE DEF n, g
  <1>7. /\ Z!Room(size) <=> free >= a \/ ~Z!mem_sbrk_refuses(n)
        /\ ~Z!mem_sbrk_refuses(n) => n = g
    BY <1>3, <1>4, <1>5, <1>6
  <1> QED
    BY <1>1, <1>3, <1>7 DEF a, n, g

\* A call of mm_malloc, of the size that was wanted if that is no wider than
\* the bound (mm.c:176-210).
LEMMA MallocRight ==
  ASSUME SizesInv, state = "heap", NEW size \in Nat, NEW wanted \in Nat,
         Z!mm_malloc(size, wanted), wanted <= 2 ^ int_bits - 16 => size = wanted
  PROVE  SizesInv'
  <1> DEFINE a == Z!asize(size)
             n == Z!incr(a)
             below == wanted <= 2 ^ int_bits - 16
             Right == /\ Z!Enough' /\ (last'.block # 0 <=> last'.room)
                      /\ state' \notin {"ruined", "crashed"}
  <1>1. brk \in Nat /\ free \in Nat /\ free <= brk /\ brk <= MAX_HEAP /\ HeapFits
    BY DEF SizesInv, HeapFits
  <1>2. SUFFICES HeapFits' /\ (below => Right) /\ last'.wanted = wanted
    BY DEF SizesInv, RightBelowWidth, Z!RightBelowWidth, Z!DSIZE
  <1>3. ASSUME Z!Null(wanted), UNCHANGED <<brk, free, state>>, below => ~Z!Room(wanted)
        PROVE  HeapFits' /\ (below => Right) /\ last'.wanted = wanted
    <2>1. last' = [wanted |-> wanted, block |-> 0, room |-> Z!Room(wanted)]
      BY <1>3 DEF Z!Null, Z!Answer
    <2>2. HeapFits' /\ state' = "heap"
      BY <1>1, <1>3 DEF HeapFits
    <2> QED
      BY <1>3, <2>1, <2>2 DEF Z!Enough
  <1>4. /\ size > 0 => a \in Nat /\ n \in Int
        /\ size > 0 /\ below =>
              /\ a >= 16 /\ a >= wanted + 8
              /\ Z!Room(wanted) <=> free >= a \/ ~Z!mem_sbrk_refuses(n)
              /\ ~Z!mem_sbrk_refuses(n) => n = Z!growth(a) /\ Z!growth(a) >= a
    <2>1. size > 0 => a \in Nat /\ n \in Int
      BY RoundedUp, Asked
    <2>2. ASSUME size > 0, below
          PROVE  /\ a >= 16 /\ a >= wanted + 8
                 /\ Z!Room(wanted) <=> free >= a \/ ~Z!mem_sbrk_refuses(n)
                 /\ ~Z!mem_sbrk_refuses(n) => n = Z!growth(a) /\ Z!growth(a) >= a
      <3>1. size = wanted /\ size <= 2 ^ int_bits - 16
        BY <2>2
      <3> QED
        BY <1>1, <2>2, <3>1, RoomIs
    <2> QED
      BY <2>1, <2>2
  <1>5. ASSUME size > 0, NEW csize \in Nat, Z!Grant(wanted, csize, a),
               brk' \in Nat, csize <= brk', brk' <= MAX_HEAP,
               below => a <= csize /\ Z!Room(wanted)
        PROVE  HeapFits' /\ (below => Right) /\ last'.wanted = wanted
    <2>1. /\ state' = "heap" => free' \in Nat /\ free' <= csize
          /\ a >= 16 /\ a <= csize =>
                state' = "heap" /\ last'.block \in Nat /\ last'.block >= a
          /\ last'.wanted = wanted /\ last'.room = Z!Room(wanted)
      BY <1>4, <1>5, Placed
    <2>2. HeapFits'
      <3>1. MAX_HEAP \in Nat
        BY PartsAssumption DEF Z!WidthAssumption
      <3> QED
        BY <1>5, <2>1, <3>1 DEF HeapFits
    <2>3. ASSUME below PROVE Right
      <3>1. /\ state' = "heap" /\ last'.block \in Nat /\ last'.block >= a
            /\ a >= wanted + 8 /\ a >= 16 /\ a \in Nat
            /\ last'.wanted = wanted /\ last'.room
        BY <1>4, <1>5, <2>1, <2>3
      <3> HIDE DEF a
      <3>2. last'.block >= last'.wanted + 8 /\ last'.block # 0
        BY <3>1
      <3> QED
        BY <3>1, <3>2 DEF Z!Enough, Z!OVERHEAD
    <2> QED
      BY <2>1, <2>2, <2>3
  <1>6. CASE size = 0 /\ Z!Null(wanted) /\ UNCHANGED <<brk, free, state>>
    <2>1. below => ~Z!Room(wanted)
      BY <1>6 DEF Z!Room
    <2> QED
      BY <1>3, <1>6, <2>1
  <1>7. CASE /\ size > 0 /\ (free = 0 \/ free < a) /\ Z!mem_sbrk_refuses(n)
             /\ Z!Null(wanted) /\ UNCHANGED <<brk, free, state>>
    <2>1. below => ~Z!Room(wanted)
      <3> HIDE DEF a, n, below
      <3> QED
        BY <1>1, <1>4, <1>7
    <2> HIDE DEF a, n, below
    <2> QED
      BY <1>3, <1>7, <2>1
  <1>8. CASE size > 0 /\ free > 0 /\ free >= a /\ Z!Grant(wanted, free, a) /\ UNCHANGED brk
    <2>1. below => a <= free /\ Z!Room(wanted)
      <3> HIDE DEF a, n, below
      <3> QED
        BY <1>1, <1>4, <1>8
    <2> HIDE DEF below
    <2> QED
      BY <1>1, <1>5, <1>8, <2>1
  <1>9. CASE /\ size > 0 /\ ~Z!mem_sbrk_refuses(n)
             /\ Z!Grant(wanted, Z!grown(n), a) /\ brk' = brk + n
    <2>1. MAX_HEAP \in Nat
      BY PartsAssumption DEF Z!WidthAssumption
    <2>2. n \in Nat /\ brk + n <= MAX_HEAP
      <3> HIDE DEF n
      <3> QED
        BY <1>1, <1>4, <1>9, <2>1 DEF Z!mem_sbrk_refuses
    <2>3. Z!grown(n) \in Nat /\ Z!grown(n) <= brk + n /\ (n > 0 => Z!grown(n) >= n)
      <3> HIDE DEF n
      <3> QED
        BY <1>1, <2>2 DEF Z!grown
    <2>4. below => a <= Z!grown(n) /\ Z!Room(wanted)
      <3> HIDE DEF n, a, below
      <3> QED
        BY <1>1, <1>4, <1>9, <2>2, <2>3
    <2> HIDE DEF n, a, below
    <2>5. brk' \in Nat /\ brk' = brk + n
      BY <1>1, <1>9, <2>2
    <2> QED
      BY <1>5, <1>9, <2>2, <2>3, <2>4, <2>5
  <1>10. \/ size = 0 /\ Z!Null(wanted) /\ UNCHANGED <<brk, free, state>>
         \/ /\ size > 0 /\ (free = 0 \/ free < a) /\ Z!mem_sbrk_refuses(n)
            /\ Z!Null(wanted) /\ UNCHANGED <<brk, free, state>>
         \/ size > 0 /\ free > 0 /\ free >= a /\ Z!Grant(wanted, free, a) /\ UNCHANGED brk
         \/ /\ size > 0 /\ ~Z!mem_sbrk_refuses(n)
            /\ Z!Grant(wanted, Z!grown(n), a) /\ brk' = brk + n
    BY DEF Z!mm_malloc
  <1> HIDE DEF Right, below, a, n
  <1> QED
    BY <1>6, <1>7, <1>8, <1>9, <1>10

LEMMA SizesStep == SizesInv /\ [Z!Next]_size_vars => SizesInv'
  <1> SUFFICES ASSUME SizesInv, [Z!Next]_size_vars PROVE SizesInv'
    OBVIOUS
  <1>1. CASE Z!Malloc
    <2>1. PICK size \in 0 .. (2 ^ size_bits - 1) : Z!mm_malloc(size, size)
      BY <1>1 DEF Z!Malloc
    <2>2. size \in Nat /\ state = "heap"
      BY <1>1 DEF Z!Malloc, Z!next_call
    <2> QED
      BY <2>1, <2>2, MallocRight
  <1>2. CASE Z!Calloc
    <2>1. PICK nmemb \in Counts, size \in 0 .. (2 ^ size_bits - 1) :
             IF Z!fails(Z!size_t(nmemb * size))
             THEN /\ state' = "crashed" /\ Z!Null(nmemb * size)
                  /\ UNCHANGED <<brk, free>>
             ELSE Z!mm_malloc(Z!size_t(nmemb * size), nmemb * size)
      BY <1>2 DEF Z!Calloc
    <2>2. state = "heap"
      BY <1>2 DEF Z!Calloc, Z!next_call
    <2> DEFINE wanted == nmemb * size
               bytes == Z!size_t(wanted)
    <2>3. wanted \in Nat
      <3>1. nmemb \in Nat /\ size \in Nat
        BY PartsAssumption DEF Z!WidthAssumption
      <3> QED
        BY <3>1
    <2> HIDE DEF wanted
    <2>4. bytes \in Nat /\ (wanted <= 2 ^ int_bits - 16 => bytes = wanted)
      <3>1. PICK P \in Nat, Q \in Nat :
              2 ^ int_bits = P /\ 2 ^ size_bits = Q /\ 0 < P /\ P <= Q
        BY Widths
      <3> QED
        BY <2>3, <3>1, Remainder DEF Z!size_t
    <2>5. CASE Z!fails(bytes)
      <3>1. state' = "crashed" /\ Z!Null(wanted)
        BY <2>1, <2>5 DEF wanted
      <3>2. last' = [wanted |-> wanted, block |-> 0, room |-> Z!Room(wanted)]
        BY <3>1 DEF Z!Null, Z!Answer
      <3>3. wanted <= 2 ^ int_bits - 16 => ~Z!Room(wanted)
        <4> SUFFICES ASSUME wanted <= 2 ^ int_bits - 16 PROVE ~Z!Room(wanted)
          OBVIOUS
        <4>1. bytes = wanted /\ wanted > 0
          BY <2>3, <2>4, <2>5 DEF Z!fails
        <4> DEFINE a == Z!asize(wanted)
        <4>2. /\ free = 0 \/ free < a
              /\ Z!mem_sbrk_refuses(Z!incr(a))
          BY <2>5, <4>1 DEF Z!fails
        <4>3. HeapFits /\ free \in Nat
          BY <2>2 DEF SizesInv, HeapFits
        <4>4. /\ a \in Nat /\ a >= 16
              /\ Z!Room(wanted) <=> free >= a \/ ~Z!mem_sbrk_refuses(Z!incr(a))
          BY <2>2, <2>3, <4>1, <4>3, RoomIs
        <4> HIDE DEF a
        <4> QED
          BY <4>2, <4>3, <4>4
      <3> QED
        BY <3>1, <3>2, <3>3
        DEF SizesInv, HeapFits, RightBelowWidth, Z!RightBelowWidth, Z!Enough, Z!DSIZE
    <2>6. CASE ~Z!fails(bytes)
      <3>1. Z!mm_malloc(bytes, wanted)
        BY <2>1, <2>6 DEF wanted
      <3> QED
        BY <2>2, <2>3, <2>4, <3>1, MallocRight
    <2> QED
      BY <2>5, <2>6
  <1>3. CASE UNCHANGED size_vars
    BY <1>3 DEF size_vars, SizesInv, HeapFits, RightBelowWidth, Z!RightBelowWidth, Z!Enough
  <1> QED
    BY <1>1, <1>2, <1>3 DEF Z!Next

----------------------------------------------------------------------------
(* The sampler: the K best of fcyc.                                        *)

\* A set of numbers with a bound has a greatest one.
LEMMA Greatest ==
  ASSUME NEW R, R \subseteq Nat, R # {}, NEW n \in Nat, \A x \in R : x <= n
  PROVE  \E x \in R : \A y \in R : y <= x
  <1> DEFINE D == {n - x : x \in R}
             below == {ss \in Nat \X Nat : ss[1] < ss[2]}
  <1>1. D \subseteq Nat /\ D # {}
    <2>1. \A x \in R : n - x \in Nat
      OBVIOUS
    <2> QED
      BY <2>1
  <1>2. IsWellFoundedOn(below, Nat)
    BY NatLessThanWellFounded DEF OpToRel
  <1>3. PICK d \in D : \A y \in D : ~(<<y, d>> \in below)
    BY <1>1, <1>2, WFMin
  <1>4. PICK x \in R : d = n - x
    OBVIOUS
  <1>5. ASSUME NEW y \in R PROVE y <= x
    <2>1. n - y \in D /\ n - y \in Nat /\ d \in Nat
      BY <1>1
    <2>2. ~(n - y < d)
      BY <1>3, <2>1
    <2> QED
      BY <1>4, <2>2
  <1> QED
    BY <1>5

\* The insertion sort puts the last of n + 1 values behind k of the others,
\* which were in order and stay so (fcyc.c:81-87).
LEMMA Sorted ==
  ASSUME NEW n \in Nat, NEW s \in Seq(Int), Len(s) = n + 1,
         \A u, j \in 1 .. n : u < j => s[u] <= s[j]
  PROVE  \E k \in 0 .. n :
           LET t == T!sorted(s)
           IN  /\ t \in Seq(Int) /\ Len(t) = n + 1 /\ T!AllBelow(t)
               /\ \A u \in 1 .. n + 1 : t[u] = IF u <= k THEN s[u]
                                               ELSE IF u = k + 1 THEN s[n + 1] ELSE s[u - 1]
  <1> DEFINE v == s[n + 1]
             good(k) == /\ k > 0 => s[k] <= v
                        /\ \A u \in (k + 1) .. n : s[u] > v
             R == {k \in 0 .. n : k > 0 => s[k] <= v}
  <1>1. v \in Int /\ \A u \in 1 .. n : s[u] \in Int
    OBVIOUS
  <1>2. \E k \in 0 .. n : good(k)
    <2>1. R \subseteq Nat /\ 0 \in R /\ \A x \in R : x <= n
      OBVIOUS
    <2>2. PICK k \in R : \A y \in R : y <= k
      BY <2>1, Greatest
    <2>3. ASSUME NEW u \in (k + 1) .. n PROVE s[u] > v
      <3>1. u \in 1 .. n /\ u \notin R
        BY <2>1, <2>2
      <3> QED
        BY <1>1, <3>1
    <2> QED
      BY <2>1, <2>3
  <1> DEFINE pos == CHOOSE k \in 0 .. n : good(k)
  <1>3. pos \in 0 .. n /\ good(pos)
    BY <1>2
  <1>4. PICK k \in 0 .. n : k = pos /\ good(k)
    BY <1>3
  <1> DEFINE t == T!sorted(s)
  <1>5. t = [u \in 1 .. n + 1 |-> IF u <= k THEN s[u]
                                  ELSE IF u = k + 1 THEN v ELSE s[u - 1]]
    <2>1. Len(s) - 1 = n /\ 1 .. Len(s) = 1 .. n + 1
      OBVIOUS
    <2> HIDE DEF v
    <2>2. t = [u \in 1 .. n + 1 |-> IF u <= pos THEN s[u]
                                    ELSE IF u = pos + 1 THEN v ELSE s[u - 1]]
      BY <2>1 DEF T!sorted, v
    <2> QED
      BY <1>4, <2>2
  <1> HIDE DEF t, v, pos
  <1>6. t \in [1 .. n + 1 -> Int]
    BY <1>1, <1>5
  <1>7. t \in Seq(Int) /\ Len(t) = n + 1 /\ DOMAIN t = 1 .. n + 1
    BY <1>6
  <1>8. ASSUME NEW u \in 1 .. n + 1, NEW j \in 1 .. n + 1, u < j
        PROVE  t[u] <= t[j]
    <2>1. k > 0 => s[k] <= v
      BY <1>4
    <2>2. \A x \in 1 .. n : x <= k => s[x] <= v
      BY <1>1, <2>1
    <2>3. \A x \in 1 .. n : x > k => s[x] > v
      BY <1>4
    <2>4. CASE u <= k /\ j <= k
      <3>1. t[u] = s[u] /\ t[j] = s[j] /\ u \in 1 .. n /\ j \in 1 .. n
        BY <1>5, <2>4
      <3> QED
        BY <1>8, <3>1
    <2>5. CASE u <= k /\ j = k + 1
      BY <1>5, <2>2, <2>5
    <2>6. CASE u <= k /\ j > k + 1
      <3>1. t[u] = s[u] /\ t[j] = s[j - 1] /\ u < j - 1 /\ u \in 1 .. n /\ j - 1 \in 1 .. n
        BY <1>5, <2>6
      <3> QED
        BY <3>1
    <2>7. CASE u = k + 1 /\ j > k + 1
      <3>1. t[u] = v /\ t[j] = s[j - 1] /\ j - 1 > k /\ j - 1 \in 1 .. n
        BY <1>5, <2>7
      <3> QED
        BY <1>1, <2>3, <3>1
    <2>8. CASE u > k + 1 /\ j > k + 1
      <3>1. t[u] = s[u - 1] /\ t[j] = s[j - 1] /\ u - 1 \in 1 .. n /\ j - 1 \in 1 .. n
        BY <1>5, <2>8
      <3>2. u - 1 < j - 1
        BY <1>8
      <3> QED
        BY <3>1, <3>2
    <2>9. /\ u <= k \/ u = k + 1 \/ u > k + 1
          /\ j <= k \/ j = k + 1 \/ j > k + 1
          /\ u <= k + 1 \/ j > k + 1
          /\ u # k + 1 \/ j > k + 1
      BY <1>8
    <2> QED
      BY <2>4, <2>5, <2>6, <2>7, <2>8, <2>9
  <1>9. T!AllBelow(t)
    BY <1>7, <1>8 DEF T!AllBelow
  <1> QED
    BY <1>5, <1>7, <1>9 DEF t, v

\* g says which of c samples each of n values is.
OneEach(g, n, c) ==
    /\ g \in [1 .. n -> 1 .. c]
    /\ \A u, j \in 1 .. n : g[u] = g[j] => u = j

\* The values are different samples in ascending order, and each of the
\* others is no less than the greatest of K.
Best(vals, sams) ==
    \E g : /\ OneEach(g, Len(vals), Len(sams))
           /\ \A u \in 1 .. Len(vals) : sams[g[u]] = vals[u]
           /\ \A j \in 1 .. Len(sams) :
                \/ \E u \in 1 .. Len(vals) : g[u] = j
                \/ Len(vals) = kbest /\ vals[kbest] <= sams[j]
Kept(vals, sams) ==
    /\ vals \in Seq(Int) /\ sams \in Seq(Int) /\ T!AllBelow(vals)
    /\ Len(vals) = IF Len(sams) < kbest THEN Len(sams) ELSE kbest
    /\ Best(vals, sams)

\* v behind the first k of the n elements of s.
Inserted(s, n, v, k) == [u \in 1 .. n + 1 |-> IF u <= k THEN s[u]
                                              ELSE IF u = k + 1 THEN v ELSE s[u - 1]]

\* d says which samples the values are once one more is at k + 1.
OneMore(d, g, n, c, k) ==
    /\ OneEach(d, n + 1, c + 1) /\ d[k + 1] = c + 1
    /\ \A j \in 1 .. n : \E u \in 1 .. n + 1 : d[u] = g[j]

LEMMA InsertedOne ==
  ASSUME NEW n \in Nat, NEW c \in Nat, NEW k \in 0 .. n, NEW g, OneEach(g, n, c)
  PROVE  OneMore(Inserted(g, n, c + 1, k), g, n, c, k)
  <1> DEFINE d == Inserted(g, n, c + 1, k)
  <1>1. \A u \in 1 .. n : g[u] \in 1 .. c
    BY DEF OneEach
  <1>2. d \in [1 .. n + 1 -> 1 .. c + 1]
    BY <1>1 DEF Inserted
  <1>3. ASSUME NEW x \in 1 .. n + 1
        PROVE  /\ x <= k => (d[x] = g[x] /\ x \in 1 .. n)
               /\ x > k + 1 => (d[x] = g[x - 1] /\ x - 1 \in 1 .. n)
               /\ x = k + 1 => d[x] = c + 1
    BY DEF Inserted
  <1> HIDE DEF d
  <1>4. ASSUME NEW x \in 1 .. n + 1, NEW y \in 1 .. n + 1, d[x] = d[y]
        PROVE  x = y
    <2>1. \A p, q \in 1 .. n : g[p] = g[q] => p = q
      BY DEF OneEach
    <2>2. \A p \in 1 .. n : g[p] # c + 1
      BY <1>1
    <2>3. CASE x <= k /\ y <= k
      BY <1>3, <1>4, <2>1, <2>3
    <2>4. CASE x > k + 1 /\ y > k + 1
      <3>1. x - 1 = y - 1
        BY <1>3, <1>4, <2>1, <2>4
      <3> QED
        BY <3>1
    <2>5. ASSUME NEW p \in 1 .. n + 1, NEW q \in 1 .. n + 1, p <= k, q > k + 1
          PROVE  d[p] # d[q]
      <3>1. p # q - 1
        BY <2>5
      <3> QED
        BY <1>3, <2>1, <2>5, <3>1
    <2>6. ASSUME NEW p \in 1 .. n + 1, p # k + 1
          PROVE  d[p] # d[k + 1]
      <3>1. p <= k \/ p > k + 1
        BY <2>6
      <3>2. d[k + 1] = c + 1
        BY <1>3
      <3> QED
        BY <1>3, <2>2, <3>1, <3>2
    <2> QED
      BY <1>4, <2>3, <2>4, <2>5, <2>6
  <1>5. ASSUME NEW j \in 1 .. n PROVE \E u \in 1 .. n + 1 : d[u] = g[j]
    <2>1. CASE j <= k
      BY <1>3, <2>1
    <2>2. CASE j > k
      <3>1. d[j + 1] = g[j] /\ j + 1 \in 1 .. n + 1
        BY <1>3, <2>2
      <3> QED
        BY <3>1
    <2> QED
      BY <2>1, <2>2
  <1>6. d[k + 1] = c + 1
    BY <1>3
  <1> QED
    BY <1>2, <1>4, <1>5, <1>6 DEF OneMore, OneEach, d

LEMMA KConstants == kbest \in Nat /\ kbest > 0 /\ maxsamples \in Nat /\ maxsamples > 0
                    /\ percent \in Nat
  BY PartsAssumption DEF T!TimingAssumption

\* n of the values and a new one, to be sorted; the samples left out, of which
\* there are none but beside K, are no less than either.
Chosen(vals, sams, val, n, s, g) ==
    /\ n \in Nat /\ n <= Len(vals) /\ s \in Seq(Int) /\ Len(s) = n + 1
    /\ \A u \in 1 .. n : s[u] = vals[u]
    /\ s[n + 1] = val
    /\ n + 1 = IF Len(sams) + 1 < kbest THEN Len(sams) + 1 ELSE kbest
    /\ OneEach(g, Len(vals), Len(sams))
    /\ \A u \in 1 .. Len(vals) : sams[g[u]] = vals[u]
    /\ \A j \in 1 .. Len(sams) :
          \/ \E u \in 1 .. n : g[u] = j
          \/ /\ n + 1 = kbest /\ val <= sams[j]
             /\ n > 0 => vals[n] <= sams[j]

LEMMA SortedIn ==
  ASSUME NEW vals, vals \in Seq(Int), NEW sams, sams \in Seq(Int), NEW val \in Int,
         T!AllBelow(vals), NEW n, NEW s, NEW g, Chosen(vals, sams, val, n, s, g)
  PROVE  Kept(T!sorted(s), Append(sams, val))
  <1> DEFINE t == T!sorted(s)
             more == Append(sams, val)
             c == Len(sams)
             l == Len(vals)
  <1>0. /\ c \in Nat /\ l \in Nat /\ n \in Nat /\ n <= l
        /\ s \in Seq(Int) /\ Len(s) = n + 1 /\ s[n + 1] = val
        /\ OneEach(g, l, c)
    BY DEF Chosen
  <1>s. \A u \in 1 .. n : u \in 1 .. l /\ s[u] = vals[u]
    BY <1>0 DEF Chosen
  <1>1. \A u, j \in 1 .. n : u < j => s[u] <= s[j]
    <2>1. \A u, j \in 1 .. l : u < j => vals[u] <= vals[j]
      BY DEF T!AllBelow
    <2> QED
      BY <1>s, <2>1
  <1>2. PICK k \in 0 .. n :
          /\ t \in Seq(Int) /\ Len(t) = n + 1 /\ T!AllBelow(t)
          /\ \A u \in 1 .. n + 1 : t[u] = IF u <= k THEN s[u]
                                     ELSE IF u = k + 1 THEN s[n + 1] ELSE s[u - 1]
    BY <1>0, <1>1, Sorted
  <1>3. /\ more \in Seq(Int) /\ Len(more) = c + 1 /\ more[c + 1] = val
        /\ \A j \in 1 .. c : more[j] = sams[j]
    OBVIOUS
  <1> HIDE DEF t, more, c, l
  <1> DEFINE a == [u \in 1 .. n |-> g[u]]
             d == Inserted(a, n, c + 1, k)
  <1>4. \A u \in 1 .. n : u \in 1 .. l /\ g[u] \in 1 .. c
    BY <1>0, <1>s DEF OneEach
  <1>5. OneEach(a, n, c) /\ \A u \in 1 .. n : a[u] = g[u]
    BY <1>0, <1>4 DEF OneEach
  <1> HIDE DEF a
  <1>6. /\ OneEach(d, n + 1, c + 1) /\ d[k + 1] = c + 1
        /\ \A j \in 1 .. n : \E u \in 1 .. n + 1 : d[u] = a[j]
    <2>1. n \in Nat /\ c \in Nat /\ k \in 0 .. n /\ OneEach(a, n, c)
      BY <1>0, <1>5
    <2>2. OneMore(d, a, n, c, k)
      BY <2>1, InsertedOne
    <2> HIDE DEF d
    <2> QED
      BY <2>2 DEF OneMore
  <1>7. ASSUME NEW u \in 1 .. n + 1
        PROVE  /\ u <= k => (u \in 1 .. n /\ d[u] = g[u])
               /\ u > k + 1 => (u - 1 \in 1 .. n /\ d[u] = g[u - 1])
    BY <1>0, <1>5 DEF Inserted
  <1> HIDE DEF d
  <1>8. \A x \in 1 .. n : more[g[x]] = vals[x] /\ s[x] = vals[x]
    <2>1. \A u \in 1 .. l : sams[g[u]] = vals[u]
      BY DEF Chosen, l
    <2> QED
      BY <1>3, <1>4, <1>s, <2>1
  <1>9. ASSUME NEW u \in 1 .. n + 1 PROVE more[d[u]] = t[u]
    <2>1. CASE u <= k
      <3>1. u \in 1 .. n /\ d[u] = g[u] /\ t[u] = s[u]
        BY <1>0, <1>2, <1>7, <2>1
      <3> QED
        BY <1>8, <3>1
    <2>2. CASE u = k + 1
      BY <1>0, <1>2, <1>3, <1>6, <2>2
    <2>3. CASE u > k + 1
      <3>1. u - 1 \in 1 .. n /\ d[u] = g[u - 1]
        BY <1>7, <2>3
      <3>2. ~(u <= k) /\ u # k + 1
        BY <1>0, <2>3
      <3>3. t[u] = s[u - 1]
        BY <1>2, <3>2
      <3> QED
        BY <1>8, <3>1, <3>3
    <2> QED
      BY <2>1, <2>2, <2>3
  <1>c. \A j \in 1 .. c :
          \/ \E u \in 1 .. n : g[u] = j
          \/ /\ n + 1 = kbest /\ val <= sams[j]
             /\ n > 0 => vals[n] <= sams[j]
    BY DEF Chosen, c
  <1>10. ASSUME NEW j \in 1 .. c + 1
         PROVE  \/ \E u \in 1 .. n + 1 : d[u] = j
                \/ n + 1 = kbest /\ t[kbest] <= more[j]
    <2>1. CASE j = c + 1
      <3>1. k + 1 \in 1 .. n + 1
        BY <1>0
      <3> QED
        BY <1>6, <2>1, <3>1
    <2>2. CASE j \in 1 .. c /\ \E u \in 1 .. n : g[u] = j
      BY <1>5, <1>6, <2>2
    <2>3. CASE /\ j \in 1 .. c /\ n + 1 = kbest /\ val <= sams[j]
               /\ n > 0 => vals[n] <= sams[j]
      <3>1. t[n + 1] = IF k = n THEN val ELSE s[n]
        <4>1. n + 1 \in 1 .. n + 1 /\ ~(n + 1 <= k) /\ (n + 1) - 1 = n
          BY <1>0
        <4>2. n + 1 = k + 1 <=> k = n
          BY <1>0
        <4>3. t[n + 1] = IF n + 1 = k + 1 THEN s[n + 1] ELSE s[(n + 1) - 1]
          BY <1>2, <4>1
        <4>4. s[n + 1] = val /\ s[(n + 1) - 1] = s[n]
          BY <1>0, <4>1
        <4> QED
          BY <4>2, <4>3, <4>4
      <3>2. k # n => n > 0 /\ s[n] = vals[n]
        BY <1>0, <1>8
      <3> QED
        BY <1>3, <2>3, <3>1, <3>2
    <2>4. j = c + 1 \/ j \in 1 .. c
      BY <1>0
    <2> QED
      BY <1>c, <2>1, <2>2, <2>3, <2>4
  <1>11. Best(t, more)
    <2>1. OneEach(d, Len(t), Len(more))
      BY <1>2, <1>3, <1>6
    <2>2. \A u \in 1 .. Len(t) : more[d[u]] = t[u]
      BY <1>2, <1>9
    <2>3. \A j \in 1 .. Len(more) :
            \/ \E u \in 1 .. Len(t) : d[u] = j
            \/ Len(t) = kbest /\ t[kbest] <= more[j]
      BY <1>2, <1>3, <1>10
    <2> QED
      BY <2>1, <2>2, <2>3 DEF Best
  <1>12. Len(t) = IF Len(more) < kbest THEN Len(more) ELSE kbest
    BY <1>0, <1>2, <1>3 DEF Chosen, c
  <1> QED
    BY <1>2, <1>3, <1>11, <1>12 DEF Kept, t, more

\* One more sample: it is the last of few, it takes the place of the greatest
\* of K, or it is no less than that (fcyc.c:67-88).
LEMMA SampleAdded ==
  ASSUME Kept(values, samples), NEW val \in Int, T!add_sample(val)
  PROVE  Kept(values', samples') /\ Len(samples') = Len(samples) + 1
  <1> DEFINE c == Len(samples)
  <1>1. /\ values \in Seq(Int) /\ samples \in Seq(Int) /\ c \in Nat /\ Len(values) \in Nat
        /\ Len(values) = IF c < kbest THEN c ELSE kbest
        /\ \A u, j \in 1 .. Len(values) : u < j => values[u] <= values[j]
    BY DEF Kept, T!AllBelow
  <1>2. PICK g : /\ OneEach(g, Len(values), c)
                 /\ \A u \in 1 .. Len(values) : samples[g[u]] = values[u]
                 /\ \A j \in 1 .. c :
                      \/ \E u \in 1 .. Len(values) : g[u] = j
                      \/ Len(values) = kbest /\ values[kbest] <= samples[j]
    BY DEF Kept, Best
  <1>3. /\ samples' = Append(samples, val)
        /\ values' = CASE c < kbest -> T!sorted(Append(values, val))
                       [] c >= kbest /\ val < values[kbest] ->
                              T!sorted([values EXCEPT ![kbest] = val])
                       [] OTHER -> values
    BY DEF T!add_sample
  <1>4. /\ samples' \in Seq(Int) /\ Len(samples') = c + 1 /\ samples'[c + 1] = val
        /\ \A j \in 1 .. c : samples'[j] = samples[j]
    BY <1>1, <1>3
  <1>5. \A u \in 1 .. Len(values) : g[u] \in 1 .. c
    BY <1>2 DEF OneEach
  <1>7. CASE c < kbest
    <2> DEFINE s == Append(values, val)
    <2>1. /\ s \in Seq(Int) /\ Len(s) = c + 1 /\ s[c + 1] = val
          /\ \A u \in 1 .. c : s[u] = values[u]
      BY <1>1, <1>7
    <2> HIDE DEF s
    <2>2. values' = T!sorted(Append(values, val))
      <3>1. ~(c >= kbest)
        BY <1>1, <1>7, KConstants
      <3> QED
        BY <1>3, <1>7, <3>1
    <2>3. \A j \in 1 .. c : \E u \in 1 .. c : g[u] = j
      BY <1>1, <1>2, <1>7, KConstants
    <2>4. Len(values) = c /\ c + 1 = IF c + 1 < kbest THEN c + 1 ELSE kbest
      BY <1>1, <1>7, KConstants
    <2>5. Chosen(values, samples, val, c, s, g)
      BY <1>1, <1>2, <2>1, <2>3, <2>4 DEF Chosen
    <2> QED
      BY <1>3, <1>4, <2>2, <2>5, SortedIn DEF Kept, s
  <1>8. CASE c >= kbest /\ val < values[kbest]
    <2> DEFINE s == [values EXCEPT ![kbest] = val]
               n == kbest - 1
    <2>1. Len(values) = kbest /\ n \in Nat /\ n + 1 = kbest /\ kbest \in 1 .. Len(values)
      BY <1>1, <1>8, KConstants
    <2>2. /\ s \in Seq(Int) /\ Len(s) = n + 1 /\ s[n + 1] = val
          /\ \A u \in 1 .. n : s[u] = values[u]
      BY <1>1, <2>1
    <2>3. values' = T!sorted(s)
      BY <1>1, <1>3, <1>8, KConstants
    <2>4. ASSUME NEW j \in 1 .. c
          PROVE  \/ \E u \in 1 .. n : g[u] = j
                 \/ /\ n + 1 = kbest /\ val <= samples[j]
                    /\ n > 0 => values[n] <= samples[j]
      <3>1. n > 0 => values[n] <= values[kbest]
        BY <1>1, <2>1
      <3>2. samples[j] \in Int /\ values[kbest] \in Int /\ (n > 0 => values[n] \in Int)
        BY <1>1, <2>1
      <3>3. CASE \E u \in 1 .. Len(values) : g[u] = j
        <4>1. PICK u \in 1 .. kbest : g[u] = j
          BY <2>1, <3>3
        <4>2. CASE u = kbest
          <5>1. samples[j] = values[kbest]
            BY <1>2, <2>1, <4>1, <4>2
          <5> QED
            BY <1>8, <2>1, <3>1, <3>2, <5>1
        <4> QED
          BY <2>1, <4>1, <4>2
      <3>4. CASE values[kbest] <= samples[j]
        BY <1>8, <2>1, <3>1, <3>2, <3>4
      <3> QED
        BY <1>2, <3>3, <3>4
    <2>5. n + 1 = IF c + 1 < kbest THEN c + 1 ELSE kbest
      BY <1>1, <1>8, <2>1, KConstants
    <2>6. n <= Len(values) /\ n + 1 <= kbest
      BY <2>1
    <2> HIDE DEF s, n
    <2> HIDE DEF c
    <2>7. Chosen(values, samples, val, n, s, g)
      <3>1. /\ OneEach(g, Len(values), Len(samples))
            /\ \A u \in 1 .. Len(values) : samples[g[u]] = values[u]
        BY <1>2 DEF c
      <3>2. \A j \in 1 .. Len(samples) :
              \/ \E u \in 1 .. n : g[u] = j
              \/ /\ n + 1 = kbest /\ val <= samples[j]
                 /\ n > 0 => values[n] <= samples[j]
        BY <2>4 DEF c
      <3>3. n + 1 = IF Len(samples) + 1 < kbest THEN Len(samples) + 1 ELSE kbest
        BY <2>5 DEF c
      <3> QED
        BY <2>1, <2>2, <2>6, <3>1, <3>2, <3>3 DEF Chosen
    <2> QED
      BY <1>3, <1>4, <2>3, <2>7, SortedIn DEF Kept
  <1>9. CASE ~(c < kbest) /\ ~(c >= kbest /\ val < values[kbest])
    <2>1. values' = values /\ c >= kbest /\ Len(values) = kbest
      BY <1>1, <1>3, <1>9, KConstants
    <2>2. values[kbest] \in Int /\ values[kbest] <= val
      BY <1>1, <1>9, <2>1, KConstants
    <2>3. OneEach(g, Len(values'), c + 1)
      BY <1>1, <1>2, <2>1 DEF OneEach
    <2>4. \A u \in 1 .. Len(values') : samples'[g[u]] = values'[u]
      BY <1>2, <1>4, <1>5, <2>1
    <2>5. ASSUME NEW j \in 1 .. c + 1
          PROVE  \/ \E u \in 1 .. Len(values') : g[u] = j
                 \/ Len(values') = kbest /\ values'[kbest] <= samples'[j]
      <3>1. CASE j = c + 1
        BY <1>4, <2>1, <2>2, <3>1
      <3>2. CASE j \in 1 .. c
        BY <1>2, <1>4, <2>1, <3>2
      <3> QED
        BY <1>1, <3>1, <3>2
    <2>6. Best(values', samples')
      BY <1>4, <2>3, <2>4, <2>5 DEF Best
    <2> QED
      BY <1>1, <1>4, <2>1, <2>6, KConstants DEF Kept
  <1> QED
    BY <1>4, <1>7, <1>8, <1>9

\* What Kept means for how often a time is among the samples.
LEMMA KeptBest ==
  ASSUME Kept(values, samples), NEW x \in DOMAIN samples
  PROVE  LET v == samples[x]
         IN  \/ T!Times(values, v) = T!Times(samples, v)
             \/ /\ T!Times(values, v) < T!Times(samples, v)
                /\ Len(values) = kbest /\ values[kbest] <= v
  <1> DEFINE v == samples[x]
             A == {u \in DOMAIN values : values[u] = v}
             B == {u \in DOMAIN samples : samples[u] = v}
  <1>0. T!Times(values, v) = Cardinality(A) /\ T!Times(samples, v) = Cardinality(B)
    BY DEF T!Times, T!Cardinality, Cardinality, T!IsFiniteSet, IsFiniteSet
  <1>1. /\ DOMAIN values = 1 .. Len(values) /\ DOMAIN samples = 1 .. Len(samples)
        /\ Len(values) \in Nat /\ Len(samples) \in Nat
    BY DEF Kept
  <1>2. PICK g : /\ OneEach(g, Len(values), Len(samples))
                 /\ \A u \in 1 .. Len(values) : samples[g[u]] = values[u]
                 /\ \A j \in 1 .. Len(samples) :
                      \/ \E u \in 1 .. Len(values) : g[u] = j
                      \/ Len(values) = kbest /\ values[kbest] <= samples[j]
    BY DEF Kept, Best
  <1> DEFINE f == [u \in A |-> g[u]]
  <1>3. f \in Injection(A, B)
    <2>1. f \in [A -> B]
      BY <1>1, <1>2 DEF OneEach
    <2>2. \A u, j \in A : f[u] = f[j] => u = j
      BY <1>1, <1>2 DEF OneEach
    <2> QED
      BY <2>1, <2>2 DEF Injection, IsInjective
  <1>4. IsFiniteSet(B)
    <2>1. B \in SUBSET (1 .. Len(samples)) /\ IsFiniteSet(1 .. Len(samples))
      BY <1>1, FS_Interval
    <2> QED
      BY <2>1, FS_Subset
  <1>5. /\ IsFiniteSet(A) /\ Cardinality(A) <= Cardinality(B)
        /\ Cardinality(A) = Cardinality(B) <=> f \in Surjection(A, B)
    BY <1>3, <1>4, FS_Injection
  <1>6. Cardinality(A) \in Nat /\ Cardinality(B) \in Nat
    BY <1>4, <1>5, FS_CardinalityType
  <1>7. CASE \A j \in B : \E u \in A : f[u] = j
    <2>1. f \in Surjection(A, B)
      BY <1>3, <1>7 DEF Injection, Surjection
    <2>2. Cardinality(A) = Cardinality(B)
      BY <1>5, <2>1
    <2> QED
      BY <2>2, <1>0
  <1>8. ASSUME NEW j \in B, \A u \in A : f[u] # j
        PROVE  /\ T!Times(values, v) < T!Times(samples, v)
               /\ Len(values) = kbest /\ values[kbest] <= v
    <2>1. f \notin Surjection(A, B)
      BY <1>8 DEF Surjection
    <2>2. Cardinality(A) < Cardinality(B)
      BY <1>5, <1>6, <2>1
    <2>3. ~ \E u \in 1 .. Len(values) : g[u] = j
      BY <1>1, <1>2, <1>8
    <2>4. Len(values) = kbest /\ values[kbest] <= samples[j]
      BY <1>1, <1>2, <2>3
    <2>5. samples[j] = v
      OBVIOUS
    <2>6. T!Times(values, v) < T!Times(samples, v)
      BY <2>2, <1>0
    <2> QED
      BY <2>4, <2>5, <2>6
  <1> QED
    BY <1>7, <1>8

\* When the K best agree, so many samples lie within epsilon of the result.
LEMMA AgreedNear ==
  ASSUME Kept(values, samples), Len(samples) >= kbest,
         (100 + percent) * values[1] >= 100 * values[kbest]
  PROVE  Cardinality(T!Near(samples)) >= kbest
  <1>1. /\ DOMAIN samples = 1 .. Len(samples) /\ Len(samples) \in Nat
        /\ values \in Seq(Int) /\ Len(values) = kbest
        /\ \A u, j \in 1 .. kbest : u < j => values[u] <= values[j]
    <2>1. /\ samples \in Seq(Int) /\ values \in Seq(Int)
          /\ Len(values) = IF Len(samples) < kbest THEN Len(samples) ELSE kbest
      BY DEF Kept
    <2>2. Len(samples) \in Nat /\ Len(values) = kbest
      BY <2>1, KConstants
    <2>3. DOMAIN values = 1 .. kbest /\ DOMAIN samples = 1 .. Len(samples)
      BY <2>1, <2>2
    <2>4. \A u, j \in 1 .. kbest : u < j => values[u] <= values[j]
      BY <2>3 DEF Kept, T!AllBelow
    <2> QED
      BY <2>1, <2>2, <2>3, <2>4
  <1>2. PICK g : /\ OneEach(g, kbest, Len(samples))
                 /\ \A u \in 1 .. kbest : samples[g[u]] = values[u]
    BY <1>1 DEF Kept, Best
  <1> DEFINE bound == (100 + percent) * values[1]
             N == T!Near(samples)
  <1>3. N = {u \in 1 .. Len(samples) : 100 * samples[u] <= bound}
    BY <1>1 DEF T!Near, T!result
  <1>4. bound \in Int /\ 100 * values[kbest] <= bound
    BY <1>1, KConstants
  <1> HIDE DEF bound, N
  <1>5. \A u \in 1 .. kbest : 100 * values[u] <= bound
    <2>1. \A u \in 1 .. kbest : values[u] \in Int /\ values[u] <= values[kbest]
      BY <1>1, KConstants
    <2> QED
      BY <1>4, <2>1, KConstants
  <1>6. g \in [1 .. kbest -> N]
    BY <1>2, <1>3, <1>5 DEF OneEach
  <1>7. g \in Injection(1 .. kbest, N)
    BY <1>2, <1>6 DEF Injection, IsInjective, OneEach
  <1>8. IsFiniteSet(N)
    <2>1. N \in SUBSET (1 .. Len(samples)) /\ IsFiniteSet(1 .. Len(samples))
      BY <1>1, <1>3, FS_Interval
    <2> QED
      BY <2>1, FS_Subset
  <1>9. Cardinality(1 .. kbest) <= Cardinality(N)
    BY <1>7, <1>8, FS_Injection
  <1>10. Cardinality(1 .. kbest) = kbest
    BY FS_Interval, KConstants
  <1>11. Cardinality(N) \in Nat
    BY <1>8, FS_CardinalityType
  <1> QED
    BY <1>9, <1>10, <1>11, KConstants DEF N

----------------------------------------------------------------------------
(* The clock: differences of a counter that comes round.                   *)

LEMMA ModFacts ==
  ASSUME NEW m \in Nat, m > 0, NEW x \in Int
  PROVE  /\ x % m \in 0 .. m - 1 /\ x \div m \in Int
         /\ x = (x \div m) * m + (x % m)
  <1>1. x % m \in 0 .. m - 1
    OBVIOUS
  <1>2. x \div m \in Int
    OBVIOUS
  <1>3. x = m * (x \div m) + (x % m)
    OBVIOUS
  <1> QED
    BY <1>1, <1>2, <1>3

LEMMA Quotient ==
  ASSUME NEW m \in Nat, m > 0, NEW x \in Int
  PROVE  \E q \in Int : /\ x = q * m + (x % m)
                       /\ x % m \in Int /\ 0 <= x % m /\ x % m < m
  <1>1. /\ x % m \in 0 .. m - 1 /\ x \div m \in Int
        /\ x = (x \div m) * m + (x % m)
    BY ModFacts
  <1>2. x % m \in Int /\ 0 <= x % m /\ x % m < m
    BY <1>1
  <1> QED
    BY <1>1, <1>2

LEMMA ModUnique ==
  ASSUME NEW m \in Nat, m > 0, NEW q \in Int, NEW r \in Int, 0 <= r, r < m
  PROVE  (q * m + r) % m = r
  OBVIOUS

LEMMA Congruent ==
  ASSUME NEW m \in Nat, m > 0, NEW q \in Int, NEW y \in Int
  PROVE  (q * m + y) % m = y % m
  <1>1. PICK d \in Int, r \in 0 .. m - 1 : y = d * m + r /\ r = y % m
    BY ModFacts
  <1>2. q * m + y = (q + d) * m + r
    BY <1>1
  <1>3. ((q + d) * m + r) % m = r
    BY ModUnique
  <1> QED
    BY <1>1, <1>2, <1>3

\* The counter less k and y.
Since(c, k, y) == (c - (k.hi * T!Word + k.lo) - y) % T!Cycles
Reading == [hi : 0 .. T!Word - 1, lo : 0 .. T!Word - 1]
Lost == Overheads \cup {0}

LEMMA ClockConstants ==
  /\ T!Word \in Nat /\ T!Word > 0 /\ T!Cycles \in Nat /\ T!Cycles > 0
  /\ T!Cycles = T!Word * T!Word
  /\ Period \in Nat /\ THRESHOLD \in Nat /\ RECORDTHRESH \in Nat
  /\ 2 <= THRESHOLD /\ THRESHOLD <= RECORDTHRESH /\ THRESHOLD + 2 < Period
  /\ Costs \subseteq Nat /\ Lost \subseteq Nat /\ \A o \in Overheads : o > 0
  /\ \A c \in Costs : c + 4 < Period
  /\ \A o \in Lost : THRESHOLD + o < T!Cycles
  /\ \A o \in Lost : \A c \in Costs : 1 + c + o < T!Cycles
  <1>1. T!TimingAssumption
    BY PartsAssumption
  <1>2. T!Word \in Nat /\ T!Word > 0 /\ T!Word = 2 ^ W
    BY <1>1 DEF T!TimingAssumption, T!Word
  <1>3. T!Cycles = T!Word * T!Word /\ T!Cycles = 2 ^ W * 2 ^ W
    BY <1>2 DEF T!Cycles
  <1>4. T!Cycles \in Nat /\ T!Cycles > 0
    BY <1>2, <1>3
  <1>5. /\ Period \in Nat /\ THRESHOLD \in Nat /\ RECORDTHRESH \in Nat
        /\ 2 <= THRESHOLD /\ THRESHOLD <= RECORDTHRESH /\ THRESHOLD + 2 < Period
        /\ Costs \subseteq Nat /\ Lost \subseteq Nat /\ \A o \in Overheads : o > 0
        /\ \A c \in Costs : c + 4 < Period
    BY <1>1 DEF T!TimingAssumption, Lost
  <1>6. /\ \A o \in Lost : THRESHOLD + o < T!Cycles
        /\ \A o \in Lost : \A c \in Costs : 1 + c + o < T!Cycles
    BY <1>1, <1>3 DEF T!TimingAssumption, Lost
  <1> QED
    BY <1>2, <1>3, <1>4, <1>5, <1>6

\* get_counter subtracts word by word with a borrow, and that is the
\* difference, whether or not the low word came round (clock.c:44-62).
LEMMA CounterReads ==
  ASSUME tsc \in 0 .. T!Cycles - 1, cyc \in Reading
  PROVE  T!get_counter = Since(tsc, cyc, 0) /\ T!get_counter \in 0 .. T!Cycles - 1
  <1> DEFINE w == T!Word
             nh == tsc \div w
             nl == tsc % w
             ch == cyc.hi
             cl == cyc.lo
             lo == (nl - cl) % w
             borrow == IF lo > nl THEN 1 ELSE 0
             hi == (nh - ch - borrow) % w
  <1>0. w \in Nat /\ w > 0 /\ T!Cycles = w * w /\ T!Cycles \in Nat /\ T!Cycles > 0
    BY ClockConstants
  <1>1. ch \in 0 .. w - 1 /\ cl \in 0 .. w - 1 /\ tsc \in Nat /\ tsc < w * w
    BY <1>0 DEF Reading
  <1>2. T!get_counter = hi * w + lo
    BY DEF T!get_counter, T!access_counter
  <1> HIDE DEF w
  <1>3. nh \in Int /\ nl \in 0 .. w - 1 /\ tsc = nh * w + nl
    BY <1>0, <1>1, ModFacts
  <1>4. Since(tsc, cyc, 0) = (tsc - (ch * w + cl)) % (w * w)
    <2>1. tsc - (ch * w + cl) - 0 = tsc - (ch * w + cl)
      BY <1>0, <1>1
    <2> QED
      BY <1>0, <2>1 DEF Since, w
  <1> HIDE DEF nh, nl, ch, cl
  <1>5. nh \in 0 .. w - 1
    <2>1. nh >= 0
      <3>1. CASE nh <= -1
        <4>1. nh * w <= -w
          BY <1>0, <1>3, <3>1
        <4> QED
          BY <1>0, <1>1, <1>3, <4>1
      <3> QED
        BY <1>3, <3>1
    <2>2. nh < w
      <3>1. CASE nh >= w
        <4>1. nh * w >= w * w
          BY <1>0, <1>3, <3>1
        <4> QED
          BY <1>0, <1>1, <1>3, <4>1
      <3> QED
        BY <1>0, <1>3, <3>1
    <2> QED
      BY <1>0, <1>3, <2>1, <2>2
  \* The low words' difference, and whether it was borrowed for.
  <1>6. PICK b \in {0, 1} : borrow = b /\ lo = nl - cl + b * w /\ lo \in 0 .. w - 1
    <2>1. CASE nl >= cl
      <3>1. (0 * w + (nl - cl)) % w = nl - cl
        BY <1>0, <1>1, <1>3, <2>1, ModUnique
      <3>2. lo = nl - cl
        BY <1>0, <1>1, <1>3, <3>1
      <3> QED
        BY <1>0, <1>1, <1>3, <2>1, <3>2
    <2>2. CASE nl < cl
      <3>1. ((-1) * w + (nl - cl + w)) % w = nl - cl + w
        BY <1>0, <1>1, <1>3, <2>2, ModUnique
      <3>2. (-1) * w + (nl - cl + w) = nl - cl
        BY <1>0, <1>1, <1>3
      <3>3. lo = nl - cl + w
        BY <3>1, <3>2
      <3> QED
        BY <1>0, <1>1, <1>3, <2>2, <3>3
    <2> QED
      BY <1>1, <1>3, <2>1, <2>2
  <1> DEFINE x == nh - ch - b
  <1>7. x \in Int /\ hi = x % w
    <2>1. borrow = b
      BY <1>6
    <2>2. nh \in Int /\ ch \in Int /\ b \in Int
      BY <1>1, <1>5
    <2> HIDE DEF borrow
    <2> QED
      BY <2>1, <2>2
  <1> HIDE DEF hi, x
  <1>8. PICK q \in Int : hi \in 0 .. w - 1 /\ x = q * w + hi
    <2>1. PICK q \in Int : x = q * w + hi /\ hi \in Int /\ 0 <= hi /\ hi < w
      BY <1>0, <1>7, Quotient
    <2>2. hi \in 0 .. w - 1
      BY <1>0, <2>1
    <2> QED
      BY <2>1, <2>2
  <1> HIDE DEF lo, borrow
  <1>9. hi * w + lo \in 0 .. w * w - 1
    <2>1. hi * w >= 0 /\ hi * w <= (w - 1) * w
      BY <1>0, <1>8
    <2>2. (w - 1) * w = w * w - w
      BY <1>0
    <2>3. hi * w \in Int /\ w * w \in Int
      BY <1>0, <1>8
    <2> QED
      BY <1>0, <1>6, <2>1, <2>2, <2>3
  <1>10. tsc - (ch * w + cl) = q * (w * w) + (hi * w + lo)
    <2>1. tsc - (ch * w + cl) = (nh - ch) * w + (nl - cl)
      BY <1>0, <1>1, <1>3, <1>5
    <2>2. nl - cl = lo - b * w
      BY <1>0, <1>1, <1>3, <1>6
    <2>3. (nh - ch) * w - b * w = x * w
      BY <1>0, <1>1, <1>5, <1>6 DEF x
    <2>4. x * w = q * (w * w) + hi * w
      BY <1>0, <1>8
    <2> DEFINE A == (nh - ch) * w
               B == b * w
               X == x * w
               Y == q * (w * w)
               H == hi * w
    <2>5. A \in Int /\ B \in Int /\ X \in Int /\ Y \in Int /\ H \in Int
      BY <1>0, <1>1, <1>5, <1>6, <1>7, <1>8
    <2> HIDE DEF A, B, X, Y, H
    <2>6. A + (nl - cl) = Y + (H + lo)
      BY <1>1, <1>3, <1>6, <2>2, <2>3, <2>4, <2>5 DEF A, B, X, Y, H
    <2> QED
      BY <2>1, <2>6 DEF A, Y, H
  <1>11. w * w \in Nat /\ w * w > 0
    BY <1>0
  <1>12. (q * (w * w) + (hi * w + lo)) % (w * w) = hi * w + lo
    <2> DEFINE m == w * w
               r == hi * w + lo
    <2>1. m \in Nat /\ m > 0 /\ r \in Int /\ 0 <= r /\ r < m
      BY <1>9, <1>11
    <2> HIDE DEF m, r
    <2>2. (q * m + r) % m = r
      BY <2>1, ModUnique
    <2> QED
      BY <2>2 DEF m, r
  <1> QED
    BY <1>0, <1>2, <1>4, <1>9, <1>10, <1>12

\* The difference from an earlier reading.
LEMMA ElapsedSince ==
  ASSUME tsc \in 0 .. T!Cycles - 1, cyc \in Reading, oldt \in 0 .. T!Cycles - 1
  PROVE  T!elapsed(T!get_counter) = Since(tsc, cyc, oldt)
  <1> DEFINE C == T!Cycles
             x == tsc - (cyc.hi * T!Word + cyc.lo)
  <1>1. C \in Nat /\ C > 0 /\ T!Word \in Nat
    BY ClockConstants
  <1>2. cyc.hi * T!Word \in Int /\ cyc.lo \in Int
    BY <1>1 DEF Reading
  <1>3. x \in Int /\ oldt \in Int
    BY <1>1, <1>2
  <1>4. T!get_counter = x % C
    <2>1. x - 0 = x
      BY <1>3
    <2> QED
      BY <2>1, CounterReads DEF Since
  <1> HIDE DEF x, C
  <1>5. PICK q \in Int : x % C \in Int /\ x = q * C + (x % C)
    BY <1>1, <1>3, Quotient
  <1>6. q * C \in Int /\ x - oldt = q * C + ((x % C) - oldt) /\ (x % C) - oldt \in Int
    BY <1>1, <1>3, <1>5
  <1>7. (x - oldt) % C = ((x % C) - oldt) % C
    BY <1>1, <1>6, Congruent
  <1> QED
    BY <1>4, <1>7 DEF T!elapsed, Since, x, C

\* Time passes: the difference grows by it, as long as the counter lasts.
LEMMA Ahead ==
  ASSUME NEW c \in 0 .. T!Cycles - 1, NEW k \in Reading, NEW y \in 0 .. T!Cycles - 1,
         NEW s \in Nat, Since(c, k, y) + s < T!Cycles
  PROVE  Since((c + s) % T!Cycles, k, y) = Since(c, k, y) + s
  <1> DEFINE C == T!Cycles
             z == k.hi * T!Word + k.lo
             x == c - z - y
             d == x % C
  <1>1. C \in Nat /\ C > 0 /\ T!Word \in Nat
    BY ClockConstants
  <1>2. z \in Int
    BY <1>1 DEF Reading
  <1> HIDE DEF C, z
  <1>3. x \in Int /\ c \in Int /\ y \in Int
    BY <1>1, <1>2 DEF C
  <1>4. PICK q \in Int : d \in Int /\ 0 <= d /\ x = q * C + d
    BY <1>1, <1>3, Quotient
  <1>5. d + s < C
    BY DEF Since, C, z
  <1>6. PICK p \in Int : (c + s) % C \in Int /\ c + s = p * C + ((c + s) % C)
    <2>1. c + s \in Int
      BY <1>3
    <2> QED
      BY <1>1, <2>1, Quotient
  <1> DEFINE v == (c + s) % C
  <1>7. v - z - y = (q - p) * C + (d + s)
    <2> DEFINE Q == q * C
               P == p * C
    <2>1. Q \in Int /\ P \in Int /\ (q - p) * C = Q - P
      BY <1>1, <1>4, <1>6
    <2>2. v \in Int /\ c - z - y = Q + d /\ c + s = P + v
      BY <1>4, <1>6
    <2> HIDE DEF Q, P, v, d
    <2> QED
      BY <1>2, <1>3, <1>4, <2>1, <2>2
  <1> HIDE DEF v, d
  <1>8. ((q - p) * C + (d + s)) % C = d + s
    <2>1. q - p \in Int /\ d + s \in Int /\ 0 <= d + s /\ d + s < C
      BY <1>4, <1>5
    <2> QED
      BY <1>1, <2>1, ModUnique
  <1> QED
    BY <1>7, <1>8 DEF Since, v, C, z, d

\* What was just read lies nothing back.
LEMMA JustRead ==
  ASSUME tsc \in 0 .. T!Cycles - 1, cyc \in Reading
  PROVE  Since(tsc, cyc, T!get_counter) = 0
  <1> DEFINE C == T!Cycles
             x == tsc - (cyc.hi * T!Word + cyc.lo)
  <1>1. C \in Nat /\ C > 0 /\ T!Word \in Nat
    BY ClockConstants
  <1>2. cyc.hi * T!Word \in Int /\ cyc.lo \in Int
    BY <1>1 DEF Reading
  <1>3. x \in Int
    BY <1>1, <1>2
  <1>4. T!get_counter = x % C
    <2>1. x - 0 = x
      BY <1>3
    <2> QED
      BY <2>1, CounterReads DEF Since
  <1> HIDE DEF x, C
  <1>5. PICK q \in Int : x % C \in Int /\ x = q * C + (x % C)
    BY <1>1, <1>3, Quotient
  <1>6. x - (x % C) = q * C + 0
    BY <1>1, <1>3, <1>5
  <1>7. (q * C + 0) % C = 0
    BY <1>1, ModUnique
  <1> QED
    BY <1>4, <1>6, <1>7 DEF Since, x, C

\* start_counter's own reading lies nothing back either.
LEMMA JustStarted ==
  ASSUME tsc \in 0 .. T!Cycles - 1
  PROVE  T!access_counter \in Reading /\ Since(tsc, T!access_counter, 0) = 0
  <1> DEFINE w == T!Word
             nh == tsc \div w
             nl == tsc % w
  <1>1. w \in Nat /\ w > 0 /\ T!Cycles = w * w /\ T!Cycles \in Nat /\ T!Cycles > 0
    BY ClockConstants
  <1>2. tsc \in Nat /\ tsc < w * w
    BY <1>1
  <1>3. T!access_counter = [hi |-> nh, lo |-> nl]
    BY DEF T!access_counter
  <1> HIDE DEF w
  <1>4. nh \in Int /\ nl \in 0 .. w - 1 /\ tsc = nh * w + nl
    BY <1>1, <1>2, ModFacts
  <1> HIDE DEF nh, nl
  <1>5. nh >= 0
    <2>1. CASE nh <= -1
      <3>1. nh * w <= -w
        BY <1>1, <1>4, <2>1
      <3> QED
        BY <1>1, <1>2, <1>4, <3>1
    <2> QED
      BY <1>4, <2>1
  <1>6. nh < w
    <2>1. CASE nh >= w
      <3>1. nh * w >= w * w
        BY <1>1, <1>4, <2>1
      <3> QED
        BY <1>1, <1>2, <1>4, <3>1
    <2> QED
      BY <1>1, <1>4, <2>1
  <1>7. T!access_counter \in Reading
    BY <1>1, <1>3, <1>4, <1>5, <1>6 DEF Reading, w
  <1>8. tsc - (nh * w + nl) - 0 = 0 * (w * w) + 0
    <2> DEFINE P == nh * w
               Q == w * w
    <2>1. P \in Int /\ Q \in Int /\ 0 * Q = 0 /\ tsc = P + nl /\ tsc \in Int
      BY <1>1, <1>2, <1>4
    <2> HIDE DEF P, Q
    <2>2. tsc - (P + nl) - 0 = 0 * Q + 0
      BY <1>4, <2>1
    <2> QED
      BY <2>2 DEF P, Q
  <1>9. (0 * (w * w) + 0) % T!Cycles = 0
    BY <1>1
  <1> QED
    BY <1>3, <1>7, <1>8, <1>9 DEF Since, w

----------------------------------------------------------------------------
(* The measurement: interrupts come so seldom that one at most falls into  *)
(* each of its gaps.                                                       *)

ClockPlaces == {"idle", "clear", "callibrate", "cal_start", "cal_old", "cal_new",
                "cal_ticks", "times", "counter", "f", "get", "get_ticks", "exit"}

ClockTypes ==
    /\ tsc \in 0 .. T!Cycles - 1 /\ quiet \in 0 .. Period /\ ticks \in {0, 1}
    /\ cyc \in Reading /\ cache_buf \in BOOLEAN /\ pc \in ClockPlaces
    /\ {oldt, newt, cyc_per_tick, time} \subseteq 0 .. T!Cycles - 1
    /\ own \in Costs \cup {0}

\* The cycles since a tick that has not been read are those of the steps since.
Recent ==
    ticks = 1 => \/ pc \in {"cal_start", "counter"} /\ quiet = 0
                 \/ pc \in {"cal_old", "f"} /\ quiet <= 1
                 \/ pc = "cal_new" /\ quiet <= THRESHOLD + 1
                 \/ pc = "cal_ticks" /\ quiet <= THRESHOLD + 2
                 \/ pc = "get" /\ quiet <= 1 + own
                 \/ pc = "get_ticks" /\ quiet <= 2 + own
                 \/ pc \in {"idle", "clear"} /\ quiet <= 3 + own
                 \/ pc \in {"callibrate", "times", "exit"} /\ quiet <= 4 + own

\* callibrate's gap, in which the program took c cycles and an interrupt o:
\* its tick may have been read before its cycles, or come before the gap.
Gap == pc = "cal_new" =>
    \E c \in 1 .. THRESHOLD, o \in Lost :
       /\ Since(tsc, cyc, oldt) = c + o
       /\ o = 0 => ticks = 0 \/ quiet <= c + 1
       /\ o # 0 => quiet <= c
GapRead == pc = "cal_ticks" =>
    \E c \in 1 .. THRESHOLD, o, p \in Lost :
       /\ T!elapsed(newt) = c + o /\ Since(tsc, cyc, newt) = 1 + p
       /\ o = 0 /\ p = 0 => ticks = 0 \/ quiet <= c + 2
       /\ o # 0 => p = 0 /\ quiet <= c + 1
       /\ p # 0 => quiet = 0

\* A run of f, beside it an interrupt that took o.
RunOfF ==
    /\ pc = "f" => \E o \in Lost : /\ Since(tsc, cyc, 0) = 1 + o
                                   /\ o # 0 => quiet = 0
    /\ pc = "get" => \E o \in Lost : /\ Since(tsc, cyc, 0) = 1 + own + o
                                     /\ o # 0 => quiet <= own

\* The samples.
Sampled ==
    /\ Kept(values, samples) /\ Len(samples) <= maxsamples
    /\ pc \notin {"idle", "exit"} => Len(samples) < maxsamples
    /\ pc = "idle" /\ samples # <<>> =>
         \/ Len(samples) = maxsamples
         \/ /\ Len(samples) >= kbest
            /\ (100 + percent) * values[1] >= 100 * values[kbest]

ClockInv == /\ ClockTypes /\ Recent /\ Gap /\ GapRead /\ RunOfF
            /\ T!CountedWell /\ T!CallibratedWell /\ Sampled

LEMMA KeptEmpty == Kept(<<>>, <<>>)
  <1>1. <<>> \in Seq(Int) /\ Len(<<>>) = 0 /\ DOMAIN <<>> = {}
    OBVIOUS
  <1>2. T!AllBelow(<<>>)
    BY <1>1 DEF T!AllBelow
  <1>3. OneEach(<<>>, 0, 0)
    <2>1. <<>> \in [1 .. 0 -> 1 .. 0]
      BY SMT
    <2> QED
      BY <2>1 DEF OneEach
  <1>4. Best(<<>>, <<>>)
    BY <1>1, <1>3 DEF Best
  <1> QED
    BY <1>1, <1>2, <1>4, KConstants DEF Kept

LEMMA InitClock == T!Init => ClockInv
  <1> SUFFICES ASSUME T!Init PROVE ClockInv
    OBVIOUS
  <1>1. /\ tsc = T!Cycles - 1 /\ quiet = 0 /\ ticks = 0 /\ pc = "idle"
        /\ cyc = [hi |-> 0, lo |-> 0] /\ oldt = 0 /\ newt = 0 /\ cyc_per_tick = 0
        /\ cache_buf = FALSE /\ time = 0 /\ values = <<>> /\ samples = <<>> /\ own = 0
    BY DEF T!Init
  <1>2. ClockTypes
    <2>1. 0 \in 0 .. T!Cycles - 1 /\ T!Cycles - 1 \in 0 .. T!Cycles - 1 /\ 0 \in 0 .. Period
      BY ClockConstants
    <2>2. cyc \in Reading
      BY <1>1, ClockConstants DEF Reading
    <2> QED
      BY <1>1, <2>1, <2>2 DEF ClockTypes, ClockPlaces
  <1>3. Recent /\ Gap /\ GapRead /\ RunOfF /\ T!CountedWell /\ T!CallibratedWell
    BY <1>1 DEF Recent, Gap, GapRead, RunOfF, T!CountedWell, T!CallibratedWell
  <1>4. Sampled
    BY <1>1, KeptEmpty, KConstants DEF Sampled
  <1> QED
    BY <1>2, <1>3, <1>4 DEF ClockInv

\* A step of s cycles.
LEMMA Passes ==
  ASSUME ClockTypes, NEW s \in Nat, T!Pass(s)
  PROVE  /\ tsc' \in 0 .. T!Cycles - 1 /\ quiet' \in 0 .. Period
         /\ tsc' = (tsc + s) % T!Cycles /\ quiet' <= quiet + s
  <1>1. tsc' = (tsc + s) % T!Cycles
    BY DEF T!Pass
  <1>2. tsc + s \in Int
    BY ClockConstants DEF ClockTypes
  <1>3. tsc' \in 0 .. T!Cycles - 1
    BY <1>1, <1>2, ClockConstants, ModFacts
  <1>4. quiet' \in 0 .. Period /\ quiet' <= quiet + s
    BY ClockConstants DEF ClockTypes, T!Pass
  <1> QED
    BY <1>1, <1>3, <1>4

\* What a step does not touch stays as it is.
LEMMA SampledSame ==
  ASSUME Sampled, UNCHANGED <<values, samples>>,
         pc \in {"idle", "exit"} => pc' = pc, pc' \in {"idle", "exit"} => pc' = pc
  PROVE  Sampled'
  BY DEF Sampled

\* An interrupt: none has come since the last tick was read (not fcyc's code).
LEMMA InterruptKeeps == ClockInv /\ T!Interrupt => ClockInv'
  <1> SUFFICES ASSUME ClockInv, T!Interrupt PROVE ClockInv'
    OBVIOUS
  <1>1. /\ quiet = Period /\ quiet' = 0 /\ ticks' = ticks + 1
        /\ pc' = pc /\ cyc' = cyc /\ oldt' = oldt /\ newt' = newt
        /\ cyc_per_tick' = cyc_per_tick /\ cache_buf' = cache_buf /\ time' = time
        /\ values' = values /\ samples' = samples /\ own' = own
    BY DEF T!Interrupt, T!clock, T!sampler
  <1>2. PICK q \in Overheads : tsc' = (tsc + q) % T!Cycles
    BY DEF T!Interrupt
  <1>3. q \in Nat /\ q > 0 /\ q \in Lost
    BY <1>2, ClockConstants DEF Lost
  <1>4. ClockTypes /\ ticks = 0
    <2>1. own \in Costs \cup {0} /\ ticks \in {0, 1} /\ pc \in ClockPlaces
      BY DEF ClockInv, ClockTypes
    <2>2. own \in Nat /\ own + 4 < Period
      BY <2>1, ClockConstants
    <2> QED
      BY <1>1, <2>1, <2>2, ClockConstants DEF ClockInv, Recent
  <1>5. tsc' \in 0 .. T!Cycles - 1
    <2>1. tsc + q \in Int
      BY <1>3, <1>4, ClockConstants DEF ClockTypes
    <2> QED
      BY <1>2, <2>1, ClockConstants, ModFacts
  <1>6. ClockTypes'
    BY <1>1, <1>4, <1>5, ClockConstants DEF ClockTypes
  <1>7. Recent'
    <2>1. own \in Nat
      <3>1. own \in Costs \cup {0} /\ Costs \subseteq Nat
        BY <1>4, ClockConstants DEF ClockTypes
      <3> QED
        BY <3>1
    <2> QED
      BY <1>1, <1>4, <2>1, ClockConstants DEF Recent, ClockTypes, ClockPlaces
  <1>8. \A y \in 0 .. T!Cycles - 1 :
          Since(tsc, cyc, y) + q < T!Cycles => Since(tsc', cyc', y) = Since(tsc, cyc, y) + q
    BY <1>1, <1>2, <1>3, <1>4, Ahead DEF ClockTypes
  <1>9. Gap'
    <2>1. CASE pc = "cal_new"
      <3>1. PICK c \in 1 .. THRESHOLD, o \in Lost :
              /\ Since(tsc, cyc, oldt) = c + o
              /\ o = 0 => ticks = 0 \/ quiet <= c + 1
              /\ o # 0 => quiet <= c
        BY <2>1 DEF ClockInv, Gap
      <3>2. o = 0 /\ c + q < T!Cycles
        BY <1>1, <1>3, <3>1, ClockConstants
      <3>3. Since(tsc', cyc', oldt') = c + q
        BY <1>1, <1>4, <1>8, <3>1, <3>2 DEF ClockTypes
      <3> QED
        BY <1>1, <1>3, <3>3 DEF Gap
    <2> QED
      BY <1>1, <2>1 DEF Gap
  <1>10. GapRead'
    <2>1. CASE pc = "cal_ticks"
      <3>1. PICK c \in 1 .. THRESHOLD, o \in Lost, p \in Lost :
              /\ T!elapsed(newt) = c + o /\ Since(tsc, cyc, newt) = 1 + p
              /\ o = 0 /\ p = 0 => ticks = 0 \/ quiet <= c + 2
              /\ o # 0 => p = 0 /\ quiet <= c + 1
              /\ p # 0 => quiet = 0
        BY <2>1 DEF ClockInv, GapRead
      <3>2. o = 0 /\ p = 0 /\ 1 + q < T!Cycles
        BY <1>1, <1>3, <3>1, ClockConstants
      <3>3. Since(tsc', cyc', newt') = 1 + q
        BY <1>1, <1>4, <1>8, <3>1, <3>2 DEF ClockTypes
      <3>4. T!elapsed(newt)' = c + o
        BY <1>1, <3>1 DEF T!elapsed
      <3> QED
        BY <1>1, <1>3, <3>1, <3>2, <3>3, <3>4 DEF GapRead, T!elapsed
    <2> QED
      BY <1>1, <2>1 DEF GapRead
  <1>11. RunOfF'
    <2>1. CASE pc = "f"
      <3>1. PICK o \in Lost : Since(tsc, cyc, 0) = 1 + o /\ (o # 0 => quiet = 0)
        BY <2>1 DEF ClockInv, RunOfF
      <3>2. o = 0 /\ 1 + q < T!Cycles /\ 0 \in 0 .. T!Cycles - 1
        BY <1>1, <1>3, <3>1, ClockConstants
      <3>3. Since(tsc', cyc', 0) = 1 + q
        BY <1>8, <3>1, <3>2
      <3> QED
        BY <1>1, <1>3, <2>1, <3>3 DEF RunOfF
    <2>2. CASE pc = "get"
      <3>1. PICK o \in Lost : /\ Since(tsc, cyc, 0) = 1 + own + o
                              /\ o # 0 => quiet <= own
        BY <2>2 DEF ClockInv, RunOfF
      <3>2. own \in Nat /\ own < Period /\ 1 + own + q < T!Cycles /\ 0 \in 0 .. T!Cycles - 1
        <4>1. own \in Costs \cup {0}
          BY <1>4 DEF ClockTypes
        <4> QED
          BY <1>3, <4>1, ClockConstants
      <3>3. o = 0
        BY <1>1, <3>1, <3>2, ClockConstants
      <3>4. Since(tsc', cyc', 0) = 1 + own + q
        BY <1>8, <3>1, <3>2, <3>3
      <3> QED
        BY <1>1, <1>3, <2>2, <3>2, <3>4 DEF RunOfF
    <2> QED
      BY <1>1, <2>1, <2>2 DEF RunOfF
  <1>12. T!CountedWell' /\ T!CallibratedWell' /\ Sampled'
    BY <1>1 DEF ClockInv, T!CountedWell, T!CallibratedWell, Sampled
  <1> QED
    BY <1>6, <1>7, <1>9, <1>10, <1>11, <1>12 DEF ClockInv

\* The frame of a step that leaves the samples, the gaps and the run alone.
Elsewhere == pc' \notin {"cal_new", "cal_ticks", "f", "get", "get_ticks"}
LEMMA ElsewhereKeeps ==
  ASSUME Elsewhere, cyc_per_tick' = cyc_per_tick, T!CallibratedWell
  PROVE  Gap' /\ GapRead' /\ RunOfF' /\ T!CountedWell' /\ T!CallibratedWell'
  BY DEF Elsewhere, Gap, GapRead, RunOfF, T!CountedWell, T!CallibratedWell

\* callibrate up to its loop (clock.c:133-143).
LEMMA CalBegins ==
  ClockInv /\ (T!CalTicks0 \/ T!CalStart \/ T!CalOld) => ClockInv'
  <1> SUFFICES ASSUME ClockInv, T!CalTicks0 \/ T!CalStart \/ T!CalOld PROVE ClockInv'
    OBVIOUS
  <1>0. ClockTypes /\ Recent /\ Sampled /\ T!CallibratedWell /\ 1 \in Nat
    BY DEF ClockInv
  <1>1. T!Pass(1)
    BY DEF T!CalTicks0, T!CalStart, T!CalOld, T!Step
  <1>2. /\ tsc' \in 0 .. T!Cycles - 1 /\ quiet' \in 0 .. Period
        /\ tsc' = (tsc + 1) % T!Cycles /\ quiet' <= quiet + 1
    BY <1>0, <1>1, Passes
  <1>3. /\ newt' = newt /\ cyc_per_tick' = cyc_per_tick /\ cache_buf' = cache_buf
        /\ time' = time /\ values' = values /\ samples' = samples /\ own' = own
    BY DEF T!CalTicks0, T!CalStart, T!CalOld, T!sampler
  <1>4. quiet \in Nat /\ quiet' \in Nat /\ own \in Nat
    BY <1>0, <1>2, ClockConstants DEF ClockTypes
  <1>5. CASE T!CalTicks0
    <2>1. pc = "callibrate" /\ pc' = "cal_start" /\ ticks' = 0 /\ cyc' = cyc /\ oldt' = oldt
      BY <1>5 DEF T!CalTicks0, T!Step
    <2>2. ClockTypes' /\ Recent'
      BY <1>0, <1>2, <1>3, <2>1 DEF ClockTypes, ClockPlaces, Recent
    <2>3. Sampled'
      BY <1>0, <1>3, <2>1, SampledSame
    <2> QED
      BY <1>0, <1>3, <2>1, <2>2, <2>3, ElsewhereKeeps DEF ClockInv, Elsewhere
  <1>6. CASE T!CalStart
    <2>1. /\ pc = "cal_start" /\ pc' = "cal_old" /\ ticks' = ticks /\ oldt' = oldt
          /\ cyc' = T!access_counter
      BY <1>6 DEF T!CalStart, T!Step
    <2>2. cyc' \in Reading
      BY <1>0, <2>1, JustStarted DEF ClockTypes
    <2>3. ClockTypes' /\ Recent'
      BY <1>0, <1>2, <1>3, <1>4, <2>1, <2>2 DEF ClockTypes, ClockPlaces, Recent
    <2>4. Sampled'
      BY <1>0, <1>3, <2>1, SampledSame
    <2> QED
      BY <1>0, <1>3, <2>1, <2>3, <2>4, ElsewhereKeeps DEF ClockInv, Elsewhere
  <1>7. CASE T!CalOld
    <2>1. /\ pc = "cal_old" /\ pc' = "cal_new" /\ ticks' = ticks /\ cyc' = cyc
          /\ oldt' = T!get_counter
      BY <1>7 DEF T!CalOld, T!Step
    <2>2. oldt' \in 0 .. T!Cycles - 1 /\ Since(tsc, cyc, oldt') = 0
      BY <1>0, <2>1, CounterReads, JustRead DEF ClockTypes
    <2>3. Since(tsc', cyc', oldt') = 1
      <3>1. 0 \in Lost /\ 0 + 1 < T!Cycles
        BY ClockConstants DEF Lost
      <3> QED
        BY <1>0, <1>2, <2>1, <2>2, <3>1, Ahead DEF ClockTypes
    <2>4. ClockTypes'
      BY <1>0, <1>2, <1>3, <2>1, <2>2 DEF ClockTypes, ClockPlaces
    <2>5. ticks = 1 => quiet' <= 2
      BY <1>0, <1>2, <1>4, <2>1 DEF Recent
    <2>6. Recent'
      BY <1>4, <2>1, <2>5, ClockConstants DEF Recent
    <2>7. Gap'
      <3>1. 1 \in 1 .. THRESHOLD /\ 0 \in Lost /\ ticks' \in {0, 1}
        BY <1>0, <2>1, ClockConstants DEF Lost, ClockTypes
      <3>2. ticks' = 0 \/ quiet' <= 1 + 1
        BY <2>1, <2>5, <3>1
      <3>3. /\ Since(tsc', cyc', oldt') = 1 + 0
            /\ 0 = 0 => ticks' = 0 \/ quiet' <= 1 + 1
            /\ 0 # 0 => quiet' <= 1
        BY <2>3, <3>2
      <3> QED
        BY <3>1, <3>3 DEF Gap
    <2>8. GapRead' /\ RunOfF' /\ T!CountedWell' /\ T!CallibratedWell'
      BY <1>0, <1>3, <2>1 DEF GapRead, RunOfF, T!CountedWell, T!CallibratedWell
    <2>9. Sampled'
      BY <1>0, <1>3, <2>1, SampledSame
    <2> QED
      BY <2>4, <2>6, <2>7, <2>8, <2>9 DEF ClockInv
  <1> QED
    BY <1>5, <1>6, <1>7

\* The loop goes on until the gap is long (clock.c:144-147).
LEMMA CalNewKeeps == ClockInv /\ T!CalNew => ClockInv'
  <1> SUFFICES ASSUME ClockInv, T!CalNew PROVE ClockInv'
    OBVIOUS
  <1>0. ClockTypes /\ Recent /\ Sampled /\ T!CallibratedWell /\ 1 \in Nat
    BY DEF ClockInv
  <1> DEFINE long == T!elapsed(T!get_counter) >= THRESHOLD
  <1>1. /\ T!Pass(1) /\ pc = "cal_new" /\ pc' = (IF long THEN "cal_ticks" ELSE "cal_new")
        /\ newt' = (IF long THEN T!get_counter ELSE newt)
        /\ ticks' = ticks /\ cyc' = cyc /\ oldt' = oldt /\ cyc_per_tick' = cyc_per_tick
        /\ cache_buf' = cache_buf /\ time' = time /\ values' = values
        /\ samples' = samples /\ own' = own
    BY DEF T!CalNew, T!Step, T!sampler
  <1>2. /\ tsc' \in 0 .. T!Cycles - 1 /\ quiet' \in 0 .. Period
        /\ tsc' = (tsc + 1) % T!Cycles /\ quiet' <= quiet + 1
    BY <1>0, <1>1, Passes
  <1>3. PICK c \in 1 .. THRESHOLD, o \in Lost :
          /\ Since(tsc, cyc, oldt) = c + o
          /\ o = 0 => ticks = 0 \/ quiet <= c + 1
          /\ o # 0 => quiet <= c
    BY <1>1 DEF ClockInv, Gap
  <1>4. /\ T!elapsed(T!get_counter) = c + o /\ T!get_counter \in 0 .. T!Cycles - 1
        /\ Since(tsc, cyc, T!get_counter) = 0
    BY <1>0, <1>3, ElapsedSince, CounterReads, JustRead DEF ClockTypes
  <1>5. /\ quiet \in Nat /\ quiet' \in Nat /\ c \in Nat /\ o \in Nat /\ ticks \in {0, 1}
        /\ THRESHOLD \in Nat /\ T!Cycles \in Nat
        /\ THRESHOLD + o < T!Cycles /\ 0 \in Lost /\ 2 <= THRESHOLD
    BY <1>0, <1>2, ClockConstants DEF ClockTypes, Lost
  <1>6. T!CountedWell' /\ RunOfF' /\ T!CallibratedWell'
    BY <1>0, <1>1 DEF T!CountedWell, RunOfF, T!CallibratedWell
  <1>7. Sampled'
    BY <1>0, <1>1, SampledSame
  <1>8. CASE long
    <2>1. pc' = "cal_ticks" /\ newt' = T!get_counter
      BY <1>1, <1>8
    <2>2. ClockTypes'
      BY <1>0, <1>1, <1>2, <1>4, <2>1 DEF ClockTypes, ClockPlaces
    <2>3. Recent'
      BY <1>0, <1>1, <1>2, <1>5, <2>1 DEF Recent
    <2>4. Since(tsc', cyc', newt') = 1
      BY <1>0, <1>1, <1>2, <1>4, <1>5, <2>1, Ahead DEF ClockTypes
    <2>5. T!elapsed(newt)' = c + o
      BY <1>1, <1>4, <2>1 DEF T!elapsed
    <2>6. GapRead'
      <3>1. /\ T!elapsed(newt)' = c + o /\ Since(tsc', cyc', newt') = 1 + 0
            /\ o = 0 /\ 0 = 0 => ticks' = 0 \/ quiet' <= c + 2
            /\ o # 0 => 0 = 0 /\ quiet' <= c + 1
            /\ 0 # 0 => quiet' = 0
        BY <1>1, <1>2, <1>3, <1>5, <2>4, <2>5
      <3> QED
        BY <1>5, <3>1 DEF GapRead
    <2>7. Gap'
      BY <2>1 DEF Gap
    <2> QED
      BY <1>6, <1>7, <2>2, <2>3, <2>6, <2>7 DEF ClockInv
  <1>9. CASE ~long
    <2>1. pc' = "cal_new" /\ newt' = newt
      BY <1>1, <1>9
    <2>2. c + 1 \in 1 .. THRESHOLD /\ c + o + 1 < T!Cycles
      BY <1>4, <1>5, <1>9
    <2>3. ClockTypes'
      BY <1>0, <1>1, <1>2, <2>1 DEF ClockTypes, ClockPlaces
    <2>4. Since(tsc', cyc', oldt') = (c + 1) + o
      BY <1>0, <1>1, <1>2, <1>3, <1>5, <2>2, Ahead DEF ClockTypes
    <2>5. Recent'
      BY <1>1, <1>2, <1>3, <1>5, <2>1, <2>2 DEF Recent
    <2>6. Gap'
      <3>1. /\ Since(tsc', cyc', oldt') = (c + 1) + o
            /\ o = 0 => ticks' = 0 \/ quiet' <= (c + 1) + 1
            /\ o # 0 => quiet' <= c + 1
        BY <1>1, <1>2, <1>3, <1>5, <2>4
      <3> QED
        BY <2>2, <3>1 DEF Gap
    <2>7. GapRead'
      BY <2>1 DEF GapRead
    <2> QED
      BY <1>6, <1>7, <2>3, <2>5, <2>6, <2>7 DEF ClockInv
  <1> QED
    BY <1>8, <1>9

\* What is recorded is a gap with one tick in it that took longer than the
\* program's own steps, so with the tick's cycles (clock.c:148-168).
LEMMA CalTicksKeeps == ClockInv /\ T!CalTicks => ClockInv'
  <1> SUFFICES ASSUME ClockInv, T!CalTicks PROVE ClockInv'
    OBVIOUS
  <1>0. ClockTypes /\ Recent /\ Sampled /\ T!CallibratedWell /\ 1 \in Nat
    BY DEF ClockInv
  <1>1. /\ T!Pass(1) /\ pc = "cal_ticks" /\ pc' \in {"cal_new", "times"}
        /\ ticks' = 0 /\ oldt' = newt /\ newt' = 0 /\ cyc' = cyc
        /\ cache_buf' = cache_buf /\ time' = time /\ values' = values
        /\ samples' = samples /\ own' = own
    BY DEF T!CalTicks, T!Step, T!sampler
  <1>2. /\ tsc' \in 0 .. T!Cycles - 1 /\ quiet' \in 0 .. Period
        /\ tsc' = (tsc + 1) % T!Cycles /\ quiet' <= quiet + 1
    BY <1>0, <1>1, Passes
  <1>3. PICK c \in 1 .. THRESHOLD, o \in Lost, p \in Lost :
          /\ T!elapsed(newt) = c + o /\ Since(tsc, cyc, newt) = 1 + p
          /\ o = 0 /\ p = 0 => ticks = 0 \/ quiet <= c + 2
          /\ o # 0 => p = 0 /\ quiet <= c + 1
          /\ p # 0 => quiet = 0
    BY <1>1 DEF ClockInv, GapRead
  <1>4. /\ quiet \in Nat /\ quiet' \in Nat /\ c \in Nat /\ o \in Nat /\ p \in Nat
        /\ ticks \in {0, 1} /\ THRESHOLD \in Nat /\ T!Cycles \in Nat /\ RECORDTHRESH \in Nat
        /\ THRESHOLD <= RECORDTHRESH
        /\ THRESHOLD + o < T!Cycles /\ THRESHOLD + p < T!Cycles /\ 0 \in Lost /\ 2 <= THRESHOLD
    BY <1>0, <1>2, <1>3, ClockConstants DEF ClockTypes, Lost
  <1>5. \/ cyc_per_tick' = cyc_per_tick
        \/ o \in Overheads /\ cyc_per_tick' = c + o
    <2>1. CASE ticks = 1
      <3>1. T!cpt = c + o
        BY <1>3, <1>4, <2>1 DEF T!cpt
      <3>2. cyc_per_tick' = IF T!recorded THEN T!cpt ELSE cyc_per_tick
        BY <2>1 DEF T!CalTicks
      <3>3. T!recorded => c + o > RECORDTHRESH
        BY <3>1 DEF T!recorded
      <3>4. o = 0 => ~(c + o > RECORDTHRESH)
        BY <1>4
      <3> QED
        BY <1>3, <3>1, <3>2, <3>3, <3>4 DEF Lost
    <2>2. CASE ticks = 0
      BY <2>2 DEF T!CalTicks
    <2> QED
      BY <1>4, <2>1, <2>2
  <1>6. cyc_per_tick' \in 0 .. T!Cycles - 1
    BY <1>0, <1>4, <1>5 DEF ClockTypes
  <1>7. T!CallibratedWell'
    <2>1. o \in Overheads => c + o \in o .. o + THRESHOLD + 1
      BY <1>4
    <2>2. CASE cyc_per_tick' = cyc_per_tick
      BY <1>0, <2>2 DEF T!CallibratedWell
    <2>3. CASE o \in Overheads /\ cyc_per_tick' = c + o
      BY <2>1, <2>3 DEF T!CallibratedWell
    <2> QED
      BY <1>5, <2>2, <2>3
  <1>8. ClockTypes'
    <2>1. 0 \in 0 .. T!Cycles - 1
      BY ClockConstants
    <2> QED
      BY <1>0, <1>1, <1>2, <1>6, <2>1 DEF ClockTypes, ClockPlaces
  <1>9. Since(tsc', cyc', oldt') = 2 + p
    <2>1. Since(tsc, cyc, newt) + 1 < T!Cycles
      BY <1>3, <1>4
    <2>2. Since(tsc', cyc', oldt') = Since(tsc, cyc, newt) + 1
      BY <1>0, <1>1, <1>2, <2>1, Ahead DEF ClockTypes
    <2> QED
      BY <1>3, <1>4, <2>2
  <1>10. Gap'
    <2>1. /\ 2 \in 1 .. THRESHOLD
          /\ Since(tsc', cyc', oldt') = 2 + p
          /\ p = 0 => ticks' = 0 \/ quiet' <= 2 + 1
          /\ p # 0 => quiet' <= 2
      BY <1>1, <1>2, <1>3, <1>4, <1>9
    <2> QED
      BY <2>1 DEF Gap
  <1>11. Recent' /\ GapRead' /\ RunOfF' /\ T!CountedWell'
    BY <1>1 DEF Recent, GapRead, RunOfF, T!CountedWell
  <1>12. Sampled'
    BY <1>0, <1>1, SampledSame
  <1> QED
    BY <1>7, <1>8, <1>10, <1>11, <1>12 DEF ClockInv

\* Between runs (fcyc.c:50-62, 105-124; clock.c:172-179).
LEMMA BetweenRuns ==
  ClockInv /\ (T!init_sampler \/ T!clear \/ T!StartTicks) => ClockInv'
  <1> SUFFICES ASSUME ClockInv, T!init_sampler \/ T!clear \/ T!StartTicks
               PROVE  ClockInv'
    OBVIOUS
  <1>0. ClockTypes /\ Recent /\ Sampled /\ T!CallibratedWell /\ 1 \in Nat
    BY DEF ClockInv
  <1>1. quiet \in Nat /\ own \in Nat /\ 0 \in 0 .. T!Cycles - 1
    <2>1. own \in Costs \cup {0} /\ Costs \subseteq Nat /\ quiet \in 0 .. Period
      BY <1>0, ClockConstants DEF ClockTypes
    <2> QED
      BY <2>1, ClockConstants
  <1>2. CASE T!init_sampler
    <2>1. /\ pc = "idle" /\ pc' = "clear" /\ values' = <<>> /\ samples' = <<>>
          /\ tsc' = tsc /\ quiet' = quiet /\ ticks' = ticks /\ cyc' = cyc
          /\ oldt' = oldt /\ newt' = newt /\ cyc_per_tick' = cyc_per_tick
          /\ cache_buf' = cache_buf /\ time' = time /\ own' = own
      BY <1>2 DEF T!init_sampler, T!clock
    <2>2. ClockTypes' /\ Recent'
      BY <1>0, <2>1 DEF ClockTypes, ClockPlaces, Recent
    <2>3. Sampled'
      BY <2>1, KeptEmpty, KConstants DEF Sampled
    <2> QED
      BY <1>0, <2>1, <2>2, <2>3, ElsewhereKeeps DEF ClockInv, Elsewhere
  <1>3. CASE T!clear
    <2>1. /\ T!Pass(1) /\ pc = "clear" /\ pc' \in {"callibrate", "times", "exit"}
          /\ cache_buf' \in BOOLEAN /\ ticks' = ticks /\ cyc' = cyc
          /\ oldt' = oldt /\ newt' = newt /\ cyc_per_tick' = cyc_per_tick
          /\ time' = time /\ values' = values /\ samples' = samples /\ own' = own
      BY <1>0, <1>3 DEF T!clear, T!Step, T!clock, T!sampler, ClockTypes
    <2>2. tsc' \in 0 .. T!Cycles - 1 /\ quiet' \in 0 .. Period /\ quiet' <= quiet + 1
      BY <1>0, <2>1, Passes
    <2>3. ClockTypes'
      BY <1>0, <2>1, <2>2 DEF ClockTypes, ClockPlaces
    <2>4. Recent'
      BY <1>0, <1>1, <2>1, <2>2, ClockConstants DEF Recent
    <2>5. Sampled'
      BY <1>0, <2>1 DEF Sampled
    <2> QED
      BY <1>0, <2>1, <2>3, <2>4, <2>5, ElsewhereKeeps DEF ClockInv, Elsewhere
  <1>4. CASE T!StartTicks
    <2>1. /\ T!Pass(1) /\ pc = "times" /\ pc' = "counter" /\ ticks' = 0 /\ cyc' = cyc
          /\ oldt' = 0 /\ newt' = 0 /\ cyc_per_tick' = cyc_per_tick
          /\ cache_buf' = cache_buf /\ time' = time /\ values' = values
          /\ samples' = samples /\ own' = own
      BY <1>4 DEF T!StartTicks, T!Step, T!sampler
    <2>2. tsc' \in 0 .. T!Cycles - 1 /\ quiet' \in 0 .. Period
      BY <1>0, <2>1, Passes
    <2>3. ClockTypes' /\ Recent'
      BY <1>0, <1>1, <2>1, <2>2 DEF ClockTypes, ClockPlaces, Recent
    <2>4. Sampled'
      BY <1>0, <2>1, SampledSame
    <2> QED
      BY <1>0, <2>1, <2>3, <2>4, ElsewhereKeeps DEF ClockInv, Elsewhere
  <1> QED
    BY <1>2, <1>3, <1>4

\* The counter starts, f runs, the counter is read (clock.c:38-62, 183-185).
LEMMA RunKeeps ==
  ClockInv /\ (T!StartCounter \/ T!f \/ T!GetCounter) => ClockInv'
  <1> SUFFICES ASSUME ClockInv, T!StartCounter \/ T!f \/ T!GetCounter
               PROVE  ClockInv'
    OBVIOUS
  <1>0. ClockTypes /\ Recent /\ Sampled /\ T!CallibratedWell /\ RunOfF /\ 1 \in Nat
    BY DEF ClockInv
  <1>1. quiet \in Nat /\ own \in Nat /\ 0 \in 0 .. T!Cycles - 1 /\ 0 \in Lost
    <2>1. own \in Costs \cup {0} /\ Costs \subseteq Nat /\ quiet \in 0 .. Period
      BY <1>0, ClockConstants DEF ClockTypes
    <2> QED
      BY <2>1, ClockConstants DEF Lost
  <1>2. /\ ticks' = ticks /\ oldt' = oldt /\ newt' = newt
        /\ cyc_per_tick' = cyc_per_tick /\ cache_buf' = cache_buf
        /\ values' = values /\ samples' = samples
    BY DEF T!StartCounter, T!f, T!GetCounter, T!clock, T!sampler
  <1>3. CASE T!StartCounter
    <2>1. /\ T!Pass(1) /\ pc = "counter" /\ pc' = "f" /\ cyc' = T!access_counter
          /\ time' = time /\ own' = own
      BY <1>3 DEF T!StartCounter, T!Step, T!sampler
    <2>2. /\ tsc' \in 0 .. T!Cycles - 1 /\ quiet' \in 0 .. Period
          /\ tsc' = (tsc + 1) % T!Cycles /\ quiet' <= quiet + 1
      BY <1>0, <2>1, Passes
    <2>3. cyc' \in Reading /\ Since(tsc, cyc', 0) = 0
      BY <1>0, <2>1, JustStarted DEF ClockTypes
    <2>4. ClockTypes' /\ Recent'
      BY <1>0, <1>1, <1>2, <2>1, <2>2, <2>3 DEF ClockTypes, ClockPlaces, Recent
    <2>5. Since(tsc', cyc', 0) = 1 + 0
      <3>1. 0 + 1 < T!Cycles
        BY <1>1, ClockConstants
      <3> QED
        BY <1>0, <1>1, <2>2, <2>3, <3>1, Ahead DEF ClockTypes
    <2>6. RunOfF'
      BY <1>1, <2>1, <2>5 DEF RunOfF
    <2>7. Sampled'
      BY <1>0, <1>2, <2>1, SampledSame
    <2>8. Gap' /\ GapRead' /\ T!CountedWell' /\ T!CallibratedWell'
      BY <1>0, <1>2, <2>1 DEF Gap, GapRead, T!CountedWell, T!CallibratedWell
    <2> QED
      BY <2>4, <2>6, <2>7, <2>8 DEF ClockInv
  <1>4. CASE T!f
    <2>1. PICK c \in Costs : own' = c /\ T!Pass(c)
      BY <1>4 DEF T!f
    <2>2. pc = "f" /\ pc' = "get" /\ cyc' = cyc /\ time' = time
      BY <1>4 DEF T!f, T!clock
    <2>3. c \in Nat
      BY <2>1, ClockConstants
    <2>4. /\ tsc' \in 0 .. T!Cycles - 1 /\ quiet' \in 0 .. Period
          /\ tsc' = (tsc + c) % T!Cycles /\ quiet' <= quiet + c
      BY <1>0, <2>1, <2>3, Passes
    <2>5. ClockTypes'
      BY <1>0, <1>2, <2>1, <2>2, <2>4 DEF ClockTypes, ClockPlaces
    <2>6. Recent'
      BY <1>0, <1>1, <1>2, <2>1, <2>2, <2>3, <2>4, ClockConstants DEF Recent
    <2>7. PICK o \in Lost : Since(tsc, cyc, 0) = 1 + o /\ (o # 0 => quiet = 0)
      BY <1>0, <2>2 DEF RunOfF
    <2>8. o \in Nat /\ 1 + o + c < T!Cycles
      BY <2>1, <2>3, <2>7, ClockConstants
    <2>9. Since(tsc', cyc', 0) = 1 + own' + o
      <3>1. Since(tsc', cyc', 0) = (1 + o) + c
        BY <1>0, <1>1, <2>2, <2>3, <2>4, <2>7, <2>8, Ahead DEF ClockTypes
      <3> QED
        BY <2>1, <2>3, <2>8, <3>1
    <2>10. RunOfF'
      BY <1>1, <2>1, <2>2, <2>3, <2>4, <2>7, <2>9, ClockConstants DEF RunOfF
    <2>11. Sampled'
      BY <1>0, <1>2, <2>2, SampledSame
    <2>12. Gap' /\ GapRead' /\ T!CountedWell' /\ T!CallibratedWell'
      BY <1>0, <1>2, <2>2 DEF Gap, GapRead, T!CountedWell, T!CallibratedWell
    <2> QED
      BY <2>5, <2>6, <2>10, <2>11, <2>12 DEF ClockInv
  <1>5. CASE T!GetCounter
    <2>1. /\ T!Pass(1) /\ pc = "get" /\ pc' = "get_ticks" /\ cyc' = cyc
          /\ time' = T!get_counter /\ own' = own
      BY <1>5 DEF T!GetCounter, T!Step, T!clock
    <2>2. tsc' \in 0 .. T!Cycles - 1 /\ quiet' \in 0 .. Period /\ quiet' <= quiet + 1
      BY <1>0, <2>1, Passes
    <2>3. time' \in 0 .. T!Cycles - 1 /\ time' = Since(tsc, cyc, 0)
      BY <1>0, <2>1, CounterReads DEF ClockTypes
    <2>4. ClockTypes'
      BY <1>0, <1>2, <2>1, <2>2, <2>3 DEF ClockTypes, ClockPlaces
    <2>5. Recent'
      BY <1>0, <1>1, <1>2, <2>1, <2>2, ClockConstants DEF Recent
    <2>6. PICK o \in Lost : Since(tsc, cyc, 0) = 1 + own + o
      BY <1>0, <2>1 DEF RunOfF
    <2>7. T!CountedWell'
      <3>1. o \in Nat
        BY ClockConstants
      <3>2. time' = own' + 1 + o
        BY <1>1, <2>1, <2>3, <2>6, <3>1
      <3> QED
        BY <3>2 DEF T!CountedWell, Lost
    <2>8. Sampled'
      BY <1>0, <1>2, <2>1, SampledSame
    <2>9. Gap' /\ GapRead' /\ RunOfF' /\ T!CallibratedWell'
      BY <1>0, <1>2, <2>1 DEF Gap, GapRead, RunOfF, T!CallibratedWell
    <2> QED
      BY <2>4, <2>5, <2>7, <2>8, <2>9 DEF ClockInv
  <1> QED
    BY <1>3, <1>4, <1>5

\* A sample is taken, and sampling goes on or ends (fcyc.c:137-143).
LEMMA GetTicksKeeps == ClockInv /\ T!GetTicks => ClockInv'
  <1> SUFFICES ASSUME ClockInv, T!GetTicks PROVE ClockInv'
    OBVIOUS
  <1>0. ClockTypes /\ Recent /\ Sampled /\ T!CallibratedWell /\ 1 \in Nat
    BY DEF ClockInv
  <1> DEFINE val == time - ticks * cyc_per_tick
  <1>1. /\ T!add_sample(val) /\ T!Pass(1) /\ pc = "get_ticks"
        /\ pc' = (IF T!again THEN "clear" ELSE "idle") /\ time' = 0
        /\ ticks' = ticks /\ cyc' = cyc /\ oldt' = oldt /\ newt' = newt
        /\ cyc_per_tick' = cyc_per_tick /\ cache_buf' = cache_buf /\ own' = own
    BY DEF T!GetTicks, T!Step, T!clock
  <1>2. tsc' \in 0 .. T!Cycles - 1 /\ quiet' \in 0 .. Period /\ quiet' <= quiet + 1
    BY <1>0, <1>1, Passes
  <1>3. val \in Int
    <2>1. time \in Int /\ ticks \in {0, 1} /\ cyc_per_tick \in Int
      BY <1>0, ClockConstants DEF ClockTypes
    <2> QED
      BY <2>1
  <1> HIDE DEF val
  <1>4. quiet \in Nat /\ own \in Nat /\ 0 \in 0 .. T!Cycles - 1
    <2>1. own \in Costs \cup {0} /\ Costs \subseteq Nat /\ quiet \in 0 .. Period
      BY <1>0, ClockConstants DEF ClockTypes
    <2> QED
      BY <2>1, ClockConstants
  <1>5. ClockTypes'
    BY <1>0, <1>1, <1>2, <1>4 DEF ClockTypes, ClockPlaces
  <1>6. Recent'
    BY <1>0, <1>1, <1>2, <1>4, ClockConstants DEF Recent
  <1>7. Kept(values', samples') /\ Len(samples') = Len(samples) + 1
    BY <1>0, <1>1, <1>3, SampleAdded DEF Sampled
  <1>8. Sampled'
    <2>1. Len(samples) \in Nat /\ Len(samples) < maxsamples
      BY <1>0, <1>1 DEF Sampled, Kept
    <2>2. T!again => Len(samples') < maxsamples
      BY DEF T!again
    <2>3. ~T!again => \/ Len(samples') = maxsamples
                      \/ /\ Len(samples') >= kbest
                         /\ (100 + percent) * values'[1] >= 100 * values'[kbest]
      BY <1>7, <2>1, KConstants DEF T!again, T!has_converged
    <2> QED
      BY <1>1, <1>7, <2>1, <2>2, <2>3, KConstants DEF Sampled
  <1> QED
    BY <1>0, <1>1, <1>5, <1>6, <1>8, ElsewhereKeeps DEF ClockInv, Elsewhere

LEMMA ClockStep == ClockInv /\ [T!Next]_clock_vars => ClockInv'
  <1> SUFFICES ASSUME ClockInv, [T!Next]_clock_vars PROVE ClockInv'
    OBVIOUS
  <1>1. ASSUME UNCHANGED clock_vars PROVE ClockInv'
    BY <1>1 DEF clock_vars, ClockInv, ClockTypes, Recent, Gap, GapRead, RunOfF, Sampled,
                T!CountedWell, T!CallibratedWell, T!elapsed
  <1>2. T!Done => UNCHANGED clock_vars
    BY DEF T!Done, T!vars, clock_vars
  <1> QED
    BY <1>1, <1>2, InterruptKeeps, CalBegins, CalNewKeeps, CalTicksKeeps, BetweenRuns,
       RunKeeps, GetTicksKeeps DEF T!Next, T!Main, T!callibrate

LEMMA ClockInvTrue == ClockInv => Measured
  <1> SUFFICES ASSUME ClockInv PROVE Measured
    OBVIOUS
  <1>1. /\ ClockTypes /\ Kept(values, samples) /\ Len(samples) <= maxsamples
        /\ T!CountedWell /\ T!CallibratedWell
    BY DEF ClockInv, Sampled
  <1>2. T!TypeOK
    <2>1. Len(values) <= kbest
      <3>1. /\ Len(values) = IF Len(samples) < kbest THEN Len(samples) ELSE kbest
            /\ Len(samples) \in Nat
        BY <1>1 DEF Kept
      <3> QED
        BY <3>1, KConstants
    <2> QED
      BY <1>1, <2>1 DEF T!TypeOK, ClockTypes
  <1>3. T!AllBelow(values)
    BY <1>1 DEF Kept
  <1>4. ASSUME pc = "idle", samples # <<>>
        PROVE  Len(samples) = maxsamples \/ T!Cardinality(T!Near(samples)) >= kbest
    <2>1. \/ Len(samples) = maxsamples
          \/ /\ Len(samples) >= kbest
             /\ (100 + percent) * values[1] >= 100 * values[kbest]
      BY <1>4 DEF ClockInv, Sampled
    <2>2. T!Cardinality(T!Near(samples)) = Cardinality(T!Near(samples))
      BY DEF T!Cardinality, Cardinality
    <2> QED
      BY <1>1, <2>1, <2>2, AgreedNear
  <1>5. T!KBest
    BY <1>1, <1>3, <1>4, KeptBest DEF T!KBest
  <1> QED
    BY <1>1, <1>2, <1>5 DEF Measured

----------------------------------------------------------------------------
(* The parts together: each invariant is kept by its part's steps, and the *)
(* other parts' steps leave its variables alone.                           *)

all_vars == <<part, vars, session_vars, clock_vars, size_vars>>

LEMMA PartsStarts ==
  PartsInit => IInv /\ ListInv /\ SessionInv /\ SizesInv /\ ClockInv
  BY InitIInv, InitListInv, InitSession, InitSizes, InitClock DEF PartsInit

LEMMA PartsSteps ==
  [PartsNext]_all_vars =>
      /\ [Next]_vars /\ [S!Next]_session_vars
      /\ [Z!Next]_size_vars /\ [T!Next]_clock_vars
  BY DEF PartsNext, all_vars

LEMMA AlwaysParts ==
  PartsSpec => [](IInv /\ ListInv /\ SessionInv /\ SizesInv /\ ClockInv)
  <1> DEFINE Inv == IInv /\ ListInv /\ SessionInv /\ SizesInv /\ ClockInv
  <1>1. Inv /\ [PartsNext]_all_vars => Inv'
    BY PartsSteps, Step, ListStep, SessionStep, SizesStep, ClockStep
  <1> QED
    BY <1>1, PartsStarts, PTL DEF PartsSpec, all_vars

\* For every allocator, trace and mode that checks data, an overlap that ever
\* was is reported once the trace has freed what it held (mdriver.c:562-564).
THEOREM OverlapsCaught == PartsSpec => []CaughtByData
  <1>1. IInv => CaughtByData
    BY DEF IInv, Struck, Reported, CaughtByData
  <1> QED
    BY <1>1, AlwaysParts, PTL

\* For every allocator and trace the range list is the payloads that are held,
\* and payloads overlap only where add_range looks at their ends alone and one
\* encloses the other (mdriver.c:553-606).
THEOREM ListStaysTrue == PartsSpec => []ListTrue
  BY ListInvTrue, AlwaysParts, PTL

\* For any number of traces, errors and a signal at any step, the allocator is
\* not called again after the jump, and no more than one trace's records are
\* left behind (mdriver.c:222-262).
THEOREM NeverCalledAgain == PartsSpec => []NeverReentered
  BY SessionInvTrue, AlwaysParts, PTL

\* For any number of traces and whatever happens in them, a session that gives
\* points ran every trace to its end with nothing to report, and the table's
\* sums are the score's (mdriver.c:434-506, 1210-1267).
THEOREM PointsAreEarned == PartsSpec => []PointsMeanAllWell
  BY SessionInvTrue, AlwaysParts, PTL

\* For every pair of widths and every heap that fits an int, a request of up to
\* 16 bytes below the width of a tag is granted, with enough, exactly when the
\* heap has room for it, and else gets NULL from mm_malloc and the crash of
\* mm_calloc on that NULL (mm.c:176-210, 478-493).
THEOREM SizesAnswered == PartsSpec => []RightBelowWidth
  <1>1. SizesInv => RightBelowWidth
    BY DEF SizesInv
  <1> QED
    BY <1>1, AlwaysParts, PTL

\* For every K, bound of samples and epsilon, and every word, timer and function
\* no slower than the timer: fcyc keeps the K smallest samples and ends when
\* they agree, each counted right across a wrap of the counter's low word, and
\* what callibrate records is an interrupt's cost (fcyc.c:67-168, clock.c:44-168).
THEOREM MeasuredWell == PartsSpec => []Measured
  BY ClockInvTrue, AlwaysParts, PTL
=============================================================================
