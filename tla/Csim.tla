-------------------------------- MODULE Csim --------------------------------
(***************************************************************************)
(* p3cache/csim.c: the simulator that counts the hits, misses and          *)
(* evictions of a trace of memory accesses on a cache of 2^s_bits sets of  *)
(* `lines' lines with 2^block_bits bytes each.                             *)
(*                                                                         *)
(* The simulator is one loop over the events of the trace; the state here  *)
(* is that of simulate_cache before event i, and a step is an iteration.   *)
(* The trace is open: any access may come next.                            *)
(***************************************************************************)
EXTENDS Integers

CONSTANTS
  s_bits, block_bits, lines,   \* -s, -b and -E
  Width,                       \* bits of an address (64 in the build)
  Address,                     \* the addresses a trace accesses
  num_events                   \* length of a trace

(* With s_bits = 0, which_block shifts by Width, which C leaves undefined: *)
(* there are at least two sets.                                            *)
ASSUME CsimAssumption ==
  /\ s_bits \in Nat \ {0} /\ block_bits \in Nat /\ s_bits + block_bits <= Width
  /\ lines \in Nat \ {0}
  /\ Width \in Nat /\ Address \subseteq 0 .. (2 ^ Width - 1)
  /\ num_events \in Nat

VARIABLES
  cache,      \* cache[set][line]
  hits, misses, evictions,
  i           \* the index of the next event

vars == <<cache, hits, misses, evictions, i>>

SetIndex == 0 .. (2 ^ s_bits - 1)
Line == 0 .. (lines - 1)

shift_left(x, n) == (x * 2 ^ n) % 2 ^ Width
shift_right(x, n) == x \div 2 ^ n

t_bits == Width - (block_bits + s_bits)

block_tag(a) == shift_right(a, s_bits + block_bits)
block_set(a) == shift_right(shift_left(a, t_bits), t_bits + block_bits)

create_cache ==
  [s \in SetIndex |->
     [j \in Line |-> [valid |-> FALSE, tag |-> 0, time_stamp |-> 0]]]

(* The first line of a set of lines, as the three searches find it.        *)
first(L) == CHOOSE j \in L : \A k \in L : j <= k

in_cache(s, t) == {j \in Line : cache[s][j].valid /\ cache[s][j].tag = t}
invalid_line(s) == {j \in Line : ~cache[s][j].valid}

find_LRU(s) ==
  {j \in Line : \A k \in Line : cache[s][j].time_stamp <= cache[s][k].time_stamp}

----------------------------------------------------------------------------
Init ==
  /\ cache = create_cache
  /\ hits = 0 /\ misses = 0 /\ evictions = 0
  /\ i = 0

(* The event: a load "L", a store "S" or a load and then a store "M".      *)
Type == {"L", "S", "M"}
(* Mutant: a modify counts its two accesses on top of its first.           *)
second_access_both(type) == IF type = "M" THEN 2 ELSE 0
second_access(type) == IF type = "M" THEN 1 ELSE 0

load(s, j, t) ==
  cache' = [cache EXCEPT ![s][j] = [valid |-> TRUE, tag |-> t, time_stamp |-> i]]

(* Mutant: a hit does not count as a use, which makes the cache a FIFO.    *)
hit_fifo(type, s, t) ==
  /\ in_cache(s, t) # {}
  /\ hits' = hits + 1 + second_access(type)
  /\ UNCHANGED <<cache, misses, evictions>>

hit(type, s, t) ==
  /\ in_cache(s, t) # {}
  /\ hits' = hits + 1 + second_access(type)
  /\ cache' = [cache EXCEPT ![s][first(in_cache(s, t))].time_stamp = i]
  /\ UNCHANGED <<misses, evictions>>

fill(type, s, t) ==
  /\ in_cache(s, t) = {} /\ invalid_line(s) # {}
  /\ misses' = misses + 1 /\ hits' = hits + second_access(type)
  /\ load(s, first(invalid_line(s)), t)
  /\ UNCHANGED evictions

(* Mutant: a line that holds the block already is not looked for.          *)
evict_blindly(type, s, t) ==
  /\ invalid_line(s) = {}
  /\ misses' = misses + 1 /\ evictions' = evictions + 1
  /\ hits' = hits + second_access(type)
  /\ load(s, first(find_LRU(s)), t)

evict(type, s, t) ==
  /\ in_cache(s, t) = {} /\ invalid_line(s) = {}
  /\ misses' = misses + 1 /\ evictions' = evictions + 1
  /\ hits' = hits + second_access(type)
  /\ load(s, first(find_LRU(s)), t)

Event(type, a) ==
  LET s == block_set(a)
      t == block_tag(a)
  IN  /\ i < num_events /\ i' = i + 1
      /\ hit(type, s, t) \/ fill(type, s, t) \/ evict(type, s, t)

Next == \E type \in Type, a \in Address : Event(type, a)

Spec == Init /\ [][Next]_vars
=============================================================================
