----------------------------- MODULE CsimProps -----------------------------
(***************************************************************************)
(* What must hold of csim.c: the type invariant, lines that never alias,   *)
(* and that time stamps in lines amount to least-recently-used stacks.     *)
(***************************************************************************)
EXTENDS Csim, FiniteSets

Tags == {block_tag(a) : a \in Address}

(* Every variable has its type; an event adds at most two to the hits, one *)
(* to the misses, and no more evictions than misses.                       *)
TypeOK ==
  /\ cache \in [SetIndex ->
                  [Line -> [valid : BOOLEAN, tag : Tags \union {0}, time_stamp : 0 .. num_events]]]
  /\ i \in 0 .. num_events
  /\ hits \in 0 .. (2 * i) /\ misses \in 0 .. i /\ evictions \in 0 .. misses

(* No set holds a block twice, no two lines of it were last used by the    *)
(* same event, and no line was used by an event still to come: in_cache    *)
(* and find_LRU have one answer each, though their loops take the first.   *)
NoAlias ==
  \A s \in SetIndex, j, k \in Line :
    /\ cache[s][j].valid /\ cache[s][k].valid /\ j # k
         => /\ cache[s][j].tag # cache[s][k].tag
            /\ cache[s][j].time_stamp # cache[s][k].time_stamp
    /\ cache[s][j].valid => cache[s][j].time_stamp < i

(* How recently line j was used among the lines U of set s: 1 is last.     *)
rank(s, U, j) ==
  Cardinality({k \in U : cache[s][k].time_stamp >= cache[s][j].time_stamp})

(* The tags of set s, the most recently used one first.                    *)
recency(s) ==
  LET used == {j \in Line : cache[s][j].valid}
  IN  [n \in 1 .. Cardinality(used) |->
         cache[s][CHOOSE j \in used : rank(s, used, j) = n].tag]

LRU == INSTANCE LruCache WITH Set <- SetIndex,
                              stack <- [s \in SetIndex |-> recency(s)]

(* simulate_cache counts what an LRU cache does: each event is the access  *)
(* of its own block, which comes to the front of its set's stack and       *)
(* counts as a hit exactly when the stack held it, as an eviction exactly  *)
(* when a full stack did not.                                              *)
LruSpec ==
  /\ LRU!Init
  /\ [][\A type \in Type, a \in Address :
          Event(type, a) => LRU!Access(block_set(a), block_tag(a), type = "M")]_vars
=============================================================================
