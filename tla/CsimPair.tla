------------------------------ MODULE CsimPair ------------------------------
(***************************************************************************)
(* Two runs of csim.c over one trace, with the same sets and block size    *)
(* and a different number of lines per set (-E): the cache of Csim and,    *)
(* beside it, a smaller one.                                               *)
(***************************************************************************)
EXTENDS CsimProps

CONSTANT few   \* the lines of the smaller cache

ASSUME PairAssumption == few \in Nat \ {0} /\ few <= lines

VARIABLES small, small_hits, small_misses, small_evictions

Small == INSTANCE Csim WITH lines <- few, cache <- small,
           hits <- small_hits, misses <- small_misses, evictions <- small_evictions

PairInit == Init /\ Small!Init

PairNext == \E type \in Type, a \in Address :
              Event(type, a) /\ Small!Event(type, a)

PairSpec == PairInit /\ [][PairNext]_<<vars, Small!vars>>

resident(c, L, s) == {c[s][j].tag : j \in {k \in L : c[s][k].valid}}

(* LRU is a stack policy: on any trace the cache with more lines holds all *)
(* the cache with fewer lines holds, so find_LRU never throws out of the   *)
(* larger cache what the smaller one keeps, and its counts are no worse.   *)
Inclusion ==
  /\ \A s \in SetIndex :
       resident(small, Small!Line, s) \subseteq resident(cache, Line, s)
  /\ misses <= small_misses /\ evictions <= small_evictions
  /\ small_hits + small_misses = hits + misses
=============================================================================
