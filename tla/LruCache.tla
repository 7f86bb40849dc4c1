------------------------------ MODULE LruCache ------------------------------
(***************************************************************************)
(* What a set-associative cache with least-recently-used replacement does  *)
(* and what a simulator of it must count, with no lines, valid bits or     *)
(* time stamps: each set is the sequence of the tags it holds, the most    *)
(* recently used one first.                                                *)
(***************************************************************************)
EXTENDS Integers, Sequences

CONSTANTS Set,    \* the sets of the cache
          lines   \* how many tags a set holds

VARIABLES stack, hits, misses, evictions

(* A set q holds t.                                                        *)
Holds(q, t) == \E k \in 1 .. Len(q) : q[k] = t

Init ==
  /\ stack = [s \in Set |-> <<>>]
  /\ hits = 0 /\ misses = 0 /\ evictions = 0

(* The place in q that a use of t vacates: its own, the next one, or, in a *)
(* set that is full, the last.                                             *)
Vacated(q, t) ==
  IF Holds(q, t) THEN {p \in 1 .. Len(q) : q[p] = t}
  ELSE {IF Len(q) < lines THEN Len(q) + 1 ELSE lines}

(* t moves, or comes, to the front, and what is in front of the vacated    *)
(* place p moves back by one.                                              *)
ToFront(q, t, p) ==
  [k \in 1 .. (IF p > Len(q) THEN p ELSE Len(q)) |->
     IF k = 1 THEN t ELSE IF k <= p THEN q[k - 1] ELSE q[k]]

(* An access that reads or writes once, or (twice) reads and then writes.  *)
Access(s, t, twice) ==
  LET q == stack[s]
  IN  /\ \E p \in Vacated(q, t) : stack' = [stack EXCEPT ![s] = ToFront(q, t, p)]
      /\ hits' = hits + (IF Holds(q, t) THEN 1 ELSE 0) + (IF twice THEN 1 ELSE 0)
      /\ misses' = misses + (IF Holds(q, t) THEN 0 ELSE 1)
      /\ evictions' = evictions
           + (IF ~Holds(q, t) /\ Len(q) = lines THEN 1 ELSE 0)
=============================================================================
