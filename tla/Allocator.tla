----------------------------- MODULE Allocator -----------------------------
(***************************************************************************)
(* What a malloc package promises its client, whatever its data            *)
(* structures: every id of a trace that holds a block holds a region of    *)
(* the heap, aligned, inside the heap and apart from every other held      *)
(* region, whose contents only the client changes.                         *)
(*                                                                         *)
(* A held region is a record [lo, words, data]: the address of its first   *)
(* word, its length, and the words it contains, a function of the offset.  *)
(***************************************************************************)
EXTENDS Integers, TLAPS

CONSTANTS Index,            \* the ids of a trace
          HeapLo, HeapHi,   \* the first and the last word of the heap
          Align             \* alignment of a payload, in words

VARIABLE regions            \* id -> the region it holds, or Nothing

Nothing == [lo |-> 0, words |-> 0, data |-> <<>>]
Holds(i) == regions[i] # Nothing

Extent(r) == r.lo .. (r.lo + r.words - 1)

Init == regions = [i \in Index |-> Nothing]

Others(i) == {j \in Index \ {i} : Holds(j)}

(* r is a legal region for i beside what the other ids hold.               *)
WellPlaced(i, r) ==
  /\ r.lo % Align = 0 /\ r.words > 0
  /\ HeapLo <= r.lo /\ r.lo + r.words - 1 <= HeapHi
  /\ DOMAIN r.data = 0 .. (r.words - 1)
  /\ \A j \in Others(i) : Extent(r) \cap Extent(regions[j]) = {}

OnlyChanges(i) == regions' = [regions EXCEPT ![i] = regions'[i]]

Malloc(i) ==
  /\ ~Holds(i)
  /\ WellPlaced(i, regions'[i])
  /\ OnlyChanges(i)

(* The client writes anywhere in its own region.                           *)
Write(i) ==
  /\ Holds(i)
  /\ regions'[i].lo = regions[i].lo /\ regions'[i].words = regions[i].words
  /\ DOMAIN regions'[i].data = DOMAIN regions[i].data
  /\ OnlyChanges(i)

(* The old contents survive, as far as both regions reach.                 *)
Realloc(i) ==
  /\ Holds(i)
  /\ WellPlaced(i, regions'[i])
  /\ \A k \in DOMAIN regions[i].data \cap DOMAIN regions'[i].data :
       regions'[i].data[k] = regions[i].data[k]
  /\ OnlyChanges(i)

Free(i) == Holds(i) /\ regions' = [regions EXCEPT ![i] = Nothing]

(* A new trace starts on an empty heap.                                    *)
Reset == regions' = [i \in Index |-> Nothing]

(* What a step that is not the client's may do.                            *)
Promise == Reset \/ \E i \in Index : Malloc(i) \/ Realloc(i) \/ Free(i)

Next == Promise \/ \E i \in Index : Write(i)

Spec == Init /\ [][Next]_regions

----------------------------------------------------------------------------
(* What follows for the client, whatever the package.                      *)

(* Two ids never hold overlapping regions.                                 *)
Disjoint ==
  \A i, j \in Index : i # j /\ Holds(i) /\ Holds(j)
    => Extent(regions[i]) \cap Extent(regions[j]) = {}

Inv == DOMAIN regions = Index /\ Disjoint

(* The ids of a package that keeps its promises, one region each, never    *)
(* overlap: WellPlaced compares a new region with the held ones only when  *)
(* it is granted, and no later step moves or stretches one.                *)
THEOREM NeverOverlap == Spec => []Disjoint
<1>1. Init => Inv
  BY DEF Init, Inv, Disjoint, Holds, Nothing
<1>2. Inv /\ [Next]_regions => Inv'
  <2> SUFFICES ASSUME Inv, [Next]_regions PROVE Inv'
    OBVIOUS
  <2>1. CASE Reset
    BY <2>1 DEF Inv, Disjoint, Holds, Nothing, Reset
  <2>2. ASSUME NEW i \in Index,
               OnlyChanges(i),
               Holds(i)' => \A j \in Others(i) :
                 Extent(regions[i])' \cap Extent(regions[j]) = {}
        PROVE  Inv'
    <3>1. DOMAIN regions' = Index /\ \A j \in Index \ {i} : regions'[j] = regions[j]
      BY <2>2 DEF Inv, OnlyChanges
    <3>2. ASSUME NEW j \in Index, NEW k \in Index, j # k, Holds(j)', Holds(k)'
          PROVE  Extent(regions[j])' \cap Extent(regions[k])' = {}
      <4>1. CASE j = i
        <5>1. k \in Others(i)
          BY <3>1, <3>2, <4>1 DEF Others, Holds
        <5> QED  BY <2>2, <3>1, <3>2, <4>1, <5>1
      <4>2. CASE k = i
        <5>1. j \in Others(i)
          BY <3>1, <3>2, <4>2 DEF Others, Holds
        <5> QED  BY <2>2, <3>1, <3>2, <4>2, <5>1
      <4>3. CASE j # i /\ k # i
        BY <3>1, <3>2, <4>3 DEF Inv, Disjoint, Holds
      <4> QED  BY <4>1, <4>2, <4>3
    <3> QED  BY <3>1, <3>2 DEF Inv, Disjoint
  <2>3. ASSUME NEW i \in Index, Malloc(i) \/ Realloc(i) PROVE Inv'
    <3>1. OnlyChanges(i) /\ WellPlaced(i, regions'[i])
      BY <2>3 DEF Malloc, Realloc
    <3> QED  BY <2>2, <3>1 DEF WellPlaced
  <2>4. ASSUME NEW i \in Index, Free(i) PROVE Inv'
    BY <2>2, <2>4 DEF Inv, Free, OnlyChanges, Holds
  <2>5. ASSUME NEW i \in Index, Write(i) PROVE Inv'
    <3>1. Extent(regions[i])' = Extent(regions[i])
      BY <2>5 DEF Write, Extent
    <3>2. ASSUME NEW j \in Others(i)
          PROVE  Extent(regions[i]) \cap Extent(regions[j]) = {}
      BY <2>5, <3>2 DEF Inv, Disjoint, Others, Write
    <3> QED  BY <2>2, <2>5, <3>1, <3>2 DEF Write
  <2>6. CASE UNCHANGED regions
    BY <2>6 DEF Inv, Disjoint, Holds
  <2> QED  BY <2>1, <2>3, <2>4, <2>5, <2>6 DEF Next, Promise
<1>3. Inv => Disjoint
  BY DEF Inv
<1> QED  BY <1>1, <1>2, <1>3, PTL DEF Spec
=============================================================================
