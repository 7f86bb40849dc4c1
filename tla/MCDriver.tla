------------------------------ MODULE MCDriver ------------------------------
(* Small instances of MDriver for TLC.                                     *)
EXTENDS MDriverProps, TLC

CONSTANTS i1, i2, i3

(* Payload data that looks like block tags: odd words and even ones, with  *)
(* sizes in range, no two neighbouring words alike.                        *)
Offsets == 0 .. (MAX_HEAP - 1)
MCrandom_data ==
  [i \in Index |-> [k \in Offsets |->
     CASE i = i1 -> 5 + k [] i = i2 -> 16 + 2 * k [] i = i3 -> 41 - (k % 8)]]
=============================================================================
