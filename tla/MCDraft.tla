------------------------------ MODULE MCDraft ------------------------------
(* Small instances of DraftClient for TLC.                                 *)
EXTENDS DraftClient, TLC

CONSTANTS i1, i2, i3

(* Payload data that looks like block tags.                                *)
MCrandom_data ==
  [i \in Index |-> [k \in 0 .. (MAX_HEAP - 1) |->
     CASE i = i1 -> 5 + (k % 8) [] i = i2 -> 16 + 2 * (k % 8)
       [] i = i3 -> 41 - (k % 8)]]
=============================================================================
