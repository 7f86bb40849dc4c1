------------------------------- MODULE MCPerf -------------------------------
(* A small instance of DriverPerf for TLC.                                 *)
EXTENDS DriverPerf, TLC

CONSTANTS i1, i2

(* Payload data that looks like block tags.                                *)
MCrandom_data ==
  [i \in Index |-> [k \in 0 .. (MAX_HEAP - 1) |->
     IF i = i1 THEN 5 + k ELSE 16 + 2 * k]]
=============================================================================
