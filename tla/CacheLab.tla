------------------------------ MODULE CacheLab ------------------------------
(***************************************************************************)
(* The cache lab: the simulator csim.c (CsimPair), the transpose functions *)
(* of trans.c (Trans), and the programs that grade them (TransTest).  They *)
(* share no state, since the grading sees of a function only what it may   *)
(* do; a behaviour is one of a part, and the others stay where they start. *)
(***************************************************************************)
EXTENDS CsimPair

CONSTANTS AddrA, AddrB,
          Tests, FUNCS, Outcomes, Others, Lows, MaxLines, Mishaps,
          lower, upper, full

Sizes == {<<32, 32>>, <<32, 64>>, <<64, 64>>, <<61, 67>>}  \* driver.py's
NoMatrix == <<0, 0>>

VARIABLES part,
          M, N, bi, bj, x, v0, v1, B, lines_held, missed,
          mishaps, outcome, sh, test, func, pc, gens, tmp, part_trace,
          csim_results, results, result, total_score

pair_vars == <<vars, small, small_hits, small_misses, small_evictions>>
trans_vars == <<M, N, bi, bj, x, v0, v1, B, lines_held, missed>>
grade_vars == <<mishaps, outcome, sh, test, func, pc, gens, tmp, part_trace,
                csim_results, results, result, total_score>>

T == INSTANCE Trans WITH i <- bi, j <- bj, cache <- lines_held, misses <- missed,
                         Sizes <- Sizes \cup {NoMatrix}
G == INSTANCE TransTest WITH i <- func, part <- part_trace

ASSUME LabAssumption == G!TestAssumption

NothingGraded == /\ mishaps = {} /\ sh = "waits"
                 /\ outcome = [s \in DOMAIN outcome |-> "right"]

LabInit == /\ part \in {"simulate", "transpose", "grade"}
           /\ PairInit
           /\ T!Init /\ (part = "transpose" <=> <<M, N>> # NoMatrix)
           /\ G!Init /\ (part # "grade" => NothingGraded)

Grading == part = "grade" /\ G!Main
Tracing == part = "grade" /\ G!tracegen
Ringing == part = "grade" /\ G!Alarm

LabNext ==
    /\ \/ part = "simulate" /\ PairNext /\ UNCHANGED <<trans_vars, grade_vars>>
       \/ part = "transpose" /\ T!Next /\ UNCHANGED <<pair_vars, grade_vars>>
       \/ part = "grade" /\ G!Next /\ UNCHANGED <<pair_vars, trans_vars>>
    /\ UNCHANGED part

\* The fairness of TransTest.
LabSpec == /\ LabInit /\ [][LabNext]_<<part, pair_vars, trans_vars, grade_vars>>
           /\ WF_grade_vars(Grading) /\ WF_grade_vars(Tracing)
           /\ WF_grade_vars(Ringing)

----------------------------------------------------------------------------
\* Each element is copied to its place, at the ragged edges and on the
\* diagonals too, with no access outside the arrays (trans.c:45-93).
Transposed == part = "transpose" => T!InBounds /\ T!Transposed

\* The misses stay below the bounds of driver.py:103-106.
Misses == part = "transpose" => T!Misses

\* The simulator is given the accesses of one function alone, and the points
\* are those that validated submissions earn with them, as far as the shell of
\* system() lets test-trans see (test-trans.c).
ScoreEarned == G!TypeOK /\ G!ScoreTrue /\ G!PointsValidated /\ G!OwnTrace

\* Every test-trans ends, and driver.py gets to its summary unless a shell waits
\* for a function that hangs.
DriverFinishes == part = "grade" => G!TestTransEnds /\ G!DriverEnds
=============================================================================
