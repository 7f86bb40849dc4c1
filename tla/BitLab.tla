------------------------------- MODULE BitLab -------------------------------
(***************************************************************************)
(* The bit puzzles and the two programs that grade them: a behaviour runs  *)
(* a puzzle of Puzzles against its reference, or btest (BTest), or         *)
(* driver.pl (DataLab).  They share no state; the parts that do not run    *)
(* stay where they start.                                                  *)
(***************************************************************************)
EXTENDS BTest

CONSTANTS W, Sampled, None

PuzzleNames == <<"bitAnd", "addOK", "absVal">>
PuzzleRating == [bitAnd |-> 1, addOK |-> 3, absVal |-> 4]

VARIABLES part,
          name, given, r, rt,
          found, step, bits, built, corr, perf, row, c, p
puzzle_vars == <<name, given, r, rt>>
driver_vars == <<found, step, bits, built, corr, perf, row, c, p>>

P == INSTANCE Puzzles
D == INSTANCE DataLab WITH sol <- found, Puzzles <- PuzzleNames,
                           rating <- PuzzleRating

ASSUME BitLabAssumption ==
    P!BitsAssumption /\ P!PuzzlesAssumption /\ D!DataLabAssumption

AllRight == [k \in Functions |-> Right]
AllFine == [n \in D!Names |-> [legal |-> TRUE, few |-> TRUE, works |-> "right"]]

LabInit == /\ \/ part = "puzzle" /\ sol = AllRight /\ found = AllFine
              \/ part = "btest" /\ found = AllFine
              \/ part = "driver" /\ sol = AllRight
           /\ Init /\ P!Init /\ D!Init

Testing == part = "btest" /\ Main
Ringing == part = "btest" /\ Alarm

LabNext == /\ \/ part = "puzzle" /\ P!Next /\ UNCHANGED <<vars, driver_vars>>
              \/ part = "btest" /\ Next /\ UNCHANGED <<puzzle_vars, driver_vars>>
              \/ part = "driver" /\ D!Next /\ UNCHANGED <<vars, puzzle_vars>>
           /\ UNCHANGED part

\* The fairness of BTest.
LabSpec == /\ LabInit /\ [][LabNext]_<<part, vars, puzzle_vars, driver_vars>>
           /\ WF_vars(Testing) /\ WF_vars(Ringing)

----------------------------------------------------------------------------
\* Each solution of bits.c gives the answer of tests.c.
SolutionsAgree == P!SolutionsAgree

\* btest tests every function at the bounds of its ranges and at zero, with
\* values that fit their array (gen_vals, test_function).
BoundsTested == PointsEarned /\ ArrayFits

\* driver.pl gives exactly the points of the legal solutions that pass their
\* tests, and the performance points of the short ones of them, of the version
\* that it ran btest on, which is not the emptied one if a copy failed.
PointsForRight == D!PointsForRight

\* With a time limit btest ends, however the solutions hang.
BTestEnds == part = "btest" => TestsEnd
=============================================================================
