------------------------------- MODULE DataLab -------------------------------
(***************************************************************************)
(* driver.pl grades bits.c: dlc empties the functions that use illegal     *)
(* operators (-z) or too many (-Z), btest -g scores both versions, and the *)
(* driver reads what btest printed, line by line.  Every command it runs   *)
(* may fail.                                                               *)
(***************************************************************************)
EXTENDS Naturals, Sequences, FiniteSets, FiniteSetsExt, SequencesExt

CONSTANTS Puzzles,  \* a sequence of names
          rating,   \* per name
          None

VARIABLES sol,      \* per puzzle: what dlc and btest find in it
          step,     \* where the driver stands
          bits,     \* which version the scratch directory's bits.c is
          built,    \* which version btest was built from
          corr, perf,  \* btest-zapped.out, btest-Zapped.out: their lines, and
                       \* which version of bits.c btest was run on
          row,      \* %puzzle_number: the names of the rows, in order
          c, p      \* total_c_points, total_p_points

vars == <<sol, step, bits, built, corr, perf, row, c, p>>

Names == {Puzzles[k] : k \in DOMAIN Puzzles}
DataLabAssumption == rating \in [Names -> Nat] /\ None \notin Names

Findings == [legal : BOOLEAN, few : BOOLEAN, works : {"right", "wrong", "hangs"}]

NoOutput == [of |-> None, lines |-> <<>>]
Init == /\ sol \in [Names -> Findings]
        /\ step = "copy" /\ bits = None /\ built = None
        /\ corr = NoOutput /\ perf = NoOutput /\ row = <<>> /\ c = 0 /\ p = 0

\* An emptied function has no return statement, and gives a wrong answer.
emptied_ops(v, n) == \* mutant: the second version is zapped for counts only
    (v = "zap" /\ ~sol[n].legal) \/ (v = "Zap" /\ ~sol[n].few)
emptied(v, n) == \/ v \in {"zap", "Zap"} /\ ~sol[n].legal
                 \/ v = "Zap" /\ ~sol[n].few
passes(v, n) == sol[n].works = "right" /\ ~emptied(v, n)
hangs(v, n) == sol[n].works = "hangs" /\ ~emptied(v, n)

(***************************************************************************)
(* btest -g: one line of points and a name per puzzle, and two lines before*)
(* it when the test timed out.                                             *)
(***************************************************************************)
line(n, points) == [kind |-> "score", name |-> n, points |-> points]
printed_paid(v, n, points) == \* mutant: a timeout is no error
    IF hangs(v, n) THEN <<[kind |-> "error"], [kind |-> "timeout"], line(n, points)>>
    ELSE <<line(n, IF passes(v, n) THEN points ELSE 0)>>
printed(v, n, points) ==
    IF hangs(v, n) THEN <<[kind |-> "error"], [kind |-> "timeout"], line(n, 0)>>
    ELSE <<line(n, IF passes(v, n) THEN points ELSE 0)>>
btest(v, points(_)) ==
    [of |-> v, lines |-> FlattenSeq([k \in DOMAIN Puzzles |->
                             printed(v, Puzzles[k], points(Puzzles[k]))])]

does(from, to) == step = from /\ step' = to
rest == <<corr, perf, row, c, p>>

\* A command that fails ends the driver, with a message.
Die == /\ step \in {"copy", "dlc -z", "make", "btest", "dlc -Z", "make Z",
                    "btest Z", "dlc -e", "read corr", "read perf"}
       /\ step' = "died"
       /\ UNCHANGED <<sol, bits, built, rest>>

Copy == /\ does("copy", "dlc -z") /\ bits' = "own"
        /\ UNCHANGED <<sol, built, rest>>
DlcZap == /\ does("dlc -z", "cp zap")
          /\ UNCHANGED <<sol, bits, built, rest>>
\* Whether this copy fails is not looked at.
CopyZap == /\ does("cp zap", "make") /\ bits' \in {bits, "zap"}
           /\ UNCHANGED <<sol, built, rest>>
Make == /\ does("make", "btest") \/ does("make Z", "btest Z")
        /\ built' = bits
        /\ UNCHANGED <<sol, bits, rest>>
BtestCorr == /\ does("btest", "dlc -Z")
             /\ LET points(n) == rating[n] IN corr' = btest(built, points)
             /\ UNCHANGED <<sol, bits, built, perf, row, c, p>>
DlcZapped == /\ does("dlc -Z", "cp Zap")
             /\ UNCHANGED <<sol, bits, built, rest>>
CopyZapped == /\ does("cp Zap", "make Z") /\ bits' \in {bits, "Zap"}
              /\ UNCHANGED <<sol, built, rest>>
BtestPerf == /\ does("btest Z", "dlc -e")
             /\ LET points(n) == 2 IN perf' = btest(built, points)
             /\ UNCHANGED <<sol, bits, built, corr, row, c, p>>
DlcCount == /\ does("dlc -e", "read corr")
            /\ UNCHANGED <<sol, bits, built, rest>>

\* Split at blanks, a line of another kind has words in the place of the
\* points, which count as 0, and no name, or a word of the line.
name_of(l) == IF l.kind = "score" THEN l.name ELSE l.kind
points_of(l) == IF l.kind = "score" THEN l.points ELSE 0
total(lines) == FoldLeft(LAMBDA s, l : s + points_of(l), 0, lines)

ReadCorr == /\ does("read corr", "read perf")
            /\ row' = FoldLeft(LAMBDA r, l : IF Contains(r, name_of(l)) THEN r
                                             ELSE Append(r, name_of(l)), <<>>, corr.lines)
            /\ c' = total(corr.lines)
            /\ UNCHANGED <<sol, bits, built, corr, perf, p>>
ReadPerf == /\ does("read perf", "done")
            /\ p' = total(perf.lines)
            /\ UNCHANGED <<sol, bits, built, corr, perf, row, c>>

Next == \/ Die \/ Copy \/ DlcZap \/ CopyZap \/ Make \/ BtestCorr \/ DlcZapped
        \/ CopyZapped \/ BtestPerf \/ DlcCount \/ ReadCorr \/ ReadPerf
Spec == Init /\ [][Next]_vars

----------------------------------------------------------------------------
Earning(v) == {n \in Names : /\ sol[n].works = "right"
                             /\ v \in {"zap", "Zap"} => sol[n].legal
                             /\ v = "Zap" => sol[n].few}

\* The score is exactly that of the solutions that pass their tests and are
\* legal, and its performance part that of the short ones of them, whatever lines
\* btest prints between.  The copies of zap-bits.c and Zap-bits.c over bits.c are
\* not looked at (driver.pl:187, 220): after one that failed, btest runs on the
\* version that was there, so illegal or long solutions are paid for.
PointsForRight ==
    step = "done" =>
       /\ c = MapThenSumSet(LAMBDA n : rating[n], Earning(corr.of))
       /\ p = 2 * Cardinality(Earning(perf.of))
       /\ corr.of \in {"own", "zap"} /\ perf.of \in {corr.of, "Zap"}
=============================================================================
