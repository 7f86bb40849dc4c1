------------------------------ MODULE TransTest ------------------------------
(***************************************************************************)
(* How the transpose functions are graded: driver.py runs test-trans once  *)
(* per matrix size; test-trans runs tracegen under valgrind once per       *)
(* registered function and the reference simulator on what it recorded.    *)
(* They hand results on in files that every run of them shares, and        *)
(* test-trans its line to driver.py through a pipe that is read to its     *)
(* end.                                                                    *)
(*                                                                         *)
(* A line of a memory trace is a marker, an access by the function to the  *)
(* matrices, or another access; a miss is a line the simulator is given.   *)
(***************************************************************************)
EXTENDS Integers, Sequences, SequencesExt

CONSTANTS Tests,       \* driver.py runs test-trans with the sizes 1 .. Tests
          FUNCS,       \* functions 0 .. FUNCS - 1; the submission is 0
          Outcomes,    \* what the submission may do
          Others,      \* what the other functions may do
          Lows,        \* accesses of the submission on size t: Lows + t
          MaxLines,    \* bound: lines of a trace of a function that hangs
          Mishaps,     \* what may go wrong besides, see below
          lower, upper, full   \* of computeMissScore, in tenths of a point

TestAssumption == /\ Outcomes \cup Others \subseteq {"right", "wrong", "crash", "hang"}
                  /\ Mishaps \subseteq SUBSET {"alarm", "csim-ref"}
                  /\ lower \in Nat /\ upper \in Nat /\ lower < upper

VARIABLES mishaps,  \* may the alarm ring, may csim-ref fail
          outcome,  \* of each function on each size
          sh,       \* the shell of system(): it "waits" for valgrind, with the
                    \* pipe open, or "execs" it, as newer ones do
          test, i,  \* driver.py's test, eval_perf's function
          pc,       \* where test-trans is
          gens,     \* the tracegen processes
          tmp,      \* /tmp/cs154p3-<uid>.tmp
          part,     \* trace.f<i>
          csim_results,
          results,  \* of test-trans
          result,   \* the TEST_TRANS_RESULTS of each test
          total_score
vars == <<mishaps, outcome, sh, test, i, pc, gens, tmp, part, csim_results,
          results, result, total_score>>

Funcs == 0 .. FUNCS - 1
INT_MAX == 99
Fresh == [funcid |-> -1, correct |-> 0, misses |-> INT_MAX]

CanTimeOut == "alarm" \in mishaps
RefFails == "csim-ref" \in mishaps

\* Without a timeout even test-trans waits for ever for a function that hangs.
Init == /\ mishaps \in Mishaps
        /\ outcome \in [(1 .. Tests) \X Funcs -> Outcomes \cup Others]
        /\ \A t \in 1 .. Tests, f \in Funcs :
               /\ outcome[t, f] \in IF f = 0 THEN Outcomes ELSE Others
               /\ outcome[t, f] = "hang" => CanTimeOut
        /\ sh \in {"waits", "execs"}
        /\ test = 1 /\ i = 0 /\ pc = "gen" /\ gens = {}
        /\ tmp = <<>> /\ part = <<>>
        /\ csim_results = 9         \* test-csim's, of Part A
        /\ results = Fresh /\ result = <<>> /\ total_score = -1

-----------------------------------------------------------------------------
(* tracegen                                                                *)

accesses(n) == [k \in 1 .. n |-> "low"]
count(t, f) == Lows + t + f
script(g) ==
    CASE outcome[g.test, g.func] \in {"right", "wrong"} ->
             <<"high", "start">> \o accesses(count(g.test, g.func)) \o <<"high", "end", "low">>
      [] outcome[g.test, g.func] = "crash" -> <<"high", "start", "low">>
      [] outcome[g.test, g.func] = "hang" ->
             <<"high", "start">> \o accesses(MaxLines - 2)

\* A process writes where its own offset in the file is.
written(file, at, line) ==
    [k \in 1 .. (IF at > Len(file) THEN at ELSE Len(file)) |->
        IF k = at THEN line ELSE IF k \in DOMAIN file THEN file[k] ELSE "hole"]

Write(g) == /\ g.at <= Len(script(g))
            /\ tmp' = written(tmp, g.at, script(g)[g.at])
            /\ gens' = (gens \ {g}) \cup {[g EXCEPT !.at = @ + 1]}
            /\ UNCHANGED <<mishaps, outcome, sh, test, i, pc, part, csim_results, results,
                           result, total_score>>
Exit(g) == /\ g.at > Len(script(g)) /\ outcome[g.test, g.func] # "hang"
           /\ gens' = gens \ {g}
           /\ UNCHANGED <<mishaps, outcome, sh, test, i, pc, tmp, part, csim_results,
                          results, result, total_score>>
tracegen == \E g \in gens : Write(g) \/ Exit(g)

\* WEXITSTATUS of what system() returns: a shell that waited exits with 128 more
\* than the signal's number, but a valgrind that took the shell's place dies of
\* the signal, which has no exit status and reads as 0.
status(t, f) == CASE outcome[t, f] = "wrong" -> f + 1
                  [] outcome[t, f] = "crash" /\ sh = "waits" -> 139
                  [] OTHER -> 0

-----------------------------------------------------------------------------
(* eval_perf                                                               *)

goes(from, to) == test <= Tests /\ pc = from /\ pc' = to
kept == UNCHANGED <<mishaps, outcome, sh, test, result, total_score>>

Generate == /\ goes("gen", "wait")
            /\ results' = IF i = 0 THEN [results EXCEPT !.funcid = i] ELSE results
            /\ tmp' = <<>>
            /\ gens' = gens \cup {[test |-> test, func |-> i, at |-> 1]}
            /\ kept /\ UNCHANGED <<i, part, csim_results>>

running == \E g \in gens : g.test = test /\ g.func = i

next_function == i' = i + 1 /\ pc' = IF i + 1 < FUNCS THEN "gen" ELSE "emit"

Valid == IF results.funcid = i THEN [results EXCEPT !.correct = 1] ELSE results

Wait_ignoring == /\ goes("wait", "filter") /\ ~running
                 /\ results' = Valid /\ UNCHANGED i
                 /\ kept /\ UNCHANGED <<gens, tmp, part, csim_results>>
Wait == /\ test <= Tests /\ pc = "wait" /\ ~running
        /\ IF status(test, i) # 0
             THEN next_function /\ UNCHANGED results
             ELSE pc' = "filter" /\ results' = Valid /\ UNCHANGED i
        /\ kept /\ UNCHANGED <<gens, tmp, part, csim_results>>

\* The lines from the start marker to the end marker, both included.
upto_end(s) == IF Contains(s, "end") THEN SubSeq(s, 1, SelectInSeq(s, LAMBDA x : x = "end"))
                                     ELSE s
after_start(s) == LET k == SelectInSeq(s, LAMBDA x : x = "start")
                  IN  IF k = 0 THEN <<>> ELSE SubSeq(s, k, Len(s))
recorded_all(s) == SelectSeq(after_start(s), LAMBDA x : x \in {"start", "low", "end"})
recorded_raw(s) == after_start(upto_end(s))
recorded(s) == SelectSeq(after_start(upto_end(s)),
                         LAMBDA x : x \in {"start", "low", "end"})

\* Without an end marker trace.f<i> is not closed, and what stdio still holds
\* is not in it when the simulator reads it.
Filter == /\ goes("filter", "ref")
          /\ IF Contains(tmp, "end")
               THEN part' = recorded(tmp)
               ELSE \E n \in 0 .. Len(recorded(tmp)) :
                        part' = SubSeq(recorded(tmp), 1, n)
          /\ kept /\ UNCHANGED <<i, gens, tmp, csim_results, results>>

\* printSummary, unless the simulator fails.
Simulate == /\ goes("ref", "collect")
            /\ \/ csim_results' = Len(part)
               \/ RefFails /\ UNCHANGED csim_results
            /\ kept /\ UNCHANGED <<i, gens, tmp, part, results>>

Collect == /\ test <= Tests /\ pc = "collect"
           /\ results' = IF results.funcid = i
                         THEN [results EXCEPT !.misses = csim_results] ELSE results
           /\ next_function
           /\ kept /\ UNCHANGED <<gens, tmp, part, csim_results>>

-----------------------------------------------------------------------------
(* test-trans's end, and driver.py                                         *)

\* test-trans writes its line and exits; what system() has started goes on.
exits(printed) ==
    /\ test <= Tests /\ pc' = "ended" /\ results' = printed
    /\ kept /\ UNCHANGED <<i, gens, tmp, part, csim_results>>

Emit == pc = "emit" /\ exits(results)

\* The handler prints 0:0.
timed_out == [Fresh EXCEPT !.misses = 0]
Alarm_blocked == CanTimeOut /\ pc \notin {"wait", "ended"} /\ exits(timed_out)
Alarm == CanTimeOut /\ pc # "ended" /\ exits(timed_out)

\* communicate() returns when nobody holds the pipe any more: test-trans, and
\* the shell that waits for a valgrind.
pipe_open == sh = "waits" /\ gens # {}
NextTest == /\ goes("ended", "gen") /\ ~pipe_open
            /\ result' = Append(result, [correct |-> results.correct,
                                        misses |-> results.misses])
            /\ test' = test + 1 /\ i' = 0 /\ results' = Fresh
            /\ UNCHANGED <<mishaps, outcome, sh, gens, tmp, part, csim_results, total_score>>

computeMissScore(miss) ==
    CASE miss <= lower -> full
      [] miss >= upper -> 0
      [] OTHER -> ((upper - miss) * full) \div (upper - lower)
points(r) == computeMissScore(r.misses) * r.correct

Score == /\ test > Tests /\ total_score = -1
         /\ total_score' = FoldLeft(LAMBDA sum, r : sum + points(r), 0, result)
         /\ UNCHANGED <<mishaps, outcome, sh, test, i, pc, gens, tmp, part, csim_results,
                        results, result>>

Main == Generate \/ Wait \/ Filter \/ Simulate \/ Collect \/ Emit \/ NextTest \/ Score
Next == Main \/ tracegen \/ Alarm
Spec == Init /\ [][Next]_vars
\* All processes are scheduled, and an alarm that was set rings.
FairSpec == Spec /\ WF_vars(Main) /\ WF_vars(tracegen) /\ WF_vars(Alarm)

-----------------------------------------------------------------------------
TypeOK == /\ test \in 1 .. Tests + 1 /\ i \in 0 .. FUNCS /\ Len(tmp) <= MaxLines + Lows + Tests + FUNCS
          /\ ToSet(part) \subseteq {"start", "low", "end"}
          /\ csim_results \in Nat /\ results.funcid \in {-1, 0}
          /\ total_score \in -1 .. Tests * full

Own(t) == count(t, 0) + 2

\* The points of a submission on size t that validate found right: those of its
\* own accesses, not those of validate or of the other functions.
Earned(t) == IF outcome[t, 0] = "right" THEN computeMissScore(Own(t)) ELSE 0

\* When every process runs to its end, the score is what the submission earned
\* on each size, if the shell tells a crash (test-trans.c:63-161,
\* driver.py:96-107).  With an alarm anywhere, a size that was not timed out is
\* still given what it earned.
ScoreTrue ==
    /\ mishaps = {} /\ total_score # -1 /\ sh = "waits" =>
        total_score = FoldLeft(LAMBDA sum, t : sum + Earned(t), 0,
                               [t \in 1 .. Tests |-> t])
    /\ sh = "waits" /\ ~RefFails =>
        \A t \in DOMAIN result :
            points(result[t]) = Earned(t) \/ result[t] = [correct |-> 0, misses |-> 0]

\* A submission counts as correct only when validate found it so: "run
\* ./tracegen ... for details. Skipping performance evaluation" otherwise
\* (test-trans.c:74-78).  Not so for a crash under a shell that execs.
PointsValidated ==
    \A t \in DOMAIN result : result[t].correct = 1 =>
        outcome[t, 0] = "right" \/ (outcome[t, 0] = "crash" /\ sh = "execs")

\* The simulator is given the accesses of the function under test, from marker
\* to marker, whatever the tests before it left running: as long as the shell
\* keeps driver.py from going on beside them (test-trans.c:190-195).  With one
\* that execs, a valgrind that is left behind writes into the next test's trace.
OwnTrace == sh = "waits" /\ pc = "ref" =>
                part = recorded(script([test |-> test, func |-> i]))

\* Each test-trans ends, whatever the functions do, thanks to its alarm.  So
\* does driver.py, if no function hangs or the pipe is not held by a shell that
\* waits for one.
TestTransEnds == \A t \in 1 .. Tests : test = t ~> test # t \/ pc = "ended"
DriverEnds == \/ sh = "waits" /\ \E k \in DOMAIN outcome : outcome[k] = "hang"
              \/ <>(total_score # -1)

\* "Time out and give up after a while" (test-trans.c:244): the code breaks this
\* for driver.py, which a hung function keeps waiting for the end of the pipe.
GivesUp == <>(total_score # -1)
=============================================================================
