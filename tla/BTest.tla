-------------------------------- MODULE BTest --------------------------------
(***************************************************************************)
(* The harness of btest.c: test values for each argument, the loop over    *)
(* them, the alarm that ends a test, and the score.  A solution is right   *)
(* but for one tuple of arguments, where it is wrong or does not return.   *)
(***************************************************************************)
EXTENDS Integers, Sequences, FiniteSets, SequencesExt

CONSTANTS test_set,       \* per function: its ranges, a pair for each argument
          rating,         \* and its rating
          TEST_RANGE,
          global_rating,  \* option -r, or 0
          timeout_limit   \* option -T; 0 is never

VARIABLES sol,        \* function -> what its solution does
          i, at,      \* the function under test, and where its test stands
          vals,       \* arg_test_vals
          pos,        \* how many tuples have been tested
          errors,     \* terrors of this function
          points, max_points,
          alarm,      \* is an alarm set
          env,        \* the function whose test envbuf returns to, or 0
          live        \* has that call of test_function not returned yet

vars == <<sol, i, at, vals, pos, errors, points, max_points, alarm,
          env, live>>

ASSUME BTestAssumption ==
    /\ TEST_RANGE \in Nat \ {0} /\ {global_rating, timeout_limit} \subseteq Nat
    /\ \A k \in DOMAIN test_set :
          /\ Len(test_set[k]) <= 3
          /\ \A a \in DOMAIN test_set[k] : test_set[k][a][1] <= test_set[k][a][2]

MAX_TEST_VALS == 13 * TEST_RANGE
Functions == DOMAIN test_set
args(k) == Len(test_set[k])
min(k, a) == test_set[k][a][1]
max(k, a) == test_set[k][a][2]

\* The largest number with x^n <= TEST_RANGE, at least 1.
root(n) == CHOOSE x \in 1..TEST_RANGE :
              x^n <= TEST_RANGE /\ \A y \in 1..TEST_RANGE : y^n <= TEST_RANGE => y <= x
arg_test_range(k) == root(IF args(k) = 0 THEN 3 ELSE args(k))

Interesting(k, a) == {min(k, a), max(k, a), (min(k, a) + max(k, a)) \div 2}
                     \cup ({0} \cap (min(k, a)..max(k, a)))
Tuples(k) == {t \in [1..args(k) -> UNION {Interesting(k, a) : a \in 1..args(k)}] :
                 \A a \in 1..args(k) : t[a] \in Interesting(k, a)}
Right == <<"right">>
Solutions(k) == {Right} \cup ({"wrong", "hang"} \X Tuples(k))

Init == /\ sol \in {s \in [Functions -> UNION {Solutions(k) : k \in Functions}] :
                       \A k \in Functions : s[k] \in Solutions(k)}
        /\ i = 1 /\ at = "gen" /\ vals = <<>> /\ pos = 0 /\ errors = 0
        /\ points = 0 /\ max_points = 0
        /\ alarm = FALSE /\ env = 0 /\ live = FALSE

----------------------------------------------------------------------------
\* gen_vals, for integers; the random value is any of the range.
near_open(lo, hi, n, random) == \* mutant: the upper bound is left out
    <<lo + n, hi - n - 1>> \o SelectSeq(<<n, -n>>, LAMBDA v : v >= lo /\ v <= hi)
    \o <<random>>
near(lo, hi, n, random) ==
    <<lo + n, hi - n>> \o SelectSeq(<<n, -n>>, LAMBDA v : v >= lo /\ v <= hi)
    \o <<random>>
gen_vals_bytes(lo, hi, range, random) == \* mutant: the array's size in bytes
    IF hi - 4 * MAX_TEST_VALS <= lo THEN [n \in 1..(hi - lo + 1) |-> lo + n - 1]
    ELSE FlattenSeq([n \in 1..range |-> near(lo, hi, n - 1, random)])
gen_vals(lo, hi, range, random) ==
    IF hi - MAX_TEST_VALS <= lo THEN [n \in 1..(hi - lo + 1) |-> lo + n - 1]
    ELSE FlattenSeq([n \in 1..range |-> near(lo, hi, n - 1, random)])

GenVals == /\ at = "gen" /\ i \in Functions
           /\ \E random \in [1..args(i) -> UNION {Interesting(i, a) : a \in 1..args(i)}] :
                 /\ \A a \in 1..args(i) : random[a] \in Interesting(i, a)
                 /\ vals' = [a \in 1..args(i) |->
                       gen_vals(min(i, a), max(i, a), arg_test_range(i), random[a])]
           /\ at' = "arm"
           /\ UNCHANGED <<sol, i, pos, errors, points, max_points, alarm,
                          env, live>>

Arm_once == \* mutant: the alarm is set for the first function only
       /\ at = "arm" /\ at' = "test"
       /\ IF timeout_limit > 0 /\ i = 1
          THEN env' = i /\ live' = TRUE /\ alarm' = TRUE
          ELSE UNCHANGED <<env, live, alarm>>
       /\ pos' = 0 /\ errors' = 0
       /\ UNCHANGED <<sol, i, vals, points, max_points>>
Arm == /\ at = "arm" /\ at' = "test"
       /\ IF timeout_limit > 0 THEN env' = i /\ live' = TRUE /\ alarm' = TRUE
          ELSE UNCHANGED <<env, live, alarm>>
       /\ pos' = 0 /\ errors' = 0
       /\ UNCHANGED <<sol, i, vals, points, max_points>>

\* Tuple number n of the nested loops, the last argument fastest.
tuple(n) == [a \in DOMAIN vals |->
    LET below == FoldLeft(LAMBDA p, v : p * Len(v), 1, SubSeq(vals, a + 1, Len(vals)))
    IN  vals[a][1 + ((n \div below) % Len(vals[a]))]]
count == FoldLeft(LAMBDA p, v : p * Len(v), 1, vals)

returned == at' = "score" /\ live' = FALSE

\* test_0_arg to test_3_arg, and the loops around them.
Test == /\ at = "test"
        /\ sol[i] # <<"hang", tuple(pos)>>
        /\ errors' = IF sol[i] = <<"wrong", tuple(pos)>> THEN 1 ELSE 0
        /\ pos' = pos + 1
        /\ IF errors' > 0 \/ pos' = count THEN returned
           ELSE UNCHANGED <<at, live>>
        /\ UNCHANGED <<sol, i, vals, points, max_points, alarm, env>>

\* run_tests, after test_function has returned.
worth(k) == IF global_rating > 0 THEN global_rating ELSE rating[k]
Score == /\ at = "score" /\ at' = "gen" /\ i' = i + 1
         /\ points' = IF errors = 0 THEN points + worth(i) ELSE points
         /\ max_points' = max_points + worth(i)
         /\ UNCHANGED <<sol, vals, pos, errors, alarm, env, live>>

Exit == /\ at = "gen" /\ i \notin Functions
        /\ at' = "done"
        /\ UNCHANGED <<sol, i, vals, pos, errors, points, max_points,
                       alarm, env, live>>

\* Nothing cancels an alarm but the next one: a jump may go to a call of
\* test_function that has returned, which is undefined.
Alarm == /\ alarm /\ alarm' = FALSE /\ at \notin {"done", "undefined"}
         /\ IF live THEN returned /\ errors' = 1
            ELSE at' = "undefined" /\ UNCHANGED <<live, errors>>
         /\ UNCHANGED <<sol, i, vals, pos, points, max_points, env>>

Main == GenVals \/ Arm \/ Test \/ Score \/ Exit
Next == Main \/ Alarm
Spec == Init /\ [][Next]_vars
\* btest runs on while the solution returns, and the kernel sends the signal.
FairSpec == Spec /\ WF_vars(Main) /\ WF_vars(Alarm)

----------------------------------------------------------------------------
\* gen_vals, test_function and run_tests: a solution that is wrong or hangs
\* at a bound of its ranges, or at zero, gets no points.
WrongAtBounds(k) == /\ sol[k] # Right
                    /\ \A a \in 1..args(k) :
                          sol[k][2][a] \in {min(k, a), max(k, a), 0}
PointsEarned ==
    at = "done" => points <= MapThenSumSet(worth,
                                {k \in Functions : ~WrongAtBounds(k)})

\* gen_vals: the values of an argument fit into arg_test_vals, whether the
\* range is gone through or sampled.  (A range of exactly MAX_TEST_VALS + 1
\* values would not fit; decl.c has none.)
ArrayFits == \A a \in DOMAIN vals : Len(vals[a]) <= MAX_TEST_VALS

\* With a time limit the tests end, however the solutions hang.
TestsEnd == timeout_limit > 0 ~> at \in {"done", "undefined"}
=============================================================================
