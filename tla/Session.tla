------------------------------ MODULE Session ------------------------------
(***************************************************************************)
(* A session of mdriver.c: main, run_tests and the timer.  What happens    *)
(* inside the evaluation of one trace is MDriver's business; here it has   *)
(* an outcome, or never ends.  SIGALRM may come before any step.           *)
(***************************************************************************)
EXTENDS Naturals, FiniteSets, FiniteSetsExt

CONSTANTS num_tracefiles,
          Utils,      \* utilisations a trace may show, in percent
          MaxErrors   \* bound: errors are counted up to here

Trace == 1..num_tracefiles

VARIABLES opt,        \* options: libc, timeout, onetime, and the weights
          at,         \* where the program stands
          i,          \* the loop's trace
          timed_out,  \* run_tests has seen the jump
          errors,     \* errors reported
          stats,      \* mm_stats
          alarm,      \* "off", "set" or "gone"
          jump,       \* timeout_jmpbuf: "unset", "set", or "stale" when
                      \* run_tests has returned
          hung,       \* the allocator loops for ever
          held,       \* trace records read and not freed
          garbles     \* traces of which a garbled payload was reported

vars == <<opt, at, i, timed_out, errors, stats, alarm, jump, hung, held,
          garbles>>

SessionAssumption ==
    num_tracefiles \in Nat \ {0} /\ Utils \subseteq Nat /\ MaxErrors \in Nat \ {0}

Options == [libc : BOOLEAN, timeout : BOOLEAN, onetime : BOOLEAN,
            weight : [Trace -> {0, 1}]]
NoStats == [valid |-> FALSE, util |-> 0, secs |-> 0]  \* calloc

Init == /\ opt \in Options
        /\ at = IF opt.libc THEN "libc_read" ELSE "next"
        /\ i = 1 /\ timed_out = FALSE /\ errors = 0
        /\ stats = [t \in Trace |-> NoStats]
        /\ alarm = IF opt.timeout THEN "set" ELSE "off"
        /\ jump = "unset" /\ hung = FALSE /\ held = 0 /\ garbles = {}

goes(from, to) == at = from /\ at' = to /\ ~hung
same == UNCHANGED <<opt, timed_out, alarm, hung>>
plus_one == IF errors < MaxErrors THEN errors + 1 ELSE errors
dies == at' = "failed" /\ UNCHANGED <<i, errors, stats, jump, held, garbles>>

----------------------------------------------------------------------------
\* main's loop over the libc allocator.

LibcRead == /\ goes("libc_read", "libc_valid")
            /\ held' = held + 1
            /\ UNCHANGED <<i, errors, stats, jump, garbles>> /\ same
LibcEval == /\ \/ goes("libc_valid", "libc_speed")
               \/ goes("libc_speed", "libc_free")
            /\ UNCHANGED <<i, errors, stats, jump, held, garbles>> /\ same
LibcFree == /\ goes("libc_free", IF i < num_tracefiles THEN "libc_read"
                                 ELSE "next")
            /\ i' = IF i < num_tracefiles THEN i + 1 ELSE 1
            /\ held' = held - 1
            /\ UNCHANGED <<errors, stats, jump, garbles>> /\ same

\* A trace file that cannot be read, an allocator that fails where it must
\* not: unix_error, app_error and assert end the program.
Dies == /\ at \in {"libc_read", "libc_valid", "libc_speed", "read", "util",
                   "speed"}
        /\ ~hung /\ dies /\ same

----------------------------------------------------------------------------
\* run_tests.

NextTrace == \/ /\ i <= num_tracefiles
                /\ goes("next", "read")
                /\ jump' = "set"
                /\ UNCHANGED <<i, errors, stats, held, garbles>> /\ same
             \/ /\ i > num_tracefiles
                /\ goes("next", "report")
                /\ jump' = "stale"
                /\ UNCHANGED <<i, errors, stats, held, garbles>> /\ same

ReadTrace_again == \* mutant: evaluates a trace that timed out once more
             /\ goes("read", "valid")
             /\ held' = held + 1
             /\ UNCHANGED <<i, errors, stats, jump, garbles>> /\ same
ReadTrace == /\ goes("read", IF timed_out THEN "free" ELSE "valid")
             /\ held' = held + 1
             /\ stats' = IF timed_out THEN [stats EXCEPT ![i].valid = FALSE]
                         ELSE stats
             /\ UNCHANGED <<i, errors, jump, garbles>> /\ same

\* eval_mm_valid: nothing to report, garbled payloads only, or an error that
\* makes it return 0.
EvalValid ==
    \E outcome \in {"clean", "garbled", "error"} :
       /\ goes("valid", IF opt.onetime THEN "report"
                        ELSE IF outcome = "error" THEN "free" ELSE "util")
       /\ stats' = [stats EXCEPT ![i].valid = outcome # "error"]
       /\ errors' = IF outcome = "clean" THEN errors ELSE plus_one
       /\ garbles' = IF outcome = "garbled" THEN garbles \cup {i} ELSE garbles
       /\ held' = IF opt.onetime THEN held - 1 ELSE held
       /\ jump' = IF opt.onetime THEN "stale" ELSE jump
       /\ UNCHANGED i /\ same

EvalUtil == /\ goes("util", "speed")
            /\ \E u \in Utils : stats' = [stats EXCEPT ![i].util = u]
            /\ UNCHANGED <<i, errors, jump, held, garbles>> /\ same
EvalSpeed == /\ goes("speed", "free")
             /\ stats' = [stats EXCEPT ![i].secs = 1]
             /\ UNCHANGED <<i, errors, jump, held, garbles>> /\ same

FreeTrace_once == \* mutant: a timed out trace is skipped with continue
             /\ goes("free", "step")
             /\ held' = IF timed_out THEN held ELSE held - 1
             /\ UNCHANGED <<i, errors, stats, jump, garbles>> /\ same
FreeTrace == /\ goes("free", "step")
             /\ held' = held - 1
             /\ UNCHANGED <<i, errors, stats, jump, garbles>> /\ same
StepTrace == /\ goes("step", "next")
             /\ i' = i + 1
             /\ UNCHANGED <<errors, stats, jump, held, garbles>> /\ same

Hang == /\ at \in {"valid", "util", "speed"} /\ ~hung
        /\ hung' = TRUE
        /\ UNCHANGED <<opt, at, i, timed_out, errors, stats, alarm, jump,
                       held, garbles>>

(***************************************************************************)
(* timeout_handler jumps to wherever timeout_jmpbuf was last set.  It is   *)
(* set in run_tests only.  A jump to a buffer that was never set, or whose *)
(* function has returned, is undefined, and so is what run_tests does with *)
(* trace num_tracefiles + 1; here that ends the session.                   *)
(***************************************************************************)
rings == /\ alarm = "set" /\ alarm' = "gone"
         /\ at \notin {"done", "failed", "undefined"}
         /\ hung' = FALSE
         /\ UNCHANGED <<opt, i, stats, jump, held, garbles>>
lands == IF jump = "set" /\ i <= num_tracefiles
         THEN timed_out' = TRUE /\ at' = "read"
         ELSE at' = "undefined" /\ UNCHANGED timed_out
Alarm_uncounted == \* mutant: the handler leaves errors alone
         rings /\ lands /\ UNCHANGED errors
Alarm_retry == \* mutant: run_tests does not look at what setjmp returned
         /\ rings /\ UNCHANGED timed_out
         /\ at' = IF jump = "set" /\ i <= num_tracefiles THEN "read"
                  ELSE "undefined"
         /\ errors' = 1
Alarm == rings /\ lands /\ errors' = 1

----------------------------------------------------------------------------
\* main: results, aggregates, score.

Report == /\ goes("report", "score")
          /\ UNCHANGED <<i, errors, stats, jump, held, garbles>> /\ same
Score == /\ goes("score", "done")
         /\ UNCHANGED <<i, errors, stats, jump, held, garbles>> /\ same

summed(T, f) == MapThenSumSet(LAMBDA t : f[t] * opt.weight[t], T)
Valid == {t \in Trace : stats[t].valid}
util_of == [t \in Trace |-> stats[t].util]
secs_of == [t \in Trace |-> stats[t].secs]
ops_of == [t \in Trace |-> 20]  \* thousands of requests; MAX_SPEED is 15 of them a second

weight == Cardinality({t \in Trace : opt.weight[t] = 1})
capped(x, max, points) == IF x > max THEN points ELSE (points * x) \div max
avg_mm_util == IF weight = 0 THEN 0 ELSE summed(Trace, util_of) \div weight
avg_mm_throughput ==
    IF weight = 0 \/ summed(Trace, secs_of) = 0 THEN 0
    ELSE summed(Trace, ops_of) \div summed(Trace, secs_of)
perfindex == IF errors # 0 THEN 0
             ELSE capped(avg_mm_util, 93, 60) + capped(avg_mm_throughput, 15, 40)
numcorrect == Cardinality(Valid)

\* printresults adds up the valid traces only.
printed_util == summed(Valid, util_of)
printed_ops == summed(Valid, ops_of)

Main == \/ LibcRead \/ LibcEval \/ LibcFree \/ NextTrace \/ ReadTrace
        \/ EvalValid \/ EvalUtil \/ EvalSpeed \/ FreeTrace \/ StepTrace
        \/ Report \/ Score
Next == Main \/ Dies \/ Hang \/ Alarm
Spec == Init /\ [][Next]_vars
\* The program runs on while it does not hang, and the kernel delivers the
\* signal.
FairSpec == Spec /\ WF_vars(Main) /\ WF_vars(Alarm)

----------------------------------------------------------------------------
Ended == at \in {"done", "failed", "undefined"}

\* The records read and not freed are the one in use and at most one that a
\* jump left behind; every statistic keeps its type.
TypeOK == /\ errors \in 0..MaxErrors /\ i \in 1..(num_tracefiles + 1)
          /\ stats \in [Trace -> [valid : BOOLEAN, util : Utils \cup {0},
                                  secs : {0, 1}]]
          /\ held \in 0..2 /\ garbles \subseteq Trace
          /\ at = "done" => held <= 1
          /\ at = "done" /\ ~timed_out => held = 0

\* main and timeout_handler: points are given only when every trace was run
\* to its end with nothing to report, whichever errors came in which order.
PointsMeanAllWell ==
    at = "done" /\ perfindex > 0 /\ ~opt.onetime
       => Valid = Trace /\ garbles = {} /\ ~timed_out

\* run_tests: the allocator is not called again after a jump out of it, which
\* may have left it between any two of its instructions.
NeverReentered == timed_out => at \notin {"valid", "util", "speed"}

\* printresults and main add up the same figures whenever both print them.
SumsAgree ==
    at = "done" /\ errors = 0 /\ ~opt.onetime
       => /\ printed_util = summed(Trace, util_of)
          /\ printed_ops = summed(Trace, ops_of)

\* init_timeout: with a timeout the session ends, however the allocator hangs.
TimeoutEnds == opt.timeout ~> Ended

----------------------------------------------------------------------------
\* "Time out the driver if student code hangs": the signal is always taken to
\* where timeouts are handled.
TimeoutHandled == at # "undefined"
=============================================================================
