----------------------------- MODULE DriverParts -----------------------------
(***************************************************************************)
(* The parts of the malloc driver that share no state: the judge of        *)
(* RangeCheck, a session's loop over the traces, the clock it measures     *)
(* speed with, and the widths of the sizes it hands to the allocator.  A   *)
(* behaviour is one of a part; the others stay where they start.           *)
(***************************************************************************)
EXTENDS RangeCheck

CONSTANTS num_tracefiles, Utils, MaxErrors,
          W, NEVENT, THRESHOLD, RECORDTHRESH, kbest, maxsamples, percent,
          Costs, Overheads, Period,
          size_bits, int_bits, MAX_HEAP, CHUNKSIZE, Counts, num_calls

VARIABLES part,
          opt, at, i, timed_out, reported, stats, alarm, jump, hung, held,
          garbled_in,
          tsc, quiet, ticks, pc, cyc, oldt, newt, e, cyc_per_tick, cache_buf,
          time, values, samples, own,
          brk, free, last, state, calls

session_vars == <<opt, at, i, timed_out, reported, stats, alarm, jump, hung,
                  held, garbled_in>>
clock_vars == <<tsc, quiet, ticks, pc, cyc, oldt, newt, e, cyc_per_tick,
                cache_buf, time, values, samples, own>>
size_vars == <<brk, free, last, state, calls>>

S == INSTANCE Session WITH errors <- reported, garbles <- garbled_in
T == INSTANCE Timing
Z == INSTANCE SizeWidth

ASSUME PartsAssumption ==
    S!SessionAssumption /\ T!TimingAssumption /\ Z!WidthAssumption

QuietJudge == debug_mode = "NONE" /\ ignore_ranges
PlainSession == opt = [libc |-> FALSE, timeout |-> FALSE, onetime |-> FALSE,
                       weight |-> [t \in S!Trace |-> 0]]

PartsInit == /\ part \in {"ranges", "session", "clock", "sizes"}
             /\ Init /\ (part # "ranges" => QuietJudge)
             /\ S!Init /\ (part # "session" => PlainSession)
             /\ T!Init /\ Z!Init

MainStep == part = "session" /\ S!Main
AlarmStep == part = "session" /\ S!Alarm
MeasureStep == part = "clock" /\ T!Main
InterruptStep == part = "clock" /\ T!Interrupt

PartsNext ==
    /\ \/ part = "ranges" /\ Next /\ UNCHANGED <<session_vars, clock_vars, size_vars>>
       \/ part = "session" /\ S!Next /\ UNCHANGED <<vars, clock_vars, size_vars>>
       \/ part = "clock" /\ T!Next /\ UNCHANGED <<vars, session_vars, size_vars>>
       \/ part = "sizes" /\ Z!Next /\ UNCHANGED <<vars, session_vars, clock_vars>>
    /\ UNCHANGED part

\* The fairness of Session and of Timing, each in its own part.
PartsSpec ==
    /\ PartsInit
    /\ [][PartsNext]_<<part, vars, session_vars, clock_vars, size_vars>>
    /\ WF_session_vars(MainStep) /\ WF_session_vars(AlarmStep)
    /\ WF_clock_vars(MeasureStep) /\ WF_clock_vars(InterruptStep)

----------------------------------------------------------------------------
\* The range list holds the payload of each id that is held, once, and with
\* it two payloads overlap only if one encloses the other (add_range,
\* remove_range).
ListTrue == RangesExact /\ OnlyEnclosed

\* Points are given only when every trace was run to its end with nothing to
\* report, and printresults and main then add up the same figures (main,
\* timeout_handler).
PointsMeanAllWell == S!PointsMeanAllWell /\ S!SumsAgree

\* After a jump out of the allocator it is not called again, and no more than
\* the records of the trace it was in are left behind (run_tests).
NeverReentered == S!NeverReentered /\ S!TypeOK

\* fcyc keeps the K smallest samples and stops when they agree, each counted
\* right across a wrap of the counter's low word, and callibrate records
\* the cost of an interrupt (fcyc.c, clock.c).
Measured == T!TypeOK /\ T!KBest /\ T!CallibratedWell /\ T!CountedWell

\* Below the width of a tag a request is granted exactly when the heap has room
\* for it, and then with enough; otherwise mm_malloc answers NULL and mm_calloc
\* crashes on it.
RightBelowWidth == Z!RightBelowWidth

\* With a timeout the session ends, however the allocator hangs, and a
\* measurement that was begun ends (init_timeout, fcyc).
PartsEnd == S!TimeoutEnds /\ (part = "clock" => T!MeasurementEnds)
=============================================================================
