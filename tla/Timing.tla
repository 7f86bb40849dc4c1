------------------------------- MODULE Timing -------------------------------
(***************************************************************************)
(* The timing library: fsecs calls fcyc (fcyc.c), which runs a function    *)
(* until its K best samples agree, each taken with the cycle counter of    *)
(* clock.c and corrected for the timer interrupts that came meanwhile.     *)
(*                                                                         *)
(* Every step of the program takes a cycle, f some, a timer interrupt many *)
(* more.  The kernel counts a tick for the process at each interrupt; ticks*)
(* is that count less the one the program read last, oldc or start_tick:   *)
(* the code uses nothing but the difference.                               *)
(***************************************************************************)
EXTENDS Integers, Sequences, FiniteSets

CONSTANTS W,            \* bits in a word of the counter
          NEVENT, THRESHOLD, RECORDTHRESH,  \* of clock.c
          kbest, maxsamples, percent,       \* of fcyc.c; percent is epsilon
          Costs,        \* cycles f may take
          Overheads,    \* cycles a timer interrupt may take
          Period        \* bound: least cycles between two interrupts

\* Counters of two words; and a timer slow enough for no run of f and no gap
\* of callibrate's to see two interrupts, on a counter that neither exhausts.
TimingAssumption ==
    /\ kbest \in Nat \ {0} /\ maxsamples \in Nat \ {0} /\ percent \in Nat
    /\ W \in Nat /\ 2^W \in Nat \ {0}
    /\ Costs \subseteq Nat /\ Overheads \subseteq Nat \ {0} /\ Period \in Nat
    /\ NEVENT \in Nat /\ THRESHOLD \in Nat /\ RECORDTHRESH \in Nat
    /\ 2 <= THRESHOLD /\ THRESHOLD <= RECORDTHRESH /\ THRESHOLD + 2 < Period
    /\ \A c \in Costs : c + 4 < Period
    /\ \A o \in Overheads \cup {0} : /\ THRESHOLD + o < 2^W * 2^W
                                    /\ \A c \in Costs : 1 + c + o < 2^W * 2^W

VARIABLES tsc,     \* the processor's cycle counter
          quiet,   \* cycles since the last interrupt, at most Period
          ticks,   \* interrupts since the program read their number
          pc, cyc, \* cyc_hi and cyc_lo
          oldt,    \* callibrate's; then newt, until it becomes oldt
          newt, e, cyc_per_tick, cache_buf,
          time,    \* get_comp_counter's
          values,  \* the K best
          samples, \* all of them, for the properties
          own      \* cycles f itself took
vars == <<tsc, quiet, ticks, pc, cyc, oldt, newt, e, cyc_per_tick, cache_buf,
          time, values, samples, own>>
clock == <<cyc, oldt, newt, e, cyc_per_tick>>
sampler == <<cache_buf, time, values, samples, own>>

Word == 2^W
Cycles == Word * Word

Init == /\ tsc = Cycles - 1 /\ quiet = 0 /\ ticks = 0
        /\ pc = "idle" /\ cyc = [hi |-> 0, lo |-> 0]
        /\ oldt = 0 /\ newt = 0 /\ e = 0 /\ cyc_per_tick = 0
        /\ cache_buf = FALSE /\ time = 0
        /\ values = <<>> /\ samples = <<>> /\ own = 0

Pass(cycles) == /\ tsc' = (tsc + cycles) % Cycles
                /\ quiet' = IF quiet + cycles > Period THEN Period
                                                       ELSE quiet + cycles

\* A step of the program, from one place in it to another.
Step(from, to) == pc = from /\ pc' = to /\ Pass(1)

Interrupt == /\ quiet = Period
             /\ \E o \in Overheads : tsc' = (tsc + o) % Cycles
             /\ quiet' = 0 /\ ticks' = ticks + 1
             /\ UNCHANGED <<pc, clock, sampler>>

access_counter == [hi |-> tsc \div Word, lo |-> tsc % Word]
counter_unborrowed == LET now == access_counter
                      IN  ((now.hi - cyc.hi) % Word) * Word
                              + ((now.lo - cyc.lo) % Word)
get_counter == LET now == access_counter
                   lo == (now.lo - cyc.lo) % Word
                   borrow == IF lo > now.lo THEN 1 ELSE 0
                   hi == (now.hi - cyc.hi - borrow) % Word
               IN  hi * Word + lo

-----------------------------------------------------------------------------
(* callibrate: what does an interrupt cost?                                *)

CalTicks0 == /\ Step("callibrate", "cal_start")
             /\ ticks' = 0 /\ e' = 0
             /\ UNCHANGED <<cyc, oldt, newt, cyc_per_tick, sampler>>
CalStart == /\ Step("cal_start", "cal_old")
            /\ cyc' = access_counter
            /\ UNCHANGED <<ticks, oldt, newt, e, cyc_per_tick, sampler>>
CalOld == /\ Step("cal_old", "cal_new")
          /\ oldt' = get_counter
          /\ UNCHANGED <<ticks, cyc, newt, e, cyc_per_tick, sampler>>

elapsed(now) == (now - oldt) % Cycles

CalNew == /\ LET long == elapsed(get_counter) >= THRESHOLD
             IN  /\ Step("cal_new", IF long THEN "cal_ticks" ELSE "cal_new")
                 /\ newt' = IF long THEN get_counter ELSE newt
          /\ UNCHANGED <<ticks, cyc, oldt, e, cyc_per_tick, sampler>>

cpt == elapsed(newt) \div ticks
recorded_any == cyc_per_tick = 0 \/ cyc_per_tick > cpt
recorded == /\ cyc_per_tick = 0 \/ cyc_per_tick > cpt
            /\ cpt > RECORDTHRESH

CalTicks == /\ IF ticks > 0
                 THEN /\ cyc_per_tick' = IF recorded THEN cpt ELSE cyc_per_tick
                      /\ e' = e + 1
                 ELSE UNCHANGED <<cyc_per_tick, e>>
            /\ Step("cal_ticks", IF e' < NEVENT THEN "cal_new" ELSE "times")
            /\ ticks' = 0 /\ oldt' = newt /\ newt' = 0
            /\ UNCHANGED <<cyc, sampler>>

callibrate == CalTicks0 \/ CalStart \/ CalOld \/ CalNew \/ CalTicks

-----------------------------------------------------------------------------
(* fcyc                                                                    *)

init_sampler == /\ pc = "idle" /\ pc' = "clear"
                /\ values' = <<>> /\ samples' = <<>>
                /\ UNCHANGED <<tsc, quiet, ticks, clock, cache_buf, time, own>>

\* malloc may fail when there is no buffer yet.
clear == \/ /\ Step("clear", IF cyc_per_tick = 0 THEN "callibrate" ELSE "times")
            /\ cache_buf' = TRUE
            /\ UNCHANGED <<ticks, clock, time, values, samples, own>>
         \/ /\ ~cache_buf /\ Step("clear", "exit")
            /\ UNCHANGED <<ticks, clock, sampler>>

StartTicks == /\ Step("times", "counter")
              /\ ticks' = 0
              /\ UNCHANGED <<cyc, e, cyc_per_tick, sampler>>
              /\ oldt' = 0 /\ newt' = 0    \* dead from here on
StartCounter == /\ Step("counter", "f")
                /\ cyc' = access_counter
                /\ UNCHANGED <<ticks, oldt, newt, e, cyc_per_tick, sampler>>

f == /\ pc = "f" /\ pc' = "get"
     /\ \E c \in Costs : own' = c /\ Pass(c)
     /\ UNCHANGED <<ticks, clock, cache_buf, time, values, samples>>

GetCounter == /\ Step("get", "get_ticks")
              /\ time' = get_counter
              /\ UNCHANGED <<ticks, clock, cache_buf, values, samples, own>>

\* The insertion sort takes the last element down to pos + 1.
sorted(s) == LET n == Len(s) - 1
                 v == s[n + 1]
                 pos == CHOOSE k \in 0 .. n : /\ k > 0 => s[k] <= v
                                              /\ \A i \in (k + 1) .. n : s[i] > v
             IN  [i \in 1 .. Len(s) |-> IF i <= pos THEN s[i]
                                       ELSE IF i = pos + 1 THEN v ELSE s[i - 1]]
add_sample_first(val) ==
    /\ samples' = Append(samples, val)
    /\ values' = CASE Len(samples) < kbest -> sorted(Append(values, val))
                   [] Len(samples) >= kbest /\ val < values[1] ->
                          sorted([values EXCEPT ![kbest] = val])
                   [] OTHER -> values
add_sample_uncounted(val) ==
    CASE Len(samples) < kbest ->
             samples' = Append(samples, val) /\ values' = sorted(Append(values, val))
      [] Len(samples) >= kbest /\ val < values[kbest] ->
             /\ samples' = Append(samples, val)
             /\ values' = sorted([values EXCEPT ![kbest] = val])
      [] OTHER -> UNCHANGED <<samples, values>>
add_sample(val) ==
    /\ samples' = Append(samples, val)
    /\ values' = CASE Len(samples) < kbest -> sorted(Append(values, val))
                   [] Len(samples) >= kbest /\ val < values[kbest] ->
                          sorted([values EXCEPT ![kbest] = val])
                   [] OTHER -> values

has_converged == /\ Len(samples') >= kbest
                 /\ (100 + percent) * values'[1] >= 100 * values'[kbest]
again == ~has_converged /\ Len(samples') < maxsamples

GetTicks == /\ add_sample(time - ticks * cyc_per_tick)
            /\ Step("get_ticks", IF again THEN "clear" ELSE "idle")
            /\ time' = 0
            /\ UNCHANGED <<ticks, clock, cache_buf, own>>

result == values[1]

Main == \/ init_sampler \/ clear \/ callibrate \/ StartTicks \/ StartCounter
        \/ f \/ GetCounter \/ GetTicks

Done == pc = "exit" /\ UNCHANGED vars

Next == Main \/ Interrupt \/ Done
Spec == Init /\ [][Next]_vars
\* The program is scheduled, and the timer goes on interrupting it.
FairSpec == Spec /\ WF_vars(Main) /\ WF_vars(Interrupt)

-----------------------------------------------------------------------------
TypeOK == /\ tsc \in 0 .. Cycles - 1 /\ quiet \in 0 .. Period
          /\ ticks \in {0, 1} /\ cache_buf \in BOOLEAN
          /\ {oldt, newt, cyc_per_tick, time} \subseteq 0 .. Cycles - 1
          /\ Len(values) <= kbest /\ Len(samples) <= maxsamples

\* When fcyc ends, the values are the K smallest of all samples in ascending
\* order, and either K samples lie within epsilon of the result or all
\* maxsamples were taken (fcyc.c:67-98, 129-168).
AllBelow(s) == \A i \in DOMAIN s : \A j \in DOMAIN s : i < j => s[i] <= s[j]
Times(s, v) == Cardinality({i \in DOMAIN s : s[i] = v})
Near(s) == {i \in DOMAIN s : 100 * s[i] <= (100 + percent) * result}
KBest ==
    /\ AllBelow(values)
    /\ \A i \in DOMAIN samples :
         LET v == samples[i]
         IN  \/ Times(values, v) = Times(samples, v)
             \/ /\ Times(values, v) < Times(samples, v)
                /\ Len(values) = kbest /\ values[kbest] <= v
    /\ pc = "idle" /\ samples # <<>> =>
         Len(samples) = maxsamples \/ Cardinality(Near(samples)) >= kbest

\* What callibrate records is the cost of an interrupt and at most the cycles
\* of a window beside it, though a window may see an interrupt's tick without
\* its cycles or its cycles without its tick (clock.c:133-168).
CallibratedWell ==
    cyc_per_tick # 0 =>
        \E o \in Overheads : cyc_per_tick \in o .. o + THRESHOLD + 1

\* The cycles of a run are counted right, whether or not the low word of the
\* counter came round meanwhile (clock.c:44-62).
CountedWell ==
    pc = "get_ticks" => \E o \in Overheads \cup {0} : time = own + 1 + o

\* Every measurement ends: callibrate with its events and fcyc with its
\* samples, unless there is no memory for the cache's buffer (fcyc.c:129-168).
MeasurementEnds == pc = "clear" ~> pc \in {"idle", "exit"}
=============================================================================
