----------------------------- MODULE DriverPerf -----------------------------
(***************************************************************************)
(* What mdriver.c does with a trace that eval_mm_valid accepted: the trace *)
(* is replayed on the same heap, emptied but not cleared, by eval_mm_util  *)
(* and then by eval_mm_speed, neither of which checks or fills a payload.  *)
(* A trace is given as the log of eval_mm_valid's requests and answers.    *)
(***************************************************************************)
EXTENDS MDriver

VARIABLES phase, log, pos, total_size, max_total_size

perfvars == <<phase, log, pos, total_size, max_total_size>>

PerfInit == /\ Init
            /\ phase = "valid" /\ log = <<>> /\ pos = 1
            /\ total_size = 0 /\ max_total_size = 0

Entry(op, i, size, p) == [op |-> op, index |-> i, size |-> size, ptr |-> p]
logged(entry) == log' = Append(log, entry)

(* eval_mm_valid's requests, with the answers to those that have one.      *)
Valid ==
  /\ phase = "valid"
  /\ \/ StartTrace /\ log' = <<>>
     \/ /\ \E i \in Index : \E size \in Sizes : Alloc(i, size) \/ Realloc(i, size)
        /\ UNCHANGED log
     \/ \E i \in Index : Free(i) /\ logged(Entry("free", i, 0, NULL))
     \/ FreeNull /\ logged(Entry("free", NoIndex, 0, NULL))
     \/ Step /\ UNCHANGED log
     \/ AllocReturn /\ logged(Entry("malloc", index, req.size, bp))
     \/ ReallocReturn /\ logged(Entry("realloc", index, req.size, bp))
  /\ UNCHANGED <<phase, pos, total_size, max_total_size>>

(* reinit_trace, mem_reset_brk and mm_init before a replay.                *)
restart ==
  /\ mem' = mm_init(mem) /\ brk' = mm_init_brk
  /\ blocks' = [i \in Index |-> NULL] /\ block_sizes' = [i \in Index |-> 0]
  /\ pos' = 1 /\ total_size' = 0
  /\ UNCHANGED <<pc, req, bp, ranges, index, errors, running, opnum, tracenum, log>>

EvalUtil == /\ phase = "valid" /\ pc = "idle" /\ running /\ log # <<>>
            /\ phase' = "util" /\ max_total_size' = 0
            /\ restart
EvalSpeed == /\ phase = "util" /\ pc = "idle" /\ pos > Len(log)
             /\ phase' = "speed" /\ UNCHANGED max_total_size
             /\ restart

now == log[pos]
ptr(i) == IF i = NoIndex THEN NULL ELSE blocks[i]
size_of(i) == IF i = NoIndex THEN 0 ELSE block_sizes[i]

ReplayCall ==
  /\ phase \in {"util", "speed"} /\ pc = "idle" /\ pos <= Len(log)
  /\ \/ now.op = "malloc" /\ mm_malloc(now.size)
     \/ now.op = "realloc" /\ mm_realloc(ptr(now.index), now.size)
  /\ index' = now.index
  /\ UNCHANGED <<blocks, block_sizes, ranges, errors, running, opnum, tracenum, perfvars>>

(* eval_mm_util's count of the bytes the client holds.                     *)
count(change) ==
  /\ total_size' = IF phase = "util" THEN total_size + change ELSE total_size
  /\ max_total_size' = IF total_size' > max_total_size THEN total_size'
                                                       ELSE max_total_size
ReplayFree ==
  /\ phase \in {"util", "speed"} /\ pc = "idle" /\ pos <= Len(log)
  /\ now.op = "free"
  /\ mem' = mm_free(mem, ptr(now.index))
  /\ count(-size_of(now.index)) /\ pos' = pos + 1
  /\ UNCHANGED <<brk, pc, req, bp, drvvars, phase, log>>

ReplayStep == /\ phase \in {"util", "speed"}
              /\ Step /\ UNCHANGED perfvars

(* Mutant: the old size of a reallocated block goes on counting.           *)
added_gross == now.size
(* The change of an answered request; an id holds 0 before its malloc.     *)
added == IF now.op = "realloc" THEN now.size - block_sizes[now.index]
                               ELSE now.size

ReplayReturn ==
  /\ phase \in {"util", "speed"} /\ pc = "ret"
  /\ mm_return /\ index' = NoIndex
  /\ IF bp = NULL /\ now.size # 0
     THEN /\ phase' = "died"     \* app_error
          /\ UNCHANGED <<blocks, block_sizes, pos, total_size, max_total_size>>
     ELSE /\ blocks' = [blocks EXCEPT ![now.index] = bp]
          /\ block_sizes' = IF phase = "util"
                            THEN [block_sizes EXCEPT ![now.index] = now.size]
                            ELSE block_sizes
          /\ count(added) /\ pos' = pos + 1
          /\ UNCHANGED phase
  /\ UNCHANGED <<mem, brk, ranges, errors, running, opnum, tracenum, log>>

PerfNext == \/ Valid \/ EvalUtil \/ EvalSpeed
            \/ ReplayCall \/ ReplayFree \/ ReplayStep \/ ReplayReturn

PerfSpec == PerfInit /\ [][PerfNext]_<<vars, perfvars>>

----------------------------------------------------------------------------
(* Both replays get the answers eval_mm_valid got: what the allocator does *)
(* depends neither on what a heap that is only emptied still holds nor on  *)
(* the payloads, so that what is measured is what was checked, and no      *)
(* replay runs out of memory (mdriver.c:967-1103).                         *)
ReplayAgrees ==
  /\ phase # "died"
  /\ phase # "valid" /\ pc = "ret" => bp = now.ptr

(* Utilisation is at most 1: while it is counted, the most the client ever *)
(* held at once fits in the heap ("1 is optimal", mdriver.c:965).          *)
UtilAtMostOne ==
  phase = "util" => max_total_size <= byte(brk) - byte(HeapBase)

(* What eval_mm_util and eval_mm_speed measure is what was checked, and    *)
(* neither a replay nor the utilisation is off (mdriver.c:967-1103).       *)
ReplaysTrue == ReplayAgrees /\ UtilAtMostOne
=============================================================================
