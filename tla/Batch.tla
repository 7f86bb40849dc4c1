------------------------------- MODULE Batch -------------------------------
(***************************************************************************)
(* batch_mode of myshell.c.  getline takes a line from a stream, which     *)
(* reads the file a buffer at a time, cut wherever the buffer ends; parent *)
(* and children share the offset in the file.  A child that runs no program*)
(* ends with exit(0), and the C library then moves that offset back by the *)
(* bytes that its copy of the stream holds unread.  What the stream reads  *)
(* after that begins where those bytes began, in mid-line as it may be.    *)
(***************************************************************************)
EXTENDS Naturals, Sequences, SequencesExt

CONSTANTS MaxLines, MaxBytes,  \* bounds: of a batch file
          Buffers,   \* how many bytes a buffer may hold
          MaxForks,  \* bound: commands of a line
          MaxRun     \* bound: lines given to run_cmd

\* A line is not run at all (blank, or too long), or it is a built-in or exit, or
\* its commands run programs, or some of them may fail in the child: no such
\* program, or a redirection that is refused.
Kinds == {"skipped", "built in", "exit", "run", "fail"}

VARIABLES script,  \* the kinds of the file's lines
          ends,    \* the bytes of the file up to the end of each
          closed,  \* does the last one end in a newline
          BufSize,
          offset,  \* in the file
          next, limit,   \* the bytes of the file that the stream holds unread
          got, torn,     \* the bytes getline has of a line so far; are they not
                         \* the ones in front of next
          children, fails,  \* the line's commands still to run; may they fail
          ran,     \* the lines given to run_cmd, 0 for a text that is no line
          over     \* has the shell ended

batch_vars == <<script, ends, closed, BufSize, offset, next, limit, got, torn,
                children, fails, ran, over>>
file == <<script, ends, closed, BufSize>>

ASSUME BatchAssumption == /\ MaxLines \in Nat /\ MaxBytes \in Nat
                          /\ Buffers \subseteq Nat \ {0}
                          /\ MaxForks \in Nat /\ MaxRun \in Nat

BatchInit ==
    /\ \E n \in 0..MaxLines :
          /\ script \in [1..n -> Kinds]
          /\ ends \in {e \in [1..n -> 1..MaxBytes] :
                          \A k, m \in 1..n : k < m => e[k] < e[m]}
    /\ closed \in BOOLEAN /\ BufSize \in Buffers
    /\ offset = 0 /\ next = 0 /\ limit = 0 /\ got = 0 /\ torn = FALSE
    /\ children = 0 /\ fails = FALSE /\ ran = <<>> /\ over = FALSE

size == IF ends = <<>> THEN 0 ELSE Last(ends)
begins(k) == IF k = 1 THEN 0 ELSE ends[k - 1]

-----------------------------------------------------------------------------
(* getline                                                                 *)

Reading == ~over /\ children = 0

FillBuffer ==
    /\ Reading /\ next = limit /\ offset < size
    /\ next' = offset
    /\ limit' = IF size - offset < BufSize THEN size ELSE offset + BufSize
    /\ offset' = limit'
    /\ torn' = (torn \/ (got > 0 /\ offset # next))
    /\ UNCHANGED <<file, got, children, fails, ran, over>>

\* The stream holds the end of line k.
InBuffer(k) == /\ next < limit /\ begins(k) <= next /\ next < ends[k]
               /\ ends[k] <= limit /\ (k = Len(ends) => closed)
AtEOF == next = limit /\ offset = size

HoldPart == /\ Reading /\ next < limit /\ ~\E k \in DOMAIN ends : InBuffer(k)
            /\ got' = got + (limit - next) /\ next' = limit
            /\ UNCHANGED <<file, offset, limit, torn, children, fails, ran, over>>

NoMoreLines == /\ Reading /\ AtEOF /\ got = 0
               /\ over' = TRUE
               /\ UNCHANGED <<file, offset, next, limit, got, torn, children, fails, ran>>

\* What getline returns ends with line k.  It is that line, or a part of it, or
\* has a part of another line in front: then it may be anything, but for the
\* newline alone.
is_line(k) == ~torn /\ next - got = begins(k)
kinds(k) == IF is_line(k) THEN {script[k]}
            ELSE IF got = 0 /\ ends[k] - next = 1 /\ (k = Len(ends) => closed)
            THEN {"skipped"} ELSE Kinds

takes(k, kind) ==
    /\ Reading
    /\ InBuffer(k) \/ (AtEOF /\ got > 0 /\ k = Len(ends))
    /\ kind \in kinds(k)
    /\ next' = ends[k] /\ got' = 0 /\ torn' = FALSE
    /\ UNCHANGED <<file, offset, limit>>
gives(k) == /\ Len(ran) < MaxRun
            /\ ran' = Append(ran, IF is_line(k) THEN k ELSE 0)

-----------------------------------------------------------------------------
(* The loop of batch_mode, and run_cmd                                     *)

SkipLine(k) == takes(k, "skipped") /\ UNCHANGED <<children, fails, ran, over>>

RunBuiltIn(k) == /\ takes(k, "built in") /\ gives(k)
                 /\ UNCHANGED <<children, fails, over>>

RunExit_forked(k) == \* mutant: exit runs in a child
              /\ takes(k, "exit") /\ gives(k)
              /\ children' = 1 /\ UNCHANGED <<fails, over>>
RunExit(k) == /\ takes(k, "exit") /\ gives(k)
              /\ over' = TRUE /\ UNCHANGED <<children, fails>>

ForkLine(k) == \E kind \in {"run", "fail"} :
                  /\ takes(k, kind) /\ gives(k)
                  /\ fails' = (kind = "fail")
                  /\ children' \in 1..MaxForks /\ UNCHANGED over

\* The child's stream holds what the parent's held when it forked.  An offset
\* before the file's start is refused.
given_back == IF limit - next <= offset THEN offset - (limit - next) ELSE offset
ChildExits_forward == \* mutant: a child that fails reads a buffer on
              /\ children > 0 /\ children' = children - 1
              /\ offset' \in {offset} \cup
                     (IF fails THEN {IF offset + BufSize < size THEN offset + BufSize
                                     ELSE size} ELSE {})
              /\ fails' = (fails /\ children > 1)
              /\ UNCHANGED <<file, next, limit, got, torn, ran, over>>
ChildExits == /\ children > 0 /\ children' = children - 1
              /\ offset' \in {offset} \cup (IF fails THEN {given_back} ELSE {})
              /\ fails' = (fails /\ children > 1)
              /\ UNCHANGED <<file, next, limit, got, torn, ran, over>>

BatchNext == \/ FillBuffer \/ HoldPart \/ NoMoreLines \/ ChildExits
             \/ \E k \in DOMAIN ends :
                   SkipLine(k) \/ RunBuiltIn(k) \/ RunExit(k) \/ ForkLine(k)

----------------------------------------------------------------------------
(***************************************************************************)
(* Offsets given back do no harm to batch files like those of the test     *)
(* suite: they fit the buffer and end in an exit, so a failing line never  *)
(* has to be followed by a second read.  Nor do buffers that end in        *)
(* mid-line, when no child fails.  With both, getline may return lines     *)
(* again, parts of lines, and parts of two glued together: "true, nosuch,  *)
(* nosuch2, end" in one buffer moves the offset from 24 to 12 and to 8, and*)
(* then "uch" is run.                                                      *)
(***************************************************************************)
LikeTheTests == size <= BufSize /\ closed /\ script # <<>> /\ Last(script) = "exit"
NoneFails == \A k \in DOMAIN script : script[k] # "fail"

\* batch_mode: such a file's lines are given to run_cmd once each, in order and
\* whole, up to an exit.
LinesOnce ==
    LikeTheTests \/ NoneFails =>
       \A k \in 1..Len(ran) :
          /\ ran[k] \in DOMAIN script
          /\ script[ran[k]] # "skipped"
          /\ {n \in 1..ran[k] : script[n] # "skipped"} = {ran[m] : m \in 1..k}
          /\ k > 1 => ran[k - 1] < ran[k]

\* Whatever fails, no byte of the file is passed over: the next read begins, at
\* the latest, where what was read before ends.
NoByteSkipped == offset <= limit

\* Such a file is read to its exit or end.
FileEnds == LikeTheTests \/ NoneFails ~> over
=============================================================================
