----------------------------- MODULE ShellInput -----------------------------
(***************************************************************************)
(* The two readers of myshell.c: batch_mode's, that takes lines from a     *)
(* file, and run_cmd's, that cuts one command into words.  They share no   *)
(* state; a behaviour is one of a reader, and the other stays where it     *)
(* starts, with an empty file or an empty command.                         *)
(***************************************************************************)
EXTENDS Batch

CONSTANTS Chars, MaxLen

VARIABLES reader, cmd, i, j, formatted, spilled, tally, redirect, words
word_vars == <<cmd, i, j, formatted, spilled, tally, redirect, words>>

Words == INSTANCE CommandWords

ASSUME InputAssumption == Words!CommandAssumption

InputInit == /\ \/ reader = "lines" /\ cmd = <<>>
                \/ reader = "words" /\ script = <<>>
             /\ BatchInit /\ Words!Init
             /\ reader = "words" => closed /\ BufSize = CHOOSE b \in Buffers : TRUE

Lines == reader = "lines" /\ BatchNext
InputNext == /\ \/ Lines /\ UNCHANGED word_vars
                \/ reader = "words" /\ Words!Next /\ UNCHANGED batch_vars
             /\ UNCHANGED reader
\* A shell that is not waiting for a terminal runs on, and its children end.
ReadersGoOn == WF_batch_vars(Lines)
InputSpec == /\ InputInit /\ [][InputNext]_<<reader, batch_vars, word_vars>>
             /\ ReadersGoOn

----------------------------------------------------------------------------
\* batch_mode gives run_cmd the lines of a file in order, once and whole, when
\* it is read at once or no child fails; and it never passes over a byte.
LinesInOrder == LinesOnce /\ NoByteSkipped

\* A batch file like these is read to its exit or end.
BatchEnds == reader = "lines" => FileEnds

\* format_redirection and separate cut a command into the words it means, and
\* the copy with its blanks stays within the memory set aside for it, but for a
\* command that is refused.
WordsAreMeant == Words!WordsAreMeant /\ Words!CopyFits
=============================================================================
