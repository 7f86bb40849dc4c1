------------------------------ MODULE ShellLab ------------------------------
(***************************************************************************)
(* The shell lab: the processes and files of the shell (Shell), and its    *)
(* two readers (ShellInput).  They share no state: Shell starts from a     *)
(* command's words, wherever they were read.  A behaviour is one of        *)
(* either, and the other stays where it starts.                            *)
(***************************************************************************)
EXTENDS MCShell, ShellInput

VARIABLE part
input_vars == <<reader, batch_vars, word_vars>>

LabInit == /\ \/ part = "shell" /\ reader = "words" /\ cmd = <<>>
              \/ part = "input" /\ scene = Alone
           /\ Init /\ InputInit

LabNext == /\ \/ part = "shell" /\ Next /\ UNCHANGED input_vars
              \/ part = "input" /\ InputNext /\ UNCHANGED vars
           /\ UNCHANGED part

\* The fairness of the part that is not played asks for nothing.
LabSpec == /\ LabInit /\ [][LabNext]_<<part, vars, input_vars>>
           /\ Fairness /\ ReadersGoOn
=============================================================================
