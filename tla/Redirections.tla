---------------------------- MODULE Redirections ----------------------------
(***************************************************************************)
(* What the redirections of a shell promise, one command at a time: > makes*)
(* a new file and fills it as the command prints; >+ onto a file that      *)
(* exists puts the output of the command in front of it, in one step; any  *)
(* other command leaves the files alone.  Unless its program is killed, a  *)
(* command does not end before all of its output is where it belongs.      *)
(***************************************************************************)
EXTENDS Sequences, Naturals

CONSTANTS Files,
          ArgsOf(_),    \* the file that a command's output is to go to
          Prepends(_),  \* does the command say >+
          Bytes(_)      \* what the command prints

VARIABLES files,    \* the contents of each file that exists
          running,  \* the command that runs, or <<>> between commands
          onto,     \* is its output to go in front of a file
          own,      \* the file it made and prints into, as a set
          merged,   \* has it put its output in front of a file
          cut       \* was its program killed

vars == <<files, running, onto, own, merged, cut>>

Idle == <<>>
Prefixes(s) == {SubSeq(s, 1, n) : n \in 0..Len(s)}

Init == /\ files = [f \in {} |-> <<>>]
        /\ running = Idle /\ onto = FALSE
        /\ own = {} /\ merged = FALSE /\ cut = FALSE

Begin == /\ running = Idle /\ running' # Idle
         /\ onto' = (Prepends(running') /\ ArgsOf(running') \in DOMAIN files)
         /\ UNCHANGED <<files, own, merged, cut>>

Make(f) == /\ running # Idle /\ ~onto /\ ~cut
           /\ own = {} /\ f = ArgsOf(running) /\ f \notin DOMAIN files
           /\ files' = [g \in DOMAIN files \cup {f} |->
                          IF g = f THEN <<>> ELSE files[g]]
           /\ own' = {f}
           /\ UNCHANGED <<running, onto, merged, cut>>

Fill(f) == /\ f \in own
           /\ \E b \in Prefixes(Bytes(running)) :
                 /\ Len(b) = Len(files[f]) + 1
                 /\ files' = [files EXCEPT ![f] = b]
           /\ UNCHANGED <<running, onto, own, merged, cut>>

Filled == /\ own # {} /\ \A f \in own : files[f] = Bytes(running)
          /\ own' = {}
          /\ UNCHANGED <<files, running, onto, merged, cut>>

Killed == /\ running # Idle /\ ~cut /\ ~merged
          /\ cut' = TRUE /\ own' = {}
          /\ UNCHANGED <<files, running, onto, merged>>

Prepend(f) == /\ onto /\ ~merged /\ f = ArgsOf(running)
              /\ \E b \in Prefixes(Bytes(running)) :
                    /\ cut \/ b = Bytes(running)
                    /\ files' = [files EXCEPT ![f] = b \o @]
              /\ merged' = TRUE
              /\ UNCHANGED <<running, onto, own, cut>>

Done == /\ onto => merged
        /\ ArgsOf(running) \in Files => ArgsOf(running) \in DOMAIN files
End == /\ running # Idle /\ own = {} /\ (Done \/ cut)
       /\ running' = Idle /\ onto' = FALSE /\ merged' = FALSE /\ cut' = FALSE
       /\ UNCHANGED <<files, own>>

Next == \/ Begin \/ Filled \/ Killed \/ End
        \/ \E f \in Files : Make(f) \/ Fill(f) \/ Prepend(f)

Spec == Init /\ [][Next]_vars
=============================================================================
