---------------------------- MODULE CommandWords ----------------------------
(***************************************************************************)
(* How myshell.c turns a command into words: format_redirection copies it  *)
(* character by character and sets blanks around a redirection sign, and   *)
(* separate cuts the copy at blanks.  Every string of at most MaxLen       *)
(* characters is a command; MaxLen stands for the 512 of a line, and Room  *)
(* for the 514 bytes that malloc is asked for.  That memory and what       *)
(* follows it are zero here, as they are when first used; Shell has the    *)
(* other case.                                                             *)
(***************************************************************************)
EXTENDS Integers, Sequences, SequencesExt

CONSTANTS Chars,   \* the characters of a command
          MaxLen   \* bound: length of a command

VARIABLES cmd, i, j, formatted,
          spilled,  \* has a character been written behind the room
          tally, redirect, words

vars == <<cmd, i, j, formatted, spilled, tally, redirect, words>>

CommandAssumption ==
    {" ", ">", "+"} \subseteq Chars /\ MaxLen \in Nat

NUL == "0"
Room == MaxLen + 2
spaces == {" "}   \* one of the six blanks; the code treats them alike
Strings == UNION {[1..n -> Chars] : n \in 0..MaxLen}
at(s, k) == IF k \in DOMAIN s THEN s[k] ELSE NUL
none == <<<<NUL>>>>  \* no command has this word

Init == /\ cmd \in Strings
        /\ i = 0 /\ j = 0 /\ tally = 0 /\ redirect = -1
        /\ formatted = [k \in 0..(Room - 1) |-> NUL] /\ spilled = FALSE
        /\ words = none

c(k) == at(cmd, k + 1)  \* cmd[k] of the code, which counts from 0

writes(places) == spilled' = (spilled \/ \E k \in places : k >= Room)

CopyChar == /\ c(i) \notin {NUL, ">"}
            /\ formatted' = [formatted EXCEPT ![j] = c(i)] /\ writes({j})
            /\ i' = i + 1 /\ j' = j + 1
            /\ UNCHANGED <<cmd, tally, redirect, words>>

PadAdv_tight == \* mutant: forgets that the sign takes two characters
          /\ c(i) = ">" /\ c(i + 1) = "+"
          /\ formatted' = [formatted EXCEPT ![i] = " ", ![j + 1] = ">",
                              ![j + 2] = "+", ![j + 3] = " "]
          /\ writes({i, j + 1, j + 2, j + 3})
          /\ i' = i + 1 /\ j' = j + 4
          /\ tally' = tally + 1 /\ redirect' = 2
          /\ UNCHANGED <<cmd, words>>
PadAdv == /\ c(i) = ">" /\ c(i + 1) = "+"
          /\ formatted' = [formatted EXCEPT ![i] = " ", ![j + 1] = ">",
                              ![j + 2] = "+", ![j + 3] = " "]
          /\ writes({i, j + 1, j + 2, j + 3})
          /\ i' = i + 2 /\ j' = j + 4
          /\ tally' = tally + 1 /\ redirect' = 2
          /\ UNCHANGED <<cmd, words>>

PadNorm_glued == \* mutant: no blank after the sign
           /\ c(i) = ">" /\ c(i + 1) # "+"
           /\ formatted' = [formatted EXCEPT ![j] = " ", ![j + 1] = ">"]
           /\ writes({j, j + 1})
           /\ i' = i + 1 /\ j' = j + 2
           /\ tally' = tally + 1 /\ redirect' = 1
           /\ UNCHANGED <<cmd, words>>
PadNorm == /\ c(i) = ">" /\ c(i + 1) # "+"
           /\ formatted' = [formatted EXCEPT ![j] = " ", ![j + 1] = ">",
                               ![j + 2] = " "]
           /\ writes({j, j + 1, j + 2})
           /\ i' = i + 1 /\ j' = j + 3
           /\ tally' = tally + 1 /\ redirect' = 1
           /\ UNCHANGED <<cmd, words>>

\* strtok: the maximal runs of characters that are no blanks.
strtok(s) ==
    LET put(acc, x) ==
            IF x \in spaces THEN [acc EXCEPT !.inside = FALSE]
            ELSE IF acc.inside
            THEN [acc EXCEPT !.out[Len(acc.out)] = Append(@, x)]
            ELSE [out |-> Append(acc.out, <<x>>), inside |-> TRUE]
    IN  FoldLeft(put, [out |-> <<>>, inside |-> FALSE], s).out
text == LET full == {k \in DOMAIN formatted : \A m \in 0..k : formatted[m] # NUL}
        IN  [k \in {m + 1 : m \in full} |-> formatted[k - 1]]

\* A command with a second sign is refused and not cut.
Separate == /\ c(i) = NUL /\ words = none
            /\ redirect' = IF tally > 1 THEN -2 ELSE redirect
            /\ words' = IF tally > 1 THEN <<>> ELSE strtok(text)
            /\ UNCHANGED <<cmd, i, j, formatted, spilled, tally>>

Next == CopyChar \/ PadAdv \/ PadNorm \/ Separate
Spec == Init /\ [][Next]_vars

----------------------------------------------------------------------------
(***************************************************************************)
(* What a command means: the words before the sign, the sign, the words    *)
(* after it; two signs are an error, whatever else the command holds.      *)
(***************************************************************************)
Signs == {k \in DOMAIN cmd : cmd[k] = ">"}
Meaning ==
    IF Signs = {} THEN [redirect |-> -1, words |-> strtok(cmd)]
    ELSE LET k == CHOOSE x \in Signs : TRUE
             adv == at(cmd, k + 1) = "+"
             rest == SubSeq(cmd, k + (IF adv THEN 2 ELSE 1), Len(cmd))
         IN  [redirect |-> IF adv THEN 2 ELSE 1,
              words |-> strtok(SubSeq(cmd, 1, k - 1))
                        \o <<IF adv THEN <<">", "+">> ELSE <<">">>>>
                        \o strtok(rest)]

\* format_redirection and separate: with or without blanks around the sign,
\* next to a + or at an end, a command is cut into the words it means.
WordsAreMeant ==
    words # none => IF Len(SelectSeq(cmd, LAMBDA x : x = ">")) > 1
                    THEN redirect = -2
                    ELSE Meaning = [redirect |-> redirect, words |-> words]

\* The copy stays within the memory set aside for it (malloc(514), myshell.c:70),
\* unless the command has more than one sign: the code refuses such a command
\* only after it has been copied (myshell.c:99), and enough signs, each padded
\* with two blanks, are written behind that memory.
CopyFits == spilled => tally > 1
=============================================================================
