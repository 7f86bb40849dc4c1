----------------------------- MODULE ShellProps -----------------------------
(***************************************************************************)
(* What the redirections of Shell guarantee: for one shell, across crashes *)
(* of a shell, and for two shells side by side.                            *)
(***************************************************************************)
EXTENDS Shell, SequencesExt

Files == Dirs \X Base
Chunks == {ERR} \cup UNION {Range(Prints[c]) : c \in DOMAIN Prints}

\* Every variable has its type; no inode has two names; the parent reads only
\* what it has opened.
TypeOK ==
    /\ dir \in [Names -> Inodes \cup {None}]
    /\ data \in [Inodes -> Seq(Chunks)]
    /\ \A m, n \in Names : m # n /\ dir[m] # None => dir[m] # dir[n]
    /\ \A p \in Shells :
          /\ {sh[p].tmp, sh[p].adv, sh[p].new} \subseteq Inodes \cup {None}
          /\ sh[p].pc \in {"unborn", "idle", "wait", "open_tmp", "open_adv",
                "open_new", "copy", "close", "remove_adv", "remove_tmp",
                "rename", "gone"}
          /\ child[p].st \in {"redirect", "create", "create_tmp", "exec",
                              "run", "done"}
          /\ child[p].out \in Inodes \cup {Tty}
          /\ child[p].st # "done" => sh[p].pc \in {"wait", "gone"}

----------------------------------------------------------------------------
(***************************************************************************)
(* One shell that nobody kills, and whose programs may be killed: its many *)
(* calls amount to those of Redirections.  The new contents count as the   *)
(* file's own from the moment the old file is removed until newfile.txt has*)
(* its name.                                                               *)
(***************************************************************************)
Renaming(f) == {p \in Shells : /\ sh[p].pc \in {"remove_tmp", "rename"}
                               /\ target(p) = f}
contents(n) == IF dir[n] = None THEN None ELSE data[dir[n]]
Busy == {p \in Shells : sh[p].pc \notin {"unborn", "idle", "gone"}}
legal(w) == /\ Cardinality(signs(w)) = 1
            /\ word(w, sign(w) + 1) # None /\ word(w, sign(w) + 2) = None

RedirectedTo(w) ==  \* the commands of the scene change no directory
    IF legal(w) THEN <<Home, w[sign(w) + 1]>> ELSE None
IsPrepend(w) == format_redirection(w) = 2
Printed(w) ==
    LET a == IF signs(w) = {} THEN w ELSE SubSeq(w, 1, sign(w) - 1) IN
    IF a = <<>> THEN <<>>
    ELSE IF a[1] \in DOMAIN Prints THEN Prints[a[1]] ELSE <<ERR>>

alone == /\ ~Together /\ ~CanCrash /\ ~CanFail
         /\ \E p \in Shells : Actors = {p}
         /\ \A w \in Commands : word(w, 1) # "cd"

\* The name that a file's contents have, and what each file holds.
shown(f) == IF Renaming(f) = {} THEN f
            ELSE newfile_txt(CHOOSE p \in Renaming(f) : TRUE)
Contents == [f \in {g \in Files : alone /\ dir[shown(g)] # None} |->
               data[dir[shown(f)]]]
Running == IF ~alone \/ Busy = {} THEN <<>> ELSE sh[CHOOSE p \in Busy : TRUE].words
Made == {f \in Files : /\ alone /\ dir[f] # None
                       /\ \E p \in Shells : child[p].out = dir[f]}
Merged == alone /\ \E f \in Files : Renaming(f) # {}
Onto == Running # <<>> /\ \E p \in Busy : sh[p].exists /\ legal(sh[p].words)
Cut == Running # <<>> /\ \E p \in Busy : child[p].signaled

Promise == INSTANCE Redirections WITH
    ArgsOf <- RedirectedTo, Prepends <- IsPrepend, Bytes <- Printed,
    files <- Contents, running <- Running, onto <- Onto,
    own <- Made, merged <- Merged, cut <- Cut

\* run_cmd and redirection: a file is made and filled as the command prints, or
\* has the command's output put in front of it at once, and nothing else happens
\* to it; and unless the program was killed, it is the whole output, and it is
\* there when the command ends.
RedirectionSpec == Promise!Spec

----------------------------------------------------------------------------
within(s, t) == \E i \in 0..(Len(t) - Len(s)) : SubSeq(t, i + 1, i + Len(s)) = s

(***************************************************************************)
(* Whenever a shell is killed, and another one started when its child has  *)
(* ended, run_cmd loses no contents of any file, with one exception: the   *)
(* next merge empties a newfile.txt that the crash left behind.            *)
(***************************************************************************)
NothingLost ==
    [][~Together /\ ~CanFail => \A n \in Names :
          \/ dir[n] = None \/ n[2] = "tmp.txt"
          \/ \E m \in Names : /\ m[2] # "tmp.txt" /\ dir'[m] # None
                              /\ within(contents(n), contents(m)')
          \/ n[2] = "newfile.txt" /\ \E p \in Shells : OpenNew(p)]_vars

(***************************************************************************)
(* redirection looks whether a file exists and then creates it, and        *)
(* another shell may create it in between: no command writes into a file   *)
(* that another command made.  Shells that say >+ are left out: a file     *)
(* they replace is a new one under the old name.                           *)
(***************************************************************************)
NoClobber ==
    [][\A i \in Inodes, p \in Shells :
          data'[i] # data[i] /\ child[p].out = i
             => \A q \in Shells \ {p} : child[q].out # i]_vars

(***************************************************************************)
(* A command that was begun ends, and the shell takes the next one or is   *)
(* gone, however often the child is stopped and continued.                 *)
(***************************************************************************)
CommandsEnd == \A p \in Shells :
                  sh[p].pc = "wait" ~> sh[p].pc \in {"idle", "gone"}

----------------------------------------------------------------------------
\* "read tmp file and original file and write into new file": what the merge
\* writes is all that the two files held.
MergeKeepsAll ==
    \A p \in Shells :
       sh[p].pc = "close" =>
          sh[p].buf = data[sh[p].tmp] \o data[sh[p].adv]
=============================================================================
