------------------------------- MODULE Shell -------------------------------
(***************************************************************************)
(* The shell of myshell.c: parents that read commands, the children they   *)
(* fork, and the files both work on.  A step is a system call that another *)
(* process can observe.  A shell process lives once: a shell started again *)
(* after a crash is another element of Shells.                             *)
(*                                                                         *)
(* A command is the sequence of its words.  An open file is its inode,     *)
(* which outlives its name; a file's contents are a sequence of bytes.     *)
(***************************************************************************)
EXTENDS Integers, Sequences, FiniteSets

CONSTANTS Shells,      \* shell processes
          Dirs, Home,  \* directories; the one that HOME names
          Base,        \* the file names that commands use
          Prints,      \* program name -> the bytes it writes
          Inodes,      \* enough for every file that is named or open
          None, Tty,   \* no such thing; the terminal
          Scenes       \* what may happen in a behaviour, see below

VARIABLES scene,  \* the one of Scenes that is played
          dir,    \* <<directory, name>> -> inode, or None
          data,   \* inode -> contents
          sh,     \* the parents
          child   \* the child of each

vars == <<scene, dir, data, sh, child>>

Scratch == {"tmp.txt", "newfile.txt"}  \* the files that the shell itself uses

ShellAssumption ==
    /\ Home \in Dirs
    /\ Inodes \cap {None, Tty} = {} /\ None \notin Base \cup Scratch
    /\ None \notin Dirs \X Base
    /\ \A c \in DOMAIN Prints : Prints[c] \in Seq(STRING)
    /\ \A s \in Scenes : /\ s.shells \subseteq Shells /\ s.given \in Nat
                          /\ s.commands \subseteq Seq(STRING \ Scratch)
    /\ Base \cap Scratch = {}
ASSUME ShellAssumption

Actors == scene.shells         \* the shells that are started
Commands == scene.commands     \* the commands users give
MaxCommands == scene.given     \* bound: commands each shell is given
Together == scene.together     \* do the shells run side by side, or one
                               \* after another
CanCrash == scene.crashes      \* can a shell be killed
CanKill == scene.kills         \* can a child be killed
CanFail == scene.fails         \* can a fork or a write fail

FF == "ff"    \* the byte 0xFF, which a signed char cannot tell from EOF
ERR == "err"  \* the error message
Leftover == "junk"  \* what an earlier use of the memory left in it

Names == Dirs \X (Base \cup Scratch)

Parent == [pc |-> "unborn", words |-> <<>>, exists |-> FALSE, tmp |-> None,
           adv |-> None, new |-> None, buf |-> <<>>, dirty |-> FALSE,
           cwd |-> Home, given |-> 0]
NoChild == [st |-> "done", args |-> <<>>, out |-> Tty, left |-> <<>>,
            stopped |-> FALSE, signaled |-> FALSE]
Killed == [NoChild EXCEPT !.signaled = TRUE]

Init == /\ scene \in Scenes
        /\ dir = [n \in Names |-> None]
        /\ data = [i \in Inodes |-> <<>>]
        /\ sh = [p \in Shells |-> Parent]
        /\ child = [p \in Shells |-> NoChild]

Open == UNION {{sh[p].tmp, sh[p].adv, sh[p].new, child[p].out} : p \in Shells}
Free == {i \in Inodes : i \notin Open /\ \A n \in Names : dir[n] # i}

word(w, i) == IF i \in DOMAIN w THEN w[i] ELSE None
path(p, w) == <<sh[p].cwd, w>>
file_exists(p, w) == path(p, w) \in Names /\ dir[path(p, w)] # None

\* open with O_CREAT and O_EXCL: i becomes the file n.
Creatable(n) == n \in Names /\ dir[n] = None
Create(n, i) == /\ Creatable(n)
                /\ Free # {} /\ i = CHOOSE j \in Free : TRUE
                /\ dir' = [dir EXCEPT ![n] = i]
                /\ data' = [data EXCEPT ![i] = <<>>]

signs(w) == {i \in DOMAIN w : w[i] \in {">", ">+"}}
sign(w) == CHOOSE i \in signs(w) : \A j \in signs(w) : i <= j
format_redirection(w) ==
    CASE Cardinality(signs(w)) > 1 -> -2
      [] signs(w) = {}             -> -1
      [] OTHER                     -> IF w[sign(w)] = ">+" THEN 2 ELSE 1

(***************************************************************************)
(* formatted is not terminated, and separate reads on until a zero byte:   *)
(* once the buffers of a merge have been freed, what they held may follow  *)
(* the command, as a word of its own or grown onto the last one.           *)
(***************************************************************************)
as_read(p, w) ==
    {w} \cup (IF ~sh[p].dirty THEN {}
              ELSE {Append(w, Leftover)} \cup
                   (IF w = <<>> THEN {}
                    ELSE {[w EXCEPT ![Len(w)] = Leftover]}))

----------------------------------------------------------------------------
\* The parent.

steps(p, from, to) == /\ sh[p].pc = from
                      /\ sh' = [sh EXCEPT ![p].pc = to]

Start(p) ==
    /\ p \in Actors
    /\ Together \/ \A q \in Shells : /\ sh[q].pc \in {"unborn", "gone"}
                                     /\ child[q].st = "done"
    /\ steps(p, "unborn", "idle")
    /\ UNCHANGED <<dir, data, child>>

gone(p) == sh' = [sh EXCEPT ![p] = [@ EXCEPT !.pc = "gone", !.tmp = None,
                                           !.adv = None, !.new = None]]

built_cd(w) ==
    IF Len(w) = 1 THEN {Home} ELSE IF Len(w) = 2 THEN {w[2]} \cap Dirs ELSE {}

BuiltIn(p, w) ==
    /\ w # <<>>
    /\ \/ /\ w[1] = "cd"
          /\ sh' = [sh EXCEPT ![p] = [@ EXCEPT !.given = sh[p].given + 1,
                        !.cwd = IF built_cd(w) = {} THEN sh[p].cwd
                                ELSE CHOOSE d \in built_cd(w) : TRUE]]
       \/ /\ w = <<"exit">>
          /\ gone(p)
       \/ /\ w[1] = "pwd" \/ (w[1] = "exit" /\ Len(w) > 1)
          /\ sh' = [sh EXCEPT ![p].given = @ + 1]
    /\ UNCHANGED <<dir, data, child>>

Fork(p, w) ==
    LET adv == format_redirection(w) = 2 /\ word(w, sign(w) + 1) # None IN
    /\ w = <<>> \/ w[1] \notin {"cd", "exit", "pwd"}
    /\ sh' = [sh EXCEPT ![p] = [@ EXCEPT !.pc = "wait", !.words = w,
                  !.given = sh[p].given + 1,
                  !.exists = adv /\ file_exists(p, w[sign(w) + 1])]]
    /\ child' = [child EXCEPT ![p] =
                    [NoChild EXCEPT !.args = w,
                         !.st = IF format_redirection(w) > -1 THEN "redirect"
                                ELSE "exec"]]
    /\ UNCHANGED <<dir, data>>

ForkFails(p, w) == /\ CanFail
                   /\ w = <<>> \/ w[1] \notin {"cd", "exit", "pwd"}
                   /\ gone(p)
                   /\ UNCHANGED <<dir, data, child>>

\* run_cmd, for one command of a line.
Command(p) ==
    /\ sh[p].pc = "idle" /\ sh[p].given < MaxCommands
    /\ \E w \in UNION {as_read(p, c) : c \in Commands} :
          IF format_redirection(w) = -2
          THEN /\ sh' = [sh EXCEPT ![p].given = @ + 1]
               /\ UNCHANGED <<dir, data, child>>
          ELSE BuiltIn(p, w) \/ Fork(p, w) \/ ForkFails(p, w)

\* waitpid returns for a stopped child too, and is called again.
Wait(p) ==
    /\ child[p].st = "done"
    /\ steps(p, "wait", IF sh[p].exists THEN "open_tmp" ELSE "idle")
    /\ UNCHANGED <<dir, data, child>>

----------------------------------------------------------------------------
\* Advanced redirection onto a file that exists: the parent's calls in order.

target(p) == path(p, sh[p].words[sign(sh[p].words) + 1])
tmp_txt(p) == path(p, "tmp.txt")
newfile_txt(p) == path(p, "newfile.txt")

removed(n) == dir' = [dir EXCEPT ![n] = None]

OpenTmp(p) == /\ sh[p].pc = "open_tmp"
              /\ sh' = [sh EXCEPT ![p] = [@ EXCEPT !.pc = "open_adv",
                                              !.tmp = dir[tmp_txt(p)]]]
              /\ UNCHANGED <<dir, data, child>>

OpenAdv(p) == /\ sh[p].pc = "open_adv"
              /\ sh' = [sh EXCEPT ![p] = [@ EXCEPT !.pc = "open_new",
                                              !.adv = dir[target(p)]]]
              /\ UNCHANGED <<dir, data, child>>

\* mode w+: an existing newfile.txt is emptied, not replaced.
OpenNew(p) ==
    /\ sh[p].pc = "open_new"
    /\ \E i \in Inodes :
          /\ \/ Create(newfile_txt(p), i)
             \/ /\ dir[newfile_txt(p)] = i
                /\ data' = [data EXCEPT ![i] = <<>>]
                /\ UNCHANGED dir
          /\ sh' = [sh EXCEPT ![p] = [@ EXCEPT !.pc = "copy", !.new = i]]
    /\ UNCHANGED child

\* The loop ends at a byte that compares equal to EOF.
copied(s) == {n \in DOMAIN s : \A i \in 1..n : s[i] # FF}
until_eof(s) == SubSeq(s, 1, Cardinality(copied(s)))

Copy_blocking(p) == \* mutant: goes on only when all streams are open
    /\ sh[p].pc = "copy" /\ None \notin {sh[p].tmp, sh[p].adv}
    /\ sh' = [sh EXCEPT ![p].pc = "close",
                  ![p].buf = data[sh[p].tmp] \o data[sh[p].adv]]
    /\ UNCHANGED <<dir, data, child>>
Copy_short(p) == \* mutant: the last byte of tmp.txt is left out
    LET t == data[sh[p].tmp] IN
    /\ sh[p].pc = "copy"
    /\ IF None \in {sh[p].tmp, sh[p].adv} THEN gone(p)
       ELSE sh' = [sh EXCEPT ![p].pc = "close",
                       ![p].buf = SubSeq(t, 1, Len(t) - 1) \o data[sh[p].adv]]
    /\ UNCHANGED <<dir, data, child>>

\* Reading from a stream that did not open kills the shell.
Copy(p) ==
    /\ sh[p].pc = "copy"
    /\ IF None \in {sh[p].tmp, sh[p].adv} THEN gone(p)
       ELSE sh' = [sh EXCEPT ![p] = [@ EXCEPT !.pc = "close",
                       !.buf = until_eof(data[sh[p].tmp])
                               \o until_eof(data[sh[p].adv])]]
    /\ UNCHANGED <<dir, data, child>>

\* fclose writes the buffer out; when it cannot, an error is printed.
WriteFails(p) == /\ CanFail /\ sh[p].pc = "close"
                 /\ UNCHANGED <<dir, data>>
WriteOut(p) ==
    LET i == sh[p].new IN
    /\ sh[p].pc = "close"
    /\ data' = [data EXCEPT ![i] =
                   sh[p].buf \o SubSeq(@, Len(sh[p].buf) + 1, Len(@))]
    /\ UNCHANGED dir
Close_unflushed(p) == \* mutant: the new file is left in its buffer
    /\ steps(p, "close", "remove_adv")
    /\ UNCHANGED <<dir, data, child>>
Close(p) ==
    /\ WriteOut(p) \/ WriteFails(p)
    /\ sh' = [sh EXCEPT ![p] = [@ EXCEPT !.pc = "remove_adv", !.tmp = None,
                  !.adv = None, !.new = None, !.buf = <<>>, !.dirty = TRUE]]
    /\ UNCHANGED child

\* A name that is gone already makes remove and rename print an error.
RemoveAdv(p) == /\ steps(p, "remove_adv", "remove_tmp")
                /\ removed(target(p))
                /\ UNCHANGED <<data, child>>

RemoveTmp(p) == /\ steps(p, "remove_tmp", "rename")
                /\ removed(tmp_txt(p))
                /\ UNCHANGED <<data, child>>

Rename_link(p) == \* mutant: the file keeps its old name too
    /\ steps(p, "rename", "idle")
    /\ dir' = [dir EXCEPT ![target(p)] = dir[newfile_txt(p)]]
    /\ UNCHANGED <<data, child>>
Rename(p) ==
    LET i == dir[newfile_txt(p)] IN
    /\ steps(p, "rename", "idle")
    /\ dir' = IF i = None THEN dir
              ELSE [dir EXCEPT ![target(p)] = i, ![newfile_txt(p)] = None]
    /\ UNCHANGED <<data, child>>

Merge(p) == \/ OpenTmp(p) \/ OpenAdv(p) \/ OpenNew(p) \/ Copy(p) \/ Close(p)
            \/ RemoveAdv(p) \/ RemoveTmp(p) \/ Rename(p)

Crash(p) == /\ CanCrash /\ sh[p].pc \notin {"unborn", "gone"}
            /\ gone(p)
            /\ UNCHANGED <<dir, data, child>>

----------------------------------------------------------------------------
\* The child.

At(p, st) == child[p].st = st /\ ~child[p].stopped
goes(p, st) == child' = [child EXCEPT ![p].st = st]
redirected(p, i) ==
    child' = [child EXCEPT ![p] = [@ EXCEPT !.st = "exec", !.out = i,
                  !.args = SubSeq(child[p].args, 1, sign(child[p].args) - 1)]]

\* redirection, up to the check that the file does not exist.
Redirection(p) ==
    LET w == child[p].args
        i == sign(w)
        norm == w[i] = ">" \/ ~sh[p].exists
    IN  /\ At(p, "redirect")
        /\ \/ /\ word(w, i + 2) # None
              /\ goes(p, "exec")
           \/ /\ word(w, i + 2) = None /\ norm
              /\ goes(p, IF file_exists(p, word(w, i + 1)) THEN "done"
                         ELSE "create")
           \/ /\ word(w, i + 2) = None /\ ~norm
              /\ goes(p, "create_tmp")
        /\ UNCHANGED <<dir, data, sh>>

CreateFile_open(p) == \* mutant: no O_EXCL
    LET n == path(p, word(child[p].args, sign(child[p].args) + 1)) IN
    /\ At(p, "create")
    /\ \/ \E i \in Inodes : Create(n, i) /\ redirected(p, i)
       \/ file_exists(p, n[2]) /\ redirected(p, dir[n]) /\ UNCHANGED <<dir, data>>
       \/ n \notin Names /\ goes(p, "done") /\ UNCHANGED <<dir, data>>
    /\ UNCHANGED sh
CreateFile(p) ==
    LET n == path(p, word(child[p].args, sign(child[p].args) + 1)) IN
    /\ At(p, "create")
    /\ \/ \E i \in Inodes : Create(n, i) /\ redirected(p, i)
       \/ ~Creatable(n) /\ goes(p, "done") /\ UNCHANGED <<dir, data>>
    /\ UNCHANGED sh

\* When tmp.txt is there already, an error is printed and the command runs.
CreateTmp(p) ==
    /\ At(p, "create_tmp")
    /\ \/ \E i \in Inodes : Create(tmp_txt(p), i) /\ redirected(p, i)
       \/ ~Creatable(tmp_txt(p)) /\ goes(p, "exec") /\ UNCHANGED <<dir, data>>
    /\ UNCHANGED sh

write(p, bytes) ==
    data' = IF child[p].out = Tty THEN data
            ELSE [data EXCEPT ![child[p].out] = @ \o bytes]

\* A missing program name is a null pointer, which kills the child.
Exec(p) ==
    LET w == child[p].args IN
    /\ At(p, "exec")
    /\ \/ /\ w = <<>>
          /\ child' = [child EXCEPT ![p] = Killed]
          /\ UNCHANGED data
       \/ /\ w # <<>> /\ w[1] \notin DOMAIN Prints
          /\ write(p, <<ERR>>)
          /\ goes(p, "run")
       \/ /\ w # <<>> /\ w[1] \in DOMAIN Prints
          /\ child' = [child EXCEPT ![p] = [@ EXCEPT !.st = "run",
                                                    !.left = Prints[w[1]]]]
          /\ UNCHANGED data
    /\ UNCHANGED <<dir, sh>>

Run(p) ==
    /\ At(p, "run")
    /\ IF child[p].left = <<>>
       THEN child' = [child EXCEPT ![p] = NoChild] /\ UNCHANGED data
       ELSE /\ write(p, <<Head(child[p].left)>>)
            /\ child' = [child EXCEPT ![p].left = Tail(@)]
    /\ UNCHANGED <<dir, sh>>

ChildStep(p) == \/ Redirection(p) \/ CreateFile(p) \/ CreateTmp(p)
                \/ Exec(p) \/ Run(p)

\* Signals from outside: killed, stopped (as by a ^Z), continued.
Kill(p) == /\ CanKill /\ child[p].st # "done"
           /\ child' = [child EXCEPT ![p] = Killed]
           /\ UNCHANGED <<dir, data, sh>>
Stop(p) == /\ At(p, "run")
           /\ child' = [child EXCEPT ![p].stopped = TRUE]
           /\ UNCHANGED <<dir, data, sh>>
Continue(p) == /\ child[p].stopped
               /\ child' = [child EXCEPT ![p].stopped = FALSE]
               /\ UNCHANGED <<dir, data, sh>>

Next == /\ \E p \in Shells :
              \/ Start(p) \/ Command(p) \/ Wait(p) \/ Merge(p) \/ Crash(p)
              \/ ChildStep(p) \/ Kill(p) \/ Stop(p) \/ Continue(p)
        /\ UNCHANGED scene

Spec == Init /\ [][Next]_vars

(***************************************************************************)
(* The scheduler runs the shell, and runs a child however often it was     *)
(* stopped and continued; a stopped child is continued by somebody.  No    *)
(* one has to give a command, to start a shell or to kill anything.        *)
(***************************************************************************)
moves(step) == step /\ UNCHANGED scene
Fairness == \A p \in Shells :
               /\ WF_vars(moves(Wait(p) \/ Merge(p) \/ Continue(p)))
               /\ SF_vars(moves(ChildStep(p)))
=============================================================================
