---------------------------- MODULE ShellProof ----------------------------
(***************************************************************************)
(* The shell, for any number of shells, commands, files and processes that *)
(* are killed at any step: its types, that no command writes into a file   *)
(* of another, that a merge loses nothing, and that one shell implements   *)
(* the redirections of Redirections.                                       *)
(*                                                                         *)
(* IInv is inductive by itself.  MergeInv adds what a merge has put where, *)
(* for shells that run one after another; SoloInv what the files hold at   *)
(* each call of a shell that nobody kills.                                 *)
(***************************************************************************)
EXTENDS ShellProps, FiniteSetTheorems, TLAPS

----------------------------------------------------------------------------
(* Sequences.                                                              *)

LEMMA SeqJoined ==
  ASSUME NEW R, NEW s \in Seq(R), NEW t \in Seq(R)
  PROVE  /\ s \o t \in Seq(R) /\ Len(s \o t) = Len(s) + Len(t)
         /\ \A j \in 1 .. (Len(s) + Len(t)) :
               (s \o t)[j] = IF j <= Len(s) THEN s[j] ELSE t[j - Len(s)]
  OBVIOUS

LEMMA SeqPart ==
  ASSUME NEW R, NEW s \in Seq(R), NEW a \in Int, NEW b \in Int, 1 <= a, b <= Len(s)
  PROVE  /\ SubSeq(s, a, b) \in Seq(R)
         /\ a <= b + 1 => Len(SubSeq(s, a, b)) = b + 1 - a
         /\ \A j \in 1 .. (b + 1 - a) : SubSeq(s, a, b)[j] = s[a + j - 1]
  OBVIOUS

LEMMA SeqOne ==
  ASSUME NEW R, NEW r \in R
  PROVE  <<r>> \in Seq(R) /\ Len(<<r>>) = 1 /\ <<r>>[1] = r
  OBVIOUS

LEMMA SeqSplit ==
  ASSUME NEW R, NEW s \in Seq(R), s # <<>>
  PROVE  /\ Head(s) \in R /\ Tail(s) \in Seq(R) /\ s = <<Head(s)>> \o Tail(s)
  OBVIOUS

----------------------------------------------------------------------------
(* The words of a command.                                                 *)

Words == STRING \cup {Leftover}
OneSign(w) == \E i \in DOMAIN w : signs(w) = {i}

LEMMA SignsFinite ==
  ASSUME NEW w \in Seq(Words)
  PROVE  IsFiniteSet(signs(w))
  <1>1. IsFiniteSet(1 .. Len(w))
    BY FS_Interval
  <1> QED
    BY <1>1, FS_Subset DEF signs

\* format_redirection tells that there is one sign.
LEMMA SignFound ==
  ASSUME NEW w \in Seq(Words), format_redirection(w) # -2, format_redirection(w) # -1
  PROVE  OneSign(w)
  <1>1. ~(Cardinality(signs(w)) > 1) /\ signs(w) # {}
    BY DEF format_redirection
  <1>2. IsFiniteSet(signs(w)) /\ Cardinality(signs(w)) \in Nat
    BY SignsFinite, FS_CardinalityType
  <1>3. Cardinality(signs(w)) # 0
    BY <1>1, <1>2, FS_EmptySet
  <1>4. Cardinality(signs(w)) = 1
    BY <1>1, <1>2, <1>3
  <1>5. PICK i : signs(w) = {i}
    BY <1>2, <1>4, FS_Singleton
  <1> QED
    BY <1>5 DEF OneSign, signs

LEMMA SignWord ==
  ASSUME NEW w \in Seq(Words), OneSign(w)
  PROVE  /\ sign(w) \in 1 .. Len(w) /\ signs(w) = {sign(w)}
         /\ w[sign(w)] \in {">", ">+"}
  <1>1. PICK i \in DOMAIN w : signs(w) = {i}
    BY DEF OneSign
  <1>2. i \in Int
    BY <1>1
  <1>3. sign(w) = i
    BY <1>1, <1>2 DEF sign
  <1> QED
    BY <1>1, <1>3 DEF signs

\* What separate reads is words, none of which is a scratch file.
LEMMA ReadWords ==
  ASSUME NEW s \in Scenes, NEW c \in s.commands, NEW p \in Shells, NEW w \in as_read(p, c)
  PROVE  w \in Seq(Words) /\ \A i \in DOMAIN w : w[i] \notin Scratch
  <1>1. c \in Seq(STRING \ Scratch)
    BY ShellAssumption DEF ShellAssumption
  <1>2. Leftover \in Words \ Scratch
    BY DEF Leftover, Scratch, Words
  <1>3. w \in Seq(Words \ Scratch)
    BY <1>1, <1>2 DEF as_read, Words
  <1> QED
    BY <1>3

----------------------------------------------------------------------------
(* Types.                                                                  *)

Parents ==
    [pc : {"unborn", "idle", "wait", "open_tmp", "open_adv", "open_new", "copy",
           "close", "remove_adv", "remove_tmp", "rename", "gone"},
     words : Seq(Words), exists : BOOLEAN,
     tmp : Inodes \cup {None}, adv : Inodes \cup {None}, new : Inodes \cup {None},
     buf : Seq(Chunks), dirty : BOOLEAN, cwd : Dirs, given : Nat]
Children ==
    [st : {"redirect", "create", "create_tmp", "exec", "run", "done"},
     args : Seq(Words), out : Inodes \cup {Tty}, left : Seq(Chunks),
     stopped : BOOLEAN, signaled : BOOLEAN]

Typed ==
    /\ scene \in Scenes
    /\ dir \in [Names -> Inodes \cup {None}] /\ data \in [Inodes -> Seq(Chunks)]
    /\ sh \in [Shells -> Parents] /\ child \in [Shells -> Children]

OneName == \A m, n \in Names : m # n /\ dir[m] # None => dir[m] # dir[n]

Merging == {"open_tmp", "open_adv", "open_new", "copy", "close", "remove_adv",
            "remove_tmp", "rename"}
Merges(p) == sh[p].pc \in Merging \/ (sh[p].pc = "wait" /\ sh[p].exists = TRUE)

\* A child runs while its parent waits or is gone; only the parent of a child
\* that has ended merges, into a file that was there.
InTurn(p) ==
    /\ child[p].st # "done" => sh[p].pc \in {"wait", "gone"}
    /\ child[p].st \notin {"exec", "run"} => child[p].out = Tty
    /\ child[p].st \in {"redirect", "create", "create_tmp"} => OneSign(child[p].args)
    /\ Merges(p) => target(p) \in Names /\ target(p)[2] \notin Scratch
    /\ sh[p].pc \in {"copy", "close"} => sh[p].new \in Inodes
    /\ sh[p].pc = "close" => sh[p].tmp \in Inodes /\ sh[p].adv \in Inodes

\* Two children never write to the same file.
OwnFiles == \A p, q \in Shells :
    p # q /\ child[p].out = child[q].out => child[p].out = Tty

IInv == Typed /\ OneName /\ OwnFiles /\ \A p \in Shells : InTurn(p)

\* A parent whose place, or the count of its commands, moves on.
LEMMA MovedTo ==
  ASSUME NEW s \in Parents,
         NEW to \in {"idle", "wait", "close", "remove_adv", "remove_tmp", "rename"}
  PROVE  LET r == [s EXCEPT !.pc = to] IN
         /\ r \in Parents /\ r.pc = to /\ r.words = s.words /\ r.exists = s.exists
         /\ r.tmp = s.tmp /\ r.adv = s.adv /\ r.cwd = s.cwd
  BY SMTT(30) DEF Parents

LEMMA GivenMore ==
  ASSUME NEW s \in Parents
  PROVE  LET r == [s EXCEPT !.given = @ + 1] IN
         r \in Parents /\ r.pc = s.pc /\ r.words = s.words /\ r.cwd = s.cwd
  BY SMTT(30) DEF Parents

LEMMA LetsGo ==
  ASSUME NEW s \in Parents, NEW to \in {"remove_adv", "gone"}
  PROVE  LET r == [s EXCEPT !.pc = to, !.tmp = None, !.adv = None] IN
         /\ r \in Parents /\ r.pc = to /\ r.words = s.words /\ r.cwd = s.cwd
         /\ r.exists = s.exists /\ r.new = s.new
  <1> DEFINE r1 == [s EXCEPT !.pc = to]
             r2 == [r1 EXCEPT !.tmp = None]
             r == [r2 EXCEPT !.adv = None]
  <1>1. r1 \in Parents
    BY DEF Parents
  <1>2. /\ r1.pc = to /\ r1.words = s.words /\ r1.cwd = s.cwd
        /\ r1.exists = s.exists /\ r1.new = s.new
    BY DEF Parents
  <1>3. r = [s EXCEPT !.pc = to, !.tmp = None, !.adv = None]
    OBVIOUS
  <1> HIDE DEF r1
  <1>4. r2 \in Parents
    BY <1>1 DEF Parents
  <1>5. /\ r2.pc = r1.pc /\ r2.words = r1.words /\ r2.cwd = r1.cwd
        /\ r2.exists = r1.exists /\ r2.new = r1.new
    BY <1>1 DEF Parents
  <1> HIDE DEF r2
  <1>6. r \in Parents
    BY <1>4 DEF Parents
  <1>7. /\ r.pc = r2.pc /\ r.words = r2.words /\ r.cwd = r2.cwd
        /\ r.exists = r2.exists /\ r.new = r2.new
    BY <1>4 DEF Parents
  <1> HIDE DEF r
  <1> QED
    BY <1>2, <1>3, <1>5, <1>6, <1>7

LEMMA GoneParent ==
  ASSUME NEW s \in Parents
  PROVE  LET r == [s EXCEPT !.pc = "gone", !.tmp = None, !.adv = None, !.new = None] IN
         r \in Parents /\ r.pc = "gone" /\ r.words = s.words /\ r.cwd = s.cwd
  <1> DEFINE r1 == [s EXCEPT !.pc = "gone", !.tmp = None, !.adv = None]
             r == [r1 EXCEPT !.new = None]
  <1>1. r1 \in Parents /\ r1.pc = "gone" /\ r1.words = s.words /\ r1.cwd = s.cwd
    BY LetsGo
  <1>2. r = [s EXCEPT !.pc = "gone", !.tmp = None, !.adv = None, !.new = None]
    OBVIOUS
  <1> HIDE DEF r1
  <1>3. r \in Parents
    BY <1>1 DEF Parents
  <1>4. r.pc = r1.pc /\ r.words = r1.words /\ r.cwd = r1.cwd
    BY <1>1 DEF Parents
  <1> HIDE DEF r
  <1> QED
    BY <1>1, <1>2, <1>3, <1>4

LEMMA InitIInv == Init => IInv
  <1> SUFFICES ASSUME Init PROVE IInv
    OBVIOUS
  <1>1. Parent \in Parents
    BY ShellAssumption DEF ShellAssumption, Parent, Parents
  <1>2. NoChild \in Children
    BY DEF NoChild, Children
  <1>3. Typed
    BY <1>1, <1>2 DEF Init, Typed
  <1>4. \A p \in Shells : InTurn(p)
    BY DEF Init, InTurn, Merges, Merging, Parent, NoChild
  <1> QED
    BY <1>3, <1>4 DEF Init, IInv, OneName, OwnFiles, NoChild

----------------------------------------------------------------------------
(* Steps.                                                                  *)

OnlyParent(p) == sh' = [sh EXCEPT ![p] = sh'[p]] /\ sh'[p] \in Parents
OnlyChild(p) == child' = [child EXCEPT ![p] = child'[p]] /\ child'[p] \in Children

LEMMA OneParent ==
  ASSUME Typed, NEW p \in Shells, NEW r \in Parents, sh' = [sh EXCEPT ![p] = r]
  PROVE  /\ OnlyParent(p) /\ sh'[p] = r
         /\ sh' \in [Shells -> Parents] /\ \A q \in Shells \ {p} : sh'[q] = sh[q]
  BY DEF Typed, OnlyParent

LEMMA OneChild ==
  ASSUME Typed, NEW p \in Shells, NEW r \in Children, child' = [child EXCEPT ![p] = r]
  PROVE  /\ OnlyChild(p) /\ child'[p] = r
         /\ child' \in [Shells -> Children] /\ \A q \in Shells \ {p} : child'[q] = child[q]
  BY DEF Typed, OnlyChild

FilesTyped ==
    dir \in [Names -> Inodes \cup {None}] /\ data \in [Inodes -> Seq(Chunks)]

LEMMA ParentMoves ==
  ASSUME IInv, NEW p \in Shells, OnlyParent(p), UNCHANGED <<scene, child>>,
         FilesTyped', OneName', InTurn(p)'
  PROVE  IInv'
  <1>1. sh' \in [Shells -> Parents] /\ \A q \in Shells \ {p} : sh'[q] = sh[q]
    BY DEF IInv, Typed, OnlyParent
  <1>2. ASSUME NEW q \in Shells PROVE InTurn(q)'
    BY <1>1, <1>2 DEF IInv, InTurn, Merges, target, path
  <1> QED
    BY <1>1, <1>2 DEF IInv, Typed, FilesTyped, OwnFiles

LEMMA ChildMoves ==
  ASSUME IInv, NEW p \in Shells, OnlyChild(p), UNCHANGED <<scene, sh>>,
         FilesTyped', OneName', InTurn(p)',
         \/ child'[p].out \in {Tty, child[p].out}
         \/ \A q \in Shells : child[q].out # child'[p].out
  PROVE  IInv'
  <1>1. child' \in [Shells -> Children] /\ \A q \in Shells \ {p} : child'[q] = child[q]
    BY DEF IInv, Typed, OnlyChild
  <1>2. ASSUME NEW q \in Shells PROVE InTurn(q)'
    BY <1>1, <1>2 DEF IInv, InTurn, Merges, target, path
  <1>3. OwnFiles'
    BY <1>1 DEF IInv, OwnFiles
  <1> QED
    BY <1>1, <1>2, <1>3 DEF IInv, Typed, FilesTyped

\* open with O_CREAT and O_EXCL: the file is new, and nobody has it open.
LEMMA Created ==
  ASSUME IInv, NEW n, NEW i \in Inodes, Create(n, i)
  PROVE  /\ FilesTyped' /\ OneName' /\ i \in Free
         /\ n \in Names /\ dir[n] = None /\ dir' = [dir EXCEPT ![n] = i]
         /\ data' = [data EXCEPT ![i] = <<>>]
         /\ \A q \in Shells : /\ child[q].out # i
                              /\ i \notin {sh[q].tmp, sh[q].adv, sh[q].new}
  <1>1. i \in Free /\ n \in Names /\ dir[n] = None
    BY DEF Create, Creatable
  <1>2. \A m \in Names : dir[m] # i
    BY <1>1 DEF Free
  <1>3. \A q \in Shells : child[q].out # i /\ i \notin {sh[q].tmp, sh[q].adv, sh[q].new}
    BY <1>1 DEF Free, Open
  <1>4. FilesTyped'
    BY <1>1 DEF Create, IInv, Typed, FilesTyped
  <1>5. OneName'
    BY <1>1, <1>2 DEF Create, IInv, Typed, OneName
  <1> QED
    BY <1>1, <1>3, <1>4, <1>5 DEF Create

\* A child writes, at the end of its own file or on the terminal.
LEMMA Written ==
  ASSUME IInv, NEW p \in Shells, NEW b \in Seq(Chunks), write(p, b), UNCHANGED dir
  PROVE  FilesTyped' /\ OneName'
  <1>1. child[p].out \in Inodes \cup {Tty}
    BY DEF IInv, Typed, Children
  <1>2. data' \in [Inodes -> Seq(Chunks)]
    <2>1. CASE child[p].out = Tty
      BY <2>1 DEF write, IInv, Typed
    <2>2. CASE child[p].out \in Inodes /\ child[p].out # Tty
      <3>1. data[child[p].out] \o b \in Seq(Chunks)
        BY <2>2, SeqJoined DEF IInv, Typed
      <3> QED
        BY <2>2, <3>1 DEF write, IInv, Typed
    <2> QED
      BY <1>1, <2>1, <2>2
  <1> QED
    BY <1>2 DEF IInv, Typed, FilesTyped, OneName

LEMMA Removing ==
  ASSUME IInv, NEW n, removed(n), UNCHANGED data
  PROVE  FilesTyped' /\ OneName'
  BY DEF removed, IInv, Typed, FilesTyped, OneName

LEMMA SameFiles ==
  ASSUME IInv, UNCHANGED <<dir, data>>
  PROVE  FilesTyped' /\ OneName'
  BY DEF IInv, Typed, FilesTyped, OneName

----------------------------------------------------------------------------
(* A shell's steps.                                                        *)

LEMMA StartKeeps ==
  ASSUME IInv, UNCHANGED scene, NEW p \in Shells, Start(p)
  PROVE  IInv'
  <1> DEFINE r == [sh[p] EXCEPT !.pc = "idle"]
  <1>1. sh[p] \in Parents /\ sh' = [sh EXCEPT ![p] = r] /\ UNCHANGED <<dir, data, child>>
    BY DEF Start, steps, IInv, Typed
  <1>2. r \in Parents /\ r.pc = "idle"
    BY <1>1, MovedTo
  <1> HIDE DEF r
  <1>3. OnlyParent(p) /\ sh'[p] = r
    BY <1>1, <1>2, OneParent DEF IInv
  <1>4. child[p].st = "done"
    BY DEF Start, steps, IInv, InTurn
  <1>5. InTurn(p)'
    BY <1>1, <1>2, <1>3, <1>4 DEF IInv, InTurn, Merges, Merging
  <1> QED
    BY <1>1, <1>3, <1>5, SameFiles, ParentMoves

LEMMA Gone ==
  ASSUME IInv, UNCHANGED <<scene, dir, data, child>>, NEW p \in Shells,
         gone(p)
  PROVE  IInv'
  <1> DEFINE r == [sh[p] EXCEPT !.pc = "gone", !.tmp = None, !.adv = None, !.new = None]
  <1>0. sh[p] \in Parents /\ sh' = [sh EXCEPT ![p] = r]
    BY DEF IInv, Typed, gone
  <1>1. r \in Parents /\ r.pc = "gone"
    BY <1>0, GoneParent
  <1> HIDE DEF r
  <1>2. OnlyParent(p) /\ sh'[p] = r
    BY <1>0, <1>1, OneParent DEF IInv
  <1>3. InTurn(p)'
    BY <1>1, <1>2 DEF IInv, InTurn, Merges, Merging
  <1> QED
    BY <1>2, <1>3, SameFiles, ParentMoves

LEMMA CommandKeeps ==
  ASSUME IInv, UNCHANGED scene, NEW p \in Shells, Command(p)
  PROVE  IInv'
  <1>1. sh[p].pc = "idle" /\ sh[p] \in Parents /\ child[p].st = "done" /\ child[p].out = Tty
    BY DEF Command, IInv, Typed, InTurn
  <1>2. PICK w \in UNION {as_read(p, c) : c \in Commands} :
          IF format_redirection(w) = -2
          THEN /\ sh' = [sh EXCEPT ![p].given = @ + 1]
               /\ UNCHANGED <<dir, data, child>>
          ELSE BuiltIn(p, w) \/ Fork(p, w) \/ ForkFails(p, w)
    BY DEF Command
  <1>3. w \in Seq(Words) /\ \A i \in DOMAIN w : w[i] \notin Scratch
    BY <1>2, ReadWords DEF IInv, Typed, Commands
  <1>4. CASE sh' = [sh EXCEPT ![p].given = @ + 1] /\ UNCHANGED <<dir, data, child>>
    <2> DEFINE r == [sh[p] EXCEPT !.given = @ + 1]
    <2>1. r \in Parents
      BY <1>1 DEF Parents
    <2>2. OnlyParent(p) /\ sh'[p] = r
      BY <1>4, <2>1, OneParent DEF IInv
    <2>3. InTurn(p)'
      BY <1>1, <1>4, <2>2 DEF IInv, InTurn, Merges, Merging, Parents
    <2> QED
      BY <1>4, <2>2, <2>3, SameFiles, ParentMoves
  <1>5. CASE gone(p) /\ UNCHANGED <<dir, data, child>>
    BY <1>1, <1>5, Gone
  <1>6. CASE /\ UNCHANGED <<dir, data, child>>
             /\ sh' = [sh EXCEPT ![p] = [@ EXCEPT !.given = sh[p].given + 1,
                           !.cwd = IF built_cd(w) = {} THEN sh[p].cwd
                                   ELSE CHOOSE d \in built_cd(w) : TRUE]]
    <2>1. built_cd(w) \subseteq Dirs
      BY ShellAssumption DEF ShellAssumption, built_cd
    <2> DEFINE to == IF built_cd(w) = {} THEN sh[p].cwd ELSE CHOOSE d \in built_cd(w) : TRUE
               r == [sh[p] EXCEPT !.given = @ + 1, !.cwd = to]
    <2>2. to \in Dirs
      BY <1>1, <2>1 DEF Parents
    <2>7. sh' = [sh EXCEPT ![p] = r]
      BY <1>6
    <2> HIDE DEF to
    <2>6. [sh[p] EXCEPT !.given = @ + 1] \in Parents
      BY <1>1 DEF Parents
    <2>5. r \in Parents
      BY <2>2, <2>6 DEF Parents
    <2>3. OnlyParent(p) /\ sh'[p] = r
      BY <2>5, <2>7, OneParent DEF IInv
    <2>4. InTurn(p)'
      BY <1>1, <1>6, <2>3 DEF IInv, InTurn, Merges, Merging, Parents
    <2> QED
      BY <1>6, <2>3, <2>4, SameFiles, ParentMoves
  <1>7. CASE Fork(p, w) /\ format_redirection(w) # -2
    <2> DEFINE adv == format_redirection(w) = 2 /\ word(w, sign(w) + 1) # None
               e == adv /\ file_exists(p, w[sign(w) + 1])
               r == [sh[p] EXCEPT !.pc = "wait", !.words = w, !.given = @ + 1, !.exists = e]
               begun == IF format_redirection(w) > -1 THEN "redirect" ELSE "exec"
               c == [NoChild EXCEPT !.args = w, !.st = begun]
    <2>1. /\ sh' = [sh EXCEPT ![p] = r]
          /\ UNCHANGED <<dir, data>>
          /\ child' = [child EXCEPT ![p] = c]
      BY <1>7 DEF Fork
    <2>9. e \in BOOLEAN /\ begun \in {"redirect", "exec"}
      OBVIOUS
    <2> HIDE DEF e, begun
    <2>10. r \in Parents
      <3> DEFINE r1 == [sh[p] EXCEPT !.pc = "wait", !.words = w]
                 g == sh[p].given + 1
                 r2 == [r1 EXCEPT !.given = g]
                 r3 == [r2 EXCEPT !.exists = e]
      <3>1. r1 \in Parents
        BY <1>1, <1>3 DEF Parents
      <3>2. r2 \in Parents
        <4>1. g \in Nat
          BY <1>1 DEF Parents
        <4> HIDE DEF r1, g
        <4> QED
          BY <3>1, <4>1 DEF Parents
      <3>3. r3 \in Parents
        <4> HIDE DEF r2
        <4> QED
          BY <2>9, <3>2 DEF Parents
      <3> QED
        BY <3>3
    <2>2. /\ sh' \in [Shells -> Parents] /\ \A q \in Shells \ {p} : sh'[q] = sh[q]
          /\ sh'[p] = r
      BY <2>1, <2>10, OneParent DEF IInv
    <2>3. format_redirection(w) > -1 => OneSign(w)
      <3>1. format_redirection(w) \in Int
        BY DEF format_redirection
      <3> QED
        BY <1>3, <1>7, <3>1, SignFound
    <2>4. /\ child' \in [Shells -> Children] /\ \A q \in Shells \ {p} : child'[q] = child[q]
          /\ child'[p].st \in {"redirect", "exec"} /\ child'[p].args = w /\ child'[p].out = Tty
          /\ child'[p].st = "redirect" => OneSign(w)
      <3>6. NoChild \in Children
        BY DEF Children, NoChild
      <3>1. [NoChild EXCEPT !.args = w] \in Children
        BY <1>3, <3>6 DEF Children
      <3>2. c \in Children
        BY <2>9, <3>1 DEF Children, NoChild
      <3>3. c.st = begun /\ c.args = w /\ c.out = Tty
        BY DEF NoChild
      <3>4. begun = "redirect" => OneSign(w)
        BY <2>3 DEF begun
      <3>5. /\ child' \in [Shells -> Children] /\ \A q \in Shells \ {p} : child'[q] = child[q]
            /\ child'[p] = c
        BY <2>1, <3>2, OneChild DEF IInv
      <3> QED
        BY <2>9, <3>3, <3>4, <3>5
    <2>5. sh'[p].exists = TRUE => target(p)' \in Names /\ target(p)'[2] \notin Scratch
      <3>1. SUFFICES ASSUME adv, file_exists(p, w[sign(w) + 1])
                     PROVE  target(p)' \in Names /\ target(p)'[2] \notin Scratch
        BY <1>1, <2>2 DEF Parents, e
      <3>2. w[sign(w) + 1] \notin Scratch
        BY <1>3, <3>1 DEF word
      <3>3. sh'[p].words = w /\ sh'[p].cwd = sh[p].cwd
        BY <1>1, <2>2 DEF Parents
      <3>4. target(p)' = path(p, w[sign(w) + 1])
        BY <3>3 DEF target, path
      <3> QED
        BY <3>1, <3>2, <3>4 DEF file_exists, path
    <2>6. sh'[p].pc = "wait"
      BY <1>1, <2>2 DEF Parents
    <2>7. ASSUME NEW q \in Shells PROVE InTurn(q)'
      <3>1. CASE q = p
        BY <2>4, <2>5, <2>6, <3>1 DEF InTurn, Merges, Merging
      <3>2. CASE q # p
        BY <2>2, <2>4, <3>2 DEF IInv, InTurn, Merges, target, path
      <3> QED
        BY <3>1, <3>2
    <2>8. OwnFiles'
      BY <1>1, <2>4 DEF IInv, OwnFiles
    <2> QED
      BY <2>1, <2>2, <2>4, <2>7, <2>8 DEF IInv, Typed, OneName
  <1> QED
    BY <1>2, <1>4, <1>5, <1>6, <1>7 DEF BuiltIn, ForkFails

LEMMA WaitKeeps ==
  ASSUME IInv, UNCHANGED scene, NEW p \in Shells, Wait(p)
  PROVE  IInv'
  <1>1. sh[p] \in Parents /\ sh[p].pc = "wait" /\ child[p].st = "done"
    BY DEF Wait, steps, IInv, Typed
  <1>2. PICK to \in {"open_tmp", "idle"} :
          sh' = [sh EXCEPT ![p].pc = to] /\ (to = "open_tmp" => sh[p].exists = TRUE)
    <2>1. sh[p].exists \in BOOLEAN
      BY <1>1 DEF Parents
    <2>2. CASE sh[p].exists = TRUE
      BY <1>1, <2>2 DEF Wait, steps
    <2>3. CASE sh[p].exists = FALSE
      BY <1>1, <2>3 DEF Wait, steps
    <2> QED
      BY <2>1, <2>2, <2>3
  <1> DEFINE r == [sh[p] EXCEPT !.pc = to]
  <1>5. r \in Parents
    BY <1>1, <1>2 DEF Parents
  <1>3. OnlyParent(p) /\ sh'[p] = r
    BY <1>2, <1>5, OneParent DEF IInv
  <1>4. InTurn(p)'
    <2>1. /\ sh'[p].cwd = sh[p].cwd /\ sh'[p].words = sh[p].words
          /\ sh'[p].pc = to
      BY <1>1, <1>3 DEF Parents
    <2>2. target(p)' = target(p)
      BY <2>1 DEF target, path
    <2> QED
      BY <1>1, <1>2, <2>2 DEF Wait, IInv, InTurn, Merges, Merging
  <1> QED
    BY <1>3, <1>4, SameFiles, ParentMoves DEF Wait

\* A merging shell has waited for its child; while it merges, the directory, the
\* words and so the target stay.
LEMMA MergeTurn ==
  ASSUME IInv, NEW p \in Shells, sh[p].pc \in Merging
  PROVE  /\ sh[p] \in Parents /\ child[p].st = "done" /\ child[p].out = Tty
         /\ target(p) \in Names /\ target(p)[2] \notin Scratch
         /\ tmp_txt(p) \in Names /\ newfile_txt(p) \in Names
  <1>1. sh[p] \in Parents /\ child[p].st = "done" /\ child[p].out = Tty
    BY DEF IInv, Typed, InTurn, Merging
  <1>2. target(p) \in Names /\ target(p)[2] \notin Scratch
    BY DEF IInv, InTurn, Merges
  <1> QED
    BY <1>1, <1>2 DEF tmp_txt, newfile_txt, path, Names, Parents, Scratch

LEMMA MergeMoves ==
  ASSUME IInv, UNCHANGED <<scene, child>>, NEW p \in Shells, sh[p].pc \in Merging,
         NEW r \in Parents, sh' = [sh EXCEPT ![p] = r],
         r.words = sh[p].words, r.cwd = sh[p].cwd, FilesTyped', OneName',
         r.pc \in {"copy", "close"} => r.new \in Inodes,
         r.pc = "close" => r.tmp \in Inodes /\ r.adv \in Inodes,
         r.pc # "wait", r.pc # "unborn"
  PROVE  IInv' /\ target(p)' = target(p)
  <1>1. OnlyParent(p) /\ sh'[p] = r
    BY OneParent DEF IInv
  <1>2. target(p)' = target(p)
    BY <1>1 DEF target, path
  <1>3. InTurn(p)'
    BY <1>1, <1>2, MergeTurn DEF InTurn, Merges, Merging
  <1> QED
    BY <1>1, <1>2, <1>3, ParentMoves

LEMMA UntilEof ==
  ASSUME NEW s \in Seq(Chunks)
  PROVE  /\ until_eof(s) \in Seq(Chunks)
         /\ (\A i \in DOMAIN s : s[i] # FF) => until_eof(s) = s
  <1>1. IsFiniteSet(1 .. Len(s)) /\ Cardinality(1 .. Len(s)) = Len(s)
    <2>1. Len(s) \in Nat
      OBVIOUS
    <2>2. 1 \in Int /\ Len(s) \in Int /\ (1 <= Len(s) \/ Len(s) = 0)
      BY <2>1
    <2> QED
      BY <2>2, FS_Interval
  <1>2. copied(s) \in SUBSET (1 .. Len(s))
    BY DEF copied
  <1>3. Cardinality(copied(s)) \in Nat /\ Cardinality(copied(s)) <= Len(s)
    BY <1>1, <1>2, FS_Subset, FS_CardinalityType
  <1>4. until_eof(s) \in Seq(Chunks)
    BY <1>3, SeqPart DEF until_eof
  <1>5. ASSUME \A i \in DOMAIN s : s[i] # FF PROVE until_eof(s) = s
    <2>1. copied(s) = 1 .. Len(s)
      BY <1>5 DEF copied
    <2> QED
      BY <1>1, <2>1 DEF until_eof
  <1> QED
    BY <1>4, <1>5

\* fclose leaves characters in the file.
LEMMA CloseWrites ==
  ASSUME IInv, NEW p \in Shells, Close(p)
  PROVE  data' \in [Inodes -> Seq(Chunks)]
  <1>1. CASE WriteFails(p)
    BY <1>1 DEF WriteFails, IInv, Typed
  <1>2. CASE WriteOut(p)
    <2> DEFINE s == data[sh[p].new]
               b == sh[p].buf
               t == SubSeq(s, Len(b) + 1, Len(s))
    <2>1. sh[p].new \in Inodes /\ b \in Seq(Chunks) /\ s \in Seq(Chunks)
      BY <1>2 DEF WriteOut, IInv, Typed, InTurn, Parents
    <2>2. data' = [data EXCEPT ![sh[p].new] = b \o t]
      BY <1>2 DEF WriteOut
    <2>3. t \in Seq(Chunks)
      <3>1. Len(b) \in Nat /\ Len(s) \in Nat
        BY <2>1
      <3> QED
        BY <2>1, <3>1, SeqPart
    <2>4. b \o t \in Seq(Chunks)
      BY <2>1, <2>3, SeqJoined
    <2> QED
      BY <2>1, <2>2, <2>4 DEF IInv, Typed
  <1> QED
    BY <1>1, <1>2 DEF Close

LEMMA MergeKeeps ==
  ASSUME IInv, UNCHANGED scene, NEW p \in Shells, Merge(p)
  PROVE  IInv'
  <1> USE DEF Merging
  <1>1. sh[p].pc \in Merging
    <2>1. OpenTmp(p) \/ OpenAdv(p) \/ OpenNew(p) \/ Copy(p) => sh[p].pc \in Merging
      BY DEF OpenTmp, OpenAdv, OpenNew, Copy
    <2>2. Close(p) => sh[p].pc \in Merging
      BY DEF Close, WriteOut, WriteFails
    <2>3. RemoveAdv(p) \/ RemoveTmp(p) \/ Rename(p) => sh[p].pc \in Merging
      BY DEF RemoveAdv, RemoveTmp, Rename, steps
    <2> QED
      BY <2>1, <2>2, <2>3 DEF Merge
  <1>2. /\ sh[p] \in Parents /\ child[p].st = "done"
        /\ target(p) \in Names /\ tmp_txt(p) \in Names /\ newfile_txt(p) \in Names
    BY <1>1, MergeTurn
  <1>3. CASE OpenTmp(p)
    <2> DEFINE r == [sh[p] EXCEPT !.pc = "open_adv", !.tmp = dir[tmp_txt(p)]]
    <2>1. dir[tmp_txt(p)] \in Inodes \cup {None}
      BY <1>2 DEF IInv, Typed
    <2>2. /\ r \in Parents /\ r.words = sh[p].words /\ r.cwd = sh[p].cwd
          /\ r.pc = "open_adv"
      BY <1>2, <2>1 DEF Parents
    <2>3. sh' = [sh EXCEPT ![p] = r] /\ UNCHANGED <<dir, data, child>>
      BY <1>3 DEF OpenTmp
    <2> HIDE DEF r
    <2> QED
      BY <1>1, <2>2, <2>3, SameFiles, MergeMoves
  <1>4. CASE OpenAdv(p)
    <2> DEFINE r == [sh[p] EXCEPT !.pc = "open_new", !.adv = dir[target(p)]]
    <2>1. dir[target(p)] \in Inodes \cup {None}
      BY <1>2 DEF IInv, Typed
    <2>2. /\ r \in Parents /\ r.words = sh[p].words /\ r.cwd = sh[p].cwd
          /\ r.pc = "open_new"
      BY <1>2, <2>1 DEF Parents
    <2>3. sh' = [sh EXCEPT ![p] = r] /\ UNCHANGED <<dir, data, child>>
      BY <1>4 DEF OpenAdv
    <2> HIDE DEF r
    <2> QED
      BY <1>1, <2>2, <2>3, SameFiles, MergeMoves
  <1>5. CASE OpenNew(p)
    <2>1. PICK i \in Inodes :
            /\ \/ Create(newfile_txt(p), i)
               \/ /\ dir[newfile_txt(p)] = i
                  /\ data' = [data EXCEPT ![i] = <<>>]
                  /\ UNCHANGED dir
            /\ sh' = [sh EXCEPT ![p] = [@ EXCEPT !.pc = "copy", !.new = i]]
            /\ UNCHANGED child
      BY <1>5 DEF OpenNew
    <2> DEFINE r == [sh[p] EXCEPT !.pc = "copy", !.new = i]
    <2>2. /\ r \in Parents /\ r.words = sh[p].words /\ r.cwd = sh[p].cwd
          /\ r.pc = "copy" /\ r.new = i
      BY <1>2 DEF Parents
    <2>3. sh' = [sh EXCEPT ![p] = r]
      BY <2>1
    <2>4. FilesTyped' /\ OneName'
      <3>1. CASE Create(newfile_txt(p), i)
        BY <3>1, Created
      <3>2. CASE data' = [data EXCEPT ![i] = <<>>] /\ UNCHANGED dir
        BY <3>2 DEF IInv, Typed, FilesTyped, OneName
      <3> QED
        BY <2>1, <3>1, <3>2
    <2> HIDE DEF r
    <2> QED
      BY <1>1, <2>1, <2>2, <2>3, <2>4, MergeMoves
  <1>6. CASE Copy(p)
    <2>1. CASE None \in {sh[p].tmp, sh[p].adv}
      BY <1>6, <2>1, Gone DEF Copy
    <2>2. CASE None \notin {sh[p].tmp, sh[p].adv}
      <3> DEFINE buf == until_eof(data[sh[p].tmp]) \o until_eof(data[sh[p].adv])
                 r == [sh[p] EXCEPT !.pc = "close", !.buf = buf]
      <3>1. sh[p].tmp \in Inodes /\ sh[p].adv \in Inodes /\ sh[p].new \in Inodes
        BY <1>2, <1>6, <2>2 DEF Copy, Parents, IInv, InTurn
      <3>2. data[sh[p].tmp] \in Seq(Chunks) /\ data[sh[p].adv] \in Seq(Chunks)
        BY <3>1 DEF IInv, Typed
      <3>3. buf \in Seq(Chunks)
        BY <3>2, UntilEof, SeqJoined
      <3>4. sh' = [sh EXCEPT ![p] = r] /\ UNCHANGED <<dir, data, child>>
        BY <1>6, <2>2 DEF Copy
      <3> HIDE DEF buf
      <3>5. /\ r \in Parents /\ r.words = sh[p].words /\ r.cwd = sh[p].cwd
            /\ r.pc = "close" /\ r.new = sh[p].new /\ r.tmp = sh[p].tmp /\ r.adv = sh[p].adv
        BY <1>2, <3>3 DEF Parents
      <3> HIDE DEF r
      <3> QED
        BY <1>1, <3>1, <3>4, <3>5, SameFiles, MergeMoves
    <2> QED
      BY <2>1, <2>2
  <1>7. CASE Close(p)
    <2> DEFINE r == [sh[p] EXCEPT !.pc = "remove_adv", !.tmp = None, !.adv = None,
                                  !.new = None, !.buf = <<>>, !.dirty = TRUE]
    <2>1. /\ r \in Parents /\ r.words = sh[p].words /\ r.cwd = sh[p].cwd
          /\ r.pc = "remove_adv"
      <3> DEFINE r1 == [sh[p] EXCEPT !.pc = "remove_adv", !.tmp = None, !.adv = None]
                 r2 == [r1 EXCEPT !.new = None, !.dirty = TRUE]
                 r3 == [r2 EXCEPT !.buf = <<>>]
      <3>1. r1 \in Parents /\ r1.words = sh[p].words /\ r1.cwd = sh[p].cwd
            /\ r1.pc = "remove_adv"
        BY <1>2 DEF Parents
      <3>2. r2 \in Parents /\ r2.words = r1.words /\ r2.cwd = r1.cwd /\ r2.pc = r1.pc
        <4> HIDE DEF r1
        <4> QED
          BY <3>1 DEF Parents
      <3>3. r3 \in Parents /\ r3.words = r2.words /\ r3.cwd = r2.cwd /\ r3.pc = r2.pc
        <4> HIDE DEF r2
        <4>1. <<>> \in Seq(Chunks)
          OBVIOUS
        <4> QED
          BY <3>2, <4>1 DEF Parents
      <3>4. r3 = r
        OBVIOUS
      <3> QED
        BY <3>1, <3>2, <3>3, <3>4
    <2>2. sh' = [sh EXCEPT ![p] = r] /\ UNCHANGED child /\ UNCHANGED dir
      BY <1>7 DEF Close, WriteOut, WriteFails
    <2>3. data' \in [Inodes -> Seq(Chunks)]
      BY <1>7, CloseWrites
    <2>4. FilesTyped' /\ OneName'
      BY <2>2, <2>3 DEF IInv, Typed, FilesTyped, OneName
    <2> HIDE DEF r
    <2> QED
      BY <1>1, <2>1, <2>2, <2>4, MergeMoves
  <1>8. ASSUME NEW to \in {"remove_tmp", "rename", "idle"}, FilesTyped', OneName',
               sh' = [sh EXCEPT ![p].pc = to], UNCHANGED child
        PROVE  IInv'
    <2> DEFINE r == [sh[p] EXCEPT !.pc = to]
    <2>1. /\ r \in Parents /\ r.words = sh[p].words /\ r.cwd = sh[p].cwd /\ r.pc = to
      BY <1>2 DEF Parents
    <2>2. sh' = [sh EXCEPT ![p] = r]
      BY <1>8
    <2> HIDE DEF r
    <2> QED
      BY <1>1, <1>8, <2>1, <2>2, MergeMoves
  <1>9. CASE RemoveAdv(p)
    BY <1>8, <1>9, Removing DEF RemoveAdv, steps
  <1>10. CASE RemoveTmp(p)
    BY <1>8, <1>10, Removing DEF RemoveTmp, steps
  <1>11. CASE Rename(p)
    <2> DEFINE i == dir[newfile_txt(p)]
    <2>1. dir' = IF i = None THEN dir ELSE [dir EXCEPT ![target(p)] = i, ![newfile_txt(p)] = None]
      BY <1>11 DEF Rename
    <2>2. i \in Inodes \cup {None} /\ UNCHANGED data
      BY <1>2, <1>11 DEF IInv, Typed, Rename
    <2>3. FilesTyped'
      BY <1>2, <2>1, <2>2 DEF IInv, Typed, FilesTyped
    <2>4. OneName'
      <3>1. CASE i = None
        BY <2>1, <3>1 DEF IInv, OneName
      <3>2. CASE i # None
        BY <1>2, <2>1, <3>2 DEF IInv, Typed, OneName
      <3> QED
        BY <3>1, <3>2
    <2> QED
      BY <1>8, <1>11, <2>3, <2>4 DEF Rename, steps
  <1> QED
    BY <1>3, <1>4, <1>5, <1>6, <1>7, <1>9, <1>10, <1>11 DEF Merge

LEMMA CrashKeeps ==
  ASSUME IInv, UNCHANGED scene, NEW p \in Shells, Crash(p)
  PROVE  IInv'
  BY Gone DEF Crash

----------------------------------------------------------------------------
(* A child's steps.                                                        *)

LEMMA ErrPrinted == <<ERR>> \in Seq(Chunks)
  <1>1. ERR \in Chunks
    <2> DEFINE others == UNION {Range(Prints[c]) : c \in DOMAIN Prints}
    <2>1. Chunks = {ERR} \cup others
      BY Zenon DEF Chunks
    <2> HIDE DEF others
    <2> QED
      BY <2>1
  <1> QED
    BY <1>1, SeqOne

LEMMA PrintsChunks ==
  ASSUME NEW c \in DOMAIN Prints
  PROVE  Prints[c] \in Seq(Chunks)
  <1>1. Prints[c] \in Seq(STRING)
    BY ShellAssumption DEF ShellAssumption
  <1>2. \A i \in DOMAIN Prints[c] : Prints[c][i] \in Chunks
    <2> SUFFICES ASSUME NEW i \in DOMAIN Prints[c] PROVE Prints[c][i] \in Chunks
      OBVIOUS
    <2>1. Prints[c][i] \in Range(Prints[c])
      BY Zenon DEF Range
    <2> QED
      BY <2>1, Zenon DEF Chunks
  <1> QED
    BY <1>1, <1>2


LEMMA ChildGoes ==
  ASSUME IInv, UNCHANGED <<scene, sh>>, NEW p \in Shells, child[p].st # "done",
         NEW r \in Children, child' = [child EXCEPT ![p] = r],
         FilesTyped', OneName', r.st \notin {"exec", "run"} => r.out = Tty,
         r.st \in {"redirect", "create", "create_tmp"} => OneSign(r.args),
         \/ r.out \in {Tty, child[p].out}
         \/ \A q \in Shells : child[q].out # r.out
  PROVE  IInv'
  <1>1. OnlyChild(p) /\ child'[p] = r
    BY OneChild DEF IInv
  <1>2. InTurn(p)'
    BY <1>1 DEF IInv, InTurn, Merges, target, path
  <1> QED
    BY <1>1, <1>2, ChildMoves

\* goes, for a child that has not opened a file or does not end.
LEMMA GoesKeeps ==
  ASSUME IInv, UNCHANGED <<scene, sh>>, FilesTyped', OneName', NEW p \in Shells,
         child[p].st # "done",
         NEW to \in {"create", "create_tmp", "exec", "run", "done"}, goes(p, to),
         to \notin {"exec", "run"} => child[p].out = Tty,
         to \in {"create", "create_tmp"} => OneSign(child[p].args)
  PROVE  IInv'
  <1> DEFINE r == [child[p] EXCEPT !.st = to]
  <1>1. /\ r \in Children /\ r.st = to /\ r.out = child[p].out /\ r.args = child[p].args
    BY DEF IInv, Typed, Children
  <1>2. child' = [child EXCEPT ![p] = r]
    BY DEF goes
  <1> HIDE DEF r
  <1> QED
    BY <1>1, <1>2, ChildGoes

\* A child that has ended, of itself or by a signal.
LEMMA Ended ==
  /\ NoChild \in Children /\ NoChild.st = "done" /\ NoChild.out = Tty
  /\ NoChild.signaled = FALSE
  /\ Killed \in Children /\ Killed.st = "done" /\ Killed.out = Tty
  /\ Killed.signaled = TRUE
  <1>1. /\ NoChild \in Children /\ NoChild.st = "done" /\ NoChild.out = Tty
        /\ NoChild.signaled = FALSE
    <2>1. <<>> \in Seq(Words) /\ <<>> \in Seq(Chunks)
      OBVIOUS
    <2> QED
      BY <2>1 DEF NoChild, Children
  <1> HIDE DEF NoChild
  <1>2. Killed \in Children /\ Killed.st = "done" /\ Killed.out = Tty
    BY <1>1 DEF Killed, Children
  <1>3. Killed.signaled = TRUE
    BY <1>1 DEF Killed, Children
  <1> QED
    BY <1>1, <1>2, <1>3

LEMMA EndsKeeps ==
  ASSUME IInv, UNCHANGED <<scene, sh>>, FilesTyped', OneName', NEW p \in Shells,
         child[p].st # "done", NEW e \in {NoChild, Killed},
         child' = [child EXCEPT ![p] = e]
  PROVE  IInv'
  <1>1. e \in Children /\ e.st = "done" /\ e.out = Tty
    BY Ended
  <1> QED
    BY <1>1, ChildGoes

LEMMA RedirectedKeeps ==
  ASSUME IInv, UNCHANGED <<scene, sh>>, NEW p \in Shells,
         child[p].st \in {"create", "create_tmp"},
         NEW n, NEW i \in Inodes, Create(n, i), redirected(p, i)
  PROVE  IInv'
  <1> DEFINE c == child[p]
             a == SubSeq(c.args, 1, sign(c.args) - 1)
             r1 == [c EXCEPT !.st = "exec", !.out = i]
             r == [r1 EXCEPT !.args = a]
  <1>1. c \in Children /\ OneSign(c.args) /\ c.args \in Seq(Words)
    BY DEF IInv, Typed, InTurn, Children
  <1>2. a \in Seq(Words)
    <2>1. sign(c.args) \in 1 .. Len(c.args) /\ Len(c.args) \in Nat
      BY <1>1, SignWord
    <2> QED
      BY <1>1, <2>1, SeqPart
  <1>3. r1 \in Children /\ r1.st = "exec" /\ r1.out = i
    BY <1>1 DEF Children
  <1>4. child' = [child EXCEPT ![p] = r]
    BY DEF redirected
  <1>5. r \in Children /\ r.st = "exec" /\ r.out = i
    <2> HIDE DEF r1, a
    <2> QED
      BY <1>2, <1>3 DEF Children
  <1> HIDE DEF r
  <1>6. FilesTyped' /\ OneName' /\ \A q \in Shells : child[q].out # i
    BY Created
  <1> QED
    BY <1>4, <1>5, <1>6, ChildGoes

LEMMA ChildStepKeeps ==
  ASSUME IInv, UNCHANGED scene, NEW p \in Shells, ChildStep(p)
  PROVE  IInv'
  <1>1. child[p] \in Children
    BY DEF IInv, Typed
  <1>2. CASE Redirection(p)
    <2>1. /\ child[p].st = "redirect" /\ child[p].out \in {Tty} \cup Inodes
          /\ UNCHANGED <<dir, data, sh>> /\ OneSign(child[p].args)
          /\ \E to \in {"create", "create_tmp", "exec", "done"} : goes(p, to)
      BY <1>1, <1>2 DEF Redirection, At, IInv, InTurn, Children
    <2>2. PICK to \in {"create", "create_tmp", "exec", "done"} : goes(p, to)
      BY <2>1
    <2>3. child[p].out = Tty
      BY <2>1 DEF IInv, InTurn
    <2> QED
      BY <2>1, <2>2, <2>3, SameFiles, GoesKeeps
  <1>3. CASE CreateFile(p)
    <2>1. CASE \E n : \E i \in Inodes : Create(n, i) /\ redirected(p, i)
      BY <1>3, <2>1, RedirectedKeeps DEF CreateFile, At
    <2>2. CASE goes(p, "done") /\ UNCHANGED <<dir, data>>
      <3>1. child[p].st = "create" /\ child[p].out = Tty /\ UNCHANGED sh
        BY <1>3 DEF CreateFile, At, IInv, InTurn
      <3> QED
        BY <2>2, <3>1, SameFiles, GoesKeeps
    <2> QED
      BY <1>3, <2>1, <2>2 DEF CreateFile
  <1>4. CASE CreateTmp(p)
    <2>1. CASE \E n : \E i \in Inodes : Create(n, i) /\ redirected(p, i)
      BY <1>4, <2>1, RedirectedKeeps DEF CreateTmp, At
    <2>2. CASE goes(p, "exec") /\ UNCHANGED <<dir, data>>
      BY <1>4, <2>2, SameFiles, GoesKeeps DEF CreateTmp, At
    <2> QED
      BY <1>4, <2>1, <2>2 DEF CreateTmp
  <1>5. CASE Exec(p)
    <2>1. child[p].st = "exec" /\ UNCHANGED <<dir, sh>>
      BY <1>5 DEF Exec, At
    <2>2. CASE child' = [child EXCEPT ![p] = Killed] /\ UNCHANGED data
      BY <2>1, <2>2, SameFiles, EndsKeeps
    <2>3. CASE write(p, <<ERR>>) /\ goes(p, "run")
      BY <2>1, <2>3, ErrPrinted, Written, GoesKeeps
    <2>4. ASSUME NEW c \in DOMAIN Prints, UNCHANGED data,
                 child' = [child EXCEPT ![p] = [@ EXCEPT !.st = "run", !.left = Prints[c]]]
          PROVE  IInv'
      <3> DEFINE b == Prints[c]
                 r == [child[p] EXCEPT !.st = "run", !.left = b]
      <3>1. b \in Seq(Chunks)
        BY PrintsChunks
      <3>2. child' = [child EXCEPT ![p] = r]
        BY <2>4
      <3> HIDE DEF b
      <3>3. r \in Children /\ r.st = "run" /\ r.out = child[p].out
        BY <1>1, <3>1 DEF Children
      <3> HIDE DEF r
      <3> QED
        BY <2>1, <2>4, <3>2, <3>3, SameFiles, ChildGoes
    <2> QED
      BY <1>5, <2>2, <2>3, <2>4 DEF Exec
  <1>6. CASE Run(p)
    <2>1. child[p].st = "run" /\ UNCHANGED <<dir, sh>>
      BY <1>6 DEF Run, At
    <2>2. CASE child[p].left = <<>>
      BY <1>6, <2>1, <2>2, SameFiles, EndsKeeps DEF Run
    <2>3. CASE child[p].left # <<>>
      <3> DEFINE h == Head(child[p].left)
                 t == Tail(child[p].left)
                 r == [child[p] EXCEPT !.left = t]
      <3>1. h \in Chunks /\ t \in Seq(Chunks) /\ child[p].left \in Seq(Chunks)
        BY <1>1, <2>3, SeqSplit DEF Children
      <3>2. write(p, <<h>>) /\ child' = [child EXCEPT ![p] = r]
        BY <1>6, <2>3 DEF Run
      <3>3. <<h>> \in Seq(Chunks)
        BY <3>1, SeqOne
      <3>4. FilesTyped' /\ OneName'
        <4> HIDE DEF h
        <4> QED
          BY <2>1, <3>2, <3>3, Written
      <3> HIDE DEF t
      <3>5. r \in Children /\ r.st = "run" /\ r.out = child[p].out
        BY <1>1, <2>1, <3>1 DEF Children
      <3> HIDE DEF r
      <3> QED
        BY <2>1, <3>2, <3>4, <3>5, ChildGoes
    <2> QED
      BY <2>2, <2>3
  <1> QED
    BY <1>2, <1>3, <1>4, <1>5, <1>6 DEF ChildStep

LEMMA SignalKeeps ==
  ASSUME IInv, UNCHANGED scene, NEW p \in Shells, Kill(p) \/ Stop(p) \/ Continue(p)
  PROVE  IInv'
  <1>1. CASE Kill(p)
    BY <1>1, SameFiles, EndsKeeps DEF Kill
  <1>2. ASSUME NEW b \in BOOLEAN, child' = [child EXCEPT ![p].stopped = b],
               UNCHANGED <<dir, data, sh>>
        PROVE  IInv'
    <2> DEFINE r == [child[p] EXCEPT !.stopped = b]
    <2>1. /\ r \in Children /\ r.st = child[p].st /\ r.out = child[p].out
          /\ r.args = child[p].args
      BY DEF IInv, Typed, Children
    <2>2. child' = [child EXCEPT ![p] = r]
      BY <1>2
    <2> HIDE DEF r
    <2>3. OnlyChild(p) /\ child'[p] = r
      BY <2>1, <2>2, OneChild DEF IInv
    <2>4. InTurn(p)'
      BY <1>2, <2>1, <2>3 DEF IInv, InTurn, Merges, target, path
    <2> QED
      BY <1>2, <2>1, <2>3, <2>4, SameFiles, ChildMoves
  <1> QED
    BY <1>1, <1>2 DEF Stop, Continue

LEMMA Step == IInv /\ [Next]_vars => IInv'
  <1> SUFFICES ASSUME IInv, [Next]_vars PROVE IInv'
    OBVIOUS
  <1>1. CASE UNCHANGED vars
    BY <1>1 DEF vars, IInv, Typed, OneName, OwnFiles, InTurn, Merges, target, path
  <1>2. CASE Next
    BY <1>2, StartKeeps, CommandKeeps, WaitKeeps, MergeKeeps, CrashKeeps, ChildStepKeeps,
       SignalKeeps DEF Next
  <1> QED
    BY <1>1, <1>2

LEMMA Inductive == Spec => []IInv
  BY InitIInv, Step, PTL DEF Spec

\* Every variable has its type, no file has two names, and a child runs only
\* while its parent waits or has been killed.
THEOREM TypeCorrect == Spec => []TypeOK
  <1>1. IInv => TypeOK
    BY DEF IInv, Typed, OneName, InTurn, TypeOK, Parents, Children
  <1> QED
    BY <1>1, Inductive, PTL

\* redirection and a shell beside it (myshell.c:104-159): a child writes into the
\* file that it created itself, and no other child has that file open.
THEOREM NobodyClobbers == Spec => NoClobber
  <1>1. IInv /\ [Next]_vars =>
          [\A i \in Inodes, p \in Shells :
             data'[i] # data[i] /\ child[p].out = i
                => \A q \in Shells \ {p} : child[q].out # i]_vars
    <2>1. Inodes \cap {Tty} = {}
      BY ShellAssumption DEF ShellAssumption
    <2> QED
      BY <2>1 DEF IInv, OwnFiles
  <1> QED
    BY <1>1, Inductive, PTL DEF Spec, NoClobber

----------------------------------------------------------------------------
(* What a merge keeps.                                                     *)

LEMMA WithinItself ==
  ASSUME NEW s \in Seq(Chunks)
  PROVE  within(s, s)
  <1>1. SubSeq(s, 0 + 1, 0 + Len(s)) = s /\ 0 \in 0 .. (Len(s) - Len(s))
    OBVIOUS
  <1> QED
    BY <1>1 DEF within

LEMMA EmptyWithin ==
  ASSUME NEW t \in Seq(Chunks)
  PROVE  within(<<>>, t)
  <1>1. 0 \in 0 .. (Len(t) - Len(<<>>)) /\ SubSeq(t, 0 + 1, 0 + Len(<<>>)) = <<>>
    OBVIOUS
  <1> QED
    BY <1>1 DEF within

LEMMA FrontWithin ==
  ASSUME NEW s \in Seq(Chunks), NEW t \in Seq(Chunks)
  PROVE  within(s, s \o t)
  <1> DEFINE u == s \o t
  <1>1. /\ u \in Seq(Chunks) /\ Len(u) = Len(s) + Len(t) /\ Len(s) \in Nat /\ Len(t) \in Nat
        /\ \A j \in 1 .. Len(s) : u[j] = s[j]
    BY SeqJoined
  <1> HIDE DEF u
  <1>2. SubSeq(u, 0 + 1, 0 + Len(s)) = s
    BY <1>1
  <1> QED
    BY <1>1, <1>2 DEF within, u

LEMMA BackWithin ==
  ASSUME NEW s \in Seq(Chunks), NEW t \in Seq(Chunks)
  PROVE  within(s, t \o s)
  <1> DEFINE u == t \o s
  <1>1. /\ u \in Seq(Chunks) /\ Len(u) = Len(t) + Len(s) /\ Len(s) \in Nat /\ Len(t) \in Nat
        /\ \A j \in 1 .. Len(s) : u[Len(t) + j] = s[j]
    BY SeqJoined
  <1> HIDE DEF u
  <1>2. SubSeq(u, Len(t) + 1, Len(t) + Len(s)) = s
    BY <1>1
  <1> QED
    BY <1>1, <1>2 DEF within, u

----------------------------------------------------------------------------
\* One shell after another, and no fork or write fails.
Calm == ~Together /\ ~CanFail

Active(p) == sh[p].pc \notin {"unborn", "gone"} \/ child[p].st # "done"

\* Where a merge has put what the target held.
Held(p) ==
    /\ sh[p].pc \in {"open_new", "copy", "close"} => sh[p].adv = dir[target(p)]
    /\ sh[p].pc \in {"copy", "close"} =>
          dir[newfile_txt(p)] = sh[p].new /\ data[sh[p].new] = <<>>
    /\ sh[p].pc = "close" =>
          \E t \in Seq(Chunks) : sh[p].buf = t \o data[sh[p].adv]
    /\ sh[p].pc = "remove_adv" =>
          \/ dir[target(p)] = None
          \/ /\ dir[newfile_txt(p)] # None
             /\ \E t \in Seq(Chunks) :
                   data[dir[newfile_txt(p)]] = t \o data[dir[target(p)]]
    /\ sh[p].pc \in {"remove_tmp", "rename"} => dir[target(p)] = None

OneActive == \A p, q \in Shells : p # q /\ Active(p) => ~Active(q)

MergeInv == Calm => OneActive /\ \A p \in Shells : Held(p)

Act(p) == \/ Command(p) \/ Wait(p) \/ Merge(p) \/ Crash(p)
          \/ ChildStep(p) \/ Kill(p) \/ Stop(p)

OthersStay(p) == \A q \in Shells \ {p} : sh'[q] = sh[q] /\ child'[q] = child[q]

LEMMA CalmStays == ASSUME UNCHANGED scene PROVE Calm' = Calm
  BY DEF Calm, Together, CanFail

LEMMA ActsAreActive ==
  ASSUME IInv, NEW p \in Shells, Act(p)
  PROVE  Active(p)
  <1>1. CASE Command(p) \/ Wait(p) \/ Crash(p)
    BY <1>1 DEF Command, Wait, steps, Crash, Active
  <1>2. CASE Merge(p)
    <2>1. OpenTmp(p) \/ OpenAdv(p) \/ OpenNew(p) \/ Copy(p) => Active(p)
      BY DEF OpenTmp, OpenAdv, OpenNew, Copy, Active
    <2>2. Close(p) => Active(p)
      BY DEF Close, WriteOut, WriteFails, Active
    <2>3. RemoveAdv(p) \/ RemoveTmp(p) \/ Rename(p) => Active(p)
      BY DEF RemoveAdv, RemoveTmp, Rename, steps, Active
    <2> QED
      BY <1>2, <2>1, <2>2, <2>3 DEF Merge
  <1>3. CASE ChildStep(p)
    BY <1>3 DEF ChildStep, Redirection, CreateFile, CreateTmp, Exec, Run, At, Active
  <1>4. CASE Kill(p) \/ Stop(p)
    BY <1>4 DEF Kill, Stop, At, Active
  <1> QED
    BY <1>1, <1>2, <1>3, <1>4 DEF Act

LEMMA ActsAlone ==
  ASSUME IInv, NEW p \in Shells, Act(p)
  PROVE  OthersStay(p)
  <1> USE DEF OthersStay
  <1>0. sh \in [Shells -> Parents] /\ child \in [Shells -> Children]
    BY DEF IInv, Typed
  <1>1. CASE Command(p)
    <2>1. PICK w \in UNION {as_read(p, c) : c \in Commands} :
            \/ /\ sh' = [sh EXCEPT ![p].given = @ + 1]
               /\ UNCHANGED <<dir, data, child>>
            \/ BuiltIn(p, w) \/ Fork(p, w) \/ ForkFails(p, w)
      BY <1>1 DEF Command
    <2>2. BuiltIn(p, w) => OthersStay(p)
      BY <1>0 DEF BuiltIn, gone
    <2>3. Fork(p, w) => OthersStay(p)
      <3> DEFINE adv == format_redirection(w) = 2 /\ word(w, sign(w) + 1) # None
                 e == adv /\ file_exists(p, w[sign(w) + 1])
                 r == [sh[p] EXCEPT !.pc = "wait", !.words = w,
                                    !.given = sh[p].given + 1, !.exists = e]
                 begun == IF format_redirection(w) > -1 THEN "redirect" ELSE "exec"
                 c == [NoChild EXCEPT !.args = w, !.st = begun]
      <3>1. Fork(p, w) => sh' = [sh EXCEPT ![p] = r] /\ child' = [child EXCEPT ![p] = c]
        BY DEF Fork
      <3> HIDE DEF r, c
      <3> QED
        BY <1>0, <3>1
    <2>4. ForkFails(p, w) => OthersStay(p)
      BY <1>0 DEF ForkFails, gone
    <2> QED
      BY <1>0, <2>1, <2>2, <2>3, <2>4
  <1>2. CASE Wait(p)
    BY <1>0, <1>2 DEF Wait, steps
  <1>3. CASE Merge(p)
    <2>1. OpenTmp(p) \/ OpenAdv(p) \/ OpenNew(p) => OthersStay(p)
      BY <1>0 DEF OpenTmp, OpenAdv, OpenNew
    <2>2. Copy(p) => OthersStay(p)
      BY <1>0 DEF Copy, gone
    <2>3. Close(p) => OthersStay(p)
      BY <1>0 DEF Close
    <2>4. RemoveAdv(p) \/ RemoveTmp(p) \/ Rename(p) => OthersStay(p)
      BY <1>0 DEF RemoveAdv, RemoveTmp, Rename, steps
    <2> QED
      BY <1>3, <2>1, <2>2, <2>3, <2>4 DEF Merge
  <1>4. CASE Crash(p) \/ Kill(p) \/ Stop(p)
    BY <1>0, <1>4 DEF Crash, gone, Kill, Stop
  <1>5. CASE ChildStep(p)
    <2>1. Redirection(p) => OthersStay(p)
      BY <1>0 DEF Redirection, goes
    <2>2. CreateFile(p) \/ CreateTmp(p) => OthersStay(p)
      BY <1>0 DEF CreateFile, CreateTmp, goes, redirected
    <2>3. Exec(p) => OthersStay(p)
      BY <1>0 DEF Exec, goes
    <2>4. Run(p) => OthersStay(p)
      BY <1>0 DEF Run
    <2> QED
      BY <1>5, <2>1, <2>2, <2>3, <2>4 DEF ChildStep
  <1> QED
    BY <1>1, <1>2, <1>3, <1>4, <1>5 DEF Act

\* No program prints the byte that a signed char cannot tell from EOF.
NoEof == \A c \in DOMAIN Prints : FF \notin Range(Prints[c])

LEMMA NoEofRead ==
  ASSUME NoEof, NEW s \in Seq(Chunks)
  PROVE  until_eof(s) = s
  <1>1. FF \notin Chunks
    <2> DEFINE others == UNION {Range(Prints[c]) : c \in DOMAIN Prints}
    <2>1. FF \notin others
      BY Zenon DEF NoEof
    <2>2. Chunks = {ERR} \cup others
      BY Zenon DEF Chunks
    <2>3. FF # ERR
      BY DEF FF, ERR
    <2> HIDE DEF others
    <2> QED
      BY <2>1, <2>2, <2>3
  <1>2. \A i \in DOMAIN s : s[i] # FF
    BY <1>1
  <1> QED
    BY <1>2, UntilEof

LEMMA InitMergeInv == Init => MergeInv
  <1> SUFFICES ASSUME Init PROVE OneActive /\ \A p \in Shells : Held(p)
    BY DEF MergeInv
  <1>1. \A p \in Shells : sh[p].pc = "unborn" /\ child[p].st = "done"
    BY DEF Init, Parent, NoChild
  <1> QED
    BY <1>1 DEF OneActive, Active, Held

\* What a merge step of a shell that is alone leaves behind.
LEMMA MergeHolds ==
  ASSUME NoEof, IInv, MergeInv, Calm, NEW p \in Shells, Merge(p)
  PROVE  Held(p)'
  <1>1. sh[p].pc \in Merging
    <2>1. OpenTmp(p) \/ OpenAdv(p) \/ OpenNew(p) \/ Copy(p) => sh[p].pc \in Merging
      BY DEF OpenTmp, OpenAdv, OpenNew, Copy, Merging
    <2>2. Close(p) => sh[p].pc \in Merging
      BY DEF Close, WriteOut, WriteFails, Merging
    <2>3. RemoveAdv(p) \/ RemoveTmp(p) \/ Rename(p) => sh[p].pc \in Merging
      BY DEF RemoveAdv, RemoveTmp, Rename, steps, Merging
    <2> QED
      BY <2>1, <2>2, <2>3 DEF Merge
  <1>2. /\ sh[p] \in Parents /\ sh \in [Shells -> Parents] /\ Held(p)
        /\ target(p) \in Names /\ newfile_txt(p) \in Names /\ tmp_txt(p) \in Names
        /\ target(p) # newfile_txt(p)
        /\ dir \in [Names -> Inodes \cup {None}] /\ data \in [Inodes -> Seq(Chunks)]
    <2>1. target(p) # newfile_txt(p)
      <3>1. newfile_txt(p)[2] = "newfile.txt" /\ target(p)[2] \notin Scratch
        BY <1>1, MergeTurn DEF newfile_txt, path
      <3> QED
        BY <3>1 DEF Scratch
    <2> QED
      BY <1>1, <2>1, MergeTurn DEF IInv, Typed, MergeInv
  <1> DEFINE Same == sh'[p].words = sh[p].words /\ sh'[p].cwd = sh[p].cwd
  <1>3. Same => target(p)' = target(p) /\ newfile_txt(p)' = newfile_txt(p)
    BY DEF target, newfile_txt, path
  <1>4. CASE OpenTmp(p)
    <2>1. sh'[p].pc = "open_adv"
      BY <1>2, <1>4 DEF OpenTmp
    <2> QED
      BY <2>1 DEF Held
  <1>5. CASE OpenAdv(p)
    <2>1. sh'[p].pc = "open_new" /\ sh'[p].adv = dir[target(p)] /\ Same /\ dir' = dir
      BY <1>2, <1>5 DEF OpenAdv, Parents
    <2> QED
      BY <1>3, <2>1 DEF Held
  <1>6. CASE OpenNew(p)
    <2>1. PICK i \in Inodes :
            /\ \/ Create(newfile_txt(p), i)
               \/ /\ dir[newfile_txt(p)] = i
                  /\ data' = [data EXCEPT ![i] = <<>>]
                  /\ UNCHANGED dir
            /\ sh' = [sh EXCEPT ![p] = [@ EXCEPT !.pc = "copy", !.new = i]]
      BY <1>6 DEF OpenNew
    <2>2. /\ sh'[p].pc = "copy" /\ sh'[p].new = i /\ sh'[p].adv = sh[p].adv /\ Same
      BY <1>2, <2>1 DEF Parents
    <2>3. dir'[newfile_txt(p)] = i /\ data'[i] = <<>> /\ dir'[target(p)] = dir[target(p)]
      <3>1. CASE Create(newfile_txt(p), i)
        BY <1>2, <3>1, Created
      <3>2. CASE dir[newfile_txt(p)] = i /\ data' = [data EXCEPT ![i] = <<>>] /\ UNCHANGED dir
        BY <1>2, <3>2
      <3> QED
        BY <2>1, <3>1, <3>2
    <2>4. sh[p].adv = dir[target(p)]
      BY <1>2, <1>6 DEF OpenNew, Held
    <2> QED
      BY <1>3, <2>2, <2>3, <2>4 DEF Held
  <1>7. CASE Copy(p)
    <2>1. CASE None \in {sh[p].tmp, sh[p].adv}
      <3>1. sh'[p].pc = "gone"
        <4>1. gone(p)
          BY <1>7, <2>1 DEF Copy
        <4> QED
          BY <1>2, <4>1 DEF gone, Parents
      <3> QED
        BY <3>1 DEF Held
    <2>2. CASE None \notin {sh[p].tmp, sh[p].adv}
      <3> DEFINE a == data[sh[p].tmp]
                 b == data[sh[p].adv]
      <3>1. a \in Seq(Chunks) /\ b \in Seq(Chunks) /\ sh[p].pc = "copy"
        BY <1>2, <1>7, <2>2 DEF Copy, Parents
      <3>2. /\ sh' = [sh EXCEPT ![p] = [@ EXCEPT !.pc = "close",
                         !.buf = until_eof(a) \o until_eof(b)]]
            /\ dir' = dir /\ data' = data
        BY <1>7, <2>2 DEF Copy
      <3>3. until_eof(a) = a /\ until_eof(b) = b
        BY <3>1, NoEofRead
      <3>4. /\ sh'[p].pc = "close" /\ sh'[p].buf = a \o b /\ sh'[p].new = sh[p].new
            /\ sh'[p].adv = sh[p].adv /\ Same
        BY <1>2, <3>2, <3>3 DEF Parents
      <3> QED
        BY <1>2, <1>3, <3>1, <3>2, <3>4 DEF Held
    <2> QED
      BY <2>1, <2>2
  <1>8. CASE Close(p)
    <2>1. WriteOut(p)
      BY <1>8 DEF Close, WriteFails, Calm
    <2>2. /\ sh[p].pc = "close" /\ sh[p].new \in Inodes /\ sh[p].adv \in Inodes
          /\ sh[p].buf \in Seq(Chunks) /\ data[sh[p].new] = <<>>
          /\ dir[newfile_txt(p)] = sh[p].new /\ sh[p].adv = dir[target(p)]
      BY <1>2, <2>1 DEF WriteOut, Held, IInv, InTurn, Parents
    <2>3. PICK t \in Seq(Chunks) : sh[p].buf = t \o data[sh[p].adv]
      BY <1>2, <2>2 DEF Held
    <2>4. sh[p].new # sh[p].adv /\ sh[p].new # None
      BY <1>2, <2>2, ShellAssumption DEF IInv, OneName, ShellAssumption
    <2>5. dir' = dir /\ data' = [data EXCEPT ![sh[p].new] =
                          sh[p].buf \o SubSeq(<<>>, Len(sh[p].buf) + 1, Len(<<>>))]
      BY <2>1, <2>2 DEF WriteOut
    <2>6. sh[p].buf \o SubSeq(<<>>, Len(sh[p].buf) + 1, Len(<<>>)) = sh[p].buf
      <3>1. Len(sh[p].buf) \in Nat
        BY <2>2
      <3>2. SubSeq(<<>>, Len(sh[p].buf) + 1, Len(<<>>)) = <<>>
        BY <3>1
      <3>3. sh[p].buf \o <<>> = sh[p].buf
        BY <2>2
      <3> QED
        BY <3>2, <3>3, Zenon
    <2>7. data'[sh[p].new] = sh[p].buf /\ data'[sh[p].adv] = data[sh[p].adv]
      BY <1>2, <2>2, <2>4, <2>5, <2>6
    <2>8. sh'[p].pc = "remove_adv" /\ Same
      BY <1>2, <1>8 DEF Close, Parents
    <2> QED
      BY <1>3, <2>2, <2>3, <2>4, <2>5, <2>7, <2>8 DEF Held
  <1>9. CASE RemoveAdv(p)
    <2>1. sh'[p].pc = "remove_tmp" /\ Same /\ dir'[target(p)] = None
      BY <1>2, <1>9 DEF RemoveAdv, steps, removed, Parents
    <2> QED
      BY <1>3, <2>1 DEF Held
  <1>10. CASE RemoveTmp(p)
    <2>1. sh'[p].pc = "rename" /\ Same /\ dir'[target(p)] = None
      BY <1>2, <1>10 DEF RemoveTmp, steps, removed, Parents, Held
    <2> QED
      BY <1>3, <2>1 DEF Held
  <1>11. CASE Rename(p)
    <2>1. sh'[p].pc = "idle"
      BY <1>2, <1>11 DEF Rename, steps, Parents
    <2> QED
      BY <2>1 DEF Held
  <1> QED
    BY <1>4, <1>5, <1>6, <1>7, <1>8, <1>9, <1>10, <1>11 DEF Merge

LEMMA MergeInvStep ==
  ASSUME NoEof, IInv, MergeInv, [Next]_vars
  PROVE  MergeInv'
  <1> SUFFICES ASSUME Calm' PROVE OneActive' /\ \A p \in Shells : Held(p)'
    BY DEF MergeInv
  <1>1. CASE UNCHANGED vars
    BY <1>1, CalmStays DEF vars, MergeInv, OneActive, Active, Held, target, newfile_txt, path
  <1>2. CASE Next
    <2>1. Calm /\ OneActive /\ \A p \in Shells : Held(p)
      BY <1>2, CalmStays DEF Next, MergeInv
    <2>2. ASSUME NEW p \in Shells, Start(p)
          PROVE  OneActive' /\ \A q \in Shells : Held(q)'
      <3>1. \A q \in Shells : sh[q].pc \in {"unborn", "gone"} /\ child[q].st = "done"
        BY <2>1, <2>2 DEF Start, Calm
      <3>2. /\ \A q \in Shells \ {p} : sh'[q].pc \in {"unborn", "gone"} /\ child'[q].st = "done"
            /\ sh'[p].pc = "idle"
        BY <2>2, <3>1 DEF Start, steps, IInv, Typed, Parents
      <3> QED
        BY <3>2 DEF OneActive, Active, Held
    <2>3. ASSUME NEW p \in Shells, Continue(p)
          PROVE  OneActive' /\ \A q \in Shells : Held(q)'
      <3>1. UNCHANGED <<dir, data, sh>> /\ \A q \in Shells : child'[q].st = child[q].st
        BY <2>3 DEF Continue, IInv, Typed, Children
      <3> QED
        BY <2>1, <3>1 DEF OneActive, Active, Held, target, newfile_txt, path
    <2>4. ASSUME NEW p \in Shells, Act(p)
          PROVE  OneActive' /\ \A q \in Shells : Held(q)'
      <3>1. \A q \in Shells \ {p} : ~Active(q) /\ sh'[q] = sh[q] /\ child'[q] = child[q]
        BY <2>1, <2>4, ActsAreActive, ActsAlone DEF OneActive, OthersStay
      <3>2. \A q \in Shells \ {p} : ~Active(q)' /\ Held(q)'
        BY <3>1 DEF Active, Held
      <3>3. Held(p)'
        <4>1. CASE Merge(p)
          BY <2>1, <4>1, MergeHolds
        <4>2. CASE Command(p)
          <5>1. sh'[p].pc \in {"idle", "wait", "gone"}
            <6>1. sh[p].pc = "idle" /\ sh \in [Shells -> Parents]
              BY <4>2 DEF Command, IInv, Typed
            <6>2. PICK w \in UNION {as_read(p, c) : c \in Commands} :
                    \/ sh' = [sh EXCEPT ![p].given = @ + 1]
                    \/ BuiltIn(p, w) \/ Fork(p, w) \/ ForkFails(p, w)
              BY <4>2 DEF Command
            <6>3. CASE sh' = [sh EXCEPT ![p].given = @ + 1]
              BY <6>1, <6>3 DEF Parents
            <6>6. gone(p) => sh'[p].pc = "gone"
              BY <6>1 DEF gone, Parents
            <6>7. BuiltIn(p, w) => sh'[p].pc \in {"idle", "gone"}
              <7> DEFINE to == IF built_cd(w) = {} THEN sh[p].cwd
                               ELSE CHOOSE d \in built_cd(w) : TRUE
                         r == [sh[p] EXCEPT !.given = sh[p].given + 1, !.cwd = to]
              <7>1. BuiltIn(p, w) => \/ sh' = [sh EXCEPT ![p] = r]
                                     \/ gone(p)
                                     \/ sh' = [sh EXCEPT ![p].given = @ + 1]
                BY DEF BuiltIn
              <7>2. r.pc = "idle"
                <8> HIDE DEF to
                <8> QED
                  BY <6>1 DEF Parents
              <7> HIDE DEF r
              <7> QED
                BY <6>1, <6>6, <7>1, <7>2 DEF Parents
            <6>4. CASE BuiltIn(p, w) \/ ForkFails(p, w)
              BY <6>4, <6>6, <6>7 DEF ForkFails
            <6>5. CASE Fork(p, w)
              <7> DEFINE adv == format_redirection(w) = 2 /\ word(w, sign(w) + 1) # None
                         e == adv /\ file_exists(p, w[sign(w) + 1])
                         r == [sh[p] EXCEPT !.pc = "wait", !.words = w,
                                            !.given = sh[p].given + 1, !.exists = e]
              <7>1. sh' = [sh EXCEPT ![p] = r]
                BY <6>5 DEF Fork
              <7>2. r.pc = "wait"
                <8> HIDE DEF e
                <8> QED
                  BY <6>1 DEF Parents
              <7> HIDE DEF r
              <7> QED
                BY <6>1, <7>1, <7>2
            <6> QED
              BY <6>2, <6>3, <6>4, <6>5
          <5> QED
            BY <5>1 DEF Held
        <4>3. CASE Wait(p)
          <5>1. sh'[p].pc \in {"open_tmp", "idle"}
            BY <4>3 DEF Wait, steps, IInv, Typed, Parents
          <5> QED
            BY <5>1 DEF Held
        <4>4. CASE Crash(p)
          <5>1. sh'[p].pc = "gone"
            BY <4>4 DEF Crash, gone, IInv, Typed, Parents
          <5> QED
            BY <5>1 DEF Held
        <4>5. CASE ChildStep(p) \/ Kill(p) \/ Stop(p)
          <5>1. child[p].st # "done" /\ UNCHANGED sh
            BY <4>5 DEF ChildStep, Redirection, CreateFile, CreateTmp, Exec, Run, Kill, Stop, At
          <5>2. sh'[p].pc \in {"wait", "gone"}
            BY <5>1 DEF IInv, InTurn
          <5> QED
            BY <5>2 DEF Held
        <4> QED
          BY <2>4, <4>1, <4>2, <4>3, <4>4, <4>5 DEF Act
      <3>4. OneActive'
        BY <3>2 DEF OneActive
      <3> QED
        BY <3>2, <3>3, <3>4
    <2> QED
      BY <1>2, <2>2, <2>3, <2>4 DEF Next, Act
  <1> QED
    BY <1>1, <1>2

----------------------------------------------------------------------------
\* The contents of n are in some file after the step, or in one that is exempt.
Kept(n) ==
    \/ dir[n] = None \/ n[2] = "tmp.txt"
    \/ \E m \in Names : /\ m[2] # "tmp.txt" /\ dir'[m] # None
                        /\ within(contents(n), contents(m)')
    \/ n[2] = "newfile.txt" /\ \E p \in Shells : OpenNew(p)

LEMMA KeptInPlace ==
  ASSUME IInv, NEW n \in Names, dir[n] # None => dir'[n] = dir[n] /\ data'[dir[n]] = data[dir[n]]
  PROVE  Kept(n)
  <1> SUFFICES ASSUME dir[n] # None, n[2] # "tmp.txt" PROVE Kept(n)
    BY DEF Kept
  <1>1. data[dir[n]] \in Seq(Chunks)
    BY DEF IInv, Typed
  <1>2. contents(n) = data[dir[n]] /\ contents(n)' = data[dir[n]] /\ dir'[n] # None
    BY DEF contents
  <1> QED
    BY <1>1, <1>2, WithinItself DEF Kept

LEMMA KeptWhenCreated ==
  ASSUME IInv, NEW n \in Names, NEW m, NEW i \in Inodes, Create(m, i)
  PROVE  Kept(n)
  <1>1. /\ m \in Names /\ dir[m] = None /\ dir' = [dir EXCEPT ![m] = i]
        /\ data' = [data EXCEPT ![i] = <<>>] /\ i \in Free
    BY Created
  <1>2. dir[n] # i
    BY <1>1 DEF Free
  <1>3. dir[n] # None => dir'[n] = dir[n] /\ data'[dir[n]] = data[dir[n]]
    BY <1>1, <1>2 DEF IInv, Typed
  <1> QED
    BY <1>3, KeptInPlace

LEMMA KeptWhenWritten ==
  ASSUME IInv, NEW n \in Names, NEW p \in Shells, NEW b \in Seq(Chunks),
         write(p, b), UNCHANGED dir
  PROVE  Kept(n)
  <1> DEFINE i == child[p].out
  <1>1. CASE dir[n] # i \/ i = Tty \/ dir[n] = None
    BY <1>1, KeptInPlace DEF write, IInv, Typed
  <1>2. CASE dir[n] = i /\ i # Tty /\ dir[n] # None /\ n[2] # "tmp.txt"
    <2>1. i \in Inodes /\ data[i] \in Seq(Chunks)
      BY <1>2 DEF IInv, Typed
    <2>2. data'[i] = data[i] \o b /\ dir'[n] = i
      BY <1>2, <2>1 DEF write, IInv, Typed
    <2>3. contents(n) = data[i] /\ contents(n)' = data[i] \o b
      BY <1>2, <2>2 DEF contents
    <2>4. within(contents(n), contents(n)')
      BY <2>1, <2>3, FrontWithin
    <2> QED
      BY <1>2, <2>2, <2>4 DEF Kept
  <1> QED
    BY <1>1, <1>2 DEF Kept

LEMMA KeptInMerge ==
  ASSUME NoEof, IInv, MergeInv, Calm, NEW p \in Shells, Merge(p), NEW n \in Names
  PROVE  Kept(n)
  <1>0. Held(p)
    BY DEF MergeInv
  <1>1. sh[p].pc \in Merging => /\ target(p) \in Names /\ newfile_txt(p) \in Names
                                /\ tmp_txt(p) \in Names
                                /\ target(p)[2] \notin Scratch
    BY MergeTurn
  <1>2. newfile_txt(p)[2] = "newfile.txt" /\ tmp_txt(p)[2] = "tmp.txt"
    BY DEF newfile_txt, tmp_txt, path
  <1>3. dir \in [Names -> Inodes \cup {None}] /\ data \in [Inodes -> Seq(Chunks)]
    BY DEF IInv, Typed
  <1>4. CASE OpenTmp(p) \/ OpenAdv(p) \/ Copy(p)
    BY <1>4, KeptInPlace DEF OpenTmp, OpenAdv, Copy
  <1>5. CASE OpenNew(p)
    <2>1. PICK i \in Inodes :
            \/ Create(newfile_txt(p), i)
            \/ /\ dir[newfile_txt(p)] = i
               /\ data' = [data EXCEPT ![i] = <<>>]
               /\ UNCHANGED dir
      BY <1>5 DEF OpenNew
    <2>2. CASE Create(newfile_txt(p), i)
      BY <2>2, KeptWhenCreated
    <2>3. CASE /\ dir[newfile_txt(p)] = i /\ data' = [data EXCEPT ![i] = <<>>]
               /\ UNCHANGED dir
      <3>1. CASE n = newfile_txt(p)
        BY <1>2, <1>5, <3>1 DEF Kept
      <3>2. CASE n # newfile_txt(p)
        <4>1. newfile_txt(p) \in Names
          BY <1>1, <1>5 DEF OpenNew, Merging
        <4>2. dir[n] # None => dir[n] # i
          BY <2>3, <3>2, <4>1 DEF IInv, OneName
        <4> QED
          BY <1>3, <2>3, <4>2, KeptInPlace
      <3> QED
        BY <3>1, <3>2
    <2> QED
      BY <2>1, <2>2, <2>3
  <1>6. CASE Close(p)
    <2>1. WriteOut(p)
      BY <1>6 DEF Close, WriteFails, Calm
    <2>2. /\ dir' = dir /\ data[sh[p].new] = <<>> /\ sh[p].new \in Inodes
          /\ sh[p].buf \in Seq(Chunks)
          /\ data' = [data EXCEPT ![sh[p].new] =
                         sh[p].buf \o SubSeq(@, Len(sh[p].buf) + 1, Len(@))]
      BY <1>0, <2>1 DEF WriteOut, Held, IInv, InTurn, Typed, Parents
    <2>3. CASE dir[n] # sh[p].new \/ dir[n] = None
      BY <1>3, <2>2, <2>3, KeptInPlace
    <2>4. CASE dir[n] = sh[p].new /\ dir[n] # None /\ n[2] # "tmp.txt"
      <3>1. data' \in [Inodes -> Seq(Chunks)]
        BY <1>6, CloseWrites
      <3>2. contents(n) = <<>> /\ contents(n)' \in Seq(Chunks) /\ dir'[n] # None
        BY <2>2, <2>4, <3>1 DEF contents
      <3>3. within(contents(n), contents(n)')
        BY <3>2, EmptyWithin
      <3> QED
        BY <3>2, <3>3 DEF Kept
    <2> QED
      BY <2>3, <2>4 DEF Kept
  <1>7. CASE RemoveAdv(p)
    <2>1. /\ sh[p].pc = "remove_adv" /\ dir' = [dir EXCEPT ![target(p)] = None]
          /\ data' = data /\ target(p) \in Names /\ newfile_txt(p) \in Names
          /\ target(p)[2] \notin Scratch
      BY <1>1, <1>7 DEF RemoveAdv, steps, removed, Merging
    <2>2. CASE n # target(p)
      BY <1>3, <2>1, <2>2, KeptInPlace
    <2>3. CASE n = target(p) /\ dir[n] # None
      <3>8. PICK m \in Names : m = newfile_txt(p)
        BY <2>1
      <3>1. m # target(p)
        BY <1>2, <2>1, <3>8 DEF Scratch
      <3>2. dir[m] # None /\ \E t \in Seq(Chunks) : data[dir[m]] = t \o data[dir[n]]
        BY <1>0, <2>1, <2>3, <3>8 DEF Held
      <3>3. dir'[m] = dir[m]
        BY <1>3, <2>1, <3>1
      <3>4. contents(n) = data[dir[n]] /\ contents(m)' = data[dir[m]]
        BY <2>1, <2>3, <3>2, <3>3 DEF contents
      <3>5. data[dir[n]] \in Seq(Chunks)
        BY <1>3, <2>3
      <3>6. within(contents(n), contents(m)')
        BY <3>2, <3>4, <3>5, BackWithin
      <3>7. m[2] # "tmp.txt"
        BY <1>2, <3>8
      <3> QED
        BY <2>1, <3>2, <3>3, <3>6, <3>7 DEF Kept
    <2> QED
      BY <2>2, <2>3 DEF Kept
  <1>8. CASE RemoveTmp(p)
    <2>1. dir' = [dir EXCEPT ![tmp_txt(p)] = None] /\ data' = data
      BY <1>8 DEF RemoveTmp, removed
    <2>2. CASE n # tmp_txt(p)
      BY <1>3, <2>1, <2>2, KeptInPlace
    <2>3. CASE n = tmp_txt(p)
      BY <1>2, <2>3 DEF Kept
    <2> QED
      BY <2>2, <2>3
  <1>9. CASE Rename(p)
    <2> DEFINE i == dir[newfile_txt(p)]
    <2>5. target(p) \in Names
      BY <1>1, <1>9 DEF Rename, steps, Merging
    <2>6. PICK m \in Names : m = target(p)
      BY <2>5
    <2>1. /\ sh[p].pc = "rename" /\ data' = data /\ m \in Names /\ newfile_txt(p) \in Names
          /\ m[2] \notin Scratch /\ dir[m] = None
          /\ dir' = IF i = None THEN dir ELSE [dir EXCEPT ![m] = i, ![newfile_txt(p)] = None]
      BY <1>0, <1>1, <1>9, <2>6 DEF Rename, steps, Merging, Held
    <2>2. m # newfile_txt(p) /\ m[2] # "tmp.txt"
      BY <1>2, <2>1 DEF Scratch
    <2>3. CASE n # newfile_txt(p) \/ i = None
      BY <1>3, <2>1, <2>3, KeptInPlace
    <2>4. CASE n = newfile_txt(p) /\ i # None
      <3>1. dir'[m] = i
        BY <1>3, <2>1, <2>2, <2>4
      <3>2. contents(n) = data[i] /\ contents(m)' = data[i] /\ data[i] \in Seq(Chunks)
        BY <1>3, <2>1, <2>4, <3>1 DEF contents
      <3>3. within(contents(n), contents(m)')
        BY <3>2, WithinItself
      <3> QED
        BY <2>1, <2>2, <2>4, <3>1, <3>3 DEF Kept
    <2> QED
      BY <2>3, <2>4
  <1> QED
    BY <1>4, <1>5, <1>6, <1>7, <1>8, <1>9 DEF Merge

LEMMA KeptByAll ==
  ASSUME NoEof, IInv, MergeInv, [Next]_vars, Calm, NEW n \in Names
  PROVE  Kept(n)
  <1>1. CASE UNCHANGED <<dir, data>>
    BY <1>1, KeptInPlace
  <1>2. ASSUME NEW p \in Shells, Merge(p) PROVE Kept(n)
    BY <1>2, KeptInMerge
  <1>3. ASSUME NEW p \in Shells, ChildStep(p) PROVE Kept(n)
    <2>1. CASE Redirection(p)
      BY <1>1, <2>1 DEF Redirection
    <2>2. CASE CreateFile(p) \/ CreateTmp(p)
      BY <1>1, <2>2, KeptWhenCreated DEF CreateFile, CreateTmp
    <2>3. CASE Exec(p)
      BY <1>1, <2>3, ErrPrinted, KeptWhenWritten DEF Exec
    <2>4. CASE Run(p)
      <3>1. CASE child[p].left = <<>>
        BY <1>1, <2>4, <3>1 DEF Run
      <3>2. CASE child[p].left # <<>>
        <4>1. child[p].left \in Seq(Chunks)
          BY DEF IInv, Typed, Children
        <4>2. <<Head(child[p].left)>> \in Seq(Chunks)
          BY <3>2, <4>1, SeqSplit, SeqOne
        <4>3. write(p, <<Head(child[p].left)>>) /\ UNCHANGED dir
          BY <2>4, <3>2 DEF Run
        <4> QED
          BY <4>2, <4>3, KeptWhenWritten
      <3> QED
        BY <3>1, <3>2
    <2> QED
      BY <1>3, <2>1, <2>2, <2>3, <2>4 DEF ChildStep
  <1>4. ASSUME NEW p \in Shells,
               \/ Start(p) \/ Command(p) \/ Wait(p) \/ Crash(p)
               \/ Kill(p) \/ Stop(p) \/ Continue(p)
        PROVE  UNCHANGED <<dir, data>>
    <2>1. Command(p) => UNCHANGED <<dir, data>>
      BY DEF Command, BuiltIn, Fork, ForkFails
    <2> QED
      BY <1>4, <2>1 DEF Start, Wait, Crash, Kill, Stop, Continue
  <1> QED
    BY <1>1, <1>2, <1>3, <1>4 DEF Next, vars

\* run_cmd's merge (myshell.c:269-291) and a crash between any two of its calls:
\* as long as one shell runs at a time, no write fails and no program prints the
\* byte that the copying loop takes for the end of a file, every contents of a file
\* are part of a file after each step, but for a newfile.txt that a crash left.
THEOREM MergeLosesNothing == ASSUME NoEof PROVE Spec => NothingLost
  <1>1. Init => MergeInv
    BY InitMergeInv
  <1>2. IInv /\ MergeInv /\ [Next]_vars => MergeInv'
    BY MergeInvStep
  <1>3. IInv /\ MergeInv /\ [Next]_vars =>
          [Calm => \A n \in Names : Kept(n)]_vars
    BY KeptByAll
  <1>4. Spec => [][Calm => \A n \in Names : Kept(n)]_vars
    BY <1>1, <1>2, <1>3, Inductive, PTL DEF Spec
  <1> QED
    BY <1>4 DEF NothingLost, Calm, Kept

----------------------------------------------------------------------------
(* One shell that nobody kills implements Redirections.                    *)

LEMMA PrefixOfJoined ==
  ASSUME NEW s \in Seq(Chunks), NEW t \in Seq(Chunks)
  PROVE  s \in Promise!Prefixes(s \o t)
  <1> DEFINE u == s \o t
  <1>1. /\ u \in Seq(Chunks) /\ Len(u) = Len(s) + Len(t) /\ Len(s) \in Nat /\ Len(t) \in Nat
        /\ \A j \in 1 .. Len(s) : u[j] = s[j]
    BY SeqJoined
  <1> HIDE DEF u
  <1>2. SubSeq(u, 1, Len(s)) = s
    BY <1>1
  <1>3. Len(s) \in 0 .. Len(u)
    BY <1>1
  <1> QED
    BY <1>2, <1>3, Zenon DEF Promise!Prefixes, u

LEMMA OneMore ==
  ASSUME NEW s \in Seq(Chunks), NEW t \in Seq(Chunks), t # <<>>
  PROVE  /\ (s \o <<Head(t)>>) \o Tail(t) = s \o t
         /\ s \o <<Head(t)>> \in Seq(Chunks) /\ Len(s \o <<Head(t)>>) = Len(s) + 1
         /\ Head(t) \in Chunks /\ Tail(t) \in Seq(Chunks)
  <1> DEFINE h == Head(t)
             r == Tail(t)
             a == s \o <<h>>
  <1>1. /\ h \in Chunks /\ r \in Seq(Chunks) /\ Len(r) = Len(t) - 1 /\ h = t[1]
        /\ Len(t) \in Nat /\ Len(s) \in Nat
        /\ \A j \in 1 .. Len(r) : r[j] = t[j + 1]
    OBVIOUS
  <1>2. <<h>> \in Seq(Chunks) /\ Len(<<h>>) = 1 /\ <<h>>[1] = h
    BY <1>1, SeqOne
  <1> HIDE DEF h, r
  <1>3. /\ a \in Seq(Chunks) /\ Len(a) = Len(s) + 1
        /\ \A j \in 1 .. (Len(s) + 1) : a[j] = IF j <= Len(s) THEN s[j] ELSE h
    BY <1>1, <1>2, SeqJoined
  <1> HIDE DEF a
  <1>8. /\ a \o r \in Seq(Chunks) /\ Len(a \o r) = Len(a) + Len(r)
        /\ \A j \in 1 .. (Len(a) + Len(r)) :
              (a \o r)[j] = IF j <= Len(a) THEN a[j] ELSE r[j - Len(a)]
    BY <1>1, <1>3, SeqJoined
  <1>9. Len(a) + Len(r) = Len(s) + Len(t)
    BY <1>1, <1>3
  <1>4. /\ a \o r \in Seq(Chunks) /\ Len(a \o r) = Len(s) + Len(t)
        /\ \A j \in 1 .. (Len(s) + Len(t)) :
              (a \o r)[j] = IF j <= Len(s) + 1 THEN a[j] ELSE r[j - (Len(s) + 1)]
    BY <1>3, <1>8, <1>9
  <1>5. /\ s \o t \in Seq(Chunks) /\ Len(s \o t) = Len(s) + Len(t)
        /\ \A j \in 1 .. (Len(s) + Len(t)) :
              (s \o t)[j] = IF j <= Len(s) THEN s[j] ELSE t[j - Len(s)]
    BY SeqJoined
  <1>6. \A j \in 1 .. (Len(s) + Len(t)) : (a \o r)[j] = (s \o t)[j]
    <2> SUFFICES ASSUME NEW j \in 1 .. (Len(s) + Len(t)) PROVE (a \o r)[j] = (s \o t)[j]
      OBVIOUS
    <2>1. CASE j <= Len(s)
      BY <1>1, <1>3, <1>4, <1>5, <2>1
    <2>2. CASE j = Len(s) + 1
      BY <1>1, <1>3, <1>4, <1>5, <2>2
    <2>3. CASE j > Len(s) + 1
      <3>1. j - (Len(s) + 1) \in 1 .. Len(r) /\ (j - (Len(s) + 1)) + 1 = j - Len(s)
        BY <1>1, <2>3
      <3>2. r[j - (Len(s) + 1)] = t[j - Len(s)]
        BY <1>1, <3>1
      <3> QED
        BY <1>1, <1>4, <1>5, <2>3, <3>2
    <2>4. j <= Len(s) \/ j = Len(s) + 1 \/ j > Len(s) + 1
      BY <1>1
    <2> QED
      BY <2>1, <2>2, <2>3, <2>4, Zenon
  <1>7. a \o r = s \o t
    <2> DEFINE u == a \o r
               v == s \o t
    <2> HIDE DEF u, v
    <2>1. u \in Seq(Chunks) /\ v \in Seq(Chunks) /\ Len(u) = Len(v)
          /\ \A j \in 1 .. Len(u) : u[j] = v[j]
      BY <1>4, <1>5, <1>6 DEF u, v
    <2>2. u = v
      BY <2>1
    <2> QED
      BY <2>2 DEF u, v
  <1> QED
    BY <1>1, <1>3, <1>7 DEF h, r, a

\* The words before the sign.
Before(w) == SubSeq(w, 1, sign(w) - 1)

LEMMA LegalWords ==
  ASSUME NEW w \in Seq(Words), legal(w)
  PROVE  /\ OneSign(w) /\ sign(w) + 1 \in DOMAIN w /\ w # <<>>
         /\ Before(w) \in Seq(Words)
         /\ RedirectedTo(w) = <<Home, w[sign(w) + 1]>>
         /\ Printed(w) = IF Before(w) = <<>> THEN <<>>
                         ELSE IF Before(w)[1] \in DOMAIN Prints THEN Prints[Before(w)[1]]
                         ELSE <<ERR>>
  <1>1. IsFiniteSet(signs(w)) /\ Cardinality(signs(w)) = 1 /\ signs(w) # {}
    BY SignsFinite, FS_EmptySet DEF legal
  <1>2. PICK i : signs(w) = {i}
    BY <1>1, FS_Singleton
  <1>3. OneSign(w)
    BY <1>2 DEF OneSign, signs
  <1>4. sign(w) \in 1 .. Len(w) /\ Len(w) \in Nat
    BY <1>3, SignWord
  <1>5. Before(w) \in Seq(Words)
    BY <1>4, SeqPart DEF Before
  <1>6. sign(w) + 1 \in DOMAIN w
    BY DEF legal, word
  <1>7. RedirectedTo(w) = <<Home, w[sign(w) + 1]>>
    BY DEF RedirectedTo
  <1>8. Printed(w) = IF Before(w) = <<>> THEN <<>>
                     ELSE IF Before(w)[1] \in DOMAIN Prints THEN Prints[Before(w)[1]]
                     ELSE <<ERR>>
    BY <1>1 DEF Printed, Before
  <1>9. w # <<>>
    BY <1>4
  <1> QED
    BY <1>3, <1>5, <1>6, <1>7, <1>8, <1>9

LEMMA PrintedSeq ==
  ASSUME NEW w \in Seq(Words), legal(w)
  PROVE  Printed(w) \in Seq(Chunks)
  <1>1. <<>> \in Seq(Chunks)
    OBVIOUS
  <1> QED
    BY <1>1, LegalWords, ErrPrinted, PrintsChunks

\* A command with one sign and one word after it is legal, if it may be opened.
LEMMA IsLegal ==
  ASSUME NEW w \in Seq(Words), OneSign(w), word(w, sign(w) + 2) = None,
         word(w, sign(w) + 1) # None
  PROVE  legal(w)
  <1>1. Cardinality(signs(w)) = 1
    BY FS_Singleton DEF OneSign
  <1> QED
    BY <1>1 DEF legal

LEMMA IsPrepended ==
  ASSUME NEW w \in Seq(Words), OneSign(w), w[sign(w)] # ">"
  PROVE  IsPrepend(w)
  <1>1. Cardinality(signs(w)) = 1 /\ signs(w) # {}
    BY FS_Singleton DEF OneSign
  <1>2. w[sign(w)] = ">+"
    BY SignWord
  <1> QED
    BY <1>1, <1>2 DEF IsPrepend, format_redirection

----------------------------------------------------------------------------
\* The invariant of the shell that is alone: what its files, its child and its
\* variables hold at each call.

Tmp == <<Home, "tmp.txt">>
New == <<Home, "newfile.txt">>
Renames(p) == sh[p].pc \in {"remove_tmp", "rename"}

\* The others have not started; it has changed no directory, and no command
\* names its scratch files.
Settled(p) ==
    /\ \A q \in Shells \ {p} : sh[q].pc = "unborn" /\ child[q].st = "done"
    /\ sh[p].cwd = Home
    /\ \A i \in DOMAIN sh[p].words : sh[p].words[i] \notin Scratch
    /\ child[p].st # "done" => sh[p].pc = "wait"

Asked(p) ==
    Merges(p) => /\ OneSign(sh[p].words) /\ IsPrepend(sh[p].words)
                 /\ word(sh[p].words, sign(sh[p].words) + 1) # None
                 /\ sh[p].exists = TRUE

\* Before the child opens a file.
Opening(p) ==
    LET W == sh[p].words IN
    /\ child[p].st \in {"redirect", "create", "create_tmp"} =>
          child[p].args = W /\ child[p].left = <<>>
    /\ child[p].st \in {"create", "create_tmp"} => word(W, sign(W) + 2) = None
    /\ child[p].st = "create_tmp" => sh[p].exists = TRUE
    /\ child[p].st = "create" => sh[p].exists = FALSE
    /\ child[p].st # "done" => child[p].signaled = FALSE

\* While it writes to the file: what is there and what is left is the output.
Writing(p) ==
    LET W == sh[p].words
        c == child[p]
    IN  c.out # Tty =>
          /\ legal(W)
          /\ c.out = dir[Tmp] \/ (RedirectedTo(W) \in Files /\ c.out = dir[RedirectedTo(W)])
          /\ c.st = "exec" => c.args = Before(W) /\ data[c.out] = <<>> /\ c.left = <<>>
          /\ c.st = "run" => data[c.out] \o c.left = Printed(W)

\* tmp.txt holds what the command has printed, until the merge has removed it.
TmpHeld(p) ==
    dir[Tmp] # None /\ sh[p].pc # "gone" =>
       /\ sh[p].pc \in {"wait", "open_tmp", "open_adv", "open_new", "copy", "close",
                        "remove_adv", "remove_tmp"}
       /\ sh[p].exists = TRUE /\ legal(sh[p].words)
       /\ data[dir[Tmp]] \in Promise!Prefixes(Printed(sh[p].words))

\* What the merge has read and written, in front of what the target holds.
Combined(p) ==
    /\ sh[p].pc \in {"open_adv", "open_new", "copy", "close"} => sh[p].tmp = dir[Tmp]
    /\ sh[p].pc = "close" =>
          \E t \in Promise!Prefixes(Printed(sh[p].words)) :
             /\ sh[p].buf = t \o data[sh[p].adv]
             /\ child[p].signaled = FALSE => t = Printed(sh[p].words)
    /\ sh[p].pc = "remove_adv" =>
          /\ legal(sh[p].words) /\ dir[New] # None /\ dir[target(p)] # None
          /\ \E t \in Promise!Prefixes(Printed(sh[p].words)) :
                /\ data[dir[New]] = t \o data[dir[target(p)]]
                /\ child[p].signaled = FALSE => t = Printed(sh[p].words)
    /\ Renames(p) => dir[New] # None

\* Unless the program was killed, tmp.txt holds all of its output in the end.
BeforeMerge == {"wait", "open_tmp", "open_adv", "open_new", "copy", "close"}
Whole(p) ==
    LET c == child[p] IN
    sh[p].exists = TRUE /\ legal(sh[p].words) /\ sh[p].pc \in BeforeMerge =>
       /\ c.st \in {"redirect", "create_tmp"} => dir[Tmp] = None
       /\ c.st \in {"exec", "run"} => c.out # Tty /\ c.out = dir[Tmp]
       /\ c.st = "done" /\ c.signaled = FALSE =>
             dir[Tmp] # None /\ data[dir[Tmp]] = Printed(sh[p].words)

\* The file that the command names is there: from the start, or since the child
\* has made it, or has seen that it cannot make it.
Present(p) ==
    LET c == child[p]
        W == sh[p].words
    IN  /\ legal(W) /\ RedirectedTo(W) \in Files /\ sh[p].pc \in BeforeMerge
        /\ \/ sh[p].exists = TRUE
           \/ c.st \in {"exec", "run"}
           \/ c.st = "done" /\ c.signaled = FALSE
        => dir[RedirectedTo(W)] # None

Solo(p) == /\ Settled(p) /\ Asked(p) /\ Opening(p) /\ Writing(p) /\ TmpHeld(p)
           /\ Combined(p) /\ Whole(p) /\ Present(p)

SoloInv == alone => \A p \in Shells : Actors = {p} => Solo(p)

Here(p) == alone /\ Actors = {p} /\ IInv /\ Solo(p)

\* The variables of Redirections, as the one shell has them.
Runs(p) == sh[p].pc \notin {"unborn", "idle", "gone"} /\ sh[p].words # <<>>
InFront(p) == Runs(p) /\ sh[p].exists = TRUE /\ legal(sh[p].words)
WasKilled(p) == Runs(p) /\ child[p].signaled = TRUE
View(p) ==
    /\ Running = IF sh[p].pc \in {"unborn", "idle", "gone"} THEN <<>> ELSE sh[p].words
    /\ Merged = Renames(p) /\ Onto = InFront(p) /\ Cut = WasKilled(p)
    /\ \A f \in Files : shown(f) = IF Renames(p) /\ f = target(p) THEN New ELSE f
    /\ Made = {f \in Files : dir[f] # None /\ child[p].out = dir[f]}
    /\ Contents = [f \in {g \in Files : dir[shown(g)] # None} |-> data[dir[shown(f)]]]

LEMMA Viewed ==
  ASSUME NEW p \in Shells, Here(p)
  PROVE  View(p)
  <1>1. /\ \A q \in Shells \ {p} : sh[q].pc = "unborn" /\ child[q].out = Tty
        /\ sh[p].cwd = Home /\ alone
    BY DEF Here, Solo, Settled, IInv, InTurn
  <1>2. Renames(p) => target(p) \in Files
    <2>1. Renames(p) => target(p) \in Names /\ target(p)[2] \notin Scratch
      BY MergeTurn DEF Renames, Here, Merging
    <2> QED
      BY <2>1 DEF Names, Files
  <1>3. Busy = IF sh[p].pc \in {"unborn", "idle", "gone"} THEN {} ELSE {p}
    BY <1>1 DEF Busy
  <1>4. Running = IF sh[p].pc \in {"unborn", "idle", "gone"} THEN <<>> ELSE sh[p].words
    BY <1>1, <1>3 DEF Running
  <1>5. \A f \in Files : Renaming(f) = IF Renames(p) /\ f = target(p) THEN {p} ELSE {}
    BY <1>1 DEF Renaming, Renames
  <1>10. sh[p].exists \in BOOLEAN /\ child[p].signaled \in BOOLEAN
    BY DEF Here, IInv, Typed, Parents, Children
  <1>11. Onto = InFront(p)
    <2>1. CASE Runs(p)
      <3>1. Running # <<>> /\ Busy = {p}
        BY <1>3, <1>4, <2>1 DEF Runs
      <3>2. Onto <=> sh[p].exists /\ legal(sh[p].words)
        BY <3>1, Zenon DEF Onto
      <3>3. InFront(p) <=> sh[p].exists = TRUE /\ legal(sh[p].words)
        BY <2>1 DEF InFront
      <3>4. sh[p].exists <=> sh[p].exists = TRUE
        BY <1>10
      <3>5. Onto \in BOOLEAN /\ InFront(p) \in BOOLEAN
        BY Zenon DEF Onto, InFront
      <3> QED
        BY <3>2, <3>3, <3>4, <3>5, Zenon
    <2>2. CASE ~Runs(p)
      <3>1. Running = <<>>
        BY <1>4, <2>2 DEF Runs
      <3>2. Onto = FALSE
        BY <3>1, Zenon DEF Onto
      <3>3. InFront(p) = FALSE
        BY <2>2, Zenon DEF InFront
      <3> QED
        BY <3>2, <3>3
    <2> QED
      BY <2>1, <2>2
  <1>12. Cut = WasKilled(p)
    <2>1. CASE Runs(p)
      <3>1. Running # <<>> /\ Busy = {p}
        BY <1>3, <1>4, <2>1 DEF Runs
      <3>2. Cut <=> child[p].signaled
        BY <3>1, Zenon DEF Cut
      <3>3. WasKilled(p) <=> child[p].signaled = TRUE
        BY <2>1 DEF WasKilled
      <3>4. child[p].signaled <=> child[p].signaled = TRUE
        BY <1>10
      <3>5. Cut \in BOOLEAN /\ WasKilled(p) \in BOOLEAN
        BY Zenon DEF Cut, WasKilled
      <3> QED
        BY <3>2, <3>3, <3>4, <3>5, Zenon
    <2>2. CASE ~Runs(p)
      <3>1. Running = <<>>
        BY <1>4, <2>2 DEF Runs
      <3>2. Cut = FALSE
        BY <3>1, Zenon DEF Cut
      <3>3. WasKilled(p) = FALSE
        BY <2>2, Zenon DEF WasKilled
      <3> QED
        BY <3>2, <3>3
    <2> QED
      BY <2>1, <2>2
  <1>6. Merged = Renames(p)
    <2>1. CASE Renames(p)
      <3>1. target(p) \in Files /\ Renaming(target(p)) # {}
        BY <1>2, <1>5, <2>1
      <3>2. alone /\ \E f \in Files : Renaming(f) # {}
        BY <1>1, <3>1
      <3> QED
        BY <2>1, <3>2, Zenon DEF Merged, Renames
    <2>2. CASE ~Renames(p)
      <3>1. ~(alone /\ \E f \in Files : Renaming(f) # {})
        BY <1>5, <2>2
      <3> QED
        <4>1. Merged = FALSE
          BY <3>1, Zenon DEF Merged
        <4>2. Renames(p) = FALSE
          BY <2>2 DEF Renames
        <4> QED
          BY <4>1, <4>2, Zenon
    <2> QED
      BY <2>1, <2>2
  <1>7. \A f \in Files : shown(f) = IF Renames(p) /\ f = target(p) THEN New ELSE f
    <2>1. newfile_txt(p) = New
      BY <1>1 DEF newfile_txt, path, New
    <2> QED
      BY <1>5, <2>1 DEF shown
  <1>8. Made = {f \in Files : dir[f] # None /\ child[p].out = dir[f]}
    <2>1. \A f \in Files : dir[f] \in Inodes \cup {None}
      BY DEF Here, IInv, Typed, Files, Names
    <2>2. Tty \notin Inodes
      BY ShellAssumption DEF ShellAssumption
    <2>3. \A f \in Files : dir[f] # None =>
             ((\E q \in Shells : child[q].out = dir[f]) <=> child[p].out = dir[f])
      BY <1>1, <2>1, <2>2
    <2> QED
      BY <1>1, <2>3 DEF Made
  <1>9. Contents = [f \in {g \in Files : dir[shown(g)] # None} |-> data[dir[shown(f)]]]
    BY <1>1 DEF Contents
  <1> QED
    BY <1>4, <1>6, <1>7, <1>8, <1>9, <1>11, <1>12 DEF View

LEMMA Views == \A p \in Shells : Here(p) => View(p)
  BY Viewed

LEMMA ViewsAfter == (\A p \in Shells : Here(p) => View(p))'
  BY Views, PTL

Unseen == UNCHANGED <<Contents, Running, Onto, Made, Merged, Cut>>

\* A step that a reader of the files does not see.
LEMMA NotSeen ==
  ASSUME NEW p \in Shells, View(p), View(p)', Running' = Running, Made' = Made,
         Renames(p)' = Renames(p), Renames(p) => target(p)' = target(p),
         InFront(p)' = InFront(p), WasKilled(p)' = WasKilled(p),
         \A f \in Files : /\ dir'[shown(f)] = dir[shown(f)]
                          /\ dir[shown(f)] # None =>
                                data'[dir[shown(f)]] = data[dir[shown(f)]]
  PROVE  Unseen
  <1>1. Merged' = Merged /\ Onto' = Onto /\ Cut' = Cut
    BY DEF View
  <1>2. \A f \in Files : shown(f)' = shown(f)
    BY DEF View
  <1> DEFINE D == {g \in Files : dir[shown(g)] # None}
             E == {g \in Files : dir'[shown(g)'] # None}
             c == [f \in D |-> data[dir[shown(f)]]]
             d == [f \in E |-> data'[dir'[shown(f)']]]
  <1>3. Contents = c /\ Contents' = d
    BY Zenon DEF View
  <1>4. E = D
    BY <1>2
  <1>5. \A f \in D : data'[dir'[shown(f)']] = data[dir[shown(f)]]
    BY <1>2
  <1>6. d = [f \in D |-> data'[dir'[shown(f)']]]
    BY <1>4, Zenon
  <1>7. c = d
    <2> HIDE DEF D
    <2> QED
      BY <1>5, <1>6
  <1> QED
    BY <1>1, <1>3, <1>7 DEF Unseen

Maps == Unseen \/ Promise!Next

LEMMA StaysHere ==
  ASSUME NEW p \in Shells, Here(p), UNCHANGED scene, IInv', Solo(p)'
  PROVE  View(p) /\ View(p)'
  <1>1. Here(p)'
    BY DEF Here, alone, Together, CanCrash, CanFail, Actors, Commands
  <1> QED
    BY <1>1, Views, ViewsAfter

\* While the shell waits every file is shown under its own name.
LEMMA Waiting ==
  ASSUME NEW p \in Shells, View(p), View(p)', sh[p].pc = "wait", UNCHANGED sh
  PROVE  /\ Running = sh[p].words /\ Running' = Running
         /\ Merged = FALSE /\ Merged' = FALSE
         /\ Contents = [f \in {g \in Files : dir[g] # None} |-> data[dir[f]]]
         /\ Contents' = [f \in {g \in Files : dir'[g] # None} |-> data'[dir'[f]]]
         /\ Made = {f \in Files : dir[f] # None /\ child[p].out = dir[f]}
         /\ Made' = {f \in Files : dir'[f] # None /\ child'[p].out = dir'[f]}
         /\ Onto = InFront(p) /\ Onto' = Onto
         /\ Cut = WasKilled(p) /\ Cut' = WasKilled(p)'
  <1>6. InFront(p)' = InFront(p)
    BY DEF InFront, Runs
  <1>1. Renames(p) = FALSE /\ Renames(p)' = FALSE
    BY DEF Renames
  <1>2. \A f \in Files : shown(f) = f /\ shown(f)' = f
    BY <1>1 DEF View
  <1>3. Contents = [f \in {g \in Files : dir[g] # None} |-> data[dir[f]]]
    <2> DEFINE D == {g \in Files : dir[shown(g)] # None}
    <2>1. D = {g \in Files : dir[g] # None}
      BY <1>2
    <2>2. Contents = [f \in D |-> data[dir[shown(f)]]]
      BY Zenon DEF View
    <2>3. \A f \in D : data[dir[shown(f)]] = data[dir[f]]
      BY <1>2
    <2> HIDE DEF D
    <2>4. Contents = [f \in D |-> data[dir[f]]]
      BY <2>2, <2>3
    <2> QED
      BY <2>1, <2>4, Zenon
  <1>4. Contents' = [f \in {g \in Files : dir'[g] # None} |-> data'[dir'[f]]]
    <2> DEFINE D == {g \in Files : dir'[shown(g)'] # None}
    <2>1. D = {g \in Files : dir'[g] # None}
      BY <1>2
    <2>2. Contents' = [f \in D |-> data'[dir'[shown(f)']]]
      BY Zenon DEF View
    <2>3. \A f \in D : data'[dir'[shown(f)']] = data'[dir'[f]]
      BY <1>2
    <2> HIDE DEF D
    <2>4. Contents' = [f \in D |-> data'[dir'[f]]]
      BY <2>2, <2>3
    <2> QED
      BY <2>1, <2>4, Zenon
  <1>5. Running = sh[p].words /\ Running' = Running
    BY DEF View
  <1> QED
    BY <1>1, <1>3, <1>4, <1>5, <1>6 DEF View

\* The child goes on or ends, and no file changes.
LEMMA ChildAside ==
  ASSUME NEW p \in Shells, Here(p), sh[p].pc = "wait", IInv', UNCHANGED <<scene, dir, data, sh>>,
         NEW r \in Children, child' = [child EXCEPT ![p] = r],
         Opening(p)', Writing(p)', Whole(p)', Present(p)'
  PROVE  /\ Solo(p)' /\ child'[p] = r
         /\ Running = sh[p].words /\ Running' = Running
         /\ Merged = FALSE /\ Merged' = Merged /\ Contents' = Contents
         /\ Contents = [f \in {g \in Files : dir[g] # None} |-> data[dir[f]]]
         /\ Made = {f \in Files : dir[f] # None /\ child[p].out = dir[f]}
         /\ Made' = {f \in Files : dir[f] # None /\ r.out = dir[f]}
         /\ Onto' = Onto /\ Cut = WasKilled(p) /\ Cut' = WasKilled(p)'
         /\ \A f \in Files : dir[f] \in Inodes \cup {None}
  <1>1. child'[p] = r /\ \A q \in Shells \ {p} : child'[q] = child[q]
    BY DEF Here, IInv, Typed
  <1>2. Solo(p)'
    <2>1. Settled(p)'
      BY <1>1 DEF Here, Solo, Settled
    <2>2. Asked(p)' /\ TmpHeld(p)' /\ Combined(p)'
      BY DEF Here, Solo, Asked, TmpHeld, Combined, Merges, Renames, target, path
    <2> QED
      BY <2>1, <2>2 DEF Solo
  <1>3. View(p) /\ View(p)'
    BY <1>2, StaysHere
  <1>4. /\ Running = sh[p].words /\ Running' = Running
        /\ Merged = FALSE /\ Merged' = Merged /\ Contents' = Contents
        /\ Contents = [f \in {g \in Files : dir[g] # None} |-> data[dir[f]]]
        /\ Made = {f \in Files : dir[f] # None /\ child[p].out = dir[f]}
        /\ Made' = {f \in Files : dir[f] # None /\ child'[p].out = dir[f]}
        /\ Onto' = Onto /\ Cut = WasKilled(p) /\ Cut' = WasKilled(p)'
    BY <1>3, Waiting, Zenon
  <1>5. \A f \in Files : dir[f] \in Inodes \cup {None}
    BY DEF Here, IInv, Typed, Files, Names
  <1> QED
    BY <1>1, <1>2, <1>4, <1>5

LEMMA ChildOnly ==
  ASSUME NEW p \in Shells, Here(p), sh[p].pc = "wait", IInv', UNCHANGED <<scene, dir, data, sh>>,
         NEW r \in Children, child' = [child EXCEPT ![p] = r], r.out = child[p].out,
         r.signaled = child[p].signaled,
         Opening(p)', Writing(p)', Whole(p)', Present(p)'
  PROVE  Solo(p)' /\ Maps
  <1>1. /\ Solo(p)' /\ child'[p] = r
        /\ Running' = Running /\ Merged' = Merged /\ Contents' = Contents
        /\ Made = {f \in Files : dir[f] # None /\ child[p].out = dir[f]}
        /\ Made' = {f \in Files : dir[f] # None /\ r.out = dir[f]}
        /\ Onto' = Onto /\ Cut = WasKilled(p) /\ Cut' = WasKilled(p)'
    BY ChildAside, Zenon
  <1>2. WasKilled(p)' = WasKilled(p)
    BY <1>1 DEF WasKilled, Runs
  <1>3. Made' = Made
    BY <1>1
  <1> QED
    BY <1>1, <1>2, <1>3 DEF Maps, Unseen

LEMMA EmptyPrefix ==
  ASSUME NEW s \in Seq(Chunks)
  PROVE  <<>> \in Promise!Prefixes(s)
  <1>1. <<>> \in Seq(Chunks) /\ <<>> \o s = s
    OBVIOUS
  <1> QED
    BY <1>1, PrefixOfJoined

\* A child is stopped or continued.
LEMMA SignalSeen ==
  ASSUME NEW p \in Shells, Here(p), NEW q \in Shells, NEW b \in BOOLEAN, IInv',
         child' = [child EXCEPT ![q].stopped = b], UNCHANGED <<scene, dir, data, sh>>
  PROVE  Solo(p)' /\ Maps
  <1>1. \A x \in Shells : /\ child'[x].st = child[x].st /\ child'[x].args = child[x].args
                          /\ child'[x].out = child[x].out /\ child'[x].left = child[x].left
                          /\ child'[x].signaled = child[x].signaled
    BY DEF Here, IInv, Typed, Children
  <1>2. Settled(p)' /\ Asked(p)' /\ TmpHeld(p)' /\ Combined(p)'
    <2>1. Settled(p)' /\ Asked(p)'
      BY <1>1 DEF Here, Solo, Settled, Asked, Merges
    <2>2. TmpHeld(p)'
      BY DEF Here, Solo, TmpHeld
    <2>3. Combined(p)'
      BY <1>1 DEF Here, Solo, Combined, Renames, target, path
    <2> QED
      BY <2>1, <2>2, <2>3
  <1>3. Opening(p)' /\ Writing(p)' /\ Whole(p)' /\ Present(p)'
    <2>1. Opening(p)' /\ Writing(p)'
      BY <1>1 DEF Here, Solo, Opening, Writing
    <2>2. Whole(p)' /\ Present(p)'
      BY <1>1 DEF Here, Solo, Whole, Present
    <2> QED
      BY <2>1, <2>2
  <1>4. View(p) /\ View(p)' /\ Solo(p)'
    BY <1>2, <1>3, StaysHere DEF Solo
  <1>5. Running' = Running /\ Made' = Made /\ Renames(p)' = Renames(p) /\ target(p)' = target(p)
    BY <1>1, <1>4 DEF View, Renames, target, path
  <1>7. InFront(p)' = InFront(p) /\ WasKilled(p)' = WasKilled(p)
    BY <1>1 DEF InFront, WasKilled, Runs
  <1>6. Unseen
    BY <1>4, <1>5, <1>7, NotSeen
  <1> QED
    BY <1>4, <1>6 DEF Maps

\* What the words of a command that is redirected say.
LEMMA WaitingChild ==
  ASSUME NEW p \in Shells, Here(p), child[p].st # "done"
  PROVE  /\ sh[p].pc = "wait" /\ sh[p].cwd = Home /\ sh[p].words \in Seq(Words)
         /\ child[p] \in Children /\ sh[p] \in Parents
         /\ \A q \in Shells \ {p} : sh[q].pc = "unborn" /\ child[q].st = "done"
  BY DEF Here, Solo, Settled, IInv, Typed, Parents

LEMMA OpensWhat ==
  ASSUME NEW p \in Shells, Here(p), child[p].st \in {"create", "create_tmp"},
         NEW n \in Names,
         \/ child[p].st = "create" /\ n = path(p, word(child[p].args, sign(child[p].args) + 1))
         \/ child[p].st = "create_tmp" /\ n = tmp_txt(p)
  PROVE  /\ child[p].args = sh[p].words /\ child[p].left = <<>> /\ child[p].out = Tty
         /\ legal(sh[p].words)
         /\ \/ n = Tmp /\ sh[p].exists = TRUE
            \/ n \in Files /\ n = RedirectedTo(sh[p].words) /\ sh[p].exists = FALSE
  <1> DEFINE W == sh[p].words
  <1>1. /\ child[p].args = W /\ child[p].left = <<>> /\ child[p].out = Tty
        /\ W \in Seq(Words) /\ OneSign(W) /\ word(W, sign(W) + 2) = None
        /\ sh[p].cwd = Home /\ sh[p].pc = "wait"
    BY WaitingChild DEF Here, Solo, Opening, IInv, InTurn
  <1>2. CASE child[p].st = "create_tmp"
    <2>1. sh[p].exists = TRUE /\ word(W, sign(W) + 1) # None
      BY <1>1, <1>2 DEF Here, Solo, Opening, Asked, Merges
    <2>2. n = Tmp
      BY <1>1, <1>2 DEF tmp_txt, path, Tmp
    <2> QED
      BY <1>1, <2>1, <2>2, IsLegal
  <1>3. CASE child[p].st = "create"
    <2>1. n = <<Home, word(W, sign(W) + 1)>>
      BY <1>1, <1>3 DEF path
    <2>2. word(W, sign(W) + 1) \in Base \cup Scratch
      BY <2>1 DEF Names
    <2>3. legal(W)
      BY <1>1, <2>2, IsLegal, ShellAssumption DEF ShellAssumption
    <2>4. sign(W) + 1 \in DOMAIN W /\ RedirectedTo(W) = <<Home, W[sign(W) + 1]>>
      BY <1>1, <2>3, LegalWords
    <2>5. W[sign(W) + 1] \notin Scratch
      BY <2>4 DEF Here, Solo, Settled
    <2>6. n = RedirectedTo(W) /\ W[sign(W) + 1] \in Base
      BY <2>1, <2>2, <2>4, <2>5 DEF word
    <2>7. n \in Files
      BY <2>4, <2>6, ShellAssumption DEF Files, ShellAssumption
    <2>8. sh[p].exists = FALSE
      BY <1>3 DEF Here, Solo, Opening
    <2> QED
      BY <1>1, <2>3, <2>6, <2>7, <2>8
  <1> QED
    BY <1>2, <1>3

LEMMA Opens ==
  ASSUME NEW p \in Shells, Here(p), child[p].st \in {"create", "create_tmp"},
         NEW n, NEW i \in Inodes, Create(n, i), redirected(p, i), UNCHANGED <<scene, sh>>, IInv',
         \/ child[p].st = "create" /\ n = path(p, word(child[p].args, sign(child[p].args) + 1))
         \/ child[p].st = "create_tmp" /\ n = tmp_txt(p)
  PROVE  Solo(p)' /\ Maps
  <1> DEFINE W == sh[p].words
  <1>1. /\ i \in Free /\ n \in Names /\ dir[n] = None /\ i # None /\ i # Tty
        /\ dir'[n] = i /\ \A m \in Names : m # n => dir'[m] = dir[m]
        /\ data'[i] = <<>> /\ \A j \in Inodes : j # i => data'[j] = data[j]
        /\ \A m \in Names : dir[m] # i
    <2>1. /\ i \in Free /\ n \in Names /\ dir[n] = None
          /\ dir' = [dir EXCEPT ![n] = i] /\ data' = [data EXCEPT ![i] = <<>>]
      BY Created DEF Here
    <2> QED
      BY <2>1, ShellAssumption DEF Here, IInv, Typed, Free, ShellAssumption
  <1>2. /\ child[p].args = W /\ child[p].left = <<>> /\ child[p].out = Tty
        /\ legal(W)
        /\ \/ n = Tmp /\ sh[p].exists = TRUE
           \/ n \in Files /\ n = RedirectedTo(W) /\ sh[p].exists = FALSE
    BY <1>1, OpensWhat
  <1>3. /\ sh[p].pc = "wait" /\ W \in Seq(Words) /\ child[p] \in Children
        /\ \A q \in Shells \ {p} : child'[q] = child[q] /\ sh[q].pc = "unborn" /\ child[q].st = "done"
        /\ child \in [Shells -> Children]
    BY WaitingChild DEF redirected, Here, IInv, Typed
  <1>4. /\ child'[p].st = "exec" /\ child'[p].out = i /\ child'[p].args = Before(W)
        /\ child'[p].left = <<>> /\ child[p].signaled = FALSE /\ child'[p].signaled = FALSE
    <2> DEFINE c == child[p]
               a == SubSeq(c.args, 1, sign(c.args) - 1)
               r1 == [c EXCEPT !.st = "exec", !.out = i]
               r == [r1 EXCEPT !.args = a]
    <2>1. child' = [child EXCEPT ![p] = r]
      BY DEF redirected
    <2>5. c.signaled = FALSE
      BY DEF Here, Solo, Opening
    <2>2. /\ r1 \in Children /\ r1.st = "exec" /\ r1.out = i /\ r1.left = <<>>
          /\ r1.signaled = FALSE
      BY <1>2, <1>3, <2>5 DEF Children
    <2>3. a = Before(W)
      BY <1>2 DEF Before
    <2>4. r.st = "exec" /\ r.out = i /\ r.left = <<>> /\ r.args = a /\ r.signaled = FALSE
      <3> HIDE DEF r1, a
      <3> QED
        BY <2>2 DEF Children
    <2> HIDE DEF r
    <2> QED
      BY <1>3, <2>1, <2>3, <2>4, <2>5
  <1>5. Tmp \in Names /\ Tmp \notin Files
    BY ShellAssumption DEF ShellAssumption, Tmp, Names, Files, Scratch
  <1>6. Settled(p)' /\ Asked(p)' /\ Combined(p)' /\ Opening(p)'
    BY <1>3, <1>4 DEF Here, Solo, Settled, Asked, Combined, Opening, Merges, Renames
  <1>7. Writing(p)'
    BY <1>1, <1>2, <1>4 DEF Writing
  <1>15. Whole(p)'
    BY <1>1, <1>2, <1>4 DEF Whole
  <1>16. Present(p)'
    <2>1. Files \subseteq Names
      BY DEF Files, Names
    <2>2. ASSUME RedirectedTo(W) \in Files PROVE dir'[RedirectedTo(W)] # None
      <3>1. CASE n = RedirectedTo(W)
        BY <1>1, <3>1
      <3>2. CASE n = Tmp /\ sh[p].exists = TRUE
        <4>1. dir[RedirectedTo(W)] # None
          BY <1>2, <1>3, <2>2, <3>2 DEF Here, Solo, Present, BeforeMerge
        <4> QED
          BY <1>1, <1>5, <2>1, <2>2, <3>2, <4>1
      <3> QED
        BY <1>2, <3>1, <3>2
    <2> QED
      BY <1>1, <1>4, <2>2 DEF Present
  <1>8. TmpHeld(p)'
    <2>1. CASE n = Tmp /\ sh[p].exists = TRUE
      <3>1. data'[dir'[Tmp]] \in Promise!Prefixes(Printed(W))
        BY <1>1, <1>2, <1>3, <2>1, PrintedSeq, EmptyPrefix
      <3> QED
        BY <1>2, <1>3, <2>1, <3>1 DEF TmpHeld
    <2>2. CASE n \in Files
      <3>1. dir'[Tmp] = dir[Tmp] /\ dir[Tmp] # i /\ dir[Tmp] \in Inodes \cup {None}
        BY <1>1, <1>5, <2>2 DEF Here, IInv, Typed
      <3>2. dir[Tmp] # None => data'[dir'[Tmp]] = data[dir[Tmp]]
        BY <1>1, <3>1
      <3> QED
        BY <3>1, <3>2 DEF TmpHeld, Here, Solo
    <2> QED
      BY <1>2, <2>1, <2>2
  <1>9. Solo(p)' /\ View(p) /\ View(p)'
    BY <1>6, <1>7, <1>8, <1>15, <1>16, StaysHere DEF Solo
  <1>10. /\ Onto = InFront(p) /\ Onto' = Onto /\ Cut = WasKilled(p) /\ Cut' = WasKilled(p)'
         /\ Running = W /\ Running' = Running /\ Merged' = Merged
         /\ Contents = [f \in {g \in Files : dir[g] # None} |-> data[dir[f]]]
         /\ Contents' = [f \in {g \in Files : dir'[g] # None} |-> data'[dir'[f]]]
         /\ Made = {f \in Files : dir[f] # None /\ child[p].out = dir[f]}
         /\ Made' = {f \in Files : dir'[f] # None /\ child'[p].out = dir'[f]}
    BY <1>3, <1>9, Waiting, Zenon
  <1>11. \A f \in Files : f \in Names /\ dir[f] \in Inodes \cup {None}
    BY DEF Here, IInv, Typed, Files, Names
  <1>12. Made = {}
    BY <1>2, <1>10, <1>11, ShellAssumption DEF ShellAssumption
  <1>17. Cut = FALSE /\ Cut' = FALSE
    BY <1>4, <1>10 DEF WasKilled
  <1>13. CASE n = Tmp
    <2>1. \A f \in Files : dir'[f] = dir[f] /\ (dir[f] # None => data'[dir[f]] = data[dir[f]])
      BY <1>1, <1>5, <1>11, <1>13
    <2>2. Made' = {}
      BY <1>1, <1>4, <1>10, <1>11, <2>1
    <2>3. Contents' = Contents
      <3>1. {g \in Files : dir'[g] # None} = {g \in Files : dir[g] # None}
        BY <2>1
      <3> QED
        BY <1>10, <2>1, <3>1
    <2> QED
      BY <1>9, <1>10, <1>12, <1>17, <2>2, <2>3 DEF Maps, Unseen
  <1>14. CASE n \in Files /\ n = RedirectedTo(W) /\ sh[p].exists = FALSE
    <2>1. Made' = {n}
      BY <1>1, <1>4, <1>10, <1>11, <1>14
    <2>2. n \notin DOMAIN Contents
      BY <1>1, <1>10
    <2>3. Contents' = [g \in DOMAIN Contents \cup {n} |->
                         IF g = n THEN <<>> ELSE Contents[g]]
      <3> DEFINE D == {g \in Files : dir[g] # None}
                 E == {g \in Files : dir'[g] # None}
      <3>1. E = D \cup {n}
        BY <1>1, <1>11, <1>14
      <3>2. DOMAIN Contents = D /\ \A g \in D : Contents[g] = data[dir[g]]
        BY <1>10
      <3>3. Contents' = [g \in E |-> data'[dir'[g]]]
        BY <1>10
      <3>4. \A g \in E : data'[dir'[g]] = IF g = n THEN <<>> ELSE Contents[g]
        BY <1>1, <1>11, <3>1, <3>2
      <3> HIDE DEF D, E
      <3>5. Contents' = [g \in E |-> IF g = n THEN <<>> ELSE Contents[g]]
        BY <3>3, <3>4
      <3> QED
        BY <3>1, <3>2, <3>5, Zenon
    <2>4. W # <<>>
      BY <1>2, <1>3, LegalWords
    <2>6. Onto = FALSE
      BY <1>10, <1>14 DEF InFront
    <2>5. Promise!Make(n)
      BY <1>10, <1>12, <1>14, <1>17, <2>1, <2>2, <2>3, <2>4, <2>6
         DEF Promise!Make, Promise!Idle
    <2> QED
      BY <1>9, <1>14, <2>5 DEF Maps, Promise!Next
  <1> QED
    BY <1>2, <1>13, <1>14

\* The child writes the next byte to its file.
LEMMA Fills ==
  ASSUME NEW p \in Shells, Here(p), child[p].st # "done", child[p].out # Tty,
         UNCHANGED <<scene, dir, sh>>, IInv',
         NEW b \in Seq(Chunks), data' = [data EXCEPT ![child[p].out] = b],
         Len(b) = Len(data[child[p].out]) + 1,
         NEW r \in Children, child' = [child EXCEPT ![p] = r],
         r.out = child[p].out, r.st = "run", r.signaled = FALSE,
         b \o r.left = Printed(sh[p].words)
  PROVE  Solo(p)' /\ Maps
  <1> DEFINE W == sh[p].words
             i == child[p].out
  <1>1. /\ sh[p].pc = "wait" /\ W \in Seq(Words)
        /\ child'[p] = r /\ \A q \in Shells \ {p} : child'[q] = child[q]
        /\ legal(W)
        /\ i = dir[Tmp] \/ (RedirectedTo(W) \in Files /\ i = dir[RedirectedTo(W)])
    BY WaitingChild DEF Here, Solo, Writing, IInv, Typed
  <1>2. /\ i \in Inodes /\ i # None
        /\ data'[i] = b /\ \A j \in Inodes : j # i => data'[j] = data[j]
    BY ShellAssumption DEF Here, IInv, Typed, Children, ShellAssumption
  <1>3. b \in Promise!Prefixes(Printed(W))
    <2>1. r.left \in Seq(Chunks)
      BY DEF Children
    <2> QED
      BY <2>1, PrefixOfJoined
  <1>4. Settled(p)' /\ Asked(p)' /\ Combined(p)' /\ Opening(p)'
    BY <1>1 DEF Here, Solo, Settled, Asked, Combined, Opening, Merges, Renames
  <1>13. child[p].st \in {"exec", "run"} /\ child[p].signaled = FALSE
    BY DEF Here, IInv, InTurn, Solo, Opening
  <1>14. Whole(p)' /\ Present(p)'
    BY <1>1, <1>13 DEF Here, Solo, Whole, Present
  <1>5. Writing(p)'
    BY <1>1, <1>2 DEF Writing
  <1>6. TmpHeld(p)'
    <2>1. dir[Tmp] \in Inodes \cup {None}
      BY ShellAssumption DEF Here, IInv, Typed, Tmp, Names, Scratch, ShellAssumption
    <2>2. dir[Tmp] # None => \/ data'[dir[Tmp]] = data[dir[Tmp]]
                             \/ data'[dir[Tmp]] \in Promise!Prefixes(Printed(W))
      BY <1>2, <1>3, <2>1
    <2> QED
      BY <2>2 DEF TmpHeld, Here, Solo
  <1>7. Solo(p)' /\ View(p) /\ View(p)'
    BY <1>4, <1>5, <1>6, <1>14, StaysHere DEF Solo
  <1>15. Onto' = Onto /\ Cut' = Cut
    <2>1. Onto' = Onto /\ Cut = WasKilled(p) /\ Cut' = WasKilled(p)'
      BY <1>1, <1>7, Waiting, Zenon
    <2>2. WasKilled(p) = FALSE /\ WasKilled(p)' = FALSE
      BY <1>1, <1>13 DEF WasKilled
    <2> QED
      BY <2>1, <2>2
  <1>8. /\ Running = W /\ Running' = Running /\ Merged' = Merged
        /\ Contents = [f \in {g \in Files : dir[g] # None} |-> data[dir[f]]]
        /\ Contents' = [f \in {g \in Files : dir[g] # None} |-> data'[dir[f]]]
        /\ Made = {f \in Files : dir[f] # None /\ i = dir[f]}
        /\ Made' = {f \in Files : dir[f] # None /\ child'[p].out = dir[f]}
    <2>1. /\ Running = W /\ Running' = Running /\ Merged' = Merged
          /\ Contents = [f \in {g \in Files : dir[g] # None} |-> data[dir[f]]]
          /\ Contents' = [f \in {g \in Files : dir'[g] # None} |-> data'[dir'[f]]]
          /\ Made = {f \in Files : dir[f] # None /\ i = dir[f]}
          /\ Made' = {f \in Files : dir'[f] # None /\ child'[p].out = dir'[f]}
      BY <1>1, <1>7, Waiting, Zenon
    <2> QED
      BY <2>1
  <1>9. Made' = Made
    BY <1>1, <1>8
  <1>10. \A f \in Files : f \in Names /\ dir[f] \in Inodes \cup {None}
    BY DEF Here, IInv, Typed, Files, Names
  <1>11. CASE \A f \in Files : dir[f] # i
    <2>1. Contents' = Contents
      <3> DEFINE D == {g \in Files : dir[g] # None}
      <3>1. \A f \in D : data'[dir[f]] = data[dir[f]]
        BY <1>2, <1>10, <1>11
      <3>2. Contents = [f \in D |-> data[dir[f]]] /\ Contents' = [f \in D |-> data'[dir[f]]]
        BY <1>8, Zenon
      <3> HIDE DEF D
      <3> QED
        BY <3>1, <3>2
    <2> QED
      BY <1>7, <1>8, <1>9, <1>15, <2>1 DEF Maps, Unseen
  <1>12. ASSUME NEW f \in Files, dir[f] = i PROVE Solo(p)' /\ Maps
    <2>1. f \in Made
      BY <1>2, <1>8, <1>12
    <2>2. \A g \in Files : g # f /\ dir[g] # None => dir[g] # i
      BY <1>2, <1>10, <1>12 DEF Here, IInv, OneName
    <2>3. Contents' = [Contents EXCEPT ![f] = b] /\ Contents[f] = data[i]
      <3> DEFINE D == {g \in Files : dir[g] # None}
      <3>1. \A g \in D : data'[dir[g]] = IF g = f THEN b ELSE data[dir[g]]
        BY <1>2, <1>10, <1>12, <2>2
      <3>2. Contents = [g \in D |-> data[dir[g]]] /\ Contents' = [g \in D |-> data'[dir[g]]]
        BY <1>8, Zenon
      <3>3. f \in D
        BY <1>2, <1>12
      <3> HIDE DEF D
      <3> QED
        BY <1>12, <3>1, <3>2, <3>3
    <2>4. Promise!Fill(f)
      <3>1. Len(b) = Len(Contents[f]) + 1 /\ b \in Promise!Prefixes(Printed(Running))
        BY <1>3, <1>8, <2>3
      <3> QED
        BY <1>8, <1>9, <1>15, <2>1, <2>3, <3>1 DEF Promise!Fill
    <2> QED
      BY <1>7, <2>4 DEF Maps, Promise!Next
  <1> QED
    BY <1>11, <1>12

\* A program that has printed everything ends: its file is filled, or tmp.txt
\* holds all its output.
LEMMA EndsSeen ==
  ASSUME NEW p \in Shells, Here(p), child[p].st = "run", child[p].left = <<>>, IInv',
         child' = [child EXCEPT ![p] = NoChild], UNCHANGED <<scene, dir, data, sh>>
  PROVE  Solo(p)' /\ Maps
  <1> DEFINE W == sh[p].words
  <1>1. /\ NoChild \in Children /\ NoChild.st = "done" /\ NoChild.out = Tty
        /\ NoChild.signaled = FALSE /\ child[p].signaled = FALSE
    BY Ended DEF Here, Solo, Opening
  <1>2. child'[p] = NoChild
    BY DEF Here, IInv, Typed
  <1>3. Opening(p)' /\ Writing(p)'
    BY <1>1, <1>2 DEF Opening, Writing
  <1>4. /\ sh[p].pc = "wait" /\ child[p].out \in Inodes \cup {Tty}
        /\ data \in [Inodes -> Seq(Chunks)]
    BY WaitingChild DEF Children, Here, IInv, Typed
  <1>5. ASSUME child[p].out # Tty
        PROVE  data[child[p].out] = Printed(W) /\ child[p].out # None
    <2>1. data[child[p].out] \o <<>> = Printed(W)
      BY <1>5 DEF Here, Solo, Writing
    <2>2. data[child[p].out] \in Seq(Chunks) /\ child[p].out # None
      BY <1>4, <1>5, ShellAssumption DEF ShellAssumption
    <2>3. \A t \in Seq(Chunks) : t \o <<>> = t
      OBVIOUS
    <2> QED
      BY <2>1, <2>2, <2>3
  <1>6. Whole(p)'
    <2>1. ASSUME sh[p].exists = TRUE, legal(W), sh[p].pc \in BeforeMerge
          PROVE  dir[Tmp] # None /\ data[dir[Tmp]] = Printed(W)
      <3>1. child[p].out # Tty /\ child[p].out = dir[Tmp]
        BY <2>1 DEF Here, Solo, Whole
      <3> QED
        BY <1>5, <3>1
    <2> QED
      BY <1>1, <1>2, <2>1 DEF Whole
  <1>7. Present(p)'
    BY <1>1, <1>2 DEF Here, Solo, Present
  <1> HIDE DEF NoChild
  <1>8. /\ Solo(p)' /\ Running = W /\ Running' = Running
        /\ Merged' = Merged /\ Contents' = Contents /\ Onto' = Onto
        /\ Contents = [f \in {g \in Files : dir[g] # None} |-> data[dir[f]]]
        /\ Made = {f \in Files : dir[f] # None /\ child[p].out = dir[f]}
        /\ Made' = {f \in Files : dir[f] # None /\ NoChild.out = dir[f]}
        /\ Cut = WasKilled(p) /\ Cut' = WasKilled(p)'
        /\ \A f \in Files : dir[f] \in Inodes \cup {None}
    BY <1>1, <1>3, <1>4, <1>6, <1>7, ChildAside
  <1>9. Cut' = Cut
    BY <1>1, <1>2, <1>8 DEF WasKilled
  <1>10. Made' = {}
    BY <1>1, <1>8, ShellAssumption DEF ShellAssumption
  <1>11. CASE Made = {}
    BY <1>8, <1>9, <1>10, <1>11 DEF Maps, Unseen
  <1>12. CASE Made # {}
    <2>1. \A f \in Made : Contents[f] = Printed(Running)
      <3> SUFFICES ASSUME NEW f \in Made PROVE Contents[f] = Printed(W)
        BY <1>8
      <3>1. f \in Files /\ dir[f] # None /\ child[p].out = dir[f]
        BY <1>8
      <3>2. child[p].out # Tty
        BY <1>8, <3>1, ShellAssumption DEF ShellAssumption
      <3> QED
        BY <1>5, <1>8, <3>1, <3>2
    <2>2. Promise!Filled
      BY <1>8, <1>9, <1>10, <1>12, <2>1 DEF Promise!Filled
    <2> QED
      BY <1>8, <2>2 DEF Maps, Promise!Next
  <1> QED
    BY <1>11, <1>12

\* The child is killed, from outside or by a missing program name.
LEMMA KilledSeen ==
  ASSUME NEW p \in Shells, Here(p), child[p].st # "done", IInv',
         child' = [child EXCEPT ![p] = Killed], UNCHANGED <<scene, dir, data, sh>>
  PROVE  Solo(p)' /\ Maps
  <1> DEFINE W == sh[p].words
  <1>1. /\ Killed \in Children /\ Killed.st = "done" /\ Killed.out = Tty
        /\ Killed.signaled = TRUE /\ child[p].signaled = FALSE
    BY Ended DEF Here, Solo, Opening
  <1>2. child'[p] = Killed /\ sh[p].pc = "wait" /\ W \in Seq(Words)
    BY WaitingChild DEF Here, IInv, Typed
  <1>3. Opening(p)' /\ Writing(p)'
    BY <1>1, <1>2 DEF Opening, Writing
  <1>4. Whole(p)' /\ Present(p)'
    BY <1>1, <1>2 DEF Here, Solo, Whole, Present
  <1> HIDE DEF Killed
  <1>5. /\ Solo(p)' /\ Running = W /\ Running' = Running
        /\ Merged = FALSE /\ Merged' = Merged /\ Contents' = Contents /\ Onto' = Onto
        /\ Made = {f \in Files : dir[f] # None /\ child[p].out = dir[f]}
        /\ Made' = {f \in Files : dir[f] # None /\ Killed.out = dir[f]}
        /\ Cut = WasKilled(p) /\ Cut' = WasKilled(p)'
        /\ \A f \in Files : dir[f] \in Inodes \cup {None}
    BY <1>1, <1>2, <1>3, <1>4, ChildAside
  <1>6. Made' = {}
    BY <1>1, <1>5, ShellAssumption DEF ShellAssumption
  <1>7. CASE W = <<>>
    <2>1. Cut = FALSE /\ Cut' = FALSE
      BY <1>5, <1>7 DEF WasKilled, Runs
    <2>2. ~legal(W)
      BY <1>2, <1>7, LegalWords
    <2>3. child[p].out = Tty
      BY <2>2 DEF Here, Solo, Writing
    <2>4. Made = {}
      BY <1>5, <2>3, ShellAssumption DEF ShellAssumption
    <2> QED
      BY <1>5, <1>6, <2>1, <2>4 DEF Maps, Unseen
  <1>8. CASE W # <<>>
    <2>1. Cut = FALSE /\ Cut' = TRUE
      BY <1>1, <1>2, <1>5, <1>8 DEF WasKilled, Runs
    <2>2. Promise!Killed
      BY <1>5, <1>6, <1>8, <2>1 DEF Promise!Killed, Promise!Idle
    <2> QED
      BY <1>5, <2>2 DEF Maps, Promise!Next
  <1> QED
    BY <1>7, <1>8

\* The child goes on to its next call, on the terminal or before it has a file.
LEMMA GoesSeen ==
  ASSUME NEW p \in Shells, Here(p), child[p].st # "done", child[p].out = Tty, IInv',
         UNCHANGED <<scene, dir, data, sh>>,
         NEW to \in {"create", "create_tmp", "exec", "run", "done"}, goes(p, to),
         to \in {"create", "create_tmp"} =>
            /\ child[p].st = "redirect"
            /\ word(sh[p].words, sign(sh[p].words) + 2) = None,
         to = "create_tmp" => sh[p].exists = TRUE,
         to \in {"create", "done"} => sh[p].exists = FALSE,
         to = "exec" => ~legal(sh[p].words),
         to = "run" => child[p].st = "exec",
         to = "done" /\ legal(sh[p].words) /\ RedirectedTo(sh[p].words) \in Files =>
            dir[RedirectedTo(sh[p].words)] # None
  PROVE  Solo(p)' /\ Maps
  <1> DEFINE r == [child[p] EXCEPT !.st = to]
  <1>1. /\ r \in Children /\ r.st = to /\ r.out = Tty /\ r.args = child[p].args
        /\ r.left = child[p].left /\ r.signaled = child[p].signaled
    BY WaitingChild DEF Children
  <1>2. child' = [child EXCEPT ![p] = r]
    BY DEF goes
  <1> HIDE DEF r
  <1>3. child'[p] = r
    BY <1>2 DEF Here, IInv, Typed
  <1>4. Opening(p)' /\ Writing(p)'
    BY <1>1, <1>3 DEF Here, Solo, Opening, Writing
  <1>5. Whole(p)'
    BY <1>1, <1>3 DEF Here, Solo, Whole
  <1>6. Present(p)'
    BY <1>1, <1>3 DEF Here, Solo, Present
  <1> QED
    BY <1>1, <1>2, <1>4, <1>5, <1>6, WaitingChild, ChildOnly

LEMMA ChildStepSeen ==
  ASSUME NEW p \in Shells, Here(p), ChildStep(p) \/ Kill(p), UNCHANGED scene, IInv'
  PROVE  Solo(p)' /\ Maps
  <1> DEFINE W == sh[p].words
             c == child[p]
  <1>1. c.st # "done"
    BY DEF ChildStep, Redirection, CreateFile, CreateTmp, Exec, Run, At, Kill
  <1>2. /\ c \in Children /\ W \in Seq(Words) /\ sh[p].pc = "wait" /\ sh[p].exists \in BOOLEAN
        /\ child \in [Shells -> Children] /\ data \in [Inodes -> Seq(Chunks)]
        /\ c.st \notin {"exec", "run"} => c.out = Tty
    BY <1>1, WaitingChild DEF Here, IInv, Typed, InTurn, Parents
  <1>3. CASE Kill(p)
    BY <1>1, <1>3, KilledSeen DEF Kill
  <1>4. CASE Redirection(p)
    <2>1. c.st = "redirect" /\ c.args = W /\ c.out = Tty /\ UNCHANGED <<dir, data, sh>>
      BY <1>2, <1>4 DEF Redirection, At, Here, Solo, Opening
    <2>3. sh[p].exists = TRUE => W[sign(W)] # ">"
      BY <1>2 DEF Here, Solo, Asked, Merges, IsPrepend, format_redirection
    <2>4. W[sign(W)] = ">" \/ ~sh[p].exists => sh[p].exists = FALSE
      BY <1>2, <2>3
    <2>2. PICK to \in {"create", "create_tmp", "exec", "done"} :
            /\ goes(p, to)
            /\ to \in {"create", "create_tmp"} => word(W, sign(W) + 2) = None
            /\ to = "create_tmp" => sh[p].exists = TRUE
            /\ to \in {"create", "done"} => sh[p].exists = FALSE
            /\ to = "exec" => word(W, sign(W) + 2) # None
            /\ to = "done" => file_exists(p, word(W, sign(W) + 1))
      BY <1>2, <1>4, <2>1, <2>4 DEF Redirection
    <2>5. to = "exec" => ~legal(W)
      BY <2>2 DEF legal
    <2>6. to = "done" /\ legal(W) => dir[RedirectedTo(W)] # None
      <3> SUFFICES ASSUME to = "done", legal(W) PROVE dir[RedirectedTo(W)] # None
        OBVIOUS
      <3>1. sign(W) + 1 \in DOMAIN W /\ RedirectedTo(W) = <<Home, W[sign(W) + 1]>>
        BY <1>2, LegalWords
      <3>2. sh[p].cwd = Home /\ dir[path(p, word(W, sign(W) + 1))] # None
        BY <1>1, <2>2, WaitingChild DEF file_exists
      <3> QED
        BY <3>1, <3>2 DEF path, word
    <2> QED
      BY <1>1, <2>1, <2>2, <2>5, <2>6, GoesSeen
  <1>5. CASE CreateFile(p)
    <2>1. c.st = "create" /\ c.out = Tty /\ UNCHANGED sh
      BY <1>2, <1>5 DEF CreateFile, At
    <2>4. sh[p].exists = FALSE /\ c.args = W
      BY <2>1 DEF Here, Solo, Opening
    <2>2. CASE /\ ~Creatable(path(p, word(c.args, sign(c.args) + 1)))
               /\ goes(p, "done") /\ UNCHANGED <<dir, data>>
      <3>1. ASSUME legal(W), RedirectedTo(W) \in Files
            PROVE  dir[RedirectedTo(W)] # None
        <4>1. sign(W) + 1 \in DOMAIN W /\ RedirectedTo(W) = <<Home, W[sign(W) + 1]>>
          BY <1>2, <3>1, LegalWords
        <4>2. path(p, word(W, sign(W) + 1)) = RedirectedTo(W)
          BY <1>1, <4>1, WaitingChild DEF path, word
        <4>3. RedirectedTo(W) \in Names
          BY <3>1 DEF Files, Names
        <4> QED
          BY <2>2, <2>4, <4>2, <4>3 DEF Creatable
      <3> QED
        BY <1>1, <2>1, <2>2, <2>4, <3>1, GoesSeen
    <2>3. ASSUME NEW i \in Inodes, redirected(p, i),
                 Create(path(p, word(c.args, sign(c.args) + 1)), i)
          PROVE  Solo(p)' /\ Maps
      BY <2>1, <2>3, Opens
    <2> QED
      BY <1>5, <2>2, <2>3 DEF CreateFile
  <1>6. CASE CreateTmp(p)
    <2>1. c.st = "create_tmp" /\ c.out = Tty /\ UNCHANGED sh
      BY <1>2, <1>6 DEF CreateTmp, At
    <2>2. Creatable(tmp_txt(p))
      <3>1. Tmp \in Names /\ tmp_txt(p) = Tmp
        BY <1>1, WaitingChild, ShellAssumption
           DEF ShellAssumption, Tmp, tmp_txt, path, Names, Scratch
      <3>2. legal(W) /\ sh[p].exists = TRUE
        BY <2>1, <3>1, OpensWhat, ShellAssumption
           DEF ShellAssumption, Files, Tmp, Scratch, Here, Solo, Opening
      <3>3. dir[Tmp] = None
        BY <1>2, <2>1, <3>2 DEF Here, Solo, Whole, BeforeMerge
      <3> QED
        BY <3>1, <3>3 DEF Creatable
    <2>3. ASSUME NEW i \in Inodes, redirected(p, i), Create(tmp_txt(p), i)
          PROVE  Solo(p)' /\ Maps
      BY <2>1, <2>3, Opens
    <2> QED
      BY <1>6, <2>2, <2>3 DEF CreateTmp
  <1>7. CASE Exec(p)
    <2>1. c.st = "exec" /\ UNCHANGED <<dir, sh>>
      BY <1>7 DEF Exec, At
    <2>2. CASE child' = [child EXCEPT ![p] = Killed] /\ UNCHANGED data
      BY <1>1, <2>1, <2>2, KilledSeen
    <2>3. CASE c.args # <<>> /\ c.args[1] \notin DOMAIN Prints /\ write(p, <<ERR>>) /\ goes(p, "run")
      <3>1. CASE c.out = Tty
        BY <1>1, <2>1, <2>3, <3>1, GoesSeen DEF write
      <3>2. CASE c.out # Tty
        <4> DEFINE r == [c EXCEPT !.st = "run"]
                   b == <<ERR>>
        <4>1. /\ legal(W) /\ c.args = Before(W) /\ data[c.out] = <<>> /\ c.left = <<>>
          BY <2>1, <3>2 DEF Here, Solo, Writing
        <4>2. b \in Seq(Chunks) /\ Len(b) = 1 /\ <<>> \o b = b /\ b \o <<>> = b
          BY ErrPrinted
        <4>3. data' = [data EXCEPT ![c.out] = b] /\ Len(b) = Len(data[c.out]) + 1
          <5>1. data' = [data EXCEPT ![c.out] = data[c.out] \o b]
            BY <2>3, <3>2 DEF write
          <5>2. data[c.out] \o b = b /\ Len(data[c.out]) + 1 = 1
            BY <4>1, <4>2
          <5> QED
            BY <4>2, <5>1, <5>2
        <4>8. c.signaled = FALSE
          BY <1>1 DEF Here, Solo, Opening
        <4>4. /\ r \in Children /\ r.st = "run" /\ r.out = c.out /\ r.left = <<>>
              /\ r.signaled = FALSE
          BY <1>2, <4>1, <4>8 DEF Children
        <4>5. child' = [child EXCEPT ![p] = r]
          BY <2>3 DEF goes
        <4>6. Printed(W) = b
          BY <1>2, <2>3, <4>1, LegalWords
        <4> HIDE DEF r, b
        <4>7. b \o r.left = Printed(W)
          BY <4>2, <4>4, <4>6
        <4> QED
          BY <1>1, <2>1, <3>2, <4>2, <4>3, <4>4, <4>5, <4>7, Fills
      <3> QED
        BY <3>1, <3>2
    <2>4. CASE /\ c.args # <<>> /\ c.args[1] \in DOMAIN Prints /\ UNCHANGED data
               /\ child' = [child EXCEPT ![p] = [@ EXCEPT !.st = "run",
                                                          !.left = Prints[c.args[1]]]]
      <3> DEFINE b == Prints[c.args[1]]
                 r == [c EXCEPT !.st = "run", !.left = b]
      <3>1. b \in Seq(Chunks) /\ <<>> \o b = b
        <4>1. b \in Seq(Chunks)
          BY <2>4, PrintsChunks
        <4> QED
          BY <4>1
      <3>2. child' = [child EXCEPT ![p] = r]
        BY <2>4
      <3>3. c.out # Tty => legal(W) /\ c.args = Before(W) /\ data[c.out] = <<>>
        BY <2>1 DEF Here, Solo, Writing
      <3>4. c.out # Tty => Printed(W) = b
        BY <1>2, <2>4, <3>3, LegalWords
      <3> HIDE DEF b
      <3>5. /\ r \in Children /\ r.st = "run" /\ r.out = c.out /\ r.left = b
            /\ r.signaled = c.signaled /\ c.signaled = FALSE
        BY <1>1, <1>2, <3>1 DEF Children, Here, Solo, Opening
      <3> HIDE DEF r
      <3>6. child'[p] = r
        BY <1>2, <3>2
      <3>7. Opening(p)'
        BY <3>5, <3>6 DEF Opening
      <3>9. Whole(p)' /\ Present(p)'
        BY <2>1, <2>4, <3>5, <3>6 DEF Here, Solo, Whole, Present
      <3>8. Writing(p)'
        <4>1. c.out # Tty => data[c.out] \o b = Printed(W)
          BY <3>1, <3>3, <3>4
        <4> QED
          BY <2>1, <2>4, <3>3, <3>5, <3>6, <4>1 DEF Writing, Here, Solo
      <3> QED
        BY <1>2, <2>1, <2>4, <3>2, <3>5, <3>7, <3>8, <3>9, ChildOnly
    <2> QED
      BY <1>7, <2>2, <2>3, <2>4 DEF Exec
  <1>8. CASE Run(p)
    <2>1. c.st = "run" /\ UNCHANGED <<dir, sh>>
      BY <1>8 DEF Run, At
    <2>2. CASE c.left = <<>>
      BY <1>1, <1>8, <2>1, <2>2, EndsSeen DEF Run
    <2>3. CASE c.left # <<>>
      <3> DEFINE h == Head(c.left)
                 t == Tail(c.left)
                 r == [c EXCEPT !.left = t]
                 b == data[c.out] \o <<h>>
      <3>1. h \in Chunks /\ t \in Seq(Chunks) /\ c.left \in Seq(Chunks)
        BY <1>2, <2>3, SeqSplit DEF Children
      <3>2. write(p, <<h>>) /\ child' = [child EXCEPT ![p] = r]
        BY <1>8, <2>3 DEF Run
      <3> HIDE DEF t, h
      <3>6. c.signaled = FALSE
        BY <1>1 DEF Here, Solo, Opening
      <3>3. /\ r \in Children /\ r.st = "run" /\ r.out = c.out /\ r.left = t
            /\ r.signaled = FALSE
        BY <1>2, <2>1, <3>1, <3>6 DEF Children
      <3> HIDE DEF r
      <3>4. CASE c.out = Tty
        <4>1. child'[p] = r
          BY <1>2, <3>2
        <4>2. Opening(p)' /\ Writing(p)'
          BY <3>3, <3>4, <4>1 DEF Opening, Writing
        <4>4. Whole(p)' /\ Present(p)'
          BY <2>1, <3>3, <3>4, <4>1 DEF Here, Solo, Whole, Present
        <4>3. data' = data
          BY <3>2, <3>4 DEF write
        <4> QED
          BY <1>2, <2>1, <3>2, <3>3, <3>6, <4>2, <4>3, <4>4, ChildOnly
      <3>5. CASE c.out # Tty
        <4>1. data[c.out] \in Seq(Chunks) /\ data[c.out] \o c.left = Printed(W)
          BY <1>2, <2>1, <3>5 DEF Children, Here, Solo, Writing
        <4>2. /\ b \o t = Printed(W) /\ b \in Seq(Chunks) /\ Len(b) = Len(data[c.out]) + 1
          BY <2>3, <3>1, <4>1, OneMore DEF h, t
        <4>3. data' = [data EXCEPT ![c.out] = b]
          BY <3>2, <3>5 DEF write
        <4> HIDE DEF b
        <4>4. b \o r.left = Printed(W)
          BY <3>3, <4>2
        <4> QED
          BY <1>1, <2>1, <3>2, <3>3, <3>5, <4>2, <4>3, <4>4, Fills
      <3> QED
        BY <3>4, <3>5
    <2> QED
      BY <2>2, <2>3
  <1> QED
    BY <1>3, <1>4, <1>5, <1>6, <1>7, <1>8 DEF ChildStep

----------------------------------------------------------------------------
(* The steps of the shell that is alone.                                   *)

\* What the merge has to find is still there, or is needed no more.
Stays(p) ==
    \/ sh'[p].pc \notin BeforeMerge
    \/ /\ sh[p].pc \in BeforeMerge /\ sh'[p].exists = sh[p].exists
       /\ dir'[Tmp] = dir[Tmp] /\ (dir[Tmp] # None => data'[dir[Tmp]] = data[dir[Tmp]])
       /\ \A f \in Files : dir'[f] = dir[f]

LEMMA StillWhole ==
  ASSUME NEW p \in Shells, Here(p), UNCHANGED child, sh'[p].words = sh[p].words, Stays(p)
  PROVE  Whole(p)' /\ Present(p)'
  <1>1. CASE sh'[p].pc \notin BeforeMerge
    BY <1>1 DEF Whole, Present
  <1>2. CASE sh'[p].pc \in BeforeMerge
    <2>1. /\ sh[p].pc \in BeforeMerge /\ sh'[p].exists = sh[p].exists
          /\ dir'[Tmp] = dir[Tmp] /\ (dir[Tmp] # None => data'[dir[Tmp]] = data[dir[Tmp]])
          /\ \A f \in Files : dir'[f] = dir[f]
      BY <1>2 DEF Stays
    <2>2. Whole(p)'
      BY <2>1 DEF Here, Solo, Whole
    <2>3. Present(p)'
      BY <2>1 DEF Here, Solo, Present
    <2> QED
      BY <2>2, <2>3
  <1> QED
    BY <1>1, <1>2

\* It has no child, and moves on.
LEMMA ParentOnly ==
  ASSUME NEW p \in Shells, Here(p), child[p].st = "done", UNCHANGED <<scene, child>>, IInv',
         NEW r \in Parents, sh' = [sh EXCEPT ![p] = r],
         r.words = sh[p].words, r.cwd = sh[p].cwd,
         Asked(p)', TmpHeld(p)', Combined(p)', Stays(p)
  PROVE  /\ Solo(p)' /\ View(p) /\ View(p)'
         /\ Made = {} /\ Made' = {} /\ target(p)' = target(p)
  <1>1. /\ sh'[p] = r /\ \A q \in Shells \ {p} : sh'[q] = sh[q]
        /\ child[p].out = Tty /\ sh[p].cwd = Home
    BY DEF Here, IInv, Typed, InTurn, Solo, Settled
  <1>2. Settled(p)' /\ Opening(p)' /\ Writing(p)'
    BY <1>1 DEF Here, Solo, Settled, Opening, Writing
  <1>9. Whole(p)' /\ Present(p)'
    BY <1>1, StillWhole
  <1>3. Solo(p)' /\ View(p) /\ View(p)'
    BY <1>2, <1>9, StaysHere DEF Solo
  <1>4. target(p)' = target(p)
    BY <1>1 DEF target, path
  <1>5. \A f \in Files : dir[f] \in Inodes \cup {None} /\ dir'[f] \in Inodes \cup {None}
    BY DEF Here, IInv, Typed, Files, Names
  <1>6. /\ Made = {f \in Files : dir[f] # None /\ child[p].out = dir[f]}
        /\ Made' = {f \in Files : dir'[f] # None /\ child'[p].out = dir'[f]}
    BY <1>3, Zenon DEF View
  <1>7. Made = {}
    BY <1>1, <1>5, <1>6, ShellAssumption DEF ShellAssumption
  <1>8. Made' = {}
    BY <1>1, <1>5, <1>6, ShellAssumption DEF ShellAssumption
  <1> QED
    BY <1>3, <1>4, <1>7, <1>8

\* What a shell that merges stands on.
LEMMA Merger ==
  ASSUME NEW p \in Shells, Here(p), MergeInv, sh[p].pc \in Merging
  PROVE  /\ sh[p] \in Parents /\ child[p].st = "done" /\ Held(p) /\ ~CanFail
         /\ sh[p].words \in Seq(Words) /\ OneSign(sh[p].words) /\ sh[p].words # <<>>
         /\ IsPrepend(sh[p].words)
         /\ sh[p].cwd = Home /\ target(p) = <<Home, sh[p].words[sign(sh[p].words) + 1]>>
         /\ target(p) \in Files /\ target(p) \in Names
         /\ tmp_txt(p) = Tmp /\ newfile_txt(p) = New
         /\ Tmp \in Names /\ New \in Names /\ Tmp # New /\ Tmp \notin Files /\ New \notin Files
         /\ \A f \in Files : f \in Names
         /\ dir \in [Names -> Inodes \cup {None}] /\ data \in [Inodes -> Seq(Chunks)]
  <1>1. /\ sh[p] \in Parents /\ child[p].st = "done" /\ sh[p].cwd = Home
        /\ target(p) \in Names /\ target(p)[2] \notin Scratch
    BY MergeTurn DEF Here, Solo, Settled
  <1>2. Held(p) /\ ~CanFail
    BY DEF Here, alone, MergeInv, Calm
  <1>3. OneSign(sh[p].words) /\ IsPrepend(sh[p].words) /\ sh[p].words \in Seq(Words)
    BY <1>1 DEF Here, Solo, Asked, Merges, Parents
  <1>4. sh[p].words # <<>>
    <2>1. sign(sh[p].words) \in 1 .. Len(sh[p].words)
      BY <1>3, SignWord
    <2> QED
      BY <2>1
  <1>5. /\ target(p) = <<Home, sh[p].words[sign(sh[p].words) + 1]>>
        /\ tmp_txt(p) = Tmp /\ newfile_txt(p) = New
    BY <1>1 DEF target, path, tmp_txt, newfile_txt, Tmp, New
  <1>6. target(p) \in Files /\ \A f \in Files : f \in Names
    BY <1>1, ShellAssumption DEF Names, Files, ShellAssumption
  <1>7. Tmp \in Names /\ New \in Names /\ Tmp # New /\ Tmp \notin Files /\ New \notin Files
    BY ShellAssumption DEF ShellAssumption, Tmp, New, Names, Files, Scratch
  <1> QED
    BY <1>1, <1>2, <1>3, <1>4, <1>5, <1>6, <1>7 DEF Here, IInv, Typed

\* A call of the merge that changes neither a file nor what is shown of it.
LEMMA MergeQuiet ==
  ASSUME NEW p \in Shells, Here(p), MergeInv, sh[p].pc \in Merging, ~Renames(p),
         View(p), View(p)', Made = {}, Made' = {},
         sh'[p].pc \in Merging, sh'[p].words = sh[p].words, ~Renames(p)',
         UNCHANGED child, sh'[p].exists = sh[p].exists,
         \A f \in Files : /\ dir'[f] = dir[f]
                          /\ dir[f] # None => data'[dir[f]] = data[dir[f]]
  PROVE  Maps
  <1>1. \A f \in Files : shown(f) = f
    BY DEF View
  <1>2. Running' = Running
    BY DEF View, Merging
  <1>3. Renames(p)' = Renames(p)
    <2>1. Renames(p) = FALSE /\ Renames(p)' = FALSE
      BY DEF Renames
    <2> QED
      BY <2>1
  <1>5. Runs(p)' = Runs(p)
    <2>1. Runs(p) <=> sh[p].words # <<>>
      BY DEF Runs, Merging
    <2>2. Runs(p)' <=> sh[p].words # <<>>
      BY DEF Runs, Merging
    <2> QED
      BY <2>1, <2>2 DEF Runs
  <1>6. InFront(p)' = InFront(p) /\ WasKilled(p)' = WasKilled(p)
    BY <1>5 DEF InFront, WasKilled
  <1>4. Unseen
    BY <1>1, <1>2, <1>3, <1>6, NotSeen
  <1> QED
    BY <1>4 DEF Maps

\* The command is over, and no file changes.
LEMMA CommandOver ==
  ASSUME NEW p \in Shells, View(p), View(p)', Made' = {}, UNCHANGED <<dir, data>>,
         ~Renames(p), sh'[p].pc \in {"idle", "gone"},
         sh[p].pc \notin {"unborn", "idle", "gone"}
  PROVE  /\ Contents' = Contents /\ Running' = <<>> /\ Merged' = FALSE /\ Running = sh[p].words
         /\ Onto' = FALSE /\ Cut' = FALSE
  <1>1. ~Renames(p)' /\ Renames(p)' = FALSE
    BY DEF Renames
  <1>2. Running = sh[p].words /\ Running' = <<>> /\ Merged' = FALSE
    BY <1>1 DEF View
  <1>8. Onto' = FALSE /\ Cut' = FALSE
    BY DEF View, InFront, WasKilled, Runs
  <1>3. \A f \in Files : shown(f) = f /\ shown(f)' = f
    BY <1>1 DEF View
  <1> DEFINE D == {g \in Files : dir[shown(g)] # None}
             E == {g \in Files : dir[shown(g)'] # None}
  <1>4. Contents = [f \in D |-> data[dir[shown(f)]]]
    BY Zenon DEF View
  <1>5. Contents' = [f \in E |-> data[dir[shown(f)']]]
    <2>1. Contents' = [f \in {g \in Files : dir'[shown(g)'] # None} |-> data'[dir'[shown(f)']]]
      BY Zenon DEF View
    <2> QED
      BY <2>1
  <1>6. E = D /\ \A f \in D : data[dir[shown(f)']] = data[dir[shown(f)]]
    BY <1>3
  <1>7. Contents' = Contents
    <2> HIDE DEF D, E
    <2> QED
      BY <1>4, <1>5, <1>6
  <1> QED
    BY <1>2, <1>7, <1>8

\* A command that ends has done what it promised, unless its program was killed.
LEMMA KeepsPromise ==
  ASSUME NEW p \in Shells, Here(p), View(p), sh[p].words \in Seq(Words),
         sh[p].words # <<>>, child[p].st = "done",
         ~Renames(p), sh[p].pc \in BeforeMerge,
         legal(sh[p].words) /\ child[p].signaled = FALSE => sh[p].exists = FALSE
  PROVE  Promise!Done \/ Cut
  <1> DEFINE W == sh[p].words
  <1>1. Runs(p) /\ Running = W
    BY DEF Runs, BeforeMerge, View
  <1>2. Onto = InFront(p) /\ Cut = WasKilled(p) /\ child[p].signaled \in BOOLEAN
    BY DEF View, Here, IInv, Typed, Children
  <1>3. CASE ~legal(W)
    <2>1. RedirectedTo(W) = None /\ None \notin Files
      BY <1>3, ShellAssumption DEF RedirectedTo, ShellAssumption, Files
    <2>2. Onto = FALSE
      BY <1>2, <1>3 DEF InFront
    <2> QED
      BY <1>1, <2>1, <2>2 DEF Promise!Done
  <1>4. CASE child[p].signaled = TRUE
    BY <1>1, <1>2, <1>4 DEF WasKilled
  <1>5. CASE legal(W) /\ child[p].signaled = FALSE
    <2>1. Onto = FALSE
      BY <1>2, <1>5 DEF InFront
    <2>2. RedirectedTo(W) \in Files => dir[RedirectedTo(W)] # None
      BY <1>5 DEF Here, Solo, Present
    <2>3. \A f \in Files : shown(f) = f
      BY DEF View
    <2> DEFINE D == {g \in Files : dir[shown(g)] # None}
    <2>4. Contents = [f \in D |-> data[dir[shown(f)]]]
      BY Zenon DEF View
    <2>5. RedirectedTo(W) \in Files => RedirectedTo(W) \in D
      BY <2>2, <2>3
    <2>6. RedirectedTo(W) \in Files => RedirectedTo(W) \in DOMAIN Contents
      <3> HIDE DEF D
      <3> QED
        BY <2>4, <2>5
    <2> QED
      BY <1>1, <2>1, <2>6 DEF Promise!Done
  <1> QED
    BY <1>2, <1>3, <1>4, <1>5

LEMMA OpensSeen ==
  ASSUME NEW p \in Shells, Here(p), MergeInv, UNCHANGED scene, IInv', OpenTmp(p) \/ OpenAdv(p)
  PROVE  Solo(p)' /\ Maps
  <1>1. sh[p].pc \in {"open_tmp", "open_adv"} /\ UNCHANGED <<dir, data, child>>
    BY DEF OpenTmp, OpenAdv
  <1>2. sh[p].pc \in Merging /\ ~Renames(p)
    BY <1>1 DEF Merging, Renames
  <1>3. PICK r \in Parents :
          /\ sh' = [sh EXCEPT ![p] = r]
          /\ r.words = sh[p].words /\ r.cwd = sh[p].cwd /\ r.exists = sh[p].exists
          /\ r.pc \in {"open_adv", "open_new"} /\ r.tmp = dir[Tmp]
    <2>1. CASE OpenTmp(p)
      <3> DEFINE r == [sh[p] EXCEPT !.pc = "open_adv", !.tmp = dir[Tmp]]
      <3>1. sh' = [sh EXCEPT ![p] = r]
        BY <1>2, <2>1, Merger DEF OpenTmp
      <3>2. /\ r \in Parents /\ r.words = sh[p].words /\ r.cwd = sh[p].cwd
            /\ r.exists = sh[p].exists /\ r.pc = "open_adv" /\ r.tmp = dir[Tmp]
        BY <1>2, Merger DEF Parents
      <3> QED
        BY <3>1, <3>2
    <2>2. CASE OpenAdv(p)
      <3> DEFINE r == [sh[p] EXCEPT !.pc = "open_new", !.adv = dir[target(p)]]
      <3>1. sh' = [sh EXCEPT ![p] = r]
        BY <2>2 DEF OpenAdv
      <3>2. sh[p].tmp = dir[Tmp]
        BY <2>2 DEF OpenAdv, Here, Solo, Combined
      <3>3. /\ r \in Parents /\ r.words = sh[p].words /\ r.cwd = sh[p].cwd
            /\ r.exists = sh[p].exists /\ r.pc = "open_new" /\ r.tmp = sh[p].tmp
        BY <1>2, Merger DEF Parents
      <3> QED
        BY <3>1, <3>2, <3>3
    <2> QED
      BY <2>1, <2>2
  <1>4. sh'[p] = r
    BY <1>3 DEF Here, IInv, Typed
  <1>5. Asked(p)' /\ TmpHeld(p)' /\ Combined(p)'
    BY <1>1, <1>2, <1>3, <1>4 DEF Here, Solo, Asked, TmpHeld, Combined, Merges, Renames
  <1>8. Stays(p)
    BY <1>1, <1>3, <1>4 DEF Stays, BeforeMerge
  <1>6. Solo(p)' /\ View(p) /\ View(p)' /\ Made = {} /\ Made' = {}
    BY <1>1, <1>2, <1>3, <1>5, <1>8, Merger, ParentOnly
  <1>7. sh'[p].pc \in Merging /\ ~Renames(p)'
    BY <1>3, <1>4 DEF Merging, Renames
  <1> QED
    BY <1>1, <1>2, <1>3, <1>4, <1>6, <1>7, MergeQuiet

LEMMA OpenNewSeen ==
  ASSUME NEW p \in Shells, Here(p), MergeInv, UNCHANGED scene, IInv', OpenNew(p)
  PROVE  Solo(p)' /\ Maps
  <1>1. sh[p].pc = "open_new" /\ UNCHANGED child /\ sh[p].pc \in Merging /\ ~Renames(p)
    BY DEF OpenNew, Merging, Renames
  <1>12. newfile_txt(p) = New
    BY <1>1, Merger
  <1>2. PICK i \in Inodes :
          /\ \/ Create(New, i)
             \/ /\ dir[New] = i
                /\ data' = [data EXCEPT ![i] = <<>>]
                /\ UNCHANGED dir
          /\ sh' = [sh EXCEPT ![p] = [@ EXCEPT !.pc = "copy", !.new = i]]
    BY <1>12 DEF OpenNew
  <1> DEFINE r == [sh[p] EXCEPT !.pc = "copy", !.new = i]
  <1>3. /\ r \in Parents /\ sh' = [sh EXCEPT ![p] = r]
        /\ r.words = sh[p].words /\ r.cwd = sh[p].cwd
        /\ r.exists = sh[p].exists /\ r.pc = "copy" /\ r.tmp = sh[p].tmp
    <2>1. sh' = [sh EXCEPT ![p] = r]
      BY <1>2
    <2>2. sh[p] \in Parents
      BY <1>1, Merger
    <2>3. /\ r \in Parents /\ r.words = sh[p].words /\ r.cwd = sh[p].cwd
          /\ r.exists = sh[p].exists /\ r.pc = "copy" /\ r.tmp = sh[p].tmp
      BY <2>2 DEF Parents
    <2> QED
      BY <2>1, <2>3
  <1> HIDE DEF r
  <1>4. sh'[p] = r
    BY <1>3 DEF Here, IInv, Typed
  <1>5. \A n \in Names : n # New =>
           /\ dir'[n] = dir[n] /\ dir[n] # i
           /\ dir[n] # None => data'[dir[n]] = data[dir[n]]
    <2>1. CASE Create(New, i)
      <3>1. i \in Free /\ dir' = [dir EXCEPT ![New] = i] /\ data' = [data EXCEPT ![i] = <<>>]
        BY <2>1, Created DEF Here
      <3>2. \A n \in Names : dir[n] # i
        BY <3>1 DEF Free
      <3> QED
        BY <1>1, <3>1, <3>2, Merger
    <2>2. CASE dir[New] = i /\ data' = [data EXCEPT ![i] = <<>>] /\ UNCHANGED dir
      <3>1. \A n \in Names : n # New => dir[n] # i
        BY <1>1, <2>2, Merger, ShellAssumption DEF Here, IInv, OneName, ShellAssumption
      <3> QED
        BY <1>1, <2>2, <3>1, Merger
    <2> QED
      BY <1>2, <2>1, <2>2
  <1>6. dir'[Tmp] = dir[Tmp] /\ (dir[Tmp] # None => data'[dir[Tmp]] = data[dir[Tmp]])
    BY <1>1, <1>5, Merger
  <1>10. \A f \in Files : dir'[f] = dir[f] /\ (dir[f] # None => data'[dir[f]] = data[dir[f]])
    BY <1>1, <1>5, Merger
  <1>7. Asked(p)' /\ TmpHeld(p)' /\ Combined(p)'
    BY <1>1, <1>3, <1>4, <1>6 DEF Here, Solo, Asked, TmpHeld, Combined, Merges, Renames
  <1>11. Stays(p)
    BY <1>1, <1>3, <1>4, <1>6, <1>10 DEF Stays, BeforeMerge
  <1>8. Solo(p)' /\ View(p) /\ View(p)' /\ Made = {} /\ Made' = {}
    BY <1>1, <1>3, <1>7, <1>11, Merger, ParentOnly
  <1>9. sh'[p].pc \in Merging /\ ~Renames(p)'
    BY <1>3, <1>4 DEF Merging, Renames
  <1> QED
    BY <1>1, <1>3, <1>4, <1>8, <1>9, <1>10, MergeQuiet

LEMMA CopySeen ==
  ASSUME NoEof, NEW p \in Shells, Here(p), MergeInv, UNCHANGED scene, IInv', Copy(p)
  PROVE  Solo(p)' /\ Maps
  <1>1. /\ sh[p].pc = "copy" /\ UNCHANGED <<dir, data, child>>
        /\ sh[p].pc \in Merging /\ ~Renames(p)
    BY DEF Copy, Merging, Renames
  <1>2. CASE None \in {sh[p].tmp, sh[p].adv}
    <2> DEFINE r == [sh[p] EXCEPT !.pc = "gone", !.tmp = None, !.adv = None, !.new = None]
    <2>1. sh' = [sh EXCEPT ![p] = r]
      BY <1>2 DEF Copy, gone
    <2>2. r \in Parents /\ r.words = sh[p].words /\ r.cwd = sh[p].cwd /\ r.pc = "gone"
      <3>1. sh[p] \in Parents
        BY <1>1, Merger
      <3> QED
        BY <3>1, GoneParent
    <2> HIDE DEF r
    <2>3. sh'[p] = r
      BY <2>1 DEF Here, IInv, Typed
    <2>4. Asked(p)' /\ TmpHeld(p)' /\ Combined(p)' /\ Stays(p)
      BY <2>2, <2>3 DEF Asked, TmpHeld, Combined, Merges, Merging, Renames, Stays, BeforeMerge
    <2>5. Solo(p)' /\ View(p) /\ View(p)' /\ Made = {} /\ Made' = {}
      BY <1>1, <2>1, <2>2, <2>4, Merger, ParentOnly
    <2>6. /\ Contents' = Contents /\ Running' = <<>> /\ Merged' = FALSE /\ Running # <<>>
          /\ Onto' = FALSE /\ Cut' = FALSE
      BY <1>1, <2>2, <2>3, <2>5, CommandOver, Merger
    <2>8. legal(sh[p].words) /\ child[p].signaled = FALSE => FALSE
      <3> SUFFICES ASSUME legal(sh[p].words), child[p].signaled = FALSE PROVE FALSE
        OBVIOUS
      <3>1. /\ sh[p].tmp = dir[Tmp] /\ sh[p].adv = dir[target(p)] /\ target(p) \in Files
            /\ target(p) = RedirectedTo(sh[p].words) /\ child[p].st = "done"
            /\ sh[p].exists = TRUE /\ sh[p].pc \in BeforeMerge
        BY <1>1, Merger, LegalWords
           DEF Here, Solo, Combined, Asked, Merges, Held, BeforeMerge
      <3>2. dir[Tmp] # None /\ dir[target(p)] # None
        BY <3>1 DEF Here, Solo, Whole, Present
      <3> QED
        BY <1>2, <3>1, <3>2
    <2>9. Promise!Done \/ Cut
      BY <1>1, <2>5, <2>8, Merger, KeepsPromise DEF BeforeMerge
    <2>7. Promise!End
      BY <2>5, <2>6, <2>9 DEF Promise!End, Promise!Idle
    <2> QED
      BY <2>5, <2>7 DEF Maps, Promise!Next
  <1>3. CASE None \notin {sh[p].tmp, sh[p].adv}
    <2> DEFINE a == data[sh[p].tmp]
               b == data[sh[p].adv]
               r1 == [sh[p] EXCEPT !.pc = "close"]
               r == [r1 EXCEPT !.buf = a \o b]
    <2>1. a \in Seq(Chunks) /\ b \in Seq(Chunks)
      BY <1>1, <1>3, Merger DEF Parents
    <2>2. sh' = [sh EXCEPT ![p] = r]
      <3>1. until_eof(a) = a /\ until_eof(b) = b
        BY <2>1, NoEofRead
      <3>2. sh' = [sh EXCEPT ![p] = [@ EXCEPT !.pc = "close", !.buf = until_eof(a) \o until_eof(b)]]
        BY <1>3 DEF Copy
      <3> QED
        BY <3>1, <3>2
    <2>3. a \o b \in Seq(Chunks)
      BY <2>1, SeqJoined
    <2>4. /\ r \in Parents /\ r.words = sh[p].words /\ r.cwd = sh[p].cwd /\ r.pc = "close"
          /\ r.tmp = sh[p].tmp /\ r.adv = sh[p].adv /\ r.buf = a \o b /\ r.exists = sh[p].exists
      <3> DEFINE s == a \o b
      <3>1. /\ r1 \in Parents /\ r1.words = sh[p].words /\ r1.cwd = sh[p].cwd
            /\ r1.pc = "close" /\ r1.tmp = sh[p].tmp /\ r1.adv = sh[p].adv
            /\ r1.exists = sh[p].exists
        BY <1>1, Merger, MovedTo
      <3> HIDE DEF r1, s
      <3>2. [r1 EXCEPT !.buf = s] \in Parents
        BY <2>3, <3>1 DEF Parents, s
      <3>3. LET r2 == [r1 EXCEPT !.buf = s] IN
            /\ r2.words = r1.words /\ r2.cwd = r1.cwd /\ r2.pc = r1.pc /\ r2.tmp = r1.tmp
            /\ r2.adv = r1.adv /\ r2.buf = s /\ r2.exists = r1.exists
        BY <3>1 DEF Parents
      <3> QED
        BY <3>1, <3>2, <3>3 DEF s
    <2> HIDE DEF r
    <2>5. sh'[p] = r
      BY <2>2 DEF Here, IInv, Typed
    <2>6. sh[p].tmp = dir[Tmp] /\ a \in Promise!Prefixes(Printed(sh[p].words))
      BY <1>1, <1>3 DEF Here, Solo, Combined, TmpHeld
    <2>7. Asked(p)' /\ TmpHeld(p)' /\ Stays(p)
      BY <1>1, <2>4, <2>5 DEF Here, Solo, Asked, TmpHeld, Merges, Stays, BeforeMerge
    <2>11. child[p].signaled = FALSE => a = Printed(sh[p].words)
      <3>1. sh[p].tmp # None /\ child[p].st = "done" /\ sh[p].pc \in BeforeMerge
        BY <1>1, <1>3, Merger DEF BeforeMerge
      <3>2. sh[p].exists = TRUE /\ legal(sh[p].words)
        BY <1>1, <2>6, <3>1 DEF Here, Solo, TmpHeld
      <3> QED
        BY <2>6, <3>1, <3>2 DEF Here, Solo, Whole
    <2>8. Combined(p)'
      BY <1>1, <2>4, <2>5, <2>6, <2>11 DEF Combined, Renames
    <2>9. Solo(p)' /\ View(p) /\ View(p)' /\ Made = {} /\ Made' = {}
      BY <1>1, <2>2, <2>4, <2>7, <2>8, Merger, ParentOnly
    <2>10. sh'[p].pc \in Merging /\ ~Renames(p)'
      BY <2>4, <2>5 DEF Merging, Renames
    <2> QED
      BY <1>1, <2>4, <2>5, <2>9, <2>10, MergeQuiet
  <1> QED
    BY <1>2, <1>3

LEMMA CloseSeen ==
  ASSUME NEW p \in Shells, Here(p), MergeInv, UNCHANGED scene, IInv', Close(p)
  PROVE  Solo(p)' /\ Maps
  <1>1. sh[p].pc = "close" /\ UNCHANGED <<child, dir>> /\ sh[p].pc \in Merging /\ ~Renames(p)
    BY DEF Close, WriteOut, WriteFails, Merging, Renames
  <1>2. WriteOut(p)
    BY <1>1, Merger DEF Close, WriteFails
  <1> DEFINE i == sh[p].new
             b == sh[p].buf
             W == sh[p].words
  <1>3. /\ i \in Inodes /\ sh[p].tmp \in Inodes /\ sh[p].adv \in Inodes /\ b \in Seq(Chunks)
        /\ dir[New] = i /\ data[i] = <<>> /\ sh[p].adv = dir[target(p)] /\ sh[p].tmp = dir[Tmp]
    BY <1>1, Merger DEF Here, IInv, InTurn, Held, Solo, Combined, Parents
  <1>4. None \notin Inodes
    BY ShellAssumption DEF ShellAssumption
  <1>5. legal(W)
    BY <1>1, <1>3, <1>4 DEF Here, Solo, TmpHeld
  <1>6. \A n \in Names : n # New => dir[n] # i
    BY <1>1, <1>3, <1>4, Merger DEF Here, IInv, OneName
  <1>7. data' = [data EXCEPT ![i] = b]
    <2>1. data' = [data EXCEPT ![i] = b \o SubSeq(<<>>, Len(b) + 1, Len(<<>>))]
      BY <1>2, <1>3 DEF WriteOut
    <2>2. Len(b) \in Nat
      BY <1>3
    <2>3. SubSeq(<<>>, Len(b) + 1, Len(<<>>)) = <<>>
      BY <2>2
    <2>4. b \o <<>> = b
      BY <1>3
    <2> QED
      BY <2>1, <2>3, <2>4
  <1>8. data'[i] = b /\ \A n \in Names : n # New /\ dir[n] # None => data'[dir[n]] = data[dir[n]]
    BY <1>1, <1>3, <1>6, <1>7, Merger
  <1>9. PICK t \in Promise!Prefixes(Printed(W)) :
          /\ b = t \o data[dir[target(p)]]
          /\ child[p].signaled = FALSE => t = Printed(W)
    BY <1>1, <1>3 DEF Here, Solo, Combined
  <1> DEFINE r1 == [sh[p] EXCEPT !.pc = "remove_adv", !.tmp = None, !.adv = None]
             r == [r1 EXCEPT !.new = None, !.buf = <<>>, !.dirty = TRUE]
  <1>10. sh' = [sh EXCEPT ![p] = r]
    BY DEF Close
  <1>11. /\ r \in Parents /\ r.words = sh[p].words /\ r.cwd = sh[p].cwd /\ r.pc = "remove_adv"
         /\ r.exists = sh[p].exists
    <2>1. /\ r1 \in Parents /\ r1.words = sh[p].words /\ r1.cwd = sh[p].cwd
          /\ r1.pc = "remove_adv" /\ r1.exists = sh[p].exists
      BY <1>1, Merger, LetsGo
    <2> HIDE DEF r1
    <2>2. <<>> \in Seq(Chunks)
      OBVIOUS
    <2>3. r \in Parents
      BY <2>1, <2>2 DEF Parents
    <2>4. /\ r.words = r1.words /\ r.cwd = r1.cwd /\ r.pc = r1.pc /\ r.exists = r1.exists
      BY <2>1 DEF Parents
    <2> QED
      BY <2>1, <2>3, <2>4
  <1> HIDE DEF r
  <1>12. sh'[p] = r
    BY <1>10 DEF Here, IInv, Typed
  <1>13. target(p)' = target(p)
    BY <1>11, <1>12 DEF target, path
  <1>14. data'[dir[Tmp]] = data[dir[Tmp]] /\ data'[dir[target(p)]] = data[dir[target(p)]]
    BY <1>1, <1>3, <1>4, <1>8, Merger
  <1>15. Asked(p)' /\ TmpHeld(p)' /\ Stays(p)
    BY <1>1, <1>11, <1>12, <1>14
       DEF Here, Solo, Asked, TmpHeld, Merges, Stays, BeforeMerge
  <1>16. Combined(p)'
    <2>1. data'[dir'[New]] = t \o data'[dir'[target(p)]]
      BY <1>1, <1>3, <1>8, <1>9, <1>14
    <2> QED
      BY <1>1, <1>3, <1>4, <1>5, <1>9, <1>11, <1>12, <1>13, <2>1 DEF Combined, Renames
  <1>17. Solo(p)' /\ View(p) /\ View(p)' /\ Made = {} /\ Made' = {}
    BY <1>1, <1>10, <1>11, <1>15, <1>16, Merger, ParentOnly
  <1>18. sh'[p].pc \in Merging /\ ~Renames(p)'
    BY <1>11, <1>12 DEF Merging, Renames
  <1>19. \A f \in Files : dir'[f] = dir[f] /\ (dir[f] # None => data'[dir[f]] = data[dir[f]])
    BY <1>1, <1>8, Merger
  <1> QED
    BY <1>1, <1>11, <1>12, <1>17, <1>18, <1>19, MergeQuiet

LEMMA RemoveAdvSeen ==
  ASSUME NEW p \in Shells, Here(p), MergeInv, UNCHANGED scene, IInv', RemoveAdv(p)
  PROVE  Solo(p)' /\ Maps
  <1> DEFINE W == sh[p].words
             T == target(p)
             r == [sh[p] EXCEPT !.pc = "remove_tmp"]
  <1>1. /\ sh[p].pc = "remove_adv" /\ UNCHANGED <<child, data>> /\ sh[p].pc \in Merging
        /\ ~Renames(p) /\ Renames(p) = FALSE
        /\ sh' = [sh EXCEPT ![p] = r] /\ dir' = [dir EXCEPT ![T] = None]
    BY DEF RemoveAdv, steps, removed, Merging, Renames
  <1>2. r \in Parents /\ r.words = W /\ r.cwd = sh[p].cwd /\ r.exists = sh[p].exists
        /\ r.pc = "remove_tmp"
    BY <1>1, Merger, MovedTo
  <1> HIDE DEF r
  <1>3. sh'[p] = r
    BY <1>1 DEF Here, IInv, Typed
  <1>4. dir'[T] = None /\ \A n \in Names : n # T => dir'[n] = dir[n]
    BY <1>1, Merger
  <1>0. \A f \in Files : f \in Names
    BY <1>1, Merger
  <1>5. dir'[Tmp] = dir[Tmp] /\ dir'[New] = dir[New] /\ T \in Files
    BY <1>1, <1>4, Merger
  <1>6. Asked(p)' /\ TmpHeld(p)' /\ Combined(p)' /\ Stays(p)
    <2>1. Asked(p)' /\ TmpHeld(p)' /\ Stays(p)
      BY <1>1, <1>2, <1>3, <1>5
         DEF Here, Solo, Asked, TmpHeld, Merges, Merging, Stays, BeforeMerge
    <2>2. Combined(p)'
      BY <1>1, <1>2, <1>3, <1>5 DEF Here, Solo, Combined
    <2> QED
      BY <2>1, <2>2
  <1>7. Solo(p)' /\ View(p) /\ View(p)' /\ Made = {} /\ Made' = {} /\ target(p)' = T
    BY <1>1, <1>2, <1>6, Merger, ParentOnly
  <1>8. Renames(p)' = TRUE
    BY <1>2, <1>3 DEF Renames
  <1>9. Running = W /\ Running' = W /\ Merged = FALSE /\ Merged' = TRUE
    BY <1>1, <1>2, <1>3, <1>7, <1>8 DEF View
  <1>10. /\ \A f \in Files : shown(f) = f
         /\ \A f \in Files : shown(f)' = IF f = T THEN New ELSE f
    BY <1>1, <1>7, <1>8 DEF View
  <1>11. PICK t \in Promise!Prefixes(Printed(W)) :
           /\ data[dir[New]] = t \o data[dir[T]]
           /\ child[p].signaled = FALSE => t = Printed(W)
    BY <1>1 DEF Here, Solo, Combined
  <1>12. legal(W) /\ dir[New] # None /\ dir[T] # None
    BY <1>1 DEF Here, Solo, Combined
  <1>21. \A g \in Files : dir'[shown(g)'] = IF g = T THEN dir[New] ELSE dir[g]
    <2> SUFFICES ASSUME NEW g \in Files
                 PROVE  dir'[shown(g)'] = IF g = T THEN dir[New] ELSE dir[g]
      OBVIOUS
    <2>1. CASE g = T
      BY <1>5, <1>10, <2>1
    <2>2. CASE g # T
      BY <1>0, <1>4, <1>10, <2>2
    <2> QED
      BY <2>1, <2>2
  <1> DEFINE D == {g \in Files : dir[shown(g)] # None}
             E == {g \in Files : dir'[shown(g)'] # None}
  <1>13. Contents = [f \in D |-> data[dir[shown(f)]]]
    BY <1>7, Zenon DEF View
  <1>14. Contents' = [f \in E |-> data'[dir'[shown(f)']]]
    BY <1>7, Zenon DEF View
  <1>15. E = D /\ T \in D
    <2>2. \A g \in Files : dir[shown(g)] = dir[g]
      BY <1>10
    <2>3. \A g \in Files : dir'[shown(g)'] = IF g = T THEN dir[New] ELSE dir[g]
      BY <1>21
    <2> QED
      BY <1>5, <1>12, <2>2, <2>3
  <1>16. \A f \in D : data[dir[shown(f)]] = data[dir[f]]
    BY <1>10
  <1>17. \A f \in D : data'[dir'[shown(f)']] = IF f = T THEN t \o data[dir[T]] ELSE data[dir[f]]
    <2>1. data' = data
      BY <1>1
    <2> QED
      BY <1>11, <1>21, <2>1
  <1>18. Contents[T] = data[dir[T]] /\ T \in DOMAIN Contents
         /\ Contents' = [Contents EXCEPT ![T] = t \o Contents[T]]
    <2> DEFINE u == [Contents EXCEPT ![T] = t \o Contents[T]]
    <2> HIDE DEF D, E, T
    <2>1. DOMAIN Contents = D /\ Contents = [f \in D |-> data[dir[f]]]
      BY <1>13, <1>16
    <2>2. T \in DOMAIN Contents /\ Contents[T] = data[dir[T]]
      BY <1>15, <2>1
    <2>3. Contents' = [f \in D |-> data'[dir'[shown(f)']]]
      BY <1>14, <1>15, Zenon
    <2>4. Contents' = [f \in D |-> IF f = T THEN t \o data[dir[T]] ELSE data[dir[f]]]
      BY <1>17, <2>3
    <2>5. u = [f \in D |-> IF f = T THEN t \o data[dir[T]] ELSE data[dir[f]]]
      BY <2>1, <2>2
    <2> QED
      BY <2>2, <2>4, <2>5
  <1>19. W # <<>> /\ IsPrepend(W) /\ T = RedirectedTo(W)
    BY <1>1, <1>12, Merger, LegalWords
  <1>22. Runs(p) /\ Runs(p)'
    BY <1>1, <1>2, <1>3, <1>19 DEF Runs
  <1>23. Onto = TRUE /\ Onto' = TRUE
    <2>1. sh[p].exists = TRUE
      BY <1>1 DEF Here, Solo, Asked, Merges
    <2> QED
      BY <1>2, <1>3, <1>7, <1>12, <1>22, <2>1 DEF View, InFront
  <1>24. Cut' = Cut /\ (Cut \/ child[p].signaled = FALSE)
    <2>1. child[p].signaled \in BOOLEAN
      BY DEF Here, IInv, Typed, Children
    <2> QED
      BY <1>1, <1>7, <1>22, <2>1 DEF View, WasKilled
  <1>20. Promise!Prepend(T)
    BY <1>5, <1>7, <1>9, <1>11, <1>18, <1>19, <1>23, <1>24 DEF Promise!Prepend
  <1> QED
    BY <1>5, <1>7, <1>20 DEF Maps, Promise!Next

LEMMA RemoveTmpSeen ==
  ASSUME NEW p \in Shells, Here(p), MergeInv, UNCHANGED scene, IInv', RemoveTmp(p)
  PROVE  Solo(p)' /\ Maps
  <1> DEFINE r == [sh[p] EXCEPT !.pc = "rename"]
  <1>1. /\ sh[p].pc = "remove_tmp" /\ UNCHANGED <<child, data>> /\ sh[p].pc \in Merging
        /\ sh' = [sh EXCEPT ![p] = r] /\ dir' = [dir EXCEPT ![tmp_txt(p)] = None]
        /\ Renames(p) = TRUE
    BY DEF RemoveTmp, steps, removed, Merging, Renames
  <1>2. r \in Parents /\ r.words = sh[p].words /\ r.cwd = sh[p].cwd /\ r.exists = sh[p].exists
        /\ r.pc = "rename"
    BY <1>1, Merger, MovedTo
  <1> HIDE DEF r
  <1>3. sh'[p] = r
    BY <1>1 DEF Here, IInv, Typed
  <1>4. dir'[Tmp] = None /\ \A n \in Names : n # Tmp => dir'[n] = dir[n]
    BY <1>1, Merger
  <1>5. Asked(p)' /\ TmpHeld(p)' /\ Combined(p)' /\ Stays(p)
    <2>1. Asked(p)' /\ TmpHeld(p)' /\ Stays(p)
      BY <1>1, <1>2, <1>3, <1>4
         DEF Here, Solo, Asked, TmpHeld, Merges, Merging, Stays, BeforeMerge
    <2>2. dir'[New] = dir[New]
      BY <1>1, <1>4, Merger
    <2>3. Combined(p)'
      BY <1>1, <1>2, <1>3, <2>2 DEF Here, Solo, Combined
    <2> QED
      BY <2>1, <2>3
  <1>6. Solo(p)' /\ View(p) /\ View(p)' /\ Made = {} /\ Made' = {} /\ target(p)' = target(p)
    BY <1>1, <1>2, <1>5, Merger, ParentOnly
  <1>7. Renames(p)' = Renames(p)
    BY <1>1, <1>2, <1>3 DEF Renames
  <1>8. Running' = Running
    BY <1>1, <1>2, <1>3, <1>6 DEF View
  <1>9. \A f \in Files : shown(f) \in Names /\ shown(f) # Tmp
    BY <1>1, <1>6, Merger DEF View
  <1>11. Runs(p)' = Runs(p)
    <2>1. Runs(p) <=> sh[p].words # <<>>
      BY <1>1 DEF Runs
    <2>2. Runs(p)' <=> sh[p].words # <<>>
      BY <1>2, <1>3 DEF Runs
    <2> QED
      BY <2>1, <2>2 DEF Runs
  <1>12. InFront(p)' = InFront(p) /\ WasKilled(p)' = WasKilled(p)
    BY <1>1, <1>2, <1>3, <1>11 DEF InFront, WasKilled
  <1>10. Unseen
    BY <1>1, <1>4, <1>6, <1>7, <1>8, <1>9, <1>12, NotSeen
  <1> QED
    BY <1>6, <1>10 DEF Maps

LEMMA RenameSeen ==
  ASSUME NEW p \in Shells, Here(p), MergeInv, UNCHANGED scene, IInv', Rename(p)
  PROVE  Solo(p)' /\ Maps
  <1> DEFINE T == target(p)
             r == [sh[p] EXCEPT !.pc = "idle"]
  <1>1. /\ sh[p].pc = "rename" /\ UNCHANGED <<child, data>> /\ sh[p].pc \in Merging
        /\ sh' = [sh EXCEPT ![p] = r] /\ Renames(p) = TRUE
    BY DEF Rename, steps, Merging, Renames
  <1>2. r \in Parents /\ r.words = sh[p].words /\ r.cwd = sh[p].cwd /\ r.pc = "idle"
    BY <1>1, Merger, MovedTo
  <1> HIDE DEF r
  <1>3. sh'[p] = r
    BY <1>1 DEF Here, IInv, Typed
  <1>4. T \in Files /\ T \in Names /\ T # New /\ dir[T] = None
    BY <1>1, Merger DEF Held
  <1>5. dir'[T] = dir[New] /\ \A n \in Names : n # T /\ n # New => dir'[n] = dir[n]
    <2>1. dir' = IF dir[New] = None THEN dir
                 ELSE [dir EXCEPT ![T] = dir[New], ![New] = None]
      BY <1>1, Merger DEF Rename
    <2> QED
      BY <1>1, <1>4, <2>1, Merger
  <1>6. dir[Tmp] = None /\ dir'[Tmp] = dir[Tmp]
    <2>1. dir[Tmp] = None
      BY <1>1 DEF Here, Solo, TmpHeld
    <2> QED
      BY <1>1, <1>4, <1>5, <2>1, Merger
  <1>7. Asked(p)' /\ TmpHeld(p)' /\ Combined(p)' /\ Stays(p)
    BY <1>2, <1>3, <1>6
       DEF Asked, TmpHeld, Combined, Merges, Merging, Renames, Stays, BeforeMerge
  <1>8. Solo(p)' /\ View(p) /\ View(p)' /\ Made = {} /\ Made' = {}
    BY <1>1, <1>2, <1>7, Merger, ParentOnly
  <1>9. Renames(p)' = FALSE
    BY <1>2, <1>3 DEF Renames
  <1>10. Running # <<>> /\ Running' = <<>> /\ Merged' = FALSE /\ Running = sh[p].words
    BY <1>1, <1>2, <1>3, <1>8, <1>9, Merger DEF View
  <1>17. Merged = TRUE /\ Onto' = FALSE /\ Cut' = FALSE
    BY <1>1, <1>2, <1>3, <1>8 DEF View, InFront, WasKilled, Runs
  <1>11. /\ \A f \in Files : shown(f) = IF f = T THEN New ELSE f
         /\ \A f \in Files : shown(f)' = f
    BY <1>1, <1>8, <1>9 DEF View
  <1> DEFINE D == {g \in Files : dir[shown(g)] # None}
             E == {g \in Files : dir'[shown(g)'] # None}
  <1>12. Contents = [f \in D |-> data[dir[shown(f)]]]
    BY <1>8, Zenon DEF View
  <1>13. Contents' = [f \in E |-> data'[dir'[shown(f)']]]
    BY <1>8, Zenon DEF View
  <1>14. \A f \in Files : dir'[shown(f)'] = dir[shown(f)]
    BY <1>1, <1>4, <1>5, <1>11, Merger
  <1>15. Contents' = Contents
    <2>1. E = D /\ \A f \in D : data'[dir'[shown(f)']] = data[dir[shown(f)]]
      BY <1>1, <1>14
    <2> HIDE DEF D, E
    <2> QED
      BY <1>12, <1>13, <2>1
  <1>18. RedirectedTo(sh[p].words) \in Files => RedirectedTo(sh[p].words) \in DOMAIN Contents
    <2> SUFFICES ASSUME RedirectedTo(sh[p].words) \in Files
                 PROVE  RedirectedTo(sh[p].words) \in DOMAIN Contents
      OBVIOUS
    <2>1. legal(sh[p].words)
      BY ShellAssumption DEF RedirectedTo, ShellAssumption, Files
    <2>2. RedirectedTo(sh[p].words) = T
      BY <1>1, <2>1, Merger, LegalWords
    <2>3. dir[New] # None
      BY <1>1 DEF Here, Solo, Combined
    <2>4. T \in D
      BY <1>4, <1>11, <2>3
    <2>5. T \in DOMAIN Contents
      <3> HIDE DEF D
      <3> QED
        BY <1>12, <2>4
    <2> QED
      BY <2>2, <2>5
  <1>19. Promise!Done
    BY <1>10, <1>17, <1>18 DEF Promise!Done
  <1>16. Promise!End
    BY <1>8, <1>10, <1>15, <1>17, <1>19 DEF Promise!End, Promise!Idle
  <1> QED
    BY <1>8, <1>16 DEF Maps, Promise!Next

LEMMA WaitSeen ==
  ASSUME NEW p \in Shells, Here(p), UNCHANGED scene, IInv', Wait(p)
  PROVE  Solo(p)' /\ Maps
  <1>1. /\ sh[p].pc = "wait" /\ child[p].st = "done" /\ UNCHANGED <<dir, data, child>>
        /\ sh[p] \in Parents /\ ~Renames(p)
    BY DEF Wait, steps, Here, IInv, Typed, Renames
  <1>2. PICK to \in {"open_tmp", "idle"} :
          /\ sh' = [sh EXCEPT ![p].pc = to]
          /\ to = "open_tmp" <=> sh[p].exists = TRUE
    <2>1. sh[p].exists \in BOOLEAN
      BY <1>1 DEF Parents
    <2>2. CASE sh[p].exists = TRUE
      BY <1>1, <2>2 DEF Wait, steps
    <2>3. CASE sh[p].exists = FALSE
      BY <1>1, <2>3 DEF Wait, steps
    <2> QED
      BY <2>1, <2>2, <2>3
  <1> DEFINE r == [sh[p] EXCEPT !.pc = to]
  <1>3. /\ r \in Parents /\ r.words = sh[p].words /\ r.cwd = sh[p].cwd
        /\ r.exists = sh[p].exists /\ r.pc = to
    BY <1>1 DEF Parents
  <1>4. sh' = [sh EXCEPT ![p] = r]
    BY <1>2
  <1> HIDE DEF r
  <1>5. sh'[p] = r
    BY <1>4 DEF Here, IInv, Typed
  <1>6. Asked(p)'
    BY <1>1, <1>2, <1>3, <1>5 DEF Here, Solo, Asked, Merges, Merging
  <1>7. TmpHeld(p)' /\ Combined(p)' /\ Stays(p)
    BY <1>1, <1>2, <1>3, <1>5 DEF Here, Solo, TmpHeld, Combined, Renames, Stays, BeforeMerge
  <1>8. Solo(p)' /\ View(p) /\ View(p)' /\ Made = {} /\ Made' = {}
    BY <1>1, <1>3, <1>4, <1>6, <1>7, ParentOnly
  <1>9. CASE to = "idle"
    <2>1. /\ Contents' = Contents /\ Running' = <<>> /\ Merged' = FALSE
          /\ Running = sh[p].words /\ Onto' = FALSE /\ Cut' = FALSE
      BY <1>1, <1>3, <1>5, <1>8, <1>9, CommandOver
    <2>2. Merged = FALSE
      <3>1. Renames(p) = FALSE
        BY <1>1 DEF Renames
      <3> QED
        BY <1>8, <3>1 DEF View
    <2>3. CASE Running = <<>>
      <3>1. Onto = FALSE /\ Cut = FALSE
        BY <1>8, <2>1, <2>3 DEF View, InFront, WasKilled, Runs
      <3> QED
        BY <1>8, <2>1, <2>2, <2>3, <3>1 DEF Maps, Unseen
    <2>4. CASE Running # <<>>
      <3>2. sh[p].exists = FALSE /\ sh[p].words \in Seq(Words)
        BY <1>1, <1>2, <1>9 DEF Parents
      <3>3. Promise!Done \/ Cut
        BY <1>1, <1>8, <2>1, <2>4, <3>2, KeepsPromise DEF BeforeMerge
      <3>1. Promise!End
        BY <1>8, <2>1, <2>4, <3>3 DEF Promise!End, Promise!Idle
      <3> QED
        BY <1>8, <3>1 DEF Maps, Promise!Next
    <2> QED
      BY <2>3, <2>4
  <1>10. CASE to = "open_tmp"
    <2>1. Renames(p)' = Renames(p)
      BY <1>1, <1>3, <1>5, <1>10 DEF Renames
    <2>2. Running' = Running
      BY <1>1, <1>3, <1>5, <1>8, <1>10 DEF View
    <2>4. Runs(p)' = Runs(p)
      <3>1. Runs(p) <=> sh[p].words # <<>>
        BY <1>1 DEF Runs
      <3>2. Runs(p)' <=> sh[p].words # <<>>
        BY <1>3, <1>5, <1>10 DEF Runs
      <3> QED
        BY <3>1, <3>2 DEF Runs
    <2>5. InFront(p)' = InFront(p) /\ WasKilled(p)' = WasKilled(p)
      BY <1>1, <1>3, <1>5, <2>4 DEF InFront, WasKilled
    <2>3. Unseen
      BY <1>1, <1>8, <2>1, <2>2, <2>5, NotSeen
    <2> QED
      BY <1>8, <2>3 DEF Maps
  <1> QED
    BY <1>9, <1>10

\* Between two commands.
LEMMA IdleSeen ==
  ASSUME NEW p \in Shells, Here(p), child[p].st = "done", IInv',
         UNCHANGED <<scene, dir, data, child>>, sh[p].pc \in {"unborn", "idle"},
         NEW r \in Parents, sh' = [sh EXCEPT ![p] = r], r.pc \in {"idle", "gone"},
         r.words = sh[p].words, r.cwd = sh[p].cwd
  PROVE  Solo(p)' /\ Maps
  <1>1. sh'[p] = r
    BY DEF Here, IInv, Typed
  <1>2. dir[Tmp] = None
    BY DEF Here, Solo, TmpHeld
  <1>3. Asked(p)' /\ TmpHeld(p)' /\ Combined(p)' /\ Stays(p)
    BY <1>1, <1>2 DEF Asked, TmpHeld, Combined, Merges, Merging, Renames, Stays, BeforeMerge
  <1>4. Solo(p)' /\ View(p) /\ View(p)' /\ Made = {} /\ Made' = {}
    BY <1>3, ParentOnly
  <1>5. Renames(p) = FALSE /\ Renames(p)' = FALSE
    BY <1>1 DEF Renames
  <1>6. Running' = Running
    BY <1>1, <1>4 DEF View
  <1>8. /\ InFront(p) = FALSE /\ InFront(p)' = FALSE
        /\ WasKilled(p) = FALSE /\ WasKilled(p)' = FALSE
    BY <1>1 DEF InFront, WasKilled, Runs
  <1>7. Unseen
    <2>1. \A f \in Files : /\ dir'[shown(f)] = dir[shown(f)]
                           /\ data'[dir[shown(f)]] = data[dir[shown(f)]]
      OBVIOUS
    <2> QED
      BY <1>4, <1>5, <1>6, <1>8, <2>1, NotSeen
  <1> QED
    BY <1>4, <1>7 DEF Maps

LEMMA StartSeen ==
  ASSUME NEW p \in Shells, Here(p), UNCHANGED scene, IInv', Start(p)
  PROVE  Solo(p)' /\ Maps
  <1> DEFINE r == [sh[p] EXCEPT !.pc = "idle"]
  <1>1. /\ sh[p].pc = "unborn" /\ UNCHANGED <<dir, data, child>> /\ sh[p] \in Parents
        /\ sh' = [sh EXCEPT ![p] = r]
    BY DEF Start, steps, Here, IInv, Typed
  <1>2. child[p].st = "done"
    BY DEF Start, Here, alone
  <1>3. r \in Parents /\ r.pc = "idle" /\ r.words = sh[p].words /\ r.cwd = sh[p].cwd
    BY <1>1, MovedTo
  <1> HIDE DEF r
  <1> QED
    BY <1>1, <1>2, <1>3, IdleSeen

LEMMA ForkSeen ==
  ASSUME NEW p \in Shells, Here(p), UNCHANGED scene, IInv', sh[p].pc = "idle",
         NEW w \in Seq(Words), \A i \in DOMAIN w : w[i] \notin Scratch,
         format_redirection(w) # -2, Fork(p, w)
  PROVE  Solo(p)' /\ Maps
  <1>1. /\ sh[p] \in Parents /\ sh[p].cwd = Home /\ child[p].st = "done" /\ child[p].out = Tty
        /\ UNCHANGED <<dir, data>> /\ dir[Tmp] = None
        /\ sh \in [Shells -> Parents] /\ child \in [Shells -> Children]
    BY DEF Fork, Here, Solo, Settled, TmpHeld, IInv, InTurn, Typed
  <1> DEFINE adv == format_redirection(w) = 2 /\ word(w, sign(w) + 1) # None
             e == adv /\ file_exists(p, w[sign(w) + 1])
             r1 == [sh[p] EXCEPT !.pc = "wait", !.words = w]
             r == [r1 EXCEPT !.given = sh[p].given + 1, !.exists = e]
             begun == IF format_redirection(w) > -1 THEN "redirect" ELSE "exec"
             c == [NoChild EXCEPT !.args = w, !.st = begun]
  <1>2. sh' = [sh EXCEPT ![p] = r] /\ child' = [child EXCEPT ![p] = c]
    BY DEF Fork
  <1>3. r.pc = "wait" /\ r.words = w /\ r.cwd = Home /\ r.exists = e
    <2>1. r1 \in Parents /\ r1.pc = "wait" /\ r1.words = w /\ r1.cwd = Home
      BY <1>1 DEF Parents
    <2> HIDE DEF r1, e
    <2> QED
      BY <2>1 DEF Parents
  <1>4. e = TRUE => /\ OneSign(w) /\ IsPrepend(w) /\ word(w, sign(w) + 1) # None
    BY SignFound DEF IsPrepend
  <1>5. /\ c.st = begun /\ c.args = w /\ c.out = Tty /\ c.left = <<>>
        /\ c.signaled = FALSE
    <2> HIDE DEF begun
    <2> QED
      BY DEF NoChild
  <1>6. begun \in {"redirect", "exec"}
    OBVIOUS
  <1>20. legal(w) => begun = "redirect" /\ RedirectedTo(w) = <<Home, w[sign(w) + 1]>>
    <2> SUFFICES ASSUME legal(w)
                 PROVE  begun = "redirect" /\ RedirectedTo(w) = <<Home, w[sign(w) + 1]>>
      OBVIOUS
    <2>1. Cardinality(signs(w)) = 1 /\ signs(w) # {}
      BY FS_EmptySet DEF legal
    <2>2. format_redirection(w) \in {1, 2}
      BY <2>1 DEF format_redirection
    <2> QED
      BY <2>2, LegalWords
  <1>21. legal(w) => (e = TRUE <=> /\ IsPrepend(w) /\ RedirectedTo(w) \in Files
                                   /\ dir[RedirectedTo(w)] # None)
    <2> SUFFICES ASSUME legal(w)
                 PROVE  e = TRUE <=> /\ IsPrepend(w) /\ RedirectedTo(w) \in Files
                                     /\ dir[RedirectedTo(w)] # None
      OBVIOUS
    <2>1. sign(w) + 1 \in DOMAIN w /\ word(w, sign(w) + 1) # None
      BY LegalWords DEF legal
    <2>2. path(p, w[sign(w) + 1]) = RedirectedTo(w)
      BY <1>1, <1>20 DEF path
    <2>3. RedirectedTo(w) \in Names <=> RedirectedTo(w) \in Files
      BY <1>20, <2>1 DEF Names, Files
    <2>4. file_exists(p, w[sign(w) + 1]) <=> /\ RedirectedTo(w) \in Files
                                             /\ dir[RedirectedTo(w)] # None
      BY <2>2, <2>3 DEF file_exists
    <2>5. (e = TRUE) <=> (IsPrepend(w) /\ file_exists(p, w[sign(w) + 1]))
      BY <2>1 DEF IsPrepend
    <2> QED
      BY <2>4, <2>5
  <1> HIDE DEF r, c, begun, e
  <1>7. /\ sh'[p] = r /\ child'[p] = c
        /\ \A q \in Shells \ {p} : sh'[q] = sh[q] /\ child'[q] = child[q]
    BY <1>1, <1>2
  <1>8. Settled(p)'
    BY <1>3, <1>5, <1>7 DEF Here, Solo, Settled
  <1>9. Asked(p)'
    BY <1>3, <1>4, <1>7 DEF Asked, Merges, Merging
  <1>10. Opening(p)' /\ Writing(p)'
    BY <1>3, <1>5, <1>6, <1>7 DEF Opening, Writing
  <1>11. TmpHeld(p)' /\ Combined(p)'
    BY <1>1, <1>3, <1>7 DEF TmpHeld, Combined, Renames
  <1>22. Whole(p)'
    BY <1>1, <1>3, <1>5, <1>7, <1>20 DEF Whole
  <1>23. Present(p)'
    BY <1>1, <1>3, <1>5, <1>7, <1>20, <1>21 DEF Present
  <1>12. Solo(p)' /\ View(p) /\ View(p)'
    BY <1>8, <1>9, <1>10, <1>11, <1>22, <1>23, StaysHere DEF Solo
  <1>13. Renames(p) = FALSE /\ Renames(p)' = FALSE
    BY <1>3, <1>7 DEF Renames
  <1>14. Running = <<>> /\ Running' = w /\ Merged = FALSE /\ Merged' = FALSE
    BY <1>3, <1>7, <1>12, <1>13 DEF View
  <1>15. Made = {} /\ Made' = {}
    <2>1. \A f \in Files : dir[f] \in Inodes \cup {None}
      BY DEF Here, IInv, Typed, Files, Names
    <2>2. /\ Made = {f \in Files : dir[f] # None /\ child[p].out = dir[f]}
          /\ Made' = {f \in Files : dir'[f] # None /\ child'[p].out = dir'[f]}
      BY <1>12, Zenon DEF View
    <2> QED
      BY <1>1, <1>5, <1>7, <2>1, <2>2, ShellAssumption DEF ShellAssumption
  <1>16. Contents' = Contents
    <2>1. \A f \in Files : shown(f) = f /\ shown(f)' = f
      BY <1>12, <1>13 DEF View
    <2> DEFINE D == {g \in Files : dir[shown(g)] # None}
               E == {g \in Files : dir'[shown(g)'] # None}
    <2>2. Contents = [f \in D |-> data[dir[shown(f)]]]
      BY <1>12, Zenon DEF View
    <2>3. Contents' = [f \in E |-> data'[dir'[shown(f)']]]
      BY <1>12, Zenon DEF View
    <2>4. E = D /\ \A f \in D : data'[dir'[shown(f)']] = data[dir[shown(f)]]
      BY <1>1, <2>1
    <2> HIDE DEF D, E
    <2> QED
      BY <2>2, <2>3, <2>4
  <1>24. Onto = FALSE /\ Cut = FALSE /\ Cut' = FALSE
    BY <1>5, <1>7, <1>12 DEF View, InFront, WasKilled, Runs
  <1>17. CASE w = <<>>
    <2>1. Onto' = FALSE
      BY <1>3, <1>7, <1>12, <1>17 DEF View, InFront, Runs
    <2> QED
      BY <1>12, <1>14, <1>15, <1>16, <1>17, <1>24, <2>1 DEF Maps, Unseen
  <1>18. CASE w # <<>>
    <2>2. Onto' = (e = TRUE /\ legal(w))
      BY <1>3, <1>7, <1>12, <1>18 DEF View, InFront, Runs
    <2>3. DOMAIN Contents = {f \in Files : dir[f] # None}
      <3>1. \A f \in Files : shown(f) = f
        BY <1>12, <1>13 DEF View
      <3> DEFINE D == {g \in Files : dir[shown(g)] # None}
      <3>2. D = {f \in Files : dir[f] # None}
        BY <3>1
      <3>3. Contents = [f \in D |-> data[dir[shown(f)]]]
        BY <1>12, Zenon DEF View
      <3> HIDE DEF D
      <3> QED
        BY <3>2, <3>3
    <2>4. RedirectedTo(w) \in Files => legal(w)
      BY ShellAssumption DEF RedirectedTo, ShellAssumption, Files
    <2>5. Onto' = (IsPrepend(w) /\ RedirectedTo(w) \in DOMAIN Contents)
      <3>1. (e = TRUE /\ legal(w)) <=> (IsPrepend(w) /\ RedirectedTo(w) \in DOMAIN Contents)
        BY <1>21, <2>3, <2>4
      <3> QED
        BY <2>2, <3>1
    <2>1. Promise!Begin
      BY <1>14, <1>15, <1>16, <1>18, <1>24, <2>5 DEF Promise!Begin, Promise!Idle
    <2> QED
      BY <1>12, <2>1 DEF Maps, Promise!Next
  <1> QED
    BY <1>17, <1>18

LEMMA NoCd ==
  ASSUME NEW p \in Shells, alone, scene \in Scenes, NEW c \in Commands, NEW w \in as_read(p, c)
  PROVE  w = <<>> \/ w[1] # "cd"
  <1>1. c \in Seq(STRING) /\ word(c, 1) # "cd"
    BY ShellAssumption DEF ShellAssumption, alone, Commands
  <1>2. c = <<>> \/ (1 \in DOMAIN c /\ c[1] # "cd")
    BY <1>1 DEF word
  <1>3. CASE w = c
    BY <1>2, <1>3
  <1>4. CASE w = Append(c, Leftover)
    <2>1. c \in Seq(Words) /\ Leftover \in Words /\ Leftover # "cd"
      BY <1>1 DEF Words, Leftover
    <2> HIDE DEF Leftover
    <2>2. w[1] = IF c = <<>> THEN Leftover ELSE c[1]
      BY <1>4, <2>1
    <2> QED
      BY <1>2, <2>1, <2>2
  <1>5. CASE c # <<>> /\ w = [c EXCEPT ![Len(c)] = Leftover]
    <2>1. w[1] \in {c[1], Leftover} /\ Leftover # "cd"
      BY <1>1, <1>5 DEF Leftover
    <2> QED
      BY <1>2, <1>5, <2>1
  <1> QED
    BY <1>3, <1>4, <1>5 DEF as_read

LEMMA CommandSeen ==
  ASSUME NEW p \in Shells, Here(p), UNCHANGED scene, IInv', Command(p)
  PROVE  Solo(p)' /\ Maps
  <1>1. /\ sh[p].pc = "idle" /\ sh[p] \in Parents /\ child[p].st = "done" /\ ~CanFail
        /\ scene \in Scenes /\ alone
    BY DEF Command, Here, IInv, Typed, Solo, Settled, alone
  <1>2. PICK w \in UNION {as_read(p, c) : c \in Commands} :
          IF format_redirection(w) = -2
          THEN /\ sh' = [sh EXCEPT ![p].given = @ + 1]
               /\ UNCHANGED <<dir, data, child>>
          ELSE BuiltIn(p, w) \/ Fork(p, w) \/ ForkFails(p, w)
    BY DEF Command
  <1>3. PICK c \in Commands : w \in as_read(p, c)
    BY <1>2
  <1>4. w \in Seq(Words) /\ \A i \in DOMAIN w : w[i] \notin Scratch
    BY <1>1, <1>3, ReadWords DEF Commands
  <1>5. CASE sh' = [sh EXCEPT ![p].given = @ + 1] /\ UNCHANGED <<dir, data, child>>
    <2> DEFINE r == [sh[p] EXCEPT !.given = @ + 1]
    <2>1. sh' = [sh EXCEPT ![p] = r]
      BY <1>5
    <2>2. r \in Parents /\ r.pc = "idle" /\ r.words = sh[p].words /\ r.cwd = sh[p].cwd
      BY <1>1, GivenMore
    <2> HIDE DEF r
    <2> QED
      BY <1>1, <1>5, <2>1, <2>2, IdleSeen
  <1>6. CASE gone(p) /\ UNCHANGED <<dir, data, child>>
    <2> DEFINE r == [sh[p] EXCEPT !.pc = "gone", !.tmp = None, !.adv = None, !.new = None]
    <2>1. sh' = [sh EXCEPT ![p] = r]
      BY <1>6 DEF gone
    <2>2. r \in Parents /\ r.pc = "gone" /\ r.words = sh[p].words /\ r.cwd = sh[p].cwd
      BY <1>1, GoneParent
    <2> HIDE DEF r
    <2> QED
      BY <1>1, <1>6, <2>1, <2>2, IdleSeen
  <1>7. CASE BuiltIn(p, w)
    <2>1. w # <<>> /\ w[1] # "cd"
      BY <1>1, <1>3, <1>7, NoCd DEF BuiltIn
    <2>2. /\ UNCHANGED <<dir, data, child>>
          /\ gone(p) \/ sh' = [sh EXCEPT ![p].given = @ + 1]
      BY <1>7, <2>1 DEF BuiltIn
    <2> QED
      BY <1>5, <1>6, <2>2
  <1>8. CASE Fork(p, w) /\ format_redirection(w) # -2
    BY <1>1, <1>4, <1>8, ForkSeen
  <1> QED
    BY <1>1, <1>2, <1>5, <1>7, <1>8 DEF ForkFails

LEMMA MergeSeen ==
  ASSUME NoEof, NEW p \in Shells, Here(p), MergeInv, UNCHANGED scene, IInv', Merge(p)
  PROVE  Solo(p)' /\ Maps
  BY OpensSeen, OpenNewSeen, CopySeen, CloseSeen, RemoveAdvSeen, RemoveTmpSeen, RenameSeen
     DEF Merge

\* A shell that another command beside it or a crash may disturb shows nothing.
LEMMA NotAlone ==
  ASSUME ~alone, UNCHANGED scene
  PROVE  Unseen
  <1>1. ~alone'
    BY DEF alone, Together, CanCrash, CanFail, Actors, Commands
  <1>2. Running = <<>> /\ Running' = <<>>
    BY <1>1 DEF Running
  <1>3. Made = {} /\ Made' = {}
    BY <1>1 DEF Made
  <1>4. Merged = FALSE /\ Merged' = FALSE
    BY <1>1, Zenon DEF Merged
  <1>7. Onto = FALSE /\ Onto' = FALSE
    BY <1>2, Zenon DEF Onto
  <1>8. Cut = FALSE /\ Cut' = FALSE
    BY <1>2, Zenon DEF Cut
  <1>5. Contents = [f \in {} |-> <<>>]
    <2>1. {g \in Files : alone /\ dir[shown(g)] # None} = {}
      OBVIOUS
    <2>2. \A f \in {} : data[dir[shown(f)]] = <<>>
      OBVIOUS
    <2> QED
      BY <2>1 DEF Contents
  <1>6. Contents' = [f \in {} |-> <<>>]
    <2>1. {g \in Files : alone' /\ dir'[shown(g)'] # None} = {}
      BY <1>1
    <2> QED
      BY <2>1 DEF Contents
  <1> QED
    BY <1>2, <1>3, <1>4, <1>5, <1>6, <1>7, <1>8 DEF Unseen

LEMMA InitSolo == Init => SoloInv /\ Promise!Init
  <1> SUFFICES ASSUME Init PROVE SoloInv /\ Promise!Init
    OBVIOUS
  <1>1. /\ \A q \in Shells : /\ sh[q].pc = "unborn" /\ sh[q].cwd = Home /\ sh[q].words = <<>>
                             /\ child[q].st = "done" /\ child[q].out = Tty
        /\ \A n \in Names : dir[n] = None
    BY DEF Init, Parent, NoChild
  <1>2. Tmp \in Names
    BY ShellAssumption DEF ShellAssumption, Tmp, Names, Scratch
  <1>3. ASSUME NEW p \in Shells PROVE Solo(p)
    <2>1. Settled(p) /\ Asked(p) /\ Opening(p)
      BY <1>1 DEF Settled, Asked, Opening, Merges, Merging
    <2>2. Writing(p) /\ TmpHeld(p) /\ Combined(p)
      BY <1>1, <1>2 DEF Writing, TmpHeld, Combined, Renames
    <2>3. Whole(p) /\ Present(p)
      BY <1>1 DEF Whole, Present, BeforeMerge
    <2> QED
      BY <2>1, <2>2, <2>3 DEF Solo
  <1>4. SoloInv
    BY <1>3 DEF SoloInv
  <1>5. Running = <<>>
    <2>1. Busy = {}
      BY <1>1 DEF Busy
    <2> QED
      BY <2>1 DEF Running
  <1>6. \A f \in Files : Renaming(f) = {} /\ shown(f) = f /\ dir[f] = None
    BY <1>1 DEF Renaming, shown, Files, Names
  <1>7. Made = {}
    BY <1>6 DEF Made
  <1>8. Merged = FALSE
    <2>1. ~(alone /\ \E f \in Files : Renaming(f) # {})
      BY <1>6
    <2> QED
      BY <2>1, Zenon DEF Merged
  <1>9. Contents = [f \in {} |-> <<>>]
    <2>1. {g \in Files : alone /\ dir[shown(g)] # None} = {}
      BY <1>6
    <2> QED
      BY <2>1 DEF Contents
  <1>10. Onto = FALSE /\ Cut = FALSE
    BY <1>5, Zenon DEF Onto, Cut
  <1> QED
    BY <1>4, <1>5, <1>7, <1>8, <1>9, <1>10 DEF Promise!Init, Promise!Idle

LEMMA SoloStep ==
  ASSUME NoEof, IInv, IInv', MergeInv, SoloInv, [Next]_vars
  PROVE  SoloInv' /\ Maps
  <1>1. CASE ~alone /\ UNCHANGED scene
    <2>1. ~alone'
      BY <1>1 DEF alone, Together, CanCrash, CanFail, Actors, Commands
    <2> QED
      BY <1>1, <2>1, NotAlone DEF SoloInv, Maps
  <1>2. ASSUME NEW p \in Shells, Actors = {p}, alone, UNCHANGED scene
        PROVE  SoloInv' /\ Maps
    <2>1. Here(p)
      BY <1>2 DEF SoloInv, Here
    <2>2. Actors' = {p} /\ \A q \in Shells \ {p} : Actors' # {q}
      BY <1>2 DEF Actors
    <2>3. SUFFICES Solo(p)' /\ Maps
      BY <2>2 DEF SoloInv
    <2>4. CASE UNCHANGED vars
      <3>1. Solo(p)'
        <4>1. Settled(p)' /\ Asked(p)' /\ Opening(p)'
          BY <2>1, <2>4 DEF vars, Here, Solo, Settled, Asked, Opening, Merges
        <4>2. Writing(p)' /\ TmpHeld(p)'
          BY <2>1, <2>4 DEF vars, Here, Solo, Writing, TmpHeld
        <4>3. Combined(p)'
          BY <2>1, <2>4 DEF vars, Here, Solo, Combined, Renames, target, path
        <4>4. Whole(p)' /\ Present(p)'
          BY <2>1, <2>4 DEF vars, Here, Solo, Whole, Present
        <4> QED
          BY <4>1, <4>2, <4>3, <4>4 DEF Solo
      <3>2. View(p) /\ View(p)'
        BY <1>2, <2>1, <3>1, StaysHere
      <3>3. /\ Running' = Running /\ Made' = Made /\ Renames(p)' = Renames(p)
            /\ target(p)' = target(p)
        BY <2>4, <3>2 DEF vars, View, Renames, target, path
      <3>5. InFront(p)' = InFront(p) /\ WasKilled(p)' = WasKilled(p)
        BY <2>4 DEF vars, InFront, WasKilled, Runs
      <3>4. Unseen
        <4>1. \A f \in Files : /\ dir'[shown(f)] = dir[shown(f)]
                               /\ data'[dir[shown(f)]] = data[dir[shown(f)]]
          BY <2>4 DEF vars
        <4> QED
          BY <3>2, <3>3, <3>5, <4>1, NotSeen
      <3> QED
        BY <3>1, <3>4 DEF Maps
    <2>5. CASE Next
      <3>1. ASSUME NEW q \in Shells \ {p} PROVE ~Start(q) /\ ~Act(q)
        <4>1. ~Start(q)
          BY <1>2, <3>1 DEF Start
        <4>2. ~Active(q)
          BY <2>1, <3>1 DEF Here, Solo, Settled, Active
        <4> QED
          BY <3>1, <4>1, <4>2, ActsAreActive
      <3>2. ASSUME NEW q \in Shells, Continue(q) PROVE Solo(p)' /\ Maps
        BY <1>2, <2>1, <3>2, SignalSeen DEF Continue
      <3>3. CASE Stop(p)
        BY <1>2, <2>1, <3>3, SignalSeen DEF Stop
      <3>4. CASE Start(p) \/ Command(p) \/ Wait(p) \/ Merge(p)
        BY <1>2, <2>1, <3>4, StartSeen, CommandSeen, WaitSeen, MergeSeen
      <3>5. CASE ChildStep(p) \/ Kill(p)
        BY <1>2, <2>1, <3>5, ChildStepSeen
      <3>6. ~Crash(p)
        BY <1>2 DEF Crash, alone
      <3>7. PICK q \in Shells : \/ Start(q) \/ Act(q) \/ Continue(q)
        BY <2>5 DEF Next, Act
      <3>8. CASE q = p
        BY <3>2, <3>3, <3>4, <3>5, <3>6, <3>7, <3>8 DEF Act
      <3>9. CASE q # p
        BY <3>1, <3>2, <3>7, <3>9
      <3> QED
        BY <3>8, <3>9
    <2> QED
      BY <2>4, <2>5
  <1>3. UNCHANGED scene
    BY DEF Next, vars
  <1>4. alone => \E p \in Shells : Actors = {p}
    BY DEF alone
  <1> QED
    BY <1>1, <1>2, <1>3, <1>4

\* run_cmd and redirection (myshell.c:108-308) of one shell that nobody kills, whose
\* forks and writes succeed, whose commands change no directory and whose programs
\* never write the byte 0xFF (in any other scene the mapped variables stay as they
\* are, and the theorem says nothing):
\* whatever the commands and whenever a child is killed, a file is made and filled
\* as the command prints, or has the output put in front of it in one step, and
\* nothing else happens to it; and unless its program was killed, a command does
\* not end before the whole of its output is there.
THEOREM IsRedirections == ASSUME NoEof PROVE Spec => RedirectionSpec
  <1>1. IInv /\ MergeInv /\ [Next]_vars => MergeInv'
    BY MergeInvStep
  <1>2. Spec => []MergeInv
    BY <1>1, InitMergeInv, Inductive, PTL DEF Spec
  <1>3. IInv /\ IInv' /\ MergeInv /\ SoloInv /\ [Next]_vars =>
           SoloInv' /\ [Promise!Next]_<<Contents, Running, Onto, Made, Merged, Cut>>
    BY SoloStep DEF Maps, Unseen
  <1>4. Promise!vars = <<Contents, Running, Onto, Made, Merged, Cut>>
    BY DEF Promise!vars
  <1> QED
    BY <1>2, <1>3, <1>4, InitSolo, Inductive, PTL DEF Spec, RedirectionSpec, Promise!Spec, Promise!vars
============================================================================
