----------------------------- MODULE InputProof -----------------------------
(***************************************************************************)
(* Proofs about the two readers of myshell.c, for files, buffers and       *)
(* commands of every length: batch_mode passes over no byte, and gives     *)
(* run_cmd the lines of a file in order, once and whole, when no child of  *)
(* it fails or when it is like the test suite's; format_redirection writes *)
(* behind its memory only for a command that is refused.                   *)
(*                                                                         *)
(* A property of what ran alone is not inductive: what is read next hangs  *)
(* on the stream's buffer, on the part of a line that getline holds and on *)
(* the offset in the file, which a child that fails moves back under the   *)
(* parent.  The invariant says where the reader is: behind the line base,  *)
(* with the bytes it holds being the beginning of the next one.            *)
(***************************************************************************)
EXTENDS ShellInput, TLAPS

runnable(n) == script[n] # "skipped"

\* The types that the steps use; the window of the stream lies in the file, and
\* the offset is not past its end.
BatchType ==
    /\ script \in Seq(Kinds) /\ ends \in Seq(Nat) /\ Len(ends) = Len(script)
    /\ \A k \in 1..Len(ends) : 0 < ends[k]
    /\ \A k, m \in 1..Len(ends) : k < m => ends[k] < ends[m]
    /\ BufSize \in Nat \ {0}
    /\ offset \in Nat /\ next \in Nat /\ limit \in Nat /\ got \in Nat
    /\ next <= limit /\ limit <= size /\ offset <= limit
    /\ ran \in Seq(Nat)

\* Where line base ends.
pos(base) == IF base = 0 THEN 0 ELSE ends[base]

\* The reader is behind line base: what getline holds begins there, and is not
\* a whole line.
Behind(base) ==
    /\ torn = FALSE /\ got <= next /\ next - got = pos(base)
    /\ got > 0 => /\ base < Len(script)
                  /\ \/ next < ends[base + 1]
                     \/ base + 1 = Len(script) /\ ~closed /\ next = size

\* Every line up to base that can be run has been given to run_cmd.
AllRan(base) == \A n \in 1..base :
                   runnable(n) => \E m \in 1..Len(ran) : ran[m] = n

\* What has been given to run_cmd are lines of the file, each after all
\* those before it.
InOrder == \A k \in 1..Len(ran) :
              /\ ran[k] \in 1..Len(script) /\ runnable(ran[k])
              /\ \A n \in 1..(ran[k] - 1) :
                    runnable(n) => \E m \in 1..(k - 1) : ran[m] = n

\* Lines up to base, each once and upwards.
Ascending(base) == \A k \in 1..Len(ran) : /\ ran[k] <= base
                                          /\ \A m \in 1..(k - 1) :
                                                ran[m] < ran[k]

\* Where the order is promised.
Orderly == LikeTheTests \/ NoneFails
UpTo(base) == Behind(base) /\ AllRan(base) /\ InOrder /\ Ascending(base)

\* When no child fails, the offset stays where the stream left it.
NotMoved == NoneFails => offset = limit /\ ~fails

\* A file like the tests' is read at once, and its last line ends the shell.
Fresh == offset = 0 /\ next = 0 /\ limit = 0 /\ got = 0 /\ children = 0
AtOnce == LikeTheTests => \/ Fresh
                          \/ limit = size /\ (next = limit => over)

BatchInv == /\ BatchType /\ NotMoved /\ AtOnce
            /\ Orderly => \E base \in 0..Len(script) : UpTo(base)

----------------------------------------------------------------------------
\* The lines of a file lie one behind the other.
LEMMA Places ==
  ASSUME BatchType
  PROVE  /\ Len(script) \in Nat /\ Len(ends) = Len(script) /\ size \in Nat
         /\ \A k \in 1..Len(script) : ends[k] \in Nat
         /\ \A k \in 0..Len(script) : pos(k) \in Nat /\ pos(k) <= size
         /\ \A k, m \in 0..Len(script) : k < m => pos(k) < pos(m)
         /\ \A k \in 1..Len(script) : begins(k) = pos(k - 1) /\ ends[k] = pos(k)
         /\ size = pos(Len(script))
<1> DEFINE L == Len(script)
<1>1. /\ L \in Nat /\ Len(ends) = L /\ \A k \in 1..L : ends[k] \in Nat /\ 0 < ends[k]
      /\ \A k, m \in 1..L : k < m => ends[k] < ends[m]
  BY DEF BatchType
<1>2. ends = <<>> <=> L = 0
  BY DEF BatchType
<1>3. size = pos(L)
  <2>1. CASE L = 0
    BY <1>2, <2>1 DEF size, pos
  <2>2. CASE L # 0
    <3>1. ends # <<>> /\ size = ends[Len(ends)]
      BY <1>2, <2>2 DEF size, Last
    <3> QED
      BY <1>1, <2>2, <3>1 DEF pos
  <2> QED
    BY <2>1, <2>2
<1> HIDE DEF L
<1>4. \A k, m \in 0..L : k < m => pos(k) < pos(m)
  BY <1>1 DEF pos
<1>5. \A k \in 0..L : pos(k) \in Nat /\ pos(k) <= pos(L)
  <2> SUFFICES ASSUME NEW k \in 0..L PROVE pos(k) \in Nat /\ pos(k) <= pos(L)
    OBVIOUS
  <2>1. pos(k) \in Nat /\ pos(L) \in Nat
    BY <1>1 DEF pos
  <2>2. CASE k = L
    BY <2>1, <2>2
  <2>3. CASE k < L
    <3>1. L \in 0..L
      BY <1>1
    <3>2. pos(k) < pos(L)
      BY <1>4, <2>3, <3>1
    <3> QED
      BY <2>1, <3>2
  <2> QED
    BY <1>1, <2>2, <2>3
<1>6. \A k \in 1..L : begins(k) = pos(k - 1) /\ ends[k] = pos(k)
  BY <1>1 DEF begins, pos
<1>7. size \in Nat
  <2>1. L \in 0..L
    BY <1>1
  <2> QED
    BY <1>3, <1>5, <2>1
<1> QED
  BY <1>1, <1>3, <1>4, <1>5, <1>6, <1>7 DEF L

\* At the start nothing has been read.
LEMMA InitInv == InputInit => BatchInv
<1> SUFFICES ASSUME InputInit PROVE BatchInv
  OBVIOUS
<1>1. /\ BatchInit /\ offset = 0 /\ next = 0 /\ limit = 0 /\ got = 0 /\ torn = FALSE
      /\ children = 0 /\ fails = FALSE /\ ran = <<>>
  BY DEF InputInit, BatchInit
<1>2. BufSize \in Nat \ {0}
  BY <1>1, BatchAssumption DEF BatchInit
<1>3. PICK n \in 0..MaxLines :
        /\ script \in [1..n -> Kinds]
        /\ ends \in {e \in [1..n -> 1..MaxBytes] :
                        \A k, m \in 1..n : k < m => e[k] < e[m]}
  BY <1>1 DEF BatchInit
<1>4. n \in Nat /\ MaxBytes \in Nat
  BY <1>3, BatchAssumption
<1>5. /\ script \in Seq(Kinds) /\ Len(script) = n
      /\ ends \in Seq(Nat) /\ Len(ends) = n
      /\ \A k \in 1..n : 0 < ends[k]
      /\ \A k, m \in 1..n : k < m => ends[k] < ends[m]
  <2>1. ends \in [1..n -> 1..MaxBytes] /\ \A k, m \in 1..n : k < m => ends[k] < ends[m]
    BY <1>3
  <2>2. \A k \in 1..n : ends[k] \in Nat /\ 0 < ends[k]
    BY <1>4, <2>1
  <2>3. ends \in [1..n -> Nat]
    BY <2>1, <2>2
  <2>4. ends \in Seq(Nat) /\ Len(ends) = n
    BY <1>4, <2>3
  <2>5. script \in Seq(Kinds) /\ Len(script) = n
    BY <1>3, <1>4
  <2> QED
    BY <2>1, <2>2, <2>4, <2>5
<1>6. size \in Nat
  BY <1>4, <1>5 DEF size, Last
<1>7. BatchType
  BY <1>1, <1>2, <1>5, <1>6 DEF BatchType
<1>8. NotMoved /\ AtOnce
  BY <1>1 DEF NotMoved, AtOnce, Fresh
<1>9. 0 \in 0..Len(script) /\ UpTo(0)
  BY <1>1, <1>4, <1>5 DEF UpTo, Behind, AllRan, InOrder, Ascending, pos
<1> QED
  BY <1>7, <1>8, <1>9 DEF BatchInv

----------------------------------------------------------------------------
\* One more line run keeps the order.
LEMMA RunKeepsOrder ==
  ASSUME BatchType, InOrder, NEW base \in Nat, AllRan(base),
         base + 1 \in 1..Len(script), runnable(base + 1),
         ran' = Append(ran, base + 1), script' = script
  PROVE  InOrder' /\ AllRan(base + 1)'
<1> DEFINE L == Len(ran)
<1>1. ran \in Seq(Nat) /\ L \in Nat
  BY DEF BatchType
<1>2. /\ Len(ran') = L + 1 /\ ran'[L + 1] = base + 1
      /\ \A k \in 1..L : ran'[k] = ran[k]
  BY <1>1
<1>3. ASSUME NEW n \in 1..base, runnable(n)
      PROVE  \E m \in 1..L : ran'[m] = n
  <2>1. PICK m \in 1..L : ran[m] = n
    BY <1>3 DEF AllRan
  <2> QED
    BY <2>1, <1>2
<1> HIDE DEF L
<1>4. AllRan(base + 1)'
  <2> SUFFICES ASSUME NEW n \in 1..(base + 1), runnable(n)
               PROVE  \E m \in 1..Len(ran') : ran'[m] = n
    BY DEF AllRan, runnable
  <2>1. CASE n = base + 1
    BY <2>1, <1>1, <1>2
  <2>2. CASE n \in 1..base
    <3>1. PICK m \in 1..L : ran'[m] = n
      BY <2>2, <1>3
    <3>2. m \in 1..Len(ran')
      BY <1>1, <1>2, <3>1
    <3> QED
      BY <3>1, <3>2
  <2> QED
    BY <2>1, <2>2
<1>5. InOrder'
  <2> SUFFICES ASSUME NEW k \in 1..(L + 1)
               PROVE  /\ ran'[k] \in 1..Len(script) /\ runnable(ran'[k])
                      /\ \A n \in 1..(ran'[k] - 1) :
                            runnable(n) => \E m \in 1..(k - 1) : ran'[m] = n
    <3>1. script' = script /\ Len(ran') = L + 1
      BY <1>2
    <3> QED
      BY <3>1 DEF InOrder, runnable
  <2>1. CASE k = L + 1
    <3>1. ran'[k] = base + 1 /\ k - 1 = L /\ (base + 1) - 1 = base
      BY <2>1, <1>1, <1>2
    <3> QED
      BY <3>1, <1>3
  <2>2. CASE k \in 1..L
    <3>1. /\ ran[k] \in 1..Len(script) /\ runnable(ran[k])
          /\ \A n \in 1..(ran[k] - 1) :
                runnable(n) => \E m \in 1..(k - 1) : ran[m] = n
      BY <2>2 DEF InOrder, L
    <3>2. ran'[k] = ran[k] /\ 1..(k - 1) \subseteq 1..L
      BY <2>2, <1>1, <1>2
    <3>3. 1..(ran'[k] - 1) = 1..(ran[k] - 1)
      BY <3>2
    <3>4. \A m \in 1..(k - 1) : ran'[m] = ran[m]
      BY <3>2, <1>2
    <3>5. ASSUME NEW n \in 1..(ran'[k] - 1), runnable(n)
          PROVE  \E m \in 1..(k - 1) : ran'[m] = n
      <4>1. PICK m \in 1..(k - 1) : ran[m] = n
        BY <3>1, <3>3, <3>5
      <4> QED
        BY <3>4, <4>1
    <3> QED
      BY <3>1, <3>2, <3>5
  <2>3. k = L + 1 \/ k \in 1..L
    BY <1>1
  <2> QED
    BY <2>1, <2>2, <2>3
<1> QED
  BY <1>4, <1>5

\* One more line run keeps the lines ascending.
LEMMA RunAscends ==
  ASSUME BatchType, NEW base \in Nat, Ascending(base),
         ran' = Append(ran, base + 1)
  PROVE  Ascending(base + 1)'
<1> DEFINE L == Len(ran)
<1>1. /\ ran \in Seq(Nat) /\ L \in Nat /\ \A k \in 1..L : ran[k] \in Nat
  BY DEF BatchType
<1>2. /\ Len(ran') = L + 1 /\ ran'[L + 1] = base + 1
      /\ \A k \in 1..L : ran'[k] = ran[k]
  BY <1>1
<1>3. \A k \in 1..L : ran[k] <= base /\ \A m \in 1..(k - 1) : ran[m] < ran[k]
  BY DEF Ascending
<1> HIDE DEF L
<1> SUFFICES ASSUME NEW k \in 1..(L + 1)
             PROVE  /\ ran'[k] <= base + 1
                    /\ \A m \in 1..(k - 1) : ran'[m] < ran'[k]
  BY <1>2 DEF Ascending
<1> k \in Nat
  BY <1>1
<1>4. /\ base + 1 <= base + 1
      /\ \A x \in Nat : x <= base => x < base + 1 /\ x <= base + 1
  OBVIOUS
<1>5. CASE k = L + 1
  <2>1. 1..(k - 1) = 1..L /\ ran'[k] = base + 1
    BY <1>1, <1>2, <1>5
  <2>2. ASSUME NEW m \in 1..L PROVE ran'[m] < base + 1
    <3>1. ran'[m] = ran[m] /\ ran[m] \in Nat /\ ran[m] <= base
      BY <1>1, <1>2, <1>3
    <3> QED
      BY <1>4, <3>1
  <2>3. ran'[k] <= base + 1
    BY <1>4, <2>1
  <2>4. ASSUME NEW m \in 1..(k - 1) PROVE ran'[m] < ran'[k]
    BY <2>1, <2>2
  <2> QED
    BY <2>3, <2>4
<1>6. CASE k \in 1..L
  <2>1. ran'[k] = ran[k] /\ ran[k] \in Nat /\ ran[k] <= base
    BY <1>1, <1>2, <1>3, <1>6
  <2>2. ASSUME NEW m \in 1..(k - 1) PROVE ran'[m] < ran'[k]
    <3>1. m \in 1..L
      BY <1>1, <1>6
    <3>2. ran'[m] = ran[m] /\ ran[m] < ran[k]
      BY <1>2, <1>3, <1>6, <3>1
    <3> QED
      BY <2>1, <3>2
  <2>3. ran'[k] <= base + 1
    BY <1>4, <2>1
  <2> QED
    BY <2>2, <2>3
<1>7. k = L + 1 \/ k \in 1..L
  BY <1>1
<1> QED
  BY <1>5, <1>6, <1>7

\* The file does not change.
LEMMA SameFile ==
  ASSUME BatchType, UNCHANGED file
  PROVE  /\ script' = script /\ ends' = ends /\ closed' = closed /\ BufSize' = BufSize
         /\ size' = size /\ \A k \in 0..Len(script) : pos(k)' = pos(k)
         /\ LikeTheTests' = LikeTheTests /\ NoneFails' = NoneFails
         /\ Orderly' = Orderly
<1>1. script' = script /\ ends' = ends /\ closed' = closed /\ BufSize' = BufSize
  BY DEF file
<1>2. size' = size
  BY <1>1 DEF size
<1>3. \A k \in 0..Len(script) : pos(k)' = pos(k)
  BY <1>1 DEF pos
<1>4. LikeTheTests' = LikeTheTests /\ NoneFails' = NoneFails
  BY <1>1, <1>2 DEF LikeTheTests, NoneFails
<1> QED
  BY <1>1, <1>2, <1>3, <1>4 DEF Orderly

\* A reader behind base that finds a line's end in its buffer is at the line
\* after base; so is one that has come to the end of the file with a part.
LEMMA NextLine ==
  ASSUME BatchType, NEW base \in 0..Len(script), Behind(base),
         NEW k \in DOMAIN ends,
         InBuffer(k) \/ (AtEOF /\ got > 0 /\ k = Len(ends))
  PROVE  k = base + 1 /\ is_line(k) /\ ends[k] <= limit /\ next <= ends[k]
<1> DEFINE L == Len(script)
<1>1. /\ L \in Nat /\ Len(ends) = L /\ k \in 1..L /\ size = pos(L)
      /\ \A b \in 0..L : pos(b) \in Nat /\ pos(b) <= size
      /\ \A b, c \in 0..L : b < c => pos(b) < pos(c)
      /\ \A b \in 1..L : begins(b) = pos(b - 1) /\ ends[b] = pos(b)
      /\ ends \in Seq(Nat)
  <2>1. ends \in Seq(Nat) /\ Len(ends) = L
    BY Places DEF BatchType
  <2>2. k \in 1..L
    BY <2>1
  <2>3. /\ L \in Nat /\ size = pos(L)
        /\ \A b \in 0..L : pos(b) \in Nat /\ pos(b) <= size
        /\ \A b \in 1..L : begins(b) = pos(b - 1) /\ ends[b] = pos(b)
    BY Places, Zenon
  <2>4. \A b, c \in 0..L : b < c => pos(b) < pos(c)
    BY Places, Zenon
  <2> QED
    BY <2>1, <2>2, <2>3, <2>4, Zenon
<1>2. /\ next \in Nat /\ got \in Nat /\ limit \in Nat /\ offset \in Nat
      /\ next <= limit /\ limit <= size /\ offset <= limit
  BY DEF BatchType
<1>3. /\ torn = FALSE /\ got <= next /\ next - got = pos(base)
      /\ got > 0 => /\ base < L
                    /\ \/ next < ends[base + 1]
                       \/ base + 1 = L /\ ~closed /\ next = size
  BY DEF Behind
<1> HIDE DEF L
<1>4. \A b, c \in 0..L : pos(b) < pos(c) => b < c
  <2> SUFFICES ASSUME NEW b \in 0..L, NEW c \in 0..L, pos(b) < pos(c), ~(b < c)
               PROVE  FALSE
    OBVIOUS
  <2>1. pos(b) \in Nat /\ pos(c) \in Nat
    BY <1>1
  <2>2. CASE b = c
    BY <2>1, <2>2
  <2>3. CASE c < b
    <3>1. pos(c) < pos(b)
      BY <1>1, <2>3
    <3> QED
      BY <2>1, <3>1
  <2> QED
    BY <1>1, <2>2, <2>3
<1>5. base \in 0..L /\ base \in Nat /\ k \in Nat /\ k \in 0..L /\ k - 1 \in 0..L
      /\ pos(base) \in Nat /\ pos(k) \in Nat /\ pos(k - 1) \in Nat
  <2>1. base \in 0..L
    BY DEF L
  <2>2. k \in Nat /\ k \in 0..L /\ k - 1 \in 0..L
    BY <1>1
  <2> QED
    BY <1>1, <2>1, <2>2
<1>6. CASE InBuffer(k)
  <2>1. next < limit /\ pos(k - 1) <= next /\ next < pos(k) /\ pos(k) <= limit
    BY <1>1, <1>6 DEF InBuffer
  <2>2. base < k
    <3>1. pos(base) <= next
      BY <1>2, <1>3, <1>5
    <3>2. pos(base) < pos(k)
      BY <1>2, <1>5, <2>1, <3>1
    <3> QED
      BY <1>4, <1>5, <3>2
  <2>3. k <= base + 1
    <3>1. CASE got = 0
      <4>1. next = pos(base)
        BY <1>2, <1>3, <1>5, <3>1
      <4>2. ~(base < k - 1)
        BY <1>1, <1>5, <2>1, <4>1
      <4> QED
        BY <1>5, <4>2
    <3>2. CASE got > 0
      <4>1. base < L /\ next < ends[base + 1]
        BY <1>2, <1>3, <2>1, <3>2
      <4>2. base + 1 \in 1..L /\ base + 1 \in 0..L
        BY <1>1, <1>5, <4>1
      <4>3. pos(k - 1) < pos(base + 1)
        BY <1>1, <1>2, <1>5, <2>1, <4>1, <4>2
      <4>4. k - 1 < base + 1
        BY <1>4, <1>5, <4>2, <4>3
      <4> QED
        BY <1>5, <4>4
    <3> QED
      BY <1>2, <3>1, <3>2
  <2>4. k = base + 1
    BY <1>5, <2>2, <2>3
  <2>5. is_line(k)
    BY <1>1, <1>3, <1>5, <2>4 DEF is_line
  <2> QED
    BY <1>1, <1>2, <1>5, <2>1, <2>4, <2>5
<1>7. CASE AtEOF /\ got > 0 /\ k = Len(ends)
  <2>1. next = limit /\ limit = size /\ k = L
    BY <1>1, <1>2, <1>7 DEF AtEOF
  <2>2. base + 1 = L
    <3>1. base < L /\ base + 1 \in 0..L /\ base + 1 \in 1..L
      BY <1>1, <1>3, <1>5, <1>7
    <3>2. ends[base + 1] <= size
      BY <1>1, <3>1
    <3>3. ~(next < ends[base + 1])
      BY <1>1, <1>2, <2>1, <3>1, <3>2
    <3> QED
      BY <1>3, <1>7, <3>3
  <2>3. is_line(k)
    BY <1>1, <1>3, <1>5, <2>1, <2>2 DEF is_line
  <2> QED
    BY <1>1, <1>2, <1>5, <2>1, <2>2, <2>3
<1> QED
  BY <1>6, <1>7

----------------------------------------------------------------------------
\* A step that leaves what the reader holds and what ran where they are.
LEMMA StillUpTo ==
  ASSUME BatchType, UNCHANGED <<file, next, got, torn, ran>>
  PROVE  (Orderly => \E base \in 0..Len(script) : UpTo(base))
            => (Orderly => \E base \in 0..Len(script) : UpTo(base))'
<1>1. /\ script' = script /\ ends' = ends /\ closed' = closed /\ size' = size
      /\ \A k \in 0..Len(script) : pos(k)' = pos(k)
      /\ Orderly' = Orderly
  BY SameFile
<1>2. ASSUME NEW base \in 0..Len(script), UpTo(base)
      PROVE  UpTo(base)'
  <2>1. Behind(base)'
    BY <1>1, <1>2 DEF UpTo, Behind
  <2>2. AllRan(base)' /\ InOrder' /\ Ascending(base)'
    BY <1>1, <1>2 DEF UpTo, AllRan, InOrder, Ascending, runnable
  <2> QED
    BY <2>1, <2>2 DEF UpTo
<1> QED
  BY <1>1, <1>2

\* The stream reads on where the offset is: under what is promised, where it
\* had stopped.
LEMMA FillKeeps ==
  ASSUME BatchInv, FillBuffer
  PROVE  BatchInv'
<1>1. /\ ~over /\ children = 0 /\ next = limit /\ offset < size /\ next' = offset
      /\ limit' = IF size - offset < BufSize THEN size ELSE offset + BufSize
      /\ offset' = limit' /\ torn' = (torn \/ (got > 0 /\ offset # next))
      /\ UNCHANGED <<file, got, children, fails, ran, over>>
  BY DEF FillBuffer, Reading
<1>2. BatchType /\ NotMoved /\ AtOnce
      /\ (Orderly => \E base \in 0..Len(script) : UpTo(base))
  BY DEF BatchInv
<1>3. /\ script' = script /\ ends' = ends /\ closed' = closed /\ BufSize' = BufSize
      /\ size' = size /\ \A k \in 0..Len(script) : pos(k)' = pos(k)
      /\ LikeTheTests' = LikeTheTests /\ NoneFails' = NoneFails
      /\ Orderly' = Orderly
  BY <1>1, <1>2, SameFile
<1>4. /\ size \in Nat /\ BufSize \in Nat \ {0} /\ offset \in Nat /\ next \in Nat
      /\ limit \in Nat /\ got \in Nat
  BY <1>2, Places DEF BatchType
<1>5. limit' \in Nat /\ next' \in Nat /\ next' < limit' /\ limit' <= size
  BY <1>1, <1>4
<1>6. BatchType'
  <2>1. /\ script' \in Seq(Kinds) /\ ends' \in Seq(Nat) /\ Len(ends') = Len(script')
        /\ \A k \in 1..Len(ends') : 0 < ends'[k]
        /\ \A k, m \in 1..Len(ends') : k < m => ends'[k] < ends'[m]
        /\ ran' \in Seq(Nat)
    BY <1>1, <1>2, <1>3 DEF BatchType
  <2>2. /\ BufSize' \in Nat \ {0} /\ offset' \in Nat /\ got' \in Nat
        /\ next' <= limit' /\ limit' <= size' /\ offset' <= limit'
    BY <1>1, <1>3, <1>4, <1>5
  <2> QED
    BY <1>5, <2>1, <2>2 DEF BatchType
<1>7. NotMoved'
  BY <1>1, <1>2, <1>3 DEF NotMoved
<1>8. ASSUME LikeTheTests
      PROVE  Fresh /\ limit' = size
  <2>1. Fresh
    BY <1>1, <1>2, <1>8 DEF AtOnce
  <2>2. size <= BufSize
    BY <1>8 DEF LikeTheTests
  <2> QED
    BY <1>1, <1>4, <2>1, <2>2 DEF Fresh
<1>9. AtOnce'
  <2>1. next' # limit'
    BY <1>5
  <2> QED
    BY <1>3, <1>8, <2>1 DEF AtOnce
<1>10. ASSUME Orderly
       PROVE  next' = next /\ (got > 0 => offset = next)
  <2>1. CASE LikeTheTests
    BY <1>1, <1>4, <1>8, <2>1 DEF Fresh
  <2>2. CASE NoneFails
    BY <1>1, <1>2, <2>2 DEF NotMoved
  <2> QED
    BY <1>10, <2>1, <2>2 DEF Orderly
<1>11. ASSUME Orderly
       PROVE  \E base \in 0..Len(script)' : UpTo(base)'
  <2>1. PICK base \in 0..Len(script) : UpTo(base)
    BY <1>2, <1>11
  <2>2. torn' = FALSE
    BY <1>1, <1>10, <1>11, <2>1 DEF UpTo, Behind
  <2>3. UNCHANGED <<next, torn>>
    BY <1>10, <1>11, <2>1, <2>2 DEF UpTo, Behind
  <2>4. Behind(base)'
    BY <1>1, <1>3, <2>1, <2>3 DEF UpTo, Behind
  <2>5. AllRan(base)' /\ InOrder' /\ Ascending(base)'
    BY <1>1, <1>3, <2>1 DEF UpTo, AllRan, InOrder, Ascending, runnable
  <2> QED
    BY <1>3, <2>4, <2>5 DEF UpTo
<1> QED
  BY <1>3, <1>6, <1>7, <1>9, <1>11 DEF BatchInv

\* getline keeps the beginning of a line that the buffer cuts.
LEMMA HoldKeeps ==
  ASSUME BatchInv, HoldPart
  PROVE  BatchInv'
<1>1. /\ ~over /\ children = 0 /\ next < limit
      /\ ~\E k \in DOMAIN ends : InBuffer(k)
      /\ got' = got + (limit - next) /\ next' = limit
      /\ UNCHANGED <<file, offset, limit, torn, children, fails, ran, over>>
  BY DEF HoldPart, Reading
<1>2. BatchType /\ NotMoved /\ AtOnce
      /\ (Orderly => \E base \in 0..Len(script) : UpTo(base))
  BY DEF BatchInv
<1>3. /\ script' = script /\ ends' = ends /\ closed' = closed /\ BufSize' = BufSize
      /\ size' = size /\ \A k \in 0..Len(script) : pos(k)' = pos(k)
      /\ LikeTheTests' = LikeTheTests /\ NoneFails' = NoneFails
      /\ Orderly' = Orderly
  BY <1>1, <1>2, SameFile
<1>4. /\ size \in Nat /\ offset \in Nat /\ next \in Nat /\ limit \in Nat
      /\ got \in Nat /\ limit <= size
  BY <1>2, Places DEF BatchType
<1>5. BatchType'
  BY <1>1, <1>2, <1>3, <1>4 DEF BatchType
<1>6. NotMoved'
  BY <1>1, <1>2, <1>3 DEF NotMoved
<1>7. ASSUME NEW base \in 0..Len(script), UpTo(base)
      PROVE  /\ base < Len(script) /\ base + 1 \in DOMAIN ends
             /\ \/ limit < ends[base + 1]
                \/ base + 1 = Len(script) /\ ~closed /\ limit = size
  <2>1. /\ Len(script) \in Nat /\ Len(ends) = Len(script)
        /\ pos(base) \in Nat /\ size = pos(Len(script)) /\ base \in Nat
        /\ \A k, m \in 0..Len(script) : k < m => pos(k) < pos(m)
        /\ \A k \in 1..Len(script) : begins(k) = pos(k - 1) /\ ends[k] = pos(k)
        /\ \A k \in 0..Len(script) : pos(k) \in Nat /\ pos(k) <= size
    BY <1>2, <1>7, Places
  <2>2. /\ torn = FALSE /\ got <= next /\ next - got = pos(base)
        /\ got > 0 => /\ base < Len(script)
                      /\ \/ next < ends[base + 1]
                         \/ base + 1 = Len(script) /\ ~closed /\ next = size
    BY <1>7 DEF UpTo, Behind
  <2>3. base < Len(script)
    <3>1. pos(base) < size
      BY <1>1, <1>4, <2>1, <2>2
    <3>2. base # Len(script)
      BY <2>1, <3>1
    <3> QED
      BY <1>7, <2>1, <3>2
  <2>4. base + 1 \in 1..Len(script) /\ base + 1 \in 0..Len(script) /\ base + 1 \in DOMAIN ends
    <3>1. ends \in Seq(Nat)
      BY <1>2 DEF BatchType
    <3> QED
      BY <2>1, <2>3, <3>1
  <2>5. begins(base + 1) <= next /\ next < ends[base + 1]
    <3>1. pos(base) < pos(base + 1) /\ ends[base + 1] = pos(base + 1)
          /\ begins(base + 1) = pos((base + 1) - 1) /\ (base + 1) - 1 = base
          /\ pos(base + 1) \in Nat
      BY <2>1, <2>4
    <3>2. begins(base + 1) <= next
      BY <1>4, <2>1, <2>2, <3>1
    <3>3. CASE got = 0
      BY <1>4, <2>1, <2>2, <3>1, <3>2, <3>3
    <3>4. CASE got > 0
      BY <1>1, <1>4, <2>2, <3>2, <3>4
    <3> QED
      BY <1>4, <3>3, <3>4
  <2>6. \/ ~(ends[base + 1] <= limit)
        \/ base + 1 = Len(ends) /\ ~closed
    BY <1>1, <2>4, <2>5 DEF InBuffer
  <2>7. ends[base + 1] \in Nat
    BY <2>1, <2>4
  <2>8. CASE ~(ends[base + 1] <= limit)
    BY <1>4, <2>3, <2>4, <2>7, <2>8
  <2>9. CASE ends[base + 1] <= limit
    <3>1. base + 1 = Len(script) /\ ~closed
      BY <2>1, <2>6, <2>9
    <3>2. ends[base + 1] = size
      BY <2>1, <2>4, <3>1
    <3> QED
      BY <1>4, <2>3, <2>4, <2>9, <3>1, <3>2
  <2> QED
    BY <2>8, <2>9
<1>8. ~LikeTheTests
  <2> SUFFICES ASSUME LikeTheTests PROVE FALSE
    OBVIOUS
  <2>1. limit = size /\ closed
    BY <1>1, <1>2 DEF AtOnce, Fresh, LikeTheTests
  <2>2. PICK base \in 0..Len(script) : UpTo(base)
    BY <1>2 DEF Orderly
  <2>3. base + 1 \in DOMAIN ends /\ limit < ends[base + 1]
    BY <1>7, <2>1, <2>2
  <2>4. base + 1 \in 0..Len(script) /\ base + 1 \in 1..Len(script)
    <3>1. ends \in Seq(Nat) /\ Len(ends) = Len(script)
      BY <1>2 DEF BatchType
    <3> QED
      BY <2>3, <3>1
  <2>5. ends[base + 1] \in Nat /\ ends[base + 1] <= size
    BY <1>2, <2>4, Places
  <2> QED
    BY <1>4, <2>1, <2>3, <2>5
<1>9. AtOnce'
  BY <1>3, <1>8 DEF AtOnce
<1>10. ASSUME Orderly
       PROVE  \E base \in 0..Len(script)' : UpTo(base)'
  <2>1. PICK base \in 0..Len(script) : UpTo(base)
    BY <1>2, <1>10
  <2>2. pos(base) \in Nat
    BY <1>2, Places
  <2>3. torn = FALSE /\ got <= next /\ next - got = pos(base)
    BY <2>1 DEF UpTo, Behind
  <2>4. got' <= next' /\ next' - got' = pos(base)'
    BY <1>1, <1>3, <1>4, <2>2, <2>3
  <2>5. Behind(base)'
    BY <1>1, <1>3, <1>7, <2>1, <2>3, <2>4 DEF Behind
  <2>6. AllRan(base)' /\ InOrder' /\ Ascending(base)'
    BY <1>1, <1>3, <2>1 DEF UpTo, AllRan, InOrder, Ascending, runnable
  <2> QED
    BY <1>3, <2>5, <2>6 DEF UpTo
<1> QED
  BY <1>3, <1>5, <1>6, <1>9, <1>10 DEF BatchInv

\* A line is taken: it is the one after base, and the reader is then behind it.
LEMMA TakenKeeps ==
  ASSUME BatchInv, NEW k \in DOMAIN ends, NEW kind, takes(k, kind),
         \/ kind = "skipped" /\ ran' = ran
         \/ kind # "skipped" /\ gives(k),
         kind = "exit" => over',
         ~fails /\ kind # "fail" => ~fails'
  PROVE  BatchInv'
<1>1. /\ ~over /\ children = 0
      /\ InBuffer(k) \/ (AtEOF /\ got > 0 /\ k = Len(ends))
      /\ kind \in kinds(k) /\ next' = ends[k] /\ got' = 0 /\ torn' = FALSE
      /\ UNCHANGED <<file, offset, limit>>
  BY DEF takes, Reading
<1>2. BatchType /\ NotMoved /\ AtOnce
      /\ (Orderly => \E base \in 0..Len(script) : UpTo(base))
  BY DEF BatchInv
<1>3. /\ script' = script /\ ends' = ends /\ closed' = closed /\ BufSize' = BufSize
      /\ size' = size /\ \A b \in 0..Len(script) : pos(b)' = pos(b)
      /\ LikeTheTests' = LikeTheTests /\ NoneFails' = NoneFails
      /\ Orderly' = Orderly
  BY <1>1, <1>2, SameFile
<1>4. /\ Len(script) \in Nat /\ Len(ends) = Len(script) /\ size \in Nat
      /\ k \in 1..Len(script) /\ k \in Nat /\ k \in 0..Len(script)
      /\ ends[k] \in Nat /\ ends[k] = pos(k) /\ size = pos(Len(script))
      /\ \A b, c \in 0..Len(script) : b < c => pos(b) < pos(c)
  <2>1. ends \in Seq(Nat) /\ Len(script) \in Nat /\ Len(ends) = Len(script)
    BY <1>2, Places DEF BatchType
  <2>2. k \in 1..Len(script)
    BY <2>1
  <2> QED
    BY <1>2, <2>1, <2>2, Places
<1>5. /\ next \in Nat /\ limit \in Nat /\ offset \in Nat /\ got \in Nat
      /\ next <= limit /\ limit <= size /\ offset <= limit /\ ran \in Seq(Nat)
  BY <1>2 DEF BatchType
<1>6. next' <= limit'
  <2>1. CASE InBuffer(k)
    BY <1>1, <2>1 DEF InBuffer
  <2>2. CASE AtEOF /\ got > 0 /\ k = Len(ends)
    <3>1. ends[k] = size /\ offset = size
      BY <1>4, <2>2 DEF AtEOF
    <3> QED
      BY <1>1, <1>5, <3>1
  <2> QED
    BY <1>1, <2>1, <2>2
<1>7. ran' \in Seq(Nat)
  <2>1. CASE ran' = ran
    BY <1>5, <2>1
  <2>2. CASE gives(k)
    <3>1. ran' = Append(ran, IF is_line(k) THEN k ELSE 0)
      BY <2>2 DEF gives
    <3>2. (IF is_line(k) THEN k ELSE 0) \in Nat
      BY <1>4
    <3> HIDE DEF is_line
    <3> QED
      BY <1>5, <3>1, <3>2
  <2> QED
    BY <2>1, <2>2
<1>8. BatchType'
  <2>1. /\ script' \in Seq(Kinds) /\ ends' \in Seq(Nat) /\ Len(ends') = Len(script')
        /\ \A b \in 1..Len(ends') : 0 < ends'[b]
        /\ \A b, c \in 1..Len(ends') : b < c => ends'[b] < ends'[c]
        /\ BufSize' \in Nat \ {0}
    BY <1>2, <1>3 DEF BatchType
  <2>2. /\ offset' \in Nat /\ next' \in Nat /\ limit' \in Nat /\ got' \in Nat
        /\ limit' <= size' /\ offset' <= limit'
    BY <1>1, <1>3, <1>4, <1>5
  <2> QED
    BY <1>6, <1>7, <2>1, <2>2 DEF BatchType
<1>9. ASSUME NEW base \in 0..Len(script), UpTo(base)
      PROVE  k = base + 1 /\ is_line(k) /\ kind = script[k]
  <2>1. k = base + 1 /\ is_line(k)
    BY <1>1, <1>2, <1>9, NextLine DEF UpTo
  <2>2. kind = script[k]
    BY <1>1, <2>1 DEF kinds
  <2> QED
    BY <2>1, <2>2
<1>10. ASSUME Orderly PROVE kind = script[k]
  BY <1>2, <1>9, <1>10
<1>11. NotMoved'
  <2>1. ASSUME NoneFails PROVE offset' = limit' /\ ~fails'
    <3>1. kind # "fail"
      BY <1>4, <1>10, <2>1, <1>8 DEF NoneFails, Orderly, BatchType
    <3> QED
      BY <1>1, <1>2, <2>1, <3>1 DEF NotMoved
  <2> QED
    BY <1>3, <2>1 DEF NotMoved
<1>12. AtOnce'
  <2>1. ASSUME LikeTheTests PROVE limit' = size' /\ (next' = limit' => over')
    <3>1. ~Fresh
      BY <1>1, <1>5 DEF Fresh, InBuffer
    <3>2. limit' = size'
      BY <1>1, <1>2, <1>3, <2>1, <3>1 DEF AtOnce
    <3>3. ASSUME next' = limit' PROVE over'
      <4>1. pos(k) = pos(Len(script)) /\ pos(k) \in Nat
        BY <1>1, <1>3, <1>4, <3>2, <3>3
      <4>2. k = Len(script)
        <5> SUFFICES ASSUME k < Len(script) PROVE FALSE
          BY <1>4
        <5>1. Len(script) \in 0..Len(script)
          BY <1>4
        <5>2. pos(k) < pos(Len(script))
          BY <1>4, <5>1
        <5> QED
          BY <4>1, <5>2
      <4>3. script[k] = "exit"
        BY <2>1, <4>2 DEF LikeTheTests, Last
      <4> QED
        BY <1>10, <2>1, <4>3 DEF Orderly
    <3> QED
      BY <3>2, <3>3
  <2> QED
    BY <1>3, <2>1 DEF AtOnce
<1>13. ASSUME Orderly
       PROVE  \E base \in 0..Len(script)' : UpTo(base)'
  <2>1. PICK base \in 0..Len(script) : UpTo(base)
    BY <1>2, <1>13
  <2>2. k = base + 1 /\ is_line(k) /\ kind = script[k] /\ base \in Nat
    BY <1>4, <1>9, <2>1
  <2>3. AllRan(base) /\ InOrder /\ Ascending(base)
    BY <2>1 DEF UpTo
  <2>4. Behind(k)'
    <3>1. pos(k)' = ends[k]
      BY <1>3, <1>4
    <3>2. next' - got' = pos(k)' /\ got' <= next' /\ ~(got' > 0)
      BY <1>1, <1>4, <3>1
    <3> QED
      BY <1>1, <3>2 DEF Behind
  <2>5. AllRan(k)' /\ InOrder' /\ Ascending(k)'
    <3>1. CASE kind = "skipped" /\ ran' = ran
      <4>1. ~runnable(base + 1)
        BY <2>2, <3>1 DEF runnable
      <4>2. \A n \in 1..k : n \in 1..base \/ n = base + 1
        BY <2>2
      <4>3. AllRan(k)'
        BY <1>3, <2>3, <3>1, <4>1, <4>2 DEF AllRan, runnable
      <4>4. InOrder'
        BY <1>3, <2>3, <3>1 DEF InOrder, runnable
      <4>5. Ascending(k)'
        <5>1. \A m \in 1..Len(ran) : ran[m] \in Nat
          BY <1>5
        <5> QED
          BY <2>2, <2>3, <3>1, <5>1 DEF Ascending
      <4> QED
        BY <4>3, <4>4, <4>5
    <3>2. CASE kind # "skipped" /\ gives(k)
      <4>1. ran' = Append(ran, base + 1)
        BY <2>2, <3>2 DEF gives
      <4>2. runnable(base + 1) /\ base + 1 \in 1..Len(script)
        BY <1>4, <2>2, <3>2 DEF runnable
      <4>3. InOrder' /\ AllRan(base + 1)'
        BY <1>2, <1>3, <2>2, <2>3, <4>1, <4>2, RunKeepsOrder
      <4>4. Ascending(base + 1)'
        BY <1>2, <2>2, <2>3, <4>1, RunAscends
      <4> QED
        BY <2>2, <4>3, <4>4 DEF AllRan, Ascending
    <3> QED
      BY <3>1, <3>2
  <2> QED
    BY <1>3, <1>4, <2>4, <2>5 DEF UpTo
<1> QED
  BY <1>3, <1>8, <1>11, <1>12, <1>13 DEF BatchInv

\* A child that ends moves the offset back, and only if it may have failed.
LEMMA ExitKeeps ==
  ASSUME BatchInv, ChildExits
  PROVE  BatchInv'
<1>1. /\ children > 0
      /\ offset' \in {offset} \cup (IF fails THEN {given_back} ELSE {})
      /\ fails' = (fails /\ children > 1)
      /\ UNCHANGED <<file, next, limit, got, torn, ran, over>>
  BY DEF ChildExits
<1>2. BatchType /\ NotMoved /\ AtOnce
      /\ (Orderly => \E base \in 0..Len(script) : UpTo(base))
  BY DEF BatchInv
<1>3. /\ script' = script /\ ends' = ends /\ closed' = closed /\ BufSize' = BufSize
      /\ size' = size /\ LikeTheTests' = LikeTheTests /\ NoneFails' = NoneFails
  BY <1>1, <1>2, SameFile
<1>4. offset' \in Nat /\ offset' <= offset
  <2>1. next \in Nat /\ limit \in Nat /\ offset \in Nat /\ next <= limit
    BY <1>2 DEF BatchType
  <2>2. given_back \in Nat /\ given_back <= offset
    BY <2>1 DEF given_back
  <2> QED
    BY <1>1, <2>1, <2>2
<1>5. BatchType'
  <2>1. offset' <= limit'
    BY <1>1, <1>2, <1>4 DEF BatchType
  <2> QED
    BY <1>1, <1>2, <1>3, <1>4, <2>1 DEF BatchType
<1>6. NotMoved'
  BY <1>1, <1>2, <1>3 DEF NotMoved
<1>7. AtOnce'
  BY <1>1, <1>2, <1>3 DEF AtOnce, Fresh
<1>8. (Orderly => \E base \in 0..Len(script) : UpTo(base))'
  BY <1>1, <1>2, StillUpTo
<1> QED
  BY <1>5, <1>6, <1>7, <1>8 DEF BatchInv

\* Every step of batch_mode keeps the invariant.
LEMMA NextKeeps == ASSUME BatchInv, [BatchNext]_batch_vars PROVE BatchInv'
<1>1. CASE UNCHANGED batch_vars
  BY <1>1 DEF batch_vars, BatchInv, BatchType, NotMoved, AtOnce, Fresh, Orderly,
              LikeTheTests, NoneFails, UpTo, Behind, AllRan, InOrder, Ascending,
              runnable, pos, size
<1>2. CASE FillBuffer
  BY <1>2, FillKeeps
<1>3. CASE HoldPart
  BY <1>3, HoldKeeps
<1>4. CASE ChildExits
  BY <1>4, ExitKeeps
<1>5. CASE NoMoreLines
  <2>1. over' = TRUE /\ UNCHANGED <<file, offset, next, limit, got, torn, children, fails, ran>>
        /\ children = 0
    BY <1>5 DEF NoMoreLines, Reading
  <2>2. BatchType /\ NotMoved /\ AtOnce
        /\ (Orderly => \E base \in 0..Len(script) : UpTo(base))
    BY DEF BatchInv
  <2>3. /\ script' = script /\ ends' = ends /\ closed' = closed /\ BufSize' = BufSize
        /\ size' = size /\ LikeTheTests' = LikeTheTests /\ NoneFails' = NoneFails
    BY <2>1, <2>2, SameFile
  <2>4. BatchType' /\ NotMoved'
    BY <2>1, <2>2, <2>3 DEF BatchType, NotMoved
  <2>5. AtOnce'
    BY <2>1, <2>2, <2>3 DEF AtOnce, Fresh
  <2>6. (Orderly => \E base \in 0..Len(script) : UpTo(base))'
    BY <2>1, <2>2, StillUpTo
  <2> QED
    BY <2>4, <2>5, <2>6 DEF BatchInv
<1>6. ASSUME NEW k \in DOMAIN ends,
             SkipLine(k) \/ RunBuiltIn(k) \/ RunExit(k) \/ ForkLine(k)
      PROVE  BatchInv'
  <2>1. CASE SkipLine(k)
    <3>1. takes(k, "skipped") /\ ran' = ran /\ fails' = fails
      BY <2>1 DEF SkipLine
    <3> QED
      BY <3>1, TakenKeeps
  <2>2. CASE RunBuiltIn(k)
    <3>1. takes(k, "built in") /\ gives(k) /\ fails' = fails
      BY <2>2 DEF RunBuiltIn
    <3> QED
      BY <3>1, TakenKeeps
  <2>3. CASE RunExit(k)
    <3>1. takes(k, "exit") /\ gives(k) /\ fails' = fails /\ over' = TRUE
      BY <2>3 DEF RunExit
    <3> QED
      BY <3>1, TakenKeeps
  <2>4. CASE ForkLine(k)
    <3>1. PICK kind \in {"run", "fail"} :
             takes(k, kind) /\ gives(k) /\ fails' = (kind = "fail")
      BY <2>4 DEF ForkLine
    <3> QED
      BY <3>1, TakenKeeps
  <2> QED
    BY <1>6, <2>1, <2>2, <2>3, <2>4
<1> QED
  BY <1>1, <1>2, <1>3, <1>4, <1>5, <1>6 DEF BatchNext

\* A line's position in ran is its position among the lines that are run.
LEMMA OnceEach ==
  ASSUME BatchType, InOrder, NEW base, Ascending(base) PROVE LinesOnce
<1>1. /\ ran \in Seq(Nat) /\ Len(ran) \in Nat /\ Len(script) \in Nat
      /\ \A k \in 1..Len(ran) : ran[k] \in 1..Len(script) /\ runnable(ran[k])
  BY DEF BatchType, InOrder
<1>2. ASSUME NEW k \in 1..Len(ran)
      PROVE  {n \in 1..ran[k] : runnable(n)} = {ran[m] : m \in 1..k}
  <2> DEFINE upto == {n \in 1..ran[k] : runnable(n)}
  <2>1. ASSUME NEW n \in upto PROVE n \in {ran[m] : m \in 1..k}
    <3>1. CASE n = ran[k]
      <4>1. k \in 1..k
        BY <1>1
      <4> QED
        BY <3>1, <4>1
    <3>2. CASE n # ran[k]
      <4>1. n \in 1..(ran[k] - 1) /\ runnable(n)
        BY <1>1, <3>2
      <4>2. PICK m \in 1..(k - 1) : ran[m] = n
        BY <4>1 DEF InOrder
      <4>3. m \in 1..k
        BY <1>1, <4>2
      <4> QED
        BY <4>2, <4>3
    <3> QED
      BY <3>1, <3>2
  <2>2. ASSUME NEW m \in 1..k PROVE ran[m] \in upto
    <3>1. m \in 1..Len(ran)
      BY <1>1
    <3>2. ran[m] \in Nat \ {0} /\ runnable(ran[m])
      BY <1>1, <3>1
    <3>3. ran[m] <= ran[k]
      <4>1. m = k \/ m \in 1..(k - 1)
        BY <1>1
      <4>2. ran[k] \in Nat
        BY <1>1
      <4> QED
        BY <3>2, <4>1, <4>2 DEF Ascending
    <3> QED
      BY <1>1, <3>2, <3>3
  <2> QED
    BY <2>1, <2>2
<1>3. ASSUME NEW k \in 1..Len(ran), k > 1 PROVE ran[k - 1] < ran[k]
  <2>1. k - 1 \in 1..(k - 1)
    BY <1>1, <1>3
  <2> QED
    BY <2>1 DEF Ascending
<1> QED
  BY <1>1, <1>2, <1>3 DEF LinesOnce, runnable

\* batch_mode: run_cmd is given the lines of a file once each, in order and
\* whole, up to an exit, if the file is like the test suite's or no child of it
\* fails; and no byte of any file is passed over.
THEOREM ReaderInOrder == InputSpec => []LinesInOrder
<1>1. InputInit => BatchInv
  BY InitInv
<1>2. BatchInv /\ [InputNext]_<<reader, batch_vars, word_vars>> => BatchInv'
  <2> SUFFICES ASSUME BatchInv, [InputNext]_<<reader, batch_vars, word_vars>>
               PROVE  BatchInv'
    OBVIOUS
  <2>1. [BatchNext]_batch_vars
    BY DEF InputNext, Lines
  <2> QED
    BY <2>1, NextKeeps
<1>3. BatchInv => LinesInOrder
  <2> SUFFICES ASSUME BatchInv PROVE LinesOnce /\ NoByteSkipped
    BY DEF LinesInOrder
  <2>1. NoByteSkipped
    BY DEF BatchInv, BatchType, NoByteSkipped
  <2>2. CASE Orderly
    <3>1. PICK base \in 0..Len(script) : UpTo(base)
      BY <2>2 DEF BatchInv
    <3> QED
      BY <2>1, <3>1, OnceEach DEF BatchInv, UpTo
  <2>3. CASE ~Orderly
    BY <2>1, <2>3 DEF Orderly, LinesOnce
  <2> QED
    BY <2>2, <2>3
<1> QED
  BY <1>1, <1>2, <1>3, PTL DEF InputSpec

----------------------------------------------------------------------------
(***************************************************************************)
(* The reader of words.  j runs two ahead of i for every sign seen, so     *)
(* that with one sign at most the copy ends within the memory.             *)
(***************************************************************************)
CopyInv == /\ cmd \in Seq(Chars) /\ Len(cmd) <= MaxLen
           /\ i \in 0..Len(cmd) /\ tally \in Nat
           /\ j = i + 2 * tally
           /\ tally <= 1 => spilled = FALSE

\* At the start nothing is copied.
LEMMA CopyStarts == InputInit => CopyInv
<1> SUFFICES ASSUME InputInit PROVE CopyInv
  OBVIOUS
<1>1. cmd \in UNION {[1..n -> Chars] : n \in 0..MaxLen}
      /\ i = 0 /\ j = 0 /\ tally = 0 /\ spilled = FALSE
  BY DEF InputInit, Words!Init, Words!Strings
<1>2. PICK n \in 0..MaxLen : cmd \in [1..n -> Chars]
  BY <1>1
<1>3. n \in Nat
  <2>1. MaxLen \in Nat
    BY InputAssumption DEF Words!CommandAssumption
  <2> QED
    BY <1>2, <2>1
<1>4. cmd \in Seq(Chars) /\ Len(cmd) = n
  BY <1>2, <1>3
<1>5. MaxLen \in Nat
  BY InputAssumption DEF Words!CommandAssumption
<1> QED
  BY <1>1, <1>2, <1>3, <1>4, <1>5 DEF CopyInv

\* Every step of format_redirection and of separate keeps it.
LEMMA CopyKeeps == ASSUME CopyInv, [Words!Next]_word_vars PROVE CopyInv'
<1>1. /\ cmd \in Seq(Chars) /\ Len(cmd) \in Nat /\ Len(cmd) <= MaxLen
      /\ i \in Nat /\ i <= Len(cmd) /\ tally \in Nat
      /\ j = i + 2 * tally /\ (tally <= 1 => spilled = FALSE) /\ MaxLen \in Nat
  <2>1. MaxLen \in Nat
    BY InputAssumption DEF Words!CommandAssumption
  <2> QED
    BY <2>1 DEF CopyInv
<1>2. ASSUME NEW k \in Nat, Words!c(k) # Words!NUL PROVE k + 1 <= Len(cmd)
  <2>1. k + 1 \in DOMAIN cmd
    BY <1>2 DEF Words!c, Words!at
  <2> QED
    BY <1>1, <2>1
<1>3. Words!NUL # ">" /\ Words!NUL # "+"
  BY DEF Words!NUL
<1>4. CASE Words!CopyChar
  <2>1. i' = i + 1 /\ j' = j + 1 /\ UNCHANGED <<cmd, tally>>
        /\ i + 1 <= Len(cmd)
    BY <1>1, <1>2, <1>4 DEF Words!CopyChar
  <2>2. tally' <= 1 => spilled' = FALSE
    <3>1. spilled' = (spilled \/ \E k \in {j} : k >= Words!Room)
      BY <1>4 DEF Words!CopyChar, Words!writes
    <3>2. ASSUME tally' <= 1
          PROVE  tally <= 1 /\ \A k \in {j} : ~(k >= Words!Room)
      BY <1>1, <2>1, <3>2 DEF Words!Room
    <3>3. tally <= 1 => spilled = FALSE
      BY <1>1
    <3> QED
      BY <3>1, <3>2, <3>3, Zenon
  <2> QED
    BY <1>1, <2>1, <2>2 DEF CopyInv
<1>5. CASE Words!PadAdv
  <2>1. i' = i + 2 /\ j' = j + 4 /\ tally' = tally + 1 /\ cmd' = cmd
        /\ (i + 1) + 1 <= Len(cmd)
    <3>1. i + 1 \in Nat
      BY <1>1
    <3>2. Words!c(i + 1) # Words!NUL
      BY <1>3, <1>5 DEF Words!PadAdv
    <3>3. (i + 1) + 1 <= Len(cmd)
      BY <1>2, <3>1, <3>2
    <3> QED
      BY <1>5, <3>3 DEF Words!PadAdv
  <2>2. tally' <= 1 => spilled' = FALSE
    <3>1. spilled' = (spilled \/ \E k \in {i, j + 1, j + 2, j + 3} : k >= Words!Room)
      BY <1>5 DEF Words!PadAdv, Words!writes
    <3>2. ASSUME tally' <= 1
          PROVE  tally <= 1 /\ \A k \in {i, j + 1, j + 2, j + 3} : ~(k >= Words!Room)
      BY <1>1, <2>1, <3>2 DEF Words!Room
    <3>3. tally <= 1 => spilled = FALSE
      BY <1>1
    <3> QED
      BY <3>1, <3>2, <3>3, Zenon
  <2> QED
    BY <1>1, <2>1, <2>2 DEF CopyInv
<1>6. CASE Words!PadNorm
  <2>1. i' = i + 1 /\ j' = j + 3 /\ tally' = tally + 1 /\ cmd' = cmd
        /\ i + 1 <= Len(cmd)
    BY <1>1, <1>2, <1>3, <1>6 DEF Words!PadNorm
  <2>2. tally' <= 1 => spilled' = FALSE
    <3>1. spilled' = (spilled \/ \E k \in {j, j + 1, j + 2} : k >= Words!Room)
      BY <1>6 DEF Words!PadNorm, Words!writes
    <3>2. ASSUME tally' <= 1
          PROVE  tally <= 1 /\ \A k \in {j, j + 1, j + 2} : ~(k >= Words!Room)
      BY <1>1, <2>1, <3>2 DEF Words!Room
    <3>3. tally <= 1 => spilled = FALSE
      BY <1>1
    <3> QED
      BY <3>1, <3>2, <3>3, Zenon
  <2> QED
    BY <1>1, <2>1, <2>2 DEF CopyInv
<1>7. CASE Words!Separate \/ UNCHANGED word_vars
  BY <1>7 DEF CopyInv, Words!Separate, word_vars
<1> QED
  BY <1>4, <1>5, <1>6, <1>7 DEF Words!Next

\* format_redirection: however long the commands, nothing is written behind the
\* memory that is set aside for the copy, unless the command has a second sign.
THEOREM CopyStaysShort == InputSpec => []Words!CopyFits
<1>1. InputInit => CopyInv
  BY CopyStarts
<1>2. CopyInv /\ [InputNext]_<<reader, batch_vars, word_vars>> => CopyInv'
  <2> SUFFICES ASSUME CopyInv, [InputNext]_<<reader, batch_vars, word_vars>>
               PROVE  CopyInv'
    OBVIOUS
  <2>1. [Words!Next]_word_vars
    BY DEF InputNext
  <2> QED
    BY <2>1, CopyKeeps
<1>3. CopyInv => Words!CopyFits
  BY DEF CopyInv, Words!CopyFits
<1> QED
  BY <1>1, <1>2, <1>3, PTL DEF InputSpec
=============================================================================
