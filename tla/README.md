# Verification of the CS 154 systems programs

TLA+ models, TLC runs and TLAPS proofs kept beside the code of the four course
projects in `src/`: a dynamic storage allocator with its trace driver
(`p5malloc`), a cache simulator and a cache-aware transpose (`p3cache`), a shell
(`p4shell`), and bit puzzles (`p1bitmanip`), each with the harness that tests
and grades it.

## 1. Inventory

| part | state | operations | what makes it correct |
|---|---|---|---|
| allocator `p5malloc/mm.c` | the heap: boundary tags, explicit LIFO free list, root word at the bottom | `mm_init`, `mm_malloc`, `mm_free`, `mm_realloc`, `mm_calloc`; inside them `find_fit`, `place`, `coalesce`, `extend_heap`, `LIFO_INSERT`, `REMOVE_BLOCK` | blocks tile the heap; free neighbours are merged; the list is exactly the free blocks; payloads are disjoint and only their client changes them; a miss means there is no room; calls return |
| simulated memory `memlib.c` | `heap[]`, `mem_brk` | `mem_sbrk`, `mem_reset_brk` | the break stays in the heap; a refused growth has no effect |
| driver, correctness `mdriver.c` | trace records (`blocks`, `block_sizes`), range list, error count | `eval_mm_valid`, `add_range`, `remove_range`, `randomize_block`, `check_index` | reports an error exactly when the allocator has one |
| driver, sessions `mdriver.c` | `timed_out`, jump buffer, statistics | `run_tests`, `timeout_handler`, `eval_mm_util`, `eval_mm_speed`, the score | a trace that hangs ends the run of traces, without points; nothing is called after the jump; a replay answers as before |
| simple allocators `mm-implicit.c`, `mm-naive.c` | boundary tags without a list, a rover; a break that only grows | the same entry points | as `mm.c` |
| timing `fcyc.c`, `clock.c` | cycle counter, ticks, the K best samples | `fcyc`, `callibrate`, `get_comp_counter` | a measurement ends, with the smallest samples, rid of timer interrupts |
| cache simulator `csim.c` | lines (valid, tag, time stamp), three counters | `simulate_cache` over the events of a trace | counts those of an LRU cache; a larger cache never does worse |
| transpose `trans.c` | none beyond two matrices | `transpose_submit` for the sizes that are graded | the result is the transpose; its accesses miss rarely |
| transpose grading `driver.py`, `test-trans.c`, `tracegen.c` | trace files, `.csim_results`, an alarm, processes | `eval_perf`, `validate`, the score | points for misses of one's own, and for right transposes only |
| shell `myshell.c` | open descriptors, child, `tmp.txt` aside file | built-ins, redirection, advanced redirection, batch mode | a command's output lands where it says, all of it, and no file is lost; a batch file is run line by line |
| puzzles `bits.c` | none | 23 functions on 32-bit words | agree with `tests.c` |
| puzzle grading `btest.c`, `driver.pl` | test values, alarm, jump buffer; two versions of `bits.c`, tables read from output | `gen_vals`, `test_function`, `run_tests`; compile, run, read, add up | points for right and legal solutions only |
| other allocators, scripts | | unfinished drafts, `grade.py`, `Driverlib.pm` | not modelled |

**How they interact.**  `mdriver.c` calls the `mm_*` entry points and shares the
heap with them: it writes every payload it is given and reads it back.
`mm.c` calls `mem_sbrk`, and `eval_mm_valid` calls `mem_reset_brk`, which moves the break
back and clears nothing.  `SIGALRM` jumps out of an
allocator call; `run_tests` then gives up the traces that are left, and `main` adds up
the figures of all of them with an error counted, so that there are no points.
`mdriver.c` times `eval_mm_speed` with `fsecs`, which samples it through `fcyc`.
`test-trans.c` has a transpose run under valgrind and gives the accesses it
filters out to the reference simulator; results pass between the processes in
files with fixed names, and test-trans's line to `driver.py` in a pipe that is read
to its end, which is when all processes that hold it have closed it.  The shell forks, and shares files and descriptors with
its child, and the offset of a batch file too.  `driver.pl` runs `btest` twice, on
two versions of one file, and reads what it prints.

**What is hard.**  The allocators run alone: their difficulty is
state that accumulates over a long sequence of legal calls.  A tag or a link that
is wrong after one call does harm many calls later, in another block.  The shell
and the harnesses are the opposite: little state, and a signal, another process
or a failed call at any moment.  The puzzles, the counter and the sizes of requests are
about the width of words.  The hazards, each at its line, are in `PROJECT.json`.

## 2. Modules

```
MemWords ── MmExplicit ── MmHeap ── MDriver ── MDriverProps ── MCDriver   (TLC)
   │                                   │           │
   │                                   └── DriverPerf ── MCPerf
   │    Allocator  <── INSTANCE (AllocatorSpec) ───┤
   │                   MmHeapProof ── MDriverProof (TLAPS; extends DriverPerf too)
   ├── MmImplicit ─┐ (instances)                   │
   └── MmNaive ────┴── DraftClient ── MCDraft ─────┘
                            └── DraftProof (TLAPS)

RangeCheck ── DriverParts  <── INSTANCE ── Session, Timing, SizeWidth
                   └── DriverPartsProof (TLAPS)

LruCache  <── INSTANCE ── CsimProps ── EXTENDS ── Csim
                             └── CsimPair  <── INSTANCE ── Csim, with fewer lines
                                    ├── CsimProof (TLAPS)
                                    └── CacheLab  <── INSTANCE ── Trans, TransTest

Redirections  <── INSTANCE (RedirectionSpec) ── ShellProps ── EXTENDS ── Shell
                                                    ├── MCShell ── ShellLab
                                                    └── ShellProof (TLAPS)
Batch ── ShellInput  <── INSTANCE ── CommandWords            (ShellLab extends
             ├── ShellLab                                     MCShell, ShellInput)
             └── InputProof (TLAPS)

BTest ── BitLab ── MCBitLab
           └── INSTANCE ── Puzzles ── EXTENDS ── Bits;  DataLab
```

Five modules put parts of a program side by side that share no state:
**DriverParts**, **CacheLab**, **ShellInput**, **ShellLab** and **BitLab**.  A behaviour of one
is a behaviour of one of its parts, chosen in its initial state; the other parts stay
where they start, so nothing is multiplied, and a property of a part holds of the
whole exactly if it holds of the part.  Where parts do share state they are one module
(the allocator and its driver, parent and child of the shell).

### The allocator and its driver

- **MemWords** is `memlib.c` and the boundary-tag macros.  Memory is a function
  from word addresses to words; a word is the sources' `WSIZE`, and sizes and
  addresses count words, so the low three bits of a byte size become one.
  `GET_PT` reads two words, as the code's `unsigned long` does in the 64-bit
  build.
- **MmExplicit** is `mm.c`.  The straight-line routines are operators from memory
  to memory with the writes in the code's order, because the addresses of later
  writes are computed from earlier ones.  `find_fit`'s loop is a step per
  iteration, so `mm_malloc` and `mm_realloc` are sequences of steps:
  `mm_malloc_entry`, `find_fit_next`*, then `find_fit_hit`, `find_fit_miss_grow`
  or `find_fit_miss_fail`, then (for a realloc that has something to copy)
  `realloc_copy_free`.  `mm_free` has no loop and is one step of its caller.
- **MmHeap** says what it is for a memory to be a heap: `Tiled`, `Coalesced`,
  `Linked`, `Ranked`.  Invariants and proofs share these predicates.
- **MDriver** is `eval_mm_valid`: the requests (`Alloc`, `Realloc`, `Free`,
  `FreeNull`), what follows an answer (`AllocReturn`, `ReallocReturn`) with the
  range list, the fill with random data and the checks, and `StartTrace`,
  which empties the heap without clearing it.  `errors` keeps the kinds of error
  reported, not their number.
- **MDriverProps** holds the properties; **Allocator** the abstract allocator;
  **MCDriver** the constants of the runs.
- **DriverPerf** logs the requests and answers of a trace that was found valid
  and replays them as `eval_mm_util` and `eval_mm_speed` do, on the same
  memory, with `total_size` and its maximum.
- **RangeCheck** is the judge alone: `eval_mm_valid` with its range list as a
  list of records and its three debugging modes, on an allocator that may answer
  any address and copy or not.  The history variable `clash` keeps the ids that
  were overlapped.
- **SizeWidth** is `mm_malloc` and `mm_calloc` at the width of `size_t`, `int` and
  `unsigned int`.  With no frees there is at most one free block, the last, so a
  heap is its break and that block's size; `ruined` stands for any heap after
  a block was split beyond its size, and `crashed` for the end of the program: `mm_calloc`
  clears what `mm_malloc` answered without asking whether it is `NULL`.  `Room` is
  what the heap could serve if no width showed.
- **Session** is `main`, `run_tests` and the alarm: the evaluation of a trace has
  an outcome or never ends.  `jump` says whether the buffer that the handler jumps to
  was set and is still in use.
- **Timing** is `fcyc` and `clock.c` on a processor with a cycle counter of two
  words and a timer: an `Interrupt` may come before any step and costs cycles.
- **MmImplicit** and **MmNaive** are the two complete simple allocators, a routine
  an operator from heap to heap, and **DraftClient** a client like
  `eval_mm_valid` that does a request in a step; the variable `draft` says which of the three
  builds runs, and all use the same abstract `Allocator`.  `NewTrace` empties the heap and leaves what is in it.

A trace is every sequence of requests that a well-formed `.rep` file may hold:
an id is allocated when it holds nothing and freed when it holds a block.  The
files in `p5malloc/traces` are all of this kind.

Abstractions: payload sizes are in bytes in requests, and the driver fills and
checks whole words, a partial last word being filled to its end (it is part of
the block in any case).  `randomize_block` draws a new offset into the random
data at every fill; here each id has data of its own, the same at each
fill.  `DBG_EXPENSIVE`, which runs more checks, is off but in RangeCheck.  Pointers fit 32-bit
words, as `mm.c` assumes when it stores links with `PUT` (`MemAssumption`); a
position-independent build breaks this assumption and the allocator with it.

### The cache simulator and the transpose

- **Csim** is `simulate_cache` and what it calls; an `Event` is an iteration.
  `data`, which is never read, is left out, and so is the size of an access;
  `I` lines are dropped by `process_trace` before they have an index.
  `which_block`'s shifts work modulo `2^Width`.
- **LruCache** is a set-associative LRU cache with no lines or time stamps: each
  set is the sequence of its tags, the most recent first.
- **CsimProps** maps the lines to these sequences, each line at the place of its
  `rank` among the stamps of its set; **CsimPair** runs two caches
  of different associativity over one trace.
- **Trans** is `transpose_submit`: a step is an iteration of the loop over `x`,
  with the element, place and order of every access.  An element of A is
  its place in A.  The cache is the one of the score, 32 sets of one line.
- **TransTest** is the grading: `driver.py` runs test-trans per size, which runs
  tracegen per function as a process of its own (`tracegen` steps write lines
  of a trace: markers, accesses, noise), filters, has the simulator count, and
  prints.  The alarm ends test-trans and leaves the process behind, and `driver.py` goes
  on when nobody holds the pipe any more.  `sh` is the shell that `system()` starts, which
  the sources leave open: one that `waits` for valgrind keeps the pipe for as long as a
  function hangs, and turns a crash into an exit status; one that `execs` it leaves no
  holder of the pipe, since the command's output goes to the trace file, and a crash
  then has no exit status, so that a function that crashed is counted as validated.

### The shell

- **Shell** is `run_cmd` with parent and child as two processes that take turns as
  they like, a step per system call that others can observe.  Names are
  entries of directories and open files are inodes.  The parent's `pc`
  runs through the merge of `>+` call by call; a `Crash` may end the parent
  anywhere; the child may be killed, stopped and continued; another shell may
  work in the same directory.  A behaviour plays one of the `Scenes`, which say who is
  there, what is asked and what may go wrong.  A line's commands between semicolons are
  commands one after the other, as `run_cmd`'s loop takes them.  `Leftover` is what a freed buffer may leave in
  the memory of the next command.
- **Redirections** is what a redirection promises, one command at a time: which file
  the output is to go `onto`, that it arrives whole unless the program was killed (`cut`),
  and that it is there when the command ends.  **ShellProps** maps inodes and processes
  to it and holds the properties.
- **CommandWords** is `format_redirection` and `separate`, character by
  character, because where blanks land is what the property is about; Shell
  starts from their result.  The copy has the `Room` that `malloc` is asked for
  (514 characters for commands of up to 512), and what is written behind it sets `spilled`:
  a command with enough signs does so, since it is refused only when it has been copied.
- **Batch** is `batch_mode` by the byte: the stream's buffer, which ends wherever it is
  full, in mid-line too; the offset that parent and child share; and the C library's `exit`
  in a child, which gives the unread bytes back.  A line is given by where it ends.
  After an offset was given back the stream may begin in mid-line, so that getline
  returns lines again, ends of lines, or two glued together: `ran` has 0 for a text that is no
  line of the file.

### The puzzles

- **Bits** has C's operators on words of `W` bits, two's complement, with
  arithmetic shifts; **Puzzles** has each puzzle as `bits.c` computes it and each
  reference as `tests.c` does, the loops of a reference by what they compute.
- **BTest** is `btest.c`: `gen_vals`, the loops over tuples of values, the alarm and
  the jump, the score.  **DataLab** is `driver.pl`: two versions of the solutions,
  commands that may fail, and the table read back line by line.  Two of the commands, the copies
  of the emptied versions over `bits.c`, are not looked at, so the driver goes on with the
  version that was there; `PointsForRight` gives the score for the version that was run.

## 3. Runs

Eight runs that pass and four that show the code do what its comments rule out.

| run | instance | what it shows |
|---|---|---|
| `mm_heap` | 3 ids, sizes 8 and 28 bytes and 0, 6 requests, heap of 36 words growing by 12 | `TypeOK`, `HeapTiled`, `NoFreeNeighbours`, `FreeListExact`, `NoLeak` between any two steps |
| `mm_client` | 2 traces of 4 requests, 2 ids, sizes 8 and 60 bytes and 0, heap of 44 words | `MissMeansFull`, `DriverSatisfied`, `AllocatorSpec`, `CallsReturn` |
| `perf` | a trace of 4 requests, 2 ids, sizes 8 and 40 bytes and 0, heap of 36 words, checked and replayed twice | `ReplaysTrue` |
| `drafts` | first fit, `NEXT_FIT` and naive; 3 ids, any number of requests and traces, heap of 16 words growing by 4 | `Sound` (blocks handed out once and apart; a heap, with the rover at a block of it), `SearchComplete`, `AllocatorSpec` |
| `driver_parts`, its judge | 3 ids, 4 requests, any answer in a heap of 6 bytes, all modes | `ListTrue`, `CaughtByData` |
| its session | 3 traces, every option, outcome and weight, the alarm anywhere | `PointsMeanAllWell`, `NeverReentered`, `PartsEnd` |
| its clock | words of 2 bits, interrupts 9 or more cycles apart, 2 best of 3 samples | `Measured`, `PartsEnd` |
| its widths | 3 calls, every size of an 8-bit `size_t`, 7-bit `int` | `RightBelowWidth`: up to 16 below the width of a tag a request is granted, with enough, exactly when there is room; if not, `mm_malloc` answers `NULL` and `mm_calloc` crashes |
| `session_jump` | 2 traces | violates `TimeoutHandled` |
| `cache_lab`, simulator | 2 sets of 2 and of 3 lines, 6 accesses to 6 addresses | `TypeOK`, `NoAlias`, `LruSpec`, `Inclusion` |
| its transpose | 32x32, 64x64, 32x64 and 61x67, the real cache, A and B an even number of caches apart | `Transposed`, `Misses` |
| its grading | 2 sizes, 2 functions: the submission right, wrong, crashing or hanging, the other right or hanging; both shells; with and without an alarm anywhere and a simulator that fails | `ScoreEarned`, `DriverFinishes` |
| `trans_hang` | a size, a function that may hang, an alarm | violates `GivesUp` |
| `shell_lab`, alone | a shell, 3 of 11 commands, children killed and stopped | `RedirectionSpec` |
| failing | a shell, 2 commands, with crashes, and forks and writes that fail | with all scenes: `TypeOK`, `CommandsEnd` |
| restarted | a shell killed anywhere, then another, 2 commands each, two directories | with alone: `NothingLost` |
| side by side | two shells, 2 commands each | with all scenes: `NoClobber` |
| interrupted | two shells side by side, a command each, children killed | with all scenes: `NoClobber` |
| its lines | every batch file of up to 3 lines in up to 5 bytes, buffers of 2 and 5 bytes, up to 2 children a line, 4 lines run | `LinesInOrder`, `BatchEnds` |
| its words | every command of up to 5 characters | `WordsAreMeant` |
| `shell_byte` | a program that prints 0xFF | violates `MergeKeepsAll` |
| `bit_lab`, puzzles | every argument of 8 bits; `conditional`'s last two from 7 samples | `SolutionsAgree` |
| its btest | functions of no, one and two arguments, sampled and exhaustive ranges, the alarm anywhere | `BoundsTested`, `BTestEnds` |
| its driver | 3 puzzles, each legal or not, short or not, right, wrong or hanging; any command fails, the unchecked copies too | `PointsForRight` |
| `bit_example` | `satMul2` on every argument of 8 bits | violates `SatMul2Examples` |

The properties of the side-by-side modules are conjunctions of those that the parts'
own modules state and explain: `ListTrue` of `RangesExact` and `OnlyEnclosed`, `Measured` of
`KBest`, `CallibratedWell` and `CountedWell`, `ScoreEarned` of `ScoreTrue`,
`PointsValidated` and `OwnTrace`, `DriverFinishes` of `TestTransEnds` and `DriverEnds`,
`LinesInOrder` of `LinesOnce` and `NoByteSkipped`, `WordsAreMeant` of the property of that
name and `CopyFits`, `PartsEnd` of `TimeoutEnds` and `MeasurementEnds`, and so on.  `PROJECT.json` has for each property, and
for most of their conjuncts, a mutant of the code that violates it.

**Why the bounds suffice to be interesting.**  The smallest block of `mm.c` is 4 words and
the heap starts with 12, so with three ids every case of `coalesce` (no, next,
previous, both neighbours free), a split, an exact fit and a fit two words too
tight to split, a growth that merges with a free last block and one that does not,
a realloc that copies the whole old block, and a refused growth, inside
`mm_malloc` and inside `mm_realloc`, all occur within six requests.  Request
size 60 makes `mm_client` ask for more than a chunk.  Payload words look like tags (odd and
even, small), so a tag read from a payload would be taken for one.  A second
trace on the first one's leftovers is in `mm_client`, and in `perf` the second and
third pass.  Three draft ids in 16 words split, merge and run out.  For the judge
a payload of 4 bytes can enclose, overlap or miss one of 1, on either side.
For the widths the heap is smaller than an `int` and an `int` than a `size_t`, as in
the build.  The clock wraps in its low word and in its high one, and
an interrupt fits between any two readings.

In `cache_lab` one set has more blocks than lines, the other has one, and one
block has two addresses.  The transpose is not scaled: sizes, blocks and cache are the
code's, so its one behaviour per size is the whole question.  In its grading a size
has its own number of accesses, so a score with those of another shows.

In `shell_lab` a file has one stdio buffer, so a write is one step that may be lost as a whole.
The inodes are as many as the files and commands can make.
In the scene *restarted* the second shell starts when the orphaned child has ended
(`together` is false); side by side, nothing is killed.  `NothingLost` speaks of
the scenes with one shell at a time whose writes succeed, `RedirectionSpec` of
*alone*.  In a batch file of 5 bytes a line is from one byte, the newline, to five, and a buffer of 2
cuts it at any place, while one of 5 holds the file; after two children that fail
the stream begins in mid-line.  A command of 5 characters is copied to 7, which two signs
outgrow.  The solutions of the puzzles use the width of a word only through shift counts
and constants, which the models derive from `W`; 8 bits hold four bytes of 2 bits
and keep bits of its own kind on either side of every boundary that the code mentions.

`CHECK_DEADLOCK FALSE` where it stands: a trace, a session, a batch ends, and so
does the program.

### Fairness

Fairness is assumed where a run has a liveness property, and only for steps of
running programs and of the kernel, never for requests, commands, crashes or kills.

- `mm_client`: the driver is a single thread of straight code.  `FairSpec` is weak
  fairness of the steps of a call, with the condition that enables them
  (`pc # "idle"`) written out.  `CallsReturn` then says that `find_fit`'s walk ends.
- `shell_lab`: the parent's steps are scheduled (WF); somebody continues a stopped child
  (WF), and since it may be stopped again and again its own steps need SF.  Its readers'
  lines: WF.
- `driver_parts`, `bit_lab`, `cache_lab`, `trans_hang`: the program runs on (WF of its
  steps) and a timer that was set rings (WF of the alarm or interrupt), each in the
  part it belongs to.  A solution or allocator that hangs has no steps, so only
  the alarm ends it.  test-trans, tracegen and the alarm are fair each by itself, since they are
  processes of their own.

### Refinement

`AllocatorSpec` maps each id to the region its client may use,
with the words in it: an id gains its region when `mm_malloc` returns, and
loses it in `mm_free`.  On top of `Allocator!Spec` it demands that only
`AllocReturn` and `ReallocReturn`, where the driver fills payloads, take
`Allocator!Write` steps.  The three allocators implement the same
abstract one.  `LruSpec` says for each event which abstract access it is:
`[][Next]` alone would let a miss of one block pass for a hit of another.
`RedirectionSpec` maps the dozen system calls of a command to a few
steps: the file is made, written, or has the output put in front of it, which
happens at the `remove` of the original, from when on `newfile.txt` stands for it.
It demands the whole output: a `Prepend` of less, or an end of a command before its output is
where it belongs, is a step of `Redirections` only when the program was killed before.

### Findings

Four runs show the code do what a comment of it rules out; `PROJECT.json` quotes each.

- `session_jump`: an alarm outside `run_tests` jumps to where nothing handles it.
- `shell_byte`: the merge stops at 0xFF, and the rest of that file is removed.
- `trans_hang`: test-trans times out on a function that hangs, but the shell that it leaves
  behind holds the pipe, and `driver.py` waits for its end for ever.
- `bit_example`: the comment of `satMul2` has it give TMin for 0x60000000; the solution and its
  reference in `tests.c` give TMax.

Other places where the models do what the code does although a comment next to it
says more; no run asserts the comment, and the properties above hold in spite of them:

- a payload around another passes the range list (`mdriver.c:569`; `OnlyEnclosed`
  says that this is the only overlap that does);
- a garbled trace counts as valid (`mdriver.c:683`), but earns no points
  (`PointsMeanAllWell`); a trace that timed out counts in the aggregates (`:460`);
- a request near the width of an `int` is granted with too small a block
  (`mm.c:195`; `RightBelowWidth` says from where on), and `mm_calloc` clears the `NULL` of
  a request that failed (`mm.c:488`);
- with a `tmp.txt` in the way the output of `>+` goes to the terminal (`myshell.c:150`),
  and the formatted command has no terminator (`:70`);
- a command with many signs is copied past the memory of its copy before it is refused
  (`myshell.c:70-99`; `CopyFits` says that only such a command is);
- a batch file in which a child fails may have lines run again, or fragments of lines run
  (`myshell.c:278`, `:329`), unless it fits a buffer and ends in an exit (`LinesOnce`);
- an alarm of one test may ring in the next (`btest.c:357`), and a failed copy has
  illegal solutions scored (`driver.pl:187`);
- with a shell that execs its command, a transpose may be scored with the accesses of an
  orphaned process, or although it crashed (`test-trans.c:190`, `:74`); with a simulator that
  fails, with old results (`:144`).  The guards of `ScoreTrue` and `OwnTrace` say so.

## 4. Proofs

All constants are arbitrary, under the named assumptions: `MemAssumption` (the
heap is doubleword aligned, not at `NULL`, and its addresses fit a word),
`ChunkAssumption` (a chunk holds a block, and `mm_init`'s first growth fits),
`DriverAssumption` (the data are words, sizes are naturals), `ClientAssumption` (the
same of the drafts' client, and the heap's size in bytes fits a word, in which
`mm-naive.c` keeps sizes), `BatchAssumption` (a buffer holds a byte at least, and the
bounds are naturals), `InputAssumption` (commands are made of blanks, signs and other
characters),
`CsimAssumption` (at least two sets and one line), `PairAssumption` (the smaller
cache has no more lines), `RangeAssumption` (the
heap's size and the requests' are naturals), `TimingAssumption` (the timer is slow enough
that a run of `f` or a gap between two readings of `callibrate` sees one
interrupt at most, as the threshold of `clock.c` takes for granted, and the counter
so wide that neither takes a round of it), of `PartsAssumption` a session's (there
is a trace, and errors are counted at least to one) and the widths' (an `int` is no wider
than a `size_t`, the heap fits an `int`, and the first chunk fits the heap), and
`ShellAssumption` (home is a directory, and users name neither `tmp.txt` nor
`newfile.txt`, the files that the shell keeps for itself, and that "no file" is none).  Two theorems about the
shell have a hypothesis besides, `NoEof`: no program prints the byte 0xFF.  It is needed,
as the run `shell_byte` shows, and true of any program that prints text.

| theorem | says |
|---|---|
| `MDriverProof!TypeCorrect` | `Spec => []TypeOK`: no write leaves the heap, no stored value outgrows a word |
| `MDriverProof!DriverIsSatisfied` | `Spec => []DriverSatisfied`: the driver reports nothing but exhaustion |
| `MDriverProof!HeapCorrect` | at every step some set of blocks tiles the heap, is coalesced, and its free blocks are exactly an acyclic doubly linked list from the root |
| `MDriverProof!AlwaysTiled`, `AlwaysCoalesced`, `AlwaysListed` | `HeapTiled`, `NoFreeNeighbours` and `FreeListExact`: the same of the blocks and the list that are found by walking the memory |
| `MDriverProof!AlwaysAccounted` | `Spec => []NoLeak`: every allocated block is that of a live id or of the running call |
| `MDriverProof!AlwaysFullOnMiss` | `Spec => []MissMeansFull`: when `find_fit` misses, no free block of the heap is large enough |
| `MDriverProof!IsAllocator` | `Spec => AllocatorSpec`: `mm.c` under its driver implements the abstract allocator |
| `MDriverProof!ReplaysAlwaysTrue` | `PerfSpec => []ReplaysTrue`: both replays of a checked trace get the answers that were checked, none runs out of memory, and utilisation is at most 1 |
| `Allocator!NeverOverlap` | any package that keeps `Allocator`'s promises never lets two regions overlap |
| `DraftProof!DraftsSound` | `Spec => []Sound`: what `mm-implicit.c`, with either search, and `mm-naive.c` hand out is handed out once: no two blocks share a word, each is aligned, in the heap and large enough; `mm-implicit.c` loses none and keeps a heap |
| `DraftProof!DraftsSearchComplete` | `Spec => []SearchComplete`: when the search of `mm-implicit.c` misses, no free block is large enough |
| `DraftProof!DraftsAreAllocators` | `Spec => AllocatorSpec`: both drafts implement the abstract allocator |
| `DriverPartsProof!OverlapsCaught` | `PartsSpec => []CaughtByData`: whatever the allocator answers, an overlap is reported once everything is freed |
| `DriverPartsProof!ListStaysTrue` | `PartsSpec => []ListTrue`: the range list is the payloads held, each once, and only one around another passes it |
| `DriverPartsProof!NeverCalledAgain`, `PointsAreEarned` | `NeverReentered` and `PointsMeanAllWell`, for any number of traces, any errors and a signal at any step |
| `DriverPartsProof!SizesAnswered` | `PartsSpec => []RightBelowWidth`: for every pair of widths and every heap that fits, a request up to 16 below the width of a tag is granted, with enough, exactly when the heap has room; otherwise `mm_malloc` answers `NULL` and `mm_calloc` ends the program |
| `DriverPartsProof!MeasuredWell` | `PartsSpec => []Measured`: `fcyc` keeps the `K` best of its samples and stops when they agree, a reading across a wrap of the counter is exact but for interrupts, and a calibrated tick is off by no more than the threshold |
| `CsimProof!TypeCorrect`, `CsimProof!LinesApart` | `TypeOK` and `NoAlias` of the simulator, for every geometry |
| `CsimProof!IsLru` | `Spec => LruSpec`: the simulator implements the abstract LRU cache |
| `CsimProof!LargerHoldsMore` | `PairSpec => []Inclusion`: a cache with more lines never does worse |
| `ShellProof!TypeCorrect` | `Spec => []TypeOK`: types, one name per file, a child only of a shell that waits or is gone |
| `ShellProof!NobodyClobbers` | `Spec => NoClobber`: shells side by side, crashes, kills and failures in any order |
| `ShellProof!MergeLosesNothing` | `NoEof => (Spec => NothingLost)`: a crash between any two calls of a merge loses no contents |
| `ShellProof!IsRedirections` | `NoEof => (Spec => RedirectionSpec)`: a shell that is alone implements the redirections of `Redirections`, with the whole output in place at the end of each command whose program was not killed; of other scenes it says nothing |
| `InputProof!ReaderInOrder` | `InputSpec => []LinesInOrder`: no byte of a batch file is passed over; and a file like the tests', or one no child of which fails, is run line by line: whole, once each, in order |
| `InputProof!CopyStaysShort` | `InputSpec => []Words!CopyFits`: `format_redirection` writes nothing behind the memory of its copy, unless the command has a second sign |

**The argument for `mm.c`.**  None of the properties is inductive.  That a write
to a payload does not hit a tag needs the tiling; that `coalesce` may trust a
neighbour's tag needs the tiling; that `REMOVE_BLOCK` may follow links needs
the free list to be exact; and that `place` may split the block `find_fit` returned
needs the cursor to be a free block throughout the walk.  So
`IInv == TypeOK /\ DriverSatisfied /\ Ids /\ Control /\ HeapInv`, where `HeapInv`
says that for some set of blocks `B` the memory is a heap, every live id owns a
block of `B` large enough and still filled with its data, and `Control` and `Ids`
tie the driver's tables to where the call stands.  Two more conjuncts carry what the
state alone forgets: every allocated block of `B` belongs to somebody (`Taken`
within `Ours`), and in `find_fit` there is a set of free blocks too small for the
request that the walk has passed, from which links lead only into it or to the cursor
(`Passed`); at a miss, where the cursor is `NULL`, it is therefore the whole
list.  The set `B` is a bound
variable, so none of these steps needs the walk that computes it.

The lemmas come in layers, all but the last in `MmHeapProof`: `LIFO_INSERT` and `REMOVE_BLOCK` keep a
doubly linked list; tilings as a function from block to
size; joining two blocks, splitting one and growing the heap keep them; and
the four cases of `coalesce`, brought together in
`CoalesceFreed`; `mm_free`, `place`, `extend_heap` and `mm_init` take
heaps to heaps and disturb no payload (`FreeGood`, `PlaceGood`, `ExtendGood`,
`InitGood`, `PayloadGood`).  `MDriverProof` has one lemma per action.

Next in `MmHeapProof` are the two walks that the properties of the runs use,
`blocks_from` and `free_list`, recursive functions over memory.  The library's
induction rules cannot be instantiated here, so induction is by the least element of a set
of counterexamples (`WFMin` on `<`, whose hypothesis is a set and no operator), and a
recursive function is shown to exist by building it: on a heap, the function that
the tiling or the ranks describe satisfies the recursion.  Hence `WalkFindsBlocks`:
the walk over sizes finds exactly the `B` of the invariant, and `FreeListWhole`.

The refinement maps a live id to the region of its block.  In a reachable state the
words of that region are the id's data (`Filled`), so `RegionsSeen` says the mapped
state without the memory, and a step of the driver is compared with one of the
abstract allocator by what it does to the tables alone: a return of `mm_malloc` or `mm_realloc`
grants a region apart from all others (`Placing`), a call that loses a block
frees it (`LostIsFree`), the fill is the client's write, and all steps of
`find_fit` and of a refused request stutter (`StutterRegions`).

**The argument for the replays.**  A replay runs on what the run before left in memory
and fills no payload, so its memory differs from the one that was checked almost
everywhere.  Two heaps are `Alike` when they have the same blocks, sizes and allocated
bits and agree on the tags, the root and the links of the free blocks.  The last
part of `MmHeapProof` shows that each routine takes heaps that are alike to heaps that are
alike, and that `mm_init` makes any two memories alike.  So a step of a call is a
function of the state up to likeness: `After(s, e)` is what one step makes of `s` while entry
`e` of the log is carried out (`StepIsAfter`, `CallIsAfter`, `AfterAlike`).

`ReplaysTrue` is not inductive, as it says nothing of what was checked.  `PerfInv` remembers
that run: while `eval_mm_valid` works there is a sequence `h` of states, each
`After` the one before, and beside it the counts `c` that `eval_mm_util` would make of the
same entries (`Recorded`, `Witnessed`); while a replay works, the present state is the
same as some `h[k]`, and in `eval_mm_util` its counts are `c[k]` (`Replays`).  Since the
last step of each entry in `h` was answered with the pointer in the log, so is the replay's
(`ReplayMoves`).  Utilisation is bounded by `HeldFits`: the bytes of the payloads held, counted
as pairs of an id and a number, are mapped one to one to bytes of the heap, for
payloads are apart and inside it; and the heap only grows (`BrkGrows`), so
an earlier peak stays below a later break.

**The argument for the drafts.**  The client's invariant is `Good`.  For `mm-implicit.c` it is a
tiling again: pieces `B` of sizes `S`, of which `A` says which are
allocated, tags that agree with them, no two free neighbours, every held payload a
piece that is large enough; with `NEXT_FIT` the rover is
the start of a piece or the break, which is why `coalesce` has to move it when it
swallows the piece under it (`Merging`).  No list says
which pieces are free, so `SearchComplete` is about the search itself: `SearchStops` says
that it stops at the first piece that stops it, a round from the rover passes
every piece, and `FindFitGood` puts the two halves together.  For `mm-naive.c`
it is payloads apart, below the break, each with its size in front, where
`mm_realloc` looks for it.  A call keeps what other payloads hold (`MallocKeeps`,
`FreeKeeps`, `ReallocKeeps`), which is what the
steps of the abstract allocator promise (`StepPromised`).  That nothing is handed out twice is
read off either state (`InvHandedOutOnce`): held payloads are different pieces of a tiling, or
payloads apart with the word of their size.

**The argument for `csim.c`.**  An event is an access that takes one line: one
that holds the block, an invalid one, or an oldest one (`Takes`); it leaves
that line valid with the block's tag and the event's index (`After`), larger than every
stamp before, so lines stay apart (`AccessApart`).  That `which_block`
finds a set of the cache for every address is `SetOfBlock`; the law of exponents it needs,
which no backend knows, is `PowerSum`, proved by counting the subsets of `m + n` things.
For `IsLru` the lines of a set are numbered by how many are at least as new
(`Ranks`: a bijection), and `OrderMoves` shows that an access moves exactly what
is in front of the line it takes.  For `Inclusion` the invariant
`Nested` says more than that the larger cache holds what the smaller one does: the
stamps agree, and what only the larger holds is older than everything in the
smaller, which is then full.  That the smaller cache cannot have room for a block
for which the larger must evict is the pigeonhole principle (`RoomInside`).

**The argument for the driver's checks.**  `CaughtByData` speaks of the past and of
the end, so it needs `Struck`: until a garbled payload is reported, every id that
was ever overlapped is still held and garbled.  It is kept because a fill puts the data
of its own id wherever it strikes (`FillGarbles`), because whatever a realloc
copied, right or not, lies under the fill that follows (`CopyUnderFill`), and because an
id that was struck cannot be freed or moved without being looked at (`LookReports`).
The range list plays no part in it.

For `ListTrue` the list is compared with the ids held (`lists`): its records are
their payloads, as many as there are ids, and no two begin at one address, so that
`remove_range`, which looks for an address only, unlinks the right one (`Removed`,
`Added`).  That no two begin at one address is what `add_range` does see; what it
does not is a payload around another (`MissedByEnds`), which the fill garbles.

**The argument for a session and for the sizes.**  `SessionInv` says that while no error is
counted no jump was taken and every trace up to the loop's is valid
(`ValidSoFar`), and that the records held are those of the trace in use and after
the one jump at most one trace's more (`RecordsKept`).  The sums are equal
because they are then over the same traces.  For the sizes, `asize` is
exact up to the bound (`RoundedUp`), what `mem_sbrk` gets is what was meant, or
negative and then too much for the heap (`Asked`), so `mm_malloc` grows the heap exactly when that
leaves room (`RoomIs`), and the block that `place` gets is large enough (`Placed`);
`MallocRight` puts them together, and `mm_calloc` differs only where `mm_malloc` fails.

**The argument for the clock.**  `CounterReads` says that the subtraction with borrow of two
readings, word by word, is their difference modulo the counter, so what
matters is that fewer cycles than the counter holds have passed: `Since` counts them.
`ClockInv` says where an interrupt may have come.  One at most
fits in a gap between two readings (`Gap`), and its tick may be seen by
`callibrate` before its cycles are (`GapRead`); the last reading is then at most a threshold
from the end of an interrupt (`Recent`), and a new gap longer than that is one
interrupt and a threshold.  `RunOfF` says the same of a run of `f` and the ticks subtracted from it.
For `KBest` the invariant (`Kept`, `Best`) has an injection from the values kept to the
samples they came from, such that every other sample is no less than the `K`-th value;
`SampleAdded` is the insertion, `KeptBest` turns the injection
into the property's counts, and by `AgreedNear` values that agree are near the
least of all samples.  It rests on the timer being slow (below).

**The argument for the shell.**  Three invariants build on each other.  `IInv` holds for any
shells: files have one name (`OneName`); two children never share a file
(`OwnFiles`), for a child has only what `open` created for it, a file that was neither
named nor open before; and `InTurn` ties a child to a parent that waits or is gone, and a
merge to the descriptors that it holds.  `NoClobber` follows from `OwnFiles`.

`MergeInv` is about shells that take turns and whose writes succeed (`Calm`), killed or
not: one process at a time is active, and `Held` says at each call of a merge which file
holds what.  When the buffer is written `newfile.txt` is empty; when the original is
removed `newfile.txt` ends with all that it held; from then until
`rename` the name is vacant.  So each removal and each renaming loses nothing
(`KeptInMerge`), and neither does a crash before or after it; the next merge may
truncate a left-over `newfile.txt`, which is the property's exception.

`SoloInv` is about a shell that is alone.  It adds what the child has printed: a file that
a child has open holds, with what is left to print, what the command prints (`Writing`);
`tmp.txt` holds a prefix of it until it is merged (`TmpHeld`), and all of it once the
child has ended and was not killed (`Whole`); and what is in the buffer and then in
`newfile.txt` is such a prefix, or the whole, in front of the original (`Combined`).  That the file
which the command names is there is `Present`, for the end of a command with `>`.  `View` says
the mapped state without its choices, and each system call has a lemma that
compares: the parent's fork is `Begin`, the child's `open` is `Make`, a write
`Fill`, its exit `Filled`, a signal `Killed`; the `remove` of the original is
`Prepend`, of the whole output by `Combined` unless there was a signal; the step back to
the prompt is `End`, whose demand is `Present` and that the merge has come to its end;
all others stutter.

**The argument for the shell's readers.**  Whatever fails, the offset is at most where the
stream's buffer ends, since a child only moves it back; that is `NoByteSkipped`.
`BatchInv` says besides, of the files for which order is promised, that the reader is
right behind some line (`Behind`): what getline has so far begins where that line ends and is not a
whole line, and all lines up to it have been run, once and in order (`UpTo`).  It is
kept by a buffer that is filled and by a part that is held, because the offset is then where
the stream stopped: no child fails (`NotMoved`), or the file is read at once and the line
that empties the buffer is the `exit` (`AtOnce`).  So the line that is taken is always the
next one (`NextLine`).  In the reader of words `j` is `i` and two more for each
sign seen, so with one sign the copy ends within its memory (`CopyInv`).

**Only model-checked.**  The transpose and its grading, whose numbers are those of four matrices; `WordsAreMeant`, where the words of a command
are folds over characters; the puzzles, which are about all
words of eight bits, and their harness, whose scores are folds.  Liveness (`CallsReturn`, `CommandsEnd`, `BatchEnds`, `PartsEnd`,
`BTestEnds`, `DriverFinishes`) is out of the prover's reach and stays
with TLC; the rank in `HeapCorrect` is the reason `CallsReturn` holds.

## 5. Not modelled

- *Input and output*: `read_trace`, `getopt`, trace files, printing, grading by
  `grade.py`, posting of results by `Driverlib.pm`.
- *External programs*: valgrind, `csim-ref`, `test-csim` and `dlc` are binaries; the
  models take from them what the sources use.
- *Drafts of the allocator* that are not built: `mm1.c`, `mm.c.c`, `mmtry.c`
  (one unfinished segregated list), `mm-argh.c`, `mm-explicit.c` (which does not
  compile), `mm2.c` (an earlier `mm.c`), `mm-orig.c` (the handout).
- *Widths*: addresses of more than a word; a cache with one set, in which
  `which_block` shifts by 64, which C leaves undefined.
- *Shell*: an interactive line of more than 99 characters, which is read in pieces;
  commands of more than 254 words; a failing `fclose` beyond being reported.
- *Timing*: the clock rate, runs of `f` that last longer than a timer's tick, and
  `ftimer.c`, which the build does not use.
- *Puzzles*: floating point, which no puzzle of `bits.c` has, and btest's options
  for single arguments.

## 6. Plan

1. *Proofs*: `PointsValidated` of `test-trans.c`.
2. *Shell*: crashes side by side with other shells, once the property says which
   contents a shared `tmp.txt` may cost.
3. *Drafts*: the segregated list of `mm1.c`, once it is finished.
