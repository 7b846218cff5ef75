# Verification of the textbooks repository

The repository holds solved exercises of two books: small C programs for *The
Linux Programming Interface* (`tlpi/`) and Scheme programs for *Structure and
Interpretation of Computer Programs* (`SICP/`).  There is no test suite.  Each
program is a system of its own; what several of them share is the kernel they
run on (files, signals, sockets, the program break) and, on the Scheme side, the
evaluator they are variations of.  The programs whose behaviour depends on
something that running them once does not show - other processes, signals,
failures, long call sequences - are the ones modelled first.

Paths below are relative to `src/`.

## Inventory

| Component | State | Operations | Hard part | What makes it correct |
|---|---|---|---|---|
| Allocator `tlpi/c7/7.2.c` | free list through the blocks, program break | `c_malloc`, `c_free`, `pop_from_free_list` | long call sequences, sizes, links inside memory the client writes | grants never overlap, the list holds free blocks once, free memory at the top goes back |
| Appenders `tlpi/c5/5_3.c` | file, one offset per process | open, lseek, write, close | two system calls that others come between | no byte of anybody is lost with O_APPEND; what may be lost without |
| Signal receiver `tlpi/c20/20.1.c` | pending set, mask, running handlers, counters | handler, install, block, show, unblock, loop, report | nested handlers, a non-atomic increment, merging of signals | counts are exact, nothing pending vanishes, SIGINT ends it |
| Pausing `tlpi/c20/20.2.c` | dispositions, loop counter | handler, pause, ignore SIGUSR1 | signals between two pauses, loop bound | the announced number of signals |
| Handlers with flags `tlpi/c20/20.3.c`, `20.4.c` | dispositions, running handlers | SA_RESETHAND, SA_NODEFER, two pauses; siginterrupt | a signal between the invitation and the pause; a handler that its own signal interrupts | the first handler runs once, the demonstration ends |
| Stream server and client `tlpi/c57/us_xfr_*.c` | listening queue, connections, buffers, stdout | bind, listen, accept, read, write, close; connect, copy, exit | concurrency, deaths on both sides, short reads, blocking | one client at a time, no byte lost or reordered, everybody served |
| Datagram sockets `tlpi/c57/unix_domain_datagram_sock.c`, `57.4.c` | bounded datagram queue | sendto, recvfrom, connect, fork | a full queue, truncation, a socket connected to itself | sender blocked only by a full queue; the parent receives c's message |
| File copiers `tlpi/c4/*.c`, `c13/13.1.c`, `c13/13.2.c`, `c49/49.1.c` | two files, offsets | read and write loops | partial writes, holes, existing destinations, end of file | the destination equals the source, or the program fails |
| Descriptors `tlpi/c5/5_1.c`, `5_2.c`, `5_4.c`, `5_5.c`, `c13/13.4.md` | descriptor table, open file descriptions | open, dup, dup2 from fcntl, lseek, write | sharing of offsets, close before duplicate | dup shares offset and flags, dup2 lands on the asked number |
| Vectored I/O `tlpi/c5/5_7.c` | file, buffers | writeToFile, writev, readv | a temporary buffer that may be too short or too long | bytes come back in order, into the right buffers |
| Tail `tlpi/c13/13.5.c` | descriptor's offset, window | seek, read windows backwards, print | window boundaries, a file that grows | the last lines, to the file's end |
| Number helpers `tlpi/lib/get_num.c` | - | getInt, getLong | - | pure range checks |
| Environment `tlpi/c6/6.3.c` | `environ` array | setenv, unsetenv | shifting while iterating | a map from names to values |
| Error functions `tlpi/lib/error_functions.c` | stdio's buffer, errno, exit handlers | errMsg, errExit, err_exit, errExitEN, fatal, usageErr, cmdLineErr | buffers and handlers inherited by fork, order of stdout and stderr, abort | nothing printed twice or out of order, errno preserved |
| Evaluators `SICP/chapter3/evaluator.scm`, `chapter4/metac.scm`, ... | frames with mutable bindings | eval, apply, define, set! | sharing of frames by closures | lexical scope |
| Lazy evaluators `SICP/chapter4/lazy-evaluator.scm`, `partially-lazy-evaluator.scm` | frames, thunks | delay, force, memoize | a thunk forced late or twice | same values as eager evaluation, each thunk evaluated once |
| Amb evaluator `SICP/chapter4/amb-evaluator.scm` | frames, stack of choices | amb, assignment, try-again | undoing effects on backtracking | every choice in order, once |
| Objects with state `SICP/chapter3/3.1-3.22` | closures over variables, mutable pairs | accounts, lists, queues | call sequences, sharing | balances and counters |
| Streams, amb puzzles, chapters 1 and 2 | none | pure procedures | - | equal to their definitions |

How they interact: the C programs share nothing but the kernel.  The copies of
`5_3.c` share a file; the server and its clients share a listening queue and one
byte stream per connection, or the datagram queues of bound sockets; a child that
fails shares its parent's buffered output; the signal programs are one process interrupted by
its own handlers; the allocator shares the program break with libc's `malloc`.

`PROJECT.json` lists every component with its status and every hazard at its
line.

## Modules

| Module | Models | Extends |
|---|---|---|
| `Heap` | what a caller of the allocator relies on | - |
| `Allocator` | `tlpi/c7/7.2.c` | refines `Heap` |
| `MCAllocator` | constants for TLC | `Allocator` |
| `AllocatorProofs` | theorems | `Allocator` |
| `Appenders` | `tlpi/c5/5_3.c` | - |
| `Signals` | the kernel's signals | - |
| `SigReceiver` | `tlpi/c20/20.1.c` | `Signals` |
| `Pauser` | `tlpi/c20/20.2.c` | `Signals` |
| `SigReceiverProofs` | theorems | `SigReceiver` |
| `Transfer` | what the server promises its clients | - |
| `UsXfr` | `tlpi/c57/us_xfr_sv.c`, `us_xfr_cl.c` | refines `Transfer` |
| `UsXfrProofs` | theorems | `UsXfr` |
| `Copiers` | `tlpi/c4/ccp.c`, `cp.c`, `tee.c`, `c13/13.1.c`, `13.2.c`, `c49/49.1.c` | - |
| `MCCopiers`, `CopiersProofs` | constants for TLC; theorems | `Copiers` |
| `ErrorExits`, `ErrorExitsProofs` | `tlpi/lib/error_functions.c`; theorems | - |
| `Descriptors`, `DescriptorsProofs` | `tlpi/c5/5_2.c`, `5_4.c`, `5_5.c`, `5_6.md`; theorems | - |
| `Tail` | `tlpi/c13/13.5.c` | - |
| `EnvMap` | what callers of setenv and unsetenv rely on | - |
| `Environ` | `tlpi/c6/6.3.c` | refines `EnvMap` |
| `Vectored` | `tlpi/c5/5_7.c` | - |
| `Datagrams` | `tlpi/c57/unix_domain_datagram_sock.c`, `57.4.c` | - |
| `Demos` | the four above and `Appenders`, one of which runs | instances of them |
| `MCDemos`, `DemosProofs` | constants for TLC; theorems | `Demos` |
| `Scheme` | expressions, values, environments of the evaluators | - |
| `Amb` | `SICP/chapter4/amb-evaluator.scm` | `Scheme` |
| `Lazy` | `SICP/chapter4/lazy-evaluator.scm`, `partially-lazy-evaluator.scm` | `Scheme` |
| `AmbSearch` | the answers of amb by depth-first search | `Amb` |
| `Substitution` | the answers of the lazy evaluators by substitution | `Lazy` |
| `Evaluators` | the three evaluators, one of which runs | instances of `Amb` and `Lazy` |
| `EvaluatorsProofs` | theorem | `Evaluators` |
| `AmbInputs`, `LazyInputs` | problems and sessions to type in | `Scheme` |
| `MCEvaluators` | the evaluators with these inputs, against their references | `Evaluators` and instances of the references |

### Allocator

`free` is the sequence of blocks that `next` pointers reach from `head`;
`chunk_size` and `previous` are the fields of `free_l`; a block is its address.
`used` (what the client of a block asked for) and `foreign` (bytes libc took from
the same break) are the environment's.  `MallocFirst`, `MallocExtend`,
`MallocReuse` and `MallocSegv` are the paths through `c_malloc`; `Free` is
`c_free` up to its loop, `Shrink` one round of the loop that found a block at the
break, `ShrinkDone` its end.  `ListAfterPop`, `PreviousAfterPop` and `PcAfterPop`
are `pop_from_free_list`: because `previous` is only ever NULL (lines 52 and 99),
popping the i-th entry drops all entries before it, and because the client's data
begins at `previous`, a stale one would be client bytes (`Junk`, leading to the
`wild` state).  sbrk's failure is -1, which the code compares to NULL: `segv`.
Sizes are size_t values stored in an int (`ToInt`).

`Heap` is the caller's view: grants that share no byte.  `Allocator` implements it
with the mapping `Grants`.

### Appenders

One instance per member of `Instances`, each with its mode (`atomic`: started without
`x`), its offset and its counts; `Open`, `OpenFails`, `Seek`, `Write`, `Close` and
`Fail` are the calls of `main`, in its order.  The program writes the same byte each
time; the model names each byte by writer and number so that a loss shows.  `Start`
gives each instance its arguments and the file its bytes.  It runs as one of `Demos`.
`InOrder` is what the modes share: what is left of an instance's bytes is in the order
they were written in.  NoSelfLoss is that and the file's growth by at least what each
has written; AppendsKept adds that with O_APPEND all of them are left.

### Signals, SigReceiver, Pauser

`Signals` is the kernel's part: dispositions, mask, pending counts (at most one
unless real-time), whether the process is stopped, and the stack of running handlers,
each blocking its own signal.  The default action of a signal is to stop the process
(`Stop`), nothing (`Harmless`: SIGCHLD, SIGURG, SIGWINCH, and SIGCONT, which continues
the process in any case) or to end it.  A signal whose action is nothing is dropped when
it is sent, unless it is blocked (`Dropped`); a stop signal and SIGCONT discard what is
pending of the other (`Cancels`); a stopped process is given nothing but SIGKILL.
A handler is only stepped while it is on top, and main only while there is none;
`Deliver` may push a frame between any two steps of either.  `SigReceiver` adds the
handler of `20.1.c` (`Flag` for SIGINT; `Load` and `Store` for `sigCnt[sig]++`) and
main, one action per call or loop round.  The loop of lines 46-53 takes the signals one
after the other, so that each kind may come before its handler is there: it then ends
the process, stops it or is dropped.  `owed` is history: the signals sent when they were
main's to catch (`Expected`: main has passed them, or they would have ended it) and not
caught since; NoSignalVanishes is about these.  `Pauser` is `20.2.c`.

### Transfer, UsXfr

Per server: `spc` (where it is), `cur` (the client of `cfd`), `sbuf`, `out`.  Per
client: `cpc`, what stdin still has, `cbuf`, `written`.  The kernel: `queue` of
connections not yet accepted, `stream` and `link` of each connection.  Each system
call is an action.  `ServerDies` and `ClientDies` cover `errExit`, `fatal` and
kills, with any part of a write done.  `Transfer` says that a server prints one
client at a time, in order, and takes none twice; `OneAtATime` is the refinement.

### Copiers

One run of one of the programs.  The loops share `Read`, `ReadNothing`, `ReadFails`,
`Write`, `WriteFails`; what the programs do differently is in `Truncates`,
`WriteAt`, `GivesUp`, `EndsAtEnd` and the sets in the guards.  `WriteSegment` is one
round of cp's inner loop (a write and an lseek).  `unnoticed` records failures and
short writes that the program goes on after.  `target = "in"` is a copy of a file to
itself.

tee's main prints a line (tee.c:64) to the standard output that the copy goes to.  `output`
is the part of that output that comes from the input, `line` where the line is (with
stdio, out, or lost because writing it failed) and `lineAt` how many bytes of `output`
came before it.  On a terminal it is out at once; otherwise stdio holds it until the
fflush at the end of the loop's first round (line 31) or until tee ends (`Flushes`).
`Line` is part of every step.

### ErrorExits

A process and the children it forks; each prints (`Printf`), fails (`Fail`) and calls
the functions in any order.  `Enter` is the call, `Flush` the fflush(stdout) in
`outputError`, `Show` the message on stderr, `ShowUsage` the second piece of a usage
message, `Return` the end of errMsg, `Terminate` the other functions' end: `exit`,
`_exit` or, with EF_DUMPCORE set, `abort`.  What tells the functions apart is in
`FlushStdout`, `UseExit3`, `Named` and `Usage`.  stdio is external: a buffer of
`BufSize` texts, written when full, copied by fork.  `calls` and `cause` are history.

### Descriptors

A program is the list of calls its main makes (`Programs`); `table` and `descs` are the
kernel's two tables, `content` the files' bytes, each marked with the write it comes
from.  `dup2_fd` is five actions, `Dup2Check` to `Duplicate2`, because it is made of
several system calls; another thread opens and closes descriptors between them
(`OtherOpens`, `OtherCloses`).  dup2_fd's missing return value is a nondeterministic
choice.  `before` is the table at the call.  The files are empty at the start but for
`tmp.out`, which `5_2.c` opens without O_TRUNC and never removes: it has `oldLen` bytes
(`Leftover`), and ContentAsDocumented says where they end up.

### Tail, Environ and EnvMap, Vectored, Datagrams

`Tail` reads a window at a time: `ReadWindow` is one round of the outer loop with the
loop over the window's characters (`Nth` is the newline that ends it).
`Environ` has one action per call and, for c_unsetenv, one per round of its walk over
`environ`, whose entries the library's unsetenv moves down meanwhile (`Kth`, the places
that are kept, in order); `EnvMap` is a map
with Set and Unset, and the mapping `ShownBy` is what getenv finds.  `called` is the
arguments of the last call, in both modules: it ties a Set to the name, the value and the
`overwrite` that c_setenv was called with, and `Stored` says when they have an effect.
`Vectored` has one action per system call and per round of a loop over the buffers:
`Gather` and `Writev` are writev, `Readv`, `Scatter` and `ReadvReturns` are readv, with
`raw_buffer` the bytes of the temporary buffer still to be used, and `RawSize` its length
(`sizeof` of the length field, not the length).  A byte is named by its buffer and place.
`Datagrams` has the processes of both programs, queues of `QueueLength` datagrams and
processes that may be killed.  A failed socketpair ends its program (`NoPair`); no other
socket, bind or fork is tested, so the programs go on without what failed: `SocketPair`
may be left without a receiver, and `Bind` with any of the sockets, names and children.
`Delivered` says which of these a message needs to arrive.

### Scheme, Amb, Lazy

`Amb` is a machine for the continuation-passing evaluator: `success` is a stack of what
is left to do, `fail` the stack of open choices, and each analyzed procedure is an
action (`If`, `Begin`, `Define`, ...) with another for what happens when its value is
there (`Chosen`, `Sequenced`, `Defined`, ...).  `NewProblem`, `TryAgain`, `Answer` and
`NoMoreValues` are the driver loop.  Frames are shared by closures and never undone.
An assignment ends the session, because the procedure that should find the old value is
defined nowhere.

`Lazy` is the same kind of machine for eval and apply: `stack` is the recursion, `Force`
and `ForceThunk` are force-it, `Memoize` what it writes, `Arguments` the splitting of
the operands into thunks (`Delay`) and expressions to evaluate, `Operand` and
`OperandDone` the evaluation of one of these, from the left or from the right.  The
answers are compared with `Value` of `Substitution`, which substitutes.  An environment is
the sequence of its frames' numbers, a chain of pairs the sequence of its elements and its
end, and a thunk is named by the call that made it and its place there.  `Expressions`
is what can be typed, with the parts of each (`Grammar`).  The references are recursive, in
modules that only `MCEvaluators` uses, so that `Evaluators` can be proved about.

## Runs

| Run | Shows | Bounds |
|---|---|---|
| `allocator` | blocks, lost ones included, never overlap each other or libc's memory; a block is as large as its request; no double listing, no stale link; nothing listed is left at the break; the loop ends; `Heap` is implemented | a 16-byte heap, header fields of one byte, requests of 0, 1 and 4 bytes, libc taking 2: room for four blocks of two sizes, enough for a pop from the middle of a list of three and for a hole that is too small; an int of 64 values |
| `allocator_leak` | violated, see Findings | the same |
| `sig_receiver` | exact counts, nothing vanishes that is main's to catch, the report is complete, with what was shown as pending in it; SIGINT ends it unless it is stopped | SIGINT, a real-time signal, SIGTSTP, SIGSTOP, SIGKILL and SIGCONT, one of each kind of default action, with a handler or without; four are sent, so one can repeat while others nest or a stopped process is continued |
| `pauser` | violated, see Findings | three numbers, four sent |
| `us_xfr` | no byte lost, mixed or reordered, also when the client has gone; everybody who ended normally is served; `Transfer` is implemented | two servers, two clients, inputs of 0, 1 and 3 bytes, queue of one, buffers of two, connections of three: partial buffers, waiting in connect and in write, a second server on the same name, dying in each state |
| `copiers` | what each program leaves in its target, when it succeeds and when it fails; which failures go unnoticed; copies of a file to itself; what tee puts on standard output and where its line falls; all but tee end | sources of up to four bytes with null bytes anywhere, three old targets, buffers of two bytes: runs of null bytes within, at the end of and across buffers |
| `copier_nulls` | violated, see Findings | the same |
| `errors` | with children that only use err_exit no text appears twice and only the caller's exit handlers run; messages do not overtake output; errno is kept | one child, buffers of two texts, two texts and two calls: a buffer that is full, half full or empty at the fork, one function called after another |
| `descriptors` | dup2_fd does what was asked or fails in one of two exact ways; files hold what the notes say, and tmp.out what an earlier run left | 26 descriptors (the programs use 25), tmp.out absent or empty, shorter, as long as and longer than the first write; seven of them open to the other thread, which opens two files; two calls of dup2_fd with every combination of three names |
| `demos` | tail prints the last lines of a growing file; setenv and unsetenv implement a map; readv gives back what was written; what a file held before is never lost by appending, with O_APPEND nothing is, without it no instance loses its own bytes, and there are no holes; datagrams arrive if there is somebody to send and to receive them | files of up to 6 bytes and 2 appended, windows of 3, -1 to 3 lines: every position of a newline against a window; lists of three entries with the same name up to three times, two calls; arrays of three buffers of 0 to 3 bytes, a word of 2; two instances of up to three bytes in every mix of modes on an empty file and on one of a byte, so that an offset is stale by one byte to three (the theorems are for any number of instances); queues of two, four datagrams |
| `evaluators` | amb: the values printed are those of depth-first search, in order, each once; lazy: what is delayed or memoized does not change an answer, memoized arguments are evaluated once, the exercises' sessions have the answers written there | amb: six inputs out of twelve problems and try-again: two definitions, a recursive one and closures, retried and abandoned at every point; lazy: three inputs after definitions with each kind of parameter, both evaluators, both orders of evaluation |

Each property of a passing run is broken by at least one plausible change of the
code (`mutants` in `PROJECT.json`): the alternative operators such as `NoneAtHead`
or `TruncatesNone` stand next to the ones they replace and nothing else uses them.

### Fairness

* `allocator`: weak fairness of c_free's loop only; a call that has begun runs on.
  No client has to call anything.
* `sig_receiver`: weak fairness of main, of the handler and of delivery.  Senders
  are not fair: nobody has to send a signal, nor to continue a stopped process.
* `us_xfr`: weak fairness of each process's own steps: the scheduler runs every
  process that can go on.  A client's stdin is taken to go on until it ends.
  Deaths are never forced.
* `copiers`: weak fairness of the program's work, not of failures.
* `demos`: weak fairness of each process of the datagram programs: the scheduler runs
  every process that can go on.  Killing is never forced.
* The safety-only runs assume none.

## Proofs

For every value of the constants that satisfies the named assumptions:

* **Allocator** (`AllocatorProofs`; `SizesAssumption`, and `IntAssumption`: heap and
  requests below two gigabytes, because `hole` is an int).  `IInv` joins TypeOK,
  HeapPartition, PayloadFits, FreeListSound and TopTrimmed.  They need each other:
  lowering the break keeps the partition only because the popped block is the topmost
  and unused one; that it is unused needs the list to be sound; the list stays sound
  only because every listed block has a NULL `previous`; and the sizes are right only
  because int differences do not wrap.  `Refinement` shows that each step maps to a
  grant, a return or a stutter of `Heap`.
* **Signal receiver** (`SigReceiverProofs`; `SignalsAssumption`,
  `SigIntAssumption`).  `HandlersApart` is the strengthening: running handlers are
  for different signals, and a loaded value is still the current one.  Without it a
  nested handler could overwrite a count.  `Dispositions` says that nothing is ever
  ignored, that main has a handler for what it has passed and that a signal that is owed
  has one or would end the process: so what is owed is not dropped when it is sent, and
  its next delivery is its handler's or the end.  `Reporting` carries ReportComplete: what
  was shown as pending can be caught and has been sent, a running handler for SIGINT
  and the flag it sets stand for a caught SIGINT, and `atLoopEnd` is never more than
  what is caught now, which is why a catch during the report is not taken for one the
  report should have.
* **Error functions** (`ErrorExitsProofs`; `ErrorExitsAssumption`).  `IInv` joins TypeOK,
  ErrnoTransparent, `NotYet` and `Flushed` (a process that has not started has nothing,
  one past the flush an empty buffer), `Accounted` (each text is on the terminal or in
  its process's buffer, unless err_exit dropped it), `After` (what a message must come
  after), `LastCall` and `Once`.  CallersTextOnce is not inductive: a text in the
  parent's buffer may also be in a child's, so `Once` says, for discreet children, that
  only the parent's copy can still be written.
* **Descriptors** (`DescriptorsProofs`; `DescriptorsAssumption`).  `IInv` joins `Tables`
  (other descriptors are marked as foreign in the table, so that opening or closing one
  does not touch main's) and `Progress` (where dup2_fd is against the table it found).
  Dup2Exact follows at each of its ends.  `Course` carries ContentAsDocumented: for each
  program of the notes it says which descriptions, offsets and bytes there are after each
  number of calls (`ThreeStage`, `AppendStage`, `SharedStage`), `FirstWrite` and
  `SecondWrite` what the two writes of `5_2.c` make of a file of any length, and `Steady` that another
  thread's calls in between leave these as they are; `NothingToCompare` covers the
  programs that compare nothing.
* **Stream server** (`UsXfrProofs`; `UsXfrAssumption`).  `IInv` joins TypeOK, `OneServer`
  (one server has the name, holds a connection only while it reads or writes, and nobody
  queues where nobody listens), `Connections` (an open connection is in the queue once or
  is the one being served), `Progress` (what a client has written against its input, in
  each of its states), `Waiting` and `Serving` (the bytes of a connection, and of the
  connection and the server's buffer, are a segment of what the client wrote, ending at
  its last byte unless a reset dropped it) and `Printing` (which server has printed a
  client's bytes, and up to which).  NoByteLost joins printed, held and waiting bytes, so
  it is inductive only with the places of all three; that no client's bytes are printed by
  two servers needs the queue.  `Refinement` maps accept, the prints and close to the
  steps of `Transfer` and every other step to a stutter.
* **File copiers** (`CopiersProofs`; `BatchAssumption`, and `FilesAssumption`: files are
  sequences of bytes).  The source itself may be the target, so `IInv` first says when
  it does not change (`Stable`): a write at the offset it was read from writes what is
  there (`InStep`, `Buffered`), unless a write fails or is short.  On top of it lie what a
  program that writes in order has copied (`Copying`), how far tee's output is behind
  (`Echoing`) and where its line is in it (`Lined`), that what ccp.c has copied is whole or
  too short (`Shorter`), what cp has made of a buffer cut at null bytes (`Sparse`) and the mapping
  (`Mapped`).  `Course` says which program gets where and with which failures unnoticed.
* **Tail** (`DemosProofs`; `TailAssumption`: windows longer than one byte; those of one byte
  would begin behind the end of the file and print nothing).  A window is either the first, which may see
  bytes appended since the size was taken, or a later one, and for these `lines` is what
  was asked for less the newlines from the window's end to an end the file had (`First`,
  `Later`, `Reach`).  `Good` is a place with the right number of newlines behind it;
  `Printed` says that the output is the file from such a place.  The lemmas count newlines
  as cardinalities of intervals of places.  This theorem and the next two are about `Demos`:
  the steps of the other demonstrations leave these variables alone.
* **Environment** (`DemosProofs`; `EnvironAssumption`: strings over characters that
  include EQ).  `EnvironInv` has the strengthening: while c_unsetenv walks, no entry of
  the name lies before its place, although the library moves entries down under it.  Each
  step of `Environ` is then one of `EnvMap`, with the same arguments, or changes nothing
  getenv shows.  The lemmas
  say what a string's name is and that getenv's comparison of a prefix finds it
  (`NameIs`, `PrefixIs`), what putenv does to the first entries (`ReplacedIs`,
  `AppendedIs`), and that what unsetenv keeps stays in order, so that the first entry of
  every other name stays the first (`KthOrder`, `RestIs`).

* **Vectored I/O** (`DemosProofs`; `VectoredAssumption`: lengths and the word are natural
  numbers).  `VectoredInv` says with `Laid` where each buffer starts in what has been
  gathered or written (the sums of the lengths, kept as a function that grows with each
  round), that the file is a beginning of that (`Written`), and in readv's loop how many of
  the file's bytes have been given away, in order, to buffers that are full unless none is
  left (`Scattered`).  A whole file then fits the temporary buffer and each buffer's bytes
  begin where the same buffer's began (`Alike`).
* **Appenders** (`DemosProofs`; `AppendersAssumption`: files are sequences of old bytes, a
  hole is none).  `AppendersInv` adds `OffsetBounds` (between lseek and write an offset lies
  behind the instance's own last byte and not behind the end), `Attributed` (every new
  byte has a writer who counted it) and `Unstarted` to the properties; the first carries
  OldKept, NoSelfLoss and NoHoles, and with the second the order of each instance's bytes.
* **Lazy evaluators** (`EvaluatorsProofs`; `LazyGrammar`: the parts of what can be typed can
  be typed).  `MemoizedOnce` holds for every program of the language, however its thunks
  force each other.  `IInv` has two parts.  `Types` says that nothing is ever used that is
  not there: a value is well-formed if it lies in some set of values in which pairs have
  their elements, procedures an environment of existing frames and a body that is an
  expression, and thunks their place in memory (`OK`; a set that is closed under these, so
  that no induction over values is needed); and so are the frames, the thunks, the stack
  and the registers.  `Good` is kept when frames and thunks are added, and neither ever goes.
  `Counts` is the argument itself: a memoized thunk whose evaluation has begun is evaluated
  or has its place to be written to on the stack (`Memos`), what is on the stack has begun,
  and one begun twice was forced while it was on the stack.  At a prompt the stack is empty,
  so what has begun has been written.  EvaluatedOnce alone is not inductive: without `Memos`
  a thunk begun once and not written could be begun again, and without `Types` a write could
  miss its thunk.

Only model-checked: everything temporal beyond invariants and refinement
(`ShrinkTerminates`, `SigintEnds`, `Served`, `Ends`, `Delivered`: liveness is out of the
prover's reach); `AnswersInOrder` and `SameAnswer` (their references, `Results` and `Value`,
are recursive operators, which the prover does not take, and the proofs would be inductions
over expressions); and `AsInExercises`, which is about six sessions only.

## Findings

* `tlpi/c7/7.2.c`: popping a block that is not the head loses every entry before it;
  freed memory at the top of the heap is then not released, as line 103 says it is.
* `tlpi/c20/20.2.c`: `i = 3; while (--i)` pauses twice where the program announces
  three signals.
* `tlpi/c4/cp.c`: null bytes at the end of a file are not copied (line 48 says they
  are written): the last `lseek` does not make the file longer.

The passing runs also show that `tee.c` never ends at the end of its input (it tests for
-1 only); that `ccp.c` and `cp.c` report success after short writes, and that `cp.c`
leaves the old bytes of an existing target; that writev of `5_7.c` writes behind its
temporary buffer as soon as the buffers are longer than a word on average; that
`dup2_fd` has no return value when it works, so that its caller may take success for
failure; that a set! in the amb evaluator ends the session; that printing a dotted pair
ends `lazy-evaluator.scm`; and that a memoized thunk which forces itself is evaluated
twice.

## Not modelled

Printed texts, usage checks and stdio's internals are left out everywhere; only
`ErrorExits` has stdio's buffer, and `Copiers` the line that tee prints between the bytes
it copies.

Three hazards are modelled but no property rules them out, because the code does not.  A
failing sbrk (`7.2.c:48`) leads to the state `segv`, because its -1 is taken for memory.  A
difference of sizes that does not fit an int (`7.2.c:60`): `IntAssumption` keeps the heap
and the requests below two gigabytes, and PayloadFits and ImplementsHeap are about such
heaps.  Buffers longer than a word in `5_7.c:16`: they lead to the state `overrun` or to
a short read, and RoundTrip promises whole buffers only up to a word.

* `Signals`: that a stop signal from the terminal does nothing in an orphaned process
  group; the two signals glibc keeps for itself (32 and 33), which sigaction refuses,
  count as `Uncatchable`.

* `Appenders`: a negative `nbytes`.  `Copiers`: targets that are not regular files and
  the byte that tee stores behind a full buffer.  `UsXfr`: the length check of the
  constant socket path.  `Tail`: a file that is cut while it is read.  `Environ`: the
  strings are short, but every case of the code that depends on them occurs.
* `Amb`: derived forms (cond, let*, named let), quotations and the evaluator's own lazy
  forms; the problems do not nest definitions, and no definition refers to itself before
  it is made, because the reference has no memory.  `Lazy`: cond, which is rewritten to
  if, and the primitives that print or read the clock; sessions whose answers the
  reference compares execute no set! in that input.
* `20.3.c`: two demonstrations of flags, on top of `Signals`, with a handler that is reset
  when it starts (SA_RESETHAND) and one that its own signal may interrupt (SA_NODEFER).
* Handlers call printf (`20.1.c` to `20.3.c`), which may interrupt printf in main: what
  then happens is stdio's.
* Programs with nothing of their own to model: memory mapping and locking
  (`c49/49.3.c`, `49.4.c`, `c50`), those that print addresses or sizes (`c6/6.1.c`,
  `6.2.c`, `c7/7.1.c`), `5_1.c`, `get_num.c`, siginterrupt (`20.4.c`, without a caller)
  and the notes on kernel buffering (`13.3.md`, `13.4.md`).
* The other evaluators of chapters 3 and 4 (their rules are those of `Lazy` with strict
  parameters), streams, the accounts and queues of chapter 3, amb puzzles and the pure
  procedures of chapters 1 and 2: sequential, deterministic and short.

## Plan

What is left, in this order:

1. `20.3.c`: the flags as part of delivery; what is left after each of its two pauses.
2. The derived forms of the amb evaluator, and its thunks on top of `Lazy`.
3. Number parsing (`get_num.c`) against a reference, and the account of `3.4.scm`.
