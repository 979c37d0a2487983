# Verification of the I304 projects

This directory holds TLA+ specifications of the programs in this repository, the
TLC configurations that check them and TLAPS proofs about them. The repository is
five assignments of a course on computer architecture and operating systems: five
programs that share no code. Their core logic is what is specified here, from the
source, with the tests and comments read beside it.

## 1. Inventory

| Component | Code | State | Operations | Interaction |
|---|---|---|---|---|
| Thread pool | `TP5-ThreadPool/src/thread-pool.{h,cc}` | queue of thunks, `done`, one mutex, three condition variables, vector of workers | constructor, `schedule()`, `wait()`, destructor; loops `worker()`, `dispatcher()` | client threads and thunks call it; worker and dispatcher threads share all its state |
| Semaphore | `TP5-ThreadPool/src/Semaphore.{h,cc}` | count, mutex, condition variable | `signal()`, `wait()` | included by the pool's header, used by nobody |
| Parallel sum, tests | `TP5-ThreadPool/src/{main,tptest,tpcustomtest}.cc` | result vector | chunk, schedule, wait, add up | clients of the pool |
| Ring | `TP4-Shell/src/ej1/ring.c` | `n` pipes, one message | fork, read, add one, write, wait | parent and children over pipes |
| Shell | `TP4-Shell/src/ej2/shell.c` | command line, pipes, pids, descriptors of every process | read a line, split it into commands and arguments, replace escapes, pipe, fork, exec, close, wait | shell, its children and the kernel's pipes |
| Disk, inodes, files | `TP3-FileSystem/{diskimg,inode,file,unixfilesystem}.c` | Unix v6 image, read only | read a sector, an inode, look up a block, read a block | called from the top down |
| Checksum | `TP3-FileSystem/chksumfile.c` | SHA-1 context | checksum by number, by path | over the file layer |
| Directories, paths | `TP3-FileSystem/{directory,pathname}.c` | none | find a name, look up a path | over the inode layer |
| Dump | `TP3-FileSystem/diskimageaccess.c` | options | walk the inodes, walk the tree | over everything above |
| ARM simulator | `TP1-ARM/src/*.c` | two CPU state latches, flags, branch flag, run bit, three memory regions | fetch, decode, execute, `run n`, `go`, `input`, dumps | commands from the terminal |
| Binary bomb | `TP2-Bombs/bomb10` | - | phases, in a binary only | - |

What is hard in each, and what makes each correct:

- **Thread pool**. Lost notifications, a queue used from three kinds of threads, a
  shutdown that has to be noticed by threads that are about to sleep. Correct when
  thunks run in order and exactly once, `wait()` wakes, the destructor drains the
  queue and returns, and a scheduled thunk is eventually run.
- **Semaphore**. The gap between the test and the sleep; many sleepers for one permit.
  Correct when it implements an atomic counter that never goes below zero.
- **Ring**. One pipe is both the first and the last hop of the message, and the parent
  reads the pipe it wrote to. Correct when there is one message, it goes round in
  order, and the parent gets it at the end.
- **Shell**. End of file needs every process to close its copies of a pipe; a full pipe
  blocks a command for which the shell is waiting; a failure in the middle of a line. The
  line is cut at bars before anyone looks at quotes, and one flag stands for both quotes.
  Correct when each line ends, its output is whole, nothing is leaked to the next, and each
  command gets the words that were typed.
- **File system**. Arithmetic of block numbers over direct, indirect and doubly indirect
  addresses, at its boundaries; the last partial block; short reads; removed, repeated
  and dangling names, and names so long that no NUL ends them. Correct when the checksum is of exactly the file, each error is
  reported, and the walk shows the tree.
- **ARM simulator**. Two latches of state, one of which is written field by field, and a
  branch flag between them; signed offsets and comparisons done by hand; stores of a byte
  that write four, at the edge of a region. Correct when each cycle starts from equal latches,
  the program counter follows the program, a store changes its own bytes and `HLT` is final.

## 2. Modules

| Module | What it is |
|---|---|
| `TaskPool` | abstract: what `thread-pool.h` promises, a FIFO executor with slots |
| `ThreadPool` | the code of `thread-pool.cc` |
| `ThreadPoolProperties` | its type invariant, safety and liveness properties, its refinement of `TaskPool` |
| `ThreadPoolProofs` | TLAPS proofs of all its safety properties and of the refinement |
| `AtomicSemaphore`, `Semaphore`, `SemaphoreProofs` | abstract counter, the code with its properties, proofs |
| `Ring`, `RingProofs` | `ring.c` with its properties, proofs of the safety ones |
| `ParallelSum` | the chunks of `main.cc`; the theorem that they are a partition is in `ThreadPoolProofs` |
| `CommandLine` | from text to arguments: the parsing of `shell.c`, beside a reference reading of the same text |
| `Shell`, `MCShell`, `ShellProofs` | the pipelines of `shell.c` over `CommandLine`, with properties; the lines that TLC types; proofs about both |
| `InodeGeometry` | the arithmetic of `inode.c` and `file.c` |
| `FileLayer`, `FileLayerProofs` | mounting, and the checksum of one file: `unixfilesystem.c`, `chksumfile.c`, `file.c`, `inode.c`, `diskimg.c`, on `InodeGeometry`; theorems about the arithmetic and proofs of its properties |
| `Dump`, `MCDump`, `DumpProofs` | directories, paths, options and both walks, on `InodeGeometry`, with properties; the images that TLC takes; proofs of all its properties |
| `Cpu`, `MCCpu`, `CpuProofs` | `sim.c`, `execute.c` and the parts of `shell.c` that change state, with properties; its memory regions for TLC; proofs |
| `Decode` | the table of opcodes of `sim.c` and its search; its theorem is in `CpuProofs` |
| `Arithmetic` | lemmas that several of the proofs need: division, powers of two, least elements, functions defined by recursion; no part of any model |

Definitions whose comment says "mutant of" are not part of any model. Each is what the
code would do with a plausible mistake in it, and is there so that every property can
be seen to fail on it.

### ThreadPool

`queueLock` is the thread that holds the mutex. `taskIsAvailable` and `waitForEmpty` are
the sets of threads blocked on these condition variables, so that a notification
removes one member or all. `workerIsAvailable` is left out: nobody ever waits on it.
`pc` says where a thread is; a thread is in `check` when it holds the mutex and is
about to evaluate the predicate of its wait. Because a critical section excludes the
others, it is one step from the point where it holds the mutex; taking the mutex,
blocking, each unlocked access (`while (!done)`, the destructor's notifications) and
executing a thunk are steps of their own.

| Code | Actions |
|---|---|
| constructor | `SpawnWorker` for each worker, then `SpawnDispatcher`; spawned threads run at once |
| `schedule()` | `ScheduleLock`, `SchedulePush` (push, `notify_one`, unlock); by a client or by a running thunk |
| `wait()` | `WaitLock`, `WaitBlock`, `WaitRelock`, `WaitReturn` (`notify_all`, unlock) |
| `worker()` | `AwaitLock`, `AwaitBlock`, `AwaitRelock`, then `AwaitExit` or `WorkerTake`; `WorkerFinish` |
| `dispatcher()` | `DispatcherLoop` (unlocked read of `done`), the same `Await*`, `DispatcherNotify` |
| destructor | `DtorLock`, `DtorSetDone`, `DtorUnlock`, `DtorNotify`, `DtorJoinDispatcher`, `DtorJoinWorker` for each element of `wts`, `DtorReturn` |

`wts(numThreads)` makes as many empty elements as the loop then appends real ones; the
destructor walks over all of them. `SpuriousWake` is what `condition_variable` is
allowed to do. C++ allows the destructor only when no other thread is in a call, hence
the guard of `DtorLock`. A thunk is a number: its position in scheduling order.

### Semaphore

The same conventions. The mutex of `lock_guard` is held from `SignalLock` to `Signal`, and
from `WaitLock` or `WaitRelock` to `WaitBlock` or `WaitTake`.

### Ring

`pipes[i]` is the sequence of messages in a pipe; an integer is written and read
atomically by the kernel. Every process keeps all ends open, so a read blocks. `start`
is any valid one. `fork()` may fail, which the code does not notice: the child is then
"failed" and the parent goes on. `waitpid(-1)` takes any child that has ended and fails
at once when there is none.

### CommandLine

A text is a sequence of characters, and `echo`, `cat` and `-e` are one character each. `parse_arguments()` is a loop over
the text; it is given by the values of its variables at each position (`in_quotes`, `arg_start`, and the positions
`ArgumentEnds` at which it adds an argument), so that no recursion is needed to define it and the proofs
reach it. `Tokens` is what `strtok()` returns, `NullPointer` says which arguments kill the child (none at all, and `echo -e`
without text), and `Executed` what it does with any others. `Quoting` to `Plain` are no
part of the code: they are the usual reading of the same text, in which a quote ends only what the same quote began, and
the texts on which the two must agree. It is not all that a shell does: unquoted backslashes, `||` and a bar at the end of a line
are not among those texts. `Spells` says what the escapes of a word stand for without the loop of the code.

### Shell

`held[p]` is the set of pipe ends process `p` has open. Forking copies it, the child's
`dup2()`s and `close()`s leave the two ends of `Own`, the parent's `close()`s none. The
commands are external: `echo`, a source; `cat`, a filter; and commands that end without reading. A write
blocks when the pipe is full, kills the writer when nobody can read, and a read ends
only when nobody can write. End of input runs the first command of the previous line
again, because the buffer still holds it up to the NUL that `strtok()` wrote. Each child parses its own command
after the fork; `args` holds the result from `ReadLine` on, because it depends on nothing but the text, and
the arguments of `echo` are what travels through the pipes. `parse_arguments()` does not look at the size of `args[]`: when it
writes past the end (`Overruns`) the behaviour is undefined, and the child goes on with any of the arguments in `Wild`, or is
killed. `LineSize`, `MaxCommands` and `MaxArgs` stand for 256, 200 and 100.

### InodeGeometry, FileLayer, Dump

Every number that the code takes from a `#define` or a width is a constant:
`SectorSize` 512, `InodeCount` 16, `AddCount` 256, `SingleCount` 7, `Size1Range` 2^16,
`Size0Range` 2^8. `AddressPath` gives the indices `inode_indexlookup()` follows.
In `FileLayer` a sector is known by the addresses that lead to it, so that reading a wrong
one shows, and `fed` is what SHA-1 was given; `UnixfilesystemInit` reads the two blocks before it. `inode_iget()` reads the sector
of the inode once before the loop (`ChksumfileByinumber`) and again for every block (`GetBlock`), and each of these reads may
fail: one sector is faulty, that of the inode too, from the start or from some block on (`Onsets`). In `Dump` a file is its content,
and an image is any assignment of directories, files and free inodes; which images there are is the constant `Images`, of
which `DumpAssumption` asks that the root is a directory and that the directories, `.` and `..` apart, form a hierarchy at most
`MaxDepth` deep. The code relies on that too: on a cycle of directories its walk does not end. A sector of the i-list may be
`bad`, and an inode may be such that its content cannot be read to the end (`whole` is false): it then has no checksum. `seen` is
what `directory_findname()` gets to see of a directory, which is not what its size says: it scans the whole last sector,
stops at a sector that cannot be read, and takes a block special file for a directory, since `IFBLK` has the bit of `IFDIR`. `work` is the
stack of calls of the recursive walk. A name of `LongNames` fills `d_name`; `sprintf()` then appends what follows in the array
of entries, the number of the next entry up to its first zero byte, or after the last entry what was on the stack.
A component of a path is therefore a name and a tail, and `strncmp()` does not look at the tail, unless there is a `/` in it: that
makes a component of its own. A number has a byte `/` from 303 on, which is 47 and 1; `Tail14` knows both bytes, and in the runs
numbers are to the base 3 and `/` is 1, so that the four inodes have such numbers too. What a tail is when another long name follows,
or nothing, is any of `Tails`.

### Cpu

`current` and `next` are `CURRENT_STATE` and `NEXT_STATE`. `process_instruction()` and `cycle()` are
cut into the execution of an instruction (one action per `execute_*` function, named after it, or
`NoMatch`), `Advance` and `Latch`; `phase` says which comes next. `go`, `run(n)` and `input` are the
commands, `Returned` the end of the loop of `go()` or `run()`. A byte has `ByteBits` bits and a word
eight bytes, and each field of an instruction has its width as a constant, so that the code's
arithmetic is at its own scale but TLC can enumerate it. The text is left
open: a fetch may yield any instruction, whatever came from that address before. This covers every
program; it also covers impossible ones, which is sound for what must always hold. The violation below
needs a single instruction, so it is not an artefact of this. Programs that load or
store their own text are left out. A shift by the whole width (`LSL` with `immr` 0) is undefined in C
and has two outcomes here. Which word is which instruction is in `Decode`. `compared` is a history variable: the operands of the
subtraction that set the flags.

## 3. Runs

| Run | Instance | Distinct states | Result |
|---|---|---|---|
| `ThreadPool` | 2 workers, dispatcher, 2 clients, 3 thunks, 1 wait | 45000 | holds |
| `LostNotify` | 2 workers, 1 client, 2 thunks, 1 wait | | `ScheduledRuns` violated |
| `WaitReturnsEarly` | the same | | `WaitIsForExecution` violated |
| `Semaphore` | 3 threads, 5 signals, 5 waits | 717 | holds |
| `Ring` | 6 children, every start, failing forks | 4740 | holds |
| `Shell` | 2 lines of up to 15 characters: pipelines of up to 4 commands and one of 8, then also every text of up to 4 characters, `echo` of up to 5 and `echo -e` of up to 4; 5 elements of `args[]`, pipes of 1 argument, failures | 92848 | holds |
| `ArgsOverrun` | one command of 199 characters, the real sizes of line and tables | | `ArgsFit` violated |
| `FileLayer` | sectors of 2 bytes and 2 addresses, 2 single indirect blocks, all sizes within them, each sector failing from each block on | 64597 | holds |
| `Dump` | 4 inodes in 2 sectors, 2 names, one of them long, 2 contents, sound images and those with a bad sector or a damaged inode, each combination of `-i` and `-p` | 522046 | holds |
| `DumpSkipsInodes` | the same, sound images only | | `AllAllocatedDumped` violated |
| `Cpu` | words of 8 one-bit bytes, 2 registers, regions of 9 and 4 bytes, 3 cycles, 1 input | 2100899 | holds |
| `AddStaysPut` | the same | | `AddAdvances` violated |

**Thread pool, safety.** `FifoQueue`: the queue holds the thunks scheduled last, oldest
first. `EachThunkOnce`: a thunk that left the queue is finished or in the hands of
exactly one worker. `NoStrandedWait`: nobody sleeps in `wait()` on an empty queue.
`DtorWakesEveryone`: once the destructor has notified, no pool thread sleeps or goes to
sleep again. `DestroyedIsDrained`: when it returns, everything has run, what thunks
scheduled in the meantime included. `ImplementsTaskPool`: all this as a refinement.
With two workers and the dispatcher a notification can reach any of a sleeping worker, a busy one and
the dispatcher; three thunks make a queue that is neither empty nor single while one
is running; two clients let one wait while the other schedules or destroys. The proofs of section 4 cover
every number of workers.

**Thread pool, liveness.** `DtorReturns` needs only that each thread that can run does:
once `done` is set, each thread takes the mutex a bounded number of times.
`AwakeWorkerDrains` also assumes a fair mutex. It is stated as an implication because
the dispatcher, with thunks queued, locks and unlocks without end, and with an
unfair mutex it could keep everybody else out.

**What does not hold.** `ScheduledRuns`: with all threads of the pool asleep, `notify_one()` may choose
the dispatcher, which looks at the queue and notifies a condition variable nobody
waits on. The workers sleep on. The counterexample is a lasso in which the
dispatcher spins. A later
`schedule()` or the destructor wakes a worker, so a test sees it only when it calls `wait()` first, and then hangs. `WaitIsForExecution`: `wait()` returns with thunks still
being executed, which `main.cc` then reads the results of.

**Semaphore.** `NoSleeperWithPermit`, `ImplementsAtomic`, and `WaitReturns`: when there are permits for
every call of `wait()` there can be, each call returns.

**Ring.** `OneMessage` and `RoundFromStart` relate pipes, buffers and program counters; `ResultIsWhole` says that
the parent never prints a partial count, even when forks fail; `Ends` that it prints
`c + n` when none does. When a fork fails the program hangs, so deadlock is not checked.

**Shell.** `CleanPrompt`: at the prompt no child runs and nobody has a pipe open. `OutputIsWhole`:
the line printed what its last non-filter wrote, in order, nothing lost between a full pipe
and a wait. `LineEnds`, `OrphansEnd`: no command waits for an end of file that never comes,
also when the shell died in the middle of a line. Pipes of one argument and `echo` of two make
writers block. `ArgumentsAsTyped`: where quotes enclose whole words, are closed and hold neither the other quote nor
a bar, every command is started with the words that were typed, the escapes of `echo -e` replaced. It leaves out the commands
that do not get as far: those with too many words for `args[]`, blank ones, and `echo -e` alone. The
texts are long enough for two quoted words, an empty one, a quote beside a bar, blanks in quotes and two
escapes in a row. `ShortCommandsFit`: a command takes two characters of the line, an argument two of its command, so that
`commands[200]` has room for all of a line, and `args[100]` for those of a command of up to 198 characters. `ArgsFit` says so of
every command, and fails at the real sizes: the next longer command makes 100 arguments and a NULL, the 255 characters
that `fgets()` lets through up to 128. Deadlock is not checked because the shell may sit at its prompt, or be dead.

**File layer.** `DigestIsOfFile` compares what SHA-1 was fed with the leaves of the address tree read
from left to right, with no arithmetic on block numbers. With two addresses per sector the sizes 0
to 15 reach the empty file, partial and full last blocks, the last single indirect block and the
first and last doubly indirect one. `ErrorsAreReported`: the program fails exactly when the image is no file system (wrong magic number, or one of
its two blocks unreadable or cut off), the inode is free, or a sector cannot be read when it is needed: that of the inode at the
start and for every block, a block's data and what leads to it for that block. Every sector is the faulty one in turn, from the start or
from the block with any number on, so that a sector fails that could be read before. The end of the image is no error in
any of these places but the first two: `read()` returns 0, and `file_getblock()` counts bytes as valid that were not read
(`file.h:7-8` says that it returns "the number of valid bytes in the block"); `DigestIsOfFile` leaves these images out. The run ends, so deadlock is not checked.

**Dump.** An image is well formed if in each directory a live entry is the first of its name, nothing is left behind the last entry
in its sector and there are no more entries than the limit, and if no block special file holds names. Then `WalkIsTree`:
`-p` prints each path of the tree of what can be read once and refuses only removed names and what is free or cannot be read; `DepthFirst` its order;
`LookupIsTree`: pathname lookup agrees with the tree, whatever follows a long name in the path. `WalkIsTree` also asks for `Terminated`:
no long name is the last of its directory or in front of a number of two bytes, one of them `/`, where the tail makes a component of its own and the walk
refuses the name. The images contain all that is excluded. On all images `InodeLinesTrue`: each line of `-i` is true; an inode whose content cannot be read
is left out and the loop goes on (`diskimageaccess.c:108-111`), while one whose own sector cannot be read ends it. `TypeOK` holds on all as well. Contents are only compared,
so the runs use symmetry of `Contents`. The root
directory reaches the limit of entries exactly. `AllAllocatedDumped` fails: the loop
returns at the first free inode, and stops before the last.

**ARM simulator.** `LatchesAgree`: between cycles the latches are equal and no branch is pending.
`BranchesOnComparison`: a conditional branch is taken as the signed operands of the last comparison
compare, any number of instructions later, unless their difference overflows. `PcFollows`: the counter
moves by an instruction, or by the signed offset of a branch, over whole cycles. `StoresAreExact`: a store
changes exactly its bytes of a region; the region of 9 bytes ends in the middle of what the
addresses 16 to 24 and the offsets 0 and -1 make the code write. `ZeroRegister`: only loads and `input` write
register 31. `HaltIsFinal`: no cycle follows `HLT`. Three cycles are enough to make an operand, use it, and
use the result (move, compare, branch; move, store, load). `AddAdvances` fails: `ADD` of registers raises
the branch flag, so the same instruction is executed again. Deadlock is not checked: the simulator may
be halted, or stop at the bound on cycles.

### Fairness

`WF` of a thread's steps is the kernel's scheduler: a thread that stays able to run is run.
Thunks return and clients need not call anything (`ClientCall`, `WaitLock`, `SignalLock` and
`ReadLine` are not fair; neither are spurious wake-ups or failures). `SF` stands for a
mutex that does not pass a thread over for ever. pthread mutexes do not promise it, and the properties
that need it say so: `FairMutexSpec` and the antecedent of `AwakeWorkerDrains`, and `FairSpec` of `Semaphore`. `LostNotify`
uses the stronger one so that the violation is not the mutex's fault.

## 4. Proofs

`ConstantsAssumption`, `SemaphoreAssumption`, `RingAssumption`, `ShellAssumption`, `GeometryAssumption`, `FileLayerAssumption`,
`DumpAssumption` and `CpuAssumption` are all that is assumed; TLC evaluates each in the runs.

**ThreadPool.** All six invariants and the refinement, for any finite non-empty set of workers, any clients and any bounds.
None is inductive alone; even `TypeOK` needs to know that there is room for a thunk being pushed. The inductive invariant `IInv` adds, to `TypeOK`, `FifoQueue`, `EachThunkOnce` and the rest:

- `LockInv`: the mutex is held by exactly the thread whose `pc` is inside a critical section;
- `BlockedInv`: the threads in a wait set are at the blocking point of that wait;
- `HandInv`: a worker has a thunk exactly while it runs one;
- `RoomInv`: a call between locking and pushing was made with room for one more thunk;
- `DoneInv`: `done` is set exactly when the destructor is past setting it;
- `ExitInv`: threads exit only when `done` is set, and once every worker has exited the queue is
  empty. A worker may exit while another one runs a thunk that schedules more; that other
  worker is still there to run them;
- `JoinInv`: the elements of `wts` before `joinAt` have ended, and the workers not
  in `wts` are not born.

`NoStrandedWait` holds because only `WorkerTake` shortens the queue and it notifies when it empties it;
`DtorWakesEveryone` because after `done` no predicate sends a thread to sleep, and the unlock before the
notification cannot let one in. Each fact has one step per action. TLC checked `IInv` before it was proved.

**Semaphore.** `TypeCorrect`, `NoLostWakeup` and the refinement of `AtomicSemaphore`, for any threads, bounds and initial count.

**Ring.** `TypeOK`, `OneMessage`, `RoundFromStart` and `ResultIsWhole`, for any number of children, any message (of
unbounded integers: an overflow of the counter is outside) and any forks that fail. The invariant adds to them

- `Phases`: how far the parent is says which children can exist and whether anything was sent;
- `Counted`: every `waitpid()` that returned took a child, or there was none left;
- `NextInRound`: a full pipe belongs to the child whose turn it is.

`ResultIsWhole` then follows by counting: `n` returns, with no child left over, mean that all have ended.

**Shell.** `TypeOK`, `CleanPrompt`, `ShortCommandsFit`, `OutputIsWhole` and `ArgumentsAsTyped`, for any set of texts, any capacity and any number of commands and lines. The
invariant adds the types of everything a step looks at (`TypeInv`; the elements of a pipe may be of any kind) and, in
`ChildrenInv`, which children exist for each position of the parent, and that one that is not running has no end open.
`ShortCommandsFit` rests on `TokensFit` and `ArgumentsFit`, for every text: the positions at which tokens start,
or arguments end, are never neighbours, which for arguments is a matter of parity (a closing quote is an even one). It needs the array of the line to be no longer than
twice `commands[]`, as `ShellAssumption` says.

`OutputIsWhole` is a statement about the end of a line; while it runs, what the origin (the last command that is no
filter) has to write lies in stretches, one behind the other: the output, then for each command from the last back to the origin what it has in hand and what
is in the pipe before it. `FlowInv` says so, with two positions `w` and `r` per command, up to which it has written and
read. That nothing is left behind at the end takes `EndsInv`, who holds which ends of which pipes (a command sees end of file only
when nobody can write any more), and `Drained`: from the origin on the commands end from the first to the last, each with
nothing in hand and nothing in the pipe before it. A write that no one can read, which would lose data, is impossible for
the same reason.

`ArgumentsAsTyped` joins two facts. `WordsInv`: what a child gives to `execvp()` is what the code makes of the line, from the
moment the line is read. `PlainLinesAreReadAsTyped`: for a plainly quoted text that is what the reference makes of it. The
reference keeps the open quote in a recursive function; it exists by `Recursion`, and the flag of `parse_arguments()` is up exactly where a quote is
open (`InQuotes`, by parity). No bar is quoted, so `strtok()` cuts where the reference does and each token
is plain again, the quote open at its start being none (`TokensOfPlain`). Within a token each word is bare or wholly inside
quotes (`WordsArePlain`), each ends one argument and each argument ends a word (`WordEndsArgument`,
`ArgumentsAreWords`); the order is the same, so the k-th argument is the k-th word (`InOrder`).

**File system.** For all sizes of sectors, inodes and addresses, the real ones included: `InodePlace` (two inodes
never share a place), `BlocksCoverFile` (every block but the last is full, the last ends where the file does),
`PathInjective` (two blocks never share an address), `PathInBounds` (no index leaves its array for any size of file) and
`LeftToRight` (the next block is the next leaf of the tree). From these, `TypeOK`, `DigestIsOfFile` and `ErrorsAreReported` for
every file of at most as many blocks as its addresses reach, large or small, and every faulty sector, that of the inode included. The invariant says that the loop is at the start of a block (`LoopInv`), that each byte
fed is the one with its number (`BytesInv`), and that an unreadable sector is not behind it (`ResultInv`). The
reference `Leaves` is a recursive function; that it is `AddressPath`, number by number, is shown with a least
counterexample.

**Dump.** All five properties, for any number of inodes, any names, long ones included, and any images within `DumpAssumption`.

- `InodeLinesTrue`: the lines are those of the intact inodes before the loop variable; both ways out of the loop are in the guard of `InodesEnd`.
- `LookupIsTree`: names lead to an inode (`Leads`) when there is a chain of directories from the root that links them. The lookup
  is a recursive function over the path; `Recursion` of `Arithmetic` shows that it exists, and `LookupLeads` walks
  along a chain and along a lookup in step, over what can be read. Only the converse direction needs a well-formed image, where
  the first entry of a name is the live one. It follows that a path leads to one inode only (`LeadsOnce`).
- `DepthFirst`: not inductive, since it speaks of lines only. `OrderInv` says the same of lines and of calls still to make, in
  the three ways they can be mixed, and adds that no call that will print is above another, or above a line.
- `WalkIsTree`: `TreeInv` says that each line and each call of a live name is of the inode that its names lead to, so none that is intact is refused,
  that nothing else is printed, and that each path of the tree has been printed or starts with the path of a call still to make. When a call is printed, what
  is below it passes to the calls of its own entries (`KidsReach`). At the end no call is left, so the lines are the tree; they are
  as many because no two are of the same path (`OrderInv`). `Terminated` is needed for the paths to be made of single components, so that the lookup
  of a path is that of its names.

**ParallelSum.** `ChunksPartition`: for any number of data and of threads every element is in exactly one scheduled chunk
and the iterators stay inside the data, also when the threads outnumber the chunks. Integers are unbounded here. That
the results are complete when they are added up is `WaitIsForExecution`, which does not hold.

**Cpu.** All its properties, for any width, fields, regions and bounds. `LatchesAlwaysAgree`, `HaltStays` and `ZeroRegisterKept` need no fact
about words: the invariant behind them says that commands come between cycles, that the branch flag is up only
between an instruction and `Advance`, and that within a cycle only a load makes the latches differ in
register 31. The others do:

- `TypeCorrect`: what each operation computes is a word and each byte of memory a byte. The operators on bits are sums over bits, so this takes
  the lemmas on powers of two in `Arithmetic`.
- `CounterFollows`: `PcInv` says what `Advance` finds: the counter still to be moved, or moved by the branch by a whole offset.
- `ComparisonBranches`: `FlagInv` says that N and Z are those of the difference of the last operands compared, however many instructions ago;
  what is left is that the sign of a difference that does not overflow is the comparison.
- `StoresExact`: a store reads back what it does not change, in words of four bytes that may lie across the end of a
  region. It needs that the regions are apart and that none reaches the last seven bytes of the addresses, so that an address does not wrap around
  inside a region; `CpuAssumption` says so, and the table of regions in `shell.c` is like that.

`OneMatch`: no word
matches two entries of the table of opcodes, whose lengths differ, so the order of the table does not matter.

**Only model-checked.** Liveness, which the prover does not reach: `DtorReturns` and `AwakeWorkerDrains` of the pool, `WaitReturns`
of the semaphore, `Ends` of the ring, `LineEnds` and `OrphansEnd` of the shell. Every other property of a passing run is a
theorem.

## 5. Not modelled

- Of the simulator: the dumps and the help, which change no state, and loading a program from a file.
- Of the shell: a line without commands, which is undefined in C (`pipes[-1][2]`); a failing `dup2()`. A line longer than the
  buffer comes in pieces, each a line of its own. What an overrun of `args[]` does is any of a few outcomes.
- Of the file system: `PrintDirectory()` and `diskimg_writesector()`, which nothing calls; opening, closing and measuring
  the image and what is printed of it without `-q`; the length of paths (`nextpath`, "Too deep"); what a small file of more than
  eight blocks would read (`i_addr[8]` and beyond); images that end inside the i-list, where `inode_iget()` copies an uninitialised buffer. `FileLayer` has one
  faulty sector at a time, which may be read before it fails; in `Dump` what cannot be read never can.
- What the properties of `Dump` leave out although the model has it: names that are repeated in a directory or left behind its last entry,
  directories beyond the limit of entries, block special files that look like directories, and, of `WalkIsTree` only, long names that nothing ends.
- The binary bomb, whose phases exist only as a binary, and the scripts that run the tests.
- What C or the process leaves undefined, with no outcome to model: a pool of no threads, a thunk that throws, a
  ring with `n` or `start` out of range, a register number out of range given to `input`.
- The text of output, apart from its order and content.

## 6. Plan

Done, in this order: `TaskPool`, `ThreadPool`, its properties and proofs; `Semaphore`; `Ring`;
`Shell`; `InodeGeometry` and `FileLayer`; `Dump`; `Cpu` and its proofs; `CommandLine` and its composition with
`Shell`; mounting; options and long names in `Dump`; the proofs of `Ring`, `Shell`, `CommandLine`, `FileLayer`; `ParallelSum`; `Decode`;
`OutputIsWhole` as a theorem; the arithmetic of `Cpu` and the rest of its properties; the proofs of `Dump`;
`ArgumentsAsTyped` as a theorem; the overrun of `args[]`; the faults of the inode's sector in `FileLayer` and `Dump`; two-byte numbers behind long names.

Next: `main.cc` composed with `ThreadPool`, so that the sum itself is a property of the pool.
