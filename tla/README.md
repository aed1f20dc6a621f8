# TLA+ verification of xv6-vim

xv6-vim is the x86 teaching kernel xv6 with a small editor, `vim`, and the
console support the editor needs.  This directory holds TLA+ models of its
concurrent, failure-prone and data-structure-heavy parts, the TLC configurations
that check them on small instances, and TLAPS proofs, for every value of the
constants, for the log, the scheduler, the process table, pipes, the buffer cache,
console input, memory and system call arguments, the user heap, and the reference
counts of files and inodes.
Paths below are relative to the repository.

## 1. Inventory

| Component | State | Operations | What makes it correct |
|---|---|---|---|
| log (`log.c`) | header in memory and on disk, `outstanding`, `committing` | `begin_op`, `end_op`, `log_write`, `commit`, recovery | groups of operations are atomic over crashes; the log never overflows; nobody sleeps past a wakeup |
| locks and scheduling (`spinlock.c`, `proc.c`, `trap.c`, `swtch.S`) | lock words, per-CPU `ncli`/`intena`, `proc.state`, `proc.chan` | `acquire`, `release`, `sleep`, `wakeup`, `sched`, `scheduler`, `yield`, timer interrupt | no CPU takes a lock it holds, one CPU per process, no lost wakeup, interrupt state follows the thread |
| process table (`proc.c`, `trap.c`, `init.c`) | `ptable`, `nextpid`, `initproc` | `allocproc`, `fork`, `exit`, `wait`, `kill` | pids identify processes, zombies are reaped, orphans go to init, failed forks leave nothing behind |
| pipes (`pipe.c`, `file.c`) | ring, `nread`, `nwrite`, open ends, reference counts | `pipealloc`, `pipewrite`, `piperead`, `pipeclose`, `filedup`, `fileclose` | bytes arrive once and in order; sleepers have a reason; the page is freed once |
| buffer cache, disk (`bio.c`, `sleeplock.c`, `ide.c`) | buffer list, flags, reference counts, request queue | `bget`, `bread`, `bwrite`, `brelse`, `iderw`, `ideintr` | one buffer per block, exclusive use, no write lost, requests finish |
| console input (`console.c`) | ring indexes `r`, `w`, `e`, mode | `consoleintr`, `consoleread`, `setconsbuf` | keys reach one reader each, in order; editing never touches what was handed over |
| screen (`console.c`) | cursor, video memory | `cgaputc`, `setcursor`, `getcch`, ... | the cursor stays on the screen |
| inodes, directories, paths (`fs.c`, `sysfile.c`) | inode cache, disk inodes, directories | `iget`, `ilock`, `iput`, `namex`, `create`, `link`, `unlink`, ... | link and reference counts, nothing in use is freed, no deadlock |
| file contents, blocks (`fs.c`, `file.c`) | bitmap, block lists | `balloc`, `bfree`, `bmap`, `readi`, `writei`, `filewrite` | a block has one owner, files hold what was written, also after a crash; an operation stays within `MAXOPBLOCKS` |
| file table (`file.c`, `sysfile.c`) | `ftable`, `ofile[]` | `filealloc`, `fdalloc`, `dup`, `pipe` | exact reference counts; failed calls leave nothing behind |
| memory (`kalloc.c`, `vm.c`, `exec.c`, `growproc`) | free list, page directories, tables | `kalloc`, `kfree`, `allocuvm`, `deallocuvm`, `copyuvm`, `exec`, `sbrk` | a page has one owner; failure paths give everything back |
| vim (`vim.c`) | line list, mode, `vimline`, command string | keys, `:` commands, `readfile`, `writefile` | what is saved is what was typed |
| user heap (`umalloc.c`) | circular free list | `malloc`, `free`, `morecore` | blocks do not overlap, free neighbours are joined |
| shell (`sh.c`) | its processes, their descriptors | parser, `runcmd`, `main`, `fork1` | a line means what the grammar says, its programs get the right files, it ends |
| other programs | none that lasts | | clients of the kernel |
| system call arguments (`syscall.c`) | none | `fetchint`, `fetchstr`, `argptr` | what they accept is memory of the process |
| traps, boot, devices (`trapasm.S`, `lapic.c`, `mp.c`, `boot*`, ...) | registers | initialisation | hardware sequences |
| `mkfs.c` | image layout | | the layout the kernel expects |

How they interact.  A system call of a process runs on its kernel stack with
interrupts on; timer, disk and keyboard handlers run over it.  Spinlocks protect
every shared structure; a process that must wait calls `sleep(chan, lock)` and
is put back to the ready list by `wakeup(chan)` or by `kill`.  File-system calls
are bracketed by `begin_op`/`end_op`; they change blocks in the buffer cache and
report them with `log_write`, which pins the buffer until `commit` has written
it.  `fork`, `exec`, `exit` and `wait` join the process table, the page
allocator and the file table.  The editor reads keys through the console in raw
mode and reads its command line back from the screen.

What is hard: interleavings of processes on several CPUs with interrupt
handlers (`sleep` gives up one lock for another, checks are made before a lock
is taken, locks are dropped half-way); a crash in the middle of a commit or of
the recovery from one; failures half-way through `fork`, `exec`, `link`; counters
that wrap; full tables, rings and logs.  `PROJECT.json` lists them as hazards
with the properties that cover each.

## 2. Plan

Order: first what everything durable depends on (the log), then what justifies
treating a critical section as one step (scheduling and locks), then the kernel
services built on them, then user-level code.

Done: `Log` with `AtomicDisk` and its proofs; `Sched`; `Proc`; `Pipe` with
`ByteStream`; `Bcache`; `Console` with `LineDiscipline`; `Inode` with
`InodeTree`; `Memory` with `Syscall`; `Vim`; `Umalloc`; `FileBlocks` on images made by `Mkfs`, both over
`FsLayout`; `Shell` on `Files` and `ShParse`.

Proved (section 5): every safety property and every refinement of `Log`, `Sched`,
`Proc`, `Pipe`, `Bcache`, `Console`, `Memory`, `Syscall`, `Umalloc` and `Files`, and the
reference counts of `Inode`.

Left: `FileBlocks` (`OneOwner` first: it needs the reference counts of its inodes, the
discipline of their locks and that what is cached and unlocked is on disk; `OpFits`
follows from it) and the link counts of `Inode` (section 6).

## 3. Modules and the code

Every module's header says what one action is.  The rule is the same
everywhere: a critical section under a spinlock is one action, because `Sched`
shows that spinlocks exclude each other even with interrupts; wherever a
function drops a lock, waits, or uses a value it read without one, there is a
step boundary.  Panics are states, not errors of the model.  In each module
some operators are named for a slip (`SpaceForSelfForgotten`, `WokenByKillNot`);
no specification uses them: each is a plausible wrong version of the definition
that follows it, and `PROJECT.json` ("mutants") says which property notices.

**Log, AtomicDisk** (`log.c`, `bio.c` as far as pinning goes).
`AtomicDisk` is the promise: operations change memory; what is durable changes
in one step, `Commit`, when no operation is in progress; a crash returns memory
to what was durable.  `Log` has the disk (home blocks, log blocks, header), the
buffer cache (contents, `B_DIRTY`), `log.lh`, `outstanding`, `committing`, and
for each process its place between `begin_op` and `end_op`.  `log_write` is two
actions, because its two checks are made before `acquire(&log.lock)`.  `commit`
is one action per disk write.  `Crash` may happen in every state, `ReadHead`
and `InstallTrans` are the recovery, which may crash again.  `Evict` recycles
any clean buffer nobody holds.  External: the disk writes a sector whole.

**Sched** (`spinlock.c`, `scheduler`, `sched`, `yield`, `sleep`, `wakeup`, the timer
path of `trap`).  A thread is a process or a CPU's scheduler; a CPU executes one
thread.  `pushcli`, a successful `xchg`, `release` and the code between them are
actions of the thread the CPU executes; `TimerInterrupt` may come whenever the
flag allows.  The processes run `sys_sleep`, the code that uses all of it.

**Proc** (`allocproc`, `fork`, `exit`, `wait`, `kill`; `init.c`'s loop).  `fork` takes
four steps, the ones between its critical sections; any allocation may fail.

**Pipe, ByteStream** (`pipe.c`, reference counts of `file.c`).  `ByteStream` is a
bounded queue.  `Pipe` keeps `nread` and `nwrite` modulo `WORD`, splits `pipewrite`
and `piperead` where they have tested `killed` and not yet slept, and
`fileclose` between dropping the last reference and `pipeclose`.

**Bcache** (`bio.c`, `sleeplock.c`, `ide.c`).  The buffer list in its order, flags,
sleep locks, the request queue, and the disk as a command in progress and an
interrupt that follows.  The disk may fail a transfer: of a failed read nothing
reaches the buffer, of a failed write nothing reaches the disk, and `ideintr` treats
both as done.  `latest` (what was last stored for a block, and did not fail) and
`failed` (buffers whose transfer failed, not stored to since) are history variables.

**Console, LineDiscipline** (`consoleintr`, `consoleread`, `setconsbuf`).
`LineDiscipline` has an open line and the keys handed over.  `Console` has the
ring with `r`, `w`, `e` modulo `WORD`, cooked and raw mode, and readers that may be
killed.

**Inode, InodeTree** (`fs.c` from `ialloc` to `namex`, the calls of `sysfile.c`).  Steps follow the
inodes' sleep locks; `iput` is split as the code splits it (count read under
`icache.lock`, truncation, drop).  A disk without free inodes is the panic of
`ialloc`.  `fip` is the inode of a process's one open file.
Which calls the processes make, with which paths, is the constant `Calls`.  The
contents of files are in `FileBlocks`.  `InodeTree` models no code of its own: it adds
the history variable `strayed`, which says that some call has made an entry in a
removed directory or gone up its `..` (`LeavesTree`), and states the properties of
the tree, which hold until then.

**FsLayout, Mkfs, FileBlocks** (`fs.h`; `mkfs.c`; `fs.c` from `balloc` to `dirlink`,
`fileread` and `filewrite`, `create`, `unlink`).  `FsLayout` has the regions of the
disk and what an inode's addresses say.  `Mkfs` computes an image as `mkfs` does,
file by file and piece by piece; `FileBlocks` starts from such images.  Its image
is what `bread` shows; it becomes durable when the last operation in progress
ends, which is what the log's refinement shows of a commit, and `Crash` goes back
to the durable one.  A step is what a process does under an inode's sleep lock up
to the next `balloc` or `bfree`, the places where operations on different files
meet.  `filewrite` is one operation per chunk, with a step between `begin_op` and `ilock`;
`itrunc` is one step per block; then `iput` writes the inode back with size and type 0
(one step: the two are in one operation and under one lock), makes it invalid and drops
its reference, one step each.  `written`, `pos`, `kept` and `lost`
(the inodes that nothing will free any more) are history variables.
A byte is the process that wrote it.

**Memory** (`kalloc.c`, `vm.c`, `exec.c`, `growproc`, `fork`, `exit`, `wait`).  A step is
what lies between two `kalloc` calls, any of which may fail.  Page directories,
page tables and user pages are all pages taken from `free`.  A process whose next step
is a panic takes none (`Panics`); the others go on until they need the console
(`Halted` is the end of that).

**Syscall** (`syscall.c`).  What `fetchint`, `fetchstr` and `argptr` accept on words
that wrap at `WORD`, over the sizes and mappings `Memory` reaches.  It is about what they
accept, not about all that the kernel follows: `sys_mirrorctx` does not heed `argptr`
and `mirrorctx` follows pointers in user memory (section 7).

**Files** (`filealloc`, `filedup`, `fileclose`; `fdalloc`, `dup`, `close`, `open`, `pipe` of
`sysfile.c`; `pipealloc`, `pipeclose`).  A step is a critical section of
`ftable.lock` or of a pipe's lock; `fileclose` puts the pipe or the inode in a
later step, and calls that close several files take several.  Every allocation
may find its table full.  A pipe only counts the writes it holds.  Which calls are
made is up to the module that extends it; `FilesSpec` is the most general such client
(any process makes any call at any time), and the one the proof is about.  `Shell` is
an instance: its first state is what `open`, two `dup`s and a `fork` of init make, and
each of its steps is a `FilesCall` or leaves the tables alone.  `Processes` declares
the processes for `Files` and `Inode`.

**ShParse, Shell** (`sh.c`, `init.c`'s wait, `cat.c` for what programs do).  `ShParse`
has the parser on tokens, function by function (a parser that panics gives no
command), and the grammar as a set of derivations.  `Shell` turns each command
into the sequence of system calls `runcmd` makes; processes do them one by one,
interleaved.  A scenario is a line together with how many calls may fail, how
many process slots are free and what its programs do: write, read to the end,
copy, or close, dup, open and pipe at will.

**Vim** (`vim.c` with the cursor and the command line of `console.c`).  One action per
key.  The text, the cursor, `vimline`, and the command line as characters on the
screen; what the text area shows is left out.  A line is its array with `len` behind it,
which `strlen` and a write past a full array reach.  Between two keys another process
may write one of the strings of `Output`, character by character as `cgaputc` does:
newlines, the end of the command line and the panic below the screen included.

**Umalloc** (`umalloc.c`).  One action per turn of a loop; headers are explicit.  The
pointer of a header that is in no list is `NONE`, so the list is the set of the other
headers, and that it is one sorted circle is part of `Tiled`.  The program may
grow by itself (`Sbrk`); that it shrinks, and `malloc(0)`, are left out.

## 4. Runs

All limits are constants given in the `.cfg` of the run.  Types (`TypeOK`) are
checked as a conjunct of a module's main structural invariant, and proved with it
(section 5).

| Run | Shows | Bounds, and why they are enough |
|---|---|---|
| `log_atomic` | `Log` implements `AtomicDisk` (`Atomic`); `NoPanic`; `NoLostWakeup` | 2 processes, 5 blocks, 2 contents, `LOGSIZE` 5, `MAXOPBLOCKS` 2, operations of one block.  Two operations run together, several operations share one commit, a third must wait for space, and the log becomes as full as it may.  Symmetric in processes, blocks and contents (no liveness is checked with symmetry). |
| `sched_safe` | `ChecksPass` (with `InterruptsFollowThread`), `OneCpuPerProcess`, `NoLostWakeup`, no deadlock | 2 CPUs, 2 processes: processes move between CPUs, interrupts nest over every step. |
| `proc_table` | `Family` (with `MemoryOwned`), `WaitersHaveReason`, `ZombiesReaped` | 5 slots, memory for 4 processes, 6 pids: three generations, so that a zombie is handed to an init that has another child; each failure of `fork`; init's own failure. |
| `pipe_calls` | `StreamSpec`, `WritersHaveReason`, `PageReachable`, `ClosedEndReleases` | 2 processes, ring of 2, counters that wrap at 4, writes up to 2 bytes: the ring fills, empties and wraps while ends are closed and a process is killed. |
| `bcache_disk` | `OneBufferPerBlock`, `Coherent` (`ValidIsRead` and `NothingLost`), `QueueMatchesDisk` (with `SleepersHaveReason`), `RequestsFinish` | 2 processes, 2 buffers, 3 blocks: every miss recycles, one buffer may be pinned, reads and writes may fail, the queue holds 2. |
| `console_input` | `LineSpec`, `RingOrder` (with `EditedLineIsOpen`), `InputIsRead` | ring of 2, indexes that wrap at 4, 2 readers, one of them killable. |
| `inode_calls` | `NlinkCounts`, `RefCounts`, `InUseAllocated` (and no panic but "ialloc: no inodes") | 2 processes, 3 inodes, 2 names; one process with files of the root and of the current directory, one that makes, fills, enters and removes directories.  Directories are removed while the other process is in them or on its way through them, and files are made there.  Three inodes make `ialloc` reuse inodes and run out. |
| `fs_blocks` | `OneOwner`, `DurableSound`, `OpFits`, `ContentsAsWritten`, `PanicsOnlyWhenFull` | 2 processes, 16 blocks of 2 bytes of which 9 hold data, 4 inodes and the unused inode 0, 2 direct addresses and an indirect block of 2, three calls and one crash, reads and writes of 1 and 7 bytes.  From an image with a long file, one with a short file and one with as many short files as inodes: a write takes several chunks and begins the indirect block unaligned, two writers share an offset, a truncation frees blocks while a write allocates them, the disk and the inodes run out, and calls follow a crash. |
| `shell_lines` | `FileRefs`, `ParsesGrammar`, `Wiring`, `PromptAfterForeground`, `LineFinishes` | All 4681 lines of up to four tokens (8 tokens, `MAXARGS` 3, so that words run out) with one free process slot, so that every `fork` after the shell's first fails; pipelines of two and three, lists, blocks and background commands with up to one failure anywhere; programs that use descriptors on their own.  6 files, 5 descriptors, 2 pipes: each table runs full. |
| `vim_session` | `RoundTrip` (with `LinesCounted`), `TypedIsSaved` | five keys on files of up to three lines, rows of 6 characters, 3 rows; some lines fill their array, one leaves one cell of it; other programs write a character, a newline and a string that leaves the command line. |
| `mem_safe` | `PagesConserved`, `MappedBelowSize` (and no panic), `ArgumentsMapped` | 2 processes, 12 pages of 2 units, page tables of 2 entries, `sbrk` of 3 and -3: sizes inside a page, tables that must be added, memory for one process and a half, a program that gives all of it back and then forks.  Words of 16 units, twice the user part as on the machine, and integers of 2 units that may lie across two pages: all addresses and sizes are tried. |
| `umalloc_heap` | `Tiled` (with `HeadersIntact` and `SortedAndJoined`), `Returns` | 14 headers, two block sizes, gaps in the memory obtained. |

Restrictions of the runs and excuses in the formulas, where the code does not do
what one would state without them (section 7):

- `inode_calls` gives the two processes different calls: `create` and `unlink` of
  one name by both can deadlock.
- `NlinkCounts` and `InUseAllocated` are about behaviours in which no call has made an
  entry in a removed directory or gone up its `..` (`~strayed`).  The run has such
  calls; after one both are false.
- `PanicsOnlyWhenFull` excuses inodes that the code does not free: those open
  without a name in a crash, and those of which two processes put the last
  references at once (`lost`).  `PromptAfterForeground` excuses lines in which a `fork`
  failed.
- `log_atomic` satisfies `Room` (section 5).
- `MappedBelowSize` and `ArgumentsMapped` excuse a program that gave all its memory
  back with `sbrk(-sz)` (`GaveAllBack`); the run has it.
- `Coherent` excuses the buffers whose transfer failed (`ValidIsRead`), and what a
  failed write should have stored (`latest`).
- `RoundTrip` excuses files with a line that fills its array (`HasFullLine`); the run has
  such files.  `TypedIsSaved` is about sessions that only type, save and quit, with lines
  that do not fill it, without the letters `k`, `g` and `G` and without `=`.
- `CHECK_DEADLOCK FALSE` where the system really may stop: after a panic, when
  all processes have exited, when the bound on pids or keys is reached.

### Fairness

Liveness is checked under fairness of steps the kernel takes by itself, never of
calls a program or a user need not make.

- `Proc`: weak fairness of each process's steps inside the kernel and of init's
  loop (the scheduler is round-robin over the table), and of the exit that the
  next trap forces on a killed process.
- `Pipe`, `Console`: strong fairness of the steps in the kernel, because they may
  have to spin for a lock that others take and release again and again; the code
  has no fair locks, but a CPU that spins does get a lock that keeps being freed
  for long stretches of time.
- `Bcache`: weak fairness of kernel steps, of the disk finishing a command and of
  its interrupt being taken.
- `Umalloc`: the loop goes on.
- `Shell`: weak fairness of every process's steps and of init's `wait`, from the
  round-robin scheduler; programs do a bounded amount of work and then exit.

## 5. Proofs

Each theorem below holds for every value of the constants that satisfies the
`ASSUME` of its module; TLC evaluates these assumptions on the instances of
section 4.  They say what the code's own constants satisfy: tables have a fixed
size, sizes are positive, and the word of a ring's counters is a multiple of the
ring (2^32 of 512 and of 128), without which the slot after the wrap would not be
the next one.

| Module | Theorem | States |
|---|---|---|
| `LogProofs` | `Invariance` | `Room => (Spec => []IInv)` |
| | `TypeCorrect`, `PanicFree`, `Fits` | `TypeOK`, `NoPanic`, `LogFits` are invariants, under `Room` |
| | `WakeupsNotLost` | `NoLostWakeup` is an invariant, under `Room` |
| | `Refinement` | `Room => (Spec => Atomic)`: `Log` implements `AtomicDisk` |
| `SchedProofs` | `Invariance` | `Spec => []IndInv` |
| | `NoPanic` | `ChecksPass`: no check of `acquire`, `release`, `popcli`, `sched` fails, interrupt masking follows the thread |
| | `OneCpu` | `OneCpuPerProcess` |
| | `WakeupsArrive` | `NoLostWakeup` |
| `ProcProofs` | `Invariance` | `Spec => []IndInv` |
| | `FamilyKept` | `Family`: pids, parents, memory accounts |
| | `NoLostExit` | `WaitersHaveReason` |
| `PipeProofs` | `Invariance` | `Spec => []IndInv` |
| | `WritersWoken` | `WritersHaveReason` |
| | `PageLifetime` | `PageReachable` |
| | `StreamRefinement` | `Spec => StreamSpec`: `Pipe` implements `ByteStream` |
| `BcacheProofs` | `Invariance` | `Spec => []IndInv` |
| | `OneCopy` | `OneBufferPerBlock` |
| | `CacheCoherent` | `Coherent` |
| | `DiskFollowsQueue` | `QueueMatchesDisk` |
| `ConsoleProofs` | `Invariance` | `Spec => []IndInv` |
| | `OrderKept` | `RingOrder` |
| | `LineRefinement` | `Spec => LineSpec`: `Console` implements `LineDiscipline` |
| `MemoryProofs` | `PagesInvariant` | `Spec => []PageInv` |
| | `NoPageLost` | `PagesConserved` |
| | `SizesInvariant` | `Spec => [](PageInv /\ SizeInv)` |
| | `SizeIsMapped` | `Spec => []MappedBelowSize` |
| | `PointersMapped` | `Spec => []ArgumentsMapped`: what `fetchint`, `fetchstr` and `argptr` accept |
| | `OnlyGivenBack` | a running program loses its first page only in `sbrk(-sz)`: how narrow the excuse of these two is |
| | `HeapTiled` | `HeapSpec => []Tiled`: `malloc` and `free` |
| `RefProofs` | `FilesRefs` | `FilesSpec => []FileRefs`: files, ends of pipes, inodes of files |
| | `InodeRefs` | `Spec => []RefCounts` of `Inode` |

The modules begin with the lemmas they rest on: `PipeProofs` and `ConsoleProofs` with
the arithmetic of rings (what `%` gives, when two counters fall into the same slot, how
the distance of two wrapping counters changes when one of them advances or goes back),
`MemoryProofs` with division and with the moves of pages and blocks, `RefProofs` with
counting over finite sets.

### Log

Assumptions: `LogConstants` (types of the constants, finitely many processes) and
`Room`: an operation changes at most `OpBlocks < MAXOPBLOCKS` distinct blocks, and
`LOGSIZE - (MAXOPBLOCKS - OpBlocks) <= LogRegion - 2`.  `begin_op` reserves
`MAXOPBLOCKS` for each operation, but `log_write` refuses a block, even one it
would absorb, as soon as the log is full, and the log's region on disk, made by
`mkfs` with `LOGSIZE` blocks, gives one of them to the header.  For the kernel's
constants (30, 10, 30) `Room` means: no operation logs more than 8 distinct
blocks.  `filewrite` writes at most 3 blocks' worth of bytes at a time (4 data
blocks if unaligned, an indirect block, a bitmap block, the inode: 7), and
`fs_blocks` checks the bound (`OpFits`) for all operations.  `Room` is
needed: with `OpBlocks = MAXOPBLOCKS = 2` and a log of 4 blocks TLC finds two
operations within their reservations that reach "too big a transaction".

The invariant `IInv` is `TypeOK`, `NoPanic` and `Inv`.  `NoPanic` alone is not
inductive: that the checks of `log_write` pass depends on how much of every
reservation has been used.  `ReserveInv` says it: with n operations in progress,
`Len(lh) + n * OpBlocks` minus the number of blocks of these operations that are
already in the log is at most `LOGSIZE - (MAXOPBLOCKS - OpBlocks)`.  `begin_op`'s
test establishes it for one operation more; appending a block raises both
sides' counts; absorbing another operation's block only helps; ending an
operation gives back what it has not used (`PairBound` is the counting lemma on
pairs of process and block).  `CountInv` ties `outstanding` and `committing` to
the processes' places, `HoldInv` says who holds which buffer, `HeadInv` relates
the two headers to the phase of the commit, `CacheInv` says that exactly the
blocks of the transaction are pinned, `CopyInv` that log, cache and home blocks
agree as far as the current loop has come.

The refinement maps `durable` to what a reboot would find now (`durableBar`: a
block named by the header on disk is read from the log), `mem` to what `bread`
shows (`memBar`), `inop` to the processes between `begin_op` and `end_op`
(`inopBar`).  `WriteHead` is the one step that is `Commit`; every iteration of
`InstallTrans`, in a commit or in a recovery, is a stutter.

### Scheduling

The checks speak of one CPU at one moment; whether they pass depends on where
every other thread was when it gave up its CPU.  `IndInv` gives each place in the
code what a CPU there holds (`LocksHeld`), how deep it has masked interrupts
(`Depths`), whether they are on (`Flags`), and what `popcli` will restore
(`Remembered`).  `intena` belongs to a CPU and a process may come back on another
one: `Kept` says what the local copy in `sched` carries over.  `Interrupted` says a
handler runs only over places with interrupts on, `Placed` which thread a CPU
executes while its scheduler waits in `swtch`, `StatesFollow` how `proc.state` follows
from that.  `Waiting` is the handover of `sleep`: between its test and `SLEEPING` the
process has ticks left or the clock handler that took the last one has yet to
reach `wakeup`, for which it needs a lock the process holds.

### Process table

`Family` is about settled processes; `fork` works on its new slot outside
`ptable.lock`.  `Forks` says that such a slot is an embryo of this process alone, with
exactly the memory the place in `fork` implies.  `Parents` needs the root: init
is always up (its exit is a panic that stops everything), so handing it the children
of whoever exits keeps every parent up.
`Pids` includes the pids that free slots keep from failed forks.  `nextpid` is bounded
by `MaxPid`, any number; its wrap at 2^31 is not modelled.

### Pipes

`PageReachable` needs exact counts: `RefsCount` (the reference count of an end is
the number of descriptors), `OneCloser` (the process in `pipeclose` came with the last
one, alone), `OpenWhileInUse` (flags and page follow).  `WritersHaveReason` is
inductive only with `LockByDecided` and `DecidedWriters`: between deciding to sleep
and sleeping a writer keeps `p->lock`, so that its reason stays true.  For
`StreamRefinement` the queue is `InTransit`, the slots from `nread` on, as many as the
distance to `nwrite` modulo `WORD`; each `pipewrite` and `piperead` step is one step of the
stream, everything else a stutter.

### Buffer cache and disk

`Refs` and `Holders` tie reference counts and sleep locks to the processes' places,
`Blocknos` says a block is in one buffer, `Contents` what the flags promise about the
data, `Queued` that a buffer is queued once and exactly while its holder waits in
`iderw`, `Active` that the disk works for the head of the queue and that a write is on
the disk before its interrupt is handled.  Coherence alone is not inductive: a
recycled buffer is clean because nobody uses it (`Refs`), and a dirty one holds the
last data stored (`Contents`).  A transfer that fails takes its buffer into `failed`; a
failed write takes `latest` back to what the disk has.  The list is a permutation of the buffers (`ListOK`), so
that `bget` finds an unused buffer when there is one.

### Console input

`RingOrder` needs only the types of what readers have collected and `CallsOpen`: a
call that still runs has not met a newline.  `LineRefinement` maps the ring from `w` to
`e` to the line being edited and from `r` to `w` to the keys handed over.

### Memory and system call arguments

`PagesConserved` counts what all places hold.  Places are named (`Places`: the kernel
stack of a slot, the page a call has in hand, directory, tables and pages of a
space), and `Conserved` says that holding is injective and that everything else is
free.  Each action then takes pages from the free list for some places, gives back those of
some places, moves a page from one place to another, or renames all places of one
space to those of another (`exec`); each of these moves is proved to conserve once.  `SlotInv` says
which places are empty in which state of a slot and which step of a call; `ForksApart`
that two forks build different children.

`SizeInv` adds how far the loops of `allocuvm` and `copyuvm` have come: in a space
being built exactly the pages below the loop's address are mapped, in the space of a
process that is not in `sbrk` exactly those below `sz`.  After `sbrk(-sz)` this is false
in the code (section 7), so the invariant has an alternative (`MappedIn`): the first page
is not mapped, and nothing is mapped above (`GoneTo`); later calls of `sbrk` keep it,
`exec` ends it, and `fork` panics in it.  From it follow `MappedBelowSize` and that the
only panic of `vm.c` is that one.  The alternative would say little if it were easy to
get into; `OnlyGivenBack` shows that one step leads there, the `sbrk` of exactly `-sz`,
and needs that the size of a running program is never 0 (`PositiveInv`).
`PointersMapped` shows that what passes the tests of `fetchint`, `fetchstr` and `argptr`,
with sums modulo `WORD`, lies below `sz`; it uses that the user part is at most half
of the address space (`SyscallConstants`), so that a sum of an address below `sz` and a
non-negative `int` does not wrap.

### User heap

Blocks are the headers of the list, those of the program and the one `free` has in
hand.  `HeapInv` says that they are laid out over the memory obtained (`Laid`: apart,
within it, covering it), that a header has one role (`Roles`), that the list is a
circle in the order of addresses (`Circle`) whose neighbours do not touch (`Joined`), and
where the searches stand (`Searching`).  `Tiled` alone is not inductive: that the place
where `free`'s search stops is the right one follows from the circle, that the joined
block touches no third one from `Joined` and `Laid` together.  The steps are four moves,
each proved once: a block is split, two are joined, memory is added, a header enters or
leaves the circle.  That the loops end is checked by TLC (`Returns`).

### Reference counts

`FileRefs`: the places that may hold a file are the descriptors, the files that a `close`
or an `exit` has yet to close and those that a `pipe` in progress has.  `RefInv` says that
`file[f].ref` is the number of places that hold `f`, that a file or a `fileclose` that has
taken the last reference stands for every open end and for every reference to an inode,
and that nothing else does.  A call changes what few places hold, and `CountChange`, the
one lemma about cardinalities, says what that does to a count.

`RefCounts` is about quiet moments.  In between, the references belong to local
variables: `InoInv` says that `ref[i]` is the sum over all processes of six holders
(current directory, open file, inode to put, inode of the walk, `dp`, `ip`), and
`LocOK` which of them hold a reference at which step.  Each step changes the row of one
process; that the sum follows is `CountOne`, applied to each column.  `CallsConstants`
says that `Calls` has system calls of the model with well-formed paths, no more.

## 6. What is only model-checked

- Liveness (`ZombiesReaped`, `ClosedEndReleases`, `RequestsFinish`, `InputIsRead`, `Returns`,
  `LineFinishes`) is outside the prover's reach.
- What recursive definitions compute: the shell's parser against its grammar
  (`ParsesGrammar`), and with it `Wiring` and `PromptAfterForeground` of `Shell`, whose
  commands are trees; the images that `Mkfs` folds together, from which `FileBlocks`
  starts; the text that `Vim` compares line by line with a file (`RoundTrip`,
  `TypedIsSaved`).
- `NlinkCounts` and `InUseAllocated` of `InodeTree`, until a call has used a removed
  directory; the run's calls are those of `MCInode`.
- `FileBlocks`.

## 7. Other behaviour of the code met while modelling

These follow from the models, which contain the behaviour; no property claims
the contrary and no run is kept for them.

- A writer that has filled a pipe and then finds itself killed (`pipe.c:86`)
  returns without waking the readers, unlike the other two ways out of the loop:
  a reader stays asleep over a full pipe while another process holds the write
  end.
- `iput` always takes the inode's sleep lock (`fs.c:334`).  At the end of `create`
  and in `unlink` it is called for the parent while the child is locked; another
  `unlink` of the name, which holds the parent and waits for the child, closes the
  circle.
- `kill` compares pids in all slots (`proc.c:485`), also unused ones: pid 0, or the
  pid a failed fork left, marks the next process that gets the slot.
- A kill that comes between the test of `killed` and `sleep` in `pipe.c` has no
  effect until the other end is used.
- `ideintr` marks a buffer valid although the read failed, and clean although the write
  failed (`ide.c:118`): a block whose write the disk refused is read from the cache
  until its buffer is recycled, and then has its old contents.
- `growproc` takes the new size 0 for failure (`proc.c:169`): `sbrk(-sz)` frees all
  pages, returns -1 and leaves `sz` as it was.  When such a program calls `fork`,
  `copyuvm` panics.
- `sys_mirrorctx` ignores what `argptr` and `argint` answer (`sysproc.c:161`), so that
  `t` and `mode` may have no value, and `mirrorctx` follows `ctx->start` and the `next`
  of the lines unchecked, and reads a line also when the list has ended
  (`console.c:217-224`).  `ArgumentsMapped` is about what `argptr` accepts and says nothing
  of these.  No program of the repository makes this call.
- `iput` reads the reference count, lets go of `icache.lock` and drops its
  reference later: two processes that drop the last two references of an unlinked
  file both find two, and the inode stays allocated.
- `create` does not test that the directory still has links (`sysfile.c:248`): a
  file made in a removed current directory keeps link count 1 when the directory
  vanishes.  Such a directory also keeps a `..` that no longer counts for its
  parent; once the parent is removed too, looking it up panics "ilock: no type"
  (`fs.c:309`).  The run `inode_calls` reaches these states.
- In `link(f, ".")`, `dirlink` finds `.` to be the directory itself and calls `iput`
  on it (`fs.c:560`), which waits for the sleep lock that `sys_link` already holds:
  the process waits for itself.
- `vim`: `k` moves the cursor in insert mode and not in command mode, `g` and `G`
  cannot be typed (`vim.c:521`); `=`, which the comment at `vim.c:234` lists among the
  viewable characters, is dropped by `inputfilter`; a line of exactly 80 characters is
  written with what follows it in memory; a newline typed into a line whose `len` an `x`
  has made too small, while its array is full, goes into `len` (`vim.c:622`); `readfile` numbers lines by `(i / 80) + 1`
  (`vim.c:118`), so that `x` may delete in another line; `G` in a
  file longer than the screen puts the cursor where the next output panics;
  `writefile` does not truncate, so a shortened file keeps its old end.
- A file that is open and has no name any more keeps its inode and its blocks
  when the system crashes; nothing frees them afterwards.
- A full disk or a full inode table is a panic of `balloc` or `ialloc`, not an error
  of the call.
- `mkfs` rounds the size of the root directory up to the next block
  (`mkfs.c:156`): if its entries fill the last block exactly, a whole block below
  the size has no address.  The number of files in the Makefile does not do this, nor
  do the images of `fs_blocks`.
- In `a > x > y` the last redirection is the outermost command and is opened
  first, so `x` is the output and `y` is only created; `>>` does not append
  (`sh.c:391`).
- If a `fork` fails in a pipeline or a list, `fork1` ends the process that runs it:
  the shell prompts while what was started goes on; if the shell's own `fork`
  fails, the shell exits.
- A pipe whose readers are gone takes writes until it is full (`pipe.c:85`).
- `init` exits when its `fork` fails, which panics the kernel.

## 8. Not modelled

Boot, trap entry, device registers, multiprocessor tables, the serial line,
keyboard decoding, string and formatting routines and the small programs have no
lasting state of their own or are sequences prescribed by the hardware;
`usertests.c` is a test of the calls modelled here.  `sys_mirrorctx` and `mirrorctx` are
not modelled.  Within modelled parts: contents of pages and permission bits
(`Memory`), the text area of the screen and lines longer
than 80 characters (`Vim`), the size of the inode cache (`Inode`), the
names of entries (`FileBlocks`), the characters of the shell's tokens and the zeroes of
`nulterminate` (`ShParse`), requests to `malloc` of 0 bytes or of 2^31 and more, and a program's own `sbrk` of a
negative size (`Umalloc`).
