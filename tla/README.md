# A TLA+ development of Operating-Systems-Work

The repository holds two assignments of an operating systems course.

* `src/ass5/final_repo` is an x86 teaching kernel (xv6) extended with `waitx`,
  `getpinfo` and tick accounting: a preemptive multiprocessor kernel with processes,
  locks, virtual memory, a logging file system, pipes and a console.
* `src/ass4` holds three concurrent programs: a parallel quicksort (Q1), a mess with
  chefs, serving containers and students as threads (Q2), and a cab service with
  passengers and payment servers as threads (Q3).

This directory models the parts where several actors share state, checks them with TLC
on small instances, and proves with TLAPS, for every number of processes, CPUs, pages,
blocks, buffers, files, inodes, cabs, passengers, chefs and students, the invariants of the
process table, the address spaces, the log, the buffer cache, the open files and pipes, the
inodes, the spin locks, the tick accounting, the console, the cab service and the mess, and
that log and buffer cache implement what they promise (the log as long as no transaction is
longer than its area, which one race of the code can make it). The sequential algorithms that the
rest leans on (the user allocator, the file block map, the shell's parser, the sorts) are
checked against definitions of what they should compute.

## 1. Inventory

| component | state | operations | interacts with | what is hard |
|---|---|---|---|---|
| process table and scheduler (`proc.c`, `trap.c`, `sysproc.c`, `init.c`) | `ptable`, `nextpid`, `c->proc`, `ticks`, two spin locks | fork, exit, wait, kill, sleep, wakeup, yield, scheduler, timer interrupt | everything sleeps and wakes through it | lock handed over by `swtch`, lost wakeups, orphans, slots under construction, kill racing sleep |
| locks (`spinlock.c`, `sleeplock.c`) | `locked`, `cpu`, `ncli`, `intena`, the interrupt flag | acquire, release, pushcli, popcli, acquiresleep, releasesleep | everything | handlers that take locks, a thread that changes CPU with a lock held |
| tick accounting (`proc.c`, `vm.c`, `trap.c`) | `ctime`, `rtime`, `etime` | stamps in allocproc, exit; counting in `increment_times`, `switchuvm`; `waitx` | the scheduler and the timer | written by a timer that takes no lock |
| write-ahead log (`log.c`) | header and blocks on disk and in memory, `outstanding`, `committing` | begin_op, log_write, end_op, commit, recovery | file system calls above, buffer cache below | crashes, group commit, space reservation |
| buffer cache and disk driver (`bio.c`, `ide.c`) | buffer list, device queue | bread, bwrite, brelse, iderw, ideintr | log, file system, interrupts | sleep locks, recycling, pinned buffers, completion by interrupt |
| open files and pipes (`file.c`, `pipe.c`, `sysfile.c`) | `ftable`, descriptors, ring buffer | open ends, dup, close, read, write, pipe, fork, exit | scheduler | counts on every error path, wakeups, end of file |
| inodes, directories, path names (`fs.c`, `sysfile.c`) | inode cache, inodes and entries on disk | open, create, link, unlink, mkdir, chdir, path lookup | log, buffer cache | lock order, freeing against looking up, partial failure |
| file contents (`fs.c`, `file.c`) and image builder (`mkfs.c`) | block bitmap, addresses, cells of blocks | balloc, bfree, bmap, readi, writei, itrunc, iappend | log | indirect blocks, size of a transaction |
| memory (`kalloc.c`, `vm.c`, `exec.c`, `proc.c`) | free pages, page tables, `sz` | fork, exec, sbrk, exit, wait | process table | failure half-way |
| arguments (`syscall.c`, `sysfile.c`, `exec.c`, `vm.c`) | memory of the caller, new stack | fetchint, fetchstr, sys_exec, exec, copyout | memory | ends of memory, page borders, terminating zeros |
| console (`console.c`) | input ring | consoleintr, consoleread | interrupts, scheduler | editing a line while it is read, a full ring |
| user allocator (`umalloc.c`) | circular free list | malloc, free, morecore | sbrk | splitting and merging |
| shell (`sh.c`) | command tree, descriptors of its processes | parse, fork, pipe, redirect, wait | process table, pipes | every copy of a pipe end has to be closed |
| parallel quicksort (`ass4/Q1`) | the array | three sorts | processes, threads | disjoint ranges, failed fork() and pthread_create() |
| mess (`ass4/Q2`) | chefs, containers, two counters | cook, fetch, lay out, find a slot | threads | flags used as locks, unlocked counters |
| cab service (`ass4/Q3`) | cabs, payment slots, a counter | search, ride, pay, serve | threads | three mutexes for one piece of state |

What makes them correct:

* process table: the locks are held by the code that thinks so; a process runs on one
  CPU; every process and zombie has a parent that can wait for it; no wakeup of wait() or
  sleep() is lost; kill() takes effect; a failed fork leaves nothing behind; every
  runnable process runs and every orphan is reaped;
* locks: one holder, no panic and no CPU that waits for itself, whatever interrupts; the
  interrupt flag comes back as it was;
* accounting: run time and waiting time of a child add up to its life;
* log: after a crash the disk holds whole calls, in order; a transaction stays inside the log
  area; no call waits for ever;
* buffer cache: it looks like one disk block per process at a time, and every request ends;
* files and pipes: counts are exact, bytes come out as they went in, readers see the end;
* inodes: what has a name, an open file or a current directory stays allocated;
* file contents: each block has one owner, each byte its value, and calls fit in the log;
* arguments: a program finds in `argv` what its caller passed, or exec() fails;
* memory: each page has one owner, and nobody sees another's memory;
* console, allocator, shell, sorts: nothing typed, allocated, piped or sorted is lost;
* cab service: a booking excludes others, payments are private and are confirmed, and
  servers do not leave before the passengers;
* mess: nobody leaves before enough is cooked or everybody has a slot.

`PROJECT.json` lists every component, with the ones not modelled and why, and the hazards
at their lines with the properties that would catch them.

## 2. Modules

| module | models | notes |
|---|---|---|
| `Proc` | process table, scheduler, timer, `sys_sleep`, init's program | core; no recursion, proved about |
| `ProcProofs` | theorems about `Proc` | TLAPS |
| `Spinlock` | spin locks, interrupts, `sched` | below `Proc`, which takes a lock to be its holder |
| `SpinlockProofs` | theorems about `Spinlock` | TLAPS |
| `Times` | tick accounting and `waitx` | finer grain than `Proc` for four fields |
| `AtomicDisk` | what the log promises | abstract specification |
| `Log` | `log.c` with crashes and recovery | implements `AtomicDisk` |
| `LogProofs` | theorems about `Log`, with the refinement | TLAPS |
| `BlockStore` | what the buffer cache promises | abstract specification |
| `BufferCache` | `bio.c`, `sleeplock.c`, the queue of `ide.c` | implements `BlockStore` |
| `BufferCacheProofs` | theorems about `BufferCache`, with the refinement | TLAPS |
| `Files` | `file.c`, `pipe.c`, descriptors | |
| `FilesProofs` | theorems about `Files` | TLAPS |
| `Inodes` | inode cache, directories, path names, their calls | |
| `InodesProofs` | theorems about `Inodes` | TLAPS |
| `FileData` | bitmap, block map, contents, `mkfs.c` | |
| `Memory` | pages and address spaces | |
| `ExecArgs` | arguments of exec() | |
| `Console` | console input | |
| `Umalloc` | user allocator | |
| `Shell` | `sh.c` | recursion over a line and a command as functions |
| `QuickSort` | `ass4/Q1/quick_sort.c` | |
| `Cabs` | `ass4/Q3/main.c` | |
| `CabsProofs` | theorems about `Cabs` | TLAPS |
| `Biryani` | `ass4/Q2/main.c` | |
| `Parts` | instances of parts that share nothing: `Memory`, `Console`, `Times`, `Spinlock`, `Cabs`, `Biryani` | what `PartsProofs` is about |
| `PartsProofs` | theorems about all of these in `Parts` | TLAPS |
| `AllParts` | `Parts` with `FileData`, `Umalloc`, `QuickSort`, `Shell`, `ExecArgs`, `Proc` | one run for all of them |

Definitions named "Mutant" in a comment are wrong versions of the definition below them.
Nothing uses them; they document which mistake each property would reveal.

`Parts` instantiates several modules over common variables `s1`, `s2`, ...: its initial
states choose a part, and only that part moves. Each part is explored completely, and a
property of `Parts` says what it says of the part that was chosen. The sizes of these parts
are constants of `Parts` with values in `AllParts.cfg`, under `PartsAssumption`. `AllParts`
extends `Parts` with the parts that no theorem is about, and with a small `Proc` whose
theorems are in `ProcProofs` (their sizes are in the substitutions): `AllInit` and `AllNext` have the disjuncts of `Init` and `Next` and theirs,
so that every behaviour of `Parts` is one of `AllParts`, and the properties of `Parts` are
checked where its theorems prove them.

### Proc

`state`, `pid`, `parent`, `chan`, `killed`, `kstack` are the fields of `struct proc`; `pc`
says where the kernel thread of a slot is, and `np`, `ticks0`, `dur` are the locals that
live across steps. `spc`, `cproc`, `idx` are a CPU's scheduler, `tpc` its timer interrupt.
A critical section with interrupts off is one step, except where other code can run in the
middle: the lock that `swtch` carries from scheduler to thread and back, the stretch of
`exit()` between the wakeups and ZOMBIE, the scan and the sleep of `wait()`, and the switch
from `tickslock` to `ptable.lock` in `sleep()`. Code without the lock (`allocproc` after it
has released it, `fork` up to the last statement) is one step per access.
A process may be interrupted at every point in `Preemptible`, where interrupts are on.
`SchedAcquire`, `SchedRun`, `SchedRelease` are the loop of `scheduler()`; `Resume` is the
return of `swtch` in `sched`/`forkret`; `TrapEnter`, `TrapReturn`, `Fault`, `TimerIrq`,
`TimerWake`, `TimerIdle`, `TimerKilled`, `Yield` are `trap()`; the rest carry the names of
the functions. User programs may call anything at any time; the program of slot 1 is
`init.c`, whose death panics the machine (`ExitInit`).

### Spinlock

A context is a scheduler or the kernel thread of a process, with a stack of frames: a
system call (a trap gate: interrupts stay on), an interrupt handler (an interrupt gate:
they go off), `forkret` or the scheduler. Every frame may take a device lock, then
`ptable.lock`, and release them in any order, as `sleep()` does; a thread that holds just
`ptable.lock` may call `sched()`, and any CPU may resume it. `acquire()` is four steps
(flags read; `cli`, `ncli`, `intena` and the test of `holding()`; `xchg`; the owner),
`release()` three. `MaxFrames` bounds stacks; the code never comes near it, only the mutants
do.

### Times

The control of `Proc` reduced to what touches `ctime`, `rtime`, `etime`, with the unlocked
`increment_times()` as one step per slot and per load and store, and `switchuvm()` as a
start and an end. `ran` and `waited` count, as history, the ticks a process really ran or
did not. With one CPU the timer may come inside growproc()'s switchuvm(), which then counts
the tick once more (`WaitxExact` says how often). Between CPUs `p->rtime++` of CPU 0 and
`p->rtime += run_time` of another race without a lock, an addition may be lost, and no exact
count holds: only the end stamps are checked there. The `+=` is one instruction and one step,
so of the two ways to lose an addition the model has the one in which `++` loses it.

### Log and AtomicDisk

`home`, `logged`, `header` are on disk and survive `Crash`; the rest is memory. Every
`bwrite` is a step, so a crash falls between any two, also inside recovery. A call is
begin_op, any number of log_writes of at most `MAXOPBLOCKS` blocks, end_op. `log_write` is
two steps, as it tests the length before it takes `log.lock`. The log area has `NLOG` blocks,
its header included, so `NLOG - 1` blocks of a transaction fit; write_log() puts one more over
`InodeBlock`, the block that mkfs puts behind the log, and recovery takes it from there. The
refinement mapping takes the disk of `AtomicDisk` to be what recovery would leave
(`Recovered`), so that the header write is the moment of commit.

### BufferCache and BlockStore

A step is what is done under one spin lock. `mru` is the list from the most recently used
buffer on; `idequeue` the requests of the driver; `holder` the sleep lock of a buffer. A
process reads a block, modifies it and either pins it (`log_write`) or writes it
(`bwrite`); the log writes pinned buffers later. `IdeIntr` serves the head of the queue and
starts the next request. The refinement mapping takes a block to be its valid buffer, else
the disk.

### Files

`ref`, `type`, `filePipe` are `ftable`; `ofile` the descriptors; `nread`, `nwrite` count
modulo `WORD`. A byte is its place in the stream, so that `StreamIntact` sees any byte that
is lost, doubled or swapped. `pipealloc` is two `filealloc`s, a page and the setup, each of
which may fail; `fileclose` drops the reference and closes the pipe in two steps. `f0` and
`f1` are the files that pipealloc() has made, or that a call is about to close. A transfer
copies as many bytes as fit under one acquire of the pipe's lock, and so a step of a writer
may bring several bytes: `BytesWake` says that it wakes the readers for them, and names the
case in which it does not.

### Inodes

`dinode` is on disk, `inode` in the cache; `ent` are directories. A call is a walk along a
path, with a step for each `ilock`, and then its own steps; `puts` are the `iput()`s still
to do, each of which locks the inode, perhaps frees it, and drops the reference in a step
of its own. The names `.` and `..` are in the model (`Dots`), but no path of the runs uses
them: see section 3.

### FileData

Blocks hold `BSIZE` cells. First `mkfs` builds an image with one or more files in the root
directory; then processes open, read, write and truncate. `filewrite()` writes chunk by
chunk, `writei()` block by block; `logged` are the blocks of the transaction. `text` is
what each file should hold.

### Memory, ExecArgs

An address space is the directory, its tables and its entries; `data` says what each page
contains. `fork`, `exec` and `sbrk` get page after page, interleaved with others, and fail
at any of them; `view` is what each process should find in its memory. There is no TLB: a
process finds what its page table says, see section 3 for the one call that counts on less.
`ExecArgs` takes one call of exec() byte by byte, from the caller's memory to the new stack:
`Passed` reads a vector of strings out of a memory without the code's loops, and has to find
the same in both. Its other pages and the copy of the text are in `Memory`.

### Console, Umalloc, QuickSort

`Console` has two readers and an interrupt that takes letters, ends of line, `^D`, `^H` and
`^U`. `Umalloc` is a heap of header units; `sbrk()` may leave gaps, as other calls of it in
a program would; what morecore() asks it for is in bytes, with the width and the sign of the
argument. `QuickSort` takes what a task does to its own part of the array as a step
and shows that parts are disjoint while tasks run; any pivot may be drawn, and fork() and
pthread_create() may fail. The program then waits for a thread whose id was never set:
pthread_join() returns at once or ends the program (`Fails`, `Crash`), and the part of that
task stays as it was.

### Shell

The parser works on characters, with a position for `*ps`; each of its functions returns
the set of what it has made and where it stopped, empty after a panic. `Means` says what a line
means without following the parser: it is cut at each `;` outside parentheses, a piece at
the `&` it ends with, and the rest at each `|`. The processes of a command are named by the
place in the command tree at which they were forked; each runs `runcmd()`, and the calls
that may fail do. Programs are filters, which is the case in which an open pipe end hurts.

### Cabs and Biryani

Each thread is a little state machine, because the programs guard one field with different
mutexes or none: an access to a shared field is a step of its own. In `Cabs` the exceptions
are the two tests of a cab (`Bookable`) and the two stores that book it (`Book`), under the
mutex of the cabs. In `Biryani` these steps take more than one access, where the accesses of
others in between could as well come before or after: `ChefClear` (r, and p that is 0
already), `ChefCook` (cooking, set already, and lock), `ChefLoad` (r, and p that nobody else
writes), `ChefServed` (cooking, which only the chef clears, and a counter), `ContInit`
(lock, which only a student under its mutex could see, and students_to_feed), `ContLock`
(the mutex and a counter), `ContTake` (test and store of the lock, which the mutex keeps
from other containers, and the unlock), `StudentFound` (the tests, the lock and the count,
under the mutex of the students), `StudentNext` and `StudentUnlock` (the same lock and the
mutex). Delays (`sleep`) may take any time. `Cabs` is built with `-O3`: the order of the
volatile store `payment_status = 0` and the decrement that follows it in the source is left
open, since the compiler swaps them. `Biryani` is built without optimisation and keeps
program order. Random draws keep the ranges that `get_random_number_between` really produces
(its modulus may be negative).
`EnoughCooked` is a property of messes with one container: see section 3.

## 3. Runs

| run | instance | checks |
|---|---|---|
| `proc_smp` | 3 slots, 2 CPUs, pids to 4 | `LockDiscipline`, `RunningOnOneCpu`, `ParentAlive`, `NoLostWakeup`, `EmbryoOwned`, `LifeCycle` |
| `proc_fair` | 3 slots, 1 CPU, sleep 1 with ticks modulo 1 (time alone never ends a sleep) | `RunnableRuns`, `DoomedGoes` (killed processes die, orphans are reaped) |
| `log` | 2 processes, 3 blocks, 2 per call, 3 calls, 2 crashes | `LogSound` (clean blocks, commits alone, a waker for each sleeper, the header fits, and what makes that inductive), `Atomic` (refinement of `AtomicDisk`), `SleeperWoken` |
| `bcache` | 2 processes, 4 blocks, 3 buffers, 1 pinned | `BuffersSound` (a buffer stays its block's, `bget()` finds one), `StoreImplemented` (refinement of `BlockStore`), `SleeperWoken` |
| `files` | 2 processes, 2 descriptors each, 2 files, 1 pipe of 2 bytes, counters modulo 4 | `CountsExact`, `StreamIntact`, `SleepersHaveReason`, `EofReaches` |
| `inodes` | 2 processes, 4 inodes, 2 names, 2 calls | `CacheSound` (counts, cache and disk), `InUseAllocated`, `LinksCounted` |
| `cabs` | 1 cab, a pool passenger and two premier ones, 2 servers | `PaymentsSound` (slots private, nobody abandoned, no count too low), `BookingExclusive`, `AllThrough` |
| `parts` | see below | `LocksSafe`, `FlagRestored`, `ParseRight`, `CommandsRight`, `FilesSound`, `BlocksAccounted`, `MemorySound`, `ArgumentsArrive`, `HeapSound`, `ConsoleSound`, `EofAlone`, `SortSound`, `TimesSound`, `ThreadsSound`, `SleeperNotOverdue`, and `IndInv` of `Proc`, of which the types, stacks, pids and killed waiters are parts |

The parts of `parts`:

| part | instance |
|---|---|
| locks | 2 CPUs and 1 thread; 1 CPU and 2 threads |
| shell | all lines of up to 4 characters, and longer ones with three-stage pipelines, lists and background commands in pipelines; every call may fail |
| file data | 2 processes, 3 inodes, 9 blocks of 2 cells, 2 direct blocks, 5 calls of 1 or 5 cells |
| memory | 2 processes, 13 pages of which an address space takes up to 9, a program of two segments and one that reaches KERNBASE, sbrk of 3 and -3 units |
| arguments | bytes of 16 values, ints of 2 bytes, pages of 16 bytes, MAXARG 3; all memories of 8 bytes of 3 values with a vector in front, one string of 1 to 50 bytes; vectors at the start, off it, at the end of memory and of the address space |
| umalloc | 8 units, requests of 1, 3, 5 and 25 bytes in units of 2, at least 3 units from sbrk(), uints of 6 bits |
| console | 2 readers, ring of 3, indices modulo 12, 6 keys |
| quicksort | 4 elements of 3 values, exchange sort up to 2 |
| times | 2 processes on 1 CPU; 1 process on 2 CPUs; 3 ticks, sbrk |
| cabs | 1 cab, 2 pool passengers and a premier one, 1 server |
| mess | 2 chefs, 1 container, 1 student; 1 chef, 1 container, 3 students |
| processes | 2 slots, 2 CPUs, pids to 3, ticks modulo 3, sleeps of 1 and 2 |

Bounds. Three slots are init, a parent and a child, the smallest family in which a process
is orphaned; two CPUs give every race between a scheduler and a thread; four pids let a slot
be used again. (Only with four slots does the exit of a process that is not a child of init
wake init for a zombie; the theorems cover it.) Two crashes make a crash during recovery,
and a third incarnation that reads what both left. Three blocks with two per call let
transactions overlap and absorb, and a third call that begins while another goes on, with
all three blocks in the log, wait for space. With three blocks a transaction is far from the
end of the log area of six; `log_overrun` has an area of three. Four blocks in three buffers, one of them pinned, make the cache recycle, wait
for a buffer in use and pass over the pinned one. A pipe of two bytes with writes of three
is full, empty and wrapped around, and two files make `pipealloc` fail after the first
while an end of another pipe is open. (A pipe() that finds no two descriptors takes a second
page; the theorems cover it.) Two calls of two processes on four inodes reach every pair of calls,
with inodes used again. Files of five cells cross from two direct blocks into the indirect
one and back to nothing. Thirteen pages are short of two address spaces of full size, so
that memory runs out at every allocation. `Times` needs a tick before, during and after each
stamp. `Cabs` with pool passengers 1 and 3 has one joining the other; `Biryani` is bounded
by `MaxCooked`, since chefs delayed for longer than their own sleep() could go on for ever.

Deadlock is checked in every run but `files` and `inodes`: there all processes may be asleep
in read() with nobody left to write, or end up in the deadlocks described below.

Fairness. A CPU goes on executing, timer interrupts keep coming, a spinning CPU gets a lock
that is free again and again, and init runs its program; user programs may stop at any point
(`Proc!Fairness`). A file system call goes on and ends (`Log!FairSpec`). A process in the
kernel goes on, and the disk answers (`BufferCache!Fairness`, `Files!Spec`): both follow
from the scheduler's fairness in `Proc`. Threads of the assignment 4 programs go on; mutexes
are not assumed fair.

### Disagreements between code and text

Four runs are expected to find a violation; each quotes a line of the repository.

| run | shows |
|---|---|
| `times_negative` | a tick between the end stamp and ZOMBIE makes waitx() report a negative waiting time |
| `log_overrun` | two processes pass the length test of log_write() at the same last free block, both append, and the commit writes over the first inode block (log.c:218, 183) |
| `cabs_end` | a lost decrement of `total_passengers_left` keeps main() from ever returning |
| `inodes_deadlock` | create() waits in `iput()` for the directory that unlink() has locked, and unlink() for the inode that create() has locked (usertests.c:856 tests this mix of calls "to look for deadlocks") |

The models also reproduce these behaviours of the code, which no run states as a property:

* `kill()` marks an UNUSED slot (pid 0, or the pid that a failed fork left there), and the
  next process in the slot is born killed (`Proc!Kill`, proc.c:598);
* `log_write()` panics ("too big a transaction") when it is called again for a block that the
  transaction already has, once the header is full: it tests the length before it absorbs
  (log.c:218). Calls that keep to `MAXOPBLOCKS` can meet this, so `SleeperWoken` allows a
  panic;
* the log area that mkfs makes has `NLOG` = `LOGSIZE` blocks, header included, one less than
  `begin_op()` counts on, and the test of log_write() that should make up for it is not under
  `log.lock` (`log_overrun`). In that instance TLC also finds `Atomic` violated and, with
  deadlocks checked, a commit that waits for ever for a buffer that it holds itself: write_log()
  has one of the inode block when it reads the block whose number is that one. `LogSound`
  holds there, and with one block more in the log area so does `Atomic`;
* a read that the disk reports as failed leaves old data in a buffer marked valid
  (ide.c:118); `ReadFails` is {FALSE} in the run, since nothing can then be promised;
* the log may pin `LOGSIZE` buffers and `NBUF` is as large: `NeverOut` says how many are
  enough, and the constants of `param.h` are below it;
* two `iput()`s that overlap both read a count of 2, and neither frees an inode whose last
  name is gone (fs.c:336-351): it stays allocated until the disk is made anew. So does an
  entry that create() or link() makes in a directory that unlink() has just removed;
* `..` of a directory that was removed while it was somebody's current directory leads to
  an inode that may be free ("ilock: no type"), and link("f", "d/.") makes `dirlink()`
  wait for the lock of d that it holds (fs.c:559-561). The runs keep `.` and `..` out of
  paths, so that the other properties can be checked past these;
* a writer that is killed at a full pipe returns without waking the readers for what it has
  written (pipe.c:86-88). A reader then sleeps at a pipe with bytes until somebody writes or
  closes; `SleepersHaveReason` and `BytesWake` allow just that, and theorem `ByteWakes`
  shows that it is the only way to bring bytes without a wakeup;
* mkfs makes the root directory a block longer than its entries when they end at a block
  boundary (mkfs.c:161); readi() then allocates a block outside of a transaction. The image
  of the Makefile ends inside a block, and so do those of the run;
* sbrk(-sz) makes growproc() report a failure with the pages gone, before the switchuvm() that
  would reload cr3 (proc.c:195-199). The model lets the process fault. While the TLB still has
  the pages, the process may go on in them until cr3 is next loaded, and even call fork(),
  where copyuvm() panics: `Memory` leaves the TLB out, and `MemorySound` says nothing of this;
* malloc() of 2^31 bytes or more gives sbrk() a number that is negative, or small, or computes
  a small number of units to begin with (umalloc.c:54, 69). `Umalloc` does all this, but the
  heap is not sound then: the largest request of the run is just below, and fails;
* exec() of a string longer than the stack pointer makes it wrap around (exec.c:75), which
  `Push` does; at the top of the address space copyout() meets kernel pages and fails. A
  string of more than 32 MB would take the pointer below DEVSPACE, where uva2ka() follows a
  page table that does not exist (vm.c:359): the model fails there as well, and its memories
  have no string in that proportion;
* a reader of the console that is killed just before it sleeps dies only after the next line
  (console.c:246);
* the shell treats `>>` as `>`, takes the first of two redirections of the same descriptor,
  and ends when its own fork() fails (init starts another);
* the threaded and the recursive quicksort see an array that is sorted already, unless a
  fork() failed before; a fork() or pthread_create() that fails leaves a part unsorted, and
  its result is never looked at;
* a pool passenger that joins a cab goes on to the second search loop, may book an empty cab
  too, and leaves the first one locked (Q3 main.c:144);
* `ready_to_serve()` waits for the container after its own, the last one for an element that
  no thread owns (Q2 main.c:250): a container whose first batch is not enough never comes
  back, and main() does not return. The messes of `parts` may lay out as many portions as
  there are students, so that both ends of the program are reached;
* with two containers a chef may leave before enough is cooked (TLC: 2 containers, 1 chef, 10
  students, 8 portions cooked). A container may find a chef free before the chef's thread has
  started (Q2 main.c:214-219), and then be at the chef's pot together with another. The
  `r--` of one of them (main.c:230), a load and a store, may span the next batch of the chef:
  the old value lands on the new one, and the chef subtracts it from
  `students_left_to_serve`. That is why the messes of `parts` have one container, and why
  `EnoughIsCooked` is about one.

## 4. Proofs

`ProcProofs` proves, for all `NPROC`, `NCPU`, `MaxPid`, `TickMod` and `SleepTimes` that
satisfy the three assumptions of `Proc` (positive sizes, natural sleep times):

* `Invariance`: `Spec => []IndInv`;
* from it `TypeCorrect`, `Locking`, `Exclusion`, `Parents`, `Wakeups`, `SlotsConsistent`,
  `Sleepers`;
* `LifeCycles`: every step changes every slot along the intended arrows.

The safety properties are not inductive one by one. `IndInv` adds

* `CpuInv`: which points a thread may be at while its CPU switches, runs it or handles an
  interrupt. Without it a thread could be resumed in a critical section of another CPU;
* `ThreadInv`: where a thread that does not run was left, and on which channel it sleeps.
  `NoLostWakeup` needs it to know that exit() wakes the channel the parent sleeps on;
* `FamilyInv`: what fork() has filled in so far, that init has no parent and never becomes
  a zombie. `ParentAlive` rests on it when orphans go to init;
* `PidInv`: pids are below `nextpid`, for `PidUnique`;
* `TickInv`: a sleeper is overdue only between `ticks++` and `wakeup(&ticks)`.

The proof has one lemma per action, and under it one step per conjunct that the action can
disturb. `parts` checks `IndInv` with TLC.

`LogProofs`, for any finite set of processes, any blocks, sizes, and numbers of calls and
crashes:

* `Soundness`: `Spec => []LogSound`. `HeaderFits` is not inductive, since log_write() tests
  the length of the header without the lock: `SpaceReserved` counts what the calls in
  progress may still add (`Spare`), and begin_op() lets a call in only when all of it fits.
  `CallsCounted` ties `outstanding` and `committing` to the calls; `HeaderRight` and
  `BlocksUnderWay` say, for the commit and for the recovery alike, how far each block has
  got from the cache over the log area to its home;
* `CrashAtomicity`: `Spec /\ []LogFits => Atomic`. Under `LogSound` every step maps to a step
  of `AtomicDisk`: the header write is the commit, and crash, recovery and installation leave
  what recovery would make of the disk as it is. The hypothesis `LogFits`, that no transaction
  is longer than the log area, is what `log_overrun` refutes of the code;
* `FitsUnlessRace`: `Spec /\ []OneAppends => []LogFits`: two processes between the length test
  and `log.lock` are the only way to break it;
* `RoomyLog`: `NLOG > LOGSIZE => (Spec => Atomic)`: with a log area of one block more than
  mkfs makes, the reservation of begin_op() is enough and the race does no harm.

`BufferCacheProofs`, for any finite set of processes, any blocks and buffers:

* `CacheSound`: `Spec => []BuffersSound`, also when reads fail. `BufferStays` (a buffer stays
  its block's while somebody has it, and a block has one buffer) needs `BuffersCounted`
  (`refcnt` counts who has the buffer), `FlagsRight` (flags and the place of a buffer on the
  queue go together) and `SleepersExpected`. That bget() never panics is a count:
  with more buffers than are pinned or in use, one is free and clean;
* `CacheImplements`: `Spec => StoreImplemented` under the hypothesis `ReadFails \subseteq
  {FALSE}`, which is that of the run: a read that fails leaves garbage in a valid buffer.
  `CleanCopies` is what the mapping needs besides: a valid buffer that is not dirty agrees
  with the disk, so that recycling it loses nothing.

`FilesProofs`, for any finite set of processes, any pages and sizes of the tables, and any
`PIPESIZE` that divides `WORD`:

* `Counts`: `CountsExact` is inductive by itself. `RefExact` counts descriptors and calls;
  `EndsUnique` (a pipe has one file for each end), `CallsRight` and `NewFilesOwned` are what
  pipealloc() and fileclose() rely on between their steps;
* `Streams`: a byte is found at its place modulo `PIPESIZE` as long as at most `PIPESIZE`
  are unread, also when a counter wraps at `WORD`: this is where divisibility is used;
* `Sleepers`: `SleepersHaveReason`, with `LockHeld`: between the test and sleep() the lock
  keeps everybody else away;
* `ByteWakes`: `BytesWake`, an action property, from the three invariants.

`CabsProofs`, for any cabs, finite set of passengers and servers, with room in pay[] for all:

* `Payments` and `Bookings`: `PaymentsSound` and `BookingExclusive` are inductive together.
  `MutexesHeld` and `LocalsRight` locate each thread; `SlotsInOrder` says that slots are
  given out in their order; `NeverShort` counts, through decrements split into load and store
  by threads under different mutexes, that `total_passengers_left` never falls below the
  passengers still to be counted. Lost decrements make it too high (`cabs_end`), never too
  low.

`SpinlockProofs`, for any natural `NCPU` and `NThreads`:

* `LockSafety`: `Spec => []LocksSafe`, and `Flags`: `Spec => []FlagRestored`. `IndInv` (of
  `SpinlockProofs`) has a stack of at most one handler on top of code that holds nothing and
  has interrupts on; `ncli` as the number of locks that the current frame holds or is taking
  or giving back; `intena` as what the kind of the frame says; and the locks as those of the
  current frames. Neither property is inductive without all of it: a handler meets no lock
  of the code below because the flag is off while `ncli` is not 0, and `ncli` moves along
  with the lock because whatever waits in swtch() has `ptable.lock` and no other.

`InodesProofs`, for any number of inodes and cache entries, any finite set of processes, any
names and number of calls (`InodesAssumption`):

* `CacheCorrect`: counts are exact and valid copies agree with the disk, also with `.` and
  `..` in paths. `CacheInv` has the types, `RefEq` (`ref` is a sum over all pointers of all
  processes, and the proof of each step follows the summand of one process), `HeldOK` (an
  inode that a process holds locked is valid and as on the disk) and `FreeOK` (who frees an
  inode has no other claim to it);
* `CacheIsSound`, `InUseStays` and `LinksAreCounted`: `CacheSound`, `InUseAllocated` and
  `LinksCounted`, under the hypothesis `Dots = {}`, which is that of the runs: the `..` of a
  removed directory may name a free inode (section 3). `LinkInv` says what every link is for:
  a name, an entry `..`, a link() that is to enter it, an unlink() that has erased it
  (`Links`); and what a call knows of the directory it has locked (`Facts`). That an inode
  in use stays allocated needs the links, because iput() frees what has none.

`PartsProofs` proves about behaviours of `Parts`, for all constants that satisfy
`PartsAssumption`. A step leaves all parts but one alone (`PartStays`), so each part has its
own induction, in its own instance:

* `MemoryIsSound`, for any number of processes and pages, any sizes of pages, page tables and
  address spaces, any programs and any arguments of sbrk(): `MemorySound`. `IndInv` adds to
  it what a call in progress has (`Shape`: who is in no call has no second address space, and
  an embryo belongs to one fork()), how far it has come (`Progress`: exactly the pages below
  `newsz` are mapped in the address space that is being made or grown, which is why
  mappages() finds its entry free) and what is in the pages already (`Contents`: a copy has
  what the parent has, a segment that is loaded has the program, what sbrk() has added is
  zero). The pages of a process are one set (`Mine`), so that a step of one has to be followed
  only in that set and in the free list; lemmas say which pages `AddPage` and `Shrunk` add to
  an address space and take from it, and a step of another process keeps the contents
  because the pages differ. A page table stays when its last page is gone, so `Progress`
  speaks of the entries and not of the tables;
* `LocksAreSafe` and `FlagsAreRestored`, from `SpinlockProofs` about the same steps;
* `EndStamps` and `WaitxCounts`, from them `TimesAreSound`: with any number of CPUs an end
  stamp lies between creation and now (`StampInv`); with one CPU waitx() reports exactly the
  ticks of a child (`WaitxInv`). `Pending` is what makes the latter inductive: the ticks of a
  process that `rtime` does not have yet, because the timer's loop has not come to it or
  because switchuvm() of growproc() will add them when it ends;
* `EverybodySeated`, for any number of chefs, containers and students: `NoEarlyLeave`, because
  `students_left_to_feed` counts the seats exactly (`FeedInv`) and a stale value of it is
  only larger;
* `EnoughIsCooked`, for any number of chefs and students and one container: `EnoughCooked`.
  `CookInv` keeps `students_left_to_serve`, and every value of it that a chef has loaded,
  above what is not cooked yet less what chefs have cooked and not subtracted (`Accounts`),
  so that a lost subtraction does no harm; `PotRight` and `VesselRight` show that the
  container never puts an old value over a new batch, also one that has taken a chef before its
  thread has started and sends it back only when it has cooked. `ThreadsAreSound` joins these with the
  theorems of `CabsProofs`;
* `ConsoleIsSound` and `EofsAlone`, for any readers, length of the ring, width of the indices
  that it divides, and keys. `ConsoleInv` has the distances of the three indices modulo
  the width (`Distances`), what each slot of the ring holds (`RingRight`), and what a reader
  wants and has got (`ReadersRight`). A character typed goes to a slot that none of the others
  uses as their numbers differ by less than the length, and indices that have wrapped around
  name the same slots because the length divides the width.

Only model-checked:

* all liveness (`RunnableRuns`, `DoomedGoes`, `SleeperWoken`, `EofReaches`, `AllThrough`):
  the prover has no rules for fairness;
* `SortSound`, `ParseRight`, `CommandsRight`, `ArgumentsArrive`, `HeapSound`: what a fold or a
  recursive function computes for every input needs induction over data;
* `FilesSound` and `BlocksAccounted`: they relate contents, block maps and the bitmap of a
  whole disk, and are left to the bounded instance.

## 5. Not modelled

See `PROJECT.json`. Boot, interrupt controllers, device registers, assembly, key maps,
formatting and output are left out for good: they hold no control that a model would keep.
`getpinfo`, `filestat` and `procdump` only read. The system call table only dispatches,
and `argint`, `argptr` and `argfd` check one value each. User programs other than init
and the shell, and the tests, are clients of what is modelled. Contents of memory and
files are abstracted to what the properties tell apart. Out of the model although it
changes state: the built-in `cd` of the shell and the counters `num_run`,
`time_in_queues` and `wait_time`, which decide nothing.

## 6. Plan

1. (done) `Proc`, its proofs; `Times`; `Log` with `AtomicDisk`; `Cabs`; `Biryani`.
2. (done) `BufferCache` with `BlockStore`; `Files`; `Inodes`; `FileData`; `Memory`;
   `ExecArgs`; `Console`; `Umalloc`; `QuickSort`; `Spinlock`; `Shell`.
3. (done) Proofs for `Log`, `BufferCache`, `Files`, `Cabs` and `Spinlock`.
4. (done) Proofs for `Inodes`, and for `Times`, `Biryani`, `Console` and `Memory` in `Parts`.
5. Left: `FilesSound` and `BlocksAccounted` for all sizes.
