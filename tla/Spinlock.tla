------------------------------ MODULE Spinlock ------------------------------
(***************************************************************************)
(* spinlock.c and what the rest of the kernel relies on in it: acquire()   *)
(* and release() with the interrupt flag of the CPU, pushcli() nesting,    *)
(* interrupt handlers that take locks themselves, and sched(), which moves *)
(* a thread that holds the process table lock to another CPU.              *)
(* Contexts 1..NCPU are the schedulers of the CPUs; the others are the     *)
(* kernel threads of processes.  A context is a stack of frames, the       *)
(* current one last; an empty stack is user mode.                          *)
(***************************************************************************)
EXTENDS Integers, Sequences

CONSTANTS NCPU, NThreads,
          MaxFrames     \* no stack of the model grows beyond this

CPUs == 1..NCPU
Threads == NCPU + 1 .. NCPU + NThreads
Contexts == CPUs \cup Threads
Locks == {"ptable", "device"}

VARIABLES
  locked,     \* lk->locked
  owner,      \* lk->cpu, 0 for none
  ncli,       \* cpu->ncli
  intena,     \* cpu->intena
  flag,       \* FL_IF of the CPU: interrupts are on
  running,    \* the context that the CPU runs
  stack,      \* the frames of each context
  panic       \* the message of panic(), or "no"

vars == <<locked, owner, ncli, intena, flag, running, stack, panic>>

(***************************************************************************)
(* A frame: kind tells how the code was entered; pc is "code" outside      *)
(* acquire(), release() and sched(); held are the locks it has taken.  The *)
(* other fields are local to those functions.                              *)
(***************************************************************************)
Kinds == {"scheduler", "syscall", "forkret", "handler"}
Frame == [kind : Kinds,
          pc : {"loop", "code", "flags", "xchg", "own", "clear", "popcli", "switched"},
          lk : Locks, eflags : BOOLEAN, held : SUBSET Locks, saved : BOOLEAN]

Entered(kind, pc, held) ==
  [kind |-> kind, pc |-> pc, lk |-> "ptable", eflags |-> FALSE, held |-> held,
   saved |-> FALSE]

Last(s) == s[Len(s)]
Stack(c) == stack[running[c]]
Top(c) == Last(Stack(c))
InKernel(c) == panic = "no" /\ Stack(c) # <<>>
At(c, pc) == InKernel(c) /\ Top(c).pc = pc

\* The current frame becomes f, or is returned from.
Becomes(c, f) == stack' = [stack EXCEPT ![running[c]][Len(Stack(c))] = f]
Goes(c, pc) == Becomes(c, [Top(c) EXCEPT !.pc = pc])
Returns(c) == stack' = [stack EXCEPT ![running[c]] = SubSeq(@, 1, Len(@) - 1)]
Enters(c, kind) == stack' = [stack EXCEPT ![running[c]] = Append(@, Entered(kind, "code", {}))]

Init ==
  /\ locked = [l \in Locks |-> FALSE]
  /\ owner = [l \in Locks |-> 0]
  /\ ncli = [c \in CPUs |-> 0]
  /\ intena = [c \in CPUs |-> FALSE]
  /\ flag = [c \in CPUs |-> FALSE]
  /\ running = [c \in CPUs |-> c]
  /\ stack = [x \in Contexts |->
                IF x \in CPUs THEN <<Entered("scheduler", "loop", {})>>
                              ELSE <<Entered("forkret", "code", {"ptable"})>>]
  /\ panic = "no"

-----------------------------------------------------------------------------
(* pushcli(), popcli() and holding() *)

\* cli() and what follows it; the flags were read before.
Pushcli(c, eflags) ==
  /\ flag' = [flag EXCEPT ![c] = FALSE]
  /\ intena' = [intena EXCEPT ![c] = IF ncli[c] = 0 THEN eflags ELSE @]
  /\ ncli' = [ncli EXCEPT ![c] = @ + 1]

\* Only the CPU itself makes itself the owner of a lock, so that the two reads can
\* be one.  The pushcli() and popcli() around them leave everything as it was: the
\* callers have interrupts off.
Holding(c, l) == locked[l] /\ owner[l] = c

Popcli(c) ==
  IF flag[c] THEN panic' = "popcli - interruptible" /\ UNCHANGED <<ncli, flag>>
  ELSE IF ncli[c] = 0 THEN panic' = "popcli" /\ UNCHANGED <<ncli, flag>>
  ELSE /\ ncli' = [ncli EXCEPT ![c] = @ - 1]
       /\ flag' = [flag EXCEPT ![c] = ncli[c] = 1 /\ intena[c]]
       /\ UNCHANGED panic

-----------------------------------------------------------------------------
(* acquire() *)

\* The kernel takes a device lock before the process table lock, never after it; the
\* scheduler takes only the process table lock.
MayAcquire(f, l) ==
  /\ l \notin f.held
  /\ l = "device" => f.held = {} /\ f.kind # "scheduler"

\* acquire() is called; pushcli() reads the flags.
Acquire(c, l) ==
  /\ At(c, "code")
  /\ MayAcquire(Top(c), l)
  /\ Becomes(c, [Top(c) EXCEPT !.pc = "flags", !.lk = l, !.eflags = flag[c]])
  /\ UNCHANGED <<locked, owner, ncli, intena, flag, running, panic>>

\* The rest of pushcli(), and holding().
AcquireCheck(c) ==
  /\ At(c, "flags")
  /\ Pushcli(c, Top(c).eflags)
  /\ panic' = IF Holding(c, Top(c).lk) THEN "acquire" ELSE "no"
  /\ Goes(c, "xchg")
  /\ UNCHANGED <<locked, owner, running>>

\* The exchange that finds the lock free; the others change nothing.
Xchg(c) ==
  /\ At(c, "xchg")
  /\ ~locked[Top(c).lk]
  /\ locked' = [locked EXCEPT ![Top(c).lk] = TRUE]
  /\ Goes(c, "own")
  /\ UNCHANGED <<owner, ncli, intena, flag, running, panic>>

AcquireOwn(c) ==
  /\ At(c, "own")
  /\ owner' = [owner EXCEPT ![Top(c).lk] = c]
  /\ Becomes(c, Entered(Top(c).kind, "code", Top(c).held \cup {Top(c).lk}))
  /\ UNCHANGED <<locked, ncli, intena, flag, running, panic>>

-----------------------------------------------------------------------------
(* release() *)

\* Mutant: the owner is not cleared.
ReleaseOwned(c, l) ==
  /\ At(c, "code")
  /\ l \in Top(c).held
  /\ panic' = IF Holding(c, l) THEN "no" ELSE "release"
  /\ Becomes(c, [Top(c) EXCEPT !.pc = "clear", !.lk = l, !.held = @ \ {l}])
  /\ UNCHANGED <<locked, owner, ncli, intena, flag, running>>

\* holding(), and the owner is cleared.
Release(c, l) ==
  /\ At(c, "code")
  /\ l \in Top(c).held
  /\ IF Holding(c, l)
     THEN owner' = [owner EXCEPT ![l] = 0] /\ UNCHANGED panic
     ELSE panic' = "release" /\ UNCHANGED owner
  /\ Becomes(c, [Top(c) EXCEPT !.pc = "clear", !.lk = l, !.held = @ \ {l}])
  /\ UNCHANGED <<locked, ncli, intena, flag, running>>

ReleaseClear(c) ==
  /\ At(c, "clear")
  /\ locked' = [locked EXCEPT ![Top(c).lk] = FALSE]
  /\ Goes(c, "popcli")
  /\ UNCHANGED <<owner, ncli, intena, flag, running, panic>>

ReleasePopcli(c) ==
  /\ At(c, "popcli")
  /\ Popcli(c)
  /\ Becomes(c, Entered(Top(c).kind, IF Top(c).kind = "scheduler" THEN "loop" ELSE "code",
                        Top(c).held))
  /\ UNCHANGED <<locked, owner, intena, running>>

-----------------------------------------------------------------------------
(* Traps *)

\* A system call: a trap gate leaves interrupts on.
Syscall(c) ==
  /\ panic = "no"
  /\ Stack(c) = <<>>
  /\ Enters(c, "syscall")
  /\ UNCHANGED <<locked, owner, ncli, intena, flag, running, panic>>

\* A device or timer interrupt: an interrupt gate turns interrupts off.
Interrupt(c) ==
  /\ panic = "no"
  /\ flag[c]
  /\ Len(Stack(c)) < MaxFrames
  /\ Enters(c, "handler")
  /\ flag' = [flag EXCEPT ![c] = FALSE]
  /\ UNCHANGED <<locked, owner, ncli, intena, running, panic>>

\* The iret of trapret: the flags are those of the code that was interrupted, which
\* had interrupts on.
Iret(c) ==
  /\ At(c, "code")
  /\ Top(c).kind # "scheduler"
  /\ Top(c).held = {}
  /\ Returns(c)
  /\ flag' = [flag EXCEPT ![c] = TRUE]
  /\ UNCHANGED <<locked, owner, ncli, intena, running, panic>>

-----------------------------------------------------------------------------
(* sched() and scheduler() *)

\* sched() saves intena, which is of the thread and not of the CPU, and switches to
\* the scheduler of the CPU.
Sched(c) ==
  /\ At(c, "code")
  /\ running[c] \in Threads
  /\ Top(c).held = {"ptable"}
  /\ panic' = CASE ~Holding(c, "ptable") -> "sched ptable.lock"
                [] ncli[c] # 1 -> "sched locks"
                [] flag[c] -> "sched interruptible"
                [] OTHER -> "no"
  /\ Becomes(c, [Top(c) EXCEPT !.pc = "switched", !.saved = intena[c]])
  /\ running' = [running EXCEPT ![c] = c]
  /\ UNCHANGED <<locked, owner, ncli, intena, flag>>

\* Mutant: intena stays what it is on the CPU.
SwitchedKeep(c) ==
  /\ At(c, "switched")
  /\ Goes(c, "code")
  /\ UNCHANGED <<locked, owner, ncli, intena, flag, running, panic>>

\* swtch() has come back, perhaps on another CPU.
Switched(c) ==
  /\ At(c, "switched")
  /\ intena' = [intena EXCEPT ![c] = Top(c).saved]
  /\ Becomes(c, Entered(Top(c).kind, "code", Top(c).held))
  /\ UNCHANGED <<locked, owner, ncli, flag, running, panic>>

\* The loop of scheduler() begins with sti().
Sti(c) ==
  /\ At(c, "loop")
  /\ flag' = [flag EXCEPT ![c] = TRUE]
  /\ Goes(c, "code")
  /\ UNCHANGED <<locked, owner, ncli, intena, running, panic>>

\* The scheduler switches to a thread that runs nowhere; it keeps the lock, which
\* the thread or the scheduler itself releases.
Dispatch(c, t) ==
  /\ At(c, "code")
  /\ Top(c).kind = "scheduler"
  /\ Top(c).held = {"ptable"}
  /\ \A d \in CPUs : running[d] # t
  /\ running' = [running EXCEPT ![c] = t]
  /\ UNCHANGED <<locked, owner, ncli, intena, flag, stack, panic>>

Step(c) ==
  \/ \E l \in Locks : Acquire(c, l) \/ Release(c, l)
  \/ AcquireCheck(c)
  \/ Xchg(c)
  \/ AcquireOwn(c)
  \/ ReleaseClear(c)
  \/ ReleasePopcli(c)
  \/ Syscall(c)
  \/ Interrupt(c)
  \/ Iret(c)
  \/ Sched(c)
  \/ Switched(c)
  \/ Sti(c)
  \/ \E t \in Threads : Dispatch(c, t)

Next == \E c \in CPUs : Step(c)

Spec == Init /\ [][Next]_vars

-----------------------------------------------------------------------------
(* Properties *)

\* The variables keep to their domains.
TypeOK ==
  /\ locked \in [Locks -> BOOLEAN]
  /\ owner \in [Locks -> CPUs \cup {0}]
  /\ ncli \in [CPUs -> 0..2]
  /\ intena \in [CPUs -> BOOLEAN]
  /\ flag \in [CPUs -> BOOLEAN]
  /\ running \in [CPUs -> Contexts]
  /\ \A x \in Contexts : \A i \in DOMAIN stack[x] : stack[x][i] \in Frame

\* The frames that are on the CPU c.  A scheduler that has switched to a thread
\* waits with the process table lock as the thread's.
OnCpu(c) == {Stack(c)[i] : i \in DOMAIN Stack(c)}
HeldOn(c) == UNION {f.held : f \in OnCpu(c)}

\* acquire() admits one CPU at a time to what a lock protects, also when sched() hands
\* the process table lock from a thread to the scheduler and back on another CPU.
Exclusive ==
  \A c, d \in CPUs : c # d => HeldOn(c) \cap HeldOn(d) = {}

\* No CPU spins for a lock that it has itself: an interrupt handler never meets a
\* lock of the code it interrupted.
NoSelfSpin ==
  \A c \in CPUs :
    At(c, "xchg") =>
      /\ Top(c).lk \notin HeldOn(c)
      /\ \A i \in 1 .. Len(Stack(c)) - 1 :
           Stack(c)[i].pc \in {"own", "clear"} => Stack(c)[i].lk # Top(c).lk

\* Locks exclude, no CPU waits for itself, and code that takes its locks in order never
\* meets a panic of acquire(), release(), popcli() or sched(), however CPUs and
\* interrupts interleave: release() clears the owner before the lock, and ncli goes
\* with the lock from CPU to CPU.
LocksSafe == TypeOK /\ Exclusive /\ NoSelfSpin /\ panic = "no"

\* A thread finds interrupts as it left them when its last lock is released, after any
\* number of sched() calls and on whatever CPU: off in an interrupt handler, on in a
\* system call.
FlagRestored ==
  \A c \in CPUs :
    At(c, "code") /\ Top(c).held = {} =>
      /\ Top(c).kind = "handler" => ~flag[c]
      /\ Top(c).kind = "syscall" => flag[c]
=============================================================================
