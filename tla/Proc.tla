-------------------------------- MODULE Proc --------------------------------
(***************************************************************************)
(* The process table of the kernel in src/ass5/final_repo: proc.c, the     *)
(* parts of trap.c that enter and leave a process, and sys_sleep of        *)
(* sysproc.c.  Every CPU runs either scheduler() or the kernel thread of a *)
(* process; both share the table under ptable.lock, and the clock under    *)
(* tickslock.                                                              *)
(*                                                                         *)
(* Grain.  A critical section of ptable.lock during which interrupts are   *)
(* off is one step, except where the lock is handed from the scheduler to  *)
(* a process or back (swtch) and in exit(), wait() and sleep().  Code      *)
(* outside the lock is one step per access to shared state.                *)
(*                                                                         *)
(* Left out: memory contents, open files and names of a process; the tick  *)
(* accounting (ctime, rtime, etime, see Times); sleeps of the other        *)
(* subsystems, which call the same sleep() with another channel.           *)
(***************************************************************************)
EXTENDS Integers, FiniteSets

CONSTANTS NPROC,        \* slots of ptable.proc (param.h)
          NCPU,         \* processors
          MaxPid,       \* bound: no fork once nextpid exceeds it
          TickMod,      \* ticks is a counter modulo TickMod (2^32 in the code)
          SleepTimes    \* arguments user programs give to sleep()

ASSUME TableAssumption == NPROC \in Nat \ {0} /\ NCPU \in Nat \ {0}
ASSUME BoundAssumption == MaxPid \in Nat \ {0} /\ TickMod \in Nat \ {0}
ASSUME SleepAssumption == SleepTimes \subseteq Nat

VARIABLES
  state,      \* p->state
  pid,        \* p->pid, 0 when never set or reset by wait()
  parent,     \* p->parent, NoSlot for a null pointer
  chan,       \* p->chan
  killed,     \* p->killed
  kstack,     \* p->kstack is allocated
  pc,         \* where the kernel thread of the slot is
  np,         \* local np of fork(): the child slot being built
  ticks0,     \* local ticks0 of sys_sleep()
  dur,        \* local n of sys_sleep()
  shell,      \* local pid of init.c: the child it waits for, 0 when none
  nextpid,
  ptlock,     \* the CPU that holds ptable.lock, or NoCpu
  tickslock,  \* the CPU that holds tickslock, or NoCpu
  ticks,
  cproc,      \* c->proc
  spc,        \* where the CPU's scheduler() is
  idx,        \* the slot scheduler()'s for loop looks at next ("scan" only)
  tpc,        \* where the CPU's timer interrupt handler is
  panicked    \* panic() was called: the machine has stopped

table == <<state, pid, parent, chan, killed, kstack>>
locals == <<np, ticks0, dur, shell>>
thread == <<pc, locals>>
clock == <<tickslock, ticks>>
cpu == <<cproc, spc, idx, tpc>>
vars == <<table, thread, cpu, clock, nextpid, ptlock, panicked>>

Slots == 1 .. NPROC
Cpus == 0 .. NCPU - 1
NoSlot == 0
NoCpu == -1
InitProc == 1                      \* initproc: the first slot userinit() gets
TicksChan == -1                    \* the address &ticks used as a channel

Live == {"RUNNABLE", "RUNNING", "SLEEPING"}
States == Live \cup {"UNUSED", "EMBRYO", "ZOMBIE"}

(***************************************************************************)
(* Control points of a kernel thread.                                      *)
(***************************************************************************)
\* Interrupts are on and no spinlock is held.
Preemptible == {"user", "sys", "ret", "alloc", "copy", "ready", "exit",
                "sleep_reacq"}
\* swtch() has saved the thread here; a preempted thread keeps its own point.
Suspended == {"forkret", "wait_sleep", "tick_sleep"}
PtHeld == {"zombie", "wait"}             \* the thread holds ptable.lock
TicksHeld == {"sleep_loop", "sleep_go"}  \* the thread holds tickslock
Points == Preemptible \cup Suspended \cup PtHeld \cup TicksHeld
            \cup {"none", "dead"}

Forking == {"alloc", "copy", "ready"}

-----------------------------------------------------------------------------
(* The first process: userinit() has set it up and no CPU has run yet. *)
Init ==
  /\ state = [p \in Slots |-> IF p = InitProc THEN "RUNNABLE" ELSE "UNUSED"]
  /\ pid = [p \in Slots |-> IF p = InitProc THEN 1 ELSE 0]
  /\ parent = [p \in Slots |-> NoSlot]
  /\ chan = [p \in Slots |-> NoSlot]
  /\ killed = [p \in Slots |-> FALSE]
  /\ kstack = [p \in Slots |-> p = InitProc]
  /\ pc = [p \in Slots |-> IF p = InitProc THEN "forkret" ELSE "none"]
  /\ np = [p \in Slots |-> NoSlot]
  /\ ticks0 = [p \in Slots |-> 0]
  /\ dur = [p \in Slots |-> 0]
  /\ shell = 0
  /\ nextpid = 2
  /\ ptlock = NoCpu
  /\ tickslock = NoCpu
  /\ ticks = 0
  /\ cproc = [c \in Cpus |-> NoSlot]
  /\ spc = [c \in Cpus |-> "idle"]
  /\ idx = [c \in Cpus |-> 1]
  /\ tpc = [c \in Cpus |-> "none"]
  /\ panicked = FALSE

-----------------------------------------------------------------------------
(* Helpers. *)

\* CPU c executes kernel or user code of process p, outside interrupt handlers.
Runs(c, p) == spc[c] = "run" /\ cproc[c] = p /\ tpc[c] = "none"

Goto(p, point) == pc' = [pc EXCEPT ![p] = point]

\* p is the first slot of the table with the given property, as a for loop
\* over ptable.proc finds it.
First(p, Sat(_)) == Sat(p) /\ \A q \in Slots : q < p => ~Sat(q)

\* Mutants of SwitchOut: the loop starts again at the first slot; c->proc = 0 is
\* forgotten.
SwitchOutRestarts(c, p) ==
  /\ cproc' = [cproc EXCEPT ![c] = NoSlot]
  /\ spc' = [spc EXCEPT ![c] = "scan"]
  /\ idx' = [idx EXCEPT ![c] = 1]
SwitchOutKeepsProc(c, p) ==
  /\ spc' = [spc EXCEPT ![c] = "scan"]
  /\ idx' = [idx EXCEPT ![c] = p + 1]
  /\ UNCHANGED cproc

\* sched(): the thread of p leaves CPU c with ptable.lock held, and the
\* scheduler's loop goes on behind p.
SwitchOut(c, p) ==
  /\ cproc' = [cproc EXCEPT ![c] = NoSlot]
  /\ spc' = [spc EXCEPT ![c] = "scan"]
  /\ idx' = [idx EXCEPT ![c] = p + 1]

\* wakeup1() for every channel of a set.
Woken(chans) ==
  [p \in Slots |-> IF state[p] = "SLEEPING" /\ chan[p] \in chans
                   THEN "RUNNABLE" ELSE state[p]]

Children(p) == {q \in Slots : parent[q] = p}
Zombies(p) == {q \in Children(p) : state[q] = "ZOMBIE"}

Elapsed(p) == IF ticks >= ticks0[p] THEN ticks - ticks0[p]
              ELSE ticks + TickMod - ticks0[p]

-----------------------------------------------------------------------------
(* scheduler() *)

SchedAcquire(c) ==
  /\ spc[c] = "idle" /\ tpc[c] = "none"
  /\ ptlock = NoCpu
  /\ ptlock' = c
  /\ spc' = [spc EXCEPT ![c] = "scan"]
  /\ UNCHANGED <<table, thread, cproc, idx, tpc, nextpid, clock, panicked>>

\* The next RUNNABLE slot at or behind idx; swtch() jumps to its context.
SchedRun(c, p) ==
  /\ spc[c] = "scan"
  /\ First(p, LAMBDA q : q >= idx[c] /\ state[q] = "RUNNABLE")
  /\ cproc' = [cproc EXCEPT ![c] = p]
  /\ state' = [state EXCEPT ![p] = "RUNNING"]
  /\ spc' = [spc EXCEPT ![c] = "swtch"]
  /\ idx' = [idx EXCEPT ![c] = 1]
  /\ UNCHANGED <<pid, parent, chan, killed, kstack, thread, tpc, nextpid,
                 ptlock, clock, panicked>>

\* Mutant: the loop over the table ends without release(&ptable.lock).
SchedKeepsLock(c) ==
  /\ spc[c] = "scan"
  /\ \A q \in Slots : q >= idx[c] => state[q] # "RUNNABLE"
  /\ spc' = [spc EXCEPT ![c] = "idle"]
  /\ idx' = [idx EXCEPT ![c] = 1]
  /\ UNCHANGED <<table, thread, cproc, tpc, nextpid, ptlock, clock, panicked>>

\* The end of the loop over the table.
SchedRelease(c) ==
  /\ spc[c] = "scan"
  /\ \A q \in Slots : q >= idx[c] => state[q] # "RUNNABLE"
  /\ ptlock' = NoCpu
  /\ spc' = [spc EXCEPT ![c] = "idle"]
  /\ idx' = [idx EXCEPT ![c] = 1]
  /\ UNCHANGED <<table, thread, cproc, tpc, nextpid, clock, panicked>>

\* swtch() has loaded the context of p: the thread goes on after its own call
\* of sched(), or in forkret().  It holds the lock that the scheduler took.
Resume(c, p) ==
  /\ spc[c] = "swtch" /\ cproc[c] = p
  /\ spc' = [spc EXCEPT ![c] = "run"]
  /\ \/ /\ pc[p] = "forkret"
        /\ Goto(p, "user")
        /\ ptlock' = NoCpu
        /\ UNCHANGED chan
     \/ /\ pc[p] = "wait_sleep"
        /\ Goto(p, "wait")
        /\ chan' = [chan EXCEPT ![p] = NoSlot]
        /\ UNCHANGED ptlock
     \/ /\ pc[p] = "tick_sleep"
        /\ Goto(p, "sleep_reacq")
        /\ chan' = [chan EXCEPT ![p] = NoSlot]
        /\ ptlock' = NoCpu
     \/ /\ pc[p] \in Preemptible        \* the end of yield() and of trap()
        /\ Goto(p, IF pc[p] = "user" /\ killed[p] THEN "exit" ELSE pc[p])
        /\ ptlock' = NoCpu
        /\ UNCHANGED chan
  /\ UNCHANGED <<state, pid, parent, killed, kstack, locals, cproc, idx, tpc,
                 nextpid, clock, panicked>>

-----------------------------------------------------------------------------
(* trap(): system calls, faults and the timer interrupt *)

\* A process in user mode makes a system call.
TrapEnter(c, p) ==
  /\ Runs(c, p) /\ pc[p] = "user"
  /\ Goto(p, IF killed[p] THEN "exit" ELSE "sys")
  /\ UNCHANGED <<table, locals, cpu, nextpid, ptlock, clock, panicked>>

\* The system call is done.
TrapReturn(c, p) ==
  /\ Runs(c, p) /\ pc[p] = "ret"
  /\ Goto(p, IF killed[p] THEN "exit" ELSE "user")
  /\ UNCHANGED <<table, locals, cpu, nextpid, ptlock, clock, panicked>>

\* A fault in user mode kills the process.  init.c has no fault.
Fault(c, p) ==
  /\ Runs(c, p) /\ pc[p] = "user" /\ p # InitProc
  /\ killed' = [killed EXCEPT ![p] = TRUE]
  /\ Goto(p, "exit")
  /\ UNCHANGED <<state, pid, parent, chan, kstack, locals, cpu, nextpid,
                 ptlock, clock, panicked>>

\* A timer interrupt while interrupts are on.  Only CPU 0 counts ticks.
TimerIrq(c) ==
  /\ tpc[c] = "none"
  /\ \/ spc[c] = "idle"
     \/ spc[c] = "run" /\ pc[cproc[c]] \in Preemptible
  /\ \/ /\ c = 0
        /\ tickslock = NoCpu
        /\ tickslock' = c
        /\ ticks' = IF ticks + 1 = TickMod THEN 0 ELSE ticks + 1
        /\ tpc' = [tpc EXCEPT ![c] = "wake"]
     \/ /\ c # 0
        /\ tpc' = [tpc EXCEPT ![c] = "tail"]
        /\ UNCHANGED <<tickslock, ticks>>
  /\ UNCHANGED <<table, thread, cproc, spc, idx, nextpid, ptlock, panicked>>

\* Mutant: the tick wakes no one.
TimerNoWake(c) ==
  /\ tpc[c] = "wake"
  /\ ptlock = NoCpu
  /\ tickslock' = NoCpu
  /\ tpc' = [tpc EXCEPT ![c] = "tail"]
  /\ UNCHANGED <<table, thread, cproc, spc, idx, nextpid, ptlock, ticks, panicked>>

\* wakeup(&ticks) and the release of tickslock.
TimerWake(c) ==
  /\ tpc[c] = "wake"
  /\ ptlock = NoCpu
  /\ state' = Woken({TicksChan})
  /\ tickslock' = NoCpu
  /\ tpc' = [tpc EXCEPT ![c] = "tail"]
  /\ UNCHANGED <<pid, parent, chan, killed, kstack, thread, cproc, spc, idx,
                 nextpid, ptlock, ticks, panicked>>

\* The end of trap() for the scheduler, which is not a process.
TimerIdle(c) ==
  /\ tpc[c] = "tail" /\ spc[c] = "idle"
  /\ tpc' = [tpc EXCEPT ![c] = "none"]
  /\ UNCHANGED <<table, thread, cproc, spc, idx, nextpid, ptlock, clock,
                 panicked>>

\* A killed process interrupted in user mode exits.
TimerKilled(c, p) ==
  /\ tpc[c] = "tail" /\ spc[c] = "run" /\ cproc[c] = p
  /\ pc[p] = "user" /\ killed[p]
  /\ Goto(p, "exit")
  /\ tpc' = [tpc EXCEPT ![c] = "none"]
  /\ UNCHANGED <<table, locals, cproc, spc, idx, nextpid, ptlock, clock,
                 panicked>>

\* yield(): any other process gives up the CPU.
Yield(c, p) ==
  /\ tpc[c] = "tail" /\ spc[c] = "run" /\ cproc[c] = p
  /\ ~(pc[p] = "user" /\ killed[p])
  /\ state[p] = "RUNNING"
  /\ ptlock = NoCpu
  /\ ptlock' = c
  /\ state' = [state EXCEPT ![p] = "RUNNABLE"]
  /\ SwitchOut(c, p)
  /\ tpc' = [tpc EXCEPT ![c] = "none"]
  /\ UNCHANGED <<pid, parent, chan, killed, kstack, thread, nextpid, clock,
                 panicked>>

-----------------------------------------------------------------------------
(* fork() and allocproc().  The program init.c forks a shell and waits until *)
(* wait() returns the shell; it exits when its fork fails.                   *)

ForkFailed(p) == IF p = InitProc THEN "exit" ELSE "ret"

\* p->pid = nextpid++
NewPid(s) ==
  /\ pid' = [pid EXCEPT ![s] = nextpid]
  /\ nextpid' = nextpid + 1

\* Mutant of Abandon: the slot is not given back.
AbandonEmbryo(p) ==
  /\ kstack' = [kstack EXCEPT ![np[p]] = FALSE]
  /\ np' = [np EXCEPT ![p] = NoSlot]
  /\ Goto(p, ForkFailed(p))
  /\ UNCHANGED state
\* The error paths of allocproc() and fork(): the slot is UNUSED again, without
\* the lock, and keeps its pid and its killed flag.
Abandon(p) ==
  /\ kstack' = [kstack EXCEPT ![np[p]] = FALSE]
  /\ state' = [state EXCEPT ![np[p]] = "UNUSED"]
  /\ np' = [np EXCEPT ![p] = NoSlot]
  /\ Goto(p, ForkFailed(p))

AllocProc(c, p) ==
  /\ Runs(c, p) /\ pc[p] = "sys"
  /\ p = InitProc => shell = 0
  /\ ptlock = NoCpu
  /\ nextpid <= MaxPid
  /\ \E s \in Slots :
       /\ First(s, LAMBDA q : state[q] = "UNUSED")
       /\ state' = [state EXCEPT ![s] = "EMBRYO"]
       /\ NewPid(s)
       /\ np' = [np EXCEPT ![p] = s]
  /\ Goto(p, "alloc")
  /\ UNCHANGED <<parent, chan, killed, kstack, ticks0, dur, shell, cpu, ptlock,
                 clock, panicked>>

AllocProcFull(c, p) ==
  /\ Runs(c, p) /\ pc[p] = "sys"
  /\ p = InitProc => shell = 0
  /\ ptlock = NoCpu
  /\ \A s \in Slots : state[s] # "UNUSED"
  /\ Goto(p, ForkFailed(p))
  /\ UNCHANGED <<table, locals, cpu, nextpid, ptlock, clock, panicked>>

\* kalloc() of the kernel stack succeeds or fails, outside the lock.
AllocStack(c, p) ==
  /\ Runs(c, p) /\ pc[p] = "alloc"
  /\ \/ /\ kstack' = [kstack EXCEPT ![np[p]] = TRUE]
        /\ Goto(p, "copy")
        /\ UNCHANGED <<state, np>>
     \/ Abandon(p)
  /\ UNCHANGED <<pid, parent, chan, killed, ticks0, dur, shell, cpu, nextpid,
                 ptlock, clock, panicked>>

\* copyuvm() succeeds, and the child gets its parent, or it fails.
ForkCopy(c, p) ==
  /\ Runs(c, p) /\ pc[p] = "copy"
  /\ \/ /\ parent' = [parent EXCEPT ![np[p]] = p]
        /\ Goto(p, "ready")
        /\ UNCHANGED <<state, kstack, np>>
     \/ Abandon(p) /\ UNCHANGED parent
  /\ UNCHANGED <<pid, chan, killed, ticks0, dur, shell, cpu, nextpid, ptlock,
                 clock, panicked>>

ForkReady(c, p) ==
  /\ Runs(c, p) /\ pc[p] = "ready"
  /\ ptlock = NoCpu
  /\ state' = [state EXCEPT ![np[p]] = "RUNNABLE"]
  /\ pc' = [pc EXCEPT ![p] = "ret", ![np[p]] = "forkret"]
  /\ np' = [np EXCEPT ![p] = NoSlot]
  /\ shell' = IF p = InitProc THEN pid[np[p]] ELSE shell
  /\ UNCHANGED <<pid, parent, chan, killed, kstack, ticks0, dur, cpu, nextpid,
                 ptlock, clock, panicked>>

-----------------------------------------------------------------------------
(* exit() *)

\* A program calls exit(); init.c only does so after a failed fork.
SysExit(c, p) ==
  /\ Runs(c, p) /\ pc[p] = "sys" /\ p # InitProc
  /\ Goto(p, "exit")
  /\ UNCHANGED <<table, locals, cpu, nextpid, ptlock, clock, panicked>>

\* panic("init exiting")
ExitInit(c, p) ==
  /\ Runs(c, p) /\ pc[p] = "exit" /\ p = InitProc
  /\ panicked' = TRUE
  /\ UNCHANGED <<table, thread, cpu, nextpid, ptlock, clock>>

\* The channels exit() wakes: the parent's, and init's if a child passed to it
\* has exited.  Mutant: only the latter.
WakesInit(p) == IF Zombies(p) # {} THEN {InitProc} ELSE {}
ExitWakes(p) == {parent[p]} \cup (IF Zombies(p) # {} THEN {InitProc} ELSE {})

\* The parents after exit() has passed the children of p to init.  Mutant: only
\* those that have not exited.
LiveAdopted(p) ==
  [q \in Slots |-> IF parent[q] = p /\ state[q] # "ZOMBIE" THEN InitProc
                   ELSE parent[q]]
Adopted(p) == [q \in Slots |-> IF parent[q] = p THEN InitProc ELSE parent[q]]

\* Under ptable.lock: wake the parent, pass the children to init and wake
\* init if one of them is a zombie.
ExitAcquire(c, p) ==
  /\ Runs(c, p) /\ pc[p] = "exit" /\ p # InitProc
  /\ ptlock = NoCpu
  /\ ptlock' = c
  /\ state' = Woken(ExitWakes(p))
  /\ parent' = Adopted(p)
  /\ Goto(p, "zombie")
  /\ UNCHANGED <<pid, chan, killed, kstack, locals, cpu, nextpid, clock,
                 panicked>>

\* state = ZOMBIE and sched(), never to return.
ExitSched(c, p) ==
  /\ Runs(c, p) /\ pc[p] = "zombie"
  /\ state' = [state EXCEPT ![p] = "ZOMBIE"]
  /\ Goto(p, "dead")
  /\ SwitchOut(c, p)
  /\ UNCHANGED <<pid, parent, chan, killed, kstack, locals, tpc, nextpid,
                 ptlock, clock, panicked>>

-----------------------------------------------------------------------------
(* wait() and waitx(): the same control *)

WaitAcquire(c, p) ==
  /\ Runs(c, p) /\ pc[p] = "sys"
  /\ p = InitProc => shell # 0
  /\ ptlock = NoCpu
  /\ ptlock' = c
  /\ Goto(p, "wait")
  /\ UNCHANGED <<table, locals, cpu, nextpid, clock, panicked>>

\* The scan finds an exited child and frees its slot.
WaitReap(c, p) ==
  /\ Runs(c, p) /\ pc[p] = "wait"
  /\ \E z \in Slots :
       /\ First(z, LAMBDA q : parent[q] = p /\ state[q] = "ZOMBIE")
       /\ kstack' = [kstack EXCEPT ![z] = FALSE]
       /\ pid' = [pid EXCEPT ![z] = 0]
       /\ parent' = [parent EXCEPT ![z] = NoSlot]
       /\ killed' = [killed EXCEPT ![z] = FALSE]
       /\ state' = [state EXCEPT ![z] = "UNUSED"]
       /\ pc' = [pc EXCEPT ![z] = "none", ![p] = "ret"]
       /\ shell' = IF p = InitProc /\ pid[z] = shell THEN 0 ELSE shell
  /\ ptlock' = NoCpu
  /\ UNCHANGED <<chan, np, ticks0, dur, cpu, nextpid, clock, panicked>>

\* No exited child: no point waiting without children or when killed.
WaitFail(c, p) ==
  /\ Runs(c, p) /\ pc[p] = "wait"
  /\ Zombies(p) = {}
  /\ Children(p) = {} \/ killed[p]
  /\ shell' = IF p = InitProc THEN 0 ELSE shell
  /\ ptlock' = NoCpu
  /\ Goto(p, "ret")
  /\ UNCHANGED <<table, np, ticks0, dur, cpu, nextpid, clock, panicked>>

\* sleep(curproc, &ptable.lock)
WaitSleep(c, p) ==
  /\ Runs(c, p) /\ pc[p] = "wait"
  /\ Zombies(p) = {}
  /\ Children(p) # {} /\ ~killed[p]
  /\ chan' = [chan EXCEPT ![p] = p]
  /\ state' = [state EXCEPT ![p] = "SLEEPING"]
  /\ Goto(p, "wait_sleep")
  /\ SwitchOut(c, p)
  /\ UNCHANGED <<pid, parent, killed, kstack, locals, tpc, nextpid, ptlock,
                 clock, panicked>>

-----------------------------------------------------------------------------
(* kill(): the first slot with the pid, whatever its state *)

\* What kill() does to the state of its victim.  Mutants: nothing; it makes
\* every victim RUNNABLE.
KillLeaves(v) == state
KillRevives(v) == [state EXCEPT ![v] = "RUNNABLE"]
KillWakes(v) ==
  [state EXCEPT ![v] = IF state[v] = "SLEEPING" THEN "RUNNABLE" ELSE state[v]]

Kill(c, p, k) ==
  /\ Runs(c, p) /\ pc[p] = "sys" /\ p # InitProc
  /\ ptlock = NoCpu
  /\ \E v \in Slots :
       /\ First(v, LAMBDA q : pid[q] = k)
       /\ killed' = [killed EXCEPT ![v] = TRUE]
       /\ state' = KillWakes(v)
  /\ Goto(p, "ret")
  /\ UNCHANGED <<pid, parent, chan, kstack, locals, cpu, nextpid, ptlock,
                 clock, panicked>>

KillNone(c, p, k) ==
  /\ Runs(c, p) /\ pc[p] = "sys" /\ p # InitProc
  /\ ptlock = NoCpu
  /\ \A v \in Slots : pid[v] # k
  /\ Goto(p, "ret")
  /\ UNCHANGED <<table, locals, cpu, nextpid, ptlock, clock, panicked>>

-----------------------------------------------------------------------------
(* sys_sleep() and sleep(&ticks, &tickslock) *)

SleepAcquire(c, p, n) ==
  /\ Runs(c, p) /\ pc[p] = "sys" /\ p # InitProc
  /\ tickslock = NoCpu
  /\ tickslock' = c
  /\ ticks0' = [ticks0 EXCEPT ![p] = ticks]
  /\ dur' = [dur EXCEPT ![p] = n]
  /\ Goto(p, "sleep_loop")
  /\ UNCHANGED <<table, np, shell, cpu, nextpid, ptlock, ticks, panicked>>

\* The loop ends: enough ticks have passed, or the process was killed.
SleepDone(c, p) ==
  /\ Runs(c, p) /\ pc[p] = "sleep_loop"
  /\ Elapsed(p) >= dur[p] \/ killed[p]
  /\ tickslock' = NoCpu
  /\ ticks0' = [ticks0 EXCEPT ![p] = 0]
  /\ dur' = [dur EXCEPT ![p] = 0]
  /\ Goto(p, "ret")
  /\ UNCHANGED <<table, np, shell, cpu, nextpid, ptlock, ticks, panicked>>

\* The process has looked at killed, and will call sleep().
SleepCheck(c, p) ==
  /\ Runs(c, p) /\ pc[p] = "sleep_loop"
  /\ Elapsed(p) < dur[p] /\ ~killed[p]
  /\ Goto(p, "sleep_go")
  /\ UNCHANGED <<table, locals, cpu, nextpid, ptlock, clock, panicked>>

\* sleep(): ptable.lock is taken before tickslock is released.
SleepSwitch(c, p) ==
  /\ Runs(c, p) /\ pc[p] = "sleep_go"
  /\ ptlock = NoCpu
  /\ ptlock' = c
  /\ tickslock' = NoCpu
  /\ chan' = [chan EXCEPT ![p] = TicksChan]
  /\ state' = [state EXCEPT ![p] = "SLEEPING"]
  /\ Goto(p, "tick_sleep")
  /\ SwitchOut(c, p)
  /\ UNCHANGED <<pid, parent, killed, kstack, locals, tpc, nextpid, ticks,
                 panicked>>

\* The end of sleep(): acquire(lk).
SleepReacquire(c, p) ==
  /\ Runs(c, p) /\ pc[p] = "sleep_reacq"
  /\ tickslock = NoCpu
  /\ tickslock' = c
  /\ Goto(p, "sleep_loop")
  /\ UNCHANGED <<table, locals, cpu, nextpid, ptlock, ticks, panicked>>

-----------------------------------------------------------------------------
\* The steps of scheduler() and of the timer interrupt on CPU c.
SchedStep(c) ==
  \/ SchedAcquire(c) \/ SchedRelease(c)
  \/ TimerWake(c) \/ TimerIdle(c)
  \/ \E p \in Slots : \/ SchedRun(c, p) \/ Resume(c, p)
                      \/ TimerKilled(c, p) \/ Yield(c, p)

\* The steps of the thread of p in the kernel on CPU c; the program chooses
\* the system call.
ThreadStep(c, p) ==
  \/ TrapReturn(c, p)
  \/ AllocProc(c, p) \/ AllocProcFull(c, p) \/ AllocStack(c, p)
  \/ ForkCopy(c, p) \/ ForkReady(c, p)
  \/ SysExit(c, p) \/ ExitInit(c, p) \/ ExitAcquire(c, p) \/ ExitSched(c, p)
  \/ WaitAcquire(c, p) \/ WaitReap(c, p) \/ WaitFail(c, p) \/ WaitSleep(c, p)
  \/ \E k \in 0 .. MaxPid : Kill(c, p, k) \/ KillNone(c, p, k)
  \/ \E n \in SleepTimes : SleepAcquire(c, p, n)
  \/ SleepDone(c, p) \/ SleepCheck(c, p) \/ SleepSwitch(c, p)
  \/ SleepReacquire(c, p)

UserStep(c, p) == TrapEnter(c, p) \/ Fault(c, p)

KernelStep(c) == ~panicked /\ (SchedStep(c) \/ \E p \in Slots : ThreadStep(c, p))

Irq(c) == ~panicked /\ TimerIrq(c)

\* After panic() the machine stays as it is.
Halted == panicked /\ UNCHANGED vars

Next ==
  \/ \E c \in Cpus : \/ KernelStep(c)
                     \/ Irq(c)
                     \/ ~panicked /\ \E p \in Slots : UserStep(c, p)
  \/ Halted

Spec == Init /\ [][Next]_vars

(***************************************************************************)
(* Fairness.  A CPU that executes kernel code goes on executing it (weak   *)
(* fairness of its steps).  The local APIC keeps a timer interrupt pending *)
(* until interrupts are on, so a CPU that turns them on again and again    *)
(* takes it (strong fairness of Irq).  The timer's period is long enough   *)
(* for interrupted code to get further between two interrupts (strong      *)
(* fairness of the scheduler and of each thread).  init.c makes system     *)
(* calls for ever; no other program is assumed to make one.                *)
(***************************************************************************)
Fairness ==
  /\ \A c \in Cpus : /\ WF_vars(KernelStep(c))
                     /\ SF_vars(Irq(c))
                     /\ SF_vars(~panicked /\ SchedAcquire(c))
  /\ \A p \in Slots : SF_vars(\E c \in Cpus : ~panicked /\ Runs(c, p) /\ ThreadStep(c, p))
  /\ SF_vars(\E c \in Cpus : ~panicked /\ TrapEnter(c, InitProc))

FairSpec == Spec /\ Fairness

-----------------------------------------------------------------------------
(* Properties *)

\* Every variable keeps to its domain.
TypeOK ==
  /\ state \in [Slots -> States]
  /\ pid \in [Slots -> 0 .. MaxPid]
  /\ parent \in [Slots -> Slots \cup {NoSlot}]
  /\ chan \in [Slots -> Slots \cup {NoSlot, TicksChan}]
  /\ killed \in [Slots -> BOOLEAN]
  /\ kstack \in [Slots -> BOOLEAN]
  /\ pc \in [Slots -> Points]
  /\ np \in [Slots -> Slots \cup {NoSlot}]
  /\ ticks0 \in [Slots -> 0 .. TickMod - 1]
  /\ dur \in [Slots -> SleepTimes \cup {0}]
  /\ shell \in 0 .. MaxPid
  /\ nextpid \in 2 .. MaxPid + 1
  /\ ptlock \in Cpus \cup {NoCpu}
  /\ tickslock \in Cpus \cup {NoCpu}
  /\ ticks \in 0 .. TickMod - 1
  /\ cproc \in [Cpus -> Slots \cup {NoSlot}]
  /\ spc \in [Cpus -> {"idle", "scan", "swtch", "run"}]
  /\ idx \in [Cpus -> 1 .. NPROC + 1]
  /\ tpc \in [Cpus -> {"none", "wake", "tail"}]
  /\ panicked \in BOOLEAN

\* CPU c is in code that holds ptable.lock.
InPtSection(c) == \/ spc[c] \in {"scan", "swtch"}
                  \/ spc[c] = "run" /\ pc[cproc[c]] \in PtHeld
\* CPU c is in code that holds tickslock.
InTicksSection(c) == \/ tpc[c] = "wake"
                     \/ spc[c] = "run" /\ pc[cproc[c]] \in TicksHeld

\* Both spinlocks are held exactly by the CPU that is inside their critical
\* section, across every swtch(): what the scheduler acquires the thread it
\* switches to releases, on the same CPU, and a thread that calls sched()
\* holds ptable.lock and no other lock (the panics of sched(), acquire() and
\* release() are not reached).
LockDiscipline ==
  \A c \in Cpus : /\ ptlock = c <=> InPtSection(c)
                  /\ tickslock = c <=> InTicksSection(c)
                  /\ spc[c] \in {"scan", "swtch"} => tickslock # c

\* scheduler() runs no process on two CPUs, and a process is RUNNING exactly
\* while it is some CPU's c->proc.
RunningOnOneCpu ==
  /\ \A p \in Slots : state[p] = "RUNNING" <=> \E c \in Cpus : cproc[c] = p
  /\ \A c, d \in Cpus : cproc[c] # NoSlot /\ cproc[c] = cproc[d] => c = d

\* Between the reparenting in exit() and the unlocked np->parent = curproc in
\* fork(), no process or zombie is ever without a parent that can still call
\* wait(): its parent pointer names a process that has not begun to exit.
ParentAlive ==
  \A p \in Slots \ {InitProc} :
    state[p] \in Live \cup {"ZOMBIE"} =>
      /\ parent[p] \in Slots
      /\ state[parent[p]] \in Live
      /\ pc[parent[p]] # "zombie"

\* wait() misses no wakeup: a process asleep in wait() has a child, and none
\* of its children has exited, or is between its wakeup1(parent) and ZOMBIE.
NoLostWakeup ==
  \A p \in Slots :
    state[p] = "SLEEPING" /\ pc[p] = "wait_sleep" =>
      /\ \E q \in Slots : parent[q] = p
      /\ \A q \in Slots :
           parent[q] = p => state[q] # "ZOMBIE" /\ pc[q] # "zombie"

\* kill() misses no process asleep in wait(): wait() looks at killed and goes
\* to sleep under the lock under which kill() sets it and wakes the sleeper.
KilledWaiterAwake ==
  \A p \in Slots : state[p] = "SLEEPING" /\ pc[p] = "wait_sleep" => ~killed[p]

\* A slot is EMBRYO only while exactly one process is building it in fork(),
\* and so the unlocked stores of fork() and allocproc() go to a slot that no
\* other code writes; every failure path gives the slot back.
EmbryoOwned ==
  /\ \A s \in Slots : state[s] = "EMBRYO" => \E p \in Slots : np[p] = s
  /\ \A p \in Slots :
       np[p] # NoSlot => /\ pc[p] \in Forking
                         /\ state[np[p]] = "EMBRYO"
                         /\ \A q \in Slots : np[q] = np[p] => q = p

\* switchuvm() never meets a process without a kernel stack, and no stack is
\* left in a slot that has been freed.
StackMatchesState ==
  \A p \in Slots : /\ state[p] \in Live \cup {"ZOMBIE"} => kstack[p]
                   /\ state[p] = "UNUSED" => ~kstack[p]

\* No two slots carry the same pid, stale pids of failed forks included, so
\* that kill() and wait() mean at most one process by a pid.
PidUnique ==
  \A p, q \in Slots : pid[p] # 0 /\ pid[p] = pid[q] => p = q

\* No sleeper misses the tick it waits for: while tickslock is free, a process
\* asleep on &ticks still has ticks to wait for.
SleeperNotOverdue ==
  tickslock = NoCpu =>
    \A p \in Slots :
      state[p] = "SLEEPING" /\ chan[p] = TicksChan => Elapsed(p) < dur[p]

\* Life cycle of a slot: a step of any CPU changes its state only along the
\* arrows of the process states, and a zombie is freed only by its parent.
LifeCycleStep(p) ==
  \/ state'[p] = state[p]
  \/ <<state[p], state'[p]>> \in
       {<<"UNUSED", "EMBRYO">>, <<"EMBRYO", "UNUSED">>, <<"EMBRYO", "RUNNABLE">>,
        <<"RUNNABLE", "RUNNING">>, <<"RUNNING", "RUNNABLE">>,
        <<"RUNNING", "SLEEPING">>, <<"SLEEPING", "RUNNABLE">>,
        <<"RUNNING", "ZOMBIE">>}
  \/ /\ state[p] = "ZOMBIE" /\ state'[p] = "UNUSED"
     /\ state[parent[p]] = "RUNNING" /\ pc[parent[p]] = "wait"
LifeCycle == [][\A p \in Slots : LifeCycleStep(p)]_vars

\* scheduler() starves no process of a machine with one CPU.
RunnableRuns ==
  \A p \in Slots : state[p] = "RUNNABLE" ~> state[p] # "RUNNABLE" \/ panicked

\* A killed process dies, even if kill() came between its look at killed in
\* sys_sleep() and its going to sleep, and init reaps every orphan: exit() wakes it
\* for the zombies it inherits.  (MaxPid bounds the model: init cannot start a new
\* shell beyond it, and waits for nothing.)
DoomedGoes ==
  \A p \in Slots \ {InitProc} :
    (\/ state[p] \in Live /\ killed[p]
     \/ state[p] = "ZOMBIE" /\ parent[p] = InitProc)
    ~>
    (\/ state[p] = "UNUSED" \/ panicked
     \/ state[p] = "ZOMBIE" /\ (parent[p] # InitProc \/ (shell = 0 /\ nextpid > MaxPid)))

-----------------------------------------------------------------------------
(* The inductive invariant of ProcProofs: the invariants above and what they *)
(* need to know of threads, CPUs and slots under construction.               *)

\* c->proc is set exactly from swtch() to swtch(), a running thread is at a
\* point of its own code, and the timer only interrupts code that holds no
\* lock.
CpuInv ==
  \A c \in Cpus :
    /\ cproc[c] # NoSlot <=> spc[c] \in {"swtch", "run"}
    /\ spc[c] = "swtch" => pc[cproc[c]] \in Preemptible \cup Suspended
    /\ spc[c] = "run" => pc[cproc[c]] \in Preemptible \cup PtHeld \cup TicksHeld
    /\ tpc[c] # "none" => \/ spc[c] = "idle"
                          \/ spc[c] = "run" /\ pc[cproc[c]] \in Preemptible

\* Where a thread that is not running was left.
ThreadInv ==
  \A p \in Slots :
    /\ state[p] \in {"UNUSED", "EMBRYO"} => pc[p] = "none"
    /\ state[p] = "ZOMBIE" => pc[p] = "dead"
    /\ state[p] = "RUNNABLE" => pc[p] \in Preemptible \cup Suspended
    /\ state[p] = "SLEEPING" =>
         \/ pc[p] = "wait_sleep" /\ chan[p] = p
         \/ pc[p] = "tick_sleep" /\ chan[p] = TicksChan

\* What fork() has filled in of the slot it builds; init has no parent and
\* never exits, and no process is its own parent.
FamilyInv ==
  /\ state[InitProc] \in Live /\ pc[InitProc] # "zombie"
  /\ parent[InitProc] = NoSlot
  /\ \A p \in Slots : parent[p] # p
  /\ \A p \in Slots : state[p] = "UNUSED" => parent[p] = NoSlot
  /\ \A p \in Slots :
       pc[p] \in Forking =>
         /\ np[p] \in Slots
         /\ parent[np[p]] = IF pc[p] = "ready" THEN p ELSE NoSlot
         /\ pc[p] # "alloc" => kstack[np[p]]

\* Pids are handed out in order.
PidInv == \A p \in Slots : pid[p] < nextpid

\* A sleeper is overdue only between ticks++ and wakeup(&ticks); ticks stands
\* still from a thread's look at it to its going to sleep.
TickInv ==
  /\ (\A c \in Cpus : tpc[c] # "wake") =>
       \A p \in Slots :
         state[p] = "SLEEPING" /\ chan[p] = TicksChan => Elapsed(p) < dur[p]
  /\ \A p \in Slots : pc[p] = "sleep_go" => Elapsed(p) < dur[p]

IndInv ==
  /\ TypeOK /\ LockDiscipline /\ RunningOnOneCpu /\ ParentAlive /\ NoLostWakeup
  /\ KilledWaiterAwake /\ EmbryoOwned /\ StackMatchesState /\ PidUnique
  /\ CpuInv /\ ThreadInv /\ FamilyInv /\ PidInv /\ TickInv

=============================================================================
