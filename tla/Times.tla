------------------------------- MODULE Times --------------------------------
(***************************************************************************)
(* The tick accounting that the kernel of src/ass5/final_repo adds to its  *)
(* processes: ctime, rtime and etime, written by allocproc(), exit(), the  *)
(* timer interrupt (increment_times()) and switchuvm(), and read by        *)
(* waitx().  increment_times() and growproc()'s switchuvm() run without    *)
(* ptable.lock, so their steps interleave with those of the other CPUs.    *)
(*                                                                         *)
(* The life of a process is the one of Proc with the control that does not *)
(* touch these fields left out: any RUNNABLE process may be chosen, and a  *)
(* CPU that runs neither a process of interest nor switchuvm() is "idle":  *)
(* it is in the scheduler, or runs the parent, or a process not modelled.  *)
(* num_run, time_in_queues and wait_time are written but decide nothing.   *)
(***************************************************************************)
EXTENDS Integers

CONSTANTS NPROC,      \* slots of the table that are observed
          NCPU,       \* processors; CPU 0 takes the counted timer interrupt
          MaxTicks,   \* bound: no timer interrupt after this tick
          Sbrk        \* whether programs call sbrk()

VARIABLES
  state, ctime, rtime, etime,   \* fields of struct proc
  ticks,
  ptlock,     \* the CPU that holds ptable.lock, or NoCpu
  cproc,      \* c->proc
  cpc,        \* what a CPU executes
  cstart,     \* start_time of the scheduler's switchuvm()
  kstart,     \* start_time of growproc()'s switchuvm() in a process, or NotIn
  hidx,       \* the slot increment_times() looks at, 0 outside the handler
  hval,       \* rtime as read by p->rtime++, or NotIn
  got,        \* what the last waitx() stored: wtime and rtime
  ran, waited, \* history: ticks at which a process was, or was not, RUNNING
  within      \* history: ticks inside switchuvm() of growproc()

vars == <<state, ctime, rtime, etime, ticks, ptlock, cproc, cpc, cstart, kstart,
          hidx, hval, got, ran, waited, within>>
stamps == <<ctime, etime>>
history == <<ran, waited, within>>
handler == <<hidx, hval>>

Slots == 1 .. NPROC
Cpus == 0 .. NCPU - 1
NoSlot == 0
NoCpu == -1
NotIn == -1

Init ==
  /\ state = [p \in Slots |-> "UNUSED"]
  /\ ctime = [p \in Slots |-> 0]
  /\ rtime = [p \in Slots |-> 0]
  /\ etime = [p \in Slots |-> 0]
  /\ ticks = 0
  /\ ptlock = NoCpu
  /\ cproc = [c \in Cpus |-> NoSlot]
  /\ cpc = [c \in Cpus |-> "idle"]
  /\ cstart = [c \in Cpus |-> 0]
  /\ kstart = [p \in Slots |-> NotIn]
  /\ hidx = 0
  /\ hval = NotIn
  /\ got = [wtime |-> 0, rtime |-> 0, waited |-> 0, ran |-> 0, within |-> 0]
  /\ ran = [p \in Slots |-> 0]
  /\ waited = [p \in Slots |-> 0]
  /\ within = [p \in Slots |-> 0]

\* CPU c executes code at the given point, outside the timer interrupt.
At(c, point) == cpc[c] = point /\ (c = 0 => hidx = 0)

-----------------------------------------------------------------------------
(* The life of a process *)

\* allocproc() by a parent on CPU c: the creation stamp, without the lock.
AllocProc(c, p) ==
  /\ At(c, "idle") /\ state[p] = "UNUSED"
  /\ state' = [state EXCEPT ![p] = "EMBRYO"]
  /\ ctime' = [ctime EXCEPT ![p] = ticks]
  /\ rtime' = [rtime EXCEPT ![p] = 0]
  /\ etime' = [etime EXCEPT ![p] = -1]
  /\ ran' = [ran EXCEPT ![p] = 0]
  /\ waited' = [waited EXCEPT ![p] = 0]
  /\ within' = [within EXCEPT ![p] = 0]
  /\ UNCHANGED <<ticks, ptlock, cproc, cpc, cstart, kstart, handler, got>>

\* The last statement of fork(), and a wakeup.
Ready(c, p) ==
  /\ At(c, "idle") /\ ptlock = NoCpu
  /\ state[p] \in {"EMBRYO", "SLEEPING"}
  /\ state' = [state EXCEPT ![p] = "RUNNABLE"]
  /\ UNCHANGED <<stamps, rtime, ticks, ptlock, cproc, cpc, cstart, kstart, handler,
                 got, history>>

\* scheduler(): c->proc = p and the start of switchuvm(p).
SwitchStart(c, p) ==
  /\ At(c, "idle") /\ ptlock = NoCpu /\ state[p] = "RUNNABLE"
  /\ ptlock' = c
  /\ cproc' = [cproc EXCEPT ![c] = p]
  /\ cstart' = [cstart EXCEPT ![c] = ticks]
  /\ cpc' = [cpc EXCEPT ![c] = "switch"]
  /\ UNCHANGED <<state, stamps, rtime, ticks, kstart, handler, got, history>>

\* The end of switchuvm(), state = RUNNING and the swtch() to the process, which
\* releases ptable.lock.
SwitchEnd(c, p) ==
  /\ At(c, "switch") /\ cproc[c] = p
  /\ rtime' = [rtime EXCEPT ![p] = rtime[p] + (ticks - cstart[c])]
  /\ state' = [state EXCEPT ![p] = "RUNNING"]
  /\ ptlock' = NoCpu
  /\ cstart' = [cstart EXCEPT ![c] = 0]
  /\ cpc' = [cpc EXCEPT ![c] = "run"]
  /\ UNCHANGED <<stamps, ticks, cproc, kstart, handler, got, history>>

\* yield() on a CPU whose timer is not counted, sleep(), and the yield() at the
\* end of the counted interrupt (TickEnd): the process leaves CPU c.
Leave(c, p, s) ==
  /\ ptlock = NoCpu
  /\ state' = [state EXCEPT ![p] = s]
  /\ cproc' = [cproc EXCEPT ![c] = NoSlot]
  /\ cpc' = [cpc EXCEPT ![c] = "idle"]

Yield(c, p) ==
  /\ c # 0 /\ At(c, "run") /\ cproc[c] = p
  /\ Leave(c, p, "RUNNABLE")
  /\ UNCHANGED <<stamps, rtime, ticks, ptlock, cstart, kstart, handler, got, history>>

Sleep(c, p) ==
  /\ At(c, "run") /\ cproc[c] = p /\ kstart[p] = NotIn
  /\ Leave(c, p, "SLEEPING")
  /\ UNCHANGED <<stamps, rtime, ticks, ptlock, cstart, kstart, handler, got, history>>

\* growproc(): switchuvm(curproc) of the running process, interrupts on.  Its
\* p->rtime += run_time is one instruction, which no interrupt of the same CPU divides.
\* (On another CPU it may come between the halves of p->rtime++, IncTest and IncAdd; that
\* these may come inside of it is left out.)
SbrkStart(c, p) ==
  /\ Sbrk /\ At(c, "run") /\ cproc[c] = p /\ kstart[p] = NotIn
  /\ kstart' = [kstart EXCEPT ![p] = ticks]
  /\ UNCHANGED <<state, stamps, rtime, ticks, ptlock, cproc, cpc, cstart, handler,
                 got, history>>

SbrkEnd(c, p) ==
  /\ At(c, "run") /\ cproc[c] = p /\ kstart[p] # NotIn
  /\ rtime' = [rtime EXCEPT ![p] = rtime[p] + (ticks - kstart[p])]
  /\ kstart' = [kstart EXCEPT ![p] = NotIn]
  /\ UNCHANGED <<state, stamps, ticks, ptlock, cproc, cpc, cstart, handler, got,
                 history>>

\* exit(): the end stamp, under ptable.lock; then it prints, for long.
ExitStamp(c, p) ==
  /\ At(c, "run") /\ cproc[c] = p /\ kstart[p] = NotIn
  /\ ptlock = NoCpu
  /\ ptlock' = c
  /\ etime' = [etime EXCEPT ![p] = ticks]
  /\ cpc' = [cpc EXCEPT ![c] = "exit"]
  /\ UNCHANGED <<state, ctime, rtime, ticks, cproc, cstart, kstart, handler, got,
                 history>>

ExitZombie(c, p) ==
  /\ At(c, "exit") /\ cproc[c] = p
  /\ state' = [state EXCEPT ![p] = "ZOMBIE"]
  /\ ptlock' = NoCpu
  /\ cproc' = [cproc EXCEPT ![c] = NoSlot]
  /\ cpc' = [cpc EXCEPT ![c] = "idle"]
  /\ UNCHANGED <<stamps, rtime, ticks, cstart, kstart, handler, got, history>>

\* waitx() by the parent on CPU c: first *wtime, then *rtime and the slot.
WaitxTime(c, p) ==
  /\ At(c, "idle") /\ ptlock = NoCpu /\ state[p] = "ZOMBIE"
  /\ ptlock' = c
  /\ cproc' = [cproc EXCEPT ![c] = p]
  /\ cpc' = [cpc EXCEPT ![c] = "waitx"]
  /\ got' = [got EXCEPT !.wtime = (IF etime[p] = -1 THEN ticks ELSE etime[p])
                                    - ctime[p] - rtime[p]]
  /\ UNCHANGED <<state, stamps, rtime, ticks, cstart, kstart, handler, history>>

WaitxFree(c, p) ==
  /\ At(c, "waitx") /\ cproc[c] = p
  /\ got' = [got EXCEPT !.rtime = rtime[p], !.waited = waited[p], !.ran = ran[p],
                       !.within = within[p]]
  /\ state' = [state EXCEPT ![p] = "UNUSED"]
  /\ ptlock' = NoCpu
  /\ cproc' = [cproc EXCEPT ![c] = NoSlot]
  /\ cpc' = [cpc EXCEPT ![c] = "idle"]
  /\ UNCHANGED <<stamps, rtime, ticks, cstart, kstart, handler, history>>

-----------------------------------------------------------------------------
(* The timer interrupt on CPU 0 *)

\* ticks++
Tick ==
  /\ hidx = 0 /\ ticks < MaxTicks
  /\ cpc[0] \in {"idle", "run"}
  /\ ticks' = ticks + 1
  /\ hidx' = 1
  /\ ran' = [p \in Slots |-> IF state[p] = "RUNNING" THEN ran[p] + 1 ELSE ran[p]]
  /\ waited' = [p \in Slots |->
                  IF state[p] \in {"EMBRYO", "RUNNABLE", "SLEEPING"}
                  THEN waited[p] + 1 ELSE waited[p]]
  /\ within' = [p \in Slots |-> IF kstart[p] # NotIn THEN within[p] + 1 ELSE within[p]]
  /\ UNCHANGED <<state, stamps, rtime, ptlock, cproc, cpc, cstart, kstart, hval, got>>

\* Mutant of Counted: increment_times() counts a process that waits.
CountedInQueue(p) == state[p] \in {"RUNNING", "RUNNABLE"}
\* The condition under which increment_times() adds to rtime.
Counted(p) == state[p] = "RUNNING"

\* increment_times() looks at a slot and reads the rtime of a RUNNING process.
IncTest ==
  /\ hidx \in Slots /\ hval = NotIn
  /\ \/ Counted(hidx) /\ hval' = rtime[hidx] /\ UNCHANGED hidx
     \/ ~Counted(hidx) /\ hidx' = hidx + 1 /\ UNCHANGED hval
  /\ UNCHANGED <<state, stamps, rtime, ticks, ptlock, cproc, cpc, cstart, kstart, got,
                 history>>

\* The store of p->rtime++.
IncAdd ==
  /\ hidx \in Slots /\ hval # NotIn
  /\ rtime' = [rtime EXCEPT ![hidx] = hval + 1]
  /\ hidx' = hidx + 1
  /\ hval' = NotIn
  /\ UNCHANGED <<state, stamps, ticks, ptlock, cproc, cpc, cstart, kstart, got, history>>

\* The rest of trap(): the interrupted process yields.
TickEnd ==
  /\ hidx = NPROC + 1
  /\ hidx' = 0
  /\ \/ cpc[0] = "run" /\ Leave(0, cproc[0], "RUNNABLE")
     \/ cpc[0] = "idle" /\ UNCHANGED <<state, cproc, cpc>>
  /\ UNCHANGED <<stamps, rtime, ticks, ptlock, cstart, kstart, hval, got, history>>

-----------------------------------------------------------------------------
ProcStep(c, p) ==
  \/ AllocProc(c, p) \/ Ready(c, p) \/ SwitchStart(c, p) \/ SwitchEnd(c, p)
  \/ Yield(c, p) \/ Sleep(c, p) \/ SbrkStart(c, p) \/ SbrkEnd(c, p)
  \/ ExitStamp(c, p) \/ ExitZombie(c, p) \/ WaitxTime(c, p) \/ WaitxFree(c, p)

Next ==
  \/ \E c \in Cpus, p \in Slots : ProcStep(c, p)
  \/ Tick \/ IncTest \/ IncAdd \/ TickEnd

Spec == Init /\ [][Next]_vars

-----------------------------------------------------------------------------
(* Properties *)

\* With one CPU, waitx() reports every tick of the child's life once, as one at
\* which it ran or as one at which it did not, except for those that fall inside
\* the switchuvm() of growproc(): the run time has each of them once more, and the
\* waiting time once less, also when the process is preempted there.  With more CPUs
\* an addition to rtime on one may undo that of another, and no count is exact.
WaitxExact ==
  (\A c \in Cpus : cpc[c] # "waitx") =>
    /\ got.rtime = got.ran + got.within
    /\ got.wtime = got.waited - got.within

\* The end stamp lies between the creation stamp and now, whatever the timer
\* does meanwhile, so that the branch of waitx() for etime = -1 is not taken.
EndStamp ==
  \A p \in Slots : state[p] = "ZOMBIE" => ctime[p] <= etime[p] /\ etime[p] <= ticks

\* waitx() "will assign the total number of clock ticks during which process was
\* waiting" (src/ass5/readme.md): a number of ticks is not negative.
WaitNotNegative == got.wtime >= 0
-----------------------------------------------------------------------------
(* The inductive invariants of WaitxExact and EndStamp *)

LifeTypes ==
  /\ state \in [Slots -> {"UNUSED", "EMBRYO", "SLEEPING", "RUNNABLE", "RUNNING", "ZOMBIE"}]
  /\ ctime \in [Slots -> Nat] /\ etime \in [Slots -> Int]
  /\ ticks \in Nat
  /\ cproc \in [Cpus -> Slots \cup {NoSlot}]
  /\ cpc \in [Cpus -> {"idle", "switch", "run", "exit", "waitx"}]

CountTypes ==
  /\ rtime \in [Slots -> Int]
  /\ cstart \in [Cpus -> Nat] /\ kstart \in [Slots -> Nat \cup {NotIn}]
  /\ hidx \in 0 .. NPROC + 1 /\ hval \in Int
  /\ got \in [wtime : Int, rtime : Int, waited : Int, ran : Int, within : Int]
  /\ ran \in [Slots -> Int] /\ waited \in [Slots -> Int] /\ within \in [Slots -> Int]

\* What a CPU that is not idle does with its process, and under which lock.
CpuRight(c) ==
  /\ cpc[c] # "idle" => cproc[c] \in Slots
  /\ cpc[c] \in {"switch", "exit", "waitx"} => ptlock = c
  /\ cpc[c] = "switch" => state[cproc[c]] = "RUNNABLE"
  /\ cpc[c] \in {"run", "exit"} => state[cproc[c]] = "RUNNING"
  /\ cpc[c] = "waitx" => state[cproc[c]] = "ZOMBIE"

CpusRight ==
  /\ \A c \in Cpus : CpuRight(c)
  /\ \A c, d \in Cpus : cpc[c] # "idle" /\ cpc[d] # "idle" /\ cproc[c] = cproc[d] => c = d
  /\ hidx # 0 => cpc[0] \in {"idle", "run"}

Stamped(q) == ctime[q] <= etime[q] /\ etime[q] <= ticks

StampsRight ==
  /\ \A q \in Slots : ctime[q] <= ticks
  /\ \A c \in Cpus : cpc[c] = "exit" => Stamped(cproc[c])
  /\ \A q \in Slots : state[q] = "ZOMBIE" => Stamped(q)

StampInv == LifeTypes /\ CpusRight /\ StampsRight

\* The ticks of q that its rtime does not have yet: those since the switchuvm() of
\* growproc() began, and the one that increment_times() has not come to.
Pending(q) ==
  (IF kstart[q] = NotIn THEN 0 ELSE ticks - kstart[q])
    + (IF state[q] = "RUNNING" /\ 0 < hidx /\ hidx <= q THEN 1 ELSE 0)

\* With one CPU nothing comes between the two halves of p->rtime++, and no tick
\* comes between those of the scheduler's switchuvm().
OneCpuRight ==
  /\ \A q \in Slots : state[q] = "RUNNING" => cpc[0] \in {"run", "exit"} /\ cproc[0] = q
  /\ \A q \in Slots : kstart[q] # NotIn => state[q] \in {"RUNNING", "RUNNABLE"}
  /\ cpc[0] = "switch" => cstart[0] = ticks
  /\ cpc[0] = "exit" => kstart[cproc[0]] = NotIn /\ etime[cproc[0]] = ticks
  /\ hval # NotIn => hidx \in Slots /\ state[hidx] = "RUNNING" /\ hval = rtime[hidx]

\* Every tick of a life is in ran or in waited, and in rtime if it is in ran.
Balanced(q) ==
  /\ state[q] # "UNUSED" => rtime[q] + Pending(q) = ran[q] + within[q]
  /\ state[q] \notin {"UNUSED", "ZOMBIE"} => ran[q] + waited[q] = ticks - ctime[q]
  /\ state[q] = "ZOMBIE" => ran[q] + waited[q] = etime[q] - ctime[q] /\ etime[q] >= 0

AllBalanced == \A q \in Slots : Balanced(q)

\* What waitx() stores, after its first assignment and after its last.
Reported ==
  /\ cpc[0] = "waitx" => got.wtime = waited[cproc[0]] - within[cproc[0]]
  /\ WaitxExact

WaitxInv ==
  /\ LifeTypes /\ CountTypes
  /\ CpusRight
  /\ OneCpuRight
  /\ AllBalanced
  /\ Reported
=============================================================================
