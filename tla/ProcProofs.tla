----------------------------- MODULE ProcProofs -----------------------------
(***************************************************************************)
(* Proofs about the process table, for every number of slots and CPUs.     *)
(* IndInv of Proc is inductive: one lemma per action of the kernel, each   *)
(* with one step per conjunct that the action can disturb.  The lock facts *)
(* carry the argument: a thread between its wakeup1(parent) and ZOMBIE, or *)
(* between its look at ticks and its going to sleep, holds the lock that   *)
(* the other party needs.                                                  *)
(***************************************************************************)
EXTENDS Proc, TLAPS

\* The null values of slots, CPUs and channels are none of their values.
LEMMA Consts ==
  /\ NoSlot \notin Slots /\ InitProc \in Slots
  /\ NoCpu \notin Cpus
  /\ TicksChan \notin Slots /\ TicksChan # NoSlot
  BY TableAssumption DEF NoSlot, Slots, InitProc, NoCpu, Cpus, TicksChan

\* The arithmetic of the scheduler's loop, of ticks and of nextpid keeps to
\* the bounds of TypeOK.
LEMMA Bounds ==
  /\ \A p \in Slots : p + 1 \in 1 .. NPROC + 1
  /\ 1 \in 1 .. NPROC + 1
  /\ 0 \in 0 .. MaxPid
  /\ 0 \in 0 .. TickMod - 1
  /\ \A t \in 0 .. TickMod - 1 :
       (IF t + 1 = TickMod THEN 0 ELSE t + 1) \in 0 .. TickMod - 1
  /\ \A n \in 2 .. MaxPid + 1 :
       n <= MaxPid => n \in 0 .. MaxPid /\ n + 1 \in 2 .. MaxPid + 1
  BY TableAssumption, BoundAssumption DEF Slots

\* A process between its wakeup1(parent) and ZOMBIE in exit() runs on the CPU
\* that holds ptable.lock.
LEMMA ZombieHolds ==
  ASSUME IndInv, NEW p \in Slots, pc[p] = "zombie"
  PROVE  \E c \in Cpus : ptlock = c /\ spc[c] = "run" /\ cproc[c] = p
<1>1. state[p] = "RUNNING"
  BY DEF IndInv, TypeOK, States, Live, ThreadInv, Preemptible, Suspended
<1>2. PICK c \in Cpus : cproc[c] = p
  BY <1>1 DEF IndInv, RunningOnOneCpu
<1>3. spc[c] = "run"
  BY <1>2, Consts DEF IndInv, CpuInv, Preemptible, Suspended
<1> QED
  BY <1>2, <1>3 DEF IndInv, LockDiscipline, InPtSection, PtHeld

\* A process that sys_sleep() has told to sleep runs on the CPU that holds
\* tickslock.
LEMMA SleepGoHolds ==
  ASSUME IndInv, NEW p \in Slots, pc[p] = "sleep_go"
  PROVE  \E c \in Cpus : tickslock = c /\ spc[c] = "run" /\ cproc[c] = p
<1>1. state[p] = "RUNNING"
  BY DEF IndInv, TypeOK, States, Live, ThreadInv, Preemptible, Suspended
<1>2. PICK c \in Cpus : cproc[c] = p
  BY <1>1 DEF IndInv, RunningOnOneCpu
<1>3. spc[c] = "run"
  BY <1>2, Consts DEF IndInv, CpuInv, Preemptible, Suspended
<1> QED
  BY <1>2, <1>3 DEF IndInv, LockDiscipline, InTicksSection, TicksHeld

\* A step of a thread between the points at which it holds no lock, sleeps on
\* no channel and builds no slot, and which changes nothing else, preserves
\* the inductive invariant.
LEMMA MoveInv ==
  ASSUME IndInv, NEW c \in Cpus, NEW p \in Slots, Runs(c, p),
         pc[p] \in {"user", "sys", "ret"},
         NEW point \in {"user", "sys", "ret", "exit"}, Goto(p, point),
         UNCHANGED <<table, locals, cpu, nextpid, ptlock, clock, panicked>>
  PROVE  IndInv'
<1> USE Consts DEF Goto, Runs, IndInv, table, locals, cpu, clock
<1>1. state[p] = "RUNNING"
  BY DEF RunningOnOneCpu
<1>2. TypeOK'
  BY DEF States, Live, Points, Preemptible, TypeOK
<1>3. LockDiscipline'
  BY DEF LockDiscipline, InPtSection, InTicksSection, CpuInv, PtHeld,
     TicksHeld, Preemptible
<1>4. ParentAlive'
  BY DEF ParentAlive, Live, FamilyInv
<1>5. NoLostWakeup'
  BY DEF NoLostWakeup
<1>6. KilledWaiterAwake'
  BY DEF KilledWaiterAwake
<1>7. EmbryoOwned'
  BY DEF EmbryoOwned, Forking
<1>8. CpuInv'
  BY DEF CpuInv, NoSlot, Preemptible, Suspended, PtHeld, TicksHeld,
     RunningOnOneCpu
<1>9. ThreadInv'
  BY DEF ThreadInv, CpuInv, RunningOnOneCpu, Preemptible, Suspended
<1>10. FamilyInv'
  BY DEF FamilyInv, Live, Forking
<1>11. TickInv'
  BY DEF TickInv, Elapsed, TicksChan
<1>12. (RunningOnOneCpu /\ StackMatchesState /\ PidUnique /\ PidInv)'
  BY DEF RunningOnOneCpu, StackMatchesState, PidUnique, PidInv
<1> QED
  BY <1>2, <1>3, <1>4, <1>5, <1>6, <1>7, <1>8, <1>9, <1>10, <1>11, <1>12
\* The state that userinit() leaves satisfies the inductive invariant.
LEMMA InitInv == Init => IndInv
<1> SUFFICES ASSUME Init PROVE IndInv
  OBVIOUS
<1> USE Consts DEF Init, Live, NoSlot
<1>1. TypeOK
  <2>1. /\ 1 \in 0 .. MaxPid /\ 0 \in 0 .. MaxPid /\ 2 \in 2 .. MaxPid + 1
        /\ 0 \in 0 .. TickMod - 1 /\ 1 \in 1 .. NPROC + 1
    BY Bounds, BoundAssumption
  <2>2. /\ {"UNUSED", "RUNNABLE"} \subseteq States
        /\ {"none", "forkret"} \subseteq Points
    BY DEF States, Points, Suspended
  <2> QED
    BY <2>1, <2>2 DEF TypeOK
<1>2. LockDiscipline /\ RunningOnOneCpu /\ CpuInv
  BY DEF LockDiscipline, InPtSection, InTicksSection, RunningOnOneCpu, CpuInv
<1>3. ParentAlive /\ NoLostWakeup /\ KilledWaiterAwake /\ ThreadInv
  BY DEF ParentAlive, NoLostWakeup, KilledWaiterAwake, ThreadInv, Suspended
<1>4. EmbryoOwned /\ StackMatchesState /\ FamilyInv
  BY DEF EmbryoOwned, StackMatchesState, FamilyInv, Forking
<1>5. PidUnique /\ PidInv
  BY DEF PidUnique, PidInv
<1>6. TickInv
  BY DEF TickInv
<1> QED
  BY <1>1, <1>2, <1>3, <1>4, <1>5, <1>6 DEF IndInv

-----------------------------------------------------------------------------
(* scheduler() and the return of swtch() *)

\* The step SchedAcquire preserves the inductive invariant.
LEMMA SchedAcquireInv ==
  ASSUME IndInv, NEW c \in Cpus, SchedAcquire(c)
  PROVE  IndInv'
<1> USE Consts DEF SchedAcquire, IndInv, table, thread, clock, locals
<1>1. TypeOK'
  BY DEF States, Live, Points, TypeOK
<1>2. LockDiscipline'
  BY DEF LockDiscipline, InPtSection, InTicksSection, CpuInv, PtHeld,
     TicksHeld, TypeOK
<1>3. CpuInv'
  BY DEF CpuInv, NoSlot, Preemptible, Suspended, PtHeld, TicksHeld
<1>4. (RunningOnOneCpu /\ ParentAlive /\ NoLostWakeup /\ KilledWaiterAwake /\ EmbryoOwned /\ StackMatchesState /\ PidUnique /\ ThreadInv /\ FamilyInv /\ PidInv /\ TickInv)'
  BY DEF RunningOnOneCpu, ParentAlive, NoLostWakeup, KilledWaiterAwake,
     EmbryoOwned, StackMatchesState, PidUnique, ThreadInv, FamilyInv, PidInv,
     TickInv, Elapsed
<1> QED
  BY <1>1, <1>2, <1>3, <1>4

\* The step SchedRun preserves the inductive invariant.
LEMMA SchedRunInv ==
  ASSUME IndInv, NEW c \in Cpus, NEW p \in Slots, SchedRun(c, p)
  PROVE  IndInv'
<1> USE Consts DEF SchedRun, First, IndInv, thread, clock, locals
<1>1. TypeOK'
  BY Bounds DEF States, Live, Points, TypeOK
<1>2. LockDiscipline'
  BY DEF LockDiscipline, InPtSection, InTicksSection, CpuInv, PtHeld, TicksHeld
<1>3. RunningOnOneCpu'
  BY DEF RunningOnOneCpu, CpuInv, TypeOK
<1>4. ParentAlive'
  BY DEF ParentAlive, Live
<1>5. NoLostWakeup'
  BY DEF NoLostWakeup
<1>6. KilledWaiterAwake'
  BY DEF KilledWaiterAwake
<1>7. EmbryoOwned'
  BY DEF EmbryoOwned
<1>8. StackMatchesState'
  BY DEF StackMatchesState, Live
<1>9. CpuInv'
  BY DEF CpuInv, NoSlot, Preemptible, Suspended, PtHeld, TicksHeld, ThreadInv,
     TypeOK
<1>10. ThreadInv'
  BY DEF ThreadInv, CpuInv, RunningOnOneCpu, Preemptible
<1>11. FamilyInv'
  BY DEF FamilyInv, Live
<1>12. TickInv'
  BY DEF TickInv, Elapsed
<1>13. (PidUnique /\ PidInv)'
  BY DEF PidUnique, PidInv
<1> QED
  BY <1>1, <1>2, <1>3, <1>4, <1>5, <1>6, <1>7, <1>8, <1>9, <1>10, <1>11, <1>12,
     <1>13

\* The step SchedRelease preserves the inductive invariant.
LEMMA SchedReleaseInv ==
  ASSUME IndInv, NEW c \in Cpus, SchedRelease(c)
  PROVE  IndInv'
<1> USE Consts DEF SchedRelease, IndInv, table, thread, clock, locals
<1>1. TypeOK'
  BY Bounds DEF States, Live, Points, TypeOK
<1>2. LockDiscipline'
  BY DEF LockDiscipline, InPtSection, InTicksSection, CpuInv, PtHeld,
     TicksHeld, TypeOK
<1>3. CpuInv'
  BY DEF CpuInv, NoSlot, Preemptible, Suspended, PtHeld, TicksHeld
<1>4. (RunningOnOneCpu /\ ParentAlive /\ NoLostWakeup /\ KilledWaiterAwake /\ EmbryoOwned /\ StackMatchesState /\ PidUnique /\ ThreadInv /\ FamilyInv /\ PidInv /\ TickInv)'
  BY DEF RunningOnOneCpu, ParentAlive, NoLostWakeup, KilledWaiterAwake,
     EmbryoOwned, StackMatchesState, PidUnique, ThreadInv, FamilyInv, PidInv,
     TickInv, Elapsed
<1> QED
  BY <1>1, <1>2, <1>3, <1>4

\* The step Resume preserves the inductive invariant.
LEMMA ResumeInv ==
  ASSUME IndInv, NEW c \in Cpus, NEW p \in Slots, Resume(c, p)
  PROVE  IndInv'
<1> USE Consts DEF Resume, Goto, IndInv, locals, clock
<1>1. state[p] = "RUNNING"
  BY DEF RunningOnOneCpu
<1>2. TypeOK'
  BY DEF States, Live, Points, Preemptible, PtHeld, TypeOK
<1>3. LockDiscipline'
  BY DEF LockDiscipline, InPtSection, InTicksSection, CpuInv, PtHeld,
     TicksHeld, Preemptible, TypeOK
<1>4. ParentAlive'
  BY DEF ParentAlive, Live, FamilyInv, TypeOK
<1>5. NoLostWakeup'
  BY DEF NoLostWakeup, TypeOK
<1>6. KilledWaiterAwake'
  BY DEF KilledWaiterAwake, TypeOK
<1>7. EmbryoOwned'
  BY DEF EmbryoOwned, Forking, TypeOK
<1>8. CpuInv'
  BY DEF CpuInv, NoSlot, Preemptible, Suspended, PtHeld, TicksHeld,
     RunningOnOneCpu, TypeOK
<1>9. ThreadInv'
  BY DEF ThreadInv, CpuInv, RunningOnOneCpu, Preemptible, Suspended, TypeOK
<1>10. FamilyInv'
  BY DEF FamilyInv, Live, Forking, TypeOK
<1>11. TickInv'
  BY DEF TickInv, Elapsed, TicksChan, TypeOK
<1>12. (RunningOnOneCpu /\ StackMatchesState /\ PidUnique /\ PidInv)'
  BY DEF RunningOnOneCpu, StackMatchesState, PidUnique, PidInv
<1> QED
  BY <1>2, <1>3, <1>4, <1>5, <1>6, <1>7, <1>8, <1>9, <1>10, <1>11, <1>12

-----------------------------------------------------------------------------
(* trap() *)

\* The step TrapEnter preserves the inductive invariant.
LEMMA TrapEnterInv ==
  ASSUME IndInv, NEW c \in Cpus, NEW p \in Slots, TrapEnter(c, p)
  PROVE  IndInv'
  BY MoveInv DEF TrapEnter

\* The step TrapReturn preserves the inductive invariant.
LEMMA TrapReturnInv ==
  ASSUME IndInv, NEW c \in Cpus, NEW p \in Slots, TrapReturn(c, p)
  PROVE  IndInv'
  BY MoveInv DEF TrapReturn

\* The step Fault preserves the inductive invariant.
LEMMA FaultInv ==
  ASSUME IndInv, NEW c \in Cpus, NEW p \in Slots, Fault(c, p)
  PROVE  IndInv'
<1> USE Consts DEF Fault, Goto, Runs, IndInv, locals, cpu, clock
<1>1. state[p] = "RUNNING"
  BY DEF RunningOnOneCpu
<1>2. TypeOK'
  BY DEF States, Live, Points, Preemptible, TypeOK
<1>3. LockDiscipline'
  BY DEF LockDiscipline, InPtSection, InTicksSection, CpuInv, PtHeld,
     TicksHeld, Preemptible
<1>4. ParentAlive'
  BY DEF ParentAlive, Live, FamilyInv
<1>5. NoLostWakeup'
  BY DEF NoLostWakeup
<1>6. KilledWaiterAwake'
  BY DEF KilledWaiterAwake
<1>7. EmbryoOwned'
  BY DEF EmbryoOwned, Forking
<1>8. CpuInv'
  BY DEF CpuInv, NoSlot, Preemptible, Suspended, PtHeld, TicksHeld,
     RunningOnOneCpu
<1>9. ThreadInv'
  BY DEF ThreadInv, CpuInv, RunningOnOneCpu, Preemptible, Suspended
<1>10. FamilyInv'
  BY DEF FamilyInv, Live, Forking
<1>11. TickInv'
  BY DEF TickInv, Elapsed, TicksChan
<1>12. (RunningOnOneCpu /\ StackMatchesState /\ PidUnique /\ PidInv)'
  BY DEF RunningOnOneCpu, StackMatchesState, PidUnique, PidInv
<1> QED
  BY <1>2, <1>3, <1>4, <1>5, <1>6, <1>7, <1>8, <1>9, <1>10, <1>11, <1>12

\* The step TimerIrq preserves the inductive invariant.
LEMMA TimerIrqInv ==
  ASSUME IndInv, NEW c \in Cpus, TimerIrq(c)
  PROVE  IndInv'
<1> USE Consts DEF TimerIrq, IndInv, table, thread, locals
<1>1. TypeOK'
  BY Bounds DEF States, Live, Points, TypeOK
<1>2. LockDiscipline'
  BY DEF LockDiscipline, InPtSection, InTicksSection, CpuInv, PtHeld,
     TicksHeld, TypeOK
<1>3. CpuInv'
  BY DEF CpuInv, NoSlot, Preemptible, Suspended, PtHeld, TicksHeld, TypeOK
<1>4. TickInv'
  <2>1. CASE c = 0
    <3>1. \A q \in Slots : pc[q] # "sleep_go"
      BY <2>1, SleepGoHolds
    <3>2. tpc'[c] = "wake"
      BY <2>1 DEF TypeOK
    <3> QED
      BY <3>1, <3>2 DEF TickInv
  <2>2. CASE c # 0
    BY <2>2 DEF TickInv, Elapsed, TypeOK
  <2> QED
    BY <2>1, <2>2
<1>5. (RunningOnOneCpu /\ ParentAlive /\ NoLostWakeup /\ KilledWaiterAwake /\ EmbryoOwned /\ StackMatchesState /\ PidUnique /\ ThreadInv /\ FamilyInv /\ PidInv)'
  BY DEF RunningOnOneCpu, ParentAlive, NoLostWakeup, KilledWaiterAwake,
     EmbryoOwned, StackMatchesState, PidUnique, ThreadInv, FamilyInv, PidInv
<1> QED
  BY <1>1, <1>2, <1>3, <1>4, <1>5

\* The step TimerWake preserves the inductive invariant.
LEMMA TimerWakeInv ==
  ASSUME IndInv, NEW c \in Cpus, TimerWake(c)
  PROVE  IndInv'
<1> USE Consts DEF TimerWake, Woken, IndInv, thread, locals
<1>1. TypeOK'
  BY DEF States, Live, Points, TypeOK
<1>2. LockDiscipline'
  BY DEF LockDiscipline, InPtSection, InTicksSection, CpuInv, PtHeld,
     TicksHeld, Preemptible, TypeOK
<1>3. RunningOnOneCpu'
  BY DEF RunningOnOneCpu
<1>4. ParentAlive'
  BY DEF ParentAlive, Live
<1>5. NoLostWakeup'
  BY DEF NoLostWakeup
<1>6. KilledWaiterAwake'
  BY DEF KilledWaiterAwake
<1>7. EmbryoOwned'
  BY DEF EmbryoOwned, TypeOK
<1>8. StackMatchesState'
  BY DEF StackMatchesState, Live
<1>9. CpuInv'
  BY DEF CpuInv, NoSlot, Preemptible, Suspended, PtHeld, TicksHeld
<1>10. ThreadInv'
  BY DEF ThreadInv, CpuInv, RunningOnOneCpu, Preemptible, Suspended
<1>11. FamilyInv'
  BY DEF FamilyInv, Live
<1>12. TickInv'
  BY DEF TickInv, Elapsed
<1>13. (PidUnique /\ PidInv)'
  BY DEF PidUnique, PidInv
<1> QED
  BY <1>1, <1>2, <1>3, <1>4, <1>5, <1>6, <1>7, <1>8, <1>9, <1>10, <1>11, <1>12,
     <1>13

\* The step TimerIdle preserves the inductive invariant.
LEMMA TimerIdleInv ==
  ASSUME IndInv, NEW c \in Cpus, TimerIdle(c)
  PROVE  IndInv'
<1> USE Consts DEF TimerIdle, IndInv, table, thread, clock, locals
<1>1. TypeOK'
  BY DEF States, Live, Points, TypeOK
<1>2. LockDiscipline'
  BY DEF LockDiscipline, InPtSection, InTicksSection, CpuInv, PtHeld, TicksHeld
<1>3. CpuInv'
  BY DEF CpuInv, NoSlot, Preemptible, Suspended, PtHeld, TicksHeld
<1>4. TickInv'
  BY DEF TickInv, Elapsed
<1>5. (RunningOnOneCpu /\ ParentAlive /\ NoLostWakeup /\ KilledWaiterAwake /\ EmbryoOwned /\ StackMatchesState /\ PidUnique /\ ThreadInv /\ FamilyInv /\ PidInv)'
  BY DEF RunningOnOneCpu, ParentAlive, NoLostWakeup, KilledWaiterAwake,
     EmbryoOwned, StackMatchesState, PidUnique, ThreadInv, FamilyInv, PidInv
<1> QED
  BY <1>1, <1>2, <1>3, <1>4, <1>5

\* The step TimerKilled preserves the inductive invariant.
LEMMA TimerKilledInv ==
  ASSUME IndInv, NEW c \in Cpus, NEW p \in Slots, TimerKilled(c, p)
  PROVE  IndInv'
<1> USE Consts DEF TimerKilled, Goto, IndInv, table, locals, clock
<1>1. state[p] = "RUNNING"
  BY DEF RunningOnOneCpu
<1>2. TypeOK'
  BY DEF States, Live, Points, Preemptible, TypeOK
<1>3. LockDiscipline'
  BY DEF LockDiscipline, InPtSection, InTicksSection, CpuInv, PtHeld,
     TicksHeld, Preemptible
<1>4. ParentAlive'
  BY DEF ParentAlive, Live, FamilyInv
<1>5. NoLostWakeup'
  BY DEF NoLostWakeup
<1>6. KilledWaiterAwake'
  BY DEF KilledWaiterAwake
<1>7. EmbryoOwned'
  BY DEF EmbryoOwned, Forking
<1>8. CpuInv'
  BY DEF CpuInv, NoSlot, Preemptible, Suspended, PtHeld, TicksHeld,
     RunningOnOneCpu
<1>9. ThreadInv'
  BY DEF ThreadInv, CpuInv, RunningOnOneCpu, Preemptible, Suspended
<1>10. FamilyInv'
  BY DEF FamilyInv, Live, Forking
<1>11. TickInv'
  BY DEF TickInv, Elapsed, TicksChan
<1>12. (RunningOnOneCpu /\ StackMatchesState /\ PidUnique /\ PidInv)'
  BY DEF RunningOnOneCpu, StackMatchesState, PidUnique, PidInv
<1> QED
  BY <1>2, <1>3, <1>4, <1>5, <1>6, <1>7, <1>8, <1>9, <1>10, <1>11, <1>12

\* The step Yield preserves the inductive invariant.
LEMMA YieldInv ==
  ASSUME IndInv, NEW c \in Cpus, NEW p \in Slots, Yield(c, p)
  PROVE  IndInv'
<1> USE Consts DEF Yield, SwitchOut, IndInv, thread, clock, locals
<1>1. state[p] = "RUNNING"
  OBVIOUS
<1>2. TypeOK'
  BY Bounds DEF States, Live, Points, Preemptible, TypeOK
<1>3. LockDiscipline'
  BY DEF LockDiscipline, InPtSection, InTicksSection, CpuInv, PtHeld,
     TicksHeld, Preemptible, TypeOK
<1>4. RunningOnOneCpu'
  BY DEF RunningOnOneCpu, TypeOK
<1>5. ParentAlive'
  BY DEF ParentAlive, Live, FamilyInv
<1>6. NoLostWakeup'
  BY DEF NoLostWakeup
<1>7. KilledWaiterAwake'
  BY DEF KilledWaiterAwake
<1>8. EmbryoOwned'
  BY DEF EmbryoOwned
<1>9. StackMatchesState'
  BY DEF StackMatchesState, Live
<1>10. CpuInv'
  BY DEF CpuInv, NoSlot, Preemptible, Suspended, PtHeld, TicksHeld,
     RunningOnOneCpu, TypeOK
<1>11. ThreadInv'
  BY DEF ThreadInv, CpuInv, RunningOnOneCpu, Preemptible, Suspended
<1>12. FamilyInv'
  BY DEF FamilyInv, Live
<1>13. TickInv'
  BY DEF TickInv, Elapsed, TicksChan
<1>14. (PidUnique /\ PidInv)'
  BY DEF PidUnique, PidInv
<1> QED
  BY <1>2, <1>3, <1>4, <1>5, <1>6, <1>7, <1>8, <1>9, <1>10, <1>11, <1>12,
     <1>13, <1>14

-----------------------------------------------------------------------------
(* fork() *)

\* The step AllocProc preserves the inductive invariant.
LEMMA AllocProcInv ==
  ASSUME IndInv, NEW c \in Cpus, NEW p \in Slots, AllocProc(c, p)
  PROVE  IndInv'
<1> USE Consts DEF AllocProc, Goto, Runs, First, NewPid, IndInv, cpu, clock
<1>1. state[p] = "RUNNING"
  BY DEF RunningOnOneCpu
<1>2. TypeOK'
  BY Bounds DEF States, Live, Points, Preemptible, TypeOK
<1>3. LockDiscipline'
  BY DEF LockDiscipline, InPtSection, InTicksSection, CpuInv, PtHeld,
     TicksHeld, Preemptible
<1>4. RunningOnOneCpu'
  BY DEF RunningOnOneCpu
<1>5. ParentAlive'
  BY DEF ParentAlive, Live, FamilyInv
<1>6. NoLostWakeup'
  BY DEF NoLostWakeup
<1>7. KilledWaiterAwake'
  BY DEF KilledWaiterAwake
<1>8. EmbryoOwned'
  BY DEF EmbryoOwned, Forking, TypeOK
<1>9. StackMatchesState'
  BY DEF StackMatchesState, Live
<1>10. PidUnique'
  <2>1. PICK s \in Slots : pid' = [pid EXCEPT ![s] = nextpid]
    OBVIOUS
  <2>2. \A q \in Slots : pid[q] # nextpid
    BY DEF PidInv, TypeOK
  <2> QED
    BY <2>2 DEF PidUnique
<1>11. CpuInv'
  BY DEF CpuInv, NoSlot, Preemptible, Suspended, PtHeld, TicksHeld,
     RunningOnOneCpu
<1>12. ThreadInv'
  BY DEF ThreadInv, CpuInv, RunningOnOneCpu, Preemptible, Suspended
<1>13. FamilyInv'
  BY DEF FamilyInv, Live, TypeOK
<1>14. PidInv'
  BY DEF PidInv, TypeOK
<1>15. TickInv'
  BY DEF TickInv, Elapsed, TicksChan
<1> QED
  BY <1>2, <1>3, <1>4, <1>5, <1>6, <1>7, <1>8, <1>9, <1>10, <1>11, <1>12,
     <1>13, <1>14, <1>15

\* The step AllocProcFull preserves the inductive invariant.
LEMMA AllocProcFullInv ==
  ASSUME IndInv, NEW c \in Cpus, NEW p \in Slots, AllocProcFull(c, p)
  PROVE  IndInv'
  BY MoveInv DEF AllocProcFull, ForkFailed

\* The step AllocStack preserves the inductive invariant.
LEMMA AllocStackInv ==
  ASSUME IndInv, NEW c \in Cpus, NEW p \in Slots, AllocStack(c, p)
  PROVE  IndInv'
<1> USE Consts DEF AllocStack, Goto, Runs, Abandon, ForkFailed, IndInv, cpu,
        clock
<1>1. state[p] = "RUNNING"
  BY DEF RunningOnOneCpu
<1>2. /\ np[p] \in Slots /\ np[p] # p
      /\ state[np[p]] = "EMBRYO" /\ pc[np[p]] = "none"
      /\ \A d \in Cpus : cproc[d] # np[p]
      /\ \A q \in Slots : np[q] = np[p] => q = p
  BY DEF FamilyInv, Forking, EmbryoOwned, ThreadInv, RunningOnOneCpu
<1>3. TypeOK'
  <2>1. CASE kstack' = [kstack EXCEPT ![np[p]] = TRUE] /\ Goto(p, "copy")
             /\ UNCHANGED <<state, np>>
    BY <2>1 DEF States, Points, Preemptible, TypeOK
  <2>2. CASE Abandon(p)
    BY <2>2 DEF States, Points, Preemptible, TypeOK
  <2> QED
    BY <2>1, <2>2
<1>4. LockDiscipline'
  BY DEF LockDiscipline, InPtSection, InTicksSection, CpuInv, PtHeld,
     TicksHeld, Preemptible, Suspended, TypeOK
<1>5. RunningOnOneCpu'
  BY <1>2 DEF RunningOnOneCpu, NoSlot, TypeOK
<1>6. ParentAlive'
  <2>1. \A q \in Slots : state'[q] # state[q] => q = np[p] /\ state'[q] = "UNUSED"
    BY DEF TypeOK
  <2>2. \A q \in Slots : pc'[q] # pc[q] => pc'[q] # "zombie"
    BY DEF TypeOK
  <2> QED
    BY <1>2, <2>1, <2>2 DEF ParentAlive, Live
<1>7. NoLostWakeup'
  BY DEF NoLostWakeup, TypeOK
<1>8. KilledWaiterAwake'
  BY DEF KilledWaiterAwake, TypeOK
<1>9. EmbryoOwned'
  BY DEF EmbryoOwned, Forking, TypeOK
<1>10. StackMatchesState'
  BY DEF StackMatchesState, Live, EmbryoOwned, TypeOK
<1>11. CpuInv'
  BY DEF CpuInv, NoSlot, Preemptible, Suspended, PtHeld, TicksHeld,
     RunningOnOneCpu, ThreadInv, TypeOK
<1>12. ThreadInv'
  BY <1>2 DEF ThreadInv, CpuInv, RunningOnOneCpu, Preemptible, Suspended,
     TicksChan, TypeOK
<1>13. FamilyInv'
  BY DEF FamilyInv, Live, Forking, EmbryoOwned, TypeOK
<1>14. TickInv'
  BY DEF TickInv, Elapsed, TicksChan, ThreadInv, TypeOK
<1>15. (PidUnique /\ PidInv)'
  BY DEF PidUnique, PidInv
<1> QED
  BY <1>3, <1>4, <1>5, <1>6, <1>7, <1>8, <1>9, <1>10, <1>11, <1>12, <1>13,
     <1>14, <1>15

\* The step ForkCopy preserves the inductive invariant.
LEMMA ForkCopyInv ==
  ASSUME IndInv, NEW c \in Cpus, NEW p \in Slots, ForkCopy(c, p)
  PROVE  IndInv'
<1> USE Consts DEF ForkCopy, Goto, Runs, Abandon, ForkFailed, IndInv, cpu,
        clock
<1>1. state[p] = "RUNNING"
  BY DEF RunningOnOneCpu
<1>2. /\ np[p] \in Slots /\ np[p] # p
      /\ state[np[p]] = "EMBRYO" /\ pc[np[p]] = "none"
      /\ \A d \in Cpus : cproc[d] # np[p]
      /\ \A q \in Slots : np[q] = np[p] => q = p
  BY DEF FamilyInv, Forking, EmbryoOwned, ThreadInv, RunningOnOneCpu
<1>3. TypeOK'
  <2>1. CASE parent' = [parent EXCEPT ![np[p]] = p] /\ Goto(p, "ready")
             /\ UNCHANGED <<state, kstack, np>>
    BY <2>1 DEF States, Points, Preemptible, TypeOK
  <2>2. CASE Abandon(p) /\ UNCHANGED parent
    BY <2>2 DEF States, Points, Preemptible, TypeOK
  <2> QED
    BY <2>1, <2>2
<1>4. LockDiscipline'
  BY DEF LockDiscipline, InPtSection, InTicksSection, CpuInv, PtHeld,
     TicksHeld, Preemptible, Suspended, TypeOK
<1>5. RunningOnOneCpu'
  BY <1>2 DEF RunningOnOneCpu, NoSlot, TypeOK
<1>6. ParentAlive'
  BY DEF ParentAlive, Live, FamilyInv, EmbryoOwned, TypeOK
<1>7. NoLostWakeup'
  <2>1. parent[np[p]] = NoSlot
    BY DEF FamilyInv, Forking
  <2>2. \A q \in Slots : parent'[q] = parent[q] \/ (q = np[p] /\ parent'[q] = p)
    BY DEF TypeOK
  <2>3. \A q \in Slots : state'[q] # state[q] => q = np[p] /\ state'[q] = "UNUSED"
    BY DEF TypeOK
  <2>4. \A q \in Slots : pc'[q] # pc[q] => q = p /\ pc'[q] \in {"ready", "ret", "exit"}
    BY DEF TypeOK
  <2>5. SUFFICES ASSUME NEW r \in Slots, state'[r] = "SLEEPING", pc'[r] = "wait_sleep"
                 PROVE  /\ \E q \in Slots : parent'[q] = r
                        /\ \A q \in Slots : parent'[q] = r =>
                             state'[q] # "ZOMBIE" /\ pc'[q] # "zombie"
    BY DEF NoLostWakeup
  <2>6. r # p /\ state[r] = "SLEEPING" /\ pc[r] = "wait_sleep"
    BY <1>1, <1>2, <2>3, <2>4, <2>5
  <2>7. PICK q \in Slots : parent[q] = r
    BY <2>6 DEF NoLostWakeup
  <2>8. parent'[q] = r
    BY <2>1, <2>2, <2>7
  <2> QED
    BY <2>2, <2>3, <2>4, <2>6, <2>8 DEF NoLostWakeup
<1>8. KilledWaiterAwake'
  BY DEF KilledWaiterAwake, TypeOK
<1>9. EmbryoOwned'
  BY DEF EmbryoOwned, Forking, TypeOK
<1>10. StackMatchesState'
  BY DEF StackMatchesState, Live, TypeOK
<1>11. CpuInv'
  BY DEF CpuInv, NoSlot, Preemptible, Suspended, PtHeld, TicksHeld,
     RunningOnOneCpu, ThreadInv, TypeOK
<1>12. ThreadInv'
  BY <1>2 DEF ThreadInv, CpuInv, RunningOnOneCpu, Preemptible, Suspended,
     TicksChan, TypeOK
<1>13. FamilyInv'
  <2>1. CASE parent' = [parent EXCEPT ![np[p]] = p] /\ Goto(p, "ready")
             /\ UNCHANGED <<state, kstack, np>>
    BY <1>2 DEF FamilyInv, Live, Forking, TypeOK
  <2>2. CASE Abandon(p) /\ UNCHANGED parent
    BY <2>2 DEF FamilyInv, Live, Forking, EmbryoOwned, TypeOK
  <2> QED
    BY <2>1, <2>2
<1>14. TickInv'
  BY DEF TickInv, Elapsed, TicksChan, ThreadInv, TypeOK
<1>15. (PidUnique /\ PidInv)'
  BY DEF PidUnique, PidInv
<1> QED
  BY <1>3, <1>4, <1>5, <1>6, <1>7, <1>8, <1>9, <1>10, <1>11, <1>12, <1>13,
     <1>14, <1>15

\* The step ForkReady preserves the inductive invariant.
LEMMA ForkReadyInv ==
  ASSUME IndInv, NEW c \in Cpus, NEW p \in Slots, ForkReady(c, p)
  PROVE  IndInv'
<1> USE Consts DEF ForkReady, Runs, IndInv, cpu, clock
<1>1. state[p] = "RUNNING"
  BY DEF RunningOnOneCpu
<1>2. /\ np[p] \in Slots /\ np[p] # p
      /\ state[np[p]] = "EMBRYO" /\ pc[np[p]] = "none"
      /\ \A d \in Cpus : cproc[d] # np[p]
      /\ \A q \in Slots : np[q] = np[p] => q = p
  BY DEF FamilyInv, Forking, EmbryoOwned, ThreadInv, RunningOnOneCpu
<1>3. TypeOK'
  BY <1>2 DEF States, Live, Points, Preemptible, Suspended, TypeOK
<1>4. LockDiscipline'
  BY <1>2 DEF LockDiscipline, InPtSection, InTicksSection, CpuInv, PtHeld,
     TicksHeld, Preemptible, Suspended, TypeOK
<1>5. RunningOnOneCpu'
  BY <1>2 DEF RunningOnOneCpu, NoSlot
<1>6. ParentAlive'
  BY <1>1 DEF ParentAlive, Live, FamilyInv, EmbryoOwned, TypeOK
<1>7. NoLostWakeup'
  BY DEF NoLostWakeup, TypeOK
<1>8. KilledWaiterAwake'
  BY DEF KilledWaiterAwake, TypeOK
<1>9. EmbryoOwned'
  BY DEF EmbryoOwned, Forking, ThreadInv, TypeOK
<1>10. StackMatchesState'
  BY DEF StackMatchesState, EmbryoOwned, FamilyInv
<1>11. CpuInv'
  BY <1>2 DEF CpuInv, NoSlot, Preemptible, Suspended, PtHeld, TicksHeld,
     RunningOnOneCpu, ThreadInv, TypeOK
<1>12. ThreadInv'
  BY DEF ThreadInv, CpuInv, RunningOnOneCpu, Preemptible, Suspended, TicksChan,
     TypeOK
<1>13. FamilyInv'
  BY DEF FamilyInv, Live, Forking, TypeOK
<1>14. TickInv'
  BY DEF TickInv, Elapsed, TicksChan, ThreadInv, TypeOK
<1>15. (PidUnique /\ PidInv)'
  BY DEF PidUnique, PidInv
<1> QED
  BY <1>3, <1>4, <1>5, <1>6, <1>7, <1>8, <1>9, <1>10, <1>11, <1>12, <1>13,
     <1>14, <1>15

-----------------------------------------------------------------------------
(* exit() *)

\* The step SysExit preserves the inductive invariant.
LEMMA SysExitInv ==
  ASSUME IndInv, NEW c \in Cpus, NEW p \in Slots, SysExit(c, p)
  PROVE  IndInv'
  BY MoveInv DEF SysExit

\* The step ExitInit preserves the inductive invariant.
LEMMA ExitInitInv ==
  ASSUME IndInv, NEW c \in Cpus, NEW p \in Slots, ExitInit(c, p)
  PROVE  IndInv'
<1> USE Consts DEF ExitInit, Goto, Runs, IndInv, table, thread, cpu, clock,
        locals
<1>1. state[p] = "RUNNING"
  BY DEF RunningOnOneCpu
<1>2. TypeOK'
  BY DEF States, Live, Points, Preemptible, TypeOK
<1>3. (LockDiscipline /\ RunningOnOneCpu /\ ParentAlive /\ NoLostWakeup /\ KilledWaiterAwake /\ EmbryoOwned /\ StackMatchesState /\ PidUnique /\ CpuInv /\ ThreadInv /\ FamilyInv /\ PidInv /\ TickInv)'
  BY DEF LockDiscipline, InPtSection, InTicksSection, RunningOnOneCpu,
     ParentAlive, NoLostWakeup, KilledWaiterAwake, EmbryoOwned,
     StackMatchesState, PidUnique, CpuInv, ThreadInv, FamilyInv, PidInv,
     TickInv, Elapsed
<1> QED
  BY <1>2, <1>3

\* The step ExitAcquire preserves the inductive invariant.
LEMMA ExitAcquireInv ==
  ASSUME IndInv, NEW c \in Cpus, NEW p \in Slots, ExitAcquire(c, p)
  PROVE  IndInv'
<1> USE Consts DEF ExitAcquire, Goto, Runs, Woken, ExitWakes, Adopted, Zombies,
        Children, IndInv, locals, cpu, clock
<1>1. state[p] = "RUNNING"
  BY DEF RunningOnOneCpu
<1>2. TypeOK'
  BY DEF States, Live, Points, Preemptible, PtHeld, TypeOK
<1>3. LockDiscipline'
  BY DEF LockDiscipline, InPtSection, InTicksSection, CpuInv, PtHeld,
     TicksHeld, Preemptible, RunningOnOneCpu, TypeOK
<1>4. RunningOnOneCpu'
  BY DEF RunningOnOneCpu
<1>5. ParentAlive'
  BY DEF ParentAlive, Live, FamilyInv
<1>6. NoLostWakeup'
  <2>1. SUFFICES ASSUME NEW r \in Slots, state'[r] = "SLEEPING", pc'[r] = "wait_sleep"
                 PROVE  /\ \E q \in Slots : parent'[q] = r
                        /\ \A q \in Slots : parent'[q] = r =>
                             state'[q] # "ZOMBIE" /\ pc'[q] # "zombie"
    BY DEF NoLostWakeup
  <2>2. /\ r # p /\ state[r] = "SLEEPING" /\ pc[r] = "wait_sleep"
        /\ r # parent[p]
        /\ r = InitProc => Zombies(p) = {}
    BY <2>1 DEF ThreadInv
  <2>3. PICK q \in Slots : parent[q] = r
    BY <2>2 DEF NoLostWakeup
  <2>4. parent'[q] = r
    BY <2>2, <2>3
  <2>5. ASSUME NEW s \in Slots, parent'[s] = r
        PROVE  state'[s] # "ZOMBIE" /\ pc'[s] # "zombie"
    <3>1. CASE parent[s] = r
      BY <2>2, <3>1 DEF NoLostWakeup
    <3>2. CASE parent[s] = p
      <4>1. r = InitProc
        BY <2>5, <3>2
      <4>2. state[s] # "ZOMBIE"
        BY <2>2, <3>2, <4>1
      <4>3. s # p /\ pc[s] # "zombie"
        BY <3>2, ZombieHolds DEF FamilyInv
      <4> QED
        BY <4>2, <4>3
    <3> QED
      BY <2>5, <3>1, <3>2
  <2> QED
    BY <2>4, <2>5
<1>7. KilledWaiterAwake'
  BY DEF KilledWaiterAwake
<1>8. EmbryoOwned'
  BY DEF EmbryoOwned, Forking, TypeOK
<1>9. StackMatchesState'
  BY DEF StackMatchesState, Live
<1>10. CpuInv'
  BY DEF CpuInv, NoSlot, Preemptible, Suspended, PtHeld, TicksHeld,
     RunningOnOneCpu
<1>11. ThreadInv'
  BY DEF ThreadInv, CpuInv, RunningOnOneCpu, Preemptible, Suspended
<1>12. FamilyInv'
  BY DEF FamilyInv, Live, Forking
<1>13. TickInv'
  BY DEF TickInv, Elapsed, TicksChan
<1>14. (PidUnique /\ PidInv)'
  BY DEF PidUnique, PidInv
<1> QED
  BY <1>2, <1>3, <1>4, <1>5, <1>6, <1>7, <1>8, <1>9, <1>10, <1>11, <1>12,
     <1>13, <1>14

\* The step ExitSched preserves the inductive invariant.
LEMMA ExitSchedInv ==
  ASSUME IndInv, NEW c \in Cpus, NEW p \in Slots, ExitSched(c, p)
  PROVE  IndInv'
<1> USE Consts DEF ExitSched, Goto, Runs, SwitchOut, IndInv, locals, clock
<1>1. state[p] = "RUNNING"
  BY DEF RunningOnOneCpu
<1>2. TypeOK'
  BY Bounds DEF States, Live, Points, Preemptible, TypeOK
<1>3. LockDiscipline'
  BY DEF LockDiscipline, InPtSection, InTicksSection, CpuInv, PtHeld,
     TicksHeld, Preemptible, TypeOK
<1>4. RunningOnOneCpu'
  BY DEF RunningOnOneCpu, TypeOK
<1>5. ParentAlive'
  BY <1>1 DEF ParentAlive, Live, FamilyInv
<1>6. NoLostWakeup'
  BY DEF NoLostWakeup
<1>7. KilledWaiterAwake'
  BY DEF KilledWaiterAwake
<1>8. EmbryoOwned'
  BY DEF EmbryoOwned, Forking, ThreadInv
<1>9. StackMatchesState'
  BY <1>1 DEF StackMatchesState, Live
<1>10. CpuInv'
  BY DEF CpuInv, NoSlot, Preemptible, Suspended, PtHeld, TicksHeld,
     RunningOnOneCpu, TypeOK
<1>11. ThreadInv'
  BY DEF ThreadInv, CpuInv, RunningOnOneCpu, Preemptible, Suspended, TypeOK
<1>12. FamilyInv'
  BY DEF FamilyInv, Live, Forking
<1>13. TickInv'
  BY DEF TickInv, Elapsed, TicksChan
<1>14. (PidUnique /\ PidInv)'
  BY DEF PidUnique, PidInv
<1> QED
  BY <1>2, <1>3, <1>4, <1>5, <1>6, <1>7, <1>8, <1>9, <1>10, <1>11, <1>12,
     <1>13, <1>14

-----------------------------------------------------------------------------
(* wait() *)

\* The step WaitAcquire preserves the inductive invariant.
LEMMA WaitAcquireInv ==
  ASSUME IndInv, NEW c \in Cpus, NEW p \in Slots, WaitAcquire(c, p)
  PROVE  IndInv'
<1> USE Consts DEF WaitAcquire, Goto, Runs, IndInv, table, locals, cpu, clock
<1>1. state[p] = "RUNNING"
  BY DEF RunningOnOneCpu
<1>2. TypeOK'
  BY DEF States, Live, Points, Preemptible, PtHeld, TypeOK
<1>3. LockDiscipline'
  BY DEF LockDiscipline, InPtSection, InTicksSection, CpuInv, PtHeld,
     TicksHeld, Preemptible, RunningOnOneCpu, TypeOK
<1>4. ParentAlive'
  BY DEF ParentAlive, Live, FamilyInv
<1>5. NoLostWakeup'
  BY DEF NoLostWakeup
<1>6. KilledWaiterAwake'
  BY DEF KilledWaiterAwake
<1>7. EmbryoOwned'
  BY DEF EmbryoOwned, Forking
<1>8. CpuInv'
  BY DEF CpuInv, NoSlot, Preemptible, Suspended, PtHeld, TicksHeld,
     RunningOnOneCpu
<1>9. ThreadInv'
  BY DEF ThreadInv, CpuInv, RunningOnOneCpu, Preemptible, Suspended
<1>10. FamilyInv'
  BY DEF FamilyInv, Live, Forking
<1>11. TickInv'
  BY DEF TickInv, Elapsed, TicksChan
<1>12. (RunningOnOneCpu /\ StackMatchesState /\ PidUnique /\ PidInv)'
  BY DEF RunningOnOneCpu, StackMatchesState, PidUnique, PidInv
<1> QED
  BY <1>2, <1>3, <1>4, <1>5, <1>6, <1>7, <1>8, <1>9, <1>10, <1>11, <1>12

\* The step WaitReap preserves the inductive invariant.
LEMMA WaitReapInv ==
  ASSUME IndInv, NEW c \in Cpus, NEW p \in Slots, WaitReap(c, p)
  PROVE  IndInv'
<1> USE Consts DEF WaitReap, Runs, First, IndInv, cpu, clock
<1>1. state[p] = "RUNNING"
  BY DEF RunningOnOneCpu
<1>2. TypeOK'
  BY Bounds DEF States, Live, Points, Preemptible, TicksHeld, TypeOK
<1>3. LockDiscipline'
  BY DEF LockDiscipline, InPtSection, InTicksSection, CpuInv, PtHeld,
     TicksHeld, Preemptible, RunningOnOneCpu, TypeOK
<1>4. RunningOnOneCpu'
  BY DEF RunningOnOneCpu
<1>5. ParentAlive'
  BY DEF ParentAlive, Live, FamilyInv, TypeOK
<1>6. NoLostWakeup'
  BY DEF NoLostWakeup, TypeOK
<1>7. KilledWaiterAwake'
  BY DEF KilledWaiterAwake, TypeOK
<1>8. EmbryoOwned'
  BY DEF EmbryoOwned, Forking, ThreadInv, TypeOK
<1>9. StackMatchesState'
  BY DEF StackMatchesState, Live, TypeOK
<1>10. PidUnique'
  BY DEF PidUnique
<1>11. CpuInv'
  BY DEF CpuInv, NoSlot, Preemptible, Suspended, PtHeld, TicksHeld,
     RunningOnOneCpu, TypeOK
<1>12. ThreadInv'
  BY DEF ThreadInv, CpuInv, RunningOnOneCpu, Preemptible, Suspended, TypeOK
<1>13. FamilyInv'
  BY DEF FamilyInv, Live, Forking, TypeOK
<1>14. PidInv'
  BY DEF PidInv, TypeOK
<1>15. TickInv'
  BY DEF TickInv, Elapsed, TicksChan, TypeOK
<1> QED
  BY <1>2, <1>3, <1>4, <1>5, <1>6, <1>7, <1>8, <1>9, <1>10, <1>11, <1>12,
     <1>13, <1>14, <1>15

\* The step WaitFail preserves the inductive invariant.
LEMMA WaitFailInv ==
  ASSUME IndInv, NEW c \in Cpus, NEW p \in Slots, WaitFail(c, p)
  PROVE  IndInv'
<1> USE Consts DEF WaitFail, Goto, Runs, IndInv, table, cpu, clock
<1>1. state[p] = "RUNNING"
  BY DEF RunningOnOneCpu
<1>2. TypeOK'
  BY Bounds DEF States, Live, Points, Preemptible, TypeOK
<1>3. LockDiscipline'
  BY DEF LockDiscipline, InPtSection, InTicksSection, CpuInv, PtHeld,
     TicksHeld, Preemptible, TypeOK
<1>4. ParentAlive'
  BY DEF ParentAlive, Live, FamilyInv
<1>5. NoLostWakeup'
  BY DEF NoLostWakeup
<1>6. KilledWaiterAwake'
  BY DEF KilledWaiterAwake
<1>7. EmbryoOwned'
  BY DEF EmbryoOwned, Forking
<1>8. CpuInv'
  BY DEF CpuInv, NoSlot, Preemptible, Suspended, PtHeld, TicksHeld,
     RunningOnOneCpu
<1>9. ThreadInv'
  BY DEF ThreadInv, CpuInv, RunningOnOneCpu, Preemptible, Suspended
<1>10. FamilyInv'
  BY DEF FamilyInv, Live, Forking
<1>11. TickInv'
  BY DEF TickInv, Elapsed, TicksChan
<1>12. (RunningOnOneCpu /\ StackMatchesState /\ PidUnique /\ PidInv)'
  BY DEF RunningOnOneCpu, StackMatchesState, PidUnique, PidInv
<1> QED
  BY <1>2, <1>3, <1>4, <1>5, <1>6, <1>7, <1>8, <1>9, <1>10, <1>11, <1>12

\* The step WaitSleep preserves the inductive invariant.
LEMMA WaitSleepInv ==
  ASSUME IndInv, NEW c \in Cpus, NEW p \in Slots, WaitSleep(c, p)
  PROVE  IndInv'
<1> USE Consts DEF WaitSleep, Goto, Runs, SwitchOut, Zombies, Children, IndInv,
        locals, clock
<1>1. state[p] = "RUNNING"
  BY DEF RunningOnOneCpu
<1>2. TypeOK'
  BY Bounds DEF States, Live, Points, Preemptible, Suspended, TypeOK
<1>3. LockDiscipline'
  BY DEF LockDiscipline, InPtSection, InTicksSection, CpuInv, PtHeld,
     TicksHeld, Preemptible, TypeOK
<1>4. RunningOnOneCpu'
  BY DEF RunningOnOneCpu, TypeOK
<1>5. ParentAlive'
  BY <1>1 DEF ParentAlive, Live, FamilyInv
<1>6. NoLostWakeup'
  <2>1. \A q \in Slots : parent[q] = p => state[q] # "ZOMBIE" /\ pc[q] # "zombie"
    BY ZombieHolds DEF LockDiscipline, InPtSection, PtHeld
  <2>2. \E q \in Slots : parent[q] = p
    OBVIOUS
  <2> QED
    BY <2>1 DEF NoLostWakeup
<1>7. KilledWaiterAwake'
  BY DEF KilledWaiterAwake
<1>8. EmbryoOwned'
  BY DEF EmbryoOwned, Forking, ThreadInv
<1>9. StackMatchesState'
  BY <1>1 DEF StackMatchesState, Live
<1>10. CpuInv'
  BY DEF CpuInv, NoSlot, Preemptible, Suspended, PtHeld, TicksHeld,
     RunningOnOneCpu, TypeOK
<1>11. ThreadInv'
  BY DEF ThreadInv, CpuInv, RunningOnOneCpu, Preemptible, Suspended, TypeOK
<1>12. FamilyInv'
  BY DEF FamilyInv, Live, Forking
<1>13. TickInv'
  BY DEF TickInv, Elapsed, TicksChan, TypeOK
<1>14. (PidUnique /\ PidInv)'
  BY DEF PidUnique, PidInv
<1> QED
  BY <1>2, <1>3, <1>4, <1>5, <1>6, <1>7, <1>8, <1>9, <1>10, <1>11, <1>12,
     <1>13, <1>14

-----------------------------------------------------------------------------
(* kill() *)

\* The step Kill preserves the inductive invariant.
LEMMA KillInv ==
  ASSUME IndInv, NEW c \in Cpus, NEW p \in Slots, NEW k \in 0 .. MaxPid, Kill(c, p, k)
  PROVE  IndInv'
<1> USE Consts DEF Kill, Goto, Runs, First, KillWakes, IndInv, locals, cpu,
        clock
<1>1. state[p] = "RUNNING"
  BY DEF RunningOnOneCpu
<1>2. TypeOK'
  BY DEF States, Live, Points, Preemptible, TypeOK
<1>3. LockDiscipline'
  BY DEF LockDiscipline, InPtSection, InTicksSection, CpuInv, PtHeld,
     TicksHeld, Preemptible
<1>4. RunningOnOneCpu'
  BY DEF RunningOnOneCpu
<1>5. ParentAlive'
  BY DEF ParentAlive, Live, FamilyInv
<1>6. NoLostWakeup'
  BY DEF NoLostWakeup
<1>7. KilledWaiterAwake'
  BY DEF KilledWaiterAwake, TypeOK
<1>8. EmbryoOwned'
  BY DEF EmbryoOwned, Forking
<1>9. StackMatchesState'
  BY DEF StackMatchesState, Live
<1>10. CpuInv'
  BY DEF CpuInv, NoSlot, Preemptible, Suspended, PtHeld, TicksHeld,
     RunningOnOneCpu
<1>11. ThreadInv'
  BY DEF ThreadInv, CpuInv, RunningOnOneCpu, Preemptible, Suspended
<1>12. FamilyInv'
  BY DEF FamilyInv, Live, Forking
<1>13. TickInv'
  BY DEF TickInv, Elapsed, TicksChan
<1>14. (PidUnique /\ PidInv)'
  BY DEF PidUnique, PidInv
<1> QED
  BY <1>2, <1>3, <1>4, <1>5, <1>6, <1>7, <1>8, <1>9, <1>10, <1>11, <1>12,
     <1>13, <1>14

\* The step KillNone preserves the inductive invariant.
LEMMA KillNoneInv ==
  ASSUME IndInv, NEW c \in Cpus, NEW p \in Slots, NEW k \in 0 .. MaxPid, KillNone(c, p, k)
  PROVE  IndInv'
  BY MoveInv DEF KillNone

-----------------------------------------------------------------------------
(* sys_sleep() and sleep() *)

\* The step SleepAcquire preserves the inductive invariant.
LEMMA SleepAcquireInv ==
  ASSUME IndInv, NEW c \in Cpus, NEW p \in Slots, NEW n \in SleepTimes, SleepAcquire(c, p, n)
  PROVE  IndInv'
<1> USE Consts DEF SleepAcquire, Goto, Runs, IndInv, table, cpu
<1>1. state[p] = "RUNNING"
  BY DEF RunningOnOneCpu
<1>2. TypeOK'
  BY DEF States, Live, Points, Preemptible, TicksHeld, TypeOK
<1>3. LockDiscipline'
  BY DEF LockDiscipline, InPtSection, InTicksSection, CpuInv, PtHeld,
     TicksHeld, Preemptible, RunningOnOneCpu, TypeOK
<1>4. ParentAlive'
  BY DEF ParentAlive, Live, FamilyInv
<1>5. NoLostWakeup'
  BY DEF NoLostWakeup
<1>6. KilledWaiterAwake'
  BY DEF KilledWaiterAwake
<1>7. EmbryoOwned'
  BY DEF EmbryoOwned, Forking
<1>8. CpuInv'
  BY DEF CpuInv, NoSlot, Preemptible, Suspended, PtHeld, TicksHeld,
     RunningOnOneCpu
<1>9. ThreadInv'
  BY DEF ThreadInv, CpuInv, RunningOnOneCpu, Preemptible, Suspended
<1>10. FamilyInv'
  BY DEF FamilyInv, Live, Forking
<1>11. TickInv'
  BY DEF TickInv, Elapsed, TicksChan, ThreadInv
<1>12. (RunningOnOneCpu /\ StackMatchesState /\ PidUnique /\ PidInv)'
  BY DEF RunningOnOneCpu, StackMatchesState, PidUnique, PidInv
<1> QED
  BY <1>2, <1>3, <1>4, <1>5, <1>6, <1>7, <1>8, <1>9, <1>10, <1>11, <1>12

\* The step SleepDone preserves the inductive invariant.
LEMMA SleepDoneInv ==
  ASSUME IndInv, NEW c \in Cpus, NEW p \in Slots, SleepDone(c, p)
  PROVE  IndInv'
<1> USE Consts DEF SleepDone, Goto, Runs, IndInv, table, cpu
<1>1. state[p] = "RUNNING"
  BY DEF RunningOnOneCpu
<1>2. TypeOK'
  BY Bounds DEF States, Live, Points, Preemptible, TypeOK
<1>3. LockDiscipline'
  BY DEF LockDiscipline, InPtSection, InTicksSection, CpuInv, PtHeld,
     TicksHeld, Preemptible, TypeOK
<1>4. ParentAlive'
  BY DEF ParentAlive, Live, FamilyInv
<1>5. NoLostWakeup'
  BY DEF NoLostWakeup
<1>6. KilledWaiterAwake'
  BY DEF KilledWaiterAwake
<1>7. EmbryoOwned'
  BY DEF EmbryoOwned, Forking
<1>8. CpuInv'
  BY DEF CpuInv, NoSlot, Preemptible, Suspended, PtHeld, TicksHeld,
     RunningOnOneCpu
<1>9. ThreadInv'
  BY DEF ThreadInv, CpuInv, RunningOnOneCpu, Preemptible, Suspended
<1>10. FamilyInv'
  BY DEF FamilyInv, Live, Forking
<1>11. TickInv'
  BY DEF TickInv, Elapsed, TicksChan, ThreadInv
<1>12. (RunningOnOneCpu /\ StackMatchesState /\ PidUnique /\ PidInv)'
  BY DEF RunningOnOneCpu, StackMatchesState, PidUnique, PidInv
<1> QED
  BY <1>2, <1>3, <1>4, <1>5, <1>6, <1>7, <1>8, <1>9, <1>10, <1>11, <1>12

\* The step SleepCheck preserves the inductive invariant.
LEMMA SleepCheckInv ==
  ASSUME IndInv, NEW c \in Cpus, NEW p \in Slots, SleepCheck(c, p)
  PROVE  IndInv'
<1> USE Consts DEF SleepCheck, Goto, Runs, IndInv, table, locals, cpu, clock
<1>1. state[p] = "RUNNING"
  BY DEF RunningOnOneCpu
<1>2. TypeOK'
  BY DEF States, Live, Points, Preemptible, TicksHeld, TypeOK
<1>3. LockDiscipline'
  BY DEF LockDiscipline, InPtSection, InTicksSection, CpuInv, PtHeld,
     TicksHeld, Preemptible
<1>4. ParentAlive'
  BY DEF ParentAlive, Live, FamilyInv
<1>5. NoLostWakeup'
  BY DEF NoLostWakeup
<1>6. KilledWaiterAwake'
  BY DEF KilledWaiterAwake
<1>7. EmbryoOwned'
  BY DEF EmbryoOwned, Forking
<1>8. CpuInv'
  BY DEF CpuInv, NoSlot, Preemptible, Suspended, PtHeld, TicksHeld,
     RunningOnOneCpu
<1>9. ThreadInv'
  BY DEF ThreadInv, CpuInv, RunningOnOneCpu, Preemptible, Suspended
<1>10. FamilyInv'
  BY DEF FamilyInv, Live, Forking
<1>11. TickInv'
  BY DEF TickInv, Elapsed, TicksChan
<1>12. (RunningOnOneCpu /\ StackMatchesState /\ PidUnique /\ PidInv)'
  BY DEF RunningOnOneCpu, StackMatchesState, PidUnique, PidInv
<1> QED
  BY <1>2, <1>3, <1>4, <1>5, <1>6, <1>7, <1>8, <1>9, <1>10, <1>11, <1>12

\* The step SleepSwitch preserves the inductive invariant.
LEMMA SleepSwitchInv ==
  ASSUME IndInv, NEW c \in Cpus, NEW p \in Slots, SleepSwitch(c, p)
  PROVE  IndInv'
<1> USE Consts DEF SleepSwitch, Goto, Runs, SwitchOut, IndInv, locals
<1>1. state[p] = "RUNNING"
  BY DEF RunningOnOneCpu
<1>2. TypeOK'
  BY Bounds DEF States, Live, Points, Preemptible, Suspended, TypeOK
<1>3. LockDiscipline'
  BY DEF LockDiscipline, InPtSection, InTicksSection, CpuInv, PtHeld,
     TicksHeld, Preemptible, TypeOK
<1>4. RunningOnOneCpu'
  BY DEF RunningOnOneCpu, TypeOK
<1>5. ParentAlive'
  BY <1>1 DEF ParentAlive, Live, FamilyInv
<1>6. NoLostWakeup'
  BY DEF NoLostWakeup
<1>7. KilledWaiterAwake'
  BY DEF KilledWaiterAwake
<1>8. EmbryoOwned'
  BY DEF EmbryoOwned, Forking, ThreadInv
<1>9. StackMatchesState'
  BY <1>1 DEF StackMatchesState, Live
<1>10. CpuInv'
  BY DEF CpuInv, NoSlot, Preemptible, Suspended, PtHeld, TicksHeld,
     RunningOnOneCpu, TypeOK
<1>11. ThreadInv'
  BY DEF ThreadInv, CpuInv, RunningOnOneCpu, Preemptible, Suspended, TypeOK
<1>12. FamilyInv'
  BY DEF FamilyInv, Live, Forking
<1>13. TickInv'
  BY DEF TickInv, Elapsed, TicksChan
<1>14. (PidUnique /\ PidInv)'
  BY DEF PidUnique, PidInv
<1> QED
  BY <1>2, <1>3, <1>4, <1>5, <1>6, <1>7, <1>8, <1>9, <1>10, <1>11, <1>12,
     <1>13, <1>14

\* The step SleepReacquire preserves the inductive invariant.
LEMMA SleepReacquireInv ==
  ASSUME IndInv, NEW c \in Cpus, NEW p \in Slots, SleepReacquire(c, p)
  PROVE  IndInv'
<1> USE Consts DEF SleepReacquire, Goto, Runs, IndInv, table, locals, cpu
<1>1. state[p] = "RUNNING"
  BY DEF RunningOnOneCpu
<1>2. TypeOK'
  BY DEF States, Live, Points, Preemptible, TicksHeld, TypeOK
<1>3. LockDiscipline'
  BY DEF LockDiscipline, InPtSection, InTicksSection, CpuInv, PtHeld,
     TicksHeld, Preemptible, RunningOnOneCpu, TypeOK
<1>4. ParentAlive'
  BY DEF ParentAlive, Live, FamilyInv
<1>5. NoLostWakeup'
  BY DEF NoLostWakeup
<1>6. KilledWaiterAwake'
  BY DEF KilledWaiterAwake
<1>7. EmbryoOwned'
  BY DEF EmbryoOwned, Forking
<1>8. CpuInv'
  BY DEF CpuInv, NoSlot, Preemptible, Suspended, PtHeld, TicksHeld,
     RunningOnOneCpu
<1>9. ThreadInv'
  BY DEF ThreadInv, CpuInv, RunningOnOneCpu, Preemptible, Suspended
<1>10. FamilyInv'
  BY DEF FamilyInv, Live, Forking
<1>11. TickInv'
  BY DEF TickInv, Elapsed, TicksChan
<1>12. (RunningOnOneCpu /\ StackMatchesState /\ PidUnique /\ PidInv)'
  BY DEF RunningOnOneCpu, StackMatchesState, PidUnique, PidInv
<1> QED
  BY <1>2, <1>3, <1>4, <1>5, <1>6, <1>7, <1>8, <1>9, <1>10, <1>11, <1>12

-----------------------------------------------------------------------------
(* Every step preserves the invariant, and the theorems *)

\* The inductive invariant is preserved by every step of the kernel, of the
\* timer and of the programs.
LEMMA NextInv == IndInv /\ [Next]_vars => IndInv'
<1> SUFFICES ASSUME IndInv, [Next]_vars PROVE IndInv'
  OBVIOUS
<1>1. ASSUME NEW c \in Cpus, SchedStep(c) PROVE IndInv'
  BY <1>1, SchedAcquireInv, SchedReleaseInv, TimerWakeInv, TimerIdleInv,
     SchedRunInv, ResumeInv, TimerKilledInv, YieldInv DEF SchedStep
<1>2. ASSUME NEW c \in Cpus, NEW p \in Slots, ThreadStep(c, p) PROVE IndInv'
  BY <1>2, TrapReturnInv, AllocProcInv, AllocProcFullInv, AllocStackInv,
     ForkCopyInv, ForkReadyInv, SysExitInv, ExitInitInv, ExitAcquireInv,
     ExitSchedInv, WaitAcquireInv, WaitReapInv, WaitFailInv, WaitSleepInv,
     KillInv, KillNoneInv, SleepAcquireInv, SleepDoneInv, SleepCheckInv,
     SleepSwitchInv, SleepReacquireInv DEF ThreadStep
<1>3. ASSUME NEW c \in Cpus, NEW p \in Slots, UserStep(c, p) PROVE IndInv'
  BY <1>3, TrapEnterInv, FaultInv DEF UserStep
<1>4. ASSUME NEW c \in Cpus, TimerIrq(c) PROVE IndInv'
  BY <1>4, TimerIrqInv
<1>5. CASE UNCHANGED vars
  BY <1>5 DEF vars, table, thread, locals, cpu, clock, IndInv, TypeOK,
     LockDiscipline, InPtSection, InTicksSection, RunningOnOneCpu, ParentAlive,
     NoLostWakeup, KilledWaiterAwake, EmbryoOwned, StackMatchesState,
     PidUnique, CpuInv, ThreadInv, FamilyInv, PidInv, TickInv, Elapsed
<1> QED
  BY <1>1, <1>2, <1>3, <1>4, <1>5 DEF Next, KernelStep, Irq, Halted

\* The inductive invariant holds in every reachable state.
THEOREM Invariance == Spec => []IndInv
  BY InitInv, NextInv, PTL DEF Spec

\* Type correctness of the process table.
THEOREM TypeCorrect == Spec => []TypeOK
<1>1. IndInv => TypeOK
  BY DEF IndInv
<1> QED
  BY <1>1, Invariance, PTL

\* ptable.lock and tickslock are held exactly inside their critical sections,
\* across every context switch, on any number of CPUs.
THEOREM Locking == Spec => []LockDiscipline
<1>1. IndInv => LockDiscipline
  BY DEF IndInv
<1> QED
  BY <1>1, Invariance, PTL

\* No process runs on two CPUs.
THEOREM Exclusion == Spec => []RunningOnOneCpu
<1>1. IndInv => RunningOnOneCpu
  BY DEF IndInv
<1> QED
  BY <1>1, Invariance, PTL

\* exit() and fork() leave no process without a parent that can reap it.
THEOREM Parents == Spec => []ParentAlive
<1>1. IndInv => ParentAlive
  BY DEF IndInv
<1> QED
  BY <1>1, Invariance, PTL

\* wait() loses neither the wakeup of an exiting child nor that of kill().
THEOREM Wakeups == Spec => [](NoLostWakeup /\ KilledWaiterAwake)
<1>1. IndInv => NoLostWakeup /\ KilledWaiterAwake
  BY DEF IndInv
<1> QED
  BY <1>1, Invariance, PTL

\* fork() owns the slot it builds outside the lock, every error path gives it
\* back, and pids and kernel stacks match.
THEOREM SlotsConsistent == Spec => [](EmbryoOwned /\ StackMatchesState /\ PidUnique)
<1>1. IndInv => EmbryoOwned /\ StackMatchesState /\ PidUnique
  BY DEF IndInv
<1> QED
  BY <1>1, Invariance, PTL

\* No process in sys_sleep() misses the tick that it waits for.
THEOREM Sleepers == Spec => []SleeperNotOverdue
<1>1. IndInv => SleeperNotOverdue
  BY Consts DEF IndInv, SleeperNotOverdue, TickInv, LockDiscipline,
     InTicksSection
<1> QED
  BY <1>1, Invariance, PTL

\* A step of scheduler(), of the timer or of a thread changes the state of
\* every slot along an arrow of the life cycle.
LEMMA LifeCycleNext == IndInv /\ [Next]_vars => [\A p \in Slots : LifeCycleStep(p)]_vars
<1> SUFFICES ASSUME IndInv, Next PROVE \A p \in Slots : LifeCycleStep(p)
  OBVIOUS
<1> USE DEF LifeCycleStep, IndInv, TypeOK
<1>1. CASE UNCHANGED state
  BY <1>1
<1>2. ASSUME NEW c \in Cpus, SchedStep(c), state' # state
      PROVE  \A p \in Slots : LifeCycleStep(p)
  <2>1. CASE TimerWake(c)
    BY <2>1 DEF TimerWake, Woken
  <2>2. ASSUME NEW p \in Slots, SchedRun(c, p)
        PROVE  \A q \in Slots : LifeCycleStep(q)
    BY <2>2 DEF SchedRun, First
  <2>3. ASSUME NEW p \in Slots, Yield(c, p)
        PROVE  \A q \in Slots : LifeCycleStep(q)
    BY <2>3 DEF Yield
  <2> QED
    BY <1>2, <2>1, <2>2, <2>3 DEF SchedStep, SchedAcquire, SchedRelease,
       TimerIdle, Resume, TimerKilled, table
<1>3. ASSUME NEW c \in Cpus, NEW p \in Slots, ThreadStep(c, p), state' # state
      PROVE  \A q \in Slots : LifeCycleStep(q)
  <2> USE Consts DEF Runs
  <2>1. spc[c] = "run" /\ cproc[c] = p => state[p] = "RUNNING"
    BY DEF RunningOnOneCpu
  <2>2. pc[p] \in Forking => np[p] \in Slots /\ state[np[p]] = "EMBRYO"
    BY DEF FamilyInv, EmbryoOwned
  <2>3. CASE AllocProc(c, p)
    BY <2>3 DEF AllocProc, First
  <2>4. CASE AllocStack(c, p) \/ ForkCopy(c, p) \/ ForkReady(c, p)
    BY <2>2, <2>4 DEF AllocStack, ForkCopy, ForkReady, Abandon, Forking
  <2>5. CASE ExitAcquire(c, p)
    BY <2>5 DEF ExitAcquire, Woken
  <2>6. CASE ExitSched(c, p) \/ WaitSleep(c, p) \/ SleepSwitch(c, p)
    BY <2>1, <2>6 DEF ExitSched, WaitSleep, SleepSwitch
  <2>7. CASE WaitReap(c, p)
    BY <2>1, <2>7 DEF WaitReap, First
  <2>8. ASSUME NEW k \in 0 .. MaxPid, Kill(c, p, k)
        PROVE  \A q \in Slots : LifeCycleStep(q)
    BY <2>8 DEF Kill, KillWakes
  <2> QED
    BY <1>3, <2>3, <2>4, <2>5, <2>6, <2>7, <2>8 DEF ThreadStep, TrapReturn,
       AllocProcFull, SysExit, ExitInit, WaitAcquire, WaitFail, KillNone,
       SleepAcquire, SleepDone, SleepCheck, SleepReacquire, table
<1>4. ASSUME NEW c \in Cpus, NEW p \in Slots, UserStep(c, p)
      PROVE  UNCHANGED state
  BY <1>4 DEF UserStep, TrapEnter, Fault, table
<1>5. ASSUME NEW c \in Cpus, TimerIrq(c)
      PROVE  UNCHANGED state
  BY <1>5 DEF TimerIrq, table
<1>6. CASE Halted
  BY <1>6 DEF Halted, vars, table
<1> QED
  BY <1>2, <1>3, <1>4, <1>5, <1>6 DEF Next, KernelStep, Irq

\* The states of a slot follow the life cycle, and only the parent of a zombie,
\* running in wait(), frees it.
THEOREM LifeCycles == Spec => LifeCycle
  BY Invariance, LifeCycleNext, PTL DEF Spec, LifeCycle

=============================================================================
