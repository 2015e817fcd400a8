-------------------------------- MODULE Parts -------------------------------
(***************************************************************************)
(* Parts of the system that share nothing with each other: the initial     *)
(* state chooses a part, and only that part moves.  The variables hold the *)
(* state of the part that was chosen; its own names for them are on the    *)
(* left of the substitutions, its constants first.  AllParts has more.     *)
(***************************************************************************)
EXTENDS Integers, Sequences, FiniteSets

CONSTANTS
  MemorySlots, MemoryPages, PageUnits, TableLength, UserPages,  \* of Memory
  SegmentEnds, SbrkSizes,
  ConsoleReaders, InputBuf, Wrap, ReadLengths, MaxKeys,         \* of Console
  TickSlots1, TickSlots2, TickCpus2, MaxTicks,                  \* of Times
  CabCount, Riders, PayServers, WaitTime, PayLength,            \* of Cabs
  Chefs1, Students1, Chefs2, Students2, MaxVessels, MaxBatch, MaxCooked,  \* of Biryani
  LockCpus1, LockThreads1, LockCpus2, LockThreads2, MaxFrames   \* of Spinlock

\* There is a first process, and userinit() gets the five pages that it takes.  The index
\* of the ring wraps around at a multiple of its length, and read() of no bytes does not
\* come to consoleread()'s loop.  A table may have no slot and no thread may run, but some
\* CPU takes the timer interrupt, there are a cab, a server, a chef and a slot of pay[]
\* for every passenger.
ASSUME PartsAssumption ==
  /\ MemorySlots \in Nat \ {0} /\ MemoryPages \in Nat /\ MemoryPages >= 5
  /\ PageUnits \in Nat \ {0} /\ TableLength \in Nat \ {0} /\ UserPages \in Nat \ {0}
  /\ SegmentEnds \subseteq Seq(Nat) /\ SbrkSizes \subseteq Int
  /\ InputBuf \in Nat \ {0} /\ Wrap \in Nat /\ Wrap > InputBuf /\ Wrap % InputBuf = 0
  /\ ReadLengths \subseteq Nat \ {0}
  /\ TickSlots1 \in Nat /\ TickSlots2 \in Nat /\ TickCpus2 \in Nat \ {0}
  /\ CabCount \in Nat \ {0} /\ PayServers \in Nat \ {0} /\ WaitTime \in Nat
  /\ Riders \subseteq Nat /\ IsFiniteSet(Riders)
  /\ PayLength \in Nat \ {0} /\ Cardinality(Riders) <= PayLength
  /\ Chefs1 \in Nat \ {0} /\ Students1 \in Nat
  /\ Chefs2 \in Nat \ {0} /\ Students2 \in Nat
  /\ LockCpus1 \in Nat /\ LockThreads1 \in Nat /\ LockCpus2 \in Nat /\ LockThreads2 \in Nat

VARIABLES part, s1, s2, s3, s4, s5, s6, s7, s8, s9, s10, s11, s12, s13, s14, s15, s16,
          s17, s18, s19, s20, s21, s22, s23, s24, s25

from23 == <<s23, s24, s25>>
from17 == <<s17, s18, s19, s20, s21, s22, from23>>
from13 == <<s13, s14, s15, s16, from17>>
from12 == <<s12, from13>>
from9 == <<s9, s10, s11, from12>>
from7 == <<s7, s8, from9>>
from6 == <<s6, from7>>
vars == <<part, s1, s2, s3, s4, s5, from6>>

M == INSTANCE Memory WITH
  NPROC <- MemorySlots, NPages <- MemoryPages, PGSIZE <- PageUnits, NPT <- TableLength,
  KERNPAGES <- UserPages, Programs <- SegmentEnds, Incs <- SbrkSizes,
  free <- s1, data <- s2, state <- s3, space <- s4, sz <- s5, kstack <- s6, new <- s7,
  newsz <- s8, todo <- s9, child <- s10, view <- s11

C == INSTANCE Console WITH
  Readers <- ConsoleReaders, INPUT_BUF <- InputBuf, WORD <- Wrap, Lengths <- ReadLengths,
  buf <- s1, r <- s2, w <- s3, e <- s4, pc <- s5, n <- s6, target <- s7, killed <- s8,
  line <- s9, committed <- s10, results <- s11, keys <- s12

\* Times and Biryani with the numbers of a part.
T(slots, cpus) == INSTANCE Times WITH
  NPROC <- slots, NCPU <- cpus, Sbrk <- TRUE,
  state <- s1, ctime <- s2, rtime <- s3, etime <- s4, ticks <- s5, ptlock <- s6,
  cproc <- s7, cpc <- s8, cstart <- s9, kstart <- s10, hidx <- s11, hval <- s12,
  got <- s13, ran <- s14, waited <- s15, within <- s16

A == INSTANCE Cabs WITH
  N <- CabCount, Passengers <- Riders, K <- PayServers, Wait <- WaitTime, NPay <- PayLength,
  ride <- s1, lock <- s2, payStatus <- s3, payCab <- s4, payReduce <- s5, empty <- s6,
  left <- s7, cabMutex <- s8, payMutex <- s9, serverMutex <- s10, main <- s11, pc <- s12,
  i <- s13, time <- s14, found <- s15, val <- s16, slot <- s17, spc <- s18, si <- s19,
  scab <- s20, sval <- s21, todo <- s22

B(m, n, k) == INSTANCE Biryani WITH
  NChefs <- m, NContainers <- n, NStudents <- k,
  toServe <- s1, toFeed <- s2, r <- s3, p <- s4, cooking <- s5, clock <- s6, load <- s7,
  xlock <- s8, feed <- s9, chefMutex <- s10, studentMutex <- s11, main <- s12, cpc <- s13,
  cr <- s14, cp <- s15, cval <- s16, xpc <- s17, xi <- s18, xval <- s19, can <- s20,
  num <- s21, spc <- s22, si <- s23, sval <- s24, cooked <- s25

\* Once with more CPUs than threads, once with more threads than CPUs.
S1 == INSTANCE Spinlock WITH
  NCPU <- LockCpus1, NThreads <- LockThreads1,
  locked <- s1, owner <- s2, ncli <- s3, intena <- s4, flag <- s5, running <- s6,
  stack <- s7, panic <- s8

S2 == INSTANCE Spinlock WITH
  NCPU <- LockCpus2, NThreads <- LockThreads2,
  locked <- s1, owner <- s2, ncli <- s3, intena <- s4, flag <- s5, running <- s6,
  stack <- s7, panic <- s8

-----------------------------------------------------------------------------
\* The variables that a part does not need.
None23 == s23 = 0 /\ s24 = 0 /\ s25 = 0
None17 == s17 = 0 /\ s18 = 0 /\ s19 = 0 /\ s20 = 0 /\ s21 = 0 /\ s22 = 0 /\ None23
None13 == s13 = 0 /\ s14 = 0 /\ s15 = 0 /\ s16 = 0 /\ None17
None12 == s12 = 0 /\ None13
None9 == s9 = 0 /\ s10 = 0 /\ s11 = 0 /\ None12
None7 == s7 = 0 /\ s8 = 0 /\ None9
None6 == s6 = 0 /\ None7

Init ==
  \/ part = "locks1" /\ S1!Init /\ None9
  \/ part = "locks2" /\ S2!Init /\ None9
  \/ part = "memory" /\ M!Init /\ None12
  \/ part = "console" /\ C!Init /\ None13
  \/ part = "times1" /\ T(TickSlots1, 1)!Init /\ None17
  \/ part = "times2" /\ T(TickSlots2, TickCpus2)!Init /\ None17
  \/ part = "cabs" /\ A!Init /\ None23
  \/ part = "biryani1" /\ B(Chefs1, 1, Students1)!Init
  \/ part = "biryani2" /\ B(Chefs2, 1, Students2)!Init

Next ==
  \/ part = "locks1" /\ S1!Next /\ UNCHANGED <<part, from9>>
  \/ part = "locks2" /\ S2!Next /\ UNCHANGED <<part, from9>>
  \/ part = "memory" /\ M!Next /\ UNCHANGED <<part, from12>>
  \/ part = "console" /\ C!Next /\ UNCHANGED <<part, from13>>
  \/ part = "times1" /\ T(TickSlots1, 1)!Next /\ UNCHANGED <<part, from17>>
  \/ part = "times2" /\ T(TickSlots2, TickCpus2)!Next /\ UNCHANGED <<part, from17>>
  \/ part = "cabs" /\ A!Next /\ UNCHANGED <<part, from23>>
  \/ part = "biryani1" /\ B(Chefs1, 1, Students1)!Next /\ UNCHANGED part
  \/ part = "biryani2" /\ B(Chefs2, 1, Students2)!Next /\ UNCHANGED part

Spec == Init /\ [][Next]_vars

-----------------------------------------------------------------------------
(* Properties: those of the parts, for the part that was chosen *)

\* Wherever fork(), exec() or sbrk() runs out of memory, every physical page is free or
\* in one place, a process finds in its memory what belongs there, and exactly the pages
\* below sz are mapped, so that neither mappages() nor copyuvm() panics.
MemorySound ==
  part = "memory" => M!TypeOK /\ M!PagesOwnedOnce /\ M!MemoryPrivate /\ M!MappedToSize

\* The ring of the console holds exactly what was typed and not read, also when it is full
\* and when its indices wrap around; a full one is committed; and no reader sleeps while
\* there is input for it.
ConsoleSound ==
  part = "console" => C!TypeOK /\ C!InputIntact /\ C!FullCommitted /\ C!SleeperHasReason

\* A ^D is used up only by a read() that returns no bytes.
EofAlone == [][part = "console" => C!EofStep]_vars

\* With one CPU waitx() reports every tick of a child once, and those inside the
\* switchuvm() of growproc() as run time once more; with any number the end stamp of a
\* zombie lies between its creation and now.
TimesSound ==
  /\ part = "times1" => T(TickSlots1, 1)!WaitxExact
  /\ part = "times2" => T(TickSlots2, TickCpus2)!EndStamp

\* The threads of assignment 4 leave nobody behind.  Passengers, of whom one may join the
\* pool ride of another, book a cab alone and pay in slots of their own, and no server
\* leaves before them.  No container leaves the mess before every student has found a
\* slot and, when there is one container, no chef before enough is cooked for everybody.
ThreadsSound ==
  /\ part = "cabs" => A!BookingExclusive /\ A!PaymentsSound
  /\ part = "biryani1" =>
       B(Chefs1, 1, Students1)!NoEarlyLeave /\ B(Chefs1, 1, Students1)!EnoughCooked
  /\ part = "biryani2" =>
       B(Chefs2, 1, Students2)!NoEarlyLeave /\ B(Chefs2, 1, Students2)!EnoughCooked

\* Spinlocks exclude, no CPU spins for a lock of its own, and no panic of acquire(),
\* release(), popcli() or sched() is reached, however CPUs and interrupts interleave.
LocksSafe ==
  /\ part = "locks1" => S1!LocksSafe
  /\ part = "locks2" => S2!LocksSafe

\* A thread finds interrupts as it left them when its last lock is released, on whatever
\* CPU and after any number of sched() calls.
FlagRestored ==
  /\ part = "locks1" => S1!FlagRestored
  /\ part = "locks2" => S2!FlagRestored
=============================================================================
