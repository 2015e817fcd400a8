---------------------------- MODULE BufferCache -----------------------------
(***************************************************************************)
(* The buffer cache, the sleep locks of its buffers and the disk driver:   *)
(* bio.c, sleeplock.c and ide.c of src/ass5/final_repo.  A step is what a  *)
(* process does under one acquire() of bcache.lock, of a sleep lock's own  *)
(* spin lock or of idelock.  A process has one buffer at a time: it reads  *)
(* a block with bread(), may modify it and either pin it with log_write()  *)
(* or write it with bwrite(), and lets it go with brelse().                *)
(***************************************************************************)
EXTENDS Integers, Sequences, FiniteSets, SequencesExt

CONSTANTS Procs, Blocks,
          MaxWrites,  \* bound: number of writes; each writes a value of its own
          NBUF,       \* buffers (param.h)
          MaxPinned,  \* buffers that the log has pinned at a time, at most
          ReadFails,  \* {FALSE}, or BOOLEAN: what idewait(1) may report
          None

ASSUME CacheAssumption ==
  /\ NBUF \in Nat /\ MaxPinned \in Nat /\ MaxWrites \in Nat /\ ReadFails \subseteq BOOLEAN
  /\ IsFiniteSet(Procs)
  /\ None \notin Blocks \cup Procs \cup 1 .. NBUF

Bufs == 1 .. NBUF
Values == 0 .. MaxWrites

VARIABLES
  blockno, valid, dirty, refcnt, data, \* struct buf, by buffer
  mru,         \* the list of bcache, most recently used first
  holder,      \* of the sleep lock of each buffer: locked and pid
  idequeue,    \* the buffers that wait for the disk, the active one first
  disk,
  pc, want, bp,\* of each process: where it is, the block and the buffer
  panicked,
  writes       \* counter for the bound

bufs == <<blockno, valid, dirty, refcnt, data>>
procs == <<pc, want, bp>>
vars == <<bufs, mru, holder, idequeue, disk, procs, panicked, writes>>

\* binit(): the list is built from the front, so the last buffer comes first.
Init ==
  /\ blockno = [b \in Bufs |-> None]
  /\ valid = [b \in Bufs |-> FALSE]
  /\ dirty = [b \in Bufs |-> FALSE]
  /\ refcnt = [b \in Bufs |-> 0]
  /\ data = [b \in Bufs |-> 0]
  /\ mru = [i \in Bufs |-> NBUF + 1 - i]
  /\ holder = [b \in Bufs |-> None]
  /\ idequeue = <<>>
  /\ disk = [k \in Blocks |-> 0]
  /\ pc = [p \in Procs |-> "idle"]
  /\ want = [p \in Procs |-> None]
  /\ bp = [p \in Procs |-> None]
  /\ panicked = FALSE
  /\ writes = 0

At(p, point) == ~panicked /\ pc[p] = point
Goto(p, point) == pc' = [pc EXCEPT ![p] = point]

\* wakeup(), with the caller going on at a point of its own: who sleeps on
\* buffer b at one point goes on at another.
WakeUp(p, point, b, asleep, awake) ==
  pc' = [q \in Procs |-> IF q = p THEN point
                         ELSE IF bp[q] = b /\ pc[q] = asleep THEN awake ELSE pc[q]]

-----------------------------------------------------------------------------
(* bget() *)

Cached(k) == {b \in Bufs : blockno[b] = k}

\* Mutants: a buffer that is pinned, or one that is referenced, is recycled.
RecyclablePinned == {i \in Bufs : refcnt[mru[i]] = 0}
RecyclableInUse == {i \in Bufs : ~dirty[mru[i]]}

\* The positions in the list of the buffers that bget() may take.
Recyclable == {i \in Bufs : refcnt[mru[i]] = 0 /\ ~dirty[mru[i]]}

BgetHit(p, k) ==
  /\ At(p, "idle")
  /\ \E b \in Cached(k) :
       /\ refcnt' = [refcnt EXCEPT ![b] = @ + 1]
       /\ bp' = [bp EXCEPT ![p] = b]
  /\ want' = [want EXCEPT ![p] = k]
  /\ Goto(p, "acquire")
  /\ UNCHANGED <<blockno, valid, dirty, data, mru, holder, idequeue, disk, panicked, writes>>

\* The least recently used buffer that may be taken, with its data as it is; or
\* a panic.
BgetRecycle(p, k) ==
  /\ At(p, "idle") /\ Cached(k) = {}
  /\ IF Recyclable = {}
     THEN panicked' = TRUE /\ UNCHANGED <<blockno, valid, dirty, refcnt, procs>>
     ELSE LET b == mru[Max(Recyclable)] IN
          /\ blockno' = [blockno EXCEPT ![b] = k]
          /\ valid' = [valid EXCEPT ![b] = FALSE]
          /\ dirty' = [dirty EXCEPT ![b] = FALSE]
          /\ refcnt' = [refcnt EXCEPT ![b] = 1]
          /\ bp' = [bp EXCEPT ![p] = b] /\ want' = [want EXCEPT ![p] = k]
          /\ Goto(p, "acquire") /\ UNCHANGED panicked
  /\ UNCHANGED <<data, mru, holder, idequeue, disk, writes>>

-----------------------------------------------------------------------------
(* acquiresleep(), and the test of bread() that follows it *)

AcquireSleep(p) ==
  /\ At(p, "acquire")
  /\ IF holder[bp[p]] # None
     THEN Goto(p, "locksleep") /\ UNCHANGED holder
     ELSE /\ holder' = [holder EXCEPT ![bp[p]] = p]
          /\ Goto(p, IF valid[bp[p]] THEN "held" ELSE "readrw")
  /\ UNCHANGED <<bufs, mru, idequeue, disk, want, bp, panicked, writes>>

-----------------------------------------------------------------------------
(* iderw(), and the disk.  A process enters with its buffer locked, at     *)
(* "readrw" from bread() and at "writerw" from bwrite().                   *)

\* The request is appended, and if it is alone idestart() gives it to the disk.
\* The process then sleeps, since the flags ask for a transfer.
IdeRw(p) ==
  /\ At(p, "readrw") \/ At(p, "writerw")
  /\ IF holder[bp[p]] # p \/ (valid[bp[p]] /\ ~dirty[bp[p]])
     THEN panicked' = TRUE /\ UNCHANGED <<idequeue, pc>>
     ELSE /\ idequeue' = Append(idequeue, bp[p])
          /\ Goto(p, IF pc[p] = "readrw" THEN "readwait" ELSE "writewait")
          /\ UNCHANGED panicked
  /\ UNCHANGED <<bufs, mru, holder, disk, want, bp, writes>>

\* wakeup(b): the processes that sleep in iderw() on buffer b.
WakeIde(b) ==
  [q \in Procs |-> IF bp[q] # b THEN pc[q]
                   ELSE CASE pc[q] = "readwait" -> "readwoken"
                          [] pc[q] = "writewait" -> "writewoken"
                          [] OTHER -> pc[q]]

\* ideintr(): the active request is done.  A read that fails leaves the data as
\* it was.  The next request, if there is one, is given to the disk.
IdeIntr(failed) ==
  /\ ~panicked /\ idequeue # <<>>
  /\ LET b == Head(idequeue) IN
       /\ IF dirty[b]
          THEN disk' = [disk EXCEPT ![blockno[b]] = data[b]] /\ UNCHANGED data
          ELSE /\ data' = [data EXCEPT ![b] = IF failed THEN @ ELSE disk[blockno[b]]]
               /\ UNCHANGED disk
       /\ valid' = [valid EXCEPT ![b] = TRUE]
       /\ dirty' = [dirty EXCEPT ![b] = FALSE]
       /\ pc' = WakeIde(b)
  /\ idequeue' = Tail(idequeue)
  /\ UNCHANGED <<blockno, refcnt, mru, holder, want, bp, panicked, writes>>

\* The loop of iderw() looks at the flags again.
IdeDone(p) ==
  /\ At(p, "readwoken") \/ At(p, "writewoken")
  /\ LET reading == pc[p] = "readwoken" IN
       IF valid[bp[p]] /\ ~dirty[bp[p]]
       THEN Goto(p, IF reading THEN "held" ELSE "written")
       ELSE Goto(p, IF reading THEN "readwait" ELSE "writewait")
  /\ UNCHANGED <<bufs, mru, holder, idequeue, disk, want, bp, panicked, writes>>

-----------------------------------------------------------------------------
(* What the holder of a buffer does *)

Pinned == {b \in Bufs : dirty[b]}

\* The holder modifies the data and log_write() pins the buffer: the log has
\* room for MaxPinned blocks, and writes them with bwrite() when it commits.
LogWrite(p) ==
  /\ At(p, "held") /\ writes < MaxWrites
  /\ Cardinality(Pinned \cup {bp[p]}) <= MaxPinned
  /\ data' = [data EXCEPT ![bp[p]] = writes + 1]
  /\ writes' = writes + 1
  /\ dirty' = [dirty EXCEPT ![bp[p]] = TRUE]
  /\ Goto(p, "written")
  /\ UNCHANGED <<blockno, valid, refcnt, mru, holder, idequeue, disk, want, bp, panicked>>

\* The log modifies the data (a block of the log area), or calls bwrite() with
\* what was pinned.
Bwrite(p) ==
  /\ At(p, "held")
  /\ \/ UNCHANGED <<data, writes>>
     \/ /\ writes < MaxWrites
        /\ writes' = writes + 1
        /\ data' = [data EXCEPT ![bp[p]] = writes + 1]
  /\ IF holder[bp[p]] # p
     THEN panicked' = TRUE /\ UNCHANGED <<dirty, pc>>
     ELSE /\ dirty' = [dirty EXCEPT ![bp[p]] = TRUE]
          /\ Goto(p, "writerw") /\ UNCHANGED panicked
  /\ UNCHANGED <<blockno, valid, refcnt, mru, holder, idequeue, disk, want, bp>>

\* Mutant: nobody is woken.
ReleaseSleepSilent(p) ==
  /\ At(p, "held") \/ At(p, "written")
  /\ holder' = [holder EXCEPT ![bp[p]] = None]
  /\ Goto(p, "unref")
  /\ UNCHANGED <<bufs, mru, idequeue, disk, want, bp, panicked, writes>>

\* brelse(), first the sleep lock ...
ReleaseSleep(p) ==
  /\ At(p, "held") \/ At(p, "written")
  /\ IF holder[bp[p]] # p
     THEN panicked' = TRUE /\ UNCHANGED <<holder, pc>>
     ELSE /\ holder' = [holder EXCEPT ![bp[p]] = None]
          /\ WakeUp(p, "unref", bp[p], "locksleep", "acquire")
          /\ UNCHANGED panicked
  /\ UNCHANGED <<bufs, mru, idequeue, disk, want, bp, writes>>

\* The list with buffer b moved to its front.
ToFront(b) ==
  LET k == CHOOSE i \in Bufs : mru[i] = b
  IN [i \in Bufs |-> IF i = 1 THEN b ELSE IF i <= k THEN mru[i - 1] ELSE mru[i]]

\* ... then the reference.
BrelseUnref(p) ==
  /\ At(p, "unref")
  /\ LET b == bp[p] IN
       /\ refcnt' = [refcnt EXCEPT ![b] = @ - 1]
       /\ mru' = IF refcnt[b] = 1 THEN ToFront(b) ELSE mru
  /\ Goto(p, "idle")
  /\ bp' = [bp EXCEPT ![p] = None]
  /\ want' = [want EXCEPT ![p] = None]
  /\ UNCHANGED <<blockno, valid, dirty, data, holder, idequeue, disk, panicked, writes>>

-----------------------------------------------------------------------------
Step(p) == AcquireSleep(p) \/ IdeRw(p) \/ IdeDone(p) \/ ReleaseSleep(p) \/ BrelseUnref(p)

Next ==
  \/ \E p \in Procs :
       \/ \E k \in Blocks : BgetHit(p, k) \/ BgetRecycle(p, k)
       \/ Step(p)
       \/ LogWrite(p) \/ Bwrite(p)
  \/ \E failed \in ReadFails : IdeIntr(failed)

\* A process in the kernel is scheduled again, and the disk answers.
Fairness ==
  /\ \A p \in Procs : WF_vars(Step(p))
  /\ WF_vars(\E failed \in ReadFails : IdeIntr(failed))

Spec == Init /\ [][Next]_vars /\ Fairness

-----------------------------------------------------------------------------
(* Properties *)

Holding == {"held", "readrw", "readwait", "readwoken", "writerw", "writewait",
            "writewoken", "written"}

TypeOK ==
  /\ blockno \in [Bufs -> Blocks \cup {None}]
  /\ valid \in [Bufs -> BOOLEAN] /\ dirty \in [Bufs -> BOOLEAN]
  /\ refcnt \in [Bufs -> 0 .. Cardinality(Procs)]
  /\ data \in [Bufs -> Values] /\ disk \in [Blocks -> Values]
  /\ mru \in [Bufs -> Bufs] /\ IsInjective(mru)
  /\ holder \in [Bufs -> Procs \cup {None}]
  /\ idequeue \in Seq(Bufs) /\ IsInjective(idequeue)
  /\ pc \in [Procs -> Holding \cup {"idle", "acquire", "locksleep", "unref"}]
  /\ want \in [Procs -> Blocks \cup {None}]
  /\ bp \in [Procs -> Bufs \cup {None}]
  /\ panicked \in BOOLEAN /\ writes \in Values

Waiting == {"readwait", "writewait"}
Writing == {"writerw", "writewait"}

\* A buffer that a process has got in bget() stays the buffer of the block it
\* asked for until brelse() is done, and a block has one buffer: the scan of
\* bget() and its recycling are one critical section, but the sleep lock is
\* taken after it.
BufferStays ==
  /\ \A p \in Procs : bp[p] # None => blockno[bp[p]] = want[p]
  /\ \A a, b \in Bufs : a # b /\ blockno[a] = blockno[b] => blockno[a] = None

\* While the log pins at most MaxPinned buffers and every process has one, bget()
\* finds a buffer: NBUF >= MaxPinned + Cardinality(Procs) is enough.
NeverOut == NBUF >= MaxPinned + Cardinality(Procs) => ~panicked

\* Every buffer is in the list and its reference count counts; its sleep lock is held by
\* the process that has got past acquiresleep(), and by no other.
BuffersCounted ==
  /\ \A b \in Bufs : \E i \in Bufs : mru[i] = b
  /\ \A b \in Bufs : refcnt[b] = Cardinality({p \in Procs : bp[p] = b})
  /\ \A p \in Procs : /\ bp[p] = None <=> pc[p] = "idle"
                      /\ bp[p] = None <=> want[p] = None
  /\ \A b \in Bufs, p \in Procs : holder[b] = p <=> bp[p] = b /\ pc[p] \in Holding

\* The flags of a buffer agree with what its holder is doing: iderw() is never asked for a
\* transfer that there is nothing to do for, and a buffer that is handed out has its data.
FlagsRight ==
  /\ \A b \in Bufs : (dirty[b] => valid[b]) /\ (valid[b] => blockno[b] # None)
  /\ \A p \in Procs :
       LET b == bp[p] IN
       /\ pc[p] \in {"readrw", "readwait"} => ~valid[b]
       /\ pc[p] \in {"held", "written"} \cup Writing => valid[b]
       /\ pc[p] \in Writing => dirty[b]
       /\ pc[p] \in {"readwoken", "writewoken"} => valid[b] /\ ~dirty[b]

\* Who sleeps will be woken: the queue of the disk is the buffers that processes sleep on
\* in iderw(), and a buffer that a process sleeps on in acquiresleep() has a holder.
SleepersExpected ==
  /\ \A b \in Bufs : b \in Range(idequeue) <=> \E p \in Procs : bp[p] = b /\ pc[p] \in Waiting
  /\ \A p \in Procs : pc[p] = "locksleep" => holder[bp[p]] # None

\* The dirty buffers that nobody is writing: those that the log has pinned.
LeftDirty == {b \in Bufs : dirty[b] /\ \A p \in Procs : bp[p] = b => pc[p] \notin Writing}

\* Buffers are private to the block they were got for, bget() does not panic, and each
\* buffer is in the state that its users believe it to be in.
BuffersSound ==
  /\ TypeOK /\ BufferStays /\ NeverOut /\ BuffersCounted /\ FlagsRight /\ SleepersExpected
  /\ Cardinality(LeftDirty) <= MaxPinned

\* A buffer that is valid and not dirty has what the disk has: it may be recycled.
CleanCopies ==
  \A b \in Bufs : valid[b] /\ ~dirty[b] => data[b] = disk[blockno[b]]

\* What a block holds: its valid buffer, else the disk.
Store ==
  [k \in Blocks |-> IF \E b \in Bufs : blockno[b] = k /\ valid[b]
                    THEN data[CHOOSE b \in Bufs : blockno[b] = k /\ valid[b]]
                    ELSE disk[k]]

Has(p) == pc[p] \in {"held", "writerw", "writewait", "writewoken", "written"}

Abstract == INSTANCE BlockStore WITH
  store <- Store,
  holds <- [p \in Procs |-> IF Has(p) THEN want[p] ELSE None],
  sees <- [p \in Procs |-> IF Has(p) THEN data[bp[p]] ELSE None]

\* Recycling, pinning, late writes and the order of the disk's queue are hidden:
\* the cache implements BlockStore.
StoreImplemented == Abstract!Spec

\* A process that sleeps in iderw() or in acquiresleep() is woken: the disk's
\* queue reaches its request, and every holder lets its buffer go.
SleeperWoken ==
  \A p \in Procs : pc[p] \in {"readwait", "writewait", "locksleep"}
                     ~> pc[p] \in {"readwoken", "writewoken", "acquire"}
=============================================================================
