-------------------------------- MODULE Log ---------------------------------
(***************************************************************************)
(* The write-ahead log of the file system, src/ass5/final_repo/log.c, and  *)
(* the crashes it is for.  A disk write (bwrite) is one step, since a      *)
(* block is one sector; a crash may come between any two.  File system     *)
(* calls are abstracted to what they do to the log: begin_op(), any number *)
(* of log_write()s of at most MAXOPBLOCKS different blocks, end_op().      *)
(*                                                                         *)
(* The buffer cache is abstracted to the latest contents of each block: a  *)
(* logged block is B_DIRTY and is not evicted, and any other block is read *)
(* back as it was written.  Two calls that write the same block are kept   *)
(* apart by the sleep lock of its buffer.                                  *)
(***************************************************************************)
EXTENDS Integers, Sequences, FiniteSets, SequencesExt

CONSTANTS Procs,        \* processes that make file system calls
          Blocks,       \* home blocks on the disk
          MAXOPBLOCKS,  \* blocks that one call may write (param.h)
          NLOG,         \* log.size: blocks of the log area, header included
          InodeBlock,   \* the block behind the log area: the first one of inodes
          MaxOps,       \* bound: number of calls
          MaxCrashes    \* bound: number of crashes

LOGSIZE == MAXOPBLOCKS * 3

ASSUME LogAssumption ==
  /\ MAXOPBLOCKS \in Nat \ {0} /\ MaxOps \in Nat /\ MaxCrashes \in Nat
  /\ NLOG \in Nat /\ NLOG >= LOGSIZE   \* mkfs makes them equal
  /\ IsFiniteSet(Procs)
  /\ 0 \notin Blocks   \* block 0 is the boot block
  /\ InodeBlock \in Blocks

VARIABLES
  home,        \* disk: the home blocks
  logged,      \* disk: the blocks of the log area behind its header, by position
  header,      \* disk: the block numbers in the log header
  cache,       \* memory: the contents of each block
  lh,          \* memory: log.lh, the block numbers of this transaction
  outstanding, \* log.outstanding
  committing,  \* log.committing
  pc,          \* where each process is
  blk,         \* the block that a process is about to log
  wrote,       \* the blocks that the call of a process has written
  tail,        \* the loop variable of write_log() and install_trans()
  mode,        \* "up", or where initlog() is after a reboot
  panicked,
  ops, crashes \* counters for the bounds; ops also gives each call its value

disks == <<home, logged, header>>
calls == <<pc, blk, wrote>>
counts == <<ops, crashes>>
vars == <<disks, cache, lh, outstanding, committing, calls, tail, mode, panicked, counts>>

NoBlock == 0
Values == 0 .. MaxOps
LogArea == 1 .. NLOG - 1
InOp == {"op", "append"}
Committing == {"write_log", "write_head", "install", "clear", "release"}

Init ==
  /\ home = [b \in Blocks |-> 0]
  /\ logged = [i \in LogArea |-> 0]
  /\ header = <<>>
  /\ cache = home
  /\ lh = <<>>
  /\ outstanding = 0
  /\ committing = FALSE
  /\ pc = [p \in Procs |-> "idle"]
  /\ blk = [p \in Procs |-> NoBlock]
  /\ wrote = [p \in Procs |-> {}]
  /\ tail = 1
  /\ mode = "up"
  /\ panicked = FALSE
  /\ ops = 0
  /\ crashes = 0

At(p, point) == mode = "up" /\ ~panicked /\ pc[p] = point
Goto(p, point) == pc' = [pc EXCEPT ![p] = point]

\* wakeup(&log), with the caller going on at a point of its own.
WakeAll(p, point) ==
  pc' = [q \in Procs |-> IF q = p THEN point
                         ELSE IF pc[q] = "asleep" THEN "begin" ELSE pc[q]]

-----------------------------------------------------------------------------
(* begin_op() *)

\* A process makes a file system call.
Call(p) ==
  /\ At(p, "idle") /\ ops < MaxOps
  /\ Goto(p, "begin")
  /\ UNCHANGED <<disks, cache, lh, outstanding, committing, blk, wrote, tail, mode,
                 panicked, counts>>

\* Mutant: a call begins while a commit is under way.
MustWaitSpace == Len(lh) + (outstanding + 1) * MAXOPBLOCKS > LOGSIZE
\* The conditions under which begin_op() sleeps.
MustWait == committing \/ Len(lh) + (outstanding + 1) * MAXOPBLOCKS > LOGSIZE

BeginSleep(p) ==
  /\ At(p, "begin") /\ MustWait
  /\ Goto(p, "asleep")
  /\ UNCHANGED <<disks, cache, lh, outstanding, committing, blk, wrote, tail, mode,
                 panicked, counts>>

BeginOp(p) ==
  /\ At(p, "begin") /\ ~MustWait /\ ops < MaxOps
  /\ outstanding' = outstanding + 1
  /\ ops' = ops + 1
  /\ Goto(p, "op")
  /\ UNCHANGED <<disks, cache, lh, committing, blk, wrote, tail, mode, panicked, crashes>>

-----------------------------------------------------------------------------
(* log_write() *)

\* The call has modified the locked buffer of block b, and log_write() looks at
\* the length of the transaction, without log.lock.
LogWrite(p, b) ==
  /\ At(p, "op")
  /\ Cardinality(wrote[p] \cup {b}) <= MAXOPBLOCKS
  /\ \A q \in Procs : blk[q] # b
  /\ cache' = [cache EXCEPT ![b] = ops]
  /\ wrote' = [wrote EXCEPT ![p] = @ \cup {b}]
  /\ IF Len(lh) >= LOGSIZE \/ Len(lh) >= NLOG - 1 \/ outstanding < 1
     THEN panicked' = TRUE /\ UNCHANGED <<pc, blk>>
     ELSE Goto(p, "append") /\ blk' = [blk EXCEPT ![p] = b] /\ UNCHANGED panicked
  /\ UNCHANGED <<disks, lh, outstanding, committing, tail, mode, counts>>

\* The transaction with block b: absorbed, or appended.
Absorb(b) == IF \E i \in DOMAIN lh : lh[i] = b THEN lh ELSE Append(lh, b)

LogAppend(p) ==
  /\ At(p, "append")
  /\ lh' = Absorb(blk[p])
  /\ blk' = [blk EXCEPT ![p] = NoBlock]
  /\ Goto(p, "op")
  /\ UNCHANGED <<disks, cache, outstanding, committing, wrote, tail, mode, panicked,
                 counts>>

-----------------------------------------------------------------------------
(* end_op() and commit() *)

EndOp(p) ==
  /\ At(p, "op")
  /\ outstanding' = outstanding - 1
  /\ wrote' = [wrote EXCEPT ![p] = {}]
  /\ IF committing
     THEN panicked' = TRUE /\ UNCHANGED <<pc, committing, tail>>
     ELSE /\ IF outstanding = 1
             THEN /\ committing' = TRUE
                  /\ tail' = 1
                  /\ Goto(p, IF lh = <<>> THEN "release" ELSE "write_log")
             ELSE WakeAll(p, "idle") /\ UNCHANGED <<committing, tail>>
          /\ UNCHANGED panicked
  /\ UNCHANGED <<disks, cache, lh, blk, mode, counts>>

\* One block of write_log(): from the cache to log.start+tail, which for the last
\* position of a transaction of NLOG blocks is InodeBlock; to log InodeBlock there, the
\* process waits for ever for the buffer that it holds itself.
WriteLog(p) ==
  /\ At(p, "write_log")
  /\ IF tail \in LogArea
     THEN /\ logged' = [logged EXCEPT ![tail] = cache[lh[tail]]]
          /\ UNCHANGED <<home, cache>>
     ELSE /\ lh[tail] # InodeBlock
          /\ home' = [home EXCEPT ![InodeBlock] = cache[lh[tail]]]
          /\ cache' = [cache EXCEPT ![InodeBlock] = cache[lh[tail]]]
          /\ UNCHANGED logged
  /\ IF tail < Len(lh) THEN tail' = tail + 1 /\ UNCHANGED pc
                       ELSE tail' = 1 /\ Goto(p, "write_head")
  /\ UNCHANGED <<header, lh, outstanding, committing, blk, wrote, mode, panicked, counts>>

\* write_head(): the transaction commits.
WriteHead(p) ==
  /\ At(p, "write_head")
  /\ header' = lh
  /\ Goto(p, "install")
  /\ UNCHANGED <<home, logged, cache, lh, outstanding, committing, blk, wrote, tail,
                 mode, panicked, counts>>

\* The block at log.start+t.
LogBlock(t) == IF t \in LogArea THEN logged[t] ELSE home[InodeBlock]

\* One block of install_trans(): from the log area to its home.
Install == home' = [home EXCEPT ![lh[tail]] = LogBlock(tail)]

InstallTrans(p) ==
  /\ At(p, "install")
  /\ Install
  /\ cache' = [cache EXCEPT ![lh[tail]] = LogBlock(tail)]
  /\ IF tail < Len(lh) THEN tail' = tail + 1 /\ UNCHANGED pc
                       ELSE tail' = 1 /\ Goto(p, "clear")
  /\ UNCHANGED <<logged, header, lh, outstanding, committing, blk, wrote, mode,
                 panicked, counts>>

\* log.lh.n = 0 and the second write_head().
ClearHead(p) ==
  /\ At(p, "clear")
  /\ lh' = <<>>
  /\ header' = <<>>
  /\ Goto(p, "release")
  /\ UNCHANGED <<home, logged, cache, outstanding, committing, blk, wrote, tail, mode,
                 panicked, counts>>

\* Mutant: the end of a commit wakes nobody.
EndCommitSilent(p) ==
  /\ At(p, "release")
  /\ committing' = FALSE
  /\ Goto(p, "idle")
  /\ UNCHANGED <<disks, cache, lh, outstanding, blk, wrote, tail, mode, panicked, counts>>

\* The end of end_op().
EndCommit(p) ==
  /\ At(p, "release")
  /\ committing' = FALSE
  /\ WakeAll(p, "idle")
  /\ UNCHANGED <<disks, cache, lh, outstanding, blk, wrote, tail, mode, panicked, counts>>

-----------------------------------------------------------------------------
(* A crash, and initlog() with recover_from_log() after the reboot *)

Crash ==
  /\ crashes < MaxCrashes
  /\ crashes' = crashes + 1
  /\ mode' = "read_head"
  /\ cache' = [b \in Blocks |-> 0]
  /\ lh' = <<>>
  /\ outstanding' = 0
  /\ committing' = FALSE
  /\ pc' = [p \in Procs |-> "idle"]
  /\ blk' = [p \in Procs |-> NoBlock]
  /\ wrote' = [p \in Procs |-> {}]
  /\ tail' = 1
  /\ panicked' = FALSE
  /\ UNCHANGED <<disks, ops>>

ReadHead ==
  /\ mode = "read_head"
  /\ lh' = header
  /\ mode' = IF header = <<>> THEN "clear" ELSE "install"
  /\ UNCHANGED <<disks, cache, outstanding, committing, calls, tail, panicked, counts>>

\* Mutant: recovery clears the header and installs nothing.
RecoverNothing ==
  /\ mode = "install"
  /\ tail' = 1
  /\ mode' = "clear"
  /\ UNCHANGED <<disks, cache, lh, outstanding, committing, calls, panicked, counts>>

RecoverInstall ==
  /\ mode = "install"
  /\ Install
  /\ IF tail < Len(lh) THEN tail' = tail + 1 /\ UNCHANGED mode
                       ELSE tail' = 1 /\ mode' = "clear"
  /\ UNCHANGED <<logged, header, cache, lh, outstanding, committing, calls, panicked,
                 counts>>

\* The header is cleared, and the file system reads its blocks from the disk.
RecoverClear ==
  /\ mode = "clear"
  /\ lh' = <<>>
  /\ header' = <<>>
  /\ cache' = home
  /\ mode' = "up"
  /\ UNCHANGED <<home, logged, outstanding, committing, calls, tail, panicked, counts>>

-----------------------------------------------------------------------------
CallStep(p) ==
  \/ BeginSleep(p) \/ BeginOp(p) \/ LogAppend(p) \/ EndOp(p)
  \/ WriteLog(p) \/ WriteHead(p) \/ InstallTrans(p) \/ ClearHead(p) \/ EndCommit(p)

Recover == ReadHead \/ RecoverInstall \/ RecoverClear

\* Calls beyond MaxOps are not made; a machine that has panicked stands still.
Rest ==
  /\ \/ panicked
     \/ mode = "up" /\ ops = MaxOps /\ \A p \in Procs : pc[p] \in {"idle", "begin"}
  /\ UNCHANGED vars

Next ==
  \/ \E p \in Procs : \/ Call(p) \/ CallStep(p)
                      \/ \E b \in Blocks : LogWrite(p, b)
  \/ Crash \/ Recover \/ Rest

Spec == Init /\ [][Next]_vars

\* A process in a call goes on, and its call makes a finite number of
\* log_write()s; recovery goes on.
FairSpec ==
  /\ Spec
  /\ \A p \in Procs : WF_vars(CallStep(p)) /\ SF_vars(EndOp(p))
  /\ WF_vars(Recover)

-----------------------------------------------------------------------------
(* What a crash would leave: the home blocks under the committed log. *)

\* Blocks h after an installation of the blocks l of a log whose header is s; a block at
\* position NLOG is taken from InodeBlock, after all others.
Replay(h, l, s) ==
  LET g == [b \in Blocks |-> IF \E k \in LogArea \cap DOMAIN s : s[k] = b
                              THEN l[CHOOSE k \in LogArea \cap DOMAIN s : s[k] = b]
                              ELSE h[b]]
  IN [b \in Blocks |-> IF NLOG \in DOMAIN s /\ s[NLOG] = b THEN g[InodeBlock] ELSE g[b]]

Recovered == Replay(home, logged, header)

AD == INSTANCE AtomicDisk WITH
        mem <- IF mode = "up" THEN cache ELSE Recovered,
        disk <- Recovered,
        active <- {p \in Procs : pc[p] \in InOp}

(* Properties *)

\* Every variable keeps to its domain.
TypeOK ==
  /\ home \in [Blocks -> Values] /\ cache \in [Blocks -> Values]
  /\ logged \in [LogArea -> Values]
  /\ header \in Seq(Blocks) /\ lh \in Seq(Blocks)
  /\ outstanding \in 0 .. Cardinality(Procs) /\ committing \in BOOLEAN
  /\ pc \in [Procs -> {"idle", "begin", "asleep"} \cup InOp \cup Committing]
  /\ blk \in [Procs -> Blocks \cup {NoBlock}] /\ wrote \in [Procs -> SUBSET Blocks]
  /\ tail \in 1 .. LOGSIZE /\ panicked \in BOOLEAN
  /\ ops \in 0 .. MaxOps /\ crashes \in 0 .. MaxCrashes
  /\ mode \in {"up", "read_head", "install", "clear"}

\* Crash atomicity: whatever a crash interrupts, commit and recovery included,
\* the disk that recovery leaves has every write of a group of complete calls or
\* none, and a group that has committed is never lost.  This needs LogFits.
Atomic == AD!Spec

\* No block that is not in the transaction, and not about to be, differs between
\* cache and home position, also while a commit is under way: the cache may evict it.
CleanBlocks ==
  mode = "up" /\ ~panicked =>
    \A b \in Blocks :
      cache[b] = home[b] \/ b \in Range(lh) \/ \E p \in Procs : blk[p] = b

\* commit() runs only while no call is between begin_op() and end_op().
CommitAlone ==
  \A p \in Procs : pc[p] \in Committing =>
    /\ committing /\ outstanding = 0
    /\ \A q \in Procs : q # p => pc[q] \notin InOp \cup Committing

\* A process that sleeps in begin_op() is not forgotten: a call or a commit that
\* will wake it is under way.
SleeperHasWaker ==
  ~panicked /\ (\E p \in Procs : pc[p] = "asleep") => committing \/ outstanding > 0

\* The transaction fits in the header: log_write() looks at its length without
\* log.lock, so only the reservation of begin_op() keeps two calls from running
\* over the end of log.lh.block.
HeaderFits == Len(lh) <= LOGSIZE

\* Behind the log header there are NLOG-1 blocks, and log_write() panics when a transaction
\* might get larger ("too big a transaction", log.c:218-219).
LogFits == Len(lh) < NLOG

\* At most one process is between the length test of log_write() and log.lock.
OneAppends == \A p, q \in Procs : pc[p] = "append" /\ pc[q] = "append" => p = q

\* What log.outstanding and log.committing count, and what a call has of its own.
CallsCounted ==
  /\ outstanding = Cardinality({p \in Procs : pc[p] \in InOp})
  /\ committing <=> \E p \in Procs : pc[p] \in Committing
  /\ \A p \in Procs :
       /\ IsFiniteSet(wrote[p]) /\ Cardinality(wrote[p]) <= MAXOPBLOCKS
       /\ pc[p] \notin InOp => wrote[p] = {}
       /\ IF pc[p] = "append" THEN blk[p] \in wrote[p] ELSE blk[p] = NoBlock
  /\ mode # "up" => \A p \in Procs : pc[p] = "idle"

\* The blocks that calls in progress may still add to the transaction, one for each
\* that a call has reserved and has not in the log yet.
Spare ==
  {x \in Procs \X (1 .. MAXOPBLOCKS) :
     /\ pc[x[1]] \in InOp
     /\ x[2] > Cardinality(wrote[x[1]] \cap Range(lh))}

\* begin_op() reserves enough: what is spare still fits behind the transaction, and a
\* log without calls is empty.
SpaceReserved ==
  /\ Len(lh) + Cardinality(Spare) <= LOGSIZE
  /\ mode = "up" /\ ~committing /\ outstanding = 0 => lh = <<>>

Installing == mode # "up" \/ \E p \in Procs : pc[p] \in {"install", "clear"}

\* The header on disk: that of the transaction from its commit to the end of its
\* installation, also in recovery, and empty otherwise.
HeaderRight ==
  /\ IsInjective(lh) /\ IsInjective(header) /\ Len(header) <= LOGSIZE
  /\ mode = "read_head" => lh = <<>> /\ tail = 1
  /\ mode # "read_head" => header = IF Installing THEN lh ELSE <<>>

\* How far the blocks of the transaction have got, on their way from the cache over the
\* log area to their home, if the log area has room for them; home and cache agree on what
\* is installed in any case.
BlocksUnderWay ==
  LET Copied(n) == LogFits => \A k \in DOMAIN lh : k < n => logged[k] = cache[lh[k]]
      Installed(n) ==
        \A k \in DOMAIN lh : k < n => ((LogFits => home[lh[k]] = logged[k])
                                       /\ (mode = "up" => home[lh[k]] = cache[lh[k]]))
  IN /\ \A p \in Procs :
          /\ pc[p] = "write_log" => tail <= Len(lh) /\ Copied(tail)
          /\ pc[p] = "write_head" => tail = 1
          /\ pc[p] \in {"write_head", "install", "clear"} => lh # <<>> /\ Copied(Len(lh) + 1)
          /\ pc[p] = "install" => tail <= Len(lh) /\ Installed(tail)
          /\ pc[p] = "clear" => Installed(Len(lh) + 1)
          /\ pc[p] = "release" => lh = <<>>
     /\ mode = "install" => tail <= Len(lh) /\ Installed(tail)
     /\ mode = "clear" => Installed(Len(lh) + 1)

\* The state of the log between any two steps: the cache differs from the disk only
\* where the transaction says so, commits are alone, nobody is forgotten in
\* begin_op(), the header has room for all that calls have reserved, and each
\* block of the transaction is where the commit, or recovery, has brought it.
LogSound ==
  /\ TypeOK /\ CleanBlocks /\ CommitAlone /\ SleeperHasWaker /\ HeaderFits
  /\ CallsCounted /\ SpaceReserved /\ HeaderRight /\ BlocksUnderWay

\* A process that sleeps in begin_op() is woken, unless the machine panics.
SleeperWoken == \A p \in Procs : pc[p] = "asleep" ~> pc[p] # "asleep" \/ panicked
=============================================================================
