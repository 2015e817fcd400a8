----------------------------- MODULE LogProofs ------------------------------
(***************************************************************************)
(* Proofs about the write-ahead log, for any processes, blocks, sizes of   *)
(* calls and numbers of crashes.  LogSound of Log is inductive, and under  *)
(* it, while no transaction is longer than the log area, every step of Log *)
(* is a step of AtomicDisk.                                                *)
(***************************************************************************)
EXTENDS Log, TLAPS, FiniteSetTheorems

ActiveCalls == {p \in Procs : pc[p] \in InOp}

\* The size of the log, and that it holds three calls.
LEMMA Sizes ==
  /\ LOGSIZE \in Nat /\ LOGSIZE >= 1 /\ LOGSIZE = MAXOPBLOCKS * 3
  /\ MAXOPBLOCKS \in Nat /\ MAXOPBLOCKS >= 1
  /\ NoBlock \notin Blocks /\ InodeBlock \in Blocks
  /\ NLOG \in Nat /\ NLOG >= LOGSIZE /\ LogArea = 1 .. NLOG - 1
  BY LogAssumption DEF LOGSIZE, NoBlock, LogArea

\* What processes of a set can reserve is finite, and bounded by their number.
LEMMA Reserve ==
  ASSUME NEW A \in SUBSET Procs, NEW S \in SUBSET (A \X (1 .. MAXOPBLOCKS))
  PROVE  /\ IsFiniteSet(A) /\ Cardinality(A) \in 0 .. Cardinality(Procs)
         /\ IsFiniteSet(S) /\ Cardinality(S) \in Nat
         /\ Cardinality(S) <= Cardinality(A) * MAXOPBLOCKS
<1>1. IsFiniteSet(A) /\ Cardinality(A) <= Cardinality(Procs)
  BY LogAssumption, FS_Subset
<1>2. IsFiniteSet(1 .. MAXOPBLOCKS) /\ Cardinality(1 .. MAXOPBLOCKS) = MAXOPBLOCKS
  BY Sizes, FS_Interval
<1>3. /\ IsFiniteSet(A \X (1 .. MAXOPBLOCKS))
      /\ Cardinality(A \X (1 .. MAXOPBLOCKS)) = Cardinality(A) * MAXOPBLOCKS
  BY <1>1, <1>2, FS_Product
<1>4. IsFiniteSet(S) /\ Cardinality(S) <= Cardinality(A) * MAXOPBLOCKS
  BY <1>3, FS_Subset
<1>5. Cardinality(A) \in Nat /\ Cardinality(Procs) \in Nat /\ Cardinality(S) \in Nat
  BY <1>1, <1>4, LogAssumption, FS_CardinalityType
<1> QED
  BY <1>1, <1>4, <1>5

\* The calls in progress and what is spare, in a sound state.
LEMMA CallFacts ==
  ASSUME LogSound
  PROVE  /\ IsFiniteSet(ActiveCalls) /\ outstanding = Cardinality(ActiveCalls)
         /\ outstanding \in Nat
         /\ IsFiniteSet(Spare) /\ Cardinality(Spare) \in Nat
         /\ Cardinality(Spare) <= outstanding * MAXOPBLOCKS
         /\ Len(lh) \in Nat
<1>1. ActiveCalls \in SUBSET Procs /\ Spare \in SUBSET (ActiveCalls \X (1 .. MAXOPBLOCKS))
  BY DEF ActiveCalls, Spare
<1>2. outstanding = Cardinality(ActiveCalls)
  BY DEF LogSound, CallsCounted, ActiveCalls
<1>3. Len(lh) \in Nat
  BY DEF LogSound, TypeOK
<1> QED
  BY <1>1, <1>2, <1>3, Reserve

\* While a process commits, no call is in progress and nothing is spare.
LEMMA CommitFacts ==
  ASSUME LogSound, NEW p \in Procs, pc[p] \in Committing
  PROVE  /\ mode = "up" /\ committing /\ outstanding = 0
         /\ \A q \in Procs : q # p => pc[q] \in {"idle", "begin", "asleep"}
         /\ \A q \in Procs : wrote[q] = {} /\ blk[q] = NoBlock
         /\ ActiveCalls = {} /\ Spare = {}
<1>1. mode = "up"
  BY DEF LogSound, CallsCounted, Committing, TypeOK
<1>2. committing /\ outstanding = 0
  BY DEF LogSound, CommitAlone
<1>3. \A q \in Procs : q # p => pc[q] \in {"idle", "begin", "asleep"}
  BY DEF LogSound, CommitAlone, TypeOK
<1>4. \A q \in Procs : pc[q] \notin InOp
  BY <1>3 DEF InOp, Committing
<1>5. \A q \in Procs : wrote[q] = {} /\ blk[q] = NoBlock
  BY <1>4 DEF LogSound, CallsCounted, InOp
<1>6. ActiveCalls = {} /\ Spare = {}
  BY <1>4 DEF ActiveCalls, Spare
<1> QED
  BY <1>1, <1>2, <1>3, <1>5, <1>6

\* A step that only moves a process to begin_op() or to sleep there keeps the log sound.
LEMMA MoveSound ==
  ASSUME LogSound, NEW p \in Procs, mode = "up", ~panicked, pc[p] \in {"idle", "begin"},
         NEW point \in {"begin", "asleep"}, Goto(p, point), point = "asleep" => MustWait,
         UNCHANGED <<disks, cache, lh, outstanding, committing, blk, wrote, tail, mode,
                     panicked, counts>>
  PROVE  LogSound'
<1> USE DEF Goto, LogSound, disks, counts
<1>1. TypeOK'
  BY DEF TypeOK
<1>2. ActiveCalls' = ActiveCalls
  BY DEF ActiveCalls, TypeOK, InOp
<1>3. Spare' = Spare
  BY DEF Spare, TypeOK, InOp
<1>4. \A q \in Procs : q # p => pc'[q] = pc[q]
  BY DEF TypeOK
<1>5. pc'[p] = point
  BY DEF TypeOK
<1>6. CleanBlocks' /\ CommitAlone' /\ HeaderFits'
  BY <1>4, <1>5 DEF CleanBlocks, CommitAlone, HeaderFits, InOp, Committing
<1>7. SleeperHasWaker'
  <2>1. CASE committing \/ outstanding > 0
    BY <2>1 DEF SleeperHasWaker
  <2>2. CASE ~committing /\ outstanding = 0
    <3>1. lh = <<>>
      BY <2>2 DEF SpaceReserved
    <3>2. ~MustWait
      BY <3>1, <2>2, Sizes DEF MustWait
    <3> QED
      BY <3>2, <2>2, <1>4, <1>5 DEF SleeperHasWaker
  <2> QED
    BY <2>1, <2>2 DEF TypeOK
<1>8. CallsCounted'
  BY <1>2, <1>4, <1>5 DEF CallsCounted, ActiveCalls, InOp, Committing
<1>9. SpaceReserved' /\ HeaderRight' /\ BlocksUnderWay'
  BY <1>3, <1>4, <1>5 DEF SpaceReserved, HeaderRight, Installing, BlocksUnderWay, LogFits
<1> QED
  BY <1>1, <1>6, <1>7, <1>8, <1>9

\* begin_op() takes room for one more call.
LEMMA BeginOpSound ==
  ASSUME LogSound, NEW p \in Procs, BeginOp(p)
  PROVE  LogSound'
<1> USE DEF Goto, At, BeginOp, LogSound, disks, counts
<1>1. pc'[p] = "op" /\ \A q \in Procs : q # p => pc'[q] = pc[q]
  BY DEF TypeOK
<1>2. p \notin ActiveCalls /\ ActiveCalls' = ActiveCalls \cup {p}
  BY <1>1 DEF ActiveCalls, InOp
<1>3. /\ Cardinality(ActiveCalls') = outstanding + 1
      /\ ActiveCalls' \in SUBSET Procs
      /\ Spare' \in SUBSET (ActiveCalls' \X (1 .. MAXOPBLOCKS))
  <2>1. IsFiniteSet(ActiveCalls) /\ outstanding = Cardinality(ActiveCalls)
    BY CallFacts
  <2>2. Cardinality(ActiveCalls \cup {p}) = Cardinality(ActiveCalls) + 1
    BY <2>1, <1>2, FS_AddElement
  <2>3. ActiveCalls' \in SUBSET Procs /\ Spare' \in SUBSET (ActiveCalls' \X (1 .. MAXOPBLOCKS))
    BY DEF ActiveCalls, Spare
  <2> QED
    BY <2>1, <2>2, <2>3, <1>2
<1>4. /\ Cardinality(Spare') \in Nat /\ Cardinality(Spare') <= (outstanding + 1) * MAXOPBLOCKS
      /\ outstanding + 1 \in 0 .. Cardinality(Procs)
  BY <1>3, Reserve
<1>5. TypeOK'
  BY <1>4, LogAssumption DEF TypeOK, InOp, Committing
<1>6. ~committing /\ \A q \in Procs : pc[q] \notin Committing
  BY DEF MustWait, CallsCounted
<1>7. CleanBlocks' /\ CommitAlone' /\ HeaderFits' /\ SleeperHasWaker'
  BY <1>1, <1>6, CallFacts DEF CleanBlocks, CommitAlone, HeaderFits, SleeperHasWaker, InOp,
     Committing
<1>8. CallsCounted'
  BY <1>1, <1>3, <1>6 DEF CallsCounted, ActiveCalls, InOp, Committing
<1>9. SpaceReserved'
  <2>1. Len(lh) + (outstanding + 1) * MAXOPBLOCKS <= LOGSIZE
    BY CallFacts, Sizes DEF MustWait
  <2>2. (outstanding + 1) * MAXOPBLOCKS \in Nat /\ Len(lh) \in Nat /\ LOGSIZE \in Nat
    BY CallFacts, Sizes
  <2>3. Len(lh) + Cardinality(Spare') <= LOGSIZE
    BY <1>4, <2>1, <2>2
  <2> QED
    BY <2>3, CallFacts DEF SpaceReserved
<1>10. HeaderRight' /\ BlocksUnderWay'
  BY <1>1 DEF HeaderRight, Installing, BlocksUnderWay, LogFits
<1> QED
  BY <1>5, <1>7, <1>8, <1>9, <1>10

\* log_write() of a block that it has changed in the cache.
LEMMA LogWriteSound ==
  ASSUME LogSound, NEW p \in Procs, NEW b \in Blocks, LogWrite(p, b)
  PROVE  LogSound'
<1> USE DEF Goto, At, LogWrite, LogSound, disks, counts
<1>1. pc[p] = "op" /\ mode = "up" /\ ~panicked
  OBVIOUS
<1>2. ActiveCalls' = ActiveCalls
  BY DEF ActiveCalls, InOp, TypeOK
<1>3. \A q \in Procs : q # p => pc'[q] = pc[q] /\ wrote'[q] = wrote[q] /\ blk'[q] = blk[q]
  BY DEF TypeOK
<1>4. wrote'[p] = wrote[p] \cup {b}
  BY DEF TypeOK
<1>5. IsFiniteSet(wrote[p]) /\ IsFiniteSet(wrote'[p])
  <2>1. IsFiniteSet(wrote[p])
    BY DEF CallsCounted
  <2>2. IsFiniteSet(wrote[p] \cup {b})
    BY <2>1, FS_AddElement
  <2> QED
    BY <1>4, <2>1, <2>2
<1>6. \A q \in Procs : Cardinality(wrote[q] \cap Range(lh)) <= Cardinality(wrote'[q] \cap Range(lh))
  <2> TAKE q \in Procs
  <2>1. CASE q = p
    <3>1. IsFiniteSet(wrote'[p] \cap Range(lh))
      BY <1>5, FS_Intersection
    <3>2. wrote[p] \cap Range(lh) \in SUBSET (wrote'[p] \cap Range(lh))
      BY <1>4
    <3> QED
      BY <3>1, <3>2, <2>1, FS_Subset
  <2>2. CASE q # p
    <3>1. IsFiniteSet(wrote[q] \cap Range(lh))
      BY FS_Intersection DEF CallsCounted
    <3> QED
      BY <3>1, <2>2, <1>3, FS_CardinalityType
  <2> QED
    BY <2>1, <2>2
<1>7. \A q \in Procs : /\ Cardinality(wrote[q] \cap Range(lh)) \in Nat
                       /\ Cardinality(wrote'[q] \cap Range(lh)) \in Nat
  <2> TAKE q \in Procs
  <2>1. IsFiniteSet(wrote[q]) /\ IsFiniteSet(wrote'[q])
    BY <1>3, <1>5 DEF CallsCounted
  <2> QED
    BY <2>1, FS_Intersection, FS_CardinalityType
<1>8. Spare' \in SUBSET Spare
  <2> SUFFICES ASSUME NEW x \in Spare' PROVE x \in Spare
    OBVIOUS
  <2>1. /\ x \in Procs \X (1 .. MAXOPBLOCKS) /\ x[1] \in Procs /\ x[2] \in Nat
        /\ x[1] \in ActiveCalls' /\ x[2] > Cardinality(wrote'[x[1]] \cap Range(lh))
    BY DEF Spare, ActiveCalls
  <2>2. x[1] \in ActiveCalls /\ x[2] > Cardinality(wrote[x[1]] \cap Range(lh))
    <3>1. /\ Cardinality(wrote[x[1]] \cap Range(lh)) <= Cardinality(wrote'[x[1]] \cap Range(lh))
          /\ Cardinality(wrote[x[1]] \cap Range(lh)) \in Nat
          /\ Cardinality(wrote'[x[1]] \cap Range(lh)) \in Nat
      BY <1>6, <1>7, <2>1
    <3> QED
      BY <1>2, <2>1, <3>1
  <2> QED
    BY <2>1, <2>2 DEF Spare, ActiveCalls
<1>9. Cardinality(Spare') \in Nat /\ Cardinality(Spare') <= Cardinality(Spare)
  BY <1>8, CallFacts, FS_Subset, FS_CardinalityType
<1>10. TypeOK'
  BY DEF TypeOK, InOp, Committing, Values
<1>11. ~committing /\ \A q \in Procs : pc[q] \notin Committing /\ pc'[q] \notin Committing
  BY <1>1, <1>3 DEF CommitAlone, CallsCounted, InOp, Committing, TypeOK
<1>12. CommitAlone' /\ HeaderFits' /\ SleeperHasWaker'
  BY <1>1, <1>3, <1>11 DEF CommitAlone, HeaderFits, SleeperHasWaker, InOp, Committing, TypeOK
<1>13. CleanBlocks'
  <2> SUFFICES ASSUME ~panicked', NEW d \in Blocks
               PROVE  (cache[d] = home[d] \/ d \in Range(lh) \/ \E q \in Procs : blk[q] = d)'
    BY DEF CleanBlocks
  <2>1. blk'[p] = b /\ blk[p] = NoBlock
    BY <1>1 DEF CallsCounted, TypeOK
  <2>2. CASE d = b
    BY <2>1, <2>2
  <2>3. CASE d # b
    BY <2>1, <2>3, <1>1, <1>3, Sizes DEF CleanBlocks, TypeOK
  <2> QED
    BY <2>2, <2>3
<1>14. CallsCounted'
  <2>1. outstanding' = Cardinality({q \in Procs : pc'[q] \in InOp})
    BY <1>2 DEF CallsCounted, ActiveCalls
  <2>2. committing' <=> \E q \in Procs : pc'[q] \in Committing
    BY <1>11
  <2>3. /\ IsFiniteSet(wrote'[p]) /\ Cardinality(wrote'[p]) <= MAXOPBLOCKS
        /\ pc'[p] \in InOp
        /\ IF pc'[p] = "append" THEN blk'[p] \in wrote'[p] ELSE blk'[p] = NoBlock
    BY <1>1, <1>4, <1>5 DEF CallsCounted, TypeOK, InOp
  <2> QED
    BY <1>1, <1>3, <2>1, <2>2, <2>3 DEF CallsCounted
<1>15. SpaceReserved'
  BY <1>9, CallFacts, Sizes DEF SpaceReserved
<1>16. HeaderRight' /\ BlocksUnderWay'
  BY <1>1, <1>3, <1>11 DEF HeaderRight, Installing, BlocksUnderWay, LogFits, Committing, TypeOK
<1> QED
  BY <1>10, <1>12, <1>13, <1>14, <1>15, <1>16

\* What appending a block does to the blocks of a transaction.
LEMMA RangeAppend ==
  ASSUME NEW s \in Seq(Blocks), NEW b \in Blocks
  PROVE  /\ Append(s, b) \in Seq(Blocks) /\ Len(Append(s, b)) = Len(s) + 1
         /\ Range(Append(s, b)) = Range(s) \cup {b}
         /\ IsInjective(s) /\ b \notin Range(s) => IsInjective(Append(s, b))
<1>1. /\ Append(s, b) \in Seq(Blocks) /\ Len(Append(s, b)) = Len(s) + 1
      /\ DOMAIN s = 1 .. Len(s) /\ DOMAIN Append(s, b) = 1 .. Len(s) + 1 /\ Len(s) \in Nat
      /\ \A k \in 1 .. Len(s) : Append(s, b)[k] = s[k]
      /\ Append(s, b)[Len(s) + 1] = b
  OBVIOUS
<1>2. Range(Append(s, b)) = Range(s) \cup {b}
  <2>1. ASSUME NEW x \in Range(Append(s, b)) PROVE x \in Range(s) \cup {b}
    BY <1>1, <2>1 DEF Range
  <2>2. ASSUME NEW x \in Range(s) \cup {b} PROVE x \in Range(Append(s, b))
    BY <1>1, <2>2 DEF Range
  <2> QED
    BY <2>1, <2>2
<1>3. IsInjective(s) /\ b \notin Range(s) => IsInjective(Append(s, b))
  BY <1>1 DEF IsInjective, Range
<1> QED
  BY <1>1, <1>2, <1>3

\* The end of log_write(): a block is absorbed or appended, and what is appended was
\* reserved.
LEMMA LogAppendSound ==
  ASSUME LogSound, NEW p \in Procs, LogAppend(p)
  PROVE  LogSound'
<1> DEFINE b == blk[p]
           Mine(q) == Cardinality(wrote[q] \cap Range(lh))
           MineNext(q) == Cardinality(wrote[q] \cap Range(lh'))
<1> USE DEF Goto, At, LogAppend, LogSound, disks, counts
<1>1. pc[p] = "append" /\ mode = "up" /\ ~panicked /\ b \in wrote[p] /\ b \in Blocks
  BY DEF CallsCounted, TypeOK
<1>2. /\ pc'[p] = "op" /\ blk'[p] = NoBlock /\ wrote' = wrote
      /\ \A q \in Procs : q # p => pc'[q] = pc[q] /\ blk'[q] = blk[q]
  BY DEF TypeOK
<1>3. ActiveCalls' = ActiveCalls
  BY <1>1, <1>2 DEF ActiveCalls, InOp
<1>4. ~committing /\ \A q \in Procs : pc[q] \notin Committing /\ pc'[q] \notin Committing
  BY <1>1, <1>2 DEF CommitAlone, CallsCounted, InOp, Committing
<1>5. /\ lh \in Seq(Blocks) /\ lh' \in Seq(Blocks)
      /\ Range(lh') = Range(lh) \cup {b} /\ IsInjective(lh')
  <2>1. CASE b \in Range(lh)
    BY <1>1, <2>1 DEF Absorb, Range, HeaderRight, TypeOK
  <2>2. CASE b \notin Range(lh)
    <3>1. lh' = Append(lh, b) /\ lh \in Seq(Blocks) /\ IsInjective(lh)
      BY <2>2 DEF Absorb, Range, TypeOK, HeaderRight
    <3> QED
      BY <1>1, <3>1, <2>2, RangeAppend
  <2> QED
    BY <2>1, <2>2
<1>6. \A q \in Procs : /\ Mine(q) \in Nat /\ MineNext(q) \in Nat /\ Mine(q) <= MineNext(q)
                       /\ MineNext(q) <= MAXOPBLOCKS
  <2> TAKE q \in Procs
  <2>1. IsFiniteSet(wrote[q]) /\ Cardinality(wrote[q]) <= MAXOPBLOCKS
    BY DEF CallsCounted
  <2>2. IsFiniteSet(wrote[q] \cap Range(lh')) /\ MineNext(q) <= Cardinality(wrote[q])
    BY <2>1, FS_Intersection
  <2>3. wrote[q] \cap Range(lh) \in SUBSET (wrote[q] \cap Range(lh'))
    BY <1>5
  <2>4. IsFiniteSet(wrote[q] \cap Range(lh)) /\ Mine(q) <= MineNext(q)
    BY <2>2, <2>3, FS_Subset
  <2>5. Mine(q) \in Nat /\ MineNext(q) \in Nat /\ Cardinality(wrote[q]) \in Nat
    BY <2>1, <2>2, <2>4, FS_CardinalityType
  <2> QED
    BY <2>1, <2>2, <2>4, <2>5, Sizes
<1>7. \A x \in Spare' : x \in Spare /\ x[1] \in Procs /\ x[2] \in Nat /\ x[2] > MineNext(x[1])
  <2> SUFFICES ASSUME NEW x \in Spare'
               PROVE  x \in Spare /\ x[1] \in Procs /\ x[2] \in Nat /\ x[2] > MineNext(x[1])
    OBVIOUS
  <2>1. /\ x \in Procs \X (1 .. MAXOPBLOCKS) /\ x[1] \in Procs /\ x[2] \in Nat
        /\ x[1] \in ActiveCalls' /\ x[2] > MineNext(x[1])
    BY <1>2 DEF Spare, ActiveCalls
  <2>2. x[2] > Mine(x[1])
    <3>1. Mine(x[1]) \in Nat /\ MineNext(x[1]) \in Nat /\ Mine(x[1]) <= MineNext(x[1])
      BY <1>6, <2>1
    <3> QED
      BY <2>1, <3>1
  <2> QED
    BY <1>3, <2>1, <2>2 DEF Spare, ActiveCalls
<1>8. Cardinality(Spare') \in Nat /\ Len(lh') + Cardinality(Spare') <= Len(lh) + Cardinality(Spare)
  <2>1. CASE b \in Range(lh)
    <3>1. lh' = lh
      BY <2>1 DEF Absorb, Range
    <3>2. Spare' \in SUBSET Spare
      BY <1>7
    <3> QED
      BY <3>1, <3>2, CallFacts, FS_Subset, FS_CardinalityType
  <2>2. CASE b \notin Range(lh)
    <3>1. Len(lh') = Len(lh) + 1
      BY <1>1, <1>5, <2>2, RangeAppend DEF Absorb, Range
    <3>2. MineNext(p) = Mine(p) + 1
      <4>1. wrote[p] \cap Range(lh') = (wrote[p] \cap Range(lh)) \cup {b}
        BY <1>1, <1>5
      <4>2. IsFiniteSet(wrote[p] \cap Range(lh))
        BY FS_Intersection DEF CallsCounted
      <4> QED
        BY <4>1, <4>2, <2>2, FS_AddElement
    <3> DEFINE y == <<p, MineNext(p)>>
    <3>3. y \in Spare
      <4>1. Mine(p) \in Nat /\ MineNext(p) \in 1 .. MAXOPBLOCKS /\ MineNext(p) > Mine(p)
        <5>1. Mine(p) \in Nat /\ MineNext(p) \in Nat /\ MineNext(p) <= MAXOPBLOCKS
          BY <1>6
        <5> HIDE DEF Mine, MineNext
        <5> QED
          BY <5>1, <3>2, Sizes
      <4>2. y \in Procs \X (1 .. MAXOPBLOCKS) /\ y[1] = p /\ y[2] = MineNext(p)
        BY <4>1
      <4> QED
        BY <1>1, <4>1, <4>2 DEF Spare, InOp
    <3>4. y \notin Spare'
      BY <1>6, <1>7
    <3> HIDE DEF y
    <3>5. Spare' \in SUBSET (Spare \ {y})
      BY <1>7, <3>4
    <3>6. IsFiniteSet(Spare \ {y}) /\ Cardinality(Spare \ {y}) = Cardinality(Spare) - 1
      BY <3>3, CallFacts, FS_RemoveElement
    <3>7. IsFiniteSet(Spare') /\ Cardinality(Spare') <= Cardinality(Spare) - 1
      BY <3>5, <3>6, FS_Subset
    <3> QED
      BY <3>1, <3>7, CallFacts, FS_CardinalityType
  <2> QED
    BY <2>1, <2>2
<1>9. Len(lh') \in Nat /\ Len(lh') + Cardinality(Spare') <= LOGSIZE
  <2>1. Len(lh) + Cardinality(Spare) <= LOGSIZE
    BY DEF SpaceReserved
  <2>2. Len(lh') \in Nat
    BY <1>5
  <2> QED
    BY <2>1, <2>2, <1>8, CallFacts, Sizes
<1>10. TypeOK'
  BY <1>5 DEF TypeOK, InOp, Committing
<1>11. CommitAlone' /\ HeaderFits' /\ SleeperHasWaker'
  BY <1>2, <1>4, <1>8, <1>9, Sizes DEF CommitAlone, HeaderFits, SleeperHasWaker
<1>12. CleanBlocks'
  BY <1>1, <1>2, <1>5 DEF CleanBlocks
<1>13. CallsCounted'
  <2>1. outstanding' = Cardinality({q \in Procs : pc'[q] \in InOp})
    BY <1>3 DEF CallsCounted, ActiveCalls
  <2> QED
    BY <1>1, <1>2, <1>4, <2>1 DEF CallsCounted, InOp
<1>14. SpaceReserved'
  <2>1. p \in ActiveCalls /\ outstanding # 0
    BY <1>1, CallFacts, FS_EmptySet DEF ActiveCalls, InOp
  <2> QED
    BY <1>9, <2>1 DEF SpaceReserved
<1>15. HeaderRight' /\ BlocksUnderWay'
  BY <1>1, <1>4, <1>5 DEF HeaderRight, Installing, BlocksUnderWay, LogFits, Committing
<1> QED
  BY <1>10, <1>11, <1>12, <1>13, <1>14, <1>15

\* end_op(): the last call becomes the one that commits.
LEMMA EndOpSound ==
  ASSUME LogSound, NEW p \in Procs, EndOp(p)
  PROVE  LogSound'
<1> USE DEF Goto, At, EndOp, LogSound, disks, counts
<1>1. pc[p] = "op" /\ mode = "up" /\ ~panicked /\ p \in ActiveCalls
  BY DEF ActiveCalls, InOp
<1>2. ~committing /\ \A q \in Procs : pc[q] \notin Committing
  BY <1>1 DEF CommitAlone, CallsCounted, InOp, Committing
<1>3. /\ wrote'[p] = {} /\ blk' = blk /\ ~panicked' /\ lh' = lh
      /\ \A q \in Procs : q # p => wrote'[q] = wrote[q]
  BY <1>2 DEF TypeOK
<1>4. /\ pc'[p] \in IF outstanding = 1 THEN {"release", "write_log"} ELSE {"idle"}
      /\ \A q \in Procs : q # p => \/ pc'[q] = pc[q]
                                   \/ outstanding # 1 /\ pc[q] = "asleep" /\ pc'[q] = "begin"
  BY <1>2 DEF TypeOK, WakeAll
<1>5. ActiveCalls' = ActiveCalls \ {p}
  BY <1>4 DEF ActiveCalls, InOp
<1>6. Cardinality(ActiveCalls') = outstanding' /\ outstanding' = outstanding - 1
  <2>1. Cardinality(ActiveCalls \ {p}) = Cardinality(ActiveCalls) - 1
    BY <1>1, CallFacts, FS_RemoveElement
  <2> QED
    BY <2>1, <1>5, CallFacts
<1>7. outstanding \in Nat \ {0}
  BY <1>1, CallFacts, FS_EmptySet
<1>8. Spare' \in SUBSET Spare
  <2> SUFFICES ASSUME NEW x \in Spare' PROVE x \in Spare
    OBVIOUS
  <2>1. x \in Procs \X (1 .. MAXOPBLOCKS) /\ x[1] \in Procs /\ x[1] \in ActiveCalls'
    BY DEF Spare, ActiveCalls
  <2>2. x[1] # p /\ x[1] \in ActiveCalls
    BY <2>1, <1>5
  <2>3. wrote'[x[1]] = wrote[x[1]]
    BY <1>3, <2>1, <2>2
  <2> QED
    BY <1>3, <2>1, <2>2, <2>3 DEF Spare, ActiveCalls
<1>9. Cardinality(Spare') \in Nat /\ Cardinality(Spare') <= Cardinality(Spare)
  BY <1>8, CallFacts, FS_Subset, FS_CardinalityType
<1>10. TypeOK'
  <2>1. pc' \in [Procs -> {"idle", "begin", "asleep"} \cup InOp \cup Committing]
    BY <1>2 DEF TypeOK, WakeAll, Committing
  <2>2. outstanding' \in 0 .. Cardinality(Procs)
    <3>1. Cardinality(Procs) \in Nat
      BY LogAssumption, FS_CardinalityType
    <3> QED
      BY <3>1, <1>6, <1>7 DEF TypeOK
  <2>3. tail' \in 1 .. LOGSIZE /\ committing' \in BOOLEAN
    <3>1. tail' \in {1, tail}
      BY <1>2
    <3>2. tail' \in 1 .. LOGSIZE
      BY <3>1, Sizes DEF TypeOK
    <3>3. committing' \in BOOLEAN
      BY <1>2 DEF TypeOK
    <3> QED
      BY <3>2, <3>3
  <2>4. wrote' \in [Procs -> SUBSET Blocks]
    BY DEF TypeOK
  <2> QED
    BY <1>3, <2>1, <2>2, <2>3, <2>4 DEF TypeOK
<1>11. committing' <=> outstanding = 1
  BY <1>2
<1>12. outstanding = 1 => ActiveCalls' = {}
  <2>1. IsFiniteSet(ActiveCalls')
    BY <1>5, CallFacts, FS_RemoveElement
  <2> QED
    BY <2>1, <1>6, FS_EmptySet
<1>13. CommitAlone'
  <2> SUFFICES ASSUME NEW r \in Procs, pc'[r] \in Committing
               PROVE  /\ committing' /\ outstanding' = 0
                      /\ \A q \in Procs : q # r => pc'[q] \notin InOp \cup Committing
    BY DEF CommitAlone
  <2>1. r = p /\ outstanding = 1
    BY <1>2, <1>4 DEF Committing
  <2>2. \A q \in Procs : q # p => pc'[q] \notin Committing
    BY <1>2, <1>4 DEF Committing
  <2>3. \A q \in Procs : pc'[q] \notin InOp
    BY <2>1, <1>12 DEF ActiveCalls
  <2> QED
    BY <2>1, <2>2, <2>3, <1>6, <1>11
<1>14. SleeperHasWaker' /\ HeaderFits'
  BY <1>6, <1>7, <1>11, <1>3 DEF SleeperHasWaker, HeaderFits
<1>15. CleanBlocks'
  BY <1>1, <1>3 DEF CleanBlocks
<1>16. CallsCounted'
  <2>1. outstanding' = Cardinality({q \in Procs : pc'[q] \in InOp})
    BY <1>6 DEF ActiveCalls
  <2>2. committing' <=> \E q \in Procs : pc'[q] \in Committing
    BY <1>2, <1>4, <1>11 DEF Committing
  <2>3. /\ IsFiniteSet(wrote'[p]) /\ Cardinality(wrote'[p]) <= MAXOPBLOCKS
        /\ pc'[p] # "append" /\ blk'[p] = NoBlock
    BY <1>1, <1>3, <1>4, FS_EmptySet, Sizes DEF CallsCounted
  <2>4. \A q \in Procs : q # p => /\ pc'[q] \in InOp <=> pc[q] \in InOp
                                  /\ pc'[q] = "append" <=> pc[q] = "append"
    BY <1>4 DEF InOp
  <2> QED
    BY <1>1, <1>3, <2>1, <2>2, <2>3, <2>4 DEF CallsCounted
<1>17. SpaceReserved'
  <2>1. Len(lh) + Cardinality(Spare) <= LOGSIZE
    BY DEF SpaceReserved
  <2>2. Len(lh') + Cardinality(Spare') <= LOGSIZE
    BY <2>1, <1>3, <1>9, CallFacts, Sizes
  <2> QED
    BY <2>2, <1>6, <1>7, <1>11 DEF SpaceReserved
<1>18. HeaderRight'
  BY <1>1, <1>2, <1>3, <1>4 DEF HeaderRight, Installing, Committing
<1>19. BlocksUnderWay'
  <2>1. \A q \in Procs : q # p => pc'[q] \notin Committing
    BY <1>2, <1>4 DEF Committing
  <2>2. pc'[p] = "release" => lh' = <<>>
    BY <1>2, <1>4 DEF TypeOK
  <2>3. pc'[p] = "write_log" => tail' = 1 /\ lh # <<>>
    BY <1>2, <1>4 DEF TypeOK
  <2>4. lh # <<>> => 1 <= Len(lh)
    BY DEF TypeOK
  <2>5. lh \in Seq(Blocks)
    BY DEF TypeOK
  <2> QED
    BY <1>1, <1>3, <1>4, <2>1, <2>2, <2>3, <2>4, <2>5 DEF BlocksUnderWay, LogFits, Committing
<1> QED
  BY <1>10, <1>13, <1>14, <1>15, <1>16, <1>17, <1>18, <1>19

\* write_log() copies a block of the cache to the log area.
LEMMA WriteLogSound ==
  ASSUME LogSound, NEW p \in Procs, WriteLog(p)
  PROVE  LogSound'
<1> USE DEF Goto, At, WriteLog, LogSound, disks, counts
<1>1. pc[p] = "write_log" /\ pc[p] \in Committing /\ tail <= Len(lh) /\ lh \in Seq(Blocks)
  BY DEF Committing, BlocksUnderWay, LogFits, TypeOK
<1>2. /\ mode = "up" /\ committing /\ outstanding = 0 /\ ActiveCalls = {} /\ Spare = {}
      /\ \A q \in Procs : q # p => pc[q] \in {"idle", "begin", "asleep"}
      /\ \A q \in Procs : wrote[q] = {} /\ blk[q] = NoBlock
  BY <1>1, CommitFacts
<1>3. /\ pc'[p] \in {"write_log", "write_head"}
      /\ pc'[p] = "write_log" => tail < Len(lh) /\ tail' = tail + 1
      /\ pc'[p] = "write_head" => tail >= Len(lh) /\ tail' = 1
      /\ \A q \in Procs : q # p => pc'[q] = pc[q]
  BY <1>1 DEF TypeOK
<1>4. ActiveCalls' = {} /\ Spare' = {}
  BY <1>2, <1>3 DEF ActiveCalls, Spare, InOp
<1>5. tail \in 1 .. Len(lh) /\ Len(lh) \in Nat /\ Len(lh) <= LOGSIZE /\ lh[tail] \in Blocks
  BY <1>1 DEF HeaderFits, TypeOK
<1>6. TypeOK'
  <2>1. /\ logged' \in [LogArea -> Values]
        /\ home' \in [Blocks -> Values] /\ cache' \in [Blocks -> Values]
    BY <1>5, Sizes DEF TypeOK
  <2>2. tail' \in 1 .. LOGSIZE
    BY <1>1, <1>3, <1>5, Sizes
  <2>3. pc' \in [Procs -> {"idle", "begin", "asleep"} \cup InOp \cup Committing]
    BY DEF TypeOK, Committing
  <2> QED
    BY <2>1, <2>2, <2>3 DEF TypeOK
<1>7. CommitAlone' /\ HeaderFits' /\ SleeperHasWaker' /\ CleanBlocks'
  <2>1. \A b \in Blocks : cache[b] = home[b] => cache'[b] = home'[b]
    BY DEF TypeOK
  <2> QED
    BY <1>2, <1>3, <2>1 DEF CommitAlone, HeaderFits, SleeperHasWaker, CleanBlocks, InOp, Committing
<1>8. CallsCounted'
  <2>1. outstanding' = Cardinality({q \in Procs : pc'[q] \in InOp})
    BY <1>2, <1>4, FS_EmptySet DEF ActiveCalls
  <2> QED
    BY <1>2, <1>3, <2>1 DEF CallsCounted, InOp, Committing
<1>9. SpaceReserved' /\ HeaderRight'
  BY <1>2, <1>3, <1>4, <1>5, FS_EmptySet DEF SpaceReserved, HeaderRight, Installing
<1>10. BlocksUnderWay'
  <2>1. DOMAIN lh = 1 .. Len(lh) /\ lh # <<>>
    BY <1>1, <1>5
  <2>2. ASSUME LogFits, NEW k \in DOMAIN lh, k <= tail
        PROVE  cache' = cache /\ logged'[k] = cache[lh[k]]
    <3>1. tail \in LogArea /\ k \in LogArea
      BY <2>1, <2>2, <1>5, Sizes DEF LogFits
    <3>2. k < tail => logged[k] = cache[lh[k]]
      BY <1>1, <2>2 DEF BlocksUnderWay
    <3> QED
      BY <3>1, <3>2, <2>2, <2>1, <1>5 DEF TypeOK
  <2>3. pc'[p] = "write_log" =>
          /\ tail' <= Len(lh)
          /\ LogFits => \A k \in DOMAIN lh : k < tail' => logged'[k] = cache'[lh[k]]
    BY <1>3, <1>5, <2>2, <2>1
  <2>4. pc'[p] = "write_head" =>
          /\ tail' = 1
          /\ LogFits => \A k \in DOMAIN lh : k < Len(lh) + 1 => logged'[k] = cache'[lh[k]]
    BY <1>3, <1>5, <2>2, <2>1
  <2>5. LogFits' = LogFits
    BY DEF LogFits
  <2> QED
    BY <1>2, <1>3, <2>1, <2>3, <2>4, <2>5 DEF BlocksUnderWay
<1> QED
  BY <1>6, <1>7, <1>8, <1>9, <1>10

\* write_head() commits the transaction.
LEMMA WriteHeadSound ==
  ASSUME LogSound, NEW p \in Procs, WriteHead(p)
  PROVE  LogSound'
<1> USE DEF Goto, At, WriteHead, LogSound, disks, counts
<1>1. pc[p] = "write_head" /\ pc[p] \in Committing /\ lh \in Seq(Blocks)
  BY DEF Committing, TypeOK
<1>2. /\ mode = "up" /\ committing /\ outstanding = 0 /\ ActiveCalls = {} /\ Spare = {}
      /\ \A q \in Procs : q # p => pc[q] \in {"idle", "begin", "asleep"}
      /\ \A q \in Procs : wrote[q] = {} /\ blk[q] = NoBlock
  BY <1>1, CommitFacts
<1>3. pc'[p] = "install" /\ \A q \in Procs : q # p => pc'[q] = pc[q]
  BY DEF TypeOK
<1>4. ActiveCalls' = {} /\ Spare' = {}
  BY <1>2, <1>3 DEF ActiveCalls, Spare, InOp
<1>5. TypeOK'
  BY DEF TypeOK, Committing
<1>6. CommitAlone' /\ HeaderFits' /\ SleeperHasWaker' /\ CleanBlocks'
  BY <1>2, <1>3 DEF CommitAlone, HeaderFits, SleeperHasWaker, CleanBlocks, InOp, Committing
<1>7. CallsCounted'
  <2>1. outstanding' = Cardinality({q \in Procs : pc'[q] \in InOp})
    BY <1>2, <1>4, FS_EmptySet DEF ActiveCalls
  <2> QED
    BY <1>2, <1>3, <2>1 DEF CallsCounted, InOp, Committing
<1>8. SpaceReserved' /\ HeaderRight'
  BY <1>2, <1>3, <1>4, FS_EmptySet DEF SpaceReserved, HeaderRight, Installing, HeaderFits
<1>9. BlocksUnderWay'
  <2>1. tail = 1 /\ lh # <<>> /\ Len(lh) >= 1
    BY <1>1 DEF BlocksUnderWay, LogFits
  <2> QED
    BY <1>1, <1>2, <1>3, <2>1 DEF BlocksUnderWay, LogFits
<1> QED
  BY <1>5, <1>6, <1>7, <1>8, <1>9

\* install_trans() copies a block of the log area to its home.
LEMMA InstallTransSound ==
  ASSUME LogSound, NEW p \in Procs, InstallTrans(p)
  PROVE  LogSound'
<1> USE DEF Goto, At, InstallTrans, Install, LogSound, disks, counts
<1>1. pc[p] = "install" /\ pc[p] \in Committing /\ tail <= Len(lh) /\ lh \in Seq(Blocks)
  BY DEF Committing, BlocksUnderWay, LogFits, TypeOK
<1>2. /\ mode = "up" /\ committing /\ outstanding = 0 /\ ActiveCalls = {} /\ Spare = {}
      /\ \A q \in Procs : q # p => pc[q] \in {"idle", "begin", "asleep"}
      /\ \A q \in Procs : wrote[q] = {} /\ blk[q] = NoBlock
  BY <1>1, CommitFacts
<1>3. /\ pc'[p] \in {"install", "clear"}
      /\ pc'[p] = "install" => tail < Len(lh) /\ tail' = tail + 1
      /\ pc'[p] = "clear" => tail >= Len(lh) /\ tail' = 1
      /\ \A q \in Procs : q # p => pc'[q] = pc[q]
  BY <1>1 DEF TypeOK
<1>4. ActiveCalls' = {} /\ Spare' = {}
  BY <1>2, <1>3 DEF ActiveCalls, Spare, InOp
<1>5. /\ tail \in 1 .. Len(lh) /\ Len(lh) \in Nat /\ Len(lh) <= LOGSIZE /\ lh[tail] \in Blocks
      /\ DOMAIN lh = 1 .. Len(lh)
  BY <1>1 DEF HeaderFits, TypeOK
<1>6. TypeOK'
  <2>1. LogBlock(tail) \in Values
    BY Sizes DEF LogBlock, TypeOK
  <2>4. home' \in [Blocks -> Values] /\ cache' \in [Blocks -> Values]
    BY <1>5, <2>1 DEF TypeOK
  <2>2. tail' \in 1 .. LOGSIZE
    BY <1>1, <1>3, <1>5, Sizes
  <2>3. pc' \in [Procs -> {"idle", "begin", "asleep"} \cup InOp \cup Committing]
    BY DEF TypeOK, Committing
  <2> QED
    BY <2>2, <2>3, <2>4 DEF TypeOK
<1>7. \A b \in Blocks : b \notin Range(lh) => home'[b] = home[b] /\ cache'[b] = cache[b]
  BY <1>5 DEF TypeOK, Range
<1>8. CommitAlone' /\ HeaderFits' /\ SleeperHasWaker' /\ CleanBlocks'
  BY <1>2, <1>3, <1>7 DEF CommitAlone, HeaderFits, SleeperHasWaker, CleanBlocks, InOp, Committing
<1>9. CallsCounted'
  <2>1. outstanding' = Cardinality({q \in Procs : pc'[q] \in InOp})
    BY <1>2, <1>4, FS_EmptySet DEF ActiveCalls
  <2> QED
    BY <1>2, <1>3, <2>1 DEF CallsCounted, InOp, Committing
<1>10. SpaceReserved' /\ HeaderRight'
  BY <1>1, <1>2, <1>3, <1>4, <1>5, FS_EmptySet DEF SpaceReserved, HeaderRight, Installing
<1>11. BlocksUnderWay'
  <2>1. ASSUME NEW k \in DOMAIN lh, k <= tail
        PROVE  home'[lh[k]] = cache'[lh[k]] /\ (LogFits => home'[lh[k]] = logged[k])
    <3>1. CASE k = tail
      <4>1. LogFits => tail \in LogArea
        BY <1>5, Sizes DEF LogFits
      <4> QED
        BY <3>1, <4>1, <1>5 DEF TypeOK, LogBlock
    <3>2. CASE k < tail
      <4>1. home[lh[k]] = cache[lh[k]] /\ (LogFits => home[lh[k]] = logged[k])
        BY <1>1, <1>2, <3>2 DEF BlocksUnderWay
      <4>2. lh[k] # lh[tail] /\ lh[k] \in Blocks
        BY <1>1, <1>5, <3>2 DEF HeaderRight, IsInjective
      <4> QED
        BY <4>1, <4>2, <1>5 DEF TypeOK
    <3> QED
      BY <3>1, <3>2, <2>1, <1>5
  <2>2. ASSUME LogFits, NEW k \in DOMAIN lh PROVE logged[k] = cache'[lh[k]]
    <3>1. logged[k] = cache[lh[k]]
      BY <1>1, <1>5, <2>2 DEF BlocksUnderWay
    <3>2. lh[k] = lh[tail] => k = tail
      BY <1>5 DEF HeaderRight, IsInjective
    <3>3. tail \in LogArea /\ lh[k] \in Blocks
      BY <1>1, <1>5, <2>2, Sizes DEF LogFits
    <3> QED
      BY <3>1, <3>2, <3>3 DEF TypeOK, LogBlock
  <2>3. LogFits' = LogFits /\ lh # <<>> /\ mode' = "up"
    BY <1>1, <1>2 DEF LogFits, BlocksUnderWay
  <2>4. pc'[p] = "install" => /\ tail' <= Len(lh)
                              /\ \A k \in DOMAIN lh : k < tail' => k <= tail
    BY <1>3, <1>5
  <2>5. pc'[p] = "clear" => \A k \in DOMAIN lh : k < Len(lh) + 1 => k <= tail
    BY <1>3, <1>5
  <2> QED
    BY <1>2, <1>3, <2>1, <2>2, <2>3, <2>4, <2>5 DEF BlocksUnderWay
<1> QED
  BY <1>6, <1>8, <1>9, <1>10, <1>11

\* The header is cleared when all blocks are at home.
LEMMA ClearHeadSound ==
  ASSUME LogSound, NEW p \in Procs, ClearHead(p)
  PROVE  LogSound'
<1> USE DEF Goto, At, ClearHead, LogSound, disks, counts
<1>1. pc[p] = "clear" /\ pc[p] \in Committing /\ lh \in Seq(Blocks)
  BY DEF Committing, TypeOK
<1>2. /\ mode = "up" /\ committing /\ outstanding = 0 /\ ActiveCalls = {} /\ Spare = {}
      /\ \A q \in Procs : q # p => pc[q] \in {"idle", "begin", "asleep"}
      /\ \A q \in Procs : wrote[q] = {} /\ blk[q] = NoBlock
  BY <1>1, CommitFacts
<1>3. pc'[p] = "release" /\ \A q \in Procs : q # p => pc'[q] = pc[q]
  BY DEF TypeOK
<1>4. ActiveCalls' = {} /\ Spare' = {}
  BY <1>2, <1>3 DEF ActiveCalls, Spare, InOp
<1>5. lh' = <<>> /\ header' = <<>> /\ Len(lh') = 0
  OBVIOUS
<1>6. TypeOK'
  BY <1>5 DEF TypeOK, Committing
<1>7. CleanBlocks'
  <2>1. \A k \in DOMAIN lh : home[lh[k]] = cache[lh[k]]
    BY <1>1, <1>2 DEF BlocksUnderWay, LogFits
  <2>2. \A b \in Range(lh) : cache[b] = home[b]
    BY <2>1 DEF Range
  <2>3. \A b \in Blocks, q \in Procs : blk[q] # b
    BY <1>2, Sizes
  <2> QED
    BY <1>1, <1>2, <2>2, <2>3 DEF CleanBlocks
<1>8. CommitAlone' /\ HeaderFits' /\ SleeperHasWaker'
  BY <1>2, <1>3, <1>5, Sizes DEF CommitAlone, HeaderFits, SleeperHasWaker, InOp, Committing
<1>9. CallsCounted'
  <2>1. outstanding' = Cardinality({q \in Procs : pc'[q] \in InOp})
    BY <1>2, <1>4, FS_EmptySet DEF ActiveCalls
  <2> QED
    BY <1>2, <1>3, <2>1 DEF CallsCounted, InOp, Committing
<1>10. SpaceReserved'
  BY <1>2, <1>4, <1>5, FS_EmptySet, Sizes DEF SpaceReserved
<1>11. HeaderRight'
  BY <1>2, <1>5, Sizes DEF HeaderRight, IsInjective
<1>12. BlocksUnderWay'
  BY <1>2, <1>3, <1>5 DEF BlocksUnderWay, LogFits
<1> QED
  BY <1>6, <1>7, <1>8, <1>9, <1>10, <1>11, <1>12

\* The end of a commit, which wakes everybody.
LEMMA EndCommitSound ==
  ASSUME LogSound, NEW p \in Procs, EndCommit(p)
  PROVE  LogSound'
<1> USE DEF At, EndCommit, WakeAll, LogSound, disks, counts
<1>1. pc[p] = "release" /\ pc[p] \in Committing /\ lh = <<>>
  BY DEF Committing, BlocksUnderWay, LogFits
<1>2. /\ mode = "up" /\ committing /\ outstanding = 0 /\ ActiveCalls = {} /\ Spare = {}
      /\ \A q \in Procs : q # p => pc[q] \in {"idle", "begin", "asleep"}
      /\ \A q \in Procs : wrote[q] = {} /\ blk[q] = NoBlock
  BY <1>1, CommitFacts
<1>3. \A q \in Procs : pc'[q] \in {"idle", "begin"}
  BY <1>2
<1>4. ActiveCalls' = {} /\ Spare' = {}
  BY <1>3 DEF ActiveCalls, Spare, InOp
<1>5. TypeOK'
  BY <1>3 DEF TypeOK
<1>6. CommitAlone' /\ HeaderFits' /\ SleeperHasWaker' /\ CleanBlocks'
  BY <1>3 DEF CommitAlone, HeaderFits, SleeperHasWaker, CleanBlocks, Committing
<1>7. CallsCounted'
  <2>1. outstanding' = Cardinality({q \in Procs : pc'[q] \in InOp})
    BY <1>2, <1>4, FS_EmptySet DEF ActiveCalls
  <2> QED
    BY <1>2, <1>3, <2>1 DEF CallsCounted, InOp, Committing
<1>8. SpaceReserved'
  BY <1>1, <1>4, FS_EmptySet, Sizes DEF SpaceReserved
<1>9. HeaderRight'
  <2>1. header = <<>>
    BY <1>1, <1>2 DEF HeaderRight
  <2> QED
    BY <1>1, <1>2, <2>1 DEF HeaderRight
<1>10. BlocksUnderWay'
  BY <1>2, <1>3 DEF BlocksUnderWay, LogFits
<1> QED
  BY <1>5, <1>6, <1>7, <1>8, <1>9, <1>10

\* A crash leaves the disk, and begins recovery.
LEMMA CrashSound ==
  ASSUME LogSound, Crash
  PROVE  LogSound'
<1> USE DEF Crash, LogSound, disks
<1>1. \A q \in Procs : pc'[q] = "idle" /\ wrote'[q] = {} /\ blk'[q] = NoBlock
  OBVIOUS
<1>2. ActiveCalls' = {} /\ Spare' = {} /\ lh' = <<>> /\ Len(lh') = 0
  BY <1>1 DEF ActiveCalls, Spare, InOp
<1>3. TypeOK'
  <2>1. /\ cache' \in [Blocks -> Values] /\ lh' \in Seq(Blocks) /\ crashes' \in 0 .. MaxCrashes
        /\ tail' \in 1 .. LOGSIZE /\ outstanding' \in 0 .. Cardinality(Procs)
    BY LogAssumption, Sizes, FS_CardinalityType DEF TypeOK, Values
  <2> QED
    BY <2>1 DEF TypeOK
<1>4. CommitAlone' /\ HeaderFits' /\ SleeperHasWaker' /\ CleanBlocks'
  BY <1>1, <1>2, Sizes DEF CommitAlone, HeaderFits, SleeperHasWaker, CleanBlocks, Committing
<1>5. CallsCounted'
  <2>1. outstanding' = Cardinality({q \in Procs : pc'[q] \in InOp})
    BY <1>2, FS_EmptySet DEF ActiveCalls
  <2> QED
    BY <1>1, <2>1, FS_EmptySet, Sizes DEF CallsCounted, Committing
<1>6. SpaceReserved' /\ HeaderRight' /\ BlocksUnderWay'
  BY <1>1, <1>2, FS_EmptySet, Sizes DEF SpaceReserved, HeaderRight, IsInjective, BlocksUnderWay,
     LogFits
<1> QED
  BY <1>3, <1>4, <1>5, <1>6

\* Recovery: the header is read, blocks are installed again, the header is cleared.
LEMMA RecoverSound ==
  ASSUME LogSound, Recover
  PROVE  LogSound'
<1> USE DEF LogSound, disks, counts, calls
<1>1. mode # "up" /\ \A q \in Procs : pc[q] = "idle"
  BY DEF Recover, ReadHead, RecoverInstall, RecoverClear, CallsCounted
<1>2. pc' = pc /\ wrote' = wrote /\ blk' = blk /\ outstanding' = outstanding
      /\ committing' = committing /\ panicked' = panicked /\ ops' = ops /\ crashes' = crashes
      /\ logged' = logged
  BY DEF Recover, ReadHead, RecoverInstall, RecoverClear
<1>3. Spare' = {} /\ Cardinality(Spare') = 0
  BY <1>1, <1>2, FS_EmptySet DEF Spare, InOp
<1>4. ~committing /\ outstanding = 0
  BY <1>1, FS_EmptySet DEF CallsCounted, InOp, Committing
<1>5. lh \in Seq(Blocks) /\ header \in Seq(Blocks) /\ Len(lh) \in Nat /\ Len(header) \in Nat
  BY DEF TypeOK
<1>6. CommitAlone' /\ SleeperHasWaker' /\ CallsCounted'
  BY <1>1, <1>2 DEF CommitAlone, SleeperHasWaker, CallsCounted, Committing
<1>7. ASSUME ReadHead PROVE LogSound'
  <2> USE <1>7 DEF ReadHead
  <2>1. TypeOK'
    BY DEF TypeOK
  <2>2. HeaderFits' /\ CleanBlocks' /\ SpaceReserved'
    BY <1>3, <1>5, Sizes DEF HeaderFits, CleanBlocks, SpaceReserved, HeaderRight
  <2>3. HeaderRight' /\ BlocksUnderWay'
    <3>1. header # <<>> => 1 <= Len(header)
      BY <1>5
    <3>2. tail' = 1 /\ mode' \in {"install", "clear"} /\ lh' = header /\ header' = header
      BY DEF HeaderRight
    <3>3. mode' = "install" => header # <<>>
      OBVIOUS
    <3>4. mode' = "clear" => header = <<>>
      OBVIOUS
    <3>5. DOMAIN header = 1 .. Len(header)
      BY <1>5
    <3>6. HeaderRight'
      BY <3>2 DEF HeaderRight, Installing
    <3> QED
      BY <1>1, <1>2, <3>1, <3>2, <3>3, <3>4, <3>5, <3>6 DEF BlocksUnderWay, LogFits
  <2> QED
    BY <1>6, <2>1, <2>2, <2>3
<1>8. ASSUME RecoverInstall PROVE LogSound'
  <2> USE <1>8 DEF RecoverInstall, Install
  <2>1. /\ tail \in 1 .. Len(lh) /\ Len(lh) <= LOGSIZE /\ lh[tail] \in Blocks
        /\ DOMAIN lh = 1 .. Len(lh) /\ lh' = lh /\ header' = header /\ header = lh
    BY <1>5 DEF TypeOK, BlocksUnderWay, LogFits, HeaderFits, HeaderRight, Installing
  <2>2. /\ mode' \in {"install", "clear"}
        /\ mode' = "install" => tail < Len(lh) /\ tail' = tail + 1
        /\ mode' = "clear" => tail >= Len(lh) /\ tail' = 1
    BY <1>5, <2>1
  <2>3. TypeOK'
    <3>1. home' \in [Blocks -> Values]
      BY <2>1, Sizes DEF TypeOK, LogBlock
    <3>2. tail' \in 1 .. LOGSIZE
      BY <1>5, <2>1, <2>2, Sizes
    <3> QED
      BY <1>2, <2>1, <2>2, <3>1, <3>2 DEF TypeOK
  <2>4. HeaderFits' /\ CleanBlocks' /\ SpaceReserved' /\ HeaderRight'
    BY <1>3, <1>5, <2>1, <2>2, Sizes DEF HeaderFits, CleanBlocks, SpaceReserved, HeaderRight,
       Installing
  <2>5. BlocksUnderWay'
    <3>1. ASSUME LogFits, NEW k \in DOMAIN lh, k <= tail PROVE home'[lh[k]] = logged[k]
      <4>1. k < tail => home[lh[k]] = logged[k]
        BY <3>1 DEF BlocksUnderWay
      <4>2. k # tail => lh[k] # lh[tail]
        BY <2>1 DEF HeaderRight, IsInjective
      <4>3. tail \in LogArea /\ lh[k] \in Blocks
        BY <1>5, <2>1, <3>1, Sizes DEF LogFits
      <4> QED
        BY <4>1, <4>2, <4>3, <2>1, <3>1 DEF TypeOK, LogBlock
    <3>2. mode' = "install" => tail' <= Len(lh) /\ \A k \in DOMAIN lh : k < tail' => k <= tail
      BY <1>5, <2>1, <2>2
    <3>3. mode' = "clear" => \A k \in DOMAIN lh : k < Len(lh) + 1 => k <= tail
      BY <1>5, <2>1, <2>2
    <3>4. LogFits' = LogFits /\ mode' # "up"
      BY <2>1, <2>2 DEF LogFits
    <3> QED
      BY <1>1, <1>2, <2>1, <3>1, <3>2, <3>3, <3>4 DEF BlocksUnderWay
  <2> QED
    BY <1>6, <2>3, <2>4, <2>5
<1>9. ASSUME RecoverClear PROVE LogSound'
  <2> USE <1>9 DEF RecoverClear
  <2>1. TypeOK'
    BY DEF TypeOK
  <2>2. /\ lh' = <<>> /\ header' = <<>> /\ cache' = home /\ home' = home /\ mode' = "up"
        /\ Len(lh') = 0
    OBVIOUS
  <2>3. HeaderFits' /\ CleanBlocks' /\ SpaceReserved'
    BY <1>3, <2>2, Sizes DEF HeaderFits, CleanBlocks, SpaceReserved
  <2>4. HeaderRight' /\ BlocksUnderWay'
    BY <1>1, <1>2, <2>2, Sizes DEF HeaderRight, IsInjective, BlocksUnderWay, LogFits
  <2> QED
    BY <1>6, <2>1, <2>3, <2>4
<1> QED
  BY <1>7, <1>8, <1>9 DEF Recover

LEMMA InitSound == Init => LogSound
<1> SUFFICES ASSUME Init PROVE LogSound
  OBVIOUS
<1> USE DEF Init
<1>1. TypeOK
  <2>1. 0 \in Values /\ 0 \in 0 .. MaxOps /\ 0 \in 0 .. MaxCrashes /\ 1 \in 1 .. LOGSIZE
        /\ 0 \in 0 .. Cardinality(Procs)
    BY LogAssumption, Sizes, FS_CardinalityType DEF Values
  <2>2. /\ home \in [Blocks -> Values] /\ logged \in [LogArea -> Values]
        /\ header \in Seq(Blocks) /\ lh \in Seq(Blocks)
    BY <2>1
  <2>3. /\ pc \in [Procs -> {"idle", "begin", "asleep"} \cup InOp \cup Committing]
        /\ blk \in [Procs -> Blocks \cup {NoBlock}] /\ wrote \in [Procs -> SUBSET Blocks]
    OBVIOUS
  <2> QED
    BY <2>1, <2>2, <2>3 DEF TypeOK
<1>2. \A p \in Procs : pc[p] = "idle" /\ wrote[p] = {} /\ blk[p] = NoBlock
  OBVIOUS
<1>3. ActiveCalls = {} /\ Spare = {} /\ Len(lh) = 0 /\ lh = <<>>
  BY <1>2 DEF ActiveCalls, Spare, InOp
<1>4. CleanBlocks /\ CommitAlone /\ SleeperHasWaker /\ HeaderFits
  BY <1>2, <1>3, Sizes DEF CleanBlocks, CommitAlone, SleeperHasWaker, HeaderFits, Committing
<1>5. CallsCounted
  <2>1. outstanding = Cardinality({q \in Procs : pc[q] \in InOp})
    BY <1>3, FS_EmptySet DEF ActiveCalls
  <2> QED
    BY <1>2, <2>1, FS_EmptySet, Sizes DEF CallsCounted, Committing
<1>6. SpaceReserved /\ HeaderRight /\ BlocksUnderWay
  BY <1>2, <1>3, FS_EmptySet, Sizes DEF SpaceReserved, HeaderRight, Installing, IsInjective,
     BlocksUnderWay, LogFits
<1> QED
  BY <1>1, <1>4, <1>5, <1>6 DEF LogSound

\* Every step keeps the log sound.
LEMMA NextSound == LogSound /\ [Next]_vars => LogSound'
<1> SUFFICES ASSUME LogSound, [Next]_vars PROVE LogSound'
  OBVIOUS
<1>1. ASSUME NEW p \in Procs, Call(p) PROVE LogSound'
  BY <1>1, MoveSound DEF Call, At
<1>2. ASSUME NEW p \in Procs, BeginSleep(p) PROVE LogSound'
  BY <1>2, MoveSound DEF BeginSleep, At
<1>3. ASSUME UNCHANGED vars PROVE LogSound'
  BY <1>3 DEF vars, disks, calls, counts, LogSound, TypeOK, CleanBlocks, CommitAlone,
     SleeperHasWaker, HeaderFits, CallsCounted, SpaceReserved, Spare, HeaderRight, Installing,
     BlocksUnderWay, LogFits
<1>4. CASE Next
  BY <1>1, <1>2, <1>3, <1>4, BeginOpSound, LogWriteSound, LogAppendSound, EndOpSound,
     WriteLogSound, WriteHeadSound, InstallTransSound, ClearHeadSound, EndCommitSound,
     CrashSound, RecoverSound DEF Next, CallStep, Rest
<1> QED
  BY <1>3, <1>4

\* In every reachable state, for any processes, blocks and sizes: the header has room for
\* the transaction and for all that the calls in progress have reserved, commits are
\* alone, nobody is forgotten in begin_op(), and the cache may evict any block that is
\* not in the transaction.
THEOREM Soundness == Spec => []LogSound
<1> QED
  BY InitSound, NextSound, PTL DEF Spec

-----------------------------------------------------------------------------
(* The log implements AtomicDisk *)

\* The blocks of a log that fits are all in the log area.
LEMMA InLogArea ==
  ASSUME NEW s \in Seq(Blocks), Len(s) < NLOG
  PROVE  LogArea \cap DOMAIN s = DOMAIN s /\ NLOG \notin DOMAIN s
<1>1. DOMAIN s = 1 .. Len(s) /\ Len(s) \in Nat
  OBVIOUS
<1> QED
  BY <1>1, Sizes

\* What replaying a log leaves in each block.
LEMMA ReplayAt ==
  ASSUME NEW h, NEW l, NEW s \in Seq(Blocks), IsInjective(s), Len(s) < NLOG
  PROVE  /\ \A k \in DOMAIN s : Replay(h, l, s)[s[k]] = l[k]
         /\ \A b \in Blocks : b \notin Range(s) => Replay(h, l, s)[b] = h[b]
<1>3. LogArea \cap DOMAIN s = DOMAIN s /\ NLOG \notin DOMAIN s
  BY InLogArea
<1>1. ASSUME NEW k \in DOMAIN s PROVE Replay(h, l, s)[s[k]] = l[k]
  <2>1. s[k] \in Blocks
    BY <1>1
  <2>2. k = CHOOSE j \in DOMAIN s : s[j] = s[k]
    BY <1>1 DEF IsInjective
  <2> QED
    BY <1>1, <2>1, <2>2, <1>3 DEF Replay
<1>2. ASSUME NEW b \in Blocks, b \notin Range(s) PROVE Replay(h, l, s)[b] = h[b]
  <2>1. ~ \E k \in DOMAIN s : s[k] = b
    BY <1>2 DEF Range
  <2> QED
    BY <1>2, <2>1, <1>3 DEF Replay
<1> QED
  BY <1>1, <1>2

\* The disk that a log leaves is the one with these properties.
LEMMA ReplayIs ==
  ASSUME NEW h, NEW l, NEW s \in Seq(Blocks), IsInjective(s), Len(s) < NLOG,
         NEW c \in [Blocks -> Values],
         \A k \in DOMAIN s : c[s[k]] = l[k],
         \A b \in Blocks : b \notin Range(s) => c[b] = h[b]
  PROVE  Replay(h, l, s) = c
<1>1. ASSUME NEW b \in Blocks PROVE Replay(h, l, s)[b] = c[b]
  <2>1. CASE b \in Range(s)
    BY <2>1, ReplayAt DEF Range
  <2>2. CASE b \notin Range(s)
    BY <1>1, <2>2, ReplayAt
  <2> QED
    BY <2>1, <2>2
<1>2. Replay(h, l, s) = [b \in Blocks |-> Replay(h, l, s)[b]]
  BY DEF Replay
<1>3. c = [b \in Blocks |-> c[b]]
  OBVIOUS
<1> HIDE DEF Replay
<1> QED
  BY <1>1, <1>2, <1>3

\* A log without blocks leaves the disk as it is.
LEMMA ReplayEmpty ==
  ASSUME NEW h \in [Blocks -> Values], NEW l
  PROVE  Replay(h, l, <<>>) = h
<1>1. /\ <<>> \in Seq(Blocks) /\ IsInjective(<<>>) /\ DOMAIN <<>> = {} /\ Range(<<>>) = {}
      /\ Len(<<>>) < NLOG
  BY Sizes DEF IsInjective, Range
<1> QED
  BY <1>1, ReplayIs

\* The installation of one block of the log changes nothing that a crash would leave.
LEMMA ReplayInstall ==
  ASSUME NEW h \in [Blocks -> Values], NEW l \in [LogArea -> Values],
         NEW s \in Seq(Blocks), Len(s) < NLOG, NEW n \in DOMAIN s
  PROVE  Replay([h EXCEPT ![s[n]] = l[n]], l, s) = Replay(h, l, s)
<1> DEFINE g == [h EXCEPT ![s[n]] = l[n]]
<1>1. ASSUME NEW b \in Blocks, ~ \E k \in DOMAIN s : s[k] = b PROVE g[b] = h[b]
  BY <1>1
<1> HIDE DEF g
<1>3. LogArea \cap DOMAIN s = DOMAIN s /\ NLOG \notin DOMAIN s
  BY InLogArea
<1>2. Replay(g, l, s) = Replay(h, l, s)
  BY <1>1, <1>3 DEF Replay
<1> QED
  BY <1>2 DEF g

\* A step on the same disk leaves what a crash would.
LEMMA SameDisk ==
  ASSUME UNCHANGED disks
  PROVE  Recovered' = Recovered
  BY DEF disks, Recovered

\* While the transaction fits, every step of the log is a step of AtomicDisk, or none:
\* begin_op(), the changes of blocks and end_op() are those of a call, write_head() writes
\* all blocks at once, and nothing else changes what a crash would leave.
LEMMA StepAtomic ==
  ASSUME LogSound, LogSound', LogFits, [Next]_vars
  PROVE  [AD!Next]_(AD!vars)
<1> DEFINE mem == IF mode = "up" THEN cache ELSE Recovered
           stutter == mem' = mem /\ Recovered' = Recovered /\ ActiveCalls' = ActiveCalls
<1>1. stutter => UNCHANGED AD!vars
  BY DEF AD!vars, ActiveCalls
<1>2. ASSUME NEW p \in Procs, Call(p) \/ BeginSleep(p) PROVE stutter
  BY <1>2, SameDisk DEF Call, BeginSleep, At, Goto, ActiveCalls, InOp, LogSound, TypeOK
<1>3. ASSUME NEW p \in Procs, BeginOp(p) PROVE AD!Begin(p)
  BY <1>3, SameDisk DEF AD!Begin, BeginOp, At, Goto, InOp, LogSound, TypeOK
<1>4. ASSUME NEW p \in Procs, NEW b \in Blocks, LogWrite(p, b) PROVE AD!Write(p, b, ops)
  BY <1>4, SameDisk DEF AD!Write, LogWrite, At, Goto, InOp, LogSound, TypeOK
<1>5. ASSUME NEW p \in Procs, LogAppend(p) PROVE stutter
  BY <1>5, SameDisk DEF LogAppend, At, Goto, ActiveCalls, InOp, LogSound, TypeOK
<1>6. ASSUME NEW p \in Procs, EndOp(p) PROVE AD!End(p)
  <2>1. pc[p] = "op" /\ mode = "up" /\ mode' = "up" /\ cache' = cache /\ UNCHANGED disks
    BY <1>6 DEF EndOp, At
  <2>2. ~committing
    BY <2>1 DEF LogSound, CommitAlone, CallsCounted, InOp, Committing
  <2>3. /\ pc'[p] \notin InOp
        /\ \A q \in Procs : q # p => (pc'[q] \in InOp <=> pc[q] \in InOp)
    BY <1>6, <2>2 DEF EndOp, Goto, WakeAll, InOp, LogSound, TypeOK
  <2> QED
    BY <2>1, <2>3, SameDisk DEF AD!End, InOp
<1>7. ASSUME NEW p \in Procs, WriteLog(p) PROVE stutter
  <2>5. pc[p] = "write_log" /\ tail <= Len(lh) /\ tail \in Nat \ {0} /\ Len(lh) \in Nat
    BY <1>7 DEF WriteLog, At, LogSound, BlocksUnderWay, TypeOK
  <2>6. tail \in LogArea
    BY <2>5, Sizes DEF LogFits
  <2>1. /\ pc[p] \in Committing /\ mode = "up" /\ mode' = "up" /\ cache' = cache
        /\ home' = home /\ header' = header /\ pc[p] = "write_log"
    BY <1>7, <2>6 DEF WriteLog, At, Committing
  <2>2. header = <<>> /\ home \in [Blocks -> Values]
    BY <2>1, CommitFacts DEF LogSound, HeaderRight, Installing, TypeOK
  <2>3. Recovered = home /\ Recovered' = home
    BY <2>1, <2>2, ReplayEmpty DEF Recovered
  <2>4. ActiveCalls' = ActiveCalls
    BY <1>7 DEF WriteLog, At, Goto, ActiveCalls, InOp, LogSound, TypeOK
  <2> QED
    BY <2>1, <2>3, <2>4
<1>8. ASSUME NEW p \in Procs, WriteHead(p) PROVE AD!Commit
  <2>1. /\ pc[p] \in Committing /\ mode = "up" /\ mode' = "up" /\ cache' = cache
        /\ home' = home /\ logged' = logged /\ header' = lh /\ pc[p] = "write_head" /\ ~panicked
    BY <1>8 DEF WriteHead, At, Committing
  <2>2. /\ \A q \in Procs : pc[q] \notin InOp /\ blk[q] = NoBlock
        /\ \A q \in Procs : pc'[q] \notin InOp
    <3>1. ActiveCalls = {} /\ \A q \in Procs : blk[q] = NoBlock
      BY <2>1, CommitFacts
    <3> QED
      BY <1>8, <3>1 DEF ActiveCalls, WriteHead, Goto, InOp, LogSound, TypeOK
  <2>3. \A k \in DOMAIN lh : cache[lh[k]] = logged[k]
    BY <2>1 DEF LogSound, BlocksUnderWay, TypeOK
  <2>4. \A b \in Blocks : b \notin Range(lh) => cache[b] = home[b]
    BY <2>1, <2>2, Sizes DEF LogSound, CleanBlocks
  <2>5. lh \in Seq(Blocks) /\ IsInjective(lh) /\ Len(lh) < NLOG /\ cache \in [Blocks -> Values]
    BY DEF LogSound, LogFits, HeaderRight, TypeOK
  <2>6. Recovered' = cache
    BY <2>1, <2>3, <2>4, <2>5, ReplayIs DEF Recovered
  <2>7. {q \in Procs : pc[q] \in InOp} = {} /\ {q \in Procs : pc'[q] \in InOp} = {}
    BY <2>2
  <2> QED
    BY <2>1, <2>6, <2>7 DEF AD!Commit, InOp
<1>9. ASSUME Install, UNCHANGED <<logged, header>>, header = lh, tail \in DOMAIN lh
      PROVE  Recovered' = Recovered
  <2>1. /\ home \in [Blocks -> Values] /\ logged \in [LogArea -> Values]
        /\ header \in Seq(Blocks) /\ IsInjective(header) /\ Len(header) < NLOG
        /\ tail \in DOMAIN header
    BY <1>9 DEF LogSound, LogFits, TypeOK, HeaderRight
  <2>4. tail \in LogArea
    BY <2>1, Sizes
  <2>2. /\ home' = [home EXCEPT ![header[tail]] = logged[tail]]
        /\ logged' = logged /\ header' = header
    BY <1>9, <2>4 DEF Install, LogBlock
  <2>3. Replay([home EXCEPT ![header[tail]] = logged[tail]], logged, header)
          = Replay(home, logged, header)
    BY <2>1, ReplayInstall
  <2> QED
    BY <2>2, <2>3 DEF Recovered
<1>10. ASSUME NEW p \in Procs, InstallTrans(p) PROVE stutter
  <2>1. pc[p] = "install" /\ mode = "up" /\ mode' = "up"
    BY <1>10 DEF InstallTrans, At
  <2>2. header = lh /\ tail \in DOMAIN lh
    BY <2>1 DEF LogSound, HeaderRight, Installing, BlocksUnderWay, TypeOK
  <2>5. cache' = cache
    <3>1. lh[tail] \in Blocks /\ tail \in LogArea
      BY <2>2, Sizes DEF LogFits, LogSound, TypeOK
    <3>2. logged[tail] = cache[lh[tail]]
      BY <2>1, <2>2 DEF LogSound, BlocksUnderWay, TypeOK
    <3> QED
      BY <1>10, <3>1, <3>2 DEF InstallTrans, LogBlock, LogSound, TypeOK
  <2>3. Recovered' = Recovered
    BY <1>9, <1>10, <2>2 DEF InstallTrans
  <2>4. ActiveCalls' = ActiveCalls
    BY <1>10 DEF InstallTrans, At, Goto, ActiveCalls, InOp, LogSound, TypeOK
  <2> QED
    BY <2>1, <2>3, <2>4, <2>5
<1>11. ASSUME header = lh, header' = <<>>, home' = home,
              \A k \in DOMAIN lh : home[lh[k]] = logged[k]
       PROVE  Recovered' = home /\ Recovered = home
  <2>1. lh \in Seq(Blocks) /\ IsInjective(lh) /\ Len(lh) < NLOG /\ home \in [Blocks -> Values]
    BY DEF LogSound, LogFits, HeaderRight, TypeOK
  <2>2. Recovered' = home
    BY <1>11, <2>1, ReplayEmpty DEF Recovered
  <2>3. Recovered = home
    BY <1>11, <2>1, ReplayIs DEF Recovered
  <2> QED
    BY <2>2, <2>3
<1>12. ASSUME NEW p \in Procs, ClearHead(p) PROVE stutter
  <2>1. /\ pc[p] = "clear" /\ mode = "up" /\ mode' = "up" /\ cache' = cache
        /\ header' = <<>> /\ home' = home
    BY <1>12 DEF ClearHead, At
  <2>2. header = lh /\ \A k \in DOMAIN lh : home[lh[k]] = logged[k]
    BY <2>1 DEF LogSound, HeaderRight, Installing, BlocksUnderWay, TypeOK
  <2>3. Recovered' = Recovered
    BY <1>11, <2>1, <2>2
  <2>4. ActiveCalls' = ActiveCalls
    BY <1>12 DEF ClearHead, At, Goto, ActiveCalls, InOp, LogSound, TypeOK
  <2> QED
    BY <2>1, <2>3, <2>4
<1>13. ASSUME NEW p \in Procs, EndCommit(p) PROVE stutter
  BY <1>13, SameDisk DEF EndCommit, At, WakeAll, ActiveCalls, InOp, LogSound, TypeOK
<1>14. ASSUME Crash PROVE AD!Crash
  BY <1>14, SameDisk DEF Crash, AD!Crash, InOp, disks
<1>15. ASSUME Recover PROVE stutter
  <2>1. ActiveCalls' = ActiveCalls
    BY <1>15 DEF Recover, ReadHead, RecoverInstall, RecoverClear, calls, ActiveCalls
  <2>2. ASSUME ReadHead PROVE stutter
    BY <2>1, <2>2, SameDisk DEF ReadHead
  <2>3. ASSUME RecoverInstall PROVE stutter
    <3>1. header = lh /\ tail \in DOMAIN lh
      BY <2>3 DEF RecoverInstall, LogSound, HeaderRight, Installing, BlocksUnderWay, TypeOK
    <3> QED
      BY <1>9, <2>1, <2>3, <3>1 DEF RecoverInstall
  <2>4. ASSUME RecoverClear PROVE stutter
    <3>1. header = lh /\ \A k \in DOMAIN lh : home[lh[k]] = logged[k]
      BY <2>4 DEF RecoverClear, LogSound, HeaderRight, Installing, BlocksUnderWay, TypeOK
    <3>2. Recovered' = home /\ Recovered = home
      BY <1>11, <2>4, <3>1 DEF RecoverClear
    <3> QED
      BY <2>1, <2>4, <3>2 DEF RecoverClear
  <2> QED
    BY <1>15, <2>2, <2>3, <2>4 DEF Recover
<1>16. ASSUME UNCHANGED vars PROVE stutter
  BY <1>16, SameDisk DEF vars, disks, calls, ActiveCalls
<1>17. ops \in Values
  BY DEF LogSound, TypeOK, Values
<1> HIDE DEF stutter
<1>18. CASE Next
  BY <1>1, <1>2, <1>3, <1>4, <1>5, <1>6, <1>7, <1>8, <1>10, <1>12, <1>13, <1>14, <1>15, <1>16,
     <1>17, <1>18 DEF Next, CallStep, Rest, AD!Next
<1> QED
  BY <1>1, <1>16, <1>18

LEMMA InitAtomic == Init => AD!Init
<1> SUFFICES ASSUME Init PROVE AD!Init
  OBVIOUS
<1>1. home \in [Blocks -> Values] /\ header = <<>> /\ cache = home /\ mode = "up"
  BY LogAssumption DEF Init, Values
<1>2. Recovered = home
  BY <1>1, ReplayEmpty DEF Recovered
<1>3. {p \in Procs : pc[p] \in InOp} = {}
  BY DEF Init, InOp
<1> QED
  BY <1>1, <1>2, <1>3 DEF AD!Init

\* Crash atomicity, for any number of calls, blocks and crashes: while no transaction is
\* longer than the log area, whatever a crash interrupts, commit and recovery included,
\* the disk that recovery leaves has every write of a group of complete calls or none, and
\* keeps the groups that have committed.
THEOREM CrashAtomicity == Spec /\ []LogFits => Atomic
<1>1. LogSound /\ LogSound' /\ LogFits /\ [Next]_vars => [AD!Next]_(AD!vars)
  BY StepAtomic
<1> QED
  BY <1>1, InitAtomic, Soundness, PTL DEF Spec, Atomic, AD!Spec

\* Only the unlocked length test of log_write() lets a transaction get longer than the log
\* area: none does as long as no two processes are between the test and log.lock.
THEOREM FitsUnlessRace == Spec /\ []OneAppends => []LogFits
<1> DEFINE Appending == \E p \in Procs : pc[p] = "append"
           Room == /\ Len(lh) < NLOG /\ Len(header) < NLOG
                   /\ Appending => Len(lh) < NLOG - 1
<1>1. Init => Room
  BY Sizes DEF Init
<1>2. LogSound /\ Room /\ OneAppends /\ OneAppends' /\ [Next]_vars => Room'
  <2> SUFFICES ASSUME LogSound, Room, OneAppends, OneAppends', [Next]_vars PROVE Room'
    OBVIOUS
  <2>1. Len(lh) \in Nat /\ Len(header) \in Nat
    BY DEF LogSound, TypeOK
  <2>2. CASE UNCHANGED vars
    BY <2>2 DEF vars, disks, calls
  <2>3. ASSUME NEW p \in Procs, NEW b \in Blocks, LogWrite(p, b) PROVE Room'
    BY <2>3, <2>1, Sizes DEF LogWrite, disks, Goto, At, LogSound, TypeOK
  <2>4. ASSUME NEW p \in Procs, LogAppend(p) PROVE Room'
    <3>1. Len(lh) < NLOG - 1 /\ \A q \in Procs : q # p => pc[q] # "append"
      BY <2>4 DEF LogAppend, At, OneAppends
    <3>2. ~Appending'
      BY <2>4, <3>1 DEF LogAppend, Goto, LogSound, TypeOK
    <3>3. Len(lh') <= Len(lh) + 1 /\ Len(lh') \in Nat
      <4>1. blk[p] \in Blocks
        BY <2>4 DEF LogAppend, At, LogSound, CallsCounted, TypeOK
      <4> QED
        BY <2>4, <4>1 DEF LogAppend, Absorb, LogSound, TypeOK
    <3> QED
      BY <2>1, <2>4, <3>1, <3>2, <3>3, Sizes DEF LogAppend, disks
  <2>5. ASSUME lh' = lh, header' \in {header, lh},
               \A q \in Procs : pc'[q] = "append" => pc[q] = "append"
        PROVE  Room'
    BY <2>5
  <2>6. ASSUME NEW p \in Procs,
               Call(p) \/ BeginSleep(p) \/ BeginOp(p) \/ EndOp(p) \/ WriteLog(p)
                 \/ WriteHead(p) \/ InstallTrans(p) \/ EndCommit(p)
        PROVE  Room'
    BY <2>5, <2>6 DEF Call, BeginSleep, BeginOp, EndOp, WriteLog, WriteHead, InstallTrans,
       EndCommit, WakeAll, Goto, disks, LogSound, TypeOK
  <2>7. ASSUME NEW p \in Procs, ClearHead(p) PROVE Room'
    BY <2>7, Sizes DEF ClearHead, Goto, At, LogSound, CommitAlone, Committing, InOp, TypeOK
  <2>8. CASE Crash
    BY <2>8, Sizes DEF Crash, disks
  <2>9. CASE Recover
    <3>1. \A q \in Procs : pc'[q] = "idle"
      BY <2>9 DEF Recover, ReadHead, RecoverInstall, RecoverClear, calls, LogSound, CallsCounted
    <3>2. lh' \in {<<>>, lh, header} /\ header' \in {<<>>, header}
      BY <2>9 DEF Recover, ReadHead, RecoverInstall, RecoverClear, disks
    <3> QED
      BY <3>1, <3>2, Sizes
  <2> QED
    BY <2>2, <2>3, <2>4, <2>6, <2>7, <2>8, <2>9 DEF Next, CallStep, Rest
<1>3. Room => LogFits
  BY DEF LogFits
<1> HIDE DEF Room
<1> QED
  BY <1>1, <1>2, <1>3, Soundness, PTL DEF Spec

\* With one block more in the log area than mkfs gives it, the reservation of begin_op()
\* alone keeps every transaction short enough, and crash atomicity needs no condition.
THEOREM RoomyLog == NLOG > LOGSIZE => (Spec => Atomic)
<1> SUFFICES ASSUME NLOG > LOGSIZE PROVE Spec => Atomic
  OBVIOUS
<1>1. LogSound => LogFits
  BY Sizes DEF LogSound, TypeOK, HeaderFits, LogFits
<1> QED
  BY <1>1, CrashAtomicity, Soundness, PTL
=============================================================================
