-------------------------- MODULE BufferCacheProofs -------------------------
(***************************************************************************)
(* Proofs about the buffer cache, its sleep locks and the queue of the     *)
(* disk, for any processes, blocks and buffers.  BuffersSound of           *)
(* BufferCache is inductive; with CleanCopies, every step is a step of     *)
(* BlockStore.                                                             *)
(***************************************************************************)
EXTENDS BufferCache, TLAPS, FiniteSetTheorems, WellFoundedInduction

Users(b) == {p \in Procs : bp[p] = b}

\* Sets of processes and of buffers are finite.
LEMMA FiniteParts ==
  /\ \A S \in SUBSET Procs : /\ IsFiniteSet(S)
                             /\ Cardinality(S) \in 0 .. Cardinality(Procs)
  /\ \A S \in SUBSET Bufs : IsFiniteSet(S) /\ Cardinality(S) \in Nat
  /\ IsFiniteSet(Bufs) /\ Cardinality(Bufs) = NBUF
  /\ Cardinality(Procs) \in Nat
<1>1. IsFiniteSet(Bufs) /\ Cardinality(Bufs) = NBUF
  BY CacheAssumption, FS_Interval DEF Bufs
<1>2. Cardinality(Procs) \in Nat
  BY CacheAssumption, FS_CardinalityType
<1>3. ASSUME NEW S \in SUBSET Procs
      PROVE  IsFiniteSet(S) /\ Cardinality(S) \in 0 .. Cardinality(Procs)
  <2>1. IsFiniteSet(S) /\ Cardinality(S) <= Cardinality(Procs)
    BY CacheAssumption, FS_Subset
  <2> QED
    BY <1>2, <2>1, FS_CardinalityType
<1>4. ASSUME NEW S \in SUBSET Bufs PROVE IsFiniteSet(S) /\ Cardinality(S) \in Nat
  <2>1. IsFiniteSet(S)
    BY <1>1, FS_Subset
  <2> QED
    BY <2>1, FS_CardinalityType
<1> QED
  BY <1>1, <1>2, <1>3, <1>4

\* A set of buffers within LeftDirty leaves the log its room.
LEMMA StillRoom ==
  ASSUME NEW S \in SUBSET Bufs, NEW T \in SUBSET Bufs, S \subseteq T,
         Cardinality(T) <= MaxPinned
  PROVE  Cardinality(S) <= MaxPinned
<1>1. IsFiniteSet(T) /\ Cardinality(T) \in Nat /\ Cardinality(S) \in Nat
  BY FiniteParts
<1>2. Cardinality(S) <= Cardinality(T)
  BY <1>1, FS_Subset
<1> QED
  BY <1>1, <1>2, CacheAssumption

\* A set of positions that is not empty has a largest one.
LEMMA MaxIn ==
  ASSUME NEW S \in SUBSET Bufs, S # {}
  PROVE  Max(S) \in S
<1> DEFINE R == {z \in Nat \X Nat : z[1] < z[2]}
           T == {NBUF - i : i \in S}
<1>0. NBUF \in Nat /\ \A i \in S : i \in 1 .. NBUF
  BY CacheAssumption DEF Bufs
<1>1. T \subseteq Nat /\ T # {}
  <2>1. \A i \in S : NBUF - i \in Nat
    BY <1>0
  <2> QED
    BY <2>1
<1>2. \A x, y \in Nat : x < y => <<x, y>> \in R
  OBVIOUS
<1>3. IsWellFoundedOn(R, Nat)
  BY NatLessThanWellFounded, Zenon DEF OpToRel
<1> HIDE DEF R, T
<1>4. PICK x \in T : \A y \in T : ~ (<<y, x>> \in R)
  BY <1>1, <1>3, WFMin
<1>5. \A y \in T : ~(y < x)
  BY <1>1, <1>2, <1>4
<1>6. PICK i \in S : x = NBUF - i
  BY DEF T
<1>7. \A j \in S : NBUF - j \in T
  BY DEF T
<1>8. \A j \in S : i >= j
  BY <1>0, <1>5, <1>6, <1>7
<1> QED
  BY <1>8 DEF Max

\* The processes that may use a buffer at a time, and that a holder is alone.
LEMMA HolderAlone ==
  ASSUME BuffersSound, NEW p \in Procs, pc[p] \in Holding
  PROVE  /\ bp[p] \in Bufs /\ holder[bp[p]] = p
         /\ \A q \in Procs : q # p /\ bp[q] = bp[p] => pc[q] \notin Holding
<1>1. bp[p] \in Bufs
  BY DEF BuffersSound, TypeOK, BuffersCounted, Holding
<1>2. holder[bp[p]] = p
  BY <1>1 DEF BuffersSound, BuffersCounted
<1>3. ASSUME NEW q \in Procs, q # p, bp[q] = bp[p], pc[q] \in Holding PROVE FALSE
  <2>1. holder[bp[p]] = q
    BY <1>1, <1>3 DEF BuffersSound, BuffersCounted
  <2> QED
    BY <1>2, <1>3, <2>1
<1> QED
  BY <1>1, <1>2, <1>3

\* The initial state is sound.
LEMMA InitSound == Init => BuffersSound
<1> SUFFICES ASSUME Init PROVE BuffersSound
  OBVIOUS
<1> USE CacheAssumption DEF Init
<1>1. \A b \in Bufs : NBUF + 1 - b \in Bufs
  BY DEF Bufs
<1>2. 0 \in 0 .. Cardinality(Procs) /\ 0 \in Values
  BY FiniteParts DEF Values
<1>3. TypeOK
  <2>1. mru \in [Bufs -> Bufs] /\ IsInjective(mru)
    BY <1>1 DEF Bufs, IsInjective
  <2>2. idequeue \in Seq(Bufs) /\ IsInjective(idequeue)
    BY DEF IsInjective
  <2> QED
    BY <1>2, <2>1, <2>2 DEF TypeOK
<1>4. BufferStays
  BY DEF BufferStays
<1>5. NeverOut
  BY DEF NeverOut
<1>6. BuffersCounted
  <2>1. \A b \in Bufs : \E i \in Bufs : mru[i] = b
    <3> SUFFICES ASSUME NEW b \in Bufs PROVE mru[NBUF + 1 - b] = b
      BY <1>1
    <3> QED
      BY <1>1 DEF Bufs
  <2>2. \A b \in Bufs : {p \in Procs : bp[p] = b} = {}
    BY DEF Bufs
  <2>3. \A b \in Bufs : refcnt[b] = Cardinality({p \in Procs : bp[p] = b})
    BY <2>2, FS_EmptySet
  <2> QED
    BY <2>1, <2>3 DEF BuffersCounted, Holding
<1>7. FlagsRight
  BY DEF FlagsRight, Writing
<1>8. SleepersExpected
  BY DEF SleepersExpected, Range, Waiting
<1>9. Cardinality(LeftDirty) <= MaxPinned
  <2>1. LeftDirty = {}
    BY DEF LeftDirty
  <2> QED
    BY <2>1, FS_EmptySet
<1> QED
  BY <1>3, <1>4, <1>5, <1>6, <1>7, <1>8, <1>9 DEF BuffersSound

-----------------------------------------------------------------------------
(* BuffersSound is inductive: bget() *)

\* A process takes buffer b, which is the buffer of block k from now on, in bget(): b is
\* counted once more, and nobody holds it if it was not in use.
LEMMA TakeBuffer ==
  ASSUME BuffersSound, NEW p \in Procs, NEW b \in Bufs, NEW k \in Blocks,
         At(p, "idle"), Goto(p, "acquire"),
         bp' = [bp EXCEPT ![p] = b], want' = [want EXCEPT ![p] = k],
         refcnt' = [refcnt EXCEPT ![b] = @ + 1],
         blockno'[b] = k, blockno' \in [Bufs -> Blocks \cup {None}],
         \A c \in Bufs : c # b => blockno'[c] = blockno[c] /\ blockno[c] # k,
         \/ UNCHANGED <<valid, dirty, blockno>>
         \/ /\ refcnt[b] = 0 /\ ~dirty[b] /\ dirty' = dirty
            /\ valid' = [valid EXCEPT ![b] = FALSE],
         UNCHANGED <<data, mru, holder, idequeue, disk, panicked, writes>>
  PROVE  BuffersSound'
<1> USE DEF BuffersSound, At, Goto
<1>1. /\ pc'[p] = "acquire" /\ bp'[p] = b /\ want'[p] = k
      /\ \A q \in Procs : q # p => pc'[q] = pc[q] /\ bp'[q] = bp[q] /\ want'[q] = want[q]
  BY DEF TypeOK
<1>2. bp[p] = None /\ None \notin Bufs
  BY CacheAssumption DEF BuffersCounted, Bufs
<1>3. \A q \in Procs : refcnt[b] = 0 => bp[q] # b
  <2> SUFFICES ASSUME NEW q \in Procs, refcnt[b] = 0, bp[q] = b PROVE FALSE
    OBVIOUS
  <2>1. Cardinality(Users(b)) = 0 /\ Users(b) \in SUBSET Procs /\ q \in Users(b)
    BY DEF BuffersCounted, Users
  <2>2. IsFiniteSet(Users(b))
    BY <2>1, FiniteParts
  <2> QED
    BY <2>1, <2>2, FS_EmptySet
<1>4. \A c \in Bufs : refcnt'[c] = Cardinality({q \in Procs : bp'[q] = c})
  <2> SUFFICES ASSUME NEW c \in Bufs
               PROVE  refcnt'[c] = Cardinality({q \in Procs : bp'[q] = c})
    OBVIOUS
  <2>1. refcnt[c] = Cardinality(Users(c)) /\ IsFiniteSet(Users(c)) /\ p \notin Users(c)
    BY <1>2, FiniteParts DEF BuffersCounted, Users
  <2>2. CASE c = b
    <3>1. {q \in Procs : bp'[q] = c} = Users(c) \cup {p}
      BY <1>1, <2>2 DEF Users
    <3>2. Cardinality(Users(c) \cup {p}) = Cardinality(Users(c)) + 1
      BY <2>1, FS_AddElement
    <3>3. refcnt'[c] = refcnt[c] + 1
      BY <2>2 DEF TypeOK
    <3> QED
      BY <2>1, <3>1, <3>2, <3>3
  <2>3. CASE c # b
    <3>1. {q \in Procs : bp'[q] = c} = Users(c)
      BY <1>1, <1>2, <2>3 DEF Users
    <3>2. refcnt'[c] = refcnt[c]
      BY <2>3 DEF TypeOK
    <3> QED
      BY <2>1, <3>1, <3>2
  <2> QED
    BY <2>2, <2>3
<1>5. TypeOK'
  <2>1. refcnt' \in [Bufs -> 0 .. Cardinality(Procs)]
    <3>1. \A c \in Bufs : refcnt'[c] \in 0 .. Cardinality(Procs)
      BY <1>4, FiniteParts
    <3>2. refcnt' = [c \in Bufs |-> refcnt'[c]]
      BY DEF TypeOK
    <3> QED
      BY <3>1, <3>2
  <2>2. pc' \in [Procs -> Holding \cup {"idle", "acquire", "locksleep", "unref"}]
    BY DEF TypeOK
  <2>3. valid' \in [Bufs -> BOOLEAN] /\ dirty' \in [Bufs -> BOOLEAN]
    BY DEF TypeOK
  <2>4. want' \in [Procs -> Blocks \cup {None}] /\ bp' \in [Procs -> Bufs \cup {None}]
    BY DEF TypeOK
  <2> QED
    BY <2>1, <2>2, <2>3, <2>4 DEF TypeOK
<1>6. BufferStays'
  <2>1. ASSUME NEW q \in Procs, bp'[q] # None PROVE blockno'[bp'[q]] = want'[q]
    <3>1. CASE q = p
      BY <1>1, <3>1
    <3>2. CASE q # p
      <4>1. bp'[q] = bp[q] /\ want'[q] = want[q] /\ bp[q] \in Bufs /\ blockno[bp[q]] = want[q]
        BY <1>1, <2>1, <3>2 DEF TypeOK, BufferStays
      <4>2. CASE bp[q] = b
        BY <4>1, <4>2, <1>3
      <4>3. CASE bp[q] # b
        BY <4>1, <4>3
      <4> QED
        BY <4>2, <4>3
    <3> QED
      BY <3>1, <3>2
  <2>2. ASSUME NEW c \in Bufs, NEW d \in Bufs, c # d, blockno'[c] = blockno'[d]
        PROVE  blockno'[c] = None
    BY <2>2 DEF BufferStays, TypeOK
  <2> QED
    BY <2>1, <2>2 DEF BufferStays
<1>7. NeverOut'
  BY DEF NeverOut
<1>8. BuffersCounted'
  <2>1. \A q \in Procs : /\ bp'[q] = None <=> pc'[q] = "idle"
                         /\ bp'[q] = None <=> want'[q] = None
    BY <1>1, <1>2, CacheAssumption DEF BuffersCounted
  <2>2. \A c \in Bufs, q \in Procs : holder'[c] = q <=> bp'[q] = c /\ pc'[q] \in Holding
    <3> SUFFICES ASSUME NEW c \in Bufs, NEW q \in Procs
                 PROVE  holder'[c] = q <=> bp'[q] = c /\ pc'[q] \in Holding
      OBVIOUS
    <3>1. holder[c] = q <=> bp[q] = c /\ pc[q] \in Holding
      BY DEF BuffersCounted
    <3>2. CASE q = p
      BY <1>1, <1>2, <3>1, <3>2 DEF Holding
    <3>3. CASE q # p
      BY <1>1, <3>1, <3>3
    <3> QED
      BY <3>2, <3>3
  <2>3. \A c \in Bufs : \E i \in Bufs : mru'[i] = c
    BY DEF BuffersCounted
  <2> HIDE DEF BuffersSound
  <2> QED
    BY <1>4, <2>1, <2>2, <2>3 DEF BuffersCounted
<1>9. FlagsRight'
  <2>1. \A c \in Bufs : (dirty'[c] => valid'[c]) /\ (valid'[c] => blockno'[c] # None)
    <3> SUFFICES ASSUME NEW c \in Bufs
                 PROVE  (dirty'[c] => valid'[c]) /\ (valid'[c] => blockno'[c] # None)
      OBVIOUS
    <3>1. (dirty[c] => valid[c]) /\ (valid[c] => blockno[c] # None)
      BY DEF FlagsRight
    <3>2. CASE c = b
      BY <3>1, <3>2, CacheAssumption DEF TypeOK
    <3>3. CASE c # b
      BY <3>1, <3>3 DEF TypeOK
    <3> QED
      BY <3>2, <3>3
  <2>2. ASSUME NEW q \in Procs
        PROVE  /\ pc'[q] \in {"readrw", "readwait"} => ~valid'[bp'[q]]
               /\ pc'[q] \in {"held", "written"} \cup Writing => valid'[bp'[q]]
               /\ pc'[q] \in Writing => dirty'[bp'[q]]
               /\ pc'[q] \in {"readwoken", "writewoken"} => valid'[bp'[q]] /\ ~dirty'[bp'[q]]
    <3>1. CASE q = p
      BY <1>1, <3>1 DEF Writing
    <3>2. CASE q # p /\ bp[q] = None
      BY <1>1, <3>2 DEF Writing, BuffersCounted
    <3>3. CASE q # p /\ bp[q] # None
      <4>1. bp'[q] = bp[q] /\ pc'[q] = pc[q] /\ bp[q] \in Bufs
        BY <1>1, <3>3 DEF TypeOK
      <4>2. valid'[bp[q]] = valid[bp[q]] /\ dirty'[bp[q]] = dirty[bp[q]]
        BY <1>3, <4>1 DEF TypeOK
      <4> QED
        BY <4>1, <4>2 DEF FlagsRight
    <3> QED
      BY <3>1, <3>2, <3>3
  <2> QED
    BY <2>1, <2>2 DEF FlagsRight
<1>10. SleepersExpected'
  <2>1. \A c \in Bufs : (\E q \in Procs : bp'[q] = c /\ pc'[q] \in Waiting)
                        <=> \E q \in Procs : bp[q] = c /\ pc[q] \in Waiting
    BY <1>1, <1>2 DEF Waiting
  <2>2. \A q \in Procs : pc'[q] = "locksleep" => holder'[bp'[q]] # None
    BY <1>1 DEF SleepersExpected
  <2> QED
    BY <2>1, <2>2 DEF SleepersExpected, Range
<1>11. Cardinality(LeftDirty') <= MaxPinned
  <2>1. LeftDirty' \subseteq LeftDirty
    BY <1>1, <1>2 DEF LeftDirty, Writing
  <2>2. LeftDirty' \in SUBSET Bufs /\ LeftDirty \in SUBSET Bufs
    BY DEF LeftDirty
  <2> QED
    BY <2>1, <2>2, StillRoom
<1> QED
  BY <1>5, <1>6, <1>7, <1>8, <1>9, <1>10, <1>11

\* bget() finds the block.
LEMMA BgetHitSound ==
  ASSUME BuffersSound, NEW p \in Procs, NEW k \in Blocks, BgetHit(p, k)
  PROVE  BuffersSound'
<1>1. PICK b \in Bufs : /\ blockno[b] = k
                        /\ refcnt' = [refcnt EXCEPT ![b] = @ + 1]
                        /\ bp' = [bp EXCEPT ![p] = b]
  BY DEF BgetHit, Cached
<1>2. \A c \in Bufs : c # b => blockno[c] # k
  BY <1>1, CacheAssumption DEF BuffersSound, BufferStays
<1>3. blockno' \in [Bufs -> Blocks \cup {None}] /\ blockno' = blockno
  BY DEF BgetHit, BuffersSound, TypeOK
<1> QED
  BY <1>1, <1>2, <1>3, TakeBuffer DEF BgetHit

\* Recycling finds a buffer, if there are enough: those that other processes have and
\* those that the log has pinned are not all.
LEMMA Enough ==
  ASSUME BuffersSound, NEW p \in Procs, pc[p] = "idle",
         NBUF >= MaxPinned + Cardinality(Procs)
  PROVE  Recyclable # {}
<1> SUFFICES ASSUME Recyclable = {} PROVE FALSE
  OBVIOUS
<1> DEFINE others == Procs \ {p}
           taken == {bp[q] : q \in others}
<1>1. \A b \in Bufs : refcnt[b] # 0 \/ dirty[b]
  <2> SUFFICES ASSUME NEW b \in Bufs, refcnt[b] = 0, ~dirty[b] PROVE FALSE
    OBVIOUS
  <2>1. PICK i \in Bufs : mru[i] = b
    BY DEF BuffersSound, BuffersCounted
  <2>2. i \in Recyclable
    BY <2>1 DEF Recyclable
  <2> QED
    BY <2>2
<1>2. Bufs \subseteq taken \cup LeftDirty
  <2> SUFFICES ASSUME NEW b \in Bufs, b \notin taken PROVE b \in LeftDirty
    OBVIOUS
  <2>1. bp[p] = None /\ None \notin Bufs
    BY CacheAssumption DEF BuffersSound, BuffersCounted, Bufs
  <2>2. {q \in Procs : bp[q] = b} = {}
    BY <2>1
  <2>3. refcnt[b] = 0
    <3>1. refcnt[b] = Cardinality({q \in Procs : bp[q] = b})
      BY DEF BuffersSound, BuffersCounted
    <3> QED
      BY <2>2, <3>1, FS_EmptySet
  <2> QED
    BY <1>1, <2>2, <2>3 DEF LeftDirty
<1>3. IsFiniteSet(others) /\ Cardinality(others) = Cardinality(Procs) - 1
  BY CacheAssumption, FS_RemoveElement
<1>4. IsFiniteSet(taken) /\ Cardinality(taken) <= Cardinality(others)
  <2>1. [q \in others |-> bp[q]] \in Surjection(others, taken)
    BY DEF Surjection
  <2> HIDE DEF others, taken
  <2> QED
    BY <1>3, <2>1, FS_Surjection
<1>5. IsFiniteSet(LeftDirty) /\ Cardinality(LeftDirty) \in Nat /\ Cardinality(LeftDirty) <= MaxPinned
  BY FiniteParts DEF BuffersSound, LeftDirty
<1> HIDE DEF taken
<1>6. /\ IsFiniteSet(taken \cup LeftDirty)
      /\ Cardinality(taken \cup LeftDirty) <= Cardinality(taken) + Cardinality(LeftDirty)
  <2>1. Cardinality(taken \cup LeftDirty) =
          Cardinality(taken) + Cardinality(LeftDirty) - Cardinality(taken \cap LeftDirty)
    BY <1>4, <1>5, FS_Union
  <2>2. Cardinality(taken \cap LeftDirty) \in Nat
    BY <1>4, FS_Intersection, FS_CardinalityType
  <2>3. IsFiniteSet(taken \cup LeftDirty)
    BY <1>4, <1>5, FS_Union
  <2>4. Cardinality(taken) \in Nat
    BY <1>4, FS_CardinalityType
  <2> QED
    BY <2>1, <2>2, <2>3, <2>4, <1>5
<1>7. Cardinality(Bufs) <= Cardinality(taken \cup LeftDirty)
  BY <1>2, <1>6, FS_Subset
<1>8. /\ Cardinality(Bufs) = NBUF /\ Cardinality(Procs) \in Nat /\ Cardinality(taken) \in Nat
      /\ Cardinality(taken \cup LeftDirty) \in Nat
  BY FiniteParts, <1>4, <1>6, FS_CardinalityType
<1> HIDE DEF others
<1> QED
  BY <1>3, <1>4, <1>5, <1>6, <1>7, <1>8, CacheAssumption

\* A step that panics changes nothing else, and only bget() panics, when it is out of
\* buffers.
LEMMA PanicSound ==
  ASSUME BuffersSound, NBUF < MaxPinned + Cardinality(Procs), panicked' = TRUE,
         UNCHANGED <<bufs, mru, holder, idequeue, disk, procs, writes>>
  PROVE  BuffersSound'
<1> USE DEF BuffersSound, bufs, procs
<1>1. TypeOK'
  BY DEF TypeOK
<1>2. NeverOut'
  BY FiniteParts, CacheAssumption DEF NeverOut
<1>3. BufferStays' /\ BuffersCounted' /\ FlagsRight' /\ SleepersExpected'
  BY DEF BufferStays, BuffersCounted, FlagsRight, SleepersExpected, Range
<1>4. LeftDirty' = LeftDirty
  BY DEF LeftDirty
<1> QED
  BY <1>1, <1>2, <1>3, <1>4

\* What bget() recycles is a buffer that nobody uses.
LEMMA Recycled ==
  ASSUME BuffersSound, NEW p \in Procs, NEW k \in Blocks, BgetRecycle(p, k), Recyclable # {}
  PROVE  \E b \in Bufs :
           /\ refcnt[b] = 0 /\ ~dirty[b] /\ Cached(k) = {}
           /\ blockno' = [blockno EXCEPT ![b] = k]
           /\ valid' = [valid EXCEPT ![b] = FALSE]
           /\ dirty' = dirty
           /\ refcnt' = [refcnt EXCEPT ![b] = @ + 1]
           /\ bp' = [bp EXCEPT ![p] = b] /\ want' = [want EXCEPT ![p] = k]
           /\ At(p, "idle") /\ Goto(p, "acquire")
           /\ UNCHANGED <<data, mru, holder, idequeue, disk, panicked, writes>>
<1> DEFINE b == mru[Max(Recyclable)]
<1>1. Max(Recyclable) \in Recyclable
  <2>1. Recyclable \in SUBSET Bufs
    BY DEF Recyclable
  <2> QED
    BY <2>1, MaxIn
<1>2. b \in Bufs /\ refcnt[b] = 0 /\ ~dirty[b]
  BY <1>1 DEF Recyclable, BuffersSound, TypeOK
<1>3. /\ blockno' = [blockno EXCEPT ![b] = k]
      /\ valid' = [valid EXCEPT ![b] = FALSE]
      /\ dirty' = [dirty EXCEPT ![b] = FALSE]
      /\ refcnt' = [refcnt EXCEPT ![b] = 1]
      /\ bp' = [bp EXCEPT ![p] = b] /\ want' = [want EXCEPT ![p] = k]
      /\ At(p, "idle") /\ Goto(p, "acquire") /\ Cached(k) = {}
      /\ UNCHANGED <<data, mru, holder, idequeue, disk, panicked, writes>>
  BY DEF BgetRecycle
<1> HIDE DEF b
<1>4. refcnt' = [refcnt EXCEPT ![b] = @ + 1]
  BY <1>2, <1>3 DEF BuffersSound, TypeOK
<1>5. dirty' = dirty
  BY <1>2, <1>3 DEF BuffersSound, TypeOK
<1> QED
  BY <1>2, <1>3, <1>4, <1>5

\* Without a buffer to recycle bget() panics, and has nothing else changed.
LEMMA OutOfBuffers ==
  ASSUME NEW p \in Procs, NEW k \in Blocks, BgetRecycle(p, k), Recyclable = {}
  PROVE  panicked' = TRUE /\ UNCHANGED <<bufs, mru, holder, idequeue, disk, procs, writes>>
  BY DEF BgetRecycle, bufs

\* bget() recycles a buffer, or panics.
LEMMA BgetRecycleSound ==
  ASSUME BuffersSound, NEW p \in Procs, NEW k \in Blocks, BgetRecycle(p, k)
  PROVE  BuffersSound'
<1>1. CASE Recyclable = {}
  <2>1. panicked' = TRUE /\ UNCHANGED <<bufs, mru, holder, idequeue, disk, procs, writes>>
    BY <1>1, OutOfBuffers
  <2>2. NBUF < MaxPinned + Cardinality(Procs)
    BY <1>1, Enough, FiniteParts, CacheAssumption DEF BgetRecycle, At
  <2> QED
    BY <2>1, <2>2, PanicSound
<1>2. CASE Recyclable # {}
  <2>1. PICK b \in Bufs :
           /\ refcnt[b] = 0 /\ ~dirty[b] /\ Cached(k) = {}
           /\ blockno' = [blockno EXCEPT ![b] = k]
           /\ valid' = [valid EXCEPT ![b] = FALSE]
           /\ dirty' = dirty
           /\ refcnt' = [refcnt EXCEPT ![b] = @ + 1]
           /\ bp' = [bp EXCEPT ![p] = b] /\ want' = [want EXCEPT ![p] = k]
           /\ At(p, "idle") /\ Goto(p, "acquire")
           /\ UNCHANGED <<data, mru, holder, idequeue, disk, panicked, writes>>
    BY <1>2, Recycled
  <2>2. /\ blockno'[b] = k /\ blockno' \in [Bufs -> Blocks \cup {None}]
        /\ \A c \in Bufs : c # b => blockno'[c] = blockno[c] /\ blockno[c] # k
    BY <2>1 DEF BuffersSound, TypeOK, Cached
  <2>3. /\ UNCHANGED <<data, mru, holder, idequeue, disk, panicked, writes>>
        /\ \/ UNCHANGED <<valid, dirty, blockno>>
           \/ /\ refcnt[b] = 0 /\ ~dirty[b] /\ dirty' = dirty
              /\ valid' = [valid EXCEPT ![b] = FALSE]
        /\ bp' = [bp EXCEPT ![p] = b] /\ want' = [want EXCEPT ![p] = k]
        /\ At(p, "idle") /\ Goto(p, "acquire") /\ b \in Bufs
        /\ refcnt' = [refcnt EXCEPT ![b] = @ + 1]
    BY <2>1
  <2> QED
    BY <2>2, <2>3, TakeBuffer
<1> QED
  BY <1>1, <1>2

-----------------------------------------------------------------------------
(* BuffersSound is inductive: sleep locks, the disk, and brelse() *)

\* A process that goes on with its buffer changes nothing that is counted.
LEMMA SameUsers ==
  ASSUME BuffersSound, UNCHANGED <<blockno, refcnt, mru, want, bp>>,
         \A q \in Procs : pc'[q] = "idle" <=> pc[q] = "idle",
         \A b \in Bufs, q \in Procs : holder'[b] = q <=> bp[q] = b /\ pc'[q] \in Holding
  PROVE  BufferStays' /\ BuffersCounted'
<1>1. BufferStays'
  BY DEF BuffersSound, BufferStays
<1>2. \A b \in Bufs : /\ \E i \in Bufs : mru'[i] = b
                      /\ refcnt'[b] = Cardinality({p \in Procs : bp'[p] = b})
  BY DEF BuffersSound, BuffersCounted
<1>3. \A p \in Procs : /\ bp'[p] = None <=> pc'[p] = "idle"
                       /\ bp'[p] = None <=> want'[p] = None
  BY DEF BuffersSound, BuffersCounted
<1>4. \A b \in Bufs, p \in Procs : holder'[b] = p <=> bp'[p] = b /\ pc'[p] \in Holding
  OBVIOUS
<1> QED
  BY <1>1, <1>2, <1>3, <1>4 DEF BuffersCounted

\* acquiresleep() takes the lock, or sleeps while it has a holder.
LEMMA AcquireSleepSound ==
  ASSUME BuffersSound, NEW p \in Procs, AcquireSleep(p)
  PROVE  BuffersSound'
<1> USE DEF BuffersSound, AcquireSleep, At, Goto, bufs
<1> DEFINE b == bp[p]
<1>1. b \in Bufs /\ b # None
  BY DEF TypeOK, BuffersCounted
<1>2. /\ pc'[p] \in {"locksleep", "held", "readrw"}
      /\ \A q \in Procs : q # p => pc'[q] = pc[q]
      /\ pc' \in [Procs -> Holding \cup {"idle", "acquire", "locksleep", "unref"}]
      /\ pc'[p] = "locksleep" <=> holder[b] # None
      /\ pc'[p] = "held" => valid[b]
      /\ pc'[p] = "readrw" => ~valid[b]
  BY DEF TypeOK, Holding
<1>3. /\ holder' \in [Bufs -> Procs \cup {None}]
      /\ \A c \in Bufs : c # b => holder'[c] = holder[c]
      /\ holder'[b] # None
      /\ pc'[p] = "locksleep" => holder'[b] = holder[b]
      /\ pc'[p] # "locksleep" => holder'[b] = p /\ holder[b] = None
  <2>1. p # None /\ None \notin Procs
    BY CacheAssumption
  <2>2. CASE holder[b] = None
    <3>1. holder' = [holder EXCEPT ![b] = p] /\ pc'[p] # "locksleep"
      BY <1>2, <2>2
    <3> QED
      BY <1>1, <2>1, <2>2, <3>1 DEF TypeOK
  <2>3. CASE holder[b] # None
    <3>1. holder' = holder /\ pc'[p] = "locksleep"
      BY <1>2, <2>3
    <3> QED
      BY <1>1, <2>3, <3>1 DEF TypeOK
  <2> QED
    BY <2>2, <2>3
<1> HIDE DEF AcquireSleep
<1>4. UNCHANGED <<bufs, mru, idequeue, disk, want, bp, panicked, writes>>
  BY DEF AcquireSleep
<1>5. TypeOK' /\ NeverOut'
  BY <1>2, <1>3, <1>4 DEF TypeOK, NeverOut
<1>6. \A c \in Bufs, q \in Procs : holder'[c] = q <=> bp[q] = c /\ pc'[q] \in Holding
  <2> SUFFICES ASSUME NEW c \in Bufs, NEW q \in Procs
               PROVE  holder'[c] = q <=> bp[q] = c /\ pc'[q] \in Holding
    OBVIOUS
  <2>1. holder[c] = q <=> bp[q] = c /\ pc[q] \in Holding
    BY DEF BuffersCounted
  <2>2. CASE q = p
    <3>1. pc[q] \notin Holding /\ p # None
      BY <2>2, CacheAssumption DEF AcquireSleep, Holding
    <3>2. pc'[q] \in Holding <=> pc'[q] # "locksleep"
      BY <1>2, <2>2 DEF Holding
    <3>3. c # b => holder'[c] # p
      BY <1>3, <2>1, <2>2, <3>1
    <3>4. c = b => (holder'[c] = p <=> pc'[p] # "locksleep")
      BY <1>3, <2>1, <2>2, <3>1
    <3> QED
      BY <2>2, <3>2, <3>3, <3>4
  <2>3. CASE q # p
    <3>1. pc'[q] = pc[q]
      BY <1>2, <2>3
    <3>2. holder'[c] = q <=> holder[c] = q
      BY <1>3, <2>3, CacheAssumption
    <3> QED
      BY <2>1, <3>1, <3>2
  <2> QED
    BY <2>2, <2>3
<1>7. BufferStays' /\ BuffersCounted'
  <2>1. \A q \in Procs : pc'[q] = "idle" <=> pc[q] = "idle"
    BY <1>2 DEF AcquireSleep
  <2>2. UNCHANGED <<blockno, refcnt, mru, want, bp>>
    BY <1>4
  <2> QED
    BY <1>6, <2>1, <2>2, SameUsers
<1>8. FlagsRight'
  BY <1>1, <1>2, <1>4 DEF FlagsRight, Writing
<1>9. SleepersExpected'
  <2>1. \A q \in Procs : pc'[q] \in Waiting <=> pc[q] \in Waiting
    BY <1>2 DEF AcquireSleep, Waiting
  <2>2. \A q \in Procs : pc'[q] = "locksleep" => holder'[bp'[q]] # None
    <3> SUFFICES ASSUME NEW q \in Procs, pc'[q] = "locksleep" PROVE holder'[bp[q]] # None
      BY <1>4
    <3>1. q # p => bp[q] \in Bufs /\ holder[bp[q]] # None
      BY <1>2 DEF SleepersExpected, TypeOK, BuffersCounted
    <3> QED
      BY <1>1, <1>3, <3>1
  <2> QED
    BY <1>4, <2>1, <2>2 DEF SleepersExpected, Range
<1>10. LeftDirty' = LeftDirty
  <2>1. \A q \in Procs : pc'[q] \in Writing <=> pc[q] \in Writing
    BY <1>2 DEF AcquireSleep, Writing
  <2> QED
    BY <1>4, <2>1 DEF LeftDirty
<1> QED
  BY <1>5, <1>7, <1>8, <1>9, <1>10

\* iderw() puts the buffer into the queue; it never panics.
LEMMA IdeRwSound ==
  ASSUME BuffersSound, NEW p \in Procs, IdeRw(p)
  PROVE  BuffersSound'
<1> USE DEF BuffersSound, At, Goto, bufs
<1> DEFINE b == bp[p]
           on == IF pc[p] = "readrw" THEN "readwait" ELSE "writewait"
<1>1. /\ b \in Bufs /\ holder[b] = p /\ pc[p] \in {"readrw", "writerw"} /\ pc[p] \in Holding
      /\ \A q \in Procs : q # p /\ bp[q] = b => pc[q] \notin Holding
  BY HolderAlone DEF IdeRw, Holding
<1>2. ~(valid[b] /\ ~dirty[b])
  BY <1>1 DEF FlagsRight, Writing
<1>3. idequeue' = Append(idequeue, b) /\ pc' = [pc EXCEPT ![p] = on] /\ panicked' = panicked
  BY <1>1, <1>2 DEF IdeRw
<1>4. UNCHANGED <<bufs, mru, holder, disk, want, bp, writes>>
  BY DEF IdeRw
<1>5. /\ pc'[p] = on /\ on \in Waiting /\ (on = "writewait" <=> pc[p] = "writerw")
      /\ \A q \in Procs : q # p => pc'[q] = pc[q]
      /\ pc' \in [Procs -> Holding \cup {"idle", "acquire", "locksleep", "unref"}]
  BY <1>1, <1>3 DEF TypeOK, Holding, Waiting
<1> HIDE DEF on
<1>6. b \notin Range(idequeue)
  BY <1>1 DEF SleepersExpected, Waiting, Holding
<1>7. /\ idequeue' \in Seq(Bufs) /\ IsInjective(idequeue')
      /\ Range(idequeue') = Range(idequeue) \cup {b}
  <2>0. idequeue \in Seq(Bufs) /\ IsInjective(idequeue)
    BY DEF TypeOK
  <2>1. /\ idequeue' \in Seq(Bufs) /\ Len(idequeue') = Len(idequeue) + 1
        /\ \A i \in 1 .. Len(idequeue) : idequeue'[i] = idequeue[i]
        /\ idequeue'[Len(idequeue) + 1] = b /\ Len(idequeue) \in Nat
    BY <1>1, <1>3, <2>0
  <2>2. \A i \in 1 .. Len(idequeue) : idequeue[i] # b
    BY <1>6, <2>0 DEF Range
  <2>3. IsInjective(idequeue')
    BY <2>0, <2>1, <2>2 DEF IsInjective
  <2>4. Range(idequeue') = Range(idequeue) \cup {b}
    BY <2>0, <2>1 DEF Range
  <2> QED
    BY <2>1, <2>3, <2>4
<1>8. TypeOK' /\ NeverOut'
  BY <1>3, <1>4, <1>5, <1>7 DEF TypeOK, NeverOut
<1>9. \A c \in Bufs, q \in Procs : holder'[c] = q <=> bp[q] = c /\ pc'[q] \in Holding
  BY <1>1, <1>4, <1>5 DEF BuffersCounted, Holding, Waiting
<1>10. BufferStays' /\ BuffersCounted'
  BY <1>1, <1>4, <1>5, <1>9, SameUsers DEF Holding, Waiting
<1>11. FlagsRight'
  BY <1>1, <1>2, <1>4, <1>5 DEF FlagsRight, Writing, Waiting
<1>12. SleepersExpected'
  <2>1. ASSUME NEW c \in Bufs
        PROVE  c \in Range(idequeue') <=> \E q \in Procs : bp'[q] = c /\ pc'[q] \in Waiting
    <3>1. CASE c = b
      BY <1>4, <1>5, <1>7, <3>1
    <3>2. CASE c # b
      BY <1>4, <1>5, <1>7, <3>2 DEF SleepersExpected
    <3> QED
      BY <3>1, <3>2
  <2>2. \A q \in Procs : pc'[q] = "locksleep" => holder'[bp'[q]] # None
    BY <1>4, <1>5 DEF SleepersExpected, Waiting
  <2> QED
    BY <2>1, <2>2 DEF SleepersExpected
<1>13. LeftDirty' \subseteq LeftDirty
  BY <1>1, <1>4, <1>5 DEF LeftDirty, Writing, Waiting
<1>14. Cardinality(LeftDirty') <= MaxPinned
  BY <1>13, StillRoom DEF LeftDirty
<1> QED
  BY <1>8, <1>10, <1>11, <1>12, <1>14

\* The loop of iderw() ends: the transfer is done when the process is woken.
LEMMA IdeDoneSound ==
  ASSUME BuffersSound, NEW p \in Procs, IdeDone(p)
  PROVE  /\ BuffersSound'
         /\ pc' = [pc EXCEPT ![p] = IF pc[p] = "readwoken" THEN "held" ELSE "written"]
<1> USE DEF BuffersSound, At, Goto, bufs
<1> DEFINE b == bp[p]
           on == IF pc[p] = "readwoken" THEN "held" ELSE "written"
<1>1. /\ b \in Bufs /\ holder[b] = p /\ pc[p] \in {"readwoken", "writewoken"}
      /\ pc[p] \in Holding /\ valid[b] /\ ~dirty[b]
  BY HolderAlone DEF IdeDone, Holding, FlagsRight
<1>2. pc' = [pc EXCEPT ![p] = on]
  BY <1>1 DEF IdeDone
<1>3. UNCHANGED <<bufs, mru, holder, idequeue, disk, want, bp, panicked, writes>>
  BY DEF IdeDone
<1>4. /\ pc'[p] = on /\ on \in {"held", "written"}
      /\ \A q \in Procs : q # p => pc'[q] = pc[q]
      /\ pc' \in [Procs -> Holding \cup {"idle", "acquire", "locksleep", "unref"}]
  BY <1>2 DEF TypeOK, Holding
<1>5. /\ TypeOK' /\ NeverOut'
  BY <1>3, <1>4 DEF TypeOK, NeverOut
<1>6. \A q \in Procs : /\ pc'[q] \in Holding <=> pc[q] \in Holding
                       /\ pc'[q] = "idle" <=> pc[q] = "idle"
                       /\ pc'[q] \in Waiting <=> pc[q] \in Waiting
                       /\ pc'[q] \in Writing <=> pc[q] \in Writing
                       /\ pc'[q] = "locksleep" <=> pc[q] = "locksleep"
  BY <1>1, <1>4 DEF Holding, Waiting, Writing
<1>7. \A c \in Bufs, q \in Procs : holder'[c] = q <=> bp[q] = c /\ pc'[q] \in Holding
  BY <1>3, <1>6 DEF BuffersCounted
<1>8. BufferStays' /\ BuffersCounted'
  BY <1>3, <1>6, <1>7, SameUsers
<1>9. FlagsRight'
  BY <1>1, <1>3, <1>4 DEF FlagsRight, Writing
<1>10. SleepersExpected' /\ LeftDirty' = LeftDirty
  BY <1>3, <1>6 DEF SleepersExpected, LeftDirty, Range
<1> QED
  BY <1>2, <1>5, <1>8, <1>9, <1>10

\* The holder of a buffer makes it dirty, with new data or with the old, and goes on at
\* iderw() or with the buffer pinned.
LEMMA DirtySound ==
  ASSUME BuffersSound, NEW p \in Procs, At(p, "held"), NEW point \in {"writerw", "written"},
         Goto(p, point), dirty' = [dirty EXCEPT ![bp[p]] = TRUE],
         data' \in [Bufs -> Values], writes' \in Values,
         point = "written" => Cardinality(Pinned \cup {bp[p]}) <= MaxPinned,
         UNCHANGED <<blockno, valid, refcnt, mru, holder, idequeue, disk, want, bp, panicked>>
  PROVE  BuffersSound'
<1> USE DEF BuffersSound, At, Goto
<1> DEFINE b == bp[p]
<1>1. /\ b \in Bufs /\ holder[b] = p /\ pc[p] \in Holding /\ valid[b]
      /\ \A q \in Procs : q # p /\ bp[q] = b => pc[q] \notin Holding
  BY HolderAlone DEF Holding, FlagsRight
<1>2. /\ pc'[p] = point
      /\ \A q \in Procs : q # p => pc'[q] = pc[q]
      /\ pc' \in [Procs -> Holding \cup {"idle", "acquire", "locksleep", "unref"}]
  BY DEF TypeOK, Holding
<1>3. /\ dirty' \in [Bufs -> BOOLEAN] /\ dirty'[b] = TRUE
      /\ \A c \in Bufs : c # b => dirty'[c] = dirty[c]
  BY <1>1 DEF TypeOK
<1>4. TypeOK' /\ NeverOut'
  BY <1>2, <1>3 DEF TypeOK, NeverOut
<1>5. \A q \in Procs : /\ pc'[q] \in Holding <=> pc[q] \in Holding
                       /\ pc'[q] = "idle" <=> pc[q] = "idle"
                       /\ pc'[q] \in Waiting <=> pc[q] \in Waiting
                       /\ pc'[q] = "locksleep" <=> pc[q] = "locksleep"
  BY <1>2 DEF Holding, Waiting
<1>6. \A c \in Bufs, q \in Procs : holder'[c] = q <=> bp[q] = c /\ pc'[q] \in Holding
  BY <1>5 DEF BuffersCounted
<1>7. BufferStays' /\ BuffersCounted'
  BY <1>5, <1>6, SameUsers
<1>8. FlagsRight'
  <2>1. \A c \in Bufs : (dirty'[c] => valid'[c]) /\ (valid'[c] => blockno'[c] # None)
    BY <1>1, <1>3 DEF FlagsRight
  <2>2. ASSUME NEW q \in Procs
        PROVE  /\ pc'[q] \in {"readrw", "readwait"} => ~valid'[bp'[q]]
               /\ pc'[q] \in {"held", "written"} \cup Writing => valid'[bp'[q]]
               /\ pc'[q] \in Writing => dirty'[bp'[q]]
               /\ pc'[q] \in {"readwoken", "writewoken"} => valid'[bp'[q]] /\ ~dirty'[bp'[q]]
    <3>1. CASE q = p
      BY <1>1, <1>2, <1>3, <3>1 DEF Writing
    <3>2. CASE q # p /\ pc[q] \notin Holding
      BY <1>2, <3>2 DEF Writing, Holding
    <3>3. CASE q # p /\ pc[q] \in Holding
      <4>1. bp[q] \in Bufs /\ bp[q] # b /\ pc'[q] = pc[q]
        BY <1>1, <1>2, <3>3, HolderAlone
      <4> QED
        BY <1>3, <4>1 DEF FlagsRight
    <3> QED
      BY <3>1, <3>2, <3>3
  <2> QED
    BY <2>1, <2>2 DEF FlagsRight
<1>9. SleepersExpected'
  BY <1>5 DEF SleepersExpected, Range
<1>10. Cardinality(LeftDirty') <= MaxPinned
  <2>1. LeftDirty' \in SUBSET Bufs /\ LeftDirty \in SUBSET Bufs
    BY DEF LeftDirty
  <2>2. CASE point = "written"
    <3>1. LeftDirty' \subseteq Pinned \cup {b} /\ Pinned \cup {b} \in SUBSET Bufs
      BY <1>1, <1>3 DEF LeftDirty, Pinned
    <3> QED
      BY <2>1, <2>2, <3>1, StillRoom
  <2>3. CASE point = "writerw"
    <3>1. LeftDirty' \subseteq LeftDirty
      BY <1>1, <1>2, <1>3, <2>3 DEF LeftDirty, Writing
    <3> QED
      BY <2>1, <3>1, StillRoom
  <2> QED
    BY <2>2, <2>3
<1> QED
  BY <1>4, <1>7, <1>8, <1>9, <1>10

\* The values that writes put into buffers.
LEMMA NewValue ==
  ASSUME TypeOK, NEW b \in Bufs, writes < MaxWrites
  PROVE  writes + 1 \in Values /\ [data EXCEPT ![b] = writes + 1] \in [Bufs -> Values]
<1>1. writes + 1 \in Values
  BY CacheAssumption DEF TypeOK, Values
<1> QED
  BY <1>1 DEF TypeOK

\* log_write() pins a buffer.
LEMMA LogWriteSound ==
  ASSUME BuffersSound, NEW p \in Procs, LogWrite(p)
  PROVE  BuffersSound'
<1>0. TypeOK /\ bp[p] \in Bufs
  BY HolderAlone DEF LogWrite, At, Holding, BuffersSound
<1>1. data' \in [Bufs -> Values] /\ writes' \in Values
  BY <1>0, NewValue DEF LogWrite
<1>2. /\ At(p, "held") /\ Goto(p, "written") /\ dirty' = [dirty EXCEPT ![bp[p]] = TRUE]
      /\ Cardinality(Pinned \cup {bp[p]}) <= MaxPinned
      /\ UNCHANGED <<blockno, valid, refcnt, mru, holder, idequeue, disk, want, bp, panicked>>
  BY DEF LogWrite
<1> QED
  BY <1>1, <1>2, DirtySound

\* bwrite() has the lock of its buffer.
LEMMA BwriteSound ==
  ASSUME BuffersSound, NEW p \in Procs, Bwrite(p)
  PROVE  /\ BuffersSound'
         /\ dirty' = [dirty EXCEPT ![bp[p]] = TRUE] /\ Goto(p, "writerw") /\ panicked' = panicked
<1>2. holder[bp[p]] = p /\ bp[p] \in Bufs
  BY HolderAlone DEF Bwrite, At, Holding
<1>1. data' \in [Bufs -> Values] /\ writes' \in Values
  <2>1. CASE UNCHANGED <<data, writes>>
    BY <2>1 DEF BuffersSound, TypeOK
  <2>2. CASE /\ writes < MaxWrites /\ writes' = writes + 1
             /\ data' = [data EXCEPT ![bp[p]] = writes + 1]
    BY <1>2, <2>2, NewValue DEF BuffersSound
  <2> QED
    BY <2>1, <2>2 DEF Bwrite
<1>3. /\ At(p, "held") /\ Goto(p, "writerw") /\ dirty' = [dirty EXCEPT ![bp[p]] = TRUE]
      /\ UNCHANGED <<blockno, valid, refcnt, mru, holder, idequeue, disk, want, bp, panicked>>
  BY <1>2 DEF Bwrite
<1> QED
  BY <1>1, <1>3, DirtySound

\* brelse() lets the sleep lock go and wakes whoever waits for it; it never panics.
LEMMA ReleaseSleepSound ==
  ASSUME BuffersSound, NEW p \in Procs, ReleaseSleep(p)
  PROVE  BuffersSound' /\ panicked' = panicked
<1> USE DEF BuffersSound, At, bufs
<1> DEFINE b == bp[p]
<1>1. /\ b \in Bufs /\ holder[b] = p /\ pc[p] \in {"held", "written"} /\ pc[p] \in Holding
      /\ \A q \in Procs : q # p /\ bp[q] = b => pc[q] \notin Holding
  BY HolderAlone DEF ReleaseSleep, Holding
<1>2. /\ holder' = [holder EXCEPT ![b] = None] /\ panicked' = panicked
      /\ pc' = [q \in Procs |-> IF q = p THEN "unref"
                                ELSE IF bp[q] = b /\ pc[q] = "locksleep" THEN "acquire" ELSE pc[q]]
  BY <1>1 DEF ReleaseSleep, WakeUp
<1>3. UNCHANGED <<bufs, mru, idequeue, disk, want, bp, writes>>
  BY DEF ReleaseSleep
<1>4. /\ pc'[p] = "unref"
      /\ \A q \in Procs : q # p => \/ pc'[q] = pc[q] /\ ~(bp[q] = b /\ pc[q] = "locksleep")
                                   \/ pc'[q] = "acquire" /\ pc[q] = "locksleep"
      /\ pc' \in [Procs -> Holding \cup {"idle", "acquire", "locksleep", "unref"}]
  BY <1>2 DEF TypeOK
<1>5. /\ holder' \in [Bufs -> Procs \cup {None}] /\ holder'[b] = None
      /\ \A c \in Bufs : c # b => holder'[c] = holder[c]
  BY <1>1, <1>2 DEF TypeOK
<1>6. TypeOK' /\ NeverOut'
  BY <1>2, <1>3, <1>4, <1>5 DEF TypeOK, NeverOut
<1>7. \A q \in Procs : /\ pc'[q] \in Holding <=> pc[q] \in Holding /\ q # p
                       /\ pc'[q] = "idle" <=> pc[q] = "idle"
                       /\ pc'[q] \in Waiting <=> pc[q] \in Waiting
                       /\ pc'[q] \in Writing <=> pc[q] \in Writing
  BY <1>1, <1>4 DEF Holding, Waiting, Writing
<1>8. \A c \in Bufs, q \in Procs : holder'[c] = q <=> bp[q] = c /\ pc'[q] \in Holding
  <2> SUFFICES ASSUME NEW c \in Bufs, NEW q \in Procs
               PROVE  holder'[c] = q <=> bp[q] = c /\ pc'[q] \in Holding
    OBVIOUS
  <2>1. holder[c] = q <=> bp[q] = c /\ pc[q] \in Holding
    BY DEF BuffersCounted
  <2>2. CASE c = b
    BY <1>1, <1>5, <1>7, <2>2, CacheAssumption
  <2>3. CASE c # b
    BY <1>5, <1>7, <2>1, <2>3
  <2> QED
    BY <2>2, <2>3
<1>9. BufferStays' /\ BuffersCounted'
  BY <1>3, <1>7, <1>8, SameUsers
<1>10. FlagsRight'
  <2>1. \A q \in Procs : pc'[q] = pc[q] \/ pc'[q] \in {"unref", "acquire"}
    BY <1>4
  <2> QED
    BY <1>3, <2>1 DEF FlagsRight, Writing
<1>11. SleepersExpected'
  <2>1. \A q \in Procs : pc'[q] = "locksleep" => holder'[bp'[q]] # None
    <3> SUFFICES ASSUME NEW q \in Procs, pc'[q] = "locksleep" PROVE holder'[bp[q]] # None
      BY <1>3
    <3>1. pc[q] = "locksleep" /\ bp[q] # b
      BY <1>4
    <3>2. bp[q] \in Bufs /\ holder[bp[q]] # None
      BY <3>1 DEF SleepersExpected, TypeOK, BuffersCounted
    <3> QED
      BY <1>5, <3>1, <3>2
  <2> QED
    BY <1>3, <1>7, <2>1 DEF SleepersExpected, Range
<1>12. LeftDirty' = LeftDirty
  BY <1>3, <1>7 DEF LeftDirty
<1> QED
  BY <1>2, <1>6, <1>9, <1>10, <1>11, <1>12

\* Moving to the front takes each position to another one.
LEMMA FrontOnce ==
  ASSUME NEW k \in Int, NEW i \in Int, NEW j \in Int, i >= 1, j >= 1, k >= 1,
         (IF i = 1 THEN k ELSE IF i <= k THEN i - 1 ELSE i)
           = (IF j = 1 THEN k ELSE IF j <= k THEN j - 1 ELSE j)
  PROVE  i = j
  OBVIOUS

\* The list stays a list of all buffers when one of them is moved to its front.
LEMMA ToFrontList ==
  ASSUME mru \in [Bufs -> Bufs], IsInjective(mru), \A c \in Bufs : \E i \in Bufs : mru[i] = c,
         NEW b \in Bufs
  PROVE  /\ ToFront(b) \in [Bufs -> Bufs] /\ IsInjective(ToFront(b))
         /\ \A c \in Bufs : \E i \in Bufs : ToFront(b)[i] = c
<1> DEFINE k == CHOOSE i \in Bufs : mru[i] = b
           f == ToFront(b)
           from(i) == IF i = 1 THEN k ELSE IF i <= k THEN i - 1 ELSE i
<1>1. k \in Bufs /\ mru[k] = b
  OBVIOUS
<1>2. f = [i \in Bufs |-> IF i = 1 THEN b ELSE IF i <= k THEN mru[i - 1] ELSE mru[i]]
  BY DEF ToFront
<1> HIDE DEF k, f
<1>3. f = [i \in Bufs |-> mru[from(i)]]
  BY <1>1, <1>2
<1>4. /\ \A i \in Bufs : from(i) \in Bufs
      /\ \A i, j \in Bufs : from(i) = from(j) => i = j
      /\ \A n \in Bufs : \E i \in Bufs : from(i) = n
  <2> USE <1>1, CacheAssumption DEF Bufs
  <2>1. \A i \in Bufs : from(i) \in Bufs
    OBVIOUS
  <2>2. ASSUME NEW i \in Bufs, NEW j \in Bufs, from(i) = from(j) PROVE i = j
    <3>1. i \in Int /\ j \in Int /\ k \in Int /\ i >= 1 /\ j >= 1 /\ k >= 1
      OBVIOUS
    <3> QED
      BY <2>2, <3>1, FrontOnce
  <2>3. ASSUME NEW n \in Bufs PROVE \E i \in Bufs : from(i) = n
    <3>1. CASE n = k
      <4>1. from(1) = n /\ 1 \in Bufs
        BY <3>1
      <4> QED
        BY <4>1
    <3>2. CASE n < k
      <4>1. from(n + 1) = n /\ n + 1 \in Bufs
        BY <3>2
      <4> QED
        BY <4>1
    <3>3. CASE n > k
      <4>1. from(n) = n
        BY <3>3
      <4> QED
        BY <4>1
    <3> QED
      BY <3>1, <3>2, <3>3
  <2> QED
    BY <2>1, <2>2, <2>3
<1> HIDE DEF from
<1>5. f \in [Bufs -> Bufs]
  BY <1>3, <1>4
<1>6. \A c \in Bufs : \E i \in Bufs : f[i] = c
  BY <1>3, <1>4
<1>7. IsInjective(f)
  BY <1>3, <1>4 DEF IsInjective
<1> QED
  BY <1>5, <1>6, <1>7 DEF f

\* brelse() gives its reference back.
LEMMA BrelseUnrefSound ==
  ASSUME BuffersSound, NEW p \in Procs, BrelseUnref(p)
  PROVE  BuffersSound'
<1> USE DEF BuffersSound, At, Goto
<1> DEFINE b == bp[p]
<1>1. b \in Bufs /\ pc[p] = "unref" /\ None \notin Bufs
  BY CacheAssumption DEF BrelseUnref, BuffersCounted, TypeOK, Bufs
<1>2. /\ refcnt' = [refcnt EXCEPT ![b] = @ - 1]
      /\ mru' = IF refcnt[b] = 1 THEN ToFront(b) ELSE mru
      /\ pc' = [pc EXCEPT ![p] = "idle"] /\ bp' = [bp EXCEPT ![p] = None]
      /\ want' = [want EXCEPT ![p] = None]
      /\ UNCHANGED <<blockno, valid, dirty, data, holder, idequeue, disk, panicked, writes>>
  BY DEF BrelseUnref
<1>3. /\ pc'[p] = "idle" /\ bp'[p] = None /\ want'[p] = None
      /\ \A q \in Procs : q # p => pc'[q] = pc[q] /\ bp'[q] = bp[q] /\ want'[q] = want[q]
  BY <1>2 DEF TypeOK
<1>4. \A c \in Bufs : refcnt'[c] = Cardinality({q \in Procs : bp'[q] = c})
  <2> SUFFICES ASSUME NEW c \in Bufs
               PROVE  refcnt'[c] = Cardinality({q \in Procs : bp'[q] = c})
    OBVIOUS
  <2>0. refcnt[c] = Cardinality(Users(c)) /\ Users(c) \in SUBSET Procs
    BY DEF BuffersCounted, Users
  <2>1. refcnt[c] = Cardinality(Users(c)) /\ IsFiniteSet(Users(c)) /\ Cardinality(Users(c)) \in Nat
    BY <2>0, FiniteParts
  <2>2. CASE c = b
    <3>1. {q \in Procs : bp'[q] = c} = Users(c) \ {p} /\ p \in Users(c)
      BY <1>1, <1>3, <2>2 DEF Users
    <3>2. Cardinality(Users(c) \ {p}) = Cardinality(Users(c)) - 1
      BY <2>1, <3>1, FS_RemoveElement
    <3>3. refcnt'[c] = refcnt[c] - 1
      BY <1>2, <2>2 DEF TypeOK
    <3> QED
      BY <2>1, <3>1, <3>2, <3>3
  <2>3. CASE c # b
    <3>1. {q \in Procs : bp'[q] = c} = Users(c)
      BY <1>1, <1>3, <2>3 DEF Users
    <3>2. refcnt'[c] = refcnt[c]
      BY <1>2, <2>3 DEF TypeOK
    <3> QED
      BY <2>1, <3>1, <3>2
  <2> QED
    BY <2>2, <2>3
<1>5. /\ mru' \in [Bufs -> Bufs] /\ IsInjective(mru')
      /\ \A c \in Bufs : \E i \in Bufs : mru'[i] = c
  <2>1. /\ mru \in [Bufs -> Bufs] /\ IsInjective(mru)
        /\ \A c \in Bufs : \E i \in Bufs : mru[i] = c
    BY DEF TypeOK, BuffersCounted
  <2>2. CASE refcnt[b] = 1
    <3>1. mru' = ToFront(b) /\ b \in Bufs
      BY <1>1, <1>2, <2>2
    <3> HIDE DEF b
    <3> QED
      BY <2>1, <3>1, ToFrontList
  <2>3. CASE refcnt[b] # 1
    BY <1>2, <2>1, <2>3
  <2> QED
    BY <2>2, <2>3
<1>6. TypeOK' /\ NeverOut'
  <2>1. refcnt' \in [Bufs -> 0 .. Cardinality(Procs)]
    <3>1. \A c \in Bufs : refcnt'[c] \in 0 .. Cardinality(Procs)
      BY <1>4, FiniteParts
    <3>2. refcnt' = [c \in Bufs |-> refcnt'[c]]
      BY <1>2 DEF TypeOK
    <3> QED
      BY <3>1, <3>2
  <2>2. /\ pc' \in [Procs -> Holding \cup {"idle", "acquire", "locksleep", "unref"}]
        /\ want' \in [Procs -> Blocks \cup {None}] /\ bp' \in [Procs -> Bufs \cup {None}]
    BY <1>2 DEF TypeOK
  <2> QED
    BY <1>2, <1>5, <2>1, <2>2 DEF TypeOK, NeverOut
<1>7. BufferStays'
  BY <1>2, <1>3 DEF BufferStays
<1>8. BuffersCounted'
  <2>1. \A q \in Procs : /\ bp'[q] = None <=> pc'[q] = "idle"
                         /\ bp'[q] = None <=> want'[q] = None
    BY <1>3 DEF BuffersCounted
  <2>2. \A c \in Bufs, q \in Procs : holder'[c] = q <=> bp'[q] = c /\ pc'[q] \in Holding
    <3> SUFFICES ASSUME NEW c \in Bufs, NEW q \in Procs
                 PROVE  holder'[c] = q <=> bp'[q] = c /\ pc'[q] \in Holding
      OBVIOUS
    <3>1. holder[c] = q <=> bp[q] = c /\ pc[q] \in Holding
      BY DEF BuffersCounted
    <3>2. CASE q = p
      BY <1>1, <1>2, <1>3, <3>1, <3>2 DEF Holding
    <3>3. CASE q # p
      BY <1>2, <1>3, <3>1, <3>3
    <3> QED
      BY <3>2, <3>3
  <2> HIDE DEF BuffersSound
  <2> QED
    BY <1>4, <1>5, <2>1, <2>2 DEF BuffersCounted
<1>9. FlagsRight'
  BY <1>2, <1>3 DEF FlagsRight, Writing
<1>10. SleepersExpected'
  <2>1. \A c \in Bufs : (\E q \in Procs : bp'[q] = c /\ pc'[q] \in Waiting)
                        <=> \E q \in Procs : bp[q] = c /\ pc[q] \in Waiting
    BY <1>1, <1>3 DEF Waiting
  <2>2. \A q \in Procs : pc'[q] = "locksleep" => holder'[bp'[q]] # None
    BY <1>2, <1>3 DEF SleepersExpected
  <2> QED
    BY <1>2, <2>1, <2>2 DEF SleepersExpected, Range
<1>11. LeftDirty' = LeftDirty
  BY <1>1, <1>2, <1>3 DEF LeftDirty, Writing
<1> QED
  BY <1>6, <1>7, <1>8, <1>9, <1>10, <1>11

\* What the head of the disk's queue is: a buffer that one process waits for, with its
\* lock held, to be read if it is not valid and to be written if it is dirty.
LEMMA HeadOfQueue ==
  ASSUME BuffersSound, idequeue # <<>>
  PROVE  /\ Head(idequeue) \in Bufs
         /\ blockno[Head(idequeue)] \in Blocks
         /\ \E p \in Procs :
              /\ bp[p] = Head(idequeue) /\ holder[Head(idequeue)] = p /\ pc[p] \in Waiting
              /\ pc[p] = "readwait" <=> ~valid[Head(idequeue)]
              /\ pc[p] = "writewait" <=> dirty[Head(idequeue)]
              /\ \A q \in Procs : q # p /\ bp[q] = bp[p] => pc[q] \notin Holding
<1> DEFINE b == Head(idequeue)
<1>1. b \in Bufs /\ b \in Range(idequeue)
  BY DEF BuffersSound, TypeOK, Range
<1>2. PICK p \in Procs : bp[p] = b /\ pc[p] \in Waiting
  BY <1>1 DEF BuffersSound, SleepersExpected
<1>3. /\ pc[p] \in Holding /\ holder[b] = p
      /\ \A q \in Procs : q # p /\ bp[q] = bp[p] => pc[q] \notin Holding
  BY <1>2, HolderAlone DEF Holding, Waiting
<1>4. /\ pc[p] = "readwait" => ~valid[b] /\ ~dirty[b]
      /\ pc[p] = "writewait" => valid[b] /\ dirty[b]
  BY <1>1, <1>2 DEF BuffersSound, FlagsRight, Writing
<1>5. bp[p] # None
  BY <1>1, <1>2, CacheAssumption DEF Bufs
<1>6. blockno[b] = want[p] /\ want[p] \in Blocks
  BY <1>2, <1>5 DEF BuffersSound, BufferStays, BuffersCounted, TypeOK
<1> QED
  BY <1>1, <1>2, <1>3, <1>4, <1>6 DEF Waiting

\* ideintr() ends the first transfer and wakes the process that waits for it, whether or
\* not a read has failed.
LEMMA IdeIntrSound ==
  ASSUME BuffersSound, NEW failed \in ReadFails, IdeIntr(failed)
  PROVE  BuffersSound'
<1> USE DEF BuffersSound
<1> DEFINE b == Head(idequeue)
<1>0. idequeue # <<>>
  BY DEF IdeIntr
<1>1. PICK p \in Procs :
         /\ bp[p] = b /\ holder[b] = p /\ pc[p] \in Waiting
         /\ pc[p] = "readwait" <=> ~valid[b]
         /\ pc[p] = "writewait" <=> dirty[b]
         /\ \A q \in Procs : q # p /\ bp[q] = bp[p] => pc[q] \notin Holding
  BY <1>0, HeadOfQueue
<1>2. b \in Bufs /\ blockno[b] \in Blocks
  BY <1>0, HeadOfQueue
<1>3. /\ pc' = WakeIde(b) /\ idequeue' = Tail(idequeue)
      /\ valid' = [valid EXCEPT ![b] = TRUE] /\ dirty' = [dirty EXCEPT ![b] = FALSE]
      /\ UNCHANGED <<blockno, refcnt, mru, holder, want, bp, panicked, writes>>
  BY DEF IdeIntr
<1>4. disk' \in [Blocks -> Values] /\ data' \in [Bufs -> Values]
  <2>1. CASE dirty[b]
    BY <1>2, <2>1 DEF IdeIntr, TypeOK
  <2>2. CASE ~dirty[b]
    <3>1. /\ data' = [data EXCEPT ![b] = IF failed THEN @ ELSE disk[blockno[b]]]
          /\ disk' = disk
      BY <2>2 DEF IdeIntr
    <3>2. (IF failed THEN data[b] ELSE disk[blockno[b]]) \in Values
      BY <1>2, CacheAssumption DEF TypeOK
    <3> QED
      BY <1>2, <3>1, <3>2 DEF TypeOK
  <2> QED
    BY <2>1, <2>2
<1> HIDE DEF b
<1>5. /\ pc[p] = "readwait" => pc'[p] = "readwoken"
      /\ pc[p] = "writewait" => pc'[p] = "writewoken"
      /\ \A q \in Procs : q # p => pc'[q] = pc[q]
      /\ pc' \in [Procs -> Holding \cup {"idle", "acquire", "locksleep", "unref"}]
  <2>1. pc' = [q \in Procs |-> IF bp[q] # b THEN pc[q]
                               ELSE CASE pc[q] = "readwait" -> "readwoken"
                                      [] pc[q] = "writewait" -> "writewoken"
                                      [] OTHER -> pc[q]]
    BY <1>3 DEF WakeIde
  <2>2. \A q \in Procs : q # p => pc'[q] = pc[q]
    BY <1>1, <2>1 DEF Holding
  <2> QED
    BY <1>1, <2>1, <2>2 DEF TypeOK, Holding
<1>6. /\ valid' \in [Bufs -> BOOLEAN] /\ valid'[b] = TRUE
      /\ dirty' \in [Bufs -> BOOLEAN] /\ dirty'[b] = FALSE
      /\ \A c \in Bufs : c # b => valid'[c] = valid[c] /\ dirty'[c] = dirty[c]
  BY <1>2, <1>3 DEF TypeOK
<1>7. /\ idequeue' \in Seq(Bufs) /\ IsInjective(idequeue')
      /\ Range(idequeue') = Range(idequeue) \ {b}
  <2>1. idequeue \in Seq(Bufs) /\ IsInjective(idequeue)
    BY DEF TypeOK
  <2>2. /\ idequeue' \in Seq(Bufs) /\ Len(idequeue') = Len(idequeue) - 1
        /\ Len(idequeue) \in Nat /\ Len(idequeue) > 0 /\ idequeue[1] = b
        /\ \A i \in 1 .. Len(idequeue) - 1 : idequeue'[i] = idequeue[i + 1]
    BY <1>0, <1>3, <2>1 DEF b
  <2>3. \A i, j \in 1 .. Len(idequeue) : idequeue[i] = idequeue[j] => i = j
    BY <2>1 DEF IsInjective
  <2>4. IsInjective(idequeue')
    <3> SUFFICES ASSUME NEW i \in 1 .. Len(idequeue) - 1, NEW j \in 1 .. Len(idequeue) - 1,
                        idequeue'[i] = idequeue'[j]
                 PROVE  i = j
      BY <2>2 DEF IsInjective
    <3>1. i + 1 \in 1 .. Len(idequeue) /\ j + 1 \in 1 .. Len(idequeue)
      BY <2>2
    <3>2. idequeue[i + 1] = idequeue[j + 1]
      BY <2>2
    <3>3. i + 1 = j + 1
      BY <2>3, <3>1, <3>2
    <3> QED
      BY <3>3
  <2>5. ASSUME NEW c PROVE c \in Range(idequeue') <=> c \in Range(idequeue) /\ c # b
    <3>1. ASSUME NEW i \in DOMAIN idequeue', idequeue'[i] = c
          PROVE  c \in Range(idequeue) /\ c # b
      <4>1. /\ i \in 1 .. Len(idequeue) - 1 /\ i + 1 \in 1 .. Len(idequeue)
            /\ 1 \in 1 .. Len(idequeue) /\ i + 1 # 1
        BY <2>2, <3>1
      <4>2. c = idequeue[i + 1]
        BY <2>2, <3>1, <4>1
      <4>3. c # b
        BY <2>2, <2>3, <4>1, <4>2
      <4> QED
        BY <2>1, <4>1, <4>2, <4>3 DEF Range
    <3>2. ASSUME NEW i \in DOMAIN idequeue, idequeue[i] = c, c # b
          PROVE  c \in Range(idequeue')
      <4>1. i \in 1 .. Len(idequeue) /\ i # 1
        BY <2>1, <2>2, <3>2
      <4>2. i - 1 \in 1 .. Len(idequeue) - 1 /\ (i - 1) + 1 = i
        BY <2>2, <4>1
      <4>3. idequeue'[i - 1] = c /\ i - 1 \in DOMAIN idequeue'
        BY <2>2, <3>2, <4>2
      <4> QED
        BY <4>3 DEF Range
    <3> QED
      BY <3>1, <3>2 DEF Range
  <2> QED
    BY <2>2, <2>4, <2>5
<1>8. TypeOK' /\ NeverOut'
  BY <1>3, <1>4, <1>5, <1>6, <1>7 DEF TypeOK, NeverOut
<1>9. \A q \in Procs : /\ pc'[q] \in Holding <=> pc[q] \in Holding
                       /\ pc'[q] = "idle" <=> pc[q] = "idle"
                       /\ pc'[q] \in Waiting <=> pc[q] \in Waiting /\ q # p
                       /\ pc'[q] = "locksleep" <=> pc[q] = "locksleep"
  BY <1>1, <1>5 DEF Holding, Waiting
<1>10. \A c \in Bufs, q \in Procs : holder'[c] = q <=> bp[q] = c /\ pc'[q] \in Holding
  BY <1>3, <1>9 DEF BuffersCounted
<1>11. BufferStays' /\ BuffersCounted'
  BY <1>3, <1>9, <1>10, SameUsers
<1>12. FlagsRight'
  <2>1. \A c \in Bufs : (dirty'[c] => valid'[c]) /\ (valid'[c] => blockno'[c] # None)
    BY <1>2, <1>3, <1>6, CacheAssumption DEF FlagsRight
  <2>2. ASSUME NEW q \in Procs
        PROVE  /\ pc'[q] \in {"readrw", "readwait"} => ~valid'[bp'[q]]
               /\ pc'[q] \in {"held", "written"} \cup Writing => valid'[bp'[q]]
               /\ pc'[q] \in Writing => dirty'[bp'[q]]
               /\ pc'[q] \in {"readwoken", "writewoken"} => valid'[bp'[q]] /\ ~dirty'[bp'[q]]
    <3>1. CASE q = p
      BY <1>1, <1>3, <1>5, <1>6, <3>1 DEF Writing, Waiting
    <3>2. CASE q # p /\ pc[q] \notin Holding
      BY <1>5, <3>2 DEF Writing, Holding
    <3>3. CASE q # p /\ pc[q] \in Holding
      <4>1. bp[q] \in Bufs /\ bp[q] # b /\ pc'[q] = pc[q]
        BY <1>1, <1>5, <3>3, HolderAlone
      <4> QED
        BY <1>3, <1>6, <4>1 DEF FlagsRight
    <3> QED
      BY <3>1, <3>2, <3>3
  <2> QED
    BY <2>1, <2>2 DEF FlagsRight
<1>13. SleepersExpected'
  <2>1. ASSUME NEW c \in Bufs
        PROVE  c \in Range(idequeue') <=> \E q \in Procs : bp'[q] = c /\ pc'[q] \in Waiting
    <3>1. CASE c = b
      BY <1>1, <1>3, <1>7, <1>9, <3>1 DEF Holding, Waiting
    <3>2. CASE c # b
      BY <1>1, <1>3, <1>7, <1>9, <3>2 DEF SleepersExpected
    <3> QED
      BY <3>1, <3>2
  <2>2. \A q \in Procs : pc'[q] = "locksleep" => holder'[bp'[q]] # None
    BY <1>3, <1>9 DEF SleepersExpected
  <2> QED
    BY <2>1, <2>2 DEF SleepersExpected
<1>14. LeftDirty' \subseteq LeftDirty
  BY <1>1, <1>2, <1>3, <1>5, <1>6 DEF LeftDirty, Writing
<1>15. Cardinality(LeftDirty') <= MaxPinned
  <2>1. LeftDirty' \in SUBSET Bufs /\ LeftDirty \in SUBSET Bufs
    BY DEF LeftDirty
  <2> QED
    BY <1>14, <2>1, StillRoom
<1> QED
  BY <1>8, <1>11, <1>12, <1>13, <1>15

\* Every step keeps the buffers sound.
LEMMA NextSound ==
  ASSUME BuffersSound, [Next]_vars
  PROVE  BuffersSound'
<1>1. CASE UNCHANGED vars
  <2> USE <1>1 DEF vars, bufs, procs, BuffersSound
  <2>1. TypeOK' /\ NeverOut'
    BY DEF TypeOK, NeverOut
  <2>2. BufferStays' /\ BuffersCounted'
    BY SameUsers DEF BuffersCounted
  <2>3. FlagsRight' /\ SleepersExpected' /\ LeftDirty' = LeftDirty
    BY DEF FlagsRight, SleepersExpected, LeftDirty, Range
  <2> QED
    BY <2>1, <2>2, <2>3
<1>2. CASE Next
  BY <1>2, BgetHitSound, BgetRecycleSound, AcquireSleepSound, IdeRwSound, IdeDoneSound,
     ReleaseSleepSound, BrelseUnrefSound, LogWriteSound, BwriteSound, IdeIntrSound
     DEF Next, Step
<1> QED
  BY <1>1, <1>2

\* In every reachable state, for any processes, blocks and buffers, also when reads fail: a
\* buffer stays that of the block it was got for, a block has one buffer, sleep locks
\* exclude, the flags are what the holder expects, who sleeps has somebody to wake him,
\* and with MaxPinned + Cardinality(Procs) buffers nothing panics.
THEOREM CacheSound == Spec => []BuffersSound
<1> QED
  BY InitSound, NextSound, PTL DEF Spec

-----------------------------------------------------------------------------
(* The cache implements BlockStore *)

\* What blocks hold, by the fields of the buffers and the disk.
StoreOf(bn, v, d, dk) ==
  [k \in Blocks |-> IF \E b \in Bufs : bn[b] = k /\ v[b]
                    THEN d[CHOOSE b \in Bufs : bn[b] = k /\ v[b]]
                    ELSE dk[k]]

\* A store that has the data of every valid buffer, and the disk otherwise, is the one.
LEMMA StoreIs ==
  ASSUME NEW bn \in [Bufs -> Blocks \cup {None}], NEW v \in [Bufs -> BOOLEAN],
         NEW d \in [Bufs -> Values], NEW dk \in [Blocks -> Values],
         \A a, b \in Bufs : a # b /\ bn[a] = bn[b] => bn[a] = None,
         NEW s \in [Blocks -> Values],
         \A b \in Bufs : v[b] => s[bn[b]] = d[b],
         \A k \in Blocks : (\A b \in Bufs : v[b] => bn[b] # k) => s[k] = dk[k]
  PROVE  StoreOf(bn, v, d, dk) = s
<1>1. ASSUME NEW k \in Blocks PROVE StoreOf(bn, v, d, dk)[k] = s[k]
  <2>1. CASE \E b \in Bufs : bn[b] = k /\ v[b]
    <3> DEFINE c == CHOOSE b \in Bufs : bn[b] = k /\ v[b]
    <3>1. c \in Bufs /\ bn[c] = k /\ v[c]
      BY <2>1
    <3>2. StoreOf(bn, v, d, dk)[k] = d[c]
      BY <2>1 DEF StoreOf
    <3> HIDE DEF c
    <3> QED
      BY <3>1, <3>2
  <2>2. CASE ~ \E b \in Bufs : bn[b] = k /\ v[b]
    <3>1. StoreOf(bn, v, d, dk)[k] = dk[k]
      BY <2>2 DEF StoreOf
    <3> QED
      BY <2>2, <3>1
  <2> QED
    BY <2>1, <2>2
<1>2. StoreOf(bn, v, d, dk) = [k \in Blocks |-> StoreOf(bn, v, d, dk)[k]]
  BY DEF StoreOf
<1>3. s = [k \in Blocks |-> s[k]]
  OBVIOUS
<1> QED
  BY <1>1, <1>2, <1>3

\* What the store of a sound state is.
LEMMA StoreAt ==
  ASSUME BuffersSound
  PROVE  /\ Store \in [Blocks -> Values]
         /\ \A b \in Bufs : valid[b] => blockno[b] \in Blocks /\ Store[blockno[b]] = data[b]
         /\ \A k \in Blocks : (\A b \in Bufs : valid[b] => blockno[b] # k) => Store[k] = disk[k]
<1>0. /\ blockno \in [Bufs -> Blocks \cup {None}] /\ data \in [Bufs -> Values]
      /\ disk \in [Blocks -> Values]
      /\ \A a, b \in Bufs : a # b /\ blockno[a] = blockno[b] => blockno[a] = None
      /\ \A b \in Bufs : valid[b] => blockno[b] \in Blocks
  BY DEF BuffersSound, TypeOK, BufferStays, FlagsRight
<1>1. ASSUME NEW b \in Bufs, valid[b]
      PROVE  blockno[b] \in Blocks /\ Store[blockno[b]] = data[b]
  <2> DEFINE k == blockno[b]
             c == CHOOSE a \in Bufs : blockno[a] = k /\ valid[a]
  <2>1. c \in Bufs /\ blockno[c] = k
    BY <1>1
  <2>2. Store[k] = data[c] /\ k \in Blocks
    BY <1>0, <1>1 DEF Store
  <2> HIDE DEF c
  <2>3. c = b
    BY <1>0, <2>1, <2>2, CacheAssumption
  <2> QED
    BY <2>2, <2>3
<1>2. ASSUME NEW k \in Blocks, \A b \in Bufs : valid[b] => blockno[b] # k
      PROVE  Store[k] = disk[k]
  <2>1. ~ \E b \in Bufs : blockno[b] = k /\ valid[b]
    BY <1>2
  <2> QED
    BY <2>1 DEF Store
<1>3. \A k \in Blocks : Store[k] \in Values
  <2> SUFFICES ASSUME NEW k \in Blocks PROVE Store[k] \in Values
    OBVIOUS
  <2>1. CASE \E b \in Bufs : valid[b] /\ blockno[b] = k
    BY <1>0, <1>1, <2>1
  <2>2. CASE ~ \E b \in Bufs : valid[b] /\ blockno[b] = k
    BY <1>0, <1>2, <2>2
  <2> QED
    BY <2>1, <2>2
<1>4. Store = [k \in Blocks |-> Store[k]]
  BY DEF Store
<1> HIDE DEF Store
<1>5. Store \in [Blocks -> Values]
  BY <1>3, <1>4
<1> QED
  BY <1>1, <1>2, <1>5

\* What the store is after a step.
LEMMA StoreAfter ==
  ASSUME BuffersSound', NEW s \in [Blocks -> Values],
         \A b \in Bufs : valid'[b] => s[blockno'[b]] = data'[b],
         \A k \in Blocks : (\A b \in Bufs : valid'[b] => blockno'[b] # k) => s[k] = disk'[k]
  PROVE  Store' = s
<1>1. /\ blockno' \in [Bufs -> Blocks \cup {None}] /\ valid' \in [Bufs -> BOOLEAN]
      /\ data' \in [Bufs -> Values] /\ disk' \in [Blocks -> Values]
      /\ \A a, b \in Bufs : a # b /\ blockno'[a] = blockno'[b] => blockno'[a] = None
  BY DEF BuffersSound, TypeOK, BufferStays
<1>2. Store' = StoreOf(blockno', valid', data', disk')
  BY DEF Store, StoreOf
<1>3. StoreOf(blockno', valid', data', disk') = s
  BY <1>1, StoreIs
<1> QED
  BY <1>2, <1>3

\* Processes that have different buffers have different blocks, and no two have one
\* buffer locked.
LEMMA BlocksApart ==
  ASSUME BuffersSound, NEW p \in Procs, NEW q \in Procs, p # q,
         pc[p] \in Holding, pc[q] \in Holding
  PROVE  /\ bp[p] \in Bufs /\ bp[q] \in Bufs /\ bp[p] # bp[q]
         /\ want[p] \in Blocks /\ want[p] # want[q] /\ want[p] = blockno[bp[p]]
<1>1. bp[p] \in Bufs /\ bp[q] \in Bufs /\ bp[p] # bp[q]
  BY HolderAlone
<1>2. bp[p] # None /\ bp[q] # None
  BY <1>1, CacheAssumption DEF Bufs
<1>3. /\ want[p] \in Blocks /\ want[q] \in Blocks
      /\ blockno[bp[p]] = want[p] /\ blockno[bp[q]] = want[q]
  BY <1>2 DEF BuffersSound, TypeOK, BuffersCounted, BufferStays
<1>4. want[p] # want[q]
  BY <1>1, <1>3, CacheAssumption DEF BuffersSound, BufferStays
<1> QED
  BY <1>1, <1>3, <1>4

\* The block of a process that has a buffer.
LEMMA BlockOf ==
  ASSUME BuffersSound, NEW p \in Procs, pc[p] # "idle"
  PROVE  bp[p] \in Bufs /\ want[p] \in Blocks /\ blockno[bp[p]] = want[p] /\ want[p] # None
  BY CacheAssumption DEF BuffersSound, TypeOK, BuffersCounted, BufferStays

\* A step that changes neither the store nor what processes have is none of BlockStore.
LEMMA StutterStep ==
  ASSUME Store' = Store, \A q \in Procs : Has(q)' <=> Has(q),
         \A q \in Procs : Has(q) => want'[q] = want[q] /\ data'[bp'[q]] = data[bp[q]]
  PROVE  UNCHANGED Abstract!vars
  BY DEF Abstract!vars

\* A process that gets past bread() takes its block: nobody else has it, and it sees what
\* the block holds.
LEMMA TakeStep ==
  ASSUME BuffersSound, BuffersSound', NEW p \in Procs, ~Has(p), pc[p] # "idle",
         pc' = [pc EXCEPT ![p] = "held"],
         UNCHANGED <<blockno, valid, data, disk, want, bp>>
  PROVE  \E k \in Blocks : Abstract!Take(p, k)
<1>1. /\ pc'[p] = "held" /\ \A q \in Procs : q # p => pc'[q] = pc[q]
  BY DEF BuffersSound, TypeOK
<1>2. Has(p)' /\ \A q \in Procs : q # p => (Has(q)' <=> Has(q))
  BY <1>1 DEF Has
<1>3. bp[p] \in Bufs /\ want[p] \in Blocks /\ blockno[bp[p]] = want[p]
  BY BlockOf
<1>4. valid[bp[p]]
  BY <1>1 DEF BuffersSound, FlagsRight
<1>5. Store[want[p]] = data[bp[p]]
  BY <1>3, <1>4, StoreAt
<1>6. ASSUME NEW q \in Procs, Has(q) PROVE want[q] # want[p]
  <2>1. q # p /\ pc'[q] = pc[q] /\ pc'[q] \in Holding /\ pc'[p] \in Holding
    BY <1>1, <1>6 DEF Has, Holding
  <2>2. holder'[bp[p]] = p /\ (bp[q] = bp[p] => holder'[bp[p]] = q)
    BY <1>3, <2>1 DEF BuffersSound, BuffersCounted
  <2>3. bp[q] # bp[p]
    BY <2>1, <2>2
  <2>4. bp[q] \in Bufs /\ blockno[bp[q]] = want[q]
    BY <1>6, BlockOf DEF Has
  <2> QED
    BY <1>3, <2>3, <2>4, CacheAssumption DEF BuffersSound, BufferStays
<1>7. Store' = Store
  BY DEF Store
<1>8. PICK k \in Blocks : k = want[p]
  BY <1>3
<1>9. k # None
  BY <1>8, CacheAssumption
<1>10. Abstract!Take(p, k)
  BY <1>2, <1>5, <1>6, <1>7, <1>8, <1>9 DEF Abstract!Take
<1> QED
  BY <1>10

\* A holder that modifies its buffer replaces what the block holds.
LEMMA PutStep ==
  ASSUME BuffersSound, BuffersSound', NEW p \in Procs, pc[p] = "held",
         NEW v \in Values, data' = [data EXCEPT ![bp[p]] = v],
         NEW point \in {"writerw", "written"}, pc' = [pc EXCEPT ![p] = point],
         UNCHANGED <<blockno, valid, disk, want, bp>>
  PROVE  Abstract!Put(p, v)
<1>1. pc'[p] = point /\ \A q \in Procs : q # p => pc'[q] = pc[q]
  BY DEF BuffersSound, TypeOK
<1>2. Has(p) /\ \A q \in Procs : Has(q)' <=> Has(q)
  BY <1>1 DEF Has
<1>3. bp[p] \in Bufs /\ want[p] \in Blocks /\ blockno[bp[p]] = want[p] /\ want[p] # None
  BY BlockOf
<1>4. /\ data'[bp[p]] = v
      /\ \A c \in Bufs : c # bp[p] => data'[c] = data[c]
  BY <1>3 DEF BuffersSound, TypeOK
<1>5. \A q \in Procs : Has(q) /\ q # p => data'[bp[q]] = data[bp[q]]
  <2> SUFFICES ASSUME NEW q \in Procs, Has(q), q # p PROVE data'[bp[q]] = data[bp[q]]
    OBVIOUS
  <2>1. bp[q] \in Bufs /\ bp[q] # bp[p]
    BY BlocksApart DEF Has, Holding
  <2> QED
    BY <1>4, <2>1
<1>6. valid[bp[p]]
  BY DEF BuffersSound, FlagsRight
<1>7. Store' = [Store EXCEPT ![want[p]] = v]
  <2> DEFINE s == [Store EXCEPT ![want[p]] = v]
  <2>0. Store \in [Blocks -> Values]
    BY StoreAt
  <2>1. s \in [Blocks -> Values] /\ s[want[p]] = v /\ \A k \in Blocks : k # want[p] => s[k] = Store[k]
    BY <1>3, <2>0
  <2> HIDE DEF s
  <2>2. ASSUME NEW b \in Bufs, valid'[b] PROVE s[blockno'[b]] = data'[b]
    <3>1. CASE b = bp[p]
      BY <1>3, <1>4, <2>1, <3>1
    <3>2. CASE b # bp[p]
      <4>1. blockno[b] \in Blocks /\ Store[blockno[b]] = data[b]
        BY <2>2, StoreAt
      <4>2. blockno[b] # want[p]
        BY <1>3, <3>2 DEF BuffersSound, BufferStays
      <4> QED
        BY <1>4, <2>1, <3>2, <4>1, <4>2
    <3> QED
      BY <3>1, <3>2
  <2>3. ASSUME NEW k \in Blocks, \A b \in Bufs : valid'[b] => blockno'[b] # k
        PROVE  s[k] = disk'[k]
    <3>1. k # want[p]
      BY <1>3, <1>6, <2>3
    <3>2. Store[k] = disk[k]
      BY <2>3, StoreAt
    <3> QED
      BY <2>1, <3>1, <3>2
  <2>4. Store' = s
    BY <2>1, <2>2, <2>3, StoreAfter
  <2> QED
    BY <2>4 DEF s
<1> QED
  BY <1>2, <1>3, <1>4, <1>5, <1>7 DEF Abstract!Put

\* The holder of a buffer that lets it go drops its block.
LEMMA DropStep ==
  ASSUME BuffersSound, NEW p \in Procs, ReleaseSleep(p)
  PROVE  Abstract!Drop(p)
<1>1. /\ pc[p] \in {"held", "written"}
      /\ UNCHANGED <<bufs, mru, idequeue, disk, want, bp, writes>>
  BY DEF ReleaseSleep, At
<1>2. holder[bp[p]] = p
  BY <1>1, HolderAlone DEF Holding
<1>3. pc' = [q \in Procs |-> IF q = p THEN "unref"
                             ELSE IF bp[q] = bp[p] /\ pc[q] = "locksleep" THEN "acquire" ELSE pc[q]]
  BY <1>2 DEF ReleaseSleep, WakeUp
<1>4. /\ pc'[p] = "unref"
      /\ \A q \in Procs : q # p => \/ pc'[q] = pc[q]
                                   \/ pc'[q] = "acquire" /\ pc[q] = "locksleep"
  BY <1>3
<1>5. /\ Has(p) /\ ~Has(p)'
      /\ \A q \in Procs : q # p => (Has(q)' <=> Has(q))
  BY <1>1, <1>4 DEF Has
<1>6. want[p] # None
  BY <1>1, BlockOf
<1>7. Store' = Store
  BY <1>1 DEF Store, bufs
<1> QED
  BY <1>1, <1>5, <1>6, <1>7 DEF Abstract!Drop, bufs

\* The disk's interrupt changes no block: a write brings the data of a valid buffer to the
\* disk, and a read fills a buffer from it.
LEMMA IdeIntrStep ==
  ASSUME BuffersSound, BuffersSound', CleanCopies, IdeIntr(FALSE)
  PROVE  CleanCopies' /\ UNCHANGED Abstract!vars
<1> DEFINE b == Head(idequeue)
<1>0. idequeue # <<>>
  BY DEF IdeIntr
<1>1. PICK p \in Procs :
         /\ bp[p] = b /\ holder[b] = p /\ pc[p] \in Waiting
         /\ pc[p] = "readwait" <=> ~valid[b]
         /\ pc[p] = "writewait" <=> dirty[b]
         /\ \A q \in Procs : q # p /\ bp[q] = bp[p] => pc[q] \notin Holding
  BY <1>0, HeadOfQueue
<1>2. b \in Bufs /\ blockno[b] \in Blocks /\ blockno[b] # None
  BY <1>0, HeadOfQueue, CacheAssumption
<1>3. /\ pc' = WakeIde(b)
      /\ valid' = [valid EXCEPT ![b] = TRUE] /\ dirty' = [dirty EXCEPT ![b] = FALSE]
      /\ UNCHANGED <<blockno, refcnt, mru, holder, want, bp, panicked, writes>>
      /\ dirty[b] => disk' = [disk EXCEPT ![blockno[b]] = data[b]] /\ data' = data
      /\ ~dirty[b] => data' = [data EXCEPT ![b] = disk[blockno[b]]] /\ disk' = disk
  BY DEF IdeIntr
<1> HIDE DEF b
<1>4. /\ data'[b] = disk'[blockno[b]]
      /\ \A c \in Bufs : c # b => data'[c] = data[c] /\ valid'[c] = valid[c] /\ dirty'[c] = dirty[c]
      /\ \A k \in Blocks : k # blockno[b] => disk'[k] = disk[k]
      /\ dirty[b] => data'[b] = data[b] /\ valid[b]
      /\ ~dirty[b] => disk' = disk /\ ~valid[b]
      /\ valid'[b] = TRUE
  <2>1. (dirty[b] => valid[b]) /\ (~dirty[b] => ~valid[b])
    BY <1>1 DEF Waiting
  <2>2. CASE dirty[b]
    BY <1>2, <1>3, <2>1, <2>2 DEF BuffersSound, TypeOK
  <2>3. CASE ~dirty[b]
    BY <1>2, <1>3, <2>1, <2>3 DEF BuffersSound, TypeOK
  <2> QED
    BY <2>2, <2>3
<1>5. \A c \in Bufs : c # b => blockno[c] # blockno[b]
  BY <1>2 DEF BuffersSound, BufferStays
<1>6. CleanCopies'
  <2> SUFFICES ASSUME NEW c \in Bufs, valid'[c], ~dirty'[c] PROVE data'[c] = disk'[blockno[c]]
    BY <1>3 DEF CleanCopies
  <2>1. CASE c = b
    BY <1>4, <2>1
  <2>2. CASE c # b
    <3>1. blockno[c] \in Blocks /\ data[c] = disk[blockno[c]]
      BY <1>4, <2>2, StoreAt DEF CleanCopies
    <3> QED
      BY <1>4, <1>5, <2>2, <3>1
  <2> QED
    BY <2>1, <2>2
<1>7. Store' = Store
  <2>1. ASSUME NEW c \in Bufs, valid'[c] PROVE Store[blockno'[c]] = data'[c]
    <3>1. CASE c = b /\ dirty[b]
      BY <1>3, <1>4, <3>1, StoreAt
    <3>2. CASE c = b /\ ~dirty[b]
      <4>1. \A a \in Bufs : valid[a] => blockno[a] # blockno[b]
        BY <1>4, <1>5, <3>2
      <4>2. Store[blockno[b]] = disk[blockno[b]]
        BY <1>2, <4>1, StoreAt
      <4> QED
        BY <1>3, <1>4, <3>2, <4>2
    <3>3. CASE c # b
      BY <1>3, <1>4, <2>1, <3>3, StoreAt
    <3> QED
      BY <3>1, <3>2, <3>3
  <2>2. ASSUME NEW k \in Blocks, \A c \in Bufs : valid'[c] => blockno'[c] # k
        PROVE  Store[k] = disk'[k]
    <3>1. k # blockno[b]
      BY <1>2, <1>3, <1>4, <2>2
    <3>2. \A c \in Bufs : valid[c] => blockno[c] # k
      BY <1>3, <1>4, <2>2, <3>1
    <3> QED
      BY <1>4, <3>1, <3>2, StoreAt
  <2>3. Store \in [Blocks -> Values]
    BY StoreAt
  <2> QED
    BY <2>1, <2>2, <2>3, StoreAfter
<1>8. \A q \in Procs : Has(q)' <=> Has(q)
  <2>1. pc' = [q \in Procs |-> IF bp[q] # b THEN pc[q]
                               ELSE CASE pc[q] = "readwait" -> "readwoken"
                                      [] pc[q] = "writewait" -> "writewoken"
                                      [] OTHER -> pc[q]]
    BY <1>3 DEF WakeIde
  <2>2. \A q \in Procs : \/ pc'[q] = pc[q]
                         \/ pc[q] = "readwait" /\ pc'[q] = "readwoken"
                         \/ pc[q] = "writewait" /\ pc'[q] = "writewoken"
    BY <2>1
  <2> QED
    BY <2>2 DEF Has
<1>9. \A q \in Procs : Has(q) => want'[q] = want[q] /\ data'[bp'[q]] = data[bp[q]]
  <2> SUFFICES ASSUME NEW q \in Procs, Has(q) PROVE data'[bp[q]] = data[bp[q]]
    BY <1>3
  <2>1. bp[q] \in Bufs /\ pc[q] \in Holding
    BY HolderAlone DEF Has, Holding
  <2>2. CASE bp[q] = b
    <3>1. q = p
      BY <1>1, <2>1, <2>2
    <3>2. dirty[b]
      BY <1>1, <3>1 DEF Has, Waiting
    <3> QED
      BY <1>4, <2>2, <3>2
  <2>3. CASE bp[q] # b
    BY <1>4, <2>1, <2>3
  <2> QED
    BY <2>2, <2>3
<1> QED
  BY <1>6, <1>7, <1>8, <1>9, StutterStep

\* Recycling changes no block: what it takes is nobody's, and a copy of the disk.
LEMMA RecycleStep ==
  ASSUME BuffersSound, BuffersSound', CleanCopies, NEW p \in Procs, NEW k \in Blocks,
         BgetRecycle(p, k)
  PROVE  CleanCopies' /\ UNCHANGED Abstract!vars
<1>1. CASE Recyclable = {}
  <2>1. UNCHANGED <<bufs, disk, procs>>
    BY <1>1, OutOfBuffers
  <2>2. CleanCopies' /\ Store' = Store
    BY <2>1 DEF CleanCopies, Store, bufs
  <2>3. \A q \in Procs : /\ Has(q)' <=> Has(q)
                         /\ want'[q] = want[q] /\ data'[bp'[q]] = data[bp[q]]
    BY <2>1 DEF Has, bufs, procs
  <2> QED
    BY <2>2, <2>3, StutterStep
<1>2. CASE Recyclable # {}
  <2>1. PICK b \in Bufs :
           /\ refcnt[b] = 0 /\ ~dirty[b] /\ Cached(k) = {}
           /\ blockno' = [blockno EXCEPT ![b] = k]
           /\ valid' = [valid EXCEPT ![b] = FALSE]
           /\ dirty' = dirty
           /\ refcnt' = [refcnt EXCEPT ![b] = @ + 1]
           /\ bp' = [bp EXCEPT ![p] = b] /\ want' = [want EXCEPT ![p] = k]
           /\ At(p, "idle") /\ Goto(p, "acquire")
           /\ UNCHANGED <<data, mru, holder, idequeue, disk, panicked, writes>>
    BY <1>2, Recycled
  <2>2. /\ ~valid'[b]
        /\ \A c \in Bufs : c # b => blockno'[c] = blockno[c] /\ valid'[c] = valid[c]
    BY <2>1 DEF BuffersSound, TypeOK
  <2>3. CleanCopies'
    BY <2>1, <2>2 DEF CleanCopies
  <2>4. Store' = Store
    <3>1. ASSUME NEW c \in Bufs, valid'[c] PROVE Store[blockno'[c]] = data'[c]
      BY <2>1, <2>2, <3>1, StoreAt
    <3>2. ASSUME NEW j \in Blocks, \A c \in Bufs : valid'[c] => blockno'[c] # j
          PROVE  Store[j] = disk'[j]
      <4>1. CASE valid[b] /\ blockno[b] = j
        <5>1. Store[j] = data[b]
          BY <4>1, StoreAt
        <5>2. data[b] = disk[j]
          BY <2>1, <4>1 DEF CleanCopies
        <5> QED
          BY <2>1, <5>1, <5>2
      <4>2. CASE ~(valid[b] /\ blockno[b] = j)
        <5>1. \A c \in Bufs : valid[c] => blockno[c] # j
          BY <2>2, <3>2, <4>2
        <5> QED
          BY <2>1, <5>1, StoreAt
      <4> QED
        BY <4>1, <4>2
    <3>3. Store \in [Blocks -> Values]
      BY StoreAt
    <3> QED
      BY <3>1, <3>2, <3>3, StoreAfter
  <2>5. /\ pc[p] = "idle" /\ pc'[p] = "acquire"
        /\ \A q \in Procs : q # p => pc'[q] = pc[q] /\ bp'[q] = bp[q] /\ want'[q] = want[q]
    BY <2>1 DEF At, Goto, BuffersSound, TypeOK
  <2>6. \A q \in Procs : /\ Has(q)' <=> Has(q)
                         /\ Has(q) => want'[q] = want[q] /\ data'[bp'[q]] = data[bp[q]]
    BY <2>1, <2>5 DEF Has
  <2> QED
    BY <2>3, <2>4, <2>6, StutterStep
<1> QED
  BY <1>1, <1>2

\* Every step is a step of BlockStore or none, as long as the disk reads without error.
LEMMA StepImplements ==
  ASSUME BuffersSound, BuffersSound', CleanCopies, ReadFails \subseteq {FALSE}, [Next]_vars
  PROVE  CleanCopies' /\ [Abstract!Next]_(Abstract!vars)
<1>1. ASSUME UNCHANGED <<blockno, valid, dirty, data, disk>>
      PROVE  CleanCopies' /\ Store' = Store
  BY <1>1 DEF CleanCopies, Store
<1>2. CASE UNCHANGED vars
  <2>1. UNCHANGED <<bufs, disk, procs>>
    BY <1>2 DEF vars
  <2>2. \A q \in Procs : /\ Has(q)' <=> Has(q)
                         /\ want'[q] = want[q] /\ data'[bp'[q]] = data[bp[q]]
    BY <2>1 DEF Has, bufs, procs
  <2> QED
    BY <1>1, <2>1, <2>2, StutterStep DEF bufs
<1>3. ASSUME NEW p \in Procs, NEW k \in Blocks, BgetHit(p, k)
      PROVE  CleanCopies' /\ UNCHANGED Abstract!vars
  <2>1. /\ pc[p] = "idle" /\ pc'[p] = "acquire"
        /\ \A q \in Procs : q # p => pc'[q] = pc[q] /\ bp'[q] = bp[q] /\ want'[q] = want[q]
        /\ UNCHANGED <<blockno, valid, dirty, data, disk>>
    BY <1>3 DEF BgetHit, At, Goto, BuffersSound, TypeOK
  <2>2. \A q \in Procs : /\ Has(q)' <=> Has(q)
                         /\ Has(q) => want'[q] = want[q] /\ data'[bp'[q]] = data[bp[q]]
    BY <2>1 DEF Has
  <2> QED
    BY <1>1, <2>1, <2>2, StutterStep
<1>4. ASSUME NEW p \in Procs, AcquireSleep(p)
      PROVE  CleanCopies' /\ [Abstract!Next]_(Abstract!vars)
  <2>1. /\ pc[p] = "acquire" /\ UNCHANGED <<blockno, valid, dirty, data, disk, want, bp>>
        /\ \A q \in Procs : q # p => pc'[q] = pc[q]
        /\ pc'[p] \in {"locksleep", "held", "readrw"}
        /\ pc' = [pc EXCEPT ![p] = pc'[p]]
    BY <1>4 DEF AcquireSleep, At, Goto, bufs, BuffersSound, TypeOK
  <2>2. CleanCopies' /\ Store' = Store
    BY <1>1, <2>1
  <2>3. CASE pc'[p] = "held"
    <3>1. \E k \in Blocks : Abstract!Take(p, k)
      BY <2>1, <2>3, TakeStep DEF Has
    <3> QED
      BY <2>2, <3>1 DEF Abstract!Next
  <2>4. CASE pc'[p] # "held"
    <3>1. \A q \in Procs : Has(q)' <=> Has(q)
      BY <2>1, <2>4 DEF Has
    <3> QED
      BY <2>1, <2>2, <3>1, StutterStep
  <2> QED
    BY <2>3, <2>4
<1>5. ASSUME NEW p \in Procs, IdeRw(p)
      PROVE  CleanCopies' /\ UNCHANGED Abstract!vars
  <2>1. /\ pc[p] \in {"readrw", "writerw"}
        /\ UNCHANGED <<blockno, valid, dirty, data, disk, want, bp>>
        /\ \A q \in Procs : q # p => pc'[q] = pc[q]
        /\ pc'[p] = pc[p] \/ pc'[p] = IF pc[p] = "readrw" THEN "readwait" ELSE "writewait"
    BY <1>5 DEF IdeRw, At, Goto, bufs, BuffersSound, TypeOK
  <2>2. \A q \in Procs : Has(q)' <=> Has(q)
    BY <2>1 DEF Has
  <2> QED
    BY <1>1, <2>1, <2>2, StutterStep
<1>6. ASSUME NEW p \in Procs, IdeDone(p)
      PROVE  CleanCopies' /\ [Abstract!Next]_(Abstract!vars)
  <2>1. /\ pc[p] \in {"readwoken", "writewoken"}
        /\ UNCHANGED <<blockno, valid, dirty, data, disk, want, bp>>
        /\ pc' = [pc EXCEPT ![p] = IF pc[p] = "readwoken" THEN "held" ELSE "written"]
    BY <1>6, IdeDoneSound DEF IdeDone, At, bufs
  <2>2. CleanCopies' /\ Store' = Store
    BY <1>1, <2>1
  <2>3. CASE pc[p] = "readwoken"
    <3>1. \E k \in Blocks : Abstract!Take(p, k)
      BY <2>1, <2>3, TakeStep DEF Has
    <3> QED
      BY <2>2, <3>1 DEF Abstract!Next
  <2>4. CASE pc[p] = "writewoken"
    <3>1. \A q \in Procs : Has(q)' <=> Has(q)
      BY <2>1, <2>4 DEF Has, BuffersSound, TypeOK
    <3> QED
      BY <2>1, <2>2, <3>1, StutterStep
  <2> QED
    BY <2>1, <2>3, <2>4
<1>7. ASSUME NEW p \in Procs, ReleaseSleep(p)
      PROVE  CleanCopies' /\ [Abstract!Next]_(Abstract!vars)
  <2>1. Abstract!Drop(p)
    BY <1>7, DropStep
  <2>2. CleanCopies'
    BY <1>1, <1>7 DEF ReleaseSleep, bufs
  <2> QED
    BY <2>1, <2>2 DEF Abstract!Next
<1>8. ASSUME NEW p \in Procs, BrelseUnref(p)
      PROVE  CleanCopies' /\ UNCHANGED Abstract!vars
  <2>1. /\ pc[p] = "unref" /\ pc'[p] = "idle"
        /\ \A q \in Procs : q # p => pc'[q] = pc[q] /\ bp'[q] = bp[q] /\ want'[q] = want[q]
        /\ UNCHANGED <<blockno, valid, dirty, data, disk>>
    BY <1>8 DEF BrelseUnref, At, Goto, BuffersSound, TypeOK
  <2>2. \A q \in Procs : /\ Has(q)' <=> Has(q)
                         /\ Has(q) => want'[q] = want[q] /\ data'[bp'[q]] = data[bp[q]]
    BY <2>1 DEF Has
  <2> QED
    BY <1>1, <2>1, <2>2, StutterStep
<1>9. ASSUME NEW p \in Procs, pc[p] = "held", dirty' = [dirty EXCEPT ![bp[p]] = TRUE],
             \A c \in Bufs : c # bp[p] => data'[c] = data[c],
             UNCHANGED <<blockno, valid, disk>>
      PROVE  CleanCopies'
  <2>1. bp[p] \in Bufs
    BY <1>9, BlockOf
  <2>2. dirty'[bp[p]] /\ \A c \in Bufs : c # bp[p] => dirty'[c] = dirty[c]
    BY <1>9, <2>1 DEF BuffersSound, TypeOK
  <2> QED
    BY <1>9, <2>2 DEF CleanCopies
<1>10. ASSUME NEW p \in Procs, LogWrite(p)
       PROVE  CleanCopies' /\ [Abstract!Next]_(Abstract!vars)
  <2>1. /\ pc[p] = "held" /\ dirty' = [dirty EXCEPT ![bp[p]] = TRUE]
        /\ data' = [data EXCEPT ![bp[p]] = writes + 1] /\ pc' = [pc EXCEPT ![p] = "written"]
        /\ UNCHANGED <<blockno, valid, disk, want, bp>> /\ writes < MaxWrites
    BY <1>10 DEF LogWrite, At, Goto
  <2>2. PICK v \in Values : v = writes + 1
    BY <2>1, BlockOf, NewValue DEF BuffersSound
  <2>3. Abstract!Put(p, v)
    BY <2>1, <2>2, PutStep
  <2>4. CleanCopies'
    BY <1>9, <2>1 DEF BuffersSound, TypeOK
  <2> QED
    BY <2>2, <2>3, <2>4 DEF Abstract!Next
<1>11. ASSUME NEW p \in Procs, Bwrite(p)
       PROVE  CleanCopies' /\ [Abstract!Next]_(Abstract!vars)
  <2>1. /\ pc[p] = "held" /\ dirty' = [dirty EXCEPT ![bp[p]] = TRUE]
        /\ pc' = [pc EXCEPT ![p] = "writerw"]
        /\ UNCHANGED <<blockno, valid, disk, want, bp>>
    BY <1>11, BwriteSound DEF Bwrite, At, Goto
  <2>2. CASE UNCHANGED <<data, writes>>
    <3>1. Store' = Store
      BY <2>1, <2>2 DEF Store
    <3>2. \A q \in Procs : Has(q)' <=> Has(q)
      BY <2>1 DEF Has, BuffersSound, TypeOK
    <3>3. CleanCopies'
      BY <1>9, <2>1, <2>2
    <3> QED
      BY <2>1, <2>2, <3>1, <3>2, <3>3, StutterStep
  <2>3. CASE /\ writes < MaxWrites /\ writes' = writes + 1
             /\ data' = [data EXCEPT ![bp[p]] = writes + 1]
    <3>1. PICK v \in Values : v = writes + 1
      BY <2>1, <2>3, BlockOf, NewValue DEF BuffersSound
    <3>2. Abstract!Put(p, v)
      BY <2>1, <2>3, <3>1, PutStep
    <3>3. CleanCopies'
      BY <1>9, <2>1, <2>3 DEF BuffersSound, TypeOK
    <3> QED
      BY <3>1, <3>2, <3>3 DEF Abstract!Next
  <2> QED
    BY <1>11, <2>2, <2>3 DEF Bwrite
<1>12. ASSUME NEW failed \in ReadFails, IdeIntr(failed)
       PROVE  CleanCopies' /\ UNCHANGED Abstract!vars
  <2>1. failed = FALSE
    OBVIOUS
  <2> QED
    BY <1>12, <2>1, IdeIntrStep
<1>13. CASE Next
  BY <1>13, <1>3, <1>4, <1>5, <1>6, <1>7, <1>8, <1>10, <1>11, <1>12, RecycleStep DEF Next, Step
<1> QED
  BY <1>2, <1>13

\* The initial state is one of BlockStore.
LEMMA InitImplements == Init => CleanCopies /\ Abstract!Init
<1> SUFFICES ASSUME Init PROVE CleanCopies /\ Abstract!Init
  OBVIOUS
<1>1. CleanCopies
  BY DEF Init, CleanCopies
<1>2. Store \in [Blocks -> Values]
  BY InitSound, StoreAt
<1>3. \A p \in Procs : ~Has(p)
  BY DEF Init, Has
<1> QED
  BY <1>1, <1>2, <1>3 DEF Abstract!Init

\* For any processes, blocks and buffers, as long as the disk reads without error: with the
\* cache, its recycling and late writes, a process that takes a block sees what was last
\* written to it, and has it alone.
THEOREM CacheImplements ==
  ASSUME ReadFails \subseteq {FALSE}
  PROVE  Spec => StoreImplemented
<1>1. Init => BuffersSound /\ CleanCopies /\ Abstract!Init
  BY InitSound, InitImplements
<1>2. BuffersSound /\ CleanCopies /\ [Next]_vars => BuffersSound' /\ CleanCopies'
  BY NextSound, StepImplements
<1>3. BuffersSound /\ CleanCopies /\ [Next]_vars => [Abstract!Next]_(Abstract!vars)
  BY NextSound, StepImplements
<1> QED
  BY <1>1, <1>2, <1>3, PTL DEF Spec, StoreImplemented, Abstract!Spec
=============================================================================
