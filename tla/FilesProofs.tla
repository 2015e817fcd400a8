----------------------------- MODULE FilesProofs ----------------------------
(***************************************************************************)
(* Proofs about open files and pipes, for any processes, pages and sizes   *)
(* of the tables, of a pipe and of its counters.  CountsExact, StreamIntact *)
(* and SleepersHaveReason of Files are inductive together.                 *)
(***************************************************************************)
EXTENDS Files, TLAPS, FiniteSetTheorems, WellFoundedInduction

-----------------------------------------------------------------------------
(* Arithmetic *)

\* The remainder of a number that is at most one turn away.
LEMMA SmallMod ==
  ASSUME NEW d \in Nat \ {0}, NEW x \in Int
  PROVE  /\ x \in 0 .. d - 1 => x % d = x
         /\ x \in d .. 2 * d - 1 => x % d = x - d
         /\ x \in -d .. -1 => x % d = x + d
         /\ x % d \in 0 .. d - 1
  OBVIOUS

\* A set of natural numbers that is not empty has a least element.
LEMMA LeastNumber ==
  ASSUME NEW S \in SUBSET Nat, S # {}
  PROVE  \E x \in S : \A y \in S : x <= y
<1> DEFINE R == {z \in Nat \X Nat : z[1] < z[2]}
<1>1. \A x, y \in Nat : y < x => <<y, x>> \in R
  OBVIOUS
<1>2. IsWellFoundedOn(R, Nat)
  BY NatLessThanWellFounded, Zenon DEF OpToRel
<1> HIDE DEF R
<1>3. PICK x \in S : \A y \in S : ~ (<<y, x>> \in R)
  BY <1>2, WFMin
<1>4. \A y \in S : ~(y < x)
  BY <1>1, <1>3
<1> QED
  BY <1>4

\* A remainder, from any way to write the number with a quotient.
LEMMA ModIs ==
  ASSUME NEW d \in Nat \ {0}, NEW x \in Int, NEW q \in Int, NEW r \in 0 .. d - 1, x = d * q + r
  PROVE  x % d = r
  BY SMTT(30)

\* Every number has a quotient to its remainder.
LEMMA DivMod ==
  ASSUME NEW d \in Nat \ {0}, NEW x \in Int
  PROVE  \E q \in Int, r \in 0 .. d - 1 : x = d * q + r /\ x % d = r
<1> DEFINE S == {n \in Nat : \E q \in Int : x = d * q + n}
<1>1. \E n \in Nat, q \in Int : x = d * q + n
  <2>1. CASE x >= 0
    <3>1. x = d * 0 + x /\ x \in Nat /\ 0 \in Int
      BY <2>1
    <3> QED
      BY <3>1
  <2>2. CASE x < 0
    <3>1. x - d * x \in Int /\ x = d * x + (x - d * x)
      OBVIOUS
    <3>2. x - d * x >= 0
      <4>1. (d - 1) * (0 - x) >= 0
        BY <2>2
      <4>2. (d - 1) * (0 - x) = x - d * x
        OBVIOUS
      <4> QED
        BY <4>1, <4>2
    <3>3. x - d * x \in Nat
      BY <3>1, <3>2
    <3> QED
      BY <3>1, <3>3
  <2> QED
    BY <2>1, <2>2
<1>2. PICK r \in S : \A n \in S : r <= n
  <2>1. S \in SUBSET Nat /\ S # {}
    BY <1>1
  <2> HIDE DEF S
  <2> QED
    BY <2>1, LeastNumber
<1>3. PICK q \in Int : x = d * q + r /\ r \in Nat
  OBVIOUS
<1>4. r < d
  <2> SUFFICES ASSUME r >= d
               PROVE  FALSE
    OBVIOUS
  <2>1. r - d \in Nat
    OBVIOUS
  <2>2. x = d * (q + 1) + (r - d) /\ q + 1 \in Int
    BY <1>3
  <2>3. r - d \in S
    BY <2>1, <2>2
  <2> HIDE DEF S
  <2>4. r <= r - d
    BY <1>2, <2>3
  <2> QED
    BY <1>3, <2>4
<1>5. r \in 0 .. d - 1
  BY <1>3, <1>4
<1>6. x % d = r
  BY <1>3, <1>5, ModIs
<1> HIDE DEF S
<1> QED
  BY <1>3, <1>5, <1>6

\* A quotient and a remainder are unique.
LEMMA ModUnique ==
  ASSUME NEW d \in Nat \ {0}, NEW a \in Int, NEW b \in Int, NEW r \in 0 .. d - 1,
         NEW s \in 0 .. d - 1, d * a + r = d * b + s
  PROVE  r = s /\ a = b
<1>1. CASE a = b
  BY <1>1
<1>2. CASE a < b
  <2>1. b - a - 1 \in Nat
    BY <1>2
  <2>2. d * (b - a - 1) >= 0
    BY <2>1
  <2>3. d * (b - a - 1) = d * b - d * a - d
    OBVIOUS
  <2> QED
    BY <2>2, <2>3
<1>3. CASE b < a
  <2>1. a - b - 1 \in Nat
    BY <1>3
  <2>2. d * (a - b - 1) >= 0
    BY <2>1
  <2>3. d * (a - b - 1) = d * a - d * b - d
    OBVIOUS
  <2> QED
    BY <2>2, <2>3
<1> QED
  BY <1>1, <1>2, <1>3

\* Two numbers less than d apart have different remainders.
LEMMA ModDistinct ==
  ASSUME NEW d \in Nat \ {0}, NEW x \in Int, NEW y \in Int, x < y, y < x + d
  PROVE  x % d # y % d
<1> SUFFICES ASSUME x % d = y % d
             PROVE  FALSE
  OBVIOUS
<1>1. PICK a \in Int, r \in 0 .. d - 1 : x = d * a + r /\ x % d = r
  BY DivMod
<1>2. PICK b \in Int, s \in 0 .. d - 1 : y = d * b + s /\ y % d = s
  BY DivMod
<1>3. d * a \in Int /\ d * b \in Int /\ r = s
  BY <1>1, <1>2
<1>4. y - x = d * b - d * a /\ y - x \in 1 .. d - 1
  <2>1. x = d * a + r /\ y = d * b + r
    BY <1>1, <1>2, <1>3
  <2> QED
    BY <2>1, <1>3
<1>5. d * a + (y - x) = d * b + 0
  BY <1>3, <1>4
<1>6. y - x = 0
  BY <1>4, <1>5, ModUnique
<1> QED
  BY <1>4, <1>6

\* Multiples of d do not count.
LEMMA ModShift ==
  ASSUME NEW d \in Nat \ {0}, NEW x \in Int, NEW m \in Int
  PROVE  (x + d * m) % d = x % d
<1>1. PICK a \in Int, r \in 0 .. d - 1 : x = d * a + r /\ x % d = r
  BY DivMod
<1>2. d * (a + m) = d * a + d * m /\ a + m \in Int /\ x + d * m \in Int
  OBVIOUS
<1>3. x + d * m = d * (a + m) + r
  <2>1. x = d * a + r
    BY <1>1
  <2> QED
    BY <1>2, <2>1
<1>4. (x + d * m) % d = r
  BY <1>2, <1>3, ModIs
<1> QED
  BY <1>1, <1>4

\* The least element of a set of natural numbers, and of a pair of integers.
LEMMA MinIn ==
  ASSUME NEW S \in SUBSET Nat, S # {}
  PROVE  Min(S) \in S
<1>1. \E x \in S : \A y \in S : x <= y
  BY LeastNumber
<1> QED
  BY <1>1 DEF Min

LEMMA MinPair ==
  ASSUME NEW a \in Int, NEW b \in Int
  PROVE  Min({a, b}) = IF a <= b THEN a ELSE b
  BY DEF Min

\* The greatest element of a set with one element.
LEMMA MaxOne ==
  ASSUME NEW a \in Int
  PROVE  Max({a}) = a
  BY DEF Max

-----------------------------------------------------------------------------
(* The counters of a pipe *)

LEMMA PipeSizes ==
  PIPESIZE \in Nat \ {0} /\ WORD \in Nat \ {0} /\ PIPESIZE < WORD
  BY FilesAssumption

\* PIPESIZE divides WORD.
LEMMA SizesDivide == \E m \in Int : WORD = PIPESIZE * m
<1>1. WORD \in Int /\ WORD % PIPESIZE = 0
  BY FilesAssumption
<1>2. PICK m \in Int, r \in 0 .. PIPESIZE - 1 : WORD = PIPESIZE * m + r /\ WORD % PIPESIZE = r
  BY <1>1, PipeSizes, DivMod
<1>3. r = 0 /\ PIPESIZE * m \in Int
  BY <1>1, <1>2, PipeSizes
<1>4. WORD = PIPESIZE * m
  BY <1>2, <1>3
<1> QED
  BY <1>4

\* Sums and differences of counters, modulo WORD.
LEMMA SumWraps ==
  ASSUME NEW x \in 0 .. WORD - 1, NEW y \in 0 .. WORD - 1
  PROVE  /\ (x + y) % WORD = IF x + y < WORD THEN x + y ELSE x + y - WORD
         /\ (x + y) % WORD \in 0 .. WORD - 1
<1>1. PICK z \in Int : z = x + y
  BY PipeSizes
<1>2. z \in 0 .. 2 * WORD - 1
  BY <1>1, PipeSizes
<1>3. /\ z \in 0 .. WORD - 1 => z % WORD = z
      /\ z \in WORD .. 2 * WORD - 1 => z % WORD = z - WORD
      /\ z % WORD \in 0 .. WORD - 1
  BY PipeSizes, SmallMod
<1>4. z % WORD = IF z < WORD THEN z ELSE z - WORD
  BY <1>2, <1>3, PipeSizes
<1>5. (x + y) % WORD = z % WORD /\ (z < WORD <=> x + y < WORD) /\ z - WORD = x + y - WORD
  BY <1>1, PipeSizes
<1> QED
  BY <1>1, <1>3, <1>4, <1>5

LEMMA DifferenceWraps ==
  ASSUME NEW x \in 0 .. WORD - 1, NEW y \in 0 .. WORD - 1
  PROVE  /\ (x - y) % WORD = IF y <= x THEN x - y ELSE x - y + WORD
         /\ (x - y) % WORD \in 0 .. WORD - 1
<1>1. PICK z \in Int : z = x - y
  BY PipeSizes
<1>2. z \in -WORD .. WORD - 1
  BY <1>1, PipeSizes
<1>3. /\ z \in 0 .. WORD - 1 => z % WORD = z
      /\ z \in -WORD .. -1 => z % WORD = z + WORD
      /\ z % WORD \in 0 .. WORD - 1
  BY PipeSizes, SmallMod
<1>4. z % WORD = IF z >= 0 THEN z ELSE z + WORD
  BY <1>2, <1>3, PipeSizes
<1>5. z >= 0 <=> y <= x
  BY <1>1, PipeSizes
<1> QED
  BY <1>1, <1>3, <1>4, <1>5

\* A byte of the stream has the same place in data[], whether or not its counter has wrapped.
LEMMA PlaceWraps ==
  ASSUME NEW a \in 0 .. WORD - 1, NEW k \in 0 .. WORD - 1
  PROVE  ((a + k) % WORD) % PIPESIZE = (a + k) % PIPESIZE
<1>1. CASE a + k < WORD
  <2>1. (a + k) % WORD = a + k
    BY <1>1, SumWraps
  <2> QED
    BY <2>1
<1>2. CASE ~(a + k < WORD)
  <2>1. PICK m \in Int : WORD = PIPESIZE * m
    BY SizesDivide
  <2>2. PICK z \in Int : z = a + k - WORD
    BY PipeSizes
  <2>3. (a + k) % WORD = z
    BY <1>2, <2>2, SumWraps
  <2>4. (z + PIPESIZE * m) % PIPESIZE = z % PIPESIZE
    BY PipeSizes, ModShift
  <2>5. z + PIPESIZE * m = a + k
    <3>1. z + WORD = a + k
      BY <2>2, PipeSizes
    <3> QED
      BY <2>1, <3>1
  <2> QED
    BY <2>3, <2>4, <2>5
<1> QED
  BY <1>1, <1>2

\* PIPESIZE bytes in a row have different places.
LEMMA PlacesDistinct ==
  ASSUME NEW a \in 0 .. WORD - 1, NEW j \in 0 .. PIPESIZE - 1, NEW k \in 0 .. PIPESIZE - 1, j # k
  PROVE  ((a + j) % WORD) % PIPESIZE # ((a + k) % WORD) % PIPESIZE
<1>1. j \in 0 .. WORD - 1 /\ k \in 0 .. WORD - 1
  BY PipeSizes
<1>2. /\ ((a + j) % WORD) % PIPESIZE = (a + j) % PIPESIZE
      /\ ((a + k) % WORD) % PIPESIZE = (a + k) % PIPESIZE
  BY <1>1, PlaceWraps
<1>3. a + j \in Int /\ a + k \in Int
  BY PipeSizes
<1>4. (a + j) % PIPESIZE # (a + k) % PIPESIZE
  <2>1. CASE j < k
    <3>1. a + j < a + k /\ a + k < (a + j) + PIPESIZE
      BY <2>1, PipeSizes
    <3> QED
      BY <1>3, <3>1, PipeSizes, ModDistinct
  <2>2. CASE k < j
    <3>1. a + k < a + j /\ a + j < (a + k) + PIPESIZE
      BY <2>2, PipeSizes
    <3> QED
      BY <1>3, <3>1, PipeSizes, ModDistinct
  <2> QED
    BY <2>1, <2>2
<1> QED
  BY <1>2, <1>4

\* What reading n bytes does to the counters a of the reader and b of the writer.
LEMMA CountRead ==
  ASSUME NEW a \in 0 .. WORD - 1, NEW b \in 0 .. WORD - 1, NEW n \in 0 .. WORD - 1,
         n <= (b - a) % WORD
  PROVE  /\ (b - ((a + n) % WORD)) % WORD = ((b - a) % WORD) - n
         /\ \A k \in Nat : n + k < WORD => (((a + n) % WORD) + k) % WORD = (a + (n + k)) % WORD
<1>1. PICK c \in 0 .. WORD - 1 : c = (a + n) % WORD
  BY SumWraps
<1>2. PICK u \in 0 .. WORD - 1 : u = (b - a) % WORD
  BY DifferenceWraps
<1>3. c = IF a + n < WORD THEN a + n ELSE a + n - WORD
  BY <1>1, SumWraps
<1>4. u = IF a <= b THEN b - a ELSE b - a + WORD
  BY <1>2, DifferenceWraps
<1>5. PICK v \in 0 .. WORD - 1 : v = (b - c) % WORD /\ v = IF c <= b THEN b - c ELSE b - c + WORD
  BY DifferenceWraps
<1>6. n <= u
  BY <1>2
<1>7. v = u - n
  BY <1>3, <1>4, <1>5, <1>6, PipeSizes
<1>8. ASSUME NEW k \in Nat, n + k < WORD
      PROVE  (c + k) % WORD = (a + (n + k)) % WORD
  <2>1. k \in 0 .. WORD - 1 /\ n + k \in 0 .. WORD - 1
    BY <1>8, PipeSizes
  <2>2. PICK s \in 0 .. WORD - 1 :
          s = (c + k) % WORD /\ s = IF c + k < WORD THEN c + k ELSE c + k - WORD
    BY <2>1, SumWraps
  <2>3. PICK t \in 0 .. WORD - 1 :
          /\ t = (a + (n + k)) % WORD
          /\ t = IF a + (n + k) < WORD THEN a + (n + k) ELSE a + (n + k) - WORD
    BY <2>1, SumWraps
  <2>4. s = t
    BY <1>3, <2>1, <2>2, <2>3, PipeSizes
  <2> QED
    BY <2>2, <2>3, <2>4
<1>9. (b - ((a + n) % WORD)) % WORD = ((b - a) % WORD) - n
  <2>1. (b - c) % WORD = v
    BY <1>5
  <2>2. (b - ((a + n) % WORD)) % WORD = v
    BY <1>1, <2>1, Zenon
  <2> QED
    BY <2>2, <1>2, <1>7
<1>10. ASSUME NEW k \in Nat, n + k < WORD
       PROVE  (((a + n) % WORD) + k) % WORD = (a + (n + k)) % WORD
  BY <1>1, <1>8, <1>10
<1> QED
  BY <1>9, <1>10

\* What writing n bytes does to them.
LEMMA CountWritten ==
  ASSUME NEW a \in 0 .. WORD - 1, NEW b \in 0 .. WORD - 1, NEW n \in Nat,
         ((b - a) % WORD) + n < WORD
  PROVE  /\ (((b + n) % WORD) - a) % WORD = ((b - a) % WORD) + n
         /\ (b + n) % WORD = (a + (((b - a) % WORD) + n)) % WORD
<1>1. PICK u \in 0 .. WORD - 1 : u = (b - a) % WORD
  BY DifferenceWraps
<1>2. u + n < WORD
  BY <1>1
<1>3. n \in 0 .. WORD - 1 /\ u + n \in 0 .. WORD - 1
  BY <1>2, PipeSizes
<1>4. u = IF a <= b THEN b - a ELSE b - a + WORD
  BY <1>1, DifferenceWraps
<1>5. PICK c \in 0 .. WORD - 1 :
        c = (b + n) % WORD /\ c = IF b + n < WORD THEN b + n ELSE b + n - WORD
  BY <1>3, SumWraps
<1>6. PICK v \in 0 .. WORD - 1 : v = (c - a) % WORD /\ v = IF a <= c THEN c - a ELSE c - a + WORD
  BY DifferenceWraps
<1>7. PICK t \in 0 .. WORD - 1 :
        /\ t = (a + (u + n)) % WORD
        /\ t = IF a + (u + n) < WORD THEN a + (u + n) ELSE a + (u + n) - WORD
  <2>1. PICK e \in 0 .. WORD - 1 : e = u + n
    BY <1>3
  <2>2. PICK t \in 0 .. WORD - 1 : t = (a + e) % WORD /\ t = IF a + e < WORD THEN a + e ELSE a + e - WORD
    BY SumWraps
  <2> QED
    BY <2>1, <2>2
<1>8. v = u + n /\ c = t
  BY <1>2, <1>3, <1>4, <1>5, <1>6, <1>7, PipeSizes
<1> QED
  BY <1>1, <1>5, <1>6, <1>7, <1>8

-----------------------------------------------------------------------------
(* References to files *)

Is(v, f) == IF v = f THEN 1 ELSE 0

\* The descriptors of tables o, and the processes of a local variable h, that refer to f.
FdUsers(o, f) == {x \in Procs \X Fds : o[x[1]][x[2]] = f}
Users(h, f) == {p \in Procs : h[p] = f}

LEMMA Constants ==
  /\ None \notin Slots /\ None \notin Pages /\ None \notin Procs /\ InitProc \in Procs
  /\ Slots \subseteq Nat /\ Fds \subseteq Nat /\ IsFiniteSet(Procs) /\ Sizes \subseteq Nat
  BY FilesAssumption DEF Slots, Fds

\* The users are finitely many.
LEMMA UsersFinite ==
  ASSUME NEW o, NEW h, NEW f
  PROVE  /\ IsFiniteSet(FdUsers(o, f)) /\ Cardinality(FdUsers(o, f)) \in Nat
         /\ IsFiniteSet(Users(h, f)) /\ Cardinality(Users(h, f)) \in Nat
<1>1. IsFiniteSet(Fds)
  <2>1. 0 \in Int /\ NOFILE - 1 \in Int
    BY FilesAssumption
  <2> QED
    BY <2>1, FS_Interval DEF Fds
<1>2. IsFiniteSet(Procs \X Fds)
  BY <1>1, Constants, FS_Product
<1>3. IsFiniteSet(FdUsers(o, f))
  <2>1. FdUsers(o, f) \subseteq Procs \X Fds
    BY DEF FdUsers
  <2> QED
    BY <1>2, <2>1, FS_Subset
<1>4. IsFiniteSet(Users(h, f))
  <2>1. Users(h, f) \subseteq Procs
    BY DEF Users
  <2> QED
    BY <2>1, Constants, FS_Subset
<1> QED
  BY <1>3, <1>4, FS_CardinalityType

\* How a store that makes at most x come or go changes the number of users.
LEMMA UserMoved ==
  ASSUME NEW S, NEW T, IsFiniteSet(S), NEW x, \A y : y # x => (y \in T <=> y \in S)
  PROVE  /\ x \in S /\ x \in T => Cardinality(T) = Cardinality(S)
         /\ x \notin S /\ x \notin T => Cardinality(T) = Cardinality(S)
         /\ x \in S /\ x \notin T => Cardinality(T) = Cardinality(S) - 1
         /\ x \notin S /\ x \in T => Cardinality(T) = Cardinality(S) + 1
<1>1. CASE x \in S <=> x \in T
  <2>1. T = S
    BY <1>1
  <2> QED
    BY <1>1, <2>1
<1>2. CASE x \in S /\ x \notin T
  <2>1. T = S \ {x}
    BY <1>2
  <2>2. Cardinality(S \ {x}) = Cardinality(S) - 1
    BY <1>2, FS_RemoveElement
  <2> QED
    BY <1>2, <2>1, <2>2
<1>3. CASE x \notin S /\ x \in T
  <2>1. T = S \cup {x}
    BY <1>3
  <2>2. Cardinality(S \cup {x}) = Cardinality(S) + 1
    BY <1>3, FS_AddElement
  <2> QED
    BY <1>3, <2>1, <2>2
<1> QED
  BY <1>1, <1>2, <1>3

\* A store into a descriptor.
LEMMA FdStored ==
  ASSUME NEW o, NEW o2, NEW p \in Procs, NEW fd \in Fds, NEW f,
         \A q \in Procs, g \in Fds : q # p \/ g # fd => o2[q][g] = o[q][g]
  PROVE  Cardinality(FdUsers(o2, f))
           = Cardinality(FdUsers(o, f)) - Is(o[p][fd], f) + Is(o2[p][fd], f)
<1> DEFINE S == FdUsers(o, f)
           T == FdUsers(o2, f)
           x == <<p, fd>>
<1>1. IsFiniteSet(S)
  BY UsersFinite
<1>2. (x \in S <=> o[p][fd] = f) /\ (x \in T <=> o2[p][fd] = f)
  BY DEF FdUsers
<1>3. ASSUME NEW y, y # x
      PROVE  y \in T <=> y \in S
  <2>1. CASE y \notin Procs \X Fds
    BY <2>1 DEF FdUsers
  <2>2. CASE y \in Procs \X Fds
    <3>1. PICK q \in Procs, g \in Fds : y = <<q, g>>
      BY <2>2
    <3>2. q # p \/ g # fd
      BY <1>3, <3>1
    <3>3. o2[q][g] = o[q][g]
      BY <3>2
    <3> QED
      BY <3>1, <3>3 DEF FdUsers
  <2> QED
    BY <2>1, <2>2
<1> HIDE DEF S, T, x
<1>4. Cardinality(T) = Cardinality(S) - Is(o[p][fd], f) + Is(o2[p][fd], f)
  <2>1. Cardinality(S) \in Nat
    BY <1>1, FS_CardinalityType
  <2> QED
    BY <1>1, <1>2, <1>3, <2>1, UserMoved DEF Is
<1> QED
  BY <1>4 DEF S, T

\* The reference count of a file, as the number of its users.
LEMMA RefCounted ==
  ASSUME RefExact, NEW f \in Slots
  PROVE  ref[f] = Cardinality(FdUsers(ofile, f)) + Cardinality(Users(f0, f))
                    + Cardinality(Users(f1, f))
  BY DEF RefExact, FdUsers, Users

\* A file that has a user has references, and one reference is that of one user.
LEMMA RefFacts ==
  ASSUME TypeOK, RefExact, NEW f \in Slots
  PROVE  /\ ref[f] = 0 => /\ \A o \in Procs : \A fd \in Fds : ofile[o][fd] # f
                          /\ \A o \in Procs : f0[o] # f /\ f1[o] # f
         /\ \A p \in Procs : f0[p] = f /\ ref[f] = 1 =>
              /\ \A o \in Procs : \A fd \in Fds : ofile[o][fd] # f
              /\ \A o \in Procs : f1[o] # f /\ (o # p => f0[o] # f)
         /\ \A p \in Procs : f1[p] = f /\ ref[f] = 1 =>
              /\ \A o \in Procs : \A fd \in Fds : ofile[o][fd] # f
              /\ \A o \in Procs : f0[o] # f /\ (o # p => f1[o] # f)
<1> DEFINE D == FdUsers(ofile, f)
           A == Users(f0, f)
           B == Users(f1, f)
<1>1. /\ IsFiniteSet(D) /\ Cardinality(D) \in Nat
      /\ IsFiniteSet(A) /\ Cardinality(A) \in Nat
      /\ IsFiniteSet(B) /\ Cardinality(B) \in Nat
  BY UsersFinite
<1>2. ref[f] = Cardinality(D) + Cardinality(A) + Cardinality(B)
  BY RefCounted
<1>3. \A o \in Procs : \A fd \in Fds : ofile[o][fd] = f => <<o, fd>> \in D
  BY DEF FdUsers
<1>4. \A o \in Procs : (f0[o] = f <=> o \in A) /\ (f1[o] = f <=> o \in B)
  BY DEF Users
<1> HIDE DEF D, A, B
<1>5. /\ Cardinality(D) = 0 => D = {}
      /\ Cardinality(A) = 0 => A = {}
      /\ Cardinality(B) = 0 => B = {}
  BY <1>1, FS_EmptySet
<1>6. ref[f] = 0 => Cardinality(D) = 0 /\ Cardinality(A) = 0 /\ Cardinality(B) = 0
  BY <1>1, <1>2
<1>7. ASSUME NEW p \in Procs, f0[p] = f, ref[f] = 1
      PROVE  Cardinality(D) = 0 /\ Cardinality(B) = 0 /\ A = {p}
  <2>1. p \in A
    BY <1>4, <1>7
  <2>2. Cardinality(A) # 0
    BY <2>1, <1>5
  <2>3. Cardinality(A) = 1 /\ Cardinality(D) = 0 /\ Cardinality(B) = 0
    BY <2>2, <1>1, <1>2, <1>7
  <2>4. \E a : A = {a}
    BY <2>3, <1>1, FS_Singleton
  <2> QED
    BY <2>1, <2>3, <2>4
<1>8. ASSUME NEW p \in Procs, f1[p] = f, ref[f] = 1
      PROVE  Cardinality(D) = 0 /\ Cardinality(A) = 0 /\ B = {p}
  <2>1. p \in B
    BY <1>4, <1>8
  <2>2. Cardinality(B) # 0
    BY <2>1, <1>5
  <2>3. Cardinality(B) = 1 /\ Cardinality(D) = 0 /\ Cardinality(A) = 0
    BY <2>2, <1>1, <1>2, <1>8
  <2>4. \E a : B = {a}
    BY <2>3, <1>1, FS_Singleton
  <2> QED
    BY <2>1, <2>3, <2>4
<1> QED
  BY <1>3, <1>4, <1>5, <1>6, <1>7, <1>8

\* A store into a local variable, and one into a descriptor, for the variables of the
\* specification.
LEMMA F0Stored ==
  ASSUME NEW p \in Procs, NEW f \in Slots, \A o \in Procs : o # p => f0'[o] = f0[o]
  PROVE  Cardinality(Users(f0', f)) = Cardinality(Users(f0, f)) - Is(f0[p], f) + Is(f0'[p], f)
<1>1. PICK S : S = Users(f0, f)
  OBVIOUS
<1>2. PICK T : T = Users(f0', f)
  OBVIOUS
<1>3. IsFiniteSet(S) /\ Cardinality(S) \in Nat
  BY <1>1, UsersFinite
<1>4. (p \in S <=> f0[p] = f) /\ (p \in T <=> f0'[p] = f)
  BY <1>1, <1>2 DEF Users
<1>5. \A y : y # p => (y \in T <=> y \in S)
  BY <1>1, <1>2 DEF Users
<1>6. Cardinality(T) = Cardinality(S) - Is(f0[p], f) + Is(f0'[p], f)
  BY <1>3, <1>4, <1>5, UserMoved DEF Is
<1> QED
  BY <1>1, <1>2, <1>6

LEMMA F1Stored ==
  ASSUME NEW p \in Procs, NEW f \in Slots, \A o \in Procs : o # p => f1'[o] = f1[o]
  PROVE  Cardinality(Users(f1', f)) = Cardinality(Users(f1, f)) - Is(f1[p], f) + Is(f1'[p], f)
<1>1. PICK S : S = Users(f1, f)
  OBVIOUS
<1>2. PICK T : T = Users(f1', f)
  OBVIOUS
<1>3. IsFiniteSet(S) /\ Cardinality(S) \in Nat
  BY <1>1, UsersFinite
<1>4. (p \in S <=> f1[p] = f) /\ (p \in T <=> f1'[p] = f)
  BY <1>1, <1>2 DEF Users
<1>5. \A y : y # p => (y \in T <=> y \in S)
  BY <1>1, <1>2 DEF Users
<1>6. Cardinality(T) = Cardinality(S) - Is(f1[p], f) + Is(f1'[p], f)
  BY <1>3, <1>4, <1>5, UserMoved DEF Is
<1> QED
  BY <1>1, <1>2, <1>6

LEMMA OfileStored ==
  ASSUME NEW p \in Procs, NEW fd \in Fds, NEW f,
         \A q \in Procs, g \in Fds : q # p \/ g # fd => ofile'[q][g] = ofile[q][g]
  PROVE  Cardinality(FdUsers(ofile', f))
           = Cardinality(FdUsers(ofile, f)) - Is(ofile[p][fd], f) + Is(ofile'[p][fd], f)
<1>1. PICK h : h = ofile'
  OBVIOUS
<1>2. PICK k : k = ofile
  OBVIOUS
<1>3. \A q \in Procs, g \in Fds : q # p \/ g # fd => h[q][g] = k[q][g]
  BY <1>1, <1>2
<1>4. Cardinality(FdUsers(h, f)) = Cardinality(FdUsers(k, f)) - Is(k[p][fd], f) + Is(h[p][fd], f)
  BY <1>3, FdStored
<1> QED
  BY <1>1, <1>2, <1>4

\* The counts stay exact when every store is counted: into the local variables of p, ...
LEMMA LocalsCounted ==
  ASSUME RefExact, ~panicked', ofile' = ofile, NEW p \in Procs,
         \A o \in Procs : o # p => f0'[o] = f0[o] /\ f1'[o] = f1[o],
         \A f \in Slots : ref'[f] = ref[f] - Is(f0[p], f) - Is(f1[p], f) + Is(f0'[p], f)
                                      + Is(f1'[p], f)
  PROVE  RefExact'
<1> SUFFICES ASSUME NEW f \in Slots
             PROVE  ref'[f] = Cardinality(FdUsers(ofile', f)) + Cardinality(Users(f0', f))
                                + Cardinality(Users(f1', f))
  BY DEF RefExact, FdUsers, Users
<1>1. ref[f] = Cardinality(FdUsers(ofile, f)) + Cardinality(Users(f0, f))
                 + Cardinality(Users(f1, f))
  BY RefCounted
<1>2. Cardinality(Users(f0', f)) = Cardinality(Users(f0, f)) - Is(f0[p], f) + Is(f0'[p], f)
  BY F0Stored
<1>3. Cardinality(Users(f1', f)) = Cardinality(Users(f1, f)) - Is(f1[p], f) + Is(f1'[p], f)
  BY F1Stored
<1>4. \A v : Is(v, f) \in Nat
  BY DEF Is
<1> QED
  BY <1>1, <1>2, <1>3, <1>4, UsersFinite

\* ... and into one of its descriptors.
LEMMA FdCounted ==
  ASSUME RefExact, ~panicked', f1' = f1, NEW p \in Procs, NEW fd \in Fds,
         \A q \in Procs, g \in Fds : q # p \/ g # fd => ofile'[q][g] = ofile[q][g],
         \A o \in Procs : o # p => f0'[o] = f0[o],
         \A f \in Slots : ref'[f] = ref[f] - Is(ofile[p][fd], f) - Is(f0[p], f)
                                      + Is(ofile'[p][fd], f) + Is(f0'[p], f)
  PROVE  RefExact'
<1> SUFFICES ASSUME NEW f \in Slots
             PROVE  ref'[f] = Cardinality(FdUsers(ofile', f)) + Cardinality(Users(f0', f))
                                + Cardinality(Users(f1', f))
  BY DEF RefExact, FdUsers, Users
<1>1. ref[f] = Cardinality(FdUsers(ofile, f)) + Cardinality(Users(f0, f))
                 + Cardinality(Users(f1, f))
  BY RefCounted
<1>2. Cardinality(Users(f0', f)) = Cardinality(Users(f0, f)) - Is(f0[p], f) + Is(f0'[p], f)
  BY F0Stored
<1>3. Cardinality(FdUsers(ofile', f))
        = Cardinality(FdUsers(ofile, f)) - Is(ofile[p][fd], f) + Is(ofile'[p][fd], f)
  BY OfileStored
<1>4. \A v : Is(v, f) \in Nat
  BY DEF Is
<1> QED
  BY <1>1, <1>2, <1>3, <1>4, UsersFinite

-----------------------------------------------------------------------------
(* The steps of sys_pipe() *)

\* filealloc() gives a file that nobody refers to.
LEMMA FreeFile ==
  ASSUME CountsExact, FreeFiles # {}
  PROVE  /\ Min(FreeFiles) \in Slots /\ ref[Min(FreeFiles)] = 0 /\ type[Min(FreeFiles)] = "none"
         /\ \A o \in Procs : /\ \A fd \in Fds : ofile[o][fd] # Min(FreeFiles)
                             /\ f0[o] # Min(FreeFiles) /\ f1[o] # Min(FreeFiles)
<1>1. FreeFiles \in SUBSET Nat
  BY Constants DEF FreeFiles
<1>2. Min(FreeFiles) \in FreeFiles
  BY <1>1, MinIn
<1>3. Min(FreeFiles) \in Slots /\ ref[Min(FreeFiles)] = 0
  BY <1>2 DEF FreeFiles
<1> QED
  BY <1>3, RefFacts DEF CountsExact, EndsUnique

\* A step that leaves the files, the pipes and their closing alone keeps them counted.
LEMMA PipesKept ==
  ASSUME CountsExact, UNCHANGED <<type, filePipe, allocated, readopen, writeopen, wr>>,
         \A f \in Slots : type[f] # "none" => ref[f] > 0 /\ ref'[f] > 0,
         \A o \in Procs : pc'[o] = "pipeclose" <=> pc[o] = "pipeclose",
         \A o \in Procs : pc[o] = "pipeclose" => pp'[o] = pp[o],
         \A o \in Procs : pp'[o] = pp[o] \/ pp'[o] \notin Pages \/ allocated[pp'[o]]
  PROVE  PipeOpenExact' /\ EndsUnique'
<1>1. \A w \in BOOLEAN : EndOf(w) # "none"
  BY DEF EndOf
<1>2. PipeOpenExact'
  <2>1. \A q \in Pages, w \in BOOLEAN : EndInUse(q, w)' <=> EndInUse(q, w)
    BY <1>1 DEF EndInUse
  <2>2. \A q \in Pages : (\E o \in Procs : pp'[o] = q) => allocated[q]
    BY DEF CountsExact, PipeOpenExact
  <2> QED
    BY <2>1, <2>2 DEF CountsExact, PipeOpenExact
<1>3. EndsUnique'
  BY DEF CountsExact, EndsUnique
<1> QED
  BY <1>2, <1>3

\* The reading end of pipealloc().
LEMMA AllocReadCounts ==
  ASSUME CountsExact, NEW p \in Procs, PipeAllocRead(p)
  PROVE  CountsExact'
<1> USE DEF PipeAllocRead, Calls, At, Goto, pipes
<1>1. PICK f \in Slots : f = Min(FreeFiles)
  BY FreeFile
<1>2. /\ ref[f] = 0 /\ type[f] = "none"
      /\ \A o \in Procs : (\A fd \in Fds : ofile[o][fd] # f) /\ f0[o] # f /\ f1[o] # f
  BY <1>1, FreeFile
<1>3. TypeOK
  BY DEF CountsExact
<1>4. /\ pc[p] = "user" /\ pc'[p] = "allocwrite" /\ \A o \in Procs : o # p => pc'[o] = pc[o]
      /\ f0' = [f0 EXCEPT ![p] = f] /\ f0'[p] = f /\ \A o \in Procs : o # p => f0'[o] = f0[o]
      /\ ref' = [ref EXCEPT ![f] = 1] /\ \A g \in Slots : ref'[g] = ref[g] + Is(f, g)
      /\ UNCHANGED <<type, filePipe, allocated, readopen, writeopen, ofile, f1, pp, wr, panicked>>
  BY <1>1, <1>2, <1>3 DEF TypeOK, Is
<1>5. f0[p] = None /\ f1[p] = None /\ None # f
  BY <1>4, Constants DEF CountsExact, CallsRight
<1>6. TypeOK'
  BY <1>3, <1>4 DEF TypeOK, Points
<1>7. RefExact'
  <2>1. ~panicked'
    BY <1>4 DEF CountsExact, RefExact
  <2>2. \A g \in Slots : ref'[g] = ref[g] - Is(f0[p], g) - Is(f1[p], g) + Is(f0'[p], g)
                                      + Is(f1'[p], g)
    <3>1. \A g \in Slots : Is(None, g) = 0 /\ ref[g] \in Nat /\ Is(f, g) \in Nat
      BY <1>3, Constants DEF Is, TypeOK
    <3> QED
      BY <1>4, <1>5, <3>1
  <2>3. RefExact
    BY DEF CountsExact
  <2> QED
    BY <1>4, <2>1, <2>2, <2>3, LocalsCounted
<1>8. PipeOpenExact' /\ EndsUnique'
  <2>1. \A g \in Slots : type[g] # "none" => ref[g] > 0 /\ ref'[g] > 0
    BY <1>2, <1>3, <1>4 DEF CountsExact, EndsUnique, TypeOK, Is
  <2> QED
    BY <1>4, <2>1, PipesKept
<1>9. CallsRight'
  BY <1>2, <1>4, <1>5 DEF CountsExact, CallsRight, HasEnd, InPipe, Reading, Writing, Closing
<1>10. NewFilesOwned'
  <2>1. ASSUME NEW o \in Procs, pc'[o] \in {"allocwrite", "setup"},
               NEW g \in {f0'[o], f1'[o]} \cap Slots, NEW r \in Procs
        PROVE  /\ type[g] = "none" /\ \A fd \in Fds : ofile[r][fd] # g
               /\ r # o => f0'[r] # g /\ f1'[r] # g
    <3>1. CASE o = p
      BY <1>2, <1>4, <1>5, <2>1, <3>1, Constants
    <3>2. CASE o # p
      BY <1>2, <1>4, <2>1, <3>2 DEF CountsExact, NewFilesOwned
    <3> QED
      BY <3>1, <3>2
  <2> QED
    BY <1>4, <2>1 DEF NewFilesOwned
<1> QED
  BY <1>6, <1>7, <1>8, <1>9, <1>10 DEF CountsExact

-----------------------------------------------------------------------------
(* The loops of pipe.c *)

\* The pipe of a file is allocated and this end of it is open.
LEMMA FileOpen ==
  ASSUME CountsExact, NEW f \in Slots, type[f] # "none"
  PROVE  /\ ref[f] > 0 /\ filePipe[f] \in Pages /\ allocated[filePipe[f]]
         /\ type[f] = "reader" => readopen[filePipe[f]]
         /\ type[f] = "writer" => writeopen[filePipe[f]]
<1>1. TypeOK
  BY DEF CountsExact
<1>2. /\ ref[f] > 0 /\ filePipe[f] \in Pages
      /\ type[f] = EndOf(FALSE) \/ type[f] = EndOf(TRUE)
      /\ EndOf(FALSE) = "reader" /\ EndOf(TRUE) = "writer"
  BY <1>1 DEF CountsExact, EndsUnique, TypeOK, EndOf
<1>3. /\ type[f] = "reader" => EndInUse(filePipe[f], FALSE)
      /\ type[f] = "writer" => EndInUse(filePipe[f], TRUE)
  BY <1>2 DEF EndInUse
<1> QED
  BY <1>2, <1>3 DEF CountsExact, PipeOpenExact

\* What a step may do to a process in these loops: it enters one with a descriptor, goes on
\* in it, or leaves it.
LoopStep(o) ==
  \/ pc'[o] = pc[o] /\ pp'[o] = pp[o]
  \/ pc[o] \in Reading /\ pc'[o] \in Reading /\ pp'[o] = pp[o]
  \/ pc[o] \in Writing /\ pc'[o] \in Writing /\ pp'[o] = pp[o]
  \/ pc[o] \in InPipe /\ pc'[o] = "user" /\ pp'[o] = None
  \/ /\ pc[o] = "user" /\ pc'[o] = "read"
     /\ \E fd \in Fds : /\ ofile[o][fd] # None
                        /\ type[ofile[o][fd]] = "reader" /\ filePipe[ofile[o][fd]] = pp'[o]
  \/ /\ pc[o] = "user" /\ pc'[o] = "write"
     /\ \E fd \in Fds : /\ ofile[o][fd] # None
                        /\ type[ofile[o][fd]] = "writer" /\ filePipe[ofile[o][fd]] = pp'[o]

\* Such steps leave the counts exact.
LEMMA LoopCounts ==
  ASSUME CountsExact, TypeOK', \A o \in Procs : LoopStep(o),
         UNCHANGED <<ref, type, filePipe, allocated, readopen, writeopen, ofile, f0, f1, wr,
                     panicked>>
  PROVE  CountsExact'
<1>1. TypeOK
  BY DEF CountsExact
<1>2. ASSUME NEW o \in Procs
      PROVE  pp'[o] = pp[o] \/ pp'[o] = None \/ (pp'[o] \in Pages /\ allocated[pp'[o]])
  <2>1. \A fd \in Fds : /\ ofile[o][fd] # None => ofile[o][fd] \in Slots
                        /\ ofile[o][fd] # None /\ type[ofile[o][fd]] # "none"
                             => allocated[filePipe[ofile[o][fd]]]
    BY <1>1, FileOpen DEF TypeOK
  <2>2. LoopStep(o)
    OBVIOUS
  <2>3. pp'[o] \in Pages \cup {None}
    BY DEF TypeOK
  <2> QED
    BY <2>1, <2>2, <2>3 DEF LoopStep
<1>3. RefExact'
  BY DEF CountsExact, RefExact
<1>4. PipeOpenExact' /\ EndsUnique'
  <2>1. \A f \in Slots : type[f] # "none" => ref[f] > 0 /\ ref'[f] > 0
    BY FileOpen
  <2>2. \A o \in Procs : /\ pc'[o] = "pipeclose" <=> pc[o] = "pipeclose"
                         /\ pc[o] = "pipeclose" => pp'[o] = pp[o]
    BY DEF LoopStep, Reading, Writing, InPipe
  <2>3. \A o \in Procs : pp'[o] = pp[o] \/ pp'[o] \notin Pages \/ allocated[pp'[o]]
    BY <1>2, Constants
  <2> QED
    BY <2>1, <2>2, <2>3, PipesKept
<1>5. CallsRight'
  <2>1. ASSUME NEW o \in Procs
        PROVE  /\ (pc[o] = "unused")' => \A fd \in Fds : (ofile[o][fd] = None)'
               /\ (pc[o] \notin {"allocwrite", "setup", "closing"} => f0[o] = None)'
               /\ (pc[o] \notin {"setup", "closing", "pipeclose"} => f1[o] = None)'
               /\ (pc[o] \in {"allocwrite", "setup"} => f0[o] # None)'
               /\ (pc[o] = "setup" => f1[o] # None /\ f1[o] # f0[o])'
               /\ (pc[o] = "closing" => Closing(o) # None)'
               /\ (pp[o] # None <=> pc[o] \in InPipe \cup {"pipeclose"})'
               /\ (pc[o] \in Reading => HasEnd(o, "reader"))'
               /\ (pc[o] \in Writing => HasEnd(o, "writer"))'
    <3>1. LoopStep(o)
      OBVIOUS
    <3>2. CASE pc'[o] = pc[o] /\ pp'[o] = pp[o]
      BY <3>2 DEF CountsExact, CallsRight, HasEnd, Closing
    <3>3. CASE pc[o] \in Reading /\ pc'[o] \in Reading /\ pp'[o] = pp[o]
      BY <3>3 DEF CountsExact, CallsRight, HasEnd, Closing, Reading, Writing, InPipe
    <3>4. CASE pc[o] \in Writing /\ pc'[o] \in Writing /\ pp'[o] = pp[o]
      BY <3>4 DEF CountsExact, CallsRight, HasEnd, Closing, Reading, Writing, InPipe
    <3>5. CASE pc[o] \in InPipe /\ pc'[o] = "user" /\ pp'[o] = None
      BY <3>5 DEF CountsExact, CallsRight, HasEnd, Closing, Reading, Writing, InPipe
    <3>6. CASE /\ pc[o] = "user" /\ pc'[o] = "read"
               /\ \E fd \in Fds : /\ ofile[o][fd] # None
                                  /\ type[ofile[o][fd]] = "reader"
                                  /\ filePipe[ofile[o][fd]] = pp'[o]
      <4>1. pp'[o] # None
        <5>1. PICK fd \in Fds : /\ ofile[o][fd] # None /\ type[ofile[o][fd]] # "none"
                               /\ filePipe[ofile[o][fd]] = pp'[o]
          BY <3>6
        <5>2. ofile[o][fd] \in Slots
          BY <1>1, <5>1 DEF TypeOK
        <5> QED
          BY <5>1, <5>2, FileOpen, Constants
      <4> QED
        BY <3>6, <4>1 DEF CountsExact, CallsRight, HasEnd, Closing, Reading, Writing, InPipe
    <3>7. CASE /\ pc[o] = "user" /\ pc'[o] = "write"
               /\ \E fd \in Fds : /\ ofile[o][fd] # None
                                  /\ type[ofile[o][fd]] = "writer"
                                  /\ filePipe[ofile[o][fd]] = pp'[o]
      <4>1. pp'[o] # None
        <5>1. PICK fd \in Fds : /\ ofile[o][fd] # None /\ type[ofile[o][fd]] # "none"
                               /\ filePipe[ofile[o][fd]] = pp'[o]
          BY <3>7
        <5>2. ofile[o][fd] \in Slots
          BY <1>1, <5>1 DEF TypeOK
        <5> QED
          BY <5>1, <5>2, FileOpen, Constants
      <4> QED
        BY <3>7, <4>1 DEF CountsExact, CallsRight, HasEnd, Closing, Reading, Writing, InPipe
    <3> QED
      BY <3>1, <3>2, <3>3, <3>4, <3>5, <3>6, <3>7 DEF LoopStep
  <2> QED
    BY <2>1 DEF CallsRight
<1>6. NewFilesOwned'
  <2>1. \A o \in Procs : pc'[o] \in {"allocwrite", "setup"} => pc[o] \in {"allocwrite", "setup"}
    BY DEF LoopStep, Reading, Writing
  <2> QED
    BY <2>1 DEF CountsExact, NewFilesOwned
<1> QED
  BY <1>3, <1>4, <1>5, <1>6 DEF CountsExact

\* A process in these loops has a pipe whose ends it holds open.
LEMMA InPipeFacts ==
  ASSUME CountsExact, NEW p \in Procs, pc[p] \in InPipe
  PROVE  /\ pp[p] \in Pages /\ allocated[pp[p]]
         /\ pc[p] \in Reading => readopen[pp[p]]
         /\ pc[p] \in Writing => writeopen[pp[p]]
<1>1. TypeOK
  BY DEF CountsExact
<1>2. PICK fd \in Fds : /\ ofile[p][fd] \in Slots /\ type[ofile[p][fd]] # "none"
                        /\ filePipe[ofile[p][fd]] = pp[p]
                        /\ pc[p] \in Reading => type[ofile[p][fd]] = "reader"
                        /\ pc[p] \in Writing => type[ofile[p][fd]] = "writer"
  BY <1>1 DEF CountsExact, CallsRight, HasEnd, InPipe, Reading, Writing, TypeOK
<1> QED
  BY <1>2, FileOpen

\* The bytes that a pass moves.
LEMMA Moved ==
  ASSUME TypeOK, NEW p \in Procs, pp[p] \in Pages
  PROVE  /\ Unread(pp[p]) \in 0 .. WORD - 1
         /\ Readable(p) \in 0 .. WORD - 1 /\ Readable(p) <= Unread(pp[p]) /\ Readable(p) <= left[p]
         /\ Readable(p) = left[p] \/ Readable(p) = Unread(pp[p])
         /\ Writable(p) \in Int /\ Writable(p) <= left[p] /\ Writable(p) <= PIPESIZE - Unread(pp[p])
         /\ Writable(p) <= PIPESIZE
         /\ Writable(p) = left[p] \/ Writable(p) = PIPESIZE - Unread(pp[p])
<1>1. Unread(pp[p]) \in 0 .. WORD - 1
  BY DifferenceWraps DEF Unread, TypeOK
<1>2. PICK u \in 0 .. WORD - 1 : u = Unread(pp[p])
  BY <1>1
<1>3. left[p] \in Nat
  BY DEF TypeOK
<1>4. Readable(p) = IF left[p] <= u THEN left[p] ELSE u
  BY <1>2, <1>3, MinPair, PipeSizes DEF Readable
<1>5. Writable(p) = IF left[p] <= PIPESIZE - u THEN left[p] ELSE PIPESIZE - u
  BY <1>2, <1>3, MinPair, PipeSizes DEF Writable
<1> QED
  BY <1>2, <1>3, <1>4, <1>5, PipeSizes

\* The bytes that pipewrite() stores, at most one in each place.
Stored(p, i) == {k \in 0 .. Writable(p) - 1 : ((nwrite[pp[p]] + k) % WORD) % PIPESIZE = i}

LEMMA StoredOne ==
  ASSUME TypeOK, NEW p \in Procs, pp[p] \in Pages, NEW i, NEW k \in Stored(p, i)
  PROVE  /\ Stored(p, i) = {k} /\ Max(Stored(p, i)) = k
         /\ k \in 0 .. PIPESIZE - 1
<1>1. Writable(p) \in Int /\ Writable(p) <= PIPESIZE
  BY Moved
<1>2. nwrite[pp[p]] \in 0 .. WORD - 1
  BY DEF TypeOK
<1>3. \A j \in Stored(p, i) : /\ j \in 0 .. PIPESIZE - 1
                              /\ ((nwrite[pp[p]] + j) % WORD) % PIPESIZE = i
  BY <1>1, PipeSizes DEF Stored
<1>4. \A j \in Stored(p, i) : j = k
  BY <1>2, <1>3, PlacesDistinct
<1>5. Stored(p, i) = {k}
  BY <1>4
<1>6. k \in Int
  BY <1>3
<1> QED
  BY <1>3, <1>5, <1>6, MaxOne

\* data[] of the pipe that p writes to.
LEMMA WriteDataIs ==
  ASSUME TypeOK, NEW p \in Procs, pp[p] \in Pages
  PROVE  /\ WriteData(p) \in [Pages -> [0 .. PIPESIZE - 1 -> 0 .. WORD - 1]]
         /\ \A q \in Pages : q # pp[p] => WriteData(p)[q] = data[q]
         /\ \A i \in 0 .. PIPESIZE - 1 :
              /\ Stored(p, i) = {} => WriteData(p)[pp[p]][i] = data[pp[p]][i]
              /\ \A k \in Stored(p, i) : WriteData(p)[pp[p]][i] = (nwrite[pp[p]] + k) % WORD
<1>1. nwrite[pp[p]] \in 0 .. WORD - 1
  BY DEF TypeOK
<1> DEFINE V(i) == IF Stored(p, i) = {} THEN data[pp[p]][i]
                   ELSE (nwrite[pp[p]] + Max(Stored(p, i))) % WORD
<1>2. WriteData(p) = [data EXCEPT ![pp[p]] = [i \in 0 .. PIPESIZE - 1 |-> V(i)]]
  BY DEF WriteData, Stored, TypeOK
<1>3. ASSUME NEW i \in 0 .. PIPESIZE - 1
      PROVE  /\ V(i) \in 0 .. WORD - 1
             /\ Stored(p, i) = {} => V(i) = data[pp[p]][i]
             /\ \A k \in Stored(p, i) : V(i) = (nwrite[pp[p]] + k) % WORD
  <2>1. CASE Stored(p, i) = {}
    BY <2>1 DEF TypeOK
  <2>2. CASE Stored(p, i) # {}
    <3>1. PICK k \in Stored(p, i) : TRUE
      BY <2>2
    <3>2. Stored(p, i) = {k} /\ Max(Stored(p, i)) = k /\ k \in 0 .. WORD - 1
      BY StoredOne, PipeSizes
    <3>3. V(i) = (nwrite[pp[p]] + k) % WORD
      BY <3>2, <2>2
    <3> QED
      BY <1>1, <2>2, <3>2, <3>3, SumWraps
  <2> QED
    BY <2>1, <2>2
<1> HIDE DEF V
<1> QED
  BY <1>2, <1>3 DEF TypeOK

\* The steps of sys_read() and sys_write().
LEMMA SysReadCounts ==
  ASSUME CountsExact, NEW p \in Procs, NEW fd \in Fds, NEW n \in Sizes,
         SysRead(p, fd, n) \/ SysWrite(p, fd, n)
  PROVE  CountsExact'
<1> USE DEF SysRead, SysWrite, Calls, At, Goto, pipes, ftable
<1>1. TypeOK /\ ofile[p][fd] \in Slots /\ filePipe[ofile[p][fd]] \in Pages \cup {None}
  BY DEF CountsExact, TypeOK
<1>2. TypeOK'
  <2>1. pp' \in [Procs -> Pages \cup {None}] /\ left' \in [Procs -> Nat]
    <3>1. /\ pp' = [pp EXCEPT ![p] = filePipe[ofile[p][fd]]]
          /\ left' = [left EXCEPT ![p] = n]
      OBVIOUS
    <3>2. pp \in [Procs -> Pages \cup {None}] /\ left \in [Procs -> Nat] /\ n \in Nat
      BY <1>1, Constants DEF TypeOK
    <3> HIDE DEF SysRead, SysWrite
    <3> QED
      BY <1>1, <3>1, <3>2
  <2>2. pc' \in [Procs -> Points]
    BY <1>1 DEF TypeOK, Points, InPipe
  <2> QED
    BY <1>1, <2>1, <2>2 DEF TypeOK
<1>3. ASSUME NEW o \in Procs
      PROVE  LoopStep(o)
  <2>1. CASE o # p
    BY <1>1, <2>1 DEF LoopStep, TypeOK
  <2>2. CASE o = p
    BY <1>1, <2>2 DEF LoopStep, TypeOK
  <2> QED
    BY <2>1, <2>2
<1> QED
  BY <1>2, <1>3, LoopCounts

LEMMA ReadEmptyCounts ==
  ASSUME CountsExact, NEW p \in Procs, ReadEmpty(p)
  PROVE  CountsExact'
<1> USE DEF ReadEmpty, Return, At, Goto, pipes, ftable
<1>1. TypeOK /\ pc[p] = "read" /\ pp[p] \in Pages
  BY InPipeFacts DEF CountsExact, InPipe
<1>2. TypeOK'
  <2>1. pc' \in [Procs -> Points]
    <3>1. pc' = [pc EXCEPT ![p] = "user"] \/ pc' = [pc EXCEPT ![p] = "readwait"]
      OBVIOUS
    <3>2. pc \in [Procs -> Points] /\ "user" \in Points /\ "readwait" \in Points
      BY <1>1 DEF TypeOK, Points, InPipe
    <3> HIDE DEF ReadEmpty
    <3> QED
      BY <3>1, <3>2
  <2>2. /\ pp' \in [Procs -> Pages \cup {None}] /\ left' \in [Procs -> Nat]
        /\ lock' \in [Pages -> Procs \cup {None}]
    <3>1. \/ /\ pp' = [pp EXCEPT ![p] = None] /\ left' = [left EXCEPT ![p] = 0]
             /\ UNCHANGED lock
          \/ lock' = [lock EXCEPT ![pp[p]] = p] /\ UNCHANGED <<pp, left>>
      OBVIOUS
    <3>2. /\ pp \in [Procs -> Pages \cup {None}] /\ left \in [Procs -> Nat]
          /\ lock \in [Pages -> Procs \cup {None}]
      BY <1>1 DEF TypeOK
    <3> HIDE DEF ReadEmpty
    <3> QED
      BY <1>1, <3>1, <3>2
  <2> QED
    BY <1>1, <2>1, <2>2 DEF TypeOK
<1>3. ASSUME NEW o \in Procs
      PROVE  LoopStep(o)
  <2>1. CASE o # p
    BY <1>1, <2>1 DEF LoopStep, TypeOK
  <2>2. CASE o = p
    BY <1>1, <2>2 DEF LoopStep, TypeOK, Reading, InPipe
  <2> QED
    BY <2>1, <2>2
<1> QED
  BY <1>2, <1>3, LoopCounts

LEMMA ReadCopyCounts ==
  ASSUME CountsExact, NEW p \in Procs, ReadCopy(p)
  PROVE  CountsExact'
<1> USE DEF ReadCopy, Return, Wake, At, Goto, pipes, ftable
<1>1. TypeOK /\ pc[p] = "read" /\ pp[p] \in Pages
  BY InPipeFacts DEF CountsExact, InPipe
<1>2. TypeOK'
  <2>1. (nread[pp[p]] + Readable(p)) % WORD \in 0 .. WORD - 1
    BY <1>1, Moved, SumWraps DEF TypeOK
  <2>2. nread' \in [Pages -> 0 .. WORD - 1]
    BY <1>1, <2>1 DEF TypeOK
  <2>3. pp' \in [Procs -> Pages \cup {None}] /\ left' \in [Procs -> Nat]
    BY <1>1 DEF TypeOK
  <2>4. pc' \in [Procs -> Points]
    BY <1>1 DEF TypeOK, Points, InPipe
  <2> QED
    BY <1>1, <2>2, <2>3, <2>4 DEF TypeOK
<1>3. ASSUME NEW o \in Procs
      PROVE  LoopStep(o)
  <2>1. CASE o # p
    BY <1>1, <2>1 DEF LoopStep, TypeOK, Writing
  <2>2. CASE o = p
    BY <1>1, <2>2 DEF LoopStep, TypeOK, InPipe
  <2> QED
    BY <2>1, <2>2
<1> QED
  BY <1>2, <1>3, LoopCounts

LEMMA PipeWriteCounts ==
  ASSUME CountsExact, NEW p \in Procs, PipeWrite(p)
  PROVE  CountsExact'
<1> USE DEF PipeWrite, Return, Wake, At, Goto, pipes, ftable
<1>1. TypeOK /\ pc[p] = "write" /\ pp[p] \in Pages
  BY InPipeFacts DEF CountsExact, InPipe
<1>2. TypeOK'
  <2>1. (nwrite[pp[p]] + Writable(p)) % WORD \in 0 .. WORD - 1
    <3>1. PICK z \in Int : z = nwrite[pp[p]] + Writable(p)
      BY <1>1, Moved DEF TypeOK
    <3>2. z % WORD \in 0 .. WORD - 1
      BY PipeSizes, SmallMod
    <3> QED
      BY <3>1, <3>2
  <2>2. nwrite' \in [Pages -> 0 .. WORD - 1]
    BY <1>1, <2>1 DEF TypeOK
  <2>3. data' \in [Pages -> [0 .. PIPESIZE - 1 -> 0 .. WORD - 1]]
    BY <1>1, WriteDataIs
  <2>4. left[p] - Writable(p) \in Nat
    BY <1>1, Moved DEF TypeOK
  <2>5. /\ pp' \in [Procs -> Pages \cup {None}] /\ left' \in [Procs -> Nat]
        /\ lock' \in [Pages -> Procs \cup {None}] /\ pc' \in [Procs -> Points]
    <3>1. \/ /\ pp' = [pp EXCEPT ![p] = None] /\ left' = [left EXCEPT ![p] = 0]
             /\ UNCHANGED lock
          \/ /\ lock' = [lock EXCEPT ![pp[p]] = p] /\ UNCHANGED pp
             /\ left' = [left EXCEPT ![p] = @ - Writable(p)]
      OBVIOUS
    <3>2. /\ pp \in [Procs -> Pages \cup {None}] /\ left \in [Procs -> Nat]
          /\ lock \in [Pages -> Procs \cup {None}] /\ pc \in [Procs -> Points]
          /\ {"user", "read", "writewait"} \subseteq Points
      BY <1>1 DEF TypeOK, Points, InPipe
    <3>3. \/ pc' = [x \in Procs |-> IF x = p THEN "user"
                     ELSE IF pc[x] = "readsleep" /\ pp[x] = pp[p] THEN "read" ELSE pc[x]]
          \/ pc' = [pc EXCEPT ![p] = "user"]
          \/ pc' = [x \in Procs |-> IF x = p THEN "writewait"
                     ELSE IF pc[x] = "readsleep" /\ pp[x] = pp[p] THEN "read" ELSE pc[x]]
      OBVIOUS
    <3> HIDE DEF PipeWrite
    <3>4. pp' \in [Procs -> Pages \cup {None}] /\ lock' \in [Pages -> Procs \cup {None}]
      BY <1>1, <3>1, <3>2
    <3>5. left' \in [Procs -> Nat]
      BY <2>4, <3>1, <3>2
    <3>6. pc' \in [Procs -> Points]
      BY <3>2, <3>3
    <3> QED
      BY <3>4, <3>5, <3>6
  <2> QED
    BY <1>1, <2>2, <2>3, <2>5 DEF TypeOK
<1>3. ASSUME NEW o \in Procs
      PROVE  LoopStep(o)
  <2>1. CASE o # p
    BY <1>1, <2>1 DEF LoopStep, TypeOK, Reading
  <2>2. CASE o = p
    BY <1>1, <2>2 DEF LoopStep, TypeOK, Writing, InPipe
  <2> QED
    BY <2>1, <2>2
<1> QED
  BY <1>2, <1>3, LoopCounts

LEMMA SleepCounts ==
  ASSUME CountsExact, NEW p \in Procs, Sleep(p)
  PROVE  CountsExact'
<1> USE DEF Sleep, At, Goto, pipes, ftable, locals
<1>1. TypeOK /\ pc[p] \in {"readwait", "writewait"} /\ pp[p] \in Pages
  BY InPipeFacts DEF CountsExact, InPipe
<1>2. TypeOK'
  BY <1>1 DEF TypeOK, Points, InPipe
<1>3. ASSUME NEW o \in Procs
      PROVE  LoopStep(o)
  <2>1. CASE o # p
    BY <1>1, <2>1 DEF LoopStep, TypeOK
  <2>2. CASE o = p
    BY <1>1, <2>2 DEF LoopStep, TypeOK, Reading, Writing
  <2> QED
    BY <2>1, <2>2
<1> QED
  BY <1>2, <1>3, LoopCounts

LEMMA KillCounts ==
  ASSUME CountsExact, NEW p \in Procs, Kill(p)
  PROVE  CountsExact'
<1> USE DEF Kill, pipes, ftable, locals
<1>1. TypeOK /\ pc[p] \in InPipe
  BY DEF CountsExact
<1>2. TypeOK'
  BY <1>1 DEF TypeOK, Points, InPipe
<1>3. ASSUME NEW o \in Procs
      PROVE  LoopStep(o)
  <2>1. CASE o # p
    BY <1>1, <2>1 DEF LoopStep, TypeOK
  <2>2. CASE o = p
    BY <1>1, <2>2 DEF LoopStep, TypeOK, Reading, Writing, InPipe
  <2> QED
    BY <2>1, <2>2
<1> QED
  BY <1>2, <1>3, LoopCounts

-----------------------------------------------------------------------------
(* The steps on files *)

\* The writing end of pipealloc(), or the way out without a file.
LEMMA AllocWriteCounts ==
  ASSUME CountsExact, NEW p \in Procs, PipeAllocWrite(p), FreeFiles # {}
  PROVE  CountsExact'
<1> USE DEF PipeAllocWrite, At, Goto, pipes
<1>1. PICK f \in Slots : f = Min(FreeFiles)
  BY FreeFile
<1>2. /\ ref[f] = 0 /\ type[f] = "none"
      /\ \A o \in Procs : (\A fd \in Fds : ofile[o][fd] # f) /\ f0[o] # f /\ f1[o] # f
  BY <1>1, FreeFile
<1>3. TypeOK
  BY DEF CountsExact
<1>4. /\ pc[p] = "allocwrite" /\ pc'[p] = "setup" /\ \A o \in Procs : o # p => pc'[o] = pc[o]
      /\ f1' = [f1 EXCEPT ![p] = f] /\ f1'[p] = f /\ \A o \in Procs : o # p => f1'[o] = f1[o]
      /\ ref' = [ref EXCEPT ![f] = 1] /\ \A g \in Slots : ref'[g] = ref[g] + Is(f, g)
      /\ UNCHANGED <<type, filePipe, allocated, readopen, writeopen, ofile, f0, pp, wr, panicked>>
  BY <1>1, <1>2, <1>3 DEF TypeOK, Is
<1>5. f0[p] # None /\ f1[p] = None /\ None # f
  BY <1>4, Constants DEF CountsExact, CallsRight
<1>6. TypeOK'
  <2>1. /\ pc' = [pc EXCEPT ![p] = "setup"]
        /\ UNCHANGED <<nread, nwrite, data, lock, killed, left, exiting>>
    OBVIOUS
  <2> HIDE DEF PipeAllocWrite
  <2> QED
    BY <1>3, <1>4, <2>1 DEF TypeOK, Points
<1>7. RefExact'
  <2>1. ~panicked'
    BY <1>4 DEF CountsExact, RefExact
  <2>2. \A g \in Slots : ref'[g] = ref[g] - Is(f0[p], g) - Is(f1[p], g) + Is(f0'[p], g)
                                      + Is(f1'[p], g)
    <3>1. \A g \in Slots : /\ Is(None, g) = 0 /\ ref[g] \in Nat /\ Is(f, g) \in Nat
                           /\ Is(f0[p], g) \in Nat
      BY <1>3, Constants DEF Is, TypeOK
    <3> QED
      BY <1>4, <1>5, <3>1
  <2>3. RefExact
    BY DEF CountsExact
  <2> QED
    BY <1>4, <2>1, <2>2, <2>3, LocalsCounted
<1>8. PipeOpenExact' /\ EndsUnique'
  <2>1. \A g \in Slots : type[g] # "none" => ref[g] > 0 /\ ref'[g] > 0
    BY <1>2, <1>3, <1>4 DEF CountsExact, EndsUnique, TypeOK, Is
  <2> QED
    BY <1>4, <2>1, PipesKept
<1>9. CallsRight'
  BY <1>2, <1>4, <1>5 DEF CountsExact, CallsRight, HasEnd, InPipe, Reading, Writing, Closing
<1>10. NewFilesOwned'
  <2>1. ASSUME NEW o \in Procs, pc'[o] \in {"allocwrite", "setup"},
               NEW g \in {f0'[o], f1'[o]} \cap Slots, NEW r \in Procs
        PROVE  /\ type[g] = "none" /\ \A fd \in Fds : ofile[r][fd] # g
               /\ r # o => f0'[r] # g /\ f1'[r] # g
    <3>1. CASE o = p /\ g = f
      BY <1>2, <1>4, <2>1, <3>1
    <3>2. CASE o = p /\ g # f
      BY <1>4, <2>1, <3>2 DEF CountsExact, NewFilesOwned
    <3>3. CASE o # p
      BY <1>2, <1>4, <2>1, <3>3 DEF CountsExact, NewFilesOwned
    <3> QED
      BY <3>1, <3>2, <3>3
  <2> QED
    BY <1>4, <2>1 DEF NewFilesOwned
<1> QED
  BY <1>6, <1>7, <1>8, <1>9, <1>10 DEF CountsExact

\* Without a file or a page, the files are closed.
LEMMA GiveUpCounts ==
  ASSUME CountsExact, NEW p \in Procs,
         PipeNoPage(p) \/ (PipeAllocWrite(p) /\ FreeFiles = {})
  PROVE  CountsExact'
<1>1. TypeOK
  BY DEF CountsExact
<1>2. /\ pc[p] \in {"allocwrite", "setup"} /\ pc' = [pc EXCEPT ![p] = "closing"]
      /\ UNCHANGED <<ref, type, filePipe, allocated, nread, nwrite, readopen, writeopen, data, lock,
                     ofile, killed, f0, f1, pp, wr, left, exiting, panicked>>
  BY DEF PipeNoPage, PipeAllocWrite, At, Goto, pipes, ftable, locals
<1>3. pc'[p] = "closing" /\ \A o \in Procs : o # p => pc'[o] = pc[o]
  BY <1>1, <1>2 DEF TypeOK
<1>4. TypeOK'
  BY <1>1, <1>2 DEF TypeOK, Points
<1>5. RefExact'
  BY <1>2 DEF CountsExact, RefExact
<1>6. PipeOpenExact' /\ EndsUnique'
  <2>1. \A f \in Slots : type[f] # "none" => ref[f] > 0 /\ ref'[f] > 0
    BY <1>2, FileOpen
  <2> QED
    BY <1>2, <1>3, <2>1, PipesKept
<1>7. CallsRight'
  BY <1>2, <1>3 DEF CountsExact, CallsRight, HasEnd, InPipe, Reading, Writing, Closing
<1>8. NewFilesOwned'
  BY <1>2, <1>3 DEF CountsExact, NewFilesOwned
<1> QED
  BY <1>4, <1>5, <1>6, <1>7, <1>8 DEF CountsExact

\* The lowest free descriptor is one.
LEMMA FreeFd ==
  ASSUME NEW p \in Procs, FreeFds(p) # {}
  PROVE  Min(FreeFds(p)) \in Fds /\ ofile[p][Min(FreeFds(p))] = None
<1>1. FreeFds(p) \in SUBSET Nat
  BY Constants DEF FreeFds
<1>2. Min(FreeFds(p)) \in FreeFds(p)
  BY <1>1, MinIn
<1> QED
  BY <1>2 DEF FreeFds

\* sys_dup() adds a descriptor and a reference; filedup() does not panic.
LEMMA DupCounts ==
  ASSUME CountsExact, NEW p \in Procs, NEW fd \in Fds, Dup(p, fd)
  PROVE  CountsExact'
<1> USE DEF Dup, Calls, At, pipes, locals
<1>1. TypeOK
  BY DEF CountsExact
<1>2. PICK f \in Slots : f = ofile[p][fd]
  BY <1>1 DEF TypeOK
<1>3. ref[f] \in Nat /\ ref[f] >= 1
  <2>1. ref[f] # 0
    BY <1>1, <1>2, RefFacts DEF CountsExact
  <2> QED
    BY <1>1, <2>1 DEF TypeOK
<1>4. PICK d \in Fds : d = Min(FreeFds(p)) /\ ofile[p][d] = None
  BY FreeFd
<1>5. /\ ofile' = [ofile EXCEPT ![p][d] = f] /\ ref' = [ref EXCEPT ![f] = @ + 1] /\ pc[p] = "user"
      /\ UNCHANGED <<type, filePipe, allocated, nread, nwrite, readopen, writeopen, data, lock,
                     killed, pc, f0, f1, pp, wr, left, exiting, panicked>>
  BY <1>2, <1>3, <1>4
<1> HIDE DEF Dup
<1>6. /\ \A g \in Slots : ref'[g] = ref[g] + Is(f, g)
      /\ ofile'[p][d] = f
      /\ \A o \in Procs, e \in Fds : o # p \/ e # d => ofile'[o][e] = ofile[o][e]
  BY <1>1, <1>5 DEF TypeOK, Is
<1>7. TypeOK'
  BY <1>1, <1>5 DEF TypeOK
<1>8. RefExact'
  <2>1. ~panicked' /\ RefExact
    BY <1>5 DEF CountsExact, RefExact
  <2>2. \A g \in Slots : ref'[g] = ref[g] - Is(ofile[p][d], g) - Is(f0[p], g) + Is(ofile'[p][d], g)
                                     + Is(f0'[p], g)
    <3>1. \A g \in Slots : /\ Is(None, g) = 0 /\ ref[g] \in Nat /\ Is(f, g) \in Nat
                           /\ Is(f0[p], g) \in Nat
      BY <1>1, Constants DEF Is, TypeOK
    <3> QED
      BY <1>4, <1>5, <1>6, <3>1
  <2> QED
    BY <1>5, <1>6, <2>1, <2>2, FdCounted
<1>9. PipeOpenExact' /\ EndsUnique'
  <2>1. \A g \in Slots : type[g] # "none" => ref[g] > 0 /\ ref'[g] > 0
    <3>1. \A g \in Slots : ref[g] \in Nat /\ Is(f, g) \in Nat
      BY <1>1 DEF TypeOK, Is
    <3> QED
      BY <1>6, <3>1, FileOpen
  <2> QED
    BY <1>5, <2>1, PipesKept
<1>10. CallsRight'
  <2>1. \A o \in Procs, e \in Fds : ofile[o][e] # None => ofile'[o][e] = ofile[o][e]
    BY <1>4, <1>6
  <2>2. \A o \in Procs : pc[o] = "unused" => \A e \in Fds : ofile'[o][e] = ofile[o][e]
    BY <1>5, <1>6
  <2> QED
    BY <1>5, <2>1, <2>2 DEF CountsExact, CallsRight, HasEnd, Closing
<1>11. NewFilesOwned'
  <2>1. \A o \in Procs : pc[o] \in {"allocwrite", "setup"} => f # f0[o] /\ f # f1[o]
    BY <1>2 DEF CountsExact, NewFilesOwned
  <2> QED
    BY <1>5, <1>6, <2>1 DEF CountsExact, NewFilesOwned
<1> QED
  BY <1>7, <1>8, <1>9, <1>10, <1>11 DEF CountsExact

\* sys_close() and exit() take a file out of a descriptor; its reference is then that of f0.
LEMMA CloseFdCounts ==
  ASSUME CountsExact, NEW p \in Procs, NEW fd \in Fds, pc[p] \in {"user", "exit"},
         ofile[p][fd] # None, ofile' = [ofile EXCEPT ![p][fd] = None],
         f0' = [f0 EXCEPT ![p] = ofile[p][fd]], pc' = [pc EXCEPT ![p] = "closing"], TypeOK',
         UNCHANGED <<ref, type, filePipe, allocated, readopen, writeopen, f1, pp, wr, panicked>>
  PROVE  CountsExact'
<1>1. TypeOK
  BY DEF CountsExact
<1>2. PICK f \in Slots : f = ofile[p][fd] /\ f # None
  BY <1>1 DEF TypeOK
<1>3. /\ pc'[p] = "closing" /\ \A o \in Procs : o # p => pc'[o] = pc[o]
      /\ f0'[p] = f /\ \A o \in Procs : o # p => f0'[o] = f0[o]
      /\ ofile'[p][fd] = None
      /\ \A o \in Procs, e \in Fds : o # p \/ e # fd => ofile'[o][e] = ofile[o][e]
  BY <1>1, <1>2 DEF TypeOK
<1>4. f0[p] = None /\ f1[p] = None /\ pp[p] = None
  BY DEF CountsExact, CallsRight, InPipe
<1>5. RefExact'
  <2>1. ~panicked' /\ RefExact
    BY DEF CountsExact, RefExact
  <2>2. \A g \in Slots : ref'[g] = ref[g] - Is(ofile[p][fd], g) - Is(f0[p], g)
                                     + Is(ofile'[p][fd], g) + Is(f0'[p], g)
    <3>1. \A g \in Slots : Is(None, g) = 0 /\ ref[g] \in Nat /\ Is(f, g) \in Nat
      BY <1>1, Constants DEF Is, TypeOK
    <3> QED
      BY <1>2, <1>3, <1>4, <3>1
  <2> QED
    BY <1>3, <2>1, <2>2, FdCounted
<1>6. PipeOpenExact' /\ EndsUnique'
  <2>1. \A g \in Slots : type[g] # "none" => ref[g] > 0 /\ ref'[g] > 0
    BY FileOpen
  <2> QED
    BY <1>3, <2>1, PipesKept
<1>7. CallsRight'
  <2>1. \A o \in Procs : o # p => \A e \in Fds : ofile'[o][e] = ofile[o][e]
    BY <1>3
  <2> QED
    BY <1>2, <1>3, <1>4, <2>1 DEF CountsExact, CallsRight, HasEnd, Closing, InPipe, Reading, Writing
<1>8. NewFilesOwned'
  <2>1. \A o \in Procs : pc[o] \in {"allocwrite", "setup"} => f # f0[o] /\ f # f1[o]
    BY <1>2 DEF CountsExact, NewFilesOwned
  <2>2. \A o \in Procs, e \in Fds, g \in Slots : ofile'[o][e] = g => ofile[o][e] = g
    BY <1>3, Constants
  <2> QED
    BY <1>3, <2>1, <2>2 DEF CountsExact, NewFilesOwned
<1> QED
  BY <1>5, <1>6, <1>7, <1>8 DEF CountsExact

LEMMA SysCloseCounts ==
  ASSUME CountsExact, NEW p \in Procs, NEW fd \in Fds, SysClose(p, fd)
  PROVE  CountsExact'
<1>1. /\ pc[p] = "user" /\ ofile[p][fd] # None /\ ofile' = [ofile EXCEPT ![p][fd] = None]
      /\ f0' = [f0 EXCEPT ![p] = ofile[p][fd]] /\ pc' = [pc EXCEPT ![p] = "closing"]
      /\ UNCHANGED <<ref, type, filePipe, allocated, nread, nwrite, readopen, writeopen, data, lock,
                     killed, f1, pp, wr, left, exiting, panicked>>
  BY DEF SysClose, Calls, At, Goto, ftable, pipes
<1>2. TypeOK'
  BY <1>1 DEF CountsExact, TypeOK, Points
<1> QED
  BY <1>1, <1>2, CloseFdCounts

LEMMA ExitCounts ==
  ASSUME CountsExact, NEW p \in Procs, Exit(p)
  PROVE  CountsExact'
<1>1. TypeOK
  BY DEF CountsExact
<1>2. CASE FreeFds(p) # Fds
  <2>1. PICK fd \in Fds : fd = Min(Fds \ FreeFds(p)) /\ ofile[p][fd] # None
    <3>1. Fds \ FreeFds(p) \in SUBSET Nat /\ Fds \ FreeFds(p) # {}
      BY <1>2, Constants DEF FreeFds
    <3>2. Min(Fds \ FreeFds(p)) \in Fds \ FreeFds(p)
      BY <3>1, MinIn
    <3> QED
      BY <3>2 DEF FreeFds
  <2>2. /\ pc[p] \in {"user", "exit"} /\ ofile' = [ofile EXCEPT ![p][fd] = None]
        /\ f0' = [f0 EXCEPT ![p] = ofile[p][fd]] /\ pc' = [pc EXCEPT ![p] = "closing"]
        /\ exiting' = [exiting EXCEPT ![p] = TRUE]
        /\ UNCHANGED <<ref, type, filePipe, allocated, nread, nwrite, readopen, writeopen, data,
                       lock, killed, f1, pp, wr, left, panicked>>
    BY <1>2, <2>1 DEF Exit, At, Goto, ftable, pipes
  <2>3. TypeOK'
    BY <1>1, <2>2 DEF TypeOK, Points
  <2> QED
    BY <2>1, <2>2, <2>3, CloseFdCounts
<1>3. CASE FreeFds(p) = Fds
  <2>1. /\ pc[p] \in {"user", "exit"} /\ pc' = [pc EXCEPT ![p] = "unused"]
        /\ killed' = [killed EXCEPT ![p] = FALSE] /\ exiting' = [exiting EXCEPT ![p] = FALSE]
        /\ UNCHANGED <<ref, type, filePipe, allocated, nread, nwrite, readopen, writeopen, data,
                       lock, ofile, f0, f1, pp, wr, left, panicked>>
    BY <1>3 DEF Exit, At, Goto, ftable, pipes
  <2>2. pc'[p] = "unused" /\ \A o \in Procs : o # p => pc'[o] = pc[o]
    BY <1>1, <2>1 DEF TypeOK
  <2>3. \A fd \in Fds : ofile[p][fd] = None
    BY <1>3 DEF FreeFds
  <2>4. TypeOK'
    BY <1>1, <2>1 DEF TypeOK, Points
  <2>5. RefExact'
    BY <2>1 DEF CountsExact, RefExact
  <2>6. PipeOpenExact' /\ EndsUnique'
    <3>1. \A f \in Slots : type[f] # "none" => ref[f] > 0 /\ ref'[f] > 0
      BY <2>1, FileOpen
    <3> QED
      BY <2>1, <2>2, <3>1, PipesKept
  <2>7. CallsRight'
    BY <2>1, <2>2, <2>3 DEF CountsExact, CallsRight, HasEnd, InPipe, Reading, Writing, Closing
  <2>8. NewFilesOwned'
    BY <2>1, <2>2 DEF CountsExact, NewFilesOwned
  <2> QED
    BY <2>4, <2>5, <2>6, <2>7, <2>8 DEF CountsExact
<1> QED
  BY <1>2, <1>3

\* fork() adds one reference for each descriptor of the parent.
LEMMA ForkedFds ==
  ASSUME TypeOK, NEW p \in Procs, NEW child \in Procs, NEW f \in Slots,
         \A fd \in Fds : ofile[child][fd] = None, ofile' = [ofile EXCEPT ![child] = ofile[p]]
  PROVE  /\ Cardinality(FdUsers(ofile', f))
              = Cardinality(FdUsers(ofile, f)) + Cardinality({fd \in Fds : ofile[p][fd] = f})
         /\ Cardinality({fd \in Fds : ofile[p][fd] = f}) \in Nat
<1>1. PICK D : D = {fd \in Fds : ofile[p][fd] = f}
  OBVIOUS
<1>2. PICK A : A = FdUsers(ofile, f)
  OBVIOUS
<1>3. PICK C : C = {child} \X D
  OBVIOUS
<1>4. IsFiniteSet(D)
  <2>1. 0 \in Int /\ NOFILE - 1 \in Int
    BY FilesAssumption
  <2>2. IsFiniteSet(Fds)
    BY <2>1, FS_Interval DEF Fds
  <2> QED
    BY <1>1, <2>2, FS_Subset
<1>5. IsFiniteSet(A) /\ Cardinality(A) \in Nat
  BY <1>2, UsersFinite
<1>6. IsFiniteSet(C) /\ Cardinality(C) = Cardinality(D) /\ Cardinality(D) \in Nat
  <2>1. IsFiniteSet({child}) /\ Cardinality({child}) = 1
    BY FS_Singleton
  <2>2. IsFiniteSet(C) /\ Cardinality(C) = Cardinality({child}) * Cardinality(D)
    BY <1>3, <1>4, <2>1, FS_Product
  <2>3. Cardinality(D) \in Nat
    BY <1>4, FS_CardinalityType
  <2> QED
    BY <2>1, <2>2, <2>3
<1>7. A \cap C = {}
  BY <1>1, <1>2, <1>3, Constants DEF FdUsers
<1>8. FdUsers(ofile', f) = A \cup C
  <2>1. ASSUME NEW o \in Procs, NEW e \in Fds
        PROVE  ofile'[o][e] = f <=> <<o, e>> \in A \cup C
    <3>1. CASE o = child
      BY <1>1, <1>2, <1>3, <3>1, Constants DEF FdUsers, TypeOK
    <3>2. CASE o # child
      BY <1>1, <1>2, <1>3, <3>2 DEF FdUsers, TypeOK
    <3> QED
      BY <3>1, <3>2
  <2>2. A \cup C \subseteq Procs \X Fds
    BY <1>1, <1>2, <1>3 DEF FdUsers
  <2> QED
    BY <2>1, <2>2 DEF FdUsers
<1>9. Cardinality(A \cup C) = Cardinality(A) + Cardinality(C)
  <2>1. Cardinality(A \cup C) = Cardinality(A) + Cardinality(C) - Cardinality(A \cap C)
    BY <1>5, <1>6, FS_Union
  <2>2. Cardinality(A \cap C) = 0
    BY <1>7, FS_EmptySet
  <2> QED
    BY <1>5, <1>6, <2>1, <2>2
<1> QED
  BY <1>1, <1>2, <1>6, <1>8, <1>9

LEMMA ForkCounts ==
  ASSUME CountsExact, NEW p \in Procs, NEW child \in Procs, Fork(p, child)
  PROVE  CountsExact'
<1>1. TypeOK
  BY DEF CountsExact
<1>2. /\ pc[p] = "user" /\ pc[child] = "unused" /\ ofile' = [ofile EXCEPT ![child] = ofile[p]]
      /\ ref' = [f \in Slots |-> ref[f] + Cardinality({fd \in Fds : ofile[p][fd] = f})]
      /\ pc' = [pc EXCEPT ![child] = "user"]
      /\ UNCHANGED <<type, filePipe, allocated, nread, nwrite, readopen, writeopen, data, lock,
                     killed, f0, f1, pp, wr, left, exiting, panicked>>
  BY DEF Fork, Calls, At, Goto, pipes, locals
<1>3. \A fd \in Fds : ofile[child][fd] = None
  BY <1>2 DEF CountsExact, CallsRight
<1>4. \A f \in Slots : Cardinality({fd \in Fds : ofile[p][fd] = f}) \in Nat
  BY <1>1, <1>2, <1>3, ForkedFds
<1>5. /\ pc'[child] = "user" /\ \A o \in Procs : o # child => pc'[o] = pc[o]
      /\ \A fd \in Fds : ofile'[child][fd] = ofile[p][fd]
      /\ \A o \in Procs : o # child => \A fd \in Fds : ofile'[o][fd] = ofile[o][fd]
  BY <1>1, <1>2 DEF TypeOK
<1>6. \A f \in Slots : ref'[f] \in Nat /\ ref[f] \in Nat /\ ref'[f] >= ref[f]
  <2> SUFFICES ASSUME NEW f \in Slots
               PROVE  ref'[f] \in Nat /\ ref[f] \in Nat /\ ref'[f] >= ref[f]
    OBVIOUS
  <2>1. PICK n \in Nat : n = Cardinality({fd \in Fds : ofile[p][fd] = f})
    BY <1>4
  <2>2. ref'[f] = ref[f] + n /\ ref[f] \in Nat
    BY <1>1, <1>2, <2>1 DEF TypeOK
  <2> QED
    BY <2>2
<1>7. TypeOK'
  <2>1. ref' \in [Slots -> Nat]
    BY <1>2, <1>6
  <2>2. ofile' \in [Procs -> [Fds -> Slots \cup {None}]] /\ pc' \in [Procs -> Points]
    BY <1>1, <1>2 DEF TypeOK, Points
  <2> QED
    BY <1>1, <1>2, <2>1, <2>2 DEF TypeOK
<1>8. RefExact'
  <2>1. ~panicked' /\ RefExact
    BY <1>2 DEF CountsExact, RefExact
  <2> SUFFICES ASSUME NEW f \in Slots
               PROVE  ref'[f] = Cardinality(FdUsers(ofile', f)) + Cardinality(Users(f0', f))
                                  + Cardinality(Users(f1', f))
    BY <2>1 DEF RefExact, FdUsers, Users
  <2>2. ref[f] = Cardinality(FdUsers(ofile, f)) + Cardinality(Users(f0, f))
                   + Cardinality(Users(f1, f))
    BY <2>1, RefCounted
  <2>3. ref'[f] = ref[f] + Cardinality({fd \in Fds : ofile[p][fd] = f})
    BY <1>2
  <2>4. /\ Cardinality(FdUsers(ofile', f))
              = Cardinality(FdUsers(ofile, f)) + Cardinality({fd \in Fds : ofile[p][fd] = f})
        /\ Cardinality({fd \in Fds : ofile[p][fd] = f}) \in Nat
    BY <1>1, <1>2, <1>3, ForkedFds
  <2>5. f0' = f0 /\ f1' = f1
    BY <1>2
  <2> QED
    BY <2>2, <2>3, <2>4, <2>5, UsersFinite
<1>9. PipeOpenExact' /\ EndsUnique'
  <2>1. \A f \in Slots : type[f] # "none" => ref[f] > 0 /\ ref'[f] > 0
    BY <1>6, FileOpen
  <2> QED
    BY <1>2, <1>5, <2>1, PipesKept
<1>10. CallsRight'
  BY <1>2, <1>5 DEF CountsExact, CallsRight, HasEnd, InPipe, Reading, Writing, Closing
<1>11. NewFilesOwned'
  BY <1>2, <1>5 DEF CountsExact, NewFilesOwned
<1> QED
  BY <1>7, <1>8, <1>9, <1>10, <1>11 DEF CountsExact

\* The two lowest free descriptors.
LEMMA TwoFds ==
  ASSUME NEW p \in Procs, ~(Cardinality(FreeFds(p)) < 2)
  PROVE  \E a, b \in Fds : /\ a # b /\ ofile[p][a] = None /\ ofile[p][b] = None
                           /\ a = Min(FreeFds(p)) /\ b = Min(FreeFds(p) \ {Min(FreeFds(p))})
<1>1. PICK S : S = FreeFds(p)
  OBVIOUS
<1>2. S \in SUBSET Nat /\ IsFiniteSet(S)
  <2>1. 0 \in Int /\ NOFILE - 1 \in Int
    BY FilesAssumption
  <2>2. IsFiniteSet(Fds)
    BY <2>1, FS_Interval DEF Fds
  <2>3. S \subseteq Fds
    BY <1>1 DEF FreeFds
  <2> QED
    BY <2>2, <2>3, FS_Subset, Constants
<1>3. Cardinality(S) \in Nat /\ Cardinality(S) >= 2
  <2>1. Cardinality(S) \in Nat
    BY <1>2, FS_CardinalityType
  <2> QED
    BY <1>1, <2>1
<1>4. S # {}
  BY <1>3, FS_EmptySet
<1>5. PICK a \in S : a = Min(S)
  BY <1>2, <1>4, MinIn
<1>6. Cardinality(S \ {a}) = Cardinality(S) - 1
  BY <1>2, FS_RemoveElement
<1>7. S \ {a} # {}
  BY <1>3, <1>6, FS_EmptySet
<1>8. PICK b \in S \ {a} : b = Min(S \ {a})
  <2>1. S \ {a} \in SUBSET Nat
    BY <1>2
  <2> QED
    BY <2>1, <1>7, MinIn
<1> QED
  BY <1>1, <1>5, <1>8 DEF FreeFds

\* The references of pipealloc() become those of two descriptors, or stay.
LEMMA SetupRefs ==
  ASSUME CountsExact, NEW p \in Procs, pc[p] = "setup", ofile' = FdPair(p), UNCHANGED <<ref, panicked>>,
         IF Cardinality(FreeFds(p)) >= 2
         THEN f0' = [f0 EXCEPT ![p] = None] /\ f1' = [f1 EXCEPT ![p] = None]
         ELSE UNCHANGED <<f0, f1>>
  PROVE  /\ RefExact' /\ ofile' \in [Procs -> [Fds -> Slots \cup {None}]]
         /\ \A o \in Procs, e \in Fds :
              ofile'[o][e] = ofile[o][e]
                \/ (o = p /\ ofile[o][e] = None /\ ofile'[o][e] \in {f0[p], f1[p]})
         /\ ~(Cardinality(FreeFds(p)) >= 2) => ofile' = ofile
<1>1. TypeOK /\ RefExact
  BY DEF CountsExact
<1>2. PICK f \in Slots, g \in Slots : f = f0[p] /\ g = f1[p]
  BY <1>1 DEF CountsExact, CallsRight, TypeOK
<1>3. Cardinality(FreeFds(p)) \in Nat
  <2>1. 0 \in Int /\ NOFILE - 1 \in Int
    BY FilesAssumption
  <2>2. IsFiniteSet(Fds)
    BY <2>1, FS_Interval DEF Fds
  <2>3. FreeFds(p) \subseteq Fds
    BY DEF FreeFds
  <2> QED
    BY <2>2, <2>3, FS_Subset, FS_CardinalityType
<1>4. CASE ~(Cardinality(FreeFds(p)) >= 2)
  <2>1. UNCHANGED <<ofile, f0, f1>>
    BY <1>3, <1>4 DEF FdPair
  <2>2. RefExact'
    BY <1>1, <2>1 DEF RefExact
  <2>3. ofile' \in [Procs -> [Fds -> Slots \cup {None}]]
    BY <1>1, <2>1 DEF TypeOK
  <2>4. \A o \in Procs, e \in Fds : ofile'[o][e] = ofile[o][e]
    BY <2>1
  <2>5. ofile' = ofile
    BY <2>1
  <2> QED
    BY <2>2, <2>3, <2>4, <2>5
<1>5. CASE Cardinality(FreeFds(p)) >= 2
  <2>1. PICK a \in Fds, b \in Fds :
             /\ a # b /\ ofile[p][a] = None /\ ofile[p][b] = None
             /\ a = Min(FreeFds(p)) /\ b = Min(FreeFds(p) \ {Min(FreeFds(p))})
    BY <1>3, <1>5, TwoFds
  <2>2. PICK m : m = [ofile EXCEPT ![p][a] = f]
    OBVIOUS
  <2>3. ofile' = [m EXCEPT ![p][b] = g]
    BY <1>2, <1>3, <1>5, <2>1, <2>2 DEF FdPair
  <2>4. /\ m \in [Procs -> [Fds -> Slots \cup {None}]] /\ m[p][a] = f /\ m[p][b] = None
        /\ \A o \in Procs, e \in Fds : o # p \/ e # a => m[o][e] = ofile[o][e]
    BY <1>1, <2>1, <2>2 DEF TypeOK
  <2>5. /\ ofile' \in [Procs -> [Fds -> Slots \cup {None}]] /\ ofile'[p][b] = g
        /\ \A o \in Procs, e \in Fds : o # p \/ e # b => ofile'[o][e] = m[o][e]
    BY <2>3, <2>4
  <2>6. /\ f0'[p] = None /\ \A o \in Procs : o # p => f0'[o] = f0[o]
        /\ f1'[p] = None /\ \A o \in Procs : o # p => f1'[o] = f1[o]
    BY <1>1, <1>5 DEF TypeOK
  <2>7. ASSUME NEW x \in Slots
        PROVE  ref'[x] = Cardinality(FdUsers(ofile', x)) + Cardinality(Users(f0', x))
                           + Cardinality(Users(f1', x))
    <3>1. ref[x] = Cardinality(FdUsers(ofile, x)) + Cardinality(Users(f0, x))
                     + Cardinality(Users(f1, x))
      BY <1>1, RefCounted
    <3>2. Cardinality(FdUsers(m, x)) = Cardinality(FdUsers(ofile, x)) - Is(None, x) + Is(f, x)
      <4>1. PICK h : h = ofile
        OBVIOUS
      <4>2. \A o \in Procs, e \in Fds : o # p \/ e # a => m[o][e] = h[o][e]
        BY <2>4, <4>1
      <4>3. Cardinality(FdUsers(m, x)) = Cardinality(FdUsers(h, x)) - Is(h[p][a], x) + Is(m[p][a], x)
        BY <4>2, FdStored
      <4> QED
        BY <2>1, <2>4, <4>1, <4>3
    <3>3. Cardinality(FdUsers(ofile', x)) = Cardinality(FdUsers(m, x)) - Is(None, x) + Is(g, x)
      <4>1. PICK h : h = ofile'
        OBVIOUS
      <4>2. \A o \in Procs, e \in Fds : o # p \/ e # b => h[o][e] = m[o][e]
        BY <2>5, <4>1
      <4>3. Cardinality(FdUsers(h, x)) = Cardinality(FdUsers(m, x)) - Is(m[p][b], x) + Is(h[p][b], x)
        BY <4>2, FdStored
      <4> QED
        BY <2>4, <2>5, <4>1, <4>3
    <3>4. Cardinality(Users(f0', x)) = Cardinality(Users(f0, x)) - Is(f, x) + Is(None, x)
      BY <1>2, <2>6, F0Stored
    <3>5. Cardinality(Users(f1', x)) = Cardinality(Users(f1, x)) - Is(g, x) + Is(None, x)
      BY <1>2, <2>6, F1Stored
    <3>6. Is(None, x) = 0 /\ Is(f, x) \in Nat /\ Is(g, x) \in Nat
      BY Constants DEF Is
    <3> QED
      BY <3>1, <3>2, <3>3, <3>4, <3>5, <3>6, UsersFinite
  <2>8. RefExact'
    BY <1>1, <2>7 DEF RefExact, FdUsers, Users
  <2>9. \A o \in Procs, e \in Fds :
              ofile'[o][e] = ofile[o][e]
                \/ (o = p /\ ofile[o][e] = None /\ ofile'[o][e] \in {f0[p], f1[p]})
    <3> SUFFICES ASSUME NEW o \in Procs, NEW e \in Fds
                 PROVE  ofile'[o][e] = ofile[o][e]
                          \/ (o = p /\ ofile[o][e] = None /\ ofile'[o][e] \in {f0[p], f1[p]})
      OBVIOUS
    <3>1. CASE o = p /\ e = a
      BY <1>2, <2>1, <2>4, <2>5, <3>1
    <3>2. CASE o = p /\ e = b
      BY <1>2, <2>1, <2>5, <3>2
    <3>3. CASE o # p \/ (e # a /\ e # b)
      <4>1. m[o][e] = ofile[o][e]
        BY <2>4, <3>3
      <4>2. ofile'[o][e] = m[o][e]
        BY <2>5, <3>3
      <4> QED
        BY <4>1, <4>2
    <3> QED
      BY <3>1, <3>2, <3>3
  <2> QED
    BY <1>5, <2>5, <2>8, <2>9
<1> QED
  BY <1>4, <1>5

\* The end of pipealloc(): two files nobody else refers to become the ends of a free page.
LEMMA PipeSetupCounts ==
  ASSUME CountsExact, NEW p \in Procs, NEW q \in Pages, PipeSetup(p, q)
  PROVE  CountsExact'
<1>1. TypeOK
  BY DEF CountsExact
<1>2. /\ pc[p] = "setup" /\ ~allocated[q] /\ allocated' = [allocated EXCEPT ![q] = TRUE]
      /\ nread' = [nread EXCEPT ![q] = 0] /\ nwrite' = [nwrite EXCEPT ![q] = 0]
      /\ readopen' = [readopen EXCEPT ![q] = TRUE]
      /\ writeopen' = [writeopen EXCEPT ![q] = TRUE]
      /\ type' = [type EXCEPT ![f0[p]] = "reader", ![f1[p]] = "writer"]
      /\ filePipe' = [filePipe EXCEPT ![f0[p]] = q, ![f1[p]] = q]
      /\ ofile' = FdPair(p)
      /\ UNCHANGED <<ref, data, lock, killed, pp, wr, left, exiting, panicked>>
  BY DEF PipeSetup, At
<1>3. IF Cardinality(FreeFds(p)) >= 2
      THEN /\ f0' = [f0 EXCEPT ![p] = None] /\ f1' = [f1 EXCEPT ![p] = None]
           /\ pc' = [pc EXCEPT ![p] = "user"]
      ELSE pc' = [pc EXCEPT ![p] = "closing"] /\ UNCHANGED <<f0, f1>>
  BY DEF PipeSetup, Goto
<1>4. /\ RefExact' /\ ofile' \in [Procs -> [Fds -> Slots \cup {None}]]
      /\ \A o \in Procs, e \in Fds :
           ofile'[o][e] = ofile[o][e]
             \/ (o = p /\ ofile[o][e] = None /\ ofile'[o][e] \in {f0[p], f1[p]})
      /\ ~(Cardinality(FreeFds(p)) >= 2) => ofile' = ofile
  BY <1>2, <1>3, SetupRefs
<1>5. PICK f \in Slots, g \in Slots : f = f0[p] /\ g = f1[p] /\ f # g
  BY <1>1, <1>2 DEF CountsExact, CallsRight, TypeOK
<1>6. /\ type[f] = "none" /\ type[g] = "none"
      /\ \A o \in Procs, e \in Fds : ofile[o][e] # f /\ ofile[o][e] # g
      /\ \A o \in Procs : o # p => f0[o] # f /\ f1[o] # f /\ f0[o] # g /\ f1[o] # g
  BY <1>2, <1>5 DEF CountsExact, NewFilesOwned
<1>7. ref[f] > 0 /\ ref[g] > 0
  <2>1. ref[f] # 0 /\ ref[g] # 0
    BY <1>1, <1>5, RefFacts DEF CountsExact
  <2> QED
    BY <1>1, <2>1 DEF TypeOK
<1>8. /\ type'[f] = "reader" /\ type'[g] = "writer" /\ filePipe'[f] = q /\ filePipe'[g] = q
      /\ \A x \in Slots : x # f /\ x # g => type'[x] = type[x] /\ filePipe'[x] = filePipe[x]
      /\ allocated'[q] /\ readopen'[q] /\ writeopen'[q]
      /\ \A r \in Pages : r # q => /\ allocated'[r] <=> allocated[r]
                                   /\ readopen'[r] <=> readopen[r]
                                   /\ writeopen'[r] <=> writeopen[r]
      /\ pc'[p] \in {"user", "closing"} /\ \A o \in Procs : o # p => pc'[o] = pc[o]
  BY <1>1, <1>2, <1>3, <1>5 DEF TypeOK
<1>9. /\ \A o \in Procs : o # p => f0'[o] = f0[o] /\ f1'[o] = f1[o]
      /\ pc'[p] = "user" => f0'[p] = None /\ f1'[p] = None
      /\ pc'[p] = "closing" => f0'[p] = f0[p] /\ f1'[p] = f1[p]
      /\ f0' \in [Procs -> Slots \cup {None}] /\ f1' \in [Procs -> Slots \cup {None}]
  <2>1. /\ f0 \in [Procs -> Slots \cup {None}] /\ f1 \in [Procs -> Slots \cup {None}]
        /\ pc \in [Procs -> Points]
    BY <1>1 DEF TypeOK
  <2>2. CASE Cardinality(FreeFds(p)) >= 2
    <3>1. /\ f0' = [f0 EXCEPT ![p] = None] /\ f1' = [f1 EXCEPT ![p] = None]
          /\ pc' = [pc EXCEPT ![p] = "user"]
      BY <1>3, <2>2
    <3> QED
      BY <2>1, <3>1
  <2>3. CASE ~(Cardinality(FreeFds(p)) >= 2)
    <3>1. pc' = [pc EXCEPT ![p] = "closing"] /\ UNCHANGED <<f0, f1>>
      BY <1>3, <2>3
    <3> QED
      BY <2>1, <3>1
  <2> QED
    BY <2>2, <2>3
<1>10. TypeOK'
  <2>1. /\ type' \in [Slots -> {"none", "reader", "writer"}]
        /\ filePipe' \in [Slots -> Pages \cup {None}]
    BY <1>1, <1>2 DEF TypeOK
  <2>2. /\ allocated' \in [Pages -> BOOLEAN] /\ readopen' \in [Pages -> BOOLEAN]
        /\ writeopen' \in [Pages -> BOOLEAN] /\ nread' \in [Pages -> 0 .. WORD - 1]
        /\ nwrite' \in [Pages -> 0 .. WORD - 1]
    BY <1>1, <1>2, PipeSizes DEF TypeOK
  <2>3. pc' \in [Procs -> Points]
    BY <1>1, <1>3 DEF TypeOK, Points
  <2> QED
    BY <1>1, <1>2, <1>4, <1>9, <2>1, <2>2, <2>3 DEF TypeOK
<1>11. /\ \A o \in Procs : pp[o] # q
       /\ \A x \in Slots : filePipe[x] = q => type[x] = "none"
  <2>1. \A x \in Slots : type[x] # "none" => allocated[filePipe[x]]
    BY FileOpen
  <2> QED
    BY <1>2, <2>1 DEF CountsExact, PipeOpenExact
<1>12. PipeOpenExact'
  <2>1. EndInUse(q, FALSE)' /\ EndInUse(q, TRUE)'
    BY <1>2, <1>5, <1>7, <1>8 DEF EndInUse, EndOf
  <2>2. ASSUME NEW r \in Pages, r # q, NEW w \in BOOLEAN
        PROVE  EndInUse(r, w)' <=> EndInUse(r, w)
    <3>1. EndOf(w) # "none"
      BY DEF EndOf
    <3>2. \A x \in Slots : /\ filePipe'[x] = r /\ type'[x] = EndOf(w)
                                <=> filePipe[x] = r /\ type[x] = EndOf(w)
      BY <1>6, <1>8, <2>2, <3>1
    <3>3. \A o \in Procs : pc'[o] = "pipeclose" <=> pc[o] = "pipeclose"
      BY <1>2, <1>8
    <3> QED
      BY <1>2, <3>2, <3>3 DEF EndInUse
  <2> QED
    BY <1>2, <1>8, <2>1, <2>2 DEF CountsExact, PipeOpenExact
<1>13. EndsUnique'
  <2>1. ASSUME NEW x \in Slots
        PROVE  (type'[x] = "none" <=> filePipe'[x] = None) /\ (ref'[x] = 0 => type'[x] = "none")
    <3>1. ref'[x] = ref[x] /\ q # None
      BY <1>2, Constants
    <3> QED
      BY <1>7, <1>8, <3>1 DEF CountsExact, EndsUnique
  <2>2. ASSUME NEW x \in Slots, NEW y \in Slots,
               type'[x] # "none" /\ type'[x] = type'[y] /\ filePipe'[x] = filePipe'[y]
        PROVE  x = y
    <3>1. CASE x \in {f, g} \/ y \in {f, g}
      BY <1>8, <1>11, <2>2, <3>1
    <3>2. CASE ~(x \in {f, g} \/ y \in {f, g})
      BY <1>8, <2>2, <3>2 DEF CountsExact, EndsUnique
    <3> QED
      BY <3>1, <3>2
  <2>3. ASSUME NEW o \in Procs, pc'[o] = "pipeclose"
        PROVE  /\ \A x \in Slots : ~(filePipe'[x] = pp'[o] /\ type'[x] = EndOf(wr'[o]))
               /\ \A r \in Procs :
                    pc'[r] = "pipeclose" /\ pp'[r] = pp'[o] /\ wr'[r] = wr'[o] => r = o
    <3>1. pc[o] = "pipeclose" /\ o # p /\ pp'[o] = pp[o] /\ wr'[o] = wr[o] /\ pp[o] # q
      BY <1>2, <1>8, <1>11, <2>3
    <3>2. \A r \in Procs : pc'[r] = "pipeclose" => pc[r] = "pipeclose"
      BY <1>2, <1>8
    <3>3. \A x \in Slots : ~(filePipe'[x] = pp[o] /\ type'[x] = EndOf(wr[o]))
      BY <1>8, <3>1 DEF CountsExact, EndsUnique
    <3>4. \A r \in Procs : pc[r] = "pipeclose" /\ pp[r] = pp[o] /\ wr[r] = wr[o] => r = o
      BY <3>1 DEF CountsExact, EndsUnique
    <3> QED
      BY <1>2, <3>1, <3>2, <3>3, <3>4
  <2> QED
    BY <2>1, <2>2, <2>3 DEF EndsUnique
<1>14. CallsRight'
  <2>1. \A o \in Procs : o # p => \A e \in Fds :
          /\ ofile'[o][e] = ofile[o][e]
          /\ ofile[o][e] # None => /\ type'[ofile[o][e]] = type[ofile[o][e]]
                                   /\ filePipe'[ofile[o][e]] = filePipe[ofile[o][e]]
    BY <1>1, <1>4, <1>6, <1>8 DEF TypeOK
  <2>2. pp'[p] = None
    BY <1>2 DEF CountsExact, CallsRight, InPipe
  <2>3. ASSUME NEW o \in Procs, o # p, NEW end, HasEnd(o, end)
        PROVE  HasEnd(o, end)'
    <3>1. PICK e \in Fds : /\ ofile[o][e] # None /\ type[ofile[o][e]] = end
                            /\ filePipe[ofile[o][e]] = pp[o]
      BY <2>3 DEF HasEnd
    <3>2. /\ ofile'[o][e] # None /\ type'[ofile'[o][e]] = end
          /\ filePipe'[ofile'[o][e]] = pp'[o]
      <4>1. /\ ofile'[o][e] = ofile[o][e] /\ type'[ofile[o][e]] = type[ofile[o][e]]
            /\ filePipe'[ofile[o][e]] = filePipe[ofile[o][e]]
        BY <2>1, <2>3, <3>1
      <4>2. pp'[o] = pp[o]
        BY <1>2
      <4> QED
        BY <3>1, <4>1, <4>2
    <3> QED
      BY <3>2 DEF HasEnd
  <2>4. f0[p] # None
    BY <1>2 DEF CountsExact, CallsRight
  <2> QED
    BY <1>2, <1>8, <1>9, <2>1, <2>2, <2>3, <2>4
       DEF CountsExact, CallsRight, Closing, InPipe, Reading, Writing
<1>15. NewFilesOwned'
  <2>1. ASSUME NEW o \in Procs, pc'[o] \in {"allocwrite", "setup"},
               NEW x \in {f0'[o], f1'[o]} \cap Slots, NEW r \in Procs
        PROVE  /\ type'[x] = "none" /\ \A fd \in Fds : ofile'[r][fd] # x
               /\ r # o => f0'[r] # x /\ f1'[r] # x
    <3>1. /\ o # p /\ pc[o] \in {"allocwrite", "setup"} /\ x \in {f0[o], f1[o]} \cap Slots
          /\ x # f /\ x # g /\ x # None
      BY <1>6, <1>8, <1>9, <2>1, Constants
    <3>2. /\ type[x] = "none" /\ \A fd \in Fds : ofile[r][fd] # x
          /\ r # o => f0[r] # x /\ f1[r] # x
      BY <3>1 DEF CountsExact, NewFilesOwned
    <3>3. \A fd \in Fds : ofile'[r][fd] # x
      BY <1>4, <1>5, <3>1, <3>2
    <3> QED
      BY <1>8, <1>9, <3>1, <3>2, <3>3
  <2> QED
    BY <2>1 DEF NewFilesOwned
<1> QED
  BY <1>4, <1>10, <1>12, <1>13, <1>14, <1>15 DEF CountsExact

\* What fileclose() does to a file that has references.
Drops(p, f) ==
  /\ f = Closing(p) /\ ref[f] \in Nat /\ ref[f] >= 1
  /\ pc[p] = "closing" /\ pp[p] = None /\ (f0[p] = f \/ (f0[p] = None /\ f1[p] = f))
  /\ ref' = [ref EXCEPT ![f] = @ - 1]
  /\ f0' = [f0 EXCEPT ![p] = None]
  /\ f1' = [f1 EXCEPT ![p] = IF f0[p] # None THEN @ ELSE None]
  /\ f0'[p] = None /\ f1'[p] \in {f1[p], None}
  /\ (f0[p] = None => f1'[p] = None) /\ (f0[p] # None => f1'[p] = f1[p])
  /\ \A o \in Procs : o # p => f0'[o] = f0[o] /\ f1'[o] = f1[o]
  /\ IF ref[f] = 1 THEN FileReset(f) ELSE UNCHANGED <<type, filePipe>>
  /\ IF ref[f] = 1 /\ type[f] # "none"
     THEN /\ pp' = [pp EXCEPT ![p] = filePipe[f]]
          /\ wr' = [wr EXCEPT ![p] = type[f] = "writer"]
          /\ Goto(p, "pipeclose")
     ELSE /\ Goto(p, AfterClose(p, IF f0[p] # None THEN f1[p] ELSE None))
          /\ UNCHANGED <<pp, wr>>
  /\ UNCHANGED <<allocated, nread, nwrite, readopen, writeopen, data, lock, ofile, killed,
                 left, exiting, panicked>>

\* fileclose() does not panic, and drops one reference of the process.
LEMMA FileCloseRefs ==
  ASSUME CountsExact, NEW p \in Procs, FileClose(p)
  PROVE  RefExact' /\ \E f \in Slots : Drops(p, f)
<1>1. TypeOK /\ RefExact /\ pc[p] = "closing"
  BY DEF CountsExact, FileClose, At
<1>2. PICK f \in Slots : f = Closing(p) /\ (f0[p] = f \/ (f0[p] = None /\ f1[p] = f))
  BY <1>1 DEF CountsExact, CallsRight, Closing, TypeOK
<1>3. ref[f] \in Nat /\ ref[f] >= 1
  <2>1. ref[f] # 0
    BY <1>1, <1>2, RefFacts
  <2> QED
    BY <1>1, <2>1 DEF TypeOK
<1>4. ~(ref[Closing(p)] < 1)
  BY <1>2, <1>3
<1>5. /\ ref' = [ref EXCEPT ![f] = @ - 1]
      /\ f0' = [f0 EXCEPT ![p] = None]
      /\ f1' = [f1 EXCEPT ![p] = IF f0[p] # None THEN @ ELSE None]
      /\ IF ref[f] = 1 THEN FileReset(f) ELSE UNCHANGED <<type, filePipe>>
      /\ IF ref[f] = 1 /\ type[f] # "none"
         THEN /\ pp' = [pp EXCEPT ![p] = filePipe[f]]
              /\ wr' = [wr EXCEPT ![p] = type[f] = "writer"]
              /\ Goto(p, "pipeclose")
         ELSE /\ Goto(p, AfterClose(p, IF f0[p] # None THEN f1[p] ELSE None))
              /\ UNCHANGED <<pp, wr>>
      /\ UNCHANGED <<allocated, nread, nwrite, readopen, writeopen, data, lock, ofile, killed,
                     left, exiting, panicked>>
  BY <1>2, <1>4, Zenon DEF FileClose, pipes
<1>6. /\ f0'[p] = None /\ f1'[p] \in {f1[p], None}
      /\ (f0[p] = None => f1'[p] = None) /\ (f0[p] # None => f1'[p] = f1[p])
      /\ \A o \in Procs : o # p => f0'[o] = f0[o] /\ f1'[o] = f1[o]
  BY <1>1, <1>5 DEF TypeOK
<1>7. RefExact'
  <2>1. ~panicked' /\ ofile' = ofile
    BY <1>1, <1>5 DEF RefExact
  <2>2. \A g \in Slots : ref'[g] = ref[g] - Is(f, g)
    BY <1>1, <1>5 DEF TypeOK, Is
  <2>3. \A g \in Slots : ref'[g] = ref[g] - Is(f0[p], g) - Is(f1[p], g) + Is(f0'[p], g)
                                     + Is(f1'[p], g)
    <3> SUFFICES ASSUME NEW g \in Slots
                 PROVE  ref'[g] = ref[g] - Is(f0[p], g) - Is(f1[p], g) + Is(f0'[p], g)
                                    + Is(f1'[p], g)
      OBVIOUS
    <3>1. /\ Is(None, g) = 0 /\ ref[g] \in Nat /\ Is(f, g) \in Nat /\ Is(f1[p], g) \in Nat
          /\ None # f
      BY <1>1, Constants DEF Is, TypeOK
    <3> QED
      BY <1>2, <1>6, <2>2, <3>1
  <2> QED
    BY <1>1, <1>6, <2>1, <2>3, LocalsCounted
<1>8. pp[p] = None
  BY <1>1 DEF CountsExact, CallsRight, InPipe
<1>9. Drops(p, f)
  BY <1>1, <1>2, <1>3, <1>5, <1>6, <1>8, Zenon DEF Drops
<1> QED
  BY <1>7, <1>9

\* Where fileclose() goes on, when no pipe is to be closed.
LEMMA AfterCloseIs ==
  ASSUME TypeOK, NEW p \in Procs, NEW next
  PROVE  /\ next # None => AfterClose(p, next) = "closing"
         /\ next = None => AfterClose(p, next) \in {"exit", "user"}
  BY DEF AfterClose

\* Files that another process is setting up are left alone.
LEMMA OthersNew ==
  ASSUME CountsExact, NEW p \in Procs, NEW f \in Slots, Drops(p, f),
         \A o \in Procs : o # p => pc'[o] = pc[o], pc'[p] \notin {"allocwrite", "setup"},
         \A g \in Slots : g # f => type'[g] = type[g]
  PROVE  NewFilesOwned'
<1>1. ASSUME NEW o \in Procs, pc'[o] \in {"allocwrite", "setup"},
             NEW x \in {f0'[o], f1'[o]} \cap Slots, NEW r \in Procs
      PROVE  /\ type'[x] = "none" /\ \A fd \in Fds : ofile'[r][fd] # x
             /\ r # o => f0'[r] # x /\ f1'[r] # x
  <2>1. /\ o # p /\ pc[o] \in {"allocwrite", "setup"} /\ x \in {f0[o], f1[o]} \cap Slots
        /\ x # None
    BY <1>1, Constants DEF Drops
  <2>2. /\ type[x] = "none" /\ \A fd \in Fds : ofile[r][fd] # x
        /\ r # o => f0[r] # x /\ f1[r] # x
        /\ f0[p] # x /\ f1[p] # x
    BY <2>1 DEF CountsExact, NewFilesOwned
  <2>3. x # f
    BY <2>2 DEF Drops
  <2>4. ofile' = ofile /\ f0'[p] = None /\ f1'[p] \in {f1[p], None}
        /\ \A y \in Procs : y # p => f0'[y] = f0[y] /\ f1'[y] = f1[y]
    BY DEF Drops
  <2> QED
    BY <2>1, <2>2, <2>3, <2>4
<1> QED
  BY <1>1 DEF NewFilesOwned

\* A reference that is not the last, or to a file that was never set up.
LEMMA FileCloseKeeps ==
  ASSUME CountsExact, NEW p \in Procs, FileClose(p),
         ~(ref[Closing(p)] = 1 /\ type[Closing(p)] # "none")
  PROVE  CountsExact'
<1>1. TypeOK
  BY DEF CountsExact
<1>2. PICK f \in Slots : Drops(p, f) /\ RefExact'
  BY FileCloseRefs
<1> USE DEF Drops
<1>3. UNCHANGED <<type, filePipe>>
  <2>1. type \in [Slots -> {"none", "reader", "writer"}] /\ filePipe \in [Slots -> Pages \cup {None}]
    BY <1>1 DEF TypeOK
  <2>2. CASE ref[f] = 1
    <3>1. type[f] = "none" /\ filePipe[f] = None
      BY <1>2, <2>2 DEF CountsExact, EndsUnique
    <3>2. FileReset(f)
      BY <1>2, <2>2
    <3> QED
      BY <2>1, <3>1, <3>2 DEF FileReset
  <2> QED
    BY <1>2, <2>2
<1>4. PICK next : next = f1'[p] /\ next = (IF f0[p] # None THEN f1[p] ELSE None)
  BY <1>2
<1>5. pc' = [pc EXCEPT ![p] = AfterClose(p, next)] /\ UNCHANGED <<pp, wr>>
  BY <1>2, <1>4, Zenon DEF Goto
<1>6. /\ \A o \in Procs : o # p => pc'[o] = pc[o]
      /\ pc'[p] \in {"closing", "exit", "user"} /\ (pc'[p] = "closing" <=> f1'[p] # None)
  BY <1>1, <1>4, <1>5, AfterCloseIs DEF TypeOK
<1>7. TypeOK'
  <2>1. ref' \in [Slots -> Nat]
    BY <1>1, <1>2 DEF TypeOK
  <2>2. f0' \in [Procs -> Slots \cup {None}] /\ f1' \in [Procs -> Slots \cup {None}]
    BY <1>1, <1>2 DEF TypeOK
  <2>3. pc' \in [Procs -> Points]
    BY <1>1, <1>5, <1>6 DEF TypeOK, Points
  <2> QED
    BY <1>1, <1>2, <1>3, <1>5, <2>1, <2>2, <2>3 DEF TypeOK
<1>8. PipeOpenExact' /\ EndsUnique'
  <2>1. ASSUME NEW g \in Slots, type[g] # "none"
        PROVE  ref[g] > 0 /\ ref'[g] > 0
    <3>1. ref[g] > 0 /\ ref[g] \in Nat
      BY <1>1, <2>1, FileOpen DEF TypeOK
    <3>2. CASE g = f
      <4>1. ref[f] # 1 /\ ref'[f] = ref[f] - 1
        BY <1>1, <1>2, <2>1, <3>2 DEF TypeOK
      <4> QED
        BY <1>2, <3>2, <4>1
    <3>3. CASE g # f
      BY <1>1, <1>2, <3>1, <3>3 DEF TypeOK
    <3> QED
      BY <3>1, <3>2, <3>3
  <2>2. UNCHANGED <<type, filePipe, allocated, readopen, writeopen, wr>>
    BY <1>2, <1>3, <1>5
  <2>3. /\ \A o \in Procs : pc'[o] = "pipeclose" <=> pc[o] = "pipeclose"
        /\ \A o \in Procs : pp'[o] = pp[o]
    BY <1>2, <1>5, <1>6
  <2> QED
    BY <2>1, <2>2, <2>3, PipesKept
<1>9. CallsRight'
  BY <1>2, <1>3, <1>5, <1>6 DEF CountsExact, CallsRight, HasEnd, InPipe, Reading, Writing, Closing
<1>10. NewFilesOwned'
  BY <1>2, <1>3, <1>6, OthersNew
<1> QED
  BY <1>2, <1>7, <1>8, <1>9, <1>10 DEF CountsExact

\* The last reference to an end of a pipe: nobody else refers to the file, and the process is the
\* one that closes this end.
LEMMA FileCloseEnd ==
  ASSUME CountsExact, NEW p \in Procs, FileClose(p),
         ref[Closing(p)] = 1 /\ type[Closing(p)] # "none"
  PROVE  CountsExact'
<1>1. TypeOK /\ RefExact
  BY DEF CountsExact
<1>2. PICK f \in Slots : Drops(p, f) /\ RefExact'
  BY FileCloseRefs
<1>3. /\ ref[f] = 1 /\ type[f] # "none" /\ pc[p] = "closing" /\ pp[p] = None
      /\ f0[p] = f \/ f1[p] = f
      /\ ref' = [ref EXCEPT ![f] = @ - 1]
      /\ type' = [type EXCEPT ![f] = "none"] /\ filePipe' = [filePipe EXCEPT ![f] = None]
      /\ pp' = [pp EXCEPT ![p] = filePipe[f]] /\ wr' = [wr EXCEPT ![p] = type[f] = "writer"]
      /\ pc' = [pc EXCEPT ![p] = "pipeclose"]
      /\ UNCHANGED <<allocated, nread, nwrite, readopen, writeopen, data, lock, ofile, killed,
                     left, exiting, panicked>>
  BY <1>2 DEF Drops, FileReset, Goto
<1>4. /\ f0'[p] = None /\ f0' \in [Procs -> Slots \cup {None}] /\ f1' \in [Procs -> Slots \cup {None}]
      /\ \A o \in Procs : o # p => f0'[o] = f0[o] /\ f1'[o] = f1[o]
  BY <1>1, <1>2 DEF Drops, TypeOK
<1>5. PICK q \in Pages : q = filePipe[f]
  BY <1>3, FileOpen
<1>6. PICK w \in BOOLEAN : w = (type[f] = "writer") /\ EndOf(w) = type[f]
                             /\ \A v \in BOOLEAN : EndOf(v) = type[f] => v = w
  <2>1. type[f] \in {"reader", "writer"}
    BY <1>1, <1>3 DEF TypeOK
  <2>2. CASE type[f] = "writer"
    BY <2>2 DEF EndOf
  <2>3. CASE type[f] = "reader"
    BY <2>3 DEF EndOf
  <2> QED
    BY <2>1, <2>2, <2>3
<1>7. /\ ref'[f] = 0 /\ type'[f] = "none" /\ filePipe'[f] = None
      /\ \A g \in Slots : g # f => ref'[g] = ref[g] /\ type'[g] = type[g] /\ filePipe'[g] = filePipe[g]
      /\ pp'[p] = q /\ wr'[p] = w /\ pc'[p] = "pipeclose"
      /\ \A o \in Procs : o # p => pp'[o] = pp[o] /\ wr'[o] = wr[o] /\ pc'[o] = pc[o]
  BY <1>1, <1>3, <1>5, <1>6 DEF TypeOK
<1>8. TypeOK'
  <2>1. /\ ref' \in [Slots -> Nat] /\ type' \in [Slots -> {"none", "reader", "writer"}]
        /\ filePipe' \in [Slots -> Pages \cup {None}]
    BY <1>1, <1>3 DEF TypeOK
  <2>2. pp' \in [Procs -> Pages \cup {None}] /\ pc' \in [Procs -> Points]
    BY <1>1, <1>3, <1>5 DEF TypeOK, Points
  <2>3. wr' \in [Procs -> BOOLEAN]
    BY <1>1, <1>3, <1>6 DEF TypeOK
  <2> QED
    BY <1>1, <1>3, <1>4, <2>1, <2>2, <2>3 DEF TypeOK
<1>9. \A g \in Slots : g # f => ~(filePipe[g] = q /\ type[g] = EndOf(w))
  BY <1>3, <1>5, <1>6 DEF CountsExact, EndsUnique
<1>10. \A o \in Procs : ~(pc[o] = "pipeclose" /\ pp[o] = q /\ wr[o] = w)
  BY <1>5, <1>6 DEF CountsExact, EndsUnique
<1>11. PipeOpenExact'
  <2>1. ASSUME NEW r \in Pages, NEW v \in BOOLEAN
        PROVE  EndInUse(r, v)' <=> EndInUse(r, v)
    <3>1. CASE r = q /\ v = w
      <4>1. EndInUse(r, v)
        BY <1>3, <1>5, <1>6, <3>1 DEF EndInUse
      <4>2. EndInUse(r, v)'
        BY <1>7, <3>1 DEF EndInUse
      <4> QED
        BY <4>1, <4>2
    <3>2. CASE ~(r = q /\ v = w)
      <4>1. EndOf(v) # "none" /\ ~(filePipe[f] = r /\ type[f] = EndOf(v))
        BY <1>5, <1>6, <3>2 DEF EndOf
      <4>2. \A g \in Slots : ref'[g] > 0 /\ filePipe'[g] = r /\ type'[g] = EndOf(v)
                               <=> ref[g] > 0 /\ filePipe[g] = r /\ type[g] = EndOf(v)
        BY <1>7, <4>1
      <4>3. \A o \in Procs : pc'[o] = "pipeclose" /\ pp'[o] = r /\ wr'[o] = v
                               <=> pc[o] = "pipeclose" /\ pp[o] = r /\ wr[o] = v
        BY <1>3, <1>7, <3>2
      <4> QED
        BY <4>2, <4>3 DEF EndInUse
    <3> QED
      BY <3>1, <3>2
  <2>2. allocated[q]
    BY <1>3, <1>5, FileOpen
  <2>3. ASSUME NEW r \in Pages, NEW o \in Procs, pp'[o] = r
        PROVE  allocated[r]
    <3>1. CASE o = p
      BY <1>7, <2>2, <2>3, <3>1
    <3>2. CASE o # p
      <4>1. pp[o] = r
        BY <1>7, <2>3, <3>2
      <4> QED
        BY <4>1 DEF CountsExact, PipeOpenExact
    <3> QED
      BY <3>1, <3>2
  <2> QED
    BY <1>3, <2>1, <2>3 DEF CountsExact, PipeOpenExact
<1>12. EndsUnique'
  <2>1. \A g \in Slots : /\ type'[g] = "none" <=> filePipe'[g] = None
                         /\ ref'[g] = 0 => type'[g] = "none"
    BY <1>7 DEF CountsExact, EndsUnique
  <2>2. \A g, h \in Slots :
          type'[g] # "none" /\ type'[g] = type'[h] /\ filePipe'[g] = filePipe'[h] => g = h
    BY <1>7 DEF CountsExact, EndsUnique
  <2>3. ASSUME NEW o \in Procs, pc'[o] = "pipeclose"
        PROVE  /\ \A x \in Slots : ~(filePipe'[x] = pp'[o] /\ type'[x] = EndOf(wr'[o]))
               /\ \A r \in Procs :
                    pc'[r] = "pipeclose" /\ pp'[r] = pp'[o] /\ wr'[r] = wr'[o] => r = o
    <3>1. EndOf(wr'[o]) # "none"
      BY DEF EndOf
    <3>2. CASE o = p
      <4>1. \A x \in Slots : ~(filePipe'[x] = pp'[o] /\ type'[x] = EndOf(wr'[o]))
        BY <1>7, <1>9, <3>1, <3>2
      <4>2. \A r \in Procs : pc'[r] = "pipeclose" /\ pp'[r] = pp'[o] /\ wr'[r] = wr'[o] => r = o
        BY <1>7, <1>10, <3>2
      <4> QED
        BY <4>1, <4>2
    <3>3. CASE o # p
      <4>1. pc[o] = "pipeclose" /\ pp'[o] = pp[o] /\ wr'[o] = wr[o]
        BY <1>7, <2>3, <3>3
      <4>2. \A x \in Slots : ~(filePipe[x] = pp[o] /\ type[x] = EndOf(wr[o]))
        BY <4>1 DEF CountsExact, EndsUnique
      <4>3. \A x \in Slots : ~(filePipe'[x] = pp'[o] /\ type'[x] = EndOf(wr'[o]))
        BY <1>7, <3>1, <4>1, <4>2
      <4>4. \A r \in Procs : pc[r] = "pipeclose" /\ pp[r] = pp[o] /\ wr[r] = wr[o] => r = o
        BY <4>1 DEF CountsExact, EndsUnique
      <4>5. \A r \in Procs : pc'[r] = "pipeclose" /\ pp'[r] = pp'[o] /\ wr'[r] = wr'[o] => r = o
        BY <1>7, <1>10, <3>3, <4>1, <4>4
      <4> QED
        BY <4>3, <4>5
    <3> QED
      BY <3>2, <3>3
  <2> QED
    BY <2>1, <2>2, <2>3 DEF EndsUnique
<1>13. CallsRight'
  <2>1. \A o \in Procs : \A e \in Fds : ofile[o][e] # f
    BY <1>1, <1>3, RefFacts
  <2>2. ASSUME NEW o \in Procs, o # p, NEW end, HasEnd(o, end)
        PROVE  HasEnd(o, end)'
    <3>1. PICK e \in Fds : /\ ofile[o][e] # None /\ type[ofile[o][e]] = end
                            /\ filePipe[ofile[o][e]] = pp[o]
      BY <2>2 DEF HasEnd
    <3>2. ofile[o][e] \in Slots /\ ofile[o][e] # f /\ ofile'[o][e] = ofile[o][e] /\ pp'[o] = pp[o]
      BY <1>1, <1>3, <1>7, <2>1, <2>2, <3>1 DEF TypeOK
    <3>3. /\ ofile'[o][e] # None /\ type'[ofile'[o][e]] = end
          /\ filePipe'[ofile'[o][e]] = pp'[o]
      BY <1>7, <3>1, <3>2
    <3> QED
      BY <3>3 DEF HasEnd
  <2>3. q # None
    BY Constants
  <2> QED
    BY <1>3, <1>4, <1>7, <2>2, <2>3 DEF CountsExact, CallsRight, Closing, InPipe, Reading, Writing
<1>14. NewFilesOwned'
  BY <1>2, <1>7, OthersNew
<1> QED
  BY <1>2, <1>8, <1>11, <1>12, <1>13, <1>14 DEF CountsExact

\* What pipeclose() does, apart from the bytes of the pipe.
LEMMA PipeCloseFacts ==
  ASSUME CountsExact, NEW p \in Procs, PipeClose(p)
  PROVE  \E q \in Pages, w \in BOOLEAN :
           /\ q = pp[p] /\ w = wr[p] /\ pc[p] = "pipeclose" /\ lock[q] = None
           /\ pp' = [pp EXCEPT ![p] = None] /\ wr' = [wr EXCEPT ![p] = FALSE]
           /\ UNCHANGED <<ref, type, filePipe, lock, ofile, killed, f0, f1, left, exiting, panicked>>
           /\ readopen'[q] <=> readopen[q] /\ w
           /\ writeopen'[q] <=> writeopen[q] /\ ~w
           /\ allocated'[q] <=> (IF w THEN readopen[q] ELSE writeopen[q])
           /\ \A r \in Pages : r # q => /\ readopen'[r] <=> readopen[r]
                                        /\ writeopen'[r] <=> writeopen[r]
                                        /\ allocated'[r] <=> allocated[r]
           /\ pc'[p] = AfterClose(p, f1[p])
           /\ \A o \in Procs : o # p =>
                \/ pc'[o] = pc[o] /\ ~(w /\ pc[o] = "readsleep" /\ pp[o] = q)
                                  /\ ~(~w /\ pc[o] = "writesleep" /\ pp[o] = q)
                \/ pc[o] = "readsleep" /\ pc'[o] = "read" /\ pp[o] = q /\ w
                \/ pc[o] = "writesleep" /\ pc'[o] = "write" /\ pp[o] = q /\ ~w
           /\ TypeOK'
<1>1. TypeOK /\ pc[p] = "pipeclose" /\ lock[pp[p]] = None
  BY DEF CountsExact, PipeClose, At
<1>2. PICK q \in Pages : q = pp[p]
  BY <1>1 DEF CountsExact, CallsRight, TypeOK
<1>3. PICK w \in BOOLEAN : w = wr[p]
  BY <1>1 DEF TypeOK
<1>4. PICK last \in BOOLEAN : last = IF w THEN ~readopen[q] ELSE ~writeopen[q]
  OBVIOUS
<1>5. /\ writeopen' = [writeopen EXCEPT ![q] = @ /\ ~w]
      /\ readopen' = [readopen EXCEPT ![q] = @ /\ w]
      /\ IF w THEN Wake(p, AfterClose(p, f1[p]), q, "readsleep", "read")
              ELSE Wake(p, AfterClose(p, f1[p]), q, "writesleep", "write")
      /\ Freed(q, last)
      /\ pp' = [pp EXCEPT ![p] = None] /\ wr' = [wr EXCEPT ![p] = FALSE]
      /\ UNCHANGED <<ref, type, filePipe, lock, ofile, killed, f0, f1, left, exiting, panicked>>
  BY <1>2, <1>3, <1>4, Zenon DEF PipeClose, ftable
<1>6. /\ readopen'[q] <=> readopen[q] /\ w
      /\ writeopen'[q] <=> writeopen[q] /\ ~w
      /\ \A r \in Pages : r # q => /\ readopen'[r] <=> readopen[r]
                                   /\ writeopen'[r] <=> writeopen[r]
      /\ readopen' \in [Pages -> BOOLEAN] /\ writeopen' \in [Pages -> BOOLEAN]
  BY <1>1, <1>5 DEF TypeOK
<1>7. /\ allocated'[q] <=> ~last
      /\ \A r \in Pages : r # q => allocated'[r] = allocated[r]
      /\ allocated' \in [Pages -> BOOLEAN]
  BY <1>1, <1>5 DEF TypeOK, Freed
<1>8. AfterClose(p, f1[p]) \in {"closing", "exit", "user"}
  BY DEF AfterClose
<1>9. /\ pc'[p] = AfterClose(p, f1[p])
      /\ \A o \in Procs : o # p =>
           \/ pc'[o] = pc[o] /\ ~(w /\ pc[o] = "readsleep" /\ pp[o] = q)
                             /\ ~(~w /\ pc[o] = "writesleep" /\ pp[o] = q)
           \/ pc[o] = "readsleep" /\ pc'[o] = "read" /\ pp[o] = q /\ w
           \/ pc[o] = "writesleep" /\ pc'[o] = "write" /\ pp[o] = q /\ ~w
      /\ pc' \in [Procs -> Points]
  <2>1. CASE w
    BY <1>1, <1>5, <1>8, <2>1 DEF TypeOK, Wake, Points, InPipe
  <2>2. CASE ~w
    BY <1>1, <1>5, <1>8, <2>2 DEF TypeOK, Wake, Points, InPipe
  <2> QED
    BY <2>1, <2>2
<1>10. /\ nread' \in [Pages -> 0 .. WORD - 1] /\ nwrite' \in [Pages -> 0 .. WORD - 1]
       /\ data' \in [Pages -> [0 .. PIPESIZE - 1 -> 0 .. WORD - 1]]
  <2>1. 0 \in 0 .. WORD - 1
    BY PipeSizes
  <2>2. /\ nread \in [Pages -> 0 .. WORD - 1] /\ nwrite \in [Pages -> 0 .. WORD - 1]
        /\ data \in [Pages -> [0 .. PIPESIZE - 1 -> 0 .. WORD - 1]]
    BY <1>1 DEF TypeOK
  <2>3. [i \in 0 .. PIPESIZE - 1 |-> 0] \in [0 .. PIPESIZE - 1 -> 0 .. WORD - 1]
    BY <2>1
  <2>4. /\ nread' = [nread EXCEPT ![q] = IF last THEN 0 ELSE @]
        /\ nwrite' = [nwrite EXCEPT ![q] = IF last THEN 0 ELSE @]
        /\ data' = [data EXCEPT ![q] = IF last THEN [i \in 0 .. PIPESIZE - 1 |-> 0] ELSE @]
    BY <1>5 DEF Freed
  <2> QED
    BY <2>1, <2>2, <2>3, <2>4
<1>11. TypeOK'
  <2>1. pp' \in [Procs -> Pages \cup {None}] /\ wr' \in [Procs -> BOOLEAN]
    BY <1>1, <1>5 DEF TypeOK
  <2> QED
    BY <1>1, <1>5, <1>6, <1>7, <1>9, <1>10, <2>1 DEF TypeOK
<1>12. allocated'[q] <=> (IF w THEN readopen[q] ELSE writeopen[q])
  BY <1>1, <1>4, <1>7 DEF TypeOK
<1> QED
  BY <1>1, <1>2, <1>3, <1>5, <1>6, <1>7, <1>9, <1>11, <1>12

\* pipeclose() closes the end that nobody refers to any more; the other end keeps the page.
LEMMA PipeCloseCounts ==
  ASSUME CountsExact, NEW p \in Procs, PipeClose(p)
  PROVE  CountsExact'
<1>1. TypeOK
  BY DEF CountsExact
<1>2. PICK q \in Pages, w \in BOOLEAN :
           /\ q = pp[p] /\ w = wr[p] /\ pc[p] = "pipeclose"
           /\ pp' = [pp EXCEPT ![p] = None] /\ wr' = [wr EXCEPT ![p] = FALSE]
           /\ UNCHANGED <<ref, type, filePipe, ofile, f0, f1, panicked>>
           /\ readopen'[q] <=> readopen[q] /\ w
           /\ writeopen'[q] <=> writeopen[q] /\ ~w
           /\ allocated'[q] <=> (IF w THEN readopen[q] ELSE writeopen[q])
           /\ \A r \in Pages : r # q => /\ readopen'[r] <=> readopen[r]
                                        /\ writeopen'[r] <=> writeopen[r]
                                        /\ allocated'[r] <=> allocated[r]
           /\ pc'[p] = AfterClose(p, f1[p])
           /\ \A o \in Procs : o # p =>
                \/ pc'[o] = pc[o]
                \/ pc[o] = "readsleep" /\ pc'[o] = "read"
                \/ pc[o] = "writesleep" /\ pc'[o] = "write"
           /\ TypeOK'
  <2> HIDE DEF AfterClose, CountsExact, PipeClose, TypeOK
  <2> QED
    BY PipeCloseFacts
<1>3. /\ pp'[p] = None /\ \A o \in Procs : o # p => pp'[o] = pp[o] /\ wr'[o] = wr[o]
      /\ pc'[p] \in {"closing", "exit", "user"} /\ (pc'[p] = "closing" <=> f1[p] # None)
      /\ \A o \in Procs : pc'[o] = "pipeclose" <=> pc[o] = "pipeclose" /\ o # p
  <2>1. pp'[p] = None /\ \A o \in Procs : o # p => pp'[o] = pp[o] /\ wr'[o] = wr[o]
    BY <1>1, <1>2 DEF TypeOK
  <2>2. pc'[p] \in {"closing", "exit", "user"} /\ (pc'[p] = "closing" <=> f1[p] # None)
    BY <1>2 DEF AfterClose
  <2>3. ASSUME NEW o \in Procs
        PROVE  pc'[o] = "pipeclose" <=> pc[o] = "pipeclose" /\ o # p
    BY <1>2, <2>2
  <2> QED
    BY <2>1, <2>2, <2>3
<1>4. f0[p] = None
  BY <1>2 DEF CountsExact, CallsRight
<1>5. /\ \A g \in Slots : ~(filePipe[g] = q /\ type[g] = EndOf(w))
      /\ \A o \in Procs : pc[o] = "pipeclose" /\ pp[o] = q /\ wr[o] = w => o = p
  BY <1>2 DEF CountsExact, EndsUnique
<1>6. RefExact'
  BY <1>2 DEF CountsExact, RefExact
<1>7. ~EndInUse(q, w)'
  BY <1>2, <1>3, <1>5 DEF EndInUse
<1>8. ASSUME NEW r \in Pages, NEW v \in BOOLEAN, ~(r = q /\ v = w)
      PROVE  EndInUse(r, v)' <=> EndInUse(r, v)
  <2>1. \A o \in Procs : pc'[o] = "pipeclose" /\ pp'[o] = r /\ wr'[o] = v
                           <=> pc[o] = "pipeclose" /\ pp[o] = r /\ wr[o] = v
    BY <1>2, <1>3, <1>8
  <2> QED
    BY <1>2, <2>1 DEF EndInUse
<1>9. \A r \in Pages : /\ readopen[r] <=> EndInUse(r, FALSE)
                       /\ writeopen[r] <=> EndInUse(r, TRUE)
                       /\ allocated[r] <=> readopen[r] \/ writeopen[r]
                       /\ (\E o \in Procs : pp[o] = r) => allocated[r]
  BY DEF CountsExact, PipeOpenExact
<1>10. \A r \in Pages : /\ readopen'[r] <=> EndInUse(r, FALSE)'
                        /\ writeopen'[r] <=> EndInUse(r, TRUE)'
                        /\ allocated'[r] <=> readopen'[r] \/ writeopen'[r]
  <2> SUFFICES ASSUME NEW r \in Pages
               PROVE  /\ readopen'[r] <=> EndInUse(r, FALSE)'
                      /\ writeopen'[r] <=> EndInUse(r, TRUE)'
                      /\ allocated'[r] <=> readopen'[r] \/ writeopen'[r]
    OBVIOUS
  <2>1. CASE r # q
    BY <1>2, <1>8, <1>9, <2>1
  <2>2. CASE r = q /\ w
    BY <1>2, <1>7, <1>8, <1>9, <2>2
  <2>3. CASE r = q /\ ~w
    BY <1>2, <1>7, <1>8, <1>9, <2>3
  <2> QED
    BY <2>1, <2>2, <2>3
<1>11. ASSUME NEW r \in Pages, NEW o \in Procs, pp'[o] = r
       PROVE  allocated'[r]
  <2>1. o # p /\ pp[o] = r
    BY <1>3, <1>11, Constants
  <2>2. CASE r # q
    BY <1>2, <1>9, <2>1, <2>2
  <2>3. CASE r = q
    <3>1. pc[o] \in InPipe \cup {"pipeclose"}
      BY <2>1, Constants DEF CountsExact, CallsRight
    <3>2. CASE pc[o] = "pipeclose"
      <4>1. wr[o] # w /\ wr[o] \in BOOLEAN
        BY <1>1, <1>5, <2>1, <2>3, <3>2 DEF TypeOK
      <4>2. \E v \in BOOLEAN : v # w /\ EndInUse(q, v)
        BY <2>1, <2>3, <3>2, <4>1 DEF EndInUse
      <4>3. \E v \in BOOLEAN : EndInUse(q, v)'
        BY <1>8, <4>2
      <4> QED
        BY <1>10, <2>3, <4>3
    <3>3. CASE pc[o] \in InPipe
      <4>1. PICK fd \in Fds : /\ ofile[o][fd] \in Slots /\ type[ofile[o][fd]] \in {"reader", "writer"}
                              /\ filePipe[ofile[o][fd]] = q
        BY <1>1, <2>1, <2>3, <3>3 DEF CountsExact, CallsRight, HasEnd, InPipe, Reading, Writing, TypeOK
      <4>2. ref[ofile[o][fd]] > 0
        BY <4>1, FileOpen
      <4>3. PICK v \in BOOLEAN : type[ofile[o][fd]] = EndOf(v)
        <5>1. EndOf(TRUE) = "writer" /\ EndOf(FALSE) = "reader"
          BY DEF EndOf
        <5> QED
          BY <4>1, <5>1
      <4>4. v # w
        BY <1>5, <4>1, <4>3
      <4>5. EndInUse(q, v)
        BY <4>1, <4>2, <4>3 DEF EndInUse
      <4>6. EndInUse(q, v)'
        BY <1>8, <4>4, <4>5
      <4> QED
        BY <1>10, <2>3, <4>6
    <3> QED
      BY <3>1, <3>2, <3>3
  <2> QED
    BY <2>2, <2>3
<1>12. PipeOpenExact'
  BY <1>10, <1>11 DEF PipeOpenExact
<1>13. EndsUnique'
  <2>1. ASSUME NEW o \in Procs, pc'[o] = "pipeclose"
        PROVE  /\ \A x \in Slots : ~(filePipe[x] = pp'[o] /\ type[x] = EndOf(wr'[o]))
               /\ \A r \in Procs :
                    pc'[r] = "pipeclose" /\ pp'[r] = pp'[o] /\ wr'[r] = wr'[o] => r = o
    <3>1. pc[o] = "pipeclose" /\ pp'[o] = pp[o] /\ wr'[o] = wr[o]
      BY <1>3, <2>1
    <3>2. /\ \A x \in Slots : ~(filePipe[x] = pp[o] /\ type[x] = EndOf(wr[o]))
          /\ \A r \in Procs : pc[r] = "pipeclose" /\ pp[r] = pp[o] /\ wr[r] = wr[o] => r = o
      BY <3>1 DEF CountsExact, EndsUnique
    <3> QED
      BY <1>3, <3>1, <3>2
  <2> QED
    BY <1>2, <2>1 DEF CountsExact, EndsUnique
<1>14. CallsRight'
  <2>1. \A o \in Procs : o # p => \A end : HasEnd(o, end)' <=> HasEnd(o, end)
    BY <1>2, <1>3 DEF HasEnd
  <2> QED
    BY <1>2, <1>3, <1>4, <2>1 DEF CountsExact, CallsRight, Closing, InPipe, Reading, Writing
<1>15. NewFilesOwned'
  <2>1. \A o \in Procs : pc'[o] \in {"allocwrite", "setup"} => pc[o] \in {"allocwrite", "setup"}
    BY <1>2, <1>3
  <2> QED
    BY <1>2, <2>1 DEF CountsExact, NewFilesOwned
<1> QED
  BY <1>2, <1>6, <1>12, <1>13, <1>14, <1>15 DEF CountsExact

-----------------------------------------------------------------------------
(* Files, ends and pages are counted exactly *)

LEMMA CountsInit == Init => CountsExact
<1> SUFFICES ASSUME Init
             PROVE  CountsExact
  OBVIOUS
<1> USE DEF Init
<1>1. TypeOK
  <2>1. 0 \in 0 .. WORD - 1
    BY PipeSizes
  <2> QED
    BY <2>1 DEF TypeOK, Points
<1>2. RefExact
  <2>1. ASSUME NEW f \in Slots
        PROVE  ref[f] = Cardinality(FdUsers(ofile, f)) + Cardinality(Users(f0, f))
                          + Cardinality(Users(f1, f))
    <3>1. FdUsers(ofile, f) = {} /\ Users(f0, f) = {} /\ Users(f1, f) = {}
      BY Constants DEF FdUsers, Users
    <3>2. /\ Cardinality(FdUsers(ofile, f)) = 0 /\ Cardinality(Users(f0, f)) = 0
          /\ Cardinality(Users(f1, f)) = 0
      BY <3>1, FS_EmptySet
    <3>3. ref[f] = 0
      OBVIOUS
    <3> HIDE DEF Init
    <3> QED
      BY <3>2, <3>3
  <2> QED
    BY <2>1 DEF RefExact, FdUsers, Users
<1>3. PipeOpenExact
  BY Constants DEF PipeOpenExact, EndInUse
<1>4. EndsUnique
  BY DEF EndsUnique
<1>5. CallsRight
  BY DEF CallsRight, InPipe, Reading, Writing
<1>6. NewFilesOwned
  BY DEF NewFilesOwned
<1> QED
  BY <1>1, <1>2, <1>3, <1>4, <1>5, <1>6 DEF CountsExact

LEMMA CountsStutter ==
  ASSUME CountsExact, UNCHANGED vars
  PROVE  CountsExact'
<1> USE DEF vars, ftable, pipes, locals
<1>1. TypeOK'
  BY DEF CountsExact, TypeOK
<1>2. RefExact'
  BY DEF CountsExact, RefExact
<1>3. PipeOpenExact'
  <2>1. \A q \in Pages, w \in BOOLEAN : EndInUse(q, w)' <=> EndInUse(q, w)
    BY DEF EndInUse
  <2> QED
    BY <2>1 DEF CountsExact, PipeOpenExact
<1>4. EndsUnique'
  BY DEF CountsExact, EndsUnique
<1>5. CallsRight'
  BY DEF CountsExact, CallsRight, HasEnd, Closing
<1>6. NewFilesOwned'
  BY DEF CountsExact, NewFilesOwned
<1> QED
  BY <1>1, <1>2, <1>3, <1>4, <1>5, <1>6 DEF CountsExact

\* The steps of Next, one by one.
LEMMA Steps ==
  ASSUME NEW p \in Procs, Kernel(p) \/ Call(p) \/ Kill(p)
  PROVE  \/ PipeAllocRead(p) \/ PipeAllocWrite(p) \/ PipeNoPage(p)
         \/ \E q \in Pages : PipeSetup(p, q)
         \/ \E fd \in Fds : Dup(p, fd) \/ SysClose(p, fd)
         \/ \E fd \in Fds, n \in Sizes : SysRead(p, fd, n) \/ SysWrite(p, fd, n)
         \/ \E child \in Procs : Fork(p, child)
         \/ Exit(p) \/ FileClose(p) \/ PipeClose(p)
         \/ ReadEmpty(p) \/ ReadCopy(p) \/ PipeWrite(p) \/ Sleep(p) \/ Kill(p)
  BY Zenon DEF Kernel, Call

LEMMA CountsNext ==
  ASSUME CountsExact, [Next]_vars
  PROVE  CountsExact'
<1>1. CASE UNCHANGED vars
  BY <1>1, CountsStutter
<1>2. ASSUME NEW p \in Procs, Kernel(p) \/ Call(p) \/ Kill(p)
      PROVE  CountsExact'
  <2>1. CASE PipeAllocRead(p)
    BY <2>1, AllocReadCounts
  <2>2. CASE PipeAllocWrite(p) \/ PipeNoPage(p)
    BY <2>2, AllocWriteCounts, GiveUpCounts
  <2>3. CASE \E q \in Pages : PipeSetup(p, q)
    BY <2>3, PipeSetupCounts
  <2>4. CASE \E fd \in Fds : Dup(p, fd) \/ SysClose(p, fd)
    BY <2>4, DupCounts, SysCloseCounts
  <2>5. CASE \E fd \in Fds, n \in Sizes : SysRead(p, fd, n) \/ SysWrite(p, fd, n)
    BY <2>5, SysReadCounts
  <2>6. CASE \E child \in Procs : Fork(p, child)
    BY <2>6, ForkCounts
  <2>7. CASE Exit(p)
    BY <2>7, ExitCounts
  <2>8. CASE FileClose(p)
    BY <2>8, FileCloseKeeps, FileCloseEnd
  <2>9. CASE PipeClose(p)
    BY <2>9, PipeCloseCounts
  <2>10. CASE ReadEmpty(p)
    BY <2>10, ReadEmptyCounts
  <2>11. CASE ReadCopy(p)
    BY <2>11, ReadCopyCounts
  <2>12. CASE PipeWrite(p)
    BY <2>12, PipeWriteCounts
  <2>13. CASE Sleep(p)
    BY <2>13, SleepCounts
  <2>14. CASE Kill(p)
    BY <2>14, KillCounts
  <2> QED
    BY <1>2, <2>1, <2>2, <2>3, <2>4, <2>5, <2>6, <2>7, <2>8, <2>9, <2>10, <2>11, <2>12, <2>13,
       <2>14, Steps
<1> QED
  BY <1>1, <1>2 DEF Next

\* The reference counts of files are the numbers of descriptors and calls that refer to them,
\* neither filedup() nor fileclose() panics, and the ends and the page of a pipe are in use
\* exactly while a file or a call refers to them (file.c, pipe.c).
THEOREM Counts == Spec => []CountsExact
  BY CountsInit, CountsNext, PTL DEF Spec

-----------------------------------------------------------------------------
(* The bytes of a pipe *)

\* One pipe holds the bytes of the stream that are not read.
StreamOf(q) ==
  /\ Unread(q) <= PIPESIZE
  /\ \A k \in 0 .. Unread(q) - 1 :
       data[q][((nread[q] + k) % WORD) % PIPESIZE] = (nread[q] + k) % WORD

\* Pipes whose counters and bytes do not change, and new ones.
LEMMA StreamSame ==
  ASSUME NEW q, StreamOf(q), nread'[q] = nread[q], nwrite'[q] = nwrite[q], data'[q] = data[q]
  PROVE  StreamOf(q)'
  BY DEF StreamOf, Unread

LEMMA StreamKept ==
  ASSUME StreamIntact, UNCHANGED <<allocated, nread, nwrite, data>>
  PROVE  StreamIntact'
  BY DEF StreamIntact, Unread

LEMMA StreamSetup ==
  ASSUME CountsExact, StreamIntact, NEW p \in Procs, NEW q \in Pages, PipeSetup(p, q)
  PROVE  StreamIntact'
<1>1. TypeOK
  BY DEF CountsExact
<1>2. /\ allocated' = [allocated EXCEPT ![q] = TRUE] /\ data' = data
      /\ nread' = [nread EXCEPT ![q] = 0] /\ nwrite' = [nwrite EXCEPT ![q] = 0]
  BY DEF PipeSetup
<1>3. /\ nread'[q] = 0 /\ nwrite'[q] = 0
      /\ \A r \in Pages : r # q => /\ allocated'[r] = allocated[r] /\ nread'[r] = nread[r]
                                   /\ nwrite'[r] = nwrite[r] /\ data'[r] = data[r]
  BY <1>1, <1>2 DEF TypeOK
<1>4. StreamOf(q)'
  <2>1. PICK z \in Int : z = 0
    OBVIOUS
  <2>2. z % WORD = 0
    BY <2>1, PipeSizes, SmallMod
  <2>3. (nwrite'[q] - nread'[q]) % WORD = 0
    BY <1>3, <2>1, <2>2
  <2>4. Unread(q)' = 0
    BY <2>3 DEF Unread
  <2> QED
    BY <2>4, PipeSizes DEF StreamOf
<1>5. \A r \in Pages : r # q /\ allocated'[r] => StreamOf(r)'
  <2> SUFFICES ASSUME NEW r \in Pages, r # q, allocated'[r]
               PROVE  StreamOf(r)'
    OBVIOUS
  <2>1. StreamOf(r)
    BY <1>3 DEF StreamIntact, StreamOf
  <2> QED
    BY <1>3, <2>1, StreamSame
<1> QED
  BY <1>4, <1>5 DEF StreamIntact, StreamOf

LEMMA StreamClose ==
  ASSUME CountsExact, StreamIntact, NEW p \in Procs, PipeClose(p)
  PROVE  StreamIntact'
<1>1. TypeOK /\ pc[p] = "pipeclose"
  BY DEF CountsExact, PipeClose, At
<1>2. PICK q \in Pages : q = pp[p]
  BY <1>1 DEF CountsExact, CallsRight, TypeOK
<1>3. PICK last \in BOOLEAN : Freed(q, last)
  <2>1. PICK l \in BOOLEAN : l = IF wr[p] THEN ~readopen[q] ELSE ~writeopen[q]
    OBVIOUS
  <2>2. Freed(q, l)
    BY <1>2, <2>1, Zenon DEF PipeClose
  <2> QED
    BY <2>2
<1>4. ASSUME NEW r \in Pages, allocated'[r]
      PROVE  allocated[r] /\ nread'[r] = nread[r] /\ nwrite'[r] = nwrite[r] /\ data'[r] = data[r]
  <2>1. CASE r # q
    BY <1>1, <1>3, <1>4, <2>1 DEF Freed, TypeOK
  <2>2. CASE r = q
    <3>1. ~last
      BY <1>1, <1>3, <1>4, <2>2 DEF Freed, TypeOK
    <3>2. allocated[q]
      BY <1>1, <1>2 DEF CountsExact, PipeOpenExact
    <3> QED
      BY <1>1, <1>3, <2>2, <3>1, <3>2 DEF Freed, TypeOK
  <2> QED
    BY <2>1, <2>2
<1>5. ASSUME NEW r \in Pages, allocated'[r]
      PROVE  StreamOf(r)'
  <2>1. StreamOf(r)
    BY <1>4, <1>5 DEF StreamIntact, StreamOf
  <2> QED
    BY <1>4, <1>5, <2>1, StreamSame
<1> QED
  BY <1>5 DEF StreamIntact, StreamOf

\* A step at one pipe.
LEMMA StreamAt ==
  ASSUME StreamIntact, NEW q \in Pages, StreamOf(q)', allocated' = allocated,
         \A r \in Pages : r # q => nread'[r] = nread[r] /\ nwrite'[r] = nwrite[r] /\ data'[r] = data[r]
  PROVE  StreamIntact'
<1>1. ASSUME NEW r \in Pages, allocated'[r], r # q
      PROVE  StreamOf(r)'
  <2>1. StreamOf(r)
    BY <1>1 DEF StreamIntact, StreamOf
  <2> QED
    BY <1>1, <2>1, StreamSame
<1> QED
  BY <1>1 DEF StreamIntact, StreamOf

LEMMA StreamRead ==
  ASSUME CountsExact, StreamIntact, NEW p \in Procs, ReadCopy(p)
  PROVE  StreamIntact'
<1>1. TypeOK /\ pc[p] = "read" /\ pp[p] \in Pages /\ allocated[pp[p]]
  BY InPipeFacts DEF CountsExact, InPipe, ReadCopy, At
<1>2. PICK q \in Pages : q = pp[p]
  BY <1>1
<1>3. PICK n \in 0 .. WORD - 1 : n = Readable(p) /\ n <= Unread(q)
  BY <1>1, <1>2, Moved
<1>4. PICK a \in 0 .. WORD - 1, b \in 0 .. WORD - 1 : a = nread[q] /\ b = nwrite[q]
  BY <1>1 DEF TypeOK
<1>5. PICK u \in 0 .. WORD - 1 : u = Unread(q) /\ u = (b - a) % WORD
  BY <1>4, DifferenceWraps DEF Unread
<1>6. nread' = [nread EXCEPT ![q] = (@ + n) % WORD] /\ nwrite' = nwrite /\ data' = data
      /\ allocated' = allocated
  BY <1>2, <1>3 DEF ReadCopy
<1>7. nread'[q] = (a + n) % WORD /\ nwrite'[q] = b /\ data'[q] = data[q]
      /\ \A r \in Pages : r # q => nread'[r] = nread[r] /\ nwrite'[r] = nwrite[r] /\ data'[r] = data[r]
  BY <1>1, <1>4, <1>6 DEF TypeOK
<1>8. /\ (b - ((a + n) % WORD)) % WORD = ((b - a) % WORD) - n
      /\ \A k \in Nat : n + k < WORD => (((a + n) % WORD) + k) % WORD = (a + (n + k)) % WORD
  <2>1. n <= (b - a) % WORD
    BY <1>3, <1>5
  <2> QED
    BY <2>1, CountRead
<1>9. Unread(q)' = u - n
  <2>1. (nwrite'[q] - nread'[q]) % WORD = u - n
    BY <1>5, <1>7, <1>8
  <2> QED
    BY <2>1 DEF Unread
<1>10. n <= u /\ u <= PIPESIZE
  BY <1>1, <1>2, <1>3, <1>5 DEF StreamIntact
<1>11. ASSUME NEW k \in 0 .. (u - n) - 1
       PROVE  data'[q][((nread'[q] + k) % WORD) % PIPESIZE] = (nread'[q] + k) % WORD
  <2>1. k \in Nat /\ n + k < WORD /\ n + k \in 0 .. u - 1
    BY <1>10, <1>11, PipeSizes
  <2>2. (nread'[q] + k) % WORD = (a + (n + k)) % WORD
    BY <1>7, <1>8, <2>1
  <2>3. data[q][((a + (n + k)) % WORD) % PIPESIZE] = (a + (n + k)) % WORD
    <3>1. PICK j \in 0 .. Unread(q) - 1 : j = n + k
      BY <1>5, <2>1
    <3>2. data[q][((a + j) % WORD) % PIPESIZE] = (a + j) % WORD
      BY <1>1, <1>2, <1>4, <3>1 DEF StreamIntact
    <3> QED
      BY <3>1, <3>2
  <2> QED
    BY <1>7, <2>2, <2>3
<1>12. StreamOf(q)'
  <2>1. u - n <= PIPESIZE
    BY <1>10, PipeSizes
  <2> QED
    BY <1>9, <1>11, <2>1 DEF StreamOf
<1> QED
  BY <1>6, <1>7, <1>12, StreamAt

\* pipewrite() does not fill a pipe beyond its size.
LEMMA WriteCounted ==
  ASSUME CountsExact, StreamIntact, NEW p \in Procs, PipeWrite(p)
  PROVE  \E q \in Pages, n \in Nat :
           /\ q = pp[p] /\ n = Writable(p) /\ Unread(q) \in Nat /\ Unread(q) + n <= PIPESIZE
           /\ Unread(q)' = Unread(q) + n
           /\ \A r \in Pages : r # q => Unread(r)' = Unread(r)
<1>1. TypeOK /\ pc[p] = "write" /\ pp[p] \in Pages /\ allocated[pp[p]]
  BY InPipeFacts DEF CountsExact, InPipe, PipeWrite, At
<1>2. PICK q \in Pages : q = pp[p]
  BY <1>1
<1>3. PICK a \in 0 .. WORD - 1, b \in 0 .. WORD - 1 : a = nread[q] /\ b = nwrite[q]
  BY <1>1 DEF TypeOK
<1>4. PICK u \in 0 .. WORD - 1 : u = Unread(q) /\ u = (b - a) % WORD
  BY <1>3, DifferenceWraps DEF Unread
<1>5. u <= PIPESIZE
  BY <1>1, <1>2, <1>4 DEF StreamIntact
<1>6. PICK n \in Nat : n = Writable(p) /\ u + n <= PIPESIZE
  <2>1. /\ Writable(p) \in Int /\ Writable(p) <= PIPESIZE - u
        /\ Writable(p) = left[p] \/ Writable(p) = PIPESIZE - u
    BY <1>1, <1>2, <1>4, Moved
  <2>2. left[p] \in Nat
    BY <1>1 DEF TypeOK
  <2>3. Writable(p) \in Nat /\ u + Writable(p) <= PIPESIZE
    BY <1>5, <2>1, <2>2, PipeSizes
  <2> QED
    BY <2>3
<1>7. nwrite' = [nwrite EXCEPT ![q] = (@ + n) % WORD] /\ nread' = nread
  BY <1>2, <1>6, Zenon DEF PipeWrite
<1>8. /\ nread'[q] = a /\ nwrite'[q] = (b + n) % WORD
      /\ \A r \in Pages : r # q => nread'[r] = nread[r] /\ nwrite'[r] = nwrite[r]
  BY <1>1, <1>2, <1>3, <1>7 DEF TypeOK
<1>9. Unread(q)' = u + n
  <2>1. ((b - a) % WORD) + n < WORD
    BY <1>4, <1>6, PipeSizes
  <2>2. (((b + n) % WORD) - a) % WORD = ((b - a) % WORD) + n
    BY <2>1, CountWritten
  <2>3. (nwrite'[q] - nread'[q]) % WORD = u + n
    BY <1>4, <1>8, <2>2
  <2> QED
    BY <2>3 DEF Unread
<1>10. \A r \in Pages : r # q => Unread(r)' = Unread(r)
  BY <1>8 DEF Unread
<1>11. Unread(q) \in Nat /\ Unread(q) + n <= PIPESIZE
  BY <1>4, <1>6
<1>12. Unread(q)' = Unread(q) + n
  BY <1>4, <1>9
<1> QED
  BY <1>2, <1>6, <1>10, <1>11, <1>12

LEMMA StreamWrite ==
  ASSUME CountsExact, StreamIntact, NEW p \in Procs, PipeWrite(p)
  PROVE  StreamIntact'
<1>1. TypeOK /\ pc[p] = "write" /\ pp[p] \in Pages /\ allocated[pp[p]]
  BY InPipeFacts DEF CountsExact, InPipe, PipeWrite, At
<1>2. PICK q \in Pages : q = pp[p]
  BY <1>1
<1>3. PICK a \in 0 .. WORD - 1, b \in 0 .. WORD - 1 : a = nread[q] /\ b = nwrite[q]
  BY <1>1 DEF TypeOK
<1>4. PICK u \in 0 .. WORD - 1 : u = Unread(q) /\ u = (b - a) % WORD
  BY <1>3, DifferenceWraps DEF Unread
<1>5. PICK n \in Nat : n = Writable(p) /\ u + n <= PIPESIZE /\ Unread(q)' = u + n
  BY <1>2, <1>4, WriteCounted
<1>6. nwrite' = [nwrite EXCEPT ![q] = (@ + n) % WORD] /\ nread' = nread /\ data' = WriteData(p)
      /\ allocated' = allocated
  BY <1>2, <1>5, Zenon DEF PipeWrite
<1>7. /\ nread'[q] = a /\ nwrite'[q] = (b + n) % WORD
      /\ \A r \in Pages : r # q => nread'[r] = nread[r] /\ nwrite'[r] = nwrite[r] /\ data'[r] = data[r]
  BY <1>1, <1>2, <1>3, <1>6, WriteDataIs DEF TypeOK
<1>8. \A j \in Nat : j <= n => (b + j) % WORD = (a + (u + j)) % WORD
  <2> SUFFICES ASSUME NEW j \in Nat, j <= n
               PROVE  (b + j) % WORD = (a + (u + j)) % WORD
    OBVIOUS
  <2>1. ((b - a) % WORD) + j < WORD
    BY <1>4, <1>5, PipeSizes
  <2>2. (b + j) % WORD = (a + (((b - a) % WORD) + j)) % WORD
    BY <2>1, CountWritten
  <2> QED
    BY <1>4, <2>2
<1>9. ASSUME NEW k \in 0 .. (u + n) - 1
       PROVE  data'[q][((a + k) % WORD) % PIPESIZE] = (a + k) % WORD
  <2>1. k \in 0 .. PIPESIZE - 1 /\ k \in 0 .. WORD - 1
    BY <1>5, <1>9, PipeSizes
  <2>2. PICK c \in 0 .. WORD - 1 : c = (a + k) % WORD
    BY <2>1, SumWraps
  <2>3. PICK i \in 0 .. PIPESIZE - 1 : i = c % PIPESIZE
    <3>1. c \in Int
      BY <2>2
    <3> QED
      BY <3>1, PipeSizes, SmallMod
  <2>4. \A j \in Stored(p, i) : j \in Nat /\ j < n /\ ((b + j) % WORD) % PIPESIZE = i
    BY <1>2, <1>3, <1>5 DEF Stored
  <2>5. CASE k < u
    <3>1. Stored(p, i) = {}
      <4> SUFFICES ASSUME NEW j \in Stored(p, i)
                   PROVE  FALSE
        OBVIOUS
      <4>1. j \in Nat /\ j < n /\ ((b + j) % WORD) % PIPESIZE = i
        BY <2>4
      <4>2. PICK m \in 0 .. PIPESIZE - 1 : m = u + j /\ m # k
        BY <1>5, <2>5, <4>1, PipeSizes
      <4>3. (b + j) % WORD = (a + m) % WORD
        BY <1>8, <4>1, <4>2
      <4>4. ((a + m) % WORD) % PIPESIZE # ((a + k) % WORD) % PIPESIZE
        BY <2>1, <4>2, PlacesDistinct
      <4> QED
        BY <2>2, <2>3, <4>1, <4>3, <4>4
    <3>2. data'[q][i] = data[q][i]
      BY <1>1, <1>2, <1>6, <3>1, WriteDataIs
    <3>3. k \in 0 .. Unread(q) - 1
      BY <1>4, <1>9, <2>5
    <3>4. data[q][((a + k) % WORD) % PIPESIZE] = (a + k) % WORD
      BY <1>1, <1>2, <1>3, <3>3 DEF StreamIntact
    <3> QED
      BY <2>2, <2>3, <3>2, <3>4
  <2>6. CASE ~(k < u)
    <3>1. PICK j \in 0 .. n - 1 : k = u + j
      <4>1. k - u \in 0 .. n - 1 /\ k = u + (k - u)
        BY <1>5, <1>9, <2>6, PipeSizes
      <4> QED
        BY <4>1
    <3>2. (b + j) % WORD = c
      BY <1>8, <2>2, <3>1
    <3>3. j \in Stored(p, i)
      BY <1>2, <1>3, <1>5, <2>3, <3>2 DEF Stored
    <3>4. data'[q][i] = (b + j) % WORD
      BY <1>1, <1>2, <1>3, <1>6, <3>3, WriteDataIs
    <3> QED
      BY <2>2, <2>3, <3>2, <3>4
  <2> QED
    BY <2>5, <2>6
<1>10. StreamOf(q)'
  BY <1>5, <1>7, <1>9 DEF StreamOf
<1> QED
  BY <1>6, <1>7, <1>10, StreamAt

LEMMA StreamNext ==
  ASSUME CountsExact, StreamIntact, [Next]_vars
  PROVE  StreamIntact'
<1>1. CASE UNCHANGED vars
  BY <1>1, StreamKept DEF vars, pipes
<1>2. ASSUME NEW p \in Procs, Kernel(p) \/ Call(p) \/ Kill(p)
      PROVE  StreamIntact'
  <2>1. CASE \E q \in Pages : PipeSetup(p, q)
    BY <2>1, StreamSetup
  <2>2. CASE PipeClose(p)
    BY <2>2, StreamClose
  <2>3. CASE ReadCopy(p)
    BY <2>3, StreamRead
  <2>4. CASE PipeWrite(p)
    BY <2>4, StreamWrite
  <2>5. CASE PipeAllocRead(p) \/ PipeAllocWrite(p) \/ PipeNoPage(p) \/ Exit(p) \/ FileClose(p)
    BY <2>5, StreamKept
       DEF PipeAllocRead, PipeAllocWrite, PipeNoPage, Exit, FileClose, pipes
  <2>6. CASE \E fd \in Fds : Dup(p, fd) \/ SysClose(p, fd)
    BY <2>6, StreamKept DEF Dup, SysClose, pipes
  <2>7. CASE \E fd \in Fds, n \in Sizes : SysRead(p, fd, n) \/ SysWrite(p, fd, n)
    BY <2>7, StreamKept DEF SysRead, SysWrite, pipes
  <2>8. CASE \E child \in Procs : Fork(p, child)
    BY <2>8, StreamKept DEF Fork, pipes
  <2>9. CASE ReadEmpty(p) \/ Sleep(p) \/ Kill(p)
    BY <2>9, StreamKept DEF ReadEmpty, Sleep, Kill, pipes
  <2> QED
    BY <1>2, <2>1, <2>2, <2>3, <2>4, <2>5, <2>6, <2>7, <2>8, <2>9, Steps
<1> QED
  BY <1>1, <1>2 DEF Next

\* The bytes between the two counters of a pipe are those that were written at these places of
\* the stream, also when the counters wrap around (piperead() and pipewrite() in pipe.c).
THEOREM Streams == Spec => []StreamIntact
<1>1. Init => StreamIntact
  BY DEF Init, StreamIntact
<1>2. CountsExact /\ StreamIntact /\ [Next]_vars => StreamIntact'
  BY StreamNext
<1> QED
  BY <1>1, <1>2, Counts, PTL DEF Spec

-----------------------------------------------------------------------------
(* Sleep and wakeup *)

Waiting == {"readwait", "readsleep", "writewait", "writesleep"}

\* A step leaves a process alone that waits: the pipe is as it was, as far as the process waits
\* for it; or the process does not wait any more.
Undisturbed(o) ==
  \/ pc[o] \notin {"readwait", "writewait"} /\ pc'[o] \notin Waiting
  \/ /\ pc'[o] = pc[o] /\ pp'[o] = pp[o]
     /\ pc[o] \in {"writewait", "writesleep"} =>
          /\ (nwrite'[pp[o]] - nread'[pp[o]]) % WORD = Unread(pp[o])
          /\ readopen[pp[o]] => readopen'[pp[o]]
     /\ pc[o] = "readwait" => (nwrite'[pp[o]] - nread'[pp[o]]) % WORD = Unread(pp[o])
     /\ pc[o] \in {"readwait", "readsleep"} => (writeopen[pp[o]] => writeopen'[pp[o]])

\* The reasons of process o.
Reason(o) ==
  /\ pc[o] \in {"writewait", "writesleep"} => Unread(pp[o]) = PIPESIZE /\ readopen[pp[o]]
  /\ pc[o] = "readwait" => Unread(pp[o]) = 0
  /\ pc[o] \in {"readwait", "readsleep"} => writeopen[pp[o]]
  /\ pc[o] = "readsleep" =>
       \A x \in Procs : ~(pc[x] \in {"writewait", "writesleep"} /\ pp[x] = pp[o])

LEMMA ReasonKept ==
  ASSUME SleepersHaveReason, NEW o \in Procs, Undisturbed(o),
         pc'[o] = "readsleep" =>
           \A x \in Procs : ~(pc'[x] \in {"writewait", "writesleep"} /\ pp'[x] = pp'[o])
  PROVE  Reason(o)'
<1>1. CASE pc'[o] \notin Waiting
  BY <1>1 DEF Reason, Waiting
<1>2. CASE pc'[o] \in Waiting
  <2>1. pc'[o] = pc[o] /\ pp'[o] = pp[o]
    BY <1>2 DEF Undisturbed
  <2>2. Reason(o)
    BY DEF SleepersHaveReason, Reason
  <2>3. pc'[o] \in {"writewait", "writesleep"} => Unread(pp[o])' = PIPESIZE /\ readopen'[pp'[o]]
    BY <1>2, <2>1, <2>2 DEF Undisturbed, Reason, Unread
  <2>4. pc'[o] = "readwait" => Unread(pp[o])' = 0
    BY <1>2, <2>1, <2>2 DEF Undisturbed, Reason, Unread
  <2>5. pc'[o] \in {"readwait", "readsleep"} => writeopen'[pp'[o]]
    BY <1>2, <2>1, <2>2 DEF Undisturbed, Reason
  <2> QED
    BY <2>3, <2>4, <2>5 DEF Reason
<1> QED
  BY <1>1, <1>2

\* A step that leaves all of them and the locks alone.
LEMMA SleepersKept ==
  ASSUME SleepersHaveReason, lock' = lock, \A o \in Procs : Undisturbed(o)
  PROVE  SleepersHaveReason'
<1>1. LockHeld'
  <2>1. \A o \in Procs : /\ pc'[o] \in {"readwait", "writewait"} <=> pc[o] \in {"readwait", "writewait"}
                         /\ pc[o] \in {"readwait", "writewait"} => pp'[o] = pp[o]
    BY DEF Undisturbed, Waiting
  <2> QED
    BY <2>1 DEF SleepersHaveReason, LockHeld
<1>2. ASSUME NEW o \in Procs
      PROVE  Reason(o)'
  <2>1. pc'[o] = "readsleep" =>
          \A x \in Procs : ~(pc'[x] \in {"writewait", "writesleep"} /\ pp'[x] = pp'[o])
    <3>1. \A x \in Procs : pc'[x] \in Waiting => pc'[x] = pc[x] /\ pp'[x] = pp[x]
      BY DEF Undisturbed
    <3> QED
      BY <3>1 DEF SleepersHaveReason, Waiting
  <2> QED
    BY <2>1, ReasonKept
<1> QED
  BY <1>1, <1>2 DEF SleepersHaveReason, Reason

\* The steps on files.
LEMMA SleepFiles ==
  ASSUME CountsExact, SleepersHaveReason, NEW p \in Procs,
         \/ PipeAllocRead(p) \/ PipeAllocWrite(p) \/ PipeNoPage(p)
         \/ \E fd \in Fds : Dup(p, fd) \/ SysClose(p, fd)
         \/ \E fd \in Fds, n \in Sizes : SysRead(p, fd, n) \/ SysWrite(p, fd, n)
         \/ \E child \in Procs : Fork(p, child)
         \/ Exit(p) \/ FileClose(p)
  PROVE  SleepersHaveReason'
<1>1. TypeOK
  BY DEF CountsExact
<1>2. UNCHANGED <<nread, nwrite, readopen, writeopen, lock>>
  BY DEF PipeAllocRead, PipeAllocWrite, PipeNoPage, Dup, SysClose, SysRead, SysWrite, Fork, Exit,
         FileClose, pipes
<1>3. ASSUME NEW o \in Procs
      PROVE  \/ pc'[o] = pc[o] /\ pp'[o] = pp[o]
             \/ pc[o] \notin Waiting /\ pc'[o] \notin Waiting
  <2> USE DEF At, Calls, Goto, ftable, pipes, locals
  <2>1. CASE PipeAllocRead(p) \/ PipeAllocWrite(p) \/ PipeNoPage(p)
    BY <1>1, <2>1 DEF PipeAllocRead, PipeAllocWrite, PipeNoPage, TypeOK, Waiting
  <2>2. CASE \E fd \in Fds : Dup(p, fd) \/ SysClose(p, fd)
    BY <1>1, <2>2 DEF Dup, SysClose, TypeOK, Waiting
  <2>3. CASE \E fd \in Fds, n \in Sizes : SysRead(p, fd, n) \/ SysWrite(p, fd, n)
    BY <1>1, <2>3 DEF SysRead, SysWrite, TypeOK, Waiting
  <2>4. CASE \E child \in Procs : Fork(p, child)
    BY <1>1, <2>4 DEF Fork, TypeOK, Waiting
  <2>5. CASE Exit(p)
    BY <1>1, <2>5 DEF Exit, TypeOK, Waiting
  <2>6. CASE FileClose(p)
    <3>1. PICK f \in Slots : Drops(p, f)
      BY <2>6, FileCloseRefs
    <3>2. PICK next : next = IF f0[p] # None THEN f1[p] ELSE None
      OBVIOUS
    <3>3. /\ pc[p] = "closing"
          /\ pc' = [pc EXCEPT ![p] = "pipeclose"] \/ pc' = [pc EXCEPT ![p] = AfterClose(p, next)]
          /\ pp' = [pp EXCEPT ![p] = filePipe[f]] \/ pp' = pp
      BY <3>1, <3>2, Zenon DEF Drops
    <3>4. AfterClose(p, next) \in {"closing", "exit", "user"}
      BY DEF AfterClose
    <3>5. pc \in [Procs -> Points] /\ pp \in [Procs -> Pages \cup {None}]
      BY <1>1 DEF TypeOK
    <3> QED
      BY <3>3, <3>4, <3>5 DEF Waiting
  <2> QED
    BY <2>1, <2>2, <2>3, <2>4, <2>5, <2>6
<1>4. \A o \in Procs : Undisturbed(o)
  BY <1>2, <1>3 DEF Undisturbed, Waiting, Unread
<1> QED
  BY <1>2, <1>4, SleepersKept

\* A new pipe has no process that waits, and the end that is closed is not the one whose
\* opening a sleeper relies on.
LEMMA SleepSetup ==
  ASSUME CountsExact, SleepersHaveReason, NEW p \in Procs, NEW q \in Pages, PipeSetup(p, q)
  PROVE  SleepersHaveReason'
<1>1. TypeOK
  BY DEF CountsExact
<1>2. /\ pc[p] = "setup" /\ ~allocated[q] /\ lock' = lock /\ pp' = pp
      /\ nread' = [nread EXCEPT ![q] = 0] /\ nwrite' = [nwrite EXCEPT ![q] = 0]
      /\ readopen' = [readopen EXCEPT ![q] = TRUE]
      /\ writeopen' = [writeopen EXCEPT ![q] = TRUE]
      /\ pc' = [pc EXCEPT ![p] = "user"] \/ pc' = [pc EXCEPT ![p] = "closing"]
  BY DEF PipeSetup, At, Goto
<1>3. ASSUME NEW o \in Procs
      PROVE  Undisturbed(o)
  <2>1. CASE o = p
    BY <1>1, <1>2, <2>1 DEF Undisturbed, Waiting, TypeOK
  <2>2. CASE o # p
    <3>1. pc'[o] = pc[o] /\ pp'[o] = pp[o] /\ pp[o] # q
      BY <1>1, <1>2, <2>2 DEF TypeOK, CountsExact, PipeOpenExact
    <3>2. CASE pc[o] \notin Waiting
      BY <3>1, <3>2 DEF Undisturbed, Waiting
    <3>3. CASE pc[o] \in Waiting
      <4>1. pp[o] \in Pages
        BY <3>3, InPipeFacts DEF Waiting, InPipe
      <4>2. /\ nread'[pp[o]] = nread[pp[o]] /\ nwrite'[pp[o]] = nwrite[pp[o]]
            /\ readopen'[pp[o]] = readopen[pp[o]] /\ writeopen'[pp[o]] = writeopen[pp[o]]
        BY <1>1, <1>2, <3>1, <4>1 DEF TypeOK
      <4> QED
        BY <3>1, <4>2 DEF Undisturbed, Unread
    <3> QED
      BY <3>2, <3>3
  <2> QED
    BY <2>1, <2>2
<1> QED
  BY <1>2, <1>3, SleepersKept

LEMMA SleepClose ==
  ASSUME CountsExact, SleepersHaveReason, NEW p \in Procs, PipeClose(p)
  PROVE  SleepersHaveReason'
<1>1. TypeOK
  BY DEF CountsExact
<1>2. PICK q \in Pages, w \in BOOLEAN :
           /\ q = pp[p] /\ w = wr[p] /\ pc[p] = "pipeclose" /\ lock[q] = None
           /\ pp' = [pp EXCEPT ![p] = None] /\ UNCHANGED lock
           /\ readopen'[q] <=> readopen[q] /\ w
           /\ writeopen'[q] <=> writeopen[q] /\ ~w
           /\ \A r \in Pages : r # q => /\ readopen'[r] <=> readopen[r]
                                        /\ writeopen'[r] <=> writeopen[r]
           /\ pc'[p] = AfterClose(p, f1[p])
           /\ \A o \in Procs : o # p =>
                \/ pc'[o] = pc[o] /\ ~(w /\ pc[o] = "readsleep" /\ pp[o] = q)
                                  /\ ~(~w /\ pc[o] = "writesleep" /\ pp[o] = q)
                \/ pc[o] = "readsleep" /\ pc'[o] = "read" /\ pp[o] = q /\ w
                \/ pc[o] = "writesleep" /\ pc'[o] = "write" /\ pp[o] = q /\ ~w
  BY PipeCloseFacts
<1>3. PICK last \in BOOLEAN : last = (IF w THEN ~readopen[q] ELSE ~writeopen[q]) /\ Freed(q, last)
  <2>1. PICK l \in BOOLEAN : l = IF w THEN ~readopen[q] ELSE ~writeopen[q]
    OBVIOUS
  <2>2. Freed(q, l)
    BY <1>2, <2>1, Zenon DEF PipeClose
  <2> QED
    BY <2>1, <2>2
<1>4. /\ ~last => nread' = nread /\ nwrite' = nwrite
      /\ \A r \in Pages : r # q => nread'[r] = nread[r] /\ nwrite'[r] = nwrite[r]
  BY <1>1, <1>3 DEF Freed, TypeOK
<1>5. ASSUME NEW o \in Procs
      PROVE  Undisturbed(o)
  <2>1. CASE o = p
    BY <1>2, <2>1 DEF Undisturbed, Waiting, AfterClose
  <2>2. CASE o # p /\ pc'[o] # pc[o]
    BY <1>2, <2>2 DEF Undisturbed, Waiting
  <2>3. CASE o # p /\ pc'[o] = pc[o] /\ pc[o] \notin Waiting
    BY <2>3 DEF Undisturbed, Waiting
  <2>4. CASE o # p /\ pc'[o] = pc[o] /\ pc[o] \in Waiting
    <3>1. pp'[o] = pp[o] /\ pp[o] \in Pages
      <4>1. pp[o] \in Pages
        BY <2>4, InPipeFacts DEF Waiting, InPipe
      <4> QED
        BY <1>1, <1>2, <2>4, <4>1 DEF TypeOK
    <3>2. CASE pp[o] # q
      BY <1>2, <1>4, <2>4, <3>1, <3>2 DEF Undisturbed, Unread
    <3>3. CASE pp[o] = q
      <4>1. pc[o] \notin {"readwait", "writewait"}
        BY <1>2, <3>3, Constants DEF SleepersHaveReason, LockHeld
      <4>2. CASE pc[o] = "readsleep"
        BY <1>2, <2>4, <3>1, <3>3, <4>2 DEF Undisturbed
      <4>3. CASE pc[o] = "writesleep"
        <5>1. w /\ readopen[q]
          BY <1>2, <2>4, <3>3, <4>3 DEF SleepersHaveReason
        <5>2. ~last
          BY <1>3, <5>1
        <5> QED
          BY <1>2, <1>4, <2>4, <3>1, <3>3, <4>3, <5>1, <5>2 DEF Undisturbed, Unread
      <4> QED
        BY <2>4, <4>1, <4>2, <4>3 DEF Waiting
    <3> QED
      BY <3>2, <3>3
  <2> QED
    BY <2>1, <2>2, <2>3, <2>4
<1> QED
  BY <1>2, <1>5, SleepersKept

\* A reader that copies bytes wakes the writers; nobody is about to sleep while it has the lock.
LEMMA SleepRead ==
  ASSUME CountsExact, SleepersHaveReason, NEW p \in Procs, ReadCopy(p)
  PROVE  SleepersHaveReason'
<1>1. TypeOK /\ pc[p] = "read" /\ pp[p] \in Pages
  BY InPipeFacts DEF CountsExact, InPipe, ReadCopy, At
<1>2. PICK q \in Pages : q = pp[p]
  BY <1>1
<1>3. PICK n : n = Readable(p)
  OBVIOUS
<1>4. /\ nread' = [nread EXCEPT ![q] = (@ + n) % WORD] /\ UNCHANGED <<nwrite, readopen, writeopen, lock>>
      /\ pp' = [pp EXCEPT ![p] = None] /\ lock[q] = None
      /\ pc' = [x \in Procs |-> IF x = p THEN "user"
                                ELSE IF pc[x] = "writesleep" /\ pp[x] = q THEN "write" ELSE pc[x]]
  BY <1>2, <1>3 DEF ReadCopy, Return, Wake
<1>5. ASSUME NEW o \in Procs
      PROVE  Undisturbed(o)
  <2>1. CASE o = p
    BY <1>1, <1>4, <2>1 DEF Undisturbed, Waiting
  <2>2. CASE o # p /\ pc'[o] # pc[o]
    BY <1>4, <2>2 DEF Undisturbed, Waiting
  <2>3. CASE o # p /\ pc'[o] = pc[o] /\ pc[o] \notin Waiting
    BY <2>3 DEF Undisturbed, Waiting
  <2>4. CASE o # p /\ pc'[o] = pc[o] /\ pc[o] \in Waiting
    <3>1. pp'[o] = pp[o] /\ pp[o] \in Pages
      <4>1. pp[o] \in Pages
        BY <2>4, InPipeFacts DEF Waiting, InPipe
      <4> QED
        BY <1>1, <1>4, <2>4, <4>1 DEF TypeOK
    <3>2. CASE pp[o] # q
      <4>1. nread'[pp[o]] = nread[pp[o]]
        BY <1>1, <1>4, <3>1, <3>2 DEF TypeOK
      <4> QED
        BY <1>4, <2>4, <3>1, <4>1 DEF Undisturbed, Unread
    <3>3. CASE pp[o] = q
      <4>1. pc[o] \notin {"readwait", "writewait"}
        BY <1>4, <3>3, Constants DEF SleepersHaveReason, LockHeld
      <4>2. pc[o] = "readsleep"
        BY <1>4, <2>4, <3>3, <4>1 DEF Waiting
      <4> QED
        BY <1>4, <2>4, <3>1, <4>2 DEF Undisturbed
    <3> QED
      BY <3>2, <3>3
  <2> QED
    BY <2>1, <2>2, <2>3, <2>4
<1> QED
  BY <1>4, <1>5, SleepersKept

\* kill() takes a sleeper out of its wait.
LEMMA SleepKill ==
  ASSUME CountsExact, SleepersHaveReason, NEW p \in Procs, Kill(p)
  PROVE  SleepersHaveReason'
<1>1. TypeOK
  BY DEF CountsExact
<1>2. UNCHANGED <<nread, nwrite, readopen, writeopen, lock, pp>>
  BY DEF Kill, pipes, locals
<1>3. \A o \in Procs : \/ pc'[o] = pc[o]
                       \/ pc[o] = "readsleep" /\ pc'[o] = "read"
                       \/ pc[o] = "writesleep" /\ pc'[o] = "write"
  BY <1>1 DEF Kill, TypeOK
<1>4. \A o \in Procs : Undisturbed(o)
  BY <1>2, <1>3 DEF Undisturbed, Waiting, Unread
<1> QED
  BY <1>2, <1>4, SleepersKept

\* A process that keeps the lock of a pipe, to sleep there.
LEMMA LockTaken ==
  ASSUME TypeOK, LockHeld, NEW p \in Procs, NEW q \in Pages, q = pp[p], lock[q] = None,
         pc[p] \in {"read", "write"}, pc'[p] \in {"readwait", "writewait"}, pp' = pp,
         lock' = [lock EXCEPT ![q] = p],
         \A o \in Procs : o # p => \/ pc'[o] = pc[o]
                                   \/ pc[o] = "readsleep" /\ pc'[o] = "read"
  PROVE  LockHeld'
<1> SUFFICES ASSUME NEW o \in Procs, NEW r \in Pages
             PROVE  lock'[r] = o <=> pc'[o] \in {"readwait", "writewait"} /\ pp'[o] = r
  BY DEF LockHeld
<1>1. lock'[q] = p /\ (r # q => lock'[r] = lock[r])
  BY DEF TypeOK
<1>2. lock[r] = o <=> pc[o] \in {"readwait", "writewait"} /\ pp[o] = r
  BY DEF LockHeld
<1>3. lock[q] # o
  BY Constants
<1>4. CASE o = p
  BY <1>1, <1>2, <1>4
<1>5. CASE o # p
  <2>1. pc'[o] \in {"readwait", "writewait"} <=> pc[o] \in {"readwait", "writewait"}
    BY <1>5
  <2> QED
    BY <1>1, <1>2, <1>3, <1>5, <2>1
<1> QED
  BY <1>4, <1>5

\* A reader that finds the pipe empty.
LEMMA SleepEmpty ==
  ASSUME CountsExact, SleepersHaveReason, NEW p \in Procs, ReadEmpty(p)
  PROVE  SleepersHaveReason'
<1>1. TypeOK /\ pc[p] = "read" /\ pp[p] \in Pages
  BY InPipeFacts DEF CountsExact, InPipe, ReadEmpty, At
<1>2. PICK q \in Pages : q = pp[p]
  BY <1>1
<1>3. /\ lock[q] = None /\ Unread(q) = 0 /\ writeopen[q]
      /\ UNCHANGED <<nread, nwrite, readopen, writeopen>>
  BY <1>2 DEF ReadEmpty, pipes
<1>4. CASE killed[p]
  <2>1. pp' = [pp EXCEPT ![p] = None] /\ pc' = [pc EXCEPT ![p] = "user"] /\ lock' = lock
    BY <1>4 DEF ReadEmpty, Return, Goto
  <2>2. \A o \in Procs : Undisturbed(o)
    BY <1>1, <1>3, <2>1 DEF Undisturbed, Waiting, Unread, TypeOK
  <2> QED
    BY <2>1, <2>2, SleepersKept
<1>5. CASE ~killed[p]
  <2>1. pp' = pp /\ pc' = [pc EXCEPT ![p] = "readwait"] /\ lock' = [lock EXCEPT ![q] = p]
    BY <1>2, <1>5 DEF ReadEmpty, Goto
  <2>2. pc'[p] = "readwait" /\ \A o \in Procs : o # p => pc'[o] = pc[o]
    BY <1>1, <2>1 DEF TypeOK
  <2>3. LockHeld'
    BY <1>1, <1>2, <1>3, <2>1, <2>2, LockTaken DEF SleepersHaveReason
  <2>4. ASSUME NEW o \in Procs
        PROVE  Reason(o)'
    <3>1. CASE o = p
      BY <1>2, <1>3, <2>1, <2>2, <3>1 DEF Reason, Unread
    <3>2. CASE o # p
      <4>1. Undisturbed(o)
        BY <1>3, <2>1, <2>2, <3>2 DEF Undisturbed, Unread
      <4>2. pc'[o] = "readsleep" =>
              \A x \in Procs : ~(pc'[x] \in {"writewait", "writesleep"} /\ pp'[x] = pp'[o])
        BY <2>1, <2>2, <3>2 DEF SleepersHaveReason
      <4> QED
        BY <4>1, <4>2, ReasonKept
    <3> QED
      BY <3>1, <3>2
  <2> QED
    BY <2>3, <2>4 DEF SleepersHaveReason, Reason
<1> QED
  BY <1>4, <1>5

\* sleep() gives the lock back; an empty pipe has no writer that waits.
LEMMA SleepSleep ==
  ASSUME CountsExact, SleepersHaveReason, NEW p \in Procs, Sleep(p)
  PROVE  SleepersHaveReason'
<1>1. TypeOK /\ pc[p] \in {"readwait", "writewait"} /\ pp[p] \in Pages
  BY InPipeFacts DEF CountsExact, InPipe, Sleep, At
<1>2. PICK q \in Pages : q = pp[p]
  BY <1>1
<1>3. /\ lock' = [lock EXCEPT ![q] = None]
      /\ pc' = [pc EXCEPT ![p] = IF pc[p] = "readwait" THEN "readsleep" ELSE "writesleep"]
      /\ UNCHANGED <<nread, nwrite, readopen, writeopen, pp>>
  BY <1>2 DEF Sleep, Goto, pipes, locals
<1>4. /\ pc[p] = "readwait" => pc'[p] = "readsleep"
      /\ pc[p] = "writewait" => pc'[p] = "writesleep"
      /\ \A o \in Procs : o # p => pc'[o] = pc[o]
  BY <1>1, <1>3 DEF TypeOK
<1>5. LockHeld'
  <2> SUFFICES ASSUME NEW o \in Procs, NEW r \in Pages
               PROVE  lock'[r] = o <=> pc'[o] \in {"readwait", "writewait"} /\ pp'[o] = r
    BY DEF LockHeld
  <2>1. lock'[q] = None /\ (r # q => lock'[r] = lock[r])
    BY <1>1, <1>3 DEF TypeOK
  <2>2. /\ lock[r] = o <=> pc[o] \in {"readwait", "writewait"} /\ pp[o] = r
        /\ lock[q] = p
    BY <1>1, <1>2 DEF SleepersHaveReason, LockHeld
  <2>3. None # o
    BY Constants
  <2> QED
    BY <1>1, <1>2, <1>3, <1>4, <2>1, <2>2, <2>3
<1>6. ASSUME NEW o \in Procs
      PROVE  Reason(o)'
  <2>1. pc'[o] = "readsleep" =>
          \A x \in Procs : ~(pc'[x] \in {"writewait", "writesleep"} /\ pp'[x] = pp'[o])
    <3>1. \A x \in Procs : pc'[x] \in {"writewait", "writesleep"} => pc[x] \in {"writewait", "writesleep"}
      BY <1>1, <1>4
    <3>2. CASE o = p
      <4>1. pc[p] = "readwait" => \A x \in Procs : ~(pc[x] \in {"writewait", "writesleep"} /\ pp[x] = q)
        BY <1>2, PipeSizes DEF SleepersHaveReason
      <4> QED
        BY <1>1, <1>2, <1>3, <1>4, <3>1, <3>2, <4>1
    <3>3. CASE o # p
      BY <1>3, <1>4, <3>1, <3>3 DEF SleepersHaveReason
    <3> QED
      BY <3>2, <3>3
  <2>2. CASE o = p
    <3>1. Reason(p)
      BY DEF SleepersHaveReason, Reason
    <3> QED
      BY <1>1, <1>3, <1>4, <2>1, <2>2, <3>1 DEF Reason, Unread
  <2>3. CASE o # p
    <3>1. Undisturbed(o)
      BY <1>3, <1>4, <2>3 DEF Undisturbed, Unread
    <3> QED
      BY <2>1, <3>1, ReasonKept
  <2> QED
    BY <2>2, <2>3
<1> QED
  BY <1>5, <1>6 DEF SleepersHaveReason, Reason

\* A writer that finds the pipe full wakes the readers before it sleeps; where another writer
\* sleeps there is no room, so that the pipe stays full.
LEMMA SleepWrite ==
  ASSUME CountsExact, StreamIntact, SleepersHaveReason, NEW p \in Procs, PipeWrite(p)
  PROVE  SleepersHaveReason'
<1>1. TypeOK /\ pc[p] = "write" /\ pp[p] \in Pages
  BY InPipeFacts DEF CountsExact, InPipe, PipeWrite, At
<1>2. PICK q \in Pages, n \in Nat :
           /\ q = pp[p] /\ n = Writable(p) /\ Unread(q) \in Nat /\ Unread(q) + n <= PIPESIZE
           /\ Unread(q)' = Unread(q) + n
           /\ \A r \in Pages : r # q => Unread(r)' = Unread(r)
  BY WriteCounted
<1>3. UNCHANGED <<readopen, writeopen>> /\ lock[q] = None
  BY <1>2, Zenon DEF PipeWrite
<1>4. \/ /\ n = left[p] /\ lock' = lock /\ pp' = [pp EXCEPT ![p] = None]
         /\ pc' = [x \in Procs |-> IF x = p THEN "user"
                     ELSE IF pc[x] = "readsleep" /\ pp[x] = q THEN "read" ELSE pc[x]]
      \/ lock' = lock /\ pp' = [pp EXCEPT ![p] = None] /\ pc' = [pc EXCEPT ![p] = "user"]
      \/ /\ n # left[p] /\ readopen[q] /\ lock' = [lock EXCEPT ![q] = p] /\ pp' = pp
         /\ pc' = [x \in Procs |-> IF x = p THEN "writewait"
                     ELSE IF pc[x] = "readsleep" /\ pp[x] = q THEN "read" ELSE pc[x]]
  BY <1>2 DEF PipeWrite, Return, Wake, Goto
<1>5. /\ \A o \in Procs : o # p => pp'[o] = pp[o]
      /\ \A o \in Procs : o # p => \/ pc'[o] = pc[o]
                                   \/ pc[o] = "readsleep" /\ pc'[o] = "read"
  BY <1>1, <1>4 DEF TypeOK
<1>6. ASSUME NEW o \in Procs, o # p
      PROVE  Undisturbed(o)
  <2>1. CASE pc'[o] # pc[o]
    BY <1>5, <1>6, <2>1 DEF Undisturbed, Waiting
  <2>2. CASE pc'[o] = pc[o] /\ pc[o] \notin Waiting
    BY <2>2 DEF Undisturbed, Waiting
  <2>3. CASE pc'[o] = pc[o] /\ pc[o] \in Waiting
    <3>1. PICK r \in Pages : r = pp[o]
      BY <2>3, InPipeFacts DEF Waiting, InPipe
    <3>2. CASE r # q
      <4>1. Unread(r)' = Unread(r)
        BY <1>2, <3>2
      <4>2. (nwrite'[pp[o]] - nread'[pp[o]]) % WORD = Unread(pp[o])
        BY <3>1, <4>1 DEF Unread
      <4> QED
        BY <1>3, <1>5, <1>6, <2>3, <4>2 DEF Undisturbed
    <3>3. CASE r = q /\ pc[o] = "readsleep"
      BY <1>3, <1>5, <1>6, <2>3, <3>3 DEF Undisturbed
    <3>4. CASE r = q /\ pc[o] # "readsleep"
      <4>1. pc[o] \notin {"readwait", "writewait"}
        <5>1. lock[q] = o <=> pc[o] \in {"readwait", "writewait"} /\ pp[o] = q
          BY DEF SleepersHaveReason, LockHeld
        <5>2. lock[q] # o
          BY <1>3, Constants
        <5> QED
          BY <3>1, <3>4, <5>1, <5>2
      <4>2. pc[o] = "writesleep"
        BY <2>3, <3>4, <4>1 DEF Waiting
      <4>3. Unread(q) = PIPESIZE
        BY <3>1, <3>4, <4>2 DEF SleepersHaveReason
      <4>4. Unread(q)' = Unread(q)
        BY <1>2, <4>3, PipeSizes
      <4>5. (nwrite'[pp[o]] - nread'[pp[o]]) % WORD = Unread(pp[o])
        BY <3>1, <3>4, <4>4 DEF Unread
      <4> QED
        BY <1>3, <1>5, <1>6, <2>3, <4>2, <4>5 DEF Undisturbed
    <3> QED
      BY <3>2, <3>3, <3>4
  <2> QED
    BY <2>1, <2>2, <2>3
<1>7. CASE lock' = lock /\ pc'[p] = "user"
  <2>1. Undisturbed(p)
    BY <1>1, <1>7 DEF Undisturbed, Waiting
  <2>2. \A o \in Procs : Undisturbed(o)
    BY <1>6, <2>1
  <2> QED
    BY <1>7, <2>2, SleepersKept
<1>8. CASE /\ n # left[p] /\ readopen[q] /\ lock' = [lock EXCEPT ![q] = p] /\ pp' = pp
           /\ pc' = [x \in Procs |-> IF x = p THEN "writewait"
                       ELSE IF pc[x] = "readsleep" /\ pp[x] = q THEN "read" ELSE pc[x]]
  <2>1. /\ pc'[p] = "writewait"
        /\ \A o \in Procs : pc'[o] = "readsleep" => pc[o] = "readsleep" /\ pp[o] # q /\ o # p
    BY <1>8
  <2>2. LockHeld'
    BY <1>1, <1>2, <1>3, <1>5, <1>8, <2>1, LockTaken DEF SleepersHaveReason
  <2>3. Unread(q)' = PIPESIZE
    <3>1. n = PIPESIZE - Unread(q)
      BY <1>1, <1>2, <1>8, Moved
    <3> QED
      BY <1>2, <3>1, PipeSizes
  <2>4. ASSUME NEW o \in Procs
        PROVE  Reason(o)'
    <3>1. CASE o = p
      <4>1. Unread(pp[p])' = PIPESIZE
        BY <1>2, <1>8, <2>3 DEF Unread
      <4> QED
        BY <1>2, <1>3, <1>8, <2>1, <3>1, <4>1 DEF Reason
    <3>2. CASE o # p
      <4>1. Undisturbed(o)
        BY <1>6, <3>2
      <4>2. pc'[o] = "readsleep" =>
              \A x \in Procs : ~(pc'[x] \in {"writewait", "writesleep"} /\ pp'[x] = pp'[o])
        <5> SUFFICES ASSUME pc'[o] = "readsleep", NEW x \in Procs,
                            pc'[x] \in {"writewait", "writesleep"}, pp'[x] = pp'[o]
                     PROVE  FALSE
          OBVIOUS
        <5>1. pc[o] = "readsleep" /\ pp[o] # q /\ pp[x] = pp[o]
          BY <1>8, <2>1
        <5>2. x # p
          BY <1>2, <5>1
        <5>3. pc[x] \in {"writewait", "writesleep"}
          BY <1>5, <5>2
        <5> QED
          BY <5>1, <5>3 DEF SleepersHaveReason
      <4> QED
        BY <4>1, <4>2, ReasonKept
    <3> QED
      BY <3>1, <3>2
  <2> QED
    BY <2>2, <2>4 DEF SleepersHaveReason, Reason
<1>9. (lock' = lock /\ pc'[p] = "user")
        \/ (/\ n # left[p] /\ readopen[q] /\ lock' = [lock EXCEPT ![q] = p] /\ pp' = pp
            /\ pc' = [x \in Procs |-> IF x = p THEN "writewait"
                       ELSE IF pc[x] = "readsleep" /\ pp[x] = q THEN "read" ELSE pc[x]])
  BY <1>1, <1>4 DEF TypeOK
<1> QED
  BY <1>7, <1>8, <1>9

LEMMA SleepNext ==
  ASSUME CountsExact, StreamIntact, SleepersHaveReason, [Next]_vars
  PROVE  SleepersHaveReason'
<1>1. CASE UNCHANGED vars
  <2>1. \A o \in Procs : Undisturbed(o)
    BY <1>1 DEF vars, pipes, locals, Undisturbed, Unread
  <2> QED
    BY <1>1, <2>1, SleepersKept DEF vars
<1>2. ASSUME NEW p \in Procs, Kernel(p) \/ Call(p) \/ Kill(p)
      PROVE  SleepersHaveReason'
  <2>1. CASE \E q \in Pages : PipeSetup(p, q)
    BY <2>1, SleepSetup
  <2>2. CASE PipeClose(p)
    BY <2>2, SleepClose
  <2>3. CASE ReadCopy(p)
    BY <2>3, SleepRead
  <2>4. CASE ReadEmpty(p)
    BY <2>4, SleepEmpty
  <2>5. CASE PipeWrite(p)
    BY <2>5, SleepWrite
  <2>6. CASE Sleep(p)
    BY <2>6, SleepSleep
  <2>7. CASE Kill(p)
    BY <2>7, SleepKill
  <2>8. CASE \/ PipeAllocRead(p) \/ PipeAllocWrite(p) \/ PipeNoPage(p)
             \/ \E fd \in Fds : Dup(p, fd) \/ SysClose(p, fd)
             \/ \E fd \in Fds, n \in Sizes : SysRead(p, fd, n) \/ SysWrite(p, fd, n)
             \/ \E child \in Procs : Fork(p, child)
             \/ Exit(p) \/ FileClose(p)
    BY <2>8, SleepFiles
  <2> QED
    BY <1>2, <2>1, <2>2, <2>3, <2>4, <2>5, <2>6, <2>7, <2>8, Steps
<1> QED
  BY <1>1, <1>2 DEF Next

\* A writer sleeps only while the pipe is full and has a reader, a reader goes to sleep only
\* while it is empty and has a writer, they do not both sleep, and the lock of a pipe is held by
\* the process that is about to sleep there (sleep() and wakeup() in pipe.c).
THEOREM Sleepers == Spec => []SleepersHaveReason
<1>1. Init => SleepersHaveReason
  BY Constants DEF Init, SleepersHaveReason, LockHeld
<1>2. CountsExact /\ StreamIntact /\ SleepersHaveReason /\ [Next]_vars => SleepersHaveReason'
  BY SleepNext
<1> QED
  BY <1>1, <1>2, Counts, Streams, PTL DEF Spec

\* Bytes that come to a pipe wake the readers that sleep there, unless the writer was killed and
\* leaves the pipe full: then pipewrite() returns before its wakeup() (pipe.c).
THEOREM ByteWakes == Spec => BytesWake
<1> DEFINE Woken(p) ==
      pc[p] = "readsleep" /\ nwrite'[pp[p]] # nwrite[pp[p]] =>
        pc'[p] = "read" \/ \E o \in Procs : pc[o] = "write" /\ pp[o] = pp[p] /\ killed[o]
<1>1. ASSUME CountsExact, SleepersHaveReason, Next, NEW p \in Procs, pc[p] = "readsleep",
             nwrite'[pp[p]] # nwrite[pp[p]]
      PROVE  pc'[p] = "read" \/ \E o \in Procs : pc[o] = "write" /\ pp[o] = pp[p] /\ killed[o]
  <2>1. TypeOK
    BY <1>1 DEF CountsExact
  <2>2. PICK q \in Pages : q = pp[p] /\ allocated[q] /\ readopen[q] /\ writeopen[q]
    <3>1. writeopen[pp[p]]
      BY <1>1 DEF SleepersHaveReason
    <3> QED
      BY <1>1, <3>1, InPipeFacts DEF InPipe, Reading
  <2>3. PICK o \in Procs : Kernel(o) \/ Call(o) \/ Kill(o)
    BY <1>1 DEF Next
  <2>4. nwrite'[q] # nwrite[q]
    BY <1>1, <2>2
  <2>5. CASE \E r \in Pages : PipeSetup(o, r)
    <3>1. PICK r \in Pages : ~allocated[r] /\ nwrite' = [nwrite EXCEPT ![r] = 0]
      BY <2>5 DEF PipeSetup
    <3> QED
      BY <2>1, <2>2, <2>4, <3>1 DEF TypeOK
  <2>6. CASE PipeClose(o)
    <3>1. PICK last \in BOOLEAN :
            last = (IF wr[o] THEN ~readopen[pp[o]] ELSE ~writeopen[pp[o]]) /\ Freed(pp[o], last)
      <4>1. PICK l \in BOOLEAN : l = IF wr[o] THEN ~readopen[pp[o]] ELSE ~writeopen[pp[o]]
        OBVIOUS
      <4>2. Freed(pp[o], l)
        BY <2>6, <4>1, Zenon DEF PipeClose
      <4> QED
        BY <4>1, <4>2
    <3>2. nwrite' = [nwrite EXCEPT ![pp[o]] = IF last THEN 0 ELSE @]
      BY <3>1 DEF Freed
    <3>3. pp[o] = q /\ last
      BY <2>1, <2>4, <3>2 DEF TypeOK
    <3> QED
      BY <2>2, <3>1, <3>3
  <2>7. CASE PipeWrite(o)
    <3>1. PICK n : n = Writable(o)
      OBVIOUS
    <3>2. nwrite' = [nwrite EXCEPT ![pp[o]] = (@ + n) % WORD] /\ pc[o] = "write"
      BY <2>7, <3>1 DEF PipeWrite, At
    <3>3. pp[o] = q /\ o # p
      BY <1>1, <2>1, <2>4, <3>2 DEF TypeOK
    <3>4. CASE killed[o]
      BY <2>2, <3>2, <3>3, <3>4
    <3>5. CASE ~killed[o]
      <4>1. \E point : Wake(o, point, q, "readsleep", "read")
        BY <2>2, <2>7, <3>3, <3>5 DEF PipeWrite
      <4> QED
        BY <1>1, <2>2, <3>3, <4>1 DEF Wake
    <3> QED
      BY <3>4, <3>5
  <2>8. CASE \/ PipeAllocRead(o) \/ PipeAllocWrite(o) \/ PipeNoPage(o)
             \/ \E fd \in Fds : Dup(o, fd) \/ SysClose(o, fd)
             \/ \E fd \in Fds, n \in Sizes : SysRead(o, fd, n) \/ SysWrite(o, fd, n)
             \/ \E child \in Procs : Fork(o, child)
             \/ Exit(o) \/ FileClose(o)
    BY <2>4, <2>8 DEF PipeAllocRead, PipeAllocWrite, PipeNoPage, Dup, SysClose, SysRead, SysWrite,
                      Fork, Exit, FileClose, pipes
  <2>9. CASE ReadEmpty(o) \/ ReadCopy(o) \/ Sleep(o) \/ Kill(o)
    BY <2>4, <2>9 DEF ReadEmpty, ReadCopy, Sleep, Kill, pipes
  <2> QED
    BY <2>3, <2>5, <2>6, <2>7, <2>8, <2>9, Steps
<1>2. CountsExact /\ SleepersHaveReason /\ [Next]_vars => [\A p \in Procs : Woken(p)]_vars
  BY <1>1
<1> QED
  BY <1>2, Counts, Sleepers, PTL DEF Spec, BytesWake
=============================================================================
