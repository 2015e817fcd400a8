---------------------------- MODULE PartsProofs -----------------------------
(***************************************************************************)
(* Theorems about the parts of Parts, for every value of its constants:    *)
(*   - MemorySound of Memory, from its IndInv;                             *)
(*   - ConsoleSound and EofAlone of Console;                               *)
(*   - TimesSound: WaitxExact of Times with one CPU and any number of      *)
(*     slots, EndStamp with any number of CPUs;                            *)
(*   - LocksSafe and FlagRestored of Spinlock, from SpinlockProofs;        *)
(*   - ThreadsSound: NoEarlyLeave and EnoughCooked of Biryani with one     *)
(*     container, and, from CabsProofs, the invariants of Cabs.            *)
(***************************************************************************)
EXTENDS Parts, FiniteSets, FiniteSetTheorems, SequenceTheorems, WellFoundedInduction, TLAPS

-----------------------------------------------------------------------------
(* The parts that a step leaves alone *)

\* The part that was chosen is never another one, and only it moves.
LEMMA PartStays ==
  ASSUME [Next]_vars
  PROVE  /\ part' = part
         /\ part = "times1" => [T(TickSlots1, 1)!Next]_(T(TickSlots1, 1)!vars)
         /\ part = "times2" =>
              [T(TickSlots2, TickCpus2)!Next]_(T(TickSlots2, TickCpus2)!vars)
         /\ part = "locks1" => S1!Next \/ UNCHANGED S1!vars
         /\ part = "locks2" => S2!Next \/ UNCHANGED S2!vars
         /\ part = "memory" => [M!Next]_(M!vars)
         /\ part = "console" => C!Next \/ UNCHANGED C!vars
         /\ part = "cabs" => A!Next \/ UNCHANGED A!vars
         /\ part = "biryani1" =>
              [B(Chefs1, 1, Students1)!Next]_(B(Chefs1, 1, Students1)!vars)
         /\ part = "biryani2" =>
              [B(Chefs2, 1, Students2)!Next]_(B(Chefs2, 1, Students2)!vars)
<1>1. CASE UNCHANGED vars
  BY <1>1 DEF vars, from6, from7, from9, from12, from13, from17, from23, T!vars,
              T!history, T!handler, T!stamps, S1!vars, S2!vars, M!vars, M!procs, M!calls,
              C!vars, C!input, C!reader, A!vars, A!cabs, A!pays,
              A!plocals, A!slocals, A!servers, B!vars, B!chefs, B!conts, B!chefLocals,
              B!contLocals, B!chefThreads, B!contThreads, B!studThreads
<1>2. CASE Next
  BY <1>2 DEF Next
<1> QED
  BY <1>1, <1>2

-----------------------------------------------------------------------------
(* Arithmetic, as in FilesProofs *)

\* A set of natural numbers that is not empty has a least element.
LEMMA LeastNumber ==
  ASSUME NEW S \in SUBSET Nat, S # {}
  PROVE  \E x \in S : \A y \in S : x <= y
<1> DEFINE R == {z \in Nat \X Nat : z[1] < z[2]}
<1>1. \A x, y \in Nat : y < x => <<y, x>> \in R
  OBVIOUS
<1>2. IsWellFoundedOn(R, Nat)
  BY NatLessThanWellFounded, Zenon DEF OpToRel
<1> HIDE DEF R
<1>3. PICK x \in S : \A y \in S : ~ (<<y, x>> \in R)
  BY <1>2, WFMin
<1>4. ASSUME NEW y \in S PROVE ~(y < x)
  <2>1. x \in Nat /\ y \in Nat
    OBVIOUS
  <2> QED
    BY <1>1, <1>3, <2>1
<1> QED
  BY <1>4

\* A remainder, from any way to write the number with a quotient.
LEMMA ModIs ==
  ASSUME NEW d \in Nat \ {0}, NEW x \in Int, NEW q \in Int, NEW r \in 0 .. d - 1, x = d * q + r
  PROVE  x % d = r
  BY SMTT(30)

\* Every number has a quotient to its remainder.
LEMMA DivMod ==
  ASSUME NEW d \in Nat \ {0}, NEW x \in Int
  PROVE  \E q \in Int, r \in 0 .. d - 1 : x = d * q + r /\ x % d = r
<1> DEFINE S == {n \in Nat : \E q \in Int : x = d * q + n}
<1>1. \E n \in Nat, q \in Int : x = d * q + n
  <2>1. CASE x >= 0
    <3>1. x = d * 0 + x /\ x \in Nat /\ 0 \in Int
      BY <2>1
    <3> QED
      BY <3>1
  <2>2. CASE x < 0
    <3>1. x - d * x \in Int /\ x = d * x + (x - d * x)
      OBVIOUS
    <3>2. x - d * x >= 0
      <4>1. (d - 1) * (0 - x) >= 0
        BY <2>2
      <4>2. (d - 1) * (0 - x) = x - d * x
        OBVIOUS
      <4> QED
        BY <4>1, <4>2
    <3>3. x - d * x \in Nat
      BY <3>1, <3>2
    <3> QED
      BY <3>1, <3>3
  <2> QED
    BY <2>1, <2>2
<1>2. PICK r \in S : \A n \in S : r <= n
  <2>1. S \in SUBSET Nat /\ S # {}
    BY <1>1
  <2> HIDE DEF S
  <2> QED
    BY <2>1, LeastNumber
<1>3. PICK q \in Int : x = d * q + r /\ r \in Nat
  OBVIOUS
<1>4. r < d
  <2> SUFFICES ASSUME r >= d
               PROVE  FALSE
    OBVIOUS
  <2>1. r - d \in Nat
    OBVIOUS
  <2>2. x = d * (q + 1) + (r - d) /\ q + 1 \in Int
    BY <1>3
  <2>3. r - d \in S
    BY <2>1, <2>2
  <2> HIDE DEF S
  <2>4. r <= r - d
    BY <1>2, <2>3
  <2> QED
    BY <1>3, <2>4
<1>5. r \in 0 .. d - 1
  BY <1>3, <1>4
<1>6. x % d = r
  BY <1>3, <1>5, ModIs
<1> HIDE DEF S
<1> QED
  BY <1>3, <1>5, <1>6

\* A quotient and a remainder are unique.
LEMMA ModUnique ==
  ASSUME NEW d \in Nat \ {0}, NEW a \in Int, NEW b \in Int, NEW r \in 0 .. d - 1,
         NEW s \in 0 .. d - 1, d * a + r = d * b + s
  PROVE  r = s /\ a = b
<1>1. CASE a = b
  BY <1>1
<1>2. CASE a < b
  <2>1. b - a - 1 \in Nat
    BY <1>2
  <2>2. d * (b - a - 1) >= 0
    BY <2>1
  <2>3. d * (b - a - 1) = d * b - d * a - d
    OBVIOUS
  <2> QED
    BY <2>2, <2>3
<1>3. CASE b < a
  <2>1. a - b - 1 \in Nat
    BY <1>3
  <2>2. d * (a - b - 1) >= 0
    BY <2>1
  <2>3. d * (a - b - 1) = d * a - d * b - d
    OBVIOUS
  <2> QED
    BY <2>2, <2>3
<1> QED
  BY <1>1, <1>2, <1>3

\* Two numbers less than d apart have different remainders.
LEMMA ModDistinct ==
  ASSUME NEW d \in Nat \ {0}, NEW x \in Int, NEW y \in Int, x < y, y < x + d
  PROVE  x % d # y % d
<1> SUFFICES ASSUME x % d = y % d
             PROVE  FALSE
  OBVIOUS
<1>1. PICK a \in Int, r \in 0 .. d - 1 : x = d * a + r /\ x % d = r
  BY DivMod
<1>2. PICK b \in Int, s \in 0 .. d - 1 : y = d * b + s /\ y % d = s
  BY DivMod
<1>3. d * a \in Int /\ d * b \in Int /\ r = s
  BY <1>1, <1>2
<1>4. y - x = d * b - d * a /\ y - x \in 1 .. d - 1
  <2>1. x = d * a + r /\ y = d * b + r
    BY <1>1, <1>2, <1>3
  <2> QED
    BY <2>1, <1>3
<1>5. d * a + (y - x) = d * b + 0
  BY <1>3, <1>4
<1>6. y - x = 0
  BY <1>4, <1>5, ModUnique
<1> QED
  BY <1>4, <1>6

\* Multiples of d do not count.
LEMMA ModShift ==
  ASSUME NEW d \in Nat \ {0}, NEW x \in Int, NEW m \in Int
  PROVE  (x + d * m) % d = x % d
<1>1. PICK a \in Int, r \in 0 .. d - 1 : x = d * a + r /\ x % d = r
  BY DivMod
<1>2. d * (a + m) = d * a + d * m /\ a + m \in Int /\ x + d * m \in Int
  OBVIOUS
<1>3. x + d * m = d * (a + m) + r
  <2>1. x = d * a + r
    BY <1>1
  <2> QED
    BY <1>2, <2>1
<1>4. (x + d * m) % d = r
  BY <1>2, <1>3, ModIs
<1> QED
  BY <1>1, <1>4

-----------------------------------------------------------------------------
(* Memory.  Of the variables s1 is free, s2 data, s3 state, s4 space, s5 sz,   *)
(* s6 kstack, s7 new, s8 newsz, s9 todo, s10 child and s11 view.              *)

\* The number of pages that reach up to a.
Pg(a) == (a + PageUnits - 1) \div PageUnits

\* The constants are numbers.
LEMMA MemSizes ==
  /\ PageUnits \in Nat /\ PageUnits > 0 /\ TableLength \in Nat /\ TableLength > 0
  /\ UserPages \in Nat /\ UserPages > 0 /\ M!KERNBASE \in Nat /\ M!KERNBASE = UserPages * PageUnits
  /\ MemorySlots \in Nat /\ MemorySlots > 0 /\ MemoryPages \in Nat /\ MemoryPages >= 5
  /\ M!Prog = MemorySlots + 1 /\ M!Junk = MemorySlots + 2 /\ M!Guard = MemorySlots + 3
  /\ M!Unmapped = MemorySlots + 4
<1>1. UserPages * PageUnits \in Nat
  BY PartsAssumption
<1> QED
  BY <1>1, PartsAssumption DEF M!KERNBASE, M!Prog, M!Junk, M!Guard, M!Unmapped

\* A quotient, from any way to write the number with it.
LEMMA DivIs ==
  ASSUME NEW d \in Nat \ {0}, NEW x \in Int, NEW q \in Int, NEW r \in 0 .. d - 1, x = d * q + r
  PROVE  x \div d = q
  BY SMTT(30)

\* Multiples of the size of a page.
LEMMA Multiples ==
  ASSUME NEW x \in Nat, NEW y \in Nat
  PROVE  /\ x * PageUnits \in Nat /\ (x + 1) * PageUnits = x * PageUnits + PageUnits
         /\ x * PageUnits < y * PageUnits <=> x < y
         /\ x * PageUnits <= y * PageUnits <=> x <= y
         /\ M!PageOf(x * PageUnits) = x
<1> USE MemSizes
<1>1. x * PageUnits \in Nat /\ y * PageUnits \in Nat
      /\ (x + 1) * PageUnits = x * PageUnits + PageUnits
  OBVIOUS
<1>2. ASSUME x < y PROVE x * PageUnits < y * PageUnits
  <2>1. y - x - 1 \in Nat
    BY <1>2
  <2>2. (y - x - 1) * PageUnits \in Nat
    BY <2>1
  <2>3. (y - x - 1) * PageUnits = y * PageUnits - x * PageUnits - PageUnits
    OBVIOUS
  <2> QED
    BY <1>1, <2>2, <2>3
<1>3. ASSUME y < x PROVE y * PageUnits < x * PageUnits
  <2>1. x - y - 1 \in Nat
    BY <1>3
  <2>2. (x - y - 1) * PageUnits \in Nat
    BY <2>1
  <2>3. (x - y - 1) * PageUnits = x * PageUnits - y * PageUnits - PageUnits
    OBVIOUS
  <2> QED
    BY <1>1, <2>2, <2>3
<1>4. M!PageOf(x * PageUnits) = x
  <2>1. x * PageUnits = PageUnits * x + 0 /\ 0 \in 0 .. PageUnits - 1
    OBVIOUS
  <2> QED
    BY <1>1, <2>1, DivIs DEF M!PageOf
<1>5. x = y => x * PageUnits = y * PageUnits
  OBVIOUS
<1>6. /\ x * PageUnits < y * PageUnits <=> x < y
      /\ x * PageUnits <= y * PageUnits <=> x <= y
  <2>1. x < y \/ x = y \/ y < x
    OBVIOUS
  <2> QED
    BY <1>1, <1>2, <1>3, <1>5, <2>1
<1> QED
  BY <1>1, <1>4, <1>6

\* Rounding up to pages.
LEMMA Rounded ==
  ASSUME NEW a \in Nat
  PROVE  /\ Pg(a) \in Nat /\ M!PgRoundUp(a) = Pg(a) * PageUnits /\ M!PgRoundUp(a) \in Nat
         /\ a <= M!PgRoundUp(a) /\ M!PageOf(M!PgRoundUp(a)) = Pg(a)
         /\ \A v \in Nat : v * PageUnits < a <=> v < Pg(a)
         /\ \A v \in Nat : a <= v * PageUnits <=> Pg(a) <= v
<1> USE MemSizes
<1>1. PICK q \in Int, r \in 0 .. PageUnits - 1 : a + PageUnits - 1 = PageUnits * q + r
  <2>1. a + PageUnits - 1 \in Int /\ PageUnits \in Nat \ {0}
    OBVIOUS
  <2> QED
    BY <2>1, DivMod
<1>2. Pg(a) = q
  <2>1. a + PageUnits - 1 \in Int /\ PageUnits \in Nat \ {0}
    OBVIOUS
  <2> QED
    BY <1>1, <2>1, DivIs DEF Pg
<1>3. q \in Nat
  <2>1. PageUnits * q >= 0
    BY <1>1
  <2>2. q < 0 => PageUnits * q < 0
    <3>1. ASSUME q < 0 PROVE PageUnits * q < 0
      <4>1. -q - 1 \in Nat
        BY <3>1
      <4>2. PageUnits * (-q - 1) >= 0
        BY <4>1
      <4>3. PageUnits * (-q - 1) = -(PageUnits * q) - PageUnits
        OBVIOUS
      <4> QED
        BY <4>2, <4>3
    <3> QED
      BY <3>1
  <2> QED
    BY <2>1, <2>2
<1>4. q * PageUnits = PageUnits * q /\ q * PageUnits \in Nat
  BY <1>3
<1>5. a <= q * PageUnits /\ q * PageUnits < a + PageUnits
  BY <1>1, <1>4
<1>6. M!PgRoundUp(a) = q * PageUnits
  BY <1>2 DEF M!PgRoundUp, Pg
<1>7. M!PageOf(M!PgRoundUp(a)) = q
  BY <1>3, <1>6, Multiples
<1>8. ASSUME NEW v \in Nat
      PROVE  v * PageUnits < a <=> v < q
  <2>0. /\ v * PageUnits \in Nat /\ v * PageUnits < q * PageUnits <=> v < q
        /\ (v + 1) * PageUnits = v * PageUnits + PageUnits
        /\ (v + 1) * PageUnits <= q * PageUnits <=> v + 1 <= q
    BY <1>3, Multiples
  <2>1. v < q => v * PageUnits < a
    BY <2>0, <1>3, <1>4, <1>5
  <2>2. v * PageUnits < a => v < q
    BY <2>0, <1>4, <1>5
  <2> QED
    BY <2>1, <2>2
<1>9. ASSUME NEW v \in Nat
      PROVE  a <= v * PageUnits <=> q <= v
  <2>1. v * PageUnits \in Nat
    BY Multiples
  <2> QED
    BY <1>3, <1>8, <2>1
<1> QED
  BY <1>2, <1>3, <1>4, <1>5, <1>6, <1>7, <1>8, <1>9

\* A number of pages is that many.
LEMMA PgOf ==
  ASSUME NEW x \in Nat
  PROVE  Pg(x * PageUnits) = x /\ M!PgRoundUp(x * PageUnits) = x * PageUnits
<1>1. x * PageUnits \in Nat
  BY Multiples
<1>2. M!PageOf(M!PgRoundUp(x * PageUnits)) = Pg(x * PageUnits) /\ Pg(x * PageUnits) \in Nat
      /\ Pg(x * PageUnits) <= x
      /\ M!PgRoundUp(x * PageUnits) = Pg(x * PageUnits) * PageUnits
      /\ x * PageUnits <= M!PgRoundUp(x * PageUnits)
  <2>1. x * PageUnits <= x * PageUnits
    BY <1>1
  <2> QED
    BY <1>1, <2>1, Rounded
<1>3. x <= Pg(x * PageUnits)
  BY <1>2, Multiples
<1> QED
  BY <1>2, <1>3

\* A page that is below the end of user memory has an entry, and a table that has it.
LEMMA TableOf ==
  ASSUME NEW v \in M!Vpns
  PROVE  v \in Nat /\ v \div TableLength \in M!Tables
<1> USE MemSizes
<1>1. v \in Nat /\ v <= UserPages - 1 /\ UserPages - 1 \in Nat
  BY DEF M!Vpns
<1>0. TableLength \in Nat \ {0} /\ v \in Int /\ UserPages - 1 \in Int
  BY <1>1
<1>2. PICK q \in Int, r \in 0 .. TableLength - 1 : v = TableLength * q + r
  BY <1>0, DivMod
<1>3. PICK k \in Int, t \in 0 .. TableLength - 1 : UserPages - 1 = TableLength * k + t
  BY <1>0, DivMod
<1>4. v \div TableLength = q /\ (UserPages - 1) \div TableLength = k
  BY <1>1, <1>2, <1>3, DivIs
<1>5. q >= 0
  <2> SUFFICES ASSUME q < 0 PROVE FALSE
    OBVIOUS
  <2>1. -q - 1 \in Nat
    OBVIOUS
  <2>2. TableLength * (-q - 1) >= 0
    BY <2>1
  <2>3. TableLength * (-q - 1) = -(TableLength * q) - TableLength
    OBVIOUS
  <2>4. TableLength * q \in Int
    OBVIOUS
  <2> QED
    BY <1>1, <1>2, <2>2, <2>3, <2>4
<1>6. q <= k
  <2> SUFFICES ASSUME k < q PROVE FALSE
    OBVIOUS
  <2>1. q - k - 1 \in Nat
    OBVIOUS
  <2>2. TableLength * (q - k - 1) >= 0
    BY <2>1
  <2>3. TableLength * (q - k - 1) = TableLength * q - TableLength * k - TableLength
    OBVIOUS
  <2>4. TableLength * q \in Int /\ TableLength * k \in Int
    OBVIOUS
  <2> QED
    BY <1>1, <1>2, <1>3, <2>2, <2>3, <2>4
<1> QED
  BY <1>1, <1>4, <1>5, <1>6 DEF M!Tables

\* The page that kalloc() takes is a free one.
LEMMA Taken ==
  ASSUME NEW S \in SUBSET M!Pages, S # {}
  PROVE  M!Min(S) \in S
<1>1. S \in SUBSET Nat
  BY DEF M!Pages
<1>2. \E x \in S : \A y \in S : x <= y
  BY <1>1, LeastNumber
<1> QED
  BY <1>2 DEF M!Min

\* The fields of an address space.
LEMMA Fields ==
  ASSUME NEW s \in M!Spaces
  PROVE  /\ s.dir \in 0 .. MemoryPages /\ s.ktab \in 0 .. MemoryPages /\ s.guard \in SUBSET M!Vpns
         /\ s.tab \in [M!Tables -> 0 .. MemoryPages] /\ s.pte \in [M!Vpns -> 0 .. MemoryPages]
  BY DEF M!Spaces

LEMMA NilSpace ==
  /\ M!Nil \in M!Spaces /\ M!Owned(M!Nil) = {} /\ M!OnceIn(M!Nil)
  /\ M!Nil.dir = 0 /\ M!Nil.guard = {} /\ \A v \in M!Vpns : M!Nil.pte[v] = 0
  BY MemSizes DEF M!Nil, M!Spaces, M!Owned, M!OnceIn

\* What an address space owns are pages.
LEMMA OwnedPages ==
  ASSUME NEW s \in M!Spaces
  PROVE  /\ M!Owned(s) \subseteq M!Pages
         /\ \A v \in M!Vpns : s.pte[v] # 0 => s.pte[v] \in M!Owned(s) /\ s.pte[v] \in M!Pages
  BY Fields, MemSizes DEF M!Owned, M!Pages

WithPage(s, v, m) == [s EXCEPT !.pte[v] = m]
WithTable(s, t, m) == [s EXCEPT !.tab[t] = m]

\* One more page, for an entry that is empty.
LEMMA Mapping ==
  ASSUME NEW s \in M!Spaces, NEW v \in M!Vpns, NEW m \in M!Pages, s.pte[v] = 0,
         m \notin M!Owned(s), M!OnceIn(s)
  PROVE  LET w == WithPage(s, v, m) IN
         /\ w \in M!Spaces /\ M!Owned(w) = M!Owned(s) \cup {m} /\ M!OnceIn(w)
         /\ w.dir = s.dir /\ w.guard = s.guard /\ w.tab = s.tab /\ w.pte[v] = m
         /\ \A u \in M!Vpns : u # v => w.pte[u] = s.pte[u]
<1> DEFINE w == WithPage(s, v, m)
<1>0. m # 0 /\ m \in 0 .. MemoryPages
  BY MemSizes DEF M!Pages
<1>1. /\ w \in M!Spaces /\ w.dir = s.dir /\ w.ktab = s.ktab /\ w.guard = s.guard
      /\ w.tab = s.tab /\ w.pte[v] = m /\ \A u \in M!Vpns : u # v => w.pte[u] = s.pte[u]
  BY <1>0 DEF M!Spaces, WithPage
<1> HIDE DEF w
<1>2. M!Owned(w) = M!Owned(s) \cup {m}
  BY <1>0, <1>1 DEF M!Owned
<1>3. M!OnceIn(w)
  BY <1>0, <1>1 DEF M!OnceIn, M!Owned
<1> QED
  BY <1>1, <1>2, <1>3 DEF w

\* One more page table.
LEMMA Tabling ==
  ASSUME NEW s \in M!Spaces, NEW t \in M!Tables, NEW m \in M!Pages, s.tab[t] = 0,
         m \notin M!Owned(s), M!OnceIn(s)
  PROVE  LET w == WithTable(s, t, m) IN
         /\ w \in M!Spaces /\ M!Owned(w) = M!Owned(s) \cup {m} /\ M!OnceIn(w)
         /\ w.dir = s.dir /\ w.guard = s.guard /\ w.pte = s.pte
<1> DEFINE w == WithTable(s, t, m)
<1>0. m # 0 /\ m \in 0 .. MemoryPages
  BY MemSizes DEF M!Pages
<1>1. /\ w \in M!Spaces /\ w.dir = s.dir /\ w.ktab = s.ktab /\ w.guard = s.guard
      /\ w.pte = s.pte /\ w.tab[t] = m /\ \A u \in M!Tables : u # t => w.tab[u] = s.tab[u]
  BY <1>0 DEF M!Spaces, WithTable
<1> HIDE DEF w
<1>2. M!Owned(w) = M!Owned(s) \cup {m}
  BY <1>0, <1>1 DEF M!Owned
<1>3. M!OnceIn(w)
  BY <1>0, <1>1 DEF M!OnceIn, M!Owned
<1> QED
  BY <1>1, <1>2, <1>3 DEF w

\* kalloc() and mappages() add a page or, without memory, change nothing.
LEMMA Added ==
  ASSUME s1 \in SUBSET M!Pages, NEW s \in M!Spaces, NEW v \in M!Vpns, s.pte[v] = 0, M!OnceIn(s),
         M!Owned(s) \cap s1 = {}
  PROVE  LET r == M!AddPage(s, v) IN
         /\ r.ok \in BOOLEAN
         /\ ~r.ok => r.free = s1
         /\ r.ok => /\ r.space \in M!Spaces /\ r.free \in SUBSET s1 /\ M!OnceIn(r.space)
                    /\ r.mem \in s1 /\ r.mem \notin r.free /\ r.mem \in M!Pages /\ r.mem # 0
                    /\ M!Owned(r.space) = M!Owned(s) \cup (s1 \ r.free)
                    /\ r.space.dir = s.dir /\ r.space.guard = s.guard
                    /\ r.space.pte[v] = r.mem
                    /\ \A u \in M!Vpns : u # v => r.space.pte[u] = s.pte[u]
<1> DEFINE mem == M!Min(s1)
           rest == s1 \ {mem}
           with == WithPage(s, v, mem)
           t == v \div TableLength
<1>0. \A k \in M!Pages : k # 0
  BY MemSizes DEF M!Pages
<1>1. CASE s1 = {} \/ (s.tab[t] = 0 /\ rest = {})
  <2>1. M!AddPage(s, v) = [ok |-> FALSE, space |-> s, free |-> s1, mem |-> 0]
    BY <1>1 DEF M!AddPage, WithPage, WithTable
  <2> QED
    BY <2>1
<1>2. CASE ~(s1 = {} \/ (s.tab[t] = 0 /\ rest = {})) /\ s.tab[t] # 0
  <2>1. M!AddPage(s, v) = [ok |-> TRUE, space |-> with, free |-> rest, mem |-> mem]
    BY <1>2 DEF M!AddPage, WithPage, WithTable
  <2>2. mem \in s1 /\ mem \in M!Pages /\ mem \notin M!Owned(s)
    BY <1>2, Taken
  <2> HIDE DEF mem
  <2>3. /\ with \in M!Spaces /\ M!Owned(with) = M!Owned(s) \cup {mem} /\ M!OnceIn(with)
        /\ with.dir = s.dir /\ with.guard = s.guard /\ with.pte[v] = mem
        /\ \A u \in M!Vpns : u # v => with.pte[u] = s.pte[u]
    BY <2>2, Mapping
  <2> HIDE DEF with
  <2>4. rest \in SUBSET s1 /\ s1 \ rest = {mem}
    BY <2>2
  <2> QED
    BY <1>0, <2>1, <2>2, <2>3, <2>4
<1>3. CASE ~(s1 = {} \/ (s.tab[t] = 0 /\ rest = {})) /\ s.tab[t] = 0
  <2> DEFINE tab == M!Min(rest)
             both == WithTable(with, t, tab)
  <2>1. M!AddPage(s, v) = [ok |-> TRUE, space |-> both, free |-> rest \ {tab}, mem |-> mem]
    BY <1>3 DEF M!AddPage, WithPage, WithTable
  <2>2. mem \in s1 /\ mem \in M!Pages /\ mem \notin M!Owned(s)
    BY <1>3, Taken
  <2>3. tab \in rest /\ tab \in M!Pages /\ tab \notin M!Owned(s) /\ tab # mem
    <3>1. rest \in SUBSET M!Pages /\ rest # {}
      BY <1>3
    <3>2. tab \in rest
      BY <3>1, Taken
    <3> QED
      BY <3>1, <3>2
  <2> HIDE DEF mem
  <2>4. /\ with \in M!Spaces /\ M!Owned(with) = M!Owned(s) \cup {mem} /\ M!OnceIn(with)
        /\ with.dir = s.dir /\ with.guard = s.guard /\ with.tab = s.tab /\ with.pte[v] = mem
        /\ \A u \in M!Vpns : u # v => with.pte[u] = s.pte[u]
    BY <2>2, Mapping
  <2> HIDE DEF with, tab
  <2>5. t \in M!Tables /\ with.tab[t] = 0 /\ tab \notin M!Owned(with)
    BY <1>3, <2>3, <2>4, TableOf
  <2> HIDE DEF t
  <2>6. /\ both \in M!Spaces /\ M!Owned(both) = M!Owned(with) \cup {tab} /\ M!OnceIn(both)
        /\ both.dir = with.dir /\ both.guard = with.guard /\ both.pte = with.pte
    BY <2>3, <2>4, <2>5, Tabling
  <2> HIDE DEF both
  <2>7. /\ rest \ {tab} \in SUBSET s1 /\ s1 \ (rest \ {tab}) = {mem, tab}
        /\ M!Owned(both) = M!Owned(s) \cup {mem, tab}
    BY <2>2, <2>3, <2>4, <2>6
  <2> QED
    BY <1>0, <2>1, <2>2, <2>4, <2>6, <2>7
<1> QED
  BY <1>1, <1>2, <1>3

\* deallocuvm() takes pages out.
LEMMA ShrinkRight ==
  ASSUME NEW s \in M!Spaces, NEW from, NEW to, M!OnceIn(s), NEW w, w = M!Shrunk(s, from, to)
  PROVE  /\ w \in M!Spaces /\ M!Owned(w) \subseteq M!Owned(s) /\ M!OnceIn(w) /\ w.dir = s.dir
         /\ w.guard = s.guard \ M!Mapped(s, to, from)
         /\ \A v \in M!Vpns : w.pte[v] = IF v \in M!Mapped(s, to, from) THEN 0 ELSE s.pte[v]
<1> DEFINE gone == M!Mapped(s, to, from)
<1>1. w = [s EXCEPT !.pte = [v \in M!Vpns |-> IF v \in gone THEN 0 ELSE s.pte[v]],
                    !.guard = s.guard \ gone]
  BY DEF M!Shrunk, M!Spaces
<1> HIDE DEF gone
<1>2. /\ w \in M!Spaces /\ w.dir = s.dir /\ w.ktab = s.ktab /\ w.tab = s.tab
      /\ w.guard = s.guard \ gone
      /\ \A v \in M!Vpns : w.pte[v] = IF v \in gone THEN 0 ELSE s.pte[v]
  <2>1. /\ w.dir = s.dir /\ w.ktab = s.ktab /\ w.tab = s.tab /\ w.guard = s.guard \ gone
        /\ w.pte = [v \in M!Vpns |-> IF v \in gone THEN 0 ELSE s.pte[v]]
    BY <1>1 DEF M!Spaces
  <2>2. [v \in M!Vpns |-> IF v \in gone THEN 0 ELSE s.pte[v]] \in [M!Vpns -> 0 .. MemoryPages]
    BY Fields, MemSizes
  <2>3. s.guard \ gone \in SUBSET M!Vpns
    BY Fields
  <2>4. w = [dir |-> s.dir, ktab |-> s.ktab, tab |-> s.tab, guard |-> s.guard \ gone,
             pte |-> [v \in M!Vpns |-> IF v \in gone THEN 0 ELSE s.pte[v]]]
    BY <1>1 DEF M!Spaces
  <2>5. w \in M!Spaces
    BY <2>2, <2>3, <2>4, Fields DEF M!Spaces
  <2> QED
    BY <2>1, <2>5
<1>3. M!Owned(w) \subseteq M!Owned(s) /\ M!OnceIn(w)
  BY <1>2 DEF M!Owned, M!OnceIn
<1> QED
  BY <1>2, <1>3 DEF gone

-----------------------------------------------------------------------------
(* Memory: a step of one process, or of one and the child that it makes *)

\* What a process knows.
Own(p) == M!Shape(p) /\ M!Progress(p) /\ M!Contents(p)

\* A process that a step leaves alone.
Same(q) ==
  /\ s3'[q] = s3[q] /\ s4'[q] = s4[q] /\ s5'[q] = s5[q]
  /\ s6'[q] = s6[q] /\ s7'[q] = s7[q] /\ s8'[q] = s8[q]
  /\ s9'[q] = s9[q] /\ s10'[q] = s10[q] /\ s11'[q] = s11[q]

\* The types of what belongs to a process.
LEMMA TypesOf ==
  ASSUME M!Types, NEW p \in M!Slots
  PROVE  /\ s1 \in SUBSET M!Pages /\ s2 \in [M!Pages -> 0 .. M!Guard]
         /\ s4[p] \in M!Spaces /\ s7[p] \in M!Spaces
         /\ s5[p] \in Nat /\ s5[p] <= M!KERNBASE /\ s8[p] \in Nat /\ s8[p] <= M!KERNBASE
         /\ s6[p] \in 0 .. MemoryPages /\ s10[p] \in 0 .. MemorySlots /\ s9[p] \in Seq(Nat)
         /\ s11[p] \in [M!Vpns -> 0 .. M!Unmapped]
  BY MemSizes DEF M!Types

\* A process that keeps all it has and all that is in its pages.
LEMMA KeptOwn ==
  ASSUME M!Types, NEW q \in M!Slots, Own(q), Same(q),
         \A k \in M!Mine(q) : s2'[k] = s2[k],
         s3[q] = "fork" =>
           /\ s3'[s10[q]] = "EMBRYO"
           /\ \A o \in M!Slots \ {q} : s10'[o] # s10[q]
  PROVE  Own(q)'
<1>1. M!Shape(q)'
  BY DEF Own, M!Shape, Same
<1>2. M!Progress(q)'
  BY DEF Own, M!Progress, Same
<1>3. ASSUME NEW v \in M!Vpns
      PROVE  /\ s4[q].pte[v] # 0 => s2'[s4[q].pte[v]] = s2[s4[q].pte[v]]
             /\ s7[q].pte[v] # 0 => s2'[s7[q].pte[v]] = s2[s7[q].pte[v]]
  BY TypesOf, OwnedPages DEF M!Mine
<1>4. \A v \in M!Vpns : M!Found(q, v)' = M!Found(q, v)
  BY <1>3 DEF M!Found, Same
<1>5. M!Contents(q)'
  BY <1>3, <1>4 DEF Own, M!Contents, Same
<1> QED
  BY <1>1, <1>2, <1>5 DEF Own

\* Pages go from one to another of: the free ones, those of p and those of c.
LEMMA Handed ==
  ASSUME M!Types, M!PagesOwnedOnce, NEW p \in M!Slots, NEW c \in M!Slots,
         \A q \in M!Slots \ {p, c} : Same(q),
         s1' \cup M!Mine(p)' \cup M!Mine(c)' = s1 \cup M!Mine(p) \cup M!Mine(c),
         M!Mine(p)' \cap s1' = {}, M!Mine(c)' \cap s1' = {},
         p # c => M!Mine(p)' \cap M!Mine(c)' = {},
         M!Sorted(p)', M!Sorted(c)'
  PROVE  M!PagesOwnedOnce'
<1>1. \A q \in M!Slots \ {p, c} : M!Mine(q)' = M!Mine(q) /\ (M!Sorted(q) => M!Sorted(q)')
  BY DEF M!Mine, M!Stack, M!Sorted, Same
<1> DEFINE L == s1 \cup M!Mine(p) \cup M!Mine(c)
<1>2. s1' \subseteq L /\ M!Mine(p)' \subseteq L /\ M!Mine(c)' \subseteq L
  OBVIOUS
<1>3. \A q \in M!Slots \ {p, c} : M!Mine(q) \cap L = {}
  BY DEF M!PagesOwnedOnce
<1>4. \A q \in M!Slots : M!Sorted(q)'
  BY <1>1 DEF M!PagesOwnedOnce
<1>5. ASSUME NEW q \in M!Slots
      PROVE  M!Mine(q)' \cap s1' = {}
  BY <1>1, <1>2, <1>3
<1>6. ASSUME NEW q \in M!Slots, NEW o \in M!Slots \ {q}
      PROVE  M!Mine(q)' \cap M!Mine(o)' = {}
  <2>1. CASE q \in {p, c} /\ o \in {p, c}
    BY <2>1
  <2>2. CASE q \in {p, c} /\ o \notin {p, c}
    BY <2>2, <1>1, <1>2, <1>3
  <2>3. CASE q \notin {p, c} /\ o \in {p, c}
    BY <2>3, <1>1, <1>2, <1>3
  <2>4. CASE q \notin {p, c} /\ o \notin {p, c}
    BY <2>4, <1>1 DEF M!PagesOwnedOnce
  <2> QED
    BY <2>1, <2>2, <2>3, <2>4
<1>7. s1' \cup UNION {M!Mine(q)' : q \in M!Slots} = M!Pages
  <2>1. s1 \cup UNION {M!Mine(q) : q \in M!Slots} = M!Pages
    BY DEF M!PagesOwnedOnce
  <2>2. ASSUME NEW k \in M!Pages
        PROVE  k \in s1' \cup UNION {M!Mine(q)' : q \in M!Slots}
    <3>1. k \in L \/ \E q \in M!Slots \ {p, c} : k \in M!Mine(q)
      BY <2>1
    <3> QED
      BY <3>1, <1>1
  <2>3. ASSUME NEW k \in s1' \cup UNION {M!Mine(q)' : q \in M!Slots}
        PROVE  k \in M!Pages
    <3>1. k \in L \/ \E q \in M!Slots \ {p, c} : k \in M!Mine(q)
      BY <1>1, <1>2
    <3> QED
      BY <3>1, <2>1
  <2> HIDE DEF L
  <2> QED
    BY <2>2, <2>3
<1> HIDE DEF L
<1> QED
  BY <1>4, <1>5, <1>6, <1>7 DEF M!PagesOwnedOnce

\* So the invariant is kept when the two keep it.
LEMMA StepKeeps ==
  ASSUME M!IndInv, NEW p \in M!Slots, NEW c \in M!Slots,
         \A q \in M!Slots \ {p, c} : Same(q),
         \A k \in M!Pages : k \notin s1 \cup M!Mine(p) \cup M!Mine(c) => s2'[k] = s2[k],
         \A q \in M!Slots \ {p, c} : s3[q] = "fork" =>
           /\ s3'[s10[q]] = "EMBRYO"
           /\ s10'[p] # s10[q] /\ s10'[c] # s10[q],
         s1' \cup M!Mine(p)' \cup M!Mine(c)' = s1 \cup M!Mine(p) \cup M!Mine(c),
         M!Mine(p)' \cap s1' = {}, M!Mine(c)' \cap s1' = {},
         p # c => M!Mine(p)' \cap M!Mine(c)' = {},
         M!Types', M!Sorted(p)', M!Sorted(c)', Own(p)', Own(c)'
  PROVE  M!IndInv'
<1>1. M!PagesOwnedOnce'
  BY Handed DEF M!IndInv
<1>2. ASSUME NEW q \in M!Slots \ {p, c}
      PROVE  Own(q)'
  <2>1. \A k \in M!Mine(q) : k \in M!Pages /\ k \notin s1 \cup M!Mine(p) \cup M!Mine(c)
    <3>1. M!Mine(q) \subseteq M!Pages
      BY DEF M!IndInv, M!PagesOwnedOnce
    <3>2. M!Mine(q) \cap (s1 \cup M!Mine(p) \cup M!Mine(c)) = {}
      BY DEF M!IndInv, M!PagesOwnedOnce
    <3> QED
      BY <3>1, <3>2
  <2>2. s3[q] = "fork" => \A o \in M!Slots \ {q} : s10'[o] # s10[q]
    BY DEF M!IndInv, M!Shape, Same
  <2>3. M!Types /\ Own(q) /\ Same(q)
    BY DEF M!IndInv, Own
  <2> QED
    BY <2>1, <2>2, <2>3, KeptOwn
<1> QED
  BY <1>1, <1>2 DEF M!IndInv, Own

\* A step of one process that is in no fork(), or in the middle of one.
LEMMA StepOfOne ==
  ASSUME M!IndInv, NEW p \in M!Slots,
         \A q \in M!Slots \ {p} : Same(q),
         \A k \in M!Pages : k \notin s1 \cup M!Mine(p) => s2'[k] = s2[k],
         s10'[p] \in {0, s10[p]}, s3[p] # "EMBRYO",
         s1' \cup M!Mine(p)' = s1 \cup M!Mine(p), M!Mine(p)' \cap s1' = {},
         M!Types', M!Sorted(p)', Own(p)'
  PROVE  M!IndInv'
<1>1. ASSUME NEW q \in M!Slots \ {p}, s3[q] = "fork"
      PROVE  s3'[s10[q]] = "EMBRYO" /\ s10'[p] # s10[q]
  <2>1. /\ s10[q] \in M!Slots /\ s3[s10[q]] = "EMBRYO"
        /\ \A o \in M!Slots \ {q} : s10[o] # s10[q]
    BY <1>1 DEF M!IndInv, M!Shape
  <2>2. 0 \notin M!Slots
    BY DEF M!Slots
  <2> QED
    BY <2>1, <2>2 DEF Same
<1>2. \A q \in M!Slots \ {p, p} : Same(q)
  OBVIOUS
<1>3. /\ \A k \in M!Pages : k \notin s1 \cup M!Mine(p) \cup M!Mine(p) => s2'[k] = s2[k]
      /\ s1' \cup M!Mine(p)' \cup M!Mine(p)' = s1 \cup M!Mine(p) \cup M!Mine(p)
      /\ \A q \in M!Slots \ {p, p} : s3[q] = "fork" =>
           /\ s3'[s10[q]] = "EMBRYO"
           /\ s10'[p] # s10[q] /\ s10'[p] # s10[q]
  BY <1>1
<1> QED
  BY <1>2, <1>3, StepKeeps

-----------------------------------------------------------------------------
(* Memory: the calls that a process begins, and those of one step *)

\* What the invariant says about one process.
LEMMA Have ==
  ASSUME M!IndInv, NEW p \in M!Slots
  PROVE  /\ M!Types /\ M!Shape(p) /\ M!Progress(p) /\ M!Contents(p) /\ M!Sorted(p)
         /\ M!Mine(p) \in SUBSET M!Pages /\ M!Mine(p) \cap s1 = {}
         /\ M!Owned(s4[p]) \cap s1 = {} /\ M!Owned(s7[p]) \cap s1 = {}
         /\ M!OnceIn(s4[p]) /\ M!OnceIn(s7[p]) /\ M!Owned(s4[p]) \cap M!Owned(s7[p]) = {}
         /\ M!Stack(p) \cap M!Owned(s4[p]) = {} /\ M!Stack(p) \cap M!Owned(s7[p]) = {}
<1>1. M!Types /\ M!Shape(p) /\ M!Progress(p) /\ M!Contents(p) /\ M!PagesOwnedOnce
  BY DEF M!IndInv
<1>2. M!Sorted(p) /\ M!Mine(p) \in SUBSET M!Pages /\ M!Mine(p) \cap s1 = {}
  BY <1>1 DEF M!PagesOwnedOnce
<1> QED
  BY <1>1, <1>2 DEF M!Sorted, M!Mine

\* No page is below zero.
LEMMA NoPage ==
  /\ 0 = M!PgRoundUp(0) /\ \A v \in M!Vpns : ~(v * PageUnits < 0)
<1>1. 0 * PageUnits = 0 /\ 0 \in Nat /\ 0 <= 0
  BY MemSizes
<1>2. Pg(0) = 0
  BY <1>1, Rounded
<1>3. \A v \in M!Vpns : v \in Nat
  BY TableOf
<1> QED
  BY <1>1, <1>2, <1>3, Rounded

LEMMA ForkKeeps ==
  ASSUME M!IndInv, NEW p \in M!Slots, NEW c \in M!Slots, M!Fork(p, c)
  PROVE  M!IndInv'
<1> USE DEF M!Fork
<1> DEFINE m == M!Min(s1)
<1>0. /\ M!Types /\ p # c /\ m \in s1 /\ m \in M!Pages /\ m # 0 /\ m \in 0 .. MemoryPages
      /\ s1' = s1 \ {m} /\ s6'[c] = m /\ s6'[p] = s6[p] /\ c # 0
      /\ c \in 0 .. MemorySlots
  <2>1. M!Types
    BY Have
  <2>2. s1 \in SUBSET M!Pages /\ s1 # {}
    BY <2>1 DEF M!Types
  <2>3. m \in s1
    BY <2>2, Taken
  <2>4. m \in M!Pages /\ m # 0 /\ m \in 0 .. MemoryPages
    <3> HIDE DEF m
    <3> QED
      BY <2>2, <2>3, MemSizes DEF M!Pages
  <2>5. p # c /\ c # 0 /\ c \in 0 .. MemorySlots
    BY MemSizes DEF M!Slots
  <2>6. s1' = s1 \ {m} /\ s6'[c] = m /\ s6'[p] = s6[p]
    BY <2>1, <2>5 DEF M!Types
  <2> QED
    BY <2>1, <2>3, <2>4, <2>5, <2>6
<1> HIDE DEF m
<1>1. M!Types'
  BY <1>0 DEF M!Types, m
<1>2. ASSUME NEW q \in M!Slots \ {p, c}
      PROVE  Same(q) /\ s10[q] # c
  <2>1. Same(q)
    BY <1>0 DEF Same, M!Types
  <2>2. s10[q] # c
    BY <1>0, Have DEF M!Shape
  <2> QED
    BY <2>1, <2>2
<1>3. /\ s4[c] = M!Nil /\ s7[c] = M!Nil /\ s6[c] = 0
      /\ s4'[c] = M!Nil /\ s7'[c] = M!Nil /\ s4'[p] = s4[p] /\ s7'[p] = s7[p]
  BY Have DEF M!Shape
<1>4. /\ M!Mine(c) = {} /\ M!Mine(c)' = {m} /\ M!Mine(p)' = M!Mine(p)
      /\ M!Sorted(p)' /\ M!Sorted(c)'
  <2>1. M!Mine(c) = {} /\ M!Mine(c)' = {m} /\ M!Mine(p)' = M!Mine(p)
    BY <1>0, <1>3, NilSpace DEF M!Mine, M!Stack
  <2>2. M!Sorted(p)'
    BY <1>0, <1>3, Have DEF M!Sorted, M!Stack
  <2>3. M!Sorted(c)'
    BY <1>0, <1>3, NilSpace DEF M!Sorted, M!Stack
  <2> QED
    BY <2>1, <2>2, <2>3
<1>5. s3'[p] = "fork" /\ s3'[c] = "EMBRYO" /\ s10'[p] = c /\ s10'[c] = s10[c]
  BY <1>0 DEF M!Types
<1>6. Own(p)'
  <2>0. /\ M!Shape(p) /\ M!Progress(p) /\ M!Contents(p) /\ s3[p] = "user" /\ s7[p] = M!Nil
        /\ s8[p] = 0 /\ s5[p] \in Nat
    BY Have, TypesOf DEF M!Shape
  <2>1. M!Shape(p)'
    <3>1. s10[c] = 0
      BY Have DEF M!Shape
    <3> QED
      BY <1>0, <1>2, <1>5, <2>0, <3>1 DEF M!Shape, Same
  <2>2. M!Progress(p)'
    <3>1. s8[p] = M!PgRoundUp(s8[p]) /\ s8[p] <= M!PgRoundUp(s5[p])
      BY <2>0, NoPage, Rounded
    <3> QED
      BY <1>5, <2>0, <3>1, NoPage, NilSpace DEF M!Progress
  <2>3. M!Contents(p)'
    <3>1. \A v \in M!Vpns : M!Found(p, v)' = M!Found(p, v)
      BY DEF M!Found
    <3> QED
      BY <1>5, <2>0, <3>1, NilSpace DEF M!Contents
  <2> QED
    BY <2>1, <2>2, <2>3 DEF Own
<1>7. Own(c)'
  <2>0. M!Shape(c) /\ M!Progress(c) /\ s3[c] = "UNUSED"
    BY Have
  <2>1. M!Shape(c)'
    BY <1>0, <1>3, <1>5, <2>0 DEF M!Shape
  <2>2. M!Progress(c)'
    BY <1>3, <1>5, <2>0 DEF M!Progress
  <2>3. M!Contents(c)'
    BY <1>5 DEF M!Contents
  <2> QED
    BY <2>1, <2>2, <2>3 DEF Own
<1>8. /\ s1' \cup M!Mine(p)' \cup M!Mine(c)' = s1 \cup M!Mine(p) \cup M!Mine(c)
      /\ M!Mine(p)' \cap s1' = {} /\ M!Mine(c)' \cap s1' = {} /\ M!Mine(p)' \cap M!Mine(c)' = {}
  <2>1. M!Mine(p) \cap s1 = {}
    BY Have
  <2> QED
    BY <1>0, <1>4, <2>1
<1>9. ASSUME NEW q \in M!Slots \ {p, c}, s3[q] = "fork"
      PROVE  s3'[s10[q]] = "EMBRYO" /\ s10'[p] # s10[q] /\ s10'[c] # s10[q]
  <2>1. s10[q] \in M!Slots /\ s3[s10[q]] = "EMBRYO" /\ s10[c] = 0 /\ 0 \notin M!Slots
    BY <1>9, Have DEF M!Shape, M!Slots
  <2>2. s10[q] # p /\ s10[q] # c
    BY <2>1
  <2> QED
    BY <1>0, <1>2, <1>5, <2>1, <2>2 DEF M!Types
<1>10. \A k \in M!Pages : k \notin s1 \cup M!Mine(p) \cup M!Mine(c) => s2'[k] = s2[k]
  OBVIOUS
<1> HIDE DEF M!Fork
<1> QED
  BY <1>1, <1>2, <1>4, <1>6, <1>7, <1>8, <1>9, <1>10, StepKeeps

LEMMA ExecKeeps ==
  ASSUME M!IndInv, NEW p \in M!Slots, NEW ends \in SegmentEnds, M!Exec(p, ends)
  PROVE  M!IndInv'
<1> USE DEF M!Exec
<1>0. M!Types /\ M!Shape(p) /\ M!Progress(p) /\ M!Contents(p) /\ M!Sorted(p)
              /\ M!Mine(p) \cap s1 = {}
  BY Have
<1>1. M!Types'
  <2>1. ends \in Seq(Nat)
    BY PartsAssumption
  <2> QED
    BY <1>0, <2>1 DEF M!Types
<1>2. \A q \in M!Slots \ {p} : Same(q)
  BY <1>0 DEF Same, M!Types
<1>3. M!Mine(p)' = M!Mine(p) /\ M!Sorted(p)'
  BY <1>0 DEF M!Mine, M!Stack, M!Sorted
<1>4. s3'[p] = "exec" /\ s9'[p] = ends
  BY <1>0 DEF M!Types
<1>5. Own(p)'
  <2>0. s3[p] = "user" /\ s7[p] = M!Nil /\ s8[p] = 0 /\ s10[p] = 0
    BY <1>0 DEF M!Shape
  <2>1. M!Shape(p)'
    BY <1>0, <1>4, <2>0 DEF M!Shape
  <2>2. M!Progress(p)'
    BY <1>0, <1>4, <2>0, NoPage, NilSpace DEF M!Progress
  <2>3. M!Contents(p)'
    <3>1. \A v \in M!Vpns : M!Found(p, v)' = M!Found(p, v)
      BY DEF M!Found
    <3> QED
      BY <1>0, <1>4, <2>0, <3>1, NilSpace DEF M!Contents
  <2> QED
    BY <2>1, <2>2, <2>3 DEF Own
<1>6. /\ \A k \in M!Pages : k \notin s1 \cup M!Mine(p) => s2'[k] = s2[k]
      /\ s10'[p] \in {0, s10[p]} /\ s3[p] # "EMBRYO"
      /\ s1' \cup M!Mine(p)' = s1 \cup M!Mine(p) /\ M!Mine(p)' \cap s1' = {}
  BY <1>0, <1>3
<1> HIDE DEF M!Exec
<1> QED
  BY <1>1, <1>2, <1>3, <1>5, <1>6, StepOfOne

LEMMA GrowKeeps ==
  ASSUME M!IndInv, NEW p \in M!Slots, NEW n \in SbrkSizes, M!Grow(p, n)
  PROVE  M!IndInv'
<1> USE DEF M!Grow
<1>0. M!Types /\ M!Shape(p) /\ M!Progress(p) /\ M!Contents(p) /\ M!Sorted(p)
              /\ M!Mine(p) \cap s1 = {}
  BY Have
<1>1. n \in Nat /\ s5[p] \in Nat /\ s5[p] <= M!KERNBASE /\ M!KERNBASE \in Nat
  BY <1>0, TypesOf, MemSizes, PartsAssumption
<1>2. M!Types'
  <2>1. <<s5[p] + n>> \in Seq(Nat)
    BY <1>1
  <2> QED
    BY <1>0, <2>1 DEF M!Types
<1>3. \A q \in M!Slots \ {p} : Same(q)
  BY <1>0 DEF Same, M!Types
<1>4. M!Mine(p)' = M!Mine(p) /\ M!Sorted(p)'
  BY <1>0 DEF M!Mine, M!Stack, M!Sorted
<1>5. /\ s3'[p] = "grow" /\ s8'[p] = s5[p] /\ s9'[p] # <<>>
      /\ Head(s9'[p]) = s5[p] + n
  BY <1>0, <1>1 DEF M!Types
<1>6. Own(p)'
  <2>0. s3[p] = "user" /\ s7[p] = M!Nil /\ s10[p] = 0
    BY <1>0 DEF M!Shape
  <2>1. M!Shape(p)'
    BY <1>0, <1>5, <2>0 DEF M!Shape
  <2>2. M!Progress(p)'
    <3>1. /\ M!PgRoundUp(s5[p]) \in Nat
          /\ \A v \in M!Vpns : v * PageUnits < s5[p] <=> v * PageUnits < M!PgRoundUp(s5[p])
      BY <1>1, Rounded, Multiples, TableOf
    <3>2. M!PgRoundUp(s5[p]) <= M!PgRoundUp(s5[p] + n)
      <4>1. s5[p] + n \in Nat /\ s5[p] + n <= M!PgRoundUp(s5[p] + n)
        BY <1>1, Rounded
      <4>2. s5[p] <= Pg(s5[p] + n) * PageUnits /\ Pg(s5[p] + n) \in Nat
        <5>1. Pg(s5[p] + n) \in Nat /\ M!PgRoundUp(s5[p] + n) = Pg(s5[p] + n) * PageUnits
          BY <4>1, Rounded
        <5>2. Pg(s5[p] + n) * PageUnits \in Nat
          BY <5>1, Multiples
        <5> QED
          BY <1>1, <4>1, <5>1, <5>2
      <4>3. Pg(s5[p]) <= Pg(s5[p] + n) /\ Pg(s5[p]) \in Nat
        BY <1>1, <4>2, Rounded
      <4> QED
        BY <1>1, <4>1, <4>2, <4>3, Rounded, Multiples
    <3> QED
      BY <1>0, <1>5, <2>0, <3>1, <3>2, NilSpace DEF M!Progress
  <2>3. M!Contents(p)'
    <3>1. \A v \in M!Vpns : M!Found(p, v)' = M!Found(p, v)
      BY DEF M!Found
    <3>2. ASSUME NEW v \in M!Vpns, ~(v * PageUnits < s5[p])
          PROVE  s11[p][v] = M!Unmapped /\ v \notin s4[p].guard /\ s4[p].pte[v] = 0
      <4>1. s4[p].pte[v] = 0
        BY <1>0, <2>0, <3>2 DEF M!Progress
      <4> QED
        BY <1>0, <2>0, <4>1 DEF M!Progress, M!Contents, M!Found
    <3> QED
      BY <1>0, <1>5, <2>0, <3>1, <3>2 DEF M!Contents
  <2> QED
    BY <2>1, <2>2, <2>3 DEF Own
<1>7. /\ \A k \in M!Pages : k \notin s1 \cup M!Mine(p) => s2'[k] = s2[k]
      /\ s10'[p] \in {0, s10[p]} /\ s3[p] # "EMBRYO"
      /\ s1' \cup M!Mine(p)' = s1 \cup M!Mine(p) /\ M!Mine(p)' \cap s1' = {}
  BY <1>0, <1>4
<1> HIDE DEF M!Grow
<1> QED
  BY <1>2, <1>3, <1>4, <1>6, <1>7, StepOfOne

\* deallocuvm() in a process that runs: what is left is right.
LEMMA ShrinkKeeps ==
  ASSUME M!IndInv, NEW p \in M!Slots, NEW n \in SbrkSizes, M!Shrink(p, n)
  PROVE  M!IndInv'
<1> USE DEF M!Shrink
<1> DEFINE to == s5[p] + n
           gone == M!Mapped(s4[p], to, s5[p])
           w == M!Shrunk(s4[p], s5[p], to)
<1>0. /\ M!Types /\ M!Shape(p) /\ M!Progress(p) /\ M!Contents(p) /\ M!Sorted(p)
      /\ M!Mine(p) \cap s1 = {}
      /\ M!Mine(p) \in SUBSET M!Pages /\ s3[p] = "user"
  BY Have
<1>1. to \in Nat /\ s5[p] \in Nat /\ to < s5[p] /\ s5[p] <= M!KERNBASE /\ M!KERNBASE \in Nat
  BY <1>0, TypesOf, MemSizes, PartsAssumption
<1>2. s4'[p] = w /\ \A q \in M!Slots \ {p} : s4'[q] = s4[q]
  BY <1>0 DEF M!Types
<1>3. /\ w \in M!Spaces /\ M!Owned(w) \subseteq M!Owned(s4[p]) /\ M!OnceIn(w)
      /\ w.guard = s4[p].guard \ gone
      /\ \A v \in M!Vpns : w.pte[v] = IF v \in gone THEN 0 ELSE s4[p].pte[v]
  <2>1. s4[p] \in M!Spaces /\ M!OnceIn(s4[p])
    BY Have, TypesOf
  <2> QED
    BY <2>1, ShrinkRight
<1>4. \A v \in M!Vpns : v \in gone <=> s4[p].pte[v] # 0 /\ ~(v * PageUnits < to)
  <2> SUFFICES ASSUME NEW v \in M!Vpns
               PROVE  v \in gone <=> s4[p].pte[v] # 0 /\ ~(v * PageUnits < to)
    OBVIOUS
  <2>1. v \in Nat /\ v * PageUnits \in Nat
    BY TableOf, Multiples
  <2>2. v * PageUnits >= M!PgRoundUp(to) <=> ~(v * PageUnits < to)
    <3>1. /\ Pg(to) \in Nat /\ M!PgRoundUp(to) = Pg(to) * PageUnits /\ M!PgRoundUp(to) \in Nat
          /\ to <= v * PageUnits <=> Pg(to) <= v
      BY <1>1, <2>1, Rounded
    <3>2. Pg(to) * PageUnits <= v * PageUnits <=> Pg(to) <= v
      BY <2>1, <3>1, Multiples
    <3> QED
      BY <1>1, <2>1, <3>1, <3>2
  <2>3. s4[p].pte[v] # 0 <=> v * PageUnits < s5[p]
    BY <1>0 DEF M!Progress
  <2> QED
    BY <2>2, <2>3 DEF M!Mapped
<1> HIDE DEF gone, w
<1> DEFINE pages == M!Owned(s4[p]) \ M!Owned(w)
<1>5. /\ s1' = s1 \cup pages
      /\ s2' = [k \in M!Pages |-> IF k \in pages THEN M!Junk ELSE s2[k]]
  BY <1>2 DEF M!Freed
<1>6. pages \in SUBSET M!Pages /\ pages \in SUBSET M!Mine(p)
  BY <1>0 DEF M!Mine
<1>7. M!Types'
  <2>1. s1' \in SUBSET M!Pages /\ s2' \in [M!Pages -> 0 .. M!Guard]
    BY <1>0, <1>5, <1>6, MemSizes DEF M!Types
  <2>2. s4' \in [M!Slots -> M!Spaces]
    BY <1>0, <1>2, <1>3 DEF M!Types
  <2>3. s5' \in [M!Slots -> 0 .. M!KERNBASE]
    <3>1. to \in 0 .. M!KERNBASE /\ s5 \in [M!Slots -> 0 .. M!KERNBASE]
      BY <1>0, <1>1 DEF M!Types
    <3>2. s5' = s5 \/ s5' = [s5 EXCEPT ![p] = to]
      OBVIOUS
    <3> QED
      BY <3>1, <3>2
  <2>4. s3' = [s3 EXCEPT ![p] = "faulting"] \/ s3' = s3
    OBVIOUS
  <2>5. s11' \in [M!Slots -> [M!Vpns -> 0 .. M!Unmapped]]
    BY <1>0, MemSizes DEF M!Types, gone
  <2>6. UNCHANGED <<s6, s7, s8, s9, s10>>
    BY DEF M!calls
  <2> QED
    BY <1>0, <2>1, <2>2, <2>3, <2>4, <2>5, <2>6 DEF M!Types
<1>8. \A q \in M!Slots \ {p} : Same(q)
  BY <1>0, <1>2 DEF Same, M!Types, M!calls
<1>9. /\ s6'[p] = s6[p] /\ s7'[p] = s7[p] /\ s8'[p] = s8[p]
      /\ s9'[p] = s9[p] /\ s10'[p] = s10[p]
  BY DEF M!calls
<1>10. /\ M!Mine(p) = M!Mine(p)' \cup pages /\ M!Mine(p)' \cap pages = {} /\ M!Sorted(p)'
  <2>1. M!Owned(s4[p])' = M!Owned(w) /\ M!Owned(s7[p])' = M!Owned(s7[p]) /\ M!Stack(p)' = M!Stack(p)
    BY <1>2, <1>9 DEF M!Stack
  <2>2. M!Sorted(p)'
    BY <1>0, <1>2, <1>3, <1>9, <2>1 DEF M!Sorted
  <2> QED
    BY <1>0, <1>3, <2>1, <2>2 DEF M!Mine, M!Sorted
<1>11. Own(p)'
  <2>0. \/ to = 0 /\ s3'[p] = "faulting" /\ s5'[p] = s5[p]
        \/ to # 0 /\ s3'[p] = "user" /\ s5'[p] = to
    BY <1>0 DEF M!Types
  <2>1. M!Shape(p)'
    BY <1>0, <1>9, <2>0 DEF M!Shape
  <2>2. M!Progress(p)'
    <3>1. \A v \in M!Vpns : s4'[p].pte[v] # 0 <=> v * PageUnits < to
      <4> SUFFICES ASSUME NEW v \in M!Vpns
                   PROVE  s4'[p].pte[v] # 0 <=> v * PageUnits < to
        OBVIOUS
      <4>1. v * PageUnits \in Nat
        BY TableOf, Multiples
      <4>2. s4[p].pte[v] # 0 <=> v * PageUnits < s5[p]
        BY <1>0 DEF M!Progress
      <4> QED
        BY <1>1, <1>2, <1>3, <1>4, <4>1, <4>2
    <3>2. \A v \in s4'[p].guard : s4'[p].pte[v] # 0
      <4> SUFFICES ASSUME NEW v \in s4'[p].guard
                   PROVE  s4'[p].pte[v] # 0
        OBVIOUS
      <4>1. v \in s4[p].guard /\ v \notin gone /\ v \in M!Vpns
        BY <1>0, <1>2, <1>3, TypesOf, Fields
      <4> QED
        BY <1>0, <1>2, <1>3, <4>1 DEF M!Progress
    <3>3. \A v \in s7'[p].guard : s7'[p].pte[v] # 0
      BY <1>0, <1>9 DEF M!Progress
    <3> QED
      BY <2>0, <3>1, <3>2, <3>3, NoPage DEF M!Progress
  <2>3. M!Contents(p)'
    <3> SUFFICES ASSUME NEW v \in M!Vpns
                 PROVE  s11'[p][v] = M!Found(p, v)'
      BY <2>0 DEF M!Contents
    <3>1. s11'[p][v] = IF v \in gone THEN M!Unmapped ELSE s11[p][v]
      BY <1>0 DEF M!Types, gone
    <3>2. s11[p][v] = M!Found(p, v)
      BY <1>0 DEF M!Contents
    <3>3. CASE v \in gone
      BY <1>2, <1>3, <3>1, <3>3 DEF M!Found
    <3>4. CASE v \notin gone
      <4>1. w.pte[v] = s4[p].pte[v] /\ (v \in w.guard <=> v \in s4[p].guard)
        BY <1>3, <3>4
      <4>2. w.pte[v] # 0 => w.pte[v] \in M!Pages /\ w.pte[v] \notin pages
        BY <1>3, OwnedPages
      <4>3. w.pte[v] # 0 => s2'[w.pte[v]] = s2[w.pte[v]]
        BY <1>5, <4>2
      <4> QED
        BY <1>2, <3>1, <3>2, <3>4, <4>1, <4>3 DEF M!Found
    <3> QED
      BY <3>3, <3>4
  <2> QED
    BY <2>1, <2>2, <2>3 DEF Own
<1>12. \A k \in M!Pages : k \notin s1 \cup M!Mine(p) => s2'[k] = s2[k]
  BY <1>5, <1>6
<1>13. /\ s10'[p] \in {0, s10[p]} /\ s3[p] # "EMBRYO"
       /\ s1' \cup M!Mine(p)' = s1 \cup M!Mine(p) /\ M!Mine(p)' \cap s1' = {}
  BY <1>0, <1>5, <1>9, <1>10
<1> HIDE DEF M!Shrink
<1> QED
  BY <1>7, <1>8, <1>10, <1>11, <1>12, <1>13, StepOfOne

LEMMA StoreKeeps ==
  ASSUME M!IndInv, NEW p \in M!Slots, NEW v \in M!Vpns, M!Store(p, v)
  PROVE  M!IndInv'
<1> USE DEF M!Store
<1> DEFINE k == s4[p].pte[v]
<1>0. /\ M!Types /\ M!Shape(p) /\ M!Progress(p) /\ M!Contents(p) /\ M!Sorted(p)
      /\ M!Mine(p) \cap s1 = {}
      /\ s4[p] \in M!Spaces /\ M!OnceIn(s4[p]) /\ s3[p] = "user"
  BY Have, TypesOf
<1>1. k \in M!Owned(s4[p]) /\ k \in M!Pages /\ k \in M!Mine(p) /\ p \in 0 .. MemorySlots
  BY <1>0, OwnedPages, MemSizes DEF M!Mine, M!Slots
<1>2. M!Types'
  <2>1. p \in 0 .. M!Guard /\ p \in 0 .. M!Unmapped
    BY <1>1, MemSizes
  <2>2. s2' \in [M!Pages -> 0 .. M!Guard] /\ s11' \in [M!Slots -> [M!Vpns -> 0 .. M!Unmapped]]
    BY <1>0, <2>1 DEF M!Types
  <2> QED
    BY <1>0, <2>2 DEF M!Types, M!procs, M!calls
<1>3. \A q \in M!Slots \ {p} : Same(q)
  BY <1>0 DEF Same, M!Types, M!procs, M!calls
<1>4. M!Mine(p)' = M!Mine(p) /\ M!Sorted(p)'
  BY <1>0 DEF M!Mine, M!Stack, M!Sorted, M!procs, M!calls
<1>5. Own(p)'
  <2>1. M!Shape(p)'
    BY <1>0 DEF M!Shape, M!procs, M!calls
  <2>2. M!Progress(p)'
    BY <1>0 DEF M!Progress, M!procs, M!calls
  <2>3. M!Contents(p)'
    <3> SUFFICES ASSUME NEW u \in M!Vpns
                 PROVE  s11'[p][u] = M!Found(p, u)'
      BY <1>0 DEF M!Contents, M!procs
    <3>1. s11'[p][u] = IF u = v THEN p ELSE s11[p][u]
      BY <1>0 DEF M!Types
    <3>2. s2'[k] = p /\ \A j \in M!Pages : j # k => s2'[j] = s2[j]
      BY <1>0, <1>1 DEF M!Types
    <3>3. s11[p][u] = M!Found(p, u)
      BY <1>0 DEF M!Contents
    <3>4. u # v => s4[p].pte[u] # k
      BY <1>0 DEF M!OnceIn
    <3>5. s4[p].pte[u] # 0 => s4[p].pte[u] \in M!Pages
      BY <1>0, OwnedPages
    <3> QED
      BY <3>1, <3>2, <3>3, <3>4, <3>5 DEF M!Found, M!procs
  <2> QED
    BY <2>1, <2>2, <2>3 DEF Own
<1>6. \A j \in M!Pages : j \notin s1 \cup M!Mine(p) => s2'[j] = s2[j]
  BY <1>0, <1>1 DEF M!Types
<1>7. /\ s10'[p] \in {0, s10[p]} /\ s3[p] # "EMBRYO"
      /\ s1' \cup M!Mine(p)' = s1 \cup M!Mine(p) /\ M!Mine(p)' \cap s1' = {}
  BY <1>0, <1>4 DEF M!calls
<1> HIDE DEF M!Store, k
<1> QED
  BY <1>2, <1>3, <1>4, <1>5, <1>6, <1>7, StepOfOne

LEMMA ExitKeeps ==
  ASSUME M!IndInv, NEW p \in M!Slots, M!Exit(p)
  PROVE  M!IndInv'
<1> USE DEF M!Exit
<1>0. M!Types /\ M!Shape(p) /\ M!Progress(p) /\ M!Contents(p) /\ M!Sorted(p)
              /\ M!Mine(p) \cap s1 = {}
  BY Have
<1>1. M!Types'
  BY <1>0 DEF M!Types, M!calls
<1>2. \A q \in M!Slots \ {p} : Same(q)
  BY <1>0 DEF Same, M!Types, M!calls
<1>3. M!Mine(p)' = M!Mine(p) /\ M!Sorted(p)'
  BY <1>0 DEF M!Mine, M!Stack, M!Sorted, M!calls
<1>4. Own(p)'
  <2>0. s3'[p] = "ZOMBIE" /\ UNCHANGED <<s4, s7, s8, s9, s10, s2, s11>>
    BY <1>0 DEF M!Types, M!calls
  <2>1. M!Shape(p)'
    BY <1>0, <2>0 DEF M!Shape
  <2>2. M!Progress(p)'
    BY <1>0, <2>0 DEF M!Progress
  <2>3. M!Contents(p)'
    BY <1>0, <2>0 DEF M!Contents, M!Found
  <2> QED
    BY <2>1, <2>2, <2>3 DEF Own
<1>5. /\ \A k \in M!Pages : k \notin s1 \cup M!Mine(p) => s2'[k] = s2[k]
      /\ s10'[p] \in {0, s10[p]} /\ s3[p] # "EMBRYO"
      /\ s1' \cup M!Mine(p)' = s1 \cup M!Mine(p) /\ M!Mine(p)' \cap s1' = {}
  BY <1>0, <1>3 DEF M!calls
<1> HIDE DEF M!Exit
<1> QED
  BY <1>1, <1>2, <1>3, <1>4, <1>5, StepOfOne

LEMMA ReapKeeps ==
  ASSUME M!IndInv, NEW p \in M!Slots, M!Reap(p)
  PROVE  M!IndInv'
<1> USE DEF M!Reap
<1>0. /\ M!Types /\ M!Shape(p) /\ M!Progress(p) /\ M!Contents(p) /\ M!Sorted(p)
      /\ M!Mine(p) \cap s1 = {}
      /\ M!Mine(p) \in SUBSET M!Pages /\ s7[p] = M!Nil
  BY Have DEF M!Shape
<1> DEFINE pages == M!Owned(s4[p]) \cup {s6[p]}
<1>1. s6[p] # 0
  BY <1>0 DEF M!Shape
<1>2. pages = M!Mine(p)
  BY <1>0, <1>1, NilSpace DEF M!Mine, M!Stack
<1>3. /\ s1' = s1 \cup M!Mine(p)
      /\ s2' = [k \in M!Pages |-> IF k \in M!Mine(p) THEN M!Junk ELSE s2[k]]
  BY <1>2 DEF M!Freed
<1> HIDE DEF pages
<1>4. M!Types'
  <2>1. s1' \in SUBSET M!Pages /\ s2' \in [M!Pages -> 0 .. M!Guard]
    BY <1>0, <1>3, MemSizes DEF M!Types
  <2>2. /\ s4' \in [M!Slots -> M!Spaces] /\ s5' \in [M!Slots -> 0 .. M!KERNBASE]
        /\ s6' \in [M!Slots -> 0 .. MemoryPages]
        /\ s11' \in [M!Slots -> [M!Vpns -> 0 .. M!Unmapped]]
    <3>1. /\ M!Nil \in M!Spaces /\ 0 \in 0 .. M!KERNBASE /\ 0 \in 0 .. MemoryPages
          /\ M!Unmapped \in 0 .. M!Unmapped
      BY NilSpace, MemSizes
    <3>2. /\ s4 \in [M!Slots -> M!Spaces] /\ s5 \in [M!Slots -> 0 .. M!KERNBASE]
          /\ s6 \in [M!Slots -> 0 .. MemoryPages]
          /\ s11 \in [M!Slots -> [M!Vpns -> 0 .. M!Unmapped]]
      BY <1>0 DEF M!Types
    <3>3. [v \in M!Vpns |-> M!Unmapped] \in [M!Vpns -> 0 .. M!Unmapped]
      BY <3>1
    <3> QED
      BY <3>1, <3>2, <3>3
  <2>3. UNCHANGED <<s7, s8, s9, s10>>
    BY DEF M!calls
  <2> QED
    BY <1>0, <2>1, <2>2, <2>3 DEF M!Types
<1>5. \A q \in M!Slots \ {p} : Same(q)
  BY <1>0 DEF Same, M!Types, M!calls
<1>6. /\ s4'[p] = M!Nil /\ s7'[p] = M!Nil /\ s6'[p] = 0 /\ s5'[p] = 0
      /\ s3'[p] = "UNUSED" /\ s9'[p] = s9[p] /\ s10'[p] = s10[p]
      /\ s8'[p] = s8[p]
  BY <1>0 DEF M!Types, M!calls
<1>7. M!Mine(p)' = {} /\ M!Sorted(p)'
  BY <1>6, NilSpace DEF M!Mine, M!Stack, M!Sorted
<1>8. Own(p)'
  <2>1. M!Shape(p)'
    BY <1>0, <1>6 DEF M!Shape
  <2>2. M!Progress(p)'
    BY <1>6, NilSpace DEF M!Progress
  <2>3. M!Contents(p)'
    BY <1>6 DEF M!Contents
  <2> QED
    BY <2>1, <2>2, <2>3 DEF Own
<1>9. /\ \A k \in M!Pages : k \notin s1 \cup M!Mine(p) => s2'[k] = s2[k]
      /\ s10'[p] \in {0, s10[p]} /\ s3[p] # "EMBRYO"
      /\ s1' \cup M!Mine(p)' = s1 \cup M!Mine(p) /\ M!Mine(p)' \cap s1' = {}
  BY <1>0, <1>3, <1>6, <1>7
<1> HIDE DEF M!Reap
<1> QED
  BY <1>4, <1>5, <1>7, <1>8, <1>9, StepOfOne

-----------------------------------------------------------------------------
(* Memory: fork() and exec() *)

\* Label bad: what the call has made is free again, and so is the child of fork().
LEMMA FailKeeps ==
  ASSUME M!IndInv, NEW p \in M!Slots, s3[p] \in {"fork", "exec"}, M!Fail(p, s1)
  PROVE  M!IndInv'
<1> USE DEF M!Fail, M!GiveUp, M!Idle
<1>13. PICK c \in 0 .. MemorySlots : c = s10[p]
  BY Have, TypesOf
<1> USE <1>13
<1> DEFINE pages == M!Owned(s7[p]) \cup ({s6[q] : q \in M!Slots \cap {c}} \ {0})
<1>0. /\ M!Types /\ M!Shape(p) /\ M!Progress(p) /\ M!Contents(p) /\ M!Sorted(p)
      /\ M!Mine(p) \cap s1 = {}
      /\ M!Mine(p) \in SUBSET M!Pages /\ c # p /\ s4[p] \in M!Spaces
  <2>1. /\ M!Types /\ M!Shape(p) /\ M!Progress(p) /\ M!Contents(p) /\ M!Sorted(p)
        /\ M!Mine(p) \cap s1 = {}
        /\ M!Mine(p) \in SUBSET M!Pages /\ s4[p] \in M!Spaces
    BY Have, TypesOf
  <2>2. c # p
    BY <2>1 DEF M!Shape, M!Slots
  <2> QED
    BY <2>1, <2>2
<1>1. /\ s1' = s1 \cup pages
      /\ s2' = [k \in M!Pages |-> IF k \in pages THEN M!Junk ELSE s2[k]]
  BY DEF M!Freed
<1>2. c \in M!Slots => /\ M!Shape(c) /\ s6[c] # 0 /\ M!Mine(c) = {s6[c]}
                       /\ M!Mine(c) \cap M!Mine(p) = {} /\ M!Mine(c) \cap s1 = {}
                       /\ M!Mine(c) \in SUBSET M!Pages /\ s3[c] = "EMBRYO"
                       /\ s4[c] = M!Nil /\ s7[c] = M!Nil
  <2> SUFFICES ASSUME c \in M!Slots
               PROVE  /\ M!Shape(c) /\ s6[c] # 0 /\ M!Mine(c) = {s6[c]}
                      /\ M!Mine(c) \cap M!Mine(p) = {} /\ M!Mine(c) \cap s1 = {}
                      /\ M!Mine(c) \in SUBSET M!Pages /\ s3[c] = "EMBRYO"
                      /\ s4[c] = M!Nil /\ s7[c] = M!Nil
    OBVIOUS
  <2>1. c # 0
    BY DEF M!Slots
  <2>2. s3[c] = "EMBRYO"
    BY <1>0, <2>1 DEF M!Shape
  <2>3. M!Shape(c) /\ M!Mine(c) \cap s1 = {} /\ M!Mine(c) \in SUBSET M!Pages
    BY Have
  <2>4. s6[c] # 0 /\ s4[c] = M!Nil /\ s7[c] = M!Nil
    BY <2>2, <2>3 DEF M!Shape
  <2>5. M!Mine(c) = {s6[c]}
    BY <2>4, NilSpace DEF M!Mine, M!Stack
  <2>6. M!Mine(c) \cap M!Mine(p) = {}
    BY <1>0 DEF M!IndInv, M!PagesOwnedOnce
  <2> QED
    BY <2>2, <2>3, <2>4, <2>5, <2>6
<1>3. pages = M!Owned(s7[p]) \cup (IF c \in M!Slots THEN M!Mine(c) ELSE {})
  BY <1>2
<1> HIDE DEF pages
<1>4. pages \in SUBSET M!Pages
  BY <1>0, <1>2, <1>3 DEF M!Mine
<1>5. /\ s3'[p] = "user" /\ s7'[p] = M!Nil /\ s8'[p] = 0 /\ s9'[p] = <<>>
      /\ s10'[p] = 0 /\ s6'[p] = s6[p]
      /\ \A q \in M!Slots \ {p, c} : s3'[q] = s3[q] /\ s6'[q] = s6[q]
      /\ c \in M!Slots => s3'[c] = "UNUSED" /\ s6'[c] = 0
      /\ \A q \in M!Slots \ {p} : /\ s7'[q] = s7[q] /\ s8'[q] = s8[q]
                                  /\ s9'[q] = s9[q] /\ s10'[q] = s10[q]
      /\ UNCHANGED <<s4, s5, s11>>
  BY <1>0 DEF M!Types
<1>6. M!Types'
  <2>1. s1' \in SUBSET M!Pages /\ s2' \in [M!Pages -> 0 .. M!Guard]
    <3>1. M!Junk \in 0 .. M!Guard
      BY MemSizes
    <3> HIDE DEF M!Fail
    <3> QED
      BY <1>0, <1>1, <1>4, <3>1 DEF M!Types
  <2>2. s7' \in [M!Slots -> M!Spaces] /\ s8' \in [M!Slots -> 0 .. M!KERNBASE]
    <3>1. 0 \in 0 .. M!KERNBASE /\ M!Nil \in M!Spaces
      BY NilSpace, MemSizes
    <3> QED
      BY <1>0, <3>1 DEF M!Types
  <2>3. s9' \in [M!Slots -> Seq(Nat)] /\ s10' \in [M!Slots -> 0 .. MemorySlots]
    BY <1>0, MemSizes DEF M!Types
  <2>4. s6' \in [M!Slots -> 0 .. MemoryPages]
    BY <1>0, MemSizes DEF M!Types
  <2>5. s3' \in [M!Slots -> {"UNUSED", "EMBRYO", "user", "fork", "exec", "grow",
                              "faulting", "ZOMBIE"}]
    BY <1>0 DEF M!Types
  <2> QED
    BY <1>0, <1>5, <2>1, <2>2, <2>3, <2>4, <2>5 DEF M!Types
<1>7. \A q \in M!Slots \ {p, c} : Same(q)
  BY <1>5 DEF Same
<1>8. /\ M!Mine(p)' = M!Mine(p) \ M!Owned(s7[p]) /\ M!Sorted(p)'
      /\ c \in M!Slots => M!Mine(c)' = {} /\ M!Sorted(c)'
  <2>1. M!Sorted(p)'
    BY <1>0, <1>5, NilSpace DEF M!Sorted, M!Stack
  <2>2. M!Mine(p)' = M!Mine(p) \ M!Owned(s7[p])
    BY <1>0, <1>5, NilSpace DEF M!Mine, M!Stack, M!Sorted
  <2>3. c \in M!Slots => M!Mine(c)' = {} /\ M!Sorted(c)'
    BY <1>0, <1>2, <1>5, NilSpace DEF M!Mine, M!Stack, M!Sorted
  <2> QED
    BY <2>1, <2>2, <2>3
<1>9. Own(p)'
  <2>1. M!Shape(p)'
    BY <1>0, <1>5 DEF M!Shape
  <2>2. M!Progress(p)'
    BY <1>0, <1>5, NilSpace DEF M!Progress
  <2>3. M!Contents(p)'
    <3> SUFFICES ASSUME NEW v \in M!Vpns
                 PROVE  s11'[p][v] = M!Found(p, v)'
      BY <1>5 DEF M!Contents
    <3>1. s11[p][v] = M!Found(p, v)
      BY <1>0 DEF M!Contents
    <3>2. s4[p].pte[v] # 0 => s4[p].pte[v] \in M!Pages /\ s4[p].pte[v] \notin pages
      <4>1. M!Owned(s4[p]) \cap M!Owned(s7[p]) = {} /\ M!Owned(s4[p]) \subseteq M!Mine(p)
        BY <1>0 DEF M!Sorted, M!Mine
      <4> QED
        BY <1>0, <1>2, <1>3, <4>1, OwnedPages
    <3> QED
      BY <1>1, <1>5, <3>1, <3>2 DEF M!Found
  <2> QED
    BY <2>1, <2>2, <2>3 DEF Own
<1>10. \A k \in M!Pages : k \notin pages => s2'[k] = s2[k]
  BY <1>1
<1>11. CASE c \notin M!Slots
  <2>1. \A k \in M!Pages : k \notin s1 \cup M!Mine(p) => s2'[k] = s2[k]
    BY <1>3, <1>10, <1>11 DEF M!Mine
  <2>2. /\ s10'[p] \in {0, s10[p]} /\ s3[p] # "EMBRYO"
        /\ s1' \cup M!Mine(p)' = s1 \cup M!Mine(p) /\ M!Mine(p)' \cap s1' = {}
    <3>1. M!Owned(s7[p]) \subseteq M!Mine(p)
      BY DEF M!Mine
    <3> QED
      BY <1>0, <1>1, <1>3, <1>5, <1>8, <1>11, <3>1
  <2>3. \A q \in M!Slots \ {p} : Same(q)
    BY <1>7, <1>11
  <2> HIDE DEF M!Fail
  <2> QED
    BY <1>6, <1>8, <1>9, <2>1, <2>2, <2>3, StepOfOne
<1>12. CASE c \in M!Slots
  <2>1. Own(c)'
    <3>1. /\ s3'[c] = "UNUSED" /\ s4'[c] = M!Nil /\ s7'[c] = M!Nil /\ s6'[c] = 0
          /\ s8'[c] = s8[c] /\ s9'[c] = s9[c] /\ s10'[c] = s10[c]
      BY <1>0, <1>2, <1>5, <1>12
    <3>2. M!Shape(c)'
      BY <1>2, <1>12, <3>1 DEF M!Shape
    <3>3. M!Progress(c)' /\ M!Contents(c)'
      BY <3>1, NilSpace DEF M!Progress, M!Contents
    <3> QED
      BY <3>2, <3>3 DEF Own
  <2>2. \A k \in M!Pages : k \notin s1 \cup M!Mine(p) \cup M!Mine(c) => s2'[k] = s2[k]
    BY <1>3, <1>10 DEF M!Mine
  <2>3. /\ s1' \cup M!Mine(p)' \cup M!Mine(c)' = s1 \cup M!Mine(p) \cup M!Mine(c)
        /\ M!Mine(p)' \cap s1' = {} /\ M!Mine(c)' \cap s1' = {} /\ M!Mine(p)' \cap M!Mine(c)' = {}
    <3>1. M!Owned(s7[p]) \subseteq M!Mine(p)
      BY DEF M!Mine
    <3> QED
      BY <1>0, <1>1, <1>2, <1>3, <1>8, <1>12, <3>1
  <2>4. ASSUME NEW q \in M!Slots \ {p, c}, s3[q] = "fork"
        PROVE  s3'[s10[q]] = "EMBRYO" /\ s10'[p] # s10[q] /\ s10'[c] # s10[q]
    <3>1. /\ s10[q] \in M!Slots /\ s3[s10[q]] = "EMBRYO" /\ 0 \notin M!Slots
          /\ \A o \in M!Slots \ {q} : s10[o] # s10[q]
      BY <2>4, Have DEF M!Shape, M!Slots
    <3>2. s10[q] \notin {p, c}
      BY <1>12, <3>1
    <3> QED
      BY <1>0, <1>5, <1>12, <3>1, <3>2
  <2> HIDE DEF M!Fail
  <2> QED
    BY <1>6, <1>7, <1>8, <1>9, <1>12, <2>1, <2>2, <2>3, <2>4, StepKeeps
<1> QED
  BY <1>11, <1>12

\* Cardinality means in the instance what it means here.
LEMMA MemCardinality ==
  ASSUME NEW S
  PROVE  M!Cardinality(S) = Cardinality(S)
BY Zenon DEF M!Cardinality, Cardinality

\* Two pages, when there are two.
LEMMA Couple ==
  ASSUME M!Types, ~(M!Cardinality(s1) < 2)
  PROVE  /\ M!Min(s1) \in s1 /\ M!Min(s1 \ {M!Min(s1)}) \in s1
         /\ M!Min(s1 \ {M!Min(s1)}) # M!Min(s1)
<1>1. IsFiniteSet(s1)
  <2>1. 1 \in Int /\ MemoryPages \in Int /\ s1 \in SUBSET (1 .. MemoryPages)
    BY MemSizes DEF M!Types, M!Pages
  <2> QED
    BY <2>1, FS_Interval, FS_Subset
<1>2. Cardinality(s1) \in Nat /\ s1 # {}
  <2>1. ~(Cardinality(s1) < 2)
    BY MemCardinality
  <2> QED
    BY <1>1, <2>1, FS_CardinalityType, FS_EmptySet
<1>3. M!Min(s1) \in s1 /\ s1 \in SUBSET M!Pages
  BY <1>2, Taken DEF M!Types
<1> DEFINE dir == M!Min(s1)
<1> HIDE DEF dir
<1>4. Cardinality(s1 \ {dir}) = Cardinality(s1) - 1
  BY <1>1, <1>3, FS_RemoveElement DEF dir
<1>5. s1 \ {dir} # {}
  <2> SUFFICES ASSUME s1 \ {dir} = {} PROVE FALSE
    OBVIOUS
  <2>1. Cardinality(s1 \ {dir}) = 0 /\ ~(Cardinality(s1) < 2)
    BY FS_EmptySet, MemCardinality
  <2> QED
    BY <1>2, <1>4, <2>1
<1>6. M!Min(s1 \ {dir}) \in s1 \ {dir}
  BY <1>3, <1>5, Taken
<1> QED
  BY <1>3, <1>6 DEF dir

\* What a call may do with a page that it adds to its new address space.
LEMMA NewPage ==
  ASSUME M!IndInv, NEW p \in M!Slots, NEW v \in M!Vpns, s3[p] \in {"fork", "exec"},
         s7[p] # M!Nil, s7[p].pte[v] = 0, M!AddPage(s7[p], v).ok,
         NEW G \in SUBSET M!Vpns, NEW x \in 0 .. M!Guard, NEW y \in 0 .. M!KERNBASE,
         s1' = M!AddPage(s7[p], v).free,
         s2' = [s2 EXCEPT ![M!AddPage(s7[p], v).mem] = x],
         s7' = [s7 EXCEPT ![p] = [M!AddPage(s7[p], v).space EXCEPT !.guard = G]],
         s8' = [s8 EXCEPT ![p] = y],
         UNCHANGED <<M!procs, s9, s10, s11>>
  PROVE  /\ s7'[p].guard = G /\ s7'[p].pte[v] # 0 /\ s2'[s7'[p].pte[v]] = x
         /\ s8'[p] = y
         /\ \A u \in M!Vpns : u # v => s7'[p].pte[u] = s7[p].pte[u]
         /\ \A u \in M!Vpns : /\ s7[p].pte[u] # 0 => s2'[s7[p].pte[u]] = s2[s7[p].pte[u]]
                              /\ s4[p].pte[u] # 0 =>
                                   s2'[s4[p].pte[u]] = s2[s4[p].pte[u]]
         /\ M!Progress(p)' /\ M!Contents(p)' => M!IndInv'
<1> DEFINE r == M!AddPage(s7[p], v)
           w == [r.space EXCEPT !.guard = G]
<1>0. /\ M!Types /\ M!Shape(p) /\ M!Sorted(p) /\ M!Mine(p) \cap s1 = {}
      /\ M!Mine(p) \in SUBSET M!Pages
      /\ M!Owned(s7[p]) \cap s1 = {} /\ M!Owned(s4[p]) \cap s1 = {} /\ M!OnceIn(s7[p])
      /\ s7[p] \in M!Spaces /\ s4[p] \in M!Spaces /\ s1 \in SUBSET M!Pages
      /\ M!Owned(s4[p]) \cap M!Owned(s7[p]) = {} /\ M!Stack(p) \cap M!Owned(s7[p]) = {}
      /\ s7[p].dir # 0
  <2>1. M!Types /\ M!Shape(p)
    BY Have
  <2>2. s7[p].dir # 0
    BY <2>1 DEF M!Shape
  <2> QED
    BY <2>1, <2>2, Have, TypesOf
<1>1. /\ r.space \in M!Spaces /\ r.free \in SUBSET s1 /\ M!OnceIn(r.space)
      /\ r.mem \in s1 /\ r.mem \notin r.free /\ r.mem \in M!Pages /\ r.mem # 0
      /\ M!Owned(r.space) = M!Owned(s7[p]) \cup (s1 \ r.free)
      /\ r.space.dir = s7[p].dir /\ r.space.pte[v] = r.mem
      /\ \A u \in M!Vpns : u # v => r.space.pte[u] = s7[p].pte[u]
  BY <1>0, Added
<1>2. s1' = r.free /\ s2' = [s2 EXCEPT ![r.mem] = x] /\ s7' = [s7 EXCEPT ![p] = w]
  OBVIOUS
<1> HIDE DEF r
<1>3. /\ w \in M!Spaces /\ w.dir = r.space.dir /\ w.ktab = r.space.ktab /\ w.tab = r.space.tab
      /\ w.pte = r.space.pte /\ w.guard = G
  BY <1>1 DEF M!Spaces
<1>4. M!Owned(w) = M!Owned(r.space) /\ M!OnceIn(w)
  BY <1>1, <1>3 DEF M!Owned, M!OnceIn
<1> HIDE DEF w
<1>5. /\ s7'[p] = w /\ s8'[p] = y /\ s2'[r.mem] = x
      /\ \A k \in M!Pages : k # r.mem => s2'[k] = s2[k]
  BY <1>0, <1>1, <1>2 DEF M!Types
<1>6. /\ s7'[p].guard = G /\ s7'[p].pte[v] # 0 /\ s2'[s7'[p].pte[v]] = x
      /\ \A u \in M!Vpns : u # v => s7'[p].pte[u] = s7[p].pte[u]
  <2>1. w.guard = G /\ w.pte[v] = r.mem /\ \A u \in M!Vpns : u # v => w.pte[u] = s7[p].pte[u]
    BY <1>1, <1>3
  <2>2. s7'[p].guard = G /\ s7'[p].pte[v] = r.mem
    BY <1>5, <2>1
  <2> QED
    BY <1>1, <1>5, <2>1, <2>2
<1>7. ASSUME NEW u \in M!Vpns
      PROVE  /\ s7[p].pte[u] # 0 => s2'[s7[p].pte[u]] = s2[s7[p].pte[u]]
             /\ s4[p].pte[u] # 0 => s2'[s4[p].pte[u]] = s2[s4[p].pte[u]]
  BY <1>0, <1>1, <1>5, OwnedPages
<1>8. ASSUME M!Progress(p)', M!Contents(p)'
      PROVE  M!IndInv'
  <2>1. M!Types'
    <3>1. s1' \in SUBSET M!Pages /\ s2' \in [M!Pages -> 0 .. M!Guard]
      <4>1. r.free \in SUBSET M!Pages
        BY <1>0, <1>1
      <4>2. s2 \in [M!Pages -> 0 .. M!Guard]
        BY <1>0 DEF M!Types
      <4> QED
        BY <1>2, <4>1, <4>2
    <3>2. s7' \in [M!Slots -> M!Spaces] /\ s8' \in [M!Slots -> 0 .. M!KERNBASE]
      <4>1. s7 \in [M!Slots -> M!Spaces] /\ s8 \in [M!Slots -> 0 .. M!KERNBASE]
        BY <1>0 DEF M!Types
      <4>2. s7' \in [M!Slots -> M!Spaces]
        BY <1>2, <1>3, <4>1
      <4> QED
        BY <4>1, <4>2
    <3> QED
      BY <1>0, <3>1, <3>2 DEF M!Types, M!procs
  <2>2. \A q \in M!Slots \ {p} : Same(q)
    BY <1>0, <1>2 DEF Same, M!Types, M!procs
  <2>3. M!Mine(p)' = M!Mine(p) \cup (s1 \ s1') /\ M!Sorted(p)'
    <3>1. M!Owned(s7[p])' = M!Owned(s7[p]) \cup (s1 \ s1') /\ M!OnceIn(s7[p])'
      BY <1>1, <1>2, <1>4, <1>5
    <3>2. s4'[p] = s4[p] /\ M!Stack(p)' = M!Stack(p) /\ M!OnceIn(s4[p])
      BY <1>0 DEF M!procs, M!Stack, M!Sorted
    <3>3. M!Mine(p)' = M!Mine(p) \cup (s1 \ s1')
      BY <3>1, <3>2 DEF M!Mine
    <3>4. M!Stack(p) \cap s1 = {} /\ M!Stack(p) \cap M!Owned(s4[p]) = {}
      BY <1>0 DEF M!Mine, M!Sorted
    <3>5. M!Sorted(p)'
      BY <1>0, <3>1, <3>2, <3>4 DEF M!Sorted
    <3> QED
      BY <3>3, <3>5
  <2>4. M!Shape(p)'
    <3>1. s7'[p].dir # 0 /\ s3'[p] = s3[p] /\ s9'[p] = s9[p]
          /\ s10' = s10 /\ s4'[p] = s4[p] /\ s6'[p] = s6[p] /\ s3' = s3
      BY <1>0, <1>1, <1>3, <1>5 DEF M!procs
    <3> QED
      BY <1>0, <3>1 DEF M!Shape
  <2>5. Own(p)'
    BY <1>8, <2>4 DEF Own
  <2>6. /\ \A k \in M!Pages : k \notin s1 \cup M!Mine(p) => s2'[k] = s2[k]
        /\ s10'[p] \in {0, s10[p]} /\ s3[p] # "EMBRYO"
        /\ s1' \cup M!Mine(p)' = s1 \cup M!Mine(p) /\ M!Mine(p)' \cap s1' = {}
    BY <1>0, <1>1, <1>2, <1>5, <2>3
  <2> QED
    BY <2>1, <2>2, <2>3, <2>5, <2>6, StepOfOne
<1> QED
  BY <1>5, <1>6, <1>7, <1>8

LEMMA SetupKeeps ==
  ASSUME M!IndInv, NEW p \in M!Slots, M!SetupKvm(p)
  PROVE  M!IndInv'
<1> USE DEF M!SetupKvm
<1>1. CASE M!Cardinality(s1) < 2
  BY <1>1, FailKeeps
<1>2. CASE ~(M!Cardinality(s1) < 2)
  <2> DEFINE dir == M!Min(s1)
             ktab == M!Min(s1 \ {dir})
             w == [s7[p] EXCEPT !.dir = dir, !.ktab = ktab]
  <2>0. /\ M!Types /\ M!Shape(p) /\ M!Progress(p) /\ M!Contents(p) /\ M!Sorted(p)
        /\ M!Mine(p) \cap s1 = {} /\ s7[p] = M!Nil
    BY Have
  <2>1. /\ s1' = s1 \ {dir, ktab} /\ s7' = [s7 EXCEPT ![p] = w]
        /\ UNCHANGED <<s2, s3, s4, s5, s6, s8, s9, s10, s11>>
    BY <1>2, <2>0 DEF M!Types, M!procs
  <2>2. dir \in s1 /\ ktab \in s1 /\ ktab # dir /\ s1 \in SUBSET M!Pages
    BY <1>2, <2>0, Couple DEF M!Types
  <2> HIDE DEF dir, ktab
  <2>3. /\ dir # 0 /\ ktab # 0 /\ dir \in 0 .. MemoryPages /\ ktab \in 0 .. MemoryPages
    BY <2>2, MemSizes DEF M!Pages
  <2>4. /\ w \in M!Spaces /\ w.dir = dir /\ w.ktab = ktab /\ w.tab = M!Nil.tab /\ w.pte = M!Nil.pte
        /\ w.guard = M!Nil.guard
    BY <2>0, <2>3, NilSpace DEF M!Spaces
  <2>5. M!Owned(w) = {dir, ktab} /\ M!OnceIn(w)
    BY <2>2, <2>3, <2>4 DEF M!Owned, M!OnceIn, M!Nil
  <2> HIDE DEF w
  <2>6. s7'[p] = w
    BY <2>0, <2>1 DEF M!Types
  <2>7. M!Types'
    BY <2>0, <2>1, <2>2, <2>4 DEF M!Types
  <2>8. \A q \in M!Slots \ {p} : Same(q)
    BY <2>0, <2>1 DEF Same, M!Types
  <2>9. M!Mine(p)' = M!Mine(p) \cup {dir, ktab} /\ M!Sorted(p)'
    <3>1. M!Mine(p)' = M!Mine(p) \cup {dir, ktab}
      BY <2>0, <2>1, <2>5, <2>6, NilSpace DEF M!Mine, M!Stack
    <3>2. M!Stack(p) \cap s1 = {} /\ M!Owned(s4[p]) \cap s1 = {}
      BY <2>0 DEF M!Mine
    <3> QED
      BY <2>0, <2>1, <2>2, <2>5, <2>6, <3>1, <3>2 DEF M!Sorted, M!Stack
  <2>10. Own(p)'
    <3>1. M!Shape(p)'
      BY <2>0, <2>1, <2>3, <2>4, <2>6 DEF M!Shape
    <3>2. M!Progress(p)'
      BY <2>0, <2>1, <2>4, <2>6 DEF M!Progress
    <3>3. M!Contents(p)'
      BY <2>0, <2>1, <2>4, <2>6 DEF M!Contents, M!Found
    <3> QED
      BY <3>1, <3>2, <3>3 DEF Own
  <2>11. /\ \A k \in M!Pages : k \notin s1 \cup M!Mine(p) => s2'[k] = s2[k]
         /\ s10'[p] \in {0, s10[p]} /\ s3[p] # "EMBRYO"
         /\ s1' \cup M!Mine(p)' = s1 \cup M!Mine(p) /\ M!Mine(p)' \cap s1' = {}
    BY <2>0, <2>1, <2>2, <2>9
  <2> HIDE DEF M!SetupKvm
  <2> QED
    BY <2>7, <2>8, <2>9, <2>10, <2>11, StepOfOne
<1> QED
  BY <1>1, <1>2

\* A turn of copyuvm().
LEMMA CopyKeeps ==
  ASSUME M!IndInv, NEW p \in M!Slots, M!CopyPage(p)
  PROVE  M!IndInv'
<1> USE DEF M!CopyPage
<1> DEFINE v == M!PageOf(s8[p])
           r == M!AddPage(s7[p], v)
           n == Pg(s8[p])
<1>0. /\ M!Types /\ M!Shape(p) /\ M!Progress(p) /\ M!Contents(p) /\ s4[p] \in M!Spaces
      /\ s7[p] \in M!Spaces /\ s8[p] \in Nat /\ s5[p] \in Nat /\ s5[p] <= M!KERNBASE
      /\ s1 \in SUBSET M!Pages /\ M!OnceIn(s7[p]) /\ M!Owned(s7[p]) \cap s1 = {}
      /\ s2 \in [M!Pages -> 0 .. M!Guard] /\ s3[p] = "fork"
  BY Have, TypesOf
<1>1. /\ n \in Nat /\ s8[p] = n * PageUnits /\ v = n /\ s8[p] + PageUnits = (n + 1) * PageUnits
      /\ n + 1 \in Nat
  <2>1. n \in Nat /\ s8[p] = n * PageUnits
    BY <1>0, Rounded DEF M!Progress
  <2> QED
    BY <2>1, Multiples
<1>2. n < Pg(s5[p]) /\ Pg(s5[p]) \in Nat /\ s5[p] <= UserPages * PageUnits
  BY <1>0, <1>1, Rounded, MemSizes
<1>3. n \in M!Vpns
  <2>1. Pg(s5[p]) <= UserPages
    BY <1>0, <1>2, Rounded, MemSizes
  <2> QED
    BY <1>1, <1>2, <2>1, MemSizes DEF M!Vpns
<1>4. s7[p].pte[v] = 0 /\ s4[p].pte[v] # 0
  <2>1. ~(n * PageUnits < s8[p]) /\ n * PageUnits < s5[p]
    BY <1>0, <1>1
  <2> QED
    BY <1>0, <1>1, <1>3, <2>1 DEF M!Progress
<1>5. CASE ~r.ok
  <2>1. r.free = s1
    BY <1>0, <1>1, <1>3, <1>4, <1>5, Added
  <2> QED
    BY <1>0, <1>5, <2>1, FailKeeps
<1>6. CASE r.ok
  <2> DEFINE G == r.space.guard \cup (s4[p].guard \cap {v})
             x == s2[s4[p].pte[v]]
             y == s8[p] + PageUnits
  <2>1. r.space.guard = s7[p].guard
    BY <1>0, <1>1, <1>3, <1>4, <1>6, Added
  <2>2. G \in SUBSET M!Vpns /\ x \in 0 .. M!Guard /\ v \in M!Vpns
    BY <1>0, <1>1, <1>3, <1>4, <2>1, OwnedPages, Fields
  <2>3. y \in 0 .. M!KERNBASE
    <3>1. n + 1 <= UserPages
      BY <1>1, <1>3, MemSizes DEF M!Vpns
    <3> QED
      BY <1>1, <3>1, Multiples, MemSizes
  <2>4. /\ s1' = r.free /\ s2' = [s2 EXCEPT ![r.mem] = x]
        /\ s7' = [s7 EXCEPT ![p] = [r.space EXCEPT !.guard = G]]
        /\ s8' = [s8 EXCEPT ![p] = y]
        /\ UNCHANGED <<M!procs, s9, s10, s11>>
    BY <1>6
  <2>5. s7[p] # M!Nil /\ s3[p] \in {"fork", "exec"}
    BY <1>0
  <2> HIDE DEF M!CopyPage, G, x, y
  <2>6. /\ s7'[p].guard = G /\ s7'[p].pte[v] # 0 /\ s2'[s7'[p].pte[v]] = x
        /\ s8'[p] = y
        /\ \A u \in M!Vpns : u # v => s7'[p].pte[u] = s7[p].pte[u]
        /\ \A u \in M!Vpns : /\ s7[p].pte[u] # 0 => s2'[s7[p].pte[u]] = s2[s7[p].pte[u]]
                             /\ s4[p].pte[u] # 0 =>
                                  s2'[s4[p].pte[u]] = s2[s4[p].pte[u]]
        /\ M!Progress(p)' /\ M!Contents(p)' => M!IndInv'
    BY <1>4, <1>6, <2>2, <2>3, <2>4, <2>5, NewPage
  <2>7. /\ s3'[p] = "fork" /\ s4'[p] = s4[p] /\ s5'[p] = s5[p] /\ s11'[p] = s11[p]
        /\ s9'[p] = s9[p]
    BY <1>0, <2>4 DEF M!procs
  <2>8. M!Progress(p)'
    <3>1. y = M!PgRoundUp(y)
      BY <1>1, PgOf DEF y
    <3>2. ASSUME NEW u \in M!Vpns
          PROVE  s7'[p].pte[u] # 0 <=> u * PageUnits < y
      <4> HIDE DEF n, v
      <4>1. /\ u \in Nat
            /\ u * PageUnits < n * PageUnits <=> u < n
            /\ u * PageUnits < (n + 1) * PageUnits <=> u < n + 1
        BY <1>1, TableOf, Multiples
      <4>2. s7[p].pte[u] # 0 <=> u * PageUnits < s8[p]
        BY <1>0 DEF M!Progress
      <4>3. y = (n + 1) * PageUnits
        BY <1>1 DEF y
      <4>4. CASE u = n
        <5>1. s7'[p].pte[u] # 0
          BY <1>1, <2>6, <4>4
        <5>2. u < n + 1
          BY <1>1, <4>4
        <5> QED
          BY <4>1, <4>3, <5>1, <5>2
      <4>5. CASE u # n
        <5>1. s7'[p].pte[u] = s7[p].pte[u]
          BY <1>1, <2>6, <4>5
        <5>2. u \in Nat /\ n \in Nat
          BY <1>1, TableOf
        <5>3. u < n <=> u < n + 1
          BY <4>5, <5>2
        <5>4. u * PageUnits < y <=> u * PageUnits < s8[p]
          BY <1>1, <4>1, <4>3, <5>3
        <5> QED
          BY <4>2, <5>1, <5>4
      <4> QED
        BY <4>4, <4>5
    <3>3. y <= M!PgRoundUp(s5[p])
      <4>1. M!PgRoundUp(s5[p]) = Pg(s5[p]) * PageUnits /\ y = (n + 1) * PageUnits
        BY <1>0, <1>1, Rounded DEF y
      <4>2. n + 1 <= Pg(s5[p])
        BY <1>1, <1>2
      <4> QED
        BY <1>1, <1>2, <4>1, <4>2, Multiples
    <3>4. \A u \in s7'[p].guard : s7'[p].pte[u] # 0
      BY <1>0, <1>1, <2>1, <2>2, <2>6 DEF M!Progress, G
    <3> QED
      BY <1>0, <2>6, <2>7, <3>1, <3>2, <3>3, <3>4 DEF M!Progress
  <2>9. M!Contents(p)'
    <3>1. ASSUME NEW u \in M!Vpns
          PROVE  s11'[p][u] = M!Found(p, u)'
      <4>1. s11[p][u] = M!Found(p, u)
        BY <1>0 DEF M!Contents
      <4> QED
        BY <2>6, <2>7, <4>1 DEF M!Found
    <3>2. ASSUME NEW u \in M!Vpns, s7'[p].pte[u] # 0
          PROVE  /\ s4'[p].pte[u] # 0 /\ s2'[s7'[p].pte[u]] = s2'[s4'[p].pte[u]]
                 /\ u \in s7'[p].guard <=> u \in s4'[p].guard
      <4>1. CASE u = v
        <5>1. v \notin s7[p].guard
          BY <1>0, <1>4 DEF M!Progress
        <5> QED
          BY <1>4, <2>1, <2>2, <2>6, <2>7, <4>1, <5>1 DEF G, x
      <4>2. CASE u # v
        <5>1. s7'[p].pte[u] = s7[p].pte[u] /\ (u \in G <=> u \in s7[p].guard)
          BY <2>1, <2>6, <4>2 DEF G
        <5> QED
          BY <1>0, <2>6, <2>7, <3>2, <5>1 DEF M!Contents
      <4> QED
        BY <4>1, <4>2
    <3> QED
      BY <2>7, <3>1, <3>2 DEF M!Contents
  <2> QED
    BY <2>6, <2>8, <2>9
<1> QED
  BY <1>5, <1>6

\* The end of fork(): the child has what copyuvm() has made.
LEMMA ForkedKeeps ==
  ASSUME M!IndInv, NEW p \in M!Slots, M!Forked(p)
  PROVE  M!IndInv'
<1> USE DEF M!Forked, M!Idle
<1>1. PICK c \in 0 .. MemorySlots : c = s10[p]
  BY Have, TypesOf
<1>2. PICK s \in M!Spaces : s = s7[p]
  BY Have, TypesOf
<1>3. /\ M!Types /\ M!Shape(p) /\ M!Progress(p) /\ M!Contents(p) /\ M!Sorted(p) /\ s3[p] = "fork"
      /\ c \in M!Slots /\ c # p /\ s3[c] = "EMBRYO"
      /\ \A q \in M!Slots \ {p} : s10[q] # c
  <2>1. M!Shape(p) /\ s3[p] = "fork"
    BY Have
  <2>2. c \in M!Slots /\ s3[c] = "EMBRYO" /\ \A q \in M!Slots \ {p} : s10[q] # c
    BY <1>1, <2>1 DEF M!Shape
  <2> QED
    BY <2>1, <2>2, Have
<1>4. /\ M!Shape(c) /\ M!Progress(c) /\ s4[c] = M!Nil /\ s7[c] = M!Nil
      /\ s8[c] = 0 /\ s9[c] = <<>> /\ s10[c] = 0 /\ s6[c] # 0
      /\ M!Mine(c) = M!Stack(c) /\ M!Mine(c) \cap s1 = {} /\ M!Mine(p) \cap s1 = {}
      /\ M!Mine(c) \cap M!Mine(p) = {}
  <2>1. M!Shape(c) /\ M!Progress(c) /\ M!Mine(c) \cap s1 = {} /\ M!Mine(p) \cap s1 = {}
    BY <1>3, Have
  <2>2. /\ s4[c] = M!Nil /\ s7[c] = M!Nil /\ s8[c] = 0 /\ s9[c] = <<>> /\ s10[c] = 0
        /\ s6[c] # 0
    BY <1>3, <2>1 DEF M!Shape
  <2>3. M!Mine(c) = M!Stack(c)
    BY <2>2, NilSpace DEF M!Mine
  <2>4. M!Mine(c) \cap M!Mine(p) = {}
    BY <1>3 DEF M!IndInv, M!PagesOwnedOnce
  <2> QED
    BY <2>1, <2>2, <2>3, <2>4
<1>5. /\ s1' = s1 /\ s2' = s2 /\ s6' = s6
      /\ s4'[c] = s /\ s5'[c] = s5[p] /\ s11'[c] = s11[p] /\ s3'[c] = "user"
      /\ s3'[p] = "user" /\ s4'[p] = s4[p] /\ s5'[p] = s5[p] /\ s11'[p] = s11[p]
      /\ s7'[p] = M!Nil /\ s8'[p] = 0 /\ s9'[p] = <<>> /\ s10'[p] = 0
      /\ s7'[c] = M!Nil /\ s8'[c] = 0 /\ s9'[c] = <<>> /\ s10'[c] = 0
  BY <1>1, <1>2, <1>3, <1>4 DEF M!Types
<1>6. ASSUME NEW q \in M!Slots \ {p, c}
      PROVE  Same(q)
  BY <1>1, <1>3 DEF Same, M!Types
<1>7. M!Types'
  <2>1. M!Nil \in M!Spaces /\ 0 \in 0 .. M!KERNBASE /\ <<>> \in Seq(Nat) /\ 0 \in 0 .. MemorySlots
    BY NilSpace, MemSizes
  <2>2. /\ s7' \in [M!Slots -> M!Spaces] /\ s8' \in [M!Slots -> 0 .. M!KERNBASE]
        /\ s9' \in [M!Slots -> Seq(Nat)] /\ s10' \in [M!Slots -> 0 .. MemorySlots]
    BY <1>3, <2>1 DEF M!Types
  <2>3. s4' = [s4 EXCEPT ![c] = s] /\ s5' = [s5 EXCEPT ![c] = s5[p]]
        /\ s11' = [s11 EXCEPT ![c] = s11[p]]
        /\ s3' = [s3 EXCEPT ![p] = "user", ![c] = "user"]
    BY <1>1, <1>2
  <2>4. s4' \in [M!Slots -> M!Spaces] /\ s5' \in [M!Slots -> 0 .. M!KERNBASE]
        /\ s11' \in [M!Slots -> [M!Vpns -> 0 .. M!Unmapped]]
    <3>1. /\ s4 \in [M!Slots -> M!Spaces] /\ s5 \in [M!Slots -> 0 .. M!KERNBASE]
          /\ s11 \in [M!Slots -> [M!Vpns -> 0 .. M!Unmapped]]
      BY <1>3 DEF M!Types
    <3>2. s5[p] \in 0 .. M!KERNBASE /\ s11[p] \in [M!Vpns -> 0 .. M!Unmapped]
      BY <3>1
    <3> QED
      BY <1>2, <1>3, <2>3, <3>1, <3>2
  <2>5. s3' \in [M!Slots -> {"UNUSED", "EMBRYO", "user", "fork", "exec", "grow", "faulting",
                              "ZOMBIE"}]
    BY <1>3, <2>3 DEF M!Types
  <2> HIDE DEF M!Forked
  <2> QED
    BY <1>3, <1>5, <2>2, <2>4, <2>5 DEF M!Types
<1>8. /\ M!Mine(p)' = M!Owned(s4[p]) \cup M!Stack(p) /\ M!Mine(c)' = M!Owned(s) \cup M!Stack(c)
      /\ M!Sorted(p)' /\ M!Sorted(c)'
  <2>1. M!Mine(p)' = M!Owned(s4[p]) \cup M!Stack(p) /\ M!Mine(c)' = M!Owned(s) \cup M!Stack(c)
    BY <1>5, NilSpace DEF M!Mine, M!Stack
  <2>2. M!Sorted(p)'
    BY <1>3, <1>5, NilSpace DEF M!Sorted, M!Stack
  <2>3. M!OnceIn(s) /\ M!Stack(c) \cap M!Owned(s) = {}
    BY <1>2, <1>3, <1>4 DEF M!Sorted, M!Mine
  <2>4. M!Sorted(c)'
    BY <1>5, <2>3, NilSpace DEF M!Sorted, M!Stack
  <2> QED
    BY <2>1, <2>2, <2>4
<1>9. /\ s1' \cup M!Mine(p)' \cup M!Mine(c)' = s1 \cup M!Mine(p) \cup M!Mine(c)
      /\ M!Mine(p)' \cap s1' = {} /\ M!Mine(c)' \cap s1' = {} /\ M!Mine(p)' \cap M!Mine(c)' = {}
  <2>1. M!Mine(p) = M!Owned(s4[p]) \cup M!Owned(s) \cup M!Stack(p)
    BY <1>2 DEF M!Mine
  <2>2. M!Owned(s4[p]) \cap M!Owned(s) = {} /\ M!Stack(p) \cap M!Owned(s) = {}
    BY <1>2, <1>3 DEF M!Sorted
  <2> QED
    BY <1>4, <1>5, <1>8, <2>1, <2>2
<1>10. ASSUME NEW v \in M!Vpns
       PROVE  /\ s.pte[v] # 0 <=> v * PageUnits < s5[p]
              /\ s.pte[v] # 0 <=> s4[p].pte[v] # 0
  <2>1. s5[p] \in Nat /\ s8[p] \in Nat /\ v \in Nat
    BY <1>3, TypesOf, TableOf
  <2>2. s8[p] = Pg(s8[p]) * PageUnits /\ Pg(s8[p]) \in Nat
    BY <1>3, <2>1, Rounded DEF M!Progress
  <2>3. Pg(s5[p]) <= Pg(s8[p])
    <3>1. s5[p] <= Pg(s8[p]) * PageUnits
      BY <2>1, <2>2
    <3> QED
      BY <2>1, <2>2, <3>1, Rounded
  <2>4. Pg(s8[p]) <= Pg(s5[p])
    <3>1. s8[p] <= M!PgRoundUp(s5[p])
      BY <1>3 DEF M!Progress
    <3>2. M!PgRoundUp(s5[p]) = Pg(s5[p]) * PageUnits /\ Pg(s5[p]) \in Nat
      BY <2>1, Rounded
    <3>3. Pg(s8[p]) * PageUnits <= Pg(s5[p]) * PageUnits
      BY <2>2, <3>1, <3>2
    <3> QED
      BY <2>2, <3>2, <3>3, Multiples
  <2>5. v * PageUnits < s8[p] <=> v < Pg(s8[p])
    <3>1. v * PageUnits < Pg(s8[p]) * PageUnits <=> v < Pg(s8[p])
      BY <2>1, <2>2, Multiples
    <3> QED
      BY <2>2, <3>1
  <2>6. v * PageUnits < s5[p] <=> v < Pg(s5[p])
    BY <2>1, Rounded
  <2>7. Pg(s8[p]) = Pg(s5[p])
    <3>1. Pg(s5[p]) \in Nat
      BY <2>1, Rounded
    <3> QED
      BY <2>2, <2>3, <2>4, <3>1
  <2>8. /\ s.pte[v] # 0 <=> v * PageUnits < s8[p]
        /\ s4[p].pte[v] # 0 <=> v * PageUnits < s5[p]
    BY <1>2, <1>3 DEF M!Progress
  <2> QED
    BY <2>5, <2>6, <2>7, <2>8
<1>11. Own(p)'
  <2>1. M!Shape(p)'
    BY <1>3, <1>5 DEF M!Shape
  <2>2. M!Progress(p)'
    BY <1>3, <1>5, NilSpace DEF M!Progress
  <2>3. M!Contents(p)'
    BY <1>3, <1>5 DEF M!Contents, M!Found
  <2> QED
    BY <2>1, <2>2, <2>3 DEF Own
<1>12. Own(c)'
  <2>1. M!Shape(c)'
    BY <1>4, <1>5 DEF M!Shape
  <2>2. M!Progress(c)'
    <3>1. \A v \in s.guard : s.pte[v] # 0
      BY <1>2, <1>3 DEF M!Progress
    <3> QED
      BY <1>5, <1>10, <3>1, NilSpace DEF M!Progress
  <2>3. M!Contents(c)'
    <3>1. ASSUME NEW v \in M!Vpns
          PROVE  s11'[c][v] = M!Found(c, v)'
      <4>1. s11[p][v] = M!Found(p, v)
        BY <1>3 DEF M!Contents
      <4>2. s.pte[v] # 0 => s2[s.pte[v]] = s2[s4[p].pte[v]]
                            /\ (v \in s.guard <=> v \in s4[p].guard)
        BY <1>2, <1>3 DEF M!Contents
      <4> QED
        BY <1>5, <1>10, <4>1, <4>2 DEF M!Found
    <3> QED
      BY <1>5, <3>1 DEF M!Contents
  <2> QED
    BY <2>1, <2>2, <2>3 DEF Own
<1>13. ASSUME NEW q \in M!Slots \ {p, c}, s3[q] = "fork"
       PROVE  s3'[s10[q]] = "EMBRYO" /\ s10'[p] # s10[q] /\ s10'[c] # s10[q]
  <2>1. /\ s10[q] \in M!Slots /\ s3[s10[q]] = "EMBRYO" /\ 0 \notin M!Slots
        /\ \A o \in M!Slots \ {q} : s10[o] # s10[q]
    BY <1>13, Have DEF M!Shape, M!Slots
  <2>2. s10[q] \notin {p, c}
    BY <1>3, <2>1
  <2>3. s3'[s10[q]] = s3[s10[q]]
    BY <1>3, <1>6, <2>1, <2>2 DEF Same
  <2> QED
    BY <1>5, <2>1, <2>3
<1>14. \A k \in M!Pages : k \notin s1 \cup M!Mine(p) \cup M!Mine(c) => s2'[k] = s2[k]
  BY <1>5
<1> HIDE DEF M!Forked, M!Idle
<1> QED
  BY <1>3, <1>6, <1>7, <1>8, <1>9, <1>11, <1>12, <1>13, <1>14, StepKeeps

\* The page above the ones that are there.
LEMMA NextPage ==
  ASSUME NEW x \in Nat, x = M!PgRoundUp(x), x < M!KERNBASE
  PROVE  LET v == M!PageOf(x) IN
         /\ v \in M!Vpns /\ v * PageUnits = x /\ x + PageUnits \in 0 .. M!KERNBASE
         /\ M!PgRoundUp(x + PageUnits) = x + PageUnits
         /\ \A u \in M!Vpns : u * PageUnits < x + PageUnits <=> (u = v \/ u * PageUnits < x)
<1>1. PICK n \in Nat : n = Pg(x)
  BY Rounded
<1>2. x = n * PageUnits /\ M!PageOf(x) = n
  BY <1>1, Rounded
<1>3. n < UserPages
  BY <1>2, Multiples, MemSizes
<1>4. n \in M!Vpns
  BY <1>3, MemSizes DEF M!Vpns
<1>5. x + PageUnits = (n + 1) * PageUnits /\ n + 1 \in Nat
  BY <1>2, Multiples
<1>6. x + PageUnits \in 0 .. M!KERNBASE
  <2>1. n + 1 <= UserPages
    BY <1>3, MemSizes
  <2>2. (n + 1) * PageUnits <= UserPages * PageUnits
    BY <1>5, <2>1, Multiples, MemSizes
  <2> QED
    BY <1>5, <2>2, MemSizes
<1>7. M!PgRoundUp(x + PageUnits) = x + PageUnits
  BY <1>5, PgOf
<1>8. ASSUME NEW u \in M!Vpns
      PROVE  u * PageUnits < x + PageUnits <=> (u = n \/ u * PageUnits < x)
  <2>1. u \in Nat
    BY TableOf
  <2>2. u * PageUnits < x <=> u < n
    BY <1>2, <2>1, Multiples
  <2>3. u * PageUnits < x + PageUnits <=> u < n + 1
    BY <1>5, <2>1, Multiples
  <2>4. u < n + 1 <=> (u = n \/ u < n)
    BY <2>1
  <2> QED
    BY <2>2, <2>3, <2>4
<1> QED
  BY <1>2, <1>4, <1>6, <1>7, <1>8

\* A turn of allocuvm() in exec().
LEMMA ExecPageKeeps ==
  ASSUME M!IndInv, NEW p \in M!Slots, M!ExecPage(p)
  PROVE  M!IndInv'
<1> USE DEF M!ExecPage
<1> DEFINE v == M!PageOf(s8[p])
           r == M!AddPage(s7[p], v)
<1>0. /\ M!Types /\ M!Shape(p) /\ M!Progress(p) /\ M!Contents(p) /\ s4[p] \in M!Spaces
      /\ s7[p] \in M!Spaces /\ s8[p] \in Nat /\ s1 \in SUBSET M!Pages /\ M!OnceIn(s7[p])
      /\ M!Owned(s7[p]) \cap s1 = {} /\ s3[p] = "exec" /\ s7[p] # M!Nil
      /\ s9[p] # <<>> /\ s9[p] \in Seq(Nat) /\ Head(s9[p]) \in Nat
  <2>1. s9[p] # <<>> /\ s9[p] \in Seq(Nat)
    BY Have, TypesOf
  <2>2. Head(s9[p]) \in Nat
    BY <2>1
  <2> QED
    BY <2>1, <2>2, Have, TypesOf
<1>1. M!PgRoundUp(s8[p]) = s8[p] /\ s8[p] < Head(s9[p]) /\ Head(s9[p]) < M!KERNBASE
      /\ s7[p].guard = {}
  BY <1>0 DEF M!Progress
<1>2. s8[p] < M!KERNBASE
  <2>1. s8[p] \in Nat /\ Head(s9[p]) \in Nat /\ M!KERNBASE \in Nat
    BY <1>0, MemSizes
  <2> HIDE DEF M!ExecPage, v
  <2> QED
    BY <1>1, <2>1
<1>3. /\ v \in M!Vpns /\ v * PageUnits = s8[p] /\ s8[p] + PageUnits \in 0 .. M!KERNBASE
      /\ M!PgRoundUp(s8[p] + PageUnits) = s8[p] + PageUnits
      /\ \A u \in M!Vpns : u * PageUnits < s8[p] + PageUnits <=> (u = v \/ u * PageUnits < s8[p])
  BY <1>0, <1>1, <1>2, NextPage
<1>4. /\ IF ~r.ok THEN M!Fail(p, r.free)
         ELSE /\ s1' = r.free
              /\ s2' = [s2 EXCEPT ![r.mem] = 0]
              /\ s7' = [s7 EXCEPT ![p] = r.space]
              /\ s8' = [s8 EXCEPT ![p] = s8[p] + PageUnits]
              /\ UNCHANGED <<M!procs, s9, s10, s11>>
  BY <1>1
<1> HIDE DEF M!ExecPage, v
<1>5. s7[p].pte[v] = 0
  <2>1. ~(v * PageUnits < s8[p])
    BY <1>0, <1>3
  <2> QED
    BY <1>0, <1>3, <2>1 DEF M!Progress
<1>6. CASE ~r.ok
  <2>1. r.free = s1
    BY <1>0, <1>3, <1>5, <1>6, Added
  <2> QED
    BY <1>0, <1>4, <1>6, <2>1, FailKeeps
<1>7. CASE r.ok
  <2> DEFINE y == s8[p] + PageUnits
             G == {}
             x == 0
  <2>1. r.space.guard = {} /\ r.space \in M!Spaces
    BY <1>0, <1>1, <1>3, <1>5, <1>7, Added
  <2>2. r.space = [r.space EXCEPT !.guard = {}]
    BY <2>1 DEF M!Spaces
  <2>3. G \in SUBSET M!Vpns /\ x \in 0 .. M!Guard /\ y \in 0 .. M!KERNBASE
    BY <1>3, MemSizes
  <2>4. /\ s1' = r.free /\ s2' = [s2 EXCEPT ![r.mem] = x]
        /\ s7' = [s7 EXCEPT ![p] = [r.space EXCEPT !.guard = G]]
        /\ s8' = [s8 EXCEPT ![p] = y]
        /\ UNCHANGED <<M!procs, s9, s10, s11>>
    <3> HIDE DEF r
    <3> QED
      BY <1>4, <1>7, <2>2
  <2>5. s3[p] \in {"fork", "exec"} /\ s7[p] # M!Nil /\ v \in M!Vpns
    BY <1>0, <1>3
  <2> HIDE DEF G, x, y
  <2>6. /\ s7'[p].guard = G /\ s7'[p].pte[v] # 0 /\ s2'[s7'[p].pte[v]] = x
        /\ s8'[p] = y
        /\ \A u \in M!Vpns : u # v => s7'[p].pte[u] = s7[p].pte[u]
        /\ \A u \in M!Vpns : /\ s7[p].pte[u] # 0 => s2'[s7[p].pte[u]] = s2[s7[p].pte[u]]
                             /\ s4[p].pte[u] # 0 =>
                                  s2'[s4[p].pte[u]] = s2[s4[p].pte[u]]
        /\ M!Progress(p)' /\ M!Contents(p)' => M!IndInv'
    BY <1>5, <1>7, <2>3, <2>4, <2>5, NewPage
  <2>7. /\ s3'[p] = "exec" /\ s4'[p] = s4[p] /\ s5'[p] = s5[p] /\ s11'[p] = s11[p]
        /\ s9'[p] = s9[p]
    BY <1>0, <2>4 DEF M!procs
  <2>8. M!Progress(p)'
    <3>1. y = M!PgRoundUp(y)
      BY <1>3 DEF y
    <3>2. ASSUME NEW u \in M!Vpns
          PROVE  s7'[p].pte[u] # 0 <=> u * PageUnits < y
      <4>1. s7[p].pte[u] # 0 <=> u * PageUnits < s8[p]
        BY <1>0 DEF M!Progress
      <4> QED
        BY <1>3, <2>6, <4>1 DEF y
    <3> QED
      BY <1>0, <2>6, <2>7, <3>1, <3>2 DEF M!Progress, G
  <2>9. M!Contents(p)'
    <3>1. ASSUME NEW u \in M!Vpns
          PROVE  s11'[p][u] = M!Found(p, u)'
      <4>1. s11[p][u] = M!Found(p, u)
        BY <1>0 DEF M!Contents
      <4> QED
        BY <2>6, <2>7, <4>1 DEF M!Found
    <3>2. ASSUME NEW u \in M!Vpns, s7'[p].pte[u] # 0
          PROVE  s2'[s7'[p].pte[u]] = M!Prog \/ u * PageUnits < Head(s9'[p])
      <4>1. CASE u = v
        BY <1>1, <1>3, <2>7, <4>1
      <4>2. CASE u # v
        <5>1. u \in M!Vpns \ s7[p].guard /\ s7[p].pte[u] = s7'[p].pte[u]
          BY <1>1, <2>6, <4>2
        <5>2. s2[s7[p].pte[u]] = M!Prog \/ u * PageUnits < Head(s9[p])
          BY <1>0, <3>2, <5>1 DEF M!Contents
        <5> QED
          BY <2>6, <2>7, <3>2, <5>1, <5>2
      <4> QED
        BY <4>1, <4>2
    <3> QED
      BY <1>0, <2>7, <3>1, <3>2 DEF M!Contents
  <2> QED
    BY <2>6, <2>8, <2>9
<1> QED
  BY <1>6, <1>7

\* The page below the stack.
LEMMA ExecStackKeeps ==
  ASSUME M!IndInv, NEW p \in M!Slots, M!ExecStack(p)
  PROVE  M!IndInv'
<1> USE DEF M!ExecStack
<1> DEFINE v == M!PageOf(s8[p])
           r == M!AddPage(s7[p], v)
<1>0. /\ M!Types /\ M!Shape(p) /\ M!Progress(p) /\ M!Contents(p) /\ s4[p] \in M!Spaces
      /\ s7[p] \in M!Spaces /\ s8[p] \in Nat /\ s1 \in SUBSET M!Pages /\ M!OnceIn(s7[p])
      /\ M!Owned(s7[p]) \cap s1 = {} /\ s3[p] = "exec" /\ s7[p] # M!Nil
      /\ s9[p] = <<>> /\ s7[p].guard = {}
  BY Have, TypesOf
<1>1. M!PgRoundUp(s8[p]) = s8[p]
  BY <1>0 DEF M!Progress
<1>2. IF s8[p] + 2 * PageUnits >= M!KERNBASE THEN M!Fail(p, s1)
      ELSE IF ~r.ok THEN M!Fail(p, r.free)
      ELSE /\ s1' = r.free
           /\ s2' = [s2 EXCEPT ![r.mem] = 0]
           /\ s7' = [s7 EXCEPT ![p] = [r.space EXCEPT !.guard = {v}]]
           /\ s8' = [s8 EXCEPT ![p] = s8[p] + PageUnits]
           /\ UNCHANGED <<M!procs, s9, s10, s11>>
  BY <1>1
<1> HIDE DEF M!ExecStack
<1>3. CASE s8[p] + 2 * PageUnits >= M!KERNBASE
  BY <1>0, <1>2, <1>3, FailKeeps
<1>4. CASE ~(s8[p] + 2 * PageUnits >= M!KERNBASE)
  <2>1. s8[p] < M!KERNBASE /\ s8[p] + PageUnits + PageUnits < M!KERNBASE
    BY <1>0, <1>4, MemSizes
  <2>2. /\ v \in M!Vpns /\ v * PageUnits = s8[p] /\ s8[p] + PageUnits \in 0 .. M!KERNBASE
        /\ M!PgRoundUp(s8[p] + PageUnits) = s8[p] + PageUnits
        /\ \A u \in M!Vpns : u * PageUnits < s8[p] + PageUnits <=> (u = v \/ u * PageUnits < s8[p])
    BY <1>0, <1>1, <2>1, NextPage
  <2> HIDE DEF v
  <2>3. s7[p].pte[v] = 0
    <3>1. ~(v * PageUnits < s8[p])
      BY <1>0, <2>2
    <3> QED
      BY <1>0, <2>2, <3>1 DEF M!Progress
  <2>4. CASE ~r.ok
    <3>1. r.free = s1
      BY <1>0, <2>2, <2>3, <2>4, Added
    <3> QED
      BY <1>0, <1>2, <1>4, <2>4, <3>1, FailKeeps
  <2>5. CASE r.ok
    <3> DEFINE y == s8[p] + PageUnits
               G == {v}
               x == 0
    <3>1. G \in SUBSET M!Vpns /\ x \in 0 .. M!Guard /\ y \in 0 .. M!KERNBASE
      BY <2>2, MemSizes
    <3>2. /\ s1' = r.free /\ s2' = [s2 EXCEPT ![r.mem] = x]
          /\ s7' = [s7 EXCEPT ![p] = [r.space EXCEPT !.guard = G]]
          /\ s8' = [s8 EXCEPT ![p] = y]
          /\ UNCHANGED <<M!procs, s9, s10, s11>>
      BY <1>2, <1>4, <2>5
    <3>7. s3[p] \in {"fork", "exec"} /\ s7[p] # M!Nil /\ v \in M!Vpns
      BY <1>0, <2>2
    <3> HIDE DEF G, x, y
    <3>3. /\ s7'[p].guard = G /\ s7'[p].pte[v] # 0 /\ s2'[s7'[p].pte[v]] = x
          /\ s8'[p] = y
          /\ \A u \in M!Vpns : u # v => s7'[p].pte[u] = s7[p].pte[u]
          /\ \A u \in M!Vpns :
               /\ s7[p].pte[u] # 0 => s2'[s7[p].pte[u]] = s2[s7[p].pte[u]]
               /\ s4[p].pte[u] # 0 => s2'[s4[p].pte[u]] = s2[s4[p].pte[u]]
          /\ M!Progress(p)' /\ M!Contents(p)' => M!IndInv'
      BY <2>3, <2>5, <3>1, <3>2, <3>7, NewPage
    <3>4. /\ s3'[p] = "exec" /\ s4'[p] = s4[p] /\ s5'[p] = s5[p]
          /\ s11'[p] = s11[p] /\ s9'[p] = <<>>
      BY <1>0, <3>2 DEF M!procs
    <3>5. M!Progress(p)'
      <4>1. y = M!PgRoundUp(y) /\ y + PageUnits < M!KERNBASE
        BY <2>1, <2>2 DEF y
      <4>2. ASSUME NEW u \in M!Vpns
            PROVE  s7'[p].pte[u] # 0 <=> u * PageUnits < y
        <5>1. s7[p].pte[u] # 0 <=> u * PageUnits < s8[p]
          BY <1>0 DEF M!Progress
        <5> QED
          BY <2>2, <3>3, <5>1 DEF y
      <4> QED
        BY <1>0, <3>3, <3>4, <4>1, <4>2 DEF M!Progress, G
    <3>6. M!Contents(p)'
      <4>1. ASSUME NEW u \in M!Vpns
            PROVE  s11'[p][u] = M!Found(p, u)'
        <5>1. s11[p][u] = M!Found(p, u)
          BY <1>0 DEF M!Contents
        <5> QED
          BY <3>3, <3>4, <5>1 DEF M!Found
      <4>2. ASSUME NEW u \in M!Vpns, s7'[p].pte[u] # 0, u # v
            PROVE  s2'[s7'[p].pte[u]] = M!Prog
        <5>1. u \in M!Vpns \ s7[p].guard /\ s7[p].pte[u] = s7'[p].pte[u]
          BY <1>0, <3>3, <4>2
        <5>2. s2[s7[p].pte[u]] = M!Prog
          BY <1>0, <4>2, <5>1 DEF M!Contents
        <5> QED
          BY <3>3, <4>2, <5>1, <5>2
      <4> QED
        BY <3>3, <3>4, <4>1, <4>2 DEF M!Contents, G
    <3> QED
      BY <3>3, <3>5, <3>6
  <2> QED
    BY <2>4, <2>5
<1> QED
  BY <1>3, <1>4

\* An address of a page is below a number when it is below it rounded up.
LEMMA Below ==
  ASSUME NEW a \in Nat, NEW v \in M!Vpns
  PROVE  /\ v * PageUnits \in Nat
         /\ v * PageUnits < a <=> v * PageUnits < M!PgRoundUp(a)
         /\ v * PageUnits >= M!PgRoundUp(a) <=> ~(v * PageUnits < a)
<1>1. PICK n \in Nat : n = Pg(a)
  BY Rounded
<1>2. v \in Nat
  BY TableOf
<1>3. v * PageUnits < a <=> v < n
  BY <1>1, <1>2, Rounded
<1>4. M!PgRoundUp(a) = n * PageUnits
  BY <1>1, Rounded
<1>5. /\ v * PageUnits \in Nat /\ n * PageUnits \in Nat
      /\ v * PageUnits < n * PageUnits <=> v < n
  BY <1>2, Multiples
<1>6. v * PageUnits >= n * PageUnits <=> ~(v * PageUnits < n * PageUnits)
  BY <1>5
<1> QED
  BY <1>3, <1>4, <1>5, <1>6

\* loaduvm(), when all of the segment has pages.
LEMMA ExecLoadKeeps ==
  ASSUME M!IndInv, NEW p \in M!Slots, M!ExecLoad(p)
  PROVE  M!IndInv'
<1> USE DEF M!ExecLoad
<1>1. PICK end \in Nat : end = Head(s9[p])
  <2>1. s9[p] # <<>> /\ s9[p] \in Seq(Nat)
    BY Have, TypesOf
  <2> QED
    BY <2>1
<1> DEFINE full == M!Mapped(s7[p], 0, end)
<1>2. CASE M!Fail(p, s1)
  BY <1>2, FailKeeps
<1>3. CASE /\ s2' = [k \in M!Pages |-> IF \E v \in full : k = s7[p].pte[v] THEN M!Prog ELSE s2[k]]
           /\ s9' = [s9 EXCEPT ![p] = Tail(@)]
           /\ UNCHANGED <<s1, M!procs, s7, s8, s10, s11>>
  <2>0. /\ M!Types /\ M!Shape(p) /\ M!Progress(p) /\ M!Contents(p) /\ M!Sorted(p)
        /\ M!Mine(p) \cap s1 = {}
        /\ s7[p] \in M!Spaces /\ s4[p] \in M!Spaces /\ s3[p] = "exec" /\ s9[p] # <<>>
        /\ s9[p] \in Seq(Nat) /\ M!Owned(s4[p]) \cap M!Owned(s7[p]) = {}
    BY Have, TypesOf
  <2>1. s7[p].guard = {}
    BY <2>0 DEF M!Progress
  <2>2. \A v \in M!Vpns : v \in full <=> s7[p].pte[v] # 0 /\ v * PageUnits < end
    <3>1. \A v \in M!Vpns : v * PageUnits >= M!PgRoundUp(0)
      BY NoPage, Below
    <3> QED
      BY <3>1 DEF M!Mapped
  <2>3. full \in SUBSET M!Vpns
    BY DEF M!Mapped
  <2> HIDE DEF full, M!ExecLoad
  <2>4. M!Types'
    <3>1. Tail(s9[p]) \in Seq(Nat)
      BY <2>0
    <3>2. s9' \in [M!Slots -> Seq(Nat)]
      BY <1>3, <2>0, <3>1 DEF M!Types
    <3>3. s2' \in [M!Pages -> 0 .. M!Guard]
      <4>1. M!Prog \in 0 .. M!Guard /\ s2 \in [M!Pages -> 0 .. M!Guard]
        BY <2>0, MemSizes DEF M!Types
      <4> QED
        BY <1>3, <4>1
    <3> QED
      BY <1>3, <2>0, <3>2, <3>3 DEF M!Types, M!procs
  <2>5. \A q \in M!Slots \ {p} : Same(q)
    BY <1>3, <2>0 DEF Same, M!Types, M!procs
  <2>6. M!Mine(p)' = M!Mine(p) /\ M!Sorted(p)'
    BY <1>3, <2>0 DEF M!Mine, M!Stack, M!Sorted, M!procs
  <2>7. \A k \in M!Pages : k \notin M!Owned(s7[p]) => s2'[k] = s2[k]
    BY <1>3, <2>0, <2>3, OwnedPages, <2>2
  <2>8. \A v \in M!Vpns : s4[p].pte[v] # 0 => s2'[s4[p].pte[v]] = s2[s4[p].pte[v]]
    BY <2>0, <2>7, OwnedPages
  <2>9. /\ s3'[p] = "exec" /\ s4'[p] = s4[p] /\ s5'[p] = s5[p] /\ s7'[p] = s7[p]
        /\ s8'[p] = s8[p] /\ s11'[p] = s11[p] /\ s10' = s10 /\ s3' = s3
        /\ s6'[p] = s6[p]
    BY <1>3, <2>0 DEF M!procs
  <2>10. Own(p)'
    <3>1. M!Shape(p)'
      BY <2>0, <2>9 DEF M!Shape
    <3>2. M!Progress(p)'
      BY <2>0, <2>1, <2>9 DEF M!Progress
    <3>3. M!Contents(p)'
      <4>1. ASSUME NEW v \in M!Vpns
            PROVE  s11'[p][v] = M!Found(p, v)'
        <5>1. s11[p][v] = M!Found(p, v)
          BY <2>0 DEF M!Contents
        <5> QED
          BY <2>8, <2>9, <5>1 DEF M!Found
      <4>2. ASSUME NEW v \in M!Vpns, s7[p].pte[v] # 0
            PROVE  s2'[s7[p].pte[v]] = M!Prog
        <5>1. s2[s7[p].pte[v]] = M!Prog \/ v \in full
          BY <1>1, <2>0, <2>1, <2>2, <4>2 DEF M!Contents
        <5>2. s7[p].pte[v] \in M!Pages
          BY <2>0, <4>2, OwnedPages
        <5> QED
          BY <1>3, <5>1, <5>2
      <4> QED
        BY <2>9, <4>1, <4>2 DEF M!Contents
    <3> QED
      BY <3>1, <3>2, <3>3 DEF Own
  <2>11. /\ \A k \in M!Pages : k \notin s1 \cup M!Mine(p) => s2'[k] = s2[k]
         /\ s10'[p] \in {0, s10[p]} /\ s3[p] # "EMBRYO"
         /\ s1' \cup M!Mine(p)' = s1 \cup M!Mine(p) /\ M!Mine(p)' \cap s1' = {}
    <3>1. M!Owned(s7[p]) \subseteq M!Mine(p)
      BY DEF M!Mine
    <3> QED
      BY <1>3, <2>0, <2>6, <2>7, <2>9, <3>1
  <2> QED
    BY <2>4, <2>5, <2>6, <2>10, <2>11, StepOfOne
<1> QED
  BY <1>1, <1>2, <1>3

\* exec() takes the new address space.
LEMMA ExecCommitKeeps ==
  ASSUME M!IndInv, NEW p \in M!Slots, M!ExecCommit(p)
  PROVE  M!IndInv'
<1> USE DEF M!ExecCommit
<1> DEFINE v == M!PageOf(s8[p])
           r == M!AddPage(s7[p], v)
           old == M!Owned(s4[p])
<1>0. /\ M!Types /\ M!Shape(p) /\ M!Progress(p) /\ M!Contents(p) /\ M!Sorted(p)
      /\ M!Mine(p) \cap s1 = {}
      /\ M!Mine(p) \in SUBSET M!Pages /\ s4[p] \in M!Spaces
      /\ s7[p] \in M!Spaces /\ s8[p] \in Nat /\ s1 \in SUBSET M!Pages /\ M!OnceIn(s7[p])
      /\ M!Owned(s7[p]) \cap s1 = {} /\ M!Owned(s4[p]) \cap s1 = {} /\ s3[p] = "exec"
      /\ M!Owned(s4[p]) \cap M!Owned(s7[p]) = {} /\ M!Stack(p) \cap M!Owned(s7[p]) = {}
  BY Have, TypesOf
<1>1. /\ M!PgRoundUp(s8[p]) = s8[p] /\ s8[p] + PageUnits < M!KERNBASE /\ s9[p] = <<>>
      /\ s8[p] < M!KERNBASE
  <2>1. /\ M!PgRoundUp(s8[p]) = s8[p] /\ s8[p] + PageUnits < M!KERNBASE /\ s9[p] = <<>>
    BY <1>0 DEF M!Progress
  <2> QED
    BY <1>0, <2>1, MemSizes
<1>2. /\ v \in M!Vpns /\ v * PageUnits = s8[p] /\ s8[p] + PageUnits \in 0 .. M!KERNBASE
      /\ M!PgRoundUp(s8[p] + PageUnits) = s8[p] + PageUnits
      /\ \A u \in M!Vpns : u * PageUnits < s8[p] + PageUnits <=> (u = v \/ u * PageUnits < s8[p])
  BY <1>0, <1>1, NextPage
<1>3. s7[p].pte[v] = 0
  <2>1. ~(v * PageUnits < s8[p])
    BY <1>0, <1>2
  <2> QED
    BY <1>0, <1>2, <2>1 DEF M!Progress
<1>4. CASE M!Fail(p, IF r.ok THEN s1 ELSE r.free)
  <2>1. ~r.ok => r.free = s1
    BY <1>0, <1>2, <1>3, Added
  <2>2. (IF r.ok THEN s1 ELSE r.free) = s1
    BY <2>1
  <2> QED
    BY <1>0, <1>4, <2>2, FailKeeps
<1>5. CASE /\ r.ok
           /\ s4' = [s4 EXCEPT ![p] = r.space]
           /\ s1' = r.free \cup old
           /\ s2' = [k \in M!Pages |-> IF k = r.mem THEN p ELSE IF k \in old THEN M!Junk ELSE s2[k]]
           /\ s5' = [s5 EXCEPT ![p] = s8[p] + PageUnits]
           /\ s11' = [s11 EXCEPT ![p] = [u \in M!Vpns |->
                IF u = v THEN p ELSE IF u \in s7[p].guard THEN M!Guard
                ELSE IF s7[p].pte[u] # 0 THEN M!Prog ELSE M!Unmapped]]
           /\ s3' = [s3 EXCEPT ![p] = "user"]
           /\ M!Idle(p) /\ UNCHANGED s6
  <2> HIDE DEF M!ExecCommit
  <2>1. /\ r.space \in M!Spaces /\ r.free \in SUBSET s1 /\ M!OnceIn(r.space)
        /\ r.mem \in s1 /\ r.mem \notin r.free /\ r.mem \in M!Pages /\ r.mem # 0
        /\ M!Owned(r.space) = M!Owned(s7[p]) \cup (s1 \ r.free)
        /\ r.space.guard = s7[p].guard /\ r.space.pte[v] = r.mem
        /\ \A u \in M!Vpns : u # v => r.space.pte[u] = s7[p].pte[u]
    BY <1>0, <1>2, <1>3, <1>5, Added
  <2> HIDE DEF r, v
  <2>2. /\ s4'[p] = r.space /\ s5'[p] = s8[p] + PageUnits /\ s3'[p] = "user"
        /\ s7'[p] = M!Nil /\ s8'[p] = 0 /\ s9'[p] = <<>> /\ s10'[p] = 0
        /\ s6'[p] = s6[p]
        /\ \A u \in M!Vpns : s11'[p][u] =
             IF u = v THEN p ELSE IF u \in s7[p].guard THEN M!Guard
             ELSE IF s7[p].pte[u] # 0 THEN M!Prog ELSE M!Unmapped
    BY <1>0, <1>5 DEF M!Types, M!Idle
  <2>3. M!Types'
    <3>1. s1' \in SUBSET M!Pages /\ s2' \in [M!Pages -> 0 .. M!Guard]
      <4>1. old \in SUBSET M!Pages /\ p \in 0 .. M!Guard /\ M!Junk \in 0 .. M!Guard
        BY <1>0, MemSizes DEF M!Mine, M!Slots
      <4>2. s2 \in [M!Pages -> 0 .. M!Guard]
        BY <1>0 DEF M!Types
      <4> HIDE DEF old
      <4> QED
        BY <1>0, <1>5, <2>1, <4>1, <4>2
    <3>2. /\ s7' \in [M!Slots -> M!Spaces] /\ s8' \in [M!Slots -> 0 .. M!KERNBASE]
          /\ s9' \in [M!Slots -> Seq(Nat)] /\ s10' \in [M!Slots -> 0 .. MemorySlots]
      <4>1. M!Nil \in M!Spaces /\ 0 \in 0 .. M!KERNBASE /\ <<>> \in Seq(Nat)
            /\ 0 \in 0 .. MemorySlots
        BY NilSpace, MemSizes
      <4> QED
        BY <1>0, <1>5, <4>1 DEF M!Types, M!Idle
    <3>3. s4' \in [M!Slots -> M!Spaces] /\ s5' \in [M!Slots -> 0 .. M!KERNBASE]
      <4>1. s4 \in [M!Slots -> M!Spaces] /\ s5 \in [M!Slots -> 0 .. M!KERNBASE]
        BY <1>0 DEF M!Types
      <4> QED
        BY <1>2, <1>5, <2>1, <4>1
    <3>4. s11' \in [M!Slots -> [M!Vpns -> 0 .. M!Unmapped]]
      <4>1. /\ p \in 0 .. M!Unmapped /\ M!Guard \in 0 .. M!Unmapped /\ M!Prog \in 0 .. M!Unmapped
            /\ M!Unmapped \in 0 .. M!Unmapped
        BY MemSizes DEF M!Slots
      <4>2. s11 \in [M!Slots -> [M!Vpns -> 0 .. M!Unmapped]]
        BY <1>0 DEF M!Types
      <4>3. [u \in M!Vpns |-> IF u = v THEN p ELSE IF u \in s7[p].guard THEN M!Guard
                            ELSE IF s7[p].pte[u] # 0 THEN M!Prog ELSE M!Unmapped]
              \in [M!Vpns -> 0 .. M!Unmapped]
        BY <4>1
      <4> QED
        BY <1>5, <4>2, <4>3
    <3>5. s6' \in [M!Slots -> 0 .. MemoryPages]
          /\ s3' \in [M!Slots -> {"UNUSED", "EMBRYO", "user", "fork", "exec", "grow",
                                   "faulting", "ZOMBIE"}]
      BY <1>0, <1>5 DEF M!Types
    <3> QED
      BY <3>1, <3>2, <3>3, <3>4, <3>5 DEF M!Types
  <2>4. \A q \in M!Slots \ {p} : Same(q)
    BY <1>0, <1>5 DEF Same, M!Types, M!Idle
  <2>5. M!Mine(p)' = M!Owned(r.space) \cup M!Stack(p) /\ M!Sorted(p)'
    <3>1. M!Mine(p)' = M!Owned(r.space) \cup M!Stack(p)
      BY <2>2, NilSpace DEF M!Mine, M!Stack
    <3>2. M!Stack(p) \cap M!Owned(r.space) = {}
      BY <1>0, <2>1 DEF M!Mine
    <3> QED
      BY <2>1, <2>2, <3>1, <3>2, NilSpace DEF M!Sorted, M!Stack
  <2>6. Own(p)'
    <3>1. M!Shape(p)'
      BY <1>0, <2>2 DEF M!Shape
    <3>2. M!Progress(p)'
      <4>1. ASSUME NEW u \in M!Vpns
            PROVE  r.space.pte[u] # 0 <=> u * PageUnits < s8[p] + PageUnits
        <5>1. s7[p].pte[u] # 0 <=> u * PageUnits < s8[p]
          BY <1>0 DEF M!Progress
        <5> QED
          BY <1>2, <2>1, <5>1
      <4>2. \A u \in s7[p].guard : u \in M!Vpns /\ s7[p].pte[u] # 0 /\ u # v
        BY <1>0, <1>3, Fields DEF M!Progress
      <4> QED
        BY <2>1, <2>2, <4>1, <4>2, NilSpace DEF M!Progress
    <3>3. M!Contents(p)'
      <4> SUFFICES ASSUME NEW u \in M!Vpns
                   PROVE  s11'[p][u] = M!Found(p, u)'
        BY <2>2 DEF M!Contents
      <4>1. v \notin s7[p].guard
        BY <1>0, <1>3 DEF M!Progress
      <4>2. CASE u = v
        <5>1. s2'[r.mem] = p
          BY <1>5, <2>1
        <5> QED
          BY <2>1, <2>2, <4>1, <4>2, <5>1 DEF M!Found
      <4>3. CASE u # v /\ u \in s7[p].guard
        <5>1. s7[p].pte[u] # 0
          BY <1>0, <4>3 DEF M!Progress
        <5> QED
          BY <2>1, <2>2, <4>3, <5>1 DEF M!Found
      <4>4. CASE u # v /\ u \notin s7[p].guard
        <5>1. s7[p].pte[u] # 0 => s2[s7[p].pte[u]] = M!Prog
          BY <1>0, <1>1, <4>4 DEF M!Contents
        <5>2. ASSUME s7[p].pte[u] # 0
              PROVE  s2'[s7[p].pte[u]] = M!Prog
          <6>1. s7[p].pte[u] \in M!Owned(s7[p]) /\ s7[p].pte[u] \in M!Pages
            BY <1>0, <5>2, OwnedPages
          <6>2. s7[p].pte[u] # r.mem /\ s7[p].pte[u] \notin old
            BY <1>0, <2>1, <6>1
          <6> QED
            BY <1>5, <5>1, <5>2, <6>1, <6>2
        <5> QED
          BY <2>1, <2>2, <4>4, <5>2 DEF M!Found
      <4> QED
        BY <4>2, <4>3, <4>4
    <3> QED
      BY <3>1, <3>2, <3>3 DEF Own
  <2>7. M!Mine(p) = old \cup M!Owned(s7[p]) \cup M!Stack(p)
    BY DEF M!Mine
  <2>8. \A k \in M!Pages : k \notin s1 \cup M!Mine(p) => s2'[k] = s2[k]
    <3> HIDE DEF old
    <3> QED
      BY <1>5, <2>1, <2>7
  <2>9. /\ s10'[p] \in {0, s10[p]} /\ s3[p] # "EMBRYO"
        /\ s1' \cup M!Mine(p)' = s1 \cup M!Mine(p) /\ M!Mine(p)' \cap s1' = {}
    <3>1. s1' = r.free \cup old /\ old \cap M!Owned(s7[p]) = {} /\ old \cap s1 = {}
          /\ M!Stack(p) \cap old = {} /\ M!Stack(p) \cap s1 = {} /\ M!Owned(s7[p]) \cap s1 = {}
      BY <1>0, <1>5 DEF M!Sorted, M!Mine
    <3> HIDE DEF old
    <3> QED
      BY <1>0, <2>1, <2>2, <2>5, <2>7, <3>1
  <2> QED
    BY <2>3, <2>4, <2>5, <2>6, <2>8, <2>9, StepOfOne
<1>6. \/ M!Fail(p, IF r.ok THEN s1 ELSE r.free)
      \/ /\ r.ok
         /\ s4' = [s4 EXCEPT ![p] = r.space]
         /\ s1' = r.free \cup old
         /\ s2' = [k \in M!Pages |-> IF k = r.mem THEN p ELSE IF k \in old THEN M!Junk ELSE s2[k]]
         /\ s5' = [s5 EXCEPT ![p] = s8[p] + PageUnits]
         /\ s11' = [s11 EXCEPT ![p] = [u \in M!Vpns |->
              IF u = v THEN p ELSE IF u \in s7[p].guard THEN M!Guard
              ELSE IF s7[p].pte[u] # 0 THEN M!Prog ELSE M!Unmapped]]
         /\ s3' = [s3 EXCEPT ![p] = "user"]
         /\ M!Idle(p) /\ UNCHANGED s6
  BY DEF M!Commit
<1> HIDE DEF M!ExecCommit
<1> QED
  BY <1>4, <1>5, <1>6

-----------------------------------------------------------------------------
(* Memory: sbrk() *)

\* A turn of allocuvm() in growproc(), or its end without memory.
LEMMA GrowPageKeeps ==
  ASSUME M!IndInv, NEW p \in M!Slots, M!GrowPage(p)
  PROVE  M!IndInv'
<1> USE DEF M!GrowPage
<1>1. PICK a \in Nat : a = M!PgRoundUp(s8[p])
  BY Have, TypesOf, Rounded
<1>2. PICK top \in Nat : top = Head(s9[p])
  <2>1. s9[p] # <<>> /\ s9[p] \in Seq(Nat)
    BY Have, TypesOf DEF M!Progress
  <2> QED
    BY <2>1
<1> DEFINE v == M!PageOf(a)
           r == M!AddPage(s4[p], v)
<1>0. /\ M!Types /\ M!Shape(p) /\ M!Progress(p) /\ M!Contents(p) /\ M!Sorted(p)
      /\ M!Mine(p) \cap s1 = {}
      /\ M!Mine(p) \in SUBSET M!Pages /\ s4[p] \in M!Spaces /\ s7[p] = M!Nil /\ s10[p] = 0
      /\ s8[p] \in Nat /\ s5[p] \in Nat /\ s5[p] <= M!KERNBASE /\ s1 \in SUBSET M!Pages
      /\ M!OnceIn(s4[p]) /\ M!Owned(s4[p]) \cap s1 = {} /\ s3[p] = "grow"
      /\ M!Stack(p) \cap M!Owned(s4[p]) = {}
  <2>1. M!Shape(p) /\ s3[p] = "grow"
    BY Have
  <2>2. s7[p] = M!Nil /\ s10[p] = 0
    BY <2>1 DEF M!Shape
  <2> QED
    BY <2>1, <2>2, Have, TypesOf
<1>3. /\ a < top /\ top < M!KERNBASE /\ M!PgRoundUp(s5[p]) <= a /\ a <= M!PgRoundUp(top)
      /\ \A u \in M!Vpns : s4[p].pte[u] # 0 <=> u * PageUnits < a
  BY <1>0, <1>1, <1>2 DEF M!Progress
<1>4. a = M!PgRoundUp(a) /\ a < M!KERNBASE
  <2>1. a = M!PgRoundUp(a)
    BY <1>0, <1>1, Rounded, PgOf
  <2> QED
    BY <1>3, <2>1, MemSizes
<1>5. /\ v \in M!Vpns /\ v * PageUnits = a /\ a + PageUnits \in 0 .. M!KERNBASE
      /\ M!PgRoundUp(a + PageUnits) = a + PageUnits
      /\ \A u \in M!Vpns : u * PageUnits < a + PageUnits <=> (u = v \/ u * PageUnits < a)
  BY <1>4, NextPage
<1>6. s4[p].pte[v] = 0
  BY <1>3, <1>5
<1>7. /\ r.ok \in BOOLEAN
      /\ ~r.ok => r.free = s1
      /\ r.ok => /\ r.space \in M!Spaces /\ r.free \in SUBSET s1 /\ M!OnceIn(r.space)
                 /\ r.mem \in s1 /\ r.mem \notin r.free /\ r.mem \in M!Pages /\ r.mem # 0
                 /\ M!Owned(r.space) = M!Owned(s4[p]) \cup (s1 \ r.free)
                 /\ r.space.guard = s4[p].guard /\ r.space.pte[v] = r.mem
                 /\ \A u \in M!Vpns : u # v => r.space.pte[u] = s4[p].pte[u]
  BY <1>0, <1>5, <1>6, Added
<1>8. /\ IF r.ok
         THEN /\ s1' = r.free
              /\ s2' = [s2 EXCEPT ![r.mem] = 0]
              /\ s4' = [s4 EXCEPT ![p] = r.space]
              /\ s8' = [s8 EXCEPT ![p] = a + PageUnits]
              /\ UNCHANGED <<s3, s7, s9, s10>>
         ELSE /\ s4' = [s4 EXCEPT ![p] = M!Shrunk(s4[p], top, s5[p])]
              /\ M!Freed(r.free, M!Owned(s4[p]) \ M!Owned(s4'[p]))
              /\ s3' = [s3 EXCEPT ![p] = "user"]
              /\ M!Idle(p)
      /\ UNCHANGED <<s5, s6, s11>>
  BY <1>0, <1>1, <1>2 DEF M!Types
<1> HIDE DEF M!GrowPage, v, r
<1>9. \A u \in M!Vpns : /\ u * PageUnits \in Nat
                        /\ u * PageUnits < s5[p] => u * PageUnits < a
  <2> SUFFICES ASSUME NEW u \in M!Vpns
               PROVE  /\ u * PageUnits \in Nat
                      /\ u * PageUnits < s5[p] => u * PageUnits < a
    OBVIOUS
  <2>1. u * PageUnits \in Nat /\ M!PgRoundUp(s5[p]) \in Nat
    BY <1>0, Below, Rounded
  <2>2. u * PageUnits < s5[p] <=> u * PageUnits < M!PgRoundUp(s5[p])
    BY <1>0, Below
  <2> QED
    BY <1>3, <2>1, <2>2
<1>10. CASE r.ok
  <2>1. /\ s4'[p] = r.space /\ s8'[p] = a + PageUnits /\ s3'[p] = "grow"
        /\ s7'[p] = M!Nil /\ s9'[p] = s9[p] /\ s10' = s10 /\ s3' = s3
        /\ s6'[p] = s6[p] /\ s5'[p] = s5[p] /\ s11'[p] = s11[p]
    BY <1>0, <1>8, <1>10 DEF M!Types
  <2>2. /\ s2'[r.mem] = 0 /\ \A k \in M!Pages : k # r.mem => s2'[k] = s2[k]
        /\ s1' = r.free
    BY <1>0, <1>7, <1>8, <1>10 DEF M!Types
  <2>3. M!Types'
    <3>1. s1' \in SUBSET M!Pages /\ s2' \in [M!Pages -> 0 .. M!Guard]
      <4>1. s2 \in [M!Pages -> 0 .. M!Guard] /\ 0 \in 0 .. M!Guard
        BY <1>0, MemSizes DEF M!Types
      <4> QED
        BY <1>0, <1>7, <1>8, <1>10, <4>1
    <3>2. s4' \in [M!Slots -> M!Spaces] /\ s8' \in [M!Slots -> 0 .. M!KERNBASE]
      <4>1. s4 \in [M!Slots -> M!Spaces] /\ s8 \in [M!Slots -> 0 .. M!KERNBASE]
        BY <1>0 DEF M!Types
      <4> QED
        BY <1>5, <1>7, <1>8, <1>10, <4>1
    <3> QED
      BY <1>0, <1>8, <1>10, <3>1, <3>2 DEF M!Types
  <2>4. \A q \in M!Slots \ {p} : Same(q)
    BY <1>0, <1>8, <1>10 DEF Same, M!Types
  <2>5. M!Mine(p) = M!Owned(s4[p]) \cup M!Stack(p) /\ M!Mine(p)' = M!Owned(r.space) \cup M!Stack(p)
    BY <1>0, <2>1, NilSpace DEF M!Mine, M!Stack
  <2>6. M!Sorted(p)'
    <3>1. M!Stack(p) \cap M!Owned(r.space) = {}
      BY <1>0, <1>7, <1>10, <2>5
    <3> QED
      BY <1>7, <1>10, <2>1, <3>1, NilSpace DEF M!Sorted, M!Stack
  <2>7. Own(p)'
    <3>1. M!Shape(p)'
      BY <1>0, <2>1 DEF M!Shape
    <3>2. M!Progress(p)'
      <4>1. a + PageUnits <= M!PgRoundUp(top)
        <5>1. PICK n \in Nat, m \in Nat : n = Pg(a) /\ m = Pg(top)
          BY Rounded
        <5>2. a = n * PageUnits /\ M!PgRoundUp(top) = m * PageUnits
          BY <1>4, <5>1, Rounded
        <5>3. n < m
          BY <1>3, <5>1, <5>2, Rounded
        <5>4. a + PageUnits = (n + 1) * PageUnits /\ n + 1 \in Nat /\ n + 1 <= m
          BY <5>2, <5>3, Multiples
        <5> QED
          BY <5>2, <5>4, Multiples
      <4>2. M!PgRoundUp(s5[p]) <= a + PageUnits
        <5>1. M!PgRoundUp(s5[p]) \in Nat
          BY <1>0, Rounded
        <5> QED
          BY <1>3, <5>1, MemSizes
      <4>3. ASSUME NEW u \in M!Vpns
            PROVE  r.space.pte[u] # 0 <=> u * PageUnits < a + PageUnits
        BY <1>3, <1>5, <1>7, <1>10
      <4>4. \A u \in s4[p].guard : u \in M!Vpns /\ s4[p].pte[u] # 0 /\ u # v
        BY <1>0, <1>6, Fields DEF M!Progress
      <4>5. s9[p] # <<>>
        BY <1>0 DEF M!Progress
      <4> QED
        BY <1>2, <1>3, <1>5, <1>7, <1>10, <2>1, <4>1, <4>2, <4>3, <4>4, <4>5, NilSpace
           DEF M!Progress
    <3>3. M!Contents(p)'
      <4>1. ASSUME NEW u \in M!Vpns
            PROVE  IF u * PageUnits < s5[p] THEN s11[p][u] = M!Found(p, u)'
                   ELSE /\ s11[p][u] = M!Unmapped /\ u \notin r.space.guard
                        /\ r.space.pte[u] # 0 => s2'[r.space.pte[u]] = 0
        <5>0. IF u * PageUnits < s5[p] THEN s11[p][u] = M!Found(p, u)
              ELSE /\ s11[p][u] = M!Unmapped /\ u \notin s4[p].guard
                   /\ s4[p].pte[u] # 0 => s2[s4[p].pte[u]] = 0
          BY <1>0 DEF M!Contents
        <5>1. CASE u = v
          <6>1. ~(u * PageUnits < s5[p])
            BY <1>3, <1>5, <1>6, <1>9, <5>1
          <6> QED
            BY <1>7, <1>10, <2>2, <5>0, <5>1, <6>1
        <5>2. CASE u # v
          <6>1. r.space.pte[u] = s4[p].pte[u] /\ r.space.guard = s4[p].guard
            BY <1>7, <1>10, <5>2
          <6>2. s4[p].pte[u] # 0 => s2'[s4[p].pte[u]] = s2[s4[p].pte[u]]
            BY <1>0, <1>7, <1>10, <2>2, OwnedPages
          <6>3. M!Found(p, u)' = M!Found(p, u)
            BY <2>1, <6>1, <6>2 DEF M!Found
          <6> QED
            BY <5>0, <6>1, <6>2, <6>3
        <5> QED
          BY <5>1, <5>2
      <4> QED
        BY <2>1, <4>1 DEF M!Contents
    <3> QED
      BY <3>1, <3>2, <3>3 DEF Own
  <2>8. /\ \A k \in M!Pages : k \notin s1 \cup M!Mine(p) => s2'[k] = s2[k]
        /\ s10'[p] \in {0, s10[p]} /\ s3[p] # "EMBRYO"
        /\ s1' \cup M!Mine(p)' = s1 \cup M!Mine(p) /\ M!Mine(p)' \cap s1' = {}
    BY <1>0, <1>7, <1>10, <2>1, <2>2, <2>5
  <2> QED
    BY <2>3, <2>4, <2>6, <2>7, <2>8, StepOfOne
<1>11. CASE ~r.ok
  <2> DEFINE w == M!Shrunk(s4[p], top, s5[p])
             gone == M!Mapped(s4[p], s5[p], top)
             pages == M!Owned(s4[p]) \ M!Owned(w)
  <2>1. /\ w \in M!Spaces /\ M!Owned(w) \subseteq M!Owned(s4[p]) /\ M!OnceIn(w)
        /\ w.guard = s4[p].guard \ gone
        /\ \A u \in M!Vpns : w.pte[u] = IF u \in gone THEN 0 ELSE s4[p].pte[u]
    BY <1>0, ShrinkRight
  <2>2. \A u \in M!Vpns : u \in gone <=> s4[p].pte[u] # 0 /\ ~(u * PageUnits < s5[p])
    <3> SUFFICES ASSUME NEW u \in M!Vpns
                 PROVE  u \in gone <=> s4[p].pte[u] # 0 /\ ~(u * PageUnits < s5[p])
      OBVIOUS
    <3>1. u * PageUnits >= M!PgRoundUp(s5[p]) <=> ~(u * PageUnits < s5[p])
      BY <1>0, Below
    <3>2. u * PageUnits < a => u * PageUnits < top
      BY <1>3, <1>9
    <3> QED
      BY <1>3, <3>1, <3>2 DEF M!Mapped
  <2>3. /\ s4' = [s4 EXCEPT ![p] = w] /\ s4'[p] = w /\ s3'[p] = "user"
        /\ s7'[p] = M!Nil /\ s8'[p] = 0 /\ s9'[p] = <<>> /\ s10'[p] = 0
        /\ s6'[p] = s6[p] /\ s5'[p] = s5[p] /\ s11'[p] = s11[p]
    BY <1>0, <1>8, <1>11 DEF M!Types, M!Idle
  <2>4. /\ s1' = s1 \cup pages
        /\ s2' = [k \in M!Pages |-> IF k \in pages THEN M!Junk ELSE s2[k]]
    BY <1>7, <1>8, <1>11, <2>3 DEF M!Freed
  <2> HIDE DEF w, gone
  <2>5. pages \in SUBSET M!Pages /\ pages \in SUBSET M!Mine(p)
    BY <1>0 DEF M!Mine
  <2>6. M!Types'
    <3>1. s1' \in SUBSET M!Pages /\ s2' \in [M!Pages -> 0 .. M!Guard]
      <4>1. s2 \in [M!Pages -> 0 .. M!Guard] /\ M!Junk \in 0 .. M!Guard
        BY <1>0, MemSizes DEF M!Types
      <4> QED
        BY <1>0, <2>4, <2>5, <4>1
    <3>2. /\ s7' \in [M!Slots -> M!Spaces] /\ s8' \in [M!Slots -> 0 .. M!KERNBASE]
          /\ s9' \in [M!Slots -> Seq(Nat)] /\ s10' \in [M!Slots -> 0 .. MemorySlots]
      <4>1. M!Nil \in M!Spaces /\ 0 \in 0 .. M!KERNBASE /\ <<>> \in Seq(Nat)
            /\ 0 \in 0 .. MemorySlots
        BY NilSpace, MemSizes
      <4>2. /\ s7 \in [M!Slots -> M!Spaces] /\ s8 \in [M!Slots -> 0 .. M!KERNBASE]
            /\ s9 \in [M!Slots -> Seq(Nat)] /\ s10 \in [M!Slots -> 0 .. MemorySlots]
        BY <1>0 DEF M!Types
      <4>3. /\ s7' = [s7 EXCEPT ![p] = M!Nil] /\ s8' = [s8 EXCEPT ![p] = 0]
            /\ s9' = [s9 EXCEPT ![p] = <<>>] /\ s10' = [s10 EXCEPT ![p] = 0]
        BY <1>8, <1>11 DEF M!Idle
      <4> QED
        BY <4>1, <4>2, <4>3
    <3>3. s4' \in [M!Slots -> M!Spaces]
      BY <1>0, <2>1, <2>3 DEF M!Types
    <3> QED
      BY <1>0, <1>8, <1>11, <3>1, <3>2, <3>3 DEF M!Types
  <2>7. \A q \in M!Slots \ {p} : Same(q)
    BY <1>0, <1>8, <1>11, <2>3 DEF Same, M!Types, M!Idle
  <2>8. /\ M!Mine(p) = M!Mine(p)' \cup pages /\ M!Mine(p)' \cap pages = {} /\ M!Sorted(p)'
    <3>1. M!Mine(p) = M!Owned(s4[p]) \cup M!Stack(p) /\ M!Mine(p)' = M!Owned(w) \cup M!Stack(p)
      BY <1>0, <2>3, NilSpace DEF M!Mine, M!Stack
    <3>2. M!Sorted(p)'
      BY <1>0, <2>1, <2>3, NilSpace DEF M!Sorted, M!Stack
    <3> QED
      BY <1>0, <2>1, <3>1, <3>2
  <2>9. Own(p)'
    <3>1. M!Shape(p)'
      BY <1>0, <2>3 DEF M!Shape
    <3>2. M!Progress(p)'
      <4>1. ASSUME NEW u \in M!Vpns
            PROVE  w.pte[u] # 0 <=> u * PageUnits < s5[p]
        BY <1>3, <1>9, <2>1, <2>2
      <4>2. \A u \in w.guard : w.pte[u] # 0
        <5>1. \A u \in w.guard : u \in s4[p].guard /\ u \in M!Vpns /\ u \notin gone
          BY <1>0, <2>1, Fields
        <5> QED
          BY <1>0, <2>1, <5>1 DEF M!Progress
      <4> QED
        BY <2>3, <4>1, <4>2, NilSpace DEF M!Progress
    <3>3. M!Contents(p)'
      <4> SUFFICES ASSUME NEW u \in M!Vpns
                   PROVE  s11'[p][u] = M!Found(p, u)'
        BY <2>3 DEF M!Contents
      <4>0. IF u * PageUnits < s5[p] THEN s11[p][u] = M!Found(p, u)
            ELSE s11[p][u] = M!Unmapped
        BY <1>0 DEF M!Contents
      <4>1. CASE u * PageUnits < s5[p]
        <5>1. w.pte[u] = s4[p].pte[u] /\ (u \in w.guard <=> u \in s4[p].guard)
          BY <2>1, <2>2, <4>1
        <5>2. w.pte[u] # 0 => w.pte[u] \in M!Pages /\ w.pte[u] \notin pages
          BY <2>1, OwnedPages
        <5>3. w.pte[u] # 0 => s2'[w.pte[u]] = s2[w.pte[u]]
          BY <2>4, <5>2
        <5> QED
          BY <2>3, <4>0, <4>1, <5>1, <5>3 DEF M!Found
      <4>2. CASE ~(u * PageUnits < s5[p])
        <5>1. w.pte[u] = 0
          BY <2>1, <2>2, <4>2
        <5> QED
          BY <2>3, <4>0, <4>2, <5>1 DEF M!Found
      <4> QED
        BY <4>1, <4>2
    <3> QED
      BY <3>1, <3>2, <3>3 DEF Own
  <2>10. \A k \in M!Pages : k \notin s1 \cup M!Mine(p) => s2'[k] = s2[k]
    BY <2>4, <2>5
  <2>11. /\ s10'[p] \in {0, s10[p]} /\ s3[p] # "EMBRYO"
         /\ s1' \cup M!Mine(p)' = s1 \cup M!Mine(p) /\ M!Mine(p)' \cap s1' = {}
    BY <1>0, <2>3, <2>4, <2>8
  <2> QED
    BY <2>6, <2>7, <2>8, <2>9, <2>10, <2>11, StepOfOne
<1> QED
  BY <1>7, <1>10, <1>11

\* growproc() is done.
LEMMA GrownKeeps ==
  ASSUME M!IndInv, NEW p \in M!Slots, M!Grown(p)
  PROVE  M!IndInv'
<1> USE DEF M!Grown, M!Idle
<1>1. PICK top \in Nat : top = Head(s9[p])
  <2>1. s9[p] # <<>> /\ s9[p] \in Seq(Nat)
    BY Have, TypesOf DEF M!Progress
  <2> QED
    BY <2>1
<1> DEFINE more == M!Mapped(s4[p], s5[p], top)
<1>0. /\ M!Types /\ M!Shape(p) /\ M!Progress(p) /\ M!Contents(p) /\ M!Sorted(p)
      /\ M!Mine(p) \cap s1 = {}
      /\ s4[p] \in M!Spaces /\ s7[p] = M!Nil /\ s10[p] = 0
      /\ s8[p] \in Nat /\ s5[p] \in Nat /\ s3[p] = "grow"
  <2>1. M!Shape(p) /\ s3[p] = "grow"
    BY Have
  <2>2. s7[p] = M!Nil /\ s10[p] = 0
    BY <2>1 DEF M!Shape
  <2> QED
    BY <2>1, <2>2, Have, TypesOf
<1>2. PICK a \in Nat : a = M!PgRoundUp(s8[p])
  BY <1>0, Rounded
<1>3. /\ top <= a /\ top < M!KERNBASE /\ M!PgRoundUp(s5[p]) <= a /\ a <= M!PgRoundUp(top)
      /\ \A u \in M!Vpns : s4[p].pte[u] # 0 <=> u * PageUnits < a
  BY <1>0, <1>1, <1>2 DEF M!Progress
<1>4. /\ s1' = s1 /\ s2' = s2 /\ s4' = s4 /\ s6' = s6
      /\ s5' = [s5 EXCEPT ![p] = top]
      /\ s11' = [s11 EXCEPT ![p] = [v \in M!Vpns |-> IF v \in more THEN 0 ELSE s11[p][v]]]
      /\ s3' = [s3 EXCEPT ![p] = "user"]
      /\ s7' = [s7 EXCEPT ![p] = M!Nil] /\ s8' = [s8 EXCEPT ![p] = 0]
      /\ s9' = [s9 EXCEPT ![p] = <<>>] /\ s10' = [s10 EXCEPT ![p] = 0]
  BY <1>0, <1>1 DEF M!Types
<1> HIDE DEF M!Grown, M!Idle
<1>5. \A u \in M!Vpns : s4[p].pte[u] # 0 <=> u * PageUnits < top
  <2> SUFFICES ASSUME NEW u \in M!Vpns
               PROVE  s4[p].pte[u] # 0 <=> u * PageUnits < top
    OBVIOUS
  <2>1. u * PageUnits \in Nat /\ M!PgRoundUp(top) \in Nat
    BY Below, Rounded
  <2>2. u * PageUnits < top <=> u * PageUnits < M!PgRoundUp(top)
    BY Below
  <2>3. u * PageUnits < a <=> u * PageUnits < top
    BY <1>3, <2>1, <2>2
  <2> QED
    BY <1>3, <2>3
<1>6. \A u \in M!Vpns : u \in more <=> s4[p].pte[u] # 0 /\ ~(u * PageUnits < s5[p])
  <2> SUFFICES ASSUME NEW u \in M!Vpns
               PROVE  u \in more <=> s4[p].pte[u] # 0 /\ ~(u * PageUnits < s5[p])
    OBVIOUS
  <2>1. u * PageUnits >= M!PgRoundUp(s5[p]) <=> ~(u * PageUnits < s5[p])
    BY <1>0, Below
  <2> QED
    BY <1>5, <2>1 DEF M!Mapped
<1> HIDE DEF more
<1>7. M!Types'
  <2>1. /\ M!Nil \in M!Spaces /\ 0 \in 0 .. M!KERNBASE /\ <<>> \in Seq(Nat)
        /\ 0 \in 0 .. MemorySlots
        /\ top \in 0 .. M!KERNBASE /\ 0 \in 0 .. M!Unmapped
    BY <1>3, NilSpace, MemSizes
  <2>2. /\ s11 \in [M!Slots -> [M!Vpns -> 0 .. M!Unmapped]] /\ s5 \in [M!Slots -> 0 .. M!KERNBASE]
    BY <1>0 DEF M!Types
  <2>3. s11' \in [M!Slots -> [M!Vpns -> 0 .. M!Unmapped]] /\ s5' \in [M!Slots -> 0 .. M!KERNBASE]
    <3>1. [v \in M!Vpns |-> IF v \in more THEN 0 ELSE s11[p][v]] \in [M!Vpns -> 0 .. M!Unmapped]
      BY <2>1, <2>2
    <3> QED
      BY <1>4, <2>1, <2>2, <3>1
  <2> QED
    BY <1>0, <1>4, <2>1, <2>3 DEF M!Types
<1>8. \A q \in M!Slots \ {p} : Same(q)
  BY <1>0, <1>4 DEF Same, M!Types
<1>9. /\ s3'[p] = "user" /\ s7'[p] = M!Nil /\ s8'[p] = 0 /\ s9'[p] = <<>>
      /\ s10'[p] = 0 /\ s5'[p] = top
      /\ \A v \in M!Vpns : s11'[p][v] = IF v \in more THEN 0 ELSE s11[p][v]
  BY <1>0, <1>4 DEF M!Types
<1>10. M!Mine(p)' = M!Mine(p) /\ M!Sorted(p)'
  BY <1>0, <1>4, <1>9 DEF M!Mine, M!Stack, M!Sorted
<1>11. Own(p)'
  <2>1. M!Shape(p)'
    BY <1>0, <1>4, <1>9 DEF M!Shape
  <2>2. M!Progress(p)'
    BY <1>0, <1>4, <1>5, <1>9, NilSpace DEF M!Progress
  <2>3. M!Contents(p)'
    <3> SUFFICES ASSUME NEW u \in M!Vpns
                 PROVE  s11'[p][u] = M!Found(p, u)'
      BY <1>9 DEF M!Contents
    <3>1. IF u * PageUnits < s5[p] THEN s11[p][u] = M!Found(p, u)
          ELSE /\ s11[p][u] = M!Unmapped /\ u \notin s4[p].guard
               /\ s4[p].pte[u] # 0 => s2[s4[p].pte[u]] = 0
      BY <1>0 DEF M!Contents
    <3> QED
      BY <1>4, <1>6, <1>9, <3>1 DEF M!Found
  <2> QED
    BY <2>1, <2>2, <2>3 DEF Own
<1>12. /\ \A k \in M!Pages : k \notin s1 \cup M!Mine(p) => s2'[k] = s2[k]
       /\ s10'[p] \in {0, s10[p]} /\ s3[p] # "EMBRYO"
       /\ s1' \cup M!Mine(p)' = s1 \cup M!Mine(p) /\ M!Mine(p)' \cap s1' = {}
  BY <1>0, <1>4, <1>9, <1>10
<1> QED
  BY <1>7, <1>8, <1>10, <1>11, <1>12, StepOfOne

-----------------------------------------------------------------------------
(* Memory: the invariant, and what follows *)

LEMMA MemoryStarts == M!Init => M!IndInv
<1> SUFFICES ASSUME M!Init PROVE M!IndInv
  OBVIOUS
<1> DEFINE w == [M!Nil EXCEPT !.dir = 1, !.ktab = 2, !.tab[0] = 3, !.pte[0] = 4]
<1>0. /\ 1 \in M!Slots /\ 0 \notin M!Slots /\ 0 \in M!Vpns /\ 0 \in M!Tables
      /\ \A k \in 1 .. 5 : k \in M!Pages /\ k \in 0 .. MemoryPages
      /\ 6 .. MemoryPages \in SUBSET M!Pages /\ M!Pages = 6 .. MemoryPages \cup {1, 2, 3, 4, 5}
      /\ {1, 2, 3, 4, 5} \cap (6 .. MemoryPages) = {}
  <2>1. 0 \in M!Vpns
    BY MemSizes DEF M!Vpns
  <2>2. 0 \div TableLength = 0
    <3>1. 0 = TableLength * 0 + 0 /\ 0 \in 0 .. TableLength - 1 /\ TableLength \in Nat \ {0}
      BY MemSizes
    <3> QED
      BY <3>1, DivIs
  <2>3. 0 \in M!Tables
    BY <2>1, <2>2, TableOf
  <2>4. /\ 1 \in M!Slots /\ 0 \notin M!Slots
        /\ \A k \in 1 .. 5 : k \in M!Pages /\ k \in 0 .. MemoryPages
    BY MemSizes DEF M!Slots, M!Pages
  <2>5. /\ 6 .. MemoryPages \in SUBSET M!Pages /\ M!Pages = 6 .. MemoryPages \cup {1, 2, 3, 4, 5}
        /\ {1, 2, 3, 4, 5} \cap (6 .. MemoryPages) = {}
    BY MemSizes DEF M!Pages
  <2> QED
    BY <2>1, <2>3, <2>4, <2>5
<1> USE DEF M!Init
<1>1. /\ w \in M!Spaces /\ w.dir = 1 /\ w.ktab = 2 /\ w.guard = {}
      /\ w.tab[0] = 3 /\ \A t \in M!Tables : t # 0 => w.tab[t] = 0
      /\ w.pte[0] = 4 /\ \A v \in M!Vpns : v # 0 => w.pte[v] = 0
  <2>1. /\ M!Nil \in M!Spaces /\ M!Nil.guard = {} /\ \A v \in M!Vpns : M!Nil.pte[v] = 0
        /\ \A t \in M!Tables : M!Nil.tab[t] = 0
    BY NilSpace DEF M!Nil
  <2>2. 1 \in 0 .. MemoryPages /\ 2 \in 0 .. MemoryPages /\ 3 \in 0 .. MemoryPages
        /\ 4 \in 0 .. MemoryPages
    BY <1>0
  <2> HIDE DEF M!Init
  <2> QED
    BY <1>0, <2>1, <2>2 DEF M!Spaces
<1>2. M!Owned(w) = {1, 2, 3, 4} /\ M!OnceIn(w)
  <2> HIDE DEF w, M!Init
  <2>1. M!Owned(w) = {1, 2, 3, 4}
    BY <1>0, <1>1 DEF M!Owned
  <2>2. M!OnceIn(w)
    BY <1>0, <1>1 DEF M!OnceIn
  <2> QED
    BY <2>1, <2>2
<1>3. \A p \in M!Slots : s4[p] = IF p # 1 THEN M!Nil ELSE w
  OBVIOUS
<1> HIDE DEF w
<1>4. M!Types
  <2>1. /\ M!Nil \in M!Spaces /\ 0 \in 0 .. M!KERNBASE /\ <<>> \in Seq(Nat)
        /\ 0 \in 0 .. MemorySlots
        /\ M!Prog \in 0 .. M!Guard /\ M!Junk \in 0 .. M!Guard /\ M!Prog \in 0 .. M!Unmapped
        /\ M!Unmapped \in 0 .. M!Unmapped /\ 0 \in 0 .. MemoryPages /\ 5 \in 0 .. MemoryPages
    BY <1>0, NilSpace, MemSizes
  <2>2. PageUnits \in 0 .. M!KERNBASE
    <3>1. 1 * PageUnits <= UserPages * PageUnits
      <4> HIDE DEF M!Init
      <4>1. 1 \in Nat /\ 1 <= UserPages /\ UserPages \in Nat
        BY MemSizes
      <4> QED
        BY <4>1, Multiples
    <3>2. 1 * PageUnits = PageUnits /\ M!KERNBASE = UserPages * PageUnits /\ M!KERNBASE \in Nat
          /\ PageUnits \in Nat
      BY MemSizes
    <3> HIDE DEF M!Init
    <3> QED
      BY <3>1, <3>2
  <2>3. s4 \in [M!Slots -> M!Spaces]
    <3>1. s4 = [p \in M!Slots |-> IF p # 1 THEN M!Nil ELSE w]
      BY DEF w
    <3> HIDE DEF M!Init
    <3> QED
      BY <1>1, <2>1, <3>1
  <2>4. s1 \in SUBSET M!Pages /\ s2 \in [M!Pages -> 0 .. M!Guard]
    BY <1>0, <2>1
  <2> QED
    BY <2>1, <2>2, <2>3, <2>4 DEF M!Types
<1>5. \A p \in M!Slots : /\ s7[p] = M!Nil /\ s8[p] = 0 /\ s9[p] = <<>> /\ s10[p] = 0
                         /\ p = 1 => /\ s3[p] = "user" /\ s6[p] = 5 /\ s5[p] = PageUnits
                                     /\ s4[p] = w
                         /\ p # 1 => /\ s3[p] = "UNUSED" /\ s6[p] = 0 /\ s5[p] = 0
                                     /\ s4[p] = M!Nil
  BY <1>3
<1>6. s2[4] = M!Prog /\ s1 = 6 .. MemoryPages
      /\ \A p \in M!Slots : \A v \in M!Vpns :
           s11[p][v] = IF p = 1 /\ v = 0 THEN M!Prog ELSE M!Unmapped
  BY <1>0
<1> HIDE DEF M!Init
<1>7. \A p \in M!Slots : M!Mine(p) = IF p = 1 THEN {1, 2, 3, 4, 5} ELSE {}
  BY <1>2, <1>5, NilSpace DEF M!Mine, M!Stack
<1>8. \A p \in M!Slots : M!Sorted(p)
  BY <1>2, <1>5, NilSpace DEF M!Sorted, M!Stack
<1>9. M!PagesOwnedOnce
  <2>1. s1 \cup UNION {M!Mine(p) : p \in M!Slots} = M!Pages
    <3>1. UNION {M!Mine(p) : p \in M!Slots} = {1, 2, 3, 4, 5}
      BY <1>0, <1>7
    <3> QED
      BY <1>0, <1>6, <3>1
  <2>2. \A p \in M!Slots : /\ M!Mine(p) \cap s1 = {}
                           /\ \A q \in M!Slots \ {p} : M!Mine(p) \cap M!Mine(q) = {}
    BY <1>0, <1>6, <1>7
  <2> QED
    BY <1>8, <2>1, <2>2 DEF M!PagesOwnedOnce
<1>10. \A v \in M!Vpns : w.pte[v] # 0 <=> v * PageUnits < PageUnits
  <2> SUFFICES ASSUME NEW v \in M!Vpns
               PROVE  w.pte[v] # 0 <=> v * PageUnits < PageUnits
    OBVIOUS
  <2>1. v \in Nat /\ 1 * PageUnits = PageUnits
    BY TableOf, MemSizes
  <2>2. v * PageUnits < 1 * PageUnits <=> v < 1
    BY <2>1, Multiples
  <2>3. v < 1 <=> v = 0
    BY <2>1
  <2> QED
    BY <1>1, <2>1, <2>2, <2>3
<1>11. ASSUME NEW p \in M!Slots
       PROVE  M!Shape(p) /\ M!Progress(p) /\ M!Contents(p)
  <2>1. M!Shape(p)
    BY <1>0, <1>5 DEF M!Shape
  <2>2. M!Progress(p)
    BY <1>1, <1>5, <1>10, NilSpace DEF M!Progress
  <2>3. M!Contents(p)
    BY <1>1, <1>5, <1>6 DEF M!Contents, M!Found
  <2> QED
    BY <2>1, <2>2, <2>3
<1> QED
  BY <1>4, <1>9, <1>11 DEF M!IndInv

\* What does not move keeps the invariant.
LEMMA MemoryStutters == M!IndInv /\ UNCHANGED M!vars => M!IndInv'
<1> SUFFICES ASSUME M!IndInv, UNCHANGED M!vars PROVE M!IndInv'
  OBVIOUS
<1>1. UNCHANGED <<s1, s2, s3, s4, s5, s6, s7, s8, s9, s10, s11>>
  BY DEF M!vars, M!procs, M!calls
<1>2. M!Types' = M!Types
  BY <1>1 DEF M!Types
<1>3. M!PagesOwnedOnce' = M!PagesOwnedOnce
  BY <1>1 DEF M!PagesOwnedOnce, M!Sorted, M!Mine, M!Stack
<1>4. \A p \in M!Slots : M!Shape(p)' = M!Shape(p) /\ M!Progress(p)' = M!Progress(p)
  BY <1>1 DEF M!Shape, M!Progress
<1>5. \A p \in M!Slots : M!Contents(p)' = M!Contents(p)
  <2>1. \A p \in M!Slots, v \in M!Vpns : M!Found(p, v)' = M!Found(p, v)
    BY <1>1 DEF M!Found
  <2> QED
    BY <1>1, <2>1 DEF M!Contents
<1> QED
  BY <1>2, <1>3, <1>4, <1>5 DEF M!IndInv

LEMMA MemoryKeeps == M!IndInv /\ [M!Next]_(M!vars) => M!IndInv'
<1> SUFFICES ASSUME M!IndInv, [M!Next]_(M!vars) PROVE M!IndInv'
  OBVIOUS
<1>1. CASE UNCHANGED M!vars \/ M!Stopped
  BY <1>1, MemoryStutters DEF M!Stopped
<1>2. ASSUME NEW p \in M!Slots, NEW c \in M!Slots, M!Fork(p, c) PROVE M!IndInv'
  BY <1>2, ForkKeeps
<1>3. ASSUME NEW p \in M!Slots, NEW e \in SegmentEnds, M!Exec(p, e) PROVE M!IndInv'
  BY <1>3, ExecKeeps
<1>4. ASSUME NEW p \in M!Slots, NEW n \in SbrkSizes, M!Grow(p, n) \/ M!Shrink(p, n) PROVE M!IndInv'
  BY <1>4, GrowKeeps, ShrinkKeeps
<1>5. ASSUME NEW p \in M!Slots, NEW v \in M!Vpns, M!Store(p, v) PROVE M!IndInv'
  BY <1>5, StoreKeeps
<1>6. ASSUME NEW p \in M!Slots, M!SetupKvm(p) PROVE M!IndInv'
  BY <1>6, SetupKeeps
<1>7. ASSUME NEW p \in M!Slots, M!CopyPage(p) PROVE M!IndInv'
  BY <1>7, CopyKeeps
<1>8. ASSUME NEW p \in M!Slots, M!Forked(p) PROVE M!IndInv'
  BY <1>8, ForkedKeeps
<1>9. ASSUME NEW p \in M!Slots, M!ExecPage(p) PROVE M!IndInv'
  BY <1>9, ExecPageKeeps
<1>10. ASSUME NEW p \in M!Slots, M!ExecLoad(p) PROVE M!IndInv'
  BY <1>10, ExecLoadKeeps
<1>11. ASSUME NEW p \in M!Slots, M!ExecStack(p) PROVE M!IndInv'
  BY <1>11, ExecStackKeeps
<1>12. ASSUME NEW p \in M!Slots, M!ExecCommit(p) PROVE M!IndInv'
  BY <1>12, ExecCommitKeeps
<1>13. ASSUME NEW p \in M!Slots, M!GrowPage(p) PROVE M!IndInv'
  BY <1>13, GrowPageKeeps
<1>14. ASSUME NEW p \in M!Slots, M!Grown(p) PROVE M!IndInv'
  BY <1>14, GrownKeeps
<1>15. ASSUME NEW p \in M!Slots, M!Exit(p) PROVE M!IndInv'
  BY <1>15, ExitKeeps
<1>16. ASSUME NEW p \in M!Slots, M!Reap(p) PROVE M!IndInv'
  BY <1>16, ReapKeeps
<1> QED
  BY <1>1, <1>2, <1>3, <1>4, <1>5, <1>6, <1>7, <1>8, <1>9, <1>10, <1>11, <1>12, <1>13,
     <1>14, <1>15, <1>16 DEF M!Next

LEMMA MemoryFollows == M!IndInv => M!TypeOK /\ M!PagesOwnedOnce /\ M!MemoryPrivate /\ M!MappedToSize
<1> SUFFICES ASSUME M!IndInv PROVE M!TypeOK /\ M!PagesOwnedOnce /\ M!MemoryPrivate /\ M!MappedToSize
  OBVIOUS
<1>1. M!TypeOK
  <2>1. \A p \in M!Slots : M!Owned(s4[p]) \cup M!Owned(s7[p]) \subseteq M!Pages
    BY OwnedPages DEF M!IndInv, M!Types
  <2> QED
    BY <2>1 DEF M!IndInv, M!Types, M!TypeOK
<1>2. M!MemoryPrivate
  BY DEF M!IndInv, M!Contents, M!Found, M!MemoryPrivate
<1>3. M!MappedToSize
  BY DEF M!IndInv, M!Progress, M!MappedToSize
<1> QED
  BY <1>1, <1>2, <1>3 DEF M!IndInv

\* The invariant of memory when it is what runs.
MemoryInv == part = "memory" => M!IndInv

\* Every physical page is in one place, every process finds in its memory what belongs there,
\* and exactly the pages below sz are mapped: for any number of processes and of pages, any
\* sizes of pages and page tables, any programs, and any calls of sbrk(), wherever fork(),
\* exec() and sbrk() run out of memory.
THEOREM MemoryIsSound == Spec => []MemorySound
<1>1. Init => MemoryInv
  <2>1. part = "memory" /\ M!Init => M!IndInv
    BY MemoryStarts
  <2> QED
    BY <2>1 DEF Init, MemoryInv
<1>2. MemoryInv /\ [Next]_vars => MemoryInv'
  <2> SUFFICES ASSUME MemoryInv, [Next]_vars
               PROVE  MemoryInv'
    OBVIOUS
  <2>1. part' = part
    BY PartStays
  <2>2. ASSUME part = "memory" PROVE M!IndInv'
    <3>1. M!IndInv /\ [M!Next]_(M!vars)
      BY <2>2, PartStays DEF MemoryInv
    <3> QED
      BY <3>1, MemoryKeeps
  <2> QED
    BY <2>1, <2>2 DEF MemoryInv
<1>3. MemoryInv => MemorySound
  BY MemoryFollows DEF MemoryInv, MemorySound
<1> QED
  BY <1>1, <1>2, <1>3, PTL DEF Spec

-----------------------------------------------------------------------------
(* Console: the ring *)

\* The numbers of the ring.
LEMMA RingSizes ==
  InputBuf \in Nat \ {0} /\ Wrap \in Nat /\ Wrap > InputBuf /\ Wrap % InputBuf = 0
BY PartsAssumption

\* The remainder of an index that is at most one turn away.
LEMMA Wraps ==
  /\ \A x \in Int : x \in 0 .. 2 * Wrap - 1 => x % Wrap = IF x < Wrap THEN x ELSE x - Wrap
  /\ \A x \in Int : x \in -Wrap .. -1 => x % Wrap = x + Wrap
BY RingSizes

\* Where an index has wrapped around makes no difference to the slot of the ring.
LEMMA WrapSlot ==
  ASSUME NEW x \in 0 .. 2 * Wrap - 1, NEW j \in Int
  PROVE  ((x % Wrap) + j) % InputBuf = (x + j) % InputBuf
<1>1. PICK q \in Int : Wrap = InputBuf * q
  <2>1. PICK q \in Int, t \in 0 .. InputBuf - 1 : Wrap = InputBuf * q + t /\ Wrap % InputBuf = t
    BY RingSizes, DivMod
  <2> QED
    BY <2>1, RingSizes
<1>2. CASE x < Wrap
  BY <1>2, Wraps, RingSizes
<1>3. CASE x >= Wrap
  <2>1. x % Wrap = x - Wrap
    BY <1>3, Wraps, RingSizes
  <2>2. PICK m \in Int : m = -q
    OBVIOUS
  <2>3. PICK y \in Int : y = x + j
    OBVIOUS
  <2>4. InputBuf * m = -Wrap
    BY <1>1, <2>2, RingSizes
  <2>5. (x % Wrap) + j = y + InputBuf * m
    BY <2>1, <2>3, <2>4, RingSizes
  <2>6. (y + InputBuf * m) % InputBuf = y % InputBuf
    BY RingSizes, ModShift
  <2> QED
    BY <2>3, <2>5, <2>6
<1> QED
  BY <1>2, <1>3, RingSizes

\* The indices differ by what lies between them.
LEMMA Gaps ==
  ASSUME C!ConsoleTypes, C!Distances
  PROVE  /\ s3 \in 0 .. Wrap - 1 /\ s4 \in 0 .. Wrap - 1
         /\ C!Minus(s3, s2) = Len(s10) /\ C!Minus(s4, s3) = Len(s9)
         /\ C!Minus(s4, s2) = Len(s10) + Len(s9)
<1>1. PICK c \in Nat, l \in Nat : c = Len(s10) /\ l = Len(s9)
  BY DEF C!ConsoleTypes
<1>2. /\ s2 \in 0 .. Wrap - 1 /\ s3 = (s2 + c) % Wrap /\ s4 = (s2 + c + l) % Wrap
      /\ c + l <= InputBuf
  BY <1>1 DEF C!Distances
<1>3. /\ s3 = IF s2 + c < Wrap THEN s2 + c ELSE s2 + c - Wrap
      /\ s4 = IF s2 + c + l < Wrap THEN s2 + c + l ELSE s2 + c + l - Wrap
  BY <1>2, Wraps, RingSizes
<1>4. s3 \in 0 .. Wrap - 1 /\ s4 \in 0 .. Wrap - 1
  BY <1>2, <1>3, RingSizes
<1>5. (s3 - s2) % Wrap = c
  BY <1>2, <1>3, Wraps, RingSizes
<1>6. (s4 - s3) % Wrap = l
  BY <1>2, <1>3, Wraps, RingSizes
<1>7. (s4 - s2) % Wrap = c + l
  BY <1>2, <1>3, Wraps, RingSizes
<1> QED
  BY <1>1, <1>4, <1>5, <1>6, <1>7 DEF C!Minus

\* What the ring holds.
LEMMA RingHolds ==
  ASSUME C!ConsoleTypes, C!Distances, C!RingRight
  PROVE  /\ \A k \in 0 .. Len(s10) : \A i \in 1 .. k : C!Text(s2, k)[i] = s10[i]
         /\ C!Text(s2, Len(s10)) = s10 /\ C!Text(s3, Len(s9)) = s9
<1>1. PICK c \in Nat, l \in Nat : c = Len(s10) /\ l = Len(s9)
  BY DEF C!ConsoleTypes
<1>2. /\ s2 \in 0 .. Wrap - 1 /\ s3 = (s2 + c) % Wrap /\ c + l <= InputBuf
  BY <1>1 DEF C!Distances
<1>3. ASSUME NEW k \in 0 .. c, NEW i \in 1 .. k PROVE C!Text(s2, k)[i] = s10[i]
  <2>1. s10[i] = s1[C!Slot(s2 + i - 1)]
    BY <1>1 DEF C!RingRight
  <2> QED
    BY <2>1 DEF C!Text
<1>4. C!Text(s2, c) = s10
  <2>1. s10 = [i \in 1 .. c |-> s10[i]]
    BY <1>1 DEF C!ConsoleTypes
  <2>2. \A i \in 1 .. c : s10[i] = s1[C!Slot(s2 + i - 1)]
    BY <1>1 DEF C!RingRight
  <2> QED
    BY <2>1, <2>2 DEF C!Text
<1>5. C!Text(s3, l) = s9
  <2>1. ASSUME NEW i \in 1 .. l PROVE C!Slot(s3 + i - 1) = C!Slot(s2 + c + i - 1)
    <3>0. s2 + c \in 0 .. 2 * Wrap - 1 /\ i - 1 \in Int
      BY <1>2, RingSizes
    <3>1. (((s2 + c) % Wrap) + (i - 1)) % InputBuf = (s2 + c + (i - 1)) % InputBuf
      BY <3>0, WrapSlot
    <3>2. s3 \in Int /\ s3 + (i - 1) = s3 + i - 1 /\ s2 + c + (i - 1) = s2 + c + i - 1
      BY <1>2, Gaps
    <3> QED
      BY <1>2, <3>1, <3>2 DEF C!Slot
  <2>2. \A i \in 1 .. l : s9[i] = s1[C!Slot(s2 + c + i - 1)]
    BY <1>1 DEF C!RingRight
  <2>3. s9 = [i \in 1 .. l |-> s9[i]]
    BY <1>1 DEF C!ConsoleTypes
  <2> QED
    BY <2>1, <2>2, <2>3 DEF C!Text
<1> QED
  BY <1>1, <1>3, <1>4, <1>5

-----------------------------------------------------------------------------
(* The inductive invariant of the console *)

\* At the beginning nothing is typed and nobody reads.
LEMMA ConsoleStarts ==
  ASSUME C!Init
  PROVE  C!ConsoleInv
<1>1. C!ConsoleTypes
  <2>1. <<>> \in Seq({"a"}) /\ <<>> \in Seq(C!Chars) /\ <<"none">> \in Seq(C!Chars \cup {"none"})
    OBVIOUS
  <2> QED
    BY <2>1 DEF C!Init, C!ConsoleTypes, C!Chars
<1>2. C!Distances
  <2>1. /\ s2 = Wrap - 2 /\ s3 = s2 /\ s4 = s2 /\ s9 = <<>> /\ s10 = <<>>
        /\ Len(s9) = 0 /\ Len(s10) = 0
    BY DEF C!Init
  <2>2. s2 \in 0 .. Wrap - 1 /\ s2 % Wrap = s2
    BY <2>1, RingSizes, Wraps
  <2> QED
    BY <2>1, <2>2, RingSizes DEF C!Distances
<1>3. C!RingRight
  BY DEF C!Init, C!RingRight
<1>4. C!ReadersRight
  BY DEF C!Init, C!ReadersRight
<1> QED
  BY <1>1, <1>2, <1>3, <1>4 DEF C!ConsoleInv

\* read() of a reader that does nothing.
LEMMA ReadKeeps ==
  ASSUME C!ConsoleInv, NEW p \in ConsoleReaders, NEW len \in ReadLengths, C!Read(p, len)
  PROVE  C!ConsoleInv'
<1> USE DEF C!ConsoleInv
<1>0. /\ UNCHANGED <<s1, s2, s3, s4, s9, s10>> /\ s5 = s5 /\ len \in Nat \ {0}
      /\ s5' = [s5 EXCEPT ![p] = "read"] /\ s6' = [s6 EXCEPT ![p] = len]
      /\ s7' = [s7 EXCEPT ![p] = len] /\ s11' = [s11 EXCEPT ![p] = <<>>]
  BY PartsAssumption DEF C!Read, C!input
<1>1. C!ConsoleTypes'
  <2>1. <<>> \in Seq(C!Chars \cup {"none"})
    OBVIOUS
  <2> QED
    BY <1>0, <2>1 DEF C!ConsoleTypes
<1>2. C!Distances' /\ C!RingRight'
  BY <1>0 DEF C!Distances, C!RingRight, C!Slot
<1>3. C!ReadersRight'
  <2> SUFFICES ASSUME NEW q \in ConsoleReaders
               PROVE  /\ s5'[q] \in {"sleeping", "asleep"} => s2' = s3'
                      /\ s6'[q] <= s7'[q]
                      /\ s5'[q] # "idle" => s6'[q] >= 1 /\ (s6'[q] = s7'[q] => s11'[q] = <<>>)
    BY DEF C!ReadersRight
  <2>1. CASE q = p
    BY <1>0, <2>1 DEF C!ConsoleTypes
  <2>2. CASE q # p
    BY <1>0, <2>2 DEF C!ConsoleTypes, C!ReadersRight
  <2> QED
    BY <2>1, <2>2
<1> QED
  BY <1>1, <1>2, <1>3

\* Going to sleep, and kill().
LEMMA WaitKeeps ==
  ASSUME C!ConsoleInv, NEW p \in ConsoleReaders, C!Empty(p) \/ C!Sleep(p) \/ C!Kill(p)
  PROVE  C!ConsoleInv'
<1> USE DEF C!ConsoleInv
<1>0. /\ UNCHANGED <<s1, s2, s3, s4, s6, s7, s9, s10, s11>>
      /\ \E x \in {"idle", "read", "sleeping", "asleep"} :
           /\ s5' = [s5 EXCEPT ![p] = x] /\ (x \in {"sleeping", "asleep"} => s2 = s3)
           /\ (x # "idle" => s5[p] # "idle")
  <2>1. CASE C!Empty(p)
    BY <2>1 DEF C!Empty, C!input
  <2>2. CASE C!Sleep(p)
    BY <2>2 DEF C!Sleep, C!input, C!ReadersRight
  <2>3. CASE C!Kill(p)
    <3>1. s5' = [s5 EXCEPT ![p] = IF s5[p] = "asleep" THEN "read" ELSE s5[p]]
      BY <2>3 DEF C!Kill
    <3>2. s5[p] \in {"idle", "read", "sleeping", "asleep"}
      BY DEF C!ConsoleTypes
    <3> QED
      BY <2>3, <3>1, <3>2 DEF C!Kill, C!input, C!ReadersRight
  <2> QED
    BY <2>1, <2>2, <2>3
<1>1. PICK x \in {"idle", "read", "sleeping", "asleep"} :
        /\ s5' = [s5 EXCEPT ![p] = x] /\ (x \in {"sleeping", "asleep"} => s2 = s3)
        /\ (x # "idle" => s5[p] # "idle")
  BY <1>0
<1>2. C!ConsoleTypes'
  BY <1>0, <1>1 DEF C!ConsoleTypes
<1>3. C!Distances' /\ C!RingRight'
  BY <1>0 DEF C!Distances, C!RingRight, C!Slot
<1>4. C!ReadersRight'
  <2> SUFFICES ASSUME NEW q \in ConsoleReaders
               PROVE  /\ s5'[q] \in {"sleeping", "asleep"} => s2' = s3'
                      /\ s6'[q] <= s7'[q]
                      /\ s5'[q] # "idle" => s6'[q] >= 1 /\ (s6'[q] = s7'[q] => s11'[q] = <<>>)
    BY DEF C!ReadersRight
  <2>1. s5'[q] = IF q = p THEN x ELSE s5[q]
    BY <1>1 DEF C!ConsoleTypes
  <2> QED
    BY <1>0, <1>1, <2>1 DEF C!ReadersRight
<1> QED
  BY <1>2, <1>3, <1>4

\* ^U takes back the whole line: there is no end of a line in it.
LEMMA KillLineKeeps ==
  ASSUME C!ConsoleInv, C!KillLine
  PROVE  C!ConsoleInv'
<1> USE DEF C!ConsoleInv
<1>1. PICK c \in Nat, l \in Nat : c = Len(s10) /\ l = Len(s9)
  BY DEF C!ConsoleTypes
<1>2. C!Minus(s4, s3) = l /\ C!Text(s3, l) = s9 /\ s3 \in 0 .. Wrap - 1
  BY <1>1, Gaps, RingHolds
<1>3. {k \in 1 .. l : s9[k] = "nl"} \cup {0} = {0}
  BY <1>1 DEF C!ConsoleTypes
<1>4. (CHOOSE k \in {0} : \A j \in {0} : j <= k) = 0
  OBVIOUS
<1>5. s4' = (s3 + 0) % Wrap
  BY <1>2, <1>3, <1>4 DEF C!KillLine
<1>6. s4' = s3
  BY <1>2, <1>5, Wraps, RingSizes
<1>7. UNCHANGED <<s1, s2, s3, s5, s6, s7, s10, s11>> /\ s9' = <<>>
  BY DEF C!KillLine, C!reader
<1>8. C!ConsoleTypes'
  <2>1. <<>> \in Seq({"a"})
    OBVIOUS
  <2> QED
    BY <1>7, <2>1 DEF C!ConsoleTypes
<1>9. C!Distances'
  <2>1. Len(s9') = 0 /\ Len(s10') = c
    BY <1>1, <1>7
  <2>2. s2 \in 0 .. Wrap - 1 /\ s3 = (s2 + c) % Wrap /\ c + l <= InputBuf
    BY <1>1 DEF C!Distances
  <2>3. s2 + c + 0 = s2 + c /\ c + 0 <= InputBuf
    BY <2>2, RingSizes
  <2>4. s3 = (s2 + c + 0) % Wrap
    BY <2>2, <2>3
  <2> QED
    BY <1>6, <1>7, <2>1, <2>2, <2>3, <2>4 DEF C!Distances
<1>10. C!RingRight'
  BY <1>7 DEF C!RingRight, C!Slot
<1>11. C!ReadersRight'
  BY <1>7 DEF C!ReadersRight
<1> QED
  BY <1>8, <1>9, <1>10, <1>11

\* ^H takes back the last character of the line, if there is one.
LEMMA BackspaceKeeps ==
  ASSUME C!ConsoleInv, C!Backspace
  PROVE  C!ConsoleInv'
<1> USE DEF C!ConsoleInv
<1>0. UNCHANGED <<s1, s2, s3, s5, s6, s7, s10, s11>>
  BY DEF C!Backspace, C!reader
<1>1. PICK c \in Nat, l \in Nat : c = Len(s10) /\ l = Len(s9)
  BY DEF C!ConsoleTypes
<1>2. /\ s2 \in 0 .. Wrap - 1 /\ s3 = (s2 + c) % Wrap /\ s4 = (s2 + c + l) % Wrap
      /\ c + l <= InputBuf
  BY <1>1 DEF C!Distances
<1>3. CASE s4 = s3
  <2>1. UNCHANGED <<s4, s9>>
    BY <1>3 DEF C!Backspace, C!Erasable
  <2> QED
    BY <1>0, <2>1 DEF C!ConsoleTypes, C!Distances, C!RingRight, C!Slot, C!ReadersRight
<1>4. CASE s4 # s3
  <2>1. l >= 1
    BY <1>2, <1>4
  <2>2. s4' = (s4 - 1) % Wrap /\ s9' = SubSeq(s9, 1, l - 1)
    BY <1>1, <1>4 DEF C!Backspace, C!Erasable, C!Minus, C!Front
  <2>3. /\ s9' \in Seq({"a"}) /\ Len(s9') = l - 1
        /\ \A k \in 1 .. l - 1 : s9'[k] = s9[k]
    <3>1. \A k \in 1 .. l - 1 : s9[k] \in {"a"}
      BY <1>1 DEF C!ConsoleTypes
    <3>2. 1 \in Int /\ l - 1 \in Int
      OBVIOUS
    <3>3. /\ SubSeq(s9, 1, l - 1) \in Seq({"a"})
          /\ Len(SubSeq(s9, 1, l - 1)) = IF 1 <= l - 1 THEN (l - 1) - 1 + 1 ELSE 0
          /\ \A k \in 1 .. (l - 1) - 1 + 1 : SubSeq(s9, 1, l - 1)[k] = s9[1 + k - 1]
      BY <3>1, <3>2, SubSeqProperties
    <3> QED
      BY <2>1, <2>2, <3>3
  <2>4. s4' = (s2 + c + (l - 1)) % Wrap
    <3>1. PICK x \in Int : x = s2 + c + l
      BY <1>2
    <3>2. x \in 1 .. 2 * Wrap - 1 /\ s2 + c + (l - 1) = x - 1 /\ s4 = x % Wrap
      BY <1>2, <2>1, <3>1, RingSizes
    <3>3. PICK y \in Int : y = x - 1
      OBVIOUS
    <3>4. y % Wrap = IF y < Wrap THEN y ELSE y - Wrap
      BY <3>2, <3>3, Wraps, RingSizes
    <3>5. CASE x = Wrap
      <4>1. s4 = 0 /\ -1 \in -Wrap .. -1
        BY <3>2, <3>5, Wraps, RingSizes
      <4>2. (-1) % Wrap = Wrap - 1
        BY <4>1, Wraps, RingSizes
      <4> QED
        BY <2>2, <3>2, <3>3, <3>4, <3>5, <4>1, <4>2, RingSizes
    <3>6. CASE x # Wrap
      <4>1. s4 = IF x < Wrap THEN x ELSE x - Wrap
        BY <3>2, Wraps, RingSizes
      <4>2. PICK z \in Int : z = s4 - 1
        BY <4>1, RingSizes
      <4>3. z \in 0 .. Wrap - 1 /\ z = IF x < Wrap THEN y ELSE y - Wrap
        BY <3>2, <3>3, <3>6, <4>1, <4>2, RingSizes
      <4>4. z % Wrap = z
        BY <4>3, Wraps, RingSizes
      <4>5. s4' = z
        BY <2>2, <4>2, <4>4
      <4>6. y % Wrap = z
        BY <3>2, <3>3, <3>4, <3>6, <4>3, RingSizes
      <4> QED
        BY <3>2, <3>3, <4>5, <4>6
    <3> QED
      BY <3>5, <3>6
  <2>5. C!ConsoleTypes'
    BY <1>0, <2>3 DEF C!ConsoleTypes
  <2>6. C!Distances'
    <3>1. Len(s9') = l - 1 /\ Len(s10') = c /\ s2' = s2 /\ s3' = s3
      BY <1>0, <1>1, <2>3
    <3>2. c + (l - 1) <= InputBuf /\ c + (l - 1) # InputBuf
      BY <1>2, <2>1, RingSizes
    <3> QED
      BY <1>2, <2>4, <3>1, <3>2 DEF C!Distances
  <2>7. C!RingRight'
    <3>1. \A k \in 1 .. c : s10[k] = s1[C!Slot(s2 + k - 1)]
      BY <1>1 DEF C!RingRight
    <3>2. \A k \in 1 .. l : s9[k] = s1[C!Slot(s2 + c + k - 1)]
      BY <1>1 DEF C!RingRight
    <3>3. \A k \in 1 .. l - 1 : s9'[k] = s1[C!Slot(s2 + c + k - 1)]
      BY <2>3, <3>2
    <3> QED
      BY <1>0, <1>1, <2>3, <3>1, <3>3 DEF C!RingRight, C!Slot
  <2>8. C!ReadersRight'
    BY <1>0 DEF C!ReadersRight
  <2> QED
    BY <2>5, <2>6, <2>7, <2>8
<1> QED
  BY <1>3, <1>4

\* An index after one that may have wrapped around.
LEMMA WrapIndex ==
  ASSUME NEW x \in 0 .. 2 * Wrap - 1, NEW j \in Nat, x + j <= 2 * Wrap - 1
  PROVE  ((x % Wrap) + j) % Wrap = (x + j) % Wrap
<1>1. x % Wrap = IF x < Wrap THEN x ELSE x - Wrap
  BY Wraps, RingSizes
<1>2. PICK y \in Int : y = x + j
  OBVIOUS
<1>3. y % Wrap = IF y < Wrap THEN y ELSE y - Wrap
  BY <1>2, Wraps, RingSizes
<1>4. CASE x < Wrap
  BY <1>1, <1>4
<1>5. CASE x >= Wrap
  <2>1. PICK z \in Int : z = x - Wrap + j
    BY RingSizes
  <2>2. z % Wrap = z
    BY <1>5, <2>1, Wraps, RingSizes
  <2>3. y % Wrap = z
    BY <1>2, <1>3, <1>5, <2>1, RingSizes
  <2> QED
    BY <1>1, <1>2, <1>5, <2>1, <2>2, <2>3, RingSizes
<1> QED
  BY <1>4, <1>5, RingSizes

\* Two numbers less than WORD apart have the same remainder only if they are the same.
LEMMA SameIndex ==
  ASSUME NEW x \in 0 .. 2 * Wrap - 1, NEW y \in 0 .. 2 * Wrap - 1, x <= y, y < x + Wrap,
         x % Wrap = y % Wrap
  PROVE  x = y
<1>1. /\ x % Wrap = IF x < Wrap THEN x ELSE x - Wrap
      /\ y % Wrap = IF y < Wrap THEN y ELSE y - Wrap
  BY Wraps, RingSizes
<1> QED
  BY <1>1, RingSizes

\* What a character that is typed does to the ring: it goes behind the others, and makes
\* itself and what comes before it readable if it ends the line or fills the buffer.
LEMMA KeyFacts ==
  ASSUME C!ConsoleInv, NEW ch \in C!Chars, C!Key(ch), C!Room
  PROVE  /\ Len(s10) + Len(s9) + 1 <= InputBuf
         /\ s1' \in [0 .. InputBuf - 1 -> C!Chars]
         /\ \A i \in 0 .. Len(s10) + Len(s9) - 1 : s1'[C!Slot(s2 + i)] = s1[C!Slot(s2 + i)]
         /\ s1'[C!Slot(s2 + (Len(s10) + Len(s9)))] = ch
         /\ s4' = (s2 + (Len(s10) + Len(s9) + 1)) % Wrap
         /\ \/ /\ ch = "a" /\ Len(s10) + Len(s9) + 1 # InputBuf
               /\ UNCHANGED <<s3, s5, s10>> /\ s9' = Append(s9, ch)
            \/ /\ s3' = s4' /\ s10' = s10 \o Append(s9, ch) /\ s9' = <<>>
               /\ s5' = [q \in ConsoleReaders |-> IF s5[q] = "asleep" THEN "read" ELSE s5[q]]
<1> USE DEF C!ConsoleInv
<1>1. PICK c \in Nat, l \in Nat : c = Len(s10) /\ l = Len(s9)
  BY DEF C!ConsoleTypes
<1>2. /\ s2 \in 0 .. Wrap - 1 /\ s4 = (s2 + c + l) % Wrap /\ c + l <= InputBuf
  BY <1>1 DEF C!Distances
<1>3. c + l < InputBuf
  BY <1>1, Gaps DEF C!Room
<1>4. PICK x \in Int : x = s2 + c + l
  BY <1>2
<1>5. x \in 0 .. 2 * Wrap - 2 /\ s4 = x % Wrap /\ x = s2 + (c + l) /\ x + 1 = s2 + (c + l + 1)
  BY <1>2, <1>3, <1>4, RingSizes
<1>6. C!Slot(s4) = C!Slot(x) /\ C!Slot(x) \in 0 .. InputBuf - 1
  <2>1. ((x % Wrap) + 0) % InputBuf = (x + 0) % InputBuf
    BY <1>5, WrapSlot, RingSizes
  <2>2. s4 \in Int
    BY Gaps
  <2> QED
    BY <1>4, <1>5, <2>1, <2>2, RingSizes DEF C!Slot
<1>7. s1' = [s1 EXCEPT ![C!Slot(x)] = ch]
  BY <1>6 DEF C!Key
<1>8. s1 \in [0 .. InputBuf - 1 -> C!Chars]
  BY DEF C!ConsoleTypes
<1>9. ASSUME NEW i \in 0 .. c + l - 1
      PROVE  s1'[C!Slot(s2 + i)] = s1[C!Slot(s2 + i)]
  <2>1. PICK y \in Int : y = s2 + i
    BY <1>2
  <2>2. y < x /\ x < y + InputBuf
    BY <1>2, <1>3, <1>4, <2>1, RingSizes
  <2>3. y % InputBuf # x % InputBuf
    BY <2>2, ModDistinct, RingSizes
  <2>4. C!Slot(y) # C!Slot(x)
    BY <2>3 DEF C!Slot
  <2> QED
    BY <1>7, <1>8, <2>1, <2>4
<1>10. s1'[C!Slot(x)] = ch
  BY <1>6, <1>7, <1>8
<1>11. s4' = (s4 + 1) % Wrap
  BY DEF C!Key
<1>12. s4' = (x + 1) % Wrap
  <2>1. x \in 0 .. 2 * Wrap - 1 /\ x + 1 <= 2 * Wrap - 1 /\ 1 \in Nat
    BY <1>5, RingSizes
  <2>2. ((x % Wrap) + 1) % Wrap = (x + 1) % Wrap
    BY <2>1, WrapIndex
  <2> QED
    BY <1>5, <1>11, <2>2
<1>13. (x + 1) % Wrap = (s2 + InputBuf) % Wrap <=> c + l + 1 = InputBuf
  <2>1. PICK y \in Int, z \in Int : y = x + 1 /\ z = s2 + InputBuf
    BY <1>2, RingSizes
  <2>2. y \in 0 .. 2 * Wrap - 1 /\ z \in 0 .. 2 * Wrap - 1 /\ y <= z /\ z < y + Wrap
    BY <1>2, <1>3, <1>5, <2>1, RingSizes
  <2>3. y = z <=> c + l + 1 = InputBuf
    BY <1>2, <1>5, <2>1, RingSizes
  <2>4. y % Wrap = z % Wrap => y = z
    BY <2>2, SameIndex
  <2> QED
    BY <2>1, <2>3, <2>4
<1>14. /\ Len(s10) + Len(s9) + 1 <= InputBuf
       /\ \A i \in 0 .. Len(s10) + Len(s9) - 1 : s1'[C!Slot(s2 + i)] = s1[C!Slot(s2 + i)]
  BY <1>1, <1>3, <1>9, RingSizes
<1>15. s1' \in [0 .. InputBuf - 1 -> C!Chars]
  BY <1>7, <1>8
<1>16. s1'[C!Slot(s2 + (Len(s10) + Len(s9)))] = ch
  BY <1>1, <1>5, <1>10
<1>17. s4' = (s2 + (Len(s10) + Len(s9) + 1)) % Wrap
  BY <1>1, <1>5, <1>12
<1>18. CASE C!Commits(ch, (s4 + 1) % Wrap)
  <2>1. /\ s3' = s4' /\ s10' = s10 \o Append(s9, ch) /\ s9' = <<>>
        /\ s5' = [q \in ConsoleReaders |-> IF s5[q] = "asleep" THEN "read" ELSE s5[q]]
    BY <1>18 DEF C!Key, C!WakeReaders
  <2> QED
    BY <1>14, <1>15, <1>16, <1>17, <2>1
<1>19. CASE ~C!Commits(ch, (s4 + 1) % Wrap)
  <2>1. UNCHANGED <<s3, s5, s10>> /\ s9' = Append(s9, ch)
    BY <1>19 DEF C!Key
  <2>2. ch = "a" /\ c + l + 1 # InputBuf
    BY <1>11, <1>12, <1>13, <1>19 DEF C!Commits, C!Chars
  <2> QED
    BY <1>1, <1>14, <1>15, <1>16, <1>17, <2>1, <2>2
<1> QED
  BY <1>18, <1>19

\* A character that is typed.
LEMMA KeyKeeps ==
  ASSUME C!ConsoleInv, NEW ch \in C!Chars, C!Key(ch)
  PROVE  C!ConsoleInv'
<1> USE DEF C!ConsoleInv
<1>0. UNCHANGED <<s2, s6, s7, s11>>
  BY DEF C!Key, C!input
<1>1. CASE ~C!Room
  <2>1. UNCHANGED <<s1, s2, s3, s4, s5, s9, s10>>
    BY <1>1 DEF C!Key, C!input
  <2> QED
    BY <1>0, <2>1 DEF C!ConsoleTypes, C!Distances, C!RingRight, C!Slot, C!ReadersRight
<1>2. CASE C!Room
  <2>1. PICK c \in Nat, l \in Nat : c = Len(s10) /\ l = Len(s9)
    BY DEF C!ConsoleTypes
  <2>2. s2 \in 0 .. Wrap - 1 /\ s3 = (s2 + c) % Wrap
    BY <2>1 DEF C!Distances
  <2>3. /\ c + l + 1 <= InputBuf
        /\ s1' \in [0 .. InputBuf - 1 -> C!Chars]
        /\ \A i \in 0 .. c + l - 1 : s1'[C!Slot(s2 + i)] = s1[C!Slot(s2 + i)]
        /\ s1'[C!Slot(s2 + (c + l))] = ch
        /\ s4' = (s2 + (c + l + 1)) % Wrap
        /\ \/ /\ ch = "a" /\ c + l + 1 # InputBuf
              /\ UNCHANGED <<s3, s5, s10>> /\ s9' = Append(s9, ch)
           \/ /\ s3' = s4' /\ s10' = s10 \o Append(s9, ch) /\ s9' = <<>>
              /\ s5' = [q \in ConsoleReaders |-> IF s5[q] = "asleep" THEN "read" ELSE s5[q]]
    BY <1>2, <2>1, KeyFacts
  <2>4. s9 \in Seq(C!Chars) /\ s10 \in Seq(C!Chars)
    <3>1. {"a"} \subseteq C!Chars
      BY DEF C!Chars
    <3> QED
      BY <3>1, SeqMonotonic DEF C!ConsoleTypes
  <2>5. /\ Append(s9, ch) \in Seq(C!Chars) /\ Len(Append(s9, ch)) = l + 1
        /\ \A k \in 1 .. l : Append(s9, ch)[k] = s9[k]
        /\ Append(s9, ch)[l + 1] = ch
    BY <2>1, <2>4, AppendProperties
  <2>6. \A k \in 1 .. c : s10[k] = s1'[C!Slot(s2 + k - 1)]
    <3> SUFFICES ASSUME NEW k \in 1 .. c
                 PROVE  s10[k] = s1'[C!Slot(s2 + k - 1)]
      OBVIOUS
    <3>1. k - 1 \in 0 .. c + l - 1 /\ s2 + (k - 1) = s2 + k - 1
      BY <2>2
    <3>2. s10[k] = s1[C!Slot(s2 + k - 1)]
      BY <2>1 DEF C!RingRight
    <3> QED
      BY <2>3, <3>1, <3>2
  <2>7. \A k \in 1 .. l : s9[k] = s1'[C!Slot(s2 + c + k - 1)]
    <3> SUFFICES ASSUME NEW k \in 1 .. l
                 PROVE  s9[k] = s1'[C!Slot(s2 + c + k - 1)]
      OBVIOUS
    <3>1. c + k - 1 \in 0 .. c + l - 1 /\ s2 + (c + k - 1) = s2 + c + k - 1
      BY <2>2
    <3>2. s9[k] = s1[C!Slot(s2 + c + k - 1)]
      BY <2>1 DEF C!RingRight
    <3> QED
      BY <2>3, <3>1, <3>2
  <2>8. s2 + (c + l) = s2 + c + (l + 1) - 1
    BY <2>2
  <2>9. CASE /\ ch = "a" /\ c + l + 1 # InputBuf
             /\ UNCHANGED <<s3, s5, s10>> /\ s9' = Append(s9, ch)
    <3>1. C!ConsoleTypes'
      <4>1. Append(s9, ch) \in Seq({"a"})
        BY <2>9, AppendProperties DEF C!ConsoleTypes
      <4> QED
        BY <1>0, <2>3, <2>9, <4>1 DEF C!ConsoleTypes
    <3>2. C!Distances'
      <4>1. Len(s10') = c /\ Len(s9') = l + 1
        BY <2>1, <2>5, <2>9
      <4>2. s2 + (c + l + 1) = s2 + c + (l + 1) /\ c + (l + 1) = c + l + 1
        BY <2>2
      <4> QED
        BY <1>0, <2>2, <2>3, <2>9, <4>1, <4>2 DEF C!Distances
    <3>3. C!RingRight'
      <4>1. ASSUME NEW k \in 1 .. l + 1
            PROVE  s9'[k] = s1'[C!Slot(s2 + c + k - 1)]
        <5>1. CASE k \in 1 .. l
          BY <2>5, <2>7, <2>9, <5>1
        <5>2. CASE k = l + 1
          BY <2>3, <2>5, <2>8, <2>9, <5>2
        <5> QED
          BY <5>1, <5>2
      <4>2. Len(s10') = c /\ Len(s9') = l + 1 /\ s10' = s10 /\ s2' = s2
        BY <1>0, <2>1, <2>5, <2>9
      <4> QED
        BY <2>6, <4>1, <4>2 DEF C!RingRight, C!Slot
    <3>4. C!ReadersRight'
      BY <1>0, <2>9 DEF C!ReadersRight
    <3> QED
      BY <3>1, <3>2, <3>3, <3>4
  <2>10. CASE /\ s3' = s4' /\ s10' = s10 \o Append(s9, ch) /\ s9' = <<>>
              /\ s5' = [q \in ConsoleReaders |-> IF s5[q] = "asleep" THEN "read" ELSE s5[q]]
    <3>1. /\ s10' \in Seq(C!Chars) /\ Len(s10') = c + (l + 1) /\ Len(s9') = 0
          /\ \A k \in 1 .. c + (l + 1) :
               s10'[k] = IF k <= c THEN s10[k] ELSE Append(s9, ch)[k - c]
      BY <2>1, <2>4, <2>5, <2>10, ConcatProperties
    <3>2. C!ConsoleTypes'
      <4>1. <<>> \in Seq({"a"})
        OBVIOUS
      <4> QED
        BY <1>0, <2>3, <2>10, <3>1, <4>1 DEF C!ConsoleTypes
    <3>3. C!Distances'
      <4>1. /\ s2 + (c + l + 1) = s2 + (c + (l + 1)) /\ c + (l + 1) + 0 = c + l + 1
            /\ s2 + (c + (l + 1)) + 0 = s2 + (c + l + 1)
        BY <2>2
      <4> QED
        BY <1>0, <2>2, <2>3, <2>10, <3>1, <4>1 DEF C!Distances
    <3>4. C!RingRight'
      <4>1. ASSUME NEW k \in 1 .. c + (l + 1)
            PROVE  s10'[k] = s1'[C!Slot(s2 + k - 1)]
        <5>1. CASE k <= c
          BY <2>6, <3>1, <5>1
        <5>2. CASE k > c /\ k <= c + l
          <6>1. PICK j \in 1 .. l : j = k - c
            BY <5>2
          <6>2. s10'[k] = s9[j]
            BY <2>5, <3>1, <5>2, <6>1
          <6>3. s2 + c + j - 1 = s2 + k - 1
            BY <2>2, <6>1
          <6> QED
            BY <2>7, <6>2, <6>3
        <5>3. CASE k = c + (l + 1)
          <6>1. k - c = l + 1 /\ ~(k <= c) /\ s2 + k - 1 = s2 + (c + l)
            BY <2>2, <5>3
          <6> QED
            BY <2>3, <2>5, <3>1, <6>1
        <5> QED
          BY <5>1, <5>2, <5>3
      <4> QED
        BY <1>0, <3>1, <4>1 DEF C!RingRight, C!Slot
    <3>5. C!ReadersRight'
      <4> SUFFICES ASSUME NEW q \in ConsoleReaders
                   PROVE  /\ s5'[q] \in {"sleeping", "asleep"} => s2' = s3'
                          /\ s6'[q] <= s7'[q]
                          /\ s5'[q] # "idle" =>
                               s6'[q] >= 1 /\ (s6'[q] = s7'[q] => s11'[q] = <<>>)
        BY DEF C!ReadersRight
      <4>1. s5[q] # "sleeping"
        BY DEF C!Key, C!Typed, C!Unlocked
      <4>2. s5'[q] = IF s5[q] = "asleep" THEN "read" ELSE s5[q]
        BY <2>10
      <4> QED
        BY <1>0, <4>1, <4>2 DEF C!ReadersRight
    <3> QED
      BY <3>2, <3>3, <3>4, <3>5
  <2> QED
    BY <2>3, <2>9, <2>10
<1> QED
  BY <1>1, <1>2

\* What a reader takes: the shortest of the ends of a line, the bytes it wants and the bytes
\* there are.  A ^D is taken only when it is the first byte that this read() comes to.
LEMMA TakeFacts ==
  ASSUME C!ConsoleInv, NEW p \in ConsoleReaders, C!Take(p)
  PROVE  \E len \in Nat \ {0}, used \in Nat, data \in Seq(C!Chars) :
           /\ len <= Len(s10) /\ len <= s6[p] /\ used \in {len - 1, len}
           /\ Len(data) \in {len - 1, len}
           /\ s2' = (s2 + used) % Wrap /\ s10' = SubSeq(s10, used + 1, Len(s10))
           /\ s11' = [s11 EXCEPT ![p] = s11[p] \o data]
           /\ s6' = [s6 EXCEPT ![p] = s6[p] - Len(data)]
           /\ \/ s5' = [s5 EXCEPT ![p] = "idle"]
              \/ s5' = [s5 EXCEPT ![p] = "read"] /\ Len(data) = len /\ len < s6[p]
           /\ \A k \in 1 .. len - 1 : s10[k] # "^D"
           /\ used = len /\ s10[len] = "^D" => s11'[p] = <<>>
<1> USE DEF C!ConsoleInv
<1>1. PICK c \in Nat : c = Len(s10)
  BY DEF C!ConsoleTypes
<1>2. PICK m \in Nat : m = s6[p]
  BY DEF C!ConsoleTypes
<1>3. c >= 1 /\ c <= InputBuf
  <2>1. s2 \in 0 .. Wrap - 1 /\ s3 = (s2 + c) % Wrap /\ s2 # s3
    BY <1>1 DEF C!Distances, C!Take
  <2>2. PICK l \in Nat : l = Len(s9)
    BY DEF C!ConsoleTypes
  <2>3. c + l <= InputBuf
    BY <1>1, <2>2 DEF C!Distances
  <2>4. s2 % Wrap = s2 /\ s2 + 0 = s2
    BY <2>1, Wraps, RingSizes
  <2>5. c # 0
    BY <2>1, <2>4
  <2> QED
    BY <2>3, <2>5, RingSizes
<1>4. m >= 1 /\ (m = s7[p] => s11[p] = <<>>) /\ m <= s7[p] /\ s7[p] \in Nat
  BY <1>2 DEF C!ReadersRight, C!Take, C!ConsoleTypes
<1>5. /\ C!Minus(s3, s2) = c
      /\ \A k \in 0 .. c : \A i \in 1 .. k : C!Text(s2, k)[i] = s10[i]
  BY <1>1, Gaps, RingHolds
<1> DEFINE X == C!Ends(p)
           len == CHOOSE k \in X : \A j \in X : k <= j
           got == C!Text(s2, len)
<1>6. X = {k \in 1 .. c : s10[k] \in {"nl", "^D"}} \cup {c, m}
  <2>1. \A k \in 1 .. c : C!Text(s2, k)[k] = s10[k]
    BY <1>5
  <2> QED
    BY <1>2, <1>5, <2>1 DEF C!Ends
<1>7. len \in X /\ \A j \in X : len <= j
  <2>1. X \in SUBSET Nat /\ X # {}
    BY <1>6
  <2> HIDE DEF X
  <2>2. \E k \in X : \A j \in X : k <= j
    BY <2>1, LeastNumber
  <2> QED
    BY <2>2
<1>8. len \in Nat \ {0} /\ len <= c /\ len <= m
  <2> HIDE DEF len
  <2> QED
    BY <1>3, <1>4, <1>6, <1>7
<1>9. \A k \in 1 .. len - 1 : s10[k] # "^D"
  <2> HIDE DEF len
  <2> QED
    BY <1>6, <1>7, <1>8
<1>10. /\ got \in Seq(C!Chars) /\ Len(got) = len
       /\ \A i \in 1 .. len : got[i] = s10[i]
  <2> HIDE DEF len
  <2>1. \A i \in 1 .. len : got[i] = s10[i]
    BY <1>5, <1>8
  <2>2. \A i \in 1 .. len : s10[i] \in C!Chars
    BY <1>1, <1>8 DEF C!ConsoleTypes
  <2>3. got = [i \in 1 .. len |-> s1[C!Slot(s2 + i - 1)]]
    BY DEF C!Text
  <2>4. \A i \in 1 .. len : s1[C!Slot(s2 + i - 1)] \in C!Chars
    BY <2>1, <2>2, <2>3
  <2>5. got \in [1 .. len -> C!Chars]
    BY <2>3, <2>4
  <2> QED
    BY <1>8, <2>1, <2>5
<1> DEFINE used == IF C!Saved(p, got) THEN len - 1 ELSE len
           data == IF s10[len] = "^D" THEN SubSeq(got, 1, len - 1) ELSE got
<1>11. C!Last(got) = s10[len] /\ C!Front(got) = SubSeq(got, 1, len - 1)
  <2> HIDE DEF len, got
  <2> QED
    BY <1>8, <1>10 DEF C!Last, C!Front
<1>12. /\ s2' = (s2 + used) % Wrap /\ s10' = SubSeq(s10, used + 1, Len(s10))
       /\ s11' = [s11 EXCEPT ![p] = s11[p] \o data]
       /\ s6' = [s6 EXCEPT ![p] = s6[p] - Len(data)]
       /\ s5' = [s5 EXCEPT ![p] = IF s10[len] = "^D" \/ s10[len] = "nl" \/ len = s6[p]
                                  THEN "idle" ELSE "read"]
  <2> DEFINE some == IF C!Last(got) = "^D" THEN C!Front(got) ELSE got
  <2>1. /\ s2' = (s2 + used) % Wrap /\ s10' = SubSeq(s10, used + 1, Len(s10))
        /\ s11' = [s11 EXCEPT ![p] = s11[p] \o some]
        /\ s6' = [s6 EXCEPT ![p] = s6[p] - Len(some)]
        /\ s5' = [s5 EXCEPT ![p] = IF \/ C!Last(got) = "^D" \/ C!Last(got) = "nl"
                                      \/ len = s6[p]
                                   THEN "idle" ELSE "read"]
    BY DEF C!Take
  <2> HIDE DEF used, got, len, X
  <2>2. some = data
    BY <1>11
  <2> HIDE DEF some, data
  <2> QED
    BY <1>11, <2>1, <2>2
<1>13. C!Saved(p, got) <=> s10[len] = "^D" /\ m - (len - 1) < s7[p]
  <2> HIDE DEF len, got
  <2> QED
    BY <1>2, <1>10, <1>11 DEF C!Saved
<1> HIDE DEF X, len, got
<1>14. /\ data \in Seq(C!Chars)
       /\ Len(data) = IF s10[len] = "^D" THEN len - 1 ELSE len
       /\ s10[len] = "^D" /\ len = 1 => data = <<>>
  <2>1. CASE s10[len] = "^D"
    <3>1. \A i \in 1 .. len - 1 : got[i] \in C!Chars
      BY <1>8, <1>10
    <3>2. 1 \in Int /\ len - 1 \in Int
      BY <1>8
    <3>3. /\ SubSeq(got, 1, len - 1) \in Seq(C!Chars)
          /\ Len(SubSeq(got, 1, len - 1)) = IF 1 <= len - 1 THEN (len - 1) - 1 + 1 ELSE 0
      BY <3>1, <3>2, SubSeqProperties
    <3>4. len = 1 => SubSeq(got, 1, len - 1) = <<>>
      BY <3>2, SubSeqEmpty
    <3> QED
      BY <1>8, <2>1, <3>3, <3>4
  <2>2. CASE s10[len] # "^D"
    BY <1>8, <1>10, <2>2
  <2> QED
    BY <2>1, <2>2
<1>15. used \in Nat /\ used \in {len - 1, len}
  BY <1>8
<1>16. used = len /\ s10[len] = "^D" => s11'[p] = <<>>
  <2> SUFFICES ASSUME used = len, s10[len] = "^D"
               PROVE  s11'[p] = <<>>
    OBVIOUS
  <2>1. ~(m - (len - 1) < s7[p])
    <3>1. ~C!Saved(p, got)
      BY <1>8
    <3> QED
      BY <1>13, <3>1
  <2>2. len = 1 /\ m = s7[p]
    BY <1>4, <1>8, <2>1
  <2>3. data = <<>> /\ s11[p] = <<>>
    BY <1>4, <1>14, <2>2
  <2>4. s11'[p] = s11[p] \o data
    BY <1>12 DEF C!ConsoleTypes
  <2>5. <<>> \o <<>> = <<>>
    OBVIOUS
  <2> QED
    BY <2>3, <2>4, <2>5
<1> HIDE DEF used, data
<1>17. \/ s5' = [s5 EXCEPT ![p] = "idle"]
       \/ s5' = [s5 EXCEPT ![p] = "read"] /\ Len(data) = len /\ len < s6[p]
  <2>1. CASE s10[len] = "^D" \/ s10[len] = "nl" \/ len = s6[p]
    BY <1>12, <2>1
  <2>2. CASE ~(s10[len] = "^D" \/ s10[len] = "nl" \/ len = s6[p])
    BY <1>2, <1>8, <1>12, <1>14, <2>2
  <2> QED
    BY <2>1, <2>2
<1>18. Len(data) \in {len - 1, len}
  BY <1>14
<1>19. len <= Len(s10) /\ len <= s6[p]
  BY <1>1, <1>2, <1>8
<1> QED
  BY <1>8, <1>9, <1>12, <1>14, <1>15, <1>16, <1>17, <1>18, <1>19

\* A reader that takes what there is.
LEMMA TakeKeeps ==
  ASSUME C!ConsoleInv, NEW p \in ConsoleReaders, C!Take(p)
  PROVE  C!ConsoleInv'
<1> USE DEF C!ConsoleInv
<1>0. UNCHANGED <<s1, s3, s4, s7, s9>> /\ s5[p] = "read" /\ C!Unlocked /\ s2 # s3
  BY DEF C!Take
<1>1. PICK len \in Nat \ {0}, used \in Nat, data \in Seq(C!Chars) :
        /\ len <= Len(s10) /\ len <= s6[p] /\ used \in {len - 1, len}
        /\ Len(data) \in {len - 1, len}
        /\ s2' = (s2 + used) % Wrap /\ s10' = SubSeq(s10, used + 1, Len(s10))
        /\ s11' = [s11 EXCEPT ![p] = s11[p] \o data]
        /\ s6' = [s6 EXCEPT ![p] = s6[p] - Len(data)]
        /\ \/ s5' = [s5 EXCEPT ![p] = "idle"]
           \/ s5' = [s5 EXCEPT ![p] = "read"] /\ Len(data) = len /\ len < s6[p]
        /\ \A k \in 1 .. len - 1 : s10[k] # "^D"
        /\ used = len /\ s10[len] = "^D" => s11'[p] = <<>>
  BY TakeFacts, Zenon
<1>2. PICK c \in Nat, l \in Nat : c = Len(s10) /\ l = Len(s9)
  BY DEF C!ConsoleTypes
<1>3. /\ s2 \in 0 .. Wrap - 1 /\ s3 = (s2 + c) % Wrap /\ s4 = (s2 + c + l) % Wrap
      /\ c + l <= InputBuf /\ (c + l = InputBuf => s9 = <<>>)
  BY <1>2 DEF C!Distances
<1>4. used <= c
  BY <1>1, <1>2
<1>5. PICK x \in Int, d \in Nat : x = s2 + used /\ d = c - used
  BY <1>3, <1>4
<1>6. /\ s10' \in Seq(C!Chars) /\ Len(s10') = d
      /\ \A k \in 1 .. d : s10'[k] = s10[used + k]
  <2>1. \A k \in used + 1 .. c : s10[k] \in C!Chars
    BY <1>2 DEF C!ConsoleTypes
  <2>2. used + 1 \in Int /\ c \in Int
    OBVIOUS
  <2>3. /\ SubSeq(s10, used + 1, c) \in Seq(C!Chars)
        /\ Len(SubSeq(s10, used + 1, c)) = IF used + 1 <= c THEN c - (used + 1) + 1 ELSE 0
        /\ \A k \in 1 .. c - (used + 1) + 1 :
             SubSeq(s10, used + 1, c)[k] = s10[(used + 1) + k - 1]
    BY <2>1, <2>2, SubSeqProperties
  <2> QED
    BY <1>1, <1>2, <1>4, <1>5, <2>3
<1>7. x \in 0 .. 2 * Wrap - 1 /\ s2' = x % Wrap /\ x + d = s2 + c /\ x + d + l <= 2 * Wrap - 1
  BY <1>1, <1>3, <1>4, <1>5, RingSizes
<1>8. C!ConsoleTypes'
  <2>1. s5' \in [ConsoleReaders -> {"idle", "read", "sleeping", "asleep"}]
    BY <1>1 DEF C!ConsoleTypes
  <2>2. s6' \in [ConsoleReaders -> Nat]
    <3>1. s6[p] - Len(data) \in Nat
      BY <1>1 DEF C!ConsoleTypes
    <3> QED
      BY <1>1, <3>1 DEF C!ConsoleTypes
  <2>3. s11' \in [ConsoleReaders -> Seq(C!Chars \cup {"none"})]
    <3>1. s11[p] \in Seq(C!Chars \cup {"none"}) /\ data \in Seq(C!Chars \cup {"none"})
      BY SeqMonotonic DEF C!ConsoleTypes
    <3>2. s11[p] \o data \in Seq(C!Chars \cup {"none"})
      BY <3>1, ConcatProperties
    <3> QED
      BY <1>1, <3>2 DEF C!ConsoleTypes
  <2> QED
    BY <1>0, <1>6, <2>1, <2>2, <2>3 DEF C!ConsoleTypes
<1>9. C!Distances'
  <2>1. s2' \in 0 .. Wrap - 1
    BY <1>7, Wraps, RingSizes
  <2>2. s3 = (s2' + d) % Wrap
    <3>1. x + d <= 2 * Wrap - 1
      BY <1>7, RingSizes
    <3>2. ((x % Wrap) + d) % Wrap = (x + d) % Wrap
      BY <1>7, <3>1, WrapIndex
    <3> QED
      BY <1>3, <1>7, <3>2
  <2>3. s4 = (s2' + d + l) % Wrap
    <3>1. PICK j \in Nat : j = d + l
      OBVIOUS
    <3>2. x + j <= 2 * Wrap - 1 /\ x + j = s2 + c + l
      BY <1>3, <1>7, <3>1
    <3>3. ((x % Wrap) + j) % Wrap = (x + j) % Wrap
      BY <1>7, <3>2, WrapIndex
    <3>4. s2' + d + l = (x % Wrap) + j
      BY <1>7, <2>1, <3>1
    <3> QED
      BY <1>3, <3>2, <3>3, <3>4
  <2>4. d + l <= InputBuf /\ (d + l = InputBuf => c + l = InputBuf)
    BY <1>3, <1>4, <1>5, RingSizes
  <2> QED
    BY <1>0, <1>2, <1>3, <1>6, <2>1, <2>2, <2>3, <2>4 DEF C!Distances
<1>10. C!RingRight'
  <2>0. s2' \in Int
    BY <1>7, Wraps, RingSizes
  <2>1. ASSUME NEW k \in 1 .. d
        PROVE  s10'[k] = s1[C!Slot(s2' + k - 1)]
    <3>1. used + k \in 1 .. c /\ s2 + (used + k) - 1 = x + (k - 1) /\ k - 1 \in Int
      BY <1>3, <1>4, <1>5
    <3>2. s10[used + k] = s1[C!Slot(s2 + (used + k) - 1)]
      BY <1>2, <3>1 DEF C!RingRight
    <3>3. ((x % Wrap) + (k - 1)) % InputBuf = (x + (k - 1)) % InputBuf
      BY <1>7, <3>1, WrapSlot
    <3>4. s2' + k - 1 = (x % Wrap) + (k - 1)
      BY <1>7, <2>0
    <3> QED
      BY <1>6, <3>1, <3>2, <3>3, <3>4 DEF C!Slot
  <2>2. ASSUME NEW k \in 1 .. l
        PROVE  s9[k] = s1[C!Slot(s2' + d + k - 1)]
    <3>1. s9[k] = s1[C!Slot(s2 + c + k - 1)]
      BY <1>2 DEF C!RingRight
    <3>2. PICK j \in Int : j = d + k - 1
      OBVIOUS
    <3>3. ((x % Wrap) + j) % InputBuf = (x + j) % InputBuf
      BY <1>7, WrapSlot
    <3>4. s2' + d + k - 1 = (x % Wrap) + j /\ x + j = s2 + c + k - 1
      BY <1>3, <1>7, <2>0, <3>2
    <3> QED
      BY <3>1, <3>3, <3>4 DEF C!Slot
  <2> QED
    BY <1>0, <1>2, <1>6, <2>1, <2>2 DEF C!RingRight, C!Slot
<1>11. C!ReadersRight'
  <2> SUFFICES ASSUME NEW q \in ConsoleReaders
               PROVE  /\ s5'[q] \in {"sleeping", "asleep"} => s2' = s3'
                      /\ s6'[q] <= s7'[q]
                      /\ s5'[q] # "idle" => s6'[q] >= 1 /\ (s6'[q] = s7'[q] => s11'[q] = <<>>)
    BY DEF C!ReadersRight
  <2>1. CASE q = p
    <3>1. PICK m \in Nat, t \in Nat : m = s6[p] /\ t = s7[p]
      BY DEF C!ConsoleTypes
    <3>2. m <= t /\ len <= m
      BY <1>1, <3>1 DEF C!ReadersRight
    <3>3. s7'[p] = t /\ s6'[p] = m - Len(data)
      BY <1>0, <1>1, <3>1 DEF C!ConsoleTypes
    <3>4. s5'[p] = "idle" \/ (s5'[p] = "read" /\ Len(data) = len /\ len < m)
      BY <1>1, <3>1 DEF C!ConsoleTypes
    <3> QED
      BY <1>1, <2>1, <3>2, <3>3, <3>4
  <2>2. CASE q # p
    <3>1. s5'[q] = s5[q] /\ s6'[q] = s6[q] /\ s7'[q] = s7[q] /\ s11'[q] = s11[q]
      BY <1>0, <1>1, <2>2 DEF C!ConsoleTypes
    <3>2. s5[q] \notin {"sleeping", "asleep"}
      BY <1>0 DEF C!ReadersRight, C!Unlocked
    <3> QED
      BY <3>1, <3>2 DEF C!ReadersRight
  <2> QED
    BY <2>1, <2>2
<1> QED
  BY <1>8, <1>9, <1>10, <1>11

\* Every step of the console keeps the invariant.
LEMMA ConsoleInduction ==
  ASSUME C!ConsoleInv, C!Next \/ UNCHANGED C!vars
  PROVE  C!ConsoleInv'
<1>1. CASE C!Next
  <2>1. CASE C!Stopped
    BY <2>1 DEF C!Stopped, C!vars, C!input, C!reader, C!ConsoleInv, C!ConsoleTypes,
                C!Distances, C!RingRight, C!Slot, C!ReadersRight
  <2>2. CASE C!KillLine \/ C!Backspace
    BY <2>2, KillLineKeeps, BackspaceKeeps
  <2>3. CASE \E ch \in C!Chars : C!Key(ch)
    BY <2>3, KeyKeeps
  <2>4. CASE \E p \in ConsoleReaders : C!Take(p)
    BY <2>4, TakeKeeps
  <2>5. CASE \E p \in ConsoleReaders : C!Empty(p) \/ C!Sleep(p) \/ C!Kill(p)
    BY <2>5, WaitKeeps
  <2>6. CASE \E p \in ConsoleReaders : \E len \in ReadLengths : C!Read(p, len)
    BY <2>6, ReadKeeps
  <2> QED
    BY <1>1, <2>1, <2>2, <2>3, <2>4, <2>5, <2>6 DEF C!Next
<1>2. CASE UNCHANGED C!vars
  BY <1>2 DEF C!vars, C!input, C!reader, C!ConsoleInv, C!ConsoleTypes, C!Distances,
              C!RingRight, C!Slot, C!ReadersRight
<1> QED
  BY <1>1, <1>2

\* What the invariant says of the ring and of the readers.
LEMMA ConsoleMeans ==
  ASSUME C!ConsoleInv
  PROVE  C!TypeOK /\ C!InputIntact /\ C!FullCommitted /\ C!SleeperHasReason
<1> USE DEF C!ConsoleInv
<1>1. PICK c \in Nat, l \in Nat : c = Len(s10) /\ l = Len(s9)
  BY DEF C!ConsoleTypes
<1>2. /\ s3 \in 0 .. Wrap - 1 /\ s4 \in 0 .. Wrap - 1
      /\ C!Minus(s3, s2) = c /\ C!Minus(s4, s3) = l /\ C!Minus(s4, s2) = c + l
  BY <1>1, Gaps
<1>3. C!Text(s2, c) = s10 /\ C!Text(s3, l) = s9
  BY <1>1, RingHolds
<1>4. /\ s2 \in 0 .. Wrap - 1 /\ c + l <= InputBuf /\ (c + l = InputBuf => s9 = <<>>)
      /\ s3 = (s2 + c) % Wrap /\ s4 = (s2 + c + l) % Wrap
  BY <1>1 DEF C!Distances
<1>5. C!TypeOK
  <2>1. \A q \in ConsoleReaders : s6[q] \in 0 .. s7[q]
    BY DEF C!ConsoleTypes, C!ReadersRight
  <2> QED
    BY <1>2, <1>4, <2>1 DEF C!TypeOK, C!ConsoleTypes
<1>6. C!InputIntact
  BY <1>1, <1>2, <1>3, <1>4 DEF C!InputIntact
<1>7. C!FullCommitted
  <2> SUFFICES ASSUME c + l = InputBuf
               PROVE  s3 = s4
    BY <1>2 DEF C!FullCommitted
  <2>1. l = 0
    BY <1>1, <1>4
  <2>2. s2 + c + l = s2 + c
    BY <1>4, <2>1
  <2> QED
    BY <1>4, <2>2
<1>8. C!SleeperHasReason
  BY DEF C!ReadersRight, C!SleeperHasReason
<1> QED
  BY <1>5, <1>6, <1>7, <1>8

\* Only a reader that takes something, or is killed with nothing to read, returns.
LEMMA EofInduction ==
  ASSUME C!ConsoleInv, C!Next \/ UNCHANGED C!vars
  PROVE  C!EofStep
<1> SUFFICES ASSUME NEW q \in ConsoleReaders, s5[q] = "read", s5'[q] = "idle",
                    NEW i \in 1 .. Len(SubSeq(s10, 1, Len(s10) - Len(s10'))),
                    SubSeq(s10, 1, Len(s10) - Len(s10'))[i] = "^D"
             PROVE  s11'[q] = <<>>
  BY DEF C!EofStep, C!Contains
<1> USE DEF C!ConsoleInv
<1>1. PICK c \in Nat : c = Len(s10)
  BY DEF C!ConsoleTypes
<1>2. CASE C!Take(q)
  <2>1. PICK len \in Nat \ {0}, used \in Nat, data \in Seq(C!Chars) :
          /\ len <= Len(s10) /\ used \in {len - 1, len}
          /\ s10' = SubSeq(s10, used + 1, Len(s10))
          /\ \A k \in 1 .. len - 1 : s10[k] # "^D"
          /\ used = len /\ s10[len] = "^D" => s11'[q] = <<>>
    BY <1>2, TakeFacts
  <2>2. used <= c
    BY <1>1, <2>1
  <2>3. Len(s10') = c - used
    <3>1. \A k \in used + 1 .. c : s10[k] \in C!Chars
      BY <1>1 DEF C!ConsoleTypes
    <3>2. used + 1 \in Int /\ c \in Int
      OBVIOUS
    <3>3. Len(SubSeq(s10, used + 1, c)) = IF used + 1 <= c THEN c - (used + 1) + 1 ELSE 0
      BY <3>1, <3>2, SubSeqProperties
    <3> QED
      BY <1>1, <2>1, <2>2, <3>3
  <2>4. Len(s10) - Len(s10') = used
    BY <1>1, <2>2, <2>3
  <2>5. /\ Len(SubSeq(s10, 1, used)) = used
        /\ \A k \in 1 .. used : SubSeq(s10, 1, used)[k] = s10[k]
    <3>1. \A k \in 1 .. used : s10[k] \in C!Chars
      BY <1>1, <2>2 DEF C!ConsoleTypes
    <3>2. 1 \in Int /\ used \in Int
      OBVIOUS
    <3>3. /\ Len(SubSeq(s10, 1, used)) = IF 1 <= used THEN used - 1 + 1 ELSE 0
          /\ \A k \in 1 .. used - 1 + 1 : SubSeq(s10, 1, used)[k] = s10[1 + k - 1]
      BY <3>1, <3>2, SubSeqProperties
    <3> QED
      BY <3>3
  <2>6. i \in 1 .. used /\ s10[i] = "^D"
    BY <2>4, <2>5
  <2> QED
    BY <2>1, <2>6
<1>3. CASE C!Empty(q)
  <2>1. s10' = s10
    BY <1>3 DEF C!Empty
  <2>2. Len(s10) - Len(s10') = 0 /\ 1 \in Int /\ 0 \in Int /\ 0 < 1
    BY <1>1, <2>1
  <2>3. SubSeq(s10, 1, 0) = <<>> /\ Len(<<>>) = 0
    BY <2>2, SubSeqEmpty
  <2> QED
    BY <2>2, <2>3
<1>4. C!Take(q) \/ C!Empty(q)
  <2>1. ASSUME NEW p \in ConsoleReaders, C!Take(p) \/ C!Empty(p), p # q
        PROVE  s5'[q] = s5[q]
    BY <2>1 DEF C!Take, C!Empty, C!ConsoleTypes
  <2>2. ASSUME NEW p \in ConsoleReaders, C!Sleep(p) \/ C!Kill(p)
        PROVE  s5'[q] = s5[q] \/ s5'[q] # "idle"
    BY <2>2 DEF C!Sleep, C!Kill, C!ConsoleTypes
  <2>3. ASSUME NEW p \in ConsoleReaders, NEW len \in ReadLengths, C!Read(p, len)
        PROVE  s5'[q] = s5[q] \/ s5'[q] # "idle"
    BY <2>3 DEF C!Read, C!ConsoleTypes
  <2>4. ASSUME NEW ch \in C!Chars, C!Key(ch)
        PROVE  s5'[q] = s5[q]
    <3>1. s5' = s5 \/ s5' = [j \in ConsoleReaders |-> IF s5[j] = "asleep" THEN "read" ELSE s5[j]]
      BY <2>4 DEF C!Key, C!WakeReaders
    <3> QED
      BY <3>1 DEF C!ConsoleTypes
  <2>5. C!KillLine \/ C!Backspace \/ C!Stopped \/ UNCHANGED C!vars => s5' = s5
    BY DEF C!KillLine, C!Backspace, C!Stopped, C!vars, C!reader
  <2> QED
    BY <2>1, <2>2, <2>3, <2>4, <2>5 DEF C!Next
<1> QED
  BY <1>2, <1>3, <1>4

\* The invariant of the console when it is what runs.
ConsInv == part = "console" => C!ConsoleInv

\* The invariant is one of every behaviour of the run.
LEMMA ConsHolds == Spec => []ConsInv
<1>1. Init => ConsInv
  <2>1. part = "console" /\ C!Init => C!ConsoleInv
    BY ConsoleStarts
  <2> QED
    BY <2>1 DEF Init, ConsInv
<1>2. ConsInv /\ [Next]_vars => ConsInv'
  <2> SUFFICES ASSUME ConsInv, [Next]_vars
               PROVE  ConsInv'
    OBVIOUS
  <2>1. part' = part
    BY PartStays
  <2>2. ASSUME part = "console" PROVE C!ConsoleInv'
    <3>1. C!ConsoleInv /\ (C!Next \/ UNCHANGED C!vars)
      BY <2>2, PartStays DEF ConsInv
    <3> QED
      BY <3>1, ConsoleInduction
  <2> QED
    BY <2>1, <2>2 DEF ConsInv
<1> QED
  BY <1>1, <1>2, PTL DEF Spec

\* The ring of the console, for any length of it, any width of the indices, any readers and
\* any number of keys: what is typed is read in order, a full buffer can be read, and nobody
\* sleeps while there is input.
THEOREM ConsoleIsSound == Spec => []ConsoleSound
<1>1. ConsInv => ConsoleSound
  BY ConsoleMeans DEF ConsInv, ConsoleSound
<1> QED
  BY <1>1, ConsHolds, PTL

\* A ^D ends exactly one read() that returns no bytes: EofAlone of the run.
THEOREM EofsAlone == Spec => EofAlone
<1>1. ConsInv /\ [Next]_vars => [part = "console" => C!EofStep]_vars
  <2> SUFFICES ASSUME ConsInv, [Next]_vars, part = "console"
               PROVE  C!EofStep
    OBVIOUS
  <2>1. C!ConsoleInv /\ (C!Next \/ UNCHANGED C!vars)
    BY PartStays DEF ConsInv
  <2> QED
    BY <2>1, EofInduction
<1> QED
  BY <1>1, ConsHolds, PTL DEF Spec, EofAlone
-----------------------------------------------------------------------------
(* EndStamp of Times, with any number n of slots and m of CPUs *)

\* CPU 0 is there, and NoSlot and NoCpu are no slot and no CPU.
CpuSets(n, m) ==
  /\ 0 \in T(n, m)!Cpus /\ T(n, m)!NoSlot \notin T(n, m)!Slots
  /\ T(n, m)!NoCpu \notin T(n, m)!Cpus /\ 0 \notin T(n, m)!Slots

\* The numbers of Times are those of slots and CPUs.
LEMMA TimesSets ==
  ASSUME NEW n \in Nat, NEW m \in Nat \ {0}
  PROVE  CpuSets(n, m)
BY DEF CpuSets, T!Cpus, T!Slots, T!NoSlot, T!NoCpu

\* Every step keeps to the types of the life of a process.
LEMMA LivesTyped ==
  ASSUME NEW n \in Nat, NEW m \in Nat \ {0},
         T(n, m)!LifeTypes, T(n, m)!Next
  PROVE  T(n, m)!LifeTypes'
<1>0. CpuSets(n, m)
  BY TimesSets
<1> USE <1>0 DEF CpuSets, T!LifeTypes, T!At, T!stamps, T!history, T!handler
<1>1. ASSUME NEW c \in T(n, m)!Cpus, NEW p \in T(n, m)!Slots, T(n, m)!ProcStep(c, p)
      PROVE  T(n, m)!LifeTypes'
  <2>1. CASE T(n, m)!AllocProc(c, p)
    BY <2>1 DEF T!AllocProc
  <2>2. CASE T(n, m)!Ready(c, p)
    BY <2>2 DEF T!Ready
  <2>3. CASE T(n, m)!SwitchStart(c, p)
    BY <2>3 DEF T!SwitchStart
  <2>4. CASE T(n, m)!SwitchEnd(c, p)
    BY <2>4 DEF T!SwitchEnd
  <2>5. CASE T(n, m)!Yield(c, p)
    BY <2>5 DEF T!Yield, T!Leave
  <2>6. CASE T(n, m)!Sleep(c, p)
    BY <2>6 DEF T!Sleep, T!Leave
  <2>7. CASE T(n, m)!SbrkStart(c, p)
    BY <2>7 DEF T!SbrkStart
  <2>8. CASE T(n, m)!SbrkEnd(c, p)
    BY <2>8 DEF T!SbrkEnd
  <2>9. CASE T(n, m)!ExitStamp(c, p)
    BY <2>9 DEF T!ExitStamp
  <2>10. CASE T(n, m)!ExitZombie(c, p)
    BY <2>10 DEF T!ExitZombie
  <2>11. CASE T(n, m)!WaitxTime(c, p)
    BY <2>11 DEF T!WaitxTime
  <2>12. CASE T(n, m)!WaitxFree(c, p)
    BY <2>12 DEF T!WaitxFree
  <2> HIDE DEF T!LifeTypes, T!At, T!stamps, T!history, T!handler
  <2> QED
    BY <1>1, <2>1, <2>2, <2>3, <2>4, <2>5, <2>6, <2>7, <2>8, <2>9, <2>10, <2>11, <2>12, Zenon
       DEF T!ProcStep
<1>2. CASE T(n, m)!Tick
  BY <1>2 DEF T!Tick
<1>3. CASE T(n, m)!IncTest
  BY <1>3 DEF T!IncTest, T!Counted
<1>4. CASE T(n, m)!IncAdd
  BY <1>4 DEF T!IncAdd
<1>5. CASE T(n, m)!TickEnd
  BY <1>5 DEF T!TickEnd, T!Leave
<1> HIDE DEF T!LifeTypes, T!At, T!stamps, T!history, T!handler
<1> QED
  BY <1>1, <1>2, <1>3, <1>4, <1>5, Zenon DEF T!Next

\* Every step keeps the CPUs to processes of their own.
LEMMA CpusKept ==
  ASSUME NEW n \in Nat, NEW m \in Nat \ {0},
         T(n, m)!LifeTypes, T(n, m)!CpusRight, T(n, m)!Next
  PROVE  T(n, m)!CpusRight'
<1>0. CpuSets(n, m)
  BY TimesSets
<1> USE <1>0 DEF CpuSets, T!LifeTypes, T!CpusRight, T!CpuRight, T!At, T!stamps, T!history,
        T!handler
<1>1. ASSUME NEW c \in T(n, m)!Cpus, NEW p \in T(n, m)!Slots, T(n, m)!ProcStep(c, p)
      PROVE  T(n, m)!CpusRight'
  <2>1. CASE T(n, m)!AllocProc(c, p)
    BY <2>1 DEF T!AllocProc
  <2>2. CASE T(n, m)!Ready(c, p)
    BY <2>2 DEF T!Ready
  <2>3. CASE T(n, m)!SwitchStart(c, p)
    BY <2>3 DEF T!SwitchStart
  <2>4. CASE T(n, m)!SwitchEnd(c, p)
    BY <2>4 DEF T!SwitchEnd
  <2>5. CASE T(n, m)!Yield(c, p)
    BY <2>5 DEF T!Yield, T!Leave
  <2>6. CASE T(n, m)!Sleep(c, p)
    BY <2>6 DEF T!Sleep, T!Leave
  <2>7. CASE T(n, m)!SbrkStart(c, p)
    BY <2>7 DEF T!SbrkStart
  <2>8. CASE T(n, m)!SbrkEnd(c, p)
    BY <2>8 DEF T!SbrkEnd
  <2>9. CASE T(n, m)!ExitStamp(c, p)
    BY <2>9 DEF T!ExitStamp
  <2>10. CASE T(n, m)!ExitZombie(c, p)
    BY <2>10 DEF T!ExitZombie
  <2>11. CASE T(n, m)!WaitxTime(c, p)
    BY <2>11 DEF T!WaitxTime
  <2>12. CASE T(n, m)!WaitxFree(c, p)
    BY <2>12 DEF T!WaitxFree
  <2> HIDE DEF T!LifeTypes, T!CpusRight, T!CpuRight, T!At, T!stamps, T!history, T!handler
  <2> QED
    BY <1>1, <2>1, <2>2, <2>3, <2>4, <2>5, <2>6, <2>7, <2>8, <2>9, <2>10, <2>11, <2>12, Zenon
       DEF T!ProcStep
<1>2. CASE T(n, m)!Tick
  BY <1>2 DEF T!Tick
<1>3. CASE T(n, m)!IncTest
  BY <1>3 DEF T!IncTest, T!Counted
<1>4. CASE T(n, m)!IncAdd
  BY <1>4 DEF T!IncAdd
<1>5. CASE T(n, m)!TickEnd
  BY <1>5 DEF T!TickEnd, T!Leave
<1> HIDE DEF T!LifeTypes, T!CpusRight, T!CpuRight, T!At, T!stamps, T!history, T!handler
<1> QED
  BY <1>1, <1>2, <1>3, <1>4, <1>5, Zenon DEF T!Next

\* Every step keeps the end stamps between creation and now.
LEMMA StampsKept ==
  ASSUME NEW n \in Nat, NEW m \in Nat \ {0},
         T(n, m)!LifeTypes, T(n, m)!CpusRight, T(n, m)!StampsRight, T(n, m)!Next
  PROVE  T(n, m)!StampsRight'
<1>0. CpuSets(n, m)
  BY TimesSets
<1> USE <1>0 DEF CpuSets, T!LifeTypes, T!CpusRight, T!CpuRight, T!StampsRight, T!Stamped, T!At,
        T!stamps, T!history, T!handler
<1>1. ASSUME NEW c \in T(n, m)!Cpus, NEW p \in T(n, m)!Slots, T(n, m)!ProcStep(c, p)
      PROVE  T(n, m)!StampsRight'
  <2>1. CASE T(n, m)!AllocProc(c, p)
    BY <2>1 DEF T!AllocProc
  <2>2. CASE T(n, m)!Ready(c, p)
    BY <2>2 DEF T!Ready
  <2>3. CASE T(n, m)!SwitchStart(c, p)
    BY <2>3 DEF T!SwitchStart
  <2>4. CASE T(n, m)!SwitchEnd(c, p)
    BY <2>4 DEF T!SwitchEnd
  <2>5. CASE T(n, m)!Yield(c, p)
    BY <2>5 DEF T!Yield, T!Leave
  <2>6. CASE T(n, m)!Sleep(c, p)
    BY <2>6 DEF T!Sleep, T!Leave
  <2>7. CASE T(n, m)!SbrkStart(c, p)
    BY <2>7 DEF T!SbrkStart
  <2>8. CASE T(n, m)!SbrkEnd(c, p)
    BY <2>8 DEF T!SbrkEnd
  <2>9. CASE T(n, m)!ExitStamp(c, p)
    BY <2>9 DEF T!ExitStamp
  <2>10. CASE T(n, m)!ExitZombie(c, p)
    BY <2>10 DEF T!ExitZombie
  <2>11. CASE T(n, m)!WaitxTime(c, p)
    BY <2>11 DEF T!WaitxTime
  <2>12. CASE T(n, m)!WaitxFree(c, p)
    BY <2>12 DEF T!WaitxFree
  <2> HIDE DEF T!LifeTypes, T!CpusRight, T!CpuRight, T!StampsRight, T!Stamped, T!At,
        T!stamps, T!history, T!handler
  <2> QED
    BY <1>1, <2>1, <2>2, <2>3, <2>4, <2>5, <2>6, <2>7, <2>8, <2>9, <2>10, <2>11, <2>12, Zenon
       DEF T!ProcStep
<1>2. CASE T(n, m)!Tick
  BY <1>2 DEF T!Tick
<1>3. CASE T(n, m)!IncTest
  BY <1>3 DEF T!IncTest, T!Counted
<1>4. CASE T(n, m)!IncAdd
  BY <1>4 DEF T!IncAdd
<1>5. CASE T(n, m)!TickEnd
  BY <1>5 DEF T!TickEnd, T!Leave
<1> HIDE DEF T!LifeTypes, T!CpusRight, T!CpuRight, T!StampsRight, T!Stamped, T!At,
        T!stamps, T!history, T!handler
<1> QED
  BY <1>1, <1>2, <1>3, <1>4, <1>5, Zenon DEF T!Next

\* StampInv is inductive.
LEMMA StampInduction ==
  ASSUME NEW n \in Nat, NEW m \in Nat \ {0}
  PROVE  /\ T(n, m)!Init => T(n, m)!StampInv
         /\ T(n, m)!StampInv /\ [T(n, m)!Next]_(T(n, m)!vars) => T(n, m)!StampInv'
         /\ T(n, m)!StampInv => T(n, m)!EndStamp
<1>0. CpuSets(n, m)
  BY TimesSets
<1>1. ASSUME T(n, m)!Init PROVE T(n, m)!StampInv
  BY <1>1, <1>0 DEF CpuSets, T!Init, T!StampInv, T!LifeTypes, T!CpusRight, T!CpuRight,
     T!StampsRight, T!Stamped
<1>2. ASSUME T(n, m)!StampInv, [T(n, m)!Next]_(T(n, m)!vars)
      PROVE  T(n, m)!StampInv'
  <2>1. CASE T(n, m)!Next
    BY <1>2, <2>1, LivesTyped, CpusKept, StampsKept DEF T!StampInv
  <2>2. CASE UNCHANGED T(n, m)!vars
    BY <1>2, <2>2 DEF T!vars, T!stamps, T!handler, T!StampInv, T!LifeTypes, T!CpusRight,
       T!CpuRight, T!StampsRight, T!Stamped
  <2> QED
    BY <1>2, <2>1, <2>2
<1>3. T(n, m)!StampInv => T(n, m)!EndStamp
  BY DEF T!StampInv, T!StampsRight, T!Stamped, T!EndStamp
<1> QED
  BY <1>1, <1>2, <1>3

\* exit() stamps a process no earlier than allocproc() did, and not in the future, with any
\* number of slots and CPUs.
THEOREM EndStamps ==
  ASSUME NEW n \in Nat, NEW m \in Nat \ {0}
  PROVE  T(n, m)!Spec => []T(n, m)!EndStamp
BY StampInduction, PTL DEF T!Spec

-----------------------------------------------------------------------------
(* WaitxExact of Times, with any number n of slots and one CPU *)

\* The slots are numbered from 1, and there is CPU 0 only.
OneCpuSets(n) ==
  /\ 0 \in T(n, 1)!Cpus /\ \A c \in T(n, 1)!Cpus : c = 0
  /\ T(n, 1)!NoSlot \notin T(n, 1)!Slots /\ T(n, 1)!NoCpu \notin T(n, 1)!Cpus
  /\ \A q \in T(n, 1)!Slots : q \in Nat /\ q > 0 /\ q <= n
  /\ \A q \in Nat : q > 0 /\ q <= n => q \in T(n, 1)!Slots
  /\ T(n, 1)!NotIn \in Int /\ T(n, 1)!NotIn \notin Nat

\* The numbers of Times with one CPU.
LEMMA OneSets ==
  ASSUME NEW n \in Nat
  PROVE  OneCpuSets(n)
BY DEF OneCpuSets, T!Cpus, T!Slots, T!NoSlot, T!NoCpu, T!NotIn

\* Every step keeps to the types of the counters.
LEMMA CountsTyped ==
  ASSUME NEW n \in Nat,
         T(n, 1)!LifeTypes, T(n, 1)!CountTypes, T(n, 1)!CpusRight, T(n, 1)!Next
  PROVE  T(n, 1)!CountTypes'
<1>0. OneCpuSets(n)
  BY OneSets
<1> USE <1>0 DEF OneCpuSets, T!LifeTypes, T!CountTypes, T!CpusRight, T!CpuRight, T!At,
        T!stamps, T!history,
        T!handler
<1>1. ASSUME NEW c \in T(n, 1)!Cpus, NEW p \in T(n, 1)!Slots, T(n, 1)!ProcStep(c, p)
      PROVE  T(n, 1)!CountTypes'
  <2>1. CASE T(n, 1)!AllocProc(c, p)
    BY <2>1 DEF T!AllocProc
  <2>2. CASE T(n, 1)!Ready(c, p)
    BY <2>2 DEF T!Ready
  <2>3. CASE T(n, 1)!SwitchStart(c, p)
    BY <2>3 DEF T!SwitchStart
  <2>4. CASE T(n, 1)!SwitchEnd(c, p)
    BY <2>4 DEF T!SwitchEnd
  <2>5. CASE T(n, 1)!Yield(c, p)
    BY <2>5 DEF T!Yield, T!Leave
  <2>6. CASE T(n, 1)!Sleep(c, p)
    BY <2>6 DEF T!Sleep, T!Leave
  <2>7. CASE T(n, 1)!SbrkStart(c, p)
    BY <2>7 DEF T!SbrkStart
  <2>8. CASE T(n, 1)!SbrkEnd(c, p)
    BY <2>8 DEF T!SbrkEnd
  <2>9. CASE T(n, 1)!ExitStamp(c, p)
    BY <2>9 DEF T!ExitStamp
  <2>10. CASE T(n, 1)!ExitZombie(c, p)
    BY <2>10 DEF T!ExitZombie
  <2>11. CASE T(n, 1)!WaitxTime(c, p)
    BY <2>11 DEF T!WaitxTime
  <2>12. CASE T(n, 1)!WaitxFree(c, p)
    BY <2>12 DEF T!WaitxFree
  <2> HIDE DEF T!LifeTypes, T!CountTypes, T!CpusRight, T!CpuRight, T!At, T!stamps, T!history,
        T!handler
  <2> QED
    BY <1>1, <2>1, <2>2, <2>3, <2>4, <2>5, <2>6, <2>7, <2>8, <2>9, <2>10, <2>11, <2>12, Zenon
       DEF T!ProcStep
<1>2. CASE T(n, 1)!Tick
  BY <1>2 DEF T!Tick
<1>3. CASE T(n, 1)!IncTest
  BY <1>3 DEF T!IncTest, T!Counted
<1>4. CASE T(n, 1)!IncAdd
  BY <1>4 DEF T!IncAdd
<1>5. CASE T(n, 1)!TickEnd
  BY <1>5 DEF T!TickEnd, T!Leave
<1> HIDE DEF T!LifeTypes, T!CountTypes, T!CpusRight, T!CpuRight, T!At, T!stamps, T!history,
        T!handler
<1> QED
  BY <1>1, <1>2, <1>3, <1>4, <1>5, Zenon DEF T!Next

\* Every step keeps the handler and switchuvm() to themselves.
LEMMA HandlerAlone ==
  ASSUME NEW n \in Nat,
         T(n, 1)!LifeTypes, T(n, 1)!CountTypes, T(n, 1)!CpusRight, T(n, 1)!OneCpuRight,
         T(n, 1)!Next
  PROVE  T(n, 1)!OneCpuRight'
<1>0. OneCpuSets(n)
  BY OneSets
<1> USE <1>0 DEF OneCpuSets, T!LifeTypes, T!CountTypes, T!CpusRight, T!CpuRight,
        T!OneCpuRight, T!At,
        T!stamps, T!history, T!handler
<1>1. ASSUME NEW c \in T(n, 1)!Cpus, NEW p \in T(n, 1)!Slots, T(n, 1)!ProcStep(c, p)
      PROVE  T(n, 1)!OneCpuRight'
  <2>1. CASE T(n, 1)!AllocProc(c, p)
    BY <2>1 DEF T!AllocProc
  <2>2. CASE T(n, 1)!Ready(c, p)
    BY <2>2 DEF T!Ready
  <2>3. CASE T(n, 1)!SwitchStart(c, p)
    BY <2>3 DEF T!SwitchStart
  <2>4. CASE T(n, 1)!SwitchEnd(c, p)
    BY <2>4 DEF T!SwitchEnd
  <2>5. CASE T(n, 1)!Yield(c, p)
    BY <2>5 DEF T!Yield, T!Leave
  <2>6. CASE T(n, 1)!Sleep(c, p)
    BY <2>6 DEF T!Sleep, T!Leave
  <2>7. CASE T(n, 1)!SbrkStart(c, p)
    BY <2>7 DEF T!SbrkStart
  <2>8. CASE T(n, 1)!SbrkEnd(c, p)
    BY <2>8 DEF T!SbrkEnd
  <2>9. CASE T(n, 1)!ExitStamp(c, p)
    BY <2>9 DEF T!ExitStamp
  <2>10. CASE T(n, 1)!ExitZombie(c, p)
    BY <2>10 DEF T!ExitZombie
  <2>11. CASE T(n, 1)!WaitxTime(c, p)
    BY <2>11 DEF T!WaitxTime
  <2>12. CASE T(n, 1)!WaitxFree(c, p)
    BY <2>12 DEF T!WaitxFree
  <2> HIDE DEF T!LifeTypes, T!CountTypes, T!CpusRight, T!CpuRight, T!OneCpuRight, T!At,
        T!stamps, T!history, T!handler
  <2> QED
    BY <1>1, <2>1, <2>2, <2>3, <2>4, <2>5, <2>6, <2>7, <2>8, <2>9, <2>10, <2>11, <2>12, Zenon
       DEF T!ProcStep
<1>2. CASE T(n, 1)!Tick
  BY <1>2 DEF T!Tick
<1>3. CASE T(n, 1)!IncTest
  BY <1>3 DEF T!IncTest, T!Counted
<1>4. CASE T(n, 1)!IncAdd
  BY <1>4 DEF T!IncAdd
<1>5. CASE T(n, 1)!TickEnd
  BY <1>5 DEF T!TickEnd, T!Leave
<1> HIDE DEF T!LifeTypes, T!CountTypes, T!CpusRight, T!CpuRight, T!OneCpuRight, T!At,
        T!stamps, T!history, T!handler
<1> QED
  BY <1>1, <1>2, <1>3, <1>4, <1>5, Zenon DEF T!Next

\* Every step counts the ticks of every life.
LEMMA TicksBalanced ==
  ASSUME NEW n \in Nat,
         T(n, 1)!LifeTypes, T(n, 1)!CountTypes, T(n, 1)!CpusRight, T(n, 1)!OneCpuRight,
         T(n, 1)!AllBalanced, T(n, 1)!Next
  PROVE  T(n, 1)!AllBalanced'
<1>0. OneCpuSets(n)
  BY OneSets
<1> USE <1>0 DEF OneCpuSets, T!LifeTypes, T!CountTypes, T!CpusRight, T!CpuRight, T!OneCpuRight,
        T!AllBalanced, T!Balanced, T!Pending, T!At, T!stamps, T!history, T!handler
<1>1. ASSUME NEW c \in T(n, 1)!Cpus, NEW p \in T(n, 1)!Slots, T(n, 1)!ProcStep(c, p)
      PROVE  T(n, 1)!AllBalanced'
  <2>1. CASE T(n, 1)!AllocProc(c, p)
    BY <2>1 DEF T!AllocProc
  <2>2. CASE T(n, 1)!Ready(c, p)
    BY <2>2 DEF T!Ready
  <2>3. CASE T(n, 1)!SwitchStart(c, p)
    BY <2>3 DEF T!SwitchStart
  <2>4. CASE T(n, 1)!SwitchEnd(c, p)
    BY <2>4 DEF T!SwitchEnd
  <2>5. CASE T(n, 1)!Yield(c, p)
    BY <2>5 DEF T!Yield, T!Leave
  <2>6. CASE T(n, 1)!Sleep(c, p)
    BY <2>6 DEF T!Sleep, T!Leave
  <2>7. CASE T(n, 1)!SbrkStart(c, p)
    BY <2>7 DEF T!SbrkStart
  <2>8. CASE T(n, 1)!SbrkEnd(c, p)
    BY <2>8 DEF T!SbrkEnd
  <2>9. CASE T(n, 1)!ExitStamp(c, p)
    BY <2>9 DEF T!ExitStamp
  <2>10. CASE T(n, 1)!ExitZombie(c, p)
    BY <2>10 DEF T!ExitZombie
  <2>11. CASE T(n, 1)!WaitxTime(c, p)
    BY <2>11 DEF T!WaitxTime
  <2>12. CASE T(n, 1)!WaitxFree(c, p)
    BY <2>12 DEF T!WaitxFree
  <2> HIDE DEF T!LifeTypes, T!CountTypes, T!CpusRight, T!CpuRight, T!OneCpuRight,
        T!AllBalanced, T!Balanced, T!Pending, T!At, T!stamps, T!history, T!handler
  <2> QED
    BY <1>1, <2>1, <2>2, <2>3, <2>4, <2>5, <2>6, <2>7, <2>8, <2>9, <2>10, <2>11, <2>12, Zenon
       DEF T!ProcStep
<1>2. CASE T(n, 1)!Tick
  <2> SUFFICES ASSUME NEW q \in T(n, 1)!Slots PROVE T(n, 1)!Balanced(q)'
    BY Zenon
  <2>1. /\ s5' = s5 + 1 /\ s11 = 0 /\ s11' = 1 /\ q > 0
        /\ s14'[q] = IF s1[q] = "RUNNING" THEN s14[q] + 1 ELSE s14[q]
        /\ s15'[q] = IF s1[q] \in {"EMBRYO", "RUNNABLE", "SLEEPING"} THEN s15[q] + 1 ELSE s15[q]
        /\ s16'[q] = IF s10[q] # T(n, 1)!NotIn THEN s16[q] + 1 ELSE s16[q]
        /\ UNCHANGED <<s1, s2, s3, s4, s10>>
    BY <1>2 DEF T!Tick
  <2>2. T(n, 1)!Pending(q)' = T(n, 1)!Pending(q) + (IF s1[q] = "RUNNING" THEN 1 ELSE 0)
                                + (IF s10[q] # T(n, 1)!NotIn THEN 1 ELSE 0)
    BY <2>1
  <2>3. /\ s3[q] \in Int /\ s14[q] \in Int /\ s15[q] \in Int /\ s16[q] \in Int /\ s2[q] \in Int
        /\ s5 \in Int /\ T(n, 1)!Pending(q) \in Int
    OBVIOUS
  <2>4. s1[q] # "UNUSED" => s3[q] + T(n, 1)!Pending(q)' = s14'[q] + s16'[q]
    <3>1. s1[q] # "UNUSED" => s3[q] + T(n, 1)!Pending(q) = s14[q] + s16[q]
      OBVIOUS
    <3> HIDE DEF T!Pending
    <3> QED
      BY <2>1, <2>2, <2>3, <3>1
  <2>5. s1[q] \notin {"UNUSED", "ZOMBIE"} => s14'[q] + s15'[q] = s5' - s2[q]
    BY <2>1, <2>3
  <2> QED
    BY <2>1, <2>4, <2>5
<1>3. CASE T(n, 1)!IncTest
  BY <1>3 DEF T!IncTest, T!Counted
<1>4. CASE T(n, 1)!IncAdd
  <2> SUFFICES ASSUME NEW q \in T(n, 1)!Slots PROVE T(n, 1)!Balanced(q)'
    BY Zenon
  <2>1. /\ s11 \in T(n, 1)!Slots /\ s1[s11] = "RUNNING" /\ s12 = s3[s11] /\ s11' = s11 + 1
        /\ s3' = [s3 EXCEPT ![s11] = s12 + 1]
        /\ UNCHANGED <<s1, s2, s4, s5, s10, s14, s15, s16>>
    BY <1>4 DEF T!IncAdd
  <2>2. /\ s3'[q] = IF q = s11 THEN s3[q] + 1 ELSE s3[q]
        /\ T(n, 1)!Pending(q)' = IF q = s11 THEN T(n, 1)!Pending(q) - 1 ELSE T(n, 1)!Pending(q)
    BY <2>1
  <2> QED
    BY <2>1, <2>2
<1>5. CASE T(n, 1)!TickEnd
  BY <1>5 DEF T!TickEnd, T!Leave
<1> HIDE DEF T!LifeTypes, T!CountTypes, T!CpusRight, T!CpuRight, T!OneCpuRight,
        T!AllBalanced, T!Balanced, T!Pending, T!At, T!stamps, T!history, T!handler
<1> QED
  BY <1>1, <1>2, <1>3, <1>4, <1>5, Zenon DEF T!Next

\* waitx() reports what was counted.
LEMMA ReportKept ==
  ASSUME NEW n \in Nat,
         T(n, 1)!LifeTypes, T(n, 1)!CountTypes, T(n, 1)!CpusRight, T(n, 1)!OneCpuRight,
         T(n, 1)!AllBalanced, T(n, 1)!Reported, T(n, 1)!Next
  PROVE  T(n, 1)!Reported'
<1>0. OneCpuSets(n)
  BY OneSets
<1> USE <1>0 DEF OneCpuSets, T!LifeTypes, T!CountTypes, T!CpusRight, T!CpuRight, T!OneCpuRight,
        T!AllBalanced, T!Balanced, T!Pending, T!Reported, T!WaitxExact, T!At,
        T!stamps, T!history, T!handler
<1>1. ASSUME NEW c \in T(n, 1)!Cpus, NEW p \in T(n, 1)!Slots, T(n, 1)!ProcStep(c, p)
      PROVE  T(n, 1)!Reported'
  <2>1. CASE T(n, 1)!AllocProc(c, p)
    BY <2>1 DEF T!AllocProc
  <2>2. CASE T(n, 1)!Ready(c, p)
    BY <2>2 DEF T!Ready
  <2>3. CASE T(n, 1)!SwitchStart(c, p)
    BY <2>3 DEF T!SwitchStart
  <2>4. CASE T(n, 1)!SwitchEnd(c, p)
    BY <2>4 DEF T!SwitchEnd
  <2>5. CASE T(n, 1)!Yield(c, p)
    BY <2>5 DEF T!Yield, T!Leave
  <2>6. CASE T(n, 1)!Sleep(c, p)
    BY <2>6 DEF T!Sleep, T!Leave
  <2>7. CASE T(n, 1)!SbrkStart(c, p)
    BY <2>7 DEF T!SbrkStart
  <2>8. CASE T(n, 1)!SbrkEnd(c, p)
    BY <2>8 DEF T!SbrkEnd
  <2>9. CASE T(n, 1)!ExitStamp(c, p)
    BY <2>9 DEF T!ExitStamp
  <2>10. CASE T(n, 1)!ExitZombie(c, p)
    BY <2>10 DEF T!ExitZombie
  <2>11. CASE T(n, 1)!WaitxTime(c, p)
    <3>1. /\ s1[p] = "ZOMBIE" /\ s8[c] = "idle" /\ s7' = [s7 EXCEPT ![c] = p]
          /\ s13' = [s13 EXCEPT !.wtime = s4[p] - s2[p] - s3[p]] /\ s8'[0] = "waitx"
          /\ s11 = 0 /\ UNCHANGED <<s1, s3, s10, s14, s15, s16>> /\ c = 0
      BY <2>11 DEF T!WaitxTime, T!NotIn
    <3>2. s3[p] = s14[p] + s16[p] /\ s14[p] + s15[p] = s4[p] - s2[p]
      BY <3>1
    <3>3. s13'.wtime = s15'[p] - s16'[p] /\ s7'[0] = p
      BY <3>1, <3>2
    <3> QED
      BY <3>1, <3>3
  <2>12. CASE T(n, 1)!WaitxFree(c, p)
    BY <2>12 DEF T!WaitxFree
  <2> HIDE DEF T!LifeTypes, T!CountTypes, T!CpusRight, T!CpuRight, T!OneCpuRight,
        T!AllBalanced, T!Balanced, T!Pending, T!Reported, T!WaitxExact, T!At,
        T!stamps, T!history, T!handler
  <2> QED
    BY <1>1, <2>1, <2>2, <2>3, <2>4, <2>5, <2>6, <2>7, <2>8, <2>9, <2>10, <2>11, <2>12, Zenon
       DEF T!ProcStep
<1>2. CASE T(n, 1)!Tick
  BY <1>2 DEF T!Tick
<1>3. CASE T(n, 1)!IncTest
  BY <1>3 DEF T!IncTest, T!Counted
<1>4. CASE T(n, 1)!IncAdd
  BY <1>4 DEF T!IncAdd
<1>5. CASE T(n, 1)!TickEnd
  BY <1>5 DEF T!TickEnd, T!Leave
<1> HIDE DEF T!LifeTypes, T!CountTypes, T!CpusRight, T!CpuRight, T!OneCpuRight,
        T!AllBalanced, T!Balanced, T!Pending, T!Reported, T!WaitxExact, T!At,
        T!stamps, T!history, T!handler
<1> QED
  BY <1>1, <1>2, <1>3, <1>4, <1>5, Zenon DEF T!Next

\* WaitxInv is inductive.
LEMMA WaitxInduction ==
  ASSUME NEW n \in Nat
  PROVE  /\ T(n, 1)!Init => T(n, 1)!WaitxInv
         /\ T(n, 1)!WaitxInv /\ [T(n, 1)!Next]_(T(n, 1)!vars) => T(n, 1)!WaitxInv'
         /\ T(n, 1)!WaitxInv => T(n, 1)!WaitxExact
<1>0. OneCpuSets(n)
  BY OneSets
<1>1. ASSUME T(n, 1)!Init PROVE T(n, 1)!WaitxInv
  <2>1. T(n, 1)!LifeTypes
    BY <1>1, <1>0 DEF OneCpuSets, T!Init, T!LifeTypes
  <2>2. T(n, 1)!CountTypes
    BY <1>1, <1>0 DEF OneCpuSets, T!Init, T!CountTypes
  <2>3. T(n, 1)!CpusRight
    BY <1>1, <1>0 DEF OneCpuSets, T!Init, T!CpusRight, T!CpuRight
  <2>4. T(n, 1)!OneCpuRight
    BY <1>1, <1>0 DEF OneCpuSets, T!Init, T!OneCpuRight
  <2>5. T(n, 1)!AllBalanced
    BY <1>1, <1>0 DEF OneCpuSets, T!Init, T!AllBalanced, T!Balanced
  <2>6. T(n, 1)!Reported
    BY <1>1, <1>0 DEF OneCpuSets, T!Init, T!Reported, T!WaitxExact
  <2> QED
    BY <2>1, <2>2, <2>3, <2>4, <2>5, <2>6 DEF T!WaitxInv
<1>2. ASSUME T(n, 1)!WaitxInv, [T(n, 1)!Next]_(T(n, 1)!vars)
      PROVE  T(n, 1)!WaitxInv'
  <2>1. CASE T(n, 1)!Next
    <3>1. 1 \in Nat \ {0}
      OBVIOUS
    <3>2. T(n, 1)!LifeTypes' /\ T(n, 1)!CpusRight'
      BY <1>2, <2>1, <3>1, LivesTyped, CpusKept DEF T!WaitxInv
    <3> QED
      BY <1>2, <2>1, <3>2, CountsTyped, HandlerAlone, TicksBalanced, ReportKept
         DEF T!WaitxInv
  <2>2. CASE UNCHANGED T(n, 1)!vars
    BY <1>2, <2>2 DEF T!vars, T!stamps, T!handler, T!history, T!WaitxInv, T!LifeTypes,
       T!CountTypes, T!CpusRight, T!CpuRight, T!OneCpuRight, T!AllBalanced,
       T!Balanced, T!Pending, T!Reported, T!WaitxExact
  <2> QED
    BY <1>2, <2>1, <2>2
<1>3. T(n, 1)!WaitxInv => T(n, 1)!WaitxExact
  BY DEF T!WaitxInv, T!Reported
<1> QED
  BY <1>1, <1>2, <1>3

\* With one CPU waitx() reports every tick of a child's life once, and those inside the
\* switchuvm() of growproc() as run time once more, with any number of slots.
THEOREM WaitxCounts ==
  ASSUME NEW n \in Nat
  PROVE  T(n, 1)!Spec => []T(n, 1)!WaitxExact
BY WaitxInduction, PTL DEF T!Spec

\* The invariant of Times in the part that runs.
TimesInv ==
  /\ part = "times1" => T(TickSlots1, 1)!WaitxInv
  /\ part = "times2" => T(TickSlots2, TickCpus2)!StampInv

\* TimesSound of the run, for every value of its constants.
THEOREM TimesAreSound == Spec => []TimesSound
<1>1. Init => TimesInv
  BY PartsAssumption, WaitxInduction, StampInduction DEF Init, TimesInv
<1>2. TimesInv /\ [Next]_vars => TimesInv'
  BY PartsAssumption, PartStays, WaitxInduction, StampInduction DEF TimesInv
<1>3. TimesInv => TimesSound
  BY PartsAssumption, WaitxInduction, StampInduction DEF TimesInv, TimesSound
<1> QED
  BY <1>1, <1>2, <1>3, PTL DEF Spec

-----------------------------------------------------------------------------
(* NoEarlyLeave of Biryani, with any number m of chefs, n of containers and k of *)
(* students                                                                      *)

\* A chef leaves the counter of hungry students and the other threads' places alone.
LEMMA ChefFeeds ==
  ASSUME NEW m, NEW n, NEW k, NEW c \in B(m, n, k)!Chefs, B(m, n, k)!ChefStep(c)
  PROVE  UNCHANGED <<s2, s17, s22>>
BY DEF B!ChefStep, B!ChefStart, B!ChefInit, B!ChefClear, B!ChefHead, B!ChefCook,
       B!ChefDraw, B!ChefReady, B!ChefSize, B!ChefLoad, B!ChefTotal, B!ChefStore, B!ChefOpen,
       B!ChefUnlock, B!ChefServed, B!chefs, B!conts, B!chefLocals, B!contLocals,
       B!contThreads, B!studThreads

\* A container leaves when the counter of hungry students is not positive, and only then.
ContainerFeeds(m, n, k, x) ==
  /\ UNCHANGED <<s2, s22>>
  /\ B(m, n, k)!FeedTypes'
  /\ \A y \in B(m, n, k)!Containers : s17'[y] = "exited" => s17[y] = "exited" \/ s2 <= 0

\* A container changes no seat, and leaves when it has read that nobody is left.
LEMMA ContFeeds ==
  ASSUME NEW m, NEW n, NEW k, NEW x \in B(m, n, k)!Containers, B(m, n, k)!FeedTypes,
         B(m, n, k)!ContStep(x)
  PROVE  ContainerFeeds(m, n, k, x)
<1> USE DEF B!FeedTypes, ContainerFeeds, B!XGoto, B!NextChef, B!chefs, B!conts,
            B!chefLocals, B!chefThreads, B!contLocals, B!contThreads, B!studThreads
<1>1. CASE B(m, n, k)!ContStart(x)
  BY <1>1 DEF B!ContStart
<1>2. CASE B(m, n, k)!ContInit(x)
  BY <1>2 DEF B!ContInit
<1>3. CASE B(m, n, k)!ContHead(x)
  BY <1>3 DEF B!ContHead
<1>4. CASE B(m, n, k)!ContLock(x)
  BY <1>4 DEF B!ContLock
<1>5. CASE B(m, n, k)!ContProbe(x)
  BY <1>5 DEF B!ContProbe
<1>6. CASE B(m, n, k)!ContTake(x)
  BY <1>6 DEF B!ContTake
<1>7. CASE B(m, n, k)!ContVessel(x)
  BY <1>7 DEF B!ContVessel
<1>8. CASE B(m, n, k)!ContDec(x)
  BY <1>8 DEF B!ContDec
<1>9. CASE B(m, n, k)!ContTest(x)
  BY <1>9 DEF B!ContTest
<1>10. CASE B(m, n, k)!ContFree(x)
  BY <1>10 DEF B!ContFree
<1>11. CASE B(m, n, k)!ContMore(x)
  BY <1>11 DEF B!ContMore
<1>12. CASE B(m, n, k)!ContBatch(x)
  BY <1>12 DEF B!ContBatch
<1>13. CASE B(m, n, k)!ContFill(x)
  BY <1>13 DEF B!ContFill
<1>14. CASE B(m, n, k)!ContServe(x)
  BY <1>14 DEF B!ContServe
<1>15. CASE B(m, n, k)!ContOpen(x)
  BY <1>15 DEF B!ContOpen
<1>16. CASE B(m, n, k)!ContReady(x)
  BY <1>16 DEF B!ContReady
<1>17. CASE B(m, n, k)!ContLook(x)
  BY <1>17 DEF B!ContLook
<1>18. CASE B(m, n, k)!ContCount(x)
  BY <1>18 DEF B!ContCount
<1>19. CASE B(m, n, k)!ContEmpty(x)
  BY <1>19 DEF B!ContEmpty
<1> HIDE DEF B!FeedTypes, ContainerFeeds, B!XGoto, B!NextChef, B!chefs, B!conts,
             B!chefLocals, B!chefThreads, B!contLocals, B!contThreads, B!studThreads
<1> QED
  BY <1>1, <1>2, <1>3, <1>4, <1>5, <1>6, <1>7, <1>8, <1>9, <1>10, <1>11, <1>12, <1>13,
     <1>14, <1>15, <1>16, <1>17, <1>18, <1>19, Zenon DEF B!ContStep

\* A student counts itself when it finds a slot, and keeps it.
StudentFeeds(m, n, k, s) ==
  /\ UNCHANGED s17
  /\ B(m, n, k)!FeedTypes'
  /\ \/ s2' = s2 /\ B(m, n, k)!Seated' = B(m, n, k)!Seated
     \/ /\ s2' = s2 - 1 /\ ~ B(m, n, k)!HasSlot(s)
        /\ B(m, n, k)!Seated' = B(m, n, k)!Seated \cup {s}

\* A student takes a seat, and counts it, under the mutex of the students.
LEMMA StudFeeds ==
  ASSUME NEW m, NEW n, NEW k, NEW s \in B(m, n, k)!Students, B(m, n, k)!FeedTypes,
         B(m, n, k)!StudentStep(s)
  PROVE  StudentFeeds(m, n, k, s)
<1> USE DEF B!FeedTypes, StudentFeeds, B!Seated, B!HasSlot, B!SGoto, B!chefs, B!conts,
            B!chefLocals, B!chefThreads, B!contLocals, B!contThreads
<1>1. CASE B(m, n, k)!Arrive(s)
  BY <1>1 DEF B!Arrive
<1>2. CASE B(m, n, k)!StudentLock(s)
  BY <1>2 DEF B!StudentLock
<1>3. CASE B(m, n, k)!StudentFound(s)
  BY <1>3 DEF B!StudentFound
<1>4. CASE B(m, n, k)!StudentNext(s)
  BY <1>4 DEF B!StudentNext
<1>5. CASE B(m, n, k)!StudentLoad(s)
  BY <1>5 DEF B!StudentLoad
<1>6. CASE B(m, n, k)!StudentStore(s)
  BY <1>6 DEF B!StudentStore
<1>7. CASE B(m, n, k)!StudentClose(s)
  BY <1>7 DEF B!StudentClose
<1>8. CASE B(m, n, k)!StudentUnlock(s)
  BY <1>8 DEF B!StudentUnlock
<1>9. CASE B(m, n, k)!StudentEmpty(s)
  BY <1>9 DEF B!StudentEmpty
<1> HIDE DEF B!FeedTypes, StudentFeeds, B!Seated, B!HasSlot, B!SGoto, B!chefs, B!conts,
             B!chefLocals, B!chefThreads, B!contLocals, B!contThreads
<1> QED
  BY <1>1, <1>2, <1>3, <1>4, <1>5, <1>6, <1>7, <1>8, <1>9, Zenon DEF B!StudentStep

\* The students are k, and those with a slot are among them.
LEMMA SeatedFinite ==
  ASSUME NEW m, NEW n, NEW k \in Nat
  PROVE  /\ IsFiniteSet(B(m, n, k)!Students) /\ Cardinality(B(m, n, k)!Students) = k
         /\ IsFiniteSet(B(m, n, k)!Seated) /\ Cardinality(B(m, n, k)!Seated) \in Nat
         /\ Cardinality(B(m, n, k)!Seated) >= k => B(m, n, k)!Seated = B(m, n, k)!Students
<1>1. IsFiniteSet(0 .. k - 1) /\ Cardinality(0 .. k - 1) = k
  BY FS_Interval
<1>2. B(m, n, k)!Seated \in SUBSET B(m, n, k)!Students
  BY DEF B!Seated
<1>3. B(m, n, k)!Students = 0 .. k - 1
  BY DEF B!Students
<1>4. /\ IsFiniteSet(B(m, n, k)!Seated)
      /\ Cardinality(B(m, n, k)!Seated) <= Cardinality(B(m, n, k)!Students)
      /\ Cardinality(B(m, n, k)!Students) = Cardinality(B(m, n, k)!Seated) =>
           B(m, n, k)!Students = B(m, n, k)!Seated
  BY <1>1, <1>2, <1>3, FS_Subset
<1>5. Cardinality(B(m, n, k)!Seated) \in Nat
  BY <1>4, FS_CardinalityType
<1> QED
  BY <1>1, <1>3, <1>4, <1>5

\* Cardinality and IsFiniteSet mean in the instance what they mean here.
LEMMA CardinalitySame ==
  ASSUME NEW m, NEW n, NEW k, NEW S
  PROVE  B(m, n, k)!Cardinality(S) = Cardinality(S)
BY Zenon DEF B!Cardinality, Cardinality

\* ... and the same of finiteness.
LEMMA FiniteSame ==
  ASSUME NEW m, NEW n, NEW k, NEW S
  PROVE  B(m, n, k)!IsFiniteSet(S) <=> IsFiniteSet(S)
BY Zenon DEF B!IsFiniteSet, IsFiniteSet

\* FeedInv is inductive.
LEMMA FeedInduction ==
  ASSUME NEW m \in Nat, NEW n \in Nat, NEW k \in Nat
  PROVE  /\ B(m, n, k)!Init => B(m, n, k)!FeedInv
         /\ B(m, n, k)!FeedInv /\ [B(m, n, k)!Next]_(B(m, n, k)!vars) => B(m, n, k)!FeedInv'
         /\ B(m, n, k)!FeedInv => B(m, n, k)!NoEarlyLeave
<1>1. ASSUME B(m, n, k)!Init PROVE B(m, n, k)!FeedInv
  <2>1. B(m, n, k)!FeedTypes /\ B(m, n, k)!NoEarlyLeave
    BY <1>1 DEF B!Init, B!FeedTypes, B!NoEarlyLeave
  <2>2. B(m, n, k)!Seated = {}
    BY <1>1 DEF B!Init, B!Seated, B!HasSlot
  <2>3. s2 = k - 0
    BY <1>1 DEF B!Init
  <2>4. B(m, n, k)!SeatsCounted
    BY <2>2, <2>3, FS_EmptySet, CardinalitySame, Zenon DEF B!SeatsCounted
  <2> QED
    BY <2>1, <2>4 DEF B!FeedInv
<1>2. ASSUME B(m, n, k)!FeedInv, [B(m, n, k)!Next]_(B(m, n, k)!vars)
      PROVE  B(m, n, k)!FeedInv'
  <2>0. B(m, n, k)!FeedTypes /\ B(m, n, k)!SeatsCounted /\ B(m, n, k)!NoEarlyLeave
    BY <1>2 DEF B!FeedInv
  <2>b. s2 = k - Cardinality(B(m, n, k)!Seated)
    BY <2>0, CardinalitySame, Zenon DEF B!SeatsCounted
  <2>a. ASSUME UNCHANGED <<s2, s17, s22>> PROVE B(m, n, k)!FeedInv'
    <3>1. B(m, n, k)!FeedTypes'
      BY <2>a, <2>0 DEF B!FeedTypes
    <3>2. B(m, n, k)!SeatsCounted'
      BY <2>a, <2>0, Zenon DEF B!SeatsCounted, B!Seated, B!HasSlot
    <3>3. B(m, n, k)!NoEarlyLeave'
      BY <2>a, <2>0 DEF B!HasSlot, B!NoEarlyLeave
    <3> QED
      BY <3>1, <3>2, <3>3 DEF B!FeedInv
  <2>1. ASSUME NEW c \in B(m, n, k)!Chefs, B(m, n, k)!ChefStep(c) PROVE B(m, n, k)!FeedInv'
    BY <2>1, <2>a, ChefFeeds
  <2>2. ASSUME NEW x \in B(m, n, k)!Containers, B(m, n, k)!ContStep(x) PROVE B(m, n, k)!FeedInv'
    <3>1. ContainerFeeds(m, n, k, x)
      BY <2>0, <2>2, ContFeeds
    <3>2. B(m, n, k)!Seated' = B(m, n, k)!Seated
      BY <3>1 DEF ContainerFeeds, B!Seated, B!HasSlot
    <3>3. B(m, n, k)!NoEarlyLeave'
      <4>1. CASE s2 <= 0
        <5>1. Cardinality(B(m, n, k)!Seated) >= k
          BY <2>b, <4>1, SeatedFinite
        <5>2. B(m, n, k)!Seated' = B(m, n, k)!Students
          BY <5>1, <3>2, SeatedFinite
        <5> QED
          BY <5>2 DEF B!NoEarlyLeave, B!Seated
      <4>2. CASE ~ (s2 <= 0)
        BY <2>0, <3>1, <4>2 DEF ContainerFeeds, B!NoEarlyLeave, B!HasSlot
      <4> QED
        BY <4>1, <4>2
    <3>4. B(m, n, k)!FeedTypes' /\ s2' = s2
      BY <3>1 DEF ContainerFeeds
    <3>5. B(m, n, k)!SeatsCounted'
      BY <2>0, <3>2, <3>4, Zenon DEF B!SeatsCounted
    <3> QED
      BY <3>3, <3>4, <3>5 DEF B!FeedInv
  <2>3. ASSUME NEW s \in B(m, n, k)!Students, B(m, n, k)!StudentStep(s) PROVE B(m, n, k)!FeedInv'
    <3>1. StudentFeeds(m, n, k, s)
      BY <2>0, <2>3, StudFeeds
    <3>2. s2' = k - Cardinality(B(m, n, k)!Seated')
      <4>1. CASE s2' = s2 /\ B(m, n, k)!Seated' = B(m, n, k)!Seated
        BY <2>b, <4>1, Zenon
      <4>2. CASE /\ s2' = s2 - 1 /\ ~ B(m, n, k)!HasSlot(s)
                 /\ B(m, n, k)!Seated' = B(m, n, k)!Seated \cup {s}
        <5>1. s \notin B(m, n, k)!Seated
          BY <4>2 DEF B!Seated
        <5>2. Cardinality(B(m, n, k)!Seated \cup {s}) = Cardinality(B(m, n, k)!Seated) + 1
          BY <5>1, SeatedFinite, FS_AddElement
        <5> QED
          BY <2>b, <4>2, <5>2, SeatedFinite
      <4> QED
        BY <3>1, <4>1, <4>2 DEF StudentFeeds
    <3>3. B(m, n, k)!NoEarlyLeave'
      <4>1. \A t \in B(m, n, k)!Students : B(m, n, k)!HasSlot(t) => B(m, n, k)!HasSlot(t)'
        BY <3>1 DEF StudentFeeds, B!Seated
      <4>2. s17' = s17
        BY <3>1 DEF StudentFeeds
      <4> QED
        BY <2>0, <4>1, <4>2 DEF B!NoEarlyLeave
    <3>4. B(m, n, k)!FeedTypes'
      BY <3>1 DEF StudentFeeds
    <3>5. B(m, n, k)!SeatsCounted'
      BY <3>2, CardinalitySame, Zenon DEF B!SeatsCounted
    <3> QED
      BY <3>3, <3>4, <3>5 DEF B!FeedInv
  <2>4. CASE B(m, n, k)!MainReturns
    BY <2>4, <2>a DEF B!MainReturns, B!contThreads, B!studThreads
  <2>5. CASE B(m, n, k)!Ended \/ UNCHANGED B(m, n, k)!vars
    BY <2>5, <2>a DEF B!Ended, B!vars, B!contThreads, B!studThreads
  <2> QED
    BY <1>2, <2>1, <2>2, <2>3, <2>4, <2>5 DEF B!Next
<1>3. B(m, n, k)!FeedInv => B(m, n, k)!NoEarlyLeave
  BY DEF B!FeedInv
<1> QED
  BY <1>1, <1>2, <1>3

\* No container leaves the mess before every student has found a slot, with any number of
\* chefs, containers and students.
THEOREM EverybodySeated ==
  ASSUME NEW m \in Nat, NEW n \in Nat, NEW k \in Nat
  PROVE  B(m, n, k)!Spec => []B(m, n, k)!NoEarlyLeave
BY FeedInduction, PTL DEF B!Spec

-----------------------------------------------------------------------------
(* One container: enough is cooked *)

\* The container is 0; its thread looks at one chef after the other.
LEMMA OneContainer ==
  ASSUME NEW m \in Nat \ {0}, NEW k
  PROVE  /\ 0 \in B(m, 1, k)!Chefs /\ 0 \in B(m, 1, k)!Containers
         /\ \A x \in B(m, 1, k)!Containers : x = 0
BY DEF B!Chefs, B!Containers

\* Where a chef is after one of its steps.
LEMMA ChefAfter ==
  ASSUME NEW m \in Nat \ {0}, NEW k, NEW c \in B(m, 1, k)!Chefs
  PROVE  (c + 1) % m \in B(m, 1, k)!Chefs
<1>1. c \in 0 .. m - 1
  BY DEF B!Chefs
<1>2. (c + 1) % m \in 0 .. m - 1
  BY <1>1
<1> QED
  BY <1>2 DEF B!Chefs

\* A range from 1 to a is in one to b.
Fewer(a, b) == a <= b \/ a <= 0

\* Nothing is added to what is cooked and not subtracted, and no chef gets to its store.
Quiet(m, k) ==
  /\ UNCHANGED <<s1, s25>>
  /\ \A c \in B(m, 1, k)!Chefs :
       /\ Fewer(B(m, 1, k)!Owed(c)', B(m, 1, k)!Owed(c))
       /\ s13'[c] = "store" => s13[c] = "store" /\ s16'[c] = s16[c]

\* What the container's thread does to the pots.
ContPot(m, k) ==
  /\ B(m, 1, k)!CookTypes' /\ B(m, 1, k)!PotsRight' /\ B(m, 1, k)!VesselRight'
  /\ UNCHANGED <<s1, s4, s13, s16, s25>>
  /\ \A c \in B(m, 1, k)!Chefs : s13[c] = "load" => Fewer(s3'[c], s3[c]) /\ s4[c] >= 2

\* A step of the container takes at most a vessel from a pot.
LEMMA ContPots ==
  ASSUME NEW m \in Nat \ {0}, NEW k, B(m, 1, k)!FeedTypes, B(m, 1, k)!CookTypes,
         B(m, 1, k)!PotsRight, B(m, 1, k)!VesselRight,
         B(m, 1, k)!ContStep(0)
  PROVE  ContPot(m, k)
<1>0. 0 \in B(m, 1, k)!Chefs /\ 0 \in B(m, 1, k)!Containers
      /\ \A x \in B(m, 1, k)!Containers : x = 0
  BY OneContainer
<1>n. (s18[0] + 1) % m \in B(m, 1, k)!Chefs
  BY <1>0, ChefAfter DEF B!CookTypes
<1> USE <1>0 DEF B!FeedTypes, B!CookTypes, B!PotsRight, B!PotRight, B!VesselRight, B!Empty,
            B!Visited, ContPot, Fewer, B!XGoto, B!NextChef, B!chefs, B!conts, B!chefLocals,
            B!chefThreads, B!contLocals, B!studThreads
<1>1. CASE B(m, 1, k)!ContStart(0)
  BY <1>1 DEF B!ContStart
<1>2. CASE B(m, 1, k)!ContInit(0)
  BY <1>2 DEF B!ContInit
<1>3. CASE B(m, 1, k)!ContHead(0)
  BY <1>3 DEF B!ContHead
<1>4. CASE B(m, 1, k)!ContLock(0)
  BY <1>4 DEF B!ContLock
<1>5. CASE B(m, 1, k)!ContProbe(0)
  BY <1>5 DEF B!ContProbe
<1>6. CASE B(m, 1, k)!ContTake(0)
  BY <1>6, <1>n DEF B!ContTake
<1>7. CASE B(m, 1, k)!ContVessel(0)
  BY <1>7 DEF B!ContVessel
<1>8. CASE B(m, 1, k)!ContDec(0)
  <2>1. /\ s17[0] = "dec" /\ s17' = [s17 EXCEPT ![0] = "test"]
        /\ s3' = [s3 EXCEPT ![s18[0]] = s19[0] - 1] /\ s19' = [s19 EXCEPT ![0] = 0]
        /\ UNCHANGED <<s1, s4, s5, s13, s14, s15, s16, s18, s25>>
    BY <1>8 DEF B!ContDec
  <2>2. s18[0] \in B(m, 1, k)!Chefs /\ s19[0] \in Int /\ s3[s18[0]] \in Int
    OBVIOUS
  <2>3. s19[0] <= 0 \/ (~ B(m, 1, k)!Empty(s18[0]) /\ s19[0] <= s3[s18[0]])
    BY <2>1
  <2>4. B(m, 1, k)!CookTypes'
    BY <2>1, <2>2
  <2>5. B(m, 1, k)!VesselRight'
    BY <2>1
  <2>6. ASSUME NEW c \in B(m, 1, k)!Chefs PROVE B(m, 1, k)!PotRight(c)'
    <3>1. CASE c = s18[0]
      <4>1. s3'[c] = s19[0] - 1
        BY <2>1, <2>2, <3>1
      <4>2. B(m, 1, k)!Empty(c) => s3'[c] <= 0
        BY <2>2, <2>3, <3>1, <4>1
      <4> QED
        BY <2>1, <3>1, <4>2
    <3>2. CASE c # s18[0]
      BY <2>1, <3>2
    <3> QED
      BY <3>1, <3>2
  <2>7. ASSUME NEW c \in B(m, 1, k)!Chefs, s13[c] = "load" PROVE Fewer(s3'[c], s3[c]) /\ s4[c] >= 2
    <3>1. CASE c = s18[0]
      <4>1. s3'[c] = s19[0] - 1
        BY <2>1, <2>2, <3>1
      <4> QED
        BY <2>1, <2>2, <2>3, <2>7, <3>1, <4>1 DEF Fewer
    <3>2. CASE c # s18[0]
      BY <2>1, <2>7, <3>2 DEF Fewer
    <3> QED
      BY <3>1, <3>2
  <2> QED
    BY <2>1, <2>4, <2>5, <2>6, <2>7
<1>9. CASE B(m, 1, k)!ContTest(0)
  BY <1>9 DEF B!ContTest
<1>10. CASE B(m, 1, k)!ContFree(0)
  BY <1>10 DEF B!ContFree
<1>11. CASE B(m, 1, k)!ContMore(0)
  BY <1>11 DEF B!ContMore
<1>12. CASE B(m, 1, k)!ContBatch(0)
  BY <1>12 DEF B!ContBatch
<1>13. CASE B(m, 1, k)!ContFill(0)
  BY <1>13 DEF B!ContFill
<1>14. CASE B(m, 1, k)!ContServe(0)
  BY <1>14 DEF B!ContServe
<1>15. CASE B(m, 1, k)!ContOpen(0)
  BY <1>15 DEF B!ContOpen
<1>16. CASE B(m, 1, k)!ContReady(0)
  BY <1>16 DEF B!ContReady
<1>17. CASE B(m, 1, k)!ContLook(0)
  BY <1>17, <1>n DEF B!ContLook
<1>18. CASE B(m, 1, k)!ContCount(0)
  BY <1>18 DEF B!ContCount
<1>19. CASE B(m, 1, k)!ContEmpty(0)
  BY <1>19 DEF B!ContEmpty
<1> HIDE DEF B!FeedTypes, B!CookTypes, B!PotsRight, B!PotRight, B!VesselRight, B!Empty,
             B!Visited, ContPot, Fewer, B!XGoto, B!NextChef, B!chefs, B!conts, B!chefLocals,
             B!chefThreads, B!contLocals, B!studThreads
<1> QED
  BY <1>1, <1>2, <1>3, <1>4, <1>5, <1>6, <1>7, <1>8, <1>9, <1>10, <1>11, <1>12, <1>13, <1>14,
     <1>15, <1>16, <1>17, <1>18, <1>19, Zenon
     DEF B!ContStep

\* What chef c does to the pots: nobody but the chef itself fills them.
LEMMA ChefPots ==
  ASSUME NEW m \in Nat \ {0}, NEW k \in Nat, NEW c \in B(m, 1, k)!Chefs,
         B(m, 1, k)!FeedTypes, B(m, 1, k)!CookTypes,
         B(m, 1, k)!PotsRight, B(m, 1, k)!VesselRight, B(m, 1, k)!ChefStep(c)
  PROVE  B(m, 1, k)!CookTypes' /\ B(m, 1, k)!PotsRight' /\ B(m, 1, k)!VesselRight'
<1>0. 0 \in B(m, 1, k)!Chefs /\ 0 \in B(m, 1, k)!Containers /\ k \in Int
  BY OneContainer
<1> USE <1>0 DEF B!FeedTypes, B!CookTypes, B!PotsRight, B!PotRight, B!VesselRight, B!Empty,
            B!Visited, B!CGoto, B!chefs, B!conts, B!chefLocals, B!contLocals, B!contThreads,
            B!studThreads
<1>1. CASE B(m, 1, k)!ChefStart(c)
  BY <1>1 DEF B!ChefStart
<1>2. CASE B(m, 1, k)!ChefInit(c)
  BY <1>2 DEF B!ChefInit
<1>3. CASE B(m, 1, k)!ChefHead(c)
  BY <1>3 DEF B!ChefHead
<1>4. CASE B(m, 1, k)!ChefCook(c)
  BY <1>4 DEF B!ChefCook
<1>5. CASE B(m, 1, k)!ChefReady(c)
  BY <1>5 DEF B!ChefReady
<1>6. CASE B(m, 1, k)!ChefLoad(c)
  <2>1. /\ s13[c] = "load" /\ s13' = [s13 EXCEPT ![c] = "total"]
        /\ s16' = [s16 EXCEPT ![c] = s3[c] * s4[c]]
        /\ UNCHANGED <<s1, s3, s4, s5, s14, s15, s17, s18, s19, s25>>
    BY <1>6 DEF B!ChefLoad
  <2>2. s3[c] * s4[c] \in Int
    OBVIOUS
  <2>3. B(m, 1, k)!CookTypes'
    BY <2>1, <2>2
  <2>4. B(m, 1, k)!PotsRight' /\ B(m, 1, k)!VesselRight'
    BY <2>1
  <2> QED
    BY <2>3, <2>4
<1>7. CASE B(m, 1, k)!ChefStore(c)
  BY <1>7 DEF B!ChefStore
<1>8. CASE B(m, 1, k)!ChefOpen(c)
  BY <1>8 DEF B!ChefOpen
<1>9. CASE B(m, 1, k)!ChefUnlock(c)
  BY <1>9 DEF B!ChefUnlock
<1>10. CASE B(m, 1, k)!ChefServed(c)
  BY <1>10 DEF B!ChefServed
<1>11. CASE B(m, 1, k)!ChefClear(c)
  BY <1>11 DEF B!ChefClear
<1>12. CASE B(m, 1, k)!ChefDraw(c)
  <2>1. \A v \in B(m, 1, k)!RandomBetween(1, 10) : v \in Int /\ v >= 1
    BY DEF B!RandomBetween, B!Abs
  <2>2. \A q \in B(m, 1, k)!RandomBetween(2, B(m, 1, k)!Smaller(10, s1)) : q \in Int /\ q >= 2
    BY DEF B!RandomBetween, B!Smaller, B!Abs
  <2> QED
    BY <1>12, <2>1, <2>2 DEF B!ChefDraw
<1>13. CASE B(m, 1, k)!ChefSize(c)
  <2>1. /\ s13[c] = "size" /\ s13' = [s13 EXCEPT ![c] = "load"]
        /\ s4' = [s4 EXCEPT ![c] = s15[c]]
        /\ s14' = [s14 EXCEPT ![c] = 0] /\ s15' = [s15 EXCEPT ![c] = 0]
        /\ s25' = s25 + s14[c] * s15[c]
        /\ UNCHANGED <<s1, s3, s5, s16, s17, s18, s19>>
    BY <1>13 DEF B!ChefSize
  <2>2. s14[c] * s15[c] \in Int
    OBVIOUS
  <2>3. B(m, 1, k)!CookTypes'
    BY <2>1, <2>2
  <2>4. B(m, 1, k)!PotsRight' /\ B(m, 1, k)!VesselRight'
    BY <2>1
  <2> QED
    BY <2>3, <2>4
<1>14. CASE B(m, 1, k)!ChefTotal(c)
  BY <1>14 DEF B!ChefTotal
<1> HIDE DEF B!FeedTypes, B!CookTypes, B!PotsRight, B!PotRight, B!VesselRight, B!Empty,
             B!Visited, B!CGoto, B!chefs, B!conts, B!chefLocals, B!contLocals, B!contThreads,
             B!studThreads
<1> QED
  BY <1>1, <1>2, <1>3, <1>4, <1>5, <1>6, <1>7, <1>8, <1>9, <1>10, <1>11, <1>12, <1>13,
     <1>14, Zenon
     DEF B!ChefStep

\* An element of Owing is a portion that a chef has cooked and not yet subtracted.
LEMMA OwingElements ==
  ASSUME NEW m \in Nat \ {0}, NEW k \in Nat, NEW z
  PROVE  /\ z \in B(m, 1, k)!Owing <=>
              \E c \in B(m, 1, k)!Chefs : z \in {c} \X (1 .. B(m, 1, k)!Owed(c))
         /\ z \in (B(m, 1, k)!Owing)' <=>
              \E c \in B(m, 1, k)!Chefs : z \in {c} \X (1 .. B(m, 1, k)!Owed(c)')
<1>1. z \in B(m, 1, k)!Owing <=>
        \E c \in B(m, 1, k)!Chefs : z \in {c} \X (1 .. B(m, 1, k)!Owed(c))
  BY Zenon DEF B!Owing
<1>2. z \in (B(m, 1, k)!Owing)' <=>
        \E c \in B(m, 1, k)!Chefs : z \in {c} \X (1 .. B(m, 1, k)!Owed(c)')
  BY Zenon DEF B!Owing, B!Chefs
<1> QED
  BY <1>1, <1>2

\* What a chef owes is a number.
LEMMA OwedNumber ==
  ASSUME NEW m \in Nat \ {0}, NEW k \in Nat, NEW c \in B(m, 1, k)!Chefs
  PROVE  /\ B(m, 1, k)!CookTypes => B(m, 1, k)!Owed(c) \in Int
         /\ B(m, 1, k)!CookTypes' => B(m, 1, k)!Owed(c)' \in Int
<1>1. ASSUME B(m, 1, k)!CookTypes PROVE B(m, 1, k)!Owed(c) \in Int
  <2>1. s3[c] \in Int /\ s4[c] \in Int /\ s16[c] \in Int
    BY <1>1 DEF B!CookTypes
  <2>2. s3[c] * s4[c] \in Int
    BY <2>1
  <2> QED
    BY <2>1, <2>2 DEF B!Owed
<1>2. ASSUME B(m, 1, k)!CookTypes' PROVE B(m, 1, k)!Owed(c)' \in Int
  <2>1. s3'[c] \in Int /\ s4'[c] \in Int /\ s16'[c] \in Int
    BY <1>2 DEF B!CookTypes, B!Chefs
  <2>2. s3'[c] * s4'[c] \in Int
    BY <2>1
  <2> QED
    BY <2>1, <2>2 DEF B!Owed
<1> QED
  BY <1>1, <1>2

\* As many portions as two numbers multiplied.
LEMMA PortionCount ==
  ASSUME NEW c, NEW a \in Int
  PROVE  /\ IsFiniteSet({c} \X (1 .. a)) /\ Cardinality({c} \X (1 .. a)) \in Nat
         /\ Cardinality({c} \X (1 .. a)) >= a
         /\ a >= 0 => Cardinality({c} \X (1 .. a)) = a
<1>1. IsFiniteSet(1 .. a) /\ Cardinality(1 .. a) = IF 1 > a THEN 0 ELSE a - 1 + 1
  BY FS_Interval
<1>2. IsFiniteSet({c}) /\ Cardinality({c}) = 1
  BY FS_Singleton
<1>3. /\ IsFiniteSet({c} \X (1 .. a))
      /\ Cardinality({c} \X (1 .. a)) = Cardinality({c}) * Cardinality(1 .. a)
  BY <1>1, <1>2, FS_Product
<1>4. Cardinality({c} \X (1 .. a)) = IF 1 > a THEN 0 ELSE a
  BY <1>1, <1>2, <1>3
<1> QED
  BY <1>3, <1>4

\* Accounts, in the words of this module.
Due(m, k) == k - s25 + Cardinality(B(m, 1, k)!Owing)

Settled(m, k) ==
  /\ IsFiniteSet(B(m, 1, k)!Owing)
  /\ s1 >= Due(m, k)
  /\ \A c \in B(m, 1, k)!Chefs : s13[c] = "store" => s16[c] >= Due(m, k)

\* Settled is Accounts, now and after a step.
LEMMA SettledMeans ==
  ASSUME NEW m \in Nat \ {0}, NEW k \in Nat
  PROVE  (B(m, 1, k)!Accounts <=> Settled(m, k)) /\ (B(m, 1, k)!Accounts' <=> Settled(m, k)')
<1>1. /\ B(m, 1, k)!Unserved = Due(m, k)
      /\ B(m, 1, k)!Unserved' = Due(m, k)'
  BY CardinalitySame, Zenon DEF B!Unserved, Due
<1>2. /\ B(m, 1, k)!IsFiniteSet(B(m, 1, k)!Owing) <=> IsFiniteSet(B(m, 1, k)!Owing)
      /\ B(m, 1, k)!IsFiniteSet(B(m, 1, k)!Owing') <=> IsFiniteSet(B(m, 1, k)!Owing')
  BY FiniteSame, Zenon
<1> QED
  BY <1>1, <1>2, Zenon DEF B!Accounts, Settled

\* A step that leaves the sums alone and takes portions away.
LEMMA QuietSettled ==
  ASSUME NEW m \in Nat \ {0}, NEW k \in Nat, B(m, 1, k)!CookTypes, B(m, 1, k)!CookTypes',
         Quiet(m, k),
         Settled(m, k)
  PROVE  Settled(m, k)'
<1>0. s25 \in Int /\ s1 \in Int /\ s1' = s1 /\ s25' = s25
  BY DEF B!CookTypes, Quiet
<1>1. ASSUME NEW z \in B(m, 1, k)!Owing' PROVE z \in B(m, 1, k)!Owing
  <2>1. PICK c \in B(m, 1, k)!Chefs : z \in {c} \X (1 .. B(m, 1, k)!Owed(c)')
    BY <1>1, OwingElements
  <2>2. Fewer(B(m, 1, k)!Owed(c)', B(m, 1, k)!Owed(c))
    BY DEF Quiet
  <2>3. PICK a \in Int, b \in Int : a = B(m, 1, k)!Owed(c)' /\ b = B(m, 1, k)!Owed(c)
    BY OwedNumber
  <2>4. z \in {c} \X (1 .. b)
    BY <2>1, <2>2, <2>3 DEF Fewer
  <2> QED
    BY <2>3, <2>4, OwingElements
<1>2. IsFiniteSet(B(m, 1, k)!Owing)
  BY DEF Settled
<1>3. /\ IsFiniteSet(B(m, 1, k)!Owing')
      /\ Cardinality(B(m, 1, k)!Owing') <= Cardinality(B(m, 1, k)!Owing)
  BY <1>1, <1>2, FS_Subset
<1>4. Cardinality(B(m, 1, k)!Owing') \in Nat /\ Cardinality(B(m, 1, k)!Owing) \in Nat
  BY <1>2, <1>3, FS_CardinalityType
<1>5. Due(m, k) \in Int /\ Due(m, k)' \in Int /\ Due(m, k)' <= Due(m, k)
  BY <1>0, <1>3, <1>4 DEF Due
<1>6. ASSUME NEW c \in B(m, 1, k)!Chefs, s13'[c] = "store" PROVE s16'[c] >= Due(m, k)'
  <2>1. s13[c] = "store" /\ s16'[c] = s16[c]
    BY <1>6 DEF Quiet
  <2>2. s16[c] \in Int /\ s16[c] >= Due(m, k)
    BY <2>1 DEF B!CookTypes, Settled
  <2> QED
    BY <1>5, <2>1, <2>2
<1>7. s1' >= Due(m, k)'
  BY <1>0, <1>5 DEF Settled
<1> QED
  BY <1>3, <1>6, <1>7 DEF Settled, B!Chefs

\* What a chef shows as cooked is added on both sides.
LEMMA SizeSettled ==
  ASSUME NEW m \in Nat \ {0}, NEW k \in Nat, NEW c \in B(m, 1, k)!Chefs,
         B(m, 1, k)!CookTypes, B(m, 1, k)!PotsRight,
         B(m, 1, k)!ChefSize(c), Settled(m, k)
  PROVE  Settled(m, k)' /\ s25' >= s25
<1>1. /\ s13[c] = "size" /\ s13' = [s13 EXCEPT ![c] = "load"]
      /\ s4' = [s4 EXCEPT ![c] = s15[c]]
      /\ s25' = s25 + s14[c] * s15[c]
      /\ s1' = s1 /\ s3' = s3 /\ s16' = s16
  BY DEF B!ChefSize, B!CGoto, B!conts, B!contThreads, B!studThreads
<1>2. /\ s14[c] \in Int /\ s15[c] \in Int /\ s14[c] >= 1 /\ s15[c] >= 2
      /\ s3[c] \in Int /\ s3[c] <= s14[c]
      /\ s1 \in Int /\ s25 \in Int
  BY <1>1 DEF B!CookTypes, B!PotsRight, B!PotRight
<1>3. PICK a \in Nat : a = s14[c] * s15[c]
  BY <1>2
<1>4. PICK P : P = {c} \X (1 .. a)
  OBVIOUS
<1>5. IsFiniteSet(P) /\ Cardinality(P) = a
  <2>1. a \in Int /\ a >= 0
    BY <1>3
  <2>2. IsFiniteSet({c} \X (1 .. a)) /\ Cardinality({c} \X (1 .. a)) = a
    BY <2>1, PortionCount
  <2> QED
    BY <1>4, <2>2
<1>6. ASSUME NEW z \in B(m, 1, k)!Owing' PROVE z \in B(m, 1, k)!Owing \cup P
  <2>1. PICK d \in B(m, 1, k)!Chefs : z \in {d} \X (1 .. B(m, 1, k)!Owed(d)')
    BY <1>6, OwingElements
  <2>2. CASE d = c
    <3>1. B(m, 1, k)!Owed(d)' = s3[c] * s15[c]
      BY <1>1, <2>2 DEF B!CookTypes, B!Owed
    <3>2. \A u, v, w \in Int : w >= 2 /\ u <= v => u * w <= v * w
      OBVIOUS
    <3>3. s3[c] * s15[c] <= s14[c] * s15[c]
      BY <1>2, <3>2
    <3>4. PICK b \in Int : b = s3[c] * s15[c] /\ b <= a
      BY <1>2, <1>3, <3>3
    <3>5. z \in {c} \X (1 .. b)
      BY <2>1, <2>2, <3>1, <3>4
    <3> QED
      BY <1>4, <3>4, <3>5
  <2>3. CASE d # c
    <3>1. B(m, 1, k)!Owed(d)' = B(m, 1, k)!Owed(d)
      BY <1>1, <2>3 DEF B!CookTypes, B!Owed
    <3> QED
      BY <2>1, <3>1, OwingElements
  <2> QED
    BY <2>2, <2>3
<1>7. IsFiniteSet(B(m, 1, k)!Owing) /\ Cardinality(B(m, 1, k)!Owing) \in Nat
  BY FS_CardinalityType DEF Settled
<1>8. PICK R : R = B(m, 1, k)!Owing
  OBVIOUS
<1>9. /\ IsFiniteSet(R \cup P)
      /\ Cardinality(R \cup P) = Cardinality(R) + Cardinality(P) - Cardinality(R \cap P)
  BY <1>5, <1>7, <1>8, FS_Union
<1>10. Cardinality(R \cap P) \in Nat
  BY <1>5, FS_Subset, FS_CardinalityType
<1>11. IsFiniteSet(B(m, 1, k)!Owing') /\ Cardinality(B(m, 1, k)!Owing') <= Cardinality(R \cup P)
  BY <1>6, <1>8, <1>9, FS_Subset
<1>12. Cardinality(B(m, 1, k)!Owing') \in Nat /\ Cardinality(R \cup P) \in Nat
  BY <1>9, <1>11, FS_CardinalityType
<1>13. Cardinality(B(m, 1, k)!Owing') <= Cardinality(B(m, 1, k)!Owing) + a
  BY <1>3, <1>5, <1>7, <1>8, <1>9, <1>10, <1>11, <1>12
<1>14. s25' = s25 + a
  BY <1>1, <1>3
<1>15. Due(m, k) \in Int /\ Due(m, k)' \in Int /\ Due(m, k)' <= Due(m, k)
  BY <1>2, <1>7, <1>12, <1>13, <1>14 DEF Due
<1>16. ASSUME NEW d \in B(m, 1, k)!Chefs, s13'[d] = "store" PROVE s16'[d] >= Due(m, k)'
  <2>1. s13[d] = "store" /\ s16'[d] = s16[d]
    BY <1>1, <1>16 DEF B!CookTypes
  <2>2. s16[d] \in Int /\ s16[d] >= Due(m, k)
    BY <2>1 DEF B!CookTypes, Settled
  <2> QED
    BY <1>15, <2>1, <2>2
<1>17. s1' >= Due(m, k)'
  BY <1>1, <1>2, <1>15 DEF Settled
<1> QED
  BY <1>2, <1>11, <1>14, <1>16, <1>17 DEF Settled, B!Chefs

\* What a chef subtracts was owing, and is no more.
LEMMA TotalSettled ==
  ASSUME NEW m \in Nat \ {0}, NEW k \in Nat, NEW c \in B(m, 1, k)!Chefs, B(m, 1, k)!CookTypes,
         B(m, 1, k)!ChefTotal(c), Settled(m, k)
  PROVE  Settled(m, k)' /\ s25' >= s25
<1>1. /\ s13[c] = "total" /\ s13' = [s13 EXCEPT ![c] = "store"]
      /\ s16' = [s16 EXCEPT ![c] = s1 - s16[c]]
      /\ s1' = s1 /\ s3' = s3 /\ s4' = s4 /\ s25' = s25
  BY DEF B!ChefTotal, B!CGoto, B!chefs, B!contThreads, B!studThreads
<1>2. s1 \in Int /\ s25 \in Int
  BY DEF B!CookTypes
<1>3. PICK a \in Int : a = s16[c] /\ a = B(m, 1, k)!Owed(c)
  BY <1>1 DEF B!CookTypes, B!Owed
<1>4. PICK P : P = {c} \X (1 .. a)
  OBVIOUS
<1>5. IsFiniteSet(P) /\ Cardinality(P) \in Nat /\ Cardinality(P) >= a
  <2>1. /\ IsFiniteSet({c} \X (1 .. a)) /\ Cardinality({c} \X (1 .. a)) \in Nat
        /\ Cardinality({c} \X (1 .. a)) >= a
    BY PortionCount
  <2> QED
    BY <1>4, <2>1
<1>6. ASSUME NEW z \in B(m, 1, k)!Owing' PROVE z \in B(m, 1, k)!Owing /\ z \notin P
  <2>1. PICK d \in B(m, 1, k)!Chefs : z \in {d} \X (1 .. B(m, 1, k)!Owed(d)')
    BY <1>6, OwingElements
  <2>2. d # c /\ B(m, 1, k)!Owed(d)' = B(m, 1, k)!Owed(d)
    <3>1. B(m, 1, k)!Owed(c)' = 0
      BY <1>1 DEF B!CookTypes, B!Owed
    <3>2. d # c
      BY <2>1, <3>1
    <3> QED
      BY <1>1, <3>2 DEF B!CookTypes, B!Owed
  <2>3. z \in B(m, 1, k)!Owing
    BY <2>1, <2>2, OwingElements
  <2>4. z \notin P
    BY <1>4, <2>1, <2>2
  <2> QED
    BY <2>3, <2>4
<1>7. ASSUME NEW z \in P PROVE z \in B(m, 1, k)!Owing
  BY <1>3, <1>4, <1>7, OwingElements
<1>8. IsFiniteSet(B(m, 1, k)!Owing) /\ Cardinality(B(m, 1, k)!Owing) \in Nat
  BY FS_CardinalityType DEF Settled
<1>9. IsFiniteSet(B(m, 1, k)!Owing')
  BY <1>6, <1>8, FS_Subset
<1>10. Cardinality(B(m, 1, k)!Owing') \in Nat
  BY <1>9, FS_CardinalityType
<1>11. PICK R : R = B(m, 1, k)!Owing'
  OBVIOUS
<1>12. /\ IsFiniteSet(R \cup P)
       /\ Cardinality(R \cup P) = Cardinality(R) + Cardinality(P) - Cardinality(R \cap P)
  BY <1>5, <1>9, <1>11, FS_Union
<1>13. R \cap P = {}
  BY <1>6, <1>11
<1>14. Cardinality(R \cup P) = Cardinality(R) + Cardinality(P)
  BY <1>5, <1>10, <1>11, <1>12, <1>13, FS_EmptySet
<1>15. R \cup P \subseteq B(m, 1, k)!Owing
  BY <1>6, <1>7, <1>11
<1>16. Cardinality(R \cup P) <= Cardinality(B(m, 1, k)!Owing)
  BY <1>8, <1>15, FS_Subset
<1>17. Cardinality(B(m, 1, k)!Owing') + Cardinality(P) <= Cardinality(B(m, 1, k)!Owing)
  BY <1>11, <1>14, <1>16
<1>18. /\ Due(m, k) \in Int /\ Due(m, k)' \in Int
       /\ Due(m, k)' <= Due(m, k) /\ Due(m, k)' <= Due(m, k) - a
  BY <1>1, <1>2, <1>5, <1>8, <1>10, <1>17 DEF Due
<1>19. s1 >= Due(m, k)
  BY DEF Settled
<1>20. ASSUME NEW d \in B(m, 1, k)!Chefs, s13'[d] = "store" PROVE s16'[d] >= Due(m, k)'
  <2>1. CASE d = c
    <3>1. s16'[d] = s1 - a
      BY <1>1, <1>3, <2>1 DEF B!CookTypes
    <3> QED
      BY <1>2, <1>18, <1>19, <3>1
  <2>2. CASE d # c
    <3>1. s13[d] = "store" /\ s16'[d] = s16[d]
      BY <1>1, <1>20, <2>2 DEF B!CookTypes
    <3>2. s16[d] \in Int /\ s16[d] >= Due(m, k)
      BY <3>1 DEF B!CookTypes, Settled
    <3> QED
      BY <1>18, <3>1, <3>2
  <2> QED
    BY <2>1, <2>2
<1>21. s1' >= Due(m, k)'
  BY <1>1, <1>2, <1>18, <1>19
<1> QED
  BY <1>1, <1>2, <1>9, <1>20, <1>21 DEF Settled, B!Chefs

\* The store may undo what another chef has subtracted, and nothing else.
LEMMA StoreSettled ==
  ASSUME NEW m \in Nat \ {0}, NEW k \in Nat, NEW c \in B(m, 1, k)!Chefs, B(m, 1, k)!CookTypes,
         B(m, 1, k)!ChefStore(c), Settled(m, k)
  PROVE  Settled(m, k)' /\ s25' >= s25
<1>1. /\ s13[c] = "store" /\ s13' = [s13 EXCEPT ![c] = "open"]
      /\ s16' = [s16 EXCEPT ![c] = 0]
      /\ s1' = s16[c] /\ s3' = s3 /\ s4' = s4 /\ s25' = s25
  BY DEF B!ChefStore, B!CGoto, B!chefs, B!contThreads, B!studThreads
<1>2. s1 \in Int /\ s25 \in Int
  BY DEF B!CookTypes
<1>3. ASSUME NEW z PROVE z \in B(m, 1, k)!Owing <=> z \in B(m, 1, k)!Owing'
  <2>1. \A d \in B(m, 1, k)!Chefs : B(m, 1, k)!Owed(d)' = B(m, 1, k)!Owed(d)
    BY <1>1 DEF B!CookTypes, B!Owed
  <2> QED
    BY <2>1, OwingElements, Zenon
<1>4. B(m, 1, k)!Owing' = B(m, 1, k)!Owing
  BY <1>3
<1>5. Due(m, k)' = Due(m, k)
  BY <1>1, <1>4 DEF Due
<1>6. ASSUME NEW d \in B(m, 1, k)!Chefs, s13'[d] = "store" PROVE s16'[d] >= Due(m, k)'
  <2>1. s13[d] = "store" /\ s16'[d] = s16[d]
    BY <1>1, <1>6 DEF B!CookTypes
  <2> QED
    BY <1>5, <2>1 DEF Settled
<1>7. s1' >= Due(m, k)'
  BY <1>1, <1>5 DEF Settled
<1>8. IsFiniteSet(B(m, 1, k)!Owing')
  BY <1>4 DEF Settled
<1> QED
  BY <1>1, <1>2, <1>6, <1>7, <1>8 DEF Settled, B!Chefs

\* What a step owes at most as much as before; and a chef leaves when nobody is to be served.
CookStep(m, k) ==
  /\ Settled(m, k)'
  /\ s25' >= s25
  /\ \A c \in B(m, 1, k)!Chefs : s13'[c] = "exited" => s13[c] = "exited" \/ s1 <= 0

\* The other steps of a chef are quiet.
LEMMA ChefSettled ==
  ASSUME NEW m \in Nat \ {0}, NEW k \in Nat, NEW c \in B(m, 1, k)!Chefs,
         B(m, 1, k)!FeedTypes, B(m, 1, k)!CookTypes,
         B(m, 1, k)!PotsRight, B(m, 1, k)!VesselRight, B(m, 1, k)!ChefStep(c), Settled(m, k)
  PROVE  CookStep(m, k)
<1>1. B(m, 1, k)!CookTypes'
  BY ChefPots
<1>2. s25 \in Int
  BY DEF B!CookTypes
<1>3. ASSUME UNCHANGED <<s1, s25>>,
             \A d \in B(m, 1, k)!Chefs : B(m, 1, k)!Owed(d)' = B(m, 1, k)!Owed(d),
             \A d \in B(m, 1, k)!Chefs : s13'[d] = "store" => s13[d] = "store" /\ s16'[d] = s16[d]
      PROVE  Settled(m, k)' /\ s25' >= s25
  <2>1. ASSUME NEW d \in B(m, 1, k)!Chefs
        PROVE  Fewer(B(m, 1, k)!Owed(d)', B(m, 1, k)!Owed(d))
    BY <1>3, OwedNumber DEF Fewer
  <2>2. Quiet(m, k)
    BY <1>3, <2>1 DEF Quiet
  <2> QED
    BY <1>1, <1>2, <1>3, <2>2, QuietSettled
<1>4. CASE B(m, 1, k)!ChefSize(c)
  <2>1. \A d \in B(m, 1, k)!Chefs : s13'[d] = "exited" => s13[d] = "exited"
    BY <1>4 DEF B!ChefSize, B!CGoto, B!CookTypes
  <2> QED
    BY <1>4, <2>1, SizeSettled DEF CookStep
<1>5. CASE B(m, 1, k)!ChefTotal(c)
  <2>1. \A d \in B(m, 1, k)!Chefs : s13'[d] = "exited" => s13[d] = "exited"
    BY <1>5 DEF B!ChefTotal, B!CGoto, B!CookTypes
  <2> QED
    BY <1>5, <2>1, TotalSettled DEF CookStep
<1>6. CASE B(m, 1, k)!ChefStore(c)
  <2>1. \A d \in B(m, 1, k)!Chefs : s13'[d] = "exited" => s13[d] = "exited"
    BY <1>6 DEF B!ChefStore, B!CGoto, B!CookTypes
  <2> QED
    BY <1>6, <2>1, StoreSettled DEF CookStep
<1>7. CASE B(m, 1, k)!ChefStart(c)
  <2> USE <1>7 DEF B!ChefStart, B!CGoto, B!CookTypes, B!chefs, B!conts, B!chefLocals,
                  B!contThreads, B!studThreads
  <2>1. \A d \in B(m, 1, k)!Chefs : B(m, 1, k)!Owed(d)' = B(m, 1, k)!Owed(d)
    BY DEF B!Owed
  <2>2. \A d \in B(m, 1, k)!Chefs : s13'[d] = "store" => s13[d] = "store" /\ s16'[d] = s16[d]
    OBVIOUS
  <2>3. \A d \in B(m, 1, k)!Chefs : s13'[d] = "exited" => s13[d] = "exited" \/ s1 <= 0
    OBVIOUS
  <2> QED
    BY <1>3, <2>1, <2>2, <2>3 DEF CookStep
<1>8. CASE B(m, 1, k)!ChefInit(c)
  <2> USE <1>8 DEF B!ChefInit, B!CGoto, B!CookTypes, B!chefs, B!conts, B!chefLocals,
                  B!contThreads, B!studThreads
  <2>1. \A d \in B(m, 1, k)!Chefs : B(m, 1, k)!Owed(d)' = B(m, 1, k)!Owed(d)
    BY DEF B!Owed
  <2>2. \A d \in B(m, 1, k)!Chefs : s13'[d] = "store" => s13[d] = "store" /\ s16'[d] = s16[d]
    OBVIOUS
  <2>3. \A d \in B(m, 1, k)!Chefs : s13'[d] = "exited" => s13[d] = "exited" \/ s1 <= 0
    OBVIOUS
  <2> QED
    BY <1>3, <2>1, <2>2, <2>3 DEF CookStep
<1>9. CASE B(m, 1, k)!ChefClear(c)
  <2> USE <1>9 DEF B!ChefClear, B!CGoto, B!CookTypes, B!chefs, B!conts, B!chefLocals,
                  B!contThreads, B!studThreads
  <2>1. \A d \in B(m, 1, k)!Chefs : B(m, 1, k)!Owed(d)' = B(m, 1, k)!Owed(d)
    BY DEF B!Owed
  <2>2. \A d \in B(m, 1, k)!Chefs : s13'[d] = "store" => s13[d] = "store" /\ s16'[d] = s16[d]
    OBVIOUS
  <2>3. \A d \in B(m, 1, k)!Chefs : s13'[d] = "exited" => s13[d] = "exited" \/ s1 <= 0
    OBVIOUS
  <2> QED
    BY <1>3, <2>1, <2>2, <2>3 DEF CookStep
<1>10. CASE B(m, 1, k)!ChefHead(c)
  <2> USE <1>10 DEF B!ChefHead, B!CGoto, B!CookTypes, B!chefs, B!conts, B!chefLocals,
                  B!contThreads, B!studThreads
  <2>1. \A d \in B(m, 1, k)!Chefs : B(m, 1, k)!Owed(d)' = B(m, 1, k)!Owed(d)
    BY DEF B!Owed
  <2>2. \A d \in B(m, 1, k)!Chefs : s13'[d] = "store" => s13[d] = "store" /\ s16'[d] = s16[d]
    OBVIOUS
  <2>3. \A d \in B(m, 1, k)!Chefs : s13'[d] = "exited" => s13[d] = "exited" \/ s1 <= 0
    OBVIOUS
  <2> QED
    BY <1>3, <2>1, <2>2, <2>3 DEF CookStep
<1>11. CASE B(m, 1, k)!ChefCook(c)
  <2> USE <1>11 DEF B!ChefCook, B!CGoto, B!CookTypes, B!chefs, B!conts, B!chefLocals,
                  B!contThreads, B!studThreads
  <2>1. \A d \in B(m, 1, k)!Chefs : B(m, 1, k)!Owed(d)' = B(m, 1, k)!Owed(d)
    BY DEF B!Owed
  <2>2. \A d \in B(m, 1, k)!Chefs : s13'[d] = "store" => s13[d] = "store" /\ s16'[d] = s16[d]
    OBVIOUS
  <2>3. \A d \in B(m, 1, k)!Chefs : s13'[d] = "exited" => s13[d] = "exited" \/ s1 <= 0
    OBVIOUS
  <2> QED
    BY <1>3, <2>1, <2>2, <2>3 DEF CookStep
<1>12. CASE B(m, 1, k)!ChefDraw(c)
  <2> USE <1>12 DEF B!ChefDraw, B!CGoto, B!CookTypes, B!chefs, B!conts, B!chefLocals,
                  B!contThreads, B!studThreads
  <2>1. \A d \in B(m, 1, k)!Chefs : B(m, 1, k)!Owed(d)' = B(m, 1, k)!Owed(d)
    BY DEF B!Owed
  <2>2. \A d \in B(m, 1, k)!Chefs : s13'[d] = "store" => s13[d] = "store" /\ s16'[d] = s16[d]
    OBVIOUS
  <2>3. \A d \in B(m, 1, k)!Chefs : s13'[d] = "exited" => s13[d] = "exited" \/ s1 <= 0
    OBVIOUS
  <2> QED
    BY <1>3, <2>1, <2>2, <2>3 DEF CookStep
<1>13. CASE B(m, 1, k)!ChefReady(c)
  <2> USE <1>13 DEF B!ChefReady, B!CGoto, B!CookTypes, B!chefs, B!conts, B!chefLocals,
                  B!contThreads, B!studThreads
  <2>1. \A d \in B(m, 1, k)!Chefs : B(m, 1, k)!Owed(d)' = B(m, 1, k)!Owed(d)
    BY DEF B!Owed
  <2>2. \A d \in B(m, 1, k)!Chefs : s13'[d] = "store" => s13[d] = "store" /\ s16'[d] = s16[d]
    OBVIOUS
  <2>3. \A d \in B(m, 1, k)!Chefs : s13'[d] = "exited" => s13[d] = "exited" \/ s1 <= 0
    OBVIOUS
  <2> QED
    BY <1>3, <2>1, <2>2, <2>3 DEF CookStep
<1>14. CASE B(m, 1, k)!ChefLoad(c)
  <2> USE <1>14 DEF B!ChefLoad, B!CGoto, B!CookTypes, B!chefs, B!conts, B!chefLocals,
                  B!contThreads, B!studThreads
  <2>1. \A d \in B(m, 1, k)!Chefs : B(m, 1, k)!Owed(d)' = B(m, 1, k)!Owed(d)
    BY DEF B!Owed
  <2>2. \A d \in B(m, 1, k)!Chefs : s13'[d] = "store" => s13[d] = "store" /\ s16'[d] = s16[d]
    OBVIOUS
  <2>3. \A d \in B(m, 1, k)!Chefs : s13'[d] = "exited" => s13[d] = "exited" \/ s1 <= 0
    OBVIOUS
  <2> QED
    BY <1>3, <2>1, <2>2, <2>3 DEF CookStep
<1>15. CASE B(m, 1, k)!ChefOpen(c)
  <2> USE <1>15 DEF B!ChefOpen, B!CGoto, B!CookTypes, B!chefs, B!conts, B!chefLocals,
                  B!contThreads, B!studThreads
  <2>1. \A d \in B(m, 1, k)!Chefs : B(m, 1, k)!Owed(d)' = B(m, 1, k)!Owed(d)
    BY DEF B!Owed
  <2>2. \A d \in B(m, 1, k)!Chefs : s13'[d] = "store" => s13[d] = "store" /\ s16'[d] = s16[d]
    OBVIOUS
  <2>3. \A d \in B(m, 1, k)!Chefs : s13'[d] = "exited" => s13[d] = "exited" \/ s1 <= 0
    OBVIOUS
  <2> QED
    BY <1>3, <2>1, <2>2, <2>3 DEF CookStep
<1>16. CASE B(m, 1, k)!ChefUnlock(c)
  <2> USE <1>16 DEF B!ChefUnlock, B!CGoto, B!CookTypes, B!chefs, B!conts, B!chefLocals,
                  B!contThreads, B!studThreads
  <2>1. \A d \in B(m, 1, k)!Chefs : B(m, 1, k)!Owed(d)' = B(m, 1, k)!Owed(d)
    BY DEF B!Owed
  <2>2. \A d \in B(m, 1, k)!Chefs : s13'[d] = "store" => s13[d] = "store" /\ s16'[d] = s16[d]
    OBVIOUS
  <2>3. \A d \in B(m, 1, k)!Chefs : s13'[d] = "exited" => s13[d] = "exited" \/ s1 <= 0
    OBVIOUS
  <2> QED
    BY <1>3, <2>1, <2>2, <2>3 DEF CookStep
<1>17. CASE B(m, 1, k)!ChefServed(c)
  <2> USE <1>17 DEF B!ChefServed, B!CGoto, B!CookTypes, B!chefs, B!conts, B!chefLocals,
                  B!contThreads, B!studThreads
  <2>1. \A d \in B(m, 1, k)!Chefs : B(m, 1, k)!Owed(d)' = B(m, 1, k)!Owed(d)
    BY DEF B!Owed
  <2>2. \A d \in B(m, 1, k)!Chefs : s13'[d] = "store" => s13[d] = "store" /\ s16'[d] = s16[d]
    OBVIOUS
  <2>3. \A d \in B(m, 1, k)!Chefs : s13'[d] = "exited" => s13[d] = "exited" \/ s1 <= 0
    OBVIOUS
  <2> QED
    BY <1>3, <2>1, <2>2, <2>3 DEF CookStep
<1> QED
  BY <1>4, <1>5, <1>6, <1>7, <1>8, <1>9, <1>10, <1>11, <1>12,
     <1>13, <1>14, <1>15, <1>16, <1>17, Zenon
     DEF B!ChefStep

\* And so are those of the container.
LEMMA ContSettled ==
  ASSUME NEW m \in Nat \ {0}, NEW k \in Nat, B(m, 1, k)!FeedTypes, B(m, 1, k)!CookTypes,
         B(m, 1, k)!PotsRight,
         B(m, 1, k)!VesselRight, B(m, 1, k)!ContStep(0), Settled(m, k)
  PROVE  B(m, 1, k)!CookTypes' /\ B(m, 1, k)!PotsRight' /\ B(m, 1, k)!VesselRight' /\ CookStep(m, k)
<1>1. ContPot(m, k)
  BY ContPots
<1>2. ASSUME NEW c \in B(m, 1, k)!Chefs, s13[c] = "load"
      PROVE  Fewer(B(m, 1, k)!Owed(c)', B(m, 1, k)!Owed(c))
  <2>1. /\ s3[c] \in Int /\ s3'[c] \in Int /\ s4[c] \in Int /\ s4'[c] = s4[c]
        /\ s4[c] >= 2 /\ Fewer(s3'[c], s3[c])
        /\ B(m, 1, k)!Owed(c) = s3[c] * s4[c] /\ B(m, 1, k)!Owed(c)' = s3'[c] * s4'[c]
    BY <1>1, <1>2 DEF ContPot, B!CookTypes, B!Owed
  <2>2. \A a, b, d \in Int : d >= 2 /\ a <= b => a * d <= b * d
    OBVIOUS
  <2>3. \A a, d \in Int : d >= 2 /\ a <= 0 => a * d <= 0
    OBVIOUS
  <2> QED
    BY <2>1, <2>2, <2>3 DEF Fewer
<1>6. ASSUME NEW c \in B(m, 1, k)!Chefs, s13[c] # "load"
      PROVE  Fewer(B(m, 1, k)!Owed(c)', B(m, 1, k)!Owed(c))
  <2>1. B(m, 1, k)!Owed(c)' = B(m, 1, k)!Owed(c)
    BY <1>1, <1>6 DEF ContPot, B!Owed
  <2> QED
    BY <2>1, OwedNumber DEF Fewer
<1>3. Quiet(m, k)
  BY <1>1, <1>2, <1>6 DEF ContPot, Quiet
<1>4. Settled(m, k)'
  BY <1>1, <1>3, QuietSettled DEF ContPot
<1>5. s25' >= s25 /\ s13' = s13
  BY <1>1 DEF ContPot, B!CookTypes
<1> QED
  BY <1>1, <1>4, <1>5 DEF CookStep, ContPot

\* Who has left when nobody was to be served has left enough behind.
LEMMA EnoughKept ==
  ASSUME NEW m \in Nat \ {0}, NEW k \in Nat, B(m, 1, k)!CookTypes, B(m, 1, k)!CookTypes',
         Settled(m, k),
         CookStep(m, k), B(m, 1, k)!EnoughCooked
  PROVE  B(m, 1, k)!EnoughCooked'
<1>1. s1 \in Int /\ s25 \in Int /\ s25' \in Int /\ s25' >= s25
  BY DEF B!CookTypes, CookStep
<1>2. ASSUME s1 <= 0 PROVE s25 >= k
  <2>1. Cardinality(B(m, 1, k)!Owing) \in Nat
    BY FS_CardinalityType DEF Settled
  <2>2. s1 >= k - s25 + Cardinality(B(m, 1, k)!Owing)
    BY DEF Settled, Due
  <2> QED
    BY <1>1, <1>2, <2>1, <2>2
<1>3. ASSUME NEW c \in B(m, 1, k)!Chefs, s13'[c] = "exited" PROVE s25' >= k
  <2>1. s13[c] = "exited" \/ s1 <= 0
    BY <1>3 DEF CookStep
  <2>2. s25 >= k
    BY <1>2, <2>1 DEF B!EnoughCooked
  <2> QED
    BY <1>1, <2>2
<1> QED
  BY <1>3 DEF B!EnoughCooked, B!Chefs

\* CookInv is inductive.
LEMMA CookInduction ==
  ASSUME NEW m \in Nat \ {0}, NEW k \in Nat
  PROVE  /\ B(m, 1, k)!Init => B(m, 1, k)!CookInv
         /\ B(m, 1, k)!CookInv /\ [B(m, 1, k)!Next]_(B(m, 1, k)!vars) => B(m, 1, k)!CookInv'
         /\ B(m, 1, k)!CookInv => B(m, 1, k)!EnoughCooked
<1>0. 0 \in B(m, 1, k)!Chefs /\ 0 \in B(m, 1, k)!Containers
      /\ \A x \in B(m, 1, k)!Containers : x = 0
  BY OneContainer
<1>1. ASSUME B(m, 1, k)!Init PROVE B(m, 1, k)!CookInv
  <2>1. B(m, 1, k)!FeedTypes
    BY <1>1 DEF B!Init, B!FeedTypes
  <2>2. B(m, 1, k)!CookTypes
    BY <1>0, <1>1 DEF B!Init, B!CookTypes
  <2>3. B(m, 1, k)!PotsRight
    BY <1>1 DEF B!Init, B!PotsRight, B!PotRight, B!Empty, B!Visited
  <2>4. B(m, 1, k)!VesselRight
    BY <1>0, <1>1 DEF B!Init, B!VesselRight
  <2>5. \A c \in B(m, 1, k)!Chefs : s13[c] = "new"
    BY <1>1 DEF B!Init
  <2>6. B(m, 1, k)!EnoughCooked
    BY <2>5 DEF B!EnoughCooked
  <2>7. B(m, 1, k)!Owing = {}
    <3>1. \A c \in B(m, 1, k)!Chefs : B(m, 1, k)!Owed(c) = 0
      BY <2>5 DEF B!Owed
    <3> QED
      BY <3>1, OwingElements
  <2>8. IsFiniteSet(B(m, 1, k)!Owing) /\ Cardinality(B(m, 1, k)!Owing) = 0
    BY <2>7, FS_EmptySet
  <2>9. s1 = k /\ s25 = 0
    BY <1>1 DEF B!Init
  <2>10. Settled(m, k)
    BY <2>5, <2>8, <2>9 DEF Settled, Due
  <2>11. B(m, 1, k)!Accounts
    BY <2>10, SettledMeans
  <2> QED
    BY <2>1, <2>2, <2>3, <2>4, <2>6, <2>11 DEF B!CookInv
<1>2. ASSUME B(m, 1, k)!CookInv, [B(m, 1, k)!Next]_(B(m, 1, k)!vars)
      PROVE  B(m, 1, k)!CookInv'
  <2>1. /\ B(m, 1, k)!FeedTypes /\ B(m, 1, k)!CookTypes /\ B(m, 1, k)!PotsRight
        /\ B(m, 1, k)!VesselRight /\ B(m, 1, k)!EnoughCooked
        /\ Settled(m, k)
    BY <1>2, SettledMeans DEF B!CookInv
  <2>2. ASSUME B(m, 1, k)!FeedTypes', B(m, 1, k)!CookTypes' /\ B(m, 1, k)!PotsRight'
               /\ B(m, 1, k)!VesselRight', CookStep(m, k)
        PROVE  B(m, 1, k)!CookInv'
    <3>1. B(m, 1, k)!EnoughCooked'
      BY <2>1, <2>2, EnoughKept
    <3>2. B(m, 1, k)!Accounts'
      BY <2>2, SettledMeans DEF CookStep
    <3> QED
      BY <2>2, <3>1, <3>2 DEF B!CookInv
  <2>3. ASSUME NEW c \in B(m, 1, k)!Chefs, B(m, 1, k)!ChefStep(c) PROVE B(m, 1, k)!CookInv'
    <3>1. UNCHANGED <<s2, s17, s22>>
      BY <2>3, ChefFeeds
    <3>2. B(m, 1, k)!FeedTypes'
      BY <2>1, <3>1 DEF B!FeedTypes
    <3>3. B(m, 1, k)!CookTypes' /\ B(m, 1, k)!PotsRight' /\ B(m, 1, k)!VesselRight'
      BY <2>1, <2>3, ChefPots
    <3>4. CookStep(m, k)
      BY <2>1, <2>3, ChefSettled
    <3> QED
      BY <2>2, <3>2, <3>3, <3>4
  <2>4. ASSUME NEW x \in B(m, 1, k)!Containers, B(m, 1, k)!ContStep(x) PROVE B(m, 1, k)!CookInv'
    <3>1. B(m, 1, k)!ContStep(0)
      BY <1>0, <2>4
    <3>2. B(m, 1, k)!FeedTypes'
      BY <1>0, <2>1, <3>1, ContFeeds DEF ContainerFeeds
    <3> QED
      BY <2>1, <2>2, <3>1, <3>2, ContSettled
  <2>5. ASSUME B(m, 1, k)!FeedTypes',
               UNCHANGED <<s1, s3, s4, s5, s13, s14, s15, s16, s17, s18, s19, s25>>
        PROVE  B(m, 1, k)!CookInv'
    <3>1. B(m, 1, k)!CookTypes' /\ B(m, 1, k)!PotsRight' /\ B(m, 1, k)!VesselRight'
      BY <2>1, <2>5 DEF B!CookTypes, B!PotsRight, B!PotRight, B!VesselRight, B!Empty,
         B!Visited
    <3>2. B(m, 1, k)!Owing' = B(m, 1, k)!Owing
      BY <2>5, Zenon DEF B!Owing, B!Owed
    <3>3. Settled(m, k)'
      BY <2>1, <2>5, <3>2 DEF Settled, Due
    <3>4. CookStep(m, k)
      BY <2>1, <2>5, <3>3 DEF CookStep, B!CookTypes
    <3> QED
      BY <2>2, <2>5, <3>1, <3>4
  <2>6. ASSUME NEW s \in B(m, 1, k)!Students, B(m, 1, k)!StudentStep(s) PROVE B(m, 1, k)!CookInv'
    <3>1. B(m, 1, k)!FeedTypes'
      BY <2>1, <2>6, StudFeeds DEF StudentFeeds
    <3>2. UNCHANGED <<s1, s3, s4, s5, s13, s14, s15, s16, s17, s18, s19, s25>>
      BY <2>6 DEF B!StudentStep, B!Arrive, B!StudentLock, B!StudentFound, B!StudentNext,
         B!StudentLoad, B!StudentStore, B!StudentClose, B!StudentEmpty, B!StudentUnlock,
         B!chefs, B!conts, B!chefThreads, B!chefLocals, B!contThreads, B!contLocals
    <3> QED
      BY <2>5, <3>1, <3>2
  <2>7. CASE B(m, 1, k)!MainReturns \/ B(m, 1, k)!Ended \/ UNCHANGED B(m, 1, k)!vars
    <3>1. UNCHANGED <<s2, s22, s1, s3, s4, s5, s13, s14, s15, s16, s17, s18, s19, s25>>
      BY <2>7 DEF B!MainReturns, B!Ended, B!vars, B!chefs, B!conts, B!chefThreads,
         B!chefLocals, B!contThreads, B!contLocals, B!studThreads
    <3>2. B(m, 1, k)!FeedTypes'
      BY <2>1, <3>1 DEF B!FeedTypes
    <3> QED
      BY <2>5, <3>1, <3>2
  <2> QED
    BY <1>2, <2>3, <2>4, <2>6, <2>7 DEF B!Next
<1>3. B(m, 1, k)!CookInv => B(m, 1, k)!EnoughCooked
  BY DEF B!CookInv
<1> QED
  BY <1>1, <1>2, <1>3

\* With one container no chef leaves the mess before enough is cooked for everybody, with
\* any number of chefs and students.
THEOREM EnoughIsCooked ==
  ASSUME NEW m \in Nat \ {0}, NEW k \in Nat
  PROVE  B(m, 1, k)!Spec => []B(m, 1, k)!EnoughCooked
BY CookInduction, PTL DEF B!Spec

-----------------------------------------------------------------------------
(* Spinlock *)

\* The theorems of SpinlockProofs about either part, and below those of CabsProofs.
P1 == INSTANCE SpinlockProofs WITH
  NCPU <- LockCpus1, NThreads <- LockThreads1,
  locked <- s1, owner <- s2, ncli <- s3, intena <- s4, flag <- s5, running <- s6,
  stack <- s7, panic <- s8

P2 == INSTANCE SpinlockProofs WITH
  NCPU <- LockCpus2, NThreads <- LockThreads2,
  locked <- s1, owner <- s2, ncli <- s3, intena <- s4, flag <- s5, running <- s6,
  stack <- s7, panic <- s8

\* The instances of Spinlock and of its theorems have the same initial states.
LEMMA SameInit ==
  /\ S1!Init => P1!Init
  /\ S2!Init => P2!Init
<1>1. S1!Init => P1!Init
  BY DEF S1!Init, P1!Init, S1!Locks, P1!Locks, S1!CPUs, P1!CPUs, S1!Contexts, P1!Contexts,
         S1!Threads, P1!Threads, S1!Entered, P1!Entered
<1>2. S2!Init => P2!Init
  BY DEF S2!Init, P2!Init, S2!Locks, P2!Locks, S2!CPUs, P2!CPUs, S2!Contexts, P2!Contexts,
         S2!Threads, P2!Threads, S2!Entered, P2!Entered
<1> QED
  BY <1>1, <1>2

\* ... and the same steps.
LEMMA SameNext1 ==
  ASSUME S1!Next
  PROVE  P1!Next
<1> USE DEF S1!At, P1!At, S1!InKernel, P1!InKernel, S1!Stack, P1!Stack, S1!Top, P1!Top, S1!Last,
            P1!Last, S1!Becomes, P1!Becomes, S1!Goes, P1!Goes, S1!Returns, P1!Returns,
            S1!Enters, P1!Enters, S1!Entered, P1!Entered, S1!Pushcli, P1!Pushcli,
            S1!Popcli, P1!Popcli, S1!Holding, P1!Holding, S1!MayAcquire, P1!MayAcquire,
            S1!CPUs, P1!CPUs, S1!Threads, P1!Threads, S1!Contexts, P1!Contexts,
            S1!Locks, P1!Locks
<1>1. PICK c \in S1!CPUs : S1!Step(c)
  BY Zenon DEF S1!Next
<1>2. \A l \in S1!Locks : S1!Acquire(c, l) => P1!Acquire(c, l)
  BY Zenon DEF S1!Acquire, P1!Acquire
<1>3. \A l \in S1!Locks : S1!Release(c, l) => P1!Release(c, l)
  BY Zenon DEF S1!Release, P1!Release
<1>4. \A t \in S1!Threads : S1!Dispatch(c, t) => P1!Dispatch(c, t)
  BY Zenon DEF S1!Dispatch, P1!Dispatch
<1>5. S1!AcquireCheck(c) => P1!AcquireCheck(c)
  BY Zenon DEF S1!AcquireCheck, P1!AcquireCheck
<1>6. S1!Xchg(c) => P1!Xchg(c)
  BY Zenon DEF S1!Xchg, P1!Xchg
<1>7. S1!AcquireOwn(c) => P1!AcquireOwn(c)
  BY Zenon DEF S1!AcquireOwn, P1!AcquireOwn
<1>8. S1!ReleaseClear(c) => P1!ReleaseClear(c)
  BY Zenon DEF S1!ReleaseClear, P1!ReleaseClear
<1>9. S1!ReleasePopcli(c) => P1!ReleasePopcli(c)
  BY Zenon DEF S1!ReleasePopcli, P1!ReleasePopcli
<1>10. S1!Syscall(c) => P1!Syscall(c)
  BY Zenon DEF S1!Syscall, P1!Syscall
<1>11. S1!Interrupt(c) => P1!Interrupt(c)
  BY Zenon DEF S1!Interrupt, P1!Interrupt
<1>12. S1!Iret(c) => P1!Iret(c)
  BY Zenon DEF S1!Iret, P1!Iret
<1>13. S1!Sched(c) => P1!Sched(c)
  BY Zenon DEF S1!Sched, P1!Sched
<1>14. S1!Switched(c) => P1!Switched(c)
  BY Zenon DEF S1!Switched, P1!Switched
<1>15. S1!Sti(c) => P1!Sti(c)
  BY Zenon DEF S1!Sti, P1!Sti
<1>16. P1!Step(c)
  BY <1>1, <1>2, <1>3, <1>4, <1>5, <1>6, <1>7, <1>8, <1>9, <1>10, <1>11, <1>12, <1>13, <1>14,
     <1>15, Zenon
     DEF S1!Step, P1!Step
<1> QED
  BY <1>1, <1>16, Zenon DEF P1!Next

\* ... and the same steps.
LEMMA SameNext2 ==
  ASSUME S2!Next
  PROVE  P2!Next
<1> USE DEF S2!At, P2!At, S2!InKernel, P2!InKernel, S2!Stack, P2!Stack, S2!Top, P2!Top, S2!Last,
            P2!Last, S2!Becomes, P2!Becomes, S2!Goes, P2!Goes, S2!Returns, P2!Returns,
            S2!Enters, P2!Enters, S2!Entered, P2!Entered, S2!Pushcli, P2!Pushcli,
            S2!Popcli, P2!Popcli, S2!Holding, P2!Holding, S2!MayAcquire, P2!MayAcquire,
            S2!CPUs, P2!CPUs, S2!Threads, P2!Threads, S2!Contexts, P2!Contexts,
            S2!Locks, P2!Locks
<1>1. PICK c \in S2!CPUs : S2!Step(c)
  BY Zenon DEF S2!Next
<1>2. \A l \in S2!Locks : S2!Acquire(c, l) => P2!Acquire(c, l)
  BY Zenon DEF S2!Acquire, P2!Acquire
<1>3. \A l \in S2!Locks : S2!Release(c, l) => P2!Release(c, l)
  BY Zenon DEF S2!Release, P2!Release
<1>4. \A t \in S2!Threads : S2!Dispatch(c, t) => P2!Dispatch(c, t)
  BY Zenon DEF S2!Dispatch, P2!Dispatch
<1>5. S2!AcquireCheck(c) => P2!AcquireCheck(c)
  BY Zenon DEF S2!AcquireCheck, P2!AcquireCheck
<1>6. S2!Xchg(c) => P2!Xchg(c)
  BY Zenon DEF S2!Xchg, P2!Xchg
<1>7. S2!AcquireOwn(c) => P2!AcquireOwn(c)
  BY Zenon DEF S2!AcquireOwn, P2!AcquireOwn
<1>8. S2!ReleaseClear(c) => P2!ReleaseClear(c)
  BY Zenon DEF S2!ReleaseClear, P2!ReleaseClear
<1>9. S2!ReleasePopcli(c) => P2!ReleasePopcli(c)
  BY Zenon DEF S2!ReleasePopcli, P2!ReleasePopcli
<1>10. S2!Syscall(c) => P2!Syscall(c)
  BY Zenon DEF S2!Syscall, P2!Syscall
<1>11. S2!Interrupt(c) => P2!Interrupt(c)
  BY Zenon DEF S2!Interrupt, P2!Interrupt
<1>12. S2!Iret(c) => P2!Iret(c)
  BY Zenon DEF S2!Iret, P2!Iret
<1>13. S2!Sched(c) => P2!Sched(c)
  BY Zenon DEF S2!Sched, P2!Sched
<1>14. S2!Switched(c) => P2!Switched(c)
  BY Zenon DEF S2!Switched, P2!Switched
<1>15. S2!Sti(c) => P2!Sti(c)
  BY Zenon DEF S2!Sti, P2!Sti
<1>16. P2!Step(c)
  BY <1>1, <1>2, <1>3, <1>4, <1>5, <1>6, <1>7, <1>8, <1>9, <1>10, <1>11, <1>12, <1>13, <1>14,
     <1>15, Zenon
     DEF S2!Step, P2!Step
<1> QED
  BY <1>1, <1>16, Zenon DEF P2!Next

\* ... and say the same of a state.
LEMMA SameStates ==
  /\ P1!LocksSafe => S1!LocksSafe
  /\ P1!FlagRestored => S1!FlagRestored
  /\ P2!LocksSafe => S2!LocksSafe
  /\ P2!FlagRestored => S2!FlagRestored
<1>1. P1!LocksSafe => S1!LocksSafe
  BY Zenon DEF P1!LocksSafe, S1!LocksSafe, P1!TypeOK, S1!TypeOK, P1!Exclusive, S1!Exclusive,
       P1!NoSelfSpin, S1!NoSelfSpin, P1!HeldOn, S1!HeldOn, P1!OnCpu, S1!OnCpu, P1!Stack,
       S1!Stack, P1!CPUs, S1!CPUs, P1!Locks, S1!Locks, P1!Contexts, S1!Contexts, P1!Threads,
       S1!Threads, P1!Frame, S1!Frame, P1!Kinds, S1!Kinds, P1!At, S1!At, P1!InKernel,
       S1!InKernel, P1!Top, S1!Top, P1!Last, S1!Last
<1>2. P1!FlagRestored => S1!FlagRestored
  BY Zenon DEF P1!FlagRestored, S1!FlagRestored, P1!CPUs, S1!CPUs, P1!At, S1!At, P1!InKernel,
       S1!InKernel, P1!Stack, S1!Stack, P1!Top, S1!Top, P1!Last, S1!Last
<1>3. P2!LocksSafe => S2!LocksSafe
  BY Zenon DEF P2!LocksSafe, S2!LocksSafe, P2!TypeOK, S2!TypeOK, P2!Exclusive, S2!Exclusive,
       P2!NoSelfSpin, S2!NoSelfSpin, P2!HeldOn, S2!HeldOn, P2!OnCpu, S2!OnCpu, P2!Stack,
       S2!Stack, P2!CPUs, S2!CPUs, P2!Locks, S2!Locks, P2!Contexts, S2!Contexts, P2!Threads,
       S2!Threads, P2!Frame, S2!Frame, P2!Kinds, S2!Kinds, P2!At, S2!At, P2!InKernel,
       S2!InKernel, P2!Top, S2!Top, P2!Last, S2!Last
<1>4. P2!FlagRestored => S2!FlagRestored
  BY Zenon DEF P2!FlagRestored, S2!FlagRestored, P2!CPUs, S2!CPUs, P2!At, S2!At, P2!InKernel,
       S2!InKernel, P2!Stack, S2!Stack, P2!Top, S2!Top, P2!Last, S2!Last
<1> QED
  BY <1>1, <1>2, <1>3, <1>4

\* The invariant of Spinlock in the part that runs.
LocksInv ==
  /\ part = "locks1" => P1!IndInv
  /\ part = "locks2" => P2!IndInv

\* The inductive invariant of Spinlock holds in the part that is chosen.
LEMMA LocksInvHolds == Spec => []LocksInv
<1>1. P1!Apart /\ P2!Apart
  BY PartsAssumption, P1!SizesApart, P2!SizesApart
<1>2. Init => LocksInv
  <2>1. part = "locks1" /\ S1!Init => P1!IndInv
    BY <1>1, SameInit, P1!InitHolds
  <2>2. part = "locks2" /\ S2!Init => P2!IndInv
    BY <1>1, SameInit, P2!InitHolds
  <2> QED
    BY <2>1, <2>2 DEF Init, LocksInv
<1>3. LocksInv /\ [Next]_vars => LocksInv'
  <2> SUFFICES ASSUME LocksInv, [Next]_vars
               PROVE  LocksInv'
    OBVIOUS
  <2>1. ASSUME part = "locks1" PROVE P1!IndInv'
    <3>1. P1!IndInv /\ (P1!Next \/ UNCHANGED S1!vars)
      BY <2>1, PartStays, SameNext1 DEF LocksInv
    <3>2. [P1!Next]_P1!vars
      BY <3>1 DEF P1!vars, S1!vars
    <3> QED
      BY <1>1, <3>1, <3>2, P1!NextHolds
  <2>2. ASSUME part = "locks2" PROVE P2!IndInv'
    <3>1. P2!IndInv /\ (P2!Next \/ UNCHANGED S2!vars)
      BY <2>2, PartStays, SameNext2 DEF LocksInv
    <3>2. [P2!Next]_P2!vars
      BY <3>1 DEF P2!vars, S2!vars
    <3> QED
      BY <1>1, <3>1, <3>2, P2!NextHolds
  <2>3. part' = part
    BY PartStays
  <2> QED
    BY <2>1, <2>2, <2>3 DEF LocksInv
<1> QED
  BY <1>2, <1>3, PTL DEF Spec

\* Spin locks exclude and no panic of spinlock.c is reached: LocksSafe of the run, for any
\* number of CPUs and threads.
THEOREM LocksAreSafe == Spec => []LocksSafe
<1>1. LocksInv => LocksSafe
  BY P1!InvSafe, P2!InvSafe, SameStates DEF LocksInv, LocksSafe
<1> QED
  BY <1>1, LocksInvHolds, PTL

\* release() and sched() leave the interrupt flag to a thread as it was: FlagRestored of
\* the run, for any number of CPUs and threads.
THEOREM FlagsAreRestored == Spec => []FlagRestored
<1>1. LocksInv => FlagRestored
  BY P1!InvSafe, P2!InvSafe, SameStates DEF LocksInv, FlagRestored
<1> QED
  BY <1>1, LocksInvHolds, PTL

-----------------------------------------------------------------------------
(* Cabs, and the threads of assignment 4 together *)

AP == INSTANCE CabsProofs WITH
  N <- CabCount, Passengers <- Riders, K <- PayServers, Wait <- WaitTime, NPay <- PayLength,
  ride <- s1, lock <- s2, payStatus <- s3, payCab <- s4, payReduce <- s5, empty <- s6,
  left <- s7, cabMutex <- s8, payMutex <- s9, serverMutex <- s10, main <- s11, pc <- s12,
  i <- s13, time <- s14, found <- s15, val <- s16, slot <- s17, spc <- s18, si <- s19,
  scab <- s20, sval <- s21, todo <- s22

\* The instances of Cabs and of its theorems have the same initial states,
LEMMA CabsInit ==
  ASSUME A!Init
  PROVE  AP!Init
BY Zenon DEF A!Init, AP!Init, A!Cabs, AP!Cabs, A!PaySlots, AP!PaySlots, A!Servers,
             AP!Servers, A!M, AP!M, A!Free,
     AP!Free, A!waitState, AP!waitState, A!Cardinality, AP!Cardinality

\* the same steps of a passenger and of a server,
LEMMA CabsPassenger ==
  ASSUME NEW p \in Riders, A!PassengerStep(p)
  PROVE  AP!PassengerStep(p)
<1> USE DEF A!cabs, AP!cabs, A!pays, AP!pays, A!plocals, AP!plocals, A!slocals, AP!slocals,
            A!servers, AP!servers, A!passengers, AP!passengers, A!Cabs, AP!Cabs, A!M, AP!M,
            A!Servers, AP!Servers, A!PaySlots, AP!PaySlots, A!Free, AP!Free, A!waitState,
            AP!waitState, A!onRidePremier, AP!onRidePremier, A!onRidePoolFull,
            AP!onRidePoolFull, A!onRidePoolHalf, AP!onRidePoolHalf, A!IsPremier,
            AP!IsPremier, A!Goto, AP!Goto, A!SGoto, AP!SGoto, A!Bookable, AP!Bookable,
            A!Probe, AP!Probe, A!ReduceTo, AP!ReduceTo, A!Book, AP!Book, A!Cardinality,
            AP!Cardinality
<1>1. A!LockSearch(p) => AP!LockSearch(p)
  BY Zenon DEF A!LockSearch, AP!LockSearch
<1>2. A!PoolRound(p) => AP!PoolRound(p)
  BY Zenon DEF A!PoolRound, AP!PoolRound
<1>3. A!ProbeHalf(p) => AP!ProbeHalf(p)
  BY Zenon DEF A!ProbeHalf, AP!ProbeHalf
<1>4. A!ProbeEmpty(p) => AP!ProbeEmpty(p)
  BY Zenon DEF A!ProbeEmpty, AP!ProbeEmpty
<1>5. A!ProbePremier(p) => AP!ProbePremier(p)
  BY Zenon DEF A!ProbePremier, AP!ProbePremier
<1>6. A!BookHalf(p) => AP!BookHalf(p)
  BY Zenon DEF A!BookHalf, AP!BookHalf
<1>7. A!BookEmpty(p) => AP!BookEmpty(p)
  BY Zenon DEF A!BookEmpty, AP!BookEmpty
<1>8. A!UnlockSearch(p) => AP!UnlockSearch(p)
  BY Zenon DEF A!UnlockSearch, AP!UnlockSearch
<1>9. A!LeaveLoad(p) => AP!LeaveLoad(p)
  BY Zenon DEF A!LeaveLoad, AP!LeaveLoad
<1>10. A!LeaveStore(p) => AP!LeaveStore(p)
  BY Zenon DEF A!LeaveStore, AP!LeaveStore
<1>11. A!ReleaseCab(p) => AP!ReleaseCab(p)
  BY Zenon DEF A!ReleaseCab, AP!ReleaseCab
<1>12. A!RideOver(p) => AP!RideOver(p)
  BY Zenon DEF A!RideOver, AP!RideOver
<1>13. A!PayMark(p) => AP!PayMark(p)
  BY Zenon DEF A!PayMark, AP!PayMark
<1>14. A!PayCab(p) => AP!PayCab(p)
  BY Zenon DEF A!PayCab, AP!PayCab
<1>15. A!PayReduce(p) => AP!PayReduce(p)
  BY Zenon DEF A!PayReduce, AP!PayReduce
<1>16. A!Confirmed(p) => AP!Confirmed(p)
  BY Zenon DEF A!Confirmed, AP!Confirmed
<1> HIDE DEF A!cabs, AP!cabs, A!pays, AP!pays, A!plocals, AP!plocals, A!slocals, AP!slocals,
             A!servers, AP!servers, A!passengers, AP!passengers, A!Cabs, AP!Cabs, A!M, AP!M,
             A!Servers, AP!Servers, A!PaySlots, AP!PaySlots, A!Free, AP!Free, A!waitState,
             AP!waitState, A!onRidePremier, AP!onRidePremier, A!onRidePoolFull,
             AP!onRidePoolFull, A!onRidePoolHalf, AP!onRidePoolHalf, A!IsPremier,
             AP!IsPremier, A!Goto, AP!Goto, A!SGoto, AP!SGoto, A!Bookable, AP!Bookable,
             A!Probe, AP!Probe, A!ReduceTo, AP!ReduceTo, A!Book, AP!Book, A!Cardinality,
             AP!Cardinality
<1> QED
  BY <1>1, <1>2, <1>3, <1>4, <1>5, <1>6, <1>7, <1>8, <1>9, <1>10, <1>11, <1>12, <1>13,
     <1>14, <1>15, <1>16, Zenon DEF A!PassengerStep, AP!PassengerStep

\* ... and of the servers.
LEMMA CabsServer ==
  ASSUME NEW s \in A!Servers, A!ServerStep(s)
  PROVE  AP!ServerStep(s)
<1> USE DEF A!cabs, AP!cabs, A!pays, AP!pays, A!plocals, AP!plocals, A!slocals, AP!slocals,
            A!servers, AP!servers, A!passengers, AP!passengers, A!Cabs, AP!Cabs, A!M, AP!M,
            A!Servers, AP!Servers, A!PaySlots, AP!PaySlots, A!Free, AP!Free, A!waitState,
            AP!waitState, A!onRidePremier, AP!onRidePremier, A!onRidePoolFull,
            AP!onRidePoolFull, A!onRidePoolHalf, AP!onRidePoolHalf, A!IsPremier,
            AP!IsPremier, A!Goto, AP!Goto, A!SGoto, AP!SGoto, A!Bookable, AP!Bookable,
            A!Probe, AP!Probe, A!ReduceTo, AP!ReduceTo, A!Book, AP!Book, A!Cardinality,
            AP!Cardinality
<1>1. A!ServerCheck(s) => AP!ServerCheck(s)
  BY Zenon DEF A!ServerCheck, AP!ServerCheck
<1>2. A!ServerSkip(s) => AP!ServerSkip(s)
  BY Zenon DEF A!ServerSkip, AP!ServerSkip
<1>3. A!ServerFind(s) => AP!ServerFind(s)
  BY Zenon DEF A!ServerFind, AP!ServerFind
<1>4. A!ServerLoadCab(s) => AP!ServerLoadCab(s)
  BY Zenon DEF A!ServerLoadCab, AP!ServerLoadCab
<1>5. A!ServerLoadReduce(s) => AP!ServerLoadReduce(s)
  BY Zenon DEF A!ServerLoadReduce, AP!ServerLoadReduce
<1>6. A!ServerRestore(s) => AP!ServerRestore(s)
  BY Zenon DEF A!ServerRestore, AP!ServerRestore
<1>7. A!ServerConfirm(s) => AP!ServerConfirm(s)
  BY Zenon DEF A!ServerConfirm, AP!ServerConfirm
<1>8. A!ServerLoadLeft(s) => AP!ServerLoadLeft(s)
  BY Zenon DEF A!ServerLoadLeft, AP!ServerLoadLeft
<1>9. A!ServerStoreLeft(s) => AP!ServerStoreLeft(s)
  BY Zenon DEF A!ServerStoreLeft, AP!ServerStoreLeft
<1>10. A!ServerUnlock(s) => AP!ServerUnlock(s)
  BY Zenon DEF A!ServerUnlock, AP!ServerUnlock
<1> HIDE DEF A!cabs, AP!cabs, A!pays, AP!pays, A!plocals, AP!plocals, A!slocals, AP!slocals,
             A!servers, AP!servers, A!passengers, AP!passengers, A!Cabs, AP!Cabs, A!M, AP!M,
             A!Servers, AP!Servers, A!PaySlots, AP!PaySlots, A!Free, AP!Free, A!waitState,
             AP!waitState, A!onRidePremier, AP!onRidePremier, A!onRidePoolFull,
             AP!onRidePoolFull, A!onRidePoolHalf, AP!onRidePoolHalf, A!IsPremier,
             AP!IsPremier, A!Goto, AP!Goto, A!SGoto, AP!SGoto, A!Bookable, AP!Bookable,
             A!Probe, AP!Probe, A!ReduceTo, AP!ReduceTo, A!Book, AP!Book, A!Cardinality,
             AP!Cardinality
<1> QED
  BY <1>1, <1>2, <1>3, <1>4, <1>5, <1>6, <1>7, <1>8, <1>9, <1>10, Zenon DEF A!ServerStep,
     AP!ServerStep

\* the same steps,
LEMMA CabsNext ==
  ASSUME A!Next \/ UNCHANGED A!vars
  PROVE  [AP!Next]_(AP!vars)
<1> USE DEF A!cabs, AP!cabs, A!pays, AP!pays, A!plocals, AP!plocals, A!slocals, AP!slocals,
            A!servers, AP!servers
<1>1. CASE UNCHANGED A!vars
  BY <1>1, Zenon DEF A!vars, AP!vars
<1>2. CASE A!Ended
  BY <1>2, Zenon DEF A!Ended, A!vars, AP!vars
<1>3. CASE A!MainReturns
  <2>1. AP!MainReturns
    BY <1>3, Zenon DEF A!MainReturns, AP!MainReturns, A!Servers, AP!Servers
  <2> QED
    BY <2>1, Zenon DEF AP!Next
<1>4. CASE \E p \in Riders : A!Arrive(p)
  <2>1. PICK p \in Riders : A!Arrive(p)
    BY <1>4, Zenon
  <2>2. AP!Arrive(p)
    BY <2>1, Zenon DEF A!Arrive, AP!Arrive, A!Goto, AP!Goto
  <2> QED
    BY <2>2, Zenon DEF AP!Next
<1>5. CASE \E p \in Riders : A!PassengerStep(p)
  BY <1>5, CabsPassenger, Zenon DEF AP!Next
<1>6. CASE \E s \in A!Servers : A!ServerStep(s)
  BY <1>6, CabsServer, Zenon DEF AP!Next, A!Servers, AP!Servers
<1> QED
  BY <1>1, <1>2, <1>3, <1>4, <1>5, <1>6, Zenon DEF A!Next

\* and say the same of a state.
LEMMA CabsStates ==
  /\ AP!BookingExclusive => A!BookingExclusive
  /\ AP!PaymentsSound => A!PaymentsSound
<1> USE DEF A!Cabs, AP!Cabs, A!PaySlots, AP!PaySlots, A!Servers, AP!Servers, A!M, AP!M,
            A!Free, AP!Free, A!Cardinality, AP!Cardinality, A!waitState, AP!waitState,
            A!onRidePremier, AP!onRidePremier, A!onRidePoolFull, AP!onRidePoolFull,
            A!onRidePoolHalf, AP!onRidePoolHalf, A!Searching, AP!Searching, A!Marking,
            AP!Marking, A!Serving, AP!Serving, A!Paying, AP!Paying, A!SlotOf, AP!SlotOf,
            A!Through, AP!Through, A!Booking, AP!Booking, A!Uncounted, AP!Uncounted,
            A!Counting, AP!Counting, A!Unsettled, AP!Unsettled, A!Owed, AP!Owed
<1>1. AP!BookingExclusive => A!BookingExclusive
  BY Zenon DEF A!BookingExclusive, AP!BookingExclusive
<1>2. AP!TypeOK => A!TypeOK
  BY Zenon DEF A!TypeOK, AP!TypeOK
<1>3. AP!MutexesHeld => A!MutexesHeld
  BY Zenon DEF A!MutexesHeld, AP!MutexesHeld
<1>4. AP!LocalsRight => A!LocalsRight
  BY Zenon DEF A!LocalsRight, AP!LocalsRight
<1>5. AP!SlotsInOrder => A!SlotsInOrder
  BY Zenon DEF A!SlotsInOrder, AP!SlotsInOrder
<1>6. AP!NeverShort => A!NeverShort
  BY Zenon DEF A!NeverShort, AP!NeverShort
<1>7. AP!SlotPrivate => A!SlotPrivate
  BY Zenon DEF A!SlotPrivate, AP!SlotPrivate
<1>8. AP!NoneAbandoned => A!NoneAbandoned
  BY Zenon DEF A!NoneAbandoned, AP!NoneAbandoned
<1> QED
  BY <1>1, <1>2, <1>3, <1>4, <1>5, <1>6, <1>7, <1>8, Zenon DEF A!PaymentsSound, AP!PaymentsSound
Mess(m, k) == B(m, 1, k)!FeedInv /\ B(m, 1, k)!CookInv

\* The invariant of the threads in the part that runs.
ThreadsInv ==
  /\ part = "cabs" => AP!PaymentsSound /\ AP!BookingExclusive
  /\ part = "biryani1" => Mess(Chefs1, Students1)
  /\ part = "biryani2" => Mess(Chefs2, Students2)

\* What CabsProofs assumes of the constants of Cabs is part of PartsAssumption.
LEMMA CabsConstants ==
  /\ CabCount \in Nat \ {0} /\ PayServers \in Nat \ {0} /\ WaitTime \in Nat
  /\ Riders \subseteq Nat /\ AP!IsFiniteSet(Riders)
  /\ PayLength \in Nat \ {0} /\ AP!Cardinality(Riders) <= PayLength
<1>1. AP!IsFiniteSet(Riders) <=> IsFiniteSet(Riders)
  BY Zenon DEF AP!IsFiniteSet, IsFiniteSet
<1>2. AP!Cardinality(Riders) = Cardinality(Riders)
  BY Zenon DEF AP!Cardinality, Cardinality
<1> QED
  BY PartsAssumption, <1>1, <1>2

\* The threads of assignment 4 leave nobody behind: ThreadsSound of the run, for any number
\* of passengers, cabs and servers, and of chefs and students.
THEOREM ThreadsAreSound == Spec => []ThreadsSound
<1>1. ASSUME NEW m \in Nat \ {0}, NEW k \in Nat
      PROVE  /\ B(m, 1, k)!Init => Mess(m, k)
             /\ Mess(m, k) /\ [B(m, 1, k)!Next]_(B(m, 1, k)!vars) => Mess(m, k)'
             /\ Mess(m, k) => B(m, 1, k)!NoEarlyLeave /\ B(m, 1, k)!EnoughCooked
  BY FeedInduction, CookInduction DEF Mess
<1>2. Init => ThreadsInv
  <2>1. part = "cabs" /\ A!Init => AP!PaymentsSound /\ AP!BookingExclusive
    BY CabsConstants, CabsInit, AP!InitSound
  <2> QED
    BY PartsAssumption, <1>1, <2>1 DEF Init, ThreadsInv
<1>3. ThreadsInv /\ [Next]_vars => ThreadsInv'
  <2> SUFFICES ASSUME ThreadsInv, [Next]_vars
               PROVE  ThreadsInv'
    OBVIOUS
  <2>1. ASSUME part = "cabs" PROVE AP!PaymentsSound' /\ AP!BookingExclusive'
    <3>1. AP!PaymentsSound /\ AP!BookingExclusive /\ (A!Next \/ UNCHANGED A!vars)
      BY <2>1, PartStays DEF ThreadsInv
    <3>2. [AP!Next]_(AP!vars)
      BY <3>1, CabsNext
    <3> QED
      BY <3>1, <3>2, CabsConstants, AP!NextSound
  <2>2. ASSUME part = "biryani1" PROVE Mess(Chefs1, Students1)'
    BY <2>2, PartsAssumption, PartStays, <1>1 DEF ThreadsInv
  <2>3. ASSUME part = "biryani2" PROVE Mess(Chefs2, Students2)'
    BY <2>3, PartsAssumption, PartStays, <1>1 DEF ThreadsInv
  <2>4. part' = part
    BY PartStays
  <2> QED
    BY <2>1, <2>2, <2>3, <2>4 DEF ThreadsInv
<1>4. ThreadsInv => ThreadsSound
  BY PartsAssumption, <1>1, CabsStates DEF ThreadsInv, ThreadsSound
<1> QED
  BY <1>2, <1>3, <1>4, PTL DEF Spec

=============================================================================
