---------------------------- MODULE InodesProofs ----------------------------
(***************************************************************************)
(* Proofs about inodes and directories, for any processes, inodes, names   *)
(* and number of calls.  First that the inode cache counts its users and   *)
(* agrees with the disk, for any path names (CacheInv); then, for path     *)
(* names without "." and "..", that what is in use stays allocated and     *)
(* that links are counted (LinkInv).                                       *)
(***************************************************************************)
EXTENDS Inodes, TLAPS, FiniteSetTheorems, WellFoundedInduction

-----------------------------------------------------------------------------
(* Counting *)

Bit(b) == IF b THEN 1 ELSE 0

\* Two sets that differ in one element at most.
LEMMA CountDelta ==
  ASSUME NEW S, IsFiniteSet(S), NEW A \in SUBSET S, NEW B \in SUBSET S, NEW p \in S,
         \A q \in S \ {p} : q \in A <=> q \in B
  PROVE  /\ Cardinality(A) \in Nat /\ Cardinality(B) \in Nat
         /\ Cardinality(B) = Cardinality(A) + Bit(p \in B) - Bit(p \in A)
<1>1. IsFiniteSet(A) /\ IsFiniteSet(B)
  BY FS_Subset
<1>2. Cardinality(A) \in Nat /\ Cardinality(B) \in Nat
  BY <1>1, FS_CardinalityType
<1>3. CASE p \in A /\ p \in B
  <2>1. A = B
    BY <1>3
  <2> QED
    BY <1>2, <1>3, <2>1 DEF Bit
<1>4. CASE p \notin A /\ p \notin B
  <2>1. A = B
    BY <1>4
  <2> QED
    BY <1>2, <1>4, <2>1 DEF Bit
<1>5. CASE p \in A /\ p \notin B
  <2>1. B = A \ {p}
    BY <1>5
  <2>2. Cardinality(A \ {p}) = Cardinality(A) - 1
    BY <1>1, <1>5, FS_RemoveElement
  <2> QED
    BY <1>2, <1>5, <2>1, <2>2 DEF Bit
<1>6. CASE p \notin A /\ p \in B
  <2>1. B = A \cup {p}
    BY <1>6
  <2>2. Cardinality(A \cup {p}) = Cardinality(A) + 1
    BY <1>1, <1>6, FS_AddElement
  <2> QED
    BY <1>2, <1>6, <2>1, <2>2 DEF Bit
<1> QED
  BY <1>3, <1>4, <1>5, <1>6

\* Two sets that differ in two elements at most.
LEMMA CountDelta2 ==
  ASSUME NEW S, IsFiniteSet(S), NEW A \in SUBSET S, NEW B \in SUBSET S,
         NEW p \in S, NEW r \in S, p # r,
         \A q \in S \ {p, r} : q \in A <=> q \in B
  PROVE  /\ Cardinality(A) \in Nat /\ Cardinality(B) \in Nat
         /\ Cardinality(B) = Cardinality(A) + Bit(p \in B) - Bit(p \in A)
                                            + Bit(r \in B) - Bit(r \in A)
<1> DEFINE M == {q \in S : IF q = p THEN p \in B ELSE q \in A}
<1>1. M \in SUBSET S /\ (\A q \in S \ {p} : q \in A <=> q \in M) /\ (p \in M <=> p \in B)
  OBVIOUS
<1>2. (\A q \in S \ {r} : q \in M <=> q \in B) /\ (r \in M <=> r \in A)
  OBVIOUS
<1> HIDE DEF M
<1>3. /\ Cardinality(A) \in Nat /\ Cardinality(M) \in Nat
      /\ Cardinality(M) = Cardinality(A) + Bit(p \in M) - Bit(p \in A)
  BY <1>1, CountDelta
<1>4. /\ Cardinality(B) \in Nat
      /\ Cardinality(B) = Cardinality(M) + Bit(r \in B) - Bit(r \in M)
  BY <1>1, <1>2, CountDelta
<1> QED
  BY <1>1, <1>2, <1>3, <1>4 DEF Bit

\* A set with an element is not empty, and one with no elements is.
LEMMA CountSome ==
  ASSUME NEW S, IsFiniteSet(S), NEW A \in SUBSET S
  PROVE  /\ Cardinality(A) \in Nat /\ Cardinality(A) <= Cardinality(S) /\ Cardinality(S) \in Nat
         /\ (\E x \in S : x \in A) => Cardinality(A) >= 1
         /\ (\A x \in S : x \notin A) => Cardinality(A) = 0
<1>1. IsFiniteSet(A) /\ Cardinality(A) <= Cardinality(S)
  BY FS_Subset
<1>2. Cardinality(A) \in Nat /\ Cardinality(S) \in Nat
  BY <1>1, FS_CardinalityType
<1>3. Cardinality(A) = 0 <=> A = {}
  BY <1>1, FS_EmptySet
<1> QED
  BY <1>1, <1>2, <1>3

\* A set with two elements has at least two.
LEMMA CountTwo ==
  ASSUME NEW S, IsFiniteSet(S), NEW A \in SUBSET S, NEW x \in A, NEW y \in A, x # y
  PROVE  Cardinality(A) >= 2
<1>1. IsFiniteSet(A)
  BY FS_Subset
<1>2. Cardinality(A \ {x}) = Cardinality(A) - 1 /\ IsFiniteSet(A \ {x})
  BY <1>1, FS_RemoveElement
<1>3. Cardinality(A \ {x}) # 0
  BY <1>2, FS_EmptySet
<1>4. Cardinality(A) \in Nat /\ Cardinality(A \ {x}) \in Nat
  BY <1>1, <1>2, FS_CardinalityType
<1> QED
  BY <1>2, <1>3, <1>4

\* The places of a sequence of two.
LEMMA PairFinite == IsFiniteSet({1, 2}) /\ Cardinality({1, 2}) = 2
<1>1. IsFiniteSet({1}) /\ Cardinality({1}) = 1
  BY FS_Singleton
<1>2. IsFiniteSet({1} \cup {2}) /\ Cardinality({1} \cup {2}) = Cardinality({1}) + 1
  BY <1>1, 2 \notin {1}, FS_AddElement
<1>3. {1} \cup {2} = {1, 2}
  OBVIOUS
<1> QED
  BY <1>1, <1>2, <1>3

-----------------------------------------------------------------------------
(* The inductive invariant: the cache *)

Seq2(S) == {<<>>} \cup {<<a>> : a \in S} \cup {<<a, b>> : a \in S, b \in S}
Kinds == {"free", "dir", "file", "dev"}
Points == Locking \cup {"idle", "created", "unlinkbad", "unlinked", "linkexists", "linkbad"}
EntNames == Names \cup {".", ".."}
Copies == [type : Kinds, nlink : Int]

\* The types of what a process has, and of the cache and the disk.
PTyped(p) ==
  /\ pc[p] \in Points /\ call[p] \in Ops \cup {"link2", None}
  /\ path[p] \in Seq2(Elements) /\ new[p] \in {<<>>} \cup Paths
  /\ ip[p] \in Inums \cup {None} /\ dp[p] \in Inums \cup {None} /\ old[p] \in Inums \cup {None}
  /\ puts[p] \in Seq2(Inums) /\ put[p] \in {"lock", "free", "unref"}
  /\ cwd[p] \in Inums /\ ofile[p] \in Inums \cup {None}

ITyped ==
  /\ dinode \in [Inums -> Copies] /\ inode \in [Inums -> Copies]
  /\ ent \in [Inums -> [EntNames -> 0 .. NInodes]]
  /\ valid \in [Inums -> BOOLEAN] /\ ref \in [Inums -> Int]
  /\ lock \in [Inums -> Procs \cup {None}]
  /\ calls \in 0 .. MaxCalls

IsFcn(f, S) == f = [x \in S |-> f[x]]

Typed ==
  /\ ITyped
  /\ IsFcn(pc, Procs) /\ IsFcn(call, Procs) /\ IsFcn(path, Procs) /\ IsFcn(new, Procs)
  /\ IsFcn(ip, Procs) /\ IsFcn(dp, Procs) /\ IsFcn(old, Procs) /\ IsFcn(puts, Procs)
  /\ IsFcn(put, Procs) /\ IsFcn(cwd, Procs) /\ IsFcn(ofile, Procs)
  /\ \A p \in Procs : PTyped(p)

\* Where a process has ip, and where it has dp with its lock.
WithIp == {"namex", "found", "createold", "createnew", "created", "unlink", "unlinked"}
WithDp == {"createnew", "unlink", "unlinkbad", "linkexists"}
Named(p) == \E n \in Elements : path[p] = <<n>>

Local(p) ==
  /\ put[p] # "lock" => puts[p] # <<>>
  /\ ip[p] # None <=> pc[p] \in WithIp
  /\ dp[p] # None <=> pc[p] \in WithDp
  /\ old[p] # None <=> call[p] = "link2"
  /\ pc[p] = "idle" <=> call[p] = None
  /\ pc[p] \in {"createold", "createnew", "created"} => call[p] \in Creates
  /\ pc[p] \in {"unlink", "unlinked", "unlinkbad"} => call[p] = "unlink"
  /\ pc[p] \in {"linkexists", "linkbad"} => call[p] = "link2"
  /\ pc[p] = "found" /\ call[p] \in Parent => Named(p)
  /\ pc[p] \in {"createnew", "unlink"} => Named(p)
  /\ call[p] = "link" => new[p] \in Paths

\* The inodes whose locks a process holds between two of its steps, and what
\* the lock guarantees.
Holds(p, i) ==
  \/ pc[p] \in WithDp /\ dp[p] = i
  \/ pc[p] \in {"created", "unlinked"} /\ ip[p] = i
Sound(i) == valid[i] /\ inode[i] = dinode[i] /\ dinode[i].type # "free"
HeldOK(p) == \A i \in Inums : Holds(p, i) => lock[i] = p /\ Sound(i)

\* An inode that iput() is freeing is locked, and is no other one that it holds.
FreeOK(p) == put[p] = "free" => lock[Head(puts[p])] = p /\ ~Holds(p, Head(puts[p]))
Freeing(i) == \E q \in Procs : put[q] = "free" /\ Head(puts[q]) = i
CacheOK(i) == valid[i] => Sound(i) \/ Freeing(i)

\* The references to an inode: all of them, and those of one process.
Nth(s, k, i) == k \in DOMAIN s /\ s[k] = i
RefSum(i) ==
  Cardinality({p \in Procs : cwd[p] = i}) + Cardinality({p \in Procs : ofile[p] = i})
  + Cardinality({p \in Procs : ip[p] = i}) + Cardinality({p \in Procs : dp[p] = i})
  + Cardinality({p \in Procs : old[p] = i})
  + Cardinality({x \in Procs \X {1, 2} : x[2] \in DOMAIN puts[x[1]] /\ puts[x[1]][x[2]] = i})
Mine(p, i) ==
  Bit(cwd[p] = i) + Bit(ofile[p] = i) + Bit(ip[p] = i) + Bit(dp[p] = i) + Bit(old[p] = i)
  + Bit(Nth(puts[p], 1, i)) + Bit(Nth(puts[p], 2, i))
RefEq == panicked = None => \A i \in Inums : ref[i] = RefSum(i)
RefBound == \A i \in Inums : ref[i] \in 0 .. 8 * Cardinality(Procs)

CacheInv ==
  /\ Typed /\ RefEq /\ RefBound
  /\ \A p \in Procs : Local(p) /\ HeldOK(p) /\ FreeOK(p)
  /\ \A i \in Inums : CacheOK(i)

-----------------------------------------------------------------------------
(* What a step of one process leaves of the invariant *)

\* Of the state of processes, only that of p changes.
Others(p) ==
  /\ pc' = [pc EXCEPT ![p] = pc'[p]] /\ call' = [call EXCEPT ![p] = call'[p]]
  /\ path' = [path EXCEPT ![p] = path'[p]] /\ new' = [new EXCEPT ![p] = new'[p]]
  /\ ip' = [ip EXCEPT ![p] = ip'[p]] /\ dp' = [dp EXCEPT ![p] = dp'[p]]
  /\ old' = [old EXCEPT ![p] = old'[p]] /\ puts' = [puts EXCEPT ![p] = puts'[p]]
  /\ put' = [put EXCEPT ![p] = put'[p]] /\ cwd' = [cwd EXCEPT ![p] = cwd'[p]]
  /\ ofile' = [ofile EXCEPT ![p] = ofile'[p]]

\* The copy of an inode stays as it is, and the disk too unless the inode is allocated.
Keeps(i) ==
  /\ valid'[i] <=> valid[i]
  /\ inode'[i] = inode[i]
  /\ dinode'[i] = dinode[i] \/ dinode[i].type = "free"

\* The state of the other processes, one by one.
LEMMA OthersSame ==
  ASSUME Typed, NEW p \in Procs, Others(p)
  PROVE  /\ \A q \in Procs : q # p =>
              /\ pc'[q] = pc[q] /\ call'[q] = call[q] /\ path'[q] = path[q] /\ new'[q] = new[q]
              /\ ip'[q] = ip[q] /\ dp'[q] = dp[q] /\ old'[q] = old[q] /\ puts'[q] = puts[q]
              /\ put'[q] = put[q] /\ cwd'[q] = cwd[q] /\ ofile'[q] = ofile[q]
         /\ IsFcn(pc', Procs) /\ IsFcn(call', Procs) /\ IsFcn(path', Procs) /\ IsFcn(new', Procs)
         /\ IsFcn(ip', Procs) /\ IsFcn(dp', Procs) /\ IsFcn(old', Procs) /\ IsFcn(puts', Procs)
         /\ IsFcn(put', Procs) /\ IsFcn(cwd', Procs) /\ IsFcn(ofile', Procs)
<1>1. IsFcn(pc', Procs) /\ \A q \in Procs : q # p => pc'[q] = pc[q]
  <2>1. IsFcn(pc, Procs) /\ pc' = [pc EXCEPT ![p] = pc'[p]]
    BY DEF Typed, Others
  <2> QED
    BY <2>1 DEF IsFcn
<1>2. IsFcn(call', Procs) /\ \A q \in Procs : q # p => call'[q] = call[q]
  <2>1. IsFcn(call, Procs) /\ call' = [call EXCEPT ![p] = call'[p]]
    BY DEF Typed, Others
  <2> QED
    BY <2>1 DEF IsFcn
<1>3. IsFcn(path', Procs) /\ \A q \in Procs : q # p => path'[q] = path[q]
  <2>1. IsFcn(path, Procs) /\ path' = [path EXCEPT ![p] = path'[p]]
    BY DEF Typed, Others
  <2> QED
    BY <2>1 DEF IsFcn
<1>4. IsFcn(new', Procs) /\ \A q \in Procs : q # p => new'[q] = new[q]
  <2>1. IsFcn(new, Procs) /\ new' = [new EXCEPT ![p] = new'[p]]
    BY DEF Typed, Others
  <2> QED
    BY <2>1 DEF IsFcn
<1>5. IsFcn(ip', Procs) /\ \A q \in Procs : q # p => ip'[q] = ip[q]
  <2>1. IsFcn(ip, Procs) /\ ip' = [ip EXCEPT ![p] = ip'[p]]
    BY DEF Typed, Others
  <2> QED
    BY <2>1 DEF IsFcn
<1>6. IsFcn(dp', Procs) /\ \A q \in Procs : q # p => dp'[q] = dp[q]
  <2>1. IsFcn(dp, Procs) /\ dp' = [dp EXCEPT ![p] = dp'[p]]
    BY DEF Typed, Others
  <2> QED
    BY <2>1 DEF IsFcn
<1>7. IsFcn(old', Procs) /\ \A q \in Procs : q # p => old'[q] = old[q]
  <2>1. IsFcn(old, Procs) /\ old' = [old EXCEPT ![p] = old'[p]]
    BY DEF Typed, Others
  <2> QED
    BY <2>1 DEF IsFcn
<1>8. IsFcn(puts', Procs) /\ \A q \in Procs : q # p => puts'[q] = puts[q]
  <2>1. IsFcn(puts, Procs) /\ puts' = [puts EXCEPT ![p] = puts'[p]]
    BY DEF Typed, Others
  <2> QED
    BY <2>1 DEF IsFcn
<1>9. IsFcn(put', Procs) /\ \A q \in Procs : q # p => put'[q] = put[q]
  <2>1. IsFcn(put, Procs) /\ put' = [put EXCEPT ![p] = put'[p]]
    BY DEF Typed, Others
  <2> QED
    BY <2>1 DEF IsFcn
<1>10. IsFcn(cwd', Procs) /\ \A q \in Procs : q # p => cwd'[q] = cwd[q]
  <2>1. IsFcn(cwd, Procs) /\ cwd' = [cwd EXCEPT ![p] = cwd'[p]]
    BY DEF Typed, Others
  <2> QED
    BY <2>1 DEF IsFcn
<1>11. IsFcn(ofile', Procs) /\ \A q \in Procs : q # p => ofile'[q] = ofile[q]
  <2>1. IsFcn(ofile, Procs) /\ ofile' = [ofile EXCEPT ![p] = ofile'[p]]
    BY DEF Typed, Others
  <2> QED
    BY <2>1 DEF IsFcn
<1> QED
  BY <1>1, <1>2, <1>3, <1>4, <1>5, <1>6, <1>7, <1>8, <1>9, <1>10, <1>11, Zenon

\* The types are kept.
LEMMA TypedStep ==
  ASSUME Typed, NEW p \in Procs, Others(p), ITyped', PTyped(p)'
  PROVE  Typed'
<1>1. \A q \in Procs : PTyped(q)'
  <2> SUFFICES ASSUME NEW q \in Procs, q # p PROVE PTyped(q)'
    OBVIOUS
  <2>1. PTyped(q)
    BY DEF Typed
  <2> QED
    BY <2>1, OthersSame DEF PTyped
<1> QED
  BY <1>1, OthersSame, Zenon DEF Typed

\* The sum of the references changes by those of p.
LEMMA RefDelta ==
  ASSUME Typed, NEW p \in Procs, Others(p), NEW i \in Inums
  PROVE  /\ RefSum(i) \in Int /\ RefSum(i)' = RefSum(i) + Mine(p, i)' - Mine(p, i)
         /\ RefSum(i)' \in Nat /\ RefSum(i)' <= 7 * Cardinality(Procs) /\ Cardinality(Procs) \in Nat
<1> USE InodesAssumption
<1> DEFINE A1 == {q \in Procs : cwd[q] = i}   B1 == {q \in Procs : cwd'[q] = i}
           A2 == {q \in Procs : ofile[q] = i} B2 == {q \in Procs : ofile'[q] = i}
           A3 == {q \in Procs : ip[q] = i}    B3 == {q \in Procs : ip'[q] = i}
           A4 == {q \in Procs : dp[q] = i}    B4 == {q \in Procs : dp'[q] = i}
           A5 == {q \in Procs : old[q] = i}   B5 == {q \in Procs : old'[q] = i}
           P2 == Procs \X {1, 2}
           A6 == {x \in P2 : x[2] \in DOMAIN puts[x[1]] /\ puts[x[1]][x[2]] = i}
           B6 == {x \in P2 : x[2] \in DOMAIN puts'[x[1]] /\ puts'[x[1]][x[2]] = i}
<1>1. /\ Cardinality(A1) \in Nat /\ Cardinality(B1) \in Nat
      /\ Cardinality(B1) = Cardinality(A1) + Bit(p \in B1) - Bit(p \in A1)
      /\ Cardinality(B1) <= Cardinality(Procs)
  <2>1. A1 \in SUBSET Procs /\ B1 \in SUBSET Procs /\ \A q \in Procs \ {p} : q \in A1 <=> q \in B1
    BY OthersSame
  <2> HIDE DEF A1, B1
  <2> QED
    BY <2>1, CountDelta, CountSome
<1>2. /\ Cardinality(A2) \in Nat /\ Cardinality(B2) \in Nat
      /\ Cardinality(B2) = Cardinality(A2) + Bit(p \in B2) - Bit(p \in A2)
      /\ Cardinality(B2) <= Cardinality(Procs)
  <2>1. A2 \in SUBSET Procs /\ B2 \in SUBSET Procs /\ \A q \in Procs \ {p} : q \in A2 <=> q \in B2
    BY OthersSame
  <2> HIDE DEF A2, B2
  <2> QED
    BY <2>1, CountDelta, CountSome
<1>3. /\ Cardinality(A3) \in Nat /\ Cardinality(B3) \in Nat
      /\ Cardinality(B3) = Cardinality(A3) + Bit(p \in B3) - Bit(p \in A3)
      /\ Cardinality(B3) <= Cardinality(Procs)
  <2>1. A3 \in SUBSET Procs /\ B3 \in SUBSET Procs /\ \A q \in Procs \ {p} : q \in A3 <=> q \in B3
    BY OthersSame
  <2> HIDE DEF A3, B3
  <2> QED
    BY <2>1, CountDelta, CountSome
<1>4. /\ Cardinality(A4) \in Nat /\ Cardinality(B4) \in Nat
      /\ Cardinality(B4) = Cardinality(A4) + Bit(p \in B4) - Bit(p \in A4)
      /\ Cardinality(B4) <= Cardinality(Procs)
  <2>1. A4 \in SUBSET Procs /\ B4 \in SUBSET Procs /\ \A q \in Procs \ {p} : q \in A4 <=> q \in B4
    BY OthersSame
  <2> HIDE DEF A4, B4
  <2> QED
    BY <2>1, CountDelta, CountSome
<1>5. /\ Cardinality(A5) \in Nat /\ Cardinality(B5) \in Nat
      /\ Cardinality(B5) = Cardinality(A5) + Bit(p \in B5) - Bit(p \in A5)
      /\ Cardinality(B5) <= Cardinality(Procs)
  <2>1. A5 \in SUBSET Procs /\ B5 \in SUBSET Procs /\ \A q \in Procs \ {p} : q \in A5 <=> q \in B5
    BY OthersSame
  <2> HIDE DEF A5, B5
  <2> QED
    BY <2>1, CountDelta, CountSome
<1>6. /\ Cardinality(A6) \in Nat /\ Cardinality(B6) \in Nat
      /\ Cardinality(B6) = Cardinality(A6) + Bit(<<p, 1>> \in B6) - Bit(<<p, 1>> \in A6)
                                           + Bit(<<p, 2>> \in B6) - Bit(<<p, 2>> \in A6)
      /\ Cardinality(B6) <= 2 * Cardinality(Procs) /\ Cardinality(Procs) \in Nat
  <2>1. IsFiniteSet({1, 2}) /\ Cardinality({1, 2}) = 2
    BY PairFinite
  <2>2. IsFiniteSet(P2) /\ Cardinality(P2) = Cardinality(Procs) * Cardinality({1, 2})
    BY <2>1, FS_Product
  <2>3. <<p, 1>> \in P2 /\ <<p, 2>> \in P2 /\ <<p, 1>> # <<p, 2>>
    OBVIOUS
  <2>4. A6 \in SUBSET P2 /\ B6 \in SUBSET P2
    OBVIOUS
  <2>5. \A x \in P2 \ {<<p, 1>>, <<p, 2>>} : x \in A6 <=> x \in B6
    <3> SUFFICES ASSUME NEW x \in P2 \ {<<p, 1>>, <<p, 2>>} PROVE x \in A6 <=> x \in B6
      OBVIOUS
    <3>1. x[1] \in Procs /\ x[1] # p
      OBVIOUS
    <3>2. puts'[x[1]] = puts[x[1]]
      BY <3>1, OthersSame
    <3> QED
      BY <3>2
  <2> HIDE DEF A6, B6, P2
  <2>6. PICK A, B, S, x, y : A = A6 /\ B = B6 /\ S = P2 /\ x = <<p, 1>> /\ y = <<p, 2>>
    OBVIOUS
  <2>7. /\ IsFiniteSet(S) /\ A \in SUBSET S /\ B \in SUBSET S /\ x \in S /\ y \in S /\ x # y
        /\ \A q \in S \ {x, y} : q \in A <=> q \in B
    BY <2>2, <2>3, <2>4, <2>5, <2>6, Zenon
  <2>8. /\ Cardinality(A) \in Nat /\ Cardinality(B) \in Nat
        /\ Cardinality(B) = Cardinality(A) + Bit(x \in B) - Bit(x \in A)
                                           + Bit(y \in B) - Bit(y \in A)
    BY <2>7, CountDelta2
  <2>9. Cardinality(B) <= Cardinality(S)
    BY <2>7, CountSome
  <2>10. Cardinality(Procs) \in Nat
    BY FS_CardinalityType
  <2>11. Cardinality(B6) <= 2 * Cardinality(Procs)
    BY <2>1, <2>2, <2>6, <2>9, <2>10
  <2> QED
    BY <2>6, <2>8, <2>10, <2>11, Zenon
<1>7. /\ (p \in A1 <=> cwd[p] = i) /\ (p \in B1 <=> cwd'[p] = i)
      /\ (p \in A2 <=> ofile[p] = i) /\ (p \in B2 <=> ofile'[p] = i)
      /\ (p \in A3 <=> ip[p] = i) /\ (p \in B3 <=> ip'[p] = i)
      /\ (p \in A4 <=> dp[p] = i) /\ (p \in B4 <=> dp'[p] = i)
      /\ (p \in A5 <=> old[p] = i) /\ (p \in B5 <=> old'[p] = i)
  OBVIOUS
<1>8. /\ (<<p, 1>> \in A6 <=> Nth(puts[p], 1, i)) /\ (<<p, 1>> \in B6 <=> Nth(puts'[p], 1, i))
      /\ (<<p, 2>> \in A6 <=> Nth(puts[p], 2, i)) /\ (<<p, 2>> \in B6 <=> Nth(puts'[p], 2, i))
  BY DEF Nth
<1>9. /\ RefSum(i) = Cardinality(A1) + Cardinality(A2) + Cardinality(A3) + Cardinality(A4)
                      + Cardinality(A5) + Cardinality(A6)
      /\ RefSum(i)' = Cardinality(B1) + Cardinality(B2) + Cardinality(B3) + Cardinality(B4)
                       + Cardinality(B5) + Cardinality(B6)
  BY DEF RefSum
<1> HIDE DEF A1, A2, A3, A4, A5, A6, B1, B2, B3, B4, B5, B6
<1>10. RefSum(i)' \in Nat /\ RefSum(i)' <= 7 * Cardinality(Procs) /\ Cardinality(Procs) \in Nat
  BY <1>1, <1>2, <1>3, <1>4, <1>5, <1>6, <1>9
<1>11. /\ Mine(p, i) = Bit(p \in A1) + Bit(p \in A2) + Bit(p \in A3) + Bit(p \in A4) + Bit(p \in A5)
                        + Bit(<<p, 1>> \in A6) + Bit(<<p, 2>> \in A6)
       /\ Mine(p, i)' = Bit(p \in B1) + Bit(p \in B2) + Bit(p \in B3) + Bit(p \in B4) + Bit(p \in B5)
                         + Bit(<<p, 1>> \in B6) + Bit(<<p, 2>> \in B6)
  BY <1>7, <1>8 DEF Mine, Bit
<1>12. /\ Bit(p \in A1) \in Int /\ Bit(p \in A2) \in Int /\ Bit(p \in A3) \in Int /\ Bit(p \in A4) \in Int
       /\ Bit(p \in A5) \in Int /\ Bit(<<p, 1>> \in A6) \in Int /\ Bit(<<p, 2>> \in A6) \in Int
       /\ Bit(p \in B1) \in Int /\ Bit(p \in B2) \in Int /\ Bit(p \in B3) \in Int /\ Bit(p \in B4) \in Int
       /\ Bit(p \in B5) \in Int /\ Bit(<<p, 1>> \in B6) \in Int /\ Bit(<<p, 2>> \in B6) \in Int
  BY DEF Bit
<1>13. RefSum(i) \in Int /\ RefSum(i)' = RefSum(i) + Mine(p, i)' - Mine(p, i)
  <2>1. PICK a1, a2, a3, a4, a5, a6, a7, b1, b2, b3, b4, b5, b6, b7 \in Int :
          /\ a1 = Bit(p \in A1) /\ a2 = Bit(p \in A2) /\ a3 = Bit(p \in A3) /\ a4 = Bit(p \in A4)
          /\ a5 = Bit(p \in A5) /\ a6 = Bit(<<p, 1>> \in A6) /\ a7 = Bit(<<p, 2>> \in A6)
          /\ b1 = Bit(p \in B1) /\ b2 = Bit(p \in B2) /\ b3 = Bit(p \in B3) /\ b4 = Bit(p \in B4)
          /\ b5 = Bit(p \in B5) /\ b6 = Bit(<<p, 1>> \in B6) /\ b7 = Bit(<<p, 2>> \in B6)
    BY <1>12, Zenon
  <2>2. /\ Mine(p, i) = a1 + a2 + a3 + a4 + a5 + a6 + a7
        /\ Mine(p, i)' = b1 + b2 + b3 + b4 + b5 + b6 + b7
    BY <1>11, <2>1, Zenon
  <2>3. /\ Cardinality(B1) = Cardinality(A1) + b1 - a1
        /\ Cardinality(B2) = Cardinality(A2) + b2 - a2
        /\ Cardinality(B3) = Cardinality(A3) + b3 - a3
        /\ Cardinality(B4) = Cardinality(A4) + b4 - a4
        /\ Cardinality(B5) = Cardinality(A5) + b5 - a5
        /\ Cardinality(B6) = Cardinality(A6) + b6 - a6 + b7 - a7
    BY <1>1, <1>2, <1>3, <1>4, <1>5, <1>6, <2>1, Zenon
  <2>4. /\ Cardinality(A1) \in Nat /\ Cardinality(A2) \in Nat /\ Cardinality(A3) \in Nat
        /\ Cardinality(A4) \in Nat /\ Cardinality(A5) \in Nat /\ Cardinality(A6) \in Nat
    BY <1>1, <1>2, <1>3, <1>4, <1>5, <1>6
  <2> QED
    BY <1>9, <2>2, <2>3, <2>4
<1> QED
  BY <1>10, <1>13

\* A process that refers to an inode counts, and twice if it is also to put it.
LEMMA RefSome ==
  ASSUME Typed, NEW p \in Procs, NEW q \in Procs, NEW i \in Inums
  PROVE  /\ RefSum(i) \in Nat
         /\ Nth(puts[p], 1, i) => RefSum(i) >= 1
         /\ Nth(puts[p], 1, i) /\ i \in {cwd[q], ofile[q], ip[q], dp[q], old[q]} => RefSum(i) >= 2
         /\ Nth(puts[p], 1, i) /\ p # q /\ Nth(puts[q], 1, i) => RefSum(i) >= 2
         /\ Nth(puts[p], 1, i) /\ Nth(puts[q], 2, i) => RefSum(i) >= 2
<1> USE InodesAssumption
<1> DEFINE A1 == {r \in Procs : cwd[r] = i}
           A2 == {r \in Procs : ofile[r] = i}
           A3 == {r \in Procs : ip[r] = i}
           A4 == {r \in Procs : dp[r] = i}
           A5 == {r \in Procs : old[r] = i}
           P2 == Procs \X {1, 2}
           A6 == {x \in P2 : x[2] \in DOMAIN puts[x[1]] /\ puts[x[1]][x[2]] = i}
<1>1. /\ A1 \in SUBSET Procs /\ A2 \in SUBSET Procs /\ A3 \in SUBSET Procs /\ A4 \in SUBSET Procs
      /\ A5 \in SUBSET Procs /\ A6 \in SUBSET P2
  OBVIOUS
<1>2. IsFiniteSet(P2) /\ Cardinality(P2) = 2 * Cardinality(Procs) /\ Cardinality(Procs) \in Nat
  <2>1. IsFiniteSet({1, 2}) /\ Cardinality({1, 2}) = 2
    BY PairFinite
  <2>2. IsFiniteSet(P2) /\ Cardinality(P2) = Cardinality(Procs) * Cardinality({1, 2})
    BY <2>1, FS_Product
  <2>3. Cardinality(Procs) \in Nat
    BY FS_CardinalityType
  <2> HIDE DEF P2
  <2> QED
    BY <2>1, <2>2, <2>3
<1>3. /\ q \in A1 <=> cwd[q] = i
      /\ q \in A2 <=> ofile[q] = i
      /\ q \in A3 <=> ip[q] = i
      /\ q \in A4 <=> dp[q] = i
      /\ q \in A5 <=> old[q] = i
      /\ \A r \in Procs : <<r, 1>> \in A6 <=> Nth(puts[r], 1, i)
      /\ \A r \in Procs : <<r, 2>> \in A6 <=> Nth(puts[r], 2, i)
      /\ \A r \in Procs : <<r, 1>> \in P2 /\ <<r, 2>> \in P2
      /\ <<p, 1>> # <<q, 2>> /\ (p # q => <<p, 1>> # <<q, 1>>)
  BY DEF Nth
<1>4. RefSum(i) = Cardinality(A1) + Cardinality(A2) + Cardinality(A3) + Cardinality(A4)
                   + Cardinality(A5) + Cardinality(A6)
  BY DEF RefSum
<1> HIDE DEF A1, A2, A3, A4, A5, A6, P2
<1>5. Cardinality(A1) \in Nat /\ Cardinality(A1) <= Cardinality(Procs) /\ (q \in A1 => Cardinality(A1) >= 1)
  BY <1>1, CountSome
<1>6. Cardinality(A2) \in Nat /\ Cardinality(A2) <= Cardinality(Procs) /\ (q \in A2 => Cardinality(A2) >= 1)
  BY <1>1, CountSome
<1>7. Cardinality(A3) \in Nat /\ Cardinality(A3) <= Cardinality(Procs) /\ (q \in A3 => Cardinality(A3) >= 1)
  BY <1>1, CountSome
<1>8. Cardinality(A4) \in Nat /\ Cardinality(A4) <= Cardinality(Procs) /\ (q \in A4 => Cardinality(A4) >= 1)
  BY <1>1, CountSome
<1>9. Cardinality(A5) \in Nat /\ Cardinality(A5) <= Cardinality(Procs) /\ (q \in A5 => Cardinality(A5) >= 1)
  BY <1>1, CountSome
<1>10. /\ Cardinality(A6) \in Nat /\ Cardinality(A6) <= Cardinality(P2)
       /\ <<p, 1>> \in A6 => Cardinality(A6) >= 1
  BY <1>1, <1>2, <1>3, CountSome
<1>11. /\ <<p, 1>> \in A6 /\ <<q, 2>> \in A6 => Cardinality(A6) >= 2
       /\ <<p, 1>> \in A6 /\ p # q /\ <<q, 1>> \in A6 => Cardinality(A6) >= 2
  <2>1. ASSUME <<p, 1>> \in A6, <<q, 2>> \in A6 PROVE Cardinality(A6) >= 2
    BY <1>1, <1>2, <1>3, <2>1, CountTwo
  <2>2. ASSUME <<p, 1>> \in A6, p # q, <<q, 1>> \in A6 PROVE Cardinality(A6) >= 2
    BY <1>1, <1>2, <1>3, <2>2, CountTwo
  <2> QED
    BY <2>1, <2>2
<1>12. RefSum(i) \in Nat /\ RefSum(i) <= 7 * Cardinality(Procs)
  BY <1>2, <1>4, <1>5, <1>6, <1>7, <1>8, <1>9, <1>10
<1>13. Nth(puts[p], 1, i) => RefSum(i) >= 1
  BY <1>3, <1>4, <1>5, <1>6, <1>7, <1>8, <1>9, <1>10
<1>14. Nth(puts[p], 1, i) /\ i \in {cwd[q], ofile[q], ip[q], dp[q], old[q]} => RefSum(i) >= 2
  BY <1>3, <1>4, <1>5, <1>6, <1>7, <1>8, <1>9, <1>10
<1>15. /\ Nth(puts[p], 1, i) /\ p # q /\ Nth(puts[q], 1, i) => RefSum(i) >= 2
       /\ Nth(puts[p], 1, i) /\ Nth(puts[q], 2, i) => RefSum(i) >= 2
  BY <1>3, <1>4, <1>5, <1>6, <1>7, <1>8, <1>9, <1>10, <1>11
<1> QED
  BY <1>2, <1>12, <1>13, <1>14, <1>15

\* The sequences of inodes to put.
LEMMA SeqShape ==
  ASSUME NEW S, NEW s \in Seq2(S)
  PROVE  /\ s # <<>> => Head(s) \in S /\ 1 \in DOMAIN s /\ s[1] = Head(s) /\ Tail(s) \in Seq2(S)
         /\ \A i : Nth(s, 1, i) => s # <<>> /\ Head(s) = i
         /\ \A i : s # <<>> => (Nth(Tail(s), 1, i) <=> Nth(s, 2, i)) /\ ~Nth(Tail(s), 2, i)
         /\ \A i : ~Nth(<<>>, 1, i) /\ ~Nth(<<>>, 2, i)
         /\ \A i, j : (Nth(<<j>>, 1, i) <=> i = j) /\ ~Nth(<<j>>, 2, i)
         /\ \A i, j, k : (Nth(<<j, k>>, 1, i) <=> i = j) /\ (Nth(<<j, k>>, 2, i) <=> i = k)
<1>1. /\ \A i : ~Nth(<<>>, 1, i) /\ ~Nth(<<>>, 2, i)
      /\ \A i, j : (Nth(<<j>>, 1, i) <=> i = j) /\ ~Nth(<<j>>, 2, i)
      /\ \A i, j, k : (Nth(<<j, k>>, 1, i) <=> i = j) /\ (Nth(<<j, k>>, 2, i) <=> i = k)
  BY DEF Nth
<1>2. CASE s = <<>>
  BY <1>1, <1>2
<1>3. CASE \E a \in S : s = <<a>>
  <2>1. PICK a \in S : s = <<a>>
    BY <1>3
  <2>2. Head(s) = a /\ 1 \in DOMAIN s /\ s[1] = a /\ Tail(s) = <<>> /\ s # <<>>
    BY <2>1
  <2> QED
    BY <1>1, <2>1, <2>2 DEF Seq2
<1>4. CASE \E a, b \in S : s = <<a, b>>
  <2>1. PICK a, b \in S : s = <<a, b>>
    BY <1>4
  <2>2. Head(s) = a /\ 1 \in DOMAIN s /\ s[1] = a /\ Tail(s) = <<b>> /\ s # <<>>
    BY <2>1
  <2> QED
    BY <1>1, <2>1, <2>2 DEF Seq2
<1> QED
  BY <1>2, <1>3, <1>4 DEF Seq2

\* A step of process p keeps the invariant of the cache, if it keeps what is
\* said of p itself, of the inodes that p has locked and of those it changes.
LEMMA CacheStep ==
  ASSUME CacheInv, panicked = None, NEW p \in Procs, Others(p), ITyped', PTyped(p)',
         Local(p)', HeldOK(p)', FreeOK(p)',
         panicked' = None \/ ref' = ref,
         panicked' = None => \A i \in Inums : ref'[i] = ref[i] + Mine(p, i)' - Mine(p, i),
         put[p] = "free" => ~valid'[Head(puts[p])],
         \A i \in Inums : lock'[i] = lock[i] \/ lock[i] \in {None, p},
         \A i \in Inums : Keeps(i) \/ Sound(i)' \/ ~valid'[i] \/ (put'[p] = "free" /\ Head(puts'[p]) = i),
         \A i \in Inums : Keeps(i) \/ lock[i] \in {None, p} \/ \A q \in Procs : ~Holds(q, i)
  PROVE  CacheInv'
<1>1. Typed /\ \A q \in Procs : Local(q) /\ HeldOK(q) /\ FreeOK(q) /\ PTyped(q)
  BY DEF CacheInv, Typed
<1>2. Typed'
  BY <1>1, TypedStep
<1>3. RefEq'
  <2> SUFFICES ASSUME panicked' = None, NEW i \in Inums PROVE ref'[i] = RefSum(i)'
    BY DEF RefEq
  <2>1. ref[i] = RefSum(i) /\ ref'[i] = ref[i] + Mine(p, i)' - Mine(p, i)
    BY DEF CacheInv, RefEq
  <2> QED
    BY <1>1, <2>1, RefDelta
<1>4. RefBound'
  <2> SUFFICES ASSUME NEW i \in Inums PROVE ref'[i] \in 0 .. 8 * Cardinality(Procs)
    BY DEF RefBound
  <2>1. CASE panicked' = None
    <3>1. ref'[i] = RefSum(i)'
      BY <1>3, <2>1 DEF RefEq
    <3>2. RefSum(i)' \in Nat /\ RefSum(i)' <= 7 * Cardinality(Procs) /\ Cardinality(Procs) \in Nat
      BY <1>1, RefDelta
    <3> QED
      BY <3>1, <3>2
  <2>2. CASE ref' = ref
    BY <2>2 DEF CacheInv, RefBound
  <2> QED
    BY <2>1, <2>2
<1>5. ASSUME NEW q \in Procs, q # p
      PROVE  /\ pc'[q] = pc[q] /\ call'[q] = call[q] /\ path'[q] = path[q] /\ new'[q] = new[q]
             /\ ip'[q] = ip[q] /\ dp'[q] = dp[q] /\ old'[q] = old[q] /\ puts'[q] = puts[q]
             /\ put'[q] = put[q]
  BY <1>1, <1>5, OthersSame
<1>6. ASSUME NEW q \in Procs PROVE Local(q)'
  <2>1. CASE q = p
    BY <2>1
  <2>2. CASE q # p
    BY <1>1, <1>5, <2>2 DEF Local, Named
  <2> QED
    BY <2>1, <2>2
<1>7. ASSUME NEW q \in Procs PROVE HeldOK(q)'
  <2>1. CASE q = p
    BY <2>1
  <2>2. CASE q # p
    <3> SUFFICES ASSUME NEW i \in Inums, Holds(q, i)' PROVE lock'[i] = q /\ Sound(i)'
      BY DEF HeldOK
    <3>1. Holds(q, i)
      BY <1>5, <2>2 DEF Holds
    <3>2. lock[i] = q /\ Sound(i)
      BY <1>1, <3>1 DEF HeldOK
    <3>3. lock[i] \notin {None, p}
      BY <2>2, <3>2, InodesAssumption
    <3>4. lock'[i] = q /\ Keeps(i)
      BY <3>1, <3>2, <3>3
    <3> QED
      BY <3>2, <3>4 DEF Sound, Keeps
  <2> QED
    BY <2>1, <2>2
<1>8. ASSUME NEW q \in Procs PROVE FreeOK(q)'
  <2>1. CASE q = p
    BY <2>1
  <2>2. CASE q # p
    <3> SUFFICES ASSUME put[q] = "free" PROVE lock'[Head(puts[q])] = q /\ ~Holds(q, Head(puts[q]))'
      BY <1>5, <2>2 DEF FreeOK
    <3>1. lock[Head(puts[q])] = q /\ ~Holds(q, Head(puts[q]))
      BY <1>1 DEF FreeOK
    <3>2. Head(puts[q]) \in Inums
      BY <1>1, SeqShape DEF PTyped, Local
    <3>3. lock'[Head(puts[q])] = q
      BY <2>2, <3>1, <3>2, InodesAssumption
    <3> QED
      BY <1>5, <2>2, <3>1, <3>3 DEF Holds
  <2> QED
    BY <2>1, <2>2
<1>9. ASSUME NEW i \in Inums PROVE CacheOK(i)'
  <2> SUFFICES ASSUME valid'[i], ~Sound(i)' PROVE Freeing(i)'
    BY DEF CacheOK
  <2>1. CASE put'[p] = "free" /\ Head(puts'[p]) = i
    BY <2>1 DEF Freeing
  <2>2. CASE Keeps(i)
    <3>1. valid[i] /\ ~Sound(i)
      BY <2>2 DEF Keeps, Sound
    <3>2. PICK q \in Procs : put[q] = "free" /\ Head(puts[q]) = i
      BY <3>1 DEF CacheInv, CacheOK, Freeing
    <3>3. q # p
      BY <3>2
    <3> QED
      BY <1>5, <3>2, <3>3 DEF Freeing
  <2> QED
    BY <2>1, <2>2
<1> QED
  BY <1>2, <1>3, <1>4, <1>6, <1>7, <1>8, <1>9 DEF CacheInv

\* The copy that ilock() gives is what the disk has.
LEMMA CopyRight ==
  ASSUME CacheInv, NEW i \in Inums, CanLock(i)
  PROVE  /\ Copy(i) = dinode[i] /\ Copy(i) \in Copies
         /\ valid[i] => Sound(i)
<1>1. ~Freeing(i)
  <2> SUFFICES ASSUME NEW q \in Procs, put[q] = "free", Head(puts[q]) = i PROVE FALSE
    BY DEF Freeing
  <2>1. lock[i] = q
    BY DEF CacheInv, FreeOK
  <2> QED
    BY <2>1, InodesAssumption DEF CanLock
<1>2. valid[i] => Sound(i)
  BY <1>1 DEF CacheInv, CacheOK
<1>3. dinode[i] \in Copies
  BY DEF CacheInv, Typed, ITyped
<1> QED
  BY <1>2, <1>3 DEF Copy, Sound

\* The same for a step of a call that has nothing to put, with what it locks.
LEMMA CallStep ==
  ASSUME CacheInv, panicked = None, NEW p \in Procs, puts[p] = <<>>, Others(p), put'[p] = put[p],
         ITyped', PTyped(p)', Local(p)', HeldOK(p)',
         panicked' = None \/ ref' = ref,
         panicked' = None => \A i \in Inums : ref'[i] = ref[i] + Mine(p, i)' - Mine(p, i),
         \A i \in Inums : lock'[i] = lock[i] \/ lock[i] \in {None, p},
         \A i \in Inums : Keeps(i) \/ (Sound(i)' /\ lock[i] \in {None, p})
  PROVE  CacheInv'
<1>1. put[p] = "lock"
  BY DEF CacheInv, Local, Typed, PTyped
<1>2. FreeOK(p)' /\ put[p] # "free"
  BY <1>1 DEF FreeOK
<1>3. /\ \A i \in Inums : Keeps(i) \/ Sound(i)' \/ ~valid'[i] \/ (put'[p] = "free" /\ Head(puts'[p]) = i)
      /\ \A i \in Inums : Keeps(i) \/ lock[i] \in {None, p} \/ \A q \in Procs : ~Holds(q, i)
  BY Zenon
<1> QED
  BY <1>2, <1>3, CacheStep, Zenon

\* What is known of a process that goes on with its call.
LEMMA AtFacts ==
  ASSUME CacheInv, NEW p \in Procs, NEW point, At(p, point)
  PROVE  /\ Typed /\ ITyped /\ PTyped(p) /\ Local(p) /\ HeldOK(p)
         /\ panicked = None /\ puts[p] = <<>> /\ pc[p] = point /\ put[p] = "lock"
         /\ \A i : ~Nth(puts[p], 1, i) /\ ~Nth(puts[p], 2, i)
         /\ IsFcn(pc, Procs) /\ IsFcn(call, Procs) /\ IsFcn(path, Procs) /\ IsFcn(new, Procs)
         /\ IsFcn(ip, Procs) /\ IsFcn(dp, Procs) /\ IsFcn(old, Procs) /\ IsFcn(puts, Procs)
         /\ IsFcn(put, Procs) /\ IsFcn(cwd, Procs) /\ IsFcn(ofile, Procs)
<1>1. Typed /\ ITyped /\ PTyped(p) /\ Local(p) /\ HeldOK(p)
  BY DEF CacheInv, Typed
<1>2. panicked = None /\ puts[p] = <<>> /\ pc[p] = point
  BY DEF At
<1>3. put[p] = "lock"
  BY <1>1, <1>2 DEF Local, PTyped
<1>4. \A i : ~Nth(puts[p], 1, i) /\ ~Nth(puts[p], 2, i)
  BY <1>2 DEF Nth
<1> QED
  BY <1>1, <1>2, <1>3, <1>4, Zenon DEF Typed

\* ilock() of an inode: the copy is right, and nothing else changes in the cache.
LEMMA LoadRight ==
  ASSUME CacheInv, NEW i \in Inums, CanLock(i), ~NoType(i), Load(i), dinode' = dinode
  PROVE  /\ dinode' \in [Inums -> Copies] /\ inode' \in [Inums -> Copies] /\ valid' \in [Inums -> BOOLEAN]
         /\ Copy(i) = dinode[i] /\ Sound(i)' /\ \A j \in Inums : Keeps(j) \/ j = i
         /\ lock[i] = None
<1>1. ITyped
  BY DEF CacheInv, Typed
<1>2. Copy(i) = dinode[i] /\ Copy(i) \in Copies
  BY CopyRight
<1>3. /\ inode' = [inode EXCEPT ![i] = Copy(i)] /\ valid' = [valid EXCEPT ![i] = TRUE]
      /\ dinode[i].type # "free" /\ lock[i] = None
  BY <1>2 DEF Load, NoType, CanLock
<1>4. dinode' \in [Inums -> Copies] /\ inode' \in [Inums -> Copies] /\ valid' \in [Inums -> BOOLEAN]
  BY <1>1, <1>2, <1>3 DEF ITyped
<1>5. Sound(i)'
  BY <1>1, <1>2, <1>3 DEF Sound, ITyped
<1>6. \A j \in Inums : Keeps(j) \/ j = i
  BY <1>1, <1>3 DEF Keeps, ITyped
<1> QED
  BY <1>2, <1>3, <1>4, <1>5, <1>6

\* iget(): one reference more, or a panic.
LEMMA GetRight ==
  ASSUME CacheInv, NEW i \in Inums, Get(i), panicked = None
  PROVE  /\ ref' \in [Inums -> Int]
         /\ panicked' = None \/ ref' = ref
         /\ panicked' = None => \A j \in Inums : ref'[j] = ref[j] + Bit(j = i)
         /\ panicked' # "unlink"
<1>1. ref \in [Inums -> Int]
  BY DEF CacheInv, Typed, ITyped
<1>2. None # "iget" /\ None # "unlink"
  BY InodesAssumption DEF Panics
<1>3. CASE ref[i] = 0 /\ Cardinality({j \in Inums : ref[j] > 0}) >= NINODE
  BY <1>1, <1>2, <1>3 DEF Get
<1>4. CASE ~(ref[i] = 0 /\ Cardinality({j \in Inums : ref[j] > 0}) >= NINODE)
  <2>1. ref' = [ref EXCEPT ![i] = @ + 1] /\ panicked' = panicked
    BY <1>4, Zenon DEF Get
  <2> QED
    BY <1>1, <1>2, <2>1 DEF Bit
<1> QED
  BY <1>3, <1>4

\* None is no inode, no call and no process.
LEMMA NoneApart ==
  /\ None \notin Inums /\ None # 0 /\ None \notin Ops /\ None # "link2" /\ None \notin Procs
  /\ None \notin Creates /\ None \notin Parent
  BY InodesAssumption DEF Inums, Ops, Creates, Parent

\* Short sequences, and what they contain.
LEMMA SeqIn ==
  ASSUME NEW S
  PROVE  <<>> \in Seq2(S) /\ \A a \in S : <<a>> \in Seq2(S) /\ \A b \in S : <<a, b>> \in Seq2(S)
  BY DEF Seq2

\* The references of a process whose call has nothing to put, and after a step.
LEMMA MineFrom ==
  ASSUME NEW p \in Procs, puts[p] = <<>>, NEW j
  PROVE  Mine(p, j) = Bit(cwd[p] = j) + Bit(ofile[p] = j) + Bit(ip[p] = j) + Bit(dp[p] = j) + Bit(old[p] = j)
<1>1. ~Nth(puts[p], 1, j) /\ ~Nth(puts[p], 2, j)
  BY DEF Nth
<1> QED
  BY <1>1 DEF Mine, Bit

\* The references of a process that has no iput() to do.
LEMMA MineZero ==
  ASSUME NEW p \in Procs, puts'[p] = <<>>, NEW j
  PROVE  Mine(p, j)' = Bit(cwd'[p] = j) + Bit(ofile'[p] = j) + Bit(ip'[p] = j) + Bit(dp'[p] = j)
                       + Bit(old'[p] = j)
<1>1. ~Nth(puts'[p], 1, j) /\ ~Nth(puts'[p], 2, j)
  BY DEF Nth
<1> QED
  BY <1>1 DEF Mine, Bit

\* With one iput() to do.
LEMMA MineOne ==
  ASSUME NEW p \in Procs, NEW a, puts'[p] = <<a>>, NEW j
  PROVE  Mine(p, j)' = Bit(cwd'[p] = j) + Bit(ofile'[p] = j) + Bit(ip'[p] = j) + Bit(dp'[p] = j)
                       + Bit(old'[p] = j) + Bit(a = j)
<1>1. (Nth(puts'[p], 1, j) <=> a = j) /\ ~Nth(puts'[p], 2, j)
  BY DEF Nth
<1> QED
  BY <1>1 DEF Mine, Bit

\* With two iput()s to do.
LEMMA MineTwo ==
  ASSUME NEW p \in Procs, NEW a, NEW b, puts'[p] = <<a, b>>, NEW j
  PROVE  Mine(p, j)' = Bit(cwd'[p] = j) + Bit(ofile'[p] = j) + Bit(ip'[p] = j) + Bit(dp'[p] = j)
                       + Bit(old'[p] = j) + Bit(a = j) + Bit(b = j)
<1>1. (Nth(puts'[p], 1, j) <=> a = j) /\ (Nth(puts'[p], 2, j) <=> b = j)
  BY DEF Nth
<1> QED
  BY <1>1 DEF Mine, Bit

\* A call that has returned, but for what it has to put.
LEMMA ReturnLocal ==
  ASSUME CacheInv, NEW p \in Procs, put[p] = "lock", put'[p] = put[p],
         pc'[p] = "idle", call'[p] = None, path'[p] = <<>>, new'[p] = <<>>,
         ip'[p] = None, dp'[p] = None, old'[p] = None,
         cwd'[p] \in Inums, ofile'[p] \in Inums \cup {None}, puts'[p] \in Seq2(Inums)
  PROVE  PTyped(p)' /\ Local(p)' /\ HeldOK(p)'
<1>1. path'[p] \in Seq2(Elements)
  BY SeqIn
<1>2. PTyped(p)'
  BY <1>1 DEF PTyped, Points
<1>3. Local(p)'
  BY NoneApart DEF Local, WithIp, WithDp, Named, Ops
<1>4. HeldOK(p)'
  BY DEF HeldOK, Holds, WithDp
<1> QED
  BY <1>2, <1>3, <1>4

\* A step of a call that calls ilock(), and unlocks the inode or keeps it locked.
LEMMA LoadStep ==
  ASSUME CacheInv, panicked = None, NEW p \in Procs, puts[p] = <<>>, Others(p), put'[p] = put[p],
         NEW i \in Inums, CanLock(i), ~NoType(i), Load(i), dinode' = dinode,
         lock' = lock \/ lock' = [lock EXCEPT ![i] = p],
         ent' \in [Inums -> [EntNames -> 0 .. NInodes]], ref' \in [Inums -> Int], calls' = calls,
         PTyped(p)', Local(p)', HeldOK(p)',
         panicked' = None \/ ref' = ref,
         panicked' = None => \A j \in Inums : ref'[j] = ref[j] + Mine(p, j)' - Mine(p, j)
  PROVE  CacheInv'
<1>1. ITyped
  BY DEF CacheInv, Typed
<1>2. /\ dinode' \in [Inums -> Copies] /\ inode' \in [Inums -> Copies] /\ valid' \in [Inums -> BOOLEAN]
      /\ Sound(i)' /\ \A j \in Inums : Keeps(j) \/ j = i
      /\ lock[i] = None
  BY LoadRight
<1>3. lock' \in [Inums -> Procs \cup {None}] /\ \A j \in Inums : lock'[j] = lock[j] \/ lock[j] \in {None, p}
  BY <1>1, <1>2 DEF ITyped
<1>4. ITyped'
  BY <1>1, <1>2, <1>3 DEF ITyped
<1>5. \A j \in Inums : Keeps(j) \/ (Sound(j)' /\ lock[j] \in {None, p})
  BY <1>2
<1> QED
  BY <1>3, <1>4, <1>5, CallStep, Zenon

\* chdir() keeps the cache right.
LEMMA ChdirCache ==
  ASSUME CacheInv, NEW p \in Procs, Chdir(p)
  PROVE  CacheInv'
<1>1. At(p, "found") /\ call[p] = "chdir" /\ CanLock(ip[p]) /\ ~NoType(ip[p]) /\ Load(ip[p])
  BY DEF Chdir
<1>2. /\ Typed /\ ITyped /\ PTyped(p) /\ Local(p) /\ HeldOK(p)
      /\ panicked = None /\ puts[p] = <<>> /\ pc[p] = "found" /\ put[p] = "lock"
  BY <1>1, AtFacts
<1>3. PICK i, c \in Inums : i = ip[p] /\ c = cwd[p] /\ dp[p] = None /\ old[p] = None
  BY <1>1, <1>2 DEF Local, PTyped, WithIp, WithDp
<1>4. Others(p)
  BY <1>2 DEF Chdir, Return, Goto, Set, Others, IsFcn, Typed, args
<1>5. /\ pc'[p] = "idle" /\ call'[p] = None /\ path'[p] = <<>> /\ new'[p] = <<>>
      /\ ip'[p] = None /\ dp'[p] = None /\ old'[p] = None /\ put'[p] = put[p]
      /\ ofile'[p] = ofile[p]
      /\ \/ puts'[p] = <<i>> /\ cwd'[p] = c
         \/ puts'[p] = <<c>> /\ cwd'[p] = i
  BY <1>2, <1>3 DEF Chdir, Return, Goto, Set, IsFcn, Typed
<1>6. PICK a \in Inums : puts'[p] = <<a>> /\ ((a = i /\ cwd'[p] = c) \/ (a = c /\ cwd'[p] = i))
  BY <1>5
<1>7. /\ dinode' = dinode /\ ent' = ent /\ lock' = lock /\ ref' = ref
      /\ panicked' = panicked /\ calls' = calls
  BY DEF Chdir, disk
<1>8. PTyped(p)' /\ Local(p)' /\ HeldOK(p)'
  <2>1. puts'[p] \in Seq2(Inums)
    BY <1>6, SeqIn
  <2> QED
    BY <1>2, <1>5, <1>6, <2>1, ReturnLocal DEF PTyped
<1>9. ASSUME NEW j \in Inums PROVE ref'[j] = ref[j] + Mine(p, j)' - Mine(p, j)
  <2>1. Mine(p, j) = Bit(cwd[p] = j) + Bit(ofile[p] = j) + Bit(ip[p] = j) + Bit(dp[p] = j) + Bit(old[p] = j)
    BY <1>2, MineFrom
  <2>2. Mine(p, j)' = Bit(cwd'[p] = j) + Bit(ofile'[p] = j) + Bit(ip'[p] = j) + Bit(dp'[p] = j) + Bit(old'[p] = j) + Bit(a = j)
    BY <1>5, <1>6, <1>7, MineOne
  <2> QED
    BY <1>2, <1>3, <1>5, <1>6, <1>7, <1>9, <2>1, <2>2, NoneApart DEF Bit, ITyped, PTyped
<1> QED
  BY <1>1, <1>2, <1>3, <1>4, <1>5, <1>7, <1>8, <1>9, LoadStep DEF ITyped

\* A call that returns with its inode put, or kept in the open file.
LEMMA EndCall ==
  ASSUME CacheInv, NEW p \in Procs, puts[p] = <<>>, put[p] = "lock", put'[p] = put[p],
         NEW i \in Inums, ip[p] = i, dp[p] = None, old[p] = None,
         pc'[p] = "idle", call'[p] = None, path'[p] = <<>>, new'[p] = <<>>,
         ip'[p] = None, dp'[p] = None, old'[p] = None, cwd'[p] = cwd[p],
         \/ puts'[p] = <<i>> /\ ofile'[p] = ofile[p]
         \/ puts'[p] = <<>> /\ ofile[p] = None /\ ofile'[p] = i
  PROVE  /\ PTyped(p)' /\ Local(p)' /\ HeldOK(p)'
         /\ \A j \in Inums : Mine(p, j)' = Mine(p, j) /\ Mine(p, j) \in Int
<1>1. PTyped(p)
  BY DEF CacheInv, Typed
<1>2. puts'[p] \in Seq2(Inums)
  BY SeqIn
<1>3. PTyped(p)' /\ Local(p)' /\ HeldOK(p)'
  BY <1>1, <1>2, ReturnLocal DEF PTyped
<1>4. ASSUME NEW j \in Inums PROVE Mine(p, j)' = Mine(p, j) /\ Mine(p, j) \in Int
  <2>1. Mine(p, j) = Bit(cwd[p] = j) + Bit(ofile[p] = j) + Bit(ip[p] = j) + Bit(dp[p] = j) + Bit(old[p] = j)
    BY MineFrom
  <2>2. CASE puts'[p] = <<i>> /\ ofile'[p] = ofile[p]
    <3>1. Mine(p, j)' = Bit(cwd'[p] = j) + Bit(ofile'[p] = j) + Bit(ip'[p] = j) + Bit(dp'[p] = j)
                        + Bit(old'[p] = j) + Bit(i = j)
      BY <2>2, MineOne
    <3> QED
      BY <2>1, <2>2, <3>1, NoneApart DEF Bit
  <2>3. CASE puts'[p] = <<>> /\ ofile[p] = None /\ ofile'[p] = i
    <3>1. Mine(p, j)' = Bit(cwd'[p] = j) + Bit(ofile'[p] = j) + Bit(ip'[p] = j) + Bit(dp'[p] = j)
                        + Bit(old'[p] = j)
      BY <2>3, MineZero
    <3> QED
      BY <2>1, <2>3, <3>1, NoneApart DEF Bit
  <2> QED
    BY <2>2, <2>3
<1> QED
  BY <1>3, <1>4

\* A call that fails with its inode to put; link() has the link to take back.
LEMMA FailRight ==
  ASSUME CacheInv, NEW p \in Procs, puts[p] = <<>>, put[p] = "lock", NEW i \in Inums, ip[p] = i,
         pc[p] \in {"namex", "found"}, Fail(p, i), UNCHANGED <<dp, old, put, held>>
  PROVE  /\ Others(p) /\ put'[p] = put[p] /\ PTyped(p)' /\ Local(p)' /\ HeldOK(p)'
         /\ \A j \in Inums : Mine(p, j)' = Mine(p, j) /\ Mine(p, j) \in Int
<1>1. Typed /\ PTyped(p) /\ Local(p)
  BY DEF CacheInv, Typed
<1>2. Others(p)
  BY <1>1 DEF Fail, Return, Goto, Set, Others, IsFcn, Typed, args, held
<1>3. /\ ip'[p] = None /\ dp'[p] = dp[p] /\ old'[p] = old[p] /\ put'[p] = put[p] /\ cwd'[p] = cwd[p]
      /\ ofile'[p] = ofile[p] /\ puts'[p] = <<i>> /\ dp[p] = None
  BY <1>1 DEF Fail, Set, IsFcn, Typed, held, Local, WithDp
<1>4. CASE call[p] = "link2"
  <2>1. pc'[p] = "linkbad" /\ call' = call /\ path' = path /\ new' = new
    BY <1>1, <1>4 DEF Fail, Goto, IsFcn, Typed, args
  <2>2. puts'[p] \in Seq2(Inums)
    BY <1>3, SeqIn
  <2>3. PTyped(p)'
    BY <1>1, <1>3, <2>1, <2>2 DEF PTyped, Points
  <2>4. Local(p)'
    BY <1>1, <1>3, <1>4, <2>1, NoneApart DEF Local, WithIp, WithDp, Named
  <2>5. HeldOK(p)'
    BY <2>1 DEF HeldOK, Holds, WithDp
  <2>6. ASSUME NEW j \in Inums PROVE Mine(p, j)' = Mine(p, j) /\ Mine(p, j) \in Int
    <3>1. Mine(p, j) = Bit(cwd[p] = j) + Bit(ofile[p] = j) + Bit(ip[p] = j) + Bit(dp[p] = j) + Bit(old[p] = j)
      BY MineFrom
    <3>2. Mine(p, j)' = Bit(cwd'[p] = j) + Bit(ofile'[p] = j) + Bit(ip'[p] = j) + Bit(dp'[p] = j)
                        + Bit(old'[p] = j) + Bit(i = j)
      BY <1>3, MineOne
    <3> QED
      BY <1>3, <3>1, <3>2, NoneApart DEF Bit
  <2> QED
    BY <1>2, <1>3, <2>3, <2>4, <2>5, <2>6
<1>5. CASE call[p] # "link2"
  <2>1. pc'[p] = "idle" /\ call'[p] = None /\ path'[p] = <<>> /\ new'[p] = <<>>
    BY <1>1, <1>5 DEF Fail, Return, Goto, Set, IsFcn, Typed
  <2>2. old[p] = None
    BY <1>1, <1>5 DEF Local
  <2> QED
    BY <1>2, <1>3, <2>1, <2>2, EndCall
<1> QED
  BY <1>4, <1>5

\* open() keeps the cache right.
LEMMA OpenCache ==
  ASSUME CacheInv, NEW p \in Procs, NEW readonly \in BOOLEAN, Open(p, readonly)
  PROVE  CacheInv'
<1>1. At(p, "found") /\ call[p] = "open" /\ CanLock(ip[p]) /\ ~NoType(ip[p]) /\ Load(ip[p])
  BY DEF Open
<1>2. /\ Typed /\ ITyped /\ PTyped(p) /\ Local(p) /\ HeldOK(p)
      /\ panicked = None /\ puts[p] = <<>> /\ pc[p] = "found" /\ put[p] = "lock"
  BY <1>1, AtFacts
<1>3. PICK i \in Inums : i = ip[p] /\ dp[p] = None /\ old[p] = None
  BY <1>1, <1>2 DEF Local, PTyped, WithIp, WithDp
<1>4. Others(p)
  BY <1>2 DEF Open, OpenFile, Return, Goto, Set, Others, IsFcn, Typed
<1>5. /\ pc'[p] = "idle" /\ call'[p] = None /\ path'[p] = <<>> /\ new'[p] = <<>>
      /\ ip'[p] = None /\ dp'[p] = None /\ old'[p] = None /\ put'[p] = put[p] /\ cwd'[p] = cwd[p]
      /\ \/ puts'[p] = <<i>> /\ ofile'[p] = ofile[p]
         \/ puts'[p] = <<>> /\ ofile[p] = None /\ ofile'[p] = i
  BY <1>2, <1>3 DEF Open, OpenFile, Return, Goto, Set, IsFcn, Typed
<1>6. /\ dinode' = dinode /\ ent' = ent /\ lock' = lock /\ ref' = ref
      /\ panicked' = panicked /\ calls' = calls
  BY DEF Open, disk
<1>7. /\ PTyped(p)' /\ Local(p)' /\ HeldOK(p)'
      /\ \A j \in Inums : Mine(p, j)' = Mine(p, j) /\ Mine(p, j) \in Int
  BY <1>2, <1>3, <1>5, EndCall
<1>8. \A j \in Inums : ref'[j] = ref[j] + Mine(p, j)' - Mine(p, j)
  BY <1>2, <1>6, <1>7 DEF ITyped
<1> QED
  BY <1>1, <1>2, <1>3, <1>4, <1>5, <1>6, <1>7, <1>8, LoadStep DEF ITyped

\* open() with O_CREATE, mkdir() or mknod() of a name that exists.
LEMMA CreateOldCache ==
  ASSUME CacheInv, NEW p \in Procs, CreateOld(p)
  PROVE  CacheInv'
<1>1. At(p, "createold") /\ CanLock(ip[p]) /\ ~NoType(ip[p]) /\ Load(ip[p])
  BY DEF CreateOld
<1>2. /\ Typed /\ ITyped /\ PTyped(p) /\ Local(p) /\ HeldOK(p)
      /\ panicked = None /\ puts[p] = <<>> /\ pc[p] = "createold" /\ put[p] = "lock"
  BY <1>1, AtFacts
<1>3. PICK i \in Inums : i = ip[p] /\ dp[p] = None /\ old[p] = None
  BY <1>1, <1>2 DEF Local, PTyped, WithIp, WithDp, Creates
<1>4. Others(p)
  BY <1>2 DEF CreateOld, OpenFile, Return, Goto, Set, Others, IsFcn, Typed
<1>5. /\ pc'[p] = "idle" /\ call'[p] = None /\ path'[p] = <<>> /\ new'[p] = <<>>
      /\ ip'[p] = None /\ dp'[p] = None /\ old'[p] = None /\ put'[p] = put[p] /\ cwd'[p] = cwd[p]
      /\ \/ puts'[p] = <<i>> /\ ofile'[p] = ofile[p]
         \/ puts'[p] = <<>> /\ ofile[p] = None /\ ofile'[p] = i
  BY <1>2, <1>3 DEF CreateOld, OpenFile, Return, Goto, Set, IsFcn, Typed
<1>6. /\ dinode' = dinode /\ ent' = ent /\ lock' = lock /\ ref' = ref
      /\ panicked' = panicked /\ calls' = calls
  BY DEF CreateOld, disk
<1>7. /\ PTyped(p)' /\ Local(p)' /\ HeldOK(p)'
      /\ \A j \in Inums : Mine(p, j)' = Mine(p, j) /\ Mine(p, j) \in Int
  BY <1>2, <1>3, <1>5, EndCall
<1>8. \A j \in Inums : ref'[j] = ref[j] + Mine(p, j)' - Mine(p, j)
  BY <1>2, <1>6, <1>7 DEF ITyped
<1> QED
  BY <1>1, <1>2, <1>3, <1>4, <1>5, <1>6, <1>7, <1>8, LoadStep DEF ITyped

\* A step that reads no inode: it may only unlock one that it has locked.
LEMMA QuietStep ==
  ASSUME CacheInv, panicked = None, NEW p \in Procs, puts[p] = <<>>, Others(p), put'[p] = put[p],
         UNCHANGED <<dinode, ent, inode, valid>>, calls' \in 0 .. MaxCalls, ref' \in [Inums -> Int],
         lock' = lock \/ (\E d \in Inums : lock[d] = p /\ lock' = [lock EXCEPT ![d] = None]),
         PTyped(p)', Local(p)', HeldOK(p)',
         panicked' = None \/ ref' = ref,
         panicked' = None => \A j \in Inums : ref'[j] = ref[j] + Mine(p, j)' - Mine(p, j)
  PROVE  CacheInv'
<1>1. ITyped
  BY DEF CacheInv, Typed
<1>2. lock' \in [Inums -> Procs \cup {None}] /\ \A j \in Inums : lock'[j] = lock[j] \/ lock[j] \in {None, p}
  BY <1>1 DEF ITyped
<1>3. ITyped'
  BY <1>1, <1>2 DEF ITyped
<1>4. \A j \in Inums : Keeps(j) \/ (Sound(j)' /\ lock[j] \in {None, p})
  BY DEF Keeps
<1> QED
  BY <1>2, <1>3, <1>4, CallStep, Zenon

\* An entry of a directory.
LEMMA EntTyped ==
  ASSUME ITyped, NEW i \in Inums, NEW x \in Elements
  PROVE  ent[i][x] \in 0 .. NInodes /\ (ent[i][x] # 0 => ent[i][x] \in Inums)
<1>1. x \in EntNames
  BY InodesAssumption DEF Elements, EntNames
<1>2. ent[i] \in [EntNames -> 0 .. NInodes]
  BY DEF ITyped
<1>3. ent[i][x] \in 0 .. NInodes
  BY <1>1, <1>2
<1> QED
  BY <1>3, InodesAssumption DEF Inums

\* The start of a lookup.
LEMMA StartRight ==
  ASSUME CacheInv, NEW p \in Procs, NEW s \in Paths, Start(p, s)
  PROVE  \E i \in Inums, x \in Seq2(Elements) :
           /\ Get(i) /\ ip' = [ip EXCEPT ![p] = i] /\ path' = [path EXCEPT ![p] = x]
           /\ i = 1 \/ i = cwd[p]
<1>1. cwd[p] \in Inums /\ 1 \in Inums
  BY InodesAssumption DEF CacheInv, Typed, PTyped, Inums
<1>2. PICK i \in Inums : i = IF Head(s) = "/" THEN ROOTINO ELSE cwd[p]
  BY <1>1 DEF ROOTINO
<1>3. PICK x : x = IF Head(s) = "/" THEN Tail(s) ELSE s
  OBVIOUS
<1>4. Get(i) /\ ip' = [ip EXCEPT ![p] = i] /\ path' = [path EXCEPT ![p] = x]
  BY <1>2, <1>3, Zenon DEF Start, Set
<1>5. x \in Seq2(Elements)
  <2>1. CASE \E n \in Elements : s = <<n>>
    <3>1. PICK n \in Elements : s = <<n>>
      BY <2>1
    <3>2. Tail(s) = <<>>
      BY <3>1
    <3> QED
      BY <1>3, <3>1, <3>2, SeqIn
  <2>2. CASE \E n, m \in Elements : s = <<"/", n, m>>
    <3>1. PICK n, m \in Elements : s = <<"/", n, m>>
      BY <2>2
    <3>2. Head(s) = "/" /\ Tail(s) = <<n, m>>
      BY <3>1
    <3> QED
      BY <1>3, <3>1, <3>2, SeqIn
  <2> QED
    BY <2>1, <2>2 DEF Paths
<1> QED
  BY <1>2, <1>4, <1>5 DEF ROOTINO

\* The beginning of a call keeps the cache right.
LEMMA BeginCache ==
  ASSUME CacheInv, NEW p \in Procs, NEW op \in Ops, NEW from \in Paths, NEW to \in {<<>>} \cup Paths,
         op = "link" => to \in Paths, Begin(p, op, from, to)
  PROVE  CacheInv'
<1>1. At(p, "idle") /\ calls < MaxCalls /\ Start(p, from)
  BY DEF Begin
<1>2. /\ Typed /\ ITyped /\ PTyped(p) /\ Local(p) /\ HeldOK(p)
      /\ panicked = None /\ puts[p] = <<>> /\ pc[p] = "idle" /\ put[p] = "lock"
  BY <1>1, AtFacts
<1>3. ip[p] = None /\ dp[p] = None /\ old[p] = None
  BY <1>2, NoneApart DEF Local, WithIp, WithDp
<1>4. PICK i \in Inums, x \in Seq2(Elements) :
        Get(i) /\ ip' = [ip EXCEPT ![p] = i] /\ path' = [path EXCEPT ![p] = x]
  BY <1>1, StartRight
<1>5. Others(p)
  BY <1>2, <1>4 DEF Begin, Goto, Set, Others, IsFcn, Typed, held
<1>6. /\ pc'[p] = "namex" /\ call'[p] = op /\ path'[p] = x /\ new'[p] = to
      /\ ip'[p] = i /\ dp'[p] = None /\ old'[p] = None /\ put'[p] = put[p]
      /\ cwd'[p] = cwd[p] /\ ofile'[p] = ofile[p] /\ puts'[p] = <<>>
  BY <1>2, <1>3, <1>4 DEF Begin, Goto, Set, IsFcn, Typed, held
<1>7. UNCHANGED <<dinode, ent, inode, valid, lock>> /\ calls' = calls + 1
  BY DEF Begin, disk
<1>8. calls' \in 0 .. MaxCalls
  BY <1>1, <1>2, <1>7, InodesAssumption DEF ITyped
<1>9. /\ ref' \in [Inums -> Int] /\ (panicked' = None \/ ref' = ref)
      /\ panicked' = None => \A j \in Inums : ref'[j] = ref[j] + Bit(j = i)
  BY <1>2, <1>4, GetRight
<1>10. PTyped(p)'
  BY <1>2, <1>6 DEF PTyped, Points, Locking
<1>11. Local(p)'
  BY <1>2, <1>6, NoneApart DEF Local, WithIp, WithDp, Named, Ops
<1>12. HeldOK(p)'
  BY <1>6 DEF HeldOK, Holds, WithDp
<1>13. ASSUME NEW j \in Inums, panicked' = None PROVE ref'[j] = ref[j] + Mine(p, j)' - Mine(p, j)
  <2>1. Mine(p, j) = Bit(cwd[p] = j) + Bit(ofile[p] = j) + Bit(ip[p] = j) + Bit(dp[p] = j) + Bit(old[p] = j)
    BY <1>2, MineFrom
  <2>2. Mine(p, j)' = Bit(cwd'[p] = j) + Bit(ofile'[p] = j) + Bit(ip'[p] = j) + Bit(dp'[p] = j) + Bit(old'[p] = j)
    BY <1>6, <1>9, MineZero
  <2> QED
    BY <1>2, <1>3, <1>6, <1>9, <1>13, <2>1, <2>2, NoneApart DEF Bit, ITyped, PTyped
<1> QED
  BY <1>2, <1>5, <1>6, <1>7, <1>8, <1>9, <1>10, <1>11, <1>12, <1>13, QuietStep

\* close() keeps the cache right.
LEMMA CloseCache ==
  ASSUME CacheInv, NEW p \in Procs, Close(p)
  PROVE  CacheInv'
<1>1. At(p, "idle") /\ ofile[p] # None
  BY DEF Close
<1>2. /\ Typed /\ ITyped /\ PTyped(p) /\ Local(p) /\ HeldOK(p)
      /\ panicked = None /\ puts[p] = <<>> /\ pc[p] = "idle" /\ put[p] = "lock"
  BY <1>1, AtFacts
<1>3. PICK a \in Inums : a = ofile[p]
  BY <1>1, <1>2 DEF PTyped
<1>4. Others(p)
  BY <1>2 DEF Close, Set, Others, IsFcn, Typed, args
<1>5. /\ pc'[p] = pc[p] /\ call'[p] = call[p] /\ path'[p] = path[p] /\ new'[p] = new[p]
      /\ ip'[p] = ip[p] /\ dp'[p] = dp[p] /\ old'[p] = old[p] /\ put'[p] = put[p] /\ cwd'[p] = cwd[p]
      /\ ofile'[p] = None /\ puts'[p] = <<a>>
  BY <1>2, <1>3 DEF Close, Set, IsFcn, Typed, args
<1>6. UNCHANGED <<dinode, ent, inode, valid, lock, ref, calls, panicked>>
  BY DEF Close, disk
<1>7. PTyped(p)'
  <2>1. puts'[p] \in Seq2(Inums)
    BY <1>5, SeqIn
  <2> QED
    BY <1>2, <1>5, <2>1 DEF PTyped
<1>8. Local(p)'
  BY <1>2, <1>5 DEF Local, Named
<1>9. HeldOK(p)'
  BY <1>2, <1>5 DEF HeldOK, Holds, WithDp
<1>10. ASSUME NEW j \in Inums PROVE ref'[j] = ref[j] + Mine(p, j)' - Mine(p, j)
  <2>1. Mine(p, j) = Bit(cwd[p] = j) + Bit(ofile[p] = j) + Bit(ip[p] = j) + Bit(dp[p] = j) + Bit(old[p] = j)
    BY <1>2, MineFrom
  <2>2. Mine(p, j)' = Bit(cwd'[p] = j) + Bit(ofile'[p] = j) + Bit(ip'[p] = j) + Bit(dp'[p] = j) + Bit(old'[p] = j) + Bit(a = j)
    BY <1>5, <1>6, MineOne
  <2> QED
    BY <1>2, <1>3, <1>5, <1>6, <1>10, <2>1, <2>2, NoneApart DEF Bit, ITyped, PTyped
<1> QED
  BY <1>2, <1>4, <1>5, <1>6, <1>7, <1>8, <1>9, <1>10, QuietStep DEF ITyped

\* The end of a path name keeps the cache right.
LEMMA NamexEndCache ==
  ASSUME CacheInv, NEW p \in Procs, NamexEnd(p)
  PROVE  CacheInv'
<1>1. At(p, "namex")
  BY DEF NamexEnd
<1>2. /\ Typed /\ ITyped /\ PTyped(p) /\ Local(p) /\ HeldOK(p)
      /\ panicked = None /\ puts[p] = <<>> /\ pc[p] = "namex" /\ put[p] = "lock"
  BY <1>1, AtFacts
<1>3. PICK i \in Inums : i = ip[p]
  BY <1>2 DEF Local, PTyped, WithIp
<1>4. /\ UNCHANGED <<dinode, ent, inode, valid, lock, ref, calls, panicked>>
      /\ UNCHANGED <<dp, old, put, held>>
  BY DEF NamexEnd, disk
<1>5. /\ Others(p) /\ put'[p] = put[p] /\ PTyped(p)' /\ Local(p)' /\ HeldOK(p)'
      /\ \A j \in Inums : Mine(p, j)' = Mine(p, j) /\ Mine(p, j) \in Int
  <2>1. CASE call[p] \in Parent
    <3>1. Fail(p, i)
      BY <1>3, <2>1 DEF NamexEnd
    <3> QED
      BY <1>2, <1>3, <1>4, <3>1, FailRight
  <2>2. CASE call[p] \notin Parent
    <3>1. Goto(p, "found") /\ UNCHANGED <<call, path, new, ip, puts>>
      BY <2>2 DEF NamexEnd, args
    <3>2. Others(p)
      BY <1>2, <1>4, <3>1 DEF Goto, Others, IsFcn, Typed, held
    <3>3. pc'[p] = "found" /\ UNCHANGED <<dp, old, put, cwd, ofile>>
      BY <1>2, <1>4, <3>1 DEF Goto, IsFcn, Typed, held
    <3>4. PTyped(p)'
      BY <1>2, <3>1, <3>3 DEF PTyped, Points, Locking
    <3>5. Local(p)'
      BY <1>2, <2>2, <3>1, <3>3 DEF Local, WithIp, WithDp, Named
    <3>6. HeldOK(p)'
      BY <3>3 DEF HeldOK, Holds, WithDp
    <3>7. \A j \in Inums : Mine(p, j)' = Mine(p, j) /\ Mine(p, j) \in Int
      BY <3>1, <3>3 DEF Mine, Bit
    <3> QED
      BY <3>2, <3>3, <3>4, <3>5, <3>6, <3>7
  <2> QED
    BY <2>1, <2>2
<1>6. \A j \in Inums : ref'[j] = ref[j] + Mine(p, j)' - Mine(p, j)
  BY <1>2, <1>4, <1>5 DEF ITyped
<1> QED
  BY <1>2, <1>4, <1>5, <1>6, QuietStep DEF ITyped

\* A lookup in one directory keeps the cache right.
LEMMA NamexCache ==
  ASSUME CacheInv, NEW p \in Procs, Namex(p)
  PROVE  CacheInv'
<1>1. At(p, "namex") /\ path[p] # <<>> /\ CanLock(ip[p]) /\ ~NoType(ip[p]) /\ Load(ip[p])
  BY DEF Namex
<1>2. /\ Typed /\ ITyped /\ PTyped(p) /\ Local(p) /\ HeldOK(p)
      /\ panicked = None /\ puts[p] = <<>> /\ pc[p] = "namex" /\ put[p] = "lock"
  BY <1>1, AtFacts
<1>3. PICK i, x, n : i = ip[p] /\ x = Head(path[p]) /\ n = ent[i][x]
  OBVIOUS
<1>4. i \in Inums /\ dp[p] = None
  BY <1>2, <1>3 DEF Local, PTyped, WithIp, WithDp
<1>5. x \in Elements /\ path[p] \in Seq2(Elements) /\ Tail(path[p]) \in Seq2(Elements)
  BY <1>1, <1>2, <1>3, SeqShape DEF PTyped
<1>6. n # 0 => n \in Inums
  BY <1>2, <1>3, <1>4, <1>5, EntTyped
<1>7. /\ \/ Fail(p, i) /\ UNCHANGED <<ref, panicked>>
         \/ /\ call[p] \in Parent /\ Len(path[p]) = 1 /\ Goto(p, "found")
            /\ UNCHANGED <<args, ip, puts, ref, panicked>>
         \/ n # 0 /\ LookUp(p, n)
      /\ UNCHANGED <<disk, lock, dp, old, put, held, calls>>
  BY <1>3, Zenon DEF Namex
<1>8. dinode' = dinode /\ ent' = ent /\ lock' = lock /\ calls' = calls
  BY <1>7 DEF disk
<1>9. /\ Others(p) /\ put'[p] = put[p] /\ PTyped(p)' /\ Local(p)' /\ HeldOK(p)'
      /\ ref' \in [Inums -> Int] /\ (panicked' = None \/ ref' = ref)
      /\ panicked' = None => \A j \in Inums : ref'[j] = ref[j] + Mine(p, j)' - Mine(p, j)
  <2>1. CASE Fail(p, i) /\ UNCHANGED <<ref, panicked>>
    <3>1. /\ Others(p) /\ put'[p] = put[p] /\ PTyped(p)' /\ Local(p)' /\ HeldOK(p)'
          /\ \A j \in Inums : Mine(p, j)' = Mine(p, j) /\ Mine(p, j) \in Int
      BY <1>2, <1>3, <1>4, <1>7, <2>1, FailRight
    <3> QED
      BY <1>2, <2>1, <3>1 DEF ITyped
  <2>2. CASE /\ call[p] \in Parent /\ Len(path[p]) = 1 /\ Goto(p, "found")
             /\ UNCHANGED <<args, ip, puts, ref, panicked>>
    <3>1. Others(p)
      BY <1>2, <1>7, <2>2 DEF Goto, Others, IsFcn, Typed, held, args
    <3>2. pc'[p] = "found" /\ UNCHANGED <<call, path, new, ip, puts, dp, old, put, cwd, ofile>>
      BY <1>2, <1>7, <2>2 DEF Goto, IsFcn, Typed, held, args
    <3>3. PTyped(p)'
      BY <1>2, <3>2 DEF PTyped, Points, Locking
    <3>4. Named(p)'
      <4>1. \E y \in Elements : path[p] = <<y>>
        BY <1>1, <1>5, <2>2 DEF Seq2
      <4> QED
        BY <3>2, <4>1 DEF Named
    <3>5. Local(p)'
      BY <1>2, <3>2, <3>4 DEF Local, WithIp, WithDp
    <3>6. HeldOK(p)'
      BY <3>2 DEF HeldOK, Holds, WithDp
    <3>7. \A j \in Inums : Mine(p, j)' = Mine(p, j) /\ Mine(p, j) \in Int
      BY <3>2 DEF Mine, Bit
    <3> QED
      BY <1>2, <2>2, <3>1, <3>2, <3>3, <3>5, <3>6, <3>7 DEF ITyped
  <2>3. CASE n # 0 /\ LookUp(p, n)
    <3>1. n \in Inums /\ Get(n)
      BY <1>6, <2>3 DEF LookUp
    <3>2. Others(p)
      BY <1>2, <1>3, <1>7, <2>3 DEF LookUp, Set, Others, IsFcn, Typed, held
    <3>3. /\ ip'[p] = n /\ puts'[p] = <<i>> /\ path'[p] = Tail(path[p])
          /\ UNCHANGED <<pc, call, new, dp, old, put, cwd, ofile>>
      BY <1>2, <1>3, <1>7, <2>3 DEF LookUp, Set, IsFcn, Typed, held
    <3>4. PTyped(p)'
      <4>1. puts'[p] \in Seq2(Inums)
        BY <1>4, <3>3, SeqIn
      <4> QED
        BY <1>2, <1>5, <3>1, <3>3, <4>1 DEF PTyped
    <3>5. Local(p)'
      BY <1>2, <3>1, <3>3, NoneApart DEF Local, WithIp, WithDp, Named
    <3>6. HeldOK(p)'
      BY <1>2, <3>3 DEF HeldOK, Holds, WithDp
    <3>7. /\ ref' \in [Inums -> Int] /\ (panicked' = None \/ ref' = ref)
          /\ panicked' = None => \A j \in Inums : ref'[j] = ref[j] + Bit(j = n)
      BY <1>2, <3>1, GetRight
    <3>8. ASSUME panicked' = None, NEW j \in Inums PROVE ref'[j] = ref[j] + Mine(p, j)' - Mine(p, j)
      <4>1. Mine(p, j) = Bit(cwd[p] = j) + Bit(ofile[p] = j) + Bit(ip[p] = j) + Bit(dp[p] = j) + Bit(old[p] = j)
        BY <1>2, MineFrom
      <4>2. Mine(p, j)' = Bit(cwd'[p] = j) + Bit(ofile'[p] = j) + Bit(ip'[p] = j) + Bit(dp'[p] = j)
                          + Bit(old'[p] = j) + Bit(i = j)
        BY <3>3, MineOne
      <4> QED
        BY <1>2, <1>3, <3>3, <3>7, <3>8, <4>1, <4>2 DEF Bit, ITyped
    <3> QED
      BY <3>2, <3>3, <3>4, <3>5, <3>6, <3>7, <3>8
  <2> QED
    BY <1>7, <2>1, <2>2, <2>3
<1> QED
  BY <1>1, <1>2, <1>3, <1>4, <1>8, <1>9, LoadStep DEF ITyped

\* create() of a name that exists keeps the cache right.
LEMMA CreateFoundCache ==
  ASSUME CacheInv, NEW p \in Procs, CreateFound(p)
  PROVE  CacheInv'
<1>1. At(p, "found") /\ call[p] \in Creates /\ CanLock(ip[p]) /\ ~NoType(ip[p]) /\ Load(ip[p])
  BY DEF CreateFound
<1>2. /\ Typed /\ ITyped /\ PTyped(p) /\ Local(p) /\ HeldOK(p)
      /\ panicked = None /\ puts[p] = <<>> /\ pc[p] = "found" /\ put[p] = "lock"
  BY <1>1, AtFacts
<1>3. PICK a, x, n : a = ip[p] /\ x = Name(p) /\ n = ent[a][x] /\ dp[p] = None /\ old[p] = None
  BY <1>1, <1>2 DEF Local, WithDp, Creates
<1>4. a \in Inums
  BY <1>2, <1>3 DEF Local, PTyped, WithIp
<1>5. x \in Elements
  BY <1>1, <1>2, <1>3 DEF Local, Named, Name, Parent, Creates
<1>6. n # 0 /\ Get(n) /\ ip' = Set(ip, p, n)
  BY <1>3, Zenon DEF CreateFound
<1>7. n \in Inums
  BY <1>2, <1>3, <1>4, <1>5, <1>6, EntTyped
<1>8. Others(p)
  BY <1>2, <1>6 DEF CreateFound, Goto, Set, Others, IsFcn, Typed, held, args
<1>9. /\ ip'[p] = n /\ puts'[p] = <<a>> /\ pc'[p] = "createold"
      /\ UNCHANGED <<call, path, new, dp, old, put, cwd, ofile>>
  BY <1>2, <1>3, <1>6 DEF CreateFound, Goto, Set, IsFcn, Typed, held, args
<1>10. dinode' = dinode /\ ent' = ent /\ lock' = lock /\ calls' = calls
  BY DEF CreateFound, disk
<1>11. PTyped(p)'
  <2>1. puts'[p] \in Seq2(Inums)
    BY <1>4, <1>9, SeqIn
  <2> QED
    BY <1>2, <1>7, <1>9, <2>1 DEF PTyped, Points, Locking
<1>12. Local(p)'
  BY <1>1, <1>2, <1>3, <1>7, <1>9, NoneApart DEF Local, WithIp, WithDp, Named, Creates
<1>13. HeldOK(p)'
  BY <1>9 DEF HeldOK, Holds, WithDp
<1>14. /\ ref' \in [Inums -> Int] /\ (panicked' = None \/ ref' = ref)
       /\ panicked' = None => \A j \in Inums : ref'[j] = ref[j] + Bit(j = n)
  BY <1>2, <1>6, <1>7, GetRight
<1>15. ASSUME NEW j \in Inums, panicked' = None PROVE ref'[j] = ref[j] + Mine(p, j)' - Mine(p, j)
  <2>1. Mine(p, j) = Bit(cwd[p] = j) + Bit(ofile[p] = j) + Bit(ip[p] = j) + Bit(dp[p] = j) + Bit(old[p] = j)
    BY <1>2, MineFrom
  <2>2. Mine(p, j)' = Bit(cwd'[p] = j) + Bit(ofile'[p] = j) + Bit(ip'[p] = j) + Bit(dp'[p] = j) + Bit(old'[p] = j) + Bit(a = j)
    BY <1>9, <1>14, MineOne
  <2> QED
    BY <1>2, <1>3, <1>9, <1>14, <1>15, <2>1, <2>2, NoneApart DEF Bit, ITyped, PTyped
<1> QED
  BY <1>1, <1>2, <1>3, <1>4, <1>8, <1>9, <1>10, <1>11, <1>12, <1>13, <1>14, <1>15, LoadStep DEF ITyped

\* The end of create() keeps the cache right.
LEMMA CreatedCache ==
  ASSUME CacheInv, NEW p \in Procs, Created(p)
  PROVE  CacheInv'
<1>1. At(p, "created")
  BY DEF Created
<1>2. /\ Typed /\ ITyped /\ PTyped(p) /\ Local(p) /\ HeldOK(p)
      /\ panicked = None /\ puts[p] = <<>> /\ pc[p] = "created" /\ put[p] = "lock"
  BY <1>1, AtFacts
<1>3. PICK i \in Inums : i = ip[p] /\ dp[p] = None /\ old[p] = None
  BY <1>1, <1>2 DEF Local, PTyped, WithIp, WithDp, Creates
<1>4. lock[i] = p
  BY <1>2, <1>3 DEF HeldOK, Holds
<1>5. Others(p)
  BY <1>2 DEF Created, OpenFile, Return, Goto, Set, Others, IsFcn, Typed
<1>6. /\ pc'[p] = "idle" /\ call'[p] = None /\ path'[p] = <<>> /\ new'[p] = <<>>
      /\ ip'[p] = None /\ dp'[p] = None /\ old'[p] = None /\ put'[p] = put[p] /\ cwd'[p] = cwd[p]
      /\ \/ puts'[p] = <<i>> /\ ofile'[p] = ofile[p]
         \/ puts'[p] = <<>> /\ ofile[p] = None /\ ofile'[p] = i
  BY <1>2, <1>3 DEF Created, OpenFile, Return, Goto, Set, IsFcn, Typed
<1>7. UNCHANGED <<dinode, ent, inode, valid, ref, calls, panicked>> /\ lock' = [lock EXCEPT ![i] = None]
  BY <1>3 DEF Created, disk
<1>8. /\ PTyped(p)' /\ Local(p)' /\ HeldOK(p)'
      /\ \A j \in Inums : Mine(p, j)' = Mine(p, j) /\ Mine(p, j) \in Int
  BY <1>2, <1>3, <1>6, EndCall
<1>9. \A j \in Inums : ref'[j] = ref[j] + Mine(p, j)' - Mine(p, j)
  BY <1>2, <1>7, <1>8 DEF ITyped
<1> QED
  BY <1>2, <1>4, <1>5, <1>6, <1>7, <1>8, <1>9, QuietStep DEF ITyped

\* A change of nlink, in the copy and on the disk.
LEMMA AddRight ==
  ASSUME CacheInv, NEW i \in Inums, NEW k \in Int, AddLinks(i, k), Copy(i) = dinode[i],
         dinode[i].type # "free"
  PROVE  /\ dinode' \in [Inums -> Copies] /\ inode' \in [Inums -> Copies] /\ valid' \in [Inums -> BOOLEAN]
         /\ Sound(i)' /\ (\A j \in Inums : Keeps(j) \/ j = i)
         /\ dinode' = [dinode EXCEPT ![i] = [type |-> dinode[i].type, nlink |-> dinode[i].nlink + k]]
<1>1. ITyped
  BY DEF CacheInv, Typed
<1>2. dinode[i] \in Copies /\ [dinode[i] EXCEPT !.nlink = @ + k] \in Copies
  BY <1>1 DEF ITyped, Copies
<1>3. PICK c \in Copies : c = [dinode[i] EXCEPT !.nlink = @ + k]
  BY <1>2
<1>4. c.type = dinode[i].type /\ c = [type |-> dinode[i].type, nlink |-> dinode[i].nlink + k]
  BY <1>2, <1>3 DEF Copies
<1>5. /\ inode' = [inode EXCEPT ![i] = c] /\ dinode' = [dinode EXCEPT ![i] = c]
      /\ valid' = [valid EXCEPT ![i] = TRUE]
  BY <1>3 DEF AddLinks
<1>6. dinode' \in [Inums -> Copies] /\ inode' \in [Inums -> Copies] /\ valid' \in [Inums -> BOOLEAN]
  BY <1>1, <1>5 DEF ITyped
<1>7. Sound(i)'
  BY <1>1, <1>4, <1>5 DEF Sound, ITyped
<1>8. \A j \in Inums : Keeps(j) \/ j = i
  BY <1>1, <1>5 DEF Keeps, ITyped
<1> QED
  BY <1>4, <1>5, <1>6, <1>7, <1>8

\* A step of a call that changes nlink of an inode that it has locked or locks.
LEMMA AddStep ==
  ASSUME CacheInv, panicked = None, NEW p \in Procs, puts[p] = <<>>, Others(p), put'[p] = put[p],
         NEW i \in Inums, NEW k \in Int, AddLinks(i, k), Copy(i) = dinode[i], dinode[i].type # "free",
         lock[i] \in {None, p}, lock' = lock \/ lock' = [lock EXCEPT ![i] = None],
         ent' = ent, ref' \in [Inums -> Int], calls' = calls, PTyped(p)', Local(p)', HeldOK(p)',
         panicked' = None \/ ref' = ref,
         panicked' = None => \A j \in Inums : ref'[j] = ref[j] + Mine(p, j)' - Mine(p, j)
  PROVE  CacheInv'
<1>1. ITyped
  BY DEF CacheInv, Typed
<1>2. /\ dinode' \in [Inums -> Copies] /\ inode' \in [Inums -> Copies] /\ valid' \in [Inums -> BOOLEAN]
      /\ Sound(i)' /\ (\A j \in Inums : Keeps(j) \/ j = i)
  BY AddRight
<1>3. lock' \in [Inums -> Procs \cup {None}] /\ \A j \in Inums : lock'[j] = lock[j] \/ lock[j] \in {None, p}
  BY <1>1, <1>2 DEF ITyped
<1>4. ITyped'
  BY <1>1, <1>2, <1>3 DEF ITyped
<1>5. \A j \in Inums : Keeps(j) \/ (Sound(j)' /\ lock[j] \in {None, p})
  BY <1>2
<1> QED
  BY <1>3, <1>4, <1>5, CallStep, Zenon

\* The end of an unlink() or a link() that is refused keeps the cache right.
LEMMA UnlinkBadCache ==
  ASSUME CacheInv, NEW p \in Procs, UnlinkBad(p)
  PROVE  CacheInv'
<1>1. At(p, "unlinkbad") \/ At(p, "linkexists")
  BY DEF UnlinkBad
<1>2. /\ Typed /\ ITyped /\ PTyped(p) /\ Local(p) /\ HeldOK(p)
      /\ panicked = None /\ puts[p] = <<>> /\ pc[p] \in {"unlinkbad", "linkexists"} /\ put[p] = "lock"
  BY <1>1, AtFacts
<1>3. PICK a \in Inums : a = dp[p] /\ ip[p] = None
  BY <1>2 DEF Local, PTyped, WithIp, WithDp
<1>4. lock[a] = p
  BY <1>2, <1>3 DEF HeldOK, Holds, WithDp
<1>5. Others(p)
  BY <1>2 DEF UnlinkBad, Return, Goto, Set, Others, IsFcn, Typed, args, held
<1>6. /\ ip'[p] = None /\ dp'[p] = None /\ old'[p] = old[p] /\ put'[p] = put[p]
      /\ cwd'[p] = cwd[p] /\ ofile'[p] = ofile[p] /\ puts'[p] = <<a>>
  BY <1>2, <1>3 DEF UnlinkBad, Set, IsFcn, Typed, held
<1>7. UNCHANGED <<dinode, ent, inode, valid, ref, calls, panicked>> /\ lock' = [lock EXCEPT ![a] = None]
  BY <1>3 DEF UnlinkBad, disk
<1>8. PTyped(p)' /\ Local(p)' /\ HeldOK(p)'
  <2>1. puts'[p] \in Seq2(Inums)
    BY <1>6, SeqIn
  <2>2. CASE pc[p] = "linkexists"
    <3>1. pc'[p] = "linkbad" /\ call' = call /\ path' = path /\ new' = new
      BY <1>2, <2>2 DEF UnlinkBad, Goto, IsFcn, Typed, args
    <3>2. PTyped(p)'
      BY <1>2, <1>6, <2>1, <3>1 DEF PTyped, Points
    <3>3. Local(p)'
      BY <1>2, <1>6, <2>2, <3>1 DEF Local, WithIp, WithDp, Named
    <3>4. HeldOK(p)'
      BY <3>1 DEF HeldOK, Holds, WithDp
    <3> QED
      BY <3>2, <3>3, <3>4
  <2>3. CASE pc[p] = "unlinkbad"
    <3>1. pc'[p] = "idle" /\ call'[p] = None /\ path'[p] = <<>> /\ new'[p] = <<>>
      BY <1>2, <2>3 DEF UnlinkBad, Return, Goto, Set, IsFcn, Typed
    <3>2. old[p] = None
      BY <1>2, <2>3 DEF Local
    <3> QED
      BY <1>2, <1>6, <2>1, <3>1, <3>2, ReturnLocal DEF PTyped
  <2> QED
    BY <1>2, <2>2, <2>3
<1>9. ASSUME NEW j \in Inums PROVE ref'[j] = ref[j] + Mine(p, j)' - Mine(p, j)
  <2>1. Mine(p, j) = Bit(cwd[p] = j) + Bit(ofile[p] = j) + Bit(ip[p] = j) + Bit(dp[p] = j) + Bit(old[p] = j)
    BY <1>2, MineFrom
  <2>2. Mine(p, j)' = Bit(cwd'[p] = j) + Bit(ofile'[p] = j) + Bit(ip'[p] = j) + Bit(dp'[p] = j) + Bit(old'[p] = j) + Bit(a = j)
    BY <1>6, <1>7, MineOne
  <2> QED
    BY <1>2, <1>3, <1>6, <1>7, <1>9, <2>1, <2>2, NoneApart DEF Bit, ITyped, PTyped
<1> QED
  BY <1>2, <1>4, <1>5, <1>6, <1>7, <1>8, <1>9, QuietStep DEF ITyped

\* The first part of unlink() keeps the cache right.
LEMMA UnlinkFoundCache ==
  ASSUME CacheInv, NEW p \in Procs, UnlinkFound(p)
  PROVE  CacheInv'
<1>1. At(p, "found") /\ call[p] = "unlink" /\ CanLock(ip[p]) /\ ~NoType(ip[p]) /\ Load(ip[p])
  BY DEF UnlinkFound
<1>2. /\ Typed /\ ITyped /\ PTyped(p) /\ Local(p) /\ HeldOK(p)
      /\ panicked = None /\ puts[p] = <<>> /\ pc[p] = "found" /\ put[p] = "lock"
  BY <1>1, AtFacts
<1>3. PICK i, x, n : i = ip[p] /\ x = Name(p) /\ n = ent[i][x] /\ dp[p] = None /\ old[p] = None
  BY <1>1, <1>2 DEF Local, WithDp
<1>4. i \in Inums
  BY <1>2, <1>3 DEF Local, PTyped, WithIp
<1>5. x \in Elements
  BY <1>1, <1>2, <1>3 DEF Local, Named, Name, Parent
<1>6. dinode' = dinode /\ ent' = ent /\ calls' = calls
  BY DEF UnlinkFound, disk
<1>7. CASE Name(p) \in {".", ".."} \/ n = 0
  <2>1. Fail(p, i) /\ UNCHANGED <<ref, panicked, dp, lock>> /\ UNCHANGED <<dp, old, put, held>>
    BY <1>3, <1>7 DEF UnlinkFound
  <2>2. /\ Others(p) /\ put'[p] = put[p] /\ PTyped(p)' /\ Local(p)' /\ HeldOK(p)'
        /\ \A j \in Inums : Mine(p, j)' = Mine(p, j) /\ Mine(p, j) \in Int
    BY <1>2, <1>3, <1>4, <2>1, FailRight
  <2>3. \A j \in Inums : ref'[j] = ref[j] + Mine(p, j)' - Mine(p, j)
    BY <1>2, <2>1, <2>2 DEF ITyped
  <2> QED
    BY <1>1, <1>2, <1>3, <1>4, <1>6, <2>1, <2>2, <2>3, LoadStep DEF ITyped
<1>8. CASE ~(Name(p) \in {".", ".."} \/ n = 0)
  <2>1. /\ Get(n) /\ lock' = [lock EXCEPT ![i] = p] /\ dp' = Set(dp, p, i) /\ ip' = Set(ip, p, n)
        /\ Goto(p, "unlink") /\ UNCHANGED <<args, puts>> /\ UNCHANGED <<old, put, held>>
    BY <1>3, <1>8 DEF UnlinkFound
  <2>2. n \in Inums
    BY <1>2, <1>3, <1>4, <1>5, <1>8, EntTyped
  <2>3. Others(p)
    BY <1>2, <2>1 DEF Goto, Set, Others, IsFcn, Typed, held, args
  <2>4. /\ ip'[p] = n /\ dp'[p] = i /\ pc'[p] = "unlink" /\ puts'[p] = <<>>
        /\ UNCHANGED <<call, path, new, old, put, cwd, ofile>>
    BY <1>2, <2>1 DEF Goto, Set, IsFcn, Typed, held, args
  <2>5. PTyped(p)'
    <3>1. puts'[p] \in Seq2(Inums)
      BY <2>4, SeqIn
    <3> QED
      BY <1>2, <1>4, <2>2, <2>4, <3>1 DEF PTyped, Points, Locking
  <2>6. Local(p)'
    BY <1>1, <1>2, <1>3, <1>4, <2>2, <2>4, NoneApart DEF Local, WithIp, WithDp, Named, Parent
  <2>7. HeldOK(p)'
    <3>1. Sound(i)' /\ lock'[i] = p
      BY <1>1, <1>2, <1>3, <1>4, <1>6, <2>1, LoadRight DEF ITyped
    <3> QED
      BY <2>4, <3>1 DEF HeldOK, Holds, WithDp
  <2>8. /\ ref' \in [Inums -> Int] /\ (panicked' = None \/ ref' = ref)
        /\ panicked' = None => \A j \in Inums : ref'[j] = ref[j] + Bit(j = n)
    BY <1>2, <2>1, <2>2, GetRight
  <2>9. ASSUME panicked' = None, NEW j \in Inums PROVE ref'[j] = ref[j] + Mine(p, j)' - Mine(p, j)
    <3>1. Mine(p, j) = Bit(cwd[p] = j) + Bit(ofile[p] = j) + Bit(ip[p] = j) + Bit(dp[p] = j) + Bit(old[p] = j)
      BY <1>2, MineFrom
    <3>2. Mine(p, j)' = Bit(cwd'[p] = j) + Bit(ofile'[p] = j) + Bit(ip'[p] = j) + Bit(dp'[p] = j)
                        + Bit(old'[p] = j)
      BY <2>4, MineZero
    <3> QED
      BY <1>2, <1>3, <2>4, <2>8, <2>9, <3>1, <3>2, NoneApart DEF Bit, ITyped
  <2> QED
    BY <1>1, <1>2, <1>3, <1>4, <1>6, <2>1, <2>3, <2>4, <2>5, <2>6, <2>7, <2>8, <2>9, LoadStep DEF ITyped
<1> QED
  BY <1>7, <1>8

\* The end of unlink() keeps the cache right.
LEMMA UnlinkedCache ==
  ASSUME CacheInv, NEW p \in Procs, Unlinked(p)
  PROVE  CacheInv'
<1>1. At(p, "unlinked")
  BY DEF Unlinked
<1>2. /\ Typed /\ ITyped /\ PTyped(p) /\ Local(p) /\ HeldOK(p)
      /\ panicked = None /\ puts[p] = <<>> /\ pc[p] = "unlinked" /\ put[p] = "lock"
  BY <1>1, AtFacts
<1>3. PICK i \in Inums : i = ip[p] /\ dp[p] = None /\ old[p] = None
  BY <1>1, <1>2 DEF Local, PTyped, WithIp, WithDp
<1>4. lock[i] = p /\ Sound(i)
  BY <1>2, <1>3 DEF HeldOK, Holds
<1>5. Copy(i) = dinode[i] /\ dinode[i].type # "free"
  BY <1>4 DEF Copy, Sound
<1>6. Others(p)
  BY <1>2 DEF Unlinked, Return, Goto, Set, Others, IsFcn, Typed, held
<1>7. /\ pc'[p] = "idle" /\ call'[p] = None /\ path'[p] = <<>> /\ new'[p] = <<>>
      /\ ip'[p] = None /\ dp'[p] = None /\ old'[p] = None /\ put'[p] = put[p] /\ cwd'[p] = cwd[p]
      /\ puts'[p] = <<i>> /\ ofile'[p] = ofile[p]
  BY <1>2, <1>3 DEF Unlinked, Return, Goto, Set, IsFcn, Typed, held
<1>8. /\ AddLinks(i, -1) /\ lock' = [lock EXCEPT ![i] = None]
      /\ UNCHANGED <<ent, ref, calls, panicked>>
  BY <1>3 DEF Unlinked
<1>9. /\ PTyped(p)' /\ Local(p)' /\ HeldOK(p)'
      /\ \A j \in Inums : Mine(p, j)' = Mine(p, j) /\ Mine(p, j) \in Int
  BY <1>2, <1>3, <1>7, EndCall
<1>10. \A j \in Inums : ref'[j] = ref[j] + Mine(p, j)' - Mine(p, j)
  BY <1>2, <1>8, <1>9 DEF ITyped
<1>11. -1 \in Int /\ ref' \in [Inums -> Int]
  BY <1>2, <1>8 DEF ITyped
<1> QED
  BY <1>2, <1>4, <1>5, <1>6, <1>7, <1>8, <1>9, <1>10, <1>11, AddStep

\* The first part of link() keeps the cache right.
LEMMA LinkCache ==
  ASSUME CacheInv, NEW p \in Procs, Link(p)
  PROVE  CacheInv'
<1>1. At(p, "found") /\ call[p] = "link" /\ CanLock(ip[p]) /\ ~NoType(ip[p])
  BY DEF Link
<1>2. /\ Typed /\ ITyped /\ PTyped(p) /\ Local(p) /\ HeldOK(p)
      /\ panicked = None /\ puts[p] = <<>> /\ pc[p] = "found" /\ put[p] = "lock"
  BY <1>1, AtFacts
<1>3. PICK i \in Inums, s \in Paths : i = ip[p] /\ s = new[p] /\ dp[p] = None /\ old[p] = None
  BY <1>1, <1>2 DEF Local, PTyped, WithIp, WithDp
<1>4. Copy(i) = dinode[i] /\ dinode[i].type # "free" /\ lock[i] = None
  BY <1>1, <1>3, CopyRight DEF NoType, CanLock
<1>5. ent' = ent /\ lock' = lock /\ calls' = calls /\ UNCHANGED <<dp, put, held>>
  BY DEF Link
<1>6. CASE Copy(ip[p]).type = "dir"
  <2>1. Load(i) /\ Fail(p, i) /\ UNCHANGED <<dinode, old, ref, panicked>>
    BY <1>3, <1>6 DEF Link
  <2>2. /\ Others(p) /\ put'[p] = put[p] /\ PTyped(p)' /\ Local(p)' /\ HeldOK(p)'
        /\ \A j \in Inums : Mine(p, j)' = Mine(p, j) /\ Mine(p, j) \in Int
    BY <1>2, <1>3, <1>5, <2>1, FailRight
  <2>3. \A j \in Inums : ref'[j] = ref[j] + Mine(p, j)' - Mine(p, j)
    BY <1>2, <2>1, <2>2 DEF ITyped
  <2> QED
    BY <1>1, <1>2, <1>3, <1>5, <2>1, <2>2, <2>3, LoadStep DEF ITyped
<1>7. CASE Copy(ip[p]).type # "dir"
  <2>1. /\ AddLinks(i, 1) /\ old' = Set(old, p, i) /\ Start(p, s)
        /\ call' = Set(call, p, "link2") /\ new' = Set(new, p, <<>>)
        /\ Goto(p, "namex") /\ UNCHANGED puts
    BY <1>3, <1>7 DEF Link
  <2>2. PICK r \in Inums, x \in Seq2(Elements) :
          Get(r) /\ ip' = [ip EXCEPT ![p] = r] /\ path' = [path EXCEPT ![p] = x]
    BY <1>3, <2>1, StartRight
  <2>3. Others(p)
    BY <1>2, <1>5, <2>1, <2>2 DEF Goto, Set, Others, IsFcn, Typed, held
  <2>4. /\ ip'[p] = r /\ path'[p] = x /\ dp'[p] = None /\ old'[p] = i /\ call'[p] = "link2" /\ new'[p] = <<>>
        /\ pc'[p] = "namex" /\ puts'[p] = <<>> /\ put'[p] = put[p] /\ cwd'[p] = cwd[p] /\ ofile'[p] = ofile[p]
    BY <1>2, <1>3, <1>5, <2>1, <2>2 DEF Goto, Set, IsFcn, Typed, held
  <2>5. PTyped(p)'
    <3>1. puts'[p] \in Seq2(Inums)
      BY <2>4, SeqIn
    <3> QED
      BY <1>2, <2>4, <3>1 DEF PTyped, Points, Locking
  <2>6. Local(p)'
    BY <1>2, <2>4, NoneApart DEF Local, WithIp, WithDp, Named
  <2>7. HeldOK(p)'
    BY <2>4 DEF HeldOK, Holds, WithDp
  <2>8. /\ ref' \in [Inums -> Int] /\ (panicked' = None \/ ref' = ref)
        /\ panicked' = None => \A j \in Inums : ref'[j] = ref[j] + Bit(j = r)
    BY <1>2, <2>2, GetRight
  <2>9. ASSUME panicked' = None, NEW j \in Inums PROVE ref'[j] = ref[j] + Mine(p, j)' - Mine(p, j)
    <3>1. Mine(p, j) = Bit(cwd[p] = j) + Bit(ofile[p] = j) + Bit(ip[p] = j) + Bit(dp[p] = j) + Bit(old[p] = j)
      BY <1>2, MineFrom
    <3>2. Mine(p, j)' = Bit(cwd'[p] = j) + Bit(ofile'[p] = j) + Bit(ip'[p] = j) + Bit(dp'[p] = j)
                        + Bit(old'[p] = j)
      BY <2>4, MineZero
    <3> QED
      BY <1>2, <1>3, <2>4, <2>8, <2>9, <3>1, <3>2, NoneApart DEF Bit, ITyped
  <2> QED
    BY <1>2, <1>4, <1>5, <2>1, <2>3, <2>4, <2>5, <2>6, <2>7, <2>8, <2>9, AddStep
<1> QED
  BY <1>6, <1>7

\* The second part of link() keeps the cache right.
LEMMA LinkEnterCache ==
  ASSUME CacheInv, NEW p \in Procs, LinkEnter(p)
  PROVE  CacheInv'
<1>1. At(p, "found") /\ call[p] = "link2" /\ CanLock(ip[p]) /\ ~NoType(ip[p]) /\ Load(ip[p])
  BY DEF LinkEnter
<1>2. /\ Typed /\ ITyped /\ PTyped(p) /\ Local(p) /\ HeldOK(p)
      /\ panicked = None /\ puts[p] = <<>> /\ pc[p] = "found" /\ put[p] = "lock"
  BY <1>1, AtFacts
<1>3. PICK i, x, n, l : i = ip[p] /\ x = Name(p) /\ n = ent[i][x] /\ l = old[p] /\ dp[p] = None
  BY <1>1, <1>2 DEF Local, WithDp
<1>4. i \in Inums /\ l \in Inums
  BY <1>1, <1>2, <1>3 DEF Local, PTyped, WithIp
<1>5. x \in Elements /\ x \in EntNames
  <2>1. x \in Elements
    BY <1>1, <1>2, <1>3 DEF Local, Named, Name, Parent
  <2> QED
    BY <2>1, InodesAssumption DEF Elements, EntNames
<1>6. dinode' = dinode /\ calls' = calls /\ ip' = Set(ip, p, None) /\ UNCHANGED <<put, held>>
  BY DEF LinkEnter
<1>7. CASE n = 0
  <2>1. /\ ent' = [ent EXCEPT ![i][x] = l] /\ puts' = Set(puts, p, <<i, l>>)
        /\ old' = Set(old, p, None) /\ Return(p) /\ UNCHANGED <<ref, panicked, lock, dp>>
    BY <1>3, <1>7 DEF LinkEnter
  <2>2. ent' \in [Inums -> [EntNames -> 0 .. NInodes]]
    <3>1. ent[i] \in [EntNames -> 0 .. NInodes] /\ l \in 0 .. NInodes
      BY <1>2, <1>4 DEF ITyped, Inums
    <3>2. [ent[i] EXCEPT ![x] = l] \in [EntNames -> 0 .. NInodes]
      BY <1>5, <3>1
    <3> QED
      BY <1>2, <1>4, <2>1, <3>2 DEF ITyped
  <2>3. Others(p)
    BY <1>2, <1>6, <2>1 DEF Return, Goto, Set, Others, IsFcn, Typed, held
  <2>4. /\ pc'[p] = "idle" /\ call'[p] = None /\ path'[p] = <<>> /\ new'[p] = <<>>
        /\ ip'[p] = None /\ dp'[p] = None /\ old'[p] = None /\ put'[p] = put[p] /\ cwd'[p] = cwd[p]
        /\ puts'[p] = <<i, l>> /\ ofile'[p] = ofile[p]
    BY <1>2, <1>3, <1>6, <2>1 DEF Return, Goto, Set, IsFcn, Typed, held
  <2>5. PTyped(p)' /\ Local(p)' /\ HeldOK(p)'
    <3>1. puts'[p] \in Seq2(Inums)
      BY <1>4, <2>4, SeqIn
    <3> QED
      BY <1>2, <2>4, <3>1, ReturnLocal DEF PTyped
  <2>6. ASSUME NEW j \in Inums PROVE ref'[j] = ref[j] + Mine(p, j)' - Mine(p, j)
    <3>1. Mine(p, j) = Bit(cwd[p] = j) + Bit(ofile[p] = j) + Bit(ip[p] = j) + Bit(dp[p] = j) + Bit(old[p] = j)
      BY <1>2, MineFrom
    <3>2. Mine(p, j)' = Bit(cwd'[p] = j) + Bit(ofile'[p] = j) + Bit(ip'[p] = j) + Bit(dp'[p] = j)
                        + Bit(old'[p] = j) + Bit(i = j) + Bit(l = j)
      BY <2>4, MineTwo
    <3> QED
      BY <1>2, <1>3, <2>1, <2>4, <3>1, <3>2, NoneApart DEF Bit, ITyped
  <2> QED
    BY <1>1, <1>2, <1>3, <1>4, <1>6, <2>1, <2>2, <2>3, <2>4, <2>5, <2>6, LoadStep DEF ITyped
<1>8. CASE n # 0
  <2>1. /\ Get(n) /\ puts' = Set(puts, p, <<n>>)
        /\ lock' = [lock EXCEPT ![i] = p] /\ dp' = Set(dp, p, i)
        /\ Goto(p, "linkexists") /\ UNCHANGED <<ent, old, args>>
    BY <1>3, <1>8 DEF LinkEnter
  <2>2. n \in Inums
    BY <1>2, <1>3, <1>4, <1>5, <1>8, EntTyped
  <2>3. Others(p)
    BY <1>2, <1>6, <2>1 DEF Goto, Set, Others, IsFcn, Typed, held, args
  <2>4. /\ ip'[p] = None /\ dp'[p] = i /\ pc'[p] = "linkexists" /\ puts'[p] = <<n>>
        /\ UNCHANGED <<call, path, new, old, put, cwd, ofile>>
    BY <1>2, <1>6, <2>1 DEF Goto, Set, IsFcn, Typed, held, args
  <2>5. PTyped(p)'
    <3>1. puts'[p] \in Seq2(Inums)
      BY <2>2, <2>4, SeqIn
    <3> QED
      BY <1>2, <1>4, <2>4, <3>1 DEF PTyped, Points
  <2>6. Local(p)'
    BY <1>1, <1>2, <1>4, <2>4, NoneApart DEF Local, WithIp, WithDp, Named
  <2>7. HeldOK(p)'
    <3>1. Sound(i)' /\ lock'[i] = p
      BY <1>1, <1>2, <1>3, <1>4, <1>6, <2>1, LoadRight DEF ITyped
    <3> QED
      BY <2>4, <3>1 DEF HeldOK, Holds, WithDp
  <2>8. /\ ref' \in [Inums -> Int] /\ (panicked' = None \/ ref' = ref)
        /\ panicked' = None => \A j \in Inums : ref'[j] = ref[j] + Bit(j = n)
    BY <1>2, <2>1, <2>2, GetRight
  <2>9. ASSUME panicked' = None, NEW j \in Inums PROVE ref'[j] = ref[j] + Mine(p, j)' - Mine(p, j)
    <3>1. Mine(p, j) = Bit(cwd[p] = j) + Bit(ofile[p] = j) + Bit(ip[p] = j) + Bit(dp[p] = j) + Bit(old[p] = j)
      BY <1>2, MineFrom
    <3>2. Mine(p, j)' = Bit(cwd'[p] = j) + Bit(ofile'[p] = j) + Bit(ip'[p] = j) + Bit(dp'[p] = j)
                        + Bit(old'[p] = j) + Bit(n = j)
      BY <2>4, MineOne
    <3> QED
      BY <1>2, <1>3, <2>4, <2>8, <2>9, <3>1, <3>2, NoneApart DEF Bit, ITyped
  <2> QED
    BY <1>1, <1>2, <1>3, <1>4, <1>6, <2>1, <2>3, <2>4, <2>5, <2>6, <2>7, <2>8, <2>9, LoadStep DEF ITyped
<1> QED
  BY <1>7, <1>8

\* A link() that takes its link back keeps the cache right.
LEMMA LinkBadCache ==
  ASSUME CacheInv, NEW p \in Procs, LinkBad(p)
  PROVE  CacheInv'
<1>1. At(p, "linkbad") /\ CanLock(old[p]) /\ ~NoType(old[p])
  BY DEF LinkBad
<1>2. /\ Typed /\ ITyped /\ PTyped(p) /\ Local(p) /\ HeldOK(p)
      /\ panicked = None /\ puts[p] = <<>> /\ pc[p] = "linkbad" /\ put[p] = "lock"
  BY <1>1, AtFacts
<1>3. PICK a \in Inums : a = old[p] /\ dp[p] = None /\ ip[p] = None
  BY <1>1, <1>2 DEF Local, PTyped, WithIp, WithDp
<1>4. Copy(a) = dinode[a] /\ dinode[a].type # "free" /\ lock[a] = None
  BY <1>1, <1>3, CopyRight DEF NoType, CanLock
<1>5. Others(p)
  BY <1>2 DEF LinkBad, Return, Goto, Set, Others, IsFcn, Typed, held
<1>6. /\ pc'[p] = "idle" /\ call'[p] = None /\ path'[p] = <<>> /\ new'[p] = <<>>
      /\ ip'[p] = None /\ dp'[p] = None /\ old'[p] = None /\ put'[p] = put[p] /\ cwd'[p] = cwd[p]
      /\ puts'[p] = <<a>> /\ ofile'[p] = ofile[p]
  BY <1>2, <1>3 DEF LinkBad, Return, Goto, Set, IsFcn, Typed, held
<1>7. AddLinks(a, -1) /\ UNCHANGED <<ent, ref, lock, calls, panicked>>
  BY <1>3 DEF LinkBad
<1>8. PTyped(p)' /\ Local(p)' /\ HeldOK(p)'
  <2>1. puts'[p] \in Seq2(Inums)
    BY <1>6, SeqIn
  <2> QED
    BY <1>2, <1>6, <2>1, ReturnLocal DEF PTyped
<1>9. ASSUME NEW j \in Inums PROVE ref'[j] = ref[j] + Mine(p, j)' - Mine(p, j)
  <2>1. Mine(p, j) = Bit(cwd[p] = j) + Bit(ofile[p] = j) + Bit(ip[p] = j) + Bit(dp[p] = j) + Bit(old[p] = j)
    BY <1>2, MineFrom
  <2>2. Mine(p, j)' = Bit(cwd'[p] = j) + Bit(ofile'[p] = j) + Bit(ip'[p] = j) + Bit(dp'[p] = j) + Bit(old'[p] = j) + Bit(a = j)
    BY <1>6, <1>7, MineOne
  <2> QED
    BY <1>2, <1>3, <1>6, <1>7, <1>9, <2>1, <2>2, NoneApart DEF Bit, ITyped, PTyped
<1>10. -1 \in Int /\ ref' \in [Inums -> Int]
  BY <1>2, <1>7 DEF ITyped
<1> QED
  BY <1>2, <1>4, <1>5, <1>6, <1>7, <1>8, <1>9, <1>10, AddStep

\* The inode that ialloc() takes is the first one that is free.
LEMMA AllocRight ==
  ASSUME NEW F \in SUBSET Inums, F # {}
  PROVE  Min(F) \in F
<1> DEFINE R == {z \in Nat \X Nat : z[1] < z[2]}
<1>1. F \in SUBSET Nat
  BY DEF Inums
<1>2. \A x, y \in Nat : y < x => <<y, x>> \in R
  OBVIOUS
<1>3. IsWellFoundedOn(R, Nat)
  BY NatLessThanWellFounded, Zenon DEF OpToRel
<1> HIDE DEF R
<1>4. PICK x \in F : \A y \in F : ~ (<<y, x>> \in R)
  BY <1>1, <1>3, WFMin
<1>5. \A y \in F : ~(y < x)
  BY <1>1, <1>2, <1>4
<1>6. \A y \in F : x <= y
  BY <1>1, <1>5
<1> QED
  BY <1>6 DEF Min

\* What create() makes is an inode that is not free.
LEMMA TypeOfRight ==
  ASSUME NEW op \in Creates
  PROVE  TypeOf(op) \in Kinds /\ TypeOf(op) # "free" /\ (TypeOf(op) = "dir" <=> op = "mkdir")
  BY DEF TypeOf, Creates, Kinds

\* ialloc() in create() keeps the cache right.
LEMMA CreateAllocCache ==
  ASSUME CacheInv, NEW p \in Procs, CreateAlloc(p)
  PROVE  CacheInv'
<1>1. At(p, "found") /\ call[p] \in Creates /\ CanLock(ip[p]) /\ ~NoType(ip[p]) /\ Load(ip[p])
  BY DEF CreateAlloc
<1>2. /\ Typed /\ ITyped /\ PTyped(p) /\ Local(p) /\ HeldOK(p)
      /\ panicked = None /\ puts[p] = <<>> /\ pc[p] = "found" /\ put[p] = "lock"
  BY <1>1, AtFacts
<1>3. PICK d \in Inums : d = ip[p] /\ dp[p] = None /\ old[p] = None
  BY <1>1, <1>2 DEF Local, PTyped, WithIp, WithDp, Creates
<1>4. Copy(d) = dinode[d] /\ Copy(d) \in Copies /\ dinode[d].type # "free" /\ lock[d] = None
  BY <1>1, <1>3, CopyRight DEF NoType, CanLock
<1>5. /\ ent' = ent /\ calls' = calls /\ UNCHANGED <<call, path, new, old, puts, put, cwd, ofile>>
  BY DEF CreateAlloc, args, held
<1>6. inode' = [inode EXCEPT ![d] = dinode[d]] /\ valid' = [valid EXCEPT ![d] = TRUE]
  BY <1>1, <1>3, <1>4 DEF Load
<1>7. CASE FreeInums = {}
  <2>1. panicked' = "ialloc" /\ UNCHANGED <<dinode, ref, ip, dp, lock, pc>>
    BY <1>7 DEF CreateAlloc
  <2>2. panicked' # None
    BY <2>1, InodesAssumption DEF Panics
  <2>3. Others(p)
    BY <1>2, <1>5, <2>1 DEF Others, IsFcn, Typed
  <2>4. PTyped(p)'
    BY <1>2, <1>5, <2>1 DEF PTyped
  <2>5. Local(p)'
    BY <1>2, <1>5, <2>1 DEF Local, Named
  <2>6. HeldOK(p)'
    BY <1>2, <2>1 DEF HeldOK, Holds, WithDp
  <2> QED
    BY <1>1, <1>2, <1>3, <1>5, <2>1, <2>2, <2>3, <2>4, <2>5, <2>6, LoadStep DEF ITyped
<1>8. CASE FreeInums # {}
  <2>1. PICK i : i = Min(FreeInums)
    OBVIOUS
  <2>2. i \in Inums /\ dinode[i].type = "free"
    BY <1>8, <2>1, AllocRight DEF FreeInums
  <2>3. PICK c : c = [type |-> TypeOf(call[p]), nlink |-> 0]
    OBVIOUS
  <2>4. /\ dinode' = [dinode EXCEPT ![i] = c] /\ Get(i)
        /\ dp' = Set(dp, p, d) /\ ip' = Set(ip, p, i) /\ lock' = [lock EXCEPT ![d] = p]
        /\ Goto(p, "createnew")
    BY <1>3, <1>8, <2>1, <2>3, Zenon DEF CreateAlloc
  <2>5. c \in Copies
    <3>1. TypeOf(call[p]) \in Kinds
      BY <1>1, TypeOfRight
    <3> QED
      BY <2>3, <3>1 DEF Copies
  <2>6. Others(p)
    BY <1>2, <1>5, <2>4 DEF Goto, Set, Others, IsFcn, Typed
  <2>7. ip'[p] = i /\ dp'[p] = d /\ pc'[p] = "createnew" /\ puts'[p] = <<>>
    BY <1>2, <1>5, <2>4 DEF Goto, Set, IsFcn, Typed
  <2>8. /\ ref' \in [Inums -> Int] /\ (panicked' = None \/ ref' = ref)
        /\ panicked' = None => \A j \in Inums : ref'[j] = ref[j] + Bit(j = i)
    BY <1>2, <2>2, <2>4, GetRight
  <2>9. ITyped'
    BY <1>2, <1>3, <1>4, <1>5, <1>6, <2>2, <2>4, <2>5, <2>8 DEF ITyped
  <2>10. PTyped(p)'
    BY <1>2, <1>3, <1>5, <2>2, <2>7 DEF PTyped, Points, Locking
  <2>11. Local(p)'
    BY <1>1, <1>2, <1>3, <1>5, <2>2, <2>7, NoneApart DEF Local, WithIp, WithDp, Named, Parent, Creates
  <2>12. Sound(d)' /\ lock'[d] = p
    BY <1>2, <1>3, <1>4, <1>6, <2>2, <2>4 DEF Sound, ITyped
  <2>13. HeldOK(p)'
    BY <2>7, <2>12 DEF HeldOK, Holds, WithDp
  <2>14. \A j \in Inums : lock'[j] = lock[j] \/ lock[j] \in {None, p}
    BY <1>2, <1>4, <2>4 DEF ITyped
  <2>15. \A j \in Inums : Keeps(j) \/ (Sound(j)' /\ lock[j] \in {None, p})
    <3> SUFFICES ASSUME NEW j \in Inums, j # d PROVE Keeps(j)
      BY <1>4, <2>12
    <3> QED
      BY <1>2, <1>3, <1>6, <2>2, <2>4 DEF Keeps, ITyped
  <2>16. ASSUME panicked' = None, NEW j \in Inums PROVE ref'[j] = ref[j] + Mine(p, j)' - Mine(p, j)
    <3>1. Mine(p, j) = Bit(cwd[p] = j) + Bit(ofile[p] = j) + Bit(ip[p] = j) + Bit(dp[p] = j) + Bit(old[p] = j)
      BY <1>2, MineFrom
    <3>2. Mine(p, j)' = Bit(cwd'[p] = j) + Bit(ofile'[p] = j) + Bit(ip'[p] = j) + Bit(dp'[p] = j)
                        + Bit(old'[p] = j)
      BY <2>7, MineZero
    <3> QED
      BY <1>2, <1>3, <1>5, <2>7, <2>8, <2>16, <3>1, <3>2, NoneApart DEF Bit, ITyped
  <2>17. put'[p] = put[p]
    BY <1>5
  <2> QED
    BY <1>2, <2>6, <2>8, <2>9, <2>10, <2>11, <2>13, <2>14, <2>15, <2>16, <2>17, CallStep
<1> QED
  BY <1>7, <1>8

\* What CreateNew does, inode by inode: the new inode i, its directory d and its name x.
NewMade(p, i, d, x) ==
  /\ i \in Inums /\ d \in Inums /\ x \in Elements /\ i # d /\ old[p] = None
  /\ PTyped(p) /\ Local(p) /\ ITyped /\ pc[p] = "createnew" /\ call[p] \in Creates
  /\ panicked = None /\ puts[p] = <<>> /\ put[p] = "lock"
  /\ lock[i] = None /\ lock[d] = p /\ Copy(i) = dinode[i] /\ dinode[i].type # "free" /\ Sound(d)
  /\ \E m, e \in Copies :
       /\ m.type = dinode[i].type /\ m.nlink = 1
       /\ e.type = dinode[d].type
       /\ e.nlink = dinode[d].nlink + (IF call[p] = "mkdir" THEN 1 ELSE 0)
       /\ dinode' = [dinode EXCEPT ![i] = m, ![d] = e]
       /\ inode' = [inode EXCEPT ![i] = m, ![d] = e]
  /\ valid' = [valid EXCEPT ![i] = TRUE]
  /\ lock' = [lock EXCEPT ![i] = p, ![d] = None]
  /\ ent' \in [Inums -> [EntNames -> 0 .. NInodes]]
  /\ \A j \in Inums : \A n \in Names :
       ent'[j][n] = IF j = d /\ n = x THEN i ELSE ent[j][n]
  /\ puts'[p] = <<d>> /\ dp'[p] = None /\ pc'[p] = "created" /\ Others(p)
  /\ UNCHANGED <<ref, call, path, new, ip, old, put, cwd, ofile, calls, panicked>>

\* What CreateNew does, as the invariant has it.
LEMMA CreateNewEffect ==
  ASSUME CacheInv, NEW p \in Procs, CreateNew(p),
         NEW i, i = ip[p], NEW d, d = dp[p], NEW x, x = Name(p)
  PROVE  NewMade(p, i, d, x)
<1>1. At(p, "createnew") /\ CanLock(ip[p]) /\ ~NoType(ip[p])
  BY DEF CreateNew
<1>2. /\ Typed /\ ITyped /\ PTyped(p) /\ Local(p) /\ HeldOK(p)
      /\ panicked = None /\ puts[p] = <<>> /\ pc[p] = "createnew" /\ put[p] = "lock"
  BY <1>1, AtFacts
<1>3. i \in Inums /\ d \in Inums /\ x \in Elements /\ old[p] = None /\ call[p] \in Creates
  BY <1>1, <1>2 DEF Local, PTyped, WithIp, WithDp, Creates, Named, Name
<1>4. Copy(i) = dinode[i] /\ dinode[i].type # "free" /\ lock[i] = None
  BY <1>1, <1>3, CopyRight DEF NoType, CanLock
<1>5. lock[d] = p /\ Sound(d) /\ i # d
  BY <1>2, <1>3, <1>4, InodesAssumption DEF HeldOK, Holds, WithDp
<1>6. PICK m, e : /\ m = [dinode[i] EXCEPT !.nlink = 1]
                  /\ e = [dinode[d] EXCEPT !.nlink = IF call[p] = "mkdir" THEN @ + 1 ELSE @]
  OBVIOUS
<1>15. dinode[i] \in Copies /\ dinode[d] \in Copies
  BY <1>2, <1>3 DEF ITyped
<1>7. /\ m \in Copies /\ e \in Copies /\ m.type = dinode[i].type /\ m.nlink = 1
      /\ e.type = dinode[d].type
      /\ e.nlink = dinode[d].nlink + (IF call[p] = "mkdir" THEN 1 ELSE 0)
  <2>1. m \in Copies /\ m.type = dinode[i].type /\ m.nlink = 1
    BY <1>6, <1>15 DEF Copies
  <2>2. CASE call[p] = "mkdir"
    <3>1. e = [dinode[d] EXCEPT !.nlink = @ + 1]
      BY <1>6, <2>2
    <3> QED
      BY <1>15, <2>1, <2>2, <3>1 DEF Copies
  <2>3. CASE call[p] # "mkdir"
    <3>1. e = [dinode[d] EXCEPT !.nlink = @]
      BY <1>6, <2>3
    <3>2. e = dinode[d]
      BY <1>15, <3>1 DEF Copies
    <3>3. e.nlink = dinode[d].nlink + 0
      BY <1>15, <3>2 DEF Copies
    <3> QED
      BY <1>15, <2>1, <2>3, <3>2, <3>3
  <2> QED
    BY <2>2, <2>3
<1>8. PICK u, v : u = (IF call[p] = "mkdir" THEN i ELSE 0) /\ v = (IF call[p] = "mkdir" THEN d ELSE 0)
  OBVIOUS
<1>9. /\ dinode' = [dinode EXCEPT ![i] = m, ![d] = e] /\ inode' = [inode EXCEPT ![i] = m, ![d] = e]
      /\ valid' = [valid EXCEPT ![i] = TRUE]
      /\ ent' = [ent EXCEPT ![i]["."] = u, ![i][".."] = v, ![d][x] = i]
      /\ lock' = [lock EXCEPT ![i] = p, ![d] = None]
      /\ puts' = Set(puts, p, <<d>>)
      /\ dp' = Set(dp, p, None) /\ Goto(p, "created")
  BY <1>3, <1>4, <1>5, <1>6, <1>8 DEF CreateNew, Sound, FirstLinks
<1>10. UNCHANGED <<ref, call, path, new, ip, old, put, cwd, ofile, calls, panicked>>
  BY DEF CreateNew, args, held
<1>11. /\ ent' \in [Inums -> [EntNames -> 0 .. NInodes]]
       /\ \A j \in Inums : \A n \in Names : ent'[j][n] = IF j = d /\ n = x THEN i ELSE ent[j][n]
  <2>1. i \in 0 .. NInodes /\ u \in 0 .. NInodes /\ v \in 0 .. NInodes
    BY <1>3, <1>8, InodesAssumption DEF Inums
  <2>2. "." \in EntNames /\ ".." \in EntNames /\ x \in EntNames /\ "." \notin Names /\ ".." \notin Names
        /\ Names \subseteq EntNames
    BY <1>3, InodesAssumption DEF EntNames, Elements
  <2>3. ent[i] \in [EntNames -> 0 .. NInodes] /\ ent[d] \in [EntNames -> 0 .. NInodes]
    BY <1>2, <1>3 DEF ITyped
  <2>4. PICK g, h : g = [ent[i] EXCEPT !["."] = u, ![".."] = v] /\ h = [ent[d] EXCEPT ![x] = i]
    OBVIOUS
  <2>5. /\ g \in [EntNames -> 0 .. NInodes] /\ h \in [EntNames -> 0 .. NInodes]
        /\ \A n \in Names : g[n] = ent[i][n]
        /\ \A n \in Names : h[n] = IF n = x THEN i ELSE ent[d][n]
    BY <2>1, <2>2, <2>3, <2>4
  <2>6. ent' = [ent EXCEPT ![i] = g, ![d] = h]
    BY <1>2, <1>5, <1>9, <2>4 DEF ITyped
  <2> QED
    BY <1>2, <1>5, <2>5, <2>6 DEF ITyped
<1>12. Others(p)
  BY <1>2, <1>9, <1>10 DEF Goto, Set, Others, IsFcn, Typed
<1>13. puts'[p] = <<d>> /\ dp'[p] = None /\ pc'[p] = "created"
  BY <1>2, <1>9 DEF Goto, Set, IsFcn, Typed
<1>14. \E mm, ee \in Copies :
          /\ mm.type = dinode[i].type /\ mm.nlink = 1
          /\ ee.type = dinode[d].type
          /\ ee.nlink = dinode[d].nlink + (IF call[p] = "mkdir" THEN 1 ELSE 0)
          /\ dinode' = [dinode EXCEPT ![i] = mm, ![d] = ee]
          /\ inode' = [inode EXCEPT ![i] = mm, ![d] = ee]
  BY <1>7, <1>9, Zenon
<1> QED
  BY <1>2, <1>3, <1>4, <1>5, <1>9, <1>10, <1>11, <1>12, <1>13, <1>14, Zenon DEF NewMade

\* The end of create() keeps the cache right.
LEMMA CreateNewCache ==
  ASSUME CacheInv, NEW p \in Procs, CreateNew(p)
  PROVE  CacheInv'
<1>1. PICK i, d, x : i = ip[p] /\ d = dp[p] /\ x = Name(p)
  OBVIOUS
<1>2. NewMade(p, i, d, x)
  BY <1>1, CreateNewEffect
<1> USE DEF NewMade
<1>3. PICK m, e \in Copies :
        /\ m.type = dinode[i].type /\ m.nlink = 1
        /\ e.type = dinode[d].type
        /\ dinode' = [dinode EXCEPT ![i] = m, ![d] = e]
        /\ inode' = [inode EXCEPT ![i] = m, ![d] = e]
  BY <1>2, Zenon
<1>4. ITyped'
  BY <1>2, <1>3 DEF ITyped
<1>5. Sound(i)' /\ Sound(d)' /\ lock'[i] = p
  BY <1>2, <1>3 DEF Sound, ITyped
<1>6. PTyped(p)'
  <2>1. puts'[p] \in Seq2(Inums)
    BY <1>2, SeqIn
  <2> QED
    BY <1>2, <2>1 DEF PTyped, Points
<1>7. Local(p)'
  BY <1>1, <1>2, NoneApart DEF Local, WithIp, WithDp, Named, Parent, Creates
<1>8. HeldOK(p)'
  BY <1>1, <1>2, <1>5 DEF HeldOK, Holds, WithDp
<1>9. \A j \in Inums : lock'[j] = lock[j] \/ lock[j] \in {None, p}
  BY <1>2 DEF ITyped
<1>10. \A j \in Inums : Keeps(j) \/ (Sound(j)' /\ lock[j] \in {None, p})
  <2> SUFFICES ASSUME NEW j \in Inums, j # i, j # d PROVE Keeps(j)
    BY <1>2, <1>5
  <2> QED
    BY <1>2, <1>3 DEF Keeps, ITyped
<1>11. ASSUME NEW j \in Inums PROVE ref'[j] = ref[j] + Mine(p, j)' - Mine(p, j)
  <2>1. Mine(p, j) = Bit(cwd[p] = j) + Bit(ofile[p] = j) + Bit(ip[p] = j) + Bit(dp[p] = j) + Bit(old[p] = j)
    BY <1>2, MineFrom
  <2>3. puts'[p] = <<d>>
    BY <1>2
  <2>2. Mine(p, j)' = Bit(cwd'[p] = j) + Bit(ofile'[p] = j) + Bit(ip'[p] = j) + Bit(dp'[p] = j)
                      + Bit(old'[p] = j) + Bit(d = j)
    BY <2>3, MineOne
  <2> QED
    BY <1>1, <1>2, <2>1, <2>2, NoneApart DEF Bit, ITyped
<1>12. put'[p] = put[p] /\ panicked' = None
  BY <1>2
<1> QED
  BY <1>2, <1>4, <1>6, <1>7, <1>8, <1>9, <1>10, <1>11, <1>12, CallStep

\* What Unlink does: a panic, a refusal, or the entry x of directory d for inode i goes.
UnlinkDone(p, i, d, x) ==
  /\ i \in Inums /\ d \in Inums /\ x \in Elements /\ i # d /\ old[p] = None
  /\ PTyped(p) /\ Local(p) /\ ITyped /\ pc[p] = "unlink" /\ call[p] = "unlink"
  /\ panicked = None /\ puts[p] = <<>> /\ put[p] = "lock" /\ HeldOK(p)
  /\ lock[i] = None /\ lock[d] = p /\ Copy(i) = dinode[i] /\ dinode[i].type # "free" /\ Sound(d)
  /\ Others(p) /\ CanLock(i) /\ ~NoType(i)
  /\ UNCHANGED <<ref, call, path, new, old, put, cwd, ofile, calls>>
  /\ \/ /\ dinode[i].nlink < 1 /\ panicked' = "unlink"
        /\ UNCHANGED <<dinode, ent, inode, valid, lock, ip, dp, puts, pc>>
     \/ /\ dinode[i].type = "dir" /\ dinode[i].nlink >= 1
        /\ Load(i) /\ ip'[p] = None /\ puts'[p] = <<i>> /\ pc'[p] = "unlinkbad"
        /\ UNCHANGED <<dinode, ent, lock, dp, panicked>>
     \/ /\ dinode[i].type = "dir" => \A n \in Names : ent[i][n] = 0
        /\ dinode[i].nlink >= 1
        /\ \E e \in Copies :
             /\ e.type = dinode[d].type
             /\ e.nlink = dinode[d].nlink - (IF dinode[i].type = "dir" THEN 1 ELSE 0)
             /\ dinode' = [dinode EXCEPT ![d] = e]
             /\ inode' = [inode EXCEPT ![d] = e, ![i] = dinode[i]]
        /\ valid' = [valid EXCEPT ![i] = TRUE]
        /\ lock' = [lock EXCEPT ![i] = p, ![d] = None]
        /\ ent' \in [Inums -> [EntNames -> 0 .. NInodes]]
        /\ \A j \in Inums : \A n \in Names :
             ent'[j][n] = IF j = d /\ n = x THEN 0 ELSE ent[j][n]
        /\ puts'[p] = <<d>> /\ dp'[p] = None /\ pc'[p] = "unlinked"
        /\ UNCHANGED <<ip, panicked>>

\* What Unlink does, as the invariant has it.
LEMMA UnlinkEffect ==
  ASSUME CacheInv, NEW p \in Procs, Unlink(p),
         NEW i, i = ip[p], NEW d, d = dp[p], NEW x, x = Name(p)
  PROVE  UnlinkDone(p, i, d, x)
<1>1. At(p, "unlink") /\ CanLock(ip[p]) /\ ~NoType(ip[p])
  BY DEF Unlink
<1>2. /\ Typed /\ ITyped /\ PTyped(p) /\ Local(p) /\ HeldOK(p)
      /\ panicked = None /\ puts[p] = <<>> /\ pc[p] = "unlink" /\ put[p] = "lock"
  BY <1>1, AtFacts
<1>3. i \in Inums /\ d \in Inums /\ x \in Elements /\ old[p] = None /\ call[p] = "unlink"
  BY <1>1, <1>2 DEF Local, PTyped, WithIp, WithDp, Named, Name
<1>4. Copy(i) = dinode[i] /\ dinode[i].type # "free" /\ lock[i] = None
  BY <1>1, <1>3, CopyRight DEF NoType, CanLock
<1>5. lock[d] = p /\ Sound(d) /\ i # d
  BY <1>2, <1>3, <1>4, InodesAssumption DEF HeldOK, Holds, WithDp
<1>6. dinode[i] \in Copies /\ dinode[d] \in Copies /\ inode[d] = dinode[d]
  BY <1>2, <1>3, <1>5 DEF ITyped, Sound
<1>7. PICK e : e = [dinode[d] EXCEPT !.nlink = IF dinode[i].type = "dir" THEN @ - 1 ELSE @]
  OBVIOUS
<1>8. UNCHANGED <<ref, call, path, new, old, put, cwd, ofile, calls>>
  BY DEF Unlink, args, held
<1>9. \/ /\ dinode[i].nlink < 1 /\ panicked' = "unlink"
         /\ UNCHANGED <<dinode, ent, inode, valid, lock, ip, dp, puts, pc>>
      \/ /\ ~(dinode[i].nlink < 1) /\ dinode[i].type = "dir" /\ NotEmpty(i)
         /\ Load(i) /\ ip' = Set(ip, p, None) /\ puts' = Set(puts, p, <<i>>)
         /\ Goto(p, "unlinkbad") /\ UNCHANGED <<dinode, ent, lock, dp, panicked>>
      \/ /\ ~(dinode[i].nlink < 1) /\ ~(dinode[i].type = "dir" /\ NotEmpty(i))
         /\ ent' = [ent EXCEPT ![d][x] = 0]
         /\ dinode' = [dinode EXCEPT ![d] = e]
         /\ inode' = [inode EXCEPT ![d] = e, ![i] = dinode[i]]
         /\ valid' = [valid EXCEPT ![i] = TRUE]
         /\ lock' = [lock EXCEPT ![i] = p, ![d] = None]
         /\ dp' = Set(dp, p, None) /\ puts' = Set(puts, p, <<d>>)
         /\ Goto(p, "unlinked") /\ UNCHANGED <<ip, panicked>>
  BY <1>4, <1>6, <1>7, Zenon DEF Unlink, disk
<1>10. CASE /\ dinode[i].nlink < 1 /\ panicked' = "unlink"
            /\ UNCHANGED <<dinode, ent, inode, valid, lock, ip, dp, puts, pc>>
  <2>1. Others(p)
    BY <1>2, <1>8, <1>10 DEF Others, IsFcn, Typed
  <2> QED
    BY <1>1, <1>2, <1>3, <1>4, <1>5, <1>8, <1>10, <2>1, Zenon DEF UnlinkDone
<1>11. CASE /\ ~(dinode[i].nlink < 1) /\ dinode[i].type = "dir" /\ NotEmpty(i)
            /\ Load(i) /\ ip' = Set(ip, p, None) /\ puts' = Set(puts, p, <<i>>)
            /\ Goto(p, "unlinkbad") /\ UNCHANGED <<dinode, ent, lock, dp, panicked>>
  <2>1. Others(p)
    BY <1>2, <1>8, <1>11 DEF Others, IsFcn, Typed, Goto, Set
  <2>2. ip'[p] = None /\ puts'[p] = <<i>> /\ pc'[p] = "unlinkbad"
    BY <1>2, <1>11 DEF IsFcn, Typed, Goto, Set
  <2>3. dinode[i].nlink >= 1
    BY <1>6, <1>11 DEF Copies
  <2> QED
    BY <1>1, <1>2, <1>3, <1>4, <1>5, <1>8, <1>11, <2>1, <2>2, <2>3, Zenon DEF UnlinkDone
<1>12. CASE /\ ~(dinode[i].nlink < 1) /\ ~(dinode[i].type = "dir" /\ NotEmpty(i))
            /\ ent' = [ent EXCEPT ![d][x] = 0]
            /\ dinode' = [dinode EXCEPT ![d] = e]
            /\ inode' = [inode EXCEPT ![d] = e, ![i] = dinode[i]]
            /\ valid' = [valid EXCEPT ![i] = TRUE]
            /\ lock' = [lock EXCEPT ![i] = p, ![d] = None]
            /\ dp' = Set(dp, p, None) /\ puts' = Set(puts, p, <<d>>)
            /\ Goto(p, "unlinked") /\ UNCHANGED <<ip, panicked>>
  <2>1. Others(p)
    BY <1>2, <1>8, <1>12 DEF Others, IsFcn, Typed, Goto, Set
  <2>2. dp'[p] = None /\ puts'[p] = <<d>> /\ pc'[p] = "unlinked"
    BY <1>2, <1>12 DEF IsFcn, Typed, Goto, Set
  <2>3. dinode[i].nlink >= 1
    BY <1>6, <1>12 DEF Copies
  <2>4. dinode[i].type = "dir" => \A n \in Names : ent[i][n] = 0
    BY <1>12 DEF NotEmpty
  <2>5. /\ e \in Copies /\ e.type = dinode[d].type
        /\ e.nlink = dinode[d].nlink - (IF dinode[i].type = "dir" THEN 1 ELSE 0)
    <3>1. CASE dinode[i].type = "dir"
      <4>1. e = [dinode[d] EXCEPT !.nlink = @ - 1]
        BY <1>7, <3>1
      <4> QED
        BY <1>6, <3>1, <4>1 DEF Copies
    <3>2. CASE dinode[i].type # "dir"
      <4>1. e = [dinode[d] EXCEPT !.nlink = @]
        BY <1>7, <3>2
      <4>2. e = dinode[d]
        BY <1>6, <4>1 DEF Copies
      <4>3. e.nlink = dinode[d].nlink - 0
        BY <1>6, <4>2 DEF Copies
      <4> QED
        BY <1>6, <3>2, <4>2, <4>3
    <3> QED
      BY <3>1, <3>2
  <2>6. /\ ent' \in [Inums -> [EntNames -> 0 .. NInodes]]
        /\ \A j \in Inums : \A n \in Names :
             ent'[j][n] = IF j = d /\ n = x THEN 0 ELSE ent[j][n]
    <3>1. ent[d] \in [EntNames -> 0 .. NInodes] /\ 0 \in 0 .. NInodes
      BY <1>2, <1>3, InodesAssumption DEF ITyped
    <3>2. x \in EntNames /\ Names \subseteq EntNames
      BY <1>3, InodesAssumption DEF EntNames, Elements
    <3>3. PICK h : h = [ent[d] EXCEPT ![x] = 0]
      OBVIOUS
    <3>4. h \in [EntNames -> 0 .. NInodes] /\ \A n \in Names : h[n] = IF n = x THEN 0 ELSE ent[d][n]
      BY <3>1, <3>2, <3>3
    <3>5. ent' = [ent EXCEPT ![d] = h]
      BY <1>2, <1>12, <3>3 DEF ITyped
    <3> QED
      BY <1>2, <1>3, <3>4, <3>5 DEF ITyped
  <2>7. \E ee \in Copies :
          /\ ee.type = dinode[d].type
          /\ ee.nlink = dinode[d].nlink - (IF dinode[i].type = "dir" THEN 1 ELSE 0)
          /\ dinode' = [dinode EXCEPT ![d] = ee]
          /\ inode' = [inode EXCEPT ![d] = ee, ![i] = dinode[i]]
    BY <1>12, <2>5, Zenon
  <2> QED
    BY <1>1, <1>2, <1>3, <1>4, <1>5, <1>8, <1>12, <2>1, <2>2, <2>3, <2>4, <2>6, <2>7, Zenon DEF UnlinkDone
<1> QED
  BY <1>9, <1>10, <1>11, <1>12, Zenon

\* unlink() keeps the cache right.
LEMMA UnlinkCache ==
  ASSUME CacheInv, NEW p \in Procs, Unlink(p)
  PROVE  CacheInv'
<1>1. PICK i, d, x : i = ip[p] /\ d = dp[p] /\ x = Name(p)
  OBVIOUS
<1>2. UnlinkDone(p, i, d, x)
  BY <1>1, UnlinkEffect
<1>3. /\ i \in Inums /\ d \in Inums /\ x \in Elements /\ i # d /\ old[p] = None
      /\ PTyped(p) /\ Local(p) /\ ITyped /\ pc[p] = "unlink" /\ call[p] = "unlink"
      /\ panicked = None /\ puts[p] = <<>> /\ put[p] = "lock" /\ HeldOK(p)
      /\ lock[i] = None /\ lock[d] = p /\ Copy(i) = dinode[i] /\ dinode[i].type # "free" /\ Sound(d)
      /\ Others(p) /\ CanLock(i) /\ ~NoType(i)
      /\ UNCHANGED <<ref, call, path, new, old, put, cwd, ofile, calls>>
  BY <1>2 DEF UnlinkDone
<1>4. CASE /\ dinode[i].nlink < 1 /\ panicked' = "unlink"
           /\ UNCHANGED <<dinode, ent, inode, valid, lock, ip, dp, puts, pc>>
  <2>1. panicked' # None
    BY <1>4, InodesAssumption DEF Panics
  <2>2. PTyped(p)'
    BY <1>3, <1>4 DEF PTyped
  <2>3. Local(p)'
    BY <1>3, <1>4 DEF Local, Named
  <2>4. HeldOK(p)'
    BY <1>3, <1>4 DEF HeldOK, Holds, Sound
  <2> QED
    BY <1>3, <1>4, <2>1, <2>2, <2>3, <2>4, QuietStep DEF ITyped
<1>5. CASE /\ dinode[i].type = "dir" /\ dinode[i].nlink >= 1
           /\ Load(i) /\ ip'[p] = None /\ puts'[p] = <<i>> /\ pc'[p] = "unlinkbad"
           /\ UNCHANGED <<dinode, ent, lock, dp, panicked>>
  <2>1. PTyped(p)'
    <3>1. puts'[p] \in Seq2(Inums)
      BY <1>3, <1>5, SeqIn
    <3> QED
      BY <1>3, <1>5, <3>1 DEF PTyped, Points
  <2>2. Local(p)'
    BY <1>1, <1>3, <1>5, NoneApart DEF Local, WithIp, WithDp, Named
  <2>3. HeldOK(p)'
    <3>1. Keeps(d)
      BY <1>3, <1>5, LoadRight
    <3> QED
      BY <1>1, <1>3, <1>5, <3>1 DEF HeldOK, Holds, Sound, Keeps
  <2>4. ASSUME NEW j \in Inums PROVE ref'[j] = ref[j] + Mine(p, j)' - Mine(p, j)
    <3>1. Mine(p, j) = Bit(cwd[p] = j) + Bit(ofile[p] = j) + Bit(ip[p] = j) + Bit(dp[p] = j) + Bit(old[p] = j)
      BY <1>3, MineFrom
    <3>2. Mine(p, j)' = Bit(cwd'[p] = j) + Bit(ofile'[p] = j) + Bit(ip'[p] = j) + Bit(dp'[p] = j)
                        + Bit(old'[p] = j) + Bit(i = j)
      BY <1>5, MineOne
    <3> QED
      BY <1>1, <1>3, <1>5, <3>1, <3>2, NoneApart DEF Bit, ITyped
  <2> QED
    BY <1>3, <1>5, <2>1, <2>2, <2>3, <2>4, LoadStep DEF ITyped
<1>6. CASE /\ \E e \in Copies :
                /\ e.type = dinode[d].type
                /\ dinode' = [dinode EXCEPT ![d] = e]
                /\ inode' = [inode EXCEPT ![d] = e, ![i] = dinode[i]]
           /\ valid' = [valid EXCEPT ![i] = TRUE]
           /\ lock' = [lock EXCEPT ![i] = p, ![d] = None]
           /\ ent' \in [Inums -> [EntNames -> 0 .. NInodes]]
           /\ puts'[p] = <<d>> /\ dp'[p] = None /\ pc'[p] = "unlinked"
           /\ UNCHANGED <<ip, panicked>>
  <2>1. PICK e \in Copies :
          /\ e.type = dinode[d].type
          /\ dinode' = [dinode EXCEPT ![d] = e]
          /\ inode' = [inode EXCEPT ![d] = e, ![i] = dinode[i]]
    BY <1>6
  <2>2. dinode[i] \in Copies
    BY <1>3 DEF ITyped
  <2>3. ITyped'
    BY <1>3, <1>6, <2>1, <2>2 DEF ITyped
  <2>4. Sound(i)' /\ Sound(d)' /\ lock'[i] = p
    BY <1>3, <1>6, <2>1 DEF Sound, ITyped
  <2>5. PTyped(p)'
    <3>1. puts'[p] \in Seq2(Inums)
      BY <1>3, <1>6, SeqIn
    <3> QED
      BY <1>3, <1>6, <3>1 DEF PTyped, Points
  <2>6. Local(p)'
    BY <1>1, <1>3, <1>6, NoneApart DEF Local, WithIp, WithDp, Named
  <2>7. HeldOK(p)'
    BY <1>1, <1>6, <2>4 DEF HeldOK, Holds, WithDp
  <2>8. \A j \in Inums : lock'[j] = lock[j] \/ lock[j] \in {None, p}
    BY <1>3, <1>6 DEF ITyped
  <2>9. \A j \in Inums : Keeps(j) \/ (Sound(j)' /\ lock[j] \in {None, p})
    <3> SUFFICES ASSUME NEW j \in Inums, j # i, j # d PROVE Keeps(j)
      BY <1>3, <2>4
    <3> QED
      BY <1>3, <1>6, <2>1 DEF Keeps, ITyped
  <2>10. ASSUME NEW j \in Inums PROVE ref'[j] = ref[j] + Mine(p, j)' - Mine(p, j)
    <3>1. Mine(p, j) = Bit(cwd[p] = j) + Bit(ofile[p] = j) + Bit(ip[p] = j) + Bit(dp[p] = j) + Bit(old[p] = j)
      BY <1>3, MineFrom
    <3>2. Mine(p, j)' = Bit(cwd'[p] = j) + Bit(ofile'[p] = j) + Bit(ip'[p] = j) + Bit(dp'[p] = j)
                        + Bit(old'[p] = j) + Bit(d = j)
      BY <1>6, MineOne
    <3> QED
      BY <1>1, <1>3, <1>6, <3>1, <3>2, NoneApart DEF Bit, ITyped
  <2>11. put'[p] = put[p] /\ panicked' = None
    BY <1>3, <1>6
  <2> QED
    BY <1>3, <2>3, <2>5, <2>6, <2>7, <2>8, <2>9, <2>10, <2>11, CallStep
<1> QED
  BY <1>2, <1>4, <1>5, <1>6, Zenon DEF UnlinkDone

\* What is known of a process in iput() of inode i.
LEMMA PutFacts ==
  ASSUME CacheInv, NEW p \in Procs, puts[p] # <<>> \/ put[p] # "lock", NEW i, i = Head(puts[p])
  PROVE  /\ Typed /\ ITyped /\ PTyped(p) /\ Local(p) /\ HeldOK(p) /\ FreeOK(p)
         /\ puts[p] \in Seq2(Inums) /\ puts[p] # <<>> /\ i \in Inums /\ Nth(puts[p], 1, i)
         /\ Tail(puts[p]) \in Seq2(Inums)
         /\ \A j : /\ Nth(puts[p], 1, j) <=> i = j
                   /\ Nth(Tail(puts[p]), 1, j) <=> Nth(puts[p], 2, j)
                   /\ ~Nth(Tail(puts[p]), 2, j)
<1>1. Typed /\ ITyped /\ PTyped(p) /\ Local(p) /\ HeldOK(p) /\ FreeOK(p)
  BY DEF CacheInv, Typed
<1>2. puts[p] # <<>> /\ puts[p] \in Seq2(Inums)
  BY <1>1 DEF Local, PTyped
<1>3. PICK s \in Seq2(Inums) : s = puts[p]
  BY <1>2
<1>4. /\ Head(s) \in Inums /\ 1 \in DOMAIN s /\ s[1] = Head(s) /\ Tail(s) \in Seq2(Inums)
      /\ \A j : (Nth(Tail(s), 1, j) <=> Nth(s, 2, j)) /\ ~Nth(Tail(s), 2, j)
  BY <1>2, <1>3, SeqShape
<1>5. \A j : Nth(s, 1, j) <=> i = j
  BY <1>3, <1>4 DEF Nth
<1> QED
  BY <1>1, <1>2, <1>3, <1>4, <1>5

\* The lock of iput() keeps the cache right.
LEMMA IputLockCache ==
  ASSUME CacheInv, NEW p \in Procs, IputLock(p)
  PROVE  CacheInv'
<1>1. panicked = None /\ puts[p] # <<>> /\ put[p] = "lock" /\ CanLock(Head(puts[p]))
  BY DEF IputLock
<1>2. PICK i : i = Head(puts[p])
  OBVIOUS
<1>3. /\ Typed /\ ITyped /\ PTyped(p) /\ Local(p) /\ HeldOK(p) /\ puts[p] # <<>> /\ i \in Inums
  BY <1>1, <1>2, PutFacts
<1>4. UNCHANGED <<valid, ref, pc, call, path, new, ip, dp, old, puts, cwd, ofile, calls, panicked>>
  BY DEF IputLock, args, held
<1>5. lock[i] = None /\ ~Holds(p, i)
  BY <1>1, <1>2, <1>3, InodesAssumption DEF CanLock, HeldOK
<1>6. \A j \in Inums : Mine(p, j)' = Mine(p, j) /\ Mine(p, j) \in Int
  BY <1>4 DEF Mine, Bit
<1>7. \A j \in Inums : ref'[j] = ref[j] + Mine(p, j)' - Mine(p, j)
  BY <1>3, <1>4, <1>6 DEF ITyped
<1>8. CASE LastUse(i)
  <2>1. /\ dinode' = [dinode EXCEPT ![i] = Free] /\ inode' = [inode EXCEPT ![i] = Free]
        /\ ent' = [ent EXCEPT ![i] = [n \in DOMAIN @ |-> 0]]
        /\ lock' = [lock EXCEPT ![i] = p] /\ put' = [put EXCEPT ![p] = "free"]
    BY <1>2, <1>8 DEF IputLock, Set
  <2>2. Others(p) /\ put'[p] = "free"
    BY <1>3, <1>4, <2>1 DEF Others, IsFcn, Typed
  <2>3. Free \in Copies
    BY DEF Free, Copies, Kinds
  <2>4. ent' \in [Inums -> [EntNames -> 0 .. NInodes]]
    <3>1. ent[i] \in [EntNames -> 0 .. NInodes] /\ 0 \in 0 .. NInodes
      BY <1>3, InodesAssumption DEF ITyped
    <3>2. PICK h : h = [n \in EntNames |-> 0]
      OBVIOUS
    <3>3. h \in [EntNames -> 0 .. NInodes] /\ ent' = [ent EXCEPT ![i] = h]
      BY <2>1, <3>1, <3>2
    <3> QED
      BY <1>3, <3>3 DEF ITyped
  <2>5. ITyped'
    BY <1>3, <1>4, <2>1, <2>3, <2>4 DEF ITyped
  <2>6. PTyped(p)' /\ Local(p)'
    BY <1>3, <1>4, <2>2 DEF PTyped, Local, Named
  <2>7. lock'[i] = p /\ \A j \in Inums : j # i => Keeps(j) /\ lock'[j] = lock[j] /\ dinode'[j] = dinode[j]
    BY <1>3, <1>4, <2>1 DEF ITyped, Keeps
  <2>8. HeldOK(p)'
    <3> SUFFICES ASSUME NEW j \in Inums, Holds(p, j)' PROVE lock'[j] = p /\ Sound(j)'
      BY DEF HeldOK
    <3>1. Holds(p, j) /\ j # i
      BY <1>4, <1>5 DEF Holds
    <3> QED
      BY <1>3, <2>7, <3>1 DEF HeldOK, Sound, Keeps
  <2>9. FreeOK(p)'
    BY <1>2, <1>4, <1>5, <2>7 DEF FreeOK, Holds
  <2>10. /\ \A j \in Inums : lock'[j] = lock[j] \/ lock[j] \in {None, p}
         /\ \A j \in Inums : Keeps(j) \/ Sound(j)' \/ ~valid'[j] \/ (put'[p] = "free" /\ Head(puts'[p]) = j)
         /\ \A j \in Inums : Keeps(j) \/ lock[j] \in {None, p} \/ \A q \in Procs : ~Holds(q, j)
    BY <1>2, <1>4, <1>5, <2>2, <2>7
  <2>11. put[p] # "free" /\ panicked' = None
    BY <1>1, <1>4
  <2> QED
    BY <1>1, <1>7, <2>2, <2>5, <2>6, <2>8, <2>9, <2>10, <2>11, CacheStep
<1>9. CASE ~LastUse(i)
  <2>1. put' = [put EXCEPT ![p] = "unref"] /\ UNCHANGED <<dinode, ent, inode, lock>>
    BY <1>2, <1>9 DEF IputLock, Set, disk
  <2>2. Others(p) /\ put'[p] = "unref"
    BY <1>3, <1>4, <2>1 DEF Others, IsFcn, Typed
  <2>3. ITyped'
    BY <1>3, <1>4, <2>1 DEF ITyped
  <2>4. PTyped(p)' /\ Local(p)' /\ FreeOK(p)'
    BY <1>3, <1>4, <2>2 DEF PTyped, Local, Named, FreeOK
  <2>5. HeldOK(p)'
    BY <1>3, <1>4, <2>1 DEF HeldOK, Holds, Sound
  <2>6. \A j \in Inums : Keeps(j) /\ lock'[j] = lock[j]
    BY <1>4, <2>1 DEF Keeps
  <2>7. put[p] # "free" /\ panicked' = None
    BY <1>1, <1>4
  <2> QED
    BY <1>1, <1>7, <2>2, <2>3, <2>4, <2>5, <2>6, <2>7, CacheStep
<1> QED
  BY <1>8, <1>9

\* The end of the freeing of an inode keeps the cache right.
LEMMA IputFreeCache ==
  ASSUME CacheInv, NEW p \in Procs, IputFree(p)
  PROVE  CacheInv'
<1>1. panicked = None /\ put[p] = "free"
  BY DEF IputFree
<1>2. PICK i : i = Head(puts[p])
  OBVIOUS
<1>3. Typed /\ ITyped /\ PTyped(p) /\ Local(p) /\ HeldOK(p) /\ FreeOK(p) /\ puts[p] # <<>> /\ i \in Inums
  BY <1>1, <1>2, PutFacts
<1>4. /\ UNCHANGED <<dinode, ent, inode, ref, pc, call, path, new, ip, dp, old, puts, cwd, ofile, calls, panicked>>
      /\ valid' = [valid EXCEPT ![i] = FALSE] /\ lock' = [lock EXCEPT ![i] = None]
      /\ put' = [put EXCEPT ![p] = "unref"]
  BY <1>2 DEF IputFree, args, held, disk, Set
<1>5. lock[i] = p /\ ~Holds(p, i)
  BY <1>1, <1>2, <1>3 DEF FreeOK
<1>6. \A j \in Inums : Mine(p, j)' = Mine(p, j) /\ Mine(p, j) \in Int
  BY <1>4 DEF Mine, Bit
<1>7. \A j \in Inums : ref'[j] = ref[j] + Mine(p, j)' - Mine(p, j)
  BY <1>3, <1>4, <1>6 DEF ITyped
<1>8. Others(p) /\ put'[p] = "unref"
  BY <1>3, <1>4 DEF Others, IsFcn, Typed
<1>9. ITyped'
  BY <1>3, <1>4 DEF ITyped
<1>10. PTyped(p)' /\ Local(p)' /\ FreeOK(p)'
  BY <1>3, <1>4, <1>8 DEF PTyped, Local, Named, FreeOK
<1>11. ~valid'[i] /\ \A j \in Inums : j # i => Keeps(j) /\ lock'[j] = lock[j]
  BY <1>3, <1>4 DEF ITyped, Keeps
<1>12. HeldOK(p)'
  <2> SUFFICES ASSUME NEW j \in Inums, Holds(p, j)' PROVE lock'[j] = p /\ Sound(j)'
    BY DEF HeldOK
  <2>1. Holds(p, j) /\ j # i
    BY <1>4, <1>5 DEF Holds
  <2> QED
    BY <1>3, <1>4, <1>11, <2>1 DEF HeldOK, Sound, Keeps
<1>13. /\ \A j \in Inums : lock'[j] = lock[j] \/ lock[j] \in {None, p}
       /\ \A j \in Inums : Keeps(j) \/ Sound(j)' \/ ~valid'[j] \/ (put'[p] = "free" /\ Head(puts'[p]) = j)
       /\ \A j \in Inums : Keeps(j) \/ lock[j] \in {None, p} \/ \A q \in Procs : ~Holds(q, j)
  BY <1>5, <1>11
<1>14. panicked' = None /\ ~valid'[Head(puts[p])]
  BY <1>1, <1>2, <1>4, <1>11
<1> QED
  BY <1>1, <1>7, <1>8, <1>9, <1>10, <1>12, <1>13, <1>14, CacheStep

\* The last step of iput() keeps the cache right: nobody has the copy that is dropped.
LEMMA IputUnrefCache ==
  ASSUME CacheInv, NEW p \in Procs, IputUnref(p)
  PROVE  CacheInv'
<1>1. panicked = None /\ put[p] = "unref"
  BY DEF IputUnref
<1>2. PICK i : i = Head(puts[p])
  OBVIOUS
<1>3. /\ Typed /\ ITyped /\ PTyped(p) /\ Local(p) /\ HeldOK(p) /\ puts[p] # <<>> /\ i \in Inums
      /\ Nth(puts[p], 1, i) /\ Tail(puts[p]) \in Seq2(Inums)
      /\ \A j : /\ Nth(puts[p], 1, j) <=> i = j
                /\ Nth(Tail(puts[p]), 1, j) <=> Nth(puts[p], 2, j)
                /\ ~Nth(Tail(puts[p]), 2, j)
  BY <1>1, <1>2, PutFacts
<1>4. /\ UNCHANGED <<dinode, ent, lock, pc, call, path, new, ip, dp, old, cwd, ofile, calls, panicked>>
      /\ ref' = [ref EXCEPT ![i] = @ - 1]
      /\ puts' = [puts EXCEPT ![p] = Tail(@)] /\ put' = [put EXCEPT ![p] = "lock"]
      /\ IF ref[i] = 1
         THEN valid' = [valid EXCEPT ![i] = FALSE] /\ inode' = [inode EXCEPT ![i] = Free]
         ELSE UNCHANGED <<valid, inode>>
  BY <1>2 DEF IputUnref, args, held, disk, Set
<1>5. Others(p) /\ put'[p] = "lock" /\ puts'[p] = Tail(puts[p])
  BY <1>3, <1>4 DEF Others, IsFcn, Typed
<1>6. ASSUME NEW j \in Inums PROVE ref'[j] = ref[j] + Mine(p, j)' - Mine(p, j)
  <2>1. Mine(p, j)' = Mine(p, j) - Bit(i = j) /\ Mine(p, j) \in Int
    BY <1>3, <1>4, <1>5 DEF Mine, Bit
  <2> QED
    BY <1>3, <1>4, <2>1 DEF Bit, ITyped
<1>7. ITyped'
  <2>1. Free \in Copies
    BY DEF Free, Copies, Kinds
  <2>2. inode' \in [Inums -> Copies] /\ valid' \in [Inums -> BOOLEAN]
    <3>1. CASE ref[i] = 1
      BY <1>3, <1>4, <2>1, <3>1 DEF ITyped
    <3>2. CASE ref[i] # 1
      BY <1>3, <1>4, <3>2 DEF ITyped
    <3> QED
      BY <3>1, <3>2
  <2>3. ref' \in [Inums -> Int]
    <3>1. ref' = [ref EXCEPT ![i] = @ - 1] /\ ref \in [Inums -> Int] /\ i \in Inums
      BY <1>3, <1>4 DEF ITyped
    <3> QED
      BY <3>1
  <2>4. UNCHANGED <<dinode, ent, lock, calls>>
    BY <1>4
  <2> QED
    BY <1>3, <2>2, <2>3, <2>4 DEF ITyped
<1>8. PTyped(p)' /\ FreeOK(p)'
  BY <1>3, <1>4, <1>5 DEF PTyped, FreeOK
<1>9. Local(p)'
  BY <1>3, <1>4, <1>5 DEF Local, Named
<1>10. ASSUME ref[i] = 1, NEW q \in Procs PROVE ~Holds(q, i)
  <2>1. ref[i] = RefSum(i)
    BY <1>1, <1>3 DEF CacheInv, RefEq
  <2>2. i \in {cwd[q], ofile[q], ip[q], dp[q], old[q]} => RefSum(i) >= 2
    BY <1>3, RefSome
  <2> QED
    BY <1>10, <2>1, <2>2 DEF Holds
<1>11. \A j \in Inums : j # i \/ ref[i] # 1 => Keeps(j)
  BY <1>3, <1>4 DEF ITyped, Keeps
<1>12. ref[i] = 1 => ~valid'[i]
  BY <1>3, <1>4 DEF ITyped
<1>13. HeldOK(p)'
  <2> SUFFICES ASSUME NEW j \in Inums, Holds(p, j)' PROVE lock'[j] = p /\ Sound(j)'
    BY DEF HeldOK
  <2>1. Holds(p, j)
    BY <1>4 DEF Holds
  <2>2. Keeps(j)
    BY <1>10, <1>11, <2>1
  <2> QED
    BY <1>3, <1>4, <2>1, <2>2 DEF HeldOK, Sound, Keeps
<1>14. /\ \A j \in Inums : lock'[j] = lock[j] \/ lock[j] \in {None, p}
       /\ \A j \in Inums : Keeps(j) \/ Sound(j)' \/ ~valid'[j] \/ (put'[p] = "free" /\ Head(puts'[p]) = j)
       /\ \A j \in Inums : Keeps(j) \/ lock[j] \in {None, p} \/ \A q \in Procs : ~Holds(q, j)
  BY <1>4, <1>10, <1>11, <1>12
<1>15. panicked' = None /\ put[p] # "free"
  BY <1>1, <1>4
<1> QED
  BY <1>1, <1>5, <1>6, <1>7, <1>8, <1>9, <1>13, <1>14, <1>15, CacheStep

\* The initial cache is right.
LEMMA InitCache ==
  ASSUME Init
  PROVE  CacheInv
<1>1. \A i \in Inums : dinode[i] \in Copies
  <2> SUFFICES ASSUME NEW i \in Inums PROVE dinode[i] \in Copies
    OBVIOUS
  <2>1. dinode[i] = CASE i = 1 -> [type |-> "dir", nlink |-> 2]
                      [] i = 2 -> [type |-> "dir", nlink |-> 1]
                      [] i = 3 -> [type |-> "file", nlink |-> 1]
                      [] OTHER -> Free
    BY DEF Init
  <2>2. dinode[i] \in {[type |-> "dir", nlink |-> 2], [type |-> "dir", nlink |-> 1],
                       [type |-> "file", nlink |-> 1], Free}
    BY <2>1, Zenon
  <2> QED
    BY <2>2 DEF Copies, Kinds, Free
<1>2. \A i \in Inums, n \in EntNames : ent[i][n] \in {0, 1, 2, 3}
  <2> SUFFICES ASSUME NEW i \in Inums, NEW n \in EntNames PROVE ent[i][n] \in {0, 1, 2, 3}
    OBVIOUS
  <2>1. ent[i][n] = CASE i = 1 /\ n \in {".", ".."} -> 1 [] i = 1 /\ n = "a" -> 2
                      [] i = 2 /\ n = "." -> 2 [] i = 2 /\ n = ".." -> 1 [] i = 2 /\ n = "b" -> 3
                      [] OTHER -> 0
    BY DEF Init, EntNames
  <2> QED
    BY <2>1, Zenon
<1>3. 0 \in 0 .. NInodes /\ 1 \in Inums /\ 2 \in Inums /\ 3 \in Inums /\ Inums \subseteq 0 .. NInodes
  BY InodesAssumption DEF Inums
<1>4. ITyped
  <2>1. dinode \in [Inums -> Copies]
    BY <1>1 DEF Init
  <2>2. ent \in [Inums -> [EntNames -> 0 .. NInodes]]
    <3>1. \A i \in Inums : ent[i] = [n \in EntNames |-> ent[i][n]]
      BY DEF Init, EntNames
    <3>2. \A i \in Inums, n \in EntNames : ent[i][n] \in 0 .. NInodes
      BY <1>2, <1>3
    <3>3. ent = [i \in Inums |-> ent[i]]
      BY DEF Init
    <3> QED
      BY <3>1, <3>2, <3>3
  <2>3. inode \in [Inums -> Copies]
    BY DEF Init, Free, Copies, Kinds
  <2>4. valid \in [Inums -> BOOLEAN] /\ lock \in [Inums -> Procs \cup {None}] /\ calls \in 0 .. MaxCalls
    BY InodesAssumption DEF Init
  <2>5. ref \in [Inums -> Int]
    <3>1. \A i \in Inums : ref[i] \in Int
      <4> SUFFICES ASSUME NEW i \in Inums PROVE ref[i] \in Int
        OBVIOUS
      <4>1. ref[i] = Cardinality({p \in Procs : cwd[p] = i}) + Cardinality({p \in Procs : ofile[p] = i})
        BY DEF Init
      <4>2. Cardinality({p \in Procs : cwd[p] = i}) \in Nat
        BY InodesAssumption, CountSome
      <4>3. Cardinality({p \in Procs : ofile[p] = i}) \in Nat
        BY InodesAssumption, CountSome
      <4> QED
        BY <4>1, <4>2, <4>3
    <3>2. ref = [i \in Inums |-> ref[i]]
      BY DEF Init
    <3> QED
      BY <3>1, <3>2
  <2> QED
    BY <2>1, <2>2, <2>3, <2>4, <2>5 DEF ITyped
<1>5. ASSUME NEW p \in Procs
      PROVE  /\ pc[p] = "idle" /\ call[p] = None /\ path[p] = <<>> /\ new[p] = <<>> /\ ip[p] = None
             /\ dp[p] = None /\ old[p] = None /\ puts[p] = <<>> /\ put[p] = "lock"
             /\ cwd[p] \in {1, 2} /\ ofile[p] \in {3, None}
  BY DEF Init
<1>6. /\ IsFcn(pc, Procs) /\ IsFcn(call, Procs) /\ IsFcn(path, Procs) /\ IsFcn(new, Procs)
      /\ IsFcn(ip, Procs) /\ IsFcn(dp, Procs) /\ IsFcn(old, Procs) /\ IsFcn(puts, Procs)
      /\ IsFcn(put, Procs) /\ IsFcn(cwd, Procs) /\ IsFcn(ofile, Procs)
  BY DEF Init, IsFcn
<1>7. ASSUME NEW p \in Procs PROVE PTyped(p) /\ Local(p) /\ HeldOK(p) /\ FreeOK(p)
  <2>1. path[p] \in Seq2(Elements) /\ puts[p] \in Seq2(Inums)
    BY <1>5, SeqIn
  <2>2. PTyped(p)
    BY <1>3, <1>5, <2>1 DEF PTyped, Points
  <2>3. Local(p)
    BY <1>5, NoneApart DEF Local, WithIp, WithDp, Named, Ops
  <2>4. HeldOK(p) /\ FreeOK(p)
    BY <1>5 DEF HeldOK, Holds, WithDp, FreeOK
  <2> QED
    BY <2>2, <2>3, <2>4
<1>8. Typed
  BY <1>4, <1>6, <1>7, Zenon DEF Typed
<1>9. \A i \in Inums : CacheOK(i)
  BY DEF Init, CacheOK
<1>10. ASSUME NEW i \in Inums PROVE ref[i] = RefSum(i) /\ ref[i] \in 0 .. 8 * Cardinality(Procs)
  <2> DEFINE A1 == {p \in Procs : cwd[p] = i}
             A2 == {p \in Procs : ofile[p] = i}
             A3 == {p \in Procs : ip[p] = i}
             A4 == {p \in Procs : dp[p] = i}
             A5 == {p \in Procs : old[p] = i}
             A6 == {x \in Procs \X {1, 2} : x[2] \in DOMAIN puts[x[1]] /\ puts[x[1]][x[2]] = i}
  <2>1. A3 = {} /\ A4 = {} /\ A5 = {}
    BY <1>5, NoneApart
  <2>2. A6 = {}
    <3>1. \A x \in Procs \X {1, 2} : puts[x[1]] = <<>>
      BY <1>5
    <3> QED
      BY <3>1
  <2>3. Cardinality({}) = 0
    BY FS_EmptySet
  <2>4. ref[i] = Cardinality(A1) + Cardinality(A2)
    BY DEF Init
  <2>5. RefSum(i) = Cardinality(A1) + Cardinality(A2) + Cardinality(A3) + Cardinality(A4)
                     + Cardinality(A5) + Cardinality(A6)
    BY DEF RefSum
  <2>6. A1 \in SUBSET Procs /\ A2 \in SUBSET Procs
    OBVIOUS
  <2> HIDE DEF A1, A2, A3, A4, A5, A6
  <2>7. /\ Cardinality(A1) \in Nat /\ Cardinality(A2) \in Nat /\ Cardinality(Procs) \in Nat
        /\ Cardinality(A1) <= Cardinality(Procs) /\ Cardinality(A2) <= Cardinality(Procs)
    BY <2>6, InodesAssumption, CountSome
  <2>8. Cardinality(A3) = 0 /\ Cardinality(A4) = 0 /\ Cardinality(A5) = 0 /\ Cardinality(A6) = 0
    BY <2>1, <2>2, <2>3, Zenon
  <2> QED
    BY <2>4, <2>5, <2>7, <2>8
<1> QED
  BY <1>7, <1>8, <1>9, <1>10, Zenon DEF CacheInv, RefEq, RefBound

\* Every step keeps the cache right.
LEMMA NextCache ==
  ASSUME CacheInv, [Next]_vars
  PROVE  CacheInv'
<1>1. CASE UNCHANGED vars
  <2>1. /\ UNCHANGED <<dinode, ent, inode, valid, ref, lock, calls, panicked>>
        /\ UNCHANGED <<pc, call, path, new, ip, dp, old, puts, put, cwd, ofile>>
    BY <1>1 DEF vars, disk, args, held
  <2>2. Typed'
    <3>1. Typed
      BY DEF CacheInv
    <3>2. ITyped'
      BY <2>1, <3>1 DEF Typed, ITyped
    <3>3. \A p \in Procs : PTyped(p)'
      BY <2>1, <3>1 DEF Typed, PTyped
    <3> QED
      BY <2>1, <3>1, <3>2, <3>3, Zenon DEF Typed
  <2>3. RefEq' /\ RefBound'
    BY <2>1 DEF CacheInv, RefEq, RefBound, RefSum
  <2>4. ASSUME NEW p \in Procs PROVE Local(p)' /\ HeldOK(p)' /\ FreeOK(p)'
    <3>1. Local(p) /\ HeldOK(p) /\ FreeOK(p)
      BY DEF CacheInv
    <3> QED
      BY <2>1, <3>1 DEF Local, HeldOK, FreeOK, Named, Holds, Sound
  <2>5. \A i \in Inums : CacheOK(i)'
    BY <2>1 DEF CacheInv, CacheOK, Sound, Freeing
  <2> QED
    BY <2>2, <2>3, <2>4, <2>5 DEF CacheInv
<1>2. CASE Next
  <2>1. PICK p \in Procs :
          \/ \E op \in Ops \ {"link"}, from \in Paths : Begin(p, op, from, <<>>)
          \/ \E from \in Paths, to \in Paths : Begin(p, "link", from, to)
          \/ Step(p) \/ Iput(p)
    BY <1>2, Zenon DEF Next
  <2>2. CASE \E op \in Ops \ {"link"}, from \in Paths : Begin(p, op, from, <<>>)
    BY <2>2, BeginCache
  <2>3. CASE \E from \in Paths, to \in Paths : Begin(p, "link", from, to)
    <3>1. "link" \in Ops
      BY DEF Ops
    <3> QED
      BY <2>3, <3>1, BeginCache
  <2>4. CASE Iput(p)
    BY <2>4, IputLockCache, IputFreeCache, IputUnrefCache, Zenon DEF Iput
  <2>5. CASE Step(p)
    BY <2>5, NamexCache, NamexEndCache, ChdirCache, CloseCache, OpenCache, CreateFoundCache,
       CreateOldCache, CreateAllocCache, CreateNewCache, CreatedCache, UnlinkFoundCache, UnlinkCache,
       UnlinkBadCache, UnlinkedCache, LinkCache, LinkEnterCache, LinkBadCache, Zenon DEF Step
  <2> QED
    BY <2>1, <2>2, <2>3, <2>4, <2>5, Zenon
<1> QED
  BY <1>1, <1>2

\* For any path names: ip->ref is the number of pointers to the entry, on every
\* path through the calls, and a copy that is valid and not locked is what the
\* disk has.
THEOREM CacheCorrect == Spec => [](RefExact /\ CacheCoherent)
<1>1. Init => CacheInv
  BY InitCache
<1>2. CacheInv /\ [Next]_vars => CacheInv'
  BY NextCache
<1>3. CacheInv => RefExact /\ CacheCoherent
  <2> SUFFICES ASSUME CacheInv PROVE RefExact /\ CacheCoherent
    OBVIOUS
  <2>1. RefExact
    BY DEF CacheInv, RefEq, RefSum, RefExact
  <2>2. CacheCoherent
    BY CopyRight DEF CacheCoherent, CanLock, Sound
  <2> QED
    BY <2>1, <2>2
<1> QED
  BY <1>1, <1>2, <1>3, PTL DEF Spec

-----------------------------------------------------------------------------
(* The inductive invariant: links.  From here on path names have neither     *)
(* "." nor "..": the entry ".." of a directory that was removed names an     *)
(* inode that may be free.                                                   *)

\* The inodes that a process refers to, but for one that iput() has done with.
Used(p, i) ==
  \/ i \in {cwd[p], ofile[p], ip[p], dp[p], old[p]}
  \/ put[p] = "lock" /\ Nth(puts[p], 1, i)
  \/ Nth(puts[p], 2, i)
InUse == \A p \in Procs, i \in Inums : Used(p, i) => dinode[i].type # "free"

\* A free inode has no links, and only a directory has entries.
Clean(i) ==
  /\ dinode[i].type = "free" => dinode[i].nlink = 0
  /\ dinode[i].type # "dir" => \A n \in Names : ent[i][n] = 0

\* What the links of an inode are for: its names, the entry ".." of the root and
\* of the directories in it, the link() that is to enter it, and the unlink() that
\* has erased its name.  A link is counted by a call, and one call makes one.
Subdirs(i) == {n \in Names : ent[i][n] # 0 /\ dinode[ent[i][n]].type = "dir"}
Olds(i) == {p \in Procs : old[p] = i}
Erased(p, i) == pc[p] = "unlinked" /\ ip[p] = i
Pending(p) == call[p] \in {"mkdir", "link"} /\ pc[p] # "created"
Links(i) ==
  /\ dinode[i].nlink >= Cardinality(NamesOf(i)) + Bit(i = 1) + Cardinality(Subdirs(i))
                        + Cardinality(Olds(i)) + Cardinality({p \in Procs : Erased(p, i)})
  /\ dinode[i].type = "dir" => Cardinality(NamesOf(i)) <= 1
  /\ dinode[i].nlink + Cardinality({p \in Procs : Pending(p)}) <= 2 + calls

\* What a process knows of the inodes that it refers to: the new inode of create()
\* is nobody else's, and the entries stay as they were looked up.
Facts(p) ==
  /\ pc[p] = "found" /\ call[p] \in Parent => dinode[ip[p]].type = "dir"
  /\ pc[p] \in {"createnew", "unlink"} => dinode[dp[p]].type = "dir"
  /\ pc[p] = "createnew" =>
       /\ dinode[ip[p]].type = TypeOf(call[p]) /\ dinode[ip[p]].nlink = 0
       /\ ent[dp[p]][Name(p)] = 0
       /\ cwd[p] # ip[p]
       /\ \A q \in Procs \ {p} : ip[p] \notin {cwd[q], ip[q], dp[q], old[q]}
  /\ pc[p] = "unlink" => ent[dp[p]][Name(p)] = ip[p]
  /\ old[p] # None => dinode[old[p]].type # "dir"

LinkInv ==
  /\ panicked # "unlink" /\ InUse
  /\ \A i \in Inums : inode[i] \in Dinodes /\ Clean(i) /\ Links(i)
  /\ \A p \in Procs : Facts(p)

\* The sets that are counted are finite.
LEMMA LinkSets ==
  ASSUME NEW i
  PROVE  /\ IsFiniteSet(Inums \X Names) /\ NamesOf(i) \in SUBSET (Inums \X Names)
         /\ IsFiniteSet(Names) /\ Subdirs(i) \in SUBSET Names
         /\ IsFiniteSet(Procs) /\ Olds(i) \in SUBSET Procs
         /\ {p \in Procs : Erased(p, i)} \in SUBSET Procs /\ {p \in Procs : Pending(p)} \in SUBSET Procs
         /\ Cardinality(NamesOf(i)) \in Nat /\ Cardinality(Subdirs(i)) \in Nat
         /\ Cardinality(Olds(i)) \in Nat /\ Cardinality({p \in Procs : Erased(p, i)}) \in Nat
         /\ Cardinality({p \in Procs : Pending(p)}) \in Nat
<1>1. IsFiniteSet(Inums)
  BY InodesAssumption, FS_Interval DEF Inums
<1>2. IsFiniteSet(Inums \X Names) /\ IsFiniteSet(Names) /\ IsFiniteSet(Procs)
  BY <1>1, InodesAssumption, FS_Product
<1>3. /\ NamesOf(i) \in SUBSET (Inums \X Names) /\ Subdirs(i) \in SUBSET Names
      /\ Olds(i) \in SUBSET Procs /\ {p \in Procs : Erased(p, i)} \in SUBSET Procs
      /\ {p \in Procs : Pending(p)} \in SUBSET Procs
  BY DEF NamesOf, Subdirs, Olds
<1>4. \A S : IsFiniteSet(S) => \A A \in SUBSET S : Cardinality(A) \in Nat
  BY CountSome
<1>5. /\ Cardinality(NamesOf(i)) \in Nat /\ Cardinality(Subdirs(i)) \in Nat
      /\ Cardinality(Olds(i)) \in Nat
  BY <1>2, <1>3, <1>4, Zenon
<1>6. /\ Cardinality({p \in Procs : Erased(p, i)}) \in Nat
      /\ Cardinality({p \in Procs : Pending(p)}) \in Nat
  BY <1>2, <1>3, <1>4, Zenon
<1> QED
  BY <1>2, <1>3, <1>5, <1>6, Zenon

\* The unlink() that has erased a name of an inode, after a step of p.
LEMMA ErasedDelta ==
  ASSUME Typed, NEW p \in Procs, Others(p), NEW i
  PROVE  /\ Cardinality({q \in Procs : Erased(q, i)}') \in Nat
         /\ Cardinality({q \in Procs : Erased(q, i)}') =
              Cardinality({q \in Procs : Erased(q, i)}) + Bit(Erased(p, i)') - Bit(Erased(p, i))
<1> USE InodesAssumption
<1>1. PICK A, B : A = {q \in Procs : Erased(q, i)} /\ B = {q \in Procs : Erased(q, i)}'
  OBVIOUS
<1>2. \A q \in Procs \ {p} : Erased(q, i) <=> Erased(q, i)'
  BY OthersSame DEF Erased
<1>3. /\ A \in SUBSET Procs /\ B \in SUBSET Procs
      /\ \A q \in Procs \ {p} : q \in A <=> q \in B
      /\ p \in A <=> Erased(p, i)
      /\ p \in B <=> Erased(p, i)'
  BY <1>1, <1>2
<1>4. Cardinality(B) \in Nat /\ Cardinality(B) = Cardinality(A) + Bit(p \in B) - Bit(p \in A)
  BY <1>3, CountDelta
<1>5. Bit(p \in B) = Bit(Erased(p, i)') /\ Bit(p \in A) = Bit(Erased(p, i))
  BY <1>3 DEF Bit
<1> QED
  BY <1>1, <1>4, <1>5, Zenon

\* The calls that count links, after a step of p.
LEMMA ProcDelta ==
  ASSUME Typed, NEW p \in Procs, Others(p), NEW i
  PROVE  /\ Cardinality(Olds(i)') = Cardinality(Olds(i)) + Bit(old'[p] = i) - Bit(old[p] = i)
         /\ Cardinality({q \in Procs : Erased(q, i)}') =
              Cardinality({q \in Procs : Erased(q, i)}) + Bit(Erased(p, i)') - Bit(Erased(p, i))
         /\ Cardinality({q \in Procs : Pending(q)}') =
              Cardinality({q \in Procs : Pending(q)}) + Bit(Pending(p)') - Bit(Pending(p))
         /\ Cardinality(Olds(i)') \in Nat /\ Cardinality({q \in Procs : Erased(q, i)}') \in Nat
         /\ Cardinality({q \in Procs : Pending(q)}') \in Nat
<1> USE InodesAssumption
<1>1. /\ Cardinality(Olds(i)') \in Nat
      /\ Cardinality(Olds(i)') = Cardinality(Olds(i)) + Bit(old'[p] = i) - Bit(old[p] = i)
  <2>1. /\ Olds(i) \in SUBSET Procs /\ Olds(i)' \in SUBSET Procs
        /\ \A q \in Procs \ {p} : q \in Olds(i) <=> q \in Olds(i)'
        /\ p \in Olds(i) <=> old[p] = i
        /\ p \in Olds(i)' <=> old'[p] = i
    BY OthersSame DEF Olds
  <2>2. PICK A, B : A = Olds(i) /\ B = Olds(i)'
    OBVIOUS
  <2>3. Cardinality(B) \in Nat /\ Cardinality(B) = Cardinality(A) + Bit(p \in B) - Bit(p \in A)
    BY <2>1, <2>2, CountDelta
  <2> QED
    BY <2>1, <2>2, <2>3 DEF Bit
<1>2. /\ Cardinality({q \in Procs : Erased(q, i)}') \in Nat
      /\ Cardinality({q \in Procs : Erased(q, i)}') =
           Cardinality({q \in Procs : Erased(q, i)}) + Bit(Erased(p, i)') - Bit(Erased(p, i))
  BY ErasedDelta, Zenon
<1>3. /\ Cardinality({q \in Procs : Pending(q)}') \in Nat
      /\ Cardinality({q \in Procs : Pending(q)}') =
           Cardinality({q \in Procs : Pending(q)}) + Bit(Pending(p)') - Bit(Pending(p))
  <2>1. PICK A, B : A = {q \in Procs : Pending(q)} /\ B = {q \in Procs : Pending(q)}'
    OBVIOUS
  <2>2. \A q \in Procs \ {p} : Pending(q) <=> Pending(q)'
    BY OthersSame DEF Pending
  <2>3. /\ A \in SUBSET Procs /\ B \in SUBSET Procs
        /\ \A q \in Procs \ {p} : q \in A <=> q \in B
        /\ p \in A <=> Pending(p)
        /\ p \in B <=> Pending(p)'
    BY <2>1, <2>2
  <2>4. Cardinality(B) \in Nat /\ Cardinality(B) = Cardinality(A) + Bit(p \in B) - Bit(p \in A)
    BY <2>3, CountDelta
  <2>5. Bit(p \in B) = Bit(Pending(p)') /\ Bit(p \in A) = Bit(Pending(p))
    BY <2>3 DEF Bit
  <2> QED
    BY <2>1, <2>4, <2>5, Zenon
<1> QED
  BY <1>1, <1>2, <1>3, Zenon

\* The entry x of directory d becomes v.
Entered(d, x, v) ==
  \A j \in Inums : \A n \in Names : ent'[j][n] = IF j = d /\ n = x THEN v ELSE ent[j][n]
\* The inodes that have names stay directories, or what else they are.
SameDirs ==
  \A j \in Inums : \A n \in Names : ent[j][n] # 0 =>
    (dinode'[ent[j][n]].type = "dir" <=> dinode[ent[j][n]].type = "dir")

\* The names of an inode, when the entry x of directory d becomes v.
LEMMA NamesDelta ==
  ASSUME NEW d \in Inums, NEW x \in Names, NEW v,
         Entered(d, x, v),
         NEW i
  PROVE  \E a \in Int :
           /\ a = Bit(v = i) - Bit(ent[d][x] = i)
           /\ Cardinality(NamesOf(i)') = Cardinality(NamesOf(i)) + a
<1> USE DEF Entered
<1>1. PICK A, B, S, e : A = NamesOf(i) /\ B = NamesOf(i)' /\ S = Inums \X Names /\ e = <<d, x>>
  OBVIOUS
<1>2. IsFiniteSet(S) /\ A \in SUBSET S
  BY <1>1, LinkSets
<1>3. /\ B = {z \in S : ent'[z[1]][z[2]] = i} /\ e \in S /\ e[1] = d /\ e[2] = x
      /\ A = {z \in S : ent[z[1]][z[2]] = i}
  BY <1>1 DEF NamesOf
<1>4. \A z \in S \ {e} : z \in A <=> z \in B
  <2> SUFFICES ASSUME NEW z \in S, z # e PROVE z \in A <=> z \in B
    OBVIOUS
  <2>1. z[1] \in Inums /\ z[2] \in Names /\ ~(z[1] = d /\ z[2] = x)
    BY <1>1
  <2>2. ent'[z[1]][z[2]] = ent[z[1]][z[2]]
    BY <2>1
  <2> QED
    BY <1>3, <2>2
<1>5. (e \in A <=> ent[d][x] = i) /\ (e \in B <=> v = i)
  <2>1. ent'[d][x] = v
    OBVIOUS
  <2> QED
    BY <1>3, <2>1
<1>6. B \in SUBSET S
  BY <1>3
<1>7. Cardinality(B) \in Nat /\ Cardinality(B) = Cardinality(A) + Bit(e \in B) - Bit(e \in A)
  BY <1>2, <1>3, <1>4, <1>6, CountDelta
<1>8. Bit(e \in B) = Bit(v = i) /\ Bit(e \in A) = Bit(ent[d][x] = i)
  BY <1>5 DEF Bit
<1>9. PICK a \in Int : a = Bit(v = i) - Bit(ent[d][x] = i)
  BY DEF Bit
<1>10. Cardinality(A) \in Nat
  BY <1>2, CountSome
<1>11. Cardinality(B) = Cardinality(A) + a
  BY <1>7, <1>8, <1>9, <1>10 DEF Bit
<1> QED
  BY <1>1, <1>9, <1>11, Zenon

\* The directories in a directory, when the entry x of d becomes v and no inode
\* becomes a directory or stops to be one.
LEMMA SubdirsDelta ==
  ASSUME NEW d \in Inums, NEW x \in Names, NEW v,
         Entered(d, x, v),
         SameDirs,
         NEW i \in Inums
  PROVE  \E b \in Int :
           /\ i # d => b = 0
           /\ i = d => b = Bit(v # 0 /\ dinode'[v].type = "dir")
                          - Bit(ent[d][x] # 0 /\ dinode[ent[d][x]].type = "dir")
           /\ Cardinality(Subdirs(i)') = Cardinality(Subdirs(i)) + b
<1> USE DEF Entered, SameDirs
<1>1. PICK A, B : A = Subdirs(i) /\ B = Subdirs(i)'
  OBVIOUS
<1>2. /\ A = {n \in Names : ent[i][n] # 0 /\ dinode[ent[i][n]].type = "dir"}
      /\ B = {n \in Names : ent'[i][n] # 0 /\ dinode'[ent'[i][n]].type = "dir"}
  BY <1>1 DEF Subdirs
<1>3. ASSUME NEW n \in Names, i # d \/ n # x PROVE n \in A <=> n \in B
  <2>1. ent'[i][n] = ent[i][n]
    BY <1>3
  <2> QED
    BY <1>2, <2>1
<1>4. A \in SUBSET Names /\ B \in SUBSET Names /\ IsFiniteSet(Names)
  BY <1>2, InodesAssumption
<1>5. CASE i # d
  <2>1. B = A
    BY <1>3, <1>4, <1>5
  <2>2. Cardinality(A) \in Nat
    BY <1>4, CountSome
  <2>3. Cardinality(B) = Cardinality(A) + 0
    BY <2>1, <2>2
  <2> QED
    BY <1>1, <1>5, <2>3
<1>6. CASE i = d
  <2>1. \A n \in Names \ {x} : n \in A <=> n \in B
    BY <1>3
  <2>2. Cardinality(B) \in Nat /\ Cardinality(B) = Cardinality(A) + Bit(x \in B) - Bit(x \in A)
    BY <1>4, <2>1, CountDelta
  <2>3. ent'[i][x] = v
    BY <1>6
  <2>4. /\ Bit(x \in B) = Bit(v # 0 /\ dinode'[v].type = "dir")
        /\ Bit(x \in A) = Bit(ent[d][x] # 0 /\ dinode[ent[d][x]].type = "dir")
    BY <1>2, <1>6, <2>3 DEF Bit
  <2>5. PICK b \in Int : b = Bit(v # 0 /\ dinode'[v].type = "dir")
                               - Bit(ent[d][x] # 0 /\ dinode[ent[d][x]].type = "dir")
    <3>1. \A t \in BOOLEAN : Bit(t) \in Int
      BY DEF Bit
    <3>2. /\ Bit(v # 0 /\ dinode'[v].type = "dir") \in Int
          /\ Bit(ent[d][x] # 0 /\ dinode[ent[d][x]].type = "dir") \in Int
      BY <3>1
    <3>3. PICK y, z \in Int : /\ y = Bit(v # 0 /\ dinode'[v].type = "dir")
                              /\ z = Bit(ent[d][x] # 0 /\ dinode[ent[d][x]].type = "dir")
      BY <3>2
    <3>4. y - z \in Int
      OBVIOUS
    <3> QED
      BY <3>3, <3>4
  <2>6. Cardinality(A) \in Nat
    BY <1>4, CountSome
  <2>7. Cardinality(B) = Cardinality(A) + b
    BY <2>2, <2>4, <2>5, <2>6 DEF Bit
  <2> QED
    BY <1>1, <1>6, <2>5, <2>7, Zenon
<1> QED
  BY <1>5, <1>6

\* The numbers of links of an inode.
LEMMA LinkNums ==
  ASSUME CacheInv, LinkInv, NEW i \in Inums
  PROVE  /\ ITyped /\ dinode[i] \in Copies /\ dinode[i].nlink \in Nat /\ Clean(i) /\ Links(i)
         /\ dinode[i].nlink <= 2 + calls
<1>1. ITyped /\ dinode[i] \in Copies /\ calls \in Int
  BY InodesAssumption DEF CacheInv, Typed, ITyped
<1>2. Clean(i) /\ Links(i)
  BY DEF LinkInv
<1>3. dinode[i].nlink \in Int
  BY <1>1 DEF Copies
<1>4. /\ Cardinality(NamesOf(i)) \in Nat /\ Cardinality(Subdirs(i)) \in Nat
      /\ Cardinality(Olds(i)) \in Nat /\ Cardinality({p \in Procs : Erased(p, i)}) \in Nat
      /\ Cardinality({p \in Procs : Pending(p)}) \in Nat /\ Bit(i = 1) \in Nat
  BY LinkSets DEF Bit
<1>5. PICK a, b, c, e, f, g \in Nat :
        /\ a = Cardinality(NamesOf(i)) /\ b = Cardinality(Subdirs(i)) /\ c = Cardinality(Olds(i))
        /\ e = Cardinality({p \in Procs : Erased(p, i)})
        /\ f = Cardinality({p \in Procs : Pending(p)}) /\ g = Bit(i = 1)
  BY <1>4, Zenon
<1>6. dinode[i].nlink >= a + g + b + c + e /\ dinode[i].nlink + f <= 2 + calls
  BY <1>2, <1>5 DEF Links
<1> QED
  BY <1>1, <1>2, <1>3, <1>6

\* An inode without links has no name, and nothing else that is counted.
LEMMA NoLinks ==
  ASSUME CacheInv, LinkInv, NEW i \in Inums, ~(dinode[i].nlink >= 1)
  PROVE  /\ dinode[i].nlink = 0 /\ i # 1
         /\ Cardinality(NamesOf(i)) = 0 /\ Cardinality(Subdirs(i)) = 0 /\ Cardinality(Olds(i)) = 0
         /\ Cardinality({p \in Procs : Erased(p, i)}) = 0
         /\ \A d \in Inums, n \in Names : ent[d][n] # i
<1>1. Links(i) /\ dinode[i].nlink \in Nat
  BY LinkNums
<1>2. /\ Cardinality(NamesOf(i)) \in Nat /\ Cardinality(Subdirs(i)) \in Nat
      /\ Cardinality(Olds(i)) \in Nat /\ Cardinality({p \in Procs : Erased(p, i)}) \in Nat
      /\ Bit(i = 1) \in Nat
  BY LinkSets DEF Bit
<1>3. PICK a, b, c, e, g \in Nat :
        /\ a = Cardinality(NamesOf(i)) /\ b = Cardinality(Subdirs(i)) /\ c = Cardinality(Olds(i))
        /\ e = Cardinality({p \in Procs : Erased(p, i)}) /\ g = Bit(i = 1)
  BY <1>2, Zenon
<1>4. dinode[i].nlink >= a + g + b + c + e
  BY <1>1, <1>3 DEF Links
<1>5. dinode[i].nlink = 0 /\ a = 0 /\ b = 0 /\ c = 0 /\ e = 0 /\ g = 0
  BY <1>1, <1>4
<1>6. i # 1
  BY <1>3, <1>5 DEF Bit
<1>7. ASSUME NEW d \in Inums, NEW n \in Names PROVE ent[d][n] # i
  <2> SUFFICES ASSUME ent[d][n] = i PROVE FALSE
    OBVIOUS
  <2>1. <<d, n>> \in NamesOf(i)
    BY DEF NamesOf
  <2>2. IsFiniteSet(Inums \X Names) /\ NamesOf(i) \in SUBSET (Inums \X Names)
    BY LinkSets
  <2>3. Cardinality(NamesOf(i)) >= 1
    BY <2>1, <2>2, CountSome
  <2> QED
    BY <1>3, <1>5, <2>3
<1> QED
  BY <1>3, <1>5, <1>6, <1>7

\* The inode that an entry names has a link, and is not free.
LEMMA NamedLinked ==
  ASSUME CacheInv, LinkInv, NEW d \in Inums, NEW n \in Names, NEW i, i = ent[d][n], i # 0
  PROVE  i \in Inums /\ dinode[i].nlink >= 1 /\ dinode[i].type # "free"
<1>1. ITyped /\ n \in EntNames
  BY DEF CacheInv, Typed, EntNames
<1>2. ent[d][n] \in 0 .. NInodes
  BY <1>1 DEF ITyped
<1>3. i \in Inums
  BY <1>2, InodesAssumption DEF Inums
<1>4. dinode[i].nlink >= 1
  BY <1>3, NoLinks
<1>5. Clean(i)
  BY <1>3, LinkNums
<1> QED
  BY <1>3, <1>4, <1>5 DEF Clean

\* The root has a link, and is not free.
LEMMA RootLinked ==
  ASSUME CacheInv, LinkInv
  PROVE  1 \in Inums /\ dinode[1].nlink >= 1 /\ dinode[1].type # "free"
<1>1. 1 \in Inums
  BY InodesAssumption DEF Inums
<1>2. dinode[1].nlink >= 1
  BY <1>1, NoLinks
<1>3. Clean(1)
  BY <1>1, LinkNums
<1> QED
  BY <1>1, <1>2, <1>3 DEF Clean

\* A free inode has no links.
LEMMA FreeNoLinks ==
  ASSUME CacheInv, LinkInv, NEW i \in Inums, dinode[i].type = "free"
  PROVE  ~(dinode[i].nlink >= 1) /\ \A n \in Names : ent[i][n] = 0
<1>1. Clean(i)
  BY LinkNums
<1> QED
  BY <1>1 DEF Clean

\* The inodes that a process refers to, before a step.
LEMMA UsedType ==
  ASSUME LinkInv, NEW p \in Procs, NEW i \in Inums, i \in {cwd[p], ofile[p], ip[p], dp[p], old[p]}
  PROVE  dinode[i].type # "free"
  BY DEF LinkInv, InUse, Used

\* The inodes that a process refers to after a step, with nothing to put.
LEMMA UsedZero ==
  ASSUME NEW p \in Procs, puts'[p] = <<>>, NEW i, Used(p, i)'
  PROVE  i \in {cwd'[p], ofile'[p], ip'[p], dp'[p], old'[p]}
<1>1. ~Nth(puts'[p], 1, i) /\ ~Nth(puts'[p], 2, i)
  BY DEF Nth
<1> QED
  BY <1>1 DEF Used

\* The same with one inode to put.
LEMMA UsedOne ==
  ASSUME NEW p \in Procs, NEW a, puts'[p] = <<a>>, NEW i, Used(p, i)'
  PROVE  i \in {cwd'[p], ofile'[p], ip'[p], dp'[p], old'[p], a}
<1>1. (Nth(puts'[p], 1, i) => a = i) /\ ~Nth(puts'[p], 2, i)
  BY DEF Nth
<1> QED
  BY <1>1 DEF Used

\* The same with two.
LEMMA UsedTwo ==
  ASSUME NEW p \in Procs, NEW a, NEW b, puts'[p] = <<a, b>>, NEW i, Used(p, i)'
  PROVE  i \in {cwd'[p], ofile'[p], ip'[p], dp'[p], old'[p], a, b}
<1>1. (Nth(puts'[p], 1, i) => a = i) /\ (Nth(puts'[p], 2, i) => b = i)
  BY DEF Nth
<1> QED
  BY <1>1 DEF Used

\* The numbers of links of an inode after a step.
LEMMA NewNums ==
  ASSUME ITyped', NEW i \in Inums, Links(i)'
  PROVE  dinode'[i] \in Dinodes
<1>1. dinode'[i] \in Copies /\ calls' \in 0 .. MaxCalls
  BY DEF ITyped
<1>2. \A S : IsFiniteSet(S) => \A A \in SUBSET S : Cardinality(A) \in Nat
  BY CountSome
<1>3. IsFiniteSet(Inums \X Names) /\ IsFiniteSet(Names) /\ IsFiniteSet(Procs)
  BY LinkSets
<1>4. /\ NamesOf(i)' \in SUBSET (Inums \X Names) /\ Subdirs(i)' \in SUBSET Names
      /\ Olds(i)' \in SUBSET Procs /\ {q \in Procs : Erased(q, i)}' \in SUBSET Procs
      /\ {q \in Procs : Pending(q)}' \in SUBSET Procs
  BY DEF NamesOf, Subdirs, Olds
<1>5. /\ Cardinality(NamesOf(i)') \in Nat /\ Cardinality(Subdirs(i)') \in Nat
      /\ Cardinality(Olds(i)') \in Nat
  BY <1>2, <1>3, <1>4, Zenon
<1>6. /\ Cardinality({q \in Procs : Erased(q, i)}') \in Nat
      /\ Cardinality({q \in Procs : Pending(q)}') \in Nat /\ Bit(i = 1) \in Nat
  <2>1. Bit(i = 1) \in Nat
    BY DEF Bit
  <2> QED
    BY <1>2, <1>3, <1>4, <2>1, Zenon
<1>7. PICK a, b, c, e, f, g \in Nat :
        /\ a = Cardinality(NamesOf(i)') /\ b = Cardinality(Subdirs(i)') /\ c = Cardinality(Olds(i)')
        /\ e = Cardinality({q \in Procs : Erased(q, i)}')
        /\ f = Cardinality({q \in Procs : Pending(q)}') /\ g = Bit(i = 1)
  BY <1>5, <1>6, Zenon
<1>8. dinode'[i].nlink >= a + g + b + c + e /\ dinode'[i].nlink + f <= 2 + calls'
  BY <1>7 DEF Links
<1>9. dinode'[i].nlink \in 0 .. NInodes + MaxCalls
  BY <1>1, <1>8, InodesAssumption DEF Copies
<1> QED
  BY <1>1, <1>9 DEF Copies, Dinodes, Kinds

\* A step of process p keeps the invariant of links, if it keeps what is said of p
\* and of the inodes: it changes no inode that another process refers to but those
\* that p refers to as well, no directory that another one has locked, and p comes
\* by no new inode of another one.
LEMMA LinkStep ==
  ASSUME Dots = {}, CacheInv, CacheInv', LinkInv, NEW p \in Procs, Others(p), panicked' # "unlink",
         \A i \in Inums :
           \/ dinode'[i] = dinode[i]
           \/ dinode'[i].type = dinode[i].type /\ i \in {ip[p], dp[p], old[p]}
           \/ dinode[i].type = "free"
           \/ \A q \in Procs : q # p => ~Used(q, i),
         \A j \in Inums : lock[j] \in {None, p} \/ \A n \in Names : ent'[j][n] = ent[j][n],
         \A v \in Inums : v \in {cwd'[p], ip'[p], dp'[p], old'[p]} =>
           v \in {cwd[p], ip[p], dp[p], old[p]} \/ dinode[v].nlink >= 1 \/ dinode[v].type = "free",
         \A i \in Inums : Used(p, i)' => dinode'[i].type # "free",
         \A i \in Inums : inode'[i] \in {inode[i], dinode'[i], Free},
         \A i \in Inums : Clean(i)' /\ Links(i)',
         Facts(p)'
  PROVE  LinkInv'
<1>1. Typed /\ \A q \in Procs : PTyped(q) /\ Local(q) /\ HeldOK(q)
  BY DEF CacheInv, Typed
<1>2. \A i \in Inums : inode'[i] \in Dinodes
  <2> SUFFICES ASSUME NEW i \in Inums PROVE inode'[i] \in Dinodes
    OBVIOUS
  <2>1. Free \in Dinodes
    BY InodesAssumption DEF Free, Dinodes
  <2>2. inode[i] \in Dinodes
    BY DEF LinkInv
  <2>3. dinode'[i] \in Dinodes
    BY NewNums DEF CacheInv, Typed
  <2> QED
    BY <2>1, <2>2, <2>3
<1>3. InUse'
  <2> SUFFICES ASSUME NEW q \in Procs, NEW i \in Inums, Used(q, i)', q # p
               PROVE  dinode'[i].type # "free"
    BY DEF InUse
  <2>1. Used(q, i)
    BY <1>1, OthersSame DEF Used
  <2>2. dinode[i].type # "free"
    BY <2>1 DEF LinkInv, InUse
  <2> QED
    BY <2>1, <2>2
<1>4. ASSUME NEW q \in Procs, q # p PROVE Facts(q)'
  <2>1. /\ pc'[q] = pc[q] /\ call'[q] = call[q] /\ path'[q] = path[q] /\ ip'[q] = ip[q]
        /\ dp'[q] = dp[q] /\ old'[q] = old[q] /\ cwd'[q] = cwd[q]
    BY <1>1, <1>4, OthersSame
  <2>2. Facts(q) /\ Local(q) /\ PTyped(q) /\ HeldOK(q)
    BY <1>1 DEF LinkInv
  <2>3. ASSUME NEW i \in Inums, i \in {cwd[q], ip[q], dp[q], old[q]}
        PROVE  dinode'[i].type = dinode[i].type /\ (dinode'[i] = dinode[i] \/ i \in {ip[p], dp[p], old[p]})
    <3>1. Used(q, i)
      BY <2>3 DEF Used
    <3>2. dinode[i].type # "free"
      BY <3>1 DEF LinkInv, InUse
    <3> QED
      BY <1>4, <3>1, <3>2
  <2>4. ASSUME pc[q] \in {"createnew", "unlink"} PROVE ent'[dp[q]][Name(q)] = ent[dp[q]][Name(q)]
    <3>1. dp[q] \in Inums /\ lock[dp[q]] = q
      BY <2>2, <2>4 DEF HeldOK, Holds, WithDp, Local, PTyped
    <3>2. Name(q) \in Names
      BY <2>2, <2>4 DEF Local, Named, Name, Elements
    <3> QED
      BY <1>4, <3>1, <3>2, InodesAssumption
  <2>5. pc[q] = "found" /\ call[q] \in Parent => dinode'[ip[q]].type = "dir"
    <3>1. pc[q] = "found" => ip[q] \in Inums
      BY <2>2 DEF Local, PTyped, WithIp
    <3> QED
      BY <2>2, <2>3, <3>1 DEF Facts
  <2>6. pc[q] \in {"createnew", "unlink"} => dinode'[dp[q]].type = "dir"
    <3>1. pc[q] \in {"createnew", "unlink"} => dp[q] \in Inums
      BY <2>2 DEF Local, PTyped, WithDp
    <3> QED
      BY <2>2, <2>3, <3>1 DEF Facts
  <2>7. ASSUME pc[q] = "createnew"
        PROVE  /\ dinode'[ip[q]].type = TypeOf(call[q]) /\ dinode'[ip[q]].nlink = 0
               /\ ent'[dp[q]][Name(q)] = 0 /\ cwd[q] # ip[q]
               /\ \A r \in Procs \ {q} : ip[q] \notin {cwd'[r], ip'[r], dp'[r], old'[r]}
    <3>1. ip[q] \in Inums
      BY <2>2, <2>7 DEF Local, PTyped, WithIp
    <3>2. /\ dinode[ip[q]].type = TypeOf(call[q]) /\ dinode[ip[q]].nlink = 0
          /\ ent[dp[q]][Name(q)] = 0 /\ cwd[q] # ip[q]
          /\ \A r \in Procs \ {q} : ip[q] \notin {cwd[r], ip[r], dp[r], old[r]}
      BY <2>2, <2>7 DEF Facts
    <3>3. dinode'[ip[q]] = dinode[ip[q]]
      BY <1>4, <2>3, <3>1, <3>2
    <3>4. dinode[ip[q]].type # "free" /\ ~(dinode[ip[q]].nlink >= 1)
      BY <3>1, <3>2, UsedType
    <3>5. ip[q] \notin {cwd'[p], ip'[p], dp'[p], old'[p]}
      BY <1>4, <3>1, <3>2, <3>4
    <3>6. ASSUME NEW r \in Procs \ {q} PROVE ip[q] \notin {cwd'[r], ip'[r], dp'[r], old'[r]}
      <4>1. CASE r = p
        BY <3>5, <4>1
      <4>2. CASE r # p
        BY <1>1, <3>2, <4>2, OthersSame
      <4> QED
        BY <4>1, <4>2
    <3> QED
      BY <2>4, <2>7, <3>2, <3>3, <3>6
  <2>8. pc[q] = "unlink" => ent'[dp[q]][Name(q)] = ip[q]
    BY <2>2, <2>4 DEF Facts
  <2>9. old[q] # None => dinode'[old[q]].type # "dir"
    <3>1. old[q] # None => old[q] \in Inums
      BY <2>2 DEF PTyped
    <3> QED
      BY <2>2, <2>3, <3>1 DEF Facts
  <2>10. Name(q)' = Name(q)
    BY <2>1 DEF Name
  <2> QED
    BY <2>1, <2>5, <2>6, <2>7, <2>8, <2>9, <2>10 DEF Facts
<1> QED
  BY <1>2, <1>3, <1>4 DEF LinkInv

\* A step that changes neither the disk nor the links that a call has to make or
\* to take back; the beginning of a call may be one that counts a link.
LEMMA QuietLinks ==
  ASSUME Dots = {}, CacheInv, CacheInv', LinkInv, NEW p \in Procs, Others(p), panicked' # "unlink",
         dinode' = dinode, ent' = ent,
         \A i \in Inums : inode'[i] \in {inode[i], dinode[i], Free},
         old'[p] = old[p],
         (pc[p] # "unlinked" /\ pc'[p] # "unlinked") \/ (pc'[p] = pc[p] /\ ip'[p] = ip[p]),
         \/ calls' = calls /\ (Pending(p)' => Pending(p))
         \/ calls' = calls + 1,
         \A v \in Inums : v \in {cwd'[p], ip'[p], dp'[p]} =>
           v \in {cwd[p], ip[p], dp[p], old[p]} \/ dinode[v].nlink >= 1,
         \A i \in Inums : Used(p, i)' => dinode[i].type # "free",
         Facts(p)'
  PROVE  LinkInv'
<1>1. Typed /\ calls \in Int
  BY DEF CacheInv, Typed, ITyped
<1>2. ASSUME NEW i \in Inums PROVE Clean(i)' /\ Links(i)'
  <2>1. Clean(i) /\ Links(i) /\ dinode[i].nlink \in Nat
    BY LinkNums
  <2>2. NamesOf(i)' = NamesOf(i) /\ Subdirs(i)' = Subdirs(i)
    BY DEF NamesOf, Subdirs
  <2>3. /\ Cardinality(NamesOf(i)) \in Nat /\ Cardinality(Subdirs(i)) \in Nat
        /\ Cardinality(Olds(i)) \in Nat /\ Cardinality({q \in Procs : Erased(q, i)}) \in Nat
        /\ Cardinality({q \in Procs : Pending(q)}) \in Nat
    BY LinkSets
  <2>4. Cardinality(Olds(i)') = Cardinality(Olds(i))
    <3>1. PICK a, b : a = Cardinality(Olds(i)) /\ b = Cardinality(Olds(i)')
      OBVIOUS
    <3>2. b = a + Bit(old'[p] = i) - Bit(old[p] = i)
      BY <1>1, <3>1, ProcDelta, Zenon
    <3>3. Bit(old'[p] = i) = Bit(old[p] = i) /\ Bit(old[p] = i) \in Int
      BY DEF Bit
    <3> QED
      BY <2>3, <3>1, <3>2, <3>3
  <2>5. Cardinality({q \in Procs : Erased(q, i)}') = Cardinality({q \in Procs : Erased(q, i)})
    <3>1. Erased(p, i)' <=> Erased(p, i)
      BY DEF Erased
    <3>2. Bit(Erased(p, i)') = Bit(Erased(p, i)) /\ Bit(Erased(p, i)) \in Int
      BY <3>1 DEF Bit
    <3>3. PICK a, b : /\ a = Cardinality({q \in Procs : Erased(q, i)})
                      /\ b = Cardinality({q \in Procs : Erased(q, i)}')
      OBVIOUS
    <3>4. b = a + Bit(Erased(p, i)') - Bit(Erased(p, i))
      BY <1>1, <3>3, ProcDelta, Zenon
    <3> QED
      BY <2>3, <3>2, <3>3, <3>4
  <2>6. Cardinality({q \in Procs : Pending(q)}') <= Cardinality({q \in Procs : Pending(q)}) + calls' - calls
    <3>1. /\ Cardinality({q \in Procs : Pending(q)}') =
              Cardinality({q \in Procs : Pending(q)}) + Bit(Pending(p)') - Bit(Pending(p))
          /\ Bit(Pending(p)) \in {0, 1} /\ Bit(Pending(p)') \in {0, 1}
      BY <1>1, ProcDelta DEF Bit
    <3>2. calls' = calls => Bit(Pending(p)') <= Bit(Pending(p))
      BY <1>1 DEF Bit
    <3> QED
      BY <1>1, <2>3, <3>1, <3>2
  <2>7. Clean(i)'
    BY <2>1 DEF Clean
  <2>8. PICK m, f, g : /\ m = Cardinality(NamesOf(i)) + Bit(i = 1) + Cardinality(Subdirs(i))
                              + Cardinality(Olds(i)) + Cardinality({q \in Procs : Erased(q, i)})
                       /\ f = Cardinality({q \in Procs : Pending(q)})
                       /\ g = Cardinality({q \in Procs : Pending(q)}')
    OBVIOUS
  <2>9. dinode[i].nlink >= m /\ dinode[i].nlink + f <= 2 + calls
    BY <2>1, <2>8 DEF Links
  <2>10. g \in Nat /\ f \in Nat
    BY <1>1, <2>3, <2>8, ProcDelta
  <2>11. calls' \in Int
    BY <1>1
  <2>12. dinode[i].nlink + g <= 2 + calls'
    BY <1>1, <2>1, <2>6, <2>8, <2>9, <2>10, <2>11
  <2>13. /\ Cardinality(NamesOf(i)') + Bit(i = 1) + Cardinality(Subdirs(i)')
            + Cardinality(Olds(i)') + Cardinality({q \in Procs : Erased(q, i)}') = m
    BY <2>2, <2>4, <2>5, <2>8, Zenon
  <2>14. dinode[i].type = "dir" => Cardinality(NamesOf(i)) <= 1
    BY <2>1 DEF Links
  <2>15. /\ dinode'[i].nlink >= Cardinality(NamesOf(i)') + Bit(i = 1) + Cardinality(Subdirs(i)')
            + Cardinality(Olds(i)') + Cardinality({q \in Procs : Erased(q, i)}')
         /\ dinode'[i].type = "dir" => Cardinality(NamesOf(i)') <= 1
         /\ dinode'[i].nlink + Cardinality({q \in Procs : Pending(q)}') <= 2 + calls'
    BY <2>2, <2>8, <2>9, <2>12, <2>13, <2>14, Zenon
  <2> QED
    BY <2>7, <2>15 DEF Links
<1>3. \A v \in Inums : v \in {cwd'[p], ip'[p], dp'[p], old'[p]} =>
        v \in {cwd[p], ip[p], dp[p], old[p]} \/ dinode[v].nlink >= 1 \/ dinode[v].type = "free"
  OBVIOUS
<1> QED
  BY <1>2, <1>3, LinkStep

\* What is said of the new values of a process that is at none of the points that
\* need what it looked up.
LEMMA PlainFacts ==
  ASSUME NEW p \in Procs, Facts(p), dinode' = dinode, old'[p] = old[p],
         pc'[p] \notin {"found", "createnew", "unlink"}
  PROVE  Facts(p)'
  BY DEF Facts

\* The beginning of a call keeps the links right.
LEMMA BeginLinks ==
  ASSUME Dots = {}, CacheInv, CacheInv', LinkInv, NEW p \in Procs, NEW op, NEW from \in Paths, NEW to,
         Begin(p, op, from, to)
  PROVE  LinkInv'
<1>1. At(p, "idle") /\ calls < MaxCalls /\ Start(p, from)
  BY DEF Begin
<1>2. /\ Typed /\ PTyped(p) /\ Local(p)
      /\ panicked = None /\ puts[p] = <<>> /\ pc[p] = "idle" /\ put[p] = "lock"
  BY <1>1, AtFacts
<1>3. ip[p] = None /\ dp[p] = None /\ old[p] = None
  BY <1>2, NoneApart DEF Local, WithIp, WithDp
<1>4. PICK i \in Inums, x \in Seq2(Elements) :
        Get(i) /\ ip' = [ip EXCEPT ![p] = i] /\ path' = [path EXCEPT ![p] = x] /\ (i = 1 \/ i = cwd[p])
  BY <1>1, StartRight
<1>5. Others(p)
  BY <1>2, <1>4 DEF Begin, Goto, Set, Others, IsFcn, Typed, held
<1>6. /\ pc'[p] = "namex" /\ ip'[p] = i /\ dp'[p] = None /\ old'[p] = None /\ put'[p] = put[p]
      /\ cwd'[p] = cwd[p] /\ ofile'[p] = ofile[p] /\ puts'[p] = <<>>
  BY <1>2, <1>3, <1>4 DEF Begin, Goto, Set, IsFcn, Typed, held
<1>7. UNCHANGED <<dinode, ent, inode>> /\ calls' = calls + 1
  BY DEF Begin, disk
<1>8. panicked' # "unlink"
  BY <1>2, <1>4, GetRight
<1>9. 1 \in Inums /\ dinode[1].nlink >= 1 /\ dinode[1].type # "free"
  BY RootLinked
<1>10. \A j \in Inums : Used(p, j)' => dinode[j].type # "free"
  <2> SUFFICES ASSUME NEW j \in Inums, Used(p, j)' PROVE dinode[j].type # "free"
    OBVIOUS
  <2>1. j \in {cwd'[p], ofile'[p], ip'[p], dp'[p], old'[p]}
    BY <1>6, UsedZero
  <2> QED
    BY <1>4, <1>6, <1>9, <2>1, UsedType, NoneApart
<1>11. \A v \in Inums : v \in {cwd'[p], ip'[p], dp'[p]} => v \in {cwd[p], ip[p], dp[p], old[p]} \/ dinode[v].nlink >= 1
  BY <1>4, <1>6, <1>9, NoneApart
<1>12. Facts(p)'
  BY <1>3, <1>6, <1>7, PlainFacts DEF LinkInv
<1> QED
  BY <1>2, <1>3, <1>5, <1>6, <1>7, <1>8, <1>10, <1>11, <1>12, QuietLinks

\* A step that only drops references, or keeps them elsewhere.
LEMMA DropLinks ==
  ASSUME Dots = {}, CacheInv, CacheInv', LinkInv, NEW p \in Procs, Others(p), panicked' # "unlink",
         dinode' = dinode, ent' = ent, calls' = calls,
         \A i \in Inums : inode'[i] \in {inode[i], dinode[i], Free},
         old'[p] = old[p], pc[p] # "unlinked",
         pc'[p] \notin {"found", "createnew", "unlink", "unlinked"}, call'[p] \notin {"mkdir", "link"},
         cwd'[p] \in {cwd[p], ip[p]}, ip'[p] = None, dp'[p] \in {dp[p], None},
         ofile'[p] \in {ofile[p], ip[p], None},
         \/ puts'[p] = <<>>
         \/ \E a \in {cwd[p], ofile[p], ip[p], dp[p]} : puts'[p] = <<a>>
  PROVE  LinkInv'
<1>1. ~Pending(p)'
  BY DEF Pending
<1>2. Facts(p)'
  BY PlainFacts DEF LinkInv
<1>3. ASSUME NEW i \in Inums, Used(p, i)' PROVE dinode[i].type # "free"
  <2>1. i # None
    BY NoneApart
  <2>2. i \in {cwd[p], ofile[p], ip[p], dp[p], old[p]}
    <3>1. CASE puts'[p] = <<>>
      BY <1>3, <2>1, <3>1, UsedZero
    <3>2. CASE \E a \in {cwd[p], ofile[p], ip[p], dp[p]} : puts'[p] = <<a>>
      <4>1. PICK a \in {cwd[p], ofile[p], ip[p], dp[p]} : puts'[p] = <<a>>
        BY <3>2
      <4>2. i \in {cwd'[p], ofile'[p], ip'[p], dp'[p], old'[p], a}
        BY <1>3, <4>1, UsedOne
      <4> QED
        BY <2>1, <4>1, <4>2
    <3> QED
      BY <3>1, <3>2
  <2> QED
    BY <2>2, UsedType
<1>4. \A v \in Inums : v \in {cwd'[p], ip'[p], dp'[p]} => v \in {cwd[p], ip[p], dp[p], old[p]} \/ dinode[v].nlink >= 1
  BY NoneApart
<1> QED
  BY <1>1, <1>2, <1>3, <1>4, QuietLinks

\* ilock() changes the copy to what the disk has.
LEMMA LoadCopy ==
  ASSUME CacheInv, NEW i \in Inums, CanLock(i), Load(i)
  PROVE  \A j \in Inums : inode'[j] \in {inode[j], dinode[j], Free}
<1>1. Copy(i) = dinode[i] /\ inode \in [Inums -> Copies]
  BY CopyRight DEF CacheInv, Typed, ITyped
<1> QED
  BY <1>1 DEF Load

\* A call that fails with its inode to put.
LEMMA FailLinks ==
  ASSUME Dots = {}, CacheInv, CacheInv', LinkInv, NEW p \in Procs, puts[p] = <<>>, put[p] = "lock",
         NEW i \in Inums, ip[p] = i, pc[p] \in {"namex", "found"}, Fail(p, i),
         UNCHANGED <<dp, old, put, held>>, panicked' # "unlink",
         dinode' = dinode, ent' = ent, calls' = calls,
         \A j \in Inums : inode'[j] \in {inode[j], dinode[j], Free}
  PROVE  LinkInv'
<1>1. Typed /\ Local(p)
  BY DEF CacheInv, Typed
<1>2. Others(p)
  BY FailRight
<1>3. /\ ip'[p] = None /\ dp'[p] = dp[p] /\ old'[p] = old[p] /\ cwd'[p] = cwd[p]
      /\ ofile'[p] = ofile[p] /\ puts'[p] = <<i>>
  BY <1>1 DEF Fail, Set, IsFcn, Typed, held
<1>4. pc'[p] \in {"idle", "linkbad"} /\ call'[p] \notin {"mkdir", "link"}
  <2>1. CASE call[p] = "link2"
    BY <1>1, <2>1 DEF Fail, Goto, IsFcn, Typed, args
  <2>2. CASE call[p] # "link2"
    <3>1. pc'[p] = "idle" /\ call'[p] = None
      BY <1>1, <2>2 DEF Fail, Return, Goto, Set, IsFcn, Typed
    <3> QED
      BY <3>1, NoneApart DEF Ops
  <2> QED
    BY <2>1, <2>2
<1> QED
  BY <1>2, <1>3, <1>4, DropLinks

\* open() keeps the links right.
LEMMA OpenLinks ==
  ASSUME Dots = {}, CacheInv, CacheInv', LinkInv, NEW p \in Procs,
         NEW readonly \in BOOLEAN, Open(p, readonly)
  PROVE  LinkInv'
<1>1. At(p, "found") /\ CanLock(ip[p]) /\ Load(ip[p])
  BY DEF Open
<1>2. Typed /\ PTyped(p) /\ Local(p) /\ panicked = None /\ puts[p] = <<>> /\ pc[p] = "found"
  BY <1>1, AtFacts
<1>3. ip[p] \in Inums
  BY <1>2 DEF Local, PTyped, WithIp
<1>4. Others(p)
  BY <1>2 DEF Open, OpenFile, Return, Goto, Set, Others, IsFcn, Typed
<1>5. /\ pc'[p] = "idle" /\ call'[p] = None /\ ip'[p] = None /\ dp'[p] = dp[p] /\ old'[p] = old[p]
      /\ cwd'[p] = cwd[p] /\ ofile'[p] \in {ofile[p], ip[p]} /\ puts'[p] \in {<<>>, <<ip[p]>>}
  BY <1>2 DEF Open, OpenFile, Return, Goto, Set, IsFcn, Typed
<1>6. UNCHANGED <<dinode, ent, calls, panicked>>
  BY DEF Open, disk
<1>7. panicked' # "unlink" /\ call'[p] \notin {"mkdir", "link"}
  BY <1>2, <1>5, <1>6, NoneApart, InodesAssumption DEF Ops, Panics
<1>8. \A j \in Inums : inode'[j] \in {inode[j], dinode[j], Free}
  BY <1>1, <1>3, LoadCopy
<1> QED
  BY <1>2, <1>4, <1>5, <1>6, <1>7, <1>8, DropLinks

\* chdir() keeps the links right.
LEMMA ChdirLinks ==
  ASSUME Dots = {}, CacheInv, CacheInv', LinkInv, NEW p \in Procs, Chdir(p)
  PROVE  LinkInv'
<1>1. At(p, "found") /\ CanLock(ip[p]) /\ Load(ip[p])
  BY DEF Chdir
<1>2. Typed /\ PTyped(p) /\ Local(p) /\ panicked = None /\ puts[p] = <<>> /\ pc[p] = "found"
  BY <1>1, AtFacts
<1>3. ip[p] \in Inums
  BY <1>2 DEF Local, PTyped, WithIp
<1>4. Others(p)
  BY <1>2 DEF Chdir, Return, Goto, Set, Others, IsFcn, Typed
<1>5. /\ pc'[p] = "idle" /\ call'[p] = None /\ ip'[p] = None /\ dp'[p] = dp[p] /\ old'[p] = old[p]
      /\ cwd'[p] \in {cwd[p], ip[p]} /\ ofile'[p] = ofile[p] /\ puts'[p] \in {<<ip[p]>>, <<cwd[p]>>}
  BY <1>2 DEF Chdir, Return, Goto, Set, IsFcn, Typed
<1>6. UNCHANGED <<dinode, ent, calls, panicked>>
  BY DEF Chdir, disk
<1>7. panicked' # "unlink" /\ call'[p] \notin {"mkdir", "link"}
  BY <1>2, <1>5, <1>6, NoneApart, InodesAssumption DEF Ops, Panics
<1>8. \A j \in Inums : inode'[j] \in {inode[j], dinode[j], Free}
  BY <1>1, <1>3, LoadCopy
<1> QED
  BY <1>2, <1>4, <1>5, <1>6, <1>7, <1>8, DropLinks

\* close() keeps the links right.
LEMMA CloseLinks ==
  ASSUME Dots = {}, CacheInv, CacheInv', LinkInv, NEW p \in Procs, Close(p)
  PROVE  LinkInv'
<1>1. At(p, "idle")
  BY DEF Close
<1>2. Typed /\ Local(p) /\ panicked = None /\ puts[p] = <<>> /\ pc[p] = "idle"
  BY <1>1, AtFacts
<1>3. Others(p)
  BY <1>2 DEF Close, Set, Others, IsFcn, Typed, args
<1>4. /\ pc'[p] = "idle" /\ call'[p] = None /\ ip'[p] = None /\ dp'[p] = dp[p] /\ old'[p] = old[p]
      /\ cwd'[p] = cwd[p] /\ ofile'[p] = None /\ puts'[p] = <<ofile[p]>>
  BY <1>2 DEF Close, Set, IsFcn, Typed, args, Local, WithIp
<1>5. UNCHANGED <<dinode, ent, inode, calls, panicked>>
  BY DEF Close, disk
<1>6. panicked' # "unlink" /\ call'[p] \notin {"mkdir", "link"}
  BY <1>2, <1>4, <1>5, NoneApart, InodesAssumption DEF Ops, Panics
<1> QED
  BY <1>2, <1>3, <1>4, <1>5, <1>6, DropLinks

\* The end of create() of a name that exists keeps the links right.
LEMMA CreateOldLinks ==
  ASSUME Dots = {}, CacheInv, CacheInv', LinkInv, NEW p \in Procs, CreateOld(p)
  PROVE  LinkInv'
<1>1. At(p, "createold") /\ CanLock(ip[p]) /\ Load(ip[p])
  BY DEF CreateOld
<1>2. Typed /\ PTyped(p) /\ Local(p) /\ panicked = None /\ puts[p] = <<>> /\ pc[p] = "createold"
  BY <1>1, AtFacts
<1>3. ip[p] \in Inums
  BY <1>2 DEF Local, PTyped, WithIp
<1>4. Others(p)
  BY <1>2 DEF CreateOld, OpenFile, Return, Goto, Set, Others, IsFcn, Typed
<1>5. /\ pc'[p] = "idle" /\ call'[p] = None /\ ip'[p] = None /\ dp'[p] = dp[p] /\ old'[p] = old[p]
      /\ cwd'[p] = cwd[p] /\ ofile'[p] \in {ofile[p], ip[p]} /\ puts'[p] \in {<<>>, <<ip[p]>>}
  BY <1>2 DEF CreateOld, OpenFile, Return, Goto, Set, IsFcn, Typed
<1>6. UNCHANGED <<dinode, ent, calls, panicked>>
  BY DEF CreateOld, disk
<1>7. panicked' # "unlink" /\ call'[p] \notin {"mkdir", "link"}
  BY <1>2, <1>5, <1>6, NoneApart, InodesAssumption DEF Ops, Panics
<1>8. \A j \in Inums : inode'[j] \in {inode[j], dinode[j], Free}
  BY <1>1, <1>3, LoadCopy
<1> QED
  BY <1>2, <1>4, <1>5, <1>6, <1>7, <1>8, DropLinks

\* The end of a call that has made its inode keeps the links right.
LEMMA CreatedLinks ==
  ASSUME Dots = {}, CacheInv, CacheInv', LinkInv, NEW p \in Procs, Created(p)
  PROVE  LinkInv'
<1>1. At(p, "created")
  BY DEF Created
<1>2. Typed /\ Local(p) /\ panicked = None /\ puts[p] = <<>> /\ pc[p] = "created"
  BY <1>1, AtFacts
<1>3. Others(p)
  BY <1>2 DEF Created, OpenFile, Return, Goto, Set, Others, IsFcn, Typed
<1>4. /\ pc'[p] = "idle" /\ call'[p] = None /\ ip'[p] = None /\ dp'[p] = dp[p] /\ old'[p] = old[p]
      /\ cwd'[p] = cwd[p] /\ ofile'[p] \in {ofile[p], ip[p]} /\ puts'[p] \in {<<>>, <<ip[p]>>}
  BY <1>2 DEF Created, OpenFile, Return, Goto, Set, IsFcn, Typed
<1>5. UNCHANGED <<dinode, ent, inode, calls, panicked>>
  BY DEF Created, disk
<1>6. panicked' # "unlink" /\ call'[p] \notin {"mkdir", "link"}
  BY <1>2, <1>4, <1>5, NoneApart, InodesAssumption DEF Ops, Panics
<1> QED
  BY <1>2, <1>3, <1>4, <1>5, <1>6, DropLinks

\* The end of an unlink() or a link() that is refused keeps the links right.
LEMMA UnlinkBadLinks ==
  ASSUME Dots = {}, CacheInv, CacheInv', LinkInv, NEW p \in Procs, UnlinkBad(p)
  PROVE  LinkInv'
<1>1. At(p, "unlinkbad") \/ At(p, "linkexists")
  BY DEF UnlinkBad
<1>2. Typed /\ Local(p) /\ panicked = None /\ puts[p] = <<>> /\ pc[p] \in {"unlinkbad", "linkexists"}
  BY <1>1, AtFacts
<1>3. Others(p)
  BY <1>2 DEF UnlinkBad, Return, Goto, Set, Others, IsFcn, Typed, args, held
<1>4. /\ ip'[p] = None /\ dp'[p] = None /\ old'[p] = old[p] /\ cwd'[p] = cwd[p] /\ ofile'[p] = ofile[p]
      /\ puts'[p] = <<dp[p]>>
  BY <1>2 DEF UnlinkBad, Set, IsFcn, Typed, held, Local, WithIp
<1>5. UNCHANGED <<dinode, ent, inode, calls, panicked>>
  BY DEF UnlinkBad, disk
<1>6. pc'[p] \in {"idle", "linkbad"} /\ call'[p] \notin {"mkdir", "link"}
  <2>1. CASE pc[p] = "linkexists"
    BY <1>2, <2>1 DEF UnlinkBad, Goto, IsFcn, Typed, args, Local
  <2>2. CASE pc[p] # "linkexists"
    <3>1. pc'[p] = "idle" /\ call'[p] = None
      BY <1>2, <2>2 DEF UnlinkBad, Return, Goto, Set, IsFcn, Typed
    <3> QED
      BY <3>1, NoneApart DEF Ops
  <2> QED
    BY <2>1, <2>2
<1>7. panicked' # "unlink"
  BY <1>2, <1>5, InodesAssumption DEF Panics
<1> QED
  BY <1>2, <1>3, <1>4, <1>5, <1>6, <1>7, DropLinks

\* The end of a path name keeps the links right.
LEMMA NamexEndLinks ==
  ASSUME Dots = {}, CacheInv, CacheInv', LinkInv, NEW p \in Procs, NamexEnd(p)
  PROVE  LinkInv'
<1>1. At(p, "namex")
  BY DEF NamexEnd
<1>2. /\ Typed /\ PTyped(p) /\ Local(p) /\ panicked = None /\ puts[p] = <<>> /\ pc[p] = "namex"
      /\ put[p] = "lock"
  BY <1>1, AtFacts
<1>3. PICK i \in Inums : i = ip[p]
  BY <1>2 DEF Local, PTyped, WithIp
<1>4. /\ UNCHANGED <<dinode, ent, inode, calls, panicked>>
      /\ UNCHANGED <<dp, old, put, held>>
  BY DEF NamexEnd, disk
<1>5. panicked' # "unlink"
  BY <1>2, <1>4, InodesAssumption DEF Panics
<1>6. CASE call[p] \in Parent
  <2>1. Fail(p, i)
    BY <1>3, <1>6 DEF NamexEnd
  <2> QED
    BY <1>2, <1>3, <1>4, <1>5, <2>1, FailLinks
<1>7. CASE call[p] \notin Parent
  <2>1. Goto(p, "found") /\ UNCHANGED <<call, path, new, ip, puts>>
    BY <1>7 DEF NamexEnd, args
  <2>2. Others(p)
    BY <1>2, <1>4, <2>1 DEF Goto, Others, IsFcn, Typed, held
  <2>3. pc'[p] = "found" /\ UNCHANGED <<dp, old, put, cwd, ofile>>
    BY <1>2, <1>4, <2>1 DEF Goto, IsFcn, Typed, held
  <2>4. Facts(p)'
    <3>1. Facts(p)
      BY DEF LinkInv
    <3> QED
      BY <1>4, <1>7, <2>1, <2>3, <3>1 DEF Facts
  <2>5. \A j \in Inums : Used(p, j)' => dinode[j].type # "free"
    <3> SUFFICES ASSUME NEW j \in Inums, Used(p, j)' PROVE dinode[j].type # "free"
      OBVIOUS
    <3>1. j \in {cwd'[p], ofile'[p], ip'[p], dp'[p], old'[p]}
      BY <1>2, <2>1, UsedZero
    <3> QED
      BY <2>1, <2>3, <3>1, UsedType
  <2>6. Pending(p)' => Pending(p)
    BY <1>2, <2>1 DEF Pending
  <2> QED
    BY <1>2, <1>4, <1>5, <2>1, <2>2, <2>3, <2>4, <2>5, <2>6, QuietLinks
<1> QED
  BY <1>6, <1>7

\* A lookup in one directory keeps the links right.
LEMMA NamexLinks ==
  ASSUME Dots = {}, CacheInv, CacheInv', LinkInv, NEW p \in Procs, Namex(p)
  PROVE  LinkInv'
<1>1. At(p, "namex") /\ path[p] # <<>> /\ CanLock(ip[p]) /\ ~NoType(ip[p]) /\ Load(ip[p])
  BY DEF Namex
<1>2. /\ Typed /\ ITyped /\ PTyped(p) /\ Local(p) /\ panicked = None /\ puts[p] = <<>>
      /\ pc[p] = "namex" /\ put[p] = "lock"
  BY <1>1, AtFacts
<1>3. PICK i, x, n : i = ip[p] /\ x = Head(path[p]) /\ n = ent[i][x]
  OBVIOUS
<1>4. i \in Inums /\ dp[p] = None
  BY <1>2, <1>3 DEF Local, PTyped, WithIp, WithDp
<1>5. x \in Names
  BY <1>1, <1>2, <1>3, SeqShape DEF PTyped, Elements
<1>6. n # 0 => n \in Inums /\ dinode[n].nlink >= 1 /\ dinode[n].type # "free"
  BY <1>3, <1>4, <1>5, NamedLinked
<1>7. /\ \/ Fail(p, i) /\ UNCHANGED <<ref, panicked>>
         \/ /\ Copy(i).type = "dir" /\ Goto(p, "found")
            /\ UNCHANGED <<args, ip, puts, ref, panicked>>
         \/ n # 0 /\ LookUp(p, n)
      /\ UNCHANGED <<disk, dp, old, put, held, calls>>
  BY <1>3, Zenon DEF Namex
<1>8. dinode' = dinode /\ ent' = ent /\ calls' = calls
  BY <1>7 DEF disk
<1>9. \A j \in Inums : inode'[j] \in {inode[j], dinode[j], Free}
  BY <1>1, <1>3, <1>4, LoadCopy
<1>10. Copy(i) = dinode[i] /\ Facts(p)
  BY <1>1, <1>3, <1>4, CopyRight DEF LinkInv
<1>11. None # "unlink"
  BY InodesAssumption DEF Panics
<1>12. CASE Fail(p, i) /\ UNCHANGED <<ref, panicked>>
  BY <1>2, <1>3, <1>4, <1>7, <1>8, <1>9, <1>11, <1>12, FailLinks
<1>13. CASE /\ Copy(i).type = "dir" /\ Goto(p, "found")
            /\ UNCHANGED <<args, ip, puts, ref, panicked>>
  <2>1. Others(p)
    BY <1>2, <1>7, <1>13 DEF Goto, Others, IsFcn, Typed, held, args
  <2>2. pc'[p] = "found" /\ UNCHANGED <<call, path, new, ip, puts, dp, old, put, cwd, ofile, panicked>>
    BY <1>2, <1>7, <1>13 DEF Goto, IsFcn, Typed, held, args
  <2>3. Facts(p)'
    BY <1>3, <1>8, <1>10, <1>13, <2>2 DEF Facts
  <2>4. \A j \in Inums : Used(p, j)' => dinode[j].type # "free"
    <3> SUFFICES ASSUME NEW j \in Inums, Used(p, j)' PROVE dinode[j].type # "free"
      OBVIOUS
    <3>1. j \in {cwd'[p], ofile'[p], ip'[p], dp'[p], old'[p]}
      BY <1>2, <2>2, UsedZero
    <3> QED
      BY <2>2, <3>1, UsedType
  <2>5. Pending(p)' => Pending(p)
    BY <1>2, <2>2 DEF Pending
  <2> QED
    BY <1>2, <1>8, <1>9, <1>11, <2>1, <2>2, <2>3, <2>4, <2>5, QuietLinks
<1>14. CASE n # 0 /\ LookUp(p, n)
  <2>1. /\ Get(n) /\ ip' = Set(ip, p, n) /\ puts' = Set(puts, p, <<i>>)
        /\ path' = [path EXCEPT ![p] = Tail(@)] /\ UNCHANGED <<pc, call, new, dp, old, put, held>>
    BY <1>3, <1>7, <1>14 DEF LookUp
  <2>2. Others(p)
    BY <1>2, <2>1 DEF Set, Others, IsFcn, Typed, held
  <2>3. ip'[p] = n /\ puts'[p] = <<i>> /\ UNCHANGED <<pc, call, dp, old, cwd, ofile>>
    BY <1>2, <2>1 DEF Set, IsFcn, Typed, held
  <2>4. panicked' # "unlink"
    BY <1>2, <1>6, <1>14, <2>1, GetRight
  <2>5. Facts(p)'
    BY <1>2, <1>8, <1>10, <2>3, PlainFacts
  <2>6. \A j \in Inums : Used(p, j)' => dinode[j].type # "free"
    <3> SUFFICES ASSUME NEW j \in Inums, Used(p, j)' PROVE dinode[j].type # "free"
      OBVIOUS
    <3>1. j \in {cwd'[p], ofile'[p], ip'[p], dp'[p], old'[p], i}
      BY <2>3, UsedOne
    <3> QED
      BY <1>3, <1>6, <1>14, <2>3, <3>1, UsedType
  <2>7. Pending(p)' => Pending(p)
    BY <2>3 DEF Pending
  <2>8. \A v \in Inums : v \in {cwd'[p], ip'[p], dp'[p]} => v \in {cwd[p], ip[p], dp[p], old[p]} \/ dinode[v].nlink >= 1
    BY <1>6, <1>14, <2>3
  <2> QED
    BY <1>2, <1>8, <1>9, <2>2, <2>3, <2>4, <2>5, <2>6, <2>7, <2>8, QuietLinks
<1> QED
  BY <1>7, <1>12, <1>13, <1>14

\* The lookup of a name that create() finds keeps the links right.
LEMMA CreateFoundLinks ==
  ASSUME Dots = {}, CacheInv, CacheInv', LinkInv, NEW p \in Procs, CreateFound(p)
  PROVE  LinkInv'
<1>1. At(p, "found") /\ call[p] \in Creates /\ CanLock(ip[p]) /\ ~NoType(ip[p]) /\ Load(ip[p])
  BY DEF CreateFound
<1>2. /\ Typed /\ ITyped /\ PTyped(p) /\ Local(p) /\ panicked = None /\ puts[p] = <<>> /\ pc[p] = "found"
  BY <1>1, AtFacts
<1>3. PICK i, x, n : i = ip[p] /\ x = Name(p) /\ n = ent[i][x]
  OBVIOUS
<1>4. i \in Inums /\ x \in Names
  BY <1>1, <1>2, <1>3 DEF Local, PTyped, WithIp, Named, Name, Creates, Parent, Elements
<1>5. /\ n # 0 /\ Get(n) /\ ip' = Set(ip, p, n) /\ puts' = Set(puts, p, <<i>>) /\ Goto(p, "createold")
      /\ UNCHANGED <<dinode, ent, calls>> /\ UNCHANGED <<args, dp, old, put, held>>
  BY <1>3 DEF CreateFound, disk
<1>6. n \in Inums /\ dinode[n].nlink >= 1 /\ dinode[n].type # "free"
  BY <1>3, <1>4, <1>5, NamedLinked
<1>7. Others(p)
  BY <1>2, <1>5 DEF Goto, Set, Others, IsFcn, Typed, held, args
<1>8. /\ ip'[p] = n /\ puts'[p] = <<i>> /\ pc'[p] = "createold"
      /\ UNCHANGED <<call, dp, old, cwd, ofile>>
  BY <1>2, <1>5 DEF Goto, Set, IsFcn, Typed, held, args
<1>9. \A j \in Inums : inode'[j] \in {inode[j], dinode[j], Free}
  BY <1>1, <1>3, <1>4, LoadCopy
<1>10. panicked' # "unlink"
  BY <1>2, <1>5, <1>6, GetRight
<1>11. Facts(p)'
  BY <1>5, <1>8, PlainFacts DEF LinkInv
<1>12. \A j \in Inums : Used(p, j)' => dinode[j].type # "free"
  <2> SUFFICES ASSUME NEW j \in Inums, Used(p, j)' PROVE dinode[j].type # "free"
    OBVIOUS
  <2>1. j \in {cwd'[p], ofile'[p], ip'[p], dp'[p], old'[p], i}
    BY <1>8, UsedOne
  <2> QED
    BY <1>3, <1>6, <1>8, <2>1, UsedType
<1>13. Pending(p)' => Pending(p)
  BY <1>2, <1>8 DEF Pending
<1>14. \A v \in Inums : v \in {cwd'[p], ip'[p], dp'[p]} => v \in {cwd[p], ip[p], dp[p], old[p]} \/ dinode[v].nlink >= 1
  BY <1>6, <1>8
<1> QED
  BY <1>2, <1>5, <1>7, <1>8, <1>9, <1>10, <1>11, <1>12, <1>13, <1>14, QuietLinks

\* The lookup of the name that unlink() is to erase keeps the links right.
LEMMA UnlinkFoundLinks ==
  ASSUME Dots = {}, CacheInv, CacheInv', LinkInv, NEW p \in Procs, UnlinkFound(p)
  PROVE  LinkInv'
<1>1. At(p, "found") /\ call[p] = "unlink" /\ CanLock(ip[p]) /\ ~NoType(ip[p]) /\ Load(ip[p])
  BY DEF UnlinkFound
<1>2. /\ Typed /\ ITyped /\ PTyped(p) /\ Local(p) /\ panicked = None /\ puts[p] = <<>> /\ pc[p] = "found"
      /\ put[p] = "lock"
  BY <1>1, AtFacts
<1>3. PICK i, x, n : i = ip[p] /\ x = Name(p) /\ n = ent[i][x]
  OBVIOUS
<1>4. i \in Inums /\ x \in Names
  BY <1>1, <1>2, <1>3 DEF Local, PTyped, WithIp, Named, Name, Parent, Elements
<1>5. \A j \in Inums : inode'[j] \in {inode[j], dinode[j], Free}
  BY <1>1, <1>3, <1>4, LoadCopy
<1>6. UNCHANGED <<dinode, ent, calls, old, put, held>>
  BY DEF UnlinkFound, disk
<1>7. CASE Name(p) \in {".", ".."} \/ n = 0
  <2>1. Fail(p, i) /\ UNCHANGED <<panicked, dp>>
    BY <1>3, <1>7 DEF UnlinkFound
  <2>2. panicked' # "unlink"
    BY <1>2, <2>1, InodesAssumption DEF Panics
  <2> QED
    BY <1>2, <1>3, <1>4, <1>5, <1>6, <2>1, <2>2, FailLinks
<1>8. CASE ~(Name(p) \in {".", ".."} \/ n = 0)
  <2>1. /\ Get(n) /\ dp' = Set(dp, p, i) /\ ip' = Set(ip, p, n)
        /\ Goto(p, "unlink") /\ UNCHANGED <<args, puts>>
    BY <1>3, <1>8 DEF UnlinkFound
  <2>2. n \in Inums /\ dinode[n].nlink >= 1 /\ dinode[n].type # "free"
    BY <1>3, <1>4, <1>8, NamedLinked
  <2>3. Others(p)
    BY <1>2, <1>6, <2>1 DEF Goto, Set, Others, IsFcn, Typed, held, args
  <2>4. /\ ip'[p] = n /\ dp'[p] = i /\ pc'[p] = "unlink" /\ puts'[p] = <<>>
        /\ UNCHANGED <<call, path, old, cwd, ofile>>
    BY <1>2, <1>6, <2>1 DEF Goto, Set, IsFcn, Typed, held, args
  <2>5. panicked' # "unlink"
    BY <1>2, <2>1, <2>2, GetRight
  <2>6. Facts(p)'
    <3>1. Facts(p) /\ call[p] \in Parent
      BY <1>1 DEF LinkInv, Parent
    <3>2. dinode[i].type = "dir"
      BY <1>2, <1>3, <3>1 DEF Facts
    <3>3. Name(p)' = x
      BY <1>3, <2>4 DEF Name
    <3> QED
      BY <1>3, <1>6, <2>4, <3>1, <3>2, <3>3 DEF Facts
  <2>7. \A j \in Inums : Used(p, j)' => dinode[j].type # "free"
    <3> SUFFICES ASSUME NEW j \in Inums, Used(p, j)' PROVE dinode[j].type # "free"
      OBVIOUS
    <3>1. j \in {cwd'[p], ofile'[p], ip'[p], dp'[p], old'[p]}
      BY <2>4, UsedZero
    <3> QED
      BY <1>3, <2>2, <2>4, <3>1, UsedType
  <2>8. Pending(p)' => Pending(p)
    BY <1>2, <2>4 DEF Pending
  <2>9. \A v \in Inums : v \in {cwd'[p], ip'[p], dp'[p]} => v \in {cwd[p], ip[p], dp[p], old[p]} \/ dinode[v].nlink >= 1
    BY <1>3, <2>2, <2>4
  <2> QED
    BY <1>2, <1>5, <1>6, <2>3, <2>4, <2>5, <2>6, <2>7, <2>8, <2>9, QuietLinks
<1> QED
  BY <1>7, <1>8

\* The end of the freeing of an inode, and the last step of iput(), keep the links right.
LEMMA IputEndLinks ==
  ASSUME Dots = {}, CacheInv, CacheInv', LinkInv, NEW p \in Procs, IputFree(p) \/ IputUnref(p)
  PROVE  LinkInv'
<1>1. panicked = None /\ (put[p] = "free" \/ put[p] = "unref")
  BY DEF IputFree, IputUnref
<1>2. PICK i : i = Head(puts[p])
  OBVIOUS
<1>3. /\ Typed /\ ITyped /\ PTyped(p) /\ Local(p) /\ puts[p] # <<>> /\ i \in Inums
      /\ \A j : /\ Nth(puts[p], 1, j) <=> i = j
                /\ Nth(Tail(puts[p]), 1, j) <=> Nth(puts[p], 2, j)
                /\ ~Nth(Tail(puts[p]), 2, j)
  BY <1>1, <1>2, PutFacts
<1>4. /\ UNCHANGED <<dinode, ent, pc, call, path, new, ip, dp, old, cwd, ofile, calls, panicked>>
      /\ \/ inode' = inode \/ inode' = [inode EXCEPT ![i] = Free]
      /\ \/ puts' = puts /\ put' = [put EXCEPT ![p] = "unref"]
         \/ puts' = [puts EXCEPT ![p] = Tail(@)] /\ put' = [put EXCEPT ![p] = "lock"]
  BY <1>2 DEF IputFree, IputUnref, args, held, disk, Set
<1>5. /\ Others(p)
      /\ \/ puts'[p] = puts[p] /\ put'[p] = "unref"
         \/ puts'[p] = Tail(puts[p])
  BY <1>3, <1>4 DEF Others, IsFcn, Typed
<1>6. Facts(p) => Facts(p)'
  BY <1>4 DEF Facts, Name
<1>7. \A j \in Inums : inode'[j] \in {inode[j], dinode[j], Free}
  BY <1>3, <1>4 DEF ITyped
<1>8. ASSUME NEW j \in Inums, Used(p, j)' PROVE dinode[j].type # "free"
  <2>1. Used(p, j)
    BY <1>3, <1>4, <1>5, <1>8 DEF Used
  <2> QED
    BY <2>1 DEF LinkInv, InUse
<1>9. panicked' # "unlink" /\ Facts(p)'
  BY <1>1, <1>4, <1>6, InodesAssumption DEF Panics, LinkInv
<1>10. Pending(p)' => Pending(p)
  BY <1>4 DEF Pending
<1>11. /\ \A v \in Inums : v \in {cwd'[p], ip'[p], dp'[p]} => v \in {cwd[p], ip[p], dp[p], old[p]} \/ dinode[v].nlink >= 1
       /\ old'[p] = old[p] /\ pc'[p] = pc[p] /\ ip'[p] = ip[p] /\ dinode' = dinode /\ ent' = ent
       /\ calls' = calls
  BY <1>4
<1>12. Others(p)
  BY <1>5
<1> QED
  BY <1>7, <1>8, <1>9, <1>10, <1>11, <1>12, QuietLinks

\* What is counted for the links of inode i, before and after a step of p: the
\* names n, directories s, root g, link()s o, unlink()s e and calls f, and what p
\* itself adds to the last three.
Counted(p, i, n, s, g, o, e, f, o0, e0, f0, o1, e1, f1) ==
  /\ n = Cardinality(NamesOf(i)) /\ s = Cardinality(Subdirs(i)) /\ g = Bit(i = 1)
  /\ o = Cardinality(Olds(i)) /\ e = Cardinality({q \in Procs : Erased(q, i)})
  /\ f = Cardinality({q \in Procs : Pending(q)})
  /\ o0 = Bit(old[p] = i) /\ e0 = Bit(Erased(p, i)) /\ f0 = Bit(Pending(p))
  /\ o1 = Bit(old'[p] = i) /\ e1 = Bit(Erased(p, i)') /\ f1 = Bit(Pending(p)')
  /\ Cardinality(Olds(i)') = o + o1 - o0
  /\ Cardinality({q \in Procs : Erased(q, i)}') = e + e1 - e0
  /\ Cardinality({q \in Procs : Pending(q)}') = f + f1 - f0

\* These numbers exist.
LEMMA CountedNums ==
  ASSUME Typed, NEW p \in Procs, Others(p), NEW i
  PROVE  \E n, s, g, o, e, f \in Nat, o0, e0, f0, o1, e1, f1 \in Int :
           Counted(p, i, n, s, g, o, e, f, o0, e0, f0, o1, e1, f1)
<1>1. /\ Cardinality(NamesOf(i)) \in Nat /\ Cardinality(Subdirs(i)) \in Nat
      /\ Cardinality(Olds(i)) \in Nat /\ Cardinality({q \in Procs : Erased(q, i)}) \in Nat
      /\ Cardinality({q \in Procs : Pending(q)}) \in Nat /\ Bit(i = 1) \in Nat
  BY LinkSets DEF Bit
<1>2. /\ Bit(old'[p] = i) \in Int /\ Bit(old[p] = i) \in Int /\ Bit(Erased(p, i)') \in Int
      /\ Bit(Erased(p, i)) \in Int /\ Bit(Pending(p)') \in Int /\ Bit(Pending(p)) \in Int
  BY DEF Bit
<1>3. Cardinality(Olds(i)') = Cardinality(Olds(i)) + Bit(old'[p] = i) - Bit(old[p] = i)
  <2>1. PICK x, y : x = Cardinality(Olds(i)) /\ y = Cardinality(Olds(i)')
    OBVIOUS
  <2>2. y = x + Bit(old'[p] = i) - Bit(old[p] = i)
    BY <2>1, ProcDelta, Zenon
  <2> QED
    BY <2>1, <2>2, Zenon
<1>4. Cardinality({q \in Procs : Erased(q, i)}') =
        Cardinality({q \in Procs : Erased(q, i)}) + Bit(Erased(p, i)') - Bit(Erased(p, i))
  <2>1. PICK x, y : /\ x = Cardinality({q \in Procs : Erased(q, i)})
                    /\ y = Cardinality({q \in Procs : Erased(q, i)}')
    OBVIOUS
  <2>2. y = x + Bit(Erased(p, i)') - Bit(Erased(p, i))
    BY <2>1, ErasedDelta, Zenon
  <2> QED
    BY <2>1, <2>2, Zenon
<1>5. Cardinality({q \in Procs : Pending(q)}') =
        Cardinality({q \in Procs : Pending(q)}) + Bit(Pending(p)') - Bit(Pending(p))
  BY ProcDelta, Zenon
<1>6. PICK n, s, g, o, e, f \in Nat :
        /\ n = Cardinality(NamesOf(i)) /\ s = Cardinality(Subdirs(i)) /\ g = Bit(i = 1)
        /\ o = Cardinality(Olds(i)) /\ e = Cardinality({q \in Procs : Erased(q, i)})
        /\ f = Cardinality({q \in Procs : Pending(q)})
  BY <1>1, Zenon
<1>7. PICK o0, e0, f0, o1, e1, f1 \in Int :
        /\ o1 = Bit(old'[p] = i) /\ o0 = Bit(old[p] = i) /\ e1 = Bit(Erased(p, i)')
        /\ e0 = Bit(Erased(p, i)) /\ f1 = Bit(Pending(p)') /\ f0 = Bit(Pending(p))
  BY <1>2, Zenon
<1>8. Counted(p, i, n, s, g, o, e, f, o0, e0, f0, o1, e1, f1)
  BY <1>3, <1>4, <1>5, <1>6, <1>7, Zenon DEF Counted
<1> QED
  BY <1>8, Zenon

\* The count of the links of an inode, when its names change by a, the directories
\* in it by b and nlink by k.
LEMMA CountStep ==
  ASSUME CacheInv, LinkInv, NEW p \in Procs, Others(p), calls' = calls, NEW i \in Inums,
         NEW a \in Int, Cardinality(NamesOf(i)') = Cardinality(NamesOf(i)) + a,
         NEW b \in Int, Cardinality(Subdirs(i)') = Cardinality(Subdirs(i)) + b,
         NEW k \in Int, dinode'[i].nlink = dinode[i].nlink + k,
         k >= a + b + Bit(old'[p] = i) - Bit(old[p] = i) + Bit(Erased(p, i)') - Bit(Erased(p, i)),
         \/ k + Bit(Pending(p)') - Bit(Pending(p)) <= 0
         \/ k + Bit(Pending(p)') - Bit(Pending(p)) <= 1 /\ dinode[i].nlink = 0,
         dinode'[i].type = "dir" => Cardinality(NamesOf(i)') <= 1
  PROVE  Links(i)'
<1>1. Typed /\ Links(i) /\ dinode[i].nlink \in Nat /\ calls \in Int
  BY LinkNums DEF CacheInv, Typed, ITyped
<1>2. PICK n, s, g, o, e, f \in Nat, o0, e0, f0, o1, e1, f1 \in Int :
        Counted(p, i, n, s, g, o, e, f, o0, e0, f0, o1, e1, f1)
  BY <1>1, CountedNums
<1>3. /\ n = Cardinality(NamesOf(i)) /\ s = Cardinality(Subdirs(i)) /\ o = Cardinality(Olds(i))
      /\ e = Cardinality({q \in Procs : Erased(q, i)})
      /\ f = Cardinality({q \in Procs : Pending(q)}) /\ g = Bit(i = 1)
  BY <1>2, Zenon DEF Counted
<1>5. /\ o1 = Bit(old'[p] = i) /\ o0 = Bit(old[p] = i) /\ e1 = Bit(Erased(p, i)')
      /\ e0 = Bit(Erased(p, i)) /\ f1 = Bit(Pending(p)') /\ f0 = Bit(Pending(p))
  BY <1>2, Zenon DEF Counted
<1>6. /\ Cardinality(Olds(i)') = o + o1 - o0
      /\ Cardinality({q \in Procs : Erased(q, i)}') = e + e1 - e0
      /\ Cardinality({q \in Procs : Pending(q)}') = f + f1 - f0
  BY <1>2, Zenon DEF Counted
<1>7. dinode[i].nlink >= n + g + s + o + e /\ dinode[i].nlink + f <= 2 + calls
  BY <1>1, <1>3 DEF Links
<1>8. 1 + f <= 2 + calls
  <2>1. dinode[1].nlink >= 1 /\ dinode[1].nlink \in Nat /\ Links(1)
    BY RootLinked, LinkNums
  <2>2. dinode[1].nlink + f <= 2 + calls
    BY <1>3, <2>1 DEF Links
  <2> QED
    BY <1>1, <2>1, <2>2
<1>9. k >= a + b + o1 - o0 + e1 - e0 /\ (k + f1 - f0 <= 0 \/ (k + f1 - f0 <= 1 /\ dinode[i].nlink = 0))
  BY <1>5, Zenon
<1>10. PICK l \in Nat : l = dinode[i].nlink
  BY <1>1
<1>11. l + k >= (n + a) + g + (s + b) + (o + o1 - o0) + (e + e1 - e0)
  BY <1>7, <1>9, <1>10
<1>12. l + k + (f + f1 - f0) <= 2 + calls
  BY <1>1, <1>7, <1>8, <1>9, <1>10
<1>13. /\ dinode'[i].nlink = l + k /\ Cardinality(NamesOf(i)') = n + a /\ Cardinality(Subdirs(i)') = s + b
       /\ Bit(i = 1) = g
  BY <1>3, <1>10, Zenon
<1>14. /\ dinode'[i].nlink >= Cardinality(NamesOf(i)') + Bit(i = 1) + Cardinality(Subdirs(i)')
            + Cardinality(Olds(i)') + Cardinality({q \in Procs : Erased(q, i)}')
       /\ dinode'[i].nlink + Cardinality({q \in Procs : Pending(q)}') <= 2 + calls'
  BY <1>6, <1>11, <1>12, <1>13, Zenon
<1> QED
  BY <1>14 DEF Links

\* The names and the directories in a directory, when the entries stay.
LEMMA SameSets ==
  ASSUME \A j \in Inums : \A n \in Names : ent'[j][n] = ent[j][n],
         \A j \in Inums : \A n \in Names : ent[j][n] # 0 =>
           (dinode'[ent[j][n]].type = "dir" <=> dinode[ent[j][n]].type = "dir"),
         NEW i \in Inums
  PROVE  /\ NamesOf(i)' = NamesOf(i) /\ Subdirs(i)' = Subdirs(i)
         /\ Cardinality(NamesOf(i)') = Cardinality(NamesOf(i)) + 0
         /\ Cardinality(Subdirs(i)') = Cardinality(Subdirs(i)) + 0
<1>1. NamesOf(i)' = NamesOf(i)
  <2>1. \A z \in Inums \X Names : ent'[z[1]][z[2]] = ent[z[1]][z[2]]
    OBVIOUS
  <2> QED
    BY <2>1 DEF NamesOf
<1>2. Subdirs(i)' = Subdirs(i)
  BY DEF Subdirs
<1>3. Cardinality(NamesOf(i)) \in Nat /\ Cardinality(Subdirs(i)) \in Nat
  BY LinkSets
<1>4. PICK m, n \in Nat : m = Cardinality(NamesOf(i)) /\ n = Cardinality(Subdirs(i))
  BY <1>3
<1>5. Cardinality(NamesOf(i)') = m /\ Cardinality(Subdirs(i)') = n
  BY <1>1, <1>2, <1>4, Zenon
<1> QED
  BY <1>1, <1>2, <1>4, <1>5

\* A step that changes nlink of one inode by k, with what it is counted for.
LEMMA AddCounts ==
  ASSUME Dots = {}, CacheInv, CacheInv', LinkInv, NEW p \in Procs, Others(p), panicked' # "unlink",
         ent' = ent, calls' = calls, NEW i \in Inums, i \in {ip[p], old[p]}, NEW k \in Int,
         AddLinks(i, k), Copy(i) = dinode[i], dinode[i].type # "free",
         \A j \in Inums : (IF j = i THEN k ELSE 0) >=
           Bit(old'[p] = j) - Bit(old[p] = j) + Bit(Erased(p, j)') - Bit(Erased(p, j)),
         k + Bit(Pending(p)') - Bit(Pending(p)) <= 0,
         Bit(Pending(p)') - Bit(Pending(p)) <= 0,
         pc'[p] \in {"idle", "namex"}, old'[p] = None \/ (old'[p] = i /\ dinode[i].type # "dir"),
         \A v \in Inums : v \in {cwd'[p], ip'[p], dp'[p], old'[p]} =>
           v \in {cwd[p], ip[p], dp[p], old[p]} \/ dinode[v].nlink >= 1,
         \A j \in Inums : Used(p, j)' => dinode[j].type # "free"
  PROVE  LinkInv'
<1>1. ITyped
  BY DEF CacheInv, Typed
<1>2. dinode' = [dinode EXCEPT ![i] = [type |-> dinode[i].type, nlink |-> dinode[i].nlink + k]]
  BY AddRight
<1>3. /\ \A j \in Inums : dinode'[j].type = dinode[j].type /\ (j # i => dinode'[j] = dinode[j])
      /\ dinode'[i].nlink = dinode[i].nlink + k
  BY <1>1, <1>2 DEF ITyped
<1>4. ASSUME NEW j \in Inums PROVE Clean(j)' /\ Links(j)'
  <2>1. Clean(j) /\ Links(j) /\ dinode[j].nlink \in Nat
    BY LinkNums
  <2>2. Clean(j)'
    BY <1>3, <2>1 DEF Clean
  <2>3. \A d \in Inums : \A n \in Names : ent[d][n] # 0 => ent[d][n] \in Inums
    BY NamedLinked
  <2>4. /\ NamesOf(j)' = NamesOf(j)
        /\ Cardinality(NamesOf(j)') = Cardinality(NamesOf(j)) + 0
        /\ Cardinality(Subdirs(j)') = Cardinality(Subdirs(j)) + 0
    BY <1>3, <2>3, SameSets
  <2>5. PICK c \in Int : c = IF j = i THEN k ELSE 0
    OBVIOUS
  <2>6. dinode'[j].nlink = dinode[j].nlink + c
    BY <1>3, <2>1, <2>5
  <2>7. c >= 0 + 0 + Bit(old'[p] = j) - Bit(old[p] = j) + Bit(Erased(p, j)') - Bit(Erased(p, j))
    BY <2>5 DEF Bit
  <2>8. c + Bit(Pending(p)') - Bit(Pending(p)) <= 0
    BY <2>5 DEF Bit
  <2>9. dinode'[j].type = "dir" => Cardinality(NamesOf(j)') <= 1
    BY <1>3, <2>1, <2>4 DEF Links
  <2> QED
    <3>1. PICK z \in Int : z = 0
      OBVIOUS
    <3>2. /\ Cardinality(NamesOf(j)') = Cardinality(NamesOf(j)) + z
          /\ Cardinality(Subdirs(j)') = Cardinality(Subdirs(j)) + z
      BY <2>4, <3>1
    <3>3. c >= z + z + Bit(old'[p] = j) - Bit(old[p] = j) + Bit(Erased(p, j)') - Bit(Erased(p, j))
      BY <2>7, <3>1
    <3>4. Links(j)'
      BY <2>6, <2>8, <2>9, <3>2, <3>3, CountStep
    <3> QED
      BY <2>2, <3>4
<1>5. Facts(p)'
  BY <1>3 DEF Facts
<1>6. \A j \in Inums : inode'[j] \in {inode[j], dinode'[j], Free}
  BY <1>1 DEF AddLinks, ITyped
<1>7. \A j \in Inums : dinode'[j] = dinode[j] \/ (dinode'[j].type = dinode[j].type /\ j \in {ip[p], dp[p], old[p]})
  BY <1>3
<1>8. \A j \in Inums : Used(p, j)' => dinode'[j].type # "free"
  BY <1>3
<1> QED
  BY <1>4, <1>5, <1>6, <1>7, <1>8, LinkStep

\* The end of unlink() keeps the links right.
LEMMA UnlinkedLinks ==
  ASSUME Dots = {}, CacheInv, CacheInv', LinkInv, NEW p \in Procs, Unlinked(p)
  PROVE  LinkInv'
<1>1. At(p, "unlinked")
  BY DEF Unlinked
<1>2. /\ Typed /\ ITyped /\ PTyped(p) /\ Local(p) /\ HeldOK(p)
      /\ panicked = None /\ puts[p] = <<>> /\ pc[p] = "unlinked" /\ put[p] = "lock"
  BY <1>1, AtFacts
<1>3. PICK i \in Inums : i = ip[p] /\ dp[p] = None /\ old[p] = None
  BY <1>1, <1>2 DEF Local, PTyped, WithIp, WithDp
<1>4. Copy(i) = dinode[i] /\ dinode[i].type # "free"
  BY <1>2, <1>3 DEF HeldOK, Holds, Copy, Sound
<1>5. Others(p)
  BY <1>2 DEF Unlinked, Return, Goto, Set, Others, IsFcn, Typed, held
<1>6. /\ pc'[p] = "idle" /\ call'[p] = None /\ ip'[p] = None /\ dp'[p] = None /\ old'[p] = None
      /\ cwd'[p] = cwd[p] /\ puts'[p] = <<i>> /\ ofile'[p] = ofile[p]
  BY <1>2, <1>3 DEF Unlinked, Return, Goto, Set, IsFcn, Typed, held
<1>7. AddLinks(i, -1) /\ ent' = ent /\ calls' = calls /\ panicked' # "unlink" /\ -1 \in Int
  BY <1>2, <1>3, InodesAssumption DEF Unlinked, Panics
<1>8. \A j \in Inums : Used(p, j)' => dinode[j].type # "free"
  <2> SUFFICES ASSUME NEW j \in Inums, Used(p, j)' PROVE dinode[j].type # "free"
    OBVIOUS
  <2>1. j \in {cwd'[p], ofile'[p], ip'[p], dp'[p], old'[p], i}
    BY <1>6, UsedOne
  <2> QED
    BY <1>3, <1>6, <2>1, UsedType, NoneApart
<1>9. ~Pending(p) /\ ~Pending(p)'
  BY <1>2, <1>6, NoneApart DEF Pending, Local, Ops
<1>10. -1 + Bit(Pending(p)') - Bit(Pending(p)) <= 0 /\ Bit(Pending(p)') - Bit(Pending(p)) <= 0
  BY <1>9 DEF Bit
<1>11. \A j \in Inums : (IF j = i THEN -1 ELSE 0) >=
         Bit(old'[p] = j) - Bit(old[p] = j) + Bit(Erased(p, j)') - Bit(Erased(p, j))
  BY <1>2, <1>3, <1>6, NoneApart DEF Bit, Erased
<1>12. \A v \in Inums : v \in {cwd'[p], ip'[p], dp'[p], old'[p]} =>
         v \in {cwd[p], ip[p], dp[p], old[p]} \/ dinode[v].nlink >= 1
  BY <1>6, NoneApart
<1> QED
  BY <1>3, <1>4, <1>5, <1>6, <1>7, <1>8, <1>10, <1>11, <1>12, AddCounts

\* A link() that takes its link back keeps the links right.
LEMMA LinkBadLinks ==
  ASSUME Dots = {}, CacheInv, CacheInv', LinkInv, NEW p \in Procs, LinkBad(p)
  PROVE  LinkInv'
<1>1. At(p, "linkbad") /\ CanLock(old[p]) /\ ~NoType(old[p])
  BY DEF LinkBad
<1>2. /\ Typed /\ ITyped /\ PTyped(p) /\ Local(p)
      /\ panicked = None /\ puts[p] = <<>> /\ pc[p] = "linkbad" /\ put[p] = "lock"
  BY <1>1, AtFacts
<1>3. PICK i \in Inums : i = old[p] /\ dp[p] = None /\ ip[p] = None
  BY <1>1, <1>2 DEF Local, PTyped, WithIp, WithDp
<1>4. Copy(i) = dinode[i] /\ dinode[i].type # "free"
  BY <1>1, <1>3, CopyRight DEF NoType
<1>5. Others(p)
  BY <1>2 DEF LinkBad, Return, Goto, Set, Others, IsFcn, Typed, held
<1>6. /\ pc'[p] = "idle" /\ call'[p] = None /\ ip'[p] = None /\ dp'[p] = None /\ old'[p] = None
      /\ cwd'[p] = cwd[p] /\ puts'[p] = <<i>> /\ ofile'[p] = ofile[p]
  BY <1>2, <1>3 DEF LinkBad, Return, Goto, Set, IsFcn, Typed, held
<1>7. AddLinks(i, -1) /\ ent' = ent /\ calls' = calls /\ panicked' # "unlink" /\ -1 \in Int
  BY <1>2, <1>3, InodesAssumption DEF LinkBad, Panics
<1>8. \A j \in Inums : Used(p, j)' => dinode[j].type # "free"
  <2> SUFFICES ASSUME NEW j \in Inums, Used(p, j)' PROVE dinode[j].type # "free"
    OBVIOUS
  <2>1. j \in {cwd'[p], ofile'[p], ip'[p], dp'[p], old'[p], i}
    BY <1>6, UsedOne
  <2> QED
    BY <1>3, <1>6, <2>1, UsedType, NoneApart
<1>9. ~Pending(p) /\ ~Pending(p)'
  BY <1>2, <1>6, NoneApart DEF Pending, Local, Ops
<1>10. -1 + Bit(Pending(p)') - Bit(Pending(p)) <= 0 /\ Bit(Pending(p)') - Bit(Pending(p)) <= 0
  BY <1>9 DEF Bit
<1>11. \A j \in Inums : (IF j = i THEN -1 ELSE 0) >=
         Bit(old'[p] = j) - Bit(old[p] = j) + Bit(Erased(p, j)') - Bit(Erased(p, j))
  BY <1>2, <1>3, <1>6, NoneApart DEF Bit, Erased
<1>12. \A v \in Inums : v \in {cwd'[p], ip'[p], dp'[p], old'[p]} =>
         v \in {cwd[p], ip[p], dp[p], old[p]} \/ dinode[v].nlink >= 1
  BY <1>6, NoneApart
<1> QED
  BY <1>3, <1>4, <1>5, <1>6, <1>7, <1>8, <1>10, <1>11, <1>12, AddCounts

\* The first part of link() keeps the links right.
LEMMA LinkLinks ==
  ASSUME Dots = {}, CacheInv, CacheInv', LinkInv, NEW p \in Procs, Link(p)
  PROVE  LinkInv'
<1>1. At(p, "found") /\ call[p] = "link" /\ CanLock(ip[p]) /\ ~NoType(ip[p])
  BY DEF Link
<1>2. /\ Typed /\ ITyped /\ PTyped(p) /\ Local(p)
      /\ panicked = None /\ puts[p] = <<>> /\ pc[p] = "found" /\ put[p] = "lock"
  BY <1>1, AtFacts
<1>3. PICK i \in Inums, s \in Paths : i = ip[p] /\ s = new[p] /\ dp[p] = None /\ old[p] = None
  BY <1>1, <1>2 DEF Local, PTyped, WithIp, WithDp
<1>4. Copy(i) = dinode[i] /\ dinode[i].type # "free" /\ CanLock(i)
  BY <1>1, <1>3, CopyRight DEF NoType
<1>5. ent' = ent /\ calls' = calls /\ UNCHANGED <<dp, put, held>>
  BY DEF Link
<1>6. None # "unlink"
  BY InodesAssumption DEF Panics
<1>7. CASE Copy(ip[p]).type = "dir"
  <2>1. Load(i) /\ Fail(p, i) /\ UNCHANGED <<dinode, old, ref, panicked>>
    BY <1>3, <1>7 DEF Link
  <2>2. \A j \in Inums : inode'[j] \in {inode[j], dinode[j], Free}
    BY <1>4, <2>1, LoadCopy
  <2> QED
    BY <1>2, <1>3, <1>5, <1>6, <2>1, <2>2, FailLinks
<1>8. CASE Copy(ip[p]).type # "dir"
  <2>1. /\ AddLinks(i, 1) /\ old' = Set(old, p, i) /\ Start(p, s)
        /\ call' = Set(call, p, "link2") /\ new' = Set(new, p, <<>>)
        /\ Goto(p, "namex") /\ UNCHANGED puts
    BY <1>3, <1>8 DEF Link
  <2>2. PICK r \in Inums, x \in Seq2(Elements) :
          Get(r) /\ ip' = [ip EXCEPT ![p] = r] /\ path' = [path EXCEPT ![p] = x] /\ (r = 1 \/ r = cwd[p])
    BY <1>3, <2>1, StartRight
  <2>3. Others(p)
    BY <1>2, <1>5, <2>1, <2>2 DEF Goto, Set, Others, IsFcn, Typed, held
  <2>4. /\ ip'[p] = r /\ dp'[p] = None /\ old'[p] = i /\ call'[p] = "link2"
        /\ pc'[p] = "namex" /\ puts'[p] = <<>> /\ cwd'[p] = cwd[p] /\ ofile'[p] = ofile[p]
    BY <1>2, <1>3, <1>5, <2>1, <2>2 DEF Goto, Set, IsFcn, Typed, held
  <2>5. 1 \in Inums /\ dinode[1].nlink >= 1 /\ dinode[1].type # "free"
    BY RootLinked
  <2>6. \A j \in Inums : Used(p, j)' => dinode[j].type # "free"
    <3> SUFFICES ASSUME NEW j \in Inums, Used(p, j)' PROVE dinode[j].type # "free"
      OBVIOUS
    <3>1. j \in {cwd'[p], ofile'[p], ip'[p], dp'[p], old'[p]}
      BY <2>4, UsedZero
    <3> QED
      BY <1>3, <2>2, <2>4, <2>5, <3>1, UsedType, NoneApart
  <2>7. Pending(p) /\ ~Pending(p)'
    BY <1>1, <1>2, <2>4 DEF Pending
  <2>8. 1 + Bit(Pending(p)') - Bit(Pending(p)) <= 0 /\ Bit(Pending(p)') - Bit(Pending(p)) <= 0
    BY <2>7 DEF Bit
  <2>9. \A j \in Inums : (IF j = i THEN 1 ELSE 0) >=
          Bit(old'[p] = j) - Bit(old[p] = j) + Bit(Erased(p, j)') - Bit(Erased(p, j))
    BY <1>2, <1>3, <2>4, NoneApart DEF Bit, Erased
  <2>10. \A v \in Inums : v \in {cwd'[p], ip'[p], dp'[p], old'[p]} =>
           v \in {cwd[p], ip[p], dp[p], old[p]} \/ dinode[v].nlink >= 1
    BY <1>3, <2>2, <2>4, <2>5, NoneApart
  <2>11. panicked' # "unlink" /\ 1 \in Int
    BY <1>2, <2>2, GetRight
  <2>12. dinode[i].type # "dir"
    BY <1>3, <1>4, <1>8
  <2> QED
    BY <1>3, <1>4, <1>5, <2>1, <2>3, <2>4, <2>6, <2>8, <2>9, <2>10, <2>11, <2>12, AddCounts
<1> QED
  BY <1>7, <1>8

\* The names and directories that are left, when the entries of directory d are erased.
LEMMA EraseSets ==
  ASSUME NEW d \in Inums,
         \A j \in Inums : \A n \in Names : ent'[j][n] = IF j = d THEN 0 ELSE ent[j][n],
         \A j \in Inums : \A n \in Names : ent[j][n] # d,
         \A j \in Inums : j # d => dinode'[j] = dinode[j],
         \A j \in Inums : \A n \in Names : ent[j][n] # 0 => ent[j][n] \in Inums,
         NEW i \in Inums
  PROVE  \E a, b \in Int :
           /\ Cardinality(NamesOf(i)') = Cardinality(NamesOf(i)) + a
           /\ Cardinality(Subdirs(i)') = Cardinality(Subdirs(i)) + b
           /\ a <= 0 /\ b <= 0
<1>1. PICK A, B, C, D : A = NamesOf(i) /\ B = NamesOf(i)' /\ C = Subdirs(i) /\ D = Subdirs(i)'
  OBVIOUS
<1>2. /\ IsFiniteSet(Inums \X Names) /\ A \in SUBSET (Inums \X Names)
      /\ IsFiniteSet(Names) /\ C \in SUBSET Names
  BY <1>1, LinkSets
<1>3. IsFiniteSet(A) /\ IsFiniteSet(C)
  BY <1>2, FS_Subset
<1>4. B \in SUBSET A
  <2>1. /\ A = {z \in Inums \X Names : ent[z[1]][z[2]] = i}
        /\ B = {z \in Inums \X Names : ent'[z[1]][z[2]] = i}
    BY <1>1 DEF NamesOf
  <2>2. i # 0
    BY DEF Inums
  <2>3. ASSUME NEW z \in B PROVE z \in A
    <3>1. z[1] \in Inums /\ z[2] \in Names /\ ent'[z[1]][z[2]] = i
      BY <2>1, <2>3
    <3>2. ent[z[1]][z[2]] = i
      BY <2>2, <3>1
    <3> QED
      BY <2>1, <2>3, <3>2
  <2> QED
    BY <2>3
<1>5. D \in SUBSET C
  <2>1. /\ C = {n \in Names : ent[i][n] # 0 /\ dinode[ent[i][n]].type = "dir"}
        /\ D = {n \in Names : ent'[i][n] # 0 /\ dinode'[ent'[i][n]].type = "dir"}
    BY <1>1 DEF Subdirs
  <2>2. ASSUME NEW n \in D PROVE n \in C
    <3>1. n \in Names /\ ent'[i][n] # 0 /\ dinode'[ent'[i][n]].type = "dir"
      BY <2>1, <2>2
    <3>2. ent'[i][n] = ent[i][n]
      BY <3>1
    <3>3. dinode'[ent[i][n]] = dinode[ent[i][n]]
      BY <3>1, <3>2
    <3> QED
      BY <2>1, <3>1, <3>2, <3>3
  <2> QED
    BY <2>2
<1>6. /\ Cardinality(A) \in Nat /\ Cardinality(B) \in Nat /\ Cardinality(B) <= Cardinality(A)
      /\ Cardinality(C) \in Nat /\ Cardinality(D) \in Nat /\ Cardinality(D) <= Cardinality(C)
  BY <1>3, <1>4, <1>5, CountSome
<1>7. PICK a, b \in Int : a = Cardinality(B) - Cardinality(A) /\ b = Cardinality(D) - Cardinality(C)
  BY <1>6
<1>8. /\ Cardinality(B) = Cardinality(A) + a /\ Cardinality(D) = Cardinality(C) + b
      /\ a <= 0 /\ b <= 0
  BY <1>6, <1>7
<1> QED
  BY <1>1, <1>8, Zenon

\* The lock of iput() keeps the links right: an inode that is freed has no name,
\* and nobody else refers to it.
LEMMA IputLockLinks ==
  ASSUME Dots = {}, CacheInv, CacheInv', LinkInv, NEW p \in Procs, IputLock(p)
  PROVE  LinkInv'
<1>1. panicked = None /\ puts[p] # <<>> /\ put[p] = "lock" /\ CanLock(Head(puts[p]))
  BY DEF IputLock
<1>2. PICK i : i = Head(puts[p])
  OBVIOUS
<1>3. /\ Typed /\ ITyped /\ PTyped(p) /\ Local(p) /\ puts[p] # <<>> /\ i \in Inums
      /\ Nth(puts[p], 1, i)
  BY <1>1, <1>2, PutFacts
<1>4. UNCHANGED <<valid, ref, pc, call, path, new, ip, dp, old, puts, cwd, ofile, calls, panicked>>
  BY DEF IputLock, args, held
<1>5. panicked' # "unlink" /\ Facts(p)
  BY <1>1, <1>4, InodesAssumption DEF Panics, LinkInv
<1>6. Name(p)' = Name(p) /\ (Pending(p)' <=> Pending(p)) /\ \A j : Erased(p, j)' <=> Erased(p, j)
  BY <1>4 DEF Name, Pending, Erased
<1>7. CASE LastUse(i)
  <2>1. /\ dinode' = [dinode EXCEPT ![i] = Free] /\ inode' = [inode EXCEPT ![i] = Free]
        /\ ent' = [ent EXCEPT ![i] = [n \in DOMAIN @ |-> 0]]
        /\ put' = [put EXCEPT ![p] = "free"]
    BY <1>2, <1>7 DEF IputLock, Set
  <2>2. Others(p) /\ put'[p] = "free"
    BY <1>3, <1>4, <2>1 DEF Others, IsFcn, Typed
  <2>3. dinode[i].nlink = 0 /\ ref[i] = 1
    BY <1>1, <1>2, <1>3, <1>7, CopyRight DEF LastUse, Sound
  <2>4. ~(dinode[i].nlink >= 1)
    BY <2>3
  <2>5. \A j \in Inums : \A n \in Names : ent[j][n] # i
    BY <1>3, <2>4, NoLinks
  <2>6. RefSum(i) = 1
    BY <1>1, <1>3, <2>3 DEF CacheInv, RefEq
  <2>7. \A q \in Procs : /\ i \notin {cwd[q], ofile[q], ip[q], dp[q], old[q]}
                         /\ ~Nth(puts[q], 2, i)
                         /\ q # p => ~Nth(puts[q], 1, i)
    <3>1. ~(RefSum(i) >= 2)
      BY <2>6
    <3> QED
      BY <1>3, <3>1, RefSome
  <2>8. \A q \in Procs : q # p => ~Used(q, i)
    BY <2>7 DEF Used
  <2>9. \A j \in Inums : Used(p, j)' => Used(p, j) /\ j # i
    BY <1>4, <2>2, <2>7 DEF Used
  <2>10. /\ \A j \in Inums : j # i => dinode'[j] = dinode[j] /\ ent'[j] = ent[j] /\ inode'[j] = inode[j]
         /\ dinode'[i] = Free /\ inode'[i] = Free
    BY <1>3, <2>1 DEF ITyped
  <2>11. \A n \in Names : ent'[i][n] = 0
    <3>1. DOMAIN ent[i] = EntNames
      BY <1>3 DEF ITyped
    <3> QED
      BY <1>3, <2>1, <3>1 DEF ITyped, EntNames
  <2>12. \A j \in Inums : \A n \in Names : ent'[j][n] = IF j = i THEN 0 ELSE ent[j][n]
    BY <2>10, <2>11
  <2>13. \A j \in Inums : \A n \in Names : ent[j][n] # 0 => ent[j][n] \in Inums
    BY NamedLinked
  <2>14. ASSUME NEW j \in Inums PROVE Clean(j)' /\ Links(j)'
    <3>1. Clean(j) /\ Links(j) /\ dinode[j].nlink \in Nat
      BY LinkNums
    <3>2. Clean(j)'
      BY <2>10, <2>12, <3>1 DEF Clean, Free
    <3>3. PICK a, b \in Int :
            /\ Cardinality(NamesOf(j)') = Cardinality(NamesOf(j)) + a
            /\ Cardinality(Subdirs(j)') = Cardinality(Subdirs(j)) + b
            /\ a <= 0 /\ b <= 0
      BY <1>3, <2>5, <2>10, <2>12, <2>13, EraseSets
    <3>4. PICK z \in Int : z = 0
      OBVIOUS
    <3>5. dinode'[j].nlink = dinode[j].nlink + z
      BY <2>3, <2>10, <3>1, <3>4 DEF Free
    <3>6. z >= a + b + Bit(old'[p] = j) - Bit(old[p] = j) + Bit(Erased(p, j)') - Bit(Erased(p, j))
      BY <1>4, <1>6, <3>3, <3>4 DEF Bit
    <3>7. z + Bit(Pending(p)') - Bit(Pending(p)) <= 0
      BY <1>6, <3>4 DEF Bit
    <3>8. dinode'[j].type = "dir" => Cardinality(NamesOf(j)') <= 1
      <4>1. Cardinality(NamesOf(j)) \in Nat
        BY LinkSets
      <4>2. dinode'[j].type = "dir" => Cardinality(NamesOf(j)) <= 1
        BY <2>10, <3>1 DEF Links, Free
      <4> QED
        BY <3>3, <4>1, <4>2
    <3>9. calls' = calls
      BY <1>4
    <3>10. Links(j)'
      BY <2>2, <3>3, <3>5, <3>6, <3>7, <3>8, <3>9, CountStep
    <3> QED
      BY <3>2, <3>10
  <2>15. Facts(p)'
    <3>1. \A j \in Inums : j \in {ip[p], dp[p], old[p]} => dinode'[j] = dinode[j] /\ ent'[j] = ent[j]
      BY <2>7, <2>10
    <3>2. /\ pc[p] = "found" => ip[p] \in Inums
          /\ pc[p] \in {"createnew", "unlink"} => ip[p] \in Inums /\ dp[p] \in Inums
          /\ old[p] # None => old[p] \in Inums
      BY <1>3 DEF Local, PTyped, WithIp, WithDp
    <3>3. \A q \in Procs : cwd'[q] = cwd[q] /\ ip'[q] = ip[q] /\ dp'[q] = dp[q] /\ old'[q] = old[q]
      BY <1>4
    <3> QED
      BY <1>4, <1>5, <1>6, <3>1, <3>2, <3>3 DEF Facts
  <2>16. \A j \in Inums : lock[j] \in {None, p} \/ \A n \in Names : ent'[j][n] = ent[j][n]
    BY <1>1, <1>2, <2>10 DEF CanLock
  <2>17. \A j \in Inums : Used(p, j)' => dinode'[j].type # "free"
    BY <2>9, <2>10 DEF LinkInv, InUse
  <2>18. \A j \in Inums : inode'[j] \in {inode[j], dinode'[j], Free}
    BY <2>10
  <2>19. \A v \in Inums : v \in {cwd'[p], ip'[p], dp'[p], old'[p]} =>
           v \in {cwd[p], ip[p], dp[p], old[p]} \/ dinode[v].nlink >= 1 \/ dinode[v].type = "free"
    BY <1>4
  <2>20. \A j \in Inums :
           \/ dinode'[j] = dinode[j]
           \/ dinode'[j].type = dinode[j].type /\ j \in {ip[p], dp[p], old[p]}
           \/ dinode[j].type = "free"
           \/ \A q \in Procs : q # p => ~Used(q, j)
    BY <2>8, <2>10
  <2> QED
    BY <1>5, <2>2, <2>14, <2>15, <2>16, <2>17, <2>18, <2>19, <2>20, LinkStep
<1>8. CASE ~LastUse(i)
  <2>1. put' = [put EXCEPT ![p] = "unref"] /\ UNCHANGED <<dinode, ent, inode, lock>>
    BY <1>2, <1>8 DEF IputLock, Set, disk
  <2>2. Others(p) /\ put'[p] = "unref"
    BY <1>3, <1>4, <2>1 DEF Others, IsFcn, Typed
  <2>3. \A j \in Inums : Used(p, j)' => dinode[j].type # "free"
    <3> SUFFICES ASSUME NEW j \in Inums, Used(p, j)' PROVE dinode[j].type # "free"
      OBVIOUS
    <3>1. Used(p, j)
      BY <1>4, <2>2 DEF Used
    <3> QED
      BY <3>1 DEF LinkInv, InUse
  <2>4. Facts(p)'
    BY <1>4, <1>5, <1>6, <2>1 DEF Facts
  <2>5. /\ \A v \in Inums : v \in {cwd'[p], ip'[p], dp'[p]} => v \in {cwd[p], ip[p], dp[p], old[p]} \/ dinode[v].nlink >= 1
        /\ old'[p] = old[p] /\ pc'[p] = pc[p] /\ ip'[p] = ip[p] /\ dinode' = dinode /\ ent' = ent
        /\ calls' = calls
    BY <1>4, <2>1
  <2>6. \A j \in Inums : inode'[j] \in {inode[j], dinode[j], Free}
    BY <2>1
  <2> QED
    BY <1>5, <1>6, <2>2, <2>3, <2>4, <2>5, <2>6, QuietLinks
<1> QED
  BY <1>7, <1>8

\* dirlink() in link() keeps the links right: the new name is the one that was counted.
LEMMA LinkEnterLinks ==
  ASSUME Dots = {}, CacheInv, CacheInv', LinkInv, NEW p \in Procs, LinkEnter(p)
  PROVE  LinkInv'
<1>1. At(p, "found") /\ call[p] = "link2" /\ CanLock(ip[p]) /\ ~NoType(ip[p]) /\ Load(ip[p])
  BY DEF LinkEnter
<1>2. /\ Typed /\ ITyped /\ PTyped(p) /\ Local(p)
      /\ panicked = None /\ puts[p] = <<>> /\ pc[p] = "found" /\ put[p] = "lock"
  BY <1>1, AtFacts
<1>3. PICK d \in Inums, l \in Inums, x \in Names :
        d = ip[p] /\ l = old[p] /\ x = Name(p) /\ dp[p] = None
  BY <1>1, <1>2 DEF Local, PTyped, WithIp, WithDp, Parent, Named, Name, Elements
<1>4. /\ UNCHANGED <<dinode, put, cwd, ofile, calls>> /\ ip' = Set(ip, p, None)
  BY DEF LinkEnter, held
<1>5. lock[d] = None /\ \A j \in Inums : inode'[j] \in {inode[j], dinode[j], Free}
  BY <1>1, <1>3, LoadCopy DEF CanLock
<1>6. dinode[d].type = "dir" /\ dinode[l].type # "dir"
  <2>1. Facts(p) /\ call[p] \in Parent /\ old[p] # None
    BY <1>1, <1>3, NoneApart DEF LinkInv, Parent
  <2> QED
    BY <1>2, <1>3, <2>1 DEF Facts
<1>7. l # 0 /\ \A j \in Inums : j # 0
  BY DEF Inums
<1>8. CASE ent[d][x] = 0
  <2>1. /\ ent' = [ent EXCEPT ![d][x] = l] /\ puts' = Set(puts, p, <<d, l>>)
        /\ old' = Set(old, p, None) /\ Return(p) /\ UNCHANGED <<ref, panicked, lock, dp>>
    BY <1>3, <1>8 DEF LinkEnter
  <2>2. Others(p)
    BY <1>2, <1>4, <2>1 DEF Return, Goto, Set, Others, IsFcn, Typed
  <2>3. /\ pc'[p] = "idle" /\ call'[p] = None /\ ip'[p] = None /\ dp'[p] = None /\ old'[p] = None
        /\ cwd'[p] = cwd[p] /\ puts'[p] = <<d, l>> /\ ofile'[p] = ofile[p]
    BY <1>2, <1>3, <1>4, <2>1 DEF Return, Goto, Set, IsFcn, Typed
  <2>4. Entered(d, x, l)
    BY <1>2, <1>3, <2>1 DEF ITyped, EntNames, Entered
  <2>5. ~Pending(p) /\ ~Pending(p)'
    BY <1>1, <2>3, NoneApart DEF Pending, Ops
  <2>6. ASSUME NEW j \in Inums PROVE Clean(j)' /\ Links(j)'
    <3>1. Clean(j) /\ Links(j) /\ dinode[j].nlink \in Nat
      BY LinkNums
    <3>2. Clean(j)'
      <4>1. dinode[d].type # "free"
        BY <1>6
      <4> QED
        BY <1>4, <1>6, <2>4, <3>1 DEF Clean, Entered
    <3>3. PICK a \in Int : /\ a = Bit(l = j) - Bit(ent[d][x] = j)
                          /\ Cardinality(NamesOf(j)') = Cardinality(NamesOf(j)) + a
      BY <2>4, NamesDelta
    <3>4. a = Bit(l = j)
      BY <1>7, <1>8, <3>3 DEF Bit
    <3>5. PICK b \in Int :
            /\ j # d => b = 0
            /\ j = d => b = Bit(l # 0 /\ dinode'[l].type = "dir")
                           - Bit(ent[d][x] # 0 /\ dinode[ent[d][x]].type = "dir")
            /\ Cardinality(Subdirs(j)') = Cardinality(Subdirs(j)) + b
      <4>1. SameDirs
        BY <1>4 DEF SameDirs
      <4> QED
        BY <2>4, <4>1, SubdirsDelta
    <3>6. b = 0
      BY <1>4, <1>6, <1>8, <3>5 DEF Bit
    <3>9. PICK z \in Int : z = 0
      OBVIOUS
    <3>11. dinode'[j].nlink = dinode[j].nlink + z
      BY <1>4, <3>1, <3>9
    <3>12. z >= a + b + Bit(old'[p] = j) - Bit(old[p] = j) + Bit(Erased(p, j)') - Bit(Erased(p, j))
      <4>1. ~Erased(p, j) /\ ~Erased(p, j)'
        BY <1>2, <2>3 DEF Erased
      <4> QED
        BY <1>3, <2>3, <3>4, <3>6, <3>9, <4>1, NoneApart DEF Bit
    <3>13. z + Bit(Pending(p)') - Bit(Pending(p)) <= 0
      BY <2>5, <3>9 DEF Bit
    <3>14. dinode'[j].type = "dir" => Cardinality(NamesOf(j)') <= 1
      <4>1. Cardinality(NamesOf(j)) \in Nat
        BY LinkSets
      <4> QED
        BY <1>4, <1>6, <3>1, <3>3, <3>4, <4>1 DEF Links, Bit
    <3>15. calls' = calls
      BY <1>4
    <3>16. Links(j)'
      BY <2>2, <3>3, <3>5, <3>11, <3>12, <3>13, <3>14, <3>15, CountStep
    <3> QED
      BY <3>2, <3>16
  <2>7. \A j \in Inums : Used(p, j)' => dinode'[j].type # "free"
    <3> SUFFICES ASSUME NEW j \in Inums, Used(p, j)' PROVE dinode[j].type # "free"
      BY <1>4
    <3>1. puts'[p] = <<d, l>>
      BY <2>3
    <3>2. j \in {cwd'[p], ofile'[p], ip'[p], dp'[p], old'[p], d, l}
      BY <3>1, UsedTwo
    <3> QED
      BY <1>3, <2>3, <3>2, UsedType, NoneApart
  <2>8. Facts(p)'
    BY <2>3 DEF Facts
  <2>9. /\ \A j \in Inums : lock[j] \in {None, p} \/ \A n \in Names : ent'[j][n] = ent[j][n]
        /\ \A j \in Inums : dinode'[j] = dinode[j]
        /\ \A j \in Inums : inode'[j] \in {inode[j], dinode'[j], Free}
    BY <1>4, <1>5, <2>4 DEF Entered
  <2>10. \A v \in Inums : v \in {cwd'[p], ip'[p], dp'[p], old'[p]} =>
           v \in {cwd[p], ip[p], dp[p], old[p]} \/ dinode[v].nlink >= 1 \/ dinode[v].type = "free"
    BY <2>3, NoneApart
  <2>11. panicked' # "unlink"
    BY <2>1, InodesAssumption DEF LinkInv
  <2> QED
    BY <2>2, <2>6, <2>7, <2>8, <2>9, <2>10, <2>11, LinkStep
<1>9. CASE ent[d][x] # 0
  <2>1. PICK n : n = ent[d][x]
    OBVIOUS
  <2>2. n \in Inums /\ dinode[n].nlink >= 1 /\ dinode[n].type # "free"
    BY <1>9, <2>1, NamedLinked
  <2>3. /\ Get(n) /\ puts' = Set(puts, p, <<n>>) /\ dp' = Set(dp, p, d)
        /\ Goto(p, "linkexists") /\ UNCHANGED <<ent, old, call, path, new>>
    BY <1>3, <1>9, <2>1 DEF LinkEnter, args
  <2>4. Others(p)
    BY <1>2, <1>4, <2>3 DEF Goto, Set, Others, IsFcn, Typed
  <2>5. /\ pc'[p] = "linkexists" /\ call'[p] = "link2" /\ ip'[p] = None /\ dp'[p] = d /\ old'[p] = old[p]
        /\ cwd'[p] = cwd[p] /\ puts'[p] = <<n>> /\ ofile'[p] = ofile[p]
    BY <1>1, <1>2, <1>3, <1>4, <2>3 DEF Goto, Set, IsFcn, Typed
  <2>6. \A j \in Inums : Used(p, j)' => dinode[j].type # "free"
    <3> SUFFICES ASSUME NEW j \in Inums, Used(p, j)' PROVE dinode[j].type # "free"
      OBVIOUS
    <3>1. puts'[p] = <<n>>
      BY <2>5
    <3>2. j \in {cwd'[p], ofile'[p], ip'[p], dp'[p], old'[p], n}
      BY <3>1, UsedOne
    <3> QED
      BY <1>3, <2>2, <2>5, <3>2, UsedType, NoneApart
  <2>7. Facts(p)'
    <3>1. Facts(p)
      BY DEF LinkInv
    <3> QED
      BY <1>4, <2>5, <3>1, PlainFacts
  <2>8. panicked' # "unlink"
    BY <1>2, <2>2, <2>3, GetRight
  <2>9. ~Pending(p)'
    BY <2>5 DEF Pending
  <2>10. \A v \in Inums : v \in {cwd'[p], ip'[p], dp'[p]} => v \in {cwd[p], ip[p], dp[p], old[p]} \/ dinode[v].nlink >= 1
    BY <1>3, <2>5, NoneApart
  <2>11. dinode' = dinode /\ ent' = ent /\ calls' = calls /\ pc[p] # "unlinked" /\ pc'[p] # "unlinked"
         /\ old'[p] = old[p]
    BY <1>2, <1>4, <2>3, <2>5
  <2> QED
    BY <1>5, <2>4, <2>6, <2>7, <2>8, <2>9, <2>10, <2>11, QuietLinks
<1> QED
  BY <1>8, <1>9

\* ialloc() in create() keeps the links right: nothing refers to a free inode.
LEMMA CreateAllocLinks ==
  ASSUME Dots = {}, CacheInv, CacheInv', LinkInv, NEW p \in Procs, CreateAlloc(p)
  PROVE  LinkInv'
<1>1. At(p, "found") /\ call[p] \in Creates /\ CanLock(ip[p]) /\ ~NoType(ip[p]) /\ Load(ip[p])
  BY DEF CreateAlloc
<1>2. /\ Typed /\ ITyped /\ PTyped(p) /\ Local(p)
      /\ panicked = None /\ puts[p] = <<>> /\ pc[p] = "found" /\ put[p] = "lock"
  BY <1>1, AtFacts
<1>3. PICK d \in Inums, x \in Names : d = ip[p] /\ x = Name(p) /\ dp[p] = None /\ old[p] = None
  BY <1>1, <1>2 DEF Local, PTyped, WithIp, WithDp, Parent, Creates, Named, Name, Elements
<1>4. Copy(d) = dinode[d] /\ dinode[d].type # "free" /\ lock[d] = None
  BY <1>1, <1>3, CopyRight DEF NoType, CanLock
<1>5. /\ ent' = ent /\ calls' = calls /\ UNCHANGED <<call, path, new, old, puts, put, cwd, ofile>>
      /\ ent[d][x] = 0
  BY <1>3 DEF CreateAlloc, args, held
<1>6. inode' = [inode EXCEPT ![d] = dinode[d]]
  BY <1>1, <1>3, <1>4 DEF Load
<1>7. Facts(p) /\ dinode[d].type = "dir" /\ call[p] # "unlink"
  <2>1. Facts(p) /\ call[p] \in Parent /\ call[p] # "unlink"
    BY <1>1 DEF LinkInv, Parent, Creates
  <2> QED
    BY <1>2, <1>3, <2>1 DEF Facts
<1>8. CASE FreeInums = {}
  <2>1. panicked' = "ialloc" /\ UNCHANGED <<dinode, ref, ip, dp, lock, pc>>
    BY <1>8 DEF CreateAlloc
  <2>2. Others(p)
    BY <1>2, <1>5, <2>1 DEF Others, IsFcn, Typed
  <2>3. Name(p)' = Name(p)
    BY <1>5 DEF Name
  <2>4. Facts(p)'
    BY <1>2, <1>5, <1>7, <2>1, <2>3 DEF Facts
  <2>5. \A j \in Inums : inode'[j] \in {inode[j], dinode[j], Free}
    BY <1>2, <1>6 DEF ITyped
  <2>6. \A j \in Inums : Used(p, j)' => dinode[j].type # "free"
    <3> SUFFICES ASSUME NEW j \in Inums, Used(p, j)' PROVE dinode[j].type # "free"
      OBVIOUS
    <3>1. Used(p, j)
      BY <1>5, <2>1 DEF Used
    <3> QED
      BY <3>1 DEF LinkInv, InUse
  <2>7. /\ dinode' = dinode /\ ent' = ent /\ old'[p] = old[p] /\ pc'[p] = pc[p] /\ ip'[p] = ip[p]
        /\ calls' = calls /\ (Pending(p)' => Pending(p)) /\ panicked' # "unlink"
    BY <1>5, <2>1 DEF Pending
  <2>8. \A v \in Inums : v \in {cwd'[p], ip'[p], dp'[p]} => v \in {cwd[p], ip[p], dp[p], old[p]} \/ dinode[v].nlink >= 1
    BY <1>5, <2>1
  <2> QED
    BY <2>2, <2>4, <2>5, <2>6, <2>7, <2>8, QuietLinks
<1>9. CASE FreeInums # {}
  <2>1. PICK i : i = Min(FreeInums)
    OBVIOUS
  <2>2. i \in Inums /\ dinode[i].type = "free"
    BY <1>9, <2>1, AllocRight DEF FreeInums
  <2>3. PICK c : c = [type |-> TypeOf(call[p]), nlink |-> 0]
    OBVIOUS
  <2>4. /\ dinode' = [dinode EXCEPT ![i] = c] /\ Get(i)
        /\ dp' = Set(dp, p, d) /\ ip' = Set(ip, p, i) /\ Goto(p, "createnew")
    BY <1>3, <1>9, <2>1, <2>3, Zenon DEF CreateAlloc
  <2>5. Others(p)
    BY <1>2, <1>5, <2>4 DEF Goto, Set, Others, IsFcn, Typed
  <2>6. ip'[p] = i /\ dp'[p] = d /\ pc'[p] = "createnew" /\ puts'[p] = <<>>
    BY <1>2, <1>5, <2>4 DEF Goto, Set, IsFcn, Typed
  <2>7. i # d /\ \A q \in Procs : ~Used(q, i)
    BY <1>7, <2>2 DEF LinkInv, InUse
  <2>8. /\ dinode[i].nlink = 0 /\ Cardinality(NamesOf(i)) = 0
        /\ \A j \in Inums, n \in Names : ent[j][n] # i
    <3>1. ~(dinode[i].nlink >= 1)
      BY <2>2, FreeNoLinks
    <3> QED
      BY <2>2, <3>1, NoLinks
  <2>9. /\ dinode'[i].type = TypeOf(call[p]) /\ dinode'[i].nlink = 0
        /\ \A j \in Inums : j # i => dinode'[j] = dinode[j]
    BY <1>2, <2>2, <2>3, <2>4 DEF ITyped
  <2>10. TypeOf(call[p]) # "free"
    BY <1>1, TypeOfRight
  <2>11. ASSUME NEW j \in Inums PROVE Clean(j)' /\ Links(j)'
    <3>1. Clean(j) /\ Links(j) /\ dinode[j].nlink \in Nat
      BY LinkNums
    <3>2. Clean(j)'
      <4>1. CASE j = i
        BY <1>5, <2>2, <2>9, <2>10, <3>1, <4>1 DEF Clean
      <4>2. CASE j # i
        BY <1>5, <2>9, <3>1, <4>2 DEF Clean
      <4> QED
        BY <4>1, <4>2
    <3>3. PICK z \in Int : z = 0
      OBVIOUS
    <3>4. /\ NamesOf(j)' = NamesOf(j)
          /\ Cardinality(NamesOf(j)') = Cardinality(NamesOf(j)) + z
          /\ Cardinality(Subdirs(j)') = Cardinality(Subdirs(j)) + z
      <4>1. \A e \in Inums : \A n \in Names : ent'[e][n] = ent[e][n]
        BY <1>5
      <4>2. \A e \in Inums : \A n \in Names : ent[e][n] # 0 =>
              (dinode'[ent[e][n]].type = "dir" <=> dinode[ent[e][n]].type = "dir")
        <5> SUFFICES ASSUME NEW e \in Inums, NEW n \in Names, ent[e][n] # 0
                     PROVE  dinode'[ent[e][n]] = dinode[ent[e][n]]
          OBVIOUS
        <5>1. ent[e][n] \in Inums
          BY NamedLinked
        <5> QED
          BY <2>8, <2>9, <5>1
      <4> QED
        BY <3>3, <4>1, <4>2, SameSets
    <3>5. dinode'[j].nlink = dinode[j].nlink + z
      BY <2>8, <2>9, <3>1, <3>3
    <3>6. z >= z + z + Bit(old'[p] = j) - Bit(old[p] = j) + Bit(Erased(p, j)') - Bit(Erased(p, j))
      <4>1. ~Erased(p, j) /\ ~Erased(p, j)' /\ old'[p] = old[p]
        BY <1>2, <1>5, <2>6 DEF Erased
      <4> QED
        BY <3>3, <4>1 DEF Bit
    <3>7. z + Bit(Pending(p)') - Bit(Pending(p)) <= 0
      <4>1. Pending(p)' <=> Pending(p)
        BY <1>2, <1>5, <2>6 DEF Pending
      <4> QED
        BY <3>3, <4>1 DEF Bit
    <3>8. dinode'[j].type = "dir" => Cardinality(NamesOf(j)') <= 1
      BY <2>8, <2>9, <3>1, <3>4 DEF Links
    <3>9. Links(j)'
      BY <1>5, <2>5, <3>4, <3>5, <3>6, <3>7, <3>8, CountStep
    <3> QED
      BY <3>2, <3>9
  <2>12. Facts(p)'
    <3>1. \A q \in Procs : i \notin {cwd[q], ip[q], dp[q], old[q]}
      BY <2>7 DEF Used
    <3>2. \A q \in Procs \ {p} : i \notin {cwd'[q], ip'[q], dp'[q], old'[q]}
      BY <1>2, <2>5, <3>1, OthersSame
    <3>3. Name(p)' = x
      BY <1>3, <1>5 DEF Name
    <3> QED
      BY <1>3, <1>5, <1>7, <2>6, <2>7, <2>9, <3>1, <3>2, <3>3 DEF Facts
  <2>13. \A j \in Inums : Used(p, j)' => dinode'[j].type # "free"
    <3> SUFFICES ASSUME NEW j \in Inums, Used(p, j)', j # i PROVE dinode[j].type # "free"
      BY <2>9, <2>10
    <3>1. j \in {cwd'[p], ofile'[p], ip'[p], dp'[p], old'[p]}
      BY <2>6, UsedZero
    <3> QED
      BY <1>3, <1>5, <2>6, <3>1, UsedType
  <2>14. \A j \in Inums :
           \/ dinode'[j] = dinode[j]
           \/ dinode'[j].type = dinode[j].type /\ j \in {ip[p], dp[p], old[p]}
           \/ dinode[j].type = "free"
           \/ \A q \in Procs : q # p => ~Used(q, j)
    BY <2>2, <2>9
  <2>15. \A v \in Inums : v \in {cwd'[p], ip'[p], dp'[p], old'[p]} =>
           v \in {cwd[p], ip[p], dp[p], old[p]} \/ dinode[v].nlink >= 1 \/ dinode[v].type = "free"
    BY <1>3, <1>5, <2>2, <2>6
  <2>16. /\ \A j \in Inums : lock[j] \in {None, p} \/ \A n \in Names : ent'[j][n] = ent[j][n]
         /\ \A j \in Inums : inode'[j] \in {inode[j], dinode'[j], Free}
    BY <1>2, <1>5, <1>6, <2>7, <2>9 DEF ITyped
  <2>17. panicked' # "unlink"
    BY <1>2, <2>2, <2>4, GetRight
  <2> QED
    BY <2>5, <2>11, <2>12, <2>13, <2>14, <2>15, <2>16, <2>17, LinkStep
<1> QED
  BY <1>8, <1>9

\* The end of create() keeps the links right: the new inode has the link of its
\* name, and the directory one for the entry ".." of a new directory.
LEMMA CreateNewLinks ==
  ASSUME Dots = {}, CacheInv, CacheInv', LinkInv, NEW p \in Procs, CreateNew(p)
  PROVE  LinkInv'
<1>1. PICK i, d, x : i = ip[p] /\ d = dp[p] /\ x = Name(p)
  OBVIOUS
<1>2. NewMade(p, i, d, x)
  BY <1>1, CreateNewEffect
<1>3. /\ i \in Inums /\ d \in Inums /\ x \in Names /\ i # d /\ old[p] = None
      /\ PTyped(p) /\ ITyped /\ pc[p] = "createnew" /\ call[p] \in Creates /\ panicked = None
      /\ lock[d] = p /\ Others(p)
      /\ puts'[p] = <<d>> /\ dp'[p] = None /\ pc'[p] = "created"
      /\ UNCHANGED <<call, path, new, ip, old, cwd, ofile, calls, panicked>>
  BY <1>2 DEF NewMade, Elements
<1>4. Entered(d, x, i)
  BY <1>2 DEF NewMade, Entered
<1>5. PICK m, e \in Copies :
        /\ m.type = dinode[i].type /\ m.nlink = 1
        /\ e.type = dinode[d].type
        /\ e.nlink = dinode[d].nlink + (IF call[p] = "mkdir" THEN 1 ELSE 0)
        /\ dinode' = [dinode EXCEPT ![i] = m, ![d] = e]
        /\ inode' = [inode EXCEPT ![i] = m, ![d] = e]
  BY <1>2, Zenon DEF NewMade
<1>6. /\ dinode'[i] = m /\ dinode'[d] = e /\ inode'[i] = m /\ inode'[d] = e
      /\ \A j \in Inums : j # i /\ j # d => dinode'[j] = dinode[j] /\ inode'[j] = inode[j]
  BY <1>3, <1>5 DEF ITyped
<1>7. \A j \in Inums : dinode'[j].type = dinode[j].type
  BY <1>5, <1>6
<1>8. /\ dinode[d].type = "dir" /\ dinode[i].type = TypeOf(call[p]) /\ dinode[i].nlink = 0
      /\ ent[d][x] = 0
  <2>1. Facts(p)
    BY DEF LinkInv
  <2> QED
    BY <1>1, <1>3, <2>1 DEF Facts
<1>9. /\ TypeOf(call[p]) # "free" /\ (TypeOf(call[p]) = "dir" <=> call[p] = "mkdir")
      /\ i # 0 /\ \A j \in Inums : j # 0
  BY <1>3, TypeOfRight DEF Inums
<1>10. Cardinality(NamesOf(i)) = 0
  <2>1. ~(dinode[i].nlink >= 1)
    BY <1>8
  <2> QED
    BY <1>3, <2>1, NoLinks
<1>11. SameDirs
  BY <1>7, NamedLinked DEF SameDirs
<1>12. call[p] # "link" /\ (Pending(p) <=> call[p] = "mkdir") /\ ~Pending(p)'
  BY <1>3 DEF Pending, Creates
<1>13. ASSUME NEW j \in Inums PROVE Clean(j)' /\ Links(j)'
  <2>1. Clean(j) /\ Links(j) /\ dinode[j].nlink \in Nat
    BY LinkNums
  <2>2. Clean(j)'
    BY <1>4, <1>6, <1>7, <1>8, <1>9, <2>1 DEF Clean, Entered
  <2>3. PICK a \in Int : /\ a = Bit(i = j) - Bit(ent[d][x] = j)
                        /\ Cardinality(NamesOf(j)') = Cardinality(NamesOf(j)) + a
    BY <1>3, <1>4, NamesDelta
  <2>4. (j = i => a = 1) /\ (j # i => a = 0)
    BY <1>8, <1>9, <2>3 DEF Bit
  <2>5. PICK b \in Int :
          /\ j # d => b = 0
          /\ j = d => b = Bit(i # 0 /\ dinode'[i].type = "dir")
                         - Bit(ent[d][x] # 0 /\ dinode[ent[d][x]].type = "dir")
          /\ Cardinality(Subdirs(j)') = Cardinality(Subdirs(j)) + b
    BY <1>3, <1>4, <1>11, SubdirsDelta
  <2>6. PICK y \in Int : y = IF call[p] = "mkdir" THEN 1 ELSE 0
    OBVIOUS
  <2>7. j = d => b = y
    BY <1>3, <1>7, <1>8, <1>9, <2>5, <2>6 DEF Bit
  <2>8. PICK k \in Int : k = IF j = i THEN 1 ELSE IF j = d THEN y ELSE 0
    OBVIOUS
  <2>9. dinode'[j].nlink = dinode[j].nlink + k
    <3>1. CASE j = i
      BY <1>5, <1>6, <1>8, <2>8, <3>1
    <3>2. CASE j = d
      <4>1. e.nlink = dinode[d].nlink + y
        BY <1>5, <2>6
      <4> QED
        BY <1>3, <1>6, <2>8, <3>2, <4>1
    <3>3. CASE j # i /\ j # d
      BY <1>6, <2>1, <2>8, <3>3
    <3> QED
      BY <3>1, <3>2, <3>3
  <2>10. k >= a + b + Bit(old'[p] = j) - Bit(old[p] = j) + Bit(Erased(p, j)') - Bit(Erased(p, j))
    <3>1. ~Erased(p, j) /\ ~Erased(p, j)' /\ old'[p] = old[p]
      BY <1>3 DEF Erased
    <3> QED
      BY <1>3, <2>4, <2>5, <2>7, <2>8, <3>1 DEF Bit
  <2>11. Bit(Pending(p)') = 0 /\ Bit(Pending(p)) = y
    BY <1>12, <2>6 DEF Bit
  <2>12. \/ k + Bit(Pending(p)') - Bit(Pending(p)) <= 0
         \/ k + Bit(Pending(p)') - Bit(Pending(p)) <= 1 /\ dinode[j].nlink = 0
    BY <1>8, <2>6, <2>8, <2>11
  <2>13. dinode'[j].type = "dir" => Cardinality(NamesOf(j)') <= 1
    <3>1. Cardinality(NamesOf(j)) \in Nat
      BY LinkSets
    <3> QED
      BY <1>7, <1>10, <2>1, <2>3, <2>4, <3>1 DEF Links
  <2>14. calls' = calls
    BY <1>3
  <2>15. Links(j)'
    BY <1>3, <2>3, <2>5, <2>9, <2>10, <2>12, <2>13, <2>14, CountStep
  <2> QED
    BY <2>2, <2>15
<1>14. Facts(p)'
  BY <1>3 DEF Facts
<1>15. \A j \in Inums : Used(p, j)' => dinode'[j].type # "free"
  <2> SUFFICES ASSUME NEW j \in Inums, Used(p, j)' PROVE dinode[j].type # "free"
    BY <1>7
  <2>1. puts'[p] = <<d>>
    BY <1>3
  <2>2. j \in {cwd'[p], ofile'[p], ip'[p], dp'[p], old'[p], d}
    BY <2>1, UsedOne
  <2> QED
    BY <1>1, <1>3, <2>2, UsedType, NoneApart
<1>16. \A j \in Inums :
         \/ dinode'[j] = dinode[j]
         \/ dinode'[j].type = dinode[j].type /\ j \in {ip[p], dp[p], old[p]}
  BY <1>1, <1>6, <1>7
<1>17. \A v \in Inums : v \in {cwd'[p], ip'[p], dp'[p], old'[p]} =>
         v \in {cwd[p], ip[p], dp[p], old[p]} \/ dinode[v].nlink >= 1 \/ dinode[v].type = "free"
  BY <1>3, NoneApart
<1>18. /\ \A j \in Inums : lock[j] \in {None, p} \/ \A n \in Names : ent'[j][n] = ent[j][n]
       /\ \A j \in Inums : inode'[j] \in {inode[j], dinode'[j], Free}
  BY <1>3, <1>4, <1>6 DEF Entered
<1>19. panicked' # "unlink"
  BY <1>3 DEF LinkInv
<1> QED
  BY <1>3, <1>13, <1>14, <1>15, <1>16, <1>17, <1>18, <1>19, LinkStep

\* unlink() keeps the links right: the link of the name that is erased is still
\* counted, for this call is to take it off.
LEMMA UnlinkLinks ==
  ASSUME Dots = {}, CacheInv, CacheInv', LinkInv, NEW p \in Procs, Unlink(p)
  PROVE  LinkInv'
<1>1. PICK i, d, x : i = ip[p] /\ d = dp[p] /\ x = Name(p)
  OBVIOUS
<1>2. UnlinkDone(p, i, d, x)
  BY <1>1, UnlinkEffect
<1>3. /\ i \in Inums /\ d \in Inums /\ x \in Names /\ i # d /\ old[p] = None
      /\ PTyped(p) /\ ITyped /\ pc[p] = "unlink" /\ call[p] = "unlink" /\ panicked = None
      /\ lock[d] = p /\ Others(p) /\ CanLock(i)
      /\ UNCHANGED <<call, path, new, old, put, cwd, ofile, calls>>
  BY <1>2 DEF UnlinkDone, Elements
<1>4. ent[d][x] = i /\ dinode[d].type = "dir" /\ i # 0 /\ \A j \in Inums : j # 0
  <2>1. Facts(p)
    BY DEF LinkInv
  <2> QED
    BY <1>1, <1>3, <2>1 DEF Facts, Inums
<1>5. dinode[i].nlink >= 1 /\ dinode[i].type # "free"
  BY <1>3, <1>4, NamedLinked
<1>6. ~Pending(p) /\ ~Pending(p)'
  BY <1>3 DEF Pending
<1>7. None # "unlink"
  BY InodesAssumption DEF Panics
<1>8. CASE /\ Load(i) /\ ip'[p] = None /\ puts'[p] = <<i>> /\ pc'[p] = "unlinkbad"
           /\ UNCHANGED <<dinode, ent, dp, panicked>>
  <2>1. \A j \in Inums : inode'[j] \in {inode[j], dinode[j], Free}
    BY <1>3, <1>8, LoadCopy
  <2>2. Facts(p)'
    BY <1>3, <1>8 DEF Facts
  <2>3. \A j \in Inums : Used(p, j)' => dinode[j].type # "free"
    <3> SUFFICES ASSUME NEW j \in Inums, Used(p, j)' PROVE dinode[j].type # "free"
      OBVIOUS
    <3>1. puts'[p] = <<i>>
      BY <1>8
    <3>2. j \in {cwd'[p], ofile'[p], ip'[p], dp'[p], old'[p], i}
      BY <3>1, UsedOne
    <3> QED
      BY <1>3, <1>5, <1>8, <3>2, UsedType, NoneApart
  <2>4. \A v \in Inums : v \in {cwd'[p], ip'[p], dp'[p]} => v \in {cwd[p], ip[p], dp[p], old[p]} \/ dinode[v].nlink >= 1
    BY <1>3, <1>8, NoneApart
  <2>5. /\ dinode' = dinode /\ ent' = ent /\ calls' = calls /\ old'[p] = old[p]
        /\ pc[p] # "unlinked" /\ pc'[p] # "unlinked" /\ panicked' # "unlink"
    BY <1>3, <1>7, <1>8
  <2> QED
    BY <1>3, <1>6, <2>1, <2>2, <2>3, <2>4, <2>5, QuietLinks
<1>9. CASE /\ dinode[i].type = "dir" => \A n \in Names : ent[i][n] = 0
           /\ \E e \in Copies :
                /\ e.type = dinode[d].type
                /\ e.nlink = dinode[d].nlink - (IF dinode[i].type = "dir" THEN 1 ELSE 0)
                /\ dinode' = [dinode EXCEPT ![d] = e]
                /\ inode' = [inode EXCEPT ![d] = e, ![i] = dinode[i]]
           /\ \A j \in Inums : \A n \in Names :
                ent'[j][n] = IF j = d /\ n = x THEN 0 ELSE ent[j][n]
           /\ puts'[p] = <<d>> /\ dp'[p] = None /\ pc'[p] = "unlinked"
           /\ UNCHANGED <<ip, panicked>>
  <2>1. PICK e \in Copies :
          /\ e.type = dinode[d].type
          /\ e.nlink = dinode[d].nlink - (IF dinode[i].type = "dir" THEN 1 ELSE 0)
          /\ dinode' = [dinode EXCEPT ![d] = e]
          /\ inode' = [inode EXCEPT ![d] = e, ![i] = dinode[i]]
    BY <1>9
  <2>2. Entered(d, x, 0)
    BY <1>9 DEF Entered
  <2>3. /\ dinode'[d] = e /\ inode'[d] = e /\ inode'[i] = dinode[i] /\ dinode'[i] = dinode[i]
        /\ \A j \in Inums : j # d => dinode'[j] = dinode[j]
        /\ \A j \in Inums : j # i /\ j # d => inode'[j] = inode[j]
    BY <1>3, <2>1 DEF ITyped
  <2>4. \A j \in Inums : dinode'[j].type = dinode[j].type
    BY <2>1, <2>3
  <2>5. SameDirs
    BY <2>4, NamedLinked DEF SameDirs
  <2>6. ASSUME NEW j \in Inums PROVE Clean(j)' /\ Links(j)'
    <3>1. Clean(j) /\ Links(j) /\ dinode[j].nlink \in Nat
      BY LinkNums
    <3>2. Clean(j)'
      BY <1>4, <2>2, <2>3, <2>4, <3>1 DEF Clean, Entered
    <3>3. PICK a \in Int : /\ a = Bit(0 = j) - Bit(ent[d][x] = j)
                          /\ Cardinality(NamesOf(j)') = Cardinality(NamesOf(j)) + a
      BY <1>3, <2>2, NamesDelta
    <3>4. (j = i => a = -1) /\ (j # i => a = 0)
      BY <1>4, <3>3 DEF Bit
    <3>5. PICK b \in Int :
            /\ j # d => b = 0
            /\ j = d => b = Bit(0 # 0 /\ dinode'[0].type = "dir")
                           - Bit(ent[d][x] # 0 /\ dinode[ent[d][x]].type = "dir")
            /\ Cardinality(Subdirs(j)') = Cardinality(Subdirs(j)) + b
      BY <1>3, <2>2, <2>5, SubdirsDelta
    <3>6. PICK k \in Int : k = IF j = d /\ dinode[i].type = "dir" THEN -1 ELSE 0
      OBVIOUS
    <3>7. b = k
      BY <1>4, <3>5, <3>6 DEF Bit
    <3>8. dinode'[j].nlink = dinode[j].nlink + k
      BY <2>1, <2>3, <3>1, <3>6
    <3>9. k >= a + b + Bit(old'[p] = j) - Bit(old[p] = j) + Bit(Erased(p, j)') - Bit(Erased(p, j))
      <4>1. ~Erased(p, j) /\ (Erased(p, j)' <=> j = i) /\ old'[p] = old[p]
        BY <1>1, <1>3, <1>9 DEF Erased
      <4> QED
        BY <3>4, <3>7, <4>1 DEF Bit
    <3>10. k + Bit(Pending(p)') - Bit(Pending(p)) <= 0
      BY <1>6, <3>6 DEF Bit
    <3>11. dinode'[j].type = "dir" => Cardinality(NamesOf(j)') <= 1
      <4>1. Cardinality(NamesOf(j)) \in Nat
        BY LinkSets
      <4> QED
        BY <2>4, <3>1, <3>3, <3>4, <4>1 DEF Links
    <3>12. calls' = calls
      BY <1>3
    <3>13. Links(j)'
      BY <1>3, <3>3, <3>5, <3>8, <3>9, <3>10, <3>11, <3>12, CountStep
    <3> QED
      BY <3>2, <3>13
  <2>7. Facts(p)'
    BY <1>3, <1>9 DEF Facts
  <2>8. \A j \in Inums : Used(p, j)' => dinode'[j].type # "free"
    <3> SUFFICES ASSUME NEW j \in Inums, Used(p, j)' PROVE dinode[j].type # "free"
      BY <2>4
    <3>1. puts'[p] = <<d>>
      BY <1>9
    <3>2. j \in {cwd'[p], ofile'[p], ip'[p], dp'[p], old'[p], d}
      BY <3>1, UsedOne
    <3> QED
      BY <1>1, <1>3, <1>9, <3>2, UsedType, NoneApart
  <2>9. \A j \in Inums :
          \/ dinode'[j] = dinode[j]
          \/ dinode'[j].type = dinode[j].type /\ j \in {ip[p], dp[p], old[p]}
    BY <1>1, <2>3, <2>4
  <2>10. \A v \in Inums : v \in {cwd'[p], ip'[p], dp'[p], old'[p]} =>
           v \in {cwd[p], ip[p], dp[p], old[p]} \/ dinode[v].nlink >= 1 \/ dinode[v].type = "free"
    BY <1>3, <1>9, NoneApart
  <2>11. /\ \A j \in Inums : lock[j] \in {None, p} \/ \A n \in Names : ent'[j][n] = ent[j][n]
         /\ \A j \in Inums : inode'[j] \in {inode[j], dinode'[j], Free}
    BY <1>3, <2>2, <2>3 DEF Entered
  <2>12. panicked' # "unlink"
    BY <1>3, <1>7, <1>9
  <2> QED
    BY <1>3, <2>6, <2>7, <2>8, <2>9, <2>10, <2>11, <2>12, LinkStep
<1>10. ~(dinode[i].nlink < 1)
  <2>1. dinode[i].nlink \in Nat
    BY <1>3, LinkNums
  <2> QED
    BY <1>5, <2>1
<1> QED
  BY <1>2, <1>8, <1>9, <1>10, Zenon DEF UnlinkDone

\* The first inodes and entries.
LEMMA InitDisk ==
  ASSUME Init, NEW i \in Inums
  PROVE  /\ i = 1 => dinode[i] = [type |-> "dir", nlink |-> 2]
         /\ i = 2 => dinode[i] = [type |-> "dir", nlink |-> 1]
         /\ i = 3 => dinode[i] = [type |-> "file", nlink |-> 1]
         /\ i \notin {1, 2, 3} => dinode[i] = Free
         /\ \A n \in Names : ent[i][n] # 0 => (i = 1 /\ n = "a" /\ ent[i][n] = 2)
                                             \/ (i = 2 /\ n = "b" /\ ent[i][n] = 3)
<1>1. dinode[i] = CASE i = 1 -> [type |-> "dir", nlink |-> 2]
                    [] i = 2 -> [type |-> "dir", nlink |-> 1]
                    [] i = 3 -> [type |-> "file", nlink |-> 1]
                    [] OTHER -> Free
  BY DEF Init
<1>2. /\ i = 1 => dinode[i] = [type |-> "dir", nlink |-> 2]
      /\ i = 2 => dinode[i] = [type |-> "dir", nlink |-> 1]
      /\ i = 3 => dinode[i] = [type |-> "file", nlink |-> 1]
      /\ i \notin {1, 2, 3} => dinode[i] = Free
  BY <1>1
<1>3. ASSUME NEW n \in Names, ent[i][n] # 0
      PROVE  (i = 1 /\ n = "a" /\ ent[i][n] = 2) \/ (i = 2 /\ n = "b" /\ ent[i][n] = 3)
  <2>1. ent[i][n] = CASE i = 1 /\ n \in {".", ".."} -> 1 [] i = 1 /\ n = "a" -> 2
                      [] i = 2 /\ n = "." -> 2 [] i = 2 /\ n = ".." -> 1 [] i = 2 /\ n = "b" -> 3
                      [] OTHER -> 0
    BY DEF Init
  <2>2. n # "." /\ n # ".."
    BY InodesAssumption
  <2> QED
    BY <1>3, <2>1, <2>2
<1> QED
  BY <1>2, <1>3

\* A set with one element at most.
LEMMA CountOne ==
  ASSUME NEW A, NEW x, A \in SUBSET {x}
  PROVE  Cardinality(A) \in Nat /\ Cardinality(A) <= 1
<1>1. IsFiniteSet({x}) /\ Cardinality({x}) = 1
  BY FS_Singleton
<1> QED
  BY <1>1, CountSome

\* The initial links are right.
LEMMA InitLinks ==
  ASSUME Init
  PROVE  LinkInv
<1>1. ASSUME NEW p \in Procs
      PROVE  /\ pc[p] = "idle" /\ call[p] = None /\ ip[p] = None /\ dp[p] = None /\ old[p] = None
             /\ puts[p] = <<>> /\ cwd[p] \in {1, 2} /\ ofile[p] \in {3, None}
  BY DEF Init
<1>2. panicked = None /\ calls = 0 /\ \A i \in Inums : inode[i] = Free
  BY DEF Init
<1>3. 1 \in Inums /\ 2 \in Inums /\ 3 \in Inums
  BY InodesAssumption DEF Inums
<1>4. dinode[1].type = "dir" /\ dinode[2].type = "dir" /\ dinode[3].type = "file"
  BY <1>3, InitDisk
<1>5. InUse
  <2> SUFFICES ASSUME NEW p \in Procs, NEW i \in Inums, Used(p, i) PROVE dinode[i].type # "free"
    BY DEF InUse
  <2>1. ~Nth(puts[p], 1, i) /\ ~Nth(puts[p], 2, i)
    BY <1>1 DEF Nth
  <2>2. i \in {1, 2, 3}
    BY <1>1, <2>1, NoneApart DEF Used
  <2> QED
    BY <1>4, <2>2
<1>6. ASSUME NEW i \in Inums PROVE Clean(i)
  BY InitDisk DEF Clean, Free
<1>7. ASSUME NEW i \in Inums PROVE Links(i)
  <2>1. Olds(i) = {} /\ {p \in Procs : Erased(p, i)} = {} /\ {p \in Procs : Pending(p)} = {}
    BY <1>1, NoneApart DEF Olds, Erased, Pending, Ops
  <2>2. Cardinality({}) = 0
    BY FS_EmptySet
  <2>3. /\ Cardinality(Olds(i)) = 0 /\ Cardinality({p \in Procs : Erased(p, i)}) = 0
        /\ Cardinality({p \in Procs : Pending(p)}) = 0
    BY <2>1, <2>2, Zenon
  <2>4. PICK A, B : A = NamesOf(i) /\ B = Subdirs(i)
    OBVIOUS
  <2>5. /\ A = {z \in Inums \X Names : ent[z[1]][z[2]] = i}
        /\ B = {n \in Names : ent[i][n] # 0 /\ dinode[ent[i][n]].type = "dir"}
        /\ i # 0
    BY <2>4 DEF NamesOf, Subdirs, Inums
  <2>6. /\ i \notin {2, 3} => A = {}
        /\ i = 2 => A \in SUBSET {<<1, "a">>}
        /\ i = 3 => A \in SUBSET {<<2, "b">>}
    <3>1. \A z \in A : (i = 2 /\ z = <<1, "a">>) \/ (i = 3 /\ z = <<2, "b">>)
      BY <2>5, InitDisk
    <3> QED
      BY <3>1
  <2>7. (i # 1 => B = {}) /\ (i = 1 => B \in SUBSET {"a"})
    <3>1. \A n \in B : i = 1 /\ n = "a"
      BY <1>4, <2>5, InitDisk
    <3> QED
      BY <3>1
  <2>8. /\ Cardinality(A) \in Nat /\ Cardinality(A) <= 1 /\ (i \notin {2, 3} => Cardinality(A) = 0)
        /\ Cardinality(B) \in Nat /\ Cardinality(B) <= 1 /\ (i # 1 => Cardinality(B) = 0)
    BY <2>2, <2>6, <2>7, CountOne
  <2>9. PICK a, b \in Nat :
          /\ a = Cardinality(NamesOf(i)) /\ b = Cardinality(Subdirs(i))
          /\ a <= 1 /\ (i \notin {2, 3} => a = 0) /\ b <= 1 /\ (i # 1 => b = 0)
    BY <2>4, <2>8
  <2>10. dinode[i].nlink >= a + Bit(i = 1) + b /\ dinode[i].nlink <= 2 /\ dinode[i].nlink \in Nat
    BY <2>9, InitDisk DEF Bit, Free
  <2>11. Bit(i = 1) \in Nat
    BY DEF Bit
  <2>12. dinode[i].nlink >= a + Bit(i = 1) + b + 0 + 0 /\ dinode[i].nlink + 0 <= 2 + 0
    BY <2>10, <2>11
  <2> QED
    BY <1>2, <2>3, <2>9, <2>12 DEF Links
<1>8. \A p \in Procs : Facts(p)
  BY <1>1 DEF Facts
<1>9. Free \in Dinodes /\ None # "unlink"
  BY InodesAssumption DEF Free, Dinodes, Panics
<1> QED
  BY <1>2, <1>5, <1>6, <1>7, <1>8, <1>9 DEF LinkInv

\* Every step keeps the links right.
LEMMA NextLinks ==
  ASSUME Dots = {}, CacheInv, LinkInv, [Next]_vars
  PROVE  LinkInv'
<1>1. CacheInv'
  BY NextCache
<1>2. CASE UNCHANGED vars
  <2>1. /\ UNCHANGED <<dinode, ent, inode, calls, panicked>>
        /\ UNCHANGED <<pc, call, path, ip, dp, old, puts, put, cwd, ofile>>
    BY <1>2 DEF vars, disk, args, held
  <2>2. InUse' /\ panicked' # "unlink"
    BY <2>1 DEF LinkInv, InUse, Used
  <2>3. ASSUME NEW i \in Inums PROVE inode'[i] \in Dinodes /\ Clean(i)' /\ Links(i)'
    <3>1. inode[i] \in Dinodes /\ Clean(i) /\ Links(i)
      BY DEF LinkInv
    <3>2. /\ NamesOf(i)' = NamesOf(i) /\ Subdirs(i)' = Subdirs(i) /\ Olds(i)' = Olds(i)
          /\ {p \in Procs : Erased(p, i)}' = {p \in Procs : Erased(p, i)}
          /\ {p \in Procs : Pending(p)}' = {p \in Procs : Pending(p)}
      BY <2>1 DEF NamesOf, Subdirs, Olds, Erased, Pending
    <3>3. Links(i)'
      BY <2>1, <3>1, <3>2 DEF Links
    <3> QED
      BY <2>1, <3>1, <3>3 DEF Clean
  <2>4. ASSUME NEW p \in Procs PROVE Facts(p)'
    <3>1. Facts(p)
      BY DEF LinkInv
    <3> QED
      BY <2>1, <3>1 DEF Facts, Name
  <2> QED
    BY <2>2, <2>3, <2>4 DEF LinkInv
<1>3. CASE Next
  <2>1. PICK p \in Procs :
          \/ \E op \in Ops \ {"link"}, from \in Paths : Begin(p, op, from, <<>>)
          \/ \E from \in Paths, to \in Paths : Begin(p, "link", from, to)
          \/ Step(p) \/ Iput(p)
    BY <1>3, Zenon DEF Next
  <2>2. CASE \E op \in Ops \ {"link"}, from \in Paths : Begin(p, op, from, <<>>)
    BY <1>1, <2>2, BeginLinks
  <2>3. CASE \E from \in Paths, to \in Paths : Begin(p, "link", from, to)
    <3>1. "link" \in Ops
      BY DEF Ops
    <3> QED
      BY <1>1, <2>3, <3>1, BeginLinks
  <2>4. CASE Iput(p)
    BY <1>1, <2>4, IputLockLinks, IputEndLinks, Zenon DEF Iput
  <2>5. CASE Step(p)
    BY <1>1, <2>5, NamexLinks, NamexEndLinks, ChdirLinks, CloseLinks, OpenLinks, CreateFoundLinks,
       CreateOldLinks, CreateAllocLinks, CreateNewLinks, CreatedLinks, UnlinkFoundLinks, UnlinkLinks,
       UnlinkBadLinks, UnlinkedLinks, LinkLinks, LinkEnterLinks, LinkBadLinks, Zenon DEF Step
  <2> QED
    BY <2>1, <2>2, <2>3, <2>4, <2>5, Zenon
<1> QED
  BY <1>2, <1>3

\* The numbers of links have their bound, and so everything its type.
LEMMA AllTyped ==
  ASSUME CacheInv, LinkInv
  PROVE  TypeOK
<1>1. Typed /\ ITyped /\ RefBound
  BY DEF CacheInv, Typed
<1>2. ASSUME NEW i \in Inums PROVE dinode[i] \in Dinodes /\ inode[i] \in Dinodes
  <2>1. dinode[i] \in Copies /\ dinode[i].nlink \in Nat /\ dinode[i].nlink <= 2 + calls
    BY LinkNums
  <2>2. calls \in 0 .. MaxCalls
    BY <1>1 DEF ITyped
  <2>3. dinode[i].nlink \in 0 .. NInodes + MaxCalls
    BY <2>1, <2>2, InodesAssumption
  <2> QED
    BY <2>1, <2>3 DEF LinkInv, Copies, Dinodes, Kinds
<1>3. dinode \in [Inums -> Dinodes] /\ inode \in [Inums -> Dinodes]
  BY <1>1, <1>2 DEF ITyped
<1>4. ref \in [Inums -> 0 .. 8 * Cardinality(Procs)]
  BY <1>1 DEF ITyped, RefBound
<1>5. /\ ent \in [Inums -> [Names \cup {".", ".."} -> 0 .. NInodes]] /\ valid \in [Inums -> BOOLEAN]
      /\ lock \in [Inums -> Procs \cup {None}] /\ calls \in 0 .. MaxCalls
  BY <1>1 DEF ITyped, EntNames
<1>6. \A p \in Procs : PTyped(p)
  BY <1>1 DEF Typed
<1>7. /\ pc \in [Procs -> Locking \cup {"idle", "created", "unlinkbad", "unlinked", "linkexists",
                                        "linkbad"}]
      /\ call \in [Procs -> Ops \cup {"link2", None}]
  <2>1. IsFcn(pc, Procs) /\ IsFcn(call, Procs)
    BY <1>1 DEF Typed
  <2> QED
    BY <1>6, <2>1 DEF PTyped, Points, IsFcn
<1>8. /\ ip \in [Procs -> Inums \cup {None}] /\ dp \in [Procs -> Inums \cup {None}]
      /\ old \in [Procs -> Inums \cup {None}]
  <2>1. IsFcn(ip, Procs) /\ IsFcn(dp, Procs) /\ IsFcn(old, Procs)
    BY <1>1 DEF Typed
  <2> QED
    BY <1>6, <2>1 DEF PTyped, IsFcn
<1>9. /\ cwd \in [Procs -> Inums] /\ ofile \in [Procs -> Inums \cup {None}]
      /\ put \in [Procs -> {"lock", "free", "unref"}]
  <2>1. IsFcn(cwd, Procs) /\ IsFcn(ofile, Procs) /\ IsFcn(put, Procs)
    BY <1>1 DEF Typed
  <2> QED
    BY <1>6, <2>1 DEF PTyped, IsFcn
<1> QED
  BY <1>3, <1>4, <1>5, <1>7, <1>8, <1>9 DEF TypeOK

\* The invariants hold in every state, for path names without "." and "..".
LEMMA LinksAlways ==
  ASSUME Dots = {}
  PROVE  Spec => [](CacheInv /\ LinkInv)
<1>1. Init => CacheInv /\ LinkInv
  BY InitCache, InitLinks
<1>2. CacheInv /\ LinkInv /\ [Next]_vars => CacheInv' /\ LinkInv'
  BY NextCache, NextLinks
<1> QED
  BY <1>1, <1>2, PTL DEF Spec

\* The inode cache counts its users exactly and agrees with the disk, and every
\* number of links stays within what the calls can make.
THEOREM CacheIsSound ==
  ASSUME Dots = {}
  PROVE  Spec => []CacheSound
<1>1. CacheInv /\ LinkInv => CacheSound
  <2> SUFFICES ASSUME CacheInv, LinkInv PROVE CacheSound
    OBVIOUS
  <2>1. RefExact
    BY DEF CacheInv, RefEq, RefSum, RefExact
  <2>2. CacheCoherent
    BY CopyRight DEF CacheCoherent, CanLock, Sound
  <2> QED
    BY <2>1, <2>2, AllTyped DEF CacheSound
<1> QED
  BY <1>1, LinksAlways, PTL

\* What is in use stays: whatever is unlinked meanwhile, an inode that a process
\* has open, is in, is about to lock or that a directory names is allocated.
THEOREM InUseStays ==
  ASSUME Dots = {}
  PROVE  Spec => []InUseAllocated
<1>1. CacheInv /\ LinkInv => InUseAllocated
  <2> SUFFICES ASSUME CacheInv, LinkInv PROVE InUseAllocated
    OBVIOUS
  <2>1. \A p \in Procs : PTyped(p)
    BY DEF CacheInv, Typed
  <2>2. ASSUME NEW p \in Procs, puts[p] = <<>>, Wants(p) # None, CanLock(Wants(p))
        PROVE  ~NoType(Wants(p))
    <3>1. Wants(p) \in {ip[p], old[p]} /\ Wants(p) \in Inums
      BY <2>1, <2>2 DEF Wants, PTyped
    <3>2. PICK i \in Inums : i = Wants(p)
      BY <3>1
    <3>3. dinode[i].type # "free"
      BY <3>1, <3>2, UsedType
    <3>4. Copy(i) = dinode[i]
      BY <2>2, <3>2, CopyRight
    <3> QED
      BY <3>2, <3>3, <3>4 DEF NoType
  <2>3. \A p \in Procs : \A i \in {cwd[p], ofile[p]} \ {None} : dinode[i].type # "free"
    <3> SUFFICES ASSUME NEW p \in Procs, NEW i \in {cwd[p], ofile[p]} \ {None}
                 PROVE  dinode[i].type # "free"
      OBVIOUS
    <3>1. i \in Inums
      BY <2>1 DEF PTyped
    <3> QED
      BY <3>1, UsedType
  <2>4. \A d \in Inums, n \in Names : ent[d][n] # 0 => dinode[ent[d][n]].type # "free"
    BY NamedLinked
  <2> QED
    BY <2>2, <2>3, <2>4 DEF InUseAllocated, LinkInv
<1> QED
  BY <1>1, LinksAlways, PTL

\* nlink counts every name of an inode and the names that a link() has still to
\* make or to take back, and a directory has one name.
THEOREM LinksAreCounted ==
  ASSUME Dots = {}
  PROVE  Spec => []LinksCounted
<1>1. CacheInv /\ LinkInv => LinksCounted
  <2> SUFFICES ASSUME CacheInv, LinkInv, NEW i \in Inums
               PROVE  /\ dinode[i].nlink >= Cardinality(NamesOf(i)) + Cardinality({p \in Procs : old[p] = i})
                      /\ dinode[i].type = "dir" => Cardinality(NamesOf(i)) <= 1
    BY DEF LinksCounted
  <2>1. Links(i) /\ dinode[i].nlink \in Nat
    BY LinkNums
  <2>2. /\ Cardinality(NamesOf(i)) \in Nat /\ Cardinality(Subdirs(i)) \in Nat
        /\ Cardinality(Olds(i)) \in Nat /\ Cardinality({p \in Procs : Erased(p, i)}) \in Nat
        /\ Bit(i = 1) \in Nat
    BY LinkSets DEF Bit
  <2>3. PICK a, b, c, e, g \in Nat :
          /\ a = Cardinality(NamesOf(i)) /\ b = Cardinality(Subdirs(i)) /\ c = Cardinality(Olds(i))
          /\ e = Cardinality({p \in Procs : Erased(p, i)}) /\ g = Bit(i = 1)
    BY <2>2, Zenon
  <2>4. dinode[i].nlink >= a + g + b + c + e
    BY <2>1, <2>3 DEF Links
  <2>5. dinode[i].nlink >= a + c
    BY <2>1, <2>4
  <2>6. Olds(i) = {p \in Procs : old[p] = i}
    BY DEF Olds
  <2>7. dinode[i].nlink >= Cardinality(NamesOf(i)) + Cardinality({p \in Procs : old[p] = i})
    BY <2>3, <2>5, <2>6, Zenon
  <2> QED
    BY <2>1, <2>7 DEF Links
<1> QED
  BY <1>1, LinksAlways, PTL
=============================================================================
