------------------------------- MODULE Inodes -------------------------------
(***************************************************************************)
(* Inodes, directories and path names: the middle layers of fs.c and the   *)
(* calls of sysfile.c that name files, in src/ass5/final_repo.  Processes  *)
(* make calls concurrently; a step is what a process does between two      *)
(* points at which it takes an inode's sleep lock or icache.lock.          *)
(*                                                                         *)
(* The entry of the inode cache for an inode is indexed by the inode       *)
(* number: iget() keeps one entry per inode, under icache.lock.  What      *)
(* files contain is left out (module FileData); a directory is a function  *)
(* from names to inode numbers, 0 for no entry.  A process has one open    *)
(* file at most.                                                           *)
(***************************************************************************)
EXTENDS Integers, Sequences, FiniteSets, SequencesExt

CONSTANTS Procs,
          NInodes,   \* inodes on the disk; number 1 is the root
          NINODE,    \* entries of the inode cache (param.h)
          Names,     \* path elements other than "." and ".."
          Dots,      \* those of "." and ".." that path names may contain
          MaxCalls,  \* bound: number of calls
          None

Ops == {"open", "create", "mkdir", "mknod", "unlink", "link", "chdir"}
\* The functions that may panic: of a full cache, of a full disk, of a missing link.
Panics == {"iget", "ialloc", "unlink"}

ASSUME InodesAssumption ==
  /\ NInodes \in Nat /\ NInodes >= 3 /\ NINODE \in Nat /\ MaxCalls \in Nat
  /\ IsFiniteSet(Procs) /\ IsFiniteSet(Names)
  /\ Names \cap {".", ".."} = {} /\ Dots \subseteq {".", ".."}
  /\ None \notin Procs \cup (0 .. NInodes) /\ None \notin Ops \cup {"link2"} \cup Panics

Inums == 1 .. NInodes
ROOTINO == 1
Free == [type |-> "free", nlink |-> 0]

VARIABLES
  dinode,   \* disk: type and number of links of each inode
  ent,      \* disk: the entries of each directory
  inode,    \* cache: the copy of the dinode, if valid
  valid, ref, lock,  \* cache: ip->valid, ip->ref, and who has ip->lock
  pc, call, path,    \* of each process: where it is, in which call, the rest of the path
  new,               \* the second path of link()
  ip, dp, old,       \* the inodes that it refers to
  puts, put,         \* the inodes that it is to iput(), and where it is in iput()
  cwd, ofile,        \* its current directory and its open file
  calls,    \* counter for the bound
  panicked

disk == <<dinode, ent>>
args == <<call, path, new>>
held == <<cwd, ofile>>
vars == <<disk, inode, valid, ref, lock, pc, args, ip, dp, old, puts, put, held, calls, panicked>>

\* After earlier calls: "a" is a directory and "a/b" a file.  Every process is in
\* the root or in "a", and may have the file open.
Init ==
  /\ dinode = [i \in Inums |-> CASE i = 1 -> [type |-> "dir", nlink |-> 2]
                                 [] i = 2 -> [type |-> "dir", nlink |-> 1]
                                 [] i = 3 -> [type |-> "file", nlink |-> 1]
                                 [] OTHER -> Free]
  /\ ent = [i \in Inums |-> [n \in Names \cup {".", ".."} |->
             CASE i = 1 /\ n \in {".", ".."} -> 1 [] i = 1 /\ n = "a" -> 2
               [] i = 2 /\ n = "." -> 2 [] i = 2 /\ n = ".." -> 1 [] i = 2 /\ n = "b" -> 3
               [] OTHER -> 0]]
  /\ inode = [i \in Inums |-> Free]
  /\ valid = [i \in Inums |-> FALSE]
  /\ cwd \in [Procs -> {1, 2}] /\ ofile \in [Procs -> {3, None}]
  /\ ref = [i \in Inums |-> Cardinality({p \in Procs : cwd[p] = i})
                           + Cardinality({p \in Procs : ofile[p] = i})]
  /\ lock = [i \in Inums |-> None]
  /\ pc = [p \in Procs |-> "idle"] /\ call = [p \in Procs |-> None]
  /\ path = [p \in Procs |-> <<>>] /\ new = [p \in Procs |-> <<>>]
  /\ ip = [p \in Procs |-> None] /\ dp = [p \in Procs |-> None] /\ old = [p \in Procs |-> None]
  /\ puts = [p \in Procs |-> <<>>] /\ put = [p \in Procs |-> "lock"]
  /\ calls = 0 /\ panicked = None

\* A process goes on at a point when its iput()s are done.
At(p, point) == panicked = None /\ puts[p] = <<>> /\ pc[p] = point
Goto(p, point) == pc' = [pc EXCEPT ![p] = point]
Set(f, p, v) == [f EXCEPT ![p] = v]
\* The call ends, but for the iput()s that are left.
Return(p) ==
  /\ Goto(p, "idle")
  /\ call' = Set(call, p, None) /\ path' = Set(path, p, <<>>) /\ new' = Set(new, p, <<>>)

\* iget() or idup(): the reference, or a panic when the cache is full.
Get(i) ==
  IF ref[i] = 0 /\ Cardinality({j \in Inums : ref[j] > 0}) >= NINODE
  THEN panicked' = "iget" /\ UNCHANGED ref
  ELSE ref' = [ref EXCEPT ![i] = @ + 1] /\ UNCHANGED panicked

\* ilock(): possible when nobody has the lock.  The copy is read if it is not valid.
CanLock(i) == lock[i] = None
Copy(i) == IF valid[i] THEN inode[i] ELSE dinode[i]
Load(i) == inode' = [inode EXCEPT ![i] = Copy(i)] /\ valid' = [valid EXCEPT ![i] = TRUE]
\* A free inode makes ilock() panic: nothing follows (see InUseAllocated).
NoType(i) == Copy(i).type = "free"

-----------------------------------------------------------------------------
(* iput() *)

\* Mutant: the references are not looked at.
LastUnnamed(i) == valid[i] /\ inode[i].nlink = 0

\* Whether iput() frees the inode on the disk.
LastUse(i) == valid[i] /\ inode[i].nlink = 0 /\ ref[i] = 1

\* The lock is taken; an inode of no use is truncated and freed on the disk.
IputLock(p) ==
  /\ panicked = None /\ puts[p] # <<>> /\ put[p] = "lock"
  /\ LET i == Head(puts[p]) IN
       /\ CanLock(i)
       /\ IF LastUse(i)
          THEN /\ dinode' = [dinode EXCEPT ![i] = Free] /\ inode' = [inode EXCEPT ![i] = Free]
               /\ ent' = [ent EXCEPT ![i] = [n \in DOMAIN @ |-> 0]]
               /\ lock' = [lock EXCEPT ![i] = p] /\ put' = Set(put, p, "free")
          ELSE put' = Set(put, p, "unref") /\ UNCHANGED <<disk, inode, lock>>
  /\ UNCHANGED <<valid, ref, pc, args, ip, dp, old, puts, held, calls, panicked>>

\* Mutant: the copy stays valid.
IputFreeValid(p) ==
  /\ panicked = None /\ put[p] = "free"
  /\ lock' = [lock EXCEPT ![Head(puts[p])] = None]
  /\ put' = Set(put, p, "unref")
  /\ UNCHANGED <<disk, inode, valid, ref, pc, args, ip, dp, old, puts, held, calls, panicked>>

\* The copy is not valid any more; from the write to the disk on, another
\* process may have allocated the inode again.
IputFree(p) ==
  /\ panicked = None /\ put[p] = "free"
  /\ valid' = [valid EXCEPT ![Head(puts[p])] = FALSE]
  /\ lock' = [lock EXCEPT ![Head(puts[p])] = None]
  /\ put' = Set(put, p, "unref")
  /\ UNCHANGED <<disk, inode, ref, pc, args, ip, dp, old, puts, held, calls, panicked>>

\* The reference goes; iget() will not take the copy of an entry without one.
IputUnref(p) ==
  /\ panicked = None /\ put[p] = "unref"
  /\ LET i == Head(puts[p]) IN
       /\ ref' = [ref EXCEPT ![i] = @ - 1]
       /\ IF ref[i] = 1
          THEN valid' = [valid EXCEPT ![i] = FALSE] /\ inode' = [inode EXCEPT ![i] = Free]
          ELSE UNCHANGED <<valid, inode>>
  /\ puts' = [puts EXCEPT ![p] = Tail(@)] /\ put' = Set(put, p, "lock")
  /\ UNCHANGED <<disk, lock, pc, args, ip, dp, old, held, calls, panicked>>

-----------------------------------------------------------------------------
(* A call begins, and looks up its path in namex() *)

\* The calls that look for the parent directory (nameiparent()).
Parent == {"create", "mkdir", "mknod", "unlink", "link2"}
Elements == Names \cup Dots
\* The path names that are used: n, or /n/m.
Paths == {<<n>> : n \in Elements} \cup {<<"/", n, m>> : n \in Elements, m \in Elements}

\* The lookup of path name s starts at the root or at the current directory.
Start(p, s) ==
  LET i == IF Head(s) = "/" THEN ROOTINO ELSE cwd[p] IN
  /\ Get(i) /\ ip' = Set(ip, p, i)
  /\ path' = Set(path, p, IF Head(s) = "/" THEN Tail(s) ELSE s)

Begin(p, op, from, to) ==
  /\ At(p, "idle") /\ calls < MaxCalls
  /\ Start(p, from)
  /\ call' = Set(call, p, op) /\ new' = Set(new, p, to)
  /\ Goto(p, "namex")
  /\ calls' = calls + 1
  /\ UNCHANGED <<disk, inode, valid, lock, dp, old, puts, put, held>>

\* The call fails with reference i still to be dropped.
Fail(p, i) ==
  /\ puts' = Set(puts, p, <<i>>) /\ ip' = Set(ip, p, None)
  /\ IF call[p] = "link2" THEN Goto(p, "linkbad") /\ UNCHANGED args ELSE Return(p)

\* One element further, with a reference to the entry n of the directory.
LookUp(p, n) ==
  /\ Get(n)
  /\ ip' = Set(ip, p, n) /\ puts' = Set(puts, p, <<ip[p]>>)
  /\ path' = [path EXCEPT ![p] = Tail(@)]
  /\ UNCHANGED <<pc, call, new>>

\* The loop of namex() on one directory, from ilock() to iunlock().
Namex(p) ==
  /\ At(p, "namex") /\ path[p] # <<>> /\ CanLock(ip[p]) /\ ~NoType(ip[p])
  /\ Load(ip[p])
  /\ LET n == ent[ip[p]][Head(path[p])] IN
     IF Copy(ip[p]).type # "dir" THEN Fail(p, ip[p]) /\ UNCHANGED <<ref, panicked>>
     ELSE IF call[p] \in Parent /\ Len(path[p]) = 1
     THEN Goto(p, "found") /\ UNCHANGED <<args, ip, puts, ref, panicked>>
     ELSE IF n = 0 THEN Fail(p, ip[p]) /\ UNCHANGED <<ref, panicked>>
     ELSE LookUp(p, n)
  /\ UNCHANGED <<disk, lock, dp, old, put, held, calls>>

NamexEnd(p) ==
  /\ At(p, "namex") /\ path[p] = <<>>
  /\ IF call[p] \in Parent THEN Fail(p, ip[p])
     ELSE Goto(p, "found") /\ UNCHANGED <<args, ip, puts>>
  /\ UNCHANGED <<disk, inode, valid, ref, lock, dp, old, put, held, calls, panicked>>

-----------------------------------------------------------------------------
(* open() without O_CREATE, chdir() and close() *)

\* The end of sys_open() with inode i: the reference goes to the file, or there
\* is no file or descriptor (then the inode is put).
OpenFile(p, i) ==
  IF ofile[p] = None THEN ofile' = Set(ofile, p, i) /\ UNCHANGED puts
  ELSE puts' = Set(puts, p, <<i>>) /\ UNCHANGED ofile

\* A directory is opened for reading only.
Open(p, readonly) ==
  /\ At(p, "found") /\ call[p] = "open" /\ CanLock(ip[p]) /\ ~NoType(ip[p])
  /\ Load(ip[p])
  /\ IF Copy(ip[p]).type = "dir" /\ ~readonly
     THEN puts' = Set(puts, p, <<ip[p]>>) /\ UNCHANGED ofile
     ELSE OpenFile(p, ip[p])
  /\ ip' = Set(ip, p, None) /\ Return(p)
  /\ UNCHANGED <<disk, ref, lock, dp, old, put, cwd, calls, panicked>>

Chdir(p) ==
  /\ At(p, "found") /\ call[p] = "chdir" /\ CanLock(ip[p]) /\ ~NoType(ip[p])
  /\ Load(ip[p])
  /\ IF Copy(ip[p]).type # "dir"
     THEN puts' = Set(puts, p, <<ip[p]>>) /\ UNCHANGED cwd
     ELSE puts' = Set(puts, p, <<cwd[p]>>) /\ cwd' = Set(cwd, p, ip[p])
  /\ ip' = Set(ip, p, None) /\ Return(p)
  /\ UNCHANGED <<disk, ref, lock, dp, old, put, ofile, calls, panicked>>

\* fileclose() of the last reference to an open file.
Close(p) ==
  /\ At(p, "idle") /\ ofile[p] # None
  /\ puts' = Set(puts, p, <<ofile[p]>>) /\ ofile' = Set(ofile, p, None)
  /\ UNCHANGED <<disk, inode, valid, ref, lock, pc, args, ip, dp, old, put, cwd, calls, panicked>>

-----------------------------------------------------------------------------
(* create(): open() with O_CREATE, mkdir() and mknod() *)

Creates == {"create", "mkdir", "mknod"}
TypeOf(op) == CASE op = "create" -> "file" [] op = "mkdir" -> "dir" [] op = "mknod" -> "dev"
FreeInums == {i \in Inums : dinode[i].type = "free"}
Name(p) == path[p][1]

\* The name exists: the directory is unlocked and dropped.
CreateFound(p) ==
  /\ At(p, "found") /\ call[p] \in Creates /\ CanLock(ip[p]) /\ ~NoType(ip[p])
  /\ LET n == ent[ip[p]][Name(p)] IN
       n # 0 /\ Get(n) /\ ip' = Set(ip, p, n)
  /\ Load(ip[p])
  /\ puts' = Set(puts, p, <<ip[p]>>) /\ Goto(p, "createold")
  /\ UNCHANGED <<disk, lock, args, dp, old, put, held, calls>>

CreateOld(p) ==
  /\ At(p, "createold") /\ CanLock(ip[p]) /\ ~NoType(ip[p])
  /\ Load(ip[p])
  /\ IF call[p] = "create" /\ Copy(ip[p]).type = "file" THEN OpenFile(p, ip[p])
     ELSE puts' = Set(puts, p, <<ip[p]>>) /\ UNCHANGED ofile
  /\ ip' = Set(ip, p, None) /\ Return(p)
  /\ UNCHANGED <<disk, ref, lock, dp, old, put, cwd, calls, panicked>>

\* The name does not exist: ialloc() with the directory locked.
CreateAlloc(p) ==
  /\ At(p, "found") /\ call[p] \in Creates /\ CanLock(ip[p]) /\ ~NoType(ip[p])
  /\ ent[ip[p]][Name(p)] = 0
  /\ Load(ip[p])
  /\ IF FreeInums = {}
     THEN panicked' = "ialloc" /\ UNCHANGED <<dinode, ref, ip, dp, lock, pc>>
     ELSE LET i == Min(FreeInums) IN
          /\ dinode' = [dinode EXCEPT ![i] = [type |-> TypeOf(call[p]), nlink |-> 0]]
          /\ Get(i)
          /\ dp' = Set(dp, p, ip[p]) /\ ip' = Set(ip, p, i)
          /\ lock' = [lock EXCEPT ![ip[p]] = p]
          /\ Goto(p, "createnew")
  /\ UNCHANGED <<ent, args, old, puts, put, held, calls>>

\* Mutant: the link of the name is not counted.
NewLinks == 0

\* The links of a new inode: its name.
FirstLinks == 1

\* The new inode is locked and set up, and entered into the directory, which is
\* then unlocked and dropped; the inode stays locked.
CreateNew(p) ==
  /\ At(p, "createnew") /\ CanLock(ip[p]) /\ ~NoType(ip[p])
  /\ LET i == ip[p]
         d == dp[p]
         isdir == call[p] = "mkdir"
         made == [Copy(i) EXCEPT !.nlink = FirstLinks]
         dir == [inode[d] EXCEPT !.nlink = IF isdir THEN @ + 1 ELSE @]
     IN /\ dinode' = [dinode EXCEPT ![i] = made, ![d] = dir]
        /\ inode' = [inode EXCEPT ![i] = made, ![d] = dir]
        /\ valid' = [valid EXCEPT ![i] = TRUE]
        /\ ent' = [ent EXCEPT ![i]["."] = IF isdir THEN i ELSE 0,
                              ![i][".."] = IF isdir THEN d ELSE 0,
                              ![d][Name(p)] = i]
        /\ lock' = [lock EXCEPT ![i] = p, ![d] = None]
        /\ puts' = Set(puts, p, <<d>>)
  /\ dp' = Set(dp, p, None) /\ Goto(p, "created")
  /\ UNCHANGED <<ref, args, ip, old, put, held, calls, panicked>>

\* sys_open() keeps the inode for its file, sys_mkdir() and sys_mknod() put it.
Created(p) ==
  /\ At(p, "created")
  /\ lock' = [lock EXCEPT ![ip[p]] = None]
  /\ IF call[p] = "create" THEN OpenFile(p, ip[p])
     ELSE puts' = Set(puts, p, <<ip[p]>>) /\ UNCHANGED ofile
  /\ ip' = Set(ip, p, None) /\ Return(p)
  /\ UNCHANGED <<disk, inode, valid, ref, dp, old, put, cwd, calls, panicked>>

-----------------------------------------------------------------------------
(* unlink() *)

\* The directory is locked and the entry looked up; it may be refused.
UnlinkFound(p) ==
  /\ At(p, "found") /\ call[p] = "unlink" /\ CanLock(ip[p]) /\ ~NoType(ip[p])
  /\ Load(ip[p])
  /\ LET n == ent[ip[p]][Name(p)] IN
     IF Name(p) \in {".", ".."} \/ n = 0
     THEN Fail(p, ip[p]) /\ UNCHANGED <<ref, panicked, dp, lock>>
     ELSE /\ Get(n)
          /\ lock' = [lock EXCEPT ![ip[p]] = p]
          /\ dp' = Set(dp, p, ip[p]) /\ ip' = Set(ip, p, n)
          /\ Goto(p, "unlink") /\ UNCHANGED <<args, puts>>
  /\ UNCHANGED <<disk, old, put, held, calls>>

\* ~isdirempty()
NotEmpty(i) == \E n \in Names : ent[i][n] # 0

\* The inode is locked as well: refuse, or erase the entry and drop the directory.
Unlink(p) ==
  /\ At(p, "unlink") /\ CanLock(ip[p]) /\ ~NoType(ip[p])
  /\ LET i == ip[p]
         d == dp[p]
         isdir == Copy(i).type = "dir"
         dir == [inode[d] EXCEPT !.nlink = IF isdir THEN @ - 1 ELSE @]
     IN IF Copy(i).nlink < 1
        THEN panicked' = "unlink"
             /\ UNCHANGED <<disk, inode, valid, lock, ip, dp, puts, pc>>
        ELSE IF isdir /\ NotEmpty(i)
        THEN /\ Load(i) /\ ip' = Set(ip, p, None) /\ puts' = Set(puts, p, <<i>>)
             /\ Goto(p, "unlinkbad") /\ UNCHANGED <<disk, lock, dp, panicked>>
        ELSE /\ ent' = [ent EXCEPT ![d][Name(p)] = 0]
             /\ dinode' = [dinode EXCEPT ![d] = dir]
             /\ inode' = [inode EXCEPT ![d] = dir, ![i] = Copy(i)]
             /\ valid' = [valid EXCEPT ![i] = TRUE]
             /\ lock' = [lock EXCEPT ![i] = p, ![d] = None]
             /\ dp' = Set(dp, p, None) /\ puts' = Set(puts, p, <<d>>)
             /\ Goto(p, "unlinked") /\ UNCHANGED <<ip, panicked>>
  /\ UNCHANGED <<ref, args, old, put, held, calls>>

UnlinkBad(p) ==
  /\ At(p, "unlinkbad") \/ At(p, "linkexists")
  /\ lock' = [lock EXCEPT ![dp[p]] = None]
  /\ dp' = Set(dp, p, None) /\ puts' = Set(puts, p, <<dp[p]>>)
  /\ IF pc[p] = "linkexists" THEN Goto(p, "linkbad") /\ UNCHANGED args ELSE Return(p)
  /\ UNCHANGED <<disk, inode, valid, ref, ip, old, put, held, calls, panicked>>

\* nlink of inode i changes by k, in the copy and on the disk.
AddLinks(i, k) ==
  LET changed == [Copy(i) EXCEPT !.nlink = @ + k] IN
  /\ inode' = [inode EXCEPT ![i] = changed] /\ dinode' = [dinode EXCEPT ![i] = changed]
  /\ valid' = [valid EXCEPT ![i] = TRUE]

\* After the iput() of the directory: the link is taken off the inode.
Unlinked(p) ==
  /\ At(p, "unlinked")
  /\ AddLinks(ip[p], -1)
  /\ lock' = [lock EXCEPT ![ip[p]] = None]
  /\ ip' = Set(ip, p, None) /\ puts' = Set(puts, p, <<ip[p]>>) /\ Return(p)
  /\ UNCHANGED <<ent, ref, dp, old, put, held, calls, panicked>>

-----------------------------------------------------------------------------
(* link() *)

\* The link is counted first; then the second path is looked up.
Link(p) ==
  /\ At(p, "found") /\ call[p] = "link" /\ CanLock(ip[p]) /\ ~NoType(ip[p])
  /\ IF Copy(ip[p]).type = "dir"
     THEN Load(ip[p]) /\ Fail(p, ip[p]) /\ UNCHANGED <<dinode, old, ref, panicked>>
     ELSE /\ AddLinks(ip[p], 1)
          /\ old' = Set(old, p, ip[p]) /\ Start(p, new[p])
          /\ call' = Set(call, p, "link2") /\ new' = Set(new, p, <<>>)
          /\ Goto(p, "namex") /\ UNCHANGED puts
  /\ UNCHANGED <<ent, lock, dp, put, held, calls>>

\* dirlink(): a name that exists is looked up and put with the directory locked.
LinkEnter(p) ==
  /\ At(p, "found") /\ call[p] = "link2" /\ CanLock(ip[p]) /\ ~NoType(ip[p])
  /\ Load(ip[p])
  /\ LET n == ent[ip[p]][Name(p)] IN
     IF n = 0
     THEN /\ ent' = [ent EXCEPT ![ip[p]][Name(p)] = old[p]]
          /\ puts' = Set(puts, p, <<ip[p], old[p]>>)
          /\ old' = Set(old, p, None) /\ Return(p)
          /\ UNCHANGED <<ref, panicked, lock, dp>>
     ELSE /\ Get(n) /\ puts' = Set(puts, p, <<n>>)
          /\ lock' = [lock EXCEPT ![ip[p]] = p] /\ dp' = Set(dp, p, ip[p])
          /\ Goto(p, "linkexists") /\ UNCHANGED <<ent, old, args>>
  /\ ip' = Set(ip, p, None)
  /\ UNCHANGED <<dinode, put, held, calls>>

\* The link was not made: it is not counted any more.
LinkBad(p) ==
  /\ At(p, "linkbad") /\ CanLock(old[p]) /\ ~NoType(old[p])
  /\ AddLinks(old[p], -1)
  /\ old' = Set(old, p, None) /\ puts' = Set(puts, p, <<old[p]>>) /\ Return(p)
  /\ UNCHANGED <<ent, ref, lock, ip, dp, put, held, calls, panicked>>

-----------------------------------------------------------------------------
\* Where ilock() is about to be called: on which inode.
Locking == {"namex", "found", "createold", "createnew", "unlink"}
Wants(p) ==
  IF puts[p] # <<>> THEN IF put[p] = "lock" THEN Head(puts[p]) ELSE None
  ELSE IF pc[p] = "linkbad" THEN old[p]
  ELSE IF pc[p] = "namex" /\ path[p] = <<>> THEN None
  ELSE IF pc[p] \in Locking THEN ip[p] ELSE None

Iput(p) == IputLock(p) \/ IputFree(p) \/ IputUnref(p)

Step(p) ==
  \/ Namex(p) \/ NamexEnd(p) \/ Chdir(p) \/ Close(p)
  \/ \E readonly \in BOOLEAN : Open(p, readonly)
  \/ CreateFound(p) \/ CreateOld(p) \/ CreateAlloc(p) \/ CreateNew(p) \/ Created(p)
  \/ UnlinkFound(p) \/ Unlink(p) \/ UnlinkBad(p) \/ Unlinked(p)
  \/ Link(p) \/ LinkEnter(p) \/ LinkBad(p)

Next ==
  \E p \in Procs :
    \/ \E op \in Ops \ {"link"}, from \in Paths : Begin(p, op, from, <<>>)
    \/ \E from \in Paths, to \in Paths : Begin(p, "link", from, to)
    \/ Step(p) \/ Iput(p)

Spec == Init /\ [][Next]_vars

\* The processes are alike.
Symmetry == Permutations(Procs)

-----------------------------------------------------------------------------
(* Properties *)

Dinodes == [type : {"free", "dir", "file", "dev"}, nlink : 0 .. NInodes + MaxCalls]

TypeOK ==
  /\ dinode \in [Inums -> Dinodes] /\ inode \in [Inums -> Dinodes]
  /\ ent \in [Inums -> [Names \cup {".", ".."} -> 0 .. NInodes]]
  /\ valid \in [Inums -> BOOLEAN]
  /\ ref \in [Inums -> 0 .. 8 * Cardinality(Procs)]
  /\ lock \in [Inums -> Procs \cup {None}]
  /\ pc \in [Procs -> Locking \cup {"idle", "created", "unlinkbad", "unlinked", "linkexists",
                                    "linkbad"}]
  /\ call \in [Procs -> Ops \cup {"link2", None}]
  /\ ip \in [Procs -> Inums \cup {None}] /\ dp \in [Procs -> Inums \cup {None}]
  /\ old \in [Procs -> Inums \cup {None}]
  /\ cwd \in [Procs -> Inums] /\ ofile \in [Procs -> Inums \cup {None}]
  /\ put \in [Procs -> {"lock", "free", "unref"}]
  /\ calls \in 0 .. MaxCalls

\* ip->ref is the number of pointers to the entry: current directories, open
\* files, and the calls in progress, on every path through them.
RefExact ==
  \A i \in Inums :
    panicked = None =>
      ref[i] = Cardinality({p \in Procs : cwd[p] = i}) + Cardinality({p \in Procs : ofile[p] = i})
             + Cardinality({p \in Procs : ip[p] = i}) + Cardinality({p \in Procs : dp[p] = i})
             + Cardinality({p \in Procs : old[p] = i})
             + Cardinality({x \in Procs \X {1, 2} :
                              x[2] \in DOMAIN puts[x[1]] /\ puts[x[1]][x[2]] = i})

\* A copy that is valid and not locked is what the disk has: the cache is
\* write-through, and an inode that was freed and allocated again while an
\* iput() was still under way is read anew.
CacheCoherent == \A i \in Inums : valid[i] /\ lock[i] = None => inode[i] = dinode[i]

\* The inode cache counts its users exactly and agrees with the disk.
CacheSound == TypeOK /\ RefExact /\ CacheCoherent

\* What is in use stays: an open file, a current directory and every name in a
\* directory belong to an inode that is allocated, and no lookup comes to one
\* that is not ("ilock: no type"), whatever is unlinked meanwhile.
InUseAllocated ==
  /\ panicked # "unlink"
  /\ \A p \in Procs : puts[p] = <<>> /\ Wants(p) # None /\ CanLock(Wants(p)) => ~NoType(Wants(p))
  /\ \A p \in Procs : \A i \in {cwd[p], ofile[p]} \ {None} : dinode[i].type # "free"
  /\ \A d \in Inums, n \in Names : ent[d][n] # 0 => dinode[ent[d][n]].type # "free"

NamesOf(i) == {x \in Inums \X Names : ent[x[1]][x[2]] = i}

\* nlink counts every name of an inode, and the names of a link() that is still to
\* make its entry or to take the link back; and a directory has one name.
LinksCounted ==
  \A i \in Inums :
    /\ dinode[i].nlink >= Cardinality(NamesOf(i)) + Cardinality({p \in Procs : old[p] = i})
    /\ dinode[i].type = "dir" => Cardinality(NamesOf(i)) <= 1

\* No two processes wait for each other's locks, and none for its own.
NoMutualWait ==
  \A p, q \in Procs : Wants(p) # None /\ Wants(q) # None =>
    ~(lock[Wants(p)] = q /\ lock[Wants(q)] = p)
=============================================================================
