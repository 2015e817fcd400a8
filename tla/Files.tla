------------------------------- MODULE Files --------------------------------
(***************************************************************************)
(* Open files and pipes: file.c, pipe.c and the descriptor calls of        *)
(* sysfile.c in src/ass5/final_repo, with the parts of fork() and exit()   *)
(* that share and close descriptors.  A step is what a process does under  *)
(* one acquire() of ftable.lock or of a pipe's lock.  Files are pipe ends; *)
(* inodes are in module Inodes.                                            *)
(***************************************************************************)
EXTENDS Integers, FiniteSets, FiniteSetsExt

CONSTANTS Procs,
          InitProc,       \* initproc, which does not exit
          NOFILE, NFILE,  \* sizes of ofile[] and of the file table (param.h)
          Pages,          \* pages that kalloc() can give to pipes
          PIPESIZE,       \* bytes that a pipe holds (pipe.c)
          WORD,           \* the counters of a pipe are modulo WORD (uint)
          Sizes,          \* bound: bytes in one read() or write()
          None

ASSUME FilesAssumption ==
  /\ InitProc \in Procs /\ IsFiniteSet(Procs)
  /\ None \notin Procs \cup Pages \cup 1 .. NFILE
  /\ NOFILE \in Nat /\ NFILE \in Nat /\ Sizes \subseteq Nat
  /\ PIPESIZE \in Nat \ {0} /\ WORD \in Nat \ {0}
  /\ WORD % PIPESIZE = 0 /\ WORD > PIPESIZE

Fds == 0 .. NOFILE - 1
Slots == 1 .. NFILE

VARIABLES
  ref, type, filePipe,  \* struct file, by slot of ftable; the type of a pipe's
                        \* file says which end it is
  allocated, nread, nwrite, readopen, writeopen, data, lock,  \* struct pipe, by page
  ofile,         \* of each process
  killed,
  pc,            \* where each process is
  f0, f1,        \* the files of pipealloc(), or those that fileclose() is to close
  pp, wr,        \* the pipe that it uses, and whether at the writing end
  left,          \* bytes that it is still to read or write
  exiting,       \* whether it is in exit()
  panicked

ftable == <<ref, type, filePipe>>
pipes == <<allocated, nread, nwrite, readopen, writeopen, data>>
locals == <<f0, f1, pp, wr, left, exiting>>
vars == <<ftable, pipes, lock, ofile, killed, pc, locals, panicked>>

Init ==
  /\ ref = [f \in Slots |-> 0]
  /\ type = [f \in Slots |-> "none"]
  /\ filePipe = [f \in Slots |-> None]
  /\ allocated = [q \in Pages |-> FALSE]
  /\ nread = [q \in Pages |-> 0] /\ nwrite = [q \in Pages |-> 0]
  /\ readopen = [q \in Pages |-> FALSE] /\ writeopen = [q \in Pages |-> FALSE]
  /\ data = [q \in Pages |-> [i \in 0 .. PIPESIZE - 1 |-> 0]]
  /\ lock = [q \in Pages |-> None]
  /\ ofile = [p \in Procs |-> [fd \in Fds |-> None]]
  /\ killed = [p \in Procs |-> FALSE]
  /\ pc = [p \in Procs |-> IF p = InitProc THEN "user" ELSE "unused"]
  /\ f0 = [p \in Procs |-> None] /\ f1 = [p \in Procs |-> None]
  /\ pp = [p \in Procs |-> None] /\ wr = [p \in Procs |-> FALSE]
  /\ left = [p \in Procs |-> 0]
  /\ exiting = [p \in Procs |-> FALSE]
  /\ panicked = FALSE

At(p, point) == ~panicked /\ pc[p] = point
Goto(p, point) == pc' = [pc EXCEPT ![p] = point]
\* A process that was killed does not return to user space to make a call.
Calls(p) == At(p, "user") /\ ~killed[p]

\* wakeup() by p of the processes that sleep at a point on pipe q; p goes on.
Wake(p, point, q, asleep, awake) ==
  pc' = [x \in Procs |-> IF x = p THEN point
                         ELSE IF pc[x] = asleep /\ pp[x] = q THEN awake ELSE pc[x]]

-----------------------------------------------------------------------------
(* sys_pipe(): pipealloc() and its two filealloc()s, then two fdalloc()s *)

FreeFiles == {f \in Slots : ref[f] = 0}
FreeFds(p) == {fd \in Fds : ofile[p][fd] = None}

\* filealloc() for the reading end; without a file the call fails.
PipeAllocRead(p) ==
  /\ Calls(p) /\ FreeFiles # {}
  /\ LET f == Min(FreeFiles) IN
       ref' = [ref EXCEPT ![f] = 1] /\ f0' = [f0 EXCEPT ![p] = f]
  /\ Goto(p, "allocwrite")
  /\ UNCHANGED <<type, filePipe, pipes, lock, ofile, killed, f1, pp, wr, left, exiting,
                 panicked>>

\* Mutant: the call fails without a fileclose() of the reading end.
PipeAllocWriteLeaks(p) ==
  /\ At(p, "allocwrite")
  /\ IF FreeFiles # {}
     THEN LET f == Min(FreeFiles) IN
            /\ ref' = [ref EXCEPT ![f] = 1] /\ f1' = [f1 EXCEPT ![p] = f]
            /\ Goto(p, "setup") /\ UNCHANGED f0
     ELSE /\ f0' = [f0 EXCEPT ![p] = None]
          /\ Goto(p, "user") /\ UNCHANGED <<ref, f1>>
  /\ UNCHANGED <<type, filePipe, pipes, lock, ofile, killed, pp, wr, left, exiting,
                 panicked>>

PipeAllocWrite(p) ==
  /\ At(p, "allocwrite")
  /\ IF FreeFiles # {}
     THEN LET f == Min(FreeFiles) IN
            /\ ref' = [ref EXCEPT ![f] = 1] /\ f1' = [f1 EXCEPT ![p] = f]
            /\ Goto(p, "setup")
     ELSE Goto(p, "closing") /\ UNCHANGED <<ref, f1>>
  /\ UNCHANGED <<type, filePipe, pipes, lock, ofile, killed, f0, pp, wr, left, exiting,
                 panicked>>

\* kalloc() fails: both files, which are of no type yet, are closed.
PipeNoPage(p) ==
  /\ At(p, "setup") /\ \A q \in Pages : allocated[q]
  /\ Goto(p, "closing")
  /\ UNCHANGED <<ftable, pipes, lock, ofile, killed, locals, panicked>>

\* ofile with the two lowest free descriptors of p for f0 and f1: both or none.
FdPair(p) ==
  IF Cardinality(FreeFds(p)) < 2 THEN ofile
  ELSE LET a == Min(FreeFds(p)) IN
       [ofile EXCEPT ![p][a] = f0[p], ![p][Min(FreeFds(p) \ {a})] = f1[p]]

\* The pipe and its files are set up; without two descriptors both are closed.
PipeSetup(p, q) ==
  /\ At(p, "setup") /\ ~allocated[q]
  /\ allocated' = [allocated EXCEPT ![q] = TRUE]
  /\ nread' = [nread EXCEPT ![q] = 0] /\ nwrite' = [nwrite EXCEPT ![q] = 0]
  /\ readopen' = [readopen EXCEPT ![q] = TRUE]
  /\ writeopen' = [writeopen EXCEPT ![q] = TRUE]
  /\ type' = [type EXCEPT ![f0[p]] = "reader", ![f1[p]] = "writer"]
  /\ filePipe' = [filePipe EXCEPT ![f0[p]] = q, ![f1[p]] = q]
  /\ ofile' = FdPair(p)
  /\ IF Cardinality(FreeFds(p)) >= 2
     THEN /\ f0' = [f0 EXCEPT ![p] = None] /\ f1' = [f1 EXCEPT ![p] = None]
          /\ Goto(p, "user")
     ELSE Goto(p, "closing") /\ UNCHANGED <<f0, f1>>
  /\ UNCHANGED <<ref, data, lock, killed, pp, wr, left, exiting, panicked>>

-----------------------------------------------------------------------------
(* sys_dup(), fork(), sys_close() and exit() *)

\* fdalloc(), then filedup().
Dup(p, fd) ==
  /\ Calls(p) /\ ofile[p][fd] # None /\ FreeFds(p) # {}
  /\ LET f == ofile[p][fd] IN
       /\ ofile' = [ofile EXCEPT ![p][Min(FreeFds(p))] = f]
       /\ IF ref[f] < 1 THEN panicked' = TRUE /\ UNCHANGED ref
          ELSE ref' = [ref EXCEPT ![f] = @ + 1] /\ UNCHANGED panicked
  /\ UNCHANGED <<type, filePipe, pipes, lock, killed, pc, locals>>

\* The loop of fork() that duplicates the descriptors.  The parent's references
\* keep every file open meanwhile, so the loop is one step.
Fork(p, child) ==
  /\ Calls(p) /\ pc[child] = "unused"
  /\ ofile' = [ofile EXCEPT ![child] = ofile[p]]
  /\ ref' = [f \in Slots |-> ref[f] + Cardinality({fd \in Fds : ofile[p][fd] = f})]
  /\ Goto(child, "user")
  /\ UNCHANGED <<type, filePipe, pipes, lock, killed, locals, panicked>>

SysClose(p, fd) ==
  /\ Calls(p) /\ ofile[p][fd] # None
  /\ ofile' = [ofile EXCEPT ![p][fd] = None]
  /\ f0' = [f0 EXCEPT ![p] = ofile[p][fd]]
  /\ Goto(p, "closing")
  /\ UNCHANGED <<ftable, pipes, lock, killed, f1, pp, wr, left, exiting, panicked>>

\* exit(), called or forced on the way back to user space, closes one descriptor
\* after the other.
Exit(p) ==
  /\ At(p, "user") \/ At(p, "exit")
  /\ p # InitProc
  /\ IF FreeFds(p) = Fds
     THEN /\ Goto(p, "unused")
          /\ killed' = [killed EXCEPT ![p] = FALSE]
          /\ exiting' = [exiting EXCEPT ![p] = FALSE]
          /\ UNCHANGED <<ofile, f0>>
     ELSE LET fd == Min(Fds \ FreeFds(p)) IN
          /\ ofile' = [ofile EXCEPT ![p][fd] = None]
          /\ f0' = [f0 EXCEPT ![p] = ofile[p][fd]]
          /\ exiting' = [exiting EXCEPT ![p] = TRUE]
          /\ Goto(p, "closing") /\ UNCHANGED killed
  /\ UNCHANGED <<ftable, pipes, lock, f1, pp, wr, left, panicked>>

\* The next file that p is to close.
Closing(p) == IF f0[p] # None THEN f0[p] ELSE f1[p]

\* Where a process goes that has closed a file, when next is the file that is left.
AfterClose(p, next) ==
  IF next # None THEN "closing" ELSE IF exiting[p] THEN "exit" ELSE "user"

\* File f is of type FD_NONE again, so that nothing looks at its pipe.
FileReset(f) ==
  /\ type' = [type EXCEPT ![f] = "none"]
  /\ filePipe' = [filePipe EXCEPT ![f] = None]

\* fileclose(), up to the release of ftable.lock.
FileClose(p) ==
  /\ At(p, "closing")
  /\ LET f == Closing(p) IN
     IF ref[f] < 1
     THEN panicked' = TRUE /\ UNCHANGED <<ftable, pp, wr, pc, f0, f1>>
     ELSE /\ ref' = [ref EXCEPT ![f] = @ - 1]
          /\ IF ref[f] = 1 THEN FileReset(f) ELSE UNCHANGED <<type, filePipe>>
          /\ IF ref[f] = 1 /\ type[f] # "none"
             THEN /\ pp' = [pp EXCEPT ![p] = filePipe[f]]
                  /\ wr' = [wr EXCEPT ![p] = type[f] = "writer"]
                  /\ Goto(p, "pipeclose")
             ELSE /\ Goto(p, AfterClose(p, IF f0[p] # None THEN f1[p] ELSE None))
                  /\ UNCHANGED <<pp, wr>>
          /\ f0' = [f0 EXCEPT ![p] = None]
          /\ f1' = [f1 EXCEPT ![p] = IF f0[p] # None THEN @ ELSE None]
          /\ UNCHANGED panicked
  /\ UNCHANGED <<pipes, lock, ofile, killed, left, exiting>>

\* kfree() of a pipe that has no end left: the page is overwritten.
Freed(q, last) ==
  /\ allocated' = [allocated EXCEPT ![q] = ~last]
  /\ nread' = [nread EXCEPT ![q] = IF last THEN 0 ELSE @]
  /\ nwrite' = [nwrite EXCEPT ![q] = IF last THEN 0 ELSE @]
  /\ data' = [data EXCEPT ![q] = IF last THEN [i \in 0 .. PIPESIZE - 1 |-> 0] ELSE @]

\* Mutant: the readers are not woken when the writing end is closed.
PipeCloseSilent(p) ==
  /\ At(p, "pipeclose") /\ lock[pp[p]] = None
  /\ LET q == pp[p] IN
       /\ writeopen' = [writeopen EXCEPT ![q] = @ /\ ~wr[p]]
       /\ readopen' = [readopen EXCEPT ![q] = @ /\ wr[p]]
       /\ Wake(p, AfterClose(p, f1[p]), q, IF wr[p] THEN "nobody" ELSE "writesleep", "write")
       /\ Freed(q, IF wr[p] THEN ~readopen[q] ELSE ~writeopen[q])
  /\ pp' = [pp EXCEPT ![p] = None] /\ wr' = [wr EXCEPT ![p] = FALSE]
  /\ UNCHANGED <<ftable, lock, ofile, killed, f0, f1, left, exiting, panicked>>

\* pipeclose(): the other side is woken, and the last close frees the page.
PipeClose(p) ==
  /\ At(p, "pipeclose") /\ lock[pp[p]] = None
  /\ LET q == pp[p] IN
       /\ writeopen' = [writeopen EXCEPT ![q] = @ /\ ~wr[p]]
       /\ readopen' = [readopen EXCEPT ![q] = @ /\ wr[p]]
       /\ IF wr[p] THEN Wake(p, AfterClose(p, f1[p]), q, "readsleep", "read")
                   ELSE Wake(p, AfterClose(p, f1[p]), q, "writesleep", "write")
       /\ Freed(q, IF wr[p] THEN ~readopen[q] ELSE ~writeopen[q])
  /\ pp' = [pp EXCEPT ![p] = None] /\ wr' = [wr EXCEPT ![p] = FALSE]
  /\ UNCHANGED <<ftable, lock, ofile, killed, f0, f1, left, exiting, panicked>>

-----------------------------------------------------------------------------
(* sys_read() and sys_write() *)

\* The descriptor and its mode are tested; the call goes on at the pipe.
SysRead(p, fd, n) ==
  /\ Calls(p) /\ ofile[p][fd] # None
  /\ type[ofile[p][fd]] = "reader"
  /\ pp' = [pp EXCEPT ![p] = filePipe[ofile[p][fd]]]
  /\ left' = [left EXCEPT ![p] = n]
  /\ Goto(p, "read")
  /\ UNCHANGED <<ftable, pipes, lock, ofile, killed, f0, f1, wr, exiting, panicked>>

SysWrite(p, fd, n) ==
  /\ Calls(p) /\ ofile[p][fd] # None
  /\ type[ofile[p][fd]] = "writer"
  /\ pp' = [pp EXCEPT ![p] = filePipe[ofile[p][fd]]]
  /\ left' = [left EXCEPT ![p] = n]
  /\ Goto(p, "write")
  /\ UNCHANGED <<ftable, pipes, lock, ofile, killed, f0, f1, wr, exiting, panicked>>

Unread(q) == (nwrite[q] - nread[q]) % WORD
Return(p) == pp' = [pp EXCEPT ![p] = None] /\ left' = [left EXCEPT ![p] = 0]

\* The bytes that a pass over the pipe moves.
Readable(p) == Min({left[p], Unread(pp[p])})

\* Mutant: a pipe takes one byte more.
WritableOver(p) == Min({left[p], PIPESIZE + 1 - Unread(pp[p])})
Writable(p) == Min({left[p], PIPESIZE - Unread(pp[p])})

\* The pipe is empty: fail, or go to sleep.  The test of killed is made before
\* sleep() takes ptable.lock; the pipe stays locked until then.
ReadEmpty(p) ==
  /\ At(p, "read") /\ lock[pp[p]] = None
  /\ Unread(pp[p]) = 0 /\ writeopen[pp[p]]
  /\ IF killed[p] THEN Return(p) /\ Goto(p, "user") /\ UNCHANGED lock
     ELSE lock' = [lock EXCEPT ![pp[p]] = p] /\ Goto(p, "readwait") /\ UNCHANGED <<pp, left>>
  /\ UNCHANGED <<ftable, pipes, ofile, killed, f0, f1, wr, exiting, panicked>>

\* Copy what there is, and wake the writers.
ReadCopy(p) ==
  /\ At(p, "read") /\ lock[pp[p]] = None
  /\ Unread(pp[p]) # 0 \/ ~writeopen[pp[p]]
  /\ nread' = [nread EXCEPT ![pp[p]] = (@ + Readable(p)) % WORD]
  /\ Wake(p, "user", pp[p], "writesleep", "write")
  /\ Return(p)
  /\ UNCHANGED <<ftable, allocated, nwrite, readopen, writeopen, data, lock, ofile, killed,
                 f0, f1, wr, exiting, panicked>>

\* The k-th byte that goes through a pipe is modelled as k modulo WORD.
WriteData(p) ==
  LET q == pp[p]
      Written(i) == {k \in 0 .. Writable(p) - 1 : ((nwrite[q] + k) % WORD) % PIPESIZE = i}
  IN [data EXCEPT ![q] = [i \in 0 .. PIPESIZE - 1 |->
        IF Written(i) = {} THEN @[i] ELSE (nwrite[q] + Max(Written(i))) % WORD]]

\* Mutant: a writer that fills the pipe sleeps without waking the readers.
PipeWriteSilent(p) ==
  /\ At(p, "write") /\ lock[pp[p]] = None
  /\ LET q == pp[p]
         done == Writable(p) = left[p]
     IN /\ data' = WriteData(p)
        /\ nwrite' = [nwrite EXCEPT ![q] = (@ + Writable(p)) % WORD]
        /\ IF done THEN Wake(p, "user", q, "readsleep", "read") /\ Return(p) /\ UNCHANGED lock
           ELSE IF ~readopen[q] \/ killed[p]
           THEN Goto(p, "user") /\ Return(p) /\ UNCHANGED lock
           ELSE /\ Goto(p, "writewait")
                /\ left' = [left EXCEPT ![p] = @ - Writable(p)]
                /\ lock' = [lock EXCEPT ![q] = p] /\ UNCHANGED pp
  /\ UNCHANGED <<ftable, allocated, nread, readopen, writeopen, ofile, killed,
                 f0, f1, wr, exiting, panicked>>

\* pipewrite(), until the bytes are written or the pipe is full.  A full pipe
\* without a reader, or a killed writer, ends the call without a wakeup().
PipeWrite(p) ==
  /\ At(p, "write") /\ lock[pp[p]] = None
  /\ LET q == pp[p]
         done == Writable(p) = left[p]
     IN /\ data' = WriteData(p)
        /\ nwrite' = [nwrite EXCEPT ![q] = (@ + Writable(p)) % WORD]
        /\ IF done THEN Wake(p, "user", q, "readsleep", "read") /\ Return(p) /\ UNCHANGED lock
           ELSE IF ~readopen[q] \/ killed[p]
           THEN Goto(p, "user") /\ Return(p) /\ UNCHANGED lock
           ELSE /\ Wake(p, "writewait", q, "readsleep", "read")
                /\ left' = [left EXCEPT ![p] = @ - Writable(p)]
                /\ lock' = [lock EXCEPT ![q] = p] /\ UNCHANGED pp
  /\ UNCHANGED <<ftable, allocated, nread, readopen, writeopen, ofile, killed,
                 f0, f1, wr, exiting, panicked>>

\* sleep(): under ptable.lock the process is asleep, and the pipe is unlocked.
Sleep(p) ==
  /\ At(p, "readwait") \/ At(p, "writewait")
  /\ lock' = [lock EXCEPT ![pp[p]] = None]
  /\ Goto(p, IF pc[p] = "readwait" THEN "readsleep" ELSE "writesleep")
  /\ UNCHANGED <<ftable, pipes, ofile, killed, locals, panicked>>

InPipe == {"read", "readwait", "readsleep", "write", "writewait", "writesleep"}

\* kill(): a sleeping process is woken, any other only marked.  Outside the loops
\* of pipe.c a killed process only exits when its call is done, as any process
\* may; so only processes in these loops are killed.
Kill(p) ==
  /\ ~panicked /\ p # InitProc /\ pc[p] \in InPipe
  /\ killed' = [killed EXCEPT ![p] = TRUE]
  /\ pc' = [pc EXCEPT ![p] = CASE @ = "readsleep" -> "read" [] @ = "writesleep" -> "write"
                               [] OTHER -> @]
  /\ UNCHANGED <<ftable, pipes, lock, ofile, locals, panicked>>

-----------------------------------------------------------------------------
\* What a process does inside the kernel, once it has made a call.
Kernel(p) ==
  \/ PipeAllocWrite(p) \/ PipeNoPage(p) \/ \E q \in Pages : PipeSetup(p, q)
  \/ FileClose(p) \/ PipeClose(p) \/ (pc[p] = "exit" /\ Exit(p))
  \/ ReadEmpty(p) \/ ReadCopy(p) \/ PipeWrite(p) \/ Sleep(p)

Call(p) ==
  \/ PipeAllocRead(p)
  \/ \E fd \in Fds : \/ Dup(p, fd) \/ SysClose(p, fd)
                     \/ \E n \in Sizes : SysRead(p, fd, n) \/ SysWrite(p, fd, n)
  \/ \E child \in Procs : Fork(p, child)
  \/ pc[p] = "user" /\ Exit(p)

Next == \E p \in Procs : Kernel(p) \/ Call(p) \/ Kill(p)

\* A process in the kernel that can go on is scheduled again.
Spec == Init /\ [][Next]_vars /\ \A p \in Procs : WF_vars(Kernel(p))

-----------------------------------------------------------------------------
(* Properties *)

Points == {"unused", "user", "allocwrite", "setup", "closing", "pipeclose", "exit"} \cup InPipe

TypeOK ==
  /\ ref \in [Slots -> Nat]
  /\ type \in [Slots -> {"none", "reader", "writer"}]
  /\ filePipe \in [Slots -> Pages \cup {None}]
  /\ allocated \in [Pages -> BOOLEAN]
  /\ readopen \in [Pages -> BOOLEAN] /\ writeopen \in [Pages -> BOOLEAN]
  /\ nread \in [Pages -> 0 .. WORD - 1] /\ nwrite \in [Pages -> 0 .. WORD - 1]
  /\ data \in [Pages -> [0 .. PIPESIZE - 1 -> 0 .. WORD - 1]]
  /\ lock \in [Pages -> Procs \cup {None}]
  /\ ofile \in [Procs -> [Fds -> Slots \cup {None}]]
  /\ killed \in [Procs -> BOOLEAN] /\ exiting \in [Procs -> BOOLEAN]
  /\ pc \in [Procs -> Points]
  /\ f0 \in [Procs -> Slots \cup {None}] /\ f1 \in [Procs -> Slots \cup {None}]
  /\ pp \in [Procs -> Pages \cup {None}] /\ wr \in [Procs -> BOOLEAN]
  /\ left \in [Procs -> Nat]
  /\ panicked \in BOOLEAN

\* The reference count of a file is the number of descriptors and of calls in
\* progress that refer to it, also on the paths on which pipealloc() and
\* sys_pipe() give up half way; so neither filedup() nor fileclose() panics.
RefExact ==
  /\ ~panicked
  /\ \A f \in Slots :
       ref[f] = Cardinality({x \in Procs \X Fds : ofile[x[1]][x[2]] = f})
              + Cardinality({p \in Procs : f0[p] = f}) + Cardinality({p \in Procs : f1[p] = f})

EndOf(w) == IF w THEN "writer" ELSE "reader"

\* A file refers to the writing end (w) or the reading end of q, or a process is closing it.
EndInUse(q, w) ==
  \/ \E f \in Slots : ref[f] > 0 /\ filePipe[f] = q /\ type[f] = EndOf(w)
  \/ \E p \in Procs : pc[p] = "pipeclose" /\ pp[p] = q /\ wr[p] = w

\* An end of a pipe is open exactly while a file refers to it or its last file is
\* being closed, and the page is in use exactly while an end is open: no page is
\* lost, and no file or call uses a page that was freed.
PipeOpenExact ==
  \A q \in Pages :
    /\ readopen[q] <=> EndInUse(q, FALSE)
    /\ writeopen[q] <=> EndInUse(q, TRUE)
    /\ allocated[q] <=> readopen[q] \/ writeopen[q]
    /\ (\E p \in Procs : pp[p] = q) => allocated[q]

\* Only one file refers to an end of a pipe, or one process closes it; the end of a file is
\* forgotten when its last reference goes.
EndsUnique ==
  /\ \A f \in Slots : /\ type[f] = "none" <=> filePipe[f] = None
                      /\ ref[f] = 0 => type[f] = "none"
  /\ \A f, g \in Slots :
       type[f] # "none" /\ type[f] = type[g] /\ filePipe[f] = filePipe[g] => f = g
  /\ \A p \in Procs : pc[p] = "pipeclose" =>
       /\ \A f \in Slots : ~(filePipe[f] = pp[p] /\ type[f] = EndOf(wr[p]))
       /\ \A o \in Procs : pc[o] = "pipeclose" /\ pp[o] = pp[p] /\ wr[o] = wr[p] => o = p

Reading == {"read", "readwait", "readsleep"}
Writing == {"write", "writewait", "writesleep"}

\* The process has a descriptor for an end of the pipe that it uses.
HasEnd(p, end) ==
  \E fd \in Fds : /\ ofile[p][fd] # None
                  /\ type[ofile[p][fd]] = end /\ filePipe[ofile[p][fd]] = pp[p]

\* What a call in progress refers to: files that are being set up or closed, and a pipe, which
\* the descriptor of the call keeps open.
CallsRight ==
  \A p \in Procs :
    /\ pc[p] = "unused" => \A fd \in Fds : ofile[p][fd] = None
    /\ pc[p] \notin {"allocwrite", "setup", "closing"} => f0[p] = None
    /\ pc[p] \notin {"setup", "closing", "pipeclose"} => f1[p] = None
    /\ pc[p] \in {"allocwrite", "setup"} => f0[p] # None
    /\ pc[p] = "setup" => f1[p] # None /\ f1[p] # f0[p]
    /\ pc[p] = "closing" => Closing(p) # None
    /\ pp[p] # None <=> pc[p] \in InPipe \cup {"pipeclose"}
    /\ pc[p] \in Reading => HasEnd(p, "reader")
    /\ pc[p] \in Writing => HasEnd(p, "writer")

\* Nobody else refers to a file that pipealloc() has not set up.
NewFilesOwned ==
  \A p \in Procs : pc[p] \in {"allocwrite", "setup"} =>
    \A f \in {f0[p], f1[p]} \cap Slots :
      /\ type[f] = "none"
      /\ \A o \in Procs : /\ \A fd \in Fds : ofile[o][fd] # f
                          /\ o # p => f0[o] # f /\ f1[o] # f

\* Files, ends of pipes and pages are counted exactly, on every path and between any
\* two steps of two processes.
CountsExact ==
  TypeOK /\ RefExact /\ PipeOpenExact /\ EndsUnique /\ CallsRight /\ NewFilesOwned

\* The bytes between the two counters are those that were written at these
\* places of the stream, also when the counters wrap around.
StreamIntact ==
  \A q \in Pages : allocated[q] =>
    /\ Unread(q) <= PIPESIZE
    /\ \A k \in 0 .. Unread(q) - 1 :
         LET at == (nread[q] + k) % WORD IN data[q][at % PIPESIZE] = at

\* A pipe is locked between two steps by the process that is about to sleep on it.
LockHeld ==
  \A p \in Procs, q \in Pages :
    lock[q] = p <=> pc[p] \in {"readwait", "writewait"} /\ pp[p] = q

\* A writer sleeps only while the pipe is full and has a reader, a reader goes to sleep only
\* while it is empty and has a writer, and they do not both sleep.  (A reader may still be asleep
\* when the pipe has bytes: a writer that finds it was killed returns without waking the readers;
\* the next write() or the last close() does.)
SleepersHaveReason ==
  /\ LockHeld
  /\ \A p \in Procs :
       /\ pc[p] \in {"writewait", "writesleep"} => Unread(pp[p]) = PIPESIZE /\ readopen[pp[p]]
       /\ pc[p] = "readwait" => Unread(pp[p]) = 0
       /\ pc[p] \in {"readwait", "readsleep"} => writeopen[pp[p]]
       /\ pc[p] = "readsleep" =>
            \A o \in Procs : ~(pc[o] \in {"writewait", "writesleep"} /\ pp[o] = pp[p])

\* Bytes that come to a pipe wake the readers that sleep at it, unless the writer was killed and
\* leaves the pipe full.
BytesWake ==
  [][\A p \in Procs : pc[p] = "readsleep" /\ nwrite'[pp[p]] # nwrite[pp[p]] =>
       pc'[p] = "read" \/ \E o \in Procs : pc[o] = "write" /\ pp[o] = pp[p] /\ killed[o]]_vars

\* When no file of the writing end is left, a reader that sleeps is woken and
\* sees the end of the file.
EofReaches ==
  \A p \in Procs, q \in Pages :
    (/\ pc[p] = "readsleep" /\ pp[p] = q
     /\ ~ \E f \in Slots : ref[f] > 0 /\ type[f] = "writer" /\ filePipe[f] = q)
      ~> ~(pc[p] = "readsleep" /\ pp[p] = q)
=============================================================================
