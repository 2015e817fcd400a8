------------------------------ MODULE AllParts ------------------------------
(***************************************************************************)
(* One run for the parts of Parts and those that no theorem is about: in   *)
(* the same variables, of which again only those of one part move.         *)
(***************************************************************************)
EXTENDS Parts

\* The segments of the programs, and the arguments of sbrk(): the second program has one
\* that reaches KERNBASE.
SomePrograms == {<<1, 2>>, <<10>>}
SomeSizes == {3, -3}

F == INSTANCE FileData WITH
  Procs <- {1, 2}, NInodes <- 3, NBlocks <- 9, BSIZE <- 2, NDIRECT <- 2, BPB <- 2,
  MAXOPBLOCKS <- 6, Sizes <- {1, 5}, MaxCalls <- 5,
  mode <- s1, freeblock <- s2, used <- s3, cell <- s4, dinode <- s5, inode <- s6,
  lock <- s7, file <- s8, pc <- s9, left <- s10, n1 <- s11, tot <- s12, logged <- s13,
  text <- s14, calls <- s15, panic <- s16

U == INSTANCE Umalloc WITH
  Limit <- 8, MoreUnits <- 3, HeaderSize <- 2, UINT <- 64, Requests <- {1, 3, 5, 25},
  ptr <- s1, size <- s2, freep <- s3, top <- s4, core <- s5, inuse <- s6

Q == INSTANCE QuickSort WITH
  N <- 4, Small <- 2, Values <- {1, 2, 3}, CreateFails <- {FALSE, TRUE},
  input <- s1, arr <- s2, phase <- s3, task <- s4, lost <- s5

\* All command lines of up to four characters, and some longer ones: a pipeline of three,
\* lists and background commands inside pipelines, and too many words.
Characters == {"a", " ", "|", ";", "&", "(", ")", "<", ">"}
CommandLines ==
  UNION {[1..n -> Characters] : n \in 1..4} \cup
  {<<"a", "|", "a", "|", "a">>, <<"(", "a", ";", "a", ")", "|", "a">>,
   <<"a", "|", "(", "a", "&", ";", "a", ")">>, <<"a", "<", "a", "|", "a", ">", "a", ";", "a">>,
   <<"(", "a", "|", "a", ")", "&", ";", "a">>, <<"a", " ", "a", " ", "a">>}

H == INSTANCE Shell WITH
  Lines <- CommandLines, MAXARGS <- 3, NOFILE <- 5, Outcomes <- {TRUE, FALSE},
  line <- s1, cmd <- s2, sh <- s3, proc <- s4, failed <- s5

\* Memories with a vector in their first bytes, of all short ones and of a long string; the
\* longest needs more than is below the first stack pointer.
Short == {m \in [0 .. 7 -> {0, 1, 6}] : m[1] = 0 /\ m[3] = 0}
Long == {[a \in 0 .. 4 + n |-> CASE a = 0 -> 4 [] a \in {1, 2, 3, 4 + n} -> 0 [] OTHER -> 1] :
           n \in {1, 5, 6, 13, 14, 15, 20, 30, 31, 35, 40, 47, 50}}

E == INSTANCE ExecArgs WITH
  BYTE <- 16, PGSIZE <- 16, MAXARG <- 3, TextPages <- 1, Memories <- Short \cup Long,
  Vectors <- {0, 2, 7, 254},
  mem <- s1, uargv <- s2, pc <- s3, argv <- s4, argc <- s5, sp <- s6, ustack <- s7, new <- s8

\* Two CPUs and a tick counter that wraps around.
P == INSTANCE Proc WITH
  NPROC <- 2, NCPU <- 2, MaxPid <- 3, TickMod <- 3, SleepTimes <- {1, 2},
  state <- s1, pid <- s2, parent <- s3, chan <- s4, killed <- s5, kstack <- s6, pc <- s7,
  np <- s8, ticks0 <- s9, dur <- s10, shell <- s11, nextpid <- s12, ptlock <- s13,
  tickslock <- s14, ticks <- s15, cproc <- s16, spc <- s17, idx <- s18, tpc <- s19,
  panicked <- s20

-----------------------------------------------------------------------------
AllInit ==
  \/ Init
  \/ part = "filedata" /\ F!Init /\ None17
  \/ part = "umalloc" /\ U!Init /\ None7
  \/ part = "quicksort" /\ Q!Init /\ None6
  \/ part = "shell" /\ H!Init /\ None6
  \/ part = "arguments" /\ E!Init /\ None9
  \/ part = "proc" /\ P!Init /\ s21 = 0 /\ s22 = 0 /\ None23

AllNext ==
  \/ Next
  \/ part = "filedata" /\ F!Next /\ UNCHANGED <<part, from17>>
  \/ part = "umalloc" /\ U!Next /\ UNCHANGED <<part, from7>>
  \/ part = "quicksort" /\ Q!Next /\ UNCHANGED <<part, from6>>
  \/ part = "shell" /\ H!Next /\ UNCHANGED <<part, from6>>
  \/ part = "arguments" /\ E!Next /\ UNCHANGED <<part, from9>>
  \/ part = "proc" /\ P!Next /\ UNCHANGED <<part, s21, s22, from23>>

AllSpec == AllInit /\ [][AllNext]_vars

-----------------------------------------------------------------------------
(* Properties of these parts *)

\* Every byte of every file is what mkfs or write() last put there, though blocks are
\* freed and taken again and two writers interleave at each block; an unlocked inode is
\* on the disk as it is in memory; and only a full disk makes the file system panic.
FilesSound ==
  part = "filedata" => F!TypeOK /\ F!ContentRight /\ F!WriteThrough /\ F!OnlyFullPanics

\* The bitmap marks exactly the blocks that files reach, each reached once: mkfs,
\* balloc() and bfree() agree; and no chunk of filewrite() and no itrunc() logs more
\* blocks than begin_op() has reserved for a call.
BlocksAccounted == part = "filedata" => F!BlocksOwnedOnce /\ F!FitsLog

\* main() gets the arguments of exec() as the caller has them, in the page of its stack,
\* and exec() refuses none that are in order and fit.
ArgumentsArrive == part = "arguments" => E!ArgumentsArrive

\* What morecore() has got is the blocks in use, each as large as was asked for, and the
\* free ones, without overlap; the free list goes once around by address, and no two
\* free blocks touch.
HeapSound == part = "umalloc" => U!TypeOK /\ U!HeapPartitioned /\ U!ListMerged

\* Calls of the parallel sort that touch the array have separate parts of it, and what
\* runSorts() prints is sorted and complete, unless a child of that sort could not be made.
SortSound == part = "quicksort" => Q!TypeOK /\ Q!Separate /\ Q!SortedAtPrint

\* parsecmd() makes of every line the command that it means, with its words whole.
ParseRight == part = "shell" => H!ParseRight

\* The commands of a line run with their own input and output and no other descriptor,
\* get the end of their input, and are waited for unless they are in the background.
CommandsRight == part = "shell" => H!CommandsRight

\* The timer wakes every process that sleeps in sys_sleep() as soon as its ticks are over,
\* also when the counter has wrapped around.
SleeperNotOverdue == part = "proc" => P!SleeperNotOverdue

\* The inductive invariant of the proofs about the process table: locks, threads, parents,
\* wakeups and kills fit together in every state.
IndInv == part = "proc" => P!IndInv
=============================================================================
