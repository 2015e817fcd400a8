--------------------------- MODULE SpinlockProofs ---------------------------
(***************************************************************************)
(* LocksSafe and FlagRestored of Spinlock, for any number of CPUs and      *)
(* threads.  Neither is inductive: IndInv says of every stack where its    *)
(* frames may be, and of every CPU how ncli, intena, the interrupt flag    *)
(* and the locks follow from the frame that it executes.                   *)
(***************************************************************************)
EXTENDS Spinlock, SequenceTheorems, TLAPS

-----------------------------------------------------------------------------
(* The inductive invariant *)

Busy == {"xchg", "own", "clear", "popcli"}

\* How often the code of the frame is inside pushcli().
Depth(f) ==
  (IF "ptable" \in f.held THEN 1 ELSE 0) + (IF "device" \in f.held THEN 1 ELSE 0)
    + (IF f.pc \in Busy THEN 1 ELSE 0)

\* A frame that a handler has interrupted: it had interrupts on.
Resting(f) ==
  /\ f.kind # "handler"
  /\ f.pc \in {"loop", "code", "flags"}
  /\ f.held = {}
  /\ f.pc = "flags" => f.eflags

\* What the frame of a scheduler or of a thread may be at.
FrameRight(x, f) ==
  /\ f.pc \in {"flags", "clear", "popcli"} \cup {"xchg", "own"} => f.lk \notin f.held
  /\ f.pc \in {"flags", "xchg", "own"} /\ f.lk = "device" => f.held = {}
  /\ f.pc = "loop" => f.kind = "scheduler" /\ f.held = {}
  /\ f.kind = "scheduler" => x \in CPUs /\ f.lk = "ptable" /\ "device" \notin f.held
  /\ f.pc = "switched" =>
       /\ x \in Threads /\ f.held = {"ptable"}
       /\ f.kind = "handler" => ~f.saved
       /\ f.kind = "syscall" => f.saved

\* A stack is a system call, a fork or the scheduler, and at most one handler.
StackRight(x) ==
  /\ stack[x] \in Seq(Frame)
  /\ Len(stack[x]) <= 2
  /\ \A i \in 1 .. Len(stack[x]) : FrameRight(x, stack[x][i])
  /\ \A i \in 1 .. Len(stack[x]) - 1 : Resting(stack[x][i])
  /\ Len(stack[x]) = 2 => stack[x][2].kind = "handler"
  /\ x \in CPUs => Len(stack[x]) >= 1 /\ stack[x][1].kind = "scheduler"

\* Threads run on at most one CPU.  What does not run waits in swtch() or has not begun,
\* with the process table lock as one of its locks.
RunningRight ==
  /\ \A c \in CPUs : running[c] = c \/ running[c] \in Threads
  /\ \A c, d \in CPUs : running[c] = running[d] => c = d
  /\ \A c \in CPUs : running[c] # c =>
       Len(stack[c]) = 1 /\ stack[c][1].pc = "code" /\ stack[c][1].held = {"ptable"}
  /\ \A t \in Threads : (\A c \in CPUs : running[c] # t) =>
       /\ Len(stack[t]) >= 1
       /\ LET f == stack[t][Len(stack[t])] IN
            \/ f.pc = "switched"
            \/ f.pc = "code" /\ f.kind = "forkret" /\ f.held = {"ptable"}

\* ncli, intena and the flag of a CPU, from the frame f that it executes.
CpuRight(c, f) ==
  /\ ncli[c] = Depth(f)
  /\ Depth(f) > 0 => ~flag[c]
  /\ f.kind = "handler" => ~flag[c]
  /\ f.kind = "syscall" /\ Depth(f) = 0 => flag[c]
  /\ f.kind = "handler" /\ Depth(f) > 0 /\ f.pc # "switched" => ~intena[c]
  /\ f.kind = "syscall" /\ Depth(f) > 0 /\ f.pc # "switched" => intena[c]
  /\ f.pc = "flags" => (f.eflags <=> flag[c])

CpusRight ==
  \A c \in CPUs :
    /\ Stack(c) # <<>> => CpuRight(c, Top(c))
    /\ Stack(c) = <<>> => flag[c] /\ ncli[c] = 0

\* The CPU has taken the lock: it holds it, or is between xchg and the last store.
Owns(c, l) == Stack(c) # <<>> /\ l \in Top(c).held
Taken(c, l) ==
  Owns(c, l) \/ (Stack(c) # <<>> /\ Top(c).lk = l /\ Top(c).pc \in {"own", "clear"})

LocksRight ==
  \A l \in Locks :
    /\ \A c, d \in CPUs : Taken(c, l) /\ Taken(d, l) => c = d
    /\ locked[l] <=> \E c \in CPUs : Taken(c, l)
    /\ \A c \in CPUs : owner[l] = c <=> Owns(c, l)

VarsOK ==
  /\ locked \in [Locks -> BOOLEAN]
  /\ owner \in [Locks -> CPUs \cup {0}]
  /\ ncli \in [CPUs -> Nat]
  /\ intena \in [CPUs -> BOOLEAN]
  /\ flag \in [CPUs -> BOOLEAN]
  /\ running \in [CPUs -> Contexts]
  /\ DOMAIN stack = Contexts

\* Each part needs the others: locks are private because frames that are interrupted
\* hold none, handlers find none because the flag is off while ncli is above zero, and
\* ncli counts because a thread comes back from sched() with the one lock it left with.
IndInv ==
  /\ VarsOK
  /\ \A x \in Contexts : StackRight(x)
  /\ RunningRight
  /\ CpusRight
  /\ LocksRight
  /\ panic = "no"

-----------------------------------------------------------------------------
(* Stacks *)

\* Schedulers and threads are different contexts, and 0 is no CPU.
Apart == CPUs \cap Threads = {} /\ 0 \notin CPUs

\* Numbers of CPUs and threads make it so.
LEMMA SizesApart ==
  ASSUME NCPU \in Nat, NThreads \in Nat
  PROVE  Apart
BY DEF Apart, CPUs, Threads

\* The last place of a sequence that is not empty.
LEMMA LastPlace ==
  ASSUME NEW S, NEW s \in Seq(S), s # <<>>
  PROVE  Len(s) \in Nat /\ Len(s) >= 1 /\ Len(s) \in 1 .. Len(s)
<1>1. Len(s) \in Nat \ {0}
  BY EmptySeq, Zenon
<1>2. PICK n : n = Len(s)
  OBVIOUS
<1>3. n \in Nat \ {0}
  BY <1>1, <1>2
<1>4. n \in Nat /\ n >= 1 /\ n \in 1 .. n
  BY <1>3
<1> QED
  BY <1>2, <1>4, Zenon

\* A sequence with another last element.
LEMMA ReplaceLast ==
  ASSUME NEW S, NEW s \in Seq(S), s # <<>>, NEW e \in S
  PROVE  /\ [s EXCEPT ![Len(s)] = e] \in Seq(S)
         /\ Len([s EXCEPT ![Len(s)] = e]) = Len(s)
         /\ [s EXCEPT ![Len(s)] = e][Len(s)] = e
         /\ \A i \in 1 .. Len(s) - 1 : [s EXCEPT ![Len(s)] = e][i] = s[i]
<1>1. Len(s) \in Nat /\ Len(s) \in 1 .. Len(s)
  BY LastPlace
<1>2. PICK n : n = Len(s)
  OBVIOUS
<1>3. \A i \in 1 .. n - 1 : i \in 1 .. n /\ i # n
  <2>1. n \in Nat
    BY <1>1, <1>2
  <2> QED
    BY <2>1
<1>4. n \in 1 .. Len(s)
  BY <1>1, <1>2, Zenon
<1>5. /\ [s EXCEPT ![n] = e] \in Seq(S)
      /\ Len([s EXCEPT ![n] = e]) = Len(s)
      /\ \A j \in 1 .. Len(s) : [s EXCEPT ![n] = e][j] = IF j = n THEN e ELSE s[j]
  BY <1>4, ExceptSeq
<1>6. [s EXCEPT ![n] = e][n] = e
  BY <1>4, <1>5
<1>7. \A i \in 1 .. n - 1 : [s EXCEPT ![n] = e][i] = s[i]
  BY <1>2, <1>3, <1>5
<1> QED
  BY <1>2, <1>5, <1>6, <1>7

\* The frame that a CPU executes.
LEMMA TopFrame ==
  ASSUME IndInv, NEW c \in CPUs, Stack(c) # <<>>
  PROVE  /\ running[c] \in Contexts /\ StackRight(running[c])
         /\ Len(Stack(c)) \in 1..2 /\ Top(c) = Stack(c)[Len(Stack(c))]
         /\ Top(c) \in Frame /\ FrameRight(running[c], Top(c)) /\ CpuRight(c, Top(c))
<1>1. running[c] \in Contexts
  BY DEF IndInv, VarsOK
<1>2. StackRight(running[c])
  BY <1>1 DEF IndInv
<1>3. Stack(c) \in Seq(Frame) /\ Len(Stack(c)) <= 2
  BY <1>2 DEF StackRight, Stack
<1>4. Len(Stack(c)) \in 1..2
  <2>1. Len(Stack(c)) \in Nat /\ Len(Stack(c)) >= 1
    BY <1>3, LastPlace, Zenon
  <2>2. PICK n : n = Len(Stack(c))
    OBVIOUS
  <2>3. n \in Nat /\ n >= 1 /\ n <= 2
    BY <1>3, <2>1, <2>2, Zenon
  <2>4. n \in 1..2
    BY <2>3
  <2> QED
    BY <2>2, <2>4, Zenon
<1>5. Stack(c)[Len(Stack(c))] \in Frame
  BY <1>3, LastPlace, ElementOfSeq, Zenon
<1>6. FrameRight(running[c], Stack(c)[Len(Stack(c))])
  BY <1>2, <1>4 DEF StackRight, Stack
<1>7. CpuRight(c, Top(c))
  BY DEF IndInv, CpusRight
<1> QED
  BY <1>1, <1>2, <1>4, <1>5, <1>6, <1>7 DEF Top, Last

\* Becomes() replaces the last frame of one stack.
LEMMA BecomesFrames ==
  ASSUME IndInv, NEW c \in CPUs, Stack(c) # <<>>, NEW f \in Frame, Becomes(c, f)
  PROVE  /\ DOMAIN stack' = Contexts
         /\ stack'[running[c]] \in Seq(Frame)
         /\ Len(stack'[running[c]]) = Len(stack[running[c]])
         /\ stack'[running[c]][Len(stack[running[c]])] = f
         /\ \A i \in 1 .. Len(stack[running[c]]) - 1 :
              stack'[running[c]][i] = stack[running[c]][i]
         /\ \A y \in Contexts : y # running[c] => stack'[y] = stack[y]
<1> DEFINE x == running[c]  s == stack[x]  n == Len(s)
<1>1. x \in Contexts /\ s \in Seq(Frame) /\ n \in 1..2 /\ DOMAIN stack = Contexts
  BY TopFrame DEF StackRight, Stack, IndInv, VarsOK
<1>2. stack' = [stack EXCEPT ![x] = [s EXCEPT ![n] = f]]
  BY DEF Becomes, Stack
<1>3. s # <<>>
  BY DEF Stack
<1>4. /\ [s EXCEPT ![n] = f] \in Seq(Frame)
      /\ Len([s EXCEPT ![n] = f]) = n
      /\ [s EXCEPT ![n] = f][n] = f
      /\ \A i \in 1 .. n - 1 : [s EXCEPT ![n] = f][i] = s[i]
  BY <1>1, <1>3, ReplaceLast
<1>5. stack'[x] = [s EXCEPT ![n] = f] /\ DOMAIN stack' = Contexts
      /\ \A y \in Contexts : y # x => stack'[y] = stack[y]
  BY <1>1, <1>2
<1> QED
  BY <1>4, <1>5

\* The other stacks of a step of CPU c are those of other contexts.
LEMMA OtherStacks ==
  ASSUME IndInv, NEW c \in CPUs, running' = running,
         \A y \in Contexts : y # running[c] => stack'[y] = stack[y]
  PROVE  \A d \in CPUs : d # c => Stack(d)' = Stack(d)
BY DEF IndInv, VarsOK, RunningRight, Stack

\* A frame may become another one of the same kind that is right where it is.
LEMMA ReplaceFrame ==
  ASSUME IndInv, NEW c \in CPUs, Stack(c) # <<>>, NEW f \in Frame, Becomes(c, f),
         FrameRight(running[c], f), f.kind = Top(c).kind
  PROVE  \A y \in Contexts : StackRight(y)'
<1> DEFINE x == running[c]  s == stack[x]  n == Len(s)
<1>1. /\ DOMAIN stack' = Contexts
      /\ stack'[x] \in Seq(Frame)
      /\ Len(stack'[x]) = n
      /\ stack'[x][n] = f
      /\ \A i \in 1 .. n - 1 : stack'[x][i] = s[i]
      /\ \A y \in Contexts : y # x => stack'[y] = stack[y]
  BY BecomesFrames
<1>2. x \in Contexts /\ StackRight(x) /\ n \in 1..2 /\ Top(c) = s[n]
  BY TopFrame DEF Stack
<1>3. \A i \in 1 .. Len(stack'[x]) : FrameRight(x, stack'[x][i])
  BY <1>1, <1>2 DEF StackRight
<1>4. \A i \in 1 .. Len(stack'[x]) - 1 : Resting(stack'[x][i])
  BY <1>1, <1>2 DEF StackRight
<1>5. \A i \in 1 .. n : stack'[x][i].kind = s[i].kind
  BY <1>1, <1>2
<1>6. ASSUME NEW y \in Contexts PROVE StackRight(y)'
  <2>1. CASE y # x
    <3>1. stack'[y] = stack[y] /\ StackRight(y)
      BY <1>1, <2>1 DEF IndInv
    <3> QED
      BY <3>1 DEF StackRight
  <2>2. CASE y = x
    <3>1. Len(stack'[y]) = 2 => stack'[y][2].kind = "handler"
      BY <1>1, <1>2, <1>5, <2>2 DEF StackRight
    <3>2. y \in CPUs => Len(stack'[y]) >= 1 /\ stack'[y][1].kind = "scheduler"
      BY <1>1, <1>2, <1>5, <2>2 DEF StackRight
    <3>3. stack'[y] \in Seq(Frame) /\ Len(stack'[y]) <= 2
      BY <1>1, <1>2, <2>2
    <3> QED
      BY <1>3, <1>4, <2>2, <3>1, <3>2, <3>3 DEF StackRight
  <2> QED
    BY <2>1, <2>2
<1> QED
  BY <1>6

\* The same when the CPU goes on with its context, for all that depends on stacks.
LEMMA Replace ==
  ASSUME Apart, IndInv, NEW c \in CPUs, Stack(c) # <<>>, NEW f \in Frame, Becomes(c, f),
         running' = running, FrameRight(running[c], f), f.kind = Top(c).kind
  PROVE  /\ DOMAIN stack' = Contexts
         /\ \A y \in Contexts : StackRight(y)'
         /\ RunningRight'
         /\ Stack(c)' # <<>> /\ Top(c)' = f
         /\ \A d \in CPUs : d # c => Stack(d)' = Stack(d)
<1> DEFINE x == running[c]  s == stack[x]  n == Len(s)
<1>1. /\ DOMAIN stack' = Contexts
      /\ Len(stack'[x]) = n
      /\ stack'[x][n] = f
      /\ \A y \in Contexts : y # x => stack'[y] = stack[y]
  BY BecomesFrames
<1>2. n \in 1..2
  BY TopFrame DEF Stack
<1>3. \A y \in Contexts : StackRight(y)'
  BY ReplaceFrame
<1>4. RunningRight'
  <2>1. \A d \in CPUs : running[d] # d => stack'[d] = stack[d]
    BY <1>1 DEF RunningRight, IndInv, Apart, Contexts
  <2>2. \A t \in Threads : (\A d \in CPUs : running[d] # t) => stack'[t] = stack[t]
    BY <1>1 DEF Contexts
  <2> QED
    BY <2>1, <2>2 DEF RunningRight, IndInv
<1>5. Stack(c)' # <<>> /\ Top(c)' = f
  BY <1>1, <1>2 DEF Stack, Top, Last
<1>6. \A d \in CPUs : d # c => Stack(d)' = Stack(d)
  BY <1>1, OtherStacks
<1> QED
  BY <1>1, <1>3, <1>4, <1>5, <1>6

\* A trap begins in user mode, or as an interrupt of code that rests meanwhile.
LEMMA Push ==
  ASSUME Apart, IndInv, NEW c \in CPUs, NEW kind \in {"syscall", "handler"},
         Enters(c, kind), running' = running,
         \/ Stack(c) = <<>>
         \/ kind = "handler" /\ Len(Stack(c)) = 1 /\ Resting(Top(c))
  PROVE  /\ DOMAIN stack' = Contexts
         /\ \A y \in Contexts : StackRight(y)'
         /\ RunningRight'
         /\ Stack(c)' # <<>> /\ Top(c)' = Entered(kind, "code", {})
         /\ \A d \in CPUs : d # c => Stack(d)' = Stack(d)
<1> DEFINE x == running[c]  s == stack[x]  n == Len(s)  f == Entered(kind, "code", {})
<1>1. x \in Contexts /\ StackRight(x) /\ s \in Seq(Frame) /\ DOMAIN stack = Contexts
  BY DEF IndInv, VarsOK, StackRight
<1>2. f \in Frame /\ f.kind = kind /\ f.pc = "code" /\ f.held = {}
  BY DEF Entered, Frame, Kinds, Locks
<1>3. s = <<>> \/ (kind = "handler" /\ n = 1 /\ Resting(s[1]))
  BY DEF Stack, Top, Last
<1>4. n \in 0..1 /\ (n = 0 <=> s = <<>>)
  BY <1>1, <1>3, EmptySeq
<1>5. /\ stack'[x] = Append(s, f)
      /\ DOMAIN stack' = Contexts
      /\ \A y \in Contexts : y # x => stack'[y] = stack[y]
  BY <1>1 DEF Enters, Stack
<1>6. /\ Append(s, f) \in Seq(Frame) /\ Append(s, f) # <<>>
      /\ Len(Append(s, f)) = n + 1
      /\ \A i \in 1 .. n : Append(s, f)[i] = s[i]
      /\ Append(s, f)[n + 1] = f
  BY <1>1, <1>2, AppendProperties
<1>7. FrameRight(x, f)
  BY <1>2 DEF FrameRight
<1>8. \A i \in 1 .. n + 1 : FrameRight(x, stack'[x][i])
  BY <1>1, <1>4, <1>5, <1>6, <1>7 DEF StackRight
<1>9. \A i \in 1 .. n : Resting(stack'[x][i])
  BY <1>3, <1>4, <1>5, <1>6
<1>10. ASSUME NEW y \in Contexts PROVE StackRight(y)'
  <2>1. CASE y # x
    <3>1. stack'[y] = stack[y] /\ StackRight(y)
      BY <1>5, <2>1 DEF IndInv
    <3> QED
      BY <3>1 DEF StackRight
  <2>2. CASE y = x
    <3>1. stack'[y] \in Seq(Frame) /\ Len(stack'[y]) = n + 1 /\ Len(stack'[y]) <= 2
      <4>1. stack'[y] \in Seq(Frame) /\ Len(stack'[y]) = n + 1
        BY <1>5, <1>6, <2>2, Zenon
      <4>2. PICK m : m = n
        OBVIOUS
      <4>3. m \in 0..1
        BY <1>4, <4>2, Zenon
      <4>4. m + 1 <= 2
        BY <4>3
      <4>5. Len(stack'[y]) <= 2
        BY <4>1, <4>2, <4>4, Zenon
      <4> QED
        BY <4>1, <4>5, Zenon
    <3>2. Len(stack'[y]) = 2 => stack'[y][2].kind = "handler"
      BY <1>2, <1>3, <1>4, <1>5, <1>6, <2>2
    <3>3. y \in CPUs => Len(stack'[y]) >= 1 /\ stack'[y][1].kind = "scheduler"
      BY <1>1, <1>4, <1>5, <1>6, <2>2 DEF StackRight
    <3>4. \A i \in 1 .. Len(stack'[y]) - 1 : Resting(stack'[y][i])
      BY <1>4, <1>9, <2>2, <3>1
    <3> QED
      BY <1>8, <2>2, <3>1, <3>2, <3>3, <3>4 DEF StackRight
  <2> QED
    BY <2>1, <2>2
<1>11. RunningRight'
  <2>1. \A d \in CPUs : running[d] # d => stack'[d] = stack[d]
    BY <1>5 DEF RunningRight, IndInv, Apart, Contexts
  <2>2. \A t \in Threads : (\A d \in CPUs : running[d] # t) => stack'[t] = stack[t]
    BY <1>5 DEF Contexts
  <2> QED
    BY <2>1, <2>2 DEF RunningRight, IndInv
<1>12. Stack(c)' # <<>> /\ Top(c)' = f
  BY <1>5, <1>6 DEF Stack, Top, Last
<1>13. \A d \in CPUs : d # c => Stack(d)' = Stack(d)
  BY <1>5, OtherStacks
<1> QED
  BY <1>5, <1>10, <1>11, <1>12, <1>13

\* iret goes back to user mode or to the frame that was interrupted.
LEMMA Pop ==
  ASSUME Apart, IndInv, NEW c \in CPUs, Stack(c) # <<>>, Top(c).kind # "scheduler",
         Returns(c), running' = running
  PROVE  /\ DOMAIN stack' = Contexts
         /\ \A y \in Contexts : StackRight(y)'
         /\ RunningRight'
         /\ Stack(c)' # <<>> => Top(c)' \in Frame /\ Resting(Top(c)')
         /\ \A d \in CPUs : d # c => Stack(d)' = Stack(d)
<1> DEFINE x == running[c]  s == stack[x]  n == Len(s)
<1>1. x \in Contexts /\ StackRight(x) /\ s \in Seq(Frame) /\ DOMAIN stack = Contexts
  BY DEF IndInv, VarsOK, StackRight
<1>2. n \in 1..2 /\ s[n].kind # "scheduler"
  BY TopFrame DEF Stack
<1>3. /\ stack'[x] = SubSeq(s, 1, n - 1)
      /\ DOMAIN stack' = Contexts
      /\ \A y \in Contexts : y # x => stack'[y] = stack[y]
  BY <1>1 DEF Returns
<1>4. n - 1 \in Int /\ \A i \in 1 .. n - 1 : s[i] \in Frame
  BY <1>1, <1>2, ElementOfSeq
<1>5. /\ SubSeq(s, 1, n - 1) \in Seq(Frame)
      /\ Len(SubSeq(s, 1, n - 1)) = n - 1
      /\ \A i \in 1 .. n - 1 : SubSeq(s, 1, n - 1)[i] = s[i]
  <2>1. /\ SubSeq(s, 1, n - 1) \in Seq(Frame)
        /\ Len(SubSeq(s, 1, n - 1)) = IF 1 <= n - 1 THEN n - 1 - 1 + 1 ELSE 0
        /\ \A i \in 1 .. n - 1 - 1 + 1 : SubSeq(s, 1, n - 1)[i] = s[1 + i - 1]
    BY <1>4, SubSeqProperties
  <2> HIDE DEF n, s
  <2>2. (IF 1 <= n - 1 THEN n - 1 - 1 + 1 ELSE 0) = n - 1 /\ n - 1 - 1 + 1 = n - 1
        /\ \A i \in 1 .. n - 1 : 1 + i - 1 = i
    BY <1>2
  <2> QED
    BY <2>1, <2>2
<1>6. \A i \in 1 .. n - 1 :
        stack'[x][i] = s[i] /\ FrameRight(x, s[i]) /\ Resting(s[i]) /\ s[i] \in Frame
  BY <1>1, <1>2, <1>3, <1>4, <1>5 DEF StackRight
<1>7. x \in CPUs => n = 2
  BY <1>1, <1>2 DEF StackRight
<1>8. ASSUME NEW y \in Contexts PROVE StackRight(y)'
  <2>1. CASE y # x
    <3>1. stack'[y] = stack[y] /\ StackRight(y)
      BY <1>3, <2>1 DEF IndInv
    <3> QED
      BY <3>1 DEF StackRight
  <2>2. CASE y = x
    <3>1. stack'[y] \in Seq(Frame) /\ Len(stack'[y]) = n - 1 /\ n - 1 \in 0..1
      BY <1>2, <1>3, <1>5, <2>2
    <3>2. y \in CPUs => Len(stack'[y]) >= 1 /\ stack'[y][1].kind = "scheduler"
      BY <1>1, <1>2, <1>6, <1>7, <2>2, <3>1 DEF StackRight
    <3>3. \A i \in 1 .. Len(stack'[y]) : FrameRight(y, stack'[y][i])
      BY <1>6, <2>2, <3>1
    <3>4. \A i \in 1 .. Len(stack'[y]) - 1 : Resting(stack'[y][i])
      BY <1>6, <2>2, <3>1
    <3>5. Len(stack'[y]) <= 2 /\ Len(stack'[y]) # 2
      <4>1. Len(stack'[y]) = n - 1 /\ n - 1 \in 0..1
        BY <3>1, Zenon
      <4> HIDE DEF n
      <4> QED
        BY <4>1
    <3> QED
      BY <3>1, <3>2, <3>3, <3>4, <3>5 DEF StackRight
  <2> QED
    BY <2>1, <2>2
<1>9. RunningRight'
  <2>1. \A d \in CPUs : running[d] # d => stack'[d] = stack[d]
    BY <1>3 DEF RunningRight, IndInv, Apart, Contexts
  <2>2. \A t \in Threads : (\A d \in CPUs : running[d] # t) => stack'[t] = stack[t]
    BY <1>3 DEF Contexts
  <2> QED
    BY <2>1, <2>2 DEF RunningRight, IndInv
<1>10. Stack(c)' # <<>> => Top(c)' \in Frame /\ Resting(Top(c)')
  <2>1. stack'[x] # <<>> => n - 1 \in 1 .. n - 1
    BY <1>2, <1>3, <1>5, EmptySeq
  <2>2. stack'[x] # <<>> => stack'[x][n - 1] \in Frame /\ Resting(stack'[x][n - 1])
    BY <1>6, <2>1
  <2> QED
    BY <1>3, <1>5, <2>2 DEF Stack, Top, Last, Resting
<1>11. \A d \in CPUs : d # c => Stack(d)' = Stack(d)
  BY <1>3, OtherStacks
<1> QED
  BY <1>3, <1>8, <1>9, <1>10, <1>11

-----------------------------------------------------------------------------
(* CPUs and locks *)

\* What a step of CPU c leaves to the others.
OthersKept(c) ==
  \A d \in CPUs : d # c =>
    /\ Stack(d)' = Stack(d)
    /\ ncli'[d] = ncli[d] /\ intena'[d] = intena[d] /\ flag'[d] = flag[d]

\* What CPU c does leaves the other CPUs right.
LEMMA CpusKept ==
  ASSUME CpusRight, NEW c \in CPUs, OthersKept(c),
         Stack(c)' # <<>> => CpuRight(c, Top(c))',
         Stack(c)' = <<>> => flag'[c] /\ ncli'[c] = 0
  PROVE  CpusRight'
<1> SUFFICES ASSUME NEW d \in CPUs
             PROVE  /\ Stack(d)' # <<>> => CpuRight(d, Top(d))'
                    /\ Stack(d)' = <<>> => flag'[d] /\ ncli'[d] = 0
  BY DEF CpusRight
<1>1. CASE d = c
  BY <1>1
<1>2. CASE d # c
  <2>1. Stack(d)' = Stack(d) /\ Top(d)' = Top(d)
        /\ ncli'[d] = ncli[d] /\ intena'[d] = intena[d] /\ flag'[d] = flag[d]
    BY <1>2 DEF OthersKept, Top
  <2>2. CpuRight(d, Top(d)) => CpuRight(d, Top(d))'
    BY <2>1 DEF CpuRight
  <2> QED
    BY <2>1, <2>2 DEF CpusRight
<1> QED
  BY <1>1, <1>2

\* A lock is taken when it is free, owned by who has taken it, and given back by its owner.
LEMMA LocksStep ==
  ASSUME Apart, LocksRight, NEW c \in CPUs,
         \A d \in CPUs : d # c => Stack(d)' = Stack(d),
         \A l \in Locks :
           \/ (Taken(c, l)' <=> Taken(c, l)) /\ (locked'[l] <=> locked[l])
           \/ Taken(c, l)' /\ ~locked[l] /\ locked'[l]
           \/ ~Taken(c, l)' /\ Taken(c, l) /\ ~locked'[l],
         \A l \in Locks :
           \/ (Owns(c, l)' <=> Owns(c, l)) /\ owner'[l] = owner[l]
           \/ Owns(c, l)' /\ Taken(c, l) /\ owner'[l] = c
           \/ ~Owns(c, l)' /\ owner[l] = c /\ owner'[l] = 0
  PROVE  LocksRight'
<1>1. \A d \in CPUs, l \in Locks :
        d # c => (Owns(d, l)' <=> Owns(d, l)) /\ (Taken(d, l)' <=> Taken(d, l))
  <2> SUFFICES ASSUME NEW d \in CPUs, NEW l \in Locks, d # c
               PROVE  (Owns(d, l)' <=> Owns(d, l)) /\ (Taken(d, l)' <=> Taken(d, l))
    OBVIOUS
  <2>1. Stack(d)' = Stack(d) /\ Top(d)' = Top(d)
    BY DEF Top
  <2> QED
    BY <2>1 DEF Owns, Taken
<1>2. \A d \in CPUs, l \in Locks : Owns(d, l) => Taken(d, l)
  BY DEF Taken
<1> SUFFICES ASSUME NEW l \in Locks
             PROVE  /\ \A a, b \in CPUs : Taken(a, l)' /\ Taken(b, l)' => a = b
                    /\ locked'[l] <=> \E a \in CPUs : Taken(a, l)'
                    /\ \A a \in CPUs : owner'[l] = a <=> Owns(a, l)'
  BY DEF LocksRight
<1> DEFINE T(d) == Taken(d, l)  TP(d) == Taken(d, l)'  O(d) == Owns(d, l)  OP(d) == Owns(d, l)'
<1>3. /\ \A a, b \in CPUs : T(a) /\ T(b) => a = b
      /\ locked[l] <=> \E a \in CPUs : T(a)
      /\ \A a \in CPUs : owner[l] = a <=> O(a)
  BY DEF LocksRight
<1>4. \A d \in CPUs : d # c => (OP(d) <=> O(d)) /\ (TP(d) <=> T(d))
  BY <1>1
<1>5. \A d \in CPUs : O(d) => T(d)
  BY <1>2
<1>6. \/ (TP(c) <=> T(c)) /\ (locked'[l] <=> locked[l])
      \/ TP(c) /\ ~locked[l] /\ locked'[l]
      \/ ~TP(c) /\ T(c) /\ ~locked'[l]
  OBVIOUS
<1>7. \/ (OP(c) <=> O(c)) /\ owner'[l] = owner[l]
      \/ OP(c) /\ T(c) /\ owner'[l] = c
      \/ ~OP(c) /\ owner[l] = c /\ owner'[l] = 0
  OBVIOUS
<1>8. 0 \notin CPUs
  BY DEF Apart
<1> HIDE DEF T, TP, O, OP
<1>9. \A a, b \in CPUs : TP(a) /\ TP(b) => a = b
  BY <1>3, <1>4, <1>6
<1>10. locked'[l] <=> \E a \in CPUs : TP(a)
  BY <1>3, <1>4, <1>6
<1>11. \A a \in CPUs : owner'[l] = a <=> OP(a)
  BY <1>3, <1>4, <1>5, <1>7, <1>8
<1> QED
  BY <1>9, <1>10, <1>11 DEF TP, OP

\* The lock is one of the frame's, or on its way to or from it.
TakenBy(f, l) == l \in f.held \/ (f.lk = l /\ f.pc \in {"own", "clear"})

\* A step that replaces the current frame of CPU c.
LEMMA FrameStep ==
  ASSUME Apart, IndInv, NEW c \in CPUs, Stack(c) # <<>>, NEW f \in Frame, Becomes(c, f),
         running' = running, FrameRight(running[c], f), f.kind = Top(c).kind,
         locked' \in [Locks -> BOOLEAN], owner' \in [Locks -> CPUs \cup {0}],
         ncli' \in [CPUs -> Nat], intena' \in [CPUs -> BOOLEAN], flag' \in [CPUs -> BOOLEAN],
         \A d \in CPUs : d # c =>
           ncli'[d] = ncli[d] /\ intena'[d] = intena[d] /\ flag'[d] = flag[d],
         CpuRight(c, f)',
         \A l \in Locks :
           \/ (TakenBy(f, l) <=> TakenBy(Top(c), l)) /\ (locked'[l] <=> locked[l])
           \/ TakenBy(f, l) /\ ~locked[l] /\ locked'[l]
           \/ ~TakenBy(f, l) /\ TakenBy(Top(c), l) /\ ~locked'[l],
         \A l \in Locks :
           \/ (l \in f.held <=> l \in Top(c).held) /\ owner'[l] = owner[l]
           \/ l \in f.held /\ TakenBy(Top(c), l) /\ owner'[l] = c
           \/ l \notin f.held /\ owner[l] = c /\ owner'[l] = 0,
         panic' = "no"
  PROVE  IndInv'
<1>1. /\ DOMAIN stack' = Contexts
      /\ \A y \in Contexts : StackRight(y)'
      /\ RunningRight'
      /\ Stack(c)' # <<>> /\ Top(c)' = f
      /\ \A d \in CPUs : d # c => Stack(d)' = Stack(d)
  BY Replace
<1>2. VarsOK'
  BY <1>1 DEF VarsOK, IndInv
<1>3. CpusRight'
  <2>1. OthersKept(c)
    BY <1>1 DEF OthersKept
  <2>2. CpuRight(c, Top(c))'
    BY <1>1 DEF CpuRight
  <2> QED
    BY <1>1, <2>1, <2>2, CpusKept DEF IndInv
<1>4. LocksRight'
  <2>1. \A l \in Locks : /\ Owns(c, l) <=> l \in Top(c).held
                         /\ Taken(c, l) <=> TakenBy(Top(c), l)
    BY DEF Owns, Taken, TakenBy
  <2>2. \A l \in Locks : /\ Owns(c, l)' <=> l \in f.held
                         /\ Taken(c, l)' <=> TakenBy(f, l)
    BY <1>1 DEF Owns, Taken, TakenBy
  <2>3. \A l \in Locks :
           \/ (Taken(c, l)' <=> Taken(c, l)) /\ (locked'[l] <=> locked[l])
           \/ Taken(c, l)' /\ ~locked[l] /\ locked'[l]
           \/ ~Taken(c, l)' /\ Taken(c, l) /\ ~locked'[l]
    BY <2>1, <2>2
  <2>4. \A l \in Locks :
           \/ (Owns(c, l)' <=> Owns(c, l)) /\ owner'[l] = owner[l]
           \/ Owns(c, l)' /\ Taken(c, l) /\ owner'[l] = c
           \/ ~Owns(c, l)' /\ owner[l] = c /\ owner'[l] = 0
    BY <2>1, <2>2
  <2>5. LocksRight /\ \A d \in CPUs : d # c => Stack(d)' = Stack(d)
    BY <1>1 DEF IndInv
  <2> QED
    BY <2>3, <2>4, <2>5, LocksStep
<1> QED
  BY <1>1, <1>2, <1>3, <1>4 DEF IndInv

\* What a CPU in the kernel knows of the frame it executes.
LEMMA Executing ==
  ASSUME IndInv, NEW c \in CPUs, InKernel(c)
  PROVE  /\ Stack(c) # <<>> /\ Top(c) \in Frame
         /\ FrameRight(running[c], Top(c)) /\ CpuRight(c, Top(c))
         /\ \A l \in Locks :
              /\ TakenBy(Top(c), l) => locked[l]
              /\ owner[l] = c <=> l \in Top(c).held
         /\ VarsOK /\ panic = "no"
<1>1. Stack(c) # <<>>
  BY DEF InKernel
<1>2. Top(c) \in Frame /\ FrameRight(running[c], Top(c)) /\ CpuRight(c, Top(c))
  BY <1>1, TopFrame
<1>3. \A l \in Locks : /\ Owns(c, l) <=> l \in Top(c).held
                       /\ Taken(c, l) <=> TakenBy(Top(c), l)
  BY <1>1 DEF Owns, Taken, TakenBy
<1> QED
  BY <1>1, <1>2, <1>3 DEF IndInv, LocksRight

-----------------------------------------------------------------------------
(* acquire() *)

\* pushcli() reads the flags of the CPU, which stay until it goes on.
LEMMA AcquireKeeps ==
  ASSUME Apart, IndInv, NEW c \in CPUs, NEW l \in Locks, Acquire(c, l)
  PROVE  IndInv'
<1>1. /\ Top(c).pc = "code" /\ l \notin Top(c).held
      /\ l = "device" => Top(c).held = {} /\ Top(c).kind # "scheduler"
      /\ UNCHANGED <<locked, owner, ncli, intena, flag, running, panic>>
      /\ InKernel(c)
  BY DEF Acquire, At, MayAcquire
<1>2. /\ Stack(c) # <<>> /\ Top(c) \in Frame
      /\ FrameRight(running[c], Top(c)) /\ CpuRight(c, Top(c)) /\ VarsOK /\ panic = "no"
  BY <1>1, Executing
<1>3. PICK f : f = [Top(c) EXCEPT !.pc = "flags", !.lk = l, !.eflags = flag[c]]
  OBVIOUS
<1>4. Becomes(c, f)
  BY <1>3 DEF Acquire
<1>5. /\ f \in Frame /\ f.pc = "flags" /\ f.lk = l /\ f.eflags = flag[c]
      /\ f.kind = Top(c).kind /\ f.held = Top(c).held
  BY <1>2, <1>3 DEF Frame, VarsOK
<1>6. FrameRight(running[c], f)
  BY <1>1, <1>2, <1>5 DEF FrameRight, Locks
<1>7. CpuRight(c, f)'
  <2>1. Depth(f) = Depth(Top(c))
    BY <1>1, <1>5 DEF Depth, Busy
  <2> QED
    BY <1>1, <1>2, <1>5, <2>1 DEF CpuRight
<1>8. \A k \in Locks : TakenBy(f, k) <=> TakenBy(Top(c), k)
  BY <1>1, <1>5 DEF TakenBy
<1> QED
  <2>1. /\ locked' \in [Locks -> BOOLEAN] /\ owner' \in [Locks -> CPUs \cup {0}]
        /\ ncli' \in [CPUs -> Nat] /\ intena' \in [CPUs -> BOOLEAN]
        /\ flag' \in [CPUs -> BOOLEAN] /\ running' = running /\ panic' = "no"
        /\ \A d \in CPUs : d # c =>
             ncli'[d] = ncli[d] /\ intena'[d] = intena[d] /\ flag'[d] = flag[d]
        /\ \A k \in Locks :
             (TakenBy(f, k) <=> TakenBy(Top(c), k)) /\ (locked'[k] <=> locked[k])
        /\ \A k \in Locks : (k \in f.held <=> k \in Top(c).held) /\ owner'[k] = owner[k]
    BY <1>1, <1>2, <1>5, <1>8 DEF VarsOK
  <2> QED
    BY <1>2, <1>4, <1>5, <1>6, <1>7, <2>1, FrameStep

\* The CPU does not hold the lock it asks for, and ncli counts the acquire() from here on.
LEMMA AcquireCheckKeeps ==
  ASSUME Apart, IndInv, NEW c \in CPUs, AcquireCheck(c)
  PROVE  IndInv'
<1>1. /\ Top(c).pc = "flags" /\ InKernel(c)
      /\ flag' = [flag EXCEPT ![c] = FALSE]
      /\ intena' = [intena EXCEPT ![c] = IF ncli[c] = 0 THEN Top(c).eflags ELSE @]
      /\ ncli' = [ncli EXCEPT ![c] = @ + 1]
      /\ UNCHANGED <<locked, owner, running>>
      /\ panic' = IF locked[Top(c).lk] /\ owner[Top(c).lk] = c THEN "acquire" ELSE "no"
  BY DEF AcquireCheck, At, Pushcli, Holding
<1>2. /\ Stack(c) # <<>> /\ Top(c) \in Frame
      /\ FrameRight(running[c], Top(c)) /\ CpuRight(c, Top(c)) /\ VarsOK
      /\ \A l \in Locks : owner[l] = c <=> l \in Top(c).held
  BY <1>1, Executing
<1>3. PICK f : f = [Top(c) EXCEPT !.pc = "xchg"]
  OBVIOUS
<1>4. Becomes(c, f)
  BY <1>3 DEF AcquireCheck, Goes
<1>5. /\ f \in Frame /\ f.pc = "xchg" /\ f.lk = Top(c).lk
      /\ f.kind = Top(c).kind /\ f.held = Top(c).held
      /\ Top(c).lk \in Locks /\ Top(c).eflags \in BOOLEAN
  BY <1>2, <1>3 DEF Frame
<1>6. FrameRight(running[c], f)
  BY <1>1, <1>2, <1>5 DEF FrameRight
<1>7. panic' = "no"
  BY <1>1, <1>2, <1>5 DEF FrameRight
<1>8. /\ locked' \in [Locks -> BOOLEAN] /\ owner' \in [Locks -> CPUs \cup {0}]
      /\ ncli' \in [CPUs -> Nat] /\ intena' \in [CPUs -> BOOLEAN]
      /\ flag' \in [CPUs -> BOOLEAN] /\ running' = running
      /\ \A d \in CPUs : d # c =>
           ncli'[d] = ncli[d] /\ intena'[d] = intena[d] /\ flag'[d] = flag[d]
  BY <1>1, <1>2, <1>5 DEF VarsOK
<1>9. CpuRight(c, f)'
  <2>1. Depth(f) = Depth(Top(c)) + 1 /\ Depth(f) \in Nat /\ Depth(Top(c)) \in Nat
    BY <1>1, <1>5 DEF Depth, Busy
  <2>2. ~flag'[c] /\ ncli'[c] = ncli[c] + 1
        /\ intena'[c] = IF ncli[c] = 0 THEN Top(c).eflags ELSE intena[c]
    BY <1>1, <1>2 DEF VarsOK
  <2> QED
    BY <1>1, <1>2, <1>5, <2>1, <2>2 DEF CpuRight
<1>10. \A k \in Locks : TakenBy(f, k) <=> TakenBy(Top(c), k)
  BY <1>1, <1>5 DEF TakenBy
<1> QED
  <2>1. /\ \A k \in Locks :
             (TakenBy(f, k) <=> TakenBy(Top(c), k)) /\ (locked'[k] <=> locked[k])
        /\ \A k \in Locks : (k \in f.held <=> k \in Top(c).held) /\ owner'[k] = owner[k]
    BY <1>1, <1>5, <1>10
  <2> QED
    BY <1>2, <1>4, <1>5, <1>6, <1>7, <1>8, <1>9, <2>1, FrameStep

\* A lock that is free becomes that of one CPU.
LEMMA XchgKeeps ==
  ASSUME Apart, IndInv, NEW c \in CPUs, Xchg(c)
  PROVE  IndInv'
<1>1. /\ Top(c).pc = "xchg" /\ InKernel(c) /\ ~locked[Top(c).lk]
      /\ locked' = [locked EXCEPT ![Top(c).lk] = TRUE]
      /\ UNCHANGED <<owner, ncli, intena, flag, running, panic>>
  BY DEF Xchg, At
<1>2. /\ Stack(c) # <<>> /\ Top(c) \in Frame /\ panic = "no"
      /\ FrameRight(running[c], Top(c)) /\ CpuRight(c, Top(c)) /\ VarsOK
  BY <1>1, Executing
<1>3. PICK f : f = [Top(c) EXCEPT !.pc = "own"]
  OBVIOUS
<1>4. Becomes(c, f)
  BY <1>3 DEF Xchg, Goes
<1>5. /\ f \in Frame /\ f.pc = "own" /\ f.lk = Top(c).lk
      /\ f.kind = Top(c).kind /\ f.held = Top(c).held /\ Top(c).lk \in Locks
  BY <1>2, <1>3 DEF Frame
<1>6. FrameRight(running[c], f)
  BY <1>1, <1>2, <1>5 DEF FrameRight
<1>7. /\ locked' \in [Locks -> BOOLEAN] /\ owner' \in [Locks -> CPUs \cup {0}]
      /\ ncli' \in [CPUs -> Nat] /\ intena' \in [CPUs -> BOOLEAN]
      /\ flag' \in [CPUs -> BOOLEAN] /\ running' = running /\ panic' = "no"
      /\ \A d \in CPUs : d # c =>
           ncli'[d] = ncli[d] /\ intena'[d] = intena[d] /\ flag'[d] = flag[d]
  BY <1>1, <1>2, <1>5 DEF VarsOK
<1>8. CpuRight(c, f)'
  <2>1. Depth(f) = Depth(Top(c))
    BY <1>1, <1>5 DEF Depth, Busy
  <2> QED
    BY <1>1, <1>2, <1>5, <2>1 DEF CpuRight
<1>9. \A k \in Locks : \/ (TakenBy(f, k) <=> TakenBy(Top(c), k)) /\ (locked'[k] <=> locked[k])
                       \/ TakenBy(f, k) /\ ~locked[k] /\ locked'[k]
  BY <1>1, <1>2, <1>5 DEF TakenBy, VarsOK
<1>10. \A k \in Locks : (k \in f.held <=> k \in Top(c).held) /\ owner'[k] = owner[k]
  BY <1>1, <1>5
<1> QED
  BY <1>2, <1>4, <1>5, <1>6, <1>7, <1>8, <1>9, <1>10, FrameStep

\* Nobody else can have become the owner meanwhile.
LEMMA AcquireOwnKeeps ==
  ASSUME Apart, IndInv, NEW c \in CPUs, AcquireOwn(c)
  PROVE  IndInv'
<1>1. /\ Top(c).pc = "own" /\ InKernel(c)
      /\ owner' = [owner EXCEPT ![Top(c).lk] = c]
      /\ UNCHANGED <<locked, ncli, intena, flag, running, panic>>
  BY DEF AcquireOwn, At
<1>2. /\ Stack(c) # <<>> /\ Top(c) \in Frame /\ panic = "no"
      /\ FrameRight(running[c], Top(c)) /\ CpuRight(c, Top(c)) /\ VarsOK
  BY <1>1, Executing
<1>3. PICK f : f = Entered(Top(c).kind, "code", Top(c).held \cup {Top(c).lk})
  OBVIOUS
<1>4. Becomes(c, f)
  BY <1>3 DEF AcquireOwn
<1>5. /\ Top(c).kind \in Kinds /\ Top(c).lk \in Locks /\ Top(c).held \in SUBSET Locks
      /\ f \in Frame /\ f.pc = "code" /\ f.lk = "ptable"
      /\ f.kind = Top(c).kind /\ f.held = Top(c).held \cup {Top(c).lk}
  BY <1>2, <1>3 DEF Frame, Entered, Locks
<1>6. FrameRight(running[c], f)
  BY <1>1, <1>2, <1>5 DEF FrameRight
<1>7. /\ locked' \in [Locks -> BOOLEAN] /\ owner' \in [Locks -> CPUs \cup {0}]
      /\ ncli' \in [CPUs -> Nat] /\ intena' \in [CPUs -> BOOLEAN]
      /\ flag' \in [CPUs -> BOOLEAN] /\ running' = running /\ panic' = "no"
      /\ \A d \in CPUs : d # c =>
           ncli'[d] = ncli[d] /\ intena'[d] = intena[d] /\ flag'[d] = flag[d]
  BY <1>1, <1>2, <1>5 DEF VarsOK
<1>8. CpuRight(c, f)'
  <2>1. Depth(f) = Depth(Top(c)) /\ Depth(f) > 0
    BY <1>1, <1>2, <1>5 DEF Depth, Busy, FrameRight, Locks
  <2> QED
    BY <1>1, <1>2, <1>5, <2>1 DEF CpuRight
<1>9. \A k \in Locks : (TakenBy(f, k) <=> TakenBy(Top(c), k)) /\ (locked'[k] <=> locked[k])
  BY <1>1, <1>5 DEF TakenBy
<1>10. \A k \in Locks :
         \/ (k \in f.held <=> k \in Top(c).held) /\ owner'[k] = owner[k]
         \/ k \in f.held /\ TakenBy(Top(c), k) /\ owner'[k] = c
  BY <1>1, <1>2, <1>5 DEF TakenBy, VarsOK
<1> QED
  BY <1>2, <1>4, <1>5, <1>6, <1>7, <1>8, <1>9, <1>10, FrameStep

-----------------------------------------------------------------------------
(* release() *)

\* Who releases a lock is its owner: no panic.
LEMMA ReleaseKeeps ==
  ASSUME Apart, IndInv, NEW c \in CPUs, NEW l \in Locks, Release(c, l)
  PROVE  IndInv'
<1>1. /\ Top(c).pc = "code" /\ InKernel(c) /\ l \in Top(c).held
      /\ UNCHANGED <<locked, ncli, intena, flag, running>>
  BY DEF Release, At
<1>2. /\ Stack(c) # <<>> /\ Top(c) \in Frame /\ panic = "no"
      /\ FrameRight(running[c], Top(c)) /\ CpuRight(c, Top(c)) /\ VarsOK
      /\ TakenBy(Top(c), l) => locked[l]
      /\ owner[l] = c <=> l \in Top(c).held
  BY <1>1, Executing
<1>3. owner[l] = c /\ locked[l]
  BY <1>1, <1>2 DEF TakenBy
<1>4. owner' = [owner EXCEPT ![l] = 0] /\ panic' = "no"
  BY <1>2, <1>3 DEF Release, Holding
<1>5. PICK f : f = [Top(c) EXCEPT !.pc = "clear", !.lk = l, !.held = @ \ {l}]
  OBVIOUS
<1>6. Becomes(c, f)
  BY <1>5 DEF Release
<1>7. /\ f \in Frame /\ f.pc = "clear" /\ f.lk = l
      /\ f.kind = Top(c).kind /\ f.held = Top(c).held \ {l}
  BY <1>2, <1>5 DEF Frame
<1>8. FrameRight(running[c], f)
  BY <1>1, <1>2, <1>7 DEF FrameRight, Locks
<1>9. /\ locked' \in [Locks -> BOOLEAN] /\ owner' \in [Locks -> CPUs \cup {0}]
      /\ ncli' \in [CPUs -> Nat] /\ intena' \in [CPUs -> BOOLEAN]
      /\ flag' \in [CPUs -> BOOLEAN] /\ running' = running
      /\ \A d \in CPUs : d # c =>
           ncli'[d] = ncli[d] /\ intena'[d] = intena[d] /\ flag'[d] = flag[d]
  BY <1>1, <1>2, <1>4 DEF VarsOK
<1>10. CpuRight(c, f)'
  <2>1. Depth(f) = Depth(Top(c)) /\ Depth(f) > 0
    BY <1>1, <1>7 DEF Depth, Busy, Locks
  <2> QED
    BY <1>1, <1>2, <1>7, <2>1 DEF CpuRight
<1>11. \A k \in Locks : (TakenBy(f, k) <=> TakenBy(Top(c), k)) /\ (locked'[k] <=> locked[k])
  BY <1>1, <1>7 DEF TakenBy
<1>12. \A k \in Locks :
         \/ (k \in f.held <=> k \in Top(c).held) /\ owner'[k] = owner[k]
         \/ k \notin f.held /\ owner[k] = c /\ owner'[k] = 0
  BY <1>2, <1>3, <1>4, <1>7 DEF VarsOK
<1> QED
  BY <1>2, <1>4, <1>6, <1>7, <1>8, <1>9, <1>10, <1>11, <1>12, FrameStep

\* The lock was taken by this CPU alone until it is cleared.
LEMMA ReleaseClearKeeps ==
  ASSUME Apart, IndInv, NEW c \in CPUs, ReleaseClear(c)
  PROVE  IndInv'
<1>1. /\ Top(c).pc = "clear" /\ InKernel(c)
      /\ locked' = [locked EXCEPT ![Top(c).lk] = FALSE]
      /\ UNCHANGED <<owner, ncli, intena, flag, running, panic>>
  BY DEF ReleaseClear, At
<1>2. /\ Stack(c) # <<>> /\ Top(c) \in Frame /\ panic = "no"
      /\ FrameRight(running[c], Top(c)) /\ CpuRight(c, Top(c)) /\ VarsOK
  BY <1>1, Executing
<1>3. PICK f : f = [Top(c) EXCEPT !.pc = "popcli"]
  OBVIOUS
<1>4. Becomes(c, f)
  BY <1>3 DEF ReleaseClear, Goes
<1>5. /\ f \in Frame /\ f.pc = "popcli" /\ f.lk = Top(c).lk
      /\ f.kind = Top(c).kind /\ f.held = Top(c).held /\ Top(c).lk \in Locks
  BY <1>2, <1>3 DEF Frame
<1>6. FrameRight(running[c], f)
  BY <1>1, <1>2, <1>5 DEF FrameRight
<1>7. /\ locked' \in [Locks -> BOOLEAN] /\ owner' \in [Locks -> CPUs \cup {0}]
      /\ ncli' \in [CPUs -> Nat] /\ intena' \in [CPUs -> BOOLEAN]
      /\ flag' \in [CPUs -> BOOLEAN] /\ running' = running /\ panic' = "no"
      /\ \A d \in CPUs : d # c =>
           ncli'[d] = ncli[d] /\ intena'[d] = intena[d] /\ flag'[d] = flag[d]
  BY <1>1, <1>2, <1>5 DEF VarsOK
<1>8. CpuRight(c, f)'
  <2>1. Depth(f) = Depth(Top(c))
    BY <1>1, <1>5 DEF Depth, Busy
  <2> QED
    BY <1>1, <1>2, <1>5, <2>1 DEF CpuRight
<1>9. \A k \in Locks : \/ (TakenBy(f, k) <=> TakenBy(Top(c), k)) /\ (locked'[k] <=> locked[k])
                       \/ ~TakenBy(f, k) /\ TakenBy(Top(c), k) /\ ~locked'[k]
  BY <1>1, <1>2, <1>5 DEF TakenBy, VarsOK, FrameRight
<1>10. \A k \in Locks : (k \in f.held <=> k \in Top(c).held) /\ owner'[k] = owner[k]
  BY <1>1, <1>5
<1> QED
  BY <1>2, <1>4, <1>5, <1>6, <1>7, <1>8, <1>9, <1>10, FrameStep

\* popcli() finds ncli above zero and interrupts off, and intena is that of the frame.
LEMMA ReleasePopcliKeeps ==
  ASSUME Apart, IndInv, NEW c \in CPUs, ReleasePopcli(c)
  PROVE  IndInv'
<1>1. Top(c).pc = "popcli" /\ InKernel(c) /\ UNCHANGED <<locked, owner, intena, running>>
  BY DEF ReleasePopcli, At
<1>2. /\ Stack(c) # <<>> /\ Top(c) \in Frame /\ panic = "no"
      /\ FrameRight(running[c], Top(c)) /\ CpuRight(c, Top(c)) /\ VarsOK
  BY <1>1, Executing
<1>3. PICK f : f = Entered(Top(c).kind, IF Top(c).kind = "scheduler" THEN "loop" ELSE "code",
                           Top(c).held)
  OBVIOUS
<1>4. Becomes(c, f)
  BY <1>3 DEF ReleasePopcli
<1>5. /\ Top(c).kind \in Kinds /\ Top(c).held \in SUBSET Locks /\ Top(c).lk \in Locks
      /\ f \in Frame /\ f.pc = IF Top(c).kind = "scheduler" THEN "loop" ELSE "code"
      /\ f.lk = "ptable" /\ f.kind = Top(c).kind /\ f.held = Top(c).held
  BY <1>2, <1>3 DEF Frame, Entered, Locks
<1>6. Depth(Top(c)) = Depth(f) + 1 /\ Depth(f) \in Nat
  BY <1>1, <1>5 DEF Depth, Busy
<1>7. ncli[c] = Depth(f) + 1 /\ ~flag[c]
  BY <1>2, <1>6 DEF CpuRight
<1>8. /\ ncli' = [ncli EXCEPT ![c] = @ - 1]
      /\ flag' = [flag EXCEPT ![c] = ncli[c] = 1 /\ intena[c]]
      /\ panic' = "no"
  BY <1>2, <1>6, <1>7 DEF ReleasePopcli, Popcli
<1>9. FrameRight(running[c], f)
  BY <1>1, <1>2, <1>5 DEF FrameRight, Locks
<1>10. ncli'[c] = Depth(f) /\ (flag'[c] <=> Depth(f) = 0 /\ intena[c]) /\ intena' = intena
  BY <1>1, <1>2, <1>6, <1>7, <1>8 DEF VarsOK
<1>11. ncli' \in [CPUs -> Nat]
  BY <1>2, <1>6, <1>7, <1>8 DEF VarsOK
<1>12. /\ locked' \in [Locks -> BOOLEAN] /\ owner' \in [Locks -> CPUs \cup {0}]
       /\ intena' \in [CPUs -> BOOLEAN] /\ flag' \in [CPUs -> BOOLEAN] /\ running' = running
       /\ \A d \in CPUs : d # c =>
            ncli'[d] = ncli[d] /\ intena'[d] = intena[d] /\ flag'[d] = flag[d]
  BY <1>1, <1>2, <1>8 DEF VarsOK
<1>13. CpuRight(c, f)'
  <2>1. Top(c).kind = "handler" => ~intena[c]
    BY <1>1, <1>2, <1>6 DEF CpuRight
  <2>2. Top(c).kind = "syscall" => intena[c]
    BY <1>1, <1>2, <1>6 DEF CpuRight
  <2>3. f.pc # "flags"
    BY <1>5
  <2> QED
    BY <1>5, <1>6, <1>10, <2>1, <2>2, <2>3 DEF CpuRight
<1>14. \A k \in Locks : (TakenBy(f, k) <=> TakenBy(Top(c), k)) /\ (locked'[k] <=> locked[k])
  BY <1>1, <1>5 DEF TakenBy
<1>15. \A k \in Locks : (k \in f.held <=> k \in Top(c).held) /\ owner'[k] = owner[k]
  BY <1>1, <1>5
<1> QED
  BY <1>2, <1>4, <1>5, <1>8, <1>9, <1>11, <1>12, <1>13, <1>14, <1>15, FrameStep

-----------------------------------------------------------------------------
(* Traps *)

\* A step that enters or leaves a trap: nobody's locks change.
LEMMA TrapStep ==
  ASSUME Apart, IndInv, NEW c \in CPUs,
         UNCHANGED <<locked, owner, ncli, intena, running, panic>>,
         flag' \in [CPUs -> BOOLEAN], \A d \in CPUs : d # c => flag'[d] = flag[d],
         DOMAIN stack' = Contexts, \A y \in Contexts : StackRight(y)', RunningRight',
         \A d \in CPUs : d # c => Stack(d)' = Stack(d),
         \A l \in Locks : ~Taken(c, l) /\ ~Taken(c, l)',
         Stack(c)' # <<>> => CpuRight(c, Top(c))',
         Stack(c)' = <<>> => flag'[c] /\ ncli'[c] = 0
  PROVE  IndInv'
<1>1. VarsOK'
  BY DEF VarsOK, IndInv
<1>2. CpusRight'
  <2>1. OthersKept(c)
    BY DEF OthersKept
  <2> QED
    BY <2>1, CpusKept DEF IndInv
<1>3. LocksRight'
  <2>1. \A l \in Locks : ~Owns(c, l) /\ ~Owns(c, l)'
    BY DEF Taken
  <2>2. \A l \in Locks : (Taken(c, l)' <=> Taken(c, l)) /\ (locked'[l] <=> locked[l])
    OBVIOUS
  <2>3. \A l \in Locks : (Owns(c, l)' <=> Owns(c, l)) /\ owner'[l] = owner[l]
    BY <2>1
  <2>4. LocksRight
    BY DEF IndInv
  <2> QED
    BY <2>2, <2>3, <2>4, LocksStep
<1>4. panic' = "no"
  BY DEF IndInv
<1> QED
  BY <1>1, <1>2, <1>3, <1>4 DEF IndInv

\* What has interrupts on can rest.
LEMMA InterruptsOn ==
  ASSUME IndInv, NEW c \in CPUs, flag[c], Stack(c) # <<>>
  PROVE  /\ Resting(Top(c)) /\ Len(Stack(c)) = 1 /\ ncli[c] = 0
         /\ \A l \in Locks : ~Taken(c, l)
<1> DEFINE f == Top(c)
<1>1. /\ StackRight(running[c]) /\ Len(Stack(c)) \in 1..2
      /\ f = Stack(c)[Len(Stack(c))] /\ f \in Frame
      /\ FrameRight(running[c], f) /\ CpuRight(c, f)
  BY TopFrame
<1>2. f.held \in SUBSET Locks /\ f.pc \in {"loop", "code", "flags", "xchg", "own", "clear",
                                          "popcli", "switched"}
  BY <1>1 DEF Frame
<1>3. Depth(f) \in Nat
  BY DEF Depth
<1>4. Depth(f) = 0 /\ f.kind # "handler" /\ ncli[c] = 0
  BY <1>1, <1>3 DEF CpuRight
<1>5. f.held = {} /\ f.pc \notin Busy
  BY <1>2, <1>4 DEF Depth, Locks
<1>6. Resting(f)
  BY <1>1, <1>2, <1>4, <1>5 DEF Resting, Busy, FrameRight, CpuRight
<1>7. Len(Stack(c)) = 1
  BY <1>1, <1>4 DEF StackRight, Stack
<1>8. \A l \in Locks : ~Taken(c, l)
  BY <1>5 DEF Taken, Owns, Busy
<1> QED
  BY <1>4, <1>6, <1>7, <1>8

\* The frame of a trap that begins.
LEMMA NewFrame ==
  ASSUME NEW kind \in Kinds
  PROVE  LET f == Entered(kind, "code", {}) IN
           /\ f \in Frame /\ f.kind = kind /\ f.pc = "code" /\ f.held = {}
           /\ Depth(f) = 0
BY DEF Entered, Frame, Locks, Depth, Busy

\* A system call begins with interrupts on and no lock.
LEMMA SyscallKeeps ==
  ASSUME Apart, IndInv, NEW c \in CPUs, Syscall(c)
  PROVE  IndInv'
<1>1. Stack(c) = <<>> /\ Enters(c, "syscall")
      /\ UNCHANGED <<locked, owner, ncli, intena, flag, running, panic>>
  BY DEF Syscall
<1>2. PICK f : f = Entered("syscall", "code", {})
  OBVIOUS
<1>3. f \in Frame /\ f.kind = "syscall" /\ f.pc = "code" /\ f.held = {} /\ Depth(f) = 0
  BY <1>2, NewFrame DEF Kinds
<1>4. /\ DOMAIN stack' = Contexts
      /\ \A y \in Contexts : StackRight(y)'
      /\ RunningRight'
      /\ Stack(c)' # <<>> /\ Top(c)' = f
      /\ \A d \in CPUs : d # c => Stack(d)' = Stack(d)
  <2>1. running' = running /\ "syscall" \in {"syscall", "handler"}
    BY <1>1
  <2> QED
    BY <1>1, <1>2, <2>1, Push
<1>5. flag[c] /\ ncli[c] = 0
  BY <1>1 DEF IndInv, CpusRight
<1>6. CpuRight(c, Top(c))'
  BY <1>1, <1>3, <1>4, <1>5 DEF CpuRight
<1>7. \A l \in Locks : ~Taken(c, l) /\ ~Taken(c, l)'
  BY <1>1, <1>3, <1>4 DEF Taken, Owns
<1>8. flag' \in [CPUs -> BOOLEAN] /\ \A d \in CPUs : d # c => flag'[d] = flag[d]
  BY <1>1 DEF IndInv, VarsOK
<1> QED
  BY <1>1, <1>4, <1>6, <1>7, <1>8, TrapStep

\* A handler begins with interrupts off, above a frame that can rest.
LEMMA InterruptKeeps ==
  ASSUME Apart, IndInv, NEW c \in CPUs, Interrupt(c)
  PROVE  IndInv'
<1>1. flag[c] /\ Enters(c, "handler") /\ flag' = [flag EXCEPT ![c] = FALSE]
      /\ UNCHANGED <<locked, owner, ncli, intena, running, panic>>
  BY DEF Interrupt
<1>2. PICK f : f = Entered("handler", "code", {})
  OBVIOUS
<1>3. f \in Frame /\ f.kind = "handler" /\ f.pc = "code" /\ f.held = {} /\ Depth(f) = 0
  BY <1>2, NewFrame DEF Kinds
<1>4. \/ Stack(c) = <<>>
      \/ Len(Stack(c)) = 1 /\ Resting(Top(c))
  BY <1>1, InterruptsOn
<1>5. /\ DOMAIN stack' = Contexts
      /\ \A y \in Contexts : StackRight(y)'
      /\ RunningRight'
      /\ Stack(c)' # <<>> /\ Top(c)' = f
      /\ \A d \in CPUs : d # c => Stack(d)' = Stack(d)
  <2>1. running' = running /\ "handler" \in {"syscall", "handler"}
    BY <1>1
  <2> QED
    BY <1>1, <1>2, <1>4, <2>1, Push
<1>6. ncli[c] = 0 /\ \A l \in Locks : ~Taken(c, l)
  <2>1. CASE Stack(c) = <<>>
    BY <2>1 DEF IndInv, CpusRight, Taken, Owns
  <2>2. CASE Stack(c) # <<>>
    BY <1>1, <2>2, InterruptsOn
  <2> QED
    BY <2>1, <2>2
<1>7. flag' \in [CPUs -> BOOLEAN] /\ ~flag'[c] /\ \A d \in CPUs : d # c => flag'[d] = flag[d]
  BY <1>1 DEF IndInv, VarsOK
<1>8. CpuRight(c, Top(c))'
  BY <1>1, <1>3, <1>5, <1>6, <1>7 DEF CpuRight
<1>9. \A l \in Locks : ~Taken(c, l) /\ ~Taken(c, l)'
  BY <1>3, <1>5, <1>6 DEF Taken, Owns
<1> QED
  BY <1>1, <1>5, <1>7, <1>8, <1>9, TrapStep

\* The frame below has interrupts on again, as it had.
LEMMA IretKeeps ==
  ASSUME Apart, IndInv, NEW c \in CPUs, Iret(c)
  PROVE  IndInv'
<1>1. /\ Top(c).pc = "code" /\ InKernel(c) /\ Top(c).kind # "scheduler" /\ Top(c).held = {}
      /\ Returns(c) /\ flag' = [flag EXCEPT ![c] = TRUE]
      /\ UNCHANGED <<locked, owner, ncli, intena, running, panic>>
  BY DEF Iret, At
<1>2. Stack(c) # <<>> /\ CpuRight(c, Top(c)) /\ VarsOK
  BY <1>1, Executing
<1>3. /\ DOMAIN stack' = Contexts
      /\ \A y \in Contexts : StackRight(y)'
      /\ RunningRight'
      /\ Stack(c)' # <<>> => Top(c)' \in Frame /\ Resting(Top(c)')
      /\ \A d \in CPUs : d # c => Stack(d)' = Stack(d)
  <2>1. running' = running
    BY <1>1
  <2> QED
    BY <1>1, <1>2, <2>1, Pop
<1>4. ncli[c] = 0
  BY <1>1, <1>2 DEF CpuRight, Depth, Busy
<1>5. flag' \in [CPUs -> BOOLEAN] /\ flag'[c] /\ \A d \in CPUs : d # c => flag'[d] = flag[d]
  BY <1>1, <1>2 DEF VarsOK
<1>6. Stack(c)' # <<>> => CpuRight(c, Top(c))'
  <2> SUFFICES ASSUME Stack(c)' # <<>> PROVE CpuRight(c, Top(c))'
    OBVIOUS
  <2>1. PICK g : g = Top(c)'
    OBVIOUS
  <2>2. Resting(g)
    BY <1>3, <2>1
  <2>3. Depth(g) = 0
    BY <2>2 DEF Resting, Depth, Busy
  <2>4. CpuRight(c, g)'
    BY <1>1, <1>4, <1>5, <2>2, <2>3 DEF CpuRight, Resting
  <2> QED
    BY <2>1, <2>4 DEF CpuRight
<1>7. \A l \in Locks : ~Taken(c, l) /\ ~Taken(c, l)'
  BY <1>1, <1>3 DEF Taken, Owns, Resting
<1>8. Stack(c)' = <<>> => flag'[c] /\ ncli'[c] = 0
  BY <1>1, <1>4, <1>5
<1> QED
  BY <1>1, <1>3, <1>5, <1>6, <1>7, <1>8, TrapStep

-----------------------------------------------------------------------------
(* sched() and scheduler() *)

\* The thread gets back the intena it had saved.
LEMMA SwitchedKeeps ==
  ASSUME Apart, IndInv, NEW c \in CPUs, Switched(c)
  PROVE  IndInv'
<1>1. /\ Top(c).pc = "switched" /\ InKernel(c)
      /\ intena' = [intena EXCEPT ![c] = Top(c).saved]
      /\ UNCHANGED <<locked, owner, ncli, flag, running, panic>>
  BY DEF Switched, At
<1>2. /\ Stack(c) # <<>> /\ Top(c) \in Frame /\ panic = "no"
      /\ FrameRight(running[c], Top(c)) /\ CpuRight(c, Top(c)) /\ VarsOK
  BY <1>1, Executing
<1>3. PICK f : f = Entered(Top(c).kind, "code", Top(c).held)
  OBVIOUS
<1>4. Becomes(c, f)
  BY <1>3 DEF Switched
<1>5. /\ Top(c).kind \in Kinds /\ Top(c).held \in SUBSET Locks /\ Top(c).saved \in BOOLEAN
      /\ f \in Frame /\ f.pc = "code" /\ f.lk = "ptable"
      /\ f.kind = Top(c).kind /\ f.held = Top(c).held
  BY <1>2, <1>3 DEF Frame, Entered, Locks
<1>6. FrameRight(running[c], f)
  BY <1>1, <1>2, <1>5 DEF FrameRight
<1>7. /\ locked' \in [Locks -> BOOLEAN] /\ owner' \in [Locks -> CPUs \cup {0}]
      /\ ncli' \in [CPUs -> Nat] /\ intena' \in [CPUs -> BOOLEAN]
      /\ flag' \in [CPUs -> BOOLEAN] /\ running' = running /\ panic' = "no"
      /\ \A d \in CPUs : d # c =>
           ncli'[d] = ncli[d] /\ intena'[d] = intena[d] /\ flag'[d] = flag[d]
      /\ intena'[c] = Top(c).saved
  BY <1>1, <1>2, <1>5 DEF VarsOK
<1>8. CpuRight(c, f)'
  <2>1. Depth(f) = Depth(Top(c)) /\ Depth(f) > 0
    BY <1>1, <1>2, <1>5 DEF Depth, Busy, FrameRight
  <2> QED
    BY <1>1, <1>2, <1>5, <1>7, <2>1 DEF CpuRight, FrameRight
<1>9. \A k \in Locks : (TakenBy(f, k) <=> TakenBy(Top(c), k)) /\ (locked'[k] <=> locked[k])
  BY <1>1, <1>5 DEF TakenBy
<1>10. \A k \in Locks : (k \in f.held <=> k \in Top(c).held) /\ owner'[k] = owner[k]
  BY <1>1, <1>5
<1> QED
  BY <1>2, <1>4, <1>5, <1>6, <1>7, <1>8, <1>9, <1>10, FrameStep

\* The scheduler turns interrupts on only when it holds nothing.
LEMMA StiKeeps ==
  ASSUME Apart, IndInv, NEW c \in CPUs, Sti(c)
  PROVE  IndInv'
<1>1. /\ Top(c).pc = "loop" /\ InKernel(c)
      /\ flag' = [flag EXCEPT ![c] = TRUE]
      /\ UNCHANGED <<locked, owner, ncli, intena, running, panic>>
  BY DEF Sti, At
<1>2. /\ Stack(c) # <<>> /\ Top(c) \in Frame /\ panic = "no"
      /\ FrameRight(running[c], Top(c)) /\ CpuRight(c, Top(c)) /\ VarsOK
  BY <1>1, Executing
<1>3. PICK f : f = [Top(c) EXCEPT !.pc = "code"]
  OBVIOUS
<1>4. Becomes(c, f)
  BY <1>3 DEF Sti, Goes
<1>5. /\ f \in Frame /\ f.pc = "code" /\ f.lk = Top(c).lk
      /\ f.kind = Top(c).kind /\ f.held = Top(c).held
  BY <1>2, <1>3 DEF Frame
<1>6. f.kind = "scheduler" /\ f.held = {}
  BY <1>1, <1>2, <1>5 DEF FrameRight
<1>7. FrameRight(running[c], f)
  BY <1>2, <1>5, <1>6 DEF FrameRight
<1>8. /\ locked' \in [Locks -> BOOLEAN] /\ owner' \in [Locks -> CPUs \cup {0}]
      /\ ncli' \in [CPUs -> Nat] /\ intena' \in [CPUs -> BOOLEAN]
      /\ flag' \in [CPUs -> BOOLEAN] /\ running' = running /\ panic' = "no"
      /\ \A d \in CPUs : d # c =>
           ncli'[d] = ncli[d] /\ intena'[d] = intena[d] /\ flag'[d] = flag[d]
  BY <1>1, <1>2 DEF VarsOK
<1>9. CpuRight(c, f)'
  <2>1. Depth(f) = 0 /\ Depth(Top(c)) = 0
    BY <1>1, <1>5, <1>6 DEF Depth, Busy
  <2> QED
    BY <1>1, <1>2, <1>5, <1>6, <2>1 DEF CpuRight
<1>10. \A k \in Locks : (TakenBy(f, k) <=> TakenBy(Top(c), k)) /\ (locked'[k] <=> locked[k])
  BY <1>1, <1>5 DEF TakenBy
<1>11. \A k \in Locks : (k \in f.held <=> k \in Top(c).held) /\ owner'[k] = owner[k]
  BY <1>1, <1>5
<1> QED
  BY <1>2, <1>4, <1>5, <1>7, <1>8, <1>9, <1>10, <1>11, FrameStep

\* A switch between a scheduler and a thread: the process table lock stays with the CPU.
LEMMA SwitchStep ==
  ASSUME Apart, IndInv, NEW c \in CPUs, InKernel(c),
         UNCHANGED <<locked, owner, ncli, intena, flag>>, panic' = "no",
         DOMAIN stack' = Contexts, \A y \in Contexts : StackRight(y)', RunningRight',
         running' \in [CPUs -> Contexts],
         \A d \in CPUs : d # c => Stack(d)' = Stack(d),
         Top(c).held = {"ptable"}, Top(c).pc = "code",
         Stack(c)' # <<>>, NEW f, Top(c)' = f, f.held = {"ptable"},
         \/ f.pc = "switched"
         \/ f.pc = "code" /\ f.kind \in {"scheduler", "forkret"}
  PROVE  IndInv'
<1>1. Stack(c) # <<>> /\ CpuRight(c, Top(c))
  BY Executing
<1>2. VarsOK'
  BY DEF IndInv, VarsOK
<1>3. CpusRight'
  <2>1. OthersKept(c)
    BY DEF OthersKept
  <2>2. Depth(f) = 1 /\ Depth(Top(c)) = 1
    BY DEF Depth, Busy
  <2>3. CpuRight(c, f)'
    BY <1>1, <2>2 DEF CpuRight
  <2>4. CpuRight(c, Top(c))'
    BY <2>3 DEF CpuRight
  <2> QED
    BY <2>1, <2>4, CpusKept DEF IndInv
<1>4. LocksRight'
  <2>1. \A l \in Locks : (Owns(c, l)' <=> Owns(c, l)) /\ (Taken(c, l)' <=> Taken(c, l))
    BY <1>1 DEF Owns, Taken
  <2>2. \A l \in Locks : (Taken(c, l)' <=> Taken(c, l)) /\ (locked'[l] <=> locked[l])
    BY <2>1
  <2>3. \A l \in Locks : (Owns(c, l)' <=> Owns(c, l)) /\ owner'[l] = owner[l]
    BY <2>1
  <2>4. LocksRight
    BY DEF IndInv
  <2> QED
    BY <2>2, <2>3, <2>4, LocksStep
<1> QED
  BY <1>2, <1>3, <1>4 DEF IndInv

\* sched() finds one lock, the right one, and hands it to the scheduler of the CPU.
LEMMA SchedKeeps ==
  ASSUME Apart, IndInv, NEW c \in CPUs, Sched(c)
  PROVE  IndInv'
<1> DEFINE x == running[c]
<1>1. /\ Top(c).pc = "code" /\ InKernel(c) /\ x \in Threads /\ Top(c).held = {"ptable"}
      /\ running' = [running EXCEPT ![c] = c]
      /\ UNCHANGED <<locked, owner, ncli, intena, flag>>
      /\ Becomes(c, [Top(c) EXCEPT !.pc = "switched", !.saved = intena[c]])
  BY Zenon DEF Sched, At
<1>2. /\ Stack(c) # <<>> /\ Top(c) \in Frame /\ panic = "no"
      /\ FrameRight(x, Top(c)) /\ CpuRight(c, Top(c)) /\ VarsOK
      /\ \A l \in Locks : /\ TakenBy(Top(c), l) => locked[l]
                          /\ owner[l] = c <=> l \in Top(c).held
  BY <1>1, Executing
<1>3. Depth(Top(c)) = 1
  BY <1>1 DEF Depth, Busy
<1>4. panic' = "no"
  <2>1. Holding(c, "ptable")
    BY <1>1, <1>2 DEF Holding, TakenBy, Locks
  <2>2. ncli[c] = 1 /\ ~flag[c]
    BY <1>2, <1>3 DEF CpuRight
  <2> QED
    BY <2>1, <2>2, Zenon DEF Sched
<1>5. PICK f : f = [Top(c) EXCEPT !.pc = "switched", !.saved = intena[c]]
  OBVIOUS
<1>6. Becomes(c, f)
  BY <1>1, <1>5
<1>7. /\ f \in Frame /\ f.pc = "switched" /\ f.lk = Top(c).lk /\ f.saved = intena[c]
      /\ f.kind = Top(c).kind /\ f.held = Top(c).held
  BY <1>2, <1>5 DEF Frame, VarsOK
<1>8. FrameRight(x, f)
  BY <1>1, <1>2, <1>3, <1>7 DEF FrameRight, CpuRight
<1>9. /\ DOMAIN stack' = Contexts
      /\ Len(stack'[x]) = Len(stack[x])
      /\ stack'[x][Len(stack[x])] = f
      /\ \A y \in Contexts : y # x => stack'[y] = stack[y]
  BY <1>2, <1>6, <1>7, BecomesFrames
<1>10. \A y \in Contexts : StackRight(y)'
  BY <1>2, <1>6, <1>7, <1>8, ReplaceFrame
<1>11. c # x /\ c \in Contexts /\ running'[c] = c /\ running' \in [CPUs -> Contexts]
       /\ \A d \in CPUs : d # c => running'[d] = running[d]
  BY <1>1, <1>2 DEF Apart, Contexts, VarsOK
<1>12. Len(stack[c]) = 1 /\ stack[c][1].pc = "code" /\ stack[c][1].held = {"ptable"}
       /\ stack[c][1].kind = "scheduler"
  BY <1>11 DEF IndInv, RunningRight, StackRight
<1>13. PICK g : g = stack[c][1]
  OBVIOUS
<1>14. Stack(c)' # <<>> /\ Top(c)' = g
  BY <1>9, <1>11, <1>12, <1>13 DEF Stack, Top, Last
<1>15. \A d \in CPUs : d # c => Stack(d)' = Stack(d)
  BY <1>2, <1>9, <1>11 DEF Stack, VarsOK, IndInv, RunningRight
<1>16. RunningRight'
  <2>1. /\ \A d \in CPUs : running[d] = d \/ running[d] \in Threads
        /\ \A d, e \in CPUs : running[d] = running[e] => d = e
        /\ \A d \in CPUs : running[d] # d =>
             Len(stack[d]) = 1 /\ stack[d][1].pc = "code" /\ stack[d][1].held = {"ptable"}
        /\ \A t \in Threads : (\A d \in CPUs : running[d] # t) =>
             /\ Len(stack[t]) >= 1
             /\ LET h == stack[t][Len(stack[t])] IN
                  \/ h.pc = "switched"
                  \/ h.pc = "code" /\ h.kind = "forkret" /\ h.held = {"ptable"}
    BY DEF IndInv, RunningRight
  <2>2. \A d \in CPUs : running'[d] = d \/ running'[d] \in Threads
    BY <1>11, <2>1
  <2>3. \A d, e \in CPUs : running'[d] = running'[e] => d = e
    BY <1>11, <2>1 DEF Apart
  <2>4. \A d \in CPUs : running'[d] # d =>
          Len(stack'[d]) = 1 /\ stack'[d][1].pc = "code" /\ stack'[d][1].held = {"ptable"}
    <3>1. \A d \in CPUs : stack'[d] = stack[d]
      BY <1>1, <1>9 DEF Apart, Contexts
    <3> QED
      BY <1>11, <2>1, <3>1
  <2>5. ASSUME NEW t \in Threads, \A d \in CPUs : running'[d] # t
        PROVE  /\ Len(stack'[t]) >= 1
               /\ LET h == stack'[t][Len(stack'[t])] IN
                    \/ h.pc = "switched"
                    \/ h.pc = "code" /\ h.kind = "forkret" /\ h.held = {"ptable"}
    <3>1. CASE t = x
      <4>1. Len(Stack(c)) \in 1..2
        BY <1>2, TopFrame
      <4>2. PICK n : n = Len(stack[x])
        OBVIOUS
      <4>3. n \in 1..2
        BY <4>1, <4>2, Zenon DEF Stack
      <4>4. Len(stack'[t]) = n /\ stack'[t][n] = f
        BY <1>9, <3>1, <4>2, Zenon
      <4> QED
        BY <1>7, <4>3, <4>4
    <3>2. CASE t # x
      <4>1. stack'[t] = stack[t]
        BY <1>9, <3>2 DEF Contexts
      <4>2. \A d \in CPUs : running[d] # t
        BY <1>11, <2>5, <3>2
      <4> QED
        BY <2>1, <4>1, <4>2
    <3> QED
      BY <3>1, <3>2
  <2> QED
    BY <2>2, <2>3, <2>4, <2>5 DEF RunningRight
<1>17. g.held = {"ptable"} /\ g.pc = "code" /\ g.kind \in {"scheduler", "forkret"}
  BY <1>12, <1>13
<1> QED
  BY <1>1, <1>4, <1>9, <1>10, <1>11, <1>14, <1>15, <1>16, <1>17, SwitchStep

\* The scheduler hands the process table lock to a thread that has it as its one lock.
LEMMA DispatchKeeps ==
  ASSUME Apart, IndInv, NEW c \in CPUs, NEW t \in Threads, Dispatch(c, t)
  PROVE  IndInv'
<1>1. /\ Top(c).pc = "code" /\ InKernel(c) /\ Top(c).held = {"ptable"}
      /\ Top(c).kind = "scheduler" /\ \A d \in CPUs : running[d] # t
      /\ running' = [running EXCEPT ![c] = t]
      /\ UNCHANGED <<locked, owner, ncli, intena, flag, stack, panic>>
  BY DEF Dispatch, At
<1>2. /\ Stack(c) # <<>> /\ Top(c) \in Frame /\ panic = "no"
      /\ FrameRight(running[c], Top(c)) /\ VarsOK
  BY <1>1, Executing
<1>3. running[c] = c
  BY <1>1, <1>2 DEF FrameRight, IndInv, RunningRight, Apart
<1>4. Len(stack[c]) = 1 /\ stack[c][1] = Top(c)
  <2>1. Len(Stack(c)) \in 1..2 /\ Top(c) = Stack(c)[Len(Stack(c))] /\ StackRight(running[c])
    BY <1>2, TopFrame
  <2> QED
    BY <1>1, <1>3, <2>1 DEF Stack, StackRight
<1>5. /\ running'[c] = t /\ running' \in [CPUs -> Contexts]
      /\ \A d \in CPUs : d # c => running'[d] = running[d]
  BY <1>1, <1>2 DEF VarsOK, Contexts
<1>6. PICK f : f = stack[t][Len(stack[t])]
  OBVIOUS
<1>7. /\ Len(stack[t]) >= 1
      /\ \/ f.pc = "switched"
         \/ f.pc = "code" /\ f.kind = "forkret" /\ f.held = {"ptable"}
  BY <1>1, <1>6 DEF IndInv, RunningRight
<1>8. StackRight(t) /\ stack[t] # <<>>
  BY <1>7 DEF IndInv, Contexts
<1>9. FrameRight(t, f)
  <2>1. Len(stack[t]) \in 1 .. Len(stack[t])
    BY <1>8, LastPlace DEF StackRight
  <2> QED
    BY <1>6, <1>8, <2>1 DEF StackRight
<1>10. f.held = {"ptable"}
  BY <1>7, <1>9 DEF FrameRight
<1>11. Stack(c)' # <<>> /\ Top(c)' = f
  BY <1>1, <1>5, <1>6, <1>8 DEF Stack, Top, Last
<1>12. \A d \in CPUs : d # c => Stack(d)' = Stack(d)
  BY <1>1, <1>5 DEF Stack
<1>13. DOMAIN stack' = Contexts /\ \A y \in Contexts : StackRight(y)'
  BY <1>1 DEF IndInv, VarsOK, StackRight
<1>14. RunningRight'
  <2>1. \A d \in CPUs : running'[d] = d \/ running'[d] \in Threads
    BY <1>5 DEF IndInv, RunningRight
  <2>2. \A d, e \in CPUs : running'[d] = running'[e] => d = e
    BY <1>1, <1>5 DEF IndInv, RunningRight
  <2>3. \A d \in CPUs : running'[d] # d =>
          Len(stack'[d]) = 1 /\ stack'[d][1].pc = "code" /\ stack'[d][1].held = {"ptable"}
    BY <1>1, <1>4, <1>5 DEF IndInv, RunningRight
  <2>4. ASSUME NEW u \in Threads, \A d \in CPUs : running'[d] # u
        PROVE  \A d \in CPUs : running[d] # u
    BY <1>3, <1>5, <2>4 DEF Apart
  <2>5. \A u \in Threads : (\A d \in CPUs : running'[d] # u) =>
          /\ Len(stack'[u]) >= 1
          /\ LET h == stack'[u][Len(stack'[u])] IN
               \/ h.pc = "switched"
               \/ h.pc = "code" /\ h.kind = "forkret" /\ h.held = {"ptable"}
    BY <1>1, <2>4 DEF IndInv, RunningRight
  <2> QED
    BY <2>1, <2>2, <2>3, <2>5 DEF RunningRight
<1> QED
  BY <1>1, <1>2, <1>5, <1>7, <1>10, <1>11, <1>12, <1>13, <1>14, SwitchStep

-----------------------------------------------------------------------------
(* The theorems *)

\* At boot every scheduler is before its first sti(), and every thread before its first run.
LEMMA InitHolds ==
  ASSUME Apart, Init
  PROVE  IndInv
<1> DEFINE s == Entered("scheduler", "loop", {})  t == Entered("forkret", "code", {"ptable"})
<1>1. /\ s \in Frame /\ s.kind = "scheduler" /\ s.pc = "loop" /\ s.held = {} /\ s.lk = "ptable"
      /\ t \in Frame /\ t.kind = "forkret" /\ t.pc = "code" /\ t.held = {"ptable"}
  BY DEF Entered, Frame, Kinds, Locks
<1>2. \A x \in Contexts : stack[x] = IF x \in CPUs THEN <<s>> ELSE <<t>>
  BY DEF Init
<1> HIDE DEF s, t
<1>3. VarsOK /\ panic = "no"
  BY DEF Init, VarsOK, Contexts
<1>4. \A c \in CPUs : running[c] = c /\ Stack(c) = <<s>> /\ Top(c) = s
  BY <1>2 DEF Init, Stack, Top, Last, Contexts
<1>5. ASSUME NEW x \in Contexts PROVE StackRight(x)
  <2>1. PICK f \in {s, t} : stack[x] = <<f>> /\ (x \in CPUs => f = s) /\ (f = s => x \in CPUs)
    BY <1>1, <1>2
  <2>2. f \in Frame /\ FrameRight(x, f)
    BY <1>1, <2>1 DEF FrameRight
  <2>3. stack[x] \in Seq(Frame) /\ Len(stack[x]) = 1 /\ stack[x][1] = f
    BY <2>1, <2>2
  <2> QED
    BY <1>1, <2>1, <2>2, <2>3 DEF StackRight
<1>6. RunningRight
  <2>1. \A u \in Threads : u \in Contexts /\ stack[u] = <<t>>
    BY <1>2 DEF Apart, Contexts
  <2> QED
    <3>1. \A u \in Threads : Len(stack[u]) = 1 /\ stack[u][1] = t
      BY <2>1
    <3>2. ASSUME NEW u \in Threads
          PROVE  /\ Len(stack[u]) >= 1
                 /\ LET h == stack[u][Len(stack[u])] IN
                      \/ h.pc = "switched"
                      \/ h.pc = "code" /\ h.kind = "forkret" /\ h.held = {"ptable"}
      BY <1>1, <3>1
    <3>3. \A c \in CPUs : running[c] = c
      BY <1>4
    <3> QED
      BY <3>2, <3>3 DEF RunningRight
<1>7. CpusRight
  <2>1. Depth(s) = 0
    BY <1>1 DEF Depth, Busy
  <2>2. \A c \in CPUs : ncli[c] = 0
    BY DEF Init
  <2> QED
    BY <1>1, <1>4, <2>1, <2>2 DEF CpusRight, CpuRight
<1>8. LocksRight
  <2>1. \A c \in CPUs, l \in Locks : ~Owns(c, l) /\ ~Taken(c, l)
    BY <1>1, <1>4 DEF Owns, Taken
  <2>2. \A l \in Locks : ~locked[l] /\ owner[l] = 0
    BY DEF Init
  <2> QED
    BY <2>1, <2>2 DEF LocksRight, Apart
<1> QED
  BY <1>3, <1>5, <1>6, <1>7, <1>8 DEF IndInv

\* Every step keeps the invariant.
LEMMA NextHolds ==
  ASSUME Apart, IndInv, [Next]_vars
  PROVE  IndInv'
<1>1. CASE UNCHANGED vars
  <2>1. UNCHANGED <<locked, owner, ncli, intena, flag, running, stack, panic>>
    BY <1>1 DEF vars
  <2> QED
    BY <2>1 DEF IndInv, VarsOK, StackRight, RunningRight, CpusRight, CpuRight, LocksRight,
                Owns, Taken, Stack, Top
<1>2. ASSUME NEW c \in CPUs, Step(c) PROVE IndInv'
  BY <1>2, AcquireKeeps, ReleaseKeeps, AcquireCheckKeeps, XchgKeeps, AcquireOwnKeeps,
     ReleaseClearKeeps, ReleasePopcliKeeps, SyscallKeeps, InterruptKeeps, IretKeeps,
     SchedKeeps, SwitchedKeeps, StiKeeps, DispatchKeeps
     DEF Step
<1> QED
  BY <1>1, <1>2 DEF Next

\* Below the current frame of a CPU nothing is held.
LEMMA HeldOnTop ==
  ASSUME IndInv, NEW c \in CPUs
  PROVE  /\ \A l : l \in HeldOn(c) => Owns(c, l)
         /\ \A i \in 1 .. Len(Stack(c)) - 1 : Resting(Stack(c)[i])
<1>1. running[c] \in Contexts /\ StackRight(running[c])
  BY DEF IndInv, VarsOK
<1>2. Stack(c) \in Seq(Frame) /\ \A i \in 1 .. Len(Stack(c)) - 1 : Resting(Stack(c)[i])
  BY <1>1 DEF StackRight, Stack
<1>3. ASSUME NEW l, l \in HeldOn(c) PROVE Owns(c, l)
  <2>1. PICK i \in DOMAIN Stack(c) : l \in Stack(c)[i].held
    BY <1>3 DEF HeldOn, OnCpu
  <2>2. Stack(c) # <<>> /\ Len(Stack(c)) \in Nat /\ i \in 1 .. Len(Stack(c))
    BY <1>2, <2>1
  <2>3. PICK n : n = Len(Stack(c))
    OBVIOUS
  <2>4. i \notin 1 .. n - 1
    BY <1>2, <2>1, <2>3 DEF Resting
  <2>5. n \in Nat /\ i \in 1 .. n
    BY <2>2, <2>3
  <2>6. i = n
    BY <2>4, <2>5
  <2> QED
    BY <2>1, <2>2, <2>3, <2>6 DEF Owns, Top, Last
<1> QED
  BY <1>2, <1>3

\* The invariant implies the properties.
LEMMA InvSafe ==
  ASSUME IndInv
  PROVE  LocksSafe /\ FlagRestored
<1>1. TypeOK
  <2>1. ASSUME NEW c \in CPUs PROVE ncli[c] \in 0..2
    <3>1. CASE Stack(c) = <<>>
      BY <3>1 DEF IndInv, CpusRight
    <3>2. CASE Stack(c) # <<>>
      <4>1. Top(c) \in Frame /\ FrameRight(running[c], Top(c)) /\ ncli[c] = Depth(Top(c))
        BY <3>2, TopFrame DEF CpuRight
      <4>2. Top(c).lk \in Locks
        BY <4>1 DEF Frame
      <4>3. Top(c).pc \in Busy => Top(c).lk \notin Top(c).held
        BY <4>1 DEF FrameRight, Busy
      <4>4. Depth(Top(c)) \in 0..2
        BY <4>2, <4>3 DEF Depth, Locks
      <4> QED
        BY <4>1, <4>4
    <3> QED
      BY <3>1, <3>2
  <2>2. ASSUME NEW x \in Contexts, NEW i \in DOMAIN stack[x] PROVE stack[x][i] \in Frame
    BY ElementOfSeq, LenProperties DEF IndInv, StackRight
  <2> QED
    BY <2>1, <2>2 DEF TypeOK, IndInv, VarsOK
<1>2. Exclusive
  <2> SUFFICES ASSUME NEW c \in CPUs, NEW d \in CPUs, c # d,
                      NEW l, l \in HeldOn(c), l \in HeldOn(d)
               PROVE  FALSE
    BY DEF Exclusive
  <2>1. Owns(c, l) /\ Owns(d, l)
    BY HeldOnTop
  <2>2. l \in Locks
    BY <2>1, TopFrame DEF Owns, Frame
  <2> QED
    BY <2>1, <2>2 DEF IndInv, LocksRight, Taken
<1>3. NoSelfSpin
  <2> SUFFICES ASSUME NEW c \in CPUs, At(c, "xchg")
               PROVE  /\ Top(c).lk \notin HeldOn(c)
                      /\ \A i \in 1 .. Len(Stack(c)) - 1 :
                           Stack(c)[i].pc \in {"own", "clear"} => Stack(c)[i].lk # Top(c).lk
    BY DEF NoSelfSpin
  <2>1. FrameRight(running[c], Top(c)) /\ Top(c).pc = "xchg"
    BY Executing DEF At
  <2>2. Top(c).lk \notin Top(c).held
    BY <2>1 DEF FrameRight
  <2> QED
    BY <2>2, HeldOnTop DEF Owns, Resting
<1>4. FlagRestored
  <2> SUFFICES ASSUME NEW c \in CPUs, At(c, "code"), Top(c).held = {}
               PROVE  /\ Top(c).kind = "handler" => ~flag[c]
                      /\ Top(c).kind = "syscall" => flag[c]
    BY DEF FlagRestored
  <2>1. CpuRight(c, Top(c)) /\ Top(c).pc = "code"
    BY Executing DEF At
  <2>2. Depth(Top(c)) = 0
    BY <2>1 DEF Depth, Busy
  <2> QED
    BY <2>1, <2>2 DEF CpuRight
<1> QED
  BY <1>1, <1>2, <1>3, <1>4 DEF LocksSafe, IndInv

\* Spin locks exclude, no CPU waits for a lock of its own, and no panic of acquire(),
\* release(), popcli() or sched() is reached, for any number of CPUs and threads.
THEOREM LockSafety ==
  ASSUME NCPU \in Nat, NThreads \in Nat
  PROVE  Spec => []LocksSafe
<1>1. Init => IndInv
  BY SizesApart, InitHolds
<1>2. IndInv /\ [Next]_vars => IndInv'
  BY SizesApart, NextHolds
<1>3. IndInv => LocksSafe
  BY InvSafe
<1> QED
  BY <1>1, <1>2, <1>3, PTL DEF Spec

\* acquire() and release(), with sched() between them, leave the interrupt flag to a
\* thread as it was: off in a handler and on in a system call.
THEOREM Flags ==
  ASSUME NCPU \in Nat, NThreads \in Nat
  PROVE  Spec => []FlagRestored
<1>1. Init => IndInv
  BY SizesApart, InitHolds
<1>2. IndInv /\ [Next]_vars => IndInv'
  BY SizesApart, NextHolds
<1>3. IndInv => FlagRestored
  BY InvSafe
<1> QED
  BY <1>1, <1>2, <1>3, PTL DEF Spec
=============================================================================
