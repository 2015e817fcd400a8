------------------------------ MODULE ExecArgs ------------------------------
(***************************************************************************)
(* The arguments of exec() in src/ass5/final_repo: sys_exec() finds them   *)
(* in the memory of the caller, with fetchint() and fetchstr() of          *)
(* syscall.c, and exec() of exec.c builds the stack of the new program     *)
(* from them with copyout() of vm.c.  Memory is a function from addresses  *)
(* to bytes; an int has two bytes, the low one first.  The caller has one  *)
(* thread, so nothing changes its memory during the call.                  *)
(***************************************************************************)
EXTENDS Integers, Sequences, FiniteSetsExt, SequencesExt

CONSTANTS BYTE,      \* values of a byte
          PGSIZE,
          MAXARG,
          TextPages, \* pages of the new program below the guard page
          Memories,  \* memories of callers, from 0 to sz - 1
          Vectors    \* second arguments of the system call

INT == 2
UINT == BYTE * BYTE
NewSize == (TextPages + 2) * PGSIZE

VARIABLES
  mem,   \* what the caller has in its memory
  uargv, \* where it says its argument vector is
  pc,
  argv,  \* the addresses of the strings
  argc,  \* how many of them are on the new stack
  sp, ustack,
  new    \* the memory of the new program

vars == <<mem, uargv, pc, argv, argc, sp, ustack, new>>

Init ==
  /\ mem \in Memories
  /\ uargv \in Vectors
  /\ pc = "fetch"
  /\ argv = <<>>
  /\ argc = 0
  /\ sp = NewSize
  /\ ustack = <<>>
  /\ new = [a \in 0 .. NewSize - 1 |-> 0]

Size(m) == Max(DOMAIN m) + 1

-----------------------------------------------------------------------------
(* syscall.c *)

IntAt(m, a) == m[a] + BYTE * m[a + 1]

FetchintFails(a) == a >= Size(mem) \/ (a + INT) % UINT > Size(mem)

\* Where the string at a ends, its 0.
Ends(m, a) == {e \in a .. Size(m) - 1 : m[e] = 0}

FetchstrFails(a) == a >= Size(mem) \/ Ends(mem, a) = {}

Bytes(m, from, to) == [i \in 1 .. to - from |-> m[from + i - 1]]

\* strlen() + 1 bytes
String(m, a) == Bytes(m, a, Min(Ends(m, a)) + 1)

-----------------------------------------------------------------------------
(* sys_exec(): the loop over the vector, an element in a step *)

Fetch ==
  LET at == (uargv + INT * Len(argv)) % UINT
      uarg == IntAt(mem, at)
  IN /\ pc = "fetch"
     /\ IF Len(argv) >= MAXARG \/ FetchintFails(at) THEN pc' = "failed" /\ UNCHANGED argv
        ELSE IF uarg = 0 THEN pc' = "push" /\ UNCHANGED argv
        ELSE IF FetchstrFails(uarg) THEN pc' = "failed" /\ UNCHANGED argv
        ELSE argv' = Append(argv, uarg) /\ UNCHANGED pc
     /\ UNCHANGED <<mem, uargv, argc, sp, ustack, new>>

-----------------------------------------------------------------------------
(* exec(): the new program has its text, then the guard page, then the stack *)

\* uva2ka(): the page is there and is the user's.  The addresses just below UINT, which a
\* string can be longer than sp to reach, have a page table, that of the devices.
UserPage(va) == va \div PGSIZE \in 0 .. TextPages - 1 \cup {TextPages + 1}

\* One turn of the loop of copyout(), to the end of a page or of buf.
CopyTurn(r) ==
  LET va0 == r.va - (r.va % PGSIZE)
      n == Min({PGSIZE - (r.va - va0), Len(r.buf)})
  IN IF r.buf = <<>> \/ ~r.ok THEN r
     ELSE IF ~UserPage(va0) THEN [r EXCEPT !.ok = FALSE]
     ELSE [ok |-> TRUE, va |-> va0 + PGSIZE, buf |-> SubSeq(r.buf, n + 1, Len(r.buf)),
           to |-> [a \in DOMAIN r.to |->
                     IF a \in r.va .. r.va + n - 1 THEN r.buf[a - r.va + 1] ELSE r.to[a]]]

Copyout(va, buf) ==
  FoldLeft(LAMBDA r, i : CopyTurn(r), [ok |-> TRUE, va |-> va, buf |-> buf, to |-> new],
           [i \in 1 .. TextPages + 3 |-> i])

Aligned(a) == a - (a % INT)

\* Mutant: the 0 at the end of a string gets no room.
PushShort ==
  LET at == Aligned((sp - (Len(String(mem, argv[argc + 1])) - 1)) % UINT)
      r == Copyout(at, String(mem, argv[argc + 1]))
  IN /\ pc = "push" /\ argc < Len(argv)
     /\ IF ~r.ok THEN pc' = "failed" /\ UNCHANGED <<argc, sp, ustack, new>>
        ELSE /\ sp' = at
             /\ new' = r.to
             /\ ustack' = Append(ustack, at)
             /\ argc' = argc + 1
             /\ UNCHANGED pc
     /\ UNCHANGED <<mem, uargv, argv>>

\* A string, at an address that is aligned; one that is longer than sp goes to the top of
\* the address space, which is the kernel's.
Push ==
  LET at == Aligned((sp - Len(String(mem, argv[argc + 1]))) % UINT)
      r == Copyout(at, String(mem, argv[argc + 1]))
  IN /\ pc = "push" /\ argc < Len(argv)
     /\ IF ~r.ok THEN pc' = "failed" /\ UNCHANGED <<argc, sp, ustack, new>>
        ELSE /\ sp' = at
             /\ new' = r.to
             /\ ustack' = Append(ustack, at)
             /\ argc' = argc + 1
             /\ UNCHANGED pc
     /\ UNCHANGED <<mem, uargv, argv>>

\* The ints of ustack, as bytes.
AsBytes(ints) == FlattenSeq([i \in DOMAIN ints |-> <<ints[i] % BYTE, ints[i] \div BYTE>>])

\* The fake return address, argc, argv and the vector itself; then exec() commits.
Commit ==
  LET at == sp - (3 + argc + 1) * INT
      ints == <<UINT - 1, argc, sp - (argc + 1) * INT>> \o ustack \o <<0>>
      r == Copyout(at, AsBytes(ints))
  IN /\ pc = "push" /\ argc = Len(argv)
     /\ IF ~r.ok THEN pc' = "failed" /\ UNCHANGED <<sp, new>>
        ELSE pc' = "main" /\ sp' = at /\ new' = r.to
     /\ UNCHANGED <<mem, uargv, argv, argc, ustack>>

\* main() of the program runs, or exec() has returned -1.
Over == pc \in {"main", "failed"} /\ UNCHANGED vars

Next == Fetch \/ Push \/ Commit \/ Over

Spec == Init /\ [][Next]_vars

-----------------------------------------------------------------------------
(* Properties *)

\* What a vector in memory m stands for: the one sequence of strings, at most limit of
\* them, when all of it lies inside m, and nothing otherwise.
Passed(m, vector, limit) ==
  LET Inside(a) == a >= 0 /\ a + INT <= Size(m)
      At(k) == IntAt(m, vector + INT * k)
  IN {[k \in 1 .. n |-> String(m, At(k - 1))] :
        n \in {l \in 0 .. limit :
                 /\ Inside(vector + INT * l) /\ At(l) = 0
                 /\ \A k \in 0 .. l - 1 : /\ Inside(vector + INT * k)
                                          /\ At(k) # 0 /\ Ends(m, At(k)) # {}}}

Even(n) == n + (n % INT)

\* The stack that the strings need, with each of them aligned.
Needed(strings) ==
  FoldLeft(LAMBDA sum, s : sum + Even(Len(s)), (4 + Len(strings)) * INT, strings)

\* main() of the new program gets through argc and argv the strings that the caller's
\* vector has, a null pointer after them, all inside the page of its stack; and exec()
\* fails just when the vector or a string leaves the caller's memory, when there are
\* MAXARG strings, or when they do not fit in that page, which the guard page below tells.
ArgumentsArrive ==
  LET passed == Passed(mem, uargv, MAXARG - 1) IN
  /\ pc = "main" =>
       LET vector == IntAt(new, sp + 2 * INT)
       IN /\ sp >= NewSize - PGSIZE
          /\ vector > sp
          /\ passed # {} /\ Passed(new, vector, MAXARG) = passed
          /\ \A strings \in passed : IntAt(new, sp + INT) = Len(strings)
  /\ pc = "failed" => \A strings \in passed : Needed(strings) > PGSIZE
=============================================================================
