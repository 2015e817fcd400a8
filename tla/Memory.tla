------------------------------- MODULE Memory -------------------------------
(***************************************************************************)
(* Physical pages and address spaces: kalloc.c, vm.c and exec.c, and what  *)
(* growproc(), fork(), exit() and wait() of proc.c do with them (in        *)
(* src/ass5/final_repo).  A page directory has page tables of NPT entries; *)
(* the tables of the kernel's part of an address space are one page here.  *)
(* Addresses count units of which a page has PGSIZE.  Processes that fork, *)
(* exec and grow interleave page by page and run out of memory at any of   *)
(* them; what frees pages frees them in one step.                          *)
(***************************************************************************)
EXTENDS Integers, Sequences, FiniteSets, FiniteSetsExt

CONSTANTS NPROC,
          NPages,    \* physical pages that kinit1() and kinit2() have freed
          PGSIZE,
          NPT,       \* entries of a page table
          KERNPAGES, \* user addresses are below KERNBASE
          Programs,  \* the ends of the segments of each program
          Incs       \* arguments of sbrk()

KERNBASE == KERNPAGES * PGSIZE
Slots == 1 .. NPROC
Pages == 1 .. NPages
Vpns == 0 .. KERNPAGES - 1
Tables == 0 .. (KERNPAGES - 1) \div NPT
Prog == NPROC + 1   \* the data of a page: a program's, a process's, none, or
Junk == NPROC + 2   \* what kfree() leaves there
Guard == NPROC + 3  \* in view: a page without PTE_U
Unmapped == NPROC + 4
Nil == [dir |-> 0, ktab |-> 0, tab |-> [t \in Tables |-> 0],
        pte |-> [v \in Vpns |-> 0], guard |-> {}]

VARIABLES
  free,  \* the pages of kmem.freelist: which one is taken makes no difference
  data,  \* what is in each page
  state, space, sz, kstack, \* struct proc: space is what pgdir refers to
  new,   \* process -> the address space that its call is making
  newsz, \* process -> how far it has come
  todo,  \* process -> the sizes that allocuvm() has to reach yet
  child, \* process -> the slot that its fork() has taken
  view   \* process -> what it may expect in its pages: a ghost

procs == <<state, space, sz, kstack>>
calls == <<new, newsz, todo, child>>
vars == <<free, data, procs, calls, view>>

PageOf(a) == a \div PGSIZE
PgRoundUp(a) == ((a + PGSIZE - 1) \div PGSIZE) * PGSIZE

\* userinit(): the first process has one page of memory.
Init ==
  /\ free = 6 .. NPages
  /\ data = [k \in Pages |-> IF k = 4 THEN Prog ELSE Junk]
  /\ state = [p \in Slots |-> IF p = 1 THEN "user" ELSE "UNUSED"]
  /\ space = [p \in Slots |-> IF p # 1 THEN Nil ELSE
                [Nil EXCEPT !.dir = 1, !.ktab = 2, !.tab[0] = 3, !.pte[0] = 4]]
  /\ kstack = [p \in Slots |-> IF p = 1 THEN 5 ELSE 0]
  /\ sz = [p \in Slots |-> IF p = 1 THEN PGSIZE ELSE 0]
  /\ new = [p \in Slots |-> Nil] /\ newsz = [p \in Slots |-> 0]
  /\ todo = [p \in Slots |-> <<>>] /\ child = [p \in Slots |-> 0]
  /\ view = [p \in Slots |-> [v \in Vpns |-> IF p = 1 /\ v = 0 THEN Prog ELSE Unmapped]]

-----------------------------------------------------------------------------
(* Pages *)

Owned(s) ==
  ({s.dir, s.ktab} \cup {s.tab[t] : t \in Tables} \cup {s.pte[v] : v \in Vpns}) \ {0}

\* The pages of addresses [from, to) that are mapped.
Mapped(s, from, to) ==
  {v \in Vpns : s.pte[v] # 0 /\ v * PGSIZE >= PgRoundUp(from) /\ v * PGSIZE < to}

\* Mutant: the page is not given back when there is none for the table.
AddPageLeaks(s, v) ==
  LET mem == Min(free)
      rest == free \ {mem}
      with == [s EXCEPT !.pte[v] = mem]
  IN IF free = {} THEN [ok |-> FALSE, space |-> s, free |-> free, mem |-> 0]
     ELSE IF s.tab[v \div NPT] # 0
     THEN [ok |-> TRUE, space |-> with, free |-> rest, mem |-> mem]
     ELSE IF rest = {} THEN [ok |-> FALSE, space |-> s, free |-> rest, mem |-> 0]
     ELSE [ok |-> TRUE, space |-> [with EXCEPT !.tab[v \div NPT] = Min(rest)],
           free |-> rest \ {Min(rest)}, mem |-> mem]

\* kalloc() and mappages() for the page at v: a page and, unless it is there, a
\* page table.  Without the second the first goes back.
AddPage(s, v) ==
  LET mem == Min(free)
      rest == free \ {mem}
      with == [s EXCEPT !.pte[v] = mem]
  IN IF free = {} \/ (s.tab[v \div NPT] = 0 /\ rest = {})
     THEN [ok |-> FALSE, space |-> s, free |-> free, mem |-> 0]
     ELSE IF s.tab[v \div NPT] # 0
     THEN [ok |-> TRUE, space |-> with, free |-> rest, mem |-> mem]
     ELSE [ok |-> TRUE, space |-> [with EXCEPT !.tab[v \div NPT] = Min(rest)],
           free |-> rest \ {Min(rest)}, mem |-> mem]

\* deallocuvm(): page tables stay.
Shrunk(s, oldsz, newsize) ==
  LET gone == Mapped(s, newsize, oldsz) IN
  [s EXCEPT !.pte = [v \in Vpns |-> IF v \in gone THEN 0 ELSE s.pte[v]],
            !.guard = @ \ gone]

\* kfree() of some pages, when the old ones are free.
Freed(old, pages) ==
  /\ free' = old \cup pages
  /\ data' = [k \in Pages |-> IF k \in pages THEN Junk ELSE data[k]]

Idle(p) ==
  /\ new' = [new EXCEPT ![p] = Nil]
  /\ newsz' = [newsz EXCEPT ![p] = 0]
  /\ todo' = [todo EXCEPT ![p] = <<>>]
  /\ child' = [child EXCEPT ![p] = 0]

-----------------------------------------------------------------------------
(* The calls begin.  One that is refused at once changes nothing: fork()     *)
(* without a slot or a page for its stack, exec() of what is no program,     *)
(* sbrk() past KERNBASE.                                                     *)

\* allocproc() of fork().
Fork(p, c) ==
  /\ state[p] = "user" /\ state[c] = "UNUSED" /\ free # {}
  /\ state' = [state EXCEPT ![p] = "fork", ![c] = "EMBRYO"]
  /\ kstack' = [kstack EXCEPT ![c] = Min(free)]
  /\ free' = free \ {Min(free)}
  /\ child' = [child EXCEPT ![p] = c]
  /\ UNCHANGED <<data, space, sz, new, newsz, todo, view>>

Exec(p, ends) ==
  /\ state[p] = "user"
  /\ state' = [state EXCEPT ![p] = "exec"]
  /\ todo' = [todo EXCEPT ![p] = ends]
  /\ UNCHANGED <<free, data, space, sz, kstack, new, newsz, child, view>>

Grow(p, n) ==
  /\ state[p] = "user" /\ n > 0 /\ sz[p] + n < KERNBASE
  /\ state' = [state EXCEPT ![p] = "grow"]
  /\ newsz' = [newsz EXCEPT ![p] = sz[p]]
  /\ todo' = [todo EXCEPT ![p] = <<sz[p] + n>>]
  /\ UNCHANGED <<free, data, space, sz, kstack, new, child, view>>

\* growproc() with a negative n.  When nothing is left deallocuvm() returns 0,
\* which growproc() takes for a failure: the pages are gone and sz stays, so the
\* process faults.  That is so when the TLB shows what the page table says.  The code
\* returns before switchuvm() then, and until cr3 is next loaded a TLB that is not
\* empty may let the process go on in the pages that are gone, even into a fork(),
\* where copyuvm() panics.  The TLB is not modelled.
Shrink(p, n) ==
  LET gone == Mapped(space[p], sz[p] + n, sz[p]) IN
  /\ state[p] = "user" /\ n < 0 /\ sz[p] + n >= 0
  /\ space' = [space EXCEPT ![p] = Shrunk(@, sz[p], sz[p] + n)]
  /\ Freed(free, Owned(space[p]) \ Owned(space'[p]))
  /\ view' = [view EXCEPT ![p] = [v \in Vpns |-> IF v \in gone THEN Unmapped ELSE @[v]]]
  /\ IF sz[p] + n = 0 THEN state' = [state EXCEPT ![p] = "faulting"] /\ UNCHANGED sz
     ELSE sz' = [sz EXCEPT ![p] = @ + n] /\ UNCHANGED state
  /\ UNCHANGED <<kstack, calls>>

\* A store of the process to its memory.
Store(p, v) ==
  /\ state[p] = "user" /\ space[p].pte[v] # 0 /\ v \notin space[p].guard
  /\ data' = [data EXCEPT ![space[p].pte[v]] = p]
  /\ view' = [view EXCEPT ![p][v] = p]
  /\ UNCHANGED <<free, procs, calls>>

-----------------------------------------------------------------------------
(* fork() and exec() *)

\* Label bad of exec() and copyuvm(), and the end of fork() after it.
GiveUp(p, left) ==
  /\ Freed(left, Owned(new[p]) \cup ({kstack[c] : c \in Slots \cap {child[p]}} \ {0}))
  /\ kstack' = [c \in Slots |-> IF c = child[p] THEN 0 ELSE kstack[c]]

Fail(p, left) ==
  /\ GiveUp(p, left)
  /\ state' = [q \in Slots |-> IF q = p THEN "user"
                               ELSE IF q = child[p] THEN "UNUSED" ELSE state[q]]
  /\ Idle(p)
  /\ UNCHANGED <<space, sz, view>>

\* setupkvm(): the directory and the kernel's table, or neither.
SetupKvm(p) ==
  /\ state[p] \in {"fork", "exec"} /\ new[p] = Nil
  /\ IF Cardinality(free) < 2 THEN Fail(p, free)
     ELSE LET dir == Min(free)
              ktab == Min(free \ {dir})
          IN /\ new' = [new EXCEPT ![p].dir = dir, ![p].ktab = ktab]
             /\ free' = free \ {dir, ktab}
             /\ UNCHANGED <<data, procs, newsz, todo, child, view>>

\* One turn of the loop of copyuvm(), flags included.
CopyPage(p) ==
  LET v == PageOf(newsz[p])
      r == AddPage(new[p], v)
  IN /\ state[p] = "fork" /\ new[p] # Nil /\ newsz[p] < sz[p]
     /\ IF ~r.ok THEN Fail(p, r.free)
        ELSE /\ free' = r.free
             /\ data' = [data EXCEPT ![r.mem] = data[space[p].pte[v]]]
             /\ new' = [new EXCEPT ![p] = [r.space EXCEPT !.guard =
                          @ \cup (space[p].guard \cap {v})]]
             /\ newsz' = [newsz EXCEPT ![p] = @ + PGSIZE]
             /\ UNCHANGED <<procs, todo, child, view>>

Forked(p) ==
  LET c == child[p] IN
  /\ state[p] = "fork" /\ new[p] # Nil /\ newsz[p] >= sz[p]
  /\ space' = [space EXCEPT ![c] = new[p]]
  /\ sz' = [sz EXCEPT ![c] = sz[p]]
  /\ view' = [view EXCEPT ![c] = view[p]]
  /\ state' = [state EXCEPT ![p] = "user", ![c] = "user"]
  /\ Idle(p)
  /\ UNCHANGED <<free, data, kstack>>

\* One turn of the loop of allocuvm() in exec().
ExecPage(p) ==
  LET a == PgRoundUp(newsz[p])
      r == AddPage(new[p], PageOf(a))
  IN /\ state[p] = "exec" /\ new[p] # Nil /\ todo[p] # <<>>
     /\ Head(todo[p]) < KERNBASE /\ a < Head(todo[p])
     /\ IF ~r.ok THEN Fail(p, r.free)
        ELSE /\ free' = r.free
             /\ data' = [data EXCEPT ![r.mem] = 0]
             /\ new' = [new EXCEPT ![p] = r.space]
             /\ newsz' = [newsz EXCEPT ![p] = a + PGSIZE]
             /\ UNCHANGED <<procs, todo, child, view>>

\* allocuvm() is done: loaduvm() fills the segment, unless the file is bad.
ExecLoad(p) ==
  LET end == Head(todo[p]) IN
  /\ state[p] = "exec" /\ new[p] # Nil /\ todo[p] # <<>>
  /\ \/ (end >= KERNBASE \/ PgRoundUp(newsz[p]) >= end) /\ Fail(p, free)
     \/ /\ end < KERNBASE /\ PgRoundUp(newsz[p]) >= end
        /\ data' = [k \in Pages |-> IF \E v \in Mapped(new[p], 0, end) : k = new[p].pte[v]
                                    THEN Prog ELSE data[k]]
        /\ todo' = [todo EXCEPT ![p] = Tail(@)]
        /\ UNCHANGED <<free, procs, new, newsz, child, view>>

\* The stack and the page below it, in one step each for the two pages, then
\* copyout() of the arguments: it fails at the page below the stack.
ExecStack(p) ==
  LET a == PgRoundUp(newsz[p])
      first == AddPage(new[p], PageOf(a))
  IN /\ state[p] = "exec" /\ new[p] # Nil /\ todo[p] = <<>> /\ new[p].guard = {}
     /\ IF a + 2 * PGSIZE >= KERNBASE THEN Fail(p, free)
        ELSE IF ~first.ok THEN Fail(p, first.free)
        ELSE /\ free' = first.free
             /\ data' = [data EXCEPT ![first.mem] = 0]
             /\ new' = [new EXCEPT ![p] = [first.space EXCEPT !.guard = {PageOf(a)}]]
             /\ newsz' = [newsz EXCEPT ![p] = a + PGSIZE]
             /\ UNCHANGED <<procs, todo, child, view>>

\* The new address space replaces the old one, which is freed.
Commit(p, r) ==
  LET old == Owned(space[p]) IN
  /\ space' = [space EXCEPT ![p] = r.space]
  /\ free' = r.free \cup old
  /\ data' = [k \in Pages |-> IF k = r.mem THEN p ELSE IF k \in old THEN Junk ELSE data[k]]

\* The second page; the arguments are there when exec() commits.
ExecCommit(p) ==
  LET v == PageOf(newsz[p])
      r == AddPage(new[p], v)
  IN /\ state[p] = "exec" /\ new[p].guard # {}
     /\ \/ Fail(p, IF r.ok THEN free ELSE r.free)
        \/ /\ r.ok
           /\ Commit(p, r)
           /\ sz' = [sz EXCEPT ![p] = newsz[p] + PGSIZE]
           /\ view' = [view EXCEPT ![p] = [u \in Vpns |->
                IF u = v THEN p ELSE IF u \in new[p].guard THEN Guard
                ELSE IF new[p].pte[u] # 0 THEN Prog ELSE Unmapped]]
           /\ state' = [state EXCEPT ![p] = "user"]
           /\ Idle(p) /\ UNCHANGED kstack

-----------------------------------------------------------------------------
(* sbrk(), exit() and wait() *)

\* One turn of the loop of allocuvm() in growproc(), or its end.
GrowPage(p) ==
  LET a == PgRoundUp(newsz[p])
      r == AddPage(space[p], PageOf(a))
  IN /\ state[p] = "grow" /\ a < Head(todo[p])
     /\ IF r.ok
        THEN /\ free' = r.free
             /\ data' = [data EXCEPT ![r.mem] = 0]
             /\ space' = [space EXCEPT ![p] = r.space]
             /\ newsz' = [newsz EXCEPT ![p] = a + PGSIZE]
             /\ UNCHANGED <<state, new, todo, child>>
        ELSE /\ space' = [space EXCEPT ![p] = Shrunk(@, Head(todo[p]), sz[p])]
             /\ Freed(r.free, Owned(space[p]) \ Owned(space'[p]))
             /\ state' = [state EXCEPT ![p] = "user"]
             /\ Idle(p)
     /\ UNCHANGED <<sz, kstack, view>>

Grown(p) ==
  LET more == Mapped(space[p], sz[p], Head(todo[p])) IN
  /\ state[p] = "grow" /\ PgRoundUp(newsz[p]) >= Head(todo[p])
  /\ sz' = [sz EXCEPT ![p] = Head(todo[p])]
  /\ view' = [view EXCEPT ![p] = [v \in Vpns |-> IF v \in more THEN 0 ELSE @[v]]]
  /\ state' = [state EXCEPT ![p] = "user"]
  /\ Idle(p)
  /\ UNCHANGED <<free, data, space, kstack>>

\* The first process does not exit.
Exit(p) ==
  /\ p # 1 /\ state[p] \in {"user", "faulting"}
  /\ state' = [state EXCEPT ![p] = "ZOMBIE"]
  /\ UNCHANGED <<free, data, space, sz, kstack, calls, view>>

\* wait() in the parent: freevm() and kfree() of the stack.
Reap(p) ==
  /\ state[p] = "ZOMBIE"
  /\ Freed(free, Owned(space[p]) \cup {kstack[p]})
  /\ space' = [space EXCEPT ![p] = Nil]
  /\ kstack' = [kstack EXCEPT ![p] = 0]
  /\ sz' = [sz EXCEPT ![p] = 0]
  /\ state' = [state EXCEPT ![p] = "UNUSED"]
  /\ view' = [view EXCEPT ![p] = [v \in Vpns |-> Unmapped]]
  /\ UNCHANGED calls

\* The first process is not allowed to end: the system stops.
Stopped == state[1] = "faulting" /\ UNCHANGED vars

Next ==
  \/ Stopped
  \/ \E p \in Slots :
    \/ \E c \in Slots : Fork(p, c)
    \/ \E e \in Programs : Exec(p, e)
    \/ \E n \in Incs : Grow(p, n) \/ Shrink(p, n)
    \/ \E v \in Vpns : Store(p, v)
    \/ SetupKvm(p) \/ CopyPage(p) \/ Forked(p)
    \/ ExecPage(p) \/ ExecLoad(p) \/ ExecStack(p) \/ ExecCommit(p)
    \/ GrowPage(p) \/ Grown(p) \/ Exit(p) \/ Reap(p)

Spec == Init /\ [][Next]_vars

-----------------------------------------------------------------------------
(* Properties *)

TypeOK ==
  /\ free \subseteq Pages
  /\ data \in [Pages -> 0 .. Guard]
  /\ \A p \in Slots : /\ state[p] \in {"UNUSED", "EMBRYO", "user", "fork", "exec",
                                       "grow", "faulting", "ZOMBIE"}
                      /\ sz[p] \in 0 .. KERNBASE /\ newsz[p] \in 0 .. KERNBASE
                      /\ Owned(space[p]) \cup Owned(new[p]) \subseteq Pages

\* One place for a page in an address space.
OnceIn(s) ==
  /\ s.dir # 0 => s.dir # s.ktab
  /\ \A t \in Tables : s.tab[t] # 0 =>
       /\ s.tab[t] \notin {s.dir, s.ktab}
       /\ \A u \in Tables : s.tab[u] = s.tab[t] => u = t
  /\ \A v \in Vpns : s.pte[v] # 0 =>
       /\ s.pte[v] \notin {s.dir, s.ktab} \cup {s.tab[t] : t \in Tables}
       /\ \A u \in Vpns : s.pte[u] = s.pte[v] => u = v

Stack(p) == {kstack[p]} \ {0}
Mine(p) == Owned(space[p]) \cup Owned(new[p]) \cup Stack(p)

Sorted(p) ==
  /\ OnceIn(space[p]) /\ OnceIn(new[p])
  /\ Owned(space[p]) \cap Owned(new[p]) = {}
  /\ Stack(p) \cap (Owned(space[p]) \cup Owned(new[p])) = {}

\* Every page is free, or a kernel stack, or part of one address space, and only
\* one of these: none is lost, shared or freed twice, wherever fork(), exec()
\* or sbrk() runs out of memory.
PagesOwnedOnce ==
  /\ \A p \in Slots : Sorted(p)
  /\ \A p \in Slots : /\ Mine(p) \cap free = {}
                      /\ \A q \in Slots \ {p} : Mine(p) \cap Mine(q) = {}
  /\ free \cup UNION {Mine(p) : p \in Slots} = Pages

\* A process finds in its memory what it put there, what its parent had there
\* at fork(), its program or zeroes; so also after a call that failed half-way.
MemoryPrivate ==
  \A p \in Slots : state[p] \notin {"UNUSED", "EMBRYO", "grow", "faulting"} =>
    \A v \in Vpns : LET k == space[p].pte[v] IN
      view[p][v] = IF k = 0 THEN Unmapped
                   ELSE IF v \in space[p].guard THEN Guard ELSE data[k]

\* Exactly the pages below sz are mapped whenever a process runs, so that
\* mappages() never finds an entry in use ("remap") and copyuvm() always finds
\* one ("page not present").
MappedToSize ==
  \A p \in Slots : state[p] \in {"user", "fork", "exec"} =>
    \A v \in Vpns : space[p].pte[v] # 0 <=> v * PGSIZE < sz[p]
-----------------------------------------------------------------------------
(* The inductive invariant *)

Spaces == [dir : 0 .. NPages, ktab : 0 .. NPages, tab : [Tables -> 0 .. NPages],
           pte : [Vpns -> 0 .. NPages], guard : SUBSET Vpns]

Types ==
  /\ free \in SUBSET Pages /\ data \in [Pages -> 0 .. Guard]
  /\ state \in [Slots -> {"UNUSED", "EMBRYO", "user", "fork", "exec", "grow", "faulting",
                          "ZOMBIE"}]
  /\ space \in [Slots -> Spaces] /\ new \in [Slots -> Spaces]
  /\ sz \in [Slots -> 0 .. KERNBASE] /\ newsz \in [Slots -> 0 .. KERNBASE]
  /\ kstack \in [Slots -> 0 .. NPages] /\ child \in [Slots -> 0 .. NPROC]
  /\ todo \in [Slots -> Seq(Nat)]
  /\ view \in [Slots -> [Vpns -> 0 .. Unmapped]]

\* What a process has of a call: nothing when it is in none.  A child that is being made
\* belongs to one fork().
Shape(p) ==
  /\ state[p] \notin {"fork", "exec"} => new[p] = Nil
  /\ state[p] \notin {"fork", "exec", "grow"} => newsz[p] = 0 /\ todo[p] = <<>>
  /\ state[p] # "fork" => child[p] = 0
  /\ state[p] = "fork" =>
       /\ child[p] \in Slots /\ state[child[p]] = "EMBRYO"
       /\ \A q \in Slots \ {p} : child[q] # child[p]
  /\ state[p] \in {"UNUSED", "EMBRYO"} => space[p] = Nil
  /\ state[p] = "UNUSED" <=> kstack[p] = 0
  /\ new[p] # Nil => new[p].dir # 0

\* How far the new address space has come, and the one that grows.
Progress(p) ==
  /\ state[p] \in {"user", "fork", "exec"} =>
       \A v \in Vpns : space[p].pte[v] # 0 <=> v * PGSIZE < sz[p]
  /\ state[p] = "faulting" => \A v \in Vpns : space[p].pte[v] = 0
  /\ state[p] \in {"fork", "exec"} =>
       /\ newsz[p] = PgRoundUp(newsz[p])
       /\ \A v \in Vpns : new[p].pte[v] # 0 <=> v * PGSIZE < newsz[p]
  /\ state[p] = "fork" => newsz[p] <= PgRoundUp(sz[p])
  /\ state[p] = "exec" /\ new[p].guard # {} =>
       todo[p] = <<>> /\ newsz[p] + PGSIZE < KERNBASE
  /\ state[p] = "grow" =>
       /\ todo[p] # <<>> /\ Head(todo[p]) < KERNBASE
       /\ PgRoundUp(sz[p]) <= PgRoundUp(newsz[p])
       /\ PgRoundUp(newsz[p]) <= PgRoundUp(Head(todo[p]))
       /\ \A v \in Vpns : space[p].pte[v] # 0 <=> v * PGSIZE < PgRoundUp(newsz[p])
  /\ \A v \in space[p].guard : space[p].pte[v] # 0
  /\ \A v \in new[p].guard : new[p].pte[v] # 0

\* What is in the pages: a copy has what is copied, a program is loaded up to the segment
\* that is being done, and what sbrk() has added is zero.
Found(p, v) ==
  IF space[p].pte[v] = 0 THEN Unmapped
  ELSE IF v \in space[p].guard THEN Guard ELSE data[space[p].pte[v]]

Contents(p) ==
  /\ state[p] \notin {"UNUSED", "EMBRYO", "grow"} =>
       \A v \in Vpns : view[p][v] = Found(p, v)
  /\ state[p] = "grow" => \A v \in Vpns :
       IF v * PGSIZE < sz[p] THEN view[p][v] = Found(p, v)
       ELSE /\ view[p][v] = Unmapped /\ v \notin space[p].guard
            /\ space[p].pte[v] # 0 => data[space[p].pte[v]] = 0
  /\ state[p] = "fork" => \A v \in Vpns : new[p].pte[v] # 0 =>
       /\ space[p].pte[v] # 0 /\ data[new[p].pte[v]] = data[space[p].pte[v]]
       /\ v \in new[p].guard <=> v \in space[p].guard
  /\ state[p] = "exec" => \A v \in Vpns \ new[p].guard : new[p].pte[v] # 0 =>
       \/ data[new[p].pte[v]] = Prog
       \/ todo[p] # <<>> /\ v * PGSIZE < Head(todo[p])

IndInv ==
  /\ Types /\ PagesOwnedOnce
  /\ \A p \in Slots : Shape(p) /\ Progress(p) /\ Contents(p)
=============================================================================
