------------------------------- MODULE Umalloc ------------------------------
(***************************************************************************)
(* malloc() and free() of user programs, src/ass5/final_repo/umalloc.c: a  *)
(* circular list of free blocks in the order of their addresses.  Memory   *)
(* counts units of the size of a Header; unit 0 is the static Header base, *)
(* the heap grows from unit 1 on.  The size in the header of a block that  *)
(* is in use is kept there.                                                *)
(***************************************************************************)
EXTENDS Integers, FiniteSets, FiniteSetsExt

CONSTANTS Limit,    \* the heap ends here: sbrk() fails
          MoreUnits,\* what morecore() asks for at least
          HeaderSize,
          UINT,     \* 2^32 in the code: where a uint wraps around
          Requests  \* sizes in bytes that the program asks for

Units == 0 .. Limit

VARIABLES
  ptr, size, \* the fields of the Header at each unit
  freep,     \* start of the search, or -1 before the first malloc()
  top,       \* end of the heap: the next result of sbrk()
  core,      \* the units that morecore() has got, a ghost
  inuse      \* the blocks that the program has: address, units and the
             \* bytes asked for, a ghost

vars == <<ptr, size, freep, top, core, inuse>>

Init ==
  /\ ptr = [u \in Units |-> 0] /\ size = [u \in Units |-> 0]
  /\ freep = -1 /\ top = 1 /\ core = {} /\ inuse = {}

\* A heap as a record, for the functions below.
Heap == [ptr |-> ptr, size |-> size, freep |-> freep]

\* The k-th Header of the list after freep.
Walk(h) ==
  LET at[k \in 0 .. Limit + 1] == IF k = 0 THEN h.freep ELSE h.ptr[at[k - 1]] IN at

\* Turns of the search from freep until it is back there.
Lap(h) == Min({k \in 1 .. Limit + 1 : Walk(h)[k] = h.freep})

\* The loop of free(): the Header after which bp belongs.
Place(h, bp) ==
  LET w == Walk(h)
      between(p) == bp > p /\ bp < h.ptr[p]
      atEnd(p) == p >= h.ptr[p] /\ (bp > p \/ bp < h.ptr[p])
  IN w[Min({k \in 0 .. Lap(h) : between(w[k]) \/ atEnd(w[k])})]

\* Mutant: the block is not merged with the one below it.
FreeUnmerged(h, bp) ==
  LET p == Place(h, bp) IN
  [h EXCEPT !.ptr[bp] = h.ptr[p], !.ptr[p] = bp, !.freep = p]

\* free(): bp is merged with the block above it, then with the one below it.
Free(h, bp) ==
  LET p == Place(h, bp)
      next == h.ptr[p]
      up == bp + h.size[bp] = next
      ptrAbove == IF up THEN h.ptr[next] ELSE next
      units == h.size[bp] + (IF up THEN h.size[next] ELSE 0)
  IN IF p + h.size[p] = bp
     THEN [h EXCEPT !.size = [@ EXCEPT ![bp] = units, ![p] = @ + units],
                    !.ptr = [@ EXCEPT ![bp] = ptrAbove, ![p] = ptrAbove], !.freep = p]
     ELSE [h EXCEPT !.size[bp] = units,
                    !.ptr = [@ EXCEPT ![bp] = ptrAbove, ![p] = bp], !.freep = p]

UnitsFor(nbytes) == ((nbytes + HeaderSize - 1) % UINT) \div HeaderSize + 1

Fits(h, n) == {k \in 1 .. Lap(h) : h.size[Walk(h)[k]] >= n}

\* The first block that is large enough: all of it, or its tail.
Take(h, n) ==
  LET k == Min(Fits(h, n))
      prev == Walk(h)[k - 1]
      p == Walk(h)[k]
      q == p + h.size[p] - n
  IN IF h.size[p] = n
     THEN [block |-> p, heap |-> [h EXCEPT !.ptr[prev] = h.ptr[p], !.freep = prev]]
     ELSE [block |-> q, heap |-> [h EXCEPT !.size = [@ EXCEPT ![p] = @ - n, ![q] = n],
                                           !.freep = prev]]

Become(h) == ptr' = h.ptr /\ size' = h.size /\ freep' = h.freep

Give(h, n, nbytes) ==
  LET t == Take(h, n) IN
  /\ Become(t.heap)
  /\ inuse' = inuse \cup {<<t.block, n, nbytes>>}

\* malloc() that finds a block; the first call makes the list.
Malloc(nbytes) ==
  LET h == IF freep = -1 THEN [Heap EXCEPT !.freep = 0, !.ptr[0] = 0] ELSE Heap
      n == UnitsFor(nbytes)
  IN /\ Fits(h, n) # {}
     /\ Give(h, n, nbytes)
     /\ UNCHANGED <<top, core>>

\* What morecore() asks sbrk() for, in units: nu * sizeof(Header) wraps around, and as an
\* int it may be negative and give memory back.
Asked(nu) ==
  LET bytes == (nu * HeaderSize) % UINT
  IN (IF 2 * bytes < UINT THEN bytes ELSE bytes - UINT) \div HeaderSize

\* malloc() that does not: morecore(), and the search goes on.  Without more
\* memory it returns 0.
MallocMore(nbytes) ==
  LET h == IF freep = -1 THEN [Heap EXCEPT !.freep = 0, !.ptr[0] = 0] ELSE Heap
      n == UnitsFor(nbytes)
      nu == Max({n, MoreUnits})
  IN /\ Fits(h, n) = {}
     /\ IF top + Asked(nu) > Limit THEN Become(h) /\ UNCHANGED <<top, core, inuse>>
        ELSE /\ Give(Free([h EXCEPT !.size[top] = nu], top), n, nbytes)
             /\ top' = top + Asked(nu)
             /\ core' = {u \in core \cup top .. top + Asked(nu) - 1 : u < top'}

\* Another sbrk() of the program between: the heap has a gap.
Sbrk ==
  /\ top < Limit /\ top' = top + 1
  /\ UNCHANGED <<ptr, size, freep, core, inuse>>

Release ==
  \E b \in inuse :
    /\ Become(Free(Heap, b[1]))
    /\ inuse' = inuse \ {b}
    /\ UNCHANGED <<top, core>>

Next == Sbrk \/ Release \/ \E n \in Requests : Malloc(n) \/ MallocMore(n)

Spec == Init /\ [][Next]_vars

-----------------------------------------------------------------------------
(* Properties *)

Listed == {Walk(Heap)[k] : k \in 1 .. Lap(Heap)}
Cells(b) == b[1] .. b[1] + b[2] - 1
FreeBlocks == {<<u, size[u]>> : u \in Listed \ {0}}

TypeOK ==
  /\ ptr \in [Units -> Units] /\ size \in [Units -> Units]
  /\ freep \in Units \cup {-1} /\ top \in 1 .. Limit
  /\ \A b \in inuse : b[1] \in Units /\ b[2] \in Units

\* What morecore() has got is, to the unit, the blocks in use and the free ones,
\* without overlap, whatever the order of the calls; a block in use has the bytes
\* that were asked for and still its size in its header for free().
HeapPartitioned ==
  freep # -1 =>
  /\ \A b, c \in inuse \cup FreeBlocks : b # c => Cells(b) \cap Cells(c) = {}
  /\ UNION {Cells(b) : b \in inuse \cup FreeBlocks} = core
  /\ \A b \in inuse : size[b[1]] = b[2] /\ b[3] <= (b[2] - 1) * HeaderSize

\* The list goes once around in the order of addresses, and no two free blocks
\* touch: free() has merged them.
ListMerged ==
  freep # -1 =>
  /\ \A u \in Listed : ptr[u] > u \/ (ptr[u] = 0 /\ u = Max(Listed))
  /\ \A u \in Listed : u + size[u] \notin Listed \/ size[u] = 0
=============================================================================
