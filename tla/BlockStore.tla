----------------------------- MODULE BlockStore -----------------------------
(***************************************************************************)
(* What the buffer cache promises to the file system: a store of blocks,   *)
(* of which a process takes one at a time.  It sees what the block holds,  *)
(* may replace it, and no other process has the block meanwhile.           *)
(***************************************************************************)
CONSTANTS Procs, Blocks, Values, None

VARIABLES store,  \* what each block holds
          holds,  \* the block that each process has taken, or None
          sees    \* what it sees of it, or None

vars == <<store, holds, sees>>

Init ==
  /\ store \in [Blocks -> Values]
  /\ holds = [p \in Procs |-> None]
  /\ sees = [p \in Procs |-> None]

Take(p, b) ==
  /\ holds[p] = None
  /\ \A q \in Procs : holds[q] # b
  /\ holds' = [holds EXCEPT ![p] = b]
  /\ sees' = [sees EXCEPT ![p] = store[b]]
  /\ UNCHANGED store

Put(p, v) ==
  /\ holds[p] # None
  /\ store' = [store EXCEPT ![holds[p]] = v]
  /\ sees' = [sees EXCEPT ![p] = v]
  /\ UNCHANGED holds

Drop(p) ==
  /\ holds[p] # None
  /\ holds' = [holds EXCEPT ![p] = None]
  /\ sees' = [sees EXCEPT ![p] = None]
  /\ UNCHANGED store

Next ==
  \E p \in Procs : \/ \E b \in Blocks : Take(p, b)
                   \/ \E v \in Values : Put(p, v)
                   \/ Drop(p)

Spec == Init /\ [][Next]_vars
=============================================================================
