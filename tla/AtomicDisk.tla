----------------------------- MODULE AtomicDisk -----------------------------
(***************************************************************************)
(* What the log of src/ass5/final_repo/log.c promises to the file system:  *)
(* the writes of the operations between begin_op() and end_op() reach the  *)
(* disk in groups, each group at once and only when no operation is in     *)
(* progress, and a crash loses exactly the groups that have not got there. *)
(***************************************************************************)
CONSTANTS Procs, Blocks, Values

VARIABLES mem,     \* the blocks as file system calls see them
          disk,    \* the blocks as they are after a crash
          active   \* the processes inside an operation

vars == <<mem, disk, active>>

Init == /\ disk \in [Blocks -> Values]
        /\ mem = disk
        /\ active = {}

Begin(p) == /\ p \notin active
            /\ active' = active \cup {p}
            /\ UNCHANGED <<mem, disk>>

Write(p, b, v) == /\ p \in active
                  /\ mem' = [mem EXCEPT ![b] = v]
                  /\ UNCHANGED <<disk, active>>

End(p) == /\ p \in active
          /\ active' = active \ {p}
          /\ UNCHANGED <<mem, disk>>

Commit == /\ active = {}
          /\ disk' = mem
          /\ UNCHANGED <<mem, active>>

Crash == /\ mem' = disk
         /\ active' = {}
         /\ UNCHANGED disk

Next == \/ \E p \in Procs : \/ Begin(p) \/ End(p)
                            \/ \E b \in Blocks, v \in Values : Write(p, b, v)
        \/ Commit \/ Crash

Spec == Init /\ [][Next]_vars
=============================================================================
