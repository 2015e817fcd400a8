------------------------------ MODULE QuickSort -----------------------------
(***************************************************************************)
(* src/ass4/Q1/quick_sort.c: runSorts() sorts an array with processes on   *)
(* shared memory, then a copy of the result with threads and once more     *)
(* with plain recursion.  A task is one call of the sorting function on    *)
(* arr[l .. r].  What a task does to its own part of the array is one      *)
(* step; Separate below is the reason why that is enough.                  *)
(***************************************************************************)
EXTENDS Integers, Sequences, FiniteSets, SequencesExt, Folds

CONSTANTS N,     \* length of the array
          Small, \* parts of at most this length are sorted directly: 5
          Values,
          CreateFails \* whether fork() and pthread_create() may fail: {FALSE} or BOOLEAN

Index == 0 .. N - 1
Phases == <<"processes", "threads", "normal">>

VARIABLES
  input, arr,
  phase, \* index into Phases, or 4 at the end
  task,  \* function: <<l, r>> of the calls that have not returned -> task
  lost   \* the calls of this sort, or Main, that could not create a child

vars == <<input, arr, phase, task, lost>>

Main == <<>>   \* runSorts()

\* A call that begins; pi is where partition() has put the pivot.
New == [pc |-> "start", pi |-> -1]

Init ==
  /\ input \in [Index -> Values] /\ arr = input
  /\ phase = 1 /\ lost = {}
  /\ task = [t \in {<<0, N - 1>>} |-> New]

Running(point) == {t \in DOMAIN task : task[t].pc = point}
Goto(t, point) == task' = [task EXCEPT ![t].pc = point]
Without(t) == [u \in DOMAIN task \ {t} |-> task[u]]
WithChild(t, c, point) ==
  [u \in DOMAIN task \cup {c} |->
     IF u = c THEN New ELSE IF u = t THEN [task[t] EXCEPT !.pc = point] ELSE task[u]]
LeftOf(t) == <<t[1], task[t].pi - 1>>
RightOf(t) == <<task[t].pi + 1, t[2]>>

-----------------------------------------------------------------------------
(* What a task does to its part of the array *)

Swap(a, i, j) == [a EXCEPT ![i] = a[j], ![j] = a[i]]

\* The two loops for a short part: for i from l, for j from i + 1.
ExchangeSort(a, l, h) ==
  LET turn(b, ij) == IF b[ij[2]] < b[ij[1]] THEN Swap(b, ij[1], ij[2]) ELSE b
      pairs == FlattenSeq([i \in 1 .. h - l |->
                             [k \in 1 .. h - l + 1 - i |-> <<l + i - 1, l + i - 1 + k>>]])
  IN FoldLeft(turn, a, pairs)

\* The pivots that rand() % high and the test after it can give.
Pivots(l, h) ==
  {IF k < l THEN (l + h) \div 2 ELSE k : k \in 0 .. h - 1}

\* partition(): the loop over j, then the pivot goes to its place.
Partition(a, l, h, pivot) ==
  LET b == Swap(a, h, pivot)
      turn(s, j) == IF s.a[j] < s.a[h] THEN [a |-> Swap(s.a, s.i + 1, j), i |-> s.i + 1] ELSE s
      s == FoldLeft(turn, [a |-> b, i |-> l - 1], [k \in 1 .. h - l |-> l + k - 1])
  IN [a |-> Swap(s.a, s.i + 1, h), pi |-> s.i + 1]

-----------------------------------------------------------------------------
(* The sorting functions *)

\* An empty or a short part: sorted, and the call returns.
Return(t) ==
  /\ t \in Running("start") /\ t[2] - t[1] + 1 <= Small
  /\ arr' = IF t[1] > t[2] THEN arr ELSE ExchangeSort(arr, t[1], t[2])
  /\ task' = Without(t)
  /\ UNCHANGED <<input, phase, lost>>

Split(t) ==
  /\ t \in Running("start") /\ t[2] - t[1] + 1 > Small
  /\ \E pivot \in Pivots(t[1], t[2]) :
       LET s == Partition(arr, t[1], t[2], pivot) IN
       /\ arr' = s.a
       /\ task' = [task EXCEPT ![t] = [pc |-> "left", pi |-> s.pi]]
  /\ UNCHANGED <<input, phase, lost>>

Fails == IF Phases[phase] = "normal" THEN {FALSE} ELSE CreateFails

\* The left part: fork(), pthread_create() or a call.  The first two may fail, and then
\* nobody sorts it.
Left(t) ==
  \E fails \in Fails :
  /\ t \in Running("left")
  /\ IF fails THEN Goto(t, "right") ELSE task' = WithChild(t, LeftOf(t), "right")
  /\ lost' = IF fails THEN lost \cup {t} ELSE lost
  /\ UNCHANGED <<input, arr, phase>>

\* The right part; plain recursion does it when the left one has returned.
Right(t) ==
  \E fails \in Fails :
  /\ t \in Running("right")
  /\ Phases[phase] = "normal" => LeftOf(t) \notin DOMAIN task
  /\ IF fails THEN Goto(t, "wait") ELSE task' = WithChild(t, RightOf(t), "wait")
  /\ lost' = IF fails THEN lost \cup {t} ELSE lost
  /\ UNCHANGED <<input, arr, phase>>

\* Mutant: one child is waited for.
JoinedOne(t) == LeftOf(t) \notin DOMAIN task

\* Both children have ended: waitpid() or pthread_join() twice.  After a fork()
\* that failed waitpid(-1) waits for the other child, or for none; pthread_join() of a
\* thread id that was never set returns, or the program crashes.
Joined(t) == LeftOf(t) \notin DOMAIN task /\ RightOf(t) \notin DOMAIN task

Wait(t) ==
  /\ t \in Running("wait") /\ Joined(t)
  /\ task' = Without(t)
  /\ UNCHANGED <<input, arr, phase, lost>>

Crash ==
  /\ phase = 2 /\ \E t \in lost : t = Main \/ t \in Running("wait")
  /\ phase' = 4
  /\ task' = [t \in {} |-> New]
  /\ UNCHANGED <<input, arr, lost>>

\* runSorts() prints the array and sorts a copy of it the next way, the second time
\* in a thread of its own.
NextSort ==
  \E fails \in IF phase = 1 THEN CreateFails ELSE {FALSE} :
  /\ phase <= 3 /\ <<0, N - 1>> \notin DOMAIN task
  /\ phase' = phase + 1
  /\ lost' = IF fails THEN {Main} ELSE {}
  /\ task' = IF phase = 3 \/ fails THEN task
             ELSE [t \in DOMAIN task \cup {<<0, N - 1>>} |->
                     IF t = <<0, N - 1>> THEN New ELSE task[t]]
  /\ UNCHANGED <<input, arr>>

Ended == phase = 4 /\ UNCHANGED vars

Next ==
  \/ NextSort \/ Crash \/ Ended
  \/ \E t \in DOMAIN task : Return(t) \/ Split(t) \/ Left(t) \/ Right(t) \/ Wait(t)

Spec == Init /\ [][Next]_vars

-----------------------------------------------------------------------------
(* Properties *)

Count(a, v) == Cardinality({i \in Index : a[i] = v})
Part(t) == t[1] .. t[2]
Ancestor(t, u) == Part(u) \subseteq Part(t) /\ task[t].pc # "start"
Sorted(a) == \A i \in Index : i + 1 \in Index => a[i] <= a[i + 1]

TypeOK ==
  /\ arr \in [Index -> Values] /\ phase \in 1 .. 4
  /\ \A t \in DOMAIN task : /\ t[1] \in 0 .. N /\ t[2] \in -1 .. N - 1
                            /\ task[t].pc \in {"start", "left", "right", "wait"}
                            /\ task[t].pi \in -1 .. N - 1

\* Two calls that are in progress have separate parts of the array, unless one
\* has split its part, does not touch it any more and waits for the other.
Separate ==
  \A t, u \in DOMAIN task :
    t # u => Part(t) \cap Part(u) = {} \/ Ancestor(t, u) \/ Ancestor(u, t)

\* When runSorts() prints, nobody works on the array any more, it has the elements
\* of the input, and it is sorted; only the first two of the sorts may leave it
\* unsorted, after a fork() or pthread_create() of theirs that failed.
SortedAtPrint ==
  <<0, N - 1>> \notin DOMAIN task =>
    /\ DOMAIN task = {}
    /\ \A v \in Values : Count(arr, v) = Count(input, v)
    /\ Sorted(arr) \/ (phase # 3 /\ lost # {})
=============================================================================
