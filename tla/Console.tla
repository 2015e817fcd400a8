------------------------------- MODULE Console ------------------------------
(***************************************************************************)
(* Input from the console: consoleintr() and consoleread() of              *)
(* src/ass5/final_repo/console.c, with two processes that may read at the  *)
(* same time.  The indices input.r, input.w and input.e are uints: they    *)
(* wrap around at WORD.  Keys are letters (all one here), the end of a     *)
(* line, ^D, ^H and ^U.  A step is what is done under one acquire() of     *)
(* cons.lock.                                                              *)
(***************************************************************************)
EXTENDS Integers, Sequences, FiniteSets, SequencesExt

CONSTANTS Readers,
          INPUT_BUF, WORD, \* WORD is a multiple of INPUT_BUF
          Lengths,         \* bytes that read() asks for
          MaxKeys          \* bound: keys that are typed

Chars == {"a", "nl", "^D"}

VARIABLES
  buf, r, w, e, \* struct input
  pc,           \* reader -> "idle", "read", "sleeping", "asleep"
  n, target,    \* reader -> bytes left to read, bytes asked for
  killed,
  line,         \* what is typed and not committed yet: a ghost
  committed,    \* what is committed and not read yet: a ghost
  results,      \* reader -> what its last read() returned, or <<"none">>
  keys          \* counter for the bound

input == <<buf, r, w, e>>
reader == <<pc, n, target, killed, results>>
vars == <<input, reader, line, committed, keys>>

Init ==
  /\ buf = [i \in 0 .. INPUT_BUF - 1 |-> "a"]
  /\ r = WORD - 2 /\ w = r /\ e = r
  /\ pc = [p \in Readers |-> "idle"]
  /\ n = [p \in Readers |-> 0] /\ target = n
  /\ killed = [p \in Readers |-> FALSE]
  /\ line = <<>> /\ committed = <<>>
  /\ results = [p \in Readers |-> <<"none">>]
  /\ keys = 0

Minus(x, y) == (x - y) % WORD
Slot(i) == i % INPUT_BUF
\* cons.lock is not held: a reader on its way to sleep still has it.
Unlocked == \A p \in Readers : pc[p] # "sleeping"
Typed == Unlocked /\ keys < MaxKeys /\ keys' = keys + 1

\* The characters of buf from index i on.
Text(i, len) == [k \in 1 .. len |-> buf[Slot(i + k - 1)]]

-----------------------------------------------------------------------------
(* consoleintr() *)

\* ^U: back to the start of the line, or to what is committed.
KillLine ==
  LET len == Minus(e, w)
      keep == {k \in 1 .. len : Text(w, len)[k] = "nl"} \cup {0}
      left == CHOOSE k \in keep : \A j \in keep : j <= k
  IN /\ Typed
     /\ e' = (w + left) % WORD
     /\ line' = <<>>
     /\ UNCHANGED <<buf, r, w, reader, committed>>

Erasable == e # w

Backspace ==
  /\ Typed
  /\ IF Erasable THEN e' = Minus(e, 1) /\ line' = Front(line) ELSE UNCHANGED <<e, line>>
  /\ UNCHANGED <<buf, r, w, reader, committed>>

Room == Minus(e, r) < INPUT_BUF

\* The end of a line, ^D or a full buffer let the readers go on.
Commits(c, next) == c \in {"nl", "^D"} \/ next = (r + INPUT_BUF) % WORD

\* Mutant: one reader is woken.
WakeOne ==
  IF \A p \in Readers : pc[p] # "asleep" THEN UNCHANGED pc
  ELSE pc' = [pc EXCEPT ![CHOOSE p \in Readers : pc[p] = "asleep"] = "read"]

\* wakeup(&input.r)
WakeReaders ==
  pc' = [p \in Readers |-> IF pc[p] = "asleep" THEN "read" ELSE pc[p]]

Key(c) ==
  LET next == (e + 1) % WORD IN
  /\ Typed
  /\ IF ~Room THEN UNCHANGED <<input, pc, line, committed>>
     ELSE /\ buf' = [buf EXCEPT ![Slot(e)] = c]
          /\ e' = next
          /\ IF Commits(c, next)
             THEN /\ w' = next /\ WakeReaders
                  /\ committed' = committed \o Append(line, c) /\ line' = <<>>
             ELSE line' = Append(line, c) /\ UNCHANGED <<w, pc, committed>>
          /\ UNCHANGED r
  /\ UNCHANGED <<n, target, killed, results>>

-----------------------------------------------------------------------------
(* consoleread() *)

Read(p, len) ==
  /\ pc[p] = "idle" /\ ~killed[p]
  /\ pc' = [pc EXCEPT ![p] = "read"]
  /\ n' = [n EXCEPT ![p] = len] /\ target' = [target EXCEPT ![p] = len]
  /\ results' = [results EXCEPT ![p] = <<>>]
  /\ UNCHANGED <<input, killed, line, committed, keys>>

\* The characters that one stay in the loop takes, from where a reader is: as
\* many as it wants, up to the end of a line or a ^D.
Ends(p) ==
  {k \in 1 .. Minus(w, r) : Text(r, k)[k] \in {"nl", "^D"}} \cup {Minus(w, r), n[p]}

\* Mutant: the ^D is taken although there were characters before it.
SavedNever(p, got) == FALSE

\* A ^D after other characters is left for the next call.
Saved(p, got) == Last(got) = "^D" /\ n[p] - (Len(got) - 1) < target[p]

\* The turns of the loop until the call returns or there is nothing to read;
\* cons.lock is held all the time.
Take(p) ==
  LET len == CHOOSE k \in Ends(p) : \A j \in Ends(p) : k <= j
      got == Text(r, len)
      eof == Last(got) = "^D"
      data == IF eof THEN Front(got) ELSE got
      used == IF Saved(p, got) THEN len - 1 ELSE len
      done == eof \/ Last(got) = "nl" \/ len = n[p]
  IN /\ pc[p] = "read" /\ Unlocked /\ r # w
     /\ r' = (r + used) % WORD
     /\ committed' = SubSeq(committed, used + 1, Len(committed))
     /\ results' = [results EXCEPT ![p] = @ \o data]
     /\ n' = [n EXCEPT ![p] = @ - Len(data)]
     /\ pc' = [pc EXCEPT ![p] = IF done THEN "idle" ELSE "read"]
     /\ UNCHANGED <<buf, w, e, target, killed, line, keys>>

\* Nothing to read: a process that is killed returns -1, others call sleep(),
\* which takes ptable.lock, releases cons.lock and sleeps.
Empty(p) ==
  /\ pc[p] = "read" /\ Unlocked /\ r = w
  /\ pc' = [pc EXCEPT ![p] = IF killed[p] THEN "idle" ELSE "sleeping"]
  /\ UNCHANGED <<input, n, target, killed, results, line, committed, keys>>

Sleep(p) ==
  /\ pc[p] = "sleeping"
  /\ pc' = [pc EXCEPT ![p] = "asleep"]
  /\ UNCHANGED <<input, n, target, killed, results, line, committed, keys>>

\* kill() makes a sleeper runnable.
Kill(p) ==
  /\ ~killed[p] /\ killed' = [killed EXCEPT ![p] = TRUE]
  /\ pc' = [pc EXCEPT ![p] = IF @ = "asleep" THEN "read" ELSE @]
  /\ UNCHANGED <<input, n, target, results, line, committed, keys>>

\* Nothing more is typed, and nobody reads.
Stopped ==
  /\ keys = MaxKeys /\ \A p \in Readers : killed[p] /\ pc[p] \in {"idle", "asleep"}
  /\ UNCHANGED vars

Next ==
  \/ Stopped
  \/ KillLine \/ Backspace
  \/ \E c \in Chars : Key(c)
  \/ \E p \in Readers : Take(p) \/ Empty(p) \/ Sleep(p) \/ Kill(p)
                      \/ \E len \in Lengths : Read(p, len)

Spec == Init /\ [][Next]_vars

-----------------------------------------------------------------------------
(* Properties *)

TypeOK ==
  /\ r \in 0 .. WORD - 1 /\ w \in 0 .. WORD - 1 /\ e \in 0 .. WORD - 1
  /\ pc \in [Readers -> {"idle", "read", "sleeping", "asleep"}]
  /\ \A p \in Readers : n[p] \in 0 .. target[p]

\* The ring holds exactly what was typed and not read, in order: first what is
\* committed, then the line that can still be edited; also when the buffer is
\* full and when the indices wrap around.
InputIntact ==
  /\ Text(r, Minus(w, r)) = committed
  /\ Text(w, Minus(e, w)) = line
  /\ Minus(e, r) = Len(committed) + Len(line) /\ Minus(e, r) <= INPUT_BUF

\* A full buffer is never stuck: what is in it is committed, so that somebody
\* can read it although nothing more can be typed.
FullCommitted == Minus(e, r) = INPUT_BUF => w = e

\* A ^D is used up only by a read() that returns no bytes: "to make sure caller
\* gets a 0-byte result", also when another reader comes in between.
EofStep ==
  \A p \in Readers :
    LET used == SubSeq(committed, 1, Len(committed) - Len(committed'))
    IN (pc[p] = "read" /\ pc'[p] = "idle" /\ Contains(used, "^D")) => results'[p] = <<>>

\* No reader sleeps while there is input for it.  A killed one may: consoleread()
\* looks at killed before sleep() takes ptable.lock.
SleeperHasReason == \A p \in Readers : pc[p] = "asleep" => r = w
-----------------------------------------------------------------------------
(* The inductive invariant of ConsoleSound and EofStep *)

ConsoleTypes ==
  /\ buf \in [0 .. INPUT_BUF - 1 -> Chars]
  /\ line \in Seq({"a"}) /\ committed \in Seq(Chars)
  /\ pc \in [Readers -> {"idle", "read", "sleeping", "asleep"}]
  /\ n \in [Readers -> Nat] /\ target \in [Readers -> Nat]
  /\ results \in [Readers -> Seq(Chars \cup {"none"})]

\* The indices are as far apart as there are characters between them.
Distances ==
  /\ r \in 0 .. WORD - 1
  /\ w = (r + Len(committed)) % WORD
  /\ e = (r + Len(committed) + Len(line)) % WORD
  /\ Len(committed) + Len(line) <= INPUT_BUF
  /\ Len(committed) + Len(line) = INPUT_BUF => line = <<>>

RingRight ==
  /\ \A k \in 1 .. Len(committed) : committed[k] = buf[Slot(r + k - 1)]
  /\ \A k \in 1 .. Len(line) : line[k] = buf[Slot(r + Len(committed) + k - 1)]

\* Who is about to sleep has cons.lock, and has found nothing; who reads wants something,
\* and has nothing before it gets the first character.
ReadersRight ==
  \A p \in Readers :
    /\ pc[p] \in {"sleeping", "asleep"} => r = w
    /\ n[p] <= target[p]
    /\ pc[p] # "idle" => n[p] >= 1 /\ (n[p] = target[p] => results[p] = <<>>)

ConsoleInv == ConsoleTypes /\ Distances /\ RingRight /\ ReadersRight
=============================================================================
