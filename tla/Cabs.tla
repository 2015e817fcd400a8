-------------------------------- MODULE Cabs --------------------------------
(***************************************************************************)
(* The cab service of src/ass4/Q3/main.c: passenger threads look for a cab *)
(* under mutex_for_passenger_cab, ride, and ask for payment in a slot of   *)
(* pay[] under mutex_for_payment; server threads scan pay[] under          *)
(* mutex_for_payment_server, restore the cab and count the passenger out.  *)
(* Since each array is written under one mutex and read under another, or  *)
(* under none, an access to cabs, slots or total_passengers_left is a step *)
(* of its own, but for two accesses to a cab by the holder of the mutex of *)
(* the cabs (Bookable, Book) that the others could as well come before or  *)
(* after.  Rides and the sleep()s are delays of any length.                *)
(* A local variable that is not read again is cleared.                     *)
(***************************************************************************)
EXTENDS Integers, FiniteSets

CONSTANTS N,      \* number of cabs (n)
          Passengers, \* the numbers of the passengers: 0 .. m - 1, or those of
                  \* them that have not come and gone
          K,      \* number of payment servers (k)
          Wait,   \* wait_time of a passenger: 20
          NPay    \* length of pay[]: 500

ASSUME CabsAssumption ==
  /\ N \in Nat \ {0} /\ K \in Nat \ {0} /\ Wait \in Nat
  /\ Passengers \subseteq Nat /\ IsFiniteSet(Passengers)
  /\ NPay \in Nat \ {0} /\ Cardinality(Passengers) <= NPay

VARIABLES
  ride, lock,                       \* ride_status and lock of each cab
  payStatus, payCab, payReduce,     \* the fields of each pay[]
  empty,                            \* current_empty_pay_slot
  left,                             \* total_passengers_left
  cabMutex, payMutex, serverMutex,  \* the holder of each mutex, or Free
  main,                             \* "done" when main() has returned
  pc, i, time, found, val, slot,    \* a passenger and its local variables
  spc, si, scab, sval, todo         \* a server and its local variables

cabs == <<ride, lock>>
pays == <<payStatus, payCab, payReduce>>
plocals == <<i, time, found, val, slot>>
slocals == <<si, scab, sval, todo>>
servers == <<spc, slocals>>
vars == <<cabs, pays, empty, left, cabMutex, payMutex, serverMutex, main, pc, plocals,
          servers>>

Cabs == 0 .. N - 1
M == Cardinality(Passengers)
Servers == 1 .. K
PaySlots == 0 .. NPay - 1
Free == -1

waitState == 0
onRidePremier == 1
onRidePoolFull == 2
onRidePoolHalf == 3

IsPremier(p) == p % 2 = 0

Init ==
  /\ ride = [c \in Cabs |-> waitState]
  /\ lock = [c \in Cabs |-> 0]
  /\ payStatus = [s \in PaySlots |-> 0]
  /\ payCab = [s \in PaySlots |-> 0]
  /\ payReduce = [s \in PaySlots |-> 0]
  /\ empty = 0
  /\ left = M
  /\ cabMutex = Free
  /\ payMutex = Free
  /\ serverMutex = Free
  /\ main = "running"
  /\ pc = [p \in Passengers |-> "new"]
  /\ i = [p \in Passengers |-> 0]
  /\ time = [p \in Passengers |-> 0]
  /\ found = [p \in Passengers |-> -1]
  /\ val = [p \in Passengers |-> 0]
  /\ slot = [p \in Passengers |-> 0]
  /\ spc = [s \in Servers |-> "check"]
  /\ si = [s \in Servers |-> 0]
  /\ scab = [s \in Servers |-> 0]
  /\ sval = [s \in Servers |-> 0]
  /\ todo = [s \in Servers |-> {}]

Goto(p, point) == pc' = [pc EXCEPT ![p] = point]

-----------------------------------------------------------------------------
(* bring_in_passengers() and the search of take_cab() *)

\* main creates the passengers in their order.
Arrive(p) ==
  /\ pc[p] = "new" /\ \A q \in Passengers : q < p => pc[q] # "new"
  /\ Goto(p, "lock")
  /\ UNCHANGED <<cabs, pays, empty, left, cabMutex, payMutex, serverMutex, main,
                 plocals, servers>>

\* Mutant of LockSearch: the mutex is forgotten.
LockSearchOpen(p) ==
  /\ pc[p] = "lock"
  /\ cabMutex' = p
  /\ time' = [time EXCEPT ![p] = Wait]
  /\ Goto(p, IF IsPremier(p) THEN "premier" ELSE "pool")
  /\ UNCHANGED <<cabs, pays, empty, left, payMutex, serverMutex, main, i, found, val,
                 slot, servers>>

\* The search holds the mutex of the cabs from its first probe to its last.
LockSearch(p) ==
  /\ pc[p] = "lock" /\ cabMutex = Free
  /\ cabMutex' = p
  /\ time' = [time EXCEPT ![p] = Wait]
  /\ Goto(p, IF IsPremier(p) THEN "premier" ELSE "pool")
  /\ UNCHANGED <<cabs, pays, empty, left, payMutex, serverMutex, main, i, found, val,
                 slot, servers>>

\* The head of the while loop of a pool passenger.
PoolRound(p) ==
  /\ pc[p] = "pool"
  /\ IF found[p] < 0 /\ time[p] > 0
     THEN time' = [time EXCEPT ![p] = @ - 1] /\ Goto(p, "half")
     ELSE Goto(p, "unlock") /\ UNCHANGED time
  /\ i' = [i EXCEPT ![p] = 0]
  /\ UNCHANGED <<cabs, pays, empty, left, cabMutex, payMutex, serverMutex, main, found,
                 val, slot, servers>>

\* The two tests of a cab.  Only the holder of cabMutex sets a lock, so a lock
\* that was found open is still open when the status is read.
Bookable(c, status) == lock[c] = 0 /\ ride[c] = status

\* The first inner loop looks for a cab with one pool rider, the second for an
\* empty one, whether or not the first has found a cab.
Probe(p, here, status, take, after) ==
  /\ pc[p] = here
  /\ IF Bookable(i[p], status)
     THEN Goto(p, take) /\ UNCHANGED i
     ELSE IF i[p] < N - 1
          THEN i' = [i EXCEPT ![p] = @ + 1] /\ UNCHANGED pc
          ELSE i' = [i EXCEPT ![p] = 0] /\ Goto(p, after)
  /\ UNCHANGED <<cabs, pays, empty, left, cabMutex, payMutex, serverMutex, main, time,
                 found, val, slot, servers>>

ProbeHalf(p) == Probe(p, "half", onRidePoolHalf, "join", "empty")
ProbeEmpty(p) == Probe(p, "empty", waitState, "start", "pool")

\* A premier passenger goes round the cabs, time_to_wait probes in all.
ProbePremier(p) ==
  /\ pc[p] = "premier"
  /\ IF time[p] = 0
     THEN Goto(p, "unlock") /\ UNCHANGED <<i, time>>
     ELSE IF Bookable(i[p], waitState)
          THEN Goto(p, "start") /\ UNCHANGED <<i, time>>
          ELSE /\ time' = [time EXCEPT ![p] = @ - 1]
               /\ i' = [i EXCEPT ![p] = (@ + 1) % N]
               /\ UNCHANGED pc
  /\ UNCHANGED <<cabs, pays, empty, left, cabMutex, payMutex, serverMutex, main, found,
                 val, slot, servers>>

\* The stores that book cab i[p]; the cab may have changed since it was probed.
Book(p, status) ==
  /\ ride' = [ride EXCEPT ![i[p]] = status]
  /\ lock' = [lock EXCEPT ![i[p]] = 1]
  /\ found' = [found EXCEPT ![p] = i[p]]

BookHalf(p) ==
  /\ pc[p] = "join" /\ Book(p, onRidePoolFull)
  /\ i' = [i EXCEPT ![p] = 0]
  /\ Goto(p, "empty")
  /\ UNCHANGED <<pays, empty, left, cabMutex, payMutex, serverMutex, main, time, val,
                 slot, servers>>

BookEmpty(p) ==
  /\ pc[p] = "start"
  /\ Book(p, IF IsPremier(p) THEN onRidePremier ELSE onRidePoolHalf)
  /\ Goto(p, "unlock")
  /\ UNCHANGED <<pays, empty, left, cabMutex, payMutex, serverMutex, main, i, time, val,
                 slot, servers>>

UnlockSearch(p) ==
  /\ pc[p] = "unlock"
  /\ cabMutex' = Free
  /\ Goto(p, IF found[p] < 0 THEN "leave" ELSE "release")
  /\ i' = [i EXCEPT ![p] = 0]
  /\ time' = [time EXCEPT ![p] = 0]
  /\ UNCHANGED <<cabs, pays, empty, left, payMutex, serverMutex, main, found, val, slot,
                 servers>>

-----------------------------------------------------------------------------
(* The rest of take_cab(), and do_payment() *)

\* total_passengers_left--, a load and a store, by a passenger without a cab.
LeaveLoad(p) ==
  /\ pc[p] = "leave"
  /\ val' = [val EXCEPT ![p] = left]
  /\ Goto(p, "count")
  /\ UNCHANGED <<cabs, pays, empty, left, cabMutex, payMutex, serverMutex, main, i, time,
                 found, slot, servers>>

LeaveStore(p) ==
  /\ pc[p] = "count"
  /\ left' = val[p] - 1
  /\ val' = [val EXCEPT ![p] = 0]
  /\ Goto(p, "gone")
  /\ UNCHANGED <<cabs, pays, empty, cabMutex, payMutex, serverMutex, main, i, time, found,
                 slot, servers>>

ReleaseCab(p) ==
  /\ pc[p] = "release"
  /\ lock' = [lock EXCEPT ![found[p]] = 0]
  /\ Goto(p, "riding")
  /\ UNCHANGED <<ride, pays, empty, left, cabMutex, payMutex, serverMutex, main, plocals,
                 servers>>

\* The ride ends, and the status of the cab is read for do_payment().
RideOver(p) ==
  /\ pc[p] = "riding"
  /\ val' = [val EXCEPT ![p] = ride[found[p]]]
  /\ Goto(p, "pay")
  /\ UNCHANGED <<cabs, pays, empty, left, cabMutex, payMutex, serverMutex, main, i, time,
                 found, slot, servers>>

\* Mutant of PayMark: the mutex is forgotten.
PayMarkUnlocked(p) ==
  /\ pc[p] = "pay"
  /\ payMutex' = p
  /\ payStatus' = [payStatus EXCEPT ![empty] = 1]
  /\ Goto(p, "pay_cab")
  /\ UNCHANGED <<cabs, payCab, payReduce, empty, left, cabMutex, serverMutex, main,
                 plocals, servers>>

\* The slot is marked before it says which cab it is for.
PayMark(p) ==
  /\ pc[p] = "pay" /\ payMutex = Free
  /\ payMutex' = p
  /\ payStatus' = [payStatus EXCEPT ![empty] = 1]
  /\ Goto(p, "pay_cab")
  /\ UNCHANGED <<cabs, payCab, payReduce, empty, left, cabMutex, serverMutex, main,
                 plocals, servers>>

PayCab(p) ==
  /\ pc[p] = "pay_cab"
  /\ payCab' = [payCab EXCEPT ![empty] = found[p]]
  /\ Goto(p, "pay_reduce")
  /\ UNCHANGED <<cabs, payStatus, payReduce, empty, left, cabMutex, payMutex,
                 serverMutex, main, plocals, servers>>

ReduceTo(status, old) ==
  CASE status = onRidePoolFull -> onRidePoolHalf
    [] status \in {onRidePoolHalf, onRidePremier} -> waitState
    [] OTHER -> old

PayReduce(p) ==
  /\ pc[p] = "pay_reduce"
  /\ payReduce' = [payReduce EXCEPT ![empty] = ReduceTo(val[p], @)]
  /\ slot' = [slot EXCEPT ![p] = empty]
  /\ empty' = empty + 1
  /\ payMutex' = Free
  /\ val' = [val EXCEPT ![p] = 0]
  /\ found' = [found EXCEPT ![p] = -1]
  /\ Goto(p, "spin")
  /\ UNCHANGED <<cabs, payStatus, payCab, left, cabMutex, serverMutex, main, i, time,
                 servers>>

\* wait_for_payment() returns.
Confirmed(p) ==
  /\ pc[p] = "spin" /\ payStatus[slot[p]] # 1
  /\ Goto(p, "gone")
  /\ UNCHANGED <<cabs, pays, empty, left, cabMutex, payMutex, serverMutex, main, plocals,
                 servers>>

-----------------------------------------------------------------------------
(* server_in_action() *)

SGoto(s, point) == spc' = [spc EXCEPT ![s] = point]
passengers == <<empty, cabMutex, payMutex, main, pc, plocals>>

\* The load of total_passengers_left at the head of the loop.
ServerCheck(s) ==
  /\ spc[s] = "check"
  /\ SGoto(s, IF left <= 0 THEN "exited" ELSE "lock")
  /\ UNCHANGED <<cabs, pays, left, serverMutex, passengers, slocals>>

\* Mutant of ServerSkip: the scan does not begin again after the last slot.
ServerSkipStops(s) ==
  /\ spc[s] = "lock" /\ serverMutex = Free
  /\ payStatus[si[s]] # 1
  /\ si' = [si EXCEPT ![s] = IF @ < NPay - 1 THEN @ + 1 ELSE @]
  /\ SGoto(s, "check")
  /\ UNCHANGED <<cabs, pays, left, serverMutex, passengers, scab, sval, todo>>

\* Lock, look at a slot without a pending payment, unlock.
ServerSkip(s) ==
  /\ spc[s] = "lock" /\ serverMutex = Free
  /\ payStatus[si[s]] # 1
  /\ si' = [si EXCEPT ![s] = (@ + 1) % NPay]
  /\ SGoto(s, "check")
  /\ UNCHANGED <<cabs, pays, left, serverMutex, passengers, scab, sval, todo>>

ServerFind(s) ==
  /\ spc[s] = "lock" /\ serverMutex = Free
  /\ payStatus[si[s]] = 1
  /\ serverMutex' = s
  /\ SGoto(s, "cab")
  /\ UNCHANGED <<cabs, pays, left, passengers, slocals>>

\* The two loads and the store of c[cab_number].ride_status = reduce_status_to.
ServerLoadCab(s) ==
  /\ spc[s] = "cab"
  /\ scab' = [scab EXCEPT ![s] = payCab[si[s]]]
  /\ SGoto(s, "reduce")
  /\ UNCHANGED <<cabs, pays, left, serverMutex, passengers, si, sval, todo>>

ServerLoadReduce(s) ==
  /\ spc[s] = "reduce"
  /\ sval' = [sval EXCEPT ![s] = payReduce[si[s]]]
  /\ SGoto(s, "restore")
  /\ UNCHANGED <<cabs, pays, left, serverMutex, passengers, si, scab, todo>>

ServerRestore(s) ==
  /\ spc[s] = "restore"
  /\ ride' = [ride EXCEPT ![scab[s]] = sval[s]]
  /\ todo' = [todo EXCEPT ![s] = {"confirm", "count"}]
  /\ scab' = [scab EXCEPT ![s] = 0]
  /\ sval' = [sval EXCEPT ![s] = 0]
  /\ SGoto(s, "settle")
  /\ UNCHANGED <<lock, pays, left, serverMutex, passengers, si>>

\* payment_status = 0 and total_passengers_left -= 1: only the first is volatile,
\* and gcc -O3 puts it last, so either order is possible.
ServerConfirm(s) ==
  /\ spc[s] = "settle" /\ "confirm" \in todo[s]
  /\ payStatus' = [payStatus EXCEPT ![si[s]] = 0]
  /\ todo' = [todo EXCEPT ![s] = @ \ {"confirm"}]
  /\ UNCHANGED <<cabs, payCab, payReduce, left, serverMutex, passengers, spc, si, scab,
                 sval>>

ServerLoadLeft(s) ==
  /\ spc[s] = "settle" /\ "count" \in todo[s]
  /\ sval' = [sval EXCEPT ![s] = left]
  /\ todo' = [todo EXCEPT ![s] = @ \ {"count"}]
  /\ SGoto(s, "store")
  /\ UNCHANGED <<cabs, pays, left, serverMutex, passengers, si, scab>>

ServerStoreLeft(s) ==
  /\ spc[s] = "store"
  /\ left' = sval[s] - 1
  /\ sval' = [sval EXCEPT ![s] = 0]
  /\ SGoto(s, "settle")
  /\ UNCHANGED <<cabs, pays, serverMutex, passengers, si, scab, todo>>

ServerUnlock(s) ==
  /\ spc[s] = "settle" /\ todo[s] = {}
  /\ serverMutex' = Free
  /\ si' = [si EXCEPT ![s] = (@ + 1) % NPay]
  /\ SGoto(s, "check")
  /\ UNCHANGED <<cabs, pays, left, passengers, scab, sval, todo>>

-----------------------------------------------------------------------------
\* wait_for_passengers_to_be_over(), and the return of main().
MainReturns ==
  /\ main = "running"
  /\ \A p \in Passengers : pc[p] # "new"
  /\ \A s \in Servers : spc[s] = "exited"
  /\ main' = "done"
  /\ UNCHANGED <<cabs, pays, empty, left, cabMutex, payMutex, serverMutex, pc, plocals,
                 servers>>

\* The end of the process: every thread is gone.
Ended == main = "done" /\ UNCHANGED vars

PassengerStep(p) == main = "running" /\
 ( \/ LockSearch(p) \/ PoolRound(p) \/ ProbeHalf(p) \/ ProbeEmpty(p) \/ ProbePremier(p)
  \/ BookHalf(p) \/ BookEmpty(p) \/ UnlockSearch(p) \/ LeaveLoad(p) \/ LeaveStore(p)
  \/ ReleaseCab(p) \/ RideOver(p) \/ PayMark(p) \/ PayCab(p) \/ PayReduce(p)
  \/ Confirmed(p))

ServerStep(s) == main = "running" /\
 ( \/ ServerCheck(s) \/ ServerSkip(s) \/ ServerFind(s)
  \/ ServerLoadCab(s) \/ ServerLoadReduce(s) \/ ServerRestore(s)
  \/ ServerConfirm(s) \/ ServerLoadLeft(s) \/ ServerStoreLeft(s) \/ ServerUnlock(s))

Next ==
  \/ MainReturns
  \/ \E p \in Passengers : Arrive(p) \/ PassengerStep(p)
  \/ \E s \in Servers : ServerStep(s)
  \/ Ended

Spec == Init /\ [][Next]_vars

\* Every thread goes on.  A mutex need not be fair: nothing more is asked of it.
FairSpec ==
  /\ Spec
  /\ WF_vars(MainReturns)
  /\ \A p \in Passengers : WF_vars(Arrive(p)) /\ WF_vars(PassengerStep(p))
  /\ \A s \in Servers : WF_vars(ServerStep(s))

-----------------------------------------------------------------------------
(* Properties *)

Searching == {"premier", "pool", "half", "empty", "join", "start", "unlock"}
Marking == {"pay_cab", "pay_reduce"}
Serving == {"cab", "reduce", "restore", "settle", "store"}

\* Every variable keeps to its domain.
TypeOK ==
  /\ ride \in [Cabs -> {waitState, onRidePremier, onRidePoolFull, onRidePoolHalf}]
  /\ lock \in [Cabs -> {0, 1}]
  /\ payStatus \in [PaySlots -> {0, 1}] /\ payCab \in [PaySlots -> Cabs]
  /\ payReduce \in [PaySlots -> {waitState, onRidePoolHalf}]
  /\ empty \in Nat /\ left \in Int
  /\ cabMutex \in Passengers \cup {Free} /\ payMutex \in Passengers \cup {Free}
  /\ serverMutex \in Servers \cup {Free} /\ main \in {"running", "done"}
  /\ pc \in [Passengers -> {"new", "lock", "leave", "count", "release", "riding", "pay", "spin",
                            "gone"} \cup Searching \cup Marking]
  /\ found \in [Passengers -> Cabs \cup {-1}] /\ i \in [Passengers -> Cabs]
  /\ time \in [Passengers -> 0 .. Wait] /\ slot \in [Passengers -> Nat]
  /\ val \in [Passengers -> Int]
  /\ spc \in [Servers -> {"check", "lock", "exited"} \cup Serving]
  /\ si \in [Servers -> PaySlots] /\ scab \in [Servers -> Cabs]
  /\ sval \in [Servers -> Int] /\ todo \in [Servers -> SUBSET {"confirm", "count"}]

\* Who has a mutex is in the code that it guards, and there is one: the three mutexes
\* guard the search, the marking of a slot and the service of a slot.
MutexesHeld ==
  /\ \A p \in Passengers : /\ cabMutex = p <=> pc[p] \in Searching
                           /\ payMutex = p <=> pc[p] \in Marking
  /\ \A s \in Servers : serverMutex = s <=> spc[s] \in Serving

\* What threads have in their local variables.
LocalsRight ==
  /\ \A p \in Passengers :
       /\ pc[p] \in {"new", "lock", "premier", "half"} => found[p] = -1
       /\ pc[p] \in {"release", "riding", "pay"} \cup Marking => found[p] # -1
  /\ \A s \in Servers :
       /\ spc[s] \notin {"settle", "store"} => todo[s] = {}
       /\ spc[s] = "store" => "count" \notin todo[s]
       /\ spc[s] = "restore" => sval[s] \in {waitState, onRidePoolHalf}

Paying(p) == pc[p] \in {"pay_cab", "pay_reduce", "spin"}
SlotOf(p) == IF pc[p] = "spin" THEN slot[p] ELSE empty

\* The passenger is through: it left without a cab, or its payment is confirmed.
Through(p) == pc[p] = "gone" \/ (Paying(p) /\ payStatus[SlotOf(p)] = 0)

\* The passenger has booked cab c and not yet released its lock.
Booking(p, c) ==
  found[p] = c /\ pc[p] \in {"empty", "start", "pool", "unlock", "release"}

\* A cab that is being booked is not booked by anybody else: take_cab() sets its
\* lock under the mutex and clears it after the mutex is released.
BookingExclusive ==
  /\ \A p, q \in Passengers : \A c \in Cabs : Booking(p, c) /\ Booking(q, c) => p = q
  /\ \A p \in Passengers : \A c \in Cabs : Booking(p, c) => lock[c] = 1
  /\ \A p \in Passengers : pc[p] \in {"join", "start"} => lock[i[p]] = 0

\* Two passengers that pay never share a slot of pay[], and the array never ends.
SlotPrivate ==
  \A p \in Passengers : Paying(p) =>
    /\ SlotOf(p) \in PaySlots
    /\ \A q \in Passengers : Paying(q) /\ q # p => SlotOf(p) # SlotOf(q)

\* The slots of pay[] are used in their order, one for each passenger that pays: there are
\* enough, no slot is marked before its turn, though a server may find the one that is
\* being marked, and a server settles what it has found, once.
SlotsInOrder ==
  /\ empty + Cardinality({p \in Passengers : pc[p] \notin {"spin", "gone"}}) <= M
  /\ \A p \in Passengers : pc[p] = "spin" => slot[p] < empty
  /\ \A k \in PaySlots :
       payStatus[k] = 1 \/ (\E s \in Servers : spc[s] \in Serving /\ si[s] = k)
         => k < empty \/ (k = empty /\ payMutex # Free)
  /\ \A s \in Servers :
       /\ spc[s] \in {"cab", "reduce", "restore"} => payStatus[si[s]] = 1
       /\ spc[s] \in {"settle", "store"} => (payStatus[si[s]] = 1 <=> "confirm" \in todo[s])

\* The passengers that total_passengers_left has still to count out, and the slots of
\* those that a server will count out.
Uncounted == {p \in Passengers : pc[p] \notin Marking \cup {"spin", "gone"}}
Counting(s) == spc[s] = "store" \/ (spc[s] = "settle" /\ "count" \in todo[s])
Unsettled ==
  {k \in PaySlots :
     \/ \E s \in Servers : si[s] = k /\ Counting(s)
     \/ /\ payStatus[k] = 1
        /\ ~ \E s \in Servers : si[s] = k /\ spc[s] = "settle" /\ "count" \notin todo[s]}
Owed == Cardinality(Uncounted) + Cardinality(Unsettled)

\* total_passengers_left never falls below what is owed, nor does any value that a thread
\* has loaded and will store again; and when a server has left, nothing is owed.
NeverShort ==
  /\ left \in Owed .. M
  /\ \A p \in Passengers : pc[p] = "count" => val[p] \in Owed .. M
  /\ \A s \in Servers : spc[s] = "store" => sval[s] \in Owed .. M
  /\ (\E s \in Servers : spc[s] = "exited") => Uncounted = {} /\ Unsettled = {}

\* The servers outlast the passengers.  total_passengers_left is decremented by
\* passengers and servers without a common lock and may lose decrements, but it
\* never falls short: a server that has seen it at 0 leaves no passenger behind
\* whose payment no other server is confirming.
NoneAbandoned ==
  (\E s \in Servers : spc[s] = "exited") =>
    \A p \in Passengers :
      \/ Through(p)
      \/ /\ Paying(p)
         /\ \E s \in Servers : "confirm" \in todo[s] /\ si[s] = SlotOf(p)

\* Payments: each passenger has a slot of its own, and the servers do not leave
\* before it is confirmed.
PaymentsSound ==
  /\ TypeOK /\ MutexesHeld /\ LocalsRight /\ SlotsInOrder /\ NeverShort
  /\ SlotPrivate /\ NoneAbandoned

\* Every passenger gets through: it gives up its search or its payment is
\* confirmed, although the search, the payment and the servers use three
\* different mutexes.
AllThrough == <>(\A p \in Passengers : Through(p))

\* "Once all the customers have either confirmed payment or exited the system, we
\* are free to leave the system as well" (src/ass4/Q3/readme.md): the servers end
\* and main() returns.
MainEnds == <>(main = "done")
=============================================================================
