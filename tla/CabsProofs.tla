----------------------------- MODULE CabsProofs -----------------------------
(***************************************************************************)
(* Proofs about the cab service, for any cabs, passengers and servers.     *)
(* PaymentsSound and BookingExclusive of Cabs are inductive together.      *)
(***************************************************************************)
EXTENDS Cabs, TLAPS, FiniteSetTheorems

Basics == TypeOK /\ MutexesHeld /\ LocalsRight

\* The passengers that may still take a slot of pay[].
Coming == {p \in Passengers : pc[p] \notin {"spin", "gone"}}

\* The constants: Free is nobody, the slots are enough for the passengers.
LEMMA Constants ==
  /\ Free \notin Passengers /\ Free \notin Servers
  /\ N \in Nat \ {0} /\ NPay \in Nat \ {0} /\ Wait \in Nat
  /\ IsFiniteSet(Passengers) /\ M \in Nat /\ M <= NPay
  BY CabsAssumption, FS_CardinalityType DEF Free, Servers, M

\* Sets of passengers and sets of slots are finite.
LEMMA Finite ==
  ASSUME NEW A \in SUBSET Passengers, NEW B \in SUBSET PaySlots
  PROVE  /\ IsFiniteSet(A) /\ Cardinality(A) \in Nat /\ Cardinality(A) <= M
         /\ IsFiniteSet(B) /\ Cardinality(B) \in Nat
         /\ A = {} <=> Cardinality(A) = 0
         /\ B = {} <=> Cardinality(B) = 0
<1>1. IsFiniteSet(A) /\ Cardinality(A) <= M
  BY CabsAssumption, FS_Subset DEF M
<1>2. IsFiniteSet(PaySlots)
  <2>1. 0 \in Int /\ NPay - 1 \in Int
    BY Constants
  <2> QED
    BY <2>1, FS_Interval DEF PaySlots
<1>3. IsFiniteSet(B)
  BY <1>2, FS_Subset
<1> QED
  BY <1>1, <1>3, FS_CardinalityType, FS_EmptySet

\* Indices of cabs and of slots stay in their arrays, also when they go round.
LEMMA Indices ==
  /\ 0 \in Cabs /\ -1 \notin Cabs
  /\ \A c \in Cabs : c \in Nat /\ (c + 1) % N \in Cabs /\ (c < N - 1 => c + 1 \in Cabs)
  /\ \A k \in PaySlots : k \in Int /\ (k + 1) % NPay \in PaySlots
<1>1. /\ 0 \in Cabs /\ -1 \notin Cabs
      /\ \A c \in Cabs : c \in Nat /\ (c < N - 1 => c + 1 \in Cabs)
  BY Constants DEF Cabs
<1>2. \A c \in Cabs : (c + 1) % N \in Cabs
  BY Constants DEF Cabs
<1>3. \A k \in PaySlots : k \in Int /\ (k + 1) % NPay \in PaySlots
  BY Constants DEF PaySlots
<1> QED
  BY <1>1, <1>2, <1>3

\* While a passenger is on its way to pay, there is a slot for it.
LEMMA SlotFree ==
  ASSUME TypeOK, SlotsInOrder, NEW p \in Coming
  PROVE  empty \in PaySlots /\ empty < M
<1>1. Coming \in SUBSET Passengers /\ Coming # {}
  BY DEF Coming
<1>2. Cardinality(Coming) \in Nat /\ Cardinality(Coming) # 0
  BY <1>1, Finite
<1>3. empty + Cardinality(Coming) <= M
  BY DEF SlotsInOrder, Coming
<1> QED
  BY <1>2, <1>3, Constants DEF TypeOK, PaySlots

\* Every step of a passenger keeps the domains, the mutexes and the local variables right.
LEMMA PassengerBasics ==
  ASSUME Basics, SlotsInOrder, NEW p \in Passengers, Arrive(p) \/ PassengerStep(p)
  PROVE  Basics'
<1> USE Constants, Indices DEF Basics, Goto, cabs, pays, plocals, slocals, servers
<1>1. CASE Arrive(p)
  <2> USE <1>1 DEF Arrive
  <2>1. TypeOK'
    BY DEF TypeOK, Searching, Marking
  <2>2. MutexesHeld'
    BY DEF TypeOK, MutexesHeld, Searching, Marking
  <2>3. LocalsRight'
    BY DEF TypeOK, LocalsRight, Searching, Marking
  <2> QED
    BY <2>1, <2>2, <2>3
<1>2. CASE LockSearch(p)
  <2> USE <1>2 DEF LockSearch
  <2>1. TypeOK'
    BY DEF TypeOK, Searching, Marking
  <2>2. MutexesHeld'
    BY DEF TypeOK, MutexesHeld, Searching, Marking
  <2>3. LocalsRight'
    BY DEF TypeOK, LocalsRight, Searching, Marking
  <2> QED
    BY <2>1, <2>2, <2>3
<1>3. CASE PoolRound(p)
  <2> USE <1>3 DEF PoolRound
  <2>1. TypeOK'
    BY DEF TypeOK, Searching, Marking
  <2>2. MutexesHeld'
    BY DEF TypeOK, MutexesHeld, Searching, Marking
  <2>3. LocalsRight'
    <3>1. found[p] \in Cabs \cup {-1}
      BY DEF TypeOK
    <3>2. pc'[p] = "half" => found[p] = -1
      <4>1. pc'[p] = "half" => found[p] < 0
        BY DEF TypeOK
      <4>2. found[p] \in Nat => ~(found[p] < 0)
        OBVIOUS
      <4> QED
        BY <3>1, <4>1, <4>2
    <3>3. pc'[p] \in {"half", "unlock"} /\ \A q \in Passengers : q # p => pc'[q] = pc[q]
      BY DEF TypeOK
    <3> QED
      BY <3>2, <3>3 DEF LocalsRight, Marking
  <2> QED
    BY <2>1, <2>2, <2>3
<1>4. CASE ProbeHalf(p)
  <2> USE <1>4 DEF ProbeHalf, Probe, Bookable
  <2>1. TypeOK'
    <3>1. CASE Bookable(i[p], onRidePoolHalf)
      BY <3>1 DEF TypeOK, Searching
    <3>2. CASE ~Bookable(i[p], onRidePoolHalf) /\ i[p] < N - 1
      BY <3>2 DEF TypeOK, Searching
    <3>3. CASE ~Bookable(i[p], onRidePoolHalf) /\ ~(i[p] < N - 1)
      BY <3>3 DEF TypeOK, Searching
    <3> QED
      BY <3>1, <3>2, <3>3
  <2>2. MutexesHeld'
    BY DEF TypeOK, MutexesHeld, Searching, Marking
  <2>3. LocalsRight'
    BY DEF TypeOK, LocalsRight, Searching, Marking
  <2> QED
    BY <2>1, <2>2, <2>3
<1>5. CASE ProbeEmpty(p)
  <2> USE <1>5 DEF ProbeEmpty, Probe, Bookable
  <2>1. TypeOK'
    BY DEF TypeOK, Searching, Marking
  <2>2. MutexesHeld'
    BY DEF TypeOK, MutexesHeld, Searching, Marking
  <2>3. LocalsRight'
    BY DEF TypeOK, LocalsRight, Searching, Marking
  <2> QED
    BY <2>1, <2>2, <2>3
<1>6. CASE ProbePremier(p)
  <2> USE <1>6 DEF ProbePremier, Bookable
  <2>1. TypeOK'
    BY DEF TypeOK, Searching, Marking
  <2>2. MutexesHeld'
    BY DEF TypeOK, MutexesHeld, Searching, Marking
  <2>3. LocalsRight'
    BY DEF TypeOK, LocalsRight, Searching, Marking
  <2> QED
    BY <2>1, <2>2, <2>3
<1>7. CASE BookHalf(p)
  <2> USE <1>7 DEF BookHalf, Book
  <2>1. TypeOK'
    BY DEF TypeOK, Searching, Marking, waitState, onRidePremier, onRidePoolFull, onRidePoolHalf
  <2>2. MutexesHeld'
    BY DEF TypeOK, MutexesHeld, Searching, Marking
  <2>3. LocalsRight'
    BY DEF TypeOK, LocalsRight, Searching, Marking
  <2> QED
    BY <2>1, <2>2, <2>3
<1>8. CASE BookEmpty(p)
  <2> USE <1>8 DEF BookEmpty, Book
  <2>1. TypeOK'
    BY DEF TypeOK, Searching, Marking, waitState, onRidePremier, onRidePoolFull, onRidePoolHalf
  <2>2. MutexesHeld'
    BY DEF TypeOK, MutexesHeld, Searching, Marking
  <2>3. LocalsRight'
    BY DEF TypeOK, LocalsRight, Searching, Marking
  <2> QED
    BY <2>1, <2>2, <2>3
<1>9. CASE UnlockSearch(p)
  <2> USE <1>9 DEF UnlockSearch
  <2>1. TypeOK'
    BY DEF TypeOK, Searching, Marking
  <2>2. MutexesHeld'
    BY DEF TypeOK, MutexesHeld, Searching, Marking
  <2>3. LocalsRight'
    BY DEF TypeOK, LocalsRight, Searching, Marking
  <2> QED
    BY <2>1, <2>2, <2>3
<1>10. CASE LeaveLoad(p)
  <2> USE <1>10 DEF LeaveLoad
  <2>1. TypeOK'
    BY DEF TypeOK, Searching, Marking
  <2>2. MutexesHeld'
    BY DEF TypeOK, MutexesHeld, Searching, Marking
  <2>3. LocalsRight'
    BY DEF TypeOK, LocalsRight, Searching, Marking
  <2> QED
    BY <2>1, <2>2, <2>3
<1>11. CASE LeaveStore(p)
  <2> USE <1>11 DEF LeaveStore
  <2>1. TypeOK'
    BY DEF TypeOK, Searching, Marking
  <2>2. MutexesHeld'
    BY DEF TypeOK, MutexesHeld, Searching, Marking
  <2>3. LocalsRight'
    BY DEF TypeOK, LocalsRight, Searching, Marking
  <2> QED
    BY <2>1, <2>2, <2>3
<1>12. CASE ReleaseCab(p)
  <2> USE <1>12 DEF ReleaseCab
  <2>1. TypeOK'
    BY DEF TypeOK, Searching, Marking
  <2>2. MutexesHeld'
    BY DEF TypeOK, MutexesHeld, Searching, Marking
  <2>3. LocalsRight'
    BY DEF TypeOK, LocalsRight, Searching, Marking
  <2> QED
    BY <2>1, <2>2, <2>3
<1>13. CASE RideOver(p)
  <2> USE <1>13 DEF RideOver
  <2>1. TypeOK'
    <3>1. found[p] \in Cabs
      BY DEF TypeOK, LocalsRight
    <3>2. ride[found[p]] \in Int
      BY <3>1 DEF TypeOK, waitState, onRidePremier, onRidePoolFull, onRidePoolHalf
    <3> QED
      BY <3>2 DEF TypeOK
  <2>2. MutexesHeld'
    BY DEF TypeOK, MutexesHeld, Searching, Marking
  <2>3. LocalsRight'
    BY DEF TypeOK, LocalsRight, Searching, Marking
  <2> QED
    BY <2>1, <2>2, <2>3
<1>14. CASE PayMark(p)
  <2> USE <1>14 DEF PayMark
  <2>1. TypeOK'
    BY DEF TypeOK, Searching, Marking
  <2>2. MutexesHeld'
    BY DEF TypeOK, MutexesHeld, Searching, Marking
  <2>3. LocalsRight'
    BY DEF TypeOK, LocalsRight, Searching, Marking
  <2> QED
    BY <2>1, <2>2, <2>3
<1>15. CASE PayCab(p)
  <2> USE <1>15 DEF PayCab
  <2>1. TypeOK'
    <3>1. found[p] \in Cabs
      BY DEF TypeOK, LocalsRight, Marking
    <3> QED
      BY <3>1 DEF TypeOK, Marking
  <2>2. MutexesHeld'
    BY DEF TypeOK, MutexesHeld, Searching, Marking
  <2>3. LocalsRight'
    BY DEF TypeOK, LocalsRight, Searching, Marking
  <2> QED
    BY <2>1, <2>2, <2>3
<1>16. CASE PayReduce(p)
  <2> USE <1>16 DEF PayReduce, ReduceTo
  <2>1. TypeOK'
    <3>1. empty \in PaySlots
      BY SlotFree DEF Coming
    <3>2. ReduceTo(val[p], payReduce[empty]) \in {waitState, onRidePoolHalf}
      BY <3>1 DEF TypeOK
    <3>3. payReduce' \in [PaySlots -> {waitState, onRidePoolHalf}]
      BY <3>2 DEF TypeOK
    <3> HIDE DEF ReduceTo
    <3> QED
      BY <3>3 DEF TypeOK, Marking
  <2>2. MutexesHeld'
    BY DEF TypeOK, MutexesHeld, Searching, Marking
  <2>3. LocalsRight'
    BY DEF TypeOK, LocalsRight, Searching, Marking
  <2> QED
    BY <2>1, <2>2, <2>3
<1>17. CASE Confirmed(p)
  <2> USE <1>17 DEF Confirmed
  <2>1. TypeOK'
    BY DEF TypeOK, Searching, Marking
  <2>2. MutexesHeld'
    BY DEF TypeOK, MutexesHeld, Searching, Marking
  <2>3. LocalsRight'
    BY DEF TypeOK, LocalsRight, Searching, Marking
  <2> QED
    BY <2>1, <2>2, <2>3
<1> QED
  BY <1>1, <1>2, <1>3, <1>4, <1>5, <1>6, <1>7, <1>8, <1>9, <1>10, <1>11, <1>12, <1>13, <1>14, <1>15, <1>16, <1>17 DEF PassengerStep

\* And every step of a server.
LEMMA ServerBasics ==
  ASSUME Basics, SlotsInOrder, NEW s \in Servers, ServerStep(s)
  PROVE  Basics'
<1> USE Constants, Indices DEF Basics, SGoto, cabs, pays, plocals, slocals, servers, passengers
<1>1. CASE ServerCheck(s)
  <2> USE <1>1 DEF ServerCheck
  <2>1. TypeOK'
    BY DEF TypeOK, Serving
  <2>2. MutexesHeld'
    BY DEF TypeOK, MutexesHeld, Serving
  <2>3. LocalsRight'
    BY DEF TypeOK, LocalsRight, Serving
  <2> QED
    BY <2>1, <2>2, <2>3
<1>2. CASE ServerSkip(s)
  <2> USE <1>2 DEF ServerSkip
  <2>1. TypeOK'
    BY DEF TypeOK, Serving
  <2>2. MutexesHeld'
    BY DEF TypeOK, MutexesHeld, Serving
  <2>3. LocalsRight'
    BY DEF TypeOK, LocalsRight, Serving
  <2> QED
    BY <2>1, <2>2, <2>3
<1>3. CASE ServerFind(s)
  <2> USE <1>3 DEF ServerFind
  <2>1. TypeOK'
    BY DEF TypeOK, Serving
  <2>2. MutexesHeld'
    BY DEF TypeOK, MutexesHeld, Serving
  <2>3. LocalsRight'
    BY DEF TypeOK, LocalsRight, Serving
  <2> QED
    BY <2>1, <2>2, <2>3
<1>4. CASE ServerLoadCab(s)
  <2> USE <1>4 DEF ServerLoadCab
  <2>1. TypeOK'
    BY DEF TypeOK, Serving
  <2>2. MutexesHeld'
    BY DEF TypeOK, MutexesHeld, Serving
  <2>3. LocalsRight'
    BY DEF TypeOK, LocalsRight, Serving
  <2> QED
    BY <2>1, <2>2, <2>3
<1>5. CASE ServerLoadReduce(s)
  <2> USE <1>5 DEF ServerLoadReduce
  <2>1. TypeOK'
    <3>1. payReduce[si[s]] \in Int
      BY DEF TypeOK, waitState, onRidePoolHalf
    <3> QED
      BY <3>1 DEF TypeOK, Serving
  <2>2. MutexesHeld'
    BY DEF TypeOK, MutexesHeld, Serving
  <2>3. LocalsRight'
    BY DEF TypeOK, LocalsRight, Serving
  <2> QED
    BY <2>1, <2>2, <2>3
<1>6. CASE ServerRestore(s)
  <2> USE <1>6 DEF ServerRestore
  <2>1. TypeOK'
    <3>1. sval[s] \in {waitState, onRidePoolHalf}
      BY DEF LocalsRight
    <3> QED
      BY <3>1 DEF TypeOK, Serving
  <2>2. MutexesHeld'
    BY DEF TypeOK, MutexesHeld, Serving
  <2>3. LocalsRight'
    BY DEF TypeOK, LocalsRight, Serving
  <2> QED
    BY <2>1, <2>2, <2>3
<1>7. CASE ServerConfirm(s)
  <2> USE <1>7 DEF ServerConfirm
  <2>1. TypeOK'
    BY DEF TypeOK, Serving
  <2>2. MutexesHeld'
    BY DEF TypeOK, MutexesHeld, Serving
  <2>3. LocalsRight'
    BY DEF TypeOK, LocalsRight, Serving
  <2> QED
    BY <2>1, <2>2, <2>3
<1>8. CASE ServerLoadLeft(s)
  <2> USE <1>8 DEF ServerLoadLeft
  <2>1. TypeOK'
    BY DEF TypeOK, Serving
  <2>2. MutexesHeld'
    BY DEF TypeOK, MutexesHeld, Serving
  <2>3. LocalsRight'
    BY DEF TypeOK, LocalsRight, Serving
  <2> QED
    BY <2>1, <2>2, <2>3
<1>9. CASE ServerStoreLeft(s)
  <2> USE <1>9 DEF ServerStoreLeft
  <2>1. TypeOK'
    BY DEF TypeOK, Serving
  <2>2. MutexesHeld'
    BY DEF TypeOK, MutexesHeld, Serving
  <2>3. LocalsRight'
    BY DEF TypeOK, LocalsRight, Serving
  <2> QED
    BY <2>1, <2>2, <2>3
<1>10. CASE ServerUnlock(s)
  <2> USE <1>10 DEF ServerUnlock
  <2>1. TypeOK'
    BY DEF TypeOK, Serving
  <2>2. MutexesHeld'
    BY DEF TypeOK, MutexesHeld, Serving
  <2>3. LocalsRight'
    BY DEF TypeOK, LocalsRight, Serving
  <2> QED
    BY <2>1, <2>2, <2>3
<1> QED
  BY <1>1, <1>2, <1>3, <1>4, <1>5, <1>6, <1>7, <1>8, <1>9, <1>10 DEF ServerStep

\* A step that leaves the locks and the other passengers alone, and in which a passenger books
\* nothing, keeps the bookings apart.
LEMMA BookingKept ==
  ASSUME BookingExclusive, NEW p \in Passengers, lock' = lock,
         \A q \in Passengers : q # p => pc'[q] = pc[q] /\ found'[q] = found[q] /\ i'[q] = i[q],
         \A c \in Cabs : Booking(p, c)' => Booking(p, c),
         pc'[p] \in {"join", "start"} => lock[i'[p]] = 0
  PROVE  BookingExclusive'
<1>1. \A q \in Passengers : \A c \in Cabs : Booking(q, c)' => Booking(q, c)
  BY DEF Booking
<1> QED
  BY <1>1 DEF BookingExclusive

\* A passenger that books a cab whose lock is open, as the holder of mutex_for_passenger_cab.
LEMMA BookingMade ==
  ASSUME Basics, BookingExclusive, NEW p \in Passengers, pc[p] \in {"join", "start"},
         lock' = [lock EXCEPT ![i[p]] = 1], found' = [found EXCEPT ![p] = i[p]],
         \A q \in Passengers : q # p => pc'[q] = pc[q] /\ i'[q] = i[q],
         pc'[p] \in {"empty", "unlock"}
  PROVE  BookingExclusive'
<1>1. lock[i[p]] = 0 /\ i[p] \in Cabs
  BY DEF BookingExclusive, Basics, TypeOK
<1>2. \A q \in Passengers : q # p => pc[q] \notin Searching
  BY DEF Basics, MutexesHeld, Searching
<1>3. \A q \in Passengers : \A c \in Cabs : q # p /\ Booking(q, c)' => Booking(q, c) /\ c # i[p]
  BY <1>1 DEF Booking, BookingExclusive, Basics, TypeOK
<1>4. \A c \in Cabs : Booking(p, c)' => c = i[p]
  BY DEF Booking, Basics, TypeOK
<1>5. \A c \in Cabs : lock'[c] = IF c = i[p] THEN 1 ELSE lock[c]
  BY DEF Basics, TypeOK
<1>6. \A q \in Passengers : pc'[q] \notin {"join", "start"}
  BY <1>2 DEF Searching
<1>7. \A q, r \in Passengers : \A c \in Cabs : Booking(q, c)' /\ Booking(r, c)' => q = r
  BY <1>3, <1>4 DEF BookingExclusive
<1>8. \A q \in Passengers : \A c \in Cabs : Booking(q, c)' => lock'[c] = 1
  BY <1>3, <1>4, <1>5 DEF BookingExclusive
<1> QED
  BY <1>6, <1>7, <1>8 DEF BookingExclusive

\* The lock of a cab is released by the one passenger that has booked it.
LEMMA BookingReleased ==
  ASSUME Basics, BookingExclusive, NEW p \in Passengers, ReleaseCab(p)
  PROVE  BookingExclusive'
<1> USE DEF ReleaseCab, Goto, plocals
<1>1. found[p] \in Cabs /\ Booking(p, found[p])
  BY DEF Basics, TypeOK, LocalsRight, Booking
<1>2. pc'[p] = "riding" /\ \A q \in Passengers : q # p => pc'[q] = pc[q]
  BY DEF Basics, TypeOK
<1>3. \A q \in Passengers : \A c \in Cabs : Booking(q, c)' => q # p /\ Booking(q, c)
  BY <1>2 DEF Booking
<1>4. \A c \in Cabs : lock'[c] = IF c = found[p] THEN 0 ELSE lock[c]
  BY <1>1 DEF Basics, TypeOK
<1>5. \A q \in Passengers : \A c \in Cabs : Booking(q, c)' => c # found[p]
  BY <1>1, <1>3 DEF BookingExclusive
<1>6. \A q \in Passengers : pc'[q] \in {"join", "start"} => lock'[i'[q]] = 0
  BY <1>2, <1>4 DEF BookingExclusive, Basics, TypeOK
<1> QED
  BY <1>3, <1>4, <1>5, <1>6 DEF BookingExclusive

\* Every step of a passenger keeps the bookings apart.
LEMMA PassengerBooking ==
  ASSUME Basics, BookingExclusive, NEW p \in Passengers, Arrive(p) \/ PassengerStep(p)
  PROVE  BookingExclusive'
<1> USE DEF Goto, cabs, plocals
<1>1. CASE Arrive(p)
  BY <1>1, BookingKept DEF Arrive, Basics, TypeOK, Booking
<1>2. CASE LockSearch(p)
  <2>1. found[p] = -1
    BY <1>2 DEF LockSearch, Basics, LocalsRight
  <2> QED
    BY <1>2, <2>1, BookingKept, Indices DEF LockSearch, Basics, TypeOK, Booking
<1>3. CASE PoolRound(p)
  BY <1>3, BookingKept DEF PoolRound, Basics, TypeOK, Booking
<1>4. CASE ProbeHalf(p)
  <2>1. found[p] = -1
    BY <1>4 DEF ProbeHalf, Probe, Basics, LocalsRight
  <2> QED
    BY <1>4, <2>1, BookingKept, Indices DEF ProbeHalf, Probe, Bookable, Basics, TypeOK, Booking
<1>5. CASE ProbeEmpty(p)
  BY <1>5, BookingKept DEF ProbeEmpty, Probe, Bookable, Basics, TypeOK, Booking
<1>6. CASE ProbePremier(p)
  <2>1. found[p] = -1
    BY <1>6 DEF ProbePremier, Basics, LocalsRight
  <2> QED
    BY <1>6, <2>1, BookingKept, Indices DEF ProbePremier, Bookable, Basics, TypeOK, Booking
<1>7. CASE BookHalf(p)
  BY <1>7, BookingMade DEF BookHalf, Book, Basics, TypeOK
<1>8. CASE BookEmpty(p)
  BY <1>8, BookingMade DEF BookEmpty, Book, Basics, TypeOK
<1>9. CASE UnlockSearch(p)
  BY <1>9, BookingKept DEF UnlockSearch, Basics, TypeOK, Booking
<1>10. CASE ReleaseCab(p)
  BY <1>10, BookingReleased
<1>11. CASE LeaveLoad(p) \/ LeaveStore(p) \/ RideOver(p) \/ PayMark(p) \/ PayCab(p)
            \/ PayReduce(p) \/ Confirmed(p)
  <2>1. /\ lock' = lock /\ i' = i /\ pc'[p] \notin {"join", "start", "empty", "pool", "unlock", "release"}
        /\ \A q \in Passengers : q # p => pc'[q] = pc[q] /\ found'[q] = found[q]
    BY <1>11 DEF LeaveLoad, LeaveStore, RideOver, PayMark, PayCab, PayReduce, Confirmed, Basics,
                 TypeOK
  <2> QED
    BY <2>1, BookingKept DEF Booking
<1> QED
  BY <1>1, <1>2, <1>3, <1>4, <1>5, <1>6, <1>7, <1>8, <1>9, <1>10, <1>11 DEF PassengerStep

-----------------------------------------------------------------------------
(* The slots of pay[] *)

\* The steps of a passenger before it pays or counts itself out.
SearchStep(p) ==
  \/ Arrive(p) \/ LockSearch(p) \/ PoolRound(p) \/ ProbeHalf(p) \/ ProbeEmpty(p)
  \/ ProbePremier(p) \/ BookHalf(p) \/ BookEmpty(p) \/ UnlockSearch(p) \/ LeaveLoad(p)
  \/ ReleaseCab(p) \/ RideOver(p)

\* The points at which a passenger is with the payment or through.
AtPayment == Marking \cup {"spin", "gone"}

\* Such a step has nothing to do with the payments.
LEMMA SearchFrame ==
  ASSUME Basics, NEW p \in Passengers, SearchStep(p)
  PROVE  /\ UNCHANGED <<payStatus, payCab, payReduce, empty, left, payMutex, slot, spc, si, sval,
                        todo>>
         /\ pc[p] \notin AtPayment /\ pc'[p] \notin AtPayment
         /\ \A q \in Passengers : q # p => pc'[q] = pc[q] /\ val'[q] = val[q]
         /\ pc'[p] = "count" => val'[p] = left
<1> USE DEF Basics, TypeOK, Goto, pays, servers, slocals, plocals, AtPayment, Marking
<1>1. CASE Arrive(p)
  BY <1>1 DEF Arrive
<1>2. CASE LockSearch(p)
  BY <1>2 DEF LockSearch
<1>3. CASE PoolRound(p)
  BY <1>3 DEF PoolRound
<1>4. CASE ProbeHalf(p)
  BY <1>4 DEF ProbeHalf, Probe
<1>5. CASE ProbeEmpty(p)
  BY <1>5 DEF ProbeEmpty, Probe
<1>6. CASE ProbePremier(p)
  BY <1>6 DEF ProbePremier
<1>7. CASE BookHalf(p) \/ BookEmpty(p)
  BY <1>7 DEF BookHalf, BookEmpty
<1>8. CASE UnlockSearch(p)
  BY <1>8 DEF UnlockSearch
<1>9. CASE LeaveLoad(p)
  BY <1>9 DEF LeaveLoad
<1>10. CASE ReleaseCab(p) \/ RideOver(p)
  BY <1>10 DEF ReleaseCab, RideOver
<1> QED
  BY <1>1, <1>2, <1>3, <1>4, <1>5, <1>6, <1>7, <1>8, <1>9, <1>10 DEF SearchStep

\* A passenger that comes to its payment, or is through, makes the passengers to come fewer.
LEMMA ComingFewer ==
  ASSUME Basics, SlotsInOrder, NEW p \in Passengers,
         \A q \in Passengers : q # p => pc'[q] = pc[q],
         pc[p] \notin {"spin", "gone"}
  PROVE  /\ pc'[p] \in {"spin", "gone"} => empty + 1 + Cardinality(Coming') <= M
         /\ pc'[p] \notin {"spin", "gone"} => empty + Cardinality(Coming') <= M
<1>1. IsFiniteSet(Coming) /\ Cardinality(Coming) \in Nat /\ p \in Coming
  BY Finite DEF Coming
<1>2. empty + Cardinality(Coming) <= M /\ empty \in Nat
  BY DEF SlotsInOrder, Coming, Basics, TypeOK
<1>3. CASE pc'[p] \in {"spin", "gone"}
  <2>1. Coming' = Coming \ {p}
    BY <1>3 DEF Coming
  <2>2. Cardinality(Coming \ {p}) = Cardinality(Coming) - 1
    BY <1>1, FS_RemoveElement
  <2> QED
    BY <2>1, <2>2, <1>1, <1>2, <1>3, Constants
<1>4. CASE pc'[p] \notin {"spin", "gone"}
  <2>1. Coming' = Coming
    BY <1>4 DEF Coming
  <2> QED
    BY <2>1, <1>2, <1>4
<1> QED
  BY <1>3, <1>4

\* Before it pays a passenger leaves the slots as they are.
LEMMA SearchSlots ==
  ASSUME Basics, SlotsInOrder, SlotPrivate, NEW p \in Passengers,
         SearchStep(p) \/ LeaveStore(p)
  PROVE  SlotsInOrder' /\ SlotPrivate'
<1>1. /\ UNCHANGED <<payStatus, empty, payMutex, slot, spc, si, todo>>
      /\ pc[p] \notin AtPayment /\ pc'[p] \notin Marking \cup {"spin"}
      /\ \A q \in Passengers : q # p => pc'[q] = pc[q]
  <2>1. CASE SearchStep(p)
    BY <2>1, SearchFrame DEF AtPayment
  <2>2. CASE LeaveStore(p)
    BY <2>2 DEF LeaveStore, Goto, pays, servers, slocals, AtPayment, Marking, Basics, TypeOK
  <2> QED
    BY <2>1, <2>2
<1>2. empty + Cardinality(Coming') <= M
  <2>1. Cardinality(Coming') \in Nat /\ empty \in Nat
    BY Finite DEF Coming, Basics, TypeOK
  <2>2. \/ empty + 1 + Cardinality(Coming') <= M
        \/ empty + Cardinality(Coming') <= M
    BY <1>1, ComingFewer DEF AtPayment
  <2> QED
    BY <2>1, <2>2, Constants
<1>3. SlotsInOrder'
  BY <1>1, <1>2 DEF SlotsInOrder, AtPayment, Coming
<1>4. SlotPrivate'
  BY <1>1 DEF SlotPrivate, Paying, SlotOf, AtPayment, Marking
<1> QED
  BY <1>3, <1>4

\* do_payment() marks the next slot, which no server has found yet.
LEMMA PayMarkSlots ==
  ASSUME Basics, SlotsInOrder, SlotPrivate, NEW p \in Passengers, PayMark(p)
  PROVE  /\ SlotsInOrder' /\ SlotPrivate'
         /\ empty \in PaySlots /\ payStatus[empty] = 0
         /\ \A s \in Servers : spc[s] \in Serving => si[s] # empty
<1> USE DEF PayMark, Goto, plocals, slocals, servers
<1>1. empty \in PaySlots
  BY SlotFree DEF Coming, Basics
<1>2. /\ pc'[p] = "pay_cab" /\ \A q \in Passengers : q # p => pc'[q] = pc[q]
      /\ \A k \in PaySlots : payStatus'[k] = IF k = empty THEN 1 ELSE payStatus[k]
      /\ empty \in Nat /\ UNCHANGED <<empty, slot, spc, si, todo>>
  BY DEF Basics, TypeOK
<1>3. payStatus[empty] = 0 /\ \A s \in Servers : spc[s] \in Serving => si[s] # empty
  BY <1>1, <1>2 DEF SlotsInOrder, Basics, TypeOK
<1>4. empty + Cardinality(Coming') <= M
  BY <1>2, ComingFewer
<1>5. payMutex' # Free
  BY Constants
<1>6. SlotsInOrder'
  <2>1. \A s \in Servers : si[s] \in PaySlots
    BY DEF Basics, TypeOK
  <2>2. \A q \in Passengers : pc'[q] = "spin" => slot'[q] < empty'
    BY <1>2 DEF SlotsInOrder
  <2>3. \A k \in PaySlots :
          payStatus'[k] = 1 \/ (\E s \in Servers : spc'[s] \in Serving /\ si'[s] = k)
            => k < empty' \/ (k = empty' /\ payMutex' # Free)
    BY <1>2, <1>5 DEF SlotsInOrder
  <2>4. \A s \in Servers : spc'[s] \in Serving => payStatus'[si'[s]] = payStatus[si[s]]
    BY <1>2, <1>3, <2>1
  <2>5. \A s \in Servers :
          /\ spc'[s] \in {"cab", "reduce", "restore"} => payStatus'[si'[s]] = 1
          /\ spc'[s] \in {"settle", "store"} => (payStatus'[si'[s]] = 1 <=> "confirm" \in todo'[s])
    BY <1>2, <2>4 DEF SlotsInOrder, Serving
  <2> QED
    BY <1>2, <1>4, <2>2, <2>3, <2>5 DEF SlotsInOrder, Coming
<1>7. SlotPrivate'
  <2>1. \A q \in Passengers : pc[q] \notin Marking
    BY Constants DEF Basics, MutexesHeld
  <2>2. \A q \in Passengers : q # p /\ Paying(q)' => pc[q] = "spin" /\ SlotOf(q)' = slot[q] /\ slot[q] < empty
    BY <1>2, <2>1 DEF Paying, SlotOf, Marking, SlotsInOrder
  <2>3. SlotOf(p)' = empty
    BY <1>2 DEF SlotOf
  <2>4. \A q \in Passengers : slot[q] \in Nat
    BY DEF Basics, TypeOK
  <2>5. \A q \in Passengers : Paying(q)' => SlotOf(q)' \in PaySlots
    BY <1>1, <2>2, <2>3 DEF SlotPrivate, Paying, SlotOf
  <2>6. \A q, r \in Passengers : Paying(q)' /\ Paying(r)' /\ r # q => SlotOf(q)' # SlotOf(r)'
    <3>1. \A q \in Passengers : q # p /\ Paying(q)' => SlotOf(q)' # SlotOf(p)'
      BY <1>2, <2>2, <2>3, <2>4
    <3>2. \A q, r \in Passengers : q # p /\ r # p /\ Paying(q)' /\ Paying(r)' /\ r # q
                                     => SlotOf(q)' # SlotOf(r)'
      BY <2>2 DEF SlotPrivate, Paying, SlotOf
    <3> QED
      BY <3>1, <3>2
  <2> QED
    BY <2>5, <2>6 DEF SlotPrivate
<1> QED
  BY <1>1, <1>3, <1>6, <1>7

\* It keeps that slot when it leaves the mutex.
LEMMA PayReduceSlots ==
  ASSUME Basics, SlotsInOrder, SlotPrivate, NEW p \in Passengers, PayReduce(p)
  PROVE  SlotsInOrder' /\ SlotPrivate'
<1> USE DEF PayReduce, Goto, slocals, servers
<1>1. /\ pc'[p] = "spin" /\ slot'[p] = empty /\ empty' = empty + 1 /\ empty \in Nat
      /\ \A q \in Passengers : q # p => pc'[q] = pc[q] /\ slot'[q] = slot[q]
      /\ UNCHANGED <<payStatus, spc, si, todo>>
  BY DEF Basics, TypeOK
<1>2. \A q \in Passengers : q # p => pc[q] \notin Marking
  BY DEF Basics, MutexesHeld, Marking
<1>3. empty + 1 + Cardinality(Coming') <= M
  BY <1>1, ComingFewer
<1>4. \A q \in Passengers : pc'[q] = "spin" => slot'[q] < empty'
  <2>1. \A q \in Passengers : slot[q] \in Nat
    BY DEF Basics, TypeOK
  <2> QED
    BY <1>1, <2>1 DEF SlotsInOrder
<1>5. \A k \in PaySlots :
        payStatus'[k] = 1 \/ (\E s \in Servers : spc'[s] \in Serving /\ si'[s] = k)
          => k < empty'
  BY <1>1, Indices DEF SlotsInOrder
<1>6. SlotsInOrder'
  <2>1. empty' + Cardinality(Coming') <= M
    BY <1>1, <1>3
  <2> QED
    BY <1>1, <2>1, <1>4, <1>5 DEF SlotsInOrder, Coming
<1>7. \A q \in Passengers : Paying(q)' => Paying(q) /\ SlotOf(q)' = SlotOf(q)
  BY <1>1, <1>2 DEF Paying, SlotOf, Marking
<1>8. SlotPrivate'
  BY <1>7 DEF SlotPrivate
<1> QED
  BY <1>6, <1>8

\* The steps of a passenger that leave the slots, their order and their users alone.
LEMMA PassengerSlots ==
  ASSUME Basics, SlotsInOrder, SlotPrivate, NEW p \in Passengers, Arrive(p) \/ PassengerStep(p)
  PROVE  SlotsInOrder' /\ SlotPrivate'
<1>1. CASE SearchStep(p) \/ LeaveStore(p)
  BY <1>1, SearchSlots
<1>2. CASE PayMark(p)
  BY <1>2, PayMarkSlots
<1>3. CASE PayCab(p)
  <2> USE <1>3 DEF PayCab, Goto, plocals, servers, slocals
  <2>1. pc'[p] = "pay_reduce" /\ \A q \in Passengers : q # p => pc'[q] = pc[q]
    BY DEF Basics, TypeOK
  <2>2. empty + Cardinality(Coming') <= M
    BY <2>1, ComingFewer
  <2>3. SlotsInOrder'
    BY <2>1, <2>2 DEF SlotsInOrder, Coming
  <2>4. SlotPrivate'
    BY <2>1 DEF SlotPrivate, Paying, SlotOf
  <2> QED
    BY <2>3, <2>4
<1>4. CASE PayReduce(p)
  BY <1>4, PayReduceSlots
<1>5. CASE Confirmed(p)
  <2> USE <1>5 DEF Confirmed, Goto, pays, plocals, servers, slocals
  <2>1. pc'[p] = "gone" /\ \A q \in Passengers : q # p => pc'[q] = pc[q]
    BY DEF Basics, TypeOK
  <2>2. Coming' = Coming
    BY <2>1 DEF Coming
  <2>3. SlotsInOrder'
    BY <2>1, <2>2 DEF SlotsInOrder, Coming
  <2>4. SlotPrivate'
    BY <2>1 DEF SlotPrivate, Paying, SlotOf
  <2> QED
    BY <2>3, <2>4
<1> QED
  BY <1>1, <1>2, <1>3, <1>4, <1>5 DEF PassengerStep, SearchStep

\* A server alone has what is served, and finds only slots that were marked.
LEMMA ServerSlots ==
  ASSUME Basics, SlotsInOrder, SlotPrivate, NEW s \in Servers, ServerStep(s)
  PROVE  SlotsInOrder' /\ SlotPrivate'
<1> USE DEF Basics, SGoto, pays, passengers, plocals, slocals
<1>1. UNCHANGED <<empty, payMutex, pc, slot>>
  BY DEF ServerStep, ServerCheck, ServerSkip, ServerFind, ServerLoadCab, ServerLoadReduce,
         ServerRestore, ServerConfirm, ServerLoadLeft, ServerStoreLeft, ServerUnlock
<1>2. SlotPrivate'
  BY <1>1 DEF SlotPrivate, Paying, SlotOf
<1>3. \A r \in Servers : spc[s] \in Serving /\ r # s => spc[r] \notin Serving
  BY DEF MutexesHeld
<1>4. \A r \in Servers : si[r] \in PaySlots
  BY DEF TypeOK
<1>5. ASSUME \A r \in Servers : r # s => spc'[r] = spc[r] /\ si'[r] = si[r] /\ todo'[r] = todo[r],
             \A k \in PaySlots : payStatus'[k] = 1 => payStatus[k] = 1,
             \A k \in PaySlots : k # si[s] \/ spc[s] \notin Serving => payStatus'[k] = payStatus[k],
             spc'[s] \in Serving
               => si'[s] = si[s] /\ (spc[s] \in Serving \/ payStatus[si[s]] = 1),
             spc'[s] \in {"cab", "reduce", "restore"} => payStatus'[si[s]] = 1,
             spc'[s] \in {"settle", "store"} => (payStatus'[si[s]] = 1 <=> "confirm" \in todo'[s])
      PROVE  SlotsInOrder'
  <2>1. \A k \in PaySlots :
          payStatus'[k] = 1 \/ (\E r \in Servers : spc'[r] \in Serving /\ si'[r] = k)
            => k < empty' \/ (k = empty' /\ payMutex' # Free)
    BY <1>1, <1>2, <1>5 DEF SlotsInOrder
  <2>2. \A r \in Servers : r # s /\ spc[r] \in Serving => payStatus'[si[r]] = payStatus[si[r]]
    BY <1>3, <1>4, <1>5
  <2>3. \A r \in Servers : r # s =>
          /\ spc'[r] \in {"cab", "reduce", "restore"} => payStatus'[si'[r]] = 1
          /\ spc'[r] \in {"settle", "store"} => (payStatus'[si'[r]] = 1 <=> "confirm" \in todo'[r])
    BY <1>5, <2>2 DEF SlotsInOrder, Serving
  <2>4. /\ spc'[s] \in {"cab", "reduce", "restore"} => payStatus'[si'[s]] = 1
        /\ spc'[s] \in {"settle", "store"} => (payStatus'[si'[s]] = 1 <=> "confirm" \in todo'[s])
    BY <1>5 DEF Serving
  <2> QED
    BY <1>1, <2>1, <2>3, <2>4 DEF SlotsInOrder
<1>6. CASE ServerCheck(s) \/ ServerSkip(s)
  BY <1>6, <1>2, <1>5 DEF ServerCheck, ServerSkip, TypeOK, Serving
<1>7. CASE ServerFind(s)
  BY <1>7, <1>2, <1>5 DEF ServerFind, TypeOK, Serving
<1>8. CASE ServerLoadCab(s) \/ ServerLoadReduce(s)
  BY <1>8, <1>2, <1>5 DEF ServerLoadCab, ServerLoadReduce, TypeOK, Serving, SlotsInOrder
<1>9. CASE ServerRestore(s)
  BY <1>9, <1>2, <1>5 DEF ServerRestore, TypeOK, Serving, SlotsInOrder
<1>10. CASE ServerConfirm(s)
  BY <1>10, <1>2, <1>5 DEF ServerConfirm, TypeOK, Serving
<1>11. CASE ServerLoadLeft(s)
  BY <1>11, <1>2, <1>5 DEF ServerLoadLeft, TypeOK, Serving, SlotsInOrder
<1>12. CASE ServerStoreLeft(s)
  BY <1>12, <1>2, <1>5 DEF ServerStoreLeft, TypeOK, Serving, SlotsInOrder
<1>13. CASE ServerUnlock(s)
  BY <1>13, <1>2, <1>5 DEF ServerUnlock, TypeOK, Serving
<1> QED
  BY <1>2, <1>6, <1>7, <1>8, <1>9, <1>10, <1>11, <1>12, <1>13 DEF ServerStep

-----------------------------------------------------------------------------
(* total_passengers_left *)

\* What is owed, as a number.
LEMMA OwedFacts ==
  /\ IsFiniteSet(Uncounted) /\ Cardinality(Uncounted) \in Nat /\ Cardinality(Uncounted) <= M
  /\ IsFiniteSet(Unsettled) /\ Cardinality(Unsettled) \in Nat
  /\ Owed \in Nat
  /\ Owed = 0 <=> Uncounted = {} /\ Unsettled = {}
<1>1. Uncounted \in SUBSET Passengers /\ Unsettled \in SUBSET PaySlots
  BY DEF Uncounted, Unsettled
<1>2. /\ IsFiniteSet(Uncounted) /\ Cardinality(Uncounted) \in Nat /\ Cardinality(Uncounted) <= M
      /\ IsFiniteSet(Unsettled) /\ Cardinality(Unsettled) \in Nat
      /\ Uncounted = {} <=> Cardinality(Uncounted) = 0
      /\ Unsettled = {} <=> Cardinality(Unsettled) = 0
  BY <1>1, Finite
<1>3. \A m, n \in Nat : m + n \in Nat /\ (m + n = 0 <=> m = 0 /\ n = 0)
  OBVIOUS
<1> QED
  BY <1>2, <1>3 DEF Owed

\* A step in which the owed stay the same, and every value that is loaded comes from left.
LEMMA ShortKept ==
  ASSUME NeverShort, Uncounted' = Uncounted, Unsettled' = Unsettled, left' = left,
         \A p \in Passengers : pc'[p] = "count" => val'[p] = left \/ (pc[p] = "count" /\ val'[p] = val[p]),
         \A s \in Servers : spc'[s] = "store" => sval'[s] = left \/ (spc[s] = "store" /\ sval'[s] = sval[s]),
         \A s \in Servers : spc'[s] = "exited" => spc[s] = "exited" \/ left <= 0
  PROVE  NeverShort'
<1>1. Owed' = Owed
  BY DEF Owed
<1>2. left <= 0 => Uncounted = {} /\ Unsettled = {}
  BY OwedFacts, Constants DEF NeverShort
<1> QED
  BY <1>1, <1>2 DEF NeverShort

\* A step in which one less is owed, and a value that was not short is decremented.
LEMMA ShortCounted ==
  ASSUME NeverShort, Owed' = Owed - 1, left' \in (Owed - 1) .. M,
         ~ \E s \in Servers : spc'[s] = "exited",
         \A p \in Passengers : pc'[p] = "count" => pc[p] = "count" /\ val'[p] = val[p],
         \A s \in Servers : spc'[s] = "store" => spc[s] = "store" /\ sval'[s] = sval[s]
  PROVE  NeverShort'
<1>1. Owed \in Nat /\ M \in Nat
  BY OwedFacts, Constants
<1>2. Owed .. M \subseteq Owed' .. M
  BY <1>1
<1>3. left' \in Owed' .. M
  OBVIOUS
<1>4. \A p \in Passengers : pc'[p] = "count" => val'[p] \in Owed' .. M
  BY <1>2 DEF NeverShort
<1>5. \A s \in Servers : spc'[s] = "store" => sval'[s] \in Owed' .. M
  BY <1>2 DEF NeverShort
<1> QED
  BY <1>3, <1>4, <1>5 DEF NeverShort

\* A passenger does not change the slots of the payments that a server will count.
LEMMA UnsettledKept ==
  ASSUME UNCHANGED <<payStatus, spc, si, todo>>
  PROVE  Unsettled' = Unsettled
  BY DEF Unsettled, Counting

\* A passenger without a cab counts itself out.
LEMMA LeaveStoreShort ==
  ASSUME Basics, NeverShort, NEW p \in Passengers, LeaveStore(p)
  PROVE  NeverShort'
<1> USE DEF LeaveStore, Goto, pays, servers, slocals
<1>1. /\ pc'[p] = "gone" /\ \A q \in Passengers : q # p => pc'[q] = pc[q] /\ val'[q] = val[q]
      /\ left' = val[p] - 1
  BY DEF Basics, TypeOK
<1>2. Unsettled' = Unsettled
  BY UnsettledKept
<1>3. p \in Uncounted /\ Uncounted' = Uncounted \ {p}
  BY <1>1 DEF Uncounted, Marking
<1>4. Cardinality(Uncounted') = Cardinality(Uncounted) - 1
  BY <1>3, OwedFacts, FS_RemoveElement
<1>5. Owed' = Owed - 1
  BY <1>2, <1>4, OwedFacts DEF Owed
<1>6. left' \in (Owed - 1) .. M
  <2>1. val[p] \in Owed .. M
    BY DEF NeverShort
  <2> QED
    BY <2>1, <1>1, OwedFacts, Constants
<1>7. ~ \E s \in Servers : spc'[s] = "exited"
  BY <1>3 DEF NeverShort
<1> QED
  BY <1>1, <1>5, <1>6, <1>7, ShortCounted

\* A passenger that marks its slot leaves the uncounted, and its slot is unsettled instead.
LEMMA PayMarkShort ==
  ASSUME Basics, SlotsInOrder, SlotPrivate, NeverShort, NEW p \in Passengers, PayMark(p)
  PROVE  NeverShort'
<1> USE DEF PayMark, Goto, servers, slocals, plocals
<1>1. /\ pc'[p] = "pay_cab" /\ \A q \in Passengers : q # p => pc'[q] = pc[q]
      /\ UNCHANGED <<left, val, spc, si, sval, todo>>
      /\ \A k \in PaySlots : payStatus'[k] = IF k = empty THEN 1 ELSE payStatus[k]
  BY DEF Basics, TypeOK
<1>2. /\ empty \in PaySlots /\ payStatus[empty] = 0
      /\ \A s \in Servers : spc[s] \in Serving => si[s] # empty
  BY PayMarkSlots
<1>3. empty \notin Unsettled
  BY <1>2 DEF Unsettled, Counting, Serving
<1>4. Unsettled' = Unsettled \cup {empty}
  BY <1>1, <1>2 DEF Unsettled, Counting, Serving
<1>5. p \in Uncounted /\ Uncounted' = Uncounted \ {p}
  BY <1>1 DEF Uncounted, Marking
<1>6. Cardinality(Uncounted') = Cardinality(Uncounted) - 1
  BY <1>5, OwedFacts, FS_RemoveElement
<1>7. Cardinality(Unsettled') = Cardinality(Unsettled) + 1
  BY <1>3, <1>4, OwedFacts, FS_AddElement
<1>8. Owed' = Owed
  BY <1>6, <1>7, OwedFacts DEF Owed
<1>9. ~ \E s \in Servers : spc'[s] = "exited"
  BY <1>1, <1>5 DEF NeverShort
<1>10. \A q \in Passengers : pc'[q] = "count" => pc[q] = "count"
  BY <1>1
<1> QED
  BY <1>1, <1>8, <1>9, <1>10 DEF NeverShort

\* The steps of a passenger never make total_passengers_left short.
LEMMA PassengerShort ==
  ASSUME Basics, SlotsInOrder, SlotPrivate, NeverShort, NEW p \in Passengers,
         Arrive(p) \/ PassengerStep(p)
  PROVE  NeverShort'
<1>1. CASE SearchStep(p)
  <2>1. /\ UNCHANGED <<payStatus, spc, si, todo, left, sval>>
        /\ pc[p] \notin AtPayment /\ pc'[p] \notin AtPayment
        /\ \A q \in Passengers : q # p => pc'[q] = pc[q] /\ val'[q] = val[q]
        /\ pc'[p] = "count" => val'[p] = left
    BY <1>1, SearchFrame
  <2>2. Unsettled' = Unsettled
    BY <2>1, UnsettledKept
  <2>3. Uncounted' = Uncounted
    BY <2>1 DEF Uncounted, AtPayment
  <2> QED
    BY <2>1, <2>2, <2>3, ShortKept
<1>2. CASE LeaveStore(p)
  BY <1>2, LeaveStoreShort
<1>3. CASE PayMark(p)
  BY <1>3, PayMarkShort
<1>4. CASE PayCab(p) \/ PayReduce(p) \/ Confirmed(p)
  <2> USE <1>4 DEF PayCab, PayReduce, Confirmed, Goto, pays, plocals, servers, slocals
  <2>1. /\ pc[p] \in AtPayment /\ pc'[p] \in AtPayment
        /\ \A q \in Passengers : q # p => pc'[q] = pc[q] /\ val'[q] = val[q]
        /\ UNCHANGED <<payStatus, spc, si, todo, left, sval>>
    BY DEF Basics, TypeOK, AtPayment, Marking
  <2>2. Unsettled' = Unsettled
    BY <2>1, UnsettledKept
  <2>3. Uncounted' = Uncounted
    BY <2>1 DEF Uncounted, AtPayment
  <2>4. pc'[p] # "count"
    BY <2>1 DEF AtPayment, Marking
  <2> QED
    BY <2>1, <2>2, <2>3, <2>4, ShortKept
<1> QED
  BY <1>1, <1>2, <1>3, <1>4 DEF PassengerStep, SearchStep

\* A server that moves on without counting leaves the same slots unsettled.
LEMMA ServerUnsettled ==
  ASSUME Basics, SlotsInOrder, NEW s \in Servers,
         \/ ServerCheck(s) \/ ServerSkip(s) \/ ServerFind(s) \/ ServerLoadCab(s)
         \/ ServerLoadReduce(s) \/ ServerRestore(s) \/ ServerConfirm(s) \/ ServerLoadLeft(s)
         \/ ServerUnlock(s)
  PROVE  Unsettled' = Unsettled
<1> USE DEF Basics, SGoto, pays, slocals
<1>1. \A r \in Servers : spc[s] \in Serving /\ r # s => spc[r] \notin Serving
  BY DEF MutexesHeld
<1>2. CASE ServerCheck(s) \/ ServerSkip(s) \/ ServerFind(s) \/ ServerLoadCab(s)
           \/ ServerLoadReduce(s)
  <2>1. /\ spc[s] \notin {"settle", "store"} /\ spc'[s] \notin {"settle", "store"}
        /\ payStatus' = payStatus
        /\ \A r \in Servers : r # s => spc'[r] = spc[r] /\ si'[r] = si[r] /\ todo'[r] = todo[r]
    BY <1>2 DEF ServerCheck, ServerSkip, ServerFind, ServerLoadCab, ServerLoadReduce, TypeOK
  <2> QED
    BY <2>1 DEF Unsettled, Counting
<1>3. CASE ServerRestore(s)
  <2>1. /\ spc[s] = "restore" /\ spc'[s] = "settle" /\ "count" \in todo'[s]
        /\ payStatus[si[s]] = 1 /\ UNCHANGED <<payStatus, si>>
        /\ \A r \in Servers : r # s => spc'[r] = spc[r] /\ todo'[r] = todo[r]
    BY <1>3 DEF ServerRestore, TypeOK, SlotsInOrder
  <2>2. \A r \in Servers : r # s => spc[r] \notin {"settle", "store"}
    BY <2>1, <1>1 DEF Serving
  <2> QED
    BY <2>1, <2>2 DEF Unsettled, Counting
<1>4. CASE ServerConfirm(s)
  <2>1. /\ spc[s] = "settle" /\ UNCHANGED <<spc, si>> /\ ("count" \in todo'[s] <=> "count" \in todo[s])
        /\ \A k \in PaySlots : payStatus'[k] = IF k = si[s] THEN 0 ELSE payStatus[k]
        /\ \A r \in Servers : r # s => todo'[r] = todo[r]
    BY <1>4 DEF ServerConfirm, TypeOK
  <2>2. \A r \in Servers : r # s => spc[r] \notin {"settle", "store"}
    BY <2>1, <1>1 DEF Serving
  <2> QED
    BY <2>1, <2>2 DEF Unsettled, Counting
<1>5. CASE ServerLoadLeft(s)
  <2>1. /\ spc[s] = "settle" /\ "count" \in todo[s] /\ spc'[s] = "store"
        /\ UNCHANGED <<payStatus, si>>
        /\ \A r \in Servers : r # s => spc'[r] = spc[r] /\ todo'[r] = todo[r]
    BY <1>5 DEF ServerLoadLeft, TypeOK
  <2> QED
    BY <2>1 DEF Unsettled, Counting
<1>6. CASE ServerUnlock(s)
  <2>1. /\ spc[s] = "settle" /\ todo[s] = {} /\ spc'[s] = "check"
        /\ UNCHANGED <<payStatus, todo>> /\ payStatus[si[s]] # 1
        /\ \A r \in Servers : r # s => spc'[r] = spc[r] /\ si'[r] = si[r]
    BY <1>6 DEF ServerUnlock, TypeOK, SlotsInOrder
  <2> QED
    BY <2>1 DEF Unsettled, Counting
<1> QED
  BY <1>2, <1>3, <1>4, <1>5, <1>6

\* The server counts out the passenger whose slot it has found.
LEMMA ServerStoreShort ==
  ASSUME Basics, NeverShort, NEW s \in Servers, ServerStoreLeft(s)
  PROVE  NeverShort'
<1> USE DEF ServerStoreLeft, SGoto, pays, passengers, plocals
<1>1. /\ spc[s] = "store" /\ spc'[s] = "settle" /\ "count" \notin todo[s] /\ si[s] \in PaySlots
      /\ UNCHANGED <<payStatus, si, todo, pc, val>> /\ left' = sval[s] - 1
      /\ \A r \in Servers : r # s => spc'[r] = spc[r] /\ sval'[r] = sval[r]
  BY DEF Basics, TypeOK, LocalsRight
<1>2. \A r \in Servers : r # s => spc[r] \notin Serving
  BY <1>1 DEF Basics, MutexesHeld, Serving
<1>3. Uncounted' = Uncounted
  BY <1>1 DEF Uncounted
<1>4. si[s] \in Unsettled /\ Unsettled' = Unsettled \ {si[s]}
  BY <1>1, <1>2 DEF Unsettled, Counting, Serving
<1>5. Cardinality(Unsettled') = Cardinality(Unsettled) - 1
  BY <1>4, OwedFacts, FS_RemoveElement
<1>6. Owed' = Owed - 1
  BY <1>3, <1>5, OwedFacts DEF Owed
<1>7. left' \in (Owed - 1) .. M
  <2>1. sval[s] \in Owed .. M
    BY <1>1 DEF NeverShort
  <2> QED
    BY <2>1, <1>1, OwedFacts, Constants
<1>8. ~ \E r \in Servers : spc'[r] = "exited"
  BY <1>1, <1>4 DEF NeverShort
<1> QED
  BY <1>1, <1>6, <1>7, <1>8, ShortCounted

\* The steps of a server never make total_passengers_left short.
LEMMA ServerShort ==
  ASSUME Basics, SlotsInOrder, NeverShort, NEW s \in Servers, ServerStep(s)
  PROVE  NeverShort'
<1>1. CASE ServerStoreLeft(s)
  BY <1>1, ServerStoreShort
<1>2. CASE ~ServerStoreLeft(s)
  <2>1. Unsettled' = Unsettled
    BY <1>2, ServerUnsettled DEF ServerStep
  <2>2. /\ UNCHANGED <<left, pc, val>>
        /\ spc'[s] = "store" => sval'[s] = left
        /\ spc'[s] = "exited" => left <= 0
        /\ \A r \in Servers : r # s => spc'[r] = spc[r] /\ sval'[r] = sval[r]
    BY <1>2 DEF ServerStep, ServerCheck, ServerSkip, ServerFind, ServerLoadCab,
                ServerLoadReduce, ServerRestore, ServerConfirm, ServerLoadLeft, ServerUnlock, SGoto,
                passengers, plocals, slocals, Basics, TypeOK
  <2>3. Uncounted' = Uncounted
    BY <2>2 DEF Uncounted
  <2> QED
    BY <2>1, <2>2, <2>3, ShortKept
<1> QED
  BY <1>1, <1>2

\* Once nothing is owed, every passenger is through or is being confirmed.
LEMMA NobodyAbandoned ==
  ASSUME Basics, SlotsInOrder, SlotPrivate, NeverShort
  PROVE  NoneAbandoned
<1> SUFFICES ASSUME NEW r \in Servers, spc[r] = "exited", NEW p \in Passengers, ~Through(p)
             PROVE  Paying(p) /\ \E s \in Servers : "confirm" \in todo[s] /\ si[s] = SlotOf(p)
  BY DEF NoneAbandoned
<1>1. Uncounted = {} /\ Unsettled = {}
  BY DEF NeverShort
<1>2. Paying(p)
  BY <1>1 DEF Uncounted, Through, Paying, Marking
<1>3. SlotOf(p) \in PaySlots /\ payStatus[SlotOf(p)] = 1
  BY <1>2 DEF SlotPrivate, Through, Basics, TypeOK
<1>4. PICK s \in Servers : si[s] = SlotOf(p) /\ spc[s] = "settle"
  BY <1>1, <1>3 DEF Unsettled
<1>5. "confirm" \in todo[s]
  BY <1>3, <1>4 DEF SlotsInOrder
<1> QED
  BY <1>2, <1>4, <1>5

-----------------------------------------------------------------------------
(* The theorems *)

\* At first nothing is marked, and total_passengers_left counts all the passengers.
LEMMA InitSound ==
  ASSUME Init
  PROVE  PaymentsSound /\ BookingExclusive
<1> USE Constants, Indices DEF Init
<1>1. TypeOK
  <2>1. /\ empty \in Nat /\ left \in Int /\ 0 \in 0 .. Wait /\ 0 \in Nat /\ 0 \in Int
        /\ Free = -1 /\ 0 \in PaySlots
    BY DEF Free, PaySlots
  <2>2. /\ ride \in [Cabs -> {waitState, onRidePremier, onRidePoolFull, onRidePoolHalf}]
        /\ lock \in [Cabs -> {0, 1}]
        /\ payStatus \in [PaySlots -> {0, 1}] /\ payCab \in [PaySlots -> Cabs]
        /\ payReduce \in [PaySlots -> {waitState, onRidePoolHalf}]
    BY DEF waitState, onRidePoolHalf
  <2> QED
    BY <2>1, <2>2 DEF TypeOK
<1>2. MutexesHeld /\ LocalsRight
  BY DEF MutexesHeld, LocalsRight, Searching, Marking, Serving
<1>3. Coming = Passengers /\ Uncounted = Passengers /\ Unsettled = {}
  BY DEF Coming, Uncounted, Unsettled, Counting, Marking
<1>4. SlotsInOrder
  <2>1. empty + Cardinality(Coming) <= M
    BY <1>3 DEF M
  <2> QED
    BY <2>1 DEF SlotsInOrder, Coming, Serving
<1>5. SlotPrivate /\ BookingExclusive
  BY DEF SlotPrivate, Paying, BookingExclusive, Booking
<1>6. NeverShort
  <2>1. Owed = M
    BY <1>3, FS_EmptySet DEF Owed, M
  <2> QED
    BY <2>1 DEF NeverShort
<1>7. NoneAbandoned
  BY DEF NoneAbandoned
<1> QED
  BY <1>1, <1>2, <1>4, <1>5, <1>6, <1>7 DEF PaymentsSound

\* Every step keeps the payments sound and the bookings apart.
LEMMA NextSound ==
  ASSUME PaymentsSound, BookingExclusive, [Next]_vars
  PROVE  PaymentsSound' /\ BookingExclusive'
<1>1. Basics
  BY DEF PaymentsSound, Basics
<1>2. SlotsInOrder /\ SlotPrivate /\ NeverShort
  BY DEF PaymentsSound
<1>3. CASE UNCHANGED vars
  <2> USE <1>3 DEF vars, cabs, pays, plocals, slocals, servers
  <2>1. TypeOK' /\ MutexesHeld' /\ LocalsRight'
    BY <1>1 DEF Basics, TypeOK, MutexesHeld, LocalsRight
  <2>2. SlotsInOrder'
    BY <1>2 DEF SlotsInOrder
  <2>3. SlotPrivate' /\ BookingExclusive'
    BY <1>2 DEF SlotPrivate, Paying, SlotOf, BookingExclusive, Booking
  <2>4. NeverShort'
    BY <1>2 DEF NeverShort, Owed, Uncounted, Unsettled, Counting
  <2>5. NoneAbandoned'
    BY DEF PaymentsSound, NoneAbandoned, Through, Paying, SlotOf
  <2> QED
    BY <2>1, <2>2, <2>3, <2>4, <2>5 DEF PaymentsSound
<1>4. CASE MainReturns
  <2> USE <1>4 DEF MainReturns, cabs, pays, plocals, slocals, servers
  <2>1. TypeOK' /\ MutexesHeld' /\ LocalsRight'
    BY <1>1 DEF Basics, TypeOK, MutexesHeld, LocalsRight
  <2>2. SlotsInOrder'
    BY <1>2 DEF SlotsInOrder
  <2>3. SlotPrivate' /\ BookingExclusive'
    BY <1>2 DEF SlotPrivate, Paying, SlotOf, BookingExclusive, Booking
  <2>4. NeverShort'
    BY <1>2 DEF NeverShort, Owed, Uncounted, Unsettled, Counting
  <2>5. NoneAbandoned'
    BY DEF PaymentsSound, NoneAbandoned, Through, Paying, SlotOf
  <2> QED
    BY <2>1, <2>2, <2>3, <2>4, <2>5 DEF PaymentsSound
<1>5. ASSUME NEW p \in Passengers, Arrive(p) \/ PassengerStep(p)
      PROVE  PaymentsSound' /\ BookingExclusive'
  <2>1. Basics' /\ BookingExclusive'
    BY <1>1, <1>2, <1>5, PassengerBasics, PassengerBooking
  <2>2. SlotsInOrder' /\ SlotPrivate' /\ NeverShort'
    BY <1>1, <1>2, <1>5, PassengerSlots, PassengerShort
  <2>3. NoneAbandoned'
    BY <2>1, <2>2, NobodyAbandoned, PTL
  <2> QED
    BY <2>1, <2>2, <2>3 DEF PaymentsSound, Basics
<1>6. ASSUME NEW s \in Servers, ServerStep(s)
      PROVE  PaymentsSound' /\ BookingExclusive'
  <2>1. Basics'
    BY <1>1, <1>2, <1>6, ServerBasics
  <2>2. SlotsInOrder' /\ SlotPrivate' /\ NeverShort'
    BY <1>1, <1>2, <1>6, ServerSlots, ServerShort
  <2>3. NoneAbandoned'
    BY <2>1, <2>2, NobodyAbandoned, PTL
  <2>4. UNCHANGED <<lock, pc, found, i>>
    BY <1>6 DEF ServerStep, ServerCheck, ServerSkip, ServerFind, ServerLoadCab,
                ServerLoadReduce, ServerRestore, ServerConfirm, ServerLoadLeft, ServerStoreLeft,
                ServerUnlock, cabs, passengers, plocals
  <2>5. BookingExclusive'
    BY <2>4 DEF BookingExclusive, Booking
  <2> QED
    BY <2>1, <2>2, <2>3, <2>5 DEF PaymentsSound, Basics
<1> QED
  BY <1>3, <1>4, <1>5, <1>6 DEF Next, Ended

\* Every passenger pays in a slot of its own, total_passengers_left never falls below the
\* passengers that are still to be counted out, and so no server leaves before every payment is
\* confirmed or is being confirmed, although the counter is decremented without a common lock.
THEOREM Payments == Spec => []PaymentsSound
<1>1. Init => PaymentsSound /\ BookingExclusive
  BY InitSound
<1>2. (PaymentsSound /\ BookingExclusive) /\ [Next]_vars => (PaymentsSound /\ BookingExclusive)'
  BY NextSound
<1> QED
  BY <1>1, <1>2, PTL DEF Spec

\* Two passengers never book the same cab: take_cab() sets the lock of a cab under
\* mutex_for_passenger_cab, and clears it after the mutex is released.
THEOREM Bookings == Spec => []BookingExclusive
<1>1. Init => PaymentsSound /\ BookingExclusive
  BY InitSound
<1>2. (PaymentsSound /\ BookingExclusive) /\ [Next]_vars => (PaymentsSound /\ BookingExclusive)'
  BY NextSound
<1> QED
  BY <1>1, <1>2, PTL DEF Spec
=============================================================================
