------------------------------ MODULE Biryani -------------------------------
(***************************************************************************)
(* The mess of src/ass4/Q2/main.c.  Chefs cook vessels of biryani; the     *)
(* threads of the containers (tables) fetch a vessel at a time from a chef *)
(* under mutex_for_chef_container and lay it out in batches; students find *)
(* a slot at a container under mutex_for_student_container.  The fields    *)
(* chefs and containers share with the threads that visit them are guarded *)
(* by flags that are not read and written together, so an access to a      *)
(* shared field is a step of its own, in program order (the makefile       *)
(* builds without optimisation).  A step takes a second access only when   *)
(* the order of the others' accesses around it cannot show; the comment of *)
(* the step says why.  The sleep()s are delays of any length, and a local  *)
(* variable that is not read again is cleared.                             *)
(***************************************************************************)
EXTENDS Integers, FiniteSets

CONSTANTS NChefs,       \* m
          NContainers,  \* n
          NStudents,    \* k
          MaxVessels,   \* bound: vessels that a chef cooks at once (9)
          MaxBatch,     \* bound: portions laid out at once (9)
          MaxCooked     \* bound: no chef begins to cook when this many portions are

VARIABLES
  toServe, toFeed,              \* students_left_to_serve, students_left_to_feed
  r, p, cooking, clock,         \* the fields of each chef
  load, xlock, feed,            \* the fields of each container
  chefMutex, studentMutex,      \* the holders, or Free
  main,
  cpc, cr, cp, cval,            \* chef threads: r, p, and a product or a loaded value
  xpc, xi, xval, can, num,      \* container threads
  spc, si, sval,                \* student threads
  cooked                        \* history: portions cooked

chefs == <<r, p, cooking, clock>>
conts == <<load, xlock, feed>>
chefLocals == <<cr, cp, cval>>
contLocals == <<xi, xval, can, num>>
chefThreads == <<cpc, chefLocals>>
contThreads == <<xpc, contLocals>>
studThreads == <<spc, si, sval>>
vars == <<toServe, toFeed, chefs, conts, chefMutex, studentMutex, main, chefThreads,
          contThreads, studThreads, cooked>>

Chefs == 0 .. NChefs - 1
Containers == 0 .. NContainers - 1
Students == 0 .. NStudents - 1
Free == -1

Smaller(a, b) == IF a < b THEN a ELSE b
Abs(a) == IF a < 0 THEN -a ELSE a

\* get_random_number_between(a, b): rand() is not negative, and % keeps its sign.
RandomBetween(a, b) == IF a = b THEN {a} ELSE a .. a + Abs(b - a) - 1

\* The arrays are static: chefs and containers are all 0 before their threads run.
\* container[n] is read by the thread of container n - 1.
Init ==
  /\ toServe = NStudents
  /\ toFeed = NStudents
  /\ r = [c \in Chefs |-> 0] /\ p = [c \in Chefs |-> 0]
  /\ cooking = [c \in Chefs |-> 0] /\ clock = [c \in Chefs |-> 0]
  /\ load = [x \in 0 .. NContainers |-> 0]
  /\ xlock = [x \in Containers |-> 0]
  /\ feed = [x \in Containers |-> 0]
  /\ chefMutex = Free
  /\ studentMutex = Free
  /\ main = "running"
  /\ cpc = [c \in Chefs |-> "new"]
  /\ cr = [c \in Chefs |-> 0] /\ cp = [c \in Chefs |-> 0] /\ cval = [c \in Chefs |-> 0]
  /\ xpc = [x \in Containers |-> "new"]
  /\ xi = [x \in Containers |-> 0] /\ xval = [x \in Containers |-> 0]
  /\ can = [x \in Containers |-> 0] /\ num = [x \in Containers |-> 0]
  /\ spc = [s \in Students |-> "new"]
  /\ si = [s \in Students |-> 0] /\ sval = [s \in Students |-> 0]
  /\ cooked = 0

-----------------------------------------------------------------------------
(* start_cooking(), make_biryani() and serve_biryani() of chef c *)

CGoto(c, point) == cpc' = [cpc EXCEPT ![c] = point]

\* The four stores of the thread before its loop; p is 0 as it was.
ChefStart(c) ==
  /\ cpc[c] = "new"
  /\ cooking' = [cooking EXCEPT ![c] = 1]
  /\ CGoto(c, "init")
  /\ UNCHANGED <<toServe, toFeed, r, p, clock, conts, chefMutex, studentMutex, main,
                 chefLocals, contThreads, studThreads, cooked>>

ChefInit(c) ==
  /\ cpc[c] = "init"
  /\ clock' = [clock EXCEPT ![c] = 0]
  /\ CGoto(c, "clear")
  /\ UNCHANGED <<toServe, toFeed, r, p, cooking, conts, chefMutex, studentMutex, main,
                 chefLocals, contThreads, studThreads, cooked>>

ChefClear(c) ==
  /\ cpc[c] = "clear"
  /\ r' = [r EXCEPT ![c] = 0]
  /\ p' = [p EXCEPT ![c] = 0]
  /\ CGoto(c, "head")
  /\ UNCHANGED <<toServe, toFeed, cooking, clock, conts, chefMutex, studentMutex, main,
                 chefLocals, contThreads, studThreads, cooked>>

ChefHead(c) ==
  /\ cpc[c] = "head"
  /\ CGoto(c, IF toServe > 0 THEN "cook" ELSE "exited")
  /\ UNCHANGED <<toServe, toFeed, chefs, conts, chefMutex, studentMutex, main,
                 chefLocals, contThreads, studThreads, cooked>>

\* The chef locks itself; it is cooking already, since only the chef itself clears that.
ChefCook(c) ==
  /\ cpc[c] = "cook" /\ cooked < MaxCooked
  /\ cooking' = [cooking EXCEPT ![c] = 1]
  /\ clock' = [clock EXCEPT ![c] = 1]
  /\ CGoto(c, "draw")
  /\ UNCHANGED <<toServe, toFeed, r, p, conts, chefMutex, studentMutex, main, chefLocals,
                 contThreads, studThreads, cooked>>

\* The number of vessels and their size are drawn.
ChefDraw(c) ==
  /\ cpc[c] = "draw"
  /\ \E v \in RandomBetween(1, 10) : v <= MaxVessels /\ cr' = [cr EXCEPT ![c] = v]
  /\ \E q \in RandomBetween(2, Smaller(10, toServe)) : cp' = [cp EXCEPT ![c] = q]
  /\ CGoto(c, "ready")
  /\ UNCHANGED <<toServe, toFeed, chefs, conts, chefMutex, studentMutex, main, cval,
                 contThreads, studThreads, cooked>>

ChefReady(c) ==
  /\ cpc[c] = "ready"
  /\ r' = [r EXCEPT ![c] = cr[c]]
  /\ CGoto(c, "size")
  /\ UNCHANGED <<toServe, toFeed, p, cooking, clock, conts, chefMutex, studentMutex, main,
                 chefLocals, contThreads, studThreads, cooked>>

ChefSize(c) ==
  /\ cpc[c] = "size"
  /\ p' = [p EXCEPT ![c] = cp[c]]
  /\ cooked' = cooked + cr[c] * cp[c]
  /\ cr' = [cr EXCEPT ![c] = 0]
  /\ cp' = [cp EXCEPT ![c] = 0]
  /\ CGoto(c, "load")
  /\ UNCHANGED <<toServe, toFeed, r, cooking, clock, conts, chefMutex, studentMutex, main,
                 cval, contThreads, studThreads>>

\* students_left_to_serve -= r * p: the product (nobody else writes p), a load and a store.
ChefLoad(c) ==
  /\ cpc[c] = "load"
  /\ cval' = [cval EXCEPT ![c] = r[c] * p[c]]
  /\ CGoto(c, "total")
  /\ UNCHANGED <<toServe, toFeed, chefs, conts, chefMutex, studentMutex, main, cr, cp,
                 contThreads, studThreads, cooked>>

ChefTotal(c) ==
  /\ cpc[c] = "total"
  /\ cval' = [cval EXCEPT ![c] = toServe - @]
  /\ CGoto(c, "store")
  /\ UNCHANGED <<toServe, toFeed, chefs, conts, chefMutex, studentMutex, main, cr, cp,
                 contThreads, studThreads, cooked>>

ChefStore(c) ==
  /\ cpc[c] = "store"
  /\ toServe' = cval[c]
  /\ cval' = [cval EXCEPT ![c] = 0]
  /\ CGoto(c, "open")
  /\ UNCHANGED <<toFeed, chefs, conts, chefMutex, studentMutex, main, cr, cp, contThreads,
                 studThreads, cooked>>

ChefOpen(c) ==
  /\ cpc[c] = "open"
  /\ cooking' = [cooking EXCEPT ![c] = 0]
  /\ CGoto(c, "unlock")
  /\ UNCHANGED <<toServe, toFeed, r, p, clock, conts, chefMutex, studentMutex, main,
                 chefLocals, contThreads, studThreads, cooked>>

ChefUnlock(c) ==
  /\ cpc[c] = "unlock"
  /\ clock' = [clock EXCEPT ![c] = 0]
  /\ CGoto(c, "serve")
  /\ UNCHANGED <<toServe, toFeed, r, p, cooking, conts, chefMutex, studentMutex, main,
                 chefLocals, contThreads, studThreads, cooked>>

\* The end of the busy wait of serve_biryani(): only the chef clears cooking, which it
\* still finds set when it reads the counter.
ChefServed(c) ==
  /\ cpc[c] = "serve" /\ cooking[c] # 0
  /\ CGoto(c, IF toServe <= 0 THEN "exited" ELSE "head")
  /\ UNCHANGED <<toServe, toFeed, chefs, conts, chefMutex, studentMutex, main,
                 chefLocals, contThreads, studThreads, cooked>>

-----------------------------------------------------------------------------
(* start_fetching() of container x *)

XGoto(x, point) == xpc' = [xpc EXCEPT ![x] = point]

ContStart(x) ==
  /\ xpc[x] = "new"
  /\ load' = [load EXCEPT ![x] = 1]
  /\ XGoto(x, "init")
  /\ UNCHANGED <<toServe, toFeed, chefs, xlock, feed, chefMutex, studentMutex, main,
                 chefThreads, contLocals, studThreads, cooked>>

\* A student that has found the container before it started may have set its lock; no
\* other student can see that, since it holds the mutex until the lock is clear again.
ContInit(x) ==
  /\ xpc[x] = "init"
  /\ xlock' = [xlock EXCEPT ![x] = 0]
  /\ feed' = [feed EXCEPT ![x] = 0]
  /\ XGoto(x, "head")
  /\ UNCHANGED <<toServe, toFeed, chefs, load, chefMutex, studentMutex, main,
                 chefThreads, contLocals, studThreads, cooked>>

\* Mutant of ContHead: the container leaves when everything is cooked.
ContHeadServe(x) ==
  /\ xpc[x] = "head"
  /\ XGoto(x, IF toServe > 0 THEN "lock" ELSE "exited")
  /\ UNCHANGED <<toServe, toFeed, chefs, conts, chefMutex, studentMutex, main,
                 chefThreads, contLocals, studThreads, cooked>>

ContHead(x) ==
  /\ xpc[x] = "head"
  /\ XGoto(x, IF toFeed > 0 THEN "lock" ELSE "exited")
  /\ UNCHANGED <<toServe, toFeed, chefs, conts, chefMutex, studentMutex, main,
                 chefThreads, contLocals, studThreads, cooked>>

\* get_biryani_from_handler(): the thread exits with the mutex when all are fed.  Who
\* waits for the mutex cannot tell when that was read.
ContLock(x) ==
  /\ xpc[x] = "lock" /\ chefMutex = Free
  /\ chefMutex' = x
  /\ XGoto(x, IF toFeed <= 0 THEN "exited" ELSE "probe")
  /\ UNCHANGED <<toServe, toFeed, chefs, conts, studentMutex, main, chefThreads,
                 contLocals, studThreads, cooked>>

NextChef(x) == xi' = [xi EXCEPT ![x] = (@ + 1) % NChefs]

ContProbe(x) ==
  /\ xpc[x] = "probe"
  /\ XGoto(x, IF toFeed <= 0 THEN "exited" ELSE "look")
  /\ UNCHANGED <<toServe, toFeed, chefs, conts, chefMutex, studentMutex, main,
                 chefThreads, contLocals, studThreads, cooked>>

ContLook(x) ==
  /\ xpc[x] = "look"
  /\ IF cooking[xi[x]] = 0 THEN XGoto(x, "take") /\ UNCHANGED xi
     ELSE NextChef(x) /\ XGoto(x, "probe")
  /\ UNCHANGED <<toServe, toFeed, chefs, conts, chefMutex, studentMutex, main,
                 chefThreads, xval, can, num, studThreads, cooked>>

\* The second test, the store into the chef's lock, and the unlock.  A store of 0 by
\* the chef or a container after the test might come before it, and a store of 1 by the
\* chef after this one: the mutex keeps the other containers from testing.
ContTake(x) ==
  /\ xpc[x] = "take"
  /\ IF clock[xi[x]] = 0
     THEN /\ clock' = [clock EXCEPT ![xi[x]] = 1]
          /\ chefMutex' = Free
          /\ XGoto(x, "vessel")
          /\ UNCHANGED xi
     ELSE NextChef(x) /\ XGoto(x, "probe") /\ UNCHANGED <<clock, chefMutex>>
  /\ UNCHANGED <<toServe, toFeed, r, p, cooking, conts, studentMutex, main, chefThreads,
                 xval, can, num, studThreads, cooked>>

\* One vessel: p, and r-- as a load and a store.
ContVessel(x) ==
  /\ xpc[x] = "vessel"
  /\ can' = [can EXCEPT ![x] = p[xi[x]]]
  /\ XGoto(x, "count")
  /\ UNCHANGED <<toServe, toFeed, chefs, conts, chefMutex, studentMutex, main,
                 chefThreads, xi, xval, num, studThreads, cooked>>

ContCount(x) ==
  /\ xpc[x] = "count"
  /\ xval' = [xval EXCEPT ![x] = r[xi[x]]]
  /\ XGoto(x, "dec")
  /\ UNCHANGED <<toServe, toFeed, chefs, conts, chefMutex, studentMutex, main,
                 chefThreads, xi, can, num, studThreads, cooked>>

ContDec(x) ==
  /\ xpc[x] = "dec"
  /\ r' = [r EXCEPT ![xi[x]] = xval[x] - 1]
  /\ xval' = [xval EXCEPT ![x] = 0]
  /\ XGoto(x, "test")
  /\ UNCHANGED <<toServe, toFeed, p, cooking, clock, conts, chefMutex, studentMutex, main,
                 chefThreads, xi, can, num, studThreads, cooked>>

\* The chef of an empty pot is sent back, and then unlocked.
ContTest(x) ==
  /\ xpc[x] = "test"
  /\ XGoto(x, IF r[xi[x]] <= 0 THEN "empty" ELSE "free")
  /\ UNCHANGED <<toServe, toFeed, chefs, conts, chefMutex, studentMutex, main,
                 chefThreads, contLocals, studThreads, cooked>>

ContEmpty(x) ==
  /\ xpc[x] = "empty"
  /\ cooking' = [cooking EXCEPT ![xi[x]] = 1]
  /\ XGoto(x, "free")
  /\ UNCHANGED <<toServe, toFeed, r, p, clock, conts, chefMutex, studentMutex, main,
                 chefThreads, contLocals, studThreads, cooked>>

ContFree(x) ==
  /\ xpc[x] = "free"
  /\ clock' = [clock EXCEPT ![xi[x]] = 0]
  /\ xi' = [xi EXCEPT ![x] = 0]
  /\ XGoto(x, "more")
  /\ UNCHANGED <<toServe, toFeed, r, p, cooking, conts, chefMutex, studentMutex, main,
                 chefThreads, xval, can, num, studThreads, cooked>>

\* The inner loop: a batch of the vessel is laid out.
ContMore(x) ==
  /\ xpc[x] = "more"
  /\ IF can[x] > 0 /\ toFeed > 0
     THEN XGoto(x, "batch") /\ UNCHANGED can
     ELSE XGoto(x, "head") /\ can' = [can EXCEPT ![x] = 0]
  /\ UNCHANGED <<toServe, toFeed, chefs, conts, chefMutex, studentMutex, main,
                 chefThreads, xi, xval, num, studThreads, cooked>>

ContBatch(x) ==
  /\ xpc[x] = "batch"
  /\ \E temp \in RandomBetween(1, 10) :
       LET n == Smaller(Smaller(temp, toFeed), can[x])
       IN  /\ temp <= MaxBatch
           /\ num' = [num EXCEPT ![x] = n]
           /\ can' = [can EXCEPT ![x] = @ - n]
  /\ XGoto(x, "fill")
  /\ UNCHANGED <<toServe, toFeed, chefs, conts, chefMutex, studentMutex, main,
                 chefThreads, xi, xval, studThreads, cooked>>

ContFill(x) ==
  /\ xpc[x] = "fill"
  /\ feed' = [feed EXCEPT ![x] = num[x]]
  /\ num' = [num EXCEPT ![x] = 0]
  /\ XGoto(x, "serve")
  /\ UNCHANGED <<toServe, toFeed, chefs, load, xlock, chefMutex, studentMutex, main,
                 chefThreads, xi, xval, can, studThreads, cooked>>

ContServe(x) ==
  /\ xpc[x] = "serve"
  /\ load' = [load EXCEPT ![x] = 0]
  /\ XGoto(x, "open")
  /\ UNCHANGED <<toServe, toFeed, chefs, xlock, feed, chefMutex, studentMutex, main,
                 chefThreads, contLocals, studThreads, cooked>>

ContOpen(x) ==
  /\ xpc[x] = "open"
  /\ xlock' = [xlock EXCEPT ![x] = 0]
  /\ XGoto(x, "ready")
  /\ UNCHANGED <<toServe, toFeed, chefs, load, feed, chefMutex, studentMutex, main,
                 chefThreads, contLocals, studThreads, cooked>>

\* ready_to_serve(): container_number is x + 1, and indexes the array.
ContReady(x) ==
  /\ xpc[x] = "ready" /\ load[x + 1] # 0
  /\ XGoto(x, "more")
  /\ UNCHANGED <<toServe, toFeed, chefs, conts, chefMutex, studentMutex, main,
                 chefThreads, contLocals, studThreads, cooked>>

-----------------------------------------------------------------------------
(* wait_for_slot() of student s *)

SGoto(s, point) == spc' = [spc EXCEPT ![s] = point]

\* main creates the students one after the other.
Arrive(s) ==
  /\ spc[s] = "new" /\ \A t \in Students : t < s => spc[t] # "new"
  /\ SGoto(s, "lock")
  /\ UNCHANGED <<toServe, toFeed, chefs, conts, chefMutex, studentMutex, main,
                 chefThreads, contThreads, si, sval, cooked>>

StudentLock(s) ==
  /\ spc[s] = "lock" /\ studentMutex = Free
  /\ studentMutex' = s
  /\ SGoto(s, "probe")
  /\ UNCHANGED <<toServe, toFeed, chefs, conts, chefMutex, main, chefThreads,
                 contThreads, si, sval, cooked>>

\* The two tests of a container, the store into its lock and the count.  The lock is
\* tested and set under the mutex only; the container's thread may clear it in between,
\* which changes nothing, and the test of load and the count are read by no one else.
StudentFound(s) ==
  /\ spc[s] = "probe" /\ load[si[s]] = 0 /\ xlock[si[s]] = 0
  /\ xlock' = [xlock EXCEPT ![si[s]] = 1]
  /\ toFeed' = toFeed - 1
  /\ SGoto(s, "load")
  /\ UNCHANGED <<toServe, chefs, load, feed, chefMutex, studentMutex, main, chefThreads,
                 contThreads, si, sval, cooked>>

StudentNext(s) ==
  /\ spc[s] = "probe" /\ ~(load[si[s]] = 0 /\ xlock[si[s]] = 0)
  /\ si' = [si EXCEPT ![s] = (@ + 1) % NContainers]
  /\ UNCHANGED <<toServe, toFeed, chefs, conts, chefMutex, studentMutex, main,
                 chefThreads, contThreads, spc, sval, cooked>>

\* students_to_feed--, a load and a store.
StudentLoad(s) ==
  /\ spc[s] = "load"
  /\ sval' = [sval EXCEPT ![s] = feed[si[s]]]
  /\ SGoto(s, "store")
  /\ UNCHANGED <<toServe, toFeed, chefs, conts, chefMutex, studentMutex, main,
                 chefThreads, contThreads, si, cooked>>

StudentStore(s) ==
  /\ spc[s] = "store"
  /\ feed' = [feed EXCEPT ![si[s]] = sval[s] - 1]
  /\ sval' = [sval EXCEPT ![s] = 0]
  /\ SGoto(s, "close")
  /\ UNCHANGED <<toServe, toFeed, chefs, load, xlock, chefMutex, studentMutex, main,
                 chefThreads, contThreads, si, cooked>>

\* The container of an empty batch is sent back, and then unlocked.
StudentClose(s) ==
  /\ spc[s] = "close"
  /\ SGoto(s, IF feed[si[s]] <= 0 THEN "empty" ELSE "unlock")
  /\ UNCHANGED <<toServe, toFeed, chefs, conts, chefMutex, studentMutex, main,
                 chefThreads, contThreads, si, sval, cooked>>

StudentEmpty(s) ==
  /\ spc[s] = "empty"
  /\ load' = [load EXCEPT ![si[s]] = 1]
  /\ SGoto(s, "unlock")
  /\ UNCHANGED <<toServe, toFeed, chefs, xlock, feed, chefMutex, studentMutex, main,
                 chefThreads, contThreads, si, sval, cooked>>

\* The lock, which only students test, and the mutex; the student eats and leaves.
StudentUnlock(s) ==
  /\ spc[s] = "unlock"
  /\ xlock' = [xlock EXCEPT ![si[s]] = 0]
  /\ studentMutex' = Free
  /\ si' = [si EXCEPT ![s] = 0]
  /\ SGoto(s, "fed")
  /\ UNCHANGED <<toServe, toFeed, chefs, load, feed, chefMutex, main, chefThreads,
                 contThreads, sval, cooked>>

-----------------------------------------------------------------------------
\* wait_for_threads_to_end() joins the students only.
MainReturns ==
  /\ main = "running"
  /\ \A s \in Students : spc[s] = "fed"
  /\ main' = "done"
  /\ UNCHANGED <<toServe, toFeed, chefs, conts, chefMutex, studentMutex, chefThreads,
                 contThreads, studThreads, cooked>>

Ended == main = "done" /\ UNCHANGED vars

ChefStep(c) ==
  /\ main = "running"
  /\ \/ ChefStart(c) \/ ChefInit(c) \/ ChefClear(c) \/ ChefHead(c) \/ ChefCook(c)
     \/ ChefDraw(c) \/ ChefReady(c) \/ ChefSize(c) \/ ChefLoad(c) \/ ChefTotal(c)
     \/ ChefStore(c) \/ ChefOpen(c) \/ ChefUnlock(c) \/ ChefServed(c)

ContStep(x) ==
  /\ main = "running"
  /\ \/ ContStart(x) \/ ContInit(x) \/ ContHead(x) \/ ContLock(x) \/ ContProbe(x)
     \/ ContLook(x) \/ ContTake(x) \/ ContVessel(x) \/ ContCount(x) \/ ContDec(x)
     \/ ContTest(x) \/ ContEmpty(x) \/ ContFree(x) \/ ContMore(x) \/ ContBatch(x)
     \/ ContFill(x) \/ ContServe(x) \/ ContOpen(x) \/ ContReady(x)

StudentStep(s) ==
  /\ main = "running"
  /\ \/ Arrive(s) \/ StudentLock(s) \/ StudentFound(s) \/ StudentNext(s)
     \/ StudentLoad(s) \/ StudentStore(s) \/ StudentClose(s) \/ StudentEmpty(s)
     \/ StudentUnlock(s)

Next ==
  \/ \E c \in Chefs : ChefStep(c)
  \/ \E x \in Containers : ContStep(x)
  \/ \E s \in Students : StudentStep(s)
  \/ MainReturns \/ Ended

Spec == Init /\ [][Next]_vars

-----------------------------------------------------------------------------
(* Properties *)

HasSlot(s) == spc[s] \in {"load", "store", "close", "empty", "unlock", "fed"}

\* No container leaves the service before every student has found a slot, though
\* its thread reads students_left_to_feed without the mutex it is counted under.
NoEarlyLeave ==
  (\E x \in Containers : xpc[x] = "exited") => \A s \in Students : HasSlot(s)

\* With one container no chef leaves before enough is cooked for everybody: the
\* subtractions that two chefs make from students_left_to_serve at once may lose one of
\* them, but never count a portion twice.  With two containers the r-- of one may bring
\* back an old r of a chef whose pot another has cleared, and the chef subtracts that.
EnoughCooked ==
  (\E c \in Chefs : cpc[c] = "exited") => cooked >= NStudents
-----------------------------------------------------------------------------
(* The inductive invariants of NoEarlyLeave and EnoughCooked *)

Seated == {s \in Students : HasSlot(s)}

FeedTypes ==
  /\ toFeed \in Int
  /\ spc \in [Students -> {"new", "lock", "probe", "load", "store", "close", "empty",
                           "unlock", "fed"}]
  /\ xpc \in [Containers -> {"new", "init", "head", "lock", "probe", "look", "take", "vessel",
                             "count", "dec", "test", "empty", "free", "more", "batch", "fill",
                             "serve", "open", "ready", "exited"}]

\* students_left_to_feed counts who has no slot, since it changes under the mutex only.
SeatsCounted == toFeed = NStudents - Cardinality(Seated)

FeedInv == FeedTypes /\ SeatsCounted /\ NoEarlyLeave

CookTypes ==
  /\ toServe \in Int /\ cooked \in Int
  /\ r \in [Chefs -> Int] /\ p \in [Chefs -> Int] /\ cooking \in [Chefs -> Int]
  /\ cr \in [Chefs -> Int] /\ cp \in [Chefs -> Int] /\ cval \in [Chefs -> Int]
  /\ cpc \in [Chefs -> {"new", "init", "clear", "head", "cook", "draw", "ready", "size",
                        "load", "total", "store", "open", "unlock", "serve", "exited"}]
  /\ xi \in [Containers -> Chefs] /\ xval \in [Containers -> Int]

\* What chef c has cooked and not yet subtracted from students_left_to_serve.
Owed(c) ==
  IF cpc[c] = "load" THEN r[c] * p[c] ELSE IF cpc[c] = "total" THEN cval[c] ELSE 0

Owing == UNION {{c} \X (1 .. Owed(c)) : c \in Chefs}

\* A chef before it shows what it has cooked.
Empty(c) == cpc[c] \in {"new", "init", "clear", "head", "cook", "draw", "ready"}

\* The container is busy with the pot of chef c.
Visited(c) ==
  xi[0] = c /\ xpc[0] \in {"take", "vessel", "count", "dec", "test", "empty"}

\* The drawn numbers are positive; the container finds the pot of a chef that cooks empty,
\* because only the container sends it back to cook, and leaves it then.
PotRight(c) ==
  /\ cpc[c] \in {"ready", "size"} => cr[c] >= 1 /\ cp[c] >= 2
  /\ cpc[c] = "size" => r[c] <= cr[c]
  /\ cpc[c] = "load" => p[c] >= 2
  /\ cpc[c] = "new" => r[c] <= 0
  /\ Empty(c) => r[c] <= 0 \/ ~ Visited(c)
  /\ Empty(c) /\ cpc[c] # "new" => cooking[c] # 0
  /\ cpc[c] \in {"unlock", "serve"} /\ cooking[c] # 0 => ~ Visited(c)

\* The value of r-- that the container has loaded is not more than what is there.
VesselRight ==
  xpc[0] = "dec" => xval[0] <= 0 \/ (~ Empty(xi[0]) /\ xval[0] <= r[xi[0]])

PotsRight == \A c \in Chefs : PotRight(c)

\* With one container no more is subtracted than is cooked, though the store of one chef
\* may undo that of another.
Unserved == NStudents - cooked + Cardinality(Owing)

Accounts ==
  /\ IsFiniteSet(Owing)
  /\ toServe >= Unserved
  /\ \A c \in Chefs : cpc[c] = "store" => cval[c] >= Unserved

CookInv == FeedTypes /\ CookTypes /\ PotsRight /\ VesselRight /\ Accounts /\ EnoughCooked
=============================================================================
