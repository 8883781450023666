----------------------------- MODULE Barbershop -----------------------------
(***************************************************************************)
(* The sleeping-barber monitor of homework.c: barber(), customer() and the *)
(* threads that call them.  Every thread has a program counter that names  *)
(* the place in the code where it may be interrupted or blocked:           *)
(*                                                                         *)
(*   customer  asleep    in sleep_exp, outside the shop                    *)
(*             arriving  wants the mutex at the top of customer()          *)
(*             entering  holds it, about to look at the chairs             *)
(*             testing   holds it, at "while (info->state == WAITING)"     *)
(*             waiting   in cond_wait(C_customer)                          *)
(*   barber    start     wants the mutex at the top of barber()            *)
(*             check     holds it, at "while (chairs_occupied.size == 0)"  *)
(*             waiting   in cond_wait(C_barber)                            *)
(*             seating   holds it, about to dequeue                        *)
(*             cutting   in sleep_exp, mutex released                      *)
(*             returning wants the mutex at the end of sleep_exp           *)
(*             finishing holds it, about to set DONE and signal            *)
(***************************************************************************)
EXTENDS Pthreads

CONSTANTS
  Customers,     (* one thread each; CUSTOMER_COUNT                        *)
  Barbers,       (* one thread each; BARBER_COUNT                          *)
  MaxChairs,     (* MAX_CHAIR_COUNT                                        *)
  TimerMax,      (* TMR_MAX of misc.c, the slots of a stat_timer           *)
  CounterMod     (* the visit counters wrap here; bounds them for TLC      *)

Threads == Customers \cup Barbers
CondVars == {"C_barber", "C_customer"}

ASSUME BarbershopAssumption ==
  /\ Customers \cap Barbers = {}
  /\ Nobody \notin Threads
  /\ IsFiniteSet(Customers) /\ IsFiniteSet(Barbers)
  /\ MaxChairs \in Nat
  /\ TimerMax \in Nat /\ Cardinality(Customers) <= TimerMax
  /\ CounterMod \in Nat \ {0}

VARIABLES
  pc,
  chairs,        (* chairs_occupied, the queue of waiting customers        *)
  state,         (* CustomerInfo.state                                     *)
  serving,       (* customer_being_serviced of each barber                 *)
  hasSlept,      (* has_slept of each barber                               *)
  timers,        (* threads with a slot in stat_time_in_shop_timer         *)
  counters,      (* the four stat_counter objects                          *)
  exited         (* exit(-1) or a failed assert ended the process          *)

vars == <<owner, waiters, pc, chairs, state, serving, hasSlept, timers,
          counters, exited>>

Goto(t, label) == pc' = [pc EXCEPT ![t] = label]

\* CustomerInfo.state is never read before customer() assigns it.
Init ==
  /\ owner = Nobody
  /\ waiters = [cv \in CondVars |-> <<>>]
  /\ pc = [t \in Threads |-> IF t \in Customers THEN "asleep" ELSE "start"]
  /\ chairs = <<>>
  /\ state = [c \in Customers |-> "CHECKING"]
  /\ serving = [b \in Barbers |-> Nobody]
  /\ hasSlept = [b \in Barbers |-> FALSE]
  /\ timers = {}
  /\ counters = [total |-> 0, turnedAway |-> 0, people |-> 0, seat |-> 0]
  /\ exited = FALSE

-----------------------------------------------------------------------------
(* customer_thread() and customer() *)

CustomerArrives(c) ==
  /\ pc[c] = "asleep"
  /\ Goto(c, "arriving")
  /\ UNCHANGED <<owner, waiters, chairs, state, serving, hasSlept, timers,
                 counters, exited>>

CustomerEnters(c) ==
  /\ pc[c] = "arriving"
  /\ MutexLock(c)
  /\ state' = [state EXCEPT ![c] = "CHECKING"]
  /\ counters' = [counters EXCEPT !.total = (@ + 1) % CounterMod]
  /\ Goto(c, "entering")
  /\ UNCHANGED <<waiters, chairs, serving, hasSlept, timers, exited>>

\* Mutant: one chair too many.
TakesChairOffByOne(c) ==
  /\ pc[c] = "entering"
  /\ Len(chairs) <= MaxChairs
  /\ chairs' = Append(chairs, c)
  /\ timers' = timers \cup {c}
  /\ exited' = (Cardinality(timers) >= TimerMax)
  /\ state' = [state EXCEPT ![c] = "WAITING"]
  /\ CondSignal("C_barber")
  /\ counters' = [counters EXCEPT !.people = @ + 1]
  /\ Goto(c, "testing")
  /\ UNCHANGED <<owner, serving, hasSlept>>

\* Mutant: signals the barber only when the queue was empty.
TakesChairSignalsFirstOnly(c) ==
  /\ pc[c] = "entering"
  /\ Len(chairs) < MaxChairs
  /\ chairs' = Append(chairs, c)
  /\ timers' = timers \cup {c}
  /\ exited' = (Cardinality(timers) >= TimerMax)
  /\ state' = [state EXCEPT ![c] = "WAITING"]
  /\ IF chairs = <<>> THEN CondSignal("C_barber") ELSE UNCHANGED waiters
  /\ counters' = [counters EXCEPT !.people = @ + 1]
  /\ Goto(c, "testing")
  /\ UNCHANGED <<owner, serving, hasSlept>>

\* stat_timer_start asserts that a slot is free.
CustomerTakesChair(c) ==
  /\ pc[c] = "entering"
  /\ Len(chairs) < MaxChairs
  /\ chairs' = Append(chairs, c)
  /\ timers' = timers \cup {c}
  /\ exited' = (Cardinality(timers) >= TimerMax)
  /\ state' = [state EXCEPT ![c] = "WAITING"]
  /\ CondSignal("C_barber")
  /\ counters' = [counters EXCEPT !.people = @ + 1]
  /\ Goto(c, "testing")
  /\ UNCHANGED <<owner, serving, hasSlept>>

CustomerTurnedAway(c) ==
  /\ pc[c] = "entering"
  /\ Len(chairs) >= MaxChairs
  /\ counters' = [counters EXCEPT !.turnedAway = (@ + 1) % CounterMod]
  /\ MutexUnlock(c)
  /\ Goto(c, "asleep")
  /\ UNCHANGED <<waiters, chairs, state, serving, hasSlept, timers, exited>>

CustomerWaits(c) ==
  /\ pc[c] = "testing"
  /\ state[c] = "WAITING"
  /\ CondWait(c, "C_customer")
  /\ Goto(c, "waiting")
  /\ UNCHANGED <<chairs, state, serving, hasSlept, timers, counters, exited>>

CustomerWakes(c) ==
  /\ pc[c] = "waiting"
  /\ c \notin Blocked("C_customer")
  /\ MutexLock(c)
  /\ Goto(c, "testing")
  /\ UNCHANGED <<waiters, chairs, state, serving, hasSlept, timers, counters,
                 exited>>

\* Mutant: "if" for "while", so any wakeup ends the wait.
LeavesOnAnyWakeup(c) ==
  /\ pc[c] = "waiting"
  /\ c \notin Blocked("C_customer")
  /\ owner = Nobody
  /\ timers' = timers \ {c}
  /\ exited' = (c \notin timers)
  /\ Goto(c, "asleep")
  /\ UNCHANGED <<owner, counters, waiters, chairs, state, serving, hasSlept>>

\* Mutant: the seat counter is not decremented.
LeavesSeatCounted(c) ==
  /\ pc[c] = "testing"
  /\ state[c] # "WAITING"
  /\ timers' = timers \ {c}
  /\ exited' = (c \notin timers)
  /\ counters' = [counters EXCEPT !.people = @ - 1]
  /\ MutexUnlock(c)
  /\ Goto(c, "asleep")
  /\ UNCHANGED <<waiters, chairs, state, serving, hasSlept>>

\* stat_timer_stop asserts that the thread has a slot.
CustomerLeaves(c) ==
  /\ pc[c] = "testing"
  /\ state[c] # "WAITING"
  /\ timers' = timers \ {c}
  /\ exited' = (c \notin timers)
  /\ counters' = IF state[c] = "DONE"
                 THEN [counters EXCEPT !.seat = @ - 1, !.people = @ - 1]
                 ELSE counters
  /\ MutexUnlock(c)
  /\ Goto(c, "asleep")
  /\ UNCHANGED <<waiters, chairs, state, serving, hasSlept>>

-----------------------------------------------------------------------------
(* barber_thread() and barber() *)

BarberStarts(b) ==
  /\ pc[b] = "start"
  /\ MutexLock(b)
  /\ Goto(b, "check")
  /\ UNCHANGED <<waiters, chairs, state, serving, hasSlept, timers, counters,
                 exited>>

BarberGoesToSleep(b) ==
  /\ pc[b] = "check"
  /\ chairs = <<>>
  /\ hasSlept' = [hasSlept EXCEPT ![b] = TRUE]
  /\ CondWait(b, "C_barber")
  /\ Goto(b, "waiting")
  /\ UNCHANGED <<chairs, state, serving, timers, counters, exited>>

\* Mutant: "if" for "while", so the queue is not tested again.
WakesIntoDequeue(b) ==
  /\ pc[b] = "waiting"
  /\ b \notin Blocked("C_barber")
  /\ MutexLock(b)
  /\ Goto(b, "seating")
  /\ UNCHANGED <<waiters, chairs, state, serving, hasSlept, timers, counters,
                 exited>>

BarberWakes(b) ==
  /\ pc[b] = "waiting"
  /\ b \notin Blocked("C_barber")
  /\ MutexLock(b)
  /\ Goto(b, "check")
  /\ UNCHANGED <<waiters, chairs, state, serving, hasSlept, timers, counters,
                 exited>>

BarberFindsCustomer(b) ==
  /\ pc[b] = "check"
  /\ chairs # <<>>
  /\ hasSlept' = [hasSlept EXCEPT ![b] = FALSE]
  /\ Goto(b, "seating")
  /\ UNCHANGED <<owner, waiters, chairs, state, serving, timers, counters,
                 exited>>

\* Mutant: the queue is a stack.
StartsHaircutOfNewest(b) ==
  /\ pc[b] = "seating"
  /\ exited' = FALSE
  /\ serving' = [serving EXCEPT ![b] = Last(chairs)]
  /\ chairs' = Front(chairs)
  /\ counters' = [counters EXCEPT !.seat = @ + 1]
  /\ MutexUnlock(b)
  /\ Goto(b, "cutting")
  /\ UNCHANGED <<waiters, state, hasSlept, timers>>

\* dequeue() returns NULL on an empty queue, and the barber then exits.
BarberStartsHaircut(b) ==
  /\ pc[b] = "seating"
  /\ exited' = (chairs = <<>>)
  /\ IF chairs = <<>>
     THEN UNCHANGED <<chairs, serving, counters>>
     ELSE /\ serving' = [serving EXCEPT ![b] = Head(chairs)]
          /\ chairs' = Tail(chairs)
          /\ counters' = [counters EXCEPT !.seat = @ + 1]
  /\ MutexUnlock(b)
  /\ Goto(b, "cutting")
  /\ UNCHANGED <<waiters, state, hasSlept, timers>>

BarberHaircutOver(b) ==
  /\ pc[b] = "cutting"
  /\ Goto(b, "returning")
  /\ UNCHANGED <<owner, waiters, chairs, state, serving, hasSlept, timers,
                 counters, exited>>

\* Mutant: the mutex is not taken again after the haircut.
ReturnsWithoutLock(b) ==
  /\ pc[b] = "returning"
  /\ Goto(b, "finishing")
  /\ UNCHANGED <<owner, waiters, chairs, state, serving, hasSlept, timers,
                 counters, exited>>

BarberReturns(b) ==
  /\ pc[b] = "returning"
  /\ MutexLock(b)
  /\ Goto(b, "finishing")
  /\ UNCHANGED <<waiters, chairs, state, serving, hasSlept, timers, counters,
                 exited>>

\* Mutant: DONE is set without a signal.
FinishesSilently(b) ==
  /\ pc[b] = "finishing"
  /\ state' = [state EXCEPT ![serving[b]] = "DONE"]
  /\ serving' = [serving EXCEPT ![b] = Nobody]
  /\ Goto(b, "check")
  /\ UNCHANGED <<owner, waiters, chairs, hasSlept, timers, counters, exited>>

\* The stale pointer left in customer_being_serviced is not used again.
BarberFinishes(b) ==
  /\ pc[b] = "finishing"
  /\ state' = [state EXCEPT ![serving[b]] = "DONE"]
  /\ CondSignal("C_customer")
  /\ serving' = [serving EXCEPT ![b] = Nobody]
  /\ Goto(b, "check")
  /\ UNCHANGED <<owner, chairs, hasSlept, timers, counters, exited>>

-----------------------------------------------------------------------------
CustomerLocks(c) == CustomerEnters(c) \/ CustomerWakes(c)

CustomerRuns(c) ==
  \/ CustomerArrives(c)
  \/ CustomerTakesChair(c)
  \/ CustomerTurnedAway(c)
  \/ CustomerWaits(c)
  \/ CustomerLeaves(c)

BarberLocks(b) == BarberStarts(b) \/ BarberWakes(b) \/ BarberReturns(b)

BarberRuns(b) ==
  \/ BarberGoesToSleep(b)
  \/ BarberFindsCustomer(b)
  \/ BarberStartsHaircut(b)
  \/ BarberHaircutOver(b)
  \/ BarberFinishes(b)

WakeupWithoutSignal(cv) ==
  /\ SpuriousWakeup(cv)
  /\ UNCHANGED <<pc, chairs, state, serving, hasSlept, timers, counters,
                 exited>>

Next ==
  /\ ~exited
  /\ \/ \E c \in Customers : CustomerLocks(c) \/ CustomerRuns(c)
     \/ \E b \in Barbers : BarberLocks(b) \/ BarberRuns(b)
     \/ \E cv \in CondVars : WakeupWithoutSignal(cv)

Spec == Init /\ [][Next]_vars

(***************************************************************************)
(* A thread that can run is run, every sleep_exp ends, and a thread that   *)
(* wants the mutex gets it if the mutex is free again and again: all       *)
(* threads leave the monitor for a sleep of at least two milliseconds      *)
(* (misc.c), so a waiter is not overtaken for ever.                        *)
(***************************************************************************)
Fairness ==
  /\ \A c \in Customers : WF_vars(CustomerRuns(c)) /\ SF_vars(CustomerLocks(c))
  /\ \A b \in Barbers : WF_vars(BarberRuns(b)) /\ SF_vars(BarberLocks(b))

FairSpec == Spec /\ Fairness

-----------------------------------------------------------------------------
(* Properties *)

CustomerPcs == {"asleep", "arriving", "entering", "testing", "waiting"}
BarberPcs == {"start", "check", "waiting", "seating", "cutting", "returning",
              "finishing"}

\* Every variable holds a value of its type, and the queue never outgrows the
\* chairs.
TypeOK ==
  /\ owner \in Threads \cup {Nobody}
  /\ waiters \in [CondVars -> Seq(Threads)]
  /\ pc \in [Threads -> CustomerPcs \cup BarberPcs]
  /\ \A c \in Customers : pc[c] \in CustomerPcs
  /\ \A b \in Barbers : pc[b] \in BarberPcs
  /\ chairs \in Seq(Customers)
  /\ Len(chairs) <= MaxChairs
  /\ state \in [Customers -> {"CHECKING", "WAITING", "DONE"}]
  /\ serving \in [Barbers -> Customers \cup {Nobody}]
  /\ hasSlept \in [Barbers -> BOOLEAN]
  /\ timers \subseteq Customers
  /\ counters \in [total : Int, turnedAway : Int, people : Int, seat : Int]
  /\ exited \in BOOLEAN

InService == {serving[b] : b \in Barbers} \ {Nobody}

\* The queue and the barbers' pointers account for the WAITING customers: each
\* of them is in exactly one chair or with exactly one barber, and nobody else
\* is.  (A pointer that outlives its customer's visit, or a customer queued
\* twice, would break it.)
WaitingAccounted ==
  /\ IsInjective(chairs)
  /\ ToSet(chairs) \cap InService = {}
  /\ \A a, b \in Barbers : a # b /\ serving[a] = serving[b] => serving[a] = Nobody
  /\ \A c \in Customers :
       state[c] = "WAITING" <=> c \in ToSet(chairs) \cup InService

\* Barbers who will look at the queue before they sleep again.
OnTheirWay ==
  {b \in Barbers : \/ pc[b] \in {"start", "check", "seating"}
                   \/ pc[b] = "waiting" /\ b \notin Blocked("C_barber")}

\* No wakeup of a barber is lost: while a barber sleeps, there are at least as
\* many barbers on their way to the queue as customers in it, whatever the
\* order in which signals, locks and arrivals happen.
NoSleepingBarber ==
  Blocked("C_barber") # {} => Len(chairs) <= Cardinality(OnTheirWay)

\* exit(-1) on an empty queue and the asserts of the timer are unreachable: a
\* woken barber tests the queue again before he takes a customer from it.
NeverExits == ~exited

\* What the safety proofs need besides: who holds the mutex, who is blocked
\* where, and what the program counters say of the shared state.
MutualExclusion ==
  \A t \in Threads :
    owner = t <=> pc[t] \in {"entering", "testing", "check", "seating", "finishing"}

BlockedThreadsWait ==
  /\ \A cv \in CondVars : IsInjective(waiters[cv])
  /\ \A t \in Blocked("C_barber") : t \in Barbers /\ pc[t] = "waiting"
  /\ \A t \in Blocked("C_customer") : t \in Customers /\ pc[t] = "waiting"

ServingPc ==
  \A b \in Barbers :
    /\ serving[b] # Nobody <=> pc[b] \in {"cutting", "returning", "finishing"}
    /\ pc[b] = "seating" => chairs # <<>>

InsidePc ==
  \A c \in Customers :
    /\ c \in timers <=> pc[c] \in {"testing", "waiting"}
    /\ state[c] = "WAITING" => c \in timers
    /\ pc[c] = "entering" => state[c] = "CHECKING"

\* The inductive invariant: each part is preserved by every step only in the
\* company of the others.
IInv ==
  /\ TypeOK
  /\ MutualExclusion
  /\ BlockedThreadsWait
  /\ ServingPc
  /\ InsidePc
  /\ WaitingAccounted
  /\ NoSleepingBarber
  /\ NeverExits

\* A customer with a haircut is not left blocked on C_customer: the one signal
\* sent for him has reached him.
FinishedIsWoken ==
  \A c \in Customers : state[c] = "DONE" => c \notin Blocked("C_customer")

\* All threads sleep or are blocked: simulated time can pass (misc.c keeps the
\* clock still while a thread is runnable).
ClockMayAdvance ==
  /\ \A c \in Customers : pc[c] = "asleep" \/ c \in Blocked("C_customer")
  /\ \A b \in Barbers : pc[b] = "cutting" \/ b \in Blocked("C_barber")

\* part-3.md: the seat counter is "0 for empty and 1 for full".  Between two
\* haircuts it is 2 for a while, but whenever time passes, and only then do the
\* means change, it counts the haircuts going on, and the people counter the
\* customers in the chairs and in the seats.
CountersExact ==
  ClockMayAdvance =>
    /\ counters.seat = Cardinality({b \in Barbers : pc[b] = "cutting"})
    /\ counters.people = Len(chairs) + counters.seat

\* README.md: customer() returns "after getting a haircut".
WaitingLeaves ==
  \A c \in Customers : state[c] = "WAITING" ~> pc[c] = "asleep"

\* A barber who goes on cutting hair cannot strand a finished customer.
FinishedLeaves ==
  \A c \in Customers : state[c] = "DONE" ~> pc[c] = "asleep"

Finished == {c \in Customers : state[c] = "DONE" /\ pc[c] # "asleep" /\ pc[c] # "arriving"}

ShopView ==
  INSTANCE Shop WITH line <- chairs, seat <- serving, finished <- Finished

\* The monitor implements the abstract shop: the line is served in order of
\* arrival, nobody is in two places, nobody leaves before the haircut.
ImplementsShop == ShopView!Safety

\* It also implements its liveness: an idle barber serves a waiting line, every
\* haircut ends, and everybody with a haircut leaves.
ImplementsLiveShop == ShopView!Spec
=============================================================================
