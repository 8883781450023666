------------------------------ MODULE SimClock ------------------------------
(***************************************************************************)
(* The discrete-event threads library of misc.c (part Q3): q3_usleep, the  *)
(* q3_cond_* wrappers and the counter nthreads, on top of GNU Pth.  It     *)
(* moves simulated time to the next sleeper when no thread is runnable.    *)
(*                                                                         *)
(* Pth runs one thread at a time and switches only where a thread blocks   *)
(* and in pth_cond_notify: cur is the thread that runs on, or Nobody where *)
(* any ready thread may be next.  Only differences of instants matter, so  *)
(* left[t] is w.t - now, and "now = x" subtracts the time that passed.     *)
(*                                                                         *)
(*   pc  user       in the program, outside the library                    *)
(*       locking    in pthread_mutex_lock                                  *)
(*       inserting  in q3_usleep, has found its place p in waitq           *)
(*       inserted   in q3_usleep, in waitq and no longer counted           *)
(*       queued     in q3_cond_wait, in the list of the condition variable *)
(*       counted    in q3_cond_wait, no longer counted                     *)
(*       testing    at "while (!done)" of either                           *)
(*       awaiting   in pth_cond_await                                      *)
(***************************************************************************)
EXTENDS Integers, SequencesExt

CONSTANTS
  Users,        (* the threads of the program                              *)
  Main,         (* creates them and then sleeps again and again            *)
  Nobody,
  Signals,      (* condition variables used with q3_cond_signal            *)
  Broadcasts,   (* condition variables used with q3_cond_broadcast         *)
  Delays        (* arguments of q3_usleep                                  *)

Threads == Users \cup {Main}
CondVars == Signals \cup Broadcasts
Conds == CondVars \cup Threads         (* w.cond of t's q3_wait is t itself *)
Mutexes == {"mutex", "wait_mutex"}

ASSUME SimClockAssumption ==
  /\ IsFiniteSet(Users)
  /\ Main \notin Users /\ Nobody \notin Threads
  /\ CondVars \cap (Threads \cup {Nobody}) = {}
  /\ Delays \subseteq Nat

VARIABLES
  cur,        (* the running thread, or Nobody                             *)
  holder,     (* mutex |-> its owner, or Nobody                            *)
  pc,
  cond,       (* what a thread waits on: a condition variable, or itself   *)
  nthreads,
  waitq,      (* sleeping threads, in the order of the timer queue         *)
  left,       (* w.t - now of a thread in q3_usleep                        *)
  pos,        (* p of q3_usleep: a thread of waitq, or Nobody for &waitq   *)
  done,       (* w.done or self.done                                       *)
  cq,         (* the private list of a condition variable                  *)
  waiting,    (* q3_cond_t.waiting                                         *)
  pthq,       (* Pth: threads in pth_wait for a condition, oldest first    *)
  cnWaiters,  (* Pth: cn_waiters, until they have the mutex again          *)
  signaled,   (* Pth: the flags a notify without a queued thread leaves    *)
  broken      (* a NULL pointer was followed or a stale one linked         *)

sched == <<cur, holder, pc>>
timer == <<waitq, left, pos>>
lists == <<cq, waiting>>
pth == <<pthq, cnWaiters, signaled>>
vars == <<sched, cond, nthreads, timer, done, lists, pth, broken>>

Init ==
  /\ cur = Main
  /\ holder = [m \in Mutexes |-> Nobody]
  /\ pc = [t \in Threads |-> IF t = Main THEN "user" ELSE "absent"]
  /\ cond = [t \in Threads |-> t]
  /\ nthreads = 1
  /\ waitq = <<>>
  /\ left = [t \in Threads |-> 0]
  /\ pos = [t \in Threads |-> Nobody]
  /\ done = [t \in Threads |-> FALSE]
  /\ cq = [cv \in CondVars |-> <<>>]
  /\ waiting = [cv \in CondVars |-> 0]
  /\ pthq = [c \in Conds |-> <<>>]
  /\ cnWaiters = [c \in Conds |-> 0]
  /\ signaled = [c \in Conds |-> "no"]
  /\ broken = FALSE

At(t, label) == cur \in {t, Nobody} /\ pc[t] = label

Goto(t, label) == pc' = [pc EXCEPT ![t] = label]

RunsOn(t) == cur' = t
Switches == cur' = Nobody

-----------------------------------------------------------------------------
(* GNU Pth: cooperative threads, mutexes and conditions. *)

Acquire(t, m) ==
  /\ holder[m] = Nobody
  /\ holder' = [holder EXCEPT ![m] = t]

MutexOf(c) == IF c \in CondVars THEN "mutex" ELSE "wait_mutex"

\* A flag left by a signal is consumed without releasing the mutex; one left by
\* a broadcast wakes the thread as soon as it waits.
Await(t, c) ==
  IF signaled[c] = "one"
  THEN /\ signaled' = [signaled EXCEPT ![c] = "no"]
       /\ RunsOn(t)
       /\ UNCHANGED <<holder, pc, pthq, cnWaiters>>
  ELSE /\ cnWaiters' = [cnWaiters EXCEPT ![c] = @ + 1]
       /\ holder' = [holder EXCEPT ![MutexOf(c)] = Nobody]
       /\ signaled' = [signaled EXCEPT ![c] = "no"]
       /\ pthq' = IF signaled[c] = "no" THEN [pthq EXCEPT ![c] = Append(@, t)]
                                        ELSE pthq
       /\ Goto(t, "awaiting")
       /\ Switches

\* pth_cond_notify by t: it yields if somebody is inside pth_cond_await.
Notify(t, c, kind) ==
  IF cnWaiters[c] = 0
  THEN RunsOn(t) /\ UNCHANGED pth
  ELSE /\ Switches
       /\ pthq' = [pthq EXCEPT ![c] =
                     IF kind = "one" /\ @ # <<>> THEN Tail(@) ELSE <<>>]
       /\ signaled' = [signaled EXCEPT ![c] =
                         IF pthq[c] = <<>> THEN kind ELSE "no"]
       /\ UNCHANGED cnWaiters

\* The mutex a thread has asked for.
Wanted(t) ==
  CASE pc[t] = "locking" -> {"mutex"}
    [] pc[t] \in {"inserting", "queued"} -> {"wait_mutex"}
    [] pc[t] = "awaiting" -> {MutexOf(cond[t])}
    [] OTHER -> {}

Blocks(t) ==
  /\ cur = t
  /\ \E m \in Wanted(t) : holder[m] # Nobody
  /\ Switches
  /\ UNCHANGED <<holder, pc, cond, nthreads, timer, done, lists, pth, broken>>

-----------------------------------------------------------------------------
(* Threads and mutexes. *)

\* A thread's function does not return (homework.c), so run_thunk is not left.
q3_create(u) ==
  /\ At(Main, "user")
  /\ pc[u] = "absent"
  /\ Goto(u, "user")
  /\ nthreads' = nthreads + 1
  /\ RunsOn(Main)
  /\ UNCHANGED <<holder, cond, timer, done, lists, pth, broken>>

q3_mutex_lock(t) ==
  /\ At(t, "user")
  /\ holder["mutex"] # t
  /\ Goto(t, "locking")
  /\ RunsOn(t)
  /\ UNCHANGED <<holder, cond, nthreads, timer, done, lists, pth, broken>>

MutexLocked(t) ==
  /\ At(t, "locking")
  /\ Acquire(t, "mutex")
  /\ Goto(t, "user")
  /\ RunsOn(t)
  /\ UNCHANGED <<cond, nthreads, timer, done, lists, pth, broken>>

q3_mutex_unlock(t) ==
  /\ At(t, "user")
  /\ holder["mutex"] = t
  /\ holder' = [holder EXCEPT !["mutex"] = Nobody]
  /\ RunsOn(t)
  /\ UNCHANGED <<pc, cond, nthreads, timer, done, lists, pth, broken>>

-----------------------------------------------------------------------------
(* q3_usleep and the timer queue. *)

\* Time passes by d for everybody who has computed an instant.
Elapse(d) ==
  left' = [t \in Threads |->
             IF t \in ToSet(waitq) \/ pc[t] = "inserting" THEN left[t] - d
                                                          ELSE left[t]]

\* The loop over the sorted list: the first thread that wakes at d or later.
Later(d) == {i \in DOMAIN waitq : left[waitq[i]] >= d}
Place(d) == IF Later(d) = {} THEN Nobody ELSE waitq[Min(Later(d))]
IsFirst(p) == IF waitq = <<>> THEN p = Nobody ELSE p = Head(waitq)

\* Mutant: the last runnable thread never sleeps, whoever is to wake before it.
AloneIgnoresQueue(t, d) ==
  /\ At(t, "user")
  /\ holder["mutex"] # t
  /\ nthreads = 1
  /\ Elapse(d)
  /\ RunsOn(t)
  /\ UNCHANGED <<holder, pc, cond, nthreads, waitq, pos, done, lists, pth, broken>>

\* The only runnable thread, and the next to wake: time moves, nobody sleeps.
UsleepAlone(t, d) ==
  /\ At(t, "user")
  /\ holder["mutex"] # t
  /\ nthreads = 1 /\ IsFirst(Place(d))
  /\ Elapse(d)
  /\ RunsOn(t)
  /\ UNCHANGED <<holder, pc, cond, nthreads, waitq, pos, done, lists, pth, broken>>

UsleepFinds(t, d) ==
  /\ At(t, "user")
  /\ holder["mutex"] # t
  /\ ~(nthreads = 1 /\ IsFirst(Place(d)))
  /\ left' = [left EXCEPT ![t] = d]
  /\ pos' = [pos EXCEPT ![t] = Place(d)]
  /\ done' = [done EXCEPT ![t] = FALSE]
  /\ cond' = [cond EXCEPT ![t] = t]
  /\ Goto(t, "inserting")
  /\ RunsOn(t)
  /\ UNCHANGED <<holder, nthreads, waitq, lists, pth, broken>>

\* Mutant: linked after p.
InsertsAfter(t) ==
  /\ At(t, "inserting")
  /\ Acquire(t, "wait_mutex")
  /\ LET p == pos[t] IN
     /\ broken' = (p \notin ToSet(waitq) \cup {Nobody})
     /\ waitq' = IF p \in ToSet(waitq)
                 THEN InsertAt(waitq, 1 + Min({i \in DOMAIN waitq : waitq[i] = p}), t)
                 ELSE Append(waitq, t)
  /\ pos' = [pos EXCEPT ![t] = Nobody]
  /\ nthreads' = nthreads - 1
  /\ Goto(t, "inserted")
  /\ RunsOn(t)
  /\ UNCHANGED <<cond, left, done, lists, pth>>

\* insert_before(p, &w); a node that is no longer in the list breaks it.
UsleepInserts(t) ==
  /\ At(t, "inserting")
  /\ Acquire(t, "wait_mutex")
  /\ LET p == pos[t] IN
     /\ broken' = (p \notin ToSet(waitq) \cup {Nobody})
     /\ waitq' = IF p \in ToSet(waitq)
                 THEN InsertAt(waitq, Min({i \in DOMAIN waitq : waitq[i] = p}), t)
                 ELSE Append(waitq, t)
  /\ pos' = [pos EXCEPT ![t] = Nobody]
  /\ nthreads' = nthreads - 1
  /\ Goto(t, "inserted")
  /\ RunsOn(t)
  /\ UNCHANGED <<cond, left, done, lists, pth>>

\* q3_wake_next, called by t when nobody is runnable.
WakeNext(t) ==
  IF waitq = <<>>
  THEN broken' = TRUE /\ RunsOn(t) /\ UNCHANGED <<nthreads, timer, done, pth>>
  ELSE LET next == Head(waitq) IN
       /\ waitq' = Tail(waitq)
       /\ Elapse(left[next])
       /\ done' = [done EXCEPT ![next] = TRUE]
       /\ nthreads' = nthreads + 1
       /\ Notify(t, next, "one")
       /\ UNCHANGED <<pos, broken>>

\* Mutant: time moves while one thread is still runnable.
WakesBeforeLast(t) ==
  IF nthreads <= 1
  THEN WakeNext(t)
  ELSE RunsOn(t) /\ UNCHANGED <<nthreads, timer, done, pth, broken>>

WakesIfLast(t) ==
  IF nthreads = 0
  THEN WakeNext(t)
  ELSE RunsOn(t) /\ UNCHANGED <<nthreads, timer, done, pth, broken>>

UsleepCounts(t) ==
  /\ At(t, "inserted")
  /\ WakesIfLast(t)
  /\ Goto(t, "testing")
  /\ UNCHANGED <<holder, cond, lists>>

\* "while (!w.done) pth_cond_await(&w.cond, &wait_mutex)", and the same loop of
\* q3_cond_wait.
Sleeps(t) ==
  /\ At(t, "testing")
  /\ ~done[t]
  /\ Await(t, cond[t])
  /\ UNCHANGED <<cond, nthreads, timer, done, lists, broken>>

Awaited(t) ==
  /\ At(t, "awaiting")
  /\ t \notin ToSet(pthq[cond[t]])
  /\ Acquire(t, MutexOf(cond[t]))
  /\ cnWaiters' = [cnWaiters EXCEPT ![cond[t]] = @ - 1]
  /\ Goto(t, "testing")
  /\ RunsOn(t)
  /\ UNCHANGED <<cond, nthreads, timer, done, lists, pthq, signaled, broken>>

Returns(t) ==
  /\ At(t, "testing")
  /\ done[t]
  /\ holder' = IF cond[t] = t THEN [holder EXCEPT !["wait_mutex"] = Nobody]
                              ELSE holder
  /\ Goto(t, "user")
  /\ cond' = [cond EXCEPT ![t] = t]
  /\ done' = [done EXCEPT ![t] = FALSE]
  /\ left' = [left EXCEPT ![t] = 0]
  /\ RunsOn(t)
  /\ UNCHANGED <<nthreads, waitq, pos, lists, pth, broken>>

-----------------------------------------------------------------------------
(* Condition variables. *)

\* Mutant: the new waiter becomes the head of the list.
QueuesInFront(t, cv) ==
  /\ At(t, "user")
  /\ holder["mutex"] = t
  /\ cq' = [cq EXCEPT ![cv] = <<t>> \o @]
  /\ cond' = [cond EXCEPT ![t] = cv]
  /\ done' = [done EXCEPT ![t] = FALSE]
  /\ Goto(t, "queued")
  /\ RunsOn(t)
  /\ UNCHANGED <<holder, nthreads, timer, waiting, pth, broken>>

CondWaitQueues(t, cv) ==
  /\ At(t, "user")
  /\ holder["mutex"] = t
  /\ cq' = [cq EXCEPT ![cv] = Append(@, t)]
  /\ cond' = [cond EXCEPT ![t] = cv]
  /\ done' = [done EXCEPT ![t] = FALSE]
  /\ Goto(t, "queued")
  /\ RunsOn(t)
  /\ UNCHANGED <<holder, nthreads, timer, waiting, pth, broken>>

CondWaitCounts(t) ==
  /\ At(t, "queued")
  /\ Acquire(t, "wait_mutex")
  /\ nthreads' = nthreads - 1
  /\ Goto(t, "counted")
  /\ RunsOn(t)
  /\ UNCHANGED <<cond, timer, done, lists, pth, broken>>

CondWaitWakes(t) ==
  /\ At(t, "counted")
  /\ WakesIfLast(t)
  /\ Goto(t, "releasing")
  /\ UNCHANGED <<holder, cond, lists>>

CondWaitReleases(t) ==
  /\ At(t, "releasing")
  /\ holder' = [holder EXCEPT !["wait_mutex"] = Nobody]
  /\ waiting' = [waiting EXCEPT ![cond[t]] = @ + 1]
  /\ Goto(t, "testing")
  /\ RunsOn(t)
  /\ UNCHANGED <<cond, nthreads, timer, done, cq, pth, broken>>

\* The first n threads of the list are done; fewer in it: a NULL is followed.
Mark(cv, n) ==
  /\ broken' = (n > Len(cq[cv]))
  /\ cq' = [cq EXCEPT ![cv] = SubSeq(@, n + 1, Len(@))]
  /\ done' = [t \in Threads |->
                done[t] \/ \E i \in DOMAIN cq[cv] : i <= n /\ cq[cv][i] = t]

\* Mutant: the thread signalled is not counted as runnable.
SignalUncounted(t, cv) ==
  /\ At(t, "user")
  /\ holder["mutex"] = t
  /\ IF waiting[cv] > 0
     THEN /\ waiting' = [waiting EXCEPT ![cv] = @ - 1]
          /\ UNCHANGED nthreads
          /\ Mark(cv, 1)
     ELSE UNCHANGED <<lists, nthreads, done, broken>>
  /\ Notify(t, cv, "one")
  /\ UNCHANGED <<holder, pc, cond, timer>>

\* Mutant: the list is used although nobody waits.
SignalsNobody(t, cv) ==
  /\ At(t, "user")
  /\ holder["mutex"] = t
  /\ IF waiting[cv] >= 0
     THEN /\ waiting' = [waiting EXCEPT ![cv] = IF @ = 0 THEN 0 ELSE @ - 1]
          /\ nthreads' = nthreads + 1
          /\ Mark(cv, 1)
     ELSE UNCHANGED <<lists, nthreads, done, broken>>
  /\ Notify(t, cv, "one")
  /\ UNCHANGED <<holder, pc, cond, timer>>

q3_cond_signal(t, cv) ==
  /\ At(t, "user")
  /\ holder["mutex"] = t
  /\ IF waiting[cv] > 0
     THEN /\ waiting' = [waiting EXCEPT ![cv] = @ - 1]
          /\ nthreads' = nthreads + 1
          /\ Mark(cv, 1)
     ELSE UNCHANGED <<lists, nthreads, done, broken>>
  /\ Notify(t, cv, "one")
  /\ UNCHANGED <<holder, pc, cond, timer>>

\* Mutant: waiting is not reset.
BroadcastKeepsWaiting(t, cv) ==
  /\ At(t, "user")
  /\ holder["mutex"] = t
  /\ IF waiting[cv] > 0
     THEN /\ UNCHANGED waiting
          /\ nthreads' = nthreads + waiting[cv]
          /\ Mark(cv, Len(cq[cv]))
     ELSE UNCHANGED <<lists, nthreads, done, broken>>
  /\ Notify(t, cv, "broadcast")
  /\ UNCHANGED <<holder, pc, cond, timer>>

q3_cond_broadcast(t, cv) ==
  /\ At(t, "user")
  /\ holder["mutex"] = t
  /\ IF waiting[cv] > 0
     THEN /\ waiting' = [waiting EXCEPT ![cv] = 0]
          /\ nthreads' = nthreads + waiting[cv]
          /\ Mark(cv, Len(cq[cv]))
     ELSE UNCHANGED <<lists, nthreads, done, broken>>
  /\ Notify(t, cv, "broadcast")
  /\ UNCHANGED <<holder, pc, cond, timer>>

-----------------------------------------------------------------------------
Calls(t) ==
  \/ q3_mutex_lock(t)
  \/ q3_mutex_unlock(t)
  \/ \E cv \in CondVars : CondWaitQueues(t, cv)
  \/ \E cv \in Signals : q3_cond_signal(t, cv)
  \/ \E cv \in Broadcasts : q3_cond_broadcast(t, cv)

Usleep(t) ==
  \/ \E d \in Delays : UsleepAlone(t, d) \/ UsleepFinds(t, d)
  \/ UsleepInserts(t)
  \/ UsleepCounts(t)

Waits(t) ==
  \/ MutexLocked(t)
  \/ CondWaitCounts(t)
  \/ CondWaitWakes(t)
  \/ CondWaitReleases(t)
  \/ Sleeps(t)
  \/ Awaited(t)
  \/ Returns(t)
  \/ Blocks(t)

Next ==
  /\ ~broken
  /\ \/ \E u \in Users : q3_create(u) \/ Calls(u)
     \/ \E t \in Threads : Usleep(t) \/ Waits(t)

Spec == Init /\ [][Next]_vars

-----------------------------------------------------------------------------
(* Properties *)

Asleep == ToSet(waitq)
InCond(cv) == ToSet(cq[cv])

\* Every variable holds a value of its type; time never passes the instant a
\* thread sleeps until.
TypeOK ==
  /\ cur \in Threads \cup {Nobody}
  /\ holder \in [Mutexes -> Threads \cup {Nobody}]
  /\ pc \in [Threads -> {"absent", "user", "locking", "inserting", "inserted",
                         "queued", "counted", "releasing", "testing", "awaiting"}]
  /\ cond \in [Threads -> Conds]
  /\ nthreads \in Nat
  /\ waitq \in Seq(Threads) /\ left \in [Threads -> Nat]
  /\ pos \in [Threads -> Threads \cup {Nobody}]
  /\ done \in [Threads -> BOOLEAN]
  /\ cq \in [CondVars -> Seq(Threads)] /\ waiting \in [CondVars -> Nat]
  /\ pthq \in [Conds -> Seq(Threads)] /\ cnWaiters \in [Conds -> Nat]
  /\ signaled \in [Conds -> {"no", "one", "broadcast"}]
  /\ broken \in BOOLEAN

\* Threads that are neither asleep nor waiting to be signalled.
Runnable ==
  {t \in Threads : /\ pc[t] # "absent"
                   /\ t \notin Asleep
                   /\ pc[t] = "queued" \/ t \notin UNION {InCond(cv) : cv \in CondVars}}

\* misc.c: "We need to keep track of how many runnable threads there are at any
\* moment".  Sleeps, waits, signals, broadcasts and wakeups each adjust nthreads
\* at a place of their own, some before and some after they yield.
RunnableCounted == nthreads = Cardinality(Runnable)

\* misc.c asks whether waiting is redundant: outside of q3_cond_wait it is, it
\* is the length of the list.
WaitingIsListLength ==
  \A cv \in CondVars :
    waiting[cv] + Cardinality({t \in InCond(cv) : pc[t] \in {"queued", "counted", "releasing"}})
      = Len(cq[cv])

\* "mark the first waiting thread as done and wake it": the thread marked is the
\* thread Pth wakes, although each keeps its own list of waiters.
MarkedIsWoken ==
  \A t \in Threads : done[t] => t \notin ToSet(pthq[cond[t]])

\* The timer queue is sorted, nobody in it is overdue, and the place a sleeper
\* found before it had wait_mutex is still its place.
TimerQueueOK ==
  /\ \A i \in DOMAIN waitq : left[waitq[i]] >= 0
  /\ \A i, j \in DOMAIN waitq : i < j => left[waitq[i]] <= left[waitq[j]]
  /\ \A t \in Threads : pc[t] = "inserting" => pos[t] = Place(left[t])

\* The timer queue is never empty when the last runnable thread stops, and the
\* list of a condition variable never while waiting > 0.
NeverBroken == ~broken

Time ==
  INSTANCE VirtualTime WITH
    FifoWakeup <- TRUE,
    SpuriousWakeups <- FALSE,
    owner <- IF \E cv \in CondVars : holder["mutex"] \in InCond(cv)
             THEN Nobody ELSE holder["mutex"],
    waiters <- cq,
    created <- {t \in Threads : pc[t] # "absent"},
    asleep <- [t \in Asleep |-> left[t]],
    relocking <- {t \in Threads : done[t] /\ cond[t] # t /\ pc[t] = "awaiting"}

\* The library implements the condition variables and the clock the barbershop
\* is run on: waiters are signalled in order of arrival, and time moves only
\* when every thread sleeps or waits, to the instant of the sleeper it wakes.
ImplementsVirtualTime == Time!VSpec
=============================================================================
