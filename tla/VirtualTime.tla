---------------------------- MODULE VirtualTime ----------------------------
(***************************************************************************)
(* What the discrete-event library promises the programs built on it: the  *)
(* mutex and condition variables of Pthreads.tla (with FifoWakeup and no   *)
(* spurious wakeups), and a clock that stands still while any thread can   *)
(* run and otherwise moves to the next sleeper, who is then woken alone.   *)
(* SimClock.tla implements it; Barbershop.tla is run on it.                *)
(***************************************************************************)
EXTENDS Pthreads, Integers

CONSTANTS Users, Main, CondVars, Delays

VARIABLES
  created,
  asleep,       (* sleeping thread |-> the time it has still to sleep      *)
  relocking     (* threads that were signalled and want the mutex again    *)

vvars == <<owner, waiters, created, asleep, relocking>>

Waiting == UNION {Blocked(cv) : cv \in CondVars}
Stopped == DOMAIN asleep \cup Waiting
Running == created \ (Stopped \cup relocking)

VInit ==
  /\ owner = Nobody
  /\ waiters = [cv \in CondVars |-> <<>>]
  /\ created = {Main}
  /\ asleep = <<>>
  /\ relocking = {}

Create(t) ==
  /\ t \notin created
  /\ created' = created \cup {t}
  /\ UNCHANGED <<owner, waiters, asleep, relocking>>

Locks(t) ==
  /\ t \in Running
  /\ MutexLock(t)
  /\ UNCHANGED <<waiters, created, asleep, relocking>>

Unlocks(t) ==
  /\ MutexUnlock(t)
  /\ UNCHANGED <<waiters, created, asleep, relocking>>

Waits(t, cv) ==
  /\ t \in Running
  /\ CondWait(t, cv)
  /\ UNCHANGED <<created, asleep, relocking>>

\* Who is removed from the waiters wants the mutex next.
Leave(cv) == relocking' = relocking \cup (Blocked(cv) \ ToSet(waiters'[cv]))

Signal(cv) ==
  /\ owner # Nobody
  /\ CondSignal(cv)
  /\ Leave(cv)
  /\ UNCHANGED <<owner, created, asleep>>

Broadcast(cv) ==
  /\ owner # Nobody
  /\ waiters' = [waiters EXCEPT ![cv] = <<>>]
  /\ Leave(cv)
  /\ UNCHANGED <<owner, created, asleep>>

Relocks(t) ==
  /\ t \in relocking
  /\ MutexLock(t)
  /\ relocking' = relocking \ {t}
  /\ UNCHANGED <<waiters, created, asleep>>

Sleeps(t, d) ==
  /\ t \in Running
  /\ asleep' = [u \in DOMAIN asleep \cup {t} |-> IF u = t THEN d ELSE asleep[u]]
  /\ UNCHANGED <<owner, waiters, created, relocking>>

\* Time passes by d; awake is the one sleeper who is woken, if any.
Elapses(d, awake) ==
  /\ \A t \in DOMAIN asleep : asleep[t] >= d
  /\ asleep' = [t \in DOMAIN asleep \ awake |-> asleep[t] - d]
  /\ UNCHANGED <<owner, waiters, created, relocking>>

Advance ==
  /\ created \subseteq Stopped
  /\ \E t \in DOMAIN asleep : asleep[t] >= 0 /\ Elapses(asleep[t], {t})

\* A sleep that ends before anybody else could run.
SleepsAlone(t, d) ==
  /\ created \ Stopped = {t} /\ t \in Running
  /\ Elapses(d, {})

VNext ==
  \/ Advance
  \/ \E t \in Users \cup {Main} :
       \/ Create(t) \/ Locks(t) \/ Unlocks(t) \/ Relocks(t)
       \/ \E d \in Delays : Sleeps(t, d) \/ SleepsAlone(t, d)
       \/ \E cv \in CondVars : Waits(t, cv)
  \/ \E cv \in CondVars : Signal(cv) \/ Broadcast(cv)

VSpec == VInit /\ [][VNext]_vvars
=============================================================================
