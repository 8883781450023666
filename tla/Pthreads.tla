------------------------------ MODULE Pthreads ------------------------------
(***************************************************************************)
(* One mutex and the condition variables used with it, as the barbershop   *)
(* (src/cs5600-p2-barbershop-p2-jd-forstudygroup2/homework.c) sees them.   *)
(* The same monitor code is linked either with the system's pthreads       *)
(* ("make part-2") or with the q3_* library of misc.c ("make part-3"), so  *)
(* the two things the code leaves to the library are constants:            *)
(*                                                                         *)
(*   FifoWakeup       cond_signal wakes the thread that has waited longest *)
(*                    (misc.c keeps a list); POSIX lets it wake any waiter *)
(*   SpuriousWakeups  cond_wait may return without a signal (POSIX does    *)
(*                    allow it, misc.c loops until its flag is set)        *)
(*                                                                         *)
(* A thread blocked in cond_wait is in waiters[cv].  Once removed it still *)
(* has to take the mutex again before cond_wait returns.                   *)
(***************************************************************************)
EXTENDS SequencesExt

CONSTANTS
  Nobody,           (* owner of a free mutex                               *)
  FifoWakeup,
  SpuriousWakeups

ASSUME PthreadsAssumption ==
  /\ FifoWakeup \in BOOLEAN
  /\ SpuriousWakeups \in BOOLEAN

VARIABLES
  owner,            (* the thread that holds the mutex, or Nobody          *)
  waiters           (* condition variable |-> blocked threads, oldest first *)

Blocked(cv) == ToSet(waiters[cv])

MutexLock(t) == owner = Nobody /\ owner' = t

MutexUnlock(t) == owner = t /\ owner' = Nobody

CondWait(t, cv) ==
  /\ MutexUnlock(t)
  /\ waiters' = [waiters EXCEPT ![cv] = Append(@, t)]

Unblock(cv, i) == waiters' = [waiters EXCEPT ![cv] = RemoveAt(@, i)]

\* The positions in the list a signal may pick.
Signallable(cv) == IF FifoWakeup THEN {1} \cap DOMAIN waiters[cv]
                                 ELSE DOMAIN waiters[cv]

CondSignal(cv) ==
  \/ waiters[cv] = <<>> /\ UNCHANGED waiters
  \/ \E i \in Signallable(cv) : Unblock(cv, i)

SpuriousWakeup(cv) ==
  /\ SpuriousWakeups
  /\ \E i \in DOMAIN waiters[cv] : Unblock(cv, i)
  /\ UNCHANGED owner
=============================================================================
