-------------------------- MODULE BarbershopProofs --------------------------
(***************************************************************************)
(* The safety of the barbershop monitor for every number of customers,     *)
(* barbers and chairs, under any wakeup policy of the condition variables, *)
(* with and without spurious wakeups: IInv is an invariant.  At the end,   *)
(* that the linked list of queue.c holds the chairs, for any number of     *)
(* nodes.                                                                  *)
(***************************************************************************)
EXTENDS ShopQueue, FiniteSetTheorems, FunctionTheorems, SequenceTheorems, TLAPS

-----------------------------------------------------------------------------
(* Sequences as the model uses them *)

\* Appending a new element adds it to the elements and keeps them distinct.
LEMMA AppendElements ==
  ASSUME NEW S, NEW s \in Seq(S), NEW x \in S
  PROVE  /\ Append(s, x) \in Seq(S)
         /\ Len(Append(s, x)) = Len(s) + 1
         /\ ToSet(Append(s, x)) = ToSet(s) \cup {x}
         /\ IsInjective(s) /\ x \notin ToSet(s) => IsInjective(Append(s, x))
<1>1. /\ Append(s, x) \in Seq(S)
      /\ Len(Append(s, x)) = Len(s) + 1
      /\ \A i \in 1..Len(s) : Append(s, x)[i] = s[i]
      /\ Append(s, x)[Len(s) + 1] = x
  BY AppendProperties
<1>2. DOMAIN s = 1..Len(s) /\ DOMAIN Append(s, x) = 1..(Len(s) + 1) /\ Len(s) \in Nat
  BY <1>1, LenProperties
<1>3. ToSet(Append(s, x)) = ToSet(s) \cup {x}
  <2>1. ASSUME NEW y \in ToSet(Append(s, x)) PROVE y \in ToSet(s) \cup {x}
    BY <1>1, <1>2, <2>1 DEF ToSet
  <2>2. ASSUME NEW y \in ToSet(s) PROVE y \in ToSet(Append(s, x))
    BY <1>1, <1>2, <2>2 DEF ToSet
  <2>3. x \in ToSet(Append(s, x))
    BY <1>1, <1>2 DEF ToSet
  <2>4. QED BY <2>1, <2>2, <2>3
<1>4. IsInjective(s) /\ x \notin ToSet(s) => IsInjective(Append(s, x))
  BY <1>1, <1>2 DEF IsInjective, ToSet
<1>5. QED BY <1>1, <1>3, <1>4

\* The tail of a sequence without repetitions has all elements but the head.
LEMMA TailElements ==
  ASSUME NEW S, NEW s \in Seq(S), s # <<>>
  PROVE  /\ Head(s) \in S /\ Head(s) \in ToSet(s)
         /\ Tail(s) \in Seq(S)
         /\ Len(Tail(s)) = Len(s) - 1
         /\ IsInjective(s) => /\ IsInjective(Tail(s))
                              /\ ToSet(Tail(s)) = ToSet(s) \ {Head(s)}
<1>1. /\ Head(s) \in S
      /\ Tail(s) \in Seq(S)
      /\ Len(Tail(s)) = Len(s) - 1
      /\ \A i \in 1..Len(Tail(s)) : Tail(s)[i] = s[i + 1]
      /\ Head(s) = s[1]
  BY HeadTailProperties
<1>2. /\ DOMAIN s = 1..Len(s) /\ DOMAIN Tail(s) = 1..Len(Tail(s))
      /\ Len(s) \in Nat /\ Len(s) > 0
  BY <1>1, LenProperties, EmptySeq
<1>3. Head(s) \in ToSet(s)
  BY <1>1, <1>2 DEF ToSet
<1>4. ASSUME IsInjective(s)
      PROVE  IsInjective(Tail(s)) /\ ToSet(Tail(s)) = ToSet(s) \ {Head(s)}
  <2>1. IsInjective(Tail(s))
    BY <1>1, <1>2, <1>4 DEF IsInjective
  <2>2. ASSUME NEW y \in ToSet(Tail(s)) PROVE y \in ToSet(s) \ {Head(s)}
    BY <1>1, <1>2, <1>4, <2>2 DEF IsInjective, ToSet
  <2>3. ASSUME NEW y \in ToSet(s) \ {Head(s)} PROVE y \in ToSet(Tail(s))
    <3>1. PICK i \in 1..Len(s) : s[i] = y
      BY <1>2 DEF ToSet
    <3>2. i # 1 /\ i - 1 \in 1..Len(Tail(s)) /\ Tail(s)[i - 1] = y
      BY <1>1, <1>2, <3>1
    <3>3. QED BY <1>2, <3>2 DEF ToSet
  <2>4. QED BY <2>1, <2>2, <2>3
<1>5. QED BY <1>1, <1>3, <1>4

\* RemoveAt takes out one position; without repetitions, one element.
LEMMA RemoveAtElements ==
  ASSUME NEW S, NEW s \in Seq(S), NEW i \in 1..Len(s)
  PROVE  /\ s[i] \in ToSet(s)
         /\ RemoveAt(s, i) \in Seq(S)
         /\ IsInjective(s) => /\ IsInjective(RemoveAt(s, i))
                              /\ ToSet(RemoveAt(s, i)) = ToSet(s) \ {s[i]}
<1> DEFINE r == RemoveAt(s, i)
           u == SubSeq(s, 1, i - 1)
           v == SubSeq(s, i + 1, Len(s))
<1>1. Len(s) \in Nat /\ DOMAIN s = 1..Len(s) /\ \A j \in 1..Len(s) : s[j] \in S
  BY LenProperties, ElementOfSeq
<1>2. /\ u \in Seq(S) /\ Len(u) = i - 1
      /\ \A j \in 1..(i - 1) : u[j] = s[j]
  <2>1. 1 \in Int /\ i - 1 \in Int /\ \A j \in 1..(i - 1) : s[j] \in S
    BY <1>1
  <2>2. /\ u \in Seq(S)
        /\ Len(u) = IF 1 <= i - 1 THEN (i - 1) - 1 + 1 ELSE 0
        /\ \A j \in 1..((i - 1) - 1 + 1) : u[j] = s[1 + j - 1]
    BY <2>1, SubSeqProperties
  <2> HIDE DEF u
  <2>3. QED BY <2>2
<1>3. /\ v \in Seq(S) /\ Len(v) = Len(s) - i
      /\ \A j \in 1..(Len(s) - i) : v[j] = s[i + j]
  <2>1. i + 1 \in Int /\ Len(s) \in Int /\ \A j \in (i + 1)..Len(s) : s[j] \in S
    BY <1>1
  <2>2. /\ v \in Seq(S)
        /\ Len(v) = IF i + 1 <= Len(s) THEN Len(s) - (i + 1) + 1 ELSE 0
        /\ \A j \in 1..(Len(s) - (i + 1) + 1) : v[j] = s[(i + 1) + j - 1]
    BY <2>1, SubSeqProperties
  <2> HIDE DEF v
  <2>3. Len(v) = Len(s) - i
    <3>1. Len(s) \in Nat /\ i \in Int /\ i <= Len(s)
      BY LenProperties
    <3>2. QED BY <2>2, <3>1
  <2>4. ASSUME NEW j \in 1..(Len(s) - i) PROVE v[j] = s[i + j]
    <3>1. j \in 1..(Len(s) - (i + 1) + 1) /\ (i + 1) + j - 1 = i + j
      BY <1>1
    <3>2. QED BY <2>2, <3>1
  <2>5. QED BY <2>2, <2>3, <2>4
<1>4. /\ r \in Seq(S) /\ Len(r) = Len(s) - 1
      /\ DOMAIN r = 1..(Len(s) - 1)
      /\ \A j \in 1..(Len(s) - 1) : r[j] = IF j < i THEN s[j] ELSE s[j + 1]
  <2>1. r = u \o v
    BY DEF RemoveAt
  <2>2. r \in Seq(S) /\ Len(r) = Len(s) - 1
        /\ \A j \in 1..Len(r) : r[j] = IF j <= Len(u) THEN u[j] ELSE v[j - Len(u)]
    <3> HIDE DEF u, v
    <3>1. /\ u \o v \in Seq(S) /\ Len(u \o v) = Len(u) + Len(v)
          /\ \A j \in 1..(Len(u) + Len(v)) :
               (u \o v)[j] = IF j <= Len(u) THEN u[j] ELSE v[j - Len(u)]
      BY <1>2, <1>3, ConcatProperties
    <3>2. Len(u) + Len(v) = Len(s) - 1
      BY <1>1, <1>2, <1>3
    <3>3. QED BY <2>1, <3>1, <3>2
  <2> HIDE DEF r, u, v
  <2>3. ASSUME NEW j \in 1..(Len(s) - 1)
        PROVE  r[j] = IF j < i THEN s[j] ELSE s[j + 1]
    BY <2>2, <1>1, <1>2, <1>3
  <2>4. QED BY <2>2, <2>3, LenProperties
<1> HIDE DEF r
<1>5. s[i] \in ToSet(s)
  BY <1>1 DEF ToSet
<1>6. ASSUME IsInjective(s)
      PROVE  IsInjective(r) /\ ToSet(r) = ToSet(s) \ {s[i]}
  <2>1. IsInjective(r)
    <3>1. ASSUME NEW j \in 1..(Len(s) - 1), NEW k \in 1..(Len(s) - 1), r[j] = r[k]
          PROVE  j = k
      <4> DEFINE jj == IF j < i THEN j ELSE j + 1
                 kk == IF k < i THEN k ELSE k + 1
      <4>1. jj \in 1..Len(s) /\ kk \in 1..Len(s) /\ r[j] = s[jj] /\ r[k] = s[kk]
        BY <1>1, <1>4
      <4>2. jj = kk
        BY <1>1, <1>6, <3>1, <4>1 DEF IsInjective
      <4>3. QED BY <1>1, <4>2
    <3>2. QED BY <1>4, <3>1 DEF IsInjective
  <2>2. ASSUME NEW y \in ToSet(r) PROVE y \in ToSet(s) \ {s[i]}
    <3>1. PICK j \in 1..(Len(s) - 1) : r[j] = y
      BY <1>4, <2>2 DEF ToSet
    <3>2. PICK k \in 1..Len(s) : k # i /\ s[k] = y
      <4>1. CASE j < i
        <5>1. j \in 1..Len(s) /\ j # i /\ s[j] = y
          BY <1>1, <1>4, <3>1, <4>1
        <5>2. QED BY <5>1
      <4>2. CASE j >= i
        <5>1. j + 1 \in 1..Len(s) /\ j + 1 # i /\ s[j + 1] = y
          BY <1>1, <1>4, <3>1, <4>2
        <5>2. QED BY <5>1
      <4>3. QED BY <1>1, <3>1, <4>1, <4>2
    <3>3. y \in ToSet(s)
      BY <1>1, <3>2 DEF ToSet
    <3>4. y # s[i]
      BY <1>1, <1>6, <3>2 DEF IsInjective
    <3>5. QED BY <3>3, <3>4
  <2>3. ASSUME NEW y \in ToSet(s) \ {s[i]} PROVE y \in ToSet(r)
    <3>1. PICK j \in 1..Len(s) : s[j] = y
      BY <1>1 DEF ToSet
    <3>2. CASE j < i
      BY <3>1, <3>2, <1>1, <1>4 DEF ToSet
    <3>3. CASE j > i
      <4>1. j - 1 \in 1..(Len(s) - 1) /\ r[j - 1] = y
        BY <3>1, <3>3, <1>1, <1>4
      <4>2. QED BY <4>1, <1>4 DEF ToSet
    <3>4. QED BY <3>1, <3>2, <3>3
  <2>4. QED BY <2>1, <2>2, <2>3
<1>7. QED BY <1>4, <1>5, <1>6 DEF r
-----------------------------------------------------------------------------
(* Condition variables *)

WaitersOK ==
  /\ waiters \in [CondVars -> Seq(Threads)]
  /\ \A cv \in CondVars : IsInjective(waiters[cv])

\* Unblocking position i takes exactly one thread out of one list.
LEMMA UnblockEffect ==
  ASSUME WaitersOK, NEW cv \in CondVars, NEW i \in DOMAIN waiters[cv], Unblock(cv, i)
  PROVE  /\ WaitersOK'
         /\ \A d \in CondVars \ {cv} : waiters'[d] = waiters[d]
         /\ \E t \in Blocked(cv) : Blocked(cv)' = Blocked(cv) \ {t}
<1>1. waiters[cv] \in Seq(Threads) /\ IsInjective(waiters[cv])
  BY DEF WaitersOK
<1>2. i \in 1..Len(waiters[cv])
  BY <1>1, LenProperties
<1>3. /\ waiters[cv][i] \in ToSet(waiters[cv])
      /\ RemoveAt(waiters[cv], i) \in Seq(Threads)
      /\ IsInjective(RemoveAt(waiters[cv], i))
      /\ ToSet(RemoveAt(waiters[cv], i)) = ToSet(waiters[cv]) \ {waiters[cv][i]}
  BY <1>1, <1>2, RemoveAtElements
<1>4. waiters' = [waiters EXCEPT ![cv] = RemoveAt(waiters[cv], i)]
  BY DEF Unblock
<1>5. WaitersOK'
  BY <1>3, <1>4 DEF WaitersOK
<1>6. \A d \in CondVars \ {cv} : waiters'[d] = waiters[d]
  BY <1>4 DEF WaitersOK
<1>7. waiters'[cv] = RemoveAt(waiters[cv], i)
  BY <1>4 DEF WaitersOK
<1>8. QED BY <1>3, <1>5, <1>6, <1>7 DEF Blocked

\* A signal wakes nobody if nobody waits, and otherwise one of the waiters.
LEMMA SignalEffect ==
  ASSUME WaitersOK, NEW cv \in CondVars, CondSignal(cv)
  PROVE  /\ WaitersOK'
         /\ \A d \in CondVars \ {cv} : waiters'[d] = waiters[d]
         /\ \/ Blocked(cv) = {} /\ Blocked(cv)' = {}
            \/ \E t \in Blocked(cv) : Blocked(cv)' = Blocked(cv) \ {t}
<1>1. CASE waiters[cv] = <<>> /\ UNCHANGED waiters
  BY <1>1 DEF WaitersOK, Blocked, ToSet
<1>2. CASE \E i \in Signallable(cv) : Unblock(cv, i)
  <2>1. PICK i \in DOMAIN waiters[cv] : Unblock(cv, i)
    BY <1>2 DEF Signallable
  <2>2. QED BY <2>1, UnblockEffect
<1>3. QED BY <1>1, <1>2 DEF CondSignal

\* A waiting thread joins the list of its condition variable.
LEMMA WaitEffect ==
  ASSUME WaitersOK, NEW cv \in CondVars, NEW t \in Threads, t \notin Blocked(cv),
         CondWait(t, cv)
  PROVE  /\ WaitersOK'
         /\ \A d \in CondVars \ {cv} : waiters'[d] = waiters[d]
         /\ Blocked(cv)' = Blocked(cv) \cup {t}
<1>1. waiters[cv] \in Seq(Threads) /\ IsInjective(waiters[cv])
  BY DEF WaitersOK
<1>2. /\ Append(waiters[cv], t) \in Seq(Threads)
      /\ IsInjective(Append(waiters[cv], t))
      /\ ToSet(Append(waiters[cv], t)) = ToSet(waiters[cv]) \cup {t}
  BY <1>1, AppendElements DEF Blocked
<1>3. waiters' = [waiters EXCEPT ![cv] = Append(waiters[cv], t)]
  BY DEF CondWait
<1>4. waiters'[cv] = Append(waiters[cv], t)
  BY <1>3 DEF WaitersOK
<1>5. WaitersOK' /\ \A d \in CondVars \ {cv} : waiters'[d] = waiters[d]
  BY <1>2, <1>3 DEF WaitersOK
<1>6. QED BY <1>2, <1>4, <1>5 DEF Blocked

-----------------------------------------------------------------------------
(* The steps *)

\* A customer comes to the door: the mutex and all shared state stay as they are.
LEMMA CustomerArrivesStep ==
  ASSUME IInv, NEW c \in Customers, CustomerArrives(c)
  PROVE  IInv'
<1> USE BarbershopAssumption DEF IInv, CustomerArrives, Goto, MutexLock, MutexUnlock, Threads
<1>0. c \in Threads /\ (c \in Customers <=> c \notin Barbers)
  OBVIOUS
<1>1. TypeOK'
  BY <1>0 DEF TypeOK, CustomerPcs, BarberPcs
<1>2. MutualExclusion'
  BY <1>0 DEF TypeOK, MutualExclusion
<1>3. BlockedThreadsWait'
  BY <1>0 DEF TypeOK, BlockedThreadsWait, Blocked
<1>4. ServingPc'
  BY <1>0 DEF TypeOK, ServingPc
<1>5. InsidePc'
  BY <1>0 DEF TypeOK, InsidePc
<1>6. WaitingAccounted'
  BY <1>0 DEF TypeOK, WaitingAccounted, InService, InsidePc
<1>7. NoSleepingBarber'
  <2>1. OnTheirWay' = OnTheirWay
    BY <1>0 DEF TypeOK, OnTheirWay, Blocked, BlockedThreadsWait, MutualExclusion
  <2>2. QED BY <2>1 DEF NoSleepingBarber, Blocked
<1>8. NeverExits'
  BY <1>0 DEF NeverExits, TypeOK, InsidePc
<1>9. QED BY <1>1, <1>2, <1>3, <1>4, <1>5, <1>6, <1>7, <1>8

\* Arriving changes the statistics and the customer's own state, nobody else's.
LEMMA CustomerEntersStep ==
  ASSUME IInv, NEW c \in Customers, CustomerEnters(c)
  PROVE  IInv'
<1> USE BarbershopAssumption DEF IInv, CustomerEnters, Goto, MutexLock, MutexUnlock, Threads
<1>0. c \in Threads /\ (c \in Customers <=> c \notin Barbers)
  OBVIOUS
<1>1. TypeOK'
  <2>1. (counters.total + 1) % CounterMod \in Int
    BY DEF TypeOK
  <2>2. counters' \in [total : Int, turnedAway : Int, people : Int, seat : Int]
    BY <2>1 DEF TypeOK
  <2>3. QED BY <1>0, <2>2 DEF TypeOK, CustomerPcs, BarberPcs
<1>2. MutualExclusion'
  BY <1>0 DEF TypeOK, MutualExclusion
<1>3. BlockedThreadsWait'
  BY <1>0 DEF TypeOK, BlockedThreadsWait, Blocked
<1>4. ServingPc'
  BY <1>0 DEF TypeOK, ServingPc
<1>5. InsidePc'
  BY <1>0 DEF TypeOK, InsidePc
<1>6. WaitingAccounted'
  BY <1>0 DEF TypeOK, WaitingAccounted, InService, InsidePc
<1>7. NoSleepingBarber'
  <2>1. OnTheirWay' = OnTheirWay
    BY <1>0 DEF TypeOK, OnTheirWay, Blocked, BlockedThreadsWait, MutualExclusion
  <2>2. QED BY <2>1 DEF NoSleepingBarber, Blocked
<1>8. NeverExits'
  BY <1>0 DEF NeverExits, TypeOK, InsidePc
<1>9. QED BY <1>1, <1>2, <1>3, <1>4, <1>5, <1>6, <1>7, <1>8

\* A customer turned away is outside again, with no timer and no chair.
LEMMA CustomerTurnedAwayStep ==
  ASSUME IInv, NEW c \in Customers, CustomerTurnedAway(c)
  PROVE  IInv'
<1> USE BarbershopAssumption DEF IInv, CustomerTurnedAway, Goto, MutexLock, MutexUnlock, Threads
<1>0. c \in Threads /\ (c \in Customers <=> c \notin Barbers)
  OBVIOUS
<1>1. TypeOK'
  BY <1>0, SMTT(30) DEF TypeOK, CustomerPcs, BarberPcs
<1>2. MutualExclusion'
  BY <1>0 DEF TypeOK, MutualExclusion
<1>3. BlockedThreadsWait'
  BY <1>0 DEF TypeOK, BlockedThreadsWait, Blocked
<1>4. ServingPc'
  BY <1>0 DEF TypeOK, ServingPc
<1>5. InsidePc'
  BY <1>0 DEF TypeOK, InsidePc
<1>6. WaitingAccounted'
  BY <1>0 DEF TypeOK, WaitingAccounted, InService, InsidePc
<1>7. NoSleepingBarber'
  <2>1. OnTheirWay' = OnTheirWay
    BY <1>0 DEF TypeOK, OnTheirWay, Blocked, BlockedThreadsWait, MutualExclusion
  <2>2. QED BY <2>1 DEF NoSleepingBarber, Blocked
<1>8. NeverExits'
  BY <1>0 DEF NeverExits, TypeOK, InsidePc
<1>9. QED BY <1>1, <1>2, <1>3, <1>4, <1>5, <1>6, <1>7, <1>8

\* A woken customer has the mutex and tests his state again.
LEMMA CustomerWakesStep ==
  ASSUME IInv, NEW c \in Customers, CustomerWakes(c)
  PROVE  IInv'
<1> USE BarbershopAssumption DEF IInv, CustomerWakes, Goto, MutexLock, MutexUnlock, Threads
<1>0. c \in Threads /\ (c \in Customers <=> c \notin Barbers)
  OBVIOUS
<1>1. TypeOK'
  BY <1>0 DEF TypeOK, CustomerPcs, BarberPcs
<1>2. MutualExclusion'
  BY <1>0 DEF TypeOK, MutualExclusion
<1>3. BlockedThreadsWait'
  BY <1>0 DEF TypeOK, BlockedThreadsWait, Blocked
<1>4. ServingPc'
  BY <1>0 DEF TypeOK, ServingPc
<1>5. InsidePc'
  BY <1>0 DEF TypeOK, InsidePc
<1>6. WaitingAccounted'
  BY <1>0 DEF TypeOK, WaitingAccounted, InService, InsidePc
<1>7. NoSleepingBarber'
  <2>1. OnTheirWay' = OnTheirWay
    BY <1>0 DEF TypeOK, OnTheirWay, Blocked, BlockedThreadsWait, MutualExclusion
  <2>2. QED BY <2>1 DEF NoSleepingBarber, Blocked
<1>8. NeverExits'
  BY <1>0 DEF NeverExits, TypeOK, InsidePc
<1>9. QED BY <1>1, <1>2, <1>3, <1>4, <1>5, <1>6, <1>7, <1>8

\* Who leaves is DONE, so no chair and no barber refers to him.
LEMMA CustomerLeavesStep ==
  ASSUME IInv, NEW c \in Customers, CustomerLeaves(c)
  PROVE  IInv'
<1> USE BarbershopAssumption DEF IInv, CustomerLeaves, Goto, MutexLock, MutexUnlock, Threads
<1>0. c \in Threads /\ (c \in Customers <=> c \notin Barbers)
  OBVIOUS
<1>1. TypeOK'
  <2>1. counters' \in [total : Int, turnedAway : Int, people : Int, seat : Int]
    <3>1. CASE state[c] = "DONE"
      <4>1. counters.seat - 1 \in Int /\ counters.people - 1 \in Int
        BY DEF TypeOK
      <4>2. counters' = [counters EXCEPT !.seat = counters.seat - 1,
                                         !.people = counters.people - 1]
        BY <3>1 DEF TypeOK
      <4>3. QED BY <4>1, <4>2, Zenon DEF TypeOK
    <3>2. CASE state[c] # "DONE"
      BY <3>2 DEF TypeOK
    <3>3. QED BY <3>1, <3>2
  <2>2. exited' \in BOOLEAN
    BY DEF TypeOK
  <2>3. QED BY <1>0, <2>1, <2>2 DEF TypeOK, CustomerPcs, BarberPcs
<1>2. MutualExclusion'
  BY <1>0 DEF TypeOK, MutualExclusion
<1>3. BlockedThreadsWait'
  BY <1>0 DEF TypeOK, BlockedThreadsWait, Blocked
<1>4. ServingPc'
  BY <1>0 DEF TypeOK, ServingPc
<1>5. InsidePc'
  BY <1>0 DEF TypeOK, InsidePc
<1>6. WaitingAccounted'
  BY <1>0 DEF TypeOK, WaitingAccounted, InService, InsidePc
<1>7. NoSleepingBarber'
  <2>1. OnTheirWay' = OnTheirWay
    BY <1>0 DEF TypeOK, OnTheirWay, Blocked, BlockedThreadsWait, MutualExclusion
  <2>2. QED BY <2>1 DEF NoSleepingBarber, Blocked
<1>8. NeverExits'
  BY <1>0 DEF NeverExits, TypeOK, InsidePc
<1>9. QED BY <1>1, <1>2, <1>3, <1>4, <1>5, <1>6, <1>7, <1>8

\* The mutex is taken by a barber who starts to work.
LEMMA BarberStartsStep ==
  ASSUME IInv, NEW b \in Barbers, BarberStarts(b)
  PROVE  IInv'
<1> USE BarbershopAssumption DEF IInv, BarberStarts, Goto, MutexLock, MutexUnlock, Threads
<1>0. b \in Threads /\ (b \in Customers <=> b \notin Barbers)
  OBVIOUS
<1>1. TypeOK'
  BY <1>0 DEF TypeOK, CustomerPcs, BarberPcs
<1>2. MutualExclusion'
  BY <1>0 DEF TypeOK, MutualExclusion
<1>3. BlockedThreadsWait'
  BY <1>0 DEF TypeOK, BlockedThreadsWait, Blocked
<1>4. ServingPc'
  BY <1>0 DEF TypeOK, ServingPc
<1>5. InsidePc'
  BY <1>0 DEF TypeOK, InsidePc
<1>6. WaitingAccounted'
  BY <1>0 DEF TypeOK, WaitingAccounted, InService, InsidePc
<1>7. NoSleepingBarber'
  <2>1. OnTheirWay' = OnTheirWay
    BY <1>0 DEF TypeOK, OnTheirWay, Blocked, BlockedThreadsWait, MutualExclusion
  <2>2. QED BY <2>1 DEF NoSleepingBarber, Blocked
<1>8. NeverExits'
  BY <1>0 DEF NeverExits, TypeOK, InsidePc
<1>9. QED BY <1>1, <1>2, <1>3, <1>4, <1>5, <1>6, <1>7, <1>8

\* The mutex is taken by a barber woken from sleep.
LEMMA BarberWakesStep ==
  ASSUME IInv, NEW b \in Barbers, BarberWakes(b)
  PROVE  IInv'
<1> USE BarbershopAssumption DEF IInv, BarberWakes, Goto, MutexLock, MutexUnlock, Threads
<1>0. b \in Threads /\ (b \in Customers <=> b \notin Barbers)
  OBVIOUS
<1>1. TypeOK'
  BY <1>0 DEF TypeOK, CustomerPcs, BarberPcs
<1>2. MutualExclusion'
  BY <1>0 DEF TypeOK, MutualExclusion
<1>3. BlockedThreadsWait'
  BY <1>0 DEF TypeOK, BlockedThreadsWait, Blocked
<1>4. ServingPc'
  BY <1>0 DEF TypeOK, ServingPc
<1>5. InsidePc'
  BY <1>0 DEF TypeOK, InsidePc
<1>6. WaitingAccounted'
  BY <1>0 DEF TypeOK, WaitingAccounted, InService, InsidePc
<1>7. NoSleepingBarber'
  <2>1. OnTheirWay' = OnTheirWay
    BY <1>0 DEF TypeOK, OnTheirWay, Blocked, BlockedThreadsWait, MutualExclusion
  <2>2. QED BY <2>1 DEF NoSleepingBarber, Blocked
<1>8. NeverExits'
  BY <1>0 DEF NeverExits, TypeOK, InsidePc
<1>9. QED BY <1>1, <1>2, <1>3, <1>4, <1>5, <1>6, <1>7, <1>8

\* A barber who finds the line not empty is on his way to a customer.
LEMMA BarberFindsCustomerStep ==
  ASSUME IInv, NEW b \in Barbers, BarberFindsCustomer(b)
  PROVE  IInv'
<1> USE BarbershopAssumption DEF IInv, BarberFindsCustomer, Goto, MutexLock, MutexUnlock, Threads
<1>0. b \in Threads /\ (b \in Customers <=> b \notin Barbers)
  OBVIOUS
<1>1. TypeOK'
  BY <1>0 DEF TypeOK, CustomerPcs, BarberPcs
<1>2. MutualExclusion'
  BY <1>0 DEF TypeOK, MutualExclusion
<1>3. BlockedThreadsWait'
  BY <1>0 DEF TypeOK, BlockedThreadsWait, Blocked
<1>4. ServingPc'
  BY <1>0 DEF TypeOK, ServingPc
<1>5. InsidePc'
  BY <1>0 DEF TypeOK, InsidePc
<1>6. WaitingAccounted'
  BY <1>0 DEF TypeOK, WaitingAccounted, InService, InsidePc
<1>7. NoSleepingBarber'
  <2>1. OnTheirWay' = OnTheirWay
    BY <1>0 DEF TypeOK, OnTheirWay, Blocked, BlockedThreadsWait, MutualExclusion
  <2>2. QED BY <2>1 DEF NoSleepingBarber, Blocked
<1>8. NeverExits'
  BY <1>0 DEF NeverExits, TypeOK, InsidePc
<1>9. QED BY <1>1, <1>2, <1>3, <1>4, <1>5, <1>6, <1>7, <1>8

\* A haircut ends outside the monitor, where the barber serves his customer still.
LEMMA BarberHaircutOverStep ==
  ASSUME IInv, NEW b \in Barbers, BarberHaircutOver(b)
  PROVE  IInv'
<1> USE BarbershopAssumption DEF IInv, BarberHaircutOver, Goto, MutexLock, MutexUnlock, Threads
<1>0. b \in Threads /\ (b \in Customers <=> b \notin Barbers)
  OBVIOUS
<1>1. TypeOK'
  BY <1>0 DEF TypeOK, CustomerPcs, BarberPcs
<1>2. MutualExclusion'
  BY <1>0 DEF TypeOK, MutualExclusion
<1>3. BlockedThreadsWait'
  BY <1>0 DEF TypeOK, BlockedThreadsWait, Blocked
<1>4. ServingPc'
  BY <1>0 DEF TypeOK, ServingPc
<1>5. InsidePc'
  BY <1>0 DEF TypeOK, InsidePc
<1>6. WaitingAccounted'
  BY <1>0 DEF TypeOK, WaitingAccounted, InService, InsidePc
<1>7. NoSleepingBarber'
  <2>1. OnTheirWay' = OnTheirWay
    BY <1>0 DEF TypeOK, OnTheirWay, Blocked, BlockedThreadsWait, MutualExclusion
  <2>2. QED BY <2>1 DEF NoSleepingBarber, Blocked
<1>8. NeverExits'
  BY <1>0 DEF NeverExits, TypeOK, InsidePc
<1>9. QED BY <1>1, <1>2, <1>3, <1>4, <1>5, <1>6, <1>7, <1>8

\* The mutex is taken by a barber whose haircut is over.
LEMMA BarberReturnsStep ==
  ASSUME IInv, NEW b \in Barbers, BarberReturns(b)
  PROVE  IInv'
<1> USE BarbershopAssumption DEF IInv, BarberReturns, Goto, MutexLock, MutexUnlock, Threads
<1>0. b \in Threads /\ (b \in Customers <=> b \notin Barbers)
  OBVIOUS
<1>1. TypeOK'
  BY <1>0 DEF TypeOK, CustomerPcs, BarberPcs
<1>2. MutualExclusion'
  BY <1>0 DEF TypeOK, MutualExclusion
<1>3. BlockedThreadsWait'
  BY <1>0 DEF TypeOK, BlockedThreadsWait, Blocked
<1>4. ServingPc'
  BY <1>0 DEF TypeOK, ServingPc
<1>5. InsidePc'
  BY <1>0 DEF TypeOK, InsidePc
<1>6. WaitingAccounted'
  BY <1>0 DEF TypeOK, WaitingAccounted, InService, InsidePc
<1>7. NoSleepingBarber'
  <2>1. OnTheirWay' = OnTheirWay
    BY <1>0 DEF TypeOK, OnTheirWay, Blocked, BlockedThreadsWait, MutualExclusion
  <2>2. QED BY <2>1 DEF NoSleepingBarber, Blocked
<1>8. NeverExits'
  BY <1>0 DEF NeverExits, TypeOK, InsidePc
<1>9. QED BY <1>1, <1>2, <1>3, <1>4, <1>5, <1>6, <1>7, <1>8

-----------------------------------------------------------------------------
(* The steps that change the queues *)

\* The lists of waiters are typed and no thread is in one of them twice.
LEMMA WaitersFact == IInv => WaitersOK
BY DEF IInv, TypeOK, BlockedThreadsWait, WaitersOK

\* Sets of barbers are finite.
LEMMA OnTheirWayFinite ==
  IsFiniteSet(OnTheirWay) /\ Cardinality(OnTheirWay) \in Nat
<1>1. OnTheirWay \in SUBSET Barbers
  BY DEF OnTheirWay
<1>2. QED BY <1>1, BarbershopAssumption, FS_Subset, FS_CardinalityType

\* A new customer is the last of the line, and wakes a barber if one sleeps.
LEMMA CustomerTakesChairStep ==
  ASSUME IInv, NEW c \in Customers, CustomerTakesChair(c)
  PROVE  IInv'
<1> USE BarbershopAssumption DEF IInv, CustomerTakesChair, Goto, Threads
<1>0. c \in Threads /\ c \notin Barbers
  OBVIOUS
<1>1. /\ WaitersOK'
      /\ waiters'["C_customer"] = waiters["C_customer"]
      /\ \/ Blocked("C_barber") = {} /\ Blocked("C_barber")' = {}
         \/ \E t \in Blocked("C_barber") : Blocked("C_barber")' = Blocked("C_barber") \ {t}
  BY WaitersFact, SignalEffect DEF CondVars
<1>2. c \notin timers /\ c \notin ToSet(chairs) /\ c \notin InService
  BY DEF InsidePc, WaitingAccounted
<1>3. /\ chairs' \in Seq(Customers)
      /\ Len(chairs') = Len(chairs) + 1
      /\ ToSet(chairs') = ToSet(chairs) \cup {c}
      /\ IsInjective(chairs) => IsInjective(chairs')
      /\ Len(chairs) \in Nat
  BY <1>2, AppendElements, LenProperties DEF TypeOK
<1>4. TypeOK'
  <2>1. counters' \in [total : Int, turnedAway : Int, people : Int, seat : Int]
    <3>1. counters.people + 1 \in Int
      BY DEF TypeOK
    <3>2. counters' = [counters EXCEPT !.people = counters.people + 1]
      OBVIOUS
    <3>3. QED BY <3>1, <3>2, Zenon DEF TypeOK
  <2>2. waiters' \in [CondVars -> Seq(Threads)]
    BY <1>1 DEF WaitersOK
  <2>3. Len(chairs') <= MaxChairs
    BY <1>3
  <2>4. QED BY <1>0, <1>3, <2>1, <2>2, <2>3, SMTT(60) DEF TypeOK, CustomerPcs, BarberPcs
<1>5. MutualExclusion'
  BY <1>0 DEF TypeOK, MutualExclusion
<1>6. BlockedThreadsWait'
  <2>1. Blocked("C_barber")' \subseteq Blocked("C_barber")
    BY <1>1
  <2>2. Blocked("C_customer")' = Blocked("C_customer")
    BY <1>1 DEF Blocked
  <2>3. QED BY <1>0, <1>1, <2>1, <2>2 DEF TypeOK, BlockedThreadsWait, WaitersOK
<1>7. ServingPc'
  <2>1. chairs' # <<>>
    BY <1>3, EmptySeq
  <2>2. QED BY <1>0, <2>1 DEF TypeOK, ServingPc
<1>8. InsidePc'
  BY <1>0 DEF TypeOK, InsidePc
<1>9. WaitingAccounted'
  BY <1>0, <1>2, <1>3 DEF TypeOK, WaitingAccounted, InService
<1>10. NoSleepingBarber'
  <2>1. CASE Blocked("C_barber")' = {}
    BY <2>1 DEF NoSleepingBarber
  <2>2. CASE \E t \in Blocked("C_barber") : Blocked("C_barber")' = Blocked("C_barber") \ {t}
    <3>1. PICK t \in Blocked("C_barber") : Blocked("C_barber")' = Blocked("C_barber") \ {t}
      BY <2>2
    <3>2. t \in Barbers /\ pc[t] = "waiting" /\ t \notin OnTheirWay
      BY DEF BlockedThreadsWait, OnTheirWay
    <3>3. OnTheirWay' = OnTheirWay \cup {t}
      BY <1>0, <3>1, <3>2 DEF OnTheirWay, TypeOK
    <3>4. Cardinality(OnTheirWay') = Cardinality(OnTheirWay) + 1
      BY <3>2, <3>3, OnTheirWayFinite, FS_AddElement
    <3>5. Len(chairs) <= Cardinality(OnTheirWay)
      BY DEF NoSleepingBarber
    <3>6. Len(chairs') <= Cardinality(OnTheirWay')
      BY <3>4, <3>5, <1>3, OnTheirWayFinite
    <3>7. QED BY <3>6 DEF NoSleepingBarber
  <2>3. QED BY <1>1, <2>1, <2>2
<1>11. NeverExits'
  <2>1. timers \in SUBSET (Customers \ {c})
    BY <1>2 DEF TypeOK
  <2>2. IsFiniteSet(Customers \ {c}) /\ Cardinality(Customers \ {c}) = Cardinality(Customers) - 1
    BY FS_RemoveElement
  <2>3. Cardinality(timers) <= Cardinality(Customers) - 1
    BY <2>1, <2>2, FS_Subset
  <2>4. Cardinality(timers) \in Nat /\ Cardinality(Customers) \in Nat
    BY <2>1, <2>2, FS_Subset, FS_CardinalityType
  <2>5. ~(Cardinality(timers) >= TimerMax)
    BY <2>3, <2>4
  <2>6. QED BY <2>5 DEF NeverExits
<1>12. QED BY <1>4, <1>5, <1>6, <1>7, <1>8, <1>9, <1>10, <1>11

\* A customer not yet DONE waits, and the line stays.
LEMMA CustomerWaitsStep ==
  ASSUME IInv, NEW c \in Customers, CustomerWaits(c)
  PROVE  IInv'
<1> USE BarbershopAssumption DEF IInv, CustomerWaits, Goto, Threads
<1>0. c \in Threads /\ c \notin Barbers /\ c \notin Blocked("C_customer")
  BY DEF BlockedThreadsWait
<1>1. /\ WaitersOK'
      /\ waiters'["C_barber"] = waiters["C_barber"]
      /\ Blocked("C_customer")' = Blocked("C_customer") \cup {c}
  BY <1>0, WaitersFact, WaitEffect DEF CondVars
<1>2. owner = c /\ owner' = Nobody
  BY DEF CondWait, MutexUnlock
<1>3. Blocked("C_barber")' = Blocked("C_barber")
  BY <1>1 DEF Blocked
<1>4. TypeOK'
  BY <1>0, <1>1, <1>2 DEF TypeOK, WaitersOK, CustomerPcs, BarberPcs
<1>5. MutualExclusion'
  BY <1>0, <1>2 DEF TypeOK, MutualExclusion
<1>6. BlockedThreadsWait'
  BY <1>0, <1>1, <1>3 DEF TypeOK, BlockedThreadsWait, WaitersOK
<1>7. ServingPc' /\ InsidePc' /\ WaitingAccounted' /\ NeverExits'
  BY <1>0 DEF TypeOK, ServingPc, InsidePc, WaitingAccounted, InService, NeverExits
<1>8. NoSleepingBarber'
  <2>1. OnTheirWay' = OnTheirWay
    BY <1>0, <1>3 DEF TypeOK, OnTheirWay
  <2>2. QED BY <1>3, <2>1 DEF NoSleepingBarber
<1>9. QED BY <1>4, <1>5, <1>6, <1>7, <1>8

\* A barber goes to sleep only if the line is empty.
LEMMA BarberGoesToSleepStep ==
  ASSUME IInv, NEW b \in Barbers, BarberGoesToSleep(b)
  PROVE  IInv'
<1> USE BarbershopAssumption DEF IInv, BarberGoesToSleep, Goto, Threads
<1>0. b \in Threads /\ b \notin Customers /\ b \notin Blocked("C_barber")
  BY DEF BlockedThreadsWait
<1>1. /\ WaitersOK'
      /\ waiters'["C_customer"] = waiters["C_customer"]
      /\ Blocked("C_barber")' = Blocked("C_barber") \cup {b}
  BY <1>0, WaitersFact, WaitEffect DEF CondVars
<1>2. owner = b /\ owner' = Nobody
  BY DEF CondWait, MutexUnlock
<1>3. Blocked("C_customer")' = Blocked("C_customer")
  BY <1>1 DEF Blocked
<1>4. TypeOK'
  BY <1>0, <1>1, <1>2 DEF TypeOK, WaitersOK, CustomerPcs, BarberPcs
<1>5. MutualExclusion'
  BY <1>0, <1>2 DEF TypeOK, MutualExclusion
<1>6. BlockedThreadsWait'
  BY <1>0, <1>1, <1>3 DEF TypeOK, BlockedThreadsWait, WaitersOK
<1>7. ServingPc' /\ InsidePc' /\ WaitingAccounted' /\ NeverExits'
  BY <1>0 DEF TypeOK, ServingPc, InsidePc, WaitingAccounted, InService, NeverExits
<1>8. NoSleepingBarber'
  <2>1. Len(chairs') = 0
    BY EmptySeq
  <2>2. Cardinality(OnTheirWay)' \in Nat
    <3>1. OnTheirWay' \in SUBSET Barbers
      BY DEF OnTheirWay
    <3>2. QED BY <3>1, FS_Subset, FS_CardinalityType
  <2>3. QED BY <2>1, <2>2 DEF NoSleepingBarber
<1>9. QED BY <1>4, <1>5, <1>6, <1>7, <1>8

\* The first of the line is taken by one barber, and by no other.
LEMMA BarberStartsHaircutStep ==
  ASSUME IInv, NEW b \in Barbers, BarberStartsHaircut(b)
  PROVE  IInv'
<1> USE BarbershopAssumption DEF IInv, BarberStartsHaircut, Goto, MutexUnlock, Threads
<1>0. b \in Threads /\ b \notin Customers /\ chairs # <<>>
  BY DEF ServingPc
<1> DEFINE c == Head(chairs)
<1>1. /\ c \in Customers /\ c \in ToSet(chairs)
      /\ chairs' \in Seq(Customers)
      /\ Len(chairs') = Len(chairs) - 1
      /\ IsInjective(chairs')
      /\ ToSet(chairs') = ToSet(chairs) \ {c}
      /\ Len(chairs) \in Nat
  <2>1. chairs \in Seq(Customers) /\ IsInjective(chairs)
    BY DEF TypeOK, WaitingAccounted
  <2>2. chairs' = Tail(chairs)
    BY <1>0
  <2>3. QED BY <1>0, <2>1, <2>2, TailElements, LenProperties
<1>2. /\ serving' = [serving EXCEPT ![b] = c]
      /\ serving[b] = Nobody /\ c # Nobody
  BY <1>0, <1>1 DEF ServingPc
<1> HIDE DEF c
<1>3. TypeOK'
  <2>1. counters' \in [total : Int, turnedAway : Int, people : Int, seat : Int]
    BY <1>0 DEF TypeOK
  <2>2. Len(chairs') <= MaxChairs
    BY <1>1 DEF TypeOK
  <2>3. serving' \in [Barbers -> Customers \cup {Nobody}]
    BY <1>1, <1>2 DEF TypeOK
  <2>4. QED BY <1>0, <1>1, <2>1, <2>2, <2>3 DEF TypeOK, CustomerPcs, BarberPcs
<1>4. MutualExclusion'
  BY <1>0 DEF TypeOK, MutualExclusion
<1>5. BlockedThreadsWait'
  BY <1>0 DEF TypeOK, BlockedThreadsWait, Blocked
<1>6. ServingPc'
  <2>1. ASSUME NEW a \in Barbers, a # b PROVE pc[a] # "seating"
    BY <1>0, <2>1 DEF MutualExclusion
  <2>2. QED BY <1>0, <1>2, <2>1 DEF TypeOK, ServingPc
<1>7. InsidePc'
  BY <1>0 DEF TypeOK, InsidePc
<1>8. WaitingAccounted'
  <2>1. InService' = InService \cup {c}
    BY <1>1, <1>2 DEF InService, TypeOK
  <2>2. c \notin InService
    BY <1>1 DEF WaitingAccounted
  <2>3. \A a \in Barbers : serving[a] # c
    BY <1>2, <2>2 DEF InService
  <2>4. \A x, y \in Barbers : x # y /\ serving'[x] = serving'[y] => serving'[x] = Nobody
    BY <1>2, <2>3 DEF WaitingAccounted, TypeOK
  <2>5. QED BY <1>1, <2>1, <2>2, <2>4 DEF WaitingAccounted
<1>9. NoSleepingBarber'
  <2>1. OnTheirWay' = OnTheirWay \ {b} /\ b \in OnTheirWay
    BY <1>0 DEF TypeOK, OnTheirWay, Blocked
  <2>2. Cardinality(OnTheirWay') = Cardinality(OnTheirWay) - 1
    BY <2>1, OnTheirWayFinite, FS_RemoveElement
  <2>3. QED BY <1>1, <2>2, OnTheirWayFinite DEF NoSleepingBarber, Blocked
<1>10. NeverExits'
  BY <1>0 DEF NeverExits
<1>11. QED BY <1>3, <1>4, <1>5, <1>6, <1>7, <1>8, <1>9, <1>10

\* The customer a barber has finished is DONE and with no barber.
LEMMA BarberFinishesStep ==
  ASSUME IInv, NEW b \in Barbers, BarberFinishes(b)
  PROVE  IInv'
<1> USE BarbershopAssumption DEF IInv, BarberFinishes, Goto, Threads
<1>0. b \in Threads /\ b \notin Customers
  OBVIOUS
<1> DEFINE c == serving[b]
<1>1. /\ WaitersOK'
      /\ waiters'["C_barber"] = waiters["C_barber"]
      /\ Blocked("C_customer")' \subseteq Blocked("C_customer")
  <2>1. WaitersOK /\ CondSignal("C_customer")
    BY WaitersFact
  <2>2. QED BY <2>1, SignalEffect DEF CondVars
<1>2. Blocked("C_barber")' = Blocked("C_barber")
  BY <1>1 DEF Blocked
<1>3. /\ c \in Customers /\ c # Nobody
      /\ serving' = [serving EXCEPT ![b] = Nobody]
      /\ state' = [state EXCEPT ![c] = "DONE"]
      /\ \A a \in Barbers : a # b => serving[a] # c
  BY DEF ServingPc, TypeOK, WaitingAccounted
<1> HIDE DEF c
<1>4. TypeOK'
  <2>1. waiters' \in [CondVars -> Seq(Threads)]
    BY <1>1 DEF WaitersOK
  <2>2. QED BY <1>0, <1>3, <2>1 DEF TypeOK, CustomerPcs, BarberPcs
<1>5. MutualExclusion'
  BY <1>0 DEF TypeOK, MutualExclusion
<1>6. BlockedThreadsWait'
  BY <1>0, <1>1, <1>2 DEF TypeOK, BlockedThreadsWait, WaitersOK
<1>7. ServingPc'
  BY <1>0, <1>3 DEF TypeOK, ServingPc
<1>8. InsidePc'
  <2>1. state[c] = "WAITING"
    BY <1>3 DEF WaitingAccounted, InService, c
  <2>2. QED BY <1>0, <1>3, <2>1 DEF TypeOK, InsidePc
<1>9. WaitingAccounted'
  <2>1. c \in InService /\ InService' = InService \ {c}
    BY <1>3 DEF InService, TypeOK, c
  <2>2. \A x, y \in Barbers : x # y /\ serving'[x] = serving'[y] => serving'[x] = Nobody
    BY <1>3 DEF WaitingAccounted, TypeOK
  <2>3. c \notin ToSet(chairs)
    BY <2>1 DEF WaitingAccounted
  <2>4. QED BY <1>3, <2>1, <2>2, <2>3 DEF WaitingAccounted, TypeOK
<1>10. NoSleepingBarber'
  <2>1. OnTheirWay' = OnTheirWay \cup {b} /\ b \notin OnTheirWay
    BY <1>0, <1>2 DEF TypeOK, OnTheirWay
  <2>2. Cardinality(OnTheirWay') = Cardinality(OnTheirWay) + 1
    BY <2>1, OnTheirWayFinite, FS_AddElement
  <2>3. Len(chairs) \in Nat
    BY LenProperties DEF TypeOK
  <2>4. QED BY <1>2, <2>2, <2>3, OnTheirWayFinite DEF NoSleepingBarber
<1>11. NeverExits'
  BY DEF NeverExits
<1>12. QED BY <1>4, <1>5, <1>6, <1>7, <1>8, <1>9, <1>10, <1>11

\* A thread that wakes without a signal loses no signal meant for another.
LEMMA WakeupWithoutSignalStep ==
  ASSUME IInv, NEW cv \in CondVars, WakeupWithoutSignal(cv)
  PROVE  IInv'
<1> USE BarbershopAssumption DEF IInv, WakeupWithoutSignal, Threads
<1>1. PICK i \in DOMAIN waiters[cv] : Unblock(cv, i)
  BY DEF SpuriousWakeup
<1>2. /\ WaitersOK'
      /\ \A d \in CondVars \ {cv} : waiters'[d] = waiters[d]
      /\ \E t \in Blocked(cv) : Blocked(cv)' = Blocked(cv) \ {t}
  BY <1>1, WaitersFact, UnblockEffect
<1>3. /\ Blocked("C_barber")' \subseteq Blocked("C_barber")
      /\ Blocked("C_customer")' \subseteq Blocked("C_customer")
  BY <1>2 DEF CondVars, Blocked
<1>4. owner' = owner
  BY DEF SpuriousWakeup
<1>5. TypeOK'
  BY <1>2, <1>4 DEF TypeOK, WaitersOK
<1>6. BlockedThreadsWait'
  BY <1>2, <1>3 DEF BlockedThreadsWait, WaitersOK
<1>7. /\ MutualExclusion' /\ ServingPc' /\ InsidePc' /\ WaitingAccounted'
      /\ NeverExits'
  BY <1>4 DEF MutualExclusion, ServingPc, InsidePc, WaitingAccounted, InService,
              NeverExits
<1>8. NoSleepingBarber'
  <2>1. OnTheirWay \subseteq OnTheirWay' /\ OnTheirWay' \in SUBSET Barbers
    BY <1>3 DEF OnTheirWay
  <2>2. Cardinality(OnTheirWay) <= Cardinality(OnTheirWay')
    <3>1. IsFiniteSet(OnTheirWay')
      BY <2>1, FS_Subset
    <3>2. OnTheirWay \in SUBSET OnTheirWay'
      BY <2>1
    <3>3. QED BY <3>1, <3>2, FS_Subset
  <2>3. Cardinality(OnTheirWay') \in Nat
    BY <2>1, FS_Subset, FS_CardinalityType
  <2>4. Len(chairs) \in Nat
    BY LenProperties DEF TypeOK
  <2>5. QED BY <1>3, <2>2, <2>3, <2>4, OnTheirWayFinite DEF NoSleepingBarber
<1>9. QED BY <1>5, <1>6, <1>7, <1>8

-----------------------------------------------------------------------------
(* The invariant *)

\* The invariant holds before the threads run.
LEMMA InitEstablishes == Init => IInv
<1> SUFFICES ASSUME Init PROVE IInv
  OBVIOUS
<1> USE BarbershopAssumption DEF Init, Threads
<1>1. <<>> \in Seq(Threads) /\ <<>> \in Seq(Customers) /\ Len(<<>>) = 0
  BY EmptySeq
<1>2. TypeOK
  <2>1. counters \in [total : Int, turnedAway : Int, people : Int, seat : Int]
    OBVIOUS
  <2>2. waiters \in [CondVars -> Seq(Threads)]
    BY <1>1
  <2>3. /\ pc \in [Threads -> CustomerPcs \cup BarberPcs]
        /\ \A c \in Customers : pc[c] \in CustomerPcs
        /\ \A b \in Barbers : pc[b] \in BarberPcs
    BY DEF CustomerPcs, BarberPcs
  <2>4. chairs \in Seq(Customers) /\ Len(chairs) <= MaxChairs
    <3> HIDE DEF Threads
    <3>1. QED BY <1>1
  <2>5. /\ state \in [Customers -> {"CHECKING", "WAITING", "DONE"}]
        /\ serving \in [Barbers -> Customers \cup {Nobody}]
        /\ hasSlept \in [Barbers -> BOOLEAN]
        /\ timers \subseteq Customers /\ exited \in BOOLEAN
    OBVIOUS
  <2>6. QED BY <2>1, <2>2, <2>3, <2>4, <2>5 DEF TypeOK
<1>3. MutualExclusion /\ ServingPc /\ InsidePc /\ NeverExits
  BY DEF MutualExclusion, ServingPc, InsidePc, NeverExits
<1>4. \A cv \in CondVars : Blocked(cv) = {}
  BY DEF Blocked, ToSet
<1>5. BlockedThreadsWait
  BY <1>4 DEF BlockedThreadsWait, CondVars, IsInjective
<1>6. WaitingAccounted
  BY DEF WaitingAccounted, InService, ToSet, IsInjective
<1>7. NoSleepingBarber
  BY <1>4 DEF NoSleepingBarber, CondVars
<1>8. QED BY <1>2, <1>3, <1>5, <1>6, <1>7 DEF IInv

\* Every step preserves the invariant: one lemma per action.
LEMMA StepPreserves == IInv /\ [Next]_vars => IInv'
<1> SUFFICES ASSUME IInv, [Next]_vars PROVE IInv'
  OBVIOUS
<1>1. ASSUME NEW c \in Customers, CustomerLocks(c) \/ CustomerRuns(c) PROVE IInv'
  BY <1>1, CustomerEntersStep, CustomerWakesStep, CustomerArrivesStep,
     CustomerTakesChairStep, CustomerTurnedAwayStep, CustomerWaitsStep,
     CustomerLeavesStep DEF CustomerLocks, CustomerRuns
<1>2. ASSUME NEW b \in Barbers, BarberLocks(b) \/ BarberRuns(b) PROVE IInv'
  BY <1>2, BarberStartsStep, BarberWakesStep, BarberReturnsStep,
     BarberGoesToSleepStep, BarberFindsCustomerStep, BarberStartsHaircutStep,
     BarberHaircutOverStep, BarberFinishesStep DEF BarberLocks, BarberRuns
<1>3. ASSUME NEW cv \in CondVars, WakeupWithoutSignal(cv) PROVE IInv'
  BY <1>3, WakeupWithoutSignalStep
<1>4. CASE UNCHANGED vars
  BY <1>4 DEF vars, IInv, TypeOK, MutualExclusion, BlockedThreadsWait, Blocked,
     ServingPc, InsidePc, WaitingAccounted, InService, NoSleepingBarber,
     OnTheirWay, NeverExits
<1>5. QED BY <1>1, <1>2, <1>3, <1>4 DEF Next

\* Every reachable state of the monitor satisfies the inductive invariant.
THEOREM Invariant == Spec => []IInv
<1>1. QED BY InitEstablishes, StepPreserves, PTL DEF Spec

\* The types are right and the queue never outgrows the chairs (the guard of
\* customer() and the growth in enqueue() are two steps of the same thread).
THEOREM TypeCorrect == Spec => []TypeOK
<1>1. IInv => TypeOK
  BY DEF IInv
<1>2. QED BY <1>1, Invariant, PTL

\* Each waiting customer has exactly one chair or exactly one barber.
THEOREM CustomersAccountedFor == Spec => []WaitingAccounted
<1>1. IInv => WaitingAccounted
  BY DEF IInv
<1>2. QED BY <1>1, Invariant, PTL

\* No barber sleeps through a customer's signal, for any number of barbers.
THEOREM BarbersDoNotOversleep == Spec => []NoSleepingBarber
<1>1. IInv => NoSleepingBarber
  BY DEF IInv
<1>2. QED BY <1>1, Invariant, PTL

\* The error exits of barber() and of the statistics timer are unreachable.
THEOREM ErrorExitsUnreachable == Spec => []NeverExits
<1>1. IInv => NeverExits
  BY DEF IInv
<1>2. QED BY <1>1, Invariant, PTL

-----------------------------------------------------------------------------
(* Refinement *)

\* What the mapped state of the shop needs of the invariant.
LEMMA ShopFacts ==
  ASSUME IInv
  PROVE  /\ \A c \in Customers : pc[c] = "entering" => c \notin ShopView!Inside
         /\ ShopView!InLine = ToSet(chairs)
         /\ ShopView!InSeat = InService
         /\ \A b \in Barbers : pc[b] = "finishing" =>
              serving[b] \in Customers /\ pc[serving[b]] \in {"testing", "waiting"}
<1>1. ShopView!InLine = ToSet(chairs) /\ ShopView!InSeat = InService
  BY DEF ShopView!InLine, ShopView!InSeat, ToSet, InService
<1>2. ASSUME NEW c \in Customers, pc[c] = "entering" PROVE c \notin ShopView!Inside
  <2>1. state[c] = "CHECKING"
    BY <1>2 DEF IInv, InsidePc
  <2>2. c \notin ToSet(chairs) \cup InService
    BY <2>1 DEF IInv, WaitingAccounted
  <2>3. c \notin Finished
    BY <2>1 DEF Finished
  <2>4. QED BY <1>1, <2>2, <2>3 DEF ShopView!Inside
<1>3. ASSUME NEW b \in Barbers, pc[b] = "finishing"
      PROVE  serving[b] \in Customers /\ pc[serving[b]] \in {"testing", "waiting"}
  <2>1. serving[b] # Nobody
    BY <1>3 DEF IInv, ServingPc
  <2>2. serving[b] \in Customers /\ serving[b] \in InService
    BY <2>1 DEF IInv, TypeOK, InService
  <2>3. QED BY <2>2 DEF IInv, WaitingAccounted, InsidePc
<1>4. QED BY <1>1, <1>2, <1>3

\* A step of a customer is a step of the shop or invisible in it.
LEMMA CustomerRefines ==
  ASSUME IInv, NEW c \in Customers, CustomerLocks(c) \/ CustomerRuns(c)
  PROVE  [ShopView!Next]_ShopView!svars
<1> USE BarbershopAssumption DEF IInv, TypeOK, Goto, Threads, ShopView!svars
<1>1. CASE CustomerArrives(c)
  BY <1>1 DEF CustomerArrives, Finished
<1>2. CASE CustomerEnters(c)
  BY <1>2 DEF CustomerEnters, Finished
<1>3. CASE CustomerWakes(c)
  BY <1>3 DEF CustomerWakes, Finished
<1>4. CASE CustomerTurnedAway(c)
  BY <1>4 DEF CustomerTurnedAway, InsidePc, Finished
<1>5. CASE CustomerWaits(c)
  BY <1>5 DEF CustomerWaits, Finished
<1>6. CASE CustomerTakesChair(c)
  <2>1. Finished' = Finished
    BY <1>6 DEF CustomerTakesChair, InsidePc, Finished
  <2>2. ShopView!SitsDown(c)
    BY <1>6, <2>1, ShopFacts DEF CustomerTakesChair, ShopView!SitsDown
  <2>3. QED BY <2>2 DEF ShopView!Next
<1>7. CASE CustomerLeaves(c)
  <2>1. CASE state[c] = "DONE"
    <3>1. c \in Finished /\ Finished' = Finished \ {c}
      BY <1>7, <2>1 DEF CustomerLeaves, Finished
    <3>2. ShopView!Leaves(c)
      BY <1>7, <3>1 DEF CustomerLeaves, ShopView!Leaves
    <3>3. QED BY <3>2 DEF ShopView!Next
  <2>2. CASE state[c] # "DONE"
    BY <1>7, <2>2 DEF CustomerLeaves, Finished
  <2>3. QED BY <2>1, <2>2
<1>8. QED BY <1>1, <1>2, <1>3, <1>4, <1>5, <1>6, <1>7 DEF CustomerLocks, CustomerRuns

\* So is a step of a barber.
LEMMA BarberRefines ==
  ASSUME IInv, NEW b \in Barbers, BarberLocks(b) \/ BarberRuns(b)
  PROVE  [ShopView!Next]_ShopView!svars
<1> USE BarbershopAssumption DEF IInv, TypeOK, Goto, Threads, ShopView!svars
<1>1. CASE BarberStarts(b)
  BY <1>1 DEF BarberStarts, Finished
<1>2. CASE BarberWakes(b)
  BY <1>2 DEF BarberWakes, Finished
<1>3. CASE BarberReturns(b)
  BY <1>3 DEF BarberReturns, Finished
<1>4. CASE BarberGoesToSleep(b)
  BY <1>4 DEF BarberGoesToSleep, Finished
<1>5. CASE BarberFindsCustomer(b)
  BY <1>5 DEF BarberFindsCustomer, Finished
<1>6. CASE BarberHaircutOver(b)
  BY <1>6 DEF BarberHaircutOver, Finished
<1>7. CASE BarberStartsHaircut(b)
  <2>1. chairs # <<>> /\ serving[b] = Nobody
    BY <1>7 DEF BarberStartsHaircut, ServingPc
  <2>2. Finished' = Finished
    BY <1>7 DEF BarberStartsHaircut, Finished
  <2>3. ShopView!StartsHaircut(b)
    BY <1>7, <2>1, <2>2 DEF BarberStartsHaircut, ShopView!StartsHaircut
  <2>4. QED BY <2>3 DEF ShopView!Next
<1>8. CASE BarberFinishes(b)
  <2>1. serving[b] \in Customers /\ pc[serving[b]] \in {"testing", "waiting"}
    BY <1>8, ShopFacts DEF BarberFinishes
  <2>2. Finished' = Finished \cup {serving[b]}
    BY <1>8, <2>1 DEF BarberFinishes, Finished
  <2>3. serving[b] # Nobody
    BY <2>1
  <2>4. ShopView!FinishesHaircut(b)
    BY <1>8, <2>2, <2>3 DEF BarberFinishes, ShopView!FinishesHaircut
  <2>5. QED BY <2>4 DEF ShopView!Next
<1>9. QED BY <1>1, <1>2, <1>3, <1>4, <1>5, <1>6, <1>7, <1>8 DEF BarberLocks, BarberRuns

\* The monitor implements the abstract shop: customers are served in order of
\* arrival, sit in one place at a time and leave only after their haircut, under
\* any wakeup policy.
THEOREM Implements == Spec => ImplementsShop
<1>1. Init => ShopView!Init
  BY DEF Init, ShopView!Init, Finished
<1>2. IInv /\ [Next]_vars => [ShopView!Next]_ShopView!svars
  <2> SUFFICES ASSUME IInv, [Next]_vars PROVE [ShopView!Next]_ShopView!svars
    OBVIOUS
  <2>1. CASE UNCHANGED vars
    BY <2>1 DEF vars, ShopView!svars, Finished
  <2>2. ASSUME NEW cv \in CondVars, WakeupWithoutSignal(cv)
        PROVE  [ShopView!Next]_ShopView!svars
    BY <2>2 DEF WakeupWithoutSignal, ShopView!svars, Finished
  <2>3. QED BY <2>1, <2>2, CustomerRefines, BarberRefines DEF Next
<1>3. QED BY <1>1, <1>2, Invariant, PTL DEF Spec, ImplementsShop, ShopView!Safety

-----------------------------------------------------------------------------
(* Counters *)

\* At every moment, and not only when time passes: the people counter is the
\* number of customers inside, the seat counter that of customers in a haircut
\* or on their way out.
Busy == {b \in Barbers : serving[b] # Nobody}
DoneInside == {c \in timers : state[c] = "DONE"}

CountsKept ==
  /\ counters.people = Cardinality(timers)
  /\ counters.seat = Cardinality(Busy) + Cardinality(DoneInside)
  /\ \A c \in timers : state[c] # "CHECKING"

\* The sets that are counted are finite.
LEMMA CountedFinite ==
  ASSUME TypeOK
  PROVE  /\ IsFiniteSet(timers) /\ IsFiniteSet(Busy) /\ IsFiniteSet(DoneInside)
         /\ Cardinality(timers) \in Nat /\ Cardinality(Busy) \in Nat
         /\ Cardinality(DoneInside) \in Nat
<1>1. timers \subseteq Customers /\ Busy \subseteq Barbers /\ DoneInside \subseteq Customers
  BY DEF TypeOK, Busy, DoneInside
<1>2. QED BY <1>1, BarbershopAssumption, FS_Subset, FS_CardinalityType

\* A step that changes nothing that is counted.
LEMMA SameCounts ==
  ASSUME CountsKept, UNCHANGED <<serving, timers>>, \A c \in timers : state'[c] = state[c],
         counters'.people = counters.people, counters'.seat = counters.seat
  PROVE  CountsKept'
<1>1. Busy' = Busy /\ DoneInside' = DoneInside
  BY DEF Busy, DoneInside
<1>2. QED BY <1>1 DEF CountsKept

\* A customer who sits down is one more inside.
LEMMA TakesChairCounts ==
  ASSUME IInv, CountsKept, NEW c \in Customers, CustomerTakesChair(c)
  PROVE  CountsKept'
<1>1. /\ TypeOK /\ pc[c] = "entering" /\ timers' = timers \cup {c} /\ UNCHANGED serving
      /\ state' = [state EXCEPT ![c] = "WAITING"]
      /\ counters' = [counters EXCEPT !.people = @ + 1]
  BY DEF CustomerTakesChair, IInv
<1>2. c \notin timers /\ timers \subseteq Customers
  BY <1>1 DEF IInv, InsidePc, TypeOK
<1>3. counters'.people = counters.people + 1 /\ counters'.seat = counters.seat
  BY <1>1 DEF TypeOK
<1>4. Busy' = Busy
  BY <1>1 DEF Busy
<1>5. state'[c] = "WAITING" /\ \A d \in timers : state'[d] = state[d]
  BY <1>1, <1>2 DEF TypeOK
<1>6. DoneInside' = DoneInside
  BY <1>1, <1>5 DEF DoneInside
<1>7. Cardinality(timers') = Cardinality(timers) + 1
  BY <1>1, <1>2, CountedFinite, FS_AddElement
<1>8. QED BY <1>1, <1>3, <1>4, <1>5, <1>6, <1>7 DEF CountsKept

\* A customer who leaves is one less inside, and no longer on the way out.
LEMMA LeavesCounts ==
  ASSUME IInv, CountsKept, NEW c \in Customers, CustomerLeaves(c)
  PROVE  CountsKept'
<1>1. /\ TypeOK /\ pc[c] = "testing" /\ state[c] # "WAITING" /\ timers' = timers \ {c}
      /\ UNCHANGED <<serving, state>>
  BY DEF CustomerLeaves, IInv
<1>2. c \in timers /\ state[c] = "DONE"
  BY <1>1 DEF IInv, InsidePc, CountsKept, TypeOK
<1>3. counters'.people = counters.people - 1 /\ counters'.seat = counters.seat - 1
  BY <1>1, <1>2 DEF CustomerLeaves, TypeOK
<1>4. Busy' = Busy /\ DoneInside' = DoneInside \ {c} /\ c \in DoneInside
  BY <1>1, <1>2 DEF Busy, DoneInside
<1>5. Cardinality(timers') = Cardinality(timers) - 1
  BY <1>1, <1>2, CountedFinite, FS_RemoveElement
<1>6. Cardinality(DoneInside') = Cardinality(DoneInside) - 1
  BY <1>1, <1>4, CountedFinite, FS_RemoveElement
<1>7. \A d \in timers' : state'[d] # "CHECKING"
  BY <1>1 DEF CountsKept
<1>8. QED BY <1>1, <1>3, <1>4, <1>5, <1>6, <1>7, CountedFinite DEF CountsKept

\* A haircut that starts takes a seat.
LEMMA StartsHaircutCounts ==
  ASSUME IInv, CountsKept, NEW b \in Barbers, BarberStartsHaircut(b)
  PROVE  CountsKept'
<1>1. /\ TypeOK /\ chairs # <<>> /\ serving[b] = Nobody
  BY DEF BarberStartsHaircut, IInv, ServingPc
<1>2. /\ serving' = [serving EXCEPT ![b] = Head(chairs)] /\ UNCHANGED <<timers, state>>
      /\ counters' = [counters EXCEPT !.seat = @ + 1]
  BY <1>1 DEF BarberStartsHaircut
<1>3. Head(chairs) # Nobody
  BY <1>1, BarbershopAssumption, TailElements DEF TypeOK, Threads
<1>4. Busy' = Busy \cup {b} /\ b \notin Busy
  BY <1>1, <1>2, <1>3 DEF Busy, TypeOK
<1>5. DoneInside' = DoneInside
  BY <1>2 DEF DoneInside
<1>6. counters'.people = counters.people /\ counters'.seat = counters.seat + 1
  BY <1>1, <1>2 DEF TypeOK
<1>7. Cardinality(Busy') = Cardinality(Busy) + 1
  BY <1>1, <1>4, CountedFinite, FS_AddElement
<1>8. QED BY <1>1, <1>2, <1>5, <1>6, <1>7, CountedFinite DEF CountsKept

\* A finished haircut leaves the customer on the way out: the sum is the same.
LEMMA FinishesCounts ==
  ASSUME IInv, CountsKept, NEW b \in Barbers, BarberFinishes(b)
  PROVE  CountsKept'
<1> DEFINE c == serving[b]
<1>1. /\ TypeOK /\ c # Nobody /\ c \in Customers
      /\ state' = [state EXCEPT ![c] = "DONE"] /\ serving' = [serving EXCEPT ![b] = Nobody]
      /\ UNCHANGED <<timers, counters>>
  BY DEF BarberFinishes, IInv, ServingPc, TypeOK
<1>2. state[c] = "WAITING" /\ c \in timers
  <2>1. c \in InService
    BY <1>1 DEF InService
  <2>2. QED BY <1>1, <2>1 DEF IInv, WaitingAccounted, InsidePc
<1>3. Busy' = Busy \ {b} /\ b \in Busy
  BY <1>1 DEF Busy, TypeOK
<1> HIDE DEF c
<1>4. timers \subseteq Customers /\ state \in [Customers -> {"CHECKING", "WAITING", "DONE"}]
  BY <1>1 DEF TypeOK
<1>5. DoneInside' = DoneInside \cup {c} /\ c \notin DoneInside
  BY <1>1, <1>2, <1>4 DEF DoneInside
<1>6. Cardinality(Busy') = Cardinality(Busy) - 1
  BY <1>1, <1>3, CountedFinite, FS_RemoveElement
<1>7. Cardinality(DoneInside') = Cardinality(DoneInside) + 1
  BY <1>1, <1>5, CountedFinite, FS_AddElement
<1>8. \A d \in timers' : state'[d] # "CHECKING"
  BY <1>1, <1>4 DEF CountsKept
<1>9. QED BY <1>1, <1>6, <1>7, <1>8, CountedFinite DEF CountsKept

\* The counters are kept by every step.
LEMMA CountsNext == IInv /\ CountsKept /\ [Next]_vars => CountsKept'
<1> SUFFICES ASSUME IInv, CountsKept, [Next]_vars PROVE CountsKept'
  OBVIOUS
<1>1. ASSUME NEW c \in Customers, CustomerLocks(c) \/ CustomerRuns(c) PROVE CountsKept'
  <2>1. CASE CustomerEnters(c)
    <3>1. c \notin timers
      BY <2>1 DEF CustomerEnters, IInv, InsidePc
    <3>2. counters'.people = counters.people /\ counters'.seat = counters.seat
      BY <2>1 DEF CustomerEnters, IInv, TypeOK
    <3>3. \A d \in timers : state'[d] = state[d]
      BY <2>1, <3>1 DEF CustomerEnters, IInv, TypeOK
    <3>4. QED BY <2>1, <3>2, <3>3, SameCounts DEF CustomerEnters
  <2>2. CASE CustomerTurnedAway(c)
    <3>1. counters'.people = counters.people /\ counters'.seat = counters.seat
      BY <2>2 DEF CustomerTurnedAway, IInv, TypeOK
    <3>2. QED BY <2>2, <3>1, SameCounts DEF CustomerTurnedAway
  <2>3. CASE CustomerArrives(c) \/ CustomerWaits(c) \/ CustomerWakes(c)
    BY <2>3, SameCounts DEF CustomerArrives, CustomerWaits, CustomerWakes
  <2>4. QED BY <1>1, <2>1, <2>2, <2>3, TakesChairCounts, LeavesCounts
    DEF CustomerLocks, CustomerRuns
<1>2. ASSUME NEW b \in Barbers, BarberLocks(b) \/ BarberRuns(b) PROVE CountsKept'
  <2>1. CASE \/ BarberStarts(b) \/ BarberWakes(b) \/ BarberReturns(b) \/ BarberGoesToSleep(b)
             \/ BarberFindsCustomer(b) \/ BarberHaircutOver(b)
    BY <2>1, SameCounts
       DEF BarberStarts, BarberWakes, BarberReturns, BarberGoesToSleep, BarberFindsCustomer,
           BarberHaircutOver
  <2>2. QED BY <1>2, <2>1, StartsHaircutCounts, FinishesCounts DEF BarberLocks, BarberRuns
<1>3. ASSUME NEW cv \in CondVars, WakeupWithoutSignal(cv) PROVE CountsKept'
  BY <1>3, SameCounts DEF WakeupWithoutSignal
<1>4. CASE UNCHANGED vars
  BY <1>4, SameCounts DEF vars
<1>5. QED BY <1>1, <1>2, <1>3, <1>4 DEF Next

\* The counters never drift, under any wakeup policy and for any number of
\* barbers.
THEOREM CountersKept == Spec => []CountsKept
<1>1. Init => CountsKept
  <2> SUFFICES ASSUME Init PROVE CountsKept
    OBVIOUS
  <2>1. timers = {} /\ Busy = {} /\ DoneInside = {}
    BY DEF Init, Busy, DoneInside
  <2>2. counters.people = 0 /\ counters.seat = 0
    BY DEF Init
  <2>3. QED BY <2>1, <2>2, FS_EmptySet DEF CountsKept
<1>2. QED BY <1>1, CountsNext, Invariant, PTL DEF Spec

-----------------------------------------------------------------------------
(* One barber, and signals in order of arrival *)

\* misc.c wakes the thread that has waited longest, and homework.c starts
\* BARBER_COUNT = 1 barber.  Each is needed: shop_stranded.cfg shows a finished
\* customer left blocked without the first, and two barbers can finish in
\* another order than they started.
OneInOrder == FifoWakeup /\ ~SpuriousWakeups /\ \E b : Barbers = {b}

\* The customers from the barber's seat to the last chair.
Line(b) == (IF serving[b] = Nobody THEN <<>> ELSE <<serving[b]>>) \o chairs

\* Who has sat down and not yet called cond_wait.
Joining(c) == pc[c] = "testing" /\ state[c] = "WAITING"

\* The customers wait on C_customer in the order in which they will be served.
LineIsWaiters ==
  \A b \in Barbers :
    /\ (\A c \in Customers : ~Joining(c)) => Line(b) = waiters["C_customer"]
    /\ \A c \in Customers : Joining(c) => Line(b) = Append(waiters["C_customer"], c)

\* What is in the line.
LEMMA LineElements ==
  ASSUME TypeOK, NEW b \in Barbers
  PROVE  /\ Line(b) \in Seq(Customers)
         /\ ToSet(chairs) \subseteq ToSet(Line(b))
         /\ serving[b] # Nobody => serving[b] \in ToSet(Line(b))
         /\ ToSet(Line(b)) \subseteq ToSet(chairs) \cup InService
<1>1. chairs \in Seq(Customers) /\ serving[b] \in Customers \cup {Nobody}
  BY DEF TypeOK
<1>2. Len(chairs) \in Nat /\ DOMAIN chairs = 1..Len(chairs)
  BY <1>1, LenProperties
<1>3. CASE serving[b] = Nobody
  <2>1. Line(b) = chairs
    BY <1>1, <1>3 DEF Line
  <2>2. QED BY <1>1, <1>3, <2>1
<1>4. CASE serving[b] # Nobody
  <2> DEFINE s == <<serving[b]>> \o chairs
  <2>1. /\ <<serving[b]>> \in Seq(Customers) /\ Len(<<serving[b]>>) = 1
        /\ <<serving[b]>>[1] = serving[b]
    BY <1>1, <1>4
  <2>2. /\ s \in Seq(Customers) /\ Len(s) = 1 + Len(chairs)
        /\ s[1] = serving[b]
        /\ \A i \in 1..Len(chairs) : s[i + 1] = chairs[i]
    BY <1>1, <1>2, <2>1, ConcatProperties
  <2> HIDE DEF s
  <2>3. DOMAIN s = 1..(1 + Len(chairs))
    BY <2>2, LenProperties
  <2>4. serving[b] \in ToSet(s)
    BY <1>2, <2>2, <2>3 DEF ToSet
  <2>5. ASSUME NEW x \in ToSet(chairs) PROVE x \in ToSet(s)
    <3>1. PICK i \in 1..Len(chairs) : chairs[i] = x
      BY <1>2 DEF ToSet
    <3>2. i + 1 \in DOMAIN s /\ s[i + 1] = x
      BY <1>2, <2>2, <2>3, <3>1
    <3>3. QED BY <3>2 DEF ToSet
  <2>6. ASSUME NEW x \in ToSet(s) PROVE x \in ToSet(chairs) \cup InService
    <3>1. PICK i \in 1..(1 + Len(chairs)) : s[i] = x
      BY <2>3 DEF ToSet
    <3>2. CASE i = 1
      BY <1>1, <1>4, <2>2, <3>1, <3>2 DEF InService
    <3>3. CASE i # 1
      <4>1. i - 1 \in 1..Len(chairs) /\ (i - 1) + 1 = i
        BY <1>2, <3>3
      <4>2. chairs[i - 1] = x
        BY <2>2, <3>1, <4>1
      <4>3. QED BY <1>2, <4>1, <4>2 DEF ToSet
    <3>4. QED BY <3>2, <3>3
  <2>7. Line(b) = s
    BY <1>4 DEF Line, s
  <2>8. QED BY <2>2, <2>4, <2>5, <2>6, <2>7
<1>5. QED BY <1>3, <1>4

\* A step that neither moves the line nor the waiters, nor lets anybody join.
LEMMA SameLine ==
  ASSUME LineIsWaiters, UNCHANGED <<chairs, serving>>,
         waiters'["C_customer"] = waiters["C_customer"],
         \A c \in Customers : Joining(c)' <=> Joining(c)
  PROVE  LineIsWaiters'
<1>1. \A b \in Barbers : Line(b)' = Line(b)
  BY DEF Line
<1>2. QED BY <1>1 DEF LineIsWaiters

\* While somebody else has the mutex, or nobody, no customer is about to wait.
LEMMA NobodyJoins ==
  ASSUME IInv, NEW t \in Threads \cup {Nobody}, owner = t,
         t \in Threads => pc[t] # "testing"
  PROVE  \A c \in Customers : ~Joining(c)
BY BarbershopAssumption DEF IInv, MutualExclusion, Joining, Threads

\* A customer who sits down is about to wait behind all others.
LEMMA TakesChairJoins ==
  ASSUME IInv, LineIsWaiters, NEW c \in Customers, CustomerTakesChair(c)
  PROVE  LineIsWaiters'
<1> USE BarbershopAssumption DEF Threads
<1>1. /\ pc[c] = "entering" /\ chairs' = Append(chairs, c) /\ UNCHANGED <<serving, owner>>
      /\ pc' = [pc EXCEPT ![c] = "testing"] /\ state' = [state EXCEPT ![c] = "WAITING"]
      /\ CondSignal("C_barber")
  BY DEF CustomerTakesChair, Goto
<1>2. TypeOK /\ owner = c
  BY <1>1 DEF IInv, MutualExclusion
<1>3. waiters'["C_customer"] = waiters["C_customer"]
  BY <1>1, WaitersFact, SignalEffect DEF CondVars
<1>4. \A d \in Customers : ~Joining(d)
  BY <1>1, <1>2, NobodyJoins
<1>5. \A d \in Customers : Joining(d)' <=> d = c
  BY <1>1, <1>2, <1>4 DEF Joining, TypeOK
<1>6. ASSUME NEW b \in Barbers PROVE Line(b)' = Append(Line(b), c)
  <2>1. chairs \in Seq(Customers) /\ serving[b] \in Customers \cup {Nobody}
    BY <1>2 DEF TypeOK
  <2>2. \A s \in Seq(Customers) : s \o Append(chairs, c) = Append(s \o chairs, c)
    BY <2>1
  <2>3. (IF serving[b] = Nobody THEN <<>> ELSE <<serving[b]>>) \in Seq(Customers)
    BY <2>1
  <2>4. QED BY <1>1, <2>2, <2>3 DEF Line
<1>7. QED BY <1>3, <1>4, <1>5, <1>6 DEF LineIsWaiters

\* Then it does wait.
LEMMA WaitsJoins ==
  ASSUME IInv, LineIsWaiters, NEW c \in Customers, CustomerWaits(c)
  PROVE  LineIsWaiters'
<1> USE BarbershopAssumption DEF Threads
<1>1. /\ pc[c] = "testing" /\ state[c] = "WAITING" /\ UNCHANGED <<serving, chairs, state>>
      /\ pc' = [pc EXCEPT ![c] = "waiting"] /\ owner = c
      /\ waiters' = [waiters EXCEPT !["C_customer"] = Append(@, c)]
  BY DEF CustomerWaits, CondWait, MutexUnlock, Goto
<1>2. TypeOK
  BY DEF IInv
<1>3. waiters'["C_customer"] = Append(waiters["C_customer"], c)
  BY <1>1, <1>2 DEF TypeOK, CondVars
<1>4. \A d \in Customers : ~Joining(d)'
  BY <1>1, <1>2 DEF IInv, MutualExclusion, Joining, TypeOK
<1>5. \A b \in Barbers : Line(b)' = Line(b)
  BY <1>1 DEF Line
<1>6. Joining(c)
  BY <1>1 DEF Joining
<1>7. QED BY <1>3, <1>4, <1>5, <1>6 DEF LineIsWaiters

\* From the first chair to the seat: the line is the same.
LEMMA StartsHaircutLine ==
  ASSUME OneInOrder, IInv, LineIsWaiters, NEW b \in Barbers, BarberStartsHaircut(b)
  PROVE  LineIsWaiters'
<1>1. /\ TypeOK /\ chairs # <<>> /\ serving[b] = Nobody
  BY DEF BarberStartsHaircut, IInv, ServingPc
<1>2. /\ serving' = [serving EXCEPT ![b] = Head(chairs)] /\ chairs' = Tail(chairs)
      /\ UNCHANGED <<waiters, state>> /\ pc' = [pc EXCEPT ![b] = "cutting"]
  BY <1>1 DEF BarberStartsHaircut, Goto
<1>3. chairs \in Seq(Customers) /\ Head(chairs) \in Customers /\ Head(chairs) # Nobody
  BY <1>1, BarbershopAssumption, TailElements DEF TypeOK, Threads
<1>4. \A a \in Barbers : Line(a)' = Line(a)
  <2>1. serving'[b] = Head(chairs)
    BY <1>1, <1>2 DEF TypeOK
  <2>2. Line(b) = <<>> \o chairs /\ Line(b)' = <<Head(chairs)>> \o Tail(chairs)
    BY <1>1, <1>2, <1>3, <2>1 DEF Line
  <2>3. <<>> \o chairs = chairs /\ <<Head(chairs)>> \o Tail(chairs) = chairs
    BY <1>1, <1>3
  <2>4. Line(b)' = Line(b)
    BY <2>2, <2>3
  <2>5. QED BY <2>4 DEF OneInOrder
<1>5. \A c \in Customers : Joining(c)' <=> Joining(c)
  BY <1>1, <1>2, BarbershopAssumption DEF Joining, TypeOK, Threads
<1>6. QED BY <1>2, <1>4, <1>5 DEF LineIsWaiters

\* The customer served is the first of the waiters, whom the signal wakes.
LEMMA FinishesLine ==
  ASSUME OneInOrder, IInv, LineIsWaiters, NEW b \in Barbers, BarberFinishes(b)
  PROVE  LineIsWaiters'
<1> DEFINE c == serving[b]
           w == waiters["C_customer"]
<1>1. /\ TypeOK /\ c # Nobody /\ c \in Customers /\ pc[b] = "finishing"
      /\ state' = [state EXCEPT ![c] = "DONE"] /\ serving' = [serving EXCEPT ![b] = Nobody]
      /\ CondSignal("C_customer") /\ UNCHANGED <<chairs, owner>>
      /\ pc' = [pc EXCEPT ![b] = "check"]
  BY DEF BarberFinishes, Goto, IInv, ServingPc, TypeOK
<1>2. owner = b
  BY <1>1, BarbershopAssumption DEF IInv, MutualExclusion, Threads
<1>3. \A d \in Customers : ~Joining(d)
  BY <1>1, <1>2, BarbershopAssumption, NobodyJoins DEF Threads
<1>4. \A d \in Customers : ~Joining(d)'
  <2>1. pc'[b] = "check" /\ \A d \in Customers : pc'[d] = pc[d]
    BY <1>1, BarbershopAssumption DEF TypeOK, Threads
  <2>2. \A d \in Customers : pc[d] # "testing"
    BY <1>1, <1>2, BarbershopAssumption DEF IInv, MutualExclusion, Threads
  <2>3. QED BY <2>1, <2>2 DEF Joining
<1>5. w = <<c>> \o chairs
  BY <1>1, <1>3 DEF LineIsWaiters, Line
<1>6. chairs \in Seq(Customers) /\ Len(chairs) \in Nat
  BY <1>1, LenProperties DEF TypeOK
<1> HIDE DEF c
<1>7. w # <<>> /\ RemoveAt(w, 1) = chairs
  <2>1. /\ <<c>> \in Seq(Customers) /\ Len(<<c>>) = 1
    BY <1>1
  <2>2. /\ w \in Seq(Customers) /\ Len(w) = 1 + Len(chairs)
        /\ \A i \in 1..Len(chairs) : w[i + 1] = chairs[i]
    <3>1. /\ <<c>> \o chairs \in Seq(Customers) /\ Len(<<c>> \o chairs) = 1 + Len(chairs)
          /\ \A i \in 1..(1 + Len(chairs)) :
               (<<c>> \o chairs)[i] = IF i <= 1 THEN <<c>>[i] ELSE chairs[i - 1]
      BY <1>6, <2>1, ConcatProperties
    <3>2. ASSUME NEW i \in 1..Len(chairs) PROVE (<<c>> \o chairs)[i + 1] = chairs[i]
      <4>1. i + 1 \in 1..(1 + Len(chairs)) /\ ~(i + 1 <= 1) /\ (i + 1) - 1 = i
        BY <1>6
      <4>2. QED BY <3>1, <4>1
    <3>3. QED BY <1>5, <3>1, <3>2
  <2> HIDE DEF w
  <2>3. SubSeq(w, 1, 1 - 1) = <<>>
    BY <2>2
  <2> DEFINE r == SubSeq(w, 1 + 1, Len(w))
  <2>4. /\ r \in Seq(Customers) /\ Len(r) = Len(chairs)
        /\ \A i \in 1..Len(chairs) : r[i] = chairs[i]
    <3>1. \A i \in 2..Len(w) : w[i] \in Customers
      BY <1>6, <2>2, ElementOfSeq
    <3>2. /\ r \in Seq(Customers)
          /\ Len(r) = IF 2 <= Len(w) THEN Len(w) - 2 + 1 ELSE 0
          /\ \A i \in 1..(Len(w) - 2 + 1) : r[i] = w[2 + i - 1]
      BY <1>6, <2>2, <3>1, SubSeqProperties
    <3> HIDE DEF r
    <3>3. Len(r) = Len(chairs)
      BY <1>6, <2>2, <3>2
    <3>4. ASSUME NEW i \in 1..Len(chairs) PROVE r[i] = chairs[i]
      <4>1. i \in 1..(Len(w) - 2 + 1) /\ 2 + i - 1 = i + 1
        BY <1>6, <2>2
      <4>2. QED BY <2>2, <3>2, <4>1
    <3>5. QED BY <3>2, <3>3, <3>4
  <2> HIDE DEF r
  <2>5. r = chairs
    BY <1>6, <2>4, SeqEqual
  <2>6. RemoveAt(w, 1) = <<>> \o r
    BY <2>3 DEF RemoveAt, r
  <2>7. <<>> \o r = r
    BY <2>4
  <2>8. w # <<>>
    <3>1. Len(w) # 0
      BY <1>6, <2>2
    <3>2. QED BY <3>1, EmptySeq
  <2>9. QED BY <2>5, <2>6, <2>7, <2>8
<1>8. waiters'["C_customer"] = chairs
  <2>1. PICK i \in Signallable("C_customer") : Unblock("C_customer", i)
    BY <1>1, <1>7 DEF CondSignal
  <2>2. i = 1
    BY <2>1 DEF Signallable, OneInOrder
  <2>3. waiters' = [waiters EXCEPT !["C_customer"] = RemoveAt(w, 1)]
    BY <2>1, <2>2 DEF Unblock
  <2>4. QED BY <1>1, <1>7, <2>3 DEF TypeOK, CondVars
<1>9. \A a \in Barbers : Line(a)' = chairs
  <2>1. serving'[b] = Nobody /\ chairs' = chairs
    BY <1>1 DEF TypeOK
  <2>2. Line(b)' = <<>> \o chairs
    BY <2>1 DEF Line
  <2>3. <<>> \o chairs = chairs
    BY <1>6
  <2>4. QED BY <2>2, <2>3 DEF OneInOrder
<1>10. QED BY <1>4, <1>8, <1>9 DEF LineIsWaiters

\* A customer who is still WAITING is not woken.
LEMMA WaitingIsBlocked ==
  ASSUME OneInOrder, IInv, LineIsWaiters, \A d \in Customers : ~Joining(d),
         NEW c \in Customers, state[c] = "WAITING"
  PROVE  c \in Blocked("C_customer")
<1>1. TypeOK /\ c \in ToSet(chairs) \cup InService
  BY DEF IInv, WaitingAccounted
<1>2. CASE c \in InService
  <2>1. PICK b \in Barbers : serving[b] = c /\ c # Nobody
    BY <1>2 DEF InService
  <2>2. c \in ToSet(Line(b)) /\ Line(b) = waiters["C_customer"]
    BY <1>1, <2>1, LineElements DEF LineIsWaiters
  <2>3. QED BY <2>2 DEF Blocked
<1>3. CASE c \in ToSet(chairs)
  <2>1. PICK b \in Barbers : TRUE
    BY DEF OneInOrder
  <2>2. c \in ToSet(Line(b)) /\ Line(b) = waiters["C_customer"]
    BY <1>1, <1>3, <2>1, LineElements DEF LineIsWaiters
  <2>3. QED BY <2>2 DEF Blocked
<1>4. QED BY <1>1, <1>2, <1>3

\* The order is kept by every step.
LEMMA LineNext == OneInOrder /\ IInv /\ LineIsWaiters /\ [Next]_vars => LineIsWaiters'
<1> SUFFICES ASSUME OneInOrder, IInv, LineIsWaiters, [Next]_vars PROVE LineIsWaiters'
  OBVIOUS
<1> USE BarbershopAssumption DEF Threads
<1>0. TypeOK
  BY DEF IInv
<1>1. ASSUME NEW c \in Customers, CustomerLocks(c) \/ CustomerRuns(c) PROVE LineIsWaiters'
  <2>1. CASE CustomerArrives(c)
    <3>1. \A d \in Customers : Joining(d)' <=> Joining(d)
      BY <1>0, <2>1 DEF CustomerArrives, Goto, Joining, TypeOK
    <3>2. QED BY <2>1, <3>1, SameLine DEF CustomerArrives
  <2>2. CASE CustomerEnters(c)
    <3>1. \A d \in Customers : Joining(d)' <=> Joining(d)
      BY <1>0, <2>2 DEF CustomerEnters, Goto, Joining, TypeOK
    <3>2. QED BY <2>2, <3>1, SameLine DEF CustomerEnters
  <2>3. CASE CustomerTurnedAway(c)
    <3>1. \A d \in Customers : Joining(d)' <=> Joining(d)
      BY <1>0, <2>3 DEF CustomerTurnedAway, Goto, Joining, TypeOK
    <3>2. QED BY <2>3, <3>1, SameLine DEF CustomerTurnedAway
  <2>4. CASE CustomerLeaves(c)
    <3>1. \A d \in Customers : Joining(d)' <=> Joining(d)
      BY <1>0, <2>4 DEF CustomerLeaves, Goto, Joining, TypeOK
    <3>2. QED BY <2>4, <3>1, SameLine DEF CustomerLeaves
  <2>5. CASE CustomerWakes(c)
    <3>1. \A d \in Customers : ~Joining(d)
      BY <2>5, NobodyJoins DEF CustomerWakes, MutexLock
    <3>2. state[c] # "WAITING"
      BY <2>5, <3>1, WaitingIsBlocked DEF CustomerWakes
    <3>3. \A d \in Customers : Joining(d)' <=> Joining(d)
      BY <1>0, <2>5, <3>1, <3>2 DEF CustomerWakes, Goto, Joining, TypeOK
    <3>4. QED BY <2>5, <3>3, SameLine DEF CustomerWakes
  <2>6. QED BY <1>1, <2>1, <2>2, <2>3, <2>4, <2>5, TakesChairJoins, WaitsJoins
    DEF CustomerLocks, CustomerRuns
<1>2. ASSUME NEW b \in Barbers, BarberLocks(b) \/ BarberRuns(b) PROVE LineIsWaiters'
  <2>1. CASE BarberGoesToSleep(b)
    <3>1. waiters'["C_customer"] = waiters["C_customer"]
      BY <1>0, <2>1 DEF BarberGoesToSleep, CondWait, TypeOK, CondVars
    <3>2. \A d \in Customers : Joining(d)' <=> Joining(d)
      BY <1>0, <2>1 DEF BarberGoesToSleep, Goto, Joining, TypeOK
    <3>3. QED BY <2>1, <3>1, <3>2, SameLine DEF BarberGoesToSleep
  <2>2. CASE \/ BarberStarts(b) \/ BarberWakes(b) \/ BarberReturns(b)
             \/ BarberFindsCustomer(b) \/ BarberHaircutOver(b)
    <3>1. /\ UNCHANGED <<waiters, chairs, serving, state>>
          /\ \E label \in BarberPcs : pc' = [pc EXCEPT ![b] = label]
      BY <2>2 DEF BarberStarts, BarberWakes, BarberReturns, BarberFindsCustomer,
                  BarberHaircutOver, Goto, BarberPcs
    <3>2. \A d \in Customers : Joining(d)' <=> Joining(d)
      BY <1>0, <3>1 DEF Joining, TypeOK
    <3>3. QED BY <3>1, <3>2, SameLine
  <2>3. QED BY <1>2, <2>1, <2>2, StartsHaircutLine, FinishesLine DEF BarberLocks, BarberRuns
<1>3. ASSUME NEW cv \in CondVars, WakeupWithoutSignal(cv) PROVE LineIsWaiters'
  BY <1>3 DEF WakeupWithoutSignal, SpuriousWakeup, OneInOrder
<1>4. CASE UNCHANGED vars
  <2>1. UNCHANGED <<waiters, chairs, serving, state, pc>>
    BY <1>4 DEF vars
  <2>2. QED BY <2>1, SameLine DEF Joining
<1>5. QED BY <1>1, <1>2, <1>3, <1>4 DEF Next

\* With one barber and signals in order of arrival, the customers wait on
\* C_customer in the order in which they are served.
THEOREM WaitersInOrder == OneInOrder => (Spec => []LineIsWaiters)
<1> SUFFICES ASSUME OneInOrder PROVE Spec => []LineIsWaiters
  OBVIOUS
<1>1. Init => LineIsWaiters
  <2> SUFFICES ASSUME Init PROVE LineIsWaiters
    OBVIOUS
  <2>1. \A c \in Customers : ~Joining(c)
    BY DEF Init, Joining, Threads
  <2>2. waiters["C_customer"] = <<>>
    BY DEF Init, CondVars
  <2>3. \A b \in Barbers : Line(b) = <<>> \o <<>>
    BY DEF Init, Line
  <2>4. QED BY <2>1, <2>2, <2>3 DEF LineIsWaiters
<1>2. IInv /\ LineIsWaiters /\ [Next]_vars => LineIsWaiters'
  BY LineNext
<1>3. QED BY <1>1, <1>2, Invariant, PTL DEF Spec

\* The one signal sent for a finished customer reaches him.
THEOREM FinishedAreWoken == OneInOrder => (Spec => []FinishedIsWoken)
<1> SUFFICES ASSUME OneInOrder PROVE Spec => []FinishedIsWoken
  OBVIOUS
<1>1. IInv /\ LineIsWaiters => FinishedIsWoken
  <2> SUFFICES ASSUME IInv, LineIsWaiters, NEW c \in Customers, state[c] = "DONE",
                      c \in Blocked("C_customer")
               PROVE  FALSE
    BY DEF FinishedIsWoken
  <2>1. PICK b \in Barbers : TRUE
    BY DEF OneInOrder
  <2>2. c \in ToSet(Line(b))
    <3>1. waiters["C_customer"] \in Seq(Threads)
      BY DEF IInv, TypeOK, CondVars
    <3>2. CASE \E d \in Customers : Joining(d)
      <4>1. PICK d \in Customers : Line(b) = Append(waiters["C_customer"], d)
        BY <3>2 DEF LineIsWaiters
      <4>2. ToSet(Line(b)) = Blocked("C_customer") \cup {d}
        BY <3>1, <4>1, AppendElements DEF Blocked, Threads
      <4>3. QED BY <4>2
    <3>3. CASE \A d \in Customers : ~Joining(d)
      BY <3>3 DEF LineIsWaiters, Blocked
    <3>4. QED BY <3>2, <3>3
  <2>3. ToSet(Line(b)) \subseteq ToSet(chairs) \cup InService
    BY LineElements DEF IInv, TypeOK
  <2>4. QED BY <2>2, <2>3 DEF IInv, WaitingAccounted
<1>2. QED BY <1>1, WaitersInOrder, Invariant, PTL

\* Different customers in the chairs: as many as the queue is long.
LEMMA ChairsCount ==
  ASSUME NEW S, NEW s \in Seq(S), IsInjective(s)
  PROVE  IsFiniteSet(ToSet(s)) /\ Cardinality(ToSet(s)) = Len(s)
<1> DEFINE f == [i \in 1..Len(s) |-> s[i]]
<1>1. Len(s) \in Nat /\ DOMAIN s = 1..Len(s)
  BY LenProperties
<1>2. f \in Bijection(1..Len(s), ToSet(s))
  <2>1. f \in [1..Len(s) -> ToSet(s)] /\ \A x \in ToSet(s) : \E i \in 1..Len(s) : f[i] = x
    BY <1>1 DEF ToSet
  <2>2. \A i, j \in 1..Len(s) : f[i] = f[j] => i = j
    BY <1>1 DEF IsInjective
  <2>3. QED BY <2>1, <2>2, Fun_IsBij
<1>3. ExistsBijection(1..Len(s), ToSet(s))
  BY <1>2 DEF ExistsBijection
<1>4. IsFiniteSet(1..Len(s)) /\ Cardinality(1..Len(s)) = Len(s)
  BY <1>1, FS_Interval
<1>5. QED BY <1>3, <1>4, FS_Bijection

\* Whenever time passes the counters count what part-3.md says they do.
THEOREM CountersAreExact == OneInOrder => (Spec => []CountersExact)
<1> SUFFICES ASSUME OneInOrder PROVE Spec => []CountersExact
  OBVIOUS
<1>1. IInv /\ CountsKept /\ FinishedIsWoken => CountersExact
  <2> SUFFICES ASSUME IInv, CountsKept, FinishedIsWoken, ClockMayAdvance
               PROVE  /\ counters.seat = Cardinality({b \in Barbers : pc[b] = "cutting"})
                      /\ counters.people = Len(chairs) + counters.seat
    BY DEF CountersExact
  <2>0. TypeOK
    BY DEF IInv
  <2>1. \A c \in timers : c \in Customers /\ state[c] = "WAITING"
    <3>1. ASSUME NEW c \in timers PROVE c \in Blocked("C_customer") /\ c \in Customers
      BY <2>0 DEF ClockMayAdvance, IInv, InsidePc, TypeOK
    <3>2. QED BY <2>0, <3>1 DEF FinishedIsWoken, CountsKept, TypeOK
  <2>2. DoneInside = {}
    BY <2>1 DEF DoneInside
  <2>3. Busy = {b \in Barbers : pc[b] = "cutting"}
    BY DEF Busy, ClockMayAdvance, IInv, ServingPc, BlockedThreadsWait
  <2>4. counters.seat = Cardinality(Busy)
    BY <2>0, <2>2, CountedFinite, FS_EmptySet DEF CountsKept
  <2>5. timers = ToSet(chairs) \cup InService /\ ToSet(chairs) \cap InService = {}
    <3>1. ToSet(chairs) \subseteq Customers /\ InService \subseteq Customers
      BY <2>0, ElementOfSeq DEF TypeOK, InService, ToSet
    <3>2. QED BY <2>1, <3>1 DEF IInv, WaitingAccounted, InsidePc
  <2>6. IsFiniteSet(ToSet(chairs)) /\ Cardinality(ToSet(chairs)) = Len(chairs)
    BY <2>0, ChairsCount DEF TypeOK, IInv, WaitingAccounted
  <2>7. IsFiniteSet(InService) /\ Cardinality(InService) = Cardinality(Busy)
    <3> DEFINE f == [b \in Busy |-> serving[b]]
    <3>1. f \in [Busy -> InService] /\ \A c \in InService : \E b \in Busy : f[b] = c
      BY DEF Busy, InService
    <3>2. \A a, b \in Busy : f[a] = f[b] => a = b
      BY DEF Busy, IInv, WaitingAccounted
    <3>3. f \in Bijection(Busy, InService)
      BY <3>1, <3>2, Fun_IsBij
    <3>4. ExistsBijection(Busy, InService)
      BY <3>3 DEF ExistsBijection
    <3>5. QED BY <2>0, <3>4, CountedFinite, FS_Bijection
  <2>8. Cardinality(timers) = Len(chairs) + Cardinality(Busy)
    <3>1. Cardinality(ToSet(chairs) \cup InService)
            = Cardinality(ToSet(chairs)) + Cardinality(InService)
                - Cardinality(ToSet(chairs) \cap InService)
      BY <2>6, <2>7, FS_Union
    <3>2. Cardinality(ToSet(chairs) \cap InService) = 0
      BY <2>5, FS_EmptySet
    <3>3. Len(chairs) \in Nat /\ Cardinality(Busy) \in Nat
      BY <2>0, CountedFinite, LenProperties DEF TypeOK
    <3>4. QED BY <2>5, <2>6, <2>7, <3>1, <3>2, <3>3
  <2>9. QED BY <2>3, <2>4, <2>8 DEF CountsKept
<1>2. QED BY <1>1, CountersKept, FinishedAreWoken, Invariant, PTL

-----------------------------------------------------------------------------
(* The queue in memory: what the shop does to its chairs *)

\* In every step the chairs stay, gain a customer at the end or lose the first.
LEMMA ChairsStep ==
  ASSUME TypeOK, Next
  PROVE  \/ chairs' = chairs
         \/ \E c \in Customers : chairs' = Append(chairs, c)
         \/ chairs # <<>> /\ chairs' = Tail(chairs)
<1>1. ASSUME NEW c \in Customers, CustomerLocks(c) \/ CustomerRuns(c)
      PROVE  chairs' = chairs \/ chairs' = Append(chairs, c)
  BY <1>1 DEF CustomerLocks, CustomerRuns, CustomerArrives, CustomerEnters, CustomerWakes,
    CustomerTakesChair, CustomerTurnedAway, CustomerWaits, CustomerLeaves
<1>2. ASSUME NEW b \in Barbers, BarberLocks(b) \/ BarberRuns(b)
      PROVE  chairs' = chairs \/ (chairs # <<>> /\ chairs' = Tail(chairs))
  BY <1>2 DEF BarberLocks, BarberRuns, BarberStarts, BarberWakes, BarberReturns,
    BarberGoesToSleep, BarberFindsCustomer, BarberStartsHaircut, BarberHaircutOver,
    BarberFinishes
<1>3. ASSUME NEW cv \in CondVars, WakeupWithoutSignal(cv)
      PROVE  chairs' = chairs
  BY <1>3 DEF WakeupWithoutSignal
<1>4. QED BY <1>1, <1>2, <1>3 DEF Next

-----------------------------------------------------------------------------
(* The two operations of the list *)

\* What a list node holds.
NodeContents == [data : Customers, next : Nodes \cup {NULL, Garbage}]

\* The memory after a new node n has been filled.
LEMMA AllocatedNodes ==
  ASSUME node \in [DOMAIN node -> NodeContents], NEW n \in Nodes \ DOMAIN node,
         NEW x \in Customers, NEW after \in {NULL, Garbage}
  PROVE  /\ Allocated(n, x, after) \in [DOMAIN node \cup {n} -> NodeContents]
         /\ Allocated(n, x, after)[n] = [data |-> x, next |-> after]
         /\ \A m \in DOMAIN node : Allocated(n, x, after)[m] = node[m]
<1>1. [data |-> x, next |-> after] \in NodeContents
  BY DEF NodeContents
<1>2. \A m \in DOMAIN node : node[m] \in NodeContents
  OBVIOUS
<1> QED BY <1>1, <1>2 DEF Allocated

\* A new node at the end represents the longer queue, in each of the three cases.
LEMMA EnqueueStep ==
  ASSUME QueueIsChairs, chairs \in Seq(Customers),
         NEW x \in Customers, chairs' = Append(chairs, x), enqueue(x)
  PROVE  QueueIsChairs'
<1>1. PICK ns \in [1 .. size -> Nodes] : Represents(ns) /\ Contents(ns) = chairs
  BY DEF QueueIsChairs
<1>2. PICK n \in Nodes \ DOMAIN node :
        /\ size' = size + 1
        /\ \/ /\ size = 0
              /\ head' = n /\ tail' = NULL
              /\ node' = Allocated(n, x, NULL)
           \/ /\ size = 1
              /\ tail' = n /\ UNCHANGED head
              /\ node' = Linked(n, x, Garbage, head)
           \/ /\ size > 1
              /\ tail' = n /\ UNCHANGED head
              /\ node' = Linked(n, x, NULL, tail)
  BY DEF enqueue
<1>3. /\ size \in Nat /\ size = Len(chairs)
      /\ node \in [DOMAIN node -> NodeContents]
  BY LenProperties DEF QueueIsChairs, NodeContents
<1>4. /\ \A i \in 1 .. size : ns[i] \in DOMAIN node
      /\ \A i, j \in 1 .. size : ns[i] = ns[j] => i = j
      /\ \A m \in DOMAIN node : \E i \in 1 .. size : ns[i] = m
      /\ size > 0 => head = ns[1]
      /\ size > 1 => tail = ns[size]
      /\ \A i \in 1 .. size - 1 : node[ns[i]].next = ns[i + 1]
      /\ \A i \in 1 .. size : node[ns[i]].data = chairs[i]
  BY <1>1, <1>3 DEF Represents, Contents, IsInjective, ToSet
\* The nodes afterwards; the last one before was ns[size].
<1>5. /\ DOMAIN node' = DOMAIN node \cup {n}
      /\ node'[n].data = x
      /\ \A m \in DOMAIN node : node'[m].data = node[m].data
      /\ \A m \in DOMAIN node : (size > 0 => m # ns[size]) => node'[m].next = node[m].next
      /\ size > 0 => node'[ns[size]].next = n
      /\ node' \in [DOMAIN node' -> NodeContents]
  <2>1. CASE size = 0
    <3>1. node' = Allocated(n, x, NULL)
      BY <1>2, <2>1
    <3>2. /\ node' \in [DOMAIN node \cup {n} -> NodeContents]
          /\ node'[n] = [data |-> x, next |-> NULL]
          /\ \A m \in DOMAIN node : node'[m] = node[m]
      <4>1. node \in [DOMAIN node -> NodeContents]
        BY <1>3
      <4> QED BY <3>1, <4>1, AllocatedNodes
    <3> QED BY <2>1, <3>2
  <2>2. CASE size > 0
    <3>1. ns[size] \in DOMAIN node
      BY <1>3, <1>4, <2>2
    <3>2. PICK after \in {NULL, Garbage} : node' = Linked(n, x, after, ns[size])
      BY <1>2, <1>3, <1>4, <2>2
    <3>3. PICK p \in DOMAIN node : p = ns[size]
      BY <3>1
    <3>4. node \in [DOMAIN node -> NodeContents]
      BY <1>3
    <3>5. /\ Linked(n, x, after, p) \in [DOMAIN node \cup {n} -> NodeContents]
          /\ Linked(n, x, after, p)[n] = [data |-> x, next |-> after]
          /\ \A m \in DOMAIN node \ {p} : Linked(n, x, after, p)[m] = node[m]
          /\ Linked(n, x, after, p)[p] = [node[p] EXCEPT !.next = n]
      <4> DEFINE before == Allocated(n, x, after)
      <4>1. /\ before \in [DOMAIN node \cup {n} -> NodeContents]
            /\ before[n] = [data |-> x, next |-> after]
            /\ \A m \in DOMAIN node : before[m] = node[m]
        BY <3>4, AllocatedNodes
      <4>2. Linked(n, x, after, p) = [before EXCEPT ![p] = [before[p] EXCEPT !.next = n]]
        BY <4>1 DEF Linked
      <4>3. before[p] \in NodeContents /\ before[p] = node[p]
        BY <4>1
      <4>4. [before[p] EXCEPT !.next = n] \in NodeContents
        BY <4>3 DEF NodeContents
      <4> HIDE DEF before
      <4>5. p # n
        OBVIOUS
      <4> QED BY <4>1, <4>2, <4>3, <4>4, <4>5
    <3>6. node' = Linked(n, x, after, p)
      BY <3>2, <3>3
    <3>7. node[p] \in NodeContents
      BY <3>3, <3>4
    <3>8. node'[p].next = n /\ node'[p].data = node[p].data
      BY <3>5, <3>6, <3>7 DEF NodeContents
    <3> QED BY <2>2, <3>3, <3>5, <3>6, <3>8
  <2> QED BY <1>3, <2>1, <2>2
<1>6. PICK ms \in [1 .. size' -> Nodes] :
        ms[size + 1] = n /\ \A i \in 1 .. size : ms[i] = ns[i]
  <2> DEFINE longer == [i \in 1 .. size + 1 |-> IF i = size + 1 THEN n ELSE ns[i]]
  <2>1. longer \in [1 .. size' -> Nodes]
    BY <1>2, <1>3
  <2>2. longer[size + 1] = n /\ \A i \in 1 .. size : longer[i] = ns[i]
    BY <1>3
  <2> QED BY <2>1, <2>2
<1>7. IsInjective(ms)
  BY <1>2, <1>3, <1>4, <1>6 DEF IsInjective
<1>8. ToSet(ms) = DOMAIN node'
  <2>1. ToSet(ms) = {ms[i] : i \in 1 .. size + 1}
    BY <1>2, <1>3 DEF ToSet
  <2>2. ASSUME NEW i \in 1 .. size + 1 PROVE ms[i] \in DOMAIN node'
    <3>1. i \in 1 .. size \/ i = size + 1
      BY <1>3
    <3> QED BY <1>4, <1>5, <1>6, <3>1
  <2>3. ASSUME NEW m \in DOMAIN node' PROVE \E i \in 1 .. size + 1 : ms[i] = m
    <3>1. CASE m = n
      <4>1. size + 1 \in 1 .. size + 1
        BY <1>3
      <4> QED BY <1>6, <3>1, <4>1
    <3>2. CASE m \in DOMAIN node
      <4>1. PICK i \in 1 .. size : ns[i] = m
        BY <1>4, <3>2
      <4>2. i \in 1 .. size + 1
        BY <1>3
      <4> QED BY <1>6, <4>1, <4>2
    <3> QED BY <1>5, <2>3, <3>1, <3>2
  <2> QED BY <2>1, <2>2, <2>3
<1>9. /\ size' > 0 => head' = ms[1]
      /\ size' > 1 => tail' = ms[size']
  <2>1. CASE size = 0
    BY <1>2, <1>6, <2>1
  <2>2. CASE size > 0
    <3>1. 1 \in 1 .. size /\ size' > 1
      BY <1>2, <1>3, <2>2
    <3>2. head' = head /\ tail' = n
      BY <1>2, <2>2
    <3> QED BY <1>2, <1>4, <1>6, <2>2, <3>1, <3>2
  <2> QED BY <1>3, <2>1, <2>2
<1>10. ASSUME NEW i \in 1 .. size' - 1 PROVE node'[ms[i]].next = ms[i + 1]
  <2>1. CASE i = size
    BY <1>2, <1>3, <1>5, <1>6, <2>1
  <2>2. CASE i # size
    <3>1. i \in 1 .. size - 1 /\ size \in 1 .. size /\ i + 1 \in 1 .. size /\ i \in 1 .. size
      BY <1>2, <1>3, <2>2
    <3>2. ns[i] # ns[size] /\ ns[i] \in DOMAIN node /\ node[ns[i]].next = ns[i + 1]
      BY <1>4, <2>2, <3>1
    <3> QED BY <1>5, <1>6, <3>1, <3>2
  <2> QED BY <2>1, <2>2
<1>11. Contents(ms)' = chairs'
  <2>1. /\ chairs' \in Seq(Customers) /\ Len(chairs') = size'
        /\ \A i \in 1 .. size : chairs'[i] = chairs[i]
        /\ chairs'[size + 1] = x
    BY <1>2, <1>3, AppendProperties
  <2>2. chairs' = [i \in 1 .. size' |-> chairs'[i]]
    BY <2>1, LenProperties
  <2>3. ASSUME NEW i \in 1 .. size' PROVE node'[ms[i]].data = chairs'[i]
    <3>1. CASE i = size + 1
      BY <1>5, <1>6, <2>1, <3>1
    <3>2. CASE i # size + 1
      <4>1. i \in 1 .. size
        BY <1>2, <1>3, <3>2
      <4> QED BY <1>4, <1>5, <1>6, <2>1, <4>1
    <3> QED BY <3>1, <3>2
  <2>4. [i \in 1 .. size' |-> node'[ms[i]].data] = [i \in 1 .. size' |-> chairs'[i]]
    BY <2>3
  <2> QED BY <2>2, <2>4 DEF Contents
<1>12. size' = Len(chairs')
  BY <1>2, <1>3, AppendProperties
<1>13. Represents(ms)'
  BY <1>7, <1>8, <1>9, <1>10 DEF Represents
<1> QED
  BY <1>5, <1>6, <1>11, <1>12, <1>13 DEF QueueIsChairs, NodeContents

\* Without its first node the list represents the rest, and next of the last node and
\* tail, wherever they point, are not looked at.
LEMMA DequeueStep ==
  ASSUME QueueIsChairs, chairs \in Seq(Customers), chairs # <<>>,
         chairs' = Tail(chairs), dequeue
  PROVE  QueueIsChairs'
<1>1. PICK ns \in [1 .. size -> Nodes] : Represents(ns) /\ Contents(ns) = chairs
  BY DEF QueueIsChairs
<1>2. /\ size > 0 /\ size' = size - 1
      /\ head' = node[head].next /\ tail' = tail
      /\ node' = [m \in DOMAIN node \ {head} |-> node[m]]
  BY DEF dequeue
<1>3. /\ size \in Nat /\ size = Len(chairs)
      /\ node \in [DOMAIN node -> NodeContents]
  BY LenProperties DEF QueueIsChairs, NodeContents
<1>4. /\ \A i \in 1 .. size : ns[i] \in DOMAIN node
      /\ \A i, j \in 1 .. size : ns[i] = ns[j] => i = j
      /\ \A m \in DOMAIN node : \E i \in 1 .. size : ns[i] = m
      /\ head = ns[1]
      /\ size > 1 => tail = ns[size]
      /\ \A i \in 1 .. size - 1 : node[ns[i]].next = ns[i + 1]
      /\ \A i \in 1 .. size : node[ns[i]].data = chairs[i]
  BY <1>1, <1>2, <1>3 DEF Represents, Contents, IsInjective, ToSet
<1>5. PICK ms \in [1 .. size' -> Nodes] : \A i \in 1 .. size' : ms[i] = ns[i + 1]
  <2> DEFINE rest == [i \in 1 .. size' |-> ns[i + 1]]
  <2>1. rest \in [1 .. size' -> Nodes]
    BY <1>2, <1>3
  <2> QED BY <2>1
<1>6. \A i \in 1 .. size' : i \in 1 .. size /\ i + 1 \in 1 .. size /\ i + 1 # 1
  BY <1>2, <1>3
<1>7. /\ DOMAIN node' = DOMAIN node \ {ns[1]}
      /\ \A m \in DOMAIN node' : node'[m] = node[m]
      /\ node' \in [DOMAIN node' -> NodeContents]
  BY <1>2, <1>3, <1>4
<1>8. IsInjective(ms)
  BY <1>4, <1>5, <1>6 DEF IsInjective
<1>9. ToSet(ms) = DOMAIN node'
  <2>1. ToSet(ms) = {ms[i] : i \in 1 .. size'}
    BY <1>2, <1>3 DEF ToSet
  <2>2. ASSUME NEW i \in 1 .. size' PROVE ms[i] \in DOMAIN node'
    <3>1. 1 \in 1 .. size
      BY <1>2, <1>3
    <3> QED BY <1>4, <1>5, <1>6, <1>7, <3>1
  <2>3. ASSUME NEW m \in DOMAIN node' PROVE \E i \in 1 .. size' : ms[i] = m
    <3>1. PICK j \in 1 .. size : ns[j] = m
      BY <1>4, <1>7
    <3>2. j # 1
      BY <1>7, <3>1
    <3>3. j - 1 \in 1 .. size' /\ (j - 1) + 1 = j
      BY <1>2, <1>3, <3>2
    <3> QED BY <1>5, <3>1, <3>3
  <2> QED BY <2>1, <2>2, <2>3
<1>10. /\ size' > 0 => head' = ms[1]
       /\ size' > 1 => tail' = ms[size']
  <2>1. ASSUME size' > 0 PROVE head' = ms[1]
    <3>1. 1 \in 1 .. size - 1 /\ 1 \in 1 .. size'
      BY <1>2, <1>3, <2>1
    <3> QED BY <1>2, <1>4, <1>5, <3>1
  <2>2. ASSUME size' > 1 PROVE tail' = ms[size']
    <3>1. size' \in 1 .. size' /\ size' + 1 = size /\ size > 1
      BY <1>2, <1>3, <2>2
    <3> QED BY <1>2, <1>4, <1>5, <3>1
  <2> QED BY <2>1, <2>2
<1>11. ASSUME NEW i \in 1 .. size' - 1 PROVE node'[ms[i]].next = ms[i + 1]
  <2>1. /\ i \in 1 .. size' /\ i + 1 \in 1 .. size'
        /\ i + 1 \in 1 .. size - 1
    BY <1>2, <1>3
  <2>2. ms[i] \in DOMAIN node'
    BY <1>9, <2>1 DEF ToSet
  <2> QED BY <1>4, <1>5, <1>7, <2>1, <2>2
<1>12. Represents(ms)'
  BY <1>8, <1>9, <1>10, <1>11 DEF Represents
<1>13. Contents(ms)' = chairs' /\ size' = Len(chairs')
  <2>1. /\ chairs' \in Seq(Customers) /\ Len(chairs') = size'
        /\ \A i \in 1 .. size' : chairs'[i] = chairs[i + 1]
    BY <1>2, <1>3, HeadTailProperties
  <2>2. chairs' = [i \in 1 .. size' |-> chairs'[i]]
    BY <2>1, LenProperties
  <2>3. ASSUME NEW i \in 1 .. size' PROVE node'[ms[i]].data = chairs'[i]
    <3>1. ms[i] \in DOMAIN node'
      BY <1>9 DEF ToSet
    <3> QED BY <1>4, <1>5, <1>6, <1>7, <2>1, <3>1
  <2>4. [i \in 1 .. size' |-> node'[ms[i]].data] = [i \in 1 .. size' |-> chairs'[i]]
    BY <2>3
  <2> QED BY <2>1, <2>2, <2>4 DEF Contents
<1> QED
  BY <1>5, <1>7, <1>12, <1>13 DEF QueueIsChairs, NodeContents

-----------------------------------------------------------------------------
(* The list is the chairs *)

\* The empty list stands for the empty chairs.
LEMMA InitialQueue == ShopQueueInit => QueueIsChairs
<1> SUFFICES ASSUME ShopQueueInit PROVE QueueIsChairs
  OBVIOUS
<1>1. size = 0 /\ node = <<>> /\ chairs = <<>>
  BY DEF ShopQueueInit, Init, QueueInit
<1>2. DOMAIN node = {} /\ size = Len(chairs) /\ 1 .. size = {}
  BY <1>1
<1>3. node \in [DOMAIN node -> [data : Customers, next : Nodes \cup {NULL, Garbage}]]
  BY <1>1, <1>2
<1>4. /\ <<>> \in [1 .. size -> Nodes]
      /\ Represents(<<>>)
      /\ Contents(<<>>) = chairs
  BY <1>1, <1>2 DEF Represents, Contents, IsInjective, ToSet
<1> QED BY <1>2, <1>3, <1>4 DEF QueueIsChairs

\* Every step of the shop with its call of the list preserves it.
LEMMA QueueStep ==
  ASSUME TypeOK, QueueIsChairs, [ShopQueueNext]_sqvars
  PROVE  QueueIsChairs'
<1>1. chairs \in Seq(Customers)
  BY DEF TypeOK
<1>2. CASE UNCHANGED sqvars
  BY <1>2 DEF sqvars, vars, qvars, QueueIsChairs, Represents, Contents
<1>3. CASE ShopQueueNext
  <2>1. \/ chairs' = chairs
        \/ \E c \in Customers : chairs' = Append(chairs, c)
        \/ chairs # <<>> /\ chairs' = Tail(chairs)
    BY <1>3, ChairsStep DEF ShopQueueNext
  <2>2. QueueCalls
    BY <1>3 DEF ShopQueueNext
  <2>3. Len(chairs) \in Nat
    BY <1>1, LenProperties
  <2>4. CASE chairs' = chairs
    <3>1. UNCHANGED qvars
      BY <2>2, <2>3, <2>4 DEF QueueCalls
    <3> QED BY <2>4, <3>1 DEF qvars, QueueIsChairs, Represents, Contents
  <2>5. ASSUME NEW c \in Customers, chairs' = Append(chairs, c)
        PROVE  QueueIsChairs'
    <3>1. Len(chairs') = Len(chairs) + 1 /\ Last(chairs') = c
      BY <1>1, <2>5, AppendProperties DEF Last
    <3>2. enqueue(c)
      BY <2>2, <2>3, <3>1 DEF QueueCalls
    <3> QED BY <1>1, <2>5, <3>2, EnqueueStep
  <2>6. CASE chairs # <<>> /\ chairs' = Tail(chairs)
    <3>1. Len(chairs') = Len(chairs) - 1
      BY <1>1, <2>6, HeadTailProperties
    <3>2. dequeue
      BY <2>2, <2>3, <3>1 DEF QueueCalls
    <3> QED BY <1>1, <2>6, <3>2, DequeueStep
  <2> QED BY <2>1, <2>4, <2>5, <2>6
<1> QED BY <1>2, <1>3

\* queue.c keeps the waiting customers in the order of their arrival, and its size is
\* their number, through any sequence of enqueue and dequeue the shop makes.
THEOREM QueueCorrect == ShopQueueSpec => []QueueIsChairs
<1>1. ShopQueueSpec => Spec
  <2>1. ShopQueueInit => Init
    BY DEF ShopQueueInit
  <2>2. [ShopQueueNext]_sqvars => [Next]_vars
    BY DEF ShopQueueNext, sqvars
  <2> QED BY <2>1, <2>2, PTL DEF ShopQueueSpec, Spec
<1>2. TypeOK /\ QueueIsChairs /\ [ShopQueueNext]_sqvars => QueueIsChairs'
  BY QueueStep
<1> QED
  BY <1>1, <1>2, InitialQueue, TypeCorrect, PTL DEF ShopQueueSpec
=============================================================================
