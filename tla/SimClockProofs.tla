--------------------------- MODULE SimClockProofs ---------------------------
(***************************************************************************)
(* The discrete-event library of misc.c keeps its counters, its lists and  *)
(* its timer queue right, and implements the clock of VirtualTime.tla, for *)
(* any number of threads, condition variables and delays.                  *)
(*                                                                         *)
(* The argument: the library is in the middle of an operation on behalf of *)
(* one thread at a time.  A thread that found its place in the timer queue *)
(* is not interrupted before it is linked there, because wait_mutex is     *)
(* held across a switch only when no thread is runnable but the one just   *)
(* woken, and that one wants wait_mutex (OneAtATime).                      *)
(***************************************************************************)
EXTENDS SimClock, FiniteSetTheorems, FunctionTheorems, SequenceTheorems,
        WellFoundedInduction, TLAPS

(* Where a thread is *)

Entering == {"queued", "counted", "releasing"}

\* In the timer queue, in the list of a condition variable, in neither.
Sleeper(t) ==
  \/ pc[t] = "inserted"
  \/ pc[t] \in {"testing", "awaiting"} /\ cond[t] = t /\ ~done[t]
Waiter(t) == cond[t] \in CondVars /\ ~done[t]
Stopped(t) == Sleeper(t) \/ (Waiter(t) /\ pc[t] # "queued")
Ready(t) == pc[t] # "absent" /\ ~Stopped(t)

ThreadOK(t) ==
  /\ cond[t] \in CondVars \cup {t}
  /\ pc[t] \in {"absent", "user", "locking", "inserting", "inserted"}
       => cond[t] = t /\ ~done[t]
  /\ pc[t] \in Entering => Waiter(t)

ThreadsOK ==
  /\ \A t \in Threads : ThreadOK(t)
  /\ cond[Main] = Main /\ pc[Main] # "absent"

\* The places in the program at which a thread must have each mutex.
NeedsMutex(t) == pc[t] \in Entering \/ (pc[t] = "testing" /\ cond[t] # t)
NeedsWaitMutex(t) ==
  pc[t] \in {"inserted", "counted", "releasing"} \/ (pc[t] = "testing" /\ cond[t] = t)

MutexesOK ==
  /\ \A t \in Threads : NeedsMutex(t) => holder["mutex"] = t
  /\ \A t \in Threads : holder["mutex"] = t => NeedsMutex(t) \/ pc[t] = "user"
  /\ \A t \in Threads : holder["wait_mutex"] = t <=> NeedsWaitMutex(t)

\* In the middle of an operation the thread runs on.  Where it switches all the
\* same it is the last one: only the sleeper it has woken is ready.
OneAtATime ==
  /\ cur # Nobody => pc[cur] \notin {"absent", "awaiting"}
  /\ \A t \in Threads :
       /\ pc[t] \in {"inserting", "queued"} => cur = t /\ holder["wait_mutex"] = Nobody
       /\ pc[t] \in {"inserted", "counted"} => cur = t
       /\ pc[t] = "testing" /\ cond[t] # t => cur = t
  /\ \A t, u \in Threads :
       holder["wait_mutex"] = t /\ cur # t /\ u # t /\ Ready(u)
         => pc[u] = "awaiting" /\ cond[u] = u

\* The queues hold whom they should, once.
QueuesOK ==
  /\ IsInjective(waitq) /\ \A t \in Threads : t \in ToSet(waitq) <=> Sleeper(t)
  /\ \A cv \in CondVars :
       /\ IsInjective(cq[cv])
       /\ \A t \in Threads : t \in ToSet(cq[cv]) <=> cond[t] = cv /\ ~done[t]

ReadyCounted == nthreads = Cardinality({t \in Threads : Ready(t)})

WaitingExact ==
  \A cv \in CondVars :
    waiting[cv] + (IF \E t \in Threads : cond[t] = cv /\ pc[t] \in Entering THEN 1 ELSE 0)
      = Len(cq[cv])

\* Pth knows how many threads are inside pth_cond_await.
AwaitingCounted ==
  \A c \in Conds :
    cnWaiters[c] = Cardinality({t \in Threads : pc[t] = "awaiting" /\ cond[t] = c})

\* Whom Pth will wake.  A sleeper is in its list until it is marked; only
\* condition variables are notified when nobody is in the list.
PthOK ==
  /\ \A c \in Conds, t \in Threads :
       t \in ToSet(pthq[c]) => pc[t] = "awaiting" /\ cond[t] = c
  /\ \A t \in Threads :
       /\ signaled[t] = "no"
       /\ pthq[t] = IF pc[t] = "awaiting" /\ cond[t] = t /\ ~done[t] THEN <<t>> ELSE <<>>

\* The list of a condition variable is Pth's list of its waiters, and maybe the
\* thread that is about to await.
ListsAgree ==
  \A cv \in Signals :
    \/ pthq[cv] = cq[cv]
    \/ \E t \in Threads : /\ cond[t] = cv /\ ~done[t] /\ pc[t] \in Entering \cup {"testing"}
                          /\ cq[cv] = Append(pthq[cv], t)

Sorted ==
  \A i, j \in DOMAIN waitq : i < j => left[waitq[i]] <= left[waitq[j]]

PlaceKept == \A t \in Threads : pc[t] = "inserting" => pos[t] = Place(left[t])

ControlOK == ThreadsOK /\ MutexesOK /\ OneAtATime
CountsOK == ReadyCounted /\ WaitingExact /\ AwaitingCounted
TimerOK == Sorted /\ PlaceKept

IInv == TypeOK /\ ControlOK /\ QueuesOK /\ CountsOK /\ PthOK /\ TimerOK /\ ~broken

-----------------------------------------------------------------------------
(* Sequences, sets and minima *)

\* The least element of a finite set of natural numbers (FiniteSetsExt: Min).
LEMMA LeastOf ==
  ASSUME NEW S \in SUBSET Nat, S # {}, IsFiniteSet(S)
  PROVE  Min(S) \in S /\ \A j \in S : Min(S) <= j
<1> DEFINE upTo(i) == {j \in S : j <= i}
           T == {upTo(i) : i \in S}
<1>1. T # {} /\ T \subseteq FiniteSubsetsOf(S)
  <2>1. \A i \in S : upTo(i) \in SUBSET S
    OBVIOUS
  <2>2. \A U \in SUBSET S : IsFiniteSet(U)
    BY FS_Subset
  <2>3. QED BY <2>1, <2>2 DEF FiniteSubsetsOf
<1>2. PICK U \in T : \A V \in T : ~(<<V, U>> \in StrictSubsetOrdering(S))
  BY <1>1, FS_StrictSubsetOrderingWellFounded, WFMin
<1>3. PICK i \in S : U = upTo(i)
  BY <1>2
<1>4. ASSUME NEW j \in S, j < i PROVE FALSE
  <2>1. upTo(j) \in T /\ upTo(j) \subseteq U /\ i \in U /\ i \notin upTo(j)
    <3>1. upTo(j) \in T
      OBVIOUS
    <3>2. i \in upTo(i) /\ i \notin upTo(j)
      BY <1>4
    <3>3. ASSUME NEW k \in S, k <= j PROVE k <= i
      BY <1>4, <3>3
    <3>4. QED BY <1>3, <3>1, <3>2, <3>3
  <2>2. <<upTo(j), U>> \in StrictSubsetOrdering(S)
    BY <2>1, <1>3 DEF StrictSubsetOrdering
  <2>3. QED BY <1>2, <2>1, <2>2
<1>5. \A j \in S : i <= j
  BY <1>4
<1>6. QED BY <1>5 DEF Min

\* The elements of a list are those at its places.
LEMMA InToSet ==
  ASSUME NEW S, NEW s \in Seq(S), NEW x
  PROVE  x \in ToSet(s) <=> \E i \in 1..Len(s) : s[i] = x
BY DEF ToSet

\* No thread is twice in a list.
LEMMA Injective ==
  ASSUME NEW S, NEW s \in Seq(S)
  PROVE  IsInjective(s) <=> \A i, j \in 1..Len(s) : s[i] = s[j] => i = j
BY DEF IsInjective

\* A thread joins a list at its end.
LEMMA AppendToSet ==
  ASSUME NEW S, NEW s \in Seq(S), NEW e \in S
  PROVE  /\ ToSet(Append(s, e)) = ToSet(s) \cup {e}
         /\ IsInjective(s) /\ e \notin ToSet(s) => IsInjective(Append(s, e))
<1>1. /\ Append(s, e) \in Seq(S) /\ Len(Append(s, e)) = Len(s) + 1 /\ Len(s) \in Nat
      /\ \A i \in 1..Len(s) : Append(s, e)[i] = s[i]
      /\ Append(s, e)[Len(s) + 1] = e
  BY AppendProperties, LenProperties
<1> DEFINE r == Append(s, e)
<1> HIDE DEF r
<1>2. ASSUME NEW x PROVE x \in ToSet(r) <=> x \in ToSet(s) \cup {e}
  <2>1. x \in ToSet(r) <=> \E i \in 1..Len(r) : r[i] = x
    BY <1>1, InToSet DEF r
  <2>2. x \in ToSet(s) <=> \E i \in 1..Len(s) : s[i] = x
    BY InToSet
  <2>3. QED BY <1>1, <2>1, <2>2 DEF r
<1>3. ASSUME IsInjective(s), e \notin ToSet(s) PROVE IsInjective(r)
  <2>1. \A i \in 1..Len(s) : s[i] # e
    BY <1>3, InToSet
  <2>2. \A i, j \in 1..Len(s) : s[i] = s[j] => i = j
    BY <1>3, Injective
  <2>3. \A i, j \in 1..Len(r) : r[i] = r[j] => i = j
    BY <1>1, <2>1, <2>2 DEF r
  <2>4. r \in Seq(S)
    BY <1>1 DEF r
  <2>5. QED BY <2>3, <2>4, Injective
<1>4. QED BY <1>2, <1>3 DEF r

\* The first of a list leaves it.
LEMMA TailToSet ==
  ASSUME NEW S, NEW s \in Seq(S), s # <<>>, IsInjective(s)
  PROVE  /\ ToSet(Tail(s)) = ToSet(s) \ {Head(s)} /\ IsInjective(Tail(s))
         /\ Head(s) = s[1] /\ Head(s) \in ToSet(s)
<1> DEFINE r == Tail(s)
<1>1. /\ r \in Seq(S) /\ Len(r) = Len(s) - 1 /\ Len(s) \in Nat \ {0}
      /\ \A i \in 1..Len(r) : r[i] = s[i + 1]
      /\ Head(s) = s[1]
  BY HeadTailProperties, EmptySeq
<1> HIDE DEF r
<1>2. \A i, j \in 1..Len(s) : s[i] = s[j] => i = j
  BY Injective
<1>3. ASSUME NEW x PROVE x \in ToSet(r) <=> x \in ToSet(s) \ {Head(s)}
  <2>1. x \in ToSet(r) <=> \E i \in 1..Len(r) : r[i] = x
    BY <1>1, InToSet
  <2>2. x \in ToSet(s) <=> \E i \in 1..Len(s) : s[i] = x
    BY InToSet
  <2>3. ASSUME NEW i \in 1..Len(s), s[i] = x, x # Head(s)
        PROVE  i - 1 \in 1..Len(r) /\ r[i - 1] = x
    BY <1>1, <2>3
  <2>4. QED BY <1>1, <1>2, <2>1, <2>2, <2>3
<1>4. IsInjective(r)
  <2>1. \A i, j \in 1..Len(r) : r[i] = r[j] => i = j
    BY <1>1, <1>2
  <2>2. QED BY <1>1, <2>1, Injective
<1>5. Head(s) \in ToSet(s)
  BY <1>1, InToSet
<1>6. QED BY <1>1, <1>3, <1>4, <1>5 DEF r

\* The empty list.
LEMMA EmptyToSet ==
  /\ ToSet(<<>>) = {} /\ IsInjective(<<>>)
  /\ \A S : \A s \in Seq(S) : s # <<>> <=> ToSet(s) # {}
BY DEF ToSet, IsInjective

\* The list s without its first n elements.
Rest(s, n) == SubSeq(s, n + 1, Len(s))

\* The first n leave a list of different elements.
LEMMA DropFirst ==
  ASSUME NEW S, NEW s \in Seq(S), NEW n \in 0..Len(s), IsInjective(s)
  PROVE  /\ Rest(s, n) \in Seq(S) /\ Len(Rest(s, n)) = Len(s) - n
         /\ \A i \in 1..(Len(s) - n) : Rest(s, n)[i] = s[n + i]
         /\ IsInjective(Rest(s, n))
         /\ \A x : x \in ToSet(Rest(s, n)) <=> x \in ToSet(s) /\ ~\E i \in 1..n : s[i] = x
<1> DEFINE r == Rest(s, n)
<1>1. Len(s) \in Nat /\ n \in Nat /\ n <= Len(s) /\ \A i \in 1..Len(s) : s[i] \in S
  <2>1. Len(s) \in Nat
    OBVIOUS
  <2>2. \A i \in 1..Len(s) : s[i] \in S
    BY ElementOfSeq
  <2>3. QED BY <2>1, <2>2
<1>2. /\ r \in Seq(S)
      /\ Len(r) = IF n + 1 <= Len(s) THEN Len(s) - (n + 1) + 1 ELSE 0
      /\ \A i \in 1..(Len(s) - (n + 1) + 1) : r[i] = s[(n + 1) + i - 1]
  <2>1. \A i \in (n + 1)..Len(s) : s[i] \in S
    BY <1>1
  <2>2. n + 1 \in Int /\ Len(s) \in Int
    BY <1>1
  <2>3. QED BY <2>1, <2>2, SubSeqProperties DEF Rest
<1> HIDE DEF r
<1>3. Len(r) = Len(s) - n
  BY <1>1, <1>2
<1>4. ASSUME NEW i \in 1..(Len(s) - n) PROVE r[i] = s[n + i]
  <2>1. i \in 1..(Len(s) - (n + 1) + 1) /\ (n + 1) + i - 1 = n + i
    BY <1>1
  <2>2. QED BY <1>2, <2>1
<1>5. \A i, j \in 1..Len(s) : s[i] = s[j] => i = j
  BY Injective
<1>6. IsInjective(r)
  <2>1. ASSUME NEW i \in 1..Len(r), NEW j \in 1..Len(r), r[i] = r[j] PROVE i = j
    <3>1. n + i \in 1..Len(s) /\ n + j \in 1..Len(s) /\ s[n + i] = s[n + j]
      BY <1>1, <1>3, <1>4, <2>1
    <3>2. n + i = n + j
      BY <1>5, <3>1
    <3>3. QED BY <1>1, <1>3, <3>2
  <2>2. QED BY <1>2, <2>1, Injective
<1>7. ASSUME NEW x PROVE x \in ToSet(r) <=> x \in ToSet(s) /\ ~\E i \in 1..n : s[i] = x
  <2>1. x \in ToSet(r) <=> \E i \in 1..Len(r) : r[i] = x
    BY <1>2, InToSet
  <2>2. x \in ToSet(s) <=> \E i \in 1..Len(s) : s[i] = x
    BY InToSet
  <2>3. ASSUME NEW i \in 1..Len(r), r[i] = x
        PROVE  x \in ToSet(s) /\ ~\E j \in 1..n : s[j] = x
    <3>1. n + i \in 1..Len(s) /\ s[n + i] = x
      BY <1>1, <1>3, <1>4, <2>3
    <3>2. ASSUME NEW j \in 1..n, s[j] = x PROVE FALSE
      <4>1. j \in 1..Len(s) /\ j # n + i
        BY <1>1, <1>3
      <4>2. QED BY <1>5, <3>1, <3>2, <4>1
    <3>3. QED BY <2>2, <3>1, <3>2
  <2>4. ASSUME NEW i \in 1..Len(s), s[i] = x, ~\E j \in 1..n : s[j] = x
        PROVE  x \in ToSet(r)
    <3>1. ~(i \in 1..n)
      BY <2>4
    <3>2. i - n \in 1..(Len(s) - n) /\ n + (i - n) = i
      BY <1>1, <3>1
    <3>3. r[i - n] = x /\ i - n \in 1..Len(r)
      BY <1>3, <1>4, <2>4, <3>2
    <3>4. QED BY <2>1, <3>3
  <2>5. QED BY <2>1, <2>2, <2>3, <2>4
<1>8. QED BY <1>2, <1>3, <1>4, <1>6, <1>7 DEF r

\* insert_before: the elements from place i on move up.
LEMMA InsertAtIs ==
  ASSUME NEW S, NEW s \in Seq(S), NEW e \in S, NEW i \in 1..(Len(s) + 1)
  PROVE  /\ InsertAt(s, i, e) \in Seq(S) /\ Len(InsertAt(s, i, e)) = Len(s) + 1
         /\ \A j \in 1..(Len(s) + 1) :
              InsertAt(s, i, e)[j] = IF j < i THEN s[j] ELSE IF j = i THEN e ELSE s[j - 1]
<1> DEFINE a == SubSeq(s, 1, i - 1)
           b == SubSeq(s, i, Len(s))
           ae == a \o <<e>>
<1>1. Len(s) \in Nat /\ i \in Int /\ i - 1 \in Nat /\ \A j \in 1..Len(s) : s[j] \in S
  BY LenProperties, ElementOfSeq
<1>2. a \in Seq(S) /\ Len(a) = i - 1 /\ \A j \in 1..(i - 1) : a[j] = s[j]
  BY <1>1, SubSeqProperties
<1>3. b \in Seq(S) /\ Len(b) = Len(s) - i + 1
      /\ \A j \in 1..(Len(s) - i + 1) : b[j] = s[i + j - 1]
  BY <1>1, SubSeqProperties
<1>4. <<e>> \in Seq(S) /\ Len(<<e>>) = 1 /\ <<e>>[1] = e
  OBVIOUS
<1> HIDE DEF a, b
<1>5. ae \in Seq(S) /\ Len(ae) = i
      /\ \A j \in 1..i : ae[j] = IF j < i THEN a[j] ELSE e
  BY <1>1, <1>2, <1>4, ConcatProperties
<1> HIDE DEF ae
<1>6. ae \o b \in Seq(S) /\ Len(ae \o b) = Len(s) + 1
      /\ \A j \in 1..(Len(s) + 1) : (ae \o b)[j] = IF j <= i THEN ae[j] ELSE b[j - i]
  <2>1. Len(ae) + Len(b) = Len(s) + 1
    BY <1>1, <1>3, <1>5
  <2>2. /\ ae \o b \in Seq(S) /\ Len(ae \o b) = Len(ae) + Len(b)
        /\ \A j \in 1..(Len(ae) + Len(b)) :
             (ae \o b)[j] = IF j <= Len(ae) THEN ae[j] ELSE b[j - Len(ae)]
    BY <1>3, <1>5, ConcatProperties
  <2>3. QED BY <1>5, <2>1, <2>2
<1>7. \A j \in 1..(Len(s) + 1) : j > i => b[j - i] = s[j - 1]
  BY <1>1, <1>3
<1>8. InsertAt(s, i, e) = ae \o b
  BY DEF InsertAt, ae, a, b
<1>9. \A j \in 1..(Len(s) + 1) :
        (ae \o b)[j] = IF j < i THEN s[j] ELSE IF j = i THEN e ELSE s[j - 1]
  <2> SUFFICES ASSUME NEW j \in 1..(Len(s) + 1)
               PROVE  (ae \o b)[j] = IF j < i THEN s[j] ELSE IF j = i THEN e ELSE s[j - 1]
    OBVIOUS
  <2>1. (ae \o b)[j] = IF j <= i THEN ae[j] ELSE b[j - i]
    BY <1>6
  <2>2. CASE j < i
    BY <1>1, <1>2, <1>5, <2>1, <2>2
  <2>3. CASE j = i
    BY <1>1, <1>5, <2>1, <2>3
  <2>4. CASE j > i
    BY <1>1, <1>7, <2>1, <2>4
  <2>5. j < i \/ j = i \/ j > i
    BY <1>1
  <2>6. QED BY <2>2, <2>3, <2>4, <2>5
<1>10. QED BY <1>6, <1>8, <1>9

\* A thread is inserted in a list.
LEMMA InsertToSet ==
  ASSUME NEW S, NEW s \in Seq(S), NEW e \in S, NEW i \in 1..(Len(s) + 1)
  PROVE  /\ ToSet(InsertAt(s, i, e)) = ToSet(s) \cup {e}
         /\ IsInjective(s) /\ e \notin ToSet(s) => IsInjective(InsertAt(s, i, e))
<1> DEFINE r == InsertAt(s, i, e)
<1>1. /\ r \in Seq(S) /\ Len(r) = Len(s) + 1
      /\ \A j \in 1..(Len(s) + 1) : r[j] = IF j < i THEN s[j] ELSE IF j = i THEN e ELSE s[j - 1]
  BY InsertAtIs
<1>2. Len(s) \in Nat
  BY LenProperties
<1> HIDE DEF r
<1>3. \A j \in 1..Len(s) : IF j < i THEN r[j] = s[j] ELSE r[j + 1] = s[j]
  BY <1>1, <1>2
<1>4. r[i] = e /\ i \in 1..Len(r)
  BY <1>1, <1>2
<1>5. ASSUME NEW x PROVE x \in ToSet(r) <=> x \in ToSet(s) \cup {e}
  <2>1. x \in ToSet(r) <=> \E j \in 1..Len(r) : r[j] = x
    BY <1>1, InToSet
  <2>2. x \in ToSet(s) <=> \E j \in 1..Len(s) : s[j] = x
    BY InToSet
  <2>3. ASSUME NEW j \in 1..Len(s), s[j] = x PROVE x \in ToSet(r)
    <3>1. j \in 1..Len(r) /\ j + 1 \in 1..Len(r)
      BY <1>1, <1>2
    <3>2. QED BY <1>3, <2>1, <2>3, <3>1
  <2>4. ASSUME NEW j \in 1..Len(r), r[j] = x, x # e PROVE x \in ToSet(s)
    <3>1. CASE j < i
      <4>1. j \in 1..Len(s) /\ s[j] = x
        BY <1>1, <1>2, <2>4, <3>1
      <4>2. QED BY <2>2, <4>1
    <3>2. CASE j > i
      <4>1. j - 1 \in 1..Len(s) /\ s[j - 1] = x
        BY <1>1, <1>2, <2>4, <3>2
      <4>2. QED BY <2>2, <4>1
    <3>3. j < i \/ j > i
      BY <1>1, <1>2, <1>4, <2>4
    <3>4. QED BY <3>1, <3>2, <3>3
  <2>5. QED BY <1>4, <2>1, <2>2, <2>3, <2>4
<1>6. ASSUME IsInjective(s), e \notin ToSet(s) PROVE IsInjective(r)
  <2>1. \A j \in 1..Len(s) : s[j] # e
    BY <1>6, InToSet
  <2>2. \A j, k \in 1..Len(s) : s[j] = s[k] => j = k
    BY <1>6, Injective
  <2>3. ASSUME NEW j \in 1..Len(r), NEW k \in 1..Len(r), r[j] = r[k], j < k PROVE FALSE
    <3>0. /\ \A m \in 1..Len(r) : m < i => m \in 1..Len(s) /\ r[m] = s[m]
          /\ \A m \in 1..Len(r) : m > i => m - 1 \in 1..Len(s) /\ r[m] = s[m - 1]
          /\ r[i] = e
      BY <1>1, <1>2, SMTT(30)
    <3>1. CASE k < i
      <4>1. j < i
        BY <2>3, <3>1
      <4>2. QED BY <2>2, <2>3, <3>0, <3>1, <4>1
    <3>2. CASE k = i
      <4>1. j < i
        BY <2>3, <3>2
      <4>2. QED BY <2>1, <2>3, <3>0, <3>2, <4>1
    <3>3. CASE k > i /\ j < i
      <4>1. j = k - 1
        BY <2>2, <2>3, <3>0, <3>3
      <4>2. QED BY <1>1, <1>2, <3>3, <4>1
    <3>4. CASE k > i /\ j = i
      BY <2>1, <2>3, <3>0, <3>4
    <3>5. CASE k > i /\ j > i
      <4>1. s[j - 1] = s[k - 1] /\ j - 1 \in 1..Len(s) /\ k - 1 \in 1..Len(s)
        BY <2>3, <3>0, <3>5
      <4>2. j - 1 = k - 1
        BY <2>2, <4>1
      <4>3. QED BY <1>1, <1>2, <2>3, <4>2
    <3>6. QED BY <1>1, <1>2, <2>3, <3>1, <3>2, <3>3, <3>4, <3>5
  <2>4. \A j, k \in 1..Len(r) : r[j] = r[k] => j = k
    BY <1>1, <1>2, <2>3
  <2>5. QED BY <1>1, <2>4, Injective
<1>7. QED BY <1>5, <1>6 DEF r

-----------------------------------------------------------------------------
(* What a step finds *)

\* Where a thread is while others are in the middle of an operation.
Outside == {"absent", "user", "locking", "awaiting"}

\* Sets of threads are finite.
LEMMA ThreadsFinite ==
  \A S \in SUBSET Threads : IsFiniteSet(S) /\ Cardinality(S) \in Nat
<1>1. IsFiniteSet(Threads)
  BY SimClockAssumption, FS_AddElement DEF Threads
<1>2. QED BY <1>1, FS_Subset, FS_CardinalityType

\* Names of condition variables, threads and Nobody are different.
LEMMA Distinct ==
  /\ Nobody \notin Threads /\ Main \in Threads /\ Users \subseteq Threads
  /\ \A t \in Threads : t \notin CondVars /\ t \in Conds /\ t # Nobody
  /\ CondVars \subseteq Conds /\ Signals \subseteq CondVars /\ Broadcasts \subseteq CondVars
BY SimClockAssumption DEF Threads, Conds, CondVars

\* A thread that takes a step anywhere but in the tests and waits of
\* q3_cond_wait finds all others outside of the library's critical parts.
LEMMA Alone ==
  ASSUME TypeOK, ControlOK, NEW t \in Threads, cur \in {t, Nobody},
         pc[t] \notin {"absent", "awaiting"}, pc[t] = "testing" => cond[t] = t
  PROVE  \A u \in Threads \ {t} : pc[u] \in Outside
<1> SUFFICES ASSUME NEW u \in Threads, u # t PROVE pc[u] \in Outside
  OBVIOUS
<1>1. cur # u
  BY Distinct
<1>2. pc[u] \notin {"inserting", "queued", "inserted", "counted"}
  BY <1>1 DEF ControlOK, OneAtATime
<1>3. ~(pc[u] = "testing" /\ cond[u] # u)
  BY <1>1 DEF ControlOK, OneAtATime
<1>4. ASSUME NeedsWaitMutex(u) PROVE FALSE
  <2>1. holder["wait_mutex"] = u
    BY <1>4 DEF ControlOK, MutexesOK
  <2>2. ~NeedsWaitMutex(t)
    BY <2>1 DEF ControlOK, MutexesOK
  <2>3. pc[t] \in {"user", "locking", "inserting", "queued"}
    BY <2>2 DEF NeedsWaitMutex, TypeOK
  <2>4. CASE pc[t] \in {"inserting", "queued"}
    <3>1. holder["wait_mutex"] = Nobody
      BY <2>4 DEF ControlOK, OneAtATime
    <3>2. QED BY <2>1, <3>1, Distinct
  <2>5. CASE pc[t] \in {"user", "locking"}
    <3>1. Ready(t)
      BY <2>5, Distinct DEF ControlOK, ThreadsOK, ThreadOK, Ready, Stopped, Sleeper, Waiter
    <3>2. QED BY <1>1, <2>1, <2>5, <3>1 DEF ControlOK, OneAtATime
  <2>6. QED BY <2>3, <2>4, <2>5
<1>5. pc[u] \notin {"inserted", "counted", "releasing", "testing"}
  BY <1>3, <1>4 DEF NeedsWaitMutex
<1>6. QED BY <1>2, <1>5 DEF TypeOK, Outside

\* Nobody has wait_mutex when a thread outside of the library takes a step.
LEMMA WaitMutexFree ==
  ASSUME TypeOK, ControlOK, NEW t \in Threads, cur \in {t, Nobody},
         pc[t] \in {"user", "locking"}
  PROVE  holder["wait_mutex"] = Nobody
<1>1. \A u \in Threads : ~NeedsWaitMutex(u)
  BY Alone DEF NeedsWaitMutex, Outside
<1>2. holder["wait_mutex"] \in Threads \cup {Nobody}
  BY DEF TypeOK, Mutexes
<1>3. QED BY <1>1, <1>2 DEF ControlOK, MutexesOK

\* Who signals finds every waiter in pth_cond_await, and its list complete.
LEMMA WaitersAwait ==
  ASSUME TypeOK, ControlOK, NEW t \in Threads, cur \in {t, Nobody}, pc[t] = "user"
  PROVE  \A u \in Threads : Waiter(u) => pc[u] = "awaiting" /\ u # t
BY Alone, Distinct DEF ControlOK, ThreadsOK, ThreadOK, Waiter, Outside

\* A thread waits on its own condition inside pth_cond_await, or nobody does.
LEMMA OwnAwaiting ==
  ASSUME TypeOK, ControlOK, AwaitingCounted, NEW n \in Threads
  PROVE  cnWaiters[n] = 0 <=> ~(pc[n] = "awaiting" /\ cond[n] = n)
<1> DEFINE A == {u \in Threads : pc[u] = "awaiting" /\ cond[u] = n}
<1>1. cnWaiters[n] = Cardinality(A)
  BY Distinct DEF AwaitingCounted
<1>2. A # {} <=> n \in A
  BY Distinct DEF ControlOK, ThreadsOK, ThreadOK
<1>3. IsFiniteSet(A)
  BY ThreadsFinite
<1>4. QED BY <1>1, <1>2, <1>3, FS_EmptySet

\* The first sleeper, who is woken.
Next1 == Head(waitq)

\* When the last ready thread stops, somebody sleeps; all sleepers are inside
\* pth_cond_await, but maybe the thread that stops.
LEMMA SomebodySleeps ==
  ASSUME IInv, NEW t \in Threads, cur \in {t, Nobody}, pc[t] \in {"inserted", "counted"},
         nthreads = 0
  PROVE  /\ waitq # <<>> /\ Next1 \in Threads /\ Sleeper(Next1)
         /\ IF Next1 = t THEN pc[t] = "inserted"
            ELSE pc[Next1] = "awaiting" /\ cond[Next1] = Next1 /\ ~done[Next1]
         /\ \A u \in Threads : ~Ready(u)
<1>1. \A u \in Threads : ~Ready(u)
  <2>1. {u \in Threads : Ready(u)} = {}
    <3>1. IsFiniteSet({u \in Threads : Ready(u)})
      BY ThreadsFinite
    <3>2. QED BY <3>1, FS_EmptySet DEF IInv, CountsOK, ReadyCounted
  <2>2. QED BY <2>1
<1>2. waitq \in Seq(Threads) /\ IsInjective(waitq)
  BY DEF IInv, TypeOK, QueuesOK
<1>3. Sleeper(Main)
  BY <1>1, Distinct DEF IInv, ControlOK, ThreadsOK, Ready, Stopped, Waiter
<1>4. waitq # <<>>
  BY <1>2, <1>3, EmptyToSet, Distinct DEF IInv, QueuesOK
<1>5. Next1 \in Threads /\ Next1 \in ToSet(waitq)
  BY <1>2, <1>4, TailToSet, HeadTailProperties DEF Next1
<1>6. Sleeper(Next1)
  BY <1>5 DEF IInv, QueuesOK
<1>7. CASE Next1 = t
  BY <1>1, <1>4, <1>5, <1>6, <1>7, Distinct
     DEF Sleeper, IInv, ControlOK, ThreadsOK, ThreadOK, Waiter, Entering
<1>8. CASE Next1 # t
  <2>1. pc[Next1] \in Outside
    BY <1>5, <1>8, Alone DEF IInv
  <2>2. QED BY <1>1, <1>4, <1>5, <1>6, <1>8, <2>1 DEF Sleeper, Outside
<1>9. QED BY <1>7, <1>8

\* What q3_usleep and q3_cond_wait do when they have counted themselves out:
\* nothing, or time moves and the first sleeper becomes the only ready thread.
Waking(t) ==
  /\ waitq # <<>> /\ Next1 \in Threads /\ Sleeper(Next1)
  /\ IF Next1 = t THEN pc[t] = "inserted"
     ELSE pc[Next1] = "awaiting" /\ cond[Next1] = Next1 /\ ~done[Next1]
  /\ \A u \in Threads : ~Ready(u)
  /\ waitq' = Tail(waitq) /\ Elapse(left[Next1]) /\ pos' = pos
  /\ done' = [done EXCEPT ![Next1] = TRUE]
  /\ nthreads' = 1
  /\ pthq' = [pthq EXCEPT ![Next1] = <<>>]
  /\ cur' = IF Next1 = t THEN t ELSE Nobody
  /\ UNCHANGED <<cnWaiters, signaled, broken>>

LEMMA WakesEffect ==
  ASSUME IInv, NEW t \in Threads, cur \in {t, Nobody}, pc[t] \in {"inserted", "counted"},
         WakesIfLast(t)
  PROVE  \/ /\ cur' = t /\ nthreads # 0
            /\ UNCHANGED <<nthreads, waitq, left, pos, done, pthq, cnWaiters, signaled, broken>>
         \/ Waking(t)
<1>1. CASE nthreads # 0
  BY <1>1 DEF WakesIfLast, RunsOn, timer, pth
<1>2. CASE nthreads = 0
  <2>1. /\ waitq # <<>> /\ Next1 \in Threads /\ Sleeper(Next1)
        /\ IF Next1 = t THEN pc[t] = "inserted"
           ELSE pc[Next1] = "awaiting" /\ cond[Next1] = Next1 /\ ~done[Next1]
        /\ \A u \in Threads : ~Ready(u)
    BY <1>2, SomebodySleeps
  <2>2. /\ waitq' = Tail(waitq) /\ Elapse(left[Next1]) /\ UNCHANGED <<pos, broken>>
        /\ done' = [done EXCEPT ![Next1] = TRUE] /\ nthreads' = 1
        /\ Notify(t, Next1, "one")
    BY <1>2, <2>1 DEF WakesIfLast, WakeNext, Next1
  <2>3. cnWaiters[Next1] = 0 <=> Next1 = t
    BY <2>1, OwnAwaiting DEF IInv, CountsOK
  <2>4. /\ signaled \in [Conds -> {"no", "one", "broadcast"}] /\ signaled[Next1] = "no"
        /\ pthq \in [Conds -> Seq(Threads)] /\ Next1 \in Conds
    BY <2>1, Distinct DEF IInv, TypeOK, PthOK
  <2>5. CASE Next1 = t
    <3>1. pthq[Next1] = <<>>
      BY <2>1, <2>5 DEF IInv, PthOK
    <3>2. cur' = t /\ UNCHANGED <<pthq, cnWaiters, signaled>>
      BY <2>2, <2>3, <2>5 DEF Notify, RunsOn, pth
    <3>3. pthq' = [pthq EXCEPT ![Next1] = <<>>]
      BY <2>4, <3>1, <3>2
    <3>4. QED BY <2>1, <2>2, <2>5, <3>2, <3>3 DEF Waking
  <2>6. CASE Next1 # t
    <3>1. pthq[Next1] = <<Next1>>
      BY <2>1, <2>6 DEF IInv, PthOK
    <3>2. /\ cur' = Nobody /\ UNCHANGED cnWaiters
          /\ pthq' = [pthq EXCEPT ![Next1] = Tail(<<Next1>>)]
          /\ signaled' = [signaled EXCEPT ![Next1] = "no"]
      BY <2>2, <2>3, <2>6, <3>1 DEF Notify, Switches
    <3>3. signaled' = signaled /\ Tail(<<Next1>>) = <<>>
      BY <2>4, <3>2
    <3>4. QED BY <2>1, <2>2, <2>6, <3>2, <3>3 DEF Waking
  <2>7. QED BY <2>5, <2>6
<1>3. QED BY <1>1, <1>2

-----------------------------------------------------------------------------
(* Where the threads are, and who may run *)

\* What a signal or broadcast changes for a thread: some waiters are marked.
LEMMA MarksWaiters ==
  ASSUME IInv, NEW t \in Threads, cur \in {t, Nobody}, pc[t] = "user", NEW cv \in CondVars,
         \/ UNCHANGED done
         \/ \E n \in Nat : Mark(cv, n)
  PROVE  /\ done' \in [Threads -> BOOLEAN]
         /\ \A u \in Threads : done'[u] # done[u]
              => done'[u] /\ cond[u] = cv /\ pc[u] = "awaiting" /\ u # t
<1>1. CASE UNCHANGED done
  BY <1>1 DEF IInv, TypeOK
<1>2. ASSUME NEW n \in Nat, Mark(cv, n)
      PROVE  /\ done' \in [Threads -> BOOLEAN]
             /\ \A u \in Threads : done'[u] # done[u]
                  => done'[u] /\ cond[u] = cv /\ pc[u] = "awaiting" /\ u # t
  <2>1. \A u \in Threads : done[u] \in BOOLEAN
    BY DEF IInv, TypeOK
  <2>2. done' = [u \in Threads |-> done[u] \/ \E i \in DOMAIN cq[cv] : i <= n /\ cq[cv][i] = u]
    BY <1>2 DEF Mark
  <2>3. ASSUME NEW u \in Threads, done'[u] # done[u]
        PROVE  done'[u] /\ cond[u] = cv /\ pc[u] = "awaiting" /\ u # t
    <3>1. ~done[u] /\ u \in ToSet(cq[cv])
      BY <2>1, <2>2, <2>3 DEF ToSet
    <3>2. cond[u] = cv /\ Waiter(u)
      BY <3>1 DEF IInv, QueuesOK, Waiter
    <3>3. pc[u] = "awaiting" /\ u # t
      BY <3>2, WaitersAwait DEF IInv
    <3>4. QED BY <2>1, <2>2, <2>3, <3>2, <3>3
  <2>4. QED BY <2>2, <2>3
<1>3. QED BY <1>1, <1>2

\* Nobody who signals or broadcasts changes more than done, cur and the lists.
LEMMA SignalEffect ==
  ASSUME IInv, NEW t \in Threads, NEW cv \in CondVars,
         q3_cond_signal(t, cv) \/ q3_cond_broadcast(t, cv)
  PROVE  /\ cur \in {t, Nobody} /\ pc[t] = "user" /\ holder["mutex"] = t /\ cur' \in {t, Nobody}
         /\ UNCHANGED <<holder, pc, cond, waitq, left, pos, cnWaiters>>
         /\ done' \in [Threads -> BOOLEAN]
         /\ \A u \in Threads : done'[u] # done[u]
              => done'[u] /\ cond[u] = cv /\ pc[u] = "awaiting" /\ u # t
<1>1. /\ cur \in {t, Nobody} /\ pc[t] = "user" /\ holder["mutex"] = t
      /\ UNCHANGED <<holder, pc, cond, waitq, left, pos>>
      /\ \E kind \in {"one", "broadcast"} : Notify(t, cv, kind)
      /\ \/ UNCHANGED done
         \/ Mark(cv, 1) \/ Mark(cv, Len(cq[cv]))
  BY DEF q3_cond_signal, q3_cond_broadcast, At, timer
<1>2. cur' \in {t, Nobody} /\ UNCHANGED cnWaiters
  BY <1>1 DEF Notify, RunsOn, Switches, pth
<1>3. 1 \in Nat /\ Len(cq[cv]) \in Nat
  BY DEF IInv, TypeOK
<1>4. QED BY <1>1, <1>2, <1>3, MarksWaiters

\* The types that no step's own text changes from what the other invariants say.
SchedTyped ==
  /\ cur \in Threads \cup {Nobody}
  /\ holder \in [Mutexes -> Threads \cup {Nobody}]
  /\ pc \in [Threads -> {"absent", "user", "locking", "inserting", "inserted",
                         "queued", "counted", "releasing", "testing", "awaiting"}]
  /\ cond \in [Threads -> Conds]
  /\ pos \in [Threads -> Threads \cup {Nobody}]
  /\ done \in [Threads -> BOOLEAN]
ListsTyped ==
  /\ cq \in [CondVars -> Seq(Threads)] /\ waiting \in [CondVars -> Nat]
  /\ pthq \in [Conds -> Seq(Threads)] /\ cnWaiters \in [Conds -> Int]
  /\ signaled \in [Conds -> {"no", "one", "broadcast"}]

\* One step's effect on what ThreadsOK is about.
LEMMA ThreadsNext == IInv /\ [Next]_vars => ThreadsOK'
<1> SUFFICES ASSUME IInv, [Next]_vars PROVE ThreadsOK'
  OBVIOUS
<1> USE Distinct DEF ThreadsOK, ThreadOK, Waiter, Entering
<1>0. ThreadsOK /\ TypeOK /\ SchedTyped
  BY DEF IInv, ControlOK, TypeOK, SchedTyped
<1>1. ASSUME NEW u \in Users, q3_create(u) PROVE ThreadsOK'
  BY <1>0, <1>1 DEF q3_create, Goto, SchedTyped
<1>2. ASSUME NEW t \in Users, q3_mutex_lock(t) \/ q3_mutex_unlock(t) PROVE ThreadsOK'
  BY <1>0, <1>2 DEF q3_mutex_lock, q3_mutex_unlock, Goto, At, SchedTyped
<1>3. ASSUME NEW t \in Users, NEW cv \in CondVars, CondWaitQueues(t, cv) PROVE ThreadsOK'
  BY <1>0, <1>3, SimClockAssumption DEF CondWaitQueues, Goto, SchedTyped
<1>4. ASSUME NEW t \in Users, NEW cv \in CondVars,
             q3_cond_signal(t, cv) \/ q3_cond_broadcast(t, cv)
      PROVE  ThreadsOK'
  BY <1>0, <1>4, SignalEffect DEF SchedTyped
<1>5. ASSUME NEW t \in Threads, Usleep(t) PROVE ThreadsOK'
  <2>1. ASSUME NEW d \in Delays, UsleepAlone(t, d) PROVE ThreadsOK'
    BY <1>0, <2>1 DEF UsleepAlone
  <2>2. ASSUME NEW d \in Delays, UsleepFinds(t, d) PROVE ThreadsOK'
    BY <1>0, <2>2 DEF UsleepFinds, Goto, At, SchedTyped
  <2>3. CASE UsleepInserts(t)
    BY <1>0, <2>3 DEF UsleepInserts, Goto, At, SchedTyped
  <2>4. CASE UsleepCounts(t)
    <3>1. /\ cur \in {t, Nobody} /\ pc[t] = "inserted" /\ WakesIfLast(t)
          /\ pc' = [pc EXCEPT ![t] = "testing"] /\ UNCHANGED cond
      BY <2>4 DEF UsleepCounts, At, Goto
    <3>2. UNCHANGED done \/ Waking(t)
      BY <3>1, WakesEffect
    <3>3. CASE UNCHANGED done
      BY <1>0, <3>1, <3>3 DEF SchedTyped
    <3>4. CASE Waking(t)
      <4>1. /\ Next1 \in Threads /\ done' = [done EXCEPT ![Next1] = TRUE]
            /\ pc[Next1] = "awaiting" \/ (Next1 = t /\ pc[t] = "inserted")
        BY <3>4 DEF Waking
      <4>2. QED BY <1>0, <3>1, <4>1 DEF SchedTyped
    <3>5. QED BY <3>2, <3>3, <3>4
  <2>5. QED BY <1>5, <2>1, <2>2, <2>3, <2>4 DEF Usleep
<1>6. ASSUME NEW t \in Threads, Waits(t) PROVE ThreadsOK'
  <2>1. CASE MutexLocked(t)
    BY <1>0, <2>1 DEF MutexLocked, Goto, At, SchedTyped
  <2>2. CASE CondWaitCounts(t)
    BY <1>0, <2>2 DEF CondWaitCounts, Goto, At, SchedTyped
  <2>3. CASE CondWaitWakes(t)
    <3>1. /\ cur \in {t, Nobody} /\ pc[t] = "counted" /\ WakesIfLast(t)
          /\ pc' = [pc EXCEPT ![t] = "releasing"] /\ UNCHANGED cond
      BY <2>3 DEF CondWaitWakes, At, Goto
    <3>2. UNCHANGED done \/ Waking(t)
      BY <3>1, WakesEffect
    <3>3. CASE UNCHANGED done
      BY <1>0, <3>1, <3>3 DEF SchedTyped
    <3>4. CASE Waking(t)
      <4>1. /\ Next1 \in Threads /\ done' = [done EXCEPT ![Next1] = TRUE]
            /\ pc[Next1] = "awaiting" \/ (Next1 = t /\ pc[t] = "inserted")
        BY <3>4 DEF Waking
      <4>2. QED BY <1>0, <3>1, <4>1 DEF SchedTyped
    <3>5. QED BY <3>2, <3>3, <3>4
  <2>4. CASE CondWaitReleases(t)
    BY <1>0, <2>4 DEF CondWaitReleases, Goto, At, SchedTyped
  <2>5. CASE Sleeps(t)
    BY <1>0, <2>5 DEF Sleeps, Await, Goto, At, SchedTyped
  <2>6. CASE Awaited(t)
    BY <1>0, <2>6 DEF Awaited, Goto, At, SchedTyped
  <2>7. CASE Returns(t)
    BY <1>0, <2>7 DEF Returns, Goto, At, SchedTyped
  <2>8. CASE Blocks(t)
    BY <1>0, <2>8 DEF Blocks
  <2>9. QED BY <1>6, <2>1, <2>2, <2>3, <2>4, <2>5, <2>6, <2>7, <2>8 DEF Waits
<1>7. CASE UNCHANGED vars
  BY <1>0, <1>7 DEF vars, sched
<1>8. QED BY <1>1, <1>2, <1>3, <1>4, <1>5, <1>6, <1>7 DEF Next, Calls, CondVars

\* A step's effect on who has the mutexes.
LEMMA MutexesNext == IInv /\ [Next]_vars => MutexesOK'
<1> SUFFICES ASSUME IInv, [Next]_vars PROVE MutexesOK'
  OBVIOUS
<1> USE Distinct DEF MutexesOK, NeedsMutex, NeedsWaitMutex, Entering
<1>0. MutexesOK /\ ThreadsOK /\ TypeOK /\ SchedTyped
  BY DEF IInv, ControlOK, TypeOK, SchedTyped
<1>1. ASSUME NEW u \in Users, q3_create(u) PROVE MutexesOK'
  BY <1>0, <1>1 DEF q3_create, Goto, SchedTyped
<1>2. ASSUME NEW t \in Users, q3_mutex_lock(t) \/ q3_mutex_unlock(t) PROVE MutexesOK'
  <2>1. CASE q3_mutex_lock(t)
    BY <1>0, <2>1 DEF q3_mutex_lock, Goto, At, SchedTyped
  <2>2. CASE q3_mutex_unlock(t)
    <3>1. /\ pc[t] = "user" /\ holder["mutex"] = t /\ UNCHANGED <<pc, cond>>
          /\ holder'["mutex"] = Nobody /\ holder'["wait_mutex"] = holder["wait_mutex"]
      BY <1>0, <2>2 DEF q3_mutex_unlock, At, SchedTyped, Mutexes
    <3>2. QED BY <1>0, <3>1
  <2>3. QED BY <1>2, <2>1, <2>2
<1>3. ASSUME NEW t \in Users, NEW cv \in CondVars, CondWaitQueues(t, cv) PROVE MutexesOK'
  BY <1>0, <1>3 DEF CondWaitQueues, Goto, At, SchedTyped
<1>4. ASSUME NEW t \in Users, NEW cv \in CondVars,
             q3_cond_signal(t, cv) \/ q3_cond_broadcast(t, cv)
      PROVE  MutexesOK'
  <2>1. UNCHANGED <<holder, pc, cond>>
    BY <1>4, SignalEffect
  <2>2. QED BY <1>0, <2>1
<1>5. ASSUME NEW t \in Threads, Usleep(t) PROVE MutexesOK'
  <2>1. ASSUME NEW d \in Delays, UsleepAlone(t, d) PROVE MutexesOK'
    BY <1>0, <2>1 DEF UsleepAlone
  <2>2. ASSUME NEW d \in Delays, UsleepFinds(t, d) PROVE MutexesOK'
    BY <1>0, <2>2 DEF UsleepFinds, Goto, At, SchedTyped, ThreadsOK, ThreadOK
  <2>3. CASE UsleepInserts(t)
    <3>1. /\ pc[t] = "inserting" /\ pc' = [pc EXCEPT ![t] = "inserted"] /\ UNCHANGED cond
          /\ holder["wait_mutex"] = Nobody /\ holder'["wait_mutex"] = t
          /\ holder'["mutex"] = holder["mutex"]
      BY <1>0, <2>3 DEF UsleepInserts, Acquire, Goto, At, SchedTyped, Mutexes
    <3>2. QED BY <1>0, <3>1 DEF SchedTyped
  <2>4. CASE UsleepCounts(t)
    <3>1. /\ pc[t] = "inserted" /\ pc' = [pc EXCEPT ![t] = "testing"]
          /\ UNCHANGED <<holder, cond>> /\ cond[t] = t
      BY <1>0, <2>4 DEF UsleepCounts, At, Goto, ThreadsOK, ThreadOK
    <3>2. QED BY <1>0, <3>1 DEF SchedTyped
  <2>5. QED BY <1>5, <2>1, <2>2, <2>3, <2>4 DEF Usleep
<1>6. ASSUME NEW t \in Threads, Waits(t) PROVE MutexesOK'
  <2>1. CASE MutexLocked(t)
    <3>1. /\ pc[t] = "locking" /\ pc' = [pc EXCEPT ![t] = "user"] /\ UNCHANGED cond
          /\ holder["mutex"] = Nobody /\ holder'["mutex"] = t
          /\ holder'["wait_mutex"] = holder["wait_mutex"]
      BY <1>0, <2>1 DEF MutexLocked, Acquire, Goto, At, SchedTyped, Mutexes
    <3>2. QED BY <1>0, <3>1 DEF SchedTyped
  <2>2. CASE CondWaitCounts(t)
    BY <1>0, <2>2 DEF CondWaitCounts, Acquire, Goto, At, SchedTyped, Mutexes
  <2>3. CASE CondWaitWakes(t)
    BY <1>0, <2>3 DEF CondWaitWakes, At, Goto, SchedTyped
  <2>4. CASE CondWaitReleases(t)
    BY <1>0, <2>4 DEF CondWaitReleases, Goto, At, SchedTyped, Mutexes, ThreadsOK, ThreadOK, Waiter
  <2>5. CASE Sleeps(t)
    <3>1. CASE UNCHANGED <<holder, pc>>
      BY <1>0, <2>5, <3>1 DEF Sleeps
    <3>2. CASE ~UNCHANGED <<holder, pc>>
      <4>1. /\ pc[t] = "testing" /\ pc' = [pc EXCEPT ![t] = "awaiting"] /\ UNCHANGED cond
            /\ holder' = [holder EXCEPT ![MutexOf(cond[t])] = Nobody]
        BY <2>5, <3>2 DEF Sleeps, Await, Goto, At
      <4>2. CASE cond[t] = t
        <5>1. holder'["wait_mutex"] = Nobody /\ holder'["mutex"] = holder["mutex"]
          BY <1>0, <4>1, <4>2 DEF SchedTyped, Mutexes, MutexOf
        <5>2. QED BY <1>0, <4>1, <4>2, <5>1 DEF SchedTyped
      <4>3. CASE cond[t] # t
        <5>1. holder'["mutex"] = Nobody /\ holder'["wait_mutex"] = holder["wait_mutex"]
          BY <1>0, <4>1, <4>3 DEF SchedTyped, Mutexes, MutexOf, ThreadsOK, ThreadOK
        <5>2. holder["mutex"] = t
          BY <1>0, <4>1, <4>3
        <5>3. \A v \in Threads : NeedsMutex(v)' => FALSE
          BY <1>0, <4>1, <5>2 DEF SchedTyped
        <5>4. \A v \in Threads : NeedsWaitMutex(v)' <=> NeedsWaitMutex(v)
          BY <1>0, <4>1, <4>3 DEF SchedTyped
        <5>5. QED BY <1>0, <5>1, <5>3, <5>4
      <4>4. QED BY <4>2, <4>3
    <3>3. QED BY <3>1, <3>2
  <2>6. CASE Awaited(t)
    <3>1. /\ pc[t] = "awaiting" /\ pc' = [pc EXCEPT ![t] = "testing"] /\ UNCHANGED cond
          /\ holder[MutexOf(cond[t])] = Nobody
          /\ holder' = [holder EXCEPT ![MutexOf(cond[t])] = t]
      BY <2>6 DEF Awaited, Acquire, Goto, At
    <3>2. CASE cond[t] = t
      <4>1. /\ holder["wait_mutex"] = Nobody /\ holder'["wait_mutex"] = t
            /\ holder'["mutex"] = holder["mutex"]
        BY <1>0, <3>1, <3>2 DEF SchedTyped, Mutexes, MutexOf
      <4>2. QED BY <1>0, <3>1, <3>2, <4>1 DEF SchedTyped
    <3>3. CASE cond[t] # t
      <4>1. /\ holder["mutex"] = Nobody /\ holder'["mutex"] = t
            /\ holder'["wait_mutex"] = holder["wait_mutex"]
        BY <1>0, <3>1, <3>3 DEF SchedTyped, Mutexes, MutexOf, ThreadsOK, ThreadOK
      <4>2. QED BY <1>0, <3>1, <3>3, <4>1 DEF SchedTyped
    <3>4. QED BY <3>2, <3>3
  <2>7. CASE Returns(t)
    BY <1>0, <2>7 DEF Returns, Goto, At, SchedTyped, Mutexes, ThreadsOK, ThreadOK
  <2>8. CASE Blocks(t)
    BY <1>0, <2>8 DEF Blocks
  <2>9. QED BY <1>6, <2>1, <2>2, <2>3, <2>4, <2>5, <2>6, <2>7, <2>8 DEF Waits
<1>7. CASE UNCHANGED vars
  BY <1>0, <1>7 DEF vars, sched
<1>8. QED BY <1>1, <1>2, <1>3, <1>4, <1>5, <1>6, <1>7 DEF Next, Calls, CondVars

\* A step's effect on who may run: OneAtATime's second and third parts follow
\* where nobody but the running thread is in the middle of an operation.
LEMMA OneAtATimeNext == IInv /\ [Next]_vars => OneAtATime'
<1> SUFFICES ASSUME IInv, [Next]_vars PROVE OneAtATime'
  OBVIOUS
<1> USE Distinct DEF OneAtATime
<1>0. OneAtATime /\ MutexesOK /\ ThreadsOK /\ ControlOK /\ TypeOK /\ SchedTyped
  BY DEF IInv, ControlOK, TypeOK, SchedTyped
<1>1. ASSUME NEW u \in Users, q3_create(u) PROVE OneAtATime'
  <2>1. holder["wait_mutex"] = Nobody /\ \A v \in Threads \ {Main} : pc[v] \in Outside
    BY <1>0, <1>1, Alone, WaitMutexFree DEF q3_create, At
  <2>2. QED BY <1>0, <1>1, <2>1 DEF q3_create, At, RunsOn, Goto, Outside, SchedTyped
<1>2. ASSUME NEW t \in Users, q3_mutex_lock(t) \/ q3_mutex_unlock(t) PROVE OneAtATime'
  <2>1. holder["wait_mutex"] = Nobody /\ \A v \in Threads \ {t} : pc[v] \in Outside
    BY <1>0, <1>2, Alone, WaitMutexFree DEF q3_mutex_lock, q3_mutex_unlock, At
  <2>2. QED BY <1>0, <1>2, <2>1
            DEF q3_mutex_lock, q3_mutex_unlock, At, RunsOn, Goto, Outside, SchedTyped, Mutexes
<1>3. ASSUME NEW t \in Users, NEW cv \in CondVars, CondWaitQueues(t, cv) PROVE OneAtATime'
  <2>1. holder["wait_mutex"] = Nobody /\ \A v \in Threads \ {t} : pc[v] \in Outside
    BY <1>0, <1>3, Alone, WaitMutexFree DEF CondWaitQueues, At
  <2>2. QED BY <1>0, <1>3, <2>1 DEF CondWaitQueues, At, RunsOn, Goto, Outside, SchedTyped
<1>4. ASSUME NEW t \in Users, NEW cv \in CondVars,
             q3_cond_signal(t, cv) \/ q3_cond_broadcast(t, cv)
      PROVE  OneAtATime'
  <2>1. /\ cur \in {t, Nobody} /\ pc[t] = "user" /\ cur' \in {t, Nobody}
        /\ UNCHANGED <<holder, pc, cond>>
    BY <1>4, SignalEffect
  <2>2. holder["wait_mutex"] = Nobody /\ \A v \in Threads \ {t} : pc[v] \in Outside
    BY <1>0, <2>1, Alone, WaitMutexFree
  <2>3. QED BY <1>0, <2>1, <2>2 DEF Outside
<1>5. ASSUME NEW t \in Threads, Usleep(t) PROVE OneAtATime'
  <2>0. ASSUME cur \in {t, Nobody}, pc[t] \in {"user", "inserting", "inserted"}
        PROVE  \A v \in Threads \ {t} : pc[v] \in Outside
    BY <1>0, <2>0, Alone
  <2>1. ASSUME NEW d \in Delays, UsleepAlone(t, d) PROVE OneAtATime'
    <3>1. holder["wait_mutex"] = Nobody
      BY <1>0, <2>1, WaitMutexFree DEF UsleepAlone, At
    <3>2. QED BY <1>0, <2>0, <2>1, <3>1 DEF UsleepAlone, At, RunsOn, Outside
  <2>2. ASSUME NEW d \in Delays, UsleepFinds(t, d) PROVE OneAtATime'
    <3>1. holder["wait_mutex"] = Nobody
      BY <1>0, <2>2, WaitMutexFree DEF UsleepFinds, At
    <3>2. QED BY <1>0, <2>0, <2>2, <3>1 DEF UsleepFinds, At, RunsOn, Goto, Outside, SchedTyped
  <2>3. CASE UsleepInserts(t)
    BY <1>0, <2>0, <2>3
       DEF UsleepInserts, Acquire, At, RunsOn, Goto, Outside, SchedTyped, ThreadsOK, ThreadOK, Mutexes
  <2>4. CASE UsleepCounts(t)
    <3>1. /\ cur \in {t, Nobody} /\ pc[t] = "inserted" /\ WakesIfLast(t)
          /\ pc' = [pc EXCEPT ![t] = "testing"] /\ UNCHANGED <<holder, cond>>
      BY <2>4 DEF UsleepCounts, At, Goto
    <3>2. holder["wait_mutex"] = t /\ cond[t] = t /\ \A v \in Threads \ {t} : pc[v] \in Outside
      BY <1>0, <2>0, <3>1 DEF MutexesOK, NeedsWaitMutex, ThreadsOK, ThreadOK
    <3>3. CASE cur' = t
      BY <3>1, <3>2, <3>3 DEF SchedTyped, Outside
    <3>4. CASE cur' # t
      <4>1. Waking(t) /\ cur' = Nobody /\ Next1 # t
        BY <3>1, <3>4, WakesEffect DEF Waking
      <4>2. /\ pc[Next1] = "awaiting" /\ cond[Next1] = Next1
            /\ \A v \in Threads : ~Ready(v) /\ done'[v] = IF v = Next1 THEN TRUE ELSE done[v]
        BY <1>0, <4>1 DEF Waking, SchedTyped
      <4>3. \A v \in Threads : v # t /\ Ready(v)' => v = Next1
        <5>1. ASSUME NEW v \in Threads, v # t, v # Next1 PROVE Ready(v)' <=> Ready(v)
          <6>1. pc'[v] = pc[v] /\ cond'[v] = cond[v] /\ done'[v] = done[v]
            BY <1>0, <3>1, <4>2, <5>1 DEF SchedTyped
          <6>2. QED BY <6>1 DEF Ready, Stopped, Sleeper, Waiter
        <5>2. QED BY <4>2, <5>1
      <4>4. QED BY <1>0, <3>1, <3>2, <4>1, <4>2, <4>3 DEF SchedTyped, Outside
    <3>5. QED BY <3>3, <3>4
  <2>5. QED BY <1>5, <2>1, <2>2, <2>3, <2>4 DEF Usleep
<1>6. ASSUME NEW t \in Threads, Waits(t) PROVE OneAtATime'
  <2>0. ASSUME cur \in {t, Nobody}, pc[t] \in {"locking", "queued", "counted", "releasing"}
        PROVE  \A v \in Threads \ {t} : pc[v] \in Outside
    BY <1>0, <2>0, Alone
  <2>1. CASE MutexLocked(t)
    <3>1. holder["wait_mutex"] = Nobody
      BY <1>0, <2>1, WaitMutexFree DEF MutexLocked, At
    <3>2. QED BY <1>0, <2>0, <2>1, <3>1
              DEF MutexLocked, Acquire, At, RunsOn, Goto, Outside, SchedTyped, Mutexes
  <2>2. CASE CondWaitCounts(t)
    BY <1>0, <2>0, <2>2
       DEF CondWaitCounts, Acquire, At, RunsOn, Goto, Outside, SchedTyped, Mutexes
  <2>3. CASE CondWaitWakes(t)
    <3>1. /\ cur \in {t, Nobody} /\ pc[t] = "counted" /\ WakesIfLast(t)
          /\ pc' = [pc EXCEPT ![t] = "releasing"] /\ UNCHANGED <<holder, cond>>
      BY <2>3 DEF CondWaitWakes, At, Goto
    <3>2. holder["wait_mutex"] = t /\ \A v \in Threads \ {t} : pc[v] \in Outside
      BY <1>0, <2>0, <3>1 DEF MutexesOK, NeedsWaitMutex
    <3>3. CASE cur' = t
      BY <3>1, <3>2, <3>3 DEF SchedTyped, Outside
    <3>4. CASE cur' # t
      <4>1. Waking(t) /\ cur' = Nobody /\ Next1 # t
        BY <3>1, <3>4, WakesEffect DEF Waking
      <4>2. /\ pc[Next1] = "awaiting" /\ cond[Next1] = Next1
            /\ \A v \in Threads : ~Ready(v) /\ done'[v] = IF v = Next1 THEN TRUE ELSE done[v]
        BY <1>0, <4>1 DEF Waking, SchedTyped
      <4>3. \A v \in Threads : v # t /\ Ready(v)' => v = Next1
        BY <1>0, <3>1, <4>2 DEF Ready, Stopped, Sleeper, Waiter, SchedTyped
      <4>4. QED BY <1>0, <3>1, <3>2, <4>1, <4>2, <4>3 DEF SchedTyped, Outside
    <3>5. QED BY <3>3, <3>4
  <2>4. CASE CondWaitReleases(t)
    BY <1>0, <2>0, <2>4 DEF CondWaitReleases, At, RunsOn, Goto, Outside, SchedTyped, Mutexes
  <2>5. CASE Sleeps(t)
    <3>1. CASE cond[t] = t
      <4>1. \A v \in Threads \ {t} : pc[v] \in Outside
        BY <1>0, <2>5, <3>1, Alone DEF Sleeps, At
      <4>2. signaled[t] = "no"
        BY DEF IInv, PthOK
      <4>3. /\ holder'["wait_mutex"] = Nobody /\ cur' = Nobody
            /\ pc' = [pc EXCEPT ![t] = "awaiting"] /\ UNCHANGED cond
        BY <1>0, <2>5, <3>1, <4>2
           DEF Sleeps, Await, MutexOf, Goto, Switches, SchedTyped, Mutexes
      <4>4. QED BY <1>0, <4>1, <4>3 DEF SchedTyped, Outside
    <3>2. CASE cond[t] # t
      <4>1. /\ cur = t /\ pc[t] = "testing" /\ UNCHANGED <<cond, done>>
            /\ holder'["wait_mutex"] = holder["wait_mutex"]
            /\ \/ cur' = t /\ UNCHANGED pc
               \/ cur' = Nobody /\ pc' = [pc EXCEPT ![t] = "awaiting"]
        BY <1>0, <2>5, <3>2
           DEF Sleeps, Await, At, MutexOf, Goto, Switches, RunsOn, SchedTyped, Mutexes,
               ThreadsOK, ThreadOK
      <4>2. \A v \in Threads : Ready(v)' <=> Ready(v)
        BY <1>0, <3>2, <4>1 DEF SchedTyped, Ready, Stopped, Sleeper, Waiter
      <4>3. ~Ready(t)
        BY <1>0, <2>5, <3>2
           DEF Sleeps, At, ThreadsOK, ThreadOK, Ready, Stopped, Waiter
      <4>4. holder["wait_mutex"] # t
        BY <1>0, <3>2, <4>1 DEF MutexesOK, NeedsWaitMutex
      <4>5. cur' # Nobody => pc'[cur'] \notin {"absent", "awaiting"}
        BY <1>0, <4>1 DEF SchedTyped
      <4>6. ASSUME NEW v \in Threads
            PROVE  /\ pc'[v] \in {"inserting", "queued"}
                        => cur' = v /\ holder'["wait_mutex"] = Nobody
                   /\ pc'[v] \in {"inserted", "counted"} => cur' = v
                   /\ pc'[v] = "testing" /\ cond'[v] # v => cur' = v
        BY <1>0, <4>1 DEF SchedTyped
      <4>7. ASSUME NEW v \in Threads, NEW w \in Threads,
                   holder'["wait_mutex"] = v, cur' # v, w # v, Ready(w)'
            PROVE  pc'[w] = "awaiting" /\ cond'[w] = w
        <5>1. Ready(w) /\ pc[w] = "awaiting" /\ cond[w] = w
          BY <1>0, <4>1, <4>2, <4>4, <4>7
        <5>2. w # t
          BY <4>3, <5>1
        <5>3. QED BY <1>0, <4>1, <5>1, <5>2 DEF SchedTyped
      <4>8. QED BY <4>5, <4>6, <4>7
    <3>3. QED BY <3>1, <3>2
  <2>6. CASE Awaited(t)
    <3>1. /\ cur = Nobody /\ cur' = t /\ pc[t] = "awaiting" /\ UNCHANGED <<cond, done>>
          /\ pc' = [pc EXCEPT ![t] = "testing"]
          /\ t \notin ToSet(pthq[cond[t]])
          /\ holder[MutexOf(cond[t])] = Nobody
          /\ holder' = [holder EXCEPT ![MutexOf(cond[t])] = t]
      BY <1>0, <2>6 DEF Awaited, At, Acquire, RunsOn, Goto
    <3>2. CASE cond[t] = t
      <4>1. holder["wait_mutex"] = Nobody /\ holder'["wait_mutex"] = t
        BY <1>0, <3>1, <3>2 DEF SchedTyped, Mutexes, MutexOf
      <4>2. \A v \in Threads \ {t} : pc[v] \notin {"inserting", "queued"}
        BY <1>0, <3>1
      <4>3. QED BY <1>0, <3>1, <3>2, <4>1, <4>2 DEF SchedTyped
    <3>3. CASE cond[t] # t
      <4>1. holder'["wait_mutex"] = holder["wait_mutex"]
        BY <1>0, <3>1, <3>3 DEF SchedTyped, Mutexes, MutexOf, ThreadsOK, ThreadOK
      <4>2. \A v \in Threads : Ready(v)' <=> Ready(v)
        BY <1>0, <3>1, <3>3 DEF SchedTyped, Ready, Stopped, Sleeper, Waiter
      <4>3. cur' # Nobody => pc'[cur'] \notin {"absent", "awaiting"}
        BY <1>0, <3>1 DEF SchedTyped
      <4>4. ASSUME NEW v \in Threads
            PROVE  /\ pc'[v] \in {"inserting", "queued"}
                        => cur' = v /\ holder'["wait_mutex"] = Nobody
                   /\ pc'[v] \in {"inserted", "counted"} => cur' = v
                   /\ pc'[v] = "testing" /\ cond'[v] # v => cur' = v
        BY <1>0, <3>1, <4>1 DEF SchedTyped
      <4>5. ASSUME NEW v \in Threads, NEW w \in Threads,
                   holder'["wait_mutex"] = v, cur' # v, w # v, Ready(w)'
            PROVE  pc'[w] = "awaiting" /\ cond'[w] = w
        <5>1. Ready(w) /\ pc[w] = "awaiting" /\ cond[w] = w
          BY <1>0, <3>1, <4>1, <4>2, <4>5
        <5>2. w # t
          BY <3>3, <5>1
        <5>3. QED BY <1>0, <3>1, <5>1, <5>2 DEF SchedTyped
      <4>6. QED BY <4>3, <4>4, <4>5
    <3>4. QED BY <3>2, <3>3
  <2>7. CASE Returns(t)
    <3>1. /\ cur \in {t, Nobody} /\ cur' = t /\ pc[t] = "testing" /\ done[t]
          /\ pc' = [pc EXCEPT ![t] = "user"] /\ cond' = [cond EXCEPT ![t] = t]
      BY <2>7 DEF Returns, At, RunsOn, Goto
    <3>2. holder'["wait_mutex"] = Nobody
      <4>1. CASE cond[t] = t
        BY <1>0, <2>7, <4>1 DEF Returns, SchedTyped, Mutexes
      <4>2. CASE cond[t] # t
        <5>1. cur = t /\ Ready(t)
          BY <1>0, <3>1, <4>2 DEF Ready, Stopped, Sleeper, Waiter
        <5>2. \A v \in Threads : holder["wait_mutex"] # v
          BY <1>0, <3>1, <4>2, <5>1 DEF MutexesOK, NeedsWaitMutex
        <5>3. QED BY <1>0, <2>7, <4>2, <5>2 DEF Returns, SchedTyped, Mutexes
      <4>3. QED BY <4>1, <4>2
    <3>3. \A v \in Threads \ {t} : pc[v] \notin {"inserted", "counted"}
                                /\ ~(pc[v] = "testing" /\ cond[v] # v)
      <4>1. CASE cond[t] = t
        BY <1>0, <3>1, <4>1, Alone DEF Outside
      <4>2. CASE cond[t] # t
        BY <1>0, <3>1, <4>2
      <4>3. QED BY <4>1, <4>2
    <3>4. \A v \in Threads \ {t} : pc[v] \notin {"inserting", "queued"}
      <4>1. CASE cond[t] = t
        BY <1>0, <3>1, <4>1, Alone DEF Outside
      <4>2. CASE cond[t] # t
        BY <1>0, <3>1, <4>2
      <4>3. QED BY <4>1, <4>2
    <3>5. QED BY <1>0, <3>1, <3>2, <3>3, <3>4 DEF SchedTyped
  <2>8. CASE Blocks(t)
    <3>1. cur = t /\ cur' = Nobody /\ UNCHANGED <<holder, pc, cond>>
      BY <2>8 DEF Blocks, Switches
    <3>2. pc[t] = "locking"
      <4>1. PICK m \in Wanted(t) : holder[m] # Nobody
        BY <2>8 DEF Blocks
      <4>2. pc[t] \in {"locking", "inserting", "queued"}
        BY <1>0, <3>1, <4>1 DEF Wanted
      <4>3. pc[t] \in {"inserting", "queued"} => m = "wait_mutex"
        BY <4>1 DEF Wanted
      <4>4. QED BY <1>0, <4>1, <4>2, <4>3
    <3>3. holder["wait_mutex"] = Nobody /\ \A v \in Threads \ {t} : pc[v] \in Outside
      BY <1>0, <3>1, <3>2, Alone, WaitMutexFree
    <3>4. QED BY <1>0, <3>1, <3>2, <3>3 DEF Outside
  <2>9. QED BY <1>6, <2>1, <2>2, <2>3, <2>4, <2>5, <2>6, <2>7, <2>8 DEF Waits
<1>7. CASE UNCHANGED vars
  BY <1>0, <1>7 DEF vars, sched, Ready, Stopped, Sleeper, Waiter
<1>8. QED BY <1>1, <1>2, <1>3, <1>4, <1>5, <1>6, <1>7 DEF Next, Calls, CondVars

-----------------------------------------------------------------------------
(* The timer queue and the lists *)

\* Place finds the first sleeper that wakes at d or later.
LEMMA PlaceIs ==
  ASSUME TypeOK, NEW d \in Nat
  PROVE  \/ /\ Place(d) = Nobody
            /\ \A j \in 1..Len(waitq) : left[waitq[j]] < d
         \/ \E i \in 1..Len(waitq) :
              /\ Place(d) = waitq[i] /\ left[waitq[i]] >= d
              /\ \A j \in 1..Len(waitq) : j < i => left[waitq[j]] < d
<1>1. /\ waitq \in Seq(Threads) /\ Len(waitq) \in Nat /\ DOMAIN waitq = 1..Len(waitq)
      /\ \A j \in 1..Len(waitq) : left[waitq[j]] \in Nat
  <2>1. waitq \in Seq(Threads) /\ left \in [Threads -> Nat]
    BY DEF TypeOK
  <2>2. \A j \in 1..Len(waitq) : waitq[j] \in Threads
    BY <2>1, ElementOfSeq
  <2>3. QED BY <2>1, <2>2, LenProperties
<1>2. Later(d) = {i \in 1..Len(waitq) : left[waitq[i]] >= d}
  BY <1>1 DEF Later
<1>3. CASE Later(d) = {}
  <2>1. Place(d) = Nobody
    BY <1>3 DEF Place
  <2>2. ASSUME NEW j \in 1..Len(waitq) PROVE left[waitq[j]] < d
    BY <1>1, <1>2, <1>3
  <2>3. QED BY <2>1, <2>2
<1>4. CASE Later(d) # {}
  <2> DEFINE i == Min(Later(d))
  <2>1. IsFiniteSet(Later(d))
    <3>1. IsFiniteSet(1..Len(waitq))
      BY <1>1, FS_Interval
    <3>2. Later(d) \in SUBSET (1..Len(waitq))
      BY <1>2
    <3>3. QED BY <3>1, <3>2, FS_Subset
  <2>2. i \in Later(d) /\ \A j \in Later(d) : i <= j
    <3>1. Later(d) \in SUBSET Nat
      BY <1>2
    <3>2. QED BY <1>4, <2>1, <3>1, LeastOf
  <2>3. Place(d) = waitq[i]
    BY <1>4 DEF Place
  <2> HIDE DEF i
  <2>4. ASSUME NEW j \in 1..Len(waitq), j < i PROVE left[waitq[j]] < d
    <3>1. j \notin Later(d) /\ i \in Nat
      BY <1>1, <1>2, <2>2, <2>4
    <3>2. QED BY <1>1, <1>2, <3>1
  <2>5. QED BY <1>2, <2>2, <2>3, <2>4
<1>5. QED BY <1>3, <1>4

\* A thread that links itself is linked where it found its place, and the place
\* is in the queue.
LEMMA InsertEffect ==
  ASSUME IInv, NEW t \in Threads, UsleepInserts(t)
  PROVE  /\ ~broken'
         /\ waitq' \in Seq(Threads) /\ Len(waitq') = Len(waitq) + 1
         /\ ToSet(waitq') = ToSet(waitq) \cup {t} /\ IsInjective(waitq')
         /\ \E i \in 1..(Len(waitq) + 1) : \A j \in 1..(Len(waitq) + 1) :
              waitq'[j] = IF j < i THEN waitq[j] ELSE IF j = i THEN t ELSE waitq[j - 1]
         /\ Sorted'
<1>1. /\ pc[t] = "inserting" /\ UNCHANGED left
      /\ broken' = (pos[t] \notin ToSet(waitq) \cup {Nobody})
      /\ waitq' = IF pos[t] \in ToSet(waitq)
                  THEN InsertAt(waitq, Min({i \in DOMAIN waitq : waitq[i] = pos[t]}), t)
                  ELSE Append(waitq, t)
  BY DEF UsleepInserts, At
<1>2. /\ waitq \in Seq(Threads) /\ Len(waitq) \in Nat /\ DOMAIN waitq = 1..Len(waitq)
      /\ IsInjective(waitq) /\ left[t] \in Nat /\ TypeOK
      /\ \A j \in 1..Len(waitq) : left[waitq[j]] \in Nat /\ waitq[j] \in Threads
  <2>1. waitq \in Seq(Threads) /\ left \in [Threads -> Nat] /\ IsInjective(waitq) /\ TypeOK
    BY DEF IInv, TypeOK, QueuesOK
  <2>2. \A j \in 1..Len(waitq) : waitq[j] \in Threads
    BY <2>1, ElementOfSeq
  <2>3. QED BY <2>1, <2>2, LenProperties
<1>3. t \notin ToSet(waitq)
  BY <1>1 DEF IInv, QueuesOK, Sleeper
<1>4. pos[t] = Place(left[t])
  BY <1>1 DEF IInv, TimerOK, PlaceKept
<1> DEFINE LinkedAt(i) ==
             /\ \A j \in 1..(Len(waitq) + 1) :
                  waitq'[j] = IF j < i THEN waitq[j] ELSE IF j = i THEN t ELSE waitq[j - 1]
             /\ \A j \in 1..Len(waitq) : j < i => left[waitq[j]] < left[t]
             /\ \A j \in 1..Len(waitq) : i <= j => left[t] <= left[waitq[j]]
             /\ waitq' \in Seq(Threads) /\ Len(waitq') = Len(waitq) + 1
             /\ ToSet(waitq') = ToSet(waitq) \cup {t} /\ IsInjective(waitq')
             /\ ~broken'
<1>5. \E i \in 1..(Len(waitq) + 1) : LinkedAt(i)
  <2>1. CASE /\ pos[t] = Nobody
             /\ \A j \in 1..Len(waitq) : left[waitq[j]] < left[t]
    <3>1. Nobody \notin ToSet(waitq)
      BY <1>2, InToSet, Distinct
    <3>2. ~broken' /\ waitq' = Append(waitq, t)
      BY <1>1, <2>1, <3>1
    <3>3. /\ waitq' \in Seq(Threads) /\ Len(waitq') = Len(waitq) + 1
          /\ waitq'[Len(waitq) + 1] = t /\ \A j \in 1..Len(waitq) : waitq'[j] = waitq[j]
      BY <1>2, <3>2, AppendProperties
    <3>4. ToSet(waitq') = ToSet(waitq) \cup {t} /\ IsInjective(waitq')
      BY <1>2, <1>3, <3>2, AppendToSet
    <3>5. Len(waitq) + 1 \in 1..(Len(waitq) + 1)
      BY <1>2
    <3>6. \A j \in 1..(Len(waitq) + 1) :
            waitq'[j] = IF j < Len(waitq) + 1 THEN waitq[j]
                        ELSE IF j = Len(waitq) + 1 THEN t ELSE waitq[j - 1]
      BY <1>2, <3>3
    <3>7. \A j \in 1..Len(waitq) : ~(Len(waitq) + 1 <= j)
      BY <1>2
    <3>8. LinkedAt(Len(waitq) + 1)
      BY <2>1, <3>2, <3>3, <3>4, <3>6, <3>7
    <3>9. QED BY <3>5, <3>8
  <2>2. ASSUME NEW i \in 1..Len(waitq),
               pos[t] = waitq[i], left[waitq[i]] >= left[t],
               \A j \in 1..Len(waitq) : j < i => left[waitq[j]] < left[t]
        PROVE  \E k \in 1..(Len(waitq) + 1) : LinkedAt(k)
    <3>1. pos[t] \in ToSet(waitq)
      BY <1>2, <2>2, InToSet
    <3>2. {k \in DOMAIN waitq : waitq[k] = pos[t]} = {i}
      BY <1>2, <2>2, Injective
    <3>3. Min({i}) = i
      <4>1. {i} \in SUBSET Nat /\ {i} # {} /\ IsFiniteSet({i})
        <5>1. i \in Nat
          OBVIOUS
        <5>2. IsFiniteSet({i})
          BY FS_Singleton
        <5>3. QED BY <5>1, <5>2
      <4>2. QED BY <4>1, LeastOf
    <3>4. ~broken' /\ waitq' = InsertAt(waitq, i, t)
      BY <1>1, <3>1, <3>2, <3>3
    <3>5. i \in 1..(Len(waitq) + 1)
      BY <1>2
    <3>6. /\ waitq' \in Seq(Threads) /\ Len(waitq') = Len(waitq) + 1
          /\ \A j \in 1..(Len(waitq) + 1) :
               waitq'[j] = IF j < i THEN waitq[j] ELSE IF j = i THEN t ELSE waitq[j - 1]
      <4>1. /\ InsertAt(waitq, i, t) \in Seq(Threads)
            /\ Len(InsertAt(waitq, i, t)) = Len(waitq) + 1
            /\ \A j \in 1..(Len(waitq) + 1) : InsertAt(waitq, i, t)[j]
                 = IF j < i THEN waitq[j] ELSE IF j = i THEN t ELSE waitq[j - 1]
        <5>1. waitq \in Seq(Threads)
          BY <1>2
        <5>2. QED BY <3>5, <5>1, InsertAtIs
      <4>2. QED BY <3>4, <4>1
    <3>7. ToSet(waitq') = ToSet(waitq) \cup {t} /\ IsInjective(waitq')
      BY <1>2, <1>3, <3>4, <3>5, InsertToSet
    <3>8. ASSUME NEW j \in 1..Len(waitq), i <= j PROVE left[t] <= left[waitq[j]]
      <4>1. left[waitq[i]] <= left[waitq[j]]
        BY <1>2, <3>8 DEF IInv, TimerOK, Sorted
      <4>2. QED BY <1>2, <2>2, <4>1
    <3>9. LinkedAt(i)
      BY <2>2, <3>4, <3>6, <3>7, <3>8
    <3>10. QED BY <3>5, <3>9
  <2>3. QED BY <1>2, <1>4, <2>1, <2>2, PlaceIs
<1>6. PICK i \in 1..(Len(waitq) + 1) : LinkedAt(i)
  BY <1>5
<1>7. Sorted'
  <2>1. DOMAIN waitq' = 1..(Len(waitq) + 1)
    BY <1>6, LenProperties
  <2>2. SUFFICES ASSUME NEW j \in 1..(Len(waitq) + 1), NEW k \in 1..(Len(waitq) + 1), j < k
                 PROVE  left[waitq'[j]] <= left[waitq'[k]]
    BY <1>1, <2>1 DEF Sorted
  <2>3. \A m, n \in 1..Len(waitq) : m < n => left[waitq[m]] <= left[waitq[n]]
    BY <1>2 DEF IInv, TimerOK, Sorted
  <2>4. CASE k < i
    <3>1. waitq'[j] = waitq[j] /\ waitq'[k] = waitq[k] /\ j \in 1..Len(waitq) /\ k \in 1..Len(waitq)
      BY <1>2, <1>6, <2>2, <2>4
    <3>2. QED BY <2>2, <2>3, <3>1
  <2>5. CASE k = i
    <3>1. waitq'[j] = waitq[j] /\ waitq'[k] = t /\ j \in 1..Len(waitq)
      BY <1>2, <1>6, <2>2, <2>5
    <3>2. QED BY <1>2, <1>6, <2>2, <2>5, <3>1
  <2>6. CASE k > i /\ j < i
    <3>1. /\ waitq'[j] = waitq[j] /\ waitq'[k] = waitq[k - 1]
          /\ j \in 1..Len(waitq) /\ k - 1 \in 1..Len(waitq) /\ i <= k - 1
      BY <1>2, <1>6, <2>2, <2>6
    <3>2. left[waitq[j]] < left[t] /\ left[t] <= left[waitq[k - 1]]
      BY <1>6, <2>6, <3>1
    <3>3. QED BY <1>2, <3>1, <3>2
  <2>7. CASE k > i /\ j = i
    <3>1. waitq'[j] = t /\ waitq'[k] = waitq[k - 1] /\ k - 1 \in 1..Len(waitq) /\ i <= k - 1
      BY <1>2, <1>6, <2>2, <2>7
    <3>2. QED BY <1>6, <3>1
  <2>8. CASE k > i /\ j > i
    <3>1. /\ waitq'[j] = waitq[j - 1] /\ waitq'[k] = waitq[k - 1]
          /\ j - 1 \in 1..Len(waitq) /\ k - 1 \in 1..Len(waitq) /\ j - 1 < k - 1
      BY <1>2, <1>6, <2>2, <2>8
    <3>2. QED BY <2>3, <3>1
  <2>9. QED BY <1>2, <2>2, <2>4, <2>5, <2>6, <2>7, <2>8
<1>8. QED BY <1>6, <1>7

\* A step that moves nobody between the queues.
LEMMA SameQueues ==
  ASSUME QueuesOK, UNCHANGED <<waitq, cq>>,
         \A v \in Threads : /\ Sleeper(v)' <=> Sleeper(v)
                            /\ \A cv \in CondVars : (cond'[v] = cv /\ ~done'[v])
                                                      <=> (cond[v] = cv /\ ~done[v])
  PROVE  QueuesOK'
BY DEF QueuesOK

\* The first sleeper leaves the timer queue when it is woken.
LEMMA WakingQueues ==
  ASSUME IInv, NEW t \in Threads, Waking(t), NEW label \in {"testing", "releasing"},
         label = "testing" <=> pc[t] = "inserted", pc[t] \in {"inserted", "counted"},
         pc' = [pc EXCEPT ![t] = label], UNCHANGED <<cond, cq>>
  PROVE  QueuesOK'
<1>1. /\ waitq # <<>> /\ Next1 \in Threads /\ Sleeper(Next1) /\ waitq' = Tail(waitq)
      /\ done' = [done EXCEPT ![Next1] = TRUE]
      /\ IF Next1 = t THEN pc[t] = "inserted"
         ELSE pc[Next1] = "awaiting" /\ cond[Next1] = Next1 /\ ~done[Next1]
  BY DEF Waking
<1>2. waitq \in Seq(Threads) /\ IsInjective(waitq) /\ TypeOK /\ ThreadsOK /\ QueuesOK
  BY DEF IInv, TypeOK, QueuesOK, ControlOK
<1>3. ToSet(waitq') = ToSet(waitq) \ {Next1} /\ IsInjective(waitq')
  BY <1>1, <1>2, TailToSet DEF Next1
<1>4. cond[Next1] = Next1
  BY <1>1, <1>2 DEF ThreadsOK, ThreadOK
<1>5. ASSUME NEW v \in Threads PROVE Sleeper(v)' <=> Sleeper(v) /\ v # Next1
  <2>1. CASE v = Next1
    BY <1>1, <1>2, <1>4, <2>1 DEF Sleeper, TypeOK
  <2>2. CASE v # Next1 /\ v = t
    BY <1>1, <1>2, <2>2, Distinct DEF Sleeper, TypeOK, ThreadsOK, ThreadOK, Waiter, Entering
  <2>3. CASE v # Next1 /\ v # t
    BY <1>1, <1>2, <2>3 DEF Sleeper, TypeOK
  <2>4. QED BY <2>1, <2>2, <2>3
<1>6. ASSUME NEW v \in Threads, NEW cv \in CondVars
      PROVE  (cond'[v] = cv /\ ~done'[v]) <=> (cond[v] = cv /\ ~done[v])
  BY <1>1, <1>2, <1>4, Distinct DEF TypeOK
<1>7. QED BY <1>2, <1>3, <1>5, <1>6 DEF QueuesOK

\* The threads marked leave the list of the condition variable.
LEMMA MarkedLeave ==
  ASSUME IInv, NEW t \in Threads, NEW cv \in CondVars, NEW n \in 0..Len(cq[cv]), Mark(cv, n),
         UNCHANGED <<pc, cond, waitq>>
  PROVE  /\ QueuesOK'
         /\ done' = [v \in Threads |-> done[v] \/ \E i \in 1..n : cq[cv][i] = v]
<1> DEFINE s == cq[cv]
           r == Rest(s, n)
<1>1. /\ s \in Seq(Threads) /\ DOMAIN s = 1..Len(s) /\ IsInjective(s) /\ Len(s) \in Nat
      /\ TypeOK /\ QueuesOK
  <2>1. TypeOK /\ QueuesOK
    BY DEF IInv
  <2>2. s \in Seq(Threads)
    BY <2>1 DEF TypeOK
  <2>3. IsInjective(s)
    BY <2>1 DEF QueuesOK
  <2>4. QED BY <2>1, <2>2, <2>3, LenProperties
<1>2. /\ IsInjective(r)
      /\ \A v : v \in ToSet(r) <=> v \in ToSet(s) /\ ~\E i \in 1..n : s[i] = v
  <2>1. s \in Seq(Threads) /\ n \in 0..Len(s) /\ IsInjective(s)
    BY <1>1
  <2> HIDE DEF s
  <2>2. QED BY <2>1, DropFirst
<1>3. cq' = [cq EXCEPT ![cv] = r] /\ cq'[cv] = r
      /\ done' = [v \in Threads |-> done[v] \/ \E i \in DOMAIN s : i <= n /\ s[i] = v]
  BY <1>1 DEF Mark, TypeOK, Rest
<1>4. n \in Nat /\ n <= Len(s)
  BY <1>1
<1>5. \A v \in Threads : (\E i \in 1..n : s[i] = v) => v \in ToSet(s)
  <2>1. \A i \in 1..n : s[i] \in ToSet(s)
    BY <1>1, <1>4 DEF ToSet
  <2>2. QED BY <2>1
<1> HIDE DEF s, r
<1>6. done' = [v \in Threads |-> done[v] \/ \E i \in 1..n : s[i] = v]
  <2>1. \A v \in Threads : (\E i \in DOMAIN s : i <= n /\ s[i] = v) <=> (\E i \in 1..n : s[i] = v)
    BY <1>1, <1>4
  <2>2. QED BY <1>3, <2>1
<1>7. \A v \in Threads : v \in ToSet(s) <=> cond[v] = cv /\ ~done[v]
  BY <1>1 DEF QueuesOK, s
<1>8. ASSUME NEW w \in CondVars
      PROVE  /\ IsInjective(cq'[w])
             /\ \A v \in Threads : v \in ToSet(cq'[w]) <=> cond'[v] = w /\ ~done'[v]
  <2>1. CASE w = cv
    <3>1. ASSUME NEW v \in Threads PROVE v \in ToSet(r) <=> cond'[v] = cv /\ ~done'[v]
      <4>1. done'[v] <=> done[v] \/ \E i \in 1..n : s[i] = v
        BY <1>6
      <4>2. QED BY <1>2, <1>7, <4>1
    <3>2. QED BY <1>2, <1>3, <2>1, <3>1
  <2>2. CASE w # cv
    <3>1. cq'[w] = cq[w]
      BY <1>1, <1>3, <2>2 DEF TypeOK
    <3>2. ASSUME NEW v \in Threads, cond[v] = w PROVE done'[v] <=> done[v]
      BY <1>5, <1>6, <1>7, <2>2, <3>2
    <3>3. QED BY <1>1, <3>1, <3>2 DEF QueuesOK
  <2>3. QED BY <2>1, <2>2
<1>9. ASSUME NEW v \in Threads PROVE Sleeper(v)' <=> Sleeper(v)
  <2>1. cond[v] = v => (done'[v] <=> done[v])
    <3>1. v # cv
      BY Distinct
    <3>2. QED BY <1>5, <1>6, <1>7, <3>1
  <2>2. QED BY <2>1 DEF Sleeper
<1>10. QED BY <1>1, <1>6, <1>8, <1>9 DEF QueuesOK, s

\* Who has the mutex and is outside of the library finds waiting right: the
\* first n waiters are marked, counted as ready and no longer as waiting.
LEMMA SignalMarks ==
  ASSUME IInv, NEW t \in Threads, NEW cv \in CondVars,
         q3_cond_signal(t, cv) \/ q3_cond_broadcast(t, cv)
  PROVE  \E n \in 0..Len(cq[cv]) :
           /\ Mark(cv, n) /\ ~broken'
           /\ waiting' = [waiting EXCEPT ![cv] = Len(cq[cv]) - n]
           /\ nthreads' = nthreads + n
           /\ IF q3_cond_signal(t, cv) THEN n = 1 \/ cq[cv] = <<>> ELSE n = Len(cq[cv])
<1> DEFINE len == Len(cq[cv])
<1>1. /\ TypeOK /\ cq[cv] \in Seq(Threads) /\ len \in Nat /\ ~broken
      /\ waiting \in [CondVars -> Nat] /\ cq \in [CondVars -> Seq(Threads)]
      /\ done \in [Threads -> BOOLEAN]
  BY DEF IInv, TypeOK
<1>2. waiting[cv] = len
  <2>1. cur \in {t, Nobody} /\ pc[t] = "user"
    BY SignalEffect
  <2>2. \A v \in Threads : pc[v] \notin Entering
    BY <2>1, Alone DEF IInv, Outside, Entering
  <2>3. WaitingExact
    BY DEF IInv, CountsOK
  <2>4. ~\E v \in Threads : cond[v] = cv /\ pc[v] \in Entering
    BY <2>2
  <2>5. waiting[cv] + 0 = len
    BY <2>3, <2>4 DEF WaitingExact
  <2>6. waiting[cv] \in Nat
    BY <1>1
  <2>7. QED BY <2>5, <2>6
<1>3. CASE len = 0
  <2>1. UNCHANGED <<cq, waiting, nthreads, done, broken>>
    BY <1>2, <1>3 DEF q3_cond_signal, q3_cond_broadcast, lists
  <2>2. cq[cv] = <<>>
    BY <1>1, <1>3
  <2>3. Mark(cv, 0)
    <3>1. SubSeq(cq[cv], 0 + 1, len) = cq[cv]
      BY <1>1, SubSeqFull
    <3>2. cq' = [cq EXCEPT ![cv] = SubSeq(@, 0 + 1, Len(@))]
      BY <1>1, <2>1, <3>1
    <3>3. \A v \in Threads : ~\E i \in DOMAIN cq[cv] : i <= 0 /\ cq[cv][i] = v
      BY <2>2
    <3>4. done' = [v \in Threads |-> done[v] \/ \E i \in DOMAIN cq[cv] : i <= 0 /\ cq[cv][i] = v]
      BY <1>1, <2>1, <3>3
    <3>5. broken' = (0 > Len(cq[cv]))
      <4>1. broken' = FALSE
        BY <1>1, <2>1
      <4>2. (0 > Len(cq[cv])) = FALSE
        BY <1>1, <1>3
      <4>3. QED BY <4>1, <4>2
    <3>6. QED BY <3>2, <3>4, <3>5 DEF Mark
  <2>4. waiting' = [waiting EXCEPT ![cv] = len - 0] /\ nthreads' = nthreads + 0
    BY <1>1, <1>2, <1>3, <2>1 DEF TypeOK
  <2>5. 0 \in 0..Len(cq[cv]) /\ 0 = Len(cq[cv]) /\ ~broken'
    BY <1>1, <1>3, <2>1
  <2>6. QED BY <2>2, <2>3, <2>4, <2>5
<1>4. CASE len > 0 /\ q3_cond_signal(t, cv)
  <2>1. waiting' = [waiting EXCEPT ![cv] = len - 1] /\ nthreads' = nthreads + 1 /\ Mark(cv, 1)
    BY <1>1, <1>2, <1>4 DEF q3_cond_signal
  <2>2. 1 \in 0..len
    BY <1>1, <1>4
  <2>3. ~broken'
    <3>1. broken' = (1 > Len(cq[cv]))
      BY <2>1 DEF Mark
    <3>2. ~(1 > Len(cq[cv]))
      BY <1>1, <1>4
    <3>3. QED BY <3>1, <3>2
  <2>4. QED BY <1>4, <2>1, <2>2, <2>3
<1>5. CASE len > 0 /\ ~q3_cond_signal(t, cv)
  <2>1. waiting' = [waiting EXCEPT ![cv] = len - len] /\ nthreads' = nthreads + len /\ Mark(cv, len)
    BY <1>1, <1>2, <1>5 DEF q3_cond_broadcast
  <2>2. len \in 0..len
    BY <1>1
  <2>3. ~broken'
    <3>1. broken' = (len > Len(cq[cv]))
      BY <2>1 DEF Mark
    <3>2. ~(len > Len(cq[cv]))
      BY <1>1
    <3>3. QED BY <3>1, <3>2
  <2>4. QED BY <1>5, <2>1, <2>2, <2>3
<1>6. QED BY <1>1, <1>3, <1>4, <1>5

\* A step's effect on the queues.
LEMMA QueuesNext == IInv /\ [Next]_vars => QueuesOK'
<1> SUFFICES ASSUME IInv, [Next]_vars PROVE QueuesOK'
  OBVIOUS
<1>0. QueuesOK /\ ThreadsOK /\ TypeOK
  BY DEF IInv, ControlOK
<1>1. ASSUME NEW u \in Users, q3_create(u) PROVE QueuesOK'
  BY <1>0, <1>1, SameQueues, Distinct DEF q3_create, Goto, Sleeper, TypeOK, timer, lists
<1>2. ASSUME NEW t \in Users, q3_mutex_lock(t) \/ q3_mutex_unlock(t) PROVE QueuesOK'
  BY <1>0, <1>2, SameQueues, Distinct
     DEF q3_mutex_lock, q3_mutex_unlock, At, Goto, Sleeper, TypeOK, timer, lists
<1>3. ASSUME NEW t \in Users, NEW cv \in CondVars, CondWaitQueues(t, cv) PROVE QueuesOK'
  <2>1. /\ pc[t] = "user" /\ cq' = [cq EXCEPT ![cv] = Append(@, t)]
        /\ cond' = [cond EXCEPT ![t] = cv] /\ done' = [done EXCEPT ![t] = FALSE]
        /\ pc' = [pc EXCEPT ![t] = "queued"] /\ UNCHANGED waitq /\ t \in Threads
    BY <1>3, Distinct DEF CondWaitQueues, At, Goto, timer
  <2>2. cond[t] = t /\ ~done[t] /\ t \notin CondVars
    BY <1>0, <2>1, Distinct DEF ThreadsOK, ThreadOK
  <2>3. t \notin ToSet(cq[cv]) /\ IsInjective(cq[cv])
    BY <1>0, <2>1, <2>2 DEF QueuesOK
  <2>4. cq[cv] \in Seq(Threads)
    BY <1>0 DEF TypeOK
  <2>5. ToSet(Append(cq[cv], t)) = ToSet(cq[cv]) \cup {t} /\ IsInjective(Append(cq[cv], t))
    BY <2>1, <2>3, <2>4, AppendToSet
  <2>6. \A v \in Threads : Sleeper(v)' <=> Sleeper(v)
    BY <1>0, <2>1, <2>2 DEF TypeOK, Sleeper
  <2>7. ASSUME NEW w \in CondVars
        PROVE  /\ IsInjective(cq'[w])
               /\ \A v \in Threads : v \in ToSet(cq'[w]) <=> cond'[v] = w /\ ~done'[v]
    <3>1. cq'[w] = IF w = cv THEN Append(cq[cv], t) ELSE cq[w]
      BY <1>0, <2>1 DEF TypeOK
    <3>2. IsInjective(cq'[w])
      BY <1>0, <2>5, <3>1 DEF QueuesOK
    <3>3. ASSUME NEW v \in Threads
          PROVE  v \in ToSet(cq'[w]) <=> cond'[v] = w /\ ~done'[v]
      <4>1. v \in ToSet(cq[w]) <=> cond[v] = w /\ ~done[v]
        BY <1>0 DEF QueuesOK
      <4>2. v \in ToSet(cq'[w]) <=> v \in ToSet(cq[w]) \/ (w = cv /\ v = t)
        BY <2>5, <3>1
      <4>3. QED BY <1>0, <2>1, <2>2, <4>1, <4>2 DEF TypeOK
    <3>4. QED BY <3>2, <3>3
  <2>8. QED BY <1>0, <2>1, <2>6, <2>7 DEF QueuesOK
<1>4. ASSUME NEW t \in Users, NEW cv \in CondVars,
             q3_cond_signal(t, cv) \/ q3_cond_broadcast(t, cv)
      PROVE  QueuesOK'
  <2>1. UNCHANGED <<pc, cond, waitq>>
    BY <1>4, SignalEffect, Distinct
  <2>2. QED BY <1>4, <2>1, SignalMarks, MarkedLeave, Distinct
<1>5. ASSUME NEW t \in Threads, Usleep(t) PROVE QueuesOK'
  <2>1. ASSUME NEW d \in Delays, UsleepAlone(t, d) PROVE QueuesOK'
    BY <1>0, <2>1, SameQueues DEF UsleepAlone, Sleeper, lists
  <2>2. ASSUME NEW d \in Delays, UsleepFinds(t, d) PROVE QueuesOK'
    BY <1>0, <2>2, SameQueues, Distinct
       DEF UsleepFinds, Goto, At, TypeOK, Sleeper, lists, ThreadsOK, ThreadOK
  <2>3. CASE UsleepInserts(t)
    <3>1. ToSet(waitq') = ToSet(waitq) \cup {t} /\ IsInjective(waitq')
      BY <2>3, InsertEffect
    <3>2. /\ pc[t] = "inserting" /\ pc' = [pc EXCEPT ![t] = "inserted"]
          /\ UNCHANGED <<cond, done, cq>>
      BY <2>3 DEF UsleepInserts, At, Goto, lists
    <3>3. \A v \in Threads : Sleeper(v)' <=> Sleeper(v) \/ v = t
      BY <1>0, <3>2 DEF Sleeper, TypeOK
    <3>4. QED BY <1>0, <3>1, <3>2, <3>3 DEF QueuesOK
  <2>4. CASE UsleepCounts(t)
    <3>1. /\ cur \in {t, Nobody} /\ pc[t] = "inserted" /\ WakesIfLast(t)
          /\ pc' = [pc EXCEPT ![t] = "testing"] /\ UNCHANGED <<cond, cq>>
      BY <2>4 DEF UsleepCounts, At, Goto, lists
    <3>2. CASE UNCHANGED <<waitq, done>>
      BY <1>0, <3>1, <3>2, SameQueues DEF Sleeper, TypeOK, ThreadsOK, ThreadOK
    <3>3. CASE Waking(t)
      BY <3>1, <3>3, WakingQueues
    <3>4. QED BY <3>1, <3>2, <3>3, WakesEffect
  <2>5. QED BY <1>5, <2>1, <2>2, <2>3, <2>4 DEF Usleep
<1>6. ASSUME NEW t \in Threads, Waits(t) PROVE QueuesOK'
  <2>1. CASE MutexLocked(t)
    BY <1>0, <2>1, SameQueues DEF MutexLocked, At, Goto, Sleeper, TypeOK, timer, lists
  <2>2. CASE CondWaitCounts(t)
    BY <1>0, <2>2, SameQueues DEF CondWaitCounts, At, Goto, Sleeper, TypeOK, timer, lists
  <2>3. CASE CondWaitWakes(t)
    <3>1. /\ cur \in {t, Nobody} /\ pc[t] = "counted" /\ WakesIfLast(t)
          /\ pc' = [pc EXCEPT ![t] = "releasing"] /\ UNCHANGED <<cond, cq>>
      BY <2>3 DEF CondWaitWakes, At, Goto, lists
    <3>2. CASE UNCHANGED <<waitq, done>>
      BY <1>0, <3>1, <3>2, SameQueues DEF Sleeper, TypeOK
    <3>3. CASE Waking(t)
      BY <3>1, <3>3, WakingQueues
    <3>4. QED BY <3>1, <3>2, <3>3, WakesEffect
  <2>4. CASE CondWaitReleases(t)
    <3>1. /\ pc[t] = "releasing" /\ pc' = [pc EXCEPT ![t] = "testing"]
          /\ UNCHANGED <<cond, done, waitq, cq>>
      BY <2>4 DEF CondWaitReleases, At, Goto, timer
    <3>2. cond[t] # t
      BY <1>0, <3>1, Distinct DEF ThreadsOK, ThreadOK, Waiter, Entering
    <3>3. \A v \in Threads : Sleeper(v)' <=> Sleeper(v)
      BY <1>0, <3>1, <3>2 DEF Sleeper, TypeOK
    <3>4. QED BY <1>0, <3>1, <3>3, SameQueues
  <2>5. CASE Sleeps(t)
    BY <1>0, <2>5, SameQueues DEF Sleeps, Await, At, Goto, Sleeper, TypeOK, timer, lists
  <2>6. CASE Awaited(t)
    BY <1>0, <2>6, SameQueues DEF Awaited, At, Goto, Sleeper, TypeOK, timer, lists
  <2>7. CASE Returns(t)
    <3>1. /\ pc[t] = "testing" /\ done[t] /\ pc' = [pc EXCEPT ![t] = "user"]
          /\ cond' = [cond EXCEPT ![t] = t] /\ done' = [done EXCEPT ![t] = FALSE]
          /\ UNCHANGED <<waitq, cq>>
      BY <2>7 DEF Returns, At, Goto, lists
    <3>2. \A v \in Threads : Sleeper(v)' <=> Sleeper(v)
      BY <1>0, <3>1 DEF Sleeper, TypeOK
    <3>3. \A v \in Threads, cv \in CondVars :
            (cond'[v] = cv /\ ~done'[v]) <=> (cond[v] = cv /\ ~done[v])
      BY <1>0, <3>1, Distinct DEF TypeOK
    <3>4. QED BY <1>0, <3>1, <3>2, <3>3, SameQueues
  <2>8. CASE Blocks(t)
    BY <1>0, <2>8, SameQueues DEF Blocks, Sleeper, timer, lists
  <2>9. QED BY <1>6, <2>1, <2>2, <2>3, <2>4, <2>5, <2>6, <2>7, <2>8 DEF Waits
<1>7. CASE UNCHANGED vars
  BY <1>0, <1>7, SameQueues DEF vars, sched, timer, lists, Sleeper
<1>8. QED BY <1>1, <1>2, <1>3, <1>4, <1>5, <1>6, <1>7 DEF Next, Calls, CondVars

-----------------------------------------------------------------------------
(* The counters *)

\* The first n of a list of different elements are n.
LEMMA FirstCount ==
  ASSUME NEW S, NEW s \in Seq(S), NEW n \in 0..Len(s), IsInjective(s)
  PROVE  Cardinality({s[i] : i \in 1..n}) = n
<1> DEFINE F == {s[i] : i \in 1..n}
           f == [i \in 1..n |-> s[i]]
<1>1. Len(s) \in Nat /\ n \in Nat /\ 1..n \subseteq 1..Len(s)
  BY LenProperties
<1>2. \A i, j \in 1..n : f[i] = f[j] => i = j
  BY <1>1, Injective
<1>3. f \in Bijection(1..n, F)
  <2>1. f \in [1..n -> F] /\ \A x \in F : \E i \in 1..n : f[i] = x
    OBVIOUS
  <2>2. QED BY <1>2, <2>1, Fun_IsBij
<1>4. ExistsBijection(1..n, F)
  BY <1>3 DEF ExistsBijection
<1>5. IsFiniteSet(1..n) /\ Cardinality(1..n) = n
  BY <1>1, FS_Interval
<1>6. QED BY <1>4, <1>5, FS_Bijection

\* The threads that are ready.
ReadySet == {t \in Threads : Ready(t)}

\* A step that makes nobody ready or not.
LEMMA SameReady ==
  ASSUME ReadyCounted, nthreads' = nthreads, \A v \in Threads : Ready(v)' <=> Ready(v)
  PROVE  ReadyCounted'
<1>1. ReadySet' = ReadySet
  BY DEF ReadySet
<1>2. QED BY <1>1 DEF ReadyCounted, ReadySet

\* A thread stops being ready.
LEMMA OneStops ==
  ASSUME ReadyCounted, NEW t \in Threads, Ready(t), nthreads' = nthreads - 1,
         \A v \in Threads : Ready(v)' <=> Ready(v) /\ v # t
  PROVE  ReadyCounted'
<1>1. ReadySet' = ReadySet \ {t} /\ t \in ReadySet
  BY DEF ReadySet
<1>2. IsFiniteSet(ReadySet)
  BY ThreadsFinite DEF ReadySet
<1>3. Cardinality(ReadySet') = Cardinality(ReadySet) - 1
  BY <1>1, <1>2, FS_RemoveElement
<1>4. QED BY <1>3 DEF ReadyCounted, ReadySet

\* The set T of threads becomes ready.
LEMMA SomeStart ==
  ASSUME ReadyCounted, NEW T \in SUBSET Threads, \A v \in T : ~Ready(v),
         nthreads' = nthreads + Cardinality(T),
         \A v \in Threads : Ready(v)' <=> Ready(v) \/ v \in T
  PROVE  ReadyCounted'
<1>1. ReadySet' = ReadySet \cup T /\ ReadySet \cap T = {}
  BY DEF ReadySet
<1>2. /\ IsFiniteSet(ReadySet) /\ IsFiniteSet(T)
      /\ Cardinality(ReadySet) \in Nat /\ Cardinality(T) \in Nat
  BY ThreadsFinite DEF ReadySet
<1>3. Cardinality(ReadySet') = Cardinality(ReadySet) + Cardinality(T)
  <2>1. Cardinality(ReadySet \cup T)
          = Cardinality(ReadySet) + Cardinality(T) - Cardinality(ReadySet \cap T)
    BY <1>2, FS_Union
  <2>2. Cardinality(ReadySet \cap T) = 0
    BY <1>1, FS_EmptySet
  <2>3. QED BY <1>1, <1>2, <2>1, <2>2
<1>4. QED BY <1>3 DEF ReadyCounted, ReadySet

\* When time moves, the sleeper it moves to is the only ready thread.
LEMMA WakingReady ==
  ASSUME IInv, NEW t \in Threads, Waking(t), NEW label \in {"testing", "releasing"},
         label = "testing" <=> pc[t] = "inserted", pc[t] \in {"inserted", "counted"},
         pc' = [pc EXCEPT ![t] = label], UNCHANGED cond
  PROVE  ReadyCounted'
<1>1. TypeOK /\ ThreadsOK
  BY DEF IInv, ControlOK
<1>2. /\ Next1 \in Threads /\ done' = [done EXCEPT ![Next1] = TRUE] /\ nthreads' = 1
      /\ IF Next1 = t THEN pc[t] = "inserted"
         ELSE pc[Next1] = "awaiting" /\ cond[Next1] = Next1 /\ ~done[Next1]
      /\ \A v \in Threads : ~Ready(v)
  BY DEF Waking
<1>3. cond[Next1] = Next1
  BY <1>1, <1>2 DEF ThreadsOK, ThreadOK
<1>4. ASSUME NEW v \in Threads PROVE Ready(v)' <=> v = Next1
  <2>1. CASE v = Next1
    BY <1>1, <1>2, <1>3, <2>1, Distinct DEF Ready, Stopped, Sleeper, Waiter, TypeOK
  <2>2. CASE v # Next1 /\ v = t
    BY <1>1, <1>2, <2>2, Distinct
       DEF Ready, Stopped, Sleeper, Waiter, TypeOK, ThreadsOK, ThreadOK, Entering
  <2>3. CASE v # Next1 /\ v # t
    BY <1>1, <1>2, <2>3 DEF Ready, Stopped, Sleeper, Waiter, TypeOK
  <2>4. QED BY <2>1, <2>2, <2>3
<1>5. ReadySet' = {Next1}
  BY <1>2, <1>4 DEF ReadySet
<1>6. Cardinality({Next1}) = 1
  BY FS_Singleton
<1>7. QED BY <1>2, <1>5, <1>6 DEF ReadyCounted, ReadySet

\* A step's effect on how many threads are ready.
LEMMA ReadyCountedNext == IInv /\ [Next]_vars => ReadyCounted'
<1> SUFFICES ASSUME IInv, [Next]_vars PROVE ReadyCounted'
  OBVIOUS
<1> USE Distinct DEF Ready, Stopped, Sleeper, Waiter
<1>0. ReadyCounted /\ ThreadsOK /\ TypeOK
  BY DEF IInv, ControlOK, CountsOK
<1>1. ASSUME NEW u \in Users, q3_create(u) PROVE ReadyCounted'
  <2>1. /\ u \in Threads /\ pc[u] = "absent" /\ pc' = [pc EXCEPT ![u] = "user"]
        /\ nthreads' = nthreads + 1 /\ UNCHANGED <<cond, done>>
    BY <1>1 DEF q3_create, Goto, timer
  <2>2. cond[u] = u /\ ~done[u] /\ ~Ready(u)
    BY <1>0, <2>1 DEF ThreadsOK, ThreadOK
  <2>3. \A v \in Threads : Ready(v)' <=> Ready(v) \/ v \in {u}
    BY <1>0, <2>1, <2>2 DEF TypeOK
  <2>4. Cardinality({u}) = 1
    BY FS_Singleton
  <2>5. QED BY ONLY <1>0, <2>1, <2>2, <2>3, <2>4, SomeStart
<1>2. ASSUME NEW t \in Users, q3_mutex_lock(t) \/ q3_mutex_unlock(t) PROVE ReadyCounted'
  BY <1>0, <1>2, SameReady DEF q3_mutex_lock, q3_mutex_unlock, At, Goto, TypeOK
<1>3. ASSUME NEW t \in Users, NEW cv \in CondVars, CondWaitQueues(t, cv) PROVE ReadyCounted'
  BY <1>0, <1>3, SameReady
     DEF CondWaitQueues, At, Goto, TypeOK, ThreadsOK, ThreadOK
<1>4. ASSUME NEW t \in Users, NEW cv \in CondVars,
             q3_cond_signal(t, cv) \/ q3_cond_broadcast(t, cv)
      PROVE  ReadyCounted'
  <2>1. PICK n \in 0..Len(cq[cv]) : Mark(cv, n) /\ nthreads' = nthreads + n
    BY <1>4, SignalMarks
  <2>2. UNCHANGED <<pc, cond, waitq>> /\ cur \in {t, Nobody} /\ pc[t] = "user"
    BY <1>4, SignalEffect
  <2>3. done' = [v \in Threads |-> done[v] \/ \E i \in 1..n : cq[cv][i] = v]
    BY <1>4, <2>1, <2>2, MarkedLeave
  <2> DEFINE T == {cq[cv][i] : i \in 1..n}
  <2>4. cq[cv] \in Seq(Threads) /\ IsInjective(cq[cv])
    BY DEF IInv, TypeOK, QueuesOK
  <2>5. Cardinality(T) = n
    BY <2>4, FirstCount
  <2>6. \A v \in T : v \in Threads /\ cond[v] = cv /\ ~done[v] /\ pc[v] = "awaiting"
    <3>1. ASSUME NEW i \in 1..n PROVE cq[cv][i] \in Threads /\ cq[cv][i] \in ToSet(cq[cv])
      <4>1. i \in 1..Len(cq[cv])
        BY <2>4, LenProperties
      <4>2. QED BY <2>4, <4>1, ElementOfSeq, InToSet
    <3>2. \A v \in T : v \in Threads /\ cond[v] = cv /\ ~done[v]
      BY <3>1 DEF IInv, QueuesOK
    <3>3. QED BY <2>2, <3>2, WaitersAwait DEF IInv
  <2>7. \A v \in Threads : done'[v] <=> done[v] \/ v \in T
    BY <2>3
  <2> HIDE DEF T
  <2>8. \A v \in T : ~Ready(v)
    BY <2>6
  <2>9. \A v \in Threads : Ready(v)' <=> Ready(v) \/ v \in T
    BY <2>2, <2>6, <2>7
  <2>10. QED BY ONLY <1>0, <2>1, <2>5, <2>6, <2>8, <2>9, SomeStart
<1>5. ASSUME NEW t \in Threads, Usleep(t) PROVE ReadyCounted'
  <2>1. ASSUME NEW d \in Delays, UsleepAlone(t, d) PROVE ReadyCounted'
    BY <1>0, <2>1, SameReady DEF UsleepAlone
  <2>2. ASSUME NEW d \in Delays, UsleepFinds(t, d) PROVE ReadyCounted'
    BY <1>0, <2>2, SameReady DEF UsleepFinds, At, Goto, TypeOK, ThreadsOK, ThreadOK
  <2>3. CASE UsleepInserts(t)
    <3>1. /\ pc[t] = "inserting" /\ pc' = [pc EXCEPT ![t] = "inserted"]
          /\ nthreads' = nthreads - 1 /\ UNCHANGED <<cond, done>>
      BY <2>3 DEF UsleepInserts, At, Goto
    <3>2. Ready(t) /\ \A v \in Threads : Ready(v)' <=> Ready(v) /\ v # t
      BY <1>0, <3>1 DEF TypeOK, ThreadsOK, ThreadOK
    <3>3. QED BY ONLY <1>0, <3>1, <3>2, OneStops, <1>5
  <2>4. CASE UsleepCounts(t)
    <3>1. /\ cur \in {t, Nobody} /\ pc[t] = "inserted" /\ WakesIfLast(t)
          /\ pc' = [pc EXCEPT ![t] = "testing"] /\ UNCHANGED cond
      BY <2>4 DEF UsleepCounts, At, Goto
    <3>2. CASE UNCHANGED <<nthreads, done>>
      BY <1>0, <3>1, <3>2, SameReady DEF TypeOK, ThreadsOK, ThreadOK
    <3>3. CASE Waking(t)
      BY <3>1, <3>3, WakingReady
    <3>4. QED BY <3>1, <3>2, <3>3, WakesEffect
  <2>5. QED BY <1>5, <2>1, <2>2, <2>3, <2>4 DEF Usleep
<1>6. ASSUME NEW t \in Threads, Waits(t) PROVE ReadyCounted'
  <2>1. CASE MutexLocked(t)
    BY <1>0, <2>1, SameReady DEF MutexLocked, At, Goto, TypeOK, timer
  <2>2. CASE CondWaitCounts(t)
    <3>1. /\ pc[t] = "queued" /\ pc' = [pc EXCEPT ![t] = "counted"]
          /\ nthreads' = nthreads - 1 /\ UNCHANGED <<cond, done>>
      BY <2>2 DEF CondWaitCounts, At, Goto
    <3>2. Ready(t) /\ \A v \in Threads : Ready(v)' <=> Ready(v) /\ v # t
      BY <1>0, <3>1 DEF TypeOK, ThreadsOK, ThreadOK, Entering
    <3>3. QED BY ONLY <1>0, <3>1, <3>2, OneStops, <1>6
  <2>3. CASE CondWaitWakes(t)
    <3>1. /\ cur \in {t, Nobody} /\ pc[t] = "counted" /\ WakesIfLast(t)
          /\ pc' = [pc EXCEPT ![t] = "releasing"] /\ UNCHANGED cond
      BY <2>3 DEF CondWaitWakes, At, Goto
    <3>2. CASE UNCHANGED <<nthreads, done>>
      BY <1>0, <3>1, <3>2, SameReady DEF TypeOK
    <3>3. CASE Waking(t)
      BY <3>1, <3>3, WakingReady
    <3>4. QED BY <3>1, <3>2, <3>3, WakesEffect
  <2>4. CASE CondWaitReleases(t)
    BY <1>0, <2>4, SameReady
       DEF CondWaitReleases, At, Goto, TypeOK, ThreadsOK, ThreadOK, Entering
  <2>5. CASE Sleeps(t)
    <3>1. /\ pc[t] = "testing" /\ UNCHANGED <<cond, done, nthreads>>
          /\ UNCHANGED pc \/ pc' = [pc EXCEPT ![t] = "awaiting"]
      BY <2>5 DEF Sleeps, Await, At, Goto
    <3>2. \A v \in Threads : Ready(v)' <=> Ready(v)
      BY <1>0, <3>1 DEF TypeOK
    <3>3. QED BY <1>0, <3>1, <3>2, SameReady
  <2>6. CASE Awaited(t)
    BY <1>0, <2>6, SameReady DEF Awaited, At, Goto, TypeOK
  <2>7. CASE Returns(t)
    BY <1>0, <2>7, SameReady DEF Returns, At, Goto, TypeOK
  <2>8. CASE Blocks(t)
    BY <1>0, <2>8, SameReady DEF Blocks
  <2>9. QED BY <1>6, <2>1, <2>2, <2>3, <2>4, <2>5, <2>6, <2>7, <2>8 DEF Waits
<1>7. CASE UNCHANGED vars
  BY <1>0, <1>7, SameReady DEF vars, sched
<1>8. QED BY <1>1, <1>2, <1>3, <1>4, <1>5, <1>6, <1>7 DEF Next, Calls, CondVars

\* A step that lets nobody enter or leave q3_cond_wait's first part.
LEMMA SameWaiting ==
  ASSUME WaitingExact, UNCHANGED <<waiting, cq>>,
         \A v \in Threads, cv \in CondVars :
           (cond'[v] = cv /\ pc'[v] \in Entering) <=> (cond[v] = cv /\ pc[v] \in Entering)
  PROVE  WaitingExact'
BY DEF WaitingExact

\* Nobody is in that part where a thread outside of the library takes a step.
LEMMA NobodyEnters ==
  ASSUME IInv, NEW t \in Threads, cur \in {t, Nobody}, pc[t] = "user"
  PROVE  /\ \A v \in Threads : pc[v] \notin Entering
         /\ \A cv \in CondVars : waiting[cv] = Len(cq[cv])
<1>1. \A v \in Threads : pc[v] \notin Entering
  BY Alone DEF IInv, Outside, Entering
<1>2. waiting \in [CondVars -> Nat]
  BY DEF IInv, TypeOK
<1>3. QED BY <1>1, <1>2 DEF IInv, CountsOK, WaitingExact

\* A step's effect on what condition variables count.
LEMMA WaitingExactNext == IInv /\ [Next]_vars => WaitingExact'
<1> SUFFICES ASSUME IInv, [Next]_vars PROVE WaitingExact'
  OBVIOUS
<1> USE Distinct DEF Entering
<1>0. WaitingExact /\ ThreadsOK /\ TypeOK
  BY DEF IInv, ControlOK, CountsOK
<1>1. ASSUME NEW u \in Users, q3_create(u) PROVE WaitingExact'
  BY <1>0, <1>1, SameWaiting DEF q3_create, Goto, TypeOK, lists
<1>2. ASSUME NEW t \in Users, q3_mutex_lock(t) \/ q3_mutex_unlock(t) PROVE WaitingExact'
  BY <1>0, <1>2, SameWaiting DEF q3_mutex_lock, q3_mutex_unlock, At, Goto, TypeOK, lists
<1>3. ASSUME NEW t \in Users, NEW cv \in CondVars, CondWaitQueues(t, cv) PROVE WaitingExact'
  <2>1. /\ cur \in {t, Nobody} /\ pc[t] = "user" /\ pc' = [pc EXCEPT ![t] = "queued"]
        /\ cond' = [cond EXCEPT ![t] = cv] /\ cq' = [cq EXCEPT ![cv] = Append(@, t)]
        /\ UNCHANGED waiting /\ t \in Threads
    BY <1>3 DEF CondWaitQueues, At, Goto
  <2>2. /\ \A v \in Threads : pc[v] \notin Entering
        /\ \A w \in CondVars : waiting[w] = Len(cq[w])
    BY <2>1, NobodyEnters
  <2>3. \A v \in Threads, w \in CondVars :
          (cond'[v] = w /\ pc'[v] \in Entering) <=> v = t /\ w = cv
    BY <1>0, <2>1, <2>2 DEF TypeOK
  <2>4. cq[cv] \in Seq(Threads) /\ Len(Append(cq[cv], t)) = Len(cq[cv]) + 1
    BY <1>0, <2>1, AppendProperties DEF TypeOK
  <2>5. ASSUME NEW w \in CondVars
        PROVE  waiting'[w] + (IF \E v \in Threads : cond'[v] = w /\ pc'[v] \in Entering
                              THEN 1 ELSE 0) = Len(cq'[w])
    <3>1. cq'[w] = (IF w = cv THEN Append(cq[cv], t) ELSE cq[w]) /\ waiting'[w] = Len(cq[w])
      BY <1>0, <2>1, <2>2 DEF TypeOK
    <3>2. (\E v \in Threads : cond'[v] = w /\ pc'[v] \in Entering) <=> w = cv
      BY <2>1, <2>3
    <3>3. CASE w = cv
      <4>1. Len(cq'[w]) = waiting'[w] + 1
        BY <2>4, <3>1, <3>3
      <4>2. QED BY <3>2, <3>3, <4>1
    <3>4. CASE w # cv
      <4>1. waiting'[w] \in Nat /\ Len(cq'[w]) = waiting'[w]
        BY <1>0, <2>1, <3>1, <3>4 DEF TypeOK
      <4>2. QED BY <3>2, <3>4, <4>1
    <3>5. QED BY <3>3, <3>4
  <2>6. QED BY <2>5 DEF WaitingExact
<1>4. ASSUME NEW t \in Users, NEW cv \in CondVars,
             q3_cond_signal(t, cv) \/ q3_cond_broadcast(t, cv)
      PROVE  WaitingExact'
  <2>1. PICK n \in 0..Len(cq[cv]) :
          Mark(cv, n) /\ waiting' = [waiting EXCEPT ![cv] = Len(cq[cv]) - n]
    BY <1>4, SignalMarks
  <2>2. UNCHANGED <<pc, cond>> /\ cur \in {t, Nobody} /\ pc[t] = "user"
    BY <1>4, SignalEffect
  <2>3. /\ \A v \in Threads : pc[v] \notin Entering
        /\ \A w \in CondVars : waiting[w] = Len(cq[w])
    BY <2>2, NobodyEnters
  <2>4. cq[cv] \in Seq(Threads) /\ IsInjective(cq[cv]) /\ Len(cq[cv]) \in Nat
    BY DEF IInv, TypeOK, QueuesOK
  <2>5. Len(Rest(cq[cv], n)) = Len(cq[cv]) - n
    BY <2>4, DropFirst
  <2>6. cq' = [cq EXCEPT ![cv] = Rest(cq[cv], n)]
    BY <2>1 DEF Mark, Rest
  <2>7. ASSUME NEW w \in CondVars PROVE waiting'[w] = Len(cq'[w]) /\ waiting'[w] \in Nat
    <3>1. CASE w = cv
      <4>1. waiting'[w] = Len(cq[cv]) - n /\ cq'[w] = Rest(cq[cv], n)
        BY <1>0, <2>1, <2>6, <3>1 DEF TypeOK
      <4>2. QED BY <2>4, <2>5, <4>1
    <3>2. CASE w # cv
      <4>1. waiting'[w] = waiting[w] /\ cq'[w] = cq[w] /\ waiting[w] \in Nat
        BY <1>0, <2>1, <2>6, <3>2 DEF TypeOK
      <4>2. QED BY <2>3, <4>1
    <3>3. QED BY <3>1, <3>2
  <2>8. QED BY <2>2, <2>3, <2>7 DEF WaitingExact
<1>5. ASSUME NEW t \in Threads, Usleep(t) PROVE WaitingExact'
  <2>1. ASSUME NEW d \in Delays, UsleepAlone(t, d) PROVE WaitingExact'
    BY <1>0, <2>1, SameWaiting DEF UsleepAlone, lists
  <2>2. ASSUME NEW d \in Delays, UsleepFinds(t, d) PROVE WaitingExact'
    BY <1>0, <2>2, SameWaiting DEF UsleepFinds, At, Goto, TypeOK, lists
  <2>3. CASE UsleepInserts(t)
    BY <1>0, <2>3, SameWaiting DEF UsleepInserts, At, Goto, TypeOK, lists
  <2>4. CASE UsleepCounts(t)
    BY <1>0, <2>4, SameWaiting DEF UsleepCounts, At, Goto, TypeOK, lists
  <2>5. QED BY <1>5, <2>1, <2>2, <2>3, <2>4 DEF Usleep
<1>6. ASSUME NEW t \in Threads, Waits(t) PROVE WaitingExact'
  <2>1. CASE MutexLocked(t)
    BY <1>0, <2>1, SameWaiting DEF MutexLocked, At, Goto, TypeOK, lists
  <2>2. CASE CondWaitCounts(t)
    BY <1>0, <2>2, SameWaiting DEF CondWaitCounts, At, Goto, TypeOK, lists
  <2>3. CASE CondWaitWakes(t)
    BY <1>0, <2>3, SameWaiting DEF CondWaitWakes, At, Goto, TypeOK, lists
  <2>4. CASE CondWaitReleases(t)
    <3>1. /\ cur \in {t, Nobody} /\ pc[t] = "releasing" /\ pc' = [pc EXCEPT ![t] = "testing"]
          /\ waiting' = [waiting EXCEPT ![cond[t]] = @ + 1] /\ UNCHANGED <<cond, cq>>
      BY <2>4 DEF CondWaitReleases, At, Goto
    <3>2. cond[t] \in CondVars
      BY <1>0, <3>1 DEF ThreadsOK, ThreadOK, Waiter
    <3>3. \A v \in Threads \ {t} : pc[v] \notin Entering
      BY <1>0, <3>1, Alone DEF IInv, Outside
    <3>4. \A v \in Threads, w \in CondVars :
            (cond[v] = w /\ pc[v] \in Entering) <=> v = t /\ w = cond[t]
      BY <3>1, <3>3
    <3>5. \A v \in Threads : pc'[v] \notin Entering
      BY <1>0, <3>1, <3>3 DEF TypeOK
    <3>6. ASSUME NEW w \in CondVars
          PROVE  waiting'[w] = waiting[w] + (IF w = cond[t] THEN 1 ELSE 0) /\ waiting'[w] \in Nat
      <4>1. waiting[w] \in Nat
        BY <1>0 DEF TypeOK
      <4>2. waiting'[w] = IF w = cond[t] THEN waiting[w] + 1 ELSE waiting[w]
        BY <1>0, <3>1, <3>2 DEF TypeOK
      <4>3. QED BY <4>1, <4>2
    <3>7. \A w \in CondVars : waiting[w] + (IF w = cond[t] THEN 1 ELSE 0) = Len(cq[w])
      BY <1>0, <3>4 DEF WaitingExact
    <3>8. QED BY <3>1, <3>5, <3>6, <3>7 DEF WaitingExact
  <2>5. CASE Sleeps(t)
    <3>1. /\ pc[t] = "testing" /\ UNCHANGED <<cond, waiting, cq>>
          /\ UNCHANGED pc \/ pc' = [pc EXCEPT ![t] = "awaiting"]
      BY <2>5 DEF Sleeps, Await, At, Goto, lists
    <3>2. \A v \in Threads : pc'[v] \in Entering <=> pc[v] \in Entering
      BY <1>0, <3>1 DEF TypeOK
    <3>3. QED BY <1>0, <3>1, <3>2, SameWaiting
  <2>6. CASE Awaited(t)
    BY <1>0, <2>6, SameWaiting DEF Awaited, At, Goto, TypeOK, lists
  <2>7. CASE Returns(t)
    BY <1>0, <2>7, SameWaiting DEF Returns, At, Goto, TypeOK, lists
  <2>8. CASE Blocks(t)
    BY <1>0, <2>8, SameWaiting DEF Blocks, lists
  <2>9. QED BY <1>6, <2>1, <2>2, <2>3, <2>4, <2>5, <2>6, <2>7, <2>8 DEF Waits
<1>7. CASE UNCHANGED vars
  BY <1>0, <1>7, SameWaiting DEF vars, sched, lists
<1>8. QED BY <1>1, <1>2, <1>3, <1>4, <1>5, <1>6, <1>7 DEF Next, Calls, CondVars

\* The threads that wait for c inside Pth.
Awaiting(c) == {t \in Threads : pc[t] = "awaiting" /\ cond[t] = c}

\* A step that lets nobody enter or leave pth_cond_await.
LEMMA SameAwaiting ==
  ASSUME AwaitingCounted, UNCHANGED cnWaiters,
         \A v \in Threads : /\ pc'[v] = "awaiting" <=> pc[v] = "awaiting"
                            /\ pc[v] = "awaiting" => cond'[v] = cond[v]
  PROVE  AwaitingCounted'
<1>1. \A c \in Conds : Awaiting(c)' = Awaiting(c)
  BY DEF Awaiting
<1>2. QED BY <1>1 DEF AwaitingCounted, Awaiting

\* A step's effect on what Pth counts.
LEMMA AwaitingCountedNext == IInv /\ [Next]_vars => AwaitingCounted'
<1> SUFFICES ASSUME IInv, [Next]_vars PROVE AwaitingCounted'
  OBVIOUS
<1> USE Distinct
<1>0. AwaitingCounted /\ ThreadsOK /\ TypeOK
  BY DEF IInv, ControlOK, CountsOK
<1>1. ASSUME NEW u \in Users, q3_create(u) PROVE AwaitingCounted'
  BY <1>0, <1>1, SameAwaiting DEF q3_create, Goto, TypeOK, pth
<1>2. ASSUME NEW t \in Users, q3_mutex_lock(t) \/ q3_mutex_unlock(t) PROVE AwaitingCounted'
  BY <1>0, <1>2, SameAwaiting DEF q3_mutex_lock, q3_mutex_unlock, At, Goto, TypeOK, pth
<1>3. ASSUME NEW t \in Users, NEW cv \in CondVars, CondWaitQueues(t, cv) PROVE AwaitingCounted'
  BY <1>0, <1>3, SameAwaiting DEF CondWaitQueues, At, Goto, TypeOK, pth
<1>4. ASSUME NEW t \in Users, NEW cv \in CondVars,
             q3_cond_signal(t, cv) \/ q3_cond_broadcast(t, cv)
      PROVE  AwaitingCounted'
  <2>1. UNCHANGED <<pc, cond, cnWaiters>>
    BY <1>4, SignalEffect
  <2>2. QED BY <1>0, <2>1, SameAwaiting
<1>5. ASSUME NEW t \in Threads, Usleep(t) PROVE AwaitingCounted'
  <2>1. ASSUME NEW d \in Delays, UsleepAlone(t, d) PROVE AwaitingCounted'
    BY <1>0, <2>1, SameAwaiting DEF UsleepAlone, pth
  <2>2. ASSUME NEW d \in Delays, UsleepFinds(t, d) PROVE AwaitingCounted'
    BY <1>0, <2>2, SameAwaiting DEF UsleepFinds, At, Goto, TypeOK, pth
  <2>3. CASE UsleepInserts(t)
    BY <1>0, <2>3, SameAwaiting DEF UsleepInserts, At, Goto, TypeOK, pth
  <2>4. CASE UsleepCounts(t)
    <3>1. /\ cur \in {t, Nobody} /\ pc[t] = "inserted" /\ WakesIfLast(t)
          /\ pc' = [pc EXCEPT ![t] = "testing"] /\ UNCHANGED cond
      BY <2>4 DEF UsleepCounts, At, Goto
    <3>2. UNCHANGED cnWaiters
      BY <3>1, WakesEffect DEF Waking
    <3>3. QED BY <1>0, <3>1, <3>2, SameAwaiting DEF TypeOK
  <2>5. QED BY <1>5, <2>1, <2>2, <2>3, <2>4 DEF Usleep
<1>6. ASSUME NEW t \in Threads, Waits(t) PROVE AwaitingCounted'
  <2>1. CASE MutexLocked(t)
    BY <1>0, <2>1, SameAwaiting DEF MutexLocked, At, Goto, TypeOK, pth
  <2>2. CASE CondWaitCounts(t)
    BY <1>0, <2>2, SameAwaiting DEF CondWaitCounts, At, Goto, TypeOK, pth
  <2>3. CASE CondWaitWakes(t)
    <3>1. /\ cur \in {t, Nobody} /\ pc[t] = "counted" /\ WakesIfLast(t)
          /\ pc' = [pc EXCEPT ![t] = "releasing"] /\ UNCHANGED cond
      BY <2>3 DEF CondWaitWakes, At, Goto
    <3>2. UNCHANGED cnWaiters
      BY <3>1, WakesEffect DEF Waking
    <3>3. QED BY <1>0, <3>1, <3>2, SameAwaiting DEF TypeOK
  <2>4. CASE CondWaitReleases(t)
    BY <1>0, <2>4, SameAwaiting DEF CondWaitReleases, At, Goto, TypeOK, pth
  <2>5. CASE Sleeps(t)
    <3>1. CASE UNCHANGED <<pc, cnWaiters>>
      BY <1>0, <2>5, <3>1, SameAwaiting DEF Sleeps
    <3>2. CASE /\ pc' = [pc EXCEPT ![t] = "awaiting"] /\ UNCHANGED cond
               /\ cnWaiters' = [cnWaiters EXCEPT ![cond[t]] = @ + 1] /\ pc[t] = "testing"
      <4>1. cond[t] \in Conds
        BY <1>0 DEF TypeOK
      <4>2. ASSUME NEW c \in Conds PROVE cnWaiters'[c] = Cardinality(Awaiting(c)')
        <5>1. IsFiniteSet(Awaiting(c)) /\ cnWaiters[c] = Cardinality(Awaiting(c))
          BY <1>0, ThreadsFinite DEF Awaiting, AwaitingCounted
        <5>2. CASE c = cond[t]
          <6>1. Awaiting(c)' = Awaiting(c) \cup {t} /\ t \notin Awaiting(c)
            BY <1>0, <3>2, <5>2 DEF Awaiting, TypeOK
          <6>2. cnWaiters'[c] = cnWaiters[c] + 1
            BY <1>0, <3>2, <4>1, <5>2 DEF TypeOK
          <6>3. QED BY <5>1, <6>1, <6>2, FS_AddElement
        <5>3. CASE c # cond[t]
          <6>1. Awaiting(c)' = Awaiting(c)
            BY <1>0, <3>2, <5>3 DEF Awaiting, TypeOK
          <6>2. cnWaiters'[c] = cnWaiters[c]
            BY <1>0, <3>2, <4>1, <5>3 DEF TypeOK
          <6>3. QED BY <5>1, <6>1, <6>2
        <5>4. QED BY <5>2, <5>3
      <4>3. QED BY <4>2 DEF AwaitingCounted, Awaiting
    <3>3. QED BY <2>5, <3>1, <3>2 DEF Sleeps, Await, At, Goto
  <2>6. CASE Awaited(t)
    <3>1. /\ pc[t] = "awaiting" /\ pc' = [pc EXCEPT ![t] = "testing"] /\ UNCHANGED cond
          /\ cnWaiters' = [cnWaiters EXCEPT ![cond[t]] = @ - 1]
      BY <2>6 DEF Awaited, At, Goto
    <3>2. cond[t] \in Conds
      BY <1>0 DEF TypeOK
    <3>3. ASSUME NEW c \in Conds PROVE cnWaiters'[c] = Cardinality(Awaiting(c)')
      <4>1. IsFiniteSet(Awaiting(c)) /\ cnWaiters[c] = Cardinality(Awaiting(c))
        BY <1>0, ThreadsFinite DEF Awaiting, AwaitingCounted
      <4>2. CASE c = cond[t]
        <5>1. Awaiting(c)' = Awaiting(c) \ {t} /\ t \in Awaiting(c)
          BY <1>0, <3>1, <4>2 DEF Awaiting, TypeOK
        <5>2. cnWaiters'[c] = cnWaiters[c] - 1
          BY <1>0, <3>1, <3>2, <4>2 DEF TypeOK
        <5>3. QED BY <4>1, <5>1, <5>2, FS_RemoveElement
      <4>3. CASE c # cond[t]
        <5>1. Awaiting(c)' = Awaiting(c)
          BY <1>0, <3>1, <4>3 DEF Awaiting, TypeOK
        <5>2. cnWaiters'[c] = cnWaiters[c]
          BY <1>0, <3>1, <3>2, <4>3 DEF TypeOK
        <5>3. QED BY <4>1, <5>1, <5>2
      <4>4. QED BY <4>2, <4>3
    <3>4. QED BY <3>3 DEF AwaitingCounted, Awaiting
  <2>7. CASE Returns(t)
    BY <1>0, <2>7, SameAwaiting DEF Returns, At, Goto, TypeOK, pth
  <2>8. CASE Blocks(t)
    BY <1>0, <2>8, SameAwaiting DEF Blocks, pth
  <2>9. QED BY <1>6, <2>1, <2>2, <2>3, <2>4, <2>5, <2>6, <2>7, <2>8 DEF Waits
<1>7. CASE UNCHANGED vars
  BY <1>0, <1>7, SameAwaiting DEF vars, sched, pth
<1>8. QED BY <1>1, <1>2, <1>3, <1>4, <1>5, <1>6, <1>7 DEF Next, Calls, CondVars

-----------------------------------------------------------------------------
(* Pth's lists *)

\* A step that does not touch them, nor anybody inside pth_cond_await.
LEMMA SamePth ==
  ASSUME PthOK, UNCHANGED <<pthq, signaled>>,
         \A v \in Threads :
           /\ pc'[v] = "awaiting" <=> pc[v] = "awaiting"
           /\ pc[v] = "awaiting" => cond'[v] = cond[v] /\ (cond[v] = v => done'[v] = done[v])
  PROVE  PthOK'
BY DEF PthOK

\* A thread woken is taken out of its list.
LEMMA WakingPth ==
  ASSUME IInv, NEW t \in Threads, Waking(t), NEW label \in {"testing", "releasing"},
         pc[t] \in {"inserted", "counted"},
         pc' = [pc EXCEPT ![t] = label], UNCHANGED cond
  PROVE  PthOK'
<1>1. TypeOK /\ PthOK
  BY DEF IInv
<1>2. /\ Next1 \in Threads /\ done' = [done EXCEPT ![Next1] = TRUE]
      /\ pthq' = [pthq EXCEPT ![Next1] = <<>>] /\ UNCHANGED signaled
  BY DEF Waking
<1>3. \A v \in Threads : pc'[v] = "awaiting" <=> pc[v] = "awaiting"
  BY <1>1 DEF TypeOK
<1>4. ASSUME NEW c \in Conds, NEW v \in Threads, v \in ToSet(pthq'[c])
      PROVE  pc'[v] = "awaiting" /\ cond'[v] = c
  <2>1. v \in ToSet(pthq[c])
    BY <1>1, <1>2, <1>4, EmptyToSet DEF TypeOK
  <2>2. QED BY <1>1, <1>3, <2>1 DEF PthOK
<1>5. ASSUME NEW v \in Threads
      PROVE  pthq'[v] = IF pc'[v] = "awaiting" /\ cond'[v] = v /\ ~done'[v] THEN <<v>> ELSE <<>>
  <2>1. pthq'[v] = (IF v = Next1 THEN <<>> ELSE pthq[v])
        /\ done'[v] = (IF v = Next1 THEN TRUE ELSE done[v])
    BY <1>1, <1>2, Distinct DEF TypeOK
  <2>2. CASE v = Next1
    BY <2>1, <2>2
  <2>3. CASE v # Next1
    BY <1>1, <1>3, <2>1, <2>3 DEF PthOK
  <2>4. QED BY <2>2, <2>3
<1>6. QED BY <1>1, <1>2, <1>4, <1>5 DEF PthOK

\* What pth_cond_notify does to the list of a condition variable: nothing if
\* nobody is inside pth_cond_await, or its first thread or all leave it.
Notified(cv, kind, q, s) ==
  /\ pthq' = [pthq EXCEPT ![cv] = q] /\ ToSet(q) \subseteq ToSet(pthq[cv])
  /\ signaled' = [signaled EXCEPT ![cv] = s] /\ s \in {"no", kind, signaled[cv]}
  /\ cnWaiters[cv] # 0 => q = IF kind = "one" /\ pthq[cv] # <<>> THEN Tail(pthq[cv]) ELSE <<>>
  /\ cnWaiters[cv] = 0 => q = pthq[cv]

LEMMA NotifyEffect ==
  ASSUME IInv, NEW t \in Threads, NEW cv \in CondVars, NEW kind \in {"one", "broadcast"},
         Notify(t, cv, kind)
  PROVE  \E q \in Seq(Threads), s \in {"no", "one", "broadcast"} : Notified(cv, kind, q, s)
<1>1. /\ pthq \in [Conds -> Seq(Threads)] /\ cv \in Conds /\ pthq[cv] \in Seq(Threads)
      /\ signaled \in [Conds -> {"no", "one", "broadcast"}]
  BY Distinct DEF IInv, TypeOK
<1>2. CASE cnWaiters[cv] = 0
  <2>1. UNCHANGED <<pthq, signaled>>
    BY <1>2 DEF Notify, pth
  <2>2. /\ pthq' = [pthq EXCEPT ![cv] = pthq[cv]]
        /\ signaled' = [signaled EXCEPT ![cv] = signaled[cv]]
    BY <1>1, <2>1
  <2>3. Notified(cv, kind, pthq[cv], signaled[cv])
    BY <1>2, <2>2 DEF Notified
  <2>4. QED BY <1>1, <2>3
<1>3. CASE cnWaiters[cv] # 0
  <2> DEFINE q == IF kind = "one" /\ pthq[cv] # <<>> THEN Tail(pthq[cv]) ELSE <<>>
             s == IF pthq[cv] = <<>> THEN kind ELSE "no"
  <2>1. pthq' = [pthq EXCEPT ![cv] = q] /\ signaled' = [signaled EXCEPT ![cv] = s]
    BY <1>3 DEF Notify
  <2>2. q \in Seq(Threads) /\ ToSet(q) \subseteq ToSet(pthq[cv])
    <3>1. CASE q = <<>>
      <4>1. <<>> \in Seq(Threads)
        OBVIOUS
      <4>2. ToSet(q) = {}
        BY <3>1, EmptyToSet
      <4>3. QED BY <3>1, <4>1, <4>2
    <3>2. CASE pthq[cv] # <<>> /\ q = Tail(pthq[cv])
      <4>1. /\ q \in Seq(Threads) /\ Len(q) = Len(pthq[cv]) - 1
            /\ \A i \in 1..Len(q) : q[i] = pthq[cv][i + 1]
        BY <1>1, <3>2, HeadTailProperties
      <4>2. Len(pthq[cv]) \in Nat
        BY <1>1, LenProperties
      <4>3. ASSUME NEW x \in ToSet(q) PROVE x \in ToSet(pthq[cv])
        <5>1. PICK i \in 1..Len(q) : q[i] = x
          BY <4>1, <4>3, InToSet
        <5>2. i + 1 \in 1..Len(pthq[cv]) /\ pthq[cv][i + 1] = x
          BY <4>1, <4>2, <5>1
        <5>3. QED BY <1>1, <5>2, InToSet
      <4>4. QED BY <4>1, <4>3
    <3>3. QED BY <3>1, <3>2
  <2>3. s \in {"no", "one", "broadcast"} /\ s \in {"no", kind, signaled[cv]}
    OBVIOUS
  <2>4. Notified(cv, kind, q, s)
    BY <1>3, <2>1, <2>2, <2>3 DEF Notified
  <2>5. QED BY <2>2, <2>3, <2>4
<1>4. QED BY <1>2, <1>3

\* A step's effect on Pth's lists.
LEMMA PthNext == IInv /\ [Next]_vars => PthOK'
<1> SUFFICES ASSUME IInv, [Next]_vars PROVE PthOK'
  OBVIOUS
<1> USE Distinct
<1>0. PthOK /\ ThreadsOK /\ TypeOK
  BY DEF IInv, ControlOK
<1>1. ASSUME NEW u \in Users, q3_create(u) PROVE PthOK'
  BY <1>0, <1>1, SamePth DEF q3_create, Goto, TypeOK, pth, timer
<1>2. ASSUME NEW t \in Users, q3_mutex_lock(t) \/ q3_mutex_unlock(t) PROVE PthOK'
  BY <1>0, <1>2, SamePth DEF q3_mutex_lock, q3_mutex_unlock, At, Goto, TypeOK, pth
<1>3. ASSUME NEW t \in Users, NEW cv \in CondVars, CondWaitQueues(t, cv) PROVE PthOK'
  BY <1>0, <1>3, SamePth DEF CondWaitQueues, At, Goto, TypeOK, pth
<1>4. ASSUME NEW t \in Users, NEW cv \in CondVars,
             q3_cond_signal(t, cv) \/ q3_cond_broadcast(t, cv)
      PROVE  PthOK'
  <2>1. UNCHANGED <<pc, cond>> /\ \A v \in Threads : cond[v] = v => done'[v] = done[v]
    BY <1>4, SignalEffect
  <2>2. PICK kind \in {"one", "broadcast"} : Notify(t, cv, kind)
    BY <1>4 DEF q3_cond_signal, q3_cond_broadcast
  <2>3. PICK q \in Seq(Threads), s \in {"no", "one", "broadcast"} :
          Notified(cv, kind, q, s)
    BY <2>2, NotifyEffect
  <2>4. \A v \in Threads : pthq'[v] = pthq[v] /\ signaled'[v] = signaled[v]
    BY <1>0, <2>3 DEF TypeOK, Notified
  <2>5. ASSUME NEW c \in Conds, NEW v \in Threads, v \in ToSet(pthq'[c])
        PROVE  pc'[v] = "awaiting" /\ cond'[v] = c
    <3>1. v \in ToSet(pthq[c])
      BY <1>0, <2>3, <2>5 DEF TypeOK, Notified
    <3>2. QED BY <1>0, <2>1, <3>1 DEF PthOK
  <2>6. QED BY <1>0, <2>1, <2>4, <2>5 DEF PthOK
<1>5. ASSUME NEW t \in Threads, Usleep(t) PROVE PthOK'
  <2>1. ASSUME NEW d \in Delays, UsleepAlone(t, d) PROVE PthOK'
    BY <1>0, <2>1, SamePth DEF UsleepAlone, pth
  <2>2. ASSUME NEW d \in Delays, UsleepFinds(t, d) PROVE PthOK'
    BY <1>0, <2>2, SamePth DEF UsleepFinds, At, Goto, TypeOK, pth
  <2>3. CASE UsleepInserts(t)
    BY <1>0, <2>3, SamePth DEF UsleepInserts, At, Goto, TypeOK, pth
  <2>4. CASE UsleepCounts(t)
    <3>1. /\ cur \in {t, Nobody} /\ pc[t] = "inserted" /\ WakesIfLast(t)
          /\ pc' = [pc EXCEPT ![t] = "testing"] /\ UNCHANGED cond
      BY <2>4 DEF UsleepCounts, At, Goto
    <3>2. CASE UNCHANGED <<done, pthq, signaled>>
      BY <1>0, <3>1, <3>2, SamePth DEF TypeOK
    <3>3. CASE Waking(t)
      BY <3>1, <3>3, WakingPth
    <3>4. QED BY <3>1, <3>2, <3>3, WakesEffect
  <2>5. QED BY <1>5, <2>1, <2>2, <2>3, <2>4 DEF Usleep
<1>6. ASSUME NEW t \in Threads, Waits(t) PROVE PthOK'
  <2>1. CASE MutexLocked(t)
    BY <1>0, <2>1, SamePth DEF MutexLocked, At, Goto, TypeOK, pth
  <2>2. CASE CondWaitCounts(t)
    BY <1>0, <2>2, SamePth DEF CondWaitCounts, At, Goto, TypeOK, pth
  <2>3. CASE CondWaitWakes(t)
    <3>1. /\ cur \in {t, Nobody} /\ pc[t] = "counted" /\ WakesIfLast(t)
          /\ pc' = [pc EXCEPT ![t] = "releasing"] /\ UNCHANGED cond
      BY <2>3 DEF CondWaitWakes, At, Goto
    <3>2. CASE UNCHANGED <<done, pthq, signaled>>
      BY <1>0, <3>1, <3>2, SamePth DEF TypeOK
    <3>3. CASE Waking(t)
      BY <3>1, <3>3, WakingPth
    <3>4. QED BY <3>1, <3>2, <3>3, WakesEffect
  <2>4. CASE CondWaitReleases(t)
    BY <1>0, <2>4, SamePth DEF CondWaitReleases, At, Goto, TypeOK, pth
  <2>5. CASE Sleeps(t)
    <3>1. pc[t] = "testing" /\ ~done[t] /\ UNCHANGED <<cond, done>> /\ Await(t, cond[t])
      BY <2>5 DEF Sleeps, At
    <3>2. cond[t] \in Conds /\ cond[t] \in CondVars \cup {t} /\ pthq[cond[t]] \in Seq(Threads)
      BY <1>0 DEF TypeOK, ThreadsOK, ThreadOK
    <3>3. CASE signaled[cond[t]] = "one"
      <4>1. cond[t] \in CondVars
        BY <1>0, <3>2, <3>3 DEF PthOK
      <4>2. UNCHANGED <<pc, pthq>> /\ signaled' = [signaled EXCEPT ![cond[t]] = "no"]
        BY <3>1, <3>3 DEF Await
      <4>3. \A v \in Threads : signaled'[v] = "no"
        BY <1>0, <4>1, <4>2 DEF PthOK, TypeOK
      <4>4. QED BY <1>0, <3>1, <4>2, <4>3 DEF PthOK
    <3>4. CASE signaled[cond[t]] # "one"
      <4>1. /\ pc' = [pc EXCEPT ![t] = "awaiting"]
            /\ signaled' = [signaled EXCEPT ![cond[t]] = "no"]
            /\ pthq' = IF signaled[cond[t]] = "no"
                       THEN [pthq EXCEPT ![cond[t]] = Append(pthq[cond[t]], t)] ELSE pthq
        BY <3>1, <3>4 DEF Await, Goto
      <4>2. \A v \in Threads : signaled'[v] = "no"
        BY <1>0, <4>1 DEF PthOK, TypeOK
      <4>3. ToSet(Append(pthq[cond[t]], t)) = ToSet(pthq[cond[t]]) \cup {t}
        BY <3>2, AppendToSet
      <4>4. ASSUME NEW c \in Conds, NEW v \in Threads, v \in ToSet(pthq'[c])
            PROVE  pc'[v] = "awaiting" /\ cond'[v] = c
        <5>1. v \in ToSet(pthq[c]) \/ (v = t /\ c = cond[t])
          <6>1. pthq'[c] = pthq[c] \/ (c = cond[t] /\ pthq'[c] = Append(pthq[cond[t]], t))
            BY <1>0, <3>2, <4>1 DEF TypeOK
          <6>2. QED BY <4>3, <4>4, <6>1
        <5>2. QED BY <1>0, <3>1, <4>1, <5>1 DEF PthOK, TypeOK
      <4>5. ASSUME NEW v \in Threads
            PROVE  pthq'[v] = IF pc'[v] = "awaiting" /\ cond'[v] = v /\ ~done'[v] THEN <<v>> ELSE <<>>
        <5>1. CASE v # cond[t]
          <6>1. pthq'[v] = pthq[v] /\ (v # t => pc'[v] = pc[v]) /\ (v = t => cond[v] # v)
            BY <1>0, <3>2, <4>1, <5>1 DEF TypeOK
          <6>2. QED BY <1>0, <3>1, <6>1 DEF PthOK
        <5>2. CASE v = cond[t]
          <6>1. v = t /\ cond[t] = t
            BY <3>2, <5>2
          <6>2. pthq[t] = <<>> /\ signaled[t] = "no"
            BY <1>0, <3>1 DEF PthOK
          <6>3. pthq'[t] = Append(<<>>, t)
            BY <1>0, <3>2, <4>1, <6>1, <6>2 DEF TypeOK
          <6>4. Append(<<>>, t) = <<t>>
            OBVIOUS
          <6>5. pc'[t] = "awaiting" /\ cond'[t] = t /\ ~done'[t]
            BY <1>0, <3>1, <4>1, <6>1 DEF TypeOK
          <6>6. QED BY <6>1, <6>3, <6>4, <6>5
        <5>3. QED BY <5>1, <5>2
      <4>6. QED BY <4>2, <4>4, <4>5 DEF PthOK
    <3>5. QED BY <3>3, <3>4
  <2>6. CASE Awaited(t)
    <3>1. /\ pc[t] = "awaiting" /\ pc' = [pc EXCEPT ![t] = "testing"]
          /\ t \notin ToSet(pthq[cond[t]]) /\ UNCHANGED <<cond, done, pthq, signaled>>
      BY <2>6 DEF Awaited, At, Goto
    <3>2. \A c \in Conds : t \notin ToSet(pthq[c])
      BY <1>0, <3>1 DEF PthOK
    <3>3. ASSUME NEW c \in Conds, NEW v \in Threads, v \in ToSet(pthq'[c])
          PROVE  pc'[v] = "awaiting" /\ cond'[v] = c
      BY <1>0, <3>1, <3>2, <3>3 DEF PthOK, TypeOK
    <3>4. pthq[t] = <<>>
      <4>1. t \in ToSet(<<t>>)
        BY DEF ToSet
      <4>2. QED BY <1>0, <3>2, <4>1 DEF PthOK
    <3>5. ASSUME NEW v \in Threads
          PROVE  pthq'[v] = IF pc'[v] = "awaiting" /\ cond'[v] = v /\ ~done'[v] THEN <<v>> ELSE <<>>
      BY <1>0, <3>1, <3>4, SMTT(30) DEF PthOK, TypeOK
    <3>6. QED BY <1>0, <3>1, <3>3, <3>5 DEF PthOK
  <2>7. CASE Returns(t)
    BY <1>0, <2>7, SamePth DEF Returns, At, Goto, TypeOK, pth
  <2>8. CASE Blocks(t)
    BY <1>0, <2>8, SamePth DEF Blocks, pth
  <2>9. QED BY <1>6, <2>1, <2>2, <2>3, <2>4, <2>5, <2>6, <2>7, <2>8 DEF Waits
<1>7. CASE UNCHANGED vars
  BY <1>0, <1>7, SamePth DEF vars, sched, pth
<1>8. QED BY <1>1, <1>2, <1>3, <1>4, <1>5, <1>6, <1>7 DEF Next, Calls, CondVars

-----------------------------------------------------------------------------
(* The timer queue in time *)

\* Nobody looks for a place in the timer queue but the thread that runs.
LEMMA OnlyOneInserts ==
  ASSUME IInv, NEW t \in Threads, cur \in {t, Nobody}
  PROVE  \A v \in Threads : pc[v] = "inserting" => v = t
BY Distinct DEF IInv, ControlOK, OneAtATime

\* A step that leaves the timer queue alone, and lets nobody look for a place.
LEMMA SameTimer ==
  ASSUME TimerOK, UNCHANGED <<waitq, left, pos>>,
         \A v \in Threads : pc'[v] = "inserting" => pc[v] = "inserting"
  PROVE  TimerOK'
<1>1. \A d : Place(d)' = Place(d)
  BY DEF Place, Later
<1>2. Sorted'
  BY DEF TimerOK, Sorted
<1>3. PlaceKept'
  <2>1. ASSUME NEW v \in Threads, pc'[v] = "inserting" PROVE pos'[v] = Place(left[v])'
    <3>1. pos[v] = Place(left[v])
      BY <2>1 DEF TimerOK, PlaceKept
    <3>2. Place(left[v])' = Place(left[v])
      BY DEF Place, Later
    <3>3. QED BY <3>1, <3>2
  <2>2. QED BY <2>1 DEF PlaceKept
<1>4. QED BY <1>2, <1>3 DEF TimerOK

\* The threads of the timer queue, and what is left for them, are typed.
LEMMA QueueTyped ==
  ASSUME TypeOK
  PROVE  /\ Len(waitq) \in Nat /\ DOMAIN waitq = 1..Len(waitq)
         /\ \A i \in 1..Len(waitq) :
              waitq[i] \in Threads /\ waitq[i] \in ToSet(waitq) /\ left[waitq[i]] \in Nat
<1>1. waitq \in Seq(Threads) /\ left \in [Threads -> Nat]
  BY DEF TypeOK
<1>2. \A i \in 1..Len(waitq) : waitq[i] \in Threads /\ waitq[i] \in ToSet(waitq)
  BY <1>1, ElementOfSeq, InToSet
<1>3. QED BY <1>1, <1>2, LenProperties

\* The first sleeper is the next to wake.
LEMMA FirstWakes ==
  ASSUME TypeOK, Sorted, waitq # <<>>
  PROVE  /\ Next1 = waitq[1] /\ 1 \in 1..Len(waitq)
         /\ \A i \in 1..Len(waitq) : left[Next1] <= left[waitq[i]]
<1>1. waitq \in Seq(Threads)
  BY DEF TypeOK
<1>2. Next1 = waitq[1] /\ 1 \in 1..Len(waitq)
  <2>1. Len(waitq) \in Nat /\ Len(waitq) # 0
    BY <1>1, LenProperties, EmptySeq
  <2>2. Next1 = waitq[1]
    BY <1>1, HeadTailProperties DEF Next1
  <2>3. QED BY <2>1, <2>2
<1>3. ASSUME NEW i \in 1..Len(waitq) PROVE left[waitq[1]] <= left[waitq[i]]
  <2>1. CASE i = 1
    BY <1>2, <2>1, QueueTyped
  <2>2. CASE i # 1
    <3>1. 1 < i
      BY <2>2, QueueTyped
    <3>2. QED BY <1>2, <3>1, QueueTyped DEF Sorted
  <2>3. QED BY <2>1, <2>2
<1>4. QED BY <1>2, <1>3

\* Time that passes no sleeper's instant leaves the queue sorted, nobody overdue.
LEMMA Elapsed ==
  ASSUME TypeOK, Sorted, NEW d \in Nat, Elapse(d),
         \A v \in Threads : pc[v] # "inserting",
         \A i \in 1..Len(waitq) : left[waitq[i]] >= d
  PROVE  /\ left' \in [Threads -> Nat]
         /\ \A i, j \in 1..Len(waitq) : i < j => left'[waitq[i]] <= left'[waitq[j]]
<1>1. left' = [v \in Threads |-> IF v \in ToSet(waitq) THEN left[v] - d ELSE left[v]]
  BY DEF Elapse
<1>2. waitq \in Seq(Threads) /\ left \in [Threads -> Nat]
  BY DEF TypeOK
<1>3. ASSUME NEW v \in Threads PROVE left'[v] \in Nat
  <2>1. CASE v \in ToSet(waitq)
    <3>1. PICK i \in 1..Len(waitq) : waitq[i] = v
      BY <1>2, <2>1, InToSet
    <3>2. left[v] >= d /\ left[v] \in Nat /\ left'[v] = left[v] - d
      BY <1>1, <1>2, <2>1, <3>1
    <3>3. QED BY <3>2
  <2>2. CASE v \notin ToSet(waitq)
    BY <1>1, <1>2, <2>2
  <2>3. QED BY <2>1, <2>2
<1>4. ASSUME NEW i \in 1..Len(waitq), NEW j \in 1..Len(waitq), i < j
      PROVE  left'[waitq[i]] <= left'[waitq[j]]
  <2>1. /\ left[waitq[i]] <= left[waitq[j]]
        /\ left[waitq[i]] \in Nat /\ left[waitq[j]] \in Nat
    BY <1>4, QueueTyped DEF Sorted
  <2>2. left'[waitq[i]] = left[waitq[i]] - d /\ left'[waitq[j]] = left[waitq[j]] - d
    BY <1>1, QueueTyped
  <2>3. QED BY <2>1, <2>2
<1>5. QED BY <1>1, <1>3, <1>4

\* When time moves to the first sleeper's instant it passes nobody's.
LEMMA WakingTimer ==
  ASSUME IInv, NEW t \in Threads, cur \in {t, Nobody}, Waking(t),
         NEW label \in {"testing", "releasing"}, pc[t] \in {"inserted", "counted"},
         pc' = [pc EXCEPT ![t] = label]
  PROVE  TimerOK' /\ left' \in [Threads -> Nat] /\ waitq' \in Seq(Threads)
<1>1. TypeOK /\ Sorted
  BY DEF IInv, TimerOK
<1>2. waitq # <<>> /\ waitq' = Tail(waitq) /\ Elapse(left[Next1]) /\ Next1 \in Threads
  BY DEF Waking
<1>3. \A v \in Threads : pc[v] # "inserting"
  BY OnlyOneInserts
<1>4. /\ Next1 = waitq[1] /\ 1 \in 1..Len(waitq)
      /\ \A i \in 1..Len(waitq) : left[Next1] <= left[waitq[i]]
  BY <1>1, <1>2, FirstWakes
<1>5. left[Next1] \in Nat /\ \A i \in 1..Len(waitq) : left[waitq[i]] >= left[Next1]
  BY <1>1, <1>2, <1>4, QueueTyped DEF TypeOK
<1>6. /\ left' \in [Threads -> Nat]
      /\ \A i, j \in 1..Len(waitq) : i < j => left'[waitq[i]] <= left'[waitq[j]]
  BY <1>1, <1>2, <1>3, <1>5, Elapsed
<1>7. /\ waitq' \in Seq(Threads) /\ Len(waitq') = Len(waitq) - 1
      /\ \A i \in 1..Len(waitq') : waitq'[i] = waitq[i + 1]
  BY <1>1, <1>2, HeadTailProperties DEF TypeOK
<1>8. Sorted'
  <2>1. DOMAIN waitq' = 1..Len(waitq') /\ Len(waitq) \in Nat
    BY <1>1, <1>7, LenProperties, QueueTyped
  <2>2. ASSUME NEW i \in 1..Len(waitq'), NEW j \in 1..Len(waitq'), i < j
        PROVE  left'[waitq'[i]] <= left'[waitq'[j]]
    <3>1. i + 1 \in 1..Len(waitq) /\ j + 1 \in 1..Len(waitq) /\ i + 1 < j + 1
      BY <1>7, <2>1, <2>2
    <3>2. QED BY <1>6, <1>7, <3>1
  <2>3. QED BY <2>1, <2>2 DEF Sorted
<1>9. \A v \in Threads : pc'[v] # "inserting"
  BY <1>1, <1>3 DEF TypeOK
<1>10. QED BY <1>6, <1>7, <1>8, <1>9 DEF TimerOK, PlaceKept

\* The last ready thread, if it is also the next to wake, passes nobody.
LEMMA AlonePasses ==
  ASSUME IInv, NEW t \in Threads, NEW d \in Delays, UsleepAlone(t, d)
  PROVE  \A i \in 1..Len(waitq) : left[waitq[i]] >= d
<1>1. TypeOK /\ Sorted /\ d \in Nat
  BY SimClockAssumption DEF IInv, TimerOK
<1>2. IsFirst(Place(d))
  BY DEF UsleepAlone
<1> SUFFICES ASSUME NEW i \in 1..Len(waitq) PROVE left[waitq[i]] >= d
  OBVIOUS
<1>3. Len(waitq) \in Nat /\ left[waitq[i]] \in Nat /\ waitq # <<>>
  <2>1. waitq # <<>>
    OBVIOUS
  <2>2. QED BY <1>1, <2>1, QueueTyped
<1>4. /\ Next1 = waitq[1] /\ 1 \in 1..Len(waitq)
      /\ \A k \in 1..Len(waitq) : left[Next1] <= left[waitq[k]]
  BY <1>1, <1>3, FirstWakes
<1>5. Place(d) = waitq[1] /\ waitq[1] \in Threads /\ left[waitq[1]] \in Nat
  BY <1>1, <1>2, <1>3, <1>4, QueueTyped DEF IsFirst, Next1
<1>6. left[waitq[1]] >= d
  <2>1. PICK k \in 1..Len(waitq) : /\ Place(d) = waitq[k] /\ left[waitq[k]] >= d
                                   /\ \A j \in 1..Len(waitq) : j < k => left[waitq[j]] < d
    BY <1>1, <1>5, PlaceIs, Distinct
  <2>2. QED BY <1>5, <2>1
<1>7. QED BY <1>1, <1>3, <1>4, <1>5, <1>6

\* So the queue stays sorted.
LEMMA AloneTimer ==
  ASSUME IInv, NEW t \in Threads, NEW d \in Delays, UsleepAlone(t, d)
  PROVE  TimerOK' /\ left' \in [Threads -> Nat]
<1>1. TypeOK /\ Sorted /\ d \in Nat
  BY SimClockAssumption DEF IInv, TimerOK
<1>2. /\ cur \in {t, Nobody} /\ pc[t] = "user" /\ UNCHANGED <<pc, waitq, pos>> /\ Elapse(d)
  BY DEF UsleepAlone, At
<1>3. \A v \in Threads : pc[v] # "inserting"
  BY <1>2, OnlyOneInserts
<1>4. \A i \in 1..Len(waitq) : left[waitq[i]] >= d
  BY AlonePasses
<1>5. /\ left' \in [Threads -> Nat]
      /\ \A i, j \in 1..Len(waitq) : i < j => left'[waitq[i]] <= left'[waitq[j]]
  BY <1>1, <1>2, <1>3, <1>4, Elapsed
<1>6. Sorted'
  BY <1>1, <1>2, <1>5, QueueTyped DEF Sorted
<1>7. QED BY <1>2, <1>3, <1>5, <1>6 DEF TimerOK, PlaceKept

\* A step's effect on the timer queue.
LEMMA TimerNext ==
  IInv /\ [Next]_vars => TimerOK' /\ left' \in [Threads -> Nat] /\ waitq' \in Seq(Threads)
<1> DEFINE Goal == TimerOK' /\ left' \in [Threads -> Nat] /\ waitq' \in Seq(Threads)
<1> SUFFICES ASSUME IInv, [Next]_vars PROVE Goal
  OBVIOUS
<1> USE Distinct
<1>0. /\ TimerOK /\ ThreadsOK /\ TypeOK
      /\ left \in [Threads -> Nat] /\ waitq \in Seq(Threads)
  BY DEF IInv, ControlOK, TypeOK
<1>a. ASSUME UNCHANGED <<waitq, left, pos>>,
             \A v \in Threads : pc'[v] = "inserting" => pc[v] = "inserting"
      PROVE  Goal
  BY <1>0, <1>a, SameTimer
<1> HIDE DEF Goal
<1>1. ASSUME NEW u \in Users, q3_create(u) PROVE Goal
  BY <1>0, <1>a, <1>1 DEF q3_create, Goto, TypeOK, timer
<1>2. ASSUME NEW t \in Users, q3_mutex_lock(t) \/ q3_mutex_unlock(t) PROVE Goal
  BY <1>0, <1>a, <1>2 DEF q3_mutex_lock, q3_mutex_unlock, At, Goto, TypeOK, timer
<1>3. ASSUME NEW t \in Users, NEW cv \in CondVars, CondWaitQueues(t, cv) PROVE Goal
  BY <1>0, <1>a, <1>3 DEF CondWaitQueues, At, Goto, TypeOK, timer
<1>4. ASSUME NEW t \in Users, NEW cv \in CondVars,
             q3_cond_signal(t, cv) \/ q3_cond_broadcast(t, cv)
      PROVE  Goal
  <2>1. UNCHANGED <<pc, waitq, left, pos>>
    BY <1>4, SignalEffect
  <2>2. QED BY <1>a, <2>1
<1>5. ASSUME NEW t \in Threads, Usleep(t) PROVE Goal
  <2>1. ASSUME NEW d \in Delays, UsleepAlone(t, d) PROVE Goal
    <3>1. UNCHANGED waitq
      BY <2>1 DEF UsleepAlone
    <3>2. QED BY <1>0, <2>1, <3>1, AloneTimer DEF Goal
  <2>2. ASSUME NEW d \in Delays, UsleepFinds(t, d) PROVE Goal
    <3>1. /\ cur \in {t, Nobody} /\ pc[t] = "user" /\ pc' = [pc EXCEPT ![t] = "inserting"]
          /\ left' = [left EXCEPT ![t] = d] /\ pos' = [pos EXCEPT ![t] = Place(d)]
          /\ UNCHANGED waitq /\ d \in Nat
      BY <2>2, SimClockAssumption DEF UsleepFinds, At, Goto
    <3>2. t \notin ToSet(waitq)
      BY <3>1 DEF IInv, QueuesOK, Sleeper
    <3>3. \A i \in DOMAIN waitq : left'[waitq[i]] = left[waitq[i]]
      BY <1>0, <3>1, <3>2, QueueTyped
    <3>4. Sorted'
      BY <1>0, <3>1, <3>3 DEF TimerOK, Sorted
    <3>5. left'[t] = d /\ pos'[t] = Place(d)
      BY <1>0, <3>1 DEF TypeOK
    <3>6. Place(left[t])' = Place(d)
      <4>1. Later(left[t])' = Later(d)
        BY <3>1, <3>3, <3>5 DEF Later
      <4>2. QED BY <3>1, <4>1 DEF Place
    <3>7. \A v \in Threads : pc'[v] = "inserting" => v = t
      BY <1>0, <3>1, OnlyOneInserts DEF TypeOK
    <3>8. PlaceKept'
      BY <3>5, <3>6, <3>7 DEF PlaceKept
    <3>9. left' \in [Threads -> Nat]
      BY <1>0, <3>1
    <3>10. QED BY <1>0, <3>1, <3>4, <3>8, <3>9 DEF Goal, TimerOK
  <2>3. CASE UsleepInserts(t)
    <3>1. Sorted' /\ waitq' \in Seq(Threads)
      BY <2>3, InsertEffect
    <3>2. /\ cur \in {t, Nobody} /\ pc' = [pc EXCEPT ![t] = "inserted"] /\ UNCHANGED left
      BY <2>3 DEF UsleepInserts, At, Goto
    <3>3. \A v \in Threads : pc'[v] # "inserting"
      BY <1>0, <3>2, OnlyOneInserts DEF TypeOK
    <3>4. QED BY <1>0, <3>1, <3>2, <3>3 DEF Goal, TimerOK, PlaceKept
  <2>4. CASE UsleepCounts(t)
    <3>1. /\ cur \in {t, Nobody} /\ pc[t] = "inserted" /\ WakesIfLast(t)
          /\ pc' = [pc EXCEPT ![t] = "testing"]
      BY <2>4 DEF UsleepCounts, At, Goto
    <3>2. CASE UNCHANGED <<waitq, left, pos>>
      BY <1>0, <1>a, <3>1, <3>2 DEF TypeOK
    <3>3. CASE Waking(t)
      BY <3>1, <3>3, WakingTimer DEF Goal
    <3>4. QED BY <3>1, <3>2, <3>3, WakesEffect
  <2>5. QED BY <1>5, <2>1, <2>2, <2>3, <2>4 DEF Usleep
<1>6. ASSUME NEW t \in Threads, Waits(t) PROVE Goal
  <2>1. CASE MutexLocked(t)
    BY <1>0, <1>a, <2>1 DEF MutexLocked, At, Goto, TypeOK, timer
  <2>2. CASE CondWaitCounts(t)
    BY <1>0, <1>a, <2>2 DEF CondWaitCounts, At, Goto, TypeOK, timer
  <2>3. CASE CondWaitWakes(t)
    <3>1. /\ cur \in {t, Nobody} /\ pc[t] = "counted" /\ WakesIfLast(t)
          /\ pc' = [pc EXCEPT ![t] = "releasing"]
      BY <2>3 DEF CondWaitWakes, At, Goto
    <3>2. CASE UNCHANGED <<waitq, left, pos>>
      BY <1>0, <1>a, <3>1, <3>2 DEF TypeOK
    <3>3. CASE Waking(t)
      BY <3>1, <3>3, WakingTimer DEF Goal
    <3>4. QED BY <3>1, <3>2, <3>3, WakesEffect
  <2>4. CASE CondWaitReleases(t)
    BY <1>0, <1>a, <2>4 DEF CondWaitReleases, At, Goto, TypeOK, timer
  <2>5. CASE Sleeps(t)
    <3>1. /\ UNCHANGED <<waitq, left, pos>>
          /\ UNCHANGED pc \/ pc' = [pc EXCEPT ![t] = "awaiting"]
      BY <2>5 DEF Sleeps, Await, At, Goto, timer
    <3>2. QED BY <1>0, <1>a, <3>1 DEF TypeOK
  <2>6. CASE Awaited(t)
    BY <1>0, <1>a, <2>6 DEF Awaited, At, Goto, TypeOK, timer
  <2>7. CASE Returns(t)
    <3>1. /\ cur \in {t, Nobody} /\ pc[t] = "testing" /\ done[t]
          /\ pc' = [pc EXCEPT ![t] = "user"]
          /\ left' = [left EXCEPT ![t] = 0] /\ UNCHANGED <<waitq, pos>>
      BY <2>7 DEF Returns, At, Goto
    <3>2. t \notin ToSet(waitq)
      BY <3>1 DEF IInv, QueuesOK, Sleeper
    <3>3. \A i \in DOMAIN waitq : left'[waitq[i]] = left[waitq[i]]
      BY <1>0, <3>1, <3>2, QueueTyped
    <3>4. Sorted'
      BY <1>0, <3>1, <3>3 DEF TimerOK, Sorted
    <3>5. \A v \in Threads : pc'[v] # "inserting"
      BY <1>0, <3>1, OnlyOneInserts DEF TypeOK
    <3>6. left' \in [Threads -> Nat]
      BY <1>0, <3>1
    <3>7. QED BY <1>0, <3>1, <3>4, <3>5, <3>6 DEF Goal, TimerOK, PlaceKept
  <2>8. CASE Blocks(t)
    BY <1>0, <1>a, <2>8 DEF Blocks, timer
  <2>9. QED BY <1>6, <2>1, <2>2, <2>3, <2>4, <2>5, <2>6, <2>7, <2>8 DEF Waits
<1>7. CASE UNCHANGED vars
  BY <1>0, <1>a, <1>7 DEF vars, sched, timer
<1>8. Goal
  BY <1>1, <1>2, <1>3, <1>4, <1>5, <1>6, <1>7 DEF Next, Calls, CondVars
<1>9. QED BY <1>8 DEF Goal

-----------------------------------------------------------------------------
(* The invariant *)

\* No step follows a NULL pointer or links a stale node.
LEMMA BrokenNext == IInv /\ [Next]_vars => broken' = FALSE
<1> SUFFICES ASSUME IInv, [Next]_vars PROVE broken' = FALSE
  OBVIOUS
<1>0. broken = FALSE
  BY DEF IInv, TypeOK
<1>1. ASSUME NEW t \in Users, NEW cv \in CondVars,
             q3_cond_signal(t, cv) \/ q3_cond_broadcast(t, cv)
      PROVE  broken' = FALSE
  <2>1. \E n \in 0..Len(cq[cv]) : Mark(cv, n) /\ ~broken'
    BY <1>1, SignalMarks, Distinct
  <2>2. broken' \in BOOLEAN
    BY <2>1 DEF Mark
  <2>3. QED BY <2>1, <2>2
<1>2. ASSUME NEW t \in Threads, UsleepInserts(t) PROVE broken' = FALSE
  <2>1. ~broken'
    BY <1>2, InsertEffect
  <2>2. broken' = (pos[t] \notin ToSet(waitq) \cup {Nobody})
    BY <1>2 DEF UsleepInserts
  <2>3. QED BY <2>1, <2>2
<1>3. ASSUME NEW t \in Threads, UsleepCounts(t) \/ CondWaitWakes(t) PROVE broken' = FALSE
  <2>1. cur \in {t, Nobody} /\ pc[t] \in {"inserted", "counted"} /\ WakesIfLast(t)
    BY <1>3 DEF UsleepCounts, CondWaitWakes, At
  <2>2. UNCHANGED broken
    BY <2>1, WakesEffect DEF Waking
  <2>3. QED BY <1>0, <2>2
<1>4. CASE UNCHANGED broken
  BY <1>0, <1>4
<1>5. ASSUME NEW t \in Threads, Usleep(t) PROVE broken' = FALSE
  BY <1>2, <1>3, <1>4, <1>5 DEF Usleep, UsleepAlone, UsleepFinds
<1>6. ASSUME NEW t \in Threads, Waits(t) PROVE broken' = FALSE
  BY <1>3, <1>4, <1>6
     DEF Waits, MutexLocked, CondWaitCounts, CondWaitReleases, Sleeps, Awaited, Returns, Blocks
<1>7. ASSUME NEW t \in Users, Calls(t) PROVE broken' = FALSE
  BY <1>1, <1>4, <1>7 DEF Calls, q3_mutex_lock, q3_mutex_unlock, CondWaitQueues, CondVars
<1>8. QED BY <1>4, <1>5, <1>6, <1>7 DEF Next, q3_create, vars

\* A place in the timer queue is a thread, or none.
LEMMA PlaceTyped ==
  ASSUME TypeOK, NEW d \in Nat
  PROVE  Place(d) \in Threads \cup {Nobody}
BY PlaceIs, QueueTyped

\* A step keeps the types of the scheduler's variables.
LEMMA SchedNext == IInv /\ [Next]_vars => SchedTyped'
<1> SUFFICES ASSUME IInv, [Next]_vars PROVE SchedTyped'
  OBVIOUS
<1> USE Distinct DEF SchedTyped, Mutexes
<1>0. SchedTyped /\ TypeOK
  BY DEF IInv, TypeOK
<1>1. ASSUME NEW u \in Users, q3_create(u) PROVE SchedTyped'
  BY <1>0, <1>1 DEF q3_create, Goto, RunsOn, timer
<1>2. ASSUME NEW t \in Users, q3_mutex_lock(t) \/ q3_mutex_unlock(t) PROVE SchedTyped'
  BY <1>0, <1>2 DEF q3_mutex_lock, q3_mutex_unlock, Goto, RunsOn, timer
<1>3. ASSUME NEW t \in Users, NEW cv \in CondVars, CondWaitQueues(t, cv) PROVE SchedTyped'
  BY <1>0, <1>3 DEF CondWaitQueues, Goto, RunsOn, timer
<1>4. ASSUME NEW t \in Users, NEW cv \in CondVars,
             q3_cond_signal(t, cv) \/ q3_cond_broadcast(t, cv)
      PROVE  SchedTyped'
  <2>1. UNCHANGED <<holder, pc, cond, pos>> /\ cur' \in {t, Nobody} /\ done' \in [Threads -> BOOLEAN]
    BY <1>4, SignalEffect
  <2>2. QED BY <1>0, <2>1
<1>5. ASSUME NEW t \in Threads, Usleep(t) PROVE SchedTyped'
  <2>1. ASSUME NEW d \in Delays, UsleepAlone(t, d) PROVE SchedTyped'
    BY <1>0, <2>1 DEF UsleepAlone, RunsOn
  <2>2. ASSUME NEW d \in Delays, UsleepFinds(t, d) PROVE SchedTyped'
    <3>1. Place(d) \in Threads \cup {Nobody}
      BY <1>0, PlaceTyped, SimClockAssumption
    <3>2. QED BY <1>0, <2>2, <3>1 DEF UsleepFinds, Goto, RunsOn
  <2>3. CASE UsleepInserts(t)
    BY <1>0, <2>3 DEF UsleepInserts, Acquire, Goto, RunsOn
  <2>4. CASE UsleepCounts(t)
    <3>1. /\ cur \in {t, Nobody} /\ pc[t] = "inserted" /\ WakesIfLast(t)
          /\ pc' = [pc EXCEPT ![t] = "testing"] /\ UNCHANGED <<holder, cond>>
      BY <2>4 DEF UsleepCounts, At, Goto
    <3>2. cur' \in {t, Nobody} /\ pos' = pos /\ done' \in [Threads -> BOOLEAN]
      BY <1>0, <3>1, WakesEffect DEF Waking
    <3>3. QED BY <1>0, <3>1, <3>2
  <2>5. QED BY <1>5, <2>1, <2>2, <2>3, <2>4 DEF Usleep
<1>6. ASSUME NEW t \in Threads, Waits(t) PROVE SchedTyped'
  <2>1. CASE MutexLocked(t)
    BY <1>0, <2>1 DEF MutexLocked, Acquire, Goto, RunsOn, timer
  <2>2. CASE CondWaitCounts(t)
    BY <1>0, <2>2 DEF CondWaitCounts, Acquire, Goto, RunsOn, timer
  <2>3. CASE CondWaitWakes(t)
    <3>1. /\ cur \in {t, Nobody} /\ pc[t] = "counted" /\ WakesIfLast(t)
          /\ pc' = [pc EXCEPT ![t] = "releasing"] /\ UNCHANGED <<holder, cond>>
      BY <2>3 DEF CondWaitWakes, At, Goto
    <3>2. cur' \in {t, Nobody} /\ pos' = pos /\ done' \in [Threads -> BOOLEAN]
      BY <1>0, <3>1, WakesEffect DEF Waking
    <3>3. QED BY <1>0, <3>1, <3>2
  <2>4. CASE CondWaitReleases(t)
    BY <1>0, <2>4 DEF CondWaitReleases, Goto, RunsOn, timer
  <2>5. CASE Sleeps(t)
    BY <1>0, <2>5 DEF Sleeps, Await, Goto, RunsOn, Switches, timer
  <2>6. CASE Awaited(t)
    BY <1>0, <2>6 DEF Awaited, Acquire, Goto, RunsOn, timer
  <2>7. CASE Returns(t)
    BY <1>0, <2>7 DEF Returns, Goto, RunsOn
  <2>8. CASE Blocks(t)
    BY <1>0, <2>8 DEF Blocks, Switches, timer
  <2>9. QED BY <1>6, <2>1, <2>2, <2>3, <2>4, <2>5, <2>6, <2>7, <2>8 DEF Waits
<1>7. CASE UNCHANGED vars
  BY <1>0, <1>7 DEF vars, sched, timer
<1>8. QED BY <1>1, <1>2, <1>3, <1>4, <1>5, <1>6, <1>7 DEF Next, Calls, CondVars

\* A step keeps the types of the lists of the condition variables.
LEMMA ListsNext == IInv /\ [Next]_vars => ListsTyped'
<1> SUFFICES ASSUME IInv, [Next]_vars PROVE ListsTyped'
  OBVIOUS
<1>0. ListsTyped /\ TypeOK /\ ThreadsOK
  <2>1. TypeOK /\ ThreadsOK
    BY DEF IInv, ControlOK
  <2>2. QED BY <2>1 DEF TypeOK, ListsTyped
<1> USE Distinct DEF ListsTyped
<1>1. CASE UNCHANGED <<lists, pth>>
  BY <1>0, <1>1 DEF lists, pth
<1>2. ASSUME NEW t \in Users, NEW cv \in CondVars, CondWaitQueues(t, cv) PROVE ListsTyped'
  BY <1>0, <1>2 DEF CondWaitQueues, pth
<1>3. ASSUME NEW t \in Users, NEW cv \in CondVars,
             q3_cond_signal(t, cv) \/ q3_cond_broadcast(t, cv)
      PROVE  ListsTyped'
  <2>1. PICK n \in 0..Len(cq[cv]) :
          Mark(cv, n) /\ waiting' = [waiting EXCEPT ![cv] = Len(cq[cv]) - n]
    BY <1>3, SignalMarks
  <2>2. cq[cv] \in Seq(Threads) /\ Len(cq[cv]) \in Nat /\ IsInjective(cq[cv])
    BY <1>0, LenProperties DEF IInv, QueuesOK
  <2>3. Rest(cq[cv], n) \in Seq(Threads) /\ Len(cq[cv]) - n \in Nat
    BY <2>2, DropFirst
  <2>4. cq' = [cq EXCEPT ![cv] = Rest(cq[cv], n)]
    BY <2>1 DEF Mark, Rest
  <2>5. PICK kind \in {"one", "broadcast"} : Notify(t, cv, kind)
    BY <1>3 DEF q3_cond_signal, q3_cond_broadcast
  <2>6. PICK q \in Seq(Threads), s \in {"no", "one", "broadcast"} : Notified(cv, kind, q, s)
    BY <2>5, NotifyEffect
  <2>7. UNCHANGED cnWaiters
    BY <1>3, SignalEffect
  <2>8. QED BY <1>0, <2>1, <2>3, <2>4, <2>6, <2>7 DEF Notified
<1>4. ASSUME NEW t \in Threads, UsleepCounts(t) \/ CondWaitWakes(t) PROVE ListsTyped'
  <2>1. /\ cur \in {t, Nobody} /\ pc[t] \in {"inserted", "counted"} /\ WakesIfLast(t)
        /\ UNCHANGED lists
    BY <1>4 DEF UsleepCounts, CondWaitWakes, At
  <2>2. UNCHANGED <<cnWaiters, signaled>> /\ pthq' \in [Conds -> Seq(Threads)]
    <3>1. <<>> \in Seq(Threads) /\ pthq \in [Conds -> Seq(Threads)]
      BY <1>0
    <3>2. CASE UNCHANGED <<pthq, cnWaiters, signaled>>
      BY <3>1, <3>2
    <3>3. CASE Waking(t)
      <4>1. pthq' = [pthq EXCEPT ![Next1] = <<>>] /\ UNCHANGED <<cnWaiters, signaled>>
        BY <3>3 DEF Waking
      <4>2. QED BY <3>1, <4>1
    <3>4. QED BY <2>1, <3>2, <3>3, WakesEffect
  <2>3. QED BY <1>0, <2>1, <2>2 DEF lists
<1>5. ASSUME NEW t \in Threads, CondWaitReleases(t) PROVE ListsTyped'
  <2>1. /\ waiting' = [waiting EXCEPT ![cond[t]] = @ + 1] /\ UNCHANGED <<cq, pth>>
        /\ pc[t] = "releasing"
    BY <1>5 DEF CondWaitReleases, At
  <2>2. cond[t] \in CondVars
    BY <1>0, <2>1 DEF ThreadsOK, ThreadOK, Entering, Waiter
  <2>3. waiting[cond[t]] + 1 \in Nat
    BY <1>0, <2>2
  <2>4. QED BY <1>0, <2>1, <2>2, <2>3 DEF pth
<1>6. ASSUME NEW t \in Threads, Sleeps(t) PROVE ListsTyped'
  <2>1. UNCHANGED lists /\ Await(t, cond[t]) /\ cond[t] \in Conds
    BY <1>0, <1>6 DEF Sleeps, TypeOK
  <2>2. pthq[cond[t]] \in Seq(Threads) /\ Append(pthq[cond[t]], t) \in Seq(Threads)
    BY <1>0, <2>1
  <2>3. /\ signaled' = [signaled EXCEPT ![cond[t]] = "no"]
        /\ pthq' = pthq \/ pthq' = [pthq EXCEPT ![cond[t]] = Append(pthq[cond[t]], t)]
        /\ cnWaiters' = cnWaiters \/ cnWaiters' = [cnWaiters EXCEPT ![cond[t]] = @ + 1]
    BY <2>1 DEF Await
  <2>4. cnWaiters[cond[t]] + 1 \in Int
    BY <1>0, <2>1
  <2>5. cnWaiters' \in [Conds -> Int]
    BY <1>0, <2>3, <2>4
  <2>6. pthq' \in [Conds -> Seq(Threads)]
    <3>1. pthq \in [Conds -> Seq(Threads)]
      BY <1>0
    <3> DEFINE q == Append(pthq[cond[t]], t)
    <3>2. q \in Seq(Threads) /\ (pthq' = pthq \/ pthq' = [pthq EXCEPT ![cond[t]] = q])
      BY <2>2, <2>3
    <3> HIDE DEF q
    <3>3. QED BY <3>1, <3>2
  <2>7. signaled' \in [Conds -> {"no", "one", "broadcast"}]
    BY <1>0, <2>3
  <2>8. QED BY <1>0, <2>1, <2>5, <2>6, <2>7 DEF lists
<1>7. ASSUME NEW t \in Threads, Awaited(t) PROVE ListsTyped'
  <2>1. /\ cnWaiters' = [cnWaiters EXCEPT ![cond[t]] = @ - 1] /\ cond[t] \in Conds
        /\ UNCHANGED <<lists, pthq, signaled>>
    BY <1>0, <1>7 DEF Awaited, TypeOK
  <2>2. cnWaiters[cond[t]] - 1 \in Int
    BY <1>0, <2>1
  <2>3. QED BY <1>0, <2>1, <2>2 DEF lists
<1>8. ASSUME NEW t \in Threads, Usleep(t) PROVE ListsTyped'
  BY <1>1, <1>4, <1>8 DEF Usleep, UsleepAlone, UsleepFinds, UsleepInserts
<1>9. ASSUME NEW t \in Threads, Waits(t) PROVE ListsTyped'
  BY <1>1, <1>4, <1>5, <1>6, <1>7, <1>9
     DEF Waits, MutexLocked, CondWaitCounts, Returns, Blocks
<1>10. ASSUME NEW t \in Users, Calls(t) PROVE ListsTyped'
  BY <1>1, <1>2, <1>3, <1>10 DEF Calls, q3_mutex_lock, q3_mutex_unlock, CondVars
<1>11. ASSUME NEW u \in Users, q3_create(u) PROVE ListsTyped'
  BY <1>1, <1>11 DEF q3_create
<1>12. CASE UNCHANGED vars
  BY <1>1, <1>12 DEF vars
<1>13. QED BY <1>8, <1>9, <1>10, <1>11, <1>12 DEF Next

\* The counters are cardinalities, so natural numbers.
LEMMA CountersTyped ==
  ASSUME ReadyCounted, AwaitingCounted, ListsTyped
  PROVE  nthreads \in Nat /\ cnWaiters \in [Conds -> Nat]
<1>1. nthreads \in Nat
  BY ThreadsFinite DEF ReadyCounted
<1>2. \A c \in Conds : cnWaiters[c] \in Nat
  BY ThreadsFinite DEF AwaitingCounted
<1>3. QED BY <1>1, <1>2 DEF ListsTyped

\* The same, of any state.
Counters ==
  ReadyCounted /\ AwaitingCounted /\ ListsTyped => nthreads \in Nat /\ cnWaiters \in [Conds -> Nat]

\* The counters are typed in every state.
LEMMA CountersAlways == Counters
BY CountersTyped DEF Counters

\* The invariant holds at the start: only the main thread is, and it is ready.
LEMMA Start == Init => IInv
<1> SUFFICES ASSUME Init PROVE IInv
  OBVIOUS
<1> USE Distinct DEF Init
<1>1. TypeOK
  <2>1. <<>> \in Seq(Threads)
    OBVIOUS
  <2>2. QED BY <2>1 DEF TypeOK, Mutexes, Conds
<1>2. /\ \A t \in Threads : cond[t] = t /\ ~done[t] /\ pc[t] = IF t = Main THEN "user" ELSE "absent"
      /\ \A m \in Mutexes : holder[m] = Nobody
      /\ cur = Main
  OBVIOUS
<1>3. ControlOK
  BY <1>2 DEF ControlOK, ThreadsOK, ThreadOK, MutexesOK, OneAtATime, NeedsMutex, NeedsWaitMutex,
              Entering, Mutexes
<1>4. QueuesOK
  BY <1>2, EmptyToSet DEF QueuesOK, Sleeper
<1>5. ReadyCounted
  <2>1. {t \in Threads : Ready(t)} = {Main}
    BY <1>2 DEF Ready, Stopped, Sleeper, Waiter
  <2>2. QED BY <2>1, FS_Singleton DEF ReadyCounted
<1>6. WaitingExact
  <2>1. Len(<<>>) = 0
    OBVIOUS
  <2>2. QED BY <1>2, <2>1 DEF WaitingExact, Entering
<1>7. AwaitingCounted
  <2>1. \A c \in Conds : {t \in Threads : pc[t] = "awaiting" /\ cond[t] = c} = {}
    BY <1>2
  <2>2. QED BY <2>1, FS_EmptySet DEF AwaitingCounted
<1>8. PthOK
  BY <1>2, EmptyToSet DEF PthOK
<1>9. TimerOK
  BY <1>2 DEF TimerOK, Sorted, PlaceKept
<1>10. QED BY <1>1, <1>3, <1>4, <1>5, <1>6, <1>7, <1>8, <1>9 DEF IInv, CountsOK

\* The inductive invariant: what every operation of the library relies on.
THEOREM Invariance == Spec => []IInv
<1>1. IInv /\ [Next]_vars => IInv'
  <2> SUFFICES ASSUME IInv, [Next]_vars PROVE IInv'
    OBVIOUS
  <2>1. ThreadsOK' /\ MutexesOK' /\ OneAtATime'
    BY ThreadsNext, MutexesNext, OneAtATimeNext
  <2>2. ReadyCounted' /\ WaitingExact' /\ AwaitingCounted'
    BY ReadyCountedNext, WaitingExactNext, AwaitingCountedNext
  <2>3. QueuesOK' /\ PthOK' /\ TimerOK' /\ broken' = FALSE
    BY QueuesNext, PthNext, TimerNext, BrokenNext
  <2>4. SchedTyped' /\ ListsTyped' /\ left' \in [Threads -> Nat] /\ waitq' \in Seq(Threads)
    BY SchedNext, ListsNext, TimerNext
  <2>5. Counters'
    BY CountersAlways, PTL
  <2>6. nthreads' \in Nat /\ cnWaiters' \in [Conds -> Nat]
    BY <2>2, <2>4, <2>5 DEF Counters
  <2>7. TypeOK'
    BY <2>3, <2>4, <2>6 DEF TypeOK, SchedTyped, ListsTyped
  <2>8. QED BY <2>1, <2>2, <2>3, <2>7 DEF IInv, ControlOK, CountsOK
<1>2. QED BY Start, <1>1, PTL DEF Spec

-----------------------------------------------------------------------------
(* What follows *)

\* Every variable holds a value of its type; in particular no counter of the
\* library goes below zero and time never passes a sleeper's instant.
THEOREM TypeCorrect == Spec => []TypeOK
<1>1. IInv => TypeOK
  BY DEF IInv
<1>2. QED BY Invariance, <1>1, PTL

\* misc.c never follows a NULL next sleeper or waiter, and insert_before never
\* links a node before one that has left the timer queue.
THEOREM BrokenNever == Spec => []NeverBroken
<1>1. IInv => NeverBroken
  BY DEF IInv, NeverBroken
<1>2. QED BY Invariance, <1>1, PTL

\* nthreads is the number of runnable threads wherever a thread may switch,
\* although each operation adjusts it at a place of its own.
THEOREM RunnableIsCounted == Spec => []RunnableCounted
<1>1. IInv => RunnableCounted
  <2> SUFFICES ASSUME IInv PROVE RunnableCounted
    OBVIOUS
  <2>1. ASSUME NEW t \in Threads PROVE Ready(t) <=> t \in Runnable
    <3>1. t \in Asleep <=> Sleeper(t)
      BY DEF IInv, QueuesOK, Asleep
    <3>2. t \in UNION {InCond(cv) : cv \in CondVars} <=> Waiter(t)
      BY DEF IInv, QueuesOK, InCond, Waiter
    <3>3. QED BY <3>1, <3>2 DEF Ready, Stopped, Runnable
  <2>2. Runnable = {t \in Threads : Ready(t)}
    BY <2>1 DEF Runnable
  <2>3. QED BY <2>2 DEF IInv, CountsOK, ReadyCounted, RunnableCounted
<1>2. QED BY Invariance, <1>1, PTL

\* waiting is the length of the list of the condition variable but for a thread
\* that is inside of q3_cond_wait and has not counted itself yet.
THEOREM WaitingIsLength == Spec => []WaitingIsListLength
<1>1. IInv => WaitingIsListLength
  <2> SUFFICES ASSUME IInv, NEW cv \in CondVars
               PROVE  waiting[cv] + Cardinality({t \in InCond(cv) : pc[t] \in Entering})
                        = Len(cq[cv])
    BY DEF WaitingIsListLength, Entering
  <2> DEFINE E == {t \in InCond(cv) : pc[t] \in Entering}
  <2>1. E = {t \in Threads : cond[t] = cv /\ pc[t] \in Entering}
    <3>1. \A t \in InCond(cv) : t \in Threads
      <4>1. cq[cv] \in Seq(Threads)
        BY DEF IInv, TypeOK
      <4>2. QED BY <4>1, ElementOfSeq, InToSet DEF InCond
    <3>2. \A t \in Threads : t \in InCond(cv) <=> cond[t] = cv /\ ~done[t]
      BY DEF IInv, QueuesOK, InCond
    <3>3. \A t \in Threads : pc[t] \in Entering => ~done[t]
      BY DEF IInv, ControlOK, ThreadsOK, ThreadOK, Waiter
    <3>4. QED BY <3>1, <3>2, <3>3
  <2>2. \A t, u \in E : t = u
    BY <2>1 DEF IInv, ControlOK, MutexesOK, NeedsMutex
  <2>3. waiting[cv] + (IF E # {} THEN 1 ELSE 0) = Len(cq[cv])
    <3>1. E # {} <=> \E t \in Threads : cond[t] = cv /\ pc[t] \in Entering
      BY <2>1
    <3>2. QED BY <3>1 DEF IInv, CountsOK, WaitingExact
  <2> HIDE DEF E
  <2>4. Cardinality(E) = IF E # {} THEN 1 ELSE 0
    <3>1. CASE E = {}
      BY <3>1, FS_EmptySet
    <3>2. CASE E # {}
      <4>1. PICK t \in E : E = {t}
        BY <2>2, <3>2
      <4>2. QED BY <3>2, <4>1, FS_Singleton
    <3>3. QED BY <3>1, <3>2
  <2>5. QED BY <2>3, <2>4 DEF E
<1>2. QED BY Invariance, <1>1, PTL

\* The timer queue is in order of waking, and the place a sleeper found before
\* it had wait_mutex is still its place.
THEOREM TimerQueueHolds == Spec => []TimerQueueOK
<1>1. IInv => TimerQueueOK
  <2> SUFFICES ASSUME IInv PROVE TimerQueueOK
    OBVIOUS
  <2>1. \A i \in DOMAIN waitq : left[waitq[i]] >= 0
    BY QueueTyped DEF IInv
  <2>2. QED BY <2>1 DEF IInv, TimerOK, Sorted, PlaceKept, TimerQueueOK
<1>2. QED BY Invariance, <1>1, PTL

-----------------------------------------------------------------------------
(* The library's lists and Pth's *)

\* homework.c signals some condition variables and broadcasts others.  With one
\* used both ways the flag that a broadcast leaves lets a waiter through
\* pth_cond_await unqueued; it awaits again behind waiters that came later, so
\* the library marks the first of its list and Pth wakes the first of its own.
UsedOneWay == Signals \cap Broadcasts = {}

\* Who is in Pth's list of a condition variable waits there, unmarked; the flag
\* that a notify leaves is of the kind the condition variable is used with.
FlagsOK ==
  /\ \A cv \in Signals : signaled[cv] # "broadcast"
  /\ \A cv \in Broadcasts : ToSet(pthq[cv]) \subseteq ToSet(cq[cv])

WakeInv == ListsAgree /\ FlagsOK

\* A step that changes neither list, nor who is about to await.
LEMMA SameWake ==
  ASSUME WakeInv, \A cv \in CondVars : pthq'[cv] = pthq[cv] /\ cq'[cv] = cq[cv],
         \A cv \in Signals : signaled'[cv] \in {signaled[cv], "no"},
         \A v \in Threads, cv \in CondVars :
           cond[v] = cv /\ ~done[v] /\ pc[v] \in Entering \cup {"testing"}
             => cond'[v] = cv /\ ~done'[v] /\ pc'[v] \in Entering \cup {"testing"}
  PROVE  WakeInv'
<1>1. ListsAgree'
  <2> SUFFICES ASSUME NEW cv \in Signals
               PROVE  \/ pthq'[cv] = cq'[cv]
                      \/ \E t \in Threads : /\ cond'[t] = cv /\ ~done'[t]
                                            /\ pc'[t] \in Entering \cup {"testing"}
                                            /\ cq'[cv] = Append(pthq'[cv], t)
    BY DEF ListsAgree
  <2>1. cv \in CondVars
    BY Distinct
  <2>2. CASE pthq[cv] = cq[cv]
    BY <2>1, <2>2
  <2>3. ASSUME NEW t \in Threads, cond[t] = cv, ~done[t], pc[t] \in Entering \cup {"testing"},
               cq[cv] = Append(pthq[cv], t)
        PROVE  /\ cond'[t] = cv /\ ~done'[t] /\ pc'[t] \in Entering \cup {"testing"}
               /\ cq'[cv] = Append(pthq'[cv], t)
    BY <2>1, <2>3
  <2>4. QED BY <2>2, <2>3 DEF WakeInv, ListsAgree
<1>2. FlagsOK'
  BY Distinct DEF WakeInv, FlagsOK
<1>3. QED BY <1>1, <1>2 DEF WakeInv

\* Where a thread outside of the library takes a step the lists are the same.
LEMMA ListsSame ==
  ASSUME IInv, ListsAgree, NEW t \in Threads, cur \in {t, Nobody}, pc[t] = "user",
         NEW cv \in Signals
  PROVE  pthq[cv] = cq[cv]
<1>1. \A v \in Threads : cond[v] = cv /\ ~done[v] => pc[v] = "awaiting"
  BY WaitersAwait, Distinct DEF IInv, Waiter
<1>2. QED BY <1>1 DEF ListsAgree, Entering

\* Nobody inside of pth_cond_await, nobody in the list.
LEMMA NobodyAwaits ==
  ASSUME IInv, NEW t \in Threads, cur \in {t, Nobody}, pc[t] = "user", NEW cv \in CondVars,
         cnWaiters[cv] = 0
  PROVE  cq[cv] = <<>> /\ pthq[cv] = <<>>
<1>1. \A v \in Threads : ~(pc[v] = "awaiting" /\ cond[v] = cv)
  <2>1. Cardinality(Awaiting(cv)) = 0 /\ IsFiniteSet(Awaiting(cv))
    BY ThreadsFinite, Distinct DEF IInv, CountsOK, AwaitingCounted, Awaiting
  <2>2. Awaiting(cv) = {}
    BY <2>1, FS_EmptySet
  <2>3. QED BY <2>2 DEF Awaiting
<1>2. /\ cq[cv] \in Seq(Threads) /\ pthq[cv] \in Seq(Threads)
  BY Distinct DEF IInv, TypeOK
<1>3. \A v \in Threads : v \notin ToSet(cq[cv]) /\ v \notin ToSet(pthq[cv])
  BY <1>1, WaitersAwait, Distinct DEF IInv, QueuesOK, PthOK, Waiter
<1>4. \A s \in Seq(Threads) : (\A v \in Threads : v \notin ToSet(s)) => s = <<>>
  <2>1. ASSUME NEW s \in Seq(Threads), \A v \in Threads : v \notin ToSet(s) PROVE s = <<>>
    <3>1. ToSet(s) = {}
      BY <2>1, ElementOfSeq, InToSet
    <3>2. QED BY <3>1, EmptyToSet
  <2>2. QED BY <2>1
<1>5. QED BY <1>2, <1>3, <1>4

\* Without its first element a list is its tail.
LEMMA RestIsTail ==
  ASSUME NEW S, NEW s \in Seq(S), IsInjective(s)
  PROVE  /\ s # <<>> => Rest(s, 1) = Tail(s)
         /\ Rest(<<>>, 0) = <<>>
<1>1. ASSUME s # <<>> PROVE Rest(s, 1) = Tail(s)
  <2>1. Len(s) \in Nat /\ 1 \in 0..Len(s)
    <3>1. Len(s) # 0 /\ Len(s) \in Nat
      BY <1>1, LenProperties, EmptySeq
    <3>2. QED BY <3>1
  <2>2. /\ Rest(s, 1) \in Seq(S) /\ Len(Rest(s, 1)) = Len(s) - 1
        /\ \A i \in 1..(Len(s) - 1) : Rest(s, 1)[i] = s[1 + i]
    BY <2>1, DropFirst
  <2>3. /\ Tail(s) \in Seq(S) /\ Len(Tail(s)) = Len(s) - 1
        /\ \A i \in 1..Len(Tail(s)) : Tail(s)[i] = s[i + 1]
    BY <1>1, HeadTailProperties
  <2> DEFINE a == Rest(s, 1)
             b == Tail(s)
  <2> HIDE DEF a, b
  <2>4. \A i \in 1..Len(a) : a[i] = b[i]
    BY <2>1, <2>2, <2>3 DEF a, b
  <2>5. a = b
    BY <2>2, <2>3, <2>4, SeqEqual DEF a, b
  <2>6. QED BY <2>5 DEF a, b
<1>2. Rest(<<>>, 0) = <<>>
  <2>1. <<>> \in Seq(S) /\ Len(<<>>) = 0 /\ 0 \in 0..0
    OBVIOUS
  <2>2. Rest(<<>>, 0) \in Seq(S) /\ Len(Rest(<<>>, 0)) = 0
    BY <2>1, DropFirst, EmptyToSet
  <2>3. QED BY <2>2, EmptySeq
<1>3. QED BY <1>1, <1>2

\* A step's effect on the two lists.
LEMMA WakeNextInv == UsedOneWay /\ IInv /\ WakeInv /\ [Next]_vars => WakeInv'
<1> SUFFICES ASSUME UsedOneWay, IInv, WakeInv, [Next]_vars PROVE WakeInv'
  OBVIOUS
<1> USE Distinct DEF Entering
<1>0. WakeInv /\ TypeOK /\ ThreadsOK
  BY DEF IInv, ControlOK
<1>1. ASSUME NEW u \in Users, q3_create(u) PROVE WakeInv'
  BY <1>0, <1>1, SameWake DEF q3_create, Goto, TypeOK, pth, lists, timer
<1>2. ASSUME NEW t \in Users, q3_mutex_lock(t) \/ q3_mutex_unlock(t) PROVE WakeInv'
  BY <1>0, <1>2, SameWake DEF q3_mutex_lock, q3_mutex_unlock, At, Goto, TypeOK, pth, lists
<1>3. ASSUME NEW t \in Users, NEW cv \in CondVars, CondWaitQueues(t, cv) PROVE WakeInv'
  <2>1. /\ cur \in {t, Nobody} /\ pc[t] = "user" /\ cq' = [cq EXCEPT ![cv] = Append(@, t)]
        /\ cond' = [cond EXCEPT ![t] = cv] /\ done' = [done EXCEPT ![t] = FALSE]
        /\ pc' = [pc EXCEPT ![t] = "queued"] /\ UNCHANGED <<pthq, signaled>> /\ t \in Threads
    BY <1>3 DEF CondWaitQueues, At, Goto, pth
  <2>2. \A w \in Signals : pthq[w] = cq[w]
    BY <2>1, ListsSame DEF WakeInv
  <2>3. \A w \in CondVars : cq'[w] = IF w = cv THEN Append(cq[cv], t) ELSE cq[w]
    BY <1>0, <2>1 DEF TypeOK
  <2>4. cond'[t] = cv /\ ~done'[t] /\ pc'[t] = "queued"
    BY <1>0, <2>1 DEF TypeOK
  <2>5. ListsAgree'
    BY <2>1, <2>2, <2>3, <2>4 DEF ListsAgree
  <2>6. ToSet(Append(cq[cv], t)) = ToSet(cq[cv]) \cup {t}
    <3>1. cq[cv] \in Seq(Threads)
      BY <1>0 DEF TypeOK
    <3>2. QED BY <2>1, <3>1, AppendToSet
  <2>7. FlagsOK'
    BY <1>0, <2>1, <2>3, <2>6 DEF WakeInv, FlagsOK
  <2>8. QED BY <2>5, <2>7 DEF WakeInv
<1>4. ASSUME NEW t \in Users, NEW cv \in Signals, q3_cond_signal(t, cv) PROVE WakeInv'
  <2>1. /\ cur \in {t, Nobody} /\ pc[t] = "user" /\ t \in Threads /\ cv \in CondVars
        /\ UNCHANGED <<pc, cond>> /\ Notify(t, cv, "one")
    BY <1>4, SignalEffect DEF q3_cond_signal
  <2>2. PICK q \in Seq(Threads), s \in {"no", "one", "broadcast"} : Notified(cv, "one", q, s)
    BY <2>1, NotifyEffect
  <2>3. PICK n \in 0..Len(cq[cv]) : Mark(cv, n) /\ (n = 1 \/ cq[cv] = <<>>)
    BY <1>4, <2>1, SignalMarks
  <2>4. cq' = [cq EXCEPT ![cv] = Rest(cq[cv], n)]
    BY <2>3 DEF Mark, Rest
  <2>5. pthq[cv] = cq[cv] /\ cq[cv] \in Seq(Threads) /\ IsInjective(cq[cv])
    BY <1>0, <2>1, ListsSame DEF WakeInv, IInv, TypeOK, QueuesOK
  <2>6. q = Rest(cq[cv], n)
    <3>1. CASE cq[cv] = <<>>
      <4>1. Len(<<>>) = 0
        OBVIOUS
      <4>2. n = 0
        BY <2>3, <3>1, <4>1
      <4>3. q = <<>>
        BY <2>2, <2>5, <3>1 DEF Notified
      <4>4. QED BY <2>5, <3>1, <4>2, <4>3, RestIsTail
    <3>2. CASE cq[cv] # <<>>
      <4>1. cnWaiters[cv] # 0
        BY <2>1, <3>2, NobodyAwaits
      <4>2. q = Tail(cq[cv]) /\ n = 1
        BY <2>2, <2>3, <2>5, <3>2, <4>1 DEF Notified
      <4>3. QED BY <2>5, <3>2, <4>2, RestIsTail
    <3>3. QED BY <3>1, <3>2
  <2>7. \A w \in CondVars : /\ pthq'[w] = (IF w = cv THEN q ELSE pthq[w])
                            /\ cq'[w] = (IF w = cv THEN q ELSE cq[w])
                            /\ signaled'[w] = (IF w = cv THEN s ELSE signaled[w])
    BY <1>0, <2>2, <2>4, <2>6 DEF TypeOK, Notified
  <2>8. ListsAgree'
    <3>1. \A w \in Signals : pthq[w] = cq[w]
      BY <1>0, <2>1, ListsSame DEF WakeInv
    <3>2. QED BY <2>7, <3>1 DEF ListsAgree
  <2>9. FlagsOK'
    <3>1. s # "broadcast"
      BY <1>0, <2>2 DEF Notified, WakeInv, FlagsOK
    <3>2. cv \notin Broadcasts
      BY DEF UsedOneWay
    <3>3. QED BY <1>0, <2>7, <3>1, <3>2 DEF WakeInv, FlagsOK
  <2>10. QED BY <2>8, <2>9 DEF WakeInv
<1>5. ASSUME NEW t \in Users, NEW cv \in Broadcasts, q3_cond_broadcast(t, cv) PROVE WakeInv'
  <2>1. /\ cur \in {t, Nobody} /\ pc[t] = "user" /\ t \in Threads /\ cv \in CondVars
        /\ UNCHANGED <<pc, cond>> /\ Notify(t, cv, "broadcast")
    BY <1>5, SignalEffect DEF q3_cond_broadcast
  <2>2. PICK q \in Seq(Threads), s \in {"no", "one", "broadcast"} :
          Notified(cv, "broadcast", q, s)
    BY <2>1, NotifyEffect
  <2>3. PICK n \in 0..Len(cq[cv]) : Mark(cv, n)
    BY <1>5, <2>1, SignalMarks
  <2>4. q = <<>>
    BY <2>1, <2>2, NobodyAwaits DEF Notified
  <2>5. \A w \in CondVars \ {cv} : /\ pthq'[w] = pthq[w] /\ cq'[w] = cq[w]
                                   /\ signaled'[w] = signaled[w]
    BY <1>0, <2>2, <2>3 DEF TypeOK, Notified, Mark
  <2>6. pthq'[cv] = <<>>
    BY <1>0, <2>1, <2>2, <2>4 DEF TypeOK, Notified
  <2>7. cv \notin Signals
    BY DEF UsedOneWay
  <2>8. ListsAgree'
    <3>1. \A w \in Signals : pthq[w] = cq[w]
      BY <1>0, <2>1, ListsSame DEF WakeInv
    <3>2. QED BY <2>5, <2>7, <3>1 DEF ListsAgree
  <2>9. FlagsOK'
    BY <1>0, <2>5, <2>6, <2>7, EmptyToSet DEF WakeInv, FlagsOK
  <2>10. QED BY <2>8, <2>9 DEF WakeInv
<1>6. ASSUME NEW t \in Threads, UsleepCounts(t) \/ CondWaitWakes(t) PROVE WakeInv'
  <2>1. /\ cur \in {t, Nobody} /\ pc[t] \in {"inserted", "counted"} /\ WakesIfLast(t)
        /\ pc' = [pc EXCEPT ![t] = IF pc[t] = "inserted" THEN "testing" ELSE "releasing"]
        /\ UNCHANGED <<cond, cq>>
    BY <1>6 DEF UsleepCounts, CondWaitWakes, At, Goto, lists
  <2>2. CASE UNCHANGED <<done, pthq, signaled>>
    BY <1>0, <2>1, <2>2, SameWake DEF TypeOK
  <2>3. CASE Waking(t)
    <3>1. /\ Next1 \in Threads /\ pthq' = [pthq EXCEPT ![Next1] = <<>>] /\ UNCHANGED signaled
          /\ done' = [done EXCEPT ![Next1] = TRUE] /\ pc[Next1] \in {"inserted", "awaiting"}
      BY <2>3 DEF Waking
    <3>2. \A cv \in CondVars : pthq'[cv] = pthq[cv]
      BY <1>0, <3>1 DEF TypeOK
    <3>3. ASSUME NEW v \in Threads, NEW cv \in CondVars, cond[v] = cv, ~done[v],
                 pc[v] \in Entering \cup {"testing"}
          PROVE  cond'[v] = cv /\ ~done'[v] /\ pc'[v] \in Entering \cup {"testing"}
      BY <1>0, <2>1, <3>1, <3>3 DEF TypeOK
    <3>4. QED BY <1>0, <2>1, <3>1, <3>2, <3>3, SameWake
  <2>4. QED BY <2>1, <2>2, <2>3, WakesEffect
<1>7. ASSUME NEW t \in Threads, Sleeps(t) PROVE WakeInv'
  <2>1. pc[t] = "testing" /\ ~done[t] /\ UNCHANGED <<cond, done, cq>> /\ Await(t, cond[t])
    BY <1>7 DEF Sleeps, At, lists
  <2>2. CASE cond[t] \notin CondVars \/ signaled[cond[t]] = "one"
    <3>1. /\ \A cv \in CondVars : pthq'[cv] = pthq[cv] /\ signaled'[cv] \in {signaled[cv], "no"}
          /\ \A v \in Threads : pc'[v] = pc[v] \/ (v = t /\ cond[t] \notin CondVars)
      BY <1>0, <2>1, <2>2, SMTT(30) DEF Await, Goto, TypeOK
    <3>2. QED BY <1>0, <2>1, <3>1, SameWake
  <2>3. ASSUME NEW cv \in CondVars, cv = cond[t], signaled[cv] # "one" PROVE WakeInv'
    <3>1. /\ pc' = [pc EXCEPT ![t] = "awaiting"] /\ signaled' = [signaled EXCEPT ![cv] = "no"]
          /\ pthq' = IF signaled[cv] = "no" THEN [pthq EXCEPT ![cv] = Append(pthq[cv], t)] ELSE pthq
      BY <2>1, <2>3 DEF Await, Goto
    <3>2. \A w \in CondVars \ {cv} : pthq'[w] = pthq[w] /\ signaled'[w] = signaled[w]
      BY <1>0, <3>1 DEF TypeOK
    <3>3. signaled'[cv] = "no" /\ (signaled[cv] = "no" => pthq'[cv] = Append(pthq[cv], t))
          /\ (signaled[cv] # "no" => pthq'[cv] = pthq[cv])
      BY <1>0, <3>1 DEF TypeOK
    <3>4. t \in ToSet(cq[cv]) /\ t \notin ToSet(pthq[cv])
      BY <2>1, <2>3 DEF IInv, QueuesOK, PthOK
    <3>5. ASSUME NEW w \in Signals
          PROVE  \/ pthq'[w] = cq'[w]
                 \/ \E v \in Threads : /\ cond'[v] = w /\ ~done'[v]
                                       /\ pc'[v] \in Entering \cup {"testing"}
                                       /\ cq'[w] = Append(pthq'[w], v)
      <4>1. CASE w = cv
        <5>1. signaled[cv] = "no"
          BY <1>0, <2>3, <4>1 DEF WakeInv, FlagsOK, TypeOK
        <5>2. pthq[cv] # cq[cv]
          BY <3>4
        <5>3. PICK v \in Threads : /\ cond[v] = cv /\ ~done[v] /\ pc[v] \in Entering \cup {"testing"}
                                   /\ cq[cv] = Append(pthq[cv], v)
          BY <1>0, <4>1, <5>2 DEF WakeInv, ListsAgree
        <5>4. v = t
          BY <2>1, <2>3, <5>3 DEF IInv, ControlOK, MutexesOK, NeedsMutex
        <5>5. QED BY <2>1, <3>3, <4>1, <5>1, <5>3, <5>4
      <4>2. CASE w # cv
        <5>1. pthq'[w] = pthq[w] /\ cq'[w] = cq[w]
          BY <2>1, <3>2, <4>2
        <5>2. \A v \in Threads : cond[v] = w => pc'[v] = pc[v] /\ cond'[v] = w /\ done'[v] = done[v]
          BY <1>0, <2>1, <2>3, <3>1, <4>2 DEF TypeOK
        <5>3. QED BY <1>0, <5>1, <5>2 DEF WakeInv, ListsAgree
      <4>3. QED BY <4>1, <4>2
    <3>6. ListsAgree'
      BY <3>5 DEF ListsAgree
    <3>7. ToSet(pthq'[cv]) \subseteq ToSet(pthq[cv]) \cup {t}
      <4>1. ToSet(Append(pthq[cv], t)) = ToSet(pthq[cv]) \cup {t}
        <5>1. pthq[cv] \in Seq(Threads)
          BY <1>0 DEF TypeOK
        <5>2. QED BY <5>1, AppendToSet
      <4>2. QED BY <3>3, <4>1
    <3>8. FlagsOK'
      <4>1. ASSUME NEW w \in Signals PROVE signaled'[w] # "broadcast"
        BY <1>0, <3>2, <3>3 DEF WakeInv, FlagsOK
      <4>2. ASSUME NEW w \in Broadcasts PROVE ToSet(pthq'[w]) \subseteq ToSet(cq'[w])
        <5>1. ToSet(pthq[w]) \subseteq ToSet(cq[w]) /\ cq'[w] = cq[w] /\ w \in CondVars
          BY <1>0, <2>1 DEF WakeInv, FlagsOK
        <5>2. CASE w = cv
          BY <3>4, <3>7, <5>1, <5>2
        <5>3. CASE w # cv
          BY <3>2, <5>1, <5>3
        <5>4. QED BY <5>2, <5>3
      <4>3. QED BY <4>1, <4>2 DEF FlagsOK
    <3>9. QED BY <3>6, <3>8 DEF WakeInv
  <2>4. QED BY <2>2, <2>3
<1>8. ASSUME NEW t \in Threads, Usleep(t) PROVE WakeInv'
  <2>1. ASSUME NEW d \in Delays, UsleepAlone(t, d) PROVE WakeInv'
    BY <1>0, <2>1, SameWake DEF UsleepAlone, pth, lists
  <2>2. ASSUME NEW d \in Delays, UsleepFinds(t, d) PROVE WakeInv'
    BY <1>0, <2>2, SameWake DEF UsleepFinds, At, Goto, TypeOK, pth, lists
  <2>3. CASE UsleepInserts(t)
    BY <1>0, <2>3, SameWake DEF UsleepInserts, At, Goto, TypeOK, pth, lists
  <2>4. QED BY <1>6, <1>8, <2>1, <2>2, <2>3 DEF Usleep
<1>9. ASSUME NEW t \in Threads, Waits(t) PROVE WakeInv'
  <2>1. CASE MutexLocked(t)
    BY <1>0, <2>1, SameWake DEF MutexLocked, At, Goto, TypeOK, pth, lists
  <2>2. CASE CondWaitCounts(t)
    BY <1>0, <2>2, SameWake DEF CondWaitCounts, At, Goto, TypeOK, pth, lists
  <2>3. CASE CondWaitReleases(t)
    BY <1>0, <2>3, SameWake DEF CondWaitReleases, At, Goto, TypeOK, pth
  <2>4. CASE Awaited(t)
    BY <1>0, <2>4, SameWake DEF Awaited, At, Goto, TypeOK, lists
  <2>5. CASE Returns(t)
    BY <1>0, <2>5, SameWake DEF Returns, At, Goto, TypeOK, pth, lists
  <2>6. CASE Blocks(t)
    BY <1>0, <2>6, SameWake DEF Blocks, pth, lists
  <2>7. QED BY <1>6, <1>7, <1>9, <2>1, <2>2, <2>3, <2>4, <2>5, <2>6 DEF Waits
<1>10. CASE UNCHANGED vars
  BY <1>0, <1>10, SameWake DEF vars, sched, pth, lists
<1>11. QED BY <1>1, <1>2, <1>3, <1>4, <1>5, <1>8, <1>9, <1>10 DEF Next, Calls

\* A thread that is marked, so signalled, broadcast to or woken by the clock, is
\* no longer among those Pth keeps asleep, provided no condition variable is
\* used with both kinds of notification.
THEOREM MarkedAreWoken == UsedOneWay => (Spec => []MarkedIsWoken)
<1> SUFFICES ASSUME UsedOneWay PROVE Spec => []MarkedIsWoken
  OBVIOUS
<1>1. Init => WakeInv
  <2> SUFFICES ASSUME Init PROVE WakeInv
    OBVIOUS
  <2>1. \A cv \in CondVars : pthq[cv] = <<>> /\ cq[cv] = <<>> /\ signaled[cv] = "no"
    BY Distinct DEF Init
  <2>2. QED BY <2>1, Distinct DEF WakeInv, ListsAgree, FlagsOK
<1>2. UsedOneWay /\ IInv /\ WakeInv /\ [Next]_vars => WakeInv'
  BY WakeNextInv
<1>3. IInv /\ WakeInv => MarkedIsWoken
  <2> SUFFICES ASSUME IInv, WakeInv, NEW t \in Threads, done[t]
               PROVE  t \notin ToSet(pthq[cond[t]])
    BY DEF MarkedIsWoken
  <2>1. cond[t] \in CondVars \cup {t}
    BY DEF IInv, ControlOK, ThreadsOK, ThreadOK
  <2>2. CASE cond[t] = t
    BY <2>2, EmptyToSet DEF IInv, PthOK
  <2>3. ASSUME NEW cv \in CondVars, cond[t] = cv PROVE t \notin ToSet(pthq[cv])
    <3>1. t \notin ToSet(cq[cv])
      BY <2>3 DEF IInv, QueuesOK
    <3>2. CASE cv \in Broadcasts
      BY <3>1, <3>2 DEF WakeInv, FlagsOK
    <3>3. CASE cv \in Signals
      <4>1. \A v \in Threads : ToSet(Append(pthq[cv], v)) = ToSet(pthq[cv]) \cup {v}
        <5>1. pthq[cv] \in Seq(Threads)
          BY Distinct DEF IInv, TypeOK
        <5>2. QED BY <5>1, AppendToSet
      <4>2. QED BY <3>1, <3>3, <4>1 DEF WakeInv, ListsAgree
    <3>4. QED BY <3>2, <3>3 DEF CondVars
  <2>4. QED BY <2>1, <2>2, <2>3
<1>4. QED BY Invariance, <1>1, <1>2, <1>3, PTL DEF Spec

-----------------------------------------------------------------------------
(* Refinement *)

\* The state of the abstract clock that this state of the library shows.
Owner ==
  IF \E cv \in CondVars : holder["mutex"] \in InCond(cv) THEN Nobody ELSE holder["mutex"]
Created == {t \in Threads : pc[t] # "absent"}
AsleepFor == [t \in Asleep |-> left[t]]
Relocking == {t \in Threads : done[t] /\ cond[t] # t /\ pc[t] = "awaiting"}

\* Who wants to sleep does so for one of the delays.
DelaysKept == \A t \in Threads : pc[t] = "inserting" => left[t] \in Delays

\* A waiter gives up the mutex, for the abstract clock, when it enters the list.
ViewOK ==
  /\ Owner \in Threads \cup {Nobody}
  /\ \A t \in Threads : Owner = t <=> holder["mutex"] = t /\ ~Waiter(t)
  /\ \A t \in Threads : t \in Asleep <=> Sleeper(t)
  /\ \A cv \in CondVars, t \in Threads : t \in ToSet(cq[cv]) <=> cond[t] = cv /\ ~done[t]
  /\ Time!Stopped = {t \in Threads : Sleeper(t) \/ Waiter(t)}
  /\ Time!Running = {t \in Threads : /\ pc[t] # "absent" /\ ~Sleeper(t) /\ ~Waiter(t)
                                     /\ t \notin Relocking}

\* What the abstract clock sees follows from the invariant.
LEMMA View == IInv => ViewOK
<1> SUFFICES ASSUME IInv PROVE ViewOK
  OBVIOUS
<1>1. /\ \A t \in Threads : t \in Asleep <=> Sleeper(t)
      /\ \A cv \in CondVars, t \in Threads : t \in ToSet(cq[cv]) <=> cond[t] = cv /\ ~done[t]
  BY DEF IInv, QueuesOK, Asleep
<1>2. /\ Asleep \subseteq Threads
      /\ \A cv \in CondVars : ToSet(cq[cv]) \subseteq Threads
  <2>1. \A s \in Seq(Threads) : ToSet(s) \subseteq Threads
    BY ElementOfSeq, InToSet
  <2>2. waitq \in Seq(Threads) /\ \A cv \in CondVars : cq[cv] \in Seq(Threads)
    BY DEF IInv, TypeOK
  <2>3. QED BY <2>1, <2>2 DEF Asleep
<1>3. \A t \in Threads : (\E cv \in CondVars : t \in ToSet(cq[cv])) <=> Waiter(t)
  BY <1>1 DEF Waiter
<1>4. holder["mutex"] \in Threads \cup {Nobody}
  BY DEF IInv, TypeOK, Mutexes
<1>5. Nobody \notin Threads
  BY Distinct
<1>6. /\ Owner \in Threads \cup {Nobody}
      /\ \A t \in Threads : Owner = t <=> holder["mutex"] = t /\ ~Waiter(t)
  BY <1>3, <1>4, <1>5 DEF Owner, InCond
<1>7. Time!Stopped = {t \in Threads : Sleeper(t) \/ Waiter(t)}
  <2>1. Time!Waiting = {t \in Threads : Waiter(t)}
    BY <1>2, <1>3 DEF Time!Waiting, Time!Blocked, Time!ToSet, ToSet
  <2>2. QED BY <1>1, <1>2, <2>1 DEF Time!Stopped
<1>8. Time!Running = {t \in Threads : /\ pc[t] # "absent" /\ ~Sleeper(t) /\ ~Waiter(t)
                                      /\ t \notin Relocking}
  BY <1>7 DEF Time!Running, Relocking
<1>9. QED BY <1>1, <1>6, <1>7, <1>8 DEF ViewOK

\* A step that shows nothing of itself.
LEMMA Hidden ==
  ASSUME UNCHANGED <<Owner, cq, Created, AsleepFor, Relocking>>
  PROVE  [Time!VNext]_Time!vvars
BY DEF Time!vvars, Owner, Created, AsleepFor, Relocking

\* Who is outside of the library neither sleeps nor waits.
LEMMA OutsideRuns ==
  ASSUME IInv, NEW t \in Threads, pc[t] \in {"user", "locking", "inserting"}
  PROVE  ~Sleeper(t) /\ ~Waiter(t) /\ t \notin Relocking /\ t \in Time!Running
<1>1. ~Sleeper(t) /\ ~Waiter(t) /\ t \notin Relocking
  BY Distinct DEF IInv, ControlOK, ThreadsOK, ThreadOK, Sleeper, Waiter, Relocking
<1>2. QED BY <1>1, View DEF ViewOK

\* Only a thread at user level, or whose time has come, is told to sleep: the
\* delays stay what they were.
LEMMA DelaysNext == IInv /\ DelaysKept /\ [Next]_vars => DelaysKept'
<1> SUFFICES ASSUME IInv, DelaysKept, [Next]_vars PROVE DelaysKept'
  OBVIOUS
<1> USE Distinct
<1>0. TypeOK /\ DelaysKept
  BY DEF IInv
<1>a. ASSUME UNCHANGED left, \A v \in Threads : pc'[v] = "inserting" => pc[v] = "inserting"
      PROVE  DelaysKept'
  BY <1>0, <1>a DEF DelaysKept
<1>b. ASSUME NEW t \in Threads, cur \in {t, Nobody}, pc[t] # "inserting",
             \A v \in Threads : pc'[v] = "inserting" => pc[v] = "inserting"
      PROVE  DelaysKept'
  BY <1>b, OnlyOneInserts DEF DelaysKept
<1>1. ASSUME NEW u \in Users, q3_create(u) PROVE DelaysKept'
  BY <1>0, <1>1, <1>a DEF q3_create, Goto, TypeOK, timer
<1>2. ASSUME NEW t \in Users, q3_mutex_lock(t) \/ q3_mutex_unlock(t) PROVE DelaysKept'
  BY <1>0, <1>2, <1>a DEF q3_mutex_lock, q3_mutex_unlock, Goto, TypeOK, timer
<1>3. ASSUME NEW t \in Users, NEW cv \in CondVars, CondWaitQueues(t, cv) PROVE DelaysKept'
  BY <1>0, <1>3, <1>a DEF CondWaitQueues, Goto, TypeOK, timer
<1>4. ASSUME NEW t \in Users, NEW cv \in CondVars,
             q3_cond_signal(t, cv) \/ q3_cond_broadcast(t, cv)
      PROVE  DelaysKept'
  BY <1>4, <1>a, SignalEffect
<1>5. ASSUME NEW t \in Threads, NEW d \in Delays, UsleepAlone(t, d) PROVE DelaysKept'
  BY <1>5, <1>b DEF UsleepAlone, At
<1>6. ASSUME NEW t \in Threads, NEW d \in Delays, UsleepFinds(t, d) PROVE DelaysKept'
  <2>1. /\ cur \in {t, Nobody} /\ left' = [left EXCEPT ![t] = d]
        /\ pc' = [pc EXCEPT ![t] = "inserting"] /\ pc[t] = "user"
    BY <1>6 DEF UsleepFinds, At, Goto
  <2>2. \A v \in Threads : pc'[v] = "inserting" => v = t
    BY <1>0, <2>1, OnlyOneInserts DEF TypeOK
  <2>3. left'[t] = d
    BY <1>0, <2>1 DEF TypeOK
  <2>4. QED BY <2>2, <2>3 DEF DelaysKept
<1>7. ASSUME NEW t \in Threads, UsleepInserts(t) PROVE DelaysKept'
  BY <1>0, <1>7, <1>a DEF UsleepInserts, Goto, TypeOK
<1>8. ASSUME NEW t \in Threads, UsleepCounts(t) \/ CondWaitWakes(t) PROVE DelaysKept'
  BY <1>0, <1>8, <1>b DEF UsleepCounts, CondWaitWakes, At, Goto, TypeOK
<1>9. ASSUME NEW t \in Threads,
             \/ MutexLocked(t) \/ CondWaitCounts(t) \/ CondWaitReleases(t)
             \/ Awaited(t) \/ Blocks(t)
      PROVE  DelaysKept'
  BY <1>0, <1>9, <1>a
     DEF MutexLocked, CondWaitCounts, CondWaitReleases, Awaited, Blocks, Goto, TypeOK, timer
<1>10. ASSUME NEW t \in Threads, Sleeps(t) PROVE DelaysKept'
  <2>1. pc' = pc \/ pc' = [pc EXCEPT ![t] = "awaiting"]
    BY <1>10 DEF Sleeps, Await, Goto
  <2>2. QED BY <1>0, <1>10, <1>a, <2>1 DEF Sleeps, TypeOK, timer
<1>11. ASSUME NEW t \in Threads, Returns(t) PROVE DelaysKept'
  BY <1>0, <1>11, <1>b DEF Returns, At, Goto, TypeOK
<1>12. CASE UNCHANGED vars
  BY <1>12 DEF vars, sched, timer, DelaysKept
<1>13. QED BY <1>1, <1>2, <1>3, <1>4, <1>5, <1>6, <1>7, <1>8, <1>9, <1>10, <1>11, <1>12
  DEF Next, Calls, Usleep, Waits, Threads, CondVars

\* Creating threads and using the mutex are steps of the abstract clock's.
LEMMA CallsRefine ==
  ASSUME IInv, IInv'
  PROVE  /\ \A u \in Users : q3_create(u) => [Time!VNext]_Time!vvars
         /\ \A t \in Users : q3_mutex_lock(t) \/ q3_mutex_unlock(t) => [Time!VNext]_Time!vvars
         /\ \A t \in Threads : MutexLocked(t) => [Time!VNext]_Time!vvars
<1> USE Distinct
<1>0. /\ TypeOK /\ ViewOK /\ ViewOK'
  <2>1. ViewOK /\ ViewOK'
    BY View, PTL
  <2>2. QED BY <2>1 DEF IInv
<1>1. ASSUME NEW u \in Users, q3_create(u) PROVE [Time!VNext]_Time!vvars
  <2>1. /\ pc[u] = "absent" /\ pc' = [pc EXCEPT ![u] = "user"]
        /\ UNCHANGED <<holder, cond, done, waitq, left, cq>>
    BY <1>1 DEF q3_create, Goto, timer, lists
  <2>2. Created' = Created \cup {u} /\ u \notin Created
    BY <1>0, <2>1 DEF Created, TypeOK
  <2>3. Owner' = Owner /\ AsleepFor' = AsleepFor /\ cq' = cq
    BY <2>1 DEF Owner, InCond, AsleepFor, Asleep
  <2>4. Relocking' = Relocking
    BY <1>0, <2>1 DEF Relocking, TypeOK
  <2>5. Time!Create(u)
    BY <2>2, <2>3, <2>4 DEF Time!Create, Owner, Created, AsleepFor, Relocking
  <2>6. QED BY <2>5 DEF Time!VNext
<1>2. ASSUME NEW t \in Users, q3_mutex_lock(t) PROVE [Time!VNext]_Time!vvars
  <2>1. /\ pc[t] = "user" /\ pc' = [pc EXCEPT ![t] = "locking"]
        /\ UNCHANGED <<holder, cond, done, waitq, left, cq>>
    BY <1>2 DEF q3_mutex_lock, At, Goto, timer, lists
  <2>2. Created' = Created /\ Relocking' = Relocking
    BY <1>0, <2>1 DEF Created, Relocking, TypeOK
  <2>3. Owner' = Owner /\ AsleepFor' = AsleepFor /\ cq' = cq
    BY <2>1 DEF Owner, InCond, AsleepFor, Asleep
  <2>4. QED BY <2>2, <2>3, Hidden
<1>3. ASSUME NEW t \in Users, q3_mutex_unlock(t) PROVE [Time!VNext]_Time!vvars
  <2>1. /\ pc[t] = "user" /\ holder["mutex"] = t
        /\ holder' = [holder EXCEPT !["mutex"] = Nobody]
        /\ UNCHANGED <<pc, cond, done, waitq, left, cq>>
    BY <1>3 DEF q3_mutex_unlock, At, timer, lists
  <2>2. Created' = Created /\ Relocking' = Relocking /\ AsleepFor' = AsleepFor /\ cq' = cq
    BY <2>1 DEF Created, Relocking, AsleepFor, Asleep
  <2>3. Owner = t
    BY <1>0, <2>1, OutsideRuns DEF ViewOK
  <2>4. Owner' = Nobody
    <3>1. holder'["mutex"] = Nobody
      BY <1>0, <2>1 DEF TypeOK, Mutexes
    <3>2. QED BY <3>1 DEF Owner
  <2>5. Time!Unlocks(t)
    BY <2>2, <2>3, <2>4
       DEF Time!Unlocks, Time!MutexUnlock, Owner, Created, AsleepFor, Relocking
  <2>6. QED BY <2>5 DEF Time!VNext
<1>4. ASSUME NEW t \in Threads, MutexLocked(t) PROVE [Time!VNext]_Time!vvars
  <2>1. /\ pc[t] = "locking" /\ holder["mutex"] = Nobody /\ holder' = [holder EXCEPT !["mutex"] = t]
        /\ pc' = [pc EXCEPT ![t] = "user"] /\ UNCHANGED <<cond, done, waitq, left, cq>>
    BY <1>4 DEF MutexLocked, At, Goto, Acquire, timer, lists
  <2>2. Created' = Created /\ Relocking' = Relocking
    BY <1>0, <2>1 DEF Created, Relocking, TypeOK
  <2>3. AsleepFor' = AsleepFor /\ cq' = cq
    BY <2>1 DEF AsleepFor, Asleep
  <2>4. Owner = Nobody
    BY <2>1 DEF Owner
  <2>5. ~Waiter(t) /\ t \in Time!Running
    BY <2>1, OutsideRuns
  <2>6. Owner' = t
    <3>1. holder'["mutex"] = t
      BY <1>0, <2>1 DEF TypeOK, Mutexes
    <3>2. ~Waiter(t)'
      BY <2>1, <2>5 DEF Waiter
    <3>3. QED BY <1>0, <3>1, <3>2 DEF ViewOK
  <2>7. Time!Locks(t)
    BY <2>2, <2>3, <2>4, <2>5, <2>6
       DEF Time!Locks, Time!MutexLock, Owner, Created, AsleepFor, Relocking
  <2>8. QED BY <2>7 DEF Time!VNext, Threads
<1>5. QED BY <1>1, <1>2, <1>3, <1>4

\* The first element is removed (SequencesExt: RemoveAt).
LEMMA RemoveAtFirst ==
  ASSUME NEW S, NEW s \in Seq(S), IsInjective(s), 1 \in 0..Len(s)
  PROVE  Time!RemoveAt(s, 1) = Rest(s, 1)
<1>1. Rest(s, 1) \in Seq(S)
  BY DropFirst
<1>2. SubSeq(s, 1, 1 - 1) = <<>>
  OBVIOUS
<1>3. Time!RemoveAt(s, 1) = <<>> \o Rest(s, 1)
  BY <1>2 DEF Time!RemoveAt, Rest
<1>4. QED BY <1>1, <1>3

\* Who waits gives up the mutex when it enters the list.
LEMMA WaitRefines ==
  ASSUME IInv, IInv', NEW t \in Users, NEW cv \in CondVars, CondWaitQueues(t, cv)
  PROVE  [Time!VNext]_Time!vvars
<1> USE Distinct
<1>0. /\ TypeOK /\ ViewOK /\ ViewOK'
  <2>1. ViewOK /\ ViewOK'
    BY View, PTL
  <2>2. QED BY <2>1 DEF IInv
<1>1. /\ pc[t] = "user" /\ holder["mutex"] = t /\ cq' = [cq EXCEPT ![cv] = Append(@, t)]
      /\ cond' = [cond EXCEPT ![t] = cv] /\ done' = [done EXCEPT ![t] = FALSE]
      /\ pc' = [pc EXCEPT ![t] = "queued"] /\ UNCHANGED <<holder, waitq, left>>
  BY DEF CondWaitQueues, At, Goto, timer
<1>2. Created' = Created /\ Relocking' = Relocking
  BY <1>0, <1>1 DEF Created, Relocking, TypeOK
<1>3. AsleepFor' = AsleepFor
  BY <1>1 DEF AsleepFor, Asleep
<1>4. Owner = t /\ t \in Time!Running
  BY <1>0, <1>1, OutsideRuns DEF ViewOK
<1>5. Owner' = Nobody
  <2>1. Waiter(t)'
    BY <1>0, <1>1 DEF Waiter, TypeOK
  <2>2. ASSUME NEW v \in Threads PROVE Owner' # v
    BY <1>0, <1>1, <2>1 DEF ViewOK
  <2>3. QED BY <1>0, <2>2 DEF ViewOK
<1>6. Time!Waits(t, cv)
  BY <1>1, <1>2, <1>3, <1>4, <1>5
     DEF Time!Waits, Time!CondWait, Time!MutexUnlock, Owner, Created, AsleepFor, Relocking
<1>7. QED BY <1>6 DEF Time!VNext

\* Signals and broadcasts wake who the abstract clock says.
LEMMA SignalRefines ==
  ASSUME IInv, IInv', NEW t \in Users, NEW cv \in CondVars,
         q3_cond_signal(t, cv) \/ q3_cond_broadcast(t, cv)
  PROVE  [Time!VNext]_Time!vvars
<1> USE Distinct
<1>0. /\ TypeOK /\ ViewOK /\ ViewOK'
  <2>1. ViewOK /\ ViewOK'
    BY View, PTL
  <2>2. QED BY <2>1 DEF IInv
<1>1. /\ cur \in {t, Nobody} /\ pc[t] = "user" /\ holder["mutex"] = t
      /\ UNCHANGED <<holder, pc, cond, waitq, left>>
      /\ \A u \in Threads : done'[u] # done[u]
           => done'[u] /\ cond[u] = cv /\ pc[u] = "awaiting" /\ u # t
  BY SignalEffect
<1>2. /\ cq[cv] \in Seq(Threads) /\ IsInjective(cq[cv]) /\ Len(cq[cv]) \in Nat
      /\ cq \in [CondVars -> Seq(Threads)] /\ done \in [Threads -> BOOLEAN]
  <2>1. cq \in [CondVars -> Seq(Threads)] /\ done \in [Threads -> BOOLEAN] /\ IsInjective(cq[cv])
    BY DEF IInv, TypeOK, QueuesOK
  <2>2. cq[cv] \in Seq(Threads)
    BY <2>1
  <2>3. QED BY <2>1, <2>2, LenProperties
<1>3. PICK n \in 0..Len(cq[cv]) :
        /\ cq' = [cq EXCEPT ![cv] = Rest(@, n)]
        /\ IF q3_cond_signal(t, cv) THEN n = 1 \/ cq[cv] = <<>> ELSE n = Len(cq[cv])
  BY SignalMarks DEF Mark, Rest
<1>4. Created' = Created /\ AsleepFor' = AsleepFor
  BY <1>1 DEF Created, AsleepFor, Asleep
<1>5. Owner = t /\ Owner' = t
  <2>1. ~Waiter(t)
    BY <1>1, OutsideRuns
  <2>2. done'[t] <=> done[t]
    BY <1>1
  <2>3. ~Waiter(t)'
    BY <1>1, <2>1, <2>2 DEF Waiter
  <2>4. QED BY <1>0, <1>1, <2>1, <2>3 DEF ViewOK
<1>6. cq'[cv] = Rest(cq[cv], n)
  BY <1>2, <1>3
<1>7. ToSet(cq[cv]) \subseteq Threads
  BY <1>2, ElementOfSeq, InToSet
<1>8. Relocking' = Relocking \cup (ToSet(cq[cv]) \ ToSet(cq'[cv]))
  <2>1. ASSUME NEW v \in Threads
        PROVE  v \in Relocking' <=> v \in Relocking \/ (v \in ToSet(cq[cv]) /\ v \notin ToSet(cq'[cv]))
    <3>1. v \in ToSet(cq[cv]) <=> cond[v] = cv /\ ~done[v]
      BY <1>0 DEF ViewOK
    <3>2. v \in ToSet(cq'[cv]) <=> cond[v] = cv /\ ~done'[v]
      BY <1>0, <1>1 DEF ViewOK
    <3>3. cond[v] = cv /\ ~done[v] => pc[v] = "awaiting"
      BY <1>1, WaitersAwait DEF IInv, Waiter
    <3>4. CASE done'[v] <=> done[v]
      BY <1>1, <3>1, <3>2, <3>4 DEF Relocking
    <3>5. CASE ~(done'[v] <=> done[v])
      <4>1. done'[v] # done[v]
        BY <3>5
      <4>2. done'[v] /\ ~done[v] /\ cond[v] = cv /\ pc[v] = "awaiting"
        BY <1>1, <3>5, <4>1
      <4>3. v \in Relocking'
        BY <1>1, <4>2 DEF Relocking
      <4>4. QED BY <3>1, <3>2, <4>2, <4>3, <1>1
    <3>6. QED BY <3>4, <3>5
  <2>2. Relocking \subseteq Threads /\ Relocking' \subseteq Threads
    BY DEF Relocking
  <2>3. QED BY <1>7, <2>1, <2>2
<1>9. Time!Leave(cv)
  BY <1>8 DEF Time!Leave, Time!Blocked, Time!ToSet, ToSet, Relocking
<1>10. CASE q3_cond_signal(t, cv)
  <2>1. Time!CondSignal(cv)
    <3>1. CASE cq[cv] = <<>>
      <4>1. n = 0
        BY <1>2, <3>1
      <4>2. Rest(cq[cv], n) = cq[cv]
        BY <1>2, <3>1, <4>1, RestIsTail
      <4>3. cq' = cq
        BY <1>2, <1>3, <4>2
      <4>4. QED BY <3>1, <4>3 DEF Time!CondSignal
    <3>2. CASE cq[cv] # <<>>
      <4>1. n = 1
        BY <1>3, <1>10, <3>2
      <4>2. Time!RemoveAt(cq[cv], 1) = Rest(cq[cv], 1)
        BY <1>2, <1>3, <4>1, RemoveAtFirst
      <4>3. cq' = [cq EXCEPT ![cv] = Time!RemoveAt(@, 1)]
        BY <1>3, <4>1, <4>2
      <4>4. 1 \in DOMAIN cq[cv]
        BY <1>2, <1>3, <4>1
      <4>5. QED BY <4>3, <4>4 DEF Time!CondSignal, Time!Signallable, Time!Unblock
    <3>3. QED BY <3>1, <3>2
  <2>2. Time!Signal(cv)
    BY <1>4, <1>5, <1>9, <2>1 DEF Time!Signal, Owner, Created, AsleepFor
  <2>3. QED BY <2>2 DEF Time!VNext
<1>11. CASE ~q3_cond_signal(t, cv)
  <2>1. n = Len(cq[cv])
    BY <1>3, <1>11
  <2>2. Rest(cq[cv], n) = <<>>
    BY <1>2, <2>1, DropFirst, EmptySeq
  <2>3. cq' = [cq EXCEPT ![cv] = <<>>]
    BY <1>3, <2>2
  <2>4. Time!Broadcast(cv)
    BY <1>4, <1>5, <1>9, <2>3 DEF Time!Broadcast, Owner, Created, AsleepFor
  <2>5. QED BY <2>4 DEF Time!VNext
<1>12. QED BY <1>10, <1>11

\* A thread enters the timer queue: for the abstract clock it sleeps.
LEMMA InsertRefines ==
  ASSUME IInv, DelaysKept, IInv', NEW t \in Threads, UsleepInserts(t)
  PROVE  [Time!VNext]_Time!vvars
<1> USE Distinct
<1>0. /\ TypeOK /\ ViewOK /\ ViewOK'
  <2>1. ViewOK /\ ViewOK'
    BY View, PTL
  <2>2. QED BY <2>1 DEF IInv
<1>1. /\ pc[t] = "inserting" /\ holder' = [holder EXCEPT !["wait_mutex"] = t]
      /\ pc' = [pc EXCEPT ![t] = "inserted"] /\ UNCHANGED <<cond, left, done, cq>>
  BY DEF UsleepInserts, At, Goto, Acquire, lists
<1>2. Created' = Created /\ Relocking' = Relocking
  BY <1>0, <1>1 DEF Created, Relocking, TypeOK
<1>3. Owner' = Owner
  <2>1. holder'["mutex"] = holder["mutex"]
    BY <1>0, <1>1 DEF TypeOK, Mutexes
  <2>2. QED BY <1>1, <2>1 DEF Owner, InCond
<1>4. t \in Time!Running /\ left[t] \in Delays /\ ~Sleeper(t)
  BY <1>1, OutsideRuns DEF DelaysKept
<1>5. Asleep' = Asleep \cup {t}
  <2>1. \A v \in Threads : Sleeper(v)' <=> Sleeper(v) \/ v = t
    BY <1>0, <1>1 DEF Sleeper, TypeOK
  <2>2. Asleep \subseteq Threads /\ Asleep' \subseteq Threads
    <3>1. waitq \in Seq(Threads) /\ waitq' \in Seq(Threads)
      BY DEF IInv, TypeOK
    <3>2. QED BY <3>1, ElementOfSeq, InToSet DEF Asleep
  <2>3. QED BY <1>0, <2>1, <2>2 DEF ViewOK
<1>6. PICK d \in Delays : d = left[t]
  BY <1>4
<1>7. AsleepFor' = [v \in Asleep \cup {t} |-> IF v = t THEN d ELSE left[v]]
  BY <1>1, <1>5, <1>6 DEF AsleepFor
<1>8. Time!Sleeps(t, d)
  <2>1. DOMAIN AsleepFor = Asleep /\ \A v \in Asleep : AsleepFor[v] = left[v]
    BY DEF AsleepFor
  <2>2. AsleepFor' = [v \in DOMAIN AsleepFor \cup {t} |-> IF v = t THEN d ELSE AsleepFor[v]]
    BY <1>7, <2>1
  <2>3. QED BY <1>1, <1>2, <1>3, <1>4, <2>2
    DEF Time!Sleeps, Owner, Created, AsleepFor, Relocking
<1>9. QED BY <1>8 DEF Time!VNext, Threads

\* The abstract clock's time passes by d for all that sleep on.
LEMMA TimePasses ==
  ASSUME IInv, NEW d, NEW T \in SUBSET Asleep, Elapse(d), \A v \in Threads : pc[v] # "inserting",
         \A i \in 1..Len(waitq) : left[waitq[i]] >= d, Asleep' = Asleep \ T,
         UNCHANGED <<Owner, cq, Created, Relocking>>
  PROVE  Time!Elapses(d, T)
<1>1. \A v \in Asleep : v \in Threads /\ left[v] >= d
  <2>1. waitq \in Seq(Threads)
    BY DEF IInv, TypeOK
  <2>2. QED BY <2>1, ElementOfSeq, InToSet DEF Asleep
<1>2. \A v \in Asleep : left'[v] = left[v] - d
  BY <1>1 DEF Elapse, Asleep
<1>3. DOMAIN AsleepFor = Asleep /\ \A v \in Asleep : AsleepFor[v] = left[v]
  BY DEF AsleepFor
<1>4. AsleepFor' = [v \in DOMAIN AsleepFor \ T |-> AsleepFor[v] - d]
  <2>1. AsleepFor' = [v \in Asleep \ T |-> left'[v]]
    BY DEF AsleepFor
  <2>2. QED BY <1>2, <1>3, <2>1
<1>5. \A v \in DOMAIN AsleepFor : AsleepFor[v] >= d
  BY <1>1, <1>3
<1>6. QED BY <1>4, <1>5 DEF Time!Elapses, Owner, Created, AsleepFor, Relocking

\* The only ready thread sleeps alone.
LEMMA AloneRefines ==
  ASSUME IInv, IInv', NEW t \in Threads, NEW d \in Delays, UsleepAlone(t, d)
  PROVE  [Time!VNext]_Time!vvars
<1> USE Distinct
<1>0. /\ TypeOK /\ ViewOK
  <2>1. ViewOK
    BY View
  <2>2. QED BY <2>1 DEF IInv
<1>1. /\ cur \in {t, Nobody} /\ pc[t] = "user" /\ nthreads = 1 /\ Elapse(d)
      /\ UNCHANGED <<holder, pc, cond, waitq, done, cq>>
  BY DEF UsleepAlone, At, lists
<1>2. /\ Created' = Created /\ Relocking' = Relocking /\ Owner' = Owner /\ Asleep' = Asleep
      /\ cq' = cq
  BY <1>1 DEF Created, Relocking, Owner, InCond, Asleep
<1>3. \A v \in Threads : pc[v] # "inserting"
  BY <1>1, OnlyOneInserts
<1>4. \A i \in 1..Len(waitq) : left[waitq[i]] >= d
  BY AlonePasses
<1>5. Time!Elapses(d, {})
  BY <1>1, <1>2, <1>3, <1>4, TimePasses
<1>6. t \in Time!Running /\ ~Sleeper(t) /\ ~Waiter(t)
  BY <1>1, OutsideRuns
<1>7. ReadySet = {t}
  <2>1. IsFiniteSet(ReadySet) /\ Cardinality(ReadySet) = 1
    BY <1>1, ThreadsFinite DEF ReadySet, IInv, CountsOK, ReadyCounted
  <2>2. PICK v : ReadySet = {v}
    BY <2>1, FS_Singleton
  <2>3. t \in ReadySet
    BY <1>1, <1>6 DEF ReadySet, Ready, Stopped
  <2>4. QED BY <2>2, <2>3
<1>8. Created \ Time!Stopped = {t}
  <2>1. \A v \in Threads : pc[v] # "queued"
    BY <1>1, Alone DEF IInv, Outside
  <2>2. Created \ Time!Stopped = ReadySet
    BY <1>0, <2>1 DEF ViewOK, Created, ReadySet, Ready, Stopped
  <2>3. QED BY <1>7, <2>2
<1>9. Time!SleepsAlone(t, d)
  BY <1>5, <1>6, <1>8 DEF Time!SleepsAlone, Created
<1>10. QED BY <1>9 DEF Time!VNext, Threads

\* The last thread to stop moves time, or a thread only notes that it stops.
LEMMA WakesRefine ==
  ASSUME IInv, IInv', NEW t \in Threads, UsleepCounts(t) \/ CondWaitWakes(t)
  PROVE  [Time!VNext]_Time!vvars
<1> USE Distinct
<1>0. /\ TypeOK /\ ViewOK /\ ViewOK'
  <2>1. ViewOK /\ ViewOK'
    BY View, PTL
  <2>2. QED BY <2>1 DEF IInv
<1>1. /\ cur \in {t, Nobody} /\ pc[t] \in {"inserted", "counted"} /\ WakesIfLast(t)
      /\ pc' = [pc EXCEPT ![t] = "testing"] \/ pc' = [pc EXCEPT ![t] = "releasing"]
      /\ UNCHANGED <<holder, cond, cq>>
  BY DEF UsleepCounts, CondWaitWakes, At, Goto, lists
<1>2. Created' = Created /\ Owner' = Owner
  BY <1>0, <1>1 DEF Created, TypeOK, Owner, InCond
<1>3. CASE UNCHANGED <<waitq, left, done>>
  <2>1. Relocking' = Relocking
    BY <1>0, <1>1, <1>3 DEF Relocking, TypeOK
  <2>2. AsleepFor' = AsleepFor
    BY <1>3 DEF AsleepFor, Asleep
  <2>3. QED BY <1>1, <1>2, <2>1, <2>2, Hidden
<1>4. CASE Waking(t)
  <2>1. /\ waitq # <<>> /\ Next1 \in Threads /\ Sleeper(Next1) /\ \A u \in Threads : ~Ready(u)
        /\ waitq' = Tail(waitq) /\ Elapse(left[Next1]) /\ done' = [done EXCEPT ![Next1] = TRUE]
    BY <1>4 DEF Waking
  <2>2. cond[Next1] = Next1 /\ Next1 \in Asleep
    BY <1>0, <2>1 DEF ViewOK, Sleeper, IInv, ControlOK, ThreadsOK, ThreadOK
  <2>3. Relocking' = Relocking
    BY <1>0, <1>1, <2>1, <2>2 DEF Relocking, TypeOK
  <2>4. Asleep' = Asleep \ {Next1}
    <3>1. waitq \in Seq(Threads) /\ IsInjective(waitq)
      BY DEF IInv, TypeOK, QueuesOK
    <3>2. QED BY <2>1, <3>1, TailToSet DEF Next1, Asleep
  <2>5. /\ left[Next1] \in Nat
        /\ \A i \in 1..Len(waitq) : left[waitq[i]] >= left[Next1]
    <3>1. Sorted /\ \A i \in 1..Len(waitq) : left[Next1] <= left[waitq[i]]
      BY <1>0, <2>1, FirstWakes DEF IInv, TimerOK
    <3>2. left[Next1] \in Nat /\ \A i \in 1..Len(waitq) : left[waitq[i]] \in Nat
      BY <1>0, <2>1, QueueTyped DEF TypeOK
    <3>3. QED BY <3>1, <3>2
  <2>6. \A v \in Threads : pc[v] # "inserting"
    BY <1>1, OnlyOneInserts
  <2>7. PICK d, n : d = left[Next1] /\ n = Next1
    OBVIOUS
  <2>8. Time!Elapses(d, {n})
    <3>1. Elapse(d)
      BY <2>1, <2>7 DEF Elapse
    <3>2. {n} \in SUBSET Asleep /\ Asleep' = Asleep \ {n}
      BY <2>2, <2>4, <2>7
    <3>3. \A i \in 1..Len(waitq) : left[waitq[i]] >= d
      BY <2>5, <2>7
    <3>4. QED BY <1>1, <1>2, <2>3, <2>6, <3>1, <3>2, <3>3, TimePasses
  <2>9. Created \subseteq Time!Stopped
    BY <1>0, <2>1 DEF ViewOK, Created, Ready, Stopped
  <2>10. \E v \in DOMAIN AsleepFor : AsleepFor[v] >= 0 /\ Time!Elapses(AsleepFor[v], {v})
    <3>1. n \in DOMAIN AsleepFor /\ AsleepFor[n] = d /\ d >= 0
      BY <2>2, <2>5, <2>7 DEF AsleepFor
    <3>2. Time!Elapses(AsleepFor[n], {n})
      BY <2>8, <3>1 DEF Time!Elapses
    <3>3. QED BY <3>1, <3>2
  <2>11. Time!Advance
    BY <2>9, <2>10 DEF Time!Advance, Created, AsleepFor
  <2>12. QED BY <2>11 DEF Time!VNext
<1>5. QED BY <1>1, <1>3, <1>4, WakesEffect

\* The steps inside of the library that show nothing.
LEMMA InsideHidden ==
  ASSUME IInv, IInv', NEW t \in Threads,
         \/ \E d \in Delays : UsleepFinds(t, d)
         \/ CondWaitCounts(t) \/ CondWaitReleases(t) \/ Returns(t) \/ Blocks(t)
  PROVE  [Time!VNext]_Time!vvars
<1> USE Distinct
<1>0. TypeOK /\ ViewOK /\ ThreadsOK
  BY View DEF IInv, ControlOK
<1>1. ASSUME NEW d \in Delays, UsleepFinds(t, d) PROVE [Time!VNext]_Time!vvars
  <2>1. /\ pc[t] = "user" /\ pc' = [pc EXCEPT ![t] = "inserting"]
        /\ left' = [left EXCEPT ![t] = d] /\ done' = [done EXCEPT ![t] = FALSE]
        /\ cond' = [cond EXCEPT ![t] = t] /\ UNCHANGED <<holder, waitq, cq>>
    BY <1>1 DEF UsleepFinds, At, Goto, lists
  <2>2. Created' = Created /\ Relocking' = Relocking
    BY <1>0, <2>1 DEF Created, Relocking, TypeOK
  <2>3. Owner' = Owner /\ cq' = cq
    BY <2>1 DEF Owner, InCond
  <2>4. AsleepFor' = AsleepFor
    <3>1. t \notin Asleep
      BY <1>0, <2>1, OutsideRuns DEF ViewOK
    <3>2. \A v \in Asleep : left'[v] = left[v]
      BY <1>0, <2>1, <3>1 DEF TypeOK
    <3>3. QED BY <2>1, <3>2 DEF AsleepFor, Asleep
  <2>5. QED BY <2>2, <2>3, <2>4, Hidden
<1>2. CASE CondWaitCounts(t) \/ CondWaitReleases(t)
  <2>1. /\ holder'["mutex"] = holder["mutex"]
        /\ \/ pc[t] = "queued" /\ pc' = [pc EXCEPT ![t] = "counted"]
           \/ pc[t] = "releasing" /\ pc' = [pc EXCEPT ![t] = "testing"]
        /\ UNCHANGED <<cond, done, left, waitq, cq>>
    BY <1>0, <1>2
       DEF CondWaitCounts, CondWaitReleases, At, Goto, Acquire, timer, lists, TypeOK, Mutexes
  <2>2. Created' = Created /\ Relocking' = Relocking
    BY <1>0, <2>1 DEF Created, Relocking, TypeOK
  <2>3. Owner' = Owner /\ cq' = cq /\ AsleepFor' = AsleepFor
    BY <2>1 DEF Owner, InCond, AsleepFor, Asleep
  <2>4. QED BY <2>2, <2>3, Hidden
<1>3. CASE Returns(t)
  <2>1. /\ pc[t] = "testing" /\ done[t] /\ pc' = [pc EXCEPT ![t] = "user"]
        /\ cond' = [cond EXCEPT ![t] = t] /\ done' = [done EXCEPT ![t] = FALSE]
        /\ left' = [left EXCEPT ![t] = 0] /\ UNCHANGED <<waitq, cq>>
        /\ holder'["mutex"] = holder["mutex"]
    BY <1>0, <1>3 DEF Returns, At, Goto, lists, TypeOK, Mutexes
  <2>2. Created' = Created /\ Relocking' = Relocking
    BY <1>0, <2>1 DEF Created, Relocking, TypeOK
  <2>3. Owner' = Owner /\ cq' = cq
    BY <2>1 DEF Owner, InCond
  <2>4. AsleepFor' = AsleepFor
    <3>1. t \notin Asleep
      BY <1>0, <2>1 DEF ViewOK, Sleeper
    <3>2. \A v \in Asleep : left'[v] = left[v]
      BY <1>0, <2>1, <3>1 DEF TypeOK
    <3>3. QED BY <2>1, <3>2 DEF AsleepFor, Asleep
  <2>5. QED BY <2>2, <2>3, <2>4, Hidden
<1>4. CASE Blocks(t)
  <2>1. UNCHANGED <<holder, pc, cond, done, left, waitq, cq>>
    BY <1>4 DEF Blocks, timer, lists
  <2>2. Created' = Created /\ Relocking' = Relocking
    BY <2>1 DEF Created, Relocking
  <2>3. Owner' = Owner /\ cq' = cq /\ AsleepFor' = AsleepFor
    BY <2>1 DEF Owner, InCond, AsleepFor, Asleep
  <2>4. QED BY <2>2, <2>3, Hidden
<1>5. QED BY <1>1, <1>2, <1>3, <1>4

\* A thread goes into pth_cond_await: the abstract clock saw it give up the
\* mutex when it entered the list.
LEMMA AwaitRefines ==
  ASSUME IInv, IInv', NEW t \in Threads, Sleeps(t)
  PROVE  [Time!VNext]_Time!vvars
<1> USE Distinct
<1>0. /\ TypeOK /\ ViewOK /\ ViewOK' /\ ThreadsOK /\ MutexesOK
  <2>1. ViewOK /\ ViewOK'
    BY View, PTL
  <2>2. QED BY <2>1 DEF IInv, ControlOK
<1>1. /\ pc[t] = "testing" /\ ~done[t] /\ UNCHANGED <<cond, left, waitq, done, cq>>
      /\ \/ UNCHANGED <<holder, pc>>
         \/ /\ holder' = [holder EXCEPT ![MutexOf(cond[t])] = Nobody]
            /\ pc' = [pc EXCEPT ![t] = "awaiting"]
  BY DEF Sleeps, Await, At, Goto, timer, lists
<1>2. Created' = Created /\ Relocking' = Relocking
  <2>1. \A v \in Threads : v # t => pc'[v] = pc[v]
    BY <1>0, <1>1 DEF TypeOK
  <2>2. pc[t] = "testing" /\ pc'[t] \in {"testing", "awaiting"}
    BY <1>0, <1>1 DEF TypeOK
  <2>3. Created' = Created
    BY <2>1, <2>2 DEF Created
  <2>4. QED BY <1>1, <2>1, <2>2, <2>3 DEF Relocking
<1>3. AsleepFor' = AsleepFor
  BY <1>1 DEF AsleepFor, Asleep
<1>4. Owner' = Owner
  <2>1. CASE holder'["mutex"] = holder["mutex"]
    BY <1>1, <2>1 DEF Owner, InCond
  <2>2. CASE holder'["mutex"] # holder["mutex"]
    <3>1. MutexOf(cond[t]) = "mutex" /\ holder'["mutex"] = Nobody
      BY <1>0, <1>1, <2>2 DEF MutexOf, TypeOK, Mutexes
    <3>2. cond[t] \in CondVars
      BY <3>1 DEF MutexOf
    <3>3. holder["mutex"] = t /\ t \in ToSet(cq[cond[t]])
      BY <1>0, <1>1, <3>2 DEF MutexesOK, NeedsMutex, ViewOK
    <3>4. Owner = Nobody /\ Owner' = Nobody
      BY <3>1, <3>2, <3>3 DEF Owner, InCond
    <3>5. QED BY <3>4
  <2>3. QED BY <2>1, <2>2
<1>5. QED BY <1>1, <1>2, <1>3, <1>4, Hidden

\* A thread leaves pth_cond_await: for the abstract clock it takes the mutex if
\* it was signalled.
LEMMA AwaitedRefines ==
  ASSUME IInv, IInv', NEW t \in Threads, Awaited(t)
  PROVE  [Time!VNext]_Time!vvars
<1> USE Distinct
<1>0. /\ TypeOK /\ ViewOK /\ ViewOK' /\ ThreadsOK
  <2>1. ViewOK /\ ViewOK'
    BY View, PTL
  <2>2. QED BY <2>1 DEF IInv, ControlOK
<1>1. /\ pc[t] = "awaiting" /\ pc' = [pc EXCEPT ![t] = "testing"]
      /\ holder[MutexOf(cond[t])] = Nobody
      /\ holder' = [holder EXCEPT ![MutexOf(cond[t])] = t]
      /\ UNCHANGED <<cond, left, waitq, done, cq>>
  BY DEF Awaited, At, Goto, Acquire, timer, lists
<1>2. Created' = Created /\ AsleepFor' = AsleepFor /\ cq' = cq
  BY <1>0, <1>1 DEF Created, TypeOK, AsleepFor, Asleep
<1>3. Relocking' = Relocking \ {t}
  BY <1>0, <1>1 DEF Relocking, TypeOK
<1>4. CASE cond[t] = t
  <2>1. holder'["mutex"] = holder["mutex"]
    BY <1>0, <1>1, <1>4 DEF MutexOf, TypeOK, Mutexes
  <2>2. Owner' = Owner /\ t \notin Relocking
    BY <1>1, <1>4, <2>1 DEF Owner, InCond, Relocking
  <2>3. QED BY <1>2, <1>3, <2>2, Hidden
<1>5. CASE cond[t] # t
  <2>1. cond[t] \in CondVars /\ MutexOf(cond[t]) = "mutex"
    BY <1>0, <1>5 DEF ThreadsOK, ThreadOK, MutexOf
  <2>2. holder["mutex"] = Nobody /\ holder'["mutex"] = t
    BY <1>0, <1>1, <2>1 DEF TypeOK, Mutexes
  <2>3. Owner = Nobody
    BY <2>2 DEF Owner
  <2>4. CASE done[t]
    <3>1. Owner' = t
      BY <1>0, <1>1, <2>2, <2>4 DEF ViewOK, Waiter
    <3>2. t \in Relocking
      BY <1>1, <1>5, <2>4 DEF Relocking
    <3>3. Time!Relocks(t)
      BY <1>2, <1>3, <2>3, <3>1, <3>2
         DEF Time!Relocks, Time!MutexLock, Owner, Created, AsleepFor, Relocking
    <3>4. QED BY <3>3 DEF Time!VNext, Threads
  <2>5. CASE ~done[t]
    <3>1. Owner' = Nobody
      <4>1. Waiter(t)'
        BY <1>1, <2>1, <2>5 DEF Waiter
      <4>2. ASSUME NEW v \in Threads PROVE Owner' # v
        BY <1>0, <2>2, <4>1 DEF ViewOK
      <4>3. QED BY <1>0, <4>2 DEF ViewOK
    <3>2. t \notin Relocking
      BY <2>5 DEF Relocking
    <3>3. QED BY <1>2, <1>3, <2>3, <3>1, <3>2, Hidden
  <2>6. QED BY <2>4, <2>5
<1>6. QED BY <1>4, <1>5

\* The library implements the condition variables and the clock the barbershop
\* is run on: waiters are signalled in order of arrival, and time moves only
\* when every thread sleeps or waits, to the instant of the sleeper it wakes.
THEOREM Implements == Spec => ImplementsVirtualTime
<1>1. Init => Time!VInit /\ DelaysKept
  <2> SUFFICES ASSUME Init PROVE Time!VInit /\ DelaysKept
    OBVIOUS
  <2>1. ToSet(<<>>) = {}
    BY EmptyToSet
  <2>2. Owner = Nobody
    BY DEF Init, Owner, Mutexes
  <2>3. Created = {Main}
    BY DEF Init, Created, Threads
  <2>4. AsleepFor = <<>>
    <3>1. Asleep = {}
      BY <2>1 DEF Init, Asleep
    <3>2. AsleepFor = [v \in {} |-> left[v]]
      BY <3>1 DEF AsleepFor
    <3>3. QED BY <3>2
  <2>5. Relocking = {}
    BY DEF Init, Relocking
  <2>6. DelaysKept
    BY DEF Init, DelaysKept
  <2>7. QED BY <2>2, <2>3, <2>4, <2>5, <2>6
    DEF Init, Time!VInit, Owner, Created, AsleepFor, Relocking
<1>2. IInv /\ IInv' /\ DelaysKept /\ [Next]_vars => [Time!VNext]_Time!vvars
  <2> SUFFICES ASSUME IInv, IInv', DelaysKept, [Next]_vars PROVE [Time!VNext]_Time!vvars
    OBVIOUS
  <2>1. CASE UNCHANGED vars
    <3>1. UNCHANGED <<holder, pc, cond, done, left, waitq, cq>>
      BY <2>1 DEF vars, sched, timer, lists
    <3>2. UNCHANGED <<Owner, cq, Created, AsleepFor, Relocking>>
      BY <3>1 DEF Owner, InCond, Created, AsleepFor, Asleep, Relocking
    <3>3. QED BY <3>2, Hidden
  <2>2. ASSUME NEW t \in Users, Calls(t) PROVE [Time!VNext]_Time!vvars
    BY <2>2, CallsRefine, WaitRefines, SignalRefines DEF Calls, CondVars
  <2>3. ASSUME NEW t \in Threads, Usleep(t) PROVE [Time!VNext]_Time!vvars
    BY <2>3, AloneRefines, InsideHidden, InsertRefines, WakesRefine DEF Usleep
  <2>4. ASSUME NEW t \in Threads, Waits(t) PROVE [Time!VNext]_Time!vvars
    BY <2>4, CallsRefine, InsideHidden, WakesRefine, AwaitRefines, AwaitedRefines DEF Waits
  <2>5. QED BY <2>1, <2>2, <2>3, <2>4, CallsRefine DEF Next
<1>3. QED BY <1>1, <1>2, DelaysNext, Invariance, PTL DEF Spec, ImplementsVirtualTime, Time!VSpec
=============================================================================
