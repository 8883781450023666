-------------------------- MODULE Project01Proofs --------------------------
(***************************************************************************)
(* Projects 0 and 1 for every value of the constants: decoding inverts     *)
(* encoding; the programs of project 1 are entered with intact images, the *)
(* command line is split into its words, and the processes that switch     *)
(* stacks are coroutines.                                                  *)
(***************************************************************************)
EXTENDS Project1, Caesar, FiniteSetTheorems, FunctionTheorems, SequenceTheorems,
        WellFoundedInduction, TLAPS

-----------------------------------------------------------------------------
(* Natural numbers and recursive functions *)

\* The least element of a finite set of natural numbers (FiniteSetsExt: Min).
LEMMA LeastOf ==
  ASSUME NEW S \in SUBSET Nat, S # {}, IsFiniteSet(S)
  PROVE  Min(S) \in S /\ \A j \in S : Min(S) <= j
<1> DEFINE upTo(i) == {j \in S : j <= i}
           T == {upTo(i) : i \in S}
<1>1. T # {} /\ T \subseteq FiniteSubsetsOf(S)
  <2>1. \A i \in S : upTo(i) \in SUBSET S
    OBVIOUS
  <2>2. \A U \in SUBSET S : IsFiniteSet(U)
    BY FS_Subset
  <2>3. QED BY <2>1, <2>2 DEF FiniteSubsetsOf
<1>2. PICK U \in T : \A V \in T : ~(<<V, U>> \in StrictSubsetOrdering(S))
  BY <1>1, FS_StrictSubsetOrderingWellFounded, WFMin
<1>3. PICK i \in S : U = upTo(i)
  BY <1>2
<1>4. ASSUME NEW j \in S, j < i PROVE FALSE
  <2>1. upTo(j) \in T /\ upTo(j) \subseteq U /\ i \in U /\ i \notin upTo(j)
    <3>1. upTo(j) \in T
      OBVIOUS
    <3>2. i \in upTo(i) /\ i \notin upTo(j)
      BY <1>4
    <3>3. ASSUME NEW k \in S, k <= j PROVE k <= i
      BY <1>4, <3>3
    <3>4. QED BY <1>3, <3>1, <3>2, <3>3
  <2>2. <<upTo(j), U>> \in StrictSubsetOrdering(S)
    BY <2>1, <1>3 DEF StrictSubsetOrdering
  <2>3. QED BY <1>2, <2>1, <2>2
<1>5. \A j \in S : i <= j
  BY <1>4
<1>6. QED BY <1>5 DEF Min

\* A set of natural numbers that holds 0 and with each number the next is all
\* of them.
LEMMA SetInduction ==
  ASSUME NEW S \in SUBSET Nat, 0 \in S, \A n \in S : n + 1 \in S
  PROVE  \A n \in Nat : n \in S
<1> SUFFICES ASSUME NEW n \in Nat, n \notin S PROVE FALSE
  OBVIOUS
<1> DEFINE T == {j \in 0..n : j \notin S}
<1>1. T \in SUBSET Nat /\ n \in T /\ IsFiniteSet(T)
  <2>1. IsFiniteSet(0..n) /\ T \in SUBSET (0..n)
    BY FS_Interval
  <2>2. IsFiniteSet(T)
    BY <2>1, FS_Subset
  <2>3. QED BY <2>2
<1>2. PICK m \in T : \A j \in T : m <= j
  BY <1>1, LeastOf
<1>3. m # 0 /\ m - 1 \in 0..n
  BY <1>2
<1>4. m - 1 \in S
  BY <1>2, <1>3
<1>5. m = (m - 1) + 1
  BY <1>2
<1>6. QED BY <1>2, <1>4, <1>5

\* \div and % are the quotient and the remainder.
LEMMA DivMod ==
  ASSUME NEW a \in Nat, NEW b \in Nat \ {0}
  PROVE  a \div b \in Nat /\ a % b \in 0..(b - 1) /\ a = b * (a \div b) + (a % b)
OBVIOUS
\* The element of a set of numbers between two numbers that FiniteSetsExt calls Min.
LEMMA LeastIn ==
  ASSUME NEW a \in Nat, NEW b \in Nat, NEW S \in SUBSET (a..b), S # {}
  PROVE  Min(S) \in S /\ \A j \in S : Min(S) <= j
<1>1. IsFiniteSet(a..b)
  BY FS_Interval
<1>2. IsFiniteSet(S)
  BY <1>1, FS_Subset
<1>3. S \in SUBSET Nat
  OBVIOUS
<1>4. QED BY <1>2, <1>3, LeastOf

\* A function that starts with m and takes one step after the other.
Steps(n, m, step, f) ==
  f = [k \in 0..n |-> IF k = 0 THEN m ELSE step[k][f[k - 1]]]

\* There is one, and its values stay where the steps do.
LEMMA StepsExist ==
  ASSUME NEW n \in Nat, NEW S, NEW m \in S, NEW step \in [1..n -> [S -> S]]
  PROVE  \E f \in [0..n -> S] : Steps(n, m, step, f)
<1> DEFINE G == {i \in Nat : i <= n => \E f \in [0..i -> S] : Steps(i, m, step, f)}
<1>1. 0 \in G
  <2> DEFINE f == [k \in 0..0 |-> m]
  <2>1. f \in [0..0 -> S] /\ Steps(0, m, step, f)
    BY DEF Steps
  <2>2. QED BY <2>1
<1>2. ASSUME NEW i \in G PROVE i + 1 \in G
  <2> SUFFICES ASSUME i + 1 <= n
               PROVE  \E f \in [0..(i + 1) -> S] : Steps(i + 1, m, step, f)
    OBVIOUS
  <2>1. PICK f \in [0..i -> S] : Steps(i, m, step, f)
    OBVIOUS
  <2> DEFINE g == [k \in 0..(i + 1) |-> IF k \in 0..i THEN f[k] ELSE step[i + 1][f[i]]]
  <2>2. i + 1 \in 1..n /\ i \in 0..i /\ i \in Nat
    OBVIOUS
  <2>3. step[i + 1][f[i]] \in S
    BY <2>2
  <2>4. g \in [0..(i + 1) -> S]
    BY <2>3
  <2>5. ASSUME NEW k \in 0..(i + 1)
        PROVE  g[k] = IF k = 0 THEN m ELSE step[k][g[k - 1]]
    <3>1. CASE k = 0
      <4>1. k \in 0..i
        BY <3>1, <2>2
      <4>2. f[k] = m
        BY <2>1, <3>1, <4>1 DEF Steps
      <4>3. QED BY <3>1, <4>1, <4>2
    <3>2. CASE k \in 1..i
      <4>1. k \in 0..i /\ k - 1 \in 0..i /\ k - 1 \in 0..(i + 1) /\ k # 0
        BY <3>2, <2>2
      <4>2. f[k] = step[k][f[k - 1]]
        BY <2>1, <4>1 DEF Steps
      <4>3. g[k] = f[k] /\ g[k - 1] = f[k - 1]
        BY <4>1
      <4>4. QED BY <4>1, <4>2, <4>3
    <3>3. CASE k = i + 1
      <4>1. k \notin 0..i /\ k - 1 = i /\ i \in 0..i /\ k # 0 /\ i \in 0..(i + 1)
        BY <3>3, <2>2
      <4>2. g[k] = step[i + 1][f[i]] /\ g[k - 1] = f[i]
        BY <4>1
      <4>3. QED BY <3>3, <4>1, <4>2
    <3>4. QED BY <3>1, <3>2, <3>3, <2>2
  <2>6. Steps(i + 1, m, step, g)
    BY <2>5 DEF Steps
  <2>7. QED BY <2>4, <2>6
<1>3. n \in G
  <2> HIDE DEF G
  <2>1. G \in SUBSET Nat
    BY DEF G
  <2>2. QED BY <1>1, <1>2, <2>1, SetInduction
<1>4. QED BY <1>3

-----------------------------------------------------------------------------
(* Loading *)

MemoryTypes == [Addresses -> {Unmapped, Dirty, Zero} \cup (Files \X Nat)]

\* The numbers in the header of a segment.
LEMMA HeaderIs ==
  ASSUME NEW f \in Files, NEW base \in Nat, NEW i, IsLoad(f, i)
  PROVE  /\ i \in 1..Len(Phdrs[f]) /\ Len(Phdrs[f]) \in Nat
         /\ Phdrs[f][i].vaddr \in Nat /\ Phdrs[f][i].offset \in Nat
         /\ Phdrs[f][i].filesz \in Nat /\ Phdrs[f][i].memsz \in Nat
         /\ Phdrs[f][i].filesz <= Phdrs[f][i].memsz
         /\ Target(Phdrs[f][i], base) \in Nat
         /\ Length(Phdrs[f][i]) \in Nat /\ Phdrs[f][i].memsz <= Length(Phdrs[f][i])
<1>1. Phdrs[f] \in Seq(Header) /\ i \in DOMAIN Phdrs[f]
  BY LoaderAssumption DEF IsLoad
<1>2. i \in 1..Len(Phdrs[f]) /\ Len(Phdrs[f]) \in Nat
  BY <1>1, LenProperties
<1>3. Phdrs[f][i] \in Header
  BY <1>1, <1>2, ElementOfSeq
<1> DEFINE p == Phdrs[f][i]
<1>4. /\ p.vaddr \in Nat /\ p.offset \in Nat /\ p.filesz \in Nat /\ p.memsz \in Nat
  BY <1>3 DEF Header
<1>5. p.filesz <= p.memsz
  BY <1>1, LoaderAssumption
<1>6. Target(p, base) \in Nat
  BY <1>4 DEF Target
<1>7. Length(p) \in Nat /\ p.memsz <= Length(p)
  <2> HIDE DEF p
  <2>1. PageSize \in Nat \ {0}
    BY LoaderAssumption
  <2> DEFINE n == p.memsz + PageSize - 1
             q == n \div PageSize
  <2>2. n \in Nat /\ n = p.memsz + PageSize - 1
    BY <1>4, <2>1
  <2>3. q \in Nat /\ n % PageSize \in 0..(PageSize - 1) /\ n = PageSize * q + (n % PageSize)
    BY <2>1, <2>2, DivMod
  <2>4. Length(p) = q * PageSize
    BY DEF Length, ROUND_UP
  <2> HIDE DEF n, q
  <2>5. q * PageSize = PageSize * q /\ PageSize * q \in Nat
    BY <2>1, <2>3
  <2>6. QED BY <1>4, <2>1, <2>2, <2>3, <2>4, <2>5
<1>8. QED BY <1>2, <1>4, <1>5, <1>6, <1>7

\* What the calls of the loader do to a memory is a memory.
LEMMA LoaderTypes ==
  ASSUME NEW m \in MemoryTypes, NEW f \in Files, NEW base \in Nat, NEW i, IsLoad(f, i)
  PROVE  /\ LoadSegment(m, f, Phdrs[f][i], base) \in MemoryTypes
         /\ munmap(m, Target(Phdrs[f][i], base), Length(Phdrs[f][i])) \in MemoryTypes
<1> DEFINE p == Phdrs[f][i]
           target == Target(p, base)
           cleared == mmap(m, target, Length(p))
<1>1. p.offset \in Nat /\ p.filesz \in Nat /\ target \in Nat /\ Length(p) \in Nat
  BY HeaderIs
<1> HIDE DEF p, target
<1>2. cleared \in MemoryTypes
  BY DEF mmap, MemoryTypes
<1>3. ReadSegment(cleared, f, p, target) \in MemoryTypes
  <2> HIDE DEF cleared
  <2>1. ASSUME NEW a \in Addresses, a - target \in 0..(p.filesz - 1)
        PROVE  <<f, p.offset + a - target>> \in Files \X Nat
    <3>1. a \in Int
      BY LoaderAssumption DEF Addresses
    <3>2. p.offset + a - target \in Nat
      BY <1>1, <2>1, <3>1
    <3>3. QED BY <3>2
  <2>2. ASSUME NEW a \in Addresses
        PROVE  (IF a - target \in 0 .. p.filesz - 1 /\ \A b \in target .. a : cleared[b] # Unmapped
                THEN <<f, p.offset + a - target>> ELSE cleared[a])
                  \in {Unmapped, Dirty, Zero} \cup (Files \X Nat)
    BY <1>2, <2>1 DEF MemoryTypes
  <2>3. QED BY <2>2 DEF ReadSegment, MemoryTypes
<1>4. munmap(m, target, Length(p)) \in MemoryTypes
  BY DEF munmap, MemoryTypes
<1>5. QED BY <1>3, <1>4 DEF LoadSegment, p, target

\* g holds the memories on the way through the headers of f.
LoadSteps(m, f, base, g) ==
  g = [i \in 0..Len(Phdrs[f]) |->
         IF i = 0 THEN m
         ELSE IF IsLoad(f, i) THEN LoadSegment(g[i - 1], f, Phdrs[f][i], base)
         ELSE g[i - 1]]

UnmapSteps(n, m, f, base, g) ==
  g = [i \in 0..n |->
         IF i = 0 THEN m
         ELSE IF IsLoad(f, i)
              THEN munmap(g[i - 1], Target(Phdrs[f][i], base), Length(Phdrs[f][i]))
         ELSE g[i - 1]]

\* There is a way; LoadAll takes it.
LEMMA LoadAllSteps ==
  ASSUME NEW m \in MemoryTypes, NEW f \in Files, NEW base \in Nat
  PROVE  /\ Len(Phdrs[f]) \in Nat
         /\ \E g \in [0..Len(Phdrs[f]) -> MemoryTypes] :
              LoadSteps(m, f, base, g) /\ LoadAll(m, f, base) = g[Len(Phdrs[f])]
<1> DEFINE n == Len(Phdrs[f])
           step == [i \in 1..n |-> [x \in MemoryTypes |->
                      IF IsLoad(f, i) THEN LoadSegment(x, f, Phdrs[f][i], base) ELSE x]]
           h == CHOOSE h : LoadSteps(m, f, base, h)
<1>1. n \in Nat
  BY LoaderAssumption, LenProperties
<1>2. step \in [1..n -> [MemoryTypes -> MemoryTypes]]
  BY LoaderTypes
<1>3. \E g : LoadSteps(m, f, base, g)
  <2>1. PICK g \in [0..n -> MemoryTypes] : Steps(n, m, step, g)
    <3> HIDE DEF step, n
    <3>1. QED BY <1>1, <1>2, StepsExist
  <2>2. ASSUME NEW i \in 0..n
        PROVE  g[i] = IF i = 0 THEN m
                      ELSE IF IsLoad(f, i) THEN LoadSegment(g[i - 1], f, Phdrs[f][i], base)
                      ELSE g[i - 1]
    <3>1. CASE i = 0
      <4>1. g[i] = m
        BY <2>1, <3>1 DEF Steps
      <4>2. QED BY <3>1, <4>1
    <3>2. CASE i # 0
      <4>1. i \in 1..n /\ i - 1 \in 0..n
        BY <1>1, <3>2
      <4>2. g[i] = step[i][g[i - 1]]
        <5> HIDE DEF step
        <5>1. QED BY <2>1, <3>2 DEF Steps
      <4>3. g[i - 1] \in MemoryTypes
        BY <4>1
      <4>4. step[i][g[i - 1]]
              = IF IsLoad(f, i) THEN LoadSegment(g[i - 1], f, Phdrs[f][i], base) ELSE g[i - 1]
        <5> HIDE DEF n
        <5>1. QED BY <4>1, <4>3
      <4>5. QED BY <3>2, <4>2, <4>4
    <3>3. QED BY <3>1, <3>2
  <2>3. g = [i \in 0..n |-> g[i]]
    OBVIOUS
  <2>4. LoadSteps(m, f, base, g)
    <3> HIDE DEF step
    <3>1. QED BY <2>2, <2>3 DEF LoadSteps
  <2>5. QED BY <2>4
<1>4. LoadSteps(m, f, base, h)
  BY <1>3
<1>5. LoadAll(m, f, base) = h[n]
  BY DEF LoadAll, LoadSteps
<1>6. h \in [0..n -> MemoryTypes]
  <2> HIDE DEF h, step
  <2> DEFINE G == {i \in Nat : i <= n => h[i] \in MemoryTypes}
  <2>1. 0 \in G
    BY <1>1, <1>4 DEF LoadSteps
  <2>2. ASSUME NEW i \in G PROVE i + 1 \in G
    <3> SUFFICES ASSUME i + 1 <= n PROVE h[i + 1] \in MemoryTypes
      OBVIOUS
    <3>1. i \in Nat /\ i + 1 \in 0..n /\ h[i] \in MemoryTypes /\ (i + 1) - 1 = i /\ i + 1 # 0
      BY <1>1
    <3>2. h[i + 1] = IF IsLoad(f, i + 1) THEN LoadSegment(h[i], f, Phdrs[f][i + 1], base) ELSE h[i]
      BY <1>4, <3>1 DEF LoadSteps
    <3>3. QED BY <3>1, <3>2, LoaderTypes
  <2>3. \A i \in Nat : i \in G
    <3>1. G \in SUBSET Nat
      OBVIOUS
    <3> HIDE DEF G
    <3>2. QED BY <2>1, <2>2, <3>1, SetInduction
  <2>4. \A i \in 0..n : h[i] \in MemoryTypes
    BY <2>3
  <2>5. h = [i \in 0..n |-> h[i]]
    BY <1>4 DEF LoadSteps
  <2>6. QED BY <2>4, <2>5
<1>7. QED
  <2> HIDE DEF h
  <2>1. QED BY <1>1, <1>4, <1>5, <1>6

\* So does UnmapAll.
LEMMA UnmapAllSteps ==
  ASSUME NEW m \in MemoryTypes, NEW f \in Files, NEW base \in Nat
  PROVE  \E g \in [0..Len(Phdrs[f]) -> MemoryTypes] :
           /\ UnmapSteps(Len(Phdrs[f]), m, f, base, g)
           /\ UnmapAll(m, f, base) = g[Len(Phdrs[f])]
<1> DEFINE n == Len(Phdrs[f])
           Unmapping(x, i) == munmap(x, Target(Phdrs[f][i], base), Length(Phdrs[f][i]))
           step == [i \in 1..n |-> [x \in MemoryTypes |->
                      IF IsLoad(f, i) THEN Unmapping(x, i) ELSE x]]
           h == CHOOSE h : UnmapSteps(n, m, f, base, h)
<1>1. n \in Nat
  BY LoaderAssumption, LenProperties
<1>2. step \in [1..n -> [MemoryTypes -> MemoryTypes]]
  BY LoaderTypes
<1>3. \E g : UnmapSteps(n, m, f, base, g)
  <2>1. PICK g \in [0..n -> MemoryTypes] : Steps(n, m, step, g)
    <3> HIDE DEF step, n
    <3>1. QED BY <1>1, <1>2, StepsExist
  <2>2. ASSUME NEW i \in 0..n
        PROVE  g[i] = IF i = 0 THEN m
                      ELSE IF IsLoad(f, i) THEN Unmapping(g[i - 1], i)
                      ELSE g[i - 1]
    <3>1. CASE i = 0
      <4>1. g[i] = m
        BY <2>1, <3>1 DEF Steps
      <4>2. QED BY <3>1, <4>1
    <3>2. CASE i # 0
      <4>1. i \in 1..n /\ i - 1 \in 0..n
        BY <1>1, <3>2
      <4>2. g[i] = step[i][g[i - 1]]
        <5> HIDE DEF step
        <5>1. QED BY <2>1, <3>2 DEF Steps
      <4>3. g[i - 1] \in MemoryTypes
        BY <4>1
      <4>4. step[i][g[i - 1]] = IF IsLoad(f, i) THEN Unmapping(g[i - 1], i) ELSE g[i - 1]
        <5> HIDE DEF n, Unmapping
        <5>1. QED BY <4>1, <4>3
      <4>5. QED BY <3>2, <4>2, <4>4
    <3>3. QED BY <3>1, <3>2
  <2>3. g = [i \in 0..n |-> g[i]]
    OBVIOUS
  <2>4. UnmapSteps(n, m, f, base, g)
    <3> HIDE DEF step
    <3>1. QED BY <2>2, <2>3 DEF UnmapSteps
  <2>5. QED BY <2>4
<1>4. UnmapSteps(n, m, f, base, h)
  BY <1>3
<1>5. UnmapAll(m, f, base) = h[n]
  BY DEF UnmapAll, UnmapFirst, UnmapSteps
<1>6. h \in [0..n -> MemoryTypes]
  <2> HIDE DEF h, step
  <2> DEFINE G == {i \in Nat : i <= n => h[i] \in MemoryTypes}
  <2>1. 0 \in G
    BY <1>1, <1>4 DEF UnmapSteps
  <2>2. ASSUME NEW i \in G PROVE i + 1 \in G
    <3> SUFFICES ASSUME i + 1 <= n PROVE h[i + 1] \in MemoryTypes
      OBVIOUS
    <3>1. i \in Nat /\ i + 1 \in 0..n /\ h[i] \in MemoryTypes /\ (i + 1) - 1 = i /\ i + 1 # 0
      BY <1>1
    <3>2. h[i + 1] = IF IsLoad(f, i + 1) THEN Unmapping(h[i], i + 1) ELSE h[i]
      BY <1>4, <3>1 DEF UnmapSteps
    <3>3. QED BY <3>1, <3>2, LoaderTypes
  <2>3. \A i \in Nat : i \in G
    <3>1. G \in SUBSET Nat
      OBVIOUS
    <3> HIDE DEF G
    <3>2. QED BY <2>1, <2>2, <3>1, SetInduction
  <2>4. \A i \in 0..n : h[i] \in MemoryTypes
    BY <2>3
  <2>5. h = [i \in 0..n |-> h[i]]
    BY <1>4 DEF UnmapSteps
  <2>6. QED BY <2>4, <2>5
<1>7. QED
  <2> HIDE DEF h
  <2>1. QED BY <1>1, <1>4, <1>5, <1>6

\* The byte of the loaded segment i at the address a of its pages.
ByteAt(f, i, base, a) ==
  IF a - Target(Phdrs[f][i], base) < Phdrs[f][i].filesz
  THEN <<f, Phdrs[f][i].offset + a - Target(Phdrs[f][i], base)>> ELSE Zero

\* Loading a segment to free pages fills these and no others; unmapping frees them.
LEMMA SegmentIs ==
  ASSUME NEW x \in MemoryTypes, NEW f \in Files, NEW base \in Nat, NEW i, IsLoad(f, i),
         FitsAt(f, base)
  PROVE  /\ (\A a \in Pages(f, i, base) : x[a] = Unmapped) =>
              \A a \in Addresses : LoadSegment(x, f, Phdrs[f][i], base)[a]
                = IF a \in Pages(f, i, base) THEN ByteAt(f, i, base, a) ELSE x[a]
         /\ \A a \in Addresses :
              munmap(x, Target(Phdrs[f][i], base), Length(Phdrs[f][i]))[a]
                = IF a \in Pages(f, i, base) THEN Unmapped ELSE x[a]
<1> DEFINE p == Phdrs[f][i]
           target == Target(p, base)
           range == target .. target + Length(p) - 1
<1>1. /\ p.filesz \in Nat /\ p.memsz \in Nat /\ p.offset \in Nat
      /\ target \in Nat /\ Length(p) \in Nat /\ p.filesz <= p.memsz /\ p.memsz <= Length(p)
  BY HeaderIs
<1>2. target % PageSize = 0 /\ range \subseteq Addresses
  BY HeaderIs DEF FitsAt, Pages, IsLoad
<1>3. Pages(f, i, base) = range
  BY DEF Pages
<1>4. (target \div PageSize) * PageSize = target
  <2> HIDE DEF target
  <2>1. PageSize \in Nat \ {0}
    BY LoaderAssumption
  <2>2. target \div PageSize \in Nat /\ target = PageSize * (target \div PageSize) + (target % PageSize)
    BY <1>1, <2>1, DivMod
  <2>3. QED BY <1>2, <2>1, <2>2
<1>5. \A a \in Addresses : a \in Int
  BY LoaderAssumption DEF Addresses
<1>6. ASSUME \A a \in Pages(f, i, base) : x[a] = Unmapped, NEW a \in Addresses
      PROVE  LoadSegment(x, f, p, base)[a]
               = IF a \in Pages(f, i, base) THEN ByteAt(f, i, base, a) ELSE x[a]
  <2>1. range \cap Mapped(x) = {}
    BY <1>3, <1>6 DEF Mapped
  <2>2. mmap(x, target, Length(p)) = [b \in Addresses |-> IF b \in range THEN Zero ELSE x[b]]
    <3> HIDE DEF target, p
    <3>1. QED BY <1>4, <2>1 DEF mmap
  <2>3. LoadSegment(x, f, p, base)[a]
          = IF a - target \in 0 .. p.filesz - 1 THEN <<f, p.offset + a - target>>
            ELSE IF a \in range THEN Zero ELSE x[a]
    <3> HIDE DEF target, p, range
    <3> DEFINE m == mmap(x, target, Length(p))
    <3>1. LoadSegment(x, f, p, base) = ReadSegment(m, f, p, target)
      BY DEF LoadSegment, target
    <3>2. \A b \in range : m[b] # Unmapped
      BY <1>2, <2>2, LoaderAssumption DEF range
    <3>3. m[a] = IF a \in range THEN Zero ELSE x[a]
      BY <2>2
    <3> HIDE DEF m
    <3>4. ASSUME a - target \in 0 .. p.filesz - 1
          PROVE  \A b \in target .. a : m[b] # Unmapped
      <4>1. \A b \in target .. a : b \in range
        BY <1>1, <1>5, <3>4 DEF range
      <4>2. QED BY <3>2, <4>1
    <3>5. LoadSegment(x, f, p, base)[a]
            = IF a - target \in 0 .. p.filesz - 1 /\ \A b \in target .. a : m[b] # Unmapped
              THEN <<f, p.offset + a - target>> ELSE m[a]
      BY <3>1 DEF ReadSegment
    <3>6. QED BY <3>3, <3>4, <3>5
  <2>4. ByteAt(f, i, base, a)
          = IF a - target < p.filesz THEN <<f, p.offset + a - target>> ELSE Zero
    BY DEF ByteAt
  <2>5. a \in range <=> target <= a /\ a <= target + Length(p) - 1
    <3> HIDE DEF target, p
    <3>1. QED BY <1>1, <1>5
  <2>6. a - target \in 0 .. p.filesz - 1 <=> target <= a /\ a - target < p.filesz
    <3> HIDE DEF target, p
    <3>1. QED BY <1>1, <1>5
  <2>7. a - target < p.filesz => a <= target + Length(p) - 1
    <3> HIDE DEF target, p
    <3>1. QED BY <1>1, <1>5
  <2> HIDE DEF target, p, range
  <2>8. QED BY <1>3, <2>3, <2>4, <2>5, <2>6, <2>7
<1>7. ASSUME NEW a \in Addresses
      PROVE  munmap(x, target, Length(p))[a] = IF a \in Pages(f, i, base) THEN Unmapped ELSE x[a]
  <2> HIDE DEF p, target
  <2>1. QED BY <1>2, <1>3 DEF munmap
<1>8. QED BY <1>6, <1>7

\* The pages of f that its first k headers name.
FirstPages(k, f, base) == UNION {Pages(f, i, base) : i \in {i \in 1..k : IsLoad(f, i)}}

\* After k headers the memory holds these segments and what it held elsewhere.
FirstLoaded(k, x, m, f, base) ==
  /\ \A i \in 1..k : IsLoad(f, i) =>
       \A a \in Pages(f, i, base) : x[a] = ByteAt(f, i, base, a)
  /\ \A a \in Addresses : a \notin FirstPages(k, f, base) => x[a] = m[a]

FirstUnmapped(k, x, m, f, base) ==
  \A a \in Addresses : x[a] = IF a \in FirstPages(k, f, base) THEN Unmapped ELSE m[a]

\* The pages of one header more.
LEMMA NextPages ==
  ASSUME NEW k \in Nat, NEW f, NEW base
  PROVE  /\ FirstPages(0, f, base) = {}
         /\ IsLoad(f, k + 1) =>
              FirstPages(k + 1, f, base) = FirstPages(k, f, base) \cup Pages(f, k + 1, base)
         /\ ~IsLoad(f, k + 1) => FirstPages(k + 1, f, base) = FirstPages(k, f, base)
<1> DEFINE Of(S) == UNION {Pages(f, i, base) : i \in S}
<1>1. FirstPages(0, f, base) = {}
  BY DEF FirstPages
<1>2. ASSUME IsLoad(f, k + 1)
      PROVE  {i \in 1..(k + 1) : IsLoad(f, i)} = {i \in 1..k : IsLoad(f, i)} \cup {k + 1}
  BY <1>2
<1>3. ASSUME ~IsLoad(f, k + 1)
      PROVE  {i \in 1..(k + 1) : IsLoad(f, i)} = {i \in 1..k : IsLoad(f, i)}
  <2>1. \A i \in 1..(k + 1) : i = k + 1 \/ i \in 1..k
    OBVIOUS
  <2>2. 1..k \subseteq 1..(k + 1)
    OBVIOUS
  <2>3. QED BY <1>3, <2>1, <2>2
<1>4. FirstPages(k + 1, f, base) = Of({i \in 1..(k + 1) : IsLoad(f, i)})
  BY DEF FirstPages
<1>5. FirstPages(k, f, base) = Of({i \in 1..k : IsLoad(f, i)})
  BY DEF FirstPages
<1>6. ASSUME NEW S PROVE Of(S \cup {k + 1}) = Of(S) \cup Pages(f, k + 1, base)
  OBVIOUS
<1> HIDE DEF Of
<1>7. QED BY <1>1, <1>2, <1>3, <1>4, <1>5, <1>6

\* LoadAll makes the image of f in free memory and changes nothing else.
LEMMA LoadAllIs ==
  ASSUME NEW m \in MemoryTypes, NEW f \in Files, NEW base \in Nat, FitsAt(f, base),
         \A a \in PagesOf(f, base) : m[a] = Unmapped
  PROVE  /\ LoadAll(m, f, base) \in MemoryTypes
         /\ FirstLoaded(Len(Phdrs[f]), LoadAll(m, f, base), m, f, base)
<1> DEFINE n == Len(Phdrs[f])
<1>1. PICK g \in [0..n -> MemoryTypes] : LoadSteps(m, f, base, g) /\ LoadAll(m, f, base) = g[n]
  BY LoadAllSteps
<1>2. n \in Nat
  BY LoadAllSteps
<1> DEFINE G == {k \in Nat : k <= n => FirstLoaded(k, g[k], m, f, base)}
<1>3. 0 \in G
  <2>1. g[0] = m
    BY <1>1, <1>2 DEF LoadSteps
  <2>2. QED BY <2>1 DEF FirstLoaded
<1>4. ASSUME NEW k \in G PROVE k + 1 \in G
  <2> SUFFICES ASSUME k + 1 <= n PROVE FirstLoaded(k + 1, g[k + 1], m, f, base)
    OBVIOUS
  <2>1. /\ k \in Nat /\ FirstLoaded(k, g[k], m, f, base) /\ k + 1 \in 0..n /\ k + 1 # 0
        /\ (k + 1) - 1 = k /\ g[k] \in MemoryTypes
    BY <1>2
  <2>2. g[k + 1] = IF IsLoad(f, k + 1) THEN LoadSegment(g[k], f, Phdrs[f][k + 1], base) ELSE g[k]
    BY <1>1, <2>1 DEF LoadSteps
  <2>3. \A i \in 1..(k + 1) : i \in 1..k \/ i = k + 1
    BY <2>1
  <2>4. CASE ~IsLoad(f, k + 1)
    <3>1. FirstPages(k + 1, f, base) = FirstPages(k, f, base)
      BY <2>1, <2>4, NextPages
    <3>2. g[k + 1] = g[k]
      BY <2>2, <2>4
    <3>3. QED BY <2>1, <2>3, <2>4, <3>1, <3>2 DEF FirstLoaded
  <2>5. CASE IsLoad(f, k + 1)
    <3>1. FirstPages(k + 1, f, base) = FirstPages(k, f, base) \cup Pages(f, k + 1, base)
      BY <2>1, <2>5, NextPages
    <3>2. g[k + 1] = LoadSegment(g[k], f, Phdrs[f][k + 1], base)
      BY <2>2, <2>5
    <3>3. Pages(f, k + 1, base) \subseteq Addresses
      BY <2>5 DEF FitsAt, IsLoad
    <3>4. ASSUME NEW i \in 1..k, IsLoad(f, i)
          PROVE  Pages(f, i, base) \subseteq Addresses /\ Pages(f, i, base) \cap Pages(f, k + 1, base) = {}
      <4>1. i # k + 1 /\ i \in DOMAIN Phdrs[f] /\ k + 1 \in DOMAIN Phdrs[f]
        BY <2>1, <2>5, <3>4 DEF IsLoad
      <4>2. QED BY <2>5, <3>4, <4>1 DEF FitsAt
    <3>5. FirstPages(k, f, base) \cap Pages(f, k + 1, base) = {}
      BY <3>4 DEF FirstPages
    <3>6. \A a \in Pages(f, k + 1, base) : g[k][a] = Unmapped
      <4>1. Pages(f, k + 1, base) \subseteq PagesOf(f, base)
        BY <2>5 DEF PagesOf, IsLoad
      <4>2. QED BY <2>1, <3>3, <3>5, <4>1 DEF FirstLoaded
    <3>7. \A a \in Addresses : g[k + 1][a]
            = IF a \in Pages(f, k + 1, base) THEN ByteAt(f, k + 1, base, a) ELSE g[k][a]
      BY <2>1, <2>5, <3>2, <3>6, SegmentIs
    <3>8. ASSUME NEW i \in 1..(k + 1), IsLoad(f, i), NEW a \in Pages(f, i, base)
          PROVE  g[k + 1][a] = ByteAt(f, i, base, a)
      <4>1. CASE i = k + 1
        BY <3>3, <3>7, <3>8, <4>1
      <4>2. CASE i \in 1..k
        <5>1. a \in Addresses /\ a \notin Pages(f, k + 1, base)
          BY <3>4, <3>8, <4>2
        <5>2. g[k][a] = ByteAt(f, i, base, a)
          BY <2>1, <3>8, <4>2 DEF FirstLoaded
        <5>3. QED BY <3>7, <5>1, <5>2
      <4>3. QED BY <2>3, <4>1, <4>2
    <3>9. \A a \in Addresses : a \notin FirstPages(k + 1, f, base) => g[k + 1][a] = m[a]
      BY <2>1, <3>1, <3>7 DEF FirstLoaded
    <3>10. QED BY <3>8, <3>9 DEF FirstLoaded
  <2>6. QED BY <2>4, <2>5
<1>5. n \in G
  <2>1. G \in SUBSET Nat
    OBVIOUS
  <2> HIDE DEF G
  <2>2. QED BY <1>2, <1>3, <1>4, <2>1, SetInduction
<1>6. QED BY <1>1, <1>2, <1>5

\* UnmapAll frees the pages of f.
LEMMA UnmapAllIs ==
  ASSUME NEW m \in MemoryTypes, NEW f \in Files, NEW base \in Nat, FitsAt(f, base)
  PROVE  FirstUnmapped(Len(Phdrs[f]), UnmapAll(m, f, base), m, f, base)
<1> DEFINE n == Len(Phdrs[f])
<1>1. PICK g \in [0..n -> MemoryTypes] : UnmapSteps(n, m, f, base, g) /\ UnmapAll(m, f, base) = g[n]
  BY UnmapAllSteps
<1>2. n \in Nat
  BY LoadAllSteps
<1> DEFINE G == {k \in Nat : k <= n => FirstUnmapped(k, g[k], m, f, base)}
<1>3. 0 \in G
  <2>1. g[0] = m /\ FirstPages(0, f, base) = {}
    BY <1>1, <1>2, NextPages DEF UnmapSteps
  <2>2. QED BY <2>1 DEF FirstUnmapped
<1>4. ASSUME NEW k \in G PROVE k + 1 \in G
  <2> SUFFICES ASSUME k + 1 <= n PROVE FirstUnmapped(k + 1, g[k + 1], m, f, base)
    OBVIOUS
  <2>1. /\ k \in Nat /\ FirstUnmapped(k, g[k], m, f, base) /\ k + 1 \in 0..n /\ k + 1 # 0
        /\ (k + 1) - 1 = k /\ g[k] \in MemoryTypes
    BY <1>2
  <2>2. g[k + 1] = IF IsLoad(f, k + 1)
                   THEN munmap(g[k], Target(Phdrs[f][k + 1], base), Length(Phdrs[f][k + 1]))
                   ELSE g[k]
    BY <1>1, <2>1 DEF UnmapSteps
  <2>3. CASE ~IsLoad(f, k + 1)
    BY <2>1, <2>2, <2>3, NextPages DEF FirstUnmapped
  <2>4. CASE IsLoad(f, k + 1)
    <3>1. FirstPages(k + 1, f, base) = FirstPages(k, f, base) \cup Pages(f, k + 1, base)
      BY <2>1, <2>4, NextPages
    <3>2. \A a \in Addresses : g[k + 1][a]
            = IF a \in Pages(f, k + 1, base) THEN Unmapped ELSE g[k][a]
      BY <2>1, <2>2, <2>4, SegmentIs
    <3>3. QED BY <2>1, <3>1, <3>2 DEF FirstUnmapped
  <2>5. QED BY <2>3, <2>4
<1>5. n \in G
  <2>1. G \in SUBSET Nat
    OBVIOUS
  <2> HIDE DEF G
  <2>2. QED BY <1>2, <1>3, <1>4, <2>1, SetInduction
<1>6. QED BY <1>1, <1>2, <1>5

\* All the headers name all the pages.
LEMMA AllPages ==
  ASSUME NEW f \in Files, NEW base
  PROVE  FirstPages(Len(Phdrs[f]), f, base) = PagesOf(f, base)
<1>1. DOMAIN Phdrs[f] = 1..Len(Phdrs[f])
  BY LoaderAssumption, LenProperties
<1>2. QED BY <1>1 DEF FirstPages, PagesOf

\* The image of f is in x.
Shows(x, f, base) ==
  \A i \in 1..Len(Phdrs[f]) : IsLoad(f, i) =>
    \A a \in Pages(f, i, base) : x[a] = ByteAt(f, i, base, a)

\* ImageAt says the same of the bytes a segment asks for.
LEMMA ShowsImage ==
  ASSUME NEW x, NEW f \in Files, NEW base \in Nat, FitsAt(f, base), Shows(x, f, base)
  PROVE  ImageAt(x, f, base)
<1> SUFFICES ASSUME NEW i \in DOMAIN Phdrs[f], IsLoad(f, i), NEW k \in 0..(Phdrs[f][i].memsz - 1)
             PROVE  x[Target(Phdrs[f][i], base) + k]
                      = IF k < Phdrs[f][i].filesz THEN <<f, Phdrs[f][i].offset + k>> ELSE Zero
  BY DEF ImageAt
<1> DEFINE p == Phdrs[f][i]
           target == Target(p, base)
           a == target + k
<1>1. /\ i \in 1..Len(Phdrs[f]) /\ p.filesz \in Nat /\ p.memsz \in Nat /\ p.offset \in Nat
      /\ target \in Nat /\ Length(p) \in Nat /\ p.memsz <= Length(p)
      /\ k \in 0..(p.memsz - 1)
  BY HeaderIs
<1>2. Pages(f, i, base) = target..(target + Length(p) - 1)
  BY DEF Pages
<1>3. ByteAt(f, i, base, a)
        = IF a - target < p.filesz THEN <<f, p.offset + a - target>> ELSE Zero
  BY DEF ByteAt
<1> HIDE DEF p, target
<1>4. a \in Pages(f, i, base)
  BY <1>1, <1>2
<1>5. a - target = k
  BY <1>1
<1>6. p.offset + a - target = p.offset + k
  BY <1>1
<1>7. x[a] = ByteAt(f, i, base, a)
  BY <1>1, <1>4 DEF Shows
<1>8. QED BY <1>3, <1>5, <1>6, <1>7 DEF p, target

\* A memory that is the same on the pages of f shows f, too.
LEMMA ShowsStill ==
  ASSUME NEW x, NEW y, NEW f \in Files, NEW base, Shows(x, f, base),
         \A a \in PagesOf(f, base) : y[a] = x[a]
  PROVE  Shows(y, f, base)
<1>1. ASSUME NEW i \in 1..Len(Phdrs[f]), IsLoad(f, i)
      PROVE  Pages(f, i, base) \subseteq PagesOf(f, base)
  BY <1>1 DEF PagesOf, IsLoad
<1>2. QED BY <1>1 DEF Shows

\* The pages of a program that fits.
LEMMA FitsIn ==
  ASSUME NEW f \in Files, NEW base, FitsAt(f, base)
  PROVE  PagesOf(f, base) \subseteq Addresses
BY DEF FitsAt, PagesOf

\* An empty memory has nothing in it.
LEMMA NoMemoryIs ==
  NoMemory \in MemoryTypes /\ \A a \in Addresses : NoMemory[a] = Unmapped
BY DEF NoMemory, MemoryTypes

\* One program, loaded to empty memory.
LEMMA LoadOne ==
  ASSUME NEW f \in Files, NEW base \in Nat, FitsAt(f, base)
  PROVE  /\ LoadAll(NoMemory, f, base) \in MemoryTypes
         /\ Shows(LoadAll(NoMemory, f, base), f, base)
         /\ \A a \in Addresses \ PagesOf(f, base) : LoadAll(NoMemory, f, base)[a] = Unmapped
<1> DEFINE x == LoadAll(NoMemory, f, base)
<1>1. \A a \in PagesOf(f, base) : NoMemory[a] = Unmapped
  BY FitsIn, NoMemoryIs
<1>2. x \in MemoryTypes /\ FirstLoaded(Len(Phdrs[f]), x, NoMemory, f, base)
  BY <1>1, NoMemoryIs, LoadAllIs
<1> HIDE DEF x
<1>3. Shows(x, f, base)
  BY <1>2 DEF FirstLoaded, Shows
<1>4. \A a \in Addresses \ PagesOf(f, base) : x[a] = Unmapped
  BY <1>2, AllPages, NoMemoryIs DEF FirstLoaded
<1>5. QED BY <1>2, <1>3, <1>4 DEF x

\* exec_file leaves nothing behind, whatever the program has written.
LEMMA UnmapsWhatItLoads ==
  ASSUME NEW f \in Files, NEW base \in Nat, FitsAt(f, base),
         NEW written \in {{}, Mapped(LoadAll(NoMemory, f, base))}
  PROVE  UnmapAll([a \in Addresses |-> IF a \in written THEN Dirty
                                       ELSE LoadAll(NoMemory, f, base)[a]], f, base) = NoMemory
<1> DEFINE x == LoadAll(NoMemory, f, base)
           y == [a \in Addresses |-> IF a \in written THEN Dirty ELSE x[a]]
           z == UnmapAll(y, f, base)
<1>1. x \in MemoryTypes /\ \A a \in Addresses \ PagesOf(f, base) : x[a] = Unmapped
  BY LoadOne
<1>2. written \cap (Addresses \ PagesOf(f, base)) = {}
  BY <1>1 DEF Mapped
<1> HIDE DEF x
<1>3. y \in MemoryTypes
  BY <1>1 DEF MemoryTypes
<1>4. \A a \in Addresses \ PagesOf(f, base) : y[a] = Unmapped
  BY <1>1, <1>2
<1> HIDE DEF y
<1>5. z \in MemoryTypes
  <2>1. PICK g \in [0..Len(Phdrs[f]) -> MemoryTypes] : z = g[Len(Phdrs[f])]
    BY <1>3, UnmapAllSteps
  <2>2. Len(Phdrs[f]) \in Nat
    BY <1>3, LoadAllSteps
  <2>3. QED BY <2>1, <2>2
<1>6. \A a \in Addresses : z[a] = IF a \in PagesOf(f, base) THEN Unmapped ELSE y[a]
  BY <1>3, UnmapAllIs, AllPages DEF FirstUnmapped
<1> HIDE DEF z
<1>7. \A a \in Addresses : z[a] = Unmapped
  BY <1>4, <1>6
<1>8. z = NoMemory
  BY <1>5, <1>7 DEF NoMemory, MemoryTypes
<1>9. QED BY <1>8 DEF x, y, z

\* Two programs on pages of their own.
LEMMA LoadTwo ==
  ASSUME NEW f \in Files, NEW base \in Nat, FitsAt(f, base),
         NEW g \in Files, NEW place \in Nat, FitsAt(g, place),
         PagesOf(f, base) \cap PagesOf(g, place) = {}
  PROVE  /\ Shows(LoadAll(LoadAll(NoMemory, f, base), g, place), f, base)
         /\ Shows(LoadAll(LoadAll(NoMemory, f, base), g, place), g, place)
<1> DEFINE x == LoadAll(NoMemory, f, base)
           y == LoadAll(x, g, place)
<1>1. /\ x \in MemoryTypes /\ Shows(x, f, base)
      /\ \A a \in Addresses \ PagesOf(f, base) : x[a] = Unmapped
  BY LoadOne
<1> HIDE DEF x
<1>2. \A a \in PagesOf(g, place) : x[a] = Unmapped
  BY <1>1, FitsIn
<1>3. FirstLoaded(Len(Phdrs[g]), y, x, g, place)
  BY <1>1, <1>2, LoadAllIs
<1> HIDE DEF y
<1>4. Shows(y, g, place)
  BY <1>3 DEF FirstLoaded, Shows
<1>5. \A a \in PagesOf(f, base) : y[a] = x[a]
  BY <1>3, AllPages, FitsIn DEF FirstLoaded
<1>6. Shows(y, f, base)
  BY <1>1, <1>5, ShowsStill
<1>7. QED BY <1>4, <1>6 DEF x, y

-----------------------------------------------------------------------------
(* Frames *)

\* What may be on a stack or in a register, and where a process may be.
Places == {0, 1, 2} \X Nat
StackWords == {NULL, Flag, Guard, DoYield} \cup Nat \cup Places
RegisterTypes == [Registers -> StackWords]

\* The registers come off the stack in the opposite order.
LEMMA PopsPushes ==
  /\ DOMAIN Pushed = 1..8 /\ DOMAIN Popped = 1..8 /\ Len(Popped) = 8
  /\ Registers = {"rbp", "rsi", "rdi", "rbx", "r12", "r13", "r14", "r15"}
  /\ \A i \in 1..8 : Popped[i] = Pushed[9 - i] /\ Popped[i] \in Registers
  /\ \A i \in 1..8 : Pushed[i] \in Registers
  /\ \A r \in Registers : \E i \in 1..8 : Popped[i] = r
<1>1. DOMAIN Pushed = 1..8 /\ DOMAIN Popped = 1..8 /\ Len(Popped) = 8
  BY DEF Pushed, Popped
<1>2. /\ Pushed[1] = "rbp" /\ Pushed[2] = "rsi" /\ Pushed[3] = "rdi" /\ Pushed[4] = "rbx"
      /\ Pushed[5] = "r12" /\ Pushed[6] = "r13" /\ Pushed[7] = "r14" /\ Pushed[8] = "r15"
  BY DEF Pushed
<1>3. /\ Popped[8] = "rbp" /\ Popped[7] = "rsi" /\ Popped[6] = "rdi" /\ Popped[5] = "rbx"
      /\ Popped[4] = "r12" /\ Popped[3] = "r13" /\ Popped[2] = "r14" /\ Popped[1] = "r15"
  BY DEF Popped
<1>4. \A i \in 1..8 : i = 1 \/ i = 2 \/ i = 3 \/ i = 4 \/ i = 5 \/ i = 6 \/ i = 7 \/ i = 8
  OBVIOUS
<1>5. Registers = {"rbp", "rsi", "rdi", "rbx", "r12", "r13", "r14", "r15"}
  <2>1. Registers = {Pushed[i] : i \in 1..8}
    BY <1>1 DEF Registers, ToSet
  <2>2. QED BY <1>2, <1>4, <2>1
<1>6. \A i \in 1..8 : Popped[i] = Pushed[9 - i]
  BY <1>2, <1>3, <1>4
<1>7. \A i \in 1..8 : Popped[i] \in Registers /\ Pushed[i] \in Registers
  BY <1>2, <1>3, <1>4, <1>5
<1>8. \A r \in Registers : \E i \in 1..8 : Popped[i] = r
  BY <1>3, <1>5
<1>9. QED BY <1>1, <1>5, <1>6, <1>7, <1>8

\* The frame switch_to pushes on s.
LEMMA FrameIs ==
  ASSUME NEW s \in Seq(StackWords), NEW r \in RegisterTypes
  PROVE  /\ Frame(s, r) \in Seq(StackWords) /\ Len(Frame(s, r)) = Len(s) + 9
         /\ Len(s) \in Nat
         /\ \A i \in 1..Len(s) : Frame(s, r)[i] = s[i]
         /\ \A i \in 1..8 : Frame(s, r)[Len(s) + i] = r[Pushed[i]]
         /\ Frame(s, r)[Len(s) + 9] = Flag
<1> DEFINE n == Len(s)
           saved == [i \in 1..8 |-> r[Pushed[i]]]
           t == s \o saved
<1>1. n \in Nat
  BY LenProperties
<1>2. saved \in Seq(StackWords) /\ Len(saved) = 8
  <2>1. saved \in [1..8 -> StackWords]
    BY PopsPushes DEF RegisterTypes
  <2>2. saved \in Seq(StackWords)
    BY <2>1, SeqDef
  <2>3. DOMAIN saved = 1..8 /\ DOMAIN saved = 1..Len(saved) /\ Len(saved) \in Nat
    BY <2>2, LenProperties
  <2>4. QED BY <2>2, <2>3
<1>3. \A i \in 1..8 : saved[i] = r[Pushed[i]]
  OBVIOUS
<1> HIDE DEF saved
<1>4. /\ t \in Seq(StackWords) /\ Len(t) = n + 8
      /\ \A i \in 1..(n + 8) : t[i] = IF i <= n THEN s[i] ELSE saved[i - n]
  <2>1. /\ t \in Seq(StackWords) /\ Len(t) = Len(s) + Len(saved)
        /\ \A i \in 1..(Len(s) + Len(saved)) :
             t[i] = IF i <= Len(s) THEN s[i] ELSE saved[i - Len(s)]
    BY <1>2, ConcatProperties
  <2> HIDE DEF t
  <2>2. QED BY <1>2, <2>1
<1>5. <<Flag>> \in Seq(StackWords) /\ Len(<<Flag>>) = 1 /\ <<Flag>>[1] = Flag
  BY DEF StackWords
<1> HIDE DEF t, n
<1> DEFINE u == t \o <<Flag>>
<1>6. /\ u \in Seq(StackWords) /\ Len(u) = n + 9
      /\ \A i \in 1..(n + 9) : u[i] = IF i <= n + 8 THEN t[i] ELSE <<Flag>>[i - (n + 8)]
  <2>1. /\ u \in Seq(StackWords) /\ Len(u) = Len(t) + Len(<<Flag>>)
        /\ \A i \in 1..(Len(t) + Len(<<Flag>>)) :
             u[i] = IF i <= Len(t) THEN t[i] ELSE <<Flag>>[i - Len(t)]
    BY <1>4, <1>5, ConcatProperties
  <2>2. Len(t) + Len(<<Flag>>) = n + 9
    BY <1>1, <1>4, <1>5
  <2>3. QED BY <1>4, <2>1, <2>2
<1>7. Frame(s, r) = u
  BY PopsPushes DEF Frame, u, t, saved
<1> HIDE DEF u
<1>8. \A i \in 1..n : u[i] = s[i]
  BY <1>1, <1>4, <1>6
<1>9. \A i \in 1..8 : u[n + i] = r[Pushed[i]]
  <2> TAKE i \in 1..8
  <2>1. n + i \in 1..(n + 8) /\ n + i \in 1..(n + 9) /\ n + i <= n + 8 /\ ~(n + i <= n)
        /\ (n + i) - n = i
    BY <1>1
  <2>2. QED BY <1>3, <1>4, <1>6, <2>1
<1>10. u[n + 9] = Flag
  <2>1. n + 9 \in 1..(n + 9) /\ ~(n + 9 <= n + 8) /\ (n + 9) - (n + 8) = 1
    BY <1>1
  <2>2. QED BY <1>5, <1>6, <2>1
<1>11. QED BY <1>1, <1>6, <1>7, <1>8, <1>9, <1>10 DEF n

\* switch_to restores what it has saved.
LEMMA RestoresSaved ==
  ASSUME NEW s \in Seq(StackWords), NEW r \in RegisterTypes
  PROVE  \A x \in Registers : Restored(Frame(s, r))[x] = r[x]
<1> DEFINE F == Frame(s, r)
<1>1. /\ Len(F) = Len(s) + 9 /\ Len(s) \in Nat
      /\ \A i \in 1..8 : F[Len(s) + i] = r[Pushed[i]]
  BY FrameIs
<1> HIDE DEF F
<1> SUFFICES ASSUME NEW x \in Registers PROVE Restored(F)[x] = r[x]
  BY DEF F
<1> DEFINE i == CHOOSE i \in DOMAIN Popped : Popped[i] = x
<1>2. i \in 1..8 /\ Popped[i] = x
  BY PopsPushes
<1>3. Restored(F)[x] = F[Len(F) - i]
  BY DEF Restored
<1> HIDE DEF i
<1>4. Len(F) - i = Len(s) + (9 - i) /\ 9 - i \in 1..8
  BY <1>1, <1>2
<1>5. F[Len(F) - i] = r[Pushed[9 - i]]
  BY <1>1, <1>4
<1>6. Pushed[9 - i] = x
  BY <1>2, PopsPushes
<1>7. QED BY <1>3, <1>5, <1>6

\* What is restored from a long enough stack are words.
LEMMA RestoredTypes ==
  ASSUME NEW s \in Seq(StackWords), Len(s) >= 9
  PROVE  Restored(s) \in RegisterTypes
<1> SUFFICES ASSUME NEW x \in Registers PROVE Restored(s)[x] \in StackWords
  BY DEF Restored, RegisterTypes
<1> DEFINE i == CHOOSE i \in DOMAIN Popped : Popped[i] = x
<1>1. i \in 1..8
  BY PopsPushes
<1>2. Restored(s)[x] = s[Len(s) - i]
  BY DEF Restored
<1> HIDE DEF i
<1>3. Len(s) \in Nat
  BY LenProperties
<1>4. Len(s) - i \in 1..Len(s)
  BY <1>1, <1>3
<1>5. QED BY <1>2, <1>4, ElementOfSeq

\* The first words of a stack.
LEMMA FirstWords ==
  ASSUME NEW s \in Seq(StackWords), NEW n \in 0..Len(s)
  PROVE  /\ SubSeq(s, 1, n) \in Seq(StackWords) /\ Len(SubSeq(s, 1, n)) = n
         /\ \A i \in 1..n : SubSeq(s, 1, n)[i] = s[i]
<1>1. Len(s) \in Nat
  BY LenProperties
<1>2. \A i \in 1..n : s[i] \in StackWords
  BY <1>1, ElementOfSeq
<1>3. 1 \in Int /\ n \in Int
  BY <1>1
<1>4. /\ SubSeq(s, 1, n) \in Seq(StackWords)
      /\ Len(SubSeq(s, 1, n)) = IF 1 <= n THEN n - 1 + 1 ELSE 0
      /\ \A i \in 1..(n - 1 + 1) : SubSeq(s, 1, n)[i] = s[1 + i - 1]
  BY <1>2, <1>3, SubSeqProperties
<1>5. Len(SubSeq(s, 1, n)) = n
  BY <1>1, <1>4
<1>6. \A i \in 1..n : i \in 1..(n - 1 + 1) /\ 1 + i - 1 = i
  BY <1>1
<1>7. QED BY <1>4, <1>5, <1>6

-----------------------------------------------------------------------------
(* The stacks *)

SwitchTypes ==
  /\ stack \in [{0, 1, 2} -> Seq(StackWords)] /\ current \in {0, 1, 2}
  /\ regs \in RegisterTypes
  /\ curStack \in [{0, 1, 2} -> Nat \cup {NULL}]
  /\ at \in Places /\ output \in Seq(Nat) /\ halted = FALSE

\* The process q can be switched to: the frame of a new one, or what a yield has
\* pushed, lies on the three words at the end of its stack.
Resumes(q) ==
  /\ curStack[q] = Len(stack[q]) /\ Last(stack[q]) = Flag
  /\ stack[q][4] \in {q} \X Nat
  /\ \/ Len(stack[q]) = 13
     \/ Len(stack[q]) = 15 /\ stack[q][6] = DoYield

\* So can main.
HomeSaved ==
  /\ curStack[0] = 10 /\ Len(stack[0]) = 10
  /\ stack[0][10] = Flag /\ stack[0][1] = Home

SwitchInv ==
  /\ SwitchTypes
  /\ at[1] = 0 => at \in {<<0, 0>>, <<0, 1>>, Home, <<0, 3>>}
  /\ at \in {<<0, 0>>, <<0, 1>>} => current = 0
  /\ at = <<0, 1>> => Resumes(1) /\ Resumes(2)
  /\ \A p \in Processes :
       at[1] = p => /\ current = p /\ Len(stack[p]) = 3 /\ curStack[p] \in {13, 15}
                    /\ Resumes(3 - p) /\ HomeSaved

\* What switching to a process will find on its stack.
LEMMA ResumedIs ==
  ASSUME SwitchTypes, NEW q \in Processes, Resumes(q), Loaded, at[1] # q
  PROVE  /\ stack[q] \in Seq(StackWords) /\ Len(stack[q]) \in {13, 15}
         /\ Suspended(q) = stack[q] /\ curStack[q] # NULL
         /\ PlaceOf(q) = stack[q][4][2]
         /\ Len(stack[q]) = 13 =>
              /\ ReturnAddress(stack[q]) = stack[q][4] /\ stack[q][4] # DoYield
              /\ Caller(stack[q]) = SubSeq(stack[q], 1, 3)
              /\ OwnRegisters(q) = [x \in Used |-> Restored(stack[q])[x]]
         /\ Len(stack[q]) = 15 =>
              /\ ReturnAddress(stack[q]) = DoYield
              /\ Caller(stack[q]) = SubSeq(stack[q], 1, 5)
              /\ Caller(stack[q])[4] = stack[q][4] /\ Last(Caller(stack[q])) = stack[q][5]
              /\ Len(Caller(stack[q])) = 5
              /\ SubSeq(Caller(stack[q]), 1, 3) = SubSeq(stack[q], 1, 3)
              /\ OwnRegisters(q)
                   = [x \in Used |-> [Restored(stack[q]) EXCEPT !["rbp"] = stack[q][5]][x]]
<1> DEFINE s == stack[q]
<1>1. s \in Seq(StackWords) /\ Len(s) \in {13, 15} /\ q \in {0, 1, 2}
  BY DEF SwitchTypes, Resumes, Processes
<1>2. curStack[q] = Len(s) /\ s[4] \in {q} \X Nat /\ (Len(s) = 15 => s[6] = DoYield)
  <2>1. Len(s) = 13 \/ (Len(s) = 15 /\ s[6] = DoYield)
    BY DEF Resumes
  <2>2. Len(s) = 15 => s[6] = DoYield
    <3> HIDE DEF s
    <3>1. QED BY <2>1
  <2>3. curStack[q] = Len(s) /\ s[4] \in {q} \X Nat
    BY DEF Resumes
  <2>4. QED BY <2>2, <2>3
<1>3. Suspended(q) = s
  <2>1. SubSeq(s, 1, Len(s)) = s
    BY <1>1, SubSeqFull
  <2>2. Suspended(q) = SubSeq(s, 1, Len(s))
    BY <1>2 DEF Suspended
  <2>3. QED BY <2>1, <2>2
<1>4. curStack[q] # NULL
  BY <1>1, <1>2, SwitchAssumption
<1>5. s[4] # DoYield
  <2>1. s[4] \in {0, 1, 2} \X Nat
    BY <1>1, <1>2
  <2>2. QED BY <2>1, SwitchAssumption
<1>6. Len(Popped) = 8
  BY PopsPushes
<1> HIDE DEF s
<1>7. CASE Len(s) = 13
  <2>1. ReturnAddress(s) = s[4]
    BY <1>6, <1>7 DEF ReturnAddress
  <2>2. Caller(s) = SubSeq(s, 1, 3)
    BY <1>6, <1>7 DEF Caller
  <2>3. ~HasYielded(q)
    BY <1>3, <1>5, <2>1 DEF HasYielded
  <2>4. PlaceOf(q) = s[4][2]
    BY <1>3, <2>1, <2>3 DEF PlaceOf
  <2>5. OwnRegisters(q) = [x \in Used |-> Restored(s)[x]]
    BY <1>3, <2>3 DEF OwnRegisters
  <2>6. QED BY <1>1, <1>3, <1>4, <1>5, <1>7, <2>1, <2>2, <2>4, <2>5 DEF s
<1>8. CASE Len(s) = 15
  <2>1. ReturnAddress(s) = DoYield
    BY <1>2, <1>6, <1>8 DEF ReturnAddress
  <2>2. Caller(s) = SubSeq(s, 1, 5)
    BY <1>6, <1>8 DEF Caller
  <2>3. 5 \in 0..Len(s)
    BY <1>8
  <2>4. /\ Caller(s) \in Seq(StackWords) /\ Len(Caller(s)) = 5
        /\ \A i \in 1..5 : Caller(s)[i] = s[i]
    BY <1>1, <2>2, <2>3, FirstWords
  <2>5. Caller(s)[4] = s[4] /\ Last(Caller(s)) = s[5]
    BY <2>4 DEF Last
  <2>6. SubSeq(Caller(s), 1, 3) = SubSeq(s, 1, 3)
    <3>1. 3 \in 0..Len(s) /\ 3 \in 0..Len(Caller(s))
      BY <1>8, <2>4
    <3>2. /\ SubSeq(s, 1, 3) \in Seq(StackWords) /\ Len(SubSeq(s, 1, 3)) = 3
          /\ \A i \in 1..3 : SubSeq(s, 1, 3)[i] = s[i]
      BY <1>1, <3>1, FirstWords
    <3>3. /\ SubSeq(Caller(s), 1, 3) \in Seq(StackWords) /\ Len(SubSeq(Caller(s), 1, 3)) = 3
          /\ \A i \in 1..3 : SubSeq(Caller(s), 1, 3)[i] = Caller(s)[i]
      BY <2>4, <3>1, FirstWords
    <3>4. \A i \in 1..Len(SubSeq(s, 1, 3)) : SubSeq(Caller(s), 1, 3)[i] = SubSeq(s, 1, 3)[i]
      BY <2>4, <3>2, <3>3
    <3>5. Len(SubSeq(Caller(s), 1, 3)) = Len(SubSeq(s, 1, 3))
      BY <3>2, <3>3
    <3>6. QED BY <3>2, <3>3, <3>4, <3>5, SeqEqual
  <2>7. HasYielded(q)
    BY <1>3, <2>1 DEF HasYielded
  <2>8. PlaceOf(q) = s[4][2]
    BY <1>3, <2>5, <2>7 DEF PlaceOf
  <2>9. OwnRegisters(q) = [x \in Used |-> [Restored(s) EXCEPT !["rbp"] = s[5]][x]]
    BY <1>3, <2>5, <2>7 DEF OwnRegisters
  <2>10. QED BY <1>1, <1>3, <1>4, <1>8, <2>1, <2>2, <2>4, <2>5, <2>6, <2>8, <2>9 DEF s
<1>9. QED
  <2>1. Len(s) = 13 \/ Len(s) = 15
    BY <1>1 DEF s
  <2>2. QED BY <1>7, <1>8, <2>1

\* switch_to goes on where the other process has stopped, with its registers.
LEMMA SwitchesTo ==
  ASSUME SwitchTypes, NEW q \in Processes, Resumes(q), Loaded, at[1] # q,
         NEW s, NEW r, NEW location, switch_to(s, r, location, q)
  PROVE  /\ halted' = halted /\ current' = q /\ at' = stack[q][4]
         /\ curStack' = IF location = NULL THEN curStack
                        ELSE [curStack EXCEPT ![location] = Len(Frame(s, r))]
         /\ stack' = [stack EXCEPT ![current] = Frame(s, r), ![q] = SubSeq(stack[q], 1, 3)]
         /\ regs' \in RegisterTypes
         /\ \A x \in Used : regs'[x] = OwnRegisters(q)[x]
<1> DEFINE t == stack[q]
<1>1. /\ t \in Seq(StackWords) /\ Len(t) \in {13, 15}
      /\ SubSeq(t, 1, curStack[q]) = t /\ curStack[q] # NULL /\ Last(t) = Flag
  BY ResumedIs DEF Suspended, Resumes
<1>2. Restored(t) \in RegisterTypes
  <2>1. CASE Len(t) = 13
    <3>1. Len(t) >= 9
      BY <2>1
    <3>2. QED BY <1>1, <3>1, RestoredTypes
  <2>2. CASE Len(t) = 15
    <3>1. Len(t) >= 9
      BY <2>2
    <3>2. QED BY <1>1, <3>1, RestoredTypes
  <2>3. Len(t) = 13 \/ Len(t) = 15
    BY <1>1
  <2>4. QED BY <2>1, <2>2, <2>3
<1>3. Used \subseteq Registers
  BY SwitchAssumption
<1>4. /\ halted' = halted /\ current' = q
      /\ curStack' = IF location = NULL THEN curStack
                     ELSE [curStack EXCEPT ![location] = Len(Frame(s, r))]
      /\ ReturnAddress(t) = DoYield =>
           /\ at' = Caller(t)[Len(Caller(t)) - 1]
           /\ regs' = [Restored(t) EXCEPT !["rbp"] = Last(Caller(t))]
           /\ stack' = [stack EXCEPT ![current] = Frame(s, r),
                                     ![q] = SubSeq(Caller(t), 1, Len(Caller(t)) - 2)]
      /\ ReturnAddress(t) # DoYield =>
           /\ at' = ReturnAddress(t) /\ regs' = Restored(t)
           /\ stack' = [stack EXCEPT ![current] = Frame(s, r), ![q] = Caller(t)]
  <2> HIDE DEF t
  <2>1. SubSeq(stack[q], 1, curStack[q]) = t
    BY <1>1 DEF t
  <2>2. QED BY <1>1, <2>1 DEF switch_to
<1>5. CASE Len(t) = 13
  <2>1. /\ ReturnAddress(t) = t[4] /\ t[4] # DoYield /\ Caller(t) = SubSeq(t, 1, 3)
        /\ OwnRegisters(q) = [x \in Used |-> Restored(t)[x]]
    BY <1>5, ResumedIs
  <2> HIDE DEF t
  <2>2. at' = t[4] /\ regs' = Restored(t)
        /\ stack' = [stack EXCEPT ![current] = Frame(s, r), ![q] = SubSeq(t, 1, 3)]
    BY <1>4, <2>1
  <2>3. \A x \in Used : regs'[x] = OwnRegisters(q)[x]
    BY <2>1, <2>2
  <2>4. QED BY <1>2, <1>4, <2>2, <2>3 DEF t
<1>6. CASE Len(t) = 15
  <2>1. /\ ReturnAddress(t) = DoYield /\ Len(Caller(t)) = 5 /\ Caller(t)[4] = t[4]
        /\ Last(Caller(t)) = t[5] /\ SubSeq(Caller(t), 1, 3) = SubSeq(t, 1, 3)
        /\ OwnRegisters(q) = [x \in Used |-> [Restored(t) EXCEPT !["rbp"] = t[5]][x]]
    BY <1>6, ResumedIs
  <2>2. t[5] \in StackWords
    <3>1. 5 \in 1..Len(t)
      BY <1>6
    <3>2. QED BY <1>1, <3>1, ElementOfSeq
  <2> HIDE DEF t
  <2>3. Len(Caller(t)) - 1 = 4 /\ Len(Caller(t)) - 2 = 3
    BY <2>1
  <2>4. at' = t[4] /\ regs' = [Restored(t) EXCEPT !["rbp"] = t[5]]
        /\ stack' = [stack EXCEPT ![current] = Frame(s, r), ![q] = SubSeq(t, 1, 3)]
    BY <1>4, <2>1, <2>3
  <2>5. \A x \in Used : regs'[x] = OwnRegisters(q)[x]
    BY <2>1, <2>4
  <2>6. regs' \in RegisterTypes
    BY <1>2, <2>2, <2>4 DEF RegisterTypes
  <2>7. QED BY <1>4, <2>4, <2>5, <2>6 DEF t
<1>7. QED
  <2>1. Len(t) = 13 \/ Len(t) = 15
    BY <1>1
  <2>2. QED BY <1>5, <1>6, <2>1

\* Or to main.
LEMMA SwitchesHome ==
  ASSUME SwitchTypes, HomeSaved, NEW s, NEW r, switch_to(s, r, NULL, 0)
  PROVE  /\ halted' = halted /\ current' = 0 /\ at' = Home /\ curStack' = curStack
         /\ stack' = [stack EXCEPT ![current] = Frame(s, r), ![0] = SubSeq(stack[0], 1, 0)]
         /\ regs' \in RegisterTypes
<1> DEFINE t == stack[0]
<1>1. /\ t \in Seq(StackWords) /\ Len(t) = 10 /\ curStack[0] = Len(t)
      /\ t[10] = Flag /\ t[1] = Home
  BY DEF SwitchTypes, HomeSaved
<1>2. SubSeq(t, 1, curStack[0]) = t
  BY <1>1, SubSeqFull
<1>3. curStack[0] # NULL
  BY <1>1, SwitchAssumption
<1>4. Restored(t) \in RegisterTypes
  <2>1. Len(t) >= 9
    BY <1>1
  <2>2. QED BY <1>1, <2>1, RestoredTypes
<1>5. Home # DoYield
  BY SwitchAssumption DEF Home
<1> HIDE DEF t
<1>6. ReturnAddress(t) = Home /\ Caller(t) = SubSeq(t, 1, 0) /\ Last(t) = Flag
  BY <1>1, PopsPushes DEF ReturnAddress, Caller, Last
<1>7. SubSeq(stack[0], 1, curStack[0]) = t
  BY <1>2 DEF t
<1>8. /\ halted' = halted /\ current' = 0 /\ at' = Home /\ curStack' = curStack
      /\ stack' = [stack EXCEPT ![current] = Frame(s, r), ![0] = SubSeq(t, 1, 0)]
      /\ regs' = Restored(t)
  BY <1>3, <1>5, <1>6, <1>7 DEF switch_to
<1>9. QED BY <1>4, <1>8 DEF t

\* The stack a yield or an exit leaves.
YieldFrame(location, new) ==
  Frame(stack[current] \o <<<<at[1], at[2] + 1>>, regs["rbp"], DoYield>>,
        [regs EXCEPT !["rbp"] = 0, !["rdi"] = location, !["rsi"] = curStack[new]])

LEMMA YieldFrameIs ==
  ASSUME SwitchTypes, NEW p \in Processes, at[1] = p, current = p, Len(stack[p]) = 3,
         NEW location \in {NULL} \cup Nat, NEW new \in {0, 1, 2}
  PROVE  /\ YieldFrame(location, new) \in Seq(StackWords)
         /\ Len(YieldFrame(location, new)) = 15
         /\ YieldFrame(location, new)[4] = <<p, at[2] + 1>>
         /\ <<p, at[2] + 1>> \in {p} \X Nat
         /\ YieldFrame(location, new)[5] = regs["rbp"]
         /\ YieldFrame(location, new)[6] = DoYield
         /\ YieldFrame(location, new)[15] = Flag
         /\ \A x \in Registers \ {"rbp", "rdi", "rsi"} :
              Restored(YieldFrame(location, new))[x] = regs[x]
<1> DEFINE place == <<at[1], at[2] + 1>>
           e == <<place, regs["rbp"], DoYield>>
           s == stack[current] \o e
           r == [regs EXCEPT !["rbp"] = 0, !["rdi"] = location, !["rsi"] = curStack[new]]
<1>1. stack[p] \in Seq(StackWords) /\ p \in {0, 1, 2}
  BY DEF SwitchTypes, Processes
<1>2. at[2] + 1 \in Nat /\ place = <<p, at[2] + 1>> /\ place \in StackWords
  BY <1>1 DEF SwitchTypes, Places, StackWords
<1>3. {"rbp", "rsi", "rdi"} \subseteq Registers
  BY PopsPushes
<1>4. regs["rbp"] \in StackWords
  BY <1>3 DEF SwitchTypes, RegisterTypes
<1>5. r \in RegisterTypes
  <2>1. 0 \in StackWords /\ location \in StackWords /\ curStack[new] \in StackWords
    BY DEF StackWords, SwitchTypes
  <2>2. QED BY <2>1, <1>3 DEF RegisterTypes, SwitchTypes
<1>6. \A x \in Registers \ {"rbp", "rdi", "rsi"} : r[x] = regs[x]
  BY DEF SwitchTypes, RegisterTypes
<1>7. e \in Seq(StackWords) /\ Len(e) = 3 /\ e[1] = place /\ e[2] = regs["rbp"] /\ e[3] = DoYield
  <2>1. DoYield \in StackWords
    BY DEF StackWords
  <2> HIDE DEF place
  <2>2. QED BY <1>2, <1>4, <2>1
<1> HIDE DEF e, r, place
<1>8. /\ s \in Seq(StackWords) /\ Len(s) = 6
      /\ s[4] = place /\ s[5] = regs["rbp"] /\ s[6] = DoYield
  <2>1. /\ stack[p] \o e \in Seq(StackWords)
        /\ Len(stack[p] \o e) = Len(stack[p]) + Len(e)
        /\ \A i \in 1..(Len(stack[p]) + Len(e)) :
             (stack[p] \o e)[i] = IF i <= Len(stack[p]) THEN stack[p][i] ELSE e[i - Len(stack[p])]
    BY <1>1, <1>7, ConcatProperties
  <2>2. s = stack[p] \o e
    OBVIOUS
  <2> HIDE DEF s
  <2>3. Len(s) = 6 /\ \A i \in 1..6 : s[i] = IF i <= 3 THEN stack[p][i] ELSE e[i - 3]
    BY <1>7, <2>1, <2>2
  <2>4. s[4] = e[1] /\ s[5] = e[2] /\ s[6] = e[3]
    BY <2>3
  <2>5. QED BY <1>7, <2>1, <2>2, <2>3, <2>4
<1>9. YieldFrame(location, new) = Frame(s, r)
  BY DEF YieldFrame, e, place, r
<1> HIDE DEF s
<1>10. /\ Frame(s, r) \in Seq(StackWords) /\ Len(Frame(s, r)) = 15
       /\ \A i \in 1..6 : Frame(s, r)[i] = s[i]
       /\ Frame(s, r)[15] = Flag
  <2>1. /\ Frame(s, r) \in Seq(StackWords) /\ Len(Frame(s, r)) = Len(s) + 9
        /\ \A i \in 1..Len(s) : Frame(s, r)[i] = s[i]
        /\ Frame(s, r)[Len(s) + 9] = Flag
    BY <1>5, <1>8, FrameIs
  <2>2. Len(s) + 9 = 15
    BY <1>8
  <2>3. QED BY <1>8, <2>1, <2>2
<1>11. \A x \in Registers : Restored(Frame(s, r))[x] = r[x]
  BY <1>5, <1>8, RestoresSaved
<1>12. QED BY <1>2, <1>6, <1>8, <1>9, <1>10, <1>11

\* Two stacks change, the third does not.
LEMMA TwoChange ==
  ASSUME NEW S, NEW st \in [{0, 1, 2} -> S], NEW a \in {0, 1, 2}, NEW b \in {0, 1, 2},
         a # b, NEW x \in S, NEW y \in S
  PROVE  LET new == [st EXCEPT ![a] = x, ![b] = y] IN
         /\ new \in [{0, 1, 2} -> S] /\ new[a] = x /\ new[b] = y
         /\ \A c \in {0, 1, 2} \ {a, b} : new[c] = st[c]
OBVIOUS

\* The first three words of a stack that can be resumed.
LEMMA ThreeWords ==
  ASSUME SwitchTypes, NEW q \in Processes, Resumes(q)
  PROVE  SubSeq(stack[q], 1, 3) \in Seq(StackWords) /\ Len(SubSeq(stack[q], 1, 3)) = 3
<1>1. stack[q] \in Seq(StackWords)
  BY DEF SwitchTypes, Processes
<1>2. 3 \in 0..Len(stack[q])
  BY DEF Resumes
<1>3. QED BY <1>1, <1>2, FirstWords

\* Nothing is on the stacks at first.
LEMMA SwitchInvInit ==
  ASSUME SwitchInit
  PROVE  SwitchInv
<1>1. <<0, 0>> \in Places /\ 0 \in StackWords
  BY DEF Places, StackWords
<1>2. stack \in [{0, 1, 2} -> Seq(StackWords)] /\ regs \in RegisterTypes
  BY <1>1 DEF SwitchInit, RegisterTypes
<1>3. SwitchTypes
  BY <1>1, <1>2 DEF SwitchInit, SwitchTypes
<1>4. QED BY <1>3 DEF SwitchInit, SwitchInv, Processes

\* The stack of a new process can be switched to.
LEMMA SetupIs ==
  ASSUME NEW q \in Processes
  PROVE  LET s == setup_stack0(<<q, 1>>) IN
         s \in Seq(StackWords) /\ Len(s) = 13 /\ s[4] = <<q, 1>> /\ s[13] = Flag
<1>1. <<q, 1>> \in StackWords /\ 0 \in StackWords /\ Guard \in StackWords /\ Flag \in StackWords
  BY DEF StackWords, Places, Processes
<1>2. QED BY <1>1 DEF setup_stack0, setup_stack2

LEMMA SwitchInvLoad ==
  ASSUME SwitchInv, LoadProcesses
  PROVE  SwitchInv' /\ Loaded'
<1>1. SwitchTypes /\ current = 0
  BY DEF SwitchInv, LoadProcesses
<1> DEFINE s(q) == setup_stack0(<<q, 1>>)
<1>2. \A q \in Processes : /\ s(q) \in Seq(StackWords) /\ Len(s(q)) = 13
                           /\ s(q)[4] = <<q, 1>> /\ s(q)[13] = Flag
  BY SetupIs
<1> HIDE DEF s
<1>3. /\ stack' = [stack EXCEPT ![1] = s(1), ![2] = s(2)]
      /\ curStack' = [curStack EXCEPT ![1] = Len(stack'[1]), ![2] = Len(stack'[2])]
      /\ at' = <<0, 1>> /\ UNCHANGED <<current, regs, output, halted>>
  BY DEF LoadProcesses, s
<1>4. /\ stack' \in [{0, 1, 2} -> Seq(StackWords)]
      /\ \A q \in Processes : stack'[q] = s(q)
  BY <1>1, <1>2, <1>3 DEF SwitchTypes, Processes
<1>5. /\ curStack' \in [{0, 1, 2} -> Nat \cup {NULL}]
      /\ \A q \in Processes : curStack'[q] = Len(stack'[q])
  <2>1. Len(stack'[1]) = 13 /\ Len(stack'[2]) = 13
    BY <1>2, <1>4 DEF Processes
  <2>2. QED BY <1>1, <1>3, <2>1 DEF SwitchTypes, Processes
<1>6. at' \in Places
  BY <1>3 DEF Places
<1>7. SwitchTypes'
  BY <1>1, <1>3, <1>4, <1>5, <1>6 DEF SwitchTypes
<1>8. \A q \in Processes : Resumes(q)'
  <2> TAKE q \in Processes
  <2>1. stack'[q] = s(q) /\ s(q)[4] = <<q, 1>> /\ Len(s(q)) = 13 /\ s(q)[13] = Flag
    BY <1>2, <1>4
  <2>2. <<q, 1>> \in {q} \X Nat
    OBVIOUS
  <2>3. stack'[q][4] \in {q} \X Nat
    BY <2>1, <2>2
  <2>4. QED BY <1>5, <2>1, <2>3 DEF Resumes, Last
<1>9. QED BY <1>1, <1>3, <1>7, <1>8 DEF SwitchInv, Loaded, Processes, Home

LEMMA SwitchInvMain ==
  ASSUME SwitchInv, MainSwitches
  PROVE  SwitchInv' /\ Loaded'
<1>1. SwitchTypes /\ current = 0 /\ Resumes(1) /\ Resumes(2) /\ at = <<0, 1>>
  BY DEF SwitchInv, MainSwitches
<1> DEFINE r == [regs EXCEPT !["rdi"] = 0, !["rsi"] = curStack[1]]
           F == Frame(<<Home>>, r)
<1>2. switch_to(<<Home>>, r, 0, 1) /\ output' = output
  BY DEF MainSwitches
<1>3. r \in RegisterTypes
  <2>1. 0 \in StackWords /\ curStack[1] \in StackWords
    BY <1>1 DEF StackWords, SwitchTypes
  <2>2. QED BY <1>1, <2>1 DEF RegisterTypes, SwitchTypes
<1>4. <<Home>> \in Seq(StackWords) /\ Len(<<Home>>) = 1 /\ <<Home>>[1] = Home
  <2>1. Home \in StackWords
    BY DEF Home, StackWords, Places
  <2> HIDE DEF Home
  <2>2. QED BY <2>1
<1> HIDE DEF r
<1>5. F \in Seq(StackWords) /\ Len(F) = 10 /\ F[1] = Home /\ F[10] = Flag
  <2>1. /\ F \in Seq(StackWords) /\ Len(F) = Len(<<Home>>) + 9
        /\ \A i \in 1..Len(<<Home>>) : F[i] = <<Home>>[i]
        /\ F[Len(<<Home>>) + 9] = Flag
    BY <1>3, <1>4, FrameIs
  <2>2. Len(<<Home>>) + 9 = 10 /\ 1 \in 1..Len(<<Home>>)
    BY <1>4
  <2> HIDE DEF F
  <2>3. QED BY <1>4, <2>1, <2>2
<1>6. 1 \in Processes /\ at[1] # 1 /\ Loaded
  BY <1>1 DEF Processes, Loaded
<1>7. /\ halted' = halted /\ current' = 1 /\ at' = stack[1][4]
      /\ curStack' = [curStack EXCEPT ![0] = Len(F)]
      /\ stack' = [stack EXCEPT ![0] = F, ![1] = SubSeq(stack[1], 1, 3)]
      /\ regs' \in RegisterTypes
  <2>1. 0 # NULL
    BY SwitchAssumption
  <2>2. QED BY <1>1, <1>2, <1>6, <2>1, SwitchesTo
<1> HIDE DEF F
<1>8. SubSeq(stack[1], 1, 3) \in Seq(StackWords) /\ Len(SubSeq(stack[1], 1, 3)) = 3
  BY <1>1, <1>6, ThreeWords
<1>9. /\ stack' \in [{0, 1, 2} -> Seq(StackWords)]
      /\ stack'[0] = F /\ stack'[1] = SubSeq(stack[1], 1, 3) /\ stack'[2] = stack[2]
  <2>1. stack \in [{0, 1, 2} -> Seq(StackWords)]
    BY <1>1 DEF SwitchTypes
  <2>2. LET new == [stack EXCEPT ![0] = F, ![1] = SubSeq(stack[1], 1, 3)] IN
        /\ new \in [{0, 1, 2} -> Seq(StackWords)]
        /\ new[0] = F /\ new[1] = SubSeq(stack[1], 1, 3)
        /\ \A c \in {0, 1, 2} \ {0, 1} : new[c] = stack[c]
    BY <1>5, <1>8, <2>1, TwoChange
  <2>3. 2 \in {0, 1, 2} \ {0, 1}
    OBVIOUS
  <2>4. QED BY <1>7, <2>2, <2>3
<1>10. /\ curStack' \in [{0, 1, 2} -> Nat \cup {NULL}]
       /\ curStack'[0] = 10 /\ curStack'[2] = curStack[2] /\ curStack'[1] = curStack[1]
  BY <1>1, <1>5, <1>7 DEF SwitchTypes
<1>11. at' \in {1} \X Nat
  BY <1>1, <1>7 DEF Resumes
<1>12. at' \in Places /\ at'[1] = 1
  BY <1>11 DEF Places
<1>13. SwitchTypes'
  BY <1>1, <1>2, <1>7, <1>9, <1>10, <1>12 DEF SwitchTypes
<1>14. Resumes(2)' /\ HomeSaved'
  BY <1>1, <1>5, <1>9, <1>10 DEF Resumes, HomeSaved
<1>15. /\ Len(stack'[1]) = 3 /\ at' \notin {<<0, 0>>, <<0, 1>>} /\ 3 - 1 = 2
       /\ curStack'[1] \in {13, 15}
  <2>1. curStack[1] \in {13, 15}
    BY <1>1 DEF Resumes
  <2>2. QED BY <1>8, <1>9, <1>10, <1>12, <2>1
<1>16. ASSUME NEW p \in Processes, at'[1] = p
       PROVE  /\ current' = p /\ Len(stack'[p]) = 3 /\ curStack'[p] \in {13, 15}
              /\ Resumes(3 - p)' /\ HomeSaved'
  <2>1. p = 1
    BY <1>12, <1>16
  <2>2. QED BY <1>7, <1>14, <1>15, <2>1
<1>17. QED BY <1>12, <1>13, <1>15, <1>16 DEF SwitchInv, Loaded

\* One process hands over to the other.
LEMMA YieldIs ==
  ASSUME SwitchInv, NEW p \in Processes, at[1] = p, Yield(p, 3 - p)
  PROVE  /\ SwitchTypes /\ Loaded /\ 3 - p \in Processes /\ at[1] # 3 - p
         /\ p # 3 - p /\ p \in {0, 1, 2} \ {0} /\ 3 - p \in {0, 1, 2} \ {0}
         /\ current = p /\ Len(stack[p]) = 3 /\ Resumes(3 - p) /\ HomeSaved
         /\ halted' = halted /\ current' = 3 - p /\ at' = stack[3 - p][4]
         /\ at' \in {3 - p} \X Nat /\ at'[1] = 3 - p
         /\ curStack' = [curStack EXCEPT ![p] = 15]
         /\ stack' \in [{0, 1, 2} -> Seq(StackWords)]
         /\ stack'[p] = YieldFrame(p, 3 - p)
         /\ stack'[3 - p] = SubSeq(stack[3 - p], 1, 3) /\ stack'[0] = stack[0]
         /\ regs' \in RegisterTypes
         /\ \A x \in Used : regs'[x] = OwnRegisters(3 - p)[x]
<1> DEFINE q == 3 - p
<1>1. SwitchTypes /\ current = p /\ Len(stack[p]) = 3 /\ Resumes(q) /\ HomeSaved
  BY DEF SwitchInv
<1>2. /\ q \in Processes /\ p # q /\ at[1] # q /\ p \in {0, 1, 2} \ {0} /\ q \in {0, 1, 2} \ {0}
      /\ p \in Nat /\ q \in {0, 1, 2} /\ p \in {0, 1, 2}
  BY DEF Processes
<1>3. Loaded
  BY <1>2 DEF Loaded
<1> DEFINE F == YieldFrame(p, q)
<1>4. F \in Seq(StackWords) /\ Len(F) = 15
  <2>1. p \in {NULL} \cup Nat
    BY <1>2
  <2>2. QED BY <1>1, <1>2, <2>1, YieldFrameIs, ZenonT(60)
<1>5. p # NULL
  BY <1>2, SwitchAssumption
<1> HIDE DEF q
<1>6. /\ halted' = halted /\ current' = q /\ at' = stack[q][4]
      /\ curStack' = [curStack EXCEPT ![p] = Len(F)]
      /\ stack' = [stack EXCEPT ![p] = F, ![q] = SubSeq(stack[q], 1, 3)]
      /\ regs' \in RegisterTypes
      /\ \A x \in Used : regs'[x] = OwnRegisters(q)[x]
  <2> DEFINE s == stack[current] \o <<<<at[1], at[2] + 1>>, regs["rbp"], DoYield>>
             r == [regs EXCEPT !["rbp"] = 0, !["rdi"] = p, !["rsi"] = curStack[q]]
  <2>1. switch_to(s, r, p, q)
    BY DEF Yield, q
  <2>2. F = Frame(s, r)
    BY DEF YieldFrame
  <2> HIDE DEF s, r, F
  <2>3. QED BY <1>1, <1>2, <1>3, <1>5, <2>1, <2>2, SwitchesTo
<1> HIDE DEF F
<1>7. SubSeq(stack[q], 1, 3) \in Seq(StackWords)
  BY <1>1, <1>2, ThreeWords
<1>8. /\ stack' \in [{0, 1, 2} -> Seq(StackWords)]
      /\ stack'[p] = F /\ stack'[q] = SubSeq(stack[q], 1, 3) /\ stack'[0] = stack[0]
  <2>1. stack \in [{0, 1, 2} -> Seq(StackWords)]
    BY <1>1 DEF SwitchTypes
  <2>2. LET new == [stack EXCEPT ![p] = F, ![q] = SubSeq(stack[q], 1, 3)] IN
        /\ new \in [{0, 1, 2} -> Seq(StackWords)]
        /\ new[p] = F /\ new[q] = SubSeq(stack[q], 1, 3)
        /\ \A c \in {0, 1, 2} \ {p, q} : new[c] = stack[c]
    BY <1>2, <1>4, <1>7, <2>1, TwoChange
  <2>3. 0 \in {0, 1, 2} \ {p, q}
    BY <1>2
  <2>4. QED BY <1>6, <2>2, <2>3
<1>9. at' \in {q} \X Nat
  BY <1>1, <1>6 DEF Resumes
<1>10. at'[1] = q
  BY <1>9
<1>11. QED BY <1>1, <1>2, <1>3, <1>4, <1>6, <1>8, <1>9, <1>10 DEF F, q

LEMMA SwitchInvYield ==
  ASSUME SwitchInv, NEW p \in Processes, at[1] = p, Yield(p, 3 - p), UNCHANGED output
  PROVE  SwitchInv' /\ Loaded'
<1> DEFINE q == 3 - p
           F == YieldFrame(p, q)
<1>1. /\ SwitchTypes /\ q \in Processes /\ p # q /\ p \in {0, 1, 2} \ {0} /\ q \in {0, 1, 2} \ {0}
      /\ current = p /\ Len(stack[p]) = 3 /\ Resumes(q) /\ HomeSaved
      /\ halted' = halted /\ current' = q
      /\ at' \in {q} \X Nat /\ at'[1] = q
      /\ curStack' = [curStack EXCEPT ![p] = 15]
      /\ stack' \in [{0, 1, 2} -> Seq(StackWords)]
      /\ stack'[p] = F /\ stack'[q] = SubSeq(stack[q], 1, 3) /\ stack'[0] = stack[0]
      /\ regs' \in RegisterTypes
  BY YieldIs
<1>2. /\ Len(F) = 15 /\ F[4] \in {p} \X Nat /\ F[6] = DoYield /\ F[15] = Flag
  <2>1. p \in {NULL} \cup Nat /\ q \in {0, 1, 2}
    BY DEF Processes
  <2>2. SwitchTypes /\ current = p /\ Len(stack[p]) = 3
    BY <1>1
  <2> HIDE DEF q
  <2>3. /\ Len(F) = 15 /\ F[4] = <<p, at[2] + 1>> /\ <<p, at[2] + 1>> \in {p} \X Nat
        /\ F[6] = DoYield /\ F[15] = Flag
    BY <2>1, <2>2, YieldFrameIs, ZenonT(60)
  <2> HIDE DEF F
  <2>4. QED BY <2>3
<1>3. Len(SubSeq(stack[q], 1, 3)) = 3
  BY <1>1, ThreeWords
<1> HIDE DEF F
<1>4. /\ curStack' \in [{0, 1, 2} -> Nat \cup {NULL}]
      /\ curStack'[p] = 15 /\ curStack'[0] = curStack[0] /\ curStack'[q] = curStack[q]
  BY <1>1 DEF SwitchTypes
<1>5. at' \in Places
  BY <1>1 DEF Places, Processes
<1>6. SwitchTypes'
  BY <1>1, <1>4, <1>5 DEF SwitchTypes
<1>7. Resumes(p)'
  BY <1>1, <1>2, <1>4 DEF Resumes, Last
<1>8. HomeSaved'
  BY <1>1, <1>4 DEF HomeSaved
<1>9. at'[1] # 0 /\ at' \notin {<<0, 0>>, <<0, 1>>}
  BY <1>1 DEF Processes
<1>10. ASSUME NEW x \in Processes, at'[1] = x
       PROVE  /\ current' = x /\ Len(stack'[x]) = 3 /\ curStack'[x] \in {13, 15}
              /\ Resumes(3 - x)' /\ HomeSaved'
  <2>1. x = q
    BY <1>1, <1>10
  <2>2. 3 - x = p
    BY <2>1 DEF Processes
  <2>3. current' = x /\ Len(stack'[x]) = 3
    BY <1>1, <1>3, <2>1
  <2>4. curStack'[x] \in {13, 15}
    <3>1. curStack[q] \in {13, 15}
      BY <1>1 DEF Resumes
    <3>2. QED BY <1>4, <2>1, <3>1
  <2> HIDE DEF q
  <2>5. QED BY <1>7, <1>8, <2>2, <2>3, <2>4
<1>11. QED BY <1>6, <1>9, <1>10 DEF SwitchInv, Loaded

\* A process hands over to main for good.
LEMMA ExitIs ==
  ASSUME SwitchInv, NEW p \in Processes, at[1] = p, Yield(NULL, 0)
  PROVE  /\ SwitchTypes /\ current = p /\ Len(stack[p]) = 3 /\ Resumes(3 - p)
         /\ halted' = halted /\ current' = 0 /\ at' = Home /\ curStack' = curStack
         /\ stack' \in [{0, 1, 2} -> Seq(StackWords)]
         /\ stack'[p] = YieldFrame(NULL, 0) /\ stack'[3 - p] = stack[3 - p]
         /\ regs' \in RegisterTypes
<1>1. SwitchTypes /\ current = p /\ Len(stack[p]) = 3 /\ Resumes(3 - p) /\ HomeSaved
  BY DEF SwitchInv
<1> DEFINE F == YieldFrame(NULL, 0)
           s == stack[current] \o <<<<at[1], at[2] + 1>>, regs["rbp"], DoYield>>
           r == [regs EXCEPT !["rbp"] = 0, !["rdi"] = NULL, !["rsi"] = curStack[0]]
<1>2. F \in Seq(StackWords)
  <2>1. NULL \in {NULL} \cup Nat /\ 0 \in {0, 1, 2}
    OBVIOUS
  <2>2. QED BY <1>1, <2>1, YieldFrameIs, ZenonT(60)
<1>3. switch_to(s, r, NULL, 0)
  BY DEF Yield
<1>4. F = Frame(s, r)
  BY DEF YieldFrame
<1> HIDE DEF s, r, F
<1>5. /\ halted' = halted /\ current' = 0 /\ at' = Home /\ curStack' = curStack
      /\ stack' = [stack EXCEPT ![p] = F, ![0] = SubSeq(stack[0], 1, 0)]
      /\ regs' \in RegisterTypes
  BY <1>1, <1>3, <1>4, SwitchesHome
<1>6. SubSeq(stack[0], 1, 0) \in Seq(StackWords)
  <2>1. stack[0] \in Seq(StackWords) /\ Len(stack[0]) = 10
    BY <1>1 DEF SwitchTypes, HomeSaved
  <2>2. 0 \in 0..Len(stack[0])
    BY <2>1
  <2>3. QED BY <2>1, <2>2, FirstWords
<1>7. stack' \in [{0, 1, 2} -> Seq(StackWords)] /\ stack'[p] = F /\ stack'[3 - p] = stack[3 - p]
  <2>1. stack \in [{0, 1, 2} -> Seq(StackWords)]
    BY <1>1 DEF SwitchTypes
  <2>2. p \in {0, 1, 2} /\ 0 \in {0, 1, 2} /\ p # 0 /\ 3 - p \in {0, 1, 2} \ {p, 0}
    BY DEF Processes
  <2>3. LET new == [stack EXCEPT ![p] = F, ![0] = SubSeq(stack[0], 1, 0)] IN
        /\ new \in [{0, 1, 2} -> Seq(StackWords)]
        /\ new[p] = F /\ new[0] = SubSeq(stack[0], 1, 0)
        /\ \A c \in {0, 1, 2} \ {p, 0} : new[c] = stack[c]
    BY <1>2, <1>6, <2>1, <2>2, TwoChange
  <2>4. QED BY <1>5, <2>2, <2>3
<1>8. QED BY <1>1, <1>5, <1>7 DEF F

LEMMA SwitchInvExit ==
  ASSUME SwitchInv, NEW p \in Processes, at[1] = p, Yield(NULL, 0), UNCHANGED output
  PROVE  SwitchInv' /\ Loaded'
<1>1. /\ SwitchTypes /\ halted' = halted /\ current' = 0 /\ at' = Home /\ curStack' = curStack
      /\ stack' \in [{0, 1, 2} -> Seq(StackWords)] /\ regs' \in RegisterTypes
  BY ExitIs
<1>2. Home \in Places /\ Home[1] = 0 /\ Home \notin {<<0, 0>>, <<0, 1>>}
  BY DEF Home, Places
<1>3. SwitchTypes'
  BY <1>1, <1>2 DEF SwitchTypes
<1>4. QED BY <1>1, <1>2, <1>3 DEF SwitchInv, Loaded, Processes

\* Printing and main's end move no stack.
LEMMA SwitchInvPrints ==
  ASSUME SwitchInv, NEW p \in Processes, Prints(p)
  PROVE  SwitchInv' /\ Loaded'
<1>1. SwitchTypes /\ at[1] = p /\ current = p /\ Len(stack[p]) = 3 /\ Resumes(3 - p) /\ HomeSaved
  BY DEF SwitchInv, Prints, NextCall
<1>2. /\ output' = Append(output, p) /\ at' = <<p, at[2] + 1>>
      /\ UNCHANGED <<stack, current, curStack, halted>>
  BY DEF Prints
<1>3. regs' \in RegisterTypes
  <2>1. PICK v \in [Used -> Values] :
          regs' = [r \in Registers |-> IF r \in Used THEN v[r] ELSE regs[r]]
    BY DEF Prints
  <2>2. \A r \in Used : v[r] \in StackWords
    BY SwitchAssumption DEF StackWords
  <2>3. \A r \in Registers : regs[r] \in StackWords
    BY <1>1 DEF SwitchTypes, RegisterTypes
  <2>4. QED BY <2>1, <2>2, <2>3 DEF RegisterTypes
<1>4. at' \in Places /\ at'[1] = p
  BY <1>1, <1>2 DEF SwitchTypes, Places, Processes
<1>5. output' \in Seq(Nat)
  BY <1>1, <1>2 DEF SwitchTypes, Processes
<1>6. SwitchTypes'
  BY <1>1, <1>2, <1>3, <1>4, <1>5 DEF SwitchTypes
<1>7. Resumes(3 - p)' /\ HomeSaved'
  BY <1>1, <1>2 DEF Resumes, HomeSaved
<1>8. p # 0 /\ at' \notin {<<0, 0>>, <<0, 1>>}
  BY <1>2 DEF Processes
<1>9. QED BY <1>1, <1>2, <1>4, <1>6, <1>7, <1>8 DEF SwitchInv, Loaded

LEMMA SwitchInvDone ==
  ASSUME SwitchInv, MainDone
  PROVE  SwitchInv' /\ Loaded'
<1>1. SwitchTypes /\ at' = <<0, 3>> /\ output' = Append(output, 0)
      /\ UNCHANGED <<stack, current, regs, curStack, halted>>
  BY DEF SwitchInv, MainDone
<1>2. <<0, 3>> \in Places /\ <<0, 3>>[1] = 0 /\ <<0, 3>> \notin {<<0, 0>>, <<0, 1>>}
  BY DEF Places
<1>3. output' \in Seq(Nat)
  BY <1>1 DEF SwitchTypes
<1>4. SwitchTypes'
  BY <1>1, <1>2, <1>3 DEF SwitchTypes
<1>5. QED BY <1>1, <1>2, <1>4 DEF SwitchInv, Loaded, Processes

LEMMA SwitchInvStep ==
  ASSUME SwitchInv, SwitchNext
  PROVE  SwitchInv' /\ Loaded'
<1>1. CASE LoadProcesses
  BY <1>1, SwitchInvLoad
<1>2. CASE MainSwitches
  BY <1>2, SwitchInvMain
<1>3. CASE MainDone
  BY <1>3, SwitchInvDone
<1>4. CASE do_yield12
  <2>1. 1 \in Processes /\ at[1] = 1 /\ Yield(1, 3 - 1) /\ UNCHANGED output
    BY <1>4 DEF do_yield12, NextCall, Processes
  <2>2. QED BY <2>1, SwitchInvYield
<1>5. CASE do_yield21
  <2>1. 2 \in Processes /\ at[1] = 2 /\ Yield(2, 3 - 2) /\ UNCHANGED output
    BY <1>5 DEF do_yield21, NextCall, Processes
  <2>2. QED BY <2>1, SwitchInvYield
<1>6. ASSUME NEW p \in Processes, Prints(p) PROVE SwitchInv' /\ Loaded'
  BY <1>6, SwitchInvPrints
<1>7. ASSUME NEW p \in Processes, do_uexit(p) PROVE SwitchInv' /\ Loaded'
  <2>1. at[1] = p /\ Yield(NULL, 0) /\ UNCHANGED output
    BY <1>7 DEF do_uexit, NextCall
  <2>2. QED BY <2>1, SwitchInvExit
<1>8. QED BY <1>1, <1>2, <1>3, <1>4, <1>5, <1>6, <1>7 DEF SwitchNext

LEMMA SwitchInvStutter ==
  ASSUME SwitchInv, UNCHANGED wvars
  PROVE  SwitchInv'
BY DEF SwitchInv, SwitchTypes, Resumes, HomeSaved, wvars

-----------------------------------------------------------------------------
(* The coroutines *)

\* A process that can be resumed is at the place on its stack, with the registers
\* there.
SuspendedThere ==
  \A q \in Processes : SwitchTypes /\ Resumes(q) /\ Loaded /\ at[1] # q =>
    /\ PlaceOf(q) = stack[q][4][2]
    /\ Len(stack[q]) = 13 => OwnRegisters(q) = [x \in Used |-> Restored(stack[q])[x]]
    /\ Len(stack[q]) = 15 =>
         OwnRegisters(q) = [x \in Used |-> [Restored(stack[q]) EXCEPT !["rbp"] = stack[q][5]][x]]

LEMMA SuspendedView == SuspendedThere
<1> SUFFICES ASSUME NEW q \in Processes, SwitchTypes, Resumes(q), Loaded, at[1] # q
             PROVE  /\ PlaceOf(q) = stack[q][4][2]
                    /\ Len(stack[q]) = 13 =>
                         OwnRegisters(q) = [x \in Used |-> Restored(stack[q])[x]]
                    /\ Len(stack[q]) = 15 =>
                         OwnRegisters(q)
                           = [x \in Used |-> [Restored(stack[q]) EXCEPT !["rbp"] = stack[q][5]][x]]
  BY DEF SuspendedThere
<1>1. QED BY ResumedIs

\* A running one is where the processor is.
RunningThere ==
  \A p \in Processes : at[1] = p =>
    PlaceOf(p) = at[2] /\ OwnRegisters(p) = [x \in Used |-> regs[x]]

LEMMA RunningView == RunningThere
<1> SUFFICES ASSUME NEW p \in Processes, at[1] = p
             PROVE  PlaceOf(p) = at[2] /\ OwnRegisters(p) = [x \in Used |-> regs[x]]
  BY DEF RunningThere
<1>1. Loaded
  BY DEF Loaded, Processes
<1>2. QED BY <1>1 DEF PlaceOf, OwnRegisters

\* One that has exited stays at its end, whether it has ever yielded or not.
ExitedThere ==
  \A p \in Processes :
    \A place \in {p} \X Nat :
      /\ Loaded /\ at[1] # p /\ stack[p] \in Seq(StackWords) /\ Len(stack[p]) = 15
      /\ curStack[p] \in {13, 15} /\ stack[p][4] = place /\ stack[p][6] = DoYield
      => PlaceOf(p) = place[2]

LEMMA ExitedView == ExitedThere
<1> SUFFICES ASSUME NEW p \in Processes, NEW place \in {p} \X Nat,
                    Loaded, at[1] # p, stack[p] \in Seq(StackWords), Len(stack[p]) = 15,
                    curStack[p] \in {13, 15}, stack[p][4] = place, stack[p][6] = DoYield
             PROVE  PlaceOf(p) = place[2]
  BY DEF ExitedThere
<1> DEFINE s == SubSeq(stack[p], 1, curStack[p])
<1>1. place # DoYield
  <2>1. place \in {0, 1, 2} \X Nat
    BY DEF Processes
  <2>2. QED BY <2>1, SwitchAssumption
<1>2. curStack[p] \in 0..Len(stack[p])
  OBVIOUS
<1>3. /\ s \in Seq(StackWords) /\ Len(s) = curStack[p]
      /\ \A i \in 1..curStack[p] : s[i] = stack[p][i]
  BY <1>2, FirstWords
<1>4. Suspended(p) = s
  BY DEF Suspended
<1> HIDE DEF s
<1>5. s[4] = place /\ s[6] = DoYield
  <2>1. 4 \in 1..curStack[p] /\ 6 \in 1..curStack[p]
    OBVIOUS
  <2>2. QED BY <1>3, <2>1
<1>6. CASE curStack[p] = 13
  <2>1. ReturnAddress(s) = place
    BY <1>3, <1>5, <1>6, PopsPushes DEF ReturnAddress
  <2>2. ~HasYielded(p)
    BY <1>1, <1>4, <2>1 DEF HasYielded
  <2>3. QED BY <1>4, <2>1, <2>2 DEF PlaceOf
<1>7. CASE curStack[p] = 15
  <2>1. ReturnAddress(s) = DoYield
    BY <1>3, <1>5, <1>7, PopsPushes DEF ReturnAddress
  <2>2. HasYielded(p)
    BY <1>4, <2>1 DEF HasYielded
  <2>3. Caller(s) = SubSeq(s, 1, 5)
    BY <1>3, <1>7, PopsPushes DEF Caller
  <2>4. Caller(s)[4] = place
    <3>1. 5 \in 0..Len(s) /\ 4 \in 1..5
      BY <1>3, <1>7
    <3>2. \A i \in 1..5 : SubSeq(s, 1, 5)[i] = s[i]
      BY <1>3, <3>1, FirstWords
    <3>3. QED BY <1>5, <2>3, <3>1, <3>2
  <2>5. QED BY <1>4, <2>2, <2>4 DEF PlaceOf
<1>8. QED BY <1>6, <1>7

\* What the program has printed tells how far it is.
OutputInv ==
  /\ at \in {<<0, 0>>, <<0, 1>>} => output = <<>>
  /\ at = <<0, 1>> => stack[1][4] = <<1, 1>>
  /\ output = <<>> => at \in {<<0, 0>>, <<0, 1>>, <<1, 1>>}
  /\ at # <<0, 3>> => \A i \in DOMAIN output : output[i] # 0

\* The coroutines begin as they should.
LEMMA CoroutinesInit ==
  ASSUME SwitchInit
  PROVE  Routines!CInit /\ OutputInv
<1>1. at = <<0, 0>> /\ at[1] = 0 /\ output = <<>> /\ ~Loaded
  BY DEF SwitchInit, Loaded
<1>2. \A p \in Processes : PlaceOf(p) = 1 /\ OwnRegisters(p) = [r \in Used |-> 0]
  BY <1>1 DEF PlaceOf, OwnRegisters
<1>3. OutputInv
  BY <1>1 DEF OutputInv
<1>4. QED BY <1>1, <1>2, <1>3 DEF Routines!CInit, Processes

\* Loading is not seen.
LEMMA LoadStutters ==
  ASSUME SwitchInv, OutputInv, LoadProcesses
  PROVE  /\ UNCHANGED <<at[1], output>>
         /\ \A p \in Processes : UNCHANGED <<PlaceOf(p), OwnRegisters(p)>>
         /\ OutputInv'
<1>1. SwitchInv'
  BY SwitchInvLoad
<1>2. ~Loaded /\ at' = <<0, 1>> /\ output' = output /\ at[1] = 0 /\ output = <<>>
  BY DEF LoadProcesses, Loaded, OutputInv
<1>3. Loaded' /\ at'[1] = 0
  BY <1>2 DEF Loaded
<1>4. \A p \in Processes : PlaceOf(p) = 1 /\ OwnRegisters(p) = [x \in Used |-> 0]
  BY <1>2 DEF PlaceOf, OwnRegisters
<1>5. ASSUME NEW q \in Processes
      PROVE  /\ PlaceOf(q)' = 1 /\ OwnRegisters(q)' = [x \in Used |-> 0]
             /\ stack'[q][4] = <<q, 1>>
  <2> DEFINE s == setup_stack0(<<q, 1>>)
  <2>1. stack'[q] = s
    <3>1. stack' = [stack EXCEPT ![1] = setup_stack0(<<1, 1>>), ![2] = setup_stack0(<<2, 1>>)]
      BY DEF LoadProcesses
    <3>2. stack \in [{0, 1, 2} -> Seq(StackWords)]
      BY DEF SwitchInv, SwitchTypes
    <3> HIDE DEF s
    <3>3. QED BY <3>1, <3>2 DEF Processes, s
  <2>2. Len(s) = 13 /\ s[4] = <<q, 1>>
    BY SetupIs
  <2>3. \A i \in 1..8 : s[13 - i] = 0
    <3>1. s = <<Guard, Guard, Guard, <<q, 1>>, 0, 0, 0, 0, 0, 0, 0, 0, Flag>>
      BY DEF setup_stack0, setup_stack2
    <3> HIDE DEF s
    <3>2. /\ s[5] = 0 /\ s[6] = 0 /\ s[7] = 0 /\ s[8] = 0
          /\ s[9] = 0 /\ s[10] = 0 /\ s[11] = 0 /\ s[12] = 0
      BY <3>1
    <3>3. \A j \in 5..12 : j = 5 \/ j = 6 \/ j = 7 \/ j = 8 \/ j = 9 \/ j = 10 \/ j = 11 \/ j = 12
      OBVIOUS
    <3>4. \A i \in 1..8 : 13 - i \in 5..12
      OBVIOUS
    <3>5. QED BY <3>2, <3>3, <3>4
  <2> HIDE DEF s
  <2>4. SuspendedThere'
    BY SuspendedView, PTL
  <2>5. SwitchTypes' /\ Resumes(q)' /\ at'[1] # q
    BY <1>1, <1>2, <1>3 DEF SwitchInv, Processes
  <2>6. /\ PlaceOf(q)' = stack'[q][4][2]
        /\ OwnRegisters(q)' = [y \in Used |-> Restored(stack'[q])[y]]
    BY <1>3, <2>1, <2>2, <2>4, <2>5 DEF SuspendedThere
  <2>7. \A y \in Used : Restored(s)[y] = 0
    <3> SUFFICES ASSUME NEW y \in Used PROVE Restored(s)[y] = 0
      OBVIOUS
    <3> DEFINE i == CHOOSE i \in DOMAIN Popped : Popped[i] = y
    <3>1. y \in Registers
      BY SwitchAssumption
    <3>2. i \in 1..8
      BY <3>1, PopsPushes
    <3>3. Restored(s)[y] = s[Len(s) - i]
      BY <3>1 DEF Restored
    <3> HIDE DEF i
    <3>4. QED BY <2>2, <2>3, <3>2, <3>3
  <2>8. QED BY <2>1, <2>2, <2>6, <2>7
<1>6. OutputInv'
  <2>1. stack'[1][4] = <<1, 1>>
    BY <1>5 DEF Processes
  <2>2. QED BY <1>2, <2>1 DEF OutputInv
<1>7. QED BY <1>2, <1>3, <1>4, <1>5, <1>6

\* main hands over to process 1, which is at its first call.
LEMMA MainStarts ==
  ASSUME SwitchInv, OutputInv, MainSwitches
  PROVE  Routines!Starts /\ OutputInv'
<1> DEFINE r == [regs EXCEPT !["rdi"] = 0, !["rsi"] = curStack[1]]
<1>1. /\ SwitchTypes /\ at = <<0, 1>> /\ at[1] = 0 /\ Loaded /\ current = 0
      /\ Resumes(1) /\ Resumes(2) /\ output = <<>> /\ stack[1][4] = <<1, 1>>
      /\ switch_to(<<Home>>, r, 0, 1) /\ output' = output
  BY DEF SwitchInv, OutputInv, MainSwitches, Loaded
<1>2. 1 \in Processes /\ 2 \in Processes /\ at[1] # 1 /\ at[1] # 2
  BY <1>1 DEF Processes
<1> HIDE DEF r
<1>3. /\ at' = <<1, 1>>
      /\ \E F : /\ curStack' = [curStack EXCEPT ![0] = Len(F)]
                /\ stack' = [stack EXCEPT ![0] = F, ![1] = SubSeq(stack[1], 1, 3)]
      /\ \A x \in Used : regs'[x] = OwnRegisters(1)[x]
  <2>1. 0 # NULL
    BY SwitchAssumption
  <2>2. QED BY <1>1, <1>2, <2>1, SwitchesTo
<1>4. stack'[2] = stack[2] /\ curStack'[2] = curStack[2] /\ at'[1] = 1 /\ at'[2] = 1 /\ Loaded'
  BY <1>1, <1>3 DEF SwitchTypes, Loaded
<1>5. PlaceOf(1)' = PlaceOf(1) /\ OwnRegisters(1)' = OwnRegisters(1)
  <2>1. RunningThere'
    BY RunningView, PTL
  <2>2. PlaceOf(1)' = 1 /\ OwnRegisters(1)' = [x \in Used |-> regs'[x]]
    BY <1>2, <1>4, <2>1 DEF RunningThere
  <2>3. PlaceOf(1) = 1
    BY <1>1, <1>2, ResumedIs
  <2>4. OwnRegisters(1) = [x \in Used |-> OwnRegisters(1)[x]]
    BY DEF OwnRegisters
  <2>5. [x \in Used |-> regs'[x]] = [x \in Used |-> OwnRegisters(1)[x]]
    BY <1>3
  <2>6. QED BY <2>2, <2>3, <2>4, <2>5
<1>6. PlaceOf(2)' = PlaceOf(2) /\ OwnRegisters(2)' = OwnRegisters(2)
  <2>1. Suspended(2)' = Suspended(2)
    BY <1>4 DEF Suspended
  <2>2. HasYielded(2)' = HasYielded(2)
    BY <2>1 DEF HasYielded
  <2>3. at'[1] # 2
    BY <1>4
  <2>4. PlaceOf(2)' = PlaceOf(2)
    BY <1>1, <1>2, <1>4, <2>1, <2>2, <2>3 DEF PlaceOf
  <2>5. OwnRegisters(2)' = OwnRegisters(2)
    BY <1>1, <1>2, <1>4, <2>1, <2>2, <2>3 DEF OwnRegisters
  <2>6. QED BY <2>4, <2>5
<1>7. OutputInv'
  BY <1>1, <1>3 DEF OutputInv
<1>8. Routines!Starts
  <2>1. \A p \in Processes : p = 1 \/ p = 2
    BY DEF Processes
  <2>2. \A p \in Processes : PlaceOf(p)' = PlaceOf(p) /\ OwnRegisters(p)' = OwnRegisters(p)
    BY <1>5, <1>6, <2>1
  <2>3. QED BY <1>1, <1>4, <2>2 DEF Routines!Starts
<1>9. QED BY <1>7, <1>8

\* Until it has printed, process 1 is at its first call, which prints.
LEMMA PrintedBefore ==
  ASSUME PrintsFirst, OutputInv, NEW p \in Processes, NEW call, call # "print",
         NextCall(p, call)
  PROVE  output # <<>> /\ \A i \in DOMAIN output : output[i] # 0
<1>1. at[1] = p /\ at[1] # 0
  BY DEF NextCall, Processes
<1>2. SUFFICES ASSUME output = <<>> PROVE FALSE
  BY <1>1 DEF OutputInv
<1>3. at = <<1, 1>>
  BY <1>1, <1>2 DEF OutputInv
<1>4. p = 1 /\ Program[1][1] = call
  BY <1>1, <1>3 DEF NextCall
<1>5. QED BY <1>4 DEF PrintsFirst

\* A yield hands over, and the other goes on where it stopped, with its registers.
LEMMA YieldYields ==
  ASSUME PrintsFirst, SwitchInv, OutputInv, NEW p \in Processes, NextCall(p, "yield"),
         Yield(p, 3 - p), UNCHANGED output
  PROVE  Routines!Yields(p) /\ OutputInv'
<1> DEFINE q == 3 - p
           F == YieldFrame(p, q)
<1>1. /\ at[1] = p /\ at[2] \in DOMAIN Program[p] /\ Program[p][at[2]] = "yield"
  BY DEF NextCall
<1>2. /\ SwitchTypes /\ Loaded /\ q \in Processes /\ at[1] # q
      /\ p # q /\ p \in {0, 1, 2} \ {0} /\ q \in {0, 1, 2} \ {0}
      /\ current = p /\ Len(stack[p]) = 3 /\ Resumes(q) /\ HomeSaved
      /\ at' = stack[q][4] /\ at'[1] = q /\ at' \in {q} \X Nat
      /\ curStack' = [curStack EXCEPT ![p] = 15]
      /\ stack'[p] = F
      /\ \A x \in Used : regs'[x] = OwnRegisters(q)[x]
  BY <1>1, YieldIs
<1>3. /\ Len(F) = 15 /\ F[4] = <<p, at[2] + 1>> /\ F[5] = regs["rbp"]
      /\ \A x \in Registers \ {"rbp", "rdi", "rsi"} : Restored(F)[x] = regs[x]
  <2>1. p \in {NULL} \cup Nat /\ q \in {0, 1, 2}
    BY DEF Processes
  <2>2. SwitchTypes /\ current = p /\ Len(stack[p]) = 3
    BY <1>2
  <2> HIDE DEF q
  <2>3. at[1] = p
    BY <1>1
  <2>4. QED BY <2>1, <2>2, <2>3, YieldFrameIs, ZenonT(60)
<1>4. SwitchInv'
  BY <1>1, SwitchInvYield
<1>5. 3 - q = p
  BY DEF Processes
<1> HIDE DEF F, q
<1>6. Resumes(p)' /\ SwitchTypes' /\ Loaded' /\ at'[1] # p
  <2>1. Resumes(3 - q)' /\ SwitchTypes'
    BY <1>2, <1>4 DEF SwitchInv
  <2>2. Loaded'
    BY <1>2 DEF Loaded
  <2>3. QED BY <1>2, <1>5, <2>1, <2>2
<1>7. PlaceOf(p) = at[2] /\ OwnRegisters(p) = [x \in Used |-> regs[x]]
  BY <1>1, RunningView DEF RunningThere
<1>8. /\ PlaceOf(p)' = at[2] + 1
      /\ OwnRegisters(p)' = [x \in Used |-> [Restored(F) EXCEPT !["rbp"] = F[5]][x]]
  <2>1. SuspendedThere'
    BY SuspendedView, PTL
  <2>2. F[4][2] = at[2] + 1
    BY <1>3
  <2>3. QED BY <1>2, <1>3, <1>6, <2>1, <2>2 DEF SuspendedThere
<1>9. OwnRegisters(p)' = OwnRegisters(p)
  <2>1. ASSUME NEW x \in Used PROVE [Restored(F) EXCEPT !["rbp"] = F[5]][x] = regs[x]
    <3>1. x \in Registers /\ x # "rsi" /\ x # "rdi" /\ DOMAIN Restored(F) = Registers
      BY SwitchAssumption DEF Restored
    <3>2. CASE x = "rbp"
      BY <1>3, <3>1, <3>2
    <3>3. CASE x # "rbp"
      BY <1>3, <3>1, <3>3
    <3>4. QED BY <3>2, <3>3
  <2>2. QED BY <1>7, <1>8, <2>1
<1>10. PlaceOf(q)' = PlaceOf(q) /\ OwnRegisters(q)' = OwnRegisters(q)
  <2>1. RunningThere'
    BY RunningView, PTL
  <2>2. PlaceOf(q)' = at'[2] /\ OwnRegisters(q)' = [x \in Used |-> regs'[x]]
    BY <1>2, <2>1 DEF RunningThere
  <2>3. PlaceOf(q) = stack[q][4][2]
    BY <1>2, ResumedIs
  <2>4. OwnRegisters(q) = [x \in Used |-> OwnRegisters(q)[x]]
    BY DEF OwnRegisters
  <2>5. [x \in Used |-> regs'[x]] = [x \in Used |-> OwnRegisters(q)[x]]
    BY <1>2
  <2>6. QED BY <1>2, <2>2, <2>3, <2>4, <2>5
<1>11. \A x \in Processes : x = p \/ x = q
  BY DEF Processes, q
<1>12. OutputInv'
  <2>1. output # <<>> /\ \A i \in DOMAIN output : output[i] # 0
    BY PrintedBefore
  <2>2. at' \notin {<<0, 0>>, <<0, 1>>}
    BY <1>2 DEF Processes
  <2>3. QED BY <2>1, <2>2 DEF OutputInv
<1>13. Routines!Yields(p)
  <2>1. \A x \in Processes : OwnRegisters(x)' = OwnRegisters(x)
    BY <1>9, <1>10, <1>11
  <2>2. \A x \in Processes : PlaceOf(x)' = IF x = p THEN PlaceOf(p) + 1 ELSE PlaceOf(x)
    BY <1>7, <1>8, <1>10, <1>11
  <2>3. [x \in Processes |-> PlaceOf(x)]'
          = [[x \in Processes |-> PlaceOf(x)] EXCEPT ![p] = PlaceOf(p) + 1]
    BY <2>2
  <2>4. [x \in Processes |-> PlaceOf(x)][p] = at[2]
    BY <1>7
  <2>5. Routines!Calls(p, "yield")
    BY <1>1, <1>7, <2>3, <2>4 DEF Routines!Calls
  <2>6. at'[1] = 3 - p
    BY <1>2 DEF q
  <2>7. QED BY <2>1, <2>5, <2>6 DEF Routines!Yields
<1>14. QED BY <1>12, <1>13

\* Printing is seen as it is.
LEMMA PrintsPrints ==
  ASSUME SwitchInv, OutputInv, NEW p \in Processes, Prints(p)
  PROVE  Routines!Prints(p) /\ OutputInv'
<1> DEFINE q == 3 - p
<1>1. /\ SwitchTypes /\ at[1] = p /\ at[2] \in DOMAIN Program[p] /\ Program[p][at[2]] = "print"
      /\ output' = Append(output, p) /\ at' = <<p, at[2] + 1>>
      /\ UNCHANGED <<stack, curStack>>
  BY DEF SwitchInv, Prints, NextCall
<1>2. PICK v \in [Used -> Values] :
        regs' = [r \in Registers |-> IF r \in Used THEN v[r] ELSE regs[r]]
  BY DEF Prints
<1>3. q \in Processes /\ p # q /\ p \in Nat \ {0} /\ \A x \in Processes : x = p \/ x = q
  BY DEF Processes
<1> HIDE DEF q
<1>4. Loaded /\ Loaded' /\ at'[1] = p /\ at'[2] = at[2] + 1
  BY <1>1, <1>3 DEF Loaded
<1>5. PlaceOf(p) = at[2]
  BY <1>1, RunningView DEF RunningThere
<1>6. PlaceOf(p)' = at[2] + 1 /\ OwnRegisters(p)' = v
  <2>1. RunningThere'
    BY RunningView, PTL
  <2>2. PlaceOf(p)' = at[2] + 1 /\ OwnRegisters(p)' = [x \in Used |-> regs'[x]]
    BY <1>4, <2>1 DEF RunningThere
  <2>3. \A x \in Used : regs'[x] = v[x]
    BY <1>2, SwitchAssumption
  <2>4. QED BY <2>2, <2>3
<1>7. PlaceOf(q)' = PlaceOf(q) /\ OwnRegisters(q)' = OwnRegisters(q)
  <2>1. Suspended(q)' = Suspended(q)
    BY <1>1 DEF Suspended
  <2>2. HasYielded(q)' = HasYielded(q)
    BY <2>1 DEF HasYielded
  <2>3. PlaceOf(q)' = PlaceOf(q)
    BY <1>1, <1>3, <1>4, <2>1, <2>2 DEF PlaceOf
  <2>4. OwnRegisters(q)' = OwnRegisters(q)
    BY <1>1, <1>3, <1>4, <2>1, <2>2 DEF OwnRegisters
  <2>5. QED BY <2>3, <2>4
<1>8. OutputInv'
  <2>1. output \in Seq(Nat) /\ at # <<0, 3>>
    BY <1>1, <1>3 DEF SwitchTypes
  <2>2. /\ output' # <<>> /\ Len(output') = Len(output) + 1 /\ DOMAIN output' = 1..(Len(output) + 1)
        /\ \A i \in 1..Len(output) : output'[i] = output[i]
        /\ output'[Len(output) + 1] = p /\ Len(output) \in Nat
    <3>1. p \in Nat
      BY <1>3
    <3>2. QED BY <1>1, <2>1, <3>1, AppendProperties, LenProperties
  <2>3. \A i \in DOMAIN output' : output'[i] # 0
    <3>1. \A i \in 1..Len(output) : output[i] # 0
      BY <2>1 DEF OutputInv
    <3>2. \A i \in 1..(Len(output) + 1) : i \in 1..Len(output) \/ i = Len(output) + 1
      BY <2>2
    <3>3. QED BY <1>3, <2>2, <3>1, <3>2
  <2>4. at' \notin {<<0, 0>>, <<0, 1>>}
    BY <1>3, <1>4
  <2>5. QED BY <2>2, <2>3, <2>4 DEF OutputInv
<1>9. Routines!Prints(p)
  <2>1. [x \in Processes |-> OwnRegisters(x)]' = [[x \in Processes |-> OwnRegisters(x)] EXCEPT ![p] = v]
    BY <1>3, <1>6, <1>7
  <2>2. [x \in Processes |-> PlaceOf(x)]'
          = [[x \in Processes |-> PlaceOf(x)] EXCEPT ![p] = PlaceOf(p) + 1]
    BY <1>3, <1>5, <1>6, <1>7
  <2>3. [x \in Processes |-> PlaceOf(x)][p] = at[2]
    BY <1>5
  <2>4. Routines!Calls(p, "print")
    BY <1>1, <1>5, <2>2, <2>3 DEF Routines!Calls
  <2>5. at'[1] = at[1]
    BY <1>1, <1>4
  <2>6. QED BY <1>1, <2>1, <2>4, <2>5 DEF Routines!Prints
<1>10. QED BY <1>8, <1>9

\* An exit hands over to main; the other process keeps its place and registers.
LEMMA ExitExits ==
  ASSUME PrintsFirst, SwitchInv, OutputInv, NEW p \in Processes, do_uexit(p)
  PROVE  Routines!Exits(p) /\ OutputInv'
<1> DEFINE q == 3 - p
           F == YieldFrame(NULL, 0)
<1>1. /\ NextCall(p, "uexit") /\ at[1] = p /\ at[2] \in DOMAIN Program[p]
      /\ Program[p][at[2]] = "uexit" /\ Yield(NULL, 0) /\ UNCHANGED output
  BY DEF do_uexit, NextCall
<1>2. /\ SwitchTypes /\ current = p /\ Len(stack[p]) = 3 /\ Resumes(q)
      /\ at' = Home /\ curStack' = curStack
      /\ stack' \in [{0, 1, 2} -> Seq(StackWords)]
      /\ stack'[p] = F /\ stack'[q] = stack[q]
  BY <1>1, ExitIs
<1>3. q \in Processes /\ p # q /\ p \in {0, 1, 2} \ {0} /\ \A x \in Processes : x = p \/ x = q
  BY DEF Processes
<1>4. /\ Len(F) = 15 /\ F[4] = <<p, at[2] + 1>> /\ F[4] \in {p} \X Nat /\ F[6] = DoYield
  <2>1. NULL \in {NULL} \cup Nat /\ 0 \in {0, 1, 2}
    OBVIOUS
  <2>2. /\ Len(F) = 15 /\ F[4] = <<p, at[2] + 1>> /\ <<p, at[2] + 1>> \in {p} \X Nat
        /\ F[6] = DoYield
    BY <1>1, <1>2, <2>1, YieldFrameIs, ZenonT(60)
  <2> HIDE DEF F
  <2>3. QED BY <2>2
<1>5. curStack[p] \in {13, 15}
  BY <1>1 DEF SwitchInv
<1> HIDE DEF q, F
<1>6. Loaded /\ Loaded' /\ at'[1] = 0 /\ at[1] # q /\ at'[1] # q /\ at'[1] # p
  BY <1>1, <1>2, <1>3 DEF Loaded, Home, Processes
<1>7. PlaceOf(p) = at[2]
  BY <1>1, RunningView DEF RunningThere
<1>8. PlaceOf(p)' = at[2] + 1
  <2>1. ExitedThere'
    BY ExitedView, PTL
  <2>2. stack'[p] \in Seq(StackWords)
    BY <1>2, <1>3
  <2>3. PlaceOf(p)' = F[4][2]
    BY <1>2, <1>4, <1>5, <1>6, <2>1, <2>2 DEF ExitedThere
  <2>4. F[4][2] = at[2] + 1
    BY <1>4
  <2>5. QED BY <2>3, <2>4
<1>9. PlaceOf(q)' = PlaceOf(q) /\ OwnRegisters(q)' = OwnRegisters(q)
  <2>1. Suspended(q)' = Suspended(q)
    BY <1>2 DEF Suspended
  <2>2. HasYielded(q)' = HasYielded(q)
    BY <2>1 DEF HasYielded
  <2>3. PlaceOf(q)' = PlaceOf(q)
    BY <1>6, <2>1, <2>2 DEF PlaceOf
  <2>4. OwnRegisters(q)' = OwnRegisters(q)
    BY <1>6, <2>1, <2>2 DEF OwnRegisters
  <2>5. QED BY <2>3, <2>4
<1>10. OutputInv'
  <2>1. output # <<>> /\ \A i \in DOMAIN output : output[i] # 0
    BY <1>1, PrintedBefore
  <2>2. at' \notin {<<0, 0>>, <<0, 1>>}
    BY <1>2 DEF Home
  <2>3. QED BY <1>1, <2>1, <2>2 DEF OutputInv
<1>11. Routines!Exits(p)
  <2>1. [x \in Processes |-> OwnRegisters(x)]'
          = [[x \in Processes |-> OwnRegisters(x)] EXCEPT
               ![p] = [x \in Processes |-> OwnRegisters(x)]'[p]]
    BY <1>3, <1>9
  <2>2. [x \in Processes |-> PlaceOf(x)]'
          = [[x \in Processes |-> PlaceOf(x)] EXCEPT ![p] = PlaceOf(p) + 1]
    BY <1>3, <1>7, <1>8, <1>9
  <2>3. [x \in Processes |-> PlaceOf(x)][p] = at[2]
    BY <1>7
  <2>4. Routines!Calls(p, "uexit")
    BY <1>1, <1>7, <2>2, <2>3 DEF Routines!Calls
  <2>5. QED BY <1>1, <1>6, <2>1, <2>4 DEF Routines!Exits
<1>12. QED BY <1>10, <1>11

\* main prints "done", after the processes.
LEMMA DoneDone ==
  ASSUME SwitchInv, OutputInv, MainDone
  PROVE  Routines!Done /\ OutputInv'
<1>1. /\ SwitchTypes /\ at = Home /\ at' = <<0, 3>> /\ output' = Append(output, 0)
      /\ UNCHANGED <<stack, curStack>>
  BY DEF SwitchInv, MainDone
<1>2. /\ at[1] = 0 /\ at'[1] = 0 /\ Loaded /\ Loaded' /\ at # <<0, 3>>
      /\ at \notin {<<0, 0>>, <<0, 1>>, <<1, 1>>} /\ at' \notin {<<0, 0>>, <<0, 1>>}
  BY <1>1 DEF Home, Loaded
<1>3. output # <<>> /\ \A i \in DOMAIN output : output[i] # 0
  BY <1>2 DEF OutputInv
<1>4. output \in Seq(Nat)
  BY <1>1 DEF SwitchTypes
<1>5. output[Len(output)] # 0
  <2>1. Len(output) \in DOMAIN output
    BY <1>3, <1>4, EmptySeq, LenProperties
  <2>2. QED BY <1>3, <2>1
<1>6. output' # <<>>
  BY <1>1, <1>4, AppendProperties
<1>7. \A p \in Processes : PlaceOf(p)' = PlaceOf(p) /\ OwnRegisters(p)' = OwnRegisters(p)
  <2> TAKE p \in Processes
  <2>1. p # 0
    BY DEF Processes
  <2>2. Suspended(p)' = Suspended(p)
    BY <1>1 DEF Suspended
  <2>3. HasYielded(p)' = HasYielded(p)
    BY <2>2 DEF HasYielded
  <2>4. PlaceOf(p)' = PlaceOf(p)
    BY <1>2, <2>1, <2>2, <2>3 DEF PlaceOf
  <2>5. OwnRegisters(p)' = OwnRegisters(p)
    BY <1>2, <2>1, <2>2, <2>3 DEF OwnRegisters
  <2>6. QED BY <2>4, <2>5
<1>8. OutputInv'
  BY <1>1, <1>2, <1>6 DEF OutputInv
<1>9. Routines!Done
  BY <1>1, <1>2, <1>3, <1>5, <1>7 DEF Routines!Done
<1>10. QED BY <1>8, <1>9

\* Every step of part-3 is a step of the coroutines, or none.
LEMMA CoroutinesStep ==
  ASSUME PrintsFirst, SwitchInv, OutputInv, SwitchNext
  PROVE  (Routines!CNext \/ UNCHANGED Routines!cvars) /\ OutputInv'
<1>1. CASE LoadProcesses
  <2>1. /\ UNCHANGED <<at[1], output>> /\ OutputInv'
        /\ \A p \in Processes : PlaceOf(p)' = PlaceOf(p) /\ OwnRegisters(p)' = OwnRegisters(p)
    BY <1>1, LoadStutters
  <2>2. QED BY <2>1 DEF Routines!cvars
<1>2. CASE MainSwitches
  BY <1>2, MainStarts DEF Routines!CNext
<1>3. CASE MainDone
  BY <1>3, DoneDone DEF Routines!CNext
<1>4. CASE do_yield12
  <2>1. 1 \in Processes /\ NextCall(1, "yield") /\ Yield(1, 3 - 1) /\ UNCHANGED output
    BY <1>4 DEF do_yield12, Processes
  <2>2. Routines!Yields(1) /\ OutputInv'
    BY <2>1, YieldYields
  <2>3. QED BY <2>2 DEF Routines!CNext
<1>5. CASE do_yield21
  <2>1. 2 \in Processes /\ NextCall(2, "yield") /\ Yield(2, 3 - 2) /\ UNCHANGED output
    BY <1>5 DEF do_yield21, Processes
  <2>2. Routines!Yields(2) /\ OutputInv'
    BY <2>1, YieldYields
  <2>3. QED BY <2>2 DEF Routines!CNext
<1>6. ASSUME NEW p \in Processes, Prints(p)
      PROVE  Routines!CNext /\ OutputInv'
  BY <1>6, PrintsPrints DEF Routines!CNext, Processes
<1>7. ASSUME NEW p \in Processes, do_uexit(p)
      PROVE  Routines!CNext /\ OutputInv'
  BY <1>7, ExitExits DEF Routines!CNext, Processes
<1>8. QED BY <1>1, <1>2, <1>3, <1>4, <1>5, <1>6, <1>7 DEF SwitchNext

LEMMA CoroutinesStutter ==
  ASSUME OutputInv, UNCHANGED wvars
  PROVE  UNCHANGED Routines!cvars /\ OutputInv'
<1>1. UNCHANGED <<stack, current, regs, curStack, at, output, halted>>
  BY DEF wvars
<1>2. OutputInv'
  BY <1>1 DEF OutputInv
<1>3. \A p \in Processes : PlaceOf(p)' = PlaceOf(p) /\ OwnRegisters(p)' = OwnRegisters(p)
  BY <1>1 DEF PlaceOf, OwnRegisters, Loaded, HasYielded, Suspended
<1>4. QED BY <1>1, <1>2, <1>3 DEF Routines!cvars

-----------------------------------------------------------------------------
(* Reading a line *)

Bytes == STRING \cup {Nul}

\* The buffer as split gets it and leaves it.
Buffers == {b \in Seq(Bytes) : Len(b) = BufLen /\ Last(b) = Nul}

LEMMA BufferIs ==
  ASSUME NEW b \in Buffers
  PROVE  /\ b \in Seq(Bytes) /\ Len(b) \in Nat /\ Len(b) >= 1 /\ Len(b) = BufLen
         /\ DOMAIN b = 1..Len(b) /\ b[Len(b)] = Nul /\ Nul \notin Blanks
<1>1. b \in Seq(Bytes) /\ Len(b) = BufLen /\ b[Len(b)] = Nul
  BY DEF Buffers, Last
<1>2. Len(b) \in Nat /\ DOMAIN b = 1..Len(b)
  BY <1>1, LenProperties
<1>3. Nul \notin Blanks
  BY DEF Nul, Blanks, Newline
<1>4. BufLen \in Nat \ {0}
  BY ShellAssumption
<1>5. QED BY <1>1, <1>2, <1>3, <1>4

\* What is on the console, if anything: the rest of the last line.
ConsoleInv ==
  \/ console = <<>>
  \/ /\ line \in Lines
     /\ \E k \in 1..Len(line) : console = SubSeq(line, k, Len(line))

LEMMA LineIs ==
  ASSUME NEW l \in Lines
  PROVE  l \in Seq(Bytes) /\ Len(l) \in Nat /\ Len(l) >= 1 /\ l[Len(l)] = Newline
<1>1. l \in Seq(Bytes) /\ l # <<>> /\ Last(l) = Newline
  <2>1. l \in Seq(STRING) /\ l # <<>> /\ Last(l) = Newline
    BY ShellAssumption
  <2>2. l \in Seq(Bytes)
    BY <2>1, SeqMonotonic DEF Bytes
  <2>3. QED BY <2>1, <2>2
<1>2. Len(l) \in Nat /\ Len(l) # 0
  BY <1>1, EmptySeq, LenProperties
<1>3. QED BY <1>1, <1>2 DEF Last

LEMMA ConsoleIs ==
  ASSUME ConsoleInv, console # <<>>
  PROVE  /\ console \in Seq(Bytes) /\ Len(console) \in Nat /\ Len(console) >= 1
         /\ console[Len(console)] = Newline
<1>1. PICK k \in 1..Len(line) : console = SubSeq(line, k, Len(line))
  BY DEF ConsoleInv
<1>2. /\ line \in Seq(Bytes) /\ Len(line) \in Nat /\ Len(line) >= 1
      /\ line[Len(line)] = Newline
  BY LineIs DEF ConsoleInv
<1> DEFINE L == Len(line)
<1>3. \A i \in k..L : line[i] \in Bytes
  <2>1. \A i \in k..L : i \in 1..Len(line)
    BY <1>2
  <2>2. QED BY <1>2, <2>1, ElementOfSeq
<1> HIDE DEF L
<1>4. L \in Nat /\ k \in 1..L
  BY <1>2 DEF L
<1>5. /\ SubSeq(line, k, L) \in Seq(Bytes)
      /\ Len(SubSeq(line, k, L)) = IF k <= L THEN L - k + 1 ELSE 0
      /\ \A i \in 1..(L - k + 1) : SubSeq(line, k, L)[i] = line[k + i - 1]
  BY <1>3, <1>4, SubSeqProperties
<1>6. Len(console) = L - k + 1 /\ console \in Seq(Bytes)
  BY <1>1, <1>4, <1>5 DEF L
<1>7. L - k + 1 \in 1..(L - k + 1) /\ k + (L - k + 1) - 1 = L
  BY <1>4
<1>8. console[L - k + 1] = line[L]
  BY <1>1, <1>5, <1>7 DEF L
<1>9. QED BY <1>2, <1>4, <1>6, <1>8 DEF L

\* The number of characters do_readline takes.
LEMMA CharsReadIs ==
  ASSUME ConsoleInv, console # <<>>
  PROVE  /\ CharsRead \in 1..Len(console) /\ CharsRead <= BufLen
         /\ CharsRead = BufLen \/ console[CharsRead] = Newline
         /\ \A i \in 1..(CharsRead - 1) : console[i] # Newline
<1>1. /\ console \in Seq(Bytes) /\ Len(console) \in Nat /\ Len(console) >= 1
      /\ console[Len(console)] = Newline /\ DOMAIN console = 1..Len(console)
  BY ConsoleIs, LenProperties
<1>2. BufLen \in Nat \ {0}
  BY ShellAssumption
<1> DEFINE N == {i \in DOMAIN console : console[i] = Newline}
           n == Min(N)
<1>3. n \in N /\ \A i \in N : n <= i
  <2>1. N \in SUBSET (1..Len(console)) /\ Len(console) \in N
    BY <1>1
  <2>2. 1 \in Nat
    OBVIOUS
  <2> HIDE DEF N
  <2>3. QED BY <1>1, <2>1, <2>2, LeastIn
<1>4. n \in 1..Len(console) /\ console[n] = Newline
  BY <1>1, <1>3
<1>5. \A i \in 1..(n - 1) : console[i] # Newline
  <2> SUFFICES ASSUME NEW i \in 1..(n - 1), console[i] = Newline PROVE FALSE
    OBVIOUS
  <2>1. i \in 1..Len(console) /\ ~(n <= i)
    BY <1>1, <1>4
  <2>2. i \in N
    BY <1>1, <2>1
  <2>3. QED BY <1>3, <2>1, <2>2
<1> HIDE DEF n
<1>6. CharsRead = Min({BufLen, n})
  BY DEF CharsRead, n
<1>7. CharsRead \in {BufLen, n} /\ CharsRead <= BufLen /\ CharsRead <= n
  <2> DEFINE S == {BufLen, n}
  <2>1. S \in SUBSET Nat /\ S # {}
    BY <1>1, <1>2, <1>4
  <2>2. IsFiniteSet(S)
    <3>1. IsFiniteSet({BufLen}) /\ S = {BufLen} \cup {n}
      BY FS_Singleton
    <3>2. QED BY <3>1, FS_AddElement
  <2>3. Min(S) \in S /\ \A j \in S : Min(S) <= j
    <3> HIDE DEF S
    <3>1. QED BY <2>1, <2>2, LeastOf
  <2>4. QED BY <1>6, <2>3
<1>8. QED BY <1>1, <1>2, <1>4, <1>5, <1>7

\* The end of the end of a sequence.
LEMMA EndOfEnd ==
  ASSUME NEW s \in Seq(Bytes), NEW m \in 1..Len(s), NEW j \in 1..(Len(s) - m + 1)
  PROVE  SubSeq(SubSeq(s, m, Len(s)), j, Len(s) - m + 1) = SubSeq(s, m + j - 1, Len(s))
<1>1. Len(s) \in Nat
  BY LenProperties
<1> DEFINE L == Len(s)
           n == L - m + 1
<1>2. L \in 1..L /\ n \in 1..(L - m + 1) /\ m + n - 1 = L
  BY <1>1
<1>3. SubSeq(SubSeq(s, m, Len(s)), j, n) = SubSeq(s, m + j - 1, m + n - 1)
  <2> HIDE DEF n
  <2>1. n \in 1..(Len(s) - m + 1) /\ Len(s) \in 1..Len(s)
    BY <1>2
  <2>2. QED BY <2>1, SubSeqOfSubSeq
<1>4. QED BY <1>2, <1>3

\* The characters read fit into the buffer with their terminator; what is left stays
\* the end of the line.
LEMMA ReadLine ==
  ASSUME ConsoleInv, do_readline
  PROVE  /\ ReadBuffer \in Seq(Bytes) /\ Len(ReadBuffer) \in 1..BufLen
         /\ ReadBuffer[Len(ReadBuffer)] = Nul
         /\ Len(ReadBuffer) = IF CharsRead = BufLen THEN CharsRead ELSE CharsRead + 1
         /\ \A i \in 1..(Len(ReadBuffer) - 1) : ReadBuffer[i] = console[i]
         /\ UNCHANGED line => ConsoleInv'
<1>1. console # <<>> /\ console' = SubSeq(console, CharsRead + 1, Len(console))
  BY DEF do_readline
<1>2. /\ console \in Seq(Bytes) /\ Len(console) \in Nat /\ Len(console) >= 1
  BY <1>1, ConsoleIs
<1> DEFINE c == CharsRead
<1>3. c \in 1..Len(console) /\ c <= BufLen
  BY <1>1, CharsReadIs
<1>4. BufLen \in Nat \ {0}
  BY ShellAssumption
<1> DEFINE k == IF c = BufLen THEN BufLen - 1 ELSE c
           t == SubSeq(console, 1, k)
<1>5. ReadBuffer = Append(t, Nul)
  BY DEF ReadBuffer
<1> HIDE DEF c
<1>6. k \in 0..Len(console) /\ k + 1 = (IF c = BufLen THEN c ELSE c + 1) /\ k + 1 \in 1..BufLen
  BY <1>2, <1>3, <1>4
<1> HIDE DEF k
<1>7. /\ t \in Seq(Bytes) /\ Len(t) = k /\ \A i \in 1..k : t[i] = console[i]
  <2>1. \A i \in 1..k : console[i] \in Bytes
    <3>1. \A i \in 1..k : i \in 1..Len(console)
      BY <1>2, <1>6
    <3>2. QED BY <1>2, <3>1, ElementOfSeq
  <2>2. k \in Int /\ 1 \in Int /\ (1 <= k \/ k = 0)
    BY <1>6
  <2>3. /\ SubSeq(console, 1, k) \in Seq(Bytes)
        /\ Len(SubSeq(console, 1, k)) = IF 1 <= k THEN k - 1 + 1 ELSE 0
        /\ \A i \in 1..(k - 1 + 1) : SubSeq(console, 1, k)[i] = console[1 + i - 1]
    BY <2>1, <2>2, SubSeqProperties
  <2>4. \A i \in 1..k : i \in 1..(k - 1 + 1) /\ 1 + i - 1 = i
    BY <2>2
  <2>5. QED BY <2>2, <2>3, <2>4
<1> HIDE DEF t
<1>8. /\ ReadBuffer \in Seq(Bytes) /\ Len(ReadBuffer) = k + 1
      /\ ReadBuffer[k + 1] = Nul /\ \A i \in 1..k : ReadBuffer[i] = t[i]
  <2>1. Nul \in Bytes
    BY DEF Bytes
  <2>2. /\ Append(t, Nul) \in Seq(Bytes) /\ Len(Append(t, Nul)) = Len(t) + 1
        /\ \A i \in 1..Len(t) : Append(t, Nul)[i] = t[i]
        /\ Append(t, Nul)[Len(t) + 1] = Nul
    <3> HIDE DEF Nul
    <3>1. QED BY <1>7, <2>1, AppendProperties
  <2>3. QED BY <1>5, <1>7, <2>2
<1>10. Len(ReadBuffer) \in 1..BufLen /\ ReadBuffer[Len(ReadBuffer)] = Nul
  BY <1>6, <1>8
<1>11. ASSUME UNCHANGED line PROVE ConsoleInv'
  <2>1. PICK m \in 1..Len(line) : console = SubSeq(line, m, Len(line))
    BY <1>1 DEF ConsoleInv
  <2>2. line \in Lines /\ line \in Seq(Bytes) /\ Len(line) \in Nat
    BY <1>1, LineIs DEF ConsoleInv
  <2>3. Len(console) = Len(line) - m + 1
    <3>1. \A i \in m..Len(line) : line[i] \in Bytes
      <4>1. \A i \in m..Len(line) : i \in 1..Len(line)
        BY <2>2
      <4>2. QED BY <2>2, <4>1, ElementOfSeq
    <3>2. Len(SubSeq(line, m, Len(line))) = IF m <= Len(line) THEN Len(line) - m + 1 ELSE 0
      BY <2>2, <3>1, SubSeqProperties
    <3>3. QED BY <2>1, <2>2, <3>2
  <2>4. CASE c = Len(console)
    <3>1. c + 1 \in Int /\ Len(console) \in Int /\ Len(console) < c + 1
      BY <1>2, <1>3, <2>4
    <3>2. SubSeq(console, c + 1, Len(console)) = <<>>
      BY <3>1, SubSeqEmpty
    <3>3. console' = <<>>
      BY <1>1, <3>2 DEF c
    <3>4. QED BY <3>3 DEF ConsoleInv
  <2>5. CASE c # Len(console)
    <3> DEFINE L == Len(line)
               n == Len(console)
    <3>1. /\ L \in Nat /\ n = L - m + 1 /\ m \in 1..L /\ L \in 1..L
          /\ c + 1 \in 1..(L - m + 1) /\ n \in 1..(L - m + 1)
          /\ m + (c + 1) - 1 \in 1..L /\ m + n - 1 = L
      BY <1>2, <1>3, <2>2, <2>3, <2>5
    <3>2. SubSeq(SubSeq(line, m, L), c + 1, n) = SubSeq(line, m + (c + 1) - 1, L)
      <4> DEFINE j == c + 1
      <4>1. j \in 1..(Len(line) - m + 1) /\ n = Len(line) - m + 1
        BY <3>1
      <4> HIDE DEF j, n
      <4>2. SubSeq(SubSeq(line, m, Len(line)), j, Len(line) - m + 1)
              = SubSeq(line, m + j - 1, Len(line))
        BY <2>2, <4>1, EndOfEnd
      <4>3. QED BY <4>1, <4>2 DEF j
    <3>3. console' = SubSeq(line', m + (c + 1) - 1, Len(line'))
      BY <1>1, <1>11, <2>1, <3>1, <3>2 DEF c
    <3>4. QED BY <1>11, <2>2, <3>1, <3>3 DEF ConsoleInv
  <2>6. QED BY <2>4, <2>5
<1>12. \A i \in 1..(Len(ReadBuffer) - 1) : ReadBuffer[i] = console[i]
  <2>1. Len(ReadBuffer) - 1 = k
    BY <1>6, <1>8
  <2>2. QED BY <1>7, <1>8, <2>1
<1>13. QED BY <1>6, <1>8, <1>10, <1>11, <1>12 DEF c

\* The buffer is one that split expects, whatever an earlier line has left in it.
LEMMA StoredIs ==
  ASSUME ConsoleInv, do_readline, NEW b \in Buffers
  PROVE  /\ Stored(b) \in Buffers
         /\ \A i \in 1..Len(ReadBuffer) : Stored(b)[i] = ReadBuffer[i]
<1> DEFINE r == ReadBuffer
           n == Len(r)
           L == Len(b)
           rest == SubSeq(b, n + 1, L)
<1>1. r \in Seq(Bytes) /\ n \in 1..BufLen /\ r[n] = Nul
  BY ReadLine
<1>2. b \in Seq(Bytes) /\ L \in Nat /\ L = BufLen /\ b[L] = Nul
  BY BufferIs
<1>3. Stored(b) = r \o rest
  BY DEF Stored
<1> HIDE DEF r, n, L
<1>4. /\ rest \in Seq(Bytes) /\ Len(rest) = L - n
      /\ \A i \in 1..(L - n) : rest[i] = b[n + i]
  <2>1. \A i \in (n + 1)..L : b[i] \in Bytes
    <3>1. \A i \in (n + 1)..L : i \in 1..Len(b)
      BY <1>1, <1>2 DEF L
    <3>2. QED BY <1>2, <3>1, ElementOfSeq
  <2> DEFINE m == n + 1
  <2>2. m \in Int /\ L \in Int /\ \A i \in m..L : b[i] \in Bytes
    BY <1>1, <1>2, <2>1
  <2> HIDE DEF m
  <2>3. /\ SubSeq(b, m, L) \in Seq(Bytes)
        /\ Len(SubSeq(b, m, L)) = IF m <= L THEN L - m + 1 ELSE 0
        /\ \A i \in 1..(L - m + 1) : SubSeq(b, m, L)[i] = b[m + i - 1]
    BY <2>2, SubSeqProperties
  <2>4. L - m + 1 = L - n /\ (~(m <= L) => L - n = 0) /\ \A i \in 1..(L - n) : m + i - 1 = n + i
    BY <1>1, <1>2 DEF m
  <2>5. QED BY <2>3, <2>4 DEF m
<1> HIDE DEF rest
<1>5. /\ r \o rest \in Seq(Bytes) /\ Len(r \o rest) = n + (L - n)
      /\ \A i \in 1..(n + (L - n)) : (r \o rest)[i] = IF i <= n THEN r[i] ELSE rest[i - n]
  <2> DEFINE k == Len(rest)
             both == r \o rest
  <2>1. /\ both \in Seq(Bytes) /\ Len(both) = n + k
        /\ \A i \in 1..(n + k) : both[i] = IF i <= n THEN r[i] ELSE rest[i - n]
    BY <1>1, <1>4, ConcatProperties DEF n
  <2>2. k = L - n
    BY <1>4
  <2> HIDE DEF k, both
  <2>3. /\ both \in Seq(Bytes) /\ Len(both) = n + (L - n)
        /\ \A i \in 1..(n + (L - n)) : both[i] = IF i <= n THEN r[i] ELSE rest[i - n]
    BY <2>1, <2>2
  <2>4. QED BY <2>3 DEF both
<1>6. n + (L - n) = L /\ L \in 1..L /\ 1..n \subseteq 1..L
  BY <1>1, <1>2
<1> DEFINE both == r \o rest
<1>7. both \in Seq(Bytes) /\ \A i \in 1..L : both[i] = IF i <= n THEN r[i] ELSE rest[i - n]
  BY <1>5, <1>6
<1>8. Len(both) = L
  BY <1>5, <1>6
<1> HIDE DEF both
<1>9. both[L] = Nul
  <2>1. CASE L = n
    <3>1. L \in 1..L /\ L <= n
      BY <1>1, <1>6, <2>1
    <3>2. both[L] = r[L]
      BY <1>7, <3>1
    <3>3. QED BY <1>1, <2>1, <3>2
  <2>2. CASE L # n
    <3>1. L \in 1..L /\ ~(L <= n) /\ L - n \in 1..(L - n) /\ n + (L - n) = L
      BY <1>1, <1>2, <1>6, <2>2
    <3>2. both[L] = rest[L - n]
      BY <1>7, <3>1
    <3>3. rest[L - n] = b[n + (L - n)]
      BY <1>4, <3>1
    <3>4. QED BY <1>2, <3>1, <3>2, <3>3
  <2>3. QED BY <2>1, <2>2
<1>10. \A i \in 1..n : both[i] = r[i]
  BY <1>1, <1>6, <1>7
<1>11. both \in Buffers
  BY <1>2, <1>7, <1>8, <1>9 DEF Buffers, Last
<1>12. QED BY <1>3, <1>10, <1>11 DEF r, n, both

-----------------------------------------------------------------------------
(* Splitting *)

\* The pointer over blanks stops at the first other character, and the one over
\* a word at the first blank or at the terminator.
LEMMA SkipsAre ==
  ASSUME NEW b \in Buffers, NEW p \in 1..Len(b)
  PROVE  /\ SkipBlanks(b, p) \in p..Len(b) /\ b[SkipBlanks(b, p)] \notin Blanks
         /\ \A q \in p..(SkipBlanks(b, p) - 1) : b[q] \in Blanks
         /\ SkipWord(b, p) \in p..Len(b) /\ b[SkipWord(b, p)] \in Blanks \cup {Nul}
         /\ \A q \in p..(SkipWord(b, p) - 1) : b[q] \notin Blanks \cup {Nul}
<1>1. Len(b) \in Nat /\ p \in Nat /\ p <= Len(b) /\ b[Len(b)] = Nul /\ Nul \notin Blanks
  BY BufferIs
<1> DEFINE L == Len(b)
           S == {q \in p..L : b[q] \notin Blanks}
           W == {q \in p..L : b[q] \in Blanks \cup {Nul}}
<1>2. S \in SUBSET (p..L) /\ L \in S /\ W \in SUBSET (p..L) /\ L \in W
  BY <1>1
<1>3. SkipBlanks(b, p) = Min(S) /\ SkipWord(b, p) = Min(W)
  BY DEF SkipBlanks, SkipWord
<1>4. /\ Min(S) \in S /\ \A q \in S : Min(S) <= q
      /\ Min(W) \in W /\ \A q \in W : Min(W) <= q
  <2> HIDE DEF S, W
  <2>1. QED BY <1>1, <1>2, LeastIn
<1> DEFINE s == Min(S)
           w == Min(W)
<1>5. s \in p..L /\ b[s] \notin Blanks /\ w \in p..L /\ b[w] \in Blanks \cup {Nul}
  BY <1>4
<1> HIDE DEF s, w
<1>6. ASSUME NEW q \in p..(s - 1), b[q] \notin Blanks PROVE FALSE
  <2>1. q \in p..L /\ ~(s <= q)
    BY <1>1, <1>5
  <2>2. q \in S
    BY <1>6, <2>1
  <2>3. QED BY <1>4, <2>1, <2>2 DEF s
<1>7. ASSUME NEW q \in p..(w - 1), b[q] \in Blanks \cup {Nul} PROVE FALSE
  <2>1. q \in p..L /\ ~(w <= q)
    BY <1>1, <1>5
  <2>2. q \in W
    BY <1>7, <2>1
  <2>3. QED BY <1>4, <2>1, <2>2 DEF w
<1>8. QED BY <1>3, <1>5, <1>6, <1>7 DEF s, w

\* The pointers of split.
PointerSteps(b, f) ==
  f = [i \in 1..MaxArgs |->
         IF i = 1 THEN SkipBlanks(b, 1) ELSE SkipBlanks(b, SkipWord(b, f[i - 1]))]

LEMMA PointersAre ==
  ASSUME NEW b \in Buffers
  PROVE  /\ Pointers(b) \in [1..MaxArgs -> 1..Len(b)]
         /\ Pointers(b)[1] = SkipBlanks(b, 1)
         /\ \A i \in 1..(MaxArgs - 1) :
              Pointers(b)[i + 1] = SkipBlanks(b, SkipWord(b, Pointers(b)[i]))
<1>1. MaxArgs \in Nat \ {0} /\ Len(b) \in Nat /\ 1 \in 1..Len(b)
  BY ShellAssumption, BufferIs
<1> DEFINE n == MaxArgs - 1
           S == 1..Len(b)
           m == SkipBlanks(b, 1)
           step == [i \in 1..n |-> [x \in S |-> SkipBlanks(b, SkipWord(b, x))]]
<1>2. n \in Nat
  BY <1>1
<1>3. ASSUME NEW x \in S PROVE SkipBlanks(b, SkipWord(b, x)) \in S
  <2>1. SkipWord(b, x) \in S
    BY <1>1, SkipsAre
  <2>2. SkipBlanks(b, SkipWord(b, x)) \in SkipWord(b, x)..Len(b)
    BY <2>1, SkipsAre
  <2>3. QED BY <1>1, <2>1, <2>2
<1>4. m \in S
  BY <1>1, SkipsAre
<1>5. \E f : PointerSteps(b, f)
  <2>1. PICK g \in [0..n -> S] : Steps(n, m, step, g)
    <3>1. step \in [1..n -> [S -> S]]
      BY <1>3
    <3> HIDE DEF step, n, S, m
    <3>2. QED BY <1>2, <1>4, <3>1, StepsExist
  <2> DEFINE f == [i \in 1..MaxArgs |-> g[i - 1]]
  <2>2. ASSUME NEW i \in 1..MaxArgs
        PROVE  f[i] = IF i = 1 THEN m ELSE SkipBlanks(b, SkipWord(b, f[i - 1]))
    <3>1. i - 1 \in 0..n /\ f[i] = g[i - 1]
      BY <1>1
    <3>2. CASE i = 1
      <4>1. g[i - 1] = m
        <5> HIDE DEF step, m, S
        <5>1. QED BY <2>1, <3>1, <3>2 DEF Steps
      <4>2. QED BY <3>1, <3>2, <4>1
    <3>3. CASE i # 1
      <4>1. /\ i - 1 \in 1..n /\ i - 1 # 0 /\ (i - 1) - 1 \in 0..n /\ i - 1 \in 1..MaxArgs
        BY <1>1, <3>3
      <4>2. g[i - 1] = step[i - 1][g[(i - 1) - 1]]
        <5> HIDE DEF step, m, S
        <5>1. QED BY <2>1, <3>1, <4>1 DEF Steps
      <4>3. g[(i - 1) - 1] \in S
        BY <2>1, <4>1
      <4>4. step[i - 1][g[(i - 1) - 1]] = SkipBlanks(b, SkipWord(b, g[(i - 1) - 1]))
        BY <4>1, <4>3
      <4>5. f[i - 1] = g[(i - 1) - 1]
        BY <4>1
      <4>6. QED BY <3>1, <3>3, <4>2, <4>4, <4>5
    <3>4. QED BY <3>2, <3>3
  <2>3. f = [i \in 1..MaxArgs |-> f[i]]
    OBVIOUS
  <2>4. PointerSteps(b, f)
    <3> HIDE DEF f
    <3>1. f = [i \in 1..MaxArgs |->
                 IF i = 1 THEN m ELSE SkipBlanks(b, SkipWord(b, f[i - 1]))]
      <4> HIDE DEF m
      <4>1. QED BY <2>2, <2>3
    <3>2. QED BY <3>1 DEF PointerSteps
  <2>5. QED BY <2>4
<1> DEFINE h == CHOOSE f : PointerSteps(b, f)
<1>6. PointerSteps(b, h)
  BY <1>5
<1>7. Pointers(b) = h
  BY DEF Pointers, PointerSteps
<1> HIDE DEF h
<1>8. \A i \in 1..MaxArgs :
        h[i] = IF i = 1 THEN m ELSE SkipBlanks(b, SkipWord(b, h[i - 1]))
  BY <1>6 DEF PointerSteps
<1>9. h[1] = m
  <2>1. 1 \in 1..MaxArgs
    BY <1>1
  <2> HIDE DEF m
  <2>2. QED BY <1>8, <2>1
<1>10. \A i \in 1..n : h[i + 1] = SkipBlanks(b, SkipWord(b, h[i]))
  <2> TAKE i \in 1..n
  <2>1. i + 1 \in 1..MaxArgs /\ i + 1 # 1 /\ (i + 1) - 1 = i
    BY <1>1
  <2> HIDE DEF m
  <2>2. QED BY <1>8, <2>1
<1>11. \A i \in 1..MaxArgs : h[i] \in S
  <2> DEFINE G == {i \in Nat : i + 1 <= MaxArgs => h[i + 1] \in S}
  <2>1. 0 \in G
    <3> HIDE DEF m, S
    <3>1. QED BY <1>4, <1>9
  <2>2. ASSUME NEW i \in G PROVE i + 1 \in G
    <3> SUFFICES ASSUME (i + 1) + 1 <= MaxArgs PROVE h[(i + 1) + 1] \in S
      OBVIOUS
    <3>1. i + 1 \in 1..n /\ h[i + 1] \in S
      BY <1>1
    <3>2. h[(i + 1) + 1] = SkipBlanks(b, SkipWord(b, h[i + 1]))
      BY <1>10, <3>1
    <3>3. QED BY <1>3, <3>1, <3>2
  <2>3. \A i \in Nat : i \in G
    <3>1. G \in SUBSET Nat
      OBVIOUS
    <3> HIDE DEF G
    <3>2. QED BY <2>1, <2>2, <3>1, SetInduction
  <2>4. ASSUME NEW i \in 1..MaxArgs PROVE h[i] \in S
    <3>1. i - 1 \in Nat /\ (i - 1) + 1 = i
      BY <1>1
    <3>2. i - 1 \in G
      BY <2>3, <3>1
    <3> HIDE DEF S
    <3>3. QED BY <1>1, <3>1, <3>2
  <2>5. QED BY <2>4
<1>12. h = [i \in 1..MaxArgs |-> h[i]]
  BY <1>6 DEF PointerSteps
<1>13. h \in [1..MaxArgs -> S]
  BY <1>11, <1>12
<1>14. QED BY <1>7, <1>9, <1>10, <1>13

\* The words start at the first pointers; the next pointer, if there is one, is
\* at the terminator.
LEMMA WordsAre ==
  ASSUME NEW b \in Buffers
  PROVE  /\ Words(b) \in Seq(1..Len(b)) /\ Len(Words(b)) \in 0..MaxArgs
         /\ \A i \in 1..Len(Words(b)) :
              Words(b)[i] = Pointers(b)[i] /\ b[Pointers(b)[i]] # Nul
         /\ Len(Words(b)) # MaxArgs => b[Pointers(b)[Len(Words(b)) + 1]] = Nul
<1> DEFINE pts == Pointers(b)
           N == {i \in 0..MaxArgs : i = MaxArgs \/ b[pts[i + 1]] = Nul}
           n == Min(N)
<1>1. MaxArgs \in Nat \ {0} /\ pts \in [1..MaxArgs -> 1..Len(b)]
  BY ShellAssumption, PointersAre
<1>2. n \in N /\ \A i \in N : n <= i
  <2>1. N \in SUBSET (0..MaxArgs) /\ MaxArgs \in N /\ 0 \in Nat
    BY <1>1
  <2> HIDE DEF N
  <2>2. QED BY <1>1, <2>1, LeastIn
<1>3. n \in 0..MaxArgs /\ (n # MaxArgs => b[pts[n + 1]] = Nul)
  BY <1>2
<1>4. \A i \in 1..n : b[pts[i]] # Nul
  <2> SUFFICES ASSUME NEW i \in 1..n, b[pts[i]] = Nul PROVE FALSE
    OBVIOUS
  <2>1. i - 1 \in 0..MaxArgs /\ (i - 1) + 1 = i /\ ~(n <= i - 1)
    BY <1>1, <1>3
  <2>2. i - 1 \in N
    BY <2>1
  <2> HIDE DEF N, n
  <2>3. QED BY <1>2, <2>1, <2>2
<1>5. Words(b) = SubSeq(pts, 1, n)
  BY DEF Words
<1> HIDE DEF n, pts
<1>6. /\ SubSeq(pts, 1, n) \in Seq(1..Len(b))
      /\ Len(SubSeq(pts, 1, n)) = n
      /\ \A i \in 1..n : SubSeq(pts, 1, n)[i] = pts[i]
  <2>1. \A i \in 1..n : pts[i] \in 1..Len(b)
    <3>1. \A i \in 1..n : i \in 1..MaxArgs
      BY <1>1, <1>3
    <3>2. QED BY <1>1, <3>1
  <2>2. n \in Int /\ 1 \in Int /\ (1 <= n \/ n = 0)
    BY <1>1, <1>3
  <2> DEFINE T == 1..Len(b)
  <2>3. /\ SubSeq(pts, 1, n) \in Seq(T)
        /\ Len(SubSeq(pts, 1, n)) = IF 1 <= n THEN n - 1 + 1 ELSE 0
        /\ \A i \in 1..(n - 1 + 1) : SubSeq(pts, 1, n)[i] = pts[1 + i - 1]
    <3>1. \A i \in 1..n : pts[i] \in T
      BY <2>1
    <3> HIDE DEF T
    <3>2. QED BY <2>2, <3>1, SubSeqProperties
  <2>4. \A i \in 1..n : i \in 1..(n - 1 + 1) /\ 1 + i - 1 = i
    BY <2>2
  <2>5. QED BY <2>2, <2>3, <2>4
<1>7. QED BY <1>3, <1>4, <1>5, <1>6 DEF pts

\* The buffer after split: blanks before the last pointer are terminators.
LEMMA TerminatedIs ==
  ASSUME NEW b \in Buffers
  PROVE  /\ Terminated(b) \in Buffers /\ Len(Terminated(b)) = Len(b)
         /\ \A q \in 1..Len(b) :
              Terminated(b)[q] = IF b[q] \in Blanks /\ q < Pointers(b)[MaxArgs]
                                 THEN Nul ELSE b[q]
<1>1. b \in Seq(Bytes) /\ Len(b) \in Nat /\ DOMAIN b = 1..Len(b) /\ b[Len(b)] = Nul
      /\ Nul \notin Blanks /\ Len(b) >= 1 /\ Len(b) = BufLen
  BY BufferIs
<1> DEFINE e == Pointers(b)[MaxArgs]
           V(q) == IF b[q] \in Blanks /\ q < e THEN Nul ELSE b[q]
           t == [q \in 1..Len(b) |-> V(q)]
<1>2. Terminated(b) = t
  BY <1>1 DEF Terminated
<1>3. \A q \in 1..Len(b) : V(q) \in Bytes
  <2>1. \A q \in 1..Len(b) : b[q] \in Bytes
    BY <1>1, ElementOfSeq
  <2> HIDE DEF e
  <2>2. QED BY <2>1 DEF Bytes
<1>4. \A q \in 1..Len(b) : t[q] = V(q)
  OBVIOUS
<1>5. V(Len(b)) = Nul
  <2> HIDE DEF e
  <2>1. QED BY <1>1
<1>6. t \in [1..Len(b) -> Bytes]
  <2> HIDE DEF V
  <2>1. QED BY <1>3
<1> HIDE DEF t
<1>7. t \in Seq(Bytes) /\ Len(t) = Len(b)
  BY <1>1, <1>6, IsASeq, LenProperties
<1>8. Last(t) = Nul
  <2>1. Len(b) \in 1..Len(b)
    BY <1>1
  <2> HIDE DEF V
  <2>2. QED BY <1>4, <1>5, <1>7, <2>1 DEF Last
<1>9. t \in Buffers
  BY <1>1, <1>7, <1>8 DEF Buffers
<1>10. QED BY <1>2, <1>4, <1>7, <1>9

-----------------------------------------------------------------------------
(* The command loop *)

\* What the states of the command loop have in common.
ShellInv ==
  /\ pc \in {"prompt", "command", "running", "quit"}
  /\ line \in Lines \cup {<<>>} /\ ConsoleInv
  /\ cmd_buffer \in Buffers
  /\ argc \in 0..MaxArgs
  /\ argv \in [1..MaxArgs -> 0..BufLen] /\ \A i \in 1..argc : argv[i] # 0
  /\ running \in Files \cup {<<>>} /\ (pc = "running" => running \in Files)

LEMMA ReverseIs ==
  ASSUME NEW S, NEW s \in Seq(S)
  PROVE  /\ Reverse(s) \in Seq(S) /\ Len(Reverse(s)) = Len(s)
         /\ \A i \in 1..Len(s) : Reverse(s)[i] = s[Len(s) - i + 1]
<1>1. Len(s) \in Nat
  BY LenProperties
<1> DEFINE V(i) == s[(Len(s) - i) + 1]
           r == [i \in 1..Len(s) |-> V(i)]
<1>2. \A i \in 1..Len(s) : V(i) \in S
  <2> TAKE i \in 1..Len(s)
  <2>1. (Len(s) - i) + 1 \in 1..Len(s)
    BY <1>1
  <2>2. QED BY <2>1, ElementOfSeq
<1>3. Reverse(s) = r
  BY DEF Reverse
<1>4. \A i \in 1..Len(s) : r[i] = V(i)
  OBVIOUS
<1>5. r \in [1..Len(s) -> S]
  <2> HIDE DEF V
  <2>1. QED BY <1>2
<1>6. r \in Seq(S) /\ Len(r) = Len(s)
  <2> HIDE DEF r
  <2>1. QED BY <1>1, <1>5, IsASeq, LenProperties
<1> HIDE DEF r
<1>7. QED BY <1>3, <1>4, <1>6

\* What is on the console is the end of the last line.
LEMMA ConsoleIsEnd ==
  ASSUME ConsoleInv, line \in Lines \cup {<<>>}
  PROVE  IsSuffix(console, line)
<1>1. line \in Seq(Bytes) /\ Len(line) \in Nat
  <2>1. CASE line \in Lines
    BY <2>1, LineIs
  <2>2. CASE line = <<>>
    BY <2>2, EmptySeq, LenProperties
  <2>3. QED BY <2>1, <2>2
<1> DEFINE r == Reverse(line)
           c == Reverse(console)
           L == Len(line)
<1>2. r \in Seq(Bytes) /\ Len(r) = L /\ \A i \in 1..L : r[i] = line[L - i + 1]
  BY <1>1, ReverseIs
<1>3. CASE console = <<>>
  <2>1. console \in Seq(Bytes) /\ Len(console) = 0
    BY <1>3, EmptySeq
  <2>2. Len(c) = 0
    BY <2>1, ReverseIs
  <2> HIDE DEF c, r, L
  <2>3. 0 \in Int /\ 1 \in Int /\ 0 < 1
    OBVIOUS
  <2>4. SubSeq(c, 1, 0) = <<>> /\ SubSeq(r, 1, 0) = <<>>
    BY <2>3, SubSeqEmpty
  <2>5. IsPrefix(c, r)
    BY <1>1, <1>2, <2>2, <2>4 DEF IsPrefix, L
  <2>6. QED BY <2>5 DEF IsSuffix, c, r
<1>4. CASE console # <<>>
  <2>1. PICK k \in 1..Len(line) : console = SubSeq(line, k, Len(line))
    BY <1>4 DEF ConsoleInv
  <2> DEFINE n == L - k + 1
  <2> HIDE DEF L
  <2>2. L \in Nat /\ k \in 1..L /\ L = Len(line)
    BY <1>1, <2>1 DEF L
  <2>3. n \in 1..L
    BY <2>2
  <2>4. /\ console \in Seq(Bytes) /\ Len(console) = n
        /\ \A i \in 1..n : console[i] = line[k + i - 1]
    <3>1. \A i \in k..L : line[i] \in Bytes
      <4>1. \A i \in k..L : i \in 1..Len(line)
        BY <2>2
      <4>2. QED BY <1>1, <4>1, ElementOfSeq
    <3>2. /\ SubSeq(line, k, L) \in Seq(Bytes)
          /\ Len(SubSeq(line, k, L)) = IF k <= L THEN L - k + 1 ELSE 0
          /\ \A i \in 1..(L - k + 1) : SubSeq(line, k, L)[i] = line[k + i - 1]
      BY <2>2, <3>1, SubSeqProperties
    <3>3. QED BY <2>1, <2>2, <3>2
  <2>5. Len(c) = n /\ \A i \in 1..n : c[i] = console[n - i + 1]
    <3> HIDE DEF n
    <3>1. QED BY <2>4, ReverseIs
  <2>6. \A i \in 1..n : c[i] = r[i]
    <3> TAKE i \in 1..n
    <3>1. n - i + 1 \in 1..n /\ i \in 1..L /\ k + (n - i + 1) - 1 = L - i + 1
      BY <2>2, <2>3
    <3>2. c[i] = console[n - i + 1] /\ console[n - i + 1] = line[k + (n - i + 1) - 1]
      <4> HIDE DEF n, c
      <4>1. QED BY <2>4, <2>5, <3>1
    <3>3. r[i] = line[L - i + 1]
      <4> HIDE DEF r
      <4>1. QED BY <1>2, <2>2, <3>1 DEF L
    <3>4. QED BY <3>1, <3>2, <3>3
  <2> HIDE DEF n, c, r
  <2>7. c \in Seq(Bytes)
    BY <2>4, ReverseIs DEF c
  <2>8. SubSeq(c, 1, n) = SubSeq(r, 1, n)
    <3>1. \A i \in 1..n : c[i] \in Bytes /\ r[i] \in Bytes
      <4>1. \A i \in 1..n : i \in 1..Len(c) /\ i \in 1..Len(r)
        BY <1>2, <2>2, <2>3, <2>5
      <4>2. QED BY <1>2, <2>7, <4>1, ElementOfSeq
    <3>2. n \in Int /\ 1 \in Int
      BY <2>3
    <3>3. /\ SubSeq(c, 1, n) \in Seq(Bytes)
          /\ Len(SubSeq(c, 1, n)) = IF 1 <= n THEN n - 1 + 1 ELSE 0
          /\ \A i \in 1..(n - 1 + 1) : SubSeq(c, 1, n)[i] = c[1 + i - 1]
      BY <3>1, <3>2, SubSeqProperties
    <3>4. /\ SubSeq(r, 1, n) \in Seq(Bytes)
          /\ Len(SubSeq(r, 1, n)) = IF 1 <= n THEN n - 1 + 1 ELSE 0
          /\ \A i \in 1..(n - 1 + 1) : SubSeq(r, 1, n)[i] = r[1 + i - 1]
      BY <3>1, <3>2, SubSeqProperties
    <3> DEFINE x == SubSeq(c, 1, n)
               y == SubSeq(r, 1, n)
    <3>5. Len(x) = n /\ Len(y) = n
      BY <2>3, <3>3, <3>4
    <3>6. \A i \in 1..Len(x) : x[i] = y[i]
      <4> TAKE i \in 1..Len(x)
      <4>1. i \in 1..(n - 1 + 1) /\ 1 + i - 1 = i /\ i \in 1..n
        BY <2>3, <3>5
      <4>2. QED BY <2>6, <3>3, <3>4, <4>1
    <3>7. x \in Seq(Bytes) /\ y \in Seq(Bytes)
      BY <3>3, <3>4
    <3> HIDE DEF x, y
    <3>8. x = y
      BY <3>5, <3>6, <3>7, SeqEqual
    <3>9. QED BY <3>8 DEF x, y
  <2>9. Len(c) <= Len(r)
    BY <1>2, <2>2, <2>3, <2>5
  <2>10. QED BY <2>5, <2>8, <2>9 DEF IsSuffix, IsPrefix, c, r
<1>5. QED BY <1>3, <1>4

LEMMA ShellInvTypes ==
  ASSUME ShellInv
  PROVE  ShellTypeOK
<1>1. IsSuffix(console, line)
  BY ConsoleIsEnd DEF ShellInv
<1>2. Len(cmd_buffer) = BufLen /\ Last(cmd_buffer) = Nul
  BY DEF ShellInv, Buffers
<1>3. QED BY <1>1, <1>2 DEF ShellInv, ShellTypeOK

\* The initial state and every step of the command loop have them in common.
LEMMA ShellInvInit ==
  ASSUME ShellInit
  PROVE  ShellInv
<1>1. /\ cmd_buffer = [q \in 1..BufLen |-> Nul]
      /\ argc = 0 /\ argv = [i \in 1..MaxArgs |-> 0]
  BY DEF ShellInit
<1>2. BufLen \in Nat \ {0} /\ MaxArgs \in Nat \ {0} /\ Nul \in Bytes
  BY ShellAssumption DEF Bytes
<1>3. cmd_buffer \in Buffers
  <2> HIDE DEF Nul
  <2>1. cmd_buffer \in [1..BufLen -> Bytes]
    BY <1>1, <1>2
  <2>2. cmd_buffer \in Seq(Bytes) /\ Len(cmd_buffer) = BufLen
    BY <1>2, <2>1, IsASeq, LenProperties
  <2>3. cmd_buffer[Len(cmd_buffer)] = Nul
    BY <1>1, <1>2, <2>2
  <2>4. QED BY <2>2, <2>3 DEF Buffers, Last
<1>4. /\ argc \in 0..MaxArgs
      /\ argv \in [1..MaxArgs -> 0..BufLen] /\ \A i \in 1..argc : argv[i] # 0
  BY <1>1, <1>2
<1>5. QED BY <1>3, <1>4 DEF ShellInit, ShellInv, ConsoleInv

\* What split makes of argc and argv.
LEMMA SplitArgs ==
  ASSUME NEW b \in Buffers, split(b), argv \in [1..MaxArgs -> 0..BufLen]
  PROVE  /\ argc' = Len(Words(b)) /\ argc' \in 0..MaxArgs
         /\ argv' \in [1..MaxArgs -> 0..BufLen]
         /\ \A i \in 1..argc' : argv'[i] = Words(b)[i] /\ argv'[i] # 0
<1> DEFINE w == Words(b)
           n == Len(w)
<1>1. w \in Seq(1..Len(b)) /\ n \in 0..MaxArgs /\ Len(b) = BufLen
  BY WordsAre, BufferIs
<1>2. argc' = n /\ argv' = [i \in 1..MaxArgs |-> IF i <= n THEN w[i] ELSE argv[i]]
  BY DEF split
<1>3. MaxArgs \in Nat \ {0} /\ BufLen \in Nat
  BY ShellAssumption
<1>4. \A i \in 1..n : w[i] \in 1..BufLen
  BY <1>1, ElementOfSeq
<1> HIDE DEF w, n
<1>5. \A i \in 1..MaxArgs : (IF i <= n THEN w[i] ELSE argv[i]) \in 0..BufLen
  <2> TAKE i \in 1..MaxArgs
  <2>1. CASE i <= n
    <3>1. i \in 1..n
      BY <1>1, <1>3, <2>1
    <3>2. QED BY <1>3, <1>4, <2>1, <3>1
  <2>2. CASE ~(i <= n)
    BY <2>2
  <2>3. QED BY <2>1, <2>2
<1>6. ASSUME NEW i \in 1..n PROVE argv'[i] = w[i] /\ argv'[i] # 0
  <2>1. i \in 1..MaxArgs /\ i <= n
    BY <1>1, <1>3
  <2>2. QED BY <1>2, <1>3, <1>4, <2>1
<1>7. QED BY <1>1, <1>2, <1>5, <1>6 DEF w, n

LEMMA ShellInvStep ==
  ASSUME ShellInv, ShellNext
  PROVE  ShellInv'
<1>1. CASE Typed
  <2>1. PICK l \in Lines : console' = l /\ line' = l
    BY <1>1 DEF Typed
  <2>2. ConsoleInv'
    <3>1. l \in Seq(Bytes) /\ Len(l) \in Nat /\ Len(l) >= 1
      BY LineIs
    <3>2. SubSeq(l, 1, Len(l)) = l
      BY <3>1, SubSeqFull
    <3>3. 1 \in 1..Len(line') /\ console' = SubSeq(line', 1, Len(line')) /\ line' \in Lines
      BY <2>1, <3>1, <3>2
    <3>4. QED BY <3>3 DEF ConsoleInv
  <2>3. UNCHANGED <<pc, cmd_buffer, argc, argv, running>>
    BY <1>1 DEF Typed
  <2>4. QED BY <2>1, <2>2, <2>3 DEF ShellInv
<1>2. CASE get_next_command
  <2> DEFINE b == Stored(cmd_buffer)
  <2>1. /\ do_readline /\ UNCHANGED <<line, running>> /\ split(b)
        /\ pc' \in {"prompt", "quit", "command"}
    BY <1>2 DEF get_next_command
  <2>2. b \in Buffers /\ ConsoleInv'
    BY <2>1, ReadLine, StoredIs DEF ShellInv
  <2> HIDE DEF b
  <2>3. cmd_buffer' \in Buffers
    BY <2>1, <2>2, TerminatedIs DEF split
  <2>4. /\ argc' \in 0..MaxArgs
        /\ argv' \in [1..MaxArgs -> 0..BufLen] /\ \A i \in 1..argc' : argv'[i] # 0
    BY <2>1, <2>2, SplitArgs DEF ShellInv
  <2>5. QED BY <2>1, <2>2, <2>3, <2>4 DEF ShellInv
<1>3. CASE OpenFails
  BY <1>3 DEF OpenFails, ShellInv, ConsoleInv
<1>4. CASE ExecLoads
  BY <1>4 DEF ExecLoads, ShellInv, ConsoleInv
<1>5. CASE ProgramReturns \/ UgrepUsage
  BY <1>5 DEF ProgramReturns, UgrepUsage, ExecUnmaps, ShellInv, ConsoleInv
<1>6. CASE UgrepEnds \/ UgrepReads
  <2>1. do_readline /\ UNCHANGED <<line, cmd_buffer, argc, argv>>
    BY <1>6 DEF UgrepEnds, UgrepReads
  <2>2. /\ \/ pc' = "prompt" /\ running' = <<>>
           \/ UNCHANGED <<pc, running>>
    BY <1>6 DEF UgrepEnds, UgrepReads, ExecUnmaps
  <2>3. ConsoleInv'
    BY <2>1, ReadLine DEF ShellInv
  <2>4. QED BY <2>1, <2>2, <2>3 DEF ShellInv
<1>7. QED BY <1>1, <1>2, <1>3, <1>4, <1>5, <1>6 DEF ShellNext

LEMMA ShellInvStutter ==
  ASSUME ShellInv, UNCHANGED svars
  PROVE  ShellInv'
BY DEF ShellInv, ConsoleInv, svars

-----------------------------------------------------------------------------
(* Both programs *)

LEMMA KeepsMemoryTypes ==
  ASSUME NEW m \in MemoryTypes, NEW f \in Files, NEW base \in Nat
  PROVE  /\ LoadAll(m, f, base) \in MemoryTypes
         /\ UnmapAll(m, f, base) \in MemoryTypes
         /\ \A written : [a \in Addresses |-> IF a \in written THEN Dirty ELSE m[a]]
                           \in MemoryTypes
<1>1. LoadAll(m, f, base) \in MemoryTypes
  <2>1. PICK g \in [0..Len(Phdrs[f]) -> MemoryTypes] : LoadAll(m, f, base) = g[Len(Phdrs[f])]
    BY LoadAllSteps
  <2>2. Len(Phdrs[f]) \in 0..Len(Phdrs[f])
    BY LoadAllSteps
  <2>3. QED BY <2>1, <2>2
<1>2. UnmapAll(m, f, base) \in MemoryTypes
  <2>1. PICK g \in [0..Len(Phdrs[f]) -> MemoryTypes] : UnmapAll(m, f, base) = g[Len(Phdrs[f])]
    BY UnmapAllSteps
  <2>2. Len(Phdrs[f]) \in 0..Len(Phdrs[f])
    BY LoadAllSteps
  <2>3. QED BY <2>1, <2>2
<1>3. QED BY <1>1, <1>2 DEF MemoryTypes

\* The program that does not run stays as it began.
ProgramsInv ==
  /\ program \in {"part-2", "part-3"}
  /\ mem \in MemoryTypes
  /\ ShellInv /\ SwitchInv
  /\ program = "part-2" => ~Loaded
  /\ program = "part-3" => pc = "prompt"

LEMMA ProgramsInvInit ==
  ASSUME Init
  PROVE  ProgramsInv
<1>1. mem \in MemoryTypes /\ ShellInv /\ SwitchInv
  BY NoMemoryIs, ShellInvInit, SwitchInvInit DEF Init
<1>2. ~Loaded /\ pc = "prompt"
  BY DEF Init, SwitchInit, ShellInit, Loaded
<1>3. QED BY <1>1, <1>2 DEF Init, ProgramsInv

\* What a step of the command loop does to the memory.
LEMMA ShellMemory ==
  ASSUME ShellInv, ShellNext
  PROVE  \/ /\ pc # "running" /\ pc' # "running" /\ UNCHANGED mem
         \/ /\ pc = "running" /\ UNCHANGED <<mem, pc, running>>
         \/ /\ pc # "running" /\ pc' = "running" /\ running' \in Files
            /\ mem' = LoadAll(mem, running', LoadOffset)
         \/ /\ pc = "running" /\ pc' # "running" /\ running \in Files /\ ExecUnmaps
<1>1. CASE Typed
  BY <1>1 DEF Typed
<1>2. CASE get_next_command
  BY <1>2 DEF get_next_command
<1>3. CASE OpenFails
  BY <1>3 DEF OpenFails
<1>4. CASE ExecLoads
  BY <1>4 DEF ExecLoads
<1>5. CASE ProgramReturns
  BY <1>5 DEF ProgramReturns, ExecUnmaps, ShellInv
<1>6. CASE UgrepUsage
  BY <1>6 DEF UgrepUsage, ExecUnmaps, ShellInv
<1>7. CASE UgrepEnds
  BY <1>7 DEF UgrepEnds, ExecUnmaps, ShellInv
<1>8. CASE UgrepReads
  BY <1>8 DEF UgrepReads
<1>9. QED BY <1>1, <1>2, <1>3, <1>4, <1>5, <1>6, <1>7, <1>8 DEF ShellNext

\* And a step of part-3.
LEMMA SwitchMemory ==
  ASSUME SwitchNext
  PROVE  \/ Loaded /\ UNCHANGED mem
         \/ /\ ~Loaded
            /\ mem' = LoadAll(LoadAll(mem, Process[1], Offset[1]), Process[2], Offset[2])
<1>1. CASE LoadProcesses
  BY <1>1 DEF LoadProcesses, Loaded
<1>2. CASE MainSwitches \/ MainDone
  BY <1>2 DEF MainSwitches, MainDone, Loaded, Home
<1>3. CASE do_yield12 \/ do_yield21
  BY <1>3 DEF do_yield12, do_yield21, NextCall, Loaded
<1>4. ASSUME NEW p \in Processes, Prints(p) \/ do_uexit(p) PROVE Loaded /\ UNCHANGED mem
  BY <1>4 DEF Prints, do_uexit, NextCall, Loaded, Processes
<1>5. QED BY <1>1, <1>2, <1>3, <1>4 DEF SwitchNext

LEMMA ProcessIs ==
  ASSUME NEW p \in Processes
  PROVE  Process[p] \in Files /\ Offset[p] \in Nat
BY SwitchAssumption

LEMMA ProgramsInvStep ==
  ASSUME ProgramsInv, [Next]_pvars
  PROVE  ProgramsInv'
<1>1. CASE program = "part-2" /\ ShellNext /\ UNCHANGED <<program, wvars>>
  <2>1. ShellInv' /\ SwitchInv'
    BY <1>1, ShellInvStep, SwitchInvStutter DEF ProgramsInv
  <2>2. mem' \in MemoryTypes
    <3>1. mem \in MemoryTypes /\ ShellInv /\ LoadOffset \in Nat
      BY ShellAssumption DEF ProgramsInv
    <3>2. CASE running' \in Files /\ mem' = LoadAll(mem, running', LoadOffset)
      BY <3>1, <3>2, KeepsMemoryTypes
    <3>3. CASE running \in Files /\ ExecUnmaps
      <4>1. PICK written \in {{}, Mapped(mem)} :
              mem' = UnmapAll([a \in Addresses |-> IF a \in written THEN Dirty ELSE mem[a]],
                              running, LoadOffset)
        BY <3>3 DEF ExecUnmaps
      <4> DEFINE m == [a \in Addresses |-> IF a \in written THEN Dirty ELSE mem[a]]
      <4>2. m \in MemoryTypes
        BY <3>1, <3>3, KeepsMemoryTypes
      <4>3. mem' = UnmapAll(m, running, LoadOffset)
        BY <4>1
      <4> HIDE DEF m
      <4>4. QED BY <3>1, <3>3, <4>2, <4>3, KeepsMemoryTypes
    <3>4. CASE UNCHANGED mem
      BY <3>1, <3>4
    <3>5. QED BY <1>1, <3>1, <3>2, <3>3, <3>4, ShellMemory
  <2>3. ~Loaded'
    BY <1>1 DEF ProgramsInv, Loaded, wvars
  <2>4. QED BY <1>1, <2>1, <2>2, <2>3 DEF ProgramsInv
<1>2. CASE program = "part-3" /\ SwitchNext /\ UNCHANGED <<program, svars>>
  <2>1. ShellInv' /\ SwitchInv'
    BY <1>2, SwitchInvStep, ShellInvStutter DEF ProgramsInv
  <2>2. mem' \in MemoryTypes
    <3>1. mem \in MemoryTypes /\ 1 \in Processes /\ 2 \in Processes
      BY DEF ProgramsInv, Processes
    <3>2. CASE mem' = LoadAll(LoadAll(mem, Process[1], Offset[1]), Process[2], Offset[2])
      <4>1. LoadAll(mem, Process[1], Offset[1]) \in MemoryTypes
        BY <3>1, ProcessIs, KeepsMemoryTypes
      <4>2. QED BY <3>1, <3>2, <4>1, ProcessIs, KeepsMemoryTypes
    <3>3. QED BY <1>2, <3>1, <3>2, SwitchMemory
  <2>3. pc' = "prompt"
    BY <1>2 DEF ProgramsInv, svars
  <2>4. QED BY <1>2, <2>1, <2>2, <2>3 DEF ProgramsInv
<1>3. CASE UNCHANGED pvars
  <2>1. UNCHANGED <<mem, program, pc>> /\ UNCHANGED svars /\ UNCHANGED wvars /\ (Loaded' <=> Loaded)
    BY <1>3 DEF pvars, svars, wvars, Loaded
  <2>2. ShellInv' /\ SwitchInv'
    BY <2>1, ShellInvStutter, SwitchInvStutter DEF ProgramsInv
  <2>3. QED BY <2>1, <2>2 DEF ProgramsInv
<1>4. QED BY <1>1, <1>2, <1>3 DEF Next

LEMMA ProgramsInvAlways == Spec => []ProgramsInv
BY ProgramsInvInit, ProgramsInvStep, PTL DEF Spec

\* The type invariant of both programs: every variable holds a value of its type,
\* what is on the console is the end of the last line, the buffer of the command
\* loop ends in a terminator and argv points into it.
THEOREM TypeCorrect == Spec => []TypeOK
<1>1. ASSUME ProgramsInv PROVE TypeOK
  <2>1. ShellTypeOK
    BY <1>1, ShellInvTypes DEF ProgramsInv
  <2>2. mem \in [Addresses -> {Unmapped, Dirty, Zero} \cup (Files \X Nat)]
    BY <1>1 DEF ProgramsInv, MemoryTypes
  <2>3. /\ at \in {0, 1, 2} \X Nat /\ current \in {0, 1, 2}
        /\ curStack \in [{0, 1, 2} -> Nat \cup {NULL}]
    BY <1>1 DEF ProgramsInv, SwitchInv, SwitchTypes, Places
  <2>4. QED BY <2>1, <2>2, <2>3 DEF TypeOK
<1>2. QED BY <1>1, ProgramsInvAlways, PTL

\* What is in the memory: the program that runs, or part-3's two, and nothing else.
MemoryInv ==
  /\ program = "part-2" =>
       mem = IF pc = "running" THEN LoadAll(NoMemory, running, LoadOffset) ELSE NoMemory
  /\ program = "part-3" =>
       mem = IF Loaded THEN LoadAll(LoadAll(NoMemory, Process[1], Offset[1]),
                                    Process[2], Offset[2])
                       ELSE NoMemory

LEMMA MemoryInvInit ==
  ASSUME Init
  PROVE  MemoryInv
BY DEF Init, ShellInit, SwitchInit, MemoryInv, Loaded

LEMMA MemoryInvStep ==
  ASSUME ProgramsFit, ProgramsInv, MemoryInv, [Next]_pvars
  PROVE  MemoryInv'
<1>1. CASE program = "part-2" /\ ShellNext /\ UNCHANGED <<program, wvars>>
  <2>1. mem = IF pc = "running" THEN LoadAll(NoMemory, running, LoadOffset) ELSE NoMemory
    BY <1>1 DEF MemoryInv
  <2>2. CASE pc = "running" /\ pc' # "running" /\ running \in Files /\ ExecUnmaps
    <3>1. mem = LoadAll(NoMemory, running, LoadOffset)
      BY <2>1, <2>2
    <3>2. FitsAt(running, LoadOffset) /\ LoadOffset \in Nat /\ running \in Files
      BY <2>2, ShellAssumption DEF ProgramsFit
    <3>3. PICK written \in {{}, Mapped(mem)} :
            mem' = UnmapAll([a \in Addresses |-> IF a \in written THEN Dirty ELSE mem[a]],
                            running, LoadOffset)
      BY <2>2 DEF ExecUnmaps
    <3>4. mem' = NoMemory
      BY <3>1, <3>2, <3>3, UnmapsWhatItLoads
    <3>5. QED BY <1>1, <2>2, <3>4 DEF MemoryInv
  <2>3. CASE /\ pc # "running" /\ pc' = "running" /\ running' \in Files
             /\ mem' = LoadAll(mem, running', LoadOffset)
    BY <1>1, <2>1, <2>3 DEF MemoryInv
  <2>4. CASE \/ pc # "running" /\ pc' # "running" /\ UNCHANGED mem
             \/ pc = "running" /\ UNCHANGED <<mem, pc, running>>
    BY <1>1, <2>1, <2>4 DEF MemoryInv
  <2>5. ShellInv
    BY DEF ProgramsInv
  <2>6. QED BY <1>1, <2>2, <2>3, <2>4, <2>5, ShellMemory
<1>2. CASE program = "part-3" /\ SwitchNext /\ UNCHANGED <<program, svars>>
  <2>1. SwitchInv /\ Loaded'
    BY <1>2, SwitchInvStep DEF ProgramsInv
  <2>2. QED BY <1>2, <2>1, SwitchMemory DEF MemoryInv
<1>3. CASE UNCHANGED pvars
  <2>1. UNCHANGED <<mem, program, pc, running>> /\ (Loaded' <=> Loaded)
    BY <1>3 DEF pvars, svars, wvars, Loaded
  <2>2. QED BY <2>1 DEF MemoryInv
<1>4. QED BY <1>1, <1>2, <1>3 DEF Next

LEMMA MemoryInvImages ==
  ASSUME ProgramsFit, ProgramsInv, MemoryInv
  PROVE  ImagesIntact
<1>1. ASSUME pc = "running" PROVE ImageAt(mem, running, LoadOffset)
  <2>1. running \in Files /\ program = "part-2"
    BY <1>1 DEF ProgramsInv, ShellInv
  <2>2. mem = LoadAll(NoMemory, running, LoadOffset)
    BY <1>1, <2>1 DEF MemoryInv
  <2>3. LoadOffset \in Nat /\ FitsAt(running, LoadOffset)
    BY <2>1, ShellAssumption DEF ProgramsFit
  <2>4. Shows(mem, running, LoadOffset)
    BY <2>1, <2>2, <2>3, LoadOne
  <2>5. QED BY <2>1, <2>3, <2>4, ShowsImage
<1>2. ASSUME Loaded, NEW p \in Processes PROVE ImageAt(mem, Process[p], Offset[p])
  <2>1. program = "part-3"
    BY <1>2 DEF ProgramsInv
  <2>2. mem = LoadAll(LoadAll(NoMemory, Process[1], Offset[1]), Process[2], Offset[2])
    BY <1>2, <2>1 DEF MemoryInv
  <2>3. 1 \in Processes /\ 2 \in Processes /\ p \in {1, 2}
    BY DEF Processes
  <2>4. /\ FitsAt(Process[1], Offset[1]) /\ FitsAt(Process[2], Offset[2])
        /\ PagesOf(Process[1], Offset[1]) \cap PagesOf(Process[2], Offset[2]) = {}
    BY <2>3 DEF ProgramsFit
  <2>5. /\ Process[1] \in Files /\ Offset[1] \in Nat
        /\ Process[2] \in Files /\ Offset[2] \in Nat
    BY <2>3, ProcessIs
  <2>6. Shows(mem, Process[1], Offset[1]) /\ Shows(mem, Process[2], Offset[2])
    BY <2>2, <2>4, <2>5, LoadTwo
  <2>7. ImageAt(mem, Process[1], Offset[1]) /\ ImageAt(mem, Process[2], Offset[2])
    BY <2>4, <2>5, <2>6, ShowsImage
  <2>8. QED BY <2>3, <2>7
<1>3. QED BY <1>1, <1>2 DEF ImagesIntact

\* A program is entered with exactly the image its file describes, whatever ran
\* and wrote to its memory before: exec_file maps, reads and unmaps the same pages,
\* and part-3's two images do not disturb each other.  The programs are linked for
\* the addresses they are loaded at.
THEOREM ImagesAreIntact ==
  ASSUME ProgramsFit
  PROVE  Spec => []ImagesIntact
<1>1. Init => MemoryInv
  BY MemoryInvInit
<1>2. ProgramsInv /\ MemoryInv /\ [Next]_pvars => MemoryInv'
  BY MemoryInvStep
<1>3. ProgramsInv /\ MemoryInv => ImagesIntact
  BY MemoryInvImages
<1>4. QED BY <1>1, <1>2, <1>3, ProgramsInvAlways, PTL DEF Spec

\* The processes of part-3 are the coroutines they are written as: each goes on
\* where it stopped, with its own callee-saved registers and frame pointer, and
\* main is done when one has exited.
THEOREM ProcessesAreCoroutines ==
  ASSUME PrintsFirst
  PROVE  Spec => ImplementsCoroutines
<1>1. Init => Routines!CInit /\ OutputInv
  BY CoroutinesInit DEF Init
<1>2. ProgramsInv /\ OutputInv /\ [Next]_pvars
        => (Routines!CNext \/ UNCHANGED Routines!cvars) /\ OutputInv'
  <2> SUFFICES ASSUME ProgramsInv, OutputInv, [Next]_pvars
               PROVE  (Routines!CNext \/ UNCHANGED Routines!cvars) /\ OutputInv'
    OBVIOUS
  <2>1. CASE SwitchNext
    BY <2>1, CoroutinesStep DEF ProgramsInv
  <2>2. CASE UNCHANGED wvars
    BY <2>2, CoroutinesStutter
  <2>3. SwitchNext \/ UNCHANGED wvars
    BY DEF Next, pvars
  <2>4. QED BY <2>1, <2>2, <2>3
<1>3. QED BY <1>1, <1>2, ProgramsInvAlways, PTL DEF Spec, ImplementsCoroutines, Routines!CSpec

-----------------------------------------------------------------------------
(* The words of a line *)

\* Where the terminator of the line l is.
End(l) == Len(l) + 1

\* The buffer holds the line l and its terminator.
Holds(b, l) ==
  /\ b \in Buffers /\ l \in Lines /\ Fits(l)
  /\ b[End(l)] = Nul
  /\ \A i \in 1..Len(l) : b[i] = l[i] /\ l[i] # Nul

\* Where a word starts, read off the buffer.
Starts(b, l) ==
  {i \in 1..Len(l) : /\ b[i] \notin Blanks \cup {Nul}
                     /\ i = 1 \/ b[i - 1] \in Blanks \cup {Nul}}

LEMMA HoldsIs ==
  ASSUME NEW b, NEW l, Holds(b, l)
  PROVE  /\ b \in Buffers /\ b \in Seq(Bytes) /\ Len(b) \in Nat /\ Nul \notin Blanks
         /\ l \in Seq(Bytes) /\ Len(l) \in Nat /\ Len(l) >= 1 /\ DOMAIN l = 1..Len(l)
         /\ End(l) = Len(l) + 1 /\ End(l) \in 1..Len(b) /\ b[End(l)] = Nul
         /\ \A i \in 1..(End(l) - 1) : b[i] = l[i] /\ b[i] # Nul
<1>1. b \in Buffers /\ l \in Lines /\ Len(l) < BufLen /\ b[End(l)] = Nul
  BY DEF Holds, Fits
<1>2. /\ b \in Seq(Bytes) /\ Len(b) \in Nat /\ Len(b) = BufLen /\ Nul \notin Blanks
  BY <1>1, BufferIs
<1>3. l \in Seq(Bytes) /\ Len(l) \in Nat /\ Len(l) >= 1 /\ DOMAIN l = 1..Len(l)
  BY <1>1, LineIs, LenProperties
<1>4. End(l) = Len(l) + 1 /\ End(l) - 1 = Len(l) /\ End(l) \in 1..Len(b)
  BY <1>1, <1>2, <1>3 DEF End
<1>5. \A i \in 1..(End(l) - 1) : b[i] = l[i] /\ b[i] # Nul
  BY <1>4 DEF Holds
<1>6. QED BY <1>1, <1>2, <1>3, <1>4, <1>5

\* Neither pointer goes on behind the terminator.
LEMMA SkipsStop ==
  ASSUME NEW b, NEW l, Holds(b, l), NEW p \in 1..End(l)
  PROVE  SkipBlanks(b, p) \in p..End(l) /\ SkipWord(b, p) \in p..End(l)
<1>1. /\ b \in Buffers /\ Len(b) \in Nat /\ End(l) \in 1..Len(b) /\ b[End(l)] = Nul
      /\ Nul \notin Blanks
  BY HoldsIs
<1>2. p \in 1..Len(b) /\ p <= End(l) /\ p \in Nat
  BY <1>1
<1> DEFINE s == SkipBlanks(b, p)
           w == SkipWord(b, p)
<1>3. /\ s \in p..Len(b) /\ \A q \in p..(s - 1) : b[q] \in Blanks
      /\ w \in p..Len(b) /\ \A q \in p..(w - 1) : b[q] \notin Blanks \cup {Nul}
  BY <1>1, <1>2, SkipsAre
<1> HIDE DEF s, w
<1>4. End(l) \notin p..(s - 1) /\ End(l) \notin p..(w - 1)
  BY <1>1, <1>3
<1>5. s \in p..End(l) /\ w \in p..End(l)
  BY <1>1, <1>2, <1>3, <1>4
<1>6. QED BY <1>5 DEF s, w

LEMMA HoldsBlanks ==
  ASSUME NEW b, NEW l, Holds(b, l), NEW i \in 1..End(l)
  PROVE  IsBlank(l, i) <=> b[i] \in Blanks \cup {Nul}
<1>1. /\ Len(l) \in Nat /\ DOMAIN l = 1..Len(l) /\ End(l) = Len(l) + 1 /\ b[End(l)] = Nul
      /\ \A k \in 1..(End(l) - 1) : b[k] = l[k] /\ b[k] # Nul
  BY HoldsIs
<1>2. CASE i = End(l)
  <2>1. i \notin DOMAIN l
    BY <1>1, <1>2
  <2>2. QED BY <1>1, <1>2, <2>1 DEF IsBlank
<1>3. CASE i # End(l)
  <2>1. i \in 1..(End(l) - 1) /\ i \in DOMAIN l
    BY <1>1, <1>3
  <2>2. QED BY <1>1, <2>1 DEF IsBlank
<1>4. QED BY <1>2, <1>3

LEMMA HoldsStarts ==
  ASSUME NEW b, NEW l, Holds(b, l)
  PROVE  WordStarts(l) = Starts(b, l) /\ IsFiniteSet(Starts(b, l))
<1>1. Len(l) \in Nat /\ DOMAIN l = 1..Len(l) /\ End(l) = Len(l) + 1
  BY HoldsIs
<1>2. ASSUME NEW i \in WordStarts(l) PROVE i \in Starts(b, l)
  <2>1. i \in 1..Len(l) /\ ~IsBlank(l, i) /\ IsBlank(l, i - 1)
    BY <1>1 DEF WordStarts
  <2>2. i \in 1..End(l) /\ (i # 1 => i - 1 \in 1..End(l))
    BY <1>1, <2>1
  <2>3. b[i] \notin Blanks \cup {Nul}
    BY <2>1, <2>2, HoldsBlanks
  <2>4. i # 1 => b[i - 1] \in Blanks \cup {Nul}
    BY <2>1, <2>2, HoldsBlanks
  <2>5. QED BY <2>1, <2>3, <2>4 DEF Starts
<1>3. ASSUME NEW i \in Starts(b, l) PROVE i \in WordStarts(l)
  <2>1. /\ i \in 1..Len(l) /\ b[i] \notin Blanks \cup {Nul}
        /\ i = 1 \/ b[i - 1] \in Blanks \cup {Nul}
    BY <1>3 DEF Starts
  <2>2. i \in DOMAIN l /\ i \in 1..End(l) /\ (i # 1 => i - 1 \in 1..End(l))
    BY <1>1, <2>1
  <2>3. ~IsBlank(l, i)
    BY <2>1, <2>2, HoldsBlanks
  <2>4. IsBlank(l, i - 1)
    <3>1. CASE i = 1
      <4>1. i - 1 \notin DOMAIN l
        BY <1>1, <3>1
      <4>2. QED BY <4>1 DEF IsBlank
    <3>2. CASE i # 1
      BY <2>1, <2>2, <3>2, HoldsBlanks
    <3>3. QED BY <3>1, <3>2
  <2>5. QED BY <2>2, <2>3, <2>4 DEF WordStarts
<1>4. IsFiniteSet(Starts(b, l))
  <2>1. IsFiniteSet(1..Len(l)) /\ Starts(b, l) \in SUBSET (1..Len(l))
    <3>1. 1 \in Int /\ Len(l) \in Int
      BY <1>1
    <3>2. Starts(b, l) \in SUBSET (1..Len(l))
      BY DEF Starts
    <3>3. QED BY <3>1, <3>2, FS_Interval
  <2>2. QED BY <2>1, FS_Subset
<1>5. QED BY <1>2, <1>3, <1>4

\* The first pointer of split, and each one from the one before.
LEMMA FirstPointer ==
  ASSUME NEW b, NEW l, Holds(b, l)
  PROVE  /\ SkipBlanks(b, 1) \in Starts(b, l) \cup {End(l)}
         /\ \A t \in Starts(b, l) : ~(t < SkipBlanks(b, 1))
<1>1. /\ b \in Buffers /\ Len(b) \in Nat /\ End(l) \in 1..Len(b) /\ 1 \in 1..End(l)
      /\ 1 \in 1..Len(b) /\ Len(l) = End(l) - 1 /\ \A i \in 1..(End(l) - 1) : b[i] # Nul
  BY HoldsIs
<1> DEFINE q == SkipBlanks(b, 1)
<1>2. q \in 1..End(l) /\ b[q] \notin Blanks /\ \A t \in 1..(q - 1) : b[t] \in Blanks
  BY <1>1, SkipsAre, SkipsStop
<1> HIDE DEF q
<1>3. ASSUME NEW t \in Starts(b, l), t < q PROVE FALSE
  <2>1. t \in 1..(q - 1) /\ b[t] \notin Blanks
    BY <1>1, <1>2, <1>3 DEF Starts
  <2>2. QED BY <1>2, <2>1
<1>4. ASSUME q # End(l) PROVE q \in Starts(b, l)
  <2>1. q \in 1..(End(l) - 1)
    BY <1>1, <1>2, <1>4
  <2>2. b[q] \notin Blanks \cup {Nul}
    BY <1>1, <1>2, <2>1
  <2>3. q = 1 \/ b[q - 1] \in Blanks
    <3>1. q # 1 => q - 1 \in 1..(q - 1)
      BY <1>2
    <3>2. QED BY <1>2, <3>1
  <2>4. QED BY <1>1, <2>1, <2>2, <2>3 DEF Starts
<1>5. QED BY <1>3, <1>4 DEF q

LEMMA NextPointer ==
  ASSUME NEW b, NEW l, Holds(b, l), NEW p \in Starts(b, l),
         NEW q, q = SkipBlanks(b, SkipWord(b, p))
  PROVE  /\ q \in Starts(b, l) \cup {End(l)} /\ p < q
         /\ \A t \in Starts(b, l) : t < q => t <= p
<1>1. /\ b \in Buffers /\ Len(b) \in Nat /\ End(l) \in 1..Len(b) /\ Len(l) = End(l) - 1
      /\ Len(l) \in Nat /\ \A i \in 1..(End(l) - 1) : b[i] # Nul
  BY HoldsIs
<1>2. /\ p \in 1..(End(l) - 1) /\ p \in 1..End(l) /\ p \in 1..Len(b)
      /\ b[p] \notin Blanks \cup {Nul}
  BY <1>1 DEF Starts
<1> DEFINE e == SkipWord(b, p)
<1>3. /\ e \in p..End(l) /\ b[e] \in Blanks \cup {Nul}
      /\ \A t \in p..(e - 1) : b[t] \notin Blanks \cup {Nul}
  BY <1>1, <1>2, SkipsAre, SkipsStop
<1>4. q = SkipBlanks(b, e)
  OBVIOUS
<1> HIDE DEF e
<1>5. e \in 1..End(l) /\ e \in 1..Len(b) /\ p < e
  <2>1. e # p
    BY <1>2, <1>3
  <2>2. QED BY <1>1, <1>2, <1>3, <2>1
<1>6. q \in e..End(l) /\ b[q] \notin Blanks /\ \A t \in e..(q - 1) : b[t] \in Blanks
  <2>1. q \in e..End(l)
    BY <1>4, <1>5, SkipsStop
  <2>2. b[q] \notin Blanks /\ \A t \in e..(q - 1) : b[t] \in Blanks
    BY <1>1, <1>4, <1>5, SkipsAre
  <2>3. QED BY <2>1, <2>2
<1>7. p < q /\ q \in 1..End(l)
  BY <1>1, <1>2, <1>5, <1>6
<1>8. ASSUME NEW t \in Starts(b, l), t < q, ~(t <= p) PROVE FALSE
  <2>1. /\ t \in 1..(End(l) - 1) /\ b[t] \notin Blanks \cup {Nul}
        /\ t = 1 \/ b[t - 1] \in Blanks \cup {Nul}
    BY <1>1 DEF Starts
  <2>2. CASE t < e
    <3>1. t - 1 \in p..(e - 1) /\ t # 1
      BY <1>1, <1>2, <1>5, <1>8, <2>1, <2>2
    <3>2. QED BY <1>3, <2>1, <3>1
  <2>3. CASE ~(t < e)
    <3>1. t \in e..(q - 1)
      BY <1>5, <1>7, <1>8, <2>1, <2>3
    <3>2. QED BY <1>6, <2>1, <3>1
  <2>4. QED BY <2>2, <2>3
<1>9. ASSUME q # End(l) PROVE q \in Starts(b, l)
  <2>1. q \in 1..(End(l) - 1)
    BY <1>1, <1>7, <1>9
  <2>2. b[q] \notin Blanks \cup {Nul}
    BY <1>1, <1>6, <2>1
  <2>3. q # e
    BY <1>3, <2>2
  <2>4. q - 1 \in e..(q - 1)
    BY <1>5, <1>6, <2>3
  <2>5. QED BY <1>1, <1>6, <2>1, <2>2, <2>4 DEF Starts
<1>10. QED BY <1>7, <1>8, <1>9

LEMMA LastPointer ==
  ASSUME NEW b, NEW l, Holds(b, l)
  PROVE  SkipBlanks(b, SkipWord(b, End(l))) = End(l)
<1>1. End(l) \in Nat /\ End(l) \in 1..End(l)
  BY HoldsIs
<1>2. SkipWord(b, End(l)) \in End(l)..End(l)
  BY <1>1, SkipsStop
<1>3. SkipWord(b, End(l)) = End(l)
  BY <1>1, <1>2
<1>4. SkipBlanks(b, End(l)) \in End(l)..End(l)
  BY <1>1, SkipsStop
<1>5. QED BY <1>1, <1>3, <1>4

\* The pointers do not go back.
LEMMA PointersGoOn ==
  ASSUME NEW b \in Buffers
  PROVE  /\ \A i \in 1..(MaxArgs - 1) : SkipWord(b, Pointers(b)[i]) <= Pointers(b)[i + 1]
         /\ \A i, j \in 1..MaxArgs : i <= j => Pointers(b)[i] <= Pointers(b)[j]
<1> DEFINE pts == Pointers(b)
<1>1. MaxArgs \in Nat \ {0} /\ Len(b) \in Nat /\ pts \in [1..MaxArgs -> 1..Len(b)]
  BY ShellAssumption, BufferIs, PointersAre
<1>2. \A i \in 1..(MaxArgs - 1) : pts[i + 1] = SkipBlanks(b, SkipWord(b, pts[i]))
  BY PointersAre
<1> HIDE DEF pts
<1>3. ASSUME NEW i \in 1..(MaxArgs - 1)
      PROVE  SkipWord(b, pts[i]) <= pts[i + 1] /\ pts[i] <= pts[i + 1]
  <2>1. pts[i] \in 1..Len(b)
    <3>1. i \in 1..MaxArgs
      BY <1>1
    <3>2. QED BY <1>1, <3>1
  <2> DEFINE e == SkipWord(b, pts[i])
  <2>2. e \in pts[i]..Len(b)
    BY <2>1, SkipsAre
  <2> HIDE DEF e
  <2>3. e \in 1..Len(b) /\ pts[i] <= e
    BY <1>1, <2>1, <2>2
  <2>4. SkipBlanks(b, e) \in e..Len(b)
    BY <2>3, SkipsAre
  <2>5. pts[i + 1] = SkipBlanks(b, e)
    BY <1>2 DEF e
  <2>6. e <= pts[i + 1] /\ pts[i] <= pts[i + 1]
    BY <1>1, <2>1, <2>3, <2>4, <2>5
  <2>7. QED BY <2>6 DEF e
<1>4. ASSUME NEW i \in 1..MaxArgs, NEW j \in 1..MaxArgs, i <= j PROVE pts[i] <= pts[j]
  <2> DEFINE G == {d \in Nat : i + d <= MaxArgs => pts[i] <= pts[i + d]}
  <2>1. \A k \in 1..MaxArgs : pts[k] \in Nat
    BY <1>1
  <2>2. 0 \in G
    <3>1. i + 0 = i /\ pts[i] \in Nat
      BY <1>1, <2>1
    <3>2. QED BY <3>1
  <2>3. ASSUME NEW d \in G PROVE d + 1 \in G
    <3> SUFFICES ASSUME i + (d + 1) <= MaxArgs PROVE pts[i] <= pts[i + (d + 1)]
      OBVIOUS
    <3>1. /\ i + d \in 1..(MaxArgs - 1) /\ i + d <= MaxArgs /\ i + (d + 1) = (i + d) + 1
          /\ i + d \in 1..MaxArgs /\ (i + d) + 1 \in 1..MaxArgs
      BY <1>1
    <3>2. pts[i] <= pts[i + d] /\ pts[i + d] <= pts[(i + d) + 1]
      BY <1>3, <3>1
    <3>3. pts[i] \in Nat /\ pts[i + d] \in Nat /\ pts[(i + d) + 1] \in Nat
      BY <2>1, <3>1
    <3>4. QED BY <3>1, <3>2, <3>3
  <2>4. \A d \in Nat : d \in G
    <3>1. G \in SUBSET Nat
      OBVIOUS
    <3> HIDE DEF G
    <3>2. QED BY <2>2, <2>3, <3>1, SetInduction
  <2>5. j - i \in Nat /\ i + (j - i) = j
    BY <1>1, <1>4
  <2>6. j - i \in G
    BY <2>4, <2>5
  <2>7. QED BY <1>1, <2>5, <2>6
<1>5. QED BY <1>3, <1>4 DEF pts

Below(b, l, q) == {t \in Starts(b, l) : t < q}

\* The k-th pointer is at the k-th word, or at the terminator when there are fewer.
AtWord(b, l, k, q) ==
  \/ q \in Starts(b, l) /\ Cardinality(Below(b, l, q)) = k - 1
  \/ q = End(l) /\ Cardinality(Starts(b, l)) <= k - 1

LEMMA PointersAtWords ==
  ASSUME NEW b, NEW l, Holds(b, l)
  PROVE  \A k \in 1..MaxArgs : AtWord(b, l, k, Pointers(b)[k])
<1> DEFINE pts == Pointers(b)
<1>1. b \in Buffers /\ MaxArgs \in Nat \ {0} /\ IsFiniteSet(Starts(b, l))
  BY HoldsStarts, ShellAssumption DEF Holds
<1>2. /\ pts[1] = SkipBlanks(b, 1)
      /\ \A i \in 1..(MaxArgs - 1) : pts[i + 1] = SkipBlanks(b, SkipWord(b, pts[i]))
  BY <1>1, PointersAre
<1>3. Starts(b, l) \in SUBSET Nat /\ End(l) \in Nat /\ \A t \in Starts(b, l) : t < End(l)
  <2>1. End(l) \in Nat /\ Len(l) \in Nat /\ End(l) = Len(l) + 1
    BY HoldsIs
  <2>2. QED BY <2>1 DEF Starts
<1> HIDE DEF pts
<1>4. AtWord(b, l, 1, pts[1])
  <2>1. /\ pts[1] \in Starts(b, l) \cup {End(l)}
        /\ \A t \in Starts(b, l) : ~(t < pts[1])
    BY <1>2, FirstPointer
  <2>2. Below(b, l, pts[1]) = {}
    BY <2>1 DEF Below
  <2>3. Cardinality(Below(b, l, pts[1])) = 0
    BY <2>2, FS_EmptySet
  <2>4. pts[1] = End(l) => Starts(b, l) = Below(b, l, pts[1])
    BY <1>3 DEF Below
  <2>5. QED BY <2>1, <2>3, <2>4 DEF AtWord
<1>5. ASSUME NEW k \in 1..(MaxArgs - 1), AtWord(b, l, k, pts[k])
      PROVE  AtWord(b, l, k + 1, pts[k + 1])
  <2> DEFINE p == pts[k]
             q == pts[k + 1]
  <2>1. q = SkipBlanks(b, SkipWord(b, p))
    BY <1>2
  <2> HIDE DEF p, q
  <2>2. CASE p \in Starts(b, l) /\ Cardinality(Below(b, l, p)) = k - 1
    <3>1. /\ q \in Starts(b, l) \cup {End(l)} /\ p < q
          /\ \A t \in Starts(b, l) : t < q => t <= p
      BY <2>1, <2>2, NextPointer
    <3>2. Below(b, l, q) = Below(b, l, p) \cup {p}
      <4>1. p \in Below(b, l, q)
        BY <2>2, <3>1 DEF Below
      <4>2. q \in Nat /\ p \in Nat
        BY <1>3, <2>2, <3>1
      <4>3. ASSUME NEW t \in Below(b, l, p) PROVE t \in Below(b, l, q)
        <5>1. t \in Starts(b, l) /\ t < p /\ t \in Nat
          BY <1>3 DEF Below
        <5>2. t < q
          BY <3>1, <4>2, <5>1
        <5>3. QED BY <5>1, <5>2 DEF Below
      <4>4. ASSUME NEW t \in Below(b, l, q), t # p PROVE t \in Below(b, l, p)
        <5>1. t \in Starts(b, l) /\ t < q /\ t \in Nat
          BY <1>3 DEF Below
        <5>2. t <= p
          BY <3>1, <5>1
        <5>3. t < p
          BY <4>2, <4>4, <5>1, <5>2
        <5>4. QED BY <5>1, <5>3 DEF Below
      <4>5. QED BY <4>1, <4>3, <4>4
    <3>3. IsFiniteSet(Below(b, l, p)) /\ p \notin Below(b, l, p)
      <4>1. Below(b, l, p) \in SUBSET Starts(b, l)
        BY DEF Below
      <4>2. IsFiniteSet(Below(b, l, p))
        BY <1>1, <4>1, FS_Subset
      <4>3. ~(p < p)
        BY <1>3, <2>2
      <4>4. QED BY <4>2, <4>3 DEF Below
    <3>4. Cardinality(Below(b, l, q)) = (k - 1) + 1
      BY <2>2, <3>2, <3>3, FS_AddElement
    <3>5. (k - 1) + 1 = k /\ (k + 1) - 1 = k
      OBVIOUS
    <3>6. q = End(l) => Starts(b, l) = Below(b, l, q)
      BY <1>3 DEF Below
    <3>7. QED BY <3>1, <3>4, <3>5, <3>6 DEF AtWord, q
  <2>3. CASE p = End(l) /\ Cardinality(Starts(b, l)) <= k - 1
    <3>1. q = End(l)
      BY <1>1, <2>1, <2>3, LastPointer
    <3>2. Cardinality(Starts(b, l)) \in Nat
      BY <1>1, FS_CardinalityType
    <3>3. Cardinality(Starts(b, l)) <= (k + 1) - 1
      BY <2>3, <3>2
    <3>4. QED BY <3>1, <3>3 DEF AtWord, q
  <2>4. QED BY <1>5, <2>2, <2>3 DEF AtWord, p
<1> DEFINE G == {d \in Nat : d + 1 <= MaxArgs => AtWord(b, l, d + 1, pts[d + 1])}
<1>6. 0 \in G
  <2>1. 0 + 1 = 1
    OBVIOUS
  <2>2. QED BY <1>4, <2>1
<1>7. ASSUME NEW d \in G PROVE d + 1 \in G
  <2> SUFFICES ASSUME (d + 1) + 1 <= MaxArgs PROVE AtWord(b, l, (d + 1) + 1, pts[(d + 1) + 1])
    OBVIOUS
  <2>1. d + 1 \in 1..(MaxArgs - 1) /\ d + 1 <= MaxArgs
    BY <1>1
  <2>2. QED BY <1>5, <2>1
<1>8. \A d \in Nat : d \in G
  <2>1. G \in SUBSET Nat
    OBVIOUS
  <2> HIDE DEF G
  <2>2. QED BY <1>6, <1>7, <2>1, SetInduction
<1>9. ASSUME NEW k \in 1..MaxArgs PROVE AtWord(b, l, k, pts[k])
  <2>1. k - 1 \in Nat /\ (k - 1) + 1 = k /\ k <= MaxArgs
    BY <1>1
  <2>2. k - 1 \in G
    BY <1>8, <2>1
  <2>3. QED BY <2>1, <2>2
<1>10. QED BY <1>9 DEF pts

\* There are as many pointers in argv as words, up to MaxArgs.
LEMMA LesserOf ==
  ASSUME NEW a \in Nat, NEW c \in Nat
  PROVE  Min({a, c}) = IF a <= c THEN a ELSE c
<1> DEFINE S == {a, c}
<1>1. S \in SUBSET Nat /\ S # {}
  OBVIOUS
<1>2. IsFiniteSet(S)
  <2>1. IsFiniteSet({a}) /\ S = {a} \cup {c}
    BY FS_Singleton
  <2>2. QED BY <2>1, FS_AddElement
<1>3. Min(S) \in S /\ \A j \in S : Min(S) <= j
  <2> HIDE DEF S
  <2>1. QED BY <1>1, <1>2, LeastOf
<1> DEFINE m == Min(S)
<1>4. m \in {a, c} /\ m <= a /\ m <= c
  BY <1>3
<1> HIDE DEF m
<1>5. m = IF a <= c THEN a ELSE c
  BY <1>4
<1>6. QED BY <1>5 DEF m

LEMMA WordsCounted ==
  ASSUME NEW b, NEW l, Holds(b, l)
  PROVE  /\ Len(Words(b)) = Min({MaxArgs, Cardinality(Starts(b, l))})
         /\ \A i \in 1..Len(Words(b)) :
              /\ Words(b)[i] = Pointers(b)[i] /\ Pointers(b)[i] \in Starts(b, l)
              /\ Cardinality(Below(b, l, Pointers(b)[i])) = i - 1
<1> DEFINE pts == Pointers(b)
           n == Len(Words(b))
           C == Cardinality(Starts(b, l))
<1>1. /\ b \in Buffers /\ MaxArgs \in Nat \ {0} /\ IsFiniteSet(Starts(b, l)) /\ b[End(l)] = Nul
      /\ Len(l) \in Nat /\ \A t \in Starts(b, l) : t \in Nat /\ b[t] # Nul
  <2>1. b \in Buffers /\ b[End(l)] = Nul /\ Len(l) \in Nat
    BY HoldsIs
  <2>2. \A t \in Starts(b, l) : t \in Nat /\ b[t] # Nul
    BY <2>1 DEF Starts
  <2>3. QED BY <2>1, <2>2, HoldsStarts, ShellAssumption
<1>2. C \in Nat
  BY <1>1, FS_CardinalityType
<1>3. /\ n \in 0..MaxArgs
      /\ \A i \in 1..n : Words(b)[i] = pts[i] /\ b[pts[i]] # Nul
      /\ n # MaxArgs => b[pts[n + 1]] = Nul
  BY <1>1, WordsAre
<1>4. \A k \in 1..MaxArgs : AtWord(b, l, k, pts[k])
  BY PointersAtWords
<1> HIDE DEF n, C, pts
<1>5. ASSUME NEW i \in 1..n
      PROVE  pts[i] \in Starts(b, l) /\ Cardinality(Below(b, l, pts[i])) = i - 1
  <2>1. i \in 1..MaxArgs /\ pts[i] # End(l)
    BY <1>1, <1>3
  <2>2. QED BY <1>4, <2>1 DEF AtWord
<1>6. n <= C
  <2>1. CASE n = 0
    BY <1>2, <2>1
  <2>2. CASE n # 0
    <3> DEFINE p == pts[n]
    <3>1. n \in 1..n
      BY <1>1, <1>3, <2>2
    <3>2. p \in Starts(b, l) /\ Cardinality(Below(b, l, p)) = n - 1
      BY <1>5, <3>1
    <3> HIDE DEF p
    <3>3. IsFiniteSet(Below(b, l, p)) /\ p \notin Below(b, l, p)
      <4>1. Below(b, l, p) \in SUBSET Starts(b, l)
        BY DEF Below
      <4>2. IsFiniteSet(Below(b, l, p))
        BY <1>1, <4>1, FS_Subset
      <4>3. p \in Nat
        BY <1>1, <3>2
      <4>4. ~(p < p)
        BY <4>3
      <4>5. QED BY <4>2, <4>4 DEF Below
    <3>4. Cardinality(Below(b, l, p) \cup {p}) = (n - 1) + 1
      BY <3>2, <3>3, FS_AddElement
    <3>5. Below(b, l, p) \cup {p} \in SUBSET Starts(b, l)
      BY <3>2 DEF Below
    <3>6. Cardinality(Below(b, l, p) \cup {p}) <= C
      BY <1>1, <3>5, FS_Subset DEF C
    <3>7. QED BY <1>1, <1>3, <3>4, <3>6
  <2>3. QED BY <2>1, <2>2
<1>7. ASSUME n # MaxArgs PROVE C <= n
  <2>1. n + 1 \in 1..MaxArgs /\ (n + 1) - 1 = n
    BY <1>1, <1>3, <1>7
  <2>2. pts[n + 1] \notin Starts(b, l)
    BY <1>1, <1>3, <1>7
  <2>3. AtWord(b, l, n + 1, pts[n + 1])
    BY <1>4, <2>1
  <2>4. QED BY <2>1, <2>2, <2>3 DEF AtWord, C
<1>8. n = Min({MaxArgs, C})
  <2>1. Min({MaxArgs, C}) = IF MaxArgs <= C THEN MaxArgs ELSE C
    BY <1>1, <1>2, LesserOf
  <2> DEFINE m == Min({MaxArgs, C})
  <2>2. m = IF MaxArgs <= C THEN MaxArgs ELSE C
    BY <2>1
  <2> HIDE DEF m
  <2>3. n = m
    BY <1>1, <1>2, <1>3, <1>6, <1>7, <2>2
  <2>4. QED BY <2>3 DEF m
<1>9. QED BY <1>3, <1>5, <1>8 DEF n, C, pts

\* Sequences that agree on a part have that part in common.
LEMMA SamePart ==
  ASSUME NEW s \in Seq(Bytes), NEW t \in Seq(Bytes), NEW m \in Int, NEW n \in Int,
         \A i \in m..n : s[i] \in Bytes /\ s[i] = t[i]
  PROVE  SubSeq(s, m, n) = SubSeq(t, m, n)
<1> DEFINE x == SubSeq(s, m, n)
           y == SubSeq(t, m, n)
<1>1. /\ x \in Seq(Bytes) /\ Len(x) = (IF m <= n THEN n - m + 1 ELSE 0)
      /\ \A i \in 1..(n - m + 1) : x[i] = s[m + i - 1]
  <2>1. \A i \in m..n : s[i] \in Bytes
    OBVIOUS
  <2>2. QED BY <2>1, SubSeqProperties
<1>2. /\ y \in Seq(Bytes) /\ Len(y) = (IF m <= n THEN n - m + 1 ELSE 0)
      /\ \A i \in 1..(n - m + 1) : y[i] = t[m + i - 1]
  <2>1. \A i \in m..n : t[i] \in Bytes
    OBVIOUS
  <2>2. QED BY <2>1, SubSeqProperties
<1> HIDE DEF x, y
<1>3. \A i \in 1..Len(x) : x[i] = y[i]
  <2> TAKE i \in 1..Len(x)
  <2>1. i \in 1..(n - m + 1) /\ m + i - 1 \in m..n
    BY <1>1
  <2>2. s[m + i - 1] = t[m + i - 1]
    BY <2>1
  <2>3. x[i] = s[m + i - 1] /\ y[i] = t[m + i - 1]
    BY <1>1, <1>2, <2>1
  <2>4. QED BY <2>2, <2>3
<1>4. Len(x) = Len(y)
  BY <1>1, <1>2
<1>5. x = y
  BY <1>1, <1>2, <1>3, <1>4, SeqEqual
<1>6. QED BY <1>5 DEF x, y

\* A word ends before the blank or the terminator after it.
LEMMA WordEnds ==
  ASSUME NEW b, NEW l, Holds(b, l), NEW p \in Starts(b, l)
  PROVE  /\ WordAt(l, p) = SubSeq(l, p, SkipWord(b, p) - 1)
         /\ p \in 1..Len(l) /\ SkipWord(b, p) \in (p + 1)..End(l)
<1>1. /\ b \in Buffers /\ Len(b) \in Nat /\ Len(l) \in Nat /\ End(l) = Len(l) + 1
      /\ End(l) \in 1..Len(b)
  BY HoldsIs
<1>2. /\ p \in 1..Len(l) /\ p \in 1..Len(b) /\ p \in 1..End(l)
      /\ b[p] \notin Blanks \cup {Nul}
  BY <1>1 DEF Starts
<1> DEFINE e == SkipWord(b, p)
           S == {j \in p..Len(l) : IsBlank(l, j + 1)}
<1>3. /\ e \in p..End(l) /\ b[e] \in Blanks \cup {Nul}
      /\ \A t \in p..(e - 1) : b[t] \notin Blanks \cup {Nul}
  <2>1. e \in p..End(l)
    BY <1>2, SkipsStop
  <2>2. /\ b[e] \in Blanks \cup {Nul}
        /\ \A t \in p..(e - 1) : b[t] \notin Blanks \cup {Nul}
    BY <1>1, <1>2, SkipsAre
  <2>3. QED BY <2>1, <2>2
<1> HIDE DEF e
<1>4. e \in (p + 1)..End(l) /\ e - 1 \in p..Len(l) /\ (e - 1) + 1 = e /\ e \in 1..End(l)
  <2>1. e # p
    BY <1>2, <1>3
  <2>2. QED BY <1>1, <1>2, <1>3, <2>1
<1>5. e - 1 \in S
  <2>1. IsBlank(l, e)
    BY <1>3, <1>4, HoldsBlanks
  <2>2. QED BY <1>4, <2>1
<1>6. ASSUME NEW j \in S, j < e - 1 PROVE FALSE
  <2>1. j \in p..Len(l) /\ IsBlank(l, j + 1)
    OBVIOUS
  <2>2. j + 1 \in 1..End(l) /\ j + 1 \in p..(e - 1)
    BY <1>1, <1>2, <1>4, <1>6, <2>1
  <2>3. b[j + 1] \in Blanks \cup {Nul}
    BY <2>1, <2>2, HoldsBlanks
  <2>4. QED BY <1>3, <2>2, <2>3
<1>7. Min(S) \in S /\ \A j \in S : Min(S) <= j
  <2>1. S \in SUBSET (p..Len(l)) /\ S # {} /\ p \in Nat
    BY <1>2, <1>5
  <2> HIDE DEF S
  <2>2. QED BY <1>1, <2>1, LeastIn
<1>8. Min(S) = e - 1
  <2> DEFINE m == Min(S)
  <2>1. m \in Nat /\ m <= e - 1 /\ ~(m < e - 1)
    <3>1. m \in S /\ m <= e - 1
      <4> HIDE DEF S
      <4>1. QED BY <1>5, <1>7
    <3>2. m \in Nat
      <4>1. m \in p..Len(l)
        BY <3>1
      <4>2. QED BY <1>2, <4>1
    <3>3. QED BY <1>6, <3>1, <3>2
  <2> HIDE DEF m
  <2>2. m = e - 1
    BY <1>1, <1>4, <2>1
  <2>3. QED BY <2>2 DEF m
<1>9. WordAt(l, p) = SubSeq(l, p, e - 1)
  BY <1>8 DEF WordAt
<1>10. QED BY <1>2, <1>4, <1>9 DEF e

\* A string goes on to the first terminator.
LEMMA StringEnds ==
  ASSUME NEW c \in Buffers, NEW p \in 1..Len(c)
  PROVE  \E z \in p..Len(c) : /\ c[z] = Nul /\ \A q \in p..(z - 1) : c[q] # Nul
                              /\ StringAt(c, p) = SubSeq(c, p, z - 1)
<1>1. Len(c) \in Nat /\ c[Len(c)] = Nul /\ p \in Nat
  BY BufferIs
<1> DEFINE Z == {q \in p..Len(c) : c[q] = Nul}
           z == Min(Z)
<1>2. z \in Z /\ \A q \in Z : z <= q
  <2>1. Z \in SUBSET (p..Len(c)) /\ Len(c) \in Z
    BY <1>1
  <2> HIDE DEF Z
  <2>2. QED BY <1>1, <2>1, LeastIn
<1>3. StringAt(c, p) = SubSeq(c, p, z - 1)
  BY DEF StringAt
<1> HIDE DEF z
<1>4. z \in p..Len(c) /\ c[z] = Nul
  BY <1>2
<1>5. ASSUME NEW q \in p..(z - 1), c[q] = Nul PROVE FALSE
  <2>1. q \in Z /\ ~(z <= q)
    BY <1>1, <1>4, <1>5
  <2>2. QED BY <1>2, <2>1
<1>6. QED BY <1>3, <1>4, <1>5

\* What a pointer stands for once split has terminated the words: its word, or the
\* word and the rest of the line if it is the last argv has room for.
LEMMA WordsAsStrings ==
  ASSUME NEW b, NEW l, Holds(b, l), NEW c, c = Terminated(b),
         NEW i \in 1..Len(Words(b)), NEW p, p = Pointers(b)[i]
  PROVE  StringAt(c, p) = IF i < MaxArgs THEN WordAt(l, p) ELSE SubSeq(l, p, Len(l))
<1> DEFINE pts == Pointers(b)
           e == SkipWord(b, p)
<1>1. /\ b \in Buffers /\ MaxArgs \in Nat \ {0} /\ Len(b) \in Nat /\ Nul \notin Blanks
      /\ l \in Seq(Bytes) /\ Len(l) \in Nat /\ End(l) = Len(l) + 1 /\ End(l) \in 1..Len(b)
      /\ b[End(l)] = Nul /\ \A q \in 1..Len(l) : b[q] = l[q] /\ l[q] # Nul
  BY HoldsIs, ShellAssumption DEF Holds
<1>2. p \in Starts(b, l) /\ i \in 1..MaxArgs
  <2>1. p \in Starts(b, l)
    BY WordsCounted
  <2>2. Len(Words(b)) \in 0..MaxArgs
    BY <1>1, WordsAre
  <2>3. QED BY <1>1, <2>1, <2>2
<1>3. /\ WordAt(l, p) = SubSeq(l, p, e - 1)
      /\ p \in 1..Len(l) /\ e \in (p + 1)..End(l)
  BY <1>2, WordEnds
<1>4. /\ b[e] \in Blanks \cup {Nul} /\ e \in 1..Len(b) /\ p \in 1..Len(b)
      /\ \A q \in p..(e - 1) : b[q] \notin Blanks \cup {Nul}
  <2>1. p \in 1..Len(b) /\ e \in 1..Len(b)
    BY <1>1, <1>3
  <2>2. QED BY <1>1, <2>1, SkipsAre
<1>5. /\ c \in Buffers /\ Len(c) = Len(b) /\ c \in Seq(Bytes)
      /\ \A q \in 1..Len(b) : c[q] = IF b[q] \in Blanks /\ q < pts[MaxArgs] THEN Nul ELSE b[q]
  <2>1. /\ c \in Buffers /\ Len(c) = Len(b)
        /\ \A q \in 1..Len(b) : c[q] = IF b[q] \in Blanks /\ q < pts[MaxArgs] THEN Nul ELSE b[q]
    BY <1>1, TerminatedIs
  <2>2. QED BY <2>1, BufferIs
<1>6. /\ pts \in [1..MaxArgs -> 1..Len(b)]
      /\ i < MaxArgs => /\ pts[i + 1] = SkipBlanks(b, e)
                        /\ e <= pts[i + 1] /\ pts[i + 1] <= pts[MaxArgs]
  <2>1. i < MaxArgs => /\ i \in 1..(MaxArgs - 1) /\ i + 1 \in 1..MaxArgs /\ i + 1 <= MaxArgs
                       /\ MaxArgs \in 1..MaxArgs
    BY <1>1, <1>2
  <2>2. QED BY <1>1, <2>1, PointersAre, PointersGoOn
<1>7. pts[i] = p
  OBVIOUS
<1> HIDE DEF e, pts
<1>8. PICK z \in p..Len(c) : /\ c[z] = Nul /\ \A q \in p..(z - 1) : c[q] # Nul
                             /\ StringAt(c, p) = SubSeq(c, p, z - 1)
  <2>1. c \in Buffers /\ p \in 1..Len(c)
    BY <1>4, <1>5
  <2>2. QED BY <2>1, StringEnds
\* A string that ends at m, before the terminator at m + 1, is a part of the line.
<1>9. ASSUME NEW m \in p..Len(l), c[m + 1] = Nul,
             \A q \in p..m : c[q] = b[q]
      PROVE  StringAt(c, p) = SubSeq(l, p, m)
  <2>1. /\ m \in Nat /\ p \in Int /\ m \in Int /\ m + 1 \in p..Len(c) /\ (m + 1) - 1 = m
        /\ m + 1 \in Nat
    BY <1>1, <1>3, <1>5
  <2>2. \A q \in p..m : c[q] \in Bytes /\ c[q] = l[q] /\ c[q] # Nul
    <3> TAKE q \in p..m
    <3>1. q \in 1..Len(l) /\ q \in 1..Len(c)
      BY <1>1, <1>3, <1>5
    <3>2. c[q] \in Bytes
      BY <1>5, <3>1, ElementOfSeq
    <3>3. QED BY <1>1, <1>9, <3>1, <3>2
  <2>3. z \notin p..m
    BY <1>8, <2>2
  <2>4. m + 1 \notin p..(z - 1)
    BY <1>8, <1>9
  <2>5. z - 1 = m
    BY <1>3, <1>8, <2>1, <2>3, <2>4
  <2>6. SubSeq(c, p, m) = SubSeq(l, p, m)
    <3>1. /\ c \in Seq(Bytes) /\ l \in Seq(Bytes) /\ p \in Int /\ m \in Int
          /\ \A q \in p..m : c[q] \in Bytes /\ c[q] = l[q]
      BY <1>1, <1>5, <2>1, <2>2
    <3>2. QED BY <3>1, SamePart
  <2>7. QED BY <1>8, <2>5, <2>6
<1>10. CASE i < MaxArgs
  <2>1. c[e] = IF b[e] \in Blanks /\ e < pts[MaxArgs] THEN Nul ELSE b[e]
    BY <1>4, <1>5
  <2>2. b[e] \in Blanks => e < pts[MaxArgs]
    <3>1. b[pts[i + 1]] \notin Blanks
      BY <1>1, <1>4, <1>6, <1>10, SkipsAre
    <3>2. i + 1 \in 1..MaxArgs /\ MaxArgs \in 1..MaxArgs
      BY <1>1, <1>2, <1>10
    <3>3. pts[i + 1] \in Nat /\ pts[MaxArgs] \in Nat
      BY <1>6, <3>2
    <3>4. b[e] \in Blanks => e # pts[i + 1]
      BY <3>1
    <3>5. e <= pts[i + 1] /\ pts[i + 1] <= pts[MaxArgs] /\ e \in Nat
      BY <1>1, <1>4, <1>6, <1>10
    <3> DEFINE f == pts[i + 1]
               g == pts[MaxArgs]
    <3>6. f \in Nat /\ g \in Nat /\ e <= f /\ f <= g /\ (b[e] \in Blanks => e # f)
      BY <3>3, <3>4, <3>5
    <3> HIDE DEF f, g
    <3>7. b[e] \in Blanks => e < g
      BY <3>5, <3>6
    <3>8. QED BY <3>7 DEF g
  <2>3. c[e] = Nul
    BY <1>4, <2>1, <2>2
  <2>4. e - 1 \in p..Len(l) /\ (e - 1) + 1 = e
    BY <1>1, <1>3
  <2>5. \A q \in p..(e - 1) : c[q] = b[q]
    <3>1. p \in Nat \ {0} /\ e \in Nat /\ End(l) \in Nat /\ e <= End(l) /\ End(l) <= Len(b)
      BY <1>1, <1>3
    <3> DEFINE m == e
    <3>2. p \in Nat \ {0} /\ m \in Nat /\ Len(b) \in Nat /\ m <= Len(b)
      BY <1>1, <3>1
    <3> HIDE DEF m
    <3>3. p..(m - 1) \subseteq 1..Len(b)
      BY <3>2
    <3> TAKE q \in p..(e - 1)
    <3>4. q \in 1..Len(b)
      BY <3>3 DEF m
    <3>5. QED BY <1>4, <1>5, <3>4
  <2>6. StringAt(c, p) = SubSeq(l, p, e - 1)
    <3> DEFINE m == e - 1
    <3>1. m \in p..Len(l) /\ c[m + 1] = Nul /\ \A q \in p..m : c[q] = b[q]
      BY <2>3, <2>4, <2>5
    <3> HIDE DEF m
    <3>2. StringAt(c, p) = SubSeq(l, p, m)
      BY <1>9, <3>1
    <3>3. QED BY <3>2 DEF m
  <2>7. QED BY <1>3, <1>10, <2>6
<1>11. CASE ~(i < MaxArgs)
  <2>1. i = MaxArgs /\ pts[MaxArgs] = p
    BY <1>1, <1>2, <1>7, <1>11
  <2>2. \A q \in p..Len(l) : c[q] = b[q]
    <3> TAKE q \in p..Len(l)
    <3>1. q \in 1..Len(b) /\ ~(q < p)
      BY <1>1, <1>3
    <3>2. QED BY <1>5, <2>1, <3>1
  <2>3. c[Len(l) + 1] = Nul
    BY <1>1, <1>5
  <2>4. Len(l) \in p..Len(l)
    BY <1>1, <1>3
  <2>5. StringAt(c, p) = SubSeq(l, p, Len(l))
    BY <1>9, <2>2, <2>3, <2>4
  <2>6. QED BY <1>11, <2>5
<1>12. QED BY <1>10, <1>11

\* do_readline takes the whole line, and the buffer it is stored in holds it.
LEMMA WholeLine ==
  ASSUME LinesAreText, ShellInv, Fits(line), console = line, do_readline
  PROVE  console' = <<>> /\ Holds(Stored(cmd_buffer), line)
<1>1. line # <<>> /\ line \in Lines /\ ConsoleInv /\ console # <<>> /\ cmd_buffer \in Buffers
  BY DEF do_readline, ShellInv
<1>2. line \in Seq(Bytes) /\ Len(line) \in Nat /\ Len(line) >= 1 /\ DOMAIN line = 1..Len(line)
  BY <1>1, LineIs, LenProperties
<1>3. /\ Len(line) < BufLen
      /\ \A i \in 1..Len(line) : line[i] # Nul /\ (line[i] = Newline => i = Len(line))
  BY <1>1, <1>2 DEF LinesAreText, Fits
<1>4. BufLen \in Nat
  BY ShellAssumption
<1> DEFINE n == CharsRead
           L == Len(line)
<1>5. n = Len(line)
  <2>1. /\ n \in 1..L /\ n <= BufLen
        /\ n = BufLen \/ line[n] = Newline
    BY <1>1, CharsReadIs
  <2>2. L \in Nat /\ L < BufLen
    BY <1>2, <1>3
  <2>3. \A i \in 1..L : line[i] = Newline => i = L
    BY <1>3
  <2> HIDE DEF n, L
  <2>4. n = L
    BY <1>4, <2>1, <2>2, <2>3
  <2>5. QED BY <2>4 DEF L
<1>6. console' = <<>>
  <2>1. console' = SubSeq(console, CharsRead + 1, Len(console))
    BY DEF do_readline
  <2>2. n + 1 \in Int /\ Len(console) \in Int /\ Len(console) < n + 1
    BY <1>2, <1>5
  <2> HIDE DEF n
  <2>3. SubSeq(console, n + 1, Len(console)) = <<>>
    BY <2>2, SubSeqEmpty
  <2>4. QED BY <2>1, <2>3 DEF n
<1> DEFINE r == ReadBuffer
           b == Stored(cmd_buffer)
           k == Len(line) + 1
<1>7. /\ Len(r) = (IF n = BufLen THEN n ELSE n + 1)
      /\ r[Len(r)] = Nul /\ \A i \in 1..(Len(r) - 1) : r[i] = line[i]
      /\ b \in Buffers /\ \A i \in 1..Len(r) : b[i] = r[i]
  BY <1>1, ReadLine, StoredIs
<1> HIDE DEF r, b, n
<1>8. Len(r) = k /\ k \in Nat /\ k - 1 = Len(line) /\ k \in 1..k
  <2>1. L \in Nat /\ L >= 1 /\ L < BufLen /\ n = L
    BY <1>2, <1>3, <1>5
  <2>2. Len(r) = L + 1
    <3> HIDE DEF L
    <3>1. n # BufLen
      BY <1>4, <2>1
    <3>2. QED BY <1>7, <2>1, <3>1
  <2>3. QED BY <2>1, <2>2
<1> HIDE DEF k
<1>9. b[k] = Nul
  BY <1>7, <1>8
<1>10. \A i \in 1..Len(line) : b[i] = line[i] /\ line[i] # Nul
  <2> TAKE i \in 1..Len(line)
  <2>1. i \in 1..Len(r) /\ i \in 1..(Len(r) - 1)
    BY <1>2, <1>8
  <2>2. b[i] = r[i] /\ r[i] = line[i]
    BY <1>7, <2>1
  <2>3. QED BY <1>3, <2>2
<1>11. Holds(b, line)
  <2>1. b[End(line)] = Nul
    BY <1>9 DEF End, k
  <2>2. QED BY <1>1, <1>7, <1>10, <2>1 DEF Holds
<1>12. QED BY <1>6, <1>11 DEF b

LEMMA LinesWholeStep ==
  ASSUME LinesAreText, ShellInv, LinesAreWhole, ShellNext
  PROVE  LinesAreWhole'
<1>1. CASE Typed
  BY <1>1 DEF Typed, LinesAreWhole
<1>2. CASE get_next_command \/ UgrepEnds \/ UgrepReads
  <2>1. do_readline /\ line' = line
    BY <1>2 DEF get_next_command, UgrepEnds, UgrepReads
  <2>2. Fits(line) => console = line
    BY <2>1 DEF do_readline, LinesAreWhole
  <2>3. Fits(line) => console' = <<>>
    BY <2>1, <2>2, WholeLine
  <2>4. QED BY <2>1, <2>3 DEF LinesAreWhole, Fits
<1>3. CASE OpenFails \/ ExecLoads \/ ProgramReturns \/ UgrepUsage
  BY <1>3 DEF OpenFails, ExecLoads, ProgramReturns, UgrepUsage, LinesAreWhole, Fits
<1>4. QED BY <1>1, <1>2, <1>3 DEF ShellNext

\* Neither the command loop nor the program it runs starts in the middle of a line
\* the other has left, however many commands there were: do_readline takes all of
\* a line that leaves room for the terminator.
THEOREM LinesStayWhole ==
  ASSUME LinesAreText
  PROVE  Spec => []LinesAreWhole
<1>1. Init => LinesAreWhole
  BY DEF Init, ShellInit, LinesAreWhole
<1>2. ProgramsInv /\ LinesAreWhole /\ [Next]_pvars => LinesAreWhole'
  <2> SUFFICES ASSUME ProgramsInv, LinesAreWhole, [Next]_pvars PROVE LinesAreWhole'
    OBVIOUS
  <2>1. CASE ShellNext
    BY <2>1, LinesWholeStep DEF ProgramsInv
  <2>2. CASE UNCHANGED svars
    BY <2>2 DEF svars, LinesAreWhole, Fits
  <2>3. ShellNext \/ UNCHANGED svars
    BY DEF Next, pvars
  <2>4. QED BY <2>1, <2>2, <2>3
<1>3. QED BY <1>1, <1>2, ProgramsInvAlways, PTL DEF Spec

\* The command that is split is the line that was typed.
LEMMA ArgsSplit ==
  ASSUME LinesAreText, ShellInv, LinesAreWhole, get_next_command
  PROVE  ArgsAreWords'
<1> SUFFICES ASSUME Fits(line), NEW i \in 0..(MaxArgs - 1)
             PROVE  \/ i >= Cardinality(WordStarts(line)) /\ do_getarg(i)' = NullPointer
                    \/ \E s \in WordStarts(line) :
                         /\ Cardinality({t \in WordStarts(line) : t < s}) = i
                         /\ do_getarg(i)' = IF i < MaxArgs - 1 THEN WordAt(line, s)
                                                  ELSE SubSeq(line, s, Len(line))
  BY DEF get_next_command, ArgsAreWords, Fits
<1> DEFINE b == Stored(cmd_buffer)
           c == Terminated(b)
           w == Words(b)
           S == Starts(b, line)
           C == Cardinality(S)
<1>1. /\ do_readline /\ console = line /\ split(b) /\ cmd_buffer' = c
      /\ argv \in [1..MaxArgs -> 0..BufLen]
  BY DEF get_next_command, split, do_readline, LinesAreWhole, ShellInv
<1>2. Holds(b, line)
  BY <1>1, WholeLine
<1> HIDE DEF b, c
<1>3. WordStarts(line) = S /\ C \in Nat
  BY <1>2, HoldsStarts, FS_CardinalityType
<1>4. /\ argc' = Len(w) /\ Len(w) \in 0..MaxArgs
      /\ \A k \in 1..Len(w) : argv'[k] = w[k]
  BY <1>1, <1>2, SplitArgs DEF Holds
<1>5. Len(w) = IF MaxArgs <= C THEN MaxArgs ELSE C
  <2>1. MaxArgs \in Nat
    BY ShellAssumption
  <2>2. QED BY <1>2, <1>3, <2>1, WordsCounted, LesserOf
<1>6. do_getarg(i)' = IF i < argc' THEN StringAt(c, argv'[i + 1]) ELSE NullPointer
  BY <1>1 DEF do_getarg
<1> HIDE DEF C
<1>7. CASE i < Len(w)
  <2> DEFINE k == i + 1
             p == Pointers(b)[k]
  <2>1. k \in 1..Len(w) /\ k - 1 = i /\ (k < MaxArgs <=> i < MaxArgs - 1)
    BY <1>4, <1>7, ShellAssumption
  <2>2. w[k] = p /\ p \in S /\ Cardinality(Below(b, line, p)) = i
    BY <1>2, <2>1, WordsCounted
  <2>3. StringAt(c, p) = IF k < MaxArgs THEN WordAt(line, p) ELSE SubSeq(line, p, Len(line))
    <3>1. c = Terminated(b) /\ k \in 1..Len(Words(b)) /\ p = Pointers(b)[k]
      BY <2>1 DEF c
    <3> HIDE DEF k, p
    <3>2. /\ k < MaxArgs => StringAt(c, p) = WordAt(line, p)
          /\ ~(k < MaxArgs) => StringAt(c, p) = SubSeq(line, p, Len(line))
      BY <1>2, <3>1, WordsAsStrings
    <3>3. QED BY <3>2
  <2>4. argv'[k] = p
    BY <1>4, <2>1, <2>2
  <2> HIDE DEF p, w
  <2>5. do_getarg(i)' = StringAt(c, p)
    BY <1>4, <1>6, <1>7, <2>4
  <2> HIDE DEF k
  <2>6. do_getarg(i)' = IF i < MaxArgs - 1 THEN WordAt(line, p) ELSE SubSeq(line, p, Len(line))
    BY <2>1, <2>3, <2>5
  <2>7. Cardinality({t \in S : t < p}) = i
    BY <2>2 DEF Below
  <2> HIDE DEF S
  <2>8. QED BY <1>3, <2>2, <2>6, <2>7
<1>8. CASE ~(i < Len(w))
  <2> HIDE DEF w
  <2>1. i >= C
    BY <1>3, <1>5, <1>8, ShellAssumption
  <2>2. do_getarg(i)' = NullPointer
    BY <1>4, <1>6, <1>8
  <2>3. QED BY <1>3, <2>1, <2>2 DEF C
<1>9. QED BY <1>7, <1>8

LEMMA ArgsStep ==
  ASSUME LinesAreText, ShellInv, LinesAreWhole, ArgsAreWords, ShellNext
  PROVE  ArgsAreWords'
<1>1. CASE get_next_command
  BY <1>1, ArgsSplit
<1>2. CASE Typed \/ OpenFails \/ ExecLoads \/ ProgramReturns \/ UgrepUsage \/ UgrepEnds
  <2>1. pc' # "command"
    BY <1>2 DEF Typed, OpenFails, ExecLoads, ProgramReturns, UgrepUsage, UgrepEnds, ExecUnmaps
  <2>2. QED BY <2>1 DEF ArgsAreWords
<1>3. CASE UgrepReads
  <2>1. pc' # "command"
    BY <1>3 DEF UgrepReads
  <2>2. QED BY <2>1 DEF ArgsAreWords
<1>4. QED BY <1>1, <1>2, <1>3 DEF ShellNext

\* A program gets the words of the line that was typed and no others: argument i is
\* the i-th word from its first to its last character, but the last one argv has room
\* for goes on to the end of the line; and it is the null pointer if the line has no
\* such word.  The strings lie in a buffer that is written over in place and used
\* again for every line, and so is argv.
THEOREM CommandsAreWords ==
  ASSUME LinesAreText
  PROVE  Spec => []ArgsAreWords
<1>1. Init => ArgsAreWords
  BY DEF Init, ShellInit, ArgsAreWords
<1>2. ProgramsInv /\ LinesAreWhole /\ ArgsAreWords /\ [Next]_pvars => ArgsAreWords'
  <2> SUFFICES ASSUME ProgramsInv, LinesAreWhole, ArgsAreWords, [Next]_pvars
               PROVE  ArgsAreWords'
    OBVIOUS
  <2>1. CASE ShellNext
    BY <2>1, ArgsStep DEF ProgramsInv
  <2>2. CASE UNCHANGED svars
    BY <2>2 DEF svars, ArgsAreWords, do_getarg, Fits
  <2>3. ShellNext \/ UNCHANGED svars
    BY DEF Next, pvars
  <2>4. QED BY <2>1, <2>2, <2>3
<1>3. QED BY <1>1, <1>2, LinesStayWhole, ProgramsInvAlways, PTL DEF Spec

-----------------------------------------------------------------------------
(* Decoding *)

\* The remainder stays within one alphabet and changes its sign with the key.
LEMMA RemainderRange ==
  ASSUME NEW key \in Int
  PROVE  /\ Remainder(key) \in -25 .. 25
         /\ Remainder(-key) = -Remainder(key)
  BY DEF Remainder, ALPHABET_SIZE

\* encode_letter never leaves the alphabet, for keys of any size and sign.
LEMMA LetterStaysInAlphabet ==
  ASSUME NEW position \in Positions, NEW key \in Int
  PROVE  encode_letter(position, key) \in Positions
  <1>1. Remainder(key) \in -25 .. 25
    BY RemainderRange
  <1> QED
    BY <1>1 DEF encode_letter, Positions, ALPHABET_SIZE

\* The shift by the negative key brings a letter back, across both ends of the
\* alphabet.
LEMMA LetterComesBack ==
  ASSUME NEW position \in Positions, NEW key \in Int
  PROVE  encode_letter(encode_letter(position, key), -key) = position
  <1>1. Remainder(key) \in -25 .. 25 /\ Remainder(-key) = -Remainder(key)
    BY RemainderRange
  <1> QED
    BY <1>1 DEF encode_letter, Positions, ALPHABET_SIZE

\* An encoded character is one that can be decoded.
LEMMA EncodedIsCharacter ==
  ASSUME NEW c \in Characters, NEW key \in Int
  PROVE  EncodedCharacter(c, key) \in Characters
<1>1. CASE isalpha(c)
  <2>1. c[2] \in Positions
    BY <1>1 DEF Characters, Upper, Lower, isalpha
  <2>2. encode_letter(c[2], key) \in Positions
    BY <2>1, LetterStaysInAlphabet
  <2>3. QED BY <1>1, <2>2 DEF EncodedCharacter, Characters, Upper
<1>2. CASE ~isalpha(c)
  BY <1>2 DEF EncodedCharacter, isalpha, toupper, Characters, Upper, Lower
<1>3. QED BY <1>1, <1>2

\* A character that has been encoded decodes to itself in upper case.
LEMMA CharacterComesBack ==
  ASSUME NEW c \in Characters, NEW key \in Int
  PROVE  EncodedCharacter(EncodedCharacter(c, key), -key) = toupper(c)
  <1>1. CASE isalpha(c)
    <2>1. c[2] \in Positions /\ c = <<c[1], c[2]>> /\ c[1] \in {"upper", "lower"}
      BY <1>1 DEF Characters, Upper, Lower, isalpha
    <2>2. EncodedCharacter(c, key) = <<"upper", encode_letter(c[2], key)>>
      BY <1>1 DEF EncodedCharacter
    <2>3. EncodedCharacter(EncodedCharacter(c, key), -key)
            = <<"upper", encode_letter(encode_letter(c[2], key), -key)>>
      BY <2>2 DEF EncodedCharacter, isalpha
    <2>4. encode_letter(encode_letter(c[2], key), -key) = c[2]
      BY <2>1, LetterComesBack
    <2> QED
      BY <2>1, <2>3, <2>4 DEF toupper
  <1>2. CASE ~isalpha(c)
    BY <1>2 DEF EncodedCharacter, isalpha, toupper
  <1> QED
    BY <1>1, <1>2

\* ceaser.c: "decode is just encode with key sign flipped".  Of a text encoded with a
\* key, of any size and sign but for the least int, decode with that key returns every
\* character in upper case, in its place and before any other, whatever lies in memory
\* behind the encoded text, which has no terminator.
THEOREM DecodeInvertsEncode ==
  ASSUME NEW plaintext \in Seq(Characters), NEW behind \in Seq(Characters),
         NEW key \in INT_MIN .. INT_MAX, key # INT_MIN
  PROVE  LET decoded == decode(AsString(encode(plaintext, key), behind), key) IN
         \A idx \in DOMAIN plaintext :
           idx \in DOMAIN decoded /\ decoded[idx] = toupper(plaintext[idx])
<1> DEFINE block == encode(plaintext, key)
           read == block \o behind
           n == Len(plaintext)
<1>1. n \in Nat /\ DOMAIN plaintext = 1 .. n /\ Len(behind) \in Nat
  BY LenProperties
<1>2. key \in Int /\ Negated(key) = -key
  BY DEF Negated
<1>3. /\ DOMAIN block = 1 .. n
      /\ \A idx \in 1 .. n : block[idx] = EncodedCharacter(plaintext[idx], key)
  BY <1>1 DEF encode
<1>4. \A idx \in 1 .. n : block[idx] \in Characters
  <2> TAKE idx \in 1 .. n
  <2>1. plaintext[idx] \in Characters
    BY <1>1
  <2>2. QED BY <1>2, <1>3, <2>1, EncodedIsCharacter
<1>5. block \in Seq(Characters) /\ Len(block) = n
  <2>1. block = [idx \in 1 .. n |-> block[idx]]
    BY <1>1 DEF encode
  <2> HIDE DEF block, n
  <2>2. block \in [1 .. n -> Characters]
    BY <1>4, <2>1
  <2>3. QED BY <1>1, <2>2, IsASeq, LenProperties
<1> HIDE DEF block, n
<1>6. /\ DOMAIN read = 1 .. (n + Len(behind))
      /\ \A idx \in 1 .. n : read[idx] = block[idx]
  <2>1. read \in Seq(Characters) /\ Len(read) = n + Len(behind)
    BY <1>5, ConcatProperties
  <2>2. \A idx \in 1 .. n : read[idx] = block[idx]
    BY <1>1, <1>5, ConcatProperties
  <2> HIDE DEF read
  <2>3. QED BY <2>1, <2>2, LenProperties
<1> HIDE DEF read
<1>7. ASSUME NEW idx \in 1 .. n
      PROVE  idx \in DOMAIN decode(read, key) /\ decode(read, key)[idx] = toupper(plaintext[idx])
  <2>1. idx \in DOMAIN read /\ read[idx] = EncodedCharacter(plaintext[idx], key)
    BY <1>1, <1>3, <1>6
  <2>2. plaintext[idx] \in Characters
    BY <1>1
  <2>3. decode(read, key)[idx] = EncodedCharacter(read[idx], -key)
    BY <1>2, <2>1 DEF decode, encode
  <2>4. QED BY <1>2, <2>1, <2>2, <2>3, CharacterComesBack DEF decode, encode
<1>8. QED BY <1>1, <1>7 DEF read, block, AsString
=============================================================================
