-------------------------- MODULE FileSystemProofs --------------------------
(***************************************************************************)
(* The allocator of the file system for every size of disk, directory,     *)
(* inode and block: no block is ever in two files, and the bitmap knows    *)
(* all that are in use, in memory and on the disk.                         *)
(***************************************************************************)
EXTENDS FileSystem, FiniteSetTheorems, FunctionTheorems, SequenceTheorems,
        WellFoundedInduction, TLAPS

-----------------------------------------------------------------------------
(* Natural numbers *)

\* The least element of a finite set of natural numbers (FiniteSetsExt: Min).
LEMMA LeastOf ==
  ASSUME NEW S \in SUBSET Nat, S # {}, IsFiniteSet(S)
  PROVE  Min(S) \in S /\ \A j \in S : Min(S) <= j
<1> DEFINE upTo(i) == {j \in S : j <= i}
           T == {upTo(i) : i \in S}
<1>1. T # {} /\ T \subseteq FiniteSubsetsOf(S)
  <2>1. \A i \in S : upTo(i) \in SUBSET S
    OBVIOUS
  <2>2. \A U \in SUBSET S : IsFiniteSet(U)
    BY FS_Subset
  <2>3. QED BY <2>1, <2>2 DEF FiniteSubsetsOf
<1>2. PICK U \in T : \A V \in T : ~(<<V, U>> \in StrictSubsetOrdering(S))
  BY <1>1, FS_StrictSubsetOrderingWellFounded, WFMin
<1>3. PICK i \in S : U = upTo(i)
  BY <1>2
<1>4. ASSUME NEW j \in S, j < i PROVE FALSE
  <2>1. upTo(j) \in T /\ upTo(j) \subseteq U /\ i \in U /\ i \notin upTo(j)
    <3>1. upTo(j) \in T
      OBVIOUS
    <3>2. i \in upTo(i) /\ i \notin upTo(j)
      BY <1>4
    <3>3. ASSUME NEW k \in S, k <= j PROVE k <= i
      BY <1>4, <3>3
    <3>4. QED BY <1>3, <3>1, <3>2, <3>3
  <2>2. <<upTo(j), U>> \in StrictSubsetOrdering(S)
    BY <2>1, <1>3 DEF StrictSubsetOrdering
  <2>3. QED BY <1>2, <2>1, <2>2
<1>5. \A j \in S : i <= j
  BY <1>4
<1>6. QED BY <1>5 DEF Min

\* A set of natural numbers that holds 0 and with each number the next is all
\* of them.
LEMMA SetInduction ==
  ASSUME NEW S \in SUBSET Nat, 0 \in S, \A n \in S : n + 1 \in S
  PROVE  \A n \in Nat : n \in S
<1> SUFFICES ASSUME NEW n \in Nat, n \notin S PROVE FALSE
  OBVIOUS
<1> DEFINE T == {j \in 0..n : j \notin S}
<1>1. T \in SUBSET Nat /\ n \in T /\ IsFiniteSet(T)
  <2>1. IsFiniteSet(0..n) /\ T \in SUBSET (0..n)
    BY FS_Interval
  <2>2. IsFiniteSet(T)
    BY <2>1, FS_Subset
  <2>3. QED BY <2>2
<1>2. PICK m \in T : \A j \in T : m <= j
  BY <1>1, LeastOf
<1>3. m # 0 /\ m - 1 \in 0..n
  BY <1>2
<1>4. m - 1 \in S
  BY <1>2, <1>3
<1>5. m = (m - 1) + 1
  BY <1>2
<1>6. QED BY <1>2, <1>4, <1>5

\* \div and % are the quotient and the remainder.
LEMMA DivMod ==
  ASSUME NEW a \in Nat, NEW b \in Nat \ {0}
  PROVE  a \div b \in Nat /\ a % b \in 0..(b - 1) /\ a = b * (a \div b) + (a % b)
OBVIOUS

\* The k-th element of a finite set of numbers has k - 1 below it.
LEMMA NthIs ==
  ASSUME NEW S \in SUBSET Nat, IsFiniteSet(S), NEW k \in 1..Cardinality(S)
  PROVE  Nth(S, k) \in S /\ Cardinality({m \in S : m < Nth(S, k)}) = k - 1
<1> DEFINE below(l) == {m \in S : m < l}
           Ranked(n) == \E l \in S : Cardinality(below(l)) = n
           G == {n \in Nat : n < Cardinality(S) => Ranked(n)}
<1>1. Cardinality(S) \in Nat
  BY FS_CardinalityType
<1>2. 0 \in G
  <2> SUFFICES ASSUME 0 < Cardinality(S) PROVE Ranked(0)
    OBVIOUS
  <2>1. S # {}
    BY FS_EmptySet
  <2>2. PICK l \in S : \A j \in S : l <= j
    BY <2>1, LeastOf
  <2>3. below(l) = {}
    <3>1. ASSUME NEW m \in S PROVE ~(m < l)
      <4>1. l \in Nat /\ m \in Nat /\ l <= m
        BY <2>2
      <4>2. QED BY <4>1
    <3>2. QED BY <3>1
  <2>4. Cardinality(below(l)) = 0
    BY <2>3, FS_EmptySet
  <2>5. QED BY <2>4
<1>3. ASSUME NEW n \in G PROVE n + 1 \in G
  <2> SUFFICES ASSUME n + 1 < Cardinality(S) PROVE Ranked(n + 1)
    OBVIOUS
  <2>1. PICK l \in S : Cardinality(below(l)) = n
    BY <1>1
  <2>2. IsFiniteSet(below(l)) /\ l \notin below(l)
    BY FS_Subset
  <2>3. IsFiniteSet(below(l) \cup {l}) /\ Cardinality(below(l) \cup {l}) = n + 1
    BY <2>1, <2>2, FS_AddElement
  <2> DEFINE T == S \ (below(l) \cup {l})
  <2>4. T # {}
    <3>1. SUFFICES ASSUME T = {} PROVE FALSE
      OBVIOUS
    <3>2. S = below(l) \cup {l}
      BY <3>1
    <3>3. QED BY <2>3, <3>2, <1>1
  <2>5. T \in SUBSET Nat /\ T \in SUBSET S /\ IsFiniteSet(T)
    BY FS_Subset
  <2>6. PICK h \in T : \A j \in T : h <= j
    BY <2>4, <2>5, LeastOf
  <2>7. below(h) = below(l) \cup {l}
    <3>1. ASSUME NEW m \in S PROVE m < h <=> m < l \/ m = l
      <4>1. l \in Nat /\ m \in Nat /\ h \in Nat /\ h \in S
        OBVIOUS
      <4>2. ~(h < l) /\ h # l
        BY <2>6
      <4>3. m \in T \/ m < l \/ m = l
        BY <3>1
      <4>4. m \in T => h <= m
        BY <2>6
      <4>5. QED BY <4>1, <4>2, <4>3, <4>4
    <3>2. QED BY <3>1
  <2>8. Cardinality(below(h)) = n + 1
    BY <2>3, <2>7
  <2>9. QED BY <2>8
<1>4. k - 1 \in G
  <2> HIDE DEF G
  <2>1. G \in SUBSET Nat
    BY DEF G
  <2>2. k - 1 \in Nat
    BY <1>1
  <2>3. QED BY <1>2, <1>3, <2>1, <2>2, SetInduction
<1>5. Ranked(k - 1)
  BY <1>1, <1>4
<1>6. QED BY <1>5 DEF Nth

\* The sizes are natural numbers.
LEMMA Sizes ==
  /\ NumBlocks \in Nat /\ NumBlocks >= 4
  /\ Slots \in Nat \ {0} /\ NPtrs \in Nat \ {0} /\ BLK \in Nat \ {0}
  /\ MaxDepth \in Nat \ {0} /\ MaxSize \in 1..((NPtrs - 1) * BLK)
  /\ Free \notin [name : Names, inode : Nat]
BY FileSystemAssumption

\* find_first_nfree_blocks finds different free blocks, when there are so many.
LEMMA FirstFreeIs ==
  ASSUME NEW n \in 0..Cardinality(FreeBlocks)
  PROVE  /\ FirstFree(n) \in [1..n -> FreeBlocks]
         /\ \A j, k \in 1..n : FirstFree(n)[j] = FirstFree(n)[k] => j = k
<1>1. FreeBlocks \in SUBSET Nat /\ IsFiniteSet(FreeBlocks)
  <2>1. IsFiniteSet(Lbas)
    BY Sizes, FS_Interval DEF Lbas
  <2>2. FreeBlocks \in SUBSET Lbas /\ Lbas \in SUBSET Nat
    BY Sizes DEF Lbas, FreeBlocks
  <2>3. QED BY <2>1, <2>2, FS_Subset
<1>2. \A k \in 1..n : k \in 1..Cardinality(FreeBlocks)
  BY <1>1, FS_CardinalityType
<1>3. \A k \in 1..n : /\ Nth(FreeBlocks, k) \in FreeBlocks
                      /\ Cardinality({m \in FreeBlocks : m < Nth(FreeBlocks, k)}) = k - 1
  BY <1>1, <1>2, NthIs
<1>4. FirstFree(n) = [k \in 1..n |-> Nth(FreeBlocks, k)]
  BY DEF FirstFree
<1>5. FirstFree(n) \in [1..n -> FreeBlocks]
  BY <1>3, <1>4
<1>6. ASSUME NEW j \in 1..n, NEW k \in 1..n, FirstFree(n)[j] = FirstFree(n)[k]
      PROVE  j = k
  <2>1. Nth(FreeBlocks, j) = Nth(FreeBlocks, k)
    BY <1>4, <1>6
  <2>2. j - 1 = k - 1
    BY <1>3, <2>1
  <2>3. QED BY <2>2
<1>7. QED BY <1>5, <1>6

-----------------------------------------------------------------------------
(* Paths *)

\* A path is a sequence of names.
LEMMA PathIs ==
  ASSUME NEW p \in Paths
  PROVE  /\ p \in Seq(Names) /\ Len(p) \in 0..MaxDepth /\ p \in [1..Len(p) -> Names]
         /\ p = <<>> <=> Len(p) = 0
<1>1. MaxDepth \in Nat
  BY FileSystemAssumption
<1>2. PICK n \in 0..MaxDepth : p \in [1..n -> Names]
  BY DEF Paths
<1>3. p \in Seq(Names)
  BY <1>1, <1>2, SeqDef
<1>4. Len(p) = n
  <2>1. DOMAIN p = 1..n /\ DOMAIN p = 1..Len(p) /\ Len(p) \in Nat
    BY <1>2, <1>3, LenProperties
  <2>2. QED BY <1>2, <2>1
<1>5. p = <<>> <=> Len(p) = 0
  BY <1>3, EmptySeq
<1>6. QED BY <1>2, <1>3, <1>4, <1>5

\* The path of the parent, and the name in it.
LEMMA FrontIs ==
  ASSUME NEW p \in Paths, p # <<>>
  PROVE  /\ Front(p) \in Paths /\ Len(Front(p)) = Len(p) - 1 /\ Len(p) \in 1..MaxDepth
         /\ \A k \in 1..(Len(p) - 1) : Front(p)[k] = p[k]
         /\ Last(p) = p[Len(p)] /\ Last(p) \in Names
<1>1. /\ p \in Seq(Names) /\ Len(p) \in 1..MaxDepth /\ p \in [1..Len(p) -> Names]
      /\ MaxDepth \in Nat
  BY PathIs, FileSystemAssumption
<1> DEFINE n == Len(p)
<1>2. /\ Front(p) \in Seq(Names) /\ Len(Front(p)) = n - 1
      /\ \A k \in 1..(n - 1) : Front(p)[k] = p[k]
  <2>1. \A i \in 1..(n - 1) : p[i] \in Names
    BY <1>1
  <2>2. 1 \in Int /\ n - 1 \in Int
    BY <1>1
  <2>3. /\ SubSeq(p, 1, n - 1) \in Seq(Names)
        /\ Len(SubSeq(p, 1, n - 1)) = IF 1 <= n - 1 THEN (n - 1) - 1 + 1 ELSE 0
        /\ \A i \in 1..((n - 1) - 1 + 1) : SubSeq(p, 1, n - 1)[i] = p[1 + i - 1]
    BY <2>1, <2>2, SubSeqProperties
  <2> HIDE DEF n
  <2>4. n \in 1..MaxDepth
    BY <1>1 DEF n
  <2>5. Len(SubSeq(p, 1, n - 1)) = n - 1
    BY <1>1, <2>3, <2>4
  <2>6. \A k \in 1..(n - 1) : SubSeq(p, 1, n - 1)[k] = p[k]
    <3> TAKE k \in 1..(n - 1)
    <3>1. k \in 1..((n - 1) - 1 + 1) /\ 1 + k - 1 = k
      BY <1>1, <2>4
    <3>2. QED BY <2>3, <3>1
  <2>7. Front(p) = SubSeq(p, 1, n - 1)
    BY DEF Front, n
  <2>8. QED BY <2>3, <2>5, <2>6, <2>7
<1>3. Front(p) \in Paths
  <2>1. Front(p) \in [1..(n - 1) -> Names]
    BY <1>2, LenProperties
  <2>2. n - 1 \in 0..MaxDepth
    BY <1>1
  <2>3. QED BY <2>1, <2>2 DEF Paths
<1>4. Last(p) = p[Len(p)] /\ Last(p) \in Names
  BY <1>1 DEF Last
<1>5. QED BY <1>1, <1>2, <1>3, <1>4

\* A path is known by the path of its parent and its name.
LEMMA FrontAndLast ==
  ASSUME NEW p \in Paths, NEW q \in Paths, p # <<>>, q # <<>>,
         Front(p) = Front(q), Last(p) = Last(q)
  PROVE  p = q
<1>1. /\ p \in [1..Len(p) -> Names] /\ q \in [1..Len(q) -> Names]
      /\ Len(p) \in 1..MaxDepth /\ Len(q) \in 1..MaxDepth /\ MaxDepth \in Nat
  BY PathIs, FrontIs, FileSystemAssumption
<1>2. Len(p) = Len(q)
  <2>1. Len(p) - 1 = Len(q) - 1
    BY FrontIs
  <2>2. Len(p) \in Int /\ Len(q) \in Int
    BY <1>1
  <2>3. QED BY <2>1, <2>2
<1>3. ASSUME NEW k \in 1..Len(p) PROVE p[k] = q[k]
  <2>1. CASE k = Len(p)
    BY <1>2, <2>1, FrontIs
  <2>2. CASE k # Len(p)
    <3>1. k \in 1..(Len(p) - 1)
      <4>1. Len(p) \in Int
        BY <1>1
      <4>2. QED BY <2>2, <4>1
    <3>2. QED BY <1>2, <3>1, FrontIs
  <2>3. QED BY <2>1, <2>2
<1>4. QED BY <1>1, <1>2, <1>3

-----------------------------------------------------------------------------
(* Path translation *)

\* f holds the inodes on the way along p.
Walk(p, f) ==
  f = [k \in 0..Len(p) |-> IF k = 0 THEN 2 ELSE Lookup(f[k - 1], p[k])]

\* There is a way along every path, whether it leads to an inode or not.
LEMMA WalkExists ==
  ASSUME NEW p \in Paths
  PROVE  \E f : Walk(p, f)
<1> DEFINE Part(n, f) == f = [k \in 0..n |-> IF k = 0 THEN 2 ELSE Lookup(f[k - 1], p[k])]
           G == {n \in Nat : \E f : Part(n, f)}
<1>1. 0 \in G
  <2> DEFINE f == [k \in 0..0 |-> 2]
  <2>1. Part(0, f)
    OBVIOUS
  <2>2. QED BY <2>1
<1>2. ASSUME NEW n \in G PROVE n + 1 \in G
  <2>1. PICK f : Part(n, f)
    OBVIOUS
  <2> DEFINE g == [k \in 0..(n + 1) |-> IF k \in 0..n THEN f[k] ELSE Lookup(f[n], p[n + 1])]
  <2>2. ASSUME NEW k \in 0..(n + 1)
        PROVE  g[k] = IF k = 0 THEN 2 ELSE Lookup(g[k - 1], p[k])
    <3>1. CASE k = 0
      <4>1. k \in 0..n
        BY <3>1
      <4>2. f[k] = 2
        BY <2>1, <3>1, <4>1
      <4>3. QED BY <3>1, <4>1, <4>2
    <3>2. CASE k \in 1..n
      <4>1. k \in 0..n /\ k - 1 \in 0..n /\ k - 1 \in 0..(n + 1) /\ k # 0
        BY <3>2
      <4>2. f[k] = Lookup(f[k - 1], p[k])
        BY <2>1, <4>1
      <4>3. g[k] = f[k] /\ g[k - 1] = f[k - 1]
        BY <4>1
      <4>4. QED BY <4>1, <4>2, <4>3
    <3>3. CASE k = n + 1
      <4>1. k \notin 0..n /\ k - 1 = n /\ n \in 0..n /\ k # 0 /\ n \in 0..(n + 1)
        BY <3>3
      <4>2. g[k] = Lookup(f[n], p[n + 1]) /\ g[k - 1] = f[n]
        BY <4>1
      <4>3. QED BY <3>3, <4>1, <4>2
    <3>4. QED BY <3>1, <3>2, <3>3
  <2>3. Part(n + 1, g)
    BY <2>2
  <2>4. \E h : Part(n + 1, h)
    BY <2>3
  <2> HIDE DEF Part
  <2>5. QED BY <2>4
<1>3. Len(p) \in G
  <2> HIDE DEF G
  <2>1. G \in SUBSET Nat
    BY DEF G
  <2>2. Len(p) \in Nat
    BY PathIs, FileSystemAssumption
  <2>3. QED BY <1>1, <1>2, <2>1, <2>2, SetInduction
<1>4. QED BY <1>3 DEF Walk

\* There is only one.
LEMMA WalkUnique ==
  ASSUME NEW p \in Paths, NEW q \in Paths, NEW f, NEW g, Walk(p, f), Walk(q, g),
         Len(q) <= Len(p), \A k \in 1..Len(q) : q[k] = p[k]
  PROVE  \A k \in 0..Len(q) : f[k] = g[k]
<1>1. Len(p) \in Nat /\ Len(q) \in Nat
  BY PathIs, FileSystemAssumption
<1> DEFINE G == {n \in Nat : n <= Len(q) => f[n] = g[n]}
<1>2. 0 \in G
  BY <1>1 DEF Walk
<1>3. ASSUME NEW n \in G PROVE n + 1 \in G
  <2> SUFFICES ASSUME n + 1 <= Len(q) PROVE f[n + 1] = g[n + 1]
    OBVIOUS
  <2>1. f[n] = g[n] /\ n + 1 \in 0..Len(q) /\ n + 1 \in 0..Len(p) /\ (n + 1) - 1 = n
    BY <1>1
  <2>2. f[n + 1] = Lookup(f[n], p[n + 1])
    BY <2>1 DEF Walk
  <2>3. g[n + 1] = Lookup(g[n], q[n + 1])
    BY <2>1 DEF Walk
  <2>4. n + 1 \in 1..Len(q)
    BY <2>1
  <2>5. QED BY <2>1, <2>2, <2>3, <2>4
<1>4. G \in SUBSET Nat
  OBVIOUS
<1>5. \A n \in Nat : n \in G
  <2> HIDE DEF G
  <2>1. QED BY <1>2, <1>3, <1>4, SetInduction
<1>6. QED BY <1>1, <1>5

\* translate follows the way.
LEMMA TranslateIs ==
  ASSUME NEW p \in Paths
  PROVE  \E f : Walk(p, f) /\ translate(p) = f[Len(p)]
<1>1. translate(p) = (CHOOSE at : Walk(p, at))[Len(p)]
  BY DEF translate, Walk
<1>2. Walk(p, CHOOSE at : Walk(p, at))
  BY WalkExists
<1>3. QED BY <1>1, <1>2

\* The root is inode 2; any other path leads where its parent has its name.
LEMMA TranslateStep ==
  /\ <<>> \in Paths /\ translate(<<>>) = 2
  /\ \A p \in Paths : p # <<>> => translate(p) = Lookup(translate(Front(p)), Last(p))
<1>1. <<>> \in Paths
  <2>1. 0 \in 0..MaxDepth
    BY FileSystemAssumption
  <2>2. <<>> \in [1..0 -> Names]
    OBVIOUS
  <2>3. QED BY <2>1, <2>2 DEF Paths
<1>2. translate(<<>>) = 2
  <2>1. PICK f : Walk(<<>>, f) /\ translate(<<>>) = f[Len(<<>>)]
    BY <1>1, TranslateIs
  <2>2. Len(<<>>) = 0
    BY <1>1, PathIs
  <2>3. QED BY <2>1, <2>2 DEF Walk
<1>3. ASSUME NEW p \in Paths, p # <<>>
      PROVE  translate(p) = Lookup(translate(Front(p)), Last(p))
  <2>1. PICK f : Walk(p, f) /\ translate(p) = f[Len(p)]
    BY TranslateIs
  <2>2. PICK g : Walk(Front(p), g) /\ translate(Front(p)) = g[Len(Front(p))]
    BY <1>3, FrontIs, TranslateIs
  <2>3. /\ Len(p) \in Nat \ {0} /\ Len(Front(p)) = Len(p) - 1 /\ Last(p) = p[Len(p)]
        /\ \A k \in 1..Len(Front(p)) : Front(p)[k] = p[k] /\ Front(p) \in Paths
    BY <1>3, FrontIs, FileSystemAssumption
  <2>4. f[Len(p) - 1] = g[Len(p) - 1]
    <3>1. Len(Front(p)) <= Len(p) /\ Len(Front(p)) \in 0..Len(Front(p)) /\ Front(p) \in Paths
      BY <1>3, <2>3, FrontIs
    <3>2. QED BY <2>1, <2>2, <2>3, <3>1, WalkUnique
  <2>5. f[Len(p)] = Lookup(f[Len(p) - 1], p[Len(p)])
    <3>1. Len(p) \in 0..Len(p) /\ Len(p) # 0
      BY <2>3
    <3>2. QED BY <2>1, <3>1 DEF Walk
  <2>6. QED BY <2>1, <2>2, <2>3, <2>4, <2>5
<1>4. QED BY <1>1, <1>2, <1>3

-----------------------------------------------------------------------------
(* Sizes in blocks *)

\* A larger number has no smaller quotient.
LEMMA DivMonotone ==
  ASSUME NEW a \in Nat, NEW b \in Nat, a <= b, NEW m \in Nat \ {0}
  PROVE  a \div m <= b \div m
<1> DEFINE q == a \div m
           r == b \div m
<1>1. /\ q \in Nat /\ a % m \in 0..(m - 1) /\ a = m * q + (a % m)
      /\ r \in Nat /\ b % m \in 0..(m - 1) /\ b = m * r + (b % m)
  BY DivMod
<1> HIDE DEF q, r
<1>2. SUFFICES ASSUME r + 1 <= q PROVE FALSE
  BY <1>1 DEF q, r
<1>3. PICK k \in Nat : q = r + 1 + k
  <2>1. q - (r + 1) \in Nat /\ q = r + 1 + (q - (r + 1))
    BY <1>1, <1>2
  <2>2. QED BY <2>1
<1>4. m * q = m * r + m + m * k /\ m * k \in Nat /\ m * r \in Nat
  BY <1>1, <1>3
<1>5. QED BY <1>1, <1>4

\* The quotient of what is less than a multiple is less than the factor.
LEMMA DivBelow ==
  ASSUME NEW a \in Nat, NEW n \in Nat, NEW m \in Nat \ {0}, a < n * m
  PROVE  a \div m <= n - 1
<1> DEFINE q == a \div m
<1>1. q \in Nat /\ a % m \in 0..(m - 1) /\ a = m * q + (a % m)
  BY DivMod
<1> HIDE DEF q
<1>2. SUFFICES ASSUME n <= q PROVE FALSE
  BY <1>1 DEF q
<1>3. PICK k \in Nat : q = n + k
  <2>1. q - n \in Nat /\ q = n + (q - n)
    BY <1>1, <1>2
  <2>2. QED BY <2>1
<1>4. m * q = n * m + m * k /\ m * k \in Nat
  BY <1>1, <1>3
<1>5. QED BY <1>1, <1>4

\* The last of a file's units is in its last block.
LEMMA BlocksIs ==
  ASSUME NEW size \in Nat
  PROVE  /\ Blocks(size) \in Nat
         /\ size = 0 => Blocks(size) = 0
         /\ size > 0 => Blocks(size) = ((size - 1) \div BLK) + 1
<1>1. BLK \in Nat \ {0}
  BY Sizes
<1> DEFINE q == size \div BLK
           r == size % BLK
<1>2. q \in Nat /\ r \in 0..(BLK - 1) /\ size = BLK * q + r
  BY <1>1, DivMod
<1>3. Blocks(size) = q + (IF r > 0 THEN 1 ELSE 0)
  BY DEF Blocks
<1> HIDE DEF q, r
<1>4. ASSUME size = 0 PROVE q = 0 /\ r = 0
  <2>1. BLK * q \in Nat
    BY <1>1, <1>2
  <2>2. BLK * q = 0 /\ r = 0
    BY <1>2, <1>4, <2>1
  <2>3. QED BY <1>1, <1>2, <2>2
<1>5. ASSUME size > 0 PROVE (size - 1) \div BLK = IF r > 0 THEN q ELSE q - 1
  <2> DEFINE a == size - 1
             x == a \div BLK
  <2>1. a \in Nat
    BY <1>5
  <2>2. x \in Nat /\ a % BLK \in 0..(BLK - 1) /\ a = BLK * x + (a % BLK)
    BY <1>1, <2>1, DivMod
  <2>3. x <= q
    BY <1>1, <2>1, DivMonotone DEF q
  <2>4. CASE r > 0
    <3>1. SUFFICES ASSUME x + 1 <= q PROVE FALSE
      BY <1>2, <2>2, <2>3, <2>4
    <3>2. PICK k \in Nat : q = x + 1 + k
      <4>1. q - (x + 1) \in Nat /\ q = x + 1 + (q - (x + 1))
        BY <1>2, <2>2, <3>1
      <4>2. QED BY <4>1
    <3>3. BLK * q = BLK * x + BLK + BLK * k /\ BLK * k \in Nat /\ BLK * x \in Nat
      BY <1>1, <2>2, <3>2
    <3>4. QED BY <1>1, <1>2, <2>2, <2>4, <3>3
  <2>5. CASE r = 0
    <3>1. q # 0
      <4>1. q = 0 => BLK * q = 0
        BY <1>1
      <4>2. QED BY <1>2, <1>5, <2>5, <4>1
    <3>2. ~(x = q)
      <4>1. SUFFICES ASSUME x = q PROVE FALSE
        OBVIOUS
      <4>2. BLK * x = BLK * q /\ BLK * q \in Nat
        BY <1>1, <1>2, <4>1
      <4>3. QED BY <1>1, <1>2, <2>2, <2>5, <4>2
    <3>3. ~(x + 2 <= q)
      <4>1. SUFFICES ASSUME x + 2 <= q PROVE FALSE
        OBVIOUS
      <4>2. PICK k \in Nat : q = x + 2 + k
        <5>1. q - (x + 2) \in Nat /\ q = x + 2 + (q - (x + 2))
          BY <1>2, <2>2, <4>1
        <5>2. QED BY <5>1
      <4>3. BLK * q = BLK * x + 2 * BLK + BLK * k /\ BLK * k \in Nat /\ BLK * x \in Nat
        BY <1>1, <2>2, <4>2
      <4>4. QED BY <1>1, <1>2, <2>2, <2>5, <4>3
    <3>4. QED BY <1>2, <2>2, <2>3, <2>5, <3>1, <3>2, <3>3
  <2>6. QED BY <1>2, <2>4, <2>5
<1>6. QED BY <1>2, <1>3, <1>4, <1>5

\* A directory and an empty file.
LEMMA SmallSizes == Blocks(BLK) = 1 /\ Blocks(0) = 0
<1>1. BLK \in Nat \ {0}
  BY Sizes
<1>2. (BLK - 1) \div BLK = 0
  <2> DEFINE a == BLK - 1
             x == a \div BLK
  <2>1. x \in Nat /\ a < 1 * BLK /\ a \in Nat
    BY <1>1, DivMod
  <2>2. x <= 1 - 1
    BY <1>1, <2>1, DivBelow
  <2>3. QED BY <2>1, <2>2
<1>3. Blocks(BLK) = 1
  BY <1>1, <1>2, BlocksIs
<1>4. QED BY <1>3, BlocksIs

\* A larger file has no fewer blocks, and one that may be written has a pointer
\* to spare.
LEMMA BlocksMonotone ==
  ASSUME NEW a \in Nat, NEW b \in Nat, a <= b
  PROVE  Blocks(a) <= Blocks(b) /\ (b <= MaxSize => Blocks(b) <= NPtrs - 1)
<1>1. BLK \in Nat \ {0} /\ NPtrs \in Nat \ {0} /\ MaxSize \in 1..((NPtrs - 1) * BLK)
  BY Sizes
<1>2. Blocks(a) <= Blocks(b)
  <2>1. CASE a = 0
    BY <2>1, BlocksIs
  <2>2. CASE a > 0
    <3>1. a - 1 \in Nat /\ b - 1 \in Nat /\ a - 1 <= b - 1
      BY <2>2
    <3>2. (a - 1) \div BLK <= (b - 1) \div BLK
      BY <1>1, <3>1, DivMonotone
    <3>3. (a - 1) \div BLK \in Nat /\ (b - 1) \div BLK \in Nat
      BY <1>1, <3>1, DivMod
    <3>4. Blocks(a) = ((a - 1) \div BLK) + 1 /\ Blocks(b) = ((b - 1) \div BLK) + 1
      BY <2>2, BlocksIs
    <3>5. QED BY <3>2, <3>3, <3>4
  <2>3. QED BY <2>1, <2>2
<1>3. ASSUME b <= MaxSize PROVE Blocks(b) <= NPtrs - 1
  <2>1. CASE b = 0
    BY <1>1, <2>1, BlocksIs
  <2>2. CASE b > 0
    <3>1. b - 1 \in Nat /\ NPtrs - 1 \in Nat /\ b - 1 < (NPtrs - 1) * BLK
      <4>1. (NPtrs - 1) * BLK \in Nat
        BY <1>1
      <4>2. QED BY <1>1, <1>3, <2>2, <4>1
    <3>2. (b - 1) \div BLK <= (NPtrs - 1) - 1
      BY <1>1, <3>1, DivBelow
    <3>3. (b - 1) \div BLK \in Nat
      BY <1>1, <3>1, DivMod
    <3>4. QED BY <1>1, <2>2, <3>2, <3>3, BlocksIs
  <2>3. QED BY <2>1, <2>2
<1>4. QED BY <1>2, <1>3

-----------------------------------------------------------------------------
(* A disk d with the blocks in used marked, whatever paths lead to *)

Ino(d) == {i \in Lbas : d[i].kind = "inode"}
DirIno(d) == {i \in Ino(d) : d[i].dir}

\* The pointers of inode i that are in use, and the entries of directory i.
Used(d, i) == 0..(Blocks(d[i].size) - 1)
SlotSet == 0..(Slots - 1)
EntriesOn(d, i) == d[d[i].ptrs[0]].entries
Entry == [name : Names, inode : Nat]

\* No inode has block l as a data block.
Unowned(d, l) == \A i \in Ino(d) : \A k \in Used(d, i) : d[i].ptrs[k] # l

\* Entry s of directory i is in use.
Valid(d, i, s) == i \in DirIno(d) /\ s \in SlotSet /\ EntriesOn(d, i)[s] # Free

InodeOK(d, used, i) ==
  /\ d[i] \in [kind : {"inode"}, dir : BOOLEAN, size : Nat, ptrs : [0..(NPtrs - 1) -> Int]]
  /\ Blocks(d[i].size) \in 0..(NPtrs - 1)
  /\ \A k \in Used(d, i) : d[i].ptrs[k] \in used

DirOK(d, i) ==
  /\ d[i].size = BLK
  /\ d[d[i].ptrs[0]] \in [kind : {"directory"}, entries : [SlotSet -> Entry \cup {Free}]]

FileOK(d, i) == \A k \in Used(d, i) : d[d[i].ptrs[k]].kind \in {"data", "stale"}

\* The bitmap on the disk is the one in memory, and what is not marked is free.
BitmapOK(d, used) ==
  /\ used \subseteq Lbas /\ 0..3 \subseteq used /\ DOMAIN d = Lbas
  /\ d[0] = [kind |-> "super"] /\ d[1] = Bitmap(used)
  /\ \A l \in Lbas \ used : d[l] = Stale

InodesOK(d, used) ==
  /\ \A i \in Ino(d) : InodeOK(d, used, i)
  /\ \A i \in Ino(d) : IF d[i].dir THEN DirOK(d, i) ELSE FileOK(d, i)
  /\ 2 \in DirIno(d) /\ d[2].ptrs[0] = 3

\* A block has one owner, and is one of its blocks.
OwnersOK(d) ==
  \A i, j \in Ino(d) : \A k \in Used(d, i), m \in Used(d, j) :
    d[i].ptrs[k] = d[j].ptrs[m] => i = j /\ k = m

\* Entries lead to inodes, each to its own, and never to the root; a directory
\* has a name once.
EntriesOK(d) ==
  /\ \A i, s : Valid(d, i, s) => EntriesOn(d, i)[s].inode \in Ino(d) \ {2}
  /\ \A i, j, s, t : Valid(d, i, s) /\ Valid(d, j, t)
       /\ EntriesOn(d, i)[s].inode = EntriesOn(d, j)[t].inode => i = j /\ s = t
  /\ \A i, s, t : Valid(d, i, s) /\ Valid(d, i, t)
       /\ EntriesOn(d, i)[s].name = EntriesOn(d, i)[t].name => s = t

\* All of it holds of inodes that no path leads to any more, too: an unlinked
\* directory leaves those below it behind, with their bits set.
Sound(d, used) ==
  BitmapOK(d, used) /\ InodesOK(d, used) /\ OwnersOK(d) /\ EntriesOK(d)

IInv == Sound(disk, bitmap) /\ bfree \in Int

-----------------------------------------------------------------------------
(* How a sound disk may change *)

\* Inodes and their blocks are marked; a block of an inode is no inode and
\* neither the superblock nor the bitmap; a directory has one block.
MarkFacts(d, used) ==
  /\ used \subseteq Lbas /\ Ino(d) \subseteq used /\ 0..3 \subseteq used
  /\ d[0].kind = "super" /\ d[1] = Bitmap(used) /\ d[1].kind = "bitmap"
  /\ \A l \in Lbas \ used : d[l] = Stale /\ d[l].kind = "stale"
InoFacts(d) ==
  \A i \in Ino(d) :
    /\ i \notin {0, 1, 3} /\ d[i].size \in Nat /\ d[i].dir \in BOOLEAN
    /\ d[i].kind = "inode" /\ d[i].ptrs \in [0..(NPtrs - 1) -> Int]
    /\ Blocks(d[i].size) \in 0..(NPtrs - 1)
PtrFacts(d, used) ==
  \A i \in Ino(d) : \A k \in Used(d, i) :
    /\ k \in 0..(NPtrs - 1) /\ d[i].ptrs[k] \in used \ Ino(d) /\ d[i].ptrs[k] \notin {0, 1}
    /\ d[i].ptrs[k] \in Lbas
DirFacts(d) ==
  /\ \A i \in DirIno(d) :
       /\ Used(d, i) = {0} /\ d[i].dir /\ i \in Ino(d) /\ 0 \in Used(d, i)
       /\ d[d[i].ptrs[0]] = Directory(EntriesOn(d, i)) /\ d[d[i].ptrs[0]].kind = "directory"
       /\ EntriesOn(d, i) \in [SlotSet -> Entry \cup {Free}]
  /\ 2 \in DirIno(d) /\ d[2].ptrs[0] = 3 /\ d[3].kind = "directory"
FileFacts(d) ==
  \A i \in Ino(d) \ DirIno(d) :
    ~d[i].dir /\ \A k \in Used(d, i) : d[d[i].ptrs[k]].kind \in {"data", "stale"}
Facts(d, used) ==
  MarkFacts(d, used) /\ InoFacts(d) /\ PtrFacts(d, used) /\ DirFacts(d) /\ FileFacts(d)

\* What a sound disk is like, block by block.
LEMMA SoundFacts ==
  ASSUME NEW d, NEW used, Sound(d, used)
  PROVE  Facts(d, used)
<1>1. BitmapOK(d, used) /\ InodesOK(d, used)
  BY DEF Sound
<1>2. /\ used \subseteq Lbas /\ 0..3 \subseteq used /\ d[0].kind = "super"
      /\ d[1] = Bitmap(used) /\ d[1].kind = "bitmap"
  BY <1>1 DEF BitmapOK, Bitmap
<1>3. \A l \in Lbas \ used : d[l] = Stale /\ d[l].kind = "stale"
  BY <1>1 DEF BitmapOK, Stale
<1>4. \A i \in DirIno(d) :
        /\ Used(d, i) = {0} /\ d[i].dir /\ i \in Ino(d) /\ 0 \in Used(d, i)
        /\ d[d[i].ptrs[0]] = Directory(EntriesOn(d, i)) /\ d[d[i].ptrs[0]].kind = "directory"
        /\ EntriesOn(d, i) \in [SlotSet -> Entry \cup {Free}]
  <2> TAKE i \in DirIno(d)
  <2>1. i \in Ino(d) /\ d[i].dir /\ DirOK(d, i)
    BY <1>1 DEF DirIno, InodesOK
  <2>2. Used(d, i) = {0}
    <3>1. d[i].size = BLK
      BY <2>1 DEF DirOK
    <3>2. Used(d, i) = 0..(1 - 1)
      BY <3>1, SmallSizes DEF Used
    <3>3. QED BY <3>2
  <2>3. QED BY <2>1, <2>2 DEF DirOK, EntriesOn, Directory
<1>5. \A i \in Ino(d) \ DirIno(d) :
        ~d[i].dir /\ \A k \in Used(d, i) : d[d[i].ptrs[k]].kind \in {"data", "stale"}
  BY <1>1 DEF InodesOK, FileOK, DirIno
<1>6. 2 \in DirIno(d) /\ d[2].ptrs[0] = 3 /\ d[3].kind = "directory"
  <2>1. 2 \in DirIno(d) /\ d[2].ptrs[0] = 3
    BY <1>1 DEF InodesOK
  <2>2. d[d[2].ptrs[0]].kind = "directory"
    BY <1>4, <2>1
  <2>3. QED BY <2>1, <2>2
<1>7. Ino(d) \subseteq used
  BY <1>3 DEF Ino
<1>8. ASSUME NEW i \in Ino(d)
      PROVE  /\ i \notin {0, 1, 3} /\ d[i].size \in Nat /\ d[i].dir \in BOOLEAN
             /\ d[i].kind = "inode" /\ d[i].ptrs \in [0..(NPtrs - 1) -> Int]
             /\ Blocks(d[i].size) \in 0..(NPtrs - 1)
             /\ \A k \in Used(d, i) : /\ k \in 0..(NPtrs - 1)
                                      /\ d[i].ptrs[k] \in used \ Ino(d)
                                      /\ d[i].ptrs[k] \notin {0, 1} /\ d[i].ptrs[k] \in Lbas
  <2>1. i \notin {0, 1, 3} /\ d[i].kind = "inode"
    BY <1>2, <1>6 DEF Ino
  <2>2. /\ d[i] \in [kind : {"inode"}, dir : BOOLEAN, size : Nat, ptrs : [0..(NPtrs - 1) -> Int]]
        /\ Blocks(d[i].size) \in 0..(NPtrs - 1)
        /\ \A k \in Used(d, i) : d[i].ptrs[k] \in used
    BY <1>1 DEF InodesOK, InodeOK
  <2>3. ASSUME NEW k \in Used(d, i)
        PROVE  /\ k \in 0..(NPtrs - 1) /\ d[i].ptrs[k] \in used \ Ino(d)
               /\ d[i].ptrs[k] \notin {0, 1} /\ d[i].ptrs[k] \in Lbas
    <3>1. k \in 0..(NPtrs - 1)
      BY <2>2, Sizes DEF Used
    <3>2. d[d[i].ptrs[k]].kind \in {"directory", "data", "stale"}
      <4>1. CASE i \in DirIno(d)
        BY <1>4, <4>1
      <4>2. CASE i \notin DirIno(d)
        BY <1>5, <4>2
      <4>3. QED BY <4>1, <4>2
    <3>3. QED BY <1>2, <2>2, <3>1, <3>2 DEF Ino
  <2>4. QED BY <2>1, <2>2, <2>3
<1>9. QED
  BY <1>2, <1>3, <1>4, <1>5, <1>6, <1>7, <1>8
     DEF Facts, MarkFacts, InoFacts, PtrFacts, DirFacts, FileFacts

\* Inodes and directories stay, bits may be set and data may be written.
LEMMA SameTree ==
  ASSUME NEW d, NEW used, Sound(d, used), NEW e, NEW marked, BitmapOK(e, marked),
         used \subseteq marked, Ino(e) = Ino(d), \A i \in Ino(d) : e[i] = d[i],
         \A i \in DirIno(d) : e[d[i].ptrs[0]] = d[d[i].ptrs[0]],
         \A i \in Ino(d) \ DirIno(d) :
           \A k \in Used(d, i) : e[d[i].ptrs[k]].kind \in {"data", "stale"}
  PROVE  Sound(e, marked)
<1>1. InodesOK(d, used) /\ OwnersOK(d) /\ EntriesOK(d)
  BY DEF Sound
<1>2. DirIno(e) = DirIno(d) /\ \A i \in Ino(d) : Used(e, i) = Used(d, i)
  BY DEF DirIno, Used
<1>3. \A i \in DirIno(d) : EntriesOn(e, i) = EntriesOn(d, i) /\ i \in Ino(d)
  BY DEF EntriesOn, DirIno
<1>4. InodesOK(e, marked)
  <2>1. \A i \in Ino(e) : InodeOK(e, marked, i)
    BY <1>1, <1>2 DEF InodesOK, InodeOK
  <2>2. ASSUME NEW i \in Ino(e) PROVE IF e[i].dir THEN DirOK(e, i) ELSE FileOK(e, i)
    <3>1. CASE d[i].dir
      BY <1>1, <3>1 DEF InodesOK, DirOK, DirIno
    <3>2. CASE ~d[i].dir
      BY <1>2, <3>2 DEF FileOK, DirIno
    <3>3. QED BY <3>1, <3>2
  <2>3. QED BY <1>1, <1>2, <1>3, <2>1, <2>2 DEF InodesOK
<1>5. OwnersOK(e)
  BY <1>1, <1>2 DEF OwnersOK
<1>6. EntriesOK(e)
  <2>1. \A i, s : Valid(e, i, s) <=> Valid(d, i, s)
    BY <1>2, <1>3 DEF Valid
  <2>2. \A i, s : Valid(d, i, s) => EntriesOn(e, i)[s] = EntriesOn(d, i)[s]
    BY <1>3 DEF Valid
  <2>3. QED BY <1>1, <2>1, <2>2 DEF EntriesOK
<1>7. QED BY <1>4, <1>5, <1>6 DEF Sound

\* Bits are set.
LEMMA Marks ==
  ASSUME NEW d, NEW used, Sound(d, used), NEW e, NEW marked,
         used \subseteq marked, marked \subseteq Lbas, DOMAIN e = Lbas,
         e[1] = Bitmap(marked), \A l \in Lbas \ {1} : e[l] = d[l]
  PROVE  Sound(e, marked)
<1>1. Facts(d, used)
  BY SoundFacts
<1>2. BitmapOK(e, marked)
  <2>1. 0 \in Lbas \ {1} /\ 1 \notin Lbas \ marked
    BY <1>1, Sizes DEF Facts, MarkFacts, Lbas
  <2>2. BitmapOK(d, used)
    BY DEF Sound
  <2>3. QED BY <2>1, <2>2 DEF BitmapOK
<1>3. e[1].kind = "bitmap"
  BY DEF Bitmap
<1>4. Ino(e) = Ino(d) /\ \A i \in Ino(d) : e[i] = d[i]
  BY <1>1, <1>3 DEF Ino, Facts, MarkFacts
<1>5. \A i \in Ino(d) : \A k \in Used(d, i) : e[d[i].ptrs[k]] = d[d[i].ptrs[k]]
  BY <1>1 DEF Facts, PtrFacts
<1>6. \A i \in DirIno(d) : e[d[i].ptrs[0]] = d[d[i].ptrs[0]]
  <2> TAKE i \in DirIno(d)
  <2>1. i \in Ino(d) /\ 0 \in Used(d, i)
    BY <1>1 DEF Facts, DirFacts
  <2>2. QED BY <1>5, <2>1
<1>7. \A i \in Ino(d) \ DirIno(d) :
        \A k \in Used(d, i) : e[d[i].ptrs[k]].kind \in {"data", "stale"}
  BY <1>1, <1>5 DEF Facts, FileFacts
<1>8. QED BY <1>2, <1>4, <1>6, <1>7, SameTree

\* Data is written to blocks that hold data or belong to no one.
LEMMA Overwrites ==
  ASSUME NEW d, NEW used, Sound(d, used), NEW e, DOMAIN e = Lbas,
         \A l \in Lbas : \/ e[l] = d[l]
                         \/ /\ l \in used /\ e[l].kind = "data"
                            /\ d[l].kind \in {"data", "stale"}
  PROVE  Sound(e, used)
<1>1. Facts(d, used) /\ BitmapOK(d, used)
  BY SoundFacts DEF Sound
<1>2. BitmapOK(e, used)
  BY <1>1 DEF BitmapOK, Facts, MarkFacts, Stale
<1>3. Ino(e) = Ino(d) /\ \A i \in Ino(d) : e[i] = d[i]
  BY <1>1 DEF Ino, Facts, MarkFacts
<1>4. \A i \in DirIno(d) : e[d[i].ptrs[0]] = d[d[i].ptrs[0]]
  <2> TAKE i \in DirIno(d)
  <2>1. i \in Ino(d) /\ 0 \in Used(d, i) /\ d[d[i].ptrs[0]].kind = "directory"
    BY <1>1 DEF Facts, DirFacts
  <2>2. d[i].ptrs[0] \in Lbas
    BY <1>1, <2>1 DEF Facts, PtrFacts
  <2>3. QED BY <2>1, <2>2
<1>5. \A i \in Ino(d) \ DirIno(d) :
        \A k \in Used(d, i) : e[d[i].ptrs[k]].kind \in {"data", "stale"}
  <2> TAKE i \in Ino(d) \ DirIno(d)
  <2> TAKE k \in Used(d, i)
  <2>1. d[d[i].ptrs[k]].kind \in {"data", "stale"} /\ d[i].ptrs[k] \in Lbas
    BY <1>1 DEF Facts, FileFacts, PtrFacts
  <2>2. QED BY <2>1
<1>6. QED BY <1>2, <1>3, <1>4, <1>5, SameTree

\* An empty directory is written to a block that belongs to no one.
LEMMA NewDirectoryBlock ==
  ASSUME NEW d, NEW used, Sound(d, used), NEW b \in used, d[b] = Stale, Unowned(d, b),
         NEW e, DOMAIN e = Lbas, e[b] = Directory(NoEntries), \A l \in Lbas \ {b} : e[l] = d[l]
  PROVE  Sound(e, used) /\ Ino(e) = Ino(d) /\ \A i \in Ino(d) : e[i] = d[i]
<1>1. Facts(d, used) /\ BitmapOK(d, used)
  BY SoundFacts DEF Sound
<1>2. d[b].kind = "stale" /\ e[b].kind = "directory" /\ b \in Lbas
  BY <1>1 DEF Stale, Directory, Facts, MarkFacts
<1>3. BitmapOK(e, used)
  BY <1>1, <1>2 DEF BitmapOK, Facts, MarkFacts
<1>4. Ino(e) = Ino(d) /\ \A i \in Ino(d) : e[i] = d[i]
  BY <1>1, <1>2 DEF Ino, Facts, MarkFacts
<1>5. \A i \in Ino(d) : \A k \in Used(d, i) : e[d[i].ptrs[k]] = d[d[i].ptrs[k]]
  BY <1>1 DEF Facts, PtrFacts, Unowned
<1>6. \A i \in DirIno(d) : e[d[i].ptrs[0]] = d[d[i].ptrs[0]]
  <2> TAKE i \in DirIno(d)
  <2>1. i \in Ino(d) /\ 0 \in Used(d, i)
    BY <1>1 DEF Facts, DirFacts
  <2>2. QED BY <1>5, <2>1
<1>7. \A i \in Ino(d) \ DirIno(d) :
        \A k \in Used(d, i) : e[d[i].ptrs[k]].kind \in {"data", "stale"}
  BY <1>1, <1>5 DEF Facts, FileFacts
<1>8. QED BY <1>3, <1>4, <1>6, <1>7, SameTree

\* The inodes stay as they are, and the blocks of directory i excepted, so do
\* their blocks.
SameBut(d, e, i) ==
  /\ Ino(e) = Ino(d) /\ DirIno(e) = DirIno(d)
  /\ \A j \in Ino(d) : e[j] = d[j] /\ Used(e, j) = Used(d, j)
  /\ \A j \in DirIno(d) \ {i} : EntriesOn(e, j) = EntriesOn(d, j)

\* What slot s of directory i may become: free, or an entry that leads to an
\* inode no other entry leads to, by a name no other entry of i has.
SlotFits(d, i, s, x) ==
  \/ x = Free
  \/ /\ x \in Entry /\ x.inode \in Ino(d) \ {2}
     /\ \A j, t : Valid(d, j, t) /\ EntriesOn(d, j)[t].inode = x.inode => j = i /\ t = s
     /\ \A t : Valid(d, i, t) /\ EntriesOn(d, i)[t].name = x.name => t = s

\* One slot of directory i changes to something it may become.
LEMMA SlotChanges ==
  ASSUME NEW d, NEW used, Sound(d, used), NEW i \in DirIno(d), NEW s \in SlotSet, NEW x,
         SlotFits(d, i, s, x), NEW e, DOMAIN e = Lbas,
         e[d[i].ptrs[0]] = Directory([EntriesOn(d, i) EXCEPT ![s] = x]),
         \A l \in Lbas \ {d[i].ptrs[0]} : e[l] = d[l]
  PROVE  /\ Sound(e, used) /\ SameBut(d, e, i)
         /\ EntriesOn(e, i) = [EntriesOn(d, i) EXCEPT ![s] = x]
<1> DEFINE b == d[i].ptrs[0]
<1>1. /\ MarkFacts(d, used) /\ InoFacts(d) /\ PtrFacts(d, used) /\ DirFacts(d) /\ FileFacts(d)
      /\ BitmapOK(d, used) /\ InodesOK(d, used) /\ OwnersOK(d) /\ EntriesOK(d)
  BY SoundFacts DEF Sound, Facts
<1>2. /\ i \in Ino(d) /\ 0 \in Used(d, i) /\ d[b].kind = "directory"
      /\ EntriesOn(d, i) \in [SlotSet -> Entry \cup {Free}]
  BY <1>1 DEF DirFacts
<1>3. b \in used \ Ino(d) /\ b \notin {0, 1} /\ b \in Lbas
  BY <1>1, <1>2 DEF PtrFacts
<1>4. e[b].kind = "directory" /\ e[b].entries = [EntriesOn(d, i) EXCEPT ![s] = x]
  BY DEF Directory
<1>5. Ino(e) = Ino(d) /\ \A j \in Ino(d) : e[j] = d[j]
  BY <1>3, <1>4 DEF Ino
<1>6. DirIno(e) = DirIno(d) /\ \A j \in Ino(d) : Used(e, j) = Used(d, j)
  BY <1>5 DEF DirIno, Used
<1>7. \A j \in Ino(d) : \A k \in Used(d, j) :
        /\ j # i => e[d[j].ptrs[k]] = d[d[j].ptrs[k]]
        /\ j \notin DirIno(d) => e[d[j].ptrs[k]] = d[d[j].ptrs[k]]
  <2> TAKE j \in Ino(d)
  <2> TAKE k \in Used(d, j)
  <2>1. d[j].ptrs[k] \in Lbas
    BY <1>1 DEF PtrFacts
  <2>2. d[j].ptrs[k] = b => j = i
    BY <1>1, <1>2 DEF OwnersOK
  <2>3. QED BY <2>1, <2>2
<1>8. \A j \in DirIno(d) \ {i} : e[d[j].ptrs[0]] = d[d[j].ptrs[0]]
  <2> TAKE j \in DirIno(d) \ {i}
  <2>1. j \in Ino(d) /\ 0 \in Used(d, j)
    BY <1>1 DEF DirFacts
  <2>2. QED BY <1>7, <2>1
<1>9. \A j \in DirIno(d) \ {i} : EntriesOn(e, j) = EntriesOn(d, j)
  <2> TAKE j \in DirIno(d) \ {i}
  <2>1. e[j] = d[j]
    BY <1>1, <1>5 DEF DirFacts
  <2>2. e[d[j].ptrs[0]] = d[d[j].ptrs[0]]
    BY <1>8
  <2>3. QED BY <2>1, <2>2 DEF EntriesOn
<1>10. EntriesOn(e, i) = [EntriesOn(d, i) EXCEPT ![s] = x]
  <2>1. e[i] = d[i]
    BY <1>2, <1>5
  <2>2. QED BY <1>4, <2>1 DEF EntriesOn
<1>11. BitmapOK(e, used)
  BY <1>1, <1>3 DEF BitmapOK
<1>12. InodesOK(e, used)
  <2>1. \A j \in Ino(e) : InodeOK(e, used, j)
    BY <1>1, <1>5, <1>6 DEF InodesOK, InodeOK
  <2>2. ASSUME NEW j \in Ino(e) PROVE IF e[j].dir THEN DirOK(e, j) ELSE FileOK(e, j)
    <3>1. CASE j = i
      <4>1. d[i].size = BLK /\ d[i].dir
        BY <1>1, <1>2 DEF InodesOK, DirOK, DirIno
      <4>2. [EntriesOn(d, i) EXCEPT ![s] = x] \in [SlotSet -> Entry \cup {Free}]
        BY <1>2 DEF SlotFits
      <4>3. e[b] \in [kind : {"directory"}, entries : [SlotSet -> Entry \cup {Free}]]
        BY <4>2 DEF Directory
      <4>4. QED BY <1>5, <3>1, <4>1, <4>3 DEF DirOK
    <3>2. CASE j # i /\ d[j].dir
      <4>1. j \in DirIno(d) \ {i}
        BY <1>5, <3>2 DEF DirIno
      <4>2. DirOK(d, j)
        BY <1>1, <4>1 DEF InodesOK, DirIno
      <4>3. e[j] = d[j] /\ e[d[j].ptrs[0]] = d[d[j].ptrs[0]]
        BY <1>5, <1>8, <4>1
      <4>4. QED BY <3>2, <4>2, <4>3 DEF DirOK
    <3>3. CASE ~d[j].dir
      <4>1. FileOK(d, j) /\ j \notin DirIno(d)
        BY <1>1, <1>5, <3>3 DEF InodesOK, DirIno
      <4>2. QED BY <1>5, <1>6, <1>7, <4>1, <3>3 DEF FileOK
    <3>4. QED BY <3>1, <3>2, <3>3
  <2>3. 2 \in DirIno(e) /\ e[2].ptrs[0] = 3
    BY <1>1, <1>5, <1>6 DEF DirFacts
  <2>4. QED BY <2>1, <2>2, <2>3 DEF InodesOK
<1>13. OwnersOK(e)
  BY <1>1, <1>5, <1>6 DEF OwnersOK
<1>14. \A j, t : Valid(e, j, t) /\ ~(j = i /\ t = s)
          => Valid(d, j, t) /\ EntriesOn(e, j)[t] = EntriesOn(d, j)[t]
  BY <1>2, <1>6, <1>9, <1>10 DEF Valid
<1>15. Valid(e, i, s) => EntriesOn(e, i)[s] = x /\ x # Free
  BY <1>2, <1>10 DEF Valid
<1>16. EntriesOK(e)
  <2>1. ASSUME NEW j, NEW t, Valid(e, j, t) PROVE EntriesOn(e, j)[t].inode \in Ino(e) \ {2}
    BY <1>1, <1>5, <1>14, <1>15, <2>1 DEF EntriesOK, SlotFits
  <2>2. ASSUME NEW j, NEW k, NEW t, NEW u, Valid(e, j, t), Valid(e, k, u),
               EntriesOn(e, j)[t].inode = EntriesOn(e, k)[u].inode
        PROVE  j = k /\ t = u
    BY <1>1, <1>14, <1>15, <2>2 DEF EntriesOK, SlotFits
  <2>3. ASSUME NEW j, NEW t, NEW u, Valid(e, j, t), Valid(e, j, u),
               EntriesOn(e, j)[t].name = EntriesOn(e, j)[u].name
        PROVE  t = u
    BY <1>1, <1>14, <1>15, <2>3 DEF EntriesOK, SlotFits
  <2>4. QED BY <2>1, <2>2, <2>3 DEF EntriesOK
<1>17. QED BY <1>5, <1>6, <1>9, <1>10, <1>11, <1>12, <1>13, <1>16 DEF Sound, SameBut

\* An inode without blocks, or with the block of an empty directory, is written
\* to a block that belongs to no one.
LEMMA NewInode ==
  ASSUME NEW d, NEW used, Sound(d, used), NEW n \in used, d[n] = Stale, Unowned(d, n),
         NEW dir \in BOOLEAN, NEW b,
         dir => /\ b \in used /\ Unowned(d, b) /\ d[b] = Directory(NoEntries),
         NEW e, DOMAIN e = Lbas,
         e[n] = Inode(dir, IF dir THEN BLK ELSE 0, IF dir THEN [NoPtrs EXCEPT ![0] = b] ELSE NoPtrs),
         \A l \in Lbas \ {n} : e[l] = d[l]
  PROVE  /\ Sound(e, used) /\ Ino(e) = Ino(d) \cup {n} /\ n \notin Ino(d)
         /\ DirIno(e) \ {n} = DirIno(d) /\ \A j \in Ino(d) : e[j] = d[j]
         /\ \A j \in DirIno(d) : EntriesOn(e, j) = EntriesOn(d, j)
         /\ \A j, t : Valid(e, j, t) => j \in DirIno(d)
<1>1. /\ MarkFacts(d, used) /\ InoFacts(d) /\ PtrFacts(d, used) /\ DirFacts(d) /\ FileFacts(d)
      /\ BitmapOK(d, used) /\ InodesOK(d, used) /\ OwnersOK(d) /\ EntriesOK(d)
  BY SoundFacts DEF Sound, Facts
<1>2. n \in Lbas /\ n \notin {0, 1, 2, 3} /\ n \notin Ino(d) /\ d[n].kind = "stale"
  <2>1. d[n].kind = "stale"
    BY DEF Stale
  <2>2. d[2].kind = "inode"
    BY <1>1 DEF DirFacts, DirIno, Ino
  <2>3. QED BY <1>1, <2>1, <2>2 DEF MarkFacts, DirFacts, Ino
<1>3. e[n].kind = "inode" /\ e[n].dir = dir
  BY DEF Inode
<1>4. Ino(e) = Ino(d) \cup {n} /\ \A j \in Ino(d) : e[j] = d[j]
  <2>1. \A j \in Ino(d) : j \in Lbas \ {n}
    BY <1>2 DEF Ino
  <2>2. ASSUME NEW l \in Lbas PROVE l \in Ino(e) <=> l \in Ino(d) \cup {n}
    BY <1>2, <1>3 DEF Ino
  <2>3. Ino(e) \subseteq Lbas /\ Ino(d) \subseteq Lbas
    BY DEF Ino
  <2>4. QED BY <1>2, <2>1, <2>2, <2>3
<1>5. /\ DirIno(e) \ {n} = DirIno(d) /\ (n \in DirIno(e) <=> dir)
      /\ \A j \in Ino(d) : Used(e, j) = Used(d, j)
  BY <1>2, <1>3, <1>4 DEF DirIno, Used
<1>6. Used(e, n) = IF dir THEN {0} ELSE {}
  <2>1. CASE dir
    <3>1. e[n].size = BLK
      BY <2>1 DEF Inode
    <3>2. Used(e, n) = 0..(1 - 1)
      BY <3>1, SmallSizes DEF Used
    <3>3. QED BY <2>1, <3>2
  <2>2. CASE ~dir
    <3>1. e[n].size = 0
      BY <2>2 DEF Inode
    <3>2. Used(e, n) = 0..(0 - 1)
      BY <3>1, SmallSizes DEF Used
    <3>3. QED BY <2>2, <3>2
  <2>3. QED BY <2>1, <2>2
<1>7. \A j \in Ino(d) : \A k \in Used(d, j) : e[d[j].ptrs[k]] = d[d[j].ptrs[k]]
  BY <1>1 DEF PtrFacts, Unowned
<1>8. \A j \in DirIno(d) : e[d[j].ptrs[0]] = d[d[j].ptrs[0]] /\ j \in Ino(d)
  <2> TAKE j \in DirIno(d)
  <2>1. j \in Ino(d) /\ 0 \in Used(d, j)
    BY <1>1 DEF DirFacts
  <2>2. QED BY <1>7, <2>1
<1>9. \A j \in DirIno(d) : EntriesOn(e, j) = EntriesOn(d, j)
  BY <1>4, <1>8 DEF EntriesOn
<1>10. dir => e[n].ptrs[0] = b /\ b # n /\ e[b] = Directory(NoEntries) /\ b \in Lbas
  <2>1. 0 \in DOMAIN NoPtrs
    BY Sizes DEF NoPtrs
  <2>2. ASSUME dir PROVE e[n].ptrs[0] = b
    BY <2>1, <2>2 DEF Inode
  <2>3. ASSUME dir PROVE b # n /\ b \in Lbas
    <3>1. d[b].kind = "directory"
      BY <2>3 DEF Directory
    <3>2. QED BY <1>1, <1>2, <2>3, <3>1 DEF MarkFacts
  <2>4. QED BY <2>2, <2>3
<1>11. BitmapOK(e, used)
  BY <1>1, <1>2 DEF BitmapOK
<1>12. InodesOK(e, used)
  <2>1. InodeOK(e, used, n)
    <3>1. NoPtrs \in [0..(NPtrs - 1) -> Int]
      BY DEF NoPtrs
    <3>2. dir => b \in Int
      BY <1>10, Sizes DEF Lbas
    <3>3. dir => [NoPtrs EXCEPT ![0] = b] \in [0..(NPtrs - 1) -> Int]
      BY <3>1, <3>2
    <3>4. e[n] \in [kind : {"inode"}, dir : BOOLEAN, size : Nat, ptrs : [0..(NPtrs - 1) -> Int]]
      <4>1. CASE dir
        BY <3>3, <4>1, Sizes DEF Inode
      <4>2. CASE ~dir
        BY <3>1, <4>2 DEF Inode
      <4>3. QED BY <4>1, <4>2
    <3>5. Blocks(e[n].size) \in 0..(NPtrs - 1)
      <4>1. NPtrs \in Nat /\ NPtrs - 1 >= 1
        <5>1. MaxSize \in 1..((NPtrs - 1) * BLK) /\ NPtrs \in Nat \ {0}
          BY Sizes
        <5>2. NPtrs # 1
          <6>1. SUFFICES ASSUME NPtrs = 1 PROVE FALSE
            OBVIOUS
          <6>2. (NPtrs - 1) * BLK = 0
            BY <6>1, Sizes
          <6>3. QED BY <5>1, <6>2
        <5>3. QED BY <5>1, <5>2
      <4>2. CASE dir
        <5>1. e[n].size = BLK
          BY <4>2 DEF Inode
        <5>2. Blocks(e[n].size) = 1
          BY <5>1, SmallSizes
        <5>3. 1 \in 0..(NPtrs - 1)
          BY <4>1
        <5>4. QED BY <5>2, <5>3, Zenon
      <4>3. CASE ~dir
        <5>1. e[n].size = 0
          BY <4>3 DEF Inode
        <5>2. Blocks(e[n].size) = 0
          BY <5>1, SmallSizes
        <5>3. 0 \in 0..(NPtrs - 1)
          BY <4>1
        <5>4. QED BY <5>2, <5>3, Zenon
      <4>4. QED BY <4>2, <4>3
    <3>6. \A k \in Used(e, n) : e[n].ptrs[k] \in used
      BY <1>6, <1>10
    <3>7. QED BY <3>4, <3>5, <3>6 DEF InodeOK
  <2>2. \A j \in Ino(e) : InodeOK(e, used, j)
    BY <1>1, <1>4, <1>5, <2>1 DEF InodesOK, InodeOK
  <2>3. ASSUME NEW j \in Ino(e) PROVE IF e[j].dir THEN DirOK(e, j) ELSE FileOK(e, j)
    <3>1. CASE j = n /\ dir
      <4>1. e[n].size = BLK
        BY <3>1 DEF Inode
      <4>2. NoEntries \in [SlotSet -> Entry \cup {Free}]
        BY DEF NoEntries, SlotSet
      <4>3. e[b] \in [kind : {"directory"}, entries : [SlotSet -> Entry \cup {Free}]]
        BY <1>10, <3>1, <4>2 DEF Directory
      <4>4. QED BY <1>3, <1>10, <3>1, <4>1, <4>3 DEF DirOK
    <3>2. CASE j = n /\ ~dir
      BY <1>3, <1>6, <3>2 DEF FileOK
    <3>3. CASE j \in DirIno(d)
      <4>1. DirOK(d, j) /\ e[j] = d[j] /\ d[j].dir
        BY <1>1, <1>4, <1>8, <3>3 DEF InodesOK, DirIno
      <4>2. QED BY <1>8, <3>3, <4>1 DEF DirOK
    <3>4. CASE j # n /\ j \notin DirIno(d)
      <4>1. j \in Ino(d) /\ ~d[j].dir /\ FileOK(d, j)
        BY <1>1, <1>4, <3>4 DEF InodesOK, DirIno
      <4>2. QED BY <1>4, <1>5, <1>7, <4>1 DEF FileOK
    <3>5. QED BY <3>1, <3>2, <3>3, <3>4
  <2>4. 2 \in DirIno(e) /\ e[2].ptrs[0] = 3
    BY <1>1, <1>4, <1>5, <1>8 DEF DirFacts
  <2>5. QED BY <2>2, <2>3, <2>4 DEF InodesOK
<1>13. OwnersOK(e)
  <2>1. \A j \in Ino(d) : \A k \in Used(d, j) : dir => d[j].ptrs[k] # b
    BY DEF Unowned
  <2>2. \A k \in Used(e, n) : dir /\ k = 0 /\ e[n].ptrs[k] = b
    BY <1>6, <1>10
  <2>3. SUFFICES ASSUME NEW i \in Ino(e), NEW j \in Ino(e), NEW k \in Used(e, i),
                        NEW m \in Used(e, j), e[i].ptrs[k] = e[j].ptrs[m]
                 PROVE  i = j /\ k = m
    BY DEF OwnersOK
  <2>4. CASE i = n /\ j = n
    BY <2>2, <2>4
  <2>5. CASE i = n /\ j # n
    <3>1. j \in Ino(d) /\ e[j] = d[j] /\ m \in Used(d, j)
      BY <1>4, <1>5, <2>5
    <3>2. QED BY <2>1, <2>2, <2>3, <2>5, <3>1
  <2>6. CASE i # n /\ j = n
    <3>1. i \in Ino(d) /\ e[i] = d[i] /\ k \in Used(d, i)
      BY <1>4, <1>5, <2>6
    <3>2. QED BY <2>1, <2>2, <2>3, <2>6, <3>1
  <2>7. CASE i # n /\ j # n
    <3>1. /\ i \in Ino(d) /\ e[i] = d[i] /\ k \in Used(d, i)
          /\ j \in Ino(d) /\ e[j] = d[j] /\ m \in Used(d, j)
      BY <1>4, <1>5, <2>7
    <3>2. QED BY <1>1, <2>3, <3>1 DEF OwnersOK
  <2>8. QED BY <2>4, <2>5, <2>6, <2>7
<1>14. \A j, t : Valid(e, j, t) => j \in DirIno(d) /\ Valid(d, j, t)
  <2>1. ASSUME dir PROVE \A t \in SlotSet : EntriesOn(e, n)[t] = Free
    <3>1. e[e[n].ptrs[0]] = Directory(NoEntries)
      BY <1>10, <2>1
    <3>2. e[e[n].ptrs[0]].entries = NoEntries
      BY <3>1 DEF Directory
    <3>3. EntriesOn(e, n) = NoEntries
      BY <3>2, Zenon DEF EntriesOn
    <3>4. QED BY <3>3 DEF NoEntries, SlotSet
  <2>2. QED BY <1>5, <1>9, <2>1 DEF Valid
<1>15. EntriesOK(e)
  BY <1>1, <1>4, <1>9, <1>14 DEF EntriesOK
<1>16. QED BY <1>2, <1>4, <1>5, <1>9, <1>11, <1>12, <1>13, <1>14, <1>15 DEF Sound

\* The pointers that a file of that size uses are its own, or to blocks that
\* belong to no one.
PtrsFit(d, used, i, size, ptrs) ==
  /\ size \in Nat /\ ptrs \in [0..(NPtrs - 1) -> Int] /\ Blocks(size) \in 0..(NPtrs - 1)
  /\ \A k \in 0..(Blocks(size) - 1) :
       \/ k \in Used(d, i) /\ ptrs[k] = d[i].ptrs[k]
       \/ ptrs[k] \in used /\ d[ptrs[k]] = Stale /\ Unowned(d, ptrs[k])
  /\ \A k, m \in 0..(Blocks(size) - 1) : ptrs[k] = ptrs[m] => k = m

\* Inode i is written to disk d.
Resized(d, e, i, size, ptrs) ==
  /\ DOMAIN e = Lbas /\ e[i] = Inode(FALSE, size, ptrs)
  /\ \A l \in Lbas \ {i} : e[l] = d[l]

\* Inodes except i, and entries.
SameDirectories(d, e, i) ==
  /\ Ino(e) = Ino(d) /\ DirIno(e) = DirIno(d)
  /\ \A j \in Ino(d) \ {i} : e[j] = d[j]
  /\ \A j \in DirIno(d) : EntriesOn(e, j) = EntriesOn(d, j)

\* A file gets another size and other pointers.
LEMMA FileChanges ==
  ASSUME NEW d, NEW used, Sound(d, used), NEW i \in Ino(d) \ DirIno(d),
         NEW size, NEW ptrs, PtrsFit(d, used, i, size, ptrs),
         NEW e, Resized(d, e, i, size, ptrs)
  PROVE  Sound(e, used) /\ SameDirectories(d, e, i) /\ Used(e, i) = 0..(Blocks(size) - 1)
<1> USE DEF Resized, PtrsFit, SameDirectories
<1>1. /\ MarkFacts(d, used) /\ InoFacts(d) /\ PtrFacts(d, used) /\ DirFacts(d) /\ FileFacts(d)
      /\ BitmapOK(d, used) /\ InodesOK(d, used) /\ OwnersOK(d) /\ EntriesOK(d)
  BY SoundFacts DEF Sound, Facts
<1>2. /\ i \in Ino(d) /\ i \in used /\ i \in Lbas /\ i \notin {0, 1, 3} /\ ~d[i].dir
      /\ d[i].kind = "inode"
  BY <1>1 DEF InoFacts, MarkFacts, FileFacts
<1>3. e[i].kind = "inode" /\ e[i].dir = FALSE /\ e[i].size = size /\ e[i].ptrs = ptrs
  BY DEF Inode
<1>4. Ino(e) = Ino(d) /\ \A j \in Ino(d) \ {i} : e[j] = d[j]
  <2>1. Ino(e) \subseteq Lbas /\ Ino(d) \subseteq Lbas
    BY DEF Ino
  <2>2. ASSUME NEW l \in Lbas PROVE l \in Ino(e) <=> l \in Ino(d)
    BY <1>2, <1>3 DEF Ino
  <2>3. QED BY <2>1, <2>2
<1>5. DirIno(e) = DirIno(d)
  <2>1. ASSUME NEW j \in Ino(d) PROVE e[j].dir <=> d[j].dir
    BY <1>2, <1>3, <1>4
  <2>2. QED BY <1>4, <2>1 DEF DirIno
<1>6. Used(e, i) = 0..(Blocks(size) - 1) /\ \A j \in Ino(d) \ {i} : Used(e, j) = Used(d, j)
  BY <1>3, <1>4 DEF Used
<1>7. \A j \in Ino(d) : \A k \in Used(d, j) : e[d[j].ptrs[k]] = d[d[j].ptrs[k]]
  <2> TAKE j \in Ino(d)
  <2> TAKE k \in Used(d, j)
  <2>1. d[j].ptrs[k] \in Lbas /\ d[j].ptrs[k] \notin Ino(d)
    BY <1>1 DEF PtrFacts
  <2>2. QED BY <1>2, <2>1
<1>8. \A j \in DirIno(d) :
        e[d[j].ptrs[0]] = d[d[j].ptrs[0]] /\ e[j] = d[j] /\ j \in Ino(d) /\ j # i
  <2> TAKE j \in DirIno(d)
  <2>1. j \in Ino(d) /\ 0 \in Used(d, j)
    BY <1>1 DEF DirFacts
  <2>2. j # i
    OBVIOUS
  <2>3. QED BY <1>4, <1>7, <2>1, <2>2
<1>9. \A j \in DirIno(d) : EntriesOn(e, j) = EntriesOn(d, j)
  <2> TAKE j \in DirIno(d)
  <2>1. e[d[j].ptrs[0]] = d[d[j].ptrs[0]] /\ e[j] = d[j]
    BY <1>8
  <2>2. QED BY <2>1, Zenon DEF EntriesOn
<1>10. ASSUME NEW k \in Used(e, i)
       PROVE  /\ ptrs[k] \in used /\ e[ptrs[k]].kind \in {"data", "stale"}
              /\ \A j \in Ino(d) \ {i} : \A m \in Used(d, j) : d[j].ptrs[m] # ptrs[k]
  <2>1. CASE k \in Used(d, i) /\ ptrs[k] = d[i].ptrs[k]
    <3>1. ptrs[k] \in used /\ d[ptrs[k]].kind \in {"data", "stale"} /\ e[ptrs[k]] = d[ptrs[k]]
      BY <1>1, <1>2, <1>7, <2>1 DEF PtrFacts, FileFacts
    <3>2. \A j \in Ino(d) \ {i} : \A m \in Used(d, j) : d[j].ptrs[m] # ptrs[k]
      BY <1>1, <1>2, <2>1 DEF OwnersOK
    <3>3. QED BY <3>1, <3>2
  <2>2. CASE ptrs[k] \in used /\ d[ptrs[k]] = Stale /\ Unowned(d, ptrs[k])
    <3>1. ptrs[k] \in Lbas /\ d[ptrs[k]].kind = "stale"
      BY <1>1, <2>2 DEF MarkFacts, Stale
    <3>2. e[ptrs[k]] = d[ptrs[k]]
      BY <1>2, <3>1
    <3>3. QED BY <2>2, <3>1, <3>2 DEF Unowned
  <2>3. QED BY <1>6, <2>1, <2>2
<1>11. BitmapOK(e, used)
  BY <1>1, <1>2 DEF BitmapOK
<1>12. InodesOK(e, used)
  <2>1. InodeOK(e, used, i)
    BY <1>3, <1>10 DEF InodeOK, Inode
  <2>2. ASSUME NEW j \in Ino(e) PROVE InodeOK(e, used, j)
    <3>1. CASE j # i
      <4>1. j \in Ino(d) \ {i} /\ e[j] = d[j] /\ Used(e, j) = Used(d, j) /\ InodeOK(d, used, j)
        BY <1>1, <1>4, <1>6, <3>1 DEF InodesOK
      <4>2. QED BY <4>1 DEF InodeOK
    <3>2. QED BY <2>1, <3>1
  <2>3. ASSUME NEW j \in Ino(e) PROVE IF e[j].dir THEN DirOK(e, j) ELSE FileOK(e, j)
    <3>1. CASE j = i
      BY <1>3, <1>10, <3>1 DEF FileOK
    <3>2. CASE j # i /\ d[j].dir
      <4>1. j \in DirIno(d)
        BY <1>4, <3>2 DEF DirIno
      <4>2. DirOK(d, j) /\ e[j] = d[j] /\ e[d[j].ptrs[0]] = d[d[j].ptrs[0]]
        BY <1>1, <1>8, <4>1 DEF InodesOK, DirIno
      <4>3. QED BY <3>2, <4>2 DEF DirOK
    <3>3. CASE j # i /\ ~d[j].dir
      <4>1. j \in Ino(d) \ {i} /\ FileOK(d, j) /\ e[j] = d[j] /\ Used(e, j) = Used(d, j)
        BY <1>1, <1>4, <1>6, <3>3 DEF InodesOK
      <4>2. QED BY <1>7, <3>3, <4>1 DEF FileOK
    <3>4. QED BY <3>1, <3>2, <3>3
  <2>4. 2 \in DirIno(e) /\ e[2].ptrs[0] = 3
    BY <1>1, <1>5, <1>8 DEF DirFacts
  <2>5. QED BY <2>2, <2>3, <2>4 DEF InodesOK
<1>13. OwnersOK(e)
  <2>1. SUFFICES ASSUME NEW j \in Ino(e), NEW h \in Ino(e), NEW k \in Used(e, j),
                        NEW m \in Used(e, h), e[j].ptrs[k] = e[h].ptrs[m]
                 PROVE  j = h /\ k = m
    BY DEF OwnersOK
  <2>2. CASE j = i /\ h = i
    BY <1>3, <1>6, <2>1, <2>2
  <2>3. CASE j = i /\ h # i
    <3>1. h \in Ino(d) \ {i} /\ e[h] = d[h] /\ m \in Used(d, h)
      BY <1>4, <1>6, <2>3
    <3>2. d[h].ptrs[m] # ptrs[k]
      BY <1>10, <2>3, <3>1
    <3>3. e[i].ptrs = ptrs /\ e[j].ptrs[k] = d[h].ptrs[m]
      BY <1>3, <2>1, <3>1
    <3>4. QED BY <2>3, <3>2, <3>3
  <2>4. CASE j # i /\ h = i
    <3>1. j \in Ino(d) \ {i} /\ e[j] = d[j] /\ k \in Used(d, j)
      BY <1>4, <1>6, <2>4
    <3>2. d[j].ptrs[k] # ptrs[m]
      BY <1>10, <2>4, <3>1
    <3>3. e[i].ptrs = ptrs /\ e[h].ptrs[m] = d[j].ptrs[k]
      BY <1>3, <2>1, <3>1
    <3>4. QED BY <2>4, <3>2, <3>3
  <2>5. CASE j # i /\ h # i
    <3>1. /\ j \in Ino(d) /\ e[j] = d[j] /\ k \in Used(d, j)
          /\ h \in Ino(d) /\ e[h] = d[h] /\ m \in Used(d, h)
      BY <1>4, <1>6, <2>5
    <3>2. QED BY <1>1, <2>1, <3>1 DEF OwnersOK
  <2>6. QED BY <2>2, <2>3, <2>4, <2>5
<1>14. EntriesOK(e)
  <2>1. \A j, t : Valid(e, j, t) <=> Valid(d, j, t)
    BY <1>5, <1>9 DEF Valid
  <2>2. \A j, t : Valid(d, j, t) => EntriesOn(e, j)[t] = EntriesOn(d, j)[t]
    BY <1>9 DEF Valid
  <2>3. QED BY <1>1, <1>4, <2>1, <2>2 DEF EntriesOK
<1>15. QED BY <1>4, <1>5, <1>6, <1>9, <1>11, <1>12, <1>13, <1>14 DEF Sound

\* Blocks are given back, no inode that stays owns one of them and no entry that
\* stays leads to one.
LEMMA Frees ==
  ASSUME NEW d, NEW used, Sound(d, used), NEW freed \in SUBSET used, freed \cap (0..3) = {},
         \A i \in Ino(d) \ freed : \A k \in Used(d, i) : d[i].ptrs[k] \notin freed,
         \A j, t : Valid(d, j, t) /\ j \notin freed => EntriesOn(d, j)[t].inode \notin freed,
         NEW e, DOMAIN e = Lbas,
         \A l \in Lbas : e[l] = IF l \in freed THEN Stale
                                ELSE IF l = 1 THEN Bitmap(used \ freed) ELSE d[l]
  PROVE  Sound(e, used \ freed)
<1> DEFINE left == used \ freed
<1>1. /\ MarkFacts(d, used) /\ InoFacts(d) /\ PtrFacts(d, used) /\ DirFacts(d) /\ FileFacts(d)
      /\ BitmapOK(d, used) /\ InodesOK(d, used) /\ OwnersOK(d) /\ EntriesOK(d)
  BY SoundFacts DEF Sound, Facts
<1>2. 0 \in Lbas \ freed /\ 1 \in Lbas \ freed /\ 2 \in Lbas \ freed /\ 3 \in Lbas \ freed
  <2>1. {0, 1, 2, 3} \subseteq 0..3
    OBVIOUS
  <2>2. QED BY <1>1, <2>1 DEF MarkFacts
<1>3. e[1] = Bitmap(left) /\ e[1].kind = "bitmap" /\ e[0] = d[0]
  <2>1. e[1] = Bitmap(left) /\ e[0] = d[0]
    BY <1>2
  <2>2. QED BY <2>1 DEF Bitmap
<1>4. \A l \in Lbas \ freed : l # 1 => e[l] = d[l]
  OBVIOUS
<1>5. \A l \in freed : l \in Lbas /\ e[l] = Stale /\ e[l].kind = "stale"
  BY <1>1 DEF MarkFacts, Stale
<1>6. Ino(e) = Ino(d) \ freed /\ \A i \in Ino(e) : e[i] = d[i] /\ i \in Ino(d)
  <2>1. Ino(e) \subseteq Lbas /\ Ino(d) \subseteq Lbas
    BY DEF Ino
  <2>2. ASSUME NEW l \in Lbas PROVE l \in Ino(e) <=> l \in Ino(d) /\ l \notin freed
    BY <1>1, <1>3, <1>4, <1>5 DEF Ino, MarkFacts
  <2>3. Ino(e) = Ino(d) \ freed
    BY <2>1, <2>2
  <2>4. \A i \in Ino(d) : i # 1
    BY <1>1 DEF InoFacts
  <2>5. QED BY <1>4, <2>1, <2>3, <2>4
<1>7. DirIno(e) = DirIno(d) \ freed /\ \A i \in Ino(e) : Used(e, i) = Used(d, i)
  BY <1>6 DEF DirIno, Used
<1>8. \A i \in Ino(e) : \A k \in Used(d, i) :
        e[d[i].ptrs[k]] = d[d[i].ptrs[k]] /\ d[i].ptrs[k] \in left
  <2> TAKE i \in Ino(e)
  <2> TAKE k \in Used(d, i)
  <2>1. d[i].ptrs[k] \in used /\ d[i].ptrs[k] # 1 /\ d[i].ptrs[k] \in Lbas
    BY <1>1, <1>6 DEF PtrFacts
  <2>2. d[i].ptrs[k] \notin freed
    BY <1>6
  <2>3. QED BY <1>4, <2>1, <2>2
<1>9. \A j \in DirIno(e) :
        /\ e[d[j].ptrs[0]] = d[d[j].ptrs[0]] /\ e[j] = d[j] /\ j \in Ino(e)
        /\ j \in DirIno(d) /\ j \notin freed
  <2> TAKE j \in DirIno(e)
  <2>1. j \in DirIno(d) /\ j \in Ino(e) /\ e[j] = d[j] /\ j \notin freed
    BY <1>6, <1>7 DEF DirIno
  <2>2. 0 \in Used(d, j)
    BY <1>1, <2>1 DEF DirFacts
  <2>3. QED BY <1>8, <2>1, <2>2
<1>10. \A j \in DirIno(e) : EntriesOn(e, j) = EntriesOn(d, j)
  <2> TAKE j \in DirIno(e)
  <2>1. e[d[j].ptrs[0]] = d[d[j].ptrs[0]] /\ e[j] = d[j]
    BY <1>9
  <2>2. QED BY <2>1, Zenon DEF EntriesOn
<1>11. BitmapOK(e, left)
  <2>1. left \subseteq Lbas /\ 0..3 \subseteq left
    BY <1>1 DEF MarkFacts
  <2>2. e[0] = [kind |-> "super"]
    BY <1>1, <1>3 DEF BitmapOK
  <2>3. ASSUME NEW l \in Lbas \ left PROVE e[l] = Stale
    <3>1. CASE l \in freed
      BY <1>5, <3>1
    <3>2. CASE l \notin freed
      <4>1. l \notin used /\ l # 1
        BY <2>1, <3>2
      <4>2. QED BY <1>1, <1>4, <3>2, <4>1 DEF MarkFacts
    <3>3. QED BY <3>1, <3>2
  <2>4. QED BY <1>3, <2>1, <2>2, <2>3 DEF BitmapOK
<1>12. InodesOK(e, left)
  <2>1. ASSUME NEW i \in Ino(e) PROVE InodeOK(e, left, i)
    <3>1. /\ i \in Ino(d) /\ e[i] = d[i] /\ Used(e, i) = Used(d, i) /\ InodeOK(d, used, i)
          /\ \A k \in Used(d, i) : d[i].ptrs[k] \in left
      BY <1>1, <1>6, <1>7, <1>8 DEF InodesOK
    <3>2. QED BY <3>1 DEF InodeOK
  <2>2. ASSUME NEW j \in Ino(e) PROVE IF e[j].dir THEN DirOK(e, j) ELSE FileOK(e, j)
    <3>1. j \in Ino(d) /\ e[j] = d[j] /\ Used(e, j) = Used(d, j)
      BY <1>6, <1>7
    <3>2. CASE d[j].dir
      <4>1. j \in DirIno(e)
        BY <3>1, <3>2 DEF DirIno
      <4>2. DirOK(d, j) /\ e[d[j].ptrs[0]] = d[d[j].ptrs[0]]
        BY <1>1, <1>9, <3>1, <3>2, <4>1 DEF InodesOK
      <4>3. QED BY <3>1, <3>2, <4>2 DEF DirOK
    <3>3. CASE ~d[j].dir
      <4>1. FileOK(d, j)
        BY <1>1, <3>1, <3>3 DEF InodesOK
      <4>2. QED BY <1>8, <3>1, <3>3, <4>1 DEF FileOK
    <3>4. QED BY <3>2, <3>3
  <2>3. 2 \in DirIno(e) /\ e[2].ptrs[0] = 3
    <3>1. 2 \in DirIno(e)
      BY <1>1, <1>2, <1>7 DEF DirFacts
    <3>2. QED BY <1>1, <1>9, <3>1 DEF DirFacts
  <2>4. QED BY <2>1, <2>2, <2>3 DEF InodesOK
<1>13. OwnersOK(e)
  BY <1>1, <1>6, <1>7 DEF OwnersOK
<1>14. EntriesOK(e)
  <2>1. \A j, t : Valid(e, j, t) => Valid(d, j, t) /\ j \notin freed
    BY <1>9, <1>10 DEF Valid
  <2>2. \A j, t : Valid(e, j, t) => EntriesOn(e, j)[t] = EntriesOn(d, j)[t]
    BY <1>10 DEF Valid
  <2>3. QED BY <1>1, <1>6, <2>1, <2>2 DEF EntriesOK
<1>15. QED BY <1>11, <1>12, <1>13, <1>14 DEF Sound

-----------------------------------------------------------------------------
(* Paths on a sound disk *)

\* The names in a directory are those of its entries in use, and a slot that is
\* looked for is found when there is one.
LEMMA SlotsAre ==
  ASSUME Sound(disk, bitmap), NEW i \in DirIno(disk), NEW name
  PROVE  /\ Entries(i) = EntriesOn(disk, i) /\ EntriesOn(disk, i) \in [SlotSet -> Entry \cup {Free}]
         /\ \A s \in SlotsOf(i, name) : Valid(disk, i, s) /\ EntriesOn(disk, i)[s].name = name
         /\ \A s : Valid(disk, i, s) /\ EntriesOn(disk, i)[s].name = name => s \in SlotsOf(i, name)
         /\ \A s \in FreeSlots(i) : s \in SlotSet /\ EntriesOn(disk, i)[s] = Free
         /\ SlotsOf(i, name) # {} => Min(SlotsOf(i, name)) \in SlotsOf(i, name)
         /\ FreeSlots(i) # {} => Min(FreeSlots(i)) \in FreeSlots(i)
<1>1. DirFacts(disk)
  BY SoundFacts DEF Facts
<1>2. EntriesOn(disk, i) \in [SlotSet -> Entry \cup {Free}] /\ Entries(i) = EntriesOn(disk, i)
  BY <1>1 DEF DirFacts, Entries, EntriesOn
<1>3. DOMAIN Entries(i) = SlotSet
  BY <1>2
<1>4. IsFiniteSet(SlotSet) /\ SlotSet \in SUBSET Nat
  BY FS_Interval, Sizes DEF SlotSet
<1>5. SlotsOf(i, name) \in SUBSET SlotSet /\ FreeSlots(i) \in SUBSET SlotSet
  BY <1>3 DEF SlotsOf, FreeSlots
<1>6. IsFiniteSet(SlotsOf(i, name)) /\ IsFiniteSet(FreeSlots(i))
  BY <1>4, <1>5, FS_Subset
<1>7. SlotsOf(i, name) # {} => Min(SlotsOf(i, name)) \in SlotsOf(i, name)
  BY <1>4, <1>5, <1>6, LeastOf
<1>8. FreeSlots(i) # {} => Min(FreeSlots(i)) \in FreeSlots(i)
  BY <1>4, <1>5, <1>6, LeastOf
<1>9. QED BY <1>2, <1>3, <1>7, <1>8 DEF SlotsOf, FreeSlots, Valid

\* A name leads from an inode to an inode, through an entry, or to an error.
LEMMA LookupIs ==
  ASSUME Sound(disk, bitmap), NEW i \in Int, i >= 0 => i \in Ino(disk), NEW name
  PROVE  /\ Lookup(i, name) \in Int
         /\ Lookup(i, name) >= 0 =>
              /\ i \in DirIno(disk) /\ SlotsOf(i, name) # {}
              /\ Lookup(i, name) = EntriesOn(disk, i)[Min(SlotsOf(i, name))].inode
              /\ Lookup(i, name) \in Ino(disk) \ {2}
         /\ i \in DirIno(disk) /\ SlotsOf(i, name) # {} => Lookup(i, name) >= 0
<1>1. ENOTDIR \in Int /\ ENOENT \in Int /\ ENOTDIR < 0 /\ ENOENT < 0
  BY DEF ENOTDIR, ENOENT
<1>2. CASE i < 0
  <2>1. Lookup(i, name) = i
    BY <1>2 DEF Lookup
  <2>2. i \notin DirIno(disk)
    BY <1>2, Sizes DEF DirIno, Ino, Lbas
  <2>3. QED BY <1>2, <2>1, <2>2
<1>3. CASE i >= 0 /\ ~disk[i].dir
  <2>1. Lookup(i, name) = ENOTDIR
    BY <1>3 DEF Lookup
  <2>2. i \notin DirIno(disk)
    BY <1>3 DEF DirIno
  <2>3. QED BY <1>1, <2>1, <2>2
<1>4. CASE i >= 0 /\ disk[i].dir
  <2>1. i \in DirIno(disk)
    BY <1>4 DEF DirIno
  <2>2. CASE SlotsOf(i, name) = {}
    <3>1. Lookup(i, name) = ENOENT
      BY <1>4, <2>2 DEF Lookup
    <3>2. QED BY <1>1, <2>2, <3>1
  <2>3. CASE SlotsOf(i, name) # {}
    <3>1. Lookup(i, name) = EntriesOn(disk, i)[Min(SlotsOf(i, name))].inode
      BY <1>4, <2>1, <2>3, SlotsAre DEF Lookup
    <3>2. Valid(disk, i, Min(SlotsOf(i, name)))
      BY <2>1, <2>3, SlotsAre
    <3>3. EntriesOn(disk, i)[Min(SlotsOf(i, name))].inode \in Ino(disk) \ {2}
      BY <3>2 DEF Sound, EntriesOK
    <3>4. Lookup(i, name) \in Int /\ Lookup(i, name) >= 0
      BY <3>1, <3>3, Sizes DEF Ino, Lbas
    <3>5. QED BY <2>1, <2>3, <3>1, <3>3, <3>4
  <2>4. QED BY <2>2, <2>3
<1>5. QED BY <1>2, <1>3, <1>4

\* A path leads to an inode or to an error.
PathsOK == \A p \in Paths : translate(p) \in Int /\ (translate(p) >= 0 => translate(p) \in Ino(disk))

\* The inodes that paths lead to.
LEMMA PathInodes == Sound(disk, bitmap) => PathsOK
<1> SUFFICES ASSUME Sound(disk, bitmap) PROVE PathsOK
  OBVIOUS
<1> DEFINE Fine(p) == translate(p) \in Int /\ (translate(p) >= 0 => translate(p) \in Ino(disk))
           G == {n \in Nat : \A p \in Paths : Len(p) = n => Fine(p)}
<1>1. 0 \in G
  <2>1. ASSUME NEW p \in Paths, Len(p) = 0 PROVE Fine(p)
    <3>1. p = <<>>
      BY <2>1, PathIs
    <3>2. translate(p) = 2 /\ 2 \in Ino(disk)
      BY <3>1, TranslateStep, SoundFacts DEF Facts, DirFacts
    <3>3. QED BY <3>2
  <2>2. QED BY <2>1
<1>2. ASSUME NEW n \in G PROVE n + 1 \in G
  <2>1. ASSUME NEW p \in Paths, Len(p) = n + 1 PROVE Fine(p)
    <3>1. p # <<>>
      BY <2>1, PathIs
    <3>2. Front(p) \in Paths /\ Len(Front(p)) = n
      BY <2>1, <3>1, FrontIs
    <3>3. Fine(Front(p))
      BY <3>2
    <3>4. translate(p) = Lookup(translate(Front(p)), Last(p))
      BY <3>1, TranslateStep
    <3>5. QED BY <3>3, <3>4, LookupIs
  <2>2. QED BY <2>1
<1>3. \A n \in Nat : n \in G
  <2> HIDE DEF G
  <2>1. G \in SUBSET Nat
    BY DEF G
  <2>2. QED BY <1>1, <1>2, <2>1, SetInduction
<1>4. ASSUME NEW p \in Paths PROVE Fine(p)
  <2>1. Len(p) \in Nat
    BY PathIs, Sizes
  <2>2. QED BY <1>3, <2>1
<1>5. QED BY <1>4 DEF PathsOK

\* A path that leads somewhere does so through an entry in the directory of its
\* parent.
LEMMA PathEntry ==
  ASSUME Sound(disk, bitmap), NEW p \in Paths, p # <<>>, translate(p) >= 0
  PROVE  LET i == translate(Front(p))
             s == Min(SlotsOf(i, Last(p)))
         IN  /\ i \in DirIno(disk) /\ Front(p) \in Paths /\ i >= 0 /\ Valid(disk, i, s)
             /\ EntriesOn(disk, i)[s].name = Last(p) /\ EntriesOn(disk, i)[s].inode = translate(p)
             /\ translate(p) \in Ino(disk) \ {2}
<1> DEFINE i == translate(Front(p))
<1>1. Front(p) \in Paths
  BY FrontIs
<1>2. i \in Int /\ (i >= 0 => i \in Ino(disk))
  BY <1>1, PathInodes DEF PathsOK
<1>3. translate(p) = Lookup(i, Last(p))
  BY TranslateStep
<1> HIDE DEF i
<1>4. /\ i \in DirIno(disk) /\ SlotsOf(i, Last(p)) # {} /\ translate(p) \in Ino(disk) \ {2}
      /\ translate(p) = EntriesOn(disk, i)[Min(SlotsOf(i, Last(p)))].inode
  BY <1>2, <1>3, LookupIs
<1>5. /\ Valid(disk, i, Min(SlotsOf(i, Last(p))))
      /\ EntriesOn(disk, i)[Min(SlotsOf(i, Last(p)))].name = Last(p)
  BY <1>4, SlotsAre
<1>6. i >= 0
  BY <1>4, Sizes DEF DirIno, Ino, Lbas
<1>7. QED BY <1>1, <1>4, <1>5, <1>6 DEF i

\* Different paths lead to different inodes.
PathsDiffer == \A p, q \in Paths : translate(p) >= 0 /\ translate(p) = translate(q) => p = q

\* No inode has two paths: entries lead to different inodes, and none to the root.
LEMMA PathsAreDifferent == Sound(disk, bitmap) => PathsDiffer
<1> SUFFICES ASSUME Sound(disk, bitmap) PROVE PathsDiffer
  OBVIOUS
<1> DEFINE Alone(p) == \A q \in Paths : translate(p) >= 0 /\ translate(p) = translate(q) => p = q
           G == {n \in Nat : \A p \in Paths : Len(p) = n => Alone(p)}
<1>0. EntriesOK(disk) /\ translate(<<>>) = 2
  BY TranslateStep DEF Sound
<1>1. 0 \in G
  <2>1. ASSUME NEW p \in Paths, Len(p) = 0, NEW q \in Paths, translate(p) = translate(q)
        PROVE  p = q
    <3>1. p = <<>>
      BY <2>1, PathIs
    <3>2. translate(q) = 2 /\ translate(q) >= 0
      BY <1>0, <2>1, <3>1
    <3>3. q = <<>>
      BY <3>2, PathEntry
    <3>4. QED BY <3>1, <3>3
  <2>2. QED BY <2>1
<1>2. ASSUME NEW n \in G PROVE n + 1 \in G
  <2>1. ASSUME NEW p \in Paths, Len(p) = n + 1, NEW q \in Paths,
               translate(p) >= 0, translate(p) = translate(q)
        PROVE  p = q
    <3> DEFINE i == translate(Front(p))
               j == translate(Front(q))
               s == Min(SlotsOf(i, Last(p)))
               t == Min(SlotsOf(j, Last(q)))
    <3>1. p # <<>>
      BY <2>1, PathIs
    <3>2. /\ i \in DirIno(disk) /\ Front(p) \in Paths /\ i >= 0 /\ Valid(disk, i, s)
          /\ EntriesOn(disk, i)[s].name = Last(p) /\ EntriesOn(disk, i)[s].inode = translate(p)
          /\ translate(p) \in Ino(disk) \ {2}
      BY <2>1, <3>1, PathEntry
    <3>3. q # <<>>
      BY <1>0, <2>1, <3>2
    <3>4. /\ Front(q) \in Paths /\ Valid(disk, j, t)
          /\ EntriesOn(disk, j)[t].name = Last(q) /\ EntriesOn(disk, j)[t].inode = translate(q)
      BY <2>1, <3>3, PathEntry
    <3> HIDE DEF i, j, s, t
    <3>5. i = j /\ s = t
      BY <1>0, <2>1, <3>2, <3>4 DEF EntriesOK
    <3>6. Last(p) = Last(q)
      BY <3>2, <3>4, <3>5
    <3>7. Len(Front(p)) = n
      BY <2>1, <3>1, FrontIs
    <3>8. Alone(Front(p))
      BY <3>2, <3>7
    <3>9. Front(p) = Front(q)
      BY <3>2, <3>4, <3>5, <3>8 DEF i, j
    <3>10. QED BY <3>1, <3>3, <3>6, <3>9, FrontAndLast
  <2>2. QED BY <2>1
<1>3. \A n \in Nat : n \in G
  <2> HIDE DEF G
  <2>1. G \in SUBSET Nat
    BY DEF G
  <2>2. QED BY <1>1, <1>2, <2>1, SetInduction
<1>4. ASSUME NEW p \in Paths PROVE Alone(p)
  <2>1. Len(p) \in Nat
    BY PathIs, Sizes
  <2>2. QED BY <1>3, <2>1
<1>5. QED BY <1>4 DEF PathsDiffer

-----------------------------------------------------------------------------
(* What soundness is for *)

\* An inode has as many data blocks as its size says, all marked.
LEMMA DataBlocks ==
  ASSUME Sound(disk, bitmap), NEW i \in Ino(disk)
  PROVE  /\ DataFrom(i, 0) = {disk[i].ptrs[k] : k \in Used(disk, i)}
         /\ DataFrom(i, 0) \subseteq bitmap \ Ino(disk) /\ DataFrom(i, 0) \cap {0, 1} = {}
         /\ IsFiniteSet(DataFrom(i, 0)) /\ Cardinality(DataFrom(i, 0)) = Blocks(disk[i].size)
         /\ i \in bitmap /\ i \notin {0, 1}
<1> DEFINE S == Used(disk, i)
           T == DataFrom(i, 0)
           f == [k \in S |-> disk[i].ptrs[k]]
           n == Blocks(disk[i].size)
<1>1. MarkFacts(disk, bitmap) /\ InoFacts(disk) /\ PtrFacts(disk, bitmap) /\ OwnersOK(disk)
  BY SoundFacts DEF Sound, Facts
<1>2. T = {disk[i].ptrs[k] : k \in S}
  BY DEF DataFrom, Used
<1>3. \A k \in S : disk[i].ptrs[k] \in bitmap \ Ino(disk) /\ disk[i].ptrs[k] \notin {0, 1}
  BY <1>1 DEF PtrFacts
<1>4. n \in Nat /\ S = 0..(n - 1)
  BY <1>1, Sizes DEF InoFacts, Used
<1>5. IsFiniteSet(S) /\ Cardinality(S) = n
  <2> HIDE DEF n
  <2>1. IsFiniteSet(0..(n - 1)) /\ Cardinality(0..(n - 1)) = IF 0 > n - 1 THEN 0 ELSE n - 1 - 0 + 1
    BY <1>4, FS_Interval
  <2>2. QED BY <1>4, <2>1
<1>6. f \in Surjection(S, T)
  <2> HIDE DEF S, T
  <2>1. f \in [S -> T] /\ \A l \in T : \E k \in S : f[k] = l
    BY <1>2
  <2>2. QED BY <2>1 DEF Surjection
<1>7. \A k, m \in S : f[k] = f[m] => k = m
  BY <1>1 DEF OwnersOK
<1>8. f \in Injection(S, T)
  <2>1. f \in [S -> T]
    BY <1>6 DEF Surjection
  <2> HIDE DEF S, T, f
  <2>2. DOMAIN f = S
    BY <2>1
  <2>3. QED BY <1>7, <2>1, <2>2 DEF Injection, IsInjective
<1>9. IsFiniteSet(T) /\ Cardinality(T) = n
  <2> HIDE DEF S, T, f, n
  <2>1. QED BY <1>5, <1>6, <1>8, FS_Surjection
<1>10. i \in bitmap /\ i \notin {0, 1}
  BY <1>1 DEF MarkFacts, InoFacts
<1>11. QED BY <1>2, <1>3, <1>9, <1>10

\* On a sound disk a path leads to an inode whose blocks are data, or to one
\* whose block is a directory.
LEMMA SoundTypeOK == IInv => TypeOK
<1> SUFFICES ASSUME IInv PROVE TypeOK
  OBVIOUS
<1>1. Sound(disk, bitmap) /\ bfree \in Int
  BY DEF IInv
<1>2. MarkFacts(disk, bitmap) /\ DirFacts(disk) /\ FileFacts(disk) /\ PathsOK
  BY <1>1, SoundFacts, PathInodes DEF Facts
<1>3. bitmap \subseteq Lbas /\ 0..3 \subseteq bitmap /\ disk[1] = Bitmap(bitmap)
  BY <1>2 DEF MarkFacts
<1>4. ASSUME NEW i \in Ino(disk)
      PROVE  /\ disk[i].kind = "inode"
             /\ disk[i].dir => disk[disk[i].ptrs[0]].kind = "directory"
             /\ ~disk[i].dir => DataFrom(i, 0) \subseteq Lbas
  <2>1. disk[i].kind = "inode"
    BY DEF Ino
  <2>2. disk[i].dir => disk[disk[i].ptrs[0]].kind = "directory"
    BY <1>2 DEF DirFacts, DirIno
  <2>3. DataFrom(i, 0) \subseteq bitmap
    BY <1>1, DataBlocks
  <2>4. QED BY <1>3, <2>1, <2>2, <2>3
<1>5. QED BY <1>1, <1>2, <1>3, <1>4 DEF TypeOK, PathsOK

\* On a sound disk different paths have different blocks.
LEMMA SoundNoSharedBlock == IInv => NoSharedBlock
<1> SUFFICES ASSUME IInv PROVE NoSharedBlock
  OBVIOUS
<1>1. Sound(disk, bitmap) /\ OwnersOK(disk)
  BY DEF IInv, Sound
<1>2. PathsOK /\ PathsDiffer
  BY <1>1, PathInodes, PathsAreDifferent
<1>3. \A p \in Existing : p \in Paths /\ translate(p) >= 0 /\ translate(p) \in Ino(disk)
  BY <1>2 DEF Existing, PathsOK
<1>4. ASSUME NEW p \in Existing, NEW q \in Existing, p # q PROVE Owned(p) \cap Owned(q) = {}
  <2> DEFINE i == translate(p)
             j == translate(q)
  <2>1. i \in Ino(disk) /\ j \in Ino(disk) /\ i # j
    BY <1>2, <1>3, <1>4 DEF PathsDiffer
  <2>2. Owned(p) = {i} \cup DataFrom(i, 0) /\ Owned(q) = {j} \cup DataFrom(j, 0)
    BY DEF Owned
  <2> HIDE DEF i, j
  <2>3. /\ DataFrom(i, 0) = {disk[i].ptrs[k] : k \in Used(disk, i)}
        /\ DataFrom(j, 0) = {disk[j].ptrs[k] : k \in Used(disk, j)}
        /\ i \notin DataFrom(j, 0) /\ j \notin DataFrom(i, 0)
    BY <1>1, <2>1, DataBlocks
  <2>4. DataFrom(i, 0) \cap DataFrom(j, 0) = {}
    BY <1>1, <2>1, <2>3 DEF OwnersOK
  <2>5. QED BY <2>1, <2>2, <2>3, <2>4
<1>5. ASSUME NEW p \in Existing
      PROVE  Owned(p) \cap {0, 1} = {} /\ Cardinality(Owned(p)) = 1 + Blocks(disk[translate(p)].size)
  <2> DEFINE i == translate(p)
             n == Blocks(disk[i].size)
  <2>1. i \in Ino(disk) /\ Owned(p) = {i} \cup DataFrom(i, 0)
    BY <1>3 DEF Owned
  <2> HIDE DEF i
  <2>2. /\ DataFrom(i, 0) \subseteq bitmap \ Ino(disk) /\ DataFrom(i, 0) \cap {0, 1} = {}
        /\ IsFiniteSet(DataFrom(i, 0)) /\ Cardinality(DataFrom(i, 0)) = n
        /\ i \notin {0, 1}
    BY <1>1, <2>1, DataBlocks
  <2>3. Cardinality(DataFrom(i, 0) \cup {i}) = n + 1
    BY <2>1, <2>2, FS_AddElement
  <2>4. n \in Nat
    BY <2>2, FS_CardinalityType
  <2>5. Owned(p) = DataFrom(i, 0) \cup {i} /\ n + 1 = 1 + n
    BY <2>1, <2>4
  <2>6. QED BY <2>2, <2>3, <2>5 DEF i
<1>6. QED BY <1>4, <1>5 DEF NoSharedBlock

\* On a sound disk all that a path leads to is marked.
LEMMA SoundUsedAreMarked == IInv => UsedAreMarked
<1> SUFFICES ASSUME IInv PROVE UsedAreMarked
  OBVIOUS
<1>1. Sound(disk, bitmap) /\ PathsOK
  BY PathInodes DEF IInv
<1>2. ASSUME NEW p \in Existing PROVE Owned(p) \subseteq bitmap
  <2>1. translate(p) \in Ino(disk)
    BY <1>1 DEF Existing, PathsOK
  <2>2. DataFrom(translate(p), 0) \subseteq bitmap /\ translate(p) \in bitmap
    BY <1>1, <2>1, DataBlocks
  <2>3. QED BY <2>2 DEF Owned
<1>3. QED BY <1>2 DEF UsedAreMarked

\* An empty disk is sound.
LEMMA InitSound == Init => IInv
<1> SUFFICES ASSUME Init PROVE IInv
  OBVIOUS
<1>1. 0 \in Lbas /\ 1 \in Lbas /\ 2 \in Lbas /\ 3 \in Lbas /\ 0..3 \subseteq Lbas
  BY Sizes DEF Lbas
<1> DEFINE root == Inode(TRUE, BLK, [NoPtrs EXCEPT ![0] = 3])
<1>2. /\ bitmap = 0..3 /\ bfree \in Int /\ DOMAIN disk = Lbas
      /\ disk[0] = [kind |-> "super"] /\ disk[1] = Bitmap(0..3) /\ disk[2] = root
      /\ disk[3] = Directory(NoEntries) /\ \A l \in Lbas \ (0..3) : disk[l] = Stale
  <2>1. bfree \in Int /\ bitmap = 0..3
    BY Sizes DEF Init
  <2>2. disk = [l \in Lbas |->
                 CASE l = 0 -> [kind |-> "super"]
                   [] l = 1 -> Bitmap(0..3)
                   [] l = 2 -> root
                   [] l = 3 -> Directory(NoEntries)
                   [] OTHER -> Stale]
    BY DEF Init
  <2> HIDE DEF root
  <2>3. disk[0] = [kind |-> "super"] /\ disk[1] = Bitmap(0..3) /\ disk[2] = root
    BY <1>1, <2>2
  <2>4. disk[3] = Directory(NoEntries)
    BY <1>1, <2>2
  <2>5. \A l \in Lbas \ (0..3) : disk[l] = Stale
    BY <2>2
  <2>6. QED BY <2>1, <2>2, <2>3, <2>4, <2>5
<1>3. NPtrs \in Nat /\ NPtrs - 1 >= 1
  <2>1. MaxSize \in 1..((NPtrs - 1) * BLK) /\ NPtrs \in Nat \ {0}
    BY Sizes
  <2>2. NPtrs # 1
    <3>1. SUFFICES ASSUME NPtrs = 1 PROVE FALSE
      OBVIOUS
    <3>2. (NPtrs - 1) * BLK = 0
      BY <3>1, Sizes
    <3>3. QED BY <2>1, <3>2
  <2>3. QED BY <2>1, <2>2
<1>4. /\ root.kind = "inode" /\ root.dir = TRUE /\ root.size = BLK /\ root.ptrs[0] = 3
      /\ root.ptrs \in [0..(NPtrs - 1) -> Int]
      /\ root = [kind |-> "inode", dir |-> TRUE, size |-> BLK, ptrs |-> root.ptrs]
  <2>1. [NoPtrs EXCEPT ![0] = 3] \in [0..(NPtrs - 1) -> Int] /\ [NoPtrs EXCEPT ![0] = 3][0] = 3
    BY <1>3 DEF NoPtrs
  <2>2. QED BY <2>1 DEF Inode
<1> HIDE DEF root
<1>5. Ino(disk) = {2}
  <2>1. ASSUME NEW l \in Lbas PROVE disk[l].kind = "inode" <=> l = 2
    <3>1. disk[0].kind = "super" /\ disk[1].kind = "bitmap" /\ disk[2].kind = "inode"
          /\ disk[3].kind = "directory"
      BY <1>2, <1>4 DEF Bitmap, Directory
    <3>2. \A h \in Lbas \ (0..3) : disk[h].kind = "stale"
      BY <1>2 DEF Stale
    <3>3. l = 0 \/ l = 1 \/ l = 2 \/ l = 3 \/ l \in Lbas \ (0..3)
      BY Sizes DEF Lbas
    <3>4. 2 \notin Lbas \ (0..3)
      OBVIOUS
    <3>5. QED BY <3>1, <3>2, <3>3, <3>4
  <2>2. QED BY <1>1, <2>1 DEF Ino
<1>6. DirIno(disk) = {2} /\ Used(disk, 2) = {0}
  <2>1. DirIno(disk) = {2}
    BY <1>2, <1>4, <1>5 DEF DirIno
  <2>2. Used(disk, 2) = 0..(1 - 1)
    BY <1>2, <1>4, SmallSizes DEF Used
  <2>3. QED BY <2>1, <2>2
<1>7. EntriesOn(disk, 2) = NoEntries /\ \A i, s : ~Valid(disk, i, s)
  <2>1. disk[disk[2].ptrs[0]] = Directory(NoEntries)
    BY <1>2, <1>4
  <2>2. disk[disk[2].ptrs[0]].entries = NoEntries
    BY <2>1 DEF Directory
  <2>3. EntriesOn(disk, 2) = NoEntries
    BY <2>2, Zenon DEF EntriesOn
  <2>4. QED BY <1>6, <2>3 DEF Valid, NoEntries, SlotSet
<1>8. BitmapOK(disk, bitmap)
  BY <1>1, <1>2 DEF BitmapOK
<1>9. InodesOK(disk, bitmap)
  <2>1. InodeOK(disk, bitmap, 2)
    <3>1. Blocks(disk[2].size) = 1
      BY <1>2, <1>4, SmallSizes
    <3>2. disk[2] \in [kind : {"inode"}, dir : BOOLEAN, size : Nat, ptrs : [0..(NPtrs - 1) -> Int]]
      BY <1>2, <1>4, Sizes
    <3>3. \A k \in Used(disk, 2) : disk[2].ptrs[k] \in bitmap
      BY <1>2, <1>4, <1>6
    <3>4. 1 \in 0..(NPtrs - 1)
      BY <1>3
    <3>5. QED BY <3>1, <3>2, <3>3, <3>4 DEF InodeOK
  <2>2. DirOK(disk, 2)
    <3>1. NoEntries \in [SlotSet -> Entry \cup {Free}]
      BY DEF NoEntries, SlotSet
    <3>2. disk[disk[2].ptrs[0]] = Directory(NoEntries) /\ disk[2].size = BLK
      BY <1>2, <1>4
    <3>3. QED BY <3>1, <3>2 DEF DirOK, Directory
  <2>3. QED BY <1>2, <1>4, <1>5, <1>6, <2>1, <2>2 DEF InodesOK
<1>10. OwnersOK(disk)
  BY <1>5, <1>6 DEF OwnersOK
<1>11. EntriesOK(disk)
  BY <1>7 DEF EntriesOK
<1>12. QED BY <1>2, <1>8, <1>9, <1>10, <1>11 DEF IInv, Sound

-----------------------------------------------------------------------------
(* The writes of a call *)

\* A block holds what one of the writes put into it, or what was there.
LEMMA AfterIs ==
  ASSUME NEW ws, NEW k \in Nat
  PROVE  /\ DOMAIN After(ws, k) = Lbas
         /\ \A l \in Lbas :
              IF \E j \in 1..k : ws[j].lba = l
              THEN \E j \in 1..k : ws[j].lba = l /\ After(ws, k)[l] = ws[j].block
              ELSE After(ws, k)[l] = disk[l]
<1>1. DOMAIN After(ws, k) = Lbas
  BY DEF After
<1>2. ASSUME NEW l \in Lbas, \E j \in 1..k : ws[j].lba = l
      PROVE  \E j \in 1..k : ws[j].lba = l /\ After(ws, k)[l] = ws[j].block
  <2> DEFINE j == CHOOSE j \in 1..k : ws[j].lba = l
  <2>1. j \in 1..k /\ ws[j].lba = l
    BY <1>2
  <2>2. After(ws, k)[l] = ws[j].block
    BY <1>2 DEF After
  <2>3. QED BY <2>1, <2>2
<1>3. ASSUME NEW l \in Lbas, ~\E j \in 1..k : ws[j].lba = l
      PROVE  After(ws, k)[l] = disk[l]
  BY <1>3 DEF After
<1>4. QED BY <1>1, <1>2, <1>3

\* The same for a program state after a step.
Wrote(ws, k, e) ==
  /\ DOMAIN e = Lbas
  /\ \A l \in Lbas : \/ \E j \in 1..k : ws[j].lba = l /\ e[l] = ws[j].block
                     \/ (\A j \in 1..k : ws[j].lba # l) /\ e[l] = disk[l]

\* The disk after some writes that is sound with the bitmap on it.
SoundAfter(ws, k) == \A e : Wrote(ws, k, e) => Sound(e, e[1].used)

\* The blocks that are not marked can be counted.
LEMMA FiniteBlocks == ASSUME NEW S PROVE IsFiniteSet(Lbas \ S) /\ Cardinality(Lbas \ S) \in Nat
<1>1. IsFiniteSet(Lbas)
  BY FS_Interval, Sizes DEF Lbas
<1>2. Lbas \ S \in SUBSET Lbas
  OBVIOUS
<1>3. IsFiniteSet(Lbas \ S)
  BY <1>1, <1>2, FS_Subset
<1>4. QED BY <1>3, FS_CardinalityType

\* A call preserves the invariant when the disk is sound after its writes, and
\* between two of them if the process may be stopped in it.
LEMMA PerformsSound ==
  ASSUME NEW op, NEW p, NEW args, NEW st, NEW ws, NEW used, NEW blocks \in Int,
         bfree \in Int, Len(ws) \in Nat,
         op \in CrashIn => \A k \in 1..(Len(ws) - 1) : SoundAfter(ws, k),
         \A e, f : /\ Wrote(ws, Len(ws), e) /\ DOMAIN f = Lbas
                   /\ \A l \in Lbas : f[l] = IF l \in bitmap \ used THEN Stale ELSE e[l]
                   => Sound(f, used),
         Performs(op, p, args, st, ws, used, blocks)
  PROVE  IInv'
<1>1. \A k \in Nat : Wrote(ws, k, After(ws, k))
  BY AfterIs DEF Wrote
<1>2. CASE /\ disk' = [l \in Lbas |-> IF l \in bitmap \ used THEN Stale ELSE After(ws, Len(ws))[l]]
           /\ bitmap' = used /\ bfree' = bfree + blocks
  <2>1. /\ DOMAIN disk' = Lbas
        /\ \A l \in Lbas : disk'[l] = IF l \in bitmap \ used THEN Stale ELSE After(ws, Len(ws))[l]
    BY <1>2
  <2>2. Sound(disk', used)
    BY <1>1, <2>1
  <2>3. QED BY <1>2, <2>2 DEF IInv
<1>3. CASE /\ op \in CrashIn /\ \E k \in 1..(Len(ws) - 1) : disk' = After(ws, k)
           /\ fs_init(op, p, args)
  <2>1. PICK k \in 1..(Len(ws) - 1) : disk' = After(ws, k)
    BY <1>3
  <2>2. Sound(disk', disk'[1].used)
    BY <1>1, <1>3, <2>1 DEF SoundAfter
  <2>3. bitmap' = disk'[1].used /\ bfree' = Cardinality(Lbas \ bitmap')
    BY <1>3 DEF fs_init
  <2>4. bfree' \in Int
    <3>1. IsFiniteSet(Lbas \ bitmap')
      BY FiniteBlocks
    <3>2. QED BY <2>3, <3>1, FS_CardinalityType
  <2>5. QED BY <2>2, <2>3, <2>4 DEF IInv
<1>4. QED BY <1>2, <1>3 DEF Performs

\* A call that changes nothing but the reply.
LEMMA ReturnsSound ==
  ASSUME IInv, NEW op, NEW p, NEW args, NEW st, NEW data, Returns(op, p, args, st, data)
  PROVE  IInv'
BY DEF Returns, IInv

\* The process is started again without having been stopped in a call.
LEMMA RestartsSound == ASSUME IInv, Restarts PROVE IInv'
<1>1. disk' = disk /\ disk[1] = Bitmap(bitmap) /\ Sound(disk, bitmap)
  BY DEF Restarts, IInv, Sound, BitmapOK
<1>2. bitmap' = bitmap /\ bfree' = Cardinality(Lbas \ bitmap')
  BY <1>1 DEF Restarts, fs_init, Bitmap
<1>3. bfree' \in Int
  <2>1. IsFiniteSet(Lbas \ bitmap')
    BY FiniteBlocks
  <2>2. QED BY <1>2, <2>1, FS_CardinalityType
<1>4. QED BY <1>1, <1>2, <1>3 DEF IInv

\* The directory in which p would be or is.
LEMMA ParentIs ==
  ASSUME IInv, NEW p \in Paths, p # <<>>, translate(Front(p)) >= 0, disk[translate(Front(p))].dir
  PROVE  translate(Front(p)) \in DirIno(disk) /\ Last(p) \in Names
<1>1. Sound(disk, bitmap) /\ PathsOK
  BY PathInodes DEF IInv
<1>2. Front(p) \in Paths /\ Last(p) \in Names
  BY FrontIs
<1>3. QED BY <1>1, <1>2 DEF PathsOK, DirIno

\* The disk after one write, and after two.
LEMMA WroteOne ==
  ASSUME NEW ws, NEW a \in Lbas, NEW x, ws[1] = To(a, x), NEW e, Wrote(ws, 1, e)
  PROVE  DOMAIN e = Lbas /\ e[a] = x /\ \A l \in Lbas \ {a} : e[l] = disk[l]
<1>1. ws[1].lba = a /\ ws[1].block = x
  BY DEF To
<1>2. 1..1 = {1}
  OBVIOUS
<1>3. QED BY <1>1, <1>2 DEF Wrote

\* After two writes to different blocks only these have changed.
LEMMA WroteTwo ==
  ASSUME NEW ws, NEW a \in Lbas, NEW x, ws[1] = To(a, x),
         NEW b \in Lbas \ {a}, NEW y, ws[2] = To(b, y), NEW e, Wrote(ws, 2, e)
  PROVE  /\ DOMAIN e = Lbas /\ e[a] = x /\ e[b] = y
         /\ \A l \in Lbas \ {a, b} : e[l] = disk[l]
<1>1. /\ ws[1].lba = a /\ ws[1].block = x
      /\ ws[2].lba = b /\ ws[2].block = y
  BY DEF To
<1>2. 1..2 = {1, 2}
  OBVIOUS
<1>3. QED BY <1>1, <1>2 DEF Wrote

\* No inode that stays owns a block in freed, and no entry that stays leads to one.
Freeable(d, freed) ==
  /\ freed \cap (0..3) = {}
  /\ \A i \in Ino(d) \ freed : \A k \in Used(d, i) : d[i].ptrs[k] \notin freed
  /\ \A j, t : Valid(d, j, t) /\ j \notin freed => EntriesOn(d, j)[t].inode \notin freed

\* One block changes and then blocks are given back, whether the process is
\* stopped in between or not.
LEMMA GivesBack ==
  ASSUME IInv, NEW op, NEW p, NEW args, NEW st, NEW a \in Lbas \ {1}, NEW x,
         NEW freed \in SUBSET bitmap, Cardinality(freed) \in Int,
         \A e : DOMAIN e = Lbas /\ e[a] = x /\ (\A l \in Lbas \ {a} : e[l] = disk[l])
                => Sound(e, bitmap) /\ Freeable(e, freed),
         Performs(op, p, args, st, <<To(a, x), To(1, Bitmap(bitmap \ freed))>>,
                  bitmap \ freed, Cardinality(freed))
  PROVE  IInv'
<1> DEFINE ws == <<To(a, x), To(1, Bitmap(bitmap \ freed))>>
           used == bitmap \ freed
<1>1. /\ 1 \in Lbas /\ disk[1] = Bitmap(bitmap) /\ bfree \in Int
      /\ Len(ws) = 2 /\ ws[1] = To(a, x) /\ ws[2] = To(1, Bitmap(used))
  BY Sizes DEF Lbas, IInv, Sound, BitmapOK
<1> HIDE DEF ws
<1>2. \A k \in 1..(Len(ws) - 1) : SoundAfter(ws, k)
  <2>1. SoundAfter(ws, 1)
    <3> SUFFICES ASSUME NEW e, Wrote(ws, 1, e) PROVE Sound(e, e[1].used)
      BY DEF SoundAfter
    <3>1. DOMAIN e = Lbas /\ e[a] = x /\ \A l \in Lbas \ {a} : e[l] = disk[l]
      BY <1>1, WroteOne
    <3>2. Sound(e, bitmap)
      BY <3>1
    <3>3. e[1].used = bitmap
      BY <1>1, <3>1 DEF Bitmap
    <3>4. QED BY <3>2, <3>3
  <2>2. \A k \in 1..(Len(ws) - 1) : k = 1
    BY <1>1
  <2>3. QED BY <2>1, <2>2
<1>3. ASSUME NEW g, NEW f, Wrote(ws, 2, g), DOMAIN f = Lbas,
             \A l \in Lbas : f[l] = IF l \in bitmap \ used THEN Stale ELSE g[l]
      PROVE  Sound(f, used)
  <2> DEFINE e == [l \in Lbas |-> IF l = a THEN x ELSE disk[l]]
  <2>1. DOMAIN e = Lbas /\ e[a] = x /\ \A l \in Lbas \ {a} : e[l] = disk[l]
    OBVIOUS
  <2>2. /\ g[a] = x /\ g[1] = Bitmap(used) /\ \A l \in Lbas \ {a, 1} : g[l] = disk[l]
    <3>1. 1 \in Lbas \ {a}
      BY <1>1
    <3>2. QED BY <1>1, <1>3, <3>1, WroteTwo
  <2>3. \A l \in Lbas : f[l] = IF l \in freed THEN Stale ELSE IF l = 1 THEN Bitmap(used) ELSE e[l]
    <3> TAKE l \in Lbas
    <3>1. l \in bitmap \ used <=> l \in freed
      OBVIOUS
    <3>2. CASE l = a
      BY <1>3, <2>1, <2>2, <3>1, <3>2
    <3>3. CASE l = 1
      BY <1>3, <2>2, <3>1, <3>3
    <3>4. CASE l \notin {a, 1}
      BY <1>3, <2>1, <2>2, <3>1, <3>4
    <3>5. QED BY <3>2, <3>3, <3>4
  <2>4. Sound(e, bitmap) /\ Freeable(e, freed)
    BY <2>1
  <2> HIDE DEF e
  <2>5. QED BY <1>3, <2>3, <2>4, Frees DEF Freeable
<1>4. Performs(op, p, args, st, ws, used, Cardinality(freed))
  BY DEF ws
<1>5. Len(ws) \in Nat /\ Cardinality(freed) \in Int /\ bfree \in Int
  BY <1>1
<1> HIDE DEF used
<1>6. \A e, f : /\ Wrote(ws, Len(ws), e) /\ DOMAIN f = Lbas
                /\ \A l \in Lbas : f[l] = IF l \in bitmap \ used THEN Stale ELSE e[l]
                => Sound(f, used)
  BY <1>1, <1>3
<1>7. QED BY <1>2, <1>4, <1>5, <1>6, PerformsSound

-----------------------------------------------------------------------------
(* The calls *)

\* What PathEntry says, with the directory block that the entry is in.
LEMMA EntryOf ==
  ASSUME IInv, NEW p \in Paths, p # <<>>, translate(p) >= 0
  PROVE  \E d \in DirIno(disk), s \in SlotSet :
           /\ d = translate(Front(p)) /\ s = Min(SlotsOf(d, Last(p))) /\ Valid(disk, d, s)
           /\ EntriesOn(disk, d)[s] \in Entry /\ EntriesOn(disk, d)[s].name = Last(p)
           /\ EntriesOn(disk, d)[s].inode = translate(p) /\ translate(p) \in Ino(disk) \ {2}
           /\ Entries(d) = EntriesOn(disk, d) /\ disk[d].ptrs[0] \in Lbas \ {0, 1}
<1>1. Sound(disk, bitmap)
  BY DEF IInv
<1> DEFINE d == translate(Front(p))
           s == Min(SlotsOf(d, Last(p)))
<1>2. /\ d \in DirIno(disk) /\ Valid(disk, d, s)
      /\ EntriesOn(disk, d)[s].name = Last(p) /\ EntriesOn(disk, d)[s].inode = translate(p)
      /\ translate(p) \in Ino(disk) \ {2}
  BY <1>1, PathEntry
<1> HIDE DEF d, s
<1>3. s \in SlotSet /\ EntriesOn(disk, d)[s] # Free
  BY <1>2 DEF Valid
<1>4. Entries(d) = EntriesOn(disk, d) /\ EntriesOn(disk, d) \in [SlotSet -> Entry \cup {Free}]
  BY <1>1, <1>2, SlotsAre
<1>5. disk[d].ptrs[0] \in Lbas \ {0, 1}
  <2>1. Facts(disk, bitmap)
    BY <1>1, SoundFacts
  <2>2. d \in Ino(disk) /\ 0 \in Used(disk, d)
    BY <1>2, <2>1 DEF Facts, DirFacts
  <2>3. QED BY <2>1, <2>2 DEF Facts, PtrFacts
<1>6. EntriesOn(disk, d)[s] \in Entry
  BY <1>3, <1>4
<1>7. QED BY <1>2, <1>3, <1>4, <1>5, <1>6 DEF d, s

\* fs_rename leaves the entry in its slot and gives it a name that is not there.
LEMMA RenameSound ==
  ASSUME IInv, NEW p \in Paths \ {<<>>}, NEW q \in Paths \ {<<>>}, fs_rename(p, q)
  PROVE  IInv'
<1>1. \A st : Refused("rename", p, q, st) => IInv'
  BY ReturnsSound DEF Refused
<1> SUFFICES ASSUME translate(p) >= 0, translate(q) < 0, Front(p) = Front(q),
                    LET d == translate(Front(p))
                    IN  Performs("rename", p, q, OK,
                          <<To(disk[d].ptrs[0],
                               Directory([Entries(d) EXCEPT ![Min(SlotsOf(d, Last(p)))].name = Last(q)]))>>,
                          bitmap, 0)
             PROVE  IInv'
  BY <1>1 DEF fs_rename
<1>2. PICK d \in DirIno(disk), s \in SlotSet :
        /\ d = translate(Front(p)) /\ s = Min(SlotsOf(d, Last(p))) /\ Valid(disk, d, s)
        /\ EntriesOn(disk, d)[s] \in Entry /\ EntriesOn(disk, d)[s].name = Last(p)
        /\ EntriesOn(disk, d)[s].inode = translate(p) /\ translate(p) \in Ino(disk) \ {2}
        /\ Entries(d) = EntriesOn(disk, d) /\ disk[d].ptrs[0] \in Lbas \ {0, 1}
  BY EntryOf
<1>3. Sound(disk, bitmap) /\ bfree \in Int /\ d \in Int /\ d >= 0 /\ d \in Ino(disk)
  BY <1>2, Sizes DEF IInv, DirIno, Ino, Lbas
<1> DEFINE a == disk[d].ptrs[0]
           old == EntriesOn(disk, d)[s]
           x == [old EXCEPT !.name = Last(q)]
           ws == <<To(a, Directory([EntriesOn(disk, d) EXCEPT ![s] = x]))>>
<1>4. Last(q) \in Names
  BY FrontIs
<1>5. x \in Entry /\ x.inode = translate(p) /\ x.name = Last(q)
  BY <1>2, <1>4 DEF Entry
<1>6. \A j, t : Valid(disk, j, t) /\ EntriesOn(disk, j)[t].inode = x.inode => j = d /\ t = s
  BY <1>2, <1>3, <1>5 DEF Sound, EntriesOK
<1>7. \A t : Valid(disk, d, t) /\ EntriesOn(disk, d)[t].name = x.name => t = s
  <2>1. translate(q) = Lookup(d, Last(q))
    BY <1>2, TranslateStep
  <2>2. SlotsOf(d, Last(q)) = {}
    BY <1>2, <1>3, <2>1, LookupIs
  <2>3. QED BY <1>2, <1>3, <1>5, <2>2, SlotsAre
<1>8. /\ Performs("rename", p, q, OK, ws, bitmap, 0)
      /\ Len(ws) = 1 /\ ws[1] = To(a, Directory([EntriesOn(disk, d) EXCEPT ![s] = x]))
  BY <1>2
<1> HIDE DEF ws, x
<1>9. \A e, f : /\ Wrote(ws, Len(ws), e) /\ DOMAIN f = Lbas
                /\ \A l \in Lbas : f[l] = IF l \in bitmap \ bitmap THEN Stale ELSE e[l]
                => Sound(f, bitmap)
  <2> SUFFICES ASSUME NEW e, NEW f, Wrote(ws, 1, e), DOMAIN f = Lbas,
                      \A l \in Lbas : f[l] = IF l \in bitmap \ bitmap THEN Stale ELSE e[l]
               PROVE  Sound(f, bitmap)
    BY <1>8
  <2>1. /\ e[a] = Directory([EntriesOn(disk, d) EXCEPT ![s] = x])
        /\ \A l \in Lbas \ {a} : e[l] = disk[l]
    BY <1>2, <1>8, WroteOne
  <2>2. \A l \in Lbas : f[l] = e[l]
    OBVIOUS
  <2>3. /\ f[a] = Directory([EntriesOn(disk, d) EXCEPT ![s] = x])
        /\ \A l \in Lbas \ {a} : f[l] = disk[l]
    BY <1>2, <2>1, <2>2
  <2>4. SlotFits(disk, d, s, x)
    BY <1>2, <1>5, <1>6, <1>7 DEF SlotFits
  <2>5. QED BY <1>3, <1>5, <2>3, <2>4, SlotChanges
<1>10. Len(ws) \in Nat /\ 0 \in Int /\ \A k \in 1..(Len(ws) - 1) : SoundAfter(ws, k)
  BY <1>8
<1>11. QED BY <1>3, <1>8, <1>9, <1>10, PerformsSound

\* Once the entry of an inode is gone, it and its blocks can be given back.
LEMMA RemovedIsFreeable ==
  ASSUME Sound(disk, bitmap), NEW d \in DirIno(disk), NEW s \in SlotSet, Valid(disk, d, s),
         NEW i \in Ino(disk) \ {2}, EntriesOn(disk, d)[s].inode = i,
         NEW e, SameBut(disk, e, d), EntriesOn(e, d) = [EntriesOn(disk, d) EXCEPT ![s] = Free]
  PROVE  Freeable(e, {i} \cup DataFrom(i, 0))
<1> DEFINE freed == {i} \cup DataFrom(i, 0)
<1>1. /\ Facts(disk, bitmap) /\ OwnersOK(disk) /\ EntriesOK(disk)
      /\ EntriesOn(disk, d) \in [SlotSet -> Entry \cup {Free}]
  BY SoundFacts, SlotsAre DEF Sound
<1>2. /\ DataFrom(i, 0) = {disk[i].ptrs[k] : k \in Used(disk, i)}
      /\ DataFrom(i, 0) \cap Ino(disk) = {} /\ DataFrom(i, 0) \cap {0, 1} = {}
  BY DataBlocks
<1>3. freed \cap (0..3) = {}
  <2>1. i \notin {0, 1, 2, 3}
    BY <1>1 DEF Facts, InoFacts
  <2>2. 2 \in Ino(disk) /\ 0 \in Used(disk, 2) /\ disk[2].ptrs[0] = 3
    BY <1>1 DEF Facts, DirFacts
  <2>3. \A k \in Used(disk, i) : disk[i].ptrs[k] # 3
    BY <1>1, <2>2 DEF OwnersOK
  <2>4. DataFrom(i, 0) \cap {0, 1, 2, 3} = {}
    BY <1>2, <2>2, <2>3
  <2>5. 0..3 = {0, 1, 2, 3}
    OBVIOUS
  <2>6. QED BY <2>1, <2>4, <2>5
<1>4. ASSUME NEW j \in Ino(e) \ freed, NEW k \in Used(e, j) PROVE e[j].ptrs[k] \notin freed
  <2>1. j \in Ino(disk) /\ e[j] = disk[j] /\ k \in Used(disk, j) /\ j # i
    BY DEF SameBut
  <2>2. disk[j].ptrs[k] # i
    BY <1>1, <2>1 DEF Facts, PtrFacts
  <2>3. disk[j].ptrs[k] \notin DataFrom(i, 0)
    BY <1>1, <1>2, <2>1 DEF OwnersOK
  <2>4. QED BY <2>1, <2>2, <2>3
<1>5. ASSUME NEW j, NEW t, Valid(e, j, t) PROVE EntriesOn(e, j)[t].inode \notin freed
  <2>1. j \in DirIno(disk) /\ t \in SlotSet /\ EntriesOn(e, j)[t] # Free
    BY <1>5 DEF Valid, SameBut
  <2>2. ~(j = d /\ t = s)
    <3>1. EntriesOn(e, d)[s] = Free
      BY <1>1
    <3>2. QED BY <2>1, <3>1
  <2>3. EntriesOn(e, j)[t] = EntriesOn(disk, j)[t]
    <3>1. CASE j = d
      BY <1>1, <2>1, <2>2, <3>1
    <3>2. CASE j # d
      BY <2>1, <3>2 DEF SameBut
    <3>3. QED BY <3>1, <3>2
  <2>4. Valid(disk, j, t)
    BY <2>1, <2>3 DEF Valid
  <2>5. EntriesOn(disk, j)[t].inode \in Ino(disk) /\ EntriesOn(disk, j)[t].inode # i
    BY <1>1, <2>2, <2>4 DEF EntriesOK
  <2>6. QED BY <1>2, <2>3, <2>5
<1>6. QED BY <1>3, <1>4, <1>5 DEF Freeable

\* Removing an entry and then giving back its inode and its blocks.
LEMMA UnlinksSound ==
  ASSUME IInv, NEW p \in Paths \ {<<>>}, translate(p) >= 0, NEW op,
         Unlinks(op, p, {translate(p)} \cup DataFrom(translate(p), 0))
  PROVE  IInv'
<1>1. PICK d \in DirIno(disk), s \in SlotSet :
        /\ d = translate(Front(p)) /\ s = Min(SlotsOf(d, Last(p))) /\ Valid(disk, d, s)
        /\ EntriesOn(disk, d)[s] \in Entry /\ EntriesOn(disk, d)[s].name = Last(p)
        /\ EntriesOn(disk, d)[s].inode = translate(p) /\ translate(p) \in Ino(disk) \ {2}
        /\ Entries(d) = EntriesOn(disk, d) /\ disk[d].ptrs[0] \in Lbas \ {0, 1}
  BY EntryOf
<1> DEFINE i == translate(p)
           freed == {i} \cup DataFrom(i, 0)
           a == disk[d].ptrs[0]
           x == Directory([EntriesOn(disk, d) EXCEPT ![s] = Free])
<1>2. Sound(disk, bitmap)
  BY DEF IInv
<1>3. freed \in SUBSET bitmap /\ Cardinality(freed) \in Int
  <2>1. /\ DataFrom(i, 0) \subseteq bitmap /\ i \in bitmap /\ IsFiniteSet(DataFrom(i, 0))
    BY <1>1, <1>2, DataBlocks
  <2>2. IsFiniteSet(freed)
    BY <2>1, FS_AddElement
  <2>3. QED BY <2>1, <2>2, FS_CardinalityType
<1>4. Performs(op, p, <<>>, OK, <<To(a, x), To(1, Bitmap(bitmap \ freed))>>,
               bitmap \ freed, Cardinality(freed))
  BY <1>1 DEF Unlinks, WithoutEntry
<1>5. ASSUME NEW e, DOMAIN e = Lbas, e[a] = x, \A l \in Lbas \ {a} : e[l] = disk[l]
      PROVE  Sound(e, bitmap) /\ Freeable(e, freed)
  <2>1. SlotFits(disk, d, s, Free)
    BY DEF SlotFits
  <2>2. /\ Sound(e, bitmap) /\ SameBut(disk, e, d)
        /\ EntriesOn(e, d) = [EntriesOn(disk, d) EXCEPT ![s] = Free]
    BY <1>1, <1>2, <1>5, <2>1, SlotChanges
  <2>3. QED BY <1>1, <1>2, <2>2, RemovedIsFreeable
<1>6. a \in Lbas \ {1}
  BY <1>1
<1> HIDE DEF freed, a, x
<1>7. QED BY <1>3, <1>4, <1>5, <1>6, GivesBack

\* fs_unlink gives the blocks back after the entry is gone from the disk.
LEMMA UnlinkSound ==
  ASSUME IInv, NEW p \in Paths \ {<<>>}, fs_unlink(p)
  PROVE  IInv'
<1>1. \A st : Refused("unlink", p, <<>>, st) => IInv'
  BY ReturnsSound DEF Refused
<1>2. QED BY <1>1, UnlinksSound DEF fs_unlink

\* A directory has one block, so that fs_rmdir gives back what fs_unlink would.
LEMMA RmdirSound ==
  ASSUME IInv, NEW p \in Paths \ {<<>>}, fs_rmdir(p)
  PROVE  IInv'
<1>1. \A st : Refused("rmdir", p, <<>>, st) => IInv'
  BY ReturnsSound DEF Refused
<1> DEFINE i == translate(p)
<1> SUFFICES ASSUME check_dir_empty(p) = OK, Unlinks("rmdir", p, {i, disk[i].ptrs[0]})
             PROVE  IInv'
  BY <1>1 DEF fs_rmdir
<1>2. Sound(disk, bitmap) /\ i \in Int /\ (i >= 0 => i \in Ino(disk))
  BY PathInodes DEF IInv, PathsOK
<1>3. i >= 0 /\ disk[i].dir
  BY <1>2 DEF check_dir_empty, OK, ENOTDIR
<1>4. Used(disk, i) = {0} /\ i \in Ino(disk)
  BY <1>2, <1>3, SoundFacts DEF Facts, DirFacts, DirIno
<1>5. {i, disk[i].ptrs[0]} = {i} \cup DataFrom(i, 0)
  BY <1>2, <1>4, DataBlocks
<1> HIDE DEF i
<1>6. Unlinks("rmdir", p, {i} \cup DataFrom(i, 0))
  BY <1>5
<1>7. QED BY <1>3, <1>6, UnlinksSound DEF i

\* What is known of a file and its blocks.
IsFileInode(i) ==
  /\ i \in Ino(disk) \ DirIno(disk) /\ i \in Lbas \ {0, 1, 2, 3}
  /\ disk[i].size \in Nat /\ disk[i].ptrs \in [0..(NPtrs - 1) -> Int]
  /\ Blocks(disk[i].size) \in 0..(NPtrs - 1)
  /\ \A k \in Used(disk, i) : /\ disk[i].ptrs[k] \in bitmap \ Ino(disk)
                              /\ disk[i].ptrs[k] \in Lbas \ {0, 1, 2, 3}
                              /\ disk[disk[i].ptrs[k]].kind \in {"data", "stale"}

\* A path to a file leads to such an inode.
LEMMA FileIs ==
  ASSUME IInv, NEW p \in Paths, FileError(p) = OK
  PROVE  IsFileInode(translate(p))
<1> DEFINE i == translate(p)
<1>1. Sound(disk, bitmap) /\ i \in Int /\ (i >= 0 => i \in Ino(disk))
  BY PathInodes DEF IInv, PathsOK
<1>2. i >= 0 /\ ~disk[i].dir
  BY <1>1 DEF FileError, OK, EISDIR
<1> HIDE DEF i
<1>3. Facts(disk, bitmap) /\ OwnersOK(disk)
  BY <1>1, SoundFacts DEF Sound
<1>4. i \in Ino(disk) \ DirIno(disk)
  BY <1>1, <1>2 DEF DirIno
<1>5. 2 \in Ino(disk) /\ 2 \in DirIno(disk) /\ 0 \in Used(disk, 2) /\ disk[2].ptrs[0] = 3
  BY <1>3 DEF Facts, DirFacts
<1>6. /\ i \in Lbas \ {0, 1, 2, 3}
      /\ disk[i].size \in Nat /\ disk[i].ptrs \in [0..(NPtrs - 1) -> Int]
      /\ Blocks(disk[i].size) \in 0..(NPtrs - 1)
  BY <1>3, <1>4, <1>5 DEF Facts, InoFacts, Ino
<1>7. ASSUME NEW k \in Used(disk, i)
      PROVE  /\ disk[i].ptrs[k] \in bitmap \ Ino(disk)
             /\ disk[i].ptrs[k] \in Lbas \ {0, 1, 2, 3}
             /\ disk[disk[i].ptrs[k]].kind \in {"data", "stale"}
  <2>1. disk[i].ptrs[k] # 3
    BY <1>3, <1>4, <1>5 DEF OwnersOK
  <2>2. disk[i].ptrs[k] \in bitmap \ Ino(disk) /\ disk[i].ptrs[k] \in Lbas \ {0, 1}
    BY <1>3, <1>4 DEF Facts, PtrFacts
  <2>3. disk[disk[i].ptrs[k]].kind \in {"data", "stale"}
    BY <1>3, <1>4 DEF Facts, FileFacts
  <2>4. QED BY <1>5, <2>1, <2>2, <2>3
<1>8. QED BY <1>4, <1>6, <1>7 DEF i, IsFileInode

\* A file that was cut no longer owns the blocks from the new end on.
LEMMA CutIsFreeable ==
  ASSUME Sound(disk, bitmap), NEW i \in Ino(disk) \ DirIno(disk), i \notin {0, 1, 2, 3},
         \A k \in Used(disk, i) : disk[i].ptrs[k] \in Lbas \ {0, 1, 2, 3},
         NEW len \in Nat, Blocks(len) <= Blocks(disk[i].size),
         NEW ptrs \in [0..(NPtrs - 1) -> Int],
         \A k \in 0..(Blocks(len) - 1) : ptrs[k] = disk[i].ptrs[k],
         NEW e, DOMAIN e = Lbas, e[i] = Inode(FALSE, len, ptrs),
         \A l \in Lbas \ {i} : e[l] = disk[l]
  PROVE  Sound(e, bitmap) /\ Freeable(e, DataFrom(i, Blocks(len)))
<1> DEFINE n == Blocks(disk[i].size)
           keep == Blocks(len)
           freed == DataFrom(i, keep)
<1>1. /\ OwnersOK(disk) /\ EntriesOK(disk) /\ Facts(disk, bitmap)
      /\ n \in 0..(NPtrs - 1) /\ NPtrs \in Nat \ {0} /\ keep \in Nat
  BY Sizes, SoundFacts, BlocksIs DEF Sound, Facts, InoFacts
<1>2. Used(disk, i) = 0..(n - 1)
  BY DEF Used
<1>3. freed = {disk[i].ptrs[b] : b \in keep..(n - 1)}
  BY DEF DataFrom
<1>4. keep <= n /\ keep = Blocks(len)
  OBVIOUS
<1> HIDE DEF n, keep, freed
<1>5. /\ keep \in 0..(NPtrs - 1) /\ \A b \in keep..(n - 1) : b \in Used(disk, i)
      /\ \A k \in 0..(keep - 1) : k \in Used(disk, i) /\ k \notin keep..(n - 1)
  BY <1>1, <1>2, <1>4
<1>6. \A k, m \in Used(disk, i) : disk[i].ptrs[k] = disk[i].ptrs[m] => k = m
  BY <1>1 DEF OwnersOK
<1>7. /\ Sound(e, bitmap) /\ Ino(e) = Ino(disk) /\ DirIno(e) = DirIno(disk)
      /\ \A j \in Ino(disk) \ {i} : e[j] = disk[j]
      /\ \A j \in DirIno(disk) : EntriesOn(e, j) = EntriesOn(disk, j)
      /\ Used(e, i) = 0..(keep - 1)
  <2>1. \A k \in 0..(Blocks(len) - 1) :
          \/ k \in Used(disk, i) /\ ptrs[k] = disk[i].ptrs[k]
          \/ ptrs[k] \in bitmap /\ disk[ptrs[k]] = Stale /\ Unowned(disk, ptrs[k])
    BY <1>4, <1>5
  <2>2. \A k, m \in 0..(Blocks(len) - 1) : ptrs[k] = ptrs[m] => k = m
    BY <1>4, <1>5, <1>6
  <2>3. Blocks(len) \in 0..(NPtrs - 1)
    BY <1>4, <1>5
  <2>4. PtrsFit(disk, bitmap, i, len, ptrs)
    BY <2>1, <2>2, <2>3 DEF PtrsFit
  <2>5. Sound(e, bitmap) /\ SameDirectories(disk, e, i) /\ Used(e, i) = 0..(Blocks(len) - 1)
    <3>1. Resized(disk, e, i, len, ptrs)
      BY DEF Resized
    <3>2. QED BY <2>4, <3>1, FileChanges
  <2>6. QED BY <1>4, <2>5 DEF SameDirectories
<1>8. freed \cap (0..3) = {} /\ freed \cap Ino(disk) = {}
  <2>1. \A l \in freed : l \notin {0, 1, 2, 3} /\ l \notin Ino(disk)
    BY <1>1, <1>3, <1>5 DEF Facts, PtrFacts
  <2>2. 0..3 = {0, 1, 2, 3}
    OBVIOUS
  <2>3. QED BY <2>1, <2>2
<1>9. ASSUME NEW j \in Ino(e) \ freed, NEW k \in Used(e, j) PROVE e[j].ptrs[k] \notin freed
  <2>1. CASE j = i
    <3>1. k \in 0..(keep - 1) /\ e[i].ptrs = ptrs
      BY <1>7, <2>1 DEF Inode
    <3>2. e[i].ptrs[k] = disk[i].ptrs[k] /\ k \in Used(disk, i) /\ k \notin keep..(n - 1)
      BY <1>4, <1>5, <3>1
    <3>3. \A b \in keep..(n - 1) : disk[i].ptrs[b] # disk[i].ptrs[k]
      BY <1>5, <1>6, <3>2
    <3>4. disk[i].ptrs[k] \notin freed
      BY <1>3, <3>3
    <3>5. QED BY <2>1, <3>2, <3>4
  <2>2. CASE j # i
    <3>1. e[j] = disk[j] /\ k \in Used(disk, j) /\ j \in Ino(disk)
      BY <1>7, <2>2 DEF Used
    <3>2. \A b \in keep..(n - 1) : disk[i].ptrs[b] # disk[j].ptrs[k]
      BY <1>1, <1>5, <2>2, <3>1 DEF OwnersOK
    <3>3. QED BY <1>3, <3>1, <3>2
  <2>3. QED BY <2>1, <2>2
<1>10. ASSUME NEW j, NEW t, Valid(e, j, t) PROVE EntriesOn(e, j)[t].inode \notin freed
  <2>1. Valid(disk, j, t) /\ EntriesOn(e, j)[t] = EntriesOn(disk, j)[t]
    BY <1>7, <1>10 DEF Valid
  <2>2. QED BY <1>1, <1>8, <2>1 DEF EntriesOK
<1>11. Freeable(e, freed)
  BY <1>8, <1>9, <1>10 DEF Freeable
<1>12. QED BY <1>4, <1>7, <1>11 DEF freed

\* fs_truncate writes the inode without the pointers, then gives the blocks back.
LEMMA TruncateSound ==
  ASSUME IInv, NEW p \in Paths, NEW len \in Int, fs_truncate(p, len)
  PROVE  IInv'
<1>1. \A st : Refused("truncate", p, len, st) => IInv'
  BY ReturnsSound DEF Refused
<1> DEFINE i == translate(p)
           n == Blocks(disk[i].size)
           keep == Blocks(len)
           freed == DataFrom(i, keep)
           ptr(k) == IF k \in keep..(n - 1) THEN -1 ELSE disk[i].ptrs[k]
           ptrs == [k \in 0..(NPtrs - 1) |-> ptr(k)]
           x == Inode(FALSE, len, ptrs)
<1> SUFFICES ASSUME FileError(p) = OK, len >= 0, keep <= n,
                    Performs("truncate", p, len, OK,
                      <<To(i, x), To(1, Bitmap(bitmap \ freed))>>,
                      bitmap \ freed, Cardinality(freed))
             PROVE  IInv'
  BY <1>1 DEF fs_truncate
<1> HIDE DEF x
<1>2. /\ i \in Ino(disk) \ DirIno(disk) /\ i \in Lbas \ {0, 1, 2, 3}
      /\ disk[i].size \in Nat /\ disk[i].ptrs \in [0..(NPtrs - 1) -> Int]
      /\ n \in 0..(NPtrs - 1)
      /\ \A k \in Used(disk, i) : /\ disk[i].ptrs[k] \in bitmap \ Ino(disk)
                                  /\ disk[i].ptrs[k] \in Lbas \ {0, 1, 2, 3}
  <2>1. IsFileInode(i)
    BY FileIs
  <2> HIDE DEF i
  <2>2. QED BY <2>1 DEF IsFileInode
<1> HIDE DEF i
<1>3. Sound(disk, bitmap) /\ len \in Nat /\ keep \in Nat /\ NPtrs \in Nat \ {0}
  BY Sizes, BlocksIs DEF IInv
<1>4. Used(disk, i) = 0..(n - 1) /\ freed = {disk[i].ptrs[b] : b \in keep..(n - 1)}
  BY DEF Used, DataFrom
<1> HIDE DEF n, freed
<1>5. \A k \in 0..(keep - 1) : k \in 0..(NPtrs - 1) /\ k \notin keep..(n - 1)
  <2> HIDE DEF keep
  <2>1. QED BY <1>2, <1>3
<1>6. ptrs \in [0..(NPtrs - 1) -> Int] /\ \A k \in 0..(keep - 1) : ptrs[k] = disk[i].ptrs[k]
  <2>1. ASSUME NEW k \in 0..(NPtrs - 1) PROVE ptr(k) \in Int
    <3>1. disk[i].ptrs[k] \in Int
      BY <1>2
    <3>2. QED BY <3>1
  <2>2. ASSUME NEW k \in 0..(keep - 1) PROVE ptr(k) = disk[i].ptrs[k]
    BY <1>5
  <2> HIDE DEF ptr
  <2>3. ptrs \in [0..(NPtrs - 1) -> Int]
    BY <2>1
  <2>4. \A k \in 0..(keep - 1) : ptrs[k] = disk[i].ptrs[k]
    BY <1>5, <2>2
  <2>5. QED BY <2>3, <2>4
<1>7. freed \in SUBSET bitmap /\ Cardinality(freed) \in Int
  <2>1. \A b \in keep..(n - 1) : b \in Used(disk, i)
    <3> HIDE DEF keep
    <3>1. QED BY <1>2, <1>3, <1>4
  <2>2. DataFrom(i, 0) = {disk[i].ptrs[k] : k \in Used(disk, i)} /\ IsFiniteSet(DataFrom(i, 0))
    BY <1>2, <1>3, DataBlocks
  <2>3. freed \in SUBSET DataFrom(i, 0)
    BY <1>4, <2>1, <2>2
  <2>4. IsFiniteSet(freed)
    BY <2>2, <2>3, FS_Subset
  <2>5. QED BY <1>2, <1>4, <2>1, <2>4, FS_CardinalityType
<1> HIDE DEF ptrs
<1>8. ASSUME NEW e, DOMAIN e = Lbas, e[i] = x, \A l \in Lbas \ {i} : e[l] = disk[l]
      PROVE  Sound(e, bitmap) /\ Freeable(e, freed)
  <2>1. e[i] = Inode(FALSE, len, ptrs)
    BY <1>8 DEF x
  <2>2. Blocks(len) <= Blocks(disk[i].size)
    BY DEF n
  <2>3. QED BY <1>2, <1>3, <1>6, <1>8, <2>1, <2>2, CutIsFreeable DEF freed
<1>9. i \in Lbas \ {1}
  BY <1>2
<1>10. QED BY <1>7, <1>8, <1>9, GivesBack

\* The larger of two numbers (FiniteSetsExt: Max).
LEMMA MaxOfTwo ==
  ASSUME NEW a \in Int, NEW b \in Int
  PROVE  (a >= b /\ Max({a, b}) = a) \/ (b > a /\ Max({a, b}) = b)
<1>1. CASE a >= b
  <2>1. \A x \in {a, b} : (\A y \in {a, b} : x >= y) <=> x = a
    BY <1>1
  <2>2. Max({a, b}) = a
    BY <2>1 DEF Max
  <2>3. QED BY <1>1, <2>2
<1>2. CASE b > a
  <2>1. \A x \in {a, b} : (\A y \in {a, b} : x >= y) <=> x = b
    BY <1>2
  <2>2. Max({a, b}) = b
    BY <2>1 DEF Max
  <2>3. QED BY <1>2, <2>2
<1>3. QED BY <1>1, <1>2

\* The last block of a write, and the blocks of the file after it.
LEMMA WriteSizes ==
  ASSUME NEW size \in Nat, Blocks(size) \in 0..(NPtrs - 1),
         NEW off \in Nat, NEW len \in Nat \ {0}, off + len <= MaxSize
  PROVE  LET n == Blocks(size)
             last == (off + len - 1) \div BLK
             grown == Max({size, off + len})
         IN  /\ last \in 0..(NPtrs - 2) /\ off \div BLK \in 0..last
             /\ grown \in Nat /\ Blocks(grown) \in 0..(NPtrs - 1)
             /\ \A k \in 0..(Blocks(grown) - 1) : k < n \/ k \in n..last
<1> DEFINE n == Blocks(size)
           a == off + len
           last == (a - 1) \div BLK
           grown == Max({size, a})
<1>1. a \in Nat \ {0} /\ a - 1 \in Nat /\ off <= a - 1 /\ BLK \in Nat \ {0} /\ NPtrs \in Nat
  BY Sizes
<1>2. a > 0
  BY <1>1
<1>3. Blocks(a) = last + 1 /\ Blocks(a) \in Nat /\ Blocks(a) <= NPtrs - 1
  BY <1>1, <1>2, BlocksIs, BlocksMonotone
<1>4. off \div BLK \in Nat /\ off \div BLK <= last /\ last \in Nat
  BY <1>1, DivMod, DivMonotone
<1>5. (size >= a /\ grown = size) \/ (a > size /\ grown = a)
  BY <1>1, MaxOfTwo
<1> HIDE DEF grown, last
<1>6. Blocks(grown) \in 0..(NPtrs - 1) /\ grown \in Nat
  <2>1. CASE grown = size
    BY <2>1
  <2>2. CASE grown = a
    BY <1>1, <1>3, <2>2
  <2>3. QED BY <1>5, <2>1, <2>2
<1>7. \A k \in 0..(Blocks(grown) - 1) : k < n \/ k \in n..last
  <2>1. CASE grown = size
    BY <1>4, <2>1
  <2>2. CASE grown = a
    BY <1>3, <1>4, <2>2
  <2>3. QED BY <1>5, <2>1, <2>2
<1>8. last \in 0..(NPtrs - 2) /\ off \div BLK \in 0..last
  BY <1>1, <1>3, <1>4
<1>9. QED BY <1>6, <1>7, <1>8 DEF grown, last

\* The blocks that a write adds to file i, and the pointers with them.
Added(n, last) == FirstFree(Max({last - n + 1, 0}))
Grown(i, n, last) ==
  [k \in 0..(NPtrs - 1) |-> IF k \in n..last THEN Added(n, last)[k - n + 1] ELSE disk[i].ptrs[k]]

\* Each is a free block, and each another one.
GrownOK(i, n, last) ==
  LET ptrs == Grown(i, n, last)
      used == bitmap \cup ToSet(Added(n, last))
  IN  /\ ptrs \in [0..(NPtrs - 1) -> Int]
      /\ ToSet(Added(n, last)) \subseteq FreeBlocks
      /\ last < n => used = bitmap
      /\ \A k \in n..last : ptrs[k] \in FreeBlocks /\ ptrs[k] \in used
      /\ \A k, m \in n..last : ptrs[k] = ptrs[m] => k = m
      /\ \A k \in 0..(NPtrs - 1) : k \notin n..last => ptrs[k] = disk[i].ptrs[k]

\* A write finds what it needs when there are so many free blocks.
LEMMA GrownIs ==
  ASSUME NEW i, disk[i].ptrs \in [0..(NPtrs - 1) -> Int],
         NEW n \in Nat, NEW last \in Int, last <= NPtrs - 2,
         last - n + 1 <= Cardinality(FreeBlocks)
  PROVE  GrownOK(i, n, last)
<1> DEFINE N == Max({last - n + 1, 0})
           new == Added(n, last)
           ptrs == Grown(i, n, last)
<1>1. NPtrs \in Nat \ {0} /\ Cardinality(FreeBlocks) \in Nat /\ FreeBlocks \subseteq Int
  <2>1. FreeBlocks \subseteq Int
    BY Sizes DEF FreeBlocks, Lbas
  <2>2. Cardinality(FreeBlocks) \in Nat
    BY FiniteBlocks DEF FreeBlocks
  <2>3. QED BY <2>1, <2>2, Sizes
<1>2. (last >= n /\ N = last - n + 1) \/ (last < n /\ N = 0)
  <2>1. (last - n + 1 >= 0 /\ N = last - n + 1) \/ (0 > last - n + 1 /\ N = 0)
    BY MaxOfTwo
  <2> HIDE DEF N
  <2>2. QED BY <2>1
<1>3. N \in 0..Cardinality(FreeBlocks)
  <2> HIDE DEF N
  <2>1. QED BY <1>1, <1>2
<1>4. /\ new \in [1..N -> FreeBlocks] /\ \A j, k \in 1..N : new[j] = new[k] => j = k
      /\ DOMAIN new = 1..N
  BY <1>3, FirstFreeIs DEF Added
<1> HIDE DEF N
<1>5. \A k \in n..last : k - n + 1 \in 1..N /\ k \in 0..(NPtrs - 1)
  BY <1>1, <1>2
<1>6. \A k \in n..last : ptrs[k] = new[k - n + 1]
  BY <1>5 DEF Grown
<1>7. \A k \in 0..(NPtrs - 1) : k \notin n..last => ptrs[k] = disk[i].ptrs[k]
  BY DEF Grown
<1>8. ToSet(new) = {new[k] : k \in 1..N}
  BY <1>4 DEF ToSet
<1> HIDE DEF new
<1>9. \A k \in n..last : ptrs[k] \in FreeBlocks /\ ptrs[k] \in ToSet(new)
  BY <1>4, <1>5, <1>6, <1>8
<1>10. ASSUME NEW k \in n..last, NEW m \in n..last, ptrs[k] = ptrs[m] PROVE k = m
  <2>1. k - n + 1 = m - n + 1
    BY <1>4, <1>5, <1>6, <1>10
  <2>2. QED BY <2>1
<1>11. ptrs \in [0..(NPtrs - 1) -> Int]
  <2>1. DOMAIN ptrs = 0..(NPtrs - 1) /\ ptrs = [k \in 0..(NPtrs - 1) |-> ptrs[k]]
    BY DEF Grown
  <2>2. ASSUME NEW k \in 0..(NPtrs - 1) PROVE ptrs[k] \in Int
    <3>1. CASE k \in n..last
      BY <1>1, <1>9, <3>1
    <3>2. CASE k \notin n..last
      BY <1>7, <3>2
    <3>3. QED BY <3>1, <3>2
  <2> HIDE DEF ptrs
  <2>3. QED BY <2>1, <2>2
<1>12. last < n => ToSet(new) = {}
  BY <1>2, <1>8
<1>13. ToSet(new) \subseteq FreeBlocks
  BY <1>4, <1>8
<1> HIDE DEF ptrs
<1>14. QED BY <1>7, <1>9, <1>10, <1>11, <1>12, <1>13 DEF new, ptrs, GrownOK

\* The first n blocks of a file and those from n to last are its first m.
Covers(m, n, last) == \A k \in 0..(m - 1) : k < n \/ k \in n..last

\* The first n are an interval, too.
LEMMA BelowIs ==
  ASSUME NEW n \in Nat, NEW last, NEW m \in Nat, Covers(m, n, last)
  PROVE  \A k \in 0..(m - 1) : k \in 0..(n - 1) \/ k \in n..last
BY DEF Covers

\* Disk d is the disk but for the bitmap.
Marked(d, used) ==
  DOMAIN d = Lbas /\ d[1] = Bitmap(used) /\ \A l \in Lbas \ {1} : d[l] = disk[l]

\* With the new blocks marked the inode may get them.
LEMMA GrownFits ==
  ASSUME Sound(disk, bitmap), NEW i \in Ino(disk) \ DirIno(disk), NEW last \in Int,
         last <= NPtrs - 2, last - Blocks(disk[i].size) + 1 <= Cardinality(FreeBlocks),
         NEW size \in Nat, Blocks(size) \in 0..(NPtrs - 1),
         Covers(Blocks(size), Blocks(disk[i].size), last),
         NEW used, used = bitmap \cup ToSet(Added(Blocks(disk[i].size), last)),
         NEW d, Marked(d, used)
  PROVE  /\ Sound(d, used) /\ PtrsFit(d, used, i, size, Grown(i, Blocks(disk[i].size), last))
         /\ i \in Ino(d) \ DirIno(d)
<1> DEFINE n == Blocks(disk[i].size)
           ptrs == Grown(i, n, last)
<1>1. /\ Facts(disk, bitmap) /\ OwnersOK(disk) /\ i \in Ino(disk) /\ n \in Nat /\ n <= NPtrs - 1
      /\ NPtrs \in Nat /\ disk[i].ptrs \in [0..(NPtrs - 1) -> Int]
  BY SoundFacts, Sizes DEF Sound, Facts, InoFacts
<1>2. Used(disk, i) = 0..(n - 1)
  BY DEF Used
<1>3. \A k \in 0..(Blocks(size) - 1) : k \in Used(disk, i) \/ k \in n..last
  <2> DEFINE m == Blocks(size)
  <2>1. m \in Nat /\ Covers(m, n, last)
    BY <1>1
  <2> HIDE DEF m, n, ptrs
  <2>2. n \in Nat /\ \A k \in 0..(m - 1) : k \in 0..(n - 1) \/ k \in n..last
    BY <1>1, <2>1, BelowIs
  <2>3. QED BY <1>2, <2>2 DEF m
<1>4. /\ ptrs \in [0..(NPtrs - 1) -> Int] /\ ToSet(Added(n, last)) \subseteq FreeBlocks
      /\ \A k \in n..last : ptrs[k] \in FreeBlocks /\ ptrs[k] \in used
      /\ \A k, m \in n..last : ptrs[k] = ptrs[m] => k = m
      /\ \A k \in 0..(NPtrs - 1) : k \notin n..last => ptrs[k] = disk[i].ptrs[k]
  <2>1. last - n + 1 <= Cardinality(FreeBlocks) /\ used = bitmap \cup ToSet(Added(n, last))
    OBVIOUS
  <2> HIDE DEF n
  <2>2. GrownOK(i, n, last)
    BY <1>1, <2>1, GrownIs
  <2>3. QED BY <2>1, <2>2 DEF GrownOK
<1>5. \A k \in Used(disk, i) : k \notin n..last /\ k \in 0..(NPtrs - 1)
  <2> HIDE DEF n
  <2>1. QED BY <1>1, <1>2
<1> HIDE DEF n, ptrs
<1>6. \A k \in Used(disk, i) : ptrs[k] = disk[i].ptrs[k] /\ ptrs[k] \in bitmap
  BY <1>1, <1>4, <1>5 DEF Facts, PtrFacts
<1>7. used \subseteq Lbas /\ bitmap \subseteq used
  BY <1>1, <1>4 DEF FreeBlocks, Facts, MarkFacts, n
<1>8. Sound(d, used)
  BY <1>7, Marks DEF Marked
<1>9. /\ 1 \notin Ino(disk) /\ d[1].kind # "inode"
      /\ 1 \in bitmap /\ \A l \in FreeBlocks : disk[l] = Stale /\ l \in Lbas \ bitmap
  BY <1>1 DEF Facts, MarkFacts, InoFacts, Bitmap, FreeBlocks, Marked
<1>10. Ino(d) = Ino(disk) /\ \A j \in Ino(disk) : d[j] = disk[j]
  BY <1>9 DEF Ino, Marked
<1>11. DirIno(d) = DirIno(disk) /\ \A j \in Ino(disk) : Used(d, j) = Used(disk, j)
  BY <1>10 DEF DirIno, Used
<1>12. \A l \in FreeBlocks : d[l] = Stale /\ Unowned(d, l)
  <2> TAKE l \in FreeBlocks
  <2>1. d[l] = Stale
    BY <1>9 DEF Marked
  <2>2. \A j \in Ino(disk) : \A k \in Used(disk, j) : disk[j].ptrs[k] \in bitmap
    BY <1>1 DEF Facts, PtrFacts
  <2>3. Unowned(d, l)
    BY <1>9, <1>10, <1>11, <2>2 DEF Unowned
  <2>4. QED BY <2>1, <2>3
<1>13. \A k \in 0..(Blocks(size) - 1) :
         \/ k \in Used(d, i) /\ ptrs[k] = d[i].ptrs[k]
         \/ ptrs[k] \in used /\ d[ptrs[k]] = Stale /\ Unowned(d, ptrs[k])
  <2> TAKE k \in 0..(Blocks(size) - 1)
  <2>1. CASE k \in Used(disk, i)
    BY <1>6, <1>10, <1>11, <2>1
  <2>2. CASE k \in n..last
    BY <1>4, <1>12, <2>2
  <2>3. QED BY <1>3, <2>1, <2>2
<1>14. ASSUME NEW k \in 0..(Blocks(size) - 1), NEW m \in 0..(Blocks(size) - 1), ptrs[k] = ptrs[m]
       PROVE  k = m
  <2>1. CASE k \in Used(disk, i) /\ m \in Used(disk, i)
    BY <1>1, <1>6, <1>14, <2>1 DEF OwnersOK
  <2>2. CASE k \in n..last /\ m \in n..last
    BY <1>4, <1>14, <2>2
  <2>3. CASE k \in Used(disk, i) /\ m \in n..last
    BY <1>4, <1>6, <1>9, <1>14, <2>3
  <2>4. CASE k \in n..last /\ m \in Used(disk, i)
    BY <1>4, <1>6, <1>9, <1>14, <2>4
  <2>5. QED BY <1>3, <2>1, <2>2, <2>3, <2>4
<1>15. PtrsFit(d, used, i, size, ptrs)
  BY <1>4, <1>13, <1>14 DEF PtrsFit
<1>16. QED BY <1>8, <1>10, <1>11, <1>15 DEF n, ptrs

\* The blocks that the data of a write goes to.
Writable(i, first, last, used, ptrs) ==
  \A b \in first..last : ptrs[b] \in used \ {1, i} /\ disk[ptrs[b]].kind \in {"data", "stale"}

\* They are blocks of the file or free ones.
LEMMA WrittenBlocks ==
  ASSUME Sound(disk, bitmap), NEW i, IsFileInode(i), NEW first \in Nat, NEW last \in Int,
         last <= NPtrs - 2, last - Blocks(disk[i].size) + 1 <= Cardinality(FreeBlocks),
         NEW used, used = bitmap \cup ToSet(Added(Blocks(disk[i].size), last)),
         NEW ptrs, ptrs = Grown(i, Blocks(disk[i].size), last)
  PROVE  Writable(i, first, last, used, ptrs)
<1> USE DEF Writable
<1> TAKE b \in first..last
<1> DEFINE n == Blocks(disk[i].size)
<1>1. /\ Facts(disk, bitmap) /\ i \in Ino(disk) /\ i \notin {0, 1, 2, 3} /\ n \in Nat
      /\ NPtrs \in Nat /\ disk[i].ptrs \in [0..(NPtrs - 1) -> Int]
      /\ last - n + 1 <= Cardinality(FreeBlocks)
      /\ \A k \in Used(disk, i) : /\ disk[i].ptrs[k] \in bitmap \ Ino(disk)
                                  /\ disk[i].ptrs[k] \in Lbas \ {0, 1, 2, 3}
                                  /\ disk[disk[i].ptrs[k]].kind \in {"data", "stale"}
  <2>1. Facts(disk, bitmap) /\ NPtrs \in Nat /\ last - n + 1 <= Cardinality(FreeBlocks)
    BY SoundFacts, Sizes
  <2>2. n \in Nat /\ i \in Ino(disk) /\ i \notin {0, 1, 2, 3}
    BY Sizes DEF IsFileInode
  <2> HIDE DEF n
  <2>3. QED BY <2>1, <2>2 DEF IsFileInode
<1>2. ptrs = Grown(i, n, last) /\ used = bitmap \cup ToSet(Added(n, last))
  OBVIOUS
<1>3. Used(disk, i) = 0..(n - 1)
  BY DEF Used
<1> HIDE DEF n
<1>4. GrownOK(i, n, last)
  BY <1>1, GrownIs
<1>5. CASE b < n
  <2>1. b \in Used(disk, i) /\ b \in 0..(NPtrs - 1) /\ b \notin n..last
    <3>1. b \in Nat /\ b <= NPtrs - 1
      BY <1>1
    <3>2. b \in 0..(n - 1) /\ b \notin n..last
      BY <1>1, <1>5, <3>1
    <3>3. QED BY <1>1, <1>3, <3>1, <3>2
  <2>2. ptrs[b] = disk[i].ptrs[b]
    BY <1>2, <1>4, <2>1 DEF GrownOK
  <2>3. QED BY <1>1, <1>2, <2>1, <2>2
<1>6. CASE b >= n
  <2>1. b \in n..last
    BY <1>1, <1>6
  <2>2. ptrs[b] \in FreeBlocks /\ ptrs[b] \in used
    BY <1>2, <1>4, <2>1 DEF GrownOK
  <2>3. \A l \in FreeBlocks : disk[l].kind = "stale" /\ l \notin {1, i}
    <3>1. 1 \in bitmap /\ i \in bitmap
      BY <1>1 DEF Facts, MarkFacts
    <3>2. \A l \in FreeBlocks : disk[l].kind = "stale" /\ l \notin bitmap
      BY <1>1 DEF Facts, MarkFacts, FreeBlocks
    <3>3. QED BY <3>1, <3>2
  <2>4. QED BY <2>2, <2>3
<1>7. QED BY <1>1, <1>5, <1>6

\* What is on the disk after some of the writes to file i.
Written(e, used, i, x, first, last, ptrs) ==
  /\ DOMAIN e = Lbas /\ e[1] = Bitmap(used)
  /\ \/ \A l \in Lbas \ {1} : e[l] = disk[l]
     \/ /\ e[i] = x
        /\ \A l \in Lbas \ {1, i} : \/ e[l] = disk[l]
                                    \/ e[l].kind = "data" /\ \E b \in first..last : l = ptrs[b]

\* A write of an inode and data is sound however far it gets, once the new
\* blocks are marked.
LEMMA WriteIsSound ==
  ASSUME Sound(disk, bitmap), NEW i, IsFileInode(i), NEW first \in Nat, NEW last \in Int,
         last <= NPtrs - 2, last - Blocks(disk[i].size) + 1 <= Cardinality(FreeBlocks),
         NEW size \in Nat, Blocks(size) \in 0..(NPtrs - 1),
         Covers(Blocks(size), Blocks(disk[i].size), last),
         NEW used, used = bitmap \cup ToSet(Added(Blocks(disk[i].size), last)),
         NEW ptrs, ptrs = Grown(i, Blocks(disk[i].size), last),
         NEW e, Written(e, used, i, Inode(FALSE, size, ptrs), first, last, ptrs)
  PROVE  Sound(e, used)
<1> USE DEF Written
<1>1. i \in Ino(disk) \ DirIno(disk) /\ i \in Lbas \ {0, 1, 2, 3}
  BY DEF IsFileInode
<1> DEFINE d == [l \in Lbas |-> IF l = 1 THEN Bitmap(used) ELSE disk[l]]
<1>2. DOMAIN d = Lbas /\ d[1] = Bitmap(used) /\ \A l \in Lbas \ {1} : d[l] = disk[l]
  BY Sizes DEF Lbas
<1> HIDE DEF d
<1>3. Sound(d, used) /\ PtrsFit(d, used, i, size, ptrs) /\ i \in Ino(d) \ DirIno(d)
  BY <1>1, <1>2, GrownFits DEF Marked
<1>4. CASE \A l \in Lbas \ {1} : e[l] = disk[l]
  <2>1. \A l \in Lbas : e[l] = d[l]
    BY <1>2, <1>4
  <2>2. QED BY <1>3, <2>1, Overwrites
<1>5. CASE /\ e[i] = Inode(FALSE, size, ptrs)
           /\ \A l \in Lbas \ {1, i} : \/ e[l] = disk[l]
                                       \/ e[l].kind = "data" /\ \E b \in first..last : l = ptrs[b]
  <2> DEFINE g == [l \in Lbas |-> IF l = i THEN Inode(FALSE, size, ptrs) ELSE d[l]]
  <2>1. /\ DOMAIN g = Lbas /\ g[i] = Inode(FALSE, size, ptrs)
        /\ \A l \in Lbas \ {i} : g[l] = d[l]
    BY <1>1
  <2> HIDE DEF g
  <2>2. Sound(g, used)
    <3>1. Resized(d, g, i, size, ptrs)
      BY <2>1 DEF Resized
    <3>2. QED BY <1>3, <3>1, FileChanges
  <2>3. \A b \in first..last : ptrs[b] \in used /\ disk[ptrs[b]].kind \in {"data", "stale"}
    <3>1. Writable(i, first, last, used, ptrs)
      BY WrittenBlocks
    <3>2. QED BY <3>1 DEF Writable
  <2>4. ASSUME NEW l \in Lbas
        PROVE  e[l] = g[l] \/ /\ l \in used /\ e[l].kind = "data"
                              /\ g[l].kind \in {"data", "stale"}
    <3>1. CASE l = i
      BY <1>5, <2>1, <3>1
    <3>2. CASE l = 1
      BY <1>1, <1>2, <2>1, <3>2
    <3>3. CASE l \notin {1, i}
      <4>1. g[l] = disk[l]
        BY <1>2, <2>1, <3>3
      <4>2. CASE e[l] = disk[l]
        BY <4>1, <4>2
      <4>3. CASE e[l].kind = "data" /\ \E b \in first..last : l = ptrs[b]
        <5>1. l \in used /\ disk[l].kind \in {"data", "stale"}
          BY <2>3, <4>3
        <5>2. QED BY <4>1, <4>3, <5>1
      <4>4. QED BY <1>5, <3>3, <4>2, <4>3
    <3>4. QED BY <3>1, <3>2, <3>3
  <2>5. QED BY <2>2, <2>4, Overwrites
<1>6. QED BY <1>4, <1>5

\* The writes ws of a call: the bitmap, if s is 1, the inode and the data.
WritesOf(ws, s, used, i, x, first, last, ptrs) ==
  /\ s \in {0, 1} /\ Len(ws) \in Nat /\ Len(ws) >= s + 1
  /\ s = 0 => used = bitmap
  /\ s = 1 => ws[1] = To(1, Bitmap(used))
  /\ ws[s + 1] = To(i, x)
  /\ \A j \in (s + 2)..Len(ws) :
       ws[j].block.kind = "data" /\ \E b \in first..last : ws[j].lba = ptrs[b]

\* What is on the disk after at least one of them.
LEMMA WritesInOrder ==
  ASSUME 1 \in Lbas, disk[1] = Bitmap(bitmap), NEW i \in Lbas \ {1}, NEW ws, NEW s, NEW used, NEW x,
         NEW first, NEW last, NEW ptrs, WritesOf(ws, s, used, i, x, first, last, ptrs),
         \A b \in first..last : ptrs[b] \notin {1, i},
         NEW k \in 1..Len(ws), NEW e, Wrote(ws, k, e)
  PROVE  Written(e, used, i, x, first, last, ptrs)
<1> USE DEF Written
<1>1. /\ s \in {0, 1} /\ Len(ws) \in Nat /\ Len(ws) >= s + 1
      /\ ws[s + 1].lba = i /\ ws[s + 1].block = x
      /\ s = 1 => ws[1].lba = 1 /\ ws[1].block = Bitmap(used)
      /\ s = 0 => used = bitmap
  BY DEF WritesOf, To
<1>2. \A j \in (s + 2)..Len(ws) :
        ws[j].block.kind = "data" /\ \E b \in first..last : ws[j].lba = ptrs[b]
  BY DEF WritesOf
<1>3. \A j \in (s + 2)..Len(ws) : ws[j].lba \notin {1, i}
  BY <1>2
<1>4. \A j \in 1..k : j \in Nat /\ (j \in (s + 2)..Len(ws) \/ j = s + 1 \/ (s = 1 /\ j = 1))
  BY <1>1
<1>5. DOMAIN e = Lbas
  BY DEF Wrote
<1>6. e[1] = Bitmap(used)
  <2>1. CASE s = 0
    <3>1. \A j \in 1..k : ws[j].lba # 1
      BY <1>1, <1>3, <1>4, <2>1
    <3>2. e[1] = disk[1]
      BY <3>1 DEF Wrote
    <3>3. QED BY <1>1, <2>1, <3>2
  <2>2. CASE s = 1
    <3>1. \A j \in 1..k : ws[j].lba = 1 => j = 1
      BY <1>1, <1>3, <1>4, <2>2
    <3>2. 1 \in 1..k
      OBVIOUS
    <3>3. \E j \in 1..k : ws[j].lba = 1 /\ e[1] = ws[j].block
      BY <1>1, <2>2, <3>2 DEF Wrote
    <3>4. QED BY <1>1, <2>2, <3>1, <3>3
  <2>3. QED BY <1>1, <2>1, <2>2
<1>7. CASE k < s + 1
  <2>1. s = 1 /\ k = 1
    BY <1>1, <1>7
  <2>2. \A j \in 1..k : ws[j].lba = 1
    BY <1>1, <2>1
  <2>3. \A l \in Lbas \ {1} : e[l] = disk[l]
    BY <2>2 DEF Wrote
  <2>4. QED BY <1>5, <1>6, <2>3
<1>8. CASE k >= s + 1
  <2>1. \A j \in 1..k : ws[j].lba = i => j = s + 1
    BY <1>1, <1>3, <1>4
  <2>2. s + 1 \in 1..k
    BY <1>1, <1>8
  <2>3. \E j \in 1..k : ws[j].lba = i /\ e[i] = ws[j].block
    BY <1>1, <2>2 DEF Wrote
  <2>4. e[i] = x
    BY <1>1, <2>1, <2>3
  <2>5. ASSUME NEW l \in Lbas \ {1, i}
        PROVE  \/ e[l] = disk[l]
               \/ e[l].kind = "data" /\ \E b \in first..last : l = ptrs[b]
    <3>1. SUFFICES ASSUME NEW j \in 1..k, ws[j].lba = l, e[l] = ws[j].block
                   PROVE  e[l].kind = "data" /\ \E b \in first..last : l = ptrs[b]
      BY DEF Wrote
    <3>2. j \in (s + 2)..Len(ws)
      BY <1>1, <1>4, <3>1
    <3>3. QED BY <1>2, <3>1, <3>2
  <2>6. QED BY <1>5, <1>6, <2>4, <2>5
<1>9. k < s + 1 \/ k >= s + 1
  BY <1>1
<1>10. QED BY <1>7, <1>8, <1>9

\* Two sequences one after the other.
Joins(S, w, u, v, m, n) ==
  /\ w \in Seq(S) /\ Len(w) = m + n
  /\ \A k \in 1..m : w[k] = u[k]
  /\ \A k \in 1..n : w[m + k] = v[k]

\* What \o makes of them.
LEMMA TwoParts ==
  ASSUME NEW S, NEW u \in Seq(S), NEW v \in Seq(S), NEW m \in Nat, Len(u) = m, NEW n \in Nat, Len(v) = n
  PROVE  Joins(S, u \o v, u, v, m, n)
<1>1. /\ u \o v \in Seq(S) /\ Len(u \o v) = m + n
      /\ \A k \in 1..(m + n) : (u \o v)[k] = IF k <= m THEN u[k] ELSE v[k - m]
  BY ConcatProperties
<1>2. ASSUME NEW k \in 1..m PROVE (u \o v)[k] = u[k]
  <2>1. k \in 1..(m + n) /\ k <= m
    OBVIOUS
  <2>2. QED BY <1>1, <2>1
<1>3. ASSUME NEW k \in 1..n PROVE (u \o v)[m + k] = v[k]
  <2>1. m + k \in 1..(m + n) /\ ~(m + k <= m) /\ (m + k) - m = k
    OBVIOUS
  <2>2. QED BY <1>1, <2>1
<1>4. QED BY <1>1, <1>2, <1>3 DEF Joins

\* What is known of a list that is s of <<a>>, then <<b>>, then the m elements
\* of D, where s is 1 or 0 as c says.
ListIs(ws, c, s, a, b, m, D) ==
  /\ Len(ws) = s + 1 + m /\ ws[s + 1] = b /\ (c => ws[1] = a)
  /\ \A j \in (s + 2)..Len(ws) : \E k \in 1..m : ws[j] = D[k]

\* The list of the writes of fs_write, with the bitmap or without.
LEMMA ConcatIs ==
  ASSUME NEW c \in BOOLEAN, NEW a, NEW b, NEW m \in Nat, NEW D, DOMAIN D = 1..m,
         D = [k \in 1..m |-> D[k]], NEW r, r = (IF c THEN 1 ELSE 0),
         NEW list, list = (IF c THEN <<a>> ELSE <<>>) \o <<b>> \o D
  PROVE  ListIs(list, c, r, a, b, m, D)
<1> DEFINE S == {a, b} \cup {D[k] : k \in 1..m}
           u == IF c THEN <<a>> ELSE <<>>
           s == IF c THEN 1 ELSE 0
           v == u \o <<b>>
           ws == v \o D
<1>1. D \in Seq(S) /\ Len(D) = m
  <2>1. D \in [1..m -> S]
    OBVIOUS
  <2>2. D \in Seq(S)
    BY <2>1, SeqDef
  <2>3. QED BY <2>2, LenProperties
<1>2. u \in Seq(S) /\ Len(u) = s /\ s \in Nat /\ (c => s = 1 /\ u[1] = a)
  <2>1. CASE c
    <3>1. u = <<a>> /\ s = 1 /\ a \in S
      BY <2>1
    <3> HIDE DEF u, s, S
    <3>2. QED BY <3>1
  <2>2. CASE ~c
    <3>1. u = <<>> /\ s = 0
      BY <2>2
    <3> HIDE DEF u, s, S
    <3>2. QED BY <2>2, <3>1
  <2>3. QED BY <2>1, <2>2
<1>3. <<b>> \in Seq(S) /\ Len(<<b>>) = 1 /\ <<b>>[1] = b
  OBVIOUS
<1> HIDE DEF u, s, S
<1>4. /\ v \in Seq(S) /\ Len(v) = s + 1 /\ s + 1 \in Nat
      /\ \A k \in 1..s : v[k] = u[k]
      /\ \A k \in 1..1 : v[s + k] = <<b>>[k]
  <2>1. 1 \in Nat /\ s + 1 \in Nat
    BY <1>2
  <2>2. Joins(S, v, u, <<b>>, s, 1)
    BY <1>2, <1>3, <2>1, TwoParts
  <2> HIDE DEF v
  <2>3. QED BY <2>1, <2>2 DEF Joins
<1>5. v[s + 1] = b /\ (c => v[1] = a)
  <2>1. 1 \in 1..1 /\ (c => 1 \in 1..s)
    BY <1>2
  <2> HIDE DEF v
  <2>2. QED BY <1>2, <1>3, <1>4, <2>1
<1> HIDE DEF v
<1>6. /\ Len(ws) = (s + 1) + m
      /\ \A k \in 1..(s + 1) : ws[k] = v[k]
      /\ \A k \in 1..m : ws[(s + 1) + k] = D[k]
  <2> DEFINE l == s + 1
  <2>1. l \in Nat /\ Len(v) = l
    BY <1>4
  <2> HIDE DEF l
  <2>2. Joins(S, ws, v, D, l, m)
    BY <1>1, <1>4, <2>1, TwoParts
  <2> HIDE DEF ws
  <2>3. QED BY <2>2 DEF Joins, l
<1> HIDE DEF ws
<1>7. ws[s + 1] = b /\ (c => ws[1] = a)
  <2>1. s + 1 \in 1..(s + 1) /\ 1 \in 1..(s + 1)
    BY <1>2
  <2>2. QED BY <1>5, <1>6, <2>1
<1>8. ASSUME NEW j \in (s + 2)..Len(ws) PROVE \E k \in 1..m : ws[j] = D[k]
  <2> DEFINE l == Len(ws)
  <2>1. l = (s + 1) + m /\ s \in Nat /\ j \in (s + 2)..l
    BY <1>2, <1>6
  <2> HIDE DEF l
  <2>2. j - (s + 1) \in 1..m /\ (s + 1) + (j - (s + 1)) = j
    BY <2>1
  <2>3. QED BY <1>6, <2>2
<1>9. ListIs(ws, c, s, a, b, m, D)
  BY <1>6, <1>7, <1>8 DEF ListIs
<1>10. list = ws /\ r = s
  BY DEF s, ws, v, u
<1>11. QED BY <1>9, <1>10

\* The data of a write has a length.
LEMMA BufIs == ASSUME NEW buf \in Bufs PROVE Len(buf) \in Nat \ {0}
<1>1. MaxLen \in Nat
  BY FileSystemAssumption
<1>2. PICK n \in 1..MaxLen : buf \in [1..n -> Data]
  BY DEF Bufs
<1>3. n \in Nat \ {0} /\ buf \in Seq(Data) /\ DOMAIN buf = 1..n
  BY <1>1, <1>2, SeqDef
<1>4. Len(buf) \in Nat /\ DOMAIN buf = 1..Len(buf)
  BY <1>3, LenProperties
<1>5. QED BY <1>3, <1>4

\* fs_write marks the new blocks before anything leads to them, and writes data
\* only to blocks of the file.
LEMMA WriteSound ==
  ASSUME IInv, NEW p \in Paths, NEW off \in Nat, NEW buf \in Bufs, off + Len(buf) <= MaxSize,
         fs_write(p, off, buf)
  PROVE  IInv'
<1>1. \A st : Refused("write", p, <<off, buf>>, st) => IInv'
  BY ReturnsSound DEF Refused
<1> DEFINE i == translate(p)
           n == Blocks(disk[i].size)
           first == off \div BLK
           last == (off + Len(buf) - 1) \div BLK
           need == last - n + 1
           new == FirstFree(Max({need, 0}))
           used == bitmap \cup ToSet(new)
           ptrs == [k \in 0..(NPtrs - 1) |-> IF k \in n..last THEN new[k - n + 1]
                                             ELSE disk[i].ptrs[k]]
           block(b) == DataBlock([u \in 0..(BLK - 1) |->
                         IF b * BLK + u \in off..(off + Len(buf) - 1)
                         THEN buf[b * BLK + u - off + 1] ELSE Base(i, ptrs, first, last, b, u)])
           size == Max({disk[i].size, off + Len(buf)})
           x == Inode(FALSE, size, ptrs)
           D == [k \in 1..(last - first + 1) |-> To(ptrs[first + k - 1], block(first + k - 1))]
           ws == (IF need > 0 THEN <<To(1, Bitmap(used))>> ELSE <<>>) \o <<To(i, x)>> \o D
<1>2. CASE /\ FileError(p) = OK /\ need <= Cardinality(FreeBlocks)
           /\ Performs("write", p, <<off, buf>>, Len(buf), ws, used, -need)
  <2>1. IsFileInode(i) /\ Sound(disk, bitmap) /\ bfree \in Int
    BY <1>2, FileIs DEF IInv
  <2>2. /\ i \in Ino(disk) \ DirIno(disk) /\ i \in Lbas \ {1} /\ 1 \in Lbas
        /\ disk[i].size \in Nat /\ n \in 0..(NPtrs - 1)
        /\ disk[i].ptrs \in [0..(NPtrs - 1) -> Int]
    <3> HIDE DEF i
    <3>1. 1 \in Lbas
      BY Sizes DEF Lbas
    <3>2. QED BY <2>1, <3>1 DEF IsFileInode
  <2> HIDE DEF i
  <2>3. /\ last \in 0..(NPtrs - 2) /\ first \in 0..last
        /\ size \in Nat /\ Blocks(size) \in 0..(NPtrs - 1)
        /\ Covers(Blocks(size), n, last)
    BY <2>2, BufIs, WriteSizes DEF Covers
  <2>4. NPtrs \in Nat /\ need <= Cardinality(FreeBlocks)
    BY <1>2, Sizes
  <2> HIDE DEF first, last, size
  <2>5. /\ last \in Int /\ last <= NPtrs - 2 /\ first \in Nat /\ need \in Int
        /\ last - n + 1 <= Cardinality(FreeBlocks)
    <3> HIDE DEF n
    <3>1. QED BY <2>2, <2>3, <2>4
  <2>6. ptrs = Grown(i, n, last) /\ used = bitmap \cup ToSet(Added(n, last))
    BY DEF Grown, Added
  <2>7. \A k \in DOMAIN D : D[k].lba = ptrs[first + k - 1] /\ D[k].block.kind = "data"
    BY DEF To, DataBlock
  <2> DEFINE m == last - first + 1
  <2>8. m \in Nat /\ DOMAIN D = 1..m /\ D = [k \in 1..m |-> D[k]]
    BY <2>3, <2>5
  <2> DEFINE s == IF need > 0 THEN 1 ELSE 0
  <2>9. /\ Len(ws) = s + 1 + m /\ ws[s + 1] = To(i, x)
        /\ need > 0 => ws[1] = To(1, Bitmap(used))
        /\ \A j \in (s + 2)..Len(ws) : \E k \in 1..m : ws[j] = D[k]
    <3> HIDE DEF D, x, m, used
    <3>1. ListIs(ws, need > 0, s, To(1, Bitmap(used)), To(i, x), m, D)
      <4> DEFINE c == need > 0
      <4>1. c \in BOOLEAN
        OBVIOUS
      <4>2. /\ s = IF c THEN 1 ELSE 0
            /\ ws = (IF c THEN <<To(1, Bitmap(used))>> ELSE <<>>) \o <<To(i, x)>> \o D
        OBVIOUS
      <4> HIDE DEF ws, s, c, need
      <4>3. ListIs(ws, c, s, To(1, Bitmap(used)), To(i, x), m, D)
        BY <2>8, <4>1, <4>2, ConcatIs
      <4>4. QED BY <4>3 DEF c
    <3> HIDE DEF ws, s, need
    <3>2. QED BY <3>1 DEF ListIs
  <2> HIDE DEF ws, D, used, ptrs, new, block
  <2>10. GrownOK(i, n, last)
    <3> HIDE DEF n, need, s, x, m
    <3>1. n \in Nat /\ disk[i].ptrs \in [0..(NPtrs - 1) -> Int]
      BY <2>2
    <3>2. /\ last \in Int /\ last <= NPtrs - 2
          /\ last - n + 1 <= Cardinality(FreeBlocks)
      BY <2>5
    <3>3. QED BY <3>1, <3>2, GrownIs
  <2>11. need <= 0 => used = bitmap
    <3> HIDE DEF n
    <3>1. need <= 0 => last < n
      BY <2>2, <2>5
    <3>2. QED BY <2>6, <2>10, <3>1 DEF GrownOK
  <2>12. Writable(i, first, last, used, ptrs)
    BY <2>1, <2>5, <2>6, WrittenBlocks
  <2>13. /\ s \in {0, 1} /\ (s = 1 <=> need > 0) /\ (s = 0 <=> need <= 0)
    <3> HIDE DEF need
    <3>1. QED BY <2>5
  <2> HIDE DEF s, need
  <2>14. \A k \in 1..m : first + k - 1 \in first..last
    BY <2>5
  <2> HIDE DEF m
  <2>15. Len(ws) \in Nat /\ Len(ws) >= s + 1
    BY <2>8, <2>9, <2>13
  <2>16. WritesOf(ws, s, used, i, x, first, last, ptrs)
    <3>1. ASSUME NEW j \in (s + 2)..Len(ws)
          PROVE  ws[j].block.kind = "data" /\ \E b \in first..last : ws[j].lba = ptrs[b]
      BY <2>7, <2>8, <2>9, <2>14
    <3>2. QED BY <2>9, <2>11, <2>13, <2>15, <3>1 DEF WritesOf
  <2>17. \A k \in 1..Len(ws) : \A e :
           Wrote(ws, k, e) => Sound(e, used) /\ e[1] = Bitmap(used)
    <3> TAKE k \in 1..Len(ws)
    <3> TAKE e
    <3> SUFFICES ASSUME Wrote(ws, k, e) PROVE Sound(e, used) /\ e[1] = Bitmap(used)
      OBVIOUS
    <3>1. Written(e, used, i, x, first, last, ptrs)
      <4>1. disk[1] = Bitmap(bitmap)
        BY <2>1 DEF Sound, BitmapOK
      <4>2. \A b \in first..last : ptrs[b] \notin {1, i}
        BY <2>12 DEF Writable
      <4>3. QED BY <2>2, <2>16, <4>1, <4>2, WritesInOrder
    <3>2. e[1] = Bitmap(used)
      BY <3>1 DEF Written
    <3>3. Sound(e, used)
      BY <2>1, <2>3, <2>5, <2>6, <3>1, WriteIsSound
    <3>4. QED BY <3>2, <3>3
  <2>18. \A k \in 1..(Len(ws) - 1) : SoundAfter(ws, k)
    <3> TAKE k \in 1..(Len(ws) - 1)
    <3>1. k \in 1..Len(ws)
      BY <2>15
    <3>2. QED BY <2>17, <3>1 DEF SoundAfter, Bitmap
  <2>19. ASSUME NEW e, NEW f, Wrote(ws, Len(ws), e), DOMAIN f = Lbas,
                \A l \in Lbas : f[l] = IF l \in bitmap \ used THEN Stale ELSE e[l]
         PROVE  Sound(f, used)
    <3>1. bitmap \subseteq used
      BY <2>6
    <3>2. \A l \in Lbas : f[l] = e[l]
      BY <2>19, <3>1
    <3>3. Wrote(ws, Len(ws), f)
      BY <2>19, <3>2 DEF Wrote
    <3>4. Len(ws) \in 1..Len(ws)
      BY <2>13, <2>15
    <3>5. QED BY <2>17, <3>3, <3>4
  <2>20. -need \in Int
    BY <2>5
  <2>21. QED BY <1>2, <2>1, <2>15, <2>18, <2>19, <2>20, PerformsSound
<1>3. QED BY <1>1, <1>2 DEF fs_write

\* The inodes of a disk, and what they own, are those of another.
LEMMA SameInodes ==
  ASSUME NEW d, NEW e, Ino(e) = Ino(d), \A i \in Ino(d) : e[i] = d[i]
  PROVE  DirIno(e) = DirIno(d) /\ \A l : Unowned(d, l) => Unowned(e, l)
<1>1. DirIno(e) = DirIno(d) /\ \A i \in Ino(d) : Used(e, i) = Used(d, i)
  BY DEF DirIno, Used
<1>2. QED BY <1>1 DEF Unowned

\* The new blocks are marked, and one of them becomes an empty directory block.
LEMMA NewBlocks ==
  ASSUME Sound(disk, bitmap), NEW n \in Lbas \ bitmap, NEW dir \in BOOLEAN, NEW b,
         dir => b \in Lbas \ bitmap /\ b # n,
         NEW used \in SUBSET Lbas, bitmap \subseteq used, n \in used, dir => b \in used,
         NEW e, DOMAIN e = Lbas, e[1] = Bitmap(used), dir => e[b] = Directory(NoEntries),
         \A l \in Lbas \ {1} : (dir /\ l = b) \/ e[l] = disk[l]
  PROVE  /\ Sound(e, used) /\ Ino(e) = Ino(disk) /\ DirIno(e) = DirIno(disk)
         /\ \A i \in Ino(disk) : e[i] = disk[i]
         /\ \A i \in DirIno(disk) : EntriesOn(e, i) = EntriesOn(disk, i)
         /\ e[n] = Stale /\ Unowned(e, n) /\ (dir => Unowned(e, b))
<1> DEFINE d == [l \in Lbas |-> IF l = 1 THEN Bitmap(used) ELSE disk[l]]
<1>1. DOMAIN d = Lbas /\ d[1] = Bitmap(used) /\ \A l \in Lbas \ {1} : d[l] = disk[l]
  BY Sizes DEF Lbas
<1> HIDE DEF d
<1>2. Sound(d, used)
  BY <1>1, Marks
<1>3. /\ 1 \in bitmap /\ 1 \notin Ino(disk) /\ d[1].kind # "inode" /\ disk[1].kind = "bitmap"
      /\ \A l \in Lbas \ bitmap : disk[l] = Stale /\ disk[l].kind = "stale"
      /\ \A i \in Ino(disk) : \A k \in Used(disk, i) :
           disk[i].ptrs[k] \in bitmap /\ disk[i].ptrs[k] # 1 /\ disk[i].ptrs[k] \in Lbas
      /\ \A i \in DirIno(disk) : i \in Ino(disk) /\ 0 \in Used(disk, i)
  <2>1. Facts(disk, bitmap)
    BY SoundFacts
  <2>2. /\ 1 \in bitmap /\ 1 \notin Ino(disk) /\ d[1].kind # "inode" /\ disk[1].kind = "bitmap"
        /\ \A l \in Lbas \ bitmap : disk[l] = Stale /\ disk[l].kind = "stale"
    BY <1>1, <2>1 DEF Facts, MarkFacts, InoFacts, Bitmap
  <2>3. QED BY <2>1, <2>2 DEF Facts, PtrFacts, DirFacts
<1>4. Ino(d) = Ino(disk) /\ \A i \in Ino(disk) : d[i] = disk[i]
  BY <1>1, <1>3 DEF Ino
<1>5. DirIno(d) = DirIno(disk) /\ \A l : Unowned(disk, l) => Unowned(d, l)
  BY <1>4, SameInodes
<1>6. \A l \in Lbas \ bitmap : d[l] = Stale /\ Unowned(d, l)
  <2> TAKE l \in Lbas \ bitmap
  <2>1. Unowned(disk, l)
    BY <1>3 DEF Unowned
  <2>2. QED BY <1>1, <1>3, <1>5, <2>1
<1>7. Sound(e, used) /\ Ino(e) = Ino(d) /\ \A i \in Ino(d) : e[i] = d[i]
  <2>1. CASE dir
    <3>1. b \in Lbas /\ b # 1 /\ e[b] = Directory(NoEntries) /\ \A l \in Lbas \ {b} : e[l] = d[l]
      BY <1>1, <1>3, <2>1
    <3>2. QED BY <1>2, <1>6, <2>1, <3>1, NewDirectoryBlock
  <2>2. CASE ~dir
    <3>1. \A l \in Lbas : e[l] = d[l]
      BY <1>1, <2>2
    <3>2. Ino(e) = Ino(d) /\ \A i \in Ino(d) : e[i] = d[i]
      BY <3>1 DEF Ino
    <3>3. QED BY <1>2, <3>1, <3>2, Overwrites
  <2>3. QED BY <2>1, <2>2
<1>8. DirIno(e) = DirIno(d) /\ \A l : Unowned(d, l) => Unowned(e, l)
  BY <1>7, SameInodes
<1>9. ASSUME NEW i \in DirIno(disk) PROVE EntriesOn(e, i) = EntriesOn(disk, i)
  <2>1. /\ disk[i].ptrs[0] \in Lbas \ {1} /\ disk[i].ptrs[0] \in bitmap
        /\ e[i] = disk[i]
    BY <1>3, <1>4, <1>7
  <2>2. e[disk[i].ptrs[0]] = disk[disk[i].ptrs[0]]
    BY <2>1
  <2>3. QED BY <2>1, <2>2, Zenon DEF EntriesOn
<1>10. e[n] = Stale
  BY <1>3
<1>11. QED BY <1>4, <1>5, <1>6, <1>7, <1>8, <1>9, <1>10

\* A new inode with an entry that leads to it.
LEMMA CreatedSound ==
  ASSUME Sound(disk, bitmap), NEW p \in DirIno(disk), NEW s \in SlotSet, EntriesOn(disk, p)[s] = Free,
         NEW name \in Names, \A t : Valid(disk, p, t) => EntriesOn(disk, p)[t].name # name,
         NEW n \in Lbas \ bitmap, NEW dir \in BOOLEAN, NEW b,
         dir => b \in Lbas \ bitmap /\ b # n,
         NEW used \in SUBSET Lbas, bitmap \subseteq used, n \in used, dir => b \in used,
         NEW e, DOMAIN e = Lbas, e[1] = Bitmap(used), dir => e[b] = Directory(NoEntries),
         e[n] = Inode(dir, IF dir THEN BLK ELSE 0, IF dir THEN [NoPtrs EXCEPT ![0] = b] ELSE NoPtrs),
         e[disk[p].ptrs[0]] =
           Directory([EntriesOn(disk, p) EXCEPT ![s] = [name |-> name, inode |-> n]]),
         \A l \in Lbas \ {1, n, disk[p].ptrs[0]} : (dir /\ l = b) \/ e[l] = disk[l]
  PROVE  Sound(e, used)
<1> DEFINE a == disk[p].ptrs[0]
           g == [l \in Lbas |-> IF l = n \/ l = a THEN disk[l] ELSE e[l]]
           h == [l \in Lbas |-> IF l = a THEN disk[l] ELSE e[l]]
<1>1. /\ a \in bitmap /\ a \in Lbas /\ a # 1 /\ 1 \in bitmap /\ EntriesOK(disk) /\ p \in Ino(disk)
      /\ 2 \in Ino(disk) /\ a # n /\ n \in Nat /\ Ino(disk) \subseteq bitmap
  <2>1. Facts(disk, bitmap) /\ EntriesOK(disk)
    BY SoundFacts DEF Sound
  <2>2. p \in Ino(disk) /\ 0 \in Used(disk, p) /\ 2 \in Ino(disk)
    BY <2>1 DEF Facts, DirFacts
  <2>3. a \in bitmap /\ a \in Lbas /\ a # 1
    BY <2>1, <2>2 DEF Facts, PtrFacts
  <2>4. n \in Nat
    BY Sizes DEF Lbas
  <2>5. QED BY <2>1, <2>2, <2>3, <2>4 DEF Facts, MarkFacts
<1>2. /\ DOMAIN g = Lbas /\ g[1] = Bitmap(used) /\ (dir => g[b] = Directory(NoEntries))
      /\ \A l \in Lbas \ {1} : (dir /\ l = b) \/ g[l] = disk[l]
  BY <1>1
<1>3. /\ DOMAIN h = Lbas /\ h[n] = e[n] /\ \A l \in Lbas \ {n} : h[l] = g[l]
      /\ \A l \in Lbas \ {a} : e[l] = h[l]
  BY <1>1
<1> HIDE DEF g, h
<1>4. /\ Sound(g, used) /\ Ino(g) = Ino(disk) /\ DirIno(g) = DirIno(disk)
      /\ \A i \in Ino(disk) : g[i] = disk[i]
      /\ \A i \in DirIno(disk) : EntriesOn(g, i) = EntriesOn(disk, i)
      /\ g[n] = Stale /\ Unowned(g, n) /\ (dir => Unowned(g, b))
  BY <1>2, NewBlocks
<1>5. /\ Sound(h, used) /\ Ino(h) = Ino(g) \cup {n} /\ n \notin Ino(g)
      /\ DirIno(h) \ {n} = DirIno(g) /\ \A j \in Ino(g) : h[j] = g[j]
      /\ \A j \in DirIno(g) : EntriesOn(h, j) = EntriesOn(g, j)
      /\ \A j, t : Valid(h, j, t) => j \in DirIno(g)
  <2>1. dir => b \in used /\ Unowned(g, b) /\ g[b] = Directory(NoEntries)
    BY <1>2, <1>4
  <2>2. h[n] = Inode(dir, IF dir THEN BLK ELSE 0, IF dir THEN [NoPtrs EXCEPT ![0] = b] ELSE NoPtrs)
    BY <1>3
  <2>3. QED BY <1>3, <1>4, <2>1, <2>2, NewInode
<1> DEFINE x == [name |-> name, inode |-> n]
<1>6. x \in Entry /\ x.inode = n /\ x.name = name /\ n \in Ino(h) \ {2}
  BY <1>1, <1>4, <1>5 DEF Entry
<1>7. \A j, t : Valid(h, j, t) => Valid(disk, j, t) /\ EntriesOn(h, j)[t] = EntriesOn(disk, j)[t]
  BY <1>4, <1>5 DEF Valid
<1>8. \A j, t : Valid(h, j, t) => EntriesOn(h, j)[t].inode # n
  BY <1>1, <1>4, <1>5, <1>7 DEF EntriesOK
<1>9. \A t : Valid(h, p, t) => EntriesOn(h, p)[t].name # name
  BY <1>7
<1>10. p \in DirIno(h) /\ h[p].ptrs[0] = a /\ EntriesOn(h, p) = EntriesOn(disk, p)
  BY <1>1, <1>4, <1>5
<1> HIDE DEF x
<1>11. e[h[p].ptrs[0]] = Directory([EntriesOn(h, p) EXCEPT ![s] = x])
  BY <1>10 DEF x
<1>12. SlotFits(h, p, s, x)
  BY <1>6, <1>8, <1>9 DEF SlotFits
<1>13. \A l \in Lbas \ {h[p].ptrs[0]} : e[l] = h[l]
  BY <1>3, <1>10
<1>14. QED BY <1>5, <1>10, <1>11, <1>12, <1>13, SlotChanges

\* What the checks of create_directory_entry leave.
LEMMA CreateChecked ==
  ASSUME IInv, NEW p \in Paths \ {<<>>}, NEW need \in Nat, CreateError(p, need) = OK
  PROVE  LET d == translate(Front(p))
             s == Min(FreeSlots(d))
         IN  /\ d \in DirIno(disk) /\ s \in SlotSet /\ EntriesOn(disk, d)[s] = Free
             /\ Entries(d) = EntriesOn(disk, d) /\ Last(p) \in Names
             /\ \A t : Valid(disk, d, t) => EntriesOn(disk, d)[t].name # Last(p)
             /\ need <= Cardinality(FreeBlocks)
<1> DEFINE d == translate(Front(p))
<1>1. Front(p) \in Paths /\ Last(p) \in Names
  BY FrontIs
<1>2. Sound(disk, bitmap) /\ d \in Int /\ (d >= 0 => d \in Ino(disk))
  BY <1>1, PathInodes DEF IInv, PathsOK
<1>3. /\ d >= 0 /\ disk[d].dir /\ SlotsOf(d, Last(p)) = {} /\ FreeSlots(d) # {}
      /\ ~(Cardinality(FreeBlocks) < need)
  BY <1>2 DEF CreateError, OK, ENOTDIR, EEXIST, ENOSPC
<1>4. Cardinality(FreeBlocks) \in Nat
  BY FiniteBlocks DEF FreeBlocks
<1> HIDE DEF d
<1>5. d \in DirIno(disk)
  BY <1>2, <1>3 DEF DirIno
<1>6. /\ Min(FreeSlots(d)) \in SlotSet /\ EntriesOn(disk, d)[Min(FreeSlots(d))] = Free
      /\ Entries(d) = EntriesOn(disk, d)
      /\ \A t : Valid(disk, d, t) => EntriesOn(disk, d)[t].name # Last(p)
  BY <1>2, <1>3, <1>5, SlotsAre
<1>7. need <= Cardinality(FreeBlocks)
  BY <1>3, <1>4
<1>8. QED BY <1>1, <1>5, <1>6, <1>7 DEF d

\* The writes of a new entry, one by one.
LEMMA EntryWrites ==
  ASSUME NEW dir \in BOOLEAN, NEW p, NEW q, NEW r, NEW t,
         NEW ws, ws = <<p, q>> \o (IF dir THEN <<r>> ELSE <<>>) \o <<t>>
  PROVE  /\ ws[1] = p /\ ws[2] = q
         /\ dir => Len(ws) = 4 /\ ws[3] = r /\ ws[4] = t
         /\ ~dir => Len(ws) = 3 /\ ws[3] = t
<1> DEFINE S == {p, q, r, t}
           u == <<p, q>>
           v == IF dir THEN <<r>> ELSE <<>>
           m == IF dir THEN 1 ELSE 0
           w == <<t>>
<1>1. u \in Seq(S) /\ Len(u) = 2 /\ u[1] = p /\ u[2] = q
  OBVIOUS
<1>2. v \in Seq(S) /\ Len(v) = m /\ m \in Nat /\ (dir => m = 1 /\ v[1] = r) /\ (~dir => m = 0)
  <2>1. CASE dir
    <3>1. v = <<r>> /\ m = 1 /\ r \in S
      BY <2>1
    <3> HIDE DEF v, m, S
    <3>2. QED BY <2>1, <3>1
  <2>2. CASE ~dir
    <3>1. v = <<>> /\ m = 0
      BY <2>2
    <3> HIDE DEF v, m, S
    <3>2. QED BY <2>2, <3>1
  <2>3. QED BY <2>1, <2>2
<1>3. w \in Seq(S) /\ Len(w) = 1 /\ w[1] = t
  OBVIOUS
<1>4. ws = (u \o v) \o w
  OBVIOUS
<1> HIDE DEF S, u, v, m, w
<1>5. /\ u \o v \in Seq(S) /\ Len(u \o v) = 2 + m
      /\ \A k \in 1..2 : (u \o v)[k] = u[k]
      /\ \A k \in 1..m : (u \o v)[2 + k] = v[k]
  <2>1. 2 \in Nat
    OBVIOUS
  <2>2. Joins(S, u \o v, u, v, 2, m)
    BY <1>1, <1>2, <2>1, TwoParts
  <2>3. QED BY <2>2 DEF Joins
<1>6. /\ Len(ws) = 2 + m + 1
      /\ \A k \in 1..(2 + m) : ws[k] = (u \o v)[k]
      /\ \A k \in 1..1 : ws[2 + m + k] = w[k]
  <2>1. 2 + m \in Nat /\ 1 \in Nat
    BY <1>2
  <2> DEFINE l == 2 + m
  <2> HIDE DEF l
  <2>2. l \in Nat /\ Len(u \o v) = l
    BY <1>5, <2>1 DEF l
  <2>3. /\ Len((u \o v) \o w) = l + 1
        /\ \A k \in 1..l : ((u \o v) \o w)[k] = (u \o v)[k]
        /\ \A k \in 1..1 : ((u \o v) \o w)[l + k] = w[k]
    <3>1. Joins(S, (u \o v) \o w, u \o v, w, l, 1)
      BY <1>3, <1>5, <2>1, <2>2, TwoParts
    <3>2. QED BY <3>1 DEF Joins
  <2>4. QED BY <1>4, <2>3 DEF l
<1>7. ws[1] = p /\ ws[2] = q
  <2>1. 1 \in 1..2 /\ 2 \in 1..2 /\ 1 \in 1..(2 + m) /\ 2 \in 1..(2 + m)
    BY <1>2
  <2>2. QED BY <1>1, <1>5, <1>6, <2>1
<1>8. ws[2 + m + 1] = t
  <2>1. 1 \in 1..1
    OBVIOUS
  <2>2. QED BY <1>3, <1>6, <2>1
<1>9. ASSUME dir PROVE ws[3] = r
  <2>1. m = 1 /\ 1 \in 1..m /\ 2 + 1 \in 1..(2 + m) /\ 2 + 1 = 3
    BY <1>2, <1>9
  <2>2. ws[2 + 1] = (u \o v)[2 + 1] /\ (u \o v)[2 + 1] = v[1]
    BY <1>5, <1>6, <2>1
  <2>3. QED BY <1>2, <1>9, <2>1, <2>2
<1>10. (dir => 2 + m + 1 = 4) /\ (~dir => 2 + m + 1 = 3)
  BY <1>2
<1>11. QED BY <1>6, <1>7, <1>8, <1>9, <1>10

\* What they leave on the disk.
EntryWritten(e, dir, n, x, a, y, b, used) ==
  /\ DOMAIN e = Lbas /\ e[n] = x /\ e[a] = y /\ e[1] = Bitmap(used)
  /\ dir => e[b] = Directory(NoEntries)
  /\ \A l \in Lbas \ {1, n, a} : (dir /\ l = b) \/ e[l] = disk[l]

\* The writes of create_directory_entry, in its order.
EntryList(ws, dir, n, x, a, y, b, used) ==
  /\ ws[1] = To(n, x) /\ ws[2] = To(a, y)
  /\ dir => Len(ws) = 4 /\ ws[3] = To(b, Directory(NoEntries)) /\ ws[4] = To(1, Bitmap(used))
  /\ ~dir => Len(ws) = 3 /\ ws[3] = To(1, Bitmap(used))

\* No two of these writes go to the same block, so each is on the disk at the end.
LEMMA WroteEntry ==
  ASSUME NEW dir \in BOOLEAN, NEW n \in Lbas, NEW x, NEW a \in Lbas \ {n}, NEW y,
         NEW b, dir => b \in Lbas \ {n, a, 1}, NEW used, 1 \in Lbas \ {n, a},
         NEW ws, EntryList(ws, dir, n, x, a, y, b, used),
         NEW e, Wrote(ws, Len(ws), e)
  PROVE  EntryWritten(e, dir, n, x, a, y, b, used)
<1>1. /\ ws[1] = To(n, x) /\ ws[2] = To(a, y)
      /\ dir => Len(ws) = 4 /\ ws[3] = To(b, Directory(NoEntries)) /\ ws[4] = To(1, Bitmap(used))
      /\ ~dir => Len(ws) = 3 /\ ws[3] = To(1, Bitmap(used))
  BY DEF EntryList
<1>2. ws[1].lba = n /\ ws[1].block = x /\ ws[2].lba = a /\ ws[2].block = y
  BY <1>1 DEF To
<1> DEFINE These(J) ==
             \A l \in Lbas : \/ \E j \in J : ws[j].lba = l /\ e[l] = ws[j].block
                             \/ (\A j \in J : ws[j].lba # l) /\ e[l] = disk[l]
<1>3. CASE dir
  <2>1. /\ ws[3].lba = b /\ ws[3].block = Directory(NoEntries)
        /\ ws[4].lba = 1 /\ ws[4].block = Bitmap(used) /\ Len(ws) = 4
    BY <1>1, <1>3 DEF To
  <2>2. 1..Len(ws) = {1, 2, 3, 4}
    BY <2>1
  <2>3. DOMAIN e = Lbas /\ These({1, 2, 3, 4})
    <3>1. DOMAIN e = Lbas /\ These(1..Len(ws))
      BY DEF Wrote
    <3> HIDE DEF These
    <3>2. QED BY <2>2, <3>1
  <2>4. e[n] = x /\ e[a] = y /\ e[1] = Bitmap(used) /\ e[b] = Directory(NoEntries)
    <3>1. e[n] = x
      BY <1>2, <1>3, <2>1, <2>3
    <3>2. e[a] = y
      BY <1>2, <1>3, <2>1, <2>3
    <3>3. e[1] = Bitmap(used)
      BY <1>2, <1>3, <2>1, <2>3
    <3>4. e[b] = Directory(NoEntries)
      BY <1>2, <1>3, <2>1, <2>3
    <3>5. QED BY <3>1, <3>2, <3>3, <3>4
  <2>5. \A l \in Lbas \ {1, n, a} : l = b \/ e[l] = disk[l]
    BY <1>2, <2>1, <2>3
  <2>6. QED BY <1>3, <2>3, <2>4, <2>5 DEF EntryWritten
<1>4. CASE ~dir
  <2>1. ws[3].lba = 1 /\ ws[3].block = Bitmap(used) /\ Len(ws) = 3
    BY <1>1, <1>4 DEF To
  <2>2. 1..Len(ws) = {1, 2, 3}
    BY <2>1
  <2>3. DOMAIN e = Lbas /\ These({1, 2, 3})
    <3>1. DOMAIN e = Lbas /\ These(1..Len(ws))
      BY DEF Wrote
    <3> HIDE DEF These
    <3>2. QED BY <2>2, <3>1
  <2>4. e[n] = x /\ e[a] = y /\ e[1] = Bitmap(used)
    BY <1>2, <2>1, <2>3
  <2>5. \A l \in Lbas \ {1, n, a} : e[l] = disk[l]
    BY <1>2, <2>1, <2>3
  <2>6. QED BY <1>4, <2>3, <2>4, <2>5 DEF EntryWritten
<1>5. QED BY <1>3, <1>4

\* create_directory_entry, when it is not stopped half way.
LEMMA CreateSound ==
  ASSUME IInv, NEW op, op \notin CrashIn, NEW p \in Paths \ {<<>>}, NEW dir \in BOOLEAN,
         create_directory_entry(op, p, dir)
  PROVE  IInv'
<1>1. \A st : Refused(op, p, <<>>, st) => IInv'
  BY ReturnsSound DEF Refused
<1> DEFINE need == IF dir THEN 2 ELSE 1
           d == translate(Front(p))
           new == FirstFree(need)
           s == Min(FreeSlots(d))
           y == Directory([Entries(d) EXCEPT ![s] = [name |-> Last(p), inode |-> new[1]]])
           ptrs == IF dir THEN [NoPtrs EXCEPT ![0] = new[2]] ELSE NoPtrs
           used == bitmap \cup ToSet(new)
           x == Inode(dir, IF dir THEN BLK ELSE 0, ptrs)
           ws == <<To(new[1], x), To(disk[d].ptrs[0], y)>>
                   \o (IF dir THEN <<To(new[2], Directory(NoEntries))>> ELSE <<>>)
                   \o <<To(1, Bitmap(used))>>
<1>2. CASE CreateError(p, need) = OK /\ Performs(op, p, <<>>, OK, ws, used, -need)
  <2>1. /\ need \in Nat /\ (dir => need = 2) /\ (~dir => need = 1) /\ -need \in Int
        /\ Sound(disk, bitmap) /\ bfree \in Int
    BY DEF IInv
  <2>2. CreateError(p, need) = OK
    BY <1>2
  <2>3. /\ d \in DirIno(disk) /\ s \in SlotSet /\ EntriesOn(disk, d)[s] = Free
        /\ Entries(d) = EntriesOn(disk, d) /\ Last(p) \in Names
        /\ \A t : Valid(disk, d, t) => EntriesOn(disk, d)[t].name # Last(p)
        /\ need <= Cardinality(FreeBlocks)
    <3> HIDE DEF need
    <3>1. QED BY <2>1, <2>2, CreateChecked
  <2> HIDE DEF d, s
  <2>4. /\ new \in [1..need -> FreeBlocks] /\ \A j, k \in 1..need : new[j] = new[k] => j = k
        /\ 1 \in 1..need /\ (dir => 2 \in 1..need)
    <3> HIDE DEF need
    <3>1. Cardinality(FreeBlocks) \in Nat
      BY FiniteBlocks DEF FreeBlocks
    <3>2. need \in 0..Cardinality(FreeBlocks) /\ 1 \in 1..need /\ (dir => 2 \in 1..need)
      BY <2>1, <2>3, <3>1
    <3>3. QED BY <3>2, FirstFreeIs
  <2> DEFINE n == new[1]
             b == new[2]
             a == disk[d].ptrs[0]
  <2>5. ToSet(new) = {new[k] : k \in 1..need}
    BY <2>4 DEF ToSet
  <2> HIDE DEF new, need
  <2>6. /\ n \in Lbas \ bitmap /\ (dir => b \in Lbas \ bitmap /\ b # n)
        /\ used \in SUBSET Lbas /\ bitmap \subseteq used /\ n \in used /\ (dir => b \in used)
    <3>1. bitmap \subseteq Lbas
      BY <2>1 DEF Sound, BitmapOK
    <3>2. FreeBlocks = Lbas \ bitmap
      BY DEF FreeBlocks
    <3>3. n \in FreeBlocks /\ n \in ToSet(new)
      BY <2>4, <2>5
    <3>4. ASSUME dir PROVE b \in FreeBlocks /\ b # n /\ b \in ToSet(new)
      BY <2>4, <2>5, <3>4
    <3>5. ToSet(new) \subseteq FreeBlocks
      BY <2>4, <2>5
    <3>6. QED BY <3>1, <3>2, <3>3, <3>4, <3>5
  <2>7. a \in bitmap /\ a \in Lbas /\ a # 1 /\ 1 \in bitmap /\ 1 \in Lbas
    <3>1. Facts(disk, bitmap)
      BY <2>1, SoundFacts
    <3>2. d \in Ino(disk) /\ 0 \in Used(disk, d)
      BY <2>3, <3>1 DEF Facts, DirFacts
    <3>3. 1 \in bitmap /\ bitmap \subseteq Lbas
      BY <3>1 DEF Facts, MarkFacts
    <3>4. QED BY <3>1, <3>2, <3>3 DEF Facts, PtrFacts
  <2> HIDE DEF used, x, y, n, b, a
  <2>8. ws = <<To(n, x), To(a, y)>> \o (IF dir THEN <<To(b, Directory(NoEntries))>> ELSE <<>>)
               \o <<To(1, Bitmap(used))>>
    BY DEF n, b, a
  <2> HIDE DEF ws
  <2>9. Len(ws) \in Nat /\ \A e : Wrote(ws, Len(ws), e) => EntryWritten(e, dir, n, x, a, y, b, used)
    <3>1. n # a /\ n # 1 /\ (dir => b \in Lbas \ {n, a, 1})
      BY <2>6, <2>7
    <3>2. EntryList(ws, dir, n, x, a, y, b, used)
      BY <2>8, EntryWrites DEF EntryList
    <3>3. ASSUME NEW e, Wrote(ws, Len(ws), e) PROVE EntryWritten(e, dir, n, x, a, y, b, used)
      BY <2>6, <2>7, <3>1, <3>2, <3>3, WroteEntry
    <3>4. Len(ws) \in Nat
      BY <3>2 DEF EntryList
    <3>5. QED BY <3>3, <3>4
  <2>10. x = Inode(dir, IF dir THEN BLK ELSE 0, IF dir THEN [NoPtrs EXCEPT ![0] = b] ELSE NoPtrs)
    BY DEF x, b
  <2>11. y = Directory([EntriesOn(disk, d) EXCEPT ![s] = [name |-> Last(p), inode |-> n]])
    BY <2>3 DEF y, n
  <2>12. ASSUME NEW e, NEW f, Wrote(ws, Len(ws), e), DOMAIN f = Lbas,
                \A l \in Lbas : f[l] = IF l \in bitmap \ used THEN Stale ELSE e[l]
         PROVE  Sound(f, used)
    <3>1. \A l \in Lbas : f[l] = e[l]
      BY <2>6, <2>12
    <3>2. Wrote(ws, Len(ws), f)
      BY <2>12, <3>1 DEF Wrote
    <3>3. /\ f[n] = x /\ f[a] = y /\ f[1] = Bitmap(used) /\ (dir => f[b] = Directory(NoEntries))
          /\ \A l \in Lbas \ {1, n, a} : (dir /\ l = b) \/ f[l] = disk[l]
      BY <2>9, <3>2 DEF EntryWritten
    <3>4. f[disk[d].ptrs[0]] =
            Directory([EntriesOn(disk, d) EXCEPT ![s] = [name |-> Last(p), inode |-> n]])
      BY <2>11, <3>3 DEF a
    <3>5. f[n] = Inode(dir, IF dir THEN BLK ELSE 0, IF dir THEN [NoPtrs EXCEPT ![0] = b] ELSE NoPtrs)
      BY <2>10, <3>3
    <3>6. \A l \in Lbas \ {1, n, disk[d].ptrs[0]} : (dir /\ l = b) \/ f[l] = disk[l]
      BY <3>3 DEF a
    <3>7. QED BY <2>1, <2>3, <2>6, <2>12, <3>3, <3>4, <3>5, <3>6, CreatedSound
  <2>13. QED BY <1>2, <2>1, <2>9, <2>12, PerformsSound
<1>3. QED BY <1>1, <1>2 DEF create_directory_entry

\* create and mkdir write the bitmap last: what they were stopped in may leave an
\* inode and an entry whose blocks are not marked.  Nothing below holds of a
\* program that may be stopped in them.
CreateNotStopped == CrashIn \cap {"create", "mkdir"} = {}

\* A sound disk stays sound: every call leaves one, and so does every prefix of
\* the writes of a call that may be stopped.
LEMMA IInvStep == ASSUME CreateNotStopped, IInv, [Next]_vars PROVE IInv'
<1>1. CASE UNCHANGED vars
  BY <1>1 DEF vars, IInv
<1>2. ASSUME NEW p \in Paths \ {<<>>}, fs_create(p) \/ fs_mkdir(p) PROVE IInv'
  <2>1. "create" \notin CrashIn /\ "mkdir" \notin CrashIn
    BY DEF CreateNotStopped
  <2>2. QED BY <1>2, <2>1, CreateSound DEF fs_create, fs_mkdir
<1>3. ASSUME NEW p \in Paths \ {<<>>}, fs_unlink(p) PROVE IInv'
  BY <1>3, UnlinkSound
<1>4. ASSUME NEW p \in Paths \ {<<>>}, fs_rmdir(p) PROVE IInv'
  BY <1>4, RmdirSound
<1>5. ASSUME NEW p \in Paths \ {<<>>}, NEW q \in Paths \ {<<>>}, fs_rename(p, q) PROVE IInv'
  BY <1>5, RenameSound
<1>6. ASSUME NEW p \in Paths,
             fs_getattr(p) \/ fs_readdir(p) \/ fs_chmod(p) \/ fs_utime(p)
      PROVE  IInv'
  BY <1>6, ReturnsSound DEF fs_getattr, fs_readdir, fs_chmod, fs_utime, Refused
<1>7. ASSUME NEW p \in Paths, NEW len \in Lengths(p), fs_truncate(p, len) PROVE IInv'
  <2>1. len \in Int
    BY Sizes DEF Lengths
  <2>2. QED BY <1>7, <2>1, TruncateSound
<1>8. ASSUME NEW p \in Paths, NEW off \in Offsets(p)
      PROVE  off \in Nat
  BY Sizes DEF Offsets
<1>9. ASSUME NEW p \in Paths, NEW off, NEW len, fs_read(p, off, len) PROVE IInv'
  BY <1>9, ReturnsSound DEF fs_read, Refused
<1>10. ASSUME NEW p \in Paths, NEW off \in Offsets(p), NEW buf \in Bufs,
              off + Len(buf) <= MaxSize, fs_write(p, off, buf)
       PROVE  IInv'
  BY <1>8, <1>10, WriteSound
<1>11. CASE fs_statfs
  BY <1>11, ReturnsSound DEF fs_statfs
<1>12. CASE Restarts
  BY <1>12, RestartsSound
<1>13. CASE \E p \in Paths \ {<<>>} :
              \/ fs_create(p) \/ fs_mkdir(p) \/ fs_unlink(p) \/ fs_rmdir(p)
              \/ \E q \in Paths \ {<<>>} : fs_rename(p, q)
  BY <1>2, <1>3, <1>4, <1>5, <1>13
<1>14. CASE \E p \in Paths :
              \/ fs_getattr(p) \/ fs_readdir(p) \/ fs_chmod(p) \/ fs_utime(p)
              \/ \E len \in Lengths(p) : fs_truncate(p, len)
              \/ \E off \in Offsets(p) :
                   \/ \E len \in 1..MaxSize : fs_read(p, off, len)
                   \/ \E buf \in Bufs : off + Len(buf) <= MaxSize /\ fs_write(p, off, buf)
  BY <1>6, <1>7, <1>9, <1>10, <1>14
<1>15. QED BY <1>1, <1>11, <1>12, <1>13, <1>14 DEF Next

\* So the disk is sound in every state.
LEMMA IInvInvariant == ASSUME CreateNotStopped PROVE Spec => []IInv
<1>1. Init => IInv
  BY InitSound
<1>2. IInv /\ [Next]_vars => IInv'
  BY IInvStep
<1>3. QED BY <1>1, <1>2, PTL DEF Spec

\* On every disk, whatever calls were made and in which of them the process was
\* stopped, a path leads to an inode and its blocks to what they are taken for,
\* and the bitmap on the disk is the one in memory.
THEOREM TypeCorrect == ASSUME CreateNotStopped PROVE Spec => []TypeOK
<1>1. QED BY IInvInvariant, SoundTypeOK, PTL

\* No block is ever in two files, in a file and a directory, or in one twice.
THEOREM BlocksAreNotShared == ASSUME CreateNotStopped PROVE Spec => []NoSharedBlock
<1>1. QED BY IInvInvariant, SoundNoSharedBlock, PTL

\* The bit of every block that can be reached is set, after a restart too.
THEOREM ReachedAreMarked == ASSUME CreateNotStopped PROVE Spec => []UsedAreMarked
<1>1. QED BY IInvInvariant, SoundUsedAreMarked, PTL

=============================================================================
