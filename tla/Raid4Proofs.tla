----------------------------- MODULE Raid4Proofs -----------------------------
(***************************************************************************)
(* RAID 4 for every number of disks, stripe size, disk size, block and     *)
(* length of a request: a client that replaces only members the code       *)
(* rebuilds (data disk 0 and the parity disk) and does so before a second  *)
(* one fails has a volume that survives one failed member.                 *)
(***************************************************************************)
EXTENDS Raid4, StripingProofs

-----------------------------------------------------------------------------
(* Parity *)

\* One more block in the parity: its bits are flipped.
LEMMA ParityAdds ==
  ASSUME NEW S, IsFiniteSet(S), NEW x, x \notin S, NEW f, f[x] \subseteq Bits
  PROVE  Parity(f, S \cup {x}) = SymDiff(Parity(f, S), f[x])
<1>1. ASSUME NEW b \in Bits
      PROVE  b \in Parity(f, S \cup {x}) <=> IF b \in f[x] THEN b \notin Parity(f, S)
                                                       ELSE b \in Parity(f, S)
  <2> DEFINE B == {i \in S : b \in f[i]}
             C == {i \in S \cup {x} : b \in f[i]}
  <2>1. IsFiniteSet(B) /\ Cardinality(B) \in Nat
    BY FS_Subset, FS_CardinalityType
  <2>2. b \in Parity(f, S \cup {x}) <=> Cardinality(C) % 2 = 1
    BY DEF Parity
  <2>3. b \in Parity(f, S) <=> Cardinality(B) % 2 = 1
    BY DEF Parity
  <2>4. CASE b \in f[x]
    <3>1. C = B \cup {x} /\ x \notin B
      BY <2>4
    <3> HIDE DEF B, C
    <3>2. Cardinality(C) = Cardinality(B) + 1
      BY <2>1, <3>1, FS_AddElement
    <3>3. Cardinality(C) % 2 = 1 <=> Cardinality(B) % 2 # 1
      BY <2>1, <3>2
    <3>4. QED BY <2>2, <2>3, <2>4, <3>3
  <2>5. CASE b \notin f[x]
    <3>1. C = B
      BY <2>5
    <3>2. QED BY <2>2, <2>3, <2>5, <3>1
  <2>6. QED BY <2>4, <2>5
<1>2. Parity(f, S \cup {x}) \subseteq Bits /\ Parity(f, S) \subseteq Bits
  BY DEF Parity
<1>3. QED BY <1>1, <1>2 DEF SymDiff

\* The parity depends on the blocks it is made of only.
LEMMA ParityOfSame ==
  ASSUME NEW S, NEW f, NEW g, \A i \in S : f[i] = g[i]
  PROVE  Parity(f, S) = Parity(g, S)
<1>1. ASSUME NEW b \in Bits
      PROVE  {i \in S : b \in f[i]} = {i \in S : b \in g[i]}
  OBVIOUS
<1>2. QED BY <1>1 DEF Parity

\* Of no block it is zero, and it is a block.
LEMMA ParityIsBlock ==
  ASSUME NEW S, NEW f
  PROVE  Parity(f, S) \in Block /\ Parity(f, {}) = {}
<1>1. Parity(f, S) \in Block
  BY DEF Parity, Block
<1>2. ASSUME NEW b \in Bits PROVE Cardinality({i \in {} : b \in f[i]}) = 0
  <2>1. {i \in {} : b \in f[i]} = {}
    OBVIOUS
  <2>2. QED BY <2>1, FS_EmptySet
<1>3. 0 % 2 = 0
  OBVIOUS
<1>4. Parity(f, {}) = {}
  BY <1>2, <1>3 DEF Parity
<1>5. QED BY <1>1, <1>4

\* The parity without x is what x holds, up to the parity of them all.
LEMMA ParityWithout ==
  ASSUME NEW S, S \subseteq Slots, NEW x \in S, NEW f, f[x] \subseteq Bits
  PROVE  Parity(f, S) = SymDiff(Parity(f, S \ {x}), f[x])
<1>1. IsFiniteSet(S \ {x}) /\ (S \ {x}) \cup {x} = S /\ x \notin S \ {x}
  BY MembersFinite
<1>2. Parity(f, (S \ {x}) \cup {x}) = SymDiff(Parity(f, S \ {x}), f[x])
  BY <1>1, ParityAdds
<1>3. QED BY <1>1, <1>2

\* A block exchanged in a parity that it is not part of, and in one that it is.
LEMMA SymDiffExchanged ==
  ASSUME NEW r, NEW p, NEW c, NEW v
  PROVE  SymDiff(SymDiff(r, v), SymDiff(SymDiff(p, c), v)) = SymDiff(SymDiff(r, c), p)
<1>1. \A e : e \in SymDiff(SymDiff(r, v), SymDiff(SymDiff(p, c), v))
             <=> e \in SymDiff(SymDiff(r, c), p)
  BY DEF SymDiff
<1>2. QED BY <1>1

\* What is put in twice is not in.
LEMMA SymDiffCancels ==
  ASSUME NEW r, NEW v
  PROVE  SymDiff(r, SymDiff(v, r)) = v /\ SymDiff(r, r) = {}
<1>1. \A e : e \in SymDiff(r, SymDiff(v, r)) <=> e \in v
  BY DEF SymDiff
<1>2. SymDiff(r, r) = {}
  BY DEF SymDiff
<1>3. QED BY <1>1, <1>2

\* Only a block and itself make zero.
LEMMA SymDiffZero ==
  ASSUME NEW r, NEW v, SymDiff(r, v) = {}
  PROVE  r = v
<1>1. \A e : e \in r <=> e \in v
  BY DEF SymDiff
<1>2. QED BY <1>1

\* What is put together from blocks is a block.
LEMMA SymDiffIsBlock ==
  ASSUME NEW p \in Block, NEW q \in Block
  PROVE  SymDiff(p, q) \in Block
BY DEF SymDiff, Block

\* If w and the parity disk p get the new block v and the parity with the old
\* block exchanged for it, the parity of every set they are in stays.
LEMMA ParityExchanged ==
  ASSUME NEW S, S \subseteq Slots, NEW w \in S, NEW p \in S, w # p, NEW f, NEW g, NEW v \in Block,
         f[w] \in Block, f[p] \in Block,
         g[w] = v, g[p] = SymDiff(SymDiff(f[p], f[w]), v),
         \A s \in S \ {w, p} : g[s] = f[s]
  PROVE  Parity(g, S) = Parity(f, S)
<1> DEFINE R == (S \ {p}) \ {w}
<1>1. g[p] \in Block
  BY SymDiffIsBlock
<1>2. Parity(f, S) = SymDiff(Parity(f, S \ {p}), f[p])
      /\ Parity(g, S) = SymDiff(Parity(g, S \ {p}), g[p])
  BY <1>1, ParityWithout DEF Block
<1>3. Parity(f, S \ {p}) = SymDiff(Parity(f, R), f[w])
      /\ Parity(g, S \ {p}) = SymDiff(Parity(g, R), g[w])
  <2>1. S \ {p} \subseteq Slots /\ w \in S \ {p} /\ f[w] \subseteq Bits /\ g[w] \subseteq Bits
    BY DEF Block
  <2>2. QED BY <2>1, ParityWithout
<1>4. Parity(f, R) = Parity(g, R)
  BY ParityOfSame
<1> HIDE DEF R
<1>5. QED BY <1>2, <1>3, <1>4, SymDiffExchanged

-----------------------------------------------------------------------------
(* Rows of blocks *)

\* Block b of the members.
Row(b) == [s \in Slots |-> content[disks[s]][b]]

\* The blocks of a disk that the volume uses.
Rows == 0..(nblks \div DataDisks - 1)

\* The parity of some members is that of their part of the row.
LEMMA RowParityIs ==
  ASSUME NEW S, S \subseteq Slots, NEW b
  PROVE  /\ RowParity(S, b) = Parity(Row(b), S)
         /\ RowParity(S, b)' = Parity(Row(b)', S)
<1>1. RowParity(S, b) = Parity(Row(b), S)
  <2>1. \A s \in S : [t \in S |-> content[disks[t]][b]][s] = Row(b)[s]
    BY DEF Row
  <2>2. QED BY <2>1, ParityOfSame DEF RowParity
<1>2. RowParity(S, b)' = Parity(Row(b)', S)
  <2>1. \A s \in S : [t \in S |-> content'[disks'[t]][b]][s] = Row(b)'[s]
    BY DEF Row
  <2>2. RowParity(S, b)' = Parity([t \in S |-> content'[disks'[t]][b]], S)
    BY DEF RowParity, Parity
  <2>3. QED BY <2>1, <2>2, ParityOfSame
<1>3. QED BY <1>1, <1>2

\* Every row's parity is a block.
LEMMA RowIsBlock ==
  ASSUME NEW S, NEW b
  PROVE  RowParity(S, b) \in Block
BY ParityIsBlock DEF RowParity

\* The rows are inside of all members, and the blocks of the volume in them.
LEMMA RowsOnMembers ==
  ASSUME StripingTypeOK, Mounted
  PROVE  /\ \E k \in Nat : /\ nblks = k * StripeWidth /\ nblks \div DataDisks = k * Unit
                           /\ k \in 0..nblks
         /\ nblks \div DataDisks \in Nat
         /\ \A b \in Rows, s \in Slots : /\ disks[s] \in Disks /\ b \in Blocks(disks[s])
                                         /\ content[disks[s]][b] \in Block
         /\ \A l \in 0..(nblks - 1) : ActualBlock(l) \in Rows
<1>1. PICK k \in 0..nblks : /\ nblks = k * StripeWidth
                            /\ \A s \in Slots : k * Unit <= NumBlocks[disks[s]]
  BY DEF StripingTypeOK
<1>2. nblks \in Nat /\ k \in Nat
  BY <1>1 DEF StripingTypeOK
<1>3. nblks \div DataDisks = k * Unit /\ k * Unit \in Nat
  BY <1>1, <1>2, UnitsPerDisk, StripingAssumption
<1>4. ASSUME NEW b \in Rows, NEW s \in Slots
      PROVE  disks[s] \in Disks /\ b \in Blocks(disks[s]) /\ content[disks[s]][b] \in Block
  <2>1. disks[s] \in Disks /\ NumBlocks[disks[s]] \in Nat
    BY ImagesAssumption DEF StripingTypeOK
  <2>2. b \in Blocks(disks[s])
    BY <1>1, <1>3, <2>1 DEF Blocks, Rows
  <2>3. content[disks[s]] \in [Blocks(disks[s]) -> Block]
    BY <2>1, ContentsOfDisks DEF StripingTypeOK, ImagesTypeOK
  <2>4. QED BY <2>1, <2>2, <2>3
<1>5. ASSUME NEW l \in 0..(nblks - 1) PROVE ActualBlock(l) \in Rows
  <2>1. l \in Nat /\ l < k * StripeWidth
    BY <1>1, <1>2
  <2>2. ActualBlock(l) \in Nat /\ ActualBlock(l) < k * Unit
    BY <1>2, <2>1, PlaceType, PlaceBound
  <2>3. QED BY <1>3, <2>2 DEF Rows
<1>6. QED BY <1>1, <1>2, <1>3, <1>4, <1>5

\* The parity disk is not one of the data disks.
LEMMA MembersSplit ==
  /\ ParitySlot \in Slots /\ ParitySlot \notin DataSlots /\ DataSlots \subseteq Slots
  /\ Slots = DataSlots \cup {ParitySlot} /\ 0 \in DataSlots
BY StripingAssumption, Raid4Assumption DEF ParitySlot, DataSlots, Slots

\* If all work, what a member holds is the parity of the others.
LEMMA Redundancy ==
  ASSUME StripingTypeOK, Mounted, ParityHolds, FailedSlots = {}, NEW x \in Slots, NEW b \in Rows
  PROVE  RowParity(Slots \ {x}, b) = content[disks[x]][b]
<1>1. RowParity(Slots, b) = {}
  BY DEF ParityHolds, Rows
<1>2. Row(b)[x] = content[disks[x]][b] /\ Row(b)[x] \subseteq Bits
  BY RowsOnMembers DEF Row, Block
<1>3. Parity(Row(b), Slots) = SymDiff(Parity(Row(b), Slots \ {x}), Row(b)[x])
  BY <1>2, ParityWithout
<1>4. SymDiff(RowParity(Slots \ {x}, b), content[disks[x]][b]) = {}
  BY <1>1, <1>2, <1>3, RowParityIs
<1>5. QED BY <1>4, SymDiffZero

-----------------------------------------------------------------------------
(* A volume is created, a block is written, a member is replaced *)

IInv == StripingInv /\ ParityHolds

\* The parity that is written with a new volume makes every row zero.
LEMMA CreateParity ==
  ASSUME StripingInv, NEW ds \in [Slots -> Disks], raid4_create(ds)
  PROVE  content' \in Contents /\ ParityHolds'
<1> DEFINE P == ds[ParitySlot]
           n == NumBlocks[ds[0]]
           par(b) == Parity([s \in DataSlots |-> content[ds[s]][b]], DataSlots)
<1>1. /\ P \in Disks /\ \A s \in Slots : ds[s] \in Disks
      /\ \A s \in DataSlots : ds[s] # P
      /\ n \in Nat
  BY MembersSplit, ImagesAssumption DEF raid4_create, stripe_create, MayCreate
<1>2. /\ content = [d \in Disks |-> content[d]]
      /\ \A d \in Disks : content[d] \in [Blocks(d) -> Block]
  BY ContentsOfDisks DEF StripingInv, StripingTypeOK, ImagesTypeOK
<1>3. \A b : par(b) \in Block
  BY ParityIsBlock
<1>4. content' = [content EXCEPT ![P] =
                    [b \in DOMAIN content[P] |-> IF b < Used(n) THEN par(b) ELSE content[P][b]]]
  BY <1>1, <1>2 DEF raid4_create
<1>5. disks' = ds /\ nblks' = Used(n) * DataDisks
  BY DEF raid4_create, stripe_create
<1>6. NumBlocks[P] = n
  BY MembersSplit DEF raid4_create, stripe_create, SameSize
<1> HIDE DEF P, n, par
<1>7. /\ content' = [d \in Disks |-> content'[d]]
      /\ \A d \in Disks : content'[d] \in [Blocks(d) -> Block]
  BY <1>1, <1>2, <1>3, <1>4
<1>8. content' \in Contents
  BY <1>7, ContentsOfDisks
<1>9. nblks' \div DataDisks = Used(n) /\ Used(n) \in 0..n
  BY <1>1, <1>5, UsedUnits, UnitsPerDisk
<1>10. ASSUME NEW b \in 0..(Used(n) - 1) PROVE RowParity(Slots, b)' = {}
  <2> DEFINE g == Row(b)'
  <2>1. b \in Blocks(P) /\ b < Used(n)
    BY <1>1, <1>6, <1>9 DEF Blocks
  <2>2. g[ParitySlot] = par(b)
    BY <1>1, <1>2, <1>4, <1>5, <2>1, MembersSplit DEF Row, P
  <2>3. \A s \in DataSlots : g[s] = content[ds[s]][b]
    BY <1>1, <1>2, <1>4, <1>5, MembersSplit DEF Row, P
  <2>4. RowParity(Slots, b)' = Parity(g, Slots)
    BY RowParityIs
  <2> HIDE DEF g
  <2>5. Parity(g, DataSlots) = par(b)
    <3>1. \A s \in DataSlots : g[s] = [t \in DataSlots |-> content[ds[t]][b]][s]
      BY <2>3
    <3>2. QED BY <3>1, ParityOfSame DEF par
  <2>6. Slots \ {ParitySlot} = DataSlots /\ g[ParitySlot] \subseteq Bits
    BY <1>3, <2>2, MembersSplit DEF Block
  <2>7. Parity(g, Slots) = SymDiff(Parity(g, DataSlots), g[ParitySlot])
    BY <2>6, MembersSplit, ParityWithout
  <2>8. QED BY <2>2, <2>4, <2>5, <2>7, SymDiffCancels
<1>11. ParityHolds'
  BY <1>9, <1>10 DEF ParityHolds
<1>12. QED BY <1>8, <1>11

\* What a write of one block leaves in the rows.
LEMMA RowsWritten ==
  ASSUME StripingInv, Pending, last.op = "write", raid4_write
  PROVE  LET w == WhichDisk(NextBlock)
             a == ActualBlock(NextBlock)
         IN  /\ BlockWritten /\ content' \in Contents
             /\ w \in DataSlots /\ a \in Rows /\ Head(buf) \in Block
             /\ NewParity(w, a, Head(buf)) \in Block
             /\ \A s \in Slots, b \in Rows :
                  content'[disks'[s]][b] =
                    IF b = a /\ s = w /\ Works(w) THEN Head(buf)
                    ELSE IF b = a /\ s = ParitySlot /\ Works(ParitySlot)
                    THEN NewParity(w, a, Head(buf))
                    ELSE content[disks[s]][b]
<1> DEFINE w == WhichDisk(NextBlock)
           a == ActualBlock(NextBlock)
           v == Head(buf)
           q == NewParity(w, a, v)
           S == {w, ParitySlot}
           new == [s \in S |-> IF s = w THEN v ELSE q]
<1>1. StripingTypeOK /\ Mounted /\ NextBlock \in 0..(nblks - 1)
  BY NextBlockInVolume DEF StripingInv, StripingTypeOK
<1>2. /\ w \in DataSlots /\ w \in Slots /\ a \in Rows /\ w # ParitySlot
      /\ S \subseteq Slots
  BY <1>1, PlaceOnMembers, RowsOnMembers, MembersSplit
<1>3. v \in Block
  BY NextBlockInVolume DEF StripingInv, StripingTypeOK
<1>4. \A s \in Slots, b \in Rows : disks[s] \in Disks /\ b \in Blocks(disks[s])
                                   /\ content[disks[s]][b] \in Block
  BY <1>1, RowsOnMembers
<1>5. \A s, t \in Slots : disks[s] = disks[t] => s = t
  BY <1>1 DEF StripingTypeOK
<1>6. q \in Block
  <2>1. content[disks[w]][a] \in Block /\ content[disks[ParitySlot]][a] \in Block
    BY <1>2, <1>4, MembersSplit
  <2>2. RowParity({s \in DataSlots : Works(s)}, a) \in Block
    BY RowIsBlock
  <2> HIDE DEF a, v, w
  <2>3. QED BY <1>3, <2>1, <2>2, SymDiffIsBlock DEF NewParity
<1>7. BlockWritten /\ disks' = disks
  BY DEF raid4_write, BlockWritten
<1>8. WriteMembers(S, a, new)
  BY DEF raid4_write, WriteBlock
<1> HIDE DEF w, a, v, q
<1>9. /\ content = [d \in Disks |-> content[d]]
      /\ \A d \in Disks : content[d] \in [Blocks(d) -> Block]
  BY <1>1, ContentsOfDisks DEF StripingTypeOK, ImagesTypeOK
<1>10. \A s \in S : new[s] \in Block
  BY <1>3, <1>6
<1>11. \A s \in S : (CHOOSE t \in S : disks[t] = disks[s]) = s
  BY <1>2, <1>5
<1>12. content' = [d \in Disks |->
          IF \E s \in S : Works(s) /\ disks[s] = d
          THEN [content[d] EXCEPT ![a] = new[CHOOSE s \in S : disks[s] = d]]
          ELSE content[d]]
  BY <1>8 DEF WriteMembers
<1> HIDE DEF new
<1>13. \A d \in Disks : content'[d] \in [Blocks(d) -> Block]
  <2> TAKE d \in Disks
  <2>1. CASE \E s \in S : Works(s) /\ disks[s] = d
    <3>1. PICK s \in S : Works(s) /\ disks[s] = d
      BY <2>1
    <3>2. content'[d] = [content[d] EXCEPT ![a] = new[s]]
      BY <1>11, <1>12, <3>1, SMTT(30)
    <3>3. QED BY <1>9, <1>10, <3>2
  <2>2. CASE ~ \E s \in S : Works(s) /\ disks[s] = d
    BY <1>9, <1>12, <2>2
  <2>3. QED BY <2>1, <2>2
<1>14. content' \in Contents
  <2>1. content' = [d \in Disks |-> content'[d]]
    BY <1>12
  <2>2. QED BY <1>13, <2>1, ContentsOfDisks
<1>15. ASSUME NEW s \in Slots, NEW b \in Rows
       PROVE  content'[disks'[s]][b] = IF b = a /\ s = w /\ Works(w) THEN v
                                       ELSE IF b = a /\ s = ParitySlot /\ Works(ParitySlot) THEN q
                                       ELSE content[disks[s]][b]
  <2>1. disks[s] \in Disks /\ b \in Blocks(disks[s]) /\ a \in Blocks(disks[s])
    BY <1>2, <1>4
  <2>2. CASE s \in S /\ Works(s)
    <3>1. content'[disks[s]] = [content[disks[s]] EXCEPT ![a] = new[s]]
      BY <1>11, <1>12, <2>1, <2>2
    <3>2. content'[disks[s]][b] = IF b = a THEN new[s] ELSE content[disks[s]][b]
      BY <1>9, <2>1, <3>1
    <3>3. QED BY <1>2, <1>7, <2>2, <3>2 DEF new
  <2>3. CASE ~(s \in S /\ Works(s))
    <3>1. ~ \E t \in S : Works(t) /\ disks[t] = disks[s]
      BY <1>2, <1>5, <2>3
    <3>2. content'[disks[s]] = content[disks[s]]
      BY <1>12, <2>1, <3>1
    <3>3. QED BY <1>7, <2>3, <3>2
  <2>4. QED BY <2>2, <2>3
<1>16. QED BY <1>2, <1>3, <1>6, <1>7, <1>14, <1>15 DEF w, a, v, q

\* A write of one block keeps the parity of every set of members that the block
\* and the parity are in, as long as both work.
LEMMA WriteKeepsParity ==
  ASSUME StripingInv, Pending, last.op = "write", raid4_write, NEW S, S \subseteq Slots,
         WhichDisk(NextBlock) \in S, ParitySlot \in S,
         Works(WhichDisk(NextBlock)), Works(ParitySlot), NEW b \in Rows
  PROVE  RowParity(S, b)' = RowParity(S, b)
<1> DEFINE w == WhichDisk(NextBlock)
           a == ActualBlock(NextBlock)
           v == Head(buf)
           q == NewParity(w, a, v)
           g == Row(b)'
           f == Row(b)
<1>1. /\ w \in DataSlots /\ a \in Rows /\ v \in Block
      /\ \A s \in Slots : content'[disks'[s]][b] =
                            IF b = a /\ s = w /\ Works(w) THEN v
                            ELSE IF b = a /\ s = ParitySlot /\ Works(ParitySlot) THEN q
                            ELSE content[disks[s]][b]
  BY RowsWritten
<1>2. Works(w) /\ w \in S /\ w # ParitySlot
  BY <1>1, MembersSplit
<1>3. q = SymDiff(SymDiff(content[disks[ParitySlot]][a], content[disks[w]][a]), v)
  BY <1>2 DEF NewParity
<1>4. \A s \in Slots : f[s] = content[disks[s]][b] /\ g[s] = content'[disks'[s]][b]
  BY DEF Row
<1>5. f[w] \in Block /\ f[ParitySlot] \in Block
  <2>1. StripingTypeOK /\ Mounted
    BY DEF StripingInv, StripingTypeOK
  <2>2. QED BY <1>1, <1>4, <2>1, RowsOnMembers, MembersSplit
<1>6. RowParity(S, b) = Parity(f, S) /\ RowParity(S, b)' = Parity(g, S)
  BY RowParityIs
<1> HIDE DEF w, a, v, q, g, f
<1>7. CASE b = a
  <2>1. g[w] = v /\ g[ParitySlot] = SymDiff(SymDiff(f[ParitySlot], f[w]), v)
    BY <1>1, <1>2, <1>3, <1>4, <1>7, MembersSplit
  <2>2. \A s \in S \ {w, ParitySlot} : g[s] = f[s]
    BY <1>1, <1>4
  <2>3. QED BY <1>1, <1>2, <1>5, <1>6, <2>1, <2>2, ParityExchanged
<1>8. CASE b # a
  <2>1. \A s \in S : g[s] = f[s]
    BY <1>1, <1>4, <1>8
  <2>2. QED BY <1>6, <2>1, ParityOfSame
<1>9. QED BY <1>7, <1>8

\* The block that fills block b of a replaced data disk is data disk 0's.
LEMMA ReplacedFromDisk0 ==
  ASSUME NEW b \in Nat
  PROVE  WhichDisk(ReplacedFrom(b)) = 0 /\ ActualBlock(ReplacedFrom(b)) = b
<1>1. 0 \in DataSlots /\ b \div Unit \in Nat /\ b % Unit \in Nat
  BY MembersSplit, DivMod, StripingAssumption
<1>2. ReplacedFrom(b) = Lba(0, b)
  BY <1>1, WidthPositive, StripingAssumption DEF ReplacedFrom, Lba
<1>3. QED BY <1>1, <1>2, PlaceOfLba

\* A replaced member is rebuilt by blocks, in the place of the old one.
LEMMA ReplaceEffect ==
  ASSUME StripingInv, NEW i \in Slots, NEW new \in Disks, raid4_replace(i, new),
         disks' # disks
  PROVE  /\ Mounted /\ Mounted' /\ ~Pending /\ Admin("replace", "SUCCESS")
         /\ disks' = [disks EXCEPT ![i] = new]
         /\ nblks \div DataDisks <= NumBlocks[new]
         /\ content' \in Contents
         /\ \A b \in Rows : CanRebuild(i) => content'[new][b] = Rebuilt(i, b)
         /\ \A s \in Slots \ {i} : disks'[s] = disks[s] /\ content'[disks[s]] = content[disks[s]]
<1> DEFINE blks == nblks \div DataDisks
<1>1. StripingTypeOK /\ Mounted /\ ~Pending /\ status[new] = "open"
      /\ new \notin {disks[s] : s \in Slots}
  BY DEF StripingInv, raid4_replace
<1>2. PICK stale \in [0..(blks - 1) -> Block] :
        /\ blks <= NumBlocks[new]
        /\ content' = [content EXCEPT ![new] =
               [b \in DOMAIN content[new] |-> IF b >= blks THEN content[new][b]
                                              ELSE IF CanRebuild(i) THEN Rebuilt(i, b)
                                              ELSE stale[b]]]
        /\ disks' = [disks EXCEPT ![i] = new]
        /\ Admin("replace", "SUCCESS")
  <2>1. new \in DOMAIN content
    BY ContentsOfDisks DEF StripingInv, StripingTypeOK, ImagesTypeOK
  <2>2. QED BY <2>1 DEF raid4_replace
<1>3. blks \in Nat
  BY <1>1, RowsOnMembers
<1>4. Rows = 0..(blks - 1)
  BY DEF Rows
<1>5. \A b \in Rows : Rebuilt(i, b) \in Block
  <2> TAKE b \in Rows
  <2>1. CASE i = ParitySlot
    BY <2>1, RowIsBlock DEF Rebuilt
  <2>2. CASE i # ParitySlot
    <3>1. b \in Nat
      BY <1>3, <1>4
    <3>2. Rebuilt(i, b) = ReadBlock(0, b)
      BY <2>2, <3>1, ReplacedFromDisk0 DEF Rebuilt
    <3>3. content[disks[0]][b] \in Block
      BY <1>1, RowsOnMembers, MembersSplit
    <3>4. QED BY <3>2, <3>3, RowIsBlock DEF ReadBlock
  <2>3. QED BY <2>1, <2>2
<1> HIDE DEF blks
<1>6. /\ content = [d \in Disks |-> content[d]]
      /\ \A d \in Disks : content[d] \in [Blocks(d) -> Block]
  BY <1>1, ContentsOfDisks DEF StripingTypeOK, ImagesTypeOK
<1>7. /\ content' = [d \in Disks |-> content'[d]]
      /\ \A d \in Disks : d # new => content'[d] = content[d]
  BY <1>2, <1>6
<1>8. content'[new] = [b \in Blocks(new) |-> IF b >= blks THEN content[new][b]
                                             ELSE IF CanRebuild(i) THEN Rebuilt(i, b)
                                             ELSE stale[b]]
  BY <1>2, <1>6
<1>9. content'[new] \in [Blocks(new) -> Block]
  <2>1. ASSUME NEW b \in Blocks(new), ~(b >= blks) PROVE b \in Rows
    <3>1. NumBlocks[new] \in Nat
      BY ImagesAssumption
    <3>2. QED BY <1>3, <1>4, <2>1, <3>1 DEF Blocks
  <2>2. \A b \in Rows : stale[b] \in Block
    BY <1>4 DEF blks
  <2>3. \A b \in Blocks(new) : content[new][b] \in Block
    BY <1>6
  <2>4. QED BY <1>5, <1>8, <2>1, <2>2, <2>3
<1>10. content' \in Contents
  BY <1>6, <1>7, <1>9, ContentsOfDisks
<1>11. \A b \in Rows : CanRebuild(i) => content'[new][b] = Rebuilt(i, b)
  <2>1. \A b \in Rows : b \in Blocks(new) /\ ~(b >= blks)
    <3>1. NumBlocks[new] \in Nat
      BY ImagesAssumption
    <3>2. QED BY <1>2, <1>3, <1>4, <3>1 DEF Blocks, blks
  <2>2. QED BY <1>8, <2>1
<1>12. disks \in [Slots -> Disks]
  BY <1>1 DEF StripingTypeOK
<1>13. \A s \in Slots \ {i} : disks'[s] = disks[s] /\ content'[disks[s]] = content[disks[s]]
  BY <1>1, <1>2, <1>7, <1>12
<1>14. Mounted'
  BY <1>2, <1>12 DEF Mounted
<1>15. QED BY <1>1, <1>2, <1>10, <1>11, <1>13, <1>14 DEF blks

\* A replacement that is refused for the size of the new disk.
LEMMA ReplaceRefused ==
  ASSUME StripingInv, NEW i \in Slots, NEW new \in Disks, raid4_replace(i, new), disks' = disks
  PROVE  /\ Mounted /\ ~Pending /\ Admin("replace", "E_SIZE")
         /\ UNCHANGED <<content, status, disks, nblks, nbr_failed, buf>>
<1>1. Mounted /\ ~Pending /\ new \notin {disks[s] : s \in Slots}
      /\ UNCHANGED <<status, nblks, nbr_failed, buf>>
  BY DEF raid4_replace
<1>2. disks' # [disks EXCEPT ![i] = new]
  BY <1>1 DEF StripingInv, StripingTypeOK
<1>3. Admin("replace", "E_SIZE") /\ UNCHANGED content
  BY <1>2 DEF raid4_replace
<1>4. QED BY <1>1, <1>3

\* The types survive a replacement, whatever it writes.
LEMMA ReplaceInv ==
  ASSUME StripingInv, NEW i \in Slots, NEW new \in Disks, raid4_replace(i, new)
  PROVE  StripingInv'
<1>1. CASE disks' = disks
  <2>1. /\ Admin("replace", "E_SIZE")
        /\ UNCHANGED <<content, status, disks, nblks, nbr_failed, buf>>
    BY <1>1, ReplaceRefused
  <2>2. ~Pending' /\ last' \in [op : {"none", "create", "read", "write", "replace", "close"},
                   first : Int, num : Int,
                   status : {"SUCCESS", "PENDING", "E_SIZE", "E_UNAVAIL", "NULL"},
                   data : Seq(Block)]
    BY <2>1 DEF Admin, Call, Pending
  <2>3. QED BY <2>1, <2>2 DEF StripingInv, StripingTypeOK, ImagesTypeOK, Mounted
<1>2. CASE disks' # disks
  <2>1. /\ Mounted /\ Mounted' /\ Admin("replace", "SUCCESS") /\ content' \in Contents
        /\ disks' = [disks EXCEPT ![i] = new] /\ nblks \div DataDisks <= NumBlocks[new]
    BY <1>2, ReplaceEffect
  <2>2. UNCHANGED <<status, nblks, nbr_failed, buf>> /\ new \notin {disks[s] : s \in Slots}
    BY DEF raid4_replace
  <2>3. /\ disks \in [Slots -> Disks] /\ StripingTypeOK
        /\ \A s, t \in Slots : disks[s] = disks[t] => s = t
    BY <2>1 DEF StripingInv, StripingTypeOK
  <2>4. disks' \in [Slots -> Disks] /\ \A s, t \in Slots : disks'[s] = disks'[t] => s = t
    BY <2>1, <2>2, <2>3
  <2>5. PICK k \in 0..nblks : /\ nblks = k * StripeWidth
                              /\ \A s \in Slots : k * Unit <= NumBlocks[disks[s]]
    BY <2>1, <2>3 DEF StripingTypeOK
  <2>6. k * Unit <= NumBlocks[new]
    <3>1. k \in Nat /\ nblks \div DataDisks = k * Unit
      BY <2>3, <2>5, UnitsPerDisk DEF StripingTypeOK
    <3>2. QED BY <2>1, <3>1
  <2>7. \A s \in Slots : k * Unit <= NumBlocks[disks'[s]]
    BY <2>1, <2>3, <2>5, <2>6
  <2>8. ~Pending' /\ last' \in [op : {"none", "create", "read", "write", "replace", "close"},
                   first : Int, num : Int,
                   status : {"SUCCESS", "PENDING", "E_SIZE", "E_UNAVAIL", "NULL"},
                   data : Seq(Block)]
    BY <2>1 DEF Admin, Call, Pending
  <2>9. ImagesTypeOK'
    BY <2>1, <2>2, <2>3 DEF StripingTypeOK, ImagesTypeOK
  <2>10. k \in 0..nblks' /\ nblks' = k * StripeWidth
    BY <2>2, <2>5
  <2>11. StripingTypeOK'
    BY <2>1, <2>2, <2>3, <2>4, <2>7, <2>8, <2>9, <2>10 DEF StripingTypeOK
  <2>12. QED BY <2>2, <2>8, <2>11 DEF StripingInv
<1>3. QED BY <1>1, <1>2

\* A read of a block gives a block.
LEMMA ReadIsBlock ==
  ASSUME StripingTypeOK, Mounted, NEW w \in Slots, NEW b \in Rows
  PROVE  ReadBlock(w, b) \in Block
BY RowsOnMembers, RowIsBlock DEF ReadBlock

\* The block that is read next can be read.
LEMMA NextBlockReadable ==
  ASSUME StripingInv, Pending
  PROVE  /\ Readable(WhichDisk(NextBlock))
         /\ ReadBlock(WhichDisk(NextBlock), ActualBlock(NextBlock)) \in Block
<1>1. StripingTypeOK /\ Mounted /\ NextBlock \in 0..(nblks - 1)
  BY NextBlockInVolume DEF StripingInv, StripingTypeOK
<1>2. WhichDisk(NextBlock) \in Slots /\ ActualBlock(NextBlock) \in Rows
  BY <1>1, PlaceOnMembers, RowsOnMembers
<1>3. get_failed_count < 2
  BY FailedFinite, Raid4Assumption DEF StripingInv
<1>4. QED BY <1>1, <1>2, <1>3, ReadIsBlock DEF Readable

\* No step of RAID 4 leaves its types, and none of the failures that a request
\* meets is more than the volume survives.
LEMMA NextInv == StripingInv /\ [Next]_vars => StripingInv'
<1> SUFFICES ASSUME StripingInv, [Next]_vars PROVE StripingInv'
  OBVIOUS
<1>1. ASSUME NEW ds \in [Slots -> Disks], Create(ds) PROVE StripingInv'
  <2>1. CASE CreateRefused(ds)
    BY <2>1, CreateRefusedInv
  <2>2. CASE raid4_create(ds)
    <3>1. content' \in Contents /\ stripe_create(ds)
      BY <2>2, CreateParity DEF raid4_create
    <3>2. QED BY <3>1, CreateInv
  <2>3. QED BY <1>1, <2>1, <2>2 DEF Create
<1>2. CASE Request
  BY <1>2, RequestInv
<1>3. CASE raid4_read
  <2>1. Pending /\ last.op = "read"
    BY <1>3 DEF raid4_read
  <2>2. /\ BlockRead(ReadBlock(WhichDisk(NextBlock), ActualBlock(NextBlock)))
        /\ ReadBlock(WhichDisk(NextBlock), ActualBlock(NextBlock)) \in Block
    BY <1>3, <2>1, NextBlockReadable DEF raid4_read
  <2>3. QED BY <2>1, <2>2, BlockReadInv
<1>4. CASE raid4_write
  <2>1. Pending /\ last.op = "write"
    BY <1>4 DEF raid4_write
  <2>2. BlockWritten /\ content' \in Contents
    BY <1>4, <2>1, RowsWritten
  <2>3. QED BY <2>1, <2>2, BlockWrittenInv
<1>5. ASSUME NEW i \in Slots, NEW new \in Disks, raid4_replace(i, new) PROVE StripingInv'
  BY <1>5, ReplaceInv
<1>6. CASE raid4_close
  <2>1. status' \in [Disks -> {"open", "failed", "closed"}]
    BY <1>6 DEF raid4_close, StripingInv, StripingTypeOK, ImagesTypeOK
  <2>2. QED BY <1>6, <2>1, UnmountedInv DEF raid4_close
<1>7. ASSUME NEW d \in Disks, Fail(d) PROVE StripingInv'
  BY <1>7, FailInv
<1>8. CASE UNCHANGED vars
  BY <1>8, StutterInv
<1>9. QED BY <1>1, <1>2, <1>3, <1>4, <1>5, <1>6, <1>7, <1>8 DEF Next

\* The strengthened invariant of the types: a latch that is never set, and at
\* most one member failed while a request is served.
THEOREM LatchNeverSet == Spec => []StripingInv
<1>1. Init => StripingInv
  BY InitInv DEF Init
<1>2. QED BY <1>1, NextInv, PTL DEF Spec

\* Types, and that nbr_failed, which nothing resets (homework.c: raid4_rw_oper),
\* is never set, whichever members are replaced and when.
THEOREM TypeCorrect == Spec => []TypeOK
<1>1. StripingInv => TypeOK
  BY DEF StripingInv, TypeOK
<1>2. QED BY <1>1, LatchNeverSet, PTL

-----------------------------------------------------------------------------
(* The parity *)

\* The code rebuilds data disk 0 and the parity disk, and no other member
\* (homework.c:632 reads the blocks of the volume that data disk 0 keeps).
Rebuildable == Replaceable \subseteq {0, ParitySlot}

\* All that is read to rebuild a member can be read, while the others work.
LEMMA ReplaceCanRebuild ==
  ASSUME StripingInv, Mounted, NEW i \in {0, ParitySlot}, FailedSlots \subseteq {i}
  PROVE  /\ get_failed_count <= 1 /\ CanRebuild(i)
         /\ i # ParitySlot => \A b \in Rows : Rebuilt(i, b) = ReadBlock(i, b)
<1>1. get_failed_count <= 1 /\ get_failed_count \in Nat
  <2>1. IsFiniteSet({i}) /\ Cardinality({i}) = 1
    BY FS_Singleton
  <2>2. QED BY <2>1, FS_Subset, FailedFinite DEF get_failed_count
<1>2. CASE i = ParitySlot
  <2>1. \A s \in DataSlots : Works(s)
    BY <1>2, MembersSplit DEF FailedSlots
  <2>2. QED BY <1>1, <1>2, <2>1 DEF CanRebuild
<1>3. CASE i # ParitySlot
  <2>1. CanRebuild(i)
    BY <1>1, <1>3 DEF CanRebuild, StripingInv
  <2>2. ASSUME NEW b \in Rows PROVE Rebuilt(i, b) = ReadBlock(i, b)
    <3>1. b \in Nat
      BY RowsOnMembers DEF Rows, StripingInv
    <3>2. QED BY <1>3, <3>1, ReplacedFromDisk0 DEF Rebuilt
  <2>3. QED BY <1>1, <2>1, <2>2
<1>4. QED BY <1>2, <1>3

\* A member is rebuilt so that its rows are zero again.
LEMMA ReplaceParity ==
  ASSUME IInv, Rebuildable, NEW i \in Slots, NEW new \in Disks, raid4_replace(i, new)
  PROVE  ParityHolds'
<1>1. CASE disks' = disks
  <2>1. UNCHANGED <<content, status, disks, nblks>>
    BY <1>1, ReplaceRefused DEF IInv
  <2>2. QED BY <2>1 DEF IInv, ParityHolds, Mounted, FailedSlots, Works, RowParity, Parity
<1>2. CASE disks' # disks
  <2>1. /\ Mounted /\ Mounted' /\ disks' = [disks EXCEPT ![i] = new]
        /\ \A b \in Rows : CanRebuild(i) => content'[new][b] = Rebuilt(i, b)
        /\ \A s \in Slots \ {i} : disks'[s] = disks[s] /\ content'[disks[s]] = content[disks[s]]
    BY <1>2, ReplaceEffect DEF IInv
  <2>2. /\ UNCHANGED <<status, nblks>> /\ i \in {0, ParitySlot} /\ StripingTypeOK
        /\ disks \in [Slots -> Disks] /\ nbr_failed = 0
    BY <2>1 DEF raid4_replace, Rebuildable, IInv, StripingInv, StripingTypeOK
  <2>3. SUFFICES ASSUME FailedSlots' = {}, NEW b \in Rows
                 PROVE  RowParity(Slots, b)' = {}
    BY <2>2 DEF ParityHolds, Rows
  <2>4. FailedSlots \subseteq {i}
    BY <2>1, <2>2, <2>3 DEF FailedSlots, Works
  <2>5. \A s \in Slots \ {i} : Works(s)
    BY <2>4 DEF FailedSlots
  <2>6. content'[new][b] = RowParity(Slots \ {i}, b)
    <3>1. CASE i = ParitySlot
      <4>1. CanRebuild(i) /\ Slots \ {i} = DataSlots
        BY <2>1, <2>2, <2>4, <3>1, ReplaceCanRebuild, MembersSplit DEF IInv
      <4>2. QED BY <2>1, <3>1, <4>1 DEF Rebuilt
    <3>2. CASE i = 0 /\ i # ParitySlot
      <4>1. content'[new][b] = ReadBlock(i, b)
        BY <2>1, <2>2, <2>4, <3>2, ReplaceCanRebuild DEF IInv
      <4>2. CASE ~Works(i)
        BY <4>1, <4>2 DEF ReadBlock
      <4>3. CASE Works(i)
        <5>1. FailedSlots = {}
          BY <2>4, <4>3 DEF FailedSlots
        <5>2. RowParity(Slots \ {i}, b) = content[disks[i]][b]
          BY <2>1, <2>2, <5>1, Redundancy DEF IInv
        <5>3. QED BY <4>1, <4>3, <5>2 DEF ReadBlock
      <4>4. QED BY <4>2, <4>3
    <3>3. QED BY <2>2, <3>1, <3>2
  <2> DEFINE g == Row(b)'
             f == Row(b)
  <2>7. g[i] = content'[new][b] /\ \A s \in Slots \ {i} : g[s] = f[s]
    BY <2>1, <2>2 DEF Row
  <2>8. RowParity(Slots, b)' = Parity(g, Slots) /\ RowParity(Slots \ {i}, b) = Parity(f, Slots \ {i})
    BY RowParityIs
  <2> HIDE DEF g, f
  <2>9. Parity(g, Slots \ {i}) = Parity(f, Slots \ {i})
    BY <2>7, ParityOfSame
  <2>10. g[i] \subseteq Bits
    BY <2>6, <2>7, RowIsBlock DEF Block
  <2>11. Parity(g, Slots) = SymDiff(Parity(g, Slots \ {i}), g[i])
    BY <2>10, ParityWithout
  <2>12. QED BY <2>6, <2>7, <2>8, <2>9, <2>11, SymDiffCancels
<1>3. QED BY <1>1, <1>2

\* Steps that leave the disks alone and repair no member.
LEMMA SameParity ==
  ASSUME ParityHolds, UNCHANGED <<content, disks, nblks>>,
         \A s \in Slots : Works(s)' => Works(s)
  PROVE  ParityHolds'
<1>1. FailedSlots' = {} => FailedSlots = {}
  BY DEF FailedSlots
<1>2. \A b : RowParity(Slots, b)' = RowParity(Slots, b)
  BY DEF RowParity, Parity
<1>3. QED BY <1>1, <1>2 DEF ParityHolds, Mounted

\* Every step keeps the rows zero.
LEMMA NextParity == Rebuildable => (IInv /\ [Next]_vars => ParityHolds')
<1> SUFFICES ASSUME Rebuildable, IInv, [Next]_vars PROVE ParityHolds'
  OBVIOUS
<1>1. ASSUME NEW ds \in [Slots -> Disks], Create(ds) PROVE ParityHolds'
  <2>1. CASE CreateRefused(ds)
    <3>1. UNCHANGED <<content, status, disks, nblks>>
      BY <2>1 DEF CreateRefused
    <3>2. QED BY <3>1, SameParity DEF IInv, Works
  <2>2. CASE raid4_create(ds)
    BY <2>2, CreateParity DEF IInv
  <2>3. QED BY <1>1, <2>1, <2>2 DEF Create
<1>2. CASE Request \/ raid4_read
  <2>1. UNCHANGED <<content, status, disks, nblks>>
    <3>1. CASE Request
      BY <3>1 DEF Request, read_begins, write_begins, Begins
    <3>2. CASE raid4_read
      BY <3>2, NextBlockReadable DEF raid4_read, BlockRead, IInv
    <3>3. QED BY <1>2, <3>1, <3>2
  <2>2. QED BY <2>1, SameParity DEF IInv, Works
<1>3. CASE raid4_write
  <2>1. Pending /\ last.op = "write" /\ StripingInv
    BY <1>3 DEF raid4_write, IInv
  <2>2. BlockWritten /\ WhichDisk(NextBlock) \in Slots
    BY <1>3, <2>1, RowsWritten, MembersSplit
  <2>3. UNCHANGED <<status, disks, nblks>> /\ FailedSlots' = FailedSlots
    BY <2>2 DEF BlockWritten, FailedSlots, Works
  <2>4. SUFFICES ASSUME Mounted, FailedSlots = {}, NEW b \in Rows
                 PROVE  RowParity(Slots, b)' = {}
    BY <2>3 DEF ParityHolds, Mounted, Rows
  <2>5. \A s \in Slots : Works(s)
    BY <2>4 DEF FailedSlots
  <2>6. RowParity(Slots, b)' = RowParity(Slots, b)
    BY <1>3, <2>1, <2>2, <2>5, WriteKeepsParity, MembersSplit
  <2>7. QED BY <2>4, <2>6 DEF IInv, ParityHolds, Rows
<1>4. ASSUME NEW i \in Slots, NEW new \in Disks, raid4_replace(i, new) PROVE ParityHolds'
  BY <1>4, ReplaceParity
<1>5. CASE raid4_close
  BY <1>5 DEF raid4_close, Unmounted, ParityHolds, Mounted
<1>6. ASSUME NEW d \in Disks, Fail(d) PROVE ParityHolds'
  <2>1. /\ UNCHANGED <<content, disks, nblks>> /\ status' = [status EXCEPT ![d] = "failed"]
        /\ status \in [Disks -> {"open", "failed", "closed"}]
    BY <1>6 DEF Fail, image_fail, volume, IInv, StripingInv, StripingTypeOK, ImagesTypeOK
  <2>2. \A e : status'[e] = "open" => status[e] = "open" \/ e \notin Disks
    BY <2>1
  <2>3. CASE Mounted
    <3>1. \A s \in Slots : disks[s] \in Disks
      BY <2>3 DEF IInv, StripingInv, StripingTypeOK
    <3>2. \A s \in Slots : Works(s)' => Works(s)
      BY <2>1, <2>2, <3>1 DEF Works
    <3>3. QED BY <2>1, <3>2, SameParity DEF IInv
  <2>4. CASE ~Mounted
    BY <2>1, <2>4 DEF ParityHolds, Mounted
  <2>5. QED BY <2>3, <2>4
<1>7. CASE UNCHANGED vars
  <2>1. UNCHANGED <<content, status, disks, nblks>>
    BY <1>7 DEF vars, volume
  <2>2. QED BY <2>1, SameParity DEF IInv, Works
<1>8. QED BY <1>1, <1>2, <1>3, <1>4, <1>5, <1>6, <1>7 DEF Next

\* Whenever all members work every row of blocks xors to zero, so whichever of
\* them fails next can be computed from the others: for as long as only data
\* disk 0 and the parity disk are ever replaced, even when others are down.
THEOREM ParityCorrect == Rebuildable => (Spec => []ParityHolds)
<1> SUFFICES ASSUME Rebuildable PROVE Spec => []ParityHolds
  OBVIOUS
<1>1. Init => ParityHolds
  BY DEF Init, StripingInit, ParityHolds, Mounted
<1>2. StripingInv /\ ParityHolds /\ [Next]_vars => ParityHolds'
  BY NextParity DEF IInv
<1>3. QED BY <1>1, <1>2, LatchNeverSet, PTL DEF Spec

-----------------------------------------------------------------------------
(* What is stored *)

\* Block l of the volume, read from the members that work.
Kept(l) == ReadBlock(WhichDisk(l), ActualBlock(l))

\* What the request that is served has read so far is what the client stored.
ReadSoFar ==
  Pending /\ last.op = "read" =>
    \A i \in 1..Len(buf) : buf[i] = Stored[last.first + i - 1]

\* If one member at most has failed, all others work.
LEMMA OthersWork ==
  ASSUME get_failed_count <= 1, NEW x \in Slots, ~Works(x)
  PROVE  \A s \in Slots \ {x} : Works(s)
<1>1. SUFFICES ASSUME NEW y \in Slots \ {x}, ~Works(y) PROVE FALSE
  OBVIOUS
<1>2. {x} \cup {y} \subseteq FailedSlots /\ IsFiniteSet(FailedSlots)
  BY <1>1, FailedFinite DEF FailedSlots
<1>3. Cardinality({x} \cup {y}) = 2
  <2>1. IsFiniteSet({x}) /\ Cardinality({x}) = 1 /\ y \notin {x}
    BY <1>1, FS_Singleton
  <2>2. Cardinality({x} \cup {y}) = Cardinality({x}) + 1
    BY <2>1, FS_AddElement
  <2>3. QED BY <2>1, <2>2
<1>4. get_failed_count >= 2 /\ get_failed_count \in Nat
  <2>1. Cardinality({x} \cup {y}) <= get_failed_count /\ get_failed_count \in Nat
    BY <1>2, FS_Subset, FailedFinite DEF get_failed_count
  <2>2. QED BY <1>3, <2>1
<1>5. QED BY <1>4

\* One block is written, and no other block of the volume changes, whether the
\* member that keeps it works, and whether the others do.
LEMMA OneBlockWritten ==
  ASSUME StripingInv, Pending, last.op = "write", raid4_write, NEW l \in 0..(nblks - 1)
  PROVE  Kept(l)' = IF l = NextBlock THEN Head(buf) ELSE Kept(l)
<1> DEFINE w == WhichDisk(NextBlock)
           a == ActualBlock(NextBlock)
           v == Head(buf)
           q == NewParity(w, a, v)
           u == WhichDisk(l)
           b == ActualBlock(l)
<1>1. StripingTypeOK /\ Mounted /\ NextBlock \in 0..(nblks - 1) /\ get_failed_count <= 1
  BY NextBlockInVolume, Raid4Assumption DEF StripingInv, StripingTypeOK
<1>2. /\ BlockWritten /\ w \in DataSlots /\ a \in Rows /\ v \in Block /\ q \in Block
      /\ \A s \in Slots, c \in Rows : content'[disks'[s]][c] =
                            IF c = a /\ s = w /\ Works(w) THEN v
                            ELSE IF c = a /\ s = ParitySlot /\ Works(ParitySlot) THEN q
                            ELSE content[disks[s]][c]
  BY RowsWritten
<1>3. UNCHANGED <<status, disks, nblks>> /\ \A s : Works(s)' <=> Works(s)
  BY <1>2 DEF BlockWritten, Works
<1>4. /\ u \in DataSlots /\ u \in Slots /\ w \in Slots /\ b \in Rows
      /\ u # ParitySlot /\ w # ParitySlot /\ ParitySlot \in Slots
  BY <1>1, <1>2, PlaceOnMembers, RowsOnMembers, MembersSplit
<1>5. l = NextBlock <=> u = w /\ b = a
  <2>1. l \in Nat /\ NextBlock \in Nat
    BY <1>1 DEF StripingTypeOK
  <2>2. QED BY <2>1, LbaOfPlace
<1>6. Kept(l)' = IF Works(u) THEN content'[disks'[u]][b] ELSE RowParity(Slots \ {u}, b)'
  BY <1>3 DEF Kept, ReadBlock, WhichDisk, ActualBlock
<1>7. Kept(l) = IF Works(u) THEN content[disks[u]][b] ELSE RowParity(Slots \ {u}, b)
  BY DEF Kept, ReadBlock
<1> HIDE DEF u, b
<1>8. CASE Works(u)
  BY <1>2, <1>4, <1>5, <1>6, <1>7, <1>8
<1>9. CASE ~Works(u) /\ u # w
  <2>1. Works(w) /\ Works(ParitySlot) /\ w \in Slots \ {u} /\ ParitySlot \in Slots \ {u}
        /\ Slots \ {u} \subseteq Slots
    BY <1>1, <1>4, <1>9, OthersWork
  <2>2. RowParity(Slots \ {u}, b)' = RowParity(Slots \ {u}, b)
    BY <1>4, <2>1, WriteKeepsParity
  <2>3. QED BY <1>5, <1>6, <1>7, <1>9, <2>2
<1>10. CASE ~Works(u) /\ u = w
  <2> DEFINE g == Row(b)'
             f == Row(b)
             R == Slots \ {u}
  <2>1. \A s \in R : Works(s)
    BY <1>1, <1>4, <1>10, OthersWork
  <2>2. /\ RowParity(R, b)' = Parity(g, R) /\ RowParity(R, b) = Parity(f, R)
        /\ R \ {ParitySlot} \subseteq Slots
        /\ RowParity(R \ {ParitySlot}, b) = Parity(f, R \ {ParitySlot})
    BY RowParityIs
  <2>3. \A s \in R : g[s] = content'[disks'[s]][b] /\ f[s] = content[disks[s]][b]
    BY DEF Row
  <2>4. q = SymDiff(v, RowParity(R \ {ParitySlot}, a))
    <3>1. {s \in DataSlots : Works(s)} = R \ {ParitySlot}
      BY <1>10, <2>1, MembersSplit
    <3>2. QED BY <1>10, <3>1 DEF NewParity
  <2> HIDE DEF g, f
  <2>5. CASE b = a
    <3>1. ParitySlot \in R /\ Works(ParitySlot) /\ R \subseteq Slots
      BY <1>4, <2>1
    <3>2. g[ParitySlot] = q /\ \A s \in R \ {ParitySlot} : g[s] = f[s]
      BY <1>2, <1>4, <1>10, <2>3, <2>5, <3>1
    <3>3. Parity(g, R \ {ParitySlot}) = Parity(f, R \ {ParitySlot})
      BY <3>2, ParityOfSame
    <3>4. g[ParitySlot] \subseteq Bits
      BY <1>2, <3>2 DEF Block
    <3>5. Parity(g, R) = SymDiff(Parity(g, R \ {ParitySlot}), g[ParitySlot])
      BY <3>1, <3>4, ParityWithout
    <3> HIDE DEF q, v
    <3>6. RowParity(R, b)' = v
      BY <2>2, <2>4, <2>5, <3>2, <3>3, <3>5, SymDiffCancels
    <3>7. QED BY <1>5, <1>6, <1>10, <2>5, <3>6 DEF v
  <2>6. CASE b # a
    <3>1. \A s \in R : g[s] = f[s]
      BY <1>2, <1>4, <2>3, <2>6
    <3>2. RowParity(R, b)' = RowParity(R, b)
      BY <2>2, <3>1, ParityOfSame
    <3>3. QED BY <1>5, <1>6, <1>7, <1>10, <2>6, <3>2
  <2>7. QED BY <2>5, <2>6
<1>11. QED BY <1>8, <1>9, <1>10

\* The blocks of a volume, and how many they are.
StoredTypeOK ==
  /\ Stored \in [0..(nblks - 1) -> Block]
  /\ DOMAIN Stored = 0..(nblks - 1) /\ Cardinality(DOMAIN Stored) = nblks

\* What is stored in a volume is well-formed.
LEMMA StoredBlocks == StripingInv => StoredTypeOK
<1> SUFFICES ASSUME StripingInv PROVE StoredTypeOK
  OBVIOUS
<1>1. nblks \in Nat /\ StripingTypeOK
  BY DEF StripingInv, StripingTypeOK
<1>2. ASSUME NEW l \in 0..(nblks - 1)
      PROVE  Stored[l] \in Block
  <2>1. CASE get_failed_count > Tolerates
    BY <2>1 DEF Stored, Block
  <2>2. CASE ~(get_failed_count > Tolerates) /\ l \in StillToWrite
    <3>1. /\ Pending /\ last.op = "write"
          /\ l \in NextBlock..(last.first + last.num - 1)
      BY <2>2 DEF StillToWrite
    <3>2. NextBlock = last.first + last.num - Len(buf) /\ NextBlock \in Int
      BY <1>1, <3>1, NextBlockInVolume
    <3>3. l - NextBlock + 1 \in 1..Len(buf)
      <4>1. /\ last.first \in Int /\ last.num \in Int /\ Len(buf) \in Nat
            /\ l \in NextBlock..(last.first + last.num - 1)
        BY <1>1, <3>1 DEF StripingTypeOK
      <4>2. l \in NextBlock..(NextBlock + Len(buf) - 1)
        BY <3>2, <4>1, SMTT(30)
      <4>3. QED BY <3>2, <4>1, <4>2, PlaceAmong, Zenon
    <3>4. buf[l - NextBlock + 1] \in Block
      BY <1>1, <3>3, SMTT(30) DEF StripingTypeOK
    <3>5. QED BY <2>2, <3>4 DEF Stored
  <2>3. CASE ~(get_failed_count > Tolerates) /\ l \notin StillToWrite
    <3>1. Mounted
      BY <1>1 DEF StripingTypeOK
    <3>2. WhichDisk(l) \in Slots /\ ActualBlock(l) \in Rows
      BY <1>1, <3>1, PlaceOnMembers, RowsOnMembers
    <3>3. Kept(l) \in Block
      BY <1>1, <3>1, <3>2, ReadIsBlock DEF Kept
    <3>4. QED BY <2>3, <3>3 DEF Stored, Kept
  <2>4. QED BY <2>1, <2>2, <2>3
<1>3. DOMAIN Stored = 0..(nblks - 1)
  BY DEF Stored
<1>4. Cardinality(0..(nblks - 1)) = nblks
  BY <1>1, FS_Interval
<1>5. Stored = [l \in 0..(nblks - 1) |-> Stored[l]]
  BY DEF Stored
<1>6. QED BY <1>2, <1>3, <1>4, <1>5 DEF StoredTypeOK

\* A step that changes neither the disks nor their state changes no block.
LEMMA SameKept ==
  ASSUME UNCHANGED <<content, status, disks>>
  PROVE  get_failed_count' = get_failed_count /\ \A l : Kept(l)' = Kept(l)
BY DEF get_failed_count, FailedSlots, Works, Kept, ReadBlock, RowParity, Parity, WhichDisk, ActualBlock

\* The request that is served meets no more failures than the volume survives.
LEMMA NotLost == StripingInv /\ Pending => ~(get_failed_count > Tolerates)
BY FailedFinite, StripingAssumption DEF StripingInv

\* How many members the client must do without.
Down == IF Mounted THEN get_failed_count ELSE 0

\* The operator of FiniteSets that Volume uses is the one used here.
LEMMA SameCardinality == \A S : Raid4View!Cardinality(S) = Cardinality(S)
BY DEF Raid4View!Cardinality, Cardinality

\* A volume is created, or refused, where there was none.
LEMMA CreateImplements ==
  ASSUME IInv, StripingInv', NEW ds \in [Slots -> Disks], Create(ds)
  PROVE  Raid4View!Create
<1>1. Stored = <<>> /\ Down = 0
  <2>1. ~Mounted /\ nblks = 0
    BY DEF Create, CreateRefused, raid4_create, stripe_create, MayCreate, IInv, StripingInv, StripingTypeOK
  <2>2. QED BY <2>1 DEF Stored, Down
<1>2. CASE CreateRefused(ds)
  <2>1. Stored' = <<>> /\ Down' = 0
    <3>1. ~Mounted' /\ nblks' = 0
      BY <1>2 DEF CreateRefused, MayCreate, IInv, StripingInv, StripingTypeOK, Mounted
    <3>2. QED BY <3>1 DEF Stored, Down
  <2>2. Admin("create", "NULL")
    BY <1>2 DEF CreateRefused
  <2>3. QED
    BY <1>1, <2>1, <2>2 DEF Raid4View!Create, Raid4View!Admin, Raid4View!Call, Admin, Call, Down
<1>3. CASE raid4_create(ds)
  <2>1. FailedSlots' = {}
    BY <1>3 DEF raid4_create, stripe_create, MayCreate, FailedSlots, Works
  <2>2. Down' = 0
    BY <2>1, FS_EmptySet DEF Down, get_failed_count
  <2>3. /\ Stored' \in [0..(nblks' - 1) -> Block]
        /\ DOMAIN Stored' = 0..(nblks' - 1) /\ Cardinality(DOMAIN Stored') = nblks'
    <3>1. StoredTypeOK'
      BY StoredBlocks, PTL
    <3>2. QED BY <3>1 DEF StoredTypeOK
  <2>4. \A l \in DOMAIN Stored' : Stored'[l] \subseteq Bits
    BY <2>3 DEF Block
  <2>5. Admin("create", "SUCCESS")
    BY <1>3 DEF raid4_create, stripe_create
  <2>6. QED
    BY <1>1, <2>2, <2>3, <2>4, <2>5, SameCardinality
    DEF Raid4View!Create, Raid4View!Admin, Raid4View!Call, Admin, Call, Down
<1>4. QED BY <1>2, <1>3 DEF Create

\* A request is refused for what Volume refuses it, and takes effect at once
\* for the client otherwise.
LEMMA BeginsImplements ==
  ASSUME IInv, NEW op \in {"read", "write"}, NEW first \in Int, NEW num \in Int,
         NEW data \in Seq(Block), Begins(op, first, num, data),
         op = "read" => data = <<>>, op = "write" => num = Len(data)
  PROVE  \/ Raid4View!Refuse(op, first, num, data)
         \/ op = "read" /\ Raid4View!ReadBegins(first, num)
         \/ op = "write" /\ Raid4View!Write(first, data)
<1> DEFINE st == Refusal(first, num)
<1>1. /\ Mounted /\ ~Pending /\ UNCHANGED <<content, status, disks, nblks, nbr_failed>>
      /\ last' = Call(op, first, num, st, data)
      /\ buf' = IF st = "PENDING" THEN data ELSE <<>>
  BY DEF Begins
<1>2. /\ Mounted' /\ get_failed_count' = get_failed_count
      /\ \A l : Kept(l)' = Kept(l)
  BY <1>1, SameKept DEF Mounted
<1>3. Down' = Down /\ Down = get_failed_count
  BY <1>1, <1>2 DEF Down
<1>4. /\ Pending' <=> st = "PENDING"
      /\ last'.op = op /\ last'.first = first /\ last'.num = num
  BY <1>1 DEF Pending, Call
<1>5. Raid4View!InRange(first, num) <=> ~(num <= 0 \/ first < 0 \/ first + num > nblks)
  <2>1. Raid4View!Size = nblks /\ nblks \in Nat
    BY StoredBlocks, SameCardinality DEF StoredTypeOK, Raid4View!Size, IInv, StripingInv, StripingTypeOK
  <2>2. QED BY <2>1 DEF Raid4View!InRange
<1>6. Raid4View!Lost <=> get_failed_count > Tolerates
  BY <1>3 DEF Raid4View!Lost, Down
<1>7. Stored = [l \in 0..(nblks - 1) |-> IF get_failed_count > Tolerates THEN {} ELSE Kept(l)]
  BY <1>1 DEF Stored, Kept, StillToWrite
<1>8. nbr_failed = 0
  BY DEF IInv, StripingInv
<1>9. CASE st # "PENDING"
  <2>1. Stored' = Stored
    BY <1>1, <1>2, <1>4, <1>7, <1>9 DEF Stored, Kept, StillToWrite
  <2>2. \/ ~Raid4View!InRange(first, num) /\ st = "E_SIZE"
        \/ Raid4View!InRange(first, num) /\ Raid4View!Lost /\ st = "E_UNAVAIL"
    BY <1>5, <1>6, <1>8, <1>9 DEF Refusal
  <2> HIDE DEF st
  <2>3. QED BY <1>1, <1>3, <2>1, <2>2 DEF Raid4View!Refuse, Raid4View!Call, Call, Down
<1>10. CASE st = "PENDING"
  <2>1. Raid4View!InRange(first, num) /\ ~Raid4View!Lost
    BY <1>5, <1>6, <1>8, <1>10 DEF Refusal
  <2>2. ~(get_failed_count > Tolerates)
    BY <2>1, <1>6
  <2>3. buf' = data
    BY <1>1, <1>10
  <2> HIDE DEF st
  <2>4. CASE op = "read"
    <3>1. Stored' = Stored
      BY <1>1, <1>2, <1>4, <1>7, <2>4 DEF Stored, Kept, StillToWrite
    <3>2. QED BY <1>1, <1>3, <1>10, <2>1, <2>4, <3>1
              DEF Raid4View!ReadBegins, Raid4View!Call, Call, Down
  <2>5. CASE op = "write"
    <3>1. NextBlock' = first /\ num = Len(data)
      BY <1>4, <2>3, <2>5 DEF NextBlock
    <3>2. StillToWrite' = first..(first + num - 1)
      BY <1>4, <1>10, <2>5, <3>1 DEF StillToWrite
    <3>3. Stored' = [l \in 0..(nblks - 1) |->
                       IF l \in first..(first + num - 1) THEN data[l - first + 1] ELSE Kept(l)]
      BY <1>1, <1>2, <2>2, <2>3, <3>1, <3>2 DEF Stored, Kept
    <3>4. Stored' = [l \in DOMAIN Stored |-> IF l \in first..(first + Len(data) - 1)
                                             THEN data[l - first + 1] ELSE Stored[l]]
      BY <1>7, <2>2, <3>1, <3>3
    <3>5. QED BY <1>1, <1>3, <1>10, <2>1, <2>5, <3>1, <3>4
              DEF Raid4View!Write, Raid4View!Call, Call, Down
  <2>6. QED BY <2>4, <2>5
<1>11. QED BY <1>9, <1>10

\* A block is read; with the last one the client gets what Volume promises.
LEMMA ReadImplements ==
  ASSUME IInv, ReadSoFar, raid4_read
  PROVE  /\ Raid4View!ReadReturns \/ UNCHANGED Raid4View!vars
         /\ ReadSoFar'
<1> DEFINE b == Kept(NextBlock)
<1>1. Pending /\ last.op = "read" /\ BlockRead(b)
  BY NextBlockReadable DEF raid4_read, Kept, IInv
<1>2. /\ UNCHANGED <<content, status, disks, nblks>> /\ StripingTypeOK
      /\ Mounted /\ Mounted' /\ ~(get_failed_count > Tolerates)
  BY <1>1, NotLost DEF BlockRead, IInv, StripingInv, StripingTypeOK, Mounted
<1>3. /\ Len(buf) \in Nat /\ buf \in Seq(Block)
      /\ last.first \in Int /\ last.num \in Int /\ nblks \in Nat
  BY <1>2 DEF StripingTypeOK
<1>4. NextBlock = last.first + Len(buf) /\ NextBlock \in 0..(nblks - 1)
      /\ NextBlock < last.first + last.num
  BY <1>1, <1>2, NextBlockInVolume
<1>5. Stored = [l \in 0..(nblks - 1) |-> Kept(l)]
  BY <1>1, <1>2 DEF Stored, Kept, StillToWrite
<1>6. last'.op = "read" /\ last'.first = last.first /\ last'.num = last.num
  BY <1>1, <1>2 DEF BlockRead, StripingTypeOK
<1>7. Stored' = Stored
  <2>1. get_failed_count' = get_failed_count /\ \A l : Kept(l)' = Kept(l)
    BY <1>2, SameKept
  <2>2. StillToWrite' = {}
    BY <1>6 DEF StillToWrite
  <2>3. QED BY <1>2, <1>5, <2>1, <2>2 DEF Stored, Kept
<1>8. Down' = Down /\ Down = get_failed_count
  BY <1>2, SameKept DEF Down
<1>9. \A i \in 1..(Len(buf) + 1) :
        Append(buf, b)[i] = Stored[last.first + i - 1]
  <2>1. b = Stored[last.first + (Len(buf) + 1) - 1]
    BY <1>3, <1>4, <1>5
  <2> HIDE DEF b
  <2>2. b \in Block
    BY <1>1, NextBlockReadable DEF b, Kept, IInv
  <2>3. QED BY <1>1, <1>3, <2>1, <2>2 DEF ReadSoFar
<1> HIDE DEF b
<1>10. CASE Len(buf) + 1 = last.num
  <2>1. last' = [last EXCEPT !.status = "SUCCESS", !.data = Append(buf, b)]
    BY <1>1, <1>10 DEF BlockRead
  <2>2. ~Pending'
    BY <1>2, <2>1 DEF Pending, StripingTypeOK
  <2>3. Append(buf, b) = [i \in 1..last.num |-> Stored[last.first + i - 1]]
    <3>1. b \in Block
      BY <1>1, NextBlockReadable DEF b, Kept, IInv
    <3>2. Append(buf, b) = [i \in 1..(Len(buf) + 1) |-> Append(buf, b)[i]]
      <4>1. Append(buf, b) \in Seq(Block) /\ Len(Append(buf, b)) = Len(buf) + 1
        BY <1>3, <3>1
      <4>2. QED BY <4>1, SequenceIsFunction
    <3>3. QED BY <1>9, <1>10, <3>2
  <2>4. last' = Call("read", last.first, last.num, "SUCCESS",
                     [i \in 1..last.num |-> Stored[last.first + i - 1]])
    <3>1. last = [op |-> last.op, first |-> last.first, num |-> last.num,
                  status |-> last.status, data |-> last.data]
      BY <1>2 DEF StripingTypeOK
    <3>2. last' = [op |-> last.op, first |-> last.first, num |-> last.num,
                   status |-> "SUCCESS", data |-> Append(buf, b)]
      BY <2>1, <3>1
    <3>3. QED BY <1>1, <2>3, <3>2 DEF Call
  <2>5. Raid4View!InRange(last.first, last.num) /\ ~Raid4View!Lost
    <3>1. Raid4View!Size = nblks
      BY StoredBlocks, SameCardinality DEF Raid4View!Size, StoredTypeOK, IInv
    <3>2. last.num > 0 /\ last.first >= 0 /\ last.first + last.num <= nblks
      BY <1>1, <1>2, <1>3, <1>10 DEF StripingTypeOK
    <3>3. QED BY <1>2, <1>8, <3>1, <3>2
              DEF Raid4View!InRange, Raid4View!Lost, Down
  <2>6. Raid4View!ReadReturns
    BY <1>1, <1>7, <1>8, <2>4, <2>5
       DEF Raid4View!ReadReturns, Raid4View!Read, Raid4View!Call, Call, Pending, Down
  <2>7. QED BY <2>2, <2>6 DEF ReadSoFar
<1>11. CASE Len(buf) + 1 # last.num
  <2>1. buf' = Append(buf, b) /\ last' = last /\ Len(buf') = Len(buf) + 1
    BY <1>1, <1>3, <1>11 DEF BlockRead
  <2>2. ReadSoFar'
    BY <1>7, <1>9, <2>1 DEF ReadSoFar
  <2>3. QED BY <1>7, <1>8, <2>1, <2>2 DEF Raid4View!vars, Down
<1>12. QED BY <1>10, <1>11

\* A block is written: the client does not see it, until the last one.
LEMMA WriteImplements ==
  ASSUME IInv, raid4_write
  PROVE  /\ Raid4View!WriteReturns \/ UNCHANGED Raid4View!vars
         /\ ReadSoFar'
<1>1. Pending /\ last.op = "write"
  BY DEF raid4_write
<1>2. /\ BlockWritten
      /\ \A l \in 0..(nblks - 1) : Kept(l)' = IF l = NextBlock THEN Head(buf) ELSE Kept(l)
  BY <1>1, OneBlockWritten DEF IInv, raid4_write
<1>3. /\ UNCHANGED <<status, disks, nblks>> /\ buf' = Tail(buf) /\ StripingTypeOK
      /\ Mounted /\ Mounted' /\ ~(get_failed_count > Tolerates)
      /\ get_failed_count' = get_failed_count
  BY <1>1, <1>2, NotLost
     DEF BlockWritten, IInv, StripingInv, StripingTypeOK, Mounted, get_failed_count,
         FailedSlots, Works
<1>4. /\ Len(buf) \in Nat /\ buf \in Seq(Block) /\ Len(buf) > 0 /\ Len(Tail(buf)) = Len(buf) - 1
      /\ last.first \in Int /\ last.num \in Int /\ nblks \in Nat
      /\ last.first >= 0 /\ last.first + last.num <= nblks /\ Len(buf) <= last.num
  BY <1>1, <1>3 DEF StripingTypeOK
<1>5. NextBlock = last.first + last.num - Len(buf) /\ NextBlock \in 0..(nblks - 1)
  BY <1>1, <1>3, NextBlockInVolume
<1>6. last' = IF Len(buf) = 1 THEN [last EXCEPT !.status = "SUCCESS"] ELSE last
  BY <1>2 DEF BlockWritten
<1>7. last'.op = "write" /\ last'.first = last.first /\ last'.num = last.num
      /\ (Pending' <=> Len(buf) # 1)
  BY <1>1, <1>3, <1>6 DEF StripingTypeOK, Pending
<1>8. StillToWrite = NextBlock..(last.first + last.num - 1)
  BY <1>1 DEF StillToWrite
<1>9. NextBlock' = NextBlock + 1
  BY <1>1, <1>3, <1>4, <1>7 DEF NextBlock
<1>10. StillToWrite' = (NextBlock + 1)..(last.first + last.num - 1)
  <2>1. CASE Len(buf) = 1
    <3>1. StillToWrite' = {}
      BY <1>7, <2>1 DEF StillToWrite
    <3>2. NextBlock + 1 > last.first + last.num - 1
      BY <1>4, <1>5, <2>1
    <3>3. QED BY <1>4, <1>5, <3>1, <3>2
  <2>2. CASE Len(buf) # 1
    BY <1>7, <1>9, <2>2 DEF StillToWrite
  <2>3. QED BY <2>1, <2>2
<1>11. ASSUME NEW l \in 0..(nblks - 1)
       PROVE  (IF l \in StillToWrite' THEN buf'[l - NextBlock' + 1] ELSE Kept(l)')
                = IF l \in StillToWrite THEN buf[l - NextBlock + 1] ELSE Kept(l)
  <2>1. CASE l = NextBlock
    <3>1. l \in StillToWrite /\ l \notin StillToWrite'
      BY <1>4, <1>5, <1>8, <1>10, <2>1, SMTT(30)
    <3>2. Kept(l)' = buf[1]
      BY <1>2, <1>4, <2>1
    <3>3. l - NextBlock + 1 = 1
      BY <1>4, <1>5, <2>1
    <3>4. QED BY <3>1, <3>2, <3>3
  <2>2. CASE l # NextBlock /\ l \in StillToWrite
    <3>1. l \in StillToWrite' /\ l - NextBlock \in 1..(Len(buf) - 1)
      <4>1. l \in Int /\ l >= NextBlock /\ l <= last.first + last.num - 1 /\ NextBlock \in Int
        BY <1>4, <1>5, <1>8, <2>2
      <4>2. l >= NextBlock + 1
        BY <2>2, <4>1
      <4>3. l \in StillToWrite'
        BY <1>4, <1>10, <4>1, <4>2
      <4>4. last.first + last.num - 1 = NextBlock + Len(buf) - 1
        BY <1>4, <1>5
      <4>5. l - NextBlock \in Int /\ l - NextBlock >= 1 /\ l - NextBlock <= Len(buf) - 1
        BY <1>4, <4>1, <4>2, <4>4
      <4>6. QED BY <1>4, <4>3, <4>5
    <3>2. l - NextBlock' + 1 = l - NextBlock
      BY <1>4, <1>5, <1>9
    <3>3. Tail(buf)[l - NextBlock] = buf[l - NextBlock + 1]
      BY <1>4, <3>1
    <3>4. QED BY <1>3, <2>2, <3>1, <3>2, <3>3
  <2>3. CASE l # NextBlock /\ l \notin StillToWrite
    <3>1. l \notin StillToWrite'
      BY <1>4, <1>5, <1>8, <1>10, <2>3
    <3>2. QED BY <1>2, <2>3, <3>1
  <2>4. QED BY <2>1, <2>2, <2>3
<1>12. Stored' = Stored
  BY <1>3, <1>11 DEF Stored, Kept
<1>13. Down' = Down
  BY <1>3 DEF Down
<1>14. ReadSoFar'
  BY <1>7 DEF ReadSoFar
<1>15. Raid4View!WriteReturns \/ UNCHANGED Raid4View!vars
  <2>1. CASE Len(buf) = 1
    BY <1>1, <1>6, <1>12, <1>13, <2>1 DEF Raid4View!WriteReturns, Pending, Down
  <2>2. CASE Len(buf) # 1
    BY <1>6, <1>12, <1>13, <2>2 DEF Raid4View!vars, Down
  <2>3. QED BY <2>1, <2>2
<1>16. QED BY <1>14, <1>15


\* A member is replaced while the others work: the blocks are what they were,
\* and fewer members are down.
LEMMA ReplaceImplements ==
  ASSUME IInv, Rebuildable, ~ReplaceLost, NEW i \in Slots, NEW new \in Disks,
         raid4_replace(i, new)
  PROVE  Raid4View!Replace /\ Stored' = Stored
<1>1. /\ Mounted /\ ~Pending /\ UNCHANGED <<status, nblks>> /\ status[new] = "open"
      /\ i \in {0, ParitySlot} /\ FailedSlots \subseteq {i} /\ StripingInv /\ StripingTypeOK
  BY DEF raid4_replace, Rebuildable, IInv, StripingInv
<1>2. get_failed_count <= 1 /\ get_failed_count \in Nat /\ ~(get_failed_count > Tolerates)
  <2>1. get_failed_count <= 1
    BY <1>1, ReplaceCanRebuild
  <2>2. get_failed_count \in Nat
    BY FailedFinite
  <2>3. QED BY <2>1, <2>2, Raid4Assumption
<1>3. ~Raid4View!Lost
  BY <1>1, <1>2 DEF Raid4View!Lost
<1>4. Stored = [l \in 0..(nblks - 1) |-> Kept(l)]
  BY <1>1, <1>2 DEF Stored, Kept, StillToWrite
<1>5. CASE disks' = disks
  <2>1. UNCHANGED <<content, status, disks, nblks>> /\ Admin("replace", "E_SIZE")
    BY <1>1, <1>5, ReplaceRefused
  <2>2. get_failed_count' = get_failed_count /\ \A l : Kept(l)' = Kept(l)
    BY <2>1, SameKept
  <2>3. ~Pending' /\ Mounted' = Mounted
    BY <2>1 DEF Admin, Call, Pending, Mounted
  <2>4. Stored' = Stored
    BY <1>2, <1>4, <2>1, <2>2, <2>3 DEF Stored, Kept, StillToWrite
  <2>5. Down' = Down
    BY <2>2, <2>3 DEF Down
  <2>6. QED BY <2>1, <2>4, <2>5
            DEF Raid4View!Replace, Raid4View!Admin, Raid4View!Call, Admin, Call, Down
<1>6. CASE disks' # disks
  <2>1. /\ Mounted' /\ Admin("replace", "SUCCESS") /\ disks' = [disks EXCEPT ![i] = new]
        /\ \A b \in Rows : CanRebuild(i) => content'[new][b] = Rebuilt(i, b)
        /\ \A s \in Slots \ {i} : disks'[s] = disks[s] /\ content'[disks[s]] = content[disks[s]]
    BY <1>1, <1>6, ReplaceEffect
  <2>2. disks'[i] = new
    BY <1>1, <2>1 DEF StripingTypeOK
  <2>3. \A s \in Slots : Works(s)'
    BY <1>1, <2>1, <2>2 DEF FailedSlots, Works
  <2>4. FailedSlots' = {} /\ get_failed_count' = 0
    <3>1. FailedSlots' = {}
      BY <2>3 DEF FailedSlots
    <3>2. QED BY <3>1, FS_EmptySet DEF get_failed_count
  <2>5. Down' <= Down
    BY <1>1, <1>2, <2>1, <2>4 DEF Down
  <2>6. ASSUME NEW l \in 0..(nblks - 1) PROVE Kept(l)' = Kept(l)
    <3> DEFINE u == WhichDisk(l)
               b == ActualBlock(l)
    <3>1. u \in DataSlots /\ u \in Slots /\ b \in Rows /\ u # ParitySlot
      BY <1>1, PlaceOnMembers, RowsOnMembers, MembersSplit
    <3>2. Kept(l)' = content'[disks'[u]][b]
      BY <2>3, <3>1 DEF Kept, ReadBlock, WhichDisk, ActualBlock
    <3>3. Kept(l) = ReadBlock(u, b)
      BY DEF Kept
    <3> HIDE DEF u, b
    <3>4. CASE u # i
      <4>1. Works(u)
        BY <1>1, <3>1, <3>4 DEF FailedSlots
      <4>2. QED BY <2>1, <3>1, <3>2, <3>3, <3>4, <4>1 DEF ReadBlock
    <3>5. CASE u = i
      <4>1. CanRebuild(i) /\ Rebuilt(i, b) = ReadBlock(i, b)
        BY <1>1, <3>1, <3>5, ReplaceCanRebuild
      <4>2. QED BY <2>1, <2>2, <3>1, <3>2, <3>3, <3>5, <4>1
    <3>6. QED BY <3>4, <3>5
  <2>7. ~Pending' /\ ~(0 > Tolerates)
    BY <2>1, StripingAssumption DEF Admin, Call, Pending
  <2>8. Stored' = Stored
    BY <1>1, <1>4, <2>4, <2>6, <2>7 DEF Stored, Kept, StillToWrite
  <2>9. QED BY <1>3, <2>1, <2>5, <2>8
            DEF Raid4View!Replace, Raid4View!Admin, Raid4View!Call, Admin, Call, Down
<1>7. QED BY <1>5, <1>6

\* The volume is dropped; its devices are not.
LEMMA CloseImplements == raid4_close => Raid4View!Close
<1> SUFFICES ASSUME raid4_close PROVE Raid4View!Close
  OBVIOUS
<1>1. ~Mounted' /\ nblks' = 0 /\ Admin("close", "SUCCESS")
  BY DEF raid4_close, Unmounted, Mounted
<1>2. Stored' = <<>> /\ Down' = 0
  BY <1>1 DEF Stored, Down
<1>3. QED
  BY <1>1, <1>2 DEF Raid4View!Close, Raid4View!Admin, Raid4View!Call, Admin, Call, Down

\* The first member that fails can be computed from the others, with the second
\* the blocks are lost, and other devices are not the volume's concern.
LEMMA FailImplements ==
  ASSUME IInv, NEW d \in Disks, Fail(d)
  PROVE  /\ Raid4View!MemberFails \/ UNCHANGED Raid4View!vars
         /\ Raid4View!Idle
<1>1. /\ ~Pending /\ UNCHANGED <<content, disks, nblks, nbr_failed, buf, last>>
      /\ Mounted' = Mounted /\ status' = [status EXCEPT ![d] = "failed"]
      /\ status \in [Disks -> {"open", "failed", "closed"}] /\ StripingTypeOK
  BY DEF Fail, image_fail, volume, IInv, StripingInv, StripingTypeOK, ImagesTypeOK, Mounted
<1>2. Raid4View!Idle /\ ~Pending'
  BY <1>1 DEF Raid4View!Idle, Pending
<1>3. CASE ~Mounted
  <2>1. nblks = 0 /\ nblks' = 0 /\ ~Mounted'
    BY <1>1, <1>3 DEF StripingTypeOK
  <2>2. QED BY <1>1, <1>2, <1>3, <2>1 DEF Stored, Down, Raid4View!vars
<1>4. Stored = [l \in 0..(nblks - 1) |-> IF get_failed_count > Tolerates THEN {} ELSE Kept(l)]
      /\ Stored' = [l \in 0..(nblks - 1) |->
                      IF get_failed_count' > Tolerates THEN {} ELSE Kept(l)']
  BY <1>1, <1>2 DEF Stored, Kept, StillToWrite
<1>5. \A l : Kept(l)' = IF Works(WhichDisk(l))' THEN content[disks[WhichDisk(l)]][ActualBlock(l)]
                           ELSE RowParity(Slots \ {WhichDisk(l)}, ActualBlock(l))
  BY <1>1 DEF Kept, ReadBlock, RowParity, Parity, WhichDisk, ActualBlock
<1>6. CASE Mounted /\ \A s \in Slots : ~(disks[s] = d /\ Works(s))
  <2>1. \A s \in Slots : Works(s)' <=> Works(s)
    BY <1>1, <1>6 DEF Works, StripingTypeOK
  <2>2. get_failed_count' = get_failed_count
    BY <2>1 DEF get_failed_count, FailedSlots
  <2>3. ASSUME NEW l \in 0..(nblks - 1) PROVE Kept(l)' = Kept(l)
    <3>1. WhichDisk(l) \in Slots
      BY <1>1, <1>6, PlaceOnMembers
    <3>2. QED BY <1>5, <2>1, <3>1 DEF Kept, ReadBlock
  <2>4. Stored' = Stored /\ Down' = Down
    BY <1>1, <1>4, <2>2, <2>3 DEF Down
  <2>5. QED BY <1>1, <1>2, <2>4 DEF Raid4View!vars, Down
<1>7. ASSUME Mounted, NEW s \in Slots, disks[s] = d, Works(s)
      PROVE  Raid4View!MemberFails
  <2>1. \A t \in Slots : Works(t)' <=> Works(t) /\ t # s
    BY <1>1, <1>7 DEF Works, StripingTypeOK
  <2>2. FailedSlots' = FailedSlots \cup {s} /\ s \notin FailedSlots
    BY <1>7, <2>1 DEF FailedSlots
  <2>3. get_failed_count' = get_failed_count + 1 /\ get_failed_count \in Nat
    BY <2>2, FailedFinite, FS_AddElement DEF get_failed_count
  <2>4. Down' = Down + 1 /\ Down' = get_failed_count + 1
    BY <1>1, <1>7, <2>3 DEF Down
  <2>5. CASE get_failed_count >= 1
    <3>1. get_failed_count' > Tolerates
      BY <2>3, <2>5, Raid4Assumption
    <3>2. Stored' = [l \in DOMAIN Stored |-> {}]
      BY <1>4, <3>1
    <3>3. QED BY <1>1, <2>3, <2>4, <3>1, <3>2 DEF Raid4View!MemberFails, Raid4View!Lost, Down
  <2>6. CASE get_failed_count = 0
    <3>1. ~(get_failed_count' > Tolerates) /\ ~(get_failed_count > Tolerates)
      BY <2>3, <2>6, Raid4Assumption
    <3>2. FailedSlots = {}
      BY <2>6, FailedFinite, FS_EmptySet DEF get_failed_count
    <3>3. ASSUME NEW l \in 0..(nblks - 1) PROVE Kept(l)' = Kept(l)
      <4>1. WhichDisk(l) \in Slots /\ ActualBlock(l) \in Rows
        BY <1>1, <1>7, PlaceOnMembers, RowsOnMembers
      <4>2. RowParity(Slots \ {WhichDisk(l)}, ActualBlock(l))
              = content[disks[WhichDisk(l)]][ActualBlock(l)]
        BY <1>1, <1>7, <3>2, <4>1, Redundancy DEF IInv
      <4>3. QED BY <1>5, <4>2 DEF Kept, ReadBlock
    <3>4. Stored' = Stored
      BY <1>4, <3>1, <3>3
    <3>5. QED BY <1>1, <2>3, <2>4, <3>1, <3>4 DEF Raid4View!MemberFails, Raid4View!Lost, Down
  <2>7. QED BY <2>3, <2>5, <2>6
<1>8. QED BY <1>2, <1>3, <1>6, <1>7

\* A step that changes neither disks nor request keeps what is stored.
LEMMA SameStored ==
  ASSUME UNCHANGED <<content, status, disks, nblks, buf, last>>
  PROVE  Stored' = Stored /\ get_failed_count' = get_failed_count /\ Mounted' = Mounted
<1>1. get_failed_count' = get_failed_count /\ \A l : Kept(l)' = Kept(l)
  BY SameKept
<1>2. StillToWrite' = StillToWrite /\ NextBlock' = NextBlock
  BY DEF StillToWrite, Pending, NextBlock
<1>3. QED BY <1>1, <1>2 DEF Stored, Kept, Mounted

\* Every step is one of Volume or none, and keeps what has been read.
LEMMA NextImplements ==
  ASSUME IInv, StripingInv', Rebuildable, ~ReplaceLost, ReadSoFar, [Next]_vars
  PROVE  [Raid4View!Next]_Raid4View!vars /\ ReadSoFar'
<1>0. StripingInv
  BY DEF IInv
<1>1. ASSUME NEW ds \in [Slots -> Disks], Create(ds)
      PROVE  Raid4View!Next /\ ReadSoFar'
  <2>1. Raid4View!Create
    BY <1>1, CreateImplements
  <2>2. ~Pending /\ ~Pending'
    <3>1. ~Mounted /\ (Admin("create", "NULL") \/ Admin("create", "SUCCESS"))
      BY <1>1 DEF Create, CreateRefused, raid4_create, stripe_create, MayCreate
    <3>2. ~Pending
      BY <1>0, <3>1 DEF StripingInv, StripingTypeOK
    <3>3. ~Pending'
      BY <3>1 DEF Admin, Call, Pending
    <3>4. QED BY <3>2, <3>3
  <2>3. QED BY <2>1, <2>2 DEF Raid4View!Next, Raid4View!Idle, Pending, ReadSoFar
<1>2. ASSUME NEW first \in -1..nblks, NEW num \in 0..MaxTransfer,
             \/ read_begins(first, num)
             \/ \E data \in [1..num -> Block] : write_begins(first, data)
      PROVE  Raid4View!Next /\ ReadSoFar'
  <2>1. first \in Int /\ num \in Int /\ ~Pending /\ num \in Nat
    BY <1>0, <1>2, StripingAssumption
       DEF read_begins, write_begins, Begins, StripingInv, StripingTypeOK
  <2>2. Raid4View!Idle
    BY <2>1 DEF Raid4View!Idle, Pending
  <2>3. first \in -1..Raid4View!Size
    <3>1. Raid4View!Size = nblks
      BY <1>0, StoredBlocks, SameCardinality DEF Raid4View!Size, StoredTypeOK
    <3>2. QED BY <3>1
  <2>4. CASE read_begins(first, num)
    <3>1. Begins("read", first, num, <<>>) /\ <<>> \in Seq(Block)
      BY <2>4 DEF read_begins
    <3>2. "read" \in {"read", "write"} /\ "read" # "write"
      OBVIOUS
    <3>3. \/ Raid4View!Refuse("read", first, num, <<>>)
          \/ Raid4View!ReadBegins(first, num)
      BY <2>1, <3>1, <3>2, BeginsImplements
    <3>4. Raid4View!Request(first, num)
      BY <3>3 DEF Raid4View!Request
    <3>5. buf' = <<>>
      BY <3>1 DEF Begins
    <3>6. ReadSoFar'
      BY <3>5 DEF ReadSoFar
    <3>7. QED BY <2>2, <2>3, <3>4, <3>6 DEF Raid4View!Next
  <2>5. ASSUME NEW data \in [1..num -> Block], write_begins(first, data)
        PROVE  Raid4View!Next /\ ReadSoFar'
    <3>1. data \in Seq(Block) /\ Len(data) = num /\ data \in [1..num -> SUBSET Bits]
      BY <2>1 DEF Block
    <3>2. Begins("write", first, num, data)
      BY <2>5, <3>1 DEF write_begins
    <3>3. "write" \in {"read", "write"} /\ "read" # "write"
      OBVIOUS
    <3>4. \/ Raid4View!Refuse("write", first, num, data)
          \/ Raid4View!Write(first, data)
      BY <2>1, <3>1, <3>2, <3>3, BeginsImplements
    <3>5. Raid4View!Request(first, num)
      BY <3>1, <3>4 DEF Raid4View!Request
    <3>6. last'.op = "write"
      BY <3>2 DEF Begins, Call
    <3>7. ReadSoFar'
      BY <3>6 DEF ReadSoFar
    <3>8. QED BY <2>2, <2>3, <3>5, <3>7 DEF Raid4View!Next
  <2>6. QED BY <1>2, <2>4, <2>5
<1>3. CASE raid4_read
  BY <1>3, ReadImplements DEF Raid4View!Next
<1>4. CASE raid4_write
  BY <1>4, WriteImplements DEF Raid4View!Next
<1>5. ASSUME NEW i \in Slots, NEW new \in Disks, raid4_replace(i, new)
      PROVE  Raid4View!Next /\ ReadSoFar'
  <2>1. Raid4View!Replace
    BY <1>5, ReplaceImplements
  <2>2. ~Pending /\ ~Pending'
    BY <1>5 DEF raid4_replace, Admin, Call, Pending
  <2>3. QED BY <2>1, <2>2 DEF Raid4View!Next, Raid4View!Idle, Pending, ReadSoFar
<1>6. CASE raid4_close
  <2>1. Raid4View!Close
    BY <1>6, CloseImplements
  <2>2. ~Pending /\ ~Pending'
    BY <1>6 DEF raid4_close, Admin, Call, Pending
  <2>3. QED BY <2>1, <2>2 DEF Raid4View!Next, Raid4View!Idle, Pending, ReadSoFar
<1>7. ASSUME NEW d \in Disks, Fail(d)
      PROVE  [Raid4View!Next]_Raid4View!vars /\ ReadSoFar'
  <2>1. /\ Raid4View!MemberFails \/ UNCHANGED Raid4View!vars
        /\ Raid4View!Idle
    BY <1>7, FailImplements
  <2>2. ~Pending'
    BY <1>7 DEF Fail, volume, Pending
  <2>3. QED BY <2>1, <2>2 DEF Raid4View!Next, ReadSoFar
<1>8. CASE UNCHANGED vars
  <2>1. UNCHANGED <<content, status, disks, nblks, buf, last>>
    BY <1>8 DEF vars, volume
  <2>2. Stored' = Stored /\ Down' = Down
    BY <2>1, SameStored DEF Down
  <2>3. QED BY <2>1, <2>2 DEF Raid4View!vars, Down, ReadSoFar, Pending
<1>9. QED BY <1>1, <1>2, <1>3, <1>4, <1>5, <1>6, <1>7, <1>8 DEF Next, Request

\* The RAID 4 volume (homework.c: raid4_create, raid4_read, raid4_write,
\* raid4_replace, raid4_close) keeps the promise of blkdev.h for every number of
\* disks and stripe size: it reads back what was written, with one failed member
\* or none, before and after the member is replaced.  The client replaces only
\* disk 0 or the parity disk, and only while the others work: what homework.c:632
\* writes on any other replaced disk is not what that disk held.
THEOREM Implements == Rebuildable /\ ~ReplaceLost => (Spec => ImplementsVolume)
<1> SUFFICES ASSUME Rebuildable, ~ReplaceLost PROVE Spec => ImplementsVolume
  OBVIOUS
<1>1. Init => Raid4View!Init /\ ReadSoFar
  BY DEF Init, StripingInit, Raid4View!Init, Raid4View!Call, Call, Stored, Mounted,
         ReadSoFar, Pending
<1>2. StripingInv /\ StripingInv' /\ ParityHolds /\ ReadSoFar /\ [Next]_vars
        => [Raid4View!Next]_Raid4View!vars /\ ReadSoFar'
  BY NextImplements DEF IInv
<1>3. Spec => []ParityHolds
  BY ParityCorrect
<1>4. QED BY <1>1, <1>2, <1>3, LatchNeverSet, PTL DEF Spec, ImplementsVolume, Raid4View!Spec

\* Replacing a member changes no block of the volume (homework.c: raid4_replace),
\* under the same conditions.
THEOREM ReplaceTransparent ==
  Rebuildable /\ ~ReplaceLost => (Spec => ReplaceKeepsContents)
<1> SUFFICES ASSUME Rebuildable, ~ReplaceLost PROVE Spec => ReplaceKeepsContents
  OBVIOUS
<1>1. StripingInv /\ ParityHolds /\ [Next]_vars
        => [Mounted /\ Mounted' /\ disks' # disks => Stored' = Stored]_vars
  <2> SUFFICES ASSUME StripingInv, ParityHolds, Next, Mounted, Mounted', disks' # disks
               PROVE  Stored' = Stored
    OBVIOUS
  <2>1. ASSUME NEW ds \in [Slots -> Disks], Create(ds) PROVE FALSE
    BY <2>1 DEF Create, CreateRefused, raid4_create, stripe_create, MayCreate
  <2>2. ~Request /\ ~raid4_read /\ ~raid4_write
    BY DEF Request, read_begins, write_begins, Begins, raid4_read, BlockRead, BlockFailed,
           raid4_write, BlockWritten
  <2>3. ~raid4_close
    BY DEF raid4_close, Unmounted, Mounted
  <2>4. ASSUME NEW d \in Disks, Fail(d) PROVE FALSE
    BY <2>4 DEF Fail, volume
  <2>5. PICK i \in Slots, new \in Disks : raid4_replace(i, new)
    BY <2>1, <2>2, <2>3, <2>4 DEF Next
  <2>6. QED BY <2>5, ReplaceImplements DEF IInv
<1>2. Spec => []ParityHolds
  BY ParityCorrect
<1>3. QED BY <1>1, <1>2, LatchNeverSet, PTL DEF Spec, ReplaceKeepsContents
=============================================================================
