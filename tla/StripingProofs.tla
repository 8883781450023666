--------------------------- MODULE StripingProofs ---------------------------
(***************************************************************************)
(* What the striped volume and the RAID 4 volume have in common, for every *)
(* number of disks, stripe size, disk size and block: the address          *)
(* arithmetic is one to one and stays within the disks, and the recursion  *)
(* that serves a request never meets a failed block.                       *)
(***************************************************************************)
EXTENDS Striping, FiniteSetTheorems, TLAPS

-----------------------------------------------------------------------------
(* Division with remainder *)

\* \div and % are the quotient and the remainder.
LEMMA DivMod ==
  ASSUME NEW a \in Nat, NEW b \in Nat \ {0}
  PROVE  a \div b \in Nat /\ a % b \in 0..(b - 1) /\ a = b * (a \div b) + (a % b)
OBVIOUS

\* A smaller factor leaves room for one more.
LEMMA ProductGrows ==
  ASSUME NEW b \in Nat, NEW p \in Nat, NEW q \in Nat, q < p
  PROVE  b * q + b <= b * p
OBVIOUS

\* A number is divided in one way only.
LEMMA DivisionUnique ==
  ASSUME NEW b \in Nat \ {0}, NEW p \in Nat, NEW q \in Nat,
         NEW r \in 0..(b - 1), NEW s \in 0..(b - 1), b * p + r = b * q + s
  PROVE  p = q /\ r = s
<1>1. ~(p < q) BY ProductGrows
<1>2. ~(q < p) BY ProductGrows
<1>3. QED BY <1>1, <1>2

\* What is put together is taken apart again.
LEMMA DivisionOf ==
  ASSUME NEW b \in Nat \ {0}, NEW p \in Nat, NEW r \in 0..(b - 1)
  PROVE  (b * p + r) \div b = p /\ (b * p + r) % b = r
<1>1. b * p + r \in Nat
  OBVIOUS
<1>2. QED BY <1>1, DivMod, DivisionUnique

\* A number below k times b is in one of the first k parts.
LEMMA QuotientBelow ==
  ASSUME NEW a \in Nat, NEW b \in Nat \ {0}, NEW k \in Nat, a < k * b
  PROVE  a \div b < k
<1>1. a \div b \in Nat /\ a % b \in 0..(b - 1) /\ a = b * (a \div b) + (a % b)
  BY DivMod
<1>2. SUFFICES ASSUME k <= a \div b PROVE FALSE
  BY <1>1
<1>3. k = a \div b \/ k < a \div b
  BY <1>1, <1>2
<1>4. b * k <= b * (a \div b)
  BY <1>1, <1>3, ProductGrows
<1>5. QED BY <1>4, <1>1

-----------------------------------------------------------------------------
(* The address arithmetic *)

\* The volume's block that is kept in block b of data disk w.
Lba(w, b) == (b \div Unit) * StripeWidth + (w * Unit + (b % Unit))

\* A stripe has blocks.
LEMMA WidthPositive == StripeWidth \in Nat \ {0}
BY StripingAssumption DEF StripeWidth

\* Every block of the volume is on a data disk.
LEMMA PlaceType ==
  ASSUME NEW l \in Nat
  PROVE  WhichDisk(l) \in DataSlots /\ ActualBlock(l) \in Nat
<1>1. (l % StripeWidth) \in 0..(StripeWidth - 1) /\ l \div StripeWidth \in Nat
  BY DivMod, WidthPositive
<1>2. (l % StripeWidth) \in Nat /\ (l % StripeWidth) < DataDisks * Unit
  BY <1>1, WidthPositive DEF StripeWidth
<1>3. WhichDisk(l) < DataDisks /\ WhichDisk(l) \in Nat
  <2>1. DataDisks \in Nat /\ Unit \in Nat \ {0}
    BY StripingAssumption
  <2>2. QED BY <1>2, <2>1, QuotientBelow, DivMod DEF WhichDisk
<1>4. (l % StripeWidth) % Unit \in Nat
  BY <1>2, DivMod, StripingAssumption
<1>5. ActualBlock(l) \in Nat
  BY <1>1, <1>4, StripingAssumption DEF ActualBlock
<1>6. QED BY <1>3, <1>5, StripingAssumption DEF DataSlots

\* The first k stripes are in the first k units of the disks.
LEMMA PlaceBound ==
  ASSUME NEW k \in Nat, NEW l \in Nat, l < k * StripeWidth
  PROVE  ActualBlock(l) < k * Unit
<1> DEFINE q == l \div StripeWidth
           r == (l % StripeWidth) % Unit
<1>1. q \in Nat /\ q < k
  BY WidthPositive, DivMod, QuotientBelow
<1>2. r \in 0..(Unit - 1)
  BY DivMod, WidthPositive, StripingAssumption
<1>3. Unit * q + Unit <= Unit * k
  BY <1>1, ProductGrows, StripingAssumption
<1>4. ActualBlock(l) = q * Unit + r
  BY DEF ActualBlock
<1> HIDE DEF q, r
<1>5. QED BY <1>1, <1>2, <1>3, <1>4, StripingAssumption

\* Block b of data disk w keeps exactly one block of the volume: Lba(w, b).
LEMMA PlaceOfLba ==
  ASSUME NEW w \in DataSlots, NEW b \in Nat
  PROVE  Lba(w, b) \in Nat /\ WhichDisk(Lba(w, b)) = w /\ ActualBlock(Lba(w, b)) = b
<1> DEFINE q == b \div Unit
           r == b % Unit
           o == w * Unit + r
<1>1. q \in Nat /\ r \in 0..(Unit - 1) /\ b = Unit * q + r
  BY DivMod, StripingAssumption
<1>2. w \in Nat /\ w < DataDisks
  BY StripingAssumption DEF DataSlots
<1>3. Unit * w + Unit <= Unit * DataDisks
  BY <1>2, ProductGrows, StripingAssumption
<1> HIDE DEF q, r
<1>4. o \in 0..(StripeWidth - 1)
  BY <1>1, <1>2, <1>3, StripingAssumption DEF StripeWidth
<1>5. Lba(w, b) = StripeWidth * q + o
  BY <1>1, <1>4, WidthPositive DEF Lba, q, r
<1>6. o \div Unit = w /\ o % Unit = r
  <2>1. o = Unit * w + r
    BY <1>1, <1>2, StripingAssumption
  <2>2. QED BY <2>1, <1>1, <1>2, DivisionOf, StripingAssumption
<1> HIDE DEF o
<1>7. Lba(w, b) \div StripeWidth = q /\ Lba(w, b) % StripeWidth = o
  BY <1>1, <1>4, <1>5, DivisionOf, WidthPositive
<1>8. WhichDisk(Lba(w, b)) = w
  BY <1>6, <1>7 DEF WhichDisk
<1>9. ActualBlock(Lba(w, b)) = q * Unit + r
  BY <1>6, <1>7 DEF ActualBlock
<1>10. QED BY <1>1, <1>4, <1>5, <1>8, <1>9, WidthPositive, StripingAssumption

\* The place of a block determines it.
LEMMA LbaOfPlace ==
  ASSUME NEW l \in Nat
  PROVE  l = Lba(WhichDisk(l), ActualBlock(l))
<1> DEFINE q == l \div StripeWidth
           o == l % StripeWidth
           w == o \div Unit
           r == o % Unit
<1>1. q \in Nat /\ o \in 0..(StripeWidth - 1) /\ l = StripeWidth * q + o
  BY DivMod, WidthPositive
<1> HIDE DEF q, o
<1>2. w \in Nat /\ r \in 0..(Unit - 1) /\ o = Unit * w + r
  <2>1. o \in Nat
    BY <1>1, WidthPositive
  <2>2. QED BY <2>1, DivMod, StripingAssumption
<1>3. WhichDisk(l) = w
  BY DEF WhichDisk, q, o
<1>4. ActualBlock(l) = q * Unit + r
  BY DEF ActualBlock, q, o
<1> HIDE DEF w, r
<1>5. ActualBlock(l) = Unit * q + r
  BY <1>1, <1>2, <1>4, StripingAssumption
<1>6. ActualBlock(l) \div Unit = q /\ ActualBlock(l) % Unit = r
  BY <1>5, <1>1, <1>2, DivisionOf, StripingAssumption
<1>7. Lba(WhichDisk(l), ActualBlock(l)) = q * StripeWidth + (w * Unit + r)
  BY <1>6, <1>3 DEF Lba
<1>8. QED BY <1>1, <1>2, <1>7, WidthPositive, StripingAssumption

\* The blocks of the first k units of the data disks are in the first k stripes.
LEMMA LbaBound ==
  ASSUME NEW k \in Nat, NEW w \in DataSlots, NEW b \in Nat, b < k * Unit
  PROVE  Lba(w, b) < k * StripeWidth
<1> DEFINE q == b \div Unit
           r == b % Unit
<1>1. q \in Nat /\ r \in 0..(Unit - 1) /\ q < k
  BY DivMod, QuotientBelow, StripingAssumption
<1>2. w \in Nat /\ w < DataDisks
  BY StripingAssumption DEF DataSlots
<1>3. Unit * w + Unit <= Unit * DataDisks
  BY <1>2, ProductGrows, StripingAssumption
<1>4. StripeWidth * q + StripeWidth <= StripeWidth * k
  BY <1>1, ProductGrows, WidthPositive
<1>5. Lba(w, b) = q * StripeWidth + (w * Unit + r)
  BY DEF Lba
<1> HIDE DEF q, r
<1>6. w * Unit + r < StripeWidth /\ w * Unit + r \in Nat
  BY <1>1, <1>2, <1>3, StripingAssumption DEF StripeWidth
<1>7. QED BY <1>1, <1>4, <1>5, <1>6, WidthPositive

\* The part of a disk that is used is a number of whole units.
LEMMA UsedUnits ==
  ASSUME NEW n \in Nat
  PROVE  /\ n \div Unit \in Nat
         /\ Used(n) = (n \div Unit) * Unit /\ Used(n) \in 0..n
         /\ Used(n) * DataDisks = (n \div Unit) * StripeWidth
<1> DEFINE q == n \div Unit
<1>1. q \in Nat /\ n % Unit \in 0..(Unit - 1) /\ n = Unit * q + (n % Unit)
  BY DivMod, StripingAssumption
<1>2. Used(n) = q * Unit
  BY DEF Used
<1> HIDE DEF q
<1>3. (q * Unit) * DataDisks = q * StripeWidth
  BY <1>1, StripingAssumption DEF StripeWidth
<1>4. q * Unit \in 0..n
  BY <1>1, StripingAssumption
<1>5. QED BY <1>1, <1>2, <1>3, <1>4 DEF q

\* The blocks of the volume, divided by the data disks, are whole units.
LEMMA UnitsPerDisk ==
  ASSUME NEW k \in Nat
  PROVE  (k * StripeWidth) \div DataDisks = k * Unit
<1>1. DataDisks \in Nat \ {0} /\ Unit \in Nat /\ 0 \in 0..(DataDisks - 1) /\ k * Unit \in Nat
  BY StripingAssumption
<1>2. k * StripeWidth = DataDisks * (k * Unit) + 0
  BY <1>1 DEF StripeWidth
<1>3. QED BY <1>1, <1>2, DivisionOf

\* The address arithmetic (homework.c: whichDisk, actualBlock) puts no two
\* blocks of the volume in one place and none outside the whole stripes of its
\* disk, and leaves none of those blocks unused, whatever the geometry.
THEOREM PlacementCorrect == \A n \in Nat : Placement(n)
<1> SUFFICES ASSUME NEW n \in Nat PROVE Placement(n)
  OBVIOUS
<1> DEFINE k == n \div Unit
           lbas == 0..(Used(n) * DataDisks - 1)
           place(l) == <<WhichDisk(l), ActualBlock(l)>>
<1>1. k \in Nat /\ Used(n) = k * Unit /\ Used(n) * DataDisks = k * StripeWidth
  BY UsedUnits
<1> HIDE DEF k
<1>2. ASSUME NEW l \in lbas PROVE l \in Nat /\ l < k * StripeWidth
  BY <1>1, WidthPositive
<1>3. ASSUME NEW l \in lbas, NEW m \in lbas, place(l) = place(m)
      PROVE  l = m
  <2>1. WhichDisk(l) = WhichDisk(m) /\ ActualBlock(l) = ActualBlock(m)
    BY <1>3
  <2>2. l = Lba(WhichDisk(l), ActualBlock(l)) /\ m = Lba(WhichDisk(m), ActualBlock(m))
    BY <1>2, LbaOfPlace
  <2>3. QED BY <2>1, <2>2
<1>4. ASSUME NEW l \in lbas
      PROVE  place(l) \in DataSlots \X (0..(Used(n) - 1))
  BY <1>1, <1>2, PlaceType, PlaceBound, StripingAssumption
<1>5. ASSUME NEW w \in DataSlots, NEW b \in 0..(Used(n) - 1)
      PROVE  \E l \in lbas : place(l) = <<w, b>>
  <2>1. b \in Nat /\ b < k * Unit
    BY <1>1, StripingAssumption
  <2>2. Lba(w, b) \in Nat /\ place(Lba(w, b)) = <<w, b>>
    BY <2>1, PlaceOfLba
  <2>3. Lba(w, b) \in lbas
    BY <1>1, <2>1, <2>2, LbaBound, WidthPositive
  <2>4. QED BY <2>2, <2>3
<1> HIDE DEF lbas
<1>6. {place(l) : l \in lbas} = DataSlots \X (0..(Used(n) - 1))
  BY <1>4, <1>5
<1>7. QED BY <1>3, <1>6 DEF Placement, lbas

-----------------------------------------------------------------------------
(* The invariant of the recursion *)

\* While a request is served no more members have failed than it may meet: the
\* request was refused otherwise, and no member fails inside it.
StripingInv ==
  /\ StripingTypeOK /\ nbr_failed = 0
  /\ Pending => get_failed_count <= Tolerates

\* Contents, device by device.
LEMMA ContentsOfDisks ==
  ASSUME NEW c
  PROVE  c \in Contents <=> /\ c = [d \in Disks |-> c[d]]
                            /\ \A d \in Disks : c[d] \in [Blocks(d) -> Block]
<1>1. ASSUME c \in Contents, NEW d \in Disks
      PROVE  c[d] \in [Blocks(d) -> Block]
  <2>1. DOMAIN c[d] = Blocks(d)
    BY <1>1 DEF Contents
  <2>2. PICK e \in Disks : c[d] \in [Blocks(e) -> Block]
    BY <1>1 DEF Contents
  <2>3. QED BY <2>1, <2>2
<1>2. ASSUME c \in Contents PROVE c = [d \in Disks |-> c[d]]
  BY <1>2 DEF Contents
<1>3. ASSUME c = [d \in Disks |-> c[d]], \A d \in Disks : c[d] \in [Blocks(d) -> Block]
      PROVE  c \in Contents
  BY <1>3 DEF Contents
<1>4. QED BY <1>1, <1>2, <1>3

\* A sequence is the function on its indices.
LEMMA SequenceIsFunction ==
  ASSUME NEW S, NEW s \in Seq(S)
  PROVE  s = [i \in 1..Len(s) |-> s[i]]
OBVIOUS

\* Sets of members have a size.
LEMMA MembersFinite ==
  \A S \in SUBSET Slots : IsFiniteSet(S) /\ Cardinality(S) \in Nat
<1>1. IsFiniteSet(Slots)
  BY StripingAssumption, FS_Interval DEF Slots
<1>2. QED BY <1>1, FS_Subset, FS_CardinalityType

\* The number of failed members is a number.
LEMMA FailedFinite ==
  FailedSlots \subseteq Slots /\ IsFiniteSet(FailedSlots) /\ get_failed_count \in Nat
<1>1. FailedSlots \subseteq Slots
  BY DEF FailedSlots
<1>2. QED BY <1>1, MembersFinite DEF get_failed_count

\* The place of a block is on a member, and inside of all of them.
LEMMA PlaceOnMembers ==
  ASSUME StripingTypeOK, Mounted, NEW l \in 0..(nblks - 1)
  PROVE  /\ WhichDisk(l) \in DataSlots /\ WhichDisk(l) \in Slots
         /\ \A s \in Slots : /\ disks[s] \in Disks
                             /\ ActualBlock(l) \in Blocks(disks[s])
                             /\ content[disks[s]][ActualBlock(l)] \in Block
<1>1. PICK k \in 0..nblks : /\ nblks = k * StripeWidth
                            /\ \A s \in Slots : k * Unit <= NumBlocks[disks[s]]
  BY DEF StripingTypeOK
<1>2. nblks \in Nat /\ k \in Nat /\ l \in Nat /\ l < k * StripeWidth
  BY <1>1 DEF StripingTypeOK
<1>3. WhichDisk(l) \in DataSlots /\ ActualBlock(l) \in Nat
  BY <1>2, PlaceType
<1>4. ActualBlock(l) < k * Unit
  BY <1>2, PlaceBound
<1>5. ASSUME NEW s \in Slots
      PROVE  /\ disks[s] \in Disks /\ ActualBlock(l) \in Blocks(disks[s])
             /\ content[disks[s]][ActualBlock(l)] \in Block
  <2>1. disks[s] \in Disks /\ NumBlocks[disks[s]] \in Nat
    BY ImagesAssumption DEF StripingTypeOK
  <2>2. ActualBlock(l) \in Blocks(disks[s])
    BY <1>1, <1>2, <1>3, <1>4, <2>1, StripingAssumption DEF Blocks
  <2>3. content[disks[s]] \in [Blocks(disks[s]) -> Block]
    BY <2>1, ContentsOfDisks DEF StripingTypeOK, ImagesTypeOK
  <2>4. QED BY <2>1, <2>2, <2>3
<1>6. QED BY <1>3, <1>5, StripingAssumption DEF DataSlots, Slots

\* Two blocks of the volume are not in one place.
LEMMA PlacesDiffer ==
  ASSUME StripingTypeOK, Mounted, NEW l \in 0..(nblks - 1), NEW m \in 0..(nblks - 1),
         disks[WhichDisk(l)] = disks[WhichDisk(m)], ActualBlock(l) = ActualBlock(m)
  PROVE  l = m
<1>1. l \in Nat /\ m \in Nat
  BY DEF StripingTypeOK
<1>2. WhichDisk(l) = WhichDisk(m)
  BY PlaceOnMembers DEF StripingTypeOK
<1>3. QED BY <1>1, <1>2, LbaOfPlace

\* The place of a number among n consecutive ones, counted from one.
LEMMA PlaceAmong ==
  ASSUME NEW b \in Int, NEW n \in Nat, NEW i \in b..(b + n - 1)
  PROVE  i - b + 1 \in 1..n
OBVIOUS

\* The block that is served next is in the volume.
LEMMA NextBlockInVolume ==
  ASSUME StripingTypeOK, Pending
  PROVE  /\ NextBlock \in 0..(nblks - 1) /\ NextBlock < last.first + last.num
         /\ last.op = "read" => NextBlock = last.first + Len(buf)
         /\ last.op = "write" => /\ NextBlock = last.first + last.num - Len(buf)
                                 /\ Len(buf) > 0
<1>1. last.first \in Int /\ last.num \in Int /\ Len(buf) \in Nat /\ nblks \in Nat
  BY DEF StripingTypeOK
<1>2. last.first >= 0 /\ last.first + last.num <= nblks
  BY DEF StripingTypeOK
<1>3. \/ last.op = "read" /\ Len(buf) < last.num
      \/ last.op = "write" /\ Len(buf) \in 1..last.num
  BY DEF StripingTypeOK
<1>4. QED BY <1>1, <1>2, <1>3 DEF NextBlock

\* A volume is created empty-handed: no request is served.
LEMMA CreateInv ==
  ASSUME StripingInv, NEW ds \in [Slots -> Disks], content' \in Contents,
         stripe_create(ds)
  PROVE  StripingInv'
<1> USE DEF stripe_create, Admin, Call
<1>1. ImagesTypeOK'
  BY DEF StripingInv, StripingTypeOK, ImagesTypeOK
<1>2. ~Pending'
  BY DEF Pending
<1>3. 0 \in Slots
  BY StripingAssumption DEF Slots
<1> DEFINE n == NumBlocks[ds[0]]
           k == n \div Unit
<1>4. n \in Nat /\ \A s \in Slots : NumBlocks[ds[s]] = n
  BY <1>3, ImagesAssumption DEF SameSize
<1> HIDE DEF n
<1>5. k \in Nat /\ Used(n) \in 0..n /\ Used(n) = k * Unit
      /\ Used(n) * DataDisks = k * StripeWidth
  BY <1>4, UsedUnits
<1> HIDE DEF k
<1>6. nblks' = k * StripeWidth
  BY <1>5 DEF n
<1>7. nblks' \in Nat /\ k \in 0..nblks'
  BY <1>5, <1>6, WidthPositive
<1>8. \A s \in Slots : k * Unit <= NumBlocks[disks'[s]]
  BY <1>4, <1>5
<1>9. disks' \in [Slots -> Disks] /\ \A s, t \in Slots : disks'[s] = disks'[t] => s = t
  BY DEF MayCreate
<1>10. Mounted'
  BY <1>3, <1>9 DEF Mounted
<1>11. StripingTypeOK'
  BY <1>1, <1>2, <1>6, <1>7, <1>8, <1>9, <1>10 DEF StripingInv, StripingTypeOK
<1>12. QED BY <1>2, <1>11 DEF StripingInv

\* A creation that is refused changes nothing but the reply.
LEMMA CreateRefusedInv ==
  ASSUME StripingInv, NEW ds \in [Slots -> Disks], CreateRefused(ds)
  PROVE  StripingInv'
BY DEF StripingInv, StripingTypeOK, ImagesTypeOK, CreateRefused, Admin, Call,
       Mounted, Pending

\* A request is refused, or is inside the volume and enough members work.
LEMMA BeginsInv ==
  ASSUME StripingInv, NEW op \in {"read", "write"}, NEW first \in Int, NEW num \in Int,
         NEW data \in Seq(Block), Begins(op, first, num, data),
         op = "read" => data = <<>>, op = "write" => num = Len(data)
  PROVE  StripingInv'
<1> DEFINE st == Refusal(first, num)
<1>1. last' = Call(op, first, num, st, data) /\ buf' = IF st = "PENDING" THEN data ELSE <<>>
  BY DEF Begins
<1>2. UNCHANGED <<content, status, disks, nblks, nbr_failed>> /\ Mounted
  BY DEF Begins
<1>3. st \in {"E_UNAVAIL", "E_SIZE", "PENDING"}
  BY DEF Refusal
<1>4. /\ last' \in [op : {"none", "create", "read", "write", "replace", "close"},
                    first : Int, num : Int,
                    status : {"SUCCESS", "PENDING", "E_SIZE", "E_UNAVAIL", "NULL"},
                    data : Seq(Block)]
      /\ last'.op = op /\ last'.first = first /\ last'.num = num /\ last'.status = st
  BY <1>1, <1>3 DEF Call
<1>5. buf' \in Seq(Block)
  BY <1>1
<1>6. st = "PENDING" => /\ num > 0 /\ first >= 0 /\ first + num <= nblks
                        /\ get_failed_count <= Tolerates
  <2>1. nblks \in Nat /\ get_failed_count \in Nat /\ Tolerates \in Nat
    BY StripingAssumption, FailedFinite DEF StripingInv, StripingTypeOK
  <2>2. QED BY <2>1 DEF Refusal
<1> HIDE DEF st
<1>7. Pending' <=> st = "PENDING"
  BY <1>4 DEF Pending
<1>8. Pending' => IF op = "read" THEN Len(buf') < num ELSE Len(buf') \in 1..num
  <2>1. CASE op = "read"
    BY <1>1, <1>6, <1>7, <2>1
  <2>2. CASE op = "write"
    <3>1. Len(data) \in Nat
      OBVIOUS
    <3>2. QED BY <1>1, <1>6, <1>7, <2>2, <3>1
  <2>3. QED BY <2>1, <2>2
<1>9. StripingTypeOK'
  BY <1>2, <1>4, <1>5, <1>6, <1>7, <1>8
     DEF StripingInv, StripingTypeOK, ImagesTypeOK, Mounted
<1>10. get_failed_count' = get_failed_count
  BY <1>2 DEF get_failed_count, FailedSlots, Works
<1>11. QED BY <1>2, <1>6, <1>7, <1>9, <1>10 DEF StripingInv

\* The requests of the client.
LEMMA RequestInv == StripingInv /\ Request => StripingInv'
<1> SUFFICES ASSUME StripingInv, Request PROVE StripingInv'
  OBVIOUS
<1>1. PICK first \in -1..nblks, num \in 0..MaxTransfer :
        \/ read_begins(first, num)
        \/ \E data \in [1..num -> Block] : write_begins(first, data)
  BY DEF Request
<1>2. first \in Int /\ num \in Nat
  BY <1>1, StripingAssumption DEF StripingInv, StripingTypeOK
<1>3. CASE read_begins(first, num)
  <2>1. <<>> \in Seq(Block) /\ "read" \in {"read", "write"} /\ "read" # "write"
    OBVIOUS
  <2>2. Begins("read", first, num, <<>>) /\ num \in Int
    BY <1>2, <1>3 DEF read_begins
  <2>3. QED BY <1>2, <2>1, <2>2, BeginsInv
<1>4. ASSUME NEW data \in [1..num -> Block], write_begins(first, data)
      PROVE  StripingInv'
  <2>1. data \in Seq(Block) /\ Len(data) = num
    BY <1>2
  <2>2. "write" \in {"read", "write"} /\ "read" # "write"
    OBVIOUS
  <2>3. QED BY <1>2, <1>4, <2>1, <2>2, BeginsInv DEF write_begins
<1>5. QED BY <1>1, <1>3, <1>4

\* The next block of a read.
LEMMA BlockReadInv ==
  ASSUME StripingInv, Pending, last.op = "read", NEW b \in Block, BlockRead(b)
  PROVE  StripingInv'
<1>1. UNCHANGED <<content, status, disks, nblks, nbr_failed>>
  BY DEF BlockRead
<1>2. /\ buf \in Seq(Block) /\ Len(buf) \in Nat /\ last.num \in Int /\ Len(buf) < last.num
      /\ last.data \in Seq(Block) /\ Append(buf, b) \in Seq(Block)
      /\ Len(Append(buf, b)) = Len(buf) + 1
  BY DEF StripingInv, StripingTypeOK
<1>3. get_failed_count' = get_failed_count
  BY <1>1 DEF get_failed_count, FailedSlots, Works
<1>4. CASE Len(buf) + 1 = last.num
  <2>1. buf' = <<>> /\ last' = [last EXCEPT !.status = "SUCCESS", !.data = Append(buf, b)]
    BY <1>4 DEF BlockRead
  <2>2. ~Pending'
    BY <2>1 DEF Pending, StripingInv, StripingTypeOK
  <2>3. /\ last' \in [op : {"none", "create", "read", "write", "replace", "close"},
                      first : Int, num : Int,
                      status : {"SUCCESS", "PENDING", "E_SIZE", "E_UNAVAIL", "NULL"},
                      data : Seq(Block)]
        /\ buf' \in Seq(Block)
    <3>1. last = [op |-> last.op, first |-> last.first, num |-> last.num,
                  status |-> last.status, data |-> last.data]
      BY DEF StripingInv, StripingTypeOK
    <3>2. last' = [op |-> last.op, first |-> last.first, num |-> last.num,
                   status |-> "SUCCESS", data |-> Append(buf, b)]
      BY <2>1, <3>1
    <3>3. last.op \in {"none", "create", "read", "write", "replace", "close"}
          /\ last.first \in Int
      BY DEF StripingInv, StripingTypeOK
    <3>4. QED BY <1>2, <2>1, <3>2, <3>3
  <2>4. QED BY <1>1, <2>2, <2>3 DEF StripingInv, StripingTypeOK, ImagesTypeOK, Mounted
<1>5. CASE Len(buf) + 1 # last.num
  <2>1. buf' = Append(buf, b) /\ last' = last
    BY <1>5 DEF BlockRead
  <2>2. Len(buf') < last.num
    BY <1>2, <1>5, <2>1
  <2>3. Pending'
    BY <2>1 DEF Pending
  <2>4. /\ buf' \in Seq(Block) /\ last'.op = "read" /\ Mounted'
        /\ last'.first >= 0 /\ last'.first + last'.num <= nblks' /\ Len(buf') < last'.num
    BY <1>1, <1>2, <2>1, <2>2 DEF StripingInv, StripingTypeOK, Mounted
  <2>5. StripingTypeOK'
    <3>1. ImagesTypeOK' /\ last' = last /\ nblks' = nblks /\ nbr_failed' = nbr_failed
          /\ disks' = disks /\ buf' \in Seq(Block)
      BY <1>1, <2>1, <2>4 DEF StripingInv, StripingTypeOK, ImagesTypeOK
    <3>2. QED BY <2>4, <3>1 DEF StripingInv, StripingTypeOK, Mounted
  <2>6. QED BY <1>1, <1>3, <2>1, <2>5 DEF StripingInv, Pending
<1>6. QED BY <1>4, <1>5

\* The next block of a write, wherever it goes.
LEMMA BlockWrittenInv ==
  ASSUME StripingInv, Pending, last.op = "write", content' \in Contents, BlockWritten
  PROVE  StripingInv'
<1>1. UNCHANGED <<status, disks, nblks, nbr_failed>> /\ buf' = Tail(buf)
  BY DEF BlockWritten
<1>2. /\ buf \in Seq(Block) /\ Len(buf) \in Nat /\ last.num \in Int /\ Len(buf) \in 1..last.num
      /\ buf' \in Seq(Block) /\ Len(buf') = Len(buf) - 1
  BY <1>1 DEF StripingInv, StripingTypeOK
<1>3. get_failed_count' = get_failed_count
  BY <1>1 DEF get_failed_count, FailedSlots, Works
<1>4. CASE Len(buf) = 1
  <2>1. last' = [last EXCEPT !.status = "SUCCESS"]
    BY <1>4 DEF BlockWritten
  <2>2. ~Pending'
    BY <2>1 DEF Pending, StripingInv, StripingTypeOK
  <2>3. QED BY <1>1, <1>2, <2>1, <2>2 DEF StripingInv, StripingTypeOK, ImagesTypeOK, Mounted
<1>5. CASE Len(buf) # 1
  <2>1. last' = last
    BY <1>5 DEF BlockWritten
  <2>2. Len(buf') \in 1..last.num
    BY <1>2, <1>5
  <2>3. Pending'
    BY <2>1 DEF Pending
  <2>4. QED BY <1>1, <1>2, <1>3, <2>1, <2>2, <2>3
               DEF StripingInv, StripingTypeOK, ImagesTypeOK, Mounted
<1>6. QED BY <1>4, <1>5

\* A member fails between two requests.
LEMMA FailInv ==
  ASSUME StripingInv, NEW d \in Disks, Fail(d)
  PROVE  StripingInv'
BY DEF StripingInv, StripingTypeOK, ImagesTypeOK, Fail, image_fail, volume, Mounted, Pending

\* The volume is closed.
LEMMA UnmountedInv ==
  ASSUME StripingInv, Unmounted, Admin("close", "SUCCESS"), UNCHANGED <<content, buf>>,
         status' \in [Disks -> {"open", "failed", "closed"}]
  PROVE  StripingInv'
BY DEF StripingInv, StripingTypeOK, ImagesTypeOK, Unmounted, Admin, Call, Mounted, Pending

\* The invariant is about the variables only.
LEMMA StutterInv == StripingInv /\ UNCHANGED vars => StripingInv'
BY DEF StripingInv, StripingTypeOK, ImagesTypeOK, vars, volume, Mounted, Pending,
       get_failed_count, FailedSlots, Works

\* No volume, no request.
LEMMA InitInv == StripingInit => StripingInv
BY DEF StripingInit, ImagesInit, StripingInv, StripingTypeOK, ImagesTypeOK, Call,
       Mounted, Pending
=============================================================================
