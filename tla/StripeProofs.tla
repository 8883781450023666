---------------------------- MODULE StripeProofs ----------------------------
(***************************************************************************)
(* The striped volume for every number of disks, stripe size, disk size    *)
(* and length of a request: it is an array of blocks for as long as no     *)
(* member has failed, and refuses everything from then on.                 *)
(***************************************************************************)
EXTENDS Stripe, StripingProofs

\* What the request that is served has read so far is what the client stored.
ReadSoFar ==
  Pending /\ last.op = "read" =>
    \A i \in 1..Len(buf) : buf[i] = Stored[last.first + i - 1]

IInv == StripingInv /\ ReadSoFar

\* The block of the disks that keeps block l of the volume.
Kept(l) == content[disks[WhichDisk(l)]][ActualBlock(l)]

\* There is no failed member while a request is served.
LEMMA AllWork ==
  ASSUME StripingInv
  PROVE  /\ get_failed_count = 0 <=> FailedSlots = {}
         /\ Pending => FailedSlots = {}
<1>1. IsFiniteSet(FailedSlots) /\ get_failed_count \in Nat
  BY FailedFinite
<1>2. get_failed_count = 0 <=> FailedSlots = {}
  BY <1>1, FS_EmptySet DEF get_failed_count
<1>3. Pending => get_failed_count = 0
  BY <1>1, StripeAssumption DEF StripingInv
<1>4. QED BY <1>2, <1>3

\* So every block of it is found on a disk that works.
LEMMA NextBlockWorks ==
  ASSUME StripingInv, Pending
  PROVE  /\ disks[WhichDisk(NextBlock)] \in Disks
         /\ status[disks[WhichDisk(NextBlock)]] = "open"
         /\ ActualBlock(NextBlock) \in Blocks(disks[WhichDisk(NextBlock)])
         /\ Kept(NextBlock) \in Block
<1>1. StripingTypeOK /\ Mounted /\ FailedSlots = {}
  BY AllWork DEF StripingInv, StripingTypeOK
<1>2. NextBlock \in 0..(nblks - 1)
  BY <1>1, NextBlockInVolume
<1>3. WhichDisk(NextBlock) \in Slots
  BY <1>1, <1>2, PlaceOnMembers
<1>4. status[disks[WhichDisk(NextBlock)]] = "open"
  BY <1>1, <1>3 DEF FailedSlots, Works
<1>5. QED BY <1>1, <1>2, <1>3, <1>4, PlaceOnMembers DEF Kept

\* One block is written, and no other block of the volume changes.
LEMMA OneBlockWritten ==
  ASSUME StripingInv, Pending, last.op = "write", stripe_write
  PROVE  /\ BlockWritten /\ content' \in Contents
         /\ \A l \in 0..(nblks - 1) : Kept(l)' = IF l = NextBlock THEN Head(buf) ELSE Kept(l)
<1> DEFINE d == disks[WhichDisk(NextBlock)]
           a == ActualBlock(NextBlock)
<1>1. d \in Disks /\ status[d] = "open" /\ a \in Blocks(d)
  BY NextBlockWorks
<1>2. BlockWritten /\ content' = [content EXCEPT ![d][a] = Head(buf)]
  BY <1>1 DEF stripe_write
<1>3. UNCHANGED disks
  BY <1>2 DEF BlockWritten
<1>4. Head(buf) \in Block
  BY NextBlockInVolume DEF StripingInv, StripingTypeOK
<1>5. /\ content = [e \in Disks |-> content[e]]
      /\ \A e \in Disks : content[e] \in [Blocks(e) -> Block]
  BY ContentsOfDisks DEF StripingInv, StripingTypeOK, ImagesTypeOK
<1>6. StripingTypeOK /\ Mounted /\ NextBlock \in 0..(nblks - 1)
  BY NextBlockInVolume DEF StripingInv, StripingTypeOK
<1>7. ASSUME NEW l \in 0..(nblks - 1)
      PROVE  Kept(l)' = IF l = NextBlock THEN Head(buf) ELSE Kept(l)
  <2>1. disks[WhichDisk(l)] \in Disks /\ ActualBlock(l) \in Blocks(disks[WhichDisk(l)])
    BY <1>6, PlaceOnMembers
  <2>2. Kept(l)' = content'[disks[WhichDisk(l)]][ActualBlock(l)]
    BY <1>3 DEF Kept, WhichDisk, ActualBlock
  <2>3. disks[WhichDisk(l)] = d /\ ActualBlock(l) = a => l = NextBlock
    BY <1>6, PlacesDiffer
  <2> HIDE DEF d, a
  <2>4. l = NextBlock => disks[WhichDisk(l)] = d /\ ActualBlock(l) = a
    BY DEF d, a
  <2>5. QED BY <1>1, <1>2, <1>5, <2>1, <2>2, <2>3, <2>4 DEF Kept
<1> HIDE DEF d, a
<1>8. content' = [e \in Disks |-> content'[e]]
      /\ \A e \in Disks : content'[e] \in [Blocks(e) -> Block]
  BY <1>1, <1>2, <1>4, <1>5
<1>9. QED BY <1>2, <1>7, <1>8, ContentsOfDisks

-----------------------------------------------------------------------------
(* What is stored, and one lemma per action *)

\* The blocks of a volume, and how many they are.
StoredTypeOK ==
  /\ Stored \in [0..(nblks - 1) -> Block]
  /\ DOMAIN Stored = 0..(nblks - 1) /\ Cardinality(DOMAIN Stored) = nblks

\* What is stored in a volume is well-formed.
LEMMA StoredBlocks == StripingInv => StoredTypeOK
<1> SUFFICES ASSUME StripingInv PROVE StoredTypeOK
  OBVIOUS
<1>1. nblks \in Nat /\ StripingTypeOK
  BY DEF StripingInv, StripingTypeOK
<1>2. ASSUME NEW l \in 0..(nblks - 1)
      PROVE  Stored[l] \in Block
  <2>1. CASE FailedSlots # {}
    BY <2>1 DEF Stored, Block
  <2>2. CASE FailedSlots = {} /\ l \in StillToWrite
    <3>1. /\ Pending /\ last.op = "write"
          /\ l \in NextBlock..(last.first + last.num - 1)
      BY <2>2 DEF StillToWrite
    <3>2. NextBlock = last.first + last.num - Len(buf) /\ NextBlock \in Int
      BY <1>1, <3>1, NextBlockInVolume
    <3>3. l - NextBlock + 1 \in 1..Len(buf)
      <4>1. /\ last.first \in Int /\ last.num \in Int /\ Len(buf) \in Nat
            /\ l \in NextBlock..(last.first + last.num - 1)
        BY <1>1, <3>1 DEF StripingTypeOK
      <4>2. l \in NextBlock..(NextBlock + Len(buf) - 1)
        BY <3>2, <4>1
      <4>3. QED BY <3>2, <4>1, <4>2, PlaceAmong, Zenon
    <3>4. buf[l - NextBlock + 1] \in Block
      <4>1. buf \in Seq(Block)
        BY <1>1 DEF StripingTypeOK
      <4>2. QED BY <3>3, <4>1
    <3>5. QED BY <2>2, <3>4 DEF Stored
  <2>3. CASE FailedSlots = {} /\ l \notin StillToWrite
    <3>1. Mounted
      BY <1>1 DEF StripingTypeOK
    <3>2. Kept(l) \in Block
      BY <1>1, <3>1, PlaceOnMembers DEF Kept
    <3>3. QED BY <2>3, <3>2 DEF Stored, Kept
  <2>4. QED BY <2>1, <2>2, <2>3
<1>3. DOMAIN Stored = 0..(nblks - 1)
  BY DEF Stored
<1>4. Cardinality(0..(nblks - 1)) = nblks
  BY <1>1, FS_Interval
<1>5. Stored = [l \in 0..(nblks - 1) |-> Stored[l]]
  BY DEF Stored
<1>6. QED BY <1>2, <1>3, <1>4, <1>5 DEF StoredTypeOK

\* A step that changes neither disks nor request keeps what is stored.
LEMMA SameStored ==
  ASSUME UNCHANGED <<content, status, disks, nblks, buf, last>>
  PROVE  Stored' = Stored /\ get_failed_count' = get_failed_count /\ Mounted' = Mounted
BY DEF Stored, FailedSlots, Works, StillToWrite, Pending, NextBlock, WhichDisk, ActualBlock,
       get_failed_count, Mounted

\* How many members the client must do without.
Down == IF Mounted THEN get_failed_count ELSE 0

\* The operator of FiniteSets that Volume uses is the one used here.
LEMMA SameCardinality == \A S : StripeView!Cardinality(S) = Cardinality(S)
BY DEF StripeView!Cardinality, Cardinality

\* A volume is created, or refused, where there was none.
LEMMA CreateImplements ==
  ASSUME IInv, StripingInv', NEW ds \in [Slots -> Disks], Create(ds)
  PROVE  StripeView!Create
<1>1. Stored = <<>> /\ Down = 0
  <2>1. ~Mounted /\ nblks = 0
    BY DEF Create, CreateRefused, stripe_create, MayCreate, IInv, StripingInv, StripingTypeOK
  <2>2. QED BY <2>1 DEF Stored, Down
<1>2. CASE CreateRefused(ds)
  <2>1. Stored' = <<>> /\ Down' = 0
    <3>1. ~Mounted' /\ nblks' = 0
      BY <1>2 DEF CreateRefused, MayCreate, IInv, StripingInv, StripingTypeOK, Mounted
    <3>2. QED BY <3>1 DEF Stored, Down
  <2>2. Admin("create", "NULL")
    BY <1>2 DEF CreateRefused
  <2>3. QED
    BY <1>1, <2>1, <2>2 DEF StripeView!Create, StripeView!Admin, StripeView!Call, Admin, Call, Down
<1>3. CASE stripe_create(ds)
  <2>1. FailedSlots' = {}
    BY <1>3 DEF stripe_create, MayCreate, FailedSlots, Works
  <2>2. Down' = 0
    BY <2>1, FS_EmptySet DEF Down, get_failed_count
  <2>3. /\ Stored' \in [0..(nblks' - 1) -> Block]
        /\ DOMAIN Stored' = 0..(nblks' - 1) /\ Cardinality(DOMAIN Stored') = nblks'
    <3>1. StoredTypeOK'
      BY StoredBlocks, PTL
    <3>2. QED BY <3>1 DEF StoredTypeOK
  <2>4. \A l \in DOMAIN Stored' : Stored'[l] \subseteq Bits
    BY <2>3 DEF Block
  <2>5. Admin("create", "SUCCESS")
    BY <1>3 DEF stripe_create
  <2>6. QED
    BY <1>1, <2>2, <2>3, <2>4, <2>5, SameCardinality
    DEF StripeView!Create, StripeView!Admin, StripeView!Call, Admin, Call, Down
<1>4. QED BY <1>2, <1>3 DEF Create

\* A request is refused for what Volume refuses it, and takes effect at once
\* for the client otherwise.
LEMMA BeginsImplements ==
  ASSUME IInv, NEW op \in {"read", "write"}, NEW first \in Int, NEW num \in Int,
         NEW data \in Seq(Block), Begins(op, first, num, data),
         op = "read" => data = <<>>, op = "write" => num = Len(data)
  PROVE  \/ StripeView!Refuse(op, first, num, data)
         \/ op = "read" /\ StripeView!ReadBegins(first, num)
         \/ op = "write" /\ StripeView!Write(first, data)
<1> DEFINE st == Refusal(first, num)
<1>1. /\ Mounted /\ ~Pending /\ UNCHANGED <<content, status, disks, nblks, nbr_failed>>
      /\ last' = Call(op, first, num, st, data)
      /\ buf' = IF st = "PENDING" THEN data ELSE <<>>
  BY DEF Begins
<1>2. /\ Mounted' /\ FailedSlots' = FailedSlots /\ get_failed_count' = get_failed_count
      /\ \A l : Kept(l)' = Kept(l)
  BY <1>1 DEF Mounted, FailedSlots, Works, get_failed_count, Kept, WhichDisk, ActualBlock
<1>3. Down' = Down /\ Down = get_failed_count
  BY <1>1, <1>2 DEF Down
<1>4. /\ Pending' <=> st = "PENDING"
      /\ last'.op = op /\ last'.first = first /\ last'.num = num
  BY <1>1 DEF Pending, Call
<1>5. StripeView!InRange(first, num) <=> ~(num <= 0 \/ first < 0 \/ first + num > nblks)
  <2>1. StripeView!Size = nblks /\ nblks \in Nat
    BY StoredBlocks, SameCardinality DEF StoredTypeOK, StripeView!Size, IInv, StripingInv, StripingTypeOK
  <2>2. QED BY <2>1 DEF StripeView!InRange
<1>6. StripeView!Lost <=> get_failed_count > 0
  BY <1>3, StripeAssumption DEF StripeView!Lost, Down
<1>7. Stored = [l \in 0..(nblks - 1) |-> IF FailedSlots # {} THEN {} ELSE Kept(l)]
  BY <1>1 DEF Stored, Kept, StillToWrite
<1>8. nbr_failed = 0 /\ Tolerates = 0
  BY StripeAssumption DEF IInv, StripingInv
<1>9. CASE st # "PENDING"
  <2>1. Stored' = Stored
    BY <1>1, <1>2, <1>4, <1>7, <1>9 DEF Stored, Kept, StillToWrite
  <2>2. \/ ~StripeView!InRange(first, num) /\ st = "E_SIZE"
        \/ StripeView!InRange(first, num) /\ StripeView!Lost /\ st = "E_UNAVAIL"
    BY <1>5, <1>6, <1>8, <1>9 DEF Refusal
  <2> HIDE DEF st
  <2>3. QED BY <1>1, <1>3, <2>1, <2>2 DEF StripeView!Refuse, StripeView!Call, Call, Down
<1>10. CASE st = "PENDING"
  <2>1. StripeView!InRange(first, num) /\ ~StripeView!Lost
    <3>1. get_failed_count \in Nat
      BY FailedFinite
    <3>2. QED BY <1>5, <1>6, <1>8, <1>10, <3>1 DEF Refusal
  <2>2. FailedSlots = {}
    BY <2>1, <1>6, FailedFinite, AllWork DEF IInv
  <2>3. buf' = data
    BY <1>1, <1>10
  <2> HIDE DEF st
  <2>4. CASE op = "read"
    <3>1. Stored' = Stored
      BY <1>1, <1>2, <1>4, <1>7, <2>4 DEF Stored, Kept, StillToWrite
    <3>2. QED BY <1>1, <1>3, <1>10, <2>1, <2>4, <3>1
              DEF StripeView!ReadBegins, StripeView!Call, Call, Down
  <2>5. CASE op = "write"
    <3>1. NextBlock' = first /\ num = Len(data)
      BY <1>4, <2>3, <2>5 DEF NextBlock
    <3>2. StillToWrite' = first..(first + num - 1)
      BY <1>4, <1>10, <2>5, <3>1 DEF StillToWrite
    <3>3. Stored' = [l \in 0..(nblks - 1) |->
                       IF l \in first..(first + num - 1) THEN data[l - first + 1] ELSE Kept(l)]
      BY <1>1, <1>2, <2>2, <2>3, <3>1, <3>2 DEF Stored, Kept
    <3>4. Stored' = [l \in DOMAIN Stored |-> IF l \in first..(first + Len(data) - 1)
                                             THEN data[l - first + 1] ELSE Stored[l]]
      BY <1>7, <2>2, <3>1, <3>3
    <3>5. QED BY <1>1, <1>3, <1>10, <2>1, <2>5, <3>1, <3>4
              DEF StripeView!Write, StripeView!Call, Call, Down
  <2>6. QED BY <2>4, <2>5
<1>11. QED BY <1>9, <1>10

\* A block is read; with the last one the client gets what Volume promises.
LEMMA ReadImplements ==
  ASSUME IInv, stripe_read
  PROVE  /\ StripeView!ReadReturns \/ UNCHANGED StripeView!vars
         /\ ReadSoFar'
<1> DEFINE b == Kept(NextBlock)
<1>1. Pending /\ last.op = "read" /\ BlockRead(b)
  BY NextBlockWorks DEF stripe_read, Kept, IInv
<1>2. /\ UNCHANGED <<content, status, disks, nblks>> /\ StripingTypeOK
      /\ Mounted /\ Mounted' /\ FailedSlots = {} /\ FailedSlots' = {}
  BY <1>1, AllWork DEF BlockRead, IInv, StripingInv, StripingTypeOK, Mounted, FailedSlots, Works
<1>3. /\ Len(buf) \in Nat /\ buf \in Seq(Block)
      /\ last.first \in Int /\ last.num \in Int /\ nblks \in Nat
  BY <1>2 DEF StripingTypeOK
<1>4. NextBlock = last.first + Len(buf) /\ NextBlock \in 0..(nblks - 1)
      /\ NextBlock < last.first + last.num
  BY <1>1, <1>2, NextBlockInVolume
<1>5. Stored = [l \in 0..(nblks - 1) |-> Kept(l)]
  BY <1>1, <1>2 DEF Stored, Kept, StillToWrite
<1>6. last'.op = "read" /\ last'.first = last.first /\ last'.num = last.num
  BY <1>1, <1>2 DEF BlockRead, StripingTypeOK
<1>7. Stored' = Stored
  <2>1. \A l : Kept(l)' = Kept(l)
    BY <1>2 DEF Kept, WhichDisk, ActualBlock
  <2>2. StillToWrite' = {}
    BY <1>6 DEF StillToWrite
  <2>3. QED BY <1>2, <1>5, <2>1, <2>2 DEF Stored, Kept
<1>8. Down' = Down /\ Down = 0
  BY <1>2, FS_EmptySet DEF Down, get_failed_count
<1>9. \A i \in 1..(Len(buf) + 1) :
        Append(buf, b)[i] = Stored[last.first + i - 1]
  <2>1. b = Stored[last.first + (Len(buf) + 1) - 1]
    BY <1>3, <1>4, <1>5
  <2> HIDE DEF b
  <2>2. b \in Block
    BY <1>1, NextBlockWorks DEF b, IInv
  <2>3. QED BY <1>1, <1>3, <2>1, <2>2 DEF IInv, ReadSoFar
<1> HIDE DEF b
<1>10. CASE Len(buf) + 1 = last.num
  <2>1. last' = [last EXCEPT !.status = "SUCCESS", !.data = Append(buf, b)]
    BY <1>1, <1>10 DEF BlockRead
  <2>2. ~Pending'
    BY <1>2, <2>1 DEF Pending, StripingTypeOK
  <2>3. Append(buf, b) = [i \in 1..last.num |-> Stored[last.first + i - 1]]
    <3>1. b \in Block
      BY <1>1, NextBlockWorks DEF b, IInv
    <3>2. Append(buf, b) = [i \in 1..(Len(buf) + 1) |-> Append(buf, b)[i]]
      <4>1. Append(buf, b) \in Seq(Block) /\ Len(Append(buf, b)) = Len(buf) + 1
        BY <1>3, <3>1
      <4>2. QED BY <4>1, SequenceIsFunction
    <3>3. QED BY <1>9, <1>10, <3>2
  <2>4. last' = Call("read", last.first, last.num, "SUCCESS",
                     [i \in 1..last.num |-> Stored[last.first + i - 1]])
    <3>1. last = [op |-> last.op, first |-> last.first, num |-> last.num,
                  status |-> last.status, data |-> last.data]
      BY <1>2 DEF StripingTypeOK
    <3>2. last' = [op |-> last.op, first |-> last.first, num |-> last.num,
                   status |-> "SUCCESS", data |-> Append(buf, b)]
      BY <2>1, <3>1
    <3>3. QED BY <1>1, <2>3, <3>2 DEF Call
  <2>5. StripeView!InRange(last.first, last.num) /\ ~StripeView!Lost
    <3>1. StripeView!Size = nblks
      BY StoredBlocks, SameCardinality DEF StripeView!Size, StoredTypeOK, IInv
    <3>2. last.num > 0 /\ last.first >= 0 /\ last.first + last.num <= nblks
      BY <1>1, <1>2, <1>3, <1>10 DEF StripingTypeOK
    <3>3. QED BY <1>8, <3>1, <3>2, StripeAssumption
              DEF StripeView!InRange, StripeView!Lost, Down
  <2>6. StripeView!ReadReturns
    BY <1>1, <1>7, <1>8, <2>4, <2>5
       DEF StripeView!ReadReturns, StripeView!Read, StripeView!Call, Call, Pending, Down
  <2>7. QED BY <2>2, <2>6 DEF ReadSoFar
<1>11. CASE Len(buf) + 1 # last.num
  <2>1. buf' = Append(buf, b) /\ last' = last /\ Len(buf') = Len(buf) + 1
    BY <1>1, <1>3, <1>11 DEF BlockRead
  <2>2. ReadSoFar'
    BY <1>7, <1>9, <2>1 DEF ReadSoFar
  <2>3. QED BY <1>7, <1>8, <2>1, <2>2 DEF StripeView!vars, Down
<1>12. QED BY <1>10, <1>11

\* A block is written: the client does not see it, until the last one.
LEMMA WriteImplements ==
  ASSUME IInv, stripe_write
  PROVE  /\ StripeView!WriteReturns \/ UNCHANGED StripeView!vars
         /\ ReadSoFar'
<1>1. Pending /\ last.op = "write"
  BY DEF stripe_write
<1>2. /\ BlockWritten
      /\ \A l \in 0..(nblks - 1) : Kept(l)' = IF l = NextBlock THEN Head(buf) ELSE Kept(l)
  BY <1>1, OneBlockWritten DEF IInv
<1>3. /\ UNCHANGED <<status, disks, nblks>> /\ buf' = Tail(buf) /\ StripingTypeOK
      /\ Mounted /\ Mounted' /\ FailedSlots = {} /\ FailedSlots' = {}
  BY <1>1, <1>2, AllWork
     DEF BlockWritten, IInv, StripingInv, StripingTypeOK, Mounted, FailedSlots, Works
<1>4. /\ Len(buf) \in Nat /\ buf \in Seq(Block) /\ Len(buf) > 0 /\ Len(Tail(buf)) = Len(buf) - 1
      /\ last.first \in Int /\ last.num \in Int /\ nblks \in Nat
      /\ last.first >= 0 /\ last.first + last.num <= nblks /\ Len(buf) <= last.num
  BY <1>1, <1>3 DEF StripingTypeOK
<1>5. NextBlock = last.first + last.num - Len(buf) /\ NextBlock \in 0..(nblks - 1)
  BY <1>1, <1>3, NextBlockInVolume
<1>6. last' = IF Len(buf) = 1 THEN [last EXCEPT !.status = "SUCCESS"] ELSE last
  BY <1>2 DEF BlockWritten
<1>7. last'.op = "write" /\ last'.first = last.first /\ last'.num = last.num
      /\ (Pending' <=> Len(buf) # 1)
  BY <1>1, <1>3, <1>6 DEF StripingTypeOK, Pending
<1>8. StillToWrite = NextBlock..(last.first + last.num - 1)
  BY <1>1 DEF StillToWrite
<1>9. NextBlock' = NextBlock + 1
  BY <1>1, <1>3, <1>4, <1>7 DEF NextBlock
<1>10. StillToWrite' = (NextBlock + 1)..(last.first + last.num - 1)
  <2>1. CASE Len(buf) = 1
    <3>1. StillToWrite' = {}
      BY <1>7, <2>1 DEF StillToWrite
    <3>2. NextBlock + 1 > last.first + last.num - 1
      BY <1>4, <1>5, <2>1
    <3>3. QED BY <1>4, <1>5, <3>1, <3>2, SMTT(30)
  <2>2. CASE Len(buf) # 1
    BY <1>7, <1>9, <2>2 DEF StillToWrite
  <2>3. QED BY <2>1, <2>2
<1>11. ASSUME NEW l \in 0..(nblks - 1)
       PROVE  (IF l \in StillToWrite' THEN buf'[l - NextBlock' + 1] ELSE Kept(l)')
                = IF l \in StillToWrite THEN buf[l - NextBlock + 1] ELSE Kept(l)
  <2>1. CASE l = NextBlock
    <3>1. l \in StillToWrite /\ l \notin StillToWrite'
      BY <1>4, <1>5, <1>8, <1>10, <2>1, SMTT(30)
    <3>2. Kept(l)' = buf[1]
      BY <1>2, <1>4, <2>1
    <3>3. l - NextBlock + 1 = 1
      BY <1>4, <1>5, <2>1
    <3>4. QED BY <3>1, <3>2, <3>3
  <2>2. CASE l # NextBlock /\ l \in StillToWrite
    <3>1. l \in StillToWrite' /\ l - NextBlock \in 1..(Len(buf) - 1)
      <4>1. l \in Int /\ l >= NextBlock /\ l <= last.first + last.num - 1 /\ NextBlock \in Int
        BY <1>4, <1>5, <1>8, <2>2
      <4>2. l >= NextBlock + 1
        BY <2>2, <4>1
      <4>3. l \in StillToWrite'
        BY <1>4, <1>10, <4>1, <4>2
      <4>4. last.first + last.num - 1 = NextBlock + Len(buf) - 1
        BY <1>4, <1>5
      <4>5. l - NextBlock \in Int /\ l - NextBlock >= 1 /\ l - NextBlock <= Len(buf) - 1
        BY <1>4, <4>1, <4>2, <4>4
      <4>6. QED BY <1>4, <4>3, <4>5
    <3>2. l - NextBlock' + 1 = l - NextBlock
      BY <1>4, <1>5, <1>9
    <3>3. Tail(buf)[l - NextBlock] = buf[l - NextBlock + 1]
      BY <1>4, <3>1
    <3>4. QED BY <1>3, <2>2, <3>1, <3>2, <3>3
  <2>3. CASE l # NextBlock /\ l \notin StillToWrite
    <3>1. l \notin StillToWrite'
      BY <1>4, <1>5, <1>8, <1>10, <2>3
    <3>2. QED BY <1>2, <2>3, <3>1
  <2>4. QED BY <2>1, <2>2, <2>3
<1>12. Stored' = Stored
  BY <1>3, <1>11 DEF Stored, Kept
<1>13. Down' = Down
  BY <1>3 DEF Down, get_failed_count
<1>14. ReadSoFar'
  BY <1>7 DEF ReadSoFar
<1>15. StripeView!WriteReturns \/ UNCHANGED StripeView!vars
  <2>1. CASE Len(buf) = 1
    BY <1>1, <1>6, <1>12, <1>13, <2>1 DEF StripeView!WriteReturns, Pending, Down
  <2>2. CASE Len(buf) # 1
    BY <1>6, <1>12, <1>13, <2>2 DEF StripeView!vars, Down
  <2>3. QED BY <2>1, <2>2
<1>16. QED BY <1>14, <1>15

\* The devices are closed with the volume.
LEMMA CloseImplements == stripe_close => StripeView!Close
<1> SUFFICES ASSUME stripe_close PROVE StripeView!Close
  OBVIOUS
<1>1. ~Mounted' /\ nblks' = 0 /\ Admin("close", "SUCCESS")
  BY DEF stripe_close, Unmounted, Mounted
<1>2. Stored' = <<>> /\ Down' = 0
  BY <1>1 DEF Stored, Down
<1>3. QED
  BY <1>1, <1>2 DEF StripeView!Close, StripeView!Admin, StripeView!Call, Admin, Call, Down

\* A device that fails is a member, and then every block is lost, or none of the
\* volume's concern.
LEMMA FailImplements ==
  ASSUME IInv, NEW d \in Disks, Fail(d)
  PROVE  /\ StripeView!MemberFails \/ UNCHANGED StripeView!vars
         /\ StripeView!Idle
<1>1. /\ ~Pending /\ UNCHANGED <<content, disks, nblks, nbr_failed, buf, last>>
      /\ Mounted' = Mounted /\ status' = [status EXCEPT ![d] = "failed"]
      /\ status \in [Disks -> {"open", "failed", "closed"}]
  BY DEF Fail, image_fail, volume, IInv, StripingInv, StripingTypeOK, ImagesTypeOK, Mounted
<1>2. StripeView!Idle
  BY <1>1 DEF StripeView!Idle, Pending
<1>3. CASE ~Mounted
  <2>1. nblks = 0 /\ nblks' = 0 /\ ~Mounted'
    BY <1>1, <1>3 DEF IInv, StripingInv, StripingTypeOK
  <2>2. QED BY <1>1, <1>2, <1>3, <2>1 DEF Stored, Down, StripeView!vars
<1>4. CASE Mounted /\ \A s \in Slots : ~(disks[s] = d /\ Works(s))
  <2>1. \A s \in Slots : Works(s)' <=> Works(s)
    BY <1>1, <1>4 DEF Works, IInv, StripingInv, StripingTypeOK
  <2>2. FailedSlots' = FailedSlots
    BY <2>1 DEF FailedSlots
  <2>3. Stored' = Stored /\ Down' = Down
    BY <1>1, <2>2 DEF Stored, StillToWrite, Pending, NextBlock, WhichDisk, ActualBlock,
                      Down, get_failed_count
  <2>4. QED BY <1>1, <1>2, <2>3 DEF StripeView!vars, Down
<1>5. ASSUME Mounted, NEW s \in Slots, disks[s] = d, Works(s)
      PROVE  StripeView!MemberFails
  <2>1. \A t \in Slots : Works(t)' <=> Works(t) /\ t # s
    BY <1>1, <1>5 DEF Works, IInv, StripingInv, StripingTypeOK
  <2>2. FailedSlots' = FailedSlots \cup {s} /\ s \notin FailedSlots
    BY <1>5, <2>1 DEF FailedSlots
  <2>3. get_failed_count' = get_failed_count + 1 /\ get_failed_count \in Nat
    BY <2>2, FailedFinite, FS_AddElement DEF get_failed_count
  <2>4. Down' = Down + 1 /\ Down' > Tolerates
    BY <1>1, <1>5, <2>3, StripeAssumption DEF Down
  <2>5. Stored' = [l \in DOMAIN Stored |-> {}]
    BY <1>1, <2>2 DEF Stored
  <2>6. QED BY <1>1, <2>4, <2>5 DEF StripeView!MemberFails, StripeView!Lost, Down
<1>6. QED BY <1>2, <1>3, <1>4, <1>5

-----------------------------------------------------------------------------
(* The theorems *)

\* No step of the striped volume leaves its types, and none of the failed
\* members is met inside a request.
LEMMA NextInv == StripingInv /\ [Next]_vars => StripingInv'
<1> SUFFICES ASSUME StripingInv, [Next]_vars PROVE StripingInv'
  OBVIOUS
<1>1. ASSUME NEW ds \in [Slots -> Disks], Create(ds) PROVE StripingInv'
  <2>1. CASE CreateRefused(ds)
    BY <2>1, CreateRefusedInv
  <2>2. CASE stripe_create(ds) /\ UNCHANGED content
    BY <2>2, CreateInv DEF StripingInv, StripingTypeOK, ImagesTypeOK
  <2>3. QED BY <1>1, <2>1, <2>2 DEF Create
<1>2. CASE Request
  BY <1>2, RequestInv
<1>3. CASE stripe_read
  <2>1. Pending /\ last.op = "read" /\ BlockRead(Kept(NextBlock)) /\ Kept(NextBlock) \in Block
    BY <1>3, NextBlockWorks DEF stripe_read, Kept
  <2>2. QED BY <2>1, BlockReadInv
<1>4. CASE stripe_write
  <2>1. Pending /\ last.op = "write"
    BY <1>4 DEF stripe_write
  <2>2. QED BY <1>4, <2>1, OneBlockWritten, BlockWrittenInv
<1>5. CASE stripe_close
  <2>1. status' \in [Disks -> {"open", "failed", "closed"}]
    BY <1>5 DEF stripe_close, StripingInv, StripingTypeOK, ImagesTypeOK
  <2>2. QED BY <1>5, <2>1, UnmountedInv DEF stripe_close
<1>6. ASSUME NEW d \in Disks, Fail(d) PROVE StripingInv'
  BY <1>6, FailInv
<1>7. CASE UNCHANGED vars
  BY <1>7, StutterInv
<1>8. QED BY <1>1, <1>2, <1>3, <1>4, <1>5, <1>6, <1>7 DEF Next

\* The strengthened invariant: types, a latch that is never set, and no member
\* failed while a request is served.
THEOREM LatchNeverSet == Spec => []StripingInv
<1>1. Init => StripingInv
  BY InitInv DEF Init
<1>2. QED BY <1>1, NextInv, PTL DEF Spec

\* Types, and that nbr_failed, which refuses every request for good once it is
\* set (homework.c: stripe_rw_oper), never is.
THEOREM TypeCorrect == Spec => []TypeOK
<1>1. StripingInv => TypeOK
  BY DEF StripingInv, TypeOK
<1>2. QED BY <1>1, LatchNeverSet, PTL

\* The arithmetic of the mounted volume places its blocks one to one.
THEOREM PlacementHolds == Spec => []PlacementOK
<1>1. StripingInv => PlacementOK
  <2> SUFFICES ASSUME StripingInv, Mounted PROVE Placement(NumBlocks[disks[0]])
    BY DEF PlacementOK
  <2>1. 0 \in Slots
    BY StripingAssumption DEF Slots
  <2>2. NumBlocks[disks[0]] \in Nat
    BY <2>1, ImagesAssumption DEF StripingInv, StripingTypeOK
  <2>3. QED BY <2>2, PlacementCorrect
<1>2. QED BY <1>1, LatchNeverSet, PTL

\* Every step is one of Volume or none, and keeps what has been read.
LEMMA NextImplements ==
  ASSUME IInv, StripingInv', [Next]_vars
  PROVE  [StripeView!Next]_StripeView!vars /\ ReadSoFar'
<1> USE DEF IInv
<1>1. ASSUME NEW ds \in [Slots -> Disks], Create(ds)
      PROVE  StripeView!Next /\ ReadSoFar'
  <2>1. StripeView!Create
    BY <1>1, CreateImplements
  <2>2. ~Pending /\ ~Pending'
    <3>1. ~Mounted /\ (Admin("create", "NULL") \/ Admin("create", "SUCCESS"))
      BY <1>1 DEF Create, CreateRefused, stripe_create, MayCreate
    <3>2. ~Pending
      BY <3>1 DEF StripingInv, StripingTypeOK
    <3>3. ~Pending'
      BY <3>1 DEF Admin, Call, Pending
    <3>4. QED BY <3>2, <3>3
  <2>3. QED BY <2>1, <2>2 DEF StripeView!Next, StripeView!Idle, Pending, ReadSoFar
<1>2. ASSUME NEW first \in -1..nblks, NEW num \in 0..MaxTransfer,
             \/ read_begins(first, num)
             \/ \E data \in [1..num -> Block] : write_begins(first, data)
      PROVE  StripeView!Next /\ ReadSoFar'
  <2>1. first \in Int /\ num \in Int /\ ~Pending /\ num \in Nat
    BY <1>2, StripingAssumption
       DEF read_begins, write_begins, Begins, StripingInv, StripingTypeOK
  <2>2. StripeView!Idle
    BY <2>1 DEF StripeView!Idle, Pending
  <2>3. first \in -1..StripeView!Size
    <3>1. StripeView!Size = nblks
      BY StoredBlocks, SameCardinality DEF StripeView!Size, StoredTypeOK
    <3>2. QED BY <3>1
  <2>4. CASE read_begins(first, num)
    <3>1. Begins("read", first, num, <<>>) /\ <<>> \in Seq(Block)
      BY <2>4 DEF read_begins
    <3>2. "read" \in {"read", "write"} /\ "read" # "write"
      OBVIOUS
    <3>3. \/ StripeView!Refuse("read", first, num, <<>>)
          \/ StripeView!ReadBegins(first, num)
      BY <2>1, <3>1, <3>2, BeginsImplements
    <3>4. StripeView!Request(first, num)
      BY <3>3 DEF StripeView!Request
    <3>5. buf' = <<>>
      BY <3>1 DEF Begins
    <3>6. ReadSoFar'
      BY <3>5 DEF ReadSoFar
    <3>7. QED BY <2>2, <2>3, <3>4, <3>6 DEF StripeView!Next
  <2>5. ASSUME NEW data \in [1..num -> Block], write_begins(first, data)
        PROVE  StripeView!Next /\ ReadSoFar'
    <3>1. data \in Seq(Block) /\ Len(data) = num /\ data \in [1..num -> SUBSET Bits]
      BY <2>1 DEF Block
    <3>2. Begins("write", first, num, data)
      BY <2>5, <3>1 DEF write_begins
    <3>3. "write" \in {"read", "write"} /\ "read" # "write"
      OBVIOUS
    <3>4. \/ StripeView!Refuse("write", first, num, data)
          \/ StripeView!Write(first, data)
      BY <2>1, <3>1, <3>2, <3>3, BeginsImplements
    <3>5. StripeView!Request(first, num)
      BY <3>1, <3>4 DEF StripeView!Request
    <3>6. last'.op = "write"
      BY <3>2 DEF Begins, Call
    <3>7. ReadSoFar'
      BY <3>6 DEF ReadSoFar
    <3>8. QED BY <2>2, <2>3, <3>5, <3>7 DEF StripeView!Next
  <2>6. QED BY <1>2, <2>4, <2>5
<1>3. CASE stripe_read
  BY <1>3, ReadImplements DEF StripeView!Next
<1>4. CASE stripe_write
  BY <1>4, WriteImplements DEF StripeView!Next
<1>5. CASE stripe_close
  <2>1. StripeView!Close
    BY <1>5, CloseImplements
  <2>2. ~Pending /\ ~Pending'
    BY <1>5 DEF stripe_close, Admin, Call, Pending
  <2>3. QED BY <2>1, <2>2 DEF StripeView!Next, StripeView!Idle, Pending, ReadSoFar
<1>6. ASSUME NEW d \in Disks, Fail(d)
      PROVE  [StripeView!Next]_StripeView!vars /\ ReadSoFar'
  <2>1. /\ StripeView!MemberFails \/ UNCHANGED StripeView!vars
        /\ StripeView!Idle
    BY <1>6, FailImplements
  <2>2. ~Pending'
    BY <1>6 DEF Fail, volume, Pending
  <2>3. QED BY <2>1, <2>2 DEF StripeView!Next, ReadSoFar
<1>7. CASE UNCHANGED vars
  <2>1. UNCHANGED <<content, status, disks, nblks, buf, last>>
    BY <1>7 DEF vars, volume
  <2>2. Stored' = Stored /\ Down' = Down
    BY <2>1, SameStored DEF Down
  <2>3. QED BY <2>1, <2>2 DEF StripeView!vars, Down, ReadSoFar, Pending
<1>8. QED BY <1>1, <1>2, <1>3, <1>4, <1>5, <1>6, <1>7 DEF Next, Request

\* The striped volume (homework.c: stripe_create, stripe_read, stripe_write,
\* stripe_close) keeps the promise of blkdev.h for every geometry: a read that
\* succeeds returns what was last written, a request outside the volume has no
\* effect, and once a member has failed every request is refused.
THEOREM Implements == Spec => ImplementsVolume
<1>1. Init => StripeView!Init /\ ReadSoFar
  BY DEF Init, StripingInit, StripeView!Init, StripeView!Call, Call, Stored, Mounted,
         ReadSoFar, Pending
<1>2. StripingInv /\ StripingInv' /\ ReadSoFar /\ [Next]_vars
        => [StripeView!Next]_StripeView!vars /\ ReadSoFar'
  BY NextImplements DEF IInv
<1>3. QED BY <1>1, <1>2, LatchNeverSet, PTL DEF Spec, ImplementsVolume, StripeView!Spec
=============================================================================
