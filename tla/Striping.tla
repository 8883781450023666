------------------------------ MODULE Striping ------------------------------
(***************************************************************************)
(* What the striped volume and the RAID 4 volume of homework.c share:      *)
(* struct stripe_dev, stripe_create, the address arithmetic and the        *)
(* recursion that serves a request block by block.  The program is         *)
(* sequential, so between two blocks of a request nothing else happens.    *)
(***************************************************************************)
EXTENDS Images

CONSTANTS
  N,             (* nbr_disks                                              *)
  DataDisks,     (* the first so many of them hold data: N, or N - 1       *)
  Tolerates,     (* the failed members that do not stop a request          *)
  Unit,          (* stripe_size                                            *)
  MaxTransfer    (* bounds the length of a request, for TLC                *)

ASSUME StripingAssumption ==
  /\ N \in Nat \ {0} /\ DataDisks \in 1..N /\ Unit \in Nat \ {0}
  /\ Tolerates \in Nat /\ MaxTransfer \in Nat

VARIABLES
  disks,         (* stripe->disks, a function on 0..N-1; empty: no volume  *)
  nblks,         (* stripe->nblks                                          *)
  nbr_failed,    (* stripe->nbr_failed                                     *)
  buf,           (* the blocks read so far, or those still to be written   *)
  last           (* the last request, PENDING while it is being served     *)

volume == <<disks, nblks, nbr_failed, buf, last>>
vars == <<content, status, volume>>

Slots == 0..(N - 1)
DataSlots == 0..(DataDisks - 1)
Mounted == disks # <<>>
Pending == last.status = "PENDING"

Call(op, first, num, st, data) ==
  [op |-> op, first |-> first, num |-> num, status |-> st, data |-> data]

Admin(op, st) == last' = Call(op, 0, 0, st, <<>>)

StripingInit ==
  /\ ImagesInit
  /\ disks = <<>> /\ nblks = 0 /\ nbr_failed = 0 /\ buf = <<>>
  /\ last = Call("none", 0, 0, "SUCCESS", <<>>)

-----------------------------------------------------------------------------
(* Where block lba of the volume is kept. *)

StripeWidth == DataDisks * Unit

\* Mutants: the unit is ignored; the number of the stripe is ignored.
WhichDiskByBlock(lba) == lba % DataDisks
BlockOfFirstStripe(lba) == (lba % StripeWidth) % Unit

WhichDisk(lba) == (lba % StripeWidth) \div Unit
ActualBlock(lba) ==
  (lba \div StripeWidth) * Unit + ((lba % StripeWidth) % Unit)

\* The part of a disk of n blocks that the stripes use.
Used(n) == (n \div Unit) * Unit

-----------------------------------------------------------------------------
Works(s) == status[disks[s]] = "open"
FailedSlots == {s \in Slots : ~Works(s)}
get_failed_count == Cardinality(FailedSlots)

SameSize(ds) == \A s \in Slots : NumBlocks[ds[s]] = NumBlocks[ds[0]]

\* The devices handed to create are open and different; sizes are checked.
MayCreate(ds) ==
  /\ ~Mounted
  /\ \A s \in Slots : status[ds[s]] = "open"
  /\ \A s, t \in Slots : ds[s] = ds[t] => s = t

CreateRefused(ds) ==
  /\ MayCreate(ds) /\ ~SameSize(ds)
  /\ Admin("create", "NULL")
  /\ UNCHANGED <<content, status, disks, nblks, nbr_failed, buf>>

stripe_create(ds) ==
  /\ MayCreate(ds) /\ SameSize(ds)
  /\ disks' = ds
  /\ nblks' = Used(NumBlocks[ds[0]]) * DataDisks
  /\ nbr_failed' = 0
  /\ Admin("create", "SUCCESS")
  /\ UNCHANGED <<status, buf>>

\* Mutant: failed members are not counted.
RefusalUncounted(first, num) ==
  IF nbr_failed # 0 THEN "E_UNAVAIL"
  ELSE IF num <= 0 \/ first < 0 \/ first + num > nblks THEN "E_SIZE"
  ELSE "PENDING"

\* The checks at the top of stripe_rw_oper and raid4_rw_oper.
Refusal(first, num) ==
  IF nbr_failed # 0 THEN "E_UNAVAIL"
  ELSE IF num <= 0 \/ first < 0 \/ first + num > nblks THEN "E_SIZE"
  ELSE IF get_failed_count > Tolerates THEN "E_UNAVAIL"
  ELSE "PENDING"

\* data holds the blocks to write; it is empty for a read.
Begins(op, first, num, data) ==
  /\ Mounted /\ ~Pending
  /\ LET st == Refusal(first, num)
     IN  /\ last' = Call(op, first, num, st, data)
         /\ buf' = IF st = "PENDING" THEN data ELSE <<>>
  /\ UNCHANGED <<content, status, disks, nblks, nbr_failed>>

read_begins(first, num) == Begins("read", first, num, <<>>)
write_begins(first, data) == Begins("write", first, Len(data), data)

\* The block that is served next, and whether it is the last one.
NextBlock == IF last.op = "read" THEN last.first + Len(buf)
             ELSE last.first + last.num - Len(buf)

\* The blocks of the volume a pending write has still to write.
StillToWrite ==
  IF Pending /\ last.op = "write" THEN NextBlock..(last.first + last.num - 1) ELSE {}

\* A block of the pending read has been read into b.
BlockRead(b) ==
  /\ IF Len(buf) + 1 = last.num
     THEN /\ last' = [last EXCEPT !.status = "SUCCESS", !.data = Append(buf, b)]
          /\ buf' = <<>>
     ELSE buf' = Append(buf, b) /\ UNCHANGED last
  /\ UNCHANGED <<content, status, disks, nblks, nbr_failed>>

\* The first block of buf has been written; the caller says where.
BlockWritten ==
  /\ buf' = Tail(buf)
  /\ last' = IF Len(buf) = 1 THEN [last EXCEPT !.status = "SUCCESS"] ELSE last
  /\ UNCHANGED <<status, disks, nblks, nbr_failed>>

\* A block failed: the latch is set, with this value if the request has only
\* one block (the recursion sets it to 1), and the request ends.
BlockFailed(latch) ==
  /\ nbr_failed' = IF last.num > 1 THEN 1 ELSE latch
  /\ last' = [last EXCEPT !.status = "E_UNAVAIL"]
  /\ buf' = <<>>
  /\ UNCHANGED <<status, disks, nblks>>

Fail(d) == ~Pending /\ image_fail(d) /\ UNCHANGED volume

Unmounted == disks' = <<>> /\ nblks' = 0 /\ nbr_failed' = 0

Request ==
  \E first \in -1..nblks, num \in 0..MaxTransfer :
    \/ read_begins(first, num)
    \/ \E data \in [1..num -> Block] : write_begins(first, data)

-----------------------------------------------------------------------------
(* Properties *)

\* Types; the members are different devices, large enough, and no request is
\* longer than what is left of it.
StripingTypeOK ==
  /\ ImagesTypeOK
  /\ nblks \in Nat /\ nbr_failed \in 0..2
  /\ buf \in Seq(Block)
  /\ Mounted => /\ disks \in [Slots -> Disks]
                /\ \A s, t \in Slots : disks[s] = disks[t] => s = t
                /\ \E k \in 0..nblks :
                     /\ nblks = k * StripeWidth
                     /\ \A s \in Slots : k * Unit <= NumBlocks[disks[s]]
  /\ ~Mounted => nblks = 0
  /\ last \in [op : {"none", "create", "read", "write", "replace", "close"},
               first : Int, num : Int,
               status : {"SUCCESS", "PENDING", "E_SIZE", "E_UNAVAIL", "NULL"},
               data : Seq(Block)]
  /\ Pending => /\ Mounted
                /\ last.first >= 0 /\ last.first + last.num <= nblks
                /\ IF last.op = "read" THEN last.op = "read" /\ Len(buf) < last.num
                   ELSE last.op = "write" /\ Len(buf) \in 1..last.num

\* The arithmetic neither puts two blocks of the volume in one place nor one
\* beyond the whole stripes of its disk, and uses every block there.
Placement(n) ==
  LET lbas == 0..(Used(n) * DataDisks - 1)
      place(lba) == <<WhichDisk(lba), ActualBlock(lba)>>
  IN  /\ \A l, m \in lbas : place(l) = place(m) => l = m
      /\ {place(l) : l \in lbas} = DataSlots \X (0..(Used(n) - 1))
=============================================================================
