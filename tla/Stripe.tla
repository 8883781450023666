------------------------------- MODULE Stripe -------------------------------
(* The striped volume (RAID 0) of homework.c: no redundancy, so one failed  *)
(* member makes every request fail.                                         *)
EXTENDS Striping

ASSUME StripeAssumption == DataDisks = N /\ Tolerates = 0

Init == StripingInit

Create(ds) == CreateRefused(ds) \/ (stripe_create(ds) /\ UNCHANGED content)

stripe_read ==
  /\ Pending /\ last.op = "read"
  /\ LET d == disks[WhichDisk(NextBlock)]
     IN  IF status[d] = "open" THEN BlockRead(content[d][ActualBlock(NextBlock)])
         ELSE BlockFailed(1) /\ UNCHANGED content

stripe_write ==
  /\ Pending /\ last.op = "write"
  /\ LET d == disks[WhichDisk(NextBlock)]
     IN  IF status[d] = "open"
         THEN /\ content' = [content EXCEPT ![d][ActualBlock(NextBlock)] = Head(buf)]
              /\ BlockWritten
         ELSE BlockFailed(1) /\ UNCHANGED content

stripe_close ==
  /\ Mounted /\ ~Pending
  /\ status' = [d \in Disks |-> IF d \in {disks[s] : s \in Slots} THEN "closed"
                                ELSE status[d]]
  /\ Unmounted /\ Admin("close", "SUCCESS")
  /\ UNCHANGED <<content, buf>>

Next ==
  \/ \E ds \in [Slots -> Disks] : Create(ds)
  \/ Request
  \/ stripe_read
  \/ stripe_write
  \/ stripe_close
  \/ \E d \in Disks : Fail(d)

Spec == Init /\ [][Next]_vars

-----------------------------------------------------------------------------
(* Properties *)

\* Types, and that the latch is never set: no member fails inside a request,
\* and get_failed_count has refused it if one had failed before.
TypeOK == StripingTypeOK /\ nbr_failed = 0

\* What the client stored, as far as it can be read back; a write in progress
\* counts as a whole.
Stored ==
  [l \in 0..(nblks - 1) |->
    IF FailedSlots # {} THEN {}
    ELSE IF l \in StillToWrite THEN buf[l - NextBlock + 1]
    ELSE content[disks[WhichDisk(l)]][ActualBlock(l)]]

\* blkdev.h: "E_BADADDR - if one of the blocks being operated on is outside the
\* range of 0-N"; the code (raid0_read, raid0_write) answers E_SIZE.
StripeView ==
  INSTANCE Volume WITH
    BadAddress <- "E_SIZE",
    down <- IF Mounted THEN get_failed_count ELSE 0,
    store <- Stored

\* The arithmetic places the blocks of this volume one to one.
PlacementOK == Mounted => Placement(NumBlocks[disks[0]])

\* The striped volume keeps the promise of a volume that survives no failure.
ImplementsVolume == StripeView!Spec
=============================================================================
