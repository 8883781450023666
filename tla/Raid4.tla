-------------------------------- MODULE Raid4 --------------------------------
(***************************************************************************)
(* The RAID 4 volume of homework.c: data striped over all disks but the    *)
(* last, which holds the parity.  One failed member is read and written    *)
(* through the others.                                                     *)
(***************************************************************************)
EXTENDS Striping

CONSTANTS
  Replaceable,   (* the members the client replaces                        *)
  ReplaceLost    (* also when another member does not work                 *)

ASSUME Raid4Assumption ==
  /\ N >= 2 /\ DataDisks = N - 1 /\ Tolerates = 1
  /\ Replaceable \subseteq Slots /\ ReplaceLost \in BOOLEAN

ParitySlot == N - 1

\* Block b of the disks in S; the parity of the others is what a disk holds.
RowParity(S, b) == Parity([s \in S |-> content[disks[s]][b]], S)

Init == StripingInit

\* Parity is computed from whatever the disks hold and written.
raid4_create(ds) ==
  /\ stripe_create(ds)
  /\ content' = [content EXCEPT ![ds[ParitySlot]] =
       [b \in DOMAIN @ |-> IF b < Used(NumBlocks[ds[0]])
                           THEN Parity([s \in DataSlots |-> content[ds[s]][b]], DataSlots)
                           ELSE @[b]]]

Create(ds) == CreateRefused(ds) \/ raid4_create(ds)

-----------------------------------------------------------------------------
(* raid4_rw_oper *)

\* What a read of block b of member w gives: its own block, or the parity of
\* the others.
Readable(w) == Works(w) \/ get_failed_count < 2
ReadBlock(w, b) ==
  IF Works(w) THEN content[disks[w]][b] ELSE RowParity(Slots \ {w}, b)

raid4_read ==
  /\ Pending /\ last.op = "read"
  /\ IF Readable(WhichDisk(NextBlock))
     THEN BlockRead(ReadBlock(WhichDisk(NextBlock), ActualBlock(NextBlock)))
     ELSE BlockFailed(2) /\ UNCHANGED content

\* Mutants: the old block stays in the parity; a block that cannot be written
\* is left out of it.
ParityKeepsOld(w, b, v) ==
  IF Works(w)
  THEN SymDiff(content[disks[ParitySlot]][b], v)
  ELSE SymDiff(v, RowParity({s \in DataSlots : Works(s)}, b))

ParityOfWorking(w, b, v) ==
  IF Works(w)
  THEN SymDiff(SymDiff(content[disks[ParitySlot]][b], content[disks[w]][b]), v)
  ELSE RowParity({s \in DataSlots : Works(s)}, b)

\* The parity written with a new block v of member w.  If w works the old block
\* is taken out of the old parity and v put in, else it is computed from the
\* data members that work.  (An unreadable parity cannot be written either.)
NewParity(w, b, v) ==
  IF Works(w)
  THEN SymDiff(SymDiff(content[disks[ParitySlot]][b], content[disks[w]][b]), v)
  ELSE SymDiff(v, RowParity({s \in DataSlots : Works(s)}, b))

\* image_write of one block, of the members in S that work.
WriteMembers(S, b, v) ==
  content' = [d \in Disks |->
    IF \E s \in S : Works(s) /\ disks[s] = d
    THEN [content[d] EXCEPT ![b] = v[CHOOSE s \in S : disks[s] = d]]
    ELSE content[d]]

WriteBlock(w, b, v) ==
  WriteMembers({w, ParitySlot}, b,
    [s \in {w, ParitySlot} |-> IF s = w THEN v ELSE NewParity(w, b, v)])

raid4_write ==
  /\ Pending /\ last.op = "write"
  /\ WriteBlock(WhichDisk(NextBlock), ActualBlock(NextBlock), Head(buf))
  /\ BlockWritten

-----------------------------------------------------------------------------
\* The volume's block that is read to fill block b of a replaced data disk.
\* (It belongs to data disk 0, whichever is replaced.)
ReplacedFrom(b) == (b \div Unit) * StripeWidth + (b % Unit)

\* raid4_replace reads all it needs, whatever the reads return; what it writes
\* if one fails is left in its buffer by an earlier read.
CanRebuild(i) ==
  IF i = ParitySlot THEN \A s \in DataSlots : Works(s)
  ELSE nbr_failed = 0 /\ get_failed_count < 2

Rebuilt(i, b) ==
  IF i = ParitySlot THEN RowParity(DataSlots, b)
  ELSE ReadBlock(WhichDisk(ReplacedFrom(b)), ActualBlock(ReplacedFrom(b)))

raid4_replace(i, new) ==
  /\ Mounted /\ ~Pending
  /\ status[new] = "open" /\ new \notin {disks[s] : s \in Slots}
  /\ i \in Replaceable
  /\ ReplaceLost \/ FailedSlots \subseteq {i}
  /\ LET blks == nblks \div DataDisks IN
     \/ /\ blks > NumBlocks[new]
        /\ Admin("replace", "E_SIZE")
        /\ UNCHANGED <<content, disks>>
     \/ /\ blks <= NumBlocks[new]
        /\ \E stale \in [0..(blks - 1) -> Block] :
             content' = [content EXCEPT ![new] =
               [b \in DOMAIN @ |-> IF b >= blks THEN @[b]
                                   ELSE IF CanRebuild(i) THEN Rebuilt(i, b)
                                   ELSE stale[b]]]
        /\ disks' = [disks EXCEPT ![i] = new]
        /\ Admin("replace", "SUCCESS")
  /\ UNCHANGED <<status, nblks, nbr_failed, buf>>

\* raid4_close is empty: the devices stay open, the client drops the volume.
raid4_close ==
  /\ Mounted /\ ~Pending
  /\ Unmounted /\ Admin("close", "SUCCESS")
  /\ UNCHANGED <<content, status, buf>>

Next ==
  \/ \E ds \in [Slots -> Disks] : Create(ds)
  \/ Request
  \/ raid4_read
  \/ raid4_write
  \/ \E i \in Slots, new \in Disks : raid4_replace(i, new)
  \/ raid4_close
  \/ \E d \in Disks : Fail(d)

Spec == Init /\ [][Next]_vars

-----------------------------------------------------------------------------
(* Properties *)

\* Types, and that the latch is never set (nothing would reset it, and the
\* volume would refuse all requests even after its members were replaced).
TypeOK == StripingTypeOK /\ nbr_failed = 0

\* Every stripe's blocks xor to zero, over all members, between any two writes
\* of a block, as long as all members work: whichever member fails next, the
\* others determine what it held.
ParityHolds ==
  Mounted /\ FailedSlots = {} =>
    \A b \in 0..(nblks \div DataDisks - 1) : RowParity(Slots, b) = {}

\* What the client stored, as far as it can be read back; a write in progress
\* counts as a whole.
Stored ==
  [l \in 0..(nblks - 1) |->
    IF get_failed_count > Tolerates THEN {}
    ELSE IF l \in StillToWrite THEN buf[l - NextBlock + 1]
    ELSE ReadBlock(WhichDisk(l), ActualBlock(l))]

\* blkdev.h: "E_BADADDR - if one of the blocks being operated on is outside the
\* range of 0-N"; the code (raid4_read, raid4_write) answers E_SIZE.
Raid4View ==
  INSTANCE Volume WITH
    BadAddress <- "E_SIZE",
    down <- IF Mounted THEN get_failed_count ELSE 0,
    store <- Stored

\* The volume keeps the promise of one that survives one failed member, read,
\* written and repaired in degraded state or not.
ImplementsVolume == Raid4View!Spec

\* raid4_replace: "You will need to reconstruct content from data and parity
\* before returning from this call", so what a read returns is the same before
\* and after it.
ReplaceKeepsContents ==
  [][Mounted /\ Mounted' /\ disks' # disks => Stored' = Stored]_vars
=============================================================================
