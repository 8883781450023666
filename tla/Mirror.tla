------------------------------- MODULE Mirror -------------------------------
(***************************************************************************)
(* The mirrored volume (RAID 1) of homework.c over two image devices.  The *)
(* program is sequential, and image_fail is the only thing that fails a    *)
(* device, so a call to the volume is one step.                            *)
(***************************************************************************)
EXTENDS Images

CONSTANTS
  Null,          (* a member flagged bad                                   *)
  MaxTransfer,   (* bounds the length of a request, for TLC                *)
  ReplaceLost    (* the client replaces a member when no copy is left      *)

ASSUME MirrorAssumption ==
  Null \notin Disks /\ MaxTransfer \in Nat /\ ReplaceLost \in BOOLEAN

VARIABLES
  disks,         (* mirror->disks, a function on 0..1; empty: no volume    *)
  nblks,         (* mirror->nblks                                          *)
  last           (* the last call and what it returned                     *)

vars == <<content, status, disks, nblks, last>>

Slots == 0..1
Mounted == disks # <<>>

Call(op, first, num, st, data) ==
  [op |-> op, first |-> first, num |-> num, status |-> st, data |-> data]

Admin(op, st) == last' = Call(op, 0, 0, st, <<>>)

Init ==
  /\ ImagesInit
  /\ disks = <<>> /\ nblks = 0
  /\ last = Call("none", 0, 0, "SUCCESS", <<>>)

-----------------------------------------------------------------------------
\* The caller hands over two open devices with identical contents; only their
\* sizes are checked.
mirror_create(d0, d1) ==
  /\ ~Mounted
  /\ d0 # d1 /\ status[d0] = "open" /\ status[d1] = "open"
  /\ \/ /\ NumBlocks[d0] # NumBlocks[d1]
        /\ Admin("create", "NULL")
        /\ UNCHANGED <<disks, nblks>>
     \/ /\ NumBlocks[d0] = NumBlocks[d1] /\ content[d0] = content[d1]
        /\ disks' = [s \in Slots |-> IF s = 0 THEN d0 ELSE d1]
        /\ nblks' = NumBlocks[d0]
        /\ Admin("create", "SUCCESS")
  /\ UNCHANGED <<content, status>>

OutOfRange(first, num) == num <= 0 \/ first < 0 \/ first + num > nblks

\* What a read or write of a member returns; a flagged member is not asked.
MemberStatus(s, first, num) ==
  IF disks[s] = Null THEN "E_UNAVAIL" ELSE ImageStatus(disks[s], first, num)

Answering(first, num) == {s \in Slots : MemberStatus(s, first, num) = "SUCCESS"}

\* The members in S that answered E_UNAVAIL are flagged.
Flagged(S, first, num) ==
  [s \in Slots |-> IF s \in S /\ MemberStatus(s, first, num) = "E_UNAVAIL"
                   THEN Null ELSE disks[s]]

\* A read asks member 1 only when member 0 gave no data.
Asked(first, num) == IF 0 \in Answering(first, num) THEN {0} ELSE Slots

ReadStatus(first, num) ==
  IF Answering(first, num) # {} THEN "SUCCESS"
  ELSE IF disks[1] = Null THEN MemberStatus(0, first, num)
  ELSE MemberStatus(1, first, num)

ReadData(first, num) ==
  IF Answering(first, num) = {} THEN <<>>
  ELSE ImageData(disks[Min(Answering(first, num))], first, num)

mirror_read(first, num) ==
  /\ Mounted
  /\ \/ /\ OutOfRange(first, num)
        /\ last' = Call("read", first, num, "E_SIZE", <<>>)
        /\ UNCHANGED disks
     \/ /\ ~OutOfRange(first, num)
        /\ disks' = Flagged(Asked(first, num), first, num)
        /\ last' = Call("read", first, num, ReadStatus(first, num),
                        ReadData(first, num))
  /\ UNCHANGED <<content, status, nblks>>

WriteTo(S, first, buf) ==
  content' = [d \in Disks |-> IF d \in {disks[s] : s \in S}
                              THEN ImageWritten(d, first, buf) ELSE content[d]]

WriteStatus(first, num) ==
  IF Answering(first, num) # {} THEN "SUCCESS" ELSE "E_UNAVAIL"

\* Mutant: member 1 is written only when member 0 did not take the data.
WritesOneMember(first, buf) ==
  /\ Mounted
  /\ \/ /\ OutOfRange(first, Len(buf))
        /\ last' = Call("write", first, Len(buf), "E_SIZE", buf)
        /\ UNCHANGED <<content, disks>>
     \/ /\ ~OutOfRange(first, Len(buf))
        /\ disks' = Flagged(Slots, first, Len(buf))
        /\ WriteTo(Answering(first, Len(buf)) \cap Asked(first, Len(buf)), first, buf)
        /\ last' = Call("write", first, Len(buf), WriteStatus(first, Len(buf)), buf)
  /\ UNCHANGED <<status, nblks>>

mirror_write(first, buf) ==
  /\ Mounted
  /\ \/ /\ OutOfRange(first, Len(buf))
        /\ last' = Call("write", first, Len(buf), "E_SIZE", buf)
        /\ UNCHANGED <<content, disks>>
     \/ /\ ~OutOfRange(first, Len(buf))
        /\ disks' = Flagged(Slots, first, Len(buf))
        /\ WriteTo(Answering(first, Len(buf)), first, buf)
        /\ last' = Call("write", first, Len(buf), WriteStatus(first, Len(buf)), buf)
  /\ UNCHANGED <<status, nblks>>

Works(s) == disks[s] # Null /\ status[disks[s]] = "open"

\* Mutant: the size of the new disk is not checked.
ReplacesAnySize(i, new) ==
  /\ Mounted
  /\ status[new] = "open" /\ new \notin {disks[s] : s \in Slots}
  /\ ReplaceLost \/ \E s \in Slots : Works(s)
  /\ content' = [content EXCEPT ![new] =
       [b \in Blocks(new) |-> IF ReadStatus(b, 1) = "SUCCESS" THEN ReadData(b, 1)[1] ELSE @[b]]]
  /\ disks' = [Flagged(Asked(0, 1), 0, 1) EXCEPT ![i] = new]
  /\ Admin("replace", "SUCCESS")
  /\ UNCHANGED <<status, nblks>>

\* Mutant: the copy misses the last block.
ReplaceMissesLast(i, new) ==
  /\ Mounted
  /\ status[new] = "open" /\ new \notin {disks[s] : s \in Slots}
  /\ \E s \in Slots : Works(s)
  /\ NumBlocks[new] = nblks
  /\ content' = [content EXCEPT ![new] =
       [b \in Blocks(new) |-> IF b < nblks - 1 THEN ReadData(b, 1)[1] ELSE @[b]]]
  /\ disks' = [Flagged(Asked(0, 1), 0, 1) EXCEPT ![i] = new]
  /\ Admin("replace", "SUCCESS")
  /\ UNCHANGED <<status, nblks>>

\* Every block is read through the volume and written to the new disk, whatever
\* the read returned: if no member answers, each of them gets the bytes that
\* happen to be in the buffer.
mirror_replace(i, new) ==
  /\ Mounted
  /\ status[new] = "open" /\ new \notin {disks[s] : s \in Slots}
  /\ ReplaceLost \/ \E s \in Slots : Works(s)
  /\ \/ /\ NumBlocks[new] # nblks
        /\ Admin("replace", "E_SIZE")
        /\ UNCHANGED <<content, disks>>
     \/ /\ NumBlocks[new] = nblks
        /\ \E bfr \in Block :
             content' = [content EXCEPT ![new] =
               [b \in Blocks(new) |-> IF ReadStatus(b, 1) = "SUCCESS"
                                      THEN ReadData(b, 1)[1] ELSE bfr]]
        /\ disks' = [Flagged(Asked(0, 1), 0, 1) EXCEPT ![i] = new]
        /\ Admin("replace", "SUCCESS")
  /\ UNCHANGED <<status, nblks>>

\* A flagged member is not closed.
mirror_close ==
  /\ Mounted
  /\ status' = [d \in Disks |-> IF d \in {disks[s] : s \in Slots} THEN "closed"
                                ELSE status[d]]
  /\ disks' = <<>> /\ nblks' = 0
  /\ Admin("close", "SUCCESS")
  /\ UNCHANGED content

Fail(d) == image_fail(d) /\ UNCHANGED <<disks, nblks, last>>

Next ==
  \/ \E d0, d1 \in Disks : mirror_create(d0, d1)
  \/ \E first \in -1..nblks, num \in 0..MaxTransfer :
       \/ mirror_read(first, num)
       \/ \E buf \in [1..num -> Block] : mirror_write(first, buf)
  \/ \E i \in Slots, new \in Disks : mirror_replace(i, new)
  \/ mirror_close
  \/ \E d \in Disks : Fail(d)

Spec == Init /\ [][Next]_vars

-----------------------------------------------------------------------------
(* Properties *)

\* Types; the members are two different devices of the volume's size, and none
\* of them has been closed.
TypeOK ==
  /\ ImagesTypeOK
  /\ nblks \in Nat
  /\ Mounted => /\ disks \in [Slots -> Disks \cup {Null}]
                /\ disks[0] = disks[1] => disks[0] = Null
                /\ \A s \in Slots : disks[s] # Null =>
                     NumBlocks[disks[s]] = nblks /\ status[disks[s]] # "closed"

\* Two working members hold the same blocks after every call, whichever of them
\* failed or was replaced before: a read may be answered by either.
MembersAgree ==
  Mounted /\ Works(0) /\ Works(1) => content[disks[0]] = content[disks[1]]

\* What the client stored, as far as it can be read back.
Stored ==
  IF ~Mounted THEN <<>>
  ELSE IF Works(0) THEN content[disks[0]]
  ELSE IF Works(1) THEN content[disks[1]]
  ELSE [l \in 0..(nblks - 1) |-> {}]

Down == IF Mounted THEN Cardinality({s \in Slots : ~Works(s)}) ELSE 0

\* blkdev.h: "E_BADADDR - if one of the blocks being operated on is outside the
\* range of 0-N"; the code (mirror_read, mirror_write) answers E_SIZE.
MirrorView ==
  INSTANCE Volume WITH
    Tolerates <- 1, BadAddress <- "E_SIZE", down <- Down, store <- Stored

\* The mirror keeps the promise of a volume that survives one failed member:
\* what a read returns was last written there, an error has no effect, and a
\* member may be replaced at any time while a copy is left.
ImplementsVolume == MirrorView!Spec
=============================================================================
