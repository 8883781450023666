------------------------------- MODULE Images -------------------------------
(***************************************************************************)
(* The image devices of image.c that every volume of the RAID homework     *)
(* (src/cs5600-p3-raid-cs5600-p3-raid/homework.c) is made of.  A block is  *)
(* the set of its one bits, so xor is symmetric difference.  A device is   *)
(* failed for good by image_fail (its descriptor is -1 from then on) and   *)
(* freed by image_close.                                                   *)
(***************************************************************************)
EXTENDS Integers, Sequences, FiniteSets, FiniteSetsExt

CONSTANTS
  Disks,         (* the image files                                        *)
  NumBlocks,     (* blocks of each, whole ones: the size / BLOCK_SIZE      *)
  Bits           (* positions in a block                                   *)

\* An empty image file is left out.
ASSUME ImagesAssumption == NumBlocks \in [Disks -> Nat \ {0}]

Block == SUBSET Bits

VARIABLES
  content,       (* disk |-> block number |-> block                        *)
  status         (* disk |-> "open", "failed" (fd = -1) or "closed"        *)

Blocks(d) == 0..(NumBlocks[d] - 1)

Contents == {c \in [Disks -> UNION {[Blocks(d) -> Block] : d \in Disks}] :
               \A d \in Disks : DOMAIN c[d] = Blocks(d)}

\* image_create opens image files with any contents.
ImagesInit == content \in Contents /\ status = [d \in Disks |-> "open"]

ImagesTypeOK ==
  /\ content \in Contents
  /\ status \in [Disks -> {"open", "failed", "closed"}]

\* What image_read and image_write return, and what image_read puts in buf.
ImageStatus(d, offset, len) ==
  IF status[d] # "open" THEN "E_UNAVAIL"
  ELSE IF offset < 0 \/ offset + len > NumBlocks[d] THEN "E_BADADDR"
  ELSE "SUCCESS"

ImageData(d, offset, len) == [i \in 1..len |-> content[d][offset + i - 1]]

\* The blocks of d after image_write(d, offset, Len(buf), buf).
ImageWritten(d, offset, buf) ==
  [b \in DOMAIN content[d] |-> IF b \in offset..(offset + Len(buf) - 1)
                               THEN buf[b - offset + 1] ELSE content[d][b]]

image_fail(d) ==
  /\ status[d] # "closed"
  /\ status' = [status EXCEPT ![d] = "failed"]
  /\ UNCHANGED content

\* parity() applied to the blocks f[i], i \in S, one after the other: a bit is
\* set if it is set in an odd number of them.  (Of two blocks it is SymDiff.)
Parity(f, S) == {b \in Bits : Cardinality({i \in S : b \in f[i]}) % 2 = 1}
=============================================================================
