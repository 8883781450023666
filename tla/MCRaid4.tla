------------------------------ MODULE MCRaid4 ------------------------------
(* Instances of Raid4 for TLC.                                              *)
EXTENDS Raid4, TLC

CONSTANT Small     (* the disk that is too small for the volume            *)

MCNumBlocks == [d \in Disks |-> IF d = Small THEN 1 ELSE 2]

\* Bounds the failures; the disk that does not fit is never written.
FewFailures ==
  /\ Cardinality({d \in Disks : status[d] = "failed"}) <= 2
  /\ status[Small] = "open" /\ content[Small] = [b \in {0} |-> {}]

Raid4Symmetry == Permutations(Disks \ {Small})

\* What a finished call returned decides nothing that follows: no action reads
\* it, nor does Volume.  (TLC checks the steps into a state it knows, too.)
WithoutReply ==
  <<content, status, disks, nblks, nbr_failed, buf,
    IF Pending THEN last ELSE <<>>>>
=============================================================================
