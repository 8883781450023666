------------------------------ MODULE MCMirror ------------------------------
(* Instances of Mirror for TLC.                                             *)
EXTENDS Mirror, TLC

CONSTANT Small     (* the disk that is too small for the volume            *)

\* All disks have two blocks but one.
MCNumBlocks == [d \in Disks |-> IF d = Small THEN 1 ELSE 2]

MirrorSymmetry == Permutations(Disks \ {Small})

\* What a finished call returned decides nothing that follows: no action reads
\* it, nor does Volume.  (TLC checks the steps into a state it knows, too.)
WithoutReply ==
  <<content, status, disks, nblks>>
=============================================================================
