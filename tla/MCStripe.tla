------------------------------ MODULE MCStripe ------------------------------
(* Instances of Stripe for TLC.                                             *)
EXTENDS Stripe, TLC

CONSTANTS
  Small,         (* the disk that is too small for the volume              *)
  MaxBitsSet     (* bounds the blocks that are not zero                    *)

\* Two whole stripes of two blocks, and a block the volume does not use.
MCNumBlocks == [d \in Disks |-> IF d = Small THEN 2 ELSE 5]

StripeSymmetry == Permutations(Disks \ {Small})

SparseContent ==
  Cardinality({x \in {<<d, b>> : d \in Disks, b \in 0..4} :
                 x[2] \in DOMAIN content[x[1]] /\ content[x[1]][x[2]] # {}})
    <= MaxBitsSet

\* What a finished call returned decides nothing that follows: no action reads
\* it, nor does Volume.  (TLC checks the steps into a state it knows, too.)
WithoutReply ==
  <<content, status, disks, nblks, nbr_failed, buf,
    IF Pending THEN last ELSE <<>>>>
=============================================================================
