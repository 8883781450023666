\* Two disks with stripes of two blocks, and a disk that does not fit.
SPECIFICATION Spec
CONSTANTS
  Small = d3
  Disks = {d1, d2, d3}
  NumBlocks <- MCNumBlocks
  Bits = {1}
  N = 2
  DataDisks = 2
  Tolerates = 0
  Unit = 2
  MaxTransfer = 2
  MaxBitsSet = 2
VIEW WithoutReply
SYMMETRY StripeSymmetry
CONSTRAINT SparseContent
INVARIANT TypeOK
INVARIANT PlacementOK
PROPERTY ImplementsVolume
