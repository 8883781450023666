\* Two data disks and parity, a spare disk and one that does not fit.
SPECIFICATION Spec
CONSTANTS
  Small = d5
  Disks = {d1, d2, d3, d4, d5}
  NumBlocks <- MCNumBlocks
  Bits = {1}
  N = 3
  DataDisks = 2
  Tolerates = 1
  Unit = 1
  MaxTransfer = 2
  Replaceable = {0, 2}
  ReplaceLost = FALSE
VIEW WithoutReply
SYMMETRY Raid4Symmetry
CONSTRAINT FewFailures
INVARIANT TypeOK
INVARIANT ParityHolds
PROPERTY ImplementsVolume
