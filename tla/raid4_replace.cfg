\* Any of the members is replaced, while the others work.
SPECIFICATION Spec
CONSTANTS
  Small = d5
  Disks = {d1, d2, d3, d4, d5}
  NumBlocks <- MCNumBlocks
  Bits = {1}
  N = 3
  DataDisks = 2
  Tolerates = 1
  Unit = 1
  MaxTransfer = 2
  Replaceable = {0, 1, 2}
  ReplaceLost = FALSE
SYMMETRY Raid4Symmetry
CONSTRAINT FewFailures
PROPERTY ReplaceKeepsContents
