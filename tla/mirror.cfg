\* Three disks of the volume's size and a smaller one; a member is replaced
\* only while a copy is left.
SPECIFICATION Spec
CONSTANTS
  Null = Null
  Small = d4
  Disks = {d1, d2, d3, d4}
  NumBlocks <- MCNumBlocks
  Bits = {1}
  MaxTransfer = 2
  ReplaceLost = FALSE
VIEW WithoutReply
SYMMETRY MirrorSymmetry
INVARIANT TypeOK
INVARIANT MembersAgree
PROPERTY ImplementsVolume
