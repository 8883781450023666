\* Files of up to two blocks in one directory.
SPECIFICATION Spec
CONSTANTS
  Zero = Zero
  Junk = Junk
  Free = Free
  Names = {a, b}
  NumBlocks = 7
  MaxLost = 3
  Slots = 2
  NPtrs = 3
  BLK = 2
  Data = {x, y}
  MaxDepth = 1
  MaxLen = 2
  MaxSize = 3
  CrashIn = {"unlink", "rmdir", "truncate", "write"}
VIEW WithoutReply
SYMMETRY FileSystemSymmetry
INVARIANT NoSharedBlock
INVARIANT UsedAreMarked
PROPERTY ImplementsTree
