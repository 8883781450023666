\* Directories of two levels and files of one unit; the process may be stopped
\* in the middle of a removal, a cut or a write.
SPECIFICATION Spec
CONSTANTS
  Zero = Zero
  Junk = Junk
  Free = Free
  Names = {a, b}
  NumBlocks = 8
  MaxLost = 0
  Slots = 2
  NPtrs = 2
  BLK = 2
  Data = {x}
  MaxDepth = 2
  MaxLen = 1
  MaxSize = 1
  CrashIn = {"unlink", "rmdir", "truncate", "write"}
CONSTRAINT FewLost
VIEW WithoutReply
SYMMETRY FileSystemSymmetry
INVARIANT TypeOK
INVARIANT NoSharedBlock
INVARIANT UsedAreMarked
PROPERTY ImplementsTree
