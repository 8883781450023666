\* A directory whose first entry has been removed is taken for empty.
SPECIFICATION Spec
CONSTANTS
  Zero = Zero
  Junk = Junk
  Free = Free
  Names = {a, b}
  NumBlocks = 8
  MaxLost = 0
  Slots = 2
  NPtrs = 2
  BLK = 2
  Data = {x}
  MaxDepth = 2
  MaxLen = 1
  MaxSize = 1
  CrashIn = {}
PROPERTY RmdirOnlyEmpty
