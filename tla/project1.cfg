\* Project 1: the command loop of part-2 and the processes of part-3.
SPECIFICATION Spec
CONSTANTS
  PageSize = 4
  MemSize = 20
  Unmapped = Unmapped
  Dirty = Dirty
  Zero = Zero
  NULL = NULL
  Flag = Flag
  Guard = Guard
  DoYield = DoYield
  Files <- MCFiles
  Phdrs <- MCPhdrs
  Lines <- MCLines
  BufLen = 9
  MaxArgs = 3
  TERMINATE_STRING <- MCTerminate
  Ugrep <- MCUgrep
  LoadOffset = 4
  Program <- MCProgram
  Process <- MCProcess
  Offset <- MCOffset
  Used <- MCUsed
  Values = {1, 2}
\* part-2 may quit, part-3 ends.
CHECK_DEADLOCK FALSE
INVARIANT TypeOK
INVARIANT ArgsAreWords
INVARIANT LinesAreWhole
INVARIANT ImagesIntact
PROPERTY FinishesDone
PROPERTY ImplementsCoroutines
