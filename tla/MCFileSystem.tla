---------------------------- MODULE MCFileSystem ----------------------------
(* Instances of FileSystem for TLC.                                         *)
EXTENDS FileSystem, TLC

CONSTANT MaxLost   (* bounds the blocks in use that no path leads to       *)

FileSystemSymmetry == Permutations(Names) \cup Permutations(Data)

FewLost ==
  Cardinality(bitmap) - 2 - Cardinality(UNION {Owned(p) : p \in Existing}) <= MaxLost

\* Neither the last reply nor the count of free blocks decides anything that
\* follows.  (TLC checks the steps into a state it knows, too.)
WithoutReply == <<disk, bitmap>>
=============================================================================
