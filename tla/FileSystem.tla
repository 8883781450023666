----------------------------- MODULE FileSystem -----------------------------
(***************************************************************************)
(* The file system of src/cs5600-p4-file-system-cs5600-p4-file-system/     *)
(* homework.c on its disk: a superblock, a block of the bitmap, and blocks *)
(* that are inodes, directories or data.  A call of fs_ops is one step; it *)
(* writes some blocks one after the other, and the process may be stopped  *)
(* between two of them and started again on what is on the disk.           *)
(*                                                                         *)
(* A block is a record with its kind.  A directory block holds Slots       *)
(* entries, a data block BLK units of data.  The times and the owner of an *)
(* inode and its permission bits are left out.  A path is a sequence of    *)
(* names of at most MaxDepth components (MAX_PATH_LEN, ADVICE.md).         *)
(***************************************************************************)
EXTENDS Integers, SequencesExt

CONSTANTS
  Names,         (* names of entries, at most MAX_NAME_LEN long            *)
  NumBlocks,     (* superblock.disk_size                                   *)
  Slots,         (* MAX_DIR_ENTRIES_PER_BLOCK                              *)
  NPtrs,         (* pointers in an inode                                   *)
  BLK,           (* units in a data block, FS_BLOCK_SIZE                   *)
  Data,          (* values of a unit that the client writes                *)
  Zero,          (* the unit that calloc leaves in a buffer                *)
  Junk,          (* a unit of a block that was in use for something else   *)
  Free,          (* a directory entry that is not valid                    *)
  MaxDepth,      (* bounds the paths                                       *)
  MaxLen,        (* bounds the data of a write, for TLC                    *)
  MaxSize,       (* no file grows beyond this: fs_write has no check, and  *)
                 (* beyond NPtrs blocks it writes behind the pointers      *)
  CrashIn        (* the operations in which the process may be stopped     *)

ASSUME FileSystemAssumption ==
  /\ NumBlocks \in Nat /\ NumBlocks >= 4
  /\ {Slots, NPtrs, BLK, MaxDepth, MaxLen} \subseteq Nat \ {0}
  /\ MaxSize \in 1..((NPtrs - 1) * BLK)
  /\ Zero # Junk /\ {Zero, Junk} \cap Data = {} /\ Free \notin [name : Names, inode : Nat]

OK        == 0
ENOENT    == -2
EIO       == -5
EEXIST    == -17
ENOTDIR   == -20
EISDIR    == -21
EINVAL    == -22
ENOSPC    == -28
ENOTEMPTY == -39

VARIABLES
  disk,          (* block number |-> block                                 *)
  bitmap,        (* the blocks whose bit is set in memory                  *)
  bfree,         (* statVfs.f_bfree and f_bavail                           *)
  reply          (* the last call and what it returned                     *)

vars == <<disk, bitmap, bfree, reply>>

Lbas == 0..(NumBlocks - 1)
Paths == UNION {[1..n -> Names] : n \in 0..MaxDepth}
Bufs == UNION {[1..n -> Data] : n \in 1..MaxLen}

Bitmap(used) == [kind |-> "bitmap", used |-> used]
Inode(dir, size, ptrs) == [kind |-> "inode", dir |-> dir, size |-> size, ptrs |-> ptrs]
Directory(entries) == [kind |-> "directory", entries |-> entries]
DataBlock(bytes) == [kind |-> "data", bytes |-> bytes]
Stale == [kind |-> "stale"]

NoPtrs == [k \in 0..(NPtrs - 1) |-> 0]
NoEntries == [s \in 0..(Slots - 1) |-> Free]

\* An empty disk, as gen-disk.py makes it: the root's inode is block 2.
Init ==
  /\ disk = [l \in Lbas |->
       CASE l = 0 -> [kind |-> "super"]
         [] l = 1 -> Bitmap(0..3)
         [] l = 2 -> Inode(TRUE, BLK, [NoPtrs EXCEPT ![0] = 3])
         [] l = 3 -> Directory(NoEntries)
         [] OTHER -> Stale]
  /\ bitmap = 0..3
  /\ bfree = NumBlocks - 4
  /\ reply = [op |-> "init", path |-> <<>>, args |-> <<"none", <<>>>>, status |-> OK,
              data |-> <<>>]

-----------------------------------------------------------------------------
(* Paths, directories and free blocks *)

Blocks(size) == (size \div BLK) + (IF size % BLK > 0 THEN 1 ELSE 0)

Entries(i) == disk[disk[i].ptrs[0]].entries
SlotsOf(i, name) == {s \in DOMAIN Entries(i) : Entries(i)[s] # Free /\ Entries(i)[s].name = name}
FreeSlots(i) == {s \in DOMAIN Entries(i) : Entries(i)[s] = Free}

\* The inode that a name leads to from inode d; an error is passed on.
Lookup(d, name) ==
  IF d < 0 THEN d
  ELSE IF ~disk[d].dir THEN ENOTDIR
  ELSE IF SlotsOf(d, name) = {} THEN ENOENT
  ELSE Entries(d)[Min(SlotsOf(d, name))].inode

translate(p) ==
  LET at[k \in 0..Len(p)] == IF k = 0 THEN 2 ELSE Lookup(at[k - 1], p[k])
  IN  at[Len(p)]

FreeBlocks == Lbas \ bitmap

\* The k-th of the blocks in S, as a scan from block 0 on meets them.
Nth(S, k) == CHOOSE l \in S : Cardinality({m \in S : m < l}) = k - 1

\* Mutant: bits are searched on the disk image as it was at the start.
FirstFreeInitially(n) == [k \in 1..n |-> Nth(Lbas \ 0..3, k)]

\* find_first_nfree_blocks, when there are so many.
FirstFree(n) == [k \in 1..n |-> Nth(FreeBlocks, k)]

-----------------------------------------------------------------------------
(* How a call ends *)

Returned(op, p, args, st, data) ==
  [op |-> op, path |-> p, args |-> args, status |-> st, data |-> data]

\* The call returns st without writing anything.
Returns(op, p, args, st, data) ==
  reply' = Returned(op, p, args, st, data) /\ UNCHANGED <<disk, bitmap, bfree>>

Refused(op, p, args, st) == Returns(op, p, args, st, <<>>)

To(lba, block) == [lba |-> lba, block |-> block]

\* Mutant: the last of several writes is forgotten.
AfterAllButLast(ws, k) ==
  LET done == IF k = Len(ws) /\ k > 1 THEN k - 1 ELSE k
  IN  [l \in Lbas |-> IF \E j \in 1..done : ws[j].lba = l
                      THEN ws[CHOOSE j \in 1..done : ws[j].lba = l].block ELSE disk[l]]

\* The disk after the first k of the writes ws, which go to different blocks.
After(ws, k) ==
  [l \in Lbas |-> IF \E j \in 1..k : ws[j].lba = l
                  THEN ws[CHOOSE j \in 1..k : ws[j].lba = l].block ELSE disk[l]]

\* What fs_init does when the process is started again; op was interrupted.
fs_init(op, p, args) ==
  /\ bitmap' = disk'[1].used
  /\ bfree' = Cardinality(Lbas \ bitmap')
  /\ reply' = Returned("init", p, <<op, args>>, OK, <<>>)

\* The call makes the writes ws and succeeds, or is stopped between two of them
\* and the process starts again.  used is the bitmap after it and blocks the
\* change of f_bfree; what is in the blocks given back is forgotten here.
Performs(op, p, args, st, ws, used, blocks) ==
  \/ /\ LET after == After(ws, Len(ws))
         IN  disk' = [l \in Lbas |-> IF l \in bitmap \ used THEN Stale ELSE after[l]]
     /\ bitmap' = used
     /\ bfree' = bfree + blocks
     /\ reply' = Returned(op, p, args, st, <<>>)
  \/ /\ op \in CrashIn
     /\ \E k \in 1..(Len(ws) - 1) : disk' = After(ws, k)
     /\ fs_init(op, p, args)

Restarts == UNCHANGED disk /\ fs_init("none", <<>>, <<>>)

-----------------------------------------------------------------------------
(* The tree *)

fs_getattr(p) ==
  LET i == translate(p)
  IN  \/ i < 0 /\ Refused("getattr", p, <<>>, i)
      \/ i >= 0 /\ Returns("getattr", p, <<>>, OK,
                     IF disk[i].dir THEN <<TRUE>> ELSE <<FALSE, disk[i].size>>)

fs_readdir(p) ==
  LET i == translate(p)
  IN  \/ i < 0 /\ Refused("readdir", p, <<>>, i)
      \/ i >= 0 /\ ~disk[i].dir /\ Refused("readdir", p, <<>>, ENOTDIR)
      \/ i >= 0 /\ disk[i].dir
         /\ Returns("readdir", p, <<>>, OK, [n \in Names |-> SlotsOf(i, n) # {}])

\* Mutant: an entry of that name is not looked for.
CreateErrorNoDuplicate(p, need) ==
  LET d == translate(Front(p))
  IN  IF d < 0 THEN d
      ELSE IF ~disk[d].dir THEN ENOTDIR
      ELSE IF FreeSlots(d) = {} \/ Cardinality(FreeBlocks) < need THEN ENOSPC
      ELSE OK

\* The result of the checks before a new entry p is made, in their order.
CreateError(p, need) ==
  LET d == translate(Front(p))
  IN  IF d < 0 THEN d
      ELSE IF ~disk[d].dir THEN ENOTDIR
      ELSE IF SlotsOf(d, Last(p)) # {} THEN EEXIST
      ELSE IF FreeSlots(d) = {} THEN ENOSPC
      ELSE IF Cardinality(FreeBlocks) < need THEN ENOSPC
      ELSE OK

\* The inode is written first and the bitmap last.
create_directory_entry(op, p, dir) ==
  LET need == IF dir THEN 2 ELSE 1
      d == translate(Front(p))
      new == FirstFree(need)
      e == Directory([Entries(d) EXCEPT ![Min(FreeSlots(d))] =
                        [name |-> Last(p), inode |-> new[1]]])
      ptrs == IF dir THEN [NoPtrs EXCEPT ![0] = new[2]] ELSE NoPtrs
      used == bitmap \cup ToSet(new)
  IN  \/ CreateError(p, need) < 0 /\ Refused(op, p, <<>>, CreateError(p, need))
      \/ /\ CreateError(p, need) = OK
         /\ Performs(op, p, <<>>, OK,
              <<To(new[1], Inode(dir, IF dir THEN BLK ELSE 0, ptrs)),
                To(disk[d].ptrs[0], e)>>
              \o (IF dir THEN <<To(new[2], Directory(NoEntries))>> ELSE <<>>)
              \o <<To(1, Bitmap(used))>>, used, -need)

fs_create(p) == create_directory_entry("create", p, FALSE)
fs_mkdir(p) == create_directory_entry("mkdir", p, TRUE)

\* The directory block of p's parent without p.
WithoutEntry(p) ==
  LET d == translate(Front(p))
  IN  To(disk[d].ptrs[0],
         Directory([Entries(d) EXCEPT ![Min(SlotsOf(d, Last(p)))] = Free]))

\* Mutant: all data blocks, whatever is to be kept.
AllData(i, k) == {disk[i].ptrs[b] : b \in 0..(Blocks(disk[i].size) - 1)}

\* The blocks of inode i from its k-th data block on.
DataFrom(i, k) == {disk[i].ptrs[b] : b \in k..(Blocks(disk[i].size) - 1)}

\* Mutant: the blocks are given back before the entry goes.
UnlinksBitmapFirst(op, p, freed) ==
  Performs(op, p, <<>>, OK, <<To(1, Bitmap(bitmap \ freed)), WithoutEntry(p)>>,
           bitmap \ freed, Cardinality(freed))

\* The entry goes first, then the blocks in freed are given back.
Unlinks(op, p, freed) ==
  Performs(op, p, <<>>, OK, <<WithoutEntry(p), To(1, Bitmap(bitmap \ freed))>>,
           bitmap \ freed, Cardinality(freed))

\* No test whether it is a directory; its one block goes with it.
fs_unlink(p) ==
  LET i == translate(p)
  IN  \/ i < 0 /\ Refused("unlink", p, <<>>, i)
      \/ i >= 0 /\ Unlinks("unlink", p, {i} \cup DataFrom(i, 0))

\* A directory counts as empty when its first slot is free.
check_dir_empty(p) ==
  LET i == translate(p)
  IN  IF i < 0 THEN i
      ELSE IF ~disk[i].dir THEN ENOTDIR
      ELSE IF FreeSlots(i) = {} THEN ENOSPC
      ELSE IF Min(FreeSlots(i)) # 0 THEN ENOTEMPTY
      ELSE OK

fs_rmdir(p) ==
  \/ check_dir_empty(p) < 0 /\ Refused("rmdir", p, <<>>, check_dir_empty(p))
  \/ /\ check_dir_empty(p) = OK
     /\ Unlinks("rmdir", p, {translate(p), disk[translate(p)].ptrs[0]})

\* The new name is written over the old one in its slot.
fs_rename(p, q) ==
  LET d == translate(Front(p))
  IN  \/ translate(p) < 0 /\ Refused("rename", p, q, translate(p))
      \/ /\ translate(p) >= 0 /\ translate(q) >= 0
         /\ Refused("rename", p, q, EEXIST)
      \/ /\ translate(p) >= 0 /\ translate(q) < 0
         /\ Front(p) # Front(q)
         /\ Refused("rename", p, q, EINVAL)
      \/ /\ translate(p) >= 0 /\ translate(q) < 0
         /\ Front(p) = Front(q)
         /\ Performs("rename", p, q, OK,
              <<To(disk[d].ptrs[0],
                   Directory([Entries(d) EXCEPT ![Min(SlotsOf(d, Last(p)))].name = Last(q)]))>>,
              bitmap, 0)

\* The statistics as they are kept, without a look at the bitmap.
fs_statfs == Returns("statfs", <<>>, <<>>, OK, <<bfree>>)

\* Permission bits and times are not modelled, the results of the calls are.
fs_chmod(p) == Refused("chmod", p, <<>>, IF translate(p) < 0 THEN translate(p) ELSE OK)

fs_utime(p) ==
  Refused("utime", p, <<>>, IF translate(p) < 0 THEN translate(p)
                      ELSE IF disk[translate(p)].dir THEN EISDIR ELSE OK)

-----------------------------------------------------------------------------
(* Files *)

FileError(p) ==
  LET i == translate(p)
  IN  IF i < 0 THEN i ELSE IF disk[i].dir THEN EISDIR ELSE OK

\* The inode is written first; pointers no longer used become -1.
fs_truncate(p, len) ==
  LET i == translate(p)
      keep == Blocks(len)
      freed == DataFrom(i, keep)
      ptrs == [k \in 0..(NPtrs - 1) |->
                 IF k \in keep..(Blocks(disk[i].size) - 1) THEN -1 ELSE disk[i].ptrs[k]]
  IN  \/ len < 0 /\ Refused("truncate", p, len, EINVAL)
      \/ len >= 0 /\ FileError(p) < 0 /\ Refused("truncate", p, len, FileError(p))
      \/ len >= 0 /\ FileError(p) = OK /\ keep > Blocks(disk[i].size)
         /\ Refused("truncate", p, len, EINVAL)
      \/ len >= 0 /\ FileError(p) = OK /\ keep <= Blocks(disk[i].size)
         /\ Performs("truncate", p, len, OK,
              <<To(i, Inode(FALSE, len, ptrs)), To(1, Bitmap(bitmap \ freed))>>,
              bitmap \ freed, Cardinality(freed))

\* The unit u of block l.
Unit(l, u) == IF disk[l].kind = "data" THEN disk[l].bytes[u] ELSE Junk

FileData ==
  [i \in Lbas |-> [k \in 1..disk[i].size |->
                     Unit(disk[i].ptrs[(k - 1) \div BLK], (k - 1) % BLK)]]

\* The last block a read of len units at off looks at: one more than there is
\* when it asks for more than there is.  block_read fails on block -1.
ReadEndBlock(i, off, len) ==
  IF off + len > disk[i].size THEN Blocks(disk[i].size) ELSE (off + len - 1) \div BLK

fs_read(p, off, len) ==
  LET i == translate(p)
      data == SubSeq(FileData[i], off + 1, Min({off + len, disk[i].size}))
  IN  \/ FileError(p) < 0 /\ Refused("read", p, <<off, len>>, FileError(p))
      \/ FileError(p) = OK /\ off >= disk[i].size /\ Refused("read", p, <<off, len>>, 0)
      \/ /\ FileError(p) = OK /\ off < disk[i].size
         /\ LET asked == {disk[i].ptrs[b] : b \in (off \div BLK)..ReadEndBlock(i, off, len)}
            IN  IF -1 \in asked THEN Refused("read", p, <<off, len>>, EIO)
                ELSE Returns("read", p, <<off, len>>, Len(data), data)

\* Mutant: the first block is not read before it is written again.
BaseEndOnly(i, ptrs, first, last, b, u) ==
  IF b = last /\ Blocks(disk[i].size) > 1 THEN Unit(ptrs[b], u) ELSE Zero

\* What the buffer holds of block b before the new data is copied in: the first
\* and the last block are read if the file had one block, or two.
Base(i, ptrs, first, last, b, u) ==
  IF b = last /\ Blocks(disk[i].size) > 1 THEN Unit(ptrs[b], u)
  ELSE IF b = first /\ Blocks(disk[i].size) > 0 THEN Unit(ptrs[b], u)
  ELSE Zero

\* The bitmap is written first, then the inode, then the data.  f_bfree goes up
\* when the write ends before the last block of the file.
fs_write(p, off, buf) ==
  LET i == translate(p)
      n == Blocks(disk[i].size)
      first == off \div BLK
      last == (off + Len(buf) - 1) \div BLK
      need == last - n + 1
      new == FirstFree(Max({need, 0}))
      used == bitmap \cup ToSet(new)
      ptrs == [k \in 0..(NPtrs - 1) |-> IF k \in n..last THEN new[k - n + 1]
                                        ELSE disk[i].ptrs[k]]
      block(b) == DataBlock([u \in 0..(BLK - 1) |->
                    IF b * BLK + u \in off..(off + Len(buf) - 1)
                    THEN buf[b * BLK + u - off + 1] ELSE Base(i, ptrs, first, last, b, u)])
  IN  \/ FileError(p) < 0 /\ Refused("write", p, <<off, buf>>, FileError(p))
      \/ FileError(p) = OK /\ off > disk[i].size /\ Refused("write", p, <<off, buf>>, EINVAL)
      \/ /\ FileError(p) = OK /\ off <= disk[i].size
         /\ need > Cardinality(FreeBlocks) /\ Refused("write", p, <<off, buf>>, ENOSPC)
      \/ /\ FileError(p) = OK /\ off <= disk[i].size
         /\ need <= Cardinality(FreeBlocks)
         /\ Performs("write", p, <<off, buf>>, Len(buf),
              (IF need > 0 THEN <<To(1, Bitmap(used))>> ELSE <<>>)
              \o <<To(i, Inode(FALSE, Max({disk[i].size, off + Len(buf)}), ptrs))>>
              \o [k \in 1..(last - first + 1) |-> To(ptrs[first + k - 1], block(first + k - 1))],
              used, -need)

-----------------------------------------------------------------------------
\* One offset beyond the end of a file is as good as another, and for what is no
\* file one length.
IsFile(p) == FileError(p) = OK
Offsets(p) == IF IsFile(p) THEN {off \in 0..MaxSize : off <= disk[translate(p)].size + 1} ELSE {0}
Lengths(p) == IF IsFile(p) THEN -1..MaxSize ELSE {-1, 0}

\* The kernel does not pass on a request to make, remove or rename the root.
Next ==
  \/ \E p \in Paths \ {<<>>} :
       \/ fs_create(p)
       \/ fs_mkdir(p)
       \/ fs_unlink(p)
       \/ fs_rmdir(p)
       \/ \E q \in Paths \ {<<>>} : fs_rename(p, q)
  \/ \E p \in Paths :
       \/ fs_getattr(p)
       \/ fs_readdir(p)
       \/ fs_chmod(p)
       \/ fs_utime(p)
       \/ \E len \in Lengths(p) : fs_truncate(p, len)
       \/ \E off \in Offsets(p) :
            \/ \E len \in 1..MaxSize : fs_read(p, off, len)
            \/ \E buf \in Bufs : off + Len(buf) <= MaxSize /\ fs_write(p, off, buf)
  \/ fs_statfs
  \/ Restarts

Spec == Init /\ [][Next]_vars

-----------------------------------------------------------------------------
(* Properties *)

\* Types of what the program keeps in memory; the bitmap on the disk is the one
\* in memory, and only inodes and directories are taken for such.
TypeOK ==
  /\ bitmap \subseteq Lbas /\ 0..3 \subseteq bitmap
  /\ disk[1] = Bitmap(bitmap)
  /\ bfree \in Int
  /\ \A p \in Paths : translate(p) >= 0 =>
       LET i == translate(p)
       IN  /\ disk[i].kind = "inode"
           /\ disk[i].dir => disk[disk[i].ptrs[0]].kind = "directory"
           /\ ~disk[i].dir => DataFrom(i, 0) \subseteq Lbas

\* The paths that exist, and the blocks that belong to one of them.
Existing == {p \in Paths : translate(p) >= 0}
Owned(p) == {translate(p)} \cup DataFrom(translate(p), 0)

\* No block belongs to two files or directories, or twice to one, and none to
\* the superblock or the bitmap, whatever was removed, cut or extended before.
NoSharedBlock ==
  LET own == [p \in Existing |-> Owned(p)]
  IN  /\ \A p, q \in DOMAIN own : p # q => own[p] \cap own[q] = {}
      /\ \A p \in DOMAIN own :
           /\ own[p] \cap {0, 1} = {}
           /\ Cardinality(own[p]) = 1 + Blocks(disk[translate(p)].size)

\* FORMAT.md: "bit i in the bitmap is set if block i is in use": no block that
\* can be reached is given to another file, also after a restart in the middle
\* of a removal, a cut or a write.
UsedAreMarked == \A p \in Existing : Owned(p) \subseteq bitmap

\* The directories that a path leads to, and the files with the data in them.
Dirs == {p \in Existing : disk[translate(p)].dir}
Files == [p \in Existing \ Dirs |-> FileData[translate(p)]]

\* Where the code does not answer as the comments at its functions say:
\*   unlink directory   fs_unlink, "errors - path resolution, ENOENT, EISDIR":
\*                      a directory is removed like a file;
\*   rmdir not empty    fs_rmdir, "ENOTEMPTY": see RmdirOnlyEmpty below;
\*   rmdir full         a directory without a free slot gives ENOSPC;
\*   truncate keeps     fs_truncate, "return EINVAL if len > 0": cut to len units;
\*   utime directory    fs_utime, "Errors - path resolution, ENOENT": EISDIR;
\*   read past end      fs_read, "if offset+len > file len, return #bytes from
\*                      offset to end": EIO, if the pointer behind the last
\*                      block was cut off before;
\*   no space           ENOSPC, which no comment lists.
CodeDeviations ==
  {"unlink directory", "rmdir not empty", "rmdir full", "truncate keeps",
   "utime directory", "read past end", "no space"}

TreeView ==
  INSTANCE FileTree WITH Deviations <- CodeDeviations, dirs <- Dirs, files <- Files

\* The blocks on the disk implement the tree of files: every result, every file
\* that an operation does not name, and what a restart may leave behind.  Where
\* the code deviates from its comments, in no other way than CodeDeviations says.
ImplementsTree == TreeView!Spec

\* The comment of fs_rmdir lists ENOTEMPTY: a directory that is removed takes
\* nothing with it.
RmdirOnlyEmpty ==
  [][reply'.op = "rmdir" /\ reply'.status = OK =>
       \A p \in Existing \ {reply'.path} : p \in Existing']_vars
=============================================================================
