------------------------------ MODULE FileTree ------------------------------
(***************************************************************************)
(* What the file system promises its callers, without blocks, inodes and   *)
(* bitmap: a tree of directories and files, the result of every operation  *)
(* of fs_ops (the comments above the functions of homework.c), and what a  *)
(* restart in the middle of one may leave behind.  FileSystem.tla          *)
(* implements this specification.                                          *)
(*                                                                         *)
(* An answer of the code that the comments do not promise, or rule out, is *)
(* a deviation: it has a name and is allowed only if Deviations has it.    *)
(* With Deviations = {} this is what the comments say.  Space is not       *)
(* modelled, so where "no space" is allowed there may be none at any time. *)
(***************************************************************************)
EXTENDS Integers, SequencesExt

CONSTANTS
  Names,
  MaxDepth,      (* bounds the paths                                       *)
  Deviations     (* the deviations that are allowed                        *)

OK        == 0
ENOENT    == -2
EIO       == -5
EEXIST    == -17
ENOTDIR   == -20
EISDIR    == -21
EINVAL    == -22
ENOSPC    == -28
ENOTEMPTY == -39

VARIABLES
  dirs,          (* the paths of the directories, the root's is << >>      *)
  files,         (* path of a file |-> the data in it                      *)
  reply          (* the last call and what it returned                     *)

tree == <<dirs, files>>
tvars == <<dirs, files, reply>>

Paths == UNION {[1..n -> Names] : n \in 0..MaxDepth}

\* What a call gives.
Gives(st) == reply'.status = st
Refused(st) == Gives(st) /\ reply'.data = <<>> /\ UNCHANGED tree

IsDir(p) == p \in dirs
IsFile(p) == p \in DOMAIN files
Exists(p) == IsDir(p) \/ IsFile(p)
Size(p) == Len(files[p])

\* The deviation what happens, if it is allowed.
Deviates(what) == what \in Deviations

\* The path translation errors: a component is missing or not a directory.
PathError(p) ==
  IF \E q \in DOMAIN files : IsStrictPrefix(q, p) THEN ENOTDIR ELSE ENOENT

Init ==
  /\ dirs = {<<>>} /\ files = <<>>
  /\ reply = [op |-> "init", path |-> <<>>, args |-> <<"none", <<>>>>, status |-> OK,
              data |-> <<>>]

-----------------------------------------------------------------------------
MakesFile(p) ==
  /\ files' = [q \in DOMAIN files \cup {p} |-> IF q = p THEN <<>> ELSE files[q]]
  /\ UNCHANGED dirs

MakesDir(p) == dirs' = dirs \cup {p} /\ UNCHANGED files

Create(p, dir) ==
  \/ ~Exists(Front(p)) /\ Refused(PathError(Front(p)))
  \/ IsFile(Front(p)) /\ Refused(ENOTDIR)
  \/ Exists(p) /\ Refused(EEXIST)
  \/ /\ IsDir(Front(p)) /\ ~Exists(p)
     /\ \/ Deviates("no space") /\ Refused(ENOSPC)
        \/ Gives(OK) /\ IF dir THEN MakesDir(p) ELSE MakesFile(p)

Removes(p) ==
  /\ dirs' = {q \in dirs : ~IsPrefix(p, q)}
  /\ files' = [q \in {q \in DOMAIN files : ~IsPrefix(p, q)} |-> files[q]]

\* What unlink removes; as a deviation a directory, with all that is below it.
UnlinkRemoves(p) ==
  /\ IsFile(p) \/ (IsDir(p) /\ Deviates("unlink directory"))
  /\ Removes(p)

Unlink(p) ==
  \/ ~Exists(p) /\ Refused(PathError(p))
  \/ IsDir(p) /\ Refused(EISDIR)
  \/ Gives(OK) /\ UnlinkRemoves(p)

IsEmpty(p) == \A q \in dirs \cup DOMAIN files : ~IsStrictPrefix(p, q)

\* What rmdir removes; as a deviation a directory that is not empty, with all
\* that is below it.
RmdirRemoves(p) ==
  /\ IsDir(p) /\ (IsEmpty(p) \/ Deviates("rmdir not empty"))
  /\ Removes(p)

Rmdir(p) ==
  \/ ~Exists(p) /\ Refused(PathError(p))
  \/ IsFile(p) /\ Refused(ENOTDIR)
  \/ IsDir(p) /\ ~IsEmpty(p) /\ Refused(ENOTEMPTY)
  \/ IsDir(p) /\ ~IsEmpty(p) /\ Deviates("rmdir full") /\ Refused(ENOSPC)
  \/ Gives(OK) /\ RmdirRemoves(p)

\* The path r after p was renamed to q.
Moved(p, q, r) == IF IsPrefix(p, r) THEN q \o SubSeq(r, Len(p) + 1, Len(r)) ELSE r

Rename(p, q) ==
  \/ ~Exists(p) /\ Refused(PathError(p))
  \/ Exists(p) /\ Exists(q) /\ Refused(EEXIST)
  \/ Exists(p) /\ ~Exists(q) /\ Front(p) # Front(q) /\ Refused(EINVAL)
  \/ /\ Exists(p) /\ ~Exists(q) /\ Front(p) = Front(q)
     /\ Gives(OK)
     /\ dirs' = {Moved(p, q, r) : r \in dirs}
     /\ files' = [r \in {Moved(p, q, r) : r \in DOMAIN files} |-> files[Moved(q, p, r)]]

\* The file p holds data afterwards, and nothing else changes.
Holds(p, data) == files' = [files EXCEPT ![p] = data] /\ UNCHANGED dirs

\* Cut to n units; a file may grow by units of any value.
Cut(p, n) ==
  /\ IsFile(p) /\ p \in DOMAIN files'
  /\ LET data == files'[p]
     IN  /\ Len(data) = n
         /\ \A i \in 1..Min({n, Size(p)}) : data[i] = files[p][i]
         /\ Holds(p, data)

\* What truncate does: it empties a file; as a deviation it cuts it to n units,
\* and refuses to only if it has less.
Truncates(p, n) ==
  /\ n = 0 \/ (n > 0 /\ Deviates("truncate keeps"))
  /\ Cut(p, n)

Truncate(p, n) ==
  \/ n # 0 /\ ~Deviates("truncate keeps") /\ Refused(EINVAL)
  \/ (n < 0 \/ (IsFile(p) /\ n > Size(p))) /\ Refused(EINVAL)
  \/ n >= 0 /\ ~Exists(p) /\ Refused(PathError(p))
  \/ n >= 0 /\ IsDir(p) /\ Refused(EISDIR)
  \/ Gives(OK) /\ Truncates(p, n)

\* As a deviation a read that asks for more than there is fails.
Read(p, off, len) ==
  \/ ~Exists(p) /\ Refused(PathError(p))
  \/ IsDir(p) /\ Refused(EISDIR)
  \/ /\ IsFile(p) /\ off < Size(p) /\ off + len > Size(p)
     /\ Deviates("read past end") /\ Refused(EIO)
  \/ /\ IsFile(p)
     /\ reply'.data = SubSeq(files[p], off + 1, Min({off + len, Size(p)}))
     /\ Gives(Len(reply'.data))
     /\ UNCHANGED tree

Overwritten(old, off, b) ==
  [i \in 1..Max({Len(old), off + Len(b)}) |->
     IF i \in (off + 1)..(off + Len(b)) THEN b[i - off] ELSE old[i]]

Write(p, off, b) ==
  \/ ~Exists(p) /\ Refused(PathError(p))
  \/ IsDir(p) /\ Refused(EISDIR)
  \/ IsFile(p) /\ off > Size(p) /\ Refused(EINVAL)
  \/ /\ IsFile(p) /\ off + Len(b) > Size(p)
     /\ Deviates("no space") /\ Refused(ENOSPC)
  \/ /\ IsFile(p) /\ off <= Size(p)
     /\ Gives(Len(b))
     /\ Holds(p, Overwritten(files[p], off, b))

Getattr(p) ==
  \/ ~Exists(p) /\ Refused(PathError(p))
  \/ /\ Exists(p) /\ Gives(OK) /\ UNCHANGED tree
     /\ reply'.data = IF IsDir(p) THEN <<TRUE>> ELSE <<FALSE, Size(p)>>

Readdir(p) ==
  \/ ~Exists(p) /\ Refused(PathError(p))
  \/ IsFile(p) /\ Refused(ENOTDIR)
  \/ /\ IsDir(p) /\ Gives(OK) /\ UNCHANGED tree
     /\ reply'.data = [n \in Names |-> Exists(Append(p, n))]

Chmod(p) ==
  /\ Refused(IF Exists(p) THEN OK ELSE PathError(p))

Utime(p) ==
  \/ Refused(IF Exists(p) THEN OK ELSE PathError(p))
  \/ IsDir(p) /\ Deviates("utime directory") /\ Refused(EISDIR)

\* How much space there is, is not said here.
Statfs == Gives(OK) /\ UNCHANGED tree

-----------------------------------------------------------------------------
\* Of a write that was interrupted some units may have arrived and some not, and
\* those that are new with it have any value.
Torn(p, off, b) ==
  /\ IsFile(p) /\ off <= Size(p) /\ p \in DOMAIN files'
  /\ LET data == files'[p]
     IN  /\ Len(data) \in {Size(p), Max({Size(p), off + Len(b)})}
         /\ \A i \in 1..Size(p) :
              \/ data[i] = files[p][i]
              \/ i \in (off + 1)..(off + Len(b)) /\ data[i] = b[i - off]
         /\ Holds(p, data)

\* A restart in the middle of a call leaves the tree as it was or as the call
\* would have left it, but for what a write may do.  (For create and
\* mkdir nothing is said: the code writes the entry before the bitmap.)
Restart(op, p, args) ==
  /\ Gives(OK)
  /\ \/ UNCHANGED tree
     \/ op = "unlink" /\ UnlinkRemoves(p)
     \/ op = "rmdir" /\ RmdirRemoves(p)
     \/ op = "truncate" /\ Truncates(p, args)
     \/ op = "write" /\ Torn(p, args[1], args[2])

Step(op, p, args) ==
  \/ op = "create" /\ Create(p, FALSE)
  \/ op = "mkdir" /\ Create(p, TRUE)
  \/ op = "unlink" /\ Unlink(p)
  \/ op = "rmdir" /\ Rmdir(p)
  \/ op = "rename" /\ Rename(p, args)
  \/ op = "truncate" /\ Truncate(p, args)
  \/ op = "read" /\ Read(p, args[1], args[2])
  \/ op = "write" /\ Write(p, args[1], args[2])
  \/ op = "getattr" /\ Getattr(p)
  \/ op = "readdir" /\ Readdir(p)
  \/ op = "chmod" /\ Chmod(p)
  \/ op = "utime" /\ Utime(p)
  \/ op = "statfs" /\ Statfs
  \/ op = "init" /\ Restart(args[1], p, args[2])

\* Any call may be made; the reply names it.
Next == reply'.path \in Paths /\ Step(reply'.op, reply'.path, reply'.args)

Spec == Init /\ [][Next]_tvars
=============================================================================
