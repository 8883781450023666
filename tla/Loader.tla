------------------------------- MODULE Loader -------------------------------
(***************************************************************************)
(* Loading a program into memory, as exec_file (part-2.c) and load_file    *)
(* (part-3.c) do it: every PT_LOAD entry of the ELF program headers gets   *)
(* memory from mmap at its address plus an offset, and the bytes of the    *)
(* file are read into it.                                                  *)
(*                                                                         *)
(* mem is the part of the address space programs are loaded to: address |-> *)
(* the byte there, or Unmapped.  Byte i of the file f is <<f, i>>, and a   *)
(* byte a program has written is Dirty, one mmap has cleared is Zero.      *)
(***************************************************************************)
EXTENDS Integers, SequencesExt

CONSTANTS
  PageSize,
  MemSize,       (* addresses are 0 .. MemSize - 1                         *)
  Files,         (* names of the executables                               *)
  Phdrs,         (* file |-> its program headers                           *)
  Unmapped,
  Zero,
  Dirty

Header == [type : STRING, vaddr : Nat, offset : Nat, filesz : Nat, memsz : Nat]

ASSUME LoaderAssumption ==
  /\ PageSize \in Nat \ {0} /\ MemSize \in Nat /\ MemSize % PageSize = 0
  /\ Phdrs \in [Files -> Seq(Header)]
  /\ \A f \in Files : \A i \in DOMAIN Phdrs[f] : Phdrs[f][i].filesz <= Phdrs[f][i].memsz
  /\ Unmapped \notin {Zero, Dirty} \cup (Files \X Nat)

VARIABLE mem

Addresses == 0 .. MemSize - 1
NoMemory == [a \in Addresses |-> Unmapped]
Mapped(m) == {a \in Addresses : m[a] # Unmapped}

ROUND_UP(a, b) == ((a + b - 1) \div b) * b

IsLoad(f, i) == i \in DOMAIN Phdrs[f] /\ Phdrs[f][i].type = "PT_LOAD"

\* The target and length of a segment loaded at base.
Target(p, base) == p.vaddr + base
Length(p) == ROUND_UP(p.memsz, PageSize)

\* The kernel takes the address without MAP_FIXED for a hint: it is rounded down
\* to a page, and used if nothing is mapped there.  Otherwise the memory is
\* somewhere else, outside of Addresses, and the caller does not look.
mmap(m, addr, len) ==
  LET first == (addr \div PageSize) * PageSize
      range == first .. first + len - 1 IN
  IF range \cap Mapped(m) = {} THEN [a \in Addresses |-> IF a \in range THEN Zero ELSE m[a]]
                               ELSE m

\* munmap refuses an address that is not a page's; its result is not looked at.
munmap(m, addr, len) ==
  IF addr % PageSize # 0 THEN m
  ELSE [a \in Addresses |-> IF a \in addr .. addr + len - 1 THEN Unmapped ELSE m[a]]

\* lseek to the segment's bytes in the file and read them to the target; read ends
\* at an address where nothing is mapped, and its result is not looked at.
ReadSegment(m, f, p, target) ==
  [a \in Addresses |->
     IF a - target \in 0 .. p.filesz - 1 /\ \A b \in target .. a : m[b] # Unmapped
     THEN <<f, p.offset + a - target>> ELSE m[a]]

LoadSegment(m, f, p, base) ==
  ReadSegment(mmap(m, Target(p, base), Length(p)), f, p, Target(p, base))

\* The memory after exec_file or load_file has gone through the headers.
LoadAll(m, f, base) ==
  LET after[i \in 0 .. Len(Phdrs[f])] ==
        IF i = 0 THEN m
        ELSE IF IsLoad(f, i) THEN LoadSegment(after[i - 1], f, Phdrs[f][i], base)
        ELSE after[i - 1]
  IN  after[Len(Phdrs[f])]

\* The memory after the last loop of exec_file has gone through the segments of the
\* first n headers.
UnmapFirst(n, m, f, base) ==
  LET after[i \in 0 .. n] ==
        IF i = 0 THEN m
        ELSE IF IsLoad(f, i)
             THEN munmap(after[i - 1], Target(Phdrs[f][i], base), Length(Phdrs[f][i]))
        ELSE after[i - 1]
  IN  after[n]

\* Mutant: the loop ends before the last header.
UnmapsAllButLast(m, f, base) == UnmapFirst(Len(Phdrs[f]) - 1, m, f, base)

UnmapAll(m, f, base) == UnmapFirst(Len(Phdrs[f]), m, f, base)

\* The program f at base as its file describes it: the bytes of each segment and
\* zeros after them, up to p_memsz.
ImageAt(m, f, base) ==
  \A i \in DOMAIN Phdrs[f] :
    LET p == Phdrs[f][i] IN
    IsLoad(f, i) =>
      \A k \in 0 .. p.memsz - 1 :
        m[Target(p, base) + k] = IF k < p.filesz THEN <<f, p.offset + k>> ELSE Zero

\* The programs are linked so that their segments start at pages, keep apart, and
\* lie in this part of the address space.
Pages(f, i, base) == Target(Phdrs[f][i], base) .. Target(Phdrs[f][i], base) + Length(Phdrs[f][i]) - 1
PagesOf(f, base) == UNION {Pages(f, i, base) : i \in {i \in DOMAIN Phdrs[f] : IsLoad(f, i)}}

FitsAt(f, base) ==
  \A i \in DOMAIN Phdrs[f] : IsLoad(f, i) =>
    /\ Target(Phdrs[f][i], base) % PageSize = 0
    /\ Pages(f, i, base) \subseteq Addresses
    /\ \A j \in DOMAIN Phdrs[f] :
         IsLoad(f, j) /\ i # j => Pages(f, i, base) \cap Pages(f, j, base) = {}
=============================================================================
