---------------------------- MODULE MirrorProofs ----------------------------
(***************************************************************************)
(* The mirror for every number of devices, size, block and length of a     *)
(* request, and whether or not the client replaces a member when no copy   *)
(* is left: two members that work never disagree.                          *)
(***************************************************************************)
EXTENDS Mirror, FiniteSetTheorems, TLAPS

IInv == TypeOK /\ MembersAgree

\* Contents, device by device.
LEMMA ContentsByDisk ==
  ASSUME NEW c
  PROVE  c \in Contents <=> /\ c = [d \in Disks |-> c[d]]
                            /\ \A d \in Disks : c[d] \in [Blocks(d) -> Block]
<1>1. ASSUME c \in Contents
      PROVE  c = [d \in Disks |-> c[d]] /\ \A d \in Disks : c[d] \in [Blocks(d) -> Block]
  <2>1. /\ c \in [Disks -> UNION {[Blocks(d) -> Block] : d \in Disks}]
        /\ \A d \in Disks : DOMAIN c[d] = Blocks(d)
    BY <1>1 DEF Contents
  <2>2. ASSUME NEW d \in Disks PROVE c[d] \in [Blocks(d) -> Block]
    <3>1. PICK e \in Disks : c[d] \in [Blocks(e) -> Block]
      BY <2>1
    <3>2. Blocks(e) = Blocks(d)
      BY <2>1, <3>1
    <3>3. QED BY <3>1, <3>2
  <2>3. QED BY <2>1, <2>2
<1>2. ASSUME c = [d \in Disks |-> c[d]], \A d \in Disks : c[d] \in [Blocks(d) -> Block]
      PROVE  c \in Contents
  BY <1>2 DEF Contents
<1>3. QED BY <1>1, <1>2

\* The smaller slot of those that answer is one of them.
LEMMA MinSlot ==
  ASSUME NEW S, S \subseteq Slots, S # {}
  PROVE  Min(S) \in S
<1>1. \E x \in S : \A y \in S : x <= y
  <2>1. CASE 0 \in S
    BY <2>1 DEF Slots
  <2>2. CASE 0 \notin S
    <3>1. \A y \in S : y = 1
      BY <2>2 DEF Slots
    <3>2. 1 \in S
      BY <3>1
    <3>3. QED BY <3>1, <3>2
  <2>3. QED BY <2>1, <2>2
<1>2. QED BY <1>1 DEF Min

\* A request within the volume is answered by exactly the members that work.
LEMMA AnsweringWorks ==
  ASSUME IInv, Mounted, NEW first \in Int, NEW num \in Int, ~OutOfRange(first, num)
  PROVE  Answering(first, num) = {s \in Slots : Works(s)}
<1>1. ASSUME NEW s \in Slots
      PROVE  MemberStatus(s, first, num) = "SUCCESS" <=> Works(s)
  <2>1. CASE disks[s] = Null
    BY <2>1 DEF MemberStatus, Works
  <2>2. CASE disks[s] # Null
    <3>1. NumBlocks[disks[s]] = nblks
      BY <2>2 DEF IInv, TypeOK
    <3>2. QED BY <2>2, <3>1 DEF MemberStatus, ImageStatus, OutOfRange, Works
  <2>3. QED BY <2>1, <2>2
<1>2. QED BY <1>1 DEF Answering

\* Every block that a working member gives is what that member holds.
LEMMA ReadGives ==
  ASSUME IInv, Mounted, NEW b \in 0..(nblks - 1), NEW s \in Slots, Works(s)
  PROVE  /\ ReadStatus(b, 1) = "SUCCESS"
         /\ ReadData(b, 1)[1] = content[disks[s]][b]
         /\ ReadData(b, 1)[1] \in Block
<1>1. b \in Int /\ b >= 0 /\ b + 1 <= nblks /\ nblks \in Nat
  BY DEF IInv, TypeOK
<1>2. ~OutOfRange(b, 1)
  BY <1>1 DEF OutOfRange
<1>3. Answering(b, 1) = {t \in Slots : Works(t)}
  BY <1>1, <1>2, AnsweringWorks
<1>4. s \in Answering(b, 1) /\ Answering(b, 1) # {} /\ Answering(b, 1) \subseteq Slots
  BY <1>3
<1>5. PICK m \in Answering(b, 1) : m = Min(Answering(b, 1))
  BY <1>4, MinSlot
<1>6. m \in Slots /\ Works(m)
  BY <1>3, <1>5
<1>7. ReadData(b, 1)[1] = content[disks[m]][b]
  BY <1>1, <1>4, <1>5 DEF ReadData, ImageData
<1>8. content[disks[m]] = content[disks[s]]
  <2>1. CASE m = s BY <2>1
  <2>2. CASE m # s
    <3>1. Works(0) /\ Works(1)
      BY <1>6, <2>2 DEF Slots
    <3>2. content[disks[0]] = content[disks[1]]
      BY <3>1 DEF IInv, MembersAgree
    <3>3. QED BY <1>6, <3>2 DEF Slots
  <2>3. QED BY <2>1, <2>2
<1>9. content[disks[s]][b] \in Block
  <2>1. disks[s] \in Disks /\ NumBlocks[disks[s]] = nblks
    BY DEF IInv, TypeOK, Works
  <2>2. content[disks[s]] \in [Blocks(disks[s]) -> Block]
    BY <2>1, ContentsByDisk DEF IInv, TypeOK, ImagesTypeOK
  <2>3. QED BY <2>1, <2>2 DEF Blocks
<1>10. QED BY <1>4, <1>7, <1>8, <1>9 DEF ReadStatus

-----------------------------------------------------------------------------
(* One lemma per action *)

LEMMA InitIInv == Init => IInv
BY DEF Init, ImagesInit, IInv, TypeOK, ImagesTypeOK, MembersAgree, Mounted

LEMMA CreateIInv ==
  ASSUME IInv, NEW d0 \in Disks, NEW d1 \in Disks, mirror_create(d0, d1)
  PROVE  IInv'
<1> USE ImagesAssumption, MirrorAssumption DEF IInv, mirror_create
<1>1. ImagesTypeOK'
  BY DEF TypeOK, ImagesTypeOK
<1>2. CASE UNCHANGED <<disks, nblks>>
  BY <1>1, <1>2 DEF TypeOK, MembersAgree, Mounted, Works
<1>3. CASE /\ NumBlocks[d0] = NumBlocks[d1] /\ content[d0] = content[d1]
           /\ disks' = [s \in Slots |-> IF s = 0 THEN d0 ELSE d1]
           /\ nblks' = NumBlocks[d0]
  <2>1. /\ disks' \in [Slots -> Disks \cup {Null}]
        /\ disks'[0] = d0 /\ disks'[1] = d1
        /\ \A s \in Slots : disks'[s] \in {d0, d1}
    BY <1>3 DEF Slots
  <2>2. nblks' \in Nat
    BY <1>3
  <2>3. \A s \in Slots : NumBlocks[disks'[s]] = nblks' /\ status'[disks'[s]] # "closed"
    BY <1>3, <2>1
  <2>4. TypeOK'
    BY <1>1, <2>1, <2>2, <2>3 DEF TypeOK
  <2>5. MembersAgree'
    BY <1>3, <2>1 DEF MembersAgree
  <2>6. QED BY <2>4, <2>5
<1>4. QED BY <1>2, <1>3

\* Flagging members that did not answer keeps the types, and a member that
\* works after it worked before, in the same place.
LEMMA FlaggedMembers ==
  ASSUME IInv, Mounted, NEW S, NEW first, NEW num
  PROVE  LET f == Flagged(S, first, num)
         IN  /\ f \in [Slots -> Disks \cup {Null}]
             /\ f[0] = f[1] => f[0] = Null
             /\ \A s \in Slots : f[s] # Null => f[s] = disks[s]
<1> DEFINE f == Flagged(S, first, num)
<1>1. \A s \in Slots : f[s] = Null \/ f[s] = disks[s]
  BY DEF Flagged
<1>2. disks \in [Slots -> Disks \cup {Null}] /\ (disks[0] = disks[1] => disks[0] = Null)
  BY DEF IInv, TypeOK
<1>3. f \in [Slots -> Disks \cup {Null}]
  BY <1>2 DEF Flagged
<1>4. f[0] = f[1] => f[0] = Null
  BY <1>1, <1>2 DEF Slots
<1>5. \A s \in Slots : f[s] # Null => f[s] = disks[s]
  BY <1>1
<1> HIDE DEF f
<1>6. QED BY <1>3, <1>4, <1>5 DEF f

LEMMA ReadIInv ==
  ASSUME IInv, NEW first \in Int, NEW num \in Int, mirror_read(first, num)
  PROVE  IInv'
<1> USE DEF IInv
<1>1. Mounted /\ UNCHANGED <<content, status, nblks>>
  BY DEF mirror_read
<1>2. CASE UNCHANGED disks
  BY <1>1, <1>2 DEF TypeOK, ImagesTypeOK, MembersAgree, Mounted, Works
<1>3. CASE disks' = Flagged(Asked(first, num), first, num)
  <2>1. /\ disks' \in [Slots -> Disks \cup {Null}]
        /\ disks'[0] = disks'[1] => disks'[0] = Null
        /\ \A s \in Slots : disks'[s] # Null => disks'[s] = disks[s]
    BY <1>1, <1>3, FlaggedMembers
  <2>2. TypeOK'
    BY <1>1, <2>1 DEF TypeOK, ImagesTypeOK
  <2>3. MembersAgree'
    BY <1>1, <2>1 DEF MembersAgree, Works, Slots
  <2>4. QED BY <2>2, <2>3
<1>4. QED BY <1>2, <1>3 DEF mirror_read

\* The blocks of a device after a write, whether it took part in it or not.
LEMMA WriteContents ==
  ASSUME IInv, Mounted, NEW num \in Nat, NEW first \in Int, NEW buf \in [1..num -> Block],
         NEW S, S \subseteq Slots, WriteTo(S, first, buf)
  PROVE  content' \in Contents
<1>1. Len(buf) = num /\ num \in Nat
  BY DEF Block
<1>2. ASSUME NEW d \in Disks PROVE content'[d] \in [Blocks(d) -> Block]
  <2>1. content[d] \in [Blocks(d) -> Block]
    BY ContentsByDisk DEF IInv, TypeOK, ImagesTypeOK
  <2>2. ImageWritten(d, first, buf) \in [Blocks(d) -> Block]
    <3>1. ASSUME NEW b \in Blocks(d), b \in first..(first + Len(buf) - 1)
          PROVE  buf[b - first + 1] \in Block
      <4>1. b - first + 1 \in 1..num
        BY <1>1, <3>1 DEF Blocks
      <4>2. QED BY <4>1
    <3>2. QED BY <2>1, <3>1 DEF ImageWritten
  <2>3. content'[d] = ImageWritten(d, first, buf) \/ content'[d] = content[d]
    BY DEF WriteTo
  <2>4. QED BY <2>1, <2>2, <2>3
<1>3. content' = [d \in Disks |-> content'[d]]
  BY DEF WriteTo
<1>4. QED BY <1>2, <1>3, ContentsByDisk

LEMMA WriteIInv ==
  ASSUME IInv, NEW num \in Nat, NEW first \in Int, NEW buf \in [1..num -> Block],
         mirror_write(first, buf)
  PROVE  IInv'
<1> USE DEF IInv
<1>1. Mounted /\ UNCHANGED <<status, nblks>> /\ Len(buf) = num /\ num \in Int
  BY DEF mirror_write, Block
<1>2. CASE UNCHANGED <<content, disks>>
  BY <1>1, <1>2 DEF TypeOK, ImagesTypeOK, MembersAgree, Mounted, Works
<1>3. CASE /\ ~OutOfRange(first, Len(buf))
           /\ disks' = Flagged(Slots, first, Len(buf))
           /\ WriteTo(Answering(first, Len(buf)), first, buf)
  <2>1. /\ disks' \in [Slots -> Disks \cup {Null}]
        /\ disks'[0] = disks'[1] => disks'[0] = Null
        /\ \A s \in Slots : disks'[s] # Null => disks'[s] = disks[s]
    BY <1>1, <1>3, FlaggedMembers
  <2>2. content' \in Contents
    BY <1>1, <1>3, WriteContents DEF Answering
  <2>3. TypeOK'
    BY <1>1, <2>1, <2>2 DEF TypeOK, ImagesTypeOK
  <2>4. ASSUME Works(0)', Works(1)' PROVE content'[disks'[0]] = content'[disks'[1]]
    <3>1. /\ disks'[0] = disks[0] /\ disks'[1] = disks[1] /\ Works(0) /\ Works(1)
      BY <1>1, <2>1, <2>4 DEF Works, Slots
    <3>2. content[disks[0]] = content[disks[1]]
      BY <1>1, <3>1 DEF MembersAgree
    <3>3. Answering(first, Len(buf)) = Slots
      BY <1>1, <1>3, <3>1, AnsweringWorks DEF Slots
    <3>4. disks[0] \in Disks /\ disks[1] \in Disks
      BY <1>1, <3>1 DEF Works, TypeOK, Slots
    <3>5. \A s \in Slots : content'[disks[s]] = ImageWritten(disks[s], first, buf)
      BY <1>3, <3>3, <3>4 DEF WriteTo, Slots
    <3>6. ImageWritten(disks[0], first, buf) = ImageWritten(disks[1], first, buf)
      BY <3>2 DEF ImageWritten
    <3>7. QED BY <3>1, <3>5, <3>6 DEF Slots
  <2>5. QED BY <2>3, <2>4 DEF MembersAgree
<1>4. QED BY <1>2, <1>3 DEF mirror_write

LEMMA ReplaceIInv ==
  ASSUME IInv, NEW i \in Slots, NEW new \in Disks, mirror_replace(i, new)
  PROVE  IInv'
<1> USE DEF IInv
<1>1. /\ Mounted /\ UNCHANGED <<status, nblks>>
      /\ status[new] = "open" /\ new \notin {disks[s] : s \in Slots}
  BY DEF mirror_replace
<1>2. CASE UNCHANGED <<content, disks>>
  BY <1>1, <1>2 DEF TypeOK, ImagesTypeOK, MembersAgree, Mounted, Works
<1>3. ASSUME NumBlocks[new] = nblks, NEW bfr \in Block,
             content' = [content EXCEPT ![new] =
               [b \in Blocks(new) |-> IF ReadStatus(b, 1) = "SUCCESS"
                                      THEN ReadData(b, 1)[1] ELSE bfr]],
             disks' = [Flagged(Asked(0, 1), 0, 1) EXCEPT ![i] = new]
      PROVE  IInv'
  <2> DEFINE f == Flagged(Asked(0, 1), 0, 1)
  <2>1. /\ f \in [Slots -> Disks \cup {Null}]
        /\ f[0] = f[1] => f[0] = Null
        /\ \A s \in Slots : f[s] # Null => f[s] = disks[s]
    BY <1>1, FlaggedMembers
  <2>2. disks' = [f EXCEPT ![i] = new]
    BY <1>3
  <2> HIDE DEF f
  <2>3. /\ disks' \in [Slots -> Disks \cup {Null}]
        /\ disks'[i] = new
        /\ \A s \in Slots \ {i} : disks'[s] # Null => disks'[s] = disks[s]
    BY <2>1, <2>2
  <2>4. new # Null
    BY MirrorAssumption
  <2>5. disks'[0] = disks'[1] => disks'[0] = Null
    BY <1>1, <2>3 DEF Slots
  <2>6. ASSUME NEW b \in Blocks(new)
        PROVE  /\ content'[new][b] \in Block
               /\ \A s \in Slots : Works(s) => content'[new][b] = content[disks[s]][b]
    <3>1. content \in Contents /\ b \in 0..(nblks - 1)
      BY <1>3 DEF TypeOK, ImagesTypeOK, Blocks
    <3>2. content'[new][b] = IF ReadStatus(b, 1) = "SUCCESS" THEN ReadData(b, 1)[1] ELSE bfr
      BY <1>3, <3>1 DEF Contents
    <3>3. ASSUME NEW s \in Slots, Works(s)
          PROVE  content'[new][b] = content[disks[s]][b] /\ content'[new][b] \in Block
      <4>1. /\ ReadStatus(b, 1) = "SUCCESS"
            /\ ReadData(b, 1)[1] = content[disks[s]][b]
            /\ ReadData(b, 1)[1] \in Block
        BY <1>1, <3>1, <3>3, ReadGives
      <4>2. QED BY <3>2, <4>1
    <3>4. CASE \E s \in Slots : Works(s)
      BY <3>3, <3>4
    <3>5. CASE \A s \in Slots : ~Works(s)
      <4>1. b \in Int /\ ~OutOfRange(b, 1)
        BY <3>1 DEF OutOfRange, TypeOK
      <4>2. Answering(b, 1) = {}
        BY <1>1, <3>5, <4>1, AnsweringWorks
      <4>3. MemberStatus(0, b, 1) # "SUCCESS" /\ MemberStatus(1, b, 1) # "SUCCESS"
        BY <4>2 DEF Answering, Slots
      <4>4. ReadStatus(b, 1) # "SUCCESS"
        BY <4>2, <4>3 DEF ReadStatus
      <4>5. QED BY <1>3, <3>2, <3>5, <4>4
    <3>6. QED BY <3>4, <3>5
  <2>7. content' \in Contents
    <3>1. content = [d \in Disks |-> content[d]]
          /\ \A d \in Disks : content[d] \in [Blocks(d) -> Block]
      BY ContentsByDisk DEF TypeOK, ImagesTypeOK
    <3>2. content' = [d \in Disks |-> content'[d]]
      BY <1>3, <3>1
    <3>3. content'[new] = [b \in Blocks(new) |-> content'[new][b]]
      BY <1>3, <3>1
    <3>4. content'[new] \in [Blocks(new) -> Block]
      BY <2>6, <3>3
    <3>5. \A d \in Disks \ {new} : content'[d] = content[d]
      BY <1>3, <3>1
    <3>6. QED BY <3>1, <3>2, <3>4, <3>5, ContentsByDisk
  <2>8. TypeOK'
    BY <1>1, <1>3, <2>3, <2>4, <2>5, <2>7 DEF TypeOK, ImagesTypeOK
  <2>9. ASSUME NEW s \in Slots \ {i}, Works(s)'
        PROVE  content'[disks'[s]] = content'[new]
    <3>1. disks'[s] = disks[s] /\ Works(s) /\ disks[s] # new
      BY <1>1, <2>3, <2>9 DEF Works
    <3>2. disks[s] \in Disks /\ NumBlocks[disks[s]] = nblks
      BY <1>1, <3>1 DEF Works, TypeOK
    <3>3. content'[disks[s]] = content[disks[s]]
      BY <1>3, <3>1, <3>2 DEF TypeOK, ImagesTypeOK, Contents
    <3>4. Blocks(disks[s]) = Blocks(new)
      BY <1>3, <3>2 DEF Blocks
    <3>5. content[disks[s]] \in [Blocks(new) -> Block] /\ content'[new] \in [Blocks(new) -> Block]
      BY <2>7, <3>2, <3>4, ContentsByDisk DEF TypeOK, ImagesTypeOK
    <3>6. \A b \in Blocks(new) : content'[new][b] = content[disks[s]][b]
      BY <2>6, <3>1
    <3>7. QED BY <3>1, <3>3, <3>5, <3>6
  <2>10. MembersAgree'
    BY <2>3, <2>9 DEF MembersAgree, Slots
  <2>11. QED BY <2>8, <2>10
<1>4. QED BY <1>2, <1>3 DEF mirror_replace

LEMMA CloseIInv == IInv /\ mirror_close => IInv'
BY DEF IInv, mirror_close, TypeOK, ImagesTypeOK, MembersAgree, Mounted

LEMMA FailIInv ==
  ASSUME IInv, NEW d \in Disks, Fail(d)
  PROVE  IInv'
<1>1. /\ status' \in [Disks -> {"open", "failed", "closed"}]
      /\ \A e \in Disks : /\ status'[e] = "open" => status[e] = "open"
                          /\ status[e] # "closed" => status'[e] # "closed"
      /\ UNCHANGED <<content, disks, nblks>>
  BY DEF IInv, TypeOK, ImagesTypeOK, Fail, image_fail
<1>2. TypeOK'
  BY <1>1 DEF IInv, TypeOK, ImagesTypeOK, Mounted
<1>3. MembersAgree'
  BY <1>1 DEF IInv, TypeOK, MembersAgree, Mounted, Works, Slots
<1>4. QED BY <1>2, <1>3 DEF IInv

-----------------------------------------------------------------------------
(* The theorems *)

LEMMA NextIInv == IInv /\ [Next]_vars => IInv'
<1> SUFFICES ASSUME IInv, [Next]_vars PROVE IInv' OBVIOUS
<1>1. CASE UNCHANGED vars
  BY <1>1 DEF vars, IInv, TypeOK, ImagesTypeOK, MembersAgree, Mounted, Works
<1>2. ASSUME NEW d0 \in Disks, NEW d1 \in Disks, mirror_create(d0, d1) PROVE IInv'
  BY <1>2, CreateIInv
<1>3. ASSUME NEW first \in -1..nblks, NEW num \in 0..MaxTransfer,
             \/ mirror_read(first, num)
             \/ \E buf \in [1..num -> Block] : mirror_write(first, buf)
      PROVE  IInv'
  <2>1. first \in Int /\ num \in Nat /\ num \in Int
    BY MirrorAssumption DEF IInv, TypeOK
  <2>2. CASE mirror_read(first, num)
    BY <2>1, <2>2, ReadIInv
  <2>3. CASE \E buf \in [1..num -> Block] : mirror_write(first, buf)
    BY <2>1, <2>3, WriteIInv
  <2>4. QED BY <1>3, <2>2, <2>3
<1>4. ASSUME NEW i \in Slots, NEW new \in Disks, mirror_replace(i, new) PROVE IInv'
  BY <1>4, ReplaceIInv
<1>5. CASE mirror_close
  BY <1>5, CloseIInv
<1>6. ASSUME NEW d \in Disks, Fail(d) PROVE IInv'
  BY <1>6, FailIInv
<1>7. QED BY <1>1, <1>2, <1>3, <1>4, <1>5, <1>6 DEF Next

\* The types, and that two working members hold the same blocks, are inductive
\* together: a read or a copy may come from either, and it fits the new disk.
THEOREM Invariant == Spec => []IInv
BY InitIInv, NextIInv, PTL DEF Spec

\* Members are always different devices of the volume's size, none closed.
THEOREM TypeCorrect == Spec => []TypeOK
BY Invariant, PTL DEF IInv

\* Two working members of the mirror agree, whatever failed, was written while
\* degraded, or was replaced before.
THEOREM WorkingMembersAgree == Spec => []MembersAgree
BY Invariant, PTL DEF IInv

-----------------------------------------------------------------------------
(* The mirror implements a volume that survives one failed member. *)

LEMMA FiniteSlots == IsFiniteSet(Slots)
<1>1. Slots = {0} \cup {1}
  BY DEF Slots
<1>2. QED BY <1>1, FS_Singleton, FS_AddElement

\* How many members are down, case by case.
LEMMA DownCases ==
  ASSUME Mounted
  PROVE  /\ Works(0) /\ Works(1) => Down = 0
         /\ Works(0) /\ ~Works(1) => Down = 1
         /\ ~Works(0) /\ Works(1) => Down = 1
         /\ ~Works(0) /\ ~Works(1) => Down = 2
<1> DEFINE D == {s \in Slots : ~Works(s)}
<1>1. Down = Cardinality(D)
  BY DEF Down
<1>2. /\ Works(0) /\ Works(1) => D = {}
      /\ Works(0) /\ ~Works(1) => D = {1}
      /\ ~Works(0) /\ Works(1) => D = {0}
      /\ ~Works(0) /\ ~Works(1) => D = {0} \cup {1}
  BY DEF Slots
<1> HIDE DEF D
<1>3. Cardinality({}) = 0 /\ Cardinality({0}) = 1 /\ Cardinality({1}) = 1
  BY FS_EmptySet, FS_Singleton
<1>4. Cardinality({0} \cup {1}) = 2
  BY <1>3, FS_Singleton, FS_AddElement
<1>5. QED BY <1>1, <1>2, <1>3, <1>4

\* The operator of FiniteSets that Volume uses is the one used here.
LEMMA SameCardinality == \A S : MirrorView!Cardinality(S) = Cardinality(S)
BY DEF MirrorView!Cardinality, Cardinality

\* The blocks of a mounted volume.
LEMMA StoredBlocks ==
  ASSUME IInv, Mounted
  PROVE  /\ Stored \in [0..(nblks - 1) -> Block]
         /\ MirrorView!Size = nblks
         /\ \A s \in Slots : Works(s) => Stored = content[disks[s]]
<1>1. nblks \in Nat
  BY DEF IInv, TypeOK
<1>2. ASSUME NEW s \in Slots, Works(s) PROVE content[disks[s]] \in [0..(nblks - 1) -> Block]
  <2>1. disks[s] \in Disks /\ NumBlocks[disks[s]] = nblks
    BY <1>2 DEF IInv, TypeOK, Works
  <2>2. content[disks[s]] \in [Blocks(disks[s]) -> Block]
    BY <2>1, ContentsByDisk DEF IInv, TypeOK, ImagesTypeOK
  <2>3. QED BY <2>1, <2>2 DEF Blocks
<1>3. Stored \in [0..(nblks - 1) -> Block]
  BY <1>2 DEF Stored, Slots, Block
<1>4. MirrorView!Size = nblks
  <2>1. DOMAIN Stored = 0..(nblks - 1)
    BY <1>3
  <2>2. Cardinality(0..(nblks - 1)) = nblks
    BY <1>1, FS_Interval
  <2>3. QED BY <2>1, <2>2, SameCardinality DEF MirrorView!Size
<1>5. ASSUME NEW s \in Slots, Works(s) PROVE Stored = content[disks[s]]
  BY <1>5 DEF Stored, IInv, MembersAgree, Slots
<1>6. QED BY <1>3, <1>4, <1>5

\* The same for the request itself.
LEMMA RangeAndLoss ==
  ASSUME IInv, Mounted, NEW first \in Int, NEW num \in Int
  PROVE  /\ MirrorView!InRange(first, num) <=> ~OutOfRange(first, num)
         /\ MirrorView!Lost <=> ~Works(0) /\ ~Works(1)
<1>1. nblks \in Nat /\ MirrorView!Size = nblks
  BY StoredBlocks DEF IInv, TypeOK
<1>2. MirrorView!InRange(first, num) <=> ~OutOfRange(first, num)
  BY <1>1 DEF MirrorView!InRange, OutOfRange
<1>3. MirrorView!Lost <=> ~Works(0) /\ ~Works(1)
  BY DownCases DEF MirrorView!Lost
<1>4. QED BY <1>2, <1>3

\* No call of the mirror is in progress between two steps.
NotPending == last.status # "PENDING"

LEMMA StatusOfCalls ==
  ASSUME NEW first, NEW num
  PROVE  ReadStatus(first, num) # "PENDING" /\ WriteStatus(first, num) # "PENDING"
BY DEF ReadStatus, WriteStatus, MemberStatus, ImageStatus

LEMMA NextNotPending == NotPending /\ [Next]_vars => NotPending'
BY StatusOfCalls DEF NotPending, Next, vars, mirror_create, mirror_read, mirror_write,
   mirror_replace, mirror_close, Fail, Admin, Call

LEMMA CreateImplements ==
  ASSUME IInv, IInv', NEW d0 \in Disks, NEW d1 \in Disks, mirror_create(d0, d1)
  PROVE  MirrorView!Create
<1>1. Stored = <<>> /\ Down = 0 /\ ~Mounted
  BY DEF mirror_create, Stored, Down
<1>2. CASE Admin("create", "NULL") /\ UNCHANGED <<disks, nblks>>
  <2>1. Stored' = <<>> /\ Down' = 0
    BY <1>1, <1>2 DEF Stored, Down, Mounted
  <2>2. QED
    BY <1>1, <1>2, <2>1 DEF MirrorView!Create, MirrorView!Admin, MirrorView!Call, Admin, Call
<1>3. CASE /\ disks' = [s \in Slots |-> IF s = 0 THEN d0 ELSE d1]
           /\ Admin("create", "SUCCESS")
  <2>1. disks'[0] = d0 /\ disks'[1] = d1
    BY <1>3 DEF Slots
  <2>2. Mounted'
    BY <1>3 DEF Mounted, Slots
  <2>3. Works(0)' /\ Works(1)'
    BY <2>1, MirrorAssumption DEF Works, mirror_create
  <2>4. Down' = 0
    <3>1. {s \in Slots : ~Works(s)}' = {}
      BY <2>3 DEF Slots
    <3>2. QED BY <2>2, <3>1, FS_EmptySet DEF Down
  <2>5. Stored' = content'[d0]
    BY <2>1, <2>2, <2>3 DEF Stored
  <2>6. content'[d0] \in [Blocks(d0) -> Block]
    BY ContentsByDisk DEF IInv, TypeOK, ImagesTypeOK, mirror_create
  <2>7. NumBlocks[d0] \in Nat /\ Cardinality(0..(NumBlocks[d0] - 1)) = NumBlocks[d0]
    BY ImagesAssumption, FS_Interval
  <2>8. DOMAIN Stored' = 0..(Cardinality(DOMAIN Stored') - 1)
    BY <2>5, <2>6, <2>7 DEF Blocks
  <2>9. \A l \in DOMAIN Stored' : Stored'[l] \subseteq Bits
    BY <2>5, <2>6 DEF Block
  <2>10. QED
    BY <1>1, <1>3, <2>4, <2>8, <2>9, SameCardinality
    DEF MirrorView!Create, MirrorView!Admin, MirrorView!Call, Admin, Call
<1>4. QED BY <1>2, <1>3 DEF mirror_create

\* A step that leaves the devices alone and drops no working member changes
\* neither the blocks nor the number of members that are down.
LEMMA SameVolume ==
  ASSUME IInv, Mounted, UNCHANGED <<content, status, nblks>>, disks' # <<>>,
         \A s \in Slots : disks'[s] = disks[s] \/ (disks'[s] = Null /\ ~Works(s))
  PROVE  Stored' = Stored /\ Down' = Down
<1>1. Mounted' /\ \A s \in Slots : Works(s)' <=> Works(s)
  BY DEF Works, Mounted
<1>2. \A s \in Slots : Works(s) => disks'[s] = disks[s]
  OBVIOUS
<1>3. Down' = Down
  <2>1. {s \in Slots : ~Works(s)}' = {s \in Slots : ~Works(s)}
    BY <1>1
  <2>2. QED BY <1>1, <2>1 DEF Down
<1>4. Stored' = Stored
  BY <1>1, <1>2 DEF Stored, Slots
<1>5. QED BY <1>3, <1>4

\* Only members that do not work are flagged.
LEMMA FlaggedDoNotWork ==
  ASSUME NEW S, NEW first, NEW num, NEW s \in Slots
  PROVE  \/ Flagged(S, first, num)[s] = disks[s]
         \/ Flagged(S, first, num)[s] = Null /\ ~Works(s)
BY DEF Flagged, MemberStatus, ImageStatus, Works

LEMMA ReadImplements ==
  ASSUME IInv, NEW first \in Int, NEW num \in Nat, mirror_read(first, num)
  PROVE  MirrorView!Refuse("read", first, num, <<>>) \/ MirrorView!Read(first, num)
<1>1. Mounted /\ UNCHANGED <<content, status, nblks>> /\ num \in Int
  BY DEF mirror_read
<1>2. CASE OutOfRange(first, num) /\ last' = Call("read", first, num, "E_SIZE", <<>>)
           /\ UNCHANGED disks
  <2>1. Stored' = Stored /\ Down' = Down
    <3>1. UNCHANGED <<content, status, nblks>> /\ disks' # <<>>
      BY <1>1, <1>2 DEF Mounted
    <3>2. \A s \in Slots : disks'[s] = disks[s] \/ (disks'[s] = Null /\ ~Works(s))
      BY <1>2
    <3>3. QED BY <1>1, <3>1, <3>2, SameVolume
  <2>2. ~MirrorView!InRange(first, num)
    BY <1>1, <1>2, RangeAndLoss
  <2>3. QED BY <1>2, <2>1, <2>2 DEF MirrorView!Refuse, MirrorView!Call, Call
<1>3. CASE /\ ~OutOfRange(first, num)
           /\ disks' = Flagged(Asked(first, num), first, num)
           /\ last' = Call("read", first, num, ReadStatus(first, num), ReadData(first, num))
  <2>1. Stored' = Stored /\ Down' = Down
    <3>1. disks' # <<>>
      BY <1>3 DEF Flagged, Slots
    <3>2. \A s \in Slots : disks'[s] = disks[s] \/ (disks'[s] = Null /\ ~Works(s))
      BY <1>3, FlaggedDoNotWork
    <3>3. QED BY <1>1, <3>1, <3>2, SameVolume
  <2>2. MirrorView!InRange(first, num) /\ (MirrorView!Lost <=> ~Works(0) /\ ~Works(1))
    BY <1>1, <1>3, RangeAndLoss
  <2>3. Answering(first, num) = {s \in Slots : Works(s)}
    BY <1>1, <1>3, AnsweringWorks
  <2>4. CASE Works(0) \/ Works(1)
    <3>1. Answering(first, num) # {} /\ Answering(first, num) \subseteq Slots
      BY <2>3, <2>4 DEF Slots
    <3>2. PICK m \in Answering(first, num) : m = Min(Answering(first, num))
      BY <3>1, MinSlot
    <3>3. Stored = content[disks[m]]
      BY <1>1, <2>3, <3>2, StoredBlocks
    <3>4. ReadData(first, num) = [i \in 1..num |-> Stored[first + i - 1]]
      BY <3>1, <3>2, <3>3 DEF ReadData, ImageData
    <3>5. last' = Call("read", first, num, "SUCCESS",
                       [i \in 1..num |-> Stored[first + i - 1]])
      BY <1>3, <3>1, <3>4 DEF ReadStatus
    <3>6. MirrorView!Read(first, num)
      BY <2>1, <2>2, <2>4, <3>5 DEF MirrorView!Read, MirrorView!Call, Call
    <3>7. QED BY <3>6
  <2>5. CASE ~Works(0) /\ ~Works(1)
    <3>1. Answering(first, num) = {}
      BY <2>3, <2>5 DEF Slots
    <3>2. \A s \in Slots : MemberStatus(s, first, num) = "E_UNAVAIL"
      BY <1>1, <2>5 DEF MemberStatus, ImageStatus, Works, Slots
    <3>3. ReadStatus(first, num) = "E_UNAVAIL" /\ ReadData(first, num) = <<>>
      BY <3>1, <3>2 DEF ReadStatus, ReadData, Slots
    <3>4. last' = Call("read", first, num, "E_UNAVAIL", <<>>)
      BY <1>3, <3>3
    <3>5. MirrorView!Refuse("read", first, num, <<>>)
      BY <2>1, <2>2, <2>5, <3>4 DEF MirrorView!Refuse, MirrorView!Call, Call
    <3>6. QED BY <3>5
  <2>6. QED BY <2>4, <2>5
<1>4. QED BY <1>2, <1>3 DEF mirror_read

LEMMA WriteImplements ==
  ASSUME IInv, IInv', NEW first \in Int, NEW num \in Nat, NEW buf \in [1..num -> Block],
         mirror_write(first, buf)
  PROVE  MirrorView!Refuse("write", first, num, buf) \/ MirrorView!Write(first, buf)
<1>1. Mounted /\ UNCHANGED <<status, nblks>> /\ num \in Int /\ Len(buf) = num
  BY DEF mirror_write, Block
<1>2. CASE OutOfRange(first, num) /\ last' = Call("write", first, num, "E_SIZE", buf)
           /\ UNCHANGED <<content, disks>>
  <2>1. Stored' = Stored /\ Down' = Down
    <3>1. UNCHANGED <<content, status, nblks>> /\ disks' # <<>>
      BY <1>1, <1>2 DEF Mounted
    <3>2. \A s \in Slots : disks'[s] = disks[s] \/ (disks'[s] = Null /\ ~Works(s))
      BY <1>2
    <3>3. QED BY <1>1, <3>1, <3>2, SameVolume
  <2>2. ~MirrorView!InRange(first, num)
    BY <1>1, <1>2, RangeAndLoss
  <2>3. QED BY <1>2, <2>1, <2>2 DEF MirrorView!Refuse, MirrorView!Call, Call
<1>3. CASE /\ ~OutOfRange(first, num)
           /\ disks' = Flagged(Slots, first, num)
           /\ WriteTo(Answering(first, num), first, buf)
           /\ last' = Call("write", first, num, WriteStatus(first, num), buf)
  <2>1. /\ Mounted' /\ \A s \in Slots : Works(s)' <=> Works(s)
        /\ \A s \in Slots : Works(s) => disks'[s] = disks[s]
    BY <1>1, <1>3, FlaggedDoNotWork DEF Mounted, Works, Flagged, Slots
  <2>2. Down' = Down
    <3>1. {s \in Slots : ~Works(s)}' = {s \in Slots : ~Works(s)}
      BY <2>1
    <3>2. QED BY <1>1, <2>1, <3>1 DEF Down
  <2>3. MirrorView!InRange(first, num) /\ (MirrorView!Lost <=> ~Works(0) /\ ~Works(1))
    BY <1>1, <1>3, RangeAndLoss
  <2>4. Answering(first, num) = {s \in Slots : Works(s)}
    BY <1>1, <1>3, AnsweringWorks
  <2>5. CASE Works(0) \/ Works(1)
    <3>1. PICK s \in Slots : Works(s)
      BY <2>5 DEF Slots
    <3>2. Stored = content[disks[s]] /\ Stored \in [0..(nblks - 1) -> Block]
      BY <1>1, <3>1, StoredBlocks
    <3>3. Stored' = content'[disks[s]]
      <4>1. Mounted' /\ Works(s)' /\ IInv'
        BY <2>1, <3>1
      <4>2. Stored' = content'[disks'[s]]
        BY <2>1, <3>1, <4>1 DEF Stored, IInv, MembersAgree, Slots
      <4>3. QED BY <2>1, <3>1, <4>2
    <3>4. content'[disks[s]] = ImageWritten(disks[s], first, buf)
      <4>1. disks[s] \in Disks
        BY <1>1, <3>1 DEF Works, IInv, TypeOK
      <4>2. disks[s] \in {disks[t] : t \in Answering(first, num)}
        BY <2>4, <3>1
      <4>3. QED BY <1>3, <4>1, <4>2 DEF WriteTo
    <3>5. Stored' = [l \in DOMAIN Stored |-> IF l \in first..(first + Len(buf) - 1)
                                             THEN buf[l - first + 1] ELSE Stored[l]]
      BY <3>2, <3>3, <3>4 DEF ImageWritten
    <3>6. last' = Call("write", first, Len(buf), "SUCCESS", buf)
      BY <1>1, <1>3, <2>4, <2>5 DEF WriteStatus, Slots
    <3>7. MirrorView!Write(first, buf)
      BY <1>1, <2>2, <2>3, <2>5, <3>5, <3>6 DEF MirrorView!Write, MirrorView!Call, Call
    <3>8. QED BY <3>7
  <2>6. CASE ~Works(0) /\ ~Works(1)
    <3>1. Stored' = Stored
      BY <1>1, <2>1, <2>6 DEF Stored, Slots
    <3>2. last' = Call("write", first, num, "E_UNAVAIL", buf)
      BY <1>3, <2>4, <2>6 DEF WriteStatus, Slots
    <3>3. MirrorView!Refuse("write", first, num, buf)
      BY <2>2, <2>3, <2>6, <3>1, <3>2 DEF MirrorView!Refuse, MirrorView!Call, Call
    <3>4. QED BY <3>3
  <2>7. QED BY <2>5, <2>6
<1>4. QED BY <1>1, <1>2, <1>3 DEF mirror_write

\* The slot that got the new device works, the other one works if it did.
LEMMA ReplaceImplements ==
  ASSUME IInv, IInv', ~ReplaceLost, NEW i \in Slots, NEW new \in Disks,
         mirror_replace(i, new)
  PROVE  MirrorView!Replace
<1>1. /\ Mounted /\ UNCHANGED <<status, nblks>> /\ status[new] = "open"
      /\ \E s \in Slots : Works(s)
  BY DEF mirror_replace
<1>2. CASE Admin("replace", "E_SIZE") /\ UNCHANGED <<content, disks>>
  <2>1. UNCHANGED <<content, status, nblks>> /\ disks' # <<>>
    BY <1>1, <1>2 DEF Mounted
  <2>2. \A s \in Slots : disks'[s] = disks[s] \/ (disks'[s] = Null /\ ~Works(s))
    BY <1>2
  <2>3. Stored' = Stored /\ Down' = Down
    BY <1>1, <2>1, <2>2, SameVolume
  <2>4. QED
    BY <1>2, <2>3 DEF MirrorView!Replace, MirrorView!Admin, MirrorView!Call, Admin, Call
<1>3. ASSUME NumBlocks[new] = nblks, NEW bfr \in Block,
             content' = [content EXCEPT ![new] =
               [b \in Blocks(new) |-> IF ReadStatus(b, 1) = "SUCCESS"
                                      THEN ReadData(b, 1)[1] ELSE bfr]],
             disks' = [Flagged(Asked(0, 1), 0, 1) EXCEPT ![i] = new],
             Admin("replace", "SUCCESS")
      PROVE  MirrorView!Replace
  <2> DEFINE f == Flagged(Asked(0, 1), 0, 1)
  <2>1. f = [s \in Slots |-> f[s]]
    BY DEF Flagged
  <2>2. \A s \in Slots : Works(s) => f[s] = disks[s]
    BY FlaggedDoNotWork
  <2>3. disks' = [f EXCEPT ![i] = new]
    BY <1>3
  <2> HIDE DEF f
  <2>4. /\ Mounted' /\ disks'[i] = new
        /\ \A s \in Slots : Works(s) /\ s # i => disks'[s] = disks[s]
    BY <2>1, <2>2, <2>3 DEF Mounted, Slots
  <2>5. Works(i)'
    BY <1>1, <2>4, MirrorAssumption DEF Works
  <2>6. \A s \in Slots : Works(s) => Works(s)'
    BY <1>1, <2>4, <2>5 DEF Works
  <2>7. Down' <= Down
    <3>1. {s \in Slots : ~Works(s)}' \subseteq {s \in Slots : ~Works(s)}
      BY <2>6
    <3>2. IsFiniteSet({s \in Slots : ~Works(s)})
      BY FiniteSlots, FS_Subset
    <3>3. Cardinality({s \in Slots : ~Works(s)}') <= Cardinality({s \in Slots : ~Works(s)})
      BY <3>1, <3>2, FS_Subset
    <3>4. QED BY <1>1, <2>4, <3>3 DEF Down
  <2>8. ~MirrorView!Lost
    BY <1>1, DownCases DEF MirrorView!Lost, Slots
  <2>9. Stored' = Stored
    <3>1. PICK s \in Slots : Works(s)
      BY <1>1
    <3>2. Stored = content[disks[s]] /\ Stored \in [0..(nblks - 1) -> Block]
      BY <1>1, <3>1, StoredBlocks
    <3>3. Stored' = content'[new]
      BY <2>4, <2>5 DEF Stored, IInv, MembersAgree, Slots
    <3>4. Blocks(new) = 0..(nblks - 1)
      BY <1>3 DEF Blocks
    <3>5. new \in DOMAIN content
      BY ContentsByDisk DEF IInv, TypeOK, ImagesTypeOK
    <3>6. content'[new] = [b \in 0..(nblks - 1) |-> content[disks[s]][b]]
      <4>1. \A b \in 0..(nblks - 1) : /\ ReadStatus(b, 1) = "SUCCESS"
                                      /\ ReadData(b, 1)[1] = content[disks[s]][b]
        BY <1>1, <3>1, ReadGives
      <4>2. content'[new] = [b \in 0..(nblks - 1) |->
                               IF ReadStatus(b, 1) = "SUCCESS" THEN ReadData(b, 1)[1] ELSE bfr]
        BY <1>3, <3>4, <3>5
      <4>3. QED BY <4>1, <4>2
    <3>7. QED BY <3>2, <3>3, <3>6
  <2>10. QED
    BY <1>3, <2>7, <2>8, <2>9
    DEF MirrorView!Replace, MirrorView!Admin, MirrorView!Call, Admin, Call
<1>4. QED BY <1>1, <1>2, <1>3 DEF mirror_replace

LEMMA CloseImplements == mirror_close => MirrorView!Close
<1> SUFFICES ASSUME mirror_close PROVE MirrorView!Close OBVIOUS
<1>1. ~Mounted'
  BY DEF mirror_close, Mounted
<1>2. QED
  BY <1>1 DEF mirror_close, Stored, Down, MirrorView!Close, MirrorView!Admin,
              MirrorView!Call, Admin, Call

\* A device that fails is a working member of the volume, and then one more
\* member is down, or none of the volume's concern.
LEMMA FailImplements ==
  ASSUME IInv, NEW d \in Disks, Fail(d)
  PROVE  MirrorView!MemberFails \/ UNCHANGED MirrorView!vars
<1>1. /\ UNCHANGED <<content, disks, nblks, last>> /\ Mounted' = Mounted
      /\ status' = [status EXCEPT ![d] = "failed"]
      /\ status \in [Disks -> {"open", "failed", "closed"}]
  BY DEF Fail, image_fail, IInv, TypeOK, ImagesTypeOK, Mounted
<1>2. CASE ~Mounted
  BY <1>1, <1>2 DEF Stored, Down, MirrorView!vars
<1>3. CASE Mounted /\ \A s \in Slots : ~(disks[s] = d /\ Works(s))
  <2>1. \A s \in Slots : disks[s] \in Disks \cup {Null}
    BY <1>3 DEF IInv, TypeOK
  <2>2. \A s \in Slots : Works(s)' <=> Works(s)
    BY <1>1, <1>3, <2>1 DEF Works
  <2>3. {s \in Slots : ~Works(s)}' = {s \in Slots : ~Works(s)}
    BY <2>2
  <2>4. Down' = Down
    BY <1>1, <2>3 DEF Down
  <2>5. Stored' = Stored
    BY <1>1, <2>2 DEF Stored, Slots
  <2>6. QED BY <1>1, <2>4, <2>5 DEF MirrorView!vars
<1>4. ASSUME Mounted, NEW s \in Slots, disks[s] = d, Works(s)
      PROVE  MirrorView!MemberFails
  <2> DEFINE D == {t \in Slots : ~Works(t)}
  <2>1. PICK o \in Slots : o # s /\ Slots = {s, o}
    BY DEF Slots
  <2>2. disks[o] \in Disks \cup {Null} /\ disks[o] # d
    BY <1>4, <2>1, MirrorAssumption DEF IInv, TypeOK, Slots
  <2>3. ~Works(s)' /\ (Works(o)' <=> Works(o))
    BY <1>1, <1>4, <2>2 DEF Works
  <2>4. D' = D \cup {s} /\ s \notin D
    BY <1>4, <2>1, <2>3
  <2>5. Down' = Down + 1
    <3>1. IsFiniteSet(D)
      BY FiniteSlots, FS_Subset
    <3>2. Cardinality(D \cup {s}) = Cardinality(D) + 1
      BY <2>4, <3>1, FS_AddElement
    <3>3. Down = Cardinality(D) /\ Down' = Cardinality(D')
      BY <1>1, <1>4 DEF Down
    <3>4. QED BY <2>4, <3>2, <3>3
  <2>6. /\ Works(o) => Down = 0
        /\ ~Works(o) => Down = 1
    BY <1>4, <2>1, DownCases DEF Slots
  <2>7. CASE Works(o)
    <3>1. Stored = content[disks[o]]
      BY <1>4, <2>7, StoredBlocks
    <3>2. Stored' = content[disks[o]]
      BY <1>1, <1>4, <2>1, <2>3, <2>7 DEF Stored, Slots
    <3>3. ~(Down' > 1)
      BY <2>5, <2>6, <2>7
    <3>4. QED
      BY <1>1, <2>5, <3>1, <3>2, <3>3 DEF MirrorView!MemberFails, MirrorView!Lost
  <2>8. CASE ~Works(o)
    <3>1. DOMAIN Stored = 0..(nblks - 1)
      BY <1>4, StoredBlocks
    <3>2. Stored' = [l \in 0..(nblks - 1) |-> {}]
      BY <1>1, <1>4, <2>1, <2>3, <2>8 DEF Stored, Slots
    <3>3. Down' > 1
      BY <2>5, <2>6, <2>8
    <3>4. QED
      BY <1>1, <2>5, <3>1, <3>2, <3>3 DEF MirrorView!MemberFails, MirrorView!Lost
  <2>9. QED BY <2>7, <2>8
<1>5. QED BY <1>2, <1>3, <1>4

LEMMA NextImplements ==
  ASSUME IInv, IInv', NotPending, ~ReplaceLost, Next
  PROVE  MirrorView!Next \/ UNCHANGED MirrorView!vars
<1>1. MirrorView!Idle
  BY DEF NotPending, MirrorView!Idle
<1>2. ASSUME NEW d0 \in Disks, NEW d1 \in Disks, mirror_create(d0, d1)
      PROVE  MirrorView!Next
  <2>1. MirrorView!Create
    BY <1>2, CreateImplements
  <2>2. QED BY <1>1, <2>1 DEF MirrorView!Next
<1>3. ASSUME NEW first \in -1..nblks, NEW num \in 0..MaxTransfer,
             \/ mirror_read(first, num)
             \/ \E buf \in [1..num -> Block] : mirror_write(first, buf)
      PROVE  MirrorView!Next
  <2>1. first \in Int /\ num \in Nat /\ Mounted
    BY <1>3, MirrorAssumption DEF IInv, TypeOK, mirror_read, mirror_write
  <2>2. first \in -1..MirrorView!Size
    BY <2>1, StoredBlocks
  <2>3. CASE mirror_read(first, num)
    <3>1. MirrorView!Refuse("read", first, num, <<>>) \/ MirrorView!Read(first, num)
      BY <2>1, <2>3, ReadImplements
    <3>2. MirrorView!Request(first, num)
      BY <3>1 DEF MirrorView!Request
    <3>3. QED BY <1>1, <2>2, <3>2 DEF MirrorView!Next
  <2>4. ASSUME NEW buf \in [1..num -> Block], mirror_write(first, buf)
        PROVE  MirrorView!Next
    <3>1. MirrorView!Refuse("write", first, num, buf) \/ MirrorView!Write(first, buf)
      BY <2>1, <2>4, WriteImplements
    <3>2. buf \in [1..num -> SUBSET Bits]
      BY DEF Block
    <3>3. MirrorView!Request(first, num)
      BY <3>1, <3>2 DEF MirrorView!Request
    <3>4. QED BY <1>1, <2>2, <3>3 DEF MirrorView!Next
  <2>5. QED BY <1>3, <2>3, <2>4
<1>4. ASSUME NEW i \in Slots, NEW new \in Disks, mirror_replace(i, new)
      PROVE  MirrorView!Next
  <2>1. MirrorView!Replace
    BY <1>4, ReplaceImplements
  <2>2. QED BY <1>1, <2>1 DEF MirrorView!Next
<1>5. ASSUME mirror_close PROVE MirrorView!Next
  <2>1. MirrorView!Close
    BY <1>5, CloseImplements
  <2>2. QED BY <1>1, <2>1 DEF MirrorView!Next
<1>6. ASSUME NEW d \in Disks, Fail(d)
      PROVE  MirrorView!Next \/ UNCHANGED MirrorView!vars
  <2>1. MirrorView!MemberFails \/ UNCHANGED MirrorView!vars
    BY <1>6, FailImplements
  <2>2. QED BY <1>1, <2>1 DEF MirrorView!Next
<1>7. QED BY <1>2, <1>3, <1>4, <1>5, <1>6 DEF Next

\* A client that replaces a member only while a copy is left has a volume that
\* survives one failed member: what a read returns was last written there, an
\* error has no effect, and when both members are gone the volume says so.
THEOREM Implements == ~ReplaceLost => (Spec => ImplementsVolume)
<1> SUFFICES ASSUME ~ReplaceLost PROVE Spec => ImplementsVolume
  OBVIOUS
<1>1. Init => MirrorView!Init /\ NotPending
  BY DEF Init, MirrorView!Init, MirrorView!Call, Call, Stored, Down, Mounted, NotPending
<1>2. IInv /\ IInv' /\ NotPending /\ [Next]_vars => [MirrorView!Next]_MirrorView!vars
  <2> SUFFICES ASSUME IInv, IInv', NotPending, [Next]_vars
               PROVE  [MirrorView!Next]_MirrorView!vars
    OBVIOUS
  <2>1. CASE UNCHANGED vars
    <3>1. Stored' = Stored /\ Down' = Down
      BY <2>1 DEF vars, Stored, Down, Works, Mounted
    <3>2. QED BY <2>1, <3>1 DEF vars, MirrorView!vars
  <2>2. CASE Next
    BY <2>2, NextImplements
  <2>3. QED BY <2>1, <2>2
<1>3. QED
  BY <1>1, <1>2, Invariant, NextNotPending, PTL DEF Spec, ImplementsVolume, MirrorView!Spec
=============================================================================
