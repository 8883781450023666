------------------------------- MODULE Volume -------------------------------
(***************************************************************************)
(* What a RAID volume promises its client (blkdev.h, README.md and the     *)
(* comments at the operations of homework.c): an array of blocks that      *)
(* survives the failure of Tolerates members.  A read returns what was     *)
(* last written; a request outside the volume is refused without effect,   *)
(* with the status BadAddress; when more members than that have failed the *)
(* blocks are lost, every request is refused, and nothing but a new volume *)
(* ends that.                                                              *)
(* A request may take several steps: its effect comes with the first, its  *)
(* result with the last, and there is no other call in between.            *)
(***************************************************************************)
EXTENDS Integers, Sequences, FiniteSets

CONSTANTS
  Bits,
  Tolerates,     (* how many failed members the volume survives            *)
  BadAddress,    (* the status of a request outside the volume: blkdev.h   *)
                 (* and README.md promise E_BADADDR                        *)
  MaxTransfer    (* bounds the length of a request, for TLC                *)

VARIABLES
  store,         (* the blocks, a function on 0..n-1; empty: no volume     *)
  down,          (* the number of members that have failed                 *)
  last           (* the last call and what it returned                     *)

vars == <<store, down, last>>

Size == Cardinality(DOMAIN store)
Lost == down > Tolerates
Idle == last.status # "PENDING"
InRange(first, num) == num > 0 /\ first >= 0 /\ first + num <= Size

\* data are the blocks handed to a write, or those that a read returned.
Call(op, first, num, st, data) ==
  [op |-> op, first |-> first, num |-> num, status |-> st, data |-> data]

Admin(op, st) == last' = Call(op, 0, 0, st, <<>>)

Init == store = <<>> /\ down = 0 /\ last = Call("none", 0, 0, "SUCCESS", <<>>)

Create ==
  /\ store = <<>>
  /\ \/ /\ Admin("create", "NULL")
        /\ UNCHANGED <<store, down>>
     \/ /\ Admin("create", "SUCCESS")
        /\ DOMAIN store' = 0..(Cardinality(DOMAIN store') - 1)
        /\ \A l \in DOMAIN store' : store'[l] \subseteq Bits
        /\ down' = 0

Refuse(op, first, num, data) ==
  /\ \/ ~InRange(first, num) /\ last' = Call(op, first, num, BadAddress, data)
     \/ /\ InRange(first, num) /\ Lost
        /\ last' = Call(op, first, num, "E_UNAVAIL", data)
  /\ UNCHANGED <<store, down>>

Read(first, num) ==
  /\ InRange(first, num) /\ ~Lost
  /\ last' = Call("read", first, num, "SUCCESS",
                  [i \in 1..num |-> store[first + i - 1]])
  /\ UNCHANGED <<store, down>>

Write(first, buf) ==
  /\ InRange(first, Len(buf)) /\ ~Lost
  /\ store' = [l \in DOMAIN store |-> IF l \in first..(first + Len(buf) - 1)
                                      THEN buf[l - first + 1] ELSE store[l]]
  /\ \E st \in {"PENDING", "SUCCESS"} :
       last' = Call("write", first, Len(buf), st, buf)
  /\ UNCHANGED down

ReadBegins(first, num) ==
  /\ InRange(first, num) /\ ~Lost
  /\ last' = Call("read", first, num, "PENDING", <<>>)
  /\ UNCHANGED <<store, down>>

Request(first, num) ==
  \/ Refuse("read", first, num, <<>>) \/ Read(first, num) \/ ReadBegins(first, num)
  \/ \E buf \in [1..num -> SUBSET Bits] :
       Refuse("write", first, num, buf) \/ Write(first, buf)

WriteReturns ==
  /\ last.op = "write" /\ last.status = "PENDING"
  /\ last' = [last EXCEPT !.status = "SUCCESS"]
  /\ UNCHANGED <<store, down>>

ReadReturns ==
  /\ last.op = "read" /\ last.status = "PENDING"
  /\ Read(last.first, last.num)

MemberFails ==
  /\ down' = down + 1
  /\ store' = IF Lost' THEN [l \in DOMAIN store |-> {}] ELSE store
  /\ UNCHANGED last

Replace ==
  /\ \/ Admin("replace", "E_SIZE") /\ UNCHANGED down
     \/ /\ Admin("replace", "SUCCESS")
        /\ down' <= down
        /\ Lost => Lost'
  /\ UNCHANGED store

Close == store' = <<>> /\ down' = 0 /\ Admin("close", "SUCCESS")

Next ==
  \/ /\ Idle
     /\ \/ Create
        \/ \E first \in -1..Size, num \in 0..MaxTransfer : Request(first, num)
        \/ MemberFails
        \/ Replace
        \/ Close
  \/ WriteReturns
  \/ ReadReturns

Spec == Init /\ [][Next]_vars
=============================================================================
