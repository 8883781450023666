------------------------------ MODULE ShopQueue ------------------------------
(***************************************************************************)
(* The barbershop with its queue in memory: a customer who takes a chair   *)
(* calls enqueue, a barber who starts a haircut calls dequeue.             *)
(***************************************************************************)
EXTENDS Barbershop, LinkedQueue

sqvars == <<vars, qvars>>

QueueCalls ==
  \/ chairs' = chairs /\ UNCHANGED qvars
  \/ Len(chairs') > Len(chairs) /\ enqueue(Last(chairs'))
  \/ Len(chairs') < Len(chairs) /\ dequeue

ShopQueueInit == Init /\ QueueInit
ShopQueueNext == Next /\ QueueCalls

ShopQueueSpec == ShopQueueInit /\ [][ShopQueueNext]_sqvars

-----------------------------------------------------------------------------
\* The list behind head is the chairs in order, so dequeue returns the customer who
\* waits longest, size counts them, and no node is lost: whatever tail and the last
\* next hold after the queue has shrunk.
QueueIsChairs ==
  /\ size = Len(chairs)
  /\ node \in [DOMAIN node -> [data : Customers, next : Nodes \cup {NULL, Garbage}]]
  /\ \E ns \in [1 .. size -> Nodes] : Represents(ns) /\ Contents(ns) = chairs
=============================================================================
