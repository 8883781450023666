----------------------------- MODULE LinkedQueue -----------------------------
(***************************************************************************)
(* queue.c: a singly linked list with a count.  The count decides which    *)
(* pointers are good: tail is not kept while the list has fewer than two   *)
(* nodes, and the next of the second node is not set.                      *)
(***************************************************************************)
EXTENDS Integers, SequencesExt

CONSTANTS
  Nodes,         (* what malloc returns                                    *)
  NULL,
  Garbage        (* what memory from malloc holds                          *)

ASSUME QueueAssumption == NULL \notin Nodes /\ Garbage \notin Nodes

VARIABLES
  head,
  tail,
  size,
  node           (* the nodes allocated |-> their data and next            *)

qvars == <<head, tail, size, node>>

\* EMPTY_QUEUE_INITALIZER
QueueInit ==
  /\ head = NULL /\ tail = NULL /\ size = 0
  /\ node = <<>>

\* The nodes after n has been taken, with its contents, and linked behind p.
Allocated(n, element, after) ==
  [m \in DOMAIN node \cup {n} |->
     IF m = n THEN [data |-> element, next |-> after] ELSE node[m]]
Linked(n, element, after, p) ==
  [Allocated(n, element, after) EXCEPT ![p].next = n]

\* Mutant: from the third node on the size stays (as in the queue of project 0).
EnqueueUncounted(element) ==
  \E n \in Nodes \ DOMAIN node :
    \/ /\ size = 0
       /\ head' = n /\ tail' = NULL /\ size' = 1
       /\ node' = Allocated(n, element, NULL)
    \/ /\ size = 1
       /\ tail' = n /\ size' = 2 /\ UNCHANGED head
       /\ node' = Linked(n, element, Garbage, head)
    \/ /\ size > 1
       /\ tail' = n /\ UNCHANGED <<head, size>>
       /\ node' = Linked(n, element, NULL, tail)

enqueue(element) ==
  \E n \in Nodes \ DOMAIN node :
    /\ size' = size + 1
    /\ \/ /\ size = 0
          /\ head' = n /\ tail' = NULL
          /\ node' = Allocated(n, element, NULL)
       \/ /\ size = 1
          /\ tail' = n /\ UNCHANGED head
          /\ node' = Linked(n, element, Garbage, head)
       \/ /\ size > 1
          /\ tail' = n /\ UNCHANGED head
          /\ node' = Linked(n, element, NULL, tail)

dequeue ==
  /\ size > 0
  /\ head' = node[head].next
  /\ size' = size - 1
  /\ node' = [m \in DOMAIN node \ {head} |-> node[m]]
  /\ UNCHANGED tail

-----------------------------------------------------------------------------
\* The nodes ns are the list, first to last, and there are no others.
Represents(ns) ==
  /\ IsInjective(ns) /\ ToSet(ns) = DOMAIN node
  /\ size > 0 => head = ns[1]
  /\ size > 1 => tail = ns[size]
  /\ \A i \in 1 .. size - 1 : node[ns[i]].next = ns[i + 1]

Contents(ns) == [i \in 1 .. size |-> node[ns[i]].data]
=============================================================================
