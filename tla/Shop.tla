-------------------------------- MODULE Shop --------------------------------
(***************************************************************************)
(* What the barbershop promises, without threads, locks or signals: a line *)
(* of chairs, one barber's chair per barber, and customers who leave after *)
(* their haircut.  A customer who finds the line full never becomes        *)
(* visible here.  Barbershop.tla implements this specification.            *)
(***************************************************************************)
EXTENDS Naturals, Sequences, FiniteSets

CONSTANTS Customers, Barbers, MaxChairs, Nobody

VARIABLES
  line,       (* customers in the chairs, in order of arrival              *)
  seat,       (* barber |-> the customer in his chair, or Nobody           *)
  finished    (* customers with a haircut who have not left yet            *)

svars == <<line, seat, finished>>

InLine == {line[i] : i \in DOMAIN line}
InSeat == {seat[b] : b \in Barbers} \ {Nobody}
Inside == InLine \cup InSeat \cup finished

Init ==
  /\ line = <<>>
  /\ seat = [b \in Barbers |-> Nobody]
  /\ finished = {}

SitsDown(c) ==
  /\ c \notin Inside
  /\ Len(line) < MaxChairs
  /\ line' = Append(line, c)
  /\ UNCHANGED <<seat, finished>>

StartsHaircut(b) ==
  /\ seat[b] = Nobody
  /\ line # <<>>
  /\ seat' = [seat EXCEPT ![b] = Head(line)]
  /\ line' = Tail(line)
  /\ UNCHANGED finished

FinishesHaircut(b) ==
  /\ seat[b] # Nobody
  /\ finished' = finished \cup {seat[b]}
  /\ seat' = [seat EXCEPT ![b] = Nobody]
  /\ UNCHANGED line

Leaves(c) ==
  /\ c \in finished
  /\ finished' = finished \ {c}
  /\ UNCHANGED <<line, seat>>

Next ==
  \/ \E c \in Customers : SitsDown(c) \/ Leaves(c)
  \/ \E b \in Barbers : StartsHaircut(b) \/ FinishesHaircut(b)

Safety == Init /\ [][Next]_svars

\* No customer is left in the line while a barber is idle, no haircut lasts
\* for ever, and everybody with a haircut leaves.
Liveness ==
  /\ WF_svars(\E b \in Barbers : StartsHaircut(b))
  /\ \A b \in Barbers : WF_svars(FinishesHaircut(b))
  /\ \A c \in Customers : WF_svars(Leaves(c))

Spec == Safety /\ Liveness
=============================================================================
