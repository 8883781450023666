----------------------------- MODULE Coroutines -----------------------------
(***************************************************************************)
(* What yielding promises: two processes, each with its own registers and  *)
(* its own place in its program, of which one runs until it hands over.    *)
(* Switch.tla implements this with two stacks and one set of registers.    *)
(***************************************************************************)
EXTENDS Integers, Sequences

CONSTANTS Program, RegisterNames, Values

VARIABLES
  turn,       (* the process that runs, 0 for main                         *)
  place,      (* process |-> index of its next call                        *)
  own,        (* process |-> its registers                                 *)
  output

cvars == <<turn, place, own, output>>

Calls(p, call) ==
  /\ turn = p
  /\ place[p] \in DOMAIN Program[p]
  /\ Program[p][place[p]] = call
  /\ place' = [place EXCEPT ![p] = @ + 1]

CInit ==
  /\ turn = 0
  /\ place = [p \in {1, 2} |-> 1]
  /\ own \in [{1, 2} -> [RegisterNames -> Int]]
  /\ output = <<>>

Starts == output = <<>> /\ turn = 0 /\ turn' = 1 /\ UNCHANGED <<place, own, output>>

Prints(p) ==
  /\ Calls(p, "print")
  /\ output' = Append(output, p)
  /\ \E values \in [RegisterNames -> Values] : own' = [own EXCEPT ![p] = values]
  /\ UNCHANGED turn

Yields(p) == Calls(p, "yield") /\ turn' = 3 - p /\ UNCHANGED <<own, output>>

\* What is in the registers of a process that has exited is not told.
Exits(p) ==
  /\ Calls(p, "uexit")
  /\ turn' = 0
  /\ own' = [own EXCEPT ![p] = own'[p]]
  /\ UNCHANGED output

Done ==
  /\ turn = 0 /\ output # <<>> /\ output[Len(output)] # 0
  /\ output' = Append(output, 0)
  /\ UNCHANGED <<turn, place, own>>

CNext ==
  \/ Starts \/ Done
  \/ \E p \in {1, 2} : Prints(p) \/ Yields(p) \/ Exits(p)

CSpec == CInit /\ [][CNext]_cvars
=============================================================================
