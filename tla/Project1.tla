------------------------------ MODULE Project1 ------------------------------
(***************************************************************************)
(* The programs of project 1: the same loader and the same piece of the    *)
(* address space under the command loop of part-2 and the processes of     *)
(* part-3.                                                                 *)
(***************************************************************************)
EXTENDS Shell, Switch

VARIABLE program

pvars == <<mem, svars, wvars, program>>

Init ==
  /\ mem = NoMemory
  /\ program \in {"part-2", "part-3"}
  /\ ShellInit
  /\ SwitchInit

Next ==
  /\ UNCHANGED program
  /\ \/ program = "part-2" /\ ShellNext /\ UNCHANGED wvars
     \/ program = "part-3" /\ SwitchNext /\ UNCHANGED svars

\* part-3 runs alone and waits for nothing; nobody has to type commands.
Spec == Init /\ [][Next]_pvars /\ WF_pvars(program = "part-3" /\ Next)

\* Every variable holds a value of its type.
TypeOK ==
  /\ mem \in [Addresses -> {Unmapped, Dirty, Zero} \cup (Files \X Nat)]
  /\ ShellTypeOK
  /\ at \in {0, 1, 2} \X Nat /\ current \in {0, 1, 2}
  /\ curStack \in [{0, 1, 2} -> Nat \cup {NULL}]

\* A program is entered with exactly the image its file describes, its data not
\* what an earlier run left there, and part-3's two images do not disturb each
\* other.
ImagesIntact ==
  /\ pc = "running" => ImageAt(mem, running, LoadOffset)
  /\ Loaded => \A p \in Processes : ImageAt(mem, Process[p], Offset[p])

\* The programs are linked for the addresses they are loaded at.
ProgramsFit ==
  /\ \A f \in Files : FitsAt(f, LoadOffset)
  /\ \A p \in Processes : FitsAt(Process[p], Offset[p])
  /\ PagesOf(Process[1], Offset[1]) \cap PagesOf(Process[2], Offset[2]) = {}

\* part-3.md shows the lines of the two processes in turn and "done" under them: each
\* has printed all of its own when "one of them will call uexit".  That is process 1;
\* process 2 stays in its last yield, its own call of uexit still before it.
LinesOf(p) == Cardinality({i \in DOMAIN Program[p] : Program[p][i] = "print"})

FinishesDone ==
  program = "part-3" ~>
    /\ at = <<0, 3>>
    /\ LET lines == LinesOf(1) + LinesOf(2) IN
       output = Append([i \in 1 .. lines |-> IF i % 2 = 1 THEN 1 ELSE 2], 0)
    /\ Program[2][PlaceOf(2)] = "uexit"
=============================================================================
