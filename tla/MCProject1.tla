----------------------------- MODULE MCProject1 -----------------------------
(* An instance of Project1 for TLC: pages of four bytes, file names and      *)
(* lines made of two letters and blanks.                                     *)
EXTENDS Project1

MCHello == <<"a">>
MCUgrep == <<"b">>
MCProcess == <<<<"process1">>, <<"process2">>>>
MCFiles == {MCHello, MCUgrep, MCProcess[1], MCProcess[2]}

Segment(vaddr, offset, filesz, memsz) ==
  [type |-> "PT_LOAD", vaddr |-> vaddr, offset |-> offset,
   filesz |-> filesz, memsz |-> memsz]

Note == [type |-> "PT_NOTE", vaddr |-> 1, offset |-> 1, filesz |-> 1, memsz |-> 1]

\* Text and data; the data is longer in memory, over the end of a page.
MCPhdrs ==
  [f \in MCFiles |->
     IF f = MCHello THEN <<Segment(0, 0, 3, 3), Note, Segment(4, 3, 1, 5)>>
     ELSE IF f = MCUgrep THEN <<Segment(0, 0, 4, 4), Note>>
     ELSE <<Segment(0, 0, 4, 4), Segment(4, 4, 1, 3)>>]

\* Blank ones, ones that name nothing or start like the word that quits, ones with
\* blanks around and between, of one word to four, the third and last of argv with
\* more behind it, and ones that are as long as the buffer, one less and one more.
MCLines ==
  {Append(s, Newline) : s \in {
    <<>>, <<" ">>, <<"a">>, <<" ", "a", " ">>, <<"a", "a", "b">>,
    <<"q", "a">>, <<" ", "q">>, <<"a", "q">>,
    <<"b", " ", "a">>, <<"b", " ", "a", " ", "a", " ">>,
    <<"b", " ", "a", " ", "b", " ", "a">>,
    <<"a", "a", "b", "b", " ", "a", "a", "b">>,
    <<"b", " ", " ", "a", "a", "b", "b", "a", "b">>}}

MCTerminate == <<"q">>

\* The hypotheses of the theorems hold of this instance.
ASSUME InstanceAssumption == LinesAreText /\ ProgramsFit /\ PrintsFirst

MCCalls == <<"print", "yield", "print", "yield", "print", "yield", "print", "yield", "uexit">>
MCProgram == <<MCCalls, MCCalls>>
MCOffset == <<4, 12>>
MCUsed == {"rbp", "rbx", "r15"}
=============================================================================
