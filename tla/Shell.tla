-------------------------------- MODULE Shell --------------------------------
(***************************************************************************)
(* part-2.c: the command loop, the program it loads and runs for each      *)
(* command, and the three calls it offers to that program.  The loop and   *)
(* the program read lines from the same console.                           *)
(*                                                                         *)
(*   pc  prompt    in get_next_command, wants a line                       *)
(*       command   has split a line whose first word is not quit           *)
(*       running   in the loaded program                                   *)
(*       quit      command_loop has returned                               *)
(***************************************************************************)
EXTENDS Loader

CONSTANTS
  Lines,         (* what may be typed: sequences that end in a newline     *)
  BufLen,        (* sizeof(cmd_buffer), and the buffer of ugrep            *)
  MaxArgs,       (* length of argv                                         *)
  TERMINATE_STRING,
  Ugrep,         (* the file of ugrep; the others do not read the console  *)
  LoadOffset     (* load_offset of exec_file                               *)

Newline == "\n"
Nul == "NUL"
Blanks == {" ", "\t", Newline}

ASSUME ShellAssumption ==
  /\ BufLen \in Nat \ {0} /\ MaxArgs \in Nat \ {0}
  /\ \A l \in Lines : l \in Seq(STRING) /\ l # <<>> /\ Last(l) = Newline
  /\ Ugrep \in Files /\ LoadOffset \in Nat

VARIABLES
  pc,
  console,       (* characters typed and not read                          *)
  line,          (* the last line typed                                    *)
  cmd_buffer,    (* all of it, with what earlier lines have left there     *)
  argc,
  argv,          (* all of it: indexes of cmd_buffer, 0 at first           *)
  running        (* the file that runs, <<>> if none                       *)

svars == <<pc, console, line, cmd_buffer, argc, argv, running>>

-----------------------------------------------------------------------------
(* do_readline: one character at a time, until a newline or the end of the *)
(* buffer.  The terminator replaces the last character if the buffer is    *)
(* full.                                                                   *)

\* Mutant: room is kept for the newline and for the terminator.
CharsReadShort == Min({BufLen - 2, Min({i \in DOMAIN console : console[i] = Newline})})

CharsRead == Min({BufLen, Min({i \in DOMAIN console : console[i] = Newline})})

\* Mutant: the terminator of a full buffer is written behind it.
TerminatedBehind == Append(SubSeq(console, 1, CharsRead), Nul)

ReadBuffer ==
  IF CharsRead = BufLen THEN Append(SubSeq(console, 1, BufLen - 1), Nul)
                        ELSE Append(SubSeq(console, 1, CharsRead), Nul)

\* The buffer b after the characters read were stored in it.
Stored(b) == ReadBuffer \o SubSeq(b, Len(ReadBuffer) + 1, Len(b))

do_readline ==
  /\ console # <<>>
  /\ console' = SubSeq(console, CharsRead + 1, Len(console))

-----------------------------------------------------------------------------
(* split *)

SkipBlanks(b, p) == Min({q \in p .. Len(b) : b[q] \notin Blanks})
SkipWord(b, p) == Min({q \in p .. Len(b) : b[q] \in Blanks \cup {Nul}})

\* The pointer p after each word: at the next one, or at the terminator when
\* there is none left.
Pointers(b) ==
  LET at[i \in 1 .. MaxArgs] ==
        IF i = 1 THEN SkipBlanks(b, 1) ELSE SkipBlanks(b, SkipWord(b, at[i - 1]))
  IN  at

\* The loop stops at the terminator or after MaxArgs words.
Words(b) ==
  LET at == Pointers(b)
      n == Min({i \in 0 .. MaxArgs : i = MaxArgs \/ b[at[i + 1]] = Nul})
  IN  SubSeq(at, 1, n)

\* The blanks passed are overwritten; those after the MaxArgs-th word are not.
Terminated(b) ==
  LET end == Pointers(b)[MaxArgs] IN
  [q \in DOMAIN b |-> IF b[q] \in Blanks /\ q < end THEN Nul ELSE b[q]]

\* Of argv only the elements of the words found are written.
split(b) ==
  /\ argc' = Len(Words(b))
  /\ argv' = [i \in DOMAIN argv |-> IF i <= argc' THEN Words(b)[i] ELSE argv[i]]
  /\ cmd_buffer' = Terminated(b)

\* The string a pointer into the buffer stands for.
StringAt(b, p) == SubSeq(b, p, Min({q \in p .. Len(b) : b[q] = Nul}) - 1)

\* No string.
NullPointer == <<Nul>>

\* Mutant: an argument is there if its element of argv was ever written.
GetargStale(i) == IF argv[i + 1] # 0 THEN StringAt(cmd_buffer, argv[i + 1]) ELSE NullPointer

do_getarg(i) == IF i < argc THEN StringAt(cmd_buffer, argv[i + 1]) ELSE NullPointer

str_starts_with(s, prefix) == IsPrefix(prefix, s)

-----------------------------------------------------------------------------
ShellInit ==
  /\ pc = "prompt"
  /\ console = <<>> /\ line = <<>>
  /\ cmd_buffer = [q \in 1 .. BufLen |-> Nul]
  /\ argc = 0 /\ argv = [i \in 1 .. MaxArgs |-> 0]
  /\ running = <<>>

Typed ==
  /\ pc \in {"prompt", "running"}
  /\ console = <<>>
  /\ \E l \in Lines : console' = l /\ line' = l
  /\ UNCHANGED <<mem, pc, cmd_buffer, argc, argv, running>>

\* get_next_command; the loop ends when the first word starts with "quit".
get_next_command ==
  /\ pc = "prompt"
  /\ do_readline
  /\ split(Stored(cmd_buffer))
  /\ pc' = CASE argc' = 0 -> "prompt"
             [] argc' # 0 /\ str_starts_with(do_getarg(0)', TERMINATE_STRING) -> "quit"
             [] OTHER -> "command"
  /\ UNCHANGED <<mem, line, running>>

OpenFails ==
  /\ pc = "command"
  /\ do_getarg(0) \notin Files
  /\ pc' = "prompt"
  /\ UNCHANGED <<mem, console, line, cmd_buffer, argc, argv, running>>

\* exec_file until it calls the entry point.
ExecLoads ==
  /\ pc = "command"
  /\ do_getarg(0) \in Files
  /\ running' = do_getarg(0)
  /\ mem' = LoadAll(mem, running', LoadOffset)
  /\ pc' = "running"
  /\ UNCHANGED <<console, line, cmd_buffer, argc, argv>>

\* exec_file after the program has returned; before that the program may have
\* written to its memory.
ExecUnmaps ==
  /\ \E written \in {{}, Mapped(mem)} :
       mem' = UnmapAll([a \in Addresses |-> IF a \in written THEN Dirty ELSE mem[a]],
                       running, LoadOffset)
  /\ pc' = "prompt"
  /\ running' = <<>>

-----------------------------------------------------------------------------
(* The micro-programs. *)

\* hello and wait: they return without reading.
ProgramReturns ==
  /\ pc = "running" /\ running # Ugrep
  /\ ExecUnmaps
  /\ UNCHANGED <<console, line, cmd_buffer, argc, argv>>

\* ugrep prints its usage unless it has one argument.
OneArgument == do_getarg(1) # NullPointer /\ do_getarg(2) = NullPointer

UgrepUsage ==
  /\ pc = "running" /\ running = Ugrep
  /\ ~OneArgument
  /\ ExecUnmaps
  /\ UNCHANGED <<console, line, cmd_buffer, argc, argv>>

UgrepEnds ==
  /\ pc = "running" /\ running = Ugrep
  /\ OneArgument
  /\ do_readline /\ ReadBuffer[1] \in {Newline, Nul}
  /\ ExecUnmaps
  /\ UNCHANGED <<line, cmd_buffer, argc, argv>>

\* It prints the line if the pattern is in it.
UgrepReads ==
  /\ pc = "running" /\ running = Ugrep
  /\ OneArgument
  /\ do_readline /\ ReadBuffer[1] \notin {Newline, Nul}
  /\ UNCHANGED <<mem, pc, line, cmd_buffer, argc, argv, running>>

ShellNext ==
  \/ Typed \/ get_next_command \/ OpenFails \/ ExecLoads
  \/ ProgramReturns \/ UgrepUsage \/ UgrepEnds \/ UgrepReads

-----------------------------------------------------------------------------
(* Properties *)

ShellTypeOK ==
  /\ pc \in {"prompt", "command", "running", "quit"}
  /\ line \in Lines \cup {<<>>} /\ IsSuffix(console, line)
  /\ Len(cmd_buffer) = BufLen /\ Last(cmd_buffer) = Nul
  /\ argc \in 0 .. MaxArgs
  /\ argv \in [1 .. MaxArgs -> 0 .. BufLen] /\ \A i \in 1 .. argc : argv[i] # 0
  /\ running \in Files \cup {<<>>}

\* The words of a line, each by its start: what split should find.
IsBlank(l, i) == i \notin DOMAIN l \/ l[i] \in Blanks
WordStarts(l) == {i \in DOMAIN l : ~IsBlank(l, i) /\ IsBlank(l, i - 1)}
WordAt(l, i) == SubSeq(l, i, Min({j \in i .. Len(l) : IsBlank(l, j + 1)}))

\* A line with its newline fits into the buffer in front of the terminator.
Fits(l) == Len(l) < BufLen

\* part-2.md: "returns argument i, or 0 if there weren't that many arguments".  The
\* strings lie in a buffer that is written over in place and reused for every
\* line, as argv is; the last of MaxArgs words is not terminated and goes on to the
\* end of the line.
ArgsAreWords ==
  pc = "command" /\ Fits(line) =>
    LET starts == WordStarts(line) IN
    \A i \in 0 .. MaxArgs - 1 :
      \/ i >= Cardinality(starts) /\ do_getarg(i) = NullPointer
      \/ \E s \in starts :
           /\ Cardinality({t \in starts : t < s}) = i
           /\ do_getarg(i) = IF i < MaxArgs - 1 THEN WordAt(line, s)
                                                ELSE SubSeq(line, s, Len(line))

\* What the terminal hands over: one line, without a terminator in it.
LinesAreText ==
  \A l \in Lines : \A i \in DOMAIN l : l[i] # Nul /\ (l[i] = Newline => i = Len(l))

\* part-2.md: readline "reads up to n-1 bytes" of a line.  The command loop and the
\* program it runs take such lines whole: neither starts in the middle of a line
\* the other has left.
LinesAreWhole == Fits(line) => console \in {<<>>, line}
=============================================================================
