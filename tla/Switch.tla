------------------------------- MODULE Switch -------------------------------
(***************************************************************************)
(* part-3.c with switch.S and stack.c: two loaded processes, each with a   *)
(* stack of its own, that hand the processor to each other.                *)
(*                                                                         *)
(* A stack is the sequence of the words on it, the top last; what lies     *)
(* above the stack pointer is not kept.  A place in the code, and so a     *)
(* return address, is <<p, i>>: call i of the main of process p; that of   *)
(* part-3.c is process 0.                                                  *)
(***************************************************************************)
EXTENDS Loader

CONSTANTS
  Program,       (* process |-> the calls its main makes                   *)
  Process,       (* process |-> its file                                   *)
  Offset,        (* process |-> its load_offset                            *)
  Used,          (* the registers a process computes with                  *)
  Values,        (* what it leaves in them                                 *)
  NULL,
  Flag,          (* the word switch_to pushes last and checks              *)
  Guard,         (* the words under the first frame of a process           *)
  DoYield        (* the place in a yield function after its switch_to      *)

Processes == {1, 2}
Home == <<0, 2>>               (* main of part-3.c after its switch_to      *)

\* The order in which switch_to pushes the registers, and pops them.
Pushed == <<"rbp", "rsi", "rdi", "rbx", "r12", "r13", "r14", "r15">>

\* Mutant: they are popped in the order of the pushes.
PoppedAsPushed == Pushed

Popped == <<"r15", "r14", "r13", "r12", "rbx", "rdi", "rsi", "rbp">>

Registers == ToSet(Pushed)

\* What a caller may keep in a register over a call; places are no other words.
ASSUME SwitchAssumption ==
  /\ NULL \notin Nat
  /\ Values \subseteq Nat
  /\ Used \subseteq Registers \ {"rsi", "rdi"}
  /\ Process \in [Processes -> Files] /\ Offset \in [Processes -> Nat]
  /\ DoYield \notin {0, 1, 2} \X Nat

VARIABLES
  stack,         (* stack 0 is that of main, from its call of switch_to on *)
  current,       (* the stack the processor is on                          *)
  regs,          (* the registers switch_to saves                          *)
  curStack,      (* curStack0, 1 and 2: length of a suspended stack, NULL  *)
  at,            (* the place in the code                                  *)
  output,        (* who printed, 0 for "done"                              *)
  halted         (* "flag value on top of new stack?" was answered no      *)

wvars == <<stack, current, regs, curStack, at, output, halted>>

\* setup_stack2: the frame switch_to pops, with func as its return address.  old_bp
\* is the end of the stack, 0 when positions are counted from there.
setup_stack2(func, arg1, arg2) ==
  <<Guard, Guard, Guard, func, 0, arg2, arg1, 0, 0, 0, 0, 0, Flag>>

setup_stack0(func) == setup_stack2(func, 0, 0)

SwitchInit ==
  /\ stack = [s \in {0, 1, 2} |-> <<>>]
  /\ current = 0
  /\ regs = [r \in Registers |-> 0]
  /\ curStack = [s \in {0, 1, 2} |-> NULL]
  /\ at = <<0, 0>>
  /\ output = <<>>
  /\ halted = FALSE

\* switch_to(location, new) called with the words of s on the current stack and
\* the registers r: the frame is pushed and the flag, the pointer saved unless
\* the location is NULL, and the frame of the other stack is popped.
Frame(s, r) == s \o [i \in DOMAIN Pushed |-> r[Pushed[i]]] \o <<Flag>>

\* In the frame at the top of s: its return address, the words under that, and
\* the registers.
ReturnAddress(s) == s[Len(s) - Len(Popped) - 1]
Caller(s) == SubSeq(s, 1, Len(s) - Len(Popped) - 2)
Restored(s) ==
  [r \in Registers |->
     LET i == CHOOSE i \in DOMAIN Popped : Popped[i] = r IN s[Len(s) - i]]

\* A frame that returns into do_yield12 or do_yield21 has theirs under it, the frame
\* pointer of the caller and the return address: the function returns, too.
switch_to(s, r, location, new) ==
  LET target == SubSeq(stack[new], 1, curStack[new])
      back == Restored(target)
      caller == Caller(target) IN
  IF curStack[new] = NULL \/ Last(target) # Flag
  THEN halted' = TRUE /\ UNCHANGED <<stack, current, regs, curStack, at>>
  ELSE /\ UNCHANGED halted
       /\ curStack' = IF location = NULL THEN curStack
                      ELSE [curStack EXCEPT ![location] = Len(Frame(s, r))]
       /\ current' = new
       /\ IF ReturnAddress(target) = DoYield
          THEN /\ at' = caller[Len(caller) - 1]
               /\ regs' = [back EXCEPT !["rbp"] = Last(caller)]
               /\ stack' = [stack EXCEPT ![current] = Frame(s, r),
                                         ![new] = SubSeq(caller, 1, Len(caller) - 2)]
          ELSE /\ at' = ReturnAddress(target)
               /\ regs' = back
               /\ stack' = [stack EXCEPT ![current] = Frame(s, r), ![new] = caller]

\* The call of do_yield12, do_yield21 or do_uexit from the place at.
Yield(location, new) ==
  switch_to(stack[current] \o <<<<at[1], at[2] + 1>>, regs["rbp"], DoYield>>,
            [regs EXCEPT !["rbp"] = 0, !["rdi"] = location, !["rsi"] = curStack[new]],
            location, new)

-----------------------------------------------------------------------------
(* main of part-3.c *)

LoadProcesses ==
  /\ at = <<0, 0>>
  /\ mem' = LoadAll(LoadAll(mem, Process[1], Offset[1]), Process[2], Offset[2])
  /\ stack' = [stack EXCEPT ![1] = setup_stack0(<<1, 1>>), ![2] = setup_stack0(<<2, 1>>)]
  /\ curStack' = [curStack EXCEPT ![1] = Len(stack'[1]), ![2] = Len(stack'[2])]
  /\ at' = <<0, 1>>
  /\ UNCHANGED <<current, regs, output, halted>>

MainSwitches ==
  /\ at = <<0, 1>>
  /\ switch_to(<<Home>>, [regs EXCEPT !["rdi"] = 0, !["rsi"] = curStack[1]], 0, 1)
  /\ UNCHANGED <<mem, output>>

MainDone ==
  /\ at = Home
  /\ output' = Append(output, 0)
  /\ at' = <<0, 3>>
  /\ UNCHANGED <<mem, stack, current, regs, curStack, halted>>

-----------------------------------------------------------------------------
(* The processes. *)

NextCall(p, call) ==
  /\ at[1] = p /\ at[2] \in DOMAIN Program[p]
  /\ Program[p][at[2]] = call

\* A process computes with its registers between two calls.
Prints(p) ==
  /\ NextCall(p, "print")
  /\ output' = Append(output, p)
  /\ \E v \in [Used -> Values] :
       regs' = [r \in Registers |-> IF r \in Used THEN v[r] ELSE regs[r]]
  /\ at' = <<p, at[2] + 1>>
  /\ UNCHANGED <<mem, stack, current, curStack, halted>>

do_yield12 == NextCall(1, "yield") /\ Yield(1, 2) /\ UNCHANGED <<mem, output>>
do_yield21 == NextCall(2, "yield") /\ Yield(2, 1) /\ UNCHANGED <<mem, output>>

\* Mutant: it switches to the other process.
ExitsToOther(p) == NextCall(p, "uexit") /\ Yield(NULL, 3 - p) /\ UNCHANGED <<mem, output>>

do_uexit(p) == NextCall(p, "uexit") /\ Yield(NULL, 0) /\ UNCHANGED <<mem, output>>

SwitchNext ==
  /\ ~halted
  /\ \/ LoadProcesses \/ MainSwitches \/ MainDone
     \/ do_yield12 \/ do_yield21
     \/ \E p \in Processes : Prints(p) \/ do_uexit(p)

-----------------------------------------------------------------------------
(* Properties *)

\* A process sees its registers unchanged across a yield.
Suspended(p) == SubSeq(stack[p], 1, curStack[p])
HasYielded(p) == ReturnAddress(Suspended(p)) = DoYield
Loaded == at # <<0, 0>>

PlaceOf(p) ==
  CASE ~Loaded -> 1
    [] Loaded /\ at[1] = p -> at[2]
    [] Loaded /\ at[1] # p /\ HasYielded(p) -> Caller(Suspended(p))[4][2]
    [] OTHER -> ReturnAddress(Suspended(p))[2]

OwnRegisters(p) ==
  LET values == CASE ~Loaded -> [r \in Used |-> 0]
                  [] Loaded /\ at[1] = p -> regs
                  [] Loaded /\ at[1] # p /\ HasYielded(p) ->
                       [Restored(Suspended(p)) EXCEPT !["rbp"] = Last(Caller(Suspended(p)))]
                  [] OTHER -> Restored(Suspended(p))
  IN [r \in Used |-> values[r]]

Routines ==
  INSTANCE Coroutines WITH
    RegisterNames <- Used,
    turn <- at[1],
    place <- [p \in Processes |-> PlaceOf(p)],
    own <- [p \in Processes |-> OwnRegisters(p)]

\* The program has begun to print before it can be done.
PrintsFirst == 1 \in DOMAIN Program[1] /\ Program[1][1] = "print"

\* part-3.md: the processes "switch back and forth between each other".  Each goes
\* on where it stopped, with its own callee-saved registers and frame pointer.
ImplementsCoroutines == Routines!CSpec
=============================================================================
