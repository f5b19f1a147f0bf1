---------------------------- MODULE SdccCritical ----------------------------
(***************************************************************************)
(* What the mcs51 back end emits for __critical functions, __critical      *)
(* statements and interrupt routines (src/src/mcs51/gen.c), executed one   *)
(* instruction at a time by an 8051 with two interrupt levels.  The        *)
(* emitted code is data here: a sequence of instructions for each kind of  *)
(* routine, with "body" for what the programmer wrote.  A body computes,   *)
(* writes EA outside of critical code, and enters critical code, nested    *)
(* through functions that are not critical themselves.                     *)
(***************************************************************************)
EXTENDS Naturals, Sequences, SequencesExt

CONSTANT MaxFrames   \* bound on the routines under way, the main program included

ASSUME CriticalAssumption == MaxFrames \in Nat \ {0}

VARIABLES
  EA,      \* the global interrupt enable
  C, A,    \* the carry and bit 0 of the accumulator
  stack,   \* the bytes pushed, each for its only bit of interest
  frames,  \* the routines under way, the running one last
  wanted   \* history: what the program itself last wrote to EA

vars == <<EA, C, A, stack, frames, wanted>>

-----------------------------------------------------------------------------
(* The emitted code.                                                       *)

\* [mutant] EA is read and then cleared.
CriticalFunction_TwoSteps ==
  <<"mov_c_ea", "clr_ea", "push_psw", "body", "pop_psw", "mov_ea_c", "ret">>

\* [mutant] EA is set at the end as an interrupt routine does it.
CriticalFunction_Sets == <<"clr_ea", "body", "setb_ea", "ret">>

\* A critical function, or a critical statement of a program compiled with
\* --stack-auto, which has no "ret": jbc skips the clr when it finds EA set.
CriticalFunction ==
  <<"setb_c", "jbc_ea", "clr_c", "push_psw", "body", "pop_psw", "mov_ea_c", "ret">>

\* A critical function whose result is in the carry
CriticalBitFunction ==
  <<"setb_c", "jbc_ea", "clr_c", "push_psw", "body", "rlc_a", "pop_psw", "mov_ea_c", "rrc_a", "ret">>

\* A critical statement that keeps the state in a bit of its own.  genCritical takes
\* a V_BIT temporary for it, so the way out through the accumulator is not reached.
CriticalStatement ==
  <<"setb_b", "jbc_ea", "clr_b", "body", "mov_c_b", "mov_ea_c", "ret">>

\* [mutant] The registers are restored in the order in which they were saved.
InterruptRoutine_Swapped ==
  <<"push_acc", "push_psw", "body", "pop_acc", "pop_psw", "reti">>

\* The other registers are saved like acc.
InterruptRoutine ==
  <<"push_acc", "push_psw", "body", "pop_psw", "pop_acc", "reti">>

CriticalInterruptRoutine ==
  <<"clr_ea", "push_acc", "push_psw", "body", "pop_psw", "pop_acc", "setb_ea", "reti">>

\* The program's main function, or what it calls, without critical code
Main == <<"body">>

Code ==
  [main |-> Main,
   function |-> CriticalFunction, bit_function |-> CriticalBitFunction,
   statement |-> CriticalStatement,
   isr |-> InterruptRoutine, critical_isr |-> CriticalInterruptRoutine]

Critical == {"function", "bit_function", "statement"}
Isr == {"isr", "critical_isr"}

\* b is the statement's bit; level the interrupt level, 0 for no interrupt
\* routine.  History: the result a bit function has computed, the registers an
\* interrupt routine has found, and the height of the stack at the start.
Frame(kind, level) ==
  [kind |-> kind, level |-> level, pc |-> 1, b |-> FALSE, result |-> FALSE,
   c |-> kind \in Isr /\ C, a |-> kind \in Isr /\ A, base |-> Len(stack)]

Frames == [kind : DOMAIN Code, level : 0 .. 2, pc : 1 .. 10, b : BOOLEAN, result : BOOLEAN,
           c : BOOLEAN, a : BOOLEAN, base : Nat]

Instruction(f) == Code[f.kind][f.pc]

\* f is between the instruction that disables the interrupts and the end of
\* the one that enables them again.
Holds(f) ==
  \E i, j \in DOMAIN Code[f.kind] :
    /\ Code[f.kind][i] \in {"jbc_ea", "clr_ea"} /\ i < f.pc
    /\ Code[f.kind][j] \in {"mov_ea_c", "setb_ea"} /\ f.pc <= j

Init ==
  /\ EA = FALSE /\ wanted = FALSE
  /\ C \in BOOLEAN /\ A \in BOOLEAN
  /\ stack = << >>
  /\ frames = <<Frame("main", 0)>>

-----------------------------------------------------------------------------
(* The instructions.                                                       *)

Running == Last(frames)
At(instructions) == Instruction(Running) \in instructions

\* The running routine becomes f, n instructions on.
Becomes(f, n) == frames' = [frames EXCEPT ![Len(frames)] = [f EXCEPT !.pc = @ + n]]
Advance == Becomes(Running, 1)

Setb ==
  \/ /\ At({"setb_c", "clr_c"})
     /\ C' = At({"setb_c"})
     /\ Advance
     /\ UNCHANGED <<EA, A, stack, wanted>>
  \/ /\ At({"setb_b", "clr_b"})
     /\ Becomes([Running EXCEPT !.b = At({"setb_b"})], 1)
     /\ UNCHANGED <<EA, C, A, stack, wanted>>

\* The test and the clearing of EA are one instruction.
Jbc ==
  /\ At({"jbc_ea"})
  /\ EA' = FALSE
  /\ Becomes(Running, IF EA THEN 2 ELSE 1)
  /\ UNCHANGED <<C, A, stack, wanted>>

Mov ==
  \/ /\ At({"mov_ea_c", "clr_ea", "setb_ea"})
     /\ EA' = IF At({"mov_ea_c"}) THEN C ELSE At({"setb_ea"})
     /\ Advance
     /\ UNCHANGED <<C, A, stack, wanted>>
  \/ /\ At({"mov_c_b", "mov_c_ea"})
     /\ C' = IF At({"mov_c_b"}) THEN Running.b ELSE EA
     /\ Advance
     /\ UNCHANGED <<EA, A, stack, wanted>>

\* Through the carry; bits 7 and 1 of the accumulator may be anything.
Rotate ==
  /\ \/ At({"rlc_a"}) /\ A' = C /\ C' \in BOOLEAN
     \/ At({"rrc_a"}) /\ C' = A /\ A' \in BOOLEAN
  /\ Advance
  /\ UNCHANGED <<EA, stack, wanted>>

Push ==
  /\ At({"push_acc", "push_psw"})
  /\ stack' = Append(stack, IF At({"push_acc"}) THEN A ELSE C)
  /\ Advance
  /\ UNCHANGED <<EA, C, A, wanted>>

Pop ==
  /\ At({"pop_acc", "pop_psw"})
  /\ IF At({"pop_acc"}) THEN A' = Last(stack) /\ UNCHANGED C ELSE C' = Last(stack) /\ UNCHANGED A
  /\ stack' = Front(stack)
  /\ Advance
  /\ UNCHANGED <<EA, wanted>>

Return ==
  /\ At({"ret", "reti"})
  /\ frames' = Front(frames)
  /\ UNCHANGED <<EA, C, A, stack, wanted>>

-----------------------------------------------------------------------------
(* What a body does.                                                       *)

\* A body, or the condition it ends with, leaves anything in the registers.
Compute ==
  /\ At({"body"})
  /\ C' \in BOOLEAN /\ A' \in BOOLEAN
  /\ \/ UNCHANGED frames
     \/ Running.kind = "bit_function" /\ Becomes([Running EXCEPT !.result = C'], 1)
     \/ Running.kind \notin {"main", "bit_function"} /\ Advance
  /\ UNCHANGED <<EA, stack, wanted>>

\* The program enables or disables the interrupts itself; critical code and what
\* it calls do not, nor does a routine that has interrupted a critical interrupt
\* routine in front of its first instruction.
WriteEA ==
  /\ At({"body"})
  /\ \A i \in DOMAIN frames : /\ ~Holds(frames[i])
                              /\ frames[i].kind \in Isr => Instruction(frames[i]) # "clr_ea"
  /\ EA' \in BOOLEAN /\ wanted' = EA'
  /\ UNCHANGED <<C, A, stack, frames>>

Enter ==
  /\ At({"body"}) /\ Len(frames) < MaxFrames
  /\ \E kind \in Critical : frames' = Append(frames, Frame(kind, 0))
  /\ UNCHANGED <<EA, C, A, stack, wanted>>

-----------------------------------------------------------------------------
\* The hardware calls an interrupt routine of a level above that of any under way.
Interrupt ==
  /\ EA /\ Len(frames) < MaxFrames
  /\ \E kind \in Isr, level \in 1 .. 2 :
       /\ \A i \in DOMAIN frames : frames[i].level < level
       /\ frames' = Append(frames, Frame(kind, level))
  /\ UNCHANGED <<EA, C, A, stack, wanted>>

Next ==
  \/ Setb \/ Jbc \/ Mov \/ Rotate \/ Push \/ Pop \/ Return
  \/ Compute \/ WriteEA \/ Enter \/ Interrupt

Spec == Init /\ [][Next]_vars

-----------------------------------------------------------------------------
(* Properties.                                                             *)

TypeOK ==
  /\ EA \in BOOLEAN /\ C \in BOOLEAN /\ A \in BOOLEAN /\ wanted \in BOOLEAN
  /\ stack \in Seq(BOOLEAN)
  /\ frames \in Seq(Frames) /\ frames # << >> /\ Len(frames) <= MaxFrames
  /\ \A i \in DOMAIN frames : frames[i].pc \in DOMAIN Code[frames[i].kind]

\* sdccman.lyx:26097-26107 "SDCC will generate code to disable all interrupts upon entry
\* to a critical function": no interrupt routine runs on top of critical code,
\* however deep the critical code is nested and whatever was interrupted to get
\* there.
CriticalExclusive ==
  \A i, j \in DOMAIN frames : i < j /\ Holds(frames[i]) => frames[j].kind \notin Isr

\* sdccman.lyx:26107-26108 "... and restore the interrupt enable to the previous state
\* before returning": outside of critical code EA is what the program last wrote
\* to it, also if an interrupt routine did so while critical code was entered.
EnableRestored == (\A i \in DOMAIN frames : ~Holds(frames[i])) => EA = wanted

\* The result that a critical function has left in the carry reaches its caller,
\* although the carry carries EA in between and interrupts are back on before the
\* last instruction but one.
BitReturned == Running.kind = "bit_function" /\ At({"ret"}) => C = Running.result

=============================================================================
