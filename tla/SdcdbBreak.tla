----------------------------- MODULE SdcdbBreak -----------------------------
(***************************************************************************)
(* The break points of the debugger (debugger/mcs51/break.c, with the      *)
(* commands of cmd.c that use them).  sdcdb keeps its own table, a chain   *)
(* of entries per address, and the simulator keeps the addresses at which  *)
(* it stops (simi.c).  Besides the user's there are entries at the entry   *)
(* and the exit of every function, which follow the call stack, and those  *)
(* that step, next and finish leave for themselves; these are not sent to  *)
(* the simulator, which is stepped through the program instead.            *)
(*                                                                         *)
(* The debugged program is left open: a single step may end anywhere.      *)
(* An entry equal to one further up its chain is never called and goes     *)
(* when that goes, so chains are kept without such copies.                 *)
(***************************************************************************)
EXTENDS Integers, Sequences, FiniteSets, SequencesExt

CONSTANTS
  Functions, Main,
  Body,         \* the addresses of each function
  Entry, Exit,  \* addr and eaddr of each
  Points,       \* the addresses of its source lines (cfpoints)
  None,         \* a null pointer to a function
  MaxStack,     \* the size of callStack
  Char,         \* how many values a char has
  MaxBp         \* bound: break points set by the user

Addrs == UNION {Body[f] : f \in Functions}

ASSUME BreakAssumption ==
  /\ Main \in Functions /\ None \notin Functions
  /\ \A f \in Functions : Points[f] \cup {Entry[f], Exit[f]} \subseteq Body[f]
  /\ \A f, g \in Functions : f # g => Body[f] \cap Body[g] = {}
  /\ MaxStack \in Nat \ {0} /\ Char \in Nat \ {0} /\ MaxBp \in Nat

VARIABLES
  bptable,        \* the chain at each address
  userBpPresent,  \* counts the user's entries in a char: its value modulo Char
  bpnum,          \* the last number given to one
  sim,            \* the simulator's break points
  callStack,
  bottom,         \* what the lowest place of callStack holds, popped or not
  at,             \* currCtxt->addr
  mode,           \* "prompt", or the command simGo is called for
  userinterrupt

table == <<bptable, userBpPresent, bpnum, sim>>
vars == <<bptable, userBpPresent, bpnum, sim, callStack, bottom, at, mode, userinterrupt>>

UserTypes == {"USER", "TMPUSER"}
StepCBs == {"stepBpCB", "nextBpCB"}

\* Conditions and counts of hits to ignore are left out: whether the hit of a
\* user's break point is announced is left open.
Plain(type, cb) == [type |-> type, callBack |-> cb, num |-> 0]
User(type, n) == [type |-> type, callBack |-> "userBpCB", num |-> n]
IsUser(e) == e.type \in UserTypes

Types == UserTypes \cup {"STEP", "NEXT", "FENTRY", "FEXIT"}
CallBacks == StepCBs \cup {"userBpCB", "fentryCB", "fexitCB"}
EntryType == [type : Types, num : 0 .. MaxBp, callBack : CallBacks]

\* hTabDeleteItem on each entry in gone: what is left of a chain, in its order.
Without(chain, gone) ==
  LET left[n \in 0 .. Len(chain)] ==
        IF n = 0 THEN << >>
        ELSE IF chain[n] \in gone THEN left[n - 1] ELSE Append(left[n - 1], chain[n])
  IN left[Len(chain)]

FuncAt(a) == CHOOSE f \in Functions : a \in Body[f]

\* After cmdFile: loading a program sets the entry and exit break points.
Init ==
  /\ bptable = [a \in Addrs |->
       (IF \E f \in Functions : Entry[f] = a THEN <<Plain("FENTRY", "fentryCB")>> ELSE << >>)
       \o (IF \E f \in Functions : Exit[f] = a THEN <<Plain("FEXIT", "fexitCB")>> ELSE << >>)]
  /\ sim = {Entry[f] : f \in Functions} \cup {Exit[f] : f \in Functions}
  /\ userBpPresent = 0 /\ bpnum = 0
  /\ callStack = << >> /\ bottom = None
  /\ at = Entry[Main]
  /\ mode = "prompt" /\ userinterrupt = FALSE

-----------------------------------------------------------------------------
(* The user's commands on break points.                                    *)

AtPrompt == mode = "prompt" /\ UNCHANGED <<callStack, bottom, at, mode, userinterrupt>>

\* break and tbreak at an address; only the first entry there is sent on.
setBreakPoint(a, type) ==
  /\ AtPrompt
  /\ bpnum < MaxBp
  /\ bpnum' = bpnum + 1
  /\ userBpPresent' = (userBpPresent + 1) % Char
  /\ sim' = IF bptable[a] = << >> THEN sim \cup {a} ELSE sim
  /\ bptable' = [bptable EXCEPT ![a] = Append(@, User(type, bpnum + 1))]

\* [mutant] The simulator is told whatever else there is at the address.
Unused_NotAsked(chains, from) == {a \in from : chains[a] # bptable[a]}

\* The addresses whose last entry goes when the table becomes chains.
Unused(chains, from) == {a \in from : chains[a] # bptable[a] /\ chains[a] = << >>}

\* [mutant] delete all counts as one.
Removed_One(gone) == 1

\* What removing the user's entries in the set gone takes off userBpPresent.
Removed(gone) == Cardinality(gone)

DeleteUser(gone) ==
  LET chains == [a \in Addrs |-> Without(bptable[a], {e \in EntryType : e.num \in gone})]
  IN /\ bptable' = chains
     /\ sim' = sim \ Unused(chains, Addrs)
     /\ userBpPresent' = (userBpPresent - Removed(gone)) % Char

Users(a) == {e \in Range(bptable[a]) : IsUser(e)}
UserNumbers == {e.num : e \in UNION {Users(a) : a \in Addrs}}

\* What info break, delete without a number and its completion go by.
NoneReported == userBpPresent = 0

\* delete with a number and without; delete -1 removes them all as well, and does
\* not ask NoneReported before.
deleteUSERbp ==
  /\ AtPrompt
  /\ \E gone \in {{n} : n \in UserNumbers} \cup {UserNumbers} : gone # {} /\ DeleteUser(gone)
  /\ UNCHANGED bpnum

\* clear: the first of the user's entries at the address
clearUSERbp(a) ==
  LET chain == bptable[a]
  IN /\ AtPrompt
     /\ \E i \in DOMAIN chain :
          /\ IsUser(chain[i]) /\ \A j \in 1 .. i - 1 : ~IsUser(chain[j])
          /\ DeleteUser({chain[i].num})
     /\ UNCHANGED bpnum

-----------------------------------------------------------------------------
(* The commands that let the program run, up to the loop in simGo.         *)

\* run pushes the function at address 0, if there is one and callStack has room.
Start(m) ==
  LET pushes == m = "run" /\ ~userinterrupt /\ 0 \in Addrs /\ Len(callStack) < MaxStack
  IN /\ mode = "prompt"
     /\ mode' = IF userinterrupt THEN "prompt" ELSE m
     /\ userinterrupt' = FALSE
     /\ callStack' = IF pushes THEN Append(callStack, FuncAt(0)) ELSE callStack
     /\ bottom' = IF pushes /\ callStack = << >> THEN FuncAt(0) ELSE bottom
     /\ UNCHANGED at

\* chains with the entry e at each address of as, at most once
WithStep(chains, as, e) ==
  [a \in Addrs |-> IF a \in as /\ e \notin Range(chains[a]) THEN Append(chains[a], e) ELSE chains[a]]

AtExit == at = Exit[FuncAt(at)]
Peek == Last(callStack)
PPeek == IF Len(callStack) > 1 THEN callStack[Len(callStack) - 1] ELSE bottom

cmdStep ==
  LET f == FuncAt(at)
      entries == {Entry[g] : g \in Functions}
      stops == IF AtExit THEN Points[Peek]
               ELSE entries \cup Points[f] \cup {Exit[f]} \cup Points[PPeek] \cup {Exit[PPeek]}
  IN /\ callStack # << >>
     /\ bptable' = WithStep(bptable, stops, Plain("STEP", "stepBpCB"))
     /\ UNCHANGED <<userBpPresent, bpnum, sim>>
     /\ Start("step")

\* At the end of a function, and at the caller's exit, next leaves entries of
\* type NEXT with the call back of step.
cmdNext ==
  LET f == FuncAt(at)
      own == Points[f] \cup {Exit[f]} \cup Points[PPeek]
      mixed == Plain("NEXT", "stepBpCB")
  IN /\ callStack # << >>
     /\ bptable' = IF AtExit THEN WithStep(bptable, Points[Peek], mixed)
                   ELSE WithStep(WithStep(bptable, own, Plain("NEXT", "nextBpCB")), {Exit[PPeek]}, mixed)
     /\ UNCHANGED <<userBpPresent, bpnum, sim>>
     /\ Start("next")

cmdFinish ==
  /\ callStack # << >>
  /\ bptable' = WithStep(bptable, {Exit[FuncAt(at)]}, Plain("STEP", "stepBpCB"))
  /\ UNCHANGED <<userBpPresent, bpnum, sim>>
  /\ Start("continue")

cmdContinue == callStack # << >> /\ Start("continue") /\ UNCHANGED table

\* stepi and nexti
cmdStepi == Start("stepi") /\ UNCHANGED table

\* run, from the start or again; nothing is taken off the call stack.
cmdRun == Start("run") /\ UNCHANGED table

\* ^C at any time.  Whether stop is sent to the simulator (not while it is asked for
\* its pc, nointerrupt) only matters for where it stops, see Stops.
sigintr ==
  /\ userinterrupt' = TRUE
  /\ UNCHANGED <<table, callStack, bottom, at, mode>>

-----------------------------------------------------------------------------
(* A stop of the simulator: the rest of the loop in simGo.                 *)

\* dispatchCB walks the chain with the table's own iterator, which stepBpCB and
\* nextBpCB use up: what follows them in the chain is not called.
Called(chain) ==
  LET steps == {i \in DOMAIN chain : chain[i].callBack \in StepCBs}
  IN IF steps = {} THEN chain ELSE SubSeq(chain, 1, Min(steps))

\* [mutant] The entries of step and next take the others with them.
Deleted_All(steps) == IF steps = {} THEN {} ELSE UserTypes \cup {"STEP", "NEXT", "FENTRY", "FEXIT"}

\* deleteSTEPbp and deleteNEXTbp: the types that the call back removes.
Deleted(steps) ==
  {t \in {"STEP", "NEXT"} : \E e \in steps : e.callBack = IF t = "STEP" THEN "stepBpCB" ELSE "nextBpCB"}

\* fentryCB pushes the function, unless callStack is full; fexitCB, called after
\* it, pops one, and on an empty stack takes what its lowest place holds.
Pushes(types) == "FENTRY" \in types /\ Len(callStack) < MaxStack
Entered(a, types) == IF Pushes(types) THEN Append(callStack, FuncAt(a)) ELSE callStack
Bottom(a, types) == IF Pushes(types) /\ callStack = << >> THEN FuncAt(a) ELSE bottom
Popped(a, types) == IF Entered(a, types) = << >> THEN Bottom(a, types) ELSE Last(Entered(a, types))
Left(a, types) ==
  IF "FEXIT" \in types /\ Entered(a, types) # << >> THEN Front(Entered(a, types)) ELSE Entered(a, types)
ExitEnds(a, types) == "FEXIT" \in types /\ Popped(a, types) \in {None, Main}

\* [mutant] The interrupt is looked at when a command starts, not in the loop.
Interrupted_Once == FALSE

\* The test at the top of the loop.
Interrupted == userinterrupt

\* The loop goes round when no call back wants it to end, or there is none and a
\* source line is stepped (contsim is not set).
Loop(ends) ==
  LET loops == ~ends /\ mode # "stepi"
  IN /\ mode' = CASE ~loops \/ Interrupted -> "prompt"
                  [] loops /\ ~Interrupted /\ mode = "run" -> "continue"
                  [] OTHER -> mode
     /\ userinterrupt' = (userinterrupt /\ ~(loops /\ Interrupted))

\* What dispatchCB returns where there is no chain.
UncalledEnds == mode \in {"stepi", "continue", "run"}

\* said are the user's entries whose call back announces them.
dispatchCB(a, said) ==
  LET called == Range(Called(bptable[a]))
      types == {e.type : e \in called}
      gone == {e \in said : e.type = "TMPUSER"}
      steps == {e \in called : e.callBack \in StepCBs}
      users == [bptable EXCEPT ![a] = Without(@, gone)]
      deleted == Deleted(steps)
  IN /\ sim' = sim \ Unused(users, {a})
     /\ bptable' = IF deleted = {} THEN users
                   ELSE [b \in Addrs |-> Without(users[b], {e \in EntryType : e.type \in deleted})]
     /\ userBpPresent' = (userBpPresent - Cardinality(gone)) % Char
     /\ callStack' = Left(a, types) /\ bottom' = Bottom(a, types)
     /\ Loop(IF called = {} THEN UncalledEnds
             ELSE ExitEnds(a, types) \/ said # {} \/ steps # {})
     /\ UNCHANGED bpnum

\* simGoTillBp: a command that lets the program go stops at the simulator's break
\* points or after ^C, the others anywhere.
Stops(a) == mode \in {"continue", "run"} => a \in sim \/ userinterrupt

simGo(a) ==
  /\ mode # "prompt"
  /\ Stops(a)
  /\ at' = a
  /\ \E said \in SUBSET {e \in Range(Called(bptable[a])) : IsUser(e)} : dispatchCB(a, said)

\* A stop outside of all functions: discoverContext leaves currCtxt alone, and the
\* table has no chain.
simGoOutside ==
  /\ mode # "prompt"
  /\ mode \in {"continue", "run"} => userinterrupt
  /\ Loop(UncalledEnds)
  /\ UNCHANGED <<table, callStack, bottom, at>>

-----------------------------------------------------------------------------
Command ==
  \/ \E a \in Addrs, type \in UserTypes : setBreakPoint(a, type)
  \/ deleteUSERbp
  \/ \E a \in Addrs : clearUSERbp(a)
  \/ cmdStep \/ cmdNext \/ cmdFinish \/ cmdContinue \/ cmdStepi \/ cmdRun

Stop == (\E a \in Addrs : simGo(a)) \/ simGoOutside

Next == Command \/ sigintr \/ Stop

Spec == Init /\ [][Next]_vars

-----------------------------------------------------------------------------
(* Properties.                                                             *)

TypeOK ==
  /\ bptable \in [Addrs -> Seq(EntryType)]
  /\ userBpPresent \in 0 .. Char - 1 /\ bpnum \in 0 .. MaxBp
  /\ sim \subseteq Addrs
  /\ callStack \in Seq(Functions) /\ Len(callStack) <= MaxStack
  /\ bottom \in Functions \cup {None}
  /\ at \in Addrs
  /\ mode \in {"prompt", "continue", "run", "step", "next", "stepi"}
  /\ userinterrupt \in BOOLEAN

\* Whatever the user sets, clears and steps over at the entry or exit of a
\* function, the debugger keeps its own break point there and the simulator
\* stops at it: the call stack is not lost.
FunctionPointsArmed ==
  \A f \in Functions :
    /\ {Entry[f], Exit[f]} \subseteq sim
    /\ Plain("FENTRY", "fentryCB") \in Range(bptable[Entry[f]])
    /\ Plain("FEXIT", "fexitCB") \in Range(bptable[Exit[f]])

\* userBpPresent is the number of the user's entries as far as a char can tell,
\* through delete, clear, the temporary ones that remove themselves, and the wrap
\* (break.c:33, 112): as long as there are fewer than Char of them, info break and
\* delete say that there are none exactly when there are none.
UserCount ==
  /\ userBpPresent = Cardinality(UserNumbers) % Char
  /\ Cardinality(UserNumbers) < Char => (NoneReported <=> UserNumbers = {})

\* The simulator loses a break point only when the table has no entry of any
\* kind left at its address (the comments at break.c:210, 375 and 526).
ClearedOnlyWhenUnused == [][\A a \in sim \ sim' : bptable'[a] = << >>]_vars

\* The first stop after ^C brings the debugger back to its prompt, whatever command
\* is under way and whatever entries there are where the simulator stopped.
InterruptEnds == [][userinterrupt /\ mode # "prompt" => mode' = "prompt"]_vars

\* doc/sdccman.lyx:52781 "Set breakpoint at specified line or function": the
\* simulator stops where the user has set a break point.
UserBreakpointArmed == \A a \in Addrs : Users(a) # {} => a \in sim

=============================================================================
