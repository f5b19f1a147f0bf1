------------------------------ MODULE SDCCcflow ------------------------------
(***************************************************************************)
(* The control flow of a function as the compiler computes it              *)
(* (src/src/SDCCcflow.c): successors, depth first order, predecessors and  *)
(* dominators of its basic blocks, and how they are computed again when    *)
(* an optimisation empties a block or folds a condition.                   *)
(*                                                                         *)
(* A block is named by bbnum, its place in bbOrder.  Of its instructions   *)
(* only the last one, ech, matters here, and whether there are others.     *)
(***************************************************************************)
EXTENDS Integers, Sequences

CONSTANTS
  N,              \* blocks of the function when it is broken down
  Ops,            \* how a block of it may end
  MaxChanges,     \* bound: changes made by optimisations
  FoldBeforeLost  \* whether a condition alone in its block may be folded
                  \* in front of a block that has been disconnected

Leaves == {"GOTO", "RETURN", "JUMPTABLE", "NORETURN"}

ASSUME FlowAssumption ==
  /\ N \in Nat \ {0, 1}
  /\ Ops \subseteq Leaves \cup {"PLAIN", "IFX"}
  /\ MaxChanges \in Nat
  /\ FoldBeforeLost \in BOOLEAN

VARIABLES
  count,      \* number of blocks
  ech,        \* last instruction of each block: its kind and its labels;
              \* "EMPTY" for a block without instructions
  alone,      \* blocks that have no instruction but an IFX
  labelled,   \* blocks that begin with a label
  noPath,     \* blocks marked as having no path from _entry
  succ,       \* the successors of a block in the order they are added
  visited, stack, dfnum, dfCount,  \* computeDFOrdering and its calls
  predList, domVect,
  i, change,  \* variables of computeDominance
  pc,         \* the function at work
  changes     \* changes made so far

flowVars == <<succ, visited, stack, dfnum, dfCount, predList, domVect, i, change>>
vars == <<count, ech, alone, labelled, noPath, flowVars, pc, changes>>

Blocks == 0 .. count - 1
Range1(s) == {s[k] : k \in 1 .. Len(s)}
Least(S) == CHOOSE x \in S : \A y \in S : x <= y
Greatest(S) == CHOOSE x \in S : \A y \in S : y <= x

TypeOK ==
  /\ count \in Nat
  /\ ech \in [Blocks -> [op : Leaves \cup {"PLAIN", "IFX", "EMPTY"}, labels : Seq(Blocks)]]
  /\ alone \subseteq Blocks /\ labelled \subseteq Blocks /\ noPath \subseteq Blocks
  /\ succ \in [Blocks -> Seq(Blocks)]
  /\ visited \subseteq Blocks
  /\ stack \in Seq(Blocks)
  /\ dfnum \in [Blocks -> 0 .. count] /\ dfCount \in 0 .. count
  /\ predList \in [Blocks -> SUBSET Blocks]
  /\ domVect \in [Blocks -> SUBSET Blocks]
  /\ i \in 1 .. count - 1
  /\ change \in BOOLEAN
  /\ pc \in {"call", "order", "preds", "dom", "done"}
  /\ changes \in 0 .. MaxChanges

-----------------------------------------------------------------------------
(* The functions that come out of iCodeLabelOptimize and iCodeBreakDown.     *)

Plain == [op |-> "PLAIN", labels |-> <<>>]

\* _entry is never a target; the last block holds the return label.
Endings ==
  LET target == 1 .. N - 1
  IN  {e \in {Plain, [op |-> "NORETURN", labels |-> <<>>],
                     [op |-> "RETURN", labels |-> <<N - 1>>]}
             \cup [op : {"GOTO", "IFX"}, labels : {<<t>> : t \in target}]
             \cup [op : {"JUMPTABLE"}, labels : {<<s, t>> : s, t \in target}] :
         e.op \in Ops}

\* Labels nobody refers to are gone, and so is what follows a jump without
\* one (labelUnrefLabel, labelUnreach, labelGotoNext); a block that does not
\* end in a jump ends because a label follows.
BrokenDown(e, lab) ==
  /\ lab = {N - 1} \cup UNION {Range1(e[b].labels) : b \in 0 .. N - 1}
  /\ \A b \in 0 .. N - 2 :
       /\ e[b].op \notin {"IFX", "JUMPTABLE"} => b + 1 \in lab
       /\ e[b].op = "GOTO" => e[b].labels # <<b + 1>>

Init ==
  /\ count = N
  /\ \E f \in [0 .. N - 2 -> Endings] :
       ech = [b \in 0 .. N - 1 |-> IF b = N - 1 THEN Plain ELSE f[b]]
  /\ labelled = {N - 1} \cup UNION {Range1(ech[b].labels) : b \in 0 .. N - 1}
  /\ BrokenDown(ech, labelled)
  /\ alone \in SUBSET {b \in 1 .. N - 1 : ech[b].op = "IFX" /\ b \notin labelled}
  /\ noPath = {}
  /\ succ = [b \in Blocks |-> <<>>]
  /\ visited = {} /\ stack = <<>>
  /\ dfnum = [b \in Blocks |-> 0] /\ dfCount = 0
  /\ predList = [b \in Blocks |-> {}] /\ domVect = [b \in Blocks |-> {}]
  /\ i = 1 /\ change = FALSE
  /\ pc = "call"
  /\ changes = 0

-----------------------------------------------------------------------------
(* computeControlFlow                                                        *)

\* [mutant] Blocks without a path are not passed over.
FallThrough_Next(b) ==
  IF b + 1 = count \/ ech[b].op \in Leaves THEN <<>> ELSE <<b + 1>>

\* The block that control falls into at the end of b: blocks without a path
\* are passed over, except from a block without instructions.
FallThrough(b) ==
  LET after == {j \in b + 1 .. count - 1 : j \notin noPath}
  IN  CASE b + 1 = count \/ ech[b].op \in Leaves -> <<>>
        [] ech[b].op = "EMPTY" /\ b + 1 < count -> <<b + 1>>
        [] OTHER -> IF after = {} THEN <<>> ELSE <<Least(after)>>

eBBSuccessors ==
  [b \in Blocks |-> IF b \in noPath THEN <<>> ELSE FallThrough(b) \o ech[b].labels]

\* Everything is set up again but noPath.
computeControlFlow ==
  /\ pc = "call"
  /\ succ' = eBBSuccessors
  /\ predList' = [b \in Blocks |-> {}]
  /\ domVect' = [b \in Blocks |-> {}]
  /\ dfnum' = [b \in Blocks |-> 0]
  /\ dfCount' = count
  /\ visited' = {0}
  /\ stack' = <<0>>
  /\ pc' = "order"
  /\ UNCHANGED <<count, ech, alone, labelled, noPath, i, change, changes>>

\* Places in succ[b] of successors not visited yet; of equal ones the first,
\* which is the one in succList.
Unvisited(b) ==
  {k \in 1 .. Len(succ[b]) :
     /\ succ[b][k] \notin visited
     /\ \A m \in 1 .. k - 1 : succ[b][m] # succ[b][k]}

\* computeDFOrdering calls itself; succList has the successor added last first.
Descend ==
  /\ pc = "order"
  /\ Unvisited(Head(stack)) # {}
  /\ LET next == succ[Head(stack)][Greatest(Unvisited(Head(stack)))]
     IN  /\ visited' = visited \cup {next}
         /\ stack' = <<next>> \o stack
  /\ UNCHANGED <<count, ech, alone, labelled, noPath, succ, dfnum, dfCount,
                 predList, domVect, i, change, pc, changes>>

\* ... and returns.
Ascend ==
  /\ pc = "order"
  /\ Unvisited(Head(stack)) = {}
  /\ dfnum' = [dfnum EXCEPT ![Head(stack)] = dfCount]
  /\ dfCount' = dfCount - 1
  /\ stack' = Tail(stack)
  /\ pc' = IF Tail(stack) = <<>> THEN "preds" ELSE "order"
  /\ UNCHANGED <<count, ech, alone, labelled, noPath, succ, visited, predList,
                 domVect, i, change, changes>>

\* [mutant] Blocks without a path count as predecessors.
eBBPredecessors_Dead ==
  /\ pc = "preds"
  /\ noPath' = noPath \cup (Blocks \ visited)
  /\ predList' = [b \in Blocks |->
       {p \in Blocks : b \in Range1(succ[p]) /\ dfnum[b] > dfnum[p]}]
  /\ domVect' = [b \in Blocks |-> IF b = 0 THEN {0} ELSE Blocks]
  /\ i' = 1
  /\ change' = FALSE
  /\ pc' = "dom"
  /\ UNCHANGED <<count, ech, alone, labelled, succ, visited, stack, dfnum, dfCount, changes>>

\* markNoPath, eBBPredecessors and the initialisation of computeDominance.
\* A block is a predecessor only of blocks behind it in depth first order.
eBBPredecessors ==
  /\ pc = "preds"
  /\ noPath' = noPath \cup (Blocks \ visited)
  /\ predList' = [b \in Blocks |->
       {p \in Blocks \ noPath' : b \in Range1(succ[p]) /\ dfnum[b] > dfnum[p]}]
  /\ domVect' = [b \in Blocks |-> IF b = 0 THEN {0} ELSE Blocks]
  /\ i' = 1
  /\ change' = FALSE
  /\ pc' = "dom"
  /\ UNCHANGED <<count, ech, alone, labelled, succ, visited, stack, dfnum, dfCount, changes>>

\* Blocks that dominate all predecessors of b, and b.
DomOf(b) ==
  {b} \cup {d \in Blocks : predList[b] # {} /\ \A p \in predList[b] : d \in domVect[p]}

\* [mutant] One pass over the blocks.
Dominate_Once ==
  /\ pc = "dom"
  /\ domVect' = [domVect EXCEPT ![i] = DomOf(i)]
  /\ IF i < count - 1 THEN i' = i + 1 /\ pc' = pc ELSE i' = 1 /\ pc' = "done"
  /\ UNCHANGED <<count, ech, alone, labelled, noPath, succ, visited, stack, dfnum,
                 dfCount, predList, change, changes>>

\* [mutant] change is not reset before the next pass.
Dominate_Change ==
  /\ pc = "dom"
  /\ domVect' = [domVect EXCEPT ![i] = DomOf(i)]
  /\ change' = (change \/ DomOf(i) # domVect[i])
  /\ IF i < count - 1
     THEN i' = i + 1 /\ pc' = pc
     ELSE i' = 1 /\ pc' = IF change' THEN "dom" ELSE "done"
  /\ UNCHANGED <<count, ech, alone, labelled, noPath, succ, visited, stack, dfnum,
                 dfCount, predList, changes>>

\* One block of computeDominance's loop.
Dominate ==
  /\ pc = "dom"
  /\ domVect' = [domVect EXCEPT ![i] = DomOf(i)]
  /\ LET changed == change \/ DomOf(i) # domVect[i]
     IN  IF i < count - 1
         THEN i' = i + 1 /\ change' = changed /\ pc' = pc
         ELSE i' = 1 /\ change' = FALSE /\ pc' = IF changed THEN "dom" ELSE "done"
  /\ UNCHANGED <<count, ech, alone, labelled, noPath, succ, visited, stack, dfnum,
                 dfCount, predList, changes>>

computeStep == computeControlFlow \/ Descend \/ Ascend \/ eBBPredecessors \/ Dominate

\* The block in strict dominance of b with the greatest depth first number.
immedDom(b) ==
  LET iset == domVect[b] \ {b}
  IN  CHOOSE d \in iset : \A e \in iset : dfnum[e] <= dfnum[d]

-----------------------------------------------------------------------------
(* The optimisations that change the flow and have it computed again.        *)

Change == pc = "done" /\ changes < MaxChanges /\ changes' = changes + 1 /\ pc' = "call"

\* killDeadCode has removed the last instruction of a block: disconBBlock.
\* It goes through the blocks in depth first order, so a block that was left
\* empty comes before those behind it.
disconBBlock(b) ==
  /\ Change
  /\ b \notin labelled \cup noPath \cup {0}
  /\ ech[b].op \in {"PLAIN", "EMPTY"}
  /\ \A e \in Blocks \ noPath : ech[e].op = "EMPTY" => dfnum[b] <= dfnum[e]
  /\ ech' = [ech EXCEPT ![b].op = "EMPTY"]
  /\ noPath' = noPath \cup {b}
  /\ UNCHANGED <<count, alone, labelled, flowVars>>

\* ifxOptimize on a literal condition that holds: the IFX becomes a GOTO.
FoldTaken(b) ==
  /\ Change
  /\ b \notin noPath /\ ech[b].op = "IFX"
  /\ ech' = [ech EXCEPT ![b].op = "GOTO"]
  /\ UNCHANGED <<count, alone, labelled, noPath, flowVars>>

\* ... on one that does not, or when both ways lead to the same block: the
\* IFX is removed.
FoldNotTaken(b) ==
  /\ Change
  /\ b \notin noPath /\ ech[b].op = "IFX"
  /\ FoldBeforeLost \/ b \notin alone \/ b + 1 \notin noPath
  /\ ech' = [ech EXCEPT ![b] =
               IF b \in alone THEN [op |-> "EMPTY", labels |-> <<>>] ELSE Plain]
  /\ UNCHANGED <<count, alone, labelled, noPath, flowVars>>

Optimize == \E b \in Blocks : disconBBlock(b) \/ FoldTaken(b) \/ FoldNotTaken(b)

Next == computeStep \/ Optimize

\* The functions run to their end; whether an optimisation finds something
\* to change is open.
Spec == Init /\ [][Next]_vars /\ WF_vars(computeStep)

-----------------------------------------------------------------------------
(* What the control flow is, from the instructions alone.                    *)

\* Where control may go from b: to a label of its last instruction, or on.
Flow(b) ==
  Range1(ech[b].labels) \cup
  IF ech[b].op \in Leaves \/ b + 1 = count THEN {} ELSE {b + 1}

\* A set that control, once in it, leaves only into a block of A.
Closed(S, A) == 0 \in S \cup A /\ \A b \in S : Flow(b) \subseteq S \cup A

\* Blocks that control can reach from _entry without entering a block of A.
Reached(A) ==
  LET closed == {S \in SUBSET (Blocks \ A) : Closed(S, A)}
  IN  {b \in Blocks : \A S \in closed : b \in S}

\* <<d, b>> when d dominates b: control cannot get to b but through d.
Live == Blocks \ noPath
Dominance == UNION {{d} \X (Live \ Reached({d})) : d \in Live}

\* Every edge that goes back in the depth first order goes to a dominator.
Reducible(dominance) ==
  \A b \in Live : \A s \in Range1(succ[b]) :
    dfnum[s] <= dfnum[b] => <<s, b>> \in dominance

(* Computed again and again while blocks are emptied and conditions folded,  *)
(* noPath, which is never cleared, still marks exactly the blocks with       *)
(* instructions that control cannot reach (eBBSuccessors, markNoPath).       *)
NoPathExact ==
  pc = "done" =>
    LET reach == Reached({})
    IN  \A b \in Blocks : ech[b].op # "EMPTY" => (b \in noPath <=> b \notin reach)

(* No dominator is missing: a block that control cannot avoid on its way to  *)
(* b is in b's domVect, whatever the shape of the graph (computeDominance).  *)
DominatorsSound ==
  pc = "done" => \A d \in Live : \A b \in Live \ Reached({d}) : d \in domVect[b]

(* On a reducible graph domVect has the dominators and nothing else, although *)
(* computeDominance never looks at the edges that go back; and the one of the *)
(* greatest depth first number is the immediate dominator, which all others   *)
(* dominate (immedDom).                                                       *)
DominatorsExact ==
  pc = "done" =>
    LET dominance == Dominance
    IN  Reducible(dominance) =>
          /\ \A b \in Live : domVect[b] = {d \in Live : <<d, b>> \in dominance}
          /\ \A b \in Live \ {0} :
               \A d \in domVect[b] \ {b} : <<d, immedDom(b)>> \in dominance

(* The iteration of computeDominance comes to an end, and with it every call *)
(* of computeControlFlow.                                                    *)
ControlFlowEnds == pc = "call" ~> pc = "done"

=============================================================================
