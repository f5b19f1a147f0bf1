------------------------------- MODULE SDCCloop -------------------------------
(***************************************************************************)
(* The loops of a function in the compiler: iCodeBreakDown puts a          *)
(* preheader in front of a block that is jumped back to                    *)
(* (src/src/SDCCBBlock.c); createLoopRegions finds the natural loops and   *)
(* loopInvariants moves an instruction out of them, inner loops first      *)
(* (src/src/SDCCloop.c).  Between the two a condition may be folded and    *)
(* the control flow computed again, while the regions stay as they are.    *)
(*                                                                         *)
(* The control flow is taken as a whole here, as the dominators that       *)
(* SDCCcflow shows computeControlFlow to find on reducible graphs.         *)
(*                                                                         *)
(* The blocks of the function are 0 .. N - 1 in the order of the source    *)
(* and a preheader of block h is N + h.                                    *)
(***************************************************************************)
EXTENDS Integers, Sequences, FiniteSetsExt, SequencesExt

CONSTANTS
  N,           \* blocks of the function
  Ops,         \* how a block of it may end
  MaxJumps,    \* bound: blocks of it that do not just end
  MaxFolds,    \* bound: conditions folded between the passes
  JumpsBehind  \* whether a block behind a loop may jump to its beginning
               \* without being part of it

Leaves == {"GOTO", "RETURN", "JUMPTABLE"}
None == -1

ASSUME LoopAssumption ==
  /\ N \in Nat \ {0, 1}
  /\ Ops \subseteq Leaves \cup {"IFX"}
  /\ MaxJumps \in 0 .. N - 1 /\ MaxFolds \in Nat
  /\ JumpsBehind \in BOOLEAN

VARIABLES
  ech,            \* last instruction of each block: its kind and its labels
  bbOrder,        \* the blocks broken down so far
  preHeader,      \* the preheader of each block or None
  graphEdges, domVect,  \* the control flow as computed last
  regBlocks,      \* the blocks of each region, which is named by its entry
  containsLoops, exits,
  maxDepth, depth,
  todo,           \* regions still to be merged, or optimised
  instr, place,   \* the block that had the instruction first, and has it now
  pc, folds

flowVars == <<graphEdges, domVect>>
regionVars == <<regBlocks, containsLoops, exits, maxDepth, depth>>
vars == <<ech, bbOrder, preHeader, flowVars, regionVars, todo, instr, place, pc, folds>>

Blocks == 0 .. 2 * N - 1
Regions == DOMAIN regBlocks
Labels(b) == ToSet(ech[b].labels)

TypeOK ==
  /\ DOMAIN ech \subseteq Blocks
  /\ \A b \in DOMAIN ech : /\ ech[b].op \in Leaves \cup {"PLAIN", "IFX"}
                           /\ ech[b].labels \in Seq(DOMAIN ech)
  /\ bbOrder \in Seq(Blocks) /\ IsInjective(bbOrder)
  /\ preHeader \in [Blocks -> Blocks \cup {None}]
  /\ graphEdges \subseteq ToSet(bbOrder) \X ToSet(bbOrder)
  /\ domVect \in [DOMAIN domVect -> SUBSET ToSet(bbOrder)]
  /\ regBlocks \in [Regions -> SUBSET ToSet(bbOrder)]
  /\ containsLoops \in [Regions -> 0 .. maxDepth]
  /\ exits \in [Regions -> SUBSET ToSet(bbOrder)]
  /\ depth \in [Blocks -> 0 .. maxDepth + 1]
  /\ todo \subseteq Regions
  /\ {instr, place} \subseteq DOMAIN ech \cup {None}
  /\ pc \in {"break", "flow", "regions", "merge", "exits", "cse", "loops", "done"}
  /\ folds \in 0 .. MaxFolds

-----------------------------------------------------------------------------
(* Control flow.                                                             *)

\* The ways that control may go, from the instructions of blocks in an order.
EdgesOf(e, order) ==
  UNION {{<<order[k], t>> :
            t \in ToSet(e[order[k]].labels) \cup
                 IF e[order[k]].op \in Leaves \/ k = Len(order) THEN {} ELSE {order[k + 1]}} :
         k \in DOMAIN order}

\* What can be reached from S along edges without entering a block of A.
Reach(edges, S, A) ==
  LET grow[R \in SUBSET Blocks] ==
        LET more == {x[2] : x \in {y \in edges : y[1] \in R /\ y[2] \notin R \cup A}}
        IN  IF more = {} THEN R ELSE grow[R \cup more]
  IN  grow[S \ A]

\* <<d, b>> when control reaches b but not past d.
Dominance(edges) ==
  LET live == Reach(edges, {0}, {})
  IN  UNION {{<<d, b>> : b \in live \ Reach(edges, {0}, {d})} : d \in live}

Back(edges, dominance) == {x \in edges : <<x[2], x[1]>> \in dominance}

\* Without the edges to a dominator there is no cycle.
ReducibleGraph(edges, dominance) ==
  LET forward == edges \ Back(edges, dominance)
      acyclic[R \in SUBSET Blocks] ==
        LET first == R \ {x[2] : x \in {y \in forward : y[1] \in R}}
        IN  R = {} \/ (first # {} /\ acyclic[R \ first])
  IN  acyclic[{x[2] : x \in dominance}]

-----------------------------------------------------------------------------
Plain == [op |-> "PLAIN", labels |-> <<>>]

\* _entry is never a target; the last block holds the return label.
Endings ==
  LET target == 1 .. N - 1
  IN  {e \in {[op |-> "RETURN", labels |-> <<N - 1>>]}
             \cup [op : {"GOTO", "IFX"}, labels : {<<t>> : t \in target}]
             \cup [op : {"JUMPTABLE"}, labels : {<<s, t>> : s, t \in target}] :
         e.op \in Ops}

\* What is left after iCodeLabelOptimize (labelUnreach, labelGotoNext).
LabelsOptimized(e) ==
  LET labelled == {N - 1} \cup UNION {ToSet(e[b].labels) : b \in DOMAIN e}
  IN  \A b \in 0 .. N - 2 :
        /\ e[b].op \notin {"IFX", "JUMPTABLE"} => b + 1 \in labelled
        /\ e[b].op = "GOTO" => e[b].labels # <<b + 1>>

\* A jump back to the beginning of a loop comes from inside the loop.
JumpsFromInside(e, edges, dominance) ==
  LET loopEntries == {x[2] : x \in Back(edges, dominance)}
  IN  \A b \in DOMAIN e : \A h \in ToSet(e[b].labels) \cap loopEntries :
        h <= b => <<h, b>> \in dominance

\* Functions as they come to iCodeBreakDown.
Functions ==
  LET jumps == UNION {[J -> Endings] : J \in UNION {kSubset(k, 0 .. N - 2) : k \in 0 .. MaxJumps}}
  IN  {e \in {[b \in 0 .. N - 1 |-> IF b \in DOMAIN f THEN f[b] ELSE Plain] : f \in jumps} :
         /\ LabelsOptimized(e)
         /\ LET edges == EdgesOf(e, [k \in 1 .. N |-> k - 1])
                dominance == Dominance(edges)
            IN  /\ ReducibleGraph(edges, dominance)
                /\ JumpsBehind \/ JumpsFromInside(e, edges, dominance)}

Init ==
  /\ ech \in Functions
  /\ bbOrder = <<>>
  /\ preHeader = [b \in Blocks |-> None]
  /\ graphEdges = {} /\ domVect = <<>>
  /\ regBlocks = <<>> /\ containsLoops = <<>> /\ exits = <<>>
  /\ maxDepth = 0 /\ depth = [b \in Blocks |-> 0]
  /\ todo = {}
  /\ instr = None /\ place = None
  /\ pc = "break" /\ folds = 0

-----------------------------------------------------------------------------
(* iCodeBreakDown                                                            *)

\* In the blocks of order: a jump to h from a block in front of it, or
\* control that falls into it.
otherPathsPresent(order, h) ==
  LET here == SelectInSeq(order, LAMBDA x : x = h)
  IN  \/ \E k \in 1 .. here - 1 : ech[order[k]].op \in {"GOTO", "IFX"} /\ h \in Labels(order[k])
      \/ here = 1
      \/ ech[order[here - 1]].op # "GOTO"

\* [mutant] Only GOTOs are changed.
replaceLabel_Goto(front, h) ==
  [b \in DOMAIN ech \cup {N + h} |->
     IF b = N + h THEN Plain
     ELSE IF b \in front /\ ech[b] = [op |-> "GOTO", labels |-> <<h>>]
     THEN [op |-> "GOTO", labels |-> <<N + h>>]
     ELSE ech[b]]

\* The blocks in front of h jump to its preheader instead.
replaceLabel(front, h) ==
  [b \in DOMAIN ech \cup {N + h} |->
     IF b = N + h THEN Plain
     ELSE IF b \in front
     THEN [ech[b] EXCEPT !.labels = [k \in DOMAIN @ |-> IF @[k] = h THEN N + h ELSE @[k]]]
     ELSE ech[b]]

\* The next block is converted; it may jump back to one that is there
\* already and has no preheader.
iCodeBreakDown ==
  /\ pc = "break"
  /\ LET b == Cardinality({x \in ToSet(bbOrder) : x < N})
         order == Append(bbOrder, b)
         dest == {h \in Labels(b) : /\ ech[b].op \in {"GOTO", "IFX"}
                                    /\ h \in ToSet(order)
                                    /\ preHeader[h] = None
                                    /\ otherPathsPresent(order, h)}
     IN  /\ IF dest = {}
            THEN bbOrder' = order /\ UNCHANGED <<ech, preHeader>>
            ELSE LET h == CHOOSE h \in dest : TRUE
                     at == SelectInSeq(order, LAMBDA x : x = h)
                 IN  /\ bbOrder' = InsertAt(order, at, N + h)
                     /\ ech' = replaceLabel(ToSet(SubSeq(order, 1, at - 1)), h)
                     /\ preHeader' = [preHeader EXCEPT ![h] = N + h]
         /\ pc' = IF b = N - 1 THEN "flow" ELSE pc
  /\ UNCHANGED <<flowVars, regionVars, todo, instr, place, folds>>

-----------------------------------------------------------------------------
(* computeControlFlow; a block without a path is dominated by itself only.   *)

Dominators(edges) ==
  LET dominance == Dominance(edges)
  IN  [b \in ToSet(bbOrder) |-> {b} \cup {x[1] : x \in {y \in dominance : y[2] = b}}]

computeControlFlow ==
  /\ pc = "flow"
  /\ graphEdges' = EdgesOf(ech, bbOrder)
  /\ domVect' = Dominators(graphEdges')
  /\ pc' = "regions"
  /\ UNCHANGED <<ech, bbOrder, preHeader, regionVars, todo, instr, place, folds>>

Live == {b \in DOMAIN domVect : 0 \in domVect[b]}

-----------------------------------------------------------------------------
(* createLoopRegions                                                         *)

backEdges == {x \in graphEdges : x[2] \in domVect[x[1]]}

\* From the end of a back edge to h backwards to h, along predList, which
\* has no edges that go back.
createLoop(latch, h) ==
  LET predList == {<<x[2], x[1]>> : x \in {y \in graphEdges \ backEdges : y[1] \in Live /\ y[2] # h}}
  IN  {h} \cup Reach(predList, {latch}, {})

\* With mergeRegions: the loops of all back edges to one block are one region.
createLoopRegions ==
  /\ pc = "regions"
  /\ LET heads == {x[2] : x \in backEdges}
     IN  /\ regBlocks' = [h \in heads |->
              UNION {createLoop(x[1], h) : x \in {y \in backEdges : y[2] = h}}]
         /\ containsLoops' = [h \in heads |-> 0]
         /\ exits' = [h \in heads |-> {}]
         /\ todo' = heads
         /\ pc' = IF heads = {} THEN "done" ELSE "merge"
  /\ UNCHANGED <<ech, bbOrder, preHeader, flowVars, maxDepth, depth, instr, place, folds>>

\* [mutant] The blocks of the inner loop stay its own.
mergeInnerLoops_Count(h) ==
  /\ pc = "merge" /\ h \in todo
  /\ LET outer == {r \in Regions \ {h} : h \in regBlocks[r]}
     IN  /\ containsLoops' = [r \in Regions |->
              containsLoops[r] + IF r \in outer THEN containsLoops[h] + 1 ELSE 0]
         /\ maxDepth' = Max({maxDepth} \cup {containsLoops'[r] : r \in outer})
  /\ todo' = todo \ {h}
  /\ pc' = IF todo' = {} THEN "exits" ELSE pc
  /\ UNCHANGED <<ech, bbOrder, preHeader, flowVars, regBlocks, exits, depth, instr, place, folds>>

\* [mutant] The count of inner loops is set, not added to.
mergeInnerLoops_Set(h) ==
  /\ pc = "merge" /\ h \in todo
  /\ LET outer == {r \in Regions \ {h} : h \in regBlocks[r]}
     IN  /\ regBlocks' = [r \in Regions |->
              IF r \in outer THEN regBlocks[r] \cup regBlocks[h] ELSE regBlocks[r]]
         /\ containsLoops' = [r \in Regions |->
              IF r \in outer THEN containsLoops[h] + 1 ELSE containsLoops[r]]
         /\ maxDepth' = Max({maxDepth} \cup {containsLoops'[r] : r \in outer})
  /\ todo' = todo \ {h}
  /\ pc' = IF todo' = {} THEN "exits" ELSE pc
  /\ UNCHANGED <<ech, bbOrder, preHeader, flowVars, exits, depth, instr, place, folds>>

\* The region of entry h is added to those that have h among their blocks.
\* The order of the regions, which is that of graphEdges, is left open.
mergeInnerLoops(h) ==
  /\ pc = "merge" /\ h \in todo
  /\ LET outer == {r \in Regions \ {h} : h \in regBlocks[r]}
     IN  /\ regBlocks' = [r \in Regions |->
              IF r \in outer THEN regBlocks[r] \cup regBlocks[h] ELSE regBlocks[r]]
         /\ containsLoops' = [r \in Regions |->
              containsLoops[r] + IF r \in outer THEN containsLoops[h] + 1 ELSE 0]
         /\ maxDepth' = Max({maxDepth} \cup {containsLoops'[r] : r \in outer})
  /\ todo' = todo \ {h}
  /\ pc' = IF todo' = {} THEN "exits" ELSE pc
  /\ UNCHANGED <<ech, bbOrder, preHeader, flowVars, exits, depth, instr, place, folds>>

\* The depth of a block is never lowered.
addToExitsMarkDepth ==
  /\ pc = "exits"
  /\ exits' = [r \in Regions |->
       {x[1] : x \in {y \in graphEdges : y[1] \in regBlocks[r] /\ y[2] \notin regBlocks[r]}}]
  /\ depth' = [b \in Blocks |->
       Max({depth[b]} \cup {maxDepth + 1 - containsLoops[r] :
                              r \in {x \in Regions : b \in regBlocks[x]}})]
  /\ todo' = Regions
  /\ pc' = "cse"
  /\ UNCHANGED <<ech, bbOrder, preHeader, flowVars, regBlocks, containsLoops, maxDepth,
                 instr, place, folds>>

-----------------------------------------------------------------------------
(* Between the passes: ifxOptimize has a literal condition.  The control flow *)
(* is computed again, the regions are not.                                   *)
FoldIfx(b) ==
  /\ pc = "cse"
  /\ folds < MaxFolds
  /\ b \in Live /\ ech[b].op = "IFX"
  /\ \E e \in {Plain, [ech[b] EXCEPT !.op = "GOTO"]} :
       /\ ech' = [ech EXCEPT ![b] = e]
       /\ graphEdges' = EdgesOf(ech', bbOrder)
       /\ domVect' = Dominators(graphEdges')
  /\ folds' = folds + 1
  /\ UNCHANGED <<bbOrder, preHeader, regionVars, todo, instr, place, pc>>

\* An instruction of one of the blocks is looked at from here on.
loopOptimizations ==
  /\ pc = "cse"
  /\ instr' \in Live \cap 0 .. N - 2
  /\ place' = instr'
  /\ pc' = "loops"
  /\ UNCHANGED <<ech, bbOrder, preHeader, flowVars, regionVars, todo, folds>>

\* [mutant] One exit is enough.
MayMove_One(h) ==
  /\ preHeader[h] # None
  /\ place \in regBlocks[h]
  /\ \E x \in exits[h] : place \in domVect[x]

\* The instruction assigns to a global variable, so that it may be moved only
\* from a block that dominates all exits; what else has to hold of its
\* operands is left open.
MayMove(h) ==
  /\ preHeader[h] # None
  /\ exits[h] # {}
  /\ place \in regBlocks[h]
  /\ \A x \in exits[h] : place \in domVect[x]

loopInvariants(h) ==
  /\ pc = "loops" /\ h \in todo
  /\ \A r \in todo : containsLoops[h] <= containsLoops[r]
  /\ \/ UNCHANGED place
     \/ MayMove(h) /\ place' = preHeader[h]
  /\ todo' = todo \ {h}
  /\ pc' = IF todo' = {} THEN "done" ELSE pc
  /\ UNCHANGED <<ech, bbOrder, preHeader, flowVars, regionVars, instr, folds>>

Next ==
  \/ iCodeBreakDown
  \/ computeControlFlow
  \/ createLoopRegions
  \/ \E h \in Regions : mergeInnerLoops(h)
  \/ addToExitsMarkDepth
  \/ \E b \in Blocks : FoldIfx(b)
  \/ loopOptimizations
  \/ \E h \in Regions : loopInvariants(h)

Spec == Init /\ [][Next]_vars

-----------------------------------------------------------------------------
(* The loop of entry h in the control flow: h, and the blocks that h          *)
(* dominates and from which control comes back to h.                         *)
NaturalLoop(h) ==
  {h} \cup {b \in Live : h \in domVect[b] /\
    \E x \in backEdges : x[2] = h /\ x[1] \in Reach(graphEdges, {b}, {h})}

(* As found, each region is its natural loop with all loops inside it,       *)
(* although the walks of createLoop miss the inner loops that are left from  *)
(* their first block; and a loop inside another comes before it in the order *)
(* of optimisation, in whatever order they are merged (createLoop,           *)
(* mergeRegions, mergeInnerLoops).                                           *)
RegionsNested ==
  pc = "exits" =>
    \A h \in Regions :
      /\ regBlocks[h] = NaturalLoop(h)
      /\ \A g \in Regions \ {h} : h \in regBlocks[g] => containsLoops[h] < containsLoops[g]

(* Where an instruction goes, control goes before it comes to where it was   *)
(* (iCodeBreakDown, replaceLabel).                                           *)
MovedBefore ==
  pc = "done" /\ instr # None => instr \notin Reach(graphEdges, {0} \ {place}, {place})

(* A moved instruction is executed only if it would have been: control does  *)
(* not get from there to the end of the function, nor there again, past the  *)
(* block it was in; also if a condition has been folded since the exits were *)
(* collected (loopInvariants, addToExitsMarkDepth).                          *)
MovedExecutes ==
  pc = "done" /\ place # instr /\ place \in Live =>
    LET after == {x[2] : x \in {y \in graphEdges : y[1] = place}}
        past == Reach(graphEdges, after, {instr})
    IN  N - 1 \notin past /\ place \notin past

=============================================================================
