--------------------------- MODULE SDCCloopProofs ---------------------------
(***************************************************************************)
(* The loops of every function, of whatever size and shape: createLoop and *)
(* the merging find the natural loops, a preheader is passed before its    *)
(* loop is entered, and what is moved there is executed only if it would   *)
(* have been where it was.                                                 *)
(***************************************************************************)
EXTENDS SDCCloop, FiniteSetTheorems, WellFoundedInduction, TLAPS

\* The block of the source that a block is, or that it is the preheader of.
Origin(b) == IF b >= N THEN b - N ELSE b

\* The order of the source, with each preheader in front of its block.
Key(b) == IF b >= N THEN 2 * (b - N) ELSE 2 * b + 1

Fronted == {h \in 0 .. N - 1 : preHeader[h] # None}

\* The function as it came to iCodeBreakDown.
Source ==
  [b \in 0 .. N - 1 |->
     [op |-> ech[b].op,
      labels |-> [k \in DOMAIN ech[b].labels |-> Origin(ech[b].labels[k])]]]

-----------------------------------------------------------------------------
(* The invariant while the blocks are broken down.                          *)

Preheaders ==
  /\ DOMAIN preHeader = Blocks
  /\ \A h \in Blocks : preHeader[h] \in {None, N + h} /\ (h >= N => preHeader[h] = None)
  /\ DOMAIN ech = 0 .. N - 1 \cup {N + h : h \in Fronted}
  /\ \A b \in DOMAIN ech : ech[b] \in [op : Leaves \cup {"PLAIN", "IFX"}, labels : Seq(DOMAIN ech)]

\* The blocks that are there are in the order of the source, and no block in front
\* of another one jumps past its preheader.
Broken ==
  /\ Source \in Functions
  /\ \A h \in Fronted : ech[N + h] = Plain
  /\ \A h \in Fronted : \A b \in 0 .. h - 1 : h \notin Labels(b)
  /\ \A j, k \in DOMAIN bbOrder : j < k => Key(bbOrder[j]) < Key(bbOrder[k])
  /\ \E m \in 0 .. N :
       /\ \A b \in m .. N - 1 : Labels(b) \subseteq 0 .. N - 1
       /\ ToSet(bbOrder) = 0 .. m - 1 \cup {N + h : h \in Fronted}
       /\ Fronted \subseteq 1 .. m - 1
       /\ pc = "break" => m < N
       /\ pc = "flow" => m = N

-----------------------------------------------------------------------------
(* The invariant of the flow graph.                                        *)

\* What control reaches along edges without entering a block of A.
From0(edges, A) == Reach(edges, {0}, A)

Dominates(d, b) == b \notin From0(graphEdges, {d})

Flow ==
  /\ ToSet(bbOrder) = DOMAIN ech
  /\ graphEdges = EdgesOf(ech, bbOrder) /\ graphEdges \subseteq (DOMAIN ech) \X (DOMAIN ech)
  /\ domVect = Dominators(graphEdges)
  /\ \A x \in graphEdges : x[1] # N - 1
  /\ \A h \in Fronted : \A x \in graphEdges : x[1] = N + h => x[2] = h

Heads == IF pc = "regions" THEN {x[2] : x \in backEdges} ELSE Regions

\* A preheader is passed before the loop is entered.
Entered == ~JumpsBehind => \A h \in Fronted \cap Heads : Dominates(N + h, h)

-----------------------------------------------------------------------------
(* The invariant of the regions.                                           *)

Region ==
  /\ Regions \subseteq DOMAIN ech
  /\ regBlocks \in [Regions -> SUBSET (DOMAIN ech \ {N - 1})]
  /\ containsLoops \in [Regions -> Nat]
  /\ todo \subseteq Regions
  /\ \A h \in Regions : h \in regBlocks[h] /\ \A b \in regBlocks[h] : Dominates(h, b)
  /\ \A h \in Regions : \A g \in Fronted :
       N + g \in regBlocks[h] /\ h # N + g => g \in regBlocks[h]

\* A region that has been merged is part of each one that has its entry.
Merged ==
  \A h, r \in Regions :
    h \in regBlocks[r] /\ (pc = "merge" => h \notin todo) =>
      /\ regBlocks[h] \subseteq regBlocks[r]
      /\ h # r /\ pc \in {"merge", "exits"} => containsLoops[h] < containsLoops[r]

\* While they are made: the blocks that control comes back from, and all that leads
\* there without a back edge, and nothing else.
Loops ==
  pc \in {"merge", "exits"} =>
    /\ Regions = {x[2] : x \in backEdges}
    /\ pc = "exits" => todo = {}
    /\ \A x \in backEdges : x[1] \in regBlocks[x[2]]
    /\ \A h \in Regions :
         /\ regBlocks[h] \ {h} \subseteq Live
         /\ \A x \in graphEdges \ backEdges :
              x[2] \in regBlocks[h] \ {h} /\ x[1] \in Live => x[1] \in regBlocks[h]
         /\ \A T \in SUBSET Blocks :
              /\ \A x \in backEdges : x[2] = h => x[1] \in T \cup {h}
              /\ \A x \in graphEdges :
                   x[2] \in T \cap (regBlocks[h] \ {h}) /\ x[1] \in Live \ {h} => x[1] \in T
              => regBlocks[h] \subseteq T \cup {h}

Left ==
  pc \in {"cse", "loops", "done"} =>
    /\ exits \in [Regions -> SUBSET Blocks]
    /\ \A h \in Regions : \A x \in graphEdges :
         x[1] \in regBlocks[h] /\ x[2] \notin regBlocks[h] => x[1] \in exits[h]

\* Where the instruction is, control has been, and from there it stays in the loop
\* until it has been where the instruction was.
Moved ==
  /\ pc \notin {"loops", "done"} => instr = None
  /\ instr = None => place = None
  /\ instr # None /\ ~JumpsBehind =>
       /\ instr \in Live /\ Dominates(place, instr)
       /\ place # instr =>
            \E h \in Regions \cap Fronted :
              place = N + h /\ Reach(graphEdges, {h}, {instr}) \subseteq regBlocks[h]

LoopInv ==
  /\ pc \in {"break", "flow", "regions", "merge", "exits", "cse", "loops", "done"}
  /\ Preheaders
  /\ bbOrder \in Seq(DOMAIN ech)
  /\ IF pc \in {"break", "flow"} THEN Broken ELSE Flow /\ Entered
  /\ IF pc \in {"break", "flow", "regions"} THEN regBlocks = <<>> ELSE Region /\ Merged /\ Loops /\ Left
  /\ Moved
-----------------------------------------------------------------------------
(* What Reach computes: the smallest set that has S and is closed under     *)
(* edges, but for A.                                                        *)

Closed(edges, A, C) == \A x \in edges : x[1] \in C => x[2] \in C \cup A

Closure(edges, S, A) ==
  {b \in Blocks : \A C \in SUBSET Blocks : S \subseteq C /\ Closed(edges, A, C) => b \in C}

Beyond(edges, R, A) == {x[2] : x \in {y \in edges : y[1] \in R /\ y[2] \notin R \cup A}}

Grows(edges, A, f) ==
  f = [R \in SUBSET Blocks |->
         IF Beyond(edges, R, A) = {} THEN R ELSE f[R \cup Beyond(edges, R, A)]]

LEMMA SmallestBy ==
  ASSUME NEW T, NEW f, T # {}, \A t \in T : f[t] \in Nat
  PROVE  \E m \in T : \A k \in T : f[m] <= f[k]
<1> DEFINE V == {f[t] : t \in T}
           R == OpToRel(<, Nat)
<1>1. V \subseteq Nat /\ \E v \in V : TRUE
  OBVIOUS
<1>2. IsWellFoundedOn(R, Nat)
  BY NatLessThanWellFounded
<1>3. \A a, b \in Nat : a < b => <<a, b>> \in R
  BY DEF OpToRel
<1> HIDE DEF R, V
<1>4. PICK v \in V : \A w \in V : ~(<<w, v>> \in R)
  BY <1>1, <1>2, WFMin
<1>5. \A w \in V : v <= w
  <2>1. \A w \in V : ~(w < v)
    BY <1>1, <1>3, <1>4
  <2> QED
    BY <1>1, <2>1
<1> QED
  BY <1>5 DEF V

LEMMA BlocksFinite ==
  /\ N \in Nat \ {0, 1} /\ Blocks = 0 .. 2 * N - 1 /\ IsFiniteSet(Blocks)
  /\ 0 \in Blocks /\ N - 1 \in Blocks
<1>1. N \in Nat \ {0, 1} /\ Blocks = 0 .. 2 * N - 1
  BY LoopAssumption DEF Blocks
<1>2. IsFiniteSet(0 .. 2 * N - 1)
  BY <1>1, FS_Interval
<1> QED
  BY <1>1, <1>2

LEMMA BeyondStays ==
  ASSUME NEW edges \in SUBSET (Blocks \X Blocks), NEW R \in SUBSET Blocks, NEW A
  PROVE  /\ Beyond(edges, R, A) \in SUBSET (Blocks \ R)
         /\ Beyond(edges, R, A) = {} => Closed(edges, A, R)
         /\ Closure(edges, R \cup Beyond(edges, R, A), A) = Closure(edges, R, A)
         /\ R \cup Beyond(edges, R, A) \in SUBSET Blocks
<1>1. Beyond(edges, R, A) \in SUBSET (Blocks \ R)
  BY DEF Beyond
<1>2. Beyond(edges, R, A) = {} => Closed(edges, A, R)
  BY DEF Beyond, Closed
<1>3. ASSUME NEW C \in SUBSET Blocks, R \subseteq C, Closed(edges, A, C)
      PROVE  Beyond(edges, R, A) \subseteq C
  BY <1>3 DEF Beyond, Closed
<1>4. Closure(edges, R \cup Beyond(edges, R, A), A) = Closure(edges, R, A)
  BY <1>3 DEF Closure
<1> QED
  BY <1>1, <1>2, <1>4

LEMMA GrowExists ==
  ASSUME NEW edges \in SUBSET (Blocks \X Blocks), NEW A
  PROVE  \E f : Grows(edges, A, f)
<1> DEFINE g == [R \in SUBSET Blocks |-> Closure(edges, R, A)]
           h == [R \in SUBSET Blocks |->
                   IF Beyond(edges, R, A) = {} THEN R ELSE g[R \cup Beyond(edges, R, A)]]
<1>1. ASSUME NEW R \in SUBSET Blocks PROVE g[R] = h[R]
  <2>1. CASE Beyond(edges, R, A) = {}
    <3>1. Closed(edges, A, R)
      BY <2>1, BeyondStays
    <3> QED
      BY <2>1, <3>1 DEF Closure
  <2>2. CASE Beyond(edges, R, A) # {}
    <3>1. R \cup Beyond(edges, R, A) \in SUBSET Blocks
          /\ Closure(edges, R \cup Beyond(edges, R, A), A) = Closure(edges, R, A)
      BY BeyondStays
    <3> QED
      BY <2>2, <3>1
  <2> QED
    BY <2>1, <2>2
<1>2. g = h
  BY <1>1
<1>3. Grows(edges, A, g)
  BY <1>2 DEF Grows
<1> QED
  BY <1>3

LEMMA GrowIs ==
  ASSUME NEW edges \in SUBSET (Blocks \X Blocks), NEW A, NEW f, Grows(edges, A, f),
         NEW R \in SUBSET Blocks
  PROVE  f[R] = Closure(edges, R, A)
<1> DEFINE T == {Q \in SUBSET Blocks : f[Q] # Closure(edges, Q, A)}
           left == [Q \in SUBSET Blocks |-> Cardinality(Blocks \ Q)]
<1> SUFFICES ASSUME T # {} PROVE FALSE
  OBVIOUS
<1>1. \A Q \in SUBSET Blocks : IsFiniteSet(Blocks \ Q) /\ left[Q] \in Nat
  BY BlocksFinite, FS_Subset, FS_CardinalityType
<1>2. PICK Q \in T : \A P \in T : left[Q] <= left[P]
  <2>1. \A P \in T : left[P] \in Nat
    BY <1>1
  <2> HIDE DEF T, left
  <2> QED
    BY <2>1, SmallestBy
<1> DEFINE P == Q \cup Beyond(edges, Q, A)
<1>3. Q \in SUBSET Blocks /\ f[Q] # Closure(edges, Q, A)
  BY <1>2
<1>4. f[Q] = IF Beyond(edges, Q, A) = {} THEN Q ELSE f[P]
  BY <1>3 DEF Grows
<1>5. CASE Beyond(edges, Q, A) = {}
  <2>1. Closed(edges, A, Q)
    BY <1>3, <1>5, BeyondStays
  <2>2. Closure(edges, Q, A) = Q
    BY <1>3, <2>1 DEF Closure
  <2> QED
    BY <1>3, <1>4, <1>5, <2>2
<1>6. CASE Beyond(edges, Q, A) # {}
  <2>1. P \in SUBSET Blocks /\ Closure(edges, P, A) = Closure(edges, Q, A)
        /\ Beyond(edges, Q, A) \in SUBSET (Blocks \ Q)
    BY <1>3, BeyondStays
  <2>2. P \in T
    BY <1>3, <1>4, <1>6, <2>1
  <2>3. (Blocks \ P) \in SUBSET (Blocks \ Q) /\ Blocks \ P # Blocks \ Q
    BY <1>6, <2>1
  <2>4. Cardinality(Blocks \ P) <= Cardinality(Blocks \ Q)
        /\ Cardinality(Blocks \ P) # Cardinality(Blocks \ Q)
    <3> HIDE DEF P
    <3> QED
      BY <1>1, <1>3, <2>3, FS_Subset
  <2>5. left[Q] <= left[P]
    BY <1>2, <2>2
  <2>6. /\ left[Q] = Cardinality(Blocks \ Q) /\ left[Q] \in Nat
        /\ left[P] = Cardinality(Blocks \ P) /\ left[P] \in Nat
    <3> HIDE DEF P
    <3> QED
      BY <1>1, <1>3, <2>1
  <2> HIDE DEF P, left
  <2> QED
    BY <2>4, <2>5, <2>6
<1> QED
  BY <1>5, <1>6

LEMMA ReachIs ==
  ASSUME NEW edges \in SUBSET (Blocks \X Blocks), NEW S \in SUBSET Blocks, NEW A
  PROVE  Reach(edges, S, A) = Closure(edges, S \ A, A)
<1> DEFINE grow == CHOOSE f : Grows(edges, A, f)
<1>1. Grows(edges, A, grow)
  BY GrowExists
<1>2. Reach(edges, S, A) = grow[S \ A]
  BY DEF Reach, Grows, Beyond
<1> QED
  BY <1>1, <1>2, GrowIs

LEMMA ReachHas ==
  ASSUME NEW edges \in SUBSET (Blocks \X Blocks), NEW S \in SUBSET Blocks, NEW A
  PROVE  /\ Reach(edges, S, A) \in SUBSET Blocks
         /\ Reach(edges, S, A) \cap A = {}
         /\ S \ A \subseteq Reach(edges, S, A)
         /\ Closed(edges, A, Reach(edges, S, A))
<1> DEFINE R == Reach(edges, S, A)
<1>1. R = Closure(edges, S \ A, A)
  BY ReachIs
<1> HIDE DEF R
<1>2. R \in SUBSET Blocks /\ S \ A \subseteq R
  BY <1>1 DEF Closure
<1>3. R \cap A = {}
  <2>1. Blocks \ A \in SUBSET Blocks /\ S \ A \subseteq Blocks \ A
    OBVIOUS
  <2>2. Closed(edges, A, Blocks \ A)
    BY DEF Closed
  <2> QED
    BY <1>1, <2>1, <2>2 DEF Closure
<1>4. Closed(edges, A, R)
  BY <1>1 DEF Closure, Closed
<1> QED
  BY <1>2, <1>3, <1>4 DEF R

LEMMA ReachLeast ==
  ASSUME NEW edges \in SUBSET (Blocks \X Blocks), NEW S \in SUBSET Blocks, NEW A,
         NEW C, S \ A \subseteq C,
         \A x \in edges : x[1] \in C /\ x[2] \notin A => x[2] \in C
  PROVE  Reach(edges, S, A) \subseteq C
<1>1. C \cap Blocks \in SUBSET Blocks /\ S \ A \subseteq C \cap Blocks
  OBVIOUS
<1>2. Closed(edges, A, C \cap Blocks)
  BY DEF Closed
<1> QED
  BY <1>1, <1>2, ReachIs DEF Closure

LEMMA ReachShrinks ==
  ASSUME NEW edges \in SUBSET (Blocks \X Blocks), NEW fewer \in SUBSET edges,
         NEW S \in SUBSET Blocks, NEW A
  PROVE  Reach(fewer, S, A) \subseteq Reach(edges, S, A)
<1>1. fewer \in SUBSET (Blocks \X Blocks)
  OBVIOUS
<1>2. S \ A \subseteq Reach(edges, S, A) /\ Closed(edges, A, Reach(edges, S, A))
  BY ReachHas
<1>3. \A x \in fewer : x[1] \in Reach(edges, S, A) /\ x[2] \notin A => x[2] \in Reach(edges, S, A)
  BY <1>2 DEF Closed
<1> QED
  BY <1>1, <1>2, <1>3, ReachLeast

-----------------------------------------------------------------------------
(* Dominators.                                                             *)

LEMMA From0Has ==
  ASSUME NEW edges \in SUBSET (Blocks \X Blocks), NEW A
  PROVE  /\ From0(edges, A) \in SUBSET Blocks
         /\ From0(edges, A) \cap A = {}
         /\ 0 \notin A => 0 \in From0(edges, A)
         /\ \A x \in edges : x[1] \in From0(edges, A) /\ x[2] \notin A => x[2] \in From0(edges, A)
<1>1. {0} \in SUBSET Blocks
  BY BlocksFinite
<1>2. /\ From0(edges, A) \in SUBSET Blocks /\ From0(edges, A) \cap A = {}
      /\ {0} \ A \subseteq From0(edges, A) /\ Closed(edges, A, From0(edges, A))
  BY <1>1, ReachHas DEF From0
<1> QED
  BY <1>2 DEF Closed

LEMMA From0Least ==
  ASSUME NEW edges \in SUBSET (Blocks \X Blocks), NEW A, NEW C,
         0 \notin A => 0 \in C,
         \A x \in edges : x[1] \in C /\ x[2] \notin A => x[2] \in C
  PROVE  From0(edges, A) \subseteq C
<1>1. {0} \in SUBSET Blocks /\ {0} \ A \subseteq C
  BY BlocksFinite
<1> QED
  BY <1>1, ReachLeast DEF From0

LEMMA From0Empty ==
  ASSUME NEW edges \in SUBSET (Blocks \X Blocks)
  PROVE  From0(edges, {0}) = {}
<1> DEFINE C == {}
<1>1. \A x \in edges : x[1] \in C /\ x[2] \notin {0} => x[2] \in C
  OBVIOUS
<1>2. 0 \notin {0} => 0 \in C
  OBVIOUS
<1> HIDE DEF C
<1>3. From0(edges, {0}) \subseteq C
  BY <1>1, <1>2, From0Least
<1> QED
  BY <1>3 DEF C

LEMMA From0Live ==
  ASSUME NEW edges \in SUBSET (Blocks \X Blocks), NEW A
  PROVE  From0(edges, A) \subseteq From0(edges, {})
<1>1. 0 \in From0(edges, {})
      /\ \A x \in edges : x[1] \in From0(edges, {}) => x[2] \in From0(edges, {})
  BY From0Has
<1> QED
  BY <1>1, From0Least

\* Control that does not get past h does not get past a block h dominates.
LEMMA DominatedBehind ==
  ASSUME NEW edges \in SUBSET (Blocks \X Blocks), NEW g, NEW h,
         g \notin From0(edges, {h})
  PROVE  From0(edges, {h}) \subseteq From0(edges, {g})
<1> DEFINE C == From0(edges, {h}) \cap From0(edges, {g})
<1>1. /\ h # 0 => 0 \in From0(edges, {h})
      /\ \A x \in edges : x[1] \in From0(edges, {h}) /\ x[2] # h => x[2] \in From0(edges, {h})
  BY From0Has
<1>2. /\ g # 0 => 0 \in From0(edges, {g})
      /\ \A x \in edges : x[1] \in From0(edges, {g}) /\ x[2] # g => x[2] \in From0(edges, {g})
  BY From0Has
<1>3. 0 \notin {h} => 0 \in C
  BY <1>1, <1>2
<1>4. \A x \in edges : x[1] \in C /\ x[2] \notin {h} => x[2] \in C
  BY <1>1, <1>2
<1> HIDE DEF C
<1>5. From0(edges, {h}) \subseteq C
  BY <1>3, <1>4, From0Least
<1> QED
  BY <1>5 DEF C

LEMMA DominatorLive ==
  ASSUME NEW edges \in SUBSET (Blocks \X Blocks), NEW d,
         NEW b \in From0(edges, {}), b \notin From0(edges, {d})
  PROVE  d \in From0(edges, {})
<1> SUFFICES ASSUME d \notin From0(edges, {}) PROVE FALSE
  OBVIOUS
<1>1. 0 \in From0(edges, {})
      /\ \A x \in edges : x[1] \in From0(edges, {}) => x[2] \in From0(edges, {})
  BY From0Has
<1>2. From0(edges, {d}) \subseteq From0(edges, {})
  BY From0Live
<1>3. 0 \in From0(edges, {d})
      /\ \A x \in edges : x[1] \in From0(edges, {d}) /\ x[2] # d => x[2] \in From0(edges, {d})
  BY <1>1, From0Has
<1>4. \A x \in edges : x[1] \in From0(edges, {d}) => x[2] \in From0(edges, {d})
  BY <1>1, <1>2, <1>3
<1>5. From0(edges, {}) \subseteq From0(edges, {d})
  BY <1>3, <1>4, From0Least
<1> QED
  BY <1>5

\* Of two blocks that control reaches, it passes one first.
LEMMA DominatesOneWay ==
  ASSUME NEW edges \in SUBSET (Blocks \X Blocks),
         NEW g \in From0(edges, {}), NEW h,
         g \notin From0(edges, {h}), h \notin From0(edges, {g})
  PROVE  g = h
<1> SUFFICES ASSUME g # h PROVE FALSE
  OBVIOUS
<1>1. From0(edges, {h}) \subseteq From0(edges, {g})
  BY DominatedBehind
<1>2. /\ g # 0 => 0 \in From0(edges, {g})
      /\ \A x \in edges : x[1] \in From0(edges, {g}) /\ x[2] # g => x[2] \in From0(edges, {g})
  BY From0Has
<1>3. /\ h # 0 => 0 \in From0(edges, {h})
      /\ \A x \in edges : x[1] \in From0(edges, {h}) /\ x[2] # h => x[2] \in From0(edges, {h})
  BY From0Has
<1>4. \A x \in edges : x[1] \in From0(edges, {h}) => x[2] \in From0(edges, {h})
  BY <1>1, <1>2, <1>3
<1>5. 0 \in From0(edges, {h})
  BY <1>2, <1>3
<1>6. From0(edges, {}) \subseteq From0(edges, {h})
  BY <1>4, <1>5, From0Least
<1> QED
  BY <1>6

-----------------------------------------------------------------------------
(* The flow graph.                                                         *)

LEMMA EdgeIs ==
  ASSUME NEW e, NEW order, NEW x, NEW y
  PROVE  <<x, y>> \in EdgesOf(e, order) <=>
           \E k \in DOMAIN order :
             /\ x = order[k]
             /\ \/ y \in ToSet(e[x].labels)
                \/ e[x].op \notin Leaves /\ k # Len(order) /\ y = order[k + 1]
BY DEF EdgesOf

LEMMA EdgesArePairs ==
  ASSUME NEW e, NEW order, NEW x \in EdgesOf(e, order)
  PROVE  x = <<x[1], x[2]>>
BY DEF EdgesOf

LEMMA NamesAre ==
  ASSUME Preheaders
  PROVE  /\ DOMAIN ech \in SUBSET Blocks /\ 0 \in DOMAIN ech /\ N - 1 \in DOMAIN ech
         /\ Fronted \in SUBSET (0 .. N - 1)
         /\ \A h \in Fronted : preHeader[h] = N + h /\ N + h \in DOMAIN ech
<1>1. Fronted \in SUBSET (0 .. N - 1) /\ N \in Nat \ {0, 1} /\ Blocks = 0 .. 2 * N - 1
  BY BlocksFinite DEF Fronted
<1>2. \A h \in Fronted : h \in Blocks /\ preHeader[h] # None
  BY <1>1 DEF Fronted
<1>3. \A h \in Fronted : preHeader[h] = N + h
  BY <1>2 DEF Preheaders
<1> QED
  BY <1>1, <1>3 DEF Preheaders

LEMMA DominanceIs ==
  ASSUME NEW edges \in SUBSET (Blocks \X Blocks)
  PROVE  /\ \A x \in Dominance(edges) : x = <<x[1], x[2]>>
         /\ \A d, b : <<d, b>> \in Dominance(edges) <=>
              d \in From0(edges, {}) /\ b \in From0(edges, {}) /\ b \notin From0(edges, {d})
<1> DEFINE L == From0(edges, {})
           Of(c) == {<<c, a>> : a \in L \ From0(edges, {c})}
<1>1. Dominance(edges) = UNION {Of(c) : c \in L}
  BY DEF Dominance, From0
<1>2. \A c : \A x \in Of(c) : \E a \in L \ From0(edges, {c}) : x = <<c, a>>
  OBVIOUS
<1>3. \A c : \A a \in L \ From0(edges, {c}) : <<c, a>> \in Of(c)
  OBVIOUS
<1> HIDE DEF L, Of
<1>4. \A x \in Dominance(edges) : \E c \in L : \E a \in L \ From0(edges, {c}) : x = <<c, a>>
  <2> TAKE x \in Dominance(edges)
  <2>1. PICK c \in L : x \in Of(c)
    BY <1>1
  <2> QED
    BY <1>2, <2>1
<1>5. \A x \in Dominance(edges) : x = <<x[1], x[2]>>
  <2> SUFFICES ASSUME NEW x \in Dominance(edges) PROVE x = <<x[1], x[2]>>
    OBVIOUS
  <2>1. PICK c \in L : \E a \in L \ From0(edges, {c}) : x = <<c, a>>
    BY <1>4
  <2> QED
    BY <2>1
<1>6. ASSUME NEW d, NEW b, <<d, b>> \in Dominance(edges)
      PROVE  d \in L /\ b \in L /\ b \notin From0(edges, {d})
  <2>1. PICK c \in L : \E a \in L \ From0(edges, {c}) : <<d, b>> = <<c, a>>
    BY <1>4, <1>6
  <2>2. PICK a \in L \ From0(edges, {c}) : <<d, b>> = <<c, a>>
    BY <2>1
  <2>3. d = c /\ b = a
    BY <2>2
  <2> QED
    BY <2>2, <2>3
<1>7. ASSUME NEW d \in L, NEW b \in L, b \notin From0(edges, {d})
      PROVE  <<d, b>> \in Dominance(edges)
  BY <1>1, <1>3, <1>7
<1> QED
  BY <1>5, <1>6, <1>7 DEF L

LEMMA DominatorsAre ==
  ASSUME NEW edges \in SUBSET (Blocks \X Blocks), NEW b \in ToSet(bbOrder), NEW d
  PROVE  d \in Dominators(edges)[b] <=> d = b \/ <<d, b>> \in Dominance(edges)
<1>1. Dominators(edges)[b] = {b} \cup {x[1] : x \in {y \in Dominance(edges) : y[2] = b}}
  BY DEF Dominators
<1>2. d \in {x[1] : x \in {y \in Dominance(edges) : y[2] = b}} <=> <<d, b>> \in Dominance(edges)
  BY DominanceIs
<1> QED
  BY <1>1, <1>2

\* domVect has the dominators of what control reaches.
LEMMA FlowIs ==
  ASSUME Preheaders, Flow
  PROVE  /\ graphEdges \in SUBSET (Blocks \X Blocks)
         /\ Live = From0(graphEdges, {}) /\ 0 \in Live /\ Live \in SUBSET (DOMAIN ech)
         /\ DOMAIN domVect = DOMAIN ech
         /\ \A b \in DOMAIN ech : \A d :
              d \in domVect[b] <=> d = b \/ (b \in Live /\ Dominates(d, b))
<1> DEFINE L == From0(graphEdges, {})
<1>0. /\ DOMAIN ech \in SUBSET Blocks /\ 0 \in DOMAIN ech /\ ToSet(bbOrder) = DOMAIN ech
      /\ graphEdges \in SUBSET ((DOMAIN ech) \X (DOMAIN ech))
  BY NamesAre DEF Flow
<1>1. graphEdges \in SUBSET (Blocks \X Blocks)
  BY <1>0
<1>2. L \subseteq DOMAIN ech /\ 0 \in L
  <2>1. \A x \in graphEdges : x[2] \in DOMAIN ech
    BY <1>0
  <2>2. L \subseteq DOMAIN ech
    BY <1>0, <1>1, <2>1, From0Least
  <2> QED
    BY <1>1, <2>2, From0Has
<1> HIDE DEF L
<1>3. ASSUME NEW b \in DOMAIN ech, NEW d
      PROVE  d \in domVect[b] <=> d = b \/ (d \in L /\ b \in L /\ Dominates(d, b))
  <2>1. d \in domVect[b] <=> d = b \/ <<d, b>> \in Dominance(graphEdges)
    BY <1>0, <1>1, DominatorsAre DEF Flow
  <2> QED
    BY <1>1, <2>1, DominanceIs DEF Dominates, L
<1>4. DOMAIN domVect = DOMAIN ech
  BY <1>0 DEF Flow, Dominators
<1>5. \A b \in L : Dominates(0, b)
  BY <1>1, From0Empty DEF Dominates
<1>6. Live = L
  BY <1>2, <1>3, <1>4, <1>5 DEF Live
<1>7. \A b \in L : \A d : Dominates(d, b) => d \in L
  BY <1>1, DominatorLive DEF Dominates, L
<1> QED
  BY <1>1, <1>2, <1>3, <1>4, <1>6, <1>7 DEF L

LEMMA BackEdgeIs ==
  ASSUME Preheaders, Flow, NEW x \in backEdges
  PROVE  /\ x \in graphEdges /\ x[1] \in DOMAIN ech /\ x[2] \in DOMAIN ech
         /\ x[1] = x[2] \/ (x[1] \in Live /\ Dominates(x[2], x[1]))
<1>1. x \in graphEdges /\ x[2] \in domVect[x[1]]
  BY DEF backEdges
<1>2. x[1] \in DOMAIN ech /\ x[2] \in DOMAIN ech
  BY <1>1 DEF Flow
<1> QED
  BY <1>1, <1>2, FlowIs

LEMMA DominatesItself ==
  ASSUME Preheaders, Flow, NEW h PROVE Dominates(h, h)
BY FlowIs, From0Has DEF Dominates

LEMMA DominatesOn ==
  ASSUME Preheaders, Flow, NEW r, NEW h, NEW b, Dominates(r, h), Dominates(h, b)
  PROVE  Dominates(r, b)
<1>1. From0(graphEdges, {r}) \subseteq From0(graphEdges, {h})
  BY FlowIs, DominatedBehind DEF Dominates
<1> QED
  BY <1>1 DEF Dominates

\* Control comes into what h dominates through h only.
LEMMA EntersThrough ==
  ASSUME Preheaders, Flow, NEW h, NEW x \in graphEdges, x[2] # h, x[1] \in Live,
         Dominates(h, x[2])
  PROVE  Dominates(h, x[1])
<1>1. x[1] \in From0(graphEdges, {h}) => x[2] \in From0(graphEdges, {h})
  BY FlowIs, From0Has
<1> QED
  BY <1>1 DEF Dominates

\* The last block is nobody's dominator but its own.
LEMMA EndDominates ==
  ASSUME Preheaders, Flow, NEW b \in Live, Dominates(N - 1, b) PROVE b = N - 1
<1> DEFINE C == From0(graphEdges, {N - 1}) \cup {N - 1}
<1>0. N - 1 # 0 /\ graphEdges \in SUBSET (Blocks \X Blocks)
  BY BlocksFinite, FlowIs
<1>1. 0 \in C
  <2>1. graphEdges \in SUBSET (Blocks \X Blocks)
    BY <1>0
  <2>2. \A A : 0 \notin A => 0 \in From0(graphEdges, A)
    BY <2>1, From0Has
  <2>3. 0 \notin {N - 1}
    BY <1>0
  <2> QED
    BY <2>2, <2>3
<1>2. \A x \in graphEdges : x[1] \in C => x[2] \in C
  <2>1. \A x \in graphEdges :
          /\ x[1] # N - 1
          /\ x[1] \in From0(graphEdges, {N - 1}) /\ x[2] \notin {N - 1}
               => x[2] \in From0(graphEdges, {N - 1})
    BY <1>0, From0Has DEF Flow
  <2> QED
    BY <2>1
<1> HIDE DEF C
<1>3. From0(graphEdges, {}) \subseteq C
  BY <1>0, <1>1, <1>2, From0Least
<1>4. b \in C
  BY <1>3, FlowIs
<1> QED
  BY <1>4 DEF C, Dominates

-----------------------------------------------------------------------------
(* createLoopRegions.                                                      *)

Backwards(h) == {<<x[2], x[1]>> : x \in {y \in graphEdges \ backEdges : y[1] \in Live /\ y[2] # h}}

LEMMA BackwardsIs ==
  ASSUME Preheaders, Flow, NEW h
  PROVE  /\ Backwards(h) \in SUBSET (Blocks \X Blocks)
         /\ \A x \in Backwards(h) :
              /\ x[1] # h /\ x[2] \in Live
              /\ <<x[2], x[1]>> \in graphEdges \ backEdges
         /\ \A x \in graphEdges \ backEdges :
              x[1] \in Live /\ x[2] # h => <<x[2], x[1]>> \in Backwards(h)
<1>1. \A x \in graphEdges : x = <<x[1], x[2]>> /\ x[1] \in Blocks /\ x[2] \in Blocks
  BY NamesAre DEF Flow
<1>2. \A x \in Backwards(h) :
        /\ x[1] # h /\ x[2] \in Live
        /\ <<x[2], x[1]>> \in graphEdges \ backEdges
        /\ x \in Blocks \X Blocks
  BY <1>1 DEF Backwards
<1>3. \A x \in graphEdges \ backEdges :
        x[1] \in Live /\ x[2] # h => <<x[2], x[1]>> \in Backwards(h)
  BY DEF Backwards
<1> QED
  BY <1>2, <1>3

\* One loop, from the end of one back edge.
LEMMA LoopIs ==
  ASSUME Preheaders, Flow, NEW e \in backEdges, NEW C, C = createLoop(e[1], e[2])
  PROVE  /\ e[1] \in C /\ e[2] \in C /\ C \in SUBSET (DOMAIN ech \ {N - 1})
         /\ \A b \in C : Dominates(e[2], b)
         /\ C \ {e[2]} \subseteq Live
         /\ \A g \in Fronted : N + g \in C /\ e[2] # N + g => g \in C
         /\ \A x \in graphEdges \ backEdges :
              x[2] \in C \ {e[2]} /\ x[1] \in Live => x[1] \in C
<1> DEFINE h == e[2]
           R == Reach(Backwards(h), {e[1]}, {})
<1>0. /\ e \in graphEdges /\ e[1] \in DOMAIN ech /\ h \in DOMAIN ech
      /\ e[1] = h \/ (e[1] \in Live /\ Dominates(h, e[1]))
      /\ DOMAIN ech \in SUBSET Blocks
  BY BackEdgeIs, NamesAre
<1> HIDE DEF h
<1>1. C = {h} \cup R
  BY DEF createLoop, Backwards, h
<1>2. /\ R \in SUBSET Blocks /\ e[1] \in R
      /\ \A x \in Backwards(h) : x[1] \in R => x[2] \in R
  <2>1. {e[1]} \in SUBSET Blocks /\ {e[1]} \ {} = {e[1]}
    BY <1>0
  <2>2. R \in SUBSET Blocks /\ {e[1]} \ {} \subseteq R /\ Closed(Backwards(h), {}, R)
    BY <2>1, BackwardsIs, ReachHas
  <2> HIDE DEF R
  <2> QED
    BY <2>1, <2>2 DEF Closed
<1>3. ASSUME NEW D, e[1] \in D, \A x \in Backwards(h) : x[1] \in D => x[2] \in D
      PROVE  R \subseteq D
  <2>1. {e[1]} \in SUBSET Blocks
    BY <1>0
  <2> QED
    BY <2>1, <1>3, BackwardsIs, ReachLeast
<1> HIDE DEF R
<1>4. h # N - 1
  <2> SUFFICES ASSUME h = N - 1 PROVE FALSE
    OBVIOUS
  <2>1. e[1] # N - 1
    BY <1>0 DEF Flow
  <2>2. e[1] \in Live /\ Dominates(N - 1, e[1])
    BY <1>0, <2>1
  <2> QED
    BY <2>1, <2>2, EndDominates
<1>5. R \subseteq {b \in DOMAIN ech \ {N - 1} : b = h \/ (b \in Live /\ Dominates(h, b))}
  <2> DEFINE D == {b \in DOMAIN ech \ {N - 1} : b = h \/ (b \in Live /\ Dominates(h, b))}
  <2>1. e[1] \in D
    BY <1>0 DEF Flow
  <2>2. ASSUME NEW x \in Backwards(h), x[1] \in D PROVE x[2] \in D
    <3>1. x[1] # h /\ x[2] \in Live /\ <<x[2], x[1]>> \in graphEdges
      BY BackwardsIs
    <3> DEFINE y == <<x[2], x[1]>>
    <3>2. y \in graphEdges /\ y[1] = x[2] /\ y[2] = x[1]
      BY <3>1
    <3> HIDE DEF y
    <3>3. Dominates(h, y[2])
      BY <2>2, <3>1, <3>2
    <3>4. Dominates(h, y[1])
      BY <3>1, <3>2, <3>3, EntersThrough
    <3>5. y[1] # N - 1 /\ y[1] \in DOMAIN ech
      BY <3>1, <3>2, FlowIs DEF Flow
    <3> QED
      BY <3>1, <3>2, <3>4, <3>5
  <2> HIDE DEF D
  <2>3. R \subseteq D
    BY <1>3, <2>1, <2>2
  <2> QED
    BY <2>3 DEF D
<1>6. ASSUME NEW g \in Fronted, N + g \in C, h # N + g PROVE g \in C
  <2> DEFINE D == {b \in R : b = N + g => g \in C}
  <2>1. e[1] \in D
    <3>1. e[1] = N + g => h = g
      BY <1>0 DEF Flow, h
    <3> QED
      BY <1>1, <1>2, <3>1
  <2>2. ASSUME NEW x \in Backwards(h), x[1] \in D PROVE x[2] \in D
    <3>1. x[2] \in R
      BY <1>2, <2>2
    <3>2. x[2] = N + g => x[1] = g
      <4>1. <<x[2], x[1]>> \in graphEdges
        BY BackwardsIs
      <4> QED
        BY <4>1 DEF Flow
    <3> QED
      BY <1>1, <2>2, <3>1, <3>2
  <2>3. N + g \in R
    BY <1>1, <1>6
  <2> HIDE DEF D
  <2>4. R \subseteq D
    BY <1>3, <2>1, <2>2
  <2> QED
    BY <2>3, <2>4 DEF D
<1>7. ASSUME NEW x \in graphEdges \ backEdges, x[2] \in C \ {h}, x[1] \in Live
      PROVE  x[1] \in C
  <2>1. <<x[2], x[1]>> \in Backwards(h)
    BY <1>7, BackwardsIs
  <2>2. x[2] \in R
    BY <1>1, <1>7
  <2> QED
    BY <1>1, <1>2, <2>1, <2>2
<1>8. \A b \in C : Dominates(h, b)
  BY <1>1, <1>5, DominatesItself
<1> QED
  BY <1>0, <1>1, <1>2, <1>4, <1>5, <1>6, <1>7, <1>8 DEF h

\* Nothing is in it but what leads there.
LEMMA LoopLeast ==
  ASSUME Preheaders, Flow, NEW e \in backEdges, NEW C, C = createLoop(e[1], e[2]),
         NEW T, e[1] \in T \cup {e[2]},
         \A x \in graphEdges : x[2] \in T \cap (C \ {e[2]}) /\ x[1] \in Live \ {e[2]} => x[1] \in T
  PROVE  C \subseteq T \cup {e[2]}
<1> DEFINE h == e[2]
           R == Reach(Backwards(h), {e[1]}, {})
           D == R \cap (T \cup {h})
<1>0. {e[1]} \in SUBSET Blocks
  BY BackEdgeIs, NamesAre
<1>1. C = {h} \cup R
  BY DEF createLoop, Backwards, h
<1>2. e[1] \in R /\ \A x \in Backwards(h) : x[1] \in R => x[2] \in R
  <2>1. {e[1]} \ {} \subseteq R /\ Closed(Backwards(h), {}, R)
    BY <1>0, BackwardsIs, ReachHas
  <2> HIDE DEF R
  <2> QED
    BY <2>1 DEF Closed
<1>3. e[1] \in D
  BY <1>2
<1>4. ASSUME NEW x \in Backwards(h), x[1] \in D PROVE x[2] \in D
  <2> DEFINE y == <<x[2], x[1]>>
  <2>1. x[1] # h /\ x[2] \in Live /\ y \in graphEdges /\ y[1] = x[2] /\ y[2] = x[1]
    BY BackwardsIs
  <2> HIDE DEF y, R
  <2>2. y[2] \in T \cap (C \ {e[2]})
    BY <1>1, <1>4, <2>1
  <2>3. y[1] # h => y[1] \in T
    BY <2>1, <2>2
  <2> QED
    BY <1>2, <1>4, <2>1, <2>3
<1>5. R \subseteq D
  <2> HIDE DEF D, h
  <2> QED
    BY <1>0, <1>3, <1>4, BackwardsIs, ReachLeast
<1> QED
  BY <1>1, <1>5

LEMMA FlowFrame ==
  ASSUME Preheaders, Flow, UNCHANGED <<ech, bbOrder, preHeader, graphEdges, domVect>>
  PROVE  /\ Preheaders' /\ Flow' /\ Live' = Live /\ backEdges' = backEdges /\ Fronted' = Fronted
         /\ \A d, b : Dominates(d, b)' = Dominates(d, b)
         /\ \A b : Labels(b)' = Labels(b)
<1>1. Live' = Live /\ backEdges' = backEdges
  BY DEF Live, backEdges
<1>2. Fronted' = Fronted
  BY DEF Fronted
<1>3. \A d, b : Dominates(d, b)' = Dominates(d, b)
  BY DEF Dominates, From0
<1>4. Preheaders'
  BY <1>2 DEF Preheaders
<1>5. Flow'
  BY <1>2 DEF Flow, Dominators
<1>6. \A b : Labels(b)' = Labels(b)
  BY DEF Labels
<1> QED
  BY <1>1, <1>2, <1>3, <1>4, <1>5, <1>6

\* The regions as they are found.
LEMMA RegionsFound ==
  ASSUME LoopInv, createLoopRegions
  PROVE  (Entered /\ Region /\ Merged /\ Loops /\ Left)'
<1> DEFINE heads == {x[2] : x \in backEdges}
           Reg(h) == UNION {createLoop(x[1], h) : x \in {y \in backEdges : y[2] = h}}
<1>0. Preheaders /\ Flow /\ Entered /\ pc = "regions"
  BY DEF LoopInv, createLoopRegions
<1>1. /\ regBlocks' = [h \in heads |-> Reg(h)]
      /\ containsLoops' = [h \in heads |-> 0]
      /\ exits' = [h \in heads |-> {}]
      /\ todo' = heads
      /\ pc' = IF heads = {} THEN "done" ELSE "merge"
      /\ UNCHANGED <<ech, bbOrder, preHeader, graphEdges, domVect>>
  BY DEF createLoopRegions, flowVars
<1>2. /\ Preheaders' /\ Flow' /\ Live' = Live /\ backEdges' = backEdges /\ Fronted' = Fronted
      /\ \A d, b : Dominates(d, b)' = Dominates(d, b)
  BY <1>0, <1>1, FlowFrame
<1>3. Regions' = heads
  BY <1>1 DEF Regions
<1>4. heads \subseteq DOMAIN ech
  BY <1>0, BackEdgeIs
<1>5. ASSUME NEW h \in heads
      PROVE  /\ \A e \in backEdges : e[2] = h => createLoop(e[1], e[2]) \subseteq Reg(h)
             /\ \E e \in backEdges : e[2] = h
             /\ \A b \in Reg(h) : \E e \in backEdges : e[2] = h /\ b \in createLoop(e[1], e[2])
  OBVIOUS
<1> HIDE DEF heads, Reg
<1>6. ASSUME NEW h \in heads
      PROVE  /\ h \in Reg(h) /\ Reg(h) \in SUBSET (DOMAIN ech \ {N - 1})
             /\ \A b \in Reg(h) : Dominates(h, b)
             /\ \A g \in Fronted : N + g \in Reg(h) /\ h # N + g => g \in Reg(h)
             /\ Reg(h) \ {h} \subseteq Live
             /\ \A e \in backEdges : e[2] = h => e[1] \in Reg(h)
  BY <1>0, <1>5, LoopIs
<1>7. ASSUME NEW h \in heads, NEW x \in graphEdges \ backEdges,
             x[2] \in Reg(h) \ {h}, x[1] \in Live
      PROVE  x[1] \in Reg(h)
  <2>1. PICK e \in backEdges : e[2] = h /\ x[2] \in createLoop(e[1], e[2])
    BY <1>5, <1>7
  <2>2. x[1] \in createLoop(e[1], e[2])
    BY <1>0, <1>7, <2>1, LoopIs
  <2> QED
    BY <1>5, <2>1, <2>2
<1>8. ASSUME NEW h \in heads, NEW T \in SUBSET Blocks,
             \A x \in backEdges : x[2] = h => x[1] \in T \cup {h},
             \A x \in graphEdges :
               x[2] \in T \cap (Reg(h) \ {h}) /\ x[1] \in Live \ {h} => x[1] \in T
      PROVE  Reg(h) \subseteq T \cup {h}
  <2> SUFFICES ASSUME NEW b \in Reg(h) PROVE b \in T \cup {h}
    OBVIOUS
  <2>1. PICK e \in backEdges : e[2] = h /\ b \in createLoop(e[1], e[2])
    BY <1>5
  <2>2. createLoop(e[1], e[2]) \subseteq Reg(h)
    BY <1>5, <2>1
  <2>3. createLoop(e[1], e[2]) \subseteq T \cup {e[2]}
    BY <1>0, <1>8, <2>1, <2>2, LoopLeast
  <2> QED
    BY <2>1, <2>3
<1>9. Entered'
  <2>1. Heads = heads /\ Heads' = heads
    BY <1>0, <1>1, <1>3 DEF Heads, heads
  <2> QED
    BY <1>0, <1>2, <2>1 DEF Entered
<1>10. Region'
  <2>1. regBlocks' \in [heads -> SUBSET (DOMAIN ech \ {N - 1})] /\ containsLoops' \in [heads -> Nat]
    BY <1>1, <1>6
  <2>2. \A h \in heads : regBlocks'[h] = Reg(h)
    BY <1>1
  <2> QED
    BY <1>1, <1>2, <1>3, <1>4, <1>6, <2>1, <2>2 DEF Region
<1>11. Merged'
  BY <1>1, <1>3 DEF Merged
<1>12. Loops'
  <2>1. \A h \in heads : regBlocks'[h] = Reg(h)
    BY <1>1
  <2>2. pc' # "exits" /\ graphEdges' = graphEdges
    BY <1>1
  <2>3. heads = {x[2] : x \in backEdges}
    BY DEF heads
  <2>4. \A x \in backEdges : x[1] \in regBlocks'[x[2]]
    BY <1>6, <2>1, <2>3
  <2> QED
    BY <1>2, <1>3, <1>6, <1>7, <1>8, <2>1, <2>2, <2>3, <2>4 DEF Loops
<1>13. Left'
  BY <1>1, <1>3 DEF Left
<1> QED
  BY <1>9, <1>10, <1>11, <1>12, <1>13

-----------------------------------------------------------------------------
(* mergeInnerLoops.                                                        *)

Outer(h) == {r \in Regions \ {h} : h \in regBlocks[r]}

\* A region inside another does not have its entry.
LEMMA InsideOneWay ==
  ASSUME Preheaders, Flow, Region, Loops, pc \in {"merge", "exits"},
         NEW h \in Regions, NEW r \in Regions, h \in regBlocks[r], r \in regBlocks[h]
  PROVE  r = h
<1> SUFFICES ASSUME r # h PROVE FALSE
  OBVIOUS
<1>1. h \in Live /\ Dominates(r, h) /\ Dominates(h, r)
  BY DEF Region, Loops
<1> QED
  BY <1>1, FlowIs, DominatesOneWay DEF Dominates

LEMMA RegionsMerged ==
  ASSUME LoopInv, NEW h \in Regions, mergeInnerLoops(h)
  PROVE  (Entered /\ Region /\ Merged /\ Loops /\ Left)'
<1>0. Preheaders /\ Flow /\ Entered /\ Region /\ Merged /\ Loops /\ pc = "merge" /\ h \in todo
  BY DEF LoopInv, mergeInnerLoops
<1>1. /\ regBlocks' = [r \in Regions |->
                         IF r \in Outer(h) THEN regBlocks[r] \cup regBlocks[h] ELSE regBlocks[r]]
      /\ containsLoops' = [r \in Regions |->
                             containsLoops[r] + IF r \in Outer(h) THEN containsLoops[h] + 1 ELSE 0]
      /\ todo' = todo \ {h}
      /\ pc' = IF todo' = {} THEN "exits" ELSE pc
      /\ UNCHANGED <<ech, bbOrder, preHeader, graphEdges, domVect, exits>>
  BY DEF mergeInnerLoops, flowVars, Outer
<1>2. /\ Preheaders' /\ Flow' /\ Live' = Live /\ backEdges' = backEdges /\ Fronted' = Fronted
      /\ \A d, b : Dominates(d, b)' = Dominates(d, b)
      /\ graphEdges' = graphEdges
  BY <1>0, <1>1, FlowFrame
<1>3. Regions' = Regions /\ pc' \in {"merge", "exits"}
  BY <1>0, <1>1 DEF Regions
<1>4. \A r \in Regions :
        /\ regBlocks[r] \subseteq regBlocks'[r]
        /\ r \in Outer(h) => regBlocks'[r] = regBlocks[r] \cup regBlocks[h]
        /\ r \notin Outer(h) => regBlocks'[r] = regBlocks[r]
  BY <1>1
<1>5. \A r \in Outer(h) : r \in Regions /\ r # h /\ h \in regBlocks[r] /\ r \notin regBlocks[h]
  BY <1>0, InsideOneWay DEF Outer
<1>6. h \notin Outer(h) /\ \A r \in Regions : r # h /\ h \in regBlocks[r] => r \in Outer(h)
  BY DEF Outer
<1>7. Entered'
  BY <1>0, <1>2, <1>3 DEF Entered, Heads
<1>8. Region'
  <2>1. /\ regBlocks' \in [Regions -> SUBSET (DOMAIN ech \ {N - 1})]
        /\ containsLoops' \in [Regions -> Nat]
    BY <1>0, <1>1 DEF Region
  <2>2. ASSUME NEW r \in Regions, NEW b \in regBlocks'[r] PROVE Dominates(r, b)
    <3>1. CASE b \in regBlocks[r]
      BY <1>0, <3>1 DEF Region
    <3>2. CASE b \notin regBlocks[r]
      <4>1. r \in Outer(h) /\ b \in regBlocks[h]
        BY <1>4, <2>2, <3>2
      <4>2. Dominates(r, h) /\ Dominates(h, b)
        BY <1>0, <1>5, <4>1 DEF Region
      <4> QED
        BY <1>0, <4>2, DominatesOn
    <3> QED
      BY <3>1, <3>2
  <2>3. ASSUME NEW r \in Regions, NEW g \in Fronted, N + g \in regBlocks'[r], r # N + g
        PROVE  g \in regBlocks'[r]
    <3>1. CASE N + g \in regBlocks[r]
      BY <1>0, <1>4, <2>3, <3>1 DEF Region
    <3>2. CASE N + g \notin regBlocks[r]
      <4>1. r \in Outer(h) /\ N + g \in regBlocks[h]
        BY <1>4, <2>3, <3>2
      <4>2. h # N + g
        BY <1>5, <3>2, <4>1
      <4> QED
        BY <1>0, <1>4, <4>1, <4>2 DEF Region
    <3> QED
      BY <3>1, <3>2
  <2>4. \A r \in Regions : r \in regBlocks'[r]
    BY <1>0, <1>4 DEF Region
  <2>5. Regions \subseteq DOMAIN ech' /\ todo' \subseteq Regions /\ ech' = ech
    BY <1>0, <1>1 DEF Region
  <2> QED
    BY <1>2, <1>3, <2>1, <2>2, <2>3, <2>4, <2>5 DEF Region
<1>9. Merged'
  <2> SUFFICES ASSUME NEW g \in Regions, NEW r \in Regions, g \in regBlocks'[r],
                      g \notin todo \/ g = h
               PROVE  /\ regBlocks'[g] \subseteq regBlocks'[r]
                      /\ g # r => containsLoops'[g] < containsLoops'[r]
    BY <1>0, <1>1, <1>3 DEF Merged
  <2>0. \A x, y \in Regions :
          x \in regBlocks[y] /\ x \notin todo =>
            regBlocks[x] \subseteq regBlocks[y] /\ (x # y => containsLoops[x] < containsLoops[y])
    BY <1>0 DEF Merged
  <2>1. /\ \A x \in Regions : containsLoops[x] \in Nat
        /\ \A x \in Outer(h) : containsLoops'[x] = containsLoops[x] + (containsLoops[h] + 1)
        /\ \A x \in Regions \ Outer(h) : containsLoops'[x] = containsLoops[x]
    <3>1. \A x \in Regions : containsLoops[x] \in Nat
      BY <1>0 DEF Region
    <3>2. \A x \in Regions :
            containsLoops'[x] = containsLoops[x] + IF x \in Outer(h) THEN containsLoops[h] + 1 ELSE 0
      BY <1>1
    <3>3. \A x \in Outer(h) : x \in Regions
      BY <1>5
    <3> QED
      BY <3>1, <3>2, <3>3
  <2>2. CASE g = r
    BY <2>2
  <2>3. CASE g = h /\ g # r
    <3>1. r \in Outer(h)
      BY <1>4, <1>6, <2>3
    <3> QED
      BY <1>4, <1>6, <2>1, <2>3, <3>1
  <2>4. CASE g # h /\ g # r /\ g \in regBlocks[r]
    <3>1. regBlocks[g] \subseteq regBlocks[r] /\ containsLoops[g] < containsLoops[r]
      BY <2>0, <2>4
    <3>2. CASE g \in Outer(h)
      <4>1. h \in regBlocks[g] /\ h \in regBlocks[r]
        BY <1>5, <3>1, <3>2
      <4>2. r # h
        BY <1>5, <2>4, <3>2
      <4>3. r \in Outer(h)
        BY <1>6, <4>1, <4>2
      <4> QED
        BY <1>4, <2>1, <3>1, <3>2, <4>3
    <3>3. CASE g \notin Outer(h)
      BY <1>4, <2>1, <3>1, <3>3
    <3> QED
      BY <3>2, <3>3
  <2>5. CASE g # h /\ g # r /\ g \notin regBlocks[r]
    <3>1. r \in Outer(h) /\ g \in regBlocks[h]
      BY <1>4, <2>5
    <3>2. regBlocks[g] \subseteq regBlocks[h] /\ containsLoops[g] < containsLoops[h]
      BY <2>0, <2>5, <3>1
    <3>3. g \notin Outer(h)
      BY <1>5, <3>1
    <3> QED
      BY <1>4, <2>1, <3>1, <3>2, <3>3
  <2> QED
    BY <2>2, <2>3, <2>4, <2>5
<1>10. Loops'
  <2>0. /\ Regions = {x[2] : x \in backEdges}
        /\ \A x \in backEdges : x[1] \in regBlocks[x[2]]
        /\ \A r \in Regions : regBlocks[r] \ {r} \subseteq Live
    BY <1>0 DEF Loops
  <2>1. \A x \in backEdges : x[2] \in Regions /\ x[1] \in regBlocks'[x[2]]
    BY <1>4, <2>0
  <2>2. \A r \in Regions : regBlocks'[r] \ {r} \subseteq Live
    BY <1>4, <1>5, <2>0
  <2>3. ASSUME NEW r \in Regions, NEW x \in graphEdges \ backEdges,
               x[2] \in regBlocks'[r] \ {r}, x[1] \in Live
        PROVE  x[1] \in regBlocks'[r]
    <3>0. \A q \in Regions : x[2] \in regBlocks[q] \ {q} => x[1] \in regBlocks[q]
      BY <1>0, <2>3 DEF Loops
    <3>1. CASE x[2] \in regBlocks[r]
      BY <1>4, <2>3, <3>0, <3>1
    <3>2. CASE x[2] \notin regBlocks[r]
      <4>1. r \in Outer(h) /\ x[2] \in regBlocks[h] /\ x[2] # h
        BY <1>4, <1>5, <2>3, <3>2
      <4> QED
        BY <1>4, <3>0, <4>1
    <3> QED
      BY <3>1, <3>2
  <2>4. ASSUME NEW r \in Regions, NEW T \in SUBSET Blocks,
               \A x \in backEdges : x[2] = r => x[1] \in T \cup {r},
               \A x \in graphEdges :
                 x[2] \in T \cap (regBlocks'[r] \ {r}) /\ x[1] \in Live \ {r} => x[1] \in T
        PROVE  regBlocks'[r] \subseteq T \cup {r}
    <3>1. regBlocks[r] \subseteq T \cup {r}
      <4>1. \A x \in graphEdges :
              x[2] \in T \cap (regBlocks[r] \ {r}) /\ x[1] \in Live \ {r} => x[1] \in T
        BY <1>4, <2>4
      <4> QED
        BY <1>0, <2>4, <4>1 DEF Loops
    <3>2. CASE r \notin Outer(h)
      BY <1>4, <3>1, <3>2
    <3>3. CASE r \in Outer(h)
      <4>1. h \in T /\ h # r /\ r \notin regBlocks[h] /\ regBlocks'[r] = regBlocks[r] \cup regBlocks[h]
        BY <1>4, <1>5, <3>1, <3>3
      <4>2. \A x \in backEdges : x[2] = h => x[1] \in T \cup {h}
        <5> TAKE x \in backEdges
        <5> HAVE x[2] = h
        <5>1. x[1] \in regBlocks[h] /\ x \in graphEdges
          BY <2>0, <1>0, BackEdgeIs
        <5>2. x[1] = h \/ x[1] \in Live \ {r}
          BY <2>0, <4>1, <5>1
        <5>3. x[2] \in T \cap (regBlocks'[r] \ {r})
          BY <1>5, <3>3, <4>1
        <5> QED
          BY <2>4, <5>1, <5>2, <5>3
      <4>3. \A x \in graphEdges :
              x[2] \in T \cap (regBlocks[h] \ {h}) /\ x[1] \in Live \ {h} => x[1] \in T
        <5> TAKE x \in graphEdges
        <5> HAVE x[2] \in T \cap (regBlocks[h] \ {h}) /\ x[1] \in Live \ {h}
        <5>1. x[1] # r
          <6>1. Dominates(h, x[2])
            BY <1>0 DEF Region
          <6>2. Dominates(h, x[1])
            BY <1>0, <6>1, EntersThrough
          <6>3. Dominates(r, h) /\ h \in Live
            BY <1>0, <1>5, <2>0, <3>3 DEF Region
          <6>4. x[1] = r => r = h
            BY <1>0, <6>2, <6>3, FlowIs, DominatesOneWay DEF Dominates
          <6> QED
            BY <4>1, <6>4
        <5>2. x[2] \in T \cap (regBlocks'[r] \ {r})
          BY <4>1
        <5> QED
          BY <2>4, <5>1, <5>2
      <4>4. regBlocks[h] \subseteq T \cup {h}
        BY <1>0, <2>4, <4>2, <4>3 DEF Loops
      <4> QED
        BY <3>1, <4>1, <4>4
    <3> QED
      BY <3>2, <3>3
  <2>5. pc' = "exits" => todo' = {}
    BY <1>0, <1>1
  <2> QED
    BY <1>2, <1>3, <2>0, <2>1, <2>2, <2>3, <2>4, <2>5 DEF Loops
<1>11. Left'
  BY <1>3 DEF Left
<1> QED
  BY <1>7, <1>8, <1>9, <1>10, <1>11

-----------------------------------------------------------------------------
(* The passes that use the regions.                                        *)

LEMMA ExitsMarked ==
  ASSUME LoopInv, addToExitsMarkDepth
  PROVE  (Entered /\ Region /\ Merged /\ Loops /\ Left)'
<1>0. Preheaders /\ Flow /\ Entered /\ Region /\ Merged /\ pc = "exits" /\ pc' = "cse"
  BY DEF LoopInv, addToExitsMarkDepth
<1>1. /\ exits' = [r \in Regions |->
           {x[1] : x \in {y \in graphEdges : y[1] \in regBlocks[r] /\ y[2] \notin regBlocks[r]}}]
      /\ todo' = Regions
      /\ UNCHANGED <<ech, bbOrder, preHeader, graphEdges, domVect, regBlocks, containsLoops>>
  BY DEF addToExitsMarkDepth, flowVars
<1>2. /\ Preheaders' /\ Flow' /\ Fronted' = Fronted /\ Regions' = Regions
      /\ \A d, b : Dominates(d, b)' = Dominates(d, b)
  BY <1>0, <1>1, FlowFrame DEF Regions
<1>3. Entered'
  BY <1>0, <1>2 DEF Entered, Heads
<1>4. Region'
  BY <1>0, <1>1, <1>2 DEF Region
<1>5. Merged'
  BY <1>0, <1>1, <1>2 DEF Merged
<1>6. Loops'
  BY <1>0 DEF Loops
<1>7. Left'
  <2>1. \A x \in graphEdges : x[1] \in Blocks
    BY <1>0, FlowIs
  <2>2. exits' \in [Regions -> SUBSET Blocks]
    BY <1>1, <2>1
  <2>3. \A h \in Regions : \A x \in graphEdges :
          x[1] \in regBlocks[h] /\ x[2] \notin regBlocks[h] => x[1] \in exits'[h]
    BY <1>1
  <2> QED
    BY <1>1, <1>2, <2>2, <2>3 DEF Left
<1> QED
  BY <1>3, <1>4, <1>5, <1>6, <1>7

\* A folded condition only takes edges away.
LEMMA FoldTakes ==
  ASSUME LoopInv, NEW b \in Blocks, FoldIfx(b)
  PROVE  Preheaders' /\ Flow' /\ graphEdges' \subseteq graphEdges /\ Fronted' = Fronted
<1>0. Preheaders /\ Flow /\ b \in Live
  BY DEF LoopInv, FoldIfx
<1>1. PICK e \in {Plain, [ech[b] EXCEPT !.op = "GOTO"]} :
        /\ ech' = [ech EXCEPT ![b] = e] /\ ech[b].op = "IFX"
        /\ graphEdges' = EdgesOf(ech', bbOrder)
        /\ domVect' = Dominators(graphEdges')
        /\ UNCHANGED <<bbOrder, preHeader>>
  BY DEF FoldIfx
<1>2. b \in DOMAIN ech /\ ech[b] \in [op : Leaves \cup {"PLAIN", "IFX"}, labels : Seq(DOMAIN ech)]
  BY <1>0, FlowIs DEF Preheaders
<1>3. /\ e \in [op : Leaves \cup {"PLAIN", "IFX"}, labels : Seq(DOMAIN ech)]
      /\ ToSet(e.labels) \subseteq ToSet(ech[b].labels)
      /\ ech[b].op \notin Leaves
  <2>1. CASE e = Plain
    BY <1>1, <2>1 DEF Plain, Leaves, ToSet
  <2>2. CASE e = [ech[b] EXCEPT !.op = "GOTO"]
    BY <1>1, <1>2, <2>2 DEF Leaves
  <2> QED
    BY <1>1, <2>1, <2>2
<1>4. /\ DOMAIN ech' = DOMAIN ech /\ ech'[b] = e
      /\ \A x \in DOMAIN ech \ {b} : ech'[x] = ech[x]
  BY <1>1, <1>2
<1>5. graphEdges' \subseteq graphEdges
  <2> SUFFICES ASSUME NEW p \in graphEdges' PROVE p \in graphEdges
    OBVIOUS
  <2> DEFINE x == p[1]
             y == p[2]
  <2>1. p = <<x, y>>
    BY <1>1, EdgesArePairs
  <2> HIDE DEF x, y
  <2>2. PICK k \in DOMAIN bbOrder :
          /\ x = bbOrder[k]
          /\ \/ y \in ToSet(ech'[x].labels)
             \/ ech'[x].op \notin Leaves /\ k # Len(bbOrder) /\ y = bbOrder[k + 1]
    <3>1. <<x, y>> \in EdgesOf(ech', bbOrder)
      BY <1>1, <2>1
    <3> QED
      BY <3>1, EdgeIs
  <2>3. x \in DOMAIN ech
    BY <1>0, <2>2 DEF Flow, ToSet
  <2>4. y \in ToSet(ech[x].labels) \/ (ech[x].op \notin Leaves /\ k # Len(bbOrder) /\ y = bbOrder[k + 1])
    BY <1>3, <1>4, <2>2, <2>3
  <2>5. <<x, y>> \in EdgesOf(ech, bbOrder)
    BY <2>2, <2>4, EdgeIs
  <2> QED
    BY <1>0, <2>1, <2>5 DEF Flow
<1>6. Fronted' = Fronted
  BY <1>1 DEF Fronted
<1>7. Preheaders'
  BY <1>0, <1>1, <1>3, <1>4, <1>6 DEF Preheaders
<1>8. Flow'
  BY <1>0, <1>1, <1>4, <1>5, <1>6 DEF Flow, Dominators
<1> QED
  BY <1>5, <1>6, <1>7, <1>8

LEMMA FoldKeeps ==
  ASSUME LoopInv, NEW b \in Blocks, FoldIfx(b)
  PROVE  (Entered /\ Region /\ Merged /\ Loops /\ Left)'
<1>0. /\ Preheaders /\ Flow /\ Entered /\ Region /\ Merged /\ Left /\ pc = "cse" /\ pc' = "cse"
      /\ UNCHANGED <<bbOrder, regBlocks, containsLoops, exits, todo>>
  BY DEF LoopInv, FoldIfx, regionVars
<1>1. /\ Preheaders' /\ Flow' /\ graphEdges' \subseteq graphEdges /\ Fronted' = Fronted
  BY FoldTakes
<1>2. \A d, x : Dominates(d, x) => Dominates(d, x)'
  <2>1. ASSUME NEW d PROVE From0(graphEdges', {d}) \subseteq From0(graphEdges, {d})
    <3>1. {0} \in SUBSET Blocks /\ graphEdges \in SUBSET (Blocks \X Blocks)
      BY <1>0, FlowIs, BlocksFinite
    <3> QED
      BY <1>1, <3>1, ReachShrinks DEF From0
  <2> QED
    BY <2>1 DEF Dominates, From0
<1>3. Regions' = Regions
  BY <1>0 DEF Regions
<1>4. DOMAIN ech' = DOMAIN ech
  BY <1>0, <1>1 DEF Flow
<1>5. Entered'
  BY <1>0, <1>1, <1>2, <1>3 DEF Entered, Heads
<1>6. Region'
  BY <1>0, <1>1, <1>2, <1>3, <1>4 DEF Region
<1>7. Merged' /\ Loops'
  BY <1>0, <1>3 DEF Merged, Loops
<1>8. Left'
  BY <1>0, <1>1, <1>3 DEF Left
<1> QED
  BY <1>5, <1>6, <1>7, <1>8

LEMMA RegionsFrame ==
  ASSUME Preheaders, Flow, Entered, Region, Merged, Loops, Left,
         pc \in {"cse", "loops"}, pc' \in {"loops", "done"}, todo' \subseteq todo,
         UNCHANGED <<ech, bbOrder, preHeader, graphEdges, domVect, regBlocks, containsLoops, exits>>
  PROVE  Preheaders' /\ Flow' /\ (Entered /\ Region /\ Merged /\ Loops /\ Left)'
<1>1. /\ Preheaders' /\ Flow' /\ Fronted' = Fronted /\ Regions' = Regions
      /\ \A d, b : Dominates(d, b)' = Dominates(d, b)
  BY FlowFrame DEF Regions
<1>2. Entered'
  BY <1>1 DEF Entered, Heads
<1>3. Region'
  BY <1>1 DEF Region
<1>4. Merged' /\ Loops' /\ Left'
  BY <1>1 DEF Merged, Loops, Left
<1> QED
  BY <1>1, <1>2, <1>3, <1>4

\* What is moved in front of a loop has its preheader before it, and from there
\* control stays in the loop until it comes to where the instruction was.
LEMMA MovedOn ==
  ASSUME Preheaders, Flow, Entered, Region, Merged, Left, Moved, pc = "loops",
         ~JumpsBehind, instr # None, NEW h \in Regions, MayMove(h)
  PROVE  /\ h \in Fronted /\ preHeader[h] = N + h
         /\ Dominates(N + h, instr)
         /\ Reach(graphEdges, {h}, {instr}) \subseteq regBlocks[h]
<1>0. /\ preHeader[h] # None /\ place \in regBlocks[h]
      /\ \A x \in exits[h] : place \in domVect[x]
      /\ instr \in Live /\ Dominates(place, instr)
      /\ graphEdges \in SUBSET (Blocks \X Blocks) /\ Live = From0(graphEdges, {})
      /\ Live \subseteq DOMAIN ech /\ DOMAIN ech \subseteq Blocks /\ 0 \in Live
  BY FlowIs, NamesAre DEF MayMove, Moved
<1>1. h \in Fronted /\ preHeader[h] = N + h /\ h \in 0 .. N - 1 /\ h \in Blocks
  <2>1. h \in Blocks
    BY <1>0 DEF Region
  <2>2. h < N
    BY <1>0, <2>1, BlocksFinite DEF Preheaders
  <2> QED
    BY <1>0, <2>1, <2>2, BlocksFinite, NamesAre DEF Fronted
<1>2. Dominates(N + h, h) /\ Dominates(h, place)
  BY <1>0, <1>1 DEF Entered, Heads, Region
<1>3. Dominates(N + h, place) /\ Dominates(N + h, instr) /\ Dominates(h, instr)
  BY <1>0, <1>2, DominatesOn
<1>4. place \in Live /\ h \in Live
  BY <1>0, <1>3, DominatorLive DEF Dominates
<1>5. ASSUME NEW x \in graphEdges, x[1] \in regBlocks[h], x[1] \in From0(graphEdges, {place})
      PROVE  x[2] \in regBlocks[h]
  <2> SUFFICES ASSUME x[2] \notin regBlocks[h] PROVE FALSE
    OBVIOUS
  <2>1. place \in domVect[x[1]]
    BY <1>0, <1>5 DEF Left
  <2>2. x[1] \in DOMAIN ech
    BY DEF Flow
  <2>3. x[1] # place
    BY <1>0, <1>5, From0Has
  <2>4. Dominates(place, x[1])
    BY <2>1, <2>2, <2>3, FlowIs
  <2> QED
    BY <1>5, <2>4 DEF Dominates
<1>6. h # place => h \in From0(graphEdges, {place})
  BY <1>0, <1>2, <1>4, DominatesOneWay DEF Dominates
<1>7. /\ From0(graphEdges, {place}) \cap {place} = {}
      /\ \A x \in graphEdges : x[1] \in From0(graphEdges, {place}) /\ x[2] # place
                                 => x[2] \in From0(graphEdges, {place})
  BY <1>0, From0Has
<1>8. ASSUME NEW C, {h} \ {instr} \subseteq C,
             \A x \in graphEdges : x[1] \in C /\ x[2] # instr => x[2] \in C
      PROVE  Reach(graphEdges, {h}, {instr}) \subseteq C
  BY <1>0, <1>1, <1>8, ReachLeast
<1>9. h \in regBlocks[h]
  BY DEF Region
<1>10. CASE place = instr
  <2> DEFINE C == From0(graphEdges, {instr}) \cap regBlocks[h]
  <2>1. {h} \ {instr} \subseteq C
    BY <1>6, <1>9, <1>10
  <2>2. \A x \in graphEdges : x[1] \in C /\ x[2] # instr => x[2] \in C
    BY <1>5, <1>7, <1>10
  <2> HIDE DEF C
  <2>3. Reach(graphEdges, {h}, {instr}) \subseteq C
    BY <1>8, <2>1, <2>2
  <2> QED
    BY <1>1, <1>3, <2>3 DEF C
<1>11. CASE place # instr
  <2>1. PICK g \in Regions \cap Fronted :
          place = N + g /\ Reach(graphEdges, {g}, {instr}) \subseteq regBlocks[g]
    BY <1>0, <1>11 DEF Moved
  <2> DEFINE Q == Reach(graphEdges, {g}, {instr})
             C == (From0(graphEdges, {place}) \cap regBlocks[h]) \cup {place} \cup Q
  <2>2. g \in 0 .. N - 1 /\ g \in Blocks /\ N \in Nat
    BY NamesAre, BlocksFinite
  <2>3. h # place
    BY <1>1, <2>1, <2>2
  <2>4. g \in regBlocks[h]
    BY <1>0, <2>1, <2>3 DEF Region
  <2>5. regBlocks[g] \subseteq regBlocks[h]
    BY <2>1, <2>4 DEF Merged
  <2>6. /\ {g} \ {instr} \subseteq Q
        /\ \A x \in graphEdges : x[1] \in Q /\ x[2] # instr => x[2] \in Q
    <3>1. {g} \in SUBSET Blocks
      BY <2>2
    <3>2. {g} \ {instr} \subseteq Q /\ Closed(graphEdges, {instr}, Q)
      BY <1>0, <3>1, ReachHas
    <3> HIDE DEF Q
    <3> QED
      BY <3>2 DEF Closed
  <2> HIDE DEF Q
  <2>7. {h} \ {instr} \subseteq C
    BY <1>6, <1>9, <2>3
  <2>8. \A x \in graphEdges : x[1] \in C /\ x[2] # instr => x[2] \in C
    <3> TAKE x \in graphEdges
    <3> HAVE x[1] \in C /\ x[2] # instr
    <3>1. CASE x[1] \in From0(graphEdges, {place}) \cap regBlocks[h]
      BY <1>5, <1>7, <3>1
    <3>2. CASE x[1] = place
      <4>1. x[2] = g
        BY <2>1, <3>2 DEF Flow
      <4> QED
        BY <2>6, <4>1
    <3>3. CASE x[1] \in Q
      BY <2>6, <3>3
    <3> QED
      BY <3>1, <3>2, <3>3
  <2>9. C \subseteq regBlocks[h]
    BY <1>0, <2>1, <2>5 DEF Q
  <2> HIDE DEF C
  <2>10. Reach(graphEdges, {h}, {instr}) \subseteq C
    BY <1>8, <2>7, <2>8
  <2> QED
    BY <1>1, <1>3, <2>9, <2>10
<1> QED
  BY <1>10, <1>11

LEMMA ConsideredFrom ==
  ASSUME LoopInv, loopOptimizations PROVE LoopInv'
<1>0. /\ Preheaders /\ Flow /\ Entered /\ Region /\ Merged /\ Loops /\ Left
      /\ pc = "cse" /\ pc' = "loops" /\ instr' \in Live \cap 0 .. N - 2 /\ place' = instr'
      /\ UNCHANGED <<ech, bbOrder, preHeader, graphEdges, domVect, regBlocks, containsLoops,
                     exits, todo>>
      /\ bbOrder \in Seq(DOMAIN ech)
  BY DEF LoopInv, loopOptimizations, flowVars, regionVars
<1>1. Preheaders' /\ Flow' /\ (Entered /\ Region /\ Merged /\ Loops /\ Left)'
  BY <1>0, RegionsFrame
<1>2. Live' = Live /\ \A d, b : Dominates(d, b)' = Dominates(d, b)
  BY <1>0, FlowFrame
<1>3. Moved'
  <2>1. instr' # None
    BY <1>0, BlocksFinite DEF None
  <2>2. Dominates(instr', instr')
    BY <1>0, DominatesItself
  <2> QED
    BY <1>0, <1>2, <2>1, <2>2 DEF Moved
<1> QED
  BY <1>0, <1>1, <1>3 DEF LoopInv

LEMMA InvariantMoves ==
  ASSUME LoopInv, NEW h \in Regions, loopInvariants(h) PROVE LoopInv'
<1>0. /\ Preheaders /\ Flow /\ Entered /\ Region /\ Merged /\ Loops /\ Left /\ Moved
      /\ pc = "loops" /\ pc' \in {"loops", "done"} /\ todo' \subseteq todo
      /\ UNCHANGED <<ech, bbOrder, preHeader, graphEdges, domVect, regBlocks, containsLoops,
                     exits, instr>>
      /\ UNCHANGED place \/ (MayMove(h) /\ place' = preHeader[h])
      /\ bbOrder \in Seq(DOMAIN ech)
  BY DEF LoopInv, loopInvariants, flowVars, regionVars
<1>1. Preheaders' /\ Flow' /\ (Entered /\ Region /\ Merged /\ Loops /\ Left)'
  BY <1>0, RegionsFrame
<1>2. /\ Live' = Live /\ Fronted' = Fronted /\ Regions' = Regions
      /\ \A d, b : Dominates(d, b)' = Dominates(d, b)
  BY <1>0, FlowFrame DEF Regions
<1>3. \A g : Reach(graphEdges, {g}, {instr})' = Reach(graphEdges, {g}, {instr})
  BY <1>0
<1>4. Moved'
  <2>1. CASE UNCHANGED place
    BY <1>0, <1>2, <1>3, <2>1 DEF Moved
  <2>2. CASE MayMove(h) /\ place' = preHeader[h]
    <3>1. instr = None => place \notin regBlocks[h]
      <4>1. None \notin Blocks
        BY BlocksFinite DEF None
      <4>2. regBlocks[h] \subseteq Blocks
        BY <1>0, NamesAre DEF Region
      <4> QED
        BY <1>0, <4>1, <4>2 DEF Moved
    <3>2. instr # None
      BY <2>2, <3>1 DEF MayMove
    <3>3. ~JumpsBehind =>
            /\ h \in Fronted /\ preHeader[h] = N + h /\ Dominates(N + h, instr)
            /\ Reach(graphEdges, {h}, {instr}) \subseteq regBlocks[h]
      BY <1>0, <2>2, <3>2, MovedOn
    <3> QED
      BY <1>0, <1>2, <1>3, <2>2, <3>2, <3>3 DEF Moved
  <2> QED
    BY <1>0, <2>1, <2>2
<1> QED
  BY <1>0, <1>1, <1>4 DEF LoopInv

-----------------------------------------------------------------------------
(* The properties.                                                         *)

\* Every block of a merged region leads back to its entry without passing it.
LEMMA LeadsBack ==
  ASSUME LoopInv, pc = "exits", NEW h \in Regions, NEW b \in regBlocks[h] \ {h}
  PROVE  \E e \in backEdges : e[2] = h /\ e[1] \in Reach(graphEdges, {b}, {h})
<1> DEFINE T == {y \in Blocks \ {h} :
                   \E e \in backEdges : e[2] = h /\ e[1] \in Reach(graphEdges, {y}, {h})}
<1>0. /\ Preheaders /\ Flow /\ Region /\ Loops /\ graphEdges \in SUBSET (Blocks \X Blocks)
      /\ Live \subseteq Blocks
  BY FlowIs, NamesAre DEF LoopInv
<1>1. ASSUME NEW y \in Blocks \ {h}
      PROVE  /\ y \in Reach(graphEdges, {y}, {h})
             /\ \A z \in Blocks : <<y, z>> \in graphEdges /\ z # h =>
                  Reach(graphEdges, {z}, {h}) \subseteq Reach(graphEdges, {y}, {h})
  <2>1. {y} \in SUBSET Blocks /\ {y} \ {h} = {y}
    OBVIOUS
  <2>2. /\ y \in Reach(graphEdges, {y}, {h})
        /\ \A x \in graphEdges : x[1] \in Reach(graphEdges, {y}, {h}) /\ x[2] # h =>
             x[2] \in Reach(graphEdges, {y}, {h})
    <3>1. /\ {y} \ {h} \subseteq Reach(graphEdges, {y}, {h})
          /\ Closed(graphEdges, {h}, Reach(graphEdges, {y}, {h}))
      BY <1>0, <2>1, ReachHas
    <3> QED
      BY <2>1, <3>1 DEF Closed
  <2>3. ASSUME NEW z \in Blocks, <<y, z>> \in graphEdges, z # h
        PROVE  Reach(graphEdges, {z}, {h}) \subseteq Reach(graphEdges, {y}, {h})
    <3> DEFINE C == Reach(graphEdges, {y}, {h})
    <3>1. {z} \in SUBSET Blocks /\ {z} \ {h} \subseteq C
      BY <2>2, <2>3
    <3>2. \A x \in graphEdges : x[1] \in C /\ x[2] \notin {h} => x[2] \in C
      BY <2>2
    <3> HIDE DEF C
    <3>3. Reach(graphEdges, {z}, {h}) \subseteq C
      BY <1>0, <3>1, <3>2, ReachLeast
    <3> QED
      BY <3>3 DEF C
  <2> QED
    BY <2>2, <2>3
<1>2. \A e \in backEdges : e[2] = h => e[1] \in T \cup {h}
  <2> TAKE e \in backEdges
  <2> HAVE e[2] = h
  <2>1. e[1] \in Blocks
    BY <1>0, BackEdgeIs, NamesAre
  <2> QED
    BY <1>1, <2>1
<1>3. \A x \in graphEdges : x[2] \in T \cap (regBlocks[h] \ {h}) /\ x[1] \in Live \ {h} => x[1] \in T
  <2> TAKE x \in graphEdges
  <2> HAVE x[2] \in T \cap (regBlocks[h] \ {h}) /\ x[1] \in Live \ {h}
  <2>1. PICK e \in backEdges : e[2] = h /\ e[1] \in Reach(graphEdges, {x[2]}, {h})
    OBVIOUS
  <2>2. <<x[1], x[2]>> \in graphEdges /\ x[2] \in Blocks /\ x[1] \in Blocks
    BY <1>0
  <2>3. Reach(graphEdges, {x[2]}, {h}) \subseteq Reach(graphEdges, {x[1]}, {h})
    BY <1>1, <2>2
  <2> QED
    BY <2>1, <2>2, <2>3
<1>4. T \in SUBSET Blocks
  OBVIOUS
<1> HIDE DEF T
<1>5. regBlocks[h] \subseteq T \cup {h}
  BY <1>0, <1>2, <1>3, <1>4 DEF Loops
<1> QED
  BY <1>5 DEF T

\* Every block that control comes back from is in the region.
LEMMA LoopInRegion ==
  ASSUME LoopInv, pc = "exits", NEW h \in Regions, NEW b \in Live,
         NEW e \in backEdges, e[2] = h, e[1] \in Reach(graphEdges, {b}, {h})
  PROVE  b \in regBlocks[h]
<1> DEFINE C == Live \ regBlocks[h]
<1> SUFFICES ASSUME b \notin regBlocks[h] PROVE FALSE
  OBVIOUS
<1>0. /\ Preheaders /\ Flow /\ Region /\ Merged /\ Loops
      /\ graphEdges \in SUBSET (Blocks \X Blocks) /\ Live = From0(graphEdges, {})
      /\ {b} \in SUBSET Blocks
  BY FlowIs, NamesAre DEF LoopInv
<1>1. {b} \ {h} \subseteq C
  OBVIOUS
<1>2. ASSUME NEW x \in graphEdges, x[1] \in C, x[2] # h PROVE x[2] \in C
  <2>1. x[2] \in Live
    BY <1>0, <1>2, From0Has
  <2>2. x[2] \notin regBlocks[h]
    <3> SUFFICES ASSUME x[2] \in regBlocks[h] PROVE FALSE
      OBVIOUS
    <3>1. x \in backEdges
      BY <1>0, <1>2 DEF Loops
    <3>2. x[2] \in Regions /\ x[1] \in regBlocks[x[2]]
      BY <1>0, <3>1 DEF Loops
    <3>3. regBlocks[x[2]] \subseteq regBlocks[h]
      BY <1>0, <3>2 DEF Merged
    <3> QED
      BY <1>2, <3>2, <3>3
  <2> QED
    BY <2>1, <2>2
<1> HIDE DEF C
<1>3. Reach(graphEdges, {b}, {h}) \subseteq C
  BY <1>0, <1>1, <1>2, ReachLeast
<1>4. e[1] \in regBlocks[h]
  BY <1>0 DEF Loops
<1> QED
  BY <1>3, <1>4 DEF C

LEMMA Nested == LoopInv => RegionsNested
<1> SUFFICES ASSUME LoopInv, pc = "exits", NEW h \in Regions
             PROVE  /\ regBlocks[h] = NaturalLoop(h)
                    /\ \A g \in Regions \ {h} :
                         h \in regBlocks[g] => containsLoops[h] < containsLoops[g]
  BY DEF RegionsNested
<1>0. /\ Preheaders /\ Flow /\ Region /\ Merged /\ Loops
      /\ Live \subseteq DOMAIN ech
  BY FlowIs DEF LoopInv
<1>1. ASSUME NEW b \in regBlocks[h] \ {h} PROVE b \in NaturalLoop(h)
  <2>1. \E e \in backEdges : e[2] = h /\ e[1] \in Reach(graphEdges, {b}, {h})
    BY LeadsBack
  <2>2. b \in Live /\ Dominates(h, b)
    BY <1>0 DEF Loops, Region
  <2>3. h \in domVect[b]
    BY <1>0, <2>2, FlowIs
  <2> QED
    BY <2>1, <2>2, <2>3 DEF NaturalLoop
<1>2. ASSUME NEW b \in NaturalLoop(h), b # h PROVE b \in regBlocks[h]
  <2>1. b \in Live /\ \E e \in backEdges : e[2] = h /\ e[1] \in Reach(graphEdges, {b}, {h})
    BY <1>2 DEF NaturalLoop
  <2> QED
    BY <2>1, LoopInRegion
<1>3. h \in regBlocks[h] /\ h \in NaturalLoop(h)
  BY <1>0 DEF Region, NaturalLoop
<1>4. \A g \in Regions \ {h} : h \in regBlocks[g] => containsLoops[h] < containsLoops[g]
  BY <1>0 DEF Merged
<1> QED
  BY <1>1, <1>2, <1>3, <1>4

LEMMA Before == LoopInv /\ ~JumpsBehind => MovedBefore
<1> SUFFICES ASSUME LoopInv, ~JumpsBehind, pc = "done", instr # None
             PROVE  instr \notin Reach(graphEdges, {0} \ {place}, {place})
  BY DEF MovedBefore
<1>1. Dominates(place, instr) /\ graphEdges \in SUBSET (Blocks \X Blocks)
  BY FlowIs DEF LoopInv, Moved
<1>2. Reach(graphEdges, {0} \ {place}, {place}) \subseteq From0(graphEdges, {place})
  <2> DEFINE S == {0} \ {place}
             C == From0(graphEdges, {place})
  <2>1. S \in SUBSET Blocks /\ S \ {place} \subseteq C
    BY <1>1, From0Has, BlocksFinite
  <2>2. \A x \in graphEdges : x[1] \in C /\ x[2] \notin {place} => x[2] \in C
    BY <1>1, From0Has
  <2> HIDE DEF S, C
  <2>3. Reach(graphEdges, S, {place}) \subseteq C
    BY <1>1, <2>1, <2>2, ReachLeast
  <2> QED
    BY <2>3 DEF S, C
<1> QED
  BY <1>1, <1>2 DEF Dominates

LEMMA Executes == LoopInv /\ ~JumpsBehind => MovedExecutes
<1> DEFINE after == {x[2] : x \in {y \in graphEdges : y[1] = place}}
           past == Reach(graphEdges, after, {instr})
<1> SUFFICES ASSUME LoopInv, ~JumpsBehind, pc = "done", place # instr, place \in Live
             PROVE  N - 1 \notin past /\ place \notin past
  BY DEF MovedExecutes
<1>0. /\ Preheaders /\ Flow /\ Entered /\ Region /\ Moved
      /\ graphEdges \in SUBSET (Blocks \X Blocks) /\ Live = From0(graphEdges, {})
  BY FlowIs DEF LoopInv
<1>1. PICK h \in Regions \cap Fronted :
        place = N + h /\ Reach(graphEdges, {h}, {instr}) \subseteq regBlocks[h]
  BY <1>0 DEF Moved
<1>2. h \in Blocks /\ h # place /\ Dominates(place, h)
  <2>1. h \in Blocks
    BY <1>0, NamesAre DEF Region
  <2>2. Dominates(N + h, h)
    BY <1>0 DEF Entered, Heads
  <2> QED
    BY <1>1, <2>1, <2>2, BlocksFinite
<1>3. after \subseteq {h}
  BY <1>0, <1>1 DEF Flow
<1>4. past \subseteq Reach(graphEdges, {h}, {instr})
  <2>1. {h} \in SUBSET Blocks /\ after \in SUBSET Blocks
    BY <1>2, <1>3
  <2>2. {h} \ {instr} \subseteq Reach(graphEdges, {h}, {instr})
        /\ Closed(graphEdges, {instr}, Reach(graphEdges, {h}, {instr}))
    BY <1>0, <2>1, ReachHas
  <2> DEFINE C == Reach(graphEdges, {h}, {instr})
  <2>3. /\ after \ {instr} \subseteq C
        /\ \A x \in graphEdges : x[1] \in C /\ x[2] \notin {instr} => x[2] \in C
    BY <1>3, <2>2 DEF Closed
  <2> HIDE DEF after, C
  <2>4. Reach(graphEdges, after, {instr}) \subseteq C
    BY <1>0, <2>1, <2>3, ReachLeast
  <2> QED
    BY <2>4 DEF C
<1>5. place \notin regBlocks[h]
  <2> SUFFICES ASSUME place \in regBlocks[h] PROVE FALSE
    OBVIOUS
  <2>1. Dominates(h, place)
    BY <1>0 DEF Region
  <2> QED
    BY <1>0, <1>2, <2>1, DominatesOneWay DEF Dominates
<1>6. N - 1 \notin regBlocks[h]
  BY <1>0 DEF Region
<1> HIDE DEF past
<1> QED
  BY <1>1, <1>4, <1>5, <1>6

-----------------------------------------------------------------------------
(* iCodeBreakDown.                                                         *)

LEMMA Inserted ==
  ASSUME NEW S, NEW s \in Seq(S), NEW i \in 1 .. Len(s), NEW e \in S,
         NEW t, t = InsertAt(s, i, e)
  PROVE  /\ t \in Seq(S) /\ Len(t) = Len(s) + 1
         /\ t[i] = e
         /\ \A k \in 1 .. i - 1 : t[k] = s[k]
         /\ \A k \in i + 1 .. Len(s) + 1 : t[k] = s[k - 1]
         /\ ToSet(t) = ToSet(s) \cup {e}
<1> DEFINE front == SubSeq(s, 1, i - 1)
           back == SubSeq(s, i, Len(s))
<1>0. Len(s) \in Nat /\ i \in Nat /\ DOMAIN s = 1 .. Len(s)
  OBVIOUS
<1>1. /\ front \in Seq(S) /\ Len(front) = i - 1
      /\ \A k \in 1 .. i - 1 : front[k] = s[k]
  OBVIOUS
<1>2. /\ back \in Seq(S) /\ Len(back) = Len(s) - i + 1
      /\ \A k \in 1 .. Len(s) - i + 1 : back[k] = s[i + k - 1]
  OBVIOUS
<1>3. t = (front \o <<e>>) \o back
  BY DEF InsertAt
<1> HIDE DEF front, back
<1> DEFINE u == front \o <<e>>
<1>4. /\ u \in Seq(S) /\ Len(u) = i
      /\ \A k \in 1 .. i - 1 : u[k] = s[k]
      /\ u[i] = e
  BY <1>0, <1>1
<1> HIDE DEF u
<1>5. t = u \o back
  BY <1>3 DEF u
<1>6. /\ t \in Seq(S) /\ Len(t) = Len(s) + 1
      /\ \A k \in 1 .. i : t[k] = u[k]
      /\ \A k \in i + 1 .. Len(s) + 1 : t[k] = back[k - i]
  <2>1. /\ t \in Seq(S) /\ Len(t) = Len(u) + Len(back)
        /\ \A k \in 1 .. Len(u) : t[k] = u[k]
        /\ \A k \in Len(u) + 1 .. Len(u) + Len(back) : t[k] = back[k - Len(u)]
    <3>1. u \in Seq(S) /\ back \in Seq(S)
      BY <1>2, <1>4
    <3>2. /\ u \o back \in Seq(S) /\ Len(u \o back) = Len(u) + Len(back)
          /\ \A k \in 1 .. Len(u) : (u \o back)[k] = u[k]
          /\ \A k \in Len(u) + 1 .. Len(u) + Len(back) : (u \o back)[k] = back[k - Len(u)]
      BY <3>1
    <3> QED
      BY <1>5, <3>2
  <2>2. Len(u) + Len(back) = Len(s) + 1
    BY <1>0, <1>2, <1>4
  <2> QED
    BY <1>4, <2>1, <2>2
<1>7. t[i] = e /\ \A k \in 1 .. i - 1 : t[k] = s[k]
  BY <1>0, <1>4, <1>6
<1>8. \A k \in i + 1 .. Len(s) + 1 : t[k] = s[k - 1]
  <2> TAKE k \in i + 1 .. Len(s) + 1
  <2>1. k - i \in 1 .. Len(s) - i + 1 /\ i + (k - i) - 1 = k - 1
    BY <1>0
  <2> QED
    BY <1>2, <1>6, <2>1
<1>9. DOMAIN t = 1 .. Len(s) + 1
  BY <1>6
<1>10. ToSet(t) \subseteq ToSet(s) \cup {e}
  <2> SUFFICES ASSUME NEW k \in 1 .. Len(s) + 1 PROVE t[k] \in ToSet(s) \cup {e}
    BY <1>9 DEF ToSet
  <2>1. CASE k < i
    <3>1. k \in DOMAIN s /\ t[k] = s[k]
      BY <1>0, <1>7, <2>1
    <3> QED
      BY <3>1 DEF ToSet
  <2>2. CASE k = i
    BY <1>7, <2>2
  <2>3. CASE k > i
    <3>1. k - 1 \in DOMAIN s /\ t[k] = s[k - 1]
      BY <1>0, <1>8, <2>3
    <3> QED
      BY <3>1 DEF ToSet
  <2> QED
    BY <1>0, <2>1, <2>2, <2>3
<1>11. ToSet(s) \cup {e} \subseteq ToSet(t)
  <2>1. e \in ToSet(t)
    BY <1>0, <1>7, <1>9 DEF ToSet
  <2>2. ASSUME NEW k \in DOMAIN s PROVE s[k] \in ToSet(t)
    <3>1. CASE k < i
      <4>1. k \in DOMAIN t /\ t[k] = s[k]
        BY <1>0, <1>7, <1>9, <3>1
      <4> QED
        BY <4>1 DEF ToSet
    <3>2. CASE k >= i
      <4>1. k + 1 \in i + 1 .. Len(s) + 1 /\ (k + 1) - 1 = k /\ k + 1 \in DOMAIN t
        BY <1>0, <1>9, <3>2
      <4>2. t[k + 1] = s[k]
        BY <1>8, <4>1
      <4>3. t[k + 1] \in ToSet(t)
        BY <4>1 DEF ToSet
      <4> QED
        BY <4>2, <4>3
    <3> QED
      BY <1>0, <3>1, <3>2
  <2> QED
    BY <2>1, <2>2 DEF ToSet
<1> QED
  BY <1>6, <1>7, <1>8, <1>10, <1>11

LEMMA Appended ==
  ASSUME NEW S, NEW s \in Seq(S), NEW e \in S
  PROVE  /\ Append(s, e) \in Seq(S) /\ Len(Append(s, e)) = Len(s) + 1
         /\ Append(s, e)[Len(s) + 1] = e
         /\ \A k \in 1 .. Len(s) : Append(s, e)[k] = s[k]
         /\ ToSet(Append(s, e)) = ToSet(s) \cup {e}
<1> DEFINE t == Append(s, e)
<1>1. /\ t \in Seq(S) /\ Len(t) = Len(s) + 1 /\ t[Len(s) + 1] = e
      /\ \A k \in 1 .. Len(s) : t[k] = s[k]
      /\ Len(s) \in Nat /\ DOMAIN s = 1 .. Len(s)
  OBVIOUS
<1> HIDE DEF t
<1>2. DOMAIN t = 1 .. Len(s) + 1
  BY <1>1
<1>3. ASSUME NEW k \in DOMAIN t PROVE t[k] \in ToSet(s) \cup {e}
  BY <1>1, <1>2 DEF ToSet
<1>4. e \in ToSet(t)
  BY <1>1, <1>2 DEF ToSet
<1>5. \A k \in DOMAIN s : s[k] \in ToSet(t)
  BY <1>1, <1>2 DEF ToSet
<1>6. ToSet(t) = ToSet(s) \cup {e}
  BY <1>3, <1>4, <1>5 DEF ToSet
<1> QED
  BY <1>1, <1>6 DEF t

LEMMA PositionOf ==
  ASSUME NEW S, NEW s \in Seq(S), NEW h \in ToSet(s),
         NEW i, i = SelectInSeq(s, LAMBDA x : x = h)
  PROVE  i \in 1 .. Len(s) /\ s[i] = h
<1> DEFINE I == {k \in 1 .. Len(s) : s[k] = h}
<1>1. I # {} /\ I \subseteq Nat
  BY DEF ToSet
<1>2. i = Min(I)
  BY <1>1 DEF SelectInSeq
<1>3. \E m \in I : \A k \in I : m <= k
  <2> DEFINE id == [k \in I |-> k]
  <2>1. \A k \in I : id[k] \in Nat
    BY <1>1
  <2>2. \E m \in I : \A k \in I : id[m] <= id[k]
    <3> HIDE DEF I, id
    <3> QED
      BY <1>1, <2>1, SmallestBy
  <2> QED
    BY <2>2
<1>4. i \in I
  BY <1>2, <1>3 DEF Min
<1> QED
  BY <1>4

LEMMA EndingsAre ==
  ASSUME NEW r \in Endings
  PROVE  /\ r \in [op : Leaves \cup {"PLAIN", "IFX"}, labels : Seq(1 .. N - 1)]
         /\ ToSet(r.labels) \subseteq 1 .. N - 1
<1>0. N - 1 \in 1 .. N - 1
  BY BlocksFinite
<1>1. CASE r = [op |-> "RETURN", labels |-> <<N - 1>>]
  BY <1>0, <1>1 DEF Leaves, ToSet
<1>2. ASSUME NEW t \in 1 .. N - 1, NEW op \in {"GOTO", "IFX"}, r = [op |-> op, labels |-> <<t>>]
      PROVE  /\ r \in [op : Leaves \cup {"PLAIN", "IFX"}, labels : Seq(1 .. N - 1)]
             /\ ToSet(r.labels) \subseteq 1 .. N - 1
  BY <1>2 DEF Leaves, ToSet
<1>3. ASSUME NEW a \in 1 .. N - 1, NEW t \in 1 .. N - 1, r = [op |-> "JUMPTABLE", labels |-> <<a, t>>]
      PROVE  /\ r \in [op : Leaves \cup {"PLAIN", "IFX"}, labels : Seq(1 .. N - 1)]
             /\ ToSet(r.labels) \subseteq 1 .. N - 1
  BY <1>3 DEF Leaves, ToSet
<1>4. \/ r = [op |-> "RETURN", labels |-> <<N - 1>>]
      \/ \E t \in 1 .. N - 1 : \E op \in {"GOTO", "IFX"} : r = [op |-> op, labels |-> <<t>>]
      \/ \E a, t \in 1 .. N - 1 : r = [op |-> "JUMPTABLE", labels |-> <<a, t>>]
  BY DEF Endings
<1> QED
  BY <1>1, <1>2, <1>3, <1>4

SourceOrder == [k \in 1 .. N |-> k - 1]
SourceEdges == EdgesOf(Source, SourceOrder)

LEMMA FunctionsAre ==
  ASSUME NEW e \in Functions
  PROVE  /\ e \in [0 .. N - 1 -> [op : Leaves \cup {"PLAIN", "IFX"}, labels : Seq(1 .. N - 1)]]
         /\ \A b \in 0 .. N - 1 : ToSet(e[b].labels) \subseteq 1 .. N - 1
         /\ e[N - 1] = Plain
         /\ ~JumpsBehind =>
              JumpsFromInside(e, EdgesOf(e, SourceOrder), Dominance(EdgesOf(e, SourceOrder)))
<1> DEFINE Some == UNION {kSubset(k, 0 .. N - 2) : k \in 0 .. MaxJumps}
<1>0. \A J \in Some : J \subseteq 0 .. N - 2
  BY DEF kSubset
<1> HIDE DEF Some
<1>1. \E J \in Some : \E f \in [J -> Endings] :
        e = [b \in 0 .. N - 1 |-> IF b \in DOMAIN f THEN f[b] ELSE Plain]
  <2>1. e \in {[b \in 0 .. N - 1 |-> IF b \in DOMAIN f THEN f[b] ELSE Plain] :
                 f \in UNION {[J -> Endings] : J \in Some}}
    BY DEF Functions, Some
  <2>2. PICK f \in UNION {[J -> Endings] : J \in Some} :
          e = [b \in 0 .. N - 1 |-> IF b \in DOMAIN f THEN f[b] ELSE Plain]
    BY <2>1
  <2> QED
    BY <2>2
<1>3. Plain \in [op : Leaves \cup {"PLAIN", "IFX"}, labels : Seq(1 .. N - 1)]
      /\ ToSet(Plain.labels) \subseteq 1 .. N - 1
  BY DEF Plain, ToSet
<1>2. PICK J \in Some : \E f \in [J -> Endings] :
        e = [b \in 0 .. N - 1 |-> IF b \in DOMAIN f THEN f[b] ELSE Plain]
  BY <1>1
<1>4. /\ DOMAIN e = 0 .. N - 1 /\ e = [b \in 0 .. N - 1 |-> e[b]]
      /\ \A b \in 0 .. N - 1 : e[b] = Plain \/ e[b] \in Endings
      /\ \A b \in (0 .. N - 1) \ J : e[b] = Plain
  BY <1>2
<1>5. \A b \in 0 .. N - 1 :
        /\ e[b] \in [op : Leaves \cup {"PLAIN", "IFX"}, labels : Seq(1 .. N - 1)]
        /\ ToSet(e[b].labels) \subseteq 1 .. N - 1
  BY <1>3, <1>4, EndingsAre
<1>6. e[N - 1] = Plain
  BY <1>0, <1>2, <1>4, BlocksFinite
<1>7. e \in [0 .. N - 1 -> [op : Leaves \cup {"PLAIN", "IFX"}, labels : Seq(1 .. N - 1)]]
  BY <1>4, <1>5
<1>8. ~JumpsBehind =>
        JumpsFromInside(e, EdgesOf(e, SourceOrder), Dominance(EdgesOf(e, SourceOrder)))
  BY DEF Functions, SourceOrder
<1> QED
  BY <1>5, <1>6, <1>7, <1>8

\* What the labels of a block were in the source.
LEMMA SourceIs ==
  ASSUME Preheaders, Source \in Functions, NEW b \in 0 .. N - 1
  PROVE  /\ b \in DOMAIN ech /\ Source[b].op = ech[b].op
         /\ ech[b].labels \in Seq(DOMAIN ech)
         /\ ToSet(Source[b].labels) = {Origin(l) : l \in Labels(b)}
         /\ Labels(b) \subseteq DOMAIN ech
         /\ \A l \in Labels(b) : Origin(l) \in 1 .. N - 1
<1>1. b \in DOMAIN ech /\ ech[b] \in [op : Leaves \cup {"PLAIN", "IFX"}, labels : Seq(DOMAIN ech)]
  BY DEF Preheaders
<1>2. ech[b].labels \in Seq(DOMAIN ech)
  BY <1>1
<1>3. /\ Source[b].op = ech[b].op
      /\ Source[b].labels = [k \in DOMAIN ech[b].labels |-> Origin(ech[b].labels[k])]
  BY DEF Source
<1>4. ToSet(Source[b].labels) = {Origin(l) : l \in Labels(b)}
  BY <1>3 DEF ToSet, Labels
<1>5. Labels(b) \subseteq DOMAIN ech
  BY <1>2 DEF Labels, ToSet
<1>6. ToSet(Source[b].labels) \subseteq 1 .. N - 1
  BY FunctionsAre
<1> QED
  BY <1>1, <1>2, <1>3, <1>4, <1>5, <1>6

\* A block that is not there yet has the labels of the source, and the next block
\* comes last.
LEMMA NextBlock ==
  ASSUME Preheaders, Broken, pc = "break",
         NEW b, b = Cardinality({x \in ToSet(bbOrder) : x < N})
  PROVE  /\ b \in 0 .. N - 1 /\ b \notin ToSet(bbOrder)
         /\ ToSet(bbOrder) = 0 .. b - 1 \cup {N + h : h \in Fronted}
         /\ Fronted \subseteq 1 .. b - 1
         /\ \A x \in b .. N - 1 : Labels(x) \subseteq 1 .. N - 1
<1>0. N \in Nat \ {0, 1} /\ Fronted \in SUBSET (0 .. N - 1)
  BY BlocksFinite, NamesAre
<1>1. PICK m \in 0 .. N :
        /\ \A x \in m .. N - 1 : Labels(x) \subseteq 0 .. N - 1
        /\ ToSet(bbOrder) = 0 .. m - 1 \cup {N + h : h \in Fronted}
        /\ Fronted \subseteq 1 .. m - 1
        /\ m < N
  BY DEF Broken
<1>2. {x \in ToSet(bbOrder) : x < N} = 0 .. m - 1
  BY <1>0, <1>1
<1>3. b = m
  <2>1. Cardinality(0 .. m - 1) = m
    BY FS_Interval
  <2> QED
    BY <1>2, <2>1
<1>4. ASSUME NEW x \in m .. N - 1 PROVE Labels(x) \subseteq 1 .. N - 1
  <2>1. \A l \in Labels(x) : Origin(l) \in 1 .. N - 1
    BY <1>0, <1>1, SourceIs DEF Broken
  <2>2. \A l \in Labels(x) : l < N
    BY <1>0, <1>1
  <2> QED
    BY <1>0, <1>1, <2>1, <2>2 DEF Origin
<1>5. m \in 0 .. N - 1
  BY <1>0, <1>1
<1>6. m \notin ToSet(bbOrder)
  BY <1>0, <1>1, <1>5
<1> QED
  BY <1>1, <1>3, <1>4, <1>5, <1>6

\* The next block has the greatest key.
LEMMA OrderGrows ==
  ASSUME Preheaders, Broken, bbOrder \in Seq(DOMAIN ech), NEW b \in 0 .. N - 1,
         ToSet(bbOrder) = 0 .. b - 1 \cup {N + h : h \in Fronted}, Fronted \subseteq 1 .. b - 1,
         NEW order, order = Append(bbOrder, b)
  PROVE  /\ order \in Seq(DOMAIN ech)
         /\ ToSet(order) = 0 .. b \cup {N + h : h \in Fronted}
         /\ \A j, k \in DOMAIN order : j < k => Key(order[j]) < Key(order[k])
<1>0. N \in Nat \ {0, 1} /\ b \in DOMAIN ech
  BY BlocksFinite DEF Preheaders
<1>1. /\ order \in Seq(DOMAIN ech) /\ Len(order) = Len(bbOrder) + 1
      /\ order[Len(bbOrder) + 1] = b
      /\ \A k \in 1 .. Len(bbOrder) : order[k] = bbOrder[k]
      /\ ToSet(order) = ToSet(bbOrder) \cup {b}
  BY <1>0, Appended
<1>2. 0 .. b = (0 .. b - 1) \cup {b}
  OBVIOUS
<1>3. \A x \in ToSet(bbOrder) : Key(x) < Key(b)
  BY <1>0 DEF Key
<1>4. /\ DOMAIN order = 1 .. Len(bbOrder) + 1 /\ DOMAIN bbOrder = 1 .. Len(bbOrder)
      /\ Len(bbOrder) \in Nat
  BY <1>1
<1>5. ASSUME NEW j \in DOMAIN order, NEW k \in DOMAIN order, j < k
      PROVE  Key(order[j]) < Key(order[k])
  <2>1. j \in DOMAIN bbOrder /\ order[j] = bbOrder[j] /\ bbOrder[j] \in ToSet(bbOrder)
    BY <1>1, <1>4, <1>5 DEF ToSet
  <2>2. CASE k = Len(bbOrder) + 1
    BY <1>1, <1>3, <2>1, <2>2
  <2>3. CASE k # Len(bbOrder) + 1
    <3>1. k \in DOMAIN bbOrder /\ order[k] = bbOrder[k]
      BY <1>1, <1>4, <2>3
    <3> QED
      BY <1>5, <2>1, <3>1 DEF Broken
  <2> QED
    BY <2>2, <2>3
<1>6. ToSet(order) = 0 .. b \cup {N + h : h \in Fronted}
  BY <1>1, <1>2
<1> QED
  BY <1>1, <1>5, <1>6

\* The preheader in front of h keeps the order.
LEMMA OrderKept ==
  ASSUME NEW D \in SUBSET Blocks, NEW h \in 0 .. N - 1, h \in D, N + h \in Blocks,
         NEW order \in Seq(D), N + h \notin ToSet(order),
         \A j, k \in DOMAIN order : j < k => Key(order[j]) < Key(order[k]),
         NEW i \in 1 .. Len(order), order[i] = h,
         NEW t, t = InsertAt(order, i, N + h)
  PROVE  /\ t \in Seq(D \cup {N + h})
         /\ ToSet(t) = ToSet(order) \cup {N + h}
         /\ \A j, k \in DOMAIN t : j < k => Key(t[j]) < Key(t[k])
<1>0. /\ N \in Nat \ {0, 1} /\ Blocks = 0 .. 2 * N - 1
      /\ Len(order) \in Nat /\ DOMAIN order = 1 .. Len(order)
      /\ order \in Seq(D \cup {N + h})
  BY BlocksFinite
<1>1. /\ t \in Seq(D \cup {N + h}) /\ Len(t) = Len(order) + 1
      /\ t[i] = N + h
      /\ \A k \in 1 .. i - 1 : t[k] = order[k]
      /\ \A k \in i + 1 .. Len(order) + 1 : t[k] = order[k - 1]
      /\ ToSet(t) = ToSet(order) \cup {N + h}
  <2> DEFINE S == D \cup {N + h}
             e == N + h
  <2>1. order \in Seq(S) /\ e \in S
    BY <1>0
  <2> HIDE DEF S, e
  <2>2. t = InsertAt(order, i, e)
    BY DEF e
  <2>3. /\ t \in Seq(S) /\ Len(t) = Len(order) + 1
        /\ t[i] = e
        /\ \A k \in 1 .. i - 1 : t[k] = order[k]
        /\ \A k \in i + 1 .. Len(order) + 1 : t[k] = order[k - 1]
        /\ ToSet(t) = ToSet(order) \cup {e}
    BY <2>1, <2>2, Inserted, SMTT(30)
  <2> QED
    BY <2>3 DEF S, e
<1>2. DOMAIN t = 1 .. Len(order) + 1
  BY <1>1
<1>3. Key(N + h) = 2 * h /\ Key(h) = 2 * h + 1 /\ h \in Nat
  BY <1>0 DEF Key
<1>4. \A x \in ToSet(order) : Key(x) \in Int /\ Key(x) # 2 * h
  <2> TAKE x \in ToSet(order)
  <2>1. PICK k \in DOMAIN order : x = order[k]
    BY DEF ToSet
  <2>2. x \in Blocks /\ x # N + h
    <3>1. order[k] \in D
      OBVIOUS
    <3> QED
      BY <2>1, <3>1
  <2> QED
    BY <1>0, <2>2 DEF Key
<1>5. \A k \in 1 .. i - 1 : Key(order[k]) \in Int /\ Key(order[k]) < 2 * h
  <2> TAKE k \in 1 .. i - 1
  <2>1. k \in DOMAIN order /\ i \in DOMAIN order /\ k < i
    BY <1>0
  <2>2. Key(order[k]) < 2 * h + 1 /\ order[k] \in ToSet(order)
    BY <1>3, <2>1 DEF ToSet
  <2> QED
    BY <1>3, <1>4, <2>2
<1>6. \A k \in i .. Len(order) : Key(order[k]) \in Int /\ 2 * h < Key(order[k])
  <2> TAKE k \in i .. Len(order)
  <2>1. k \in DOMAIN order /\ i \in DOMAIN order /\ (k = i \/ i < k)
    BY <1>0
  <2>2. order[k] \in ToSet(order)
    BY <2>1 DEF ToSet
  <2>3. k = i \/ 2 * h + 1 < Key(order[k])
    BY <1>3, <2>1
  <2> QED
    BY <1>3, <1>4, <2>2, <2>3
<1>7. ASSUME NEW j \in DOMAIN t, NEW k \in DOMAIN t, j < k PROVE Key(t[j]) < Key(t[k])
  <2>1. CASE k < i
    <3>1. /\ j \in DOMAIN order /\ k \in DOMAIN order
          /\ t[j] = order[j] /\ t[k] = order[k]
      BY <1>0, <1>1, <1>2, <1>7, <2>1
    <3> QED
      BY <1>7, <3>1
  <2>2. CASE k = i
    <3>1. j \in 1 .. i - 1 /\ t[j] = order[j]
      BY <1>0, <1>1, <1>2, <1>7, <2>2
    <3> QED
      BY <1>1, <1>3, <1>5, <2>2, <3>1
  <2>3. CASE k > i
    <3>0. i \in Nat /\ k \in i + 1 .. Len(order) + 1
      BY <1>0, <1>2, <2>3
    <3>1. k - 1 \in i .. Len(order) /\ t[k] = order[k - 1] /\ k - 1 \in DOMAIN order
      <4>1. t[k] = order[k - 1]
        BY <1>1, <3>0
      <4>2. k - 1 \in i .. Len(order) /\ k - 1 \in 1 .. Len(order)
        BY <1>0, <3>0
      <4> QED
        BY <1>0, <4>1, <4>2
    <3>2. CASE j < i
      <4>1. j \in 1 .. i - 1 /\ t[j] = order[j]
        BY <1>0, <1>1, <1>2, <3>2
      <4>2. Key(order[j]) < 2 * h /\ 2 * h < Key(order[k - 1])
            /\ Key(order[j]) \in Int /\ Key(order[k - 1]) \in Int
        BY <1>5, <1>6, <3>1, <4>1
      <4> QED
        BY <1>3, <3>1, <4>1, <4>2
    <3>3. CASE j = i
      BY <1>1, <1>3, <1>6, <3>1, <3>3
    <3>4. CASE j > i
      <4>1. j - 1 \in DOMAIN order /\ t[j] = order[j - 1] /\ j - 1 < k - 1
        <5>1. j \in i + 1 .. Len(order) + 1 /\ j - 1 \in 1 .. Len(order) /\ j - 1 < k - 1
          BY <1>0, <1>2, <1>7, <3>0, <3>4
        <5>2. t[j] = order[j - 1]
          BY <1>1, <5>1
        <5> QED
          BY <1>0, <5>1, <5>2
      <4> QED
        BY <3>1, <4>1
    <3> QED
      BY <1>0, <1>2, <3>2, <3>3, <3>4
  <2> QED
    BY <1>0, <1>2, <2>1, <2>2, <2>3
<1> QED
  BY <1>1, <1>7
\* The blocks in front of h.
LEMMA InFront ==
  ASSUME NEW order \in Seq(Blocks), NEW at \in 1 .. Len(order),
         \A j, k \in DOMAIN order : j < k => Key(order[j]) < Key(order[k]),
         NEW front, front = ToSet(SubSeq(order, 1, at - 1))
  PROVE  front = {x \in ToSet(order) : Key(x) < Key(order[at])}
<1> DEFINE s == SubSeq(order, 1, at - 1)
<1>0. Len(order) \in Nat /\ at \in Nat /\ DOMAIN order = 1 .. Len(order)
  OBVIOUS
<1>1. Len(s) = at - 1 /\ DOMAIN s = 1 .. at - 1 /\ \A k \in 1 .. at - 1 : s[k] = order[k]
  OBVIOUS
<1>2. front = ToSet(s)
  OBVIOUS
<1> HIDE DEF s
<1>3. \A k \in DOMAIN order : Key(order[k]) \in Int
  BY BlocksFinite DEF Key
<1>4. ASSUME NEW k \in 1 .. at - 1
      PROVE  s[k] \in ToSet(order) /\ Key(s[k]) < Key(order[at])
  <2>1. k \in DOMAIN order /\ at \in DOMAIN order /\ k < at
    BY <1>0
  <2> QED
    BY <1>1, <2>1 DEF ToSet
<1>5. ASSUME NEW k \in DOMAIN order, Key(order[k]) < Key(order[at]) PROVE order[k] \in front
  <2>1. at \in DOMAIN order
    BY <1>0
  <2>2. ~(at < k) /\ k # at
    BY <1>3, <1>5, <2>1
  <2>3. k \in 1 .. at - 1
    BY <1>0, <2>2
  <2> QED
    BY <1>1, <1>2, <2>3 DEF ToSet
<1>6. front \subseteq {x \in ToSet(order) : Key(x) < Key(order[at])}
  BY <1>1, <1>2, <1>4 DEF ToSet
<1> QED
  BY <1>5, <1>6 DEF ToSet

\* A preheader for h, which the block b jumps back to.
LEMMA PreheaderMade ==
  ASSUME Preheaders, Broken, pc = "break", NEW b \in 0 .. N - 1,
         NEW order \in Seq(DOMAIN ech),
         ToSet(order) = 0 .. b \cup {N + g : g \in Fronted}, Fronted \subseteq 1 .. b - 1,
         \A j, k \in DOMAIN order : j < k => Key(order[j]) < Key(order[k]),
         \A x \in b .. N - 1 : Labels(x) \subseteq 1 .. N - 1,
         NEW h \in Labels(b), h \in ToSet(order), preHeader[h] = None,
         NEW at \in 1 .. Len(order), order[at] = h,
         bbOrder' = InsertAt(order, at, N + h),
         ech' = replaceLabel(ToSet(SubSeq(order, 1, at - 1)), h),
         preHeader' = [preHeader EXCEPT ![h] = N + h],
         pc' = IF b = N - 1 THEN "flow" ELSE "break"
  PROVE  Preheaders' /\ Broken' /\ bbOrder' \in Seq(DOMAIN ech')
<1> DEFINE front == ToSet(SubSeq(order, 1, at - 1))
<1>0. /\ N \in Nat \ {0, 1} /\ Blocks = 0 .. 2 * N - 1
      /\ DOMAIN ech = 0 .. N - 1 \cup {N + g : g \in Fronted}
      /\ DOMAIN ech \in SUBSET Blocks /\ Fronted \in SUBSET (0 .. N - 1)
  BY BlocksFinite, NamesAre DEF Preheaders
<1>1. /\ h \in 1 .. N - 1 /\ h \in 0 .. b /\ h \notin Fronted
      /\ h \in DOMAIN ech /\ h \in Blocks /\ N + h \in Blocks
  <2>1. h \in 1 .. N - 1
    BY <1>0
  <2>2. h \in 0 .. b
    BY <1>0, <2>1
  <2> QED
    BY <1>0, <2>1, <2>2 DEF Fronted
<1>2. /\ DOMAIN ech' = (DOMAIN ech) \cup {N + h} /\ N + h \notin DOMAIN ech
      /\ ech'[N + h] = Plain
      /\ \A x \in DOMAIN ech :
           /\ ech'[x] \in [op : Leaves \cup {"PLAIN", "IFX"}, labels : Seq(DOMAIN ech')]
           /\ ech'[x].op = ech[x].op
           /\ DOMAIN ech'[x].labels = DOMAIN ech[x].labels
           /\ \A k \in DOMAIN ech[x].labels :
                ech'[x].labels[k] = IF x \in front /\ ech[x].labels[k] = h
                                    THEN N + h ELSE ech[x].labels[k]
           /\ x \notin front => ech'[x] = ech[x]
  <2>0. ech' = replaceLabel(front, h)
    OBVIOUS
  <2> HIDE DEF front
  <2>1. N + h \notin DOMAIN ech
    BY <1>0, <1>1
  <2>2. DOMAIN ech' = (DOMAIN ech) \cup {N + h} /\ ech'[N + h] = Plain
    BY <2>0 DEF replaceLabel
  <2>3. ASSUME NEW x \in DOMAIN ech
        PROVE  /\ ech'[x] \in [op : Leaves \cup {"PLAIN", "IFX"}, labels : Seq(DOMAIN ech')]
               /\ ech'[x].op = ech[x].op
               /\ DOMAIN ech'[x].labels = DOMAIN ech[x].labels
               /\ \A k \in DOMAIN ech[x].labels :
                    ech'[x].labels[k] = IF x \in front /\ ech[x].labels[k] = h
                                        THEN N + h ELSE ech[x].labels[k]
               /\ x \notin front => ech'[x] = ech[x]
    <3> DEFINE ls == ech[x].labels
               new == [k \in DOMAIN ls |-> IF ls[k] = h THEN N + h ELSE ls[k]]
    <3>1. /\ ech[x] \in [op : Leaves \cup {"PLAIN", "IFX"}, labels : Seq(DOMAIN ech)]
          /\ ls \in Seq(DOMAIN ech) /\ x # N + h
      BY <2>1 DEF Preheaders
    <3>2. ech'[x] = IF x \in front THEN [ech[x] EXCEPT !.labels = new] ELSE ech[x]
      BY <2>0, <2>2, <3>1 DEF replaceLabel
    <3>3. ls \in Seq(DOMAIN ech') /\ new \in Seq(DOMAIN ech') /\ DOMAIN new = DOMAIN ls
      <4>1. Len(ls) \in Nat /\ DOMAIN ls = 1 .. Len(ls) /\ \A k \in 1 .. Len(ls) : ls[k] \in DOMAIN ech
        BY <3>1
      <4>2. \A k \in 1 .. Len(ls) : new[k] \in DOMAIN ech' /\ ls[k] \in DOMAIN ech'
        BY <2>2, <4>1
      <4>3. new \in [1 .. Len(ls) -> DOMAIN ech'] /\ ls \in [1 .. Len(ls) -> DOMAIN ech']
        <5>1. new \in [1 .. Len(ls) -> DOMAIN ech']
          BY <4>1, <4>2
        <5>2. ls = [k \in 1 .. Len(ls) |-> ls[k]]
          BY <3>1, <4>1
        <5>3. ls \in [1 .. Len(ls) -> DOMAIN ech']
          BY <4>2, <5>2
        <5> QED
          BY <5>1, <5>3
      <4>4. \A S : \A m \in Nat : \A f \in [1 .. m -> S] : f \in Seq(S)
        OBVIOUS
      <4>5. DOMAIN new = DOMAIN ls
        OBVIOUS
      <4> QED
        BY <4>1, <4>3, <4>4, <4>5
    <3>4. \A k \in DOMAIN ls : new[k] = IF ls[k] = h THEN N + h ELSE ls[k]
      OBVIOUS
    <3> HIDE DEF new
    <3>5. CASE x \in front
      <4>1. ech'[x].op = ech[x].op /\ ech'[x].labels = new
            /\ ech'[x] \in [op : Leaves \cup {"PLAIN", "IFX"}, labels : Seq(DOMAIN ech')]
        BY <3>1, <3>2, <3>3, <3>5
      <4> QED
        BY <3>3, <3>4, <3>5, <4>1
    <3>6. CASE x \notin front
      <4>1. ech'[x] = ech[x]
        BY <3>2, <3>6
      <4>2. ech'[x] \in [op : Leaves \cup {"PLAIN", "IFX"}, labels : Seq(DOMAIN ech')]
        BY <3>1, <3>3, <4>1
      <4> QED
        BY <3>6, <4>1, <4>2
    <3> QED
      BY <3>5, <3>6
  <2> QED
    BY <2>1, <2>2, <2>3
<1>3. front = {x \in ToSet(order) : Key(x) < Key(h)}
  <2>1. ASSUME NEW D \in SUBSET Blocks, order \in Seq(D) PROVE order \in Seq(Blocks)
    BY <2>1
  <2>2. order \in Seq(Blocks)
    BY <1>0, <2>1
  <2> QED
    BY <2>2, InFront
<1> HIDE DEF front
<1>4. Fronted' = Fronted \cup {h}
  <2>1. \A g \in 0 .. N - 1 : preHeader'[g] = IF g = h THEN N + h ELSE preHeader[g]
    BY <1>0 DEF Preheaders, Fronted
  <2> QED
    BY <1>0, <1>1, <2>1 DEF Fronted, None
<1>5. Preheaders'
  <2>1. \A x \in DOMAIN ech' : ech'[x] \in [op : Leaves \cup {"PLAIN", "IFX"}, labels : Seq(DOMAIN ech')]
    <3>1. Plain \in [op : Leaves \cup {"PLAIN", "IFX"}, labels : Seq(DOMAIN ech')]
      BY DEF Plain
    <3> QED
      BY <1>2, <3>1
  <2>2. DOMAIN ech' = 0 .. N - 1 \cup {N + g : g \in Fronted'}
    <3>1. {N + g : g \in Fronted'} = {N + g : g \in Fronted} \cup {N + h}
      BY <1>4
    <3> QED
      BY <1>0, <1>2, <3>1
  <2>3. \A g \in Blocks : preHeader'[g] \in {None, N + g} /\ (g >= N => preHeader'[g] = None)
    <3> TAKE g \in Blocks
    <3>1. preHeader[g] \in {None, N + g} /\ (g >= N => preHeader[g] = None)
      BY DEF Preheaders
    <3>2. CASE g = h
      <4>1. ~(g >= N) /\ preHeader'[g] \in {None, N + g}
        BY <1>0, <1>1, <3>1, <3>2
      <4> QED
        BY <4>1
    <3>3. CASE g # h
      BY <3>1, <3>3
    <3> QED
      BY <3>2, <3>3
  <2> QED
    BY <2>1, <2>2, <2>3 DEF Preheaders
<1>6. \A x \in 0 .. N - 1 : x \in DOMAIN ech /\ x \in DOMAIN ech'
  BY <1>0, <1>2
<1>7. Source' = Source
  <2>1. ASSUME NEW x \in 0 .. N - 1
        PROVE  /\ ech'[x].op = ech[x].op
               /\ [k \in DOMAIN ech'[x].labels |-> Origin(ech'[x].labels[k])]
                    = [k \in DOMAIN ech[x].labels |-> Origin(ech[x].labels[k])]
    <3>1. Origin(N + h) = h /\ Origin(h) = h
      BY <1>0, <1>1 DEF Origin
    <3>2. ASSUME NEW k \in DOMAIN ech[x].labels
          PROVE  Origin(ech'[x].labels[k]) = Origin(ech[x].labels[k])
      <4>1. ech'[x].labels[k] = ech[x].labels[k]
            \/ (ech[x].labels[k] = h /\ ech'[x].labels[k] = N + h)
        BY <1>2, <1>6
      <4> QED
        BY <3>1, <4>1
    <3> QED
      BY <1>2, <1>6, <3>2
  <2> QED
    BY <2>1 DEF Source
<1>8. \A g \in Fronted' : ech'[N + g] = Plain
  <2>1. ASSUME NEW g \in Fronted PROVE ech'[N + g] = Plain
    <3>1. N + g \in DOMAIN ech /\ ech[N + g] = Plain
      BY <1>0, <2>1 DEF Broken
    <3>2. /\ ech'[N + g] \in [op : Leaves \cup {"PLAIN", "IFX"}, labels : Seq(DOMAIN ech')]
          /\ ech'[N + g].op = "PLAIN" /\ DOMAIN ech'[N + g].labels = DOMAIN <<>>
      BY <1>2, <3>1 DEF Plain
    <3>3. ech'[N + g].labels = <<>>
      <4> DEFINE ls == ech'[N + g].labels
      <4>1. ls \in Seq(DOMAIN ech') /\ DOMAIN ls = {}
        BY <3>2
      <4> HIDE DEF ls
      <4>2. ls = <<>>
        BY <4>1
      <4> QED
        BY <4>2 DEF ls
    <3> QED
      BY <3>2, <3>3 DEF Plain
  <2> QED
    BY <1>2, <1>4, <2>1
<1>9. \A x \in 0 .. N - 1 :
        /\ x \notin front => Labels(x)' = Labels(x)
        /\ x \in front => Labels(x)' \subseteq (Labels(x) \cup {N + h}) \ {h}
  <2>1. \A x \in 0 .. N - 1 : x \notin front => Labels(x)' = Labels(x)
    BY <1>2, <1>6 DEF Labels
  <2>2. ASSUME NEW x \in 0 .. N - 1, x \in front
        PROVE  Labels(x)' \subseteq (Labels(x) \cup {N + h}) \ {h}
    <3>1. ASSUME NEW k \in DOMAIN ech'[x].labels
          PROVE  ech'[x].labels[k] \in (ToSet(ech[x].labels) \cup {N + h}) \ {h}
      <4>1. k \in DOMAIN ech[x].labels /\ ech[x].labels[k] \in ToSet(ech[x].labels) /\ N + h # h
        BY <1>0, <1>1, <1>2, <1>6 DEF ToSet
      <4>2. ech'[x].labels[k] = IF ech[x].labels[k] = h THEN N + h ELSE ech[x].labels[k]
        BY <1>2, <1>6, <2>2, <4>1
      <4> QED
        BY <4>1, <4>2
    <3>2. Labels(x)' = {ech'[x].labels[k] : k \in DOMAIN ech'[x].labels}
          /\ Labels(x) = ToSet(ech[x].labels)
      BY DEF Labels, ToSet
    <3> QED
      BY <3>1, <3>2
  <2> QED
    BY <2>1, <2>2
<1>10. \A x \in 0 .. N - 1 : x \in front <=> x < h
  <2> TAKE x \in 0 .. N - 1
  <2>1. Key(x) = 2 * x + 1 /\ Key(h) = 2 * h + 1
    <3>1. h < N /\ x < N
      BY <1>0, <1>1
    <3> QED
      BY <1>0, <1>1, <3>1 DEF Key
  <2>2. x < h => x \in ToSet(order)
    BY <1>0, <1>1
  <2> QED
    BY <1>1, <1>3, <2>1, <2>2
<1>11. \A g \in Fronted' : \A x \in 0 .. g - 1 : g \notin Labels(x)'
  <2> SUFFICES ASSUME NEW g \in Fronted', NEW x \in 0 .. g - 1 PROVE g \notin Labels(x)'
    OBVIOUS
  <2>0. g \in 0 .. N - 1 /\ x \in 0 .. N - 1 /\ x < g
    BY <1>0, <1>1, <1>4
  <2>1. CASE g = h
    BY <1>9, <1>10, <2>0, <2>1
  <2>2. CASE g # h
    <3>1. g \in Fronted /\ g \notin Labels(x) /\ g # N + h
      BY <1>0, <1>1, <1>4, <2>0, <2>2 DEF Broken
    <3> QED
      BY <1>9, <2>0, <3>1
  <2> QED
    BY <2>1, <2>2
<1>12. /\ bbOrder' \in Seq(DOMAIN ech')
       /\ ToSet(bbOrder') = ToSet(order) \cup {N + h}
       /\ \A j, k \in DOMAIN bbOrder' : j < k => Key(bbOrder'[j]) < Key(bbOrder'[k])
  <2>1. N + h \notin ToSet(order)
    BY <1>0, <1>1
  <2>2. h \in 0 .. N - 1
    BY <1>0, <1>1
  <2> DEFINE D == DOMAIN ech
             t == bbOrder'
  <2>3. /\ D \in SUBSET Blocks /\ h \in D /\ order \in Seq(D) /\ t = InsertAt(order, at, N + h)
        /\ DOMAIN ech' = D \cup {N + h}
    BY <1>0, <1>1, <1>2
  <2> HIDE DEF D, t
  <2>4. /\ t \in Seq(D \cup {N + h})
        /\ ToSet(t) = ToSet(order) \cup {N + h}
        /\ \A j, k \in DOMAIN t : j < k => Key(t[j]) < Key(t[k])
    BY <1>1, <2>1, <2>2, <2>3, OrderKept, SMTT(90)
  <2> QED
    BY <2>3, <2>4 DEF t
<1>13. /\ b + 1 \in 0 .. N
       /\ \A x \in b + 1 .. N - 1 : Labels(x)' \subseteq 0 .. N - 1
       /\ ToSet(bbOrder') = 0 .. (b + 1) - 1 \cup {N + g : g \in Fronted'}
       /\ Fronted' \subseteq 1 .. (b + 1) - 1
       /\ pc' = "break" => b + 1 < N
       /\ pc' = "flow" => b + 1 = N
  <2>1. \A x \in b + 1 .. N - 1 : Labels(x)' \subseteq 0 .. N - 1
    <3> TAKE x \in b + 1 .. N - 1
    <3>1. x \in 0 .. N - 1 /\ ~(x < h) /\ Labels(x) \subseteq 1 .. N - 1
      BY <1>0, <1>1
    <3> QED
      BY <1>9, <1>10, <3>1
  <2>2. ToSet(bbOrder') = 0 .. (b + 1) - 1 \cup {N + g : g \in Fronted'}
    <3>1. {N + g : g \in Fronted'} = {N + g : g \in Fronted} \cup {N + h}
      BY <1>4
    <3>2. 0 .. (b + 1) - 1 = 0 .. b
      OBVIOUS
    <3> QED
      BY <1>12, <3>1, <3>2
  <2>3. Fronted' \subseteq 1 .. (b + 1) - 1
    BY <1>0, <1>1, <1>4
  <2>4. b + 1 \in 0 .. N /\ (pc' = "break" => b + 1 < N) /\ (pc' = "flow" => b + 1 = N)
    BY <1>0
  <2> QED
    BY <2>1, <2>2, <2>3, <2>4
<1>14. Broken'
  BY <1>7, <1>8, <1>11, <1>12, <1>13 DEF Broken
<1> QED
  BY <1>5, <1>12, <1>14
LEMMA BrokenDown ==
  ASSUME LoopInv, iCodeBreakDown PROVE LoopInv'
<1> DEFINE b == Cardinality({x \in ToSet(bbOrder) : x < N})
           order == Append(bbOrder, b)
           dest == {h \in Labels(b) : /\ ech[b].op \in {"GOTO", "IFX"}
                                      /\ h \in ToSet(order)
                                      /\ preHeader[h] = None
                                      /\ otherPathsPresent(order, h)}
           h == CHOOSE h \in dest : TRUE
           at == SelectInSeq(order, LAMBDA x : x = h)
<1>0. /\ Preheaders /\ Broken /\ bbOrder \in Seq(DOMAIN ech) /\ pc = "break"
      /\ regBlocks = <<>> /\ Moved
      /\ UNCHANGED <<regBlocks, instr, place>>
      /\ pc' = IF b = N - 1 THEN "flow" ELSE "break"
  BY DEF LoopInv, iCodeBreakDown, flowVars, regionVars
<1>1. IF dest = {}
      THEN bbOrder' = order /\ UNCHANGED <<ech, preHeader>>
      ELSE /\ bbOrder' = InsertAt(order, at, N + h)
           /\ ech' = replaceLabel(ToSet(SubSeq(order, 1, at - 1)), h)
           /\ preHeader' = [preHeader EXCEPT ![h] = N + h]
  BY DEF iCodeBreakDown
<1>2. dest # {} => h \in Labels(b) /\ h \in ToSet(order) /\ preHeader[h] = None
  OBVIOUS
<1> HIDE DEF b, dest, h
<1>3. /\ b \in 0 .. N - 1 /\ b \notin ToSet(bbOrder)
      /\ ToSet(bbOrder) = 0 .. b - 1 \cup {N + g : g \in Fronted}
      /\ Fronted \subseteq 1 .. b - 1
      /\ \A x \in b .. N - 1 : Labels(x) \subseteq 1 .. N - 1
  BY <1>0, NextBlock DEF b
<1>4. /\ order \in Seq(DOMAIN ech)
      /\ ToSet(order) = 0 .. b \cup {N + g : g \in Fronted}
      /\ \A j, k \in DOMAIN order : j < k => Key(order[j]) < Key(order[k])
  BY <1>0, <1>3, OrderGrows
<1> HIDE DEF order, at
<1>5. CASE dest = {}
  <2>1. bbOrder' = order /\ ech' = ech /\ preHeader' = preHeader
    BY <1>1, <1>5
  <2>2. /\ Fronted' = Fronted /\ Source' = Source /\ Preheaders'
        /\ \A x : Labels(x)' = Labels(x)
    BY <1>0, <2>1 DEF Fronted, Source, Preheaders, Labels
  <2>3. /\ b + 1 \in 0 .. N
        /\ \A x \in b + 1 .. N - 1 : Labels(x)' \subseteq 0 .. N - 1
        /\ ToSet(bbOrder') = 0 .. (b + 1) - 1 \cup {N + g : g \in Fronted'}
        /\ Fronted' \subseteq 1 .. (b + 1) - 1
        /\ pc' = "break" => b + 1 < N
        /\ pc' = "flow" => b + 1 = N
    <3>0. N \in Nat \ {0, 1} /\ 0 .. (b + 1) - 1 = 0 .. b
      BY <1>3, BlocksFinite
    <3>1. \A x \in b + 1 .. N - 1 : Labels(x)' \subseteq 0 .. N - 1
      <4> TAKE x \in b + 1 .. N - 1
      <4>1. x \in b .. N - 1 /\ Labels(x)' = Labels(x)
        BY <1>3, <2>2, <3>0
      <4> QED
        BY <1>3, <4>1
    <3>2. ToSet(bbOrder') = 0 .. (b + 1) - 1 \cup {N + g : g \in Fronted'}
      BY <1>4, <2>1, <2>2, <3>0
    <3>3. Fronted' \subseteq 1 .. (b + 1) - 1
      BY <1>3, <2>2, <3>0
    <3>4. b + 1 \in 0 .. N /\ (pc' = "break" => b + 1 < N) /\ (pc' = "flow" => b + 1 = N)
      BY <1>0, <1>3, <3>0
    <3> QED
      BY <3>1, <3>2, <3>3, <3>4
  <2>4. /\ Source' \in Functions
        /\ \A g \in Fronted' : ech'[N + g] = Plain
        /\ \A g \in Fronted' : \A x \in 0 .. g - 1 : g \notin Labels(x)'
    BY <1>0, <2>1, <2>2 DEF Broken
  <2>5. \A j, k \in DOMAIN bbOrder' : j < k => Key(bbOrder'[j]) < Key(bbOrder'[k])
    BY <1>4, <2>1
  <2>6. Broken'
    BY <2>3, <2>4, <2>5 DEF Broken
  <2>7. bbOrder' \in Seq(DOMAIN ech')
    BY <1>4, <2>1
  <2> QED
    BY <1>0, <2>2, <2>6, <2>7 DEF LoopInv, Moved
<1>6. CASE dest # {}
  <2>1. /\ bbOrder' = InsertAt(order, at, N + h)
        /\ ech' = replaceLabel(ToSet(SubSeq(order, 1, at - 1)), h)
        /\ preHeader' = [preHeader EXCEPT ![h] = N + h]
        /\ h \in Labels(b) /\ h \in ToSet(order) /\ preHeader[h] = None
    BY <1>1, <1>2, <1>6
  <2>2. at \in 1 .. Len(order) /\ order[at] = h
    BY <1>4, <2>1, PositionOf DEF at
  <2>3. Preheaders' /\ Broken' /\ bbOrder' \in Seq(DOMAIN ech')
    BY <1>0, <1>3, <1>4, <2>1, <2>2, PreheaderMade
  <2> QED
    BY <1>0, <2>3 DEF LoopInv, Moved
<1> QED
  BY <1>5, <1>6
-----------------------------------------------------------------------------
(* computeControlFlow, with the preheaders in place.                       *)

LEMMA KeyIs ==
  /\ \A b \in Blocks : Key(b) \in Nat
  /\ \A b \in 0 .. N - 1 : Key(b) = 2 * b + 1 /\ Key(N + b) = 2 * b /\ b \in Blocks /\ N + b \in Blocks
  /\ \A b \in 0 .. N - 1 : Origin(b) = b /\ Origin(N + b) = b
  /\ \A b \in Blocks : \A x \in 0 .. N - 1 :
       /\ Key(b) = 2 * x + 1 => b = x
       /\ Key(b) = 2 * x => b = N + x
<1>1. N \in Nat \ {0, 1} /\ Blocks = 0 .. 2 * N - 1
  BY BlocksFinite
<1>2. ASSUME NEW b \in Blocks, NEW x \in 0 .. N - 1
      PROVE  /\ Key(b) = 2 * x + 1 => b = x
             /\ Key(b) = 2 * x => b = N + x
  <2>1. b \in Int /\ (b >= N => Key(b) = 2 * (b - N)) /\ (b < N => Key(b) = 2 * b + 1)
    BY <1>1 DEF Key
  <2> QED
    BY <1>1, <2>1
<1> QED
  BY <1>1, <1>2 DEF Key, Origin

\* Neighbours in an order.
LEMMA Neighbours ==
  ASSUME NEW D \in SUBSET Blocks, NEW order \in Seq(D), ToSet(order) = D,
         \A j, k \in DOMAIN order : j < k => Key(order[j]) < Key(order[k]),
         NEW k \in DOMAIN order
  PROVE  /\ order[k] \in D
         /\ k = Len(order) => \A z \in D : Key(z) <= Key(order[k])
         /\ k # Len(order) =>
              /\ order[k + 1] \in D /\ Key(order[k]) < Key(order[k + 1])
              /\ \A z \in D : Key(z) <= Key(order[k]) \/ Key(order[k + 1]) <= Key(z)
<1>0. /\ Len(order) \in Nat /\ DOMAIN order = 1 .. Len(order)
      /\ \A j \in DOMAIN order : order[j] \in D /\ Key(order[j]) \in Nat
  BY KeyIs
<1>1. ASSUME NEW z \in D PROVE \E j \in DOMAIN order : z = order[j]
  BY DEF ToSet
<1>2. ASSUME NEW i \in DOMAIN order, NEW j \in DOMAIN order, i <= j
      PROVE  Key(order[i]) <= Key(order[j])
  <2>1. i = j \/ i < j
    BY <1>0, <1>2
  <2> QED
    BY <1>0, <2>1
<1>3. ASSUME k = Len(order), NEW z \in D PROVE Key(z) <= Key(order[k])
  <2>1. PICK j \in DOMAIN order : z = order[j]
    BY <1>1
  <2>2. j <= k
    BY <1>0, <1>3
  <2> QED
    BY <1>2, <2>1, <2>2
<1>4. ASSUME k # Len(order)
      PROVE  /\ order[k + 1] \in D /\ Key(order[k]) < Key(order[k + 1])
             /\ \A z \in D : Key(z) <= Key(order[k]) \/ Key(order[k + 1]) <= Key(z)
  <2>1. k + 1 \in DOMAIN order /\ k < k + 1
    BY <1>0, <1>4
  <2>2. ASSUME NEW z \in D PROVE Key(z) <= Key(order[k]) \/ Key(order[k + 1]) <= Key(z)
    <3>1. PICK j \in DOMAIN order : z = order[j]
      BY <1>1
    <3>2. j <= k \/ k + 1 <= j
      BY <1>0
    <3> QED
      BY <1>2, <2>1, <3>1, <3>2
  <2> QED
    BY <1>0, <2>1, <2>2
<1> QED
  BY <1>0, <1>3, <1>4

\* The block that control falls into.
Follower(x) == IF x >= N THEN x - N ELSE IF x + 1 \in Fronted THEN N + (x + 1) ELSE x + 1

LEMMA FollowerIs ==
  ASSUME DOMAIN ech = 0 .. N - 1 \cup {N + h : h \in Fronted}, Fronted \subseteq 1 .. N - 1,
         NEW x \in DOMAIN ech, NEW y \in DOMAIN ech, Key(x) < Key(y),
         \A z \in DOMAIN ech : Key(z) <= Key(x) \/ Key(y) <= Key(z)
  PROVE  y = Follower(x)
<1>0. N \in Nat \ {0, 1} /\ DOMAIN ech \in SUBSET Blocks /\ Key(x) \in Nat /\ Key(y) \in Nat
  <2>1. N \in Nat \ {0, 1} /\ Blocks = 0 .. 2 * N - 1
    BY BlocksFinite
  <2>2. DOMAIN ech \in SUBSET Blocks
    BY <2>1
  <2> QED
    BY <2>1, <2>2, KeyIs
<1>1. CASE x >= N
  <2>1. PICK h \in Fronted : x = N + h
    BY <1>0, <1>1
  <2>2. h \in 0 .. N - 1 /\ h \in DOMAIN ech /\ Key(x) = 2 * h /\ Key(h) = 2 * h + 1
    BY <1>0, <2>1, KeyIs
  <2>3. Key(y) = 2 * h + 1
    BY <1>0, <2>2
  <2>4. y = h
    BY <1>0, <2>2, <2>3, KeyIs
  <2> QED
    BY <1>0, <1>1, <2>1, <2>2, <2>4 DEF Follower
<1>2. CASE x < N
  <2>1. x \in 0 .. N - 1 /\ Key(x) = 2 * x + 1
    BY <1>0, <1>2, KeyIs
  <2>2. x # N - 1
    <3> SUFFICES ASSUME x = N - 1 PROVE FALSE
      OBVIOUS
    <3>1. y \in Blocks /\ Key(y) = IF y >= N THEN 2 * (y - N) ELSE 2 * y + 1
      BY <1>0 DEF Key
    <3> QED
      BY <1>0, <2>1, <3>1, BlocksFinite
  <2>3. x + 1 \in 0 .. N - 1 /\ x + 1 \in DOMAIN ech /\ Key(x + 1) = 2 * (x + 1) + 1
    BY <1>0, <2>1, <2>2, KeyIs
  <2>4. Key(y) = 2 * (x + 1) \/ Key(y) = 2 * (x + 1) + 1
    BY <1>0, <2>1, <2>3
  <2>5. CASE x + 1 \in Fronted
    <3>1. N + (x + 1) \in DOMAIN ech /\ Key(N + (x + 1)) = 2 * (x + 1)
      BY <2>3, <2>5, KeyIs
    <3>2. Key(y) = 2 * (x + 1)
      BY <1>0, <2>1, <2>4, <3>1
    <3>3. y = N + (x + 1)
      BY <1>0, <2>3, <3>2, KeyIs
    <3> QED
      BY <1>0, <1>2, <2>1, <2>5, <3>3 DEF Follower
  <2>6. CASE x + 1 \notin Fronted
    <3>1. y # N + (x + 1)
      <4>1. N + (x + 1) \notin 0 .. N - 1 /\ \A h \in Fronted : N + h # N + (x + 1)
        BY <1>0, <2>3, <2>6
      <4> QED
        BY <4>1
    <3>2. y = x + 1
      BY <1>0, <2>3, <2>4, <3>1, KeyIs
    <3> QED
      BY <1>0, <1>2, <2>1, <2>6, <3>2 DEF Follower
  <2> QED
    BY <2>5, <2>6
<1> QED
  BY <1>0, <1>1, <1>2, BlocksFinite
\* The flow graph of the function with its preheaders.
FlowEdges == EdgesOf(ech, bbOrder)

LEMMA FlowEdgesAre ==
  ASSUME Preheaders, Broken, bbOrder \in Seq(DOMAIN ech), pc = "flow"
  PROVE  /\ ToSet(bbOrder) = DOMAIN ech /\ Fronted \subseteq 1 .. N - 1
         /\ FlowEdges \subseteq (DOMAIN ech) \X (DOMAIN ech)
         /\ \A x, y : <<x, y>> \in FlowEdges <=>
              /\ x \in DOMAIN ech
              /\ y \in Labels(x) \/ (ech[x].op \notin Leaves /\ x # N - 1 /\ y = Follower(x))
<1>0. /\ N \in Nat \ {0, 1} /\ DOMAIN ech = 0 .. N - 1 \cup {N + h : h \in Fronted}
      /\ DOMAIN ech \in SUBSET Blocks
  BY BlocksFinite, NamesAre DEF Preheaders
<1>1. ToSet(bbOrder) = DOMAIN ech /\ Fronted \subseteq 1 .. N - 1
  BY <1>0 DEF Broken
<1> DEFINE last == Len(bbOrder)
<1>2. ASSUME NEW k \in DOMAIN bbOrder
      PROVE  /\ bbOrder[k] \in DOMAIN ech
             /\ k = last => \A z \in DOMAIN ech : Key(z) <= Key(bbOrder[k])
             /\ k # last =>
                  /\ bbOrder[k + 1] \in DOMAIN ech /\ Key(bbOrder[k]) < Key(bbOrder[k + 1])
                  /\ \A z \in DOMAIN ech : Key(z) <= Key(bbOrder[k]) \/ Key(bbOrder[k + 1]) <= Key(z)
  <2>1. \A j, i \in DOMAIN bbOrder : j < i => Key(bbOrder[j]) < Key(bbOrder[i])
    BY DEF Broken
  <2> QED
    BY <1>0, <1>1, <2>1, Neighbours
<1>3. \A x \in DOMAIN ech : Key(x) \in Nat /\ Key(x) <= 2 * (N - 1) + 1
  <2> TAKE x \in DOMAIN ech
  <2>1. x \in Blocks
    BY <1>0
  <2> QED
    BY <1>0, <2>1, BlocksFinite DEF Key
<1>4. Key(N - 1) = 2 * (N - 1) + 1 /\ N - 1 \in DOMAIN ech
  BY <1>0, KeyIs
<1>5. ASSUME NEW k \in DOMAIN bbOrder
      PROVE  /\ k = last <=> bbOrder[k] = N - 1
             /\ k # last => bbOrder[k + 1] = Follower(bbOrder[k])
  <2>1. k = last => bbOrder[k] = N - 1
    <3> HAVE k = last
    <3>1. Key(bbOrder[k]) = 2 * (N - 1) + 1 /\ bbOrder[k] \in Blocks
      BY <1>0, <1>2, <1>3, <1>4
    <3> QED
      BY <1>0, <3>1, KeyIs
  <2>2. k # last => bbOrder[k] # N - 1
    <3> HAVE k # last
    <3>1. Key(bbOrder[k]) < Key(bbOrder[k + 1]) /\ bbOrder[k + 1] \in DOMAIN ech
      BY <1>2
    <3>2. Key(bbOrder[k + 1]) <= 2 * (N - 1) + 1
      BY <1>3, <3>1
    <3> QED
      BY <1>0, <1>3, <1>4, <3>1, <3>2
  <2>3. k # last => bbOrder[k + 1] = Follower(bbOrder[k])
    BY <1>0, <1>1, <1>2, FollowerIs
  <2> QED
    BY <2>1, <2>2, <2>3
<1> HIDE DEF last
<1>6. ASSUME NEW x, NEW y
      PROVE  <<x, y>> \in FlowEdges <=>
               /\ x \in DOMAIN ech
               /\ y \in Labels(x) \/ (ech[x].op \notin Leaves /\ x # N - 1 /\ y = Follower(x))
  <2>1. <<x, y>> \in FlowEdges <=>
          \E k \in DOMAIN bbOrder :
             /\ x = bbOrder[k]
             /\ \/ y \in ToSet(ech[x].labels)
                \/ ech[x].op \notin Leaves /\ k # last /\ y = bbOrder[k + 1]
    BY EdgeIs DEF FlowEdges, last
  <2>2. x \in DOMAIN ech <=> \E k \in DOMAIN bbOrder : x = bbOrder[k]
    BY <1>1 DEF ToSet
  <2> QED
    BY <1>5, <2>1, <2>2 DEF Labels
<1>7. ASSUME NEW x \in DOMAIN ech, x # N - 1 PROVE Follower(x) \in DOMAIN ech
  <2>1. PICK k \in DOMAIN bbOrder : x = bbOrder[k]
    BY <1>1 DEF ToSet
  <2> QED
    BY <1>2, <1>5, <1>7, <2>1
<1>8. \A x \in DOMAIN ech : Labels(x) \subseteq DOMAIN ech
  <2> TAKE x \in DOMAIN ech
  <2>1. ech[x].labels \in Seq(DOMAIN ech)
    BY DEF Preheaders
  <2> QED
    BY <2>1 DEF Labels, ToSet
<1>9. FlowEdges \subseteq (DOMAIN ech) \X (DOMAIN ech)
  <2> SUFFICES ASSUME NEW x \in FlowEdges PROVE x \in (DOMAIN ech) \X (DOMAIN ech)
    OBVIOUS
  <2>1. x = <<x[1], x[2]>>
    BY EdgesArePairs DEF FlowEdges
  <2>2. x[1] \in DOMAIN ech /\ x[2] \in DOMAIN ech
    BY <1>6, <1>7, <1>8, <2>1
  <2> QED
    BY <2>1, <2>2
<1> QED
  BY <1>1, <1>6, <1>9

\* The edges of the function without them.
LEMMA SourceEdgesAre ==
  ASSUME Preheaders, Broken
  PROVE  /\ SourceEdges \in SUBSET (Blocks \X Blocks)
         /\ \A x \in SourceEdges : x[1] \in 0 .. N - 1 /\ x[2] \in 0 .. N - 1
         /\ \A x, y : <<x, y>> \in SourceEdges <=>
              /\ x \in 0 .. N - 1
              /\ \/ \E l \in Labels(x) : y = Origin(l)
                 \/ ech[x].op \notin Leaves /\ x # N - 1 /\ y = x + 1
<1>0. N \in Nat \ {0, 1} /\ Blocks = 0 .. 2 * N - 1
  BY BlocksFinite
<1>1. /\ DOMAIN SourceOrder = 1 .. N /\ Len(SourceOrder) = N
      /\ \A k \in 1 .. N : SourceOrder[k] = k - 1
  BY <1>0 DEF SourceOrder
<1>2. ASSUME NEW x, NEW y
      PROVE  <<x, y>> \in SourceEdges <=>
               /\ x \in 0 .. N - 1
               /\ \/ \E l \in Labels(x) : y = Origin(l)
                  \/ ech[x].op \notin Leaves /\ x # N - 1 /\ y = x + 1
  <2>1. <<x, y>> \in SourceEdges <=>
          \E k \in 1 .. N :
             /\ x = k - 1
             /\ \/ y \in ToSet(Source[x].labels)
                \/ Source[x].op \notin Leaves /\ k # N /\ y = SourceOrder[k + 1]
    <3>1. <<x, y>> \in SourceEdges <=>
            \E k \in DOMAIN SourceOrder :
               /\ x = SourceOrder[k]
               /\ \/ y \in ToSet(Source[x].labels)
                  \/ Source[x].op \notin Leaves /\ k # Len(SourceOrder) /\ y = SourceOrder[k + 1]
      BY DEF EdgesOf, SourceEdges
    <3> QED
      BY <1>1, <3>1
  <2>2. ASSUME NEW k \in 1 .. N, x = k - 1
        PROVE  /\ x \in 0 .. N - 1
               /\ y \in ToSet(Source[x].labels) <=> \E l \in Labels(x) : y = Origin(l)
               /\ Source[x].op = ech[x].op
               /\ k # N <=> x # N - 1
               /\ k # N => SourceOrder[k + 1] = x + 1
    <3>1. x \in 0 .. N - 1 /\ (k # N <=> x # N - 1)
      BY <1>0, <2>2
    <3>2. k # N => SourceOrder[k + 1] = x + 1
      <4> HAVE k # N
      <4>1. k + 1 \in 1 .. N /\ (k + 1) - 1 = x + 1
        BY <1>0, <2>2
      <4> QED
        BY <1>1, <4>1
    <3>3. /\ Source[x].op = ech[x].op
          /\ ToSet(Source[x].labels) = {Origin(l) : l \in Labels(x)}
      BY <3>1, SourceIs DEF Broken
    <3> QED
      BY <3>1, <3>2, <3>3
  <2>3. x \in 0 .. N - 1 <=> \E k \in 1 .. N : x = k - 1
    <3>1. ASSUME x \in 0 .. N - 1 PROVE x + 1 \in 1 .. N /\ x = (x + 1) - 1
      BY <1>0, <3>1
    <3> QED
      BY <1>0, <3>1
  <2> QED
    BY <2>1, <2>2, <2>3
<1>3. ASSUME NEW x \in SourceEdges
      PROVE  x \in Blocks \X Blocks /\ x[1] \in 0 .. N - 1 /\ x[2] \in 0 .. N - 1
  <2>1. x = <<x[1], x[2]>>
    BY EdgesArePairs DEF SourceEdges
  <2>2. /\ x[1] \in 0 .. N - 1
        /\ \/ \E l \in Labels(x[1]) : x[2] = Origin(l)
           \/ x[1] # N - 1 /\ x[2] = x[1] + 1
    BY <1>2, <2>1
  <2>3. \A l \in Labels(x[1]) : Origin(l) \in 1 .. N - 1
    BY <2>2, SourceIs DEF Broken
  <2>4. x[2] \in 0 .. N - 1
    BY <1>0, <2>2, <2>3
  <2>5. x[1] \in Blocks /\ x[2] \in Blocks
    BY <1>0, <2>2, <2>4
  <2> QED
    BY <2>1, <2>2, <2>4, <2>5
<1> QED
  BY <1>2, <1>3
\* An edge of the flow graph is one of the source, but for the preheaders.
LEMMA EdgesCompared ==
  ASSUME Preheaders, Broken, bbOrder \in Seq(DOMAIN ech), pc = "flow"
  PROVE  /\ \A x \in FlowEdges : x[1] # N - 1
         /\ \A x \in FlowEdges : x[1] < N => <<x[1], Origin(x[2])>> \in SourceEdges
         /\ \A h \in Fronted : <<N + h, h>> \in FlowEdges
         /\ \A h \in Fronted : \A x \in FlowEdges : x[1] = N + h => x[2] = h
         /\ \A x \in SourceEdges :
              \/ x \in FlowEdges
              \/ x[2] \in Fronted /\ <<x[1], N + x[2]>> \in FlowEdges
         /\ \A x \in FlowEdges : x[2] \in Fronted /\ x[1] < N =>
              x[2] <= x[1] /\ x[2] \in Labels(x[1])
<1>0. /\ N \in Nat \ {0, 1} /\ DOMAIN ech = 0 .. N - 1 \cup {N + h : h \in Fronted}
      /\ DOMAIN ech \in SUBSET Blocks /\ Fronted \subseteq 1 .. N - 1
      /\ FlowEdges \subseteq (DOMAIN ech) \X (DOMAIN ech)
  BY BlocksFinite, NamesAre, FlowEdgesAre DEF Preheaders
<1>1. \A x, y : <<x, y>> \in FlowEdges <=>
        /\ x \in DOMAIN ech
        /\ y \in Labels(x) \/ (ech[x].op \notin Leaves /\ x # N - 1 /\ y = Follower(x))
  BY FlowEdgesAre
<1>2. \A x, y : <<x, y>> \in SourceEdges <=>
        /\ x \in 0 .. N - 1
        /\ \/ \E l \in Labels(x) : y = Origin(l)
           \/ ech[x].op \notin Leaves /\ x # N - 1 /\ y = x + 1
  BY SourceEdgesAre
<1>3. ASSUME NEW x \in FlowEdges
      PROVE  /\ x = <<x[1], x[2]>> /\ x[1] \in DOMAIN ech /\ x[2] \in DOMAIN ech
             /\ x[2] \in Labels(x[1])
                  \/ (ech[x[1]].op \notin Leaves /\ x[1] # N - 1 /\ x[2] = Follower(x[1]))
  BY <1>0, <1>1
<1>4. \A h \in Fronted : ech[N + h] = Plain
  BY DEF Broken
<1>5. ASSUME NEW h \in Fronted
      PROVE  Labels(N + h) = {} /\ ech[N + h].op \notin Leaves /\ N + h # N - 1
             /\ Follower(N + h) = h /\ N + h \in DOMAIN ech
  <2>1. Labels(N + h) = {}
    BY <1>4 DEF Labels, Plain, ToSet
  <2>2. ech[N + h].op \notin Leaves
    BY <1>4 DEF Plain, Leaves
  <2>3. h \in 1 .. N - 1
    BY <1>0
  <2> QED
    BY <1>0, <2>1, <2>2, <2>3 DEF Follower
<1>6. \A x \in 0 .. N - 1 : x + 1 \in 0 .. N - 1 => Origin(Follower(x)) = x + 1
  <2> SUFFICES ASSUME NEW x \in 0 .. N - 1, x + 1 \in 0 .. N - 1
               PROVE  Origin(Follower(x)) = x + 1
    OBVIOUS
  <2>1. Origin(N + (x + 1)) = x + 1 /\ Origin(x + 1) = x + 1
    BY KeyIs
  <2>2. Follower(x) = N + (x + 1) \/ Follower(x) = x + 1
    BY <1>0 DEF Follower
  <2> QED
    BY <2>1, <2>2
<1>7. Source \in Functions /\ Labels(N - 1) = {} /\ \A x \in 0 .. N - 1 : \A l \in Labels(x) : l \in DOMAIN ech
  <2>1. Source \in Functions
    BY DEF Broken
  <2>2. Source[N - 1] = Plain
    BY <2>1, FunctionsAre
  <2>3. N - 1 \in 0 .. N - 1
    BY <1>0
  <2>4. ToSet(Source[N - 1].labels) = {}
    BY <2>2 DEF Plain, ToSet
  <2>5. Labels(N - 1) = {}
    <3>1. ToSet(Source[N - 1].labels) = {Origin(l) : l \in Labels(N - 1)}
      BY <2>1, <2>3, SourceIs
    <3>2. \A l \in Labels(N - 1) : Origin(l) \in {}
      BY <2>4, <3>1
    <3> QED
      BY <3>2
  <2> QED
    BY <2>1, <2>5, SourceIs
<1>8. \A x \in FlowEdges : x[1] # N - 1
  BY <1>3, <1>7
<1>9. ASSUME NEW x \in FlowEdges, x[1] < N PROVE <<x[1], Origin(x[2])>> \in SourceEdges
  <2>1. x[1] \in 0 .. N - 1 /\ x[1] # N - 1
    BY <1>0, <1>3, <1>8, <1>9
  <2>2. x[1] + 1 \in 0 .. N - 1
    BY <1>0, <2>1
  <2> QED
    BY <1>2, <1>3, <1>6, <2>1, <2>2
<1>10. ASSUME NEW x \in SourceEdges
       PROVE  x \in FlowEdges \/ (x[2] \in Fronted /\ <<x[1], N + x[2]>> \in FlowEdges)
  <2>1. /\ x = <<x[1], x[2]>> /\ x[1] \in 0 .. N - 1 /\ x[1] \in DOMAIN ech
        /\ \/ \E l \in Labels(x[1]) : x[2] = Origin(l)
           \/ ech[x[1]].op \notin Leaves /\ x[1] # N - 1 /\ x[2] = x[1] + 1
    BY <1>0, <1>2, EdgesArePairs DEF SourceEdges
  <2>2. ASSUME NEW l \in Labels(x[1]), x[2] = Origin(l)
        PROVE  x \in FlowEdges \/ (x[2] \in Fronted /\ <<x[1], N + x[2]>> \in FlowEdges)
    <3>1. l \in DOMAIN ech /\ <<x[1], l>> \in FlowEdges
      BY <1>1, <1>7, <2>1
    <3>2. CASE l \in 0 .. N - 1
      BY <2>1, <2>2, <3>1, <3>2, KeyIs
    <3>3. CASE l \notin 0 .. N - 1
      <4>1. PICK h \in Fronted : l = N + h
        BY <1>0, <3>1, <3>3
      <4>2. x[2] = h
        BY <1>0, <2>2, <4>1, KeyIs
      <4> QED
        BY <3>1, <4>1, <4>2
    <3> QED
      BY <3>2, <3>3
  <2>3. ASSUME ech[x[1]].op \notin Leaves, x[1] # N - 1, x[2] = x[1] + 1
        PROVE  x \in FlowEdges \/ (x[2] \in Fronted /\ <<x[1], N + x[2]>> \in FlowEdges)
    <3>1. <<x[1], Follower(x[1])>> \in FlowEdges
      BY <1>1, <2>1, <2>3
    <3>2. Follower(x[1]) = IF x[2] \in Fronted THEN N + x[2] ELSE x[2]
      BY <1>0, <2>1, <2>3 DEF Follower
    <3> QED
      BY <2>1, <3>1, <3>2
  <2> QED
    BY <2>1, <2>2, <2>3
<1>11. ASSUME NEW x \in FlowEdges, x[2] \in Fronted, x[1] < N
       PROVE  x[2] <= x[1] /\ x[2] \in Labels(x[1])
  <2>1. x[1] \in 0 .. N - 1 /\ x[2] \in 1 .. N - 1
    BY <1>0, <1>3, <1>11
  <2>2. x[2] # Follower(x[1])
    <3> SUFFICES ASSUME x[2] = Follower(x[1]) PROVE FALSE
      OBVIOUS
    <3>1. x[2] = N + (x[1] + 1) \/ (x[1] + 1 \notin Fronted /\ x[2] = x[1] + 1)
      BY <1>0, <2>1 DEF Follower
    <3> QED
      BY <1>0, <1>11, <2>1, <3>1
  <2>3. x[2] \in Labels(x[1])
    BY <1>3, <2>2
  <2>4. ~(x[1] < x[2])
    <3> SUFFICES ASSUME x[1] < x[2] PROVE FALSE
      OBVIOUS
    <3>1. x[1] \in 0 .. x[2] - 1
      BY <2>1
    <3> QED
      BY <1>11, <2>3, <3>1 DEF Broken
  <2> QED
    BY <2>1, <2>3, <2>4
<1>12. ASSUME NEW h \in Fronted
       PROVE  /\ <<N + h, h>> \in FlowEdges
              /\ \A x \in FlowEdges : x[1] = N + h => x[2] = h
  <2>1. <<N + h, h>> \in FlowEdges
    BY <1>1, <1>5
  <2> QED
    BY <1>3, <1>5, <2>1
<1> QED
  BY <1>8, <1>9, <1>10, <1>11, <1>12
\* Control comes to a loop that is jumped back to from inside past its preheader.
LEMMA PassesPreheader ==
  ASSUME Preheaders, Broken, bbOrder \in Seq(DOMAIN ech), pc = "flow", ~JumpsBehind,
         NEW h \in Fronted, NEW x \in FlowEdges, x[2] = h,
         \/ x[1] = h
         \/ x[1] \in From0(FlowEdges, {}) /\ x[1] \notin From0(FlowEdges, {h})
  PROVE  h \notin From0(FlowEdges, {N + h})
<1> DEFINE E == FlowEdges
           S == SourceEdges
           D == DOMAIN ech
<1>0. /\ N \in Nat \ {0, 1} /\ D = 0 .. N - 1 \cup {N + g : g \in Fronted}
      /\ D \in SUBSET Blocks /\ Fronted \subseteq 1 .. N - 1 /\ h \in 1 .. N - 1 /\ 0 \in D
      /\ E \subseteq D \X D
      /\ E \in SUBSET (Blocks \X Blocks) /\ S \in SUBSET (Blocks \X Blocks)
  <2>1. /\ N \in Nat \ {0, 1} /\ D = 0 .. N - 1 \cup {N + g : g \in Fronted}
        /\ D \in SUBSET Blocks /\ Fronted \subseteq 1 .. N - 1
        /\ E \subseteq D \X D /\ 0 \in D
    BY BlocksFinite, NamesAre, FlowEdgesAre DEF Preheaders
  <2>2. S \in SUBSET (Blocks \X Blocks)
    BY SourceEdgesAre
  <2> QED
    BY <2>1, <2>2
<1>1. /\ \A y \in E : y[1] < N => <<y[1], Origin(y[2])>> \in S
      /\ \A g \in Fronted : <<N + g, g>> \in E
      /\ \A g \in Fronted : \A y \in E : y[1] = N + g => y[2] = g
      /\ \A y \in S : y \in E \/ (y[2] \in Fronted /\ <<y[1], N + y[2]>> \in E)
      /\ \A y \in E : y[2] \in Fronted /\ y[1] < N => y[2] <= y[1] /\ y[2] \in Labels(y[1])
  BY EdgesCompared
<1>2. \A y \in S : y = <<y[1], y[2]>> /\ y[1] \in 0 .. N - 1 /\ y[2] \in 0 .. N - 1
  BY EdgesArePairs, SourceEdgesAre DEF SourceEdges
<1>3. /\ \A g \in 0 .. N - 1 : Origin(g) = g /\ Origin(N + g) = g
      /\ \A g \in D : (g \in 0 .. N - 1 /\ Origin(g) = g) \/ \E k \in Fronted : g = N + k /\ Origin(g) = k
  <2>1. \A g \in 0 .. N - 1 : Origin(g) = g /\ Origin(N + g) = g
    BY KeyIs
  <2>2. ASSUME NEW g \in D, g \notin 0 .. N - 1 PROVE \E k \in Fronted : g = N + k /\ Origin(g) = k
    <3>1. PICK k \in Fronted : g = N + k
      BY <1>0, <2>2
    <3>2. k \in 0 .. N - 1
      BY <1>0
    <3> QED
      BY <2>1, <3>1, <3>2
  <2> QED
    BY <2>1, <2>2
<1> HIDE DEF E, S, D
<1>4. \A y \in E : y[1] \in D /\ y[2] \in D /\ y = <<y[1], y[2]>>
  BY <1>0
\* Along an edge the source has one too, or stays.
<1>5. ASSUME NEW y \in E
      PROVE  \/ y[1] \in 0 .. N - 1 /\ Origin(y[1]) = y[1] /\ <<y[1], Origin(y[2])>> \in S
             \/ Origin(y[2]) = Origin(y[1]) /\ \E g \in Fronted : y[1] = N + g /\ y[2] = g
  <2>1. CASE y[1] \in 0 .. N - 1
    BY <1>0, <1>1, <1>3, <2>1
  <2>2. CASE y[1] \notin 0 .. N - 1
    <3>1. PICK g \in Fronted : y[1] = N + g /\ Origin(y[1]) = g
      BY <1>3, <1>4, <2>2
    <3>2. y[2] = g /\ g \in 0 .. N - 1
      BY <1>0, <1>1, <3>1
    <3> QED
      BY <1>3, <3>1, <3>2
  <2> QED
    BY <2>1, <2>2
<1>6. ASSUME NEW z \in From0(E, {}) PROVE Origin(z) \in From0(S, {})
  <2> DEFINE C == {y \in D : Origin(y) \in From0(S, {})}
  <2>1. 0 \in From0(S, {}) /\ \A y \in S : y[1] \in From0(S, {}) => y[2] \in From0(S, {})
    BY <1>0, From0Has
  <2>2. 0 \in C
    BY <1>0, <1>3, <2>1
  <2>3. \A y \in E : y[1] \in C => y[2] \in C
    <3> SUFFICES ASSUME NEW y \in E, y[1] \in C PROVE y[2] \in C
      OBVIOUS
    <3>1. CASE y[1] \in 0 .. N - 1 /\ Origin(y[1]) = y[1] /\ <<y[1], Origin(y[2])>> \in S
      BY <1>4, <2>1, <3>1
    <3>2. CASE Origin(y[2]) = Origin(y[1])
      BY <1>4, <3>2
    <3> QED
      BY <1>5, <3>1, <3>2
  <2> HIDE DEF C
  <2>4. From0(E, {}) \subseteq C
    BY <1>0, <2>2, <2>3, From0Least
  <2> QED
    BY <2>4 DEF C
\* What the source comes to before h is come to before h.
<1>7. From0(S, {h}) \subseteq From0(E, {h})
  <2> DEFINE C == From0(E, {h}) \cap 0 .. N - 1
  <2>1. 0 \in From0(E, {h}) /\ \A y \in E : y[1] \in From0(E, {h}) /\ y[2] # h => y[2] \in From0(E, {h})
    <3>1. 0 \notin {h} /\ E \in SUBSET (Blocks \X Blocks)
      BY <1>0
    <3> QED
      BY <3>1, From0Has
  <2>2. 0 \in C
    BY <1>0, <2>1
  <2>3. \A y \in S : y[1] \in C /\ y[2] # h => y[2] \in C
    <3> SUFFICES ASSUME NEW y \in S, y[1] \in C, y[2] # h PROVE y[2] \in C
      OBVIOUS
    <3>1. CASE y \in E
      <4>1. y[2] \in From0(E, {h})
        BY <2>1, <3>1
      <4>2. y[2] \in 0 .. N - 1
        BY <1>2
      <4> QED
        BY <4>1, <4>2
    <3>2. CASE y[2] \in Fronted /\ <<y[1], N + y[2]>> \in E
      <4>1. N + y[2] # h /\ y[2] \in 0 .. N - 1
        <5>1. \A g \in 0 .. N - 1 : N + g # h
          BY <1>0
        <5> QED
          BY <1>2, <5>1
      <4>2. N + y[2] \in From0(E, {h})
        BY <2>1, <3>2, <4>1
      <4>3. <<N + y[2], y[2]>> \in E
        BY <1>1, <3>2
      <4>4. y[2] \in From0(E, {h})
        BY <2>1, <4>2, <4>3
      <4> QED
        BY <4>1, <4>4
    <3> QED
      BY <1>1, <3>1, <3>2
  <2> HIDE DEF C
  <2>4. From0(S, {h}) \subseteq C
    BY <1>0, <2>2, <2>3, From0Least
  <2> QED
    BY <2>4 DEF C
<1>8. CASE h \notin From0(E, {})
  BY <1>0, <1>8, From0Live DEF E
<1>9. CASE h \in From0(E, {})
  \* The source jumps back to h, too, from where it comes to after h.
  <2>1. \E y \in 0 .. N - 1 : /\ <<y, h>> \in S /\ y \in From0(S, {})
                              /\ y \notin From0(S, {h})
    <3>1. h \in From0(S, {}) /\ h \notin From0(S, {h})
      <4>1. Origin(h) = h
        BY <1>0, <1>3
      <4> QED
        BY <1>0, <1>6, <1>9, <4>1, From0Has
    <3>2. CASE x[1] = h
      <4>1. <<h, h>> \in S
        <5>1. x \in E /\ x[1] < N /\ Origin(x[2]) = h
          BY <1>0, <1>3, <3>2 DEF E
        <5> QED
          BY <1>1, <3>2, <5>1
      <4>2. h \in 0 .. N - 1
        BY <1>0
      <4> QED
        BY <3>1, <4>1, <4>2
    <3>3. ASSUME NEW y \in E, y[1] \in 0 .. N - 1, Origin(y[2]) = h,
                 y[1] \in From0(E, {}), y[1] \notin From0(E, {h})
          PROVE  /\ <<y[1], h>> \in S /\ y[1] \in From0(S, {}) /\ y[1] \notin From0(S, {h})
      <4>1. <<y[1], h>> \in S
        BY <1>0, <1>1, <3>3
      <4>2. y[1] \in From0(S, {})
        BY <1>3, <1>6, <3>3
      <4> QED
        BY <1>7, <3>3, <4>1, <4>2
    <3>4. CASE x[1] # h /\ x[1] \in 0 .. N - 1
      <4>1. x \in E /\ x[1] \in From0(E, {}) /\ x[1] \notin From0(E, {h}) /\ Origin(x[2]) = h
        BY <1>0, <1>3, <3>4 DEF E
      <4> QED
        BY <3>3, <3>4, <4>1
    <3>5. CASE x[1] # h /\ x[1] \notin 0 .. N - 1
      \* It is the preheader: what comes to it does.
      <4>1. x \in E /\ x[1] \in From0(E, {}) /\ x[1] \notin From0(E, {h})
        BY <3>5 DEF E
      <4>2. x[1] = N + h /\ N + h # 0 /\ N + h # h
        <5>1. PICK g \in Fronted : x[1] = N + g
          BY <1>3, <1>4, <3>5, <4>1
        <5>2. x[2] = g
          BY <1>1, <4>1, <5>1
        <5> QED
          BY <1>0, <5>1, <5>2
      <4>3. \E y \in E : y[2] = N + h /\ y[1] \in From0(E, {})
        <5> DEFINE C == From0(E, {}) \ {N + h}
        <5> SUFFICES ASSUME \A y \in E : y[2] = N + h => y[1] \notin From0(E, {}) PROVE FALSE
          OBVIOUS
        <5>1. 0 \in From0(E, {}) /\ \A y \in E : y[1] \in From0(E, {}) => y[2] \in From0(E, {})
          BY <1>0, From0Has
        <5>2. 0 \in C
          BY <4>2, <5>1
        <5>3. \A y \in E : y[1] \in C => y[2] \in C
          BY <5>1
        <5> HIDE DEF C
        <5>4. From0(E, {}) \subseteq C
          BY <1>0, <5>2, <5>3, From0Least
        <5>5. N + h \notin C
          BY DEF C
        <5> QED
          BY <4>1, <4>2, <5>4, <5>5
      <4>4. PICK y \in E : y[2] = N + h /\ y[1] \in From0(E, {})
        BY <4>3
      <4>5. y[1] \notin From0(E, {h})
        <5>1. y[1] \in From0(E, {h}) /\ y[2] \notin {h} => y[2] \in From0(E, {h})
          BY <1>0, From0Has
        <5> QED
          BY <4>1, <4>2, <4>4, <5>1
      <4>6. y[1] \in 0 .. N - 1 /\ Origin(y[2]) = h
        <5>1. \A g \in 0 .. N - 1 : g # N + h
          BY <1>0
        <5>2. y[1] \in 0 .. N - 1
          <6> SUFFICES ASSUME y[1] \notin 0 .. N - 1 PROVE FALSE
            OBVIOUS
          <6>1. PICK g \in Fronted : y[1] = N + g
            BY <1>3, <1>4
          <6>2. y[2] = g /\ g \in 0 .. N - 1
            BY <1>0, <1>1, <6>1
          <6> QED
            BY <4>4, <5>1, <6>2
        <5>3. h \in 0 .. N - 1
          BY <1>0
        <5> QED
          BY <1>3, <4>4, <5>2, <5>3
      <4> QED
        BY <3>3, <4>4, <4>5, <4>6
    <3> QED
      BY <3>2, <3>4, <3>5
  <2>2. PICK y \in 0 .. N - 1 : <<y, h>> \in S /\ y \in From0(S, {}) /\ y \notin From0(S, {h})
    BY <2>1
  \* So that each jump back to h comes from inside.
  <2>3. ASSUME NEW z \in 0 .. N - 1, h \in Labels(z), h <= z
        PROVE  z \notin From0(S, {h})
    <3> DEFINE dominance == Dominance(S)
               loopEntries == {w[2] : w \in Back(S, dominance)}
    <3>1. <<h, y>> \in dominance
      <4>1. h \in From0(S, {})
        BY <1>0, <1>3, <1>6, <1>9
      <4> QED
        BY <1>0, <2>2, <4>1, DominanceIs
    <3>2. h \in loopEntries
      <4>1. <<y, h>> \in Back(S, dominance)
        BY <2>2, <3>1 DEF Back
      <4> QED
        BY <4>1
    <3>3. z \in DOMAIN Source /\ h \in ToSet(Source[z].labels)
      <4>1. Source \in Functions /\ DOMAIN Source = 0 .. N - 1 /\ Origin(h) = h
        BY <1>0, <1>3 DEF Broken, Source
      <4>2. ToSet(Source[z].labels) = {Origin(l) : l \in Labels(z)}
        BY <4>1, SourceIs
      <4> QED
        BY <2>3, <4>1, <4>2
    <3>4. JumpsFromInside(Source, S, dominance)
      BY FunctionsAre DEF Broken, S, SourceEdges
    <3> HIDE DEF dominance
    <3>5. <<h, z>> \in dominance
      BY <2>3, <3>2, <3>3, <3>4 DEF JumpsFromInside
    <3> QED
      BY <1>0, <3>5, DominanceIs DEF dominance
  <2> DEFINE C == {z \in D : Origin(z) \in From0(S, {h})}
  <2>4. 0 \in From0(S, {h}) /\ h \notin From0(S, {h})
        /\ \A w \in S : w[1] \in From0(S, {h}) /\ w[2] # h => w[2] \in From0(S, {h})
    <3>1. 0 \notin {h} /\ S \in SUBSET (Blocks \X Blocks)
      BY <1>0
    <3>2. 0 \in From0(S, {h}) /\ From0(S, {h}) \cap {h} = {}
      BY <3>1, From0Has
    <3>3. \A w \in S : w[1] \in From0(S, {h}) /\ w[2] \notin {h} => w[2] \in From0(S, {h})
      BY <3>1, From0Has
    <3> QED
      BY <3>2, <3>3
  <2>5. 0 \in C
    BY <1>0, <1>3, <2>4
  <2>6. \A w \in E : w[1] \in C /\ w[2] # N + h => w[2] \in C
    <3> SUFFICES ASSUME NEW w \in E, w[1] \in C, w[2] # N + h PROVE w[2] \in C
      OBVIOUS
    <3>1. CASE w[1] \in 0 .. N - 1 /\ Origin(w[1]) = w[1] /\ <<w[1], Origin(w[2])>> \in S
      <4>1. CASE Origin(w[2]) # h
        BY <1>4, <2>4, <3>1, <4>1
      <4>2. CASE Origin(w[2]) = h
        <5>1. w[2] = h
          BY <1>3, <1>4, <4>2
        <5>2. h <= w[1] /\ h \in Labels(w[1])
          <6>1. w[1] < N
            BY <1>0, <3>1
          <6> QED
            BY <1>1, <5>1, <6>1
        <5>3. w[1] \notin From0(S, {h})
          BY <2>3, <3>1, <5>2
        <5> QED
          BY <3>1, <5>3
      <4> QED
        BY <4>1, <4>2
    <3>2. CASE Origin(w[2]) = Origin(w[1])
      BY <1>4, <3>2
    <3> QED
      BY <1>5, <3>1, <3>2
  <2>7. h \notin C
    BY <1>0, <1>3, <2>4
  <2> HIDE DEF C
  <2>8. From0(E, {N + h}) \subseteq C
    BY <1>0, <2>5, <2>6, From0Least
  <2> QED
    BY <2>7, <2>8 DEF E
<1> QED
  BY <1>8, <1>9
LEMMA FlowComputed ==
  ASSUME LoopInv, computeControlFlow PROVE LoopInv'
<1>0. /\ Preheaders /\ Broken /\ bbOrder \in Seq(DOMAIN ech) /\ pc = "flow" /\ pc' = "regions"
      /\ regBlocks = <<>> /\ Moved
      /\ UNCHANGED <<ech, bbOrder, preHeader, regBlocks, instr, place>>
  BY DEF LoopInv, computeControlFlow, regionVars
<1>1. graphEdges' = FlowEdges /\ domVect' = Dominators(FlowEdges)
  BY DEF computeControlFlow, FlowEdges
<1>2. /\ Fronted' = Fronted /\ Preheaders' /\ regBlocks' = <<>> /\ Moved'
      /\ bbOrder' \in Seq(DOMAIN ech')
  BY <1>0 DEF Fronted, Preheaders, Moved
<1>3. /\ ToSet(bbOrder) = DOMAIN ech /\ FlowEdges \subseteq (DOMAIN ech) \X (DOMAIN ech)
      /\ DOMAIN ech \in SUBSET Blocks
      /\ FlowEdges \in SUBSET (Blocks \X Blocks)
  <2>1. /\ ToSet(bbOrder) = DOMAIN ech /\ FlowEdges \subseteq (DOMAIN ech) \X (DOMAIN ech)
        /\ DOMAIN ech \in SUBSET Blocks
    BY <1>0, NamesAre, FlowEdgesAre
  <2> QED
    BY <2>1
<1>4. /\ \A x \in FlowEdges : x[1] # N - 1
      /\ \A h \in Fronted : \A x \in FlowEdges : x[1] = N + h => x[2] = h
  BY <1>0, EdgesCompared
<1>5. Flow'
  <2>1. (ToSet(bbOrder) = DOMAIN ech)'
    BY <1>0, <1>3
  <2>2. graphEdges' = EdgesOf(ech', bbOrder')
    BY <1>0, <1>1 DEF FlowEdges
  <2>3. graphEdges' \subseteq (DOMAIN ech') \X (DOMAIN ech')
    BY <1>0, <1>1, <1>3
  <2>4. domVect' = Dominators(graphEdges)'
    BY <1>0, <1>1 DEF Dominators
  <2>5. \A x \in graphEdges' : x[1] # N - 1
    BY <1>1, <1>4
  <2>6. \A h \in Fronted' : \A x \in graphEdges' : x[1] = N + h => x[2] = h
    BY <1>1, <1>2, <1>4
  <2> QED
    BY <2>1, <2>2, <2>3, <2>4, <2>5, <2>6 DEF Flow
<1>6. Entered'
  <2> SUFFICES ASSUME ~JumpsBehind, NEW h \in Fronted, h \in Heads'
               PROVE  h \notin From0(graphEdges', {N + h})
    BY <1>2 DEF Entered, Dominates
  <2>1. PICK x \in FlowEdges : x[2] = h /\ h \in Dominators(FlowEdges)[x[1]]
    <3>1. h \in {x[2] : x \in {y \in graphEdges' : y[2] \in domVect'[y[1]]}}
      BY <1>0 DEF Heads, backEdges
    <3> QED
      BY <1>1, <3>1
  <2>2. x[1] \in ToSet(bbOrder)
    BY <1>3
  <2>3. h = x[1] \/ <<h, x[1]>> \in Dominance(FlowEdges)
    BY <1>3, <2>1, <2>2, DominatorsAre
  <2>4. \/ x[1] = h
        \/ x[1] \in From0(FlowEdges, {}) /\ x[1] \notin From0(FlowEdges, {h})
    BY <1>3, <2>3, DominanceIs
  <2>5. h \notin From0(FlowEdges, {N + h})
    BY <1>0, <2>1, <2>4, PassesPreheader
  <2> QED
    BY <1>1, <2>5
<1> QED
  BY <1>0, <1>2, <1>5, <1>6 DEF LoopInv

-----------------------------------------------------------------------------
(* The specification.                                                      *)

LEMMA LoopInit == Init => LoopInv
<1> SUFFICES ASSUME Init PROVE LoopInv
  OBVIOUS
<1>0. /\ N \in Nat \ {0, 1} /\ Blocks = 0 .. 2 * N - 1
      /\ ech \in Functions /\ bbOrder = <<>> /\ pc = "break" /\ regBlocks = <<>>
      /\ instr = None /\ place = None
      /\ preHeader = [b \in Blocks |-> None]
  BY BlocksFinite DEF Init
<1>1. Fronted = {}
  BY <1>0 DEF Fronted
<1>2. /\ ech \in [0 .. N - 1 -> [op : Leaves \cup {"PLAIN", "IFX"}, labels : Seq(1 .. N - 1)]]
      /\ \A b \in 0 .. N - 1 : ToSet(ech[b].labels) \subseteq 1 .. N - 1
  BY <1>0, FunctionsAre
<1>3. DOMAIN ech = 0 .. N - 1 /\ 1 .. N - 1 \subseteq 0 .. N - 1
  BY <1>0, <1>2
<1>4. ASSUME NEW b \in 0 .. N - 1
      PROVE  /\ ech[b] \in [op : Leaves \cup {"PLAIN", "IFX"}, labels : Seq(DOMAIN ech)]
             /\ ech[b] = [op |-> ech[b].op,
                          labels |-> [k \in DOMAIN ech[b].labels |-> Origin(ech[b].labels[k])]]
  <2> DEFINE ls == ech[b].labels
             T == 1 .. N - 1
             D == DOMAIN ech
  <2>1. /\ ech[b] \in [op : Leaves \cup {"PLAIN", "IFX"}, labels : Seq(T)]
        /\ T \subseteq D /\ \A l \in T : Origin(l) = l
    BY <1>2, <1>3, KeyIs
  <2> HIDE DEF T, D
  <2>2. ls \in Seq(T) /\ Len(ls) \in Nat /\ DOMAIN ls = 1 .. Len(ls) /\ \A k \in DOMAIN ls : ls[k] \in T
    BY <2>1
  <2>3. ls \in Seq(D)
    <3>1. ls \in [1 .. Len(ls) -> D]
      BY <2>1, <2>2
    <3>2. \A S : \A m \in Nat : \A f \in [1 .. m -> S] : f \in Seq(S)
      OBVIOUS
    <3> QED
      BY <2>2, <3>1, <3>2
  <2>4. [k \in DOMAIN ls |-> Origin(ls[k])] = ls
    <3>1. \A k \in DOMAIN ls : Origin(ls[k]) = ls[k]
      BY <2>1, <2>2
    <3>2. ls = [k \in DOMAIN ls |-> ls[k]]
      BY <2>2
    <3> QED
      BY <3>1, <3>2
  <2>5. ech[b] = [op |-> ech[b].op, labels |-> ls]
    BY <2>1
  <2>6. ech[b] \in [op : Leaves \cup {"PLAIN", "IFX"}, labels : Seq(D)]
    BY <2>1, <2>3
  <2> QED
    BY <2>4, <2>5, <2>6 DEF D
<1>5. Source = ech
  <2>1. ech = [b \in 0 .. N - 1 |-> ech[b]]
    BY <1>2
  <2> QED
    BY <1>4, <2>1 DEF Source
<1>6. Preheaders
  <2>1. DOMAIN preHeader = Blocks
        /\ \A h \in Blocks : preHeader[h] \in {None, N + h} /\ (h >= N => preHeader[h] = None)
    BY <1>0
  <2>2. DOMAIN ech = 0 .. N - 1 \cup {N + h : h \in Fronted}
    BY <1>1, <1>3
  <2> QED
    BY <1>3, <1>4, <2>1, <2>2 DEF Preheaders
<1>7. Broken
  <2>1. DOMAIN bbOrder = {} /\ ToSet(bbOrder) = {}
    BY <1>0 DEF ToSet
  <2>2. \A b \in 0 .. N - 1 : Labels(b) \subseteq 0 .. N - 1
    BY <1>2, <1>3 DEF Labels
  <2>3. 0 .. 0 - 1 = {} /\ 0 \in 0 .. N /\ 0 < N
    BY <1>0
  <2>4. ToSet(bbOrder) = 0 .. 0 - 1 \cup {N + h : h \in Fronted} /\ Fronted \subseteq 1 .. 0 - 1
    BY <1>1, <2>1, <2>3
  <2> QED
    BY <1>0, <1>1, <1>5, <2>1, <2>2, <2>3, <2>4 DEF Broken
<1>8. Moved /\ bbOrder \in Seq(DOMAIN ech)
  BY <1>0 DEF Moved
<1> QED
  BY <1>0, <1>6, <1>7, <1>8 DEF LoopInv

LEMMA LoopStays ==
  ASSUME LoopInv, UNCHANGED vars PROVE LoopInv'
<1>0. UNCHANGED <<ech, bbOrder, preHeader, graphEdges, domVect, regBlocks, containsLoops,
                  exits, todo, instr, place, pc>>
  BY DEF vars, flowVars, regionVars
<1>1. /\ Fronted' = Fronted /\ Source' = Source /\ Live' = Live /\ backEdges' = backEdges
      /\ Regions' = Regions
      /\ \A d, b : Dominates(d, b)' = Dominates(d, b)
      /\ \A b : Labels(b)' = Labels(b)
  BY <1>0 DEF Fronted, Source, Live, backEdges, Regions, Dominates, From0, Labels
<1>2. Heads' = Heads
  BY <1>0, <1>1 DEF Heads
<1>3. Preheaders => Preheaders'
  BY <1>0, <1>1 DEF Preheaders
<1>4. Broken => Broken'
  BY <1>0, <1>1 DEF Broken
<1>5. Flow => Flow'
  BY <1>0, <1>1 DEF Flow, Dominators
<1>6. Entered => Entered'
  BY <1>1, <1>2 DEF Entered
<1>7. (Region => Region') /\ (Merged => Merged') /\ (Left => Left') /\ (Moved => Moved')
  BY <1>0, <1>1 DEF Region, Merged, Left, Moved
<1>8. Loops => Loops'
  BY <1>0, <1>1 DEF Loops
<1> QED
  BY <1>0, <1>3, <1>4, <1>5, <1>6, <1>7, <1>8 DEF LoopInv
LEMMA LoopNext ==
  ASSUME LoopInv, [Next]_vars PROVE LoopInv'
<1>0. bbOrder \in Seq(DOMAIN ech)
  BY DEF LoopInv
\* What the passes up to loopOptimizations leave alone.
<1>1. ASSUME Preheaders, Flow, Moved, pc \in {"regions", "merge", "exits", "cse"},
             pc' \in {"merge", "exits", "cse", "done"}, Preheaders', Flow',
             UNCHANGED <<instr, place>>, bbOrder' \in Seq(DOMAIN ech'),
             (Entered /\ Region /\ Merged /\ Loops /\ Left)'
      PROVE  LoopInv'
  <2>1. instr = None /\ place = None
    BY <1>1 DEF Moved
  <2>2. Moved'
    BY <1>1, <2>1 DEF Moved
  <2> QED
    BY <1>1, <2>2 DEF LoopInv
<1>2. CASE iCodeBreakDown
  BY <1>2, BrokenDown
<1>3. CASE computeControlFlow
  BY <1>3, FlowComputed
<1>4. CASE createLoopRegions
  <2>1. /\ Preheaders /\ Flow /\ Moved /\ pc = "regions" /\ pc' \in {"merge", "done"}
        /\ UNCHANGED <<ech, bbOrder, preHeader, graphEdges, domVect, instr, place>>
    BY <1>4 DEF LoopInv, createLoopRegions, flowVars
  <2>2. Preheaders' /\ Flow'
    BY <2>1, FlowFrame
  <2>3. (Entered /\ Region /\ Merged /\ Loops /\ Left)'
    BY <1>4, RegionsFound
  <2> QED
    BY <1>0, <1>1, <2>1, <2>2, <2>3
<1>5. ASSUME NEW h \in Regions, mergeInnerLoops(h) PROVE LoopInv'
  <2>1. /\ Preheaders /\ Flow /\ Moved /\ pc = "merge" /\ pc' \in {"merge", "exits"}
        /\ UNCHANGED <<ech, bbOrder, preHeader, graphEdges, domVect, instr, place>>
    BY <1>5 DEF LoopInv, mergeInnerLoops, flowVars
  <2>2. Preheaders' /\ Flow'
    BY <2>1, FlowFrame
  <2>3. (Entered /\ Region /\ Merged /\ Loops /\ Left)'
    BY <1>5, RegionsMerged
  <2> QED
    BY <1>0, <1>1, <2>1, <2>2, <2>3
<1>6. CASE addToExitsMarkDepth
  <2>1. /\ Preheaders /\ Flow /\ Moved /\ pc = "exits" /\ pc' = "cse"
        /\ UNCHANGED <<ech, bbOrder, preHeader, graphEdges, domVect, instr, place>>
    BY <1>6 DEF LoopInv, addToExitsMarkDepth, flowVars
  <2>2. Preheaders' /\ Flow'
    BY <2>1, FlowFrame
  <2>3. (Entered /\ Region /\ Merged /\ Loops /\ Left)'
    BY <1>6, ExitsMarked
  <2> QED
    BY <1>0, <1>1, <2>1, <2>2, <2>3
<1>7. ASSUME NEW b \in Blocks, FoldIfx(b) PROVE LoopInv'
  <2>1. /\ Preheaders /\ Flow /\ Moved /\ pc = "cse" /\ pc' = "cse"
        /\ UNCHANGED <<bbOrder, instr, place>> /\ DOMAIN ech' = DOMAIN ech
    BY <1>7 DEF LoopInv, FoldIfx
  <2>2. Preheaders' /\ Flow'
    BY <1>7, FoldTakes
  <2>3. (Entered /\ Region /\ Merged /\ Loops /\ Left)'
    BY <1>7, FoldKeeps
  <2>4. bbOrder' \in Seq(DOMAIN ech')
    BY <1>0, <2>1
  <2> QED
    BY <1>1, <2>1, <2>2, <2>3, <2>4
<1>8. CASE loopOptimizations
  BY <1>8, ConsideredFrom
<1>9. ASSUME NEW h \in Regions, loopInvariants(h) PROVE LoopInv'
  BY <1>9, InvariantMoves
<1>10. CASE UNCHANGED vars
  BY <1>10, LoopStays
<1> QED
  BY <1>2, <1>3, <1>4, <1>5, <1>6, <1>7, <1>8, <1>9, <1>10 DEF Next

\* The invariant: the preheaders while the blocks are broken down, the flow graph,
\* the regions, and where the instruction is.
THEOREM LoopInvariant == Spec => []LoopInv
<1>1. Init => LoopInv
  BY LoopInit
<1>2. LoopInv /\ [Next]_vars => LoopInv'
  BY LoopNext
<1> QED
  BY <1>1, <1>2, PTL DEF Spec

\* createLoop, mergeRegions and mergeInnerLoops find the natural loops of every
\* function, in whatever order the regions are merged, and an inner loop comes
\* before the outer one in the order of optimisation.
THEOREM LoopsNested == Spec => []RegionsNested
<1>1. LoopInv => RegionsNested
  BY Nested
<1> QED
  BY <1>1, LoopInvariant, PTL

\* An instruction that loopInvariants moved goes where control has been before it
\* comes to where the instruction was, in every function whose loops are jumped
\* back to from inside.
THEOREM PreheaderBefore ==
  ASSUME ~JumpsBehind PROVE Spec => []MovedBefore
<1>1. LoopInv => MovedBefore
  BY Before
<1> QED
  BY <1>1, LoopInvariant, PTL

\* In those functions a moved instruction is executed only if it would have been
\* where it was, also if conditions were folded after the exits were collected.
THEOREM MovedIsExecuted ==
  ASSUME ~JumpsBehind PROVE Spec => []MovedExecutes
<1>1. LoopInv => MovedExecutes
  BY Executes
<1> QED
  BY <1>1, LoopInvariant, PTL

=============================================================================
