--------------------------- MODULE SDCCcflowProofs ---------------------------
(***************************************************************************)
(* The control flow of every function, of whatever size and shape: noPath  *)
(* marks what control cannot reach, and the dominators computeDominance    *)
(* finds from the forward edges alone are sound on every graph and exact   *)
(* on the reducible ones.                                                  *)
(***************************************************************************)
EXTENDS SDCCcflow, FiniteSetTheorems, WellFoundedInduction, NaturalsInduction, TLAPS

\* Blocks the depth first search has left.
Finished == visited \ Range1(stack)

\* What the optimisations keep of the instructions.
Labels ==
  /\ count = N
  /\ \A b \in Blocks :
       /\ Range1(ech[b].labels) \subseteq labelled
       /\ ech[b].op \in {"PLAIN", "EMPTY"} => ech[b].labels = <<>>
       /\ ech[b].op = "EMPTY" => b \notin labelled
  /\ alone \cap labelled = {}

\* The search below the block at the head of the stack: what it has left has
\* only successors it has seen, and was entered from a block that is still on
\* the stack or has been left with a smaller number.
Searching ==
  pc = "order" =>
    /\ stack # <<>> /\ stack[Len(stack)] = 0
    /\ Range1(stack) \subseteq visited
    /\ \A k, m \in 1 .. Len(stack) : k # m => stack[k] # stack[m]
    /\ \A k \in 1 .. Len(stack) - 1 : stack[k] \in Range1(succ[stack[k + 1]])
    /\ \A b \in Finished :
         /\ Range1(succ[b]) \subseteq visited
         /\ dfCount < dfnum[b]
         /\ \E p \in visited : /\ b \in Range1(succ[p])
                               /\ p \in Range1(stack) \/ dfnum[p] < dfnum[b]
    /\ Cardinality(Finished) = count - dfCount

\* The finished search: a block is entered from one that comes before it.
Searched ==
  pc \in {"preds", "dom", "done"} =>
    /\ 0 \in visited
    /\ \A b \in visited : Range1(succ[b]) \subseteq visited
    /\ \A b \in visited \ {0} :
         \E p \in visited : b \in Range1(succ[p]) /\ dfnum[p] < dfnum[b]

\* A pass of computeDominance that has changed nothing yet has left behind it
\* blocks that agree with their predecessors.
Passes ==
  pc \in {"dom", "done"} =>
    /\ predList = [b \in Blocks |->
                     {p \in Live : b \in Range1(succ[p]) /\ dfnum[b] > dfnum[p]}]
    /\ domVect[0] = {0}
    /\ pc = "dom" /\ ~change => \A j \in 1 .. i - 1 : domVect[j] = DomOf(j)
    /\ pc = "done" => \A j \in 1 .. count - 1 : domVect[j] = DomOf(j)

\* The invariant of the two algorithms on the graph they are given.
Walk == TypeOK /\ Labels /\ Searching /\ Searched /\ Passes

\* Control falls from b into x over blocks without a path.
Falls(b, x) ==
  /\ ech[b].op \notin Leaves
  /\ b < x
  /\ \A j \in b + 1 .. x - 1 : j \in noPath

\* The successors of a block are its labels and the block it falls into.
Edges ==
  pc # "call" =>
    \A b \in Live :
      /\ Range1(ech[b].labels) \subseteq Range1(succ[b])
      /\ \A x \in Range1(succ[b]) \ Range1(ech[b].labels) : x \notin noPath /\ Falls(b, x)
      /\ \A x \in Live : Falls(b, x) => x \in Range1(succ[b])

\* Only blocks without instructions are passed over on a way that control takes,
\* and none follows another one that still has a path.
NoPathEmpty ==
  /\ 0 \notin noPath
  /\ \A b \in noPath : ech[b].op # "EMPTY" => b \notin Reached({})

EmptyFollowed ==
  \A b \in Live : ech[b].op = "EMPTY" /\ b + 1 \in Blocks => b + 1 \notin noPath

VisitedReached ==
  /\ pc # "call" => visited \subseteq Live \cap Reached({})
  /\ pc \in {"dom", "done"} => Live \subseteq visited

\* As DominatorsSound, while they are being computed.
SoundSoFar ==
  pc \in {"dom", "done"} =>
    \A d \in Live : \A b \in Live \ Reached({d}) : d \in domVect[b]

\* The invariant of the graph the algorithms are given, which holds as long as no
\* condition alone in its block is folded in front of a disconnected block.
Graph ==
  /\ Walk
  /\ Edges /\ NoPathEmpty /\ EmptyFollowed /\ VisitedReached /\ SoundSoFar

-----------------------------------------------------------------------------
(* Smallest and greatest numbers, and stacks.                              *)

LEMMA LeastExists ==
  ASSUME NEW T, T \subseteq Nat, T # {}
  PROVE  \E m \in T : \A k \in T : m <= k
<1> DEFINE R == OpToRel(<, Nat)
<1>1. IsWellFoundedOn(R, Nat)
  BY NatLessThanWellFounded
<1>2. \A a, b \in Nat : a < b => <<a, b>> \in R
  BY DEF OpToRel
<1> HIDE DEF R
<1>3. PICK m \in T : \A k \in T : ~(<<k, m>> \in R)
  BY <1>1, WFMin
<1>4. \A k \in T : ~(k < m)
  BY <1>2, <1>3
<1> QED
  BY <1>4

LEMMA LeastIs ==
  ASSUME NEW T, T \subseteq Nat, T # {}
  PROVE  Least(T) \in T /\ \A k \in T : Least(T) <= k
BY LeastExists DEF Least

\* The smallest element of T by a measure f.
LEMMA LeastBy ==
  ASSUME NEW T, NEW f, T # {}, \A t \in T : f[t] \in Nat
  PROVE  \E m \in T : \A k \in T : f[m] <= f[k]
<1> DEFINE V == {f[t] : t \in T}
<1>1. V \subseteq Nat /\ V # {}
  <2>1. PICK t \in T : TRUE
    OBVIOUS
  <2>2. f[t] \in V
    OBVIOUS
  <2>3. V \subseteq Nat
    OBVIOUS
  <2> QED
    BY <2>2, <2>3
<1>2. \E v \in V : \A w \in V : v <= w
  <2> HIDE DEF V
  <2> QED
    BY <1>1, LeastExists
<1> QED
  BY <1>2

LEMMA GreatestIs ==
  ASSUME NEW n \in Nat, NEW T, T \subseteq 1 .. n, T # {}
  PROVE  Greatest(T) \in T
<1> DEFINE V == {n - t : t \in T}
<1>1. V \subseteq Nat /\ V # {}
  <2>1. PICK t \in T : TRUE
    OBVIOUS
  <2>2. n - t \in V
    OBVIOUS
  <2>3. V \subseteq Nat
    OBVIOUS
  <2> QED
    BY <2>2, <2>3
<1>2. PICK v \in V : \A w \in V : v <= w
  <2> HIDE DEF V
  <2> QED
    BY <1>1, LeastExists
<1>3. PICK m \in T : v = n - m
  BY <1>2
<1>4. \A k \in T : k <= m
  <2> TAKE k \in T
  <2>1. n - m <= n - k
    BY <1>2, <1>3
  <2> QED
    BY <2>1, <1>3
<1> QED
  BY <1>4 DEF Greatest

LEMMA InRange1 ==
  ASSUME NEW s, NEW k \in 1 .. Len(s)
  PROVE  s[k] \in Range1(s)
BY DEF Range1

LEMMA Push ==
  ASSUME NEW S, NEW s \in Seq(S), NEW x \in S
  PROVE  /\ <<x>> \o s \in Seq(S)
         /\ Len(<<x>> \o s) = Len(s) + 1
         /\ (<<x>> \o s)[1] = x
         /\ \A k \in 1 .. Len(s) : (<<x>> \o s)[k + 1] = s[k]
         /\ Range1(<<x>> \o s) = Range1(s) \cup {x}
<1> DEFINE t == <<x>> \o s
<1>1. /\ t \in Seq(S)
      /\ Len(t) = Len(s) + 1
      /\ t[1] = x
      /\ \A k \in 1 .. Len(s) : t[k + 1] = s[k]
  OBVIOUS
<1> HIDE DEF t
<1>2. ASSUME NEW k \in 1 .. Len(t) PROVE t[k] \in Range1(s) \cup {x}
  <2>1. CASE k = 1
    BY <1>1, <2>1
  <2>2. CASE k # 1
    <3>1. k - 1 \in 1 .. Len(s) /\ t[(k - 1) + 1] = s[k - 1]
      BY <1>1, <2>2
    <3> QED
      BY <3>1 DEF Range1
  <2> QED
    BY <2>1, <2>2
<1>3. x \in Range1(t)
  BY <1>1 DEF Range1
<1>4. ASSUME NEW k \in 1 .. Len(s) PROVE s[k] \in Range1(t)
  <2>1. k + 1 \in 1 .. Len(t)
    BY <1>1
  <2> QED
    BY <1>1, <2>1 DEF Range1
<1>5. Range1(t) = Range1(s) \cup {x}
  BY <1>2, <1>3, <1>4 DEF Range1
<1> QED
  BY <1>1, <1>5 DEF t

LEMMA Pop ==
  ASSUME NEW S, NEW s \in Seq(S), s # <<>>
  PROVE  /\ Tail(s) \in Seq(S) /\ Head(s) = s[1] /\ s[1] \in S
         /\ Len(s) \in Nat \ {0} /\ Len(Tail(s)) = Len(s) - 1
         /\ \A k \in 1 .. Len(s) - 1 : Tail(s)[k] = s[k + 1]
         /\ Tail(s) = <<>> <=> Len(s) = 1
         /\ Range1(s) = Range1(Tail(s)) \cup {s[1]}
<1> DEFINE t == Tail(s)
<1>1. /\ t \in Seq(S) /\ Head(s) = s[1] /\ s[1] \in S
      /\ Len(s) \in Nat \ {0} /\ Len(t) = Len(s) - 1
      /\ \A k \in 1 .. Len(s) - 1 : t[k] = s[k + 1]
  OBVIOUS
<1> HIDE DEF t
<1>2. t = <<>> <=> Len(s) = 1
  <2>1. Len(t) = 0 <=> t = <<>>
    BY <1>1
  <2> QED
    BY <1>1, <2>1
<1>3. ASSUME NEW k \in 1 .. Len(s) PROVE s[k] \in Range1(t) \cup {s[1]}
  <2>1. CASE k = 1
    BY <2>1
  <2>2. CASE k # 1
    <3>1. k - 1 \in 1 .. Len(t) /\ t[k - 1] = s[(k - 1) + 1]
      BY <1>1, <2>2
    <3> QED
      BY <3>1 DEF Range1
  <2> QED
    BY <2>1, <2>2
<1>4. ASSUME NEW k \in 1 .. Len(t) PROVE t[k] \in Range1(s)
  <2>1. k \in 1 .. Len(s) - 1 /\ k + 1 \in 1 .. Len(s)
    BY <1>1
  <2> QED
    BY <1>1, <2>1 DEF Range1
<1>5. s[1] \in Range1(s)
  BY <1>1 DEF Range1
<1>6. Range1(s) = Range1(t) \cup {s[1]}
  BY <1>3, <1>4, <1>5 DEF Range1
<1> QED
  BY <1>1, <1>2, <1>6 DEF t

-----------------------------------------------------------------------------
(* The definitions in their types.                                         *)

LEMMA BlocksAre ==
  ASSUME count = N
  PROVE  /\ N \in Nat \ {0, 1} /\ Blocks = 0 .. N - 1
         /\ 0 \in Blocks /\ IsFiniteSet(Blocks) /\ Cardinality(Blocks) = N
<1>1. N \in Nat \ {0, 1} /\ Blocks = 0 .. N - 1 /\ 0 \in Blocks
  BY FlowAssumption DEF Blocks
<1>2. IsFiniteSet(0 .. N - 1) /\ Cardinality(0 .. N - 1) = N
  BY <1>1, FS_Interval
<1> QED
  BY <1>1, <1>2

LEMMA FlowInBlocks ==
  ASSUME TypeOK, Labels, NEW b \in Blocks
  PROVE  /\ Range1(ech[b].labels) \subseteq Blocks
         /\ Flow(b) \subseteq Blocks
<1>1. ech[b].labels \in Seq(Blocks)
  BY DEF TypeOK
<1>2. Range1(ech[b].labels) \subseteq Blocks
  BY <1>1 DEF Range1
<1>3. b + 1 # count => b + 1 \in Blocks
  BY BlocksAre DEF Labels
<1> QED
  BY <1>2, <1>3 DEF Flow

LEMMA SuccInBlocks ==
  ASSUME TypeOK, NEW b \in Blocks
  PROVE  Range1(succ[b]) \subseteq Blocks
<1>1. succ[b] \in Seq(Blocks)
  BY DEF TypeOK
<1> QED
  BY <1>1 DEF Range1

\* What eBBSuccessors finds: the labels, and the next block that has a path.
LEMMA FallThroughIs ==
  ASSUME TypeOK, Labels, NEW b \in Blocks
  PROVE  /\ FallThrough(b) \in Seq(Blocks)
         /\ \A x \in Range1(FallThrough(b)) :
              /\ Falls(b, x)
              /\ ech[b].op # "EMPTY" => x \notin noPath
              /\ ech[b].op = "EMPTY" => x = b + 1
         /\ \A x \in Live : Falls(b, x) /\ (ech[b].op = "EMPTY" => x = b + 1)
                           => x \in Range1(FallThrough(b))
<1> DEFINE after == {j \in b + 1 .. count - 1 : j \notin noPath}
<1>0. N \in Nat \ {0, 1} /\ Blocks = 0 .. N - 1 /\ count = N
  BY BlocksAre DEF Labels
<1>1. CASE b + 1 = count \/ ech[b].op \in Leaves
  <2>1. FallThrough(b) = <<>>
    <3>1. ~(ech[b].op = "EMPTY" /\ b + 1 < count)
      BY <1>0, <1>1 DEF Leaves
    <3> QED
      BY <1>1, <3>1 DEF FallThrough
  <2>2. \A x \in Live : ~Falls(b, x)
    BY <1>0, <1>1 DEF Falls, Live
  <2> QED
    BY <2>1, <2>2 DEF Range1
<1>2. CASE ~(b + 1 = count \/ ech[b].op \in Leaves) /\ ech[b].op = "EMPTY"
  <2>1. FallThrough(b) = <<b + 1>> /\ b + 1 \in Blocks
    BY <1>0, <1>2 DEF FallThrough
  <2>2. Range1(<<b + 1>>) = {b + 1}
    BY DEF Range1
  <2>3. Falls(b, b + 1)
    BY <1>0, <1>2 DEF Falls
  <2> QED
    BY <1>2, <2>1, <2>2, <2>3
<1>3. CASE ~(b + 1 = count \/ ech[b].op \in Leaves) /\ ech[b].op # "EMPTY" /\ after = {}
  <2>1. FallThrough(b) = <<>>
    BY <1>3 DEF FallThrough
  <2>2. \A x \in Live : ~Falls(b, x)
    BY <1>0, <1>3 DEF Falls, Live
  <2> QED
    BY <2>1, <2>2 DEF Range1
<1>4. CASE ~(b + 1 = count \/ ech[b].op \in Leaves) /\ ech[b].op # "EMPTY" /\ after # {}
  <2>1. FallThrough(b) = <<Least(after)>>
    BY <1>4 DEF FallThrough
  <2>2. Least(after) \in after /\ \A k \in after : Least(after) <= k
    <3>1. after \subseteq Nat
      BY <1>0
    <3> HIDE DEF after
    <3> QED
      BY <1>4, <3>1, LeastIs
  <2>3. PICK m : m = Least(after)
    OBVIOUS
  <2>4. /\ m \in b + 1 .. N - 1 /\ m \notin noPath
        /\ \A j \in b + 1 .. N - 1 : j \notin noPath => m <= j
    BY <1>0, <2>2, <2>3
  <2>5. FallThrough(b) = <<m>> /\ Range1(<<m>>) = {m} /\ m \in Blocks
    <3>1. FallThrough(b) = <<m>>
      BY <2>1, <2>3
    <3>2. Range1(<<m>>) = {m}
      BY DEF Range1
    <3> QED
      BY <1>0, <2>4, <3>1, <3>2
  <2>6. Falls(b, m)
    BY <1>0, <1>4, <2>4 DEF Falls
  <2>7. ASSUME NEW x \in Live, Falls(b, x) PROVE x = m
    BY <1>0, <2>4, <2>7 DEF Falls, Live
  <2> QED
    BY <1>4, <2>4, <2>5, <2>6, <2>7
<1> QED
  BY <1>1, <1>2, <1>3, <1>4

-----------------------------------------------------------------------------
(* What control reaches.                                                   *)

\* Reached(A) is closed itself, and in every closed set.
LEMMA ReachedCloses ==
  ASSUME TypeOK, Labels, NEW A \in SUBSET Blocks
  PROVE  /\ Reached(A) \subseteq Blocks \ A
         /\ 0 \in Reached(A) \cup A
         /\ \A b \in Reached(A) : Flow(b) \subseteq Reached(A) \cup A
         /\ \A S \in SUBSET (Blocks \ A) :
              0 \in S \cup A /\ (\A b \in S : Flow(b) \subseteq S \cup A) => Reached(A) \subseteq S
<1> DEFINE closed == {S \in SUBSET (Blocks \ A) : Closed(S, A)}
<1>0. Reached(A) = {b \in Blocks : \A S \in closed : b \in S}
  BY DEF Reached
<1>1. Blocks \ A \in closed
  <2>1. 0 \in (Blocks \ A) \cup A
    BY BlocksAre DEF Labels
  <2>2. \A b \in Blocks \ A : Flow(b) \subseteq (Blocks \ A) \cup A
    BY FlowInBlocks
  <2> QED
    BY <2>1, <2>2 DEF Closed
<1>2. \A S \in closed : S \subseteq Blocks \ A /\ 0 \in S \cup A
                        /\ \A b \in S : Flow(b) \subseteq S \cup A
  BY DEF Closed
<1>3. \A S \in SUBSET (Blocks \ A) :
        0 \in S \cup A /\ (\A b \in S : Flow(b) \subseteq S \cup A) => S \in closed
  BY DEF Closed
<1> HIDE DEF closed
<1>4. Reached(A) \subseteq Blocks \ A
  BY <1>0, <1>1
<1>5. 0 \in Reached(A) \cup A
  <2>1. 0 \in Blocks
    BY BlocksAre DEF Labels
  <2> QED
    BY <1>0, <1>2, <2>1
<1>6. ASSUME NEW b \in Reached(A) PROVE Flow(b) \subseteq Reached(A) \cup A
  <2>1. b \in Blocks /\ Flow(b) \subseteq Blocks
    BY <1>0, FlowInBlocks
  <2>2. \A S \in closed : Flow(b) \subseteq S \cup A
    BY <1>0, <1>2, <1>6
  <2> QED
    BY <1>0, <2>1, <2>2
<1>7. \A S \in closed : Reached(A) \subseteq S
  BY <1>0
<1> QED
  BY <1>3, <1>4, <1>5, <1>6, <1>7

LEMMA ReachedShrinks ==
  ASSUME TypeOK, Labels, NEW A \in SUBSET Blocks
  PROVE  Reached(A) \subseteq Reached({})
<1> DEFINE S == Reached({}) \ A
<1>1. {} \in SUBSET Blocks
  OBVIOUS
<1>2. /\ Reached({}) \subseteq Blocks
      /\ 0 \in Reached({})
      /\ \A b \in Reached({}) : Flow(b) \subseteq Reached({})
  BY <1>1, ReachedCloses
<1>3. S \in SUBSET (Blocks \ A) /\ 0 \in S \cup A /\ \A b \in S : Flow(b) \subseteq S \cup A
  BY <1>2
<1> HIDE DEF S
<1>4. Reached(A) \subseteq S
  BY <1>3, ReachedCloses
<1> QED
  BY <1>4 DEF S

\* A block control falls into from one it reaches is reached as well.
LEMMA FallsReached ==
  ASSUME TypeOK, Labels, NoPathEmpty, NEW A \in SUBSET Live,
         NEW b \in Reached(A), NEW x \in Blocks, Falls(b, x), x \notin A
  PROVE  x \in Reached(A)
<1> DEFINE Not == {j \in b + 1 .. x : j \notin Reached(A)}
<1>0. N \in Nat \ {0, 1} /\ Blocks = 0 .. N - 1 /\ count = N /\ A \in SUBSET Blocks
  BY BlocksAre DEF Labels, Live
<1>1. /\ b \in Blocks
      /\ \A c \in Reached(A) : Flow(c) \subseteq Reached(A) \cup A /\ c \in Blocks
  BY <1>0, ReachedCloses
<1>2. \A c \in Reached(A) \cap noPath : ech[c].op = "EMPTY"
  BY <1>0, ReachedShrinks DEF NoPathEmpty
<1> SUFFICES ASSUME Not # {} PROVE FALSE
  BY <1>0, <1>1 DEF Falls
<1>3. PICK m \in Not : \A k \in Not : m <= k
  <2>1. Not \subseteq Nat
    BY <1>0, <1>1
  <2> HIDE DEF Not
  <2> QED
    BY <2>1, LeastExists
<1>4. m - 1 \in Reached(A) /\ m \notin A /\ m \in Blocks
  <2>1. m \in b + 1 .. x /\ m \notin Reached(A)
    BY <1>3
  <2>2. m - 1 = b \/ m - 1 \in b + 1 .. x
    BY <1>0, <1>1, <2>1
  <2>3. m - 1 \in Reached(A)
    <3>1. CASE m - 1 \in b + 1 .. x
      <4>1. ~(m <= m - 1)
        BY <1>0, <1>1, <2>1
      <4> QED
        BY <1>3, <3>1, <4>1
    <3> QED
      BY <2>2, <3>1
  <2>4. m # x => m \in noPath
    BY <1>0, <1>1, <2>1 DEF Falls
  <2> QED
    BY <1>0, <1>1, <2>1, <2>3, <2>4 DEF Live
<1>5. ech[m - 1].op \notin Leaves
  <2>1. m - 1 = b \/ m - 1 \in noPath
    BY <1>0, <1>1, <1>3 DEF Falls
  <2> QED
    BY <1>2, <1>4, <2>1 DEF Falls, Leaves
<1>6. m \in Flow(m - 1)
  BY <1>0, <1>4, <1>5 DEF Flow
<1>7. m \in Reached(A)
  BY <1>1, <1>4, <1>6
<1> QED
  BY <1>3, <1>7

\* Along the successors the compiler finds, control stays on the way.
LEMMA SuccReached ==
  ASSUME TypeOK, Labels, NoPathEmpty, Edges, pc # "call", NEW A \in SUBSET Live,
         NEW b \in Reached(A) \cap Live, NEW x \in Range1(succ[b]), x \notin A
  PROVE  x \in Reached(A) /\ x \notin noPath
<1>0. A \in SUBSET Blocks /\ b \in Blocks
  BY DEF Live
<1>1. x \in Blocks
  BY <1>0, SuccInBlocks
<1>2. CASE x \in Range1(ech[b].labels)
  <2>1. x \in Flow(b)
    BY <1>2 DEF Flow
  <2>2. x \in Reached(A)
    BY <1>0, <2>1, ReachedCloses
  <2>3. ech[x].op # "EMPTY"
    BY <1>0, <1>1, <1>2 DEF Labels
  <2>4. x \in Reached({})
    BY <1>0, <2>2, ReachedShrinks
  <2> QED
    BY <2>2, <2>3, <2>4 DEF NoPathEmpty
<1>3. CASE x \notin Range1(ech[b].labels)
  <2>1. x \notin noPath /\ Falls(b, x)
    BY <1>3 DEF Edges
  <2> QED
    BY <1>1, <2>1, FallsReached
<1> QED
  BY <1>2, <1>3

\* What control reaches without entering A, the search finds without entering A.
LEMMA ReachedThroughSucc ==
  ASSUME TypeOK, Labels, NoPathEmpty, Edges, pc # "call",
         NEW A \in SUBSET Live, NEW T \in SUBSET (Live \ A), 0 \in T \cup A,
         \A b \in T : Range1(succ[b]) \cap Live \subseteq T \cup A
  PROVE  Reached(A) \cap Live \subseteq T
<1> DEFINE Over(p, b) == p < b /\ ech[p].op \notin Leaves /\ \A k \in p + 1 .. b : k \in noPath
           S == {b \in Reached(A) : b \in T \/ \E p \in T : Over(p, b)}
<1>0. /\ N \in Nat \ {0, 1} /\ Blocks = 0 .. N - 1 /\ count = N
      /\ A \in SUBSET Blocks /\ T \in SUBSET Blocks
  BY BlocksAre DEF Labels, Live
<1>1. /\ Reached(A) \subseteq Blocks \ A
      /\ 0 \in Reached(A) \cup A
      /\ \A b \in Reached(A) : Flow(b) \subseteq Reached(A) \cup A
  BY <1>0, ReachedCloses
<1>2. ASSUME NEW b \in S, NEW x \in Flow(b), x \notin A PROVE x \in S
  <2>1. x \in Reached(A) /\ x \in Blocks /\ b \in Blocks
    BY <1>1, <1>2
  <2>2. CASE b \in T /\ x \in Range1(ech[b].labels)
    <3>0. b \in Live
      BY <2>2
    <3>1. x \in Range1(succ[b])
      BY <2>2, <3>0 DEF Edges
    <3>2. x \in Live
      BY <1>0, <1>2, <2>1, <3>0, <3>1, SuccReached DEF Live
    <3> QED
      BY <1>2, <2>1, <2>2, <3>1, <3>2
  <2>3. CASE b \in T /\ x \notin Range1(ech[b].labels)
    <3>0. b \in Live
      BY <2>3
    <3>1. x = b + 1 /\ ech[b].op \notin Leaves
      BY <1>2, <2>3 DEF Flow
    <3>2. CASE x \in noPath
      <4>1. Over(b, x)
        BY <1>0, <2>1, <3>1, <3>2
      <4> QED
        BY <2>1, <2>3, <4>1
    <3>3. CASE x \notin noPath
      <4>1. Falls(b, x)
        BY <1>0, <2>1, <3>1 DEF Falls
      <4>2. x \in Live
        BY <2>1, <3>3 DEF Live
      <4>3. x \in Range1(succ[b])
        BY <3>0, <4>1, <4>2 DEF Edges
      <4> QED
        BY <1>2, <2>1, <2>3, <4>2, <4>3
    <3> QED
      BY <3>2, <3>3
  <2>4. CASE b \notin T
    <3>1. PICK p \in T : Over(p, b)
      BY <2>4
    <3>2. p \in Blocks /\ p \in Live /\ b \in noPath
      BY <1>0, <2>1, <3>1
    <3>3. ech[b].op = "EMPTY" /\ ech[b].labels = <<>>
      <4>1. b \in Reached({})
        BY <1>0, <1>2, ReachedShrinks
      <4>2. ech[b].op = "EMPTY"
        BY <3>2, <4>1 DEF NoPathEmpty
      <4> QED
        BY <2>1, <4>2 DEF Labels
    <3>4. x = b + 1
      BY <1>2, <3>3 DEF Flow, Range1
    <3>5. CASE x \in noPath
      <4>1. Over(p, x)
        BY <1>0, <2>1, <3>1, <3>2, <3>4, <3>5
      <4> QED
        BY <2>1, <4>1
    <3>6. CASE x \notin noPath
      <4>1. x \in Live
        BY <2>1, <3>6 DEF Live
      <4>2. Falls(p, x)
        BY <1>0, <2>1, <3>1, <3>2, <3>4 DEF Falls
      <4>3. x \in Range1(succ[p])
        BY <3>2, <4>1, <4>2 DEF Edges
      <4> QED
        BY <1>2, <2>1, <4>1, <4>3
    <3> QED
      BY <3>5, <3>6
  <2> QED
    BY <2>2, <2>3, <2>4
<1>3. S \in SUBSET (Blocks \ A) /\ 0 \in S \cup A /\ \A b \in S : Flow(b) \subseteq S \cup A
  <2>1. 0 \in S \cup A
    BY <1>1
  <2>2. S \subseteq Blocks \ A
    BY <1>1
  <2> HIDE DEF S
  <2> QED
    BY <1>2, <2>1, <2>2
<1>4. Reached(A) \subseteq S
  <2> HIDE DEF S
  <2> QED
    BY <1>0, <1>3, ReachedCloses
<1>5. ASSUME NEW b \in S \cap Live PROVE b \in T
  BY <1>0, <1>1, <1>5 DEF Live
<1> QED
  BY <1>4, <1>5

-----------------------------------------------------------------------------
(* The search and the iteration.                                           *)

LEMMA EndingsTyped ==
  ASSUME NEW e \in Endings
  PROVE  /\ e \in [op : Leaves \cup {"PLAIN", "IFX", "EMPTY"}, labels : Seq(0 .. N - 1)]
         /\ e.op # "EMPTY"
         /\ e.op = "PLAIN" => e.labels = <<>>
<1>1. N \in Nat \ {0, 1}
  BY FlowAssumption
<1>2. CASE e = Plain \/ e = [op |-> "NORETURN", labels |-> <<>>]
  <2>1. <<>> \in Seq(0 .. N - 1)
    OBVIOUS
  <2>2. PICK o \in {"PLAIN", "NORETURN"} : e = [op |-> o, labels |-> <<>>]
    BY <1>2 DEF Plain
  <2> QED
    BY <2>1, <2>2 DEF Leaves
<1>3. CASE e = [op |-> "RETURN", labels |-> <<N - 1>>]
  BY <1>1, <1>3 DEF Leaves
<1>4. CASE e \in [op : {"GOTO", "IFX"}, labels : {<<t>> : t \in 1 .. N - 1}]
  <2>1. \A t \in 1 .. N - 1 : <<t>> \in Seq(0 .. N - 1)
    BY <1>1
  <2>2. PICK t \in 1 .. N - 1, o \in {"GOTO", "IFX"} : e = [op |-> o, labels |-> <<t>>]
    BY <1>4
  <2> QED
    BY <2>1, <2>2 DEF Leaves
<1>5. CASE e \in [op : {"JUMPTABLE"}, labels : {<<s, t>> : s, t \in 1 .. N - 1}]
  <2>1. \A s, t \in 1 .. N - 1 : <<s, t>> \in Seq(0 .. N - 1)
    BY <1>1
  <2>2. PICK s \in 1 .. N - 1, t \in 1 .. N - 1 :
          e = [op |-> "JUMPTABLE", labels |-> <<s, t>>]
    BY <1>5
  <2> QED
    BY <2>1, <2>2 DEF Leaves
<1> QED
  BY <1>2, <1>3, <1>4, <1>5 DEF Endings

LEMMA WalkInit == Init => Walk
<1> SUFFICES ASSUME Init PROVE Walk
  OBVIOUS
<1>0. /\ N \in Nat \ {0, 1} /\ Blocks = 0 .. N - 1 /\ count = N /\ pc = "call"
      /\ MaxChanges \in Nat
  BY BlocksAre, FlowAssumption DEF Init
<1>1. PICK f \in [0 .. N - 2 -> Endings] :
        ech = [b \in 0 .. N - 1 |-> IF b = N - 1 THEN Plain ELSE f[b]]
  BY DEF Init
<1>2. ASSUME NEW b \in Blocks
      PROVE  /\ ech[b] \in [op : Leaves \cup {"PLAIN", "IFX", "EMPTY"}, labels : Seq(Blocks)]
             /\ ech[b].op # "EMPTY"
             /\ ech[b].op = "PLAIN" => ech[b].labels = <<>>
  <2>1. CASE b = N - 1
    <3>1. ech[b] = Plain
      BY <1>0, <1>1, <2>1
    <3> QED
      BY <3>1 DEF Plain
  <2>2. CASE b # N - 1
    <3>1. b \in 0 .. N - 2 /\ ech[b] = f[b]
      BY <1>0, <1>1, <2>2
    <3>2. ech[b] \in Endings
      BY <3>1
    <3> QED
      BY <1>0, <3>2, EndingsTyped
  <2> QED
    BY <2>1, <2>2
<1>3. /\ labelled = {N - 1} \cup UNION {Range1(ech[b].labels) : b \in 0 .. N - 1}
      /\ alone \in SUBSET {b \in 1 .. N - 1 : ech[b].op = "IFX" /\ b \notin labelled}
  BY DEF Init
<1>4. Labels
  <2>1. \A b \in Blocks : Range1(ech[b].labels) \subseteq labelled
    BY <1>0, <1>3
  <2> QED
    BY <1>0, <1>2, <1>3, <2>1 DEF Labels
<1>5. labelled \subseteq Blocks
  <2>1. \A b \in Blocks : Range1(ech[b].labels) \subseteq Blocks
    BY <1>2 DEF Range1
  <2> QED
    BY <1>0, <1>3, <2>1
<1>6. TypeOK
  <2>1. ech \in [Blocks -> [op : Leaves \cup {"PLAIN", "IFX", "EMPTY"}, labels : Seq(Blocks)]]
    BY <1>0, <1>1, <1>2
  <2>2. alone \subseteq Blocks
    BY <1>0, <1>3
  <2>3. /\ succ \in [Blocks -> Seq(Blocks)]
        /\ predList \in [Blocks -> SUBSET Blocks] /\ domVect \in [Blocks -> SUBSET Blocks]
    <3>1. /\ succ = [b \in Blocks |-> <<>>]
          /\ predList = [b \in Blocks |-> {}] /\ domVect = [b \in Blocks |-> {}]
      BY DEF Init
    <3> QED
      BY <3>1
  <2>4. /\ stack \in Seq(Blocks) /\ dfnum \in [Blocks -> 0 .. count] /\ i \in 1 .. count - 1
    <3>1. stack = <<>> /\ dfnum = [b \in Blocks |-> 0] /\ i = 1
      BY DEF Init
    <3> QED
      BY <1>0, <3>1
  <2>5. noPath = {} /\ visited = {} /\ dfCount = 0 /\ change = FALSE /\ changes = 0
    BY DEF Init
  <2>6. /\ noPath \subseteq Blocks /\ visited \subseteq Blocks /\ dfCount \in 0 .. count
        /\ changes \in 0 .. MaxChanges /\ count \in Nat
    BY <1>0, <2>5
  <2>7. change \in BOOLEAN
    BY <2>5, Zenon
  <2> QED
    BY <1>0, <1>5, <2>1, <2>2, <2>3, <2>4, <2>6, <2>7 DEF TypeOK
<1> QED
  BY <1>0, <1>4, <1>6 DEF Walk, Searching, Searched, Passes

\* The parts of a state the search and the iteration leave alone.
LEMMA LabelsFrame ==
  ASSUME Labels, UNCHANGED <<count, ech, alone, labelled>>
  PROVE  Labels'
BY DEF Labels, Blocks

LEMMA CallWalk == ASSUME Walk, computeControlFlow PROVE Walk'
<1>0. /\ TypeOK /\ Labels /\ count' = count /\ Blocks' = Blocks
      /\ N \in Nat \ {0, 1} /\ Blocks = 0 .. N - 1 /\ count = N
  BY BlocksAre DEF Walk, Labels, computeControlFlow, Blocks
<1>1. eBBSuccessors \in [Blocks -> Seq(Blocks)]
  <2>1. ASSUME NEW b \in Blocks
        PROVE  FallThrough(b) \o ech[b].labels \in Seq(Blocks)
    <3>1. ech[b].labels \in Seq(Blocks)
      BY <1>0 DEF TypeOK
    <3>2. FallThrough(b) \in Seq(Blocks)
      BY <1>0, FallThroughIs
    <3> QED
      BY <3>1, <3>2
  <2> QED
    BY <2>1 DEF eBBSuccessors
<1>2. TypeOK'
  <2>1. succ' \in [Blocks -> Seq(Blocks)]
    BY <1>1 DEF computeControlFlow
  <2>2. predList' \in [Blocks -> SUBSET Blocks] /\ domVect' \in [Blocks -> SUBSET Blocks]
    BY DEF computeControlFlow
  <2>3. /\ stack' \in Seq(Blocks) /\ visited' \subseteq Blocks
        /\ dfnum' \in [Blocks -> 0 .. count] /\ dfCount' \in 0 .. count
    BY <1>0 DEF computeControlFlow
  <2> QED
    BY <1>0, <2>1, <2>2, <2>3 DEF TypeOK, computeControlFlow
<1>3. Searching'
  <2>1. /\ stack' = <<0>> /\ visited' = {0} /\ dfCount' = count /\ count' = count
    BY DEF computeControlFlow
  <2>2. Range1(<<0>>) = {0}
    BY DEF Range1
  <2>3. Finished' = {}
    BY <2>1, <2>2 DEF Finished, Range1
  <2>4. Cardinality(Finished') = 0
    BY <2>3, FS_EmptySet
  <2>5. Range1(stack') = {0}
    BY <2>1, <2>2
  <2>6. /\ stack' # <<>> /\ stack'[Len(stack')] = 0 /\ Len(stack') = 1
    BY <2>1
  <2> QED
    BY <1>0, <2>1, <2>3, <2>4, <2>5, <2>6 DEF Searching, Range1, Finished
<1>4. Labels'
  BY <1>0, LabelsFrame DEF computeControlFlow
<1> QED
  BY <1>2, <1>3, <1>4 DEF Walk, Searched, Passes, computeControlFlow

LEMMA DescendWalk == ASSUME Walk, Descend PROVE Walk'
<1>0. /\ TypeOK /\ Labels /\ Searching /\ pc = "order" /\ Blocks' = Blocks
      /\ stack \in Seq(Blocks) /\ stack # <<>> /\ count' = count
      /\ UNCHANGED <<succ, dfnum, dfCount, pc>>
  BY DEF Walk, Descend, Searching, Blocks, TypeOK
<1> DEFINE h == Head(stack)
           next == succ[h][Greatest(Unvisited(h))]
<1>1. /\ h = stack[1] /\ h \in Blocks /\ Len(stack) \in Nat \ {0}
  BY <1>0, Pop
<1>2. next \in Range1(succ[h]) /\ next \notin visited /\ next \in Blocks
  <2>1. succ[h] \in Seq(Blocks) /\ Len(succ[h]) \in Nat
    BY <1>0, <1>1 DEF TypeOK
  <2>2. Unvisited(h) # {} /\ Unvisited(h) \subseteq 1 .. Len(succ[h])
    BY DEF Descend, Unvisited
  <2>3. Greatest(Unvisited(h)) \in Unvisited(h)
    BY <2>1, <2>2, GreatestIs
  <2>4. PICK g : g = Greatest(Unvisited(h)) /\ g \in 1 .. Len(succ[h])
                 /\ succ[h][g] \notin visited
    BY <2>3 DEF Unvisited
  <2>5. next = succ[h][g]
    BY <2>4
  <2>6. succ[h][g] \in Range1(succ[h]) /\ succ[h][g] \in Blocks
    BY <2>1, <2>4, InRange1
  <2> QED
    BY <2>4, <2>5, <2>6
<1>3. visited' = visited \cup {next} /\ stack' = <<next>> \o stack
  BY DEF Descend
<1> HIDE DEF next, h
<1>4. /\ stack' \in Seq(Blocks) /\ Len(stack') = Len(stack) + 1 /\ stack'[1] = next
      /\ \A k \in 1 .. Len(stack) : stack'[k + 1] = stack[k]
      /\ Range1(stack') = Range1(stack) \cup {next}
  BY <1>0, <1>2, <1>3, Push
<1>5. TypeOK'
  BY <1>0, <1>2, <1>3, <1>4 DEF TypeOK, Descend
<1>6. /\ stack[Len(stack)] = 0 /\ Range1(stack) \subseteq visited
      /\ \A k, m \in 1 .. Len(stack) : k # m => stack[k] # stack[m]
      /\ \A k \in 1 .. Len(stack) - 1 : stack[k] \in Range1(succ[stack[k + 1]])
  BY <1>0 DEF Searching
<1>7. Finished' = Finished
  BY <1>2, <1>3, <1>4, <1>6 DEF Finished
<1>8. \A k \in 2 .. Len(stack') : k - 1 \in 1 .. Len(stack) /\ stack'[k] = stack[k - 1]
  <2> TAKE k \in 2 .. Len(stack')
  <2>1. k - 1 \in 1 .. Len(stack) /\ (k - 1) + 1 = k
    BY <1>1, <1>4
  <2> QED
    BY <1>4, <2>1
<1>9. ASSUME NEW k \in 1 .. Len(stack'), NEW m \in 1 .. Len(stack'), k # m
      PROVE  stack'[k] # stack'[m]
  <2>1. ASSUME NEW n \in 2 .. Len(stack') PROVE stack'[n] # next
    <3>1. n - 1 \in 1 .. Len(stack) /\ stack'[n] = stack[n - 1]
      BY <1>8
    <3>2. stack[n - 1] \in Range1(stack)
      BY <3>1, InRange1
    <3> QED
      BY <1>2, <1>6, <3>1, <3>2
  <2>2. CASE k = 1 \/ m = 1
    BY <1>1, <1>4, <1>9, <2>1, <2>2
  <2>3. CASE k # 1 /\ m # 1
    BY <1>1, <1>4, <1>6, <1>8, <1>9, <2>3
  <2> QED
    BY <2>2, <2>3
<1>10. ASSUME NEW k \in 1 .. Len(stack') - 1 PROVE stack'[k] \in Range1(succ[stack'[k + 1]])
  <2>1. k + 1 \in 2 .. Len(stack') /\ stack'[k + 1] = stack[k] /\ k \in 1 .. Len(stack)
    BY <1>1, <1>4, <1>8
  <2>2. CASE k = 1
    BY <1>1, <1>2, <1>4, <2>1, <2>2
  <2>3. CASE k # 1
    <3>1. k \in 2 .. Len(stack') /\ stack'[k] = stack[k - 1] /\ k - 1 \in 1 .. Len(stack) - 1
          /\ (k - 1) + 1 = k
      BY <1>1, <1>4, <1>8, <2>1, <2>3
    <3> QED
      BY <1>6, <2>1, <3>1
  <2> QED
    BY <2>2, <2>3
<1>11. stack' # <<>> /\ stack'[Len(stack')] = 0
  BY <1>1, <1>4, <1>6
<1>12. Searching'
  <2>1. Range1(stack') \subseteq visited'
    BY <1>3, <1>4, <1>6
  <2>2. ASSUME NEW b \in Finished
        PROVE  /\ Range1(succ[b]) \subseteq visited'
               /\ dfCount < dfnum[b]
               /\ \E p \in visited' : /\ b \in Range1(succ[p])
                                      /\ p \in Range1(stack') \/ dfnum[p] < dfnum[b]
    <3>1. /\ Range1(succ[b]) \subseteq visited
          /\ dfCount < dfnum[b]
          /\ \E p \in visited : /\ b \in Range1(succ[p])
                                /\ p \in Range1(stack) \/ dfnum[p] < dfnum[b]
      BY <1>0 DEF Searching
    <3> QED
      BY <1>3, <1>4, <3>1
  <2>3. Cardinality(Finished) = count - dfCount
    BY <1>0 DEF Searching
  <2>4. Range1(stack)' = Range1(stack') /\ \A b \in Finished : Range1(succ[b])' = Range1(succ[b])
    BY <1>0 DEF Range1
  <2> QED
    BY <1>0, <1>7, <1>9, <1>10, <1>11, <2>1, <2>2, <2>3 DEF Searching
<1> QED
  BY <1>0, <1>5, <1>12, LabelsFrame DEF Walk, Descend, Searched, Passes

\* When the search finds nothing more to visit, it has visited all successors.
LEMMA AllVisited ==
  ASSUME NEW b, Unvisited(b) = {}, NEW S, succ[b] \in Seq(S)
  PROVE  Range1(succ[b]) \subseteq visited
<1> DEFINE K == {k \in 1 .. Len(succ[b]) : succ[b][k] \notin visited}
<1>0. Len(succ[b]) \in Nat
  OBVIOUS
<1> SUFFICES ASSUME K # {} PROVE FALSE
  BY DEF Range1
<1>1. PICK m \in K : \A k \in K : m <= k
  <2>1. K \subseteq Nat
    BY <1>0
  <2> HIDE DEF K
  <2> QED
    BY <2>1, LeastExists
<1>2. ASSUME NEW k \in 1 .. m - 1 PROVE succ[b][k] # succ[b][m]
  <2>1. k \in 1 .. Len(succ[b]) /\ ~(m <= k)
    BY <1>0, <1>1, <1>2
  <2>2. k \notin K
    BY <1>1, <2>1
  <2> QED
    BY <1>1, <2>1, <2>2
<1>3. m \in Unvisited(b)
  BY <1>1, <1>2 DEF Unvisited
<1> QED
  BY <1>3

LEMMA AscendWalk == ASSUME Walk, Ascend PROVE Walk'
<1>0. /\ TypeOK /\ Labels /\ Searching /\ pc = "order" /\ Blocks' = Blocks
      /\ stack \in Seq(Blocks) /\ stack # <<>> /\ count' = count
      /\ UNCHANGED <<succ, visited>>
      /\ N \in Nat \ {0, 1} /\ Blocks = 0 .. N - 1 /\ count = N
      /\ dfnum \in [Blocks -> 0 .. count] /\ dfCount \in 0 .. count /\ visited \subseteq Blocks
  BY BlocksAre DEF Walk, Ascend, Searching, Blocks, TypeOK, Labels
<1> DEFINE h == stack[1]
           t == Tail(stack)
<1>1. /\ Head(stack) = h /\ h \in Blocks /\ Len(stack) \in Nat \ {0}
      /\ t \in Seq(Blocks) /\ Len(t) = Len(stack) - 1
      /\ \A k \in 1 .. Len(stack) - 1 : t[k] = stack[k + 1]
      /\ t = <<>> <=> Len(stack) = 1
      /\ Range1(stack) = Range1(t) \cup {h}
  BY <1>0, Pop
<1>2. /\ Unvisited(h) = {} /\ dfnum' = [dfnum EXCEPT ![h] = dfCount] /\ dfCount' = dfCount - 1
      /\ stack' = t /\ pc' = IF t = <<>> THEN "preds" ELSE "order"
  BY <1>1 DEF Ascend
<1> HIDE DEF h, t
<1>3. Range1(succ[h]) \subseteq visited
  <2>1. succ[h] \in Seq(Blocks)
    BY <1>0, <1>1 DEF TypeOK
  <2> QED
    BY <1>2, <2>1, AllVisited
<1>4. /\ stack[Len(stack)] = 0 /\ Range1(stack) \subseteq visited
      /\ \A k, m \in 1 .. Len(stack) : k # m => stack[k] # stack[m]
      /\ \A k \in 1 .. Len(stack) - 1 : stack[k] \in Range1(succ[stack[k + 1]])
      /\ Cardinality(Finished) = count - dfCount
  BY <1>0 DEF Searching
<1>5. h \notin Range1(t) /\ h \in visited
  <2>1. ASSUME NEW k \in 1 .. Len(t) PROVE t[k] # h
    <3>1. k \in 1 .. Len(stack) - 1 /\ k + 1 \in 1 .. Len(stack) /\ 1 \in 1 .. Len(stack) /\ k + 1 # 1
      BY <1>1
    <3> QED
      BY <1>1, <1>4, <3>1 DEF h
  <2> QED
    BY <1>1, <1>4, <2>1 DEF Range1
<1>6. Finished' = Finished \cup {h} /\ h \notin Finished
  <2>1. Finished' = visited \ Range1(t)
    BY <1>0, <1>2 DEF Finished, Range1
  <2> QED
    BY <1>1, <1>5, <2>1 DEF Finished
<1>7. /\ Cardinality(Finished') = count' - dfCount'
      /\ dfCount \in 1 .. count
  <2>1. Finished \cup {h} \subseteq Blocks /\ Finished \subseteq Blocks
    BY <1>0, <1>1 DEF Finished
  <2>2. IsFiniteSet(Blocks) /\ Cardinality(Blocks) = count
    BY <1>0, BlocksAre
  <2>3. IsFiniteSet(Finished)
    BY <2>1, <2>2, FS_Subset
  <2>4. Cardinality(Finished \cup {h}) = Cardinality(Finished) + 1
    BY <1>6, <2>3, FS_AddElement
  <2>5. Cardinality(Finished \cup {h}) <= count
    BY <2>1, <2>2, FS_Subset
  <2>6. count - dfCount + 1 <= count
    BY <1>4, <2>4, <2>5
  <2>7. Cardinality(Finished') = count - dfCount + 1
    BY <1>4, <1>6, <2>4
  <2> QED
    BY <1>0, <1>2, <2>6, <2>7
<1>8. TypeOK'
  <2>1. dfnum' \in [Blocks -> 0 .. count] /\ dfCount' \in 0 .. count
    <3>1. dfCount \in 0 .. count /\ dfCount - 1 \in 0 .. count
      BY <1>0, <1>7
    <3> QED
      BY <1>0, <1>2, <3>1
  <2>2. pc' \in {"call", "order", "preds", "dom", "done"}
    BY <1>2
  <2> QED
    BY <1>0, <1>1, <1>2, <2>1, <2>2 DEF TypeOK, Ascend
<1>9. /\ dfnum'[h] = dfCount
      /\ \A b \in Blocks \ {h} : dfnum'[b] = dfnum[b]
  BY <1>0, <1>1, <1>2
<1>10. ASSUME NEW b \in Finished
       PROVE  /\ Range1(succ[b]) \subseteq visited
              /\ dfCount' < dfnum'[b]
              /\ \E p \in visited : /\ b \in Range1(succ[p])
                                    /\ p \in Range1(t) \/ dfnum'[p] < dfnum'[b]
  <2>1. b \in Blocks /\ b # h
    BY <1>0, <1>6 DEF Finished
  <2>2. Range1(succ[b]) \subseteq visited /\ dfCount < dfnum[b]
    BY <1>0 DEF Searching
  <2>3. PICK p \in visited : /\ b \in Range1(succ[p])
                             /\ p \in Range1(stack) \/ dfnum[p] < dfnum[b]
    BY <1>0 DEF Searching
  <2>4. dfCount' < dfnum'[b]
    BY <1>0, <1>2, <1>9, <2>1, <2>2
  <2>5. p \in Range1(t) \/ dfnum'[p] < dfnum'[b]
    BY <1>0, <1>1, <1>9, <2>1, <2>2, <2>3
  <2> QED
    BY <2>2, <2>3, <2>4, <2>5
<1>11. CASE t # <<>>
  <2>1. pc' = "order" /\ stack' = t
    BY <1>2, <1>11
  <2>2. t[Len(t)] = 0
    BY <1>1, <1>4, <1>11
  <2>3. ASSUME NEW k \in 1 .. Len(t), NEW m \in 1 .. Len(t), k # m PROVE t[k] # t[m]
    <3>1. /\ k \in 1 .. Len(stack) - 1 /\ k + 1 \in 1 .. Len(stack)
          /\ m \in 1 .. Len(stack) - 1 /\ m + 1 \in 1 .. Len(stack) /\ k + 1 # m + 1
      BY <1>1, <2>3
    <3> QED
      BY <1>1, <1>4, <3>1
  <2>4. ASSUME NEW k \in 1 .. Len(t) - 1 PROVE t[k] \in Range1(succ[t[k + 1]])
    <3>1. k + 1 \in 1 .. Len(stack) - 1 /\ k \in 1 .. Len(stack) - 1
      BY <1>1
    <3> QED
      BY <1>1, <1>4, <3>1
  <2>5. /\ \E p \in visited : /\ h \in Range1(succ[p])
                              /\ p \in Range1(t) \/ dfnum'[p] < dfnum'[h]
        /\ dfCount' < dfnum'[h]
    <3>1. 1 \in 1 .. Len(stack) - 1 /\ 1 \in 1 .. Len(t) /\ t[1] = stack[1 + 1]
      BY <1>1, <1>11
    <3>2. t[1] \in Range1(t)
      BY <3>1, InRange1
    <3>3. h \in Range1(succ[t[1]])
      BY <1>4, <3>1 DEF h
    <3>4. dfCount' < dfnum'[h]
      BY <1>2, <1>7, <1>9
    <3> QED
      BY <1>1, <1>4, <3>2, <3>3, <3>4
  <2>6. Range1(t) \subseteq visited
    BY <1>1, <1>4
  <2>7. ASSUME NEW b \in Finished'
        PROVE  /\ Range1(succ[b]) \subseteq visited
               /\ dfCount' < dfnum'[b]
               /\ \E p \in visited : /\ b \in Range1(succ[p])
                                     /\ p \in Range1(t) \/ dfnum'[p] < dfnum'[b]
    BY <1>3, <1>6, <1>10, <2>5
  <2>8. Searching'
    <3>1. stack' # <<>> /\ stack'[Len(stack')] = 0 /\ Range1(stack') \subseteq visited'
      BY <1>0, <1>11, <2>1, <2>2, <2>6
    <3>2. \A k, m \in 1 .. Len(stack') : k # m => stack'[k] # stack'[m]
      BY <2>1, <2>3
    <3>3. \A k \in 1 .. Len(stack') - 1 : stack'[k] \in Range1(succ'[stack'[k + 1]])
      BY <1>0, <2>1, <2>4
    <3>4. \A b \in Finished' :
            /\ Range1(succ'[b]) \subseteq visited'
            /\ dfCount' < dfnum'[b]
            /\ \E p \in visited' : /\ b \in Range1(succ'[p])
                                   /\ p \in Range1(stack') \/ dfnum'[p] < dfnum'[b]
      BY <1>0, <2>1, <2>7
    <3> QED
      BY <1>7, <3>1, <3>2, <3>3, <3>4 DEF Searching
  <2> QED
    BY <1>0, <1>8, <2>1, <2>8, LabelsFrame DEF Walk, Ascend, Searched, Passes
<1>12. CASE t = <<>>
  <2>1. pc' = "preds" /\ h = 0
    BY <1>1, <1>2, <1>4, <1>12 DEF h
  <2>2. Range1(t) = {} /\ Range1(stack) = {0}
    <3>1. Range1(t) = {}
      BY <1>12 DEF Range1
    <3> QED
      BY <1>1, <2>1, <3>1
  <2>3. visited = Finished \cup {0}
    BY <1>4, <2>2 DEF Finished
  <2>4. Searched'
    <3>1. \A b \in visited : Range1(succ[b]) \subseteq visited
      BY <1>3, <1>10, <2>1, <2>3
    <3>2. \A b \in visited \ {0} : \E p \in visited : b \in Range1(succ[p]) /\ dfnum'[p] < dfnum'[b]
      BY <1>10, <2>2, <2>3
    <3> QED
      BY <1>0, <1>5, <2>1, <3>1, <3>2 DEF Searched
  <2> QED
    BY <1>0, <1>8, <2>1, <2>4, LabelsFrame DEF Walk, Ascend, Searching, Passes
<1> QED
  BY <1>11, <1>12

LEMMA PredsWalk == ASSUME Walk, eBBPredecessors PROVE Walk'
<1>0. /\ TypeOK /\ Labels /\ Searched /\ pc = "preds" /\ pc' = "dom" /\ Blocks' = Blocks
      /\ N \in Nat \ {0, 1} /\ Blocks = 0 .. N - 1 /\ count = N /\ count' = count
      /\ UNCHANGED <<ech, alone, labelled, succ, visited, stack, dfnum, dfCount, changes>>
  BY BlocksAre DEF Walk, Labels, eBBPredecessors, Blocks
<1>1. /\ noPath' = noPath \cup (Blocks \ visited) /\ i' = 1 /\ change' = FALSE
      /\ predList' = [b \in Blocks |->
           {p \in Blocks \ noPath' : b \in Range1(succ[p]) /\ dfnum[b] > dfnum[p]}]
      /\ domVect' = [b \in Blocks |-> IF b = 0 THEN {0} ELSE Blocks]
  BY DEF eBBPredecessors
<1>2. TypeOK'
  <2>1. predList' \in [Blocks -> SUBSET Blocks] /\ domVect' \in [Blocks -> SUBSET Blocks]
    BY <1>0, <1>1
  <2>2. noPath' \subseteq Blocks /\ i' \in 1 .. count - 1
    BY <1>0, <1>1 DEF TypeOK
  <2>3. change' \in BOOLEAN
    BY <1>1, Zenon
  <2> QED
    BY <1>0, <2>1, <2>2, <2>3 DEF TypeOK
<1>3. Searched'
  BY <1>0 DEF Searched, Range1
<1>4. Passes'
  <2>1. domVect'[0] = {0}
    BY <1>0, <1>1
  <2>2. predList' = [b \in Blocks' |->
                       {p \in Live' : b \in Range1(succ'[p]) /\ dfnum'[b] > dfnum'[p]}]
    BY <1>0, <1>1 DEF Live
  <2>3. 1 .. i' - 1 = {}
    BY <1>1
  <2> QED
    BY <1>0, <2>1, <2>2, <2>3 DEF Passes, Range1
<1> QED
  BY <1>0, <1>2, <1>3, <1>4, LabelsFrame DEF Walk, Searching

LEMMA DominateWalk == ASSUME Walk, Dominate PROVE Walk'
<1>0. /\ TypeOK /\ Labels /\ Searched /\ Passes /\ pc = "dom" /\ Blocks' = Blocks
      /\ N \in Nat \ {0, 1} /\ Blocks = 0 .. N - 1 /\ count = N /\ count' = count
      /\ i \in 1 .. count - 1 /\ change \in BOOLEAN /\ domVect \in [Blocks -> SUBSET Blocks]
  BY BlocksAre DEF Walk, Labels, Dominate, Blocks, TypeOK
<1>1. /\ domVect' = [domVect EXCEPT ![i] = DomOf(i)]
      /\ UNCHANGED <<count, ech, alone, labelled, noPath, succ, visited, stack, dfnum,
                     dfCount, predList, changes>>
  BY DEF Dominate
<1>2. DomOf(i) \subseteq Blocks
  BY <1>0 DEF DomOf
<1> DEFINE changed == change \/ DomOf(i) # domVect[i]
<1>3. \/ i < count - 1 /\ i' = i + 1 /\ change' = changed /\ pc' = "dom"
      \/ i = count - 1 /\ i' = 1 /\ change' = FALSE /\ pc' = "dom" /\ changed
      \/ i = count - 1 /\ i' = 1 /\ change' = FALSE /\ pc' = "done" /\ ~changed
  <2>1. IF i < count - 1
        THEN i' = i + 1 /\ change' = changed /\ pc' = pc
        ELSE i' = 1 /\ change' = FALSE /\ pc' = IF changed THEN "dom" ELSE "done"
    BY DEF Dominate
  <2>2. ~(i < count - 1) => i = count - 1
    BY <1>0
  <2> HIDE DEF changed
  <2> QED
    BY <1>0, <2>1, <2>2
<1>4. TypeOK'
  <2>1. domVect' \in [Blocks -> SUBSET Blocks]
    BY <1>0, <1>1, <1>2
  <2>2. i' \in 1 .. count - 1 /\ pc' \in {"dom", "done"}
    BY <1>0, <1>3
  <2>3. change' \in BOOLEAN
    <3>1. changed \in BOOLEAN
      OBVIOUS
    <3> HIDE DEF changed
    <3> QED
      BY <1>3, <3>1, Zenon
  <2> QED
    BY <1>0, <1>1, <2>1, <2>2, <2>3 DEF TypeOK
<1>5. Searched'
  BY <1>0, <1>1, <1>3 DEF Searched, Range1
<1>6. ~changed => domVect' = domVect /\ \A j \in 1 .. i : domVect[j] = DomOf(j)
  <2> SUFFICES ASSUME ~changed
               PROVE  domVect' = domVect /\ \A j \in 1 .. i : domVect[j] = DomOf(j)
    OBVIOUS
  <2>1. domVect' = domVect
    BY <1>0, <1>1
  <2>2. \A j \in 1 .. i - 1 : domVect[j] = DomOf(j)
    BY <1>0 DEF Passes
  <2>3. \A j \in 1 .. i : j = i \/ j \in 1 .. i - 1
    BY <1>0
  <2> QED
    BY <2>1, <2>2, <2>3
<1>7. domVect' = domVect => \A j \in Blocks : DomOf(j)' = DomOf(j)
  BY <1>0, <1>1 DEF DomOf
<1>8. Passes'
  <2>1. predList' = [b \in Blocks' |->
                       {p \in Live' : b \in Range1(succ'[p]) /\ dfnum'[b] > dfnum'[p]}]
    BY <1>0, <1>1 DEF Passes, Live
  <2>2. domVect'[0] = {0}
    BY <1>0, <1>1 DEF Passes
  <2>3. 1 .. i \subseteq Blocks
    BY <1>0
  <2> HIDE DEF changed
  <2>4. ~changed => \A j \in 1 .. i : domVect'[j] = DomOf(j)'
    BY <1>6, <1>7, <2>3
  <2>5. pc' = "dom" /\ ~change' => \A j \in 1 .. i' - 1 : domVect'[j] = DomOf(j)'
    <3>1. CASE i' = i + 1 /\ change' = changed
      <4>1. i' - 1 = i
        BY <1>0, <3>1
      <4> QED
        BY <2>4, <3>1, <4>1
    <3>2. CASE i' = 1
      <4>1. 1 .. i' - 1 = {}
        BY <3>2
      <4> QED
        BY <4>1
    <3> QED
      BY <1>3, <3>1, <3>2
  <2>6. pc' = "done" => \A j \in 1 .. count - 1 : domVect'[j] = DomOf(j)'
    BY <1>3, <2>4
  <2> QED
    BY <1>0, <1>1, <2>1, <2>2, <2>5, <2>6 DEF Passes, Range1
<1> QED
  BY <1>0, <1>1, <1>3, <1>4, <1>5, <1>8, LabelsFrame DEF Walk, Searching

\* What an optimisation may do to the last instruction of a block.
LEMMA OptimizeIs ==
  ASSUME TypeOK, Labels, Optimize
  PROVE  /\ TypeOK' /\ Labels' /\ pc = "done" /\ pc' = "call" /\ count' = count
         /\ \A b \in Blocks : Flow(b)' \subseteq Flow(b)
<1>1. PICK b \in Blocks : disconBBlock(b) \/ FoldTaken(b) \/ FoldNotTaken(b)
  BY DEF Optimize
<1>0. /\ N \in Nat \ {0, 1} /\ Blocks = 0 .. N - 1 /\ count = N /\ count' = count
      /\ pc = "done" /\ pc' = "call" /\ Blocks' = Blocks
      /\ UNCHANGED <<alone, labelled, flowVars>>
      /\ changes' \in 0 .. MaxChanges
  <2>1. /\ Change /\ UNCHANGED <<count, alone, labelled, flowVars>>
    BY <1>1 DEF disconBBlock, FoldTaken, FoldNotTaken
  <2>2. N \in Nat \ {0, 1} /\ Blocks = 0 .. N - 1 /\ count = N
    BY BlocksAre DEF Labels
  <2>3. changes' \in 0 .. MaxChanges
    <3>1. changes \in 0 .. MaxChanges /\ changes < MaxChanges /\ changes' = changes + 1
      BY <2>1 DEF TypeOK, Change
    <3> QED
      BY <3>1, FlowAssumption
  <2> QED
    BY <2>1, <2>2, <2>3 DEF Change, Blocks
<1> DEFINE e == ech'[b]
<1>2. /\ ech \in [Blocks -> [op : Leaves \cup {"PLAIN", "IFX", "EMPTY"}, labels : Seq(Blocks)]]
      /\ ech[b].op \in Leaves \cup {"PLAIN", "IFX", "EMPTY"} /\ ech[b].labels \in Seq(Blocks)
  BY DEF TypeOK
<1>3. /\ ech' \in [Blocks -> [op : Leaves \cup {"PLAIN", "IFX", "EMPTY"}, labels : Seq(Blocks)]]
      /\ \A x \in Blocks \ {b} : ech'[x] = ech[x]
      /\ noPath' \subseteq Blocks
      /\ \/ e.op = "EMPTY" /\ e.labels = <<>> /\ ech[b].op \in {"PLAIN", "EMPTY", "IFX"}
            /\ b \notin labelled
         \/ e.op = "PLAIN" /\ e.labels = <<>> /\ ech[b].op = "IFX"
         \/ e.op = "GOTO" /\ e.labels = ech[b].labels /\ ech[b].op = "IFX"
  <2>1. CASE disconBBlock(b)
    <3>1. /\ ech' = [ech EXCEPT ![b].op = "EMPTY"] /\ b \notin labelled
          /\ ech[b].op \in {"PLAIN", "EMPTY"} /\ noPath' = noPath \cup {b}
      BY <2>1 DEF disconBBlock
    <3>2. ech[b].labels = <<>>
      BY <3>1 DEF Labels
    <3> QED
      BY <1>2, <3>1, <3>2 DEF TypeOK, Leaves
  <2>2. CASE FoldTaken(b)
    <3>1. ech' = [ech EXCEPT ![b].op = "GOTO"] /\ ech[b].op = "IFX" /\ noPath' = noPath
      BY <2>2 DEF FoldTaken
    <3> QED
      BY <1>2, <3>1 DEF TypeOK, Leaves
  <2>3. CASE FoldNotTaken(b)
    <3>1. /\ ech' = [ech EXCEPT ![b] =
                       IF b \in alone THEN [op |-> "EMPTY", labels |-> <<>>] ELSE Plain]
          /\ ech[b].op = "IFX" /\ noPath' = noPath
      BY <2>3 DEF FoldNotTaken
    <3>2. PICK r \in [op : Leaves \cup {"PLAIN", "IFX", "EMPTY"}, labels : Seq(Blocks)] :
            /\ ech' = [ech EXCEPT ![b] = r] /\ r.labels = <<>>
            /\ \/ r.op = "EMPTY" /\ b \in alone
               \/ r.op = "PLAIN"
      <4>1. CASE b \in alone
        <5>1. ech' = [ech EXCEPT ![b] = [op |-> "EMPTY", labels |-> <<>>]]
          BY <3>1, <4>1
        <5> DEFINE r == [op |-> "EMPTY", labels |-> <<>>]
        <5>2. r.op = "EMPTY" /\ r.labels = <<>>
          OBVIOUS
        <5>3. r \in [op : Leaves \cup {"PLAIN", "IFX", "EMPTY"}, labels : Seq(Blocks)]
          OBVIOUS
        <5>4. ech' = [ech EXCEPT ![b] = r]
          BY <5>1
        <5> HIDE DEF r, e
        <5> QED
          BY <4>1, <5>2, <5>3, <5>4
      <4>2. CASE b \notin alone
        <5>1. ech' = [ech EXCEPT ![b] = [op |-> "PLAIN", labels |-> <<>>]]
          BY <3>1, <4>2 DEF Plain
        <5> DEFINE r == [op |-> "PLAIN", labels |-> <<>>]
        <5>2. r.op = "PLAIN" /\ r.labels = <<>>
          OBVIOUS
        <5>3. r \in [op : Leaves \cup {"PLAIN", "IFX", "EMPTY"}, labels : Seq(Blocks)]
          OBVIOUS
        <5>4. ech' = [ech EXCEPT ![b] = r]
          BY <5>1
        <5> HIDE DEF r, e
        <5> QED
          BY <5>2, <5>3, <5>4
      <4> QED
        BY <4>1, <4>2
    <3>3. e = r /\ \A x \in Blocks \ {b} : ech'[x] = ech[x]
      BY <1>2, <3>2
    <3>4. ech' \in [Blocks -> [op : Leaves \cup {"PLAIN", "IFX", "EMPTY"}, labels : Seq(Blocks)]]
      BY <1>2, <3>2
    <3>5. noPath' \subseteq Blocks /\ (b \in alone => b \notin labelled)
      BY <3>1 DEF TypeOK, Labels
    <3> HIDE DEF e
    <3> QED
      BY <3>1, <3>2, <3>3, <3>4, <3>5
  <2> QED
    BY <1>1, <2>1, <2>2, <2>3
<1> HIDE DEF e
<1>4. TypeOK'
  BY <1>0, <1>3 DEF TypeOK, flowVars
<1>5. Range1(<<>>) = {}
  BY DEF Range1
<1>6. Labels'
  <2>1. ASSUME NEW x \in Blocks
        PROVE  /\ Range1(ech'[x].labels) \subseteq labelled
               /\ ech'[x].op \in {"PLAIN", "EMPTY"} => ech'[x].labels = <<>>
               /\ ech'[x].op = "EMPTY" => x \notin labelled
    <3>1. CASE x # b
      BY <1>3, <3>1 DEF Labels
    <3>2. CASE x = b
      <4>1. Range1(ech[b].labels) \subseteq labelled
        BY DEF Labels
      <4> QED
        BY <1>3, <1>5, <3>2, <4>1 DEF e
    <3> QED
      BY <3>1, <3>2
  <2> QED
    BY <1>0, <2>1 DEF Labels
<1>7. ASSUME NEW x \in Blocks PROVE Flow(x)' \subseteq Flow(x)
  <2>1. CASE x # b
    BY <1>0, <1>3, <2>1 DEF Flow
  <2>2. CASE x = b
    BY <1>0, <1>3, <1>5, <2>2 DEF Flow, Leaves, e
  <2> QED
    BY <2>1, <2>2
<1> QED
  BY <1>0, <1>4, <1>6, <1>7

LEMMA WalkStep == Walk /\ [Next]_vars => Walk'
<1> SUFFICES ASSUME Walk, [Next]_vars PROVE Walk'
  OBVIOUS
<1>1. CASE computeControlFlow
  BY <1>1, CallWalk
<1>2. CASE Descend
  BY <1>2, DescendWalk
<1>3. CASE Ascend
  BY <1>3, AscendWalk
<1>4. CASE eBBPredecessors
  BY <1>4, PredsWalk
<1>5. CASE Dominate
  BY <1>5, DominateWalk
<1>6. CASE Optimize
  BY <1>6, OptimizeIs DEF Walk, Searching, Searched, Passes
<1>7. CASE UNCHANGED vars
  <2>1. UNCHANGED <<count, ech, alone, labelled, noPath, succ, visited, stack, dfnum, dfCount,
                    predList, domVect, i, change, pc, changes>>
    BY <1>7 DEF vars, flowVars
  <2>2. Blocks' = Blocks /\ Finished' = Finished /\ Live' = Live
    BY <2>1 DEF Blocks, Finished, Live, Range1
  <2>3. TypeOK'
    BY <2>1, <2>2 DEF Walk, TypeOK
  <2>4. Labels'
    BY <2>1, LabelsFrame DEF Walk
  <2>5. Searching'
    BY <2>1, <2>2 DEF Walk, Searching
  <2>6. Searched'
    BY <2>1, <2>2 DEF Walk, Searched
  <2>7. Passes'
    BY <2>1, <2>2 DEF Walk, Passes, DomOf
  <2> QED
    BY <2>3, <2>4, <2>5, <2>6, <2>7 DEF Walk
<1> QED
  BY <1>1, <1>2, <1>3, <1>4, <1>5, <1>6, <1>7 DEF Next, computeStep

-----------------------------------------------------------------------------

\* The search numbers every block it leaves once, and every block but the entry
\* is entered from one with a smaller number, on every graph.
THEOREM WalkInvariant == Spec => []Walk
BY WalkInit, WalkStep, PTL DEF Spec

\* Every variable of computeControlFlow keeps its type: dfnum and dfCount count
\* down from the number of blocks and never past zero.
THEOREM FlowTypeCorrect == Spec => []TypeOK
<1>1. Walk => TypeOK
  BY DEF Walk
<1> QED
  BY <1>1, WalkInvariant, PTL

-----------------------------------------------------------------------------
(* The marks noPath and the dominators.                                    *)

LEMMA RangeOfBoth ==
  ASSUME NEW S, NEW s \in Seq(S), NEW t \in Seq(S)
  PROVE  Range1(s \o t) = Range1(s) \cup Range1(t)
<1> DEFINE c == s \o t
<1>1. /\ Len(s) \in Nat /\ Len(t) \in Nat /\ Len(c) = Len(s) + Len(t)
      /\ \A k \in 1 .. Len(s) : c[k] = s[k]
      /\ \A k \in 1 .. Len(t) : c[Len(s) + k] = t[k]
  OBVIOUS
<1> HIDE DEF c
<1>2. ASSUME NEW k \in 1 .. Len(c) PROVE c[k] \in Range1(s) \cup Range1(t)
  <2>1. CASE k <= Len(s)
    BY <1>1, <2>1, InRange1
  <2>2. CASE ~(k <= Len(s))
    <3>1. k - Len(s) \in 1 .. Len(t) /\ Len(s) + (k - Len(s)) = k
      BY <1>1, <2>2
    <3>2. t[k - Len(s)] \in Range1(t)
      BY <3>1, InRange1
    <3> QED
      BY <1>1, <3>1, <3>2
  <2> QED
    BY <2>1, <2>2
<1>3. ASSUME NEW k \in 1 .. Len(s) PROVE s[k] \in Range1(c)
  <2>1. k \in 1 .. Len(c)
    BY <1>1
  <2>2. c[k] \in Range1(c)
    BY <2>1, InRange1
  <2> QED
    BY <1>1, <2>2
<1>4. ASSUME NEW k \in 1 .. Len(t) PROVE t[k] \in Range1(c)
  <2>1. Len(s) + k \in 1 .. Len(c)
    BY <1>1
  <2>2. c[Len(s) + k] \in Range1(c)
    BY <2>1, InRange1
  <2> QED
    BY <1>1, <2>2
<1>5. Range1(c) = Range1(s) \cup Range1(t)
  BY <1>2, <1>3, <1>4 DEF Range1
<1> QED
  BY <1>5 DEF c

LEMMA ReachedSame ==
  ASSUME UNCHANGED <<count, ech>>
  PROVE  /\ Reached({})' = Reached({})
         /\ \A d : Reached({d})' = Reached({d})
BY DEF Reached, Closed, Flow, Blocks

LEMMA MarksFrame ==
  ASSUME NoPathEmpty, EmptyFollowed, UNCHANGED <<count, ech, noPath>>
  PROVE  NoPathEmpty' /\ EmptyFollowed'
<1>1. Blocks' = Blocks /\ Live' = Live
  BY DEF Blocks, Live
<1>2. Reached({})' = Reached({})
  BY ReachedSame
<1> QED
  BY <1>1, <1>2 DEF NoPathEmpty, EmptyFollowed

LEMMA EdgesFrame ==
  ASSUME Edges, pc # "call", UNCHANGED <<count, ech, noPath, succ>>
  PROVE  Edges'
<1>1. Live' = Live /\ \A b, x : Falls(b, x)' = Falls(b, x)
  BY DEF Blocks, Live, Falls
<1> QED
  BY <1>1 DEF Edges

LEMMA GraphInit == Init => Graph
<1> SUFFICES ASSUME Init PROVE Graph
  OBVIOUS
<1>1. Walk
  BY WalkInit
<1>2. pc = "call" /\ noPath = {}
  BY DEF Init
<1>3. EmptyFollowed
  BY <1>2 DEF EmptyFollowed
<1> QED
  BY <1>1, <1>2, <1>3 DEF Graph, Edges, NoPathEmpty, VisitedReached, SoundSoFar

LEMMA CallGraph == ASSUME Graph, computeControlFlow PROVE Graph'
<1>0. /\ TypeOK /\ Labels /\ NoPathEmpty /\ EmptyFollowed /\ Walk' /\ Blocks' = Blocks
      /\ Live' = Live /\ UNCHANGED <<count, ech, noPath>> /\ pc' = "order"
      /\ succ' = eBBSuccessors /\ visited' = {0}
      /\ N \in Nat \ {0, 1} /\ Blocks = 0 .. N - 1 /\ count = N /\ 0 \in Blocks
  BY CallWalk, BlocksAre DEF Graph, Walk, Labels, computeControlFlow, Blocks, Live
<1>1. ASSUME NEW b \in Live
      PROVE  /\ Range1(ech[b].labels) \subseteq Range1(succ'[b])
             /\ \A x \in Range1(succ'[b]) \ Range1(ech[b].labels) : x \notin noPath /\ Falls(b, x)
             /\ \A x \in Live : Falls(b, x) => x \in Range1(succ'[b])
  <2>0. b \in Blocks /\ b \notin noPath
    BY DEF Live
  <2>1. succ'[b] = FallThrough(b) \o ech[b].labels
    BY <1>0, <2>0 DEF eBBSuccessors
  <2>2. ech[b].labels \in Seq(Blocks) /\ FallThrough(b) \in Seq(Blocks)
    BY <1>0, <2>0, FallThroughIs DEF TypeOK
  <2>3. Range1(succ'[b]) = Range1(FallThrough(b)) \cup Range1(ech[b].labels)
    BY <2>1, <2>2, RangeOfBoth
  <2>4. ASSUME NEW x \in Range1(FallThrough(b)) PROVE x \notin noPath /\ Falls(b, x)
    <3>1. x \in Blocks
      BY <2>2 DEF Range1
    <3>2. /\ Falls(b, x) /\ (ech[b].op # "EMPTY" => x \notin noPath)
          /\ (ech[b].op = "EMPTY" => x = b + 1)
      BY <1>0, <2>0, FallThroughIs
    <3> QED
      BY <1>0, <3>1, <3>2 DEF EmptyFollowed
  <2>5. ASSUME NEW x \in Live, Falls(b, x) PROVE x \in Range1(FallThrough(b))
    <3>1. ech[b].op = "EMPTY" => x = b + 1
      <4> SUFFICES ASSUME ech[b].op = "EMPTY", x # b + 1 PROVE FALSE
        OBVIOUS
      <4>1. x \in Blocks
        BY DEF Live
      <4>2. b + 1 \in b + 1 .. x - 1 /\ b + 1 \in Blocks
        BY <1>0, <2>0, <2>5, <4>1 DEF Falls
      <4> QED
        BY <1>0, <2>5, <4>2 DEF EmptyFollowed, Falls
    <3> QED
      BY <1>0, <2>0, <2>5, <3>1, FallThroughIs
  <2> QED
    BY <2>3, <2>4, <2>5
<1>2. Edges'
  <2>1. \A b, x : Falls(b, x)' = Falls(b, x)
    BY <1>0 DEF Falls
  <2> QED
    BY <1>0, <1>1, <2>1 DEF Edges
<1>3. VisitedReached'
  <2>1. 0 \in Reached({})
    BY <1>0, ReachedCloses
  <2>2. 0 \in Live
    BY <1>0 DEF NoPathEmpty, Live
  <2> QED
    BY <1>0, <2>1, <2>2, ReachedSame DEF VisitedReached
<1> QED
  BY <1>0, <1>2, <1>3, MarksFrame DEF Graph, SoundSoFar

LEMMA DescendGraph == ASSUME Graph, Descend PROVE Graph'
<1>0. /\ TypeOK /\ Labels /\ NoPathEmpty /\ EmptyFollowed /\ Edges /\ VisitedReached /\ Walk'
      /\ Searching /\ Live' = Live /\ UNCHANGED <<count, ech, noPath, succ>>
      /\ pc = "order" /\ pc' = "order" /\ stack \in Seq(Blocks) /\ stack # <<>>
  BY DescendWalk DEF Graph, Walk, Descend, Blocks, Live, TypeOK, Searching
<1> DEFINE h == Head(stack)
           g == Greatest(Unvisited(h))
           next == succ[h][g]
<1>1. visited' = visited \cup {next}
  BY DEF Descend
<1>2. h \in visited /\ h \in Blocks
  <2>1. h = stack[1] /\ h \in Blocks /\ Len(stack) \in Nat \ {0}
    BY <1>0, Pop
  <2>2. stack[1] \in Range1(stack)
    BY <2>1, InRange1
  <2> QED
    BY <1>0, <2>1, <2>2 DEF Searching
<1>3. next \in Range1(succ[h]) /\ next \in Blocks
  <2>1. succ[h] \in Seq(Blocks) /\ Len(succ[h]) \in Nat
    BY <1>0, <1>2 DEF TypeOK
  <2>2. Unvisited(h) # {} /\ Unvisited(h) \subseteq 1 .. Len(succ[h])
    BY DEF Descend, Unvisited
  <2>3. g \in 1 .. Len(succ[h])
    BY <2>1, <2>2, GreatestIs
  <2> HIDE DEF g, h
  <2>4. succ[h][g] \in Range1(succ[h]) /\ succ[h][g] \in Blocks
    BY <2>1, <2>3, InRange1
  <2> QED
    BY <2>4
<1> HIDE DEF h, next
<1>4. next \in Reached({}) /\ next \notin noPath
  <2>1. h \in Reached({}) \cap Live
    BY <1>0, <1>2 DEF VisitedReached
  <2> QED
    BY <1>0, <1>3, <2>1, SuccReached
<1>5. VisitedReached'
  <2>1. next \in Live
    BY <1>3, <1>4 DEF Live
  <2> QED
    BY <1>0, <1>1, <1>4, <2>1, ReachedSame DEF VisitedReached
<1> QED
  BY <1>0, <1>5, MarksFrame, EdgesFrame DEF Graph, SoundSoFar

LEMMA AscendGraph == ASSUME Graph, Ascend PROVE Graph'
<1>0. /\ NoPathEmpty /\ EmptyFollowed /\ Edges /\ VisitedReached /\ Walk'
      /\ Live' = Live /\ UNCHANGED <<count, ech, noPath, succ, visited>>
      /\ pc = "order" /\ pc' \in {"order", "preds"}
  BY AscendWalk DEF Graph, Ascend, Blocks, Live
<1>1. VisitedReached'
  BY <1>0, ReachedSame DEF VisitedReached
<1> QED
  BY <1>0, <1>1, MarksFrame, EdgesFrame DEF Graph, SoundSoFar

LEMMA PredsGraph == ASSUME Graph, eBBPredecessors PROVE Graph'
<1>0. /\ TypeOK /\ Labels /\ NoPathEmpty /\ EmptyFollowed /\ Edges /\ VisitedReached /\ Walk'
      /\ Searched /\ UNCHANGED <<count, ech, succ, visited>> /\ Blocks' = Blocks
      /\ pc = "preds" /\ pc' = "dom" /\ noPath' = noPath \cup (Blocks \ visited)
      /\ domVect' = [b \in Blocks |-> IF b = 0 THEN {0} ELSE Blocks]
      /\ N \in Nat \ {0, 1} /\ Blocks = 0 .. N - 1 /\ count = N
  BY PredsWalk, BlocksAre DEF Graph, Walk, eBBPredecessors, Blocks, Labels
<1>1. /\ Live' = visited /\ visited \subseteq Live /\ visited \subseteq Reached({})
      /\ Live \subseteq Blocks /\ \A x \in visited : x \notin noPath'
  BY <1>0 DEF VisitedReached, Live, TypeOK
<1>2. /\ 0 \in visited
      /\ \A b \in visited : Range1(succ[b]) \subseteq visited
  BY <1>0 DEF Searched
<1>3. ASSUME NEW b \in visited, NEW x \in visited, Falls(b, x)' PROVE x \in Range1(succ[b])
  <2>0. b \in Live /\ x \in Live /\ b \in Blocks /\ x \in Blocks
    BY <1>1
  <2>1. ech[b].op \notin Leaves /\ b < x /\ \A j \in b + 1 .. x - 1 : j \in noPath'
    BY <1>0, <1>3 DEF Falls
  <2> DEFINE K == {j \in b + 1 .. x - 1 : j \notin noPath}
  <2>2. K = {}
    <3> SUFFICES ASSUME K # {} PROVE FALSE
      OBVIOUS
    <3>1. PICK m \in K : \A k \in K : m <= k
      <4>1. K \subseteq Nat
        BY <1>0, <2>0
      <4> HIDE DEF K
      <4> QED
        BY <4>1, LeastExists
    <3>2. m \in b + 1 .. x - 1 /\ m \notin noPath /\ m \in Live
      BY <1>0, <2>0, <3>1 DEF Live
    <3>3. ASSUME NEW j \in b + 1 .. m - 1 PROVE j \in noPath
      <4>1. j \in b + 1 .. x - 1 /\ ~(m <= j)
        BY <1>0, <2>0, <3>2
      <4> QED
        BY <3>1, <4>1
    <3>4. Falls(b, m)
      BY <1>0, <2>0, <2>1, <3>2, <3>3 DEF Falls
    <3>5. m \in visited
      BY <1>0, <1>2, <2>0, <3>2, <3>4 DEF Edges
    <3> QED
      BY <1>1, <2>1, <3>2, <3>5
  <2>3. Falls(b, x)
    BY <2>1, <2>2 DEF Falls
  <2> QED
    BY <1>0, <2>0, <2>3 DEF Edges
<1>4. Edges'
  <2>1. ASSUME NEW b \in visited, NEW x \in Range1(succ[b]) \ Range1(ech[b].labels)
        PROVE  x \notin noPath' /\ Falls(b, x)'
    <3>1. Falls(b, x) /\ x \in visited
      BY <1>0, <1>1, <1>2, <2>1 DEF Edges
    <3> QED
      BY <1>0, <1>1, <3>1 DEF Falls
  <2>2. \A b \in visited : Range1(ech[b].labels) \subseteq Range1(succ[b])
    BY <1>0, <1>1 DEF Edges
  <2> QED
    BY <1>0, <1>1, <1>3, <2>1, <2>2 DEF Edges
<1>5. NoPathEmpty'
  <2>1. Reached({}) \cap Live \subseteq visited
    BY <1>0, <1>1, <1>2, ReachedThroughSucc
  <2>2. ASSUME NEW b \in noPath', ech[b].op # "EMPTY" PROVE b \notin Reached({})
    <3>1. CASE b \in noPath
      BY <1>0, <2>2, <3>1 DEF NoPathEmpty
    <3>2. CASE b \notin noPath
      <4>1. b \in Live /\ b \notin visited
        BY <1>0, <3>2 DEF Live
      <4> QED
        BY <2>1, <4>1
    <3> QED
      BY <3>1, <3>2
  <2> QED
    BY <1>0, <1>1, <1>2, <2>2, ReachedSame DEF NoPathEmpty
<1>6. EmptyFollowed'
  <2>1. ASSUME NEW b \in visited, ech[b].op = "EMPTY", b + 1 \in Blocks PROVE b + 1 \notin noPath'
    <3>1. b \in Live /\ b \in Blocks
      BY <1>1
    <3>2. b + 1 \in Live
      BY <1>0, <2>1, <3>1 DEF EmptyFollowed, Live
    <3>3. Falls(b, b + 1)
      BY <1>0, <2>1, <3>1 DEF Falls, Leaves
    <3>4. b + 1 \in visited
      BY <1>0, <1>2, <3>1, <3>2, <3>3 DEF Edges
    <3> QED
      BY <1>1, <3>4
  <2> QED
    BY <1>0, <1>1, <2>1 DEF EmptyFollowed
<1>7. VisitedReached'
  BY <1>0, <1>1, ReachedSame DEF VisitedReached
<1>8. SoundSoFar'
  <2>1. ASSUME NEW d \in visited, NEW b \in visited, b \notin Reached({d}) PROVE d \in domVect'[b]
    <3>0. d \in Blocks /\ b \in Blocks
      BY <1>1
    <3>1. CASE b = 0
      <4>1. 0 \in Reached({d}) \cup {d}
        BY <1>0, <3>0, ReachedCloses
      <4> QED
        BY <1>0, <2>1, <3>0, <3>1, <4>1
    <3>2. CASE b # 0
      BY <1>0, <3>0, <3>2
    <3> QED
      BY <3>1, <3>2
  <2>2. \A d : Reached({d})' = Reached({d})
    BY <1>0, ReachedSame
  <2>3. \A d \in Live' : \A b \in Live' \ Reached({d})' : d \in domVect'[b]
    BY <1>1, <2>1, <2>2
  <2> QED
    BY <2>3 DEF SoundSoFar
<1> QED
  BY <1>0, <1>4, <1>5, <1>6, <1>7, <1>8 DEF Graph

LEMMA DominateGraph == ASSUME Graph, Dominate PROVE Graph'
<1>0. /\ TypeOK /\ Labels /\ NoPathEmpty /\ EmptyFollowed /\ Edges /\ VisitedReached /\ Walk'
      /\ Searched /\ Passes /\ SoundSoFar
      /\ UNCHANGED <<count, ech, noPath, succ, visited>> /\ Blocks' = Blocks /\ Live' = Live
      /\ pc = "dom" /\ pc' \in {"dom", "done"}
      /\ domVect' = [domVect EXCEPT ![i] = DomOf(i)]
      /\ N \in Nat \ {0, 1} /\ Blocks = 0 .. N - 1 /\ count = N /\ i \in 1 .. count - 1
      /\ domVect \in [Blocks -> SUBSET Blocks] /\ Live \subseteq Blocks /\ Live = visited
  <2>1. domVect' = [domVect EXCEPT ![i] = DomOf(i)] /\ Walk'
    BY DominateWalk DEF Dominate, Graph
  <2>2. /\ UNCHANGED <<count, ech, noPath, succ, visited>> /\ pc = "dom"
        /\ pc' \in {"dom", "done"}
    BY DEF Dominate
  <2>3. N \in Nat \ {0, 1} /\ Blocks = 0 .. N - 1 /\ count = N
    BY BlocksAre DEF Graph, Walk, Labels
  <2>4. Live \subseteq Blocks /\ Live = visited
    BY <2>2 DEF Live, Graph, VisitedReached
  <2> QED
    BY <2>1, <2>2, <2>3, <2>4 DEF Graph, Walk, TypeOK, Blocks, Live
<1>1. ASSUME NEW d \in Live, NEW b \in Live, b \notin Reached({d}) PROVE d \in domVect'[b]
  <2>0. d \in Blocks /\ b \in Blocks /\ {d} \in SUBSET Live
    BY <1>0
  <2>1. CASE b # i
    BY <1>0, <1>1, <2>0, <2>1 DEF SoundSoFar
  <2>2. CASE b = i
    <3>1. domVect'[b] = DomOf(i)
      BY <1>0, <2>0, <2>2
    <3>2. CASE d = i
      BY <3>1, <3>2 DEF DomOf
    <3>3. CASE d # i
      <4>1. predList[i] = {p \in Live : i \in Range1(succ[p]) /\ dfnum[i] > dfnum[p]}
        BY <1>0 DEF Passes
      <4>2. PICK q \in visited : i \in Range1(succ[q]) /\ dfnum[q] < dfnum[i]
        <5>1. i \in visited \ {0}
          BY <1>0, <2>2
        <5> QED
          BY <1>0, <5>1 DEF Searched
      <4>3. predList[i] # {}
        <5>1. dfnum[q] \in Nat /\ dfnum[i] \in Nat
          BY <1>0, <2>0, <2>2 DEF TypeOK
        <5> QED
          BY <1>0, <4>1, <4>2, <5>1
      <4>4. ASSUME NEW p \in predList[i] PROVE d \in domVect[p]
        <5>1. p \in Live /\ i \in Range1(succ[p])
          BY <4>1
        <5>2. p \notin Reached({d})
          BY <1>0, <1>1, <2>0, <2>2, <3>3, <5>1, SuccReached
        <5> QED
          BY <1>0, <5>1, <5>2 DEF SoundSoFar
      <4> QED
        BY <2>0, <3>1, <4>3, <4>4 DEF DomOf
    <3> QED
      BY <3>2, <3>3
  <2> QED
    BY <2>1, <2>2
<1>2. SoundSoFar'
  <2>1. \A d : Reached({d})' = Reached({d})
    BY <1>0, ReachedSame
  <2>2. Live' = Live
    BY <1>0
  <2>3. \A d \in Live' : \A b \in Live' \ Reached({d})' : d \in domVect'[b]
    BY <1>1, <2>1, <2>2
  <2> QED
    BY <2>3 DEF SoundSoFar
<1>3. VisitedReached'
  BY <1>0, ReachedSame DEF VisitedReached
<1> QED
  BY <1>0, <1>2, <1>3, MarksFrame, EdgesFrame DEF Graph

\* A change never adds a way for control to go.
LEMMA ChangeShrinks ==
  ASSUME TypeOK, Labels, Optimize
  PROVE  Reached({})' \subseteq Reached({})
<1>0. count' = count /\ Blocks' = Blocks /\ \A b \in Blocks : Flow(b)' \subseteq Flow(b)
  BY OptimizeIs DEF Blocks
<1>1. \A S \in SUBSET Blocks :
        0 \in S /\ (\A b \in S : Flow(b)' \subseteq S) => Reached({})' \subseteq S
  <2> TAKE S \in SUBSET Blocks
  <2> HAVE 0 \in S /\ \A b \in S : Flow(b)' \subseteq S
  <2>1. S \in SUBSET (Blocks' \ {}) /\ Closed(S, {})'
    BY <1>0 DEF Closed
  <2> QED
    BY <2>1 DEF Reached
<1>2. /\ Reached({}) \subseteq Blocks /\ 0 \in Reached({})
      /\ \A b \in Reached({}) : Flow(b) \subseteq Reached({})
  BY ReachedCloses
<1>3. \A b \in Reached({}) : Flow(b)' \subseteq Reached({})
  BY <1>0, <1>2
<1> QED
  BY <1>1, <1>2, <1>3

\* A block that control falls into only from the one in front of it, and that has
\* been emptied, is not disconnected before the blocks in front of it are.
LEMMA DisconnectedLater ==
  ASSUME Graph, NEW b \in Blocks, disconBBlock(b), NEW e \in Live, ech[e].op = "EMPTY",
         b = e + 1
  PROVE  FALSE
<1>0. /\ pc = "done" /\ b \notin labelled /\ b \notin noPath /\ b # 0 /\ dfnum[b] <= dfnum[e]
      /\ e \in Blocks /\ b \in Live
      /\ N \in Nat \ {0, 1} /\ Blocks = 0 .. N - 1
  BY BlocksAre DEF disconBBlock, Change, Live, Graph, Walk, Labels
<1>1. b \in visited
  BY <1>0 DEF Graph, VisitedReached
<1>2. PICK p \in visited : b \in Range1(succ[p]) /\ dfnum[p] < dfnum[b]
  BY <1>0, <1>1 DEF Graph, Walk, Searched
<1>3. p \in Live /\ p \in Blocks
  BY <1>0 DEF Graph, VisitedReached, Live
<1>4. b \notin Range1(ech[p].labels)
  BY <1>0, <1>3 DEF Graph, Walk, Labels
<1>5. Falls(p, b)
  BY <1>0, <1>2, <1>3, <1>4 DEF Graph, Edges
<1>6. p = e
  <2> SUFFICES ASSUME p # e PROVE FALSE
    OBVIOUS
  <2>1. e \in p + 1 .. b - 1
    BY <1>0, <1>3, <1>5 DEF Falls
  <2> QED
    BY <1>5, <2>1 DEF Falls, Live
<1>7. dfnum[b] \in Nat /\ dfnum[e] \in Nat
  BY <1>0 DEF Graph, Walk, TypeOK
<1> QED
  BY <1>0, <1>2, <1>6, <1>7

LEMMA OptimizeGraph == ASSUME Graph, Optimize, ~FoldBeforeLost PROVE Graph'
<1>0. /\ TypeOK /\ Labels /\ NoPathEmpty /\ EmptyFollowed /\ Walk' /\ pc' = "call"
      /\ ech \in [Blocks -> [op : Leaves \cup {"PLAIN", "IFX", "EMPTY"}, labels : Seq(Blocks)]]
      /\ count' = count /\ Blocks' = Blocks
      /\ N \in Nat \ {0, 1} /\ Blocks = 0 .. N - 1
  <2>1. TypeOK /\ Labels
    BY DEF Graph, Walk
  <2>2. Walk'
    <3>1. Optimize => [Next]_vars
      BY DEF Next
    <3> QED
      BY <3>1, WalkStep DEF Graph
  <2>3. pc' = "call" /\ count' = count
    BY <2>1, OptimizeIs
  <2> QED
    BY <2>1, <2>2, <2>3, BlocksAre DEF Graph, TypeOK, Blocks, Labels
<1>1. PICK b \in Blocks : disconBBlock(b) \/ FoldTaken(b) \/ FoldNotTaken(b)
  BY DEF Optimize
<1>2. CASE disconBBlock(b)
  <2>1. /\ ech' = [ech EXCEPT ![b].op = "EMPTY"] /\ noPath' = noPath \cup {b} /\ b # 0
    BY <1>2 DEF disconBBlock
  <2>2. ech'[b].op = "EMPTY" /\ \A x \in Blocks \ {b} : ech'[x] = ech[x]
    BY <1>0, <2>1
  <2>3. NoPathEmpty'
    BY <1>0, <2>1, <2>2, ChangeShrinks DEF NoPathEmpty, TypeOK
  <2>4. ASSUME NEW e \in Live', ech'[e].op = "EMPTY", e + 1 \in Blocks PROVE e + 1 \notin noPath'
    <3>1. e \in Live /\ e # b /\ e \in Blocks
      BY <1>0, <2>1 DEF Live
    <3>2. ech[e].op = "EMPTY"
      BY <2>2, <2>4, <3>1
    <3>3. e + 1 \notin noPath
      BY <1>0, <2>4, <3>1, <3>2 DEF EmptyFollowed
    <3>4. e + 1 # b
      BY <1>2, <3>1, <3>2, DisconnectedLater
    <3> QED
      BY <2>1, <3>3, <3>4
  <2>5. EmptyFollowed'
    BY <1>0, <2>4 DEF EmptyFollowed
  <2> QED
    BY <1>0, <2>3, <2>5 DEF Graph, Edges, VisitedReached, SoundSoFar
<1>3. CASE FoldTaken(b)
  <2>1. /\ ech' = [ech EXCEPT ![b].op = "GOTO"] /\ noPath' = noPath /\ b \notin noPath
    BY <1>3 DEF FoldTaken
  <2>2. ech'[b].op = "GOTO" /\ \A x \in Blocks \ {b} : ech'[x] = ech[x]
    BY <1>0, <2>1
  <2>3. NoPathEmpty'
    BY <1>0, <2>1, <2>2, ChangeShrinks DEF NoPathEmpty, TypeOK
  <2>4. EmptyFollowed'
    BY <1>0, <2>1, <2>2 DEF EmptyFollowed, Live
  <2> QED
    BY <1>0, <2>3, <2>4 DEF Graph, Edges, VisitedReached, SoundSoFar
<1>4. CASE FoldNotTaken(b)
  <2>1. /\ noPath' = noPath /\ b \notin noPath /\ (b \notin alone \/ b + 1 \notin noPath)
        /\ ech' = [ech EXCEPT ![b] =
                     IF b \in alone THEN [op |-> "EMPTY", labels |-> <<>>] ELSE Plain]
    BY <1>4 DEF FoldNotTaken
  <2>2. \A x \in Blocks \ {b} : ech'[x] = ech[x]
    BY <1>0, <2>1
  <2>3. ech'[b].op = "EMPTY" => b + 1 \notin noPath
    <3>1. CASE b \in alone
      BY <2>1, <3>1
    <3>2. CASE b \notin alone
      <4>1. ech'[b] = Plain
        BY <1>0, <2>1, <3>2
      <4> QED
        BY <4>1 DEF Plain
    <3> QED
      BY <3>1, <3>2
  <2>4. NoPathEmpty'
    BY <1>0, <2>1, <2>2, ChangeShrinks DEF NoPathEmpty, TypeOK
  <2>5. EmptyFollowed'
    BY <1>0, <2>1, <2>2, <2>3 DEF EmptyFollowed, Live
  <2> QED
    BY <1>0, <2>4, <2>5 DEF Graph, Edges, VisitedReached, SoundSoFar
<1> QED
  BY <1>1, <1>2, <1>3, <1>4

LEMMA GraphStep == ASSUME ~FoldBeforeLost PROVE Graph /\ [Next]_vars => Graph'
<1> SUFFICES ASSUME Graph, [Next]_vars PROVE Graph'
  OBVIOUS
<1>1. CASE computeControlFlow
  BY <1>1, CallGraph
<1>2. CASE Descend
  BY <1>2, DescendGraph
<1>3. CASE Ascend
  BY <1>3, AscendGraph
<1>4. CASE eBBPredecessors
  BY <1>4, PredsGraph
<1>5. CASE Dominate
  BY <1>5, DominateGraph
<1>6. CASE Optimize
  BY <1>6, OptimizeGraph
<1>7. CASE UNCHANGED vars
  <2>1. UNCHANGED <<count, ech, noPath, succ, visited, domVect, pc>>
    BY <1>7 DEF vars, flowVars
  <2>2. Live' = Live /\ \A x, y : Falls(x, y)' = Falls(x, y)
    BY <2>1 DEF Live, Blocks, Falls
  <2>3. Edges'
    BY <2>1, <2>2 DEF Graph, Edges
  <2>4. VisitedReached'
    BY <2>1, <2>2, ReachedSame DEF Graph, VisitedReached
  <2>5. SoundSoFar'
    <3>1. \A d : Reached({d})' = Reached({d})
      BY <2>1, ReachedSame
    <3>2. pc' \in {"dom", "done"} =>
            \A d \in Live' : \A b \in Live' \ Reached({d})' : d \in domVect'[b]
      BY <2>1, <2>2, <3>1 DEF Graph, SoundSoFar
    <3> QED
      BY <3>2 DEF SoundSoFar
  <2> QED
    BY <2>1, <2>3, <2>4, <2>5, WalkStep, MarksFrame DEF Graph
<1> QED
  BY <1>1, <1>2, <1>3, <1>4, <1>5, <1>6, <1>7 DEF Next, computeStep

-----------------------------------------------------------------------------
(* The fixpoint computeDominance ends with.                                *)

LEMMA FixpointIs ==
  ASSUME Graph, pc = "done"
  PROVE  /\ domVect[0] = {0} /\ 0 \in Live /\ Live \subseteq Blocks
         /\ dfnum \in [Blocks -> 0 .. count] /\ count \in Nat
         /\ \A b \in Live : domVect[b] \subseteq Blocks /\ b \in domVect[b] /\ dfnum[b] \in Nat
         /\ \A b \in Live \ {0} :
              /\ predList[b] # {}
              /\ predList[b] = {p \in Live : b \in Range1(succ[p]) /\ dfnum[p] < dfnum[b]}
              /\ \A d \in Blocks :
                   d \in domVect[b] <=> d = b \/ \A p \in predList[b] : d \in domVect[p]
<1>0. /\ TypeOK /\ Searched /\ Passes /\ Live = visited /\ Live \subseteq Blocks /\ 0 \in Live
      /\ domVect[0] = {0} /\ 0 \in Blocks
      /\ N \in Nat \ {0, 1} /\ Blocks = 0 .. N - 1 /\ count = N
  <2>1. TypeOK /\ Labels /\ Searched /\ Passes /\ NoPathEmpty /\ VisitedReached
    BY DEF Graph, Walk
  <2>2. 0 \in Live
    BY <2>1, BlocksAre DEF NoPathEmpty, Live, Labels
  <2>3. Live \subseteq Blocks /\ Live = visited
    BY <2>1 DEF Live, VisitedReached
  <2> QED
    BY <2>1, <2>2, <2>3, BlocksAre DEF Labels, Passes
<1>1. /\ dfnum \in [Blocks -> 0 .. count] /\ count \in Nat /\ domVect \in [Blocks -> SUBSET Blocks]
      /\ \A b \in Blocks : dfnum[b] \in Nat
  BY <1>0 DEF TypeOK
<1>2. ASSUME NEW b \in Live \ {0}
      PROVE  /\ predList[b] # {}
             /\ predList[b] = {p \in Live : b \in Range1(succ[p]) /\ dfnum[p] < dfnum[b]}
             /\ \A d \in Blocks :
                  d \in domVect[b] <=> d = b \/ \A p \in predList[b] : d \in domVect[p]
             /\ b \in domVect[b]
  <2>1. predList[b] = {p \in Live : b \in Range1(succ[p]) /\ dfnum[b] > dfnum[p]}
    BY <1>0 DEF Passes
  <2>2. predList[b] = {p \in Live : b \in Range1(succ[p]) /\ dfnum[p] < dfnum[b]}
    BY <1>0, <1>1, <2>1
  <2>3. PICK p \in visited : b \in Range1(succ[p]) /\ dfnum[p] < dfnum[b]
    BY <1>0 DEF Searched
  <2>4. predList[b] # {}
    BY <1>0, <2>2, <2>3
  <2>5. domVect[b] = DomOf(b)
    BY <1>0 DEF Passes
  <2> QED
    BY <1>0, <2>2, <2>4, <2>5 DEF DomOf
<1>3. ASSUME NEW b \in Live PROVE domVect[b] \subseteq Blocks /\ b \in domVect[b]
  BY <1>0, <1>1, <1>2
<1> QED
  BY <1>0, <1>1, <1>2, <1>3

\* What is in the vector of a block comes before it.
LEMMA DominatorsBefore ==
  ASSUME Graph, pc = "done"
  PROVE  \A b \in Live : \A d \in domVect[b] : d \in Live /\ (d = b \/ dfnum[d] < dfnum[b])
<1> DEFINE Bad == {b \in Live : \E d \in domVect[b] : ~(d \in Live /\ (d = b \/ dfnum[d] < dfnum[b]))}
<1> SUFFICES ASSUME Bad # {} PROVE FALSE
  OBVIOUS
<1>1. PICK b \in Bad : \A c \in Bad : dfnum[b] <= dfnum[c]
  <2>1. \A c \in Bad : dfnum[c] \in Nat
    BY FixpointIs
  <2> HIDE DEF Bad
  <2> QED
    BY <2>1, LeastBy
<1>2. PICK d \in domVect[b] : ~(d \in Live /\ (d = b \/ dfnum[d] < dfnum[b]))
  OBVIOUS
<1>3. b \in Live /\ d # b /\ b # 0 /\ d \in Blocks
  BY <1>2, FixpointIs
<1>4. PICK p \in predList[b] : p \in Live /\ dfnum[p] < dfnum[b]
  BY <1>3, FixpointIs
<1>5. d \in domVect[p]
  BY <1>3, <1>4, FixpointIs
<1>6. dfnum[p] \in Nat /\ dfnum[b] \in Nat
  BY <1>3, <1>4, FixpointIs
<1>7. p \notin Bad
  <2>1. ~(dfnum[b] <= dfnum[p])
    BY <1>4, <1>6
  <2> HIDE DEF Bad
  <2> QED
    BY <1>1, <2>1
<1>8. d \in Live /\ (d = p \/ dfnum[d] < dfnum[p])
  BY <1>4, <1>5, <1>7
<1>9. dfnum[d] \in Nat
  BY <1>8, FixpointIs
<1> QED
  BY <1>2, <1>4, <1>6, <1>8, <1>9

LEMMA DominatorsTransitive ==
  ASSUME Graph, pc = "done"
  PROVE  \A b \in Live : \A x \in domVect[b] : domVect[x] \subseteq domVect[b]
<1> DEFINE Bad == {b \in Live : \E x \in domVect[b] : ~(domVect[x] \subseteq domVect[b])}
<1> SUFFICES ASSUME Bad # {} PROVE FALSE
  OBVIOUS
<1>1. PICK b \in Bad : \A c \in Bad : dfnum[b] <= dfnum[c]
  <2>1. \A c \in Bad : dfnum[c] \in Nat
    BY FixpointIs
  <2> HIDE DEF Bad
  <2> QED
    BY <2>1, LeastBy
<1>2. PICK x \in domVect[b] : ~(domVect[x] \subseteq domVect[b])
  OBVIOUS
<1>3. b \in Live /\ x # b /\ b # 0 /\ x \in Blocks
  BY <1>2, FixpointIs
<1>4. ASSUME NEW p \in predList[b] PROVE domVect[x] \subseteq domVect[p]
  <2>1. p \in Live /\ dfnum[p] < dfnum[b] /\ x \in domVect[p]
    BY <1>3, FixpointIs
  <2>2. dfnum[p] \in Nat /\ dfnum[b] \in Nat
    BY <1>3, <2>1, FixpointIs
  <2>3. p \notin Bad
    <3>1. ~(dfnum[b] <= dfnum[p])
      BY <2>1, <2>2
    <3> HIDE DEF Bad
    <3> QED
      BY <1>1, <3>1
  <2> QED
    BY <2>1, <2>3
<1>5. domVect[x] \subseteq Blocks
  <2>1. x \in Live
    BY <1>3, DominatorsBefore
  <2> QED
    BY <2>1, FixpointIs
<1>6. \A d \in domVect[x] : d \in domVect[b]
  BY <1>3, <1>4, <1>5, FixpointIs
<1> QED
  BY <1>2, <1>6

\* Of two blocks in one vector, one is in the vector of the other.
LEMMA DominatorsLine ==
  ASSUME Graph, pc = "done"
  PROVE  \A b \in Live : \A d, e \in domVect[b] : d \in domVect[e] \/ e \in domVect[d]
<1> DEFINE Bad == {b \in Live : \E d, e \in domVect[b] : ~(d \in domVect[e] \/ e \in domVect[d])}
<1> SUFFICES ASSUME Bad # {} PROVE FALSE
  OBVIOUS
<1>1. PICK b \in Bad : \A c \in Bad : dfnum[b] <= dfnum[c]
  <2>1. \A c \in Bad : dfnum[c] \in Nat
    BY FixpointIs
  <2> HIDE DEF Bad
  <2> QED
    BY <2>1, LeastBy
<1>2. PICK d \in domVect[b], e \in domVect[b] : ~(d \in domVect[e] \/ e \in domVect[d])
  OBVIOUS
<1>3. b \in Live /\ d # b /\ e # b /\ d \in Blocks /\ e \in Blocks
  BY <1>2, FixpointIs
<1>4. b # 0
  BY <1>3, FixpointIs
<1>5. PICK p \in predList[b] : p \in Live /\ dfnum[p] < dfnum[b]
  BY <1>3, <1>4, FixpointIs
<1>6. d \in domVect[p] /\ e \in domVect[p] /\ dfnum[p] \in Nat /\ dfnum[b] \in Nat
  BY <1>3, <1>4, <1>5, FixpointIs
<1>7. p \notin Bad
  <2>1. ~(dfnum[b] <= dfnum[p])
    BY <1>5, <1>6
  <2> HIDE DEF Bad
  <2> QED
    BY <1>1, <2>1
<1> QED
  BY <1>2, <1>5, <1>6, <1>7

LEMMA InDominance ==
  ASSUME NEW d, NEW b
  PROVE  <<d, b>> \in Dominance <=> d \in Live /\ b \in Live /\ b \notin Reached({d})
<1> DEFINE From(x) == {x} \X (Live \ Reached({x}))
<1>1. \A x : <<d, b>> \in From(x) <=> x = d /\ b \in Live /\ b \notin Reached({x})
  OBVIOUS
<1>2. Dominance = UNION {From(x) : x \in Live}
  BY DEF Dominance
<1> HIDE DEF From
<1>3. <<d, b>> \in Dominance <=> \E x \in Live : <<d, b>> \in From(x)
  BY <1>2
<1> QED
  BY <1>1, <1>3

\* On a reducible graph nothing else is in the vectors: the blocks whose vector
\* does not have d can be entered without d along every edge.
LEMMA NothingElse ==
  ASSUME Graph, pc = "done", Reducible(Dominance), NEW d \in Live, NEW b \in Live,
         d \in domVect[b]
  PROVE  b \notin Reached({d})
<1> DEFINE T == {c \in Live : d \notin domVect[c]}
<1>0. /\ TypeOK /\ Labels /\ NoPathEmpty /\ Edges /\ SoundSoFar /\ pc # "call"
      /\ {d} \in SUBSET Live
  BY DEF Graph, Walk
<1>1. T \in SUBSET (Live \ {d}) /\ 0 \in T \cup {d}
  BY FixpointIs
<1>2. ASSUME NEW c \in T, NEW x \in Range1(succ[c]) \cap Live, x # d PROVE x \in T
  <2>0. c \in Live /\ d \notin domVect[c] /\ x \in Live /\ d \in Blocks
    BY FixpointIs
  <2>1. CASE x = 0
    BY <1>2, <2>0, <2>1, FixpointIs
  <2>2. CASE x # 0 /\ dfnum[c] < dfnum[x]
    <3>1. c \in predList[x]
      BY <1>2, <2>0, <2>2, FixpointIs
    <3>2. d \notin domVect[x]
      BY <1>2, <2>0, <2>2, <3>1, FixpointIs
    <3> QED
      BY <2>0, <3>2
  <2>3. CASE dfnum[x] <= dfnum[c]
    <3>1. <<x, c>> \in Dominance
      BY <1>2, <2>0, <2>3 DEF Reducible
    <3>2. c \notin Reached({x})
      BY <3>1, InDominance
    <3>3. x \in domVect[c]
      BY <1>0, <2>0, <3>2 DEF SoundSoFar
    <3>4. domVect[x] \subseteq domVect[c]
      BY <2>0, <3>3, DominatorsTransitive
    <3> QED
      BY <2>0, <3>4
  <2>4. dfnum[c] \in Nat /\ dfnum[x] \in Nat
    BY <2>0, FixpointIs
  <2> QED
    BY <2>1, <2>2, <2>3, <2>4
<1>3. \A c \in T : Range1(succ[c]) \cap Live \subseteq T \cup {d}
  <2> HIDE DEF T
  <2> QED
    BY <1>2
<1>4. Reached({d}) \cap Live \subseteq T
  <2> HIDE DEF T
  <2> QED
    BY <1>0, <1>1, <1>3, ReachedThroughSucc
<1> QED
  BY <1>4

-----------------------------------------------------------------------------

\* As long as no condition alone in its block is folded in front of a disconnected
\* block, noPath, the successors and the vectors agree with the instructions.
THEOREM GraphInvariant == ASSUME ~FoldBeforeLost PROVE Spec => []Graph
<1>1. Graph /\ [Next]_vars => Graph'
  BY GraphStep
<1> QED
  BY <1>1, GraphInit, PTL DEF Spec

\* However often the flow is computed again, noPath marks the blocks that control
\* cannot reach and no others, in a function of any size.
THEOREM NoPathMarksUnreached == ASSUME ~FoldBeforeLost PROVE Spec => []NoPathExact
<1>1. Graph => NoPathExact
  <2> SUFFICES ASSUME Graph, pc = "done", NEW b \in Blocks, ech[b].op # "EMPTY"
               PROVE  b \in noPath <=> b \notin Reached({})
    BY DEF NoPathExact
  <2> QED
    BY DEF Graph, NoPathEmpty, VisitedReached, Live
<1> QED
  BY <1>1, GraphInvariant, PTL

\* No dominator is missing from a vector, whatever the shape of the graph.
THEOREM DominatorsFound == ASSUME ~FoldBeforeLost PROVE Spec => []DominatorsSound
<1>1. Graph => DominatorsSound
  BY DEF Graph, SoundSoFar, DominatorsSound
<1> QED
  BY <1>1, GraphInvariant, PTL

\* On a reducible graph the vectors hold the dominators exactly, although they are
\* computed without the edges that go back, and immedDom finds the immediate one.
THEOREM DominatorsComputed == ASSUME ~FoldBeforeLost PROVE Spec => []DominatorsExact
<1>1. Graph => DominatorsExact
  <2> SUFFICES ASSUME Graph, pc = "done", Reducible(Dominance)
               PROVE  /\ \A b \in Live : domVect[b] = {d \in Live : <<d, b>> \in Dominance}
                      /\ \A b \in Live \ {0} :
                           \A d \in domVect[b] \ {b} : <<d, immedDom(b)>> \in Dominance
    BY DEF DominatorsExact
  <2>1. ASSUME NEW b \in Live, NEW d
        PROVE  d \in domVect[b] <=> d \in Live /\ <<d, b>> \in Dominance
    <3>1. d \in domVect[b] => d \in Live
      BY DominatorsBefore
    <3>2. d \in domVect[b] => b \notin Reached({d})
      BY <3>1, NothingElse
    <3>3. d \in Live /\ b \notin Reached({d}) => d \in domVect[b]
      BY DEF Graph, SoundSoFar
    <3> QED
      BY <3>1, <3>2, <3>3, InDominance
  <2>2. ASSUME NEW b \in Live \ {0}, NEW d \in domVect[b] \ {b}
        PROVE  <<d, immedDom(b)>> \in Dominance
    <3> DEFINE iset == domVect[b] \ {b}
               m == immedDom(b)
               f == [e \in iset |-> count - dfnum[e]]
    <3>1. iset \subseteq Live /\ \A e \in iset : dfnum[e] \in 0 .. count
      BY DominatorsBefore, FixpointIs
    <3>2. \E l \in iset : \A e \in iset : dfnum[e] <= dfnum[l]
      <4>1. count \in Nat
        BY FixpointIs
      <4>2. iset # {} /\ \A e \in iset : f[e] = count - dfnum[e]
        OBVIOUS
      <4> HIDE DEF iset, f
      <4>3. \A e \in iset : f[e] \in Nat
        BY <3>1, <4>1, <4>2
      <4>4. PICK l \in iset : \A e \in iset : f[l] <= f[e]
        BY <4>2, <4>3, LeastBy
      <4> QED
        BY <3>1, <4>1, <4>2, <4>4
    <3>3. m \in iset /\ \A e \in iset : dfnum[e] <= dfnum[m]
      BY <3>2 DEF immedDom
    <3> HIDE DEF m
    <3>4. m \in Live /\ d \in Live /\ dfnum[d] \in Nat /\ dfnum[m] \in Nat
      BY <3>1, <3>3, FixpointIs
    <3>5. d \in domVect[m] \/ m \in domVect[d]
      BY <3>3, DominatorsLine
    <3>6. m \in domVect[d] => m = d
      BY <3>3, <3>4, DominatorsBefore
    <3>7. d \in domVect[m]
      BY <3>4, <3>5, <3>6, FixpointIs
    <3> QED
      BY <2>1, <3>4, <3>7 DEF m
  <2> QED
    BY <2>1, <2>2
<1> QED
  BY <1>1, GraphInvariant, PTL

=============================================================================
