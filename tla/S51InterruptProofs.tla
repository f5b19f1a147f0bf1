------------------------ MODULE S51InterruptProofs ------------------------
(***************************************************************************)
(* Service routines of the simulated 8051 nest by level, and looking for   *)
(* an interrupt loses no request, for any sources and any poll order.      *)
(***************************************************************************)
EXTENDS S51Interrupt, TLAPS

IInv == TypeOK /\ NestedByLevel

LEMMA EmptyNested ==
  ASSUME it_levels = << >>
  PROVE  it_levels \in Seq(Services) /\ NestedByLevel
  <1>1. << >> \in Seq(Services)
    OBVIOUS
  <1>2. Len(it_levels) = 0 /\ 1 .. Len(it_levels) = {}
    OBVIOUS
  <1> QED BY <1>1, <1>2 DEF NestedByLevel

LEMMA InitIInv == ASSUME Init PROVE IInv
  <1>1. it_levels \in Seq(Services) /\ NestedByLevel
    BY EmptyNested DEF Init
  <1>2. left \in 0 .. Period - 1
    BY S51Assumption DEF Init
  <1> QED BY <1>1, <1>2 DEF Init, IInv, TypeOK

LEMMA SourcesPolled == \A k \in DOMAIN it_sources : it_sources[k] \in Sources
  BY S51Assumption DEF Sources, Range

\* The hardware tick keeps its variables in range.
LEMMA TickType ==
  ASSUME TypeOK, NEW kept \in SUBSET Sources, tick_hw(kept)
  PROVE  left' \in 0 .. Period - 1 /\ requests' \subseteq Sources
  BY S51Assumption DEF TypeOK, tick_hw

\* A poll that accepts s found it enabled, requested and above the service
\* under way.
LEMMA Found ==
  ASSUME NEW s, Accepts(s)
  PROVE  s \in Sources /\ s \in requests /\ Above(priority_of(s))
  BY SourcesPolled DEF Accepts, IsFirst, Eligible

LEMMA UpToTwo == \A n \in Nat : n <= 2 => n \in 0 .. 2 /\ (n # 0 => n \in 1 .. 2)
  OBVIOUS

\* RETI leaves the outer services as they are.
LEMMA FrontNested ==
  ASSUME TypeOK, NestedByLevel, it_levels # << >>, it_levels' = Front(it_levels)
  PROVE  it_levels' \in Seq(Services) /\ NestedByLevel'
  <1>a. it_levels \in Seq(Services)
    BY DEF TypeOK
  <1>b. Len(it_levels) <= 2
    BY DEF NestedByLevel
  <1>l. Len(it_levels) \in Nat /\ Len(it_levels) # 0
    <2>1. Len(it_levels) \in Nat
      BY <1>a
    <2>2. Len(it_levels) # 0
      BY <1>a
    <2> QED BY <2>1, <2>2
  <1>m. Len(it_levels) \in 1 .. 2
    BY <1>b, <1>l, UpToTwo
  <1>1. it_levels \in Seq(Services) /\ Len(it_levels) \in 1 .. 2
    BY <1>a, <1>m
  <1>2. it_levels' = [i \in 1 .. Len(it_levels) - 1 |-> it_levels[i]]
    BY DEF Front
  <1>3. it_levels' \in Seq(Services) /\ Len(it_levels') = Len(it_levels) - 1
    BY <1>1, <1>2
  <1>4. \A i \in 1 .. Len(it_levels') : it_levels'[i] = it_levels[i] /\ i \in 1 .. Len(it_levels)
    BY <1>1, <1>2, <1>3
  <1> QED BY <1>1, <1>3, <1>4 DEF NestedByLevel

\* An accepted service goes on top of services of lower levels, of which there
\* is at most one.
LEMMA AcceptNested ==
  ASSUME TypeOK, NestedByLevel, NEW s \in Sources, Above(priority_of(s)),
         it_levels' = Append(it_levels, Service(s))
  PROVE  it_levels' \in Seq(Services) /\ NestedByLevel'
  <1> DEFINE new == Service(s)
             n == Len(it_levels)
  <1>1. new \in Services
    BY DEF Service, Services, priority_of
  <1>a. it_levels \in Seq(Services)
    BY DEF TypeOK
  <1>b. n <= 2
    BY DEF NestedByLevel
  <1>c. \A r \in Services : r.level \in 0 .. 1
    BY DEF Services
  <1>d. new.level = priority_of(s)
    BY DEF Service
  <1>l. n \in Nat
    BY <1>a
  <1>m. n \in 0 .. 2
    BY <1>b, <1>l, UpToTwo
  <1>2. it_levels \in Seq(Services) /\ n \in 0 .. 2
    BY <1>a, <1>m
  <1>3. \A i \in 1 .. n : it_levels[i].level \in 0 .. 1
    BY <1>a, <1>c
  <1>4. \A i \in 1 .. n : it_levels[i].level < priority_of(s)
    <2> SUFFICES ASSUME NEW i \in 1 .. n PROVE it_levels[i].level < priority_of(s)
      OBVIOUS
    <2>1. it_levels[n].level < priority_of(s)
      BY <1>2, <1>3 DEF Above, Last, priority_of
    <2>2. i # n => it_levels[i].level < it_levels[n].level
      BY <1>2 DEF NestedByLevel
    <2>3. it_levels[i].level \in Nat /\ it_levels[n].level \in Nat /\ priority_of(s) \in Nat
      BY <1>2, <1>3 DEF priority_of
    <2> QED BY <2>1, <2>2, <2>3
  <1>5. n <= 1
    <2> SUFFICES ASSUME n = 2 PROVE FALSE
      BY <1>2
    <2>1. it_levels[1].level < it_levels[2].level /\ it_levels[2].level < priority_of(s)
      BY <1>4 DEF NestedByLevel
    <2> QED BY <1>3, <2>1 DEF priority_of
  <1>6. it_levels' \in Seq(Services) /\ Len(it_levels') = n + 1 /\ it_levels'[n + 1] = new
        /\ \A i \in 1 .. n : it_levels'[i] = it_levels[i]
    <2>1. it_levels' = Append(it_levels, new)
      OBVIOUS
    <2> HIDE DEF new
    <2>2. it_levels' \in Seq(Services) /\ Len(it_levels') = n + 1
      BY <1>1, <1>a, <2>1
    <2>3. it_levels'[n + 1] = new /\ \A i \in 1 .. n : it_levels'[i] = it_levels[i]
      BY <1>1, <1>a, <1>l, <2>1
    <2> QED BY <2>2, <2>3
  <1>7. \A i, j \in 1 .. n + 1 : i < j => it_levels'[i].level < it_levels'[j].level
    <2> SUFFICES ASSUME NEW i \in 1 .. n + 1, NEW j \in 1 .. n + 1, i < j
                 PROVE  it_levels'[i].level < it_levels'[j].level
      OBVIOUS
    <2>1. i \in 1 .. n /\ it_levels'[i] = it_levels[i]
      BY <1>2, <1>6
    <2>2. CASE j = n + 1
      BY <1>4, <1>6, <1>d, <2>1, <2>2
    <2>3. CASE j # n + 1
      <3>1. j \in 1 .. n /\ it_levels'[j] = it_levels[j]
        BY <1>2, <1>6, <2>3
      <3> QED BY <2>1, <3>1 DEF NestedByLevel
    <2> QED BY <2>2, <2>3
  <1> QED BY <1>2, <1>5, <1>6, <1>7 DEF NestedByLevel

-----------------------------------------------------------------------------
LEMMA StepIInv == ASSUME IInv, [Next]_vars PROVE IInv'
  <1>a. TypeOK /\ NestedByLevel /\ requests \subseteq Sources
    BY DEF IInv, TypeOK
  <1>b. it_levels' = it_levels => NestedByLevel'
    BY <1>a DEF NestedByLevel
  <1>1. CASE Other
    BY <1>1, <1>a, <1>b, TickType DEF Other, Executes, IInv, TypeOK
  <1>2. CASE WriteRequests
    <2>1. PICK s \in Sources : tick_hw(requests \ {s}) \/ tick_hw(requests \cup {s})
      BY <1>2 DEF WriteRequests
    <2>2. requests \ {s} \subseteq Sources /\ requests \cup {s} \subseteq Sources
      BY <1>a
    <2>3. left' \in 0 .. Period - 1 /\ requests' \subseteq Sources
      BY <1>a, <2>1, <2>2, TickType
    <2> QED BY <1>2, <1>a, <1>b, <2>3 DEF WriteRequests, Executes, IInv, TypeOK
  <1>3. CASE WriteIE
    BY <1>3, <1>a, <1>b, TickType DEF WriteIE, Executes, IInv, TypeOK
  <1>4. CASE WriteIEBit
    BY <1>4, <1>a, <1>b, TickType DEF WriteIEBit, Executes, IInv, TypeOK
  <1>5. CASE WriteIP
    BY <1>5, <1>a, <1>b, TickType DEF WriteIP, Executes, IInv, TypeOK
  <1>6. CASE WritePCON
    BY <1>6, <1>a, <1>b, TickType DEF WritePCON, Executes, IInv, TypeOK
  <1>7. CASE Reti
    <2>1. it_levels' \in Seq(Services) /\ NestedByLevel'
      BY <1>7, <1>a, FrontNested DEF Reti
    <2>2. left' \in 0 .. Period - 1 /\ requests' \subseteq Sources
      BY <1>7, <1>a, TickType DEF Reti
    <2> QED BY <1>7, <1>a, <2>1, <2>2 DEF Reti, Executes, IInv, TypeOK
  <1>8. CASE IdleTick
    BY <1>8, <1>a, <1>b DEF IdleTick, sfr, IInv, TypeOK
  <1>9. ASSUME NEW s \in Sources, accept_it(s) PROVE IInv'
    <2>1. it_levels' \in Seq(Services) /\ NestedByLevel'
      BY <1>9, <1>a, Found, AcceptNested DEF accept_it
    <2> QED BY <1>9, <1>a, <2>1 DEF accept_it, IInv, TypeOK
  <1>10. CASE Wake
    BY <1>10, <1>a, <1>b DEF Wake, IInv, TypeOK
  <1>11. CASE NoInterrupt
    <2>1. state' \in {"go", "idle", "pd"}
      BY <1>11, <1>a DEF NoInterrupt, TypeOK
    <2> QED BY <1>11, <1>a, <1>b, <2>1 DEF NoInterrupt, sfr, IInv, TypeOK
  <1>12. CASE PortEvent
    <2>1. requests' \subseteq Sources
      BY <1>12, <1>a, S51Assumption DEF PortEvent
    <2> QED BY <1>12, <1>a, <1>b, <2>1 DEF PortEvent, IInv, TypeOK
  <1>13. CASE Reset
    <2>1. it_levels' = << >> /\ 1 .. Len(it_levels') = {} /\ Len(it_levels') = 0
      BY <1>13 DEF Reset
    <2>2. it_levels' \in Seq(Services)
      BY <2>1
    <2>3. NestedByLevel'
      BY <2>1 DEF NestedByLevel
    <2> QED BY <1>13, <1>a, <2>2, <2>3 DEF Reset, IInv, TypeOK
  <1>14. CASE UNCHANGED vars
    BY <1>14, <1>a, <1>b DEF vars, IInv, TypeOK
  <1> QED
    BY <1>1, <1>2, <1>3, <1>4, <1>5, <1>6, <1>7, <1>8, <1>9, <1>10, <1>11, <1>12, <1>13, <1>14
    DEF Next, Turn, Instruction, do_interrupt

\* The inductive invariant: variables in range, services nested by level.
THEOREM S51Invariant == Spec => []IInv
  BY InitIInv, StepIInv, PTL DEF Spec

\* Every variable of the interrupt system stays in range, for any set of sources
\* in any poll order and any period of the timer.
THEOREM S51TypeCorrect == Spec => []TypeOK
  BY S51Invariant, PTL DEF IInv

\* At most one service of each level is under way and the higher one is on top,
\* whatever the program writes to IP while they run.
THEOREM S51NestedByLevel == Spec => []NestedByLevel
  BY S51Invariant, PTL DEF IInv

\* A turn takes back no request but the one it accepts.
THEOREM S51RequestsKept == Spec => RequestsKept
  <1> DEFINE Kept ==
        phase = "check" =>
          \A s \in requests \ requests' :
            Len(it_levels') > Len(it_levels) /\ Last(it_levels').source = s
  <1>1. IInv /\ [Next]_vars => [Kept]_vars
    <2> SUFFICES ASSUME IInv, [Next]_vars, phase = "check", NEW s \in requests \ requests'
                 PROVE  Len(it_levels') > Len(it_levels) /\ Last(it_levels').source = s
      OBVIOUS
    <2>1. PICK t \in Sources : accept_it(t)
      BY DEF Next, Turn, Instruction, do_interrupt, Other, WriteRequests, WriteIE, WriteIEBit,
        WriteIP, WritePCON, Reti, Executes, IdleTick, Wake, NoInterrupt, PortEvent, Reset, sfr, vars
    <2>2. s = t /\ it_levels' = Append(it_levels, Service(t))
      BY <2>1 DEF accept_it
    <2>3. it_levels \in Seq(Services)
      BY DEF IInv, TypeOK
    <2>4. Service(t) \in Services /\ Service(t).source = t
      BY DEF Service, Services, priority_of
    <2> QED BY <2>2, <2>3, <2>4 DEF Last
  <1> QED BY <1>1, S51Invariant, PTL DEF Spec, RequestsKept

=============================================================================
