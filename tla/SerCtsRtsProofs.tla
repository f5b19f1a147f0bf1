-------------------------- MODULE SerCtsRtsProofs --------------------------
(***************************************************************************)
(* The driver with the handshake: it implements the driver without it, so  *)
(* what is proved of SerIr holds here too, and the line is stopped while   *)
(* there is room for what is still under way, for every buffer, threshold  *)
(* and length of the other side's FIFO.                                    *)
(***************************************************************************)
EXTENDS SerCtsRts, TLAPS

\* Where the program of ser_ir.c would be: its ser_getc waits in one place only.
Place == IF pc \in {"getc_wait", "getc_enable"} THEN "idle" ELSE pc

Low == INSTANCE SerIrProofs WITH pc <- Place

Present == IF RI THEN 1 ELSE 0

\* The inductive invariant of the handshake: an open line means that the handler
\* has not reached its threshold.
Hand ==
  /\ rcnt \in 0 .. RBUFLEN /\ fifo \in 0 .. PcFifo
  /\ RI \in BOOLEAN /\ late \in BOOLEAN /\ CTS \in {ENABLE, DISABLE}
  /\ pc \in {"getc_mask", "getc_count"} => rcnt > 0
  /\ CTS = ENABLE /\ ~late => rcnt < RBUFLEN - THRESHOLD
  /\ StoppedInTime

-----------------------------------------------------------------------------
(* The handshake.                                                          *)

LEMMA HandInit == Init => Hand
BY CtsAssumption DEF Init, Ser!Init, Hand, StoppedInTime, ENABLE, DISABLE

\* A step that leaves everything the handshake is about alone.
LEMMA HandFrame ==
  ASSUME Hand, UNCHANGED <<rcnt, RI, fifo, late, CTS>>,
         pc' \in {"getc_mask", "getc_count"} => rcnt > 0
  PROVE  Hand'
BY DEF Hand, StoppedInTime, ENABLE, DISABLE

LEMMA HandlerHand == ASSUME Hand, ser_handler PROVE Hand'
<1>1. /\ pc' = pc /\ fifo' = fifo /\ late' = late /\ RI' = FALSE
      /\ rcnt' = (IF RI /\ rcnt < RBUFLEN THEN rcnt + 1 ELSE rcnt)
      /\ CTS' = (IF RI /\ rcnt' >= RBUFLEN - THRESHOLD THEN DISABLE ELSE CTS)
  BY DEF ser_handler, CtsAfter, Ser!ser_handler, Ser!Receive, Ser!program
<1>2. /\ RBUFLEN \in Nat /\ THRESHOLD \in Nat /\ PcFifo \in Nat /\ PcFifo <= THRESHOLD
      /\ THRESHOLD < RBUFLEN /\ rcnt \in 0 .. RBUFLEN /\ fifo \in 0 .. PcFifo
  BY CtsAssumption DEF Hand
<1>3. rcnt' \in 0 .. RBUFLEN /\ rcnt' >= rcnt
  BY <1>1, <1>2
<1>a. late' \in BOOLEAN /\ CTS' \in {ENABLE, DISABLE} /\ fifo' \in 0 .. PcFifo
      /\ (pc' \in {"getc_mask", "getc_count"} => rcnt' > 0)
  BY <1>1, <1>2, <1>3 DEF Hand
<1>b. ENABLE # DISABLE
  BY DEF ENABLE, DISABLE
<1>4. CASE ~RI
  <2>1. UNCHANGED <<rcnt, RI, fifo, late, CTS, pc>>
    BY <1>1, <1>4 DEF Hand
  <2> QED
    BY <2>1, HandFrame DEF Hand
<1>5. CASE RI /\ late
  <2>1. late'
    BY <1>1, <1>5
  <2> QED
    BY <1>1, <1>3, <1>a, <2>1 DEF Hand, StoppedInTime
<1>6. CASE RI /\ ~late /\ CTS = DISABLE
  <2>1. rcnt + 1 + fifo <= RBUFLEN
    BY <1>6 DEF Hand, StoppedInTime
  <2>2. rcnt' = rcnt + 1 /\ CTS' = DISABLE
    BY <1>1, <1>2, <1>6, <2>1
  <2>3. rcnt' + 0 + fifo' <= RBUFLEN
    BY <1>1, <1>2, <2>1, <2>2
  <2> QED
    BY <1>1, <1>3, <1>a, <1>b, <2>2, <2>3 DEF Hand, StoppedInTime
<1>7. CASE RI /\ ~late /\ CTS = ENABLE
  <2>1. rcnt < RBUFLEN - THRESHOLD
    BY <1>7 DEF Hand
  <2>2. rcnt' = rcnt + 1 /\ rcnt' + fifo <= RBUFLEN
    BY <1>1, <1>2, <1>7, <2>1
  <2>3. rcnt' + 0 + fifo' <= RBUFLEN
    BY <1>1, <1>2, <2>2
  <2>4. CTS' = ENABLE => rcnt' < RBUFLEN - THRESHOLD
    <3>1. rcnt' \in Nat /\ RBUFLEN - THRESHOLD \in Nat
      BY <1>2, <1>3
    <3> QED
      BY <1>1, <1>7, <1>b, <3>1
  <2> QED
    BY <1>1, <1>3, <1>a, <1>b, <2>3, <2>4 DEF Hand, StoppedInTime
<1> QED
  BY <1>4, <1>5, <1>6, <1>7 DEF Hand

LEMMA HandStep == Hand /\ [Next]_vars => Hand'
<1> SUFFICES ASSUME Hand, [Next]_vars PROVE Hand'
  OBVIOUS
<1>0. /\ RBUFLEN \in Nat /\ THRESHOLD \in Nat /\ PcFifo \in Nat /\ PcFifo <= THRESHOLD
      /\ THRESHOLD < RBUFLEN /\ rcnt \in 0 .. RBUFLEN /\ fifo \in 0 .. PcFifo
  BY CtsAssumption DEF Hand
<1>1. CASE Feed
  BY <1>0, <1>1 DEF Feed, driver, Hand, StoppedInTime, ENABLE, DISABLE
<1>2. CASE Arrive
  BY <1>0, <1>2 DEF Arrive, Ser!Arrive, Ser!driver, Ser!program, Hand, StoppedInTime,
    ENABLE, DISABLE
<1>3. CASE RtsChange
  BY <1>3, HandFrame DEF RtsChange, driver, Hand
<1>4. CASE Leave
  BY <1>4, HandFrame DEF Leave, Ser!Leave, Ser!driver, Ser!program, pins, Hand
<1>5. CASE CallPutc
  BY <1>5, HandFrame DEF CallPutc, Ser!CallPutc, Ser!At, Ser!Goto, Ser!driver, Ser!uart, pins
<1>6. CASE CallGetc
  BY <1>6, HandFrame DEF CallGetc, driver, pins
<1>7. CASE PutcRoom
  BY <1>7, HandFrame DEF PutcRoom, Ser!PutcRoom, Ser!At, Ser!Goto, Ser!driver, Ser!uart, pins
<1>8. CASE PutcRest
  <2>1. UNCHANGED <<rcnt, RI, fifo, late, CTS>>
    BY <1>8 DEF PutcRest, Ser!PutcMask, Ser!PutcTest, Ser!PutcCount, Ser!PutcStore,
      Ser!PutcSend, Ser!PutcBusy, Ser!driver, Ser!uart, pins
  <2>2. pc' \notin {"getc_mask", "getc_count"}
    BY <1>8 DEF PutcRest, Ser!PutcMask, Ser!PutcTest, Ser!PutcCount, Ser!PutcStore,
      Ser!PutcSend, Ser!PutcBusy, Ser!Goto
  <2> QED
    BY <2>1, <2>2, HandFrame
<1>9. CASE GetcTest
  BY <1>0, <1>9, HandFrame DEF GetcTest, driver, pins
<1>10. CASE GetcEnable
  <2>1. /\ CTS' = ENABLE /\ late' = (late \/ rcnt > 0) /\ pc' = "getc_wait"
        /\ UNCHANGED <<rcnt, RI, fifo>>
    BY <1>10 DEF GetcEnable, driver
  <2>2. late' \in BOOLEAN /\ (~late' => rcnt = 0)
    <3>1. late = TRUE \/ late = FALSE
      BY DEF Hand
    <3>2. CASE rcnt > 0
      BY <2>1, <3>1, <3>2, Zenon
    <3>3. CASE ~(rcnt > 0)
      <4>1. late' = late
        BY <2>1, <3>1, <3>3, Zenon
      <4>2. rcnt = 0
        BY <1>0, <3>3
      <4> QED
        BY <3>1, <4>1, <4>2
    <3> QED
      BY <3>2, <3>3
  <2> QED
    BY <1>0, <2>1, <2>2 DEF Hand, StoppedInTime, ENABLE, DISABLE
<1>11. CASE GetcRest
  <2>1. CASE Ser!GetcMask
    BY <1>11, <2>1, HandFrame DEF GetcRest, Ser!GetcMask, Ser!At, Ser!Goto, Ser!driver,
      Ser!uart, pins, Hand
  <2>2. CASE Ser!GetcCount
    <3>1. /\ rcnt > 0 /\ rcnt' = rcnt - 1 /\ pc' = "getc_read"
          /\ UNCHANGED <<RI, fifo, late, CTS>>
      BY <1>11, <2>2 DEF GetcRest, Ser!GetcCount, Ser!At, Ser!Goto, Ser!uart, pins, Hand
    <3>2. rcnt' \in 0 .. RBUFLEN
      BY <1>0, <3>1
    <3> QED
      BY <1>0, <3>1, <3>2 DEF Hand, StoppedInTime, ENABLE, DISABLE
  <2>3. CASE Ser!GetcRead
    BY <1>11, <2>3, HandFrame DEF GetcRest, Ser!GetcRead, Ser!Goto, Ser!uart, pins
  <2>4. CASE Ser!GetcWrap
    BY <1>11, <2>4, HandFrame DEF GetcRest, Ser!GetcWrap, Ser!Goto, Ser!uart, pins
  <2> QED
    BY <1>11, <2>1, <2>2, <2>3, <2>4 DEF GetcRest
<1>12. CASE Unmask
  BY <1>12, HandFrame DEF Unmask, Ser!Unmask, Ser!Goto, Ser!driver, Ser!uart, pins
<1>13. CASE UNCHANGED vars
  BY <1>13, HandFrame DEF vars, Hand
<1> QED
  BY <1>1, <1>2, <1>3, <1>4, <1>5, <1>6, <1>7, <1>8, <1>9, <1>10, <1>11, <1>12, <1>13,
    HandlerHand DEF Next, Call

-----------------------------------------------------------------------------
(* Step by step, the driver without the handshake.                         *)

LEMMA InitMaps == Init => Low!Init
BY DEF Init, Ser!Init, Low!Init, Place, Ser!None, Low!None

\* The steps of the wait in ser_getc are one step of ser_ir.c, or none.
LEMMA WaitMaps ==
  ASSUME rcnt \in Nat, CallGetc \/ GetcTest \/ GetcEnable
  PROVE  [Low!Next]_Low!vars
<1>1. CASE CallGetc
  BY <1>1 DEF CallGetc, Place, driver, Low!vars
<1>2. CASE GetcEnable
  BY <1>2 DEF GetcEnable, Place, driver, Low!vars
<1>3. CASE GetcTest /\ rcnt = 0
  BY <1>3 DEF GetcTest, Place, driver, Low!vars
<1>4. CASE GetcTest /\ rcnt # 0
  <2>1. Low!GetcReady
    BY <1>4 DEF GetcTest, Place, driver, Low!GetcReady, Low!At, Low!Goto, Low!driver, Low!uart
  <2> QED
    BY <2>1 DEF Low!Next
<1> QED
  BY <1>1, <1>2, <1>3, <1>4

\* Every other step is the step of the same name.
LEMMA PutcMaps ==
  ASSUME CallPutc \/ PutcRoom \/ PutcRest
  PROVE  Low!Next
<1> USE DEF Place, Ser!At, Ser!Goto, Ser!driver, Ser!uart, Low!At, Low!Goto, Low!driver, Low!uart
<1>1. CASE CallPutc
  <2>1. Low!CallPutc
    BY <1>1 DEF CallPutc, Ser!CallPutc, Low!CallPutc
  <2> QED
    BY <2>1 DEF Low!Next
<1>2. CASE PutcRoom
  <2>1. Low!PutcRoom
    BY <1>2 DEF PutcRoom, Ser!PutcRoom, Low!PutcRoom
  <2> QED
    BY <2>1 DEF Low!Next, Low!Call
<1>3. CASE PutcRest
  <2>1. Ser!PutcMask => Low!PutcMask
    BY DEF Ser!PutcMask, Low!PutcMask
  <2>2. Ser!PutcTest => Low!PutcTest
    BY DEF Ser!PutcTest, Low!PutcTest
  <2>3. Ser!PutcCount => Low!PutcCount
    BY DEF Ser!PutcCount, Low!PutcCount
  <2>4. Ser!PutcStore => Low!PutcStore
    BY DEF Ser!PutcStore, Low!PutcStore, Ser!Index, Low!Index
  <2>5. Ser!PutcSend => Low!PutcSend
    BY DEF Ser!PutcSend, Low!PutcSend
  <2>6. Ser!PutcBusy => Low!PutcBusy
    BY DEF Ser!PutcBusy, Low!PutcBusy
  <2> QED
    BY <1>3, <2>1, <2>2, <2>3, <2>4, <2>5, <2>6 DEF PutcRest, Low!Next, Low!Call
<1> QED
  BY <1>1, <1>2, <1>3

LEMMA GetcMaps ==
  ASSUME GetcRest \/ Unmask
  PROVE  Low!Next
<1> USE DEF Place, Ser!At, Ser!Goto, Ser!driver, Ser!uart, Low!At, Low!Goto, Low!driver, Low!uart
<1>1. Ser!GetcMask => Low!GetcMask
  BY DEF Ser!GetcMask, Low!GetcMask
<1>2. Ser!GetcCount => Low!GetcCount
  BY DEF Ser!GetcCount, Low!GetcCount
<1>3. Ser!GetcRead => Low!GetcRead
  BY DEF Ser!GetcRead, Low!GetcRead
<1>4. Ser!GetcWrap => Low!GetcWrap
  BY DEF Ser!GetcWrap, Low!GetcWrap, Ser!Wrap, Low!Wrap
<1>5. Ser!Unmask => Low!Unmask
  BY DEF Ser!Unmask, Low!Unmask
<1> QED
  BY <1>1, <1>2, <1>3, <1>4, <1>5 DEF GetcRest, Unmask, Low!Next, Low!Call

LEMMA UartMaps ==
  ASSUME Arrive \/ Leave \/ ser_handler
  PROVE  Low!Next
<1> USE DEF Place, Ser!driver, Ser!program, Low!driver, Low!program
<1>1. Ser!Arrive => Low!Arrive
  BY DEF Ser!Arrive, Low!Arrive
<1>2. Ser!Leave => Low!Leave
  BY DEF Ser!Leave, Low!Leave, Ser!None, Low!None
<1>3. Ser!ser_handler => Low!ser_handler
  <2>1. Ser!Receive => Low!Receive
    BY DEF Ser!Receive, Low!Receive, Ser!Index, Low!Index
  <2>2. Ser!Transmit => Low!Transmit
    BY DEF Ser!Transmit, Low!Transmit, Ser!Wrap, Low!Wrap
  <2> QED
    BY <2>1, <2>2 DEF Ser!ser_handler, Low!ser_handler
<1> QED
  BY <1>1, <1>2, <1>3 DEF Arrive, Leave, ser_handler, Low!Next

LEMMA StepMaps == Hand /\ [Next]_vars => [Low!Next]_Low!vars
<1> SUFFICES ASSUME Hand, [Next]_vars PROVE [Low!Next]_Low!vars
  OBVIOUS
<1>1. rcnt \in Nat
  BY CtsAssumption DEF Hand
<1>2. CASE Feed \/ RtsChange \/ UNCHANGED vars
  BY <1>2 DEF Feed, RtsChange, vars, driver, Place, Low!vars
<1> QED
  BY <1>1, <1>2, WaitMaps, PutcMaps, GetcMaps, UartMaps DEF Next, Call

-----------------------------------------------------------------------------
(* The theorems.                                                           *)

\* The inductive invariant behind the handshake.
THEOREM HandshakeInvariant == Spec => []Hand
<1> QED
  BY HandInit, HandStep, PTL DEF Spec

\* As long as ser_getc has not enabled CTS on a test that was out of date, a
\* stopped line means room for every character under way, whatever the sizes.
THEOREM LineStoppedInTime == Spec => []StoppedInTime
<1>1. Hand => StoppedInTime
  BY DEF Hand
<1> QED
  BY <1>1, HandshakeInvariant, PTL

\* The handler refuses a character only after that has happened.
THEOREM HandshakeHolds == Spec => NoOverrunWithoutRace
<1> DEFINE Excused == Refuses => late
<1>1. Hand => Excused
  <2> SUFFICES ASSUME Hand, RI, rcnt = RBUFLEN, ~late PROVE FALSE
    BY DEF Refuses, Hand
  <2>1. /\ RBUFLEN \in Nat /\ THRESHOLD \in Nat /\ PcFifo \in Nat /\ fifo \in 0 .. PcFifo
    BY CtsAssumption DEF Hand
  <2>2. CTS = ENABLE \/ CTS = DISABLE
    BY DEF Hand
  <2> QED
    BY <2>1, <2>2 DEF Hand, StoppedInTime
<1> HIDE DEF Excused
<1>2. Spec => [][Excused]_vars
  BY <1>1, HandshakeInvariant, PTL DEF Spec
<1> QED
  BY <1>2 DEF Excused, NoOverrunWithoutRace

\* With the handshake the driver still is the driver without it: no step of the
\* pins, of the wait or of the other side shows in ser_ir.c's variables.
THEOREM CtsImplementsSer == Spec => Low!Spec
<1> QED
  BY InitMaps, StepMaps, HandshakeInvariant, PTL DEF Spec, Low!Spec

\* Characters leave in order and come back in order, for every pair of sizes
\* whose position and count add up within a byte.
THEOREM CtsFifoKept == Spec => (Low!FitsByte /\ Low!FitsRx => FifoKept)
<1>1. Low!TxQueue = Ser!TxQueue /\ Low!RxQueue = Ser!RxQueue
  BY DEF Low!TxQueue, Ser!TxQueue, Low!RxQueue, Ser!RxQueue, Low!Stored, Ser!Stored, Place,
    Low!None, Ser!None
<1>2. Low!TxQueue' = Ser!TxQueue' /\ Low!RxQueue' = Ser!RxQueue'
  BY DEF Low!TxQueue, Ser!TxQueue, Low!RxQueue, Ser!RxQueue, Low!Stored, Ser!Stored, Place,
    Low!None, Ser!None
<1>3. Low!Fifo!Init => Fifo!Init
  BY <1>1 DEF Low!Fifo!Init, Fifo!Init
<1>4. [Low!Fifo!Next]_Low!Fifo!vars => [Fifo!Next]_Fifo!vars
  BY <1>1, <1>2 DEF Low!Fifo!Next, Fifo!Next, Low!Fifo!vars, Fifo!vars, Low!Fifo!Put, Fifo!Put,
    Low!Fifo!Leave, Fifo!Leave, Low!Fifo!Take, Fifo!Take, Low!Fifo!Refuse, Fifo!Refuse,
    Low!Fifo!Get, Fifo!Get
<1>5. Low!FifoKept => FifoKept
  BY <1>3, <1>4, PTL DEF Low!FifoKept, Low!Fifo!Spec, FifoKept, Fifo!Spec
<1>6. Low!Spec => (Low!FitsByte /\ Low!FitsRx => Low!FifoKept)
  BY Low!SerFifoKept, CtsAssumption
<1> QED
  BY <1>5, <1>6, CtsImplementsSer

=============================================================================
