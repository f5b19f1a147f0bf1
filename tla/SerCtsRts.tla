----------------------------- MODULE SerCtsRts -----------------------------
(***************************************************************************)
(* The serial driver with hardware handshake,                              *)
(* device/lib/ser_ir_cts_rts.c.  It is ser_ir.c (module SerIr, whose       *)
(* actions are used where the two files have the same statements) with two *)
(* pins: the handler stops the other side through CTS when THRESHOLD free  *)
(* places are left, ser_getc lets it go on once the buffer is empty, and   *)
(* ser_putc waits for RTS.  The other side (external: the head comment     *)
(* describes a PC) reads CTS when it fills its FIFO; what is in the FIFO   *)
(* then leaves whatever CTS says.                                          *)
(***************************************************************************)
EXTENDS Naturals, Sequences

CONSTANTS
  XBUFLEN, RBUFLEN,  \* TXBUFLEN and RXBUFLEN
  THRESHOLD,         \* the room left for what is under way when CTS is set
  PcFifo,            \* the characters the other side cannot hold back
  Byte, MaxOut, MaxIn, \* as in SerIr
  MaxRts             \* bound: changes of RTS

ASSUME CtsAssumption ==
  /\ XBUFLEN \in 1 .. Byte - 1 /\ RBUFLEN \in 1 .. Byte - 1
  /\ Byte \in Nat /\ MaxOut \in Nat /\ MaxIn \in Nat
  /\ THRESHOLD \in Nat /\ THRESHOLD < RBUFLEN
  /\ PcFifo \in 1 .. THRESHOLD
  /\ MaxRts \in Nat

VARIABLES
  rbuf, xbuf, rcnt, xcnt, rpos, xpos, busy, ES, RI, TI, sending, arrived, wire,
  pc, called, got,  \* as in SerIr
  CTS, RTS,         \* the two pins
  fifo,             \* the number of characters in the other side's FIFO
  rtsChanges,       \* changes of RTS so far
  late              \* history: CTS was enabled although a character was there

Ser == INSTANCE SerIr

driver == <<rbuf, xbuf, rcnt, xcnt, rpos, xpos, busy, ES, RI, TI, sending, arrived, wire>>
pins == <<CTS, RTS, fifo, rtsChanges, late>>
vars == <<rbuf, xbuf, rcnt, xcnt, rpos, xpos, busy, ES, RI, TI, sending, arrived,
          wire, pc, called, got, CTS, RTS, fifo, rtsChanges, late>>

ENABLE == 0
DISABLE == 1

Init ==
  /\ Ser!Init
  /\ CTS = ENABLE /\ RTS = ENABLE
  /\ fifo = 0 /\ rtsChanges = 0 /\ late = FALSE

-----------------------------------------------------------------------------
(* The other side.                                                         *)

Feed ==
  /\ CTS = ENABLE
  /\ fifo < PcFifo
  /\ arrived + fifo < MaxIn
  /\ fifo' = fifo + 1
  /\ UNCHANGED <<driver, pc, called, got, CTS, RTS, rtsChanges, late>>

Arrive ==
  /\ fifo > 0
  /\ Ser!Arrive
  /\ fifo' = fifo - 1
  /\ UNCHANGED <<CTS, RTS, rtsChanges, late>>

\* MaxRts is even, so that the last change is to ENABLE.
RtsChange ==
  /\ rtsChanges < MaxRts
  /\ rtsChanges' = rtsChanges + 1
  /\ RTS' = IF RTS = ENABLE THEN DISABLE ELSE ENABLE
  /\ UNCHANGED <<driver, pc, called, got, CTS, fifo, late>>

Leave == Ser!Leave /\ UNCHANGED pins

-----------------------------------------------------------------------------
(* ser_handler.                                                            *)

\* [mutant] The other side is stopped one character too late.
CtsAfter_Late(count) == IF RI /\ count > RBUFLEN - THRESHOLD THEN DISABLE ELSE CTS

\* CTS when a received character has been dealt with and count are stored
CtsAfter(count) == IF RI /\ count >= RBUFLEN - THRESHOLD THEN DISABLE ELSE CTS

\* [mutant] CTS is set by the count before the character is stored.
ser_handler_CtsFirst ==
  /\ Ser!ser_handler
  /\ CTS' = CtsAfter(rcnt)
  /\ UNCHANGED <<RTS, fifo, rtsChanges, late>>

ser_handler ==
  /\ Ser!ser_handler
  /\ CTS' = CtsAfter(rcnt')
  /\ UNCHANGED <<RTS, fifo, rtsChanges, late>>

-----------------------------------------------------------------------------
(* The program.                                                            *)

CallPutc == Ser!CallPutc /\ UNCHANGED pins

\* The two waits: room, once there, stays until the program uses it.
PutcRoom ==
  /\ RTS = ENABLE
  /\ Ser!PutcRoom
  /\ UNCHANGED pins

PutcRest ==
  /\ \/ Ser!PutcMask \/ Ser!PutcTest \/ Ser!PutcCount \/ Ser!PutcStore
     \/ Ser!PutcSend \/ Ser!PutcBusy
  /\ UNCHANGED pins

CallGetc ==
  /\ pc = "idle"
  /\ pc' = "getc_wait"
  /\ UNCHANGED <<driver, called, got, pins>>

\* while (!rxcnt)
GetcTest ==
  /\ pc = "getc_wait"
  /\ pc' = IF rcnt = 0 THEN "getc_enable" ELSE "getc_mask"
  /\ UNCHANGED <<driver, called, got, pins>>

\* [mutant] The wait does not let the other side go on.
GetcEnable_Forgotten ==
  /\ pc = "getc_enable"
  /\ pc' = "getc_wait"
  /\ UNCHANGED <<driver, called, got, pins>>

\* Characters may have come since the test.
GetcEnable ==
  /\ pc = "getc_enable"
  /\ CTS' = ENABLE
  /\ late' = (late \/ rcnt > 0)
  /\ pc' = "getc_wait"
  /\ UNCHANGED <<driver, called, got, RTS, fifo, rtsChanges>>

\* [mutant] The count is taken down before the handler is held off.
GetcRest_Open ==
  /\ Ser!GetcMask_Open \/ Ser!GetcCount \/ Ser!GetcRead \/ Ser!GetcWrap
  /\ UNCHANGED pins

GetcRest ==
  /\ Ser!GetcMask \/ Ser!GetcCount \/ Ser!GetcRead \/ Ser!GetcWrap
  /\ UNCHANGED pins

Unmask == Ser!Unmask /\ UNCHANGED pins

Call == PutcRoom \/ PutcRest \/ GetcTest \/ GetcEnable \/ GetcRest \/ Unmask

Next == Feed \/ Arrive \/ RtsChange \/ Leave \/ ser_handler \/ CallPutc \/ CallGetc \/ Call

Spec == Init /\ [][Next]_vars

\* A program that keeps calling ser_getc, and another side that enables RTS in the
\* end: a ser_putc that waits for RTS keeps the program from ser_getc.
ReadingSpec ==
  /\ Spec
  /\ WF_vars(RtsChange) /\ WF_vars(Leave) /\ WF_vars(ser_handler)
  /\ WF_vars(Call) /\ WF_vars(CallGetc)

-----------------------------------------------------------------------------
(* Properties.                                                             *)

Refuses == ser_handler /\ RI /\ rcnt = RBUFLEN

\* The handshake holds: a character is refused only after ser_getc enabled CTS
\* on the strength of a test that was out of date.
NoOverrunWithoutRace == [][Refuses => late]_vars

\* As long as that has not happened, a stopped line means room for every
\* character still under way (ser_ir_cts_rts.c:81, "safe communications").
StoppedInTime == CTS = DISABLE /\ ~late => rcnt + (IF RI THEN 1 ELSE 0) + fifo <= RBUFLEN

\* ser_ir_cts_rts.c:39: characters already in a buffer are not overwritten.
Fifo ==
  INSTANCE SerFifo WITH TxRoom <- XBUFLEN + 1, RxRoom <- RBUFLEN,
    tx <- Ser!TxQueue, rx <- Ser!RxQueue, out <- got,
    in <- IF RI THEN arrived - 1 ELSE arrived
FifoKept == Fifo!Spec

\* The other side is not stopped for ever while the program keeps calling
\* ser_getc: only an empty buffer enables CTS again.
LineRestarts == CTS = DISABLE ~> CTS = ENABLE

=============================================================================
