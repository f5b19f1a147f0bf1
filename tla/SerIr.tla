------------------------------- MODULE SerIr -------------------------------
(***************************************************************************)
(* The interrupt-driven serial driver device/lib/ser_ir.c: the program's   *)
(* ser_putc and ser_getc, one access to shared memory per step, the        *)
(* handler of interrupt 4, which runs to its end once it starts, and the   *)
(* UART that raises RI and TI (external: device/include/mcs51/8051.h names *)
(* its registers).  The k-th character passed to ser_putc is the number k, *)
(* and so is the k-th character on the receive line.                       *)
(***************************************************************************)
EXTENDS Naturals, Sequences

CONSTANTS
  XBUFLEN, RBUFLEN,  \* the sizes of the two buffers
  Byte,              \* one more than the largest unsigned char
  MaxOut, MaxIn      \* bounds: characters passed to ser_putc, received

ASSUME SerAssumption ==
  /\ XBUFLEN \in 1 .. Byte - 1 /\ RBUFLEN \in 1 .. Byte - 1
  /\ Byte \in Nat /\ MaxOut \in Nat /\ MaxIn \in Nat

VARIABLES
  rbuf, xbuf, rcnt, xcnt, rpos, xpos, busy,  \* the driver's statics
  ES, RI, TI,   \* the interrupt enable and the two request flags
  sending,      \* the character in the UART's transmitter; None if it is idle
  arrived,      \* the characters the line has delivered; SBUF holds the last
  wire,         \* the characters that have left on the line
  pc,           \* where the program is
  called,       \* the calls of ser_putc so far; c is this number
  got           \* the characters ser_getc has returned

driver == <<rbuf, xbuf, rcnt, xcnt, rpos, xpos, busy>>
uart == <<RI, TI, sending, arrived, wire>>
program == <<pc, called, got>>
vars == <<rbuf, xbuf, rcnt, xcnt, rpos, xpos, busy, ES, RI, TI, sending, arrived,
          wire, pc, called, got>>

None == 0

\* (unsigned char)(pos + cnt) % len
Index(pos, cnt, len) == ((pos + cnt) % Byte) % len

\* [mutant] The buffer wraps one place early.
Wrap_Early(pos, len) == IF pos >= len - 1 THEN 0 ELSE pos

\* pos after pos++ and the test that follows it
Wrap(pos, len) == IF pos >= len THEN 0 ELSE pos

-----------------------------------------------------------------------------
\* The state ser_init leaves; calling it again while the UART is at work is
\* not modelled.
Init ==
  /\ rbuf = [i \in 0 .. RBUFLEN - 1 |-> None]
  /\ xbuf = [i \in 0 .. XBUFLEN - 1 |-> None]
  /\ rcnt = 0 /\ xcnt = 0 /\ rpos = 0 /\ xpos = 0
  /\ busy = FALSE
  /\ ES = TRUE /\ RI = FALSE /\ TI = FALSE
  /\ sending = None /\ arrived = 0 /\ wire = << >>
  /\ pc = "idle" /\ called = 0 /\ got = << >>

-----------------------------------------------------------------------------
(* The UART.                                                               *)

\* A character arrives while RI is clear; the handler is taken to run before
\* the next one is complete.
Arrive ==
  /\ arrived < MaxIn
  /\ ~RI
  /\ arrived' = arrived + 1
  /\ RI' = TRUE
  /\ UNCHANGED <<driver, ES, TI, sending, wire, program>>

\* The character in the transmitter has left.
Leave ==
  /\ sending # None
  /\ wire' = Append(wire, sending)
  /\ sending' = None
  /\ TI' = TRUE
  /\ UNCHANGED <<driver, ES, RI, arrived, program>>

-----------------------------------------------------------------------------
(* ser_handler.                                                            *)

\* A character that finds the buffer full is dropped.
Receive ==
  /\ RI' = FALSE
  /\ IF RI /\ rcnt < RBUFLEN
     THEN /\ rbuf' = [rbuf EXCEPT ![Index(rpos, rcnt, RBUFLEN)] = arrived]
          /\ rcnt' = rcnt + 1
     ELSE UNCHANGED <<rbuf, rcnt>>

\* busy = xcnt is an assignment.
Transmit ==
  /\ TI' = FALSE
  /\ busy' = IF TI THEN xcnt # 0 ELSE busy
  /\ IF TI /\ xcnt # 0
     THEN /\ xcnt' = xcnt - 1
          /\ sending' = xbuf[xpos]
          /\ xpos' = Wrap(xpos + 1, XBUFLEN)
     ELSE UNCHANGED <<xcnt, sending, xpos>>

ser_handler ==
  /\ ES
  /\ RI \/ TI
  /\ Receive
  /\ Transmit
  /\ UNCHANGED <<xbuf, rpos, ES, arrived, wire, program>>

-----------------------------------------------------------------------------
(* The program.                                                            *)

At(here) == pc = here
Goto(there) == pc' = there

CallPutc ==
  /\ At("idle")
  /\ called < MaxOut
  /\ called' = called + 1
  /\ Goto("putc_wait")
  /\ UNCHANGED <<driver, ES, uart, got>>

\* [mutant] One character too many is let in.
PutcRoom_OneMore ==
  /\ At("putc_wait")
  /\ xcnt <= XBUFLEN
  /\ Goto("putc_mask")
  /\ UNCHANGED <<driver, ES, uart, called, got>>

\* while (xcnt >= XBUFLEN);
PutcRoom ==
  /\ At("putc_wait")
  /\ xcnt < XBUFLEN
  /\ Goto("putc_mask")
  /\ UNCHANGED <<driver, ES, uart, called, got>>

\* [mutant] The interrupt stays enabled during the update.
PutcMask_Open ==
  /\ At("putc_mask")
  /\ Goto("putc_test")
  /\ UNCHANGED <<driver, ES, uart, called, got>>

PutcMask ==
  /\ At("putc_mask")
  /\ ES' = FALSE
  /\ Goto("putc_test")
  /\ UNCHANGED <<driver, uart, called, got>>

PutcTest ==
  /\ At("putc_test")
  /\ Goto(IF busy THEN "putc_count" ELSE "putc_send")
  /\ UNCHANGED <<driver, ES, uart, called, got>>

\* xpos + xcnt++ has been formed, the character is stored next.
PutcCount ==
  /\ At("putc_count")
  /\ xcnt' = xcnt + 1
  /\ Goto("putc_store")
  /\ UNCHANGED <<rbuf, xbuf, rcnt, rpos, xpos, busy, ES, uart, called, got>>

PutcStore ==
  /\ At("putc_store")
  /\ xbuf' = [xbuf EXCEPT ![Index(xpos, xcnt - 1, XBUFLEN)] = called]
  /\ Goto("unmask")
  /\ UNCHANGED <<rbuf, rcnt, xcnt, rpos, xpos, busy, ES, uart, called, got>>

PutcSend ==
  /\ At("putc_send")
  /\ sending' = called
  /\ Goto("putc_busy")
  /\ UNCHANGED <<driver, ES, RI, TI, arrived, wire, called, got>>

\* [mutant] busy is left to the handler.
PutcBusy_Forgotten ==
  /\ At("putc_busy")
  /\ Goto("unmask")
  /\ UNCHANGED <<driver, ES, uart, called, got>>

PutcBusy ==
  /\ At("putc_busy")
  /\ busy' = TRUE
  /\ Goto("unmask")
  /\ UNCHANGED <<rbuf, xbuf, rcnt, xcnt, rpos, xpos, ES, uart, called, got>>

\* while (!rcnt);
GetcReady ==
  /\ At("idle")
  /\ rcnt > 0
  /\ Goto("getc_mask")
  /\ UNCHANGED <<driver, ES, uart, called, got>>

\* [mutant] The interrupt stays enabled during the update.
GetcMask_Open ==
  /\ At("getc_mask")
  /\ Goto("getc_count")
  /\ UNCHANGED <<driver, ES, uart, called, got>>

GetcMask ==
  /\ At("getc_mask")
  /\ ES' = FALSE
  /\ Goto("getc_count")
  /\ UNCHANGED <<driver, uart, called, got>>

GetcCount ==
  /\ At("getc_count")
  /\ rcnt' = rcnt - 1
  /\ Goto("getc_read")
  /\ UNCHANGED <<rbuf, xbuf, xcnt, rpos, xpos, busy, ES, uart, called, got>>

GetcRead ==
  /\ At("getc_read")
  /\ got' = Append(got, rbuf[rpos])
  /\ rpos' = rpos + 1
  /\ Goto("getc_wrap")
  /\ UNCHANGED <<rbuf, xbuf, rcnt, xcnt, xpos, busy, ES, uart, called>>

GetcWrap ==
  /\ At("getc_wrap")
  /\ rpos' = Wrap(rpos, RBUFLEN)
  /\ Goto("unmask")
  /\ UNCHANGED <<rbuf, xbuf, rcnt, xcnt, xpos, busy, ES, uart, called, got>>

\* [mutant] The way out forgets to enable the interrupt again.
Unmask_Forgotten ==
  /\ At("unmask")
  /\ Goto("idle")
  /\ UNCHANGED <<driver, ES, uart, called, got>>

Unmask ==
  /\ At("unmask")
  /\ ES' = TRUE
  /\ Goto("idle")
  /\ UNCHANGED <<driver, uart, called, got>>

\* The steps a call takes once its wait is over, and the wait itself.
Call ==
  \/ PutcRoom \/ PutcMask \/ PutcTest \/ PutcCount \/ PutcStore \/ PutcSend \/ PutcBusy
  \/ GetcMask \/ GetcCount \/ GetcRead \/ GetcWrap \/ Unmask

Next == Arrive \/ Leave \/ ser_handler \/ CallPutc \/ GetcReady \/ Call

Spec == Init /\ [][Next]_vars

\* The transmitter works at its rate, an enabled interrupt is served and the
\* interrupted program goes on; the program need not make a call.
FairSpec == Spec /\ WF_vars(Leave) /\ WF_vars(ser_handler) /\ WF_vars(Call)

-----------------------------------------------------------------------------
(* Properties.                                                             *)

TypeOK ==
  /\ rbuf \in [0 .. RBUFLEN - 1 -> 0 .. MaxIn]
  /\ xbuf \in [0 .. XBUFLEN - 1 -> 0 .. MaxOut]
  /\ rcnt \in 0 .. RBUFLEN /\ xcnt \in 0 .. XBUFLEN
  /\ rpos \in 0 .. RBUFLEN /\ xpos \in 0 .. XBUFLEN - 1
  /\ busy \in BOOLEAN /\ ES \in BOOLEAN /\ RI \in BOOLEAN /\ TI \in BOOLEAN
  /\ sending \in 0 .. MaxOut /\ arrived \in 0 .. MaxIn /\ called \in 0 .. MaxOut
  /\ wire \in Seq(1 .. MaxOut) /\ got \in Seq(0 .. MaxIn)
  /\ pc \in {"idle", "putc_wait", "putc_mask", "putc_test", "putc_count", "putc_store",
             "putc_send", "putc_busy", "getc_mask", "getc_count", "getc_read",
             "getc_wrap", "unmask"}

\* Characters in the transmit buffer are never stranded: busy is set, and the
\* transmitter or its request flag will bring the handler back (the flag that
\* ser_putc tests and the handler clears).
NoLostWakeup == xcnt > 0 => busy /\ (sending # None \/ TI)

\* SBUF is never written while a character is still in the transmitter, by
\* ser_putc or by the handler.
SbufNotOverwritten == [][sending' # sending => sending = None \/ sending' = None]_vars

\* Nothing is lost, doubled or reordered on the way out: the characters that
\* have left are the first ones passed to ser_putc.
TxInOrder == wire = [i \in 1 .. Len(wire) |-> i]

\* The characters in a buffer: cnt of them from pos on.
Stored(buf, pos, cnt, len) == [i \in 1 .. cnt |-> buf[(pos + i - 1) % len]]

\* What ser_putc and ser_getc have done to the buffers so far; a character is
\* in when it is stored, out when it is read.
TxQueue ==
  (IF sending = None THEN << >> ELSE <<sending>>) \o
  Stored(xbuf, xpos, IF pc = "putc_store" THEN xcnt - 1 ELSE xcnt, XBUFLEN)
RxQueue == Stored(rbuf, rpos, IF pc = "getc_read" THEN rcnt + 1 ELSE rcnt, RBUFLEN)

\* Driver, program and UART together behave as a pair of bounded FIFOs that
\* refuse a received character only when the receive buffer is full.
Fifo ==
  INSTANCE SerFifo WITH TxRoom <- XBUFLEN + 1, RxRoom <- RBUFLEN,
    tx <- TxQueue, rx <- RxQueue, out <- got,
    in <- IF RI THEN arrived - 1 ELSE arrived
FifoKept == Fifo!Spec

\* A call of ser_putc returns and its character leaves: the program's wait for
\* room and the handler's wait for the program do not block each other.
PutcCompletes == \A k \in 1 .. MaxOut : called = k ~> Len(wire) >= k /\ pc # "putc_wait"

=============================================================================
