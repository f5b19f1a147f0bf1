---------------------------- MODULE SerIrProofs ----------------------------
(***************************************************************************)
(* The transmit side of SerIr for every buffer size that pos + cnt does    *)
(* not overflow: no character is stranded, lost, doubled or reordered and  *)
(* SBUF is never overwritten; and that SerIr implements SerFifo: first     *)
(* what a ring buffer holds as a sequence, then one lemma for each side of *)
(* the driver.                                                             *)
(***************************************************************************)
EXTENDS SerIr, SequenceTheorems, TLAPS

\* The sizes of the transmit buffer for which the cut to an unsigned char in
\* ser_ir.c:93 never bites.
FitsByte == XBUFLEN + XBUFLEN <= Byte + 1

\* Where the program holds the handler off.
Masked == {"putc_test", "putc_count", "putc_store", "putc_send", "putc_busy",
           "getc_count", "getc_read", "getc_wrap", "unmask"}

\* Where the character of the current call is not yet stored or sent.
Pending == {"putc_wait", "putc_mask", "putc_test", "putc_count", "putc_store", "putc_send"}

Slot(i) == IF xpos + i < XBUFLEN THEN xpos + i ELSE xpos + i - XBUFLEN
TxCount == IF pc = "putc_store" THEN xcnt - 1 ELSE xcnt
Sent == IF sending = None THEN Len(wire) ELSE Len(wire) + 1

Held == ES <=> pc \notin Masked

\* What the program has found out and relies on.
Relied ==
  /\ pc \in {"putc_mask", "putc_test", "putc_count"} => xcnt < XBUFLEN
  /\ pc = "putc_count" => busy
  /\ pc = "putc_store" => busy /\ xcnt > 0
  /\ pc = "putc_send" => ~busy
  /\ pc \in {"getc_mask", "getc_count"} => rcnt > 0
  /\ pc = "getc_read" => rcnt < RBUFLEN
  /\ rpos = RBUFLEN => pc = "getc_wrap"

\* busy says that the transmitter is at work or its request is pending; between
\* the two statements of ser_putc it lags behind.
Handover ==
  /\ sending # None => ~TI
  /\ pc # "putc_busy" => (busy <=> (sending # None \/ TI))
  /\ pc = "putc_busy" => (sending # None \/ TI) /\ xcnt = 0
  /\ ~busy => xcnt = 0

Counted == called = Sent + TxCount + (IF pc \in Pending THEN 1 ELSE 0)

\* The characters on the line, in the transmitter and in the buffer follow each
\* other.
InSequence ==
  /\ \A i \in 1 .. Len(wire) : wire[i] = i
  /\ sending # None => sending = Len(wire) + 1
  /\ \A i \in 0 .. TxCount - 1 : xbuf[Slot(i)] = Sent + 1 + i

IInv == TypeOK /\ Held /\ Relied /\ Handover /\ Counted /\ InSequence

-----------------------------------------------------------------------------
LEMMA ModSmall == ASSUME NEW n \in Nat, NEW m \in Nat \ {0}, n < m PROVE n % m = n
  BY SMT

LEMMA ModOnce ==
  ASSUME NEW n \in Nat, NEW m \in Nat \ {0}, m <= n, n < m + m PROVE n % m = n - m
  BY SMT

LEMMA ModRange == ASSUME NEW n \in Nat, NEW m \in Nat \ {0} PROVE n % m \in 0 .. m - 1
  BY SMT

\* The place ser_putc computes for the cnt-th character after pos.
LEMMA TxIndex ==
  ASSUME FitsByte, xpos \in 0 .. XBUFLEN - 1, NEW c \in 0 .. XBUFLEN - 1
  PROVE  Index(xpos, c, XBUFLEN) = Slot(c)
  <1> DEFINE n == xpos + c
  <1>1. n \in Nat /\ n < Byte /\ n < XBUFLEN + XBUFLEN /\ XBUFLEN \in Nat \ {0} /\ Byte \in Nat \ {0}
    BY SerAssumption DEF FitsByte
  <1>2. n % Byte = n
    BY <1>1, ModSmall
  <1>3. CASE n < XBUFLEN
    BY <1>1, <1>2, <1>3, ModSmall DEF Index, Slot
  <1>4. CASE ~(n < XBUFLEN)
    <2>1. n % XBUFLEN = n - XBUFLEN
      <3>1. XBUFLEN <= n
        BY <1>1, <1>4
      <3>2. n < XBUFLEN + XBUFLEN /\ n \in Nat /\ XBUFLEN \in Nat \ {0}
        BY <1>1
      <3> HIDE DEF n
      <3> QED BY <3>1, <3>2, ModOnce
    <2> QED BY <1>1, <1>2, <1>4, <2>1 DEF Index, Slot
  <1> QED BY <1>3, <1>4

LEMMA RxIndex ==
  ASSUME rpos \in 0 .. RBUFLEN, rcnt \in 0 .. RBUFLEN
  PROVE  Index(rpos, rcnt, RBUFLEN) \in 0 .. RBUFLEN - 1
  <1>1. RBUFLEN \in Nat \ {0} /\ Byte \in Nat \ {0}
    BY SerAssumption
  <1>2. rpos + rcnt \in Nat
    BY <1>1
  <1>3. (rpos + rcnt) % Byte \in Nat
    BY <1>1, <1>2, ModRange
  <1> QED BY <1>1, <1>3, ModRange DEF Index

LEMMA InitIInv == ASSUME Init PROVE IInv
  BY SerAssumption DEF Init, IInv, TypeOK, Held, Relied, Handover, Counted, InSequence, None,
    Masked, Pending, TxCount, Sent, Slot

-----------------------------------------------------------------------------
(* Type correctness, one step per action.                                  *)

LEMMA TypeStep == ASSUME IInv, [Next]_vars PROVE TypeOK'
  <1> USE SerAssumption DEF TypeOK, None
  <1>a. TypeOK
    BY DEF IInv
  <1>1. CASE Arrive
    BY <1>a, <1>1 DEF Arrive, driver, program
  <1>2. CASE Leave
    <2>1. sending \in 1 .. MaxOut
      BY <1>a, <1>2 DEF Leave
    <2>2. wire' \in Seq(1 .. MaxOut)
      BY <1>a, <1>2, <2>1 DEF Leave
    <2> QED BY <1>a, <1>2, <2>2 DEF Leave, driver, program
  <1>3. CASE ser_handler
    <2>1. Index(rpos, rcnt, RBUFLEN) \in 0 .. RBUFLEN - 1
      BY <1>a, RxIndex
    <2> DEFINE k == Index(rpos, rcnt, RBUFLEN)
    <2>2. rbuf' \in [0 .. RBUFLEN - 1 -> 0 .. MaxIn] /\ rcnt' \in 0 .. RBUFLEN /\ RI' \in BOOLEAN
      <3>1. RI' = FALSE
            /\ \/ rbuf' = [rbuf EXCEPT ![k] = arrived] /\ rcnt' = rcnt + 1 /\ rcnt < RBUFLEN
               \/ rbuf' = rbuf /\ rcnt' = rcnt
        BY <1>3 DEF ser_handler, Receive
      <3> HIDE DEF k
      <3>2. RBUFLEN \in Nat /\ MaxIn \in Nat
        BY SerAssumption
      <3>3. rbuf' \in [0 .. RBUFLEN - 1 -> 0 .. MaxIn]
        BY <1>a, <3>1
      <3>4. rcnt' \in 0 .. RBUFLEN
        BY <1>a, <3>1, <3>2
      <3> QED BY <3>1, <3>3, <3>4
    <2>3. xpos' \in 0 .. XBUFLEN - 1 /\ xcnt' \in 0 .. XBUFLEN /\ sending' \in 0 .. MaxOut
          /\ busy' \in BOOLEAN /\ TI' \in BOOLEAN
      <3>1. TI' = FALSE /\ busy' \in BOOLEAN
        BY <1>a, <1>3 DEF ser_handler, Transmit
      <3>2. CASE TI /\ xcnt # 0
        <4>1. xcnt' = xcnt - 1 /\ sending' = xbuf[xpos] /\ xpos' = Wrap(xpos + 1, XBUFLEN)
          BY <1>3, <3>2 DEF ser_handler, Transmit
        <4>2. xpos' \in 0 .. XBUFLEN - 1
          BY <1>a, <4>1 DEF Wrap
        <4>3. sending' \in 0 .. MaxOut
          BY <1>a, <4>1
        <4>4. xcnt' \in 0 .. XBUFLEN
          BY <1>a, <3>2, <4>1
        <4> QED BY <3>1, <4>2, <4>3, <4>4
      <3>3. CASE ~(TI /\ xcnt # 0)
        BY <1>a, <1>3, <3>1, <3>3 DEF ser_handler, Transmit
      <3> QED BY <3>2, <3>3
    <2> QED BY <1>a, <1>3, <2>2, <2>3 DEF ser_handler, program
  <1>4. CASE CallPutc
    BY <1>a, <1>4 DEF CallPutc, At, Goto, driver, uart
  <1>5. CASE PutcRoom
    BY <1>a, <1>5 DEF PutcRoom, At, Goto, driver, uart
  <1>6. CASE PutcMask
    BY <1>a, <1>6 DEF PutcMask, At, Goto, driver, uart
  <1>7. CASE PutcTest
    BY <1>a, <1>7 DEF PutcTest, At, Goto, driver, uart
  <1>8. CASE PutcCount
    <2>1. xcnt < XBUFLEN
      BY <1>8 DEF PutcCount, At, IInv, Relied
    <2> QED BY <1>a, <1>8, <2>1 DEF PutcCount, At, Goto, uart
  <1>9. CASE PutcStore
    BY <1>a, <1>9 DEF PutcStore, At, Goto, uart
  <1>10. CASE PutcSend
    BY <1>a, <1>10 DEF PutcSend, At, Goto, driver
  <1>11. CASE PutcBusy
    BY <1>a, <1>11 DEF PutcBusy, At, Goto, uart
  <1>12. CASE GetcReady
    BY <1>a, <1>12 DEF GetcReady, At, Goto, driver, uart
  <1>13. CASE GetcMask
    BY <1>a, <1>13 DEF GetcMask, At, Goto, driver, uart
  <1>14. CASE GetcCount
    <2>1. rcnt > 0
      BY <1>14 DEF GetcCount, At, IInv, Relied
    <2> QED BY <1>a, <1>14, <2>1 DEF GetcCount, At, Goto, uart
  <1>15. CASE GetcRead
    <2>1. rpos \in 0 .. RBUFLEN - 1
      BY <1>a, <1>15 DEF GetcRead, At, IInv, Relied
    <2>2. got' \in Seq(0 .. MaxIn)
      BY <1>a, <1>15, <2>1 DEF GetcRead
    <2> QED BY <1>a, <1>15, <2>1, <2>2 DEF GetcRead, At, Goto, uart
  <1>16. CASE GetcWrap
    BY <1>a, <1>16 DEF GetcWrap, Wrap, At, Goto, uart
  <1>17. CASE Unmask
    BY <1>a, <1>17 DEF Unmask, At, Goto, driver, uart
  <1>18. CASE UNCHANGED vars
    BY <1>a, <1>18 DEF vars
  <1> QED
    BY <1>1, <1>2, <1>3, <1>4, <1>5, <1>6, <1>7, <1>8, <1>9, <1>10, <1>11, <1>12, <1>13,
       <1>14, <1>15, <1>16, <1>17, <1>18 DEF Next, Call

-----------------------------------------------------------------------------
\* The first place of the buffer holds a character when the count says so.
LEMMA BufferedIsChar ==
  ASSUME IInv, pc # "putc_store", xcnt # 0
  PROVE  xbuf[xpos] = Sent + 1 /\ Sent \in Nat /\ xbuf[xpos] # None
  <1>1. XBUFLEN \in Nat \ {0} /\ xpos \in 0 .. XBUFLEN - 1 /\ xcnt \in Nat
    BY SerAssumption DEF IInv, TypeOK
  <1>2. Slot(0) = xpos
    BY <1>1 DEF Slot
  <1>3. TxCount = xcnt /\ 0 \in 0 .. TxCount - 1
    BY <1>1 DEF TxCount
  <1>4. Sent \in Nat
    BY DEF Sent, IInv, TypeOK
  <1>5. xbuf[Slot(0)] = Sent + 1 + 0
    BY <1>3 DEF IInv, InSequence
  <1> QED BY <1>2, <1>4, <1>5 DEF None

-----------------------------------------------------------------------------
(* Control: the mask, what the program relies on and the handover.         *)

\* Only the handler and the program's own steps touch what these speak of, and
\* the handler runs only while the program has not masked it.
LEMMA ControlStep == ASSUME IInv, [Next]_vars PROVE Held' /\ Relied' /\ Handover'
  <1> USE SerAssumption DEF Held, Relied, Handover, Masked, None
  <1>a. TypeOK /\ Held /\ Relied /\ Handover
    BY DEF IInv
  <1>b. XBUFLEN \in Nat /\ RBUFLEN \in Nat /\ xcnt \in Nat /\ rcnt \in Nat /\ rpos \in Nat
        /\ rcnt <= RBUFLEN /\ rpos <= RBUFLEN
    BY <1>a DEF TypeOK
  <1>1. CASE Arrive
    BY <1>a, <1>b, <1>1 DEF Arrive, At, Goto, driver, uart, program
  <1>2. CASE Leave
    BY <1>a, <1>b, <1>2 DEF Leave, At, Goto, driver, uart, program
  <1>3. CASE ser_handler
    <2>1. pc \notin Masked /\ pc' = pc /\ ES' = ES /\ rpos' = rpos
      BY <1>a, <1>3 DEF ser_handler, program
    <2>2. Held' /\ Relied'
      <3>1. xcnt' = xcnt \/ (xcnt' = xcnt - 1 /\ xcnt # 0)
        <4>1. CASE TI /\ xcnt # 0
          BY <1>3, <4>1 DEF ser_handler, Transmit
        <4>2. CASE ~(TI /\ xcnt # 0)
          BY <1>3, <4>2 DEF ser_handler, Transmit
        <4> QED BY <4>1, <4>2
      <3>2. rcnt' = rcnt \/ rcnt' = rcnt + 1
        BY <1>3 DEF ser_handler, Receive
      <3> QED BY <1>a, <1>b, <2>1, <3>1, <3>2
    <2>3. Handover'
      <3>1. TI' = FALSE
        BY <1>3 DEF ser_handler, Transmit
      <3>2. CASE TI /\ xcnt # 0
        <4>1. busy' = TRUE /\ sending' = xbuf[xpos]
          BY <1>3, <3>2 DEF ser_handler, Transmit
        <4>2. sending' # None
          BY <1>3, <3>2, <4>1, <2>1, BufferedIsChar DEF IInv
        <4> QED BY <2>1, <3>1, <4>1, <4>2
      <3>3. CASE TI /\ xcnt = 0
        BY <1>a, <1>3, <2>1, <3>1, <3>3 DEF ser_handler, Transmit
      <3>4. CASE ~TI
        BY <1>a, <1>3, <2>1, <3>1, <3>4 DEF ser_handler, Transmit
      <3> QED BY <3>2, <3>3, <3>4
    <2> QED BY <2>2, <2>3
  <1>4. CASE CallPutc
    BY <1>a, <1>b, <1>4 DEF CallPutc, At, Goto, driver, uart, program
  <1>5. CASE PutcRoom
    BY <1>a, <1>b, <1>5 DEF PutcRoom, At, Goto, driver, uart, program
  <1>6. CASE PutcMask
    BY <1>a, <1>b, <1>6 DEF PutcMask, At, Goto, driver, uart, program
  <1>7. CASE PutcTest
    BY <1>a, <1>b, <1>7 DEF PutcTest, At, Goto, driver, uart, program
  <1>8. CASE PutcCount
    BY <1>a, <1>b, <1>8 DEF PutcCount, At, Goto, driver, uart, program
  <1>9. CASE PutcStore
    BY <1>a, <1>b, <1>9 DEF PutcStore, At, Goto, driver, uart, program
  <1>10. CASE PutcSend
    BY <1>a, <1>b, <1>10 DEF PutcSend, At, Goto, driver, uart, program, IInv, Counted, Pending, Sent, TxCount, TypeOK
  <1>11. CASE PutcBusy
    BY <1>a, <1>b, <1>11 DEF PutcBusy, At, Goto, driver, uart, program
  <1>12. CASE GetcReady
    BY <1>a, <1>b, <1>12 DEF GetcReady, At, Goto, driver, uart, program
  <1>13. CASE GetcMask
    BY <1>a, <1>b, <1>13 DEF GetcMask, At, Goto, driver, uart, program
  <1>14. CASE GetcCount
    BY <1>a, <1>b, <1>14 DEF GetcCount, At, Goto, driver, uart, program
  <1>15. CASE GetcRead
    BY <1>a, <1>b, <1>15 DEF GetcRead, At, Goto, driver, uart, program
  <1>16. CASE GetcWrap
    BY <1>a, <1>b, <1>16 DEF GetcWrap, At, Goto, driver, uart, program, Wrap
  <1>17. CASE Unmask
    BY <1>a, <1>b, <1>17 DEF Unmask, At, Goto, driver, uart, program
  <1>18. CASE UNCHANGED vars
    BY <1>a, <1>18 DEF vars
  <1> QED
    BY <1>1, <1>2, <1>3, <1>4, <1>5, <1>6, <1>7, <1>8, <1>9, <1>10, <1>11, <1>12, <1>13,
       <1>14, <1>15, <1>16, <1>17, <1>18 DEF Next, Call

-----------------------------------------------------------------------------
(* The sequence of characters.                                             *)

\* What Counted and InSequence depend on: a step that leaves it alone, or only
\* moves the program within Pending or outside it, keeps both.
LEMMA SequenceUntouched ==
  ASSUME IInv, UNCHANGED <<xbuf, xcnt, xpos, sending, wire, called>>,
         pc' \in Pending <=> pc \in Pending,
         pc # "putc_store", pc' # "putc_store"
  PROVE  Counted' /\ InSequence'
  <1>1. Counted /\ InSequence
    BY DEF IInv
  <1>2. TxCount = xcnt /\ TxCount' = xcnt /\ Sent' = Sent
    BY DEF TxCount, Sent
  <1>3. Counted'
    BY <1>1, <1>2 DEF Counted
  <1>4. \A i : Slot(i)' = Slot(i)
    BY DEF Slot
  <1>5. InSequence'
    BY <1>1, <1>2, <1>4 DEF InSequence
  <1> QED BY <1>3, <1>5

LEMMA SequenceFrame ==
  ASSUME IInv, UNCHANGED <<xbuf, xcnt, xpos, sending, wire, called, pc>>
  PROVE  Counted' /\ InSequence'
  <1>1. TxCount' = TxCount /\ Sent' = Sent /\ \A i : Slot(i)' = Slot(i)
    BY DEF TxCount, Sent, Slot
  <1> QED BY <1>1 DEF IInv, Counted, InSequence

LEMMA SequenceStep == ASSUME IInv, FitsByte, [Next]_vars PROVE Counted' /\ InSequence'
  <1>a. TypeOK /\ Held /\ Relied /\ Handover /\ Counted /\ InSequence
    BY DEF IInv
  <1>b. XBUFLEN \in Nat \ {0} /\ xcnt \in Nat /\ xcnt <= XBUFLEN /\ xpos \in Nat /\ xpos < XBUFLEN
        /\ called \in Nat /\ Len(wire) \in Nat /\ Sent \in Nat /\ sending \in Nat
    BY <1>a, SerAssumption DEF TypeOK, Sent
  <1>1. CASE Arrive
    <2>1. UNCHANGED <<xbuf, xcnt, xpos, sending, wire, called, pc>>
      BY <1>1 DEF Arrive, driver, program
    <2> QED BY <2>1, SequenceFrame
  <1>2. CASE Leave
    <2>1. sending # None /\ wire' = Append(wire, sending) /\ sending' = None
          /\ UNCHANGED <<xbuf, xcnt, xpos, pc, called>>
      BY <1>2 DEF Leave, driver, program
    <2>2. wire \in Seq(1 .. MaxOut) /\ sending \in 1 .. MaxOut
      BY <1>a, <2>1 DEF TypeOK, None
    <2>3. Len(wire') = Len(wire) + 1 /\ wire'[Len(wire) + 1] = sending
          /\ \A i \in 1 .. Len(wire) : wire'[i] = wire[i]
      BY <2>1, <2>2
    <2>4. Sent' = Sent /\ TxCount' = TxCount /\ \A i : Slot(i)' = Slot(i)
      BY <2>1, <2>3 DEF Sent, TxCount, Slot
    <2>5. Counted'
      BY <1>a, <2>1, <2>4 DEF Counted
    <2>6. \A i \in 1 .. Len(wire') : wire'[i] = i
      BY <1>a, <1>b, <2>1, <2>3 DEF InSequence
    <2>7. \A i \in 0 .. TxCount' - 1 : xbuf'[Slot(i)'] = Sent' + 1 + i
      BY <1>a, <2>1, <2>4 DEF InSequence
    <2> QED BY <2>1, <2>5, <2>6, <2>7 DEF InSequence
  <1>3. CASE ser_handler
    <2>1. pc \notin Masked /\ UNCHANGED <<xbuf, wire, pc, called>>
      BY <1>a, <1>3 DEF ser_handler, program, Held
    <2>2. CASE TI /\ xcnt # 0
      <3>1. xcnt' = xcnt - 1 /\ sending' = xbuf[xpos] /\ xpos' = Wrap(xpos + 1, XBUFLEN)
        BY <1>3, <2>2 DEF ser_handler, Transmit
      <3>2. sending = None /\ Sent = Len(wire)
        BY <1>a, <2>2 DEF Handover, Sent
      <3>3. sending' = Len(wire) + 1 /\ sending' # None
        BY <2>1, <2>2, <3>1, <3>2, BufferedIsChar DEF Masked
      <3>4. Sent' = Sent + 1
        BY <2>1, <3>2, <3>3 DEF Sent
      <3>5. TxCount = xcnt /\ TxCount' = xcnt - 1
        BY <2>1, <3>1 DEF TxCount, Masked
      <3>6. Counted'
        BY <1>a, <1>b, <2>1, <2>2, <3>4, <3>5 DEF Counted
      <3>7. ASSUME NEW i \in 0 .. xcnt - 2 PROVE xbuf'[Slot(i)'] = Sent' + 1 + i
        <4>1. Slot(i)' = Slot(i + 1)
          BY <1>b, <3>1 DEF Slot, Wrap
        <4>2. i + 1 \in 0 .. TxCount - 1
          BY <1>b, <3>5
        <4>3. xbuf[Slot(i + 1)] = Sent + 1 + (i + 1)
          BY <1>a, <4>2 DEF InSequence
        <4> QED BY <1>b, <2>1, <3>4, <4>1, <4>3
      <3>8. \A i \in 0 .. TxCount' - 1 : xbuf'[Slot(i)'] = Sent' + 1 + i
        BY <1>b, <3>5, <3>7
      <3> QED BY <1>a, <2>1, <3>3, <3>6, <3>8 DEF InSequence
    <2>3. CASE ~(TI /\ xcnt # 0)
      <3>1. UNCHANGED <<xcnt, sending, xpos>>
        BY <1>3, <2>3 DEF ser_handler, Transmit
      <3> QED BY <2>1, <3>1, SequenceFrame
    <2> QED BY <2>2, <2>3
  <1>4. CASE CallPutc
    <2>1. called' = called + 1 /\ pc = "idle" /\ pc' = "putc_wait"
          /\ UNCHANGED <<xbuf, xcnt, xpos, sending, wire>>
      BY <1>4 DEF CallPutc, At, Goto, driver, uart
    <2>2. TxCount = xcnt /\ TxCount' = xcnt /\ Sent' = Sent /\ \A i : Slot(i)' = Slot(i)
      BY <2>1 DEF TxCount, Sent, Slot
    <2>3. Counted'
      BY <1>a, <1>b, <2>1, <2>2 DEF Counted, Pending
    <2> QED BY <1>a, <2>1, <2>2, <2>3 DEF InSequence
  <1>5. CASE PutcRoom
    <2>1. UNCHANGED <<xbuf, xcnt, xpos, sending, wire, called>> /\ pc # "putc_store" /\ pc' # "putc_store"
      BY <1>5 DEF PutcRoom, At, Goto, driver, uart
    <2>2. pc' \in Pending <=> pc \in Pending
      BY <1>5 DEF PutcRoom, At, Goto, Pending
    <2> QED BY <2>1, <2>2, SequenceUntouched
  <1>6. CASE PutcMask
    <2>1. UNCHANGED <<xbuf, xcnt, xpos, sending, wire, called>> /\ pc # "putc_store" /\ pc' # "putc_store"
      BY <1>6 DEF PutcMask, At, Goto, driver, uart
    <2>2. pc' \in Pending <=> pc \in Pending
      BY <1>6 DEF PutcMask, At, Goto, Pending
    <2> QED BY <2>1, <2>2, SequenceUntouched
  <1>7. CASE PutcTest
    <2>1. UNCHANGED <<xbuf, xcnt, xpos, sending, wire, called>> /\ pc # "putc_store" /\ pc' # "putc_store"
      BY <1>7 DEF PutcTest, At, Goto, driver, uart
    <2>2. pc' \in Pending <=> pc \in Pending
      BY <1>7 DEF PutcTest, At, Goto, Pending
    <2> QED BY <2>1, <2>2, SequenceUntouched
  <1>8. CASE PutcCount
    <2>1. xcnt' = xcnt + 1 /\ pc = "putc_count" /\ pc' = "putc_store"
          /\ UNCHANGED <<xbuf, xpos, sending, wire, called>>
      BY <1>8 DEF PutcCount, At, Goto, uart
    <2>2. TxCount = xcnt /\ TxCount' = xcnt /\ Sent' = Sent /\ \A i : Slot(i)' = Slot(i)
      BY <1>b, <2>1 DEF TxCount, Sent, Slot
    <2>3. Counted'
      BY <1>a, <1>b, <2>1, <2>2 DEF Counted, Pending
    <2> QED BY <1>a, <2>1, <2>2, <2>3 DEF InSequence
  <1>9. CASE PutcStore
    <2> DEFINE c == xcnt - 1
    <2>1. pc = "putc_store" /\ pc' = "unmask" /\ UNCHANGED <<xcnt, xpos, sending, wire, called>>
          /\ xbuf' = [xbuf EXCEPT ![Index(xpos, c, XBUFLEN)] = called]
      BY <1>9 DEF PutcStore, At, Goto, uart
    <2>2. c \in 0 .. XBUFLEN - 1
      BY <1>a, <1>b, <2>1 DEF Relied
    <2>3. Index(xpos, c, XBUFLEN) = Slot(c)
      BY <1>b, <2>2, TxIndex
    <2>4. TxCount = c /\ TxCount' = c + 1 /\ Sent' = Sent /\ \A i : Slot(i)' = Slot(i)
      BY <1>b, <2>1 DEF TxCount, Sent, Slot
    <2>5. called = Sent + c + 1
      BY <1>a, <2>1, <2>4 DEF Counted, Pending
    <2>6. Counted'
      BY <1>b, <2>1, <2>2, <2>4, <2>5 DEF Counted, Pending
    <2>7. ASSUME NEW i \in 0 .. c PROVE xbuf'[Slot(i)] = Sent + 1 + i
      <3>1. Slot(i) \in 0 .. XBUFLEN - 1 /\ (i # c => Slot(i) # Slot(c))
        BY <1>b, <2>2 DEF Slot
      <3>2. xbuf \in [0 .. XBUFLEN - 1 -> 0 .. MaxOut]
        BY <1>a DEF TypeOK
      <3>3. CASE i = c
        BY <1>b, <2>1, <2>2, <2>3, <2>5, <3>1, <3>2, <3>3
      <3>4. CASE i # c
        <4>1. xbuf'[Slot(i)] = xbuf[Slot(i)]
          BY <2>1, <2>3, <3>1, <3>2, <3>4
        <4>2. i \in 0 .. c - 1
          BY <2>2, <3>4
        <4> QED BY <1>a, <2>4, <4>1, <4>2 DEF InSequence
      <3> QED BY <3>3, <3>4
    <2>8. InSequence'
      <3>1. \A i \in 0 .. TxCount' - 1 : xbuf'[Slot(i)'] = Sent' + 1 + i
        BY <2>2, <2>4, <2>7
      <3> QED BY <1>a, <2>1, <3>1 DEF InSequence
    <2> QED BY <2>6, <2>8
  <1>10. CASE PutcSend
    <2>1. pc = "putc_send" /\ pc' = "putc_busy" /\ sending' = called
          /\ UNCHANGED <<xbuf, xcnt, xpos, wire, called>>
      BY <1>10 DEF PutcSend, At, Goto, driver
    <2>2. sending = None /\ xcnt = 0
      BY <1>a, <2>1 DEF Relied, Handover
    <2>3. TxCount = 0 /\ TxCount' = 0 /\ Sent = Len(wire)
      BY <2>1, <2>2 DEF TxCount, Sent
    <2>4. called = Len(wire) + 1
      BY <1>a, <1>b, <2>1, <2>3 DEF Counted, Pending
    <2>5. Sent' = Len(wire) + 1
      BY <1>b, <2>1, <2>4 DEF Sent, None
    <2>6. Counted'
      BY <1>b, <2>1, <2>3, <2>4, <2>5 DEF Counted, Pending
    <2>7. InSequence'
      BY <1>a, <2>1, <2>3, <2>4 DEF InSequence
    <2> QED BY <2>6, <2>7
  <1>11. CASE PutcBusy
    <2>1. UNCHANGED <<xbuf, xcnt, xpos, sending, wire, called>> /\ pc # "putc_store" /\ pc' # "putc_store"
      BY <1>11 DEF PutcBusy, At, Goto, driver, uart
    <2>2. pc' \in Pending <=> pc \in Pending
      BY <1>11 DEF PutcBusy, At, Goto, Pending
    <2> QED BY <2>1, <2>2, SequenceUntouched
  <1>12. CASE GetcReady
    <2>1. UNCHANGED <<xbuf, xcnt, xpos, sending, wire, called>> /\ pc # "putc_store" /\ pc' # "putc_store"
      BY <1>12 DEF GetcReady, At, Goto, driver, uart
    <2>2. pc' \in Pending <=> pc \in Pending
      BY <1>12 DEF GetcReady, At, Goto, Pending
    <2> QED BY <2>1, <2>2, SequenceUntouched
  <1>13. CASE GetcMask
    <2>1. UNCHANGED <<xbuf, xcnt, xpos, sending, wire, called>> /\ pc # "putc_store" /\ pc' # "putc_store"
      BY <1>13 DEF GetcMask, At, Goto, driver, uart
    <2>2. pc' \in Pending <=> pc \in Pending
      BY <1>13 DEF GetcMask, At, Goto, Pending
    <2> QED BY <2>1, <2>2, SequenceUntouched
  <1>14. CASE GetcCount
    <2>1. UNCHANGED <<xbuf, xcnt, xpos, sending, wire, called>> /\ pc # "putc_store" /\ pc' # "putc_store"
      BY <1>14 DEF GetcCount, At, Goto, driver, uart
    <2>2. pc' \in Pending <=> pc \in Pending
      BY <1>14 DEF GetcCount, At, Goto, Pending
    <2> QED BY <2>1, <2>2, SequenceUntouched
  <1>15. CASE GetcRead
    <2>1. UNCHANGED <<xbuf, xcnt, xpos, sending, wire, called>> /\ pc # "putc_store" /\ pc' # "putc_store"
      BY <1>15 DEF GetcRead, At, Goto, driver, uart
    <2>2. pc' \in Pending <=> pc \in Pending
      BY <1>15 DEF GetcRead, At, Goto, Pending
    <2> QED BY <2>1, <2>2, SequenceUntouched
  <1>16. CASE GetcWrap
    <2>1. UNCHANGED <<xbuf, xcnt, xpos, sending, wire, called>> /\ pc # "putc_store" /\ pc' # "putc_store"
      BY <1>16 DEF GetcWrap, At, Goto, driver, uart
    <2>2. pc' \in Pending <=> pc \in Pending
      BY <1>16 DEF GetcWrap, At, Goto, Pending
    <2> QED BY <2>1, <2>2, SequenceUntouched
  <1>17. CASE Unmask
    <2>1. UNCHANGED <<xbuf, xcnt, xpos, sending, wire, called>> /\ pc # "putc_store" /\ pc' # "putc_store"
      BY <1>17 DEF Unmask, At, Goto, driver, uart
    <2>2. pc' \in Pending <=> pc \in Pending
      BY <1>17 DEF Unmask, At, Goto, Pending
    <2> QED BY <2>1, <2>2, SequenceUntouched
  <1>18. CASE UNCHANGED vars
    <2>1. UNCHANGED <<xbuf, xcnt, xpos, sending, wire, called, pc>>
      BY <1>18 DEF vars
    <2> QED BY <2>1, SequenceFrame
  <1> QED
    BY <1>1, <1>2, <1>3, <1>4, <1>5, <1>6, <1>7, <1>8, <1>9, <1>10, <1>11, <1>12, <1>13,
       <1>14, <1>15, <1>16, <1>17, <1>18 DEF Next, Call

-----------------------------------------------------------------------------
(* The theorems.                                                           *)

\* The inductive invariant of the driver: the mask and the program's place, the
\* handover between busy, the transmitter and its request flag, and the
\* sequence of characters from the line back to the last call of ser_putc.
THEOREM SerInvariant == Spec => [](~FitsByte \/ IInv)
  <1> DEFINE J == ~FitsByte \/ IInv
  <1>1. Init => J
    BY InitIInv
  <1>2. J /\ [Next]_vars => J'
    <2>1. ASSUME FitsByte, IInv, [Next]_vars PROVE IInv'
      BY <2>1, TypeStep, ControlStep, SequenceStep DEF IInv
    <2>2. ~FitsByte => (~FitsByte)'
      BY DEF FitsByte
    <2> QED BY <2>1, <2>2
  <1>3. Init /\ [][Next]_vars => []J
    <2> HIDE DEF J
    <2> QED BY <1>1, <1>2, PTL
  <1> QED BY <1>3 DEF Spec

\* Every variable stays in its range, for every size the comment at
\* ser_ir.c:34 should have named.
THEOREM SerTypeCorrect == Spec => [](FitsByte => TypeOK)
  <1>1. (~FitsByte \/ IInv) => (FitsByte => TypeOK)
    BY DEF IInv
  <1> QED BY <1>1, SerInvariant, PTL

\* A character in the transmit buffer is never stranded: busy, tested by
\* ser_putc with the handler held off, is right about the transmitter.
THEOREM SerNoLostWakeup == Spec => [](FitsByte => NoLostWakeup)
  <1>1. (~FitsByte \/ IInv) => (FitsByte => NoLostWakeup)
    <2> SUFFICES ASSUME IInv, xcnt > 0 PROVE busy /\ (sending # None \/ TI)
      BY DEF NoLostWakeup
    <2>1. xcnt # 0
      BY DEF IInv, TypeOK
    <2> QED BY <2>1 DEF IInv, Handover
  <1> QED BY <1>1, SerInvariant, PTL

\* The characters leave in the order ser_putc got them, none lost and none twice.
THEOREM SerTxInOrder == Spec => [](FitsByte => TxInOrder)
  <1>1. (~FitsByte \/ IInv) => (FitsByte => TxInOrder)
    <2> SUFFICES ASSUME IInv PROVE TxInOrder
      OBVIOUS
    <2>1. wire \in Seq(1 .. MaxOut) /\ \A i \in 1 .. Len(wire) : wire[i] = i
      BY DEF IInv, TypeOK, InSequence
    <2> QED BY <2>1 DEF TxInOrder
  <1> QED BY <1>1, SerInvariant, PTL

\* Neither ser_putc nor the handler writes SBUF over a character that has not
\* left.
THEOREM SerNoOverwrite == Spec => (FitsByte => SbufNotOverwritten)
  <1>1. (~FitsByte \/ IInv) /\ [Next]_vars
        => (FitsByte => [sending' # sending => sending = None \/ sending' = None]_vars)
    <2> SUFFICES ASSUME IInv, [Next]_vars, sending' # sending
                 PROVE  sending = None \/ sending' = None
      OBVIOUS
    <2>1. CASE Leave
      BY <2>1 DEF Leave
    <2>2. CASE PutcSend
      BY <2>2 DEF PutcSend, At, IInv, Relied, Handover
    <2>3. CASE ser_handler
      <3>1. TI
        BY <2>3 DEF ser_handler, Transmit
      <3> QED BY <3>1 DEF IInv, Handover
    <2>4. CASE ~(Leave \/ PutcSend \/ ser_handler)
      BY <2>4 DEF Next, Call, vars, driver, uart, program, Arrive, CallPutc, PutcRoom, PutcMask,
        PutcTest, PutcCount, PutcStore, PutcBusy, GetcReady, GetcMask, GetcCount, GetcRead,
        GetcWrap, Unmask
    <2> QED BY <2>1, <2>2, <2>3, <2>4
  <1>2. FitsByte => FitsByte'
    BY DEF FitsByte
  <1> QED BY <1>1, <1>2, SerInvariant, PTL DEF Spec, SbufNotOverwritten

-----------------------------------------------------------------------------
(* The refinement of SerFifo.                                              *)

\* As FitsByte, for the receive buffer (ser_ir.c:73).
FitsRx == RBUFLEN + RBUFLEN <= Byte + 1

RxCount == IF pc = "getc_read" THEN rcnt + 1 ELSE rcnt
Line == IF sending = None THEN << >> ELSE <<sending>>
Delivered == IF RI THEN arrived - 1 ELSE arrived

-----------------------------------------------------------------------------
(* A ring buffer as a sequence.                                            *)

LEMMA ModAtMostOnce ==
  ASSUME NEW a \in Nat, NEW m \in Nat \ {0}, a < m + m
  PROVE  a % m = (IF a < m THEN a ELSE a - m)
<1>1. CASE a < m
  BY <1>1, ModSmall
<1>2. CASE ~(a < m)
  <2>1. m <= a
    BY <1>2
  <2> QED
    BY <1>2, <2>1, ModOnce
<1> QED
  BY <1>1, <1>2

\* The i-th character from pos on.
Cell(buf, pos, i, len) == buf[(pos + i - 1) % len]

LEMMA CellInRange ==
  ASSUME NEW len \in Nat \ {0}, NEW pos \in Nat, NEW i \in Nat \ {0}
  PROVE  (pos + i - 1) % len \in 0 .. len - 1
<1>1. pos + i - 1 \in Nat
  OBVIOUS
<1> QED
  BY <1>1, ModRange

\* What Stored is as a sequence.
Listed(buf, pos, n, len) ==
  /\ Stored(buf, pos, n, len) \in Seq(Nat)
  /\ Len(Stored(buf, pos, n, len)) = n
  /\ \A i \in 1 .. n : Stored(buf, pos, n, len)[i] = Cell(buf, pos, i, len)

LEMMA StoredSeq ==
  ASSUME NEW len \in Nat \ {0}, NEW buf \in [0 .. len - 1 -> Nat],
         NEW pos \in Nat, NEW n \in Nat
  PROVE  Listed(buf, pos, n, len)
<1>1. ASSUME NEW i \in 1 .. n PROVE Cell(buf, pos, i, len) \in Nat
  BY CellInRange DEF Cell
<1>2. Stored(buf, pos, n, len) = [i \in 1 .. n |-> Cell(buf, pos, i, len)]
  BY DEF Stored, Cell
<1>3. Stored(buf, pos, n, len) \in [1 .. n -> Nat]
  BY <1>1, <1>2
<1>4. Stored(buf, pos, n, len) \in Seq(Nat)
  BY <1>3, SeqDef
<1> QED
  BY <1>2, <1>3, <1>4 DEF Listed

\* Reading takes the first element off.
LEMMA StoredRead ==
  ASSUME NEW len \in Nat \ {0}, NEW buf \in [0 .. len - 1 -> Nat],
         NEW pos \in 0 .. len - 1, NEW n \in Nat \ {0}
  PROVE  /\ Stored(buf, pos, n, len) # << >>
         /\ Head(Stored(buf, pos, n, len)) = buf[pos]
         /\ Tail(Stored(buf, pos, n, len)) = Stored(buf, pos + 1, n - 1, len)
<1> DEFINE s == Stored(buf, pos, n, len)
           t == Stored(buf, pos + 1, n - 1, len)
<1>2. pos \in Nat /\ n \in Nat /\ pos + 1 \in Nat /\ n - 1 \in Nat
  OBVIOUS
<1>1. /\ s \in Seq(Nat) /\ Len(s) = n
      /\ \A i \in 1 .. n : s[i] = Cell(buf, pos, i, len)
  <2>1. Listed(buf, pos, n, len)
    BY <1>2, StoredSeq
  <2> QED
    BY <2>1 DEF Listed
<1>3. /\ t \in Seq(Nat) /\ Len(t) = n - 1
      /\ \A i \in 1 .. n - 1 : t[i] = Cell(buf, pos + 1, i, len)
  <2>1. Listed(buf, pos + 1, n - 1, len)
    BY <1>2, StoredSeq
  <2> QED
    BY <2>1 DEF Listed
<1> HIDE DEF s, t
<1>4. s # << >>
  BY <1>1, EmptySeq
<1>5. Head(s) = buf[pos]
  <2>1. s[1] = Cell(buf, pos, 1, len)
    BY <1>1
  <2>2. (pos + 1 - 1) % len = pos
    BY ModSmall
  <2> QED
    BY <1>1, <1>4, <2>1, <2>2 DEF Cell
<1>6. Tail(s) = t
  <2>1. /\ Tail(s) \in Seq(Nat) /\ Len(Tail(s)) = n - 1
        /\ \A i \in 1 .. n - 1 : Tail(s)[i] = s[i + 1]
    BY <1>1, <1>4, HeadTailProperties
  <2>2. ASSUME NEW i \in 1 .. n - 1 PROVE Tail(s)[i] = t[i]
    <3>1. i + 1 \in 1 .. n /\ pos + (i + 1) - 1 = (pos + 1) + i - 1
      OBVIOUS
    <3>2. Cell(buf, pos, i + 1, len) = Cell(buf, pos + 1, i, len)
      BY <3>1 DEF Cell
    <3> QED
      BY <1>1, <1>3, <2>1, <3>1, <3>2
  <2> QED
    BY <1>3, <2>1, <2>2, SeqEqual
<1> QED
  BY <1>4, <1>5, <1>6 DEF s, t

\* Position len is position 0.
LEMMA StoredWrap ==
  ASSUME NEW len \in Nat \ {0}, NEW buf \in [0 .. len - 1 -> Nat],
         NEW pos \in 0 .. len, NEW n \in 0 .. len
  PROVE  Stored(buf, Wrap(pos, len), n, len) = Stored(buf, pos, n, len)
<1>1. CASE pos < len
  BY <1>1 DEF Wrap
<1>2. CASE pos = len
  <2>1. Wrap(pos, len) = 0
    BY <1>2 DEF Wrap
  <2>2. ASSUME NEW i \in 1 .. n PROVE (0 + i - 1) % len = (len + i - 1) % len
    <3>1. (0 + i - 1) % len = i - 1
      <4>1. i - 1 \in Nat /\ i - 1 < len /\ 0 + i - 1 = i - 1
        OBVIOUS
      <4> QED
        BY <4>1, ModSmall
    <3>2. (len + i - 1) % len = i - 1
      <4>1. len + i - 1 \in Nat /\ len <= len + i - 1 /\ len + i - 1 < len + len
        OBVIOUS
      <4>2. (len + i - 1) % len = (len + i - 1) - len
        BY <4>1, ModOnce
      <4> QED
        BY <4>2
    <3> QED
      BY <3>1, <3>2
  <2>3. Stored(buf, 0, n, len) = Stored(buf, len, n, len)
    BY <2>2 DEF Stored
  <2> QED
    BY <1>2, <2>1, <2>3
<1> QED
  BY <1>1, <1>2

\* new is buf with c stored behind the n-th character from pos on.
Written(new, buf, pos, n, len, c) == new = [buf EXCEPT ![(pos + n) % len] = c]

\* Storing behind the last element appends, if the buffer is not full.
LEMMA StoredWrite ==
  ASSUME NEW len \in Nat \ {0}, NEW buf \in [0 .. len - 1 -> Nat],
         NEW pos \in 0 .. len - 1, NEW n \in 0 .. len - 1, NEW c \in Nat
  PROVE  \A new : Written(new, buf, pos, n, len, c)
                   => Stored(new, pos, n + 1, len) = Append(Stored(buf, pos, n, len), c)
<1> TAKE new
<1> HAVE Written(new, buf, pos, n, len, c)
<1> DEFINE s == Stored(buf, pos, n, len)
           t == Stored(new, pos, n + 1, len)
           k == (pos + n) % len
<1>0. new = [buf EXCEPT ![k] = c]
  BY DEF Written
<1>1. k \in 0 .. len - 1
  <2>1. pos + n \in Nat
    OBVIOUS
  <2> QED
    BY <2>1, ModRange
<1>2. new \in [0 .. len - 1 -> Nat] /\ pos \in Nat /\ n \in Nat /\ n + 1 \in Nat
  BY <1>0, <1>1
<1>3. /\ s \in Seq(Nat) /\ Len(s) = n
      /\ \A i \in 1 .. n : s[i] = Cell(buf, pos, i, len)
  <2>1. Listed(buf, pos, n, len)
    BY <1>2, StoredSeq
  <2> QED
    BY <2>1 DEF Listed
<1>4. /\ t \in Seq(Nat) /\ Len(t) = n + 1
      /\ \A i \in 1 .. n + 1 : t[i] = Cell(new, pos, i, len)
  <2>1. Listed(new, pos, n + 1, len)
    BY <1>2, StoredSeq
  <2> QED
    BY <2>1 DEF Listed
<1>5. ASSUME NEW i \in 1 .. n
      PROVE  (pos + i - 1) % len \in 0 .. len - 1 /\ (pos + i - 1) % len # (pos + n) % len
  <2> DEFINE a == pos + i - 1
             b == pos + n
  <2>1. a \in Nat /\ b \in Nat /\ a < b /\ b < a + len /\ b < len + len
    OBVIOUS
  <2> HIDE DEF a, b
  <2>0. len \in Nat \ {0} /\ a < len + len
    BY <2>1
  <2>2. a % len = (IF a < len THEN a ELSE a - len)
    BY <2>1, <2>0, ModAtMostOnce
  <2>3. b % len = (IF b < len THEN b ELSE b - len)
    BY <2>1, <2>0, ModAtMostOnce
  <2>4. (IF a < len THEN a ELSE a - len) # (IF b < len THEN b ELSE b - len)
    BY <2>1
  <2>5. a % len # b % len
    BY <2>2, <2>3, <2>4
  <2> QED
    BY <2>5, CellInRange DEF a, b
<1>6. ASSUME NEW i \in 1 .. n + 1 PROVE t[i] = Append(s, c)[i]
  <2>1. t[i] = Cell(new, pos, i, len)
    BY <1>4
  <2> HIDE DEF s, t
  <2>2. CASE i = n + 1
    <3>1. pos + i - 1 = pos + n
      BY <2>2
    <3>2. Cell(new, pos, i, len) = new[k]
      BY <3>1 DEF Cell
    <3>3. new[k] = c
      BY <1>0, <1>1
    <3> QED
      BY <1>3, <2>1, <2>2, <3>2, <3>3, AppendProperties
  <2>3. CASE i # n + 1
    <3>1. i \in 1 .. n
      BY <2>3
    <3>2. Cell(new, pos, i, len) = Cell(buf, pos, i, len)
      BY <1>0, <1>1, <1>5, <3>1 DEF Cell
    <3> QED
      BY <1>3, <2>1, <3>1, <3>2, AppendProperties
  <2> QED
    BY <2>2, <2>3
<1> HIDE DEF s, t
<1>7. Append(s, c) \in Seq(Nat) /\ Len(Append(s, c)) = n + 1
  BY <1>3, AppendProperties
<1>8. t = Append(s, c)
  BY <1>4, <1>6, <1>7, SeqEqual
<1> QED
  BY <1>8 DEF s, t

-----------------------------------------------------------------------------
(* The mapped queues.                                                      *)

LEMMA Shape ==
  ASSUME IInv
  PROVE  /\ TxQueue = Line \o Stored(xbuf, xpos, TxCount, XBUFLEN)
         /\ RxQueue = Stored(rbuf, rpos, RxCount, RBUFLEN)
         /\ XBUFLEN \in Nat \ {0} /\ RBUFLEN \in Nat \ {0}
         /\ xbuf \in [0 .. XBUFLEN - 1 -> Nat] /\ rbuf \in [0 .. RBUFLEN - 1 -> Nat]
         /\ xpos \in 0 .. XBUFLEN - 1 /\ rpos \in 0 .. RBUFLEN
         /\ (pc # "getc_wrap" => rpos \in 0 .. RBUFLEN - 1)
         /\ TxCount \in 0 .. XBUFLEN /\ RxCount \in 0 .. RBUFLEN
         /\ Line \in Seq(Nat) /\ sending \in Nat /\ arrived \in Nat
<1> USE SerAssumption
<1>1. TypeOK /\ Relied
  BY DEF IInv
<1>2. TxCount \in 0 .. XBUFLEN /\ RxCount \in 0 .. RBUFLEN
  BY <1>1 DEF TypeOK, Relied, TxCount, RxCount
<1>3. Line \in Seq(Nat) /\ sending \in Nat /\ arrived \in Nat
  BY <1>1 DEF TypeOK, Line
<1>4. xbuf \in [0 .. XBUFLEN - 1 -> Nat] /\ rbuf \in [0 .. RBUFLEN - 1 -> Nat]
  BY <1>1 DEF TypeOK
<1>5. pc # "getc_wrap" => rpos \in 0 .. RBUFLEN - 1
  BY <1>1 DEF TypeOK, Relied
<1>6. xpos \in 0 .. XBUFLEN - 1 /\ rpos \in 0 .. RBUFLEN
  BY <1>1 DEF TypeOK
<1> QED
  BY <1>2, <1>3, <1>4, <1>5, <1>6 DEF TxQueue, RxQueue, Line, TxCount, RxCount

\* The lengths of the queues, and that they are sequences.
LEMMA Lengths ==
  ASSUME IInv
  PROVE  /\ Stored(xbuf, xpos, TxCount, XBUFLEN) \in Seq(Nat)
         /\ TxQueue \in Seq(Nat) /\ RxQueue \in Seq(Nat)
         /\ Len(RxQueue) = RxCount
         /\ Len(wire) \in Nat /\ Len(TxQueue) \in Nat
         /\ Len(wire) + Len(TxQueue) = Sent + TxCount
<1> DEFINE q == Stored(xbuf, xpos, TxCount, XBUFLEN)
<1>1. TxCount \in Nat /\ RxCount \in Nat /\ xpos \in Nat /\ rpos \in Nat
  BY Shape
<1>2. Listed(xbuf, xpos, TxCount, XBUFLEN) /\ Listed(rbuf, rpos, RxCount, RBUFLEN)
  BY <1>1, Shape, StoredSeq
<1>3. q \in Seq(Nat) /\ Len(q) = TxCount
  BY <1>2 DEF Listed
<1> HIDE DEF q
<1>4. TxQueue = Line \o q /\ Line \in Seq(Nat)
  BY Shape DEF q
<1>5. TxQueue \in Seq(Nat) /\ Len(TxQueue) = Len(Line) + TxCount
  BY <1>3, <1>4, ConcatProperties
<1>6. RxQueue \in Seq(Nat) /\ Len(RxQueue) = RxCount
  BY <1>2, Shape DEF Listed
<1>7. Len(wire) \in Nat
  BY DEF IInv, TypeOK
<1>8. Len(Line) = (IF sending = None THEN 0 ELSE 1)
  BY DEF Line
<1>9. Len(wire) + Len(TxQueue) = Sent + TxCount
  BY <1>1, <1>5, <1>7, <1>8 DEF Sent
<1> QED
  BY <1>1, <1>3, <1>5, <1>6, <1>7, <1>8, <1>9 DEF q

\* A step that touches neither side's part of the mapping leaves the queue alone.
LEMMA TxKept ==
  ASSUME UNCHANGED <<xbuf, xpos, sending, TxCount>>
  PROVE  TxQueue' = TxQueue
  BY DEF TxQueue, TxCount, Stored

LEMMA RxKept ==
  ASSUME UNCHANGED <<rbuf, rpos, RxCount>>
  PROVE  RxQueue' = RxQueue
  BY DEF RxQueue, RxCount, Stored

\* Put, Leave, Take, Refuse and Get of SerFifo on the mapped state.
Putting ==
  /\ Len(TxQueue) < XBUFLEN + 1
  /\ TxQueue' = Append(TxQueue, Len(wire) + Len(TxQueue) + 1)
Leaving ==
  TxQueue # << >> /\ wire' = Append(wire, Head(TxQueue)) /\ TxQueue' = Tail(TxQueue)
Taking ==
  /\ Len(RxQueue) < RBUFLEN
  /\ Delivered' = Delivered + 1
  /\ RxQueue' = Append(RxQueue, Delivered')
Refusing == Len(RxQueue) = RBUFLEN /\ Delivered' = Delivered + 1 /\ RxQueue' = RxQueue
Getting ==
  RxQueue # << >> /\ got' = Append(got, Head(RxQueue)) /\ RxQueue' = Tail(RxQueue)

RxSame == UNCHANGED <<RxQueue, got, Delivered>>
TxSame == UNCHANGED <<TxQueue, wire>>

LEMMA FifoMoves ==
  /\ Putting /\ UNCHANGED wire /\ RxSame => [Fifo!Next]_Fifo!vars
  /\ Leaving /\ RxSame => [Fifo!Next]_Fifo!vars
  /\ TxSame /\ Taking /\ UNCHANGED got => [Fifo!Next]_Fifo!vars
  /\ TxSame /\ Refusing /\ UNCHANGED got => [Fifo!Next]_Fifo!vars
  /\ TxSame /\ Getting /\ UNCHANGED Delivered => [Fifo!Next]_Fifo!vars
  /\ TxSame /\ RxSame => [Fifo!Next]_Fifo!vars
<1> USE DEF Fifo!Next, Fifo!vars, Fifo!Put, Fifo!Leave, Fifo!Take, Fifo!Refuse, Fifo!Get,
            RxSame, TxSame, Delivered
<1>1. Putting /\ UNCHANGED wire /\ RxSame => [Fifo!Next]_Fifo!vars
  BY DEF Putting
<1>2. Leaving /\ RxSame => [Fifo!Next]_Fifo!vars
  BY DEF Leaving
<1>3. TxSame /\ Taking /\ UNCHANGED got => [Fifo!Next]_Fifo!vars
  BY DEF Taking
<1>4. TxSame /\ Refusing /\ UNCHANGED got => [Fifo!Next]_Fifo!vars
  BY DEF Refusing
<1>5. TxSame /\ Getting /\ UNCHANGED Delivered => [Fifo!Next]_Fifo!vars
  BY DEF Getting
<1>6. TxSame /\ RxSame => [Fifo!Next]_Fifo!vars
  OBVIOUS
<1> QED
  BY <1>1, <1>2, <1>3, <1>4, <1>5, <1>6

-----------------------------------------------------------------------------
(* The transmit side, one lemma per action that moves its queue.           *)

LEMMA LeaveLeaves == ASSUME IInv, Leave PROVE Leaving
<1> DEFINE q == Stored(xbuf, xpos, TxCount, XBUFLEN)
<1>1. /\ sending # None /\ wire' = Append(wire, sending) /\ sending' = None
      /\ UNCHANGED <<xbuf, xpos, xcnt, pc>>
  BY DEF Leave, driver, program
<1>2. q \in Seq(Nat) /\ sending \in Nat
  BY Lengths, Shape
<1>3. TxQueue = <<sending>> \o q
  BY <1>1, Shape DEF Line
<1>4. TxQueue' = << >> \o q
  BY <1>1 DEF TxQueue, TxCount, Stored
<1> HIDE DEF q
<1>5. TxQueue' = q
  BY <1>2, <1>4, ConcatEmptySeq
<1>6. <<sending>> \in Seq(Nat) /\ Len(<<sending>>) = 1 /\ <<sending>>[1] = sending
  BY <1>2
<1>7. /\ TxQueue \in Seq(Nat) /\ Len(TxQueue) = 1 + Len(q)
      /\ \A i \in 1 .. 1 + Len(q) : TxQueue[i] = IF i <= 1 THEN <<sending>>[i] ELSE q[i - 1]
  BY <1>2, <1>3, <1>6, ConcatProperties
<1>8. Len(q) \in Nat
  BY <1>2, LenProperties
<1>9. TxQueue # << >> /\ Head(TxQueue) = sending
  BY <1>6, <1>7, <1>8, EmptySeq
<1>10. Tail(TxQueue) = q
  <2>1. /\ Tail(TxQueue) \in Seq(Nat) /\ Len(Tail(TxQueue)) = Len(q)
        /\ \A i \in 1 .. Len(q) : Tail(TxQueue)[i] = TxQueue[i + 1]
    BY <1>7, <1>8, <1>9, HeadTailProperties
  <2>2. \A i \in 1 .. Len(q) : TxQueue[i + 1] = q[i]
    BY <1>7, <1>8
  <2> QED
    BY <1>2, <2>1, <2>2, SeqEqual
<1> QED
  BY <1>1, <1>5, <1>9, <1>10 DEF Leaving

\* The character the handler hands to the transmitter was the first of the buffer.
LEMMA TransmitKeeps == ASSUME IInv, ser_handler PROVE TxSame
<1>1. pc \notin Masked /\ UNCHANGED <<xbuf, wire, pc>>
  BY DEF ser_handler, program, IInv, Held
<1>2. CASE ~(TI /\ xcnt # 0)
  <2>1. UNCHANGED <<xcnt, sending, xpos>>
    BY <1>2 DEF ser_handler, Transmit
  <2> QED
    BY <1>1, <2>1, TxKept DEF TxSame, TxCount
<1>3. CASE TI /\ xcnt # 0
  <2> DEFINE q == Stored(xbuf, xpos, xcnt, XBUFLEN)
  <2>1. /\ sending = None /\ xcnt' = xcnt - 1 /\ sending' = xbuf[xpos]
        /\ xpos' = Wrap(xpos + 1, XBUFLEN)
    BY <1>3 DEF ser_handler, Transmit, IInv, Handover
  <2>2. TxCount = xcnt /\ TxCount' = xcnt - 1 /\ pc # "putc_store"
    BY <1>1, <2>1 DEF TxCount, Masked
  <2>3. xbuf[xpos] # None
    BY <1>3, <2>2, BufferedIsChar
  <2>4. /\ xcnt \in Nat \ {0} /\ XBUFLEN \in Nat \ {0} /\ xpos \in 0 .. XBUFLEN - 1
        /\ xbuf \in [0 .. XBUFLEN - 1 -> Nat] /\ q \in Seq(Nat)
        /\ xpos + 1 \in 0 .. XBUFLEN /\ xcnt - 1 \in 0 .. XBUFLEN
    <3>1. /\ TxCount \in 0 .. XBUFLEN /\ XBUFLEN \in Nat \ {0} /\ xpos \in 0 .. XBUFLEN - 1
          /\ xbuf \in [0 .. XBUFLEN - 1 -> Nat]
      BY Shape
    <3>2. q \in Seq(Nat)
      BY <2>2, Lengths
    <3>3. xcnt \in Nat \ {0} /\ xpos + 1 \in 0 .. XBUFLEN /\ xcnt - 1 \in 0 .. XBUFLEN
      BY <1>3, <2>2, <3>1
    <3> QED
      BY <3>1, <3>2, <3>3
  <2>5. Head(q) = xbuf[xpos] /\ Tail(q) = Stored(xbuf, xpos + 1, xcnt - 1, XBUFLEN) /\ q # << >>
    <3>1. /\ XBUFLEN \in Nat \ {0} /\ xbuf \in [0 .. XBUFLEN - 1 -> Nat]
          /\ xpos \in 0 .. XBUFLEN - 1 /\ xcnt \in Nat \ {0}
      BY <2>4
    <3> QED
      BY <3>1, StoredRead
  <2>6. Stored(xbuf, xpos', xcnt - 1, XBUFLEN) = Stored(xbuf, xpos + 1, xcnt - 1, XBUFLEN)
    BY <2>1, <2>4, StoredWrap
  <2>7. TxQueue = << >> \o q
    BY <2>1, <2>2, Shape DEF Line
  <2>8. TxQueue' = <<xbuf[xpos]>> \o Stored(xbuf, xpos', xcnt - 1, XBUFLEN)
    BY <1>1, <2>1, <2>2, <2>3 DEF TxQueue, Stored
  <2> HIDE DEF q
  <2>9. TxQueue' = <<Head(q)>> \o Tail(q)
    BY <2>5, <2>6, <2>8
  <2>10. <<Head(q)>> \o Tail(q) = q
    BY <2>4, <2>5
  <2>11. << >> \o q = q
    BY <2>4, ConcatEmptySeq
  <2> QED
    BY <1>1, <2>7, <2>9, <2>10, <2>11 DEF TxSame
<1> QED
  BY <1>2, <1>3

LEMMA StorePuts == ASSUME IInv, FitsByte, PutcStore PROVE Putting /\ UNCHANGED wire
<1> DEFINE c == xcnt - 1
           q == Stored(xbuf, xpos, c, XBUFLEN)
<1>1. /\ pc = "putc_store" /\ pc' = "unmask"
      /\ xbuf' = [xbuf EXCEPT ![Index(xpos, c, XBUFLEN)] = called]
      /\ UNCHANGED <<xcnt, xpos, sending, wire>>
  BY DEF PutcStore, At, Goto, uart
<1>2. /\ XBUFLEN \in Nat \ {0} /\ xbuf \in [0 .. XBUFLEN - 1 -> Nat] /\ xpos \in 0 .. XBUFLEN - 1
      /\ xcnt \in Nat /\ xcnt > 0 /\ xcnt <= XBUFLEN /\ c \in 0 .. XBUFLEN - 1 /\ TxCount = c
      /\ called \in Nat /\ TxCount' = c + 1 /\ c + 1 = xcnt
  <2>1. XBUFLEN \in Nat \ {0} /\ xbuf \in [0 .. XBUFLEN - 1 -> Nat] /\ xpos \in 0 .. XBUFLEN - 1
    BY Shape
  <2>2. xcnt \in Nat /\ xcnt > 0 /\ xcnt <= XBUFLEN /\ called \in Nat
    BY <1>1, SerAssumption DEF IInv, TypeOK, Relied
  <2>3. TxCount = c /\ TxCount' = xcnt
    BY <1>1 DEF TxCount
  <2> QED
    BY <2>1, <2>2, <2>3
<1>3. Index(xpos, c, XBUFLEN) = (xpos + c) % XBUFLEN
  <2>1. xpos + c \in Nat /\ xpos + c < Byte /\ Byte \in Nat \ {0}
    BY <1>2, SerAssumption DEF FitsByte
  <2>2. (xpos + c) % Byte = xpos + c
    BY <2>1, ModSmall
  <2> QED
    BY <2>2 DEF Index
<1>4. Stored(xbuf', xpos, c + 1, XBUFLEN) = Append(q, called)
  <2>1. Written(xbuf', xbuf, xpos, c, XBUFLEN, called)
    BY <1>1, <1>3 DEF Written
  <2>2. /\ XBUFLEN \in Nat \ {0} /\ xbuf \in [0 .. XBUFLEN - 1 -> Nat]
        /\ xpos \in 0 .. XBUFLEN - 1 /\ c \in 0 .. XBUFLEN - 1 /\ called \in Nat
    BY <1>2
  <2> HIDE DEF c
  <2>3. \A new : Written(new, xbuf, xpos, c, XBUFLEN, called)
                => Stored(new, xpos, c + 1, XBUFLEN)
                   = Append(Stored(xbuf, xpos, c, XBUFLEN), called)
    BY <2>2, StoredWrite
  <2> QED
    BY <2>1, <2>3
<1>5. TxQueue = Line \o q /\ Line \in Seq(Nat) /\ q \in Seq(Nat)
  BY <1>2, Shape, Lengths
<1>6. TxQueue' = Line \o Append(q, called)
  <2>1. Stored(xbuf, xpos, xcnt, XBUFLEN)' = Stored(xbuf', xpos, xcnt, XBUFLEN)
    BY <1>1 DEF Stored
  <2>2. Stored(xbuf, xpos, xcnt, XBUFLEN)' = Append(q, called)
    BY <1>2, <1>4, <2>1
  <2> HIDE DEF q
  <2> QED
    BY <1>1, <2>2 DEF TxQueue, Line
<1>7. Line \o Append(q, called) = Append(Line \o q, called)
  <2> HIDE DEF q
  <2>1. called \in Nat /\ <<called>> \in Seq(Nat)
    BY <1>2
  <2>2. Append(q, called) = q \o <<called>>
    BY <1>5, <2>1, AppendIsConcat
  <2>3. Line \o q \in Seq(Nat)
    BY <1>5, ConcatProperties
  <2>4. Append(Line \o q, called) = (Line \o q) \o <<called>>
    BY <2>1, <2>3, AppendIsConcat
  <2>5. (Line \o q) \o <<called>> = Line \o (q \o <<called>>)
    BY <1>5, <2>1, ConcatAssociative
  <2> QED
    BY <2>2, <2>4, <2>5
<1>8. called = Len(wire) + Len(TxQueue) + 1
  BY <1>1, <1>2, Lengths DEF IInv, Counted, Pending, Sent
<1>9. Len(TxQueue) < XBUFLEN + 1
  <2>1. Len(wire) + Len(TxQueue) = Sent + TxCount /\ Len(wire) \in Nat /\ Len(TxQueue) \in Nat
    BY Lengths
  <2>2. Sent <= Len(wire) + 1
    BY <2>1 DEF Sent
  <2>3. TxCount < XBUFLEN /\ TxCount \in Nat /\ XBUFLEN \in Nat /\ Sent \in Nat
    BY <1>2, <2>1 DEF Sent
  <2> QED
    BY <2>1, <2>2, <2>3
<1> QED
  BY <1>1, <1>5, <1>6, <1>7, <1>8, <1>9 DEF Putting

LEMMA SendPuts == ASSUME IInv, PutcSend PROVE Putting /\ UNCHANGED wire
<1>1. /\ pc = "putc_send" /\ pc' = "putc_busy" /\ sending' = called
      /\ UNCHANGED <<xbuf, xcnt, xpos, wire>>
  BY DEF PutcSend, At, Goto, driver
<1>2. sending = None /\ xcnt = 0 /\ TxCount = 0 /\ TxCount' = 0
  BY <1>1 DEF IInv, Relied, Handover, TxCount
<1>3. Len(wire) \in Nat /\ Len(TxQueue) \in Nat /\ Len(TxQueue) = 0 /\ TxQueue \in Seq(Nat)
  BY <1>2, Lengths DEF Sent
<1>4. called = Len(wire) + Len(TxQueue) + 1
  BY <1>1, <1>2, <1>3 DEF IInv, Counted, Pending, Sent
<1>5. Stored(xbuf, xpos, 0, XBUFLEN) = << >>
  <2>1. 0 \in Nat /\ xpos \in Nat
    BY Shape
  <2>2. Listed(xbuf, xpos, 0, XBUFLEN)
    BY <2>1, Shape, StoredSeq
  <2> QED
    BY <2>2, EmptySeq DEF Listed
<1>6. TxQueue = << >>
  BY <1>3, EmptySeq
<1>7. TxQueue' = <<called>> \o << >>
  <2>1. sending' # None
    BY <1>1, <1>3, <1>4 DEF None
  <2>2. Stored(xbuf, xpos, 0, XBUFLEN)' = << >>
    BY <1>1, <1>5 DEF Stored
  <2> QED
    BY <1>1, <1>2, <2>1, <2>2 DEF TxQueue, Stored
<1>8. <<called>> \o << >> = Append(TxQueue, called)
  BY <1>6
<1>9. Len(TxQueue) < XBUFLEN + 1
  BY <1>3, Shape
<1> QED
  BY <1>1, <1>4, <1>7, <1>8, <1>9 DEF Putting

-----------------------------------------------------------------------------
(* The receive side.                                                       *)

\* The handler stores the character that has arrived, or drops it if the
\* buffer is full.
LEMMA ReceiveTakes ==
  ASSUME IInv, FitsRx, ser_handler
  PROVE  UNCHANGED got /\ (Taking \/ Refusing \/ UNCHANGED <<RxQueue, Delivered>>)
<1>1. /\ pc \notin Masked /\ pc' = pc /\ RI' = FALSE /\ arrived' = arrived /\ rpos' = rpos
      /\ got' = got
  BY DEF ser_handler, Receive, program, IInv, Held
<1>2. RxCount = rcnt /\ RxCount' = rcnt' /\ pc # "getc_wrap"
  BY <1>1 DEF RxCount, Masked
<1>3. /\ RBUFLEN \in Nat \ {0} /\ rbuf \in [0 .. RBUFLEN - 1 -> Nat]
      /\ rpos \in 0 .. RBUFLEN - 1 /\ rcnt \in 0 .. RBUFLEN /\ arrived \in Nat
  BY <1>2, Shape
<1>4. CASE ~(RI /\ rcnt < RBUFLEN)
  <2>1. rbuf' = rbuf /\ rcnt' = rcnt
    BY <1>4 DEF ser_handler, Receive
  <2>2. RxQueue' = RxQueue
    BY <1>1, <1>2, <2>1, RxKept
  <2>3. CASE ~RI
    BY <1>1, <2>2, <2>3 DEF Delivered
  <2>4. CASE RI
    <3>1. Len(RxQueue) = RBUFLEN
      BY <1>2, <1>3, <1>4, <2>4, Lengths
    <3> QED
      BY <1>1, <1>3, <2>2, <2>4, <3>1 DEF Refusing, Delivered
  <2> QED
    BY <2>3, <2>4
<1>5. CASE RI /\ rcnt < RBUFLEN
  <2>1. rcnt \in 0 .. RBUFLEN - 1
    BY <1>3, <1>5
  <2>2. Index(rpos, rcnt, RBUFLEN) = (rpos + rcnt) % RBUFLEN
    <3>1. rpos + rcnt \in Nat /\ rpos + rcnt < Byte /\ Byte \in Nat \ {0}
      BY <1>3, <2>1, SerAssumption DEF FitsRx
    <3>2. (rpos + rcnt) % Byte = rpos + rcnt
      BY <3>1, ModSmall
    <3> QED
      BY <3>2 DEF Index
  <2>3. Written(rbuf', rbuf, rpos, rcnt, RBUFLEN, arrived) /\ rcnt' = rcnt + 1
    BY <1>5, <2>2 DEF ser_handler, Receive, Written
  <2>4. \A new : Written(new, rbuf, rpos, rcnt, RBUFLEN, arrived)
                => Stored(new, rpos, rcnt + 1, RBUFLEN)
                   = Append(Stored(rbuf, rpos, rcnt, RBUFLEN), arrived)
    BY <1>3, <2>1, StoredWrite
  <2>5. RxQueue' = Stored(rbuf', rpos, rcnt + 1, RBUFLEN)
    BY <1>1, <1>2, <2>3 DEF RxQueue, RxCount, Stored
  <2>6. RxQueue' = Append(RxQueue, arrived)
    BY <1>2, <2>3, <2>4, <2>5, Shape
  <2>7. Len(RxQueue) < RBUFLEN
    BY <1>2, <1>5, Lengths
  <2>8. Delivered' = arrived /\ Delivered' = Delivered + 1
    BY <1>1, <1>3, <1>5 DEF Delivered
  <2> QED
    BY <1>1, <2>6, <2>7, <2>8 DEF Taking
<1> QED
  BY <1>4, <1>5

LEMMA ReadGets == ASSUME IInv, GetcRead PROVE Getting
<1>1. /\ pc = "getc_read" /\ pc' = "getc_wrap" /\ got' = Append(got, rbuf[rpos])
      /\ rpos' = rpos + 1 /\ UNCHANGED <<rbuf, rcnt>>
  BY DEF GetcRead, At, Goto
<1>2. RxCount = rcnt + 1 /\ RxCount' = rcnt
  BY <1>1 DEF RxCount
<1>3. /\ RBUFLEN \in Nat \ {0} /\ rbuf \in [0 .. RBUFLEN - 1 -> Nat]
      /\ rpos \in 0 .. RBUFLEN - 1
  BY <1>1, Shape
<1>4. rcnt + 1 \in Nat \ {0} /\ (rcnt + 1) - 1 = rcnt
  BY DEF IInv, TypeOK
<1> DEFINE n == rcnt + 1
           q == Stored(rbuf, rpos, n, RBUFLEN)
<1>5. q # << >> /\ Head(q) = rbuf[rpos] /\ Tail(q) = Stored(rbuf, rpos + 1, n - 1, RBUFLEN)
  <2>1. n \in Nat \ {0}
    BY <1>4
  <2> HIDE DEF n
  <2> QED
    BY <1>3, <2>1, StoredRead
<1>6. RxQueue = q
  BY <1>2, Shape
<1>7. RxQueue' = Stored(rbuf, rpos + 1, rcnt, RBUFLEN)
  BY <1>1, <1>2 DEF RxQueue, RxCount, Stored
<1>8. Tail(q) = Stored(rbuf, rpos + 1, rcnt, RBUFLEN)
  BY <1>4, <1>5
<1> HIDE DEF q
<1> QED
  BY <1>1, <1>5, <1>6, <1>7, <1>8 DEF Getting

LEMMA WrapKeeps == ASSUME IInv, GetcWrap PROVE RxQueue' = RxQueue
<1>1. /\ pc = "getc_wrap" /\ pc' = "unmask" /\ rpos' = Wrap(rpos, RBUFLEN)
      /\ UNCHANGED <<rbuf, rcnt>>
  BY DEF GetcWrap, At, Goto
<1>2. RxCount = rcnt /\ RxCount' = rcnt
  BY <1>1 DEF RxCount
<1>3. /\ RBUFLEN \in Nat \ {0} /\ rbuf \in [0 .. RBUFLEN - 1 -> Nat]
      /\ rpos \in 0 .. RBUFLEN /\ rcnt \in 0 .. RBUFLEN
  BY <1>2, Shape
<1>4. Stored(rbuf, Wrap(rpos, RBUFLEN), rcnt, RBUFLEN) = Stored(rbuf, rpos, rcnt, RBUFLEN)
  BY <1>3, StoredWrap
<1>5. RxQueue' = Stored(rbuf, Wrap(rpos, RBUFLEN), rcnt, RBUFLEN)
  BY <1>1, <1>2 DEF RxQueue, RxCount, Stored
<1> QED
  BY <1>2, <1>4, <1>5, Shape

-----------------------------------------------------------------------------
\* Every step of the driver, the program or the UART is one of the two FIFOs, or
\* none.
LEMMA FifoStep == ASSUME IInv, FitsByte, FitsRx, [Next]_vars PROVE [Fifo!Next]_Fifo!vars
<1> DEFINE Rest ==
      \/ Arrive \/ CallPutc \/ PutcRoom \/ PutcMask \/ PutcTest \/ PutcCount \/ PutcBusy
      \/ GetcReady \/ GetcMask \/ GetcCount \/ Unmask \/ UNCHANGED vars
<1>1. CASE Leave
  <2>1. UNCHANGED <<rbuf, rpos, rcnt, pc, got, RI, arrived>>
    BY <1>1 DEF Leave, driver, program
  <2> QED
    BY <1>1, <2>1, LeaveLeaves, RxKept, FifoMoves DEF RxSame, RxCount, Delivered
<1>2. CASE ser_handler
  <2>1. TxSame /\ UNCHANGED got /\ (Taking \/ Refusing \/ UNCHANGED <<RxQueue, Delivered>>)
    BY <1>2, TransmitKeeps, ReceiveTakes
  <2> QED
    BY <2>1, FifoMoves DEF RxSame
<1>3. CASE PutcStore
  <2>1. UNCHANGED <<rbuf, rpos, rcnt, got, RI, arrived>> /\ RxCount' = RxCount
    BY <1>3 DEF PutcStore, At, Goto, uart, RxCount
  <2> QED
    BY <1>3, <2>1, StorePuts, RxKept, FifoMoves DEF RxSame, Delivered
<1>4. CASE PutcSend
  <2>1. UNCHANGED <<rbuf, rpos, rcnt, got, RI, arrived>> /\ RxCount' = RxCount
    BY <1>4 DEF PutcSend, At, Goto, driver, RxCount
  <2> QED
    BY <1>4, <2>1, SendPuts, RxKept, FifoMoves DEF RxSame, Delivered
<1>5. CASE GetcRead
  <2>1. UNCHANGED <<xbuf, xpos, xcnt, sending, wire, RI, arrived>> /\ TxCount' = TxCount
    BY <1>5 DEF GetcRead, At, Goto, uart, TxCount
  <2> QED
    BY <1>5, <2>1, ReadGets, TxKept, FifoMoves DEF TxSame, Delivered
<1>6. CASE GetcWrap
  <2>1. /\ UNCHANGED <<xbuf, xpos, xcnt, sending, wire, RI, arrived, got>>
        /\ TxCount' = TxCount
    BY <1>6 DEF GetcWrap, At, Goto, uart, TxCount
  <2> QED
    BY <1>6, <2>1, WrapKeeps, TxKept, FifoMoves DEF TxSame, RxSame, Delivered
<1>7. CASE Rest
  <2>1. UNCHANGED <<rbuf, xbuf, rpos, xpos, sending, wire, got>>
    BY <1>7 DEF Arrive, CallPutc, PutcRoom, PutcMask, PutcTest, PutcCount, PutcBusy, GetcReady,
      GetcMask, GetcCount, Unmask, vars, driver, uart, program
  <2>2. xcnt \in Nat /\ rcnt \in Nat /\ arrived \in Nat
    BY SerAssumption DEF IInv, TypeOK
  <2>3. TxCount' = TxCount /\ RxCount' = RxCount /\ Delivered' = Delivered
    <3>1. CASE Arrive
      BY <2>2, <3>1 DEF Arrive, driver, program, TxCount, RxCount, Delivered
    <3>2. CASE PutcCount
      BY <2>2, <3>2 DEF PutcCount, At, Goto, uart, TxCount, RxCount, Delivered
    <3>3. CASE GetcCount
      BY <2>2, <3>3 DEF GetcCount, At, Goto, uart, TxCount, RxCount, Delivered
    <3>4. CASE ~(Arrive \/ PutcCount \/ GetcCount)
      BY <1>7, <3>4 DEF CallPutc, PutcRoom, PutcMask, PutcTest, PutcBusy, GetcReady, GetcMask,
        Unmask, vars, driver, uart, At, Goto, TxCount, RxCount, Delivered
    <3> QED
      BY <3>1, <3>2, <3>3, <3>4
  <2> QED
    BY <2>1, <2>3, TxKept, RxKept, FifoMoves DEF TxSame, RxSame
<1> QED
  BY <1>1, <1>2, <1>3, <1>4, <1>5, <1>6, <1>7 DEF Next, Call

\* Driver, program and UART together are a pair of bounded FIFOs in both
\* directions, for every size whose position and count add up within a byte.
THEOREM SerFifoKept == Spec => (FitsByte /\ FitsRx => FifoKept)
<1> DEFINE Sound == ~FitsByte \/ IInv
           Fits == FitsByte /\ FitsRx
<1>1. Init => Fifo!Init
  <2> SUFFICES ASSUME Init PROVE Fifo!Init
    OBVIOUS
  <2>1. IInv
    BY InitIInv
  <2>2. RxCount = 0 /\ TxCount = 0 /\ Sent = 0 /\ Len(wire) = 0 /\ wire = << >> /\ got = << >>
        /\ Delivered = 0
    BY DEF Init, RxCount, TxCount, Sent, None, Delivered
  <2>3. TxQueue \in Seq(Nat) /\ RxQueue \in Seq(Nat) /\ Len(TxQueue) = 0 /\ Len(RxQueue) = 0
    BY <2>1, <2>2, Lengths
  <2> QED
    BY <2>2, <2>3, EmptySeq DEF Fifo!Init, Delivered
<1>2. Sound /\ Fits /\ [Next]_vars => [Fifo!Next]_Fifo!vars
  BY FifoStep
<1>3. Fits => Fits'
  BY DEF FitsByte, FitsRx
<1>4. Spec => []Sound
  BY SerInvariant
<1> HIDE DEF Sound, Fits
<1>5. Spec => (Fits => Fifo!Spec)
  BY <1>1, <1>2, <1>3, <1>4, PTL DEF Spec, Fifo!Spec
<1> QED
  BY <1>5 DEF Fits, FifoKept

=============================================================================
