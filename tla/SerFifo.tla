------------------------------ MODULE SerFifo ------------------------------
(***************************************************************************)
(* What a buffered serial driver promises: the characters passed to it     *)
(* leave on the line in the order they were passed, none lost and none     *)
(* twice; the characters it took from the line come back in order; and it  *)
(* refuses a character from the line only when its buffer is full.         *)
(***************************************************************************)
EXTENDS Naturals, Sequences

CONSTANTS
  TxRoom,  \* characters that wait for the line, the one on it included
  RxRoom   \* characters that wait for the program

VARIABLES
  tx,    \* the characters on their way out, first the one on the line
  wire,  \* the characters that have left
  rx,    \* the characters received and not yet read
  out,   \* the characters read
  in     \* the number of characters the line has delivered

vars == <<tx, wire, rx, out, in>>

Init == tx = << >> /\ wire = << >> /\ rx = << >> /\ out = << >> /\ in = 0

\* Characters are numbered in the order of the calls.
Put ==
  /\ Len(tx) < TxRoom
  /\ tx' = Append(tx, Len(wire) + Len(tx) + 1)
  /\ UNCHANGED <<wire, rx, out, in>>

Leave ==
  /\ tx # << >>
  /\ wire' = Append(wire, Head(tx))
  /\ tx' = Tail(tx)
  /\ UNCHANGED <<rx, out, in>>

Take ==
  /\ Len(rx) < RxRoom
  /\ in' = in + 1
  /\ rx' = Append(rx, in')
  /\ UNCHANGED <<tx, wire, out>>

Refuse ==
  /\ Len(rx) = RxRoom
  /\ in' = in + 1
  /\ UNCHANGED <<tx, wire, rx, out>>

Get ==
  /\ rx # << >>
  /\ out' = Append(out, Head(rx))
  /\ rx' = Tail(rx)
  /\ UNCHANGED <<tx, wire, in>>

Next == Put \/ Leave \/ Take \/ Refuse \/ Get

Spec == Init /\ [][Next]_vars

=============================================================================
