--------------------------- MODULE MCSdcdbBreak ----------------------------
(* A main with one line between entry and exit, and an f that is one RET;  *)
(* at address 0 there is start-up code, which belongs to no function.      *)
EXTENDS SdcdbBreak

MCBody == [main |-> {1, 2, 3}, f |-> {11}]
MCEntry == [main |-> 1, f |-> 11]
MCExit == [main |-> 3, f |-> 11]
MCPoints == [main |-> {2}, f |-> {11}]

=============================================================================
