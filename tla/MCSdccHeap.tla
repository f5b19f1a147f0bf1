----------------------------- MODULE MCSdccHeap -----------------------------
(* SdccHeap on a heap of 15 or 19 bytes with two-byte pointers.             *)
EXTENDS SdccHeap

MCRequests == {0, 1, 3, 5, 30}
MCElements == {1, 11}

=============================================================================
