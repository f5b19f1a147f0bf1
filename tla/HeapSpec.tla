------------------------------ MODULE HeapSpec ------------------------------
(***************************************************************************)
(* What the heap functions promise the program: the regions it holds lie   *)
(* in the heap, no two of them share a byte, and the contents of each are  *)
(* what the program put there, until the program itself gives it up.       *)
(***************************************************************************)
EXTENDS Integers

CONSTANTS
  Heap,     \* the addresses of the heap
  P,        \* the distance from a block's name to its first user byte
  Sizes     \* the sizes a region can have

VARIABLE held  \* the intact offsets of every region the program holds

Region(b, n) == {b + P + i : i \in 0 .. n - 1}

\* Region b of n bytes is in the heap and clear of those that stay.
Fits(b, n, staying) ==
  /\ Region(b, n) \subseteq Heap
  /\ \A c \in staying : {c + P + i : i \in held[c]} \cap Region(b, n) = {}

Hold(b, n, staying) ==
  held' = [c \in staying \cup {b} |-> IF c = b THEN 0 .. n - 1 ELSE held[c]]

Init == held = [b \in {} |-> {}]

Grab(b, n) ==
  /\ b \notin DOMAIN held
  /\ Fits(b, n, DOMAIN held)
  /\ Hold(b, n, DOMAIN held)

Release(b) == held' = [c \in DOMAIN held \ {b} |-> held[c]]

\* realloc in place; the region may start lower than it did.
Resize(b, dst, n) ==
  LET staying == DOMAIN held \ {b}
  IN /\ dst \notin staying
     /\ Fits(dst, n, staying)
     /\ Hold(dst, n, staying)

Next ==
  \/ \E b \in Heap, n \in Sizes : Grab(b, n)
  \/ \E b \in DOMAIN held : Release(b)
  \/ \E b \in DOMAIN held, dst \in Heap, n \in Sizes : Resize(b, dst, n)

Spec == Init /\ [][Next]_held

=============================================================================
