\* The main program with four routines on top of it: both interrupt levels, each in
\* front of, in or behind critical code, or critical code that is nested.
CONSTANT MaxFrames = 5
SPECIFICATION Spec
INVARIANTS
  CriticalExclusive
  EnableRestored
  BitReturned
