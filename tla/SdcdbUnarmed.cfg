CONSTANTS
  Functions = {"main", "f"}
  Main = "main"
  Body <- MCBody
  Entry <- MCEntry
  Exit <- MCExit
  Points <- MCPoints
  None = "none"
  MaxStack = 1
  Char = 2
  MaxBp = 2
SPECIFICATION Spec
INVARIANT UserBreakpointArmed
