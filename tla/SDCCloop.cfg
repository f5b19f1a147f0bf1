SPECIFICATION Spec
CONSTANTS
  N = 7
  Ops = {"GOTO", "IFX"}
  MaxJumps = 4
  MaxFolds = 1
  JumpsBehind = FALSE
INVARIANTS
  RegionsNested
  MovedBefore
  MovedExecutes
CHECK_DEADLOCK FALSE
