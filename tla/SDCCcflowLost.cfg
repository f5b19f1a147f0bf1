SPECIFICATION Spec
CONSTANTS
  N = 5
  Ops = {"PLAIN","GOTO","IFX","RETURN"}
  MaxChanges = 2
  FoldBeforeLost = TRUE
INVARIANTS NoPathExact
CHECK_DEADLOCK FALSE
