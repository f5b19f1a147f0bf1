SPECIFICATION Spec
CONSTANTS
  N = 5
  Ops = {"PLAIN","GOTO","IFX","RETURN"}
  MaxChanges = 2
  FoldBeforeLost = FALSE
INVARIANTS NoPathExact DominatorsSound DominatorsExact
PROPERTY ControlFlowEnds
CHECK_DEADLOCK FALSE
