\* A program that waits for its timer in idle mode.
CONSTANTS
  it_sources <- MCSources
  SelfClearing = {"external", "timer"}
  External = {"external"}
  Timer = "timer"
  Period = 5
  Kinds = {"ie_bit", "idle"}
SPECIFICATION FairSpec
PROPERTY TimerEndsIdle
