\* Every kind of instruction.  The timer overflows with every tick; the other
\* sources raise their requests whenever they like.
CONSTANTS
  it_sources <- MCSources
  SelfClearing = {"external", "timer"}
  External = {"external"}
  Timer = "timer"
  Period = 1
  Kinds = {"ie_byte", "ie_bit", "ip", "request", "idle", "power_down"}
SPECIFICATION LongServices
INVARIANTS
  TypeOK
  NestedByLevel
PROPERTIES
  RequestsKept
  MainGetsOn
  HighServed
  IdleEnds
