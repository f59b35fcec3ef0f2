CONSTANTS
  Ops = {g1, g2, g3}
  Sessions = {s1}
  None = None
SPECIFICATION FairSpec
PROPERTIES
  CancelledTurnsEnd
  ShutdownDrains
  RequestsReturn
