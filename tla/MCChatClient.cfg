SPECIFICATION Spec
CONSTANTS
  Inputs <- MCInputs
  Empty = ""
  MatchCount <- MCMatchCount
  MaxToolCalls = 2
  MaxTurns = 2
  MaxEvents = 4
  MaxEscs = 1
  MaxWire = 1
INVARIANTS
  TypeOK
  ScreenShowsTurn
  EscHitsItsTurn
PROPERTIES
  TurnsEnd
  QuitCloses
CHECK_DEADLOCK FALSE
