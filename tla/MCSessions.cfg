CONSTANTS
  Ops = {g1, g2, g3, g4}
  Sessions = {s1, s2, s3}
  None = None
SPECIFICATION Spec
SYMMETRY Symmetry
INVARIANTS
  TypeOK
  StableView
  TurnsDurable
  CancelHitsHolder
  CancelIsAsked
  ResetIsFresh
PROPERTIES
  ImplementsLog
