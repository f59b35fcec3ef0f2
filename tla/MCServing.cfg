CONSTANTS
  Daemons = {d1, d2}
  Commands = {c1, c2, c3}
  MaxPolls = 2
  MaxCrashes = 0
  None = None
  Empty = Empty
  Garbled = Garbled
SPECIFICATION Spec
SYMMETRY Symmetry
INVARIANTS
  ServingIsRunning
