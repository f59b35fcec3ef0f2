CONSTANTS
  Ops = {g1, g2, g3, g4}
  Sessions = {s1, s2}
  None = None
SPECIFICATION Spec
SYMMETRY Symmetry
PROPERTIES
  MemoryMerges
