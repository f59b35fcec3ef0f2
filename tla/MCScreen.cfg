CONSTANTS
  Root = root
  Children = {c1}
  MaxCalls = 2
  MaxRounds = 1
  MaxLog = 3
  MaxTodos = 2
  MaxBatch = 2
  Lists <- PlainLists
SPECIFICATION Spec
INVARIANTS
  ScreenIsCurrent
