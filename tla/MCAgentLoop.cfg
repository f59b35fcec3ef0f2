CONSTANTS
  Root = root
  Children = {c1}
  MaxCalls = 2
  MaxRounds = 1
  MaxLog = 5
  MaxTodos = 2
  MaxBatch = 2
  Lists <- MCLists
SPECIFICATION Spec
INVARIANTS
  TypeOK
  RequestsArePaired
  TodoIdsAreStable
  SubagentsAreAwaited
PROPERTIES
  TurnIsAtomic
  FinalizerStops
