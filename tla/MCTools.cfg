SPECIFICATION Spec
CONSTANTS
  Bytes = {x, nl}
  Newline = nl
  HeadCap = 2
  TailCap = 3
  MaxTimeout = 3
  DefaultTimeout = 2
  MaxWrite = 4
  MaxTotal = 8
  FileLines <- Letters
  Calls = {c1, c2}
  Requests <- MCRequests
  Files <- SomeFiles
  ReadLimit = 2
  Nobody = Nobody
  Trees <- MCTrees
  Queries <- MCQueries
  DefaultHeadLimit = 2
  DefaultPathsMaxResults = 2
  ListLimit = 3
  MaxMissed = 1
INVARIANTS
  OutputIsFaithful
  CallsAreAtomic
  SearchIsExact
PROPERTIES
  RunReturns
CHECK_DEADLOCK FALSE
