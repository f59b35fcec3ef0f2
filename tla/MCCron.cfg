SPECIFICATION Spec
CONSTANTS
  Names = {1, 2}
  Versions = {plain, odd, blend}
  Authored = {plain, odd}
  Timed = {odd}
  Invalid = {odd}
  Ops = {1, 2}
  Runs = {1, 2}
  MaxStarts = 2
  MaxEdits = 1
  MaxNow = 1
  None = None
INVARIANTS
  TypeOK
  EntriesMatchFiles
  ResultsAreKept
PROPERTIES
  CommandsEnd
CHECK_DEADLOCK FALSE
