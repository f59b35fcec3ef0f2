CONSTANTS
  Daemons = {d1, d2}
  Commands = {c1, c2, c3}
  MaxPolls = 2
  MaxCrashes = 1
  None = None
  Empty = Empty
  Garbled = Garbled
SPECIFICATION Spec
INVARIANTS
  TypeOK
  FilesNameTheDaemon
  CleanExit
  NoConnectionIsCut
PROPERTIES
  StopStops
  CommandsReturn
