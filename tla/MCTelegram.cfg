SPECIFICATION Spec
CONSTANTS
  Users = {u1, u2}
  Chats = {c1, c2}
  Codes = {k1, k2}
  Msgs = {m1, m2, m3}
  MaxChunks = 2
  MaxCrashes = 1
  None = None
SYMMETRY Symmetry
INVARIANTS
  TypeOK
  ApprovalIsDurable
  HeldCodesWork
  ChatHasOneSession
  ResultIsShown
CHECK_DEADLOCK FALSE
