SPECIFICATION HFairSpec
CONSTANTS
  u1 = u1
  u2 = u2
  a = a
  b = b
  t1 = t1
  t2 = t2
  s1 = s1
  s2 = s2
  Users = {u1, u2}
  URLs = {a}
  Tags = {t1}
  Slots = {s1, s2}
  Requests <- SharedRequests
  MaxConns = 2
INVARIANTS
  TypeOK
  UniqueUrl
  OrphansExplained
  JamIsExhaustion
PROPERTIES
  AnsweredUnlessExhausted
  ImplementsTracking
CHECK_DEADLOCK FALSE
