SPECIFICATION HSpec
CONSTANTS
  a = a
  t1 = t1
  t2 = t2
  f1 = f1
  s1 = s1
  s2 = s2
  Chats = {1, 2}
  RowIDs = {1, 2}
  URLs = {a}
  Tags = {t1, t2}
  Filters = {f1}
  Slots = {s1, s2}
  Requests <- SharedRequests
  MaxConns = 3
INVARIANTS
  TypeOK
  UniqueUrl
  NoneWaitsForItself
  JamIsThePool
PROPERTIES
  ImplementsTracking
SYMMETRY SlotSymmetry
CHECK_DEADLOCK FALSE
