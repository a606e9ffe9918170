SPECIFICATION Spec
CONSTANTS
  u1 = u1
  u2 = u2
  a = a
  b = b
  t1 = t1
  t2 = t2
  s1 = s1
  s2 = s2
  Users = {u1}
  URLs = {a, b}
  Tags = {t1, t2}
  Slots = {s1, s2}
  Requests <- CrossedRequests
  MaxConns = 2
PROPERTIES
  SavedMeansStored
CHECK_DEADLOCK FALSE
