\* One worker, two answers on StackOverflow, one row.
SPECIFICATION Spec
CONSTANTS
  i1 = i1
  i2 = i2
  w1 = w1
  w2 = w2
  Sources = {"stackoverflow"}
  Items = {i1, i2}
  PageSize = 2
  Chats = {"chat"}
  Workers = {w1}
  MaxTime = 3
  MaxRow = 1
INVARIANT
  RepeatsExplained
CHECK_DEADLOCK FALSE
