\* A link of either source: two workers, two items, of which an answer may leave one out,
\* two rows in turn.
SPECIFICATION Spec
CONSTANTS
  i1 = i1
  i2 = i2
  w1 = w1
  w2 = w2
  Sources = {"github", "stackoverflow"}
  Items = {i1, i2}
  PageSize = 2
  Chats = {"chat"}
  Workers = {w1, w2}
  MaxTime = 4
  MaxRow = 2
SYMMETRY Alike
INVARIANTS
  TypeOK
  NoneStranded
  RepeatsAccountedFor
CHECK_DEADLOCK FALSE
