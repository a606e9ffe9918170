\* Four workers and up to three links: the page splits into fewer chunks.
SPECIFICATION FairSpec
CONSTANTS
  p1 = p1
  Batch = 3
  Workers = 4
  MaxID = 3
  Passes = {p1}
PROPERTY
  PassReturns
CHECK_DEADLOCK FALSE
