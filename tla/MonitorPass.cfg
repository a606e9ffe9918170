\* Two workers: pages of three (chunks of 2 and 1), of two (1 and 1) and of one
\* link (one chunk for two workers), over four ids.
SPECIFICATION FairSpec
CONSTANTS
  p1 = p1
  Batch = 3
  Workers = 2
  MaxID = 4
  Passes = {p1}
INVARIANTS
  TypeOK
  WaitGroupExact
  BarrierHolds
  OncePerPass
  NothingSkipped
PROPERTIES
  WaitNeedsEveryWorker
  FullSplitReturns
  ImplementsPaging
CHECK_DEADLOCK FALSE
