SPECIFICATION FairSpec
CONSTANTS
  Clients = {h1, h2}
  Conns <- BatchConns
  OutCap = 1
  Batches <- SmallBatches
INVARIANTS BatchAnswersMatch BatchInOrder
PROPERTY EveryPostAnswered
CHECK_DEADLOCK FALSE
