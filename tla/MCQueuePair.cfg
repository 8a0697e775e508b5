CONSTANTS
  SqLen = 2
  CqLen = 4
  Queues = {"io", "admin"}
  Lbas = {b1, b2}
  Statuses <- MCStatuses
  NoData = NoData
SPECIFICATION FairSpec
INVARIANTS TypeOK NoNullSqe PollExact ReadReturnsBlock CompletionIsOurs
PROPERTIES SubmittedEntriesStable ImplementsBlockRead
