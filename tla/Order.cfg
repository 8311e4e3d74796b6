SPECIFICATION FairSpec
CONSTANTS Requests <- SomeRequests
          Workers = {w1, w2}
          QueueCap = 2
          MaxCalls = 3
INVARIANT ReportTrue
PROPERTY AcceptedIsAnswered
CHECK_DEADLOCK FALSE
