SPECIFICATION FairSpec
CONSTANTS Buckets <- SmallBuckets
          MaxAlloc = 8
          MaxPayload = 4
          MaxControl = 1
          Frames <- SomeFrames
          MaxConns = 2
          MaxHeaders = 3
          MaxWrites = 1
          MaxFaults = 1
INVARIANTS TypeOK MessagesIntact InStep OutboundWhole NeverTooSmall
PROPERTY ReadersEnd
CHECK_DEADLOCK FALSE
