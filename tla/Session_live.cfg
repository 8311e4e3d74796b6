\* A queue with room for everything, and queues of one frame that never wait.
CONSTANTS
    Topics = {t1, t2}
    Run = Run
    Options <- LiveQueues
    MaxCalls = 1
SPECIFICATION FairSpec
PROPERTIES EventuallySubscribed CancelEnds
CHECK_DEADLOCK FALSE
