\* The default policy with a queue that resubscribing fills.
CONSTANTS
    Topics = {t1, t2}
    Run = Run
    Options <- BlockingQueue
    MaxCalls = 1
SPECIFICATION FairSpec
PROPERTIES CancelEnds
CHECK_DEADLOCK FALSE
