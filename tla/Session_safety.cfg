\* Two topics, each subscribed at most twice; a queue that can be full.
CONSTANTS
    Topics = {t1, t2}
    Run = Run
    Options <- SmallQueues
    MaxCalls = 2
SYMMETRY Perms
SPECIFICATION Spec
INVARIANTS TypeOK NoMissedSubscription
CHECK_DEADLOCK FALSE
