\* No failure needed: Unsubscribe during resubscribe.
CONSTANTS
    Topics = {t1, t2}
    Run = Run
    Options <- RoomyQueue
    MaxCalls = 1
SPECIFICATION Spec
INVARIANTS NoZombieSubscription
CHECK_DEADLOCK FALSE
