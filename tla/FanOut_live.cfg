\* Two read loops and three frames: one waits inside Route for room, behind it a writer for
\* the lock, and behind the writer the other read loop.  One consumer, under each policy:
\* with two, the graph is too large for the liveness check.  The thread of a consumer whose
\* queue never blocks may be gone; where the queue blocks the read loop, it keeps running.
CONSTANTS
    Readers = {r1, r2}
    Consumers = {c1}
    Topics = {t1}
    Frames = {f1, f2, f3}
    None = None
    Cap = 1
    Modes = {"Shared"}
    Policies = {"Block", "DropNewest", "DropOldest"}
    FailPolicies = {"DropNewest", "DropOldest"}
SPECIFICATION FairSpec
PROPERTIES RouteReturns ControlReturns
