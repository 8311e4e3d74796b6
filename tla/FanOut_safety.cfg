\* Two read loops, two consumers, both modes, all policies.  That a thread returns early adds
\* nothing to safety, it could as well be slow; it matters in FanOut_live.cfg.
CONSTANTS
    Readers = {r1, r2}
    Consumers = {c1, c2}
    Topics = {t1}
    Frames = {f1, f2, f3}
    None = None
    Cap = 1
    Modes = {"Copy", "Shared"}
    Policies = {"Block", "DropNewest", "DropOldest"}
    FailPolicies = {}
    Chosen = c1
SYMMETRY Perms
SPECIFICATION Spec
INVARIANTS TypeOK OwnedOnce RefCountExact
PROPERTIES OwnedFrameIntact DeliveredOnlyToRegistered ImplementsConsumerQueue
