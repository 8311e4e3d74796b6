\* A ring of two slots, two producers that can wait for room while a third is inside
\* Push, two consumers, all three policies.
CONSTANTS
    Producers = {p1, p2, p3}
    Consumers = {c1, c2}
    Frames = {f1, f2, f3, f4}
    None = None
    Cap = 2
SPECIFICATION FairSpec
INVARIANTS TypeOK RingInv FramesConserved NoLostWakeup
PROPERTIES ImplementsBoundedQueue QueuedFrameLeaves CloseReleasesThreads
