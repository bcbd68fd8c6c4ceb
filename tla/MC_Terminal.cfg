CONSTANTS
    Framebuffers <- MCFramebuffers
    FbsSize = 4
    MaxWrites = 3

SPECIFICATION FairSpec

INVARIANT EventQueuedOnceBeforePanic
PROPERTY StatsKeepRefreshing
