CONSTANTS
    c1 = c1
    c2 = c2
    r1 = r1
    r2 = r2
    r3 = r3
    NoCoreAffinity = NoCoreAffinity
    NoVector = NoVector
    NoRoute = NoRoute
    Cores <- MCCores
    Routes <- MCRoutes
    OwnerCore <- MCOwnerCore
    Vectors <- MCVectors
    IntVectorAllocBase = 1
    IntVectorAllocLimit = 3

SPECIFICATION Spec

INVARIANT NoCallbackAfterRemove
