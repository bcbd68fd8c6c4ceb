CONSTANTS
    t1 = t1
    t2 = t2
    f1 = f1
    Threads <- MCThreads
    Files <- MCFiles
    FileSize <- MCFileSize
    FileOffsets <- MCFileOffsets
    RequestLengths <- MCRequestLengths
    FaultAddrs <- MCFaultAddrs
    NumPages = 3
    Granule = 2
    CacheUnitSize = 2
    DirNode = DirNode
    MissingPath = MissingPath
    FaultHandlerFeature = TRUE
    CacheMayFail = TRUE
    MaxFaults = 3
    NotMapped = NotMapped

SPECIFICATION Spec
SYMMETRY Symm

INVARIANT TypeOK
INVARIANT MappingsBelongToRanges
 
INVARIANT ResidentCoversMappings
INVARIANT WorkingSetMatchesRanges
PROPERTY FaultResolvedMapsPage
PROPERTY MappingsStableWhileRangeLives
