SPECIFICATION Spec
CONSTANTS
    BootModules <- MCBootModules
    InitdiskName <- MCInitdiskName
    CreateMayFail = TRUE
    MountMayFail = TRUE
INVARIANT InitdiskFilesResolve
