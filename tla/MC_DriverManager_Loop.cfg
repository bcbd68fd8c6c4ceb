CONSTANTS
    p1 = p1
    p2 = p2
    p3 = p3
    p4 = p4
    p5 = p5
    p6 = p6
    m1 = m1
    m2 = m2
    m3 = m3
    d1 = d1
    d2 = d2
    a1 = a1
    KernelInstance = KernelInstance
    Apis <- MCApis
    NoInstance = NoInstance
    Procs <- MCProcs
    Ops <- MCOps
    Manifests <- MCManifests
    Devices <- MCDevices
    FriendlyName <- MCFriendlyName
    LoadNames <- MCLoadNames
    DevLoadNames <- MCDevLoadNames
    LoadOutcomes <- MCLoadOutcomesOk
    FbDrivers = {}
    SetupMayFail = FALSE
    MayRefuse <- MCMayRefuseNone

SPECIFICATION Spec
CONSTRAINT IdBound

PROPERTY AttachOnce
