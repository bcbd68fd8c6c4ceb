CONSTANTS
    Madt <- MCMadt
    VersionReg <- MCVersionReg
    Redirect0 = 16
    RegBits = 30
    Irqs = {0, 1, 4}
    Dests = {0, 1}
    EntryVectors = {32}
    LvtRegs = {"Timer"}
    Modes = {0, 4}
    SpuriousVector = 255
    IsBsp = TRUE
    Dual8259s = TRUE
    None = None

SPECIFICATION Spec

INVARIANT RedirectsAsProgrammed
