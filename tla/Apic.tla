-------------------------------- MODULE Apic --------------------------------
(***************************************************************************)
(* The x86_64 interrupt controllers' programming (src/kernel/devices/      *)
(* IoApic.cpp and LApic.cpp): parsing the MADT into IO APICs, source       *)
(* overrides and NMI sources, routing a GSI to its IO APIC, and reading    *)
(* and writing redirection entries through the register window; on the    *)
(* local APIC, writing LVT entries and masking them.                       *)
(*                                                                         *)
(* Both run at boot on one core, so every call is one step; what the model *)
(* explores is sequences of calls over a small MADT and small field        *)
(* values.  A 64-bit redirection entry is its two 32-bit halves; only the  *)
(* low RegBits bits of a 32-bit register are kept (the fields the code     *)
(* sets lie below bit 19; the destination sits in the high half's top      *)
(* byte).  The register enums are not under src/; Redirect0 and the LVT    *)
(* register names are constants.                                           *)
(***************************************************************************)
EXTENDS Integers, Sequences, SequencesExt, Bitwise

CONSTANTS
    Madt,           \* the MADT's controller entries, in table order
    VersionReg,     \* VersionReg[id]: the Version register of IO APIC id
    Redirect0,      \* IoApicRegister::Redirect0
    RegBits,        \* bits of a 32-bit register the model keeps
    Irqs,           \* legacy IRQs a caller may route
    Dests,          \* destination APIC ids
    EntryVectors,   \* vectors a caller may program
    LvtRegs,        \* LVT registers of the local APIC
    Modes,          \* ApicDeliveryMode and ApicTimerMode values
    SpuriousVector, \* INTERRUPT_GSI_SPURIOUS
    IsBsp,          \* IA32_APIC_BASE bit 8 on the core running LApic::Init
    Dual8259s,      \* the MADT's Dual8259sInstalled flag
    None            \* no entry programmed yet

Word == 0..2^RegBits - 1
Bit(n) == 2^n

VARIABLES
    ioApics,    \* the ioApics vector: [id, gsiBase, maxRedirects]
    modifiers,  \* the modifiers vector (source overrides)
    nmis,       \* the nmis vector
    regs,       \* regs[id][r]: IO APIC id's register r
    intended,   \* intended[id][pin]: the entry last accepted for pin, or None
    lvt,        \* lvt[r]: the local APIC's LVT register r
    svr,        \* the local APIC's spurious interrupt vector register
    picsMasked, \* the 8259 PICs were remapped and masked
    booted      \* IoApic::InitAll has run

vars == <<ioApics, modifiers, nmis, regs, intended, lvt, svr,
          picsMasked, booted>>

IoApicIds == {Madt[i].id : i \in {j \in DOMAIN Madt : Madt[j].type = "IoApic"}}

-----------------------------------------------------------------------------
(* IoApicRedirectEntry *)

\* Set(destApicId, vector, triggerMode, pinPolarity): masked by default.
EntrySet(dest, vector, trig, pol) ==
    [lo |-> Bit(16) | ((trig & 1) * Bit(15)) | ((pol & 1) * Bit(13)) | vector,
     hi |-> dest * Bit(RegBits - 8)]

\* SetMask(masked): clear bit 16, then set it if masked.
EntrySetMask(e, masked) ==
    LET cleared == e.lo & ((2^RegBits - 1) - Bit(16))
    IN [e EXCEPT !.lo = IF masked THEN cleared | Bit(16) ELSE cleared]

\* The MPS INTI flags of an override or NMI entry: polarity in bits 0-1,
\* trigger mode in bits 2-3; 1 is ActiveLow / Level, 0 ActiveHigh / Edge,
\* 2 the default.
PolarityOf(flags) == IF (flags & 2) # 0 THEN 1 ELSE IF (flags & 1) # 0 THEN 0 ELSE 2
TriggerOf(flags) == IF (flags & 8) # 0 THEN 1 ELSE IF (flags & 4) # 0 THEN 0 ELSE 2

\* IoApic::Init: maxRedirects is the Version register's bits 16-23, plus 1.
MaxRedirects(id) == (shiftR(VersionReg[id], 16) & 255) + 1

\* The hardware's redirection table: entry n is registers Redirect0 + 2n
\* (low half) and Redirect0 + 2n + 1 (high half).
RegIdx(id) == Redirect0..Redirect0 + 2 * MaxRedirects(id) - 1

\* IoApic::InitAll's scan of the MADT.
ParseMadt ==
    LET Sel(t) == SelectSeq(Madt, LAMBDA e : e.type = t)
    IN [apics |-> [i \in 1..Len(Sel("IoApic")) |->
                     [id |-> Sel("IoApic")[i].id, gsiBase |-> Sel("IoApic")[i].gsiBase,
                      maxRedirects |-> MaxRedirects(Sel("IoApic")[i].id)]],
        mods |-> [i \in 1..Len(Sel("Iso")) |->
                     [irqNum |-> Sel("Iso")[i].source, gsiNum |-> Sel("Iso")[i].mapped,
                      polarity |-> PolarityOf(Sel("Iso")[i].flags),
                      triggerMode |-> TriggerOf(Sel("Iso")[i].flags)]],
        nmis |-> [i \in 1..Len(Sel("Nmi")) |->
                     [irqNum |-> 0, gsiNum |-> Sel("Nmi")[i].gsi,
                      polarity |-> PolarityOf(Sel("Nmi")[i].flags),
                      triggerMode |-> TriggerOf(Sel("Nmi")[i].flags)]]]

\* IoApic::Global(ownsGsi): walk the vector while the next APIC's gsiBase
\* is not above the GSI (assumes the vector is sorted by gsiBase).
Global(gsi) ==
    CHOOSE i \in DOMAIN ioApics :
        /\ \A j \in 2..i : ioApics[j].gsiBase <= gsi
        /\ i < Len(ioApics) => ioApics[i + 1].gsiBase > gsi

\* TranslateToGsi(irq): the override for irq, else identity with defaults.
TranslateToGsi(irq) ==
    IF \E i \in DOMAIN modifiers : modifiers[i].irqNum = irq
    THEN modifiers[CHOOSE i \in DOMAIN modifiers : modifiers[i].irqNum = irq]
    ELSE [irqNum |-> irq, gsiNum |-> irq, polarity |-> 2, triggerMode |-> 2]

\* WriteRedirect(pinNum, entry) accepts a pin below maxRedirects that is
\* not an NMI's GSI.
Accepts(a, pin) ==
    /\ pin < ioApics[a].maxRedirects
    /\ \A i \in DOMAIN nmis : nmis[i].gsiNum # pin

\* The registers of pinNum's entry: Redirect0 + pinNum and the next one.
RedirectRegs(pin) == <<Redirect0 + pin, Redirect0 + pin + 1>>

\* WriteRedirect(pinNum, entry) on IO APIC a: register file r after it.
WriteRedirect(r, a, pin, e) ==
    LET id == ioApics[a].id IN
    IF Accepts(a, pin)
    THEN [r EXCEPT ![id][RedirectRegs(pin)[1]] = e.lo,
                   ![id][RedirectRegs(pin)[2]] = e.hi]
    ELSE r

\* ReadRedirect(pinNum) on IO APIC a.
ReadRedirect(a, pin) ==
    IF pin >= ioApics[a].maxRedirects
    THEN [lo |-> 0, hi |-> 0]
    ELSE [lo |-> regs[ioApics[a].id][RedirectRegs(pin)[1]],
          hi |-> regs[ioApics[a].id][RedirectRegs(pin)[2]]]

\* The caller's record of what it asked for.
Remember(a, pin, e) ==
    IF Accepts(a, pin)
    THEN [intended EXCEPT ![ioApics[a].id][pin] = e]
    ELSE intended

-----------------------------------------------------------------------------
(* LvtEntry and LApic *)

\* LvtEntry::Set(vector), masked.
LvtSetVector(vector) == vector | Bit(16)

\* LvtEntry::Set(vector, mode, activeLow, levelTriggered), masked; the
\* three-argument Set passes activeLow = false.
LvtSet(vector, mode, activeLow, level) ==
    vector | (mode * Bit(8)) | (IF activeLow THEN Bit(13) ELSE 0)
           | (IF level THEN Bit(15) ELSE 0) | Bit(16)

\* LvtEntry::Set(vector, timerMode), masked.
LvtSetTimer(vector, mode) == vector | Bit(16) | (mode * Bit(17))

\* LApic::SetLvtMasked's new register value from the current one: the
\* current value is replaced by ~(1 << 16), then bit 16 set if masked.
LvtMaskedValue(current, masked) ==
    LET cleared == (2^RegBits - 1) - Bit(16)
    IN IF masked THEN cleared | Bit(16) ELSE cleared

-----------------------------------------------------------------------------
Init ==
    /\ ioApics = << >>
    /\ modifiers = << >>
    /\ nmis = << >>
    /\ regs = [id \in IoApicIds |-> [r \in RegIdx(id) |->
                  IF (r - Redirect0) % 2 = 0 THEN Bit(16) ELSE 0]]
    /\ intended = [id \in IoApicIds |-> [p \in 0..MaxRedirects(id) - 1 |-> None]]
    /\ lvt = [r \in LvtRegs |-> Bit(16)]
    /\ svr = 0
    /\ picsMasked = FALSE
    /\ booted = FALSE

\* IoApic::InitAll: parse the MADT, then "apply the nmis": each NMI's GSI
\* gets an empty entry written through Global(gsi)->WriteRedirect.
InitAll ==
    /\ ~booted
    /\ LET m == ParseMadt IN
       /\ ioApics' = m.apics
       /\ modifiers' = m.mods
       /\ nmis' = m.nmis
       /\ regs' = FoldLeft(LAMBDA r, n :
                      LET a == CHOOSE i \in DOMAIN m.apics :
                                   /\ \A j \in 2..i : m.apics[j].gsiBase <= n.gsiNum
                                   /\ i < Len(m.apics) => m.apics[i + 1].gsiBase > n.gsiNum
                      IN IF n.gsiNum < m.apics[a].maxRedirects
                            /\ \A k \in DOMAIN m.nmis : m.nmis[k].gsiNum # n.gsiNum
                         THEN [r EXCEPT ![m.apics[a].id][Redirect0 + n.gsiNum] = 0,
                                        ![m.apics[a].id][Redirect0 + n.gsiNum + 1] = 0]
                         ELSE r,
                      regs, m.nmis)
    /\ booted' = TRUE
    /\ UNCHANGED <<intended, lvt, svr, picsMasked>>

\* Global(mod.gsiNum)->WriteRedirect(destApicId, TranslateToGsi(irq)):
\* the entry is Set(destApicId, entryMod.gsiNum, ...) and written to pin
\* entryMod.gsiNum.
RouteIrq ==
    /\ booted
    /\ \E irq \in Irqs, dest \in Dests :
        LET mod == TranslateToGsi(irq)
            a == Global(mod.gsiNum)
            e == EntrySet(dest, mod.gsiNum, mod.triggerMode, mod.polarity)
        IN /\ regs' = WriteRedirect(regs, a, mod.gsiNum, e)
           /\ intended' = Remember(a, mod.gsiNum, e)
    /\ UNCHANGED <<ioApics, modifiers, nmis, lvt, svr, picsMasked, booted>>

\* WriteRedirect(pinNum, entry) with an entry built by Set.
ProgramPin ==
    /\ booted
    /\ \E a \in DOMAIN ioApics, dest \in Dests, v \in EntryVectors,
          trig \in {0, 1}, pol \in {0, 1} :
        \E pin \in 0..ioApics[a].maxRedirects - 1 :
        LET e == EntrySet(dest, v, trig, pol) IN
        /\ regs' = WriteRedirect(regs, a, pin, e)
        /\ intended' = Remember(a, pin, e)
    /\ UNCHANGED <<ioApics, modifiers, nmis, lvt, svr, picsMasked, booted>>

\* ReadRedirect, SetMask, WriteRedirect on a programmed pin.
MaskPin ==
    /\ booted
    /\ \E a \in DOMAIN ioApics, masked \in BOOLEAN :
        \E pin \in {p \in DOMAIN intended[ioApics[a].id] : intended[ioApics[a].id][p] # None} :
        /\ regs' = WriteRedirect(regs, a, pin, EntrySetMask(ReadRedirect(a, pin), masked))
        /\ intended' = Remember(a, pin, EntrySetMask(intended[ioApics[a].id][pin], masked))
    /\ UNCHANGED <<ioApics, modifiers, nmis, lvt, svr, picsMasked, booted>>

\* LApic::Init: with the BSP and dual 8259s, remap and mask the PICs; then
\* software-enable the APIC with the spurious vector.
LApicInit ==
    /\ svr = 0
    /\ picsMasked' = (IsBsp /\ Dual8259s)
    /\ svr' = SpuriousVector | Bit(8)
    /\ UNCHANGED <<ioApics, modifiers, nmis, regs, intended, lvt, booted>>

\* WriteReg(lvtReg, entry.raw) with an entry built by one of the Set calls.
ProgramLvt ==
    /\ \E r \in LvtRegs, v \in EntryVectors, mode \in Modes,
          activeLow \in BOOLEAN, level \in BOOLEAN :
        \E raw \in {LvtSetVector(v), LvtSet(v, mode, activeLow, level), LvtSetTimer(v, mode)} :
        lvt' = [lvt EXCEPT ![r] = raw]
    /\ UNCHANGED <<ioApics, modifiers, nmis, regs, intended, svr, picsMasked, booted>>

\* LApic::SetLvtMasked(lvtReg, masked).
SetLvtMasked ==
    /\ \E r \in LvtRegs, masked \in BOOLEAN :
        lvt' = [lvt EXCEPT ![r] = LvtMaskedValue(lvt[r], masked)]
    /\ UNCHANGED <<ioApics, modifiers, nmis, regs, intended, svr, picsMasked, booted>>

Next == InitAll \/ RouteIrq \/ ProgramPin \/ MaskPin \/ LApicInit \/ ProgramLvt \/ SetLvtMasked

Spec == Init /\ [][Next]_vars

-----------------------------------------------------------------------------
(* Properties *)

TypeOK ==
    /\ \A id \in IoApicIds : regs[id] \in [RegIdx(id) -> Word]
    /\ lvt \in [LvtRegs -> Word]
    /\ booted \in BOOLEAN

\* Every redirection entry reads back as the last accepted call left it:
\* ReadRedirect(pin) returns what WriteRedirect(pin, ...), directly, by
\* routing an IRQ or by masking, wrote, whatever was written to other pins
\* since.
RedirectsAsProgrammed ==
    \A a \in DOMAIN ioApics :
        \A p \in DOMAIN intended[ioApics[a].id] :
            intended[ioApics[a].id][p] # None => ReadRedirect(a, p) = intended[ioApics[a].id][p]

=============================================================================
