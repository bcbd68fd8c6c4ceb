-------------------------------- MODULE VfsVm --------------------------------
(***************************************************************************)
(* The file-backed VmDriver (src/kernel/memory/virtual/VfsVmDriver.cpp)   *)
(* driven by a VirtualMemoryManager for one address space.                 *)
(*                                                                         *)
(* The VMM is not under src/; its part (range lookup, first-fit insert,    *)
(* rollback, protection check) is modelled from spec.md sections 4.1 and   *)
(* 5: it holds its range lock across every driver call, so Reserve,        *)
(* Release and fault handling are atomic steps.  The driver's own          *)
(* ScopedLock on context.lock is the HAT lock, nested inside it.  What     *)
(* interleaves is what happens outside that lock: a thread traps on an     *)
(* unmapped page and the VMM handles the trap later, and Query runs        *)
(* before the lock is taken.                                               *)
(*                                                                         *)
(* Addresses, lengths and file offsets are in bytes, as in the code;       *)
(* Granule stands for the HAT granularity of the file cache's hatMode      *)
(* (0x1000 in FaultMaxMapAhead) and CacheUnitSize for fcInfo.unitSize.     *)
(* A physical address handed out by the file cache is named by the file    *)
(* byte it holds, which is exact because a cache unit is contiguous.       *)
(***************************************************************************)
EXTENDS Integers, FiniteSets, FiniteSetsExt

CONSTANTS
    Threads,             \* threads touching, reserving and releasing memory
    NumPages,            \* size of the address space, in granules
    Granule,             \* HAT granularity of the file cache's mode
    CacheUnitSize,       \* file cache unit size (fcInfo.unitSize)
    Files,               \* plain-file nodes
    FileSize,            \* FileSize[f]: bytes of file f
    DirNode,             \* a path that resolves to a directory
    MissingPath,         \* a path VfsLookup does not resolve
    FileOffsets,         \* VmoFileInitArg.offset values callers pass
    RequestLengths,      \* lengths callers ask Reserve for, in bytes
    FaultAddrs,          \* addresses threads touch
    FaultHandlerFeature, \* features.faultHandler, set by Init()
    CacheMayFail,        \* GetFileCache may fail on a valid offset (I/O)
    MaxFaults,           \* bound on stats.faults: threads stop touching memory
    NotMapped            \* HAT entry of an unmapped granule

ASSUME Granule \in Nat \ {0} /\ NumPages \in Nat \ {0}
ASSUME CacheUnitSize \in Nat \ {0} /\ CacheUnitSize % Granule = 0
ASSUME FileSize \in [Files -> Nat]
ASSUME FileOffsets \subseteq Nat /\ RequestLengths \subseteq Nat \ {0}
ASSUME FaultAddrs \subseteq 0..NumPages * Granule - 1
ASSUME FaultHandlerFeature \in BOOLEAN /\ CacheMayFail \in BOOLEAN

VARIABLES
    ranges,            \* the VMM's range collection: set of VmRange records
    hat,               \* HAT map: granule base address -> mapping or NotMapped
    fileWorkingSize,   \* context.stats.fileWorkingSize
    fileResidentSize,  \* context.stats.fileResidentSize
    faults,            \* stats.faults, counted by the VMM's fault dispatch
    pc,                \* per-thread control point
    pending            \* per-thread trapped fault

vars == <<ranges, hat, fileWorkingSize, fileResidentSize, faults, pc, pending>>

-----------------------------------------------------------------------------
(* Helpers from sl:: and the HAT *)

AlignDown(x, a) == x - (x % a)
AlignUp(x, a) == AlignDown(x + a - 1, a)
MinOf(a, b) == IF a < b THEN a ELSE b

Paths == Files \cup {DirNode, MissingPath}
VAddrs == {p * Granule : p \in 0..NumPages - 1}
Top(r) == r.base + r.length
Granules(r) == {r.base + k * Granule : k \in 0..(r.length \div Granule) - 1}
RangeOf(addr) == {r \in ranges : r.base <= addr /\ addr < Top(r)}
Mapped == {v \in VAddrs : hat[v] # NotMapped}

\* GetFileCache(cache, offset, ...) returns the unit holding offset; it is
\* invalid past the end of the file, or on an I/O error when CacheMayFail.
UnitBase(off) == AlignDown(off, CacheUnitSize)
CacheValid(f, off) == off < FileSize[f]

\* Values of i in `for (i = 0; i < len; i += granuleSize)`.
Iterations(len) == {k * Granule : k \in 0..((len - 1) \div Granule)}

\* The loop stops at the first i where a fetched unit is invalid; Stops is
\* the set of values of i at which it can stop (len when every fetch
\* succeeds).  fetch maps the iterations that fetch a unit to the file
\* offset they fetch.
Stops(len, fetch, f) ==
    {s \in DOMAIN fetch \cup {len} :
        /\ \A j \in DOMAIN fetch : j < s => CacheValid(f, fetch[j])
        /\ s # len => (~CacheValid(f, fetch[s]) \/ CacheMayFail)}

\* The MMU lets an access through a HAT entry.
Permits(e, write) == e # NotMapped /\ (write => e.write)

MapEntry(f, phys, write) == [node |-> f, phys |-> phys, write |-> write]

\* Map(..., overwrite = false): an already present entry is left alone.
MapNew(m, v, e) == IF m[v] = NotMapped THEN e ELSE m[v]

-----------------------------------------------------------------------------
(* VfsVmDriver::Query *)

QueryLength(length, guarded) ==
    AlignUp(length, Granule) + (IF guarded THEN 2 * Granule ELSE 0)

\* Mutant: the node-type check dropped, any resolved path accepted.
QueryOkAnyType(path) == path # MissingPath

QueryOk(path) == path \in Files

(* VfsVmDriver::Attach *)

NewLink(path, foff, write) ==
    [node |-> path, fileOffset |-> foff, isReadonly |-> ~write, isPrivate |-> FALSE]

AttachOffset(foff) == foff % Granule

AttachDefers(noDefer) == FaultHandlerFeature /\ ~noDefer

\* handle = GetFileCache(cache, arg->offset + i); Map(base + i, handle->physBase)
AttachPhys(link, i) == UnitBase(link.fileOffset + i)

AttachStops(r) ==
    Stops(r.length, [i \in Iterations(r.length) |-> r.token.fileOffset + i], r.token.node)

AttachMap(r, stop) ==
    [v \in VAddrs |->
        IF v \in Granules(r) /\ v - r.base < stop
        THEN MapNew(hat, v, MapEntry(r.token.node, AttachPhys(r.token, v - r.base), r.flags.write))
        ELSE hat[v]]

(* VfsVmDriver::HandleFault *)

FaultMaxMapAhead == 2 * Granule

\* Mutant: the window measured one granule short of the range top.
FaultMapLengthShort(r, where) == MinOf(FaultMaxMapAhead, Top(r) - where - Granule)

FaultMapLength(r, where) == MinOf(FaultMaxMapAhead, Top(r) - where)

\* cachePart is refetched when i % unitSize == 0, at
\* link->fileOffset + mappingOffset + i
FaultFetch(i) == i % CacheUnitSize = 0
FaultOffset(r, where, i) == r.token.fileOffset + (where - r.base) + i

\* Map(base + mappingOffset + i, cachePart->physBase + (i % unitSize)), with
\* cachePart the unit fetched at the last i' <= i with i' % unitSize == 0
FaultPhys(r, where, i) ==
    UnitBase(FaultOffset(r, where, i - (i % CacheUnitSize))) + (i % CacheUnitSize)

FaultStops(r, where) ==
    LET len == FaultMapLength(r, where) IN
    Stops(len, [i \in {j \in Iterations(len) : FaultFetch(j)} |-> FaultOffset(r, where, i)],
          r.token.node)

FaultMap(r, where, stop) ==
    [v \in VAddrs |->
        IF where <= v /\ v - where < stop
        THEN MapNew(hat, v, MapEntry(r.token.node, FaultPhys(r, where, v - where), r.flags.write))
        ELSE hat[v]]

\* context.stats.fileResidentSize += granuleSize for every iteration run,
\* whatever Map returned
FaultResidentDelta(stop) == stop

(* VfsVmDriver::Detach *)

\* Mutant: the working size decremented by the whole length.
DetachWorkingDeltaNoOffset(r) == r.length

DetachWorkingDelta(r) == r.length - r.offset

\* if (Unmap(...)) fileResidentSize -= granuleSize
\* Mutant: the resident size decremented whatever Unmap returned.
DetachResidentDeltaUnconditional(r) == Granule * Cardinality(Granules(r))

DetachResidentDelta(r) == Granule * Cardinality(Granules(r) \cap Mapped)

\* Mutant: the unmap walk stops one granule early.
DetachUnmapShort(r) ==
    [v \in VAddrs |-> IF v \in Granules(r) /\ v < Top(r) - Granule THEN NotMapped ELSE hat[v]]

\* Mutant: the unmap walk runs while i <= range.length, one granule past
\* the top of the range.
DetachUnmapPastTop(r) ==
    [v \in VAddrs |-> IF r.base <= v /\ v <= Top(r) THEN NotMapped ELSE hat[v]]

DetachUnmap(r) == [v \in VAddrs |-> IF v \in Granules(r) THEN NotMapped ELSE hat[v]]

(* VirtualMemoryManager (spec 4.1): a base for a new range *)

FreeBases(length) ==
    {b \in VAddrs : /\ b + length <= NumPages * Granule
                    /\ \A r \in ranges : b + length <= r.base \/ Top(r) <= b}

-----------------------------------------------------------------------------
NoPending == [none |-> TRUE]

Init ==
    /\ ranges = {}
    /\ hat = [v \in VAddrs |-> NotMapped]
    /\ fileWorkingSize = 0
    /\ fileResidentSize = 0
    /\ faults = 0
    /\ pc = [t \in Threads |-> "Idle"]
    /\ pending = [t \in Threads |-> NoPending]

\* Reserve(length, flags, Vfs, arg): the driver's Query, then, under the
\* VMM lock, a base for the range, the insertion and the driver's Attach.
\* Query runs outside the lock but reads only the node table, which no
\* operation of this kernel changes (npk_fs_remove is unreachable), so it
\* is folded into the same step; a missing path or a directory fails the
\* Query with no change of state.  Attach re-validates the path the same
\* way, so its failure branch (rollback of the insertion) is not reachable.
\* When no free base is left the reservation fails, again with no change.
QueryResult(length, guarded) == [length |-> QueryLength(length, guarded)]

Reserve(t) ==
    /\ pc[t] = "Idle"
    /\ \E path \in Paths, length \in RequestLengths, write, guarded, noDefer \in BOOLEAN,
          foff \in FileOffsets :
        LET q == QueryResult(length, guarded) IN
        /\ QueryOk(path)
        /\ \E base \in FreeBases(q.length) :
            LET r == [base |-> base, length |-> q.length, flags |-> [write |-> write],
                      offset |-> AttachOffset(foff),
                      token |-> NewLink(path, foff, write)]
            IN /\ ranges' = ranges \cup {r}
               /\ fileWorkingSize' = fileWorkingSize + (r.length - r.offset)
               /\ IF AttachDefers(noDefer)
                  THEN UNCHANGED <<hat, fileResidentSize>>
                  ELSE \E stop \in AttachStops(r) :
                         /\ hat' = AttachMap(r, stop)
                         /\ fileResidentSize' = fileResidentSize + stop
    /\ UNCHANGED <<faults, pc, pending>>

\* Release, under the VMM lock: Detach, then remove the range.
Release(t) ==
    /\ pc[t] = "Idle"
    /\ \E r \in ranges :
        /\ fileWorkingSize' = fileWorkingSize - DetachWorkingDelta(r)
        /\ fileResidentSize' = fileResidentSize - DetachResidentDelta(r)
        /\ hat' = DetachUnmap(r)
        /\ ranges' = ranges \ {r}
    /\ UNCHANGED <<faults, pc, pending>>

\* The thread accesses addr and the MMU traps: the granule is not mapped,
\* or it is mapped read-only and the access is a write.
Trap(t) ==
    /\ pc[t] = "Idle"
    /\ faults < MaxFaults
    /\ \E addr \in FaultAddrs, write \in BOOLEAN :
        LET v == AlignDown(addr, Granule) IN
        /\ ~Permits(hat[v], write)
        /\ pc' = [pc EXCEPT ![t] = "Fault"]
        /\ pending' = [pending EXCEPT ![t] = [addr |-> addr, write |-> write]]
    /\ UNCHANGED <<ranges, hat, fileWorkingSize, fileResidentSize, faults>>

\* The thread returns from the trap and re-executes the access; if that
\* faults again it is a new Trap.
Resume(t) ==
    /\ pc[t] = "Resume"
    /\ pc' = [pc EXCEPT ![t] = "Idle"]
    /\ pending' = [pending EXCEPT ![t] = NoPending]
    /\ UNCHANGED <<ranges, hat, fileWorkingSize, fileResidentSize, faults>>

\* VMM fault dispatch: no range holds the address, or the range forbids
\* the access.  The faulting thread is killed.
FaultRejected(t) ==
    /\ pc[t] = "Fault"
    /\ \/ RangeOf(pending[t].addr) = {}
       \/ \E r \in RangeOf(pending[t].addr) : pending[t].write /\ ~r.flags.write
    /\ pc' = [pc EXCEPT ![t] = "Idle"]
    /\ pending' = [pending EXCEPT ![t] = NoPending]
    /\ UNCHANGED <<ranges, hat, fileWorkingSize, fileResidentSize, faults>>

\* VfsVmDriver::HandleFault under the VMM lock; goodFault = true resumes
\* the thread, goodFault = false kills it.
HandleFault(t) ==
    LET addr == pending[t].addr IN
    /\ pc[t] = "Fault"
    /\ \E r \in RangeOf(addr) :
        LET where == AlignDown(addr, Granule) IN
        /\ pending[t].write => r.flags.write
        /\ \E stop \in FaultStops(r, where) :
            /\ hat' = FaultMap(r, where, stop)
            /\ fileResidentSize' = fileResidentSize + FaultResidentDelta(stop)
            /\ IF stop = FaultMapLength(r, where)
               THEN /\ pc' = [pc EXCEPT ![t] = "Resume"]
                    /\ UNCHANGED pending
               ELSE /\ pc' = [pc EXCEPT ![t] = "Idle"]
                    /\ pending' = [pending EXCEPT ![t] = NoPending]
    /\ faults' = faults + 1
    /\ UNCHANGED <<ranges, fileWorkingSize>>

Next ==
    \E t \in Threads :
        \/ Reserve(t)
        \/ Release(t) \/ Trap(t) \/ FaultRejected(t) \/ HandleFault(t) \/ Resume(t)

Spec == Init /\ [][Next]_vars

-----------------------------------------------------------------------------
(* Properties *)

Mapping == [node : Files, phys : Nat, write : BOOLEAN]

TypeOK ==
    /\ hat \in [VAddrs -> Mapping \cup {NotMapped}]
    /\ \A r \in ranges : r.base \in VAddrs /\ r.length \in Nat \ {0}
                         /\ r.token.node \in Files
    /\ fileWorkingSize \in Int /\ fileResidentSize \in Int
    /\ pc \in [Threads -> {"Idle", "Fault", "Resume"}]

\* Every granule present in the HAT lies inside a live range and was mapped
\* for that range's file with that range's write permission: Detach's unmap
\* walk leaves nothing behind for a later range at the same address.
MappingsBelongToRanges ==
    \A v \in Mapped :
        \E r \in RangeOf(v) : hat[v].node = r.token.node /\ hat[v].write = r.flags.write

\* The file byte a mapped granule shows is the one the range promises: the
\* range base (plus the sub-granule offset correction) stands for
\* link->fileOffset, so granule v shows AlignDown(fileOffset) + (v - base).
\* Checks the file offset of the window Attach's eager loop and HandleFault's
\* map-ahead loop hand to the file cache (mappingOffset included, for ranges
\* that do not start at offset 0 and for misaligned offsets); with cache
\* units one granule long it does not exercise the in-unit arithmetic.
ExpectedPhys(r, v) == AlignDown(r.token.fileOffset, Granule) + (v - r.base)

ResidentCoversMappings == fileResidentSize >= Granule * Cardinality(Mapped)

\* fileResidentSize is exactly the bytes mapped: a fault that finds a
\* granule already mapped must not count it again (spec 8, "Fault
\* idempotence").
ResidentMatchesMappings == fileResidentSize = Granule * Cardinality(Mapped)

\* fileWorkingSize is the sum, over live ranges, of length minus offset
\* correction: Detach takes away exactly what Attach added (spec 8,
\* "Attach/Detach symmetry"), also for misaligned file offsets.
WorkingSetMatchesRanges ==
    fileWorkingSize = MapThenSumSet(LAMBDA r : r.length - r.offset, ranges)

\* A granule mapped for a live range stays mapped, to the same page, until
\* that range is released: no Release of another range (Detach's unmap walk
\* over context.range.base + i), no fault (Map with overwrite = false) and
\* no eager Attach of a range placed right next to it takes it away or
\* remaps it.  Adjacent ranges are what the first-fit placement produces.
MappingsStableWhileRangeLives ==
    [][\A v \in Mapped :
         (\E r \in RangeOf(v) : r \in ranges') => hat'[v] = hat[v]]_vars

\* A fault the driver reports as good leaves the faulting granule mapped
\* and allowing the access, so the thread does not trap again forever on
\* the same instruction (VfsVmDriver::HandleFault's map-ahead window).
FaultResolvedMapsPage ==
    [][\A t \in Threads :
         (pc[t] = "Fault" /\ pc'[t] = "Resume") =>
            Permits(hat'[AlignDown(pending[t].addr, Granule)], pending[t].write)]_vars

=============================================================================
