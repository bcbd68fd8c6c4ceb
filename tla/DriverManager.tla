---------------------------- MODULE DriverManager ----------------------------
(***************************************************************************)
(* The driver manager (src/kernel/drivers/DriverManager.cpp): registering *)
(* driver manifests, adding device descriptors, and matching the two by    *)
(* load names, with EnsureRunning loading a driver on first use and        *)
(* AttachDevice handing it a descriptor.                                   *)
(*                                                                         *)
(* Each caller thread makes one call, AddManifest or AddDescriptor; the    *)
(* calls run concurrently and interleave where the code releases a lock:  *)
(* manifestsLock around registration and LocateDriver, unclaimedDevsLock   *)
(* around LocateDevice and each PushBack, manifest->lock around            *)
(* EnsureRunning, nodeTreeLock around each tree update, and the driver's   *)
(* ProcessEvent(AddDevice), called with no lock held.  For the drivers of *)
(* FbDrivers that event runs Qemu::GraphicsAdaptor::Init                   *)
(* (src/drivers/qemu/GraphicsAdaptor.cpp), which adds a framebuffer API    *)
(* owned by the new instance through AddApi.                               *)
(*                                                                         *)
(* A driver instance is named by its manifest, its device and its id.      *)
(* unclaimedDevs is kept without repeated entries: the code       *)
(* pushes a device again after a refused attach but never removes one, and *)
(* LocateDevice returns the first match, which a later duplicate never is. *)
(***************************************************************************)
EXTENDS Integers, Sequences, SequencesExt

CONSTANTS
    Procs,           \* caller threads
    Ops,             \* Ops[p]: the call thread p makes
    Manifests,       \* driver manifests callers may register
    Devices,         \* device descriptors callers may add
    FriendlyName,    \* FriendlyName[m]: manifest->friendlyName
    LoadNames,       \* LoadNames[m]: manifest->loadNames, as a set
    DevLoadNames,    \* DevLoadNames[d]: apiDesc->load_names, as a set
    LoadOutcomes,    \* LoadOutcomes[m]: what loading driver m may result in
    MayRefuse,       \* <<m, d>> pairs whose AddDevice event the driver may refuse
    Apis,            \* device APIs callers may add
    FbDrivers,       \* manifests whose AddDevice handler is Qemu::GraphicsAdaptor::Init
    SetupMayFail,    \* Init's BAR and VmObject checks may fail
    KernelInstance,  \* the kernelInstance node
    NoInstance       \* a null sl::Handle<DriverInstance>

Outcomes == {"ok", "elf_fail", "no_manifest", "init_refused"}

ManifestOp == [kind : {"manifest"}, m : Manifests, loadNow : BOOLEAN]
DescriptorOp == [kind : {"descriptor"}, d : Devices]
ApiOp == [kind : {"api"}, a : Apis]

ASSUME Ops \in [Procs -> ManifestOp \cup DescriptorOp \cup ApiOp]
ASSUME LoadOutcomes \in [Manifests -> SUBSET Outcomes \ {{}}]
ASSUME MayRefuse \subseteq Manifests \X Devices
ASSUME FbDrivers \subseteq Manifests /\ SetupMayFail \in BOOLEAN

VARIABLES
    manifests,     \* registered manifests, in registration order
    image,         \* image[m]: manifest->runtimeImage.Valid()
    initAccepted,  \* initAccepted[m]: driver m accepted its Init event
    unclaimed,     \* unclaimedDevs, in push order
    descs,         \* descriptors inserted into the node tree
    instances,     \* driver instances in the node tree
    attached,      \* attached[d]: device->attachedDriver
    apis,          \* device APIs in the node tree
    idAlloc,       \* the next node id
    nodeId,        \* nodeId[n]: the id given to node n
    modeStashed,   \* instances whose GraphicsAdaptor stashed mode and summary
    pc,            \* per-thread control point
    cur            \* per-thread [drv, dev] of the AttachDevice in progress,
                   \* the instance once it is created

treeVars == <<apis, idAlloc, nodeId>>

vars == <<manifests, image, initAccepted, unclaimed, descs, instances, attached,
          apis, idAlloc, nodeId, modeStashed, pc, cur>>

Instance == [drv : Manifests, dev : Devices, id : Nat]

-----------------------------------------------------------------------------
(* Load-name matching: type, length and bytes compared (LocateDriver,      *)
(* LocateDevice).  A load name is a record [type, str].                    *)

\* Mutant: the type comparison dropped, only the strings compared.
MatchesIgnoringType(ns1, ns2) == \E a \in ns1, b \in ns2 : a.str = b.str

Matches(ns1, ns2) == \E a \in ns1, b \in ns2 : a.type = b.type /\ a.str = b.str

\* LocateDriver(names): the first registered manifest with a matching name,
\* or 0.
LocateDriver(names) == SelectInSeq(manifests, LAMBDA m : Matches(LoadNames[m], names))

\* LocateDevice(names): the first unclaimed device with a matching name.
LocateDevice(names) == SelectInSeq(unclaimed, LAMBDA d : Matches(DevLoadNames[d], names))

\* Mutant: the duplicate-load-string check dropped.
ConflictsNameOnly(m) ==
    \E i \in 1..Len(manifests) : FriendlyName[manifests[i]] = FriendlyName[m]

\* AddManifest's scan: a registered manifest with the same friendly name,
\* or one matching any of m's load names.
Conflicts(m) ==
    \E i \in 1..Len(manifests) :
        \/ FriendlyName[manifests[i]] = FriendlyName[m]
        \/ LocateDriver(LoadNames[m]) # 0

\* unclaimedDevs.PushBack(d)
PushUnclaimed(q, d) == IF d \in ToSet(q) THEN q ELSE Append(q, d)

\* node->id = idAlloc++
GiveId(n) ==
    /\ nodeId' = [x \in DOMAIN nodeId \cup {n} |-> IF x = n THEN idAlloc ELSE nodeId[x]]
    /\ idAlloc' = idAlloc + 1

-----------------------------------------------------------------------------
\* DriverManager::Init: the kernel instance gets id 1 and goes into the tree.
Init ==
    /\ manifests = <<>>
    /\ image = [m \in Manifests |-> FALSE]
    /\ initAccepted = [m \in Manifests |-> FALSE]
    /\ unclaimed = <<>>
    /\ descs = {}
    /\ instances = {}
    /\ attached = [d \in Devices |-> NoInstance]
    /\ apis = {}
    /\ idAlloc = 2
    /\ nodeId = KernelInstance :> 1
    /\ modeStashed = {}
    /\ pc = [p \in Procs |-> CASE Ops[p].kind = "manifest" -> "AM_Register"
                               [] Ops[p].kind = "descriptor" -> "AD_Create"
                               [] Ops[p].kind = "api" -> "AA_Insert"]
    /\ cur = [p \in Procs |-> NoInstance]

\* EnsureRunning(m), atomic under manifest->lock.  A valid runtimeImage
\* means running.  Otherwise LoadElf either fails (the handle stays
\* invalid) or yields an image, which stays valid whatever follows: a
\* missing driver manifest or a refused Init returns false with it in place.
\* ok' is EnsureRunning's result.
EnsureRunning(m, ok) ==
    IF image[m]
    THEN /\ ok = TRUE
         /\ UNCHANGED <<image, initAccepted>>
    ELSE \E o \in LoadOutcomes[m] :
            /\ ok = (o = "ok")
            /\ image' = [image EXCEPT ![m] = (o # "elf_fail")]
            /\ initAccepted' = [initAccepted EXCEPT ![m] = (o = "ok")]

\* Mutant: AddDescriptor returns when a found driver's attach fails,
\* without queueing the device.
AfterAttachNoQueue(p, ok) ==
    IF Ops[p].kind = "manifest"
    THEN IF ok THEN "AM_Locate" ELSE "AM_Requeue"
    ELSE "Done"

\* Where a thread goes when AttachDevice returns ok.
AfterAttach(p, ok) ==
    IF Ops[p].kind = "manifest"
    THEN IF ok THEN "AM_Locate" ELSE "AM_Requeue"
    ELSE IF ok THEN "Done" ELSE "AD_Queue"

Goto(p, l) == pc' = [pc EXCEPT ![p] = l]

(* AddManifest(manifest, loadNow) *)

\* Under manifestsLock (writer): reject a conflicting manifest, else
\* register it.
AddManifestRegister(p) ==
    LET m == Ops[p].m IN
    /\ pc[p] = "AM_Register"
    /\ IF Conflicts(m)
       THEN /\ Goto(p, "Done")
            /\ UNCHANGED manifests
       ELSE /\ manifests' = Append(manifests, m)
            /\ Goto(p, IF Ops[p].loadNow THEN "AM_Load" ELSE "AM_Locate")
    /\ UNCHANGED <<modeStashed, image, initAccepted, unclaimed, descs, instances, attached, cur, treeVars>>

\* if (loadNow) EnsureRunning(manifest); the result is ignored.
AddManifestLoad(p) ==
    /\ pc[p] = "AM_Load"
    /\ \E ok \in BOOLEAN : EnsureRunning(Ops[p].m, ok)
    /\ Goto(p, "AM_Locate")
    /\ UNCHANGED <<modeStashed, manifests, unclaimed, descs, instances, attached, cur, treeVars>>

\* One turn of `while (true)`: LocateDevice under unclaimedDevsLock; none
\* found ends the call, else AttachDevice(manifest, device).  The device
\* stays in unclaimedDevs.
AddManifestLocate(p) ==
    LET m == Ops[p].m
        i == LocateDevice(LoadNames[m])
    IN /\ pc[p] = "AM_Locate"
       /\ IF i = 0
          THEN /\ Goto(p, "Done")
               /\ UNCHANGED cur
          ELSE /\ Goto(p, "AT_Ensure")
               /\ cur' = [cur EXCEPT ![p] = [drv |-> m, dev |-> unclaimed[i]]]
       /\ UNCHANGED <<modeStashed, manifests, image, initAccepted, unclaimed, descs, instances, attached, treeVars>>

\* AttachDevice failed: push the device back under unclaimedDevsLock.
AddManifestRequeue(p) ==
    /\ pc[p] = "AM_Requeue"
    /\ unclaimed' = PushUnclaimed(unclaimed, cur[p].dev)
    /\ Goto(p, "AM_Locate")
    /\ UNCHANGED <<modeStashed, manifests, image, initAccepted, descs, instances, attached, cur, treeVars>>

(* Qemu::GraphicsAdaptor::Init (src/drivers/qemu/GraphicsAdaptor.cpp), the
   AddDevice handler of a framebuffer driver, run inside ProcessEvent *)

\* Mutant: the device API published before the adaptor's setup.
QemuInitStepsPublishFirst == <<"QG_Publish", "QG_Setup">>

\* Init's two parts in program order: the BAR checks and mode stash, then
\* npk_add_device_api; Init returns true after the last.
QemuInitSteps == <<"QG_Setup", "QG_Publish">>

\* Where the thread goes after Init's step l: the next step, or back into
\* AttachDevice with the event accepted.
QemuInitNext(p, l) ==
    LET i == CHOOSE i \in 1..Len(QemuInitSteps) : QemuInitSteps[i] = l IN
    IF i = Len(QemuInitSteps) THEN AfterAttach(p, TRUE) ELSE QemuInitSteps[i + 1]

\* The API a framebuffer driver's instance adds: the npk_framebuffer_device_api
\* its Init allocates.
FbApi(inst) == [fbOf |-> inst]

(* AttachDevice(driver, device) *)

\* VALIDATE_(EnsureRunning(driver), false)
AttachEnsure(p) ==
    /\ pc[p] = "AT_Ensure"
    /\ \E ok \in BOOLEAN :
        /\ EnsureRunning(cur[p].drv, ok)
        /\ Goto(p, IF ok THEN "AT_Insert" ELSE AfterAttach(p, FALSE))
    /\ UNCHANGED <<modeStashed, manifests, unclaimed, descs, instances, attached, cur, treeVars>>

\* A new instance with the next id: device->attachedDriver = instance, then
\* nodeTree.Insert under nodeTreeLock.
AttachInsert(p) ==
    LET inst == [drv |-> cur[p].drv, dev |-> cur[p].dev, id |-> idAlloc] IN
    /\ pc[p] = "AT_Insert"
    /\ cur' = [cur EXCEPT ![p] = inst]
    /\ attached' = [attached EXCEPT ![inst.dev] = inst]
    /\ instances' = instances \cup {inst}
    /\ GiveId(inst)
    /\ Goto(p, IF inst.drv \in FbDrivers THEN QemuInitSteps[1] ELSE "AT_Event")
    /\ UNCHANGED <<modeStashed, manifests, image, initAccepted, unclaimed, descs, apis>>

\* ProcessEvent(AddDevice) returned false: the instance is removed from the
\* tree and device->attachedDriver = nullptr.  APIs the instance added stay.
RefuseDevice(p, inst) ==
    /\ instances' = instances \ {inst}
    /\ attached' = [attached EXCEPT ![inst.dev] = NoInstance]
    /\ Goto(p, AfterAttach(p, FALSE))

\* driver->ProcessEvent(AddDevice), no lock held, the instance set as the
\* thread's shadow; a driver of MayRefuse may refuse the device.
AttachEvent(p) ==
    LET inst == cur[p] IN
    /\ pc[p] = "AT_Event"
    /\ \/ /\ Goto(p, AfterAttach(p, TRUE))
          /\ UNCHANGED <<instances, attached>>
       \/ /\ <<inst.drv, inst.dev>> \in MayRefuse
          /\ RefuseDevice(p, inst)
    /\ UNCHANGED <<modeStashed, manifests, image, initAccepted, unclaimed, descs, cur, treeVars>>

(* Qemu::GraphicsAdaptor::Init: its two steps *)

\* PCI memory space enabled, then VALIDATE on BAR0's length, the
\* framebuffer VmObject, BAR2's length and the mmio VmObject; any failure
\* returns false.  Otherwise the mode registers are read with the display
\* disabled, the stride and format filled in and RegenSummary run: the
\* adaptor's mode and summary are set, state private to the instance.
QemuSetup(p) ==
    LET inst == cur[p] IN
    /\ pc[p] = "QG_Setup"
    /\ \/ /\ modeStashed' = modeStashed \cup {inst}
          /\ Goto(p, QemuInitNext(p, "QG_Setup"))
          /\ UNCHANGED <<instances, attached>>
       \/ /\ SetupMayFail
          /\ RefuseDevice(p, inst)
          /\ UNCHANGED modeStashed
    /\ UNCHANGED <<manifests, image, initAccepted, unclaimed, descs, cur, treeVars>>

\* VALIDATE_(npk_add_device_api(&fbApi->header), false): DriverManager::AddApi
\* with the thread's shadow, the instance, as owner.  The API gets the next
\* id, goes into the tree and onto owner->apis, and AddApi calls its
\* get_summary, which reads the adaptor's summary under metadataLock.
\* VerifyDeviceApi is not under src/; the driver fills in every function
\* pointer it offers, and the call is taken to succeed.
QemuPublish(p) ==
    LET inst == cur[p] IN
    /\ pc[p] = "QG_Publish"
    /\ apis' = apis \cup {FbApi(inst)}
    /\ GiveId(FbApi(inst))
    /\ Goto(p, QemuInitNext(p, "QG_Publish"))
    /\ UNCHANGED <<modeStashed, manifests, image, initAccepted, unclaimed, descs, instances,
                   attached, cur>>

(* AddDescriptor(descriptor) *)

\* Mutant: the nodeTree.Insert of the new descriptor dropped.
AddDescriptorCreateNoInsert(p) ==
    /\ pc[p] = "AD_Create"
    /\ GiveId(Ops[p].d)
    /\ Goto(p, "AD_Locate")
    /\ UNCHANGED <<modeStashed, manifests, image, initAccepted, unclaimed, descs, instances, attached, cur, apis>>

\* A new DeviceDescriptor with the next id, its sourceDriver the kernel
\* instance (the callers are kernel threads with no driver shadow), pushed
\* to providedDevices and inserted into the tree.
AddDescriptorCreate(p) ==
    /\ pc[p] = "AD_Create"
    /\ descs' = descs \cup {Ops[p].d}
    /\ GiveId(Ops[p].d)
    /\ Goto(p, "AD_Locate")
    /\ UNCHANGED <<modeStashed, manifests, image, initAccepted, unclaimed, instances, attached, cur, apis>>

\* LocateDriver under manifestsLock (reader); found, AttachDevice.
AddDescriptorLocate(p) ==
    LET d == Ops[p].d
        i == LocateDriver(DevLoadNames[d])
    IN /\ pc[p] = "AD_Locate"
       /\ IF i = 0
          THEN /\ Goto(p, "AD_Queue")
               /\ UNCHANGED cur
          ELSE /\ Goto(p, "AT_Ensure")
               /\ cur' = [cur EXCEPT ![p] = [drv |-> manifests[i], dev |-> d]]
       /\ UNCHANGED <<modeStashed, manifests, image, initAccepted, unclaimed, descs, instances, attached, treeVars>>

\* No driver, or the attach failed: push to unclaimedDevs.
AddDescriptorQueue(p) ==
    /\ pc[p] = "AD_Queue"
    /\ unclaimed' = PushUnclaimed(unclaimed, Ops[p].d)
    /\ Goto(p, "Done")
    /\ UNCHANGED <<modeStashed, manifests, image, initAccepted, descs, instances, attached, cur, treeVars>>

(* AddApi(api, owner) *)

\* No owner given, so the kernel instance owns the API; api->id gets the
\* next id, then the node goes into the tree under nodeTreeLock and onto
\* owner->apis.
AddApi(p) ==
    /\ pc[p] = "AA_Insert"
    /\ apis' = apis \cup {Ops[p].a}
    /\ GiveId(Ops[p].a)
    /\ Goto(p, "Done")
    /\ UNCHANGED <<modeStashed, manifests, image, initAccepted, unclaimed, descs, instances, attached, cur>>

Step(p) ==
    \/ AddManifestRegister(p) \/ AddManifestLoad(p) \/ AddManifestLocate(p)
    \/ AddManifestRequeue(p) \/ AttachEnsure(p) \/ AttachInsert(p) \/ AttachEvent(p)
    \/ QemuSetup(p) \/ QemuPublish(p)
    \/ AddDescriptorCreate(p) \/ AddDescriptorLocate(p) \/ AddDescriptorQueue(p)
    \/ AddApi(p)

\* Every call has returned.
Terminated ==
    /\ \A p \in Procs : pc[p] = "Done"
    /\ UNCHANGED vars

Next == (\E p \in Procs : Step(p)) \/ Terminated

Spec == Init /\ [][Next]_vars

-----------------------------------------------------------------------------
(* Node-tree lookups (read only) *)

\* The nodes in nodeTree: the kernel instance, descriptors, driver
\* instances and APIs.
TreeNodes == {KernelInstance} \cup descs \cup instances \cup apis

\* GetById(id): the node of the tree with that id, or a null handle; the
\* tree's ordered search is abstracted to a search of the set.
GetById(id) ==
    IF \E n \in TreeNodes : nodeId[n] = id
    THEN CHOOSE n \in TreeNodes : nodeId[n] = id
    ELSE NoInstance

\* The node GetStackFromId's switch steps to: an instance's consumedDevice,
\* a descriptor's sourceDriver, an API's driver; the kernel instance
\* consumes no device.
Provider(n) ==
    CASE n = KernelInstance -> NoInstance
      [] n \in instances -> n.dev
      [] n \in apis \ Apis -> n.fbOf
      [] OTHER -> KernelInstance

RECURSIVE StackFrom(_)
StackFrom(n) == IF n = NoInstance THEN << >> ELSE <<n>> \o StackFrom(Provider(n))

\* GetStackFromId(id)
GetStackFromId(id) == StackFrom(GetById(id))

-----------------------------------------------------------------------------
(* Properties *)

Labels == {"AM_Register", "AM_Load", "AM_Locate", "AM_Requeue", "AT_Ensure",
           "AT_Insert", "AT_Event", "QG_Setup", "QG_Publish", "AD_Create", "AD_Locate", "AD_Queue", "AA_Insert", "Done"}

TypeOK ==
    /\ manifests \in Seq(Manifests)
    /\ unclaimed \in Seq(descs)
    /\ instances \subseteq Instance
    /\ attached \in [Devices -> Instance \cup {NoInstance}]
    /\ pc \in [Procs -> Labels]

\* However AddManifest calls interleave, the registered manifests have
\* distinct friendly names and no load name in common: the duplicate scan
\* and the PushBack happen under one hold of manifestsLock.
RegistryUnique ==
    \A i, j \in 1..Len(manifests) :
        i # j => /\ FriendlyName[manifests[i]] # FriendlyName[manifests[j]]
                 /\ LoadNames[manifests[i]] \cap LoadNames[manifests[j]] = {}

\* Every driver instance in the node tree belongs to a registered manifest
\* that names one of its device's load names, whichever of AddDescriptor's
\* LocateDriver or AddManifest's LocateDevice paired them.
AttachedToMatchingDriver ==
    \A inst \in instances :
        /\ inst.drv \in ToSet(manifests)
        /\ LoadNames[inst.drv] \cap DevLoadNames[inst.dev] # {}

\* No descriptor is dropped: once added, a device is attached, waiting in
\* unclaimedDevs, or its AddDescriptor call has not returned yet, also
\* when another thread's refused attach resets its attachedDriver.
DescriptorNeverLost ==
    \A d \in descs :
        \/ attached[d] # NoInstance
        \/ d \in ToSet(unclaimed)
        \/ \E p \in Procs : Ops[p] = [kind |-> "descriptor", d |-> d] /\ pc[p] # "Done"

\* Once every call has returned, no descriptor is left unclaimed while a
\* registered manifest names one of its load names: AddDescriptor's
\* LocateDriver and AddManifest's scan of unclaimedDevs between them find
\* every pair, whatever order the two calls take.
NoLostClaim ==
    (\A p \in Procs : pc[p] = "Done") =>
        \A d \in descs :
            (\E m \in ToSet(manifests) : LoadNames[m] \cap DevLoadNames[d] # {})
                => attached[d] # NoInstance

\* A device is handed (AddDevice event) only to a driver that accepted its
\* Init event: EnsureRunning reports a driver running only if it started.
AttachOnlyToStartedDriver ==
    \A inst \in instances : initAccepted[inst.drv]

\* AttachDevice never creates a driver instance for a device that already
\* has one: AddManifest's loop over unclaimedDevs and the other callers
\* attach each device at most once.
AttachOnce ==
    [][\A p \in Procs :
         (pc[p] = "AT_Insert" /\ pc'[p] = "AT_Event") => attached[cur[p].dev] = NoInstance]_vars

\* Every framebuffer API in the node tree belongs to a driver instance
\* still in the tree, whose adaptor had stashed the mode and summary before
\* the API went in: GraphicsAdaptor::Init publishes its API last, so a
\* refused attach (which removes the instance but none of its APIs) never
\* leaves an orphan API, and neither AddApi's own get_summary call nor a
\* thread finding the API by id meets an adaptor not yet set up.
PublishedApisLive ==
    \A a \in apis \ Apis : a.fbOf \in instances /\ a.fbOf \in modeStashed

=============================================================================
