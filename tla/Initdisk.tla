------------------------------- MODULE Initdisk -------------------------------
(***************************************************************************)
(* VFS start-up (src/kernel/filesystem/Filesystem.cpp): InitVfs installs a *)
(* tempfs as the root filesystem, TryFindInitdisk picks the boot module    *)
(* whose command line names the initdisk, creates /initdisk, loads the tar *)
(* archive into a fresh tempfs (LoadInitdisk, LoadInitdiskFile) and mounts *)
(* it.                                                                     *)
(*                                                                         *)
(* All of it runs once, sequentially, at boot; each loop iteration is one  *)
(* step.  A file path is the sequence of segments sl::Url yields; a        *)
(* command line is a sequence of characters (abstract symbols).  The       *)
(* tempfs driver is not under src/: its Create may fail, FindChild finds a *)
(* child by name, and path resolution walks FindChild from the root.        *)
(***************************************************************************)
EXTENDS Integers, Sequences, SequencesExt

CONSTANTS
    BootModules,    \* modulesRequest.response: [cmdline, archive] records
    InitdiskName,   \* "northport-initdisk" as a character sequence
    CreateMayFail,  \* a tempfs Create call may fail
    MountMayFail    \* the initdisk tempfs Mount may fail

VARIABLES
    nodes,      \* every vnode: [fs, parent, name, type, size]; the id is the index
    filesystems,\* the filesystems vector: the root node id of each
    mounts,     \* mounted filesystems: <<mountpoint node, root node>> pairs
    initRoot,   \* root node of the initdisk tempfs, 0 before it exists
    scan,       \* the module index, then the tar header index
    loadFailed, \* a Create failed while loading the archive
    filesLoaded,
    pc

vars == <<nodes, filesystems, mounts, initRoot, scan, loadFailed, filesLoaded, pc>>

NoNode == 0

-----------------------------------------------------------------------------
\* A new vnode; its id is the new length of nodes.
AddNode(ns, fs, parent, name, type) ==
    Append(ns, [fs |-> fs, parent |-> parent, name |-> name, type |-> type])

\* Node::FindChild(name): the child of parent with that name, or none.
FindChild(ns, parent, name) ==
    IF \E i \in DOMAIN ns : ns[i].parent = parent /\ ns[i].name = name
    THEN CHOOSE i \in DOMAIN ns : ns[i].parent = parent /\ ns[i].name = name
    ELSE NoNode

\* A mountpoint stands for the root of the filesystem mounted on it.
Cross(n) == IF \E m \in mounts : m[1] = n THEN (CHOOSE m \in mounts : m[1] = n)[2] ELSE n

\* The node a path names from dir, walking FindChild segment by segment
\* and crossing mountpoints.
RECURSIVE Resolve(_, _, _)
Resolve(ns, dir, path) ==
    IF path = << >> \/ dir = NoNode THEN dir
    ELSE Resolve(ns, Cross(FindChild(ns, dir, Head(path))), Tail(path))

\* LoadInitdiskFile's loop over the directory segments (all but the last).
\* A segment found under parent becomes the parent; a missing one is
\* created by root->Create; the failAt-th Create fails and the function
\* returns.  Result: the nodes, the final parent and whether it got there.
RECURSIVE MakeParents(_, _, _, _, _)
MakeParents(ns, root, parent, segs, failAt) ==
    IF Len(segs) <= 1 THEN [ns |-> ns, parent |-> parent, ok |-> TRUE]
    ELSE LET dir == FindChild(ns, parent, Head(segs)) IN
         IF dir # NoNode
         THEN MakeParents(ns, root, dir, Tail(segs), failAt)
         ELSE IF failAt = 1
              THEN [ns |-> ns, parent |-> parent, ok |-> FALSE]
              ELSE MakeParents(AddNode(ns, ns[root].fs, root, Head(segs), "Directory"),
                               root, Len(ns) + 1, Tail(segs), failAt - 1)

\* The Create calls a load may make fail: none (0), or the k-th.
FailChoices(h) == IF CreateMayFail THEN 0..Len(h.path) ELSE {0}

\* LoadInitdiskFile(root, header) with the failAt-th Create failing.
LoadInitdiskFile(ns, root, h, failAt) ==
    LET dirs == MakeParents(ns, root, root, h.path, failAt)
        fileFails == failAt > 0 /\ dirs.ok /\ failAt = 1 + (Len(dirs.ns) - Len(ns))
    IN IF ~dirs.ok THEN [ns |-> dirs.ns, ok |-> FALSE]
       ELSE IF fileFails THEN [ns |-> dirs.ns, ok |-> FALSE]
       ELSE [ns |-> AddNode(dirs.ns, ns[root].fs, dirs.parent, Last(h.path), "File"),
             ok |-> TRUE]

\* RootFs(): the first filesystem, if any.
RootFs == IF Len(filesystems) > 0 THEN filesystems[1] ELSE NoNode

\* VfsLookup(path): a leading '/' is dropped; an empty path is the root
\* filesystem's root, anything else is resolved from it.  A path is its
\* segments and whether it began with '/'.
VfsLookup(path) ==
    IF RootFs = NoNode THEN NoNode
    ELSE IF path.segs = << >> THEN RootFs
    ELSE Resolve(nodes, RootFs, path.segs)

\* memcmp(module->cmdline, "northport-initdisk", nameLen) = 0, where nameLen
\* = memfirst(cmdline, 0, 0) is the offset of the terminating NUL: only
\* the cmdline's own length is compared.
CmdlineMatches(cmd) == IsPrefix(cmd, InitdiskName)

-----------------------------------------------------------------------------
\* InitVfs: no root filesystem configuration, so a tempfs with its root.
Init ==
    /\ nodes = << [fs |-> 1, parent |-> NoNode, name |-> "", type |-> "Directory"] >>
    /\ filesystems = << 1 >>
    /\ mounts = {}
    /\ initRoot = NoNode
    /\ scan = 1
    /\ loadFailed = FALSE
    /\ filesLoaded = 0
    /\ pc = "FindModule"

\* One iteration of TryFindInitdisk's module loop.  The first module that
\* matches gets an /initdisk mountpoint (ASSERT on failure) and a new
\* tempfs; the loop then ends.
FindModule ==
    /\ pc = "FindModule"
    /\ IF scan > Len(BootModules)
       THEN /\ pc' = "Done"
            /\ UNCHANGED <<nodes, initRoot, scan>>
       ELSE IF ~CmdlineMatches(BootModules[scan].cmdline)
       THEN /\ scan' = scan + 1
            /\ UNCHANGED <<nodes, initRoot, pc>>
       ELSE \E ok \in IF CreateMayFail THEN BOOLEAN ELSE {TRUE} :
            IF ~ok THEN /\ pc' = "Panic"
                        /\ UNCHANGED <<nodes, initRoot, scan>>
            ELSE LET withMount == AddNode(nodes, 1, 1, "initdisk", "Directory")
                     fsId == Len(filesystems) + 1
                 IN /\ nodes' = AddNode(withMount, fsId, NoNode, "", "Directory")
                    /\ initRoot' = Len(withMount) + 1
                    /\ scan' = 1
                    /\ pc' = "Load"
    /\ UNCHANGED <<filesystems, mounts, loadFailed, filesLoaded>>

\* The archive of the module being loaded.
Archive == BootModules[CHOOSE i \in DOMAIN BootModules :
               /\ CmdlineMatches(BootModules[i].cmdline)
               /\ \A j \in 1..i - 1 : ~CmdlineMatches(BootModules[j].cmdline)].archive

\* One iteration of LoadInitdisk's loop: two zero headers end it, other
\* entry types are skipped, a file is loaded.
LoadStep ==
    /\ pc = "Load"
    /\ IF scan > Len(Archive)
          \/ (Archive[scan].kind = "Zero" /\ scan < Len(Archive) /\ Archive[scan + 1].kind = "Zero")
       THEN /\ pc' = "Mount"
            /\ UNCHANGED <<nodes, scan, loadFailed, filesLoaded>>
       ELSE IF Archive[scan].kind # "File"
       THEN /\ scan' = scan + 1
            /\ UNCHANGED <<nodes, loadFailed, filesLoaded, pc>>
       ELSE \E failAt \in FailChoices(Archive[scan]) :
            LET r == LoadInitdiskFile(nodes, initRoot, Archive[scan], failAt) IN
            /\ nodes' = r.ns
            /\ loadFailed' = (loadFailed \/ ~r.ok)
            /\ filesLoaded' = filesLoaded + 1
            /\ scan' = scan + 1
            /\ UNCHANGED pc
    /\ UNCHANGED <<filesystems, mounts, initRoot>>

\* filesystems.EmplaceBack(initdiskFs) and Mount on the mountpoint (the
\* node made just before the tempfs root); on failure the tempfs is
\* unmounted, popped and deleted.
MountInitdisk ==
    /\ pc = "Mount"
    /\ \E mounted \in IF MountMayFail THEN BOOLEAN ELSE {TRUE} :
        IF mounted
        THEN /\ filesystems' = Append(filesystems, initRoot)
             /\ mounts' = mounts \cup {<<initRoot - 1, initRoot>>}
             /\ UNCHANGED initRoot
        ELSE /\ initRoot' = NoNode
             /\ UNCHANGED <<filesystems, mounts>>
    /\ pc' = "Done"
    /\ UNCHANGED <<nodes, scan, loadFailed, filesLoaded>>

Terminated == pc \in {"Done", "Panic"} /\ UNCHANGED vars

Next == FindModule \/ LoadStep \/ MountInitdisk \/ Terminated

Spec == Init /\ [][Next]_vars

-----------------------------------------------------------------------------
(* Properties *)

TypeOK ==
    /\ filesystems \in Seq(Nat)
    /\ initRoot \in 0..Len(nodes)
    /\ pc \in {"FindModule", "Load", "Mount", "Done", "Panic"}

\* The file entries of the archive before its end marker.
ArchiveFiles(a) ==
    LET ends == {i \in 1..Len(a) - 1 : a[i].kind = "Zero" /\ a[i + 1].kind = "Zero"}
        last == IF ends = {} THEN Len(a) ELSE CHOOSE e \in ends : \A f \in ends : e <= f
    IN {a[i].path : i \in {j \in 1..last : a[j].kind = "File"}}

\* Once start-up is done, every file of the boot module named exactly
\* "northport-initdisk" is found by VfsLookup at /initdisk/<its path>,
\* unless a Create failed or the mount failed.
InitdiskFilesResolve ==
    (pc = "Done" /\ ~loadFailed /\ initRoot # NoNode) =>
        \A i \in DOMAIN BootModules :
            BootModules[i].cmdline = InitdiskName =>
                \A p \in ArchiveFiles(BootModules[i].archive) :
                    LET n == VfsLookup([abs |-> TRUE, segs |-> <<"initdisk">> \o p]) IN
                    n # NoNode /\ nodes[n].type = "File"

=============================================================================
