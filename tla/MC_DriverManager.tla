-------------------------- MODULE MC_DriverManager --------------------------
(* Three manifests and two descriptors, each added by its own thread.  m1  *)
(* and m3 share load name (1, "a"), so whichever registers second is       *)
(* refused; m2 has (2, "a"), the same bytes with another type.  d1 wants   *)
(* (1, "a") and d2 (2, "a").  Each driver may load and start or fail in    *)
(* one of the ways EnsureRunning handles.  m2 is the qemu framebuffer     *)
(* driver: its AddDevice handler is GraphicsAdaptor::Init, whose setup may *)
(* fail, and which adds an API owned by the new instance; m1 may refuse   *)
(* d1.  A sixth thread adds the device API a1 for the kernel.              *)
EXTENDS DriverManager

CONSTANTS p1, p2, p3, p4, p5, p6, m1, m2, m3, d1, d2, a1

MCProcs == {p1, p2, p3, p4, p5, p6}
MCOps ==
    p1 :> [kind |-> "manifest", m |-> m1, loadNow |-> TRUE] @@
    p2 :> [kind |-> "manifest", m |-> m2, loadNow |-> FALSE] @@
    p3 :> [kind |-> "manifest", m |-> m3, loadNow |-> FALSE] @@
    p4 :> [kind |-> "descriptor", d |-> d1] @@
    p5 :> [kind |-> "descriptor", d |-> d2] @@
    p6 :> [kind |-> "api", a |-> a1]
MCManifests == {m1, m2, m3}
MCDevices == {d1, d2}
MCFriendlyName == m1 :> "ahci" @@ m2 :> "qemu" @@ m3 :> "sata"
MCLoadNames == m1 :> {[type |-> 1, str |-> "a"]} @@ m2 :> {[type |-> 2, str |-> "a"]}
               @@ m3 :> {[type |-> 1, str |-> "a"]}
MCDevLoadNames == d1 :> {[type |-> 1, str |-> "a"]} @@ d2 :> {[type |-> 2, str |-> "a"]}
MCLoadOutcomes == m1 :> {"ok", "init_refused"} @@ m2 :> {"ok", "elf_fail"}
                  @@ m3 :> {"ok", "no_manifest"}
MCMayRefuse == {<<m1, d1>>}
MCFbDrivers == {m2}
MCApis == {a1}

\* AddManifest's loop re-attaches a device without end, each time with a
\* new id: ids are explored up to MaxId.
MaxId == 7
IdBound == idAlloc <= MaxId

\* Every driver loads, starts and accepts every device.
MCLoadOutcomesOk == [m \in MCManifests |-> {"ok"}]
MCMayRefuseNone == {}
=============================================================================
