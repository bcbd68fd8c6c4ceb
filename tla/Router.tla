-------------------------------- MODULE Router --------------------------------
(***************************************************************************)
(* The interrupt router (src/kernel/interrupts/Router.cpp): one route tree *)
(* per core, keyed by vector and guarded by that core's InterruptLock.     *)
(*                                                                         *)
(* Each route object belongs to a driver thread that runs on a fixed core  *)
(* and calls AddRoute, ClaimRoute and RemoveRoute on it; each of those     *)
(* calls does all its tree work under one hold of the lock and is one      *)
(* step.  Dispatch runs in interrupt context on its own core: it finds the *)
(* route under the lock, releases it, then runs the callback.  Nothing on  *)
(* the same core runs between those two steps (the interrupt is not        *)
(* preempted by threads), but threads on other cores do.                   *)
(*                                                                         *)
(* Owners follow the protocol: they add or claim an unregistered route and *)
(* remove only a registered one.                                           *)
(***************************************************************************)
EXTENDS Integers, FiniteSets

CONSTANTS
    Cores,               \* core ids
    Routes,              \* InterruptRoute objects
    OwnerCore,           \* OwnerCore[r]: the core the owner of route r runs on
    Vectors,             \* vectors a caller may claim or an interrupt arrive on
    IntVectorAllocBase,  \* first vector AddRoute hands out
    IntVectorAllocLimit, \* one past the last vector AddRoute hands out
    NoCoreAffinity,      \* route->core of an unregistered route
    NoVector,            \* -1ul, route->vector of an unregistered route
    NoRoute              \* nullptr

ASSUME OwnerCore \in [Routes -> Cores]
ASSUME IntVectorAllocBase..IntVectorAllocLimit - 1 \subseteq Vectors

VARIABLES
    inited,     \* cores whose InitCore has run (routing in the routings list)
    tree,       \* tree[c]: the routes in core c's IntrTree
    rcore,      \* rcore[r]: route->core
    rvec,       \* rvec[r]: route->vector
    ostate,     \* ostate[r]: the owner's view, "None", "Added" or "Claimed"
    inflight    \* inflight[c]: the route Dispatch on core c found and is about to call

vars == <<inited, tree, rcore, rvec, ostate, inflight>>

AllocVectors == IntVectorAllocBase..IntVectorAllocLimit - 1

-----------------------------------------------------------------------------
(* GetRouting, FindRoute *)

\* GetRouting(core) finds a routing only for a core that ran InitCore.
HasRouting(c) == c \in inited

\* FindRoute(core, vector): the route in core's tree with that vector.
FindRoute(c, v) ==
    IF \E r \in tree[c] : rvec[r] = v
    THEN CHOOSE r \in tree[c] : rvec[r] = v
    ELSE NoRoute

\* Mutant: the allocation loop runs to IntVectorAllocLimit inclusive.
FreeAllocVectorsInclusive(c) ==
    {v \in IntVectorAllocBase..IntVectorAllocLimit : FindRoute(c, v) = NoRoute}

\* The vectors AddRoute's loop finds free.
FreeAllocVectors(c) == {v \in AllocVectors : FindRoute(c, v) = NoRoute}

LowestOf(S) == CHOOSE v \in S : \A w \in S : v <= w

-----------------------------------------------------------------------------
Init ==
    /\ inited = {}
    /\ tree = [c \in Cores |-> {}]
    /\ rcore = [r \in Routes |-> NoCoreAffinity]
    /\ rvec = [r \in Routes |-> NoVector]
    /\ ostate = [r \in Routes |-> "None"]
    /\ inflight = [c \in Cores |-> NoRoute]

\* InitCore on core c: a routing published in CoreLocal and the list.
InitCore(c) ==
    /\ c \notin inited
    /\ inited' = inited \cup {c}
    /\ UNCHANGED <<tree, rcore, rvec, ostate, inflight>>

\* The owner of r runs only once its core is up, and not while its core is
\* inside an interrupt handler.
OwnerRuns(r) == OwnerCore[r] \in inited /\ inflight[OwnerCore[r]] = NoRoute

\* AddRoute(route, core): core NoCoreAffinity means the caller's core; the
\* lowest free vector in [IntVectorAllocBase, IntVectorAllocLimit) is taken
\* under the routing's lock.  No routing or no free vector returns false
\* with route->vector = -1 (and route->core left at core when the routing
\* exists).
AddRoute(r) ==
    /\ OwnerRuns(r)
    /\ ostate[r] = "None"
    /\ \E arg \in Cores \cup {NoCoreAffinity} :
        LET c == IF arg = NoCoreAffinity THEN OwnerCore[r] ELSE arg IN
        IF HasRouting(c) /\ FreeAllocVectors(c) # {}
        THEN LET v == LowestOf(FreeAllocVectors(c)) IN
             /\ tree' = [tree EXCEPT ![c] = @ \cup {r}]
             /\ rcore' = [rcore EXCEPT ![r] = c]
             /\ rvec' = [rvec EXCEPT ![r] = v]
             /\ ostate' = [ostate EXCEPT ![r] = "Added"]
        ELSE /\ rcore' = [rcore EXCEPT ![r] = c]
             /\ rvec' = [rvec EXCEPT ![r] = NoVector]
             /\ UNCHANGED <<tree, ostate>>
    /\ UNCHANGED <<inited, inflight>>

\* Mutant: ClaimRoute inserts without looking for a route on the vector.
ClaimTakes(c, v) == TRUE

\* ClaimRoute's check under the lock: the vector is free on the core.
ClaimFree(c, v) == FindRoute(c, v) = NoRoute

\* ClaimRoute(route, core, vector): resets the route's fields, then inserts
\* it if core has a routing and no route holds the vector.
ClaimRoute(r) ==
    /\ OwnerRuns(r)
    /\ ostate[r] = "None"
    /\ \E c \in Cores, v \in Vectors :
        IF HasRouting(c) /\ ClaimFree(c, v)
        THEN /\ tree' = [tree EXCEPT ![c] = @ \cup {r}]
             /\ rcore' = [rcore EXCEPT ![r] = c]
             /\ rvec' = [rvec EXCEPT ![r] = v]
             /\ ostate' = [ostate EXCEPT ![r] = "Claimed"]
        ELSE /\ rcore' = [rcore EXCEPT ![r] = NoCoreAffinity]
             /\ rvec' = [rvec EXCEPT ![r] = NoVector]
             /\ UNCHANGED <<tree, ostate>>
    /\ UNCHANGED <<inited, inflight>>

\* RemoveRoute(route): out of route->core's tree under the lock, then the
\* fields reset.
RemoveRoute(r) ==
    /\ OwnerRuns(r)
    /\ ostate[r] \in {"Added", "Claimed"}
    /\ tree' = [tree EXCEPT ![rcore[r]] = @ \ {r}]
    /\ rcore' = [rcore EXCEPT ![r] = NoCoreAffinity]
    /\ rvec' = [rvec EXCEPT ![r] = NoVector]
    /\ ostate' = [ostate EXCEPT ![r] = "None"]
    /\ UNCHANGED <<inited, inflight>>

\* Dispatch(vector) on core c, first half: FindRoute under the lock, which
\* is then released.  No route drops the interrupt.
DispatchFind(c) ==
    /\ c \in inited
    /\ inflight[c] = NoRoute
    /\ \E v \in Vectors :
        /\ FindRoute(c, v) # NoRoute
        /\ inflight' = [inflight EXCEPT ![c] = FindRoute(c, v)]
    /\ UNCHANGED <<inited, tree, rcore, rvec, ostate>>

\* Second half: route->Callback(route->callbackArg), then QueueDpc, with no
\* lock held.
DispatchCall(c) ==
    /\ inflight[c] # NoRoute
    /\ inflight' = [inflight EXCEPT ![c] = NoRoute]
    /\ UNCHANGED <<inited, tree, rcore, rvec, ostate>>

Next ==
    \/ \E c \in Cores : InitCore(c) \/ DispatchFind(c) \/ DispatchCall(c)
    \/ \E r \in Routes : AddRoute(r) \/ ClaimRoute(r) \/ RemoveRoute(r)

Spec == Init /\ [][Next]_vars

-----------------------------------------------------------------------------
(* Properties *)

TypeOK ==
    /\ inited \subseteq Cores
    /\ tree \in [Cores -> SUBSET Routes]
    /\ rcore \in [Routes -> Cores \cup {NoCoreAffinity}]
    /\ rvec \in [Routes -> Vectors \cup {NoVector}]
    /\ inflight \in [Cores -> Routes \cup {NoRoute}]

\* Each route is in at most one core's tree, its route->core and
\* route->vector say where, and no two routes of a core share a vector, so
\* FindRoute's search by vector is unambiguous whatever the owners on the
\* different cores add, claim and remove.
RouteTablesConsistent ==
    /\ \A c \in Cores, r \in Routes :
        r \in tree[c] => rcore[r] = c /\ rvec[r] # NoVector
    /\ \A c \in Cores : \A r1, r2 \in tree[c] : r1 # r2 => rvec[r1] # rvec[r2]

\* A route's callback never runs once its RemoveRoute has returned: a
\* Dispatch on another core that found the route before the removal still
\* calls it after the lock is dropped.
NoCallbackAfterRemove ==
    \A c \in Cores : inflight[c] # NoRoute => inflight[c] \in tree[c]

=============================================================================
