------------------------------- MODULE Terminal -------------------------------
(***************************************************************************)
(* The graphical terminal log output (src/kernel/debug/TerminalDriver.cpp). *)
(* InitEarlyTerminals asks the loader for framebuffers in batches of        *)
(* fbStore's size and makes a head (a log renderer and a stats renderer) of *)
(* each framebuffer tall enough for the two-line stats bar; if any head was *)
(* made, the terminal is registered as a log output.  The log subsystem     *)
(* then calls its Write callback for every message and BeginPanic once on   *)
(* the way down.  The stats bar is redrawn by UpdateRenderedStats: inline   *)
(* while there are no threads, afterwards by refreshStatsEvent, a clock     *)
(* event that each run queues again for as long as autoRefreshStarted is    *)
(* set.                                                                     *)
(*                                                                         *)
(* Not under src/: the loader's GetFramebuffers (it hands out the given    *)
(* framebuffers in order), Terminal::Init (it may fail), the moment the    *)
(* first thread runs, and the clock, which expires a queued event once per *)
(* time it was queued and then runs its DPC.  What is drawn is left out: a renderer is       *)
(* either initialised or not.                                              *)
(***************************************************************************)
EXTENDS Integers, Sequences, SequencesExt

CONSTANTS
    Framebuffers,   \* the loader's framebuffers: TRUE when taller than the stats bar
    FbsSize,        \* the size of fbStore, the batch GetFramebuffers fills
    MaxWrites       \* bound on the Write callbacks

VARIABLES
    fbsOffset,          \* framebuffers fetched so far
    initDone,           \* InitEarlyTerminals has returned
    termHeads,          \* the heads, newest first: [logReady |-> BOOLEAN]
    registered,         \* AddLogOutput(&termLogOutput) was called
    autoRefreshStarted,
    queued,             \* times refreshStatsEvent sits in the clock queue
    dpcQueued,          \* its expired runs whose DPC has not run yet
    threadRunning,      \* CoreLocal()[LocalPtr::Thread] != nullptr
    panicked,           \* BeginPanic was called
    writes              \* Write callbacks so far

vars == <<fbsOffset, initDone, termHeads, registered, autoRefreshStarted,
          queued, dpcQueued, threadRunning, panicked, writes>>

-----------------------------------------------------------------------------
\* GetFramebuffers(fbs, offset): up to FbsSize framebuffers from offset on.
GetFramebuffers(offset) ==
    SubSeq(Framebuffers, offset + 1, IF Len(Framebuffers) - offset < FbsSize
                                     THEN Len(Framebuffers) ELSE offset + FbsSize)

\* AddFramebuffer(fb) for each fb of a batch, init[i] being the results of
\* the two Terminal::Init calls for the i-th.  A framebuffer not taller
\* than the stats bar fails VALIDATE_; otherwise only the second result is
\* kept (success is overwritten), so a head is made whenever the stats
\* renderer initialised, whatever the log renderer did.  PushFront puts
\* the newest head first.
AddFramebuffers(batch, init) ==
    LET made == SelectSeq([k \in 1..Len(batch) |->
                              [tall |-> batch[k], log |-> init[k].log, stats |-> init[k].stats]],
                          LAMBDA f : f.tall /\ f.stats)
    IN Reverse([i \in 1..Len(made) |-> [logReady |-> made[i].log]])

\* Mutant: UpdateRenderedStats never queues the event again.
UpdateRenderedStatsNoRequeue(auto, q) == q

\* UpdateRenderedStats: the stats bar of every head is redrawn, and the
\* event queued again while auto-refresh is on.  Result: the new count of
\* queued events.
UpdateRenderedStats(auto, q) == IF auto THEN q + 1 ELSE q

-----------------------------------------------------------------------------
\* InitEarlyTerminals has set autoRefreshStarted and refreshStatsEvent up.
Init ==
    /\ fbsOffset = 0
    /\ initDone = FALSE
    /\ termHeads = << >>
    /\ registered = FALSE
    /\ autoRefreshStarted = FALSE
    /\ queued = 0
    /\ dpcQueued = 0
    /\ threadRunning = FALSE
    /\ panicked = FALSE
    /\ writes = 0

\* One iteration of InitEarlyTerminals' loop: a batch fetched and each
\* framebuffer of it added; a short batch ends the loop, and the output is
\* registered when there is a head.
InitStep ==
    /\ ~initDone
    /\ LET batch == GetFramebuffers(fbsOffset) IN
       \E init \in [1..Len(batch) -> [log : BOOLEAN, stats : BOOLEAN]] :
         /\ termHeads' = AddFramebuffers(batch, init) \o termHeads
         /\ fbsOffset' = fbsOffset + Len(batch)
         /\ initDone' = (Len(batch) < FbsSize)
         /\ registered' = (initDone' /\ termHeads' # << >>)
    /\ UNCHANGED <<autoRefreshStarted, queued, dpcQueued, threadRunning, panicked, writes>>

\* The scheduler starts running threads.
ThreadStart ==
    /\ ~threadRunning
    /\ threadRunning' = TRUE
    /\ UNCHANGED <<fbsOffset, initDone, termHeads, registered, autoRefreshStarted,
                   queued, dpcQueued, panicked, writes>>

\* Mutant: TerminalWriteCallback without its early return when auto-refresh
\* is already on.
TerminalWriteCallbackNoEarlyReturn ==
    /\ registered
    /\ writes < MaxWrites
    /\ writes' = writes + 1
    /\ IF ~threadRunning
       THEN UNCHANGED <<autoRefreshStarted, queued>>
       ELSE /\ autoRefreshStarted' = TRUE
            /\ queued' = queued + 1
    /\ UNCHANGED <<fbsOffset, initDone, termHeads, registered, threadRunning, panicked, dpcQueued>>

\* TerminalWriteCallback: the text to every head's log renderer; then,
\* unless auto-refresh is on, start it by queueing the event when a thread
\* runs, or redraw the stats inline.
TerminalWriteCallback ==
    /\ registered
    /\ writes < MaxWrites
    /\ writes' = writes + 1
    /\ IF autoRefreshStarted \/ ~threadRunning
       THEN UNCHANGED <<autoRefreshStarted, queued>>
       ELSE /\ autoRefreshStarted' = TRUE
            /\ queued' = queued + 1
    /\ UNCHANGED <<fbsOffset, initDone, termHeads, registered, threadRunning, panicked, dpcQueued>>

\* The clock takes one queued refreshStatsEvent off its queue when it
\* expires and queues the event's DPC.
ClockExpire ==
    /\ queued > 0
    /\ queued' = queued - 1
    /\ dpcQueued' = dpcQueued + 1
    /\ UNCHANGED <<fbsOffset, initDone, termHeads, registered, autoRefreshStarted,
                   threadRunning, panicked, writes>>

\* The event's DPC runs: UpdateRenderedStats.
RefreshStats ==
    /\ dpcQueued > 0
    /\ dpcQueued' = dpcQueued - 1
    /\ queued' = UpdateRenderedStats(autoRefreshStarted, queued)
    /\ UNCHANGED <<fbsOffset, initDone, termHeads, registered, autoRefreshStarted,
                   threadRunning, panicked, writes>>

\* TerminalBeginPanic: auto-refresh off, then per head the panic palettes,
\* a clear and UpdateRenderedStats, which no longer queues the event.  An
\* event already queued stays queued.
TerminalBeginPanic ==
    /\ registered
    /\ ~panicked
    /\ panicked' = TRUE
    /\ autoRefreshStarted' = FALSE
    /\ queued' = UpdateRenderedStats(FALSE, queued)
    /\ UNCHANGED <<fbsOffset, initDone, termHeads, registered, threadRunning, writes, dpcQueued>>

\* Nothing more happens: every write made, no event queued.
Terminated ==
    /\ initDone
    /\ threadRunning
    /\ queued = 0 /\ dpcQueued = 0
    /\ registered => panicked /\ writes = MaxWrites
    /\ UNCHANGED vars

Next ==
    \/ InitStep
    \/ ThreadStart
    \/ TerminalWriteCallback
    \/ ClockExpire
    \/ RefreshStats
    \/ TerminalBeginPanic
    \/ Terminated

Spec == Init /\ [][Next]_vars

\* The clock expires every event queued in it and its DPCs run: neither
\* step is postponed forever.  Nothing else is assumed to happen.
Fairness == WF_vars(ClockExpire) /\ WF_vars(RefreshStats)

FairSpec == Spec /\ Fairness

-----------------------------------------------------------------------------
(* Properties *)

\* The stats bar never stops refreshing while auto-refresh stays on: a
\* behaviour in which autoRefreshStarted is set again and again runs
\* refreshStatsEvent again and again, because TerminalWriteCallback queued
\* it when it turned auto-refresh on and UpdateRenderedStats queues it
\* again on every run until BeginPanic turns auto-refresh off.
StatsKeepRefreshing == []<>autoRefreshStarted => []<><<RefreshStats>>_vars

\* Until a panic, refreshStatsEvent is never queued while it is already in
\* the clock queue: TerminalWriteCallback returns early once auto-refresh
\* is on, and only the event's own run queues it again.
EventQueuedOnceBeforePanic == ~panicked => queued <= 1

\* refreshStatsEvent is never queued while it is already in the clock
\* queue.  A Write after BeginPanic finds auto-refresh off and queues the
\* event a second time while the run queued before the panic is pending.
EventQueuedOnce == queued <= 1

=============================================================================
