------------------------------ MODULE MC_Terminal ------------------------------
(* Five framebuffers, the second too short for the stats bar, fetched in   *)
(* batches of four: the first batch is full, so the loop fetches a second, *)
(* short one.  Three Write callbacks are enough to start auto-refresh,     *)
(* write while it is on, and write again after BeginPanic.                 *)
EXTENDS Terminal

MCFramebuffers == <<TRUE, FALSE, TRUE, TRUE, TRUE>>
================================================================================
