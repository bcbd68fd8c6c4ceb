---------------------------- MODULE MC_LogBuffer ----------------------------
(***************************************************************************)
(* Two concurrent Log calls of 3 and 2 bytes into a 14-byte buffer with a  *)
(* 2-byte QueueItem (so each reservation is message + 4), and three early  *)
(* outputs registering into two slots.  One flush pops at most two items, *)
(* so the cap of the flush loop is reached.  With head starting at 0 the   *)
(* two reservations (7 + 6 bytes) fit without wrapping; the wrap runs      *)
(* start head anywhere in the early buffer.  Both writers run on core c1, *)
(* whose InitCoreLogBuffers may run before, between or after their Log    *)
(* calls, so messages come from both buffers.                             *)
(***************************************************************************)
EXTENDS LogBuffer

CONSTANTS w1, w2, o1, o2, o3, c1, x1

MCWriters == {w1, w2}
MCOutputs == {o1, o2, o3}
MCCores == {c1}
MCWriterCore == [w \in MCWriters |-> c1]
MCMsgLen == [w \in MCWriters |-> IF w = w1 THEN 3 ELSE 2]
MCHeadStartsNoWrap == {0}
MCHeadStartsAll == 0..13

=============================================================================
