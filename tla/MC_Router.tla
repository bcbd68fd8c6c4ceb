------------------------------- MODULE MC_Router -------------------------------
(* Two cores, three routes (two owned by threads on c1, one on c2), three *)
(* vectors of which 1 and 2 are in the allocation range: AddRoute can run *)
(* out of vectors, ClaimRoute can take a vector inside or outside the      *)
(* range, and routes can be added to the other core's table.               *)
EXTENDS Router, TLC

CONSTANTS c1, c2, r1, r2, r3

MCCores == {c1, c2}
MCRoutes == {r1, r2, r3}
MCOwnerCore == r1 :> c1 @@ r2 :> c2 @@ r3 :> c1
MCVectors == 0..2
================================================================================
