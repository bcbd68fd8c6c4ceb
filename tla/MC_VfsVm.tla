------------------------------- MODULE MC_VfsVm -------------------------------
(* Small instance of VfsVm: two threads, a three-granule address space   *)
(* (granule 2), one five-byte file.  Request lengths 1 and 3 round up to   *)
(* one and two granules (three and four with guard granules); offset 1 is  *)
(* misaligned; ranges run past the end of the file, so partial eager       *)
(* backing, map-ahead windows clamped at the range top and cache failures  *)
(* all occur.  Faults touch a misaligned address and two aligned ones.     *)
EXTENDS VfsVm, TLC

CONSTANTS t1, t2, f1

MCThreads == {t1, t2}
MCFiles == {f1}
MCFileSize == [f \in {f1} |-> 5]
MCFileOffsets == {0, 1}
MCRequestLengths == {1, 3}
MCFaultAddrs == {1, 2, 4}
Symm == Permutations(MCThreads)
==============================================================================
