--------------------------- MODULE MCThreadPlacement ---------------------------
(***************************************************************************)
(* An instance of ThreadPlacement: two threads that set priorities, for    *)
(* themselves and for each other, or choose cpus.  Neither has to do with  *)
(* the other, so a behaviour is about one of them.  A byte has two bits and*)
(* a word four; of the machines, one needs less than a word, one more, and *)
(* two have a gap between the ids of their cpus, where the last id still   *)
(* has a bit in the set or has none.                                       *)
(***************************************************************************)
EXTENDS ThreadPlacement

CONSTANTS t1, t2

Symmetry == Permutations(Threads)

VARIABLE about

MCMachines == {{0, 1, 2}, 0..4, {0, 1, 3}, {0, 1, 4, 6}}
MCIds == {0, 1, 3, 4, 9}

MCInit == Init /\ about \in {"priorities", "cpus"}

MCNext ==
  /\ UNCHANGED about
  /\ \/ about = "priorities" /\ PriorityNext
     \/ about = "cpus" /\ CpuNext

MCSpec == MCInit /\ [][MCNext]_<<vars, about>>
================================================================================
