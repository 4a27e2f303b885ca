--------------------------- MODULE MCSharedMemory ---------------------------
EXTENDS SharedMemory, TLC

(***************************************************************************)
(* Small instances of SharedMemory: the sets of shmat flags the runs       *)
(* choose from, and the symmetries.  No operation tells physical pages     *)
(* apart, nor processes, but for initproc.                                 *)
(***************************************************************************)
PageSymmetry == Permutations(Pages)
Symmetry == Permutations(Pages) \cup Permutations(Procs \ {initproc})

NoFlags == {{}}
RemapFlags == {{}, {"SHM_REMAP", "SHM_RDONLY"}}
=============================================================================
