--------------------------- MODULE MCProcessTable ---------------------------
(***************************************************************************)
(* Small instances of ProcessTable: init, which forks and waits, and two   *)
(* programs: one that kills, and one that forks, waits and sleeps.  Each   *)
(* slot has its own calls to keep the number of states down.               *)
(***************************************************************************)
EXTENDS ProcessTable

FamilyCalls == [p \in Procs |-> IF p = 1 THEN {"fork", "kill"} ELSE {"fork", "wait", "sleep"}]
SafetyCalls == [FamilyCalls EXCEPT ![1] = {"kill", "shmctl"}]

\* sleep(1), and sleep(-1), which as a uint is the longest sleep there is.
Once == {1}
Always == {-1}
=============================================================================
