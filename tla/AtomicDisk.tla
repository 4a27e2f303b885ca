----------------------------- MODULE AtomicDisk -----------------------------
(***************************************************************************)
(* What the log promises the file system: a disk on which the writes of    *)
(* the system calls become durable together, at moments when no call is in *)
(* progress, and a crash loses exactly what is not durable yet.            *)
(***************************************************************************)
CONSTANTS Procs, Blocks, Values, InitialValue

VARIABLES
    durable,   \* the contents of the disk after a crash and recovery
    current,   \* what the file system reads
    active     \* the processes between begin_op and end_op

vars == <<durable, current, active>>

Init ==
    /\ durable = [b \in Blocks |-> InitialValue]
    /\ current = durable
    /\ active = {}

Begin(p) ==
    /\ p \notin active
    /\ active' = active \cup {p}
    /\ UNCHANGED <<durable, current>>

Write(p, b, v) ==
    /\ p \in active
    /\ current' = [current EXCEPT ![b] = v]
    /\ UNCHANGED <<durable, active>>

End(p) ==
    /\ p \in active
    /\ active' = active \ {p}
    /\ UNCHANGED <<durable, current>>

Commit ==
    /\ active = {}
    /\ durable' = current
    /\ UNCHANGED <<current, active>>

Crash ==
    /\ current' = durable
    /\ active' = {}
    /\ UNCHANGED durable

Next ==
    \/ \E p \in Procs : Begin(p) \/ End(p) \/ \E b \in Blocks, v \in Values : Write(p, b, v)
    \/ Commit
    \/ Crash

Spec == Init /\ [][Next]_vars
=============================================================================
