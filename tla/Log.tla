-------------------------------- MODULE Log ---------------------------------
(***************************************************************************)
(* The redo log of log.c, with crashes.  A step is a section under         *)
(* log.lock or the write of one disk block; a crash can come between any   *)
(* two of them, recovery included.  sleep and wakeup are atomic with       *)
(* respect to log.lock, as the module ProcessTable shows.                  *)
(***************************************************************************)
EXTENDS Integers, Sequences, SequencesExt, FiniteSets

CONSTANTS
    Procs,         \* processes making file system calls
    Blocks,        \* home blocks
    NoBlock,
    Values,        \* contents of a block
    InitialValue,
    MAXOPBLOCKS,   \* blocks a call reserves
    LOGSIZE,       \* entries of logheader.block
    Nlog,          \* blocks of the log on disk, header included (sb.nlog)
    OpBlocks       \* blocks a call really writes

ASSUME BlocksAssumption == NoBlock \notin Blocks /\ InitialValue \in Values
ASSUME SizesAssumption ==
    /\ MAXOPBLOCKS \in Nat \ {0}
    /\ LOGSIZE \in Nat /\ MAXOPBLOCKS <= LOGSIZE
    /\ Nlog \in Nat
    /\ OpBlocks \in 0 .. MAXOPBLOCKS

VARIABLES
    home,          \* disk: the blocks in place
    logblk,        \* disk: the blocks after the header
    head,          \* disk: the header, as the sequence of its block numbers
    cache,         \* contents of the blocks as bread() returns them
    lh,            \* log.lh
    outstanding, committing,
    up,            \* recovery is over
    phase, tail,   \* how far commit() or recover_from_log() is
    pc,            \* where a process is
    buf,           \* the buffer it has locked
    touched,       \* the blocks its call has written
    halt

diskVars == <<home, logblk, head>>
logVars  == <<lh, outstanding, committing>>
opVars   == <<pc, buf, touched>>
vars     == <<diskVars, cache, logVars, up, phase, tail, opVars, halt>>

-----------------------------------------------------------------------------
\* A fresh file system; the first boot finds an empty log.
Init ==
    /\ home = [b \in Blocks |-> InitialValue]
    /\ logblk = [i \in 1 .. LOGSIZE |-> InitialValue]
    /\ head = <<>>
    /\ cache = home
    /\ lh = <<>> /\ outstanding = 0 /\ committing = FALSE
    /\ up = FALSE /\ phase = "boot" /\ tail = 0
    /\ pc = [p \in Procs |-> "idle"]
    /\ buf = [p \in Procs |-> NoBlock]
    /\ touched = [p \in Procs |-> {}]
    /\ halt = FALSE

Running == up /\ ~halt

NoWakeup(s) == s   \* mutant
\* wakeup(&log), applied to the labels s.
Wakeup(s) == [p \in Procs |-> IF s[p] = "asleep" THEN "awake" ELSE s[p]]

(***************************************************************************)
(* begin_op: a process that was woken tests again.                         *)
(***************************************************************************)
NotItself(n) == n + outstanding * MAXOPBLOCKS   \* mutant: this call is not counted
Reserved(n) == n + (outstanding + 1) * MAXOPBLOCKS

OnlySpace == Reserved(Len(lh)) > LOGSIZE   \* mutant: does not wait for a commit
MustWait == committing \/ Reserved(Len(lh)) > LOGSIZE

CountsWaiters(p) ==   \* mutant: outstanding is raised before the test
    /\ Running
    /\ pc[p] \in {"idle", "awake"}
    /\ outstanding' = outstanding + 1
    /\ pc' = [pc EXCEPT ![p] = IF MustWait THEN "asleep" ELSE "op"]
    /\ UNCHANGED <<diskVars, cache, lh, committing, up, phase, tail, buf, touched, halt>>

BeginOp(p) ==
    /\ Running
    /\ pc[p] \in {"idle", "awake"}
    /\ \/ /\ MustWait
          /\ pc' = [pc EXCEPT ![p] = "asleep"]
          /\ UNCHANGED outstanding
       \/ /\ ~MustWait
          /\ outstanding' = outstanding + 1
          /\ pc' = [pc EXCEPT ![p] = "op"]
    /\ UNCHANGED <<diskVars, cache, lh, committing, up, phase, tail, buf, touched, halt>>

(***************************************************************************)
(* log_write: the caller has the buffer locked and has changed it.  The    *)
(* tests for a panic read the header without the lock.                     *)
(***************************************************************************)
TooBig == Len(lh) >= LOGSIZE \/ Len(lh) >= Nlog - 1

LogCheck(p, b, v) ==
    /\ Running
    /\ pc[p] = "op"
    /\ \A q \in Procs : buf[q] # b
    /\ Cardinality(touched[p] \cup {b}) <= OpBlocks
    /\ cache' = [cache EXCEPT ![b] = v]
    /\ buf' = [buf EXCEPT ![p] = b]
    /\ pc' = [pc EXCEPT ![p] = "write"]
    /\ halt' = (TooBig \/ outstanding < 1)
    /\ UNCHANGED <<diskVars, logVars, up, phase, tail, touched>>

LogAppend(p) ==
    /\ Running
    /\ pc[p] = "write"
    /\ lh' = IF Contains(lh, buf[p]) THEN lh ELSE Append(lh, buf[p])
    /\ touched' = [touched EXCEPT ![p] = @ \cup {buf[p]}]
    /\ buf' = [buf EXCEPT ![p] = NoBlock]
    /\ pc' = [pc EXCEPT ![p] = "op"]
    /\ UNCHANGED <<diskVars, cache, outstanding, committing, up, phase, tail, halt>>

(***************************************************************************)
(* end_op and commit.                                                      *)
(***************************************************************************)
HeadFirst(ph) ==   \* mutant: the header is written before the log blocks
    CASE ph = "start" -> "head" [] ph = "head" -> "log" [] ph = "log" -> "install"
      [] ph = "install" -> "erase" [] ph = "erase" -> "end"
After(ph) ==
    CASE ph = "start" -> "log" [] ph = "log" -> "head" [] ph = "head" -> "install"
      [] ph = "install" -> "erase" [] ph = "erase" -> "end"

EndOp(p) ==
    /\ Running
    /\ pc[p] = "op"
    /\ touched' = [touched EXCEPT ![p] = {}]
    /\ outstanding' = outstanding - 1
    /\ IF committing
       THEN halt' = TRUE /\ UNCHANGED <<pc, committing, phase, tail>>
       ELSE /\ IF outstanding = 1
               THEN /\ committing' = TRUE
                    /\ phase' = After("start") /\ tail' = 0
                    /\ pc' = [pc EXCEPT ![p] = "commit"]
               ELSE /\ pc' = Wakeup([pc EXCEPT ![p] = "idle"])
                    /\ UNCHANGED <<committing, phase, tail>>
            /\ UNCHANGED halt
    /\ UNCHANGED <<diskVars, cache, lh, up, buf>>

Advance == phase' = After(phase) /\ tail' = 0

AtMostOne == Len(lh) <= 1    \* mutant
NothingLogged == Len(lh) = 0

\* commit() of an empty transaction does nothing.
CommitNothing ==
    /\ Running
    /\ phase = After("start") /\ tail = 0
    /\ NothingLogged
    /\ phase' = "end"
    /\ UNCHANGED <<diskVars, cache, logVars, up, tail, opVars, halt>>

\* write_log, one block.
WriteLog ==
    /\ Running
    /\ phase = "log"
    /\ ~NothingLogged
    /\ logblk' = [logblk EXCEPT ![tail + 1] = cache[lh[tail + 1]]]
    /\ IF tail + 1 = Len(lh) THEN Advance ELSE tail' = tail + 1 /\ UNCHANGED phase
    /\ UNCHANGED <<home, head, cache, logVars, up, opVars, halt>>

\* write_head.
WriteHead ==
    /\ Running
    /\ phase = "head"
    /\ ~NothingLogged
    /\ head' = lh
    /\ Advance
    /\ UNCHANGED <<home, logblk, cache, logVars, up, opVars, halt>>

\* install_trans, one block; in a commit and in recovery.
Install ==
    /\ ~halt
    /\ phase = "install"
    /\ tail < Len(lh)
    /\ home' = [home EXCEPT ![lh[tail + 1]] = logblk[tail + 1]]
    /\ cache' = [cache EXCEPT ![lh[tail + 1]] = logblk[tail + 1]]
    /\ IF tail + 1 = Len(lh) THEN Advance ELSE tail' = tail + 1 /\ UNCHANGED phase
    /\ UNCHANGED <<logblk, head, logVars, up, opVars, halt>>

\* log.lh.n = 0 and write_head; the end of recovery.
Erase ==
    /\ ~halt
    /\ phase = "erase"
    /\ lh' = <<>>
    /\ head' = <<>>
    /\ IF up THEN Advance ELSE phase' = "none" /\ UNCHANGED tail
    /\ up' = TRUE
    /\ UNCHANGED <<home, logblk, cache, outstanding, committing, opVars, halt>>

EndCommit(p) ==
    /\ Running
    /\ pc[p] = "commit"
    /\ phase = "end"
    /\ committing' = FALSE
    /\ phase' = "none"
    /\ pc' = Wakeup([pc EXCEPT ![p] = "idle"])
    /\ UNCHANGED <<diskVars, cache, lh, outstanding, up, tail, buf, touched, halt>>

-----------------------------------------------------------------------------
\* The machine stops and is started again: memory is lost.
Crash ==
    /\ lh' = <<>> /\ outstanding' = 0 /\ committing' = FALSE
    /\ cache' = home
    /\ up' = FALSE /\ phase' = "boot" /\ tail' = 0
    /\ pc' = [p \in Procs |-> "idle"]
    /\ buf' = [p \in Procs |-> NoBlock]
    /\ touched' = [p \in Procs |-> {}]
    /\ halt' = FALSE
    /\ UNCHANGED diskVars

AfterReadHead == IF Len(head) = 0 THEN "erase" ELSE "install"

\* recover_from_log: read_head.
ReadHead ==
    /\ ~up
    /\ phase = "boot"
    /\ lh' = head
    /\ phase' = AfterReadHead /\ tail' = 0
    /\ UNCHANGED <<diskVars, cache, outstanding, committing, up, opVars, halt>>

-----------------------------------------------------------------------------
CommitStep == CommitNothing \/ WriteLog \/ WriteHead \/ Install \/ Erase \/ ReadHead

Next ==
    \/ \E p \in Procs :
         \/ BeginOp(p) \/ LogAppend(p) \/ EndOp(p) \/ EndCommit(p)
         \/ \E b \in Blocks, v \in Values : LogCheck(p, b, v)
    \/ CommitStep
    \/ Crash

Spec == Init /\ [][Next]_vars

\* Disk writes complete, a process in a call or woken gets on, and a call
\* makes finitely many writes.
Fairness ==
    /\ WF_vars(CommitStep)
    /\ \A p \in Procs : /\ WF_vars(BeginOp(p) /\ pc[p] = "awake")
                        /\ WF_vars(LogAppend(p))
                        /\ SF_vars(EndOp(p))
                        /\ WF_vars(EndCommit(p))

FairSpec == Spec /\ Fairness

-----------------------------------------------------------------------------
Labels == {"idle", "asleep", "awake", "op", "write", "commit"}
Phases == {"none", "boot", "log", "head", "install", "erase", "end"}

\* Every variable has its type.
TypeOK ==
    /\ home \in [Blocks -> Values]
    /\ logblk \in [1 .. LOGSIZE -> Values]
    /\ head \in Seq(Blocks) /\ Len(head) <= LOGSIZE
    /\ cache \in [Blocks -> Values]
    /\ lh \in Seq(Blocks) /\ Len(lh) <= LOGSIZE
    /\ outstanding \in 0 .. Cardinality(Procs) /\ committing \in BOOLEAN
    /\ up \in BOOLEAN /\ phase \in Phases /\ tail \in 0 .. LOGSIZE
    /\ pc \in [Procs -> Labels]
    /\ buf \in [Procs -> Blocks \cup {NoBlock}]
    /\ touched \in [Procs -> SUBSET Blocks]
    /\ halt \in BOOLEAN

\* log.lh.block has room for every block that is logged: log_write tests the
\* length without log.lock, so two calls can pass with one place left, and it is
\* begin_op's reservation that keeps both entries in the array.
HeaderFits == Len(lh) <= LOGSIZE

\* None of the panics of log.c.
NoPanic == ~halt

\* What a crash and a recovery would leave in each block.
Recovered ==
    [b \in Blocks |-> IF Contains(head, b)
                      THEN logblk[CHOOSE i \in 1 .. Len(head) : head[i] = b]
                      ELSE home[b]]

Active == {p \in Procs : pc[p] \in {"op", "write"}}

\* Nobody writes behind a commit: while commit() copies the cache without
\* log.lock no call is between begin_op and end_op, so end_op never panics with
\* "log.committing", and outstanding counts the calls that are, so log_write never
\* panics with "outside of trans".
CommitAlone ==
    /\ committing => Active = {}
    /\ outstanding = Cardinality(Active)

\* Whenever no call is in progress and no commit is running, everything the
\* calls wrote survives a crash.
QuietIsDurable ==
    up /\ Active = {} /\ ~committing => Recovered = cache

\* The log implements an atomic disk: the transaction becomes durable as a
\* whole when write_head writes the header, and recovery, even one that crashes
\* itself, changes nothing a reader could see.
Disk == INSTANCE AtomicDisk WITH
            durable <- Recovered,
            current <- IF up THEN cache ELSE Recovered,
            active  <- Active

ImplementsAtomicDisk == Disk!Spec

\* begin_op's sleepers are woken when space or the end of a commit may let them
\* go on.
SleepersWoken == \A p \in Procs : pc[p] = "asleep" ~> pc[p] # "asleep"
=============================================================================
