---------------------------- MODULE ProcessTable ----------------------------
(***************************************************************************)
(* The process table of proc.c on several CPUs: scheduler, sched, yield,   *)
(* sleep, wakeup, fork, exit, wait and kill, the timer interrupt and the   *)
(* faults of trap.c, and sys_sleep.                                        *)
(*                                                                         *)
(* A section under ptable.lock that does not call sched() is one step.  A  *)
(* call of sched() hands the lock over: the process changes its state and  *)
(* keeps the lock, swtch moves the CPU to the scheduler's stack, and it is *)
(* the scheduler, or the next process, that releases the lock.             *)
(***************************************************************************)
EXTENDS Integers, FiniteSetsExt

CONSTANTS
    CPUs,
    BootCpu,     \* cpuid() = 0, the CPU that counts ticks
    NoCPU,       \* no CPU: a lock is free
    NPROC,       \* slots of the process table
    UINT,        \* values of a uint, 2^32: ticks counts modulo UINT
    SleepArgs,   \* the arguments of sys_sleep
    UserCalls,   \* the system calls the program in each slot makes
    Killable     \* the slots whose pid they pass to kill

Procs == 0 .. (NPROC - 1)
initproc == 0    \* userinit gets the first slot
NoProc == -1
NoChan == -1
Ticks == -2      \* &ticks as a channel; a process is the channel of its wait

ASSUME CpusAssumption == BootCpu \in CPUs /\ NoCPU \notin CPUs
ASSUME SlotsAssumption == NPROC \in Nat \ {0} /\ UINT \in Nat \ {0}
ASSUME UserAssumption ==
    /\ UserCalls \in [Procs -> SUBSET {"fork", "exit", "wait", "kill", "sleep", "shmctl"}]
    /\ SleepArgs \subseteq Int
    /\ Killable \subseteq Procs

VARIABLES
    lock,       \* the CPU that holds ptable.lock
    tickslock,  \* the CPU that holds tickslock
    on,         \* the process whose kernel stack a CPU runs on (c->proc)
    irq,        \* how far a CPU is with a timer interrupt
    spins,      \* a CPU loops with interrupts off: in acquire, or faulting
    scan,       \* the loop variable of the CPU's scheduler
    state, chan, killed, parent,
    named,      \* the slots with p->pid different from 0
    pc,         \* where a process is in the kernel, or "user"
    saved,      \* pc when the timer interrupted it
    child,      \* np of its fork
    since,      \* ticks - ticks0 in its sys_sleep
    n,          \* n there, as the uint it is compared as
    halt        \* the kernel panicked

cpuVars  == <<lock, tickslock, on, irq, spins, scan>>
procVars == <<state, chan, killed, parent, named>>
vars     == <<cpuVars, procVars, pc, saved, child, since, n, halt>>

-----------------------------------------------------------------------------
Init ==
    /\ lock = NoCPU /\ tickslock = NoCPU
    /\ on = [c \in CPUs |-> NoProc]
    /\ irq = [c \in CPUs |-> "no"]
    /\ spins = [c \in CPUs |-> FALSE]
    /\ scan = [c \in CPUs |-> 0]
    /\ state = [p \in Procs |-> IF p = initproc THEN "RUNNABLE" ELSE "UNUSED"]
    /\ chan = [p \in Procs |-> NoChan]
    /\ killed = [p \in Procs |-> FALSE]
    /\ parent = [p \in Procs |-> NoProc]
    /\ named = {initproc}
    /\ pc = [p \in Procs |-> "forkret"]
    /\ saved = [p \in Procs |-> "user"]
    /\ child = [p \in Procs |-> NoProc]
    /\ since = [p \in Procs |-> 0]
    /\ n = [p \in Procs |-> 0]
    /\ halt = FALSE

\* CPU c executes process p, which is at label l.
At(c, p, l) ==
    /\ ~halt
    /\ on[c] = p
    /\ irq[c] = "no"
    /\ state[p] = "RUNNING"
    /\ pc[p] = l

Goto(p, l) == pc' = [pc EXCEPT ![p] = l]

\* The end of trap() for a system call.
Return(p) == Goto(p, IF killed[p] THEN "exit" ELSE "user")

\* acquire(&ptable.lock) by CPU c, and the same with the section up to release.
Acquire(c) == lock = NoCPU /\ spins' = [spins EXCEPT ![c] = FALSE]
Locked(c) == Acquire(c) /\ UNCHANGED lock
AcquireTicks(c) ==
    /\ tickslock = NoCPU /\ tickslock' = c
    /\ spins' = [spins EXCEPT ![c] = FALSE]

KeepsChan(p) == UNCHANGED chan   \* mutant: sleep does not tidy up
\* What sleep does after sched: p->chan = 0.
TidyUp(p) == chan' = [chan EXCEPT ![p] = NoChan]

\* wakeup1 on each of chans, applied to the states st.
wakeup1(st, chans) ==
    [q \in Procs |-> IF st[q] = "SLEEPING" /\ chan[q] \in chans THEN "RUNNABLE" ELSE st[q]]

-----------------------------------------------------------------------------
(***************************************************************************)
(* The scheduler and sched().                                              *)
(***************************************************************************)
\* The loop over the table, from where it was left when a process was chosen.
FromTheStart(c) == {p \in Procs : state[p] = "RUNNABLE"}   \* mutant
Ahead(c) == {p \in Procs : p >= scan[c] /\ state[p] = "RUNNABLE"}

SchedAcquire(c) ==
    /\ ~halt
    /\ on[c] = NoProc /\ irq[c] = "no"
    /\ Acquire(c)
    /\ lock' = c
    /\ scan' = [scan EXCEPT ![c] = 0]
    /\ UNCHANGED <<tickslock, on, irq, procVars, pc, saved, child, since, n, halt>>

SchedSwitch(c) ==
    /\ ~halt
    /\ on[c] = NoProc /\ lock = c
    /\ Ahead(c) # {}
    /\ on' = [on EXCEPT ![c] = Min(Ahead(c))]
    /\ scan' = [scan EXCEPT ![c] = Min(Ahead(c)) + 1]
    /\ state' = [state EXCEPT ![Min(Ahead(c))] = "RUNNING"]
    /\ UNCHANGED <<lock, tickslock, irq, spins, chan, killed, parent, named,
                   pc, saved, child, since, n, halt>>

SchedRelease(c) ==
    /\ ~halt
    /\ on[c] = NoProc /\ lock = c
    /\ Ahead(c) = {}
    /\ lock' = NoCPU
    /\ UNCHANGED <<tickslock, on, irq, spins, scan, procVars, pc, saved, child, since, n, halt>>

EarlyRelease(c) == lock' = NoCPU   \* mutant: the lock is not handed over
\* A process that changed its state enters sched() with the lock.
HandOver(c) == lock' = c

\* swtch from the process to the scheduler.
Sched(c) ==
    /\ ~halt
    /\ on[c] # NoProc
    /\ state[on[c]] # "RUNNING"
    /\ on' = [on EXCEPT ![c] = NoProc]
    /\ UNCHANGED <<lock, tickslock, irq, spins, scan, procVars, pc, saved, child, since, n, halt>>

\* A new process's first step.
Forkret(c, p) ==
    /\ At(c, p, "forkret")
    /\ lock = c /\ lock' = NoCPU
    /\ Goto(p, "user")
    /\ UNCHANGED <<tickslock, on, irq, spins, scan, procVars, saved, child, since, n, halt>>

\* A process that faults under shmTable.lock keeps it.
ShmTableHeld == \E p \in Procs : pc[p] = "faulting"

\* acquire of a lock that is not free: interrupts go off before the loop.
Wants(c) ==
    \/ on[c] = NoProc /\ lock # NoCPU
    \/ \E p \in Procs :
         \/ /\ \E l \in {"fork", "ready", "exit", "wait", "kill"} : At(c, p, l)
            /\ lock # NoCPU
         \/ /\ \E l \in {"sleep", "relock"} : At(c, p, l)
            /\ tickslock # NoCPU
         \/ At(c, p, "shmctl") /\ ShmTableHeld

Spin(c) ==
    /\ ~halt
    /\ irq[c] = "no" /\ ~spins[c]
    /\ lock # c /\ tickslock # c
    /\ Wants(c)
    /\ spins' = [spins EXCEPT ![c] = TRUE]
    /\ UNCHANGED <<lock, tickslock, on, irq, scan, procVars, pc, saved, child, since, n, halt>>

-----------------------------------------------------------------------------
(***************************************************************************)
(* The timer interrupt: CPUs with interrupts on, that is without a lock.   *)
(* The CPU numbered 0 counts the tick; then a process yields.              *)
(***************************************************************************)
Timer(c) ==
    /\ ~halt
    /\ irq[c] = "no"
    /\ ~spins[c] /\ lock # c /\ tickslock # c
    /\ on[c] # NoProc => state[on[c]] = "RUNNING"
    /\ c = BootCpu \/ on[c] # NoProc
    /\ irq' = [irq EXCEPT ![c] = IF c = BootCpu THEN "tick" ELSE "yield"]
    /\ UNCHANGED <<lock, tickslock, on, spins, scan, procVars, pc, saved, child, since, n, halt>>

TickLock(c) ==
    /\ ~halt
    /\ irq[c] = "tick"
    /\ AcquireTicks(c)
    /\ irq' = [irq EXCEPT ![c] = "wake"]
    /\ UNCHANGED <<lock, on, scan, procVars, pc, saved, child, since, n, halt>>

\* ticks++, as ticks - ticks0 of a process in sys_sleep.
Ticked(p) == IF n[p] > 0 THEN (since[p] + 1) % UINT ELSE 0

\* ticks++ and wakeup(&ticks).
TickWake(c) ==
    /\ ~halt
    /\ irq[c] = "wake"
    /\ Locked(c)
    /\ tickslock' = NoCPU
    /\ since' = [p \in Procs |-> Ticked(p)]
    /\ state' = wakeup1(state, {Ticks})
    /\ irq' = [irq EXCEPT ![c] = IF on[c] = NoProc THEN "no" ELSE "yield"]
    /\ UNCHANGED <<on, scan, chan, killed, parent, named, pc, saved, child, n, halt>>

\* A killed process in user space exits instead.
Yield(c) ==
    LET p == on[c]
    IN  /\ ~halt
        /\ irq[c] = "yield"
        /\ irq' = [irq EXCEPT ![c] = "no"]
        /\ IF killed[p] /\ pc[p] = "user"
           THEN /\ Goto(p, "exit")
                /\ UNCHANGED <<lock, spins, state, saved>>
           ELSE /\ Acquire(c) /\ HandOver(c)
                /\ state' = [state EXCEPT ![p] = "RUNNABLE"]
                /\ saved' = [saved EXCEPT ![p] = pc[p]]
                /\ Goto(p, "yielded")
        /\ UNCHANGED <<tickslock, on, scan, chan, killed, parent, named, child, since, n, halt>>

Yielded(c, p) ==
    /\ At(c, p, "yielded")
    /\ lock = c /\ lock' = NoCPU
    /\ Goto(p, IF killed[p] /\ saved[p] = "user" THEN "exit" ELSE saved[p])
    /\ saved' = [saved EXCEPT ![p] = "user"]
    /\ UNCHANGED <<tickslock, on, irq, spins, scan, procVars, child, since, n, halt>>

-----------------------------------------------------------------------------
(***************************************************************************)
(* fork.  EMBRYO goes back to UNUSED, and parent is written, without the   *)
(* lock.                                                                   *)
(***************************************************************************)
UnusedSlots == {q \in Procs : state[q] = "UNUSED"}

AllocProc(c, p) ==
    /\ At(c, p, "fork")
    /\ Locked(c)
    /\ IF UnusedSlots = {}
       THEN Return(p) /\ UNCHANGED <<state, named, child>>
       ELSE /\ state' = [state EXCEPT ![Min(UnusedSlots)] = "EMBRYO"]
            /\ named' = named \cup {Min(UnusedSlots)}
            /\ child' = [child EXCEPT ![p] = Min(UnusedSlots)]
            /\ Goto(p, "copy")
    /\ UNCHANGED <<tickslock, on, irq, scan, chan, killed, parent, saved, since, n, halt>>

\* kalloc of the stack or copyuvm fails: the slot keeps its pid.
ForkFails(c, p) ==
    /\ At(c, p, "copy")
    /\ state' = [state EXCEPT ![child[p]] = "UNUSED"]
    /\ child' = [child EXCEPT ![p] = NoProc]
    /\ Return(p)
    /\ UNCHANGED <<cpuVars, chan, killed, parent, named, saved, since, n, halt>>

Copy(c, p) ==
    /\ At(c, p, "copy")
    /\ parent' = [parent EXCEPT ![child[p]] = p]
    /\ pc' = [pc EXCEPT ![p] = "ready", ![child[p]] = "forkret"]
    /\ UNCHANGED <<cpuVars, state, chan, killed, named, saved, child, since, n, halt>>

Ready(c, p) ==
    /\ At(c, p, "ready")
    /\ Locked(c)
    /\ state' = [state EXCEPT ![child[p]] = "RUNNABLE"]
    /\ child' = [child EXCEPT ![p] = NoProc]
    /\ Return(p)
    /\ UNCHANGED <<tickslock, on, irq, scan, chan, killed, parent, named, saved, since, n, halt>>

-----------------------------------------------------------------------------
(***************************************************************************)
(* exit.  The parent is woken before the state is ZOMBIE; the lock is kept *)
(* until the CPU has left the stack.                                       *)
(***************************************************************************)
OnlyInit(p) ==                 \* mutant: the parent is not woken
    {initproc : q \in {q \in Procs : parent[q] = p /\ state[q] = "ZOMBIE"}}
ExitWakes(p) ==
    {parent[p]} \cup {initproc : q \in {q \in Procs : parent[q] = p /\ state[q] = "ZOMBIE"}}

NotPassedOn(p) == parent      \* mutant: children keep the exited parent
PassedToInit(p) == [q \in Procs |-> IF parent[q] = p THEN initproc ELSE parent[q]]

Exit(c, p) ==
    /\ At(c, p, "exit")
    /\ IF p = initproc
       THEN halt' = TRUE /\ UNCHANGED <<lock, spins, state, parent, pc>>
       ELSE /\ Acquire(c) /\ HandOver(c)
            /\ state' = [wakeup1(state, ExitWakes(p)) EXCEPT ![p] = "ZOMBIE"]
            /\ parent' = PassedToInit(p)
            /\ Goto(p, "zombie")
            /\ UNCHANGED halt
    /\ UNCHANGED <<tickslock, on, irq, scan, chan, killed, named, saved, child, since, n>>

(***************************************************************************)
(* wait.  A process back from sleep scans the table again, with the lock   *)
(* it got from the scheduler.                                              *)
(***************************************************************************)
Children(p) == {q \in Procs : parent[q] = p}
Zombies(p) == {q \in Children(p) : state[q] = "ZOMBIE"}

Scanning(c, p) ==
    \/ At(c, p, "wait") /\ lock = NoCPU
    \/ At(c, p, "waiting") /\ lock = c

\* The first zombie child: its stack and page table are freed.
Reap(c, p) ==
    /\ Scanning(c, p)
    /\ spins' = [spins EXCEPT ![c] = FALSE]
    /\ Zombies(p) # {}
    /\ LET q == Min(Zombies(p))
       IN  /\ state' = [state EXCEPT ![q] = "UNUSED"]
           /\ killed' = [killed EXCEPT ![q] = FALSE]
           /\ parent' = [parent EXCEPT ![q] = NoProc]
           /\ named' = named \ {q}
    /\ lock' = NoCPU
    /\ TidyUp(p)
    /\ Return(p)
    /\ UNCHANGED <<tickslock, on, irq, scan, saved, child, since, n, halt>>

WaitFails(c, p) ==
    /\ Scanning(c, p)
    /\ spins' = [spins EXCEPT ![c] = FALSE]
    /\ Zombies(p) = {}
    /\ Children(p) = {} \/ killed[p]
    /\ lock' = NoCPU
    /\ TidyUp(p)
    /\ Return(p)
    /\ UNCHANGED <<tickslock, on, irq, scan, state, killed, parent, named, saved, child, since, n, halt>>

WaitSleeps(c, p) ==
    /\ Scanning(c, p)
    /\ spins' = [spins EXCEPT ![c] = FALSE]
    /\ Zombies(p) = {}
    /\ Children(p) # {} /\ ~killed[p]
    /\ HandOver(c)
    /\ chan' = [chan EXCEPT ![p] = p]
    /\ state' = [state EXCEPT ![p] = "SLEEPING"]
    /\ Goto(p, "waiting")
    /\ UNCHANGED <<tickslock, on, irq, scan, killed, parent, named, saved, child, since, n, halt>>

-----------------------------------------------------------------------------
(***************************************************************************)
(* kill.  pid 0 is that of every slot without a pid; the first is taken.   *)
(***************************************************************************)
HasPid(q) == q \in named \/ \A r \in 0 .. (q - 1) : r \in named

StaysAsleep(q) == state   \* mutant: a sleeping process is not woken
KillWakes(q) ==
    [state EXCEPT ![q] = IF @ = "SLEEPING" THEN "RUNNABLE" ELSE @]

Kill(c, p) ==
    /\ At(c, p, "kill")
    /\ Locked(c)
    /\ \/ \E q \in Killable :
            /\ HasPid(q)
            /\ killed' = [killed EXCEPT ![q] = TRUE]
            /\ state' = KillWakes(q)
            /\ Goto(p, IF killed'[p] THEN "exit" ELSE "user")
       \/ Return(p) /\ UNCHANGED <<killed, state>>   \* nobody has the pid
    /\ UNCHANGED <<tickslock, on, irq, scan, chan, parent, named, saved, child, since, n, halt>>

(***************************************************************************)
(* sys_sleep and sleep(&ticks, &tickslock).                                *)
(***************************************************************************)
SleepCall(c, p) ==
    /\ At(c, p, "sleep")
    /\ AcquireTicks(c)
    /\ \E arg \in SleepArgs : n' = [n EXCEPT ![p] = arg % UINT]
    /\ Goto(p, "test")
    /\ UNCHANGED <<lock, on, irq, scan, procVars, saved, child, since, halt>>

DropsLk(c) == tickslock' = NoCPU   \* mutant: lk is released before ptable.lock is held
KeepsLk(c) == UNCHANGED tickslock

\* The condition of the loop; a killed process gives up.
SleepTest(c, p) ==
    /\ At(c, p, "test")
    /\ IF since[p] >= n[p] \/ killed[p]
       THEN /\ tickslock' = NoCPU
            /\ since' = [since EXCEPT ![p] = 0]
            /\ n' = [n EXCEPT ![p] = 0]
            /\ Return(p)
       ELSE /\ KeepsLk(c)
            /\ Goto(p, "tosleep")
            /\ UNCHANGED <<since, n>>
    /\ UNCHANGED <<lock, on, irq, spins, scan, procVars, saved, child, halt>>

KeepsBoth(c) == tickslock' = tickslock   \* mutant: sleep does not release lk
ReleaseLk(c) == tickslock' = NoCPU

Sleep(c, p) ==
    /\ At(c, p, "tosleep")
    /\ Acquire(c) /\ HandOver(c)
    /\ ReleaseLk(c)
    /\ chan' = [chan EXCEPT ![p] = Ticks]
    /\ state' = [state EXCEPT ![p] = "SLEEPING"]
    /\ Goto(p, "slept")
    /\ UNCHANGED <<on, irq, scan, killed, parent, named, saved, child, since, n, halt>>

Slept(c, p) ==
    /\ At(c, p, "slept")
    /\ lock = c /\ lock' = NoCPU
    /\ TidyUp(p)
    /\ Goto(p, "relock")
    /\ UNCHANGED <<tickslock, on, irq, spins, scan, state, killed, parent, named, saved, child, since, n, halt>>

Relock(c, p) ==
    /\ At(c, p, "relock")
    /\ AcquireTicks(c)
    /\ Goto(p, "test")
    /\ UNCHANGED <<lock, on, irq, scan, procVars, saved, child, since, n, halt>>

-----------------------------------------------------------------------------
(***************************************************************************)
(* What user programs do: system calls and faults.  init forks and waits;  *)
(* its exit after a fork that failed, which is a panic, is left out.       *)
(***************************************************************************)
Syscalls(p) == IF p = initproc THEN {"fork", "wait"} ELSE UserCalls[p]

Syscall(c, p, call) ==
    /\ At(c, p, "user")
    /\ call \in Syscalls(p)
    /\ Goto(p, IF killed[p] THEN "exit" ELSE call)
    /\ UNCHANGED <<cpuVars, procVars, saved, child, since, n, halt>>

\* A page fault, or another exception, of a user program.
Fault(c, p) ==
    /\ At(c, p, "user")
    /\ p # initproc
    /\ killed' = [killed EXCEPT ![p] = TRUE]
    /\ Goto(p, "exit")
    /\ UNCHANGED <<cpuVars, state, chan, parent, named, saved, child, since, n, halt>>

\* shmctl reads or writes the caller's buffer under shmTable.lock.
Shmctl(c, p) ==
    /\ At(c, p, "shmctl")
    /\ ~ShmTableHeld
    /\ spins' = [spins EXCEPT ![c] = FALSE]
    /\ Return(p)
    /\ UNCHANGED <<lock, tickslock, on, irq, scan, procVars, saved, child, since, n, halt>>

\* The buffer is not mapped, and the kernel faults.  That is a panic, unless the
\* program's name is a prefix of testShared: then killed is set, trap returns to
\* the instruction that faulted, and the CPU faults for ever, interrupts off.
KernelFault(c, p) ==
    /\ At(c, p, "shmctl")
    /\ ~ShmTableHeld
    /\ \/ halt' = TRUE /\ UNCHANGED <<spins, killed, pc>>
       \/ /\ killed' = [killed EXCEPT ![p] = TRUE]
          /\ spins' = [spins EXCEPT ![c] = TRUE]
          /\ Goto(p, "faulting")
          /\ UNCHANGED halt
    /\ UNCHANGED <<lock, tickslock, on, irq, scan, state, chan, parent, named, saved, child, since, n>>

-----------------------------------------------------------------------------
SchedStep(c) ==
    \/ on[c] = NoProc /\ Spin(c)
    \/ SchedAcquire(c) \/ SchedSwitch(c) \/ SchedRelease(c) \/ Sched(c)

IrqStep(c) == TickLock(c) \/ TickWake(c) \/ Yield(c)

Resume(c) == \E p \in Procs : Forkret(c, p) \/ Yielded(c, p)

KernelStep(c, p) ==
    \/ on[c] = p /\ Spin(c)
    \/ AllocProc(c, p) \/ ForkFails(c, p) \/ Copy(c, p) \/ Ready(c, p)
    \/ Exit(c, p)
    \/ Reap(c, p) \/ WaitFails(c, p) \/ WaitSleeps(c, p)
    \/ Kill(c, p)
    \/ SleepCall(c, p) \/ SleepTest(c, p) \/ Sleep(c, p) \/ Slept(c, p) \/ Relock(c, p)
    \/ Shmctl(c, p) \/ KernelFault(c, p)

UserStep(c, p) == Fault(c, p) \/ \E call \in Syscalls(p) : Syscall(c, p, call)

Next ==
    \E c \in CPUs : \/ SchedStep(c) \/ Timer(c) \/ IrqStep(c) \/ Resume(c)
                   \/ \E p \in Procs : KernelStep(c, p) \/ UserStep(c, p)

Spec == Init /\ [][Next]_vars

\* A CPU does not stop, and one that spins for a lock gets it in the end; a
\* timer interrupt that is due is taken once interrupts are on; between two of
\* them the kernel gets on; init keeps calling wait.
Fairness ==
    /\ \A c \in CPUs : /\ SF_vars(SchedStep(c))
                       /\ SF_vars(Timer(c))
                       /\ SF_vars(IrqStep(c) \/ Resume(c))
    /\ \A p \in Procs : SF_vars(\E c \in CPUs : KernelStep(c, p))
    /\ SF_vars(\E c \in CPUs : Syscall(c, initproc, "wait"))

FairSpec == Spec /\ Fairness

-----------------------------------------------------------------------------
Labels == {"user", "forkret", "yielded", "fork", "copy", "ready", "exit", "zombie",
           "wait", "waiting", "kill", "sleep", "test", "tosleep", "slept", "relock",
           "shmctl", "faulting"}

\* Every variable has its type, and a process has a channel only while it sleeps
\* on it and until it runs again: sleep clears p->chan before it returns.
TypeOK ==
    /\ lock \in CPUs \cup {NoCPU} /\ tickslock \in CPUs \cup {NoCPU}
    /\ on \in [CPUs -> Procs \cup {NoProc}]
    /\ irq \in [CPUs -> {"no", "tick", "wake", "yield"}]
    /\ spins \in [CPUs -> BOOLEAN]
    /\ scan \in [CPUs -> 0 .. NPROC]
    /\ state \in [Procs -> {"UNUSED", "EMBRYO", "SLEEPING", "RUNNABLE", "RUNNING", "ZOMBIE"}]
    /\ chan \in [Procs -> Procs \cup {NoChan, Ticks}]
    /\ \A p \in Procs : chan[p] # NoChan <=> pc[p] \in {"waiting", "slept"}
    /\ killed \in [Procs -> BOOLEAN]
    /\ parent \in [Procs -> Procs \cup {NoProc}]
    /\ named \subseteq Procs
    /\ pc \in [Procs -> Labels]
    /\ saved \in [Procs -> Labels]
    /\ child \in [Procs -> Procs \cup {NoProc}]
    /\ since \in [Procs -> 0 .. (UINT - 1)]
    /\ n \in [Procs -> 0 .. (UINT - 1)]
    /\ halt \in BOOLEAN

\* A kernel stack has at most one CPU on it, a RUNNING process has one, and a
\* CPU is on the stack of a process that is not RUNNING only with ptable.lock
\* in hand: nobody can run that process, or free its stack in wait, before the
\* CPU has left it.
OneStack ==
    /\ \A c, d \in CPUs : on[c] = on[d] /\ on[c] # NoProc => c = d
    /\ \A p \in Procs : state[p] = "RUNNING" => \E c \in CPUs : on[c] = p
    /\ \A c \in CPUs : on[c] # NoProc /\ state[on[c]] # "RUNNING" =>
           lock = c /\ state[on[c]] \notin {"UNUSED", "EMBRYO"}

\* The panics of sched(): it is entered with ptable.lock and no other lock.
SchedLocks ==
    \A c \in CPUs : on[c] # NoProc /\ state[on[c]] # "RUNNING" => lock = c /\ tickslock # c

\* A process has a parent that can still wait for it: exit passes the children
\* on before it is a zombie.
ParentAlive ==
    \A p \in Procs \ {initproc} : state[p] \notin {"UNUSED", "EMBRYO"} =>
        parent[p] \in Procs /\ state[parent[p]] \notin {"UNUSED", "EMBRYO", "ZOMBIE"}

\* wait misses no exit: a process asleep in wait has no zombie child.
NoMissedExit ==
    \A p \in Procs : state[p] = "SLEEPING" /\ chan[p] = p => Zombies(p) = {}

\* wait misses no kill: a process asleep in wait was not killed, neither before
\* its test of killed nor between the test and the sleep, as both are made under
\* ptable.lock.
NoMissedKill ==
    \A p \in Procs : state[p] = "SLEEPING" /\ chan[p] = p => ~killed[p]

\* sys_sleep misses no tick: a process asleep on &ticks has time to wait, so no
\* tick fell between the test of the loop and the sleep.  The comment in sleep
\* rests it on taking ptable.lock before tickslock is released.
NoMissedTick ==
    \A p \in Procs : state[p] = "SLEEPING" /\ chan[p] = Ticks => since[p] < n[p]

\* The scheduler's loop starves nobody.
RunnableRuns == \A p \in Procs : state[p] = "RUNNABLE" ~> state[p] = "RUNNING"

\* A killed process exits: one asleep in wait is woken, one asleep in sys_sleep,
\* or killed between its test of killed and the sleep, gives up at the next tick,
\* and one in user space meets the timer interrupt.
KilledExits ==
    \A p \in Procs \ {initproc} : killed[p] /\ state[p] # "UNUSED" ~> state[p] \in {"ZOMBIE", "UNUSED"}

\* A zombie that init is the parent of, one that exit passed on to it included,
\* is freed by init's wait, unless a lower slot has another one: the scan
\* starts at the beginning of the table each time.
OrphansReaped ==
    \A p \in Procs \ {initproc} :
        p \in Zombies(initproc) ~> state[p] = "UNUSED" \/ \E q \in Zombies(initproc) : q < p
=============================================================================
