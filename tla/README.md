# A verification of xv6 with shared memory

This directory models the kernel in `src/`: the x86 version of xv6, extended by
System V shared memory (`shmget`, `shmat`, `shmdt`, `shmctl` in `vm.c`). The
models are TLA+ modules, checked with TLC on small instances; the central
properties of the shared memory are proved with TLAPS for every size of the
system.

`PROJECT.json` lists the components, the runs, which definition models which
lines, the disagreements found between the code and what its comments say, and
the hazards the properties are aimed at.

## The system and its inventory

| Part | State | Operations | What is hard about it |
|---|---|---|---|
| Shared memory (`vm.c`) | `shmTable.allRegions`, `proc->pages`, the window HEAPLIMIT..KERNBASE of each page table | `shmget`, `shmat`, `shmdt`, `shmctl`; `fork`, `exit`, `exec`, `wait` on behalf of a process | reference counts across processes, removal deferred to the last detach, the lock released in the middle of `shmat`, `fork` without the lock, allocation that fails halfway |
| Process table (`proc.c`, `trap.c`) | `ptable`, `cpu->proc`, `ptable.lock`, `tickslock` | `scheduler`, `sched`, `yield`, `sleep`, `wakeup`, `fork`, `exit`, `wait`, `kill`, the timer | the lock handed over through `swtch`, lost wakeups, a stack freed while in use, orphans, starvation |
| Log (`log.c`) | the header and blocks on disk, `log.lh`, `outstanding`, `committing` | `begin_op`, `log_write`, `end_op`, `commit`, `recover_from_log` | a crash between any two writes, group commit, log space, the unlocked test of the length |
| Buffer cache and disk (`bio.c`, `ide.c`) | the LRU list, buffer flags and locks, `idequeue` | `bget`, `bread`, `bwrite`, `brelse`, `iderw`, `ideintr` | one buffer per block, all buffers taken, an interrupt against a new request |
| Inodes and directories (`fs.c`) | `icache`, the bitmap, inodes on disk | `iget`, `ilock`, `iput`, `ialloc`, `balloc`, `bmap`, `dirlink`, `namex` | the last reference against a new one, lock order along a path |
| Files (`file.c`, `sysfile.c`) | `ftable`, `ofile` | `filealloc`, `filedup`, `fileclose`, the file system calls | reference counts, error paths that give back half of what was taken |
| Pipes (`pipe.c`) | the ring, the two open flags | `pipewrite`, `piperead`, `pipeclose` | sleepers at both ends, closing, counters that wrap |
| Locks (`spinlock.c`, `sleeplock.c`) | `locked`, `cpu`, `ncli`, `intena` | `acquire`, `release`, `pushcli`, `popcli`, `acquiresleep`, `releasesleep` | interrupts against nesting |
| Memory (`kalloc.c`, `vm.c`, `umalloc.c`) | the free list, page tables, the user heap | `kalloc`, `kfree`, `allocuvm`, `deallocuvm`, `copyuvm`, `malloc`, `free` | double frees, sizes at page boundaries |
| Console (`console.c`) | the input ring with its three indices | `consoleintr`, `consoleread` | an interrupt editing a line that is being read |
| Traps, boot, devices, user programs | | | dispatch, one-time set-up, device registers, sequential clients |

The parts meet at three places. Everything that waits does so with `sleep` and
`wakeup` of the process table. A process's life (`fork`, `exec`, `exit`, `wait`)
runs through shared memory, page tables, files and the log. And all pages come
from one allocator, so that a segment, a heap and a page table compete for the
same memory.

## Modules

| Module | What it is |
|---|---|
| `SharedMemory` | shared memory with the parts of `fork`, `exit`, `exec`, `wait` and `growproc` that touch it |
| `MCSharedMemory` | its instances for TLC |
| `SharedMemoryTypes`, `SharedMemoryPages`, `SharedMemoryProofs` | the proofs |
| `ProcessTable` | processes and scheduling on several CPUs |
| `MCProcessTable` | its instances |
| `Log` | the redo log, with crashes |
| `AtomicDisk` | what the log promises; `Log` implements it |
| `MCLog` | instances of `Log` |

In each module an operator marked *mutant* is a plausible bug in the definition
after it. It is not part of the specification; replacing the definition by it
makes the property named in `PROJECT.json` fail.

### SharedMemory

The variables are `region` (`shmTable.allRegions`), `pages` (`proc->pages`),
`map`, `writable` and `pgtab` (the shared window of `proc->pgdir`: the page each
entry names, the PTE_W bits, the page tables allocated for it), `heap` (pages
below the window), `free` (the allocator's list, as a set), `state` and `parent`,
`frame` (the local variables of a call that is interrupted between two steps)
and `halt`.

`shmget`, `shmdt`, `shmctl` and most of `shmat` run under `shmTable.lock` and are
one step each. Three things are not:

- `shmat` with `SHM_REMAP` releases the lock, calls `shmdt` for the conflicting
  segment, takes the lock again and repeats (`Shmat`, `RemapDetach`, `RemapNext`).
- `fork` reads the slots and regions without the lock: `Fork`, one `ForkSlot` per
  slot, one `ForkMap` per page, `ForkDone`.
- `exit` and `exec` detach slot by slot, with the lock taken anew each time:
  `Exit` or `Exec`, `DetachSlot`, `ExitDone` or `ExecDone`. `Exec` allocates the pages
  of the new image, any number up to `MaxHeap`, next to the old ones; `ExecFails` is
  `bad:`, which gives them back and leaves the old image; `ExecDone` frees the
  old pages and page tables and keeps the new ones. Both images count as `heap`.

Errors that come after a change of state are steps of their own: a `shmget` that
runs out of pages and leaves the ones it got in an unused region, a `shmat` that
maps a segment and then finds no slot or no page table, a `shmdt` that stops at a
missing page table. A call that returns an error without having changed
anything is a stuttering step and does not appear. `halt` records the panic
"remap" of `mappages` and the access behind the table with shmid = SHAREDREGIONS;
what such an access does to the memory behind it is not modelled.

Data that no property looks at is left out: `shm_cpid`, `shm_lpid`, the copies
made by `IPC_STAT`, and the contents of pages.

What a process calls is given by constants (`Keys`, `Sizes`, `Addrs`, ...).
`Liberties` says in which ways programs go beyond disciplined use: forking while
attached, removing a region somebody has attached, attaching with all slots
taken. Some properties hold only without one of them, and the violated runs say
which.

### ProcessTable

`state`, `chan`, `killed` and `parent` are the fields of `struct proc`; `named`
holds the slots whose pid is not 0, which is all `kill` depends on. `lock` and
`tickslock` name the CPU that holds the lock. `on[c]` is the process on whose
kernel stack CPU `c` is; `NoProc` stands for the scheduler's stack. `irq` is the
progress of a timer interrupt, `spins` says that a CPU waits in `acquire` with
interrupts off, and `scan` is the loop variable of `scheduler`.

A section under a lock that does not call `sched` is one step. `exit`, `sleep` and
`yield` change the state, keep the lock (`HandOver`), leave the stack (`Sched`), and
the scheduler's next choice continues with the lock held until the process it
chose releases it (`Forkret`, `Yielded`, `Slept`, or the next scan of `wait`). A
timer interrupt comes between any two steps of a CPU whose interrupts are on.

A page fault in user mode is `Fault`. In kernel mode the only memory a process can
make the kernel miss is the buffer of `shmctl`, an address taken with `argint` and used
under `shmTable.lock`. `KernelFault` has both outcomes of `trap.c:86`: a panic, or, for a
program whose name is a prefix of `testShared`, `killed` set and a return to the same
instruction, so that the CPU faults for ever with interrupts off and the lock stays
taken.

`since` is `ticks - ticks0` of a `sys_sleep` and `n` its argument, both unsigned: they
wrap at `UINT`, which stands for 2^32, and a negative argument becomes a long sleep.

Left out: the other places that sleep (pipes, disk, log, console, sleep locks),
the closing of files in `exit`, the numbers of pids and their wrap-around, and the
exit of init after a failed `fork`, which is a panic.

### Log and AtomicDisk

The disk is `home` (the blocks in place), `logblk` and `head`. In memory there are
`lh`, `outstanding`, `committing` and `cache`, the contents of a block as `bread`
returns it: the buffer while the block is pinned, and the same as `home` otherwise.
A step is a section under `log.lock` or the write of one block; a block is one
disk sector, so its write is atomic. `log_write` is two steps, as its tests for a
panic are made without the lock (`LogCheck`, `LogAppend`). `commit` goes through
`WriteLog` per block, `WriteHead`, `Install` per block and `Erase`. `Crash` can come at
any time and loses the memory; `ReadHead`, `Install` and `Erase` are the recovery,
which can crash as well.

`AtomicDisk` has only what a crash would leave (`durable`), what readers see
(`current`) and who is in a call (`active`); a commit makes everything durable at
once and needs `active` empty. The refinement mapping takes for `durable` the home
blocks overlaid with the logged ones while the header lists them, and for
`current` the cache once recovery is over.

## Runs

State counts are distinct states.

| Run | Instance | What it shows |
|---|---|---|
| `ShmDisciplined` | 2 processes, 2 regions for 3 keys, 4 pages, segments of 1 to 2 pages over two page tables, addresses chosen by the kernel or given; 177,952 | counts are exact, attached is mapped, segments are disjoint, the address search finds the lowest gap, the table and the ownership of pages survive a full table and memory that runs out, only `shmget` loses pages |
| `ShmFree` | 2 processes, 3 pages, all liberties, `IPC_SET`, `IPC_PRIVATE`, `SHM_REMAP` with `SHM_RDONLY`, the shmid behind the table; 363,430 | types, `RegionTableSound`, `PagesOwnedOnce` and `LostByShmgetOnly` whatever programs do |
| `ShmFork` | 3 processes, 1 region in either mode, 3 pages, a page of heap or image each, fork while attached, exec, removal and `IPC_SET` in between; 297,349 | ownership of pages; write access needs a mode, or a parent's attach, that allows it; only `shmget` loses pages |
| `ProcSafety` | 2 CPUs, 3 slots, fork, wait, sleep, kill of one slot, shmctl, faults in both modes; 728,317 | one CPU per kernel stack, `sched` entered with one lock, every process has a parent that can wait, no exit, kill or tick is missed by a sleeper |
| `ProcLive` | 1 CPU, 3 slots, fork, wait, endless sleep, kill of one slot, faults in user mode; 35,315 | runnable processes run, init reaps orphans, killed processes exit |
| `LogCrash` | 2 processes, 2 blocks, 2 values, any crash; 23,224 | `Log` implements `AtomicDisk`; quiet means durable; sleepers of `begin_op` are woken |
| `LogSpace` | 3 processes, 5 blocks, a log of 4, calls reserve and write 2 blocks; 4,842 | the list of logged blocks stays within the header's array; a commit is alone |

The other runs end in a counterexample, each to a statement made in the
repository:

| Run | Statement | What the code does |
|---|---|---|
| `ShmForkCount` | `shm.h`: shm_nattch counts "current attaches" | `fork` inherits segments without counting them |
| `ShmDeferredRemoval` | `vm.c`: a region in use is marked "to be destroyed" | the last `shmdt` frees the region with the number of the slot |
| `ShmFailedAttach` | `vm.c:613`: shmat attaches "at the first fitting address"; `testShared.c:395`: no more attaches than slots | a `shmat` that finds no slot leaves its pages mapped, and a later one chooses the same address and panics |
| `ShmRemapRace` | `shm.h`: "current attaches" | a region removed while `shmat` has released the lock for `SHM_REMAP` is counted as attached by nobody |
| `LogReservation` | `param.h`: MAXOPBLOCKS, LOGSIZE | calls that write all they reserved panic in `log_write`, as the log holds LOGSIZE - 1 blocks |

Disagreements met while modelling that have no run of their own; the model has
the code's behaviour in each case:

- `vm.c:681` says conflicting mappings are removed under `SHM_REMAP`; the test at
  `vm.c:673` finds only a segment that covers the first page, and `mappages` panics
  for one that starts above it.
- `vm.c:397` says 4096 bytes are one page; `vm.c:444` makes it two.
- `vm.c:613` says a segment is attached at shmaddr; an unaligned one is replaced by
  HEAPLIMIT (`vm.c:648`).
- The bound checks of `vm.c:617`, `748` and `864` accept shmid 64 of a table of 64.
- `proc.c:507` says `kill` kills the process with the given pid; `kill(0)` marks the
  first slot without a process (`proc.c:517`), `allocproc` does not clear the mark,
  and the next process in that slot exits at its first trap.
- `vm.c:712` means to unmap what a failing `shmat` has mapped; `deallocuvm` with the new
  size above the old one does nothing, and the entries stay, as in `ShmFailedAttach`.
- `trap.c:121` lets a killed process run "until it gets to the regular system call
  return"; after a fault in kernel mode a program named like the test never does.
- `log.c:218` tests the length without the lock: two calls can pass it with one place
  left, and the list then has `log.size` entries, one more than blocks on disk.
- `syscall.c:74` says "There is no shared writable memory"; there is now.

### Bounds

- `shmget`, `shmat`, `shmdt` and `shmctl` of one process meet another's in the table only,
  and each runs under the lock but for `SHM_REMAP`; two processes, one of them in
  that window, give the interferences. `fork` needs a third: parent and child take
  part in it, and somebody else has to remove or change the region, or the child
  of a child inherit what its parent could not map. `ShmFork` has three, with one
  region and one slot to pay for it; there slot and region numbers cannot differ,
  which is left to the runs with two.
- Two regions and slots let slot and region numbers differ and, with a third key,
  the table be full when a new key comes. Three or four pages let allocations fail; in
  `ShmDisciplined` they fail at each place of a segment of two pages that crosses a
  page table. Page size and table size are scaled down with the window (4 to 6
  pages), which keeps its ends. Physical pages are interchangeable, hence the
  symmetry; in `ShmFork` the processes but init are as well.
- `ShmFree` and `ShmDisciplined` have no heap and one mode, and `ShmFree` the flags all or
  none, to stay small; `ShmFork` has heaps and both modes.
- Two CPUs give every hand-over of `ptable.lock`. Three slots are init, a parent
  and a child; the first may kill and call `shmctl`, the second is the one killed. No
  run has the system call `exit`: a process exits by a fault or because it is
  killed, which is the same code. Sleeps last one tick in `ProcSafety`, so that the
  test is made before, at and after the end, and are `sleep(-1)` in `ProcLive`.
- In the log two blocks and two values tell a partial transaction from a whole
  one; the log is long enough for two calls. In `LogSpace` and `LogReservation` calls
  write all the blocks they reserve; `LogSpace` looks at the behaviours up to the
  panic `LogReservation` shows. Blocks are interchangeable in both.

`CHECK_DEADLOCK FALSE` stands in the runs in which the kernel can stop: the panic
"remap" is reachable by a `shmat` at an explicit address whose range overlaps a
segment that starts above it, or after a failed `shmat`, and `KernelFault` panics. The
panic "init exiting" is not reached: no run kills init.

### Fairness

`ProcessTable`: a CPU does not stop, and one that spins for a lock gets it in the
end (`SchedStep` of each CPU, its interrupt handler with the return from it, `IrqStep`
and `Resume`, and the kernel steps of each process, strongly fair as the lock is free
again and again and not always); a
timer interrupt that is due is taken once interrupts are on; init keeps calling
`wait`, as `init.c` does. `acquire` is an unfair test-and-set loop, so this excludes
only an unbounded losing streak. User programs need not make any call.

`Log`: disk writes complete, a process that is woken or in the middle of a call gets
on, a call makes finitely many writes. There is no fairness for crashes or for
beginning a call.

Liveness is checked on one CPU; with two the graph is out of TLC's reach. So
`KilledExits` covers a kill in user space, in `wait` and in `sys_sleep`, also between
its test and its sleep when the timer lets the killer in there, but no kill from a
second CPU at the same time; for that `ProcSafety` has the safety part,
`NoMissedKill`, and the sleeper's next tick, `NoMissedTick`. `ProcLive` has no `shmctl`: a
CPU that faults in the kernel for ever runs nothing else, so no liveness property
holds after it.

`OrphansReaped` excepts a zombie while a lower slot has another one: `wait` scans
from the beginning each time, and a program that keeps producing zombies in lower
slots can delay it for ever.

## Proofs

`SharedMemoryProofs` proves, for any number of processes, pages and regions, any
window and any calls, liberties included:

- `TypeCorrect`: `Spec => []TypeOK`; among others shm_nattch never goes below zero;
- `TableSound`: `Spec => []RegionTableSound`;
- `OwnedOnce`: `Spec => []PagesOwnedOnce`, so that no page is freed twice or while
  another table lists it.

The inductive invariant is `IInv`, the conjunction of `TypeOK`, `FramesOK`,
`RegionTableSound` and `PagesOwnedOnce`. None of the four is inductive alone. A
`shmat` continuing after `SHM_REMAP`, and a `fork` in progress, index the table with
what they stored before, so types need `FramesOK`. Freeing a region returns what
its page addresses name, so the type of `free` needs that they are pages, part of
`PagesOwnedOnce`. And `shmget` overwrites the addresses of an unused region, so
ownership needs that an unused region has size 0, part of `RegionTableSound`.

`SharedMemoryTypes` has a lemma per action for the types, `SharedMemoryPages` one per
kind of step for ownership (pages move from the free list to a region or a process
and back), and `SharedMemoryProofs` the other two parts, initiation, consecution
and the theorems. The assumptions are the four ASSUMEs of `SharedMemory`:
distinct null values, a non-empty window aligned to page tables, and input sets of
the right kind.

Ownership covers the tables, not the page table entries: a process can still have
an entry for a page that was freed (`ShmForkCount`, `ShmDeferredRemoval`), and the
theorem does not exclude it.

Only model-checked: everything about `ProcessTable` and `Log`, the other properties
of `SharedMemory`, and all liveness properties, which need fairness and ENABLED and
so are out of the prover's reach, like induction over recursively defined data.

## Plan

Next modules, in this order. Small components that use each other are composed and
share a run (files and pipes, cache and disk):

1. `Pipe`: ring and sleepers, implementing a bounded FIFO with closing ends;
   `SpinLock` and `SleepLock`: interrupts, nesting, an abstract lock as their
   specification.
2. `Bcache` and `Ide`: one buffer per block, LRU recycling with pinned buffers,
   the request queue against the interrupt; composed with `Log`'s use of the cache
   for the question whether all buffers can be taken.
3. `FileTable` and `InodeCache`: reference counts, the last `iput`, truncation;
   then directories and `namex` (lock order), `balloc` and `bfree`.
4. `Kalloc` and `UserMemory` (`allocuvm`, `deallocuvm`, `growproc`, sizes that are
   no multiple of a page), `Console`, `Umalloc`.
5. An abstract System V shared memory that disciplined use of `SharedMemory`
   implements.

Next theorems: `OneStack`, `SchedLocks` and `ParentAlive` of `ProcessTable`; the
inductive invariant of `Log` and `ImplementsAtomicDisk`; exact counts in disciplined
use; the abstract lock and FIFO
refinements.

## Not modelled

Boot, devices, interrupt controllers, the screen and key maps are accesses to
hardware; ELF loading and `mkfs` are data layout; user programs are sequential
clients. `PROJECT.json` gives the reason for each part.
