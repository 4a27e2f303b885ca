---------------------------- MODULE SharedMemory ----------------------------
(***************************************************************************)
(* System V shared memory as vm.c implements it (shmget, shmat, shmdt,     *)
(* shmctl) and the places where the process code calls into it: fork,      *)
(* exit, exec, wait and growproc.                                          *)
(*                                                                         *)
(* Everything shmTable.lock protects is one atomic step.  Where the code   *)
(* gives the lock up in the middle of a call (SHM_REMAP in shmat), or      *)
(* never takes it (fork reading the table), the call is several steps and  *)
(* frame[p] holds its local variables in between.                          *)
(***************************************************************************)
EXTENDS Integers, FiniteSets, FiniteSetsExt, Functions

CONSTANTS
    Procs,          \* slots of the process table
    initproc,       \* the first process, which never exits
    NoProc,         \* a null struct proc pointer
    Pages,          \* the physical pages kalloc() hands out
    NoPage,         \* the null page
    Unmapped,       \* a page table entry without PTE_P
    SHAREDREGIONS,  \* regions, slots per process, and pages per region
    PGSIZE,         \* bytes per page (and SHMLBA)
    NPTENTRIES,     \* pages one page table maps
    HEAPLIMIT,      \* first address of the shared window
    KERNBASE        \* first address behind it

\* What the user programs of a run ask for.
CONSTANTS
    Keys, Sizes, Modes, ShmgetFlags, Addrs, ShmatFlags, ShmidArgs,
    MaxHeap,        \* private pages of a process, and of an image exec loads
    Liberties       \* what they do beyond disciplined use, see below

IPC_PRIVATE == 0
READ_SHM == 4
RW_SHM == 6

\* "fork": fork while attached; "rmid": IPC_RMID while somebody is attached;
\* "overattach": shmat although all slots of pages[] are taken.
LibertyNames == {"fork", "rmid", "overattach"}

ASSUME ProcsAssumption == initproc \in Procs /\ NoProc \notin Procs
ASSUME PagesAssumption == NoPage \notin Pages /\ Unmapped \notin Pages \cup {NoPage}
ASSUME LayoutAssumption ==
    /\ SHAREDREGIONS \in Nat \ {0}
    /\ PGSIZE \in Nat \ {0}
    /\ NPTENTRIES \in Nat \ {0}
    /\ HEAPLIMIT \in Nat \ {0}
    /\ KERNBASE \in Nat /\ HEAPLIMIT < KERNBASE
    /\ HEAPLIMIT % (PGSIZE * NPTENTRIES) = 0
    /\ KERNBASE % (PGSIZE * NPTENTRIES) = 0
ASSUME InputsAssumption ==
    /\ Keys \subseteq Int
    /\ Sizes \subseteq Nat
    /\ Modes \subseteq {READ_SHM, RW_SHM}
    /\ ShmgetFlags \subseteq {"0", "IPC_CREAT", "IPC_CREAT|IPC_EXCL", "other"}
    /\ Addrs \subseteq Nat
    /\ ShmatFlags \subseteq SUBSET {"SHM_RND", "SHM_REMAP", "SHM_RDONLY"}
    /\ ShmidArgs \subseteq Int
    /\ MaxHeap \in Nat
    /\ Liberties \subseteq LibertyNames

VARIABLES
    free,       \* kmem.freelist, as a set
    region,     \* shmTable.allRegions
    pages,      \* proc->pages
    map,        \* the shared window of proc->pgdir: page per virtual page
    writable,   \* the virtual pages of the window mapped with PTE_W
    pgtab,      \* the page tables of the window that walkpgdir allocated
    heap,       \* the private pages below HEAPLIMIT
    state,      \* proc->state
    parent,     \* proc->parent
    frame,      \* locals of the system call a process is in the middle of
    halt        \* why the kernel stopped, if it did

shmVars  == <<region, pages>>
memVars  == <<free, map, writable, pgtab, heap>>
procVars == <<state, parent, frame>>
vars     == <<shmVars, memVars, procVars, halt>>

-----------------------------------------------------------------------------
Regions == 0 .. (SHAREDREGIONS - 1)
Slots   == Regions
VPages  == {v \in HEAPLIMIT .. (KERNBASE - 1) : v % PGSIZE = 0}
PDX(v)  == v \div (PGSIZE * NPTENTRIES)
Dirs    == PDX(HEAPLIMIT) .. (PDX(KERNBASE) - 1)
PGROUNDDOWN(a) == a - (a % PGSIZE)

\* struct shmRegion.  shm_cpid and shm_lpid are only stored and copied out,
\* and shm_perm.__key repeats key.
Region ==
    [key : Int, shmid : Regions \cup {-1}, size : 0 .. SHAREDREGIONS, segsz : Nat,
     mode : {0, READ_SHM, RW_SHM}, nattch : Nat, toBeDeleted : BOOLEAN,
     pa : [Regions -> Pages \cup {NoPage}]]

\* struct sharedPages; perm is its PTE_W bit.  shmdt leaves perm as it was,
\* but nobody reads it in a slot whose key is -1.
Record ==
    [key : Int, shmid : Regions \cup {-1}, size : 0 .. SHAREDREGIONS,
     va : 0 .. (KERNBASE - 1), perm : BOOLEAN]
NoRecord == [key |-> -1, shmid |-> -1, size |-> 0, va |-> 0, perm |-> TRUE]

Calls == {"user", "remap", "remapped", "fork", "forkmap", "exit", "exec"}
Frame ==
    [pc : Calls, shmid : Regions \cup {-1}, va : 0 .. (KERNBASE - 1),
     segment : 0 .. (KERNBASE - 1), size : 0 .. SHAREDREGIONS, rdonly : BOOLEAN,
     child : Procs \cup {NoProc}, slot : 0 .. SHAREDREGIONS,
     index : Regions \cup {-1}, k : Regions, image : SUBSET Pages]
Idle ==
    [pc |-> "user", shmid |-> -1, va |-> 0, segment |-> 0, size |-> 0,
     rdonly |-> FALSE, child |-> NoProc, slot |-> 0, index |-> -1, k |-> 0,
     image |-> {}]

Live(r) == region[r].key # -1
Attached(p) == {i \in Slots : pages[p][i].key # -1}
EndOf(p, i) == pages[p][i].va + pages[p][i].size * PGSIZE
RegionPages(r) == {region[r].pa[k] : k \in 0 .. (region[r].size - 1)}
Tables(p) == {pgtab[p][d] : d \in Dirs} \ {NoPage}
Own(p) == heap[p] \cup Tables(p)

In(p, pc) == halt = "no" /\ state[p] = "RUNNABLE" /\ frame[p].pc = pc
Return(p) == frame' = [frame EXCEPT ![p] = Idle]

-----------------------------------------------------------------------------
(***************************************************************************)
(* sharedMemoryInit, allocproc and userinit.                               *)
(***************************************************************************)
NewRegion ==
    [key |-> -1, shmid |-> -1, size |-> 0, segsz |-> 0, mode |-> 0,
     nattch |-> 0, toBeDeleted |-> FALSE, pa |-> [k \in Regions |-> NoPage]]

Init ==
    /\ region = [r \in Regions |-> NewRegion]
    /\ pages = [p \in Procs |-> [i \in Slots |-> NoRecord]]
    /\ map = [p \in Procs |-> [v \in VPages |-> Unmapped]]
    /\ writable = [p \in Procs |-> {}]
    /\ pgtab = [p \in Procs |-> [d \in Dirs |-> NoPage]]
    /\ heap = [p \in Procs |-> {}]
    /\ free = Pages
    /\ state = [p \in Procs |-> IF p = initproc THEN "RUNNABLE" ELSE "UNUSED"]
    /\ parent = [p \in Procs |-> NoProc]
    /\ frame = [p \in Procs |-> Idle]
    /\ halt = "no"

(***************************************************************************)
(* shmget.  perm is what the low three bits of shmflag say (0: neither     *)
(* READ_SHM nor RW_SHM) and flag what is left of it.  The result is -1,    *)
(* the shmid of the region found, or CREATE.                               *)
(***************************************************************************)
CREATE == -2
PagesFor(bytes) == (bytes \div PGSIZE) + 1

FirstSlotOnly(key) == {r \in {0} : region[r].key = key}   \* mutant
WithKey(key) == {r \in Regions : region[r].key = key}

ShmgetResult(key, bytes, perm, flag) ==
    LET found == WithKey(key)
        slots == {r \in Regions : region[r].key = -1}
        old   == region[Min(found)]
    IN  IF \/ perm = 0 /\ ~(flag = "0" /\ key # IPC_PRIVATE)
           \/ bytes = 0
           \/ PagesFor(bytes) > SHAREDREGIONS
        THEN -1
        ELSE IF found # {}
        THEN IF /\ old.size = PagesFor(bytes)
                /\ old.mode \in {READ_SHM, RW_SHM}
                /\ flag = "IPC_CREAT" \/ (flag = "0" /\ key # IPC_PRIVATE)
             THEN old.shmid ELSE -1
        ELSE IF /\ slots # {}
                /\ key = IPC_PRIVATE \/ flag \in {"IPC_CREAT", "IPC_CREAT|IPC_EXCL"}
             THEN CREATE ELSE -1

FreeRegion == Min({r \in Regions : region[r].key = -1})

\* kalloc succeeded m times, in the order pa: the first m page addresses are
\* stored in the free region as they are obtained.
Kalloced(m, pa) ==
    /\ pa \in Injection(0 .. (m - 1), free)
    /\ free' = free \ Range(pa)

WithPages(r, m, pa) ==
    [k \in Regions |-> IF k < m THEN pa[k] ELSE region[r].pa[k]]

ShmgetCreate(p, key, bytes, perm, flag) ==
    /\ In(p, "user")
    /\ ShmgetResult(key, bytes, perm, flag) = CREATE
    /\ \E pa \in Injection(0 .. (PagesFor(bytes) - 1), free) :
         /\ Kalloced(PagesFor(bytes), pa)
         /\ region' = [region EXCEPT ![FreeRegion] =
              [@ EXCEPT !.pa = WithPages(FreeRegion, PagesFor(bytes), pa),
                        !.size = PagesFor(bytes), !.key = key, !.segsz = bytes,
                        !.mode = perm, !.shmid = FreeRegion]]
    /\ UNCHANGED <<pages, map, writable, pgtab, heap, procVars, halt>>

\* kalloc failed after m pages: shmget returns -1 and keeps the m pages.
ShmgetNoMemory(p, key, bytes, perm, flag) ==
    /\ In(p, "user")
    /\ ShmgetResult(key, bytes, perm, flag) = CREATE
    /\ \E m \in 0 .. (PagesFor(bytes) - 1) :
         \E pa \in Injection(0 .. (m - 1), free) :
           /\ Kalloced(m, pa)
           /\ Range(pa) = free
           /\ region' = [region EXCEPT ![FreeRegion].pa = WithPages(FreeRegion, m, pa)]
    /\ UNCHANGED <<pages, map, writable, pgtab, heap, procVars, halt>>

-----------------------------------------------------------------------------
(***************************************************************************)
(* shmdt.  The entry found is the first slot attached at a.  When the last *)
(* attach of a region marked for deletion goes, the code frees             *)
(* allRegions[index] where index is the slot in pages[], not the shmid.    *)
(***************************************************************************)
AttachedAt(p, a) == {i \in Attached(p) : pages[p][i].va = a}

\* The pages of slot i whose entry the loop over walkpgdir clears before it
\* meets a page table that does not exist.
Walked(p, i) ==
    {k \in 0 .. (pages[p][i].size - 1) :
        \A j \in 0 .. k : pgtab[p][PDX(pages[p][i].va + j * PGSIZE)] # NoPage}

AllWalked(p, i) ==
    \A k \in 0 .. (pages[p][i].size - 1) : pgtab[p][PDX(pages[p][i].va + k * PGSIZE)] # NoPage

ClearEntries(p, i) ==
    LET gone == {pages[p][i].va + k * PGSIZE : k \in Walked(p, i)}
    IN  /\ map' = [map EXCEPT ![p] = [v \in VPages |-> IF v \in gone THEN Unmapped ELSE @[v]]]
        /\ writable' = [writable EXCEPT ![p] = @ \ gone]

StillListed(r) == [region[r] EXCEPT !.nattch = 0, !.toBeDeleted = FALSE]   \* mutant
Cleared(r) ==
    [NewRegion EXCEPT !.pa =
        [k \in Regions |-> IF k < region[r].size THEN NoPage ELSE region[r].pa[k]]]

\* The slot whose region is freed once shmid's last attach is gone.
Victim(index, shmid) == index

NotCounted(n) == n           \* mutant: the detach is not counted
BelowZero(n) == n - 1        \* mutant: no test for zero
Decremented(n) == IF n > 0 THEN n - 1 ELSE n

ShmdtDone(p, i) ==
    LET shmid == pages[p][i].shmid
        left  == Decremented(region[shmid].nattch)
        gone  == IF left = 0 /\ region[shmid].toBeDeleted
                 THEN {Victim(i, shmid)} ELSE {}
    IN  /\ AllWalked(p, i)
        /\ ClearEntries(p, i)
        /\ pages' = [pages EXCEPT ![p][i] = NoRecord]
        /\ free' = free \cup UNION {RegionPages(r) : r \in gone}
        /\ region' = [r \in Regions |->
              IF r \in gone THEN Cleared(r)
              ELSE IF r = shmid THEN [region[r] EXCEPT !.nattch = left]
              ELSE region[r]]

ShmdtFails(p, i) ==
    /\ ~AllWalked(p, i)
    /\ ClearEntries(p, i)
    /\ UNCHANGED <<region, pages, free>>

Shmdt(p, a) ==
    /\ In(p, "user")
    /\ AttachedAt(p, a) # {}
    /\ \/ ShmdtDone(p, Min(AttachedAt(p, a)))
       \/ ShmdtFails(p, Min(AttachedAt(p, a)))
    /\ UNCHANGED <<pgtab, heap, procVars, halt>>

-----------------------------------------------------------------------------
(***************************************************************************)
(* mappages on the shared window: n pages pa[0], pa[1], ... from va on.    *)
(* It gets through m of them, allocating the page tables t on the way.     *)
(* Everything from KERNBASE on is mapped already, by kmap.                 *)
(***************************************************************************)
OverKernelOnly(p, v) == v >= KERNBASE   \* mutant: no panic over user pages
Present(p, v) == v >= KERNBASE \/ map[p][v] # Unmapped

NewTables(p, va, m) ==
    {d \in Dirs : pgtab[p][d] = NoPage /\ \E k \in 0 .. (m - 1) : PDX(va + k * PGSIZE) = d}

Mapped(p, va, m, pa, perm, t) ==
    LET at(v) == {k \in 0 .. (m - 1) : va + k * PGSIZE = v}
        new   == {v \in VPages : at(v) # {}}
    IN  /\ \A k \in 0 .. (m - 1) : ~Present(p, va + k * PGSIZE)
        /\ t \in Injection(NewTables(p, va, m), free)
        /\ free' = free \ Range(t)
        /\ pgtab' = [pgtab EXCEPT ![p] = [d \in Dirs |-> IF d \in DOMAIN t THEN t[d] ELSE @[d]]]
        /\ map' = [map EXCEPT ![p] = [v \in VPages |->
                      IF v \in new THEN pa[CHOOSE k \in at(v) : TRUE] ELSE @[v]]]
        /\ writable' = [writable EXCEPT ![p] = IF perm THEN @ \cup new ELSE @]

\* Page m needs a page table and kalloc has none left.
OutOfTables(p, va, m, t) ==
    /\ va + m * PGSIZE < KERNBASE
    /\ pgtab[p][PDX(va + m * PGSIZE)] = NoPage
    /\ PDX(va + m * PGSIZE) \notin DOMAIN t
    /\ free = Range(t)

(***************************************************************************)
(* shmat.                                                                  *)
(***************************************************************************)
HighestSlot(p, a) ==   \* mutant: the last slot at or above a, not the lowest
    LET above == {i \in Attached(p) : a <= pages[p][i].va}
    IN  IF above = {} THEN -1 ELSE Max(above)

\* getLeastvaidx: the last slot among those attached lowest at or above a.
GetLeastvaidx(p, a) ==
    LET above == {i \in Attached(p) : a <= pages[p][i].va}
    IN  IF above = {} THEN -1
        ELSE CHOOSE i \in above : \A j \in above :
                \/ pages[p][i].va < pages[p][j].va
                \/ pages[p][i].va = pages[p][j].va /\ j <= i

\* The search for the first fitting address: after i rounds of the loop.
FirstFit(p, n) ==
    LET va[i \in 0 .. SHAREDREGIONS] ==
          IF i = 0 THEN HEAPLIMIT
          ELSE LET idx == GetLeastvaidx(p, va[i - 1])
               IN  IF idx = -1 \/ va[i - 1] + n * PGSIZE <= pages[p][idx].va
                   THEN va[i - 1] ELSE EndOf(p, idx)
    IN  va[SHAREDREGIONS]

\* The address a call of shmat(..., shmaddr, ...) for n pages works with.
ShmatVa(p, n, shmaddr, flags) ==
    IF shmaddr = 0 THEN FirstFit(p, n)
    ELSE IF "SHM_RND" \in flags \/ PGROUNDDOWN(shmaddr) = shmaddr
         THEN PGROUNDDOWN(shmaddr) ELSE HEAPLIMIT

Covering(p, va) == {i \in Attached(p) : pages[p][i].va <= va /\ va < EndOf(p, i)}

ByFlagOnly(rdonly, mode) == ~rdonly   \* mutant: the region's mode is ignored
\* PTE_W in the entries of a segment.
PtePerm(rdonly, mode) == ~rdonly /\ mode = RW_SHM

\* From the permission test to the end, with the lock held.  The pages are
\* mapped before a slot of pages[] is looked for.
ShmatFinish(p, shmid, va, rdonly) ==
    LET n    == region[shmid].size
        perm == PtePerm(rdonly, region[shmid].mode)
        idx  == Min(Slots \ Attached(p))
    IN  /\ rdonly \/ region[shmid].mode \in {READ_SHM, RW_SHM}
        /\ \E m \in 0 .. n : \E t \in Injection(NewTables(p, va, m), free) :
             /\ Mapped(p, va, m, region[shmid].pa, perm, t)
             /\ \/ /\ m = n
                   /\ Attached(p) # Slots
                   /\ pages' = [pages EXCEPT ![p][idx] =
                         [shmid |-> shmid, va |-> va, key |-> region[shmid].key,
                          size |-> n, perm |-> perm]]
                   /\ region' = [region EXCEPT ![shmid].nattch = @ + 1]
                   /\ UNCHANGED halt
                \/ /\ m = n
                   /\ Attached(p) = Slots
                   /\ UNCHANGED <<region, pages, halt>>
                \/ /\ m < n
                   /\ OutOfTables(p, va, m, t)
                   /\ UNCHANGED <<region, pages, halt>>
                \/ /\ m < n
                   /\ Present(p, va + m * PGSIZE)
                   /\ halt' = "panic: remap"
                   /\ UNCHANGED <<region, pages>>

\* The permission test fails: shmat returns -1.
ShmatDenied(shmid, rdonly) ==
    /\ ~rdonly
    /\ region[shmid].mode \notin {READ_SHM, RW_SHM}
    /\ UNCHANGED <<region, pages, map, writable, pgtab, free, halt>>

Shmat(p, shmid, shmaddr, flags) ==
    /\ In(p, "user")
    /\ shmid \in Regions
    /\ region[shmid].shmid # -1
    /\ Attached(p) = Slots => "overattach" \in Liberties
    /\ shmaddr # 0 => shmaddr < KERNBASE /\ shmaddr >= HEAPLIMIT
    /\ \E va \in 0 .. (KERNBASE - 1) :
         /\ va = ShmatVa(p, region[shmid].size, shmaddr, flags)
         /\ va + region[shmid].size * PGSIZE < KERNBASE
         /\ IF Covering(p, va) = {}
            THEN /\ ShmatFinish(p, shmid, va, "SHM_RDONLY" \in flags)
                 /\ UNCHANGED frame
            ELSE LET idx == Min(Covering(p, va))
                 IN  /\ "SHM_REMAP" \in flags
                     /\ frame' = [frame EXCEPT ![p] =
                           [Idle EXCEPT !.pc = "remap", !.shmid = shmid, !.va = va,
                                        !.segment = pages[p][idx].va,
                                        !.size = pages[p][idx].size,
                                        !.rdonly = "SHM_RDONLY" \in flags]]
                     /\ UNCHANGED <<region, pages, map, writable, pgtab, free, halt>>
    /\ UNCHANGED <<heap, state, parent>>

\* shmat and shmctl: allRegions[SHAREDREGIONS] passes the test "shmid > 64"
\* although it is not in the table; if the word read there is not -1 the call
\* goes on with it.
OutOfBounds(p, shmid) ==
    /\ In(p, "user")
    /\ shmid = SHAREDREGIONS
    /\ halt' = "out of bounds"
    /\ UNCHANGED <<shmVars, memVars, procVars>>

\* SHM_REMAP: the lock is released around shmdt(segment).
RemapDetach(p) ==
    LET i == Min(AttachedAt(p, frame[p].segment))
    IN  /\ In(p, "remap")
        /\ AttachedAt(p, frame[p].segment) # {}
        /\ \/ /\ ShmdtDone(p, i)
              /\ frame' = [frame EXCEPT ![p].pc = "remapped"]
           \/ ShmdtFails(p, i) /\ Return(p)
        /\ UNCHANGED <<pgtab, heap, state, parent, halt>>

\* Back with the lock: the next segment in the way, or on to the mapping, by
\* what region[shmid] is by now.
RemapNext(p) ==
    LET f   == frame[p]
        idx == GetLeastvaidx(p, f.segment + f.size * PGSIZE)
    IN  /\ In(p, "remapped")
        /\ IF idx # -1 /\ pages[p][idx].va < f.va + region[f.shmid].size * PGSIZE
           THEN /\ frame' = [frame EXCEPT ![p] =
                      [@ EXCEPT !.pc = "remap", !.segment = pages[p][idx].va,
                                !.size = pages[p][idx].size]]
                /\ UNCHANGED <<region, pages, map, writable, pgtab, free, halt>>
           ELSE /\ \/ ShmatFinish(p, f.shmid, f.va, f.rdonly)
                   \/ ShmatDenied(f.shmid, f.rdonly)
                /\ Return(p)
        /\ UNCHANGED <<heap, state, parent>>

-----------------------------------------------------------------------------
(***************************************************************************)
(* shmctl.  IPC_STAT and SHM_STAT only copy a region's data out.           *)
(***************************************************************************)
ShmctlSet(p, shmid, mode) ==
    /\ In(p, "user")
    /\ shmid \in Regions
    /\ region[shmid].shmid # -1
    /\ region' = [region EXCEPT ![shmid].mode = mode]
    /\ UNCHANGED <<pages, memVars, procVars, halt>>

Always(r) == TRUE   \* mutant: IPC_RMID does not look at shm_nattch
Removable(r) == region[r].nattch = 0

\* IPC_RMID of a region nobody is counted as attached to.
ShmctlRmid(p, shmid) ==
    /\ In(p, "user")
    /\ shmid \in Regions
    /\ region[shmid].shmid # -1
    /\ Removable(shmid)
    /\ free' = free \cup RegionPages(shmid)
    /\ region' = [region EXCEPT ![shmid] = Cleared(shmid)]
    /\ UNCHANGED <<pages, map, writable, pgtab, heap, procVars, halt>>

ShmctlMark(p, shmid) ==
    /\ In(p, "user")
    /\ "rmid" \in Liberties
    /\ shmid \in Regions
    /\ region[shmid].shmid # -1
    /\ ~Removable(shmid)
    /\ region' = [region EXCEPT ![shmid].toBeDeleted = TRUE]
    /\ UNCHANGED <<pages, memVars, procVars, halt>>

-----------------------------------------------------------------------------
(***************************************************************************)
(* fork.  allocproc and copyuvm; then, slot by slot and without            *)
(* shmTable.lock, the attached segments; then the child becomes RUNNABLE.  *)
(***************************************************************************)
Fork(p, c) ==
    /\ In(p, "user")
    /\ Attached(p) # {} => "fork" \in Liberties
    /\ state[c] = "UNUSED"
    /\ \E copy \in SUBSET free :
         /\ Cardinality(copy) = Cardinality(heap[p])
         /\ heap' = [heap EXCEPT ![c] = copy]
         /\ free' = free \ copy
    /\ pages' = [pages EXCEPT ![c] = [i \in Slots |-> NoRecord]]
    /\ state' = [state EXCEPT ![c] = "EMBRYO"]
    /\ parent' = [parent EXCEPT ![c] = p]
    /\ frame' = [frame EXCEPT ![p] = [Idle EXCEPT !.pc = "fork", !.child = c]]
    /\ UNCHANGED <<region, map, writable, pgtab, halt>>

\* The slots a loop over pages[] has still to visit.
Ahead(p) == {i \in Attached(p) : i >= frame[p].slot /\ pages[p][i].shmid # -1}

\* Copy a slot and look the region up (getShmidIndex).
ForkSlot(p) ==
    LET i == Min(Ahead(p))
        c == frame[p].child
        index == region[pages[p][i].shmid].shmid
    IN  /\ In(p, "fork")
        /\ Ahead(p) # {}
        /\ pages' = [pages EXCEPT ![c][i] = pages[p][i]]
        /\ frame' = [frame EXCEPT ![p] =
              IF index = -1 THEN [@ EXCEPT !.slot = i + 1]
              ELSE [@ EXCEPT !.pc = "forkmap", !.slot = i, !.index = index, !.k = 0]]
        /\ UNCHANGED <<region, memVars, state, parent, halt>>

\* mappagesWrapper, one page: out of memory it gives the slot up silently.
ForkMap(p) ==
    LET f == frame[p]
        c == f.child
        s == pages[c][f.slot]
        va == s.va + f.k * PGSIZE
        next == [f EXCEPT !.pc = "fork", !.slot = @ + 1, !.index = -1, !.k = 0]
    IN  /\ In(p, "forkmap")
        /\ \E m \in 0 .. 1 : \E t \in Injection(NewTables(c, va, m), free) :
             /\ Mapped(c, va, m, [k \in {0} |-> region[f.index].pa[f.k]], s.perm, t)
             /\ \/ /\ m = 1
                   /\ frame' = [frame EXCEPT ![p] =
                         IF f.k + 1 < s.size THEN [f EXCEPT !.k = @ + 1] ELSE next]
                   /\ UNCHANGED halt
                \/ /\ m = 0
                   /\ OutOfTables(c, va, 0, t)
                   /\ frame' = [frame EXCEPT ![p] = next]
                   /\ UNCHANGED halt
                \/ /\ m = 0
                   /\ Present(c, va)
                   /\ halt' = "panic: remap"
                   /\ UNCHANGED frame
        /\ UNCHANGED <<shmVars, heap, state, parent>>

ForkDone(p) ==
    /\ In(p, "fork")
    /\ Ahead(p) = {}
    /\ state' = [state EXCEPT ![frame[p].child] = "RUNNABLE"]
    /\ Return(p)
    /\ UNCHANGED <<shmVars, memVars, parent, halt>>

(***************************************************************************)
(* exit and exec detach every segment first, with one shmdt per slot.      *)
(***************************************************************************)
Exit(p) ==
    /\ In(p, "user")
    /\ p # initproc
    /\ frame' = [frame EXCEPT ![p] = [Idle EXCEPT !.pc = "exit"]]
    /\ UNCHANGED <<shmVars, memVars, state, parent, halt>>

\* The new image is loaded before anything is detached.
Exec(p) ==
    /\ In(p, "user")
    /\ \E image \in SUBSET free :
         /\ Cardinality(image) <= MaxHeap
         /\ heap' = [heap EXCEPT ![p] = @ \cup image]
         /\ free' = free \ image
         /\ frame' = [frame EXCEPT ![p] = [Idle EXCEPT !.pc = "exec", !.image = image]]
    /\ UNCHANGED <<shmVars, map, writable, pgtab, state, parent, halt>>

\* bad: no program there, or no memory for the rest of it.
ExecFails(p) ==
    /\ In(p, "exec")
    /\ frame[p].slot = 0
    /\ heap' = [heap EXCEPT ![p] = @ \ frame[p].image]
    /\ free' = free \cup (heap[p] \cap frame[p].image)
    /\ Return(p)
    /\ UNCHANGED <<shmVars, map, writable, pgtab, state, parent, halt>>

DetachSlot(p) ==
    LET i == Min(Ahead(p))
        j == Min(AttachedAt(p, pages[p][i].va))
    IN  /\ In(p, "exit") \/ In(p, "exec")
        /\ Ahead(p) # {}
        /\ ShmdtDone(p, j) \/ ShmdtFails(p, j)
        /\ frame' = [frame EXCEPT ![p].slot = i + 1]
        /\ UNCHANGED <<pgtab, heap, state, parent, halt>>

ExitDone(p) ==
    /\ In(p, "exit")
    /\ Ahead(p) = {}
    /\ state' = [state EXCEPT ![p] = "ZOMBIE"]
    /\ parent' = [q \in Procs |-> IF parent[q] = p THEN initproc ELSE parent[q]]
    /\ Return(p)
    /\ UNCHANGED <<shmVars, memVars, halt>>

\* freevm frees the pages below HEAPLIMIT, user, and all page tables; what the
\* shared window maps it leaves alone.
PagesOnly(p, user) == user   \* mutant: the page tables are not freed
Freed(p, user) == user \cup Tables(p)

Freevm(p, user) ==
    /\ map' = [map EXCEPT ![p] = [v \in VPages |-> Unmapped]]
    /\ writable' = [writable EXCEPT ![p] = {}]
    /\ pgtab' = [pgtab EXCEPT ![p] = [d \in Dirs |-> NoPage]]
    /\ heap' = [heap EXCEPT ![p] = @ \ user]
    /\ free' = free \cup Freed(p, user)

ExecDone(p) ==
    /\ In(p, "exec")
    /\ Ahead(p) = {}
    /\ Freevm(p, heap[p] \ frame[p].image)
    /\ Return(p)
    /\ UNCHANGED <<shmVars, state, parent, halt>>

Wait(p, c) ==
    /\ In(p, "user")
    /\ parent[c] = p
    /\ state[c] = "ZOMBIE"
    /\ Freevm(c, heap[c])
    /\ parent' = [parent EXCEPT ![c] = NoProc]
    /\ state' = [state EXCEPT ![c] = "UNUSED"]
    /\ UNCHANGED <<shmVars, frame, halt>>

\* growproc by a page either way.
Grow(p) ==
    /\ In(p, "user")
    /\ Cardinality(heap[p]) < MaxHeap
    /\ \E x \in free :
         /\ heap' = [heap EXCEPT ![p] = @ \cup {x}]
         /\ free' = free \ {x}
    /\ UNCHANGED <<shmVars, map, writable, pgtab, procVars, halt>>

Shrink(p) ==
    /\ In(p, "user")
    /\ \E x \in heap[p] :
         /\ heap' = [heap EXCEPT ![p] = @ \ {x}]
         /\ free' = free \cup {x}
    /\ UNCHANGED <<shmVars, map, writable, pgtab, procVars, halt>>

-----------------------------------------------------------------------------
ShmgetCall(p) ==
    \E key \in Keys, bytes \in Sizes, perm \in Modes \cup {0},
       flag \in ShmgetFlags :
        \/ ShmgetCreate(p, key, bytes, perm, flag)
        \/ ShmgetNoMemory(p, key, bytes, perm, flag)

ShmatCall(p) ==
    \E shmid \in ShmidArgs : \/ \E shmaddr \in Addrs, flags \in ShmatFlags :
                                   Shmat(p, shmid, shmaddr, flags)
                             \/ OutOfBounds(p, shmid)

ShmctlCall(p) ==
    \E shmid \in ShmidArgs :
        \/ \E mode \in Modes : ShmctlSet(p, shmid, mode)
        \/ ShmctlRmid(p, shmid)
        \/ ShmctlMark(p, shmid)
        \/ OutOfBounds(p, shmid)

Next ==
    \E p \in Procs :
        \/ ShmgetCall(p)
        \/ ShmatCall(p)
        \/ RemapDetach(p)
        \/ RemapNext(p)
        \/ \E a \in VPages : Shmdt(p, a)
        \/ ShmctlCall(p)
        \/ \E c \in Procs : Fork(p, c) \/ Wait(p, c)
        \/ ForkSlot(p)
        \/ ForkMap(p)
        \/ ForkDone(p)
        \/ Exit(p)
        \/ Exec(p)
        \/ ExecFails(p)
        \/ DetachSlot(p)
        \/ ExitDone(p)
        \/ ExecDone(p)
        \/ Grow(p)
        \/ Shrink(p)

Spec == Init /\ [][Next]_vars

-----------------------------------------------------------------------------
\* Every variable has its type; in particular shm_nattch never goes below zero,
\* and what the calls leave in the tables are indices and addresses in range.
TypeOK ==
    /\ free \subseteq Pages
    /\ region \in [Regions -> Region]
    /\ pages \in [Procs -> [Slots -> Record]]
    /\ map \in [Procs -> [VPages -> Pages \cup {NoPage, Unmapped}]]
    /\ writable \in [Procs -> SUBSET VPages]
    /\ pgtab \in [Procs -> [Dirs -> Pages \cup {NoPage}]]
    /\ heap \in [Procs -> SUBSET Pages]
    /\ state \in [Procs -> {"UNUSED", "EMBRYO", "RUNNABLE", "ZOMBIE"}]
    /\ parent \in [Procs -> Procs \cup {NoProc}]
    /\ frame \in [Procs -> Frame]
    /\ halt \in {"no", "panic: remap", "out of bounds"}

\* A call in progress holds what it will index the tables with.
FrameOK(f) ==
    /\ f.pc \in {"remap", "remapped"} => f.shmid \in Regions
    /\ f.pc \in {"fork", "forkmap"} => f.child \in Procs
    /\ f.pc = "forkmap" => f.index \in Regions /\ f.slot \in Slots

FramesOK == \A p \in Procs : FrameOK(frame[p])

\* A region is in use (key) exactly when its shmid says so, and then shmid is
\* its own index, it has pages and a mode; no two regions have the same key.
\* shmget relies on it to look regions up, shmat to index the table.
RegionTableSound ==
    /\ \A r \in Regions :
         IF Live(r) THEN /\ region[r].shmid = r
                         /\ region[r].size \in 1 .. SHAREDREGIONS
                         /\ region[r].mode # 0
                    ELSE /\ region[r].shmid = -1
                         /\ region[r].size = 0
                         /\ ~region[r].toBeDeleted
    /\ \A r, s \in Regions : Live(r) /\ region[r].key = region[s].key => r = s

\* No page has two owners.  A page of a region is an allocated page, in no
\* other region and at no other place of its own, and no process's heap or
\* page table; a page of a process is allocated, is not another process's, and
\* is its heap or one of its page tables.  It is what makes every kfree of
\* shmdt, shmctl, freevm and deallocuvm the free of an allocated page, whatever
\* the processes do.
RegionPagesOwned ==
    /\ \A r \in Regions : \A k \in 0 .. (region[r].size - 1) :
         region[r].pa[k] \in Pages \ free
    /\ \A r, s \in Regions :
         \A k \in 0 .. (region[r].size - 1), l \in 0 .. (region[s].size - 1) :
           region[r].pa[k] = region[s].pa[l] => r = s /\ k = l

ProcessPagesOwned ==
    \A p \in Procs :
        /\ Own(p) \cap free = {}
        /\ heap[p] \cap Tables(p) = {}
        /\ \A d, e \in Dirs : pgtab[p][d] = pgtab[p][e] => d = e \/ pgtab[p][d] = NoPage
        /\ \A r \in Regions : Own(p) \cap RegionPages(r) = {}
        /\ \A q \in Procs \ {p} : Own(p) \cap Own(q) = {}

PagesOwnedOnce == RegionPagesOwned /\ ProcessPagesOwned

\* shm_nattch of a region is the number of attached segments that name it.
Attaches(r) ==
    Cardinality({a \in Procs \X Slots :
        state[a[1]] # "UNUSED" /\ a[2] \in Attached(a[1]) /\ pages[a[1]][a[2]].shmid = r})

NattchIsAttaches == \A r \in Regions : region[r].nattch = Attaches(r)

\* What a process has attached it can reach: each page of the segment is
\* mapped, to the page of the region that is current under that key.
AttachedIsMapped ==
    \A p \in Procs : state[p] = "RUNNABLE" =>
        \A i \in Attached(p) : LET a == pages[p][i]  r == region[a.shmid] IN
            /\ r.key = a.key
            /\ r.size = a.size
            /\ \A k \in 0 .. (a.size - 1) : map[p][a.va + k * PGSIZE] = r.pa[k]

\* The segments of a process are disjoint.
SegmentsDisjoint ==
    \A p \in Procs : \A i, j \in Attached(p) :
        i # j => EndOf(p, i) <= pages[p][j].va \/ EndOf(p, j) <= pages[p][i].va

\* The loop of shmat finds the lowest address where n pages fit between the
\* attached segments.
FirstFitIsLeast ==
    \A p \in Procs : state[p] = "RUNNABLE" => \A n \in 1 .. SHAREDREGIONS :
        LET fits == {v \in HEAPLIMIT .. (KERNBASE + SHAREDREGIONS * PGSIZE) :
                       \A i \in Attached(p) : v + n * PGSIZE <= pages[p][i].va \/ EndOf(p, i) <= v}
        IN  FirstFit(p, n) = Min(fits)

\* A process gains write access to a page of the window only through a shmat
\* of a region that is RW_SHM at the time, or, being forked, through a record of
\* its parent for an attach that was granted it: IPC_SET in between takes nothing
\* back, and the parent itself may have lost the mapping.
WriteNeedsMode ==
    [][\A p \in Procs : \A v \in writable'[p] \ writable[p] :
          \/ \E r \in Regions : region[r].mode = RW_SHM /\ map'[p][v] \in RegionPages(r)
          \/ /\ state[p] = "EMBRYO"
             /\ \E i \in Covering(parent[p], v) : pages[parent[p]][i].perm]_vars

\* The pages kalloc handed out that are neither free, nor in a region, nor the
\* heap or a page table of a process: nobody will ever free them.
Lost ==
    Pages \ (free \cup UNION {RegionPages(r) : r \in Regions} \cup UNION {Own(p) : p \in Procs})

\* A page is lost only by a shmget that runs out of memory, which returns and
\* leaves the pages it has in the slot it did not come to use.  No
\* removal, deferred or not, no failed shmat, fork or exec, no shmdt, exit or
\* wait loses one.
LostByShmgetOnly ==
    [][\A x \in Lost' \ Lost :
          /\ free' = {}
          /\ \E r \in Regions : ~Live(r) /\ \E k \in Regions : region'[r].pa[k] = x]_vars

-----------------------------------------------------------------------------
(***************************************************************************)
(* What comments and tests of the repository say and the code does not do. *)
(***************************************************************************)
\* vm.c, IPC_RMID: a region in use is marked to be destroyed, and the last
\* shmdt removes it; so a marked region is never left without an attach.
MarkedIsAttached == \A r \in Regions : region[r].toBeDeleted => Attaches(r) > 0

\* shm.h, shm_nattch: "current attaches".  The count promises no attach that
\* does not exist, so a region that nobody has attached can be removed.
NattchAtMostAttaches == \A r \in Regions : region[r].nattch <= Attaches(r)

\* vm.c, shmat: without an address it attaches "at the first fitting address",
\* so it never meets a page that is mapped and mappages does not panic.
NoPanic == halt = "no"
=============================================================================
