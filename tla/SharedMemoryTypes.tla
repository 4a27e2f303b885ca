------------------------- MODULE SharedMemoryTypes --------------------------
(***************************************************************************)
(* Every step of SharedMemory keeps TypeOK, given what the calls in        *)
(* progress hold (FramesOK) and that regions list real pages.  One lemma   *)
(* per action; the helpers of the model first.                             *)
(***************************************************************************)
EXTENDS SharedMemory, FiniteSetTheorems, WellFoundedInduction, TLAPS

\* Every page address of a region in use names a page: what the type of the
\* free list needs when shmdt and shmctl free a region.
RegionPagesReal ==
    \A r \in Regions : \A k \in 0 .. (region[r].size - 1) : region[r].pa[k] \in Pages

\* A non-empty set of naturals has a least element and Min is it: the loops of
\* vm.c that stop at the first matching slot.
LEMMA MinExists ==
  ASSUME NEW S \in SUBSET Nat, S # {}
  PROVE  Min(S) \in S /\ \A y \in S : Min(S) <= y
<1> DEFINE R == OpToRel(<, Nat)
<1>1. IsWellFoundedOn(R, Nat)
  BY NatLessThanWellFounded
<1>2. \E x \in S : \A y \in S : ~(<<y, x>> \in R)
  <2> HIDE DEF R
  <2> QED BY <1>1, WFMin
<1>3. \E x \in S : \A y \in S : x <= y
  <2>1. PICK x \in S : \A y \in S : ~(<<y, x>> \in R)
    BY <1>2
  <2>2. ASSUME NEW y \in S PROVE x <= y
    <3>1. ~(<<y, x>> \in R)
      BY <2>1
    <3>2. ~(y < x)
      BY <3>1 DEF OpToRel
    <3> QED BY <3>2
  <2> QED BY <2>2
<1> QED BY <1>3 DEF Min

\* Region and slot numbers are the same finite set of naturals, as both tables
\* have SHAREDREGIONS entries.
LEMMA RegionsAreNat == Regions \subseteq Nat /\ Slots = Regions /\ IsFiniteSet(Regions)
BY LayoutAssumption, FS_Interval DEF Regions, Slots

\* The first slot of a non-empty set of slots is one of them.
LEMMA MinSlot ==
  ASSUME NEW S \in SUBSET Slots, S # {}
  PROVE  Min(S) \in S
BY MinExists, RegionsAreNat

\* What sharedMemoryInit stores in a region is a region.
LEMMA NewRegionType == NewRegion \in Region
BY LayoutAssumption DEF NewRegion, Region, Regions

\* What allocproc stores in a slot of pages[] is a slot.
LEMMA NoRecordType == NoRecord \in Record
BY LayoutAssumption DEF NoRecord, Record, Regions

\* The locals of a process that is in no call are well typed.
LEMMA IdleType == Idle \in Frame
BY LayoutAssumption DEF Idle, Frame, Calls, Regions

\* The state after sharedMemoryInit and userinit is well typed.
LEMMA InitType == Init => TypeOK
BY ProcsAssumption, NewRegionType, NoRecordType, IdleType DEF Init, TypeOK

\* shmget asks for at least one page, whatever the size in bytes.
LEMMA PagesForType == \A bytes \in Nat : PagesFor(bytes) \in Nat \ {0}
BY LayoutAssumption DEF PagesFor

\* When shmget goes on to create a region, the size fits, no region has the
\* key, a slot is free and a mode was given.
LEMMA ShmgetCreates ==
  ASSUME TypeOK, NEW key, NEW bytes \in Sizes, NEW perm, NEW flag,
         ShmgetResult(key, bytes, perm, flag) = CREATE
  PROVE  /\ PagesFor(bytes) \in 1 .. SHAREDREGIONS
         /\ WithKey(key) = {}
         /\ {r \in Regions : region[r].key = -1} # {}
         /\ perm # 0
<1> DEFINE old == region[Min(WithKey(key))]
<1>1. WithKey(key) # {} => old.shmid # CREATE
  <2>1. WithKey(key) \subseteq Slots
    BY RegionsAreNat DEF WithKey
  <2>2. WithKey(key) # {} => Min(WithKey(key)) \in Regions
    BY <2>1, MinSlot, RegionsAreNat
  <2>3. WithKey(key) # {} => old \in Region
    BY <2>2 DEF TypeOK
  <2>4. WithKey(key) # {} => old.shmid \in Regions \cup {-1}
    BY <2>3 DEF Region
  <2>5. CREATE \notin Regions \cup {-1}
    BY RegionsAreNat DEF CREATE
  <2> QED BY <2>4, <2>5
<1>2. -1 # CREATE
  BY DEF CREATE
<1>3. ~(PagesFor(bytes) > SHAREDREGIONS)
  BY <1>2 DEF ShmgetResult
<1>4. PagesFor(bytes) \in 1 .. SHAREDREGIONS
  BY <1>3, PagesForType, InputsAssumption, LayoutAssumption
<1>5. WithKey(key) = {} /\ {r \in Regions : region[r].key = -1} # {}
  BY <1>1, <1>2 DEF ShmgetResult
<1>6. perm # 0
  BY <1>1, <1>2 DEF ShmgetResult
<1> QED BY <1>4, <1>5, <1>6

\* If some region is unused, the one shmget picks is.
LEMMA FreeRegionIs ==
  ASSUME {r \in Regions : region[r].key = -1} # {}
  PROVE  FreeRegion \in Regions /\ region[FreeRegion].key = -1
<1> DEFINE S == {r \in Regions : region[r].key = -1}
<1>1. S \in SUBSET Slots /\ S # {}
  BY RegionsAreNat
<1>2. Min(S) \in S
  <2> HIDE DEF S
  <2> QED BY <1>1, MinSlot
<1> QED BY <1>2 DEF FreeRegion

\* shmget keeps the types, also when kalloc fails halfway.
LEMMA ShmgetType ==
  ASSUME TypeOK, NEW p \in Procs, ShmgetCall(p)
  PROVE  TypeOK'
<1>1. PICK key \in Keys, bytes \in Sizes, perm \in Modes \cup {0}, flag \in ShmgetFlags :
        \/ ShmgetCreate(p, key, bytes, perm, flag)
        \/ ShmgetNoMemory(p, key, bytes, perm, flag)
  BY DEF ShmgetCall
<1>2. CASE ShmgetCreate(p, key, bytes, perm, flag)
  <2>1. PICK pa \in Injection(0 .. (PagesFor(bytes) - 1), free) :
         /\ Kalloced(PagesFor(bytes), pa)
         /\ region' = [region EXCEPT ![FreeRegion] =
              [@ EXCEPT !.pa = WithPages(FreeRegion, PagesFor(bytes), pa),
                        !.size = PagesFor(bytes), !.key = key, !.segsz = bytes,
                        !.mode = perm, !.shmid = FreeRegion]]
    BY <1>2 DEF ShmgetCreate
  <2>2. PagesFor(bytes) \in 1 .. SHAREDREGIONS
    <3>1. ShmgetResult(key, bytes, perm, flag) = CREATE
      BY <1>2 DEF ShmgetCreate
    <3> QED BY <3>1, ShmgetCreates
  <2>3. pa \in [0 .. (PagesFor(bytes) - 1) -> Pages]
    BY <2>1 DEF Injection, TypeOK
  <2>4. free' \subseteq Pages
    BY <2>1 DEF Kalloced, TypeOK
  <2>5. region' \in [Regions -> Region]
    <3>1. CASE FreeRegion \in Regions
      <4>1. region[FreeRegion] \in Region
        BY <3>1 DEF TypeOK
      <4>2. WithPages(FreeRegion, PagesFor(bytes), pa) \in [Regions -> Pages \cup {NoPage}]
        BY <4>1, <2>2, <2>3, LayoutAssumption DEF WithPages, Regions, Region
      <4>3. key \in Int /\ bytes \in Nat /\ perm \in {0, READ_SHM, RW_SHM}
        BY InputsAssumption
      <4>4. PagesFor(bytes) \in 0 .. SHAREDREGIONS
        BY <2>2, LayoutAssumption
      <4>5. region'[FreeRegion] = [region[FreeRegion] EXCEPT
                !.pa = WithPages(FreeRegion, PagesFor(bytes), pa),
                !.size = PagesFor(bytes), !.key = key, !.segsz = bytes,
                !.mode = perm, !.shmid = FreeRegion]
        BY <2>1, <3>1 DEF TypeOK
      <4>6. region'[FreeRegion] \in Region
        BY <4>1, <4>2, <4>3, <4>4, <4>5, <3>1 DEF Region
      <4> QED BY <4>6, <3>1, <2>1 DEF TypeOK
    <3>2. CASE FreeRegion \notin Regions
      BY <3>2, <2>1 DEF TypeOK
    <3> QED BY <3>1, <3>2
  <2> QED BY <1>2, <2>4, <2>5 DEF ShmgetCreate, TypeOK, procVars
<1>3. CASE ShmgetNoMemory(p, key, bytes, perm, flag)
  <2>0. PICK m \in 0 .. (PagesFor(bytes) - 1) : \E pa \in Injection(0 .. (m - 1), free) :
           /\ Kalloced(m, pa)
           /\ Range(pa) = free
           /\ region' = [region EXCEPT ![FreeRegion].pa = WithPages(FreeRegion, m, pa)]
    BY <1>3 DEF ShmgetNoMemory
  <2>1. PICK pa \in Injection(0 .. (m - 1), free) :
           /\ Kalloced(m, pa)
           /\ Range(pa) = free
           /\ region' = [region EXCEPT ![FreeRegion].pa = WithPages(FreeRegion, m, pa)]
    BY <2>0
  <2>2. PagesFor(bytes) \in 1 .. SHAREDREGIONS
    <3>1. ShmgetResult(key, bytes, perm, flag) = CREATE
      BY <1>3 DEF ShmgetNoMemory
    <3> QED BY <3>1, ShmgetCreates
  <2>3. pa \in [0 .. (m - 1) -> Pages]
    BY <2>1 DEF Injection, TypeOK
  <2>4. free' \subseteq Pages
    BY <2>1 DEF Kalloced, TypeOK
  <2>5. region' \in [Regions -> Region]
    <3>1. CASE FreeRegion \in Regions
      <4>1. region[FreeRegion] \in Region
        BY <3>1 DEF TypeOK
      <4>2. WithPages(FreeRegion, m, pa) \in [Regions -> Pages \cup {NoPage}]
        BY <4>1, <2>2, <2>3, LayoutAssumption DEF WithPages, Regions, Region
      <4> QED BY <4>1, <4>2, <3>1, <2>1 DEF TypeOK, Region
    <3>2. CASE FreeRegion \notin Regions
      BY <3>2, <2>1 DEF TypeOK
    <3> QED BY <3>1, <3>2
  <2> QED BY <1>3, <2>4, <2>5 DEF ShmgetNoMemory, TypeOK, procVars
<1> QED BY <1>1, <1>2, <1>3

\* mappages keeps the types of the free list, the page table and its entries.
LEMMA MappedType ==
  ASSUME TypeOK, NEW p \in Procs, NEW va, NEW m, NEW pa, NEW perm, NEW t,
         \A k \in 0 .. (m - 1) : pa[k] \in Pages \cup {NoPage},
         Mapped(p, va, m, pa, perm, t)
  PROVE  /\ free' \subseteq Pages
         /\ map' \in [Procs -> [VPages -> Pages \cup {NoPage, Unmapped}]]
         /\ writable' \in [Procs -> SUBSET VPages]
         /\ pgtab' \in [Procs -> [Dirs -> Pages \cup {NoPage}]]
<1> DEFINE at(v) == {k \in 0 .. (m - 1) : va + k * PGSIZE = v}
           new == {v \in VPages : at(v) # {}}
<1>1. free' \subseteq Pages
  BY DEF Mapped, TypeOK
<1>2. pgtab' \in [Procs -> [Dirs -> Pages \cup {NoPage}]]
  <2>1. t \in [NewTables(p, va, m) -> Pages]
    BY DEF Mapped, Injection, TypeOK
  <2>2. [d \in Dirs |-> IF d \in DOMAIN t THEN t[d] ELSE pgtab[p][d]] \in [Dirs -> Pages \cup {NoPage}]
    <3>1. pgtab[p] \in [Dirs -> Pages \cup {NoPage}]
      BY DEF TypeOK
    <3> QED BY <2>1, <3>1
  <2> QED BY <2>2 DEF Mapped, TypeOK
<1>3. \A v \in VPages : v \in new => pa[CHOOSE k \in at(v) : TRUE] \in Pages \cup {NoPage}
  OBVIOUS
<1>4. map' = [map EXCEPT ![p] = [v \in VPages |->
                IF v \in new THEN pa[CHOOSE k \in at(v) : TRUE] ELSE map[p][v]]]
  BY DEF Mapped, TypeOK
<1>5. writable' = [writable EXCEPT ![p] = IF perm THEN writable[p] \cup new ELSE writable[p]]
  BY DEF Mapped, TypeOK
<1>6. new \subseteq VPages
  OBVIOUS
<1> HIDE DEF new, at
<1>7. map' \in [Procs -> [VPages -> Pages \cup {NoPage, Unmapped}]]
  BY <1>3, <1>4 DEF TypeOK
<1>8. writable' \in [Procs -> SUBSET VPages]
  BY <1>5, <1>6 DEF TypeOK
<1> QED BY <1>1, <1>2, <1>7, <1>8

\* Clearing the entries of a segment in shmdt keeps the types.
LEMMA ClearEntriesType ==
  ASSUME TypeOK, NEW p \in Procs, NEW i, ClearEntries(p, i)
  PROVE  /\ map' \in [Procs -> [VPages -> Pages \cup {NoPage, Unmapped}]]
         /\ writable' \in [Procs -> SUBSET VPages]
<1> DEFINE gone == {pages[p][i].va + k * PGSIZE : k \in Walked(p, i)}
<1>1. map' = [map EXCEPT ![p] = [v \in VPages |-> IF v \in gone THEN Unmapped ELSE map[p][v]]]
  BY DEF ClearEntries, TypeOK
<1>2. writable' = [writable EXCEPT ![p] = writable[p] \ gone]
  BY DEF ClearEntries, TypeOK
<1> HIDE DEF gone
<1> QED BY <1>1, <1>2 DEF TypeOK

\* The pages of a region are pages.
LEMMA RegionPagesType ==
  ASSUME RegionPagesReal, NEW r \in Regions
  PROVE  RegionPages(r) \subseteq Pages
BY DEF RegionPagesReal, RegionPages

\* A region reset by shmdt or IPC_RMID is a region.
LEMMA ClearedType ==
  ASSUME TypeOK, NEW r \in Regions
  PROVE  Cleared(r) \in Region
<1> DEFINE left == [k \in Regions |-> IF k < region[r].size THEN NoPage ELSE region[r].pa[k]]
<1>1. region[r].pa \in [Regions -> Pages \cup {NoPage}]
  BY DEF TypeOK, Region
<1>2. left \in [Regions -> Pages \cup {NoPage}]
  BY <1>1
<1>3. Cleared(r) = [NewRegion EXCEPT !.pa = left]
  BY DEF Cleared
<1> HIDE DEF left
<1> QED BY <1>2, <1>3, NewRegionType DEF Region

\* A successful shmdt keeps the types; the region it may free is given by the
\* slot index.
LEMMA ShmdtDoneType ==
  ASSUME TypeOK, RegionPagesReal, NEW p \in Procs, NEW i \in Slots, ShmdtDone(p, i)
  PROVE  /\ region' \in [Regions -> Region]
         /\ pages' \in [Procs -> [Slots -> Record]]
         /\ free' \subseteq Pages
         /\ map' \in [Procs -> [VPages -> Pages \cup {NoPage, Unmapped}]]
         /\ writable' \in [Procs -> SUBSET VPages]
<1> DEFINE shmid == pages[p][i].shmid
           left == Decremented(region[shmid].nattch)
           gone == IF left = 0 /\ region[shmid].toBeDeleted THEN {Victim(i, shmid)} ELSE {}
<1>1. gone \subseteq Regions
  BY DEF Victim, Slots
<1>2. /\ ClearEntries(p, i)
      /\ pages' = [pages EXCEPT ![p][i] = NoRecord]
      /\ free' = free \cup UNION {RegionPages(r) : r \in gone}
      /\ region' = [r \in Regions |->
              IF r \in gone THEN Cleared(r)
              ELSE IF r = shmid THEN [region[r] EXCEPT !.nattch = left]
              ELSE region[r]]
  BY DEF ShmdtDone
<1>3. shmid \in Regions => left \in Nat
  <2>1. shmid \in Regions => region[shmid].nattch \in Nat
    BY DEF TypeOK, Region
  <2> QED BY <2>1 DEF Decremented
<1> HIDE DEF gone, left, shmid
<1>4. ASSUME NEW r \in Regions PROVE region'[r] \in Region
  <2>1. CASE r \in gone
    BY <2>1, <1>2, ClearedType
  <2>2. CASE r \notin gone /\ r = shmid
    <3>1. region'[r] = [region[r] EXCEPT !.nattch = left]
      BY <2>2, <1>2
    <3>2. region[r] \in Region
      BY DEF TypeOK
    <3> QED BY <3>1, <3>2, <2>2, <1>3 DEF Region
  <2>3. CASE r \notin gone /\ r # shmid
    BY <2>3, <1>2 DEF TypeOK
  <2> QED BY <2>1, <2>2, <2>3
<1>5. region' \in [Regions -> Region]
  BY <1>2, <1>4
<1>6. free' \subseteq Pages
  <2>1. UNION {RegionPages(r) : r \in gone} \subseteq Pages
    BY <1>1, RegionPagesType
  <2> QED BY <1>2, <2>1 DEF TypeOK
<1>7. pages' \in [Procs -> [Slots -> Record]]
  BY <1>2, NoRecordType DEF TypeOK
<1> QED BY <1>2, <1>5, <1>6, <1>7, ClearEntriesType

\* A non-empty set of slots has a last element.
LEMMA MaxExists ==
  ASSUME NEW S \in SUBSET Slots, S # {}
  PROVE  \E x \in S : \A y \in S : y <= x
<1> DEFINE T == {SHAREDREGIONS - x : x \in S}
<1>1. T \in SUBSET Nat /\ T # {}
  <2>1. \A x \in S : SHAREDREGIONS - x \in Nat
    BY LayoutAssumption DEF Slots, Regions
  <2> QED BY <2>1
<1>2. PICK m \in T : \A y \in T : m <= y
  <2> HIDE DEF T
  <2> QED BY <1>1, MinExists
<1>3. PICK x \in S : m = SHAREDREGIONS - x
  BY <1>2
<1>4. \A y \in S : y <= x
  <2>1. ASSUME NEW y \in S PROVE y <= x
    <3>1. m <= SHAREDREGIONS - y
      BY <1>2
    <3> QED BY <3>1, <1>3, LayoutAssumption DEF Slots, Regions
  <2> QED BY <2>1
<1> QED BY <1>4

\* getLeastvaidx returns -1 or a slot.
LEMMA GetLeastvaidxType ==
  ASSUME TypeOK, NEW p \in Procs, NEW a, GetLeastvaidx(p, a) # -1
  PROVE  GetLeastvaidx(p, a) \in Slots
<1> DEFINE above == {i \in Attached(p) : a <= pages[p][i].va}
           least(i) == \A j \in above : \/ pages[p][i].va < pages[p][j].va
                                        \/ pages[p][i].va = pages[p][j].va /\ j <= i
           vas == {pages[p][i].va : i \in above}
<1>1. above # {} /\ GetLeastvaidx(p, a) = CHOOSE i \in above : least(i)
  BY DEF GetLeastvaidx
<1>2. above \subseteq Slots
  BY DEF Attached
<1>3. \A i \in Slots : pages[p][i].va \in Nat
  <2>1. \A i \in Slots : pages[p][i] \in Record
    BY DEF TypeOK
  <2>2. 0 .. (KERNBASE - 1) \subseteq Nat
    BY LayoutAssumption
  <2> QED BY <2>1, <2>2 DEF Record
<1>4. PICK v \in vas : \A w \in vas : v <= w
  <2>1. vas \in SUBSET Nat /\ vas # {}
    BY <1>1, <1>2, <1>3
  <2> HIDE DEF vas
  <2> QED BY <2>1, MinExists
<1> DEFINE low == {i \in above : pages[p][i].va = v}
<1>5. low \subseteq Slots /\ low # {}
  BY <1>2, <1>4
<1>6. PICK i \in low : \A j \in low : j <= i
  <2> HIDE DEF low
  <2> QED BY <1>5, MaxExists
<1>7. least(i)
  <2>1. ASSUME NEW j \in above
        PROVE  \/ pages[p][i].va < pages[p][j].va
               \/ pages[p][i].va = pages[p][j].va /\ j <= i
    <3>1. pages[p][i].va = v /\ v <= pages[p][j].va
      BY <1>4, <1>6
    <3>2. pages[p][i].va \in Nat /\ pages[p][j].va \in Nat
      BY <1>2, <1>3, <1>6
    <3>3. pages[p][j].va = v => j <= i
      BY <1>6
    <3> QED BY <3>1, <3>2, <3>3
  <2> QED BY <2>1
<1>8. (CHOOSE x \in above : least(x)) \in above
  <2> HIDE DEF least, above
  <2> QED BY <1>6, <1>7 DEF low
<1> QED BY <1>1, <1>2, <1>8

\* The sets of slots the calls search are sets of slots.
LEMMA SlotSets ==
  ASSUME NEW p
  PROVE  /\ Attached(p) \subseteq Slots
         /\ \A a : AttachedAt(p, a) \subseteq Slots /\ Covering(p, a) \subseteq Slots
         /\ Ahead(p) \subseteq Slots
BY DEF Attached, AttachedAt, Covering, Ahead

\* The second half of shmat, from the permission test on, keeps the types.
LEMMA ShmatFinishType ==
  ASSUME TypeOK, NEW p \in Procs, NEW shmid \in Regions, NEW va \in 0 .. (KERNBASE - 1),
         NEW rdonly \in BOOLEAN, ShmatFinish(p, shmid, va, rdonly)
  PROVE  /\ region' \in [Regions -> Region]
         /\ pages' \in [Procs -> [Slots -> Record]]
         /\ free' \subseteq Pages
         /\ map' \in [Procs -> [VPages -> Pages \cup {NoPage, Unmapped}]]
         /\ writable' \in [Procs -> SUBSET VPages]
         /\ pgtab' \in [Procs -> [Dirs -> Pages \cup {NoPage}]]
         /\ halt' \in {"no", "panic: remap", "out of bounds"}
<1> DEFINE n == region[shmid].size
           perm == PtePerm(rdonly, region[shmid].mode)
           idx == Min(Slots \ Attached(p))
           rec == [shmid |-> shmid, va |-> va, key |-> region[shmid].key, size |-> n, perm |-> perm]
<1>1. PICK m \in 0 .. n : \E t : /\ Mapped(p, va, m, region[shmid].pa, perm, t)
        /\ \/ /\ pages' = [pages EXCEPT ![p][idx] = rec]
              /\ region' = [region EXCEPT ![shmid].nattch = @ + 1]
              /\ halt' = halt
           \/ region' = region /\ pages' = pages /\ halt' = halt
           \/ region' = region /\ pages' = pages /\ halt' = "panic: remap"
  BY DEF ShmatFinish
<1>2. PICK t : /\ Mapped(p, va, m, region[shmid].pa, perm, t)
        /\ \/ /\ pages' = [pages EXCEPT ![p][idx] = rec]
              /\ region' = [region EXCEPT ![shmid].nattch = @ + 1]
              /\ halt' = halt
           \/ region' = region /\ pages' = pages /\ halt' = halt
           \/ region' = region /\ pages' = pages /\ halt' = "panic: remap"
  BY <1>1
<1>3. region[shmid] \in Region
  BY DEF TypeOK
<1>4. \A k \in 0 .. (m - 1) : region[shmid].pa[k] \in Pages \cup {NoPage}
  BY <1>3, LayoutAssumption DEF Region, Regions
<1>5. rec \in Record
  BY <1>3 DEF Region, Record, PtePerm
<1>6. [region[shmid] EXCEPT !.nattch = @ + 1] \in Region
  BY <1>3 DEF Region
<1> HIDE DEF rec, idx, perm, n
<1>7. region' \in [Regions -> Region]
  BY <1>2, <1>6 DEF TypeOK
<1>8. pages' \in [Procs -> [Slots -> Record]]
  <2>1. pages[p] \in [Slots -> Record]
    BY DEF TypeOK
  <2>2. [pages[p] EXCEPT ![idx] = rec] \in [Slots -> Record]
    BY <2>1, <1>5
  <2> QED BY <1>2, <2>2 DEF TypeOK
<1>9. halt' \in {"no", "panic: remap", "out of bounds"}
  BY <1>2 DEF TypeOK
<1> QED BY <1>2, <1>4, <1>7, <1>8, <1>9, MappedType

\* An shmdt that meets a missing page table changes only the entries it has
\* cleared so far.
LEMMA ShmdtFailsType ==
  ASSUME TypeOK, NEW p \in Procs, NEW i, ShmdtFails(p, i)
  PROVE  /\ region' = region /\ pages' = pages /\ free' = free
         /\ map' \in [Procs -> [VPages -> Pages \cup {NoPage, Unmapped}]]
         /\ writable' \in [Procs -> SUBSET VPages]
BY ClearEntriesType DEF ShmdtFails

\* Replacing the locals of one process by well typed ones keeps the type of
\* frame.
LEMMA FrameUpdateType ==
  ASSUME TypeOK, NEW p \in Procs, NEW f \in Frame, frame' = [frame EXCEPT ![p] = f]
  PROVE  frame' \in [Procs -> Frame]
BY DEF TypeOK

\* shmat keeps the types, up to its end or to the release of the lock.
LEMMA ShmatType ==
  ASSUME TypeOK, NEW p \in Procs, ShmatCall(p)
  PROVE  TypeOK'
<1>1. PICK shmid \in ShmidArgs : \/ \E shmaddr \in Addrs, flags \in ShmatFlags :
                                       Shmat(p, shmid, shmaddr, flags)
                                 \/ OutOfBounds(p, shmid)
  BY DEF ShmatCall
<1>2. CASE OutOfBounds(p, shmid)
  BY <1>2 DEF OutOfBounds, TypeOK, shmVars, memVars, procVars
<1>3. ASSUME NEW shmaddr \in Addrs, NEW flags \in ShmatFlags, Shmat(p, shmid, shmaddr, flags)
      PROVE  TypeOK'
  <2>1. shmid \in Regions
    BY <1>3 DEF Shmat
  <2>2. PICK va \in 0 .. (KERNBASE - 1) :
         IF Covering(p, va) = {}
         THEN ShmatFinish(p, shmid, va, "SHM_RDONLY" \in flags) /\ frame' = frame
         ELSE LET idx == Min(Covering(p, va))
              IN  /\ frame' = [frame EXCEPT ![p] =
                        [Idle EXCEPT !.pc = "remap", !.shmid = shmid, !.va = va,
                                     !.segment = pages[p][idx].va,
                                     !.size = pages[p][idx].size,
                                     !.rdonly = "SHM_RDONLY" \in flags]]
                  /\ UNCHANGED <<region, pages, map, writable, pgtab, free, halt>>
    BY <1>3 DEF Shmat
  <2>3. heap' = heap /\ state' = state /\ parent' = parent
    BY <1>3 DEF Shmat
  <2>4. CASE Covering(p, va) = {}
    <3>1. ShmatFinish(p, shmid, va, "SHM_RDONLY" \in flags) /\ frame' = frame
      BY <2>2, <2>4
    <3>2. ("SHM_RDONLY" \in flags) \in BOOLEAN
      OBVIOUS
    <3>3. /\ region' \in [Regions -> Region]
          /\ pages' \in [Procs -> [Slots -> Record]]
          /\ free' \subseteq Pages
          /\ map' \in [Procs -> [VPages -> Pages \cup {NoPage, Unmapped}]]
          /\ writable' \in [Procs -> SUBSET VPages]
          /\ pgtab' \in [Procs -> [Dirs -> Pages \cup {NoPage}]]
          /\ halt' \in {"no", "panic: remap", "out of bounds"}
      BY <2>1, <3>1, <3>2, ShmatFinishType
    <3> QED BY <2>3, <3>1, <3>3 DEF TypeOK
  <2>5. CASE Covering(p, va) # {}
    <3> DEFINE idx == Min(Covering(p, va))
               f == [Idle EXCEPT !.pc = "remap", !.shmid = shmid, !.va = va,
                                 !.segment = pages[p][idx].va, !.size = pages[p][idx].size,
                                 !.rdonly = "SHM_RDONLY" \in flags]
    <3>1. idx \in Slots
      BY <2>5, SlotSets, MinSlot
    <3>2. pages[p][idx] \in Record
      BY <3>1 DEF TypeOK
    <3>3. f \in Frame
      <4> DEFINE ro == "SHM_RDONLY" \in flags
      <4>1. ro \in BOOLEAN
        OBVIOUS
      <4>2. f = [Idle EXCEPT !.pc = "remap", !.shmid = shmid, !.va = va,
                             !.segment = pages[p][idx].va, !.size = pages[p][idx].size,
                             !.rdonly = ro]
        OBVIOUS
      <4> HIDE DEF f, ro, idx
      <4> QED BY <4>1, <4>2, <3>2, <2>1, IdleType DEF Frame, Record, Calls
    <3>4. frame' = [frame EXCEPT ![p] = f]
      BY <2>2, <2>5
    <3> HIDE DEF f, idx
    <3>5. frame' \in [Procs -> Frame]
      BY <3>3, <3>4, FrameUpdateType
    <3> QED BY <2>2, <2>3, <2>5, <3>5 DEF TypeOK
  <2> QED BY <2>4, <2>5
<1> QED BY <1>1, <1>2, <1>3

\* The steps of shmat under SHM_REMAP keep the types.
LEMMA RemapType ==
  ASSUME TypeOK, FramesOK, RegionPagesReal, NEW p \in Procs, RemapDetach(p) \/ RemapNext(p)
  PROVE  TypeOK'
<1>0. frame[p] \in Frame
  BY DEF TypeOK
<1>1. CASE RemapDetach(p)
  <2> DEFINE i == Min(AttachedAt(p, frame[p].segment))
  <2>1. i \in Slots
    BY <1>1, SlotSets, MinSlot DEF RemapDetach
  <2>2. /\ \/ ShmdtDone(p, i) /\ frame' = [frame EXCEPT ![p].pc = "remapped"]
           \/ ShmdtFails(p, i) /\ frame' = [frame EXCEPT ![p] = Idle]
        /\ UNCHANGED <<pgtab, heap, state, parent, halt>>
    BY <1>1 DEF RemapDetach, Return
  <2> HIDE DEF i
  <2>3. [frame[p] EXCEPT !.pc = "remapped"] \in Frame
    BY <1>0 DEF Frame, Calls
  <2>4. frame' \in [Procs -> Frame]
    BY <2>2, <2>3, IdleType DEF TypeOK
  <2>5. /\ region' \in [Regions -> Region]
        /\ pages' \in [Procs -> [Slots -> Record]]
        /\ free' \subseteq Pages
        /\ map' \in [Procs -> [VPages -> Pages \cup {NoPage, Unmapped}]]
        /\ writable' \in [Procs -> SUBSET VPages]
    <3>1. CASE ShmdtDone(p, i)
      BY <3>1, <2>1, ShmdtDoneType
    <3>2. CASE ShmdtFails(p, i)
      BY <3>2, ShmdtFailsType DEF TypeOK
    <3> QED BY <2>2, <3>1, <3>2
  <2> QED BY <2>2, <2>4, <2>5 DEF TypeOK
<1>2. CASE RemapNext(p)
  <2> DEFINE f == frame[p]
             idx == GetLeastvaidx(p, f.segment + f.size * PGSIZE)
             more == idx # -1 /\ pages[p][idx].va < f.va + region[f.shmid].size * PGSIZE
             g == [f EXCEPT !.pc = "remap", !.segment = pages[p][idx].va, !.size = pages[p][idx].size]
  <2>1. f.shmid \in Regions
    BY <1>2 DEF RemapNext, In, FramesOK, FrameOK
  <2>2. heap' = heap /\ state' = state /\ parent' = parent
    BY <1>2 DEF RemapNext
  <2>3. CASE more
    <3>1. idx \in Slots
      BY <2>3, GetLeastvaidxType
    <3>2. pages[p][idx] \in Record
      BY <3>1 DEF TypeOK
    <3>3. g \in Frame
      BY <1>0, <3>2 DEF Frame, Record, Calls
    <3>4. frame' = [frame EXCEPT ![p] = g] /\ UNCHANGED <<region, pages, map, writable, pgtab, free, halt>>
      BY <1>2, <2>3 DEF RemapNext
    <3> HIDE DEF g, idx, f, more
    <3>5. frame' \in [Procs -> Frame]
      BY <3>3, <3>4, FrameUpdateType
    <3> QED BY <2>2, <3>4, <3>5 DEF TypeOK
  <2>4. CASE ~more
    <3>1. /\ ShmatFinish(p, f.shmid, f.va, f.rdonly) \/ ShmatDenied(f.shmid, f.rdonly)
          /\ frame' = [frame EXCEPT ![p] = Idle]
      BY <1>2, <2>4 DEF RemapNext, Return
    <3>2. f.va \in 0 .. (KERNBASE - 1) /\ f.rdonly \in BOOLEAN
      BY <1>0 DEF Frame
    <3> HIDE DEF f, idx, more
    <3>3. frame' \in [Procs -> Frame]
      BY <3>1, IdleType, FrameUpdateType
    <3>4. CASE ShmatFinish(p, f.shmid, f.va, f.rdonly)
      <4>1. /\ region' \in [Regions -> Region]
            /\ pages' \in [Procs -> [Slots -> Record]]
            /\ free' \subseteq Pages
            /\ map' \in [Procs -> [VPages -> Pages \cup {NoPage, Unmapped}]]
            /\ writable' \in [Procs -> SUBSET VPages]
            /\ pgtab' \in [Procs -> [Dirs -> Pages \cup {NoPage}]]
            /\ halt' \in {"no", "panic: remap", "out of bounds"}
        BY <2>1, <3>2, <3>4, ShmatFinishType
      <4> QED BY <2>2, <3>3, <4>1 DEF TypeOK
    <3>5. CASE ShmatDenied(f.shmid, f.rdonly)
      BY <2>2, <3>3, <3>5 DEF ShmatDenied, TypeOK
    <3> QED BY <3>1, <3>4, <3>5
  <2> QED BY <2>3, <2>4
<1> QED BY <1>1, <1>2

\* shmdt keeps the types.
LEMMA ShmdtType ==
  ASSUME TypeOK, RegionPagesReal, NEW p \in Procs, NEW a, Shmdt(p, a)
  PROVE  TypeOK'
<1> DEFINE i == Min(AttachedAt(p, a))
<1>1. i \in Slots
  BY SlotSets, MinSlot DEF Shmdt
<1>2. ShmdtDone(p, i) \/ ShmdtFails(p, i)
  BY DEF Shmdt
<1>3. UNCHANGED <<pgtab, heap, procVars, halt>>
  BY DEF Shmdt
<1> HIDE DEF i
<1>4. CASE ShmdtDone(p, i)
  BY <1>1, <1>3, <1>4, ShmdtDoneType DEF TypeOK, procVars
<1>5. CASE ShmdtFails(p, i)
  BY <1>3, <1>5, ShmdtFailsType DEF TypeOK, procVars
<1> QED BY <1>2, <1>4, <1>5

\* shmctl keeps the types.
LEMMA ShmctlType ==
  ASSUME TypeOK, RegionPagesReal, NEW p \in Procs, ShmctlCall(p)
  PROVE  TypeOK'
<1>1. PICK shmid \in ShmidArgs : \/ \E mode \in Modes : ShmctlSet(p, shmid, mode)
                                 \/ ShmctlRmid(p, shmid)
                                 \/ ShmctlMark(p, shmid)
                                 \/ OutOfBounds(p, shmid)
  BY DEF ShmctlCall
<1>2. CASE OutOfBounds(p, shmid)
  BY <1>2 DEF OutOfBounds, TypeOK, shmVars, memVars, procVars
<1>3. ASSUME NEW mode \in Modes, ShmctlSet(p, shmid, mode) PROVE TypeOK'
  <2>0. region[shmid] \in Region
    BY <1>3 DEF ShmctlSet, TypeOK
  <2>1. [region[shmid] EXCEPT !.mode = mode] \in Region
    BY <2>0, InputsAssumption DEF Region
  <2>2. region' \in [Regions -> Region]
    BY <2>1, <1>3 DEF ShmctlSet, TypeOK
  <2> QED BY <2>2, <1>3 DEF ShmctlSet, TypeOK, memVars, procVars
<1>4. CASE ShmctlRmid(p, shmid)
  <2>0. shmid \in Regions
    BY <1>4 DEF ShmctlRmid
  <2>1. region' \in [Regions -> Region]
    BY <2>0, <1>4, ClearedType DEF ShmctlRmid, TypeOK
  <2>2. free' \subseteq Pages
    BY <2>0, <1>4, RegionPagesType DEF ShmctlRmid, TypeOK
  <2> QED BY <2>1, <2>2, <1>4 DEF ShmctlRmid, TypeOK, procVars
<1>5. CASE ShmctlMark(p, shmid)
  <2>0. region[shmid] \in Region
    BY <1>5 DEF ShmctlMark, TypeOK
  <2>1. [region[shmid] EXCEPT !.toBeDeleted = TRUE] \in Region
    BY <2>0 DEF Region
  <2>2. region' \in [Regions -> Region]
    BY <2>1, <1>5 DEF ShmctlMark, TypeOK
  <2> QED BY <2>2, <1>5 DEF ShmctlMark, TypeOK, memVars, procVars
<1> QED BY <1>1, <1>2, <1>3, <1>4, <1>5

\* Each step of fork keeps the types.
LEMMA ForkType ==
  ASSUME TypeOK, FramesOK, NEW p \in Procs,
         (\E c \in Procs : Fork(p, c)) \/ ForkSlot(p) \/ ForkMap(p) \/ ForkDone(p)
  PROVE  TypeOK'
<1>0. frame[p] \in Frame
  BY DEF TypeOK
<1>1. ASSUME NEW c \in Procs, Fork(p, c) PROVE TypeOK'
  <2>1. [Idle EXCEPT !.pc = "fork", !.child = c] \in Frame
    BY IdleType DEF Frame, Calls
  <2>2. frame' \in [Procs -> Frame]
    BY <2>1, <1>1 DEF Fork, TypeOK
  <2>3. pages' \in [Procs -> [Slots -> Record]]
    BY <1>1, NoRecordType DEF Fork, TypeOK
  <2>4. free' \subseteq Pages /\ heap' \in [Procs -> SUBSET Pages]
    BY <1>1 DEF Fork, TypeOK
  <2> QED BY <1>1, <2>2, <2>3, <2>4 DEF Fork, TypeOK
<1>2. CASE ForkSlot(p)
  <2> DEFINE i == Min(Ahead(p))
             c == frame[p].child
             index == region[pages[p][i].shmid].shmid
             f == IF index = -1 THEN [frame[p] EXCEPT !.slot = i + 1]
                  ELSE [frame[p] EXCEPT !.pc = "forkmap", !.slot = i, !.index = index, !.k = 0]
  <2>1. i \in Ahead(p) /\ i \in Slots
    BY <1>2, SlotSets, MinSlot DEF ForkSlot
  <2>2. pages[p][i] \in Record
    BY <2>1 DEF TypeOK
  <2>3. pages[p][i].shmid \in Regions
    BY <2>1, <2>2 DEF Ahead, Record
  <2>4. index \in Regions \cup {-1}
    <3>1. region[pages[p][i].shmid] \in Region
      BY <2>3 DEF TypeOK
    <3> QED BY <3>1 DEF Region
  <2>5. c \in Procs
    BY <1>2 DEF ForkSlot, In, FramesOK, FrameOK
  <2>6. /\ pages' = [pages EXCEPT ![c][i] = pages[p][i]]
        /\ frame' = [frame EXCEPT ![p] = f]
        /\ UNCHANGED <<region, memVars, state, parent, halt>>
    BY <1>2 DEF ForkSlot, TypeOK
  <2> HIDE DEF index, i, c
  <2>7. f \in Frame
    <3>1. i \in 0 .. SHAREDREGIONS /\ i + 1 \in 0 .. SHAREDREGIONS /\ 0 \in Regions
      BY <2>1, LayoutAssumption DEF Slots, Regions
    <3> QED BY <1>0, <2>4, <3>1 DEF Frame, Calls
  <2>8. frame' \in [Procs -> Frame]
    <3> HIDE DEF f
    <3> QED BY <2>6, <2>7 DEF TypeOK
  <2>9. pages' \in [Procs -> [Slots -> Record]]
    BY <2>1, <2>2, <2>5, <2>6 DEF TypeOK
  <2> QED BY <2>6, <2>8, <2>9 DEF TypeOK, memVars
<1>3. CASE ForkMap(p)
  <2> DEFINE f == frame[p]
             c == f.child
             s == pages[c][f.slot]
             va == s.va + f.k * PGSIZE
             next == [f EXCEPT !.pc = "fork", !.slot = @ + 1, !.index = -1, !.k = 0]
             pa == [k \in {0} |-> region[f.index].pa[f.k]]
             up == [f EXCEPT !.k = @ + 1]
  <2>1. c \in Procs /\ f.index \in Regions /\ f.slot \in Slots
    BY <1>3 DEF ForkMap, In, FramesOK, FrameOK
  <2>2. s \in Record
    <3>1. pages[c] \in [Slots -> Record]
      BY <2>1 DEF TypeOK
    <3> QED BY <2>1, <3>1
  <2>3. region[f.index] \in Region
    BY <2>1 DEF TypeOK
  <2>4. f.k \in Regions
    BY <1>0 DEF Frame
  <2>5. next \in Frame
    <3>1. f.slot + 1 \in 0 .. SHAREDREGIONS /\ 0 \in Regions
      BY <2>1, LayoutAssumption DEF Slots, Regions
    <3> QED BY <1>0, <3>1 DEF Frame, Calls
  <2>6. f.k + 1 < s.size => up \in Frame
    <3>1. f.k + 1 < s.size => f.k + 1 \in Regions
      BY <2>2, <2>4, LayoutAssumption DEF Record, Regions
    <3> QED BY <1>0, <3>1 DEF Frame, Calls
  <2>7. PICK m \in 0 .. 1 : \E t :
             /\ Mapped(c, va, m, pa, s.perm, t)
             /\ \/ frame' = [frame EXCEPT ![p] = next] /\ halt' = halt
                \/ f.k + 1 < s.size /\ frame' = [frame EXCEPT ![p] = up] /\ halt' = halt
                \/ frame' = frame /\ halt' = "panic: remap"
    BY <1>3 DEF ForkMap
  <2>8. PICK t :
             /\ Mapped(c, va, m, pa, s.perm, t)
             /\ \/ frame' = [frame EXCEPT ![p] = next] /\ halt' = halt
                \/ f.k + 1 < s.size /\ frame' = [frame EXCEPT ![p] = up] /\ halt' = halt
                \/ frame' = frame /\ halt' = "panic: remap"
    BY <2>7
  <2>9. UNCHANGED <<shmVars, heap, state, parent>>
    BY <1>3 DEF ForkMap
  <2>10. \A k \in 0 .. (m - 1) : pa[k] \in Pages \cup {NoPage}
    <3>1. \A k \in 0 .. (m - 1) : k = 0
      <4>1. m = 0 \/ m = 1
        OBVIOUS
      <4> QED BY <4>1
    <3>2. region[f.index].pa[f.k] \in Pages \cup {NoPage}
      BY <2>3, <2>4 DEF Region
    <3> QED BY <3>1, <3>2
  <2> HIDE DEF next, up, pa, va, s, c, f
  <2>11. frame' \in [Procs -> Frame] /\ halt' \in {"no", "panic: remap", "out of bounds"}
    BY <2>5, <2>6, <2>8 DEF TypeOK
  <2>12. /\ free' \subseteq Pages
         /\ map' \in [Procs -> [VPages -> Pages \cup {NoPage, Unmapped}]]
         /\ writable' \in [Procs -> SUBSET VPages]
         /\ pgtab' \in [Procs -> [Dirs -> Pages \cup {NoPage}]]
    BY <2>1, <2>8, <2>10, MappedType
  <2> QED BY <2>9, <2>11, <2>12 DEF TypeOK, shmVars
<1>4. CASE ForkDone(p)
  BY <1>4, IdleType DEF ForkDone, Return, TypeOK, shmVars, memVars
<1> QED BY <1>1, <1>2, <1>3, <1>4

\* freevm gives back pages only.
LEMMA FreevmType ==
  ASSUME TypeOK, NEW p \in Procs, NEW user \in SUBSET Pages, Freevm(p, user)
  PROVE  /\ free' \subseteq Pages
         /\ heap' \in [Procs -> SUBSET Pages]
         /\ map' \in [Procs -> [VPages -> Pages \cup {NoPage, Unmapped}]]
         /\ writable' \in [Procs -> SUBSET VPages]
         /\ pgtab' \in [Procs -> [Dirs -> Pages \cup {NoPage}]]
<1>1. Tables(p) \subseteq Pages
  <2>1. pgtab[p] \in [Dirs -> Pages \cup {NoPage}]
    BY DEF TypeOK
  <2> QED BY <2>1 DEF Tables
<1>2. free' \subseteq Pages /\ heap' \in [Procs -> SUBSET Pages]
  BY <1>1 DEF Freevm, Freed, TypeOK
<1>3. /\ map' \in [Procs -> [VPages -> Pages \cup {NoPage, Unmapped}]]
      /\ writable' \in [Procs -> SUBSET VPages]
      /\ pgtab' \in [Procs -> [Dirs -> Pages \cup {NoPage}]]
  BY DEF Freevm, TypeOK
<1> QED BY <1>2, <1>3

\* exit and exec keep the types, step by step.
LEMMA ExitType ==
  ASSUME TypeOK, RegionPagesReal, NEW p \in Procs,
         Exit(p) \/ Exec(p) \/ ExecFails(p) \/ DetachSlot(p) \/ ExitDone(p) \/ ExecDone(p)
  PROVE  TypeOK'
<1>0. frame[p] \in Frame
  BY DEF TypeOK
<1>1. CASE Exit(p)
  <2>1. [Idle EXCEPT !.pc = "exit"] \in Frame
    BY IdleType DEF Frame, Calls
  <2> QED BY <1>1, <2>1 DEF Exit, TypeOK, shmVars, memVars
<1>2. CASE Exec(p)
  <2>1. PICK image \in SUBSET free :
             /\ heap' = [heap EXCEPT ![p] = @ \cup image]
             /\ free' = free \ image
             /\ frame' = [frame EXCEPT ![p] = [Idle EXCEPT !.pc = "exec", !.image = image]]
    BY <1>2 DEF Exec
  <2>2. image \subseteq Pages
    BY DEF TypeOK
  <2>3. [Idle EXCEPT !.pc = "exec", !.image = image] \in Frame
    BY <2>2, IdleType DEF Frame, Calls
  <2>4. frame' \in [Procs -> Frame]
    BY <2>1, <2>3 DEF TypeOK
  <2>5. free' \subseteq Pages /\ heap' \in [Procs -> SUBSET Pages]
    BY <2>1, <2>2 DEF TypeOK
  <2> QED BY <1>2, <2>4, <2>5 DEF Exec, TypeOK, shmVars
<1>3. CASE DetachSlot(p)
  <2> DEFINE i == Min(Ahead(p))
             j == Min(AttachedAt(p, pages[p][i].va))
  <2>1. i \in Ahead(p) /\ i \in Slots
    BY <1>3, SlotSets, MinSlot DEF DetachSlot
  <2>2. j \in Slots
    <3>1. i \in AttachedAt(p, pages[p][i].va)
      BY <2>1 DEF Ahead, AttachedAt
    <3> QED BY <3>1, SlotSets, MinSlot
  <2>3. /\ ShmdtDone(p, j) \/ ShmdtFails(p, j)
        /\ frame' = [frame EXCEPT ![p].slot = i + 1]
        /\ UNCHANGED <<pgtab, heap, state, parent, halt>>
    BY <1>3 DEF DetachSlot
  <2> HIDE DEF i, j
  <2>4. [frame[p] EXCEPT !.slot = i + 1] \in Frame
    <3>1. i + 1 \in 0 .. SHAREDREGIONS
      BY <2>1, LayoutAssumption DEF Slots, Regions
    <3> QED BY <1>0, <3>1 DEF Frame
  <2>5. frame' \in [Procs -> Frame]
    BY <2>3, <2>4 DEF TypeOK
  <2>6. CASE ShmdtDone(p, j)
    BY <2>2, <2>3, <2>5, <2>6, ShmdtDoneType DEF TypeOK
  <2>7. CASE ShmdtFails(p, j)
    BY <2>3, <2>5, <2>7, ShmdtFailsType DEF TypeOK
  <2> QED BY <2>3, <2>6, <2>7
<1>4. CASE ExitDone(p)
  BY <1>4, IdleType, ProcsAssumption DEF ExitDone, Return, TypeOK, shmVars, memVars
<1>5. CASE ExecDone(p)
  <2>1. frame' \in [Procs -> Frame]
    BY <1>5, IdleType DEF ExecDone, Return, TypeOK
  <2>2. heap[p] \ frame[p].image \in SUBSET Pages
    BY DEF TypeOK
  <2> QED BY <1>5, <2>1, <2>2, FreevmType DEF ExecDone, TypeOK, shmVars
<1>6. CASE ExecFails(p)
  <2>1. frame' \in [Procs -> Frame]
    BY <1>6, IdleType DEF ExecFails, Return, TypeOK
  <2>2. free' \subseteq Pages /\ heap' \in [Procs -> SUBSET Pages]
    BY <1>6 DEF ExecFails, TypeOK
  <2> QED BY <1>6, <2>1, <2>2 DEF ExecFails, TypeOK, shmVars
<1> QED BY <1>1, <1>2, <1>3, <1>4, <1>5, <1>6

\* wait and growproc keep the types.
LEMMA WaitGrowType ==
  ASSUME TypeOK, NEW p \in Procs,
         (\E c \in Procs : Wait(p, c)) \/ Grow(p) \/ Shrink(p)
  PROVE  TypeOK'
<1>1. ASSUME NEW c \in Procs, Wait(p, c) PROVE TypeOK'
  <2>1. /\ Freevm(c, heap[c])
        /\ heap[c] \in SUBSET Pages
        /\ parent' \in [Procs -> Procs \cup {NoProc}]
        /\ state' \in [Procs -> {"UNUSED", "EMBRYO", "RUNNABLE", "ZOMBIE"}]
    BY <1>1 DEF Wait, TypeOK
  <2> QED BY <1>1, <2>1, FreevmType DEF Wait, TypeOK, shmVars
<1>2. CASE Grow(p)
  <2>1. free' \subseteq Pages /\ heap' \in [Procs -> SUBSET Pages]
    <3>1. PICK x \in free : heap' = [heap EXCEPT ![p] = @ \cup {x}] /\ free' = free \ {x}
      BY <1>2 DEF Grow
    <3>2. heap[p] \cup {x} \in SUBSET Pages
      BY DEF TypeOK
    <3> QED BY <3>1, <3>2 DEF TypeOK
  <2> QED BY <1>2, <2>1 DEF Grow, TypeOK, shmVars, procVars
<1>3. CASE Shrink(p)
  <2>1. free' \subseteq Pages /\ heap' \in [Procs -> SUBSET Pages]
    BY <1>3 DEF Shrink, TypeOK
  <2> QED BY <1>3, <2>1 DEF Shrink, TypeOK, shmVars, procVars
<1> QED BY <1>1, <1>2, <1>3

\* The disjuncts of Next, grouped by the lemmas that deal with them.
LEMMA NextCases ==
  ASSUME Next
  PROVE  \E p \in Procs :
           \/ ShmgetCall(p)
           \/ ShmatCall(p)
           \/ RemapDetach(p) \/ RemapNext(p)
           \/ \E a \in VPages : Shmdt(p, a)
           \/ ShmctlCall(p)
           \/ (\E c \in Procs : Fork(p, c)) \/ ForkSlot(p) \/ ForkMap(p) \/ ForkDone(p)
           \/ Exit(p) \/ Exec(p) \/ ExecFails(p) \/ DetachSlot(p) \/ ExitDone(p) \/ ExecDone(p)
           \/ (\E c \in Procs : Wait(p, c)) \/ Grow(p) \/ Shrink(p)
BY DEF Next

\* Every step keeps the types, given what FramesOK and RegionPagesReal say of
\* the state before it.
LEMMA TypeStep ==
  ASSUME TypeOK, FramesOK, RegionPagesReal, [Next]_vars
  PROVE  TypeOK'
<1>1. CASE Next
  <2>1. PICK p \in Procs :
           \/ ShmgetCall(p)
           \/ ShmatCall(p)
           \/ RemapDetach(p) \/ RemapNext(p)
           \/ \E a \in VPages : Shmdt(p, a)
           \/ ShmctlCall(p)
           \/ (\E c \in Procs : Fork(p, c)) \/ ForkSlot(p) \/ ForkMap(p) \/ ForkDone(p)
           \/ Exit(p) \/ Exec(p) \/ ExecFails(p) \/ DetachSlot(p) \/ ExitDone(p) \/ ExecDone(p)
           \/ (\E c \in Procs : Wait(p, c)) \/ Grow(p) \/ Shrink(p)
    BY <1>1, NextCases
  <2> QED BY <2>1, ShmgetType, ShmatType, RemapType, ShmdtType, ShmctlType, ForkType,
             ExitType, WaitGrowType
<1>2. CASE UNCHANGED vars
  BY <1>2 DEF TypeOK, vars, shmVars, memVars, procVars
<1> QED BY <1>1, <1>2
=============================================================================
