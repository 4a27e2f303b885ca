------------------------- MODULE SharedMemoryProofs -------------------------
(***************************************************************************)
(* The inductive invariant of SharedMemory and the theorems it gives.      *)
(***************************************************************************)
EXTENDS SharedMemoryPages

\* None of its parts is inductive alone.  TypeOK needs FramesOK and the real
\* pages of PagesOwnedOnce; PagesOwnedOnce needs, of RegionTableSound, that an
\* unused region has size 0, since shmget overwrites its page addresses.
IInv == TypeOK /\ FramesOK /\ RegionTableSound /\ PagesOwnedOnce

-----------------------------------------------------------------------------
(***************************************************************************)
(* FramesOK.                                                               *)
(***************************************************************************)
\* A process in no call satisfies FrameOK.
LEMMA IdleOK == FrameOK(Idle)
BY DEF FrameOK, Idle

\* Replacing the locals of one process by ones that satisfy FrameOK keeps
\* FramesOK.
LEMMA FrameUpdateOK ==
  ASSUME TypeOK, FramesOK, NEW p \in Procs, NEW f, FrameOK(f),
         frame' = [frame EXCEPT ![p] = f]
  PROVE  FramesOK'
<1> SUFFICES ASSUME NEW q \in Procs PROVE FrameOK(frame'[q])
  BY DEF FramesOK, FrameOK
<1>1. CASE q = p
  BY <1>1 DEF TypeOK
<1>2. CASE q # p
  BY <1>2 DEF FramesOK, TypeOK
<1> QED BY <1>1, <1>2

\* Steps that leave all locals alone keep FramesOK.
LEMMA FrameSameOK ==
  ASSUME FramesOK, frame' = frame
  PROVE  FramesOK'
BY DEF FramesOK, FrameOK

\* When shmat releases the lock for SHM_REMAP it has a region number.
LEMMA ShmatFrames ==
  ASSUME TypeOK, FramesOK, NEW p \in Procs, ShmatCall(p)
  PROVE  FramesOK'
<1>1. PICK shmid \in ShmidArgs : \/ \E shmaddr \in Addrs, flags \in ShmatFlags :
                                       Shmat(p, shmid, shmaddr, flags)
                                 \/ OutOfBounds(p, shmid)
  BY DEF ShmatCall
<1>2. CASE OutOfBounds(p, shmid)
  BY <1>2, FrameSameOK DEF OutOfBounds, procVars
<1>3. ASSUME NEW shmaddr \in Addrs, NEW flags \in ShmatFlags, Shmat(p, shmid, shmaddr, flags)
      PROVE  FramesOK'
  <2>1. shmid \in Regions
    BY <1>3 DEF Shmat
  <2>2. \/ frame' = frame
        \/ \E va, seg, n, ro : frame' = [frame EXCEPT ![p] =
              [Idle EXCEPT !.pc = "remap", !.shmid = shmid, !.va = va,
                           !.segment = seg, !.size = n, !.rdonly = ro]]
    BY <1>3 DEF Shmat
  <2>3. ASSUME NEW va, NEW seg, NEW n, NEW ro
        PROVE  FrameOK([Idle EXCEPT !.pc = "remap", !.shmid = shmid, !.va = va,
                                    !.segment = seg, !.size = n, !.rdonly = ro])
    BY <2>1 DEF FrameOK, Idle
  <2>4. ASSUME NEW f, FrameOK(f), frame' = [frame EXCEPT ![p] = f] PROVE FramesOK'
    BY <2>4, FrameUpdateOK
  <2>5. CASE frame' = frame
    BY <2>5, FrameSameOK
  <2>6. CASE frame' # frame
    <3>1. PICK va, seg, n, ro : frame' = [frame EXCEPT ![p] =
              [Idle EXCEPT !.pc = "remap", !.shmid = shmid, !.va = va,
                           !.segment = seg, !.size = n, !.rdonly = ro]]
      BY <2>2, <2>6
    <3> DEFINE f == [Idle EXCEPT !.pc = "remap", !.shmid = shmid, !.va = va,
                                 !.segment = seg, !.size = n, !.rdonly = ro]
    <3>2. FrameOK(f) /\ frame' = [frame EXCEPT ![p] = f]
      BY <2>3, <3>1
    <3> HIDE DEF f
    <3> QED BY <2>4, <3>2
  <2> QED BY <2>5, <2>6
<1> QED BY <1>1, <1>2, <1>3

\* The steps of SHM_REMAP keep that region number.
LEMMA RemapFrames ==
  ASSUME TypeOK, FramesOK, NEW p \in Procs, RemapDetach(p) \/ RemapNext(p)
  PROVE  FramesOK'
<1>0. frame[p] \in Frame /\ FrameOK(frame[p])
  BY DEF TypeOK, FramesOK
<1>1. frame[p].shmid \in Regions
  BY <1>0 DEF RemapDetach, RemapNext, In, FrameOK
<1>2. \/ frame' = [frame EXCEPT ![p] = Idle]
      \/ frame' = [frame EXCEPT ![p] = [frame[p] EXCEPT !.pc = "remapped"]]
      \/ \E seg, n : frame' = [frame EXCEPT ![p] =
                       [frame[p] EXCEPT !.pc = "remap", !.segment = seg, !.size = n]]
  BY DEF RemapDetach, RemapNext, Return, TypeOK
<1>3. FrameOK([frame[p] EXCEPT !.pc = "remapped"])
  BY <1>0, <1>1 DEF FrameOK, Frame
<1>4. ASSUME NEW seg, NEW n
      PROVE  FrameOK([frame[p] EXCEPT !.pc = "remap", !.segment = seg, !.size = n])
  BY <1>0, <1>1 DEF FrameOK, Frame
<1> QED BY <1>2, <1>3, <1>4, IdleOK, FrameUpdateOK

\* fork holds the child it allocated, and in mappagesWrapper a region number
\* and a slot.
LEMMA ForkFrames ==
  ASSUME TypeOK, FramesOK, NEW p \in Procs,
         (\E c \in Procs : Fork(p, c)) \/ ForkSlot(p) \/ ForkMap(p) \/ ForkDone(p)
  PROVE  FramesOK'
<1>0. frame[p] \in Frame /\ FrameOK(frame[p])
  BY DEF TypeOK, FramesOK
<1>1. ASSUME NEW c \in Procs, Fork(p, c) PROVE FramesOK'
  <2>1. FrameOK([Idle EXCEPT !.pc = "fork", !.child = c])
    BY DEF FrameOK, Idle
  <2> QED BY <1>1, <2>1, FrameUpdateOK DEF Fork
<1>2. CASE ForkSlot(p)
  <2> DEFINE i == Min(Ahead(p))
             index == region[pages[p][i].shmid].shmid
             skip == [frame[p] EXCEPT !.slot = i + 1]
             go == [frame[p] EXCEPT !.pc = "forkmap", !.slot = i, !.index = index, !.k = 0]
  <2>1. i \in Ahead(p) /\ i \in Slots
    BY <1>2, SlotSets, MinSlot DEF ForkSlot
  <2>2. pages[p][i] \in Record
    BY <2>1 DEF TypeOK
  <2>3. pages[p][i].shmid \in Regions
    BY <2>1, <2>2 DEF Ahead, Record
  <2>4. index \in Regions \cup {-1}
    <3>1. region[pages[p][i].shmid] \in Region
      BY <2>3 DEF TypeOK
    <3> QED BY <3>1 DEF Region
  <2>5. frame[p].pc = "fork"
    BY <1>2 DEF ForkSlot, In
  <2>6. index # -1 => frame' = [frame EXCEPT ![p] = go]
    BY <1>2 DEF ForkSlot, TypeOK
  <2>7. index = -1 => frame' = [frame EXCEPT ![p] = skip]
    BY <1>2 DEF ForkSlot, TypeOK
  <2> HIDE DEF index, i
  <2>8. FrameOK(skip)
    BY <1>0, <2>5 DEF FrameOK, Frame
  <2>9. index # -1 => FrameOK(go)
    BY <1>0, <2>1, <2>4, <2>5 DEF FrameOK, Frame
  <2> HIDE DEF skip, go
  <2> QED BY <2>6, <2>7, <2>8, <2>9, FrameUpdateOK
<1>3. CASE ForkMap(p)
  <2> DEFINE f == frame[p]
             next == [f EXCEPT !.pc = "fork", !.slot = @ + 1, !.index = -1, !.k = 0]
             up == [f EXCEPT !.k = @ + 1]
  <2>1. f.pc = "forkmap"
    BY <1>3 DEF ForkMap, In
  <2>2. frame' = frame \/ frame' = [frame EXCEPT ![p] = next] \/ frame' = [frame EXCEPT ![p] = up]
    BY <1>3 DEF ForkMap
  <2>3. FrameOK(next) /\ FrameOK(up)
    BY <1>0, <2>1 DEF FrameOK, Frame
  <2> HIDE DEF next, up
  <2> QED BY <2>2, <2>3, FrameSameOK, FrameUpdateOK
<1>4. CASE ForkDone(p)
  BY <1>4, IdleOK, FrameUpdateOK DEF ForkDone, Return
<1> QED BY <1>1, <1>2, <1>3, <1>4

\* exit and exec hold nothing FrameOK speaks of.
LEMMA ExitFrames ==
  ASSUME TypeOK, FramesOK, NEW p \in Procs,
         Exit(p) \/ Exec(p) \/ ExecFails(p) \/ DetachSlot(p) \/ ExitDone(p) \/ ExecDone(p)
  PROVE  FramesOK'
<1>0. frame[p] \in Frame
  BY DEF TypeOK
<1>1. CASE Exit(p) \/ Exec(p)
  <2>1. /\ FrameOK([Idle EXCEPT !.pc = "exit"])
        /\ \A image : FrameOK([Idle EXCEPT !.pc = "exec", !.image = image])
    BY DEF FrameOK, Idle
  <2> QED BY <1>1, <2>1, FrameUpdateOK DEF Exit, Exec
<1>2. CASE DetachSlot(p)
  <2>1. frame[p].pc \in {"exit", "exec"}
    BY <1>2 DEF DetachSlot, In
  <2>2. frame' = [frame EXCEPT ![p] = [frame[p] EXCEPT !.slot = Min(Ahead(p)) + 1]]
    BY <1>2 DEF DetachSlot, TypeOK
  <2>3. FrameOK([frame[p] EXCEPT !.slot = Min(Ahead(p)) + 1])
    BY <1>0, <2>1 DEF FrameOK, Frame
  <2> QED BY <2>2, <2>3, FrameUpdateOK
<1>3. CASE ExecFails(p) \/ ExitDone(p) \/ ExecDone(p)
  BY <1>3, IdleOK, FrameUpdateOK DEF ExecFails, ExitDone, ExecDone, Return
<1> QED BY <1>1, <1>2, <1>3

\* The calls that are one step leave all locals alone.
LEMMA OthersFrames ==
  ASSUME FramesOK, NEW p \in Procs,
         \/ ShmgetCall(p) \/ (\E a \in VPages : Shmdt(p, a)) \/ ShmctlCall(p)
         \/ (\E c \in Procs : Wait(p, c)) \/ Grow(p) \/ Shrink(p)
  PROVE  FramesOK'
<1>1. frame' = frame
  BY DEF ShmgetCall, ShmgetCreate, ShmgetNoMemory, Shmdt, ShmctlCall, ShmctlSet, ShmctlRmid,
         ShmctlMark, OutOfBounds, Wait, Grow, Shrink, procVars
<1> QED BY <1>1, FrameSameOK

\* Every step keeps FramesOK.
LEMMA FramesStep ==
  ASSUME TypeOK, FramesOK, [Next]_vars
  PROVE  FramesOK'
<1>1. CASE Next
  <2>1. PICK p \in Procs :
           \/ ShmgetCall(p)
           \/ ShmatCall(p)
           \/ RemapDetach(p) \/ RemapNext(p)
           \/ \E a \in VPages : Shmdt(p, a)
           \/ ShmctlCall(p)
           \/ (\E c \in Procs : Fork(p, c)) \/ ForkSlot(p) \/ ForkMap(p) \/ ForkDone(p)
           \/ Exit(p) \/ Exec(p) \/ ExecFails(p) \/ DetachSlot(p) \/ ExitDone(p) \/ ExecDone(p)
           \/ (\E c \in Procs : Wait(p, c)) \/ Grow(p) \/ Shrink(p)
    BY <1>1, NextCases
  <2> QED BY <2>1, ShmatFrames, RemapFrames, ForkFrames, ExitFrames, OthersFrames
<1>2. CASE UNCHANGED vars
  BY <1>2, FrameSameOK DEF vars, procVars
<1> QED BY <1>1, <1>2

-----------------------------------------------------------------------------
(***************************************************************************)
(* RegionTableSound.                                                       *)
(***************************************************************************)
\* RegionTableSound survives when each region keeps its identity, or is reset.
LEMMA TableKept ==
  ASSUME RegionTableSound,
         \A r \in Regions :
            \/ /\ region'[r].key = region[r].key
               /\ region'[r].shmid = region[r].shmid
               /\ region'[r].size = region[r].size
               /\ region[r].shmid # -1 => region'[r].mode # 0 \/ region'[r].mode = region[r].mode
               /\ region[r].shmid = -1 => region'[r].toBeDeleted = region[r].toBeDeleted
            \/ /\ region'[r].key = -1
               /\ region'[r].shmid = -1
               /\ region'[r].size = 0
               /\ ~region'[r].toBeDeleted
  PROVE  RegionTableSound'
<1>1. ASSUME NEW r \in Regions
      PROVE  IF region'[r].key # -1
             THEN /\ region'[r].shmid = r
                  /\ region'[r].size \in 1 .. SHAREDREGIONS
                  /\ region'[r].mode # 0
             ELSE /\ region'[r].shmid = -1
                  /\ region'[r].size = 0
                  /\ ~region'[r].toBeDeleted
  <2>1. r # -1
    BY RegionsAreNat
  <2>2. IF region[r].key # -1
        THEN /\ region[r].shmid = r
             /\ region[r].size \in 1 .. SHAREDREGIONS
             /\ region[r].mode # 0
        ELSE /\ region[r].shmid = -1
             /\ region[r].size = 0
             /\ ~region[r].toBeDeleted
    BY DEF RegionTableSound, Live
  <2> QED BY <2>1, <2>2
<1>2. ASSUME NEW r \in Regions, NEW s \in Regions, region'[r].key # -1, region'[r].key = region'[s].key
      PROVE  r = s
  <2>1. region[r].key = region'[r].key /\ region[s].key = region'[s].key
    BY <1>2
  <2> QED BY <2>1, <1>2 DEF RegionTableSound, Live
<1> QED BY <1>1, <1>2 DEF RegionTableSound, Live

\* Steps that leave the table alone keep RegionTableSound.
LEMMA TableUnchanged ==
  ASSUME RegionTableSound, region' = region
  PROVE  RegionTableSound'
BY DEF RegionTableSound, Live

\* shmdt resets a region completely or only changes shm_nattch.
LEMMA ShmdtDoneTable ==
  ASSUME TypeOK, RegionTableSound, NEW p \in Procs, NEW i, ShmdtDone(p, i)
  PROVE  RegionTableSound'
<1> DEFINE shmid == pages[p][i].shmid
           left == Decremented(region[shmid].nattch)
           gone == IF left = 0 /\ region[shmid].toBeDeleted THEN {Victim(i, shmid)} ELSE {}
<1>1. region' = [r \in Regions |->
              IF r \in gone THEN Cleared(r)
              ELSE IF r = shmid THEN [region[r] EXCEPT !.nattch = left]
              ELSE region[r]]
  BY DEF ShmdtDone
<1> HIDE DEF gone, left, shmid
<1>2. \A r \in Regions : region[r] \in Region
  BY DEF TypeOK
<1>3. ASSUME NEW r \in Regions
      PROVE  \/ /\ region'[r].key = region[r].key
                /\ region'[r].shmid = region[r].shmid
                /\ region'[r].size = region[r].size
                /\ region'[r].mode = region[r].mode
                /\ region'[r].toBeDeleted = region[r].toBeDeleted
             \/ /\ region'[r].key = -1
                /\ region'[r].shmid = -1
                /\ region'[r].size = 0
                /\ ~region'[r].toBeDeleted
  <2>1. CASE r \in gone
    BY <1>1, <2>1 DEF Cleared, NewRegion
  <2>2. CASE r \notin gone
    BY <1>1, <1>2, <2>2 DEF Region
  <2> QED BY <2>1, <2>2
<1> QED BY <1>3, TableKept

\* shmdt keeps RegionTableSound, failing or not.
LEMMA ShmdtTable ==
  ASSUME TypeOK, RegionTableSound, NEW p \in Procs, NEW i, ShmdtDone(p, i) \/ ShmdtFails(p, i)
  PROVE  RegionTableSound'
BY ShmdtDoneTable, TableUnchanged DEF ShmdtFails

\* shmat only counts the attach.
LEMMA ShmatFinishTable ==
  ASSUME TypeOK, RegionTableSound, NEW p \in Procs, NEW shmid, NEW va, NEW rdonly,
         ShmatFinish(p, shmid, va, rdonly)
  PROVE  RegionTableSound'
<1>1. region' = region \/ region' = [region EXCEPT ![shmid].nattch = @ + 1]
  BY DEF ShmatFinish
<1>2. \A r \in Regions : region[r] \in Region
  BY DEF TypeOK
<1>3. CASE region' = region
  BY <1>3, TableUnchanged
<1>4. CASE region' = [region EXCEPT ![shmid].nattch = @ + 1]
  <2>1. ASSUME NEW r \in Regions
        PROVE  /\ region'[r].key = region[r].key
               /\ region'[r].shmid = region[r].shmid
               /\ region'[r].size = region[r].size
               /\ region'[r].mode = region[r].mode
               /\ region'[r].toBeDeleted = region[r].toBeDeleted
    BY <1>2, <1>4 DEF TypeOK, Region
  <2> QED BY <2>1, TableKept
<1> QED BY <1>1, <1>3, <1>4

\* shmget creates a region with its own index as shmid and a key no other has.
LEMMA ShmgetTable ==
  ASSUME TypeOK, RegionTableSound, NEW p \in Procs, ShmgetCall(p)
  PROVE  RegionTableSound'
<1>1. PICK key \in Keys, bytes \in Sizes, perm \in Modes \cup {0}, flag \in ShmgetFlags :
        \/ ShmgetCreate(p, key, bytes, perm, flag)
        \/ ShmgetNoMemory(p, key, bytes, perm, flag)
  BY DEF ShmgetCall
<1>2. ShmgetResult(key, bytes, perm, flag) = CREATE
  BY <1>1 DEF ShmgetCreate, ShmgetNoMemory
<1>3. /\ PagesFor(bytes) \in 1 .. SHAREDREGIONS
      /\ WithKey(key) = {}
      /\ {r \in Regions : region[r].key = -1} # {}
      /\ perm # 0
  BY <1>2, ShmgetCreates
<1>4. FreeRegion \in Regions /\ region[FreeRegion].key = -1
  BY <1>3, FreeRegionIs
<1>5. \A r \in Regions : region[r] \in Region
  BY DEF TypeOK
<1>6. CASE ShmgetCreate(p, key, bytes, perm, flag)
  <2>1. PICK pa : region' = [region EXCEPT ![FreeRegion] =
              [region[FreeRegion] EXCEPT !.pa = pa,
                        !.size = PagesFor(bytes), !.key = key, !.segsz = bytes,
                        !.mode = perm, !.shmid = FreeRegion]]
    BY <1>6 DEF ShmgetCreate, TypeOK
  <2>2. /\ region'[FreeRegion].key = key
        /\ region'[FreeRegion].shmid = FreeRegion
        /\ region'[FreeRegion].size = PagesFor(bytes)
        /\ region'[FreeRegion].mode = perm
    <3>1. region[FreeRegion] \in Region
      BY <1>4, <1>5
    <3>2. region'[FreeRegion] = [region[FreeRegion] EXCEPT !.pa = pa,
                        !.size = PagesFor(bytes), !.key = key, !.segsz = bytes,
                        !.mode = perm, !.shmid = FreeRegion]
      BY <2>1, <1>4 DEF TypeOK
    <3> QED BY <3>1, <3>2 DEF Region
  <2>3. \A r \in Regions : r # FreeRegion => region'[r] = region[r]
    BY <2>1 DEF TypeOK
  <2>4. \A r \in Regions : region[r].key # key
    BY <1>3 DEF WithKey
  <2>5. key # -1
    BY <2>4, <1>4
  <2>6. ASSUME NEW r \in Regions
        PROVE  IF region'[r].key # -1
               THEN /\ region'[r].shmid = r
                    /\ region'[r].size \in 1 .. SHAREDREGIONS
                    /\ region'[r].mode # 0
               ELSE /\ region'[r].shmid = -1
                    /\ region'[r].size = 0
                    /\ ~region'[r].toBeDeleted
    <3>1. CASE r = FreeRegion
      BY <3>1, <2>2, <2>5, <1>3
    <3>2. CASE r # FreeRegion
      BY <3>2, <2>3 DEF RegionTableSound, Live
    <3> QED BY <3>1, <3>2
  <2>7. ASSUME NEW r \in Regions, NEW s \in Regions, region'[r].key # -1,
               region'[r].key = region'[s].key
        PROVE  r = s
    BY <2>2, <2>3, <2>4, <2>7 DEF RegionTableSound, Live
  <2> QED BY <2>6, <2>7 DEF RegionTableSound, Live
<1>7. CASE ShmgetNoMemory(p, key, bytes, perm, flag)
  <2>1. PICK pa : region' = [region EXCEPT ![FreeRegion].pa = pa]
    BY <1>7 DEF ShmgetNoMemory
  <2>2. ASSUME NEW r \in Regions
        PROVE  /\ region'[r].key = region[r].key
               /\ region'[r].shmid = region[r].shmid
               /\ region'[r].size = region[r].size
               /\ region'[r].mode = region[r].mode
               /\ region'[r].toBeDeleted = region[r].toBeDeleted
    BY <2>1, <1>5 DEF TypeOK, Region
  <2> QED BY <2>2, TableKept
<1> QED BY <1>1, <1>6, <1>7

\* shmctl changes mode and mark of regions in use only, and resets completely.
LEMMA ShmctlTable ==
  ASSUME TypeOK, RegionTableSound, NEW p \in Procs, ShmctlCall(p)
  PROVE  RegionTableSound'
<1>1. PICK shmid \in ShmidArgs : \/ \E mode \in Modes : ShmctlSet(p, shmid, mode)
                                 \/ ShmctlRmid(p, shmid)
                                 \/ ShmctlMark(p, shmid)
                                 \/ OutOfBounds(p, shmid)
  BY DEF ShmctlCall
<1>2. CASE OutOfBounds(p, shmid)
  BY <1>2, TableUnchanged DEF OutOfBounds, shmVars
<1>3. \A r \in Regions : region[r] \in Region
  BY DEF TypeOK
<1>4. ASSUME NEW mode \in Modes, ShmctlSet(p, shmid, mode) PROVE RegionTableSound'
  <2>1. mode # 0
    BY InputsAssumption DEF READ_SHM, RW_SHM
  <2>2. ASSUME NEW r \in Regions
        PROVE  /\ region'[r].key = region[r].key
               /\ region'[r].shmid = region[r].shmid
               /\ region'[r].size = region[r].size
               /\ region'[r].mode # 0 \/ region'[r].mode = region[r].mode
               /\ region'[r].toBeDeleted = region[r].toBeDeleted
    BY <2>1, <1>3, <1>4 DEF ShmctlSet, TypeOK, Region
  <2> QED BY <2>2, TableKept
<1>5. CASE ShmctlRmid(p, shmid)
  <2>1. shmid \in Regions /\ region' = [region EXCEPT ![shmid] = Cleared(shmid)]
    BY <1>5 DEF ShmctlRmid
  <2>2. \A r \in Regions : r # shmid => region'[r] = region[r]
    BY <2>1 DEF TypeOK
  <2>3. region'[shmid].key = -1 /\ region'[shmid].shmid = -1 /\ region'[shmid].size = 0
        /\ ~region'[shmid].toBeDeleted
    BY <2>1 DEF TypeOK, Cleared, NewRegion
  <2> QED BY <2>2, <2>3, TableKept
<1>6. CASE ShmctlMark(p, shmid)
  <2>1. ASSUME NEW r \in Regions
        PROVE  /\ region'[r].key = region[r].key
               /\ region'[r].shmid = region[r].shmid
               /\ region'[r].size = region[r].size
               /\ region'[r].mode = region[r].mode
               /\ region[r].shmid = -1 => region'[r].toBeDeleted = region[r].toBeDeleted
    BY <1>3, <1>6 DEF ShmctlMark, TypeOK, Region
  <2> QED BY <2>1, TableKept
<1> QED BY <1>1, <1>2, <1>4, <1>5, <1>6

\* shmat, its SHM_REMAP steps, shmdt and the detaching in exit and exec keep
\* RegionTableSound.
LEMMA CallsTable ==
  ASSUME TypeOK, RegionTableSound, NEW p \in Procs,
         \/ ShmatCall(p)
         \/ RemapDetach(p) \/ RemapNext(p)
         \/ \E a \in VPages : Shmdt(p, a)
         \/ DetachSlot(p)
  PROVE  RegionTableSound'
<1>1. \/ region' = region
      \/ \E i : ShmdtDone(p, i) \/ ShmdtFails(p, i)
      \/ \E shmid, va, rdonly : ShmatFinish(p, shmid, va, rdonly)
  <2>1. CASE ShmatCall(p)
    BY <2>1 DEF ShmatCall, Shmat, OutOfBounds, shmVars
  <2>2. CASE RemapDetach(p)
    BY <2>2 DEF RemapDetach
  <2>3. CASE RemapNext(p)
    BY <2>3 DEF RemapNext, ShmatDenied
  <2>4. CASE \E a \in VPages : Shmdt(p, a)
    BY <2>4 DEF Shmdt
  <2>5. CASE DetachSlot(p)
    BY <2>5 DEF DetachSlot
  <2> QED BY <2>1, <2>2, <2>3, <2>4, <2>5
<1> QED BY <1>1, TableUnchanged, ShmdtTable, ShmatFinishTable

\* fork, exit, exec, wait and growproc do not touch the table.
LEMMA OthersTable ==
  ASSUME RegionTableSound, NEW p \in Procs,
         \/ (\E c \in Procs : Fork(p, c)) \/ ForkSlot(p) \/ ForkMap(p) \/ ForkDone(p)
         \/ Exit(p) \/ Exec(p) \/ ExecFails(p) \/ ExitDone(p) \/ ExecDone(p)
         \/ (\E c \in Procs : Wait(p, c)) \/ Grow(p) \/ Shrink(p)
  PROVE  RegionTableSound'
<1>1. region' = region
  BY DEF Fork, ForkSlot, ForkMap, ForkDone, Exit, Exec, ExecFails, ExitDone, ExecDone, Wait,
         Grow, Shrink, shmVars
<1> QED BY <1>1, TableUnchanged

\* Every step keeps RegionTableSound.
LEMMA TableStep ==
  ASSUME TypeOK, RegionTableSound, [Next]_vars
  PROVE  RegionTableSound'
<1>1. CASE Next
  <2>1. PICK p \in Procs :
           \/ ShmgetCall(p)
           \/ ShmatCall(p)
           \/ RemapDetach(p) \/ RemapNext(p)
           \/ \E a \in VPages : Shmdt(p, a)
           \/ ShmctlCall(p)
           \/ (\E c \in Procs : Fork(p, c)) \/ ForkSlot(p) \/ ForkMap(p) \/ ForkDone(p)
           \/ Exit(p) \/ Exec(p) \/ ExecFails(p) \/ DetachSlot(p) \/ ExitDone(p) \/ ExecDone(p)
           \/ (\E c \in Procs : Wait(p, c)) \/ Grow(p) \/ Shrink(p)
    BY <1>1, NextCases
  <2> QED BY <2>1, ShmgetTable, CallsTable, ShmctlTable, OthersTable
<1>2. CASE UNCHANGED vars
  BY <1>2, TableUnchanged DEF vars, shmVars
<1> QED BY <1>1, <1>2

-----------------------------------------------------------------------------
(***************************************************************************)
(* The inductive invariant and what follows from it.                       *)
(***************************************************************************)
\* The initial state satisfies the inductive invariant.
LEMMA InitInv == Init => IInv
<1> SUFFICES ASSUME Init PROVE IInv
  OBVIOUS
<1>1. TypeOK
  BY InitType
<1>2. FramesOK
  BY IdleOK DEF Init, FramesOK
<1>3. RegionTableSound
  BY DEF Init, RegionTableSound, Live, NewRegion
<1>4. PagesOwnedOnce
  <2>1. \A r \in Regions : region[r].size = 0
    BY DEF Init, NewRegion
  <2>2. RegionPagesOwned
    BY <2>1 DEF RegionPagesOwned
  <2>3. \A p \in Procs : heap[p] = {} /\ Tables(p) = {} /\ \A d \in Dirs : pgtab[p][d] = NoPage
    BY DEF Init, Tables
  <2>4. ProcessPagesOwned
    BY <2>3 DEF ProcessPagesOwned, Own
  <2> QED BY <2>2, <2>4 DEF PagesOwnedOnce
<1> QED BY <1>1, <1>2, <1>3, <1>4 DEF IInv

\* Every step keeps the inductive invariant.
LEMMA NextInv == IInv /\ [Next]_vars => IInv'
<1> SUFFICES ASSUME IInv, [Next]_vars PROVE IInv'
  OBVIOUS
<1>1. TypeOK /\ FramesOK /\ RegionTableSound /\ PagesOwnedOnce
  BY DEF IInv
<1>2. TypeOK'
  BY <1>1, OwnedReal, TypeStep
<1>3. FramesOK' /\ RegionTableSound' /\ PagesOwnedOnce'
  BY <1>1, FramesStep, TableStep, OwnedStep
<1> QED BY <1>2, <1>3 DEF IInv

\* In every behaviour the tables, the locals of the calls in progress and the
\* page ownership satisfy the inductive invariant.
THEOREM Inductive == Spec => []IInv
BY InitInv, NextInv, PTL DEF Spec

\* Whatever the processes call, in whatever order, every variable keeps its
\* type: in particular shm_nattch never goes below zero (vm.c, shmdt) and only
\* pages are ever freed.
THEOREM TypeCorrect == Spec => []TypeOK
<1>1. IInv => TypeOK
  BY DEF IInv
<1> QED BY <1>1, Inductive, PTL

\* Whatever the processes call, an allRegions entry is completely in use or
\* completely unused, its shmid is its index, and no two have the same key.
THEOREM TableSound == Spec => []RegionTableSound
<1>1. IInv => RegionTableSound
  BY DEF IInv
<1> QED BY <1>1, Inductive, PTL

\* Whatever the processes call, no page is in two of: the free list, a place
\* of a region, a heap, a page table.  So no kfree of shmdt, shmctl, freevm or
\* deallocuvm frees a page twice or a page in use elsewhere in these tables.
THEOREM OwnedOnce == Spec => []PagesOwnedOnce
<1>1. IInv => PagesOwnedOnce
  BY DEF IInv
<1> QED BY <1>1, Inductive, PTL
=============================================================================
