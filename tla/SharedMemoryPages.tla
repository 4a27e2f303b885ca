-------------------------- MODULE SharedMemoryPages --------------------------
(***************************************************************************)
(* Every step of SharedMemory keeps PagesOwnedOnce.  The steps fall into a *)
(* few kinds: pages move from the free list to a region, from regions to   *)
(* the free list, from the free list to a process, and back.               *)
(***************************************************************************)
EXTENDS SharedMemoryTypes

\* PagesOwnedOnce contains RegionPagesReal.
LEMMA OwnedReal ==
  ASSUME PagesOwnedOnce
  PROVE  RegionPagesReal
BY DEF PagesOwnedOnce, RegionPagesOwned, RegionPagesReal

\* PagesOwnedOnce in terms of sets: regions, processes and the free list hold
\* disjoint sets of pages.
LEMMA NotOwned ==
  ASSUME PagesOwnedOnce
  PROVE  /\ \A r \in Regions : RegionPages(r) \cap free = {}
         /\ \A p \in Procs : Own(p) \cap free = {}
         /\ \A p \in Procs, r \in Regions : Own(p) \cap RegionPages(r) = {}
         /\ \A p, q \in Procs : p # q => Own(p) \cap Own(q) = {}
         /\ \A r, s \in Regions : r # s => RegionPages(r) \cap RegionPages(s) = {}
<1>1. \A r \in Regions : RegionPages(r) \cap free = {}
  BY DEF PagesOwnedOnce, RegionPagesOwned, RegionPages
<1>2. \A r, s \in Regions : r # s => RegionPages(r) \cap RegionPages(s) = {}
  BY DEF PagesOwnedOnce, RegionPagesOwned, RegionPages
<1> QED BY <1>1, <1>2 DEF PagesOwnedOnce, ProcessPagesOwned

\* Giving all pages of some regions back and emptying those regions, as shmdt
\* and IPC_RMID do, leaves no page with two owners.
LEMMA RegionsFreed ==
  ASSUME PagesOwnedOnce, NEW gone \in SUBSET Regions,
         free' = free \cup UNION {RegionPages(r) : r \in gone},
         \A r \in gone : region'[r].size = 0,
         \A r \in Regions \ gone : region'[r].size = region[r].size /\ region'[r].pa = region[r].pa,
         heap' = heap, pgtab' = pgtab
  PROVE  PagesOwnedOnce'
<1>1. RegionPagesOwned'
  <2>1. ASSUME NEW r \in Regions, NEW k \in 0 .. (region'[r].size - 1)
        PROVE  /\ r \notin gone /\ k \in 0 .. (region[r].size - 1)
               /\ region'[r].pa[k] = region[r].pa[k]
    <3>1. r \notin gone
      <4>1. SUFFICES ASSUME r \in gone PROVE FALSE
        OBVIOUS
      <4>2. region'[r].size = 0
        BY <4>1
      <4> QED BY <4>2
    <3> QED BY <3>1
  <2>2. ASSUME NEW r \in Regions, NEW k \in 0 .. (region'[r].size - 1)
        PROVE  region'[r].pa[k] \in Pages \ free'
    <3>1. region[r].pa[k] \in Pages \ free /\ region[r].pa[k] \in RegionPages(r)
      BY <2>1 DEF PagesOwnedOnce, RegionPagesOwned, RegionPages
    <3>2. \A s \in gone : region[r].pa[k] \notin RegionPages(s)
      BY <2>1, <3>1, NotOwned
    <3> QED BY <2>1, <3>1, <3>2
  <2>3. ASSUME NEW r \in Regions, NEW s \in Regions,
               NEW k \in 0 .. (region'[r].size - 1), NEW l \in 0 .. (region'[s].size - 1),
               region'[r].pa[k] = region'[s].pa[l]
        PROVE  r = s /\ k = l
    BY <2>1, <2>3 DEF PagesOwnedOnce, RegionPagesOwned
  <2> QED BY <2>2, <2>3 DEF RegionPagesOwned
<1>2. \A p \in Procs : Own(p)' = Own(p) /\ Tables(p)' = Tables(p)
  BY DEF Own, Tables
<1>3. \A r \in Regions : RegionPages(r)' \subseteq RegionPages(r)
  <2>1. \A r \in gone : RegionPages(r)' = {}
    BY DEF RegionPages
  <2>2. \A r \in Regions \ gone : RegionPages(r)' = RegionPages(r)
    BY DEF RegionPages
  <2> QED BY <2>1, <2>2
<1>4. ASSUME NEW p \in Procs PROVE Own(p)' \cap free' = {}
  <2>1. Own(p) \cap UNION {RegionPages(r) : r \in gone} = {}
    BY NotOwned
  <2> QED BY <1>2, <2>1, NotOwned
<1>5. ASSUME NEW p \in Procs, NEW r \in Regions PROVE Own(p)' \cap RegionPages(r)' = {}
  BY <1>2, <1>3, NotOwned
<1>6. ASSUME NEW p \in Procs
      PROVE  /\ heap'[p] \cap Tables(p)' = {}
             /\ \A d, e \in Dirs : pgtab'[p][d] = pgtab'[p][e] => d = e \/ pgtab'[p][d] = NoPage
             /\ \A q \in Procs \ {p} : Own(p)' \cap Own(q)' = {}
  BY <1>2 DEF PagesOwnedOnce, ProcessPagesOwned
<1> HIDE DEF PagesOwnedOnce
<1>7. ProcessPagesOwned'
  BY <1>4, <1>5, <1>6 DEF ProcessPagesOwned
<1> QED BY <1>1, <1>7 DEF PagesOwnedOnce

\* Steps that move no page keep the ownership.
LEMMA RegionsUntouched ==
  ASSUME PagesOwnedOnce, free' = free, heap' = heap, pgtab' = pgtab,
         \A r \in Regions : region'[r].size = region[r].size /\ region'[r].pa = region[r].pa
  PROVE  PagesOwnedOnce'
<1> DEFINE none == {}
<1>1. /\ none \in SUBSET Regions
      /\ free' = free \cup UNION {RegionPages(r) : r \in none}
      /\ \A r \in none : region'[r].size = 0
      /\ \A r \in Regions \ none : region'[r].size = region[r].size /\ region'[r].pa = region[r].pa
  OBVIOUS
<1> HIDE DEF none
<1> QED BY <1>1, RegionsFreed

(***************************************************************************)
(* A process gets pages: its heap becomes H and its page tables T.         *)
(***************************************************************************)
\* A process that takes free pages, or gives pages of its own back, keeps the
\* ownership; its heap becomes H and its page tables T.
LEMMA OwnChanges ==
  ASSUME TypeOK, PagesOwnedOnce, NEW p \in Procs, NEW H \in SUBSET Pages,
         NEW T \in [Dirs -> Pages \cup {NoPage}],
         heap' = [heap EXCEPT ![p] = H],
         pgtab' = [pgtab EXCEPT ![p] = T],
         H \subseteq free \cup heap[p],
         \A d \in Dirs : T[d] \in free \cup {NoPage, pgtab[p][d]},
         \A d, e \in Dirs : T[d] = T[e] => d = e \/ T[d] = NoPage,
         \A d \in Dirs : T[d] \notin H,
         free' \subseteq free \cup Own(p),
         free' \cap (H \cup {T[d] : d \in Dirs}) = {},
         \A r \in Regions : region'[r].size = region[r].size /\ region'[r].pa = region[r].pa
  PROVE  PagesOwnedOnce'
<1>1. \A r \in Regions : RegionPages(r)' = RegionPages(r)
  BY DEF RegionPages
<1>2. heap'[p] = H /\ pgtab'[p] = T
  BY DEF TypeOK
<1>3. \A q \in Procs : q # p => heap'[q] = heap[q] /\ pgtab'[q] = pgtab[q]
  BY DEF TypeOK
<1>4. \A q \in Procs : q # p => Own(q)' = Own(q) /\ Tables(q)' = Tables(q)
  BY <1>3 DEF Own, Tables
<1>5. Tables(p)' \subseteq free \cup Tables(p)
  <2>1. \A d \in Dirs : pgtab[p][d] \in Tables(p) \cup {NoPage}
    BY DEF Tables
  <2> QED BY <1>2, <2>1 DEF Tables
<1>6. Own(p)' \subseteq free \cup Own(p)
  BY <1>2, <1>5 DEF Own
<1>7. Own(p)' \cap free' = {} /\ heap'[p] \cap Tables(p)' = {}
  BY <1>2 DEF Own, Tables
<1>8. ASSUME NEW q \in Procs, NEW r \in Regions PROVE Own(q)' \cap RegionPages(r)' = {}
  BY <1>1, <1>4, <1>6, NotOwned
<1>9. ASSUME NEW q \in Procs PROVE Own(q)' \cap free' = {}
  BY <1>4, <1>7, NotOwned
<1>10. ASSUME NEW q \in Procs, NEW q2 \in Procs, q # q2 PROVE Own(q)' \cap Own(q2)' = {}
  <2>1. CASE q # p /\ q2 # p
    BY <1>4, <1>10, <2>1, NotOwned
  <2>2. CASE q = p
    BY <1>4, <1>6, <1>10, <2>2, NotOwned
  <2>3. CASE q2 = p
    BY <1>4, <1>6, <1>10, <2>3, NotOwned
  <2> QED BY <2>1, <2>2, <2>3
<1>11. ASSUME NEW q \in Procs
       PROVE  /\ heap'[q] \cap Tables(q)' = {}
              /\ \A d, e \in Dirs : pgtab'[q][d] = pgtab'[q][e] => d = e \/ pgtab'[q][d] = NoPage
  <2>1. CASE q = p
    BY <1>2, <1>7, <2>1
  <2>2. CASE q # p
    BY <1>3, <1>4, <2>2 DEF PagesOwnedOnce, ProcessPagesOwned
  <2> QED BY <2>1, <2>2
<1>12. ProcessPagesOwned'
  BY <1>8, <1>9, <1>10, <1>11 DEF ProcessPagesOwned
<1>13. RegionPagesOwned'
  <2>1. ASSUME NEW r \in Regions, NEW k \in 0 .. (region'[r].size - 1)
        PROVE  region'[r].pa[k] \in Pages \ free'
    <3>1. region[r].pa[k] \in Pages \ free /\ region[r].pa[k] \in RegionPages(r)
      BY DEF PagesOwnedOnce, RegionPagesOwned, RegionPages
    <3> QED BY <3>1, NotOwned
  <2>2. ASSUME NEW r \in Regions, NEW s \in Regions,
               NEW k \in 0 .. (region'[r].size - 1), NEW l \in 0 .. (region'[s].size - 1),
               region'[r].pa[k] = region'[s].pa[l]
        PROVE  r = s /\ k = l
    BY <2>2 DEF PagesOwnedOnce, RegionPagesOwned
  <2> QED BY <2>1, <2>2 DEF RegionPagesOwned
<1> QED BY <1>12, <1>13 DEF PagesOwnedOnce

\* What a process owns are pages, and each of its page directory entries is
\* empty or one of its tables.
LEMMA OwnPages ==
  ASSUME TypeOK, NEW p \in Procs
  PROVE  /\ heap[p] \subseteq Pages /\ Tables(p) \subseteq Pages /\ Own(p) \subseteq Pages
         /\ pgtab[p] \in [Dirs -> Pages \cup {NoPage}]
         /\ \A d \in Dirs : pgtab[p][d] = NoPage \/ pgtab[p][d] \in Tables(p)
         /\ NoPage \notin free /\ NoPage \notin Own(p)
<1>1. pgtab[p] \in [Dirs -> Pages \cup {NoPage}] /\ heap[p] \subseteq Pages /\ free \subseteq Pages
  BY DEF TypeOK
<1>2. Tables(p) \subseteq Pages /\ \A d \in Dirs : pgtab[p][d] = NoPage \/ pgtab[p][d] \in Tables(p)
  BY <1>1 DEF Tables
<1> QED BY <1>1, <1>2, PagesAssumption DEF Own

\* The case of OwnChanges in which only the heap changes: fork copying it,
\* growproc.
LEMMA HeapChanges ==
  ASSUME TypeOK, PagesOwnedOnce, NEW p \in Procs, NEW H \in SUBSET Pages,
         heap' = [heap EXCEPT ![p] = H], pgtab' = pgtab, region' = region,
         H \subseteq free \cup heap[p],
         free' \subseteq free \cup heap[p],
         free' \cap H = {}
  PROVE  PagesOwnedOnce'
<1> DEFINE T == pgtab[p]
<1>1. T \in [Dirs -> Pages \cup {NoPage}] /\ pgtab' = [pgtab EXCEPT ![p] = T]
  BY OwnPages DEF TypeOK
<1>2. /\ heap[p] \cap Tables(p) = {}
      /\ Own(p) \cap free = {}
      /\ \A d, e \in Dirs : T[d] = T[e] => d = e \/ T[d] = NoPage
  BY DEF PagesOwnedOnce, ProcessPagesOwned
<1>3. \A d \in Dirs : T[d] \notin free \cup heap[p]
  <2>1. \A d \in Dirs : T[d] = NoPage \/ T[d] \in Tables(p)
    BY OwnPages
  <2> QED BY <1>2, <2>1, OwnPages DEF Own
<1>4. \A d \in Dirs : T[d] \notin H /\ T[d] \notin free' /\ T[d] \in free \cup {NoPage, pgtab[p][d]}
  BY <1>3
<1>5. free' \cap (H \cup {T[d] : d \in Dirs}) = {} /\ free' \subseteq free \cup Own(p)
  BY <1>4 DEF Own
<1> HIDE DEF T
<1> QED BY <1>1, <1>2, <1>4, <1>5, OwnChanges

\* mappages takes the page tables it needs from the free list, one page for
\* each.
LEMMA MappedOwned ==
  ASSUME TypeOK, PagesOwnedOnce, NEW p \in Procs, NEW va, NEW m, NEW pa, NEW perm, NEW t,
         Mapped(p, va, m, pa, perm, t), heap' = heap,
         \A r \in Regions : region'[r].size = region[r].size /\ region'[r].pa = region[r].pa
  PROVE  PagesOwnedOnce'
<1> DEFINE N == NewTables(p, va, m)
           T == [d \in Dirs |-> IF d \in N THEN t[d] ELSE pgtab[p][d]]
           H == heap[p]
<1>1. /\ t \in [N -> free]
      /\ \A d, e \in N : t[d] = t[e] => d = e
      /\ Range(t) = {t[d] : d \in N}
  BY DEF Mapped, Injection, IsInjective, Range
<1>2. N \subseteq Dirs
  BY DEF NewTables
<1>3. pgtab' = [pgtab EXCEPT ![p] = T] /\ free' = free \ Range(t)
  BY <1>1 DEF Mapped, TypeOK
<1>4. H \in SUBSET Pages /\ heap' = [heap EXCEPT ![p] = H]
  BY DEF TypeOK
<1> HIDE DEF N
<1>5. /\ \A d \in N : T[d] = t[d] /\ T[d] \in free /\ T[d] \in Range(t)
      /\ \A d \in Dirs \ N : T[d] = pgtab[p][d]
  BY <1>1, <1>2
<1>6. T \in [Dirs -> Pages \cup {NoPage}]
  <2>1. free \subseteq Pages
    BY DEF TypeOK
  <2> QED BY <1>1, <2>1, OwnPages
<1> HIDE DEF T, H
<1>7. /\ heap[p] \cap Tables(p) = {}
      /\ Own(p) \cap free = {}
      /\ \A d, e \in Dirs : pgtab[p][d] = pgtab[p][e] => d = e \/ pgtab[p][d] = NoPage
  BY DEF PagesOwnedOnce, ProcessPagesOwned
<1>8. \A d \in Dirs : pgtab[p][d] \notin free \cup heap[p]
  <2>1. \A d \in Dirs : pgtab[p][d] = NoPage \/ pgtab[p][d] \in Tables(p)
    BY OwnPages
  <2> QED BY <1>7, <2>1, OwnPages DEF Own
<1>9. \A d \in Dirs : T[d] \in free \cup {NoPage, pgtab[p][d]}
  BY <1>5
<1>10. ASSUME NEW d \in Dirs, NEW e \in Dirs, T[d] = T[e], T[d] # NoPage PROVE d = e
  <2>1. CASE d \in N /\ e \in N
    BY <1>1, <1>5, <1>10, <2>1
  <2>2. CASE d \notin N /\ e \notin N
    BY <1>5, <1>7, <1>10, <2>2
  <2>3. CASE d \in N /\ e \notin N
    BY <1>5, <1>8, <1>10, <2>3
  <2>4. CASE d \notin N /\ e \in N
    BY <1>5, <1>8, <1>10, <2>4
  <2> QED BY <2>1, <2>2, <2>3, <2>4
<1>11. \A d \in Dirs : T[d] \notin H
  BY <1>5, <1>7, <1>8 DEF Own, H
<1>12. \A d \in Dirs : T[d] \notin free'
  BY <1>3, <1>5, <1>8
<1>13. H \cap free' = {} /\ H \subseteq free \cup heap[p] /\ free' \subseteq free \cup Own(p)
  BY <1>3, <1>7 DEF Own, H
<1>14. free' \cap (H \cup {T[d] : d \in Dirs}) = {}
  BY <1>12, <1>13
<1>15. \A d, e \in Dirs : T[d] = T[e] => d = e \/ T[d] = NoPage
  BY <1>10
<1> QED BY <1>3, <1>4, <1>6, <1>9, <1>11, <1>13, <1>14, <1>15, OwnChanges

\* freevm gives back user pages of the process and its page tables, and no page
\* of the shared window.
LEMMA FreevmOwned ==
  ASSUME TypeOK, PagesOwnedOnce, NEW p \in Procs, NEW user, user \subseteq heap[p],
         Freevm(p, user), region' = region
  PROVE  PagesOwnedOnce'
<1> DEFINE H == heap[p] \ user
           T == [d \in Dirs |-> NoPage]
<1>1. /\ pgtab' = [pgtab EXCEPT ![p] = T]
      /\ heap' = [heap EXCEPT ![p] = H]
      /\ free' = free \cup user \cup Tables(p)
  BY DEF Freevm, Freed
<1>2. \A d \in Dirs : T[d] = NoPage
  OBVIOUS
<1>3. H \in SUBSET Pages /\ T \in [Dirs -> Pages \cup {NoPage}]
  BY DEF TypeOK
<1>4. heap[p] \cap Tables(p) = {} /\ Own(p) \cap free = {}
  BY DEF PagesOwnedOnce, ProcessPagesOwned
<1>5. free' \subseteq free \cup Own(p) /\ free' \cap H = {}
  BY <1>1, <1>4 DEF Own
<1>6. NoPage \notin free' /\ NoPage \notin H
  BY <1>5, OwnPages DEF Own
<1>7. H \subseteq free \cup heap[p]
  OBVIOUS
<1> HIDE DEF T, H
<1>8. free' \cap (H \cup {T[d] : d \in Dirs}) = {}
  BY <1>2, <1>5, <1>6
<1>9. \A d \in Dirs : T[d] \notin H
  BY <1>2, <1>6
<1>10. /\ \A d \in Dirs : T[d] \in free \cup {NoPage, pgtab[p][d]}
       /\ \A d, e \in Dirs : T[d] = T[e] => d = e \/ T[d] = NoPage
       /\ \A r \in Regions : region'[r].size = region[r].size /\ region'[r].pa = region[r].pa
  BY <1>2
<1> QED BY <1>1, <1>3, <1>5, <1>7, <1>8, <1>9, <1>10, OwnChanges

\* shmdt frees the pages of a region at most once, because it empties the
\* region with the same step.
LEMMA ShmdtOwned ==
  ASSUME TypeOK, PagesOwnedOnce, NEW p \in Procs, NEW i \in Slots,
         ShmdtDone(p, i) \/ ShmdtFails(p, i), heap' = heap, pgtab' = pgtab
  PROVE  PagesOwnedOnce'
<1>1. CASE ShmdtFails(p, i)
  BY <1>1, RegionsUntouched DEF ShmdtFails
<1>2. CASE ShmdtDone(p, i)
  <2> DEFINE shmid == pages[p][i].shmid
             left == Decremented(region[shmid].nattch)
             gone == IF left = 0 /\ region[shmid].toBeDeleted THEN {Victim(i, shmid)} ELSE {}
  <2>1. gone \in SUBSET Regions
    BY DEF Victim, Slots
  <2>2. /\ free' = free \cup UNION {RegionPages(r) : r \in gone}
        /\ region' = [r \in Regions |->
              IF r \in gone THEN Cleared(r)
              ELSE IF r = shmid THEN [region[r] EXCEPT !.nattch = left]
              ELSE region[r]]
    BY <1>2 DEF ShmdtDone
  <2> HIDE DEF gone, left, shmid
  <2>3. \A r \in Regions : region[r] \in Region
    BY DEF TypeOK
  <2>4. \A r \in gone : region'[r].size = 0
    BY <2>1, <2>2 DEF Cleared, NewRegion
  <2>5. \A r \in Regions \ gone : region'[r].size = region[r].size /\ region'[r].pa = region[r].pa
    BY <2>2, <2>3 DEF Region
  <2> QED BY <2>1, <2>2, <2>4, <2>5, RegionsFreed
<1> QED BY <1>1, <1>2

\* shmget gives a new region pages nobody else has; when kalloc fails, the
\* region stays empty.
LEMMA ShmgetOwned ==
  ASSUME TypeOK, RegionTableSound, PagesOwnedOnce, NEW p \in Procs, ShmgetCall(p)
  PROVE  PagesOwnedOnce'
<1>1. PICK key \in Keys, bytes \in Sizes, perm \in Modes \cup {0}, flag \in ShmgetFlags :
        \/ ShmgetCreate(p, key, bytes, perm, flag)
        \/ ShmgetNoMemory(p, key, bytes, perm, flag)
  BY DEF ShmgetCall
<1> DEFINE n == PagesFor(bytes)
           f == FreeRegion
<1>2. ShmgetResult(key, bytes, perm, flag) = CREATE
  BY <1>1 DEF ShmgetCreate, ShmgetNoMemory
<1>3. n \in 1 .. SHAREDREGIONS /\ {r \in Regions : region[r].key = -1} # {}
  BY <1>2, ShmgetCreates
<1>4. f \in Regions /\ region[f].key = -1
  BY <1>3, FreeRegionIs
<1>5. region[f].size = 0
  BY <1>4 DEF RegionTableSound, Live
<1>6. \A r \in Regions : region[r] \in Region
  BY DEF TypeOK
<1>7. heap' = heap /\ pgtab' = pgtab
  BY <1>1 DEF ShmgetCreate, ShmgetNoMemory
<1>8. PICK m \in 0 .. n : \E pa \in [0 .. (m - 1) -> free] :
        /\ \A k, l \in 0 .. (m - 1) : pa[k] = pa[l] => k = l
        /\ free' = free \ {pa[k] : k \in 0 .. (m - 1)}
        /\ region'[f].pa = WithPages(f, m, pa)
        /\ region'[f].size = 0 \/ (m = n /\ region'[f].size = n)
  <2>1. CASE ShmgetCreate(p, key, bytes, perm, flag)
    <3>1. PICK pa \in Injection(0 .. (n - 1), free) :
         /\ free' = free \ Range(pa)
         /\ region' = [region EXCEPT ![f] =
              [region[f] EXCEPT !.pa = WithPages(f, n, pa),
                        !.size = n, !.key = key, !.segsz = bytes,
                        !.mode = perm, !.shmid = f]]
      BY <2>1 DEF ShmgetCreate, Kalloced, TypeOK
    <3>2. /\ pa \in [0 .. (n - 1) -> free]
          /\ \A k, l \in 0 .. (n - 1) : pa[k] = pa[l] => k = l
          /\ Range(pa) = {pa[k] : k \in 0 .. (n - 1)}
      BY DEF Injection, IsInjective, Range
    <3>3. region'[f] = [region[f] EXCEPT !.pa = WithPages(f, n, pa),
                        !.size = n, !.key = key, !.segsz = bytes,
                        !.mode = perm, !.shmid = f]
      BY <3>1, <1>4 DEF TypeOK
    <3>4. region'[f].pa = WithPages(f, n, pa) /\ region'[f].size = n
      BY <3>3, <1>4, <1>6 DEF Region
    <3>5. n \in 0 .. n
      BY <1>3
    <3> HIDE DEF n, f
    <3> QED BY <3>1, <3>2, <3>4, <3>5
  <2>2. CASE ShmgetNoMemory(p, key, bytes, perm, flag)
    <3>0. PICK m \in 0 .. (n - 1) : \E pa \in Injection(0 .. (m - 1), free) :
           /\ free' = free \ Range(pa)
           /\ region' = [region EXCEPT ![f].pa = WithPages(f, m, pa)]
      BY <2>2 DEF ShmgetNoMemory, Kalloced
    <3>1. PICK pa \in Injection(0 .. (m - 1), free) :
           /\ free' = free \ Range(pa)
           /\ region' = [region EXCEPT ![f].pa = WithPages(f, m, pa)]
      BY <3>0
    <3>2. /\ pa \in [0 .. (m - 1) -> free]
          /\ \A k, l \in 0 .. (m - 1) : pa[k] = pa[l] => k = l
          /\ Range(pa) = {pa[k] : k \in 0 .. (m - 1)}
      BY DEF Injection, IsInjective, Range
    <3>3. region'[f] = [region[f] EXCEPT !.pa = WithPages(f, m, pa)]
      BY <3>1, <1>4 DEF TypeOK
    <3>4. region'[f].pa = WithPages(f, m, pa) /\ region'[f].size = 0
      BY <3>3, <1>4, <1>5, <1>6 DEF Region
    <3>5. m \in 0 .. n
      BY <1>3
    <3> HIDE DEF n, f
    <3> QED BY <3>1, <3>2, <3>4, <3>5
  <2> QED BY <1>1, <2>1, <2>2
<1>9. PICK pa \in [0 .. (m - 1) -> free] :
        /\ \A k, l \in 0 .. (m - 1) : pa[k] = pa[l] => k = l
        /\ free' = free \ {pa[k] : k \in 0 .. (m - 1)}
        /\ region'[f].pa = WithPages(f, m, pa)
        /\ region'[f].size = 0 \/ (m = n /\ region'[f].size = n)
  BY <1>8
<1>10. \A r \in Regions : r # f => region'[r] = region[r]
  <2>1. \E x : region' = [region EXCEPT ![f] = x]
    BY <1>1 DEF ShmgetCreate, ShmgetNoMemory, TypeOK
  <2> QED BY <2>1, <1>4 DEF TypeOK
<1> HIDE DEF n, f
<1>11. ASSUME NEW k \in 0 .. (region'[f].size - 1)
       PROVE  /\ k \in 0 .. (m - 1)
              /\ region'[f].pa[k] = pa[k]
              /\ pa[k] \in free
  <2>1. region'[f].size # 0
    <3>1. SUFFICES ASSUME region'[f].size = 0 PROVE FALSE
      OBVIOUS
    <3>2. k \in 0 .. (0 - 1)
      BY <3>1
    <3> QED BY <3>2
  <2>2. m = n /\ region'[f].size = n
    BY <1>9, <2>1
  <2>3. k \in 0 .. (m - 1)
    BY <2>2
  <2>4. k \in Regions /\ k < m
    BY <1>3, <2>2, <2>3, LayoutAssumption DEF Regions
  <2> QED BY <1>9, <2>3, <2>4 DEF WithPages
<1>12. RegionPagesOwned'
  <2>1. ASSUME NEW r \in Regions, NEW k \in 0 .. (region'[r].size - 1)
        PROVE  region'[r].pa[k] \in Pages \ free'
    <3>1. CASE r = f
      <4>1. pa[k] \in free /\ region'[r].pa[k] = pa[k] /\ k \in 0 .. (m - 1)
        BY <1>11, <3>1
      <4> QED BY <4>1, <1>9 DEF TypeOK
    <3>2. CASE r # f
      <4>1. region[r].pa[k] \in Pages \ free
        BY <1>10, <3>2 DEF PagesOwnedOnce, RegionPagesOwned
      <4> QED BY <4>1, <1>9, <1>10, <3>2
    <3> QED BY <3>1, <3>2
  <2>2. ASSUME NEW r \in Regions, NEW s \in Regions,
               NEW k \in 0 .. (region'[r].size - 1), NEW l \in 0 .. (region'[s].size - 1),
               region'[r].pa[k] = region'[s].pa[l]
        PROVE  r = s /\ k = l
    <3>1. CASE r = f /\ s = f
      BY <1>9, <1>11, <2>2, <3>1
    <3>2. CASE r # f /\ s # f
      BY <1>10, <2>2, <3>2 DEF PagesOwnedOnce, RegionPagesOwned
    <3>3. CASE r = f /\ s # f
      <4>1. region'[r].pa[k] \in free
        BY <1>11, <3>3
      <4>2. region'[s].pa[l] \notin free
        BY <1>10, <3>3 DEF PagesOwnedOnce, RegionPagesOwned
      <4> QED BY <4>1, <4>2, <2>2
    <3>4. CASE r # f /\ s = f
      <4>1. region'[s].pa[l] \in free
        BY <1>11, <3>4
      <4>2. region'[r].pa[k] \notin free
        BY <1>10, <3>4 DEF PagesOwnedOnce, RegionPagesOwned
      <4> QED BY <4>1, <4>2, <2>2
    <3> QED BY <3>1, <3>2, <3>3, <3>4
  <2> QED BY <2>1, <2>2 DEF RegionPagesOwned
<1>13. \A q \in Procs : Own(q)' = Own(q) /\ Tables(q)' = Tables(q)
  BY <1>7 DEF Own, Tables
<1>14. ASSUME NEW r \in Regions PROVE RegionPages(r)' \subseteq RegionPages(r) \cup free
  <2>1. CASE r = f
    BY <1>11, <2>1 DEF RegionPages
  <2>2. CASE r # f
    BY <1>10, <2>2 DEF RegionPages
  <2> QED BY <2>1, <2>2
<1>15. free' \subseteq free
  BY <1>9
<1>16. ProcessPagesOwned'
  <2>1. ASSUME NEW q \in Procs
        PROVE  /\ Own(q)' \cap free' = {}
               /\ \A r \in Regions : Own(q)' \cap RegionPages(r)' = {}
    BY <1>13, <1>14, <1>15, NotOwned
  <2>2. ASSUME NEW q \in Procs
        PROVE  /\ heap'[q] \cap Tables(q)' = {}
               /\ \A d, e \in Dirs : pgtab'[q][d] = pgtab'[q][e] => d = e \/ pgtab'[q][d] = NoPage
               /\ \A o \in Procs \ {q} : Own(q)' \cap Own(o)' = {}
    BY <1>7, <1>13 DEF PagesOwnedOnce, ProcessPagesOwned
  <2> QED BY <2>1, <2>2 DEF ProcessPagesOwned
<1> QED BY <1>12, <1>16 DEF PagesOwnedOnce

\* The mapping step of shmat keeps the ownership.
LEMMA ShmatFinishOwned ==
  ASSUME TypeOK, PagesOwnedOnce, NEW p \in Procs, NEW shmid \in Regions, NEW va, NEW rdonly,
         ShmatFinish(p, shmid, va, rdonly), heap' = heap
  PROVE  PagesOwnedOnce'
<1>1. PICK m \in 0 .. region[shmid].size : \E t :
         Mapped(p, va, m, region[shmid].pa, PtePerm(rdonly, region[shmid].mode), t)
  BY DEF ShmatFinish
<1>2. PICK t : Mapped(p, va, m, region[shmid].pa, PtePerm(rdonly, region[shmid].mode), t)
  BY <1>1
<1>3. region' = region \/ region' = [region EXCEPT ![shmid].nattch = @ + 1]
  BY DEF ShmatFinish
<1>4. \A r \in Regions : region[r] \in Region
  BY DEF TypeOK
<1>5. ASSUME NEW r \in Regions
      PROVE  region'[r].size = region[r].size /\ region'[r].pa = region[r].pa
  <2>1. CASE region' = region
    BY <2>1
  <2>2. CASE region' = [region EXCEPT ![shmid].nattch = @ + 1]
    BY <1>4, <2>2 DEF TypeOK, Region
  <2> QED BY <1>3, <2>1, <2>2
<1> QED BY <1>2, <1>5, MappedOwned

\* shmat, its SHM_REMAP steps, shmdt and the detaching in exit and exec keep
\* the ownership.
LEMMA CallsOwned ==
  ASSUME TypeOK, FramesOK, PagesOwnedOnce, NEW p \in Procs,
         \/ ShmatCall(p)
         \/ RemapDetach(p) \/ RemapNext(p)
         \/ \E a \in VPages : Shmdt(p, a)
         \/ DetachSlot(p)
  PROVE  PagesOwnedOnce'
<1>1. \/ region' = region /\ free' = free /\ heap' = heap /\ pgtab' = pgtab
      \/ \E i \in Slots : /\ ShmdtDone(p, i) \/ ShmdtFails(p, i)
                          /\ heap' = heap /\ pgtab' = pgtab
      \/ \E shmid \in Regions : \E va, rdonly : ShmatFinish(p, shmid, va, rdonly) /\ heap' = heap
  <2>1. CASE ShmatCall(p)
    <3>1. PICK shmid \in ShmidArgs : \/ \E shmaddr \in Addrs, flags \in ShmatFlags :
                                           Shmat(p, shmid, shmaddr, flags)
                                     \/ OutOfBounds(p, shmid)
      BY <2>1 DEF ShmatCall
    <3>2. CASE OutOfBounds(p, shmid)
      BY <3>2 DEF OutOfBounds, shmVars, memVars
    <3>3. ASSUME NEW shmaddr \in Addrs, NEW flags \in ShmatFlags, Shmat(p, shmid, shmaddr, flags)
          PROVE  \/ region' = region /\ free' = free /\ heap' = heap /\ pgtab' = pgtab
                 \/ \E va, rdonly : ShmatFinish(p, shmid, va, rdonly) /\ heap' = heap
      BY <3>3 DEF Shmat
    <3>4. (\E shmaddr \in Addrs, flags \in ShmatFlags : Shmat(p, shmid, shmaddr, flags))
             => shmid \in Regions
      BY DEF Shmat
    <3> QED BY <3>1, <3>2, <3>3, <3>4
  <2>2. CASE RemapDetach(p)
    BY <2>2, SlotSets, MinSlot DEF RemapDetach
  <2>3. CASE RemapNext(p)
    <3>1. frame[p].shmid \in Regions
      BY <2>3 DEF RemapNext, In, FramesOK, FrameOK
    <3> QED BY <2>3, <3>1 DEF RemapNext, ShmatDenied
  <2>4. CASE \E a \in VPages : Shmdt(p, a)
    BY <2>4, SlotSets, MinSlot DEF Shmdt
  <2>5. CASE DetachSlot(p)
    <3> DEFINE i == Min(Ahead(p))
               j == Min(AttachedAt(p, pages[p][i].va))
    <3>1. i \in Ahead(p)
      BY <2>5, SlotSets, MinSlot DEF DetachSlot
    <3>2. i \in AttachedAt(p, pages[p][i].va)
      BY <3>1 DEF Ahead, AttachedAt
    <3>3. j \in Slots
      BY <3>2, SlotSets, MinSlot
    <3>4. (ShmdtDone(p, j) \/ ShmdtFails(p, j)) /\ heap' = heap /\ pgtab' = pgtab
      BY <2>5 DEF DetachSlot
    <3> HIDE DEF i, j
    <3> QED BY <3>3, <3>4
  <2> QED BY <2>1, <2>2, <2>3, <2>4, <2>5
<1> QED BY <1>1, RegionsUntouched, ShmdtOwned, ShmatFinishOwned

\* shmctl keeps the ownership, IPC_RMID included.
LEMMA ShmctlOwned ==
  ASSUME TypeOK, PagesOwnedOnce, NEW p \in Procs, ShmctlCall(p)
  PROVE  PagesOwnedOnce'
<1>1. PICK shmid \in ShmidArgs : \/ \E mode \in Modes : ShmctlSet(p, shmid, mode)
                                 \/ ShmctlRmid(p, shmid)
                                 \/ ShmctlMark(p, shmid)
                                 \/ OutOfBounds(p, shmid)
  BY DEF ShmctlCall
<1>2. CASE OutOfBounds(p, shmid)
  BY <1>2, RegionsUntouched DEF OutOfBounds, shmVars, memVars
<1>3. \A r \in Regions : region[r] \in Region
  BY DEF TypeOK
<1>4. CASE \/ \E mode \in Modes : ShmctlSet(p, shmid, mode)
           \/ ShmctlMark(p, shmid)
  <2>1. ASSUME NEW r \in Regions
        PROVE  region'[r].size = region[r].size /\ region'[r].pa = region[r].pa
    <3>1. CASE ShmctlMark(p, shmid)
      BY <1>3, <3>1 DEF ShmctlMark, TypeOK, Region
    <3>2. ASSUME NEW mode \in Modes, ShmctlSet(p, shmid, mode)
          PROVE  region'[r].size = region[r].size /\ region'[r].pa = region[r].pa
      BY <1>3, <3>2 DEF ShmctlSet, TypeOK, Region
    <3> QED BY <1>4, <3>1, <3>2
  <2>2. free' = free /\ heap' = heap /\ pgtab' = pgtab
    BY <1>4 DEF ShmctlSet, ShmctlMark, memVars
  <2> QED BY <2>1, <2>2, RegionsUntouched
<1>5. CASE ShmctlRmid(p, shmid)
  <2> DEFINE gone == {shmid}
  <2>0. shmid \in Regions
    BY <1>5 DEF ShmctlRmid
  <2>1. /\ gone \in SUBSET Regions
        /\ free' = free \cup UNION {RegionPages(r) : r \in gone}
        /\ heap' = heap /\ pgtab' = pgtab
    BY <2>0, <1>5 DEF ShmctlRmid
  <2>2. \A r \in gone : region'[r].size = 0
    BY <2>0, <1>5 DEF ShmctlRmid, TypeOK, Cleared, NewRegion
  <2>3. \A r \in Regions \ gone : region'[r].size = region[r].size /\ region'[r].pa = region[r].pa
    BY <1>5 DEF ShmctlRmid, TypeOK
  <2> HIDE DEF gone
  <2> QED BY <2>1, <2>2, <2>3, RegionsFreed
<1> QED BY <1>1, <1>2, <1>4, <1>5

\* Each step of fork keeps the ownership.
LEMMA ForkOwned ==
  ASSUME TypeOK, FramesOK, PagesOwnedOnce, NEW p \in Procs,
         (\E c \in Procs : Fork(p, c)) \/ ForkSlot(p) \/ ForkMap(p) \/ ForkDone(p)
  PROVE  PagesOwnedOnce'
<1>1. ASSUME NEW c \in Procs, Fork(p, c) PROVE PagesOwnedOnce'
  <2>1. PICK copy \in SUBSET free : heap' = [heap EXCEPT ![c] = copy] /\ free' = free \ copy
    BY <1>1 DEF Fork
  <2>2. copy \in SUBSET Pages /\ region' = region /\ pgtab' = pgtab
    BY <1>1 DEF Fork, TypeOK
  <2>3. copy \subseteq free \cup heap[c] /\ free' \subseteq free \cup heap[c] /\ free' \cap copy = {}
    BY <2>1
  <2> QED BY <2>1, <2>2, <2>3, HeapChanges
<1>2. CASE ForkSlot(p) \/ ForkDone(p)
  BY <1>2, RegionsUntouched DEF ForkSlot, ForkDone, shmVars, memVars
<1>3. CASE ForkMap(p)
  <2>1. frame[p].child \in Procs
    BY <1>3 DEF ForkMap, In, FramesOK, FrameOK
  <2>2. region' = region /\ heap' = heap
    BY <1>3 DEF ForkMap, shmVars
  <2>3. \E va, m, pa, perm, t : Mapped(frame[p].child, va, m, pa, perm, t)
    BY <1>3 DEF ForkMap
  <2> QED BY <2>1, <2>2, <2>3, MappedOwned
<1> QED BY <1>1, <1>2, <1>3

\* exit, exec, wait and growproc keep the ownership.
LEMMA OthersOwned ==
  ASSUME TypeOK, PagesOwnedOnce, NEW p \in Procs,
         \/ Exit(p) \/ Exec(p) \/ ExecFails(p) \/ ExitDone(p) \/ ExecDone(p)
         \/ (\E c \in Procs : Wait(p, c)) \/ Grow(p) \/ Shrink(p)
  PROVE  PagesOwnedOnce'
<1>1. CASE Exit(p) \/ ExitDone(p)
  BY <1>1, RegionsUntouched DEF Exit, ExitDone, shmVars, memVars
<1>2. CASE ExecDone(p)
  BY <1>2, FreevmOwned DEF ExecDone, shmVars
<1>3. CASE \E c \in Procs : Wait(p, c)
  BY <1>3, FreevmOwned DEF Wait, shmVars
<1>4. CASE Grow(p)
  <2>1. PICK x \in free : heap' = [heap EXCEPT ![p] = @ \cup {x}] /\ free' = free \ {x}
    BY <1>4 DEF Grow
  <2> DEFINE H == heap[p] \cup {x}
  <2>2. heap' = [heap EXCEPT ![p] = H] /\ H \in SUBSET Pages /\ region' = region /\ pgtab' = pgtab
    BY <1>4, <2>1 DEF Grow, TypeOK, shmVars
  <2>3. H \subseteq free \cup heap[p] /\ free' \subseteq free \cup heap[p] /\ free' \cap H = {}
    BY <2>1, NotOwned DEF Own
  <2> HIDE DEF H
  <2> QED BY <2>2, <2>3, HeapChanges
<1>5. CASE Shrink(p)
  <2>1. PICK x \in heap[p] : heap' = [heap EXCEPT ![p] = @ \ {x}] /\ free' = free \cup {x}
    BY <1>5 DEF Shrink
  <2> DEFINE H == heap[p] \ {x}
  <2>2. heap' = [heap EXCEPT ![p] = H] /\ H \in SUBSET Pages /\ region' = region /\ pgtab' = pgtab
    BY <1>5, <2>1 DEF Shrink, TypeOK, shmVars
  <2>3. H \subseteq free \cup heap[p] /\ free' \subseteq free \cup heap[p] /\ free' \cap H = {}
    BY <2>1, NotOwned DEF Own
  <2> HIDE DEF H
  <2> QED BY <2>2, <2>3, HeapChanges
<1>6. CASE Exec(p)
  <2>1. PICK image \in SUBSET free :
             heap' = [heap EXCEPT ![p] = @ \cup image] /\ free' = free \ image
    BY <1>6 DEF Exec
  <2> DEFINE H == heap[p] \cup image
  <2>2. heap' = [heap EXCEPT ![p] = H] /\ H \in SUBSET Pages /\ region' = region /\ pgtab' = pgtab
    BY <1>6, <2>1 DEF Exec, TypeOK, shmVars
  <2>3. H \subseteq free \cup heap[p] /\ free' \subseteq free \cup heap[p] /\ free' \cap H = {}
    BY <2>1, NotOwned DEF Own
  <2> HIDE DEF H
  <2> QED BY <2>2, <2>3, HeapChanges
<1>7. CASE ExecFails(p)
  <2> DEFINE image == frame[p].image
             H == heap[p] \ image
  <2>1. heap' = [heap EXCEPT ![p] = H] /\ free' = free \cup (heap[p] \cap image)
    BY <1>7 DEF ExecFails
  <2>2. H \in SUBSET Pages /\ region' = region /\ pgtab' = pgtab
    BY <1>7 DEF ExecFails, TypeOK, shmVars
  <2> HIDE DEF image
  <2>3. H \subseteq free \cup heap[p] /\ free' \subseteq free \cup heap[p] /\ free' \cap H = {}
    BY <2>1, NotOwned DEF Own
  <2> HIDE DEF H
  <2> QED BY <2>1, <2>2, <2>3, HeapChanges
<1> QED BY <1>1, <1>2, <1>3, <1>4, <1>5, <1>6, <1>7

\* Every step keeps PagesOwnedOnce.
LEMMA OwnedStep ==
  ASSUME TypeOK, FramesOK, RegionTableSound, PagesOwnedOnce, [Next]_vars
  PROVE  PagesOwnedOnce'
<1>1. CASE Next
  <2>1. PICK p \in Procs :
           \/ ShmgetCall(p)
           \/ ShmatCall(p)
           \/ RemapDetach(p) \/ RemapNext(p)
           \/ \E a \in VPages : Shmdt(p, a)
           \/ ShmctlCall(p)
           \/ (\E c \in Procs : Fork(p, c)) \/ ForkSlot(p) \/ ForkMap(p) \/ ForkDone(p)
           \/ Exit(p) \/ Exec(p) \/ ExecFails(p) \/ DetachSlot(p) \/ ExitDone(p) \/ ExecDone(p)
           \/ (\E c \in Procs : Wait(p, c)) \/ Grow(p) \/ Shrink(p)
    BY <1>1, NextCases
  <2> QED BY <2>1, ShmgetOwned, CallsOwned, ShmctlOwned, ForkOwned, OthersOwned
<1>2. CASE UNCHANGED vars
  BY <1>2, RegionsUntouched DEF vars, shmVars, memVars
<1> QED BY <1>1, <1>2
=============================================================================
