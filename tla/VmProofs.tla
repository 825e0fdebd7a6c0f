------------------------------ MODULE VmProofs ------------------------------
(***************************************************************************)
(* Proofs about Vm, and about VmSmp at the end, for any number of          *)
(* environments, pages, entries and CPUs.                                  *)
(*                                                                         *)
(* A memory is looked at as a function Aims from places, that is entries   *)
(* of page tables, entries of directories and env_pgdir, to the pages they *)
(* refer to.  Each operation of kern/pmap.c points one place elsewhere and *)
(* env_free clears the places of one environment; Good says how counts and *)
(* free list follow from Aims, also in the middle of an operation that has *)
(* taken a page and not mapped it yet.                                     *)
(***************************************************************************)
EXTENDS VmSmp, Facts, TLAPS

\* The programs keep away from what the kernel does not survive.
Careful == Careless \subseteq {"touch_running"}

Place == Env \X Site
RootSite == <<NPDX, NPTX>>
DirSite(d) == <<d, NPTX>>
IsTable(r) == r[2][2] = NPTX

Aim(m, e, s) ==
  IF s \in UserVa THEN IF Pte(m, e, s).p THEN Pte(m, e, s).page ELSE NULL
  ELSE IF s = RootSite THEN m.pgdir[e]
  ELSE IF s[2] = NPTX THEN IF m.pde[e][s[1]] = Zero THEN NULL ELSE m.pde[e][s[1]]
  ELSE NULL
Aims(m) == [r \in Place |-> Aim(m, r[1], r[2])]
Count(m, p) == Cardinality(Pointing(Place, Aims(m), p))

\* References go to pages that page_init freed, those of directories and page
\* tables to pages of their own.
InRam(m) == \A r \in Place : Aims(m)[r] \in RamPage \cup {NULL}
Private(m) ==
  \A r, r2 \in Place : IsTable(r) /\ Aims(m)[r] # NULL /\ Aims(m)[r2] = Aims(m)[r] => r2 = r

\* A page x may be in hand: off the free list, counted k times and not mapped.
Counted(m, x, k) == \A p \in RamPage : m.pp_ref[p] = Count(m, p) + (IF p = x THEN k ELSE 0)
Listed(m, x) ==
  /\ Distinct(m.free)
  /\ Elems(m.free) = {p \in RamPage : p # x /\ \A r \in Place : Aims(m)[r] # p}

Fixed(m) ==
  /\ \A e \in Env : m.pgdir[e] = NULL => m.pde[e] = NoTables
  /\ m.pte[KernTable][0] = Mapped(EnvsPage, FALSE)
  /\ (RefMod - m.pp_ref[Zero]) % RefMod <= MaxStray

Good(m, x, k) ==
  m \in Memory /\ InRam(m) /\ Private(m) /\ Counted(m, x, k) /\ Listed(m, x) /\ Fixed(m)

-----------------------------------------------------------------------------
(* Places.                                                                 *)

LEMMA Constants ==
  /\ NPDX \in Nat \ {0} /\ NPTX \in Nat \ {0} /\ RefMod \in Nat /\ RefMod > 1
  /\ MaxStray \in Nat /\ MaxStray < RefMod - 1
  /\ NULL \notin Page /\ NULL \notin Env /\ NULL \notin UserVa /\ NULL # UTOP
  /\ RamPage \subseteq Page /\ Zero \in Page /\ KernTable \in Page /\ EnvsPage \in Page
  /\ Zero \notin RamPage /\ KernTable \notin RamPage /\ EnvsPage \notin RamPage
  /\ Zero # KernTable /\ Zero # EnvsPage
  BY VmAssumption DEF Page

LEMMA Sites ==
  /\ \A va \in UserVa : /\ va \in Site /\ va # RootSite /\ va[2] # NPTX
                        /\ va[1] \in UserPdx /\ va[2] \in Ptx /\ va[1] # NPDX
                        /\ va = <<va[1], va[2]>>
  /\ RootSite \in Site /\ RootSite \notin UserVa /\ RootSite[2] = NPTX
  /\ \A d \in UserPdx : /\ DirSite(d) \in Site /\ DirSite(d) \notin UserVa
                        /\ DirSite(d) # RootSite
                        /\ DirSite(d)[1] = d /\ DirSite(d)[2] = NPTX
  /\ \A s \in Site : s[2] = NPTX => s = RootSite \/ (s[1] \in UserPdx /\ s = DirSite(s[1]))
  /\ \A s \in Site : s[2] # NPTX => s \in UserVa \/ (s[1] = NPDX /\ s \notin UserVa)
  /\ UTOP \notin UserVa
<1> USE Constants
<1>1. \A va \in UserVa : /\ va \in Site /\ va # RootSite /\ va[2] # NPTX
                         /\ va[1] \in UserPdx /\ va[2] \in Ptx /\ va[1] # NPDX
                         /\ va = <<va[1], va[2]>>
  BY DEF UserVa, UserPdx, Ptx, Site, RootSite
<1>2. RootSite \in Site /\ RootSite \notin UserVa /\ RootSite[2] = NPTX /\ UTOP \notin UserVa
  BY DEF UserVa, UserPdx, Ptx, Site, RootSite, UTOP
<1>3. \A d \in UserPdx : /\ DirSite(d) \in Site /\ DirSite(d) \notin UserVa
                         /\ DirSite(d) # RootSite
                         /\ DirSite(d)[1] = d /\ DirSite(d)[2] = NPTX
  BY DEF UserVa, UserPdx, Ptx, Site, RootSite, DirSite
<1>4. \A s \in Site : s[2] = NPTX => s = RootSite \/ (s[1] \in UserPdx /\ s = DirSite(s[1]))
  BY DEF UserPdx, Site, RootSite, DirSite
<1>5. \A s \in Site : s[2] # NPTX => s \in UserVa \/ (s[1] = NPDX /\ s \notin UserVa)
  BY DEF UserVa, UserPdx, Ptx, Site
<1> QED
  BY <1>1, <1>2, <1>3, <1>4, <1>5

LEMMA PlaceFinite == IsFiniteSet(Place)
<1>1. IsFiniteSet(0..NPDX) /\ IsFiniteSet(0..NPTX)
  BY Constants, FS_Interval
<1>2. IsFiniteSet(Site)
  BY <1>1, FS_Product DEF Site
<1> QED
  BY <1>2, FS_Product, VmAssumption DEF Place

\* The three kinds of places.
LEMMA AimCases ==
  ASSUME NEW m, NEW e \in Env, NEW s \in Site
  PROVE  /\ s \in UserVa => Aims(m)[<<e, s>>] = IF Pte(m, e, s).p THEN Pte(m, e, s).page ELSE NULL
         /\ s[1] \in UserPdx /\ s[2] = NPTX =>
              Aims(m)[<<e, s>>] = IF m.pde[e][s[1]] = Zero THEN NULL ELSE m.pde[e][s[1]]
         /\ s = RootSite => Aims(m)[<<e, s>>] = m.pgdir[e]
         /\ s[2] # NPTX /\ s \notin UserVa => Aims(m)[<<e, s>>] = NULL
<1>1. Aims(m)[<<e, s>>] = Aim(m, e, s)
  BY DEF Aims, Place
<1>2. s[1] \in UserPdx /\ s[2] = NPTX => s \notin UserVa /\ s # RootSite
  BY Sites, Constants DEF RootSite, UserPdx
<1> QED
  BY <1>1, <1>2, Sites DEF Aim

LEMMA AimsFollow ==
  ASSUME NEW m, NEW m2, NEW e \in Env, NEW s \in Site,
         s \in UserVa => Pte(m2, e, s) = Pte(m, e, s),
         s = RootSite => m2.pgdir[e] = m.pgdir[e],
         s[1] \in UserPdx /\ s[2] = NPTX => m2.pde[e][s[1]] = m.pde[e][s[1]]
  PROVE  Aims(m2)[<<e, s>>] = Aims(m)[<<e, s>>]
<1>1. Aims(m2)[<<e, s>>] = Aim(m2, e, s) /\ Aims(m)[<<e, s>>] = Aim(m, e, s)
  BY DEF Aims, Place
<1>2. s \notin UserVa /\ s # RootSite /\ s[2] = NPTX => s[1] \in UserPdx
  BY Sites
<1> QED
  BY <1>1, <1>2 DEF Aim

LEMMA RefersIsAim ==
  ASSUME NEW m, NEW r \in Place, NEW p \in Page
  PROVE  Refers(m, r[1], r[2], p) <=> Aims(m)[r] = p
<1>1. PICK e \in Env, s \in Site : r = <<e, s>> /\ r[1] = e /\ r[2] = s
  BY DEF Place
<1>2. Refers(m, e, s, p) <=>
        \/ s \in UserVa /\ Pte(m, e, s).p /\ Pte(m, e, s).page = p
        \/ s[1] \in UserPdx /\ s[2] = NPTX /\ m.pde[e][s[1]] = p /\ p # Zero
        \/ s = RootSite /\ m.pgdir[e] = p
  BY DEF Refers, RootSite
<1>3. p # NULL
  BY Constants
<1>4. CASE s \in UserVa
  <2>1. s[2] # NPTX /\ s # RootSite
    BY <1>4, Sites
  <2>2. Aims(m)[r] = IF Pte(m, e, s).p THEN Pte(m, e, s).page ELSE NULL
    BY <1>1, <1>4, AimCases
  <2> QED
    BY <1>1, <1>2, <1>3, <1>4, <2>1, <2>2
<1>5. CASE s = RootSite
  <2>1. s \notin UserVa /\ ~(s[1] \in UserPdx)
    BY <1>5, Sites, Constants DEF RootSite, UserPdx
  <2>2. Aims(m)[r] = m.pgdir[e]
    BY <1>1, <1>5, AimCases
  <2> QED
    BY <1>1, <1>2, <1>5, <2>1, <2>2
<1>6. CASE s[1] \in UserPdx /\ s = DirSite(s[1])
  <2>1. s \notin UserVa /\ s # RootSite /\ s[2] = NPTX
    BY <1>6, Sites DEF DirSite
  <2>2. Aims(m)[r] = IF m.pde[e][s[1]] = Zero THEN NULL ELSE m.pde[e][s[1]]
    BY <1>1, <1>6, <2>1, AimCases
  <2> QED
    BY <1>1, <1>2, <1>3, <1>6, <2>1, <2>2
<1>7. CASE s[2] # NPTX /\ s \notin UserVa
  <2>1. s # RootSite
    BY <1>7, Sites
  <2>2. Aims(m)[r] = NULL
    <3>1. Aims(m)[<<e, s>>] = Aim(m, e, s)
      BY DEF Aims, Place
    <3> QED
      BY <1>1, <1>7, <2>1, <3>1 DEF Aim
  <2> QED
    BY <1>1, <1>2, <1>3, <1>7, <2>1, <2>2
<1> QED
  BY <1>4, <1>5, <1>6, <1>7, Sites

-----------------------------------------------------------------------------
(* Reading and writing one entry.                                          *)

LEMMA Fields ==
  ASSUME NEW m \in Memory
  PROVE  /\ m.pp_ref \in [Page -> 0..(RefMod-1)] /\ m.free \in Seq(Page)
         /\ m.pte \in [Page -> [Ptx -> Entry]] /\ m.pgdir \in [Env -> Page \cup {NULL}]
         /\ m.pde \in [Env -> [UserPdx -> Page]]
  BY DEF Memory

LEMMA EntryTypes ==
  /\ Absent \in Entry /\ ~Absent.p /\ EmptyTable \in [Ptx -> Entry]
  /\ \A p \in Page, w \in BOOLEAN :
       /\ Mapped(p, w) \in Entry /\ Mapped(p, w).p
       /\ Mapped(p, w).page = p /\ Mapped(p, w).w = w
  /\ NoTables \in [UserPdx -> Page]
  BY Constants DEF Entry, Absent, EmptyTable, Mapped, NoTables

LEMMA PteIs ==
  ASSUME NEW m \in Memory, NEW e \in Env, NEW va \in UserVa
  PROVE  /\ TableOf(m, e, va) = m.pde[e][va[1]] /\ m.pde[e][va[1]] \in Page
         /\ HasTable(m, e, va) <=> m.pde[e][va[1]] # Zero
         /\ Pte(m, e, va) = IF m.pde[e][va[1]] # Zero THEN m.pte[m.pde[e][va[1]]][va[2]] ELSE Absent
         /\ Pte(m, e, va) \in Entry /\ Pte(m, e, va).page \in Page /\ Pte(m, e, va).p \in BOOLEAN
         /\ Aims(m)[<<e, va>>] = IF Pte(m, e, va).p THEN Pte(m, e, va).page ELSE NULL
         /\ Aims(m)[<<e, va>>] # NULL <=> Pte(m, e, va).p
<1>1. va[1] \in UserPdx /\ va[2] \in Ptx /\ va[1] # NPDX /\ va \in Site
  BY Sites
<1>2. TableOf(m, e, va) = m.pde[e][va[1]] /\ m.pde[e][va[1]] \in Page
  BY <1>1, Fields DEF TableOf
<1>3. Pte(m, e, va) = IF m.pde[e][va[1]] # Zero THEN m.pte[m.pde[e][va[1]]][va[2]] ELSE Absent
  BY <1>2 DEF Pte, HasTable
<1>4. Pte(m, e, va) \in Entry
  BY <1>1, <1>2, <1>3, Fields, EntryTypes
<1>5. Pte(m, e, va).page \in Page /\ Pte(m, e, va).p \in BOOLEAN
  BY <1>4 DEF Entry
<1>6. Aims(m)[<<e, va>>] = IF Pte(m, e, va).p THEN Pte(m, e, va).page ELSE NULL
  <2>1. Aims(m)[<<e, va>>] = Aim(m, e, va)
    BY <1>1 DEF Aims, Place
  <2> QED
    BY <2>1 DEF Aim
<1>7. HasTable(m, e, va) <=> m.pde[e][va[1]] # Zero
  BY <1>2 DEF HasTable
<1>8. Aims(m)[<<e, va>>] # NULL <=> Pte(m, e, va).p
  BY <1>5, <1>6, Constants
<1> QED
  BY <1>2, <1>3, <1>4, <1>5, <1>6, <1>7, <1>8

\* A page table has one directory entry that leads to it.
LEMMA OneTable ==
  ASSUME NEW m \in Memory, Private(m), InRam(m), NEW e \in Env, NEW d \in UserPdx,
         m.pde[e][d] # Zero
  PROVE  /\ m.pde[e][d] \in RamPage
         /\ \A r \in Place : Aims(m)[r] = m.pde[e][d] => r = <<e, DirSite(d)>>
         /\ \A e2 \in Env, d2 \in UserPdx : m.pde[e2][d2] = m.pde[e][d] => e2 = e /\ d2 = d
<1>1. ASSUME NEW e2 \in Env, NEW d2 \in UserPdx
      PROVE  /\ <<e2, DirSite(d2)>> \in Place /\ IsTable(<<e2, DirSite(d2)>>)
             /\ Aims(m)[<<e2, DirSite(d2)>>] = IF m.pde[e2][d2] = Zero THEN NULL ELSE m.pde[e2][d2]
  <2>1. DirSite(d2) \in Site /\ DirSite(d2)[1] = d2 /\ DirSite(d2)[2] = NPTX
    BY Sites
  <2>2. DirSite(d2)[1] \in UserPdx
    BY <2>1
  <2> QED
    BY <2>1, <2>2, AimCases DEF Place, IsTable
<1>2. Aims(m)[<<e, DirSite(d)>>] = m.pde[e][d] /\ m.pde[e][d] \in Page
  BY <1>1, Fields
<1>3. m.pde[e][d] \in RamPage
  BY <1>1, <1>2, Constants DEF InRam
<1>4. \A r \in Place : Aims(m)[r] = m.pde[e][d] => r = <<e, DirSite(d)>>
  BY <1>1, <1>2, <1>3, Constants DEF Private
<1>5. ASSUME NEW e2 \in Env, NEW d2 \in UserPdx, m.pde[e2][d2] = m.pde[e][d]
      PROVE  e2 = e /\ d2 = d
  <2>1. <<e2, DirSite(d2)>> \in Place /\ Aims(m)[<<e2, DirSite(d2)>>] = m.pde[e][d]
    BY <1>1, <1>5
  <2>2. <<e2, DirSite(d2)>> = <<e, DirSite(d)>>
    BY <1>4, <2>1
  <2>3. DirSite(d2) = DirSite(d) /\ e2 = e
    BY <2>2
  <2> QED
    BY <2>3, Sites
<1> QED
  BY <1>3, <1>4, <1>5

\* Writing an entry changes that entry and nothing else that anybody can see.
LEMMA SetPteEffect ==
  ASSUME NEW m \in Memory, Private(m), InRam(m), NEW e \in Env, NEW va \in UserVa,
         HasTable(m, e, va), NEW x \in Entry, NEW m2, m2 = SetPte(m, e, va, x)
  PROVE  /\ m2 \in Memory
         /\ m2.pp_ref = m.pp_ref /\ m2.free = m.free /\ m2.pgdir = m.pgdir /\ m2.pde = m.pde
         /\ m2.pte[KernTable] = m.pte[KernTable]
         /\ Pte(m2, e, va) = x
         /\ \A e2 \in Env, va2 \in UserVa :
              <<e2, va2>> # <<e, va>> => Pte(m2, e2, va2) = Pte(m, e2, va2)
         /\ Aims(m2)[<<e, va>>] = IF x.p THEN x.page ELSE NULL
         /\ \A r \in Place : r # <<e, va>> => Aims(m2)[r] = Aims(m)[r]
<1> DEFINE t == m.pde[e][va[1]]
<1>1. va[1] \in UserPdx /\ va[2] \in Ptx /\ va = <<va[1], va[2]>>
  BY Sites
<1>2. t # Zero /\ t \in RamPage /\ t \in Page /\ t # KernTable
  <2>1. t # Zero
    BY PteIs
  <2>2. t \in RamPage
    BY <1>1, <2>1, OneTable
  <2> QED
    BY <2>1, <2>2, Constants
<1>3. m2 = [m EXCEPT !.pte[t][va[2]] = x]
  BY PteIs DEF SetPte
<1> HIDE DEF t
<1>4. /\ m2.pp_ref = m.pp_ref /\ m2.free = m.free /\ m2.pgdir = m.pgdir /\ m2.pde = m.pde
      /\ m2.pte = [m.pte EXCEPT ![t][va[2]] = x]
  BY <1>3 DEF Memory
<1>5. m2.pte \in [Page -> [Ptx -> Entry]]
  BY <1>1, <1>2, <1>4, Fields
<1>6. m2 \in Memory
  BY <1>3, <1>4, <1>5 DEF Memory
<1>7. m2.pte[t][va[2]] = x /\ \A p \in Page : p # t => m2.pte[p] = m.pte[p]
  BY <1>1, <1>2, <1>4, Fields
<1>8. \A i \in Ptx : i # va[2] => m2.pte[t][i] = m.pte[t][i]
  BY <1>1, <1>2, <1>4, Fields
<1>9. Pte(m2, e, va) = x
  <2>1. Pte(m2, e, va) = IF m2.pde[e][va[1]] # Zero THEN m2.pte[m2.pde[e][va[1]]][va[2]]
                        ELSE Absent
    BY <1>6, PteIs
  <2> QED
    BY <1>2, <1>4, <1>7, <2>1 DEF t
<1>10. ASSUME NEW e2 \in Env, NEW va2 \in UserVa, <<e2, va2>> # <<e, va>>
       PROVE  Pte(m2, e2, va2) = Pte(m, e2, va2)
  <2>1. va2[1] \in UserPdx /\ va2[2] \in Ptx /\ va2 = <<va2[1], va2[2]>>
    BY Sites
  <2>a. /\ Pte(m2, e2, va2) = IF m2.pde[e2][va2[1]] # Zero
                              THEN m2.pte[m2.pde[e2][va2[1]]][va2[2]] ELSE Absent
        /\ Pte(m, e2, va2) = IF m.pde[e2][va2[1]] # Zero
                             THEN m.pte[m.pde[e2][va2[1]]][va2[2]] ELSE Absent
        /\ m.pde[e2][va2[1]] \in Page
    BY <1>6, PteIs
  <2>2. CASE m.pde[e2][va2[1]] = t
    <3>1. e2 = e /\ va2[1] = va[1]
      BY <1>1, <1>2, <2>1, <2>2, OneTable DEF t
    <3>2. va2[2] # va[2]
      BY <1>1, <1>10, <2>1, <3>1
    <3> QED
      BY <1>4, <1>8, <2>1, <2>2, <2>a, <3>2
  <2>3. CASE m.pde[e2][va2[1]] # t
    BY <1>4, <1>7, <2>3, <2>a
  <2> QED
    BY <2>2, <2>3
<1>11. ASSUME NEW r \in Place, r # <<e, va>> PROVE Aims(m2)[r] = Aims(m)[r]
  <2>1. PICK e2 \in Env, s \in Site : r = <<e2, s>>
    BY DEF Place
  <2>2. CASE s \in UserVa
    BY <1>6, <1>10, <1>11, <2>1, <2>2, PteIs
  <2>3. CASE s \notin UserVa
    BY <1>4, <2>1, <2>3, AimCases, Sites DEF DirSite
  <2> QED
    BY <2>2, <2>3
<1> QED
  BY <1>2, <1>4, <1>6, <1>7, <1>9, <1>10, <1>11, PteIs, Constants

-----------------------------------------------------------------------------
(* Counts and the free list.                                               *)

SameTables(m, m2) == m2.pte = m.pte /\ m2.pgdir = m.pgdir /\ m2.pde = m.pde

LEMMA SameAims ==
  ASSUME NEW m, NEW m2, SameTables(m, m2)
  PROVE  /\ Aims(m2) = Aims(m) /\ \A p : Count(m2, p) = Count(m, p)
         /\ \A e, va : Pte(m2, e, va) = Pte(m, e, va)
<1>1. \A e, va : Pte(m2, e, va) = Pte(m, e, va)
  BY DEF SameTables, Pte, HasTable, TableOf
<1>2. Aims(m2) = Aims(m)
  BY <1>1 DEF SameTables, Aims, Aim
<1> QED
  BY <1>1, <1>2 DEF Count

LEMMA CountType ==
  ASSUME NEW m, NEW p
  PROVE  Count(m, p) \in Nat /\ (Count(m, p) = 0 <=> \A r \in Place : Aims(m)[r] # p)
<1>1. IsFiniteSet(Pointing(Place, Aims(m), p))
  BY PlaceFinite, FS_Subset DEF Pointing
<1> QED
  BY <1>1, FS_CardinalityType, FS_EmptySet DEF Count, Pointing

LEMMA CountMoved ==
  ASSUME NEW m, NEW m2, NEW r \in Place, NEW p,
         \A x \in Place : x # r => Aims(m2)[x] = Aims(m)[x]
  PROVE  Count(m2, p) = Count(m, p) + (IF Aims(m2)[r] = p THEN 1 ELSE 0)
                                    - (IF Aims(m)[r] = p THEN 1 ELSE 0)
  BY PlaceFinite, Repoint DEF Count

LEMMA Modulo ==
  ASSUME NEW c \in Nat
  PROVE  /\ c < RefMod => c % RefMod = c
         /\ c % RefMod \in 0..(RefMod-1)
  BY Constants

LEMMA PageFreeEffect ==
  ASSUME NEW m \in Memory, NEW p \in Page, Distinct(m.free), p \notin Elems(m.free)
  PROVE  /\ PageFree(m, p) \in Memory /\ SameTables(m, PageFree(m, p))
         /\ PageFree(m, p).pp_ref = m.pp_ref
         /\ Distinct(PageFree(m, p).free) /\ Elems(PageFree(m, p).free) = Elems(m.free) \cup {p}
<1>1. m.free \in Seq(Page)
  BY Fields
<1>2. <<p>> \o m.free \in Seq(Page)
  BY <1>1
<1>3. Distinct(<<p>> \o m.free) /\ Elems(<<p>> \o m.free) = Elems(m.free) \cup {p}
  BY <1>1, PushFront
<1> QED
  BY <1>2, <1>3 DEF PageFree, Memory, SameTables

\* The page goes back to the list exactly when the last reference has gone, and
\* not while it is in hand and counted.
LEMMA DropRef ==
  ASSUME NEW m, NEW x, NEW k \in Nat, Good(m, x, k), NEW r \in Place, NEW o \in RamPage,
         Aims(m)[r] = o, o = x => k > 0,
         NEW m1 \in Memory, m1.pp_ref = m.pp_ref, m1.free = m.free, Fixed(m1),
         Aims(m1)[r] = NULL, \A y \in Place : y # r => Aims(m1)[y] = Aims(m)[y]
  PROVE  Good(DecRef(m1, o), x, k) /\ SameTables(m1, DecRef(m1, o))
<1> DEFINE c == m.pp_ref[o]
           less == [m1 EXCEPT !.pp_ref[o] = (@ - 1) % RefMod]
           m2 == DecRef(m1, o)
<1>0. NULL \notin RamPage /\ o \in Page /\ o # Zero
  BY Constants
<1>1. /\ m \in Memory /\ InRam(m) /\ Private(m) /\ Counted(m, x, k) /\ Listed(m, x)
      /\ m.pp_ref \in [Page -> 0..(RefMod-1)]
  BY Fields DEF Good
<1>2. Count(m, o) \in Nat /\ Count(m, o) > 0
  BY CountType
<1>3. \A p : p # NULL => Count(m1, p) = Count(m, p) - (IF p = o THEN 1 ELSE 0)
  <2> SUFFICES ASSUME NEW p, p # NULL
               PROVE  Count(m1, p) = Count(m, p) - (IF p = o THEN 1 ELSE 0)
    OBVIOUS
  <2>1. Count(m1, p) = Count(m, p) + (IF Aims(m1)[r] = p THEN 1 ELSE 0)
                                   - (IF Aims(m)[r] = p THEN 1 ELSE 0)
    BY CountMoved
  <2>2. Count(m, p) \in Nat
    BY CountType
  <2> QED
    BY <2>1, <2>2
<1>4. c = Count(m, o) + (IF o = x THEN k ELSE 0) /\ c \in 1..(RefMod-1)
  BY <1>0, <1>1, <1>2 DEF Counted
<1>5. (c - 1) % RefMod = c - 1
  BY <1>4, Modulo, Constants
<1>6. /\ less \in Memory /\ SameTables(m1, less) /\ less.free = m.free
      /\ less.pp_ref = [m.pp_ref EXCEPT ![o] = c - 1]
  <2>1. less.pp_ref = [m.pp_ref EXCEPT ![o] = c - 1]
    BY <1>5 DEF Memory
  <2>2. less.pp_ref \in [Page -> 0..(RefMod-1)]
    BY <1>1, <1>4, <2>1, Constants
  <2> QED
    BY <2>1, <2>2 DEF Memory, SameTables
<1>7. less.pp_ref[o] = c - 1 /\ \A p \in Page : p # o => less.pp_ref[p] = m.pp_ref[p]
  BY <1>0, <1>1, <1>6
<1>8. m2 = IF less.pp_ref[o] = 0 THEN PageFree(less, o) ELSE less
  BY DEF DecRef
<1> HIDE DEF less, m2
<1>9. o \notin Elems(m.free) /\ Distinct(less.free) /\ less.free = m.free
  BY <1>1, <1>6 DEF Listed
<1>10. m2 \in Memory /\ SameTables(m1, m2) /\ m2.pp_ref = less.pp_ref
  BY <1>0, <1>6, <1>8, <1>9, PageFreeEffect DEF SameTables
<1>11. Aims(m2) = Aims(m1) /\ \A p : Count(m2, p) = Count(m1, p)
  BY <1>10, SameAims
<1>12. Counted(m2, x, k)
  <2> SUFFICES ASSUME NEW p \in RamPage
               PROVE  m2.pp_ref[p] = Count(m2, p) + (IF p = x THEN k ELSE 0)
    BY DEF Counted
  <2>1. /\ p \in Page /\ p # NULL /\ Count(m, p) \in Nat
        /\ m.pp_ref[p] = Count(m, p) + (IF p = x THEN k ELSE 0)
    BY <1>0, <1>1, CountType, Constants DEF Counted
  <2>2. Count(m2, p) = Count(m, p) - (IF p = o THEN 1 ELSE 0)
    BY <1>3, <1>11, <2>1
  <2> QED
    BY <1>4, <1>7, <1>10, <2>1, <2>2
<1>13. Listed(m2, x)
  <2>1. \A p \in RamPage : p # o =>
          ((\A y \in Place : Aims(m2)[y] # p) <=> (\A y \in Place : Aims(m)[y] # p))
    BY <1>0, <1>11
  <2>2. less.pp_ref[o] = 0 <=> o # x /\ \A y \in Place : Aims(m2)[y] # o
    <3>1. Count(m2, o) = Count(m, o) - 1
      BY <1>0, <1>2, <1>3, <1>11
    <3>2. Count(m2, o) = 0 <=> \A y \in Place : Aims(m2)[y] # o
      BY CountType
    <3> QED
      BY <1>2, <1>4, <1>7, <3>1, <3>2
  <2>3. Distinct(m2.free)
    BY <1>0, <1>6, <1>8, <1>9, PageFreeEffect
  <2>4. Elems(m2.free) = IF less.pp_ref[o] = 0 THEN Elems(m.free) \cup {o} ELSE Elems(m.free)
    BY <1>0, <1>6, <1>8, <1>9, PageFreeEffect
  <2> QED
    BY <1>1, <2>1, <2>2, <2>3, <2>4 DEF Listed
<1>14. InRam(m2) /\ Private(m2)
  BY <1>1, <1>11 DEF InRam, Private
<1>15. Fixed(m2)
  BY <1>0, <1>7, <1>10, Constants DEF Fixed, SameTables
<1> QED
  BY <1>10, <1>12, <1>13, <1>14, <1>15 DEF Good, m2

-----------------------------------------------------------------------------
(* Taking a page.                                                          *)

\* page_alloc takes a page that nothing refers to, so clearing it shows nowhere.
LEMMA Taken ==
  ASSUME NEW m, NEW x, NEW k \in Nat, Good(m, x, k), m.free # <<>>,
         NEW h, h = Head(m.free), NEW m1, m1 = PageAlloc(m)
  PROVE  /\ h \in RamPage /\ h # x /\ \A r \in Place : Aims(m)[r] # h
         /\ m.pp_ref[h] = 0
         /\ m1 \in Memory /\ m1.pp_ref = m.pp_ref /\ m1.free = Tail(m.free)
         /\ m1.pgdir = m.pgdir /\ m1.pde = m.pde
         /\ m1.pte[h] = EmptyTable
         /\ \A p \in Page : p # h => m1.pte[p] = m.pte[p]
         /\ Distinct(m1.free) /\ Elems(m1.free) = Elems(m.free) \ {h}
<1>1. /\ m \in Memory /\ Counted(m, x, k) /\ Distinct(m.free) /\ m.free \in Seq(Page)
      /\ Elems(m.free) = {p \in RamPage : p # x /\ \A r \in Place : Aims(m)[r] # p}
  BY Fields DEF Good, Listed
<1>2. h \in Elems(m.free) /\ Distinct(Tail(m.free)) /\ Elems(Tail(m.free)) = Elems(m.free) \ {h}
  BY <1>1, PopFront
<1>3. h \in RamPage /\ h # x /\ \A r \in Place : Aims(m)[r] # h
  BY <1>1, <1>2
<1>4. m.pp_ref[h] = 0
  BY <1>1, <1>3, CountType DEF Counted
<1>5. /\ m1.pp_ref = m.pp_ref /\ m1.free = Tail(m.free) /\ m1.pgdir = m.pgdir /\ m1.pde = m.pde
      /\ m1.pte = [m.pte EXCEPT ![h] = EmptyTable]
  BY <1>1 DEF PageAlloc, Memory
<1>6. m1.pte \in [Page -> [Ptx -> Entry]]
  BY <1>1, <1>5, EntryTypes, Fields
<1>7. Tail(m.free) \in Seq(Page)
  BY <1>1
<1>8. m1 \in Memory
  BY <1>1, <1>5, <1>6, <1>7 DEF PageAlloc, Memory
<1>9. m1.pte[h] = EmptyTable /\ \A p \in Page : p # h => m1.pte[p] = m.pte[p]
  BY <1>1, <1>3, <1>5, Constants, Fields
<1> QED
  BY <1>2, <1>3, <1>4, <1>5, <1>8, <1>9

\* A page that no directory refers to does not hold anybody's entries.
LEMMA NotATable ==
  ASSUME NEW m \in Memory, NEW h \in Page, h # Zero, \A r \in Place : Aims(m)[r] # h
  PROVE  \A e \in Env, d \in UserPdx : m.pde[e][d] # h
<1> SUFFICES ASSUME NEW e \in Env, NEW d \in UserPdx, m.pde[e][d] = h PROVE FALSE
  OBVIOUS
<1>1. DirSite(d) \in Site /\ DirSite(d)[1] = d /\ DirSite(d)[2] = NPTX
  BY Sites
<1>2. Aims(m)[<<e, DirSite(d)>>] = IF m.pde[e][d] = Zero THEN NULL ELSE m.pde[e][d]
  BY <1>1, AimCases
<1> QED
  BY <1>1, <1>2 DEF Place

LEMMA TakenIsGood ==
  ASSUME NEW m, Good(m, NULL, 0), m.free # <<>>, NEW h, h = Head(m.free),
         NEW m1, m1 = PageAlloc(m)
  PROVE  /\ Good(m1, h, 0) /\ Aims(m1) = Aims(m)
         /\ \A e \in Env, va \in UserVa : Pte(m1, e, va) = Pte(m, e, va)
<1>1. /\ h \in RamPage /\ \A r \in Place : Aims(m)[r] # h
      /\ m.pp_ref[h] = 0
      /\ m1 \in Memory /\ m1.pp_ref = m.pp_ref
      /\ m1.pgdir = m.pgdir /\ m1.pde = m.pde
      /\ \A p \in Page : p # h => m1.pte[p] = m.pte[p]
      /\ Distinct(m1.free) /\ Elems(m1.free) = Elems(m.free) \ {h}
  <2>0. 0 \in Nat
    OBVIOUS
  <2> QED
    BY <2>0, Taken
<1>2. /\ m \in Memory /\ InRam(m) /\ Private(m) /\ Counted(m, NULL, 0) /\ Listed(m, NULL)
      /\ Fixed(m) /\ h \in Page /\ h # Zero
  BY <1>1, Constants DEF Good
<1>3. ASSUME NEW e \in Env, NEW va \in UserVa PROVE Pte(m1, e, va) = Pte(m, e, va)
  <2>1. va[1] \in UserPdx /\ va[2] \in Ptx
    BY Sites
  <2>2. m.pde[e][va[1]] # h /\ m.pde[e][va[1]] \in Page
    <3>1. \A e2 \in Env, d \in UserPdx : m.pde[e2][d] # h
      BY <1>1, <1>2, NotATable
    <3> QED
      BY <1>2, <2>1, <3>1, Fields
  <2>3. m1.pte[m.pde[e][va[1]]] = m.pte[m.pde[e][va[1]]]
    BY <1>1, <1>2, <2>2, Fields
  <2>4. Pte(m1, e, va) = IF m1.pde[e][va[1]] # Zero THEN m1.pte[m1.pde[e][va[1]]][va[2]]
                         ELSE Absent
    <3>1. m1 \in Memory
      BY <1>1
    <3> QED
      BY <3>1, PteIs
  <2>5. Pte(m, e, va) = IF m.pde[e][va[1]] # Zero THEN m.pte[m.pde[e][va[1]]][va[2]]
                        ELSE Absent
    BY <1>2, PteIs
  <2> QED
    BY <1>1, <2>3, <2>4, <2>5
<1>4. Aims(m1) = Aims(m)
  BY <1>1, <1>3 DEF Aims, Aim, Place
<1>5. \A p : Count(m1, p) = Count(m, p)
  BY <1>4 DEF Count
<1>6. Counted(m1, h, 0)
  <2> SUFFICES ASSUME NEW p \in RamPage
               PROVE  m1.pp_ref[p] = Count(m1, p) + (IF p = h THEN 0 ELSE 0)
    BY DEF Counted
  <2>1. m.pp_ref[p] = Count(m, p) + (IF p = NULL THEN 0 ELSE 0) /\ Count(m, p) \in Nat
    BY <1>2, CountType DEF Counted
  <2> QED
    BY <1>1, <1>5, <2>1
<1>7. Listed(m1, h)
  <2>1. Elems(m.free) = {p \in RamPage : p # NULL /\ \A r \in Place : Aims(m)[r] # p}
    BY <1>2 DEF Listed
  <2> QED
    BY <1>1, <1>4, <2>1, Constants DEF Listed
<1>8. Fixed(m1)
  BY <1>1, <1>2, Constants DEF Fixed
<1> QED
  BY <1>1, <1>2, <1>3, <1>4, <1>6, <1>7, <1>8 DEF Good, InRam, Private

LEMMA CountAdded ==
  ASSUME NEW m, NEW m1, NEW r \in Place, Aims(m)[r] = NULL,
         NEW h, h # NULL, Aims(m1)[r] = h, \A y \in Place : y # r => Aims(m1)[y] = Aims(m)[y]
  PROVE  \A p : p # NULL => Count(m1, p) = Count(m, p) + (IF p = h THEN 1 ELSE 0)
<1> SUFFICES ASSUME NEW p, p # NULL
             PROVE  Count(m1, p) = Count(m, p) + (IF p = h THEN 1 ELSE 0)
  OBVIOUS
<1>1. Count(m1, p) = Count(m, p) + (IF Aims(m1)[r] = p THEN 1 ELSE 0)
                                 - (IF Aims(m)[r] = p THEN 1 ELSE 0)
  BY CountMoved
<1>2. Count(m, p) \in Nat
  BY CountType
<1> QED
  BY <1>1, <1>2

\* A new page table or directory: a free page becomes the aim of one place.
LEMMA NewTable ==
  ASSUME NEW m, NEW x, NEW k \in Nat, Good(m, x, k),
         NEW h \in RamPage, h # x, \A y \in Place : Aims(m)[y] # h, m.pp_ref[h] = 0,
         NEW r \in Place, IsTable(r), Aims(m)[r] = NULL,
         NEW m1 \in Memory, m1.pp_ref[h] = 1,
         Distinct(m1.free), Elems(m1.free) = Elems(m.free) \ {h},
         \A p \in Page : p # h => m1.pp_ref[p] = m.pp_ref[p],
         Fixed(m1), Aims(m1)[r] = h, \A y \in Place : y # r => Aims(m1)[y] = Aims(m)[y]
  PROVE  Good(m1, x, k)
<1>1. /\ m \in Memory /\ InRam(m) /\ Private(m) /\ Counted(m, x, k) /\ Listed(m, x)
      /\ NULL \notin RamPage /\ RamPage \subseteq Page
  BY Constants DEF Good
<1>2. \A p : p # NULL => Count(m1, p) = Count(m, p) + (IF p = h THEN 1 ELSE 0)
  BY <1>1, CountAdded
<1>3. InRam(m1)
  BY <1>1 DEF InRam
<1>4. Private(m1)
  BY <1>1 DEF Private
<1>5. Counted(m1, x, k)
  <2> SUFFICES ASSUME NEW p \in RamPage
               PROVE  m1.pp_ref[p] = Count(m1, p) + (IF p = x THEN k ELSE 0)
    BY DEF Counted
  <2>1. Count(m1, p) = Count(m, p) + (IF p = h THEN 1 ELSE 0)
    BY <1>1, <1>2
  <2>2. Count(m, p) \in Nat /\ m.pp_ref[p] = Count(m, p) + (IF p = x THEN k ELSE 0)
    BY <1>1, CountType DEF Counted
  <2>3. p # NULL /\ p \in Page
    BY <1>1
  <2> QED
    BY <2>1, <2>2, <2>3
<1>6. Listed(m1, x)
  <2>1. Elems(m.free) = {p \in RamPage : p # x /\ \A y \in Place : Aims(m)[y] # p}
    BY <1>1 DEF Listed
  <2>2. \A p \in RamPage : p # h =>
          ((\A y \in Place : Aims(m1)[y] # p) <=> (\A y \in Place : Aims(m)[y] # p))
    BY <1>1
  <2> QED
    BY <1>1, <2>1, <2>2 DEF Listed
<1> QED
  BY <1>3, <1>4, <1>5, <1>6 DEF Good

\* No directory entry and no env_pgdir refers to p.
Untabled(m, p) == \A r \in Place : IsTable(r) => Aims(m)[r] # p

\* pgdir_walk may add a page table, which changes no entry.
LEMMA WalkEffect ==
  ASSUME NEW m, NEW x, NEW k \in Nat, Good(m, x, k), NEW e \in Env, NEW va \in UserVa,
         CanWalk(m, e, va), m.pgdir[e] # NULL, NEW m1, m1 = Walk(m, e, va)
  PROVE  /\ Good(m1, x, k) /\ HasTable(m1, e, va) /\ m1.pgdir = m.pgdir
         /\ \A e2 \in Env, va2 \in UserVa : Pte(m1, e2, va2) = Pte(m, e2, va2)
         /\ \A p \in Page : p \notin Elems(m.free) =>
              m1.pp_ref[p] = m.pp_ref[p] /\ (Untabled(m, p) => Untabled(m1, p))
<1>1. CASE HasTable(m, e, va)
  <2>1. m1 = m
    BY <1>1 DEF Walk
  <2> QED
    BY <1>1, <2>1
<1>2. CASE ~HasTable(m, e, va)
  <2> DEFINE h == Head(m.free)
             d == va[1]
             a == PageAlloc(m)
             r == <<e, DirSite(d)>>
  <2>1. m.free # <<>> /\ m1 = IncRef([a EXCEPT !.pde[e][d] = h], h)
    BY <1>2 DEF CanWalk, Walk
  <2>2. /\ h \in RamPage /\ h # x /\ \A y \in Place : Aims(m)[y] # h
        /\ m.pp_ref[h] = 0
        /\ a \in Memory /\ a.pp_ref = m.pp_ref /\ a.free = Tail(m.free)
        /\ a.pgdir = m.pgdir /\ a.pde = m.pde
        /\ a.pte[h] = EmptyTable
        /\ \A p \in Page : p # h => a.pte[p] = m.pte[p]
        /\ Distinct(a.free) /\ Elems(a.free) = Elems(m.free) \ {h}
        /\ h \in Elems(m.free)
    <3>1. h \in Elems(m.free)
      BY <2>1, PopFront, Fields DEF Good, Listed
    <3> QED
      BY <2>1, <3>1, Taken
  <2>3. m \in Memory /\ InRam(m) /\ Fixed(m) /\ h \in Page /\ h # Zero /\ h # KernTable
    BY <2>2, Constants DEF Good
  <2>4. d \in UserPdx /\ m.pde[e][d] = Zero
    BY <1>2, <2>3, PteIs, Sites
  <2>5. (0 + 1) % RefMod = 1
    BY Constants, Modulo
  <2> HIDE DEF a, h, d
  <2> DEFINE b == [a EXCEPT !.pde[e][d] = h]
  <2>a. /\ b.free = a.free /\ b.pgdir = a.pgdir /\ b.pte = a.pte /\ b.pp_ref = a.pp_ref
        /\ b.pde = [a.pde EXCEPT ![e][d] = h] /\ m1 = [b EXCEPT !.pp_ref[h] = (@ + 1) % RefMod]
        /\ DOMAIN b = DOMAIN a
    BY <2>1, <2>2 DEF IncRef, Memory
  <2>6. /\ m1.free = Tail(m.free) /\ m1.pgdir = m.pgdir /\ m1.pte = a.pte
        /\ m1.pde = [m.pde EXCEPT ![e][d] = h]
        /\ m1.pp_ref = [m.pp_ref EXCEPT ![h] = 1]
    <3>1. /\ m1.free = b.free /\ m1.pgdir = b.pgdir /\ m1.pte = b.pte /\ m1.pde = b.pde
          /\ m1.pp_ref = [b.pp_ref EXCEPT ![h] = (@ + 1) % RefMod]
      BY <2>2, <2>a DEF Memory
    <3> QED
      BY <2>2, <2>3, <2>5, <2>a, <3>1
  <2>7. m1.pde \in [Env -> [UserPdx -> Page]] /\ m1.pp_ref \in [Page -> 0..(RefMod-1)]
    BY <2>3, <2>4, <2>6, Fields, Constants
  <2>8. m1 \in Memory
    BY <2>1, <2>2, <2>6, <2>7 DEF IncRef, Memory
  <2>9. /\ m1.pde[e][d] = h
        /\ \A e2 \in Env, d2 \in UserPdx :
             e2 # e \/ d2 # d => m1.pde[e2][d2] = m.pde[e2][d2]
    BY <2>3, <2>4, <2>6, Fields
  <2>10. \A e2 \in Env, d2 \in UserPdx : m.pde[e2][d2] # h
    BY <2>2, <2>3, NotATable
  <2>11. ASSUME NEW e2 \in Env, NEW va2 \in UserVa PROVE Pte(m1, e2, va2) = Pte(m, e2, va2)
    <3>1. va2[1] \in UserPdx /\ va2[2] \in Ptx /\ EmptyTable[va2[2]] = Absent
      BY Sites DEF EmptyTable
    <3>2. Pte(m1, e2, va2) = IF m1.pde[e2][va2[1]] # Zero
                             THEN m1.pte[m1.pde[e2][va2[1]]][va2[2]] ELSE Absent
      BY <2>8, PteIs
    <3>3. Pte(m, e2, va2) = IF m.pde[e2][va2[1]] # Zero
                            THEN m.pte[m.pde[e2][va2[1]]][va2[2]] ELSE Absent
      BY <2>3, PteIs
    <3>4. CASE e2 = e /\ va2[1] = d
      BY <2>2, <2>4, <2>6, <2>9, <3>1, <3>2, <3>3, <3>4
    <3>5. CASE ~(e2 = e /\ va2[1] = d)
      <4>1. m1.pde[e2][va2[1]] = m.pde[e2][va2[1]] /\ m.pde[e2][va2[1]] \in Page
        BY <2>3, <2>9, <3>1, <3>5, Fields
      <4>2. m1.pte[m.pde[e2][va2[1]]] = m.pte[m.pde[e2][va2[1]]]
        BY <2>2, <2>6, <2>10, <3>1, <4>1
      <4> QED
        BY <3>2, <3>3, <4>1, <4>2
    <3> QED
      BY <3>4, <3>5
  <2>12. r \in Place /\ IsTable(r) /\ Aims(m)[r] = NULL /\ Aims(m1)[r] = h
    <3>1. DirSite(d) \in Site /\ DirSite(d)[1] = d /\ DirSite(d)[2] = NPTX
      BY <2>4, Sites
    <3> QED
      BY <2>3, <2>4, <2>9, <3>1, AimCases DEF Place, IsTable
  <2>13. ASSUME NEW y \in Place, y # r PROVE Aims(m1)[y] = Aims(m)[y]
    <3>1. PICK e2 \in Env, s \in Site : y = <<e2, s>>
      BY DEF Place
    <3>2. s \in UserVa => Pte(m1, e2, s) = Pte(m, e2, s)
      BY <2>11
    <3>3. s[1] \in UserPdx /\ s[2] = NPTX => m1.pde[e2][s[1]] = m.pde[e2][s[1]]
      <4> SUFFICES ASSUME s[1] \in UserPdx, s[2] = NPTX
                   PROVE  m1.pde[e2][s[1]] = m.pde[e2][s[1]]
        OBVIOUS
      <4>1. s # RootSite
        BY Constants DEF RootSite, UserPdx
      <4>2. s = DirSite(s[1])
        BY <4>1, Sites
      <4>3. e2 # e \/ s[1] # d
        BY <2>13, <3>1, <4>2
      <4> QED
        BY <2>9, <4>3
    <3>4. m1.pgdir[e2] = m.pgdir[e2]
      BY <2>6
    <3> QED
      BY <3>1, <3>2, <3>3, <3>4, AimsFollow
  <2>14. Fixed(m1)
    <3>1. \A e2 \in Env : m1.pgdir[e2] = NULL => m1.pde[e2] = NoTables
      BY <2>3, <2>6, Fields DEF Fixed
    <3>2. m1.pte[KernTable] = m.pte[KernTable] /\ m1.pp_ref[Zero] = m.pp_ref[Zero]
      BY <2>2, <2>3, <2>6, Fields, Constants
    <3> QED
      BY <2>3, <3>1, <3>2 DEF Fixed
  <2>15. m1.pp_ref[h] = 1 /\ \A p \in Page : p # h => m1.pp_ref[p] = m.pp_ref[p]
    BY <2>3, <2>6, Fields
  <2>16. Good(m1, x, k)
    <3>1. h \in RamPage /\ h # x /\ (\A y \in Place : Aims(m)[y] # h) /\ m.pp_ref[h] = 0
      BY <2>2
    <3>2. Distinct(m1.free) /\ Elems(m1.free) = Elems(m.free) \ {h}
      BY <2>2, <2>6
    <3> QED
      BY <2>8, <2>12, <2>13, <2>14, <2>15, <3>1, <3>2, NewTable
  <2>17. HasTable(m1, e, va)
    BY <2>3, <2>8, <2>9, PteIs DEF d
  <2>18. ASSUME NEW p \in Page, p \notin Elems(m.free), Untabled(m, p) PROVE Untabled(m1, p)
    BY <2>2, <2>12, <2>13, <2>18 DEF Untabled
  <2> QED
    BY <2>2, <2>6, <2>11, <2>15, <2>16, <2>17, <2>18
<1> QED
  BY <1>1, <1>2

\* env_setup_vm gives an environment a directory without page tables.
LEMMA SetupEffect ==
  ASSUME NEW m, NEW x, NEW k \in Nat, Good(m, x, k), NEW e \in Env,
         m.free # <<>>, m.pgdir[e] = NULL, NEW m1, m1 = EnvSetupVm(m, e)
  PROVE  /\ Good(m1, x, k) /\ m1.free = Tail(m.free)
         /\ m1.pgdir[e] # NULL /\ \A e2 \in Env : e2 # e => m1.pgdir[e2] = m.pgdir[e2]
         /\ \A e2 \in Env, va2 \in UserVa : Pte(m1, e2, va2) = Pte(m, e2, va2)
<1> DEFINE h == Head(m.free)
           a == PageAlloc(m)
           b == [a EXCEPT !.pgdir[e] = h, !.pde[e] = NoTables]
           r == <<e, RootSite>>
<1>1. m1 = [b EXCEPT !.pp_ref[h] = (@ + 1) % RefMod]
  BY DEF EnvSetupVm, IncRef
<1>2. /\ h \in RamPage /\ h # x /\ \A y \in Place : Aims(m)[y] # h
      /\ m.pp_ref[h] = 0
      /\ a \in Memory /\ a.pp_ref = m.pp_ref /\ a.free = Tail(m.free)
      /\ a.pgdir = m.pgdir /\ a.pde = m.pde
      /\ \A p \in Page : p # h => a.pte[p] = m.pte[p]
      /\ Distinct(a.free) /\ Elems(a.free) = Elems(m.free) \ {h}
  <2>1. h \in RamPage /\ h # x /\ (\A y \in Place : Aims(m)[y] # h) /\ m.pp_ref[h] = 0
    BY Taken
  <2>2. a \in Memory /\ a.pp_ref = m.pp_ref /\ a.free = Tail(m.free)
    BY Taken
  <2>3. a.pgdir = m.pgdir /\ a.pde = m.pde
    BY Taken
  <2>4. \A p \in Page : p # h => a.pte[p] = m.pte[p]
    BY Taken
  <2>5. Distinct(a.free) /\ Elems(a.free) = Elems(m.free) \ {h}
    BY Taken
  <2> QED
    BY <2>1, <2>2, <2>3, <2>4, <2>5
<1>3. m \in Memory /\ InRam(m) /\ Fixed(m) /\ h \in Page /\ h # Zero /\ h # KernTable /\ h # NULL
  BY <1>2, Constants DEF Good
<1>4. m.pde[e] = NoTables
  BY <1>3 DEF Fixed
<1>5. (0 + 1) % RefMod = 1
  BY Constants, Modulo
<1> HIDE DEF a, h
<1>6. /\ b.free = a.free /\ b.pgdir = [a.pgdir EXCEPT ![e] = h]
      /\ b.pde = [a.pde EXCEPT ![e] = NoTables]
      /\ b.pte = a.pte /\ b.pp_ref = a.pp_ref /\ DOMAIN b = DOMAIN a
  BY <1>2 DEF Memory
<1>7. /\ m1.free = a.free /\ m1.pgdir = [m.pgdir EXCEPT ![e] = h]
      /\ m1.pde = [m.pde EXCEPT ![e] = NoTables]
      /\ m1.pte = a.pte /\ m1.pp_ref = [m.pp_ref EXCEPT ![h] = 1]
  <2>1. /\ m1.free = b.free /\ m1.pgdir = b.pgdir /\ m1.pde = b.pde /\ m1.pte = b.pte
        /\ m1.pp_ref = [b.pp_ref EXCEPT ![h] = (@ + 1) % RefMod]
    BY <1>1, <1>2, <1>6 DEF Memory
  <2> QED
    BY <1>2, <1>3, <1>5, <1>6, <2>1
<1> HIDE DEF b
<1>8. /\ m1.pgdir \in [Env -> Page \cup {NULL}] /\ m1.pde \in [Env -> [UserPdx -> Page]]
      /\ m1.pp_ref \in [Page -> 0..(RefMod-1)]
  BY <1>3, <1>7, Fields, EntryTypes, Constants
<1>9. m1 \in Memory
  BY <1>1, <1>2, <1>6, <1>7, <1>8 DEF b, Memory
<1>10. m1.pgdir[e] = h /\ \A e2 \in Env : e2 # e => m1.pgdir[e2] = m.pgdir[e2]
  BY <1>3, <1>7, Fields
<1>11. m1.pde = m.pde
  BY <1>3, <1>4, <1>7, Fields
<1>12. ASSUME NEW e2 \in Env, NEW va2 \in UserVa PROVE Pte(m1, e2, va2) = Pte(m, e2, va2)
  <2>1. va2[1] \in UserPdx /\ va2[2] \in Ptx
    BY Sites
  <2>2. Pte(m1, e2, va2) = IF m1.pde[e2][va2[1]] # Zero
                           THEN m1.pte[m1.pde[e2][va2[1]]][va2[2]] ELSE Absent
    BY <1>9, PteIs
  <2>3. Pte(m, e2, va2) = IF m.pde[e2][va2[1]] # Zero
                          THEN m.pte[m.pde[e2][va2[1]]][va2[2]] ELSE Absent
    BY <1>3, PteIs
  <2>4. m.pde[e2][va2[1]] # h /\ m.pde[e2][va2[1]] \in Page
    <3>1. \A e3 \in Env, d3 \in UserPdx : m.pde[e3][d3] # h
      BY <1>2, <1>3, NotATable
    <3> QED
      BY <1>3, <2>1, <3>1, Fields
  <2>5. m1.pte[m.pde[e2][va2[1]]] = m.pte[m.pde[e2][va2[1]]]
    BY <1>2, <1>7, <2>4
  <2> QED
    BY <1>11, <2>2, <2>3, <2>5
<1>13. r \in Place /\ IsTable(r) /\ Aims(m)[r] = NULL /\ Aims(m1)[r] = h
  BY <1>10, AimCases, Sites DEF Place, IsTable
<1>14. ASSUME NEW y \in Place, y # r PROVE Aims(m1)[y] = Aims(m)[y]
  <2>1. PICK e2 \in Env, s \in Site : y = <<e2, s>>
    BY DEF Place
  <2>2. s \in UserVa => Pte(m1, e2, s) = Pte(m, e2, s)
    BY <1>12
  <2>3. s = RootSite => m1.pgdir[e2] = m.pgdir[e2]
    BY <1>10, <1>14, <2>1
  <2> QED
    BY <1>11, <2>1, <2>2, <2>3, AimsFollow
<1>15. Fixed(m1)
  <2>1. \A e2 \in Env : m1.pgdir[e2] = NULL => m1.pde[e2] = NoTables
    BY <1>3, <1>10, <1>11 DEF Fixed
  <2>2. m1.pte[KernTable] = m.pte[KernTable] /\ m1.pp_ref[Zero] = m.pp_ref[Zero]
    BY <1>2, <1>3, <1>7, Fields, Constants
  <2> QED
    BY <1>3, <2>1, <2>2 DEF Fixed
<1>16. m1.pp_ref[h] = 1 /\ \A p \in Page : p # h => m1.pp_ref[p] = m.pp_ref[p]
  BY <1>3, <1>7, Fields
<1>17. Good(m1, x, k)
  <2>1. h \in RamPage /\ h # x /\ (\A y \in Place : Aims(m)[y] # h) /\ m.pp_ref[h] = 0
    BY <1>2
  <2>2. Distinct(m1.free) /\ Elems(m1.free) = Elems(m.free) \ {h}
    BY <1>2, <1>7
  <2> QED
    BY <1>9, <1>13, <1>14, <1>15, <1>16, <2>1, <2>2, NewTable
<1> QED
  BY <1>2, <1>3, <1>7, <1>10, <1>12, <1>17

-----------------------------------------------------------------------------
(* page_remove and page_insert.                                            *)

LEMMA FixedIsKept ==
  ASSUME NEW m, NEW m2, Fixed(m), m2.pgdir = m.pgdir, m2.pde = m.pde,
         m2.pte[KernTable] = m.pte[KernTable], m2.pp_ref[Zero] = m.pp_ref[Zero]
  PROVE  Fixed(m2)
  BY DEF Fixed

\* From m to m2 the entry of va in e becomes x, and no other entry changes.
Rewritten(m, m2, e, va, x) ==
  /\ Pte(m2, e, va) = x
  /\ \A e2 \in Env, va2 \in UserVa : <<e2, va2>> # <<e, va>> => Pte(m2, e2, va2) = Pte(m, e2, va2)

Cleared(m, m2, e, va) ==
  /\ m2.pgdir = m.pgdir /\ m2.pde = m.pde
  /\ Rewritten(m, m2, e, va, Absent) /\ Aims(m2)[<<e, va>>] = NULL
  /\ \A p \in RamPage : Untabled(m, p) => Untabled(m2, p)

\* Clearing a present entry drops one reference, and the page with the last one.
LEMMA RemoveEffect ==
  ASSUME NEW m, NEW x, NEW k \in Nat, Good(m, x, k), NEW e \in Env, NEW va \in UserVa,
         Pte(m, e, va).p, Pte(m, e, va).page = x => k > 0,
         NEW m2, m2 = PageRemove(m, e, va)
  PROVE  Good(m2, x, k) /\ Cleared(m, m2, e, va)
<1> DEFINE r == <<e, va>>
           o == Pte(m, e, va).page
           m1 == SetPte(m, e, va, Absent)
<1>1. m \in Memory /\ InRam(m) /\ Private(m) /\ Fixed(m)
  BY DEF Good
<1>2. HasTable(m, e, va) /\ Aims(m)[r] = o /\ Aims(m)[r] # NULL
  BY <1>1, PteIs, EntryTypes
<1>3. r \in Place
  BY Sites DEF Place
<1>4. o \in RamPage
  BY <1>1, <1>2, <1>3 DEF InRam
<1>5. m2 = DecRef(m1, o)
  BY <1>2 DEF PageRemove
<1> HIDE DEF o
<1>6. /\ m1 \in Memory
      /\ m1.pp_ref = m.pp_ref /\ m1.free = m.free /\ m1.pgdir = m.pgdir /\ m1.pde = m.pde
      /\ m1.pte[KernTable] = m.pte[KernTable]
      /\ Pte(m1, e, va) = Absent
      /\ \A e2 \in Env, va2 \in UserVa :
           <<e2, va2>> # <<e, va>> => Pte(m1, e2, va2) = Pte(m, e2, va2)
      /\ Aims(m1)[r] = NULL
      /\ \A y \in Place : y # r => Aims(m1)[y] = Aims(m)[y]
  BY <1>1, <1>2, EntryTypes, SetPteEffect
<1> HIDE DEF m1
<1>7. Fixed(m1)
  BY <1>1, <1>6, FixedIsKept
<1>8. Good(m2, x, k) /\ SameTables(m1, m2)
  <2>1. o = x => k > 0
    BY DEF o
  <2> QED
    BY <1>2, <1>3, <1>4, <1>5, <1>6, <1>7, <2>1, DropRef
<1>9. Aims(m2) = Aims(m1) /\ \A e2, va2 : Pte(m2, e2, va2) = Pte(m1, e2, va2)
  BY <1>8, SameAims
<1>10. \A p \in RamPage : Untabled(m, p) => Untabled(m2, p)
  BY <1>6, <1>9, Constants DEF Untabled
<1> QED
  BY <1>6, <1>8, <1>9, <1>10 DEF SameTables, Cleared, Rewritten

\* page_insert counts the page in hand first.
LEMMA Mark ==
  ASSUME NEW m, NEW p \in RamPage, Good(m, p, 0), m.pp_ref[p] < RefMod - 1,
         NEW m1, m1 = IncRef(m, p)
  PROVE  Good(m1, p, 1) /\ SameTables(m, m1)
<1>1. /\ m \in Memory /\ InRam(m) /\ Private(m) /\ Counted(m, p, 0) /\ Listed(m, p)
      /\ Fixed(m) /\ p \in Page /\ p # Zero
  BY Constants DEF Good
<1>2. m.pp_ref[p] \in Nat /\ (m.pp_ref[p] + 1) % RefMod = m.pp_ref[p] + 1
  <2>1. m.pp_ref[p] \in 0..(RefMod-1)
    BY <1>1, Fields
  <2>2. m.pp_ref[p] + 1 \in Nat /\ m.pp_ref[p] + 1 < RefMod
    BY <2>1, Constants
  <2> QED
    BY <2>1, <2>2, Modulo
<1>3. /\ m1.pp_ref = [m.pp_ref EXCEPT ![p] = m.pp_ref[p] + 1]
      /\ m1.free = m.free /\ SameTables(m, m1)
  BY <1>1, <1>2 DEF IncRef, Memory, SameTables
<1>4. m1.pp_ref \in [Page -> 0..(RefMod-1)]
  BY <1>1, <1>2, <1>3, Fields, Constants
<1>5. m1 \in Memory
  BY <1>1, <1>3, <1>4 DEF IncRef, Memory, SameTables
<1>6. Aims(m1) = Aims(m) /\ \A q : Count(m1, q) = Count(m, q)
  BY <1>3, SameAims
<1>7. Counted(m1, p, 1)
  <2> SUFFICES ASSUME NEW q \in RamPage
               PROVE  m1.pp_ref[q] = Count(m1, q) + (IF q = p THEN 1 ELSE 0)
    BY DEF Counted
  <2>1. m.pp_ref[q] = Count(m, q) + (IF q = p THEN 0 ELSE 0) /\ Count(m, q) \in Nat /\ q \in Page
    BY <1>1, CountType, Constants DEF Counted
  <2>2. m1.pp_ref[q] = IF q = p THEN m.pp_ref[q] + 1 ELSE m.pp_ref[q]
    BY <1>1, <1>3, <2>1, Fields
  <2> QED
    BY <1>6, <2>1, <2>2
<1>8. Listed(m1, p) /\ InRam(m1) /\ Private(m1)
  BY <1>1, <1>3, <1>6 DEF Listed, InRam, Private
<1>9. Fixed(m1)
  <2>1. m1.pp_ref[Zero] = m.pp_ref[Zero]
    BY <1>1, <1>3, Fields, Constants
  <2> QED
    BY <1>1, <1>3, <2>1, FixedIsKept DEF SameTables
<1> QED
  BY <1>3, <1>5, <1>7, <1>8, <1>9 DEF Good

\* Then it becomes the aim of an entry.
LEMMA MapIn ==
  ASSUME NEW m, NEW p \in RamPage, Good(m, p, 1), Untabled(m, p),
         NEW r \in Place, ~IsTable(r), Aims(m)[r] = NULL,
         NEW m1 \in Memory, m1.pp_ref = m.pp_ref, m1.free = m.free, Fixed(m1),
         Aims(m1)[r] = p, \A y \in Place : y # r => Aims(m1)[y] = Aims(m)[y]
  PROVE  Good(m1, NULL, 0)
<1>1. /\ m \in Memory /\ InRam(m) /\ Private(m) /\ Counted(m, p, 1) /\ Listed(m, p)
      /\ NULL \notin RamPage
  BY Constants DEF Good
<1>2. \A q : q # NULL => Count(m1, q) = Count(m, q) + (IF q = p THEN 1 ELSE 0)
  BY <1>1, CountAdded
<1>3. InRam(m1)
  BY <1>1 DEF InRam
<1>4. Private(m1)
  BY <1>1 DEF Private, Untabled
<1>5. Counted(m1, NULL, 0)
  <2> SUFFICES ASSUME NEW q \in RamPage
               PROVE  m1.pp_ref[q] = Count(m1, q) + (IF q = NULL THEN 0 ELSE 0)
    BY DEF Counted
  <2>1. Count(m1, q) = Count(m, q) + (IF q = p THEN 1 ELSE 0)
    BY <1>1, <1>2
  <2>2. Count(m, q) \in Nat /\ m.pp_ref[q] = Count(m, q) + (IF q = p THEN 1 ELSE 0)
    BY <1>1, CountType DEF Counted
  <2> QED
    BY <2>1, <2>2
<1>6. Listed(m1, NULL)
  <2>1. \A q \in RamPage : q # p =>
          ((\A y \in Place : Aims(m1)[y] # q) <=> (\A y \in Place : Aims(m)[y] # q))
    BY <1>1
  <2> QED
    BY <1>1, <2>1 DEF Listed
<1> QED
  BY <1>3, <1>4, <1>5, <1>6 DEF Good

SameRoots(m, m2) == m2.pgdir = m.pgdir

LEMMA InsertEffect ==
  ASSUME NEW m, NEW p \in RamPage, Good(m, p, 0), Untabled(m, p), m.pp_ref[p] < RefMod - 1,
         NEW e \in Env, NEW va \in UserVa, CanWalk(m, e, va), m.pgdir[e] # NULL,
         NEW w \in BOOLEAN, NEW m1, m1 = PageInsert(m, e, p, va, w)
  PROVE  Good(m1, NULL, 0) /\ SameRoots(m, m1) /\ Rewritten(m, m1, e, va, Mapped(p, w))
<1> DEFINE r == <<e, va>>
           a == Walk(m, e, va)
           b == IncRef(a, p)
           c == IF Pte(b, e, va).p THEN PageRemove(b, e, va) ELSE b
<1>1. m1 = SetPte(c, e, va, Mapped(p, w))
  BY DEF PageInsert
<1>2. /\ Good(a, p, 0) /\ HasTable(a, e, va) /\ a.pgdir = m.pgdir
      /\ \A e2 \in Env, va2 \in UserVa : Pte(a, e2, va2) = Pte(m, e2, va2)
      /\ a.pp_ref[p] = m.pp_ref[p] /\ Untabled(a, p)
  <2>1. p \notin Elems(m.free) /\ p \in Page
    BY Constants DEF Good, Listed
  <2>2. 0 \in Nat
    OBVIOUS
  <2>3. /\ Good(a, p, 0) /\ HasTable(a, e, va) /\ a.pgdir = m.pgdir
        /\ \A e2 \in Env, va2 \in UserVa : Pte(a, e2, va2) = Pte(m, e2, va2)
        /\ \A q \in Page : q \notin Elems(m.free) =>
             a.pp_ref[q] = m.pp_ref[q] /\ (Untabled(m, q) => Untabled(a, q))
    BY <2>2, WalkEffect
  <2> QED
    BY <2>1, <2>3
<1> HIDE DEF a
<1>3. Good(b, p, 1) /\ SameTables(a, b)
  BY <1>2, Mark
<1>4. Aims(b) = Aims(a) /\ (\A e2, va2 : Pte(b, e2, va2) = Pte(a, e2, va2)) /\ HasTable(b, e, va)
  BY <1>2, <1>3, SameAims DEF SameTables, HasTable, TableOf
<1>5. Untabled(b, p)
  BY <1>2, <1>4 DEF Untabled
<1> HIDE DEF b
<1>6. /\ Good(c, p, 1) /\ c.pgdir = b.pgdir /\ c.pde = b.pde /\ Aims(c)[r] = NULL
      /\ \A e2 \in Env, va2 \in UserVa :
           <<e2, va2>> # <<e, va>> => Pte(c, e2, va2) = Pte(b, e2, va2)
      /\ Untabled(c, p)
  <2>1. CASE Pte(b, e, va).p
    <3>1. 1 \in Nat /\ 1 > 0 /\ c = PageRemove(b, e, va)
      BY <2>1
    <3>2. Good(c, p, 1) /\ Cleared(b, c, e, va)
      BY <1>3, <2>1, <3>1, RemoveEffect
    <3> QED
      BY <1>5, <3>2 DEF Cleared, Rewritten
  <2>2. CASE ~Pte(b, e, va).p
    <3>1. b \in Memory /\ c = b
      BY <1>3, <2>2 DEF Good
    <3> QED
      BY <1>3, <1>5, <2>2, <3>1, PteIs
  <2> QED
    BY <2>1, <2>2
<1> HIDE DEF c
<1>7. c \in Memory /\ InRam(c) /\ Private(c) /\ Fixed(c) /\ HasTable(c, e, va)
  BY <1>3, <1>4, <1>6 DEF Good, HasTable, TableOf
<1>8. Mapped(p, w) \in Entry /\ Mapped(p, w).p /\ Mapped(p, w).page = p
  BY EntryTypes, Constants
<1>9. /\ m1 \in Memory
      /\ m1.pp_ref = c.pp_ref /\ m1.free = c.free /\ m1.pgdir = c.pgdir /\ m1.pde = c.pde
      /\ m1.pte[KernTable] = c.pte[KernTable]
      /\ Pte(m1, e, va) = Mapped(p, w)
      /\ \A e2 \in Env, va2 \in UserVa :
           <<e2, va2>> # <<e, va>> => Pte(m1, e2, va2) = Pte(c, e2, va2)
      /\ Aims(m1)[r] = p
      /\ \A y \in Place : y # r => Aims(m1)[y] = Aims(c)[y]
  BY <1>1, <1>7, <1>8, SetPteEffect
<1>10. Fixed(m1)
  BY <1>7, <1>9, FixedIsKept
<1>11. r \in Place /\ ~IsTable(r)
  BY Sites DEF Place, IsTable
<1>12. Good(m1, NULL, 0)
  BY <1>6, <1>9, <1>10, <1>11, MapIn
<1> QED
  BY <1>2, <1>3, <1>4, <1>6, <1>9, <1>12 DEF SameTables, SameRoots, Rewritten

-----------------------------------------------------------------------------
(* env_free.                                                               *)

LEMMA HeldIs ==
  ASSUME NEW m, NEW e \in Env, NEW p \in Page
  PROVE  /\ Held(m, e, p) \in Nat
         /\ Held(m, e, p) = 0 <=> \A s \in Site : Aims(m)[<<e, s>>] # p
         /\ Held(m, e, p) = Cardinality({r \in Pointing(Place, Aims(m), p) : r[1] = e})
<1> DEFINE S == {s \in Site : Aims(m)[<<e, s>>] = p}
           B == {r \in Pointing(Place, Aims(m), p) : r[1] = e}
           f == [s \in S |-> <<e, s>>]
<1>1. Held(m, e, p) = Cardinality(S)
  <2>1. ASSUME NEW s \in Site PROVE Refers(m, e, s, p) <=> Aims(m)[<<e, s>>] = p
    <3>1. <<e, s>> \in Place /\ <<e, s>>[1] = e /\ <<e, s>>[2] = s
      BY DEF Place
    <3> QED
      BY <3>1, RefersIsAim
  <2>2. {s \in Site : Refers(m, e, s, p)} = S
    BY <2>1
  <2> QED
    BY <2>2 DEF Held
<1>2. IsFiniteSet(S)
  <2>1. IsFiniteSet(0..NPDX) /\ IsFiniteSet(0..NPTX)
    BY Constants, FS_Interval
  <2>2. IsFiniteSet(Site)
    BY <2>1, FS_Product DEF Site
  <2> QED
    BY <2>2, FS_Subset
<1>3. f \in [S -> B]
  BY DEF Place, Pointing
<1>4. \A s, s2 \in S : f[s] = f[s2] => s = s2
  OBVIOUS
<1>5. \A r \in B : \E s \in S : f[s] = r
  BY DEF Place, Pointing
<1>6. f \in Bijection(S, B)
  BY <1>3, <1>4, <1>5, Fun_IsBij
<1>7. ExistsBijection(S, B)
  BY <1>6, Fun_ExistsBij
<1>8. Cardinality(B) = Cardinality(S)
  BY <1>2, <1>7, FS_Bijection
<1>9. Cardinality(S) \in Nat /\ (Cardinality(S) = 0 <=> S = {})
  BY <1>2, FS_CardinalityType, FS_EmptySet
<1> QED
  BY <1>1, <1>8, <1>9

\* What e holds and what the others hold is all there is.
LEMMA CountSplit ==
  ASSUME NEW m, NEW m2, NEW e \in Env, NEW p \in Page,
         \A s \in Site : Aims(m2)[<<e, s>>] = NULL,
         \A e2 \in Env, s \in Site : e2 # e => Aims(m2)[<<e2, s>>] = Aims(m)[<<e2, s>>]
  PROVE  Count(m, p) = Count(m2, p) + Held(m, e, p)
<1> DEFINE A == Pointing(Place, Aims(m), p)
           B == {r \in A : r[1] = e}
           C == Pointing(Place, Aims(m2), p)
<1>1. IsFiniteSet(A) /\ IsFiniteSet(B) /\ IsFiniteSet(C)
  BY PlaceFinite, FS_Subset DEF Pointing
<1>2. p # NULL
  BY Constants
<1>3. A = B \cup C /\ B \cap C = {}
  BY <1>2 DEF Pointing, Place
<1>4. Cardinality(A) = Cardinality(B) + Cardinality(C) - Cardinality(B \cap C)
  BY <1>1, <1>3, FS_Union
<1>5. Cardinality(B \cap C) = 0 /\ Cardinality(B) \in Nat /\ Cardinality(C) \in Nat
  BY <1>1, <1>3, FS_EmptySet, FS_CardinalityType
<1>6. Held(m, e, p) = Cardinality(B)
  BY HeldIs
<1> QED
  BY <1>4, <1>5, <1>6 DEF Count

\* A dying environment takes nothing of the others with it, and what only it
\* referred to is free afterwards.
LEMMA FreeEffect ==
  ASSUME NEW m, Good(m, NULL, 0), NEW e \in Env, NEW order \in Listings(Emptied(m, e)),
         NEW m2, m2 = FreeVm(m, e, order)
  PROVE  /\ Good(m2, NULL, 0)
         /\ m2.pgdir[e] = NULL /\ \A e2 \in Env : e2 # e => m2.pgdir[e2] = m.pgdir[e2]
         /\ \A va \in UserVa : Pte(m2, e, va) = Absent
         /\ \A e2 \in Env, va \in UserVa : e2 # e => Pte(m2, e2, va) = Pte(m, e2, va)
<1> DEFINE Gone == Emptied(m, e)
           IsMine(p) == \E d \in UserPdx : m.pde[e][d] = p /\ p # Zero
<1>1. /\ m \in Memory /\ InRam(m) /\ Private(m) /\ Counted(m, NULL, 0) /\ Listed(m, NULL)
      /\ Fixed(m)
  BY DEF Good
<1>2. /\ m2.pp_ref = [p \in Page |-> (m.pp_ref[p] - Held(m, e, p)) % RefMod]
      /\ m2.free = order \o m.free
      /\ m2.pte = [p \in Page |-> IF IsMine(p) THEN EmptyTable ELSE m.pte[p]]
      /\ m2.pgdir = [m.pgdir EXCEPT ![e] = NULL] /\ m2.pde = [m.pde EXCEPT ![e] = NoTables]
  BY DEF FreeVm
<1>3. m2.pte \in [Page -> [Ptx -> Entry]]
  BY <1>1, <1>2, Fields, EntryTypes
<1>4. /\ m2.pgdir \in [Env -> Page \cup {NULL}] /\ m2.pde \in [Env -> [UserPdx -> Page]]
      /\ m2.pgdir[e] = NULL /\ m2.pde[e] = NoTables
      /\ \A e2 \in Env : e2 # e => m2.pgdir[e2] = m.pgdir[e2] /\ m2.pde[e2] = m.pde[e2]
  BY <1>1, <1>2, Fields, EntryTypes
<1>5. ASSUME NEW va \in UserVa PROVE Pte(m2, e, va) = Absent
  <2>1. va[1] \in UserPdx /\ va[1] # NPDX
    BY Sites
  <2> QED
    BY <1>4, <2>1 DEF Pte, HasTable, TableOf, NoTables
<1>6. ASSUME NEW e2 \in Env, NEW va \in UserVa, e2 # e PROVE Pte(m2, e2, va) = Pte(m, e2, va)
  <2>1. va[1] \in UserPdx /\ va[2] \in Ptx /\ va[1] # NPDX
    BY Sites
  <2>2. m2.pde[e2][va[1]] = m.pde[e2][va[1]] /\ m.pde[e2][va[1]] \in Page
    BY <1>1, <1>4, <1>6, <2>1, Fields
  <2>3. CASE m.pde[e2][va[1]] = Zero
    BY <2>1, <2>2, <2>3 DEF Pte, HasTable, TableOf
  <2>4. CASE m.pde[e2][va[1]] # Zero
    <3>1. ~IsMine(m.pde[e2][va[1]])
      BY <1>1, <1>6, <2>1, <2>4, OneTable
    <3>2. m2.pte[m.pde[e2][va[1]]] = m.pte[m.pde[e2][va[1]]]
      BY <1>2, <2>2, <3>1
    <3> QED
      BY <2>1, <2>2, <3>2 DEF Pte, HasTable, TableOf
  <2> QED
    BY <2>3, <2>4
<1>7. ASSUME NEW s \in Site PROVE Aims(m2)[<<e, s>>] = NULL
  <2>1. CASE s \in UserVa
    <3>1. Aims(m2)[<<e, s>>] = IF Pte(m2, e, s).p THEN Pte(m2, e, s).page ELSE NULL
      BY <2>1, AimCases
    <3>2. Pte(m2, e, s) = Absent /\ ~Absent.p
      BY <1>5, <2>1, EntryTypes
    <3> QED
      BY <3>1, <3>2
  <2>2. CASE s = RootSite
    BY <1>4, <2>2, AimCases
  <2>3. CASE s[1] \in UserPdx /\ s = DirSite(s[1])
    <3>1. s[2] = NPTX /\ m2.pde[e][s[1]] = Zero
      BY <1>4, <2>3, Sites DEF NoTables
    <3> QED
      BY <2>3, <3>1, AimCases
  <2>4. CASE s[2] # NPTX /\ s \notin UserVa
    BY <2>4, AimCases
  <2> QED
    BY <2>1, <2>2, <2>3, <2>4, Sites
<1>8. ASSUME NEW e2 \in Env, NEW s \in Site, e2 # e
      PROVE  Aims(m2)[<<e2, s>>] = Aims(m)[<<e2, s>>]
  <2>1. s \in UserVa => Pte(m2, e2, s) = Pte(m, e2, s)
    BY <1>6, <1>8
  <2>2. m2.pgdir[e2] = m.pgdir[e2] /\ m2.pde[e2] = m.pde[e2]
    BY <1>4, <1>8
  <2> QED
    BY <2>1, <2>2, AimsFollow
<1>9. \A r \in Place : Aims(m2)[r] = NULL \/ Aims(m2)[r] = Aims(m)[r]
  BY <1>7, <1>8 DEF Place
<1>10. InRam(m2)
  BY <1>1, <1>9 DEF InRam
<1>11. Private(m2)
  <2> SUFFICES ASSUME NEW r \in Place, NEW r2 \in Place, IsTable(r), Aims(m2)[r] # NULL,
                      Aims(m2)[r2] = Aims(m2)[r]
               PROVE  r2 = r
    BY DEF Private
  <2>1. Aims(m)[r] = Aims(m2)[r] /\ Aims(m)[r2] = Aims(m2)[r2]
    BY <1>9
  <2> QED
    BY <1>1, <2>1 DEF Private
<1>12. ASSUME NEW p \in Page PROVE Count(m, p) = Count(m2, p) + Held(m, e, p)
  BY <1>7, <1>8, CountSplit
<1>13. ASSUME NEW p \in RamPage
       PROVE  /\ p \in Page /\ Count(m2, p) \in Nat /\ Held(m, e, p) \in Nat
              /\ (m.pp_ref[p] - Held(m, e, p)) % RefMod = Count(m2, p)
              /\ m2.pp_ref[p] = Count(m2, p)
  <2>1. p \in Page /\ p # NULL /\ m.pp_ref[p] \in 0..(RefMod-1)
    BY <1>1, Fields, Constants
  <2>2. Count(m2, p) \in Nat /\ Held(m, e, p) \in Nat /\ Count(m, p) \in Nat
    BY <2>1, CountType, HeldIs
  <2>3. m.pp_ref[p] = Count(m2, p) + Held(m, e, p)
    <3>1. m.pp_ref[p] = Count(m, p) + (IF p = NULL THEN 0 ELSE 0)
      BY <1>1 DEF Counted
    <3> QED
      BY <1>12, <2>1, <2>2, <3>1
  <2>4. m.pp_ref[p] - Held(m, e, p) = Count(m2, p) /\ Count(m2, p) < RefMod
    BY <2>1, <2>2, <2>3, Constants
  <2>5. Count(m2, p) % RefMod = Count(m2, p)
    BY <2>2, <2>4, Modulo
  <2> QED
    BY <1>2, <2>1, <2>2, <2>4, <2>5
<1>14. ASSUME NEW p \in Page, p \notin RamPage
       PROVE  Held(m, e, p) = 0 /\ m2.pp_ref[p] = m.pp_ref[p]
  <2>1. m.pp_ref[p] \in 0..(RefMod-1) /\ p # NULL
    BY <1>1, Fields, Constants
  <2>2. \A s \in Site : Aims(m)[<<e, s>>] # p
    BY <1>1, <1>14, <2>1 DEF InRam, Place
  <2>3. Held(m, e, p) = 0
    BY <2>2, HeldIs
  <2>4. m.pp_ref[p] % RefMod = m.pp_ref[p]
    BY <2>1, Modulo, Constants
  <2> QED
    BY <1>2, <2>1, <2>3, <2>4
<1>15. \A p : p \in Gone <=> p \in RamPage /\ Count(m2, p) = 0 /\ Held(m, e, p) > 0
  BY <1>13, <1>14, Constants DEF Emptied
<1>16. Counted(m2, NULL, 0)
  BY <1>13 DEF Counted
<1>17. m2.pp_ref \in [Page -> 0..(RefMod-1)]
  <2>1. \A p \in Page : m2.pp_ref[p] \in 0..(RefMod-1)
    <3> SUFFICES ASSUME NEW p \in Page PROVE m2.pp_ref[p] \in 0..(RefMod-1)
      OBVIOUS
    <3>1. m.pp_ref[p] \in 0..(RefMod-1)
      BY <1>1, Fields
    <3>2. CASE p \in RamPage
      <4>1. Count(m2, p) <= m.pp_ref[p]
        <5>1. m.pp_ref[p] = Count(m, p) + (IF p = NULL THEN 0 ELSE 0)
          BY <1>1, <3>2 DEF Counted
        <5>2. Count(m, p) = Count(m2, p) + Held(m, e, p) /\ Count(m, p) \in Nat
          BY <1>12, CountType
        <5> QED
          BY <1>13, <3>2, <5>1, <5>2
      <4> QED
        BY <1>13, <3>1, <3>2, <4>1, Constants
    <3>3. CASE p \notin RamPage
      BY <1>14, <3>1, <3>3
    <3> QED
      BY <3>2, <3>3
  <2> QED
    BY <1>2, <2>1
<1>18. order \in Seq(Gone) /\ Distinct(order) /\ Elems(order) = Gone
  <2>1. IsFiniteSet(Gone)
    <3>1. Gone \subseteq RamPage
      BY <1>15
    <3> QED
      BY <3>1, VmAssumption, FS_Subset
  <2>2. order \in [1..Cardinality(Gone) -> Gone] /\ \A p \in Gone : \E i \in DOMAIN order : order[i] = p
    BY DEF Listings
  <2> QED
    BY <2>1, <2>2, ListingIsDistinct
<1> HIDE DEF Gone
<1>19. order \in Seq(Page)
  <2>1. Gone \subseteq Page
    BY DEF Gone, Emptied
  <2> QED
    BY <1>18, <2>1
<1>20. /\ m.free \in Seq(Page) /\ Distinct(m.free)
       /\ Elems(m.free) = {p \in RamPage : p # NULL /\ \A r \in Place : Aims(m)[r] # p}
  BY <1>1, Fields DEF Listed
<1>21. \A p \in RamPage : /\ Count(m2, p) = 0 <=> \A r \in Place : Aims(m2)[r] # p
                          /\ Count(m, p) = 0 <=> \A r \in Place : Aims(m)[r] # p
  BY CountType
<1>22. Gone \cap Elems(m.free) = {}
  <2> SUFFICES ASSUME NEW p \in Gone, p \in Elems(m.free) PROVE FALSE
    OBVIOUS
  <2>1. p \in RamPage /\ Held(m, e, p) > 0 /\ Count(m, p) = 0
    BY <1>15, <1>20, <1>21
  <2>2. Count(m, p) = Count(m2, p) + Held(m, e, p) /\ Count(m2, p) \in Nat /\ Held(m, e, p) \in Nat
    BY <1>12, <1>13, <2>1
  <2> QED
    BY <2>1, <2>2
<1>23. /\ m2.free \in Seq(Page) /\ Distinct(m2.free)
       /\ Elems(m2.free) = Gone \cup Elems(m.free)
  BY <1>2, <1>18, <1>19, <1>20, <1>22, JoinLists
<1>24. Listed(m2, NULL)
  <2>1. ASSUME NEW p \in RamPage
        PROVE  p \in Gone \cup Elems(m.free) <=> Count(m2, p) = 0
    <3>1. /\ Count(m, p) = Count(m2, p) + Held(m, e, p)
          /\ Count(m2, p) \in Nat /\ Held(m, e, p) \in Nat /\ p # NULL
      BY <1>12, <1>13, Constants
    <3>2. p \in Gone <=> Count(m2, p) = 0 /\ Held(m, e, p) > 0
      BY <1>15
    <3>3. p \in Elems(m.free) <=> Count(m, p) = 0
      BY <1>20, <1>21, <3>1
    <3> QED
      BY <3>1, <3>2, <3>3
  <2>2. Gone \cup Elems(m.free) \subseteq RamPage
    BY <1>15, <1>20
  <2>3. Elems(m2.free) = {p \in RamPage : p # NULL /\ \A r \in Place : Aims(m2)[r] # p}
    BY <1>21, <1>23, <2>1, <2>2, Constants
  <2> QED
    BY <1>23, <2>3 DEF Listed
<1>25. m2 \in Memory
  BY <1>3, <1>4, <1>17, <1>23 DEF FreeVm, Memory
<1>26. Fixed(m2)
  <2>1. m2.pp_ref[Zero] = m.pp_ref[Zero]
    BY <1>14, Constants
  <2>2. ~IsMine(KernTable)
    <3> SUFFICES ASSUME NEW d \in UserPdx, m.pde[e][d] = KernTable PROVE FALSE
      OBVIOUS
    <3> QED
      BY <1>1, OneTable, Constants
  <2>3. m2.pte[KernTable] = m.pte[KernTable]
    BY <1>2, <2>2, Constants
  <2>4. \A e2 \in Env : m2.pgdir[e2] = NULL => m2.pde[e2] = NoTables
    BY <1>1, <1>4 DEF Fixed
  <2> QED
    BY <1>1, <2>1, <2>3, <2>4 DEF Fixed
<1> QED
  BY <1>4, <1>5, <1>6, <1>10, <1>11, <1>16, <1>24, <1>25, <1>26 DEF Good

-----------------------------------------------------------------------------
(* The invariant.                                                          *)

\* An entry that is not present is empty, so page_lookup reads page 0 in it.
Clean(m) == \A e \in Env, va \in UserVa : Pte(m, e, va).p \/ Pte(m, e, va) = Absent

VmInv == TypeOK /\ Good(mem, NULL, 0) /\ Clean(mem)

LEMMA InitIsGood == Init => VmInv
<1> SUFFICES ASSUME Init PROVE VmInv
  OBVIOUS
<1> DEFINE kern == [EmptyTable EXCEPT ![0] = Mapped(EnvsPage, FALSE)]
<1>1. PICK list \in Listings(RamPage) :
        mem = [pp_ref |-> [p \in Page |-> IF p \in {EnvsPage, KernTable} THEN 1 ELSE 0],
               free |-> list,
               pte |-> [p \in Page |-> IF p = KernTable THEN kern ELSE EmptyTable],
               pgdir |-> [e \in Env |-> NULL],
               pde |-> [e \in Env |-> NoTables]]
  BY DEF Init
<1>2. env = [e \in Env |-> FreeSlot] /\ booted = FALSE
  BY DEF Init
<1>3. list \in Seq(RamPage) /\ Distinct(list) /\ Elems(list) = RamPage
  BY ListingIsDistinct, VmAssumption DEF Listings
<1>4. list \in Seq(Page)
  BY <1>3, Constants
<1>5. 0 \in Ptx /\ kern \in [Ptx -> Entry] /\ kern[0] = Mapped(EnvsPage, FALSE)
  <2>1. Mapped(EnvsPage, FALSE) \in Entry
    BY Constants DEF Mapped, Entry
  <2>2. EmptyTable \in [Ptx -> Entry] /\ 0 \in Ptx
    BY EntryTypes, Constants DEF Ptx
  <2> QED
    BY <2>1, <2>2
<1> HIDE DEF kern
<1>6. mem \in Memory
  BY <1>1, <1>4, <1>5, EntryTypes, Constants DEF Memory
<1>7. ASSUME NEW e \in Env, NEW va \in UserVa PROVE Pte(mem, e, va) = Absent
  <2>1. va[1] \in UserPdx /\ va[1] # NPDX
    BY Sites
  <2> QED
    BY <1>1, <2>1 DEF Pte, HasTable, TableOf, NoTables
<1>8. ASSUME NEW r \in Place PROVE Aims(mem)[r] = NULL
  <2>1. PICK e \in Env, s \in Site : r = <<e, s>>
    BY DEF Place
  <2>2. CASE s \in UserVa
    BY <1>6, <1>7, <2>1, <2>2, PteIs, EntryTypes
  <2>3. CASE s = RootSite
    BY <1>1, <2>1, <2>3, AimCases
  <2>4. CASE s[1] \in UserPdx /\ s = DirSite(s[1])
    <3>1. s[2] = NPTX /\ mem.pde[e][s[1]] = Zero
      BY <1>1, <2>4, Sites DEF NoTables
    <3> QED
      BY <2>1, <2>4, <3>1, AimCases
  <2>5. CASE s[2] # NPTX /\ s \notin UserVa
    BY <2>1, <2>5, AimCases
  <2>6. s[2] # NPTX \/ s = RootSite \/ (s[1] \in UserPdx /\ s = DirSite(s[1]))
    BY Sites
  <2> QED
    BY <2>2, <2>3, <2>4, <2>5, <2>6
<1>9. Counted(mem, NULL, 0)
  <2> SUFFICES ASSUME NEW p \in RamPage
               PROVE  mem.pp_ref[p] = Count(mem, p) + (IF p = NULL THEN 0 ELSE 0)
    BY DEF Counted
  <2>1. p \in Page /\ p # NULL /\ p \notin {EnvsPage, KernTable}
    BY Constants
  <2>2. Count(mem, p) = 0
    BY <1>8, <2>1, CountType
  <2> QED
    BY <1>1, <2>1, <2>2
<1>10. Listed(mem, NULL)
  BY <1>1, <1>3, <1>8, Constants DEF Listed
<1>11. InRam(mem) /\ Private(mem)
  BY <1>8 DEF InRam, Private
<1>12. Fixed(mem)
  <2>1. mem.pp_ref[Zero] = 0
    BY <1>1, Constants
  <2>2. (RefMod - 0) % RefMod = 0
    BY Constants
  <2>3. \A e \in Env : mem.pgdir[e] = NULL /\ mem.pde[e] = NoTables
    BY <1>1
  <2>4. mem.pte[KernTable][0] = Mapped(EnvsPage, FALSE)
    BY <1>1, <1>5, Constants
  <2> QED
    BY <2>1, <2>2, <2>3, <2>4, Constants DEF Fixed
<1>13. Clean(mem)
  BY <1>7 DEF Clean
<1>14. TypeOK
  BY <1>1, <1>2, <1>6 DEF TypeOK, EnvRec, FreeSlot
<1> QED
  BY <1>6, <1>9, <1>10, <1>11, <1>12, <1>13, <1>14 DEF VmInv, Good

LEMMA RewrittenIsClean ==
  ASSUME NEW m, NEW m2, Clean(m), NEW e \in Env, NEW va \in UserVa, NEW x,
         x.p \/ x = Absent, Rewritten(m, m2, e, va, x)
  PROVE  Clean(m2)
<1> SUFFICES ASSUME NEW e2 \in Env, NEW va2 \in UserVa
             PROVE  Pte(m2, e2, va2).p \/ Pte(m2, e2, va2) = Absent
  BY DEF Clean
<1>1. CASE <<e2, va2>> = <<e, va>>
  BY <1>1 DEF Rewritten
<1>2. CASE <<e2, va2>> # <<e, va>>
  BY <1>2 DEF Rewritten, Clean
<1> QED
  BY <1>1, <1>2

\* Page 0 is counted down at most MaxStray times, and never to zero.
LEMMA StrayEffect ==
  ASSUME NEW m, Good(m, NULL, 0), (RefMod - m.pp_ref[Zero]) % RefMod < MaxStray,
         NEW m2, m2 = DecRef(m, Zero)
  PROVE  Good(m2, NULL, 0) /\ SameTables(m, m2)
<1> DEFINE c == m.pp_ref[Zero]
           c2 == (c - 1) % RefMod
           less == [m EXCEPT !.pp_ref[Zero] = (@ - 1) % RefMod]
<1>1. /\ m \in Memory /\ InRam(m) /\ Private(m) /\ Counted(m, NULL, 0) /\ Listed(m, NULL)
      /\ Fixed(m) /\ c \in 0..(RefMod-1) /\ Zero \in Page /\ Zero \notin RamPage
  BY Fields, Constants DEF Good
<1>2. c2 \in 1..(RefMod-1) /\ (RefMod - c2) % RefMod <= MaxStray
  <2>1. CASE c = 0
    <3>1. (0 - 1) % RefMod = RefMod - 1
      BY Constants
    <3>2. (RefMod - (RefMod - 1)) % RefMod = 1 /\ (RefMod - 0) % RefMod = 0
      BY Constants
    <3> QED
      BY <2>1, <3>1, <3>2, Constants
  <2>2. CASE c > 0
    <3>1. RefMod - c \in Nat /\ RefMod - c < RefMod
      BY <1>1, <2>2, Constants
    <3>2. (RefMod - c) % RefMod = RefMod - c
      BY <3>1, Modulo
    <3>3. c > 1
      BY <1>1, <3>2, Constants
    <3>4. c - 1 \in Nat /\ c - 1 < RefMod
      BY <1>1, <3>3, Constants
    <3>5. c2 = c - 1
      BY <3>4, Modulo
    <3>6. RefMod - c2 \in Nat /\ RefMod - c2 < RefMod
      BY <1>1, <3>3, <3>5, Constants
    <3>7. (RefMod - c2) % RefMod = RefMod - c2
      BY <3>6, Modulo
    <3> QED
      BY <1>1, <3>2, <3>3, <3>5, <3>7, Constants
  <2> QED
    BY <1>1, <2>1, <2>2
<1> HIDE DEF c, c2
<1>3. less.pp_ref = [m.pp_ref EXCEPT ![Zero] = c2] /\ less.free = m.free /\ SameTables(m, less)
  BY <1>1 DEF Memory, SameTables, c, c2
<1>4. less.pp_ref[Zero] = c2 /\ \A p \in Page : p # Zero => less.pp_ref[p] = m.pp_ref[p]
  BY <1>1, <1>3, Fields
<1>5. less.pp_ref \in [Page -> 0..(RefMod-1)]
  BY <1>1, <1>2, <1>3, Fields
<1>6. less \in Memory
  BY <1>1, <1>3, <1>5 DEF Memory, SameTables
<1>7. m2 = less
  BY <1>2, <1>4 DEF DecRef
<1> HIDE DEF less
<1>8. Aims(less) = Aims(m) /\ \A p : Count(less, p) = Count(m, p)
  BY <1>3, SameAims
<1>9. Counted(less, NULL, 0)
  BY <1>1, <1>4, <1>8, Constants DEF Counted
<1>10. Listed(less, NULL) /\ InRam(less) /\ Private(less)
  BY <1>1, <1>3, <1>8 DEF Listed, InRam, Private
<1>11. Fixed(less)
  BY <1>1, <1>2, <1>3, <1>4 DEF Fixed, SameTables
<1> QED
  BY <1>3, <1>6, <1>7, <1>9, <1>10, <1>11 DEF Good

-----------------------------------------------------------------------------
(* What the actions do to the memory.                                      *)

LEMMA InvFacts ==
  ASSUME VmInv
  PROVE  /\ Good(mem, NULL, 0) /\ Clean(mem) /\ mem \in Memory /\ InRam(mem) /\ Private(mem)
         /\ \A e \in Env : /\ env[e].status = "free" <=> mem.pgdir[e] = NULL
                           /\ env[e] \in EnvRec
  BY DEF VmInv, TypeOK, Good

\* A page to which an entry refers is RAM, is in no directory and is in hand as
\* soon as the kernel has found it.
LEMMA FoundPage ==
  ASSUME NEW m, Good(m, NULL, 0), NEW e \in Env, NEW va \in UserVa, Pte(m, e, va).p,
         NEW p, p = Pte(m, e, va).page
  PROVE  p \in RamPage /\ Good(m, p, 0) /\ Untabled(m, p)
<1>1. /\ m \in Memory /\ InRam(m) /\ Private(m) /\ Counted(m, NULL, 0) /\ Listed(m, NULL)
      /\ Fixed(m)
  BY DEF Good
<1>2. <<e, va>> \in Place /\ ~IsTable(<<e, va>>)
  BY Sites DEF Place, IsTable
<1>3. Aims(m)[<<e, va>>] = p /\ p # NULL
  BY <1>1, PteIs, Constants
<1>4. p \in RamPage
  BY <1>1, <1>2, <1>3 DEF InRam
<1>5. Untabled(m, p)
  BY <1>1, <1>2, <1>3 DEF Private, Untabled
<1>6. Counted(m, p, 0)
  <2> SUFFICES ASSUME NEW q \in RamPage
               PROVE  m.pp_ref[q] = Count(m, q) + (IF q = p THEN 0 ELSE 0)
    BY DEF Counted
  <2>1. m.pp_ref[q] = Count(m, q) + (IF q = NULL THEN 0 ELSE 0)
    BY <1>1 DEF Counted
  <2> QED
    BY <2>1
<1>7. Listed(m, p)
  <2>1. {q \in RamPage : q # NULL /\ \A r \in Place : Aims(m)[r] # q}
          = {q \in RamPage : q # p /\ \A r \in Place : Aims(m)[r] # q}
    BY <1>2, <1>3, Constants
  <2> QED
    BY <1>1, <2>1 DEF Listed
<1> QED
  BY <1>1, <1>4, <1>5, <1>6, <1>7 DEF Good

\* A page in hand that is given back.
LEMMA GiveBack ==
  ASSUME NEW m, NEW p \in RamPage, Good(m, p, 0), \A r \in Place : Aims(m)[r] # p,
         NEW m2, m2 = PageFree(m, p)
  PROVE  Good(m2, NULL, 0) /\ SameTables(m, m2)
<1>1. /\ m \in Memory /\ InRam(m) /\ Private(m) /\ Counted(m, p, 0) /\ Listed(m, p)
      /\ Fixed(m) /\ p \in Page /\ p # NULL
  BY Constants DEF Good
<1>2. p \notin Elems(m.free) /\ Distinct(m.free)
  BY <1>1 DEF Listed
<1>3. /\ m2 \in Memory /\ SameTables(m, m2) /\ m2.pp_ref = m.pp_ref
      /\ Distinct(m2.free) /\ Elems(m2.free) = Elems(m.free) \cup {p}
  BY <1>1, <1>2, PageFreeEffect
<1>4. Aims(m2) = Aims(m) /\ \A q : Count(m2, q) = Count(m, q)
  BY <1>3, SameAims
<1>5. Counted(m2, NULL, 0)
  <2> SUFFICES ASSUME NEW q \in RamPage
               PROVE  m2.pp_ref[q] = Count(m2, q) + (IF q = NULL THEN 0 ELSE 0)
    BY DEF Counted
  <2>1. m.pp_ref[q] = Count(m, q) + (IF q = p THEN 0 ELSE 0)
    BY <1>1 DEF Counted
  <2> QED
    BY <1>3, <1>4, <2>1
<1>6. Listed(m2, NULL)
  <2>1. Elems(m.free) = {q \in RamPage : q # p /\ \A r \in Place : Aims(m)[r] # q}
    BY <1>1 DEF Listed
  <2> QED
    BY <1>3, <1>4, <2>1, Constants DEF Listed
<1>7. InRam(m2) /\ Private(m2)
  BY <1>1, <1>4 DEF InRam, Private
<1>8. Fixed(m2)
  BY <1>1, <1>3, FixedIsKept DEF SameTables
<1> QED
  BY <1>3, <1>5, <1>6, <1>7, <1>8 DEF Good

LEMMA NowhereMapped ==
  ASSUME VmInv, NEW p \in RamPage, \A r \in Place : Aims(mem)[r] # p
  PROVE  ~MappedSomewhere(p)
<1> SUFFICES ASSUME NEW e \in Env, NEW va \in UserVa,
                    Pte(mem, e, va).p, Pte(mem, e, va).page = p
             PROVE  FALSE
  BY DEF MappedSomewhere
<1>1. <<e, va>> \in Place
  BY Sites DEF Place
<1>2. Aims(mem)[<<e, va>>] = p
  BY InvFacts, PteIs
<1> QED
  BY <1>1, <1>2

\* Entries stay as they are.
SameEntries(m, m2) == \A e \in Env, va \in UserVa : Pte(m2, e, va) = Pte(m, e, va)

LEMMA SameIsClean ==
  ASSUME NEW m, NEW m2, Clean(m), SameEntries(m, m2)
  PROVE  Clean(m2)
  BY DEF Clean, SameEntries

\* The page of a new mapping was nowhere mapped, or the mapping grants no more
\* than an older one of the same page.
MayMap(p, w) == p \in RamPage /\ w \in BOOLEAN /\ (MappedSomewhere(p) => (w => Writable(p)))

\* sys_page_alloc, page_alloc to page_insert or page_free.
LEMMA AllocStep ==
  ASSUME VmInv, NEW c \in Env, NEW e \in Env, NEW va \in UserVa, NEW w \in BOOLEAN,
         SysPageAlloc(c, e, va, w), NEW m2, m2 = mem'
  PROVE  /\ Good(m2, NULL, 0) /\ m2.pgdir = mem.pgdir
         /\ \/ SameEntries(mem, m2)
            \/ \E p \in RamPage : MayMap(p, w) /\ Rewritten(mem, m2, e, va, Mapped(p, w))
<1> DEFINE h == Head(mem.free)
           a == PageAlloc(mem)
<1>1. /\ mem.free # <<>> /\ MayChange(c, e)
      /\ m2 = IF CanWalk(a, e, va) THEN PageInsert(a, e, h, va, w) ELSE PageFree(a, h)
  BY DEF SysPageAlloc
<1>2. Good(mem, NULL, 0) /\ mem.pgdir[e] # NULL
  BY <1>1, InvFacts DEF MayChange
<1>3. h \in RamPage /\ (\A r \in Place : Aims(mem)[r] # h) /\ mem.pp_ref[h] = 0
      /\ a.pp_ref = mem.pp_ref /\ a.pgdir = mem.pgdir
  <2>1. 0 \in Nat
    OBVIOUS
  <2> QED
    BY <1>1, <1>2, <2>1, Taken
<1>4. Good(a, h, 0) /\ Aims(a) = Aims(mem) /\ SameEntries(mem, a)
  BY <1>1, <1>2, TakenIsGood DEF SameEntries
<1> HIDE DEF a
<1>5. CASE CanWalk(a, e, va)
  <2>1. Untabled(a, h) /\ a.pp_ref[h] < RefMod - 1 /\ a.pgdir[e] # NULL
    BY <1>2, <1>3, <1>4, Constants DEF Untabled
  <2>2. m2 = PageInsert(a, e, h, va, w)
    BY <1>1, <1>5
  <2>3. Good(m2, NULL, 0) /\ SameRoots(a, m2) /\ Rewritten(a, m2, e, va, Mapped(h, w))
    BY <1>3, <1>4, <1>5, <2>1, <2>2, InsertEffect
  <2>4. ~MappedSomewhere(h)
    BY <1>3, NowhereMapped
  <2> QED
    BY <1>3, <1>4, <2>3, <2>4 DEF MayMap, Rewritten, SameEntries, SameRoots
<1>6. CASE ~CanWalk(a, e, va)
  <2>1. m2 = PageFree(a, h)
    BY <1>1, <1>6
  <2>2. Good(m2, NULL, 0) /\ SameTables(a, m2)
    BY <1>3, <1>4, <2>1, GiveBack
  <2>3. \A e2, va2 : Pte(m2, e2, va2) = Pte(a, e2, va2)
    BY <2>2, SameAims
  <2> QED
    BY <1>3, <1>4, <2>2, <2>3 DEF SameEntries, SameTables
<1> QED
  BY <1>5, <1>6

\* sys_page_map and sys_ipc_try_send, page_lookup and page_insert.
LEMMA ShareStep ==
  ASSUME VmInv, Careful, NEW s \in Env, NEW sva \in UserVa, NEW d \in Env, NEW dva \in UserVa,
         NEW w \in BOOLEAN, ShareWith(s, sva, d, dva, w), mem.pgdir[d] # NULL,
         NEW m2, m2 = mem'
  PROVE  /\ Good(m2, NULL, 0) /\ m2.pgdir = mem.pgdir
         /\ \E p \in RamPage : MayMap(p, w) /\ Rewritten(mem, m2, d, dva, Mapped(p, w))
<1> DEFINE x == Pte(mem, s, sva)
           p == x.page
<1>1. "map_absent" \notin Careless /\ "overflow" \notin Careless
  BY DEF Careful
<1>2. /\ x.p /\ (w => x.w) /\ mem.pp_ref[p] < RefMod - 1 /\ CanWalk(mem, d, dva)
      /\ m2 = PageInsert(mem, d, p, dva, w)
  BY <1>1 DEF ShareWith, MayShare, Countable
<1>3. Good(mem, NULL, 0) /\ mem \in Memory
  BY InvFacts
<1>4. p \in RamPage /\ Good(mem, p, 0) /\ Untabled(mem, p)
  BY <1>2, <1>3, FoundPage
<1>5. x \in Entry
  BY <1>3, PteIs
<1>6. MayMap(p, w)
  <2>1. w => x = Mapped(p, TRUE)
    BY <1>2, <1>5 DEF Entry, Mapped
  <2> QED
    BY <1>4, <2>1 DEF MayMap, Writable
<1> HIDE DEF x
<1>7. Good(m2, NULL, 0) /\ SameRoots(mem, m2) /\ Rewritten(mem, m2, d, dva, Mapped(p, w))
  BY <1>2, <1>4, InsertEffect
<1> QED
  BY <1>4, <1>6, <1>7 DEF SameRoots

\* sys_page_unmap, of a present entry or of an empty one.
LEMMA UnmapStep ==
  ASSUME VmInv, Careful, NEW c \in Env, NEW e \in Env, NEW va \in UserVa,
         SysPageUnmap(c, e, va), NEW m2, m2 = mem'
  PROVE  Good(m2, NULL, 0) /\ m2.pgdir = mem.pgdir /\ Rewritten(mem, m2, e, va, Absent)
<1>1. /\ m2 = PageRemove(mem, e, va)
      /\ StrayUnmap(e, va) => "unmap_absent" \in Careless \/ Strays < MaxStray
  BY DEF SysPageUnmap
<1>2. Good(mem, NULL, 0) /\ Clean(mem) /\ mem \in Memory /\ InRam(mem) /\ Private(mem) /\ Fixed(mem)
  BY InvFacts DEF Good
<1>3. CASE Pte(mem, e, va).p
  <2>1. Pte(mem, e, va).page \in RamPage
    BY <1>2, <1>3, FoundPage
  <2>2. (Pte(mem, e, va).page = NULL => 0 > 0) /\ 0 \in Nat
    BY <2>1, Constants
  <2>3. Good(m2, NULL, 0) /\ Cleared(mem, m2, e, va)
    BY <1>1, <1>2, <1>3, <2>2, RemoveEffect
  <2> QED
    BY <2>3 DEF Cleared
<1>4. CASE ~Pte(mem, e, va).p
  <2>1. Pte(mem, e, va) = Absent
    BY <1>2, <1>4 DEF Clean
  <2>2. CASE HasTable(mem, e, va)
    <3> DEFINE m1 == SetPte(mem, e, va, Absent)
    <3>1. m2 = DecRef(m1, Zero)
      BY <1>1, <2>1, <2>2 DEF PageRemove, Absent
    <3>2. Strays < MaxStray
      BY <1>1, <1>4, <2>2 DEF StrayUnmap, Careful
    <3>3. /\ m1 \in Memory
          /\ m1.pp_ref = mem.pp_ref /\ m1.free = mem.free /\ m1.pgdir = mem.pgdir
          /\ m1.pde = mem.pde
          /\ m1.pte[KernTable] = mem.pte[KernTable]
          /\ Pte(m1, e, va) = Absent
          /\ \A e2 \in Env, va2 \in UserVa :
               <<e2, va2>> # <<e, va>> => Pte(m1, e2, va2) = Pte(mem, e2, va2)
          /\ Aims(m1)[<<e, va>>] = NULL
          /\ \A r \in Place : r # <<e, va>> => Aims(m1)[r] = Aims(mem)[r]
      BY <1>2, <2>2, EntryTypes, SetPteEffect
    <3> HIDE DEF m1
    <3>4. Aims(mem)[<<e, va>>] = NULL
      BY <1>2, <1>4, PteIs
    <3>5. Aims(m1) = Aims(mem)
      <4>1. \A r \in Place : Aims(m1)[r] = Aims(mem)[r]
        BY <3>3, <3>4
      <4> QED
        BY <4>1 DEF Aims
    <3>6. Good(m1, NULL, 0)
      <4>1. Fixed(m1)
        BY <1>2, <3>3, FixedIsKept
      <4> QED
        BY <1>2, <3>3, <3>5, <4>1 DEF Good, InRam, Private, Counted, Listed, Count
    <3>7. Good(m2, NULL, 0) /\ SameTables(m1, m2)
      <4>1. (RefMod - m1.pp_ref[Zero]) % RefMod < MaxStray
        BY <3>2, <3>3 DEF Strays
      <4> QED
        BY <3>1, <3>6, <4>1, StrayEffect
    <3>8. \A e2, va2 : Pte(m2, e2, va2) = Pte(m1, e2, va2)
      BY <3>7, SameAims
    <3> QED
      BY <3>3, <3>7, <3>8 DEF Rewritten, SameTables
  <2>3. CASE ~HasTable(mem, e, va)
    <3>1. m2 = mem
      BY <1>1, <2>3 DEF PageRemove
    <3> QED
      BY <1>2, <2>1, <3>1 DEF Rewritten
  <2> QED
    BY <2>2, <2>3
<1> QED
  BY <1>3, <1>4

\* env_create: env_setup_vm, region_alloc of the image, its page table.
LEMMA CreateStep ==
  ASSUME VmInv, NEW e \in Env, EnvCreate(e), NEW m2, m2 = mem'
  PROVE  /\ Good(m2, NULL, 0) /\ m2.pgdir[e] # NULL
         /\ \A e2 \in Env : e2 # e => m2.pgdir[e2] = mem.pgdir[e2]
         /\ \E p \in RamPage : MayMap(p, TRUE) /\ Rewritten(mem, m2, e, ImageVa, Mapped(p, TRUE))
<1> DEFINE made == EnvSetupVm(mem, e)
           h == Head(made.free)
           a == PageAlloc(made)
<1>1. Len(mem.free) >= 3 /\ env[e].status = "free" /\ m2 = PageInsert(a, e, h, ImageVa, TRUE)
  BY DEF EnvCreate
<1>2. Good(mem, NULL, 0) /\ mem.pgdir[e] = NULL /\ mem.free \in Seq(Page)
  BY <1>1, InvFacts, Fields
<1>3. mem.free # <<>> /\ Tail(mem.free) # <<>> /\ Tail(Tail(mem.free)) # <<>>
  <2> DEFINE t == Tail(mem.free)
  <2>1. t \in Seq(Page) /\ Len(t) >= 2 /\ mem.free # <<>>
    BY <1>1, <1>2
  <2> HIDE DEF t
  <2>2. t # <<>> /\ Tail(t) \in Seq(Page) /\ Len(Tail(t)) >= 1
    BY <2>1, HeadTailProperties
  <2>3. Tail(t) # <<>>
    <3>1. Len(<<>>) = 0
      OBVIOUS
    <3>2. Len(Tail(t)) # 0
      BY <2>2
    <3> QED
      BY <3>1, <3>2
  <2> QED
    BY <2>1, <2>2, <2>3 DEF t
<1>4. 0 \in Nat
  OBVIOUS
<1>5. /\ Good(made, NULL, 0) /\ made.free = Tail(mem.free)
      /\ made.pgdir[e] # NULL /\ \A e2 \in Env : e2 # e => made.pgdir[e2] = mem.pgdir[e2]
      /\ \A e2 \in Env, va2 \in UserVa : Pte(made, e2, va2) = Pte(mem, e2, va2)
  BY <1>2, <1>3, <1>4, SetupEffect
<1> HIDE DEF made
<1>6. made.free # <<>>
  BY <1>3, <1>5
<1>7. /\ h \in RamPage /\ (\A r \in Place : Aims(made)[r] # h) /\ made.pp_ref[h] = 0
      /\ a.pp_ref = made.pp_ref /\ a.pgdir = made.pgdir /\ a.free = Tail(made.free)
  <2>0. Good(made, NULL, 0) /\ made.free # <<>> /\ 0 \in Nat
    BY <1>4, <1>5, <1>6
  <2>1. h \in RamPage /\ (\A r \in Place : Aims(made)[r] # h) /\ made.pp_ref[h] = 0
    BY <2>0, Taken
  <2>2. made \in Memory
    BY <1>5 DEF Good
  <2>3. a.pp_ref = made.pp_ref /\ a.pgdir = made.pgdir /\ a.free = Tail(made.free)
    BY <2>2 DEF PageAlloc, Memory
  <2> QED
    BY <2>1, <2>3
<1>8. Good(a, h, 0) /\ Aims(a) = Aims(made) /\ SameEntries(made, a)
  BY <1>5, <1>6, TakenIsGood DEF SameEntries
<1>9. Untabled(a, h) /\ a.pp_ref[h] < RefMod - 1 /\ a.pgdir[e] # NULL /\ CanWalk(a, e, ImageVa)
  BY <1>3, <1>5, <1>7, <1>8, Constants DEF Untabled, CanWalk
<1> HIDE DEF a
<1>10. ImageVa \in UserVa /\ TRUE \in BOOLEAN
  BY VmAssumption
<1>11. Good(m2, NULL, 0) /\ SameRoots(a, m2) /\ Rewritten(a, m2, e, ImageVa, Mapped(h, TRUE))
  BY <1>1, <1>7, <1>8, <1>9, <1>10, InsertEffect
<1>12. ~MappedSomewhere(h)
  <2> SUFFICES ASSUME NEW e2 \in Env, NEW va2 \in UserVa,
                      Pte(mem, e2, va2).p, Pte(mem, e2, va2).page = h
               PROVE  FALSE
    BY DEF MappedSomewhere
  <2>1. <<e2, va2>> \in Place
    BY Sites DEF Place
  <2>2. Pte(made, e2, va2) = Pte(mem, e2, va2) /\ made \in Memory
    BY <1>5 DEF Good
  <2>3. Aims(made)[<<e2, va2>>] = h
    BY <2>2, PteIs
  <2> QED
    BY <1>7, <2>1, <2>3
<1> QED
  BY <1>5, <1>7, <1>8, <1>10, <1>11, <1>12 DEF MayMap, Rewritten, SameEntries, SameRoots

\* sys_exofork.
LEMMA ExoforkStep ==
  ASSUME VmInv, NEW e \in Env, mem.free # <<>>, env[e].status = "free",
         NEW m2, m2 = EnvSetupVm(mem, e)
  PROVE  /\ Good(m2, NULL, 0) /\ m2.pgdir[e] # NULL
         /\ \A e2 \in Env : e2 # e => m2.pgdir[e2] = mem.pgdir[e2]
         /\ SameEntries(mem, m2)
<1>1. Good(mem, NULL, 0) /\ mem.pgdir[e] = NULL
  BY InvFacts
<1>2. 0 \in Nat
  OBVIOUS
<1> QED
  BY <1>1, <1>2, SetupEffect DEF SameEntries

LEMMA FreeStep ==
  ASSUME VmInv, NEW e \in Env, EnvFree(e), NEW m2, m2 = mem'
  PROVE  /\ Good(m2, NULL, 0)
         /\ m2.pgdir[e] = NULL /\ \A e2 \in Env : e2 # e => m2.pgdir[e2] = mem.pgdir[e2]
         /\ \A va \in UserVa : Pte(m2, e, va) = Absent
         /\ \A e2 \in Env, va \in UserVa : e2 # e => Pte(m2, e2, va) = Pte(mem, e2, va)
<1>1. PICK order \in Listings(Emptied(mem, e)) : m2 = FreeVm(mem, e, order)
  BY DEF EnvFree
<1>2. Good(mem, NULL, 0)
  BY InvFacts
<1> QED
  BY <1>1, <1>2, FreeEffect

-----------------------------------------------------------------------------
(* Every action keeps the invariant and changes entries lawfully.          *)

\* The new entry of va in e is the old one, or absent, or a permitted mapping.
Granted(m2, e, va) ==
  \/ Pte(m2, e, va) = Pte(mem, e, va)
  \/ ~Pte(m2, e, va).p
  \/ \E p \in RamPage, w \in BOOLEAN : MayMap(p, w) /\ Pte(m2, e, va) = Mapped(p, w)

Asleep(e) == env[e].status = "blocked" /\ env[e].parent = NULL

\* An entry of a sleeping orphan changes only as it offered.
Invited(m2, env2, e, va) ==
  Asleep(e) /\ Pte(m2, e, va) # Pte(mem, e, va) =>
    va = env[e].dstva /\ env2[e].status = "ready" /\ env2[e].dstva = NULL

Lawful(m2, env2) ==
  \A e \in Env, va \in UserVa : Granted(m2, e, va) /\ Invited(m2, env2, e, va)

SameIsFree(m2, env2) == \A e \in Env : env2[e].status = "free" <=> m2.pgdir[e] = NULL

\* One rewritten entry, of an environment that is not a sleeping orphan or has
\* offered that address.
LEMMA RewriteIsLawful ==
  ASSUME VmInv, NEW m2, NEW env2, NEW e \in Env, NEW va \in UserVa, NEW x,
         Rewritten(mem, m2, e, va, x),
         x = Absent \/ \E p \in RamPage, w \in BOOLEAN : MayMap(p, w) /\ x = Mapped(p, w),
         Asleep(e) => va = env[e].dstva /\ env2[e].status = "ready" /\ env2[e].dstva = NULL
  PROVE  Clean(m2) /\ Lawful(m2, env2)
<1>1. x.p \/ x = Absent
  BY EntryTypes, Constants
<1>2. Clean(m2)
  BY <1>1, InvFacts, RewrittenIsClean
<1>3. ASSUME NEW e2 \in Env, NEW va2 \in UserVa
      PROVE  Granted(m2, e2, va2) /\ Invited(m2, env2, e2, va2)
  <2>1. CASE <<e2, va2>> = <<e, va>>
    <3>1. e2 = e /\ va2 = va /\ Pte(m2, e2, va2) = x /\ ~Absent.p
      BY <2>1, EntryTypes DEF Rewritten
    <3> QED
      BY <3>1 DEF Granted, Invited
  <2>2. CASE <<e2, va2>> # <<e, va>>
    BY <2>2 DEF Rewritten, Granted, Invited
  <2> QED
    BY <2>1, <2>2
<1> QED
  BY <1>2, <1>3 DEF Lawful

LEMMA SameIsLawful ==
  ASSUME VmInv, NEW m2, NEW env2, SameEntries(mem, m2)
  PROVE  Clean(m2) /\ Lawful(m2, env2)
  BY InvFacts, SameIsClean DEF SameEntries, Lawful, Granted, Invited

\* What an action has to show.
Sound == VmInv' /\ Lawful(mem', env')

LEMMA SoundIf ==
  ASSUME NEW m2, m2 = mem', Good(m2, NULL, 0), Clean(m2), env' \in [Env -> EnvRec],
         booted' \in BOOLEAN, SameIsFree(m2, env'), Lawful(m2, env')
  PROVE  Sound
<1>1. (mem \in Memory)' /\ Good(mem, NULL, 0)'
  BY DEF Good
<1>2. TypeOK'
  BY <1>1 DEF TypeOK, SameIsFree
<1>3. VmInv'
  BY <1>1, <1>2 DEF VmInv
<1> QED
  BY <1>3 DEF Sound

\* The memory stays as it is.
LEMMA EnvOnly ==
  ASSUME VmInv, UNCHANGED mem, env' \in [Env -> EnvRec], booted' \in BOOLEAN,
         \A e \in Env : env'[e].status = "free" <=> env[e].status = "free"
  PROVE  Sound
<1> DEFINE m2 == mem'
<1>1. m2 = mem
  OBVIOUS
<1> HIDE DEF m2
<1>2. Good(m2, NULL, 0) /\ SameEntries(mem, m2)
  BY <1>1, InvFacts DEF SameEntries
<1>3. Clean(m2) /\ Lawful(m2, env')
  BY <1>2, SameIsLawful
<1>4. SameIsFree(m2, env')
  BY <1>1, InvFacts DEF SameIsFree
<1> QED
  BY <1>2, <1>3, <1>4, SoundIf DEF m2

LEMMA EnvFacts ==
  ASSUME VmInv
  PROVE  /\ env \in [Env -> EnvRec] /\ booted \in BOOLEAN /\ FreeSlot \in EnvRec
         /\ \A e \in Env : /\ env[e].status \in {"free", "dying", "ready", "blocked"}
                           /\ env[e].parent \in Env \cup {NULL}
                           /\ env[e].dstva \in UserVa \cup {UTOP, NULL}
                           /\ env[e].status = "free" <=> mem.pgdir[e] = NULL
  BY DEF VmInv, TypeOK, EnvRec, FreeSlot

LEMMA StartUsersSound == ASSUME VmInv, StartUsers PROVE Sound
<1>1. UNCHANGED <<mem, env>> /\ booted' = TRUE
  BY DEF StartUsers
<1> QED
  BY <1>1, EnvFacts, EnvOnly

LEMMA SetStatusSound ==
  ASSUME VmInv, NEW c \in Env, NEW e \in Env, NEW st \in {"ready", "blocked"},
         SysEnvSetStatus(c, e, st)
  PROVE  Sound
<1>1. UNCHANGED <<mem, booted>> /\ env' = [env EXCEPT ![e].status = st] /\ env[e].status # "free"
  BY DEF SysEnvSetStatus, MayChange
<1>2. env' \in [Env -> EnvRec]
  BY <1>1, EnvFacts DEF EnvRec
<1>3. \A x \in Env : env'[x].status = "free" <=> env[x].status = "free"
  BY <1>1, EnvFacts DEF EnvRec
<1> QED
  BY <1>1, <1>2, <1>3, EnvFacts, EnvOnly

LEMMA RecvSound ==
  ASSUME VmInv, NEW c \in Env, NEW dstva \in UserVa \cup {UTOP}, SysIpcRecv(c, dstva)
  PROVE  Sound
<1>1. /\ UNCHANGED <<mem, booted>> /\ env[c].status = "ready"
      /\ env' = [env EXCEPT ![c].status = "blocked", ![c].dstva = dstva]
  BY DEF SysIpcRecv, Running
<1>2. env' \in [Env -> EnvRec]
  <2>1. env' = [env EXCEPT ![c] = [env[c] EXCEPT !.status = "blocked", !.dstva = dstva]]
    BY <1>1, EnvFacts
  <2>2. [env[c] EXCEPT !.status = "blocked", !.dstva = dstva] \in EnvRec
    BY EnvFacts DEF EnvRec
  <2> QED
    BY <2>1, <2>2, EnvFacts
<1>3. \A x \in Env : env'[x].status = "free" <=> env[x].status = "free"
  BY <1>1, EnvFacts DEF EnvRec
<1> QED
  BY <1>1, <1>2, <1>3, EnvFacts, EnvOnly

\* env_free, of an environment that is not a sleeping orphan.
LEMMA FreeSound ==
  ASSUME VmInv, NEW e \in Env, EnvFree(e), ~Asleep(e)
  PROVE  Sound
<1> DEFINE m2 == mem'
<1>1. /\ Good(m2, NULL, 0)
      /\ m2.pgdir[e] = NULL /\ \A e2 \in Env : e2 # e => m2.pgdir[e2] = mem.pgdir[e2]
      /\ \A va \in UserVa : Pte(m2, e, va) = Absent
      /\ \A e2 \in Env, va \in UserVa : e2 # e => Pte(m2, e2, va) = Pte(mem, e2, va)
  BY FreeStep
<1>2. /\ env' = [x \in Env |-> IF x = e THEN FreeSlot
                               ELSE IF env[x].parent = e THEN [env[x] EXCEPT !.parent = NULL]
                               ELSE env[x]]
      /\ booted' = booted
  BY DEF EnvFree
<1> HIDE DEF m2
<1>3. env' \in [Env -> EnvRec]
  BY <1>2, EnvFacts DEF EnvRec
<1>4. \A x \in Env : x # e => env'[x].status = env[x].status
  BY <1>2, EnvFacts DEF EnvRec
<1>5. env'[e].status = "free"
  BY <1>2 DEF FreeSlot
<1>6. SameIsFree(m2, env')
  BY <1>1, <1>4, <1>5, EnvFacts DEF SameIsFree
<1>7. Clean(m2)
  BY <1>1, InvFacts DEF Clean
<1>8. Lawful(m2, env')
  <2> SUFFICES ASSUME NEW x \in Env, NEW va \in UserVa
               PROVE  Granted(m2, x, va) /\ Invited(m2, env', x, va)
    BY DEF Lawful
  <2>1. CASE x = e
    <3>1. ~Pte(m2, x, va).p
      BY <1>1, <2>1, EntryTypes
    <3> QED
      BY <2>1, <3>1 DEF Granted, Invited
  <2>2. CASE x # e
    BY <1>1, <2>2 DEF Granted, Invited
  <2> QED
    BY <2>1, <2>2
<1> QED
  BY <1>1, <1>2, <1>3, <1>6, <1>7, <1>8, EnvFacts, SoundIf DEF m2

LEMMA DestroySound ==
  ASSUME VmInv, NEW c \in Env, NEW e \in Env, SysEnvDestroy(c, e)
  PROVE  Sound
<1>1. Running(c) /\ MayChange(c, e)
  BY DEF SysEnvDestroy
<1>2. CASE EnvFree(e)
  <2>1. ~Asleep(e)
    BY <1>1, VmAssumption DEF Asleep, Running, MayChange
  <2> QED
    BY <1>2, <2>1, FreeSound
<1>3. CASE /\ e # c /\ env[e].status = "ready"
           /\ env' = [env EXCEPT ![e].status = "dying"]
           /\ UNCHANGED <<mem, booted>>
  <2>1. env' \in [Env -> EnvRec]
    BY <1>3, EnvFacts DEF EnvRec
  <2>2. \A x \in Env : env'[x].status = "free" <=> env[x].status = "free"
    BY <1>3, EnvFacts DEF EnvRec
  <2> QED
    BY <1>3, <2>1, <2>2, EnvFacts, EnvOnly
<1> QED
  BY <1>2, <1>3 DEF SysEnvDestroy

LEMMA ReapSound ==
  ASSUME VmInv, NEW e \in Env, ReapZombie(e)
  PROVE  Sound
<1>1. EnvFree(e) /\ ~Asleep(e)
  BY DEF ReapZombie, Asleep
<1> QED
  BY <1>1, FreeSound

LEMMA CreateSound ==
  ASSUME VmInv, NEW e \in Env, EnvCreate(e)
  PROVE  Sound
<1> DEFINE m2 == mem'
<1>1. /\ env[e].status = "free" /\ booted' = booted
      /\ env' = [env EXCEPT ![e] = [FreeSlot EXCEPT !.status = "ready"]]
  BY DEF EnvCreate
<1>2. /\ Good(m2, NULL, 0) /\ m2.pgdir[e] # NULL
      /\ \A e2 \in Env : e2 # e => m2.pgdir[e2] = mem.pgdir[e2]
      /\ \E p \in RamPage : MayMap(p, TRUE) /\ Rewritten(mem, m2, e, ImageVa, Mapped(p, TRUE))
  BY CreateStep
<1> HIDE DEF m2
<1>3. PICK p \in RamPage : MayMap(p, TRUE) /\ Rewritten(mem, m2, e, ImageVa, Mapped(p, TRUE))
  BY <1>2
<1>4. ImageVa \in UserVa /\ ~Asleep(e) /\ TRUE \in BOOLEAN
  BY <1>1, VmAssumption DEF Asleep
<1>5. Clean(m2) /\ Lawful(m2, env')
  BY <1>3, <1>4, RewriteIsLawful
<1>6. env' \in [Env -> EnvRec] /\ env'[e].status = "ready"
  BY <1>1, EnvFacts DEF EnvRec, FreeSlot
<1>7. \A x \in Env : x # e => env'[x] = env[x]
  BY <1>1, EnvFacts
<1>8. SameIsFree(m2, env')
  BY <1>2, <1>6, <1>7, EnvFacts DEF SameIsFree
<1> QED
  BY <1>1, <1>2, <1>5, <1>6, <1>8, EnvFacts, SoundIf DEF m2

LEMMA ExoforkSound ==
  ASSUME VmInv, NEW c \in Env, SysExofork(c)
  PROVE  Sound
<1> DEFINE m2 == mem'
<1>1. PICK e \in Env :
        /\ env[e].status = "free" /\ m2 = EnvSetupVm(mem, e)
        /\ env' = [env EXCEPT ![e] = [status |-> "blocked", parent |-> c, dstva |-> NULL]]
  BY DEF SysExofork
<1>2. mem.free # <<>> /\ booted' = booted
  BY DEF SysExofork
<1> HIDE DEF m2
<1>3. /\ Good(m2, NULL, 0) /\ m2.pgdir[e] # NULL
      /\ \A e2 \in Env : e2 # e => m2.pgdir[e2] = mem.pgdir[e2]
      /\ SameEntries(mem, m2)
  BY <1>1, <1>2, ExoforkStep
<1>4. Clean(m2) /\ Lawful(m2, env')
  BY <1>3, SameIsLawful
<1>5. env' \in [Env -> EnvRec] /\ env'[e].status = "blocked"
  BY <1>1, EnvFacts DEF EnvRec
<1>6. \A x \in Env : x # e => env'[x] = env[x]
  BY <1>1, EnvFacts
<1>7. SameIsFree(m2, env')
  BY <1>3, <1>5, <1>6, EnvFacts DEF SameIsFree
<1> QED
  BY <1>2, <1>3, <1>4, <1>5, <1>7, EnvFacts, SoundIf DEF m2

\* The three calls on mappings leave the environment table alone.
LEMMA MapIsSound ==
  ASSUME VmInv, NEW c \in Env, NEW e \in Env, NEW va \in UserVa, NEW x,
         Running(c), MayChange(c, e), UNCHANGED <<env, booted>>,
         NEW m2, m2 = mem', Good(m2, NULL, 0), m2.pgdir = mem.pgdir,
         \/ SameEntries(mem, m2)
         \/ /\ Rewritten(mem, m2, e, va, x)
            /\ x = Absent \/ \E p \in RamPage, w \in BOOLEAN : MayMap(p, w) /\ x = Mapped(p, w)
  PROVE  Sound
<1>1. ~Asleep(e)
  BY VmAssumption DEF Asleep, Running, MayChange
<1>2. Clean(m2) /\ Lawful(m2, env')
  BY <1>1, SameIsLawful, RewriteIsLawful
<1>3. SameIsFree(m2, env')
  BY EnvFacts DEF SameIsFree
<1> QED
  BY <1>2, <1>3, EnvFacts, SoundIf

LEMMA AllocSound ==
  ASSUME VmInv, NEW c \in Env, NEW e \in Env, NEW va \in UserVa, NEW w \in BOOLEAN,
         SysPageAlloc(c, e, va, w)
  PROVE  Sound
<1> DEFINE m2 == mem'
<1>1. Running(c) /\ MayChange(c, e) /\ UNCHANGED <<env, booted>>
  BY DEF SysPageAlloc
<1>2. /\ Good(m2, NULL, 0) /\ m2.pgdir = mem.pgdir
      /\ \/ SameEntries(mem, m2)
         \/ \E p \in RamPage : MayMap(p, w) /\ Rewritten(mem, m2, e, va, Mapped(p, w))
  BY AllocStep
<1> HIDE DEF m2
<1>3. CASE SameEntries(mem, m2)
  BY <1>1, <1>2, <1>3, MapIsSound DEF m2
<1>4. ASSUME NEW p \in RamPage, MayMap(p, w), Rewritten(mem, m2, e, va, Mapped(p, w))
      PROVE  Sound
  <2>1. \E q \in RamPage, v \in BOOLEAN : MayMap(q, v) /\ Mapped(p, w) = Mapped(q, v)
    BY <1>4
  <2> QED
    BY <1>1, <1>2, <1>4, <2>1, MapIsSound DEF m2
<1> QED
  BY <1>2, <1>3, <1>4

LEMMA PageMapSound ==
  ASSUME VmInv, Careful, NEW c \in Env, NEW s \in Env, NEW sva \in UserVa, NEW d \in Env,
         NEW dva \in UserVa, NEW w \in BOOLEAN, SysPageMap(c, s, sva, d, dva, w)
  PROVE  Sound
<1> DEFINE m2 == mem'
<1>1. /\ Running(c) /\ MayChange(c, d) /\ ShareWith(s, sva, d, dva, w)
      /\ UNCHANGED <<env, booted>> /\ mem.pgdir[d] # NULL
  BY EnvFacts DEF SysPageMap, MayChange
<1>2. /\ Good(m2, NULL, 0) /\ m2.pgdir = mem.pgdir
      /\ \E p \in RamPage : MayMap(p, w) /\ Rewritten(mem, m2, d, dva, Mapped(p, w))
  BY <1>1, ShareStep
<1> HIDE DEF m2
<1>3. PICK p \in RamPage : MayMap(p, w) /\ Rewritten(mem, m2, d, dva, Mapped(p, w))
  BY <1>2
<1>4. \E q \in RamPage, v \in BOOLEAN : MayMap(q, v) /\ Mapped(p, w) = Mapped(q, v)
  BY <1>3
<1> QED
  BY <1>1, <1>2, <1>3, <1>4, MapIsSound DEF m2

LEMMA UnmapSound ==
  ASSUME VmInv, Careful, NEW c \in Env, NEW e \in Env, NEW va \in UserVa, SysPageUnmap(c, e, va)
  PROVE  Sound
<1> DEFINE m2 == mem'
<1>1. Running(c) /\ MayChange(c, e) /\ UNCHANGED <<env, booted>>
  BY DEF SysPageUnmap
<1>2. Good(m2, NULL, 0) /\ m2.pgdir = mem.pgdir /\ Rewritten(mem, m2, e, va, Absent)
  BY UnmapStep
<1> HIDE DEF m2
<1> QED
  BY <1>1, <1>2, MapIsSound DEF m2

LEMMA SendSound ==
  ASSUME VmInv, Careful, NEW c \in Env, NEW e \in Env, NEW srcva \in UserVa \cup {UTOP},
         NEW w \in BOOLEAN, SysIpcTrySend(c, e, srcva, w)
  PROVE  Sound
<1> DEFINE m2 == mem'
<1>1. /\ env[e].status # "free" /\ env[e].dstva # NULL /\ booted' = booted
      /\ env' = [env EXCEPT ![e].status = "ready", ![e].dstva = NULL]
  BY DEF SysIpcTrySend, Receiving
<1>2. /\ env' \in [Env -> EnvRec] /\ env'[e].status = "ready" /\ env'[e].dstva = NULL
      /\ \A x \in Env : x # e => env'[x] = env[x]
  BY <1>1, EnvFacts DEF EnvRec
<1>3. CASE UNCHANGED mem
  BY <1>1, <1>2, <1>3, EnvFacts, EnvOnly
<1>4. CASE srcva # UTOP /\ ShareWith(c, srcva, e, env[e].dstva, w) /\ env[e].dstva # UTOP
  <2>1. srcva \in UserVa /\ env[e].dstva \in UserVa /\ mem.pgdir[e] # NULL
    BY <1>1, <1>4, EnvFacts
  <2>2. /\ Good(m2, NULL, 0) /\ m2.pgdir = mem.pgdir
        /\ \E p \in RamPage : MayMap(p, w) /\ Rewritten(mem, m2, e, env[e].dstva, Mapped(p, w))
    BY <1>4, <2>1, ShareStep
  <2> HIDE DEF m2
  <2>3. PICK p \in RamPage : MayMap(p, w) /\ Rewritten(mem, m2, e, env[e].dstva, Mapped(p, w))
    BY <2>2
  <2>4. \E q \in RamPage, v \in BOOLEAN : MayMap(q, v) /\ Mapped(p, w) = Mapped(q, v)
    BY <2>3
  <2>5. Clean(m2) /\ Lawful(m2, env')
    BY <1>2, <2>1, <2>3, <2>4, RewriteIsLawful
  <2>6. SameIsFree(m2, env')
    BY <1>1, <1>2, <2>2, EnvFacts DEF SameIsFree
  <2> QED
    BY <1>1, <1>2, <2>2, <2>5, <2>6, EnvFacts, SoundIf DEF m2
<1>5. UNCHANGED mem \/ (srcva # UTOP /\ ShareWith(c, srcva, e, env[e].dstva, w) /\ env[e].dstva # UTOP)
  BY DEF SysIpcTrySend, Careful
<1> QED
  BY <1>3, <1>4, <1>5

LEMMA StepSound ==
  ASSUME VmInv, Careful, Next
  PROVE  Sound
<1>1. ASSUME NEW c \in Env, NEW e \in Env, MapCall(c, e) PROVE Sound
  BY <1>1, AllocSound, PageMapSound, UnmapSound DEF MapCall, BelowUTOP
<1>2. ASSUME NEW c \in Env, IpcCall(c) PROVE Sound
  BY <1>2, RecvSound, SendSound DEF IpcCall
<1> QED
  BY <1>1, <1>2, StartUsersSound, CreateSound, ReapSound, ExoforkSound, DestroySound,
     SetStatusSound DEF Next

-----------------------------------------------------------------------------
(* The theorems.                                                           *)

LEMMA Invariance ==
  ASSUME Careful
  PROVE  Spec => []VmInv
<1>1. VmInv /\ [Next]_vars => VmInv'
  <2> SUFFICES ASSUME VmInv, [Next]_vars PROVE VmInv'
    OBVIOUS
  <2>1. CASE Next
    BY <2>1, StepSound DEF Sound
  <2>2. CASE UNCHANGED vars
    <3>1. mem' = mem /\ env' = env /\ booted' = booted
      BY <2>2 DEF vars
    <3>2. /\ env' \in [Env -> EnvRec] /\ booted' \in BOOLEAN
          /\ \A e \in Env : env'[e].status = "free" <=> env[e].status = "free"
      BY <3>1, EnvFacts
    <3> QED
      BY <3>1, <3>2, EnvOnly DEF Sound
  <2> QED
    BY <2>1, <2>2
<1> QED
  BY <1>1, InitIsGood, PTL DEF Spec

\* Whatever the environments do, the page tables, the reference counts and the
\* environment table stay what their types say, and an environment has a page
\* directory exactly while its slot is in use (env_setup_vm, env_free).
THEOREM MemoryTypes ==
  ASSUME Careful
  PROVE  Spec => []TypeOK
<1>1. VmInv => TypeOK
  BY DEF VmInv
<1> QED
  BY <1>1, Invariance, PTL

\* pp_ref of a page is the number of directories, directory entries and page
\* table entries that refer to it: page_insert, page_remove, pgdir_walk,
\* env_setup_vm and env_free count right together, for any number of pages.
THEOREM CountsAreExact ==
  ASSUME Careful
  PROVE  Spec => []RefCountExact
<1>1. VmInv => RefCountExact
  <2> SUFFICES ASSUME VmInv, NEW p \in RamPage
               PROVE  mem.pp_ref[p] = Cardinality(Refs(p))
    BY DEF RefCountExact
  <2>1. mem.pp_ref[p] = Count(mem, p) + (IF p = NULL THEN 0 ELSE 0) /\ Count(mem, p) \in Nat
    BY CountType DEF VmInv, Good, Counted
  <2>2. p \in Page
    BY Constants
  <2>3. \A r \in Place : Refers(mem, r[1], r[2], p) <=> Aims(mem)[r] = p
    BY <2>2, RefersIsAim
  <2>4. Refs(p) = Pointing(Place, Aims(mem), p)
    BY <2>3 DEF Refs, Pointing, Place
  <2> QED
    BY <2>1, <2>4 DEF Count
<1> QED
  BY <1>1, Invariance, PTL

\* page_free_list holds exactly the pages without a reference, each once: no
\* page is lost, freed twice, or free while it is mapped.
THEOREM FreeListIsExact ==
  ASSUME Careful
  PROVE  Spec => []FreeListExact
<1>1. VmInv => FreeListExact
  <2> SUFFICES ASSUME VmInv PROVE FreeListExact
    OBVIOUS
  <2>1. /\ Distinct(mem.free)
        /\ Elems(mem.free) = {p \in RamPage : p # NULL /\ \A r \in Place : Aims(mem)[r] # p}
    BY DEF VmInv, Good, Listed
  <2>2. ASSUME NEW p \in RamPage
        PROVE  mem.pp_ref[p] = 0 <=> \A r \in Place : Aims(mem)[r] # p
    <3>1. mem.pp_ref[p] = Count(mem, p) + (IF p = NULL THEN 0 ELSE 0) /\ Count(mem, p) \in Nat
      BY CountType DEF VmInv, Good, Counted
    <3> QED
      BY <3>1, CountType
  <2>3. Elems(mem.free) = {p \in RamPage : mem.pp_ref[p] = 0}
    BY <2>1, <2>2, Constants
  <2> QED
    BY <2>1, <2>3 DEF FreeListExact, Distinct, Elems
<1> QED
  BY <1>1, Invariance, PTL

\* A page directory or page table has its one use: no environment reaches one
\* through a mapping, its own or another's.
THEOREM TablesArePrivate ==
  ASSUME Careful
  PROVE  Spec => []TablesPrivate
<1>1. VmInv => TablesPrivate
  <2> SUFFICES ASSUME VmInv, NEW p \in Structural \ {NULL, Zero}
               PROVE  p \in RamPage /\ Cardinality(Refs(p)) = 1
    BY DEF TablesPrivate
  <2>1. InRam(mem) /\ Private(mem) /\ mem \in Memory
    BY InvFacts
  <2>2. PICK r \in Place : IsTable(r) /\ Aims(mem)[r] = p
    <3>1. ASSUME NEW e \in Env, p = mem.pgdir[e] PROVE \E r \in Place : IsTable(r) /\ Aims(mem)[r] = p
      <4>1. <<e, RootSite>> \in Place /\ IsTable(<<e, RootSite>>) /\ Aims(mem)[<<e, RootSite>>] = p
        BY <3>1, AimCases, Sites DEF Place, IsTable
      <4> QED
        BY <4>1
    <3>2. ASSUME NEW e \in Env, NEW d \in UserPdx, p = mem.pde[e][d]
          PROVE  \E r \in Place : IsTable(r) /\ Aims(mem)[r] = p
      <4>1. DirSite(d) \in Site /\ DirSite(d)[1] = d /\ DirSite(d)[2] = NPTX
        BY Sites
      <4>2. <<e, DirSite(d)>> \in Place /\ IsTable(<<e, DirSite(d)>>)
        BY <4>1 DEF Place, IsTable
      <4>3. Aims(mem)[<<e, DirSite(d)>>] = p
        BY <3>2, <4>1, AimCases
      <4> QED
        BY <4>2, <4>3
    <3> QED
      BY <3>1, <3>2 DEF Structural
  <2>3. p \in RamPage
    BY <2>1, <2>2 DEF InRam
  <2>4. p \in Page /\ p # NULL
    BY <2>3, Constants
  <2>5. \A r2 \in Place : Refers(mem, r2[1], r2[2], p) <=> r2 = r
    BY <2>1, <2>2, <2>4, RefersIsAim DEF Private
  <2>6. Refs(p) = {r}
    BY <2>5 DEF Refs, Place
  <2> QED
    BY <2>3, <2>6, FS_Singleton
<1> QED
  BY <1>1, Invariance, PTL

\* No system call reaches the read-only mapping of envs at UENVS, which every
\* environment reads thisenv through.
THEOREM KernelHalfIsIntact ==
  ASSUME Careful
  PROVE  Spec => []KernelHalfIntact
<1>1. VmInv => KernelHalfIntact
  BY DEF VmInv, Good, Fixed, KernelHalfIntact
<1> QED
  BY <1>1, Invariance, PTL

\* No chain of sys_page_map and sys_ipc_try_send makes a page writable that is
\* mapped, and nowhere writable, before it has been free again.
THEOREM WritesAreNotRegained ==
  ASSUME Careful
  PROVE  Spec => NoWriteRegained
<1>1. VmInv /\ [Next]_vars =>
        [\A p \in RamPage : MappedSomewhere(p) /\ ~Writable(p) => ~Writable(p)']_vars
  <2> SUFFICES ASSUME VmInv, Next, NEW p \in RamPage, MappedSomewhere(p), ~Writable(p)
               PROVE  ~Writable(p)'
    OBVIOUS
  <2>1. Lawful(mem', env')
    BY StepSound DEF Sound
  <2>2. SUFFICES ASSUME NEW e \in Env, NEW va \in UserVa, Pte(mem', e, va) = Mapped(p, TRUE)
                 PROVE  FALSE
    BY DEF Writable
  <2>3. Granted(mem', e, va)
    BY <2>1 DEF Lawful
  <2>4. Pte(mem, e, va) # Mapped(p, TRUE)
    BY DEF Writable
  <2>5. Mapped(p, TRUE).p /\ Mapped(p, TRUE).page = p /\ Mapped(p, TRUE).w = TRUE
    BY DEF Mapped
  <2>6. PICK q \in RamPage, w \in BOOLEAN : MayMap(q, w) /\ Pte(mem', e, va) = Mapped(q, w)
    BY <2>2, <2>3, <2>4, <2>5 DEF Granted
  <2>7. q = p /\ w = TRUE
    BY <2>2, <2>5, <2>6 DEF Mapped
  <2> QED
    BY <2>6, <2>7 DEF MayMap
<1> QED
  BY <1>1, Invariance, PTL DEF Spec, NoWriteRegained

\* The memory of an environment that sleeps in sys_ipc_recv and has no parent
\* changes only at the address it offered, in the step that wakes it.
THEOREM SleepersAreAlone ==
  ASSUME Careful
  PROVE  Spec => OnlyWhereInvited
<1> DEFINE Rule == \A e \in Env :
             env[e].status = "blocked" /\ env[e].parent = NULL =>
               \A va \in UserVa :
                 Pte(mem, e, va)' # Pte(mem, e, va) =>
                   va = env[e].dstva /\ env'[e].status = "ready" /\ env'[e].dstva = NULL
<1>1. VmInv /\ [Next]_vars => [Rule]_vars
  <2> SUFFICES ASSUME VmInv, Next PROVE Rule
    OBVIOUS
  <2>1. Lawful(mem', env')
    BY StepSound DEF Sound
  <2> QED
    BY <2>1 DEF Lawful, Invited, Asleep
<1> QED
  BY <1>1, Invariance, PTL DEF Spec, OnlyWhereInvited

-----------------------------------------------------------------------------
(* Several CPUs (VmSmp): why flushing the TLB of one is enough.  A system  *)
(* call changes the mappings of its caller, whose CPU reloads cr3 before   *)
(* it returns, or of an environment that runs on no CPU; what runs         *)
(* elsewhere keeps its entries.                                            *)


\* Programs have none of the habits.
Polite == Careless = {}

\* Who may run has no offer to receive open, so that no message comes for it.
Quiet == \A e \in Env : env[e].status \in {"ready", "dying"} => env[e].dstva = NULL

SmpInv ==
  /\ VmInv /\ Quiet /\ TlbCoherent
  /\ tlb \in [CPU -> SUBSET (UserVa \X Entry)]

Busy(d) == env[d].status \in {"ready", "dying"}

\* The step leaves d running as it was.
Kept(d) == Busy(d)' /\ \A va \in UserVa : Pte(mem', d, va) = Pte(mem, d, va)

\* What a step of VmSmp has to show of the part of the state that Vm has.
SoundFor(k) == Sound /\ Quiet' /\ \A d \in Env : Elsewhere(k, d) /\ cur[k] # d => Kept(d)

LEMMA RewrittenKeeps ==
  ASSUME NEW m, NEW m2, NEW e \in Env, NEW va \in UserVa, NEW x, Rewritten(m, m2, e, va, x),
         NEW d \in Env, d # e
  PROVE  \A a \in UserVa : Pte(m2, d, a) = Pte(m, d, a)
  BY DEF Rewritten

\* The calls on mappings change entries of e alone.
LEMMA MapCallEffect ==
  ASSUME VmInv, Careful, NEW c \in Env, NEW e \in Env, MapCall(c, e)
  PROVE  /\ Sound /\ UNCHANGED env
         /\ \A d \in Env : d # e => \A va \in UserVa : Pte(mem', d, va) = Pte(mem, d, va)
<1> DEFINE m2 == mem'
           Goal == \A d \in Env : d # e => \A va \in UserVa : Pte(m2, d, va) = Pte(mem, d, va)
<1>1. ASSUME NEW va \in UserVa, SysPageUnmap(c, e, va) PROVE Goal /\ Sound /\ UNCHANGED env
  <2>1. Rewritten(mem, m2, e, va, Absent)
    BY <1>1, UnmapStep
  <2> HIDE DEF m2
  <2>2. Goal
    BY <2>1, RewrittenKeeps
  <2> QED
    BY <1>1, <2>2, UnmapSound DEF SysPageUnmap
<1>2. ASSUME NEW va \in UserVa, NEW w \in BOOLEAN, SysPageAlloc(c, e, va, w)
      PROVE  Goal /\ Sound /\ UNCHANGED env
  <2>1. \/ SameEntries(mem, m2)
        \/ \E p \in RamPage : MayMap(p, w) /\ Rewritten(mem, m2, e, va, Mapped(p, w))
    BY <1>2, AllocStep
  <2> HIDE DEF m2
  <2>2. Goal
    BY <2>1, RewrittenKeeps DEF SameEntries
  <2> QED
    BY <1>2, <2>2, AllocSound DEF SysPageAlloc
<1>3. ASSUME NEW s \in Env, NEW sva \in UserVa, NEW dva \in UserVa, NEW w \in BOOLEAN,
             SysPageMap(c, s, sva, e, dva, w)
      PROVE  Goal /\ Sound /\ UNCHANGED env
  <2>1. ShareWith(s, sva, e, dva, w) /\ mem.pgdir[e] # NULL
    BY <1>3, EnvFacts DEF SysPageMap, MayChange
  <2>2. \E p \in RamPage : MayMap(p, w) /\ Rewritten(mem, m2, e, dva, Mapped(p, w))
    BY <2>1, ShareStep
  <2> HIDE DEF m2
  <2>3. Goal
    BY <2>2, RewrittenKeeps
  <2> QED
    BY <1>3, <2>3, PageMapSound DEF SysPageMap
<1> QED
  BY <1>1, <1>2, <1>3 DEF MapCall, BelowUTOP

LEMMA EnvFreeEffect ==
  ASSUME VmInv, NEW e \in Env, EnvFree(e)
  PROVE  /\ \A d \in Env : d # e => /\ env'[d].status = env[d].status
                                    /\ env'[d].dstva = env[d].dstva
                                    /\ \A va \in UserVa : Pte(mem', d, va) = Pte(mem, d, va)
         /\ env'[e].status = "free"
<1>1. env' = [x \in Env |-> IF x = e THEN FreeSlot
                            ELSE IF env[x].parent = e THEN [env[x] EXCEPT !.parent = NULL]
                            ELSE env[x]]
  BY DEF EnvFree
<1>2. \A d \in Env : d # e => env'[d].status = env[d].status /\ env'[d].dstva = env[d].dstva
  BY <1>1, EnvFacts DEF EnvRec
<1>3. env'[e].status = "free"
  BY <1>1 DEF FreeSlot
<1>4. \A d \in Env, va \in UserVa : d # e => Pte(mem', d, va) = Pte(mem, d, va)
  BY FreeStep
<1> QED
  BY <1>2, <1>3, <1>4

-----------------------------------------------------------------------------
(* System calls and traps.                                                 *)

LEMMA SmpFacts ==
  ASSUME SmpInv
  PROVE  /\ VmInv /\ Quiet /\ TypeOK /\ cur \in [CPU -> Env \cup {NULL}]
         /\ NULL \notin Env /\ env \in [Env -> EnvRec]
         /\ tlb \in [CPU -> SUBSET (UserVa \X Entry)]
         /\ \A k \in CPU : cur[k] # NULL => Busy(cur[k]) /\ ~Elsewhere(k, cur[k])
         /\ \A k \in CPU, d \in Env : Elsewhere(k, d) => Busy(d)
  BY VmAssumption DEF SmpInv, TlbCoherent, SmpTypeOK, Busy, Elsewhere, TypeOK

\* Nothing that Vm knows of changes.
LEMMA SameIsSound ==
  ASSUME SmpInv, NEW k \in CPU, UNCHANGED vars
  PROVE  SoundFor(k)
<1>1. UNCHANGED <<mem, env, booted>>
  BY DEF vars
<1>2. Sound
  BY <1>1, SmpFacts, EnvFacts, EnvOnly
<1>3. Quiet'
  BY <1>1, SmpFacts DEF Quiet
<1>4. \A d \in Env : Elsewhere(k, d) => Kept(d)
  BY <1>1, SmpFacts DEF Kept, Busy
<1> QED
  BY <1>2, <1>3, <1>4 DEF SoundFor

\* env_free of an environment that runs on no other CPU.
LEMMA SmpFree ==
  ASSUME SmpInv, NEW k \in CPU, NEW e \in Env, EnvFree(e), ~Elsewhere(k, e), Sound
  PROVE  SoundFor(k)
<1>1. /\ \A d \in Env : d # e => /\ env'[d].status = env[d].status
                                 /\ env'[d].dstva = env[d].dstva
                                 /\ \A va \in UserVa : Pte(mem', d, va) = Pte(mem, d, va)
      /\ env'[e].status = "free"
  BY SmpFacts, EnvFreeEffect
<1>2. Quiet'
  BY <1>1, SmpFacts DEF Quiet
<1>3. \A d \in Env : Elsewhere(k, d) => Kept(d)
  BY <1>1, SmpFacts DEF Kept, Busy
<1> QED
  BY <1>2, <1>3 DEF SoundFor

LEMMA SmpKill ==
  ASSUME SmpInv, NEW k \in CPU, NEW c \in Env, cur[k] = c, NEW e \in Env, Kill(k, c, e)
  PROVE  SoundFor(k)
<1>1. SysEnvDestroy(c, e) /\ env[e].status # "dying"
  BY DEF Kill
<1>2. Sound
  BY <1>1, SmpFacts, DestroySound
<1>3. CASE EnvFree(e)
  <2>1. env'[e].status # "dying"
    BY <1>3, SmpFacts, EnvFreeEffect
  <2>2. ~(env[e].status = "ready" /\ Elsewhere(k, e))
    BY <2>1 DEF Kill
  <2>3. ~Elsewhere(k, e)
    BY <1>1, <2>2, SmpFacts DEF Busy
  <2> QED
    BY <1>2, <1>3, <2>3, SmpFree
<1>4. CASE /\ e # c /\ env[e].status = "ready"
           /\ env' = [env EXCEPT ![e].status = "dying"]
           /\ UNCHANGED <<mem, booted>>
  <2>1. /\ \A d \in Env : d # e => env'[d] = env[d]
        /\ env'[e].status = "dying" /\ env'[e].dstva = env[e].dstva
    BY <1>4, SmpFacts DEF EnvRec
  <2>2. Quiet'
    BY <1>4, <2>1, SmpFacts DEF Quiet
  <2>3. \A d \in Env : Elsewhere(k, d) => Kept(d)
    BY <1>4, <2>1, SmpFacts DEF Kept, Busy
  <2> QED
    BY <1>2, <2>2, <2>3 DEF SoundFor
<1> QED
  BY <1>1, <1>3, <1>4 DEF SysEnvDestroy

LEMMA SmpExofork ==
  ASSUME SmpInv, NEW k \in CPU, NEW c \in Env, SysExofork(c)
  PROVE  SoundFor(k)
<1> DEFINE m2 == mem'
<1>1. PICK e \in Env :
        /\ env[e].status = "free" /\ m2 = EnvSetupVm(mem, e)
        /\ env' = [env EXCEPT ![e] = [status |-> "blocked", parent |-> c, dstva |-> NULL]]
  BY DEF SysExofork
<1>2. mem.free # <<>>
  BY DEF SysExofork
<1>3. Sound
  BY SmpFacts, ExoforkSound
<1> HIDE DEF m2
<1>4. SameEntries(mem, m2)
  BY <1>1, <1>2, SmpFacts, ExoforkStep
<1>5. (\A d \in Env : d # e => env'[d] = env[d]) /\ env'[e].status = "blocked"
  BY <1>1, SmpFacts
<1>6. Quiet'
  BY <1>5, SmpFacts DEF Quiet
<1>7. \A d \in Env : Elsewhere(k, d) => Kept(d)
  <2> SUFFICES ASSUME NEW d \in Env, Elsewhere(k, d) PROVE Kept(d)
    OBVIOUS
  <2>1. Busy(d) /\ d # e
    BY <1>1, SmpFacts DEF Busy
  <2> QED
    BY <1>4, <1>5, <2>1 DEF Kept, Busy, SameEntries, m2
<1> QED
  BY <1>3, <1>6, <1>7 DEF SoundFor

LEMMA SmpRecv ==
  ASSUME SmpInv, NEW k \in CPU, NEW c \in Env, cur[k] = c,
         NEW dstva \in UserVa \cup {UTOP}, SysIpcRecv(c, dstva)
  PROVE  SoundFor(k)
<1>1. /\ UNCHANGED mem
      /\ env' = [env EXCEPT ![c].status = "blocked", ![c].dstva = dstva]
  BY DEF SysIpcRecv
<1>2. Sound
  BY SmpFacts, RecvSound
<1>3. (\A d \in Env : d # c => env'[d] = env[d]) /\ env'[c].status = "blocked"
  BY <1>1, SmpFacts DEF EnvRec
<1>4. Quiet'
  BY <1>3, SmpFacts DEF Quiet
<1>5. \A d \in Env : Elsewhere(k, d) /\ cur[k] # d => Kept(d)
  BY <1>1, <1>3, SmpFacts DEF Kept, Busy
<1> QED
  BY <1>2, <1>4, <1>5 DEF SoundFor

\* The receiver of a message runs nowhere: it has an offer open.
LEMMA SmpSend ==
  ASSUME SmpInv, Careful, NEW k \in CPU, NEW c \in Env, NEW e \in Env,
         NEW srcva \in UserVa \cup {UTOP}, NEW w \in BOOLEAN, SysIpcTrySend(c, e, srcva, w)
  PROVE  SoundFor(k)
<1> DEFINE m2 == mem'
<1>1. /\ env[e].dstva # NULL /\ env[e].status # "free"
      /\ env' = [env EXCEPT ![e].status = "ready", ![e].dstva = NULL]
  BY DEF SysIpcTrySend, Receiving
<1>2. Sound
  BY SmpFacts, SendSound
<1>3. /\ \A d \in Env : d # e => env'[d] = env[d]
      /\ env'[e].dstva = NULL
  BY <1>1, SmpFacts DEF EnvRec
<1>4. Quiet'
  BY <1>3, SmpFacts DEF Quiet
<1>5. \A d \in Env : d # e => \A va \in UserVa : Pte(m2, d, va) = Pte(mem, d, va)
  <2>1. CASE UNCHANGED mem
    BY <2>1
  <2>2. CASE srcva # UTOP /\ ShareWith(c, srcva, e, env[e].dstva, w) /\ env[e].dstva # UTOP
    <3>1. srcva \in UserVa /\ env[e].dstva \in UserVa /\ mem.pgdir[e] # NULL
      BY <1>1, <2>2, SmpFacts, EnvFacts
    <3>2. \E p \in RamPage : MayMap(p, w) /\ Rewritten(mem, m2, e, env[e].dstva, Mapped(p, w))
      BY <2>2, <3>1, SmpFacts, ShareStep
    <3> HIDE DEF m2
    <3> QED
      BY <3>1, <3>2, RewrittenKeeps
  <2>3. UNCHANGED mem
        \/ (srcva # UTOP /\ ShareWith(c, srcva, e, env[e].dstva, w) /\ env[e].dstva # UTOP)
    BY DEF SysIpcTrySend, Careful
  <2> QED
    BY <2>1, <2>2, <2>3
<1>6. \A d \in Env : Elsewhere(k, d) => Kept(d)
  <2> SUFFICES ASSUME NEW d \in Env, Elsewhere(k, d) PROVE Kept(d)
    OBVIOUS
  <2>1. Busy(d) /\ d # e
    BY <1>1, SmpFacts DEF Busy, Quiet
  <2> QED
    BY <1>3, <1>5, <2>1 DEF Kept, Busy
<1> QED
  BY <1>2, <1>4, <1>6 DEF SoundFor

LEMMA SmpMapCall ==
  ASSUME SmpInv, Polite, NEW k \in CPU, NEW c \in Env, cur[k] = c, NEW e \in Env,
         Courteous(c, e), MapCall(c, e)
  PROVE  SoundFor(k)
<1>1. e = c \/ env[e].status = "blocked"
  BY DEF Courteous, Polite
<1>2. Careful
  BY DEF Polite, Careful
<1>3. /\ Sound /\ UNCHANGED env
      /\ \A d \in Env : d # e => \A va \in UserVa : Pte(mem', d, va) = Pte(mem, d, va)
  BY <1>2, SmpFacts, MapCallEffect
<1>4. Quiet'
  BY <1>3, SmpFacts DEF Quiet
<1>5. \A d \in Env : Elsewhere(k, d) /\ cur[k] # d => Kept(d)
  BY <1>1, <1>3, SmpFacts DEF Kept, Busy
<1> QED
  BY <1>3, <1>4, <1>5 DEF SoundFor

LEMMA SmpSetStatus ==
  ASSUME SmpInv, Polite, NEW k \in CPU, NEW c \in Env, NEW e \in Env,
         Courteous(c, e), SysEnvSetStatus(c, e, "ready")
  PROVE  SoundFor(k)
<1>1. /\ env' = [env EXCEPT ![e].status = "ready"] /\ UNCHANGED mem
      /\ env[c].status = "ready"
  BY DEF SysEnvSetStatus, Running
<1>2. env[e].dstva = NULL
  BY <1>1, SmpFacts DEF Courteous, Polite, Quiet
<1>3. Sound
  BY SmpFacts, SetStatusSound
<1>4. /\ \A d \in Env : d # e => env'[d] = env[d]
      /\ env'[e].status = "ready" /\ env'[e].dstva = NULL
  BY <1>1, <1>2, SmpFacts DEF EnvRec
<1>5. Quiet'
  BY <1>4, SmpFacts DEF Quiet
<1>6. \A d \in Env : Elsewhere(k, d) => Kept(d)
  BY <1>1, <1>4, SmpFacts DEF Kept, Busy
<1> QED
  BY <1>3, <1>5, <1>6 DEF SoundFor

LEMMA SyscallSound ==
  ASSUME SmpInv, Polite, NEW k \in CPU, Syscall(k)
  PROVE  SoundFor(k)
<1> DEFINE c == cur[k]
<1>1. c \in Env /\ cur[k] = c /\ Careful
  BY SmpFacts DEF Syscall, Polite, Careful
<1>2. \/ SysExofork(c) \/ IpcCall(c)
      \/ \E e \in Env : \/ Kill(k, c, e)
                        \/ Courteous(c, e) /\ (MapCall(c, e) \/ SysEnvSetStatus(c, e, "ready"))
  BY DEF Syscall
<1> HIDE DEF c
<1>3. CASE SysExofork(c)
  BY <1>1, <1>3, SmpExofork
<1>4. CASE IpcCall(c)
  BY <1>1, <1>4, SmpRecv, SmpSend DEF IpcCall
<1>5. ASSUME NEW e \in Env, Kill(k, c, e) PROVE SoundFor(k)
  BY <1>1, <1>5, SmpKill
<1>6. ASSUME NEW e \in Env, Courteous(c, e), MapCall(c, e) PROVE SoundFor(k)
  BY <1>1, <1>6, SmpMapCall
<1>7. ASSUME NEW e \in Env, Courteous(c, e), SysEnvSetStatus(c, e, "ready") PROVE SoundFor(k)
  BY <1>1, <1>7, SmpSetStatus
<1> QED
  BY <1>2, <1>3, <1>4, <1>5, <1>6, <1>7

LEMMA TrapSound ==
  ASSUME SmpInv, NEW k \in CPU, Trap(k)
  PROVE  SoundFor(k)
<1>1. CASE UNCHANGED vars
  BY <1>1, SameIsSound
<1>2. CASE cur[k] # NULL /\ ReapZombie(cur[k])
  <2>1. cur[k] \in Env /\ ~Elsewhere(k, cur[k]) /\ VmInv
    BY <1>2, SmpFacts
  <2>2. EnvFree(cur[k])
    BY <1>2 DEF ReapZombie
  <2>3. Sound
    BY <1>2, <2>1, ReapSound
  <2> QED
    BY <2>1, <2>2, <2>3, SmpFree
<1> QED
  BY <1>1, <1>2 DEF Trap

\* CPU k reloads cr3; the others keep what they run, with its entries.
LEMMA LeaveKeeps ==
  ASSUME SmpInv, NEW k \in CPU, SoundFor(k), Leave(k)
  PROVE  SmpInv'
<1>1. PICK n \in Env \cup {NULL} :
        /\ cur' = [cur EXCEPT ![k] = n]
        /\ n # NULL => n \in Env /\ env'[n].status = "ready" /\ ~Elsewhere(k, n)
  BY DEF Leave, MayRunNext
<1>2. tlb' = [tlb EXCEPT ![k] = {}]
  BY DEF Leave, Reload
<1>3. VmInv' /\ Quiet' /\ TypeOK'
  BY DEF SoundFor, Sound, VmInv
<1>4. /\ cur' \in [CPU -> Env \cup {NULL}]
      /\ cur'[k] = n /\ \A j \in CPU : j # k => cur'[j] = cur[j]
  BY <1>1, SmpFacts
<1>5. /\ tlb' \in [CPU -> SUBSET (UserVa \X Entry)]
      /\ tlb'[k] = {} /\ \A j \in CPU : j # k => tlb'[j] = tlb[j]
  BY <1>2, SmpFacts
<1>6. \A j \in CPU : j # k /\ cur[j] # NULL => Elsewhere(k, cur[j]) /\ cur[j] \in Env /\ cur[k] # cur[j]
  BY SmpFacts DEF Elsewhere
<1>7. \A j \in CPU : j # k /\ cur[j] # NULL => Kept(cur[j])
  BY <1>6 DEF SoundFor
<1>8. SmpTypeOK'
  <2> SUFFICES ASSUME NEW j \in CPU, cur'[j] # NULL
               PROVE  /\ env'[cur'[j]].status \in {"ready", "dying"}
                      /\ \A i \in CPU \ {j} : cur'[i] # cur'[j]
    BY <1>3, <1>4, <1>5 DEF SmpTypeOK, Elsewhere
  <2>1. CASE j = k
    BY <1>1, <1>4, <2>1 DEF Elsewhere
  <2>2. CASE j # k
    <3>1. cur'[j] = cur[j] /\ cur[j] # NULL /\ ~Elsewhere(j, cur[j])
      BY <1>4, <2>2, SmpFacts
    <3>2. env'[cur[j]].status \in {"ready", "dying"}
      BY <1>7, <2>2, <3>1 DEF Kept, Busy
    <3>3. \A i \in CPU \ {j} : cur'[i] # cur[j]
      BY <1>1, <1>4, <2>2, <3>1 DEF Elsewhere
    <3> QED
      BY <3>1, <3>2, <3>3
  <2> QED
    BY <2>1, <2>2
<1>9. \A j \in CPU : cur'[j] # NULL => \A x \in tlb'[j] : Pte(mem', cur'[j], x[1]) = x[2]
  <2> SUFFICES ASSUME NEW j \in CPU, cur'[j] # NULL, NEW x \in tlb'[j]
               PROVE  Pte(mem', cur'[j], x[1]) = x[2]
    OBVIOUS
  <2>1. j # k /\ cur'[j] = cur[j] /\ cur[j] # NULL /\ x \in tlb[j]
    BY <1>4, <1>5
  <2>2. x[1] \in UserVa /\ Pte(mem, cur[j], x[1]) = x[2]
    BY <2>1, SmpFacts DEF SmpInv, TlbCoherent
  <2>3. Pte(mem', cur[j], x[1]) = Pte(mem, cur[j], x[1])
    BY <1>7, <2>1, <2>2 DEF Kept
  <2> QED
    BY <2>1, <2>2, <2>3
<1>10. TlbCoherent'
  BY <1>8, <1>9 DEF TlbCoherent
<1> QED
  BY <1>3, <1>5, <1>10 DEF SmpInv

LEMMA TouchKeeps ==
  ASSUME SmpInv, NEW k \in CPU, NEW va \in UserVa, Touch(k, va)
  PROVE  SmpInv'
<1>1. /\ UNCHANGED <<mem, env, booted, cur>> /\ cur[k] \in Env
      /\ tlb' = [tlb EXCEPT ![k] = @ \cup {<<va, Pte(mem, cur[k], va)>>}]
  BY SmpFacts DEF Touch, vars
<1>2. Pte(mem, cur[k], va) \in Entry
  <2>1. mem \in Memory
    BY SmpFacts, InvFacts
  <2> QED
    BY <1>1, <2>1, PteIs
<1>3. tlb' \in [CPU -> SUBSET (UserVa \X Entry)]
  BY <1>1, <1>2, SmpFacts
<1>4. VmInv' /\ Quiet'
  BY <1>1, SameIsSound DEF SoundFor, Sound, vars
<1>5. SmpTypeOK'
  BY <1>1, <1>3, <1>4 DEF SmpInv, TlbCoherent, SmpTypeOK, Elsewhere, VmInv
<1>6. \A j \in CPU : cur'[j] # NULL => \A x \in tlb'[j] : Pte(mem', cur'[j], x[1]) = x[2]
  <2> SUFFICES ASSUME NEW j \in CPU, cur[j] # NULL, NEW x \in tlb'[j]
               PROVE  Pte(mem, cur[j], x[1]) = x[2]
    BY <1>1
  <2>1. x \in tlb[j] \/ (j = k /\ x = <<va, Pte(mem, cur[k], va)>>)
    BY <1>1, SmpFacts
  <2> QED
    BY <2>1 DEF SmpInv, TlbCoherent
<1> QED
  BY <1>3, <1>4, <1>5, <1>6 DEF SmpInv, TlbCoherent

\* Before the users start no CPU runs anything that EnvCreate could disturb; that
\* the environment it makes was free is enough here.
LEMMA BootKeeps ==
  ASSUME SmpInv, Boot
  PROVE  SmpInv'
<1>1. /\ UNCHANGED <<cur, tlb>>
      /\ StartUsers \/ \E e \in Env : EnvCreate(e)
  BY DEF Boot
<1>2. VmInv'
  BY <1>1, SmpFacts, StartUsersSound, CreateSound DEF Sound
<1>3. Quiet' /\ \A d \in Env : Busy(d) => Kept(d)
  <2>1. CASE StartUsers
    <3>1. mem' = mem /\ env' = env
      BY <2>1 DEF StartUsers
    <3> QED
      BY <3>1, SmpFacts DEF Quiet, Kept, Busy
  <2>2. ASSUME NEW e \in Env, EnvCreate(e) PROVE Quiet' /\ \A d \in Env : Busy(d) => Kept(d)
    <3> DEFINE m2 == mem'
    <3>1. /\ env[e].status = "free"
          /\ env' = [env EXCEPT ![e] = [FreeSlot EXCEPT !.status = "ready"]]
      BY <2>2 DEF EnvCreate
    <3>2. \E p \in RamPage : Rewritten(mem, m2, e, ImageVa, Mapped(p, TRUE))
      BY <2>2, SmpFacts, CreateStep
    <3> HIDE DEF m2
    <3>3. \A d \in Env : d # e => \A va \in UserVa : Pte(m2, d, va) = Pte(mem, d, va)
      BY <3>2 DEF Rewritten
    <3>4. /\ \A d \in Env : d # e => env'[d] = env[d]
          /\ env'[e].dstva = NULL
      BY <3>1, SmpFacts DEF FreeSlot
    <3>5. Quiet'
      BY <3>4, SmpFacts DEF Quiet
    <3>6. \A d \in Env : Busy(d) => d # e
      BY <3>1 DEF Busy
    <3>7. \A d \in Env : Busy(d) => Kept(d)
      BY <3>3, <3>4, <3>6 DEF Kept, Busy, m2
    <3> QED
      BY <3>5, <3>7
  <2> QED
    BY <1>1, <2>1, <2>2
<1>4. SmpTypeOK'
  <2>1. \A k \in CPU : cur[k] # NULL => env'[cur[k]].status \in {"ready", "dying"}
    BY <1>3, SmpFacts DEF Kept, Busy
  <2> QED
    BY <1>1, <1>2, <2>1 DEF SmpInv, TlbCoherent, SmpTypeOK, Elsewhere, VmInv
<1>5. \A j \in CPU : cur[j] # NULL => \A x \in tlb[j] : Pte(mem', cur[j], x[1]) = x[2]
  <2> SUFFICES ASSUME NEW j \in CPU, cur[j] # NULL, NEW x \in tlb[j]
               PROVE  Pte(mem', cur[j], x[1]) = x[2]
    OBVIOUS
  <2>1. Kept(cur[j]) /\ x[1] \in UserVa
    BY <1>3, SmpFacts
  <2>2. Pte(mem, cur[j], x[1]) = x[2]
    BY DEF SmpInv, TlbCoherent
  <2> QED
    BY <2>1, <2>2 DEF Kept
<1> QED
  BY <1>1, <1>2, <1>3, <1>4, <1>5 DEF SmpInv, TlbCoherent

\* On any number of CPUs, no CPU uses a translation that the page table of the
\* environment it runs has lost, and no environment runs on two CPUs, although
\* tlb_invalidate (kern/pmap.c) flushes only the CPU that executes it: a system call
\* rewrites entries of its caller, whose CPU reloads cr3, or of what runs nowhere.
\* Programs that change the mappings of a running child are excluded; the system
\* does not protect those.
THEOREM TlbsAreCoherent ==
  ASSUME Polite
  PROVE  SmpSpec => []TlbCoherent
<1>1. SmpInit => SmpInv
  <2> SUFFICES ASSUME SmpInit PROVE SmpInv
    OBVIOUS
  <2>1. VmInv
    BY InitIsGood DEF SmpInit
  <2>2. env = [e \in Env |-> FreeSlot] /\ cur = [k \in CPU |-> NULL] /\ tlb = [k \in CPU |-> {}]
    BY DEF SmpInit, Init
  <2>3. Quiet
    BY <2>2 DEF Quiet, FreeSlot
  <2>4. SmpTypeOK
    BY <2>1, <2>2 DEF SmpTypeOK, VmInv
  <2> QED
    BY <2>1, <2>2, <2>3, <2>4 DEF SmpInv, TlbCoherent
<1>2. SmpInv /\ [SmpNext]_smpVars => SmpInv'
  <2> SUFFICES ASSUME SmpInv, [SmpNext]_smpVars PROVE SmpInv'
    OBVIOUS
  <2>1. CASE Boot
    BY <2>1, BootKeeps
  <2>2. ASSUME NEW k \in CPU, Syscall(k) PROVE SmpInv'
    BY <2>2, SyscallSound, LeaveKeeps DEF Syscall
  <2>3. ASSUME NEW k \in CPU, Trap(k) PROVE SmpInv'
    BY <2>3, TrapSound, LeaveKeeps DEF Trap
  <2>4. ASSUME NEW k \in CPU, NEW va \in UserVa, Touch(k, va) PROVE SmpInv'
    BY <2>4, TouchKeeps
  <2>5. CASE UNCHANGED smpVars
    <3>1. UNCHANGED <<mem, env, booted, cur, tlb>>
      BY <2>5 DEF smpVars
    <3>2. VmInv'
      <4>1. UNCHANGED mem /\ env' \in [Env -> EnvRec] /\ booted' \in BOOLEAN
        BY <3>1, SmpFacts DEF TypeOK
      <4> QED
        BY <3>1, <4>1, SmpFacts, EnvOnly DEF Sound
    <3> QED
      BY <3>1, <3>2 DEF SmpInv, TlbCoherent, SmpTypeOK, Elsewhere, VmInv, Quiet
  <2> QED
    BY <2>1, <2>2, <2>3, <2>4, <2>5 DEF SmpNext
<1>3. SmpInv => TlbCoherent
  BY DEF SmpInv
<1> QED
  BY <1>1, <1>2, <1>3, PTL DEF SmpSpec
=============================================================================
