-------------------------------- MODULE Boot --------------------------------
(***************************************************************************)
(* mem_init (kern/pmap.c): how the kernel finds its memory, carves its     *)
(* first arrays out of it with boot_alloc, builds the list of free pages   *)
(* and the kernel half of the address space, tests all this on itself, and *)
(* then maps the local APIC (kern/lapic.c).                                *)
(*                                                                         *)
(* Memory is counted in pages and the layout of inc/memlayout.h is scaled  *)
(* down, every region in its place.  It runs on one CPU before any trap    *)
(* can be taken, so each statement of mem_init is one action and the       *)
(* machine it runs on is the input.  The bits of an entry are the page, W  *)
(* and U.  check_page exercises page_insert and page_remove: it is run     *)
(* here on module Vm's definitions of them.                                *)
(***************************************************************************)
EXTENDS Integers, Sequences, FiniteSets, SequencesExt

CONSTANTS
  NPT,       \* pages that a page table maps: PTSIZE
  UPD,       \* page directory entries below UTOP
  WPD,       \* page directory entries from KERNBASE on
  MPENTRY,   \* the page that the other CPUs start in
  IOPHYSMEM, EXTPHYSMEM,   \* the I/O hole
  BOOTSTACK, PERCPU,       \* the first page of bootstack and of percpu_kstacks
  KSTKSIZE, KSTKGAP, NCPU, \* kernel stacks
  PER,       \* struct PageInfo per page
  ENVSPAGES, \* pages of the array envs
  MB16,      \* the Kbytes below the memory that NVRAM_EXT16LO counts
  LAPIC,     \* the page of the local APIC
  Cmos,      \* what the CMOS may answer: base, ext, ext16, in Kbytes
  KernelEnd  \* where the image may end: the page after the linker's "end"

UENVS == UPD * NPT
UPAGES == UENVS + NPT
UVPT == UPAGES + NPT
MMIOBASE == UVPT + NPT
MMIOLIM == MMIOBASE + NPT
KERNBASE == MMIOLIM + NPT
KSTACKTOP == KERNBASE
WINDOW == WPD * NPT
SPACE == KERNBASE + WINDOW
PDX(va) == va \div NPT

BootAssumption ==
  /\ \A x \in {NPT, UPD, WPD, KSTKSIZE, KSTKGAP, NCPU, PER, ENVSPAGES} : x \in Nat \ {0}
  /\ 0 < MPENTRY /\ MPENTRY < IOPHYSMEM /\ IOPHYSMEM < EXTPHYSMEM - 1
  /\ EXTPHYSMEM <= BOOTSTACK /\ BOOTSTACK + KSTKSIZE <= PERCPU
  /\ \A end \in KernelEnd : PERCPU + NCPU * KSTKSIZE <= end /\ end < NPT
  /\ NCPU * (KSTKSIZE + KSTKGAP) <= NPT /\ KSTKSIZE < NPT
  /\ LAPIC >= SPACE

VARIABLES
  cmos, end, pse,  \* the machine, the image, and whether TP1_PSE is defined
  at,       \* the statement of mem_init that is next, or how it ended
  npages,   \* pages of memory
  nextfree, \* boot_alloc's next page
  free,     \* page_free_list
  dir,      \* kern_pgdir: the page table of each directory entry that is present
  pte,      \* the entries of those tables that are present
  mmio,     \* mmio_map_region's next page
  test      \* how far check_page or check_page_installed_pgdir has come

vars == <<cmos, end, pse, at, npages, nextfree, free, dir, pte, mmio, test>>
machine == <<cmos, end, pse>>

Stopped == {"panic", "reset", "hung"}

\* i386_detect_memory: the largest of the CMOS's three answers that is not zero.
Totalmem ==
  IF cmos.ext16 > 0 THEN MB16 + cmos.ext16
  ELSE IF cmos.ext > 0 THEN 4 * EXTPHYSMEM + cmos.ext
  ELSE cmos.base

i386_detect_memory ==
  /\ at = "i386_detect_memory"
  /\ npages' = Totalmem \div 4 /\ at' = "kern_pgdir"
  /\ UNCHANGED <<machine, nextfree, free, dir, pte, mmio, test>>

-----------------------------------------------------------------------------
(* boot_alloc.  Until lcr3 the processor uses entry_pgdir, which maps one  *)
(* large page at KERNBASE: a write above it is a fault, and with no IDT    *)
(* yet the machine resets.                                                 *)

EntryMapped(page) == page < NPT
NoMemory == nextfree >= npages % SPACE

BootAlloc(n, next) ==
  /\ nextfree' = nextfree + n
  /\ at' = IF NoMemory THEN "panic" ELSE IF EntryMapped(nextfree + n - 1) THEN next ELSE "reset"

PagesSize == (npages + PER - 1) \div PER
KernPgdir == end
Pages == end + 1
Envs == Pages + PagesSize

kern_pgdir ==
  /\ at = "kern_pgdir" /\ BootAlloc(1, "pages")
  /\ dir' = [d \in {PDX(UVPT)} |-> KernPgdir]
  /\ UNCHANGED <<machine, npages, free, pte, mmio, test>>

AllocPages ==
  /\ at = "pages" /\ BootAlloc(PagesSize, "envs")
  /\ UNCHANGED <<machine, npages, free, dir, pte, mmio, test>>

AllocEnvs ==
  /\ at = "envs" /\ BootAlloc(ENVSPAGES, "page_init")
  /\ UNCHANGED <<machine, npages, free, dir, pte, mmio, test>>

\* Mutated InUse: only the pages of the image are left out.
InUse_Image(page) == page \in IOPHYSMEM..(end - 1) \/ page = MPENTRY
InUse(page) == page \in IOPHYSMEM..(nextfree - 1) \/ page = MPENTRY

\* page_init pushes the pages from the second to the last.
page_init ==
  /\ at = "page_init"
  /\ IF NoMemory THEN at' = "panic" /\ UNCHANGED free
     ELSE /\ at' = "check_page_free_list(1)"
          /\ free' = SelectSeq(Reverse([p \in 1..(npages-1) |-> p]), LAMBDA p : ~InUse(p))
  /\ UNCHANGED <<machine, npages, nextfree, dir, pte, mmio, test>>

-----------------------------------------------------------------------------
(* The tests that mem_init runs on the free list.                          *)

\* page2kva wraps around for a page that the window at KERNBASE does not hold.
Page2kva(page) == (KERNBASE + page) % SPACE

\* check_page_free_list's assertions, and boot_alloc(0)'s.
FreeListChecks ==
  /\ ~NoMemory
  /\ \A p \in Range(free) :
       /\ p \notin {0, IOPHYSMEM, EXTPHYSMEM - 1, EXTPHYSMEM, MPENTRY}
       /\ p < EXTPHYSMEM \/ Page2kva(p) >= KERNBASE + nextfree
  /\ \E p \in Range(free) : p < EXTPHYSMEM
  /\ \E p \in Range(free) : p >= EXTPHYSMEM

\* Mutated LowFirst: the list stays as page_init made it.
LowFirst_AsIs(list) == list
\* Pages with lower addresses first in the free list.
LowFirst(list) == SelectSeq(list, LAMBDA p : p < NPT) \o SelectSeq(list, LAMBDA p : p >= NPT)

CheckLowFirst ==
  /\ at = "check_page_free_list(1)"
  /\ free' = LowFirst(free)
  /\ at' = IF FreeListChecks THEN "check_page_alloc" ELSE "panic"
  /\ UNCHANGED <<machine, npages, nextfree, dir, pte, mmio, test>>

check_page_free_list ==
  /\ at = "check_page_free_list(0)"
  /\ at' = IF FreeListChecks THEN "check_page_installed_pgdir" ELSE "panic"
  /\ UNCHANGED <<machine, npages, nextfree, free, dir, pte, mmio, test>>

\* page_free of each page in turn.
Freed(list, pages) == Reverse(pages) \o list
Three == SubSeq(free, 1, 3)
Rest == SubSeq(free, 4, Len(free))

\* A test that takes three pages and writes to them, and gives back list.
Test(here, list, next) ==
  /\ at = here
  /\ at' = IF Len(free) < 3 THEN "panic"
           ELSE IF here # "check_page_installed_pgdir" /\ ~(\A p \in Range(Three) : EntryMapped(p))
           THEN "reset" ELSE next
  /\ free' = IF Len(free) < 3 THEN free ELSE list

\* The three pages are freed and allocated again, then given back.
check_page_alloc ==
  /\ Test("check_page_alloc", Freed(Rest, Freed(<<>>, Three)), "check_page")
  /\ UNCHANGED <<machine, npages, nextfree, dir, pte, mmio, test>>

-----------------------------------------------------------------------------
(* check_page and check_page_installed_pgdir, on three pages and the page  *)
(* table operations of module Vm.                                          *)

pp0 == 1
pp1 == 2
pp2 == 3
Kern == 0 \* kern_pgdir in the place of an environment's
V == INSTANCE Vm WITH
  Env <- {Kern}, RamPage <- {pp0, pp1, pp2}, Zero <- 0, EnvsPage <- 4, KernTable <- 5,
  NPDX <- 2, NPTX <- 2, RefMod <- 65536, ImageVa <- <<0, 0>>, MaxStray <- 0,
  Careless <- {}, NULL <- -1, mem <- free, env <- free, booted <- free

Page0 == <<0, 0>>    \* the address 0
Page1 == <<0, 1>>    \* the address PGSIZE
Table1 == <<1, 0>>   \* the address PTSIZE

\* A test takes three pages and hides the rest of the list.  It is the number of
\* calls it has made and the memory as those left it.
Stolen == [pp_ref |-> [p \in V!Page |-> 0], free |-> <<>>, pte |-> [p \in V!Page |-> V!EmptyTable],
           pgdir |-> [e \in {Kern} |-> -1], pde |-> [e \in {Kern} |-> V!NoTables]]
NoCalls == [calls |-> 0, m |-> Stolen]

MapsTo(m, va, p) == V!Pte(m, Kern, va).p /\ V!Pte(m, Kern, va).page = p
\* "Forcibly take pp0 back": its directory entry and its count are cleared.
TakeBack(m, d) == [m EXCEPT !.pde[Kern][d] = 0, !.pp_ref[pp0] = 0]
Junk(m) == [m EXCEPT !.pte[pp0] = [t \in V!Ptx |-> V!Mapped(0, TRUE)]]

CheckPageCalls == 9
CheckPageCall(n, m) ==
  CASE n = 1 -> V!PageInsert(V!PageFree(m, pp0), Kern, pp1, Page0, TRUE)
    [] n \in {2, 3} -> V!PageInsert(m, Kern, pp2, Page1, TRUE)
    [] n = 4 -> V!PageInsert(m, Kern, pp1, Page1, TRUE)
    [] n = 5 -> V!PageRemove(V!PageAlloc(m), Kern, Page0)
    [] n = 6 -> V!PageInsert(m, Kern, pp1, Page1, FALSE)
    [] n = 7 -> V!PageRemove(m, Kern, Page1)
    [] n = 8 -> V!Walk(V!PageFree(TakeBack(V!PageAlloc(m), 0), pp0), Kern, <<1, 1>>)
    [] n = 9 -> V!Walk(V!PageFree(Junk(TakeBack(m, 1)), pp0), Kern, Page0)

\* What it asserts after n calls.
CheckPageAsserts(n, m) ==
  CASE n = 0 -> ~V!HasTable(m, Kern, Page0) /\ ~V!CanWalk(m, Kern, Page0)
    [] n = 1 -> m.pde[Kern][0] = pp0 /\ MapsTo(m, Page0, pp1) /\ m.pp_ref[pp1] = 1 /\ m.pp_ref[pp0] = 1
    [] n \in {2, 3} -> MapsTo(m, Page1, pp2) /\ m.pp_ref[pp2] = 1 /\ m.free = <<>>
                        /\ ~V!CanWalk(m, Kern, Table1)
    [] n = 4 -> MapsTo(m, Page0, pp1) /\ MapsTo(m, Page1, pp1)
                /\ m.pp_ref[pp1] = 2 /\ m.pp_ref[pp2] = 0 /\ m.free = <<pp2>>
    [] n = 5 -> ~V!Pte(m, Kern, Page0).p /\ MapsTo(m, Page1, pp1) /\ m.pp_ref[pp1] = 1
    [] n = 6 -> m.pp_ref[pp1] > 0 /\ m.free = <<>>
    [] n = 7 -> ~V!Pte(m, Kern, Page1).p /\ m.pp_ref[pp1] = 0 /\ m.free = <<pp1>>
                /\ m.pde[Kern][0] = pp0 /\ m.pp_ref[pp0] = 1
    [] n = 8 -> m.pde[Kern][1] = pp0
    [] n = 9 -> \A t \in V!Ptx : ~m.pte[pp0][t].p

InstalledCalls == 3
InstalledCall(n, m) ==
  CASE n = 1 -> V!PageInsert(V!PageFree(m, pp0), Kern, pp1, Page1, TRUE)
    [] n = 2 -> V!PageInsert(m, Kern, pp2, Page1, TRUE)
    [] n = 3 -> V!PageRemove(m, Kern, Page1)

InstalledAsserts(n, m) ==
  CASE n = 0 -> TRUE
    [] n = 1 -> m.pp_ref[pp1] = 1 /\ MapsTo(m, Page1, pp1)
    [] n = 2 -> m.pp_ref[pp2] = 1 /\ m.pp_ref[pp1] = 0 /\ MapsTo(m, Page1, pp2)
    [] n = 3 -> m.pp_ref[pp2] = 0 /\ m.pde[Kern][0] = pp0

\* One call of check_page, or of check_page_installed_pgdir.
TestCall ==
  /\ \/ /\ at = "check_page" /\ Len(free) >= 3 /\ test.calls < CheckPageCalls
        /\ CheckPageAsserts(test.calls, test.m)
        /\ test' = [calls |-> test.calls + 1, m |-> CheckPageCall(test.calls + 1, test.m)]
     \/ /\ at = "check_page_installed_pgdir" /\ Len(free) >= 3 /\ test.calls < InstalledCalls
        /\ InstalledAsserts(test.calls, test.m)
        /\ test' = [calls |-> test.calls + 1, m |-> InstalledCall(test.calls + 1, test.m)]
  /\ UNCHANGED <<machine, at, npages, nextfree, free, dir, pte, mmio>>

CheckPagePassed == CheckPageAsserts(test.calls, test.m)
InstalledPassed == InstalledAsserts(test.calls, test.m)

\* pp0 is freed while pp1 and pp2 are still in the tables that pp0 held.
check_page_installed_pgdir ==
  /\ at = "check_page_installed_pgdir"
  /\ test.calls = InstalledCalls \/ ~InstalledPassed \/ Len(free) < 3
  /\ LET list == V!PageFree(TakeBack(test.m, 0), pp0).free IN
       Test("check_page_installed_pgdir", [i \in DOMAIN list |-> Three[list[i]]] \o Rest,
            IF InstalledPassed THEN "lapic_init" ELSE "panic")
  /\ test' = NoCalls
  /\ UNCHANGED <<machine, npages, nextfree, dir, pte, mmio>>

-----------------------------------------------------------------------------
(* boot_map_region.                                                        *)

Region(va, n) == va..(va + n - 1)
Missing(va, n) == {PDX(v) : v \in Region(va, n)} \ DOMAIN dir
\* pgdir_walk takes the pages of the tables that are missing, the lowest first.
NewTables(list, va, n) ==
  [d \in Missing(va, n) |-> list[Cardinality({x \in Missing(va, n) : x <= d})]]
WithTables(list, va, n) == [d \in DOMAIN dir \cup Missing(va, n) |->
                              IF d \in DOMAIN dir THEN dir[d] ELSE NewTables(list, va, n)[d]]
Entry(page, w, u) == [page |-> page, w |-> w, u |-> u]
WithRegion(va, n, pa, w, u) == [v \in DOMAIN pte \cup Region(va, n) |->
                                  IF v \in Region(va, n) THEN Entry(pa + v - va, w, u) ELSE pte[v]]

\* With TP1_PSE a large page is mapped wherever both addresses are aligned, however
\* little is left: the size then passes below zero, and the loop never ends.  As the
\* first call with TP1_PSE is one of those, large pages need no more than that here.
AlignedFrom(va) == (NPT - (va % NPT)) % NPT
Loops(va, n, pa) ==
  pse /\ va % NPT = pa % NPT /\ AlignedFrom(va) < n /\ (n - AlignedFrom(va)) % NPT # 0

\* What becomes of a call that uses the free list "list".
MapOutcome(list, va, n, pa, next) ==
  IF Loops(va, n, pa) THEN "hung"
  ELSE IF Cardinality(Missing(va, n)) > Len(list) THEN "panic"
  ELSE IF \E p \in Range(NewTables(list, va, n)) : ~EntryMapped(p) THEN "reset"
  ELSE next

boot_map_region(va, n, pa, w, u, next) ==
  /\ at' = MapOutcome(free, va, n, pa, next)
  /\ free' = IF at' \in Stopped THEN free ELSE SubSeq(free, Cardinality(Missing(va, n)) + 1, Len(free))
  /\ dir' = IF at' \in Stopped THEN dir ELSE WithTables(free, va, n)
  /\ pte' = IF at' \in Stopped THEN pte ELSE WithRegion(va, n, pa, w, u)

\* mmio_map_region finds no room for n pages more.
MmioOverflow(n) == mmio + n >= MMIOLIM

\* check_page: the calls above, then two of mmio_map_region whose mappings are
\* cleared again.  Their table and mmio_map_region's position stay.
check_page ==
  /\ at = "check_page"
  /\ test.calls = CheckPageCalls \/ ~CheckPagePassed \/ Len(free) < 3
  /\ LET list == Freed(Rest, Three)
         passed == CheckPagePassed /\ ~MmioOverflow(3)
         goOn == IF MmioOverflow(2) THEN "panic"
                 ELSE MapOutcome(list, mmio, 2, 0, IF passed THEN "UPAGES" ELSE "panic")
     IN  /\ Test("check_page", IF goOn \in Stopped THEN list ELSE Tail(list), goOn)
         /\ dir' = IF at' \in Stopped THEN dir ELSE WithTables(list, mmio, 2)
  /\ mmio' = mmio + 3 /\ test' = NoCalls
  /\ UNCHANGED <<machine, npages, nextfree, pte>>

MapUpages ==
  /\ at = "UPAGES" /\ boot_map_region(UPAGES, PagesSize, Pages, FALSE, TRUE, "UENVS")
  /\ UNCHANGED <<machine, npages, nextfree, mmio, test>>

MapUenvs ==
  /\ at = "UENVS" /\ boot_map_region(UENVS, NPT, Envs, FALSE, TRUE, "bootstack")
  /\ UNCHANGED <<machine, npages, nextfree, mmio, test>>

MapBootstack ==
  /\ at = "bootstack"
  /\ boot_map_region(KSTACKTOP - KSTKSIZE, KSTKSIZE, BOOTSTACK, TRUE, FALSE, "KERNBASE")
  /\ UNCHANGED <<machine, npages, nextfree, mmio, test>>

MapKernbase ==
  /\ at = "KERNBASE" /\ boot_map_region(KERNBASE, WINDOW, 0, TRUE, FALSE, "mem_init_mp")
  /\ UNCHANGED <<machine, npages, nextfree, mmio, test>>

\* The stack of each CPU; that of CPU 0 takes the place of bootstack.
\* Mutated Kstacktop: the stacks follow one another without a gap.
Kstacktop_NoGap(i) == KSTACKTOP - i * KSTKSIZE
Kstacktop(i) == KSTACKTOP - i * (KSTKSIZE + KSTKGAP)
StackOf(i) == Region(Kstacktop(i) - KSTKSIZE, KSTKSIZE)
Stacks == UNION {StackOf(i) : i \in 0..(NCPU-1)}
StackPage(v) == LET i == CHOOSE j \in 0..(NCPU-1) : v \in StackOf(j)
                IN  PERCPU + i * KSTKSIZE + v - (Kstacktop(i) - KSTKSIZE)

\* All of them lie in the region whose table MapBootstack has made.
mem_init_mp ==
  /\ at = "mem_init_mp" /\ at' = "check_kern_pgdir"
  /\ pte' = [v \in DOMAIN pte \cup Stacks |->
               IF v \in Stacks THEN Entry(StackPage(v), TRUE, FALSE) ELSE pte[v]]
  /\ UNCHANGED <<machine, npages, nextfree, free, dir, mmio, test>>

\* check_kern_pgdir's assertions.
IsAt(va, page) == va \in DOMAIN pte /\ pte[va].page = page
KernPgdirChecks ==
  /\ \A i \in 0..(PagesSize-1) : IsAt(UPAGES + i, Pages + i) /\ pte[UPAGES + i].u /\ ~pte[UPAGES + i].w
  /\ \A i \in 0..(ENVSPAGES-1) : IsAt(UENVS + i, Envs + i) /\ pte[UENVS + i].u /\ ~pte[UENVS + i].w
  /\ \A i \in 0..(npages-1) : IsAt(KERNBASE + i, i)
  /\ \A n \in 0..(NCPU-1) : LET base == KSTACKTOP - (KSTKSIZE + KSTKGAP) * (n + 1) IN
       /\ \A i \in 0..(KSTKSIZE-1) : IsAt(base + KSTKGAP + i, PERCPU + n * KSTKSIZE + i)
       /\ \A i \in 0..(KSTKGAP-1) : base + i \notin DOMAIN pte
  /\ DOMAIN dir = PDX(UENVS)..(PDX(SPACE) - 1)

check_kern_pgdir ==
  /\ at = "check_kern_pgdir"
  /\ at' = IF KernPgdirChecks THEN "check_page_free_list(0)" ELSE "panic"
  /\ UNCHANGED <<machine, npages, nextfree, free, dir, pte, mmio, test>>

\* lapic_init maps the APIC's page, if mp_init has found one.
lapic_init ==
  /\ at = "lapic_init"
  /\ \/ at' = "booted" /\ UNCHANGED <<mmio, pte>>
     \/ /\ at' = IF MmioOverflow(1) THEN "panic" ELSE "booted"
        /\ mmio' = mmio + 1 /\ pte' = WithRegion(mmio, 1, LAPIC, TRUE, FALSE)
  /\ UNCHANGED <<machine, npages, nextfree, free, dir, test>>

Init ==
  /\ cmos \in Cmos /\ end \in KernelEnd /\ pse \in BOOLEAN
  /\ at = "i386_detect_memory" /\ npages = 0 /\ nextfree = end
  /\ free = <<>> /\ dir = <<>> /\ pte = <<>> /\ mmio = MMIOBASE /\ test = NoCalls

\* The machine goes on elsewhere, stands still, or starts again.
Stop == at \in Stopped \cup {"booted"} /\ UNCHANGED vars

Next ==
  \/ i386_detect_memory \/ kern_pgdir \/ AllocPages \/ AllocEnvs \/ page_init
  \/ CheckLowFirst \/ check_page_alloc \/ TestCall \/ check_page
  \/ MapUpages \/ MapUenvs \/ MapBootstack \/ MapKernbase \/ mem_init_mp
  \/ check_kern_pgdir \/ check_page_free_list \/ check_page_installed_pgdir
  \/ lapic_init \/ Stop

Spec == Init /\ [][Next]_vars

-----------------------------------------------------------------------------
(* Properties.                                                             *)

TypeOK ==
  /\ npages \in Nat /\ nextfree \in Nat /\ mmio \in MMIOBASE..MMIOLIM
  /\ DOMAIN dir \subseteq 0..(PDX(SPACE) - 1) /\ DOMAIN pte \subseteq 0..(SPACE-1)
  /\ \A d \in DOMAIN dir : dir[d] \in Nat
  /\ \A v \in DOMAIN pte : pte[v] \in [page : Nat, w : BOOLEAN, u : BOOLEAN]

Tables == {dir[d] : d \in DOMAIN dir}

\* No page of the list is the BIOS's, in the I/O hole, part of the image or of the
\* first arrays, a page table, or listed twice (page_init, pgdir_walk, the tests).
FreeIsUnused ==
  \A i \in DOMAIN free :
    /\ free[i] \in (1..(npages-1)) \ ({MPENTRY} \cup Tables)
    /\ free[i] < IOPHYSMEM \/ free[i] >= nextfree
    /\ \A j \in DOMAIN free : free[i] = free[j] => i = j

\* The picture of inc/memlayout.h, as the kernel half of the address space.
Memlayout(v) ==
  IF v >= KERNBASE THEN {Entry(v - KERNBASE, TRUE, FALSE)}
  ELSE IF v >= MMIOLIM THEN IF v \in Stacks THEN {Entry(StackPage(v), TRUE, FALSE)} ELSE {}
  ELSE IF v >= UPAGES + PagesSize THEN {}
  ELSE IF v >= UPAGES THEN {Entry(Pages + v - UPAGES, FALSE, TRUE)}
  ELSE IF v >= UENVS THEN {Entry(Envs + v - UENVS, FALSE, TRUE)}
  ELSE {}

\* A kernel that has booted has the layout of inc/memlayout.h entry for entry, the
\* MMIO region aside; every page of memory is free or has a known use; and each
\* stack of a CPU ends at a page that is mapped nowhere.
BootedAsDrawn ==
  at = "booted" =>
    /\ \A v \in (0..(SPACE-1)) \ MMIOBASE..(MMIOLIM-1) :
         Memlayout(v) = IF v \in DOMAIN pte THEN {pte[v]} ELSE {}
    /\ \A p \in 1..(npages-1) : p \in Range(free) \cup Tables \/ InUse(p)
    /\ \A i \in 0..(NCPU-1) : Kstacktop(i) - KSTKSIZE - 1 \notin DOMAIN pte
    /\ \A i, j \in 0..(NCPU-1) : i # j => StackOf(i) \cap StackOf(j) = {}

\* The page tables that booting takes: MMIO, UPAGES, UENVS, the stacks, the window.
TablesNeeded == 4 + WPD
Extended == {p \in 1..(npages-1) : p >= EXTPHYSMEM /\ ~InUse(p)}
Lacking == NoMemory \/ npages > WINDOW \/ Cardinality(Extended) <= TablesNeeded

\* Booting fails only for want of memory, or with more of it than the window at
\* KERNBASE holds; the self-tests never fail otherwise.  It never writes to a page
\* that is not mapped yet, which check_page_free_list(1) sees to by its sorting.
FailsOnlyForMemory == (at = "panic" => Lacking) /\ at # "reset" /\ (at = "hung" => pse)

\* What module Boot promises: its parts are explained above.
BootIsSound == TypeOK /\ FreeIsUnused /\ BootedAsDrawn /\ FailsOnlyForMemory
=============================================================================
