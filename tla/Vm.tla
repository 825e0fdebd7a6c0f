--------------------------------- MODULE Vm ---------------------------------
(***************************************************************************)
(* Physical pages and address spaces of the JOS kernel: the page allocator *)
(* and the page-table operations of kern/pmap.c, the system calls that     *)
(* change mappings (kern/syscall.c), and the creation and destruction of   *)
(* address spaces (kern/env.c).                                            *)
(*                                                                         *)
(* Every handler runs under the big kernel lock (module Kernel), so each   *)
(* is one action, and a CPU is only visible as "some ready environment     *)
(* makes a call".  A page-table entry keeps its page, PTE_P and PTE_W:     *)
(* every user mapping has PTE_U, and the bits of PTE_AVAIL mean nothing to *)
(* the kernel.  The contents of data pages are left out, and so are the    *)
(* calls that fail before they change anything.                            *)
(***************************************************************************)
EXTENDS Integers, Sequences, FiniteSets

CONSTANTS
  Env,       \* slots of the environment table
  RamPage,   \* the pages page_init puts on the free list
  Zero,      \* physical page 0: as the address in an entry it means "none"
  EnvsPage,  \* the page of the array envs that is mapped at UENVS
  KernTable, \* the page table of kern_pgdir that maps UENVS, shared by all
  NPDX,      \* page directory entries below UTOP
  NPTX,      \* entries of a page table
  RefMod,    \* pp_ref counts modulo this (2^16 in the code)
  ImageVa,   \* where load_icode puts the one page of a boot environment's image
  MaxStray,  \* a bound on stray unmaps, see StrayUnmap
  Careless,  \* habits of user programs that the model admits
  NULL       \* no environment, no directory, no address

Page == RamPage \cup {Zero, EnvsPage, KernTable}

\* "map_absent": offer sys_page_map or sys_ipc_try_send a page from an empty
\* entry of an existing page table.  "unmap_absent": unmap such empty entries
\* without the bound MaxStray.  "overflow": map one page RefMod times or more.
\* "send_unasked": send a page to an environment that asked for none.
\* "touch_running" (module VmSmp): change the mappings of a child while it runs.
AllHabits == {"map_absent", "unmap_absent", "overflow", "send_unasked", "touch_running"}

\* A virtual page is its directory index and its table index.
UserPdx == 0..(NPDX-1)
Ptx == 0..(NPTX-1)
UserVa == UserPdx \X Ptx
UTOP == <<NPDX, 0>>

ASSUME VmAssumption ==
  /\ IsFiniteSet(Env) /\ IsFiniteSet(RamPage)
  /\ {Zero, EnvsPage, KernTable} \cap RamPage = {}
  /\ Zero # EnvsPage /\ Zero # KernTable /\ EnvsPage # KernTable
  /\ NPDX \in Nat \ {0} /\ NPTX \in Nat \ {0}
  /\ RefMod \in Nat /\ RefMod > 1
  /\ ImageVa \in UserVa
  /\ MaxStray \in Nat /\ MaxStray < RefMod - 1
  /\ Careless \subseteq AllHabits
  /\ NULL \notin Env \cup Page \cup UserVa \cup {UTOP}

Entry == [page : Page, p : BOOLEAN, w : BOOLEAN]
Absent == [page |-> Zero, p |-> FALSE, w |-> FALSE]
Mapped(page, w) == [page |-> page, p |-> TRUE, w |-> w]
EmptyTable == [t \in Ptx |-> Absent]
NoTables == [d \in UserPdx |-> Zero]

\* pte is what each page holds as a page table; pgdir is the page of env_pgdir
\* and pde its entries below UTOP, Zero where there is no page table.
Memory == [pp_ref : [Page -> 0..(RefMod-1)], free : Seq(Page), pte : [Page -> [Ptx -> Entry]],
           pgdir : [Env -> Page \cup {NULL}], pde : [Env -> [UserPdx -> Page]]]

\* "ready" is ENV_RUNNABLE or ENV_RUNNING; dstva is NULL unless env_ipc_recving.
\* The env_parent_id of an environment that is gone matches nobody: NULL.
EnvRec == [status : {"free", "dying", "ready", "blocked"},
           parent : Env \cup {NULL}, dstva : UserVa \cup {UTOP, NULL}]
FreeSlot == [status |-> "free", parent |-> NULL, dstva |-> NULL]

VARIABLES
  mem,    \* physical memory and the page tables in it
  env,    \* the environment table
  booted  \* i386_init has called sched_yield

vars == <<mem, env, booted>>

-----------------------------------------------------------------------------
(* kern/pmap.c.  Each operator takes a memory and returns the memory that  *)
(* the function leaves.  The panics of page_free are the property          *)
(* FreeListExact here, not control.                                        *)

IncRef(m, p) == [m EXCEPT !.pp_ref[p] = (@ + 1) % RefMod]

\* page_alloc(ALLOC_ZERO), and sys_page_alloc's page_alloc(perm): the same bit.
PageAlloc(m) == [m EXCEPT !.free = Tail(@), !.pte[Head(m.free)] = EmptyTable]

PageFree_Lost(m, p) == m
PageFree(m, p) == [m EXCEPT !.free = <<p>> \o @]

DecRef_ToOne(m, p) ==
  LET less == [m EXCEPT !.pp_ref[p] = (@ - 1) % RefMod]
  IN  IF less.pp_ref[p] = 1 THEN PageFree(less, p) ELSE less

DecRef_NoWrap(m, p) == [m EXCEPT !.pp_ref[p] = @ - 1]

\* page_decref frees the page when its count reaches zero.
DecRef(m, p) ==
  LET less == [m EXCEPT !.pp_ref[p] = (@ - 1) % RefMod]
  IN  IF less.pp_ref[p] = 0 THEN PageFree(less, p) ELSE less

\* The page table of va.  Every directory holds the kernel's one for UTOP.
TableOf(m, e, va) == IF va[1] = NPDX THEN KernTable ELSE m.pde[e][va[1]]
HasTable(m, e, va) == TableOf(m, e, va) # Zero
Pte(m, e, va) == IF HasTable(m, e, va) THEN m.pte[TableOf(m, e, va)][va[2]] ELSE Absent
SetPte(m, e, va, x) == [m EXCEPT !.pte[TableOf(m, e, va)][va[2]] = x]

\* pgdir_walk with create: it fails if it needs a page table and no page is free.
CanWalk(m, e, va) == HasTable(m, e, va) \/ m.free # <<>>
Walk(m, e, va) ==
  IF HasTable(m, e, va) THEN m
  ELSE IncRef([PageAlloc(m) EXCEPT !.pde[e][va[1]] = Head(m.free)], Head(m.free))

\* page_lookup finds a page wherever there is a page table: an empty entry reads
\* as page 0, and page_remove lowers that page's count.
PageRemove(m, e, va) ==
  IF HasTable(m, e, va) THEN DecRef(SetPte(m, e, va, Absent), Pte(m, e, va).page) ELSE m

PageInsert_KeepOld(m, e, p, va, w) == SetPte(IncRef(Walk(m, e, va), p), e, va, Mapped(p, w))

\* page_insert, given CanWalk.
PageInsert(m, e, p, va, w) ==
  LET counted == IncRef(Walk(m, e, va), p)
      cleared == IF Pte(counted, e, va).p THEN PageRemove(counted, e, va) ELSE counted
  IN  SetPte(cleared, e, va, Mapped(p, w))

-----------------------------------------------------------------------------
(* Address spaces, kern/env.c.                                             *)

\* A site is a place in an address space that can refer to a page: an entry of
\* one of its page tables, an entry of its directory, or env_pgdir itself.
Site == (0..NPDX) \X (0..NPTX)
Refers(m, e, s, p) ==
  \/ s \in UserVa /\ Pte(m, e, s).p /\ Pte(m, e, s).page = p
  \/ s[1] \in UserPdx /\ s[2] = NPTX /\ m.pde[e][s[1]] = p /\ p # Zero
  \/ s = <<NPDX, NPTX>> /\ m.pgdir[e] = p
Held(m, e, p) == Cardinality({s \in Site : Refers(m, e, s, p)})

EnvSetupVm(m, e) ==
  LET dir == Head(m.free)
  IN  IncRef([PageAlloc(m) EXCEPT !.pgdir[e] = dir, !.pde[e] = NoTables], dir)

Emptied(m, e) == {p \in Page : (m.pp_ref[p] - Held(m, e, p)) % RefMod = 0 /\ Held(m, e, p) > 0}

\* env_free drops every reference e holds, its tables and its directory last.
\* In which order the pages come back does not matter: order is any listing.
FreeVm(m, e, order) ==
  [pp_ref |-> [p \in Page |-> (m.pp_ref[p] - Held(m, e, p)) % RefMod],
   free |-> order \o m.free,
   pte |-> [p \in Page |-> IF \E d \in UserPdx : m.pde[e][d] = p /\ p # Zero
                           THEN EmptyTable ELSE m.pte[p]],
   pgdir |-> [m.pgdir EXCEPT ![e] = NULL],
   pde |-> [m.pde EXCEPT ![e] = NoTables]]

Listings(S) == {f \in [1..Cardinality(S) -> S] : \A p \in S : \E i \in DOMAIN f : f[i] = p}

EnvFree(e) ==
  /\ \E order \in Listings(Emptied(mem, e)) : mem' = FreeVm(mem, e, order)
  /\ env' = [x \in Env |-> IF x = e THEN FreeSlot
                           ELSE IF env[x].parent = e THEN [env[x] EXCEPT !.parent = NULL]
                           ELSE env[x]]
  /\ UNCHANGED booted

-----------------------------------------------------------------------------
(* Start: page_init and mem_init, then i386_init creates environments.     *)

Init ==
  /\ \E list \in Listings(RamPage) :
       mem = [pp_ref |-> [p \in Page |-> IF p \in {EnvsPage, KernTable} THEN 1 ELSE 0],
              free |-> list,
              pte |-> [p \in Page |-> IF p = KernTable
                                      THEN [EmptyTable EXCEPT ![0] = Mapped(EnvsPage, FALSE)]
                                      ELSE EmptyTable],
              pgdir |-> [e \in Env |-> NULL],
              pde |-> [e \in Env |-> NoTables]]
  /\ env = [e \in Env |-> FreeSlot]
  /\ booted = FALSE

\* env_create: the directory, a page table and the image; it panics without memory.
EnvCreate(e) ==
  /\ ~booted /\ env[e].status = "free" /\ Len(mem.free) >= 3
  /\ LET made == EnvSetupVm(mem, e)
         page == Head(made.free)
     IN  mem' = PageInsert(PageAlloc(made), e, page, ImageVa, TRUE)
  /\ env' = [env EXCEPT ![e] = [FreeSlot EXCEPT !.status = "ready"]]
  /\ UNCHANGED booted

StartUsers ==
  /\ ~booted /\ (\E e \in Env : env[e].status = "ready")
  /\ booted' = TRUE
  /\ UNCHANGED <<mem, env>>

-----------------------------------------------------------------------------
(* System calls of environment c, kern/syscall.c.                          *)

Running(c) == booted /\ env[c].status = "ready"

MayChange_Anybody(c, e) == env[e].status # "free"

\* envid2env(e, checkperm)
MayChange(c, e) == env[e].status # "free" /\ (e = c \/ env[e].parent = c)

\* The addresses that pass the test "va >= UTOP" of the calls on mappings.
BelowUTOP_OffByOne == UserVa \cup {UTOP}
BelowUTOP == UserVa

\* One more reference to p, given what the programs' habits are.
Countable(p) == "overflow" \in Careless \/ mem.pp_ref[p] < RefMod - 1

SysPageAlloc(c, e, va, w) ==
  /\ Running(c) /\ MayChange(c, e) /\ mem.free # <<>>
  /\ LET page == Head(mem.free)
         taken == PageAlloc(mem)
     IN  mem' = IF CanWalk(taken, e, va) THEN PageInsert(taken, e, page, va, w)
                ELSE PageFree(taken, page)
  /\ UNCHANGED <<env, booted>>

\* May the page of entry x be mapped once more, writable if w?
MayShare_AnyPerm(x, w) == x.p \/ "map_absent" \in Careless
MayShare(x, w) == (x.p \/ "map_absent" \in Careless) /\ (w => x.w)

\* page_lookup in s, then page_insert in d: sys_page_map and sys_ipc_try_send.
ShareWith(s, sva, d, dva, w) ==
  /\ HasTable(mem, s, sva)
  /\ MayShare(Pte(mem, s, sva), w)
  /\ Countable(Pte(mem, s, sva).page)
  /\ CanWalk(mem, d, dva)
  /\ mem' = PageInsert(mem, d, Pte(mem, s, sva).page, dva, w)

SysPageMap(c, s, sva, d, dva, w) ==
  /\ Running(c) /\ MayChange(c, s) /\ MayChange(c, d)
  /\ ShareWith(s, sva, d, dva, w)
  /\ UNCHANGED <<env, booted>>

\* The empty entry of an existing table: page 0 loses a reference it never had.
StrayUnmap(e, va) == HasTable(mem, e, va) /\ ~Pte(mem, e, va).p
Strays == (RefMod - mem.pp_ref[Zero]) % RefMod

SysPageUnmap(c, e, va) ==
  /\ Running(c) /\ MayChange(c, e)
  /\ StrayUnmap(e, va) => "unmap_absent" \in Careless \/ Strays < MaxStray
  /\ mem' = PageRemove(mem, e, va)
  /\ UNCHANGED <<env, booted>>

SysExofork(c) ==
  /\ Running(c) /\ mem.free # <<>>
  /\ \E e \in Env :
       /\ env[e].status = "free"
       /\ mem' = EnvSetupVm(mem, e)
       /\ env' = [env EXCEPT ![e] = [status |-> "blocked", parent |-> c, dstva |-> NULL]]
  /\ UNCHANGED booted

SysEnvSetStatus(c, e, st) ==
  /\ Running(c) /\ MayChange(c, e)
  /\ env' = [env EXCEPT ![e].status = st]
  /\ UNCHANGED <<mem, booted>>

\* An environment that runs on another CPU becomes a zombie, any other is freed.
SysEnvDestroy(c, e) ==
  /\ Running(c) /\ MayChange(c, e)
  /\ \/ EnvFree(e)
     \/ /\ e # c /\ env[e].status = "ready"
        /\ env' = [env EXCEPT ![e].status = "dying"]
        /\ UNCHANGED <<mem, booted>>

\* trap: the CPU that runs a zombie frees it.
ReapZombie(e) == booted /\ env[e].status = "dying" /\ EnvFree(e)

SysIpcRecv(c, dstva) ==
  /\ Running(c)
  /\ env' = [env EXCEPT ![c].status = "blocked", ![c].dstva = dstva]
  /\ UNCHANGED <<mem, booted>>

Receiving(e) == env[e].status # "free" /\ env[e].dstva # NULL

\* A page goes to dstva whenever one is sent, also if dstva is the UTOP by which
\* ipc_recv says it wants none.
SysIpcTrySend(c, e, srcva, w) ==
  /\ Running(c) /\ Receiving(e)
  /\ \/ srcva = UTOP /\ UNCHANGED mem
     \/ /\ srcva # UTOP
        /\ env[e].dstva = UTOP => "send_unasked" \in Careless
        /\ ShareWith(c, srcva, e, env[e].dstva, w)
  /\ env' = [env EXCEPT ![e].status = "ready", ![e].dstva = NULL]
  /\ UNCHANGED booted

\* The calls by which c changes the mappings of e.
MapCall(c, e) ==
  \/ \E va \in BelowUTOP : SysPageUnmap(c, e, va)
  \/ \E va \in BelowUTOP, w \in BOOLEAN : SysPageAlloc(c, e, va, w)
  \/ \E s \in Env, sva, dva \in BelowUTOP, w \in BOOLEAN : SysPageMap(c, s, sva, e, dva, w)

IpcCall(c) ==
  \/ \E dstva \in UserVa \cup {UTOP} : SysIpcRecv(c, dstva)
  \/ \E e \in Env, srcva \in UserVa \cup {UTOP}, w \in BOOLEAN : SysIpcTrySend(c, e, srcva, w)

Next ==
  \/ StartUsers
  \/ \E e \in Env : EnvCreate(e) \/ ReapZombie(e)
  \/ \E c \in Env : SysExofork(c) \/ IpcCall(c)
  \/ \E c, e \in Env : SysEnvDestroy(c, e) \/ MapCall(c, e)
  \/ \E c, e \in Env, st \in {"ready", "blocked"} : SysEnvSetStatus(c, e, st)

Spec == Init /\ [][Next]_vars

-----------------------------------------------------------------------------
(* Properties.                                                             *)

\* Every variable keeps its shape, and exactly the environments in use own a
\* page directory.
TypeOK ==
  /\ mem \in Memory
  /\ env \in [Env -> EnvRec]
  /\ booted \in BOOLEAN
  /\ \A e \in Env : env[e].status = "free" <=> mem.pgdir[e] = NULL

Refs(p) == {r \in Env \X Site : Refers(mem, r[1], r[2], p)}

\* pp_ref is the number of references to the page, whatever was mapped over,
\* shared, unmapped or lost with its environment: page_insert, page_remove,
\* env_free and the failure paths count right together.
RefCountExact == \A p \in RamPage : mem.pp_ref[p] = Cardinality(Refs(p))

\* page_free_list lists the unreferenced pages page_init put there, each once:
\* nothing leaks, nothing is freed twice or while in use, and neither page 0 nor
\* a page of the kernel is ever handed out.
FreeListExact ==
  /\ {mem.free[i] : i \in DOMAIN mem.free} = {p \in RamPage : mem.pp_ref[p] = 0}
  /\ \A i, j \in DOMAIN mem.free : mem.free[i] = mem.free[j] => i = j

Structural == {mem.pgdir[e] : e \in Env} \cup UNION {{mem.pde[e][d] : d \in UserPdx} : e \in Env}

\* A page that serves as page directory or page table has that one use: no
\* environment can write another's tables, or its own, through a mapping.
TablesPrivate == \A p \in Structural \ {NULL, Zero} : p \in RamPage /\ Cardinality(Refs(p)) = 1

\* No call replaces the kernel's read-only mapping at UENVS, which all
\* environments share and read thisenv through.
KernelHalfIntact == mem.pte[KernTable][0] = Mapped(EnvsPage, FALSE)

\* No environment maps page 0, which sys_page_map and sys_ipc_try_send would
\* have found in an empty entry.
NothingFromNowhere == \A e \in Env, va \in UserVa : Pte(mem, e, va).p => Pte(mem, e, va).page # Zero

MappedSomewhere(p) == \E e \in Env, va \in UserVa : Pte(mem, e, va).p /\ Pte(mem, e, va).page = p
Writable(p) == \E e \in Env, va \in UserVa : Pte(mem, e, va) = Mapped(p, TRUE)

\* A page that is mapped, but nowhere writable, never becomes writable for
\* anybody while it stays in use: no chain of maps and sends regains PTE_W.
NoWriteRegained ==
  [][\A p \in RamPage : MappedSomewhere(p) /\ ~Writable(p) => ~Writable(p)']_vars

\* Entries of a sleeping receiver that has no parent change only at the address
\* it offered to sys_ipc_recv, and only in the step that wakes it.
OnlyWhereInvited ==
  [][\A e \in Env :
       env[e].status = "blocked" /\ env[e].parent = NULL =>
         \A va \in UserVa :
           Pte(mem, e, va)' # Pte(mem, e, va) =>
             va = env[e].dstva /\ env'[e].status = "ready" /\ env'[e].dstva = NULL]_vars
=============================================================================
