-------------------------------- MODULE Fork --------------------------------
(***************************************************************************)
(* fork() of lib/fork.c, which copies pages only when they are written,    *)
(* with the page-fault handler pgfault(), and the two that copy at once:   *)
(* fork_v0() and dumbfork() of user/dumbfork.c.                            *)
(*                                                                         *)
(* All of it is user code that goes from system call to system call, and   *)
(* its own stack is one of the pages it maps: a store to the stack, which  *)
(* every call is, can come between any two steps.  The mappings are those  *)
(* of sys_page_map, whose tables and counts are in Vm.                     *)
(***************************************************************************)
EXTENDS Naturals, Sequences

CONSTANTS
  Env, First, \* environments, and the one that runs at the start
  Layout,     \* the pages of a program below UXSTACKTOP - PGSIZE, by address
  Stack,      \* the page of its stack
  Text,       \* the pages it may only read
  Shared,     \* the pages with PTE_SHARE
  Frame,      \* physical pages, enough for every environment
  Value, Zero, \* what a page may hold, and what it holds when it is allocated
  Method,     \* the ways to fork: "fork", "fork_v0", "dumbfork"
  NULL

Page == {Layout[i] : i \in DOMAIN Layout}

\* A page-table entry, what pgfault() is at, and what a fork is at.
Entry == [frame : Frame, perm : SUBSET {"W", "COW", "SHARE"}]
Handling == [page : Page, at : {"alloc", "copy", "map", "unmap"}]
Job == [child : Env, n : 1..(Len(Layout)+1), pte : Entry \cup {NULL}]

ASSUME ForkAssumption ==
  /\ First \in Env
  /\ Layout \in Seq(Page)
  /\ \A i, j \in DOMAIN Layout : Layout[i] = Layout[j] => i = j
  /\ {Stack} \cup Text \cup Shared \subseteq Page /\ Stack \notin Text \cup Shared
  /\ DOMAIN Layout \subseteq Frame /\ Frame \subseteq Nat
  /\ Zero \in Value /\ Method \subseteq {"fork", "fork_v0", "dumbfork"}
  /\ NULL \notin Frame \cup Value \cup Entry \cup Handling \cup Job

VARIABLES
  method, \* the way this program forks
  mem,    \* frame -> what it holds
  pt,     \* environment -> page -> its frame and permissions, or NULL
  temp,   \* environment -> the frame at PFTEMP or UTEMP, or NULL
  ux,     \* environment -> the frame of its exception stack, or NULL
  upcall, \* the environments with a page-fault upcall
  pc,     \* environment -> where it is
  job,    \* environment -> what its fork is at: the child, the place in Layout and
          \* the entry it read there
  fault   \* environment -> the page it has a fault on, or NULL

frames == <<mem, temp, ux>>
vars == <<method, frames, pt, upcall, pc, job, fault>>

Mapped == {pt[x[1]][x[2]].frame : x \in {y \in Env \X Page : pt[y[1]][y[2]] # NULL}}
Free == Frame \ (Mapped \cup {temp[e] : e \in Env} \cup {ux[e] : e \in Env})
Lowest(S) == CHOOSE f \in S : \A g \in S : f <= g

Can(e, p, right) == pt[e][p] # NULL /\ right \in pt[e][p].perm
Writable(e, p) == Can(e, p, "W")
Goto(e, place) == pc' = [pc EXCEPT ![e] = place]

-----------------------------------------------------------------------------
(* Stores, and pgfault() when the page is copy-on-write.                   *)

\* A program stores where it likes; the code of fork() only on its stack.
Stores(e, p) ==
  /\ pc[e] \notin {"none", "embryo"} /\ fault[e] = NULL
  /\ pc[e] = "user" \/ p = Stack
  /\ pt[e][p] # NULL /\ p \notin Text

Store(e) ==
  \E p \in Page, v \in Value :
    /\ Stores(e, p) /\ Writable(e, p)
    /\ mem' = [mem EXCEPT ![pt[e][p].frame] = v]
    /\ UNCHANGED <<method, temp, ux, pt, upcall, pc, job, fault>>

\* The kernel turns to the upcall, on the exception stack.
Trap(e) ==
  \E p \in Page :
    /\ Stores(e, p) /\ ~Writable(e, p)
    /\ e \in upcall /\ ux[e] # NULL
    /\ fault' = [fault EXCEPT ![e] = [page |-> p, at |-> "alloc"]]
    /\ UNCHANGED <<method, frames, pt, upcall, pc, job>>

Faulted(e, at) == fault[e] # NULL /\ fault[e].at = at
NextCall(e, at) == fault' = [fault EXCEPT ![e].at = at]

PfAlloc(e) ==
  /\ Faulted(e, "alloc") /\ NextCall(e, "copy")
  /\ Can(e, fault[e].page, "COW") /\ Free # {}
  /\ temp' = [temp EXCEPT ![e] = Lowest(Free)]
  /\ UNCHANGED <<method, mem, ux, pt, upcall, pc, job>>

PfCopy_Nothing(e) ==
  /\ Faulted(e, "copy") /\ NextCall(e, "map")
  /\ UNCHANGED <<method, frames, pt, upcall, pc, job>>

PfCopy(e) ==
  /\ Faulted(e, "copy") /\ NextCall(e, "map")
  /\ mem' = [mem EXCEPT ![temp[e]] = mem[pt[e][fault[e].page].frame]]
  /\ UNCHANGED <<method, temp, ux, pt, upcall, pc, job>>

\* The old frame may be free now; what a free frame holds does not matter.
PfMap(e) ==
  /\ Faulted(e, "map") /\ NextCall(e, "unmap")
  /\ pt' = [pt EXCEPT ![e][fault[e].page] = [frame |-> temp[e], perm |-> {"W"}]]
  /\ UNCHANGED <<method, temp, ux, upcall, pc, job>>
  /\ mem' = [f \in Frame |-> IF f \in Free' THEN Zero ELSE mem[f]]

PfUnmap_Leaks(e) ==
  /\ Faulted(e, "unmap") /\ fault' = [fault EXCEPT ![e] = NULL]
  /\ UNCHANGED <<method, frames, pt, upcall, pc, job>>

\* The store is tried again when the handler has returned.
PfUnmap(e) ==
  /\ Faulted(e, "unmap") /\ fault' = [fault EXCEPT ![e] = NULL]
  /\ temp' = [temp EXCEPT ![e] = NULL]
  /\ UNCHANGED <<method, mem, ux, pt, upcall, pc, job>>

-----------------------------------------------------------------------------
(* The three ways to fork.                                                 *)

Forking(e, at) == pc[e] = at /\ fault[e] = NULL
Child(e) == job[e].child
Here(e) == Layout[job[e].n]

Exofork_OneStack(e, c) ==
  /\ Forking(e, "user") /\ pc[c] = "none"
  /\ pc' = [pc EXCEPT ![e] = "read", ![c] = "embryo"]
  /\ job' = [job EXCEPT ![e] = [child |-> c, n |-> 1, pte |-> NULL]]
  /\ upcall' = upcall \cup {e, c}
  /\ LET mine == IF ux[e] = NULL THEN Lowest(Free) ELSE ux[e]
     IN  ux' = [ux EXCEPT ![e] = mine, ![c] = mine]
  /\ UNCHANGED <<method, mem, temp, pt, fault>>

\* set_pgfault_handler(), sys_exofork(), and the child's exception stack and upcall.
Exofork(e, c) ==
  /\ Forking(e, "user") /\ pc[c] = "none"
  /\ pc' = [pc EXCEPT ![e] = "read", ![c] = "embryo"]
  /\ job' = [job EXCEPT ![e] = [child |-> c, n |-> 1, pte |-> NULL]]
  /\ IF method = "fork"
     THEN /\ upcall' = upcall \cup {e, c}
          /\ LET mine == IF ux[e] = NULL THEN Lowest(Free) ELSE ux[e]
             IN  /\ Free \ {mine} # {}
                 /\ ux' = [ux EXCEPT ![e] = mine, ![c] = Lowest(Free \ {mine})]
     ELSE UNCHANGED <<upcall, ux>>
  /\ UNCHANGED <<method, mem, temp, pt, fault>>

\* The entry of the next page is read before anything is done about it; dumbfork
\* copies what is there without a look.
ReadPte(e) ==
  /\ Forking(e, "read") /\ job[e].n \in DOMAIN Layout
  /\ \/ /\ pt[e][Here(e)] = NULL
        /\ job' = [job EXCEPT ![e].n = @ + 1] /\ UNCHANGED pc
     \/ /\ pt[e][Here(e)] # NULL /\ Goto(e, "dup")
        /\ job' = [job EXCEPT ![e].pte = pt[e][Here(e)]]
  /\ UNCHANGED <<method, frames, pt, upcall, fault>>

Was(e, right) == right \in job[e].pte.perm
NextPage(e) ==
  /\ Goto(e, "read")
  /\ job' = [job EXCEPT ![e].n = @ + 1, ![e].pte = NULL]

\* sys_page_map() of what the page is now, with other permissions.
MapChild(e, perm) ==
  pt' = [pt EXCEPT ![Child(e)][Here(e)] = [frame |-> pt[e][Here(e)].frame, perm |-> perm]]

DupPage_NoShare(e) ==
  /\ Forking(e, "dup") /\ method = "fork"
  /\ \/ /\ Was(e, "W") \/ Was(e, "COW")
        /\ MapChild(e, {"COW"}) /\ Goto(e, "own") /\ UNCHANGED job
     \/ /\ ~Was(e, "W") /\ ~Was(e, "COW")
        /\ MapChild(e, {}) /\ NextPage(e)
  /\ UNCHANGED <<method, frames, upcall, fault>>

\* duppage(): a writable or copy-on-write page is mapped copy-on-write in the child,
\* then in the parent.
DupPage(e) ==
  /\ Forking(e, "dup") /\ method = "fork"
  /\ \/ Was(e, "SHARE") /\ MapChild(e, job[e].pte.perm) /\ NextPage(e)
     \/ /\ ~Was(e, "SHARE") /\ (Was(e, "W") \/ Was(e, "COW"))
        /\ MapChild(e, {"COW"}) /\ Goto(e, "own") /\ UNCHANGED job
     \/ /\ ~Was(e, "SHARE") /\ ~Was(e, "W") /\ ~Was(e, "COW")
        /\ MapChild(e, {}) /\ NextPage(e)
  /\ UNCHANGED <<method, frames, upcall, fault>>

DupOwn_IfWritable(e) ==
  /\ Forking(e, "own") /\ NextPage(e)
  /\ pt' = IF Was(e, "COW") THEN pt ELSE [pt EXCEPT ![e][Here(e)].perm = {"COW"}]
  /\ UNCHANGED <<method, frames, upcall, fault>>

DupOwn(e) ==
  /\ Forking(e, "own") /\ NextPage(e)
  /\ pt' = [pt EXCEPT ![e][Here(e)].perm = {"COW"}]
  /\ UNCHANGED <<method, frames, upcall, fault>>

\* dup_or_share() maps what is not writable; otherwise, and dumbfork always, a page is
\* allocated in the child and mapped at UTEMP.
DupOrShare(e) ==
  /\ Forking(e, "dup") /\ method # "fork"
  /\ \/ /\ method = "fork_v0" /\ ~Was(e, "W")
        /\ MapChild(e, job[e].pte.perm) /\ NextPage(e) /\ UNCHANGED temp
     \/ /\ method = "dumbfork" \/ Was(e, "W")
        /\ Free # {} /\ temp' = [temp EXCEPT ![e] = Lowest(Free)]
        /\ pt' = [pt EXCEPT ![Child(e)][Here(e)] = [frame |-> Lowest(Free), perm |-> {"W"}]]
        /\ Goto(e, "copy") /\ UNCHANGED job
  /\ UNCHANGED <<method, mem, ux, upcall, fault>>

CopyPage(e) ==
  /\ Forking(e, "copy") /\ NextPage(e)
  /\ mem' = [mem EXCEPT ![temp[e]] = mem[pt[e][Here(e)].frame]]
  /\ temp' = [temp EXCEPT ![e] = NULL]
  /\ UNCHANGED <<method, ux, pt, upcall, fault>>

\* sys_env_set_status(), and fork() returns in both.
Start(e) ==
  /\ Forking(e, "read") /\ job[e].n \notin DOMAIN Layout
  /\ pc' = [pc EXCEPT ![e] = "user", ![Child(e)] = "user"]
  /\ job' = [job EXCEPT ![e] = NULL]
  /\ UNCHANGED <<method, frames, pt, upcall, fault>>

-----------------------------------------------------------------------------
(* The specification.                                                      *)

\* A program as it was loaded; only one that uses fork() has shared pages, as the
\* programs of the other two open no files.
Loaded(p) == p \notin Shared \/ method = "fork"
Rights(p) == IF p \in Text THEN {} ELSE IF p \in Shared THEN {"W", "SHARE"} ELSE {"W"}
Place(p) == CHOOSE i \in DOMAIN Layout : Layout[i] = p

Init ==
  /\ method \in Method
  /\ mem = [f \in Frame |-> Zero]
  /\ pt = [e \in Env |-> [p \in Page |->
             IF e = First /\ Loaded(p) THEN [frame |-> Place(p), perm |-> Rights(p)] ELSE NULL]]
  /\ temp = [e \in Env |-> NULL] /\ ux = [e \in Env |-> NULL] /\ upcall = {}
  /\ pc = [e \in Env |-> IF e = First THEN "user" ELSE "none"]
  /\ job = [e \in Env |-> NULL] /\ fault = [e \in Env |-> NULL]

Step(e) ==
  \/ Store(e) \/ Trap(e) \/ PfAlloc(e) \/ PfCopy(e) \/ PfMap(e) \/ PfUnmap(e)
  \/ ReadPte(e) \/ DupPage(e) \/ DupOwn(e) \/ DupOrShare(e) \/ CopyPage(e) \/ Start(e)
  \/ \E c \in Env : Exofork(e, c)

Next == \E e \in Env : Step(e)

Spec == Init /\ [][Next]_vars

-----------------------------------------------------------------------------
(* Properties.                                                             *)

TypeOK ==
  /\ mem \in [Frame -> Value]
  /\ pt \in [Env -> [Page -> Entry \cup {NULL}]]
  /\ temp \in [Env -> Frame \cup {NULL}] /\ ux \in [Env -> Frame \cup {NULL}]
  /\ upcall \subseteq Env
  /\ pc \in [Env -> {"none", "embryo", "user", "read", "dup", "own", "copy"}]
  /\ \A e \in Env : fault[e] # NULL => fault[e].page \in Page
  /\ \A e \in Env : temp[e] # NULL => fault[e] # NULL \/ pc[e] = "copy"

\* The page at which e is between the mapping for the child and its own.
Half(e, p) == pc[e] = "own" /\ p = Here(e)

\* A private page that can be written is in one place only: no other mapping, no
\* exception stack and no temporary page has its frame, except while the parent is
\* between the two sys_page_map of duppage() (fork.c:89-93).
WritableIsAlone ==
  \A e, q \in Env, p, r \in Page :
    /\ Writable(e, p) /\ ~Can(e, p, "SHARE") /\ pt[q][r] # NULL /\ <<e, p>> # <<q, r>>
    /\ pt[q][r].frame = pt[e][p].frame
    => Half(e, p) /\ q = Child(e) /\ r = p

\* Whoever has a copy-on-write page can take the fault: it has an upcall and an
\* exception stack of its own, which nobody else maps and no fork marks.
CowHasHandler ==
  \A e \in Env :
    (\E p \in Page : Can(e, p, "COW")) /\ pc[e] # "none" =>
      /\ e \in upcall /\ ux[e] \in Frame \ Mapped
      /\ \A q \in Env \ {e} : ux[q] # ux[e]

\* What the run checks of every state: its parts are explained above.
CowIsSafe == TypeOK /\ WritableIsAlone /\ CowHasHandler

\* What an environment reads.  A page of an embryo counts once its value is fixed: it is
\* not while the parent can still write to the same frame, or has not copied it yet.
Unfixed(q, p) ==
  \E e \in Env :
    /\ pc[e] \in {"own", "copy"} /\ Child(e) = q /\ Here(e) = p
    /\ pc[e] = "own" => Writable(e, p) /\ pt[e][p].frame = pt[q][p].frame
Reads(q, p) == IF pt[q][p] = NULL \/ Unfixed(q, p) THEN NULL ELSE mem[pt[q][p].frame]

\* A fault and its handling are invisible: nothing that anybody reads changes by it.
FaultIsTransparent ==
  [][\A e \in Env : fault'[e] # fault[e] =>
       \A q \in Env, p \in Page : Reads(q, p)' = Reads(q, p)]_vars

Stage(e) == IF pc[e] \in {"none", "embryo"} THEN pc[e] ELSE "live"

Promise == INSTANCE Snapshot WITH
  space <- [e \in Env |-> [p \in Page |-> Reads(e, p)]],
  stage <- [e \in Env |-> Stage(e)]

\* fork() gives the child a snapshot, and afterwards no write to a private page of one
\* is ever seen by the other, whichever of them copies first (fork.c:14-62, 75-102).
ForkIsSnapshot == Promise!Spec
=============================================================================
