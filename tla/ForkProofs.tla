----------------------------- MODULE ForkProofs -----------------------------
(***************************************************************************)
(* fork() keeps its promise: a proof about Fork for any number of          *)
(* environments, pages and frames, any layout, and the three ways to fork. *)
(* The inductive invariant says who may have which frame, and with which   *)
(* rights, at every step of every fork and of every page fault; from it,   *)
(* every step is a step of Snapshot or changes nothing there.              *)
(***************************************************************************)
EXTENDS Fork, Facts, TLAPS

-----------------------------------------------------------------------------
(* The inductive invariant.                                                *)

Forker(e) == pc[e] \in {"read", "dup", "own", "copy"}
Live(e) == pc[e] \notin {"none", "embryo"}

Types ==
  /\ method \in Method
  /\ mem \in [Frame -> Value]
  /\ pt \in [Env -> [Page -> Entry \cup {NULL}]]
  /\ temp \in [Env -> Frame \cup {NULL}] /\ ux \in [Env -> Frame \cup {NULL}]
  /\ upcall \subseteq Env
  /\ pc \in [Env -> {"none", "embryo", "user", "read", "dup", "own", "copy"}]
  /\ job \in [Env -> Job \cup {NULL}]
  /\ fault \in [Env -> Handling \cup {NULL}]

\* Every fork has a child of its own, which does not run.
Forks ==
  /\ \A e \in Env : Forker(e) <=> job[e] # NULL
  /\ \A e \in Env : Forker(e) => pc[Child(e)] = "embryo"
  /\ \A e, q \in Env : Forker(e) /\ Forker(q) /\ Child(e) = Child(q) => e = q
  /\ \A e \in Env : pc[e] \in {"dup", "own", "copy"} =>
       job[e].n \in DOMAIN Layout /\ pt[e][Here(e)] # NULL /\ job[e].pte # NULL
  /\ \A e \in Env : pc[e] = "copy" => method # "fork"
  /\ \A e \in Env : pc[e] = "own" => method = "fork" /\ Here(e) \notin Text \cup Shared

\* What does not run has no fault, and a free slot has nothing.
Idle ==
  /\ \A e \in Env : ~Live(e) => fault[e] = NULL
  /\ \A e \in Env : pc[e] = "none" =>
       ux[e] = NULL /\ e \notin upcall /\ \A p \in Page : pt[e][p] = NULL

\* The pages that the parent has done, or has mapped for the child already.
Done(e, i) == i < job[e].n \/ (i = job[e].n /\ pc[e] \in {"own", "copy"})

\* The child has the pages that the parent has done.
Progress ==
  \A e \in Env, i \in DOMAIN Layout :
    Forker(e) => (pt[Child(e)][Layout[i]] # NULL <=> pt[e][Layout[i]] # NULL /\ Done(e, i))

\* The rights a page may have, by what it is for.
Lawful(p, perm) ==
  \/ p \in Text /\ perm = {}
  \/ p \in Text /\ method = "dumbfork" /\ perm = {"W"}
  \/ p \in Shared \ Text /\ method = "fork" /\ perm = {"W", "SHARE"}
  \/ p \notin Text \cup Shared /\ perm = {"W"}
  \/ p \notin Text \cup Shared /\ method = "fork" /\ perm = {"COW"}

Rightful ==
  /\ \A e \in Env, p \in Page : pt[e][p] # NULL => Lawful(p, pt[e][p].perm)
  /\ \A e \in Env : pc[e] \in {"dup", "own", "copy"} => Lawful(Here(e), job[e].pte.perm)

\* Who can have a copy-on-write page has an upcall and an exception stack.
Handlers ==
  /\ \A e \in Env : e \in upcall <=> ux[e] # NULL
  /\ method # "fork" => upcall = {}
  /\ method = "fork" => \A e \in Env : Forker(e) \/ pc[e] = "embryo" => e \in upcall
  /\ \A e \in Env, p \in Page : Can(e, p, "COW") => e \in upcall

\* What a fault is at.
Faults ==
  /\ \A e \in Env : temp[e] # NULL <=>
       pc[e] = "copy" \/ (fault[e] # NULL /\ fault[e].at # "alloc")
  /\ \A e \in Env : fault[e] # NULL =>
       /\ e \in upcall /\ pt[e][fault[e].page] # NULL
       /\ fault[e].at # "unmap" => Can(e, fault[e].page, "COW")
  /\ \A e \in Env : Faulted(e, "map") => mem[temp[e]] = mem[pt[e][fault[e].page].frame]

\* The one mapping of a temporary page: the page it was made for.
Twin(e, q, p) ==
  \/ Faulted(e, "unmap") /\ q = e /\ p = fault[e].page
  \/ pc[e] = "copy" /\ q = Child(e) /\ p = Here(e)

SameFrame(e, p, q, r) == pt[e][p] # NULL /\ pt[q][r] # NULL /\ pt[e][p].frame = pt[q][r].frame

\* Whose a frame is.
Owners ==
  /\ \A e, q \in Env, p, r \in Page : SameFrame(e, p, q, r) => p = r
  /\ \A e, q \in Env, p \in Shared \ Text :
       pt[e][p] # NULL /\ pt[q][p] # NULL => pt[e][p].frame = pt[q][p].frame
  /\ \A e, q \in Env, p \in Page : pt[e][p] # NULL /\ ux[q] # NULL => pt[e][p].frame # ux[q]
  /\ \A e, q \in Env : temp[e] # NULL => temp[e] # ux[q]
  /\ \A e, q \in Env : e # q /\ ux[e] # NULL => ux[e] # ux[q]
  /\ \A e, q \in Env : e # q /\ temp[e] # NULL => temp[e] # temp[q]
  /\ \A e, q \in Env, p \in Page :
       temp[e] # NULL /\ pt[q][p] # NULL /\ pt[q][p].frame = temp[e] => Twin(e, q, p)
  /\ \A e, q \in Env, p \in Page :
       temp[e] # NULL /\ Twin(e, q, p) => pt[q][p] # NULL /\ pt[q][p].frame = temp[e]

\* Only the parent between the two maps of duppage() can write what another maps.
Alone ==
  \A e, q \in Env, p \in Page :
    Writable(e, p) /\ ~Can(e, p, "SHARE") /\ SameFrame(e, p, q, p) /\ q # e
      => Half(e, p) /\ q = Child(e)

ForkInv ==
  /\ Types /\ Forks /\ Idle /\ Progress /\ Rightful /\ Handlers /\ Faults /\ Owners /\ Alone

-----------------------------------------------------------------------------
(* What follows from the assumption and from the types.                    *)

LEMMA Constants ==
  /\ First \in Env /\ Stack \in Page /\ Text \subseteq Page /\ Shared \subseteq Page
  /\ Stack \notin Text \cup Shared
  /\ Frame \subseteq Nat /\ Zero \in Value
  /\ NULL \notin Frame /\ NULL \notin Value /\ NULL \notin Entry /\ NULL \notin Handling
  /\ NULL \notin Job
  /\ Len(Layout) \in Nat /\ DOMAIN Layout = 1..Len(Layout) /\ DOMAIN Layout \subseteq Frame
  /\ \A i \in DOMAIN Layout : Layout[i] \in Page
  /\ \A i, j \in DOMAIN Layout : Layout[i] = Layout[j] => i = j
  /\ \A p \in Page : \E i \in DOMAIN Layout : Layout[i] = p
<1>1. Layout \in Seq(Page)
  BY ForkAssumption
<1>2. Len(Layout) \in Nat /\ DOMAIN Layout = 1..Len(Layout)
  BY <1>1
<1>3. \A i \in DOMAIN Layout : Layout[i] \in Page
  BY DEF Page
<1>4. \A p \in Page : \E i \in DOMAIN Layout : Layout[i] = p
  BY DEF Page
<1> QED
  BY <1>2, <1>3, <1>4, ForkAssumption

LEMMA TypeFacts ==
  ASSUME Types
  PROVE  /\ \A e \in Env, p \in Page : pt[e][p] # NULL =>
              /\ pt[e][p] \in Entry /\ pt[e][p].frame \in Frame /\ pt[e][p].frame # NULL
              /\ pt[e][p].perm \subseteq {"W", "COW", "SHARE"}
         /\ \A e \in Env : job[e] # NULL =>
              /\ job[e] \in Job /\ Child(e) \in Env /\ job[e].n \in 1..(Len(Layout)+1)
              /\ job[e].n \in DOMAIN Layout => Here(e) \in Page
         /\ \A e \in Env : fault[e] # NULL =>
              fault[e] \in Handling /\ fault[e].page \in Page
              /\ fault[e].at \in {"alloc", "copy", "map", "unmap"}
<1>1. ASSUME NEW e \in Env, NEW p \in Page, pt[e][p] # NULL
      PROVE  /\ pt[e][p] \in Entry /\ pt[e][p].frame \in Frame /\ pt[e][p].frame # NULL
             /\ pt[e][p].perm \subseteq {"W", "COW", "SHARE"}
  <2>1. pt[e][p] \in Entry
    BY <1>1 DEF Types
  <2> QED
    BY <2>1, Constants DEF Entry
<1>2. ASSUME NEW e \in Env, job[e] # NULL
      PROVE  /\ job[e] \in Job /\ Child(e) \in Env /\ job[e].n \in 1..(Len(Layout)+1)
             /\ job[e].n \in DOMAIN Layout => Here(e) \in Page
  <2>1. job[e] \in Job
    BY <1>2 DEF Types
  <2> QED
    BY <2>1, Constants DEF Job, Child, Here
<1>3. ASSUME NEW e \in Env, fault[e] # NULL
      PROVE  /\ fault[e] \in Handling /\ fault[e].page \in Page
             /\ fault[e].at \in {"alloc", "copy", "map", "unmap"}
  <2>1. fault[e] \in Handling
    BY <1>3 DEF Types
  <2> QED
    BY <2>1 DEF Handling
<1> QED
  BY <1>1, <1>2, <1>3

\* The frames of a page table.
FramesOf(t) == {t[x[1]][x[2]].frame : x \in {y \in Env \X Page : t[y[1]][y[2]] # NULL}}

LEMMA FramesAre ==
  ASSUME NEW t, NEW f
  PROVE  f \in FramesOf(t) <=> \E e \in Env, p \in Page : t[e][p] # NULL /\ t[e][p].frame = f
<1>1. ASSUME NEW e \in Env, NEW p \in Page, t[e][p] # NULL, t[e][p].frame = f
      PROVE  f \in FramesOf(t)
  <2>1. <<e, p>> \in {y \in Env \X Page : t[y[1]][y[2]] # NULL}
    BY <1>1
  <2>2. t[<<e, p>>[1]][<<e, p>>[2]].frame = f
    BY <1>1
  <2> QED
    BY <2>1, <2>2 DEF FramesOf
<1> QED
  BY <1>1 DEF FramesOf

LEMMA FreeIs ==
  ASSUME NEW f \in Free
  PROVE  /\ f \in Frame
         /\ \A e \in Env, p \in Page : pt[e][p] # NULL => pt[e][p].frame # f
         /\ \A e \in Env : temp[e] # f /\ ux[e] # f
<1>1. Mapped = FramesOf(pt)
  BY DEF Mapped, FramesOf
<1> QED
  BY <1>1, FramesAre DEF Free

LEMMA LowestIs ==
  ASSUME NEW S, S \subseteq Free, S # {}
  PROVE  Lowest(S) \in S
<1>1. S \in SUBSET Nat
  BY Constants DEF Free
<1>2. \E f \in S : \A g \in S : f <= g
  BY <1>1, LeastExists
<1> QED
  BY <1>2 DEF Lowest

LEMMA InvHoldsAtStart == Init => ForkInv
<1> SUFFICES ASSUME Init PROVE ForkInv
  OBVIOUS
<1> USE DEF Init
<1>1. \A p \in Page : Place(p) \in DOMAIN Layout /\ Layout[Place(p)] = p
  BY Constants DEF Place
<1>2. \A p \in Page : [frame |-> Place(p), perm |-> Rights(p)] \in Entry
  BY <1>1, Constants DEF Entry, Rights
<1>3. \A e \in Env, p \in Page :
        pt[e][p] = IF e = First /\ Loaded(p) THEN [frame |-> Place(p), perm |-> Rights(p)] ELSE NULL
  OBVIOUS
<1>4. \A e \in Env, p \in Page : pt[e][p] # NULL =>
        e = First /\ pt[e][p].frame = Place(p) /\ pt[e][p].perm = Rights(p) /\ Loaded(p)
  BY <1>3
<1>5. Types
  BY <1>2, Constants DEF Types
<1>6. Forks /\ Idle /\ Progress
  BY <1>4 DEF Forks, Idle, Progress, Forker, Live
<1>7. Rightful
  BY <1>4 DEF Rightful, Lawful, Rights, Loaded
<1>8. Handlers /\ Faults
  BY <1>4, Constants DEF Handlers, Faults, Faulted, Forker, Can, Rights
<1>9. Owners
  <2>1. \A e, q \in Env, p, r \in Page : SameFrame(e, p, q, r) => p = r /\ e = q
    BY <1>1, <1>4 DEF SameFrame
  <2>2. \A e \in Env : temp[e] = NULL /\ ux[e] = NULL
    OBVIOUS
  <2> QED
    BY <1>4, <2>1, <2>2, Constants DEF Owners
<1>10. Alone
  BY <1>4 DEF Alone, SameFrame, Writable, Can
<1> QED
  BY <1>5, <1>6, <1>7, <1>8, <1>9, <1>10 DEF ForkInv

-----------------------------------------------------------------------------
(* Stores and faults.                                                      *)

LEMMA InvFacts ==
  ASSUME ForkInv
  PROVE  /\ Types /\ Forks /\ Idle /\ Progress /\ Rightful /\ Handlers /\ Faults /\ Owners /\ Alone
  BY DEF ForkInv

\* What can be written, and is not a shared page, is nobody else's but the child's
\* of the fork that is at that page.
LEMMA WriterIsAlone ==
  ASSUME ForkInv, NEW e \in Env, NEW p \in Page, Writable(e, p), NEW q \in Env, NEW r \in Page,
         SameFrame(e, p, q, r), q # e, Live(q)
  PROVE  r = p /\ p \in Shared \ Text /\ Can(q, p, "SHARE")
<1>1. r = p
  BY InvFacts DEF Owners
<1>2. CASE Can(e, p, "SHARE")
  <2>1. p \in Shared \ Text
    BY <1>2, InvFacts DEF Rightful, Lawful, Can
  <2> QED
    BY <1>1, <2>1, InvFacts DEF Rightful, Lawful, Can, SameFrame
<1>3. CASE ~Can(e, p, "SHARE")
  <2>1. Half(e, p) /\ q = Child(e)
    BY <1>1, <1>3, InvFacts DEF Alone
  <2>2. pc[q] = "embryo"
    BY <2>1, InvFacts DEF Half, Forks, Forker
  <2> QED
    BY <2>2 DEF Live
<1> QED
  BY <1>2, <1>3

\* While a fault is handled nobody else writes to the page or to the new copy.
LEMMA FaultIsPrivate ==
  ASSUME ForkInv, NEW e \in Env, fault[e] # NULL, fault[e].at # "unmap"
  PROVE  /\ Live(e) /\ pc[e] # "copy" /\ fault[e].page \in Page
         /\ fault[e].page \notin Text \cup Shared /\ method = "fork"
         /\ ~Writable(e, fault[e].page)
         /\ temp[e] # NULL => \A q \in Env, p \in Page : pt[q][p] # NULL => pt[q][p].frame # temp[e]
         /\ \A q \in Env, p \in Page : Writable(q, p) => ~SameFrame(q, p, e, fault[e].page)
<1>1. Live(e) /\ e \in upcall /\ Can(e, fault[e].page, "COW") /\ fault[e].page \in Page
  BY InvFacts, TypeFacts DEF Idle, Faults
<1>2. method = "fork" /\ pc[e] # "copy"
  BY <1>1, InvFacts DEF Handlers, Forks
<1>3. Lawful(fault[e].page, pt[e][fault[e].page].perm)
  BY <1>1, InvFacts DEF Rightful, Can
<1>4. fault[e].page \notin Text \cup Shared /\ ~Writable(e, fault[e].page)
  BY <1>1, <1>3 DEF Lawful, Can, Writable
<1>5. temp[e] # NULL => \A q \in Env, p \in Page : pt[q][p] # NULL => pt[q][p].frame # temp[e]
  BY <1>2, InvFacts DEF Owners, Twin, Faulted
<1>6. \A q \in Env, p \in Page : Writable(q, p) => ~SameFrame(q, p, e, fault[e].page)
  <2> SUFFICES ASSUME NEW q \in Env, NEW p \in Page, Writable(q, p), SameFrame(q, p, e, fault[e].page)
               PROVE  FALSE
    OBVIOUS
  <2>1. CASE q = e
    BY <1>1, <1>4, <2>1, InvFacts DEF Owners
  <2>2. CASE q # e
    BY <1>1, <1>4, <2>2, WriterIsAlone
  <2> QED
    BY <2>1, <2>2
<1> QED
  BY <1>1, <1>2, <1>4, <1>5, <1>6

LEMMA StoreKeeps ==
  ASSUME ForkInv, NEW e \in Env, Store(e)
  PROVE  ForkInv'
<1>1. PICK p \in Page, v \in Value :
        /\ Stores(e, p) /\ Writable(e, p)
        /\ mem' = [mem EXCEPT ![pt[e][p].frame] = v]
        /\ UNCHANGED <<method, temp, ux, pt, upcall, pc, job, fault>>
  BY DEF Store
<1>2. Types'
  BY <1>1, InvFacts DEF Types
<1>3. (Forks /\ Idle /\ Progress)'
  BY <1>1, InvFacts DEF Forks, Idle, Progress, Forker, Live, Child, Here, Done
<1>4. (Rightful /\ Handlers)'
  BY <1>1, InvFacts DEF Rightful, Lawful, Handlers, Can, Forker, Here
<1>5. (Owners /\ Alone)'
  BY <1>1, InvFacts DEF Owners, Alone, SameFrame, Twin, Faulted, Writable, Can, Half, Child, Here
<1>6. \A q \in Env : Faulted(q, "map") => mem'[temp[q]] = mem'[pt[q][fault[q].page].frame]
  <2> SUFFICES ASSUME NEW q \in Env, Faulted(q, "map")
               PROVE  mem'[temp[q]] = mem'[pt[q][fault[q].page].frame]
    OBVIOUS
  <2>1. /\ temp[q] # NULL /\ pt[q][fault[q].page] # NULL /\ fault[q].page \in Page
        /\ mem[temp[q]] = mem[pt[q][fault[q].page].frame]
    BY InvFacts, TypeFacts DEF Faults, Faulted
  <2>2. /\ pt[e][p] # NULL /\ pt[e][p].frame # temp[q]
        /\ pt[e][p].frame # pt[q][fault[q].page].frame
    BY <1>1, <2>1, FaultIsPrivate DEF Faulted, Writable, Can, SameFrame
  <2>3. temp[q] \in Frame /\ pt[q][fault[q].page].frame \in Frame
    BY <2>1, InvFacts, TypeFacts DEF Types
  <2> QED
    BY <1>1, <2>1, <2>2, <2>3, InvFacts DEF Types
<1>7. Faults'
  BY <1>1, <1>6, InvFacts DEF Faults, Faulted, Can
<1> QED
  BY <1>2, <1>3, <1>4, <1>5, <1>7 DEF ForkInv

LEMMA TrapKeeps ==
  ASSUME ForkInv, NEW e \in Env, Trap(e)
  PROVE  ForkInv'
<1>1. PICK p \in Page :
        /\ Stores(e, p) /\ ~Writable(e, p) /\ e \in upcall /\ ux[e] # NULL
        /\ fault' = [fault EXCEPT ![e] = [page |-> p, at |-> "alloc"]]
        /\ UNCHANGED <<method, mem, temp, ux, pt, upcall, pc, job>>
  BY DEF Trap, frames
<1> DEFINE new == [page |-> p, at |-> "alloc"]
<1>2. new \in Handling /\ new # NULL /\ new.at = "alloc" /\ new.page = p
  BY Constants DEF Handling
<1>3. fault'[e] = new /\ \A q \in Env : q # e => fault'[q] = fault[q]
  BY <1>1, InvFacts DEF Types
<1>4. fault[e] = NULL /\ Live(e) /\ pt[e][p] # NULL /\ p \notin Text
  BY <1>1 DEF Stores, Live
<1>5. Can(e, p, "COW")
  BY <1>1, <1>4, InvFacts DEF Rightful, Lawful, Can, Writable
<1>6. Types'
  BY <1>1, <1>2, InvFacts DEF Types
<1> HIDE DEF new
<1>7. (Forks /\ Idle /\ Progress)'
  BY <1>1, <1>3, <1>4, InvFacts DEF Forks, Idle, Progress, Forker, Live, Child, Here, Done
<1>8. (Rightful /\ Handlers)'
  BY <1>1, InvFacts DEF Rightful, Lawful, Handlers, Can, Forker, Here
<1>9. Faults'
  BY <1>1, <1>2, <1>3, <1>4, <1>5, InvFacts DEF Faults, Faulted, Can
<1>10. \A x, q \in Env, r \in Page : temp[x] # NULL => (Twin(x, q, r)' <=> Twin(x, q, r))
  BY <1>1, <1>2, <1>3, <1>4, InvFacts DEF Twin, Faulted, Child, Here
<1>11. (Owners /\ Alone)'
  BY <1>1, <1>10, InvFacts DEF Owners, Alone, SameFrame, Writable, Can, Half, Child, Here
<1> QED
  BY <1>6, <1>7, <1>8, <1>9, <1>11 DEF ForkInv

\* The handler goes on to its next system call.
LEMMA NextCallIs ==
  ASSUME ForkInv, NEW e \in Env, NEW at \in {"copy", "map", "unmap"}, fault[e] # NULL,
         NextCall(e, at)
  PROVE  /\ fault'[e] \in Handling /\ fault'[e] # NULL
         /\ fault'[e].at = at /\ fault'[e].page = fault[e].page
         /\ \A q \in Env : q # e => fault'[q] = fault[q]
         /\ fault' \in [Env -> Handling \cup {NULL}]
<1>1. fault[e] \in Handling
  BY InvFacts, TypeFacts
<1>2. [fault[e] EXCEPT !.at = at] \in Handling
  BY <1>1 DEF Handling
<1>3. fault' = [fault EXCEPT ![e] = [fault[e] EXCEPT !.at = at]]
  BY DEF NextCall
<1> DEFINE new == [fault[e] EXCEPT !.at = at]
<1>4. new.at = at /\ new.page = fault[e].page /\ new \in Handling
  BY <1>1, <1>2 DEF Handling
<1>5. fault' = [fault EXCEPT ![e] = new]
  BY <1>3
<1> HIDE DEF new
<1>6. new # NULL
  BY <1>4, Constants
<1> QED
  BY <1>4, <1>5, <1>6, InvFacts DEF Types

LEMMA PfAllocKeeps ==
  ASSUME ForkInv, NEW e \in Env, PfAlloc(e)
  PROVE  ForkInv'
<1> DEFINE f == Lowest(Free)
<1>1. /\ fault[e] # NULL /\ fault[e].at = "alloc" /\ NextCall(e, "copy")
      /\ temp' = [temp EXCEPT ![e] = f] /\ f \in Free
      /\ UNCHANGED <<method, mem, ux, pt, upcall, pc, job>>
  BY LowestIs DEF PfAlloc, Faulted
<1> HIDE DEF f
<1>2. /\ fault'[e] # NULL /\ fault'[e].at = "copy" /\ fault'[e].page = fault[e].page
      /\ \A q \in Env : q # e => fault'[q] = fault[q]
      /\ fault' \in [Env -> Handling \cup {NULL}]
  BY <1>1, NextCallIs
<1>3. /\ f \in Frame /\ f # NULL
      /\ \A q \in Env, p \in Page : pt[q][p] # NULL => pt[q][p].frame # f
      /\ \A q \in Env : temp[q] # f /\ ux[q] # f
  BY <1>1, FreeIs, Constants
<1>4. temp'[e] = f /\ \A q \in Env : q # e => temp'[q] = temp[q]
  BY <1>1, InvFacts DEF Types
<1>5. Types'
  BY <1>1, <1>2, <1>3, InvFacts DEF Types
<1>6. (Forks /\ Idle /\ Progress)'
  BY <1>1, <1>2, InvFacts DEF Forks, Idle, Progress, Forker, Live, Child, Here, Done
<1>7. (Rightful /\ Handlers)'
  BY <1>1, InvFacts DEF Rightful, Lawful, Handlers, Can, Forker, Here
<1>8. Faults'
  BY <1>1, <1>2, <1>3, <1>4, InvFacts DEF Faults, Faulted, Can
<1>9. temp[e] = NULL /\ pc[e] # "copy"
  BY <1>1, FaultIsPrivate, InvFacts DEF Faults
<1>10. \A x, q \in Env, r \in Page : Twin(x, q, r)' <=> Twin(x, q, r)
  BY <1>1, <1>2, InvFacts DEF Twin, Faulted, Child, Here
<1>11. \A q \in Env, r \in Page : ~Twin(e, q, r)
  BY <1>1, <1>9 DEF Twin, Faulted
<1>12. Owners'
  BY <1>1, <1>3, <1>4, <1>10, <1>11, InvFacts DEF Owners, SameFrame
<1>13. Alone'
  BY <1>1, InvFacts DEF Alone, SameFrame, Writable, Can, Half, Child, Here
<1> QED
  BY <1>5, <1>6, <1>7, <1>8, <1>12, <1>13 DEF ForkInv

LEMMA PfCopyKeeps ==
  ASSUME ForkInv, NEW e \in Env, PfCopy(e)
  PROVE  ForkInv'
<1>1. /\ fault[e] # NULL /\ fault[e].at = "copy" /\ NextCall(e, "map")
      /\ mem' = [mem EXCEPT ![temp[e]] = mem[pt[e][fault[e].page].frame]]
      /\ UNCHANGED <<method, temp, ux, pt, upcall, pc, job>>
  BY DEF PfCopy, Faulted
<1>2. /\ fault'[e] # NULL /\ fault'[e].at = "map" /\ fault'[e].page = fault[e].page
      /\ \A q \in Env : q # e => fault'[q] = fault[q]
      /\ fault' \in [Env -> Handling \cup {NULL}]
  BY <1>1, NextCallIs
<1>3. /\ temp[e] # NULL /\ temp[e] \in Frame /\ fault[e].page \in Page
      /\ pt[e][fault[e].page] # NULL /\ pt[e][fault[e].page].frame \in Frame
      /\ \A q \in Env, p \in Page : pt[q][p] # NULL => pt[q][p].frame # temp[e]
  BY <1>1, FaultIsPrivate, InvFacts, TypeFacts DEF Faults, Types
<1>4. Types'
  BY <1>1, <1>2, <1>3, InvFacts DEF Types
<1>5. (Forks /\ Idle /\ Progress)'
  BY <1>1, <1>2, InvFacts DEF Forks, Idle, Progress, Forker, Live, Child, Here, Done
<1>6. (Rightful /\ Handlers)'
  BY <1>1, InvFacts DEF Rightful, Lawful, Handlers, Can, Forker, Here
<1>7. mem'[temp[e]] = mem[pt[e][fault[e].page].frame]
      /\ \A f \in Frame : f # temp[e] => mem'[f] = mem[f]
  BY <1>1, <1>3, InvFacts DEF Types
<1>8. \A q \in Env : Faulted(q, "map")' => (mem[temp[q]] = mem[pt[q][fault[q].page].frame])'
  <2> SUFFICES ASSUME NEW q \in Env, Faulted(q, "map")'
               PROVE  mem'[temp[q]] = mem'[pt[q][fault'[q].page].frame]
    BY <1>1
  <2>1. CASE q = e
    BY <1>2, <1>3, <1>7, <2>1
  <2>2. CASE q # e
    <3>1. /\ temp[q] # NULL /\ pt[q][fault[q].page] # NULL /\ fault[q].page \in Page
          /\ mem[temp[q]] = mem[pt[q][fault[q].page].frame] /\ fault'[q] = fault[q]
      BY <1>2, <2>2, InvFacts, TypeFacts DEF Faults, Faulted
    <3>2. temp[q] \in Frame /\ pt[q][fault[q].page].frame \in Frame /\ temp[q] # temp[e]
      BY <2>2, <3>1, InvFacts, TypeFacts DEF Types, Owners
    <3> QED
      BY <1>3, <1>7, <3>1, <3>2
  <2> QED
    BY <2>1, <2>2
<1>9. Faults'
  BY <1>1, <1>2, <1>8, InvFacts DEF Faults, Faulted, Can
<1>10. \A x, q \in Env, r \in Page : Twin(x, q, r)' <=> Twin(x, q, r)
  BY <1>1, <1>2, InvFacts DEF Twin, Faulted, Child, Here
<1>11. (Owners /\ Alone)'
  BY <1>1, <1>10, InvFacts DEF Owners, Alone, SameFrame, Writable, Can, Half, Child, Here
<1> QED
  BY <1>4, <1>5, <1>6, <1>9, <1>11 DEF ForkInv

\* What sys_page_map does in pgfault(), and what it leaves alone.
LEMMA PfMapIs ==
  ASSUME ForkInv, NEW e \in Env, PfMap(e), NEW h, h = fault[e].page
  PROVE  /\ fault[e] # NULL /\ fault[e].at = "map" /\ h \in Page /\ temp[e] \in Frame
         /\ UNCHANGED <<method, temp, ux, upcall, pc, job>>
         /\ fault'[e] # NULL /\ fault'[e].at = "unmap" /\ fault'[e].page = h
         /\ \A q \in Env : q # e => fault'[q] = fault[q]
         /\ pt'[e][h] = [frame |-> temp[e], perm |-> {"W"}] /\ pt'[e][h] # NULL
         /\ \A q \in Env, p \in Page : <<q, p>> # <<e, h>> => pt'[q][p] = pt[q][p]
         /\ \A f \in Frame : f \notin Free' => mem'[f] = mem[f]
         /\ Types'
<1>1. /\ fault[e] # NULL /\ fault[e].at = "map" /\ NextCall(e, "unmap")
      /\ pt' = [pt EXCEPT ![e][h] = [frame |-> temp[e], perm |-> {"W"}]]
      /\ UNCHANGED <<method, temp, ux, upcall, pc, job>>
      /\ mem' = [f \in Frame |-> IF f \in Free' THEN Zero ELSE mem[f]]
  BY DEF PfMap, Faulted
<1>2. /\ fault'[e] # NULL /\ fault'[e].at = "unmap" /\ fault'[e].page = h
      /\ \A q \in Env : q # e => fault'[q] = fault[q]
      /\ fault' \in [Env -> Handling \cup {NULL}]
  BY <1>1, NextCallIs
<1>3. temp[e] \in Frame /\ h \in Page
  BY <1>1, InvFacts, TypeFacts DEF Faults, Types
<1>4. [frame |-> temp[e], perm |-> {"W"}] \in Entry
  BY <1>3 DEF Entry
<1>5. /\ pt'[e][h] = [frame |-> temp[e], perm |-> {"W"}]
      /\ \A q \in Env, p \in Page : <<q, p>> # <<e, h>> => pt'[q][p] = pt[q][p]
      /\ pt' \in [Env -> [Page -> Entry \cup {NULL}]]
  BY <1>1, <1>3, <1>4, InvFacts DEF Types
<1>6. mem' \in [Frame -> Value] /\ \A f \in Frame : f \notin Free' => mem'[f] = mem[f]
  BY <1>1, InvFacts, Constants DEF Types
<1>7. Types'
  BY <1>1, <1>2, <1>5, <1>6, InvFacts DEF Types
<1>8. pt'[e][h] # NULL
  <2>1. pt'[e][h] \in Entry
    BY <1>4, <1>5
  <2> QED
    BY <2>1, Constants
<1> QED
  BY <1>1, <1>2, <1>3, <1>5, <1>6, <1>7, <1>8

LEMMA PfMapKeeps ==
  ASSUME ForkInv, NEW e \in Env, PfMap(e)
  PROVE  ForkInv'
<1> DEFINE h == fault[e].page
<1>1. /\ fault[e] # NULL /\ fault[e].at = "map" /\ h \in Page /\ temp[e] \in Frame
      /\ UNCHANGED <<method, temp, ux, upcall, pc, job>>
      /\ fault'[e] # NULL /\ fault'[e].at = "unmap" /\ fault'[e].page = h
      /\ \A q \in Env : q # e => fault'[q] = fault[q]
      /\ pt'[e][h] = [frame |-> temp[e], perm |-> {"W"}] /\ pt'[e][h] # NULL
      /\ \A q \in Env, p \in Page : <<q, p>> # <<e, h>> => pt'[q][p] = pt[q][p]
      /\ \A f \in Frame : f \notin Free' => mem'[f] = mem[f]
      /\ Types'
  BY PfMapIs
<1>2. /\ Live(e) /\ pc[e] # "copy" /\ method = "fork" /\ h \notin Text \cup Shared
      /\ pt[e][h] # NULL /\ temp[e] # NULL /\ Can(e, h, "COW") /\ e \in upcall
      /\ \A q \in Env, p \in Page : pt[q][p] # NULL => pt[q][p].frame # temp[e]
  BY <1>1, FaultIsPrivate, InvFacts DEF Faults
<1> HIDE DEF h
<1>3. \A q \in Env, p \in Page : pt'[q][p] # NULL <=> pt[q][p] # NULL
  BY <1>1, <1>2
<1>4. Forks'
  BY <1>1, <1>2, <1>3, InvFacts, TypeFacts DEF Forks, Forker, Child, Here
<1>5. Idle'
  BY <1>1, <1>2, <1>3, InvFacts DEF Idle, Live
<1>6. Progress'
  <2>1. \A x \in Env : Forker(x) => Child(x) \in Env
    BY InvFacts, TypeFacts DEF Forks
  <2> QED
    BY <1>1, <1>3, <2>1, InvFacts, Constants DEF Progress, Forker, Child, Done
<1>7. Rightful' /\ Handlers'
  BY <1>1, <1>2, InvFacts DEF Rightful, Lawful, Handlers, Can, Forker, Here
<1>8. \A q \in Env : Faulted(q, "map")' => (mem[temp[q]] = mem[pt[q][fault[q].page].frame])'
  <2> SUFFICES ASSUME NEW q \in Env, Faulted(q, "map")'
               PROVE  mem'[temp[q]] = mem'[pt'[q][fault'[q].page].frame]
    BY <1>1
  <2>1. q # e /\ fault'[q] = fault[q]
    BY <1>1 DEF Faulted
  <2>2. /\ temp[q] # NULL /\ pt[q][fault[q].page] # NULL /\ fault[q].page \in Page
        /\ mem[temp[q]] = mem[pt[q][fault[q].page].frame]
    BY <2>1, InvFacts, TypeFacts DEF Faults, Faulted
  <2>3. pt'[q][fault[q].page] = pt[q][fault[q].page]
    BY <1>1, <2>1, <2>2
  <2>4. temp[q] \in Frame /\ pt[q][fault[q].page].frame \in Frame
    BY <2>2, InvFacts, TypeFacts DEF Types
  <2>5. temp[q] \notin Free' /\ pt'[q][fault[q].page].frame \notin Free'
    <3>1. temp[q] \notin Free'
      BY <1>1 DEF Free
    <3>2. pt'[q][fault[q].page].frame \in Mapped'
      <4>1. Mapped' = FramesOf(pt')
        BY DEF Mapped, FramesOf
      <4> QED
        BY <2>2, <2>3, <4>1, FramesAre
    <3> QED
      BY <3>1, <3>2 DEF Free
  <2> QED
    BY <1>1, <2>1, <2>2, <2>3, <2>4, <2>5
<1>9. Faults'
  BY <1>1, <1>2, <1>8, InvFacts, TypeFacts DEF Faults, Faulted, Can
<1>10. \A x, q \in Env, r \in Page : x # e => (Twin(x, q, r)' <=> Twin(x, q, r))
  BY <1>1, InvFacts DEF Twin, Faulted, Child, Here
<1>11. \A q \in Env, r \in Page : Twin(e, q, r)' <=> q = e /\ r = h
  BY <1>1, <1>2 DEF Twin, Faulted
<1>12. Owners'
  <2>1. pt'[e][h].frame = temp[e]
    BY <1>1
  <2>2. \A x, q \in Env, p, r \in Page : SameFrame(x, p, q, r)' => p = r
    BY <1>1, <1>2, <2>1, InvFacts DEF Owners, SameFrame
  <2>3. \A x, q \in Env, p \in Shared \ Text :
          pt'[x][p] # NULL /\ pt'[q][p] # NULL => pt'[x][p].frame = pt'[q][p].frame
    BY <1>1, <1>2, Constants, InvFacts DEF Owners
  <2>4. \A x, q \in Env, p \in Page : pt'[x][p] # NULL /\ ux[q] # NULL => pt'[x][p].frame # ux[q]
    BY <1>1, <1>2, <2>1, InvFacts DEF Owners
  <2>5. \A x, q \in Env, p \in Page :
          temp[x] # NULL /\ pt'[q][p] # NULL /\ pt'[q][p].frame = temp[x] => Twin(x, q, p)'
    BY <1>1, <1>2, <2>1, <1>10, <1>11, InvFacts DEF Owners
  <2>6. \A x, q \in Env, p \in Page :
          temp[x] # NULL /\ Twin(x, q, p)' => pt'[q][p] # NULL /\ pt'[q][p].frame = temp[x]
    <3>1. \A x \in Env : x # e => ~Twin(x, e, h)
      BY <1>2, InvFacts DEF Twin, Forks
    <3> QED
      BY <1>1, <1>2, <2>1, <3>1, <1>10, <1>11, InvFacts DEF Owners
  <2> QED
    BY <1>1, <2>2, <2>3, <2>4, <2>5, <2>6, InvFacts DEF Owners
<1>13. Alone'
  BY <1>1, <1>2, <1>3, InvFacts DEF Alone, SameFrame, Writable, Can, Half, Child, Here
<1> QED
  BY <1>1, <1>4, <1>5, <1>6, <1>7, <1>9, <1>12, <1>13 DEF ForkInv

LEMMA PfUnmapKeeps ==
  ASSUME ForkInv, NEW e \in Env, PfUnmap(e)
  PROVE  ForkInv'
<1>1. /\ fault[e] # NULL /\ fault[e].at = "unmap"
      /\ fault' = [fault EXCEPT ![e] = NULL] /\ temp' = [temp EXCEPT ![e] = NULL]
      /\ UNCHANGED <<method, mem, ux, pt, upcall, pc, job>>
  BY DEF PfUnmap, Faulted
<1>2. /\ fault'[e] = NULL /\ \A q \in Env : q # e => fault'[q] = fault[q]
      /\ temp'[e] = NULL /\ \A q \in Env : q # e => temp'[q] = temp[q]
  BY <1>1, InvFacts DEF Types
<1>3. Types'
  BY <1>1, InvFacts DEF Types
<1>4. pc[e] # "copy" /\ Live(e)
  BY <1>1, InvFacts DEF Faults, Handlers, Forks, Idle
<1>5. (Forks /\ Idle /\ Progress)'
  BY <1>1, <1>2, InvFacts DEF Forks, Idle, Progress, Forker, Live, Child, Here, Done
<1>6. (Rightful /\ Handlers)'
  BY <1>1, InvFacts DEF Rightful, Lawful, Handlers, Can, Forker, Here
<1>7. Faults'
  BY <1>1, <1>2, <1>4, InvFacts DEF Faults, Faulted, Can
<1>8. \A x, q \in Env, r \in Page : x # e => (Twin(x, q, r)' <=> Twin(x, q, r))
  BY <1>1, <1>2, InvFacts DEF Twin, Faulted, Child, Here
<1>9. Owners'
  BY <1>1, <1>2, <1>8, InvFacts DEF Owners, SameFrame
<1>10. Alone'
  BY <1>1, InvFacts DEF Alone, SameFrame, Writable, Can, Half, Child, Here
<1> QED
  BY <1>3, <1>5, <1>6, <1>7, <1>9, <1>10 DEF ForkInv

-----------------------------------------------------------------------------
(* Forks.                                                                  *)

LEMMA ExoforkKeeps ==
  ASSUME ForkInv, NEW e \in Env, NEW c \in Env, Exofork(e, c)
  PROVE  ForkInv'
<1> DEFINE new == [child |-> c, n |-> 1, pte |-> NULL]
<1>1. /\ pc[e] = "user" /\ fault[e] = NULL /\ pc[c] = "none" /\ e # c
      /\ pc' = [pc EXCEPT ![e] = "read", ![c] = "embryo"]
      /\ job' = [job EXCEPT ![e] = new]
      /\ UNCHANGED <<method, mem, temp, pt, fault>>
  BY DEF Exofork, Forking
<1>2. new \in Job /\ new.child = c /\ new.n = 1 /\ new # NULL
  <2>1. new \in Job
    BY Constants DEF Job
  <2> QED
    BY <2>1, Constants
<1> HIDE DEF new
<1>3. /\ pc'[e] = "read" /\ pc'[c] = "embryo" /\ \A q \in Env : q \notin {e, c} => pc'[q] = pc[q]
      /\ job'[e] = new /\ \A q \in Env : q # e => job'[q] = job[q]
  BY <1>1, InvFacts DEF Types
<1>4. /\ temp[e] = NULL /\ temp[c] = NULL /\ fault[c] = NULL
      /\ ux[c] = NULL /\ c \notin upcall /\ \A p \in Page : pt[c][p] = NULL
      /\ job[e] = NULL /\ job[c] = NULL /\ ~Forker(e) /\ ~Forker(c)
  BY <1>1, InvFacts DEF Faults, Idle, Live, Forks, Forker
\* The new exception stacks.
<1>5. /\ ux' \in [Env -> Frame \cup {NULL}] /\ upcall' \subseteq Env
      /\ \A q \in Env : q \notin {e, c} => ux'[q] = ux[q] /\ (q \in upcall' <=> q \in upcall)
      /\ method = "fork" =>
           /\ e \in upcall' /\ c \in upcall' /\ ux'[e] # NULL /\ ux'[c] # NULL
           /\ ux'[c] \in Free /\ ux'[e] # ux'[c]
           /\ ux[e] = NULL => ux'[e] \in Free
           /\ ux[e] # NULL => ux'[e] = ux[e]
      /\ method # "fork" => ux' = ux /\ upcall' = upcall
  <2>1. CASE method = "fork"
    <3> DEFINE mine == IF ux[e] = NULL THEN Lowest(Free) ELSE ux[e]
               other == Lowest(Free \ {mine})
    <3>1. /\ upcall' = upcall \cup {e, c} /\ Free \ {mine} # {}
          /\ ux' = [ux EXCEPT ![e] = mine, ![c] = other]
      BY <2>1 DEF Exofork
    <3>2. other \in Free /\ other # mine
      <4>1. Free \ {mine} \subseteq Free /\ Free \ {mine} # {}
        BY <3>1
      <4> HIDE DEF mine
      <4>2. other \in Free \ {mine}
        BY <4>1, LowestIs
      <4> QED
        BY <4>2
    <3>3. ux[e] = NULL => mine \in Free
      BY <3>2, LowestIs
    <3>4. mine \in Frame /\ mine # NULL /\ other \in Frame /\ other # NULL
      BY <3>2, <3>3, FreeIs, InvFacts, Constants DEF Types
    <3>5. ux[e] # NULL => mine = ux[e]
      OBVIOUS
    <3> HIDE DEF mine, other
    <3>6. ux'[e] = mine /\ ux'[c] = other /\ \A q \in Env : q \notin {e, c} => ux'[q] = ux[q]
      BY <3>1, <1>1, InvFacts DEF Types
    <3>7. ux' \in [Env -> Frame \cup {NULL}]
      BY <3>1, <3>4, InvFacts DEF Types
    <3> QED
      BY <2>1, <3>1, <3>2, <3>3, <3>4, <3>5, <3>6, <3>7, InvFacts DEF Types
  <2>2. CASE method # "fork"
    BY <2>2, InvFacts DEF Exofork, Types
  <2> QED
    BY <2>1, <2>2
<1>6. Types'
  BY <1>1, <1>2, <1>5, InvFacts DEF Types
<1>7. Forks'
  <2>1. \A q \in Env : pc[q] # "none" /\ q # e => pc'[q] = pc[q] /\ job'[q] = job[q]
    BY <1>1, <1>3
  <2>2. \A q \in Env : Forker(q) => /\ q # e /\ q # c /\ Child(q) \in Env
                                    /\ Child(q) # e /\ Child(q) # c
    BY <1>1, <1>4, InvFacts, TypeFacts DEF Forks
  <2>3. \A q \in Env : q # e => (Forker(q)' <=> Forker(q))
    BY <1>1, <1>3 DEF Forker
  <2>4. \A q \in Env : Forker(q)' <=> job'[q] # NULL
    BY <1>2, <1>3, <2>3, InvFacts DEF Forks, Forker
  <2>5. Forker(e)' /\ Child(e)' = c
    BY <1>2, <1>3 DEF Forker, Child
  <2>6. \A q \in Env : Forker(q)' => (pc[Child(q)] = "embryo")'
    <3>1. ASSUME NEW q \in Env, Forker(q)', q # e PROVE pc'[Child(q)'] = "embryo"
      <4>1. Child(q)' = Child(q)
        BY <1>3, <3>1 DEF Child
      <4>2. Forker(q) /\ Child(q) \in Env /\ pc[Child(q)] = "embryo"
        BY <2>2, <2>3, <3>1, InvFacts DEF Forks
      <4> QED
        BY <1>1, <1>3, <2>2, <4>1, <4>2
    <3> QED
      BY <1>3, <2>5, <3>1
  <2>7. \A x, q \in Env : Forker(x)' /\ Forker(q)' /\ (Child(x) = Child(q))' => x = q
    <3>1. \A q \in Env : Forker(q)' /\ q # e => Forker(q) /\ Child(q)' = Child(q) /\ Child(q)' # c
      BY <1>3, <2>2, <2>3 DEF Child
    <3> QED
      BY <2>5, <3>1, InvFacts DEF Forks
  <2>8. \A q \in Env : pc'[q] \in {"dup", "own", "copy"} => pc[q] = pc'[q] /\ job'[q] = job[q]
    BY <1>3
  <2> QED
    BY <1>1, <2>4, <2>6, <2>7, <2>8, InvFacts DEF Forks, Here
<1>8. Idle'
  <2>1. \A q \in Env : pc'[q] = "none" => pc[q] = "none" /\ q \notin {e, c}
    BY <1>1, <1>3
  <2>2. \A q \in Env : Live(q) => Live(q)'
    BY <1>1, <1>3 DEF Live
  <2>3. \A q \in Env : pc'[q] = "none" => ux'[q] = NULL /\ q \notin upcall'
    BY <1>5, <2>1, InvFacts DEF Idle
  <2> QED
    BY <1>1, <2>1, <2>2, <2>3, InvFacts DEF Idle
<1>9. Progress'
  <2> SUFFICES ASSUME NEW q \in Env, NEW i \in DOMAIN Layout, Forker(q)'
               PROVE  pt[job'[q].child][Layout[i]] # NULL <=>
                        pt[q][Layout[i]] # NULL
                        /\ (i < job'[q].n \/ (i = job'[q].n /\ pc'[q] \in {"own", "copy"}))
    BY <1>1 DEF Progress, Child, Done
  <2>1. CASE q = e
    BY <1>2, <1>3, <1>4, <2>1, Constants
  <2>2. CASE q # e
    BY <1>3, <1>4, <2>2, InvFacts DEF Progress, Forker, Child, Done
  <2> QED
    BY <2>1, <2>2
<1>10. Rightful'
  <2>1. \A p, perm : Lawful(p, perm)' <=> Lawful(p, perm)
    BY <1>1 DEF Lawful
  <2>2. \A q \in Env : pc'[q] \in {"dup", "own", "copy"} =>
          pc[q] = pc'[q] /\ job'[q] = job[q] /\ Here(q)' = Here(q)
    BY <1>3 DEF Here
  <2>3. \A q \in Env, p \in Page : pt'[q][p] # NULL => Lawful(p, pt'[q][p].perm)
    BY <1>1, InvFacts DEF Rightful
  <2>4. \A q \in Env : pc'[q] \in {"dup", "own", "copy"} => Lawful(Here(q), job[q].pte.perm)
    BY <2>2, InvFacts DEF Rightful
  <2> QED
    BY <2>1, <2>2, <2>3, <2>4 DEF Rightful
<1>11. Handlers'
  BY <1>1, <1>3, <1>4, <1>5, InvFacts DEF Handlers, Can, Forker
<1>12. Faults'
  <2>1. pt' = pt /\ temp' = temp /\ fault' = fault
    BY <1>1
  <2>2. \A q \in Env : temp'[q] # NULL <=>
          pc'[q] = "copy" \/ (fault'[q] # NULL /\ fault'[q].at # "alloc")
    BY <1>1, <1>3, <1>4, <1>5, InvFacts DEF Faults
  <2>3. ASSUME NEW q \in Env, fault[q] # NULL
        PROVE  /\ q \in upcall' /\ pt[q][fault[q].page] # NULL
               /\ fault[q].at # "unmap" => Can(q, fault[q].page, "COW")
    <3>1. q \in upcall
      BY <2>3, InvFacts DEF Faults
    <3>2. q \in upcall'
      BY <1>5, <3>1
    <3> QED
      BY <2>3, <3>2, InvFacts DEF Faults
  <2>4. \A q \in Env : Faulted(q, "map")' => mem'[temp'[q]] = mem'[pt'[q][fault'[q].page].frame]
    BY <1>1, <1>3, <1>4, <1>5, InvFacts DEF Faults, Faulted
  <2> QED
    BY <2>1, <2>2, <2>3, <2>4 DEF Faults, Can
<1>13. \A x, q \in Env, r \in Page : Twin(x, q, r)' <=> Twin(x, q, r)
  BY <1>1, <1>3, InvFacts DEF Twin, Faulted, Child, Here
<1>14. Owners'
  <2>1. \A f \in Free : /\ \A x \in Env, p \in Page : pt[x][p] # NULL => pt[x][p].frame # f
                        /\ \A x \in Env : temp[x] # f /\ ux[x] # f
    BY FreeIs
  <2>2. \A x \in Env : ux'[x] # NULL => ux'[x] \in Free \/ ux'[x] = ux[x]
    BY <1>5
  <2>3. \A x, q \in Env, p \in Page : pt[x][p] # NULL /\ ux'[q] # NULL => pt[x][p].frame # ux'[q]
    BY <2>1, <2>2, InvFacts DEF Owners
  <2>4. \A x, q \in Env : temp[x] # NULL => temp[x] # ux'[q]
    BY <2>1, <2>2, InvFacts DEF Owners
  <2>5. \A x, q \in Env : x # q /\ ux'[x] # NULL => ux'[x] # ux'[q]
    BY <1>5, <2>1, InvFacts DEF Owners
  <2> QED
    BY <1>1, <1>13, <2>3, <2>4, <2>5, InvFacts DEF Owners, SameFrame
<1>15. Alone'
  <2>1. \A x \in Env, p \in Page : Half(x, p) => Half(x, p)' /\ Child(x)' = Child(x)
    BY <1>1, <1>3 DEF Half, Child, Here
  <2> QED
    BY <1>1, <2>1, InvFacts DEF Alone, SameFrame, Writable, Can
<1> QED
  BY <1>6, <1>7, <1>8, <1>9, <1>10, <1>11, <1>12, <1>14, <1>15 DEF ForkInv

\* The fork of e goes on: to the next call for the same page, or to the next page.
Onward(e, at, n, pte) ==
  /\ Forker(e) /\ fault[e] = NULL
  /\ at \in {"read", "dup", "own", "copy"} /\ n \in 1..(Len(Layout)+1) /\ pte \in Entry \cup {NULL}
  /\ pc' = [pc EXCEPT ![e] = at]
  /\ job' = [job EXCEPT ![e] = [child |-> Child(e), n |-> n, pte |-> pte]]

LEMMA OnwardIs ==
  ASSUME ForkInv, NEW e \in Env, NEW at, NEW n, NEW pte, Onward(e, at, n, pte)
  PROVE  /\ pc' \in [Env -> {"none", "embryo", "user", "read", "dup", "own", "copy"}]
         /\ job' \in [Env -> Job \cup {NULL}]
         /\ pc'[e] = at /\ job'[e] # NULL /\ job'[e].n = n /\ job'[e].pte = pte
         /\ \A q \in Env : Forker(q)' <=> Forker(q)
         /\ \A q \in Env : (pc'[q] = "none" <=> pc[q] = "none") /\ (pc'[q] = "embryo" <=> pc[q] = "embryo")
         /\ \A q \in Env : Forker(q) => Child(q)' = Child(q)
         /\ \A q \in Env : q # e => pc'[q] = pc[q] /\ job'[q] = job[q]
         /\ Here(e)' = Layout[n]
<1> DEFINE new == [child |-> Child(e), n |-> n, pte |-> pte]
<1>1. Child(e) \in Env /\ pc[e] \in {"read", "dup", "own", "copy"}
  BY InvFacts, TypeFacts DEF Onward, Forks, Forker
<1>2. new \in Job /\ new.child = Child(e) /\ new.n = n /\ new.pte = pte
  BY <1>1 DEF Onward, Job
<1>3. at \in {"read", "dup", "own", "copy"} /\ pc' = [pc EXCEPT ![e] = at]
      /\ job' = [job EXCEPT ![e] = new]
  BY DEF Onward
<1> HIDE DEF new
<1>4. new # NULL
  BY <1>2, Constants
<1>5. /\ pc' \in [Env -> {"none", "embryo", "user", "read", "dup", "own", "copy"}]
      /\ job' \in [Env -> Job \cup {NULL}]
      /\ pc'[e] = at /\ job'[e] = new
      /\ \A q \in Env : q # e => pc'[q] = pc[q] /\ job'[q] = job[q]
  BY <1>2, <1>3, InvFacts DEF Types
<1>6. \A q \in Env : Forker(q)' <=> Forker(q)
  BY <1>1, <1>3, <1>5 DEF Forker
<1>7. \A q \in Env : (pc'[q] = "none" <=> pc[q] = "none") /\ (pc'[q] = "embryo" <=> pc[q] = "embryo")
  BY <1>1, <1>3, <1>5
<1>8. \A q \in Env : Child(q)' = Child(q)
  BY <1>2, <1>5 DEF Child
<1>9. Here(e)' = Layout[n]
  BY <1>2, <1>5 DEF Here
<1> QED
  BY <1>2, <1>4, <1>5, <1>6, <1>7, <1>8, <1>9

\* What all steps of a fork have in common.
LEMMA OnwardKeeps ==
  ASSUME ForkInv, NEW e \in Env, NEW at, NEW n, NEW pte, Onward(e, at, n, pte),
         UNCHANGED <<method, fault, upcall, ux>>,
         \A q \in Env, p \in Page : pc[q] = "none" => pt'[q][p] = NULL,
         \A q \in Env, p \in Page : pt[q][p] # NULL => pt'[q][p] # NULL,
         at \in {"dup", "own", "copy"} => n \in DOMAIN Layout /\ pt'[e][Layout[n]] # NULL /\ pte # NULL,
         at = "copy" => method # "fork",
         at = "own" => method = "fork" /\ Layout[n] \notin Text \cup Shared
  PROVE  Forks' /\ Idle'
<1>1. \A q \in Env : Forker(q) => Child(q) \in Env
  BY InvFacts, TypeFacts DEF Forks
<1>2. \A q \in Env : pc[q] \in {"dup", "own", "copy"} /\ q # e =>
        Here(q)' = Here(q) /\ Here(q) \in Page /\ pt'[q][Here(q)] # NULL
  <2> SUFFICES ASSUME NEW q \in Env, pc[q] \in {"dup", "own", "copy"}, q # e
               PROVE  Here(q)' = Here(q) /\ Here(q) \in Page /\ pt'[q][Here(q)] # NULL
    OBVIOUS
  <2>1. Forker(q) /\ job[q].n \in DOMAIN Layout /\ pt[q][Here(q)] # NULL /\ job[q] # NULL
    BY InvFacts DEF Forks, Forker
  <2>2. Here(q) \in Page
    BY <2>1, InvFacts, TypeFacts
  <2>3. Here(q)' = Here(q)
    BY OnwardIs DEF Here
  <2> QED
    BY <2>1, <2>2, <2>3
<1>3. Idle'
  BY OnwardIs, InvFacts DEF Idle, Live
<1>4. \A q \in Env : Forker(q)' <=> job'[q] # NULL
  <2>1. Forker(e)
    BY DEF Onward
  <2> QED
    BY <2>1, OnwardIs, InvFacts DEF Forks
<1>5. \A q \in Env : Forker(q)' => (pc[Child(q)] = "embryo")'
  BY <1>1, OnwardIs, InvFacts DEF Forks
<1>6. \A x, q \in Env : Forker(x)' /\ Forker(q)' /\ (Child(x) = Child(q))' => x = q
  BY OnwardIs, InvFacts DEF Forks
<1>7. \A q \in Env : pc'[q] \in {"dup", "own", "copy"} =>
        job'[q].n \in DOMAIN Layout /\ pt'[q][Here(q)'] # NULL /\ job'[q].pte # NULL
  BY <1>2, OnwardIs, InvFacts DEF Forks
<1>8. \A q \in Env : pc'[q] = "copy" => method # "fork"
  BY OnwardIs, InvFacts DEF Forks
<1>9. \A q \in Env : pc'[q] = "own" => method = "fork" /\ Here(q)' \notin Text \cup Shared
  BY <1>2, OnwardIs, InvFacts DEF Forks
<1> QED
  BY <1>3, <1>4, <1>5, <1>6, <1>7, <1>8, <1>9 DEF Forks

\* The other forks are at the pages they were at, with the pages they had.
LEMMA OthersProgress ==
  ASSUME ForkInv, NEW e \in Env, NEW at, NEW n, NEW pte, Onward(e, at, n, pte),
         \A q \in Env, p \in Page : q \notin {e, Child(e)} => (pt'[q][p] # NULL <=> pt[q][p] # NULL),
         \A i \in DOMAIN Layout :
           pt'[Child(e)][Layout[i]] # NULL <=>
             pt'[e][Layout[i]] # NULL /\ (i < n \/ (i = n /\ at \in {"own", "copy"}))
  PROVE  Progress'
<1> SUFFICES ASSUME NEW q \in Env, NEW i \in DOMAIN Layout, Forker(q)'
             PROVE  pt'[Child(q)'][Layout[i]] # NULL <=> pt'[q][Layout[i]] # NULL /\ Done(q, i)'
  BY DEF Progress
<1>1. Forker(q) /\ Child(q)' = Child(q) /\ Child(q) \in Env /\ Layout[i] \in Page
  BY OnwardIs, InvFacts, TypeFacts, Constants DEF Forks
<1>2. CASE q = e
  BY <1>1, <1>2, OnwardIs DEF Done
<1>3. CASE q # e
  <2>1. Done(q, i)' <=> Done(q, i)
    BY <1>3, OnwardIs DEF Done
  <2>2. pc[q] # "embryo" /\ pc[Child(q)] = "embryo" /\ pc[e] # "embryo" /\ pc[Child(e)] = "embryo"
        /\ Child(q) # Child(e)
    BY <1>1, <1>3, InvFacts DEF Forks, Forker, Onward
  <2>3. q \notin {e, Child(e)} /\ Child(q) \notin {e, Child(e)}
    BY <1>3, <2>2
  <2> QED
    BY <1>1, <2>1, <2>3, InvFacts DEF Progress
<1> QED
  BY <1>2, <1>3

LEMMA ReadPteKeeps ==
  ASSUME ForkInv, NEW e \in Env, ReadPte(e)
  PROVE  ForkInv'
<1> DEFINE h == Here(e)
           i == job[e].n
<1>1. /\ pc[e] = "read" /\ Forker(e) /\ fault[e] = NULL /\ i \in DOMAIN Layout
      /\ UNCHANGED <<method, mem, temp, ux, pt, upcall, fault>>
  BY DEF ReadPte, Forking, Forker, frames
<1>2. /\ job[e] # NULL /\ job[e] \in Job /\ h = Layout[i] /\ h \in Page
      /\ job[e].child = Child(e) /\ job[e].pte \in Entry \cup {NULL} /\ i \in 1..Len(Layout)
  <2>1. job[e] # NULL
    BY <1>1, InvFacts DEF Forks
  <2>2. job[e] \in Job
    BY <2>1, InvFacts DEF Types
  <2> QED
    BY <1>1, <2>1, <2>2, Constants DEF Job, Here, Child
<1>3. \E at, n, pte :
        /\ Onward(e, at, n, pte)
        /\ \/ pt[e][h] = NULL /\ at = "read" /\ n = i + 1
           \/ pt[e][h] # NULL /\ at = "dup" /\ n = i /\ pte = pt[e][h]
  <2>1. CASE pt[e][h] = NULL
    <3>1. pc' = [pc EXCEPT ![e] = "read"]
      BY <1>1, <2>1, InvFacts DEF ReadPte, Types
    <3>2. job' = [job EXCEPT ![e] = [child |-> Child(e), n |-> i + 1, pte |-> job[e].pte]]
      <4>1. job' = [job EXCEPT ![e] = [job[e] EXCEPT !.n = i + 1]]
        BY <1>1, <2>1 DEF ReadPte
      <4>2. [job[e] EXCEPT !.n = i + 1] = [child |-> Child(e), n |-> i + 1, pte |-> job[e].pte]
        BY <1>2 DEF Job, Child
      <4> QED
        BY <4>1, <4>2
    <3>3. i + 1 \in 1..(Len(Layout)+1)
      BY <1>2, Constants
    <3>4. Onward(e, "read", i + 1, job[e].pte)
      BY <1>1, <1>2, <3>1, <3>2, <3>3 DEF Onward
    <3> QED
      BY <2>1, <3>4
  <2>2. CASE pt[e][h] # NULL
    <3>1. pc' = [pc EXCEPT ![e] = "dup"]
      BY <1>1, <2>2 DEF ReadPte, Goto
    <3>2. job' = [job EXCEPT ![e] = [child |-> Child(e), n |-> i, pte |-> pt[e][h]]]
      <4>1. job' = [job EXCEPT ![e] = [job[e] EXCEPT !.pte = pt[e][h]]]
        BY <1>1, <2>2 DEF ReadPte
      <4>2. [job[e] EXCEPT !.pte = pt[e][h]] = [child |-> Child(e), n |-> i, pte |-> pt[e][h]]
        BY <1>2 DEF Job, Child
      <4> QED
        BY <4>1, <4>2
    <3>3. i \in 1..(Len(Layout)+1) /\ pt[e][h] \in Entry \cup {NULL}
      BY <1>2, Constants, InvFacts, TypeFacts
    <3>4. Onward(e, "dup", i, pt[e][h])
      BY <1>1, <3>1, <3>2, <3>3 DEF Onward
    <3> QED
      BY <2>2, <3>4
  <2> QED
    BY <2>1, <2>2
<1>4. PICK at, n, pte :
        /\ Onward(e, at, n, pte)
        /\ \/ pt[e][h] = NULL /\ at = "read" /\ n = i + 1
           \/ pt[e][h] # NULL /\ at = "dup" /\ n = i /\ pte = pt[e][h]
  BY <1>3
<1>5. i \in Nat /\ h = Layout[i] /\ \A j \in DOMAIN Layout : j \in Nat /\ (Layout[j] = h => j = i)
  BY <1>1, <1>2, Constants
<1>6. Child(e) \in Env /\ \A j \in DOMAIN Layout :
        pt[Child(e)][Layout[j]] # NULL <=> pt[e][Layout[j]] # NULL /\ j < i
  BY <1>1, InvFacts, TypeFacts DEF Progress, Done, Forks
<1> HIDE DEF h, i
<1>7. Types'
  BY <1>1, <1>4, OnwardIs, InvFacts DEF Types
<1>8. Forks' /\ Idle'
  <2>1. \A q \in Env, p \in Page : pc[q] = "none" => pt'[q][p] = NULL
    BY <1>1, InvFacts DEF Idle
  <2>2. at \in {"dup", "own", "copy"} => n \in DOMAIN Layout /\ pt'[e][Layout[n]] # NULL /\ pte # NULL
    BY <1>1, <1>4, <1>5
  <2> QED
    BY <1>1, <1>4, <2>1, <2>2, OnwardKeeps
<1>9. Progress'
  <2>1. \A j \in DOMAIN Layout :
          pt'[Child(e)][Layout[j]] # NULL <=>
            pt'[e][Layout[j]] # NULL /\ (j < n \/ (j = n /\ at \in {"own", "copy"}))
    BY <1>1, <1>4, <1>5, <1>6
  <2> QED
    BY <1>1, <1>4, <2>1, OthersProgress
<1>10. Rightful'
  BY <1>1, <1>2, <1>4, <1>5, OnwardIs, InvFacts DEF Rightful, Lawful, Here
<1>11. Handlers'
  BY <1>1, <1>4, OnwardIs, InvFacts DEF Handlers, Can
<1>12. Faults'
  BY <1>1, <1>4, OnwardIs, InvFacts DEF Faults, Faulted, Can
<1>13. \A x, q \in Env, r \in Page : Twin(x, q, r)' <=> Twin(x, q, r)
  BY <1>1, <1>4, OnwardIs DEF Twin, Faulted, Child, Here
<1>14. Owners'
  BY <1>1, <1>13, InvFacts DEF Owners, SameFrame
<1>15. Alone'
  <2>1. \A x \in Env, p \in Page : Half(x, p) => Half(x, p)' /\ Child(x)' = Child(x)
    BY <1>1, <1>4, OnwardIs DEF Half, Child, Here
  <2> QED
    BY <1>1, <2>1, InvFacts DEF Alone, SameFrame, Writable, Can
<1> QED
  BY <1>7, <1>8, <1>9, <1>10, <1>11, <1>12, <1>14, <1>15 DEF ForkInv

\* The page that a fork is at, and the frame under it.
LEMMA ForkFacts ==
  ASSUME ForkInv, NEW e \in Env, pc[e] \in {"dup", "own", "copy"}, fault[e] = NULL
  PROVE  /\ Forker(e) /\ Child(e) \in Env /\ Child(e) # e /\ pc[Child(e)] = "embryo"
         /\ fault[Child(e)] = NULL /\ temp[Child(e)] = NULL
         /\ job[e].n \in DOMAIN Layout /\ job[e].n + 1 \in 1..(Len(Layout)+1) /\ job[e].n \in Nat
         /\ Here(e) = Layout[job[e].n] /\ Here(e) \in Page
         /\ \A j \in DOMAIN Layout : j \in Nat /\ (Layout[j] = Here(e) => j = job[e].n)
         /\ job[e].pte \in Entry /\ job[e] = [child |-> Child(e), n |-> job[e].n, pte |-> job[e].pte]
         /\ pt[e][Here(e)] \in Entry /\ pt[e][Here(e)] # NULL /\ pt[e][Here(e)].frame \in Frame
         /\ Lawful(Here(e), pt[e][Here(e)].perm) /\ Lawful(Here(e), job[e].pte.perm)
         /\ \A j \in DOMAIN Layout :
              pt[Child(e)][Layout[j]] # NULL <=> pt[e][Layout[j]] # NULL /\ Done(e, j)
         /\ method = "fork" => e \in upcall /\ Child(e) \in upcall
<1>1. Forker(e) /\ job[e] # NULL /\ job[e] \in Job
  BY InvFacts DEF Forker, Forks, Types
<1>2. /\ Child(e) \in Env /\ pc[Child(e)] = "embryo"
      /\ job[e].n \in DOMAIN Layout /\ job[e].pte # NULL /\ pt[e][Here(e)] # NULL
  BY <1>1, InvFacts, TypeFacts DEF Forks
<1>3. Child(e) # e /\ fault[Child(e)] = NULL
  BY <1>2, InvFacts DEF Idle, Live
<1>4. temp[Child(e)] = NULL
  BY <1>2, <1>3, InvFacts DEF Faults
<1>5. job[e].pte \in Entry /\ job[e] = [child |-> Child(e), n |-> job[e].n, pte |-> job[e].pte]
  BY <1>1, <1>2 DEF Job, Child
<1>6. Here(e) = Layout[job[e].n] /\ Here(e) \in Page
      /\ job[e].n + 1 \in 1..(Len(Layout)+1) /\ job[e].n \in Nat
      /\ \A j \in DOMAIN Layout : j \in Nat /\ (Layout[j] = Here(e) => j = job[e].n)
  BY <1>2, Constants DEF Here
<1>7. pt[e][Here(e)] \in Entry /\ pt[e][Here(e)].frame \in Frame
  BY <1>2, <1>6, InvFacts, TypeFacts
<1>8. Lawful(Here(e), pt[e][Here(e)].perm) /\ Lawful(Here(e), job[e].pte.perm)
  BY <1>2, <1>6, InvFacts DEF Rightful
<1>9. \A j \in DOMAIN Layout :
        pt[Child(e)][Layout[j]] # NULL <=> pt[e][Layout[j]] # NULL /\ Done(e, j)
  BY <1>1, InvFacts DEF Progress
<1>10. method = "fork" => e \in upcall /\ Child(e) \in upcall
  BY <1>1, <1>2, InvFacts DEF Handlers
<1> QED
  BY <1>1, <1>2, <1>3, <1>4, <1>5, <1>6, <1>7, <1>8, <1>9, <1>10

\* The child maps the frame that the parent has.
Shares(e, perm) ==
  pt' = [pt EXCEPT ![Child(e)][Here(e)] = [frame |-> pt[e][Here(e)].frame, perm |-> perm]]

LEMMA SharesIs ==
  ASSUME ForkInv, NEW e \in Env, pc[e] = "dup", fault[e] = NULL, NEW perm, Shares(e, perm),
         perm \subseteq {"W", "COW", "SHARE"}
  PROVE  /\ pt' \in [Env -> [Page -> Entry \cup {NULL}]]
         /\ pt'[Child(e)][Here(e)] # NULL /\ pt'[Child(e)][Here(e)].perm = perm
         /\ pt'[Child(e)][Here(e)].frame = pt[e][Here(e)].frame
         /\ \A q \in Env, p \in Page : <<q, p>> # <<Child(e), Here(e)>> => pt'[q][p] = pt[q][p]
<1> DEFINE new == [frame |-> pt[e][Here(e)].frame, perm |-> perm]
<1>1. Child(e) \in Env /\ Here(e) \in Page /\ pt[e][Here(e)].frame \in Frame
  BY ForkFacts
<1>2. new \in Entry /\ new.frame = pt[e][Here(e)].frame /\ new.perm = perm
  BY <1>1 DEF Entry
<1>3. pt' = [pt EXCEPT ![Child(e)][Here(e)] = new]
  BY DEF Shares
<1> HIDE DEF new
<1>4. new # NULL
  BY <1>2, Constants
<1> QED
  BY <1>1, <1>2, <1>3, <1>4, InvFacts DEF Types

LEMMA ShareKeeps ==
  ASSUME ForkInv, NEW e \in Env, pc[e] = "dup", fault[e] = NULL, method # "dumbfork",
         NEW perm, Lawful(Here(e), perm), Shares(e, perm),
         NEW at, NEW n, NEW pte, Onward(e, at, n, pte),
         UNCHANGED <<method, mem, temp, ux, upcall, fault>>,
         \/ /\ at = "own" /\ n = job[e].n /\ pte = job[e].pte /\ perm = {"COW"}
            /\ Here(e) \notin Text \cup Shared
         \/ at = "read" /\ n = job[e].n + 1 /\ Here(e) \in Text \cup Shared
  PROVE  ForkInv'
<1> DEFINE h == Here(e)
           c == Child(e)
           i == job[e].n
<1>0. perm \subseteq {"W", "COW", "SHARE"}
  BY DEF Lawful
<1>1. /\ pt' \in [Env -> [Page -> Entry \cup {NULL}]]
      /\ pt'[c][h] # NULL /\ pt'[c][h].perm = perm /\ pt'[c][h].frame = pt[e][h].frame
      /\ \A q \in Env, p \in Page : <<q, p>> # <<c, h>> => pt'[q][p] = pt[q][p]
  BY <1>0, SharesIs
<1>2. /\ Forker(e) /\ c \in Env /\ c # e /\ pc[c] = "embryo" /\ fault[c] = NULL /\ temp[c] = NULL
      /\ i \in DOMAIN Layout /\ i \in Nat /\ h = Layout[i] /\ h \in Page
      /\ \A j \in DOMAIN Layout : j \in Nat /\ (Layout[j] = h => j = i)
      /\ pt[e][h] # NULL /\ Lawful(h, pt[e][h].perm) /\ Lawful(h, job[e].pte.perm)
      /\ \A j \in DOMAIN Layout : pt[c][Layout[j]] # NULL <=> pt[e][Layout[j]] # NULL /\ Done(e, j)
      /\ method = "fork" => c \in upcall
      /\ job[e].pte # NULL
  BY ForkFacts, Constants
<1>3. \/ /\ at = "own" /\ n = i /\ pte = job[e].pte /\ perm = {"COW"} /\ h \notin Text \cup Shared
         /\ method = "fork"
      \/ at = "read" /\ n = i + 1 /\ h \in Text \cup Shared
  BY DEF Lawful
<1>4. Lawful(h, perm)
  OBVIOUS
<1>5. pt[c][h] = NULL
  BY <1>2 DEF Done
<1> HIDE DEF h, c, i
<1>6. \A q \in Env, p \in Page : pt'[q][p] # NULL <=> pt[q][p] # NULL \/ (q = c /\ p = h)
  BY <1>1, <1>2
<1>7. Types'
  BY <1>1, OnwardIs, InvFacts DEF Types
<1>8. Forks' /\ Idle'
  <2>1. \A q \in Env, p \in Page : pc[q] = "none" => pt'[q][p] = NULL
    BY <1>2, <1>6, InvFacts DEF Idle
  <2>2. at \in {"dup", "own", "copy"} => n \in DOMAIN Layout /\ pt'[e][Layout[n]] # NULL /\ pte # NULL
    BY <1>2, <1>3, <1>6
  <2>3. at = "own" => Layout[n] \notin Text \cup Shared
    BY <1>2, <1>3
  <2> QED
    BY <1>3, <1>6, <2>1, <2>2, <2>3, OnwardKeeps
<1>9. Progress'
  <2>0. Child(e) = c
    BY DEF c
  <2>1. \A j \in DOMAIN Layout :
          pt'[c][Layout[j]] # NULL <=>
            pt'[e][Layout[j]] # NULL /\ (j < n \/ (j = n /\ at \in {"own", "copy"}))
    <3> SUFFICES ASSUME NEW j \in DOMAIN Layout
                 PROVE  pt'[c][Layout[j]] # NULL <=>
                          pt'[e][Layout[j]] # NULL /\ (j < n \/ (j = n /\ at \in {"own", "copy"}))
      OBVIOUS
    <3>1. Layout[j] \in Page /\ j \in Nat
      BY <1>2, Constants
    <3>2. pt'[e][Layout[j]] # NULL <=> pt[e][Layout[j]] # NULL
      BY <1>2, <1>6, <3>1
    <3>3. pt'[c][Layout[j]] # NULL <=> j = i \/ (pt[e][Layout[j]] # NULL /\ j < i)
      BY <1>2, <1>6, <3>1 DEF Done, i
    <3> QED
      BY <1>2, <1>3, <3>1, <3>2, <3>3
  <2> QED
    BY <1>6, <2>0, <2>1, OthersProgress
<1>10. Rightful'
  <2>1. \A q \in Env, p \in Page : pt'[q][p] # NULL => Lawful(p, pt'[q][p].perm)
    BY <1>1, <1>2, <1>4, <1>6, InvFacts DEF Rightful
  <2>2. \A q \in Env : pc'[q] \in {"dup", "own", "copy"} => Lawful(Here(q)', job'[q].pte.perm)
    <3>1. \A q \in Env : q # e /\ pc'[q] \in {"dup", "own", "copy"} =>
            Here(q)' = Here(q) /\ job'[q] = job[q] /\ pc[q] \in {"dup", "own", "copy"}
      BY OnwardIs DEF Here
    <3>2. pc'[e] \in {"dup", "own", "copy"} => Lawful(Here(e)', job'[e].pte.perm)
      BY <1>2, <1>3, OnwardIs
    <3> QED
      BY <3>1, <3>2, InvFacts DEF Rightful
  <2> QED
    BY <2>1, <2>2 DEF Rightful, Lawful
<1>11. Handlers'
  <2>1. \A q \in Env, p \in Page : Can(q, p, "COW")' => q \in upcall
    BY <1>1, <1>2, <1>4, InvFacts DEF Handlers, Can, Lawful
  <2> QED
    BY <2>1, OnwardIs, InvFacts DEF Handlers
<1>12. \A q \in Env : fault[q] # NULL => pt'[q][fault[q].page] = pt[q][fault[q].page]
  <2> SUFFICES ASSUME NEW q \in Env, fault[q] # NULL
               PROVE  pt'[q][fault[q].page] = pt[q][fault[q].page]
    OBVIOUS
  <2>1. q # c /\ fault[q].page \in Page
    BY <1>2, InvFacts, TypeFacts
  <2> QED
    BY <1>1, <2>1
<1>13. at # "copy" /\ pc[e] # "copy"
  BY <1>3
<1>14. Faults'
  BY <1>12, <1>13, OnwardIs, InvFacts DEF Faults, Faulted, Can
<1>15. \A x, q \in Env, r \in Page : Twin(x, q, r)' <=> Twin(x, q, r)
  BY <1>13, OnwardIs DEF Twin, Faulted, Child, Here
<1>16. \A x \in Env : temp[x] # NULL => temp[x] # pt[e][h].frame /\ ~Twin(x, c, h)
  <2> SUFFICES ASSUME NEW x \in Env, temp[x] # NULL
               PROVE  temp[x] # pt[e][h].frame /\ ~Twin(x, c, h)
    OBVIOUS
  <2>1. ~Twin(x, e, h)
    <3>1. pc[x] = "copy" => pc[Child(x)] = "embryo"
      BY InvFacts DEF Forks, Forker
    <3> QED
      BY <3>1 DEF Twin, Faulted
  <2>2. temp[x] # pt[e][h].frame
    BY <1>2, <2>1, InvFacts DEF Owners
  <2>3. ~Twin(x, c, h)
    BY <1>2, <1>5, InvFacts DEF Owners
  <2> QED
    BY <2>2, <2>3
<1>17. Owners'
  <2>1. ASSUME NEW x \in Env, NEW q \in Env, NEW p \in Page, NEW r \in Page,
               SameFrame(x, p, q, r)'
        PROVE  p = r
    <3>1. \A y \in Env, s \in Page : pt'[y][s] # NULL =>
            IF y = c /\ s = h THEN pt'[y][s].frame = pt[e][h].frame
            ELSE pt[y][s] # NULL /\ pt'[y][s].frame = pt[y][s].frame
      BY <1>1, <1>6
    <3>2. \E y, z \in Env : SameFrame(y, p, z, r)
      BY <1>1, <1>2, <2>1, <3>1 DEF SameFrame
    <3> QED
      BY <3>2, InvFacts DEF Owners
  <2>2. \A x, q \in Env, p \in Shared \ Text :
          pt'[x][p] # NULL /\ pt'[q][p] # NULL => pt'[x][p].frame = pt'[q][p].frame
    <3>1. \A q \in Env, p \in Shared \ Text : pt'[q][p] # NULL =>
            /\ p # h => pt[q][p] # NULL /\ pt'[q][p].frame = pt[q][p].frame
            /\ p = h => pt'[q][p].frame = pt[e][h].frame
      <4>1. Shared \ Text \subseteq Page
        BY Constants
      <4>2. \A q, x \in Env, p \in Shared \ Text :
              pt[x][p] # NULL /\ pt[q][p] # NULL => pt[x][p].frame = pt[q][p].frame
        BY InvFacts DEF Owners
      <4> QED
        BY <1>1, <1>2, <1>6, <4>1, <4>2
    <3>2. \A q, x \in Env, p \in Shared \ Text :
            pt[x][p] # NULL /\ pt[q][p] # NULL => pt[x][p].frame = pt[q][p].frame
      BY InvFacts DEF Owners
    <3> QED
      BY <3>1, <3>2
  <2>3. \A x, q \in Env, p \in Page : pt'[x][p] # NULL /\ ux[q] # NULL => pt'[x][p].frame # ux[q]
    BY <1>1, <1>2, <1>6, InvFacts DEF Owners
  <2>4. \A x, q \in Env, p \in Page :
          temp[x] # NULL /\ pt'[q][p] # NULL /\ pt'[q][p].frame = temp[x] => Twin(x, q, p)'
    BY <1>1, <1>2, <1>6, <1>15, <1>16, InvFacts DEF Owners
  <2>5. \A x, q \in Env, p \in Page :
          temp[x] # NULL /\ Twin(x, q, p)' => pt'[q][p] # NULL /\ pt'[q][p].frame = temp[x]
    BY <1>1, <1>2, <1>6, <1>15, <1>16, InvFacts DEF Owners
  <2> QED
    BY <2>1, <2>2, <2>3, <2>4, <2>5, InvFacts DEF Owners
<1>18. Alone'
  <2> SUFFICES ASSUME NEW x \in Env, NEW q \in Env, NEW p \in Page, q # x,
                      Writable(x, p)', ~Can(x, p, "SHARE")', SameFrame(x, p, q, p)'
               PROVE  Half(x, p)' /\ q = Child(x)'
    BY DEF Alone
  <2>1. ~(x = c /\ p = h)
    <3>1. x = c /\ p = h => "W" \in perm /\ "SHARE" \notin perm
      BY <1>1 DEF Writable, Can
    <3> QED
      BY <1>3, <1>4, <3>1 DEF Lawful
  <2>2. Writable(x, p) /\ ~Can(x, p, "SHARE")
    BY <1>1, <2>1 DEF Writable, Can
  <2>3. CASE q = c /\ p = h
    <3>1. SameFrame(x, h, e, h)
      BY <1>1, <1>2, <2>1, <2>3 DEF SameFrame
    <3>2. x = e
      <4>1. Live(e)
        BY <1>2 DEF Forker, Live
      <4>2. Lawful(h, pt[x][h].perm)
        BY <1>2, <3>1, InvFacts DEF Rightful, SameFrame
      <4>3. h \notin Shared \ Text
        BY <2>2, <2>3, <4>2 DEF Lawful, Can, Writable
      <4> QED
        BY <1>2, <2>2, <2>3, <3>1, <4>1, <4>3, WriterIsAlone
    <3>3. h \notin Text \cup Shared
      BY <1>2, <2>2, <2>3, <3>2 DEF Lawful, Writable, Can
    <3>4. at = "own" /\ Here(e)' = h
      BY <1>2, <1>3, <3>3, OnwardIs
    <3> QED
      BY <1>2, <2>3, <3>2, <3>4, OnwardIs DEF Half, c
  <2>4. CASE ~(q = c /\ p = h)
    <3>1. SameFrame(x, p, q, p)
      BY <1>1, <2>1, <2>4 DEF SameFrame
    <3>2. Half(x, p) /\ q = Child(x)
      BY <2>2, <3>1, InvFacts DEF Alone
    <3>3. x # e
      BY <3>2 DEF Half
    <3> QED
      BY <3>2, <3>3, OnwardIs DEF Half, Child, Here
  <2> QED
    BY <2>3, <2>4
<1> QED
  BY <1>7, <1>8, <1>9, <1>10, <1>11, <1>14, <1>17, <1>18 DEF ForkInv

LEMMA NextPageIs ==
  ASSUME ForkInv, NEW e \in Env, pc[e] \in {"dup", "own", "copy"}, fault[e] = NULL, NextPage(e)
  PROVE  Onward(e, "read", job[e].n + 1, NULL)
<1>1. /\ Forker(e) /\ job[e].n + 1 \in 1..(Len(Layout)+1)
      /\ job[e] = [child |-> Child(e), n |-> job[e].n, pte |-> job[e].pte]
  BY ForkFacts
<1>2. job' = [job EXCEPT ![e].n = @ + 1, ![e].pte = NULL]
  BY DEF NextPage
<1>3. job \in [Env -> Job \cup {NULL}]
  BY InvFacts DEF Types
<1>4. job' = [job EXCEPT ![e] = [child |-> Child(e), n |-> job[e].n + 1, pte |-> NULL]]
  <2> DEFINE was == job[e]
             new == [child |-> Child(e), n |-> job[e].n + 1, pte |-> NULL]
  <2>1. [[was EXCEPT !.n = was.n + 1] EXCEPT !.pte = NULL] = new
    <3>1. was \in Job
      BY <1>1, InvFacts DEF Forks, Types
    <3>2. [was EXCEPT !.n = was.n + 1] = [child |-> Child(e), n |-> job[e].n + 1, pte |-> job[e].pte]
      BY <3>1 DEF Job, Child
    <3> DEFINE mid == [child |-> Child(e), n |-> job[e].n + 1, pte |-> job[e].pte]
    <3>3. [mid EXCEPT !.pte = NULL] = new
      OBVIOUS
    <3> QED
      BY <3>2, <3>3
  <2>2. job' = [job EXCEPT ![e] = [[was EXCEPT !.n = was.n + 1] EXCEPT !.pte = NULL]]
    <3> HIDE DEF was, new
    <3> QED
      BY <1>2, <1>3 DEF was
  <2> QED
    BY <2>1, <2>2
<1> QED
  BY <1>1, <1>4 DEF Onward, NextPage, Goto

LEMMA SamePageIs ==
  ASSUME ForkInv, NEW e \in Env, pc[e] = "dup", fault[e] = NULL,
         NEW at \in {"own", "copy"}, Goto(e, at), UNCHANGED job
  PROVE  Onward(e, at, job[e].n, job[e].pte)
<1>1. /\ Forker(e) /\ job[e].n \in 1..(Len(Layout)+1) /\ job[e].pte \in Entry
      /\ job[e] = [child |-> Child(e), n |-> job[e].n, pte |-> job[e].pte]
  BY ForkFacts, Constants
<1>2. job' = [job EXCEPT ![e] = job[e]]
  BY InvFacts DEF Types
<1> QED
  BY <1>1, <1>2 DEF Onward, Goto

\* What duppage() and dup_or_share() do when they map the parent's page.
SharingStep(e, perm, at, n, pte) ==
  /\ Lawful(Here(e), perm) /\ Shares(e, perm) /\ Onward(e, at, n, pte)
  /\ \/ /\ at = "own" /\ n = job[e].n /\ pte = job[e].pte /\ perm = {"COW"}
        /\ Here(e) \notin Text \cup Shared
     \/ at = "read" /\ n = job[e].n + 1 /\ Here(e) \in Text \cup Shared

LEMMA DupPageIs ==
  ASSUME ForkInv, NEW e \in Env, DupPage(e)
  PROVE  /\ pc[e] = "dup" /\ fault[e] = NULL /\ method = "fork"
         /\ UNCHANGED <<method, mem, temp, ux, upcall, fault>>
         /\ \E perm, at, n, pte : SharingStep(e, perm, at, n, pte)
<1>1. /\ pc[e] = "dup" /\ fault[e] = NULL /\ method = "fork"
      /\ UNCHANGED <<method, mem, temp, ux, upcall, fault>>
  BY DEF DupPage, Forking, frames
<1>2. Lawful(Here(e), job[e].pte.perm) /\ Here(e) \in Page
  BY <1>1, ForkFacts
<1>3. CASE Was(e, "SHARE") /\ MapChild(e, job[e].pte.perm) /\ NextPage(e)
  <2>1. Here(e) \in Shared
    BY <1>2, <1>3 DEF Was, Lawful
  <2>2. SharingStep(e, job[e].pte.perm, "read", job[e].n + 1, NULL)
    BY <1>1, <1>2, <1>3, <2>1, NextPageIs DEF SharingStep, Shares, MapChild
  <2> QED
    BY <1>1, <2>2
<1>4. CASE /\ ~Was(e, "SHARE") /\ (Was(e, "W") \/ Was(e, "COW"))
           /\ MapChild(e, {"COW"}) /\ Goto(e, "own") /\ UNCHANGED job
  <2>1. Here(e) \notin Text \cup Shared /\ Lawful(Here(e), {"COW"})
    BY <1>1, <1>2, <1>4 DEF Was, Lawful
  <2>2. SharingStep(e, {"COW"}, "own", job[e].n, job[e].pte)
    BY <1>1, <1>4, <2>1, SamePageIs DEF SharingStep, Shares, MapChild
  <2> QED
    BY <1>1, <2>2
<1>5. CASE /\ ~Was(e, "SHARE") /\ ~Was(e, "W") /\ ~Was(e, "COW")
           /\ MapChild(e, {}) /\ NextPage(e)
  <2>1. Here(e) \in Text /\ Lawful(Here(e), {})
    BY <1>1, <1>2, <1>5 DEF Was, Lawful
  <2>2. SharingStep(e, {}, "read", job[e].n + 1, NULL)
    BY <1>1, <1>5, <2>1, NextPageIs DEF SharingStep, Shares, MapChild
  <2> QED
    BY <1>1, <2>2
<1> QED
  BY <1>1, <1>3, <1>4, <1>5 DEF DupPage

LEMMA DupPageKeeps ==
  ASSUME ForkInv, NEW e \in Env, DupPage(e)
  PROVE  ForkInv'
<1>1. PICK perm, at, n, pte : SharingStep(e, perm, at, n, pte)
  BY DupPageIs
<1>2. /\ pc[e] = "dup" /\ fault[e] = NULL /\ method # "dumbfork"
      /\ UNCHANGED <<method, mem, temp, ux, upcall, fault>>
  BY DupPageIs
<1>3. Lawful(Here(e), perm) /\ Shares(e, perm) /\ Onward(e, at, n, pte)
      /\ (\/ /\ at = "own" /\ n = job[e].n /\ pte = job[e].pte /\ perm = {"COW"}
             /\ Here(e) \notin Text \cup Shared
          \/ at = "read" /\ n = job[e].n + 1 /\ Here(e) \in Text \cup Shared)
  BY <1>1 DEF SharingStep
<1> QED
  BY <1>2, <1>3, ShareKeeps

LEMMA DupOwnKeeps ==
  ASSUME ForkInv, NEW e \in Env, DupOwn(e)
  PROVE  ForkInv'
<1> DEFINE h == Here(e)
           i == job[e].n
           old == pt[e][h]
<1>1. /\ pc[e] = "own" /\ fault[e] = NULL /\ NextPage(e)
      /\ pt' = [pt EXCEPT ![e][h].perm = {"COW"}]
      /\ UNCHANGED <<method, mem, temp, ux, upcall, fault>>
  BY DEF DupOwn, Forking, frames
<1>2. Onward(e, "read", i + 1, NULL)
  BY <1>1, NextPageIs
<1>3. /\ Forker(e) /\ Child(e) \in Env /\ Child(e) # e /\ pc[Child(e)] = "embryo"
      /\ i \in DOMAIN Layout /\ i \in Nat /\ h = Layout[i] /\ h \in Page
      /\ \A j \in DOMAIN Layout : j \in Nat /\ (Layout[j] = h => j = i)
      /\ old \in Entry /\ old # NULL /\ Lawful(h, old.perm)
      /\ \A j \in DOMAIN Layout : pt[Child(e)][Layout[j]] # NULL <=> pt[e][Layout[j]] # NULL /\ Done(e, j)
      /\ method = "fork" => e \in upcall
  BY <1>1, ForkFacts
<1>4. method = "fork" /\ h \notin Text \cup Shared /\ temp[e] = NULL
  BY <1>1, InvFacts DEF Forks, Faults
<1>5. /\ pt'[e][h] # NULL /\ pt'[e][h].perm = {"COW"} /\ pt'[e][h].frame = old.frame
      /\ \A q \in Env, p \in Page : <<q, p>> # <<e, h>> => pt'[q][p] = pt[q][p]
      /\ pt' \in [Env -> [Page -> Entry \cup {NULL}]]
  <2> DEFINE new == [old EXCEPT !.perm = {"COW"}]
  <2>1. new \in Entry /\ new.perm = {"COW"} /\ new.frame = old.frame
    BY <1>3 DEF Entry
  <2>2. pt' = [pt EXCEPT ![e][h] = new]
    BY <1>1, <1>3, InvFacts DEF Types
  <2> HIDE DEF new
  <2>3. new # NULL
    BY <2>1, Constants
  <2> QED
    BY <1>3, <2>1, <2>2, <2>3, InvFacts DEF Types
<1> HIDE DEF h, i, old
<1>6. \A q \in Env, p \in Page :
        /\ pt'[q][p] # NULL <=> pt[q][p] # NULL
        /\ pt'[q][p] # NULL => pt'[q][p].frame = pt[q][p].frame
  BY <1>3, <1>5 DEF old
<1>7. Types'
  BY <1>1, <1>2, <1>5, OnwardIs, InvFacts DEF Types
<1>8. Forks' /\ Idle'
  <2>1. \A q \in Env, p \in Page : pc[q] = "none" => pt'[q][p] = NULL
    BY <1>6, InvFacts DEF Idle
  <2> QED
    BY <1>1, <1>2, <1>6, <2>1, OnwardKeeps
<1>9. Progress'
  <2>1. ASSUME NEW j \in DOMAIN Layout
        PROVE  pt'[Child(e)][Layout[j]] # NULL <=>
                 pt'[e][Layout[j]] # NULL /\ (j < i + 1 \/ (j = i + 1 /\ "read" \in {"own", "copy"}))
    <3>1. i \in Int /\ j \in Int /\ Layout[j] \in Page /\ Child(e) \in Env
      BY <1>1, <1>3, Constants DEF i
    <3>2. pt[Child(e)][Layout[j]] # NULL <=> pt[e][Layout[j]] # NULL /\ Done(e, j)
      BY <1>1, <1>3
    <3>3. Done(e, j) <=> j <= i
      BY <1>1, <1>3, <3>1 DEF Done, i
    <3> QED
      BY <1>6, <3>1, <3>2, <3>3
  <2> QED
    BY <1>2, <1>6, <2>1, OthersProgress
<1>10. Rightful'
  <2>1. \A q \in Env, p \in Page : pt'[q][p] # NULL => Lawful(p, pt'[q][p].perm)
    BY <1>3, <1>4, <1>5, <1>6, InvFacts DEF Rightful, Lawful
  <2>2. \A q \in Env : pc'[q] \in {"dup", "own", "copy"} => Lawful(Here(q)', job'[q].pte.perm)
    BY <1>2, OnwardIs, InvFacts DEF Rightful, Here
  <2> QED
    BY <1>1, <2>1, <2>2 DEF Rightful, Lawful
<1>11. Handlers'
  BY <1>1, <1>2, <1>3, <1>4, <1>5, OnwardIs, InvFacts DEF Handlers, Can
<1>12. \A q \in Env : fault[q] # NULL => pt'[q][fault[q].page] = pt[q][fault[q].page]
  BY <1>1, <1>5, InvFacts, TypeFacts
<1>13. Faults'
  BY <1>1, <1>2, <1>12, OnwardIs, InvFacts DEF Faults, Faulted, Can
<1>14. \A x, q \in Env, r \in Page : Twin(x, q, r)' <=> Twin(x, q, r)
  BY <1>1, <1>2, OnwardIs DEF Twin, Faulted, Child, Here
<1>15. Owners'
  <2>1. \A x, q \in Env, p, r \in Page : SameFrame(x, p, q, r)' => SameFrame(x, p, q, r)
    BY <1>6 DEF SameFrame
  <2>2. \A x, q \in Env, p \in Shared \ Text :
          pt'[x][p] # NULL /\ pt'[q][p] # NULL => pt'[x][p].frame = pt'[q][p].frame
    <3>1. Shared \ Text \subseteq Page
      BY Constants
    <3> QED
      BY <1>6, <3>1, InvFacts DEF Owners
  <2> QED
    BY <1>1, <1>6, <1>14, <2>1, <2>2, InvFacts DEF Owners
<1>16. Alone'
  <2> SUFFICES ASSUME NEW x \in Env, NEW q \in Env, NEW p \in Page, q # x,
                      Writable(x, p)', ~Can(x, p, "SHARE")', SameFrame(x, p, q, p)'
               PROVE  Half(x, p)' /\ q = Child(x)'
    BY DEF Alone
  <2>1. ~(x = e /\ p = h)
    BY <1>5 DEF Writable, Can
  <2>2. Writable(x, p) /\ ~Can(x, p, "SHARE") /\ SameFrame(x, p, q, p)
    BY <1>5, <1>6, <2>1 DEF Writable, Can, SameFrame
  <2>3. Half(x, p) /\ q = Child(x)
    BY <2>2, InvFacts DEF Alone
  <2>4. x # e
    BY <2>1, <2>3 DEF Half, h
  <2> QED
    BY <1>2, <2>3, <2>4, OnwardIs DEF Half, Child, Here
<1> QED
  BY <1>7, <1>8, <1>9, <1>10, <1>11, <1>13, <1>15, <1>16 DEF ForkInv

\* dup_or_share() allocates a page for the child, and dumbfork always does.
Allocates(e, f) ==
  /\ pc[e] = "dup" /\ fault[e] = NULL /\ method # "fork" /\ f \in Free
  /\ Lawful(Here(e), {"W"})
  /\ temp' = [temp EXCEPT ![e] = f]
  /\ pt' = [pt EXCEPT ![Child(e)][Here(e)] = [frame |-> f, perm |-> {"W"}]]
  /\ Onward(e, "copy", job[e].n, job[e].pte)
  /\ UNCHANGED <<method, mem, ux, upcall, fault>>

LEMMA DupOrShareIs ==
  ASSUME ForkInv, NEW e \in Env, DupOrShare(e)
  PROVE  \/ Allocates(e, Lowest(Free))
         \/ /\ pc[e] = "dup" /\ fault[e] = NULL /\ method = "fork_v0"
            /\ UNCHANGED <<method, mem, temp, ux, upcall, fault>>
            /\ \E perm, at, n, pte : SharingStep(e, perm, at, n, pte)
<1>1. /\ pc[e] = "dup" /\ fault[e] = NULL /\ method # "fork"
      /\ UNCHANGED <<method, mem, ux, upcall, fault>>
  BY DEF DupOrShare, Forking
<1>2. Lawful(Here(e), job[e].pte.perm) /\ Here(e) \in Page
  BY <1>1, ForkFacts
<1>3. CASE /\ method = "fork_v0" /\ ~Was(e, "W")
           /\ MapChild(e, job[e].pte.perm) /\ NextPage(e) /\ UNCHANGED temp
  <2>1. Here(e) \in Text
    BY <1>1, <1>2, <1>3 DEF Was, Lawful
  <2>2. SharingStep(e, job[e].pte.perm, "read", job[e].n + 1, NULL)
    BY <1>1, <1>2, <1>3, <2>1, NextPageIs DEF SharingStep, Shares, MapChild
  <2> QED
    BY <1>1, <1>3, <2>2
<1>4. CASE /\ method = "dumbfork" \/ Was(e, "W")
           /\ Free # {} /\ temp' = [temp EXCEPT ![e] = Lowest(Free)]
           /\ pt' = [pt EXCEPT ![Child(e)][Here(e)] = [frame |-> Lowest(Free), perm |-> {"W"}]]
           /\ Goto(e, "copy") /\ UNCHANGED job
  <2>1. Lawful(Here(e), {"W"})
    BY <1>1, <1>2, <1>4 DEF Was, Lawful
  <2>2. Lowest(Free) \in Free
    BY <1>4, LowestIs
  <2>3. Onward(e, "copy", job[e].n, job[e].pte)
    BY <1>1, <1>4, SamePageIs
  <2> QED
    BY <1>1, <1>4, <2>1, <2>2, <2>3 DEF Allocates
<1> QED
  BY <1>3, <1>4 DEF DupOrShare

LEMMA AllocatesKeeps ==
  ASSUME ForkInv, NEW e \in Env, NEW f, Allocates(e, f)
  PROVE  ForkInv'
<1> DEFINE h == Here(e)
           c == Child(e)
           i == job[e].n
           new == [frame |-> f, perm |-> {"W"}]
<1>1. /\ pc[e] = "dup" /\ fault[e] = NULL /\ method # "fork" /\ f \in Free /\ Lawful(h, {"W"})
      /\ temp' = [temp EXCEPT ![e] = f] /\ pt' = [pt EXCEPT ![c][h] = new]
      /\ UNCHANGED <<method, mem, ux, upcall, fault>>
  BY DEF Allocates
<1>2. Onward(e, "copy", i, job[e].pte)
  BY DEF Allocates
<1>3. /\ Forker(e) /\ c \in Env /\ c # e /\ pc[c] = "embryo" /\ fault[c] = NULL
      /\ i \in DOMAIN Layout /\ i \in Nat /\ h = Layout[i] /\ h \in Page
      /\ \A j \in DOMAIN Layout : j \in Nat /\ (Layout[j] = h => j = i)
      /\ job[e].pte # NULL /\ Lawful(h, job[e].pte.perm) /\ pt[e][h] # NULL
      /\ \A j \in DOMAIN Layout : pt[c][Layout[j]] # NULL <=> pt[e][Layout[j]] # NULL /\ Done(e, j)
  BY <1>1, ForkFacts, Constants
<1>4. /\ f \in Frame /\ f # NULL
      /\ \A q \in Env, p \in Page : pt[q][p] # NULL => pt[q][p].frame # f
      /\ \A q \in Env : temp[q] # f /\ ux[q] # f
  BY <1>1, FreeIs, Constants
<1>5. new \in Entry /\ new # NULL /\ new.frame = f /\ new.perm = {"W"}
  <2>1. new \in Entry
    BY <1>4 DEF Entry
  <2> QED
    BY <2>1, Constants
<1>6. pt[c][h] = NULL /\ temp[e] = NULL
  BY <1>1, <1>3, InvFacts DEF Done, Faults
<1> HIDE DEF h, i, new
<1>7. /\ pt'[c][h] = new /\ \A q \in Env, p \in Page : <<q, p>> # <<c, h>> => pt'[q][p] = pt[q][p]
      /\ pt' \in [Env -> [Page -> Entry \cup {NULL}]]
      /\ temp'[e] = f /\ \A q \in Env : q # e => temp'[q] = temp[q]
      /\ temp' \in [Env -> Frame \cup {NULL}]
  BY <1>1, <1>3, <1>4, <1>5, InvFacts DEF Types
<1>8. \A q \in Env, p \in Page : pt'[q][p] # NULL <=> pt[q][p] # NULL \/ (q = c /\ p = h)
  BY <1>5, <1>7
<1>9. pc'[e] = "copy" /\ Here(e)' = h /\ Child(e)' = c
  BY <1>2, <1>3, OnwardIs
<1> HIDE DEF c
<1>10. Types'
  BY <1>1, <1>2, <1>7, OnwardIs, InvFacts DEF Types
<1>11. Forks' /\ Idle'
  <2>1. \A q \in Env, p \in Page : pc[q] = "none" => pt'[q][p] = NULL
    BY <1>3, <1>8, InvFacts DEF Idle
  <2>2. i \in DOMAIN Layout /\ pt'[e][Layout[i]] # NULL /\ job[e].pte # NULL
    BY <1>3, <1>8
  <2> QED
    BY <1>1, <1>2, <1>8, <2>1, <2>2, OnwardKeeps
<1>12. Progress'
  <2>1. \A j \in DOMAIN Layout :
          pt'[c][Layout[j]] # NULL <=>
            pt'[e][Layout[j]] # NULL /\ (j < i \/ (j = i /\ "copy" \in {"own", "copy"}))
    <3> SUFFICES ASSUME NEW j \in DOMAIN Layout
                 PROVE  pt'[c][Layout[j]] # NULL <=> pt'[e][Layout[j]] # NULL /\ (j < i \/ j = i)
      OBVIOUS
    <3>1. Layout[j] \in Page /\ j \in Nat
      BY <1>3, Constants
    <3>2. pt'[e][Layout[j]] # NULL <=> pt[e][Layout[j]] # NULL
      BY <1>3, <1>8, <3>1
    <3>3. pt'[c][Layout[j]] # NULL <=> j = i \/ (pt[e][Layout[j]] # NULL /\ j < i)
      BY <1>1, <1>3, <1>8, <3>1 DEF Done, i
    <3> QED
      BY <1>3, <3>1, <3>2, <3>3
  <2>2. \A q \in Env, p \in Page : q \notin {e, Child(e)} => (pt'[q][p] # NULL <=> pt[q][p] # NULL)
    BY <1>8 DEF c
  <2> QED
    BY <1>2, <2>1, <2>2, OthersProgress DEF c
<1>13. Rightful'
  <2>1. \A q \in Env, p \in Page : pt'[q][p] # NULL => Lawful(p, pt'[q][p].perm)
    BY <1>1, <1>5, <1>7, <1>8, InvFacts DEF Rightful
  <2>2. \A q \in Env : pc'[q] \in {"dup", "own", "copy"} => Lawful(Here(q)', job'[q].pte.perm)
    <3>1. \A q \in Env : q # e /\ pc'[q] \in {"dup", "own", "copy"} =>
            Here(q)' = Here(q) /\ job'[q] = job[q] /\ pc[q] \in {"dup", "own", "copy"}
      BY <1>2, OnwardIs DEF Here
    <3>2. Lawful(Here(e)', job'[e].pte.perm)
      BY <1>2, <1>3, <1>9, OnwardIs
    <3> QED
      BY <3>1, <3>2, InvFacts DEF Rightful
  <2> QED
    BY <1>1, <2>1, <2>2 DEF Rightful, Lawful
<1>14. Handlers'
  <2>1. \A q \in Env, p \in Page : Can(q, p, "COW")' => Can(q, p, "COW")
    BY <1>5, <1>7 DEF Can
  <2> QED
    BY <1>1, <1>2, <2>1, OnwardIs, InvFacts DEF Handlers
<1>15. \A q \in Env : fault[q] = NULL
  BY <1>1, InvFacts DEF Faults, Handlers
<1>16. Faults'
  <2>1. \A q \in Env : temp'[q] # NULL <=> pc'[q] = "copy"
    BY <1>2, <1>4, <1>7, <1>9, <1>15, OnwardIs, InvFacts DEF Faults
  <2> QED
    BY <1>1, <1>15, <2>1 DEF Faults, Faulted
<1>17. \A x, q \in Env, r \in Page : x # e => (Twin(x, q, r)' <=> Twin(x, q, r))
  BY <1>1, <1>2, OnwardIs DEF Twin, Faulted, Child, Here
<1>18. \A q \in Env, r \in Page : Twin(e, q, r)' <=> q = c /\ r = h
  BY <1>1, <1>9 DEF Twin, Faulted
<1>19. \A x \in Env : x # e => temp[x] # f /\ ~(temp[x] # NULL /\ Twin(x, c, h))
  BY <1>3, <1>4, <1>6, InvFacts DEF Owners
<1>20. Owners'
  <2>1. pt'[c][h].frame = f
    BY <1>5, <1>7
  <2>2. \A x, q \in Env, p, r \in Page : SameFrame(x, p, q, r)' => p = r
    BY <1>4, <1>7, <1>8, <2>1, InvFacts DEF Owners, SameFrame
  <2>3. h \notin Shared \ Text
    BY <1>1, <1>3 DEF Lawful
  <2>4. \A x, q \in Env, p \in Shared \ Text :
          pt'[x][p] # NULL /\ pt'[q][p] # NULL => pt'[x][p].frame = pt'[q][p].frame
    <3>1. Shared \ Text \subseteq Page
      BY Constants
    <3>2. \A x, q \in Env, p \in Shared \ Text :
            pt[x][p] # NULL /\ pt[q][p] # NULL => pt[x][p].frame = pt[q][p].frame
      BY InvFacts DEF Owners
    <3>3. \A q \in Env, p \in Shared \ Text : pt'[q][p] = pt[q][p]
      BY <1>7, <2>3, <3>1
    <3> QED
      BY <3>2, <3>3
  <2>5. \A x, q \in Env, p \in Page : pt'[x][p] # NULL /\ ux[q] # NULL => pt'[x][p].frame # ux[q]
    BY <1>4, <1>7, <1>8, <2>1, InvFacts DEF Owners
  <2>6. \A x, q \in Env : temp'[x] # NULL => temp'[x] # ux[q]
    BY <1>4, <1>7, InvFacts DEF Owners
  <2>7. \A x, q \in Env : x # q /\ temp'[x] # NULL => temp'[x] # temp'[q]
    BY <1>4, <1>7, InvFacts DEF Owners
  <2>8. \A x, q \in Env, p \in Page :
          temp'[x] # NULL /\ pt'[q][p] # NULL /\ pt'[q][p].frame = temp'[x] => Twin(x, q, p)'
    BY <1>3, <1>4, <1>7, <1>8, <1>17, <1>18, <1>19, <2>1, InvFacts DEF Owners
  <2>9. \A x, q \in Env, p \in Page :
          temp'[x] # NULL /\ Twin(x, q, p)' => pt'[q][p] # NULL /\ pt'[q][p].frame = temp'[x]
    <3> SUFFICES ASSUME NEW x \in Env, NEW q \in Env, NEW p \in Page, temp'[x] # NULL, Twin(x, q, p)'
                 PROVE  pt'[q][p] # NULL /\ pt'[q][p].frame = temp'[x]
      OBVIOUS
    <3>1. CASE x = e
      BY <1>5, <1>7, <1>18, <2>1, <3>1
    <3>2. CASE x # e
      <4>1. temp'[x] = temp[x] /\ Twin(x, q, p)
        BY <1>7, <1>17, <3>2
      <4>2. <<q, p>> # <<c, h>>
        BY <1>19, <3>2, <4>1
      <4>3. pt[q][p] # NULL /\ pt[q][p].frame = temp[x]
        BY <4>1, InvFacts DEF Owners
      <4> QED
        BY <1>7, <4>1, <4>2, <4>3
    <3> QED
      BY <3>1, <3>2
  <2> QED
    BY <1>1, <2>2, <2>4, <2>5, <2>6, <2>7, <2>8, <2>9, InvFacts DEF Owners
<1>21. Alone'
  <2> SUFFICES ASSUME NEW x \in Env, NEW q \in Env, NEW p \in Page, q # x,
                      Writable(x, p)', ~Can(x, p, "SHARE")', SameFrame(x, p, q, p)'
               PROVE  Half(x, p)' /\ q = Child(x)'
    BY DEF Alone
  <2>1. ~(x = c /\ p = h) /\ ~(q = c /\ p = h)
    BY <1>4, <1>5, <1>7 DEF SameFrame
  <2>2. Writable(x, p) /\ ~Can(x, p, "SHARE") /\ SameFrame(x, p, q, p)
    BY <1>7, <2>1 DEF Writable, Can, SameFrame
  <2>3. Half(x, p) /\ q = Child(x)
    BY <2>2, InvFacts DEF Alone
  <2>4. x # e
    BY <1>1, <2>3 DEF Half
  <2> QED
    BY <1>2, <2>3, <2>4, OnwardIs DEF Half, Child, Here
<1> QED
  BY <1>10, <1>11, <1>12, <1>13, <1>14, <1>16, <1>20, <1>21 DEF ForkInv

LEMMA DupOrShareKeeps ==
  ASSUME ForkInv, NEW e \in Env, DupOrShare(e)
  PROVE  ForkInv'
<1>1. CASE Allocates(e, Lowest(Free))
  BY <1>1, AllocatesKeeps
<1>2. CASE /\ pc[e] = "dup" /\ fault[e] = NULL /\ method = "fork_v0"
           /\ UNCHANGED <<method, mem, temp, ux, upcall, fault>>
           /\ \E perm, at, n, pte : SharingStep(e, perm, at, n, pte)
  <2>1. PICK perm, at, n, pte : SharingStep(e, perm, at, n, pte)
    BY <1>2
  <2>2. Lawful(Here(e), perm) /\ Shares(e, perm) /\ Onward(e, at, n, pte)
        /\ (\/ /\ at = "own" /\ n = job[e].n /\ pte = job[e].pte /\ perm = {"COW"}
               /\ Here(e) \notin Text \cup Shared
            \/ at = "read" /\ n = job[e].n + 1 /\ Here(e) \in Text \cup Shared)
    BY <2>1 DEF SharingStep
  <2> QED
    BY <1>2, <2>2, ShareKeeps
<1> QED
  BY <1>1, <1>2, DupOrShareIs

LEMMA CopyPageKeeps ==
  ASSUME ForkInv, NEW e \in Env, CopyPage(e)
  PROVE  ForkInv'
<1> DEFINE i == job[e].n
<1>1. /\ pc[e] = "copy" /\ fault[e] = NULL /\ NextPage(e)
      /\ mem' = [mem EXCEPT ![temp[e]] = mem[pt[e][Here(e)].frame]]
      /\ temp' = [temp EXCEPT ![e] = NULL]
      /\ UNCHANGED <<method, ux, pt, upcall, fault>>
  BY DEF CopyPage, Forking
<1>2. Onward(e, "read", i + 1, NULL)
  BY <1>1, NextPageIs
<1>3. /\ i \in DOMAIN Layout /\ i \in Nat /\ \A j \in DOMAIN Layout : j \in Nat
      /\ pt[e][Here(e)].frame \in Frame
      /\ \A j \in DOMAIN Layout : pt[Child(e)][Layout[j]] # NULL <=> pt[e][Layout[j]] # NULL /\ Done(e, j)
  BY <1>1, ForkFacts
<1>4. \A q \in Env : fault[q] = NULL
  BY <1>1, InvFacts DEF Forks, Faults, Handlers
<1>5. /\ mem' \in [Frame -> Value] /\ temp' \in [Env -> Frame \cup {NULL}]
      /\ temp'[e] = NULL /\ \A q \in Env : q # e => temp'[q] = temp[q]
  BY <1>1, <1>3, InvFacts DEF Types
<1> HIDE DEF i
<1>6. Types'
  BY <1>1, <1>2, <1>5, OnwardIs, InvFacts DEF Types
<1>7. Forks' /\ Idle'
  <2>1. \A q \in Env, p \in Page : pc[q] = "none" => pt'[q][p] = NULL
    BY <1>1, InvFacts DEF Idle
  <2> QED
    BY <1>1, <1>2, <2>1, OnwardKeeps
<1>8. Progress'
  <2>1. \A j \in DOMAIN Layout :
          pt'[Child(e)][Layout[j]] # NULL <=>
            pt'[e][Layout[j]] # NULL /\ (j < i + 1 \/ (j = i + 1 /\ "read" \in {"own", "copy"}))
    BY <1>1, <1>3 DEF Done, i
  <2> QED
    BY <1>1, <1>2, <2>1, OthersProgress
<1>9. Rightful'
  BY <1>1, <1>2, OnwardIs, InvFacts DEF Rightful, Lawful, Here
<1>10. Handlers'
  BY <1>1, <1>2, OnwardIs, InvFacts DEF Handlers, Can
<1>11. Faults'
  <2>1. \A q \in Env : temp'[q] # NULL <=> pc'[q] = "copy"
    BY <1>2, <1>4, <1>5, OnwardIs, InvFacts DEF Faults
  <2> QED
    BY <1>1, <1>4, <2>1 DEF Faults, Faulted
<1>12. \A x, q \in Env, r \in Page : x # e => (Twin(x, q, r)' <=> Twin(x, q, r))
  BY <1>1, <1>2, OnwardIs DEF Twin, Faulted, Child, Here
<1>13. Owners'
  BY <1>1, <1>5, <1>12, InvFacts DEF Owners, SameFrame
<1>14. Alone'
  <2>1. \A x \in Env, p \in Page : Half(x, p) => Half(x, p)' /\ Child(x)' = Child(x)
    BY <1>1, <1>2, OnwardIs DEF Half, Child, Here
  <2> QED
    BY <1>1, <2>1, InvFacts DEF Alone, SameFrame, Writable, Can
<1> QED
  BY <1>6, <1>7, <1>8, <1>9, <1>10, <1>11, <1>13, <1>14 DEF ForkInv

LEMMA StartKeeps ==
  ASSUME ForkInv, NEW e \in Env, Start(e)
  PROVE  ForkInv'
<1> DEFINE c == Child(e)
<1>1. /\ pc[e] = "read" /\ fault[e] = NULL
      /\ pc' = [pc EXCEPT ![e] = "user", ![c] = "user"] /\ job' = [job EXCEPT ![e] = NULL]
      /\ UNCHANGED <<method, mem, temp, ux, pt, upcall, fault>>
  BY DEF Start, Forking, frames
<1>2. /\ Forker(e) /\ c \in Env /\ pc[c] = "embryo" /\ c # e /\ ~Forker(c) /\ job[c] = NULL
      /\ \A q \in Env : Forker(q) /\ Child(q) = c => q = e
  <2>1. Forker(e) /\ job[e] # NULL
    BY <1>1, InvFacts DEF Forker, Forks
  <2>2. c \in Env /\ pc[c] = "embryo" /\ c # e
    BY <1>1, <2>1, InvFacts, TypeFacts DEF Forks
  <2>3. ~Forker(c) /\ job[c] = NULL
    BY <2>2, InvFacts DEF Forks, Forker
  <2> QED
    BY <2>1, <2>2, <2>3, InvFacts DEF Forks
<1> HIDE DEF c
<1>3. /\ pc'[e] = "user" /\ pc'[c] = "user" /\ job'[e] = NULL /\ job'[c] = NULL
      /\ \A q \in Env : q \notin {e, c} => pc'[q] = pc[q] /\ job'[q] = job[q]
  BY <1>1, <1>2, InvFacts DEF Types
<1>4. \A q \in Env : Forker(q)' <=> Forker(q) /\ q # e
  BY <1>2, <1>3 DEF Forker
<1>5. \A q \in Env : Forker(q)' =>
        /\ q \notin {e, c} /\ pc'[q] = pc[q] /\ job'[q] = job[q]
        /\ Child(q)' = Child(q) /\ Here(q)' = Here(q) /\ Child(q) \in Env /\ Child(q) \notin {e, c}
  <2> SUFFICES ASSUME NEW q \in Env, Forker(q)'
               PROVE  /\ q \notin {e, c} /\ pc'[q] = pc[q] /\ job'[q] = job[q]
                      /\ Child(q)' = Child(q) /\ Here(q)' = Here(q)
                      /\ Child(q) \in Env /\ Child(q) \notin {e, c}
    OBVIOUS
  <2>1. q \notin {e, c} /\ pc'[q] = pc[q] /\ job'[q] = job[q] /\ Forker(q)
    BY <1>2, <1>3, <1>4
  <2>2. Child(q)' = Child(q) /\ Here(q)' = Here(q)
    BY <2>1 DEF Child, Here
  <2>3. Child(q) \in Env /\ pc[Child(q)] = "embryo" /\ Child(q) # c
    BY <1>2, <2>1, InvFacts, TypeFacts DEF Forks
  <2> QED
    BY <1>1, <2>1, <2>2, <2>3
<1>6. Types'
  BY <1>1, <1>2, InvFacts DEF Types
<1>7. Forks'
  <2>1. \A q \in Env : Forker(q)' <=> job'[q] # NULL
    BY <1>2, <1>3, <1>4, InvFacts DEF Forks
  <2>2. \A q \in Env : Forker(q)' => pc'[Child(q)'] = "embryo"
    BY <1>3, <1>4, <1>5, InvFacts DEF Forks
  <2>3. \A x, q \in Env : Forker(x)' /\ Forker(q)' /\ (Child(x) = Child(q))' => x = q
    BY <1>4, <1>5, InvFacts DEF Forks
  <2>4. \A q \in Env : pc'[q] \in {"dup", "own", "copy"} =>
          Forker(q)' /\ pc[q] = pc'[q] /\ job'[q] = job[q] /\ Here(q)' = Here(q)
    BY <1>5 DEF Forker
  <2>5. \A q \in Env : pc'[q] \in {"dup", "own", "copy"} =>
          job'[q].n \in DOMAIN Layout /\ pt'[q][Here(q)'] # NULL /\ job'[q].pte # NULL
    BY <1>1, <2>4, InvFacts DEF Forks
  <2>6. \A q \in Env : pc'[q] = "copy" => method' # "fork"
    BY <1>1, <2>4, InvFacts DEF Forks
  <2>7. \A q \in Env : pc'[q] = "own" => method' = "fork" /\ Here(q)' \notin Text \cup Shared
    BY <1>1, <2>4, InvFacts DEF Forks
  <2> QED
    BY <2>1, <2>2, <2>3, <2>5, <2>6, <2>7 DEF Forks
<1>8. Idle'
  BY <1>1, <1>3, InvFacts DEF Idle, Live
<1>9. Progress'
  <2>1. \A q \in Env, j \in DOMAIN Layout : Forker(q)' => (Done(q, j)' <=> Done(q, j))
    BY <1>5 DEF Done
  <2> QED
    BY <1>1, <1>4, <1>5, <2>1, InvFacts DEF Progress
<1>10. Rightful'
  <2>1. \A q \in Env : pc'[q] \in {"dup", "own", "copy"} =>
          pc[q] = pc'[q] /\ job'[q] = job[q] /\ Here(q)' = Here(q)
    BY <1>5 DEF Forker
  <2>2. \A p, perm : Lawful(p, perm)' <=> Lawful(p, perm)
    BY <1>1 DEF Lawful
  <2>3. \A q \in Env, p \in Page : pt'[q][p] # NULL => Lawful(p, pt'[q][p].perm)
    BY <1>1, InvFacts DEF Rightful
  <2>4. \A q \in Env : pc'[q] \in {"dup", "own", "copy"} => Lawful(Here(q), job[q].pte.perm)
    BY <2>1, InvFacts DEF Rightful
  <2> QED
    BY <2>1, <2>2, <2>3, <2>4 DEF Rightful
<1>11. Handlers'
  <2>1. \A q \in Env : Forker(q)' \/ pc'[q] = "embryo" => Forker(q) \/ pc[q] = "embryo"
    BY <1>2, <1>3, <1>4
  <2> QED
    BY <1>1, <2>1, InvFacts DEF Handlers, Can
<1>12. \A q \in Env : pc'[q] \in {"own", "copy"} <=> pc[q] \in {"own", "copy"}
  BY <1>1, <1>2, <1>3
<1>13. \A q \in Env : pc[q] \in {"own", "copy"} =>
         pc'[q] = pc[q] /\ Child(q)' = Child(q) /\ Here(q)' = Here(q)
  BY <1>5, <1>12 DEF Forker
<1>14. Faults'
  <2>1. \A q \in Env : pc'[q] = "copy" <=> pc[q] = "copy"
    BY <1>1, <1>2, <1>3
  <2> QED
    BY <1>1, <2>1, InvFacts DEF Faults, Faulted, Can
<1>15. \A x, q \in Env, r \in Page : Twin(x, q, r)' <=> Twin(x, q, r)
  BY <1>1, <1>2, <1>3, <1>13 DEF Twin, Faulted
<1>16. Owners'
  BY <1>1, <1>15, InvFacts DEF Owners, SameFrame
<1>17. Alone'
  <2>1. \A x \in Env, p \in Page : Half(x, p) => Half(x, p)' /\ Child(x)' = Child(x)
    BY <1>13 DEF Half
  <2> QED
    BY <1>1, <2>1, InvFacts DEF Alone, SameFrame, Writable, Can
<1> QED
  BY <1>6, <1>7, <1>8, <1>9, <1>10, <1>11, <1>14, <1>16, <1>17 DEF ForkInv

-----------------------------------------------------------------------------
(* Every step keeps the invariant, and it says what the runs check.        *)

LEMMA StepKeeps ==
  ASSUME ForkInv, NEW e \in Env, Step(e)
  PROVE  ForkInv'
<1>1. \A c \in Env : Exofork(e, c) => ForkInv'
  BY ExoforkKeeps
<1> QED
  BY <1>1, StoreKeeps, TrapKeeps, PfAllocKeeps, PfCopyKeeps, PfMapKeeps, PfUnmapKeeps, ReadPteKeeps,
     DupPageKeeps, DupOwnKeeps, DupOrShareKeeps, CopyPageKeeps, StartKeeps DEF Step

LEMMA InvIsKept == ForkInv /\ [Next]_vars => ForkInv'
<1>1. CASE Next
  BY <1>1, StepKeeps DEF Next
<1>2. ASSUME ForkInv, UNCHANGED vars PROVE ForkInv'
  BY <1>2 DEF vars, frames, ForkInv, Types, Forks, Idle, Progress, Rightful, Lawful, Handlers, Faults,
              Faulted, Owners, Alone, Twin, SameFrame, Writable, Can, Half, Child, Here, Done,
              Forker, Live
<1> QED
  BY <1>1, <1>2

LEMMA InvIsAlways == Spec => []ForkInv
<1> QED
  BY InvHoldsAtStart, InvIsKept, PTL DEF Spec

LEMMA InvImpliesSafe ==
  ASSUME ForkInv
  PROVE  CowIsSafe
<1>1. TypeOK
  BY InvFacts, TypeFacts DEF TypeOK, Types, Faults
<1>2. WritableIsAlone
  <2> SUFFICES ASSUME NEW e \in Env, NEW q \in Env, NEW p \in Page, NEW r \in Page,
                      Writable(e, p), ~Can(e, p, "SHARE"), pt[q][r] # NULL, <<e, p>> # <<q, r>>,
                      pt[q][r].frame = pt[e][p].frame
               PROVE  Half(e, p) /\ q = Child(e) /\ r = p
    BY DEF WritableIsAlone
  <2>1. SameFrame(e, p, q, r)
    BY DEF SameFrame, Writable, Can
  <2>2. r = p
    BY <2>1, InvFacts DEF Owners
  <2> QED
    BY <2>1, <2>2, InvFacts DEF Alone
<1>3. CowHasHandler
  <2> SUFFICES ASSUME NEW e \in Env, NEW p \in Page, Can(e, p, "COW")
               PROVE  /\ e \in upcall /\ ux[e] \in Frame \ Mapped
                      /\ \A q \in Env \ {e} : ux[q] # ux[e]
    BY DEF CowHasHandler
  <2>1. e \in upcall /\ ux[e] # NULL /\ ux[e] \in Frame
    BY InvFacts DEF Handlers, Types
  <2>2. Mapped = FramesOf(pt)
    BY DEF Mapped, FramesOf
  <2>3. \A q \in Env, r \in Page : pt[q][r] # NULL => pt[q][r].frame # ux[e]
    BY <2>1, InvFacts DEF Owners
  <2>4. ux[e] \notin Mapped
    BY <2>2, <2>3, FramesAre
  <2>5. \A q \in Env \ {e} : ux[q] # ux[e]
    BY <2>1, InvFacts DEF Owners
  <2> QED
    BY <2>1, <2>4, <2>5
<1> QED
  BY <1>1, <1>2, <1>3 DEF CowIsSafe

\* fork.c:14-102: a private page that somebody can write is mapped nowhere else, but
\* for the parent and the child of a duppage() that is between its two mappings; and
\* whoever has a copy-on-write page has an upcall and an exception stack of its own.
THEOREM CowIsAlwaysSafe == Spec => []CowIsSafe
<1> QED
  BY InvIsAlways, InvImpliesSafe, PTL

-----------------------------------------------------------------------------
(* What everybody reads, and how a step changes it.                        *)

LEMMA ReadsFacts ==
  ASSUME ForkInv
  PROVE  \A q \in Env, p \in Page :
           /\ Reads(q, p) \in Value \cup {NULL}
           /\ Reads(q, p) = NULL <=> pt[q][p] = NULL \/ Unfixed(q, p)
           /\ Reads(q, p) # NULL => Reads(q, p) = mem[pt[q][p].frame]
           /\ Unfixed(q, p) => pc[q] = "embryo"
<1> SUFFICES ASSUME NEW q \in Env, NEW p \in Page
             PROVE  /\ Reads(q, p) \in Value \cup {NULL}
                    /\ Reads(q, p) = NULL <=> pt[q][p] = NULL \/ Unfixed(q, p)
                    /\ Reads(q, p) # NULL => Reads(q, p) = mem[pt[q][p].frame]
                    /\ Unfixed(q, p) => pc[q] = "embryo"
  OBVIOUS
<1>1. pt[q][p] # NULL => mem[pt[q][p].frame] \in Value /\ mem[pt[q][p].frame] # NULL
  <2>1. pt[q][p] # NULL => pt[q][p].frame \in Frame
    BY InvFacts, TypeFacts
  <2>2. mem \in [Frame -> Value] /\ NULL \notin Value
    BY InvFacts, Constants DEF Types
  <2> QED
    BY <2>1, <2>2
<1>2. Unfixed(q, p) => pc[q] = "embryo"
  BY InvFacts DEF Unfixed, Forks, Forker
<1> QED
  BY <1>1, <1>2 DEF Reads

LEMMA FaultReads ==
  ASSUME ForkInv, NEW e \in Env, Trap(e) \/ PfAlloc(e) \/ PfCopy(e) \/ PfMap(e) \/ PfUnmap(e)
  PROVE  UNCHANGED pc /\ \A q \in Env, p \in Page : Reads(q, p)' = Reads(q, p)
<1>1. CASE Trap(e) \/ PfAlloc(e) \/ PfUnmap(e)
  <2>1. UNCHANGED <<mem, pt, pc, job>>
    BY <1>1 DEF Trap, PfAlloc, PfUnmap, frames
  <2> QED
    BY <2>1 DEF Reads, Unfixed, Child, Here, Writable, Can
<1>2. CASE PfCopy(e)
  <2>1. /\ fault[e] # NULL /\ fault[e].at = "copy" /\ UNCHANGED <<pt, pc, job>>
        /\ mem' = [mem EXCEPT ![temp[e]] = mem[pt[e][fault[e].page].frame]]
    BY <1>2 DEF PfCopy, Faulted
  <2>2. \A q \in Env, p \in Page : pt[q][p] # NULL =>
          pt[q][p].frame \in Frame /\ pt[q][p].frame # temp[e]
    BY <2>1, FaultIsPrivate, InvFacts, TypeFacts DEF Faults
  <2>3. \A q \in Env, p \in Page : pt[q][p] # NULL => mem'[pt[q][p].frame] = mem[pt[q][p].frame]
    BY <2>1, <2>2, InvFacts DEF Types
  <2>4. \A q \in Env, p \in Page : Unfixed(q, p)' <=> Unfixed(q, p)
    BY <2>1 DEF Unfixed, Child, Here, Writable, Can
  <2> QED
    BY <2>1, <2>3, <2>4 DEF Reads
<1>3. CASE PfMap(e)
  <2> DEFINE h == fault[e].page
  <2>1. /\ fault[e] # NULL /\ fault[e].at = "map" /\ h \in Page /\ temp[e] \in Frame
        /\ UNCHANGED <<temp, pc, job>>
        /\ pt'[e][h] = [frame |-> temp[e], perm |-> {"W"}] /\ pt'[e][h] # NULL
        /\ \A q \in Env, p \in Page : <<q, p>> # <<e, h>> => pt'[q][p] = pt[q][p]
        /\ \A f \in Frame : f \notin Free' => mem'[f] = mem[f]
    BY <1>3, PfMapIs
  <2>2. /\ Live(e) /\ temp[e] # NULL /\ ~Writable(e, h) /\ pt[e][h] # NULL
        /\ mem[temp[e]] = mem[pt[e][h].frame]
        /\ \A q \in Env, p \in Page : pt[q][p] # NULL => pt[q][p].frame # temp[e]
    BY <2>1, FaultIsPrivate, InvFacts DEF Faults, Faulted
  <2> HIDE DEF h
  <2>3. pt'[e][h].frame = temp[e]
    BY <2>1
  <2>4. \A x \in Env : pc[x] \in {"own", "copy"} => Child(x) # e
    BY <2>2, InvFacts DEF Forks, Forker, Live
  <2>5. \A q \in Env, p \in Page : Unfixed(q, p)' <=> Unfixed(q, p)
    <3> SUFFICES ASSUME NEW q \in Env, NEW p \in Page, NEW x \in Env, pc[x] = "own", Child(x) = q, Here(x) = p
                 PROVE  (Writable(x, p) /\ pt[x][p].frame = pt[q][p].frame)' <=>
                          Writable(x, p) /\ pt[x][p].frame = pt[q][p].frame
      BY <2>1 DEF Unfixed, Child, Here
    <3>1. q # e /\ pt'[q][p] = pt[q][p]
      BY <2>1, <2>4
    <3>2. CASE x = e /\ p = h
      <4>1. PICK i \in DOMAIN Layout : Layout[i] = h
        BY <2>1, Constants
      <4>2. job[x].n = i /\ Forker(x)
        BY <3>2, <4>1, InvFacts, Constants DEF Here, Forks, Forker
      <4>3. pt[q][h] # NULL
        BY <2>2, <3>2, <4>1, <4>2, InvFacts DEF Progress, Done
      <4> QED
        BY <2>2, <2>3, <3>1, <3>2, <4>3
    <3>3. CASE ~(x = e /\ p = h)
      BY <2>1, <3>1, <3>3 DEF Writable, Can
    <3> QED
      BY <3>2, <3>3
  <2>6. \A q \in Env, p \in Page : pt[q][p] # NULL =>
          pt'[q][p] # NULL /\ mem'[pt'[q][p].frame] = mem[pt[q][p].frame]
    <3> SUFFICES ASSUME NEW q \in Env, NEW p \in Page, pt[q][p] # NULL
                 PROVE  pt'[q][p] # NULL /\ mem'[pt'[q][p].frame] = mem[pt[q][p].frame]
      OBVIOUS
    <3>1. pt'[q][p] # NULL /\ mem[pt'[q][p].frame] = mem[pt[q][p].frame]
          /\ pt'[q][p].frame \in Frame
      BY <2>1, <2>2, <2>3, InvFacts, TypeFacts
    <3>2. pt'[q][p].frame \notin Free'
      <4>1. Mapped' = FramesOf(pt')
        BY DEF Mapped, FramesOf
      <4> QED
        BY <3>1, <4>1, FramesAre DEF Free
    <3> QED
      BY <2>1, <3>1, <3>2
  <2>7. \A q \in Env, p \in Page : pt[q][p] = NULL => pt'[q][p] = NULL
    BY <2>1, <2>2
  <2> QED
    BY <2>1, <2>5, <2>6, <2>7 DEF Reads
<1> QED
  BY <1>1, <1>2, <1>3

LEMMA OnlyFaultsChange ==
  ASSUME NEW e \in Env, Step(e), NEW q \in Env, fault'[q] # fault[q]
  PROVE  Trap(e) \/ PfAlloc(e) \/ PfCopy(e) \/ PfMap(e) \/ PfUnmap(e)
  BY DEF Step, Store, ReadPte, DupPage, DupOwn, DupOrShare, CopyPage, Start, Exofork

\* fork.c:14-62: a page fault and its handling change nothing that anybody reads, the
\* program with the fault included, whatever the others do between its calls.
THEOREM FaultsAreTransparent == Spec => FaultIsTransparent
<1>1. ForkInv /\ [Next]_vars =>
        [\A e \in Env : fault'[e] # fault[e] =>
           \A q \in Env, p \in Page : Reads(q, p)' = Reads(q, p)]_vars
  BY FaultReads, OnlyFaultsChange DEF Next
<1> QED
  BY <1>1, InvIsAlways, PTL DEF Spec, FaultIsTransparent

-----------------------------------------------------------------------------
(* Every step is a step of Snapshot, or changes nothing there.             *)

Space == [e \in Env |-> [p \in Page |-> Reads(e, p)]]
Stages == [e \in Env |-> Stage(e)]
Stutters == UNCHANGED <<Space, Stages>>

LEMMA SameSpace ==
  ASSUME \A q \in Env, p \in Page : Reads(q, p)' = Reads(q, p)
  PROVE  Space' = Space
  BY DEF Space

LEMMA SameStages ==
  ASSUME \A q \in Env : Stage(q)' = Stage(q)
  PROVE  Stages' = Stages
  BY DEF Stages

\* The parent at work on a page of its child: all other pages are what they were.
Elsewhere(e) ==
  \A q \in Env, p \in Page : <<q, p>> # <<Child(e), Here(e)>> =>
    /\ pt'[q][p] # NULL <=> pt[q][p] # NULL
    /\ pt[q][p] # NULL => /\ pt'[q][p].frame = pt[q][p].frame
                          /\ mem'[pt[q][p].frame] = mem[pt[q][p].frame]
    /\ q # e => pt'[q][p] = pt[q][p]

LEMMA ForkReads ==
  ASSUME ForkInv, NEW e \in Env, pc[e] \in {"dup", "own", "copy"}, fault[e] = NULL,
         NEW at, NEW n, NEW pte, Onward(e, at, n, pte), n = job[e].n \/ at = "read", Elsewhere(e),
         NEW c, NEW h, c = Child(e), h = Here(e)
  PROVE  /\ Stages' = Stages
         /\ \A q \in Env, p \in Page : <<q, p>> # <<c, h>> => Reads(q, p)' = Reads(q, p)
         /\ Unfixed(c, h) <=>
              /\ pc[e] \in {"own", "copy"}
              /\ pc[e] = "own" => Writable(e, h) /\ pt[e][h].frame = pt[c][h].frame
         /\ Unfixed(c, h)' <=>
              /\ at \in {"own", "copy"}
              /\ at = "own" => Writable(e, h)' /\ pt'[e][h].frame = pt'[c][h].frame
<1>1. /\ Forker(e) /\ c \in Env /\ c # e /\ pc[c] = "embryo" /\ h \in Page /\ h = Layout[job[e].n]
  BY ForkFacts
<1>2. /\ \A q \in Env : Forker(q) => q = e \/ Child(q) # c
      /\ \A q \in Env : Forker(q) => Child(q) \in Env /\ Child(q) # e /\ Child(q)' = Child(q) /\ q # c
  BY <1>1, OnwardIs, InvFacts, TypeFacts DEF Forks, Forker
<1>3. \A q \in Env : q # e => pc'[q] = pc[q] /\ Here(q)' = Here(q)
  BY OnwardIs DEF Here
<1>4. pc'[e] = at /\ (at \in {"own", "copy"} => Here(e)' = h) /\ Child(e)' = c
  BY <1>1, OnwardIs
<1>5. Stages' = Stages
  <2>1. \A q \in Env : Stage(q)' = Stage(q)
    BY <1>1, <1>3, OnwardIs DEF Stage
  <2> QED
    BY <2>1, SameStages
<1>6. Unfixed(c, h) <=>
        /\ pc[e] \in {"own", "copy"}
        /\ pc[e] = "own" => Writable(e, h) /\ pt[e][h].frame = pt[c][h].frame
  BY <1>1, <1>2 DEF Unfixed, Forker
<1>7. \A q \in Env : pc'[q] \in {"own", "copy"} => Forker(q)
  BY OnwardIs DEF Forker
<1>8. Unfixed(c, h)' <=>
        /\ at \in {"own", "copy"}
        /\ at = "own" => Writable(e, h)' /\ pt'[e][h].frame = pt'[c][h].frame
  <2>1. Unfixed(c, h)' <=>
          \E x \in Env : /\ pc'[x] \in {"own", "copy"} /\ Child(x)' = c /\ Here(x)' = h
                         /\ pc'[x] = "own" => /\ pt'[x][h] # NULL /\ "W" \in pt'[x][h].perm
                                              /\ pt'[x][h].frame = pt'[c][h].frame
    BY DEF Unfixed, Writable, Can
  <2>2. \A x \in Env : pc'[x] \in {"own", "copy"} /\ Child(x)' = c => x = e
    BY <1>2, <1>7
  <2> QED
    BY <1>4, <2>1, <2>2 DEF Writable, Can
<1>9. \A q \in Env, p \in Page : <<q, p>> # <<c, h>> => Reads(q, p)' = Reads(q, p)
  <2> SUFFICES ASSUME NEW q \in Env, NEW p \in Page, <<q, p>> # <<c, h>>
               PROVE  Reads(q, p)' = Reads(q, p)
    OBVIOUS
  <2>1. Unfixed(q, p)' <=> Unfixed(q, p)
    <3>1. \A x \in Env : x # e =>
            (/\ pc'[x] \in {"own", "copy"} /\ Child(x)' = q /\ Here(x)' = p
             /\ pc'[x] = "own" => pt'[x][p] # NULL /\ "W" \in pt'[x][p].perm /\ pt'[x][p].frame = pt'[q][p].frame)
            <=>
            (/\ pc[x] \in {"own", "copy"} /\ Child(x) = q /\ Here(x) = p
             /\ pc[x] = "own" => pt[x][p] # NULL /\ "W" \in pt[x][p].perm /\ pt[x][p].frame = pt[q][p].frame)
      <4> SUFFICES ASSUME NEW x \in Env, x # e, pc[x] \in {"own", "copy"}, Child(x) = q
                   PROVE  pt'[x][p] = pt[x][p] /\ pt'[q][p] = pt[q][p] /\ Child(x)' = Child(x)
        BY <1>2, <1>3 DEF Forker
      <4>1. Forker(x) /\ q # e /\ q # c /\ x # c
        BY <1>2 DEF Forker
      <4> QED
        BY <1>2, <4>1 DEF Elsewhere
    <3>2. ~(pc'[e] \in {"own", "copy"} /\ Child(e)' = q /\ Here(e)' = p)
      BY <1>4
    <3>3. ~(pc[e] \in {"own", "copy"} /\ Child(e) = q /\ Here(e) = p)
      OBVIOUS
    <3> QED
      BY <3>1, <3>2, <3>3 DEF Unfixed, Writable, Can
  <2>2. /\ pt'[q][p] # NULL <=> pt[q][p] # NULL
        /\ pt[q][p] # NULL => mem'[pt'[q][p].frame] = mem[pt[q][p].frame]
    BY DEF Elsewhere
  <2> QED
    BY <2>1, <2>2 DEF Reads
<1> QED
  BY <1>5, <1>6, <1>8, <1>9

\* One page of the child becomes readable, with what the parent reads there, or it
\* stays as it was.
LEMMA PageIsCopied ==
  ASSUME ForkInv, NEW e \in Env, pc[e] \in {"dup", "own", "copy"}, fault[e] = NULL,
         NEW c, NEW h, c = Child(e), h = Here(e), Stages' = Stages,
         \A q \in Env, p \in Page : <<q, p>> # <<c, h>> => Reads(q, p)' = Reads(q, p),
         Reads(c, h)' = Reads(c, h) \/ (Reads(c, h) = NULL /\ Reads(c, h)' = Reads(e, h))
  PROVE  Stutters \/ Promise!Copy(e, c, h)
<1>1. c \in Env /\ pc[c] = "embryo" /\ h \in Page /\ pc[e] # "embryo" /\ pt[e][h] # NULL
  BY ForkFacts
<1>2. CASE Reads(c, h)' = Reads(c, h)
  BY <1>2, SameSpace DEF Stutters
<1>3. CASE Reads(c, h) = NULL /\ Reads(c, h)' = Reads(e, h)
  <2>1. Reads(e, h) # NULL
    BY <1>1, ReadsFacts
  <2>2. Space' = [Space EXCEPT ![c][h] = Space[e][h]]
    <3>1. \A q \in Env, p \in Page : Space[q][p] = Reads(q, p)
      BY DEF Space
    <3>2. Space' = [q \in Env |-> [p \in Page |-> Reads(q, p)']]
      BY DEF Space
    <3>3. \A q \in Env, p \in Page :
            Reads(q, p)' = IF q = c /\ p = h THEN Space[e][h] ELSE Space[q][p]
      BY <1>1, <1>3, <3>1
    <3>4. Space \in [Env -> [Page -> Value \cup {NULL}]]
      BY ReadsFacts DEF Space
    <3> HIDE DEF Space
    <3>5. [Space EXCEPT ![c][h] = Space[e][h]] =
            [q \in Env |-> [p \in Page |-> IF q = c /\ p = h THEN Space[e][h] ELSE Space[q][p]]]
      BY <1>1, <3>4
    <3>6. [q \in Env |-> [p \in Page |-> Reads(q, p)']] =
            [q \in Env |-> [p \in Page |-> IF q = c /\ p = h THEN Space[e][h] ELSE Space[q][p]]]
      BY <3>3
    <3> QED
      BY <3>2, <3>5, <3>6
  <2>3. Space[c][h] = NULL /\ Space[e][h] # NULL
    BY <1>1, <1>3, <2>1 DEF Space
  <2>4. Stages[e] = "live" /\ Stages[c] = "embryo"
    BY <1>1 DEF Stages, Stage
  <2> QED
    BY <2>2, <2>3, <2>4 DEF Promise!Copy, Space, Stages
<1> QED
  BY <1>2, <1>3

LEMMA SharingIsCopy ==
  ASSUME ForkInv, NEW e \in Env, pc[e] = "dup", fault[e] = NULL, UNCHANGED mem,
         NEW perm, NEW at, NEW n, NEW pte, SharingStep(e, perm, at, n, pte),
         NEW c, NEW h, c = Child(e), h = Here(e)
  PROVE  Stutters \/ Promise!Copy(e, c, h)
<1>1. /\ Lawful(h, perm) /\ Shares(e, perm) /\ Onward(e, at, n, pte)
      /\ (at = "own" /\ n = job[e].n) \/ at = "read"
  BY DEF SharingStep
<1>2. perm \subseteq {"W", "COW", "SHARE"}
  BY <1>1 DEF Lawful
<1>3. /\ pt'[c][h] # NULL /\ pt'[c][h].frame = pt[e][h].frame
      /\ \A q \in Env, p \in Page : <<q, p>> # <<c, h>> => pt'[q][p] = pt[q][p]
  BY <1>1, <1>2, SharesIs
<1>4. /\ c \in Env /\ c # e /\ h \in Page /\ pt[e][h] # NULL
      /\ pt[c][h] = NULL /\ pc[e] \notin {"embryo", "own", "copy"}
  <2>1. /\ h = Layout[job[e].n] /\ job[e].n \in DOMAIN Layout /\ job[e].n \in Nat
        /\ \A j \in DOMAIN Layout : pt[c][Layout[j]] # NULL <=> pt[e][Layout[j]] # NULL /\ Done(e, j)
    BY ForkFacts
  <2>2. ~Done(e, job[e].n)
    BY <2>1 DEF Done
  <2> QED
    BY <2>1, <2>2, ForkFacts
<1>5. Elsewhere(e)
  BY <1>3 DEF Elsewhere
<1>6. /\ Stages' = Stages
      /\ \A q \in Env, p \in Page : <<q, p>> # <<c, h>> => Reads(q, p)' = Reads(q, p)
  BY <1>1, <1>5, ForkReads
<1>7. Reads(c, h) = NULL
  BY <1>4 DEF Reads
<1>8. Reads(c, h)' = NULL \/ Reads(c, h)' = Reads(e, h)
  <2>1. Reads(e, h) = mem[pt[e][h].frame]
    BY <1>4, ReadsFacts
  <2> QED
    BY <1>3, <2>1 DEF Reads
<1> QED
  BY <1>6, <1>7, <1>8, PageIsCopied

LEMMA DupOwnIsCopy ==
  ASSUME ForkInv, NEW e \in Env, DupOwn(e), NEW c, NEW h, c = Child(e), h = Here(e)
  PROVE  Stutters \/ Promise!Copy(e, c, h)
<1>1. /\ pc[e] = "own" /\ fault[e] = NULL /\ NextPage(e) /\ UNCHANGED mem
      /\ pt' = [pt EXCEPT ![e][h].perm = {"COW"}]
  BY DEF DupOwn, Forking, frames
<1>2. Onward(e, "read", job[e].n + 1, NULL)
  BY <1>1, NextPageIs
<1>3. /\ c \in Env /\ c # e /\ h \in Page /\ pt[e][h] # NULL /\ pt[e][h] \in Entry
      /\ pt[c][h] # NULL /\ pc[e] # "embryo"
  <2>1. /\ h = Layout[job[e].n] /\ job[e].n \in DOMAIN Layout
        /\ \A j \in DOMAIN Layout : pt[c][Layout[j]] # NULL <=> pt[e][Layout[j]] # NULL /\ Done(e, j)
    BY <1>1, ForkFacts
  <2>2. Done(e, job[e].n)
    BY <1>1 DEF Done
  <2> QED
    BY <1>1, <2>1, <2>2, ForkFacts
<1>4. /\ pt'[e][h] # NULL /\ pt'[e][h].frame = pt[e][h].frame
      /\ \A q \in Env, p \in Page : <<q, p>> # <<e, h>> => pt'[q][p] = pt[q][p]
  <2> DEFINE new == [pt[e][h] EXCEPT !.perm = {"COW"}]
  <2>1. new \in Entry /\ new.frame = pt[e][h].frame
    BY <1>3 DEF Entry
  <2>2. pt' = [pt EXCEPT ![e][h] = new]
    BY <1>1, <1>3, InvFacts DEF Types
  <2> HIDE DEF new
  <2>3. new # NULL
    BY <2>1, Constants
  <2> QED
    BY <1>3, <2>1, <2>2, <2>3, InvFacts DEF Types
<1>5. Elsewhere(e)
  BY <1>1, <1>3, <1>4 DEF Elsewhere
<1>6. /\ Stages' = Stages
      /\ \A q \in Env, p \in Page : <<q, p>> # <<c, h>> => Reads(q, p)' = Reads(q, p)
      /\ Unfixed(c, h) <=> Writable(e, h) /\ pt[e][h].frame = pt[c][h].frame
      /\ ~Unfixed(c, h)'
  BY <1>1, <1>2, <1>5, ForkReads
<1>7. Reads(c, h)' = mem[pt[c][h].frame]
  BY <1>1, <1>3, <1>4, <1>6 DEF Reads
<1>8. CASE Unfixed(c, h)
  <2>1. Reads(c, h) = NULL
    BY <1>8 DEF Reads
  <2>2. Reads(e, h) = mem[pt[e][h].frame]
    BY <1>3, ReadsFacts
  <2> QED
    BY <1>1, <1>6, <1>7, <1>8, <2>1, <2>2, PageIsCopied
<1>9. CASE ~Unfixed(c, h)
  <2>1. Reads(c, h) = mem[pt[c][h].frame]
    BY <1>3, <1>9, ReadsFacts
  <2> QED
    BY <1>1, <1>6, <1>7, <2>1, PageIsCopied
<1> QED
  BY <1>8, <1>9

LEMMA AllocatesIsNothing ==
  ASSUME ForkInv, NEW e \in Env, NEW f, Allocates(e, f), NEW c, NEW h, c = Child(e), h = Here(e)
  PROVE  Stutters \/ Promise!Copy(e, c, h)
<1>1. /\ pc[e] = "dup" /\ fault[e] = NULL /\ UNCHANGED mem
      /\ pt' = [pt EXCEPT ![c][h] = [frame |-> f, perm |-> {"W"}]]
  BY DEF Allocates
<1>2. Onward(e, "copy", job[e].n, job[e].pte)
  BY DEF Allocates
<1>3. /\ c \in Env /\ c # e /\ h \in Page /\ pt[c][h] = NULL
  <2>1. /\ h = Layout[job[e].n] /\ job[e].n \in DOMAIN Layout /\ job[e].n \in Nat
        /\ \A j \in DOMAIN Layout : pt[c][Layout[j]] # NULL <=> pt[e][Layout[j]] # NULL /\ Done(e, j)
    BY <1>1, ForkFacts
  <2>2. ~Done(e, job[e].n)
    BY <1>1, <2>1 DEF Done
  <2> QED
    BY <1>1, <2>1, <2>2, ForkFacts
<1>4. \A q \in Env, p \in Page : <<q, p>> # <<c, h>> => pt'[q][p] = pt[q][p]
  BY <1>1, <1>3, InvFacts DEF Types
<1>5. Elsewhere(e)
  BY <1>1, <1>4 DEF Elsewhere
<1>6. /\ Stages' = Stages
      /\ \A q \in Env, p \in Page : <<q, p>> # <<c, h>> => Reads(q, p)' = Reads(q, p)
      /\ Unfixed(c, h)'
  BY <1>1, <1>2, <1>5, ForkReads
<1>7. Reads(c, h) = NULL /\ Reads(c, h)' = NULL
  BY <1>3, <1>6 DEF Reads
<1> QED
  BY <1>1, <1>6, <1>7, PageIsCopied

LEMMA CopyPageIsCopy ==
  ASSUME ForkInv, NEW e \in Env, CopyPage(e), NEW c, NEW h, c = Child(e), h = Here(e)
  PROVE  Stutters \/ Promise!Copy(e, c, h)
<1>1. /\ pc[e] = "copy" /\ fault[e] = NULL /\ NextPage(e) /\ UNCHANGED pt
      /\ mem' = [mem EXCEPT ![temp[e]] = mem[pt[e][h].frame]]
  BY DEF CopyPage, Forking
<1>2. Onward(e, "read", job[e].n + 1, NULL)
  BY <1>1, NextPageIs
<1>3. c \in Env /\ c # e /\ h \in Page /\ pt[e][h] # NULL /\ pc[e] # "embryo"
  BY <1>1, ForkFacts
<1>4. temp[e] # NULL /\ temp[e] \in Frame /\ Twin(e, c, h)
  BY <1>1, InvFacts DEF Faults, Types, Twin
<1>5. /\ pt[c][h] # NULL /\ pt[c][h].frame = temp[e]
      /\ \A q \in Env, p \in Page : pt[q][p] # NULL /\ pt[q][p].frame = temp[e] => q = c /\ p = h
  BY <1>1, <1>3, <1>4, InvFacts DEF Owners, Twin, Faulted
<1>6. mem'[temp[e]] = mem[pt[e][h].frame] /\ \A f \in Frame : f # temp[e] => mem'[f] = mem[f]
  BY <1>1, <1>4, InvFacts DEF Types
<1>7. \A q \in Env, p \in Page : <<q, p>> # <<c, h>> /\ pt[q][p] # NULL =>
        mem'[pt[q][p].frame] = mem[pt[q][p].frame]
  BY <1>5, <1>6, InvFacts, TypeFacts
<1>8. Elsewhere(e)
  BY <1>1, <1>7 DEF Elsewhere
<1>9. /\ Stages' = Stages
      /\ \A q \in Env, p \in Page : <<q, p>> # <<c, h>> => Reads(q, p)' = Reads(q, p)
      /\ Unfixed(c, h) /\ ~Unfixed(c, h)'
  BY <1>1, <1>2, <1>8, ForkReads
<1>10. Reads(c, h) = NULL /\ Reads(c, h)' = mem[pt[e][h].frame]
  BY <1>1, <1>5, <1>6, <1>9 DEF Reads
<1>11. Reads(e, h) = mem[pt[e][h].frame]
  BY <1>3, ReadsFacts
<1> QED
  BY <1>1, <1>9, <1>10, <1>11, PageIsCopied

LEMMA StoreIsWrite ==
  ASSUME ForkInv, NEW e \in Env, Store(e)
  PROVE  \E p \in Page, v \in Value : Promise!Write(e, p, v)
<1>1. PICK p \in Page, v \in Value :
        /\ Stores(e, p) /\ Writable(e, p)
        /\ mem' = [mem EXCEPT ![pt[e][p].frame] = v]
        /\ UNCHANGED <<method, temp, ux, pt, upcall, pc, job, fault>>
  BY DEF Store
<1> DEFINE f == pt[e][p].frame
<1>2. /\ pt[e][p] # NULL /\ f \in Frame /\ Live(e) /\ p \notin Text
      /\ mem'[f] = v /\ \A g \in Frame : g # f => mem'[g] = mem[g]
  BY <1>1, InvFacts, TypeFacts DEF Stores, Live, Types
<1> HIDE DEF f
<1>3. \A q \in Env, r \in Page : Unfixed(q, r)' <=> Unfixed(q, r)
  BY <1>1 DEF Unfixed, Child, Here, Writable, Can
<1>4. Reads(e, p) # NULL
  BY <1>2, ReadsFacts DEF Live
<1> DEFINE Seen(q) == q = e \/ (p \in Shared /\ Reads(q, p) # NULL)
<1>5. \A q \in Env, r \in Page :
        Reads(q, r)' = IF r = p /\ Seen(q) THEN v ELSE Reads(q, r)
  <2> SUFFICES ASSUME NEW q \in Env, NEW r \in Page
               PROVE  Reads(q, r)' = IF r = p /\ Seen(q) THEN v ELSE Reads(q, r)
    OBVIOUS
  <2>1. CASE Reads(q, r) = NULL
    <3>1. ~(r = p /\ Seen(q))
      BY <1>4, <2>1
    <3>2. Reads(q, r)' = NULL
      BY <1>1, <1>3, <2>1, ReadsFacts DEF Reads
    <3> QED
      BY <2>1, <3>1, <3>2
  <2>2. CASE Reads(q, r) # NULL
    <3>1. /\ pt[q][r] # NULL /\ ~Unfixed(q, r) /\ Reads(q, r) = mem[pt[q][r].frame]
          /\ pt[q][r].frame \in Frame
      BY <2>2, ReadsFacts, InvFacts, TypeFacts
    <3>2. Reads(q, r)' = mem'[pt[q][r].frame]
      BY <1>1, <1>3, <3>1 DEF Reads
    <3>3. pt[q][r].frame = f <=> r = p /\ Seen(q)
      <4>1. ASSUME r = p, Seen(q) PROVE pt[q][r].frame = f
        <5>1. CASE q = e
          BY <4>1, <5>1 DEF f
        <5>2. CASE q # e
          <6>1. p \in Shared \ Text
            BY <1>2, <4>1, <5>2
          <6> QED
            BY <1>2, <3>1, <4>1, <6>1, InvFacts DEF Owners, f
        <5> QED
          BY <5>1, <5>2
      <4>2. ASSUME pt[q][r].frame = f, ~(r = p /\ Seen(q)) PROVE FALSE
        <5>1. SameFrame(e, p, q, r)
          BY <1>2, <3>1, <4>2 DEF SameFrame, f
        <5>2. r = p
          BY <5>1, InvFacts DEF Owners
        <5>3. q # e /\ p \notin Shared
          BY <2>2, <4>2, <5>2
        <5>4. ~Can(e, p, "SHARE")
          BY <1>2, <5>3, InvFacts DEF Rightful, Lawful, Can
        <5>5. Half(e, p) /\ q = Child(e)
          BY <1>1, <5>1, <5>2, <5>3, <5>4, InvFacts DEF Alone
        <5>6. Unfixed(q, r)
          BY <1>1, <4>2, <5>2, <5>5 DEF Unfixed, Half, f
        <5> QED
          BY <3>1, <5>6
      <4> QED
        BY <4>1, <4>2
    <3> QED
      BY <1>2, <3>1, <3>2, <3>3
  <2> QED
    BY <2>1, <2>2
<1>6. Space' = [q \in Env |-> [Space[q] EXCEPT ![p] = IF Seen(q) THEN v ELSE @]]
  <2>1. Space' = [q \in Env |-> [r \in Page |-> Reads(q, r)']]
    BY DEF Space
  <2>2. \A q \in Env : [r \in Page |-> Reads(q, r)'] = [Space[q] EXCEPT ![p] = IF Seen(q) THEN v ELSE @]
    <3> SUFFICES ASSUME NEW q \in Env
                 PROVE  [r \in Page |-> Reads(q, r)'] = [Space[q] EXCEPT ![p] = IF Seen(q) THEN v ELSE @]
      OBVIOUS
    <3>1. Space[q] = [r \in Page |-> Reads(q, r)]
      BY DEF Space
    <3>2. \A r \in Page : Reads(q, r)' = IF r = p /\ Seen(q) THEN v ELSE Reads(q, r)
      BY <1>5
    <3> HIDE DEF Seen
    <3> QED
      BY <3>1, <3>2
  <2> QED
    BY <2>1, <2>2
<1>7. Stages' = Stages /\ Stages[e] = "live"
  BY <1>1, <1>2 DEF Stages, Stage, Live
<1>8. Space[e][p] # NULL /\ \A q \in Env : Seen(q) <=> q = e \/ (p \in Shared /\ Space[q][p] # NULL)
  BY <1>4 DEF Space
<1> HIDE DEF Seen
<1>9. Promise!Write(e, p, v)
  <2>1. Space' = [q \in Env |-> [Space[q] EXCEPT ![p] =
                    IF q = e \/ (p \in Shared /\ Space[q][p] # NULL) THEN v ELSE @]]
    BY <1>6, <1>8
  <2> QED
    BY <1>7, <1>8, <2>1 DEF Promise!Write, Promise!Sees, Space, Stages
<1> QED
  BY <1>9

LEMMA ExoforkIsCreate ==
  ASSUME ForkInv, NEW e \in Env, NEW c \in Env, Exofork(e, c)
  PROVE  Promise!Create(e, c)
<1>1. /\ pc[e] = "user" /\ pc[c] = "none" /\ UNCHANGED <<mem, pt>>
      /\ pc' = [pc EXCEPT ![e] = "read", ![c] = "embryo"]
      /\ job' = [job EXCEPT ![e] = [child |-> c, n |-> 1, pte |-> NULL]]
  BY DEF Exofork, Forking
<1>2. /\ pc'[e] = "read" /\ pc'[c] = "embryo"
      /\ \A q \in Env : q \notin {e, c} => pc'[q] = pc[q] /\ job'[q] = job[q]
  BY <1>1, InvFacts DEF Types
<1>3. \A q \in Env : pc'[q] \in {"own", "copy"} \/ pc[q] \in {"own", "copy"} =>
        pc'[q] = pc[q] /\ Child(q)' = Child(q) /\ Here(q)' = Here(q)
  BY <1>1, <1>2 DEF Child, Here
<1>4. \A q \in Env, p \in Page : Unfixed(q, p)' <=> Unfixed(q, p)
  BY <1>1, <1>3 DEF Unfixed, Writable, Can
<1>5. \A q \in Env, p \in Page : Reads(q, p)' = Reads(q, p)
  BY <1>1, <1>4 DEF Reads
<1>6. Space' = Space
  BY <1>5, SameSpace
<1>7. Stages' = [Stages EXCEPT ![c] = "embryo"] /\ Stages[e] = "live" /\ Stages[c] = "none"
  BY <1>1, <1>2 DEF Stages, Stage
<1> QED
  BY <1>6, <1>7 DEF Promise!Create, Space, Stages

LEMMA ReadPteIsNothing ==
  ASSUME ForkInv, NEW e \in Env, ReadPte(e)
  PROVE  Stutters
<1>1. pc[e] = "read" /\ UNCHANGED <<mem, pt>>
  BY DEF ReadPte, Forking, frames
<1>2. pc'[e] \in {"read", "dup"} /\ \A q \in Env : q # e => pc'[q] = pc[q] /\ job'[q] = job[q]
  BY <1>1, InvFacts DEF ReadPte, Goto, Types
<1>3. \A q \in Env : pc'[q] \in {"own", "copy"} \/ pc[q] \in {"own", "copy"} =>
        pc'[q] = pc[q] /\ Child(q)' = Child(q) /\ Here(q)' = Here(q)
  BY <1>1, <1>2 DEF Child, Here
<1>4. \A q \in Env, p \in Page : Unfixed(q, p)' <=> Unfixed(q, p)
  BY <1>1, <1>3 DEF Unfixed, Writable, Can
<1>5. \A q \in Env, p \in Page : Reads(q, p)' = Reads(q, p)
  BY <1>1, <1>4 DEF Reads
<1>6. \A q \in Env : Stage(q)' = Stage(q)
  BY <1>1, <1>2 DEF Stage
<1> QED
  BY <1>5, <1>6, SameSpace, SameStages DEF Stutters

LEMMA StartIsStart ==
  ASSUME ForkInv, NEW e \in Env, Start(e), NEW c, c = Child(e)
  PROVE  c \in Env /\ Promise!Start(e, c)
<1>1. /\ pc[e] = "read" /\ job[e].n \notin DOMAIN Layout /\ UNCHANGED <<mem, pt>>
      /\ pc' = [pc EXCEPT ![e] = "user", ![c] = "user"] /\ job' = [job EXCEPT ![e] = NULL]
  BY DEF Start, Forking, frames
<1>2. Forker(e) /\ job[e] # NULL /\ c \in Env /\ pc[c] = "embryo" /\ c # e
  BY <1>1, InvFacts, TypeFacts DEF Forker, Forks
<1>3. /\ pc'[e] = "user" /\ pc'[c] = "user"
      /\ \A q \in Env : q \notin {e, c} => pc'[q] = pc[q] /\ job'[q] = job[q]
  BY <1>1, <1>2, InvFacts DEF Types
<1>4. \A q \in Env : pc'[q] \in {"own", "copy"} \/ pc[q] \in {"own", "copy"} =>
        pc'[q] = pc[q] /\ Child(q)' = Child(q) /\ Here(q)' = Here(q)
  BY <1>1, <1>2, <1>3 DEF Child, Here
<1>5. \A q \in Env, p \in Page : Unfixed(q, p)' <=> Unfixed(q, p)
  BY <1>1, <1>4 DEF Unfixed, Writable, Can
<1>6. \A q \in Env, p \in Page : Reads(q, p)' = Reads(q, p)
  BY <1>1, <1>5 DEF Reads
<1>7. Space' = Space
  BY <1>6, SameSpace
<1>8. Stages' = [Stages EXCEPT ![c] = "live"] /\ Stages[e] = "live" /\ Stages[c] = "embryo"
  BY <1>1, <1>2, <1>3 DEF Stages, Stage
<1>9. \A p \in Page : Reads(c, p) = NULL <=> Reads(e, p) = NULL
  <2> SUFFICES ASSUME NEW p \in Page PROVE Reads(c, p) = NULL <=> Reads(e, p) = NULL
    OBVIOUS
  <2>1. ~Unfixed(e, p)
    BY <1>1, ReadsFacts
  <2>2. ~Unfixed(c, p)
    <3>1. \A x \in Env : Forker(x) /\ Child(x) = c => x = e
      BY <1>2, InvFacts DEF Forks
    <3> QED
      BY <1>1, <3>1 DEF Unfixed, Forker
  <2>3. pt[c][p] # NULL <=> pt[e][p] # NULL
    <3>1. PICK i \in DOMAIN Layout : Layout[i] = p
      BY Constants
    <3>2. job[e].n \in 1..(Len(Layout)+1) /\ i \in 1..Len(Layout) /\ Len(Layout) \in Nat
      BY <1>2, InvFacts, TypeFacts, Constants
    <3>3. job[e].n = Len(Layout) + 1
      BY <1>1, <3>2, Constants
    <3>4. i < job[e].n
      BY <3>2, <3>3
    <3> QED
      BY <1>2, <3>1, <3>4, InvFacts DEF Progress, Done
  <2> QED
    BY <1>2, <2>1, <2>2, <2>3, ReadsFacts
<1>10. \A p \in Page : Space[c][p] = NULL <=> Space[e][p] = NULL
  BY <1>2, <1>9 DEF Space
<1> QED
  BY <1>2, <1>7, <1>8, <1>10 DEF Promise!Start, Space, Stages

LEMMA StartsAsPromised ==
  ASSUME Init
  PROVE  Promise!Init
<1>1. ForkInv
  BY InvHoldsAtStart
<1>2. Stages = [e \in Env |-> IF e = First THEN "live" ELSE "none"]
  BY DEF Init, Stages, Stage
<1>3. Space \in [Env -> [Page -> Value \cup {NULL}]]
  BY <1>1, ReadsFacts DEF Space
<1>4. \A e \in Env \ {First}, p \in Page : Space[e][p] = NULL
  <2>1. \A e \in Env \ {First}, p \in Page : pt[e][p] = NULL
    BY DEF Init
  <2> QED
    BY <2>1 DEF Space, Reads
<1> QED
  BY <1>2, <1>3, <1>4 DEF Promise!Init, Space, Stages

LEMMA StepIsPromised ==
  ASSUME ForkInv, NEW e \in Env, Step(e)
  PROVE  Stutters \/ Promise!Next
<1>1. CASE Store(e)
  BY <1>1, StoreIsWrite DEF Promise!Next
<1>2. CASE Trap(e) \/ PfAlloc(e) \/ PfCopy(e) \/ PfMap(e) \/ PfUnmap(e)
  <2>1. \A q \in Env : Stage(q)' = Stage(q)
    BY <1>2, FaultReads DEF Stage
  <2> QED
    BY <1>2, <2>1, FaultReads, SameSpace, SameStages DEF Stutters
<1>3. CASE ReadPte(e)
  BY <1>3, ReadPteIsNothing
<1>4. CASE DupPage(e) \/ DupOwn(e) \/ DupOrShare(e) \/ CopyPage(e)
  <2>1. pc[e] \in {"dup", "own", "copy"} /\ fault[e] = NULL
    BY <1>4 DEF DupPage, DupOwn, DupOrShare, CopyPage, Forking
  <2>2. Child(e) \in Env /\ Here(e) \in Page
    BY <2>1, ForkFacts
  <2>3. Stutters \/ Promise!Copy(e, Child(e), Here(e))
    <3>1. CASE DupPage(e)
      <4>1. PICK perm, at, n, pte : SharingStep(e, perm, at, n, pte)
        BY <3>1, DupPageIs
      <4>2. pc[e] = "dup" /\ UNCHANGED mem
        BY <3>1, DupPageIs
      <4> QED
        BY <2>1, <4>1, <4>2, SharingIsCopy
    <3>2. CASE DupOwn(e)
      BY <3>2, DupOwnIsCopy
    <3>3. CASE DupOrShare(e)
      <4>1. CASE Allocates(e, Lowest(Free))
        BY <4>1, AllocatesIsNothing
      <4>2. CASE /\ pc[e] = "dup" /\ fault[e] = NULL /\ UNCHANGED mem
                 /\ \E perm, at, n, pte : SharingStep(e, perm, at, n, pte)
        <5>1. PICK perm, at, n, pte : SharingStep(e, perm, at, n, pte)
          BY <4>2
        <5> QED
          BY <4>2, <5>1, SharingIsCopy
      <4> QED
        BY <3>3, <4>1, <4>2, DupOrShareIs
    <3>4. CASE CopyPage(e)
      BY <3>4, CopyPageIsCopy
    <3> QED
      BY <1>4, <3>1, <3>2, <3>3, <3>4
  <2> QED
    BY <2>2, <2>3 DEF Promise!Next
<1>5. CASE Start(e)
  BY <1>5, StartIsStart DEF Promise!Next
<1>6. CASE \E c \in Env : Exofork(e, c)
  BY <1>6, ExoforkIsCreate DEF Promise!Next
<1> QED
  BY <1>1, <1>2, <1>3, <1>4, <1>5, <1>6 DEF Step

\* fork.c:14-62, 75-102, dumbfork.c: what an environment reads is what Snapshot says.
\* The child starts with a copy of the parent's pages as each was when it was mapped or
\* copied, and a later store to a private page is seen by the writer alone.
THEOREM ForkKeepsItsPromise == Spec => ForkIsSnapshot
<1>1. Init => Promise!Init
  BY StartsAsPromised
<1>2. ForkInv /\ [Next]_vars => [Promise!Next]_<<Space, Stages>>
  <2> SUFFICES ASSUME ForkInv, [Next]_vars PROVE Promise!Next \/ Stutters
    BY DEF Stutters
  <2>1. CASE Next
    BY <2>1, StepIsPromised DEF Next
  <2>2. CASE UNCHANGED vars
    <3>1. UNCHANGED <<mem, pt, pc, job>>
      BY <2>2 DEF vars, frames
    <3>2. \A q \in Env, p \in Page : Reads(q, p)' = Reads(q, p)
      BY <3>1 DEF Reads, Unfixed, Child, Here, Writable, Can
    <3>3. \A q \in Env : Stage(q)' = Stage(q)
      BY <3>1 DEF Stage
    <3> QED
      BY <3>2, <3>3, SameSpace, SameStages DEF Stutters
  <2> QED
    BY <2>1, <2>2
<1> QED
  BY <1>1, <1>2, InvIsAlways, PTL DEF Spec, ForkIsSnapshot, Promise!Spec, Space, Stages
=============================================================================
