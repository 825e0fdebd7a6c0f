--------------------------- MODULE FileServerProofs ---------------------------
(***************************************************************************)
(* Clients keep the files they have opened, and get nobody else's: a proof *)
(* about FileServer for any number of clients, files, slots of opentab and *)
(* descriptors, whoever is killed and whenever.                            *)
(*                                                                         *)
(* The argument is about ids.  Each slot hands out ids that differ by      *)
(* MAXOPEN and grow, so an id says which slot it is for and is never given *)
(* out again; a slot is given away only while no client maps its Fd page,  *)
(* and so an id that is still mapped is the one of the slot.               *)
(***************************************************************************)
EXTENDS FileServer, Facts, FiniteSetTheorems, TLAPS

-----------------------------------------------------------------------------
(* The inductive invariant.                                                *)

Request ==
  [op : {"none", "open", "sync"} \cup ByFile, id : Nat, open : 0..MaxOpens, n : FdNum \cup {NULL},
   arg : {0} \cup TruncTo, file : File \cup {NULL}, mode : Mode \cup {NULL}, flags : Flags \cup {{}}]

Server ==
  [pc : {"top", "receiving", "handle", "advance", "reply", "monitor"},
   whom : Client \cup {NULL}, page : Slot \cup {NULL}]

Types ==
  /\ size \in [File -> Size \cup {NULL}]
  /\ opentab \in [Slot -> [used : {0, 1}, id : Nat, file : File \cup {NULL}, open : 0..MaxOpens]]
  /\ fdpage \in [Slot -> [id : Nat, mode : Mode \cup {"O_RDONLY"}, offset : 0..(FileBlocks+1)]]
  /\ srv \in Server
  /\ fd \in [Client -> [FdNum -> Slot \cup {NULL}]]
  /\ given \in [Client -> [FdNum -> 0..MaxOpens]]
  /\ pc \in [Client -> {"none", "idle", "send", "sent", "waiting", "unmap", "dead"}]
  /\ req \in [Client -> Request]
  /\ copy \in [id : Nat, open : 0..MaxOpens] \cup {NULL}
  /\ opens \in 0..MaxOpens
  /\ got \in [Slot -> SUBSET Nat]

\* The ids of a slot, and the requests to open a file that may still be granted.
IdOf(slot, id) == \E k \in 0..opens : id = MAXOPEN * k + slot
Wants(q) == req[q].op = "open" /\ ~(srv.pc \in {"reply", "monitor"} /\ srv.whom = q)
Granting == {q \in Client : Wants(q)}

Numbers ==
  /\ \A slot \in Slot : IdOf(slot, opentab[slot].id)
  /\ \A slot \in Slot : fdpage[slot].id = 0 \/ fdpage[slot].id = opentab[slot].id
  /\ opens + Cardinality(Granting) <= MaxOpens

\* A slot that is in use.
InUse(slot) ==
  /\ opentab[slot].used = 1 /\ fdpage[slot].id = opentab[slot].id
  /\ opentab[slot].file \in File /\ size[opentab[slot].file] # NULL

Holders ==
  /\ \A c \in Client, n \in FdNum :
       fd[c][n] # NULL => InUse(fd[c][n]) /\ opentab[fd[c][n]].open = given[c][n]
  /\ srv.pc = "reply" /\ srv.page # NULL => InUse(srv.page) /\ req[srv.whom].op = "open"

\* Where clients and the server are.
AtWork(c) == pc[c] \in {"send", "sent", "waiting", "unmap"}
Serving == srv.pc \in {"handle", "advance", "reply"}

Turns ==
  /\ \A c \in Client : AtWork(c) => req[c].op # "none"
  /\ \A c \in Client : pc[c] = "unmap" => req[c].op = "flush"
  /\ \A c \in Client : req[c].op \in {"open", "flush"} => req[c].n # NULL
  /\ \A c \in Client : req[c].op = "open" => req[c].file \in File /\ req[c].mode \in Mode
  /\ \A c \in Client : req[c].op = "set_size" => req[c].arg \in TruncTo
  /\ Serving => /\ srv.whom \in Client /\ req[srv.whom].op # "none"
                /\ pc[srv.whom] \in {"sent", "waiting"} \/ (pc[srv.whom] = "dead" /\ srv.whom \in Killed)
  /\ srv.pc = "advance" => req[srv.whom].op \in ByFile
  /\ srv.pc = "monitor" => srv.whom \in Killed /\ pc[srv.whom] = "dead"

\* An id that was given out, and for which open().
Ticket(id, open) ==
  \E slot \in Slot :
    /\ IdOf(slot, id) /\ id <= opentab[slot].id
    /\ id = opentab[slot].id => opentab[slot].open = open

Tickets ==
  /\ \A c \in Client : req[c].op \in ByFile => Ticket(req[c].id, req[c].open)
  /\ copy # NULL => Ticket(copy.id, copy.open)
  /\ \A c \in Client : AtWork(c) /\ req[c].op \in ByFile /\ req[c].n # NULL =>
       fd[c][req[c].n] # NULL /\ req[c].id = opentab[fd[c][req[c].n]].id

\* What was moved lies before the offset, but for the block that the server is at.
Moved ==
  /\ \A slot \in Slot : \A b \in got[slot] :
       \/ b < fdpage[slot].offset
       \/ srv.pc = "advance" /\ slot = SlotOf(req[srv.whom].id) /\ b = fdpage[slot].offset
  /\ srv.pc = "advance" => fdpage[SlotOf(req[srv.whom].id)].offset <= FileBlocks

FsInv == Types /\ Numbers /\ Holders /\ Turns /\ Tickets /\ Moved

LEMMA InvFacts ==
  ASSUME FsInv
  PROVE  Types /\ Numbers /\ Holders /\ Turns /\ Tickets /\ Moved
  BY DEF FsInv

-----------------------------------------------------------------------------
(* Constants, ids and references.                                          *)

LEMMA Constants ==
  /\ First \in Client /\ IsFiniteSet(Client) /\ Killed \subseteq Client
  /\ MAXFD \in Nat \ {0} /\ MAXOPEN \in Nat \ {0} /\ FileBlocks \in Nat \ {0} /\ MaxOpens \in Nat \ {0}
  /\ Slot = 0..(MAXOPEN-1) /\ FdNum = 0..(MAXFD-1) /\ Slot \subseteq Nat /\ FdNum \subseteq Nat
  /\ Offset = 0..FileBlocks /\ Size = 0..(FileBlocks+2)
  /\ SeekTo \subseteq Offset /\ TruncTo \subseteq Size
  /\ NULL \notin Client /\ NULL \notin File /\ NULL \notin Nat /\ NULL \notin Slot /\ NULL \notin FdNum
  /\ NULL \notin Size /\ NULL \notin [id : Nat, open : 0..MaxOpens]
  /\ 0 \in Nat
<1>1. 0 \in Nat
  OBVIOUS
<1>2. MAXFD \in Nat /\ MAXOPEN \in Nat /\ FileBlocks \in Nat /\ MaxOpens \in Nat
  BY FileServerAssumption
<1>3. Slot \subseteq Nat /\ FdNum \subseteq Nat /\ Size \subseteq Nat
  BY <1>2 DEF Slot, FdNum, Size
<1>4. [id : Nat, open : 0..MaxOpens] \subseteq [id : Nat, open : Nat]
  BY <1>2
<1> QED
  BY <1>1, <1>3, <1>4, FileServerAssumption DEF Slot, FdNum, Offset, Size

\* An id tells its slot.
LEMMA IdFacts ==
  ASSUME NEW slot \in Slot, NEW id, IdOf(slot, id), opens \in Nat
  PROVE  id \in Nat /\ SlotOf(id) = slot
<1>1. PICK k \in 0..opens : id = MAXOPEN * k + slot
  BY DEF IdOf
<1>2. k \in Nat /\ slot \in 0..(MAXOPEN-1) /\ MAXOPEN \in Nat \ {0}
  BY Constants
<1> QED
  BY <1>1, <1>2, Quotient DEF SlotOf

LEMMA CountIsZero ==
  ASSUME NEW S, IsFiniteSet(S)
  PROVE  Cardinality(S) \in Nat /\ (Cardinality(S) = 0 <=> S = {})
  BY FS_CardinalityType, FS_EmptySet

\* A page has more than the reference of the server exactly if a client maps it.
LEMMA RefFacts ==
  ASSUME Types, Holders, NEW slot \in Slot
  PROVE  /\ PageRef(slot) > 1 <=> \E c \in Client, n \in FdNum : fd[c][n] = slot
         /\ slot \in FreeSlots <=> \A c \in Client, n \in FdNum : fd[c][n] # slot
<1>1. IsFiniteSet(Client \X FdNum)
  <2>1. IsFiniteSet(FdNum)
    BY Constants, FS_Interval
  <2> QED
    BY <2>1, Constants, FS_Product
<1>2. IsFiniteSet(Mappings(slot))
  BY <1>1, FS_Subset DEF Mappings
<1>3. Mappings(slot) # {} <=> \E c \in Client, n \in FdNum : fd[c][n] = slot
  <2>1. ASSUME NEW c \in Client, NEW n \in FdNum, fd[c][n] = slot PROVE <<c, n>> \in Mappings(slot)
    BY <2>1 DEF Mappings
  <2> QED
    BY <2>1 DEF Mappings
<1>4. Cardinality(Mappings(slot)) \in Nat /\ (Cardinality(Mappings(slot)) = 0 <=> Mappings(slot) = {})
  BY <1>2, CountIsZero
<1>5. opentab[slot].used \in {0, 1}
  BY DEF Types
<1>6. Mappings(slot) # {} => opentab[slot].used = 1
  BY <1>3, Constants DEF Holders, InUse
<1>7. PageRef(slot) > 1 <=> Mappings(slot) # {}
  BY <1>4, <1>5, <1>6 DEF PageRef
<1>8. PageRef(slot) <= 1 <=> Mappings(slot) = {}
  BY <1>4, <1>5, <1>6 DEF PageRef
<1> QED
  BY <1>3, <1>7, <1>8 DEF FreeSlots

LEMMA LowestIs ==
  ASSUME NEW S, S \subseteq Nat, S # {}
  PROVE  Lowest(S) \in S
  BY LeastExists DEF Lowest

LEMMA TypeFacts ==
  ASSUME Types
  PROVE  /\ \A slot \in Slot :
              /\ opentab[slot].used \in {0, 1} /\ opentab[slot].id \in Nat /\ opentab[slot].open \in 0..MaxOpens
              /\ opentab[slot].file \in File \cup {NULL}
              /\ fdpage[slot].id \in Nat /\ fdpage[slot].offset \in 0..(FileBlocks+1)
              /\ fdpage[slot].mode \in Mode \cup {"O_RDONLY"} /\ got[slot] \subseteq Nat
         /\ \A c \in Client, n \in FdNum : fd[c][n] # NULL => fd[c][n] \in Slot /\ given[c][n] \in 0..MaxOpens
         /\ \A c \in Client : req[c] \in Request /\ req[c].n \in FdNum \cup {NULL} /\ req[c].id \in Nat
         /\ srv.whom \in Client \cup {NULL} /\ srv.page \in Slot \cup {NULL}
         /\ opens \in Nat
<1>1. \A slot \in Slot :
        /\ opentab[slot].used \in {0, 1} /\ opentab[slot].id \in Nat /\ opentab[slot].open \in 0..MaxOpens
        /\ opentab[slot].file \in File \cup {NULL}
  BY DEF Types
<1>2. \A slot \in Slot :
        /\ fdpage[slot].id \in Nat /\ fdpage[slot].offset \in 0..(FileBlocks+1)
        /\ fdpage[slot].mode \in Mode \cup {"O_RDONLY"} /\ got[slot] \subseteq Nat
  BY DEF Types
<1>3. \A c \in Client : req[c] \in Request
  BY DEF Types
<1>4. \A c \in Client, n \in FdNum : fd[c][n] # NULL => fd[c][n] \in Slot /\ given[c][n] \in 0..MaxOpens
  BY DEF Types
<1>5. srv.whom \in Client \cup {NULL} /\ srv.page \in Slot \cup {NULL} /\ opens \in Nat
  BY Constants DEF Types, Server
<1> QED
  BY <1>1, <1>2, <1>3, <1>4, <1>5 DEF Request

LEMMA SlotFacts ==
  ASSUME FsInv
  PROVE  /\ \A slot \in Slot : SlotOf(opentab[slot].id) = slot
         /\ \A id, open : Ticket(id, open) => id \in Nat /\ SlotOf(id) \in Slot
         /\ \A id, open : Ticket(id, open) =>
              /\ id <= opentab[SlotOf(id)].id
              /\ id = opentab[SlotOf(id)].id => opentab[SlotOf(id)].open = open
<1>1. opens \in Nat
  BY InvFacts, TypeFacts
<1>2. \A slot \in Slot : SlotOf(opentab[slot].id) = slot
  BY <1>1, IdFacts, InvFacts DEF Numbers
<1>3. ASSUME NEW id, NEW open, Ticket(id, open)
      PROVE  /\ id \in Nat /\ SlotOf(id) \in Slot
             /\ id <= opentab[SlotOf(id)].id
             /\ id = opentab[SlotOf(id)].id => opentab[SlotOf(id)].open = open
  <2>1. PICK slot \in Slot :
          /\ IdOf(slot, id) /\ id <= opentab[slot].id
          /\ id = opentab[slot].id => opentab[slot].open = open
    BY <1>3 DEF Ticket
  <2>2. id \in Nat /\ SlotOf(id) = slot
    BY <1>1, <2>1, IdFacts
  <2> QED
    BY <2>1, <2>2
<1> QED
  BY <1>2, <1>3

\* What is in use: an id that some client has mapped is found.
LEMMA FoundIs ==
  ASSUME FsInv, NEW c \in Client, NEW n \in FdNum, fd[c][n] # NULL
  PROVE  Found(opentab[fd[c][n]].id) /\ SlotOf(opentab[fd[c][n]].id) = fd[c][n]
<1>1. fd[c][n] \in Slot
  BY InvFacts, TypeFacts
<1>2. SlotOf(opentab[fd[c][n]].id) = fd[c][n]
  BY <1>1, SlotFacts
<1>3. PageRef(fd[c][n]) > 1
  BY <1>1, InvFacts, RefFacts
<1> QED
  BY <1>2, <1>3 DEF Found

\* A request that is found is about a slot that some client maps.
LEMMA FoundFacts ==
  ASSUME FsInv, Serving, req[srv.whom].op \in ByFile, Found(req[srv.whom].id)
  PROVE  LET slot == SlotOf(req[srv.whom].id)
         IN  slot \in Slot /\ InUse(slot) /\ opentab[slot].open = req[srv.whom].open
<1>1. Ticket(req[srv.whom].id, req[srv.whom].open)
  BY InvFacts DEF Turns, Tickets
<1>2. SlotOf(req[srv.whom].id) \in Slot
  BY <1>1, SlotFacts
<1>3. opentab[SlotOf(req[srv.whom].id)].open = req[srv.whom].open
  BY <1>1, SlotFacts DEF Found
<1>4. PICK c \in Client, n \in FdNum : fd[c][n] = SlotOf(req[srv.whom].id)
  BY <1>2, InvFacts, RefFacts DEF Found
<1>5. InUse(SlotOf(req[srv.whom].id))
  BY <1>2, <1>4, InvFacts, Constants DEF Holders
<1> QED
  BY <1>2, <1>3, <1>5

LEMMA TicketIsKept ==
  ASSUME UNCHANGED <<opens, opentab>>, NEW id, NEW open
  PROVE  Ticket(id, open)' <=> Ticket(id, open)
  BY DEF Ticket, IdOf

LEMMA GrantingShrinks ==
  ASSUME FsInv, Granting' \subseteq Granting, opens' = opens
  PROVE  opens' + Cardinality(Granting') <= MaxOpens
<1>1. IsFiniteSet(Granting)
  BY Constants, FS_Subset DEF Granting
<1>2. IsFiniteSet(Granting') /\ Cardinality(Granting') <= Cardinality(Granting)
  BY <1>1, FS_Subset
<1>3. Cardinality(Granting) \in Nat /\ Cardinality(Granting') \in Nat
  BY <1>1, <1>2, FS_CardinalityType
<1>4. opens \in Nat /\ MaxOpens \in Nat
  BY InvFacts, TypeFacts, Constants
<1> QED
  BY <1>2, <1>3, <1>4, InvFacts DEF Numbers

LEMMA InvHoldsAtStart == Init => FsInv
<1> SUFFICES ASSUME Init PROVE FsInv
  OBVIOUS
<1> USE DEF Init
<1>1. NoRequest \in Request /\ NoRequest.op = "none" /\ NoRequest.n = NULL
  BY Constants DEF NoRequest, Ask, Request
<1>2. \A c \in Client : req[c] = NoRequest
  OBVIOUS
<1>3. Types
  <2>1. [pc |-> "top", whom |-> NULL, page |-> NULL] \in Server
    BY DEF Server
  <2>2. \A slot \in Slot : [used |-> 0, id |-> slot, file |-> NULL, open |-> 0] \in
          [used : {0, 1}, id : Nat, file : File \cup {NULL}, open : 0..MaxOpens]
    BY Constants
  <2>3. ClearFd \in [id : Nat, mode : Mode \cup {"O_RDONLY"}, offset : 0..(FileBlocks+1)]
    BY Constants DEF ClearFd
  <2>4. 0 \in 0..MaxOpens
    BY Constants
  <2> QED
    BY <1>1, <2>1, <2>2, <2>3, <2>4 DEF Types
<1>4. Numbers
  <2>1. \A slot \in Slot : IdOf(slot, opentab[slot].id)
    <3> SUFFICES ASSUME NEW slot \in Slot PROVE IdOf(slot, opentab[slot].id)
      OBVIOUS
    <3>1. opentab[slot].id = slot /\ opens = 0
      OBVIOUS
    <3>2. slot = MAXOPEN * 0 + slot
      BY Constants
    <3> QED
      BY <3>1, <3>2, Constants DEF IdOf
  <2>2. Granting = {}
    BY <1>1 DEF Granting, Wants
  <2>3. opens + Cardinality(Granting) <= MaxOpens
    BY <2>2, FS_EmptySet, Constants
  <2> QED
    BY <2>1, <2>3 DEF Numbers, ClearFd
<1>5. Holders
  BY DEF Holders
<1>6. Turns /\ Tickets
  BY <1>1, <1>2 DEF Turns, Tickets, AtWork, Serving, ByFile
<1>7. Moved
  BY DEF Moved
<1> QED
  BY <1>3, <1>4, <1>5, <1>6, <1>7 DEF FsInv

-----------------------------------------------------------------------------
(* The steps of a client.                                                  *)

\* What is asked for.
Proper(c, r) ==
  /\ r \in Request /\ r.op # "none"
  /\ r.op \in {"open", "flush"} => r.n # NULL
  /\ r.op = "open" => /\ r.file \in File /\ r.mode \in Mode
                      /\ opens + Cardinality({q \in Client : req[q].op = "open"}) < MaxOpens
  /\ r.op = "set_size" => r.arg \in TruncTo
  /\ r.op \in ByFile => /\ Ticket(r.id, r.open)
                        /\ r.n # NULL => fd[c][r.n] # NULL /\ r.id = opentab[fd[c][r.n]].id

LEMMA FsipcKeeps ==
  ASSUME FsInv, NEW c \in Client, NEW r, Fsipc(c, r), UNCHANGED descriptors, Proper(c, r)
  PROVE  FsInv'
<1>1. /\ pc[c] = "idle" /\ pc' = [pc EXCEPT ![c] = "send"] /\ req' = [req EXCEPT ![c] = r]
      /\ UNCHANGED <<size, opentab, fdpage, opens, srv, fd, given, copy, got>>
  BY DEF Fsipc, Goto, table, descriptors
<1>2. /\ pc'[c] = "send" /\ req'[c] = r
      /\ \A q \in Client : q # c => pc'[q] = pc[q] /\ req'[q] = req[q]
  BY <1>1, InvFacts DEF Types
<1>3. (Serving => srv.whom # c /\ srv.whom \in Client) /\ (srv.pc = "monitor" => srv.whom # c /\ srv.whom \in Client)
  BY <1>1, InvFacts, Constants DEF Turns
<1>4. r \in Request /\ r.op # "none"
  BY DEF Proper
<1>5. Types'
  BY <1>1, <1>4, InvFacts DEF Types
<1>6. opens' + Cardinality(Granting') <= MaxOpens
  <2>1. CASE r.op = "open"
    <3> DEFINE S == {q \in Client : req[q].op = "open"}
    <3>1. Granting' \subseteq S \cup {c}
      BY <1>2 DEF Granting, Wants
    <3>2. IsFiniteSet(S)
      BY Constants, FS_Subset
    <3> HIDE DEF S
    <3>3. IsFiniteSet(S \cup {c}) /\ Cardinality(S \cup {c}) <= Cardinality(S) + 1
          /\ Cardinality(S) \in Nat
      <4>1. Cardinality(S) \in Nat
        BY <3>2, FS_CardinalityType
      <4>2. IsFiniteSet(S \cup {c})
            /\ Cardinality(S \cup {c}) = IF c \in S THEN Cardinality(S) ELSE Cardinality(S) + 1
        BY <3>2, FS_AddElement
      <4> QED
        BY <4>1, <4>2
    <3>4. IsFiniteSet(Granting') /\ Cardinality(Granting') <= Cardinality(S \cup {c})
      BY <3>1, <3>3, FS_Subset
    <3>5. Cardinality(S \cup {c}) \in Nat /\ Cardinality(Granting') \in Nat
      BY <3>3, <3>4, FS_CardinalityType
    <3>6. opens + Cardinality(S) < MaxOpens
      BY <2>1 DEF Proper, S
    <3> QED
      BY <1>1, <3>3, <3>4, <3>5, <3>6, Constants, InvFacts, TypeFacts
  <2>2. CASE r.op # "open"
    <3>1. Granting' \subseteq Granting
      BY <1>1, <1>2, <2>2 DEF Granting, Wants
    <3> QED
      BY <1>1, <3>1, GrantingShrinks
  <2> QED
    BY <2>1, <2>2
<1>7. Numbers'
  BY <1>1, <1>6, InvFacts DEF Numbers, IdOf
<1>8. Holders'
  BY <1>1, <1>2, <1>3, InvFacts DEF Holders, InUse, Serving
<1>9. Turns'
  BY <1>1, <1>2, <1>3, InvFacts DEF Turns, AtWork, Serving, Proper
<1>10. Tickets'
  <2>1. \A q \in Client : req'[q].op \in ByFile => Ticket(req'[q].id, req'[q].open)
    BY <1>2, InvFacts DEF Tickets, Proper
  <2>2. \A q \in Client : req'[q].op \in ByFile => Ticket(req[q].id, req[q].open)'
    BY <1>1, <2>1 DEF Ticket, IdOf
  <2>3. copy' # NULL => Ticket(copy.id, copy.open)'
    BY <1>1, InvFacts DEF Ticket, IdOf, Tickets
  <2>4. \A q \in Client : AtWork(q)' /\ req'[q].op \in ByFile /\ req'[q].n # NULL =>
          fd[q][req'[q].n] # NULL /\ req'[q].id = opentab[fd[q][req'[q].n]].id
    BY <1>2, InvFacts DEF Tickets, Proper, AtWork
  <2> QED
    BY <1>1, <2>2, <2>3, <2>4 DEF Tickets
<1>11. Moved'
  BY <1>1, <1>2, <1>3, InvFacts DEF Moved, Serving
<1> QED
  BY <1>5, <1>7, <1>8, <1>9, <1>10, <1>11 DEF FsInv

\* A request about a descriptor that is open.
LEMMA AboutIsProper ==
  ASSUME FsInv, NEW c \in Client, NEW n \in FdNum, fd[c][n] # NULL,
         NEW op \in ByFile, NEW arg \in {0} \cup TruncTo, op = "set_size" => arg \in TruncTo
  PROVE  Proper(c, About(c, op, n, arg))
<1> DEFINE r == About(c, op, n, arg)
           slot == fd[c][n]
<1>1. slot \in Slot /\ given[c][n] \in 0..MaxOpens /\ fdpage[slot].id \in Nat
  BY InvFacts, TypeFacts
<1>2. /\ r.op = op /\ r.id = fdpage[slot].id /\ r.open = given[c][n] /\ r.n = n /\ r.arg = arg
      /\ r.file = NULL /\ r.mode = NULL /\ r.flags = {}
  BY DEF About, Ask
<1>3. r \in Request
  BY <1>1 DEF Request, About, Ask
<1>4. InUse(slot) /\ opentab[slot].open = given[c][n]
  BY InvFacts DEF Holders
<1>5. r.id = opentab[slot].id
  BY <1>2, <1>4 DEF InUse
<1>6. Ticket(r.id, r.open)
  <2>1. IdOf(slot, opentab[slot].id) /\ opentab[slot].id \in Nat
    BY <1>1, InvFacts, TypeFacts DEF Numbers
  <2> HIDE DEF r, slot
  <2>2. r.id <= opentab[slot].id
    BY <1>5, <2>1
  <2> QED
    BY <1>1, <1>2, <1>4, <1>5, <2>1, <2>2 DEF Ticket
<1> HIDE DEF r
<1>7. r.op \notin {"none", "open"} /\ r.n # NULL
  BY <1>2, Constants DEF ByFile
<1>8. Proper(c, r)
  BY <1>2, <1>3, <1>5, <1>6, <1>7 DEF Proper
<1> QED
  BY <1>8 DEF r

LEMMA RequestKeeps ==
  ASSUME FsInv, NEW c \in Client,
         OpenFile(c) \/ UseFile(c) \/ Close(c) \/ SyncAll(c) \/ ReadStale(c)
  PROVE  FsInv'
<1> SUFFICES \E r : Fsipc(c, r) /\ UNCHANGED descriptors /\ Proper(c, r)
  BY FsipcKeeps
<1>1. CASE OpenFile(c)
  <2>1. PICK f \in File, mode \in Mode, flags \in Flags :
          Fsipc(c, [op |-> "open", id |-> 0, open |-> 0, n |-> Lowest(Unused(c)), arg |-> 0,
                    file |-> f, mode |-> mode, flags |-> flags])
    BY <1>1 DEF OpenFile
  <2> DEFINE r == [op |-> "open", id |-> 0, open |-> 0, n |-> Lowest(Unused(c)), arg |-> 0,
                   file |-> f, mode |-> mode, flags |-> flags]
  <2>2. Lowest(Unused(c)) \in FdNum
    <3>1. Unused(c) \subseteq FdNum /\ Unused(c) # {} /\ Unused(c) \subseteq Nat
      BY <1>1, Constants DEF OpenFile, Unused
    <3> QED
      BY <3>1, LowestIs
  <2>4. r \in Request /\ r.op = "open" /\ r.n # NULL /\ r.file \in File /\ r.mode \in Mode
    <3>1. 0 \in 0..MaxOpens /\ Lowest(Unused(c)) # NULL
      BY <2>2, Constants
    <3> QED
      BY <2>2, <3>1 DEF Request
  <2>5. opens + Cardinality({q \in Client : req[q].op = "open"}) < MaxOpens /\ UNCHANGED descriptors
    BY <1>1 DEF OpenFile
  <2>6. Fsipc(c, r)
    BY <2>1
  <2> HIDE DEF r
  <2>7. Proper(c, r)
    BY <2>4, <2>5 DEF Proper, ByFile
  <2> QED
    BY <2>5, <2>6, <2>7
<1>2. CASE UseFile(c)
  <2>1. UNCHANGED descriptors
    BY <1>2 DEF UseFile
  <2>2. PICK n \in FdNum :
          \/ \E op \in {"read", "write", "stat"} : Allowed(c, n, op) /\ Fsipc(c, About(c, op, n, 0))
          \/ \E to \in TruncTo : Allowed(c, n, "set_size") /\ Fsipc(c, About(c, "set_size", n, to))
    BY <1>2 DEF UseFile
  <2>3. fd[c][n] # NULL
    BY <2>2 DEF Allowed, Opened
  <2>4. CASE \E op \in {"read", "write", "stat"} : Allowed(c, n, op) /\ Fsipc(c, About(c, op, n, 0))
    <3>1. PICK op \in {"read", "write", "stat"} : Fsipc(c, About(c, op, n, 0))
      BY <2>4
    <3>2. op \in ByFile /\ op # "set_size"
      BY DEF ByFile
    <3>3. Proper(c, About(c, op, n, 0))
      BY <2>3, <3>2, AboutIsProper
    <3> QED
      BY <2>1, <3>1, <3>3
  <2>5. CASE \E to \in TruncTo : Allowed(c, n, "set_size") /\ Fsipc(c, About(c, "set_size", n, to))
    <3>1. PICK to \in TruncTo : Fsipc(c, About(c, "set_size", n, to))
      BY <2>5
    <3>2. "set_size" \in ByFile
      BY DEF ByFile
    <3>3. Proper(c, About(c, "set_size", n, to))
      BY <2>3, <3>2, AboutIsProper
    <3> QED
      BY <2>1, <3>1, <3>3
  <2> QED
    BY <2>2, <2>4, <2>5
<1>3. CASE Close(c)
  <2>1. PICK n \in FdNum : Opened(c, n) /\ Fsipc(c, About(c, "flush", n, 0))
    BY <1>3 DEF Close
  <2>2. "flush" \in ByFile /\ UNCHANGED descriptors
    BY <1>3 DEF ByFile, Close
  <2>3. Proper(c, About(c, "flush", n, 0))
    BY <2>1, <2>2, AboutIsProper DEF Opened
  <2> QED
    BY <2>1, <2>2, <2>3
<1>4. CASE SyncAll(c)
  <2> DEFINE r == Ask("sync", 0, 0, NULL, 0)
  <2>1. Fsipc(c, r) /\ UNCHANGED descriptors
    BY <1>4 DEF SyncAll
  <2>3. r \in Request /\ r.op = "sync"
    BY Constants DEF Request, Ask
  <2> HIDE DEF r
  <2>4. Proper(c, r)
    BY <2>3 DEF Proper, ByFile
  <2> QED
    BY <2>1, <2>4
<1>5. CASE ReadStale(c)
  <2> DEFINE r == Ask("read", copy.id, copy.open, NULL, 0)
  <2>1. Fsipc(c, r) /\ UNCHANGED descriptors /\ copy # NULL
    BY <1>5 DEF ReadStale
  <2>3. copy.id \in Nat /\ copy.open \in 0..MaxOpens
    BY <2>1, InvFacts DEF Types
  <2>4. r \in Request /\ r.op = "read" /\ r.id = copy.id /\ r.open = copy.open /\ r.n = NULL
    BY <2>3 DEF Request, ByFile, Ask
  <2>5. Ticket(copy.id, copy.open)
    BY <2>1, InvFacts DEF Tickets
  <2> HIDE DEF r
  <2>6. Proper(c, r)
    BY <2>4, <2>5 DEF Proper
  <2> QED
    BY <2>1, <2>6
<1> QED
  BY <1>1, <1>2, <1>3, <1>4, <1>5

LEMMA SendKeeps ==
  ASSUME FsInv, NEW c \in Client, Send(c)
  PROVE  FsInv'
<1>1. /\ pc[c] = "send" /\ srv.pc = "receiving" /\ pc' = [pc EXCEPT ![c] = "sent"]
      /\ srv' = [srv EXCEPT !.pc = "handle", !.whom = c]
      /\ UNCHANGED <<size, opentab, fdpage, opens, fd, given, copy, req, got>>
  BY DEF Send, Goto, table, descriptors
<1>2. srv' = [pc |-> "handle", whom |-> c, page |-> srv.page] /\ srv.page \in Slot \cup {NULL}
  BY <1>1, InvFacts DEF Types, Server
<1>3. Types'
  <2>1. srv' \in Server
    BY <1>2 DEF Server
  <2> QED
    BY <1>1, <2>1, InvFacts DEF Types
<1>4. Numbers'
  <2>1. Granting' \subseteq Granting
    BY <1>1 DEF Granting, Wants
  <2> QED
    BY <1>1, <2>1, GrantingShrinks, InvFacts DEF Numbers, IdOf
<1>5. Holders'
  BY <1>1, <1>2, InvFacts DEF Holders, InUse
<1>6. pc'[c] = "sent" /\ \A q \in Client : q # c => pc'[q] = pc[q]
  BY <1>1, InvFacts DEF Types
<1>7. Turns'
  BY <1>1, <1>2, <1>6, InvFacts DEF Turns, AtWork, Serving
<1>8. Tickets'
  BY <1>1, <1>6, InvFacts DEF Tickets, Ticket, IdOf, AtWork
<1>9. Moved'
  BY <1>1, <1>2, InvFacts DEF Moved
<1> QED
  BY <1>3, <1>4, <1>5, <1>7, <1>8, <1>9 DEF FsInv

LEMMA ReceiveKeeps ==
  ASSUME FsInv, NEW c \in Client, Receive(c)
  PROVE  FsInv'
<1>1. /\ pc[c] = "sent" /\ pc' = [pc EXCEPT ![c] = "waiting"]
      /\ UNCHANGED <<size, opentab, fdpage, opens, srv, fd, given, copy, req, got>>
  BY DEF Receive, Goto, table, descriptors
<1>2. pc'[c] = "waiting" /\ \A q \in Client : q # c => pc'[q] = pc[q]
  BY <1>1, InvFacts DEF Types
<1>3. Types'
  BY <1>1, InvFacts DEF Types
<1>4. Numbers'
  BY <1>1, InvFacts DEF Numbers, IdOf, Granting, Wants
<1>5. Holders'
  BY <1>1, InvFacts DEF Holders, InUse
<1>6. Turns'
  BY <1>1, <1>2, InvFacts DEF Turns, AtWork, Serving
<1>7. Tickets'
  BY <1>1, <1>2, InvFacts DEF Tickets, Ticket, IdOf, AtWork
<1>8. Moved'
  BY <1>1, InvFacts DEF Moved
<1> QED
  BY <1>3, <1>4, <1>5, <1>6, <1>7, <1>8 DEF FsInv

LEMMA UnmapKeeps ==
  ASSUME FsInv, NEW c \in Client, Unmap(c)
  PROVE  FsInv'
<1> DEFINE n == req[c].n
<1>1. /\ pc[c] = "unmap" /\ pc' = [pc EXCEPT ![c] = "idle"]
      /\ fd' = [fd EXCEPT ![c][n] = NULL] /\ given' = [given EXCEPT ![c][n] = 0]
      /\ copy' = copy \/ copy' = [id |-> req[c].id, open |-> req[c].open]
      /\ req' = [req EXCEPT ![c] = NoRequest]
      /\ UNCHANGED <<size, opentab, fdpage, opens, srv, got>>
  BY DEF Unmap, Goto, Map, table
<1>2. NoRequest \in Request /\ NoRequest.op = "none" /\ NoRequest.n = NULL
  BY Constants DEF NoRequest, Ask, Request
<1>3. req[c].op \in ByFile /\ n \in FdNum /\ req[c] \in Request
  <2>1. req[c].op = "flush" /\ n # NULL
    BY <1>1, InvFacts DEF Turns
  <2> QED
    BY <2>1, InvFacts, TypeFacts DEF ByFile
<1> HIDE DEF n
<1>4. /\ pc'[c] = "idle" /\ req'[c] = NoRequest
      /\ \A q \in Client : q # c => pc'[q] = pc[q] /\ req'[q] = req[q] /\ fd'[q] = fd[q] /\ given'[q] = given[q]
      /\ \A m \in FdNum : fd'[c][m] # NULL => fd'[c][m] = fd[c][m] /\ given'[c][m] = given[c][m]
      /\ fd' \in [Client -> [FdNum -> Slot \cup {NULL}]]
      /\ given' \in [Client -> [FdNum -> 0..MaxOpens]]
  <2>1. 0 \in 0..MaxOpens
    BY Constants
  <2> QED
    BY <1>1, <1>3, <2>1, InvFacts DEF Types
<1>5. (Serving => srv.whom # c /\ srv.whom \in Client) /\ (srv.pc = "monitor" => srv.whom # c /\ srv.whom \in Client)
  BY <1>1, InvFacts, Constants DEF Turns
<1>6. copy' = copy \/ (copy' = [id |-> req[c].id, open |-> req[c].open] /\ Ticket(req[c].id, req[c].open))
  BY <1>1, <1>3, InvFacts DEF Tickets
<1>7. req[c].id \in Nat /\ req[c].open \in 0..MaxOpens
  BY <1>3 DEF Request
<1>8. Types'
  BY <1>1, <1>2, <1>4, <1>6, <1>7, InvFacts DEF Types
<1>9. Numbers'
  <2>1. Granting' \subseteq Granting
    BY <1>1, <1>2, <1>4 DEF Granting, Wants
  <2> QED
    BY <1>1, <2>1, GrantingShrinks, InvFacts DEF Numbers, IdOf
<1>10. Holders'
  <2>1. \A q \in Client, m \in FdNum : fd'[q][m] # NULL => fd'[q][m] = fd[q][m] /\ given'[q][m] = given[q][m]
    BY <1>4
  <2> QED
    BY <1>1, <1>4, <1>5, <2>1, InvFacts DEF Holders, InUse, Serving
<1>11. Turns'
  BY <1>1, <1>2, <1>4, <1>5, InvFacts DEF Turns, AtWork, Serving
<1>12. Tickets'
  <2>1. \A q \in Client : req'[q].op \in ByFile => Ticket(req'[q].id, req'[q].open)
    BY <1>2, <1>4, InvFacts DEF Tickets, ByFile
  <2>2. \A q \in Client : req'[q].op \in ByFile => Ticket(req[q].id, req[q].open)'
    BY <1>1, <2>1 DEF Ticket, IdOf
  <2>3. copy' # NULL => Ticket(copy'.id, copy'.open)
    BY <1>6, InvFacts DEF Tickets
  <2>4. copy' # NULL => Ticket(copy.id, copy.open)'
    BY <1>1, <2>3 DEF Ticket, IdOf
  <2>5. \A q \in Client : AtWork(q)' /\ req'[q].op \in ByFile /\ req'[q].n # NULL =>
          fd'[q][req'[q].n] # NULL /\ req'[q].id = opentab[fd'[q][req'[q].n]].id
    BY <1>4, InvFacts DEF Tickets, AtWork
  <2> QED
    BY <1>1, <2>2, <2>4, <2>5 DEF Tickets
<1>13. Moved'
  BY <1>1, <1>4, <1>5, InvFacts DEF Moved, Serving
<1> QED
  BY <1>8, <1>9, <1>10, <1>11, <1>12, <1>13 DEF FsInv

LEMMA SeekKeeps ==
  ASSUME FsInv, NEW c \in Client, Seek(c)
  PROVE  FsInv'
<1>1. PICK n \in FdNum, offset \in SeekTo :
        /\ fd[c][n] # NULL
        /\ fdpage' = [fdpage EXCEPT ![fd[c][n]].offset = offset]
        /\ got' = [got EXCEPT ![fd[c][n]] = {}]
  BY DEF Seek, Opened
<1>2. UNCHANGED <<size, opentab, opens, srv, fd, given, copy, pc, req>>
  BY DEF Seek, descriptors
<1> DEFINE here == fd[c][n]
<1>3. here \in Slot
  BY <1>1, InvFacts, TypeFacts
<1>4. fdpage' = [fdpage EXCEPT ![here].offset = offset] /\ got' = [got EXCEPT ![here] = {}]
  BY <1>1
<1>5. offset \in 0..FileBlocks /\ offset \in 0..(FileBlocks+1)
  BY Constants
<1> HIDE DEF here
<1>6. /\ \A slot \in Slot : fdpage'[slot].id = fdpage[slot].id
      /\ \A slot \in Slot : slot # here => fdpage'[slot] = fdpage[slot] /\ got'[slot] = got[slot]
      /\ fdpage'[here].offset = offset /\ got'[here] = {}
  BY <1>3, <1>4, InvFacts DEF Types
<1>7. Types'
  <2>1. fdpage' \in [Slot -> [id : Nat, mode : Mode \cup {"O_RDONLY"}, offset : 0..(FileBlocks+1)]]
    BY <1>3, <1>4, <1>5, InvFacts DEF Types
  <2>2. got' \in [Slot -> SUBSET Nat]
    BY <1>3, <1>4, InvFacts DEF Types
  <2> QED
    BY <1>2, <2>1, <2>2, InvFacts DEF Types
<1>8. Numbers'
  BY <1>2, <1>6, InvFacts DEF Numbers, IdOf, Granting, Wants
<1>9. Holders'
  <2>1. \A slot \in Slot : InUse(slot) => InUse(slot)'
    BY <1>2, <1>6 DEF InUse
  <2>2. \A q \in Client, m \in FdNum : fd[q][m] # NULL =>
          fd[q][m] \in Slot /\ InUse(fd[q][m]) /\ opentab[fd[q][m]].open = given[q][m]
    BY InvFacts, TypeFacts DEF Holders
  <2>3. srv.page # NULL => srv.page \in Slot
    BY InvFacts, TypeFacts
  <2> QED
    BY <1>2, <2>1, <2>2, <2>3, InvFacts DEF Holders, InUse
<1>10. Turns'
  BY <1>2, InvFacts DEF Turns, AtWork, Serving
<1>11. Tickets'
  BY <1>2, InvFacts DEF Tickets, Ticket, IdOf, AtWork
<1>12. Moved'
  <2>1. ASSUME NEW slot \in Slot, NEW b \in got'[slot]
        PROVE  \/ b < fdpage'[slot].offset
               \/ srv.pc = "advance" /\ slot = SlotOf(req[srv.whom].id) /\ b = fdpage'[slot].offset
    BY <1>6, <2>1, InvFacts DEF Moved
  <2>2. srv.pc = "advance" => fdpage'[SlotOf(req[srv.whom].id)].offset <= FileBlocks
    <3> SUFFICES ASSUME srv.pc = "advance" PROVE fdpage'[SlotOf(req[srv.whom].id)].offset <= FileBlocks
      OBVIOUS
    <3>1. SlotOf(req[srv.whom].id) \in Slot
      <4>1. Ticket(req[srv.whom].id, req[srv.whom].open)
        BY InvFacts DEF Turns, Tickets, Serving
      <4> QED
        BY <4>1, SlotFacts
    <3>2. offset <= FileBlocks
      BY <1>5, Constants
    <3> QED
      BY <1>6, <3>1, <3>2, InvFacts DEF Moved
  <2> QED
    BY <1>2, <2>1, <2>2 DEF Moved
<1> QED
  BY <1>7, <1>8, <1>9, <1>10, <1>11, <1>12 DEF FsInv

LEMMA DupKeeps ==
  ASSUME FsInv, NEW c \in Client, Dup(c)
  PROVE  FsInv'
<1>1. PICK old \in FdNum, new \in FdNum :
        /\ fd[c][old] # NULL /\ fd[c][new] = NULL
        /\ fd' = [fd EXCEPT ![c][new] = fd[c][old]]
        /\ given' = [given EXCEPT ![c][new] = given[c][old]]
  BY DEF Dup, Opened, Map
<1>2. pc[c] = "idle" /\ UNCHANGED <<size, opentab, fdpage, opens, srv, copy, pc, req, got>>
  BY DEF Dup, table
<1>3. fd[c][old] \in Slot /\ given[c][old] \in 0..MaxOpens
  BY <1>1, InvFacts, TypeFacts
<1>4. /\ \A q \in Client : q # c => fd'[q] = fd[q] /\ given'[q] = given[q]
      /\ \A m \in FdNum : \/ fd'[c][m] = fd[c][m] /\ given'[c][m] = given[c][m]
                          \/ fd'[c][m] = fd[c][old] /\ given'[c][m] = given[c][old]
  BY <1>1, InvFacts DEF Types
<1>5. Types'
  <2>1. fd' \in [Client -> [FdNum -> Slot \cup {NULL}]] /\ given' \in [Client -> [FdNum -> 0..MaxOpens]]
    BY <1>1, <1>3, InvFacts DEF Types
  <2> QED
    BY <1>2, <2>1, InvFacts DEF Types
<1>6. Numbers'
  BY <1>2, InvFacts DEF Numbers, IdOf, Granting, Wants
<1>7. Holders'
  <2>1. \A q \in Client, m \in FdNum : fd'[q][m] # NULL =>
          \E m2 \in FdNum : fd'[q][m] = fd[q][m2] /\ given'[q][m] = given[q][m2] /\ fd[q][m2] # NULL
    BY <1>4
  <2>2. \A q \in Client, m \in FdNum : fd'[q][m] # NULL =>
          InUse(fd'[q][m]) /\ opentab[fd'[q][m]].open = given'[q][m]
    BY <2>1, InvFacts DEF Holders
  <2> QED
    BY <1>2, <2>2, InvFacts DEF Holders, InUse
<1>8. Turns'
  BY <1>2, InvFacts DEF Turns, AtWork, Serving
<1>9. Tickets'
  <2>1. \A q \in Client : AtWork(q) => q # c
    BY <1>2 DEF AtWork
  <2>2. \A q \in Client : AtWork(q) => fd'[q] = fd[q]
    BY <1>4, <2>1
  <2> QED
    BY <1>2, <2>2, InvFacts DEF Tickets, Ticket, IdOf, AtWork
<1>10. Moved'
  BY <1>2, InvFacts DEF Moved
<1> QED
  BY <1>5, <1>6, <1>7, <1>8, <1>9, <1>10 DEF FsInv

LEMMA ForkKeeps ==
  ASSUME FsInv, NEW c \in Client, Fork(c)
  PROVE  FsInv'
<1>1. PICK q \in Client :
        /\ pc[q] = "none" /\ pc' = [pc EXCEPT ![q] = "idle"]
        /\ fd' = [fd EXCEPT ![q] = fd[c]] /\ given' = [given EXCEPT ![q] = given[c]]
  BY DEF Fork, Goto
<1>2. UNCHANGED <<size, opentab, fdpage, opens, srv, copy, req, got>>
  BY DEF Fork, table
<1>3. /\ pc'[q] = "idle" /\ \A p \in Client : p # q => pc'[p] = pc[p]
      /\ \A p \in Client : p # q => fd'[p] = fd[p] /\ given'[p] = given[p]
      /\ fd'[q] = fd[c] /\ given'[q] = given[c]
  BY <1>1, InvFacts DEF Types
<1>4. Types'
  BY <1>1, <1>2, InvFacts DEF Types
<1>5. Numbers'
  BY <1>2, InvFacts DEF Numbers, IdOf, Granting, Wants
<1>6. Holders'
  <2>1. \A p \in Client : \E p2 \in Client : fd'[p] = fd[p2] /\ given'[p] = given[p2]
    BY <1>3
  <2>2. \A p \in Client, m \in FdNum : fd'[p][m] # NULL =>
          InUse(fd'[p][m]) /\ opentab[fd'[p][m]].open = given'[p][m]
    BY <2>1, InvFacts DEF Holders
  <2> QED
    BY <1>2, <2>2, InvFacts DEF Holders, InUse
<1>7. Turns'
  <2>1. \A p \in Client : AtWork(p)' => AtWork(p) /\ p # q
    BY <1>3 DEF AtWork
  <2>2. \A p \in Client : pc'[p] = "unmap" => pc[p] = "unmap"
    BY <1>3
  <2>3. (Serving => srv.whom # q /\ srv.whom \in Client) /\ (srv.pc = "monitor" => srv.whom # q /\ srv.whom \in Client)
    BY <1>1, InvFacts, Constants DEF Turns
  <2> QED
    BY <1>2, <1>3, <2>1, <2>2, <2>3, InvFacts DEF Turns, Serving
<1>8. Tickets'
  <2>1. \A p \in Client : AtWork(p)' => AtWork(p) /\ fd'[p] = fd[p]
    BY <1>3 DEF AtWork
  <2> QED
    BY <1>2, <2>1, InvFacts DEF Tickets, Ticket, IdOf
<1>9. Moved'
  BY <1>2, InvFacts DEF Moved
<1> QED
  BY <1>4, <1>5, <1>6, <1>7, <1>8, <1>9 DEF FsInv

LEMMA DieKeeps ==
  ASSUME FsInv, NEW c \in Client, Die(c)
  PROVE  FsInv'
<1>1. /\ pc[c] = "idle" \/ (c \in Killed /\ pc[c] \notin {"none", "dead"})
      /\ pc' = [pc EXCEPT ![c] = "dead"]
      /\ fd' = [fd EXCEPT ![c] = [n \in FdNum |-> NULL]]
      /\ given' = [given EXCEPT ![c] = [n \in FdNum |-> 0]]
      /\ req' = req \/ (srv.whom # c /\ req' = [req EXCEPT ![c] = NoRequest])
      /\ UNCHANGED <<size, opentab, fdpage, opens, srv, copy, got>>
  BY DEF Die, Goto, table
<1>2. NoRequest \in Request /\ NoRequest.op = "none" /\ NoRequest.n = NULL
  BY Constants DEF NoRequest, Ask, Request
<1>3. /\ pc'[c] = "dead" /\ \A q \in Client : q # c => pc'[q] = pc[q]
      /\ \A q \in Client : q # c => fd'[q] = fd[q] /\ given'[q] = given[q]
      /\ \A m \in FdNum : fd'[c][m] = NULL
  BY <1>1, InvFacts DEF Types
<1>4. \A q \in Client : req'[q] = req[q] \/ (req'[q] = NoRequest /\ q = c)
  BY <1>1, InvFacts DEF Types
<1>5. srv.whom \in Client => req'[srv.whom] = req[srv.whom]
  BY <1>1, InvFacts DEF Types
<1>6. Types'
  <2>1. 0 \in 0..MaxOpens
    BY Constants
  <2>2. fd' \in [Client -> [FdNum -> Slot \cup {NULL}]]
    BY <1>1, InvFacts DEF Types
  <2>3. given' \in [Client -> [FdNum -> 0..MaxOpens]]
    BY <1>1, <2>1, InvFacts DEF Types
  <2>4. req' \in [Client -> Request]
    <3>1. req \in [Client -> Request]
      BY InvFacts DEF Types
    <3> QED
      BY <1>1, <1>2, <3>1
  <2>5. pc' \in [Client -> {"none", "idle", "send", "sent", "waiting", "unmap", "dead"}]
    BY <1>1, InvFacts DEF Types
  <2> QED
    BY <1>1, <2>2, <2>3, <2>4, <2>5, InvFacts DEF Types
<1>7. Numbers'
  <2>1. Granting' \subseteq Granting
    BY <1>1, <1>2, <1>4 DEF Granting, Wants
  <2> QED
    BY <1>1, <2>1, GrantingShrinks, InvFacts DEF Numbers, IdOf
<1>8. Holders'
  <2>1. \A q \in Client, m \in FdNum : fd'[q][m] # NULL => fd'[q][m] = fd[q][m] /\ given'[q][m] = given[q][m]
    BY <1>3
  <2>2. srv.pc = "reply" => srv.whom \in Client
    BY InvFacts DEF Turns, Serving
  <2> QED
    BY <1>1, <1>5, <2>1, <2>2, InvFacts DEF Holders, InUse
<1>9. Turns'
  <2>1. \A q \in Client : AtWork(q)' => AtWork(q) /\ q # c
    BY <1>3 DEF AtWork
  <2>2. \A q \in Client : pc'[q] = "unmap" => pc[q] = "unmap" /\ q # c
    BY <1>3
  <2>3. Serving => /\ srv.whom \in Client /\ req'[srv.whom].op # "none"
                   /\ pc'[srv.whom] \in {"sent", "waiting"} \/ (pc'[srv.whom] = "dead" /\ srv.whom \in Killed)
    BY <1>1, <1>3, <1>5, InvFacts DEF Turns
  <2>4. srv.pc = "advance" => req'[srv.whom].op \in ByFile
    BY <1>5, InvFacts DEF Turns, Serving
  <2>5. srv.pc = "monitor" => srv.whom \in Killed /\ pc'[srv.whom] = "dead"
    BY <1>3, Constants, InvFacts DEF Turns
  <2> QED
    BY <1>1, <1>2, <1>4, <2>1, <2>2, <2>3, <2>4, <2>5, InvFacts DEF Turns, Serving
<1>10. Tickets'
  <2>1. \A q \in Client : req'[q].op \in ByFile => req'[q] = req[q]
    BY <1>2, <1>4 DEF ByFile
  <2>2. \A q \in Client : req'[q].op \in ByFile => Ticket(req'[q].id, req'[q].open)
    BY <2>1, InvFacts DEF Tickets
  <2>3. \A q \in Client : req'[q].op \in ByFile => Ticket(req[q].id, req[q].open)'
    BY <1>1, <2>2 DEF Ticket, IdOf
  <2>4. copy' # NULL => Ticket(copy.id, copy.open)'
    BY <1>1, InvFacts DEF Ticket, IdOf, Tickets
  <2>5. \A q \in Client : AtWork(q)' /\ req'[q].op \in ByFile /\ req'[q].n # NULL =>
          fd'[q][req'[q].n] # NULL /\ req'[q].id = opentab[fd'[q][req'[q].n]].id
    BY <1>3, <2>1, InvFacts DEF Tickets, AtWork
  <2> QED
    BY <1>1, <2>3, <2>4, <2>5 DEF Tickets
<1>11. Moved'
  <2>1. srv.pc = "advance" => srv.whom \in Client
    BY InvFacts DEF Turns, Serving
  <2> QED
    BY <1>1, <1>5, <2>1, InvFacts DEF Moved
<1> QED
  BY <1>6, <1>7, <1>8, <1>9, <1>10, <1>11 DEF FsInv

-----------------------------------------------------------------------------
(* The steps of the server.                                                *)

\* A step that hands out and maps nothing.
Quietly ==
  /\ UNCHANGED <<opentab, fdpage, opens, fd, given, copy, pc, req>>
  /\ size' \in [File -> Size \cup {NULL}] /\ \A f \in File : size[f] # NULL => size'[f] # NULL
  /\ got' \in [Slot -> SUBSET Nat]
  /\ srv' \in Server /\ (srv'.pc = "reply" => srv'.page = NULL)
  /\ srv'.pc \in {"handle", "advance", "reply", "monitor"} => Serving /\ srv'.whom = srv.whom
  /\ srv.pc # "monitor" /\ (srv.pc = "reply" => srv'.pc = "monitor")
  /\ srv'.pc = "advance" => req[srv.whom].op \in ByFile
  /\ srv'.pc = "monitor" => pc[srv.whom] = "dead"

LEMMA QuietlyKeeps ==
  ASSUME FsInv, Quietly, Moved'
  PROVE  FsInv'
<1>1. Types'
  BY InvFacts DEF Quietly, Types
<1>2. Numbers'
  <2>1. Granting' \subseteq Granting
    BY DEF Quietly, Granting, Wants
  <2>2. opens' + Cardinality(Granting') <= MaxOpens
    BY <2>1, GrantingShrinks DEF Quietly
  <2> QED
    BY <2>2, InvFacts DEF Numbers, IdOf, Quietly
<1>3. Holders'
  <2>1. \A slot \in Slot : InUse(slot) => InUse(slot)'
    BY DEF InUse, Quietly
  <2>2. \A q \in Client, m \in FdNum : fd[q][m] # NULL =>
          fd[q][m] \in Slot /\ InUse(fd[q][m]) /\ opentab[fd[q][m]].open = given[q][m]
    BY InvFacts, TypeFacts DEF Holders
  <2> QED
    BY <2>1, <2>2 DEF Holders, InUse, Quietly
<1>4. Turns'
  BY InvFacts, Constants DEF Turns, Quietly, AtWork, Serving
<1>5. Tickets'
  BY InvFacts DEF Tickets, Ticket, IdOf, AtWork, Quietly
<1> QED
  BY <1>1, <1>2, <1>3, <1>4, <1>5 DEF FsInv

\* The slot of a request about a file.
LEMMA AskedFacts ==
  ASSUME FsInv, Serving, Asked.op \in ByFile
  PROVE  AskedSlot \in Slot /\ Position \in 0..(FileBlocks+1)
<1>1. Ticket(Asked.id, Asked.open)
  BY InvFacts DEF Turns, Tickets, Asked
<1>2. AskedSlot \in Slot
  BY <1>1, SlotFacts DEF AskedSlot
<1> QED
  BY <1>2, InvFacts, TypeFacts DEF Position

\* Steps that change the server at most, and the sizes of files.
LEMMA StillMoved ==
  ASSUME FsInv, UNCHANGED <<fdpage, got>>, srv.pc # "advance", srv'.pc # "advance"
  PROVE  Moved'
  BY InvFacts DEF Moved

LEMMA AnswerFacts ==
  ASSUME FsInv, srv.pc = "handle", Answer(NULL)
  PROVE  /\ srv' = [pc |-> "reply", whom |-> srv.whom, page |-> NULL]
         /\ srv' \in Server /\ srv'.pc = "reply" /\ srv'.page = NULL /\ srv'.whom = srv.whom
<1>1. srv \in Server
  BY InvFacts DEF Types
<1> QED
  BY <1>1 DEF Answer, Server

LEMMA PlainKeeps ==
  ASSUME FsInv, ServeRecv \/ ServeUnknown \/ ServeSetSize \/ ServeQuiet \/ ReplyFails
  PROVE  FsInv'
<1>0. size \in [File -> Size \cup {NULL}] /\ got \in [Slot -> SUBSET Nat] /\ srv \in Server
  BY InvFacts DEF Types
<1>1. CASE ServeRecv
  <2>1. /\ srv.pc = "top" /\ srv' = [srv EXCEPT !.pc = "receiving", !.whom = NULL, !.page = NULL]
        /\ UNCHANGED <<size, opentab, fdpage, opens, fd, given, copy, pc, req, got>>
    BY <1>1 DEF ServeRecv, table, descriptors
  <2>2. srv' \in Server /\ srv'.pc = "receiving"
    BY <1>0, <2>1 DEF Server
  <2>3. Quietly
    BY <1>0, <2>1, <2>2 DEF Quietly
  <2> QED
    BY <2>1, <2>2, <2>3, StillMoved, QuietlyKeeps
<1>2. CASE ServeUnknown
  <2>1. /\ srv.pc = "handle" /\ Answer(NULL)
        /\ UNCHANGED <<size, opentab, fdpage, opens, fd, given, copy, pc, req, got>>
    BY <1>2 DEF ServeUnknown, Handles, table, descriptors
  <2>2. srv' \in Server /\ srv'.pc = "reply" /\ srv'.page = NULL /\ srv'.whom = srv.whom
    BY <2>1, AnswerFacts
  <2>3. Quietly
    BY <1>0, <2>1, <2>2 DEF Quietly, Serving
  <2> QED
    BY <2>1, <2>2, <2>3, StillMoved, QuietlyKeeps
<1>3. CASE ServeSetSize
  <2>1. /\ srv.pc = "handle" /\ Asked.op = "set_size" /\ Found(Asked.id) /\ Answer(NULL)
        /\ size' = [size EXCEPT ![AskedFile] = Asked.arg]
        /\ UNCHANGED <<opentab, fdpage, opens, fd, given, copy, pc, req, got>>
    BY <1>3 DEF ServeSetSize, Serves, Handles, table, descriptors
  <2>2. srv' \in Server /\ srv'.pc = "reply" /\ srv'.page = NULL /\ srv'.whom = srv.whom
    BY <2>1, AnswerFacts
  <2>3. Asked.arg \in Size
    <3>1. srv.whom \in Client /\ req[srv.whom].op = "set_size"
      BY <2>1, InvFacts DEF Turns, Serving, Asked
    <3> QED
      BY <3>1, InvFacts, Constants DEF Turns, Asked
  <2>4. size' \in [File -> Size \cup {NULL}] /\ \A f \in File : size[f] # NULL => size'[f] # NULL
    BY <1>0, <2>1, <2>3, Constants
  <2>5. Quietly
    BY <1>0, <2>1, <2>2, <2>4 DEF Quietly, Serving
  <2> QED
    BY <2>1, <2>2, <2>5, StillMoved, QuietlyKeeps
<1>4. CASE ServeQuiet
  <2>1. /\ srv.pc = "handle" /\ Answer(NULL)
        /\ UNCHANGED <<size, opentab, fdpage, opens, fd, given, copy, pc, req, got>>
    BY <1>4 DEF ServeQuiet, Serves, Handles, table, descriptors
  <2>2. srv' \in Server /\ srv'.pc = "reply" /\ srv'.page = NULL /\ srv'.whom = srv.whom
    BY <2>1, AnswerFacts
  <2>3. Quietly
    BY <1>0, <2>1, <2>2 DEF Quietly, Serving
  <2> QED
    BY <2>1, <2>2, <2>3, StillMoved, QuietlyKeeps
<1>5. CASE ReplyFails
  <2>1. /\ srv.pc = "reply" /\ pc[srv.whom] = "dead" /\ srv' = [srv EXCEPT !.pc = "monitor"]
        /\ UNCHANGED <<size, opentab, fdpage, opens, fd, given, copy, pc, req, got>>
    BY <1>5 DEF ReplyFails, table, descriptors
  <2>2. srv' \in Server /\ srv'.pc = "monitor" /\ srv'.whom = srv.whom
    BY <1>0, <2>1 DEF Server
  <2>3. Quietly
    BY <1>0, <2>1, <2>2 DEF Quietly, Serving
  <2> QED
    BY <2>1, <2>2, <2>3, StillMoved, QuietlyKeeps
<1> QED
  BY <1>1, <1>2, <1>3, <1>4, <1>5

LEMMA MoveKeeps ==
  ASSUME FsInv, ServeRead \/ ServeWrite
  PROVE  FsInv'
<1>0. size \in [File -> Size \cup {NULL}] /\ got \in [Slot -> SUBSET Nat] /\ srv \in Server
  BY InvFacts DEF Types
<1>1. /\ srv.pc = "handle" /\ Asked.op \in ByFile /\ Found(Asked.id)
      /\ UNCHANGED <<opentab, fdpage, opens, fd, given, copy, pc, req>>
      /\ \/ Position < FileBlocks /\ Move
         \/ Answer(NULL) /\ UNCHANGED got
  BY DEF ServeRead, ServeWrite, Serves, Handles, descriptors, ByFile
<1>2. Serving /\ AskedSlot \in Slot /\ Position \in 0..(FileBlocks+1) /\ FileBlocks \in Nat
  BY <1>1, AskedFacts, Constants DEF Serving
<1>3. size' \in [File -> Size \cup {NULL}] /\ \A f \in File : size[f] # NULL => size'[f] # NULL
  <2>1. CASE ServeRead
    BY <1>0, <2>1 DEF ServeRead
  <2>2. CASE ServeWrite
    <3>1. size' = [size EXCEPT ![AskedFile] = IF Position >= @ THEN Position + 1 ELSE @]
      BY <2>2 DEF ServeWrite
    <3>2. AskedFile \in File /\ size[AskedFile] # NULL
      <4>1. InUse(AskedSlot)
        BY <1>1, <1>2, FoundFacts DEF Asked, AskedSlot
      <4> QED
        BY <4>1 DEF InUse, AskedFile
    <3>3. size[AskedFile] \in Size /\ Position + 1 \in Size
      BY <1>0, <1>2, <3>2, Constants
    <3> HIDE DEF AskedFile, Position
    <3>4. size'[AskedFile] \in Size /\ \A f \in File : f # AskedFile => size'[f] = size[f]
      BY <1>0, <3>1, <3>2, <3>3
    <3>5. size' \in [File -> Size \cup {NULL}]
      BY <1>0, <3>1, <3>2, <3>3
    <3> QED
      BY <3>4, <3>5, Constants
  <2> QED
    BY <2>1, <2>2
<1>4. CASE Position < FileBlocks /\ Move
  <2>1. /\ srv' = [srv EXCEPT !.pc = "advance"]
        /\ got' = [got EXCEPT ![AskedSlot] = @ \cup {Position}]
    BY <1>4 DEF Move
  <2>2. srv' \in Server /\ srv'.pc = "advance" /\ srv'.whom = srv.whom
    BY <1>0, <2>1 DEF Server
  <2>3. got' \in [Slot -> SUBSET Nat]
    BY <1>0, <1>2, <2>1
  <2>4. Quietly
    BY <1>1, <1>2, <1>3, <2>2, <2>3 DEF Quietly, Serving, Asked
  <2>5. Moved'
    <3>1. /\ got'[AskedSlot] = got[AskedSlot] \cup {Position}
          /\ \A slot \in Slot : slot # AskedSlot => got'[slot] = got[slot]
      BY <1>0, <1>2, <2>1
    <3>2. \A slot \in Slot : \A b \in got'[slot] :
             \/ b < fdpage[slot].offset
             \/ slot = AskedSlot /\ b = fdpage[slot].offset
      BY <1>1, <3>1, InvFacts DEF Moved, Position
    <3>3. fdpage[AskedSlot].offset <= FileBlocks
      BY <1>2, <1>4 DEF Position
    <3> QED
      BY <1>1, <2>2, <3>2, <3>3 DEF Moved, AskedSlot, Asked
  <2> QED
    BY <2>4, <2>5, QuietlyKeeps
<1>5. CASE Answer(NULL) /\ UNCHANGED got
  <2>1. srv' \in Server /\ srv'.pc = "reply" /\ srv'.page = NULL /\ srv'.whom = srv.whom
    BY <1>1, <1>5, AnswerFacts
  <2>2. Quietly
    BY <1>0, <1>1, <1>2, <1>3, <1>5, <2>1 DEF Quietly, Serving
  <2> QED
    BY <1>1, <1>5, <2>1, <2>2, StillMoved, QuietlyKeeps
<1> QED
  BY <1>1, <1>4, <1>5

LEMMA AdvanceKeeps ==
  ASSUME FsInv, Advance
  PROVE  FsInv'
<1>1. /\ srv.pc = "advance" /\ srv' = [srv EXCEPT !.pc = "reply", !.page = NULL]
      /\ fdpage' = [fdpage EXCEPT ![AskedSlot].offset = @ + 1]
      /\ UNCHANGED <<size, opentab, opens, fd, given, copy, pc, req, got>>
  BY DEF Advance, Answer, descriptors
<1>2. Serving /\ Asked.op \in ByFile
  BY <1>1, InvFacts DEF Turns, Serving, Asked
<1>3. AskedSlot \in Slot /\ Position \in 0..(FileBlocks+1) /\ Position <= FileBlocks /\ FileBlocks \in Nat
  BY <1>1, <1>2, AskedFacts, InvFacts, Constants DEF Moved, AskedSlot, Asked, Position
<1>4. srv' \in Server /\ srv'.pc = "reply" /\ srv'.page = NULL /\ srv'.whom = srv.whom
  <2>1. srv \in Server
    BY InvFacts DEF Types
  <2>2. srv' = [pc |-> "reply", whom |-> srv.whom, page |-> NULL]
    BY <1>1, <2>1 DEF Server
  <2> QED
    BY <2>1, <2>2 DEF Server
<1> DEFINE here == AskedSlot
<1>5. here \in Slot /\ fdpage' = [fdpage EXCEPT ![here].offset = @ + 1]
      /\ fdpage[here].offset \in 0..(FileBlocks+1) /\ fdpage[here].offset <= FileBlocks
      /\ here = SlotOf(req[srv.whom].id)
  BY <1>1, <1>3 DEF Position, AskedSlot, Asked
<1> HIDE DEF here
<1>6. /\ \A slot \in Slot : fdpage'[slot].id = fdpage[slot].id
      /\ \A slot \in Slot : slot # here => fdpage'[slot] = fdpage[slot]
      /\ fdpage'[here].offset = fdpage[here].offset + 1
  BY <1>5, InvFacts DEF Types
<1>7. Types'
  <2>1. fdpage[here].offset + 1 \in 0..(FileBlocks+1)
    BY <1>3, <1>5
  <2>2. fdpage \in [Slot -> [id : Nat, mode : Mode \cup {"O_RDONLY"}, offset : 0..(FileBlocks+1)]]
    BY InvFacts DEF Types
  <2> DEFINE row == [id |-> fdpage[here].id, mode |-> fdpage[here].mode,
                     offset |-> fdpage[here].offset + 1]
  <2>3. fdpage' = [fdpage EXCEPT ![here] = row]
    <3>1. [fdpage[here] EXCEPT !.offset = @ + 1] = row
      BY <1>5, <2>2
    <3>2. fdpage' = [fdpage EXCEPT ![here] = [fdpage[here] EXCEPT !.offset = @ + 1]]
      BY <1>5
    <3> QED
      BY <3>1, <3>2
  <2>4. row \in [id : Nat, mode : Mode \cup {"O_RDONLY"}, offset : 0..(FileBlocks+1)]
    BY <1>5, <2>1, <2>2
  <2> HIDE DEF row
  <2>5. fdpage' \in [Slot -> [id : Nat, mode : Mode \cup {"O_RDONLY"}, offset : 0..(FileBlocks+1)]]
    BY <1>5, <2>2, <2>3, <2>4
  <2> QED
    BY <1>1, <1>4, <2>5, InvFacts DEF Types
<1>8. Numbers'
  <2>1. Granting' \subseteq Granting
    BY <1>1, <1>4 DEF Granting, Wants
  <2>2. opens' + Cardinality(Granting') <= MaxOpens
    BY <1>1, <2>1, GrantingShrinks
  <2> QED
    BY <1>1, <1>6, <2>2, InvFacts DEF Numbers, IdOf
<1>9. Holders'
  <2>1. \A slot \in Slot : InUse(slot) => InUse(slot)'
    BY <1>1, <1>6 DEF InUse
  <2>2. \A q \in Client, m \in FdNum : fd[q][m] # NULL =>
          fd[q][m] \in Slot /\ InUse(fd[q][m]) /\ opentab[fd[q][m]].open = given[q][m]
    BY InvFacts, TypeFacts DEF Holders
  <2> QED
    BY <1>1, <1>4, <2>1, <2>2 DEF Holders, InUse
<1>10. Turns'
  BY <1>1, <1>4, InvFacts DEF Turns, AtWork, Serving
<1>11. Tickets'
  BY <1>1, InvFacts DEF Tickets, Ticket, IdOf, AtWork
<1>12. Moved'
  <2>1. ASSUME NEW slot \in Slot, NEW b \in got[slot]
        PROVE  b < fdpage'[slot].offset
    <3>1. b \in Nat /\ fdpage[slot].offset \in Nat
      BY <2>1, InvFacts, TypeFacts, Constants
    <3>2. b < fdpage[slot].offset \/ (slot = here /\ b = fdpage[slot].offset)
      BY <1>5, <2>1, InvFacts DEF Moved
    <3> QED
      BY <1>6, <3>1, <3>2
  <2> QED
    BY <1>1, <1>4, <2>1 DEF Moved
<1> QED
  BY <1>7, <1>8, <1>9, <1>10, <1>11, <1>12 DEF FsInv

\* The two ways in which a slot is handed out.
Hands(slot, file, page, answer) ==
  /\ OpenfileAlloc(slot, file, page) /\ Answer(answer)
  /\ page.offset = 0 /\ page.id \in {0, NewId(slot)}
  /\ answer \in {NULL, slot}
  /\ answer = slot => page.id = NewId(slot) /\ file \in File /\ size'[file] # NULL

LEMMA HandsKeeps ==
  ASSUME FsInv, Handles("open"), NEW slot \in FreeSlots, NEW file \in File \cup {NULL},
         NEW page \in [id : Nat, mode : Mode \cup {"O_RDONLY"}, offset : 0..(FileBlocks+1)],
         NEW answer, Hands(slot, file, page, answer), UNCHANGED <<descriptors, pc, req>>,
         size' \in [File -> Size \cup {NULL}], \A f \in File : size[f] # NULL => size'[f] # NULL
  PROVE  FsInv'
<1>1. /\ opens' = opens + 1
      /\ opentab' = [opentab EXCEPT ![slot] = [used |-> 1, id |-> NewId(slot), file |-> file, open |-> opens + 1]]
      /\ fdpage' = [fdpage EXCEPT ![slot] = page] /\ got' = [got EXCEPT ![slot] = {}]
      /\ UNCHANGED <<fd, given, copy, pc, req>>
  BY DEF Hands, OpenfileAlloc, descriptors
<1>2. srv.pc = "handle" /\ req[srv.whom].op = "open" /\ srv.whom \in Client
  BY InvFacts DEF Handles, Asked, Turns, Serving
<1>3. slot \in Slot /\ slot # NULL /\ \A c \in Client, n \in FdNum : fd[c][n] # slot
  <2>1. slot \in Slot
    BY DEF FreeSlots
  <2> QED
    BY <2>1, InvFacts, RefFacts, Constants
<1>4. srv' = [pc |-> "reply", whom |-> srv.whom, page |-> answer] /\ srv' \in Server /\ answer \in {NULL, slot}
  <2>1. srv \in Server
    BY InvFacts DEF Types
  <2>2. srv' = [pc |-> "reply", whom |-> srv.whom, page |-> answer]
    BY <2>1 DEF Hands, Answer, Server
  <2> QED
    BY <1>3, <2>1, <2>2 DEF Hands, Server
<1>5. opens \in Nat /\ MaxOpens \in Nat /\ MAXOPEN \in Nat \ {0} /\ opentab[slot].id \in Nat
  BY <1>3, InvFacts, TypeFacts, Constants
<1>6. NewId(slot) = opentab[slot].id + MAXOPEN
  BY DEF NewId
<1> DEFINE new == NewId(slot)
<1>7. new \in Nat /\ new > opentab[slot].id
  BY <1>5, <1>6
<1>8. opens + 1 + Cardinality(Granting') <= MaxOpens
  <2>1. IsFiniteSet(Granting)
    BY Constants, FS_Subset DEF Granting
  <2>2. srv.whom \in Granting
    BY <1>2 DEF Granting, Wants
  <2>3. Granting' \subseteq Granting \ {srv.whom}
    BY <1>1, <1>2, <1>4 DEF Granting, Wants
  <2>4. Cardinality(Granting) \in Nat
    BY <2>1, FS_CardinalityType
  <2>5. IsFiniteSet(Granting \ {srv.whom}) /\ Cardinality(Granting \ {srv.whom}) = Cardinality(Granting) - 1
    BY <2>1, <2>2, FS_RemoveElement
  <2>6. IsFiniteSet(Granting') /\ Cardinality(Granting') <= Cardinality(Granting \ {srv.whom})
    BY <2>3, <2>5, FS_Subset
  <2>7. Cardinality(Granting') \in Nat
    BY <2>6, FS_CardinalityType
  <2>8. opens + Cardinality(Granting) <= MaxOpens
    BY InvFacts DEF Numbers
  <2> QED
    BY <1>5, <2>4, <2>5, <2>6, <2>7, <2>8
<1>9. opens + 1 \in 0..MaxOpens
  <2>1. IsFiniteSet(Granting')
    <3>1. Granting' \subseteq Client
      BY DEF Granting
    <3> QED
      BY <3>1, Constants, FS_Subset
  <2>2. Cardinality(Granting') \in Nat
    BY <2>1, FS_CardinalityType
  <2> QED
    BY <1>5, <1>8, <2>2
<1> DEFINE row == [used |-> 1, id |-> new, file |-> file, open |-> opens + 1]
<1>10. row \in [used : {0, 1}, id : Nat, file : File \cup {NULL}, open : 0..MaxOpens]
  BY <1>7, <1>9
<1>11. /\ \A s \in Slot : s # slot => opentab'[s] = opentab[s] /\ fdpage'[s] = fdpage[s] /\ got'[s] = got[s]
       /\ opentab'[slot] = row /\ fdpage'[slot] = page /\ got'[slot] = {}
  BY <1>1, <1>3, InvFacts DEF Types
<1>12. /\ opentab'[slot].id = new /\ opentab'[slot].open = opens + 1 /\ opentab'[slot].used = 1
       /\ opentab'[slot].file = file
  BY <1>11
<1>13. page.id \in {0, new} /\ page.offset = 0 /\ (answer = slot => page.id = new /\ file \in File /\ size'[file] # NULL)
  BY DEF Hands
<1>14. Types'
  <2>1. opentab' \in [Slot -> [used : {0, 1}, id : Nat, file : File \cup {NULL}, open : 0..MaxOpens]]
    BY <1>1, <1>3, <1>10, InvFacts DEF Types
  <2>2. fdpage' \in [Slot -> [id : Nat, mode : Mode \cup {"O_RDONLY"}, offset : 0..(FileBlocks+1)]]
    BY <1>1, <1>3, InvFacts DEF Types
  <2>3. got' \in [Slot -> SUBSET Nat]
    BY <1>1, <1>3, InvFacts DEF Types
  <2> QED
    BY <1>1, <1>4, <1>9, <2>1, <2>2, <2>3, InvFacts DEF Types
<1> HIDE DEF new, row
\* Ids grow.
<1>15. ASSUME NEW s \in Slot, NEW id, IdOf(s, id) PROVE \E k \in 0..(opens+1) : id = MAXOPEN * k + s
  <2>1. PICK k \in 0..opens : id = MAXOPEN * k + s
    BY <1>15 DEF IdOf
  <2>2. k \in 0..(opens+1)
    BY <1>5
  <2> QED
    BY <2>1, <2>2
<1>16. \E k \in 0..(opens+1) : new = MAXOPEN * k + slot
  <2>1. PICK k \in 0..opens : opentab[slot].id = MAXOPEN * k + slot
    BY <1>3, InvFacts DEF Numbers, IdOf
  <2>2. k \in Nat /\ k + 1 \in 0..(opens+1) /\ slot \in Nat
    BY <1>3, <1>5, Constants
  <2>3. MAXOPEN * k \in Nat /\ MAXOPEN * (k + 1) = MAXOPEN * k + MAXOPEN
    BY <1>5, <2>2, Multiples
  <2>4. new = MAXOPEN * (k + 1) + slot
    BY <1>5, <1>6, <2>1, <2>2, <2>3 DEF new
  <2> QED
    BY <2>2, <2>4
<1> DEFINE Later(id, open) ==
      \E s \in Slot : /\ \E k \in 0..(opens+1) : id = MAXOPEN * k + s
                      /\ id <= opentab'[s].id
                      /\ id = opentab'[s].id => opentab'[s].open = open
<1>17. ASSUME NEW id, NEW open, Ticket(id, open) PROVE Later(id, open)
  <2>1. PICK s \in Slot :
          /\ IdOf(s, id) /\ id <= opentab[s].id
          /\ id = opentab[s].id => opentab[s].open = open
    BY <1>17 DEF Ticket
  <2>2. \E k \in 0..(opens+1) : id = MAXOPEN * k + s
    BY <1>15, <2>1
  <2>3. CASE s = slot
    <3>1. id \in Nat
      BY <1>5, <2>1, IdFacts
    <3>2. id < new
      BY <1>5, <1>7, <2>1, <2>3, <3>1
    <3>3. id <= opentab'[s].id /\ id # opentab'[s].id
      BY <1>7, <1>12, <2>3, <3>1, <3>2
    <3> QED
      BY <2>2, <3>3
  <2>4. CASE s # slot
    BY <1>11, <2>1, <2>2, <2>4
  <2> QED
    BY <2>3, <2>4
<1>18. Numbers'
  <2>1. \A s \in Slot : \E k \in 0..(opens+1) : opentab'[s].id = MAXOPEN * k + s
    <3> SUFFICES ASSUME NEW s \in Slot PROVE \E k \in 0..(opens+1) : opentab'[s].id = MAXOPEN * k + s
      OBVIOUS
    <3>1. CASE s = slot
      BY <1>12, <1>16, <3>1
    <3>2. CASE s # slot
      <4>1. IdOf(s, opentab[s].id)
        BY InvFacts DEF Numbers
      <4> QED
        BY <1>11, <1>15, <3>2, <4>1
    <3> QED
      BY <3>1, <3>2
  <2>2. \A s \in Slot : fdpage'[s].id = 0 \/ fdpage'[s].id = opentab'[s].id
    BY <1>11, <1>12, <1>13, InvFacts DEF Numbers
  <2> QED
    BY <1>1, <1>8, <2>1, <2>2 DEF Numbers, IdOf
<1>19. Holders'
  <2>1. \A s \in Slot : s # slot /\ InUse(s) => InUse(s)'
    BY <1>11 DEF InUse
  <2>2. \A q \in Client, m \in FdNum : fd[q][m] # NULL =>
          /\ fd[q][m] \in Slot /\ InUse(fd[q][m]) /\ opentab[fd[q][m]].open = given[q][m]
          /\ fd[q][m] # slot
    BY <1>3, InvFacts, TypeFacts DEF Holders
  <2>3. answer # NULL => answer = slot /\ InUse(slot)'
    BY <1>4, <1>11, <1>12, <1>13 DEF InUse
  <2>4. srv'.page # NULL => srv'.page = slot
    BY <1>4
  <2>5. srv'.page # NULL =>
          /\ opentab'[srv'.page].used = 1 /\ fdpage'[srv'.page].id = opentab'[srv'.page].id
          /\ opentab'[srv'.page].file \in File /\ size'[opentab'[srv'.page].file] # NULL
    BY <1>4, <2>3, <2>4 DEF InUse
  <2>6. req'[srv'.whom].op = "open"
    BY <1>1, <1>2, <1>4
  <2>7. \A q \in Client, m \in FdNum : fd'[q][m] # NULL =>
          /\ opentab'[fd'[q][m]].used = 1 /\ fdpage'[fd'[q][m]].id = opentab'[fd'[q][m]].id
          /\ opentab'[fd'[q][m]].file \in File /\ size'[opentab'[fd'[q][m]].file] # NULL
          /\ opentab'[fd'[q][m]].open = given'[q][m]
    BY <1>1, <1>11, <2>1, <2>2 DEF InUse
  <2> QED
    BY <2>5, <2>6, <2>7 DEF Holders, InUse
<1>20. Turns'
  BY <1>1, <1>2, <1>4, InvFacts DEF Turns, AtWork, Serving
<1>21. Tickets'
  <2>1. \A q \in Client : req'[q].op \in ByFile => Later(req'[q].id, req'[q].open)
    <3> SUFFICES ASSUME NEW q \in Client, req[q].op \in ByFile PROVE Later(req[q].id, req[q].open)
      BY <1>1
    <3>1. Ticket(req[q].id, req[q].open)
      BY InvFacts DEF Tickets
    <3> QED
      BY <1>17, <3>1
  <2>2. copy' # NULL => Later(copy'.id, copy'.open)
    <3> SUFFICES ASSUME copy # NULL PROVE Later(copy.id, copy.open)
      BY <1>1
    <3>1. Ticket(copy.id, copy.open)
      BY InvFacts DEF Tickets
    <3> QED
      BY <1>17, <3>1
  <2>3. \A q \in Client : AtWork(q) /\ req[q].op \in ByFile /\ req[q].n # NULL =>
          fd[q][req[q].n] # NULL /\ req[q].id = opentab'[fd[q][req[q].n]].id
    <3> SUFFICES ASSUME NEW q \in Client, AtWork(q), req[q].op \in ByFile, req[q].n # NULL
                 PROVE  fd[q][req[q].n] # NULL /\ req[q].id = opentab'[fd[q][req[q].n]].id
      OBVIOUS
    <3>1. req[q].n \in FdNum
      BY InvFacts, TypeFacts
    <3>2. fd[q][req[q].n] # NULL /\ req[q].id = opentab[fd[q][req[q].n]].id
      BY InvFacts DEF Tickets
    <3>3. fd[q][req[q].n] \in Slot /\ fd[q][req[q].n] # slot
      BY <1>3, <3>1, <3>2, InvFacts, TypeFacts
    <3> QED
      BY <1>11, <3>2, <3>3
  <2> QED
    BY <1>1, <2>1, <2>2, <2>3 DEF Tickets, Ticket, IdOf, AtWork
<1>22. Moved'
  <2>1. \A s \in Slot : \A b \in got'[s] : b < fdpage'[s].offset
    BY <1>2, <1>11, InvFacts DEF Moved
  <2> QED
    BY <1>4, <2>1 DEF Moved
<1> QED
  BY <1>14, <1>18, <1>19, <1>20, <1>21, <1>22 DEF FsInv

LEMMA OpenKeeps ==
  ASSUME FsInv, ServeOpen
  PROVE  FsInv'
<1>0. size \in [File -> Size \cup {NULL}] /\ got \in [Slot -> SUBSET Nat] /\ srv \in Server
  BY InvFacts DEF Types
<1>1. srv.pc = "handle" /\ Handles("open") /\ UNCHANGED <<descriptors, pc, req>>
  BY DEF ServeOpen, Handles
<1>2. /\ srv.whom \in Client /\ Asked.op = "open"
      /\ Asked.file \in File /\ Asked.mode \in Mode
  BY <1>1, InvFacts DEF Handles, Asked, Turns, Serving
<1>3. CASE FreeSlots = {} /\ Answer(NULL) /\ UNCHANGED <<size, table, got>>
  <2>1. UNCHANGED <<size, opentab, fdpage, opens, fd, given, copy, pc, req, got>>
    BY <1>1, <1>3 DEF table, descriptors
  <2>2. srv' \in Server /\ srv'.pc = "reply" /\ srv'.page = NULL /\ srv'.whom = srv.whom
    BY <1>1, <1>3, AnswerFacts
  <2>3. Quietly
    BY <1>0, <1>1, <2>1, <2>2 DEF Quietly, Serving
  <2> QED
    BY <1>1, <2>1, <2>2, <2>3, StillMoved, QuietlyKeeps
<1> DEFINE slot == Lowest(FreeSlots)
<1>4. FreeSlots # {} => slot \in FreeSlots /\ slot \in Slot /\ slot \in Nat
  <2>1. FreeSlots \subseteq Nat /\ FreeSlots \subseteq Slot
    BY Constants DEF FreeSlots
  <2> QED
    BY <2>1, LowestIs
<1>5. slot \in Slot => NewId(slot) \in Nat
  <2>1. slot \in Slot => opentab[slot].id \in Nat /\ opentab[slot].file \in File \cup {NULL}
    BY InvFacts, TypeFacts
  <2> QED
    BY <2>1, Constants DEF NewId
<1> HIDE DEF slot
<1>6. CASE /\ FreeSlots # {} /\ ~CanOpen(Asked)
           /\ OpenfileAlloc(slot, opentab[slot].file, ClearFd)
           /\ Answer(NULL) /\ UNCHANGED size
  <2>1. ClearFd \in [id : Nat, mode : Mode \cup {"O_RDONLY"}, offset : 0..(FileBlocks+1)]
        /\ ClearFd.id = 0 /\ ClearFd.offset = 0
    BY Constants DEF ClearFd
  <2>2. opentab[slot].file \in File \cup {NULL}
    BY <1>4, <1>6, InvFacts, TypeFacts
  <2>3. slot # NULL
    BY <1>4, <1>6, Constants
  <2>4. Hands(slot, opentab[slot].file, ClearFd, NULL)
    BY <1>6, <2>1, <2>3 DEF Hands
  <2> QED
    BY <1>0, <1>1, <1>4, <1>6, <2>1, <2>2, <2>4, HandsKeeps
<1>7. CASE /\ FreeSlots # {} /\ CanOpen(Asked)
           /\ OpenfileAlloc(slot, Asked.file, [id |-> NewId(slot), mode |-> Asked.mode, offset |-> 0])
           /\ size' = IF size[Asked.file] = NULL \/ "O_TRUNC" \in Asked.flags
                      THEN [size EXCEPT ![Asked.file] = 0] ELSE size
           /\ Answer(slot)
  <2> DEFINE page == [id |-> NewId(slot), mode |-> Asked.mode, offset |-> 0]
  <2>1. page \in [id : Nat, mode : Mode \cup {"O_RDONLY"}, offset : 0..(FileBlocks+1)]
        /\ page.id = NewId(slot) /\ page.offset = 0
    <3>1. 0 \in 0..(FileBlocks+1)
      BY Constants
    <3> QED
      BY <1>2, <1>4, <1>5, <1>7, <3>1
  <2>2. 0 \in Size /\ 0 # NULL
    BY Constants
  <2>3. /\ size' \in [File -> Size \cup {NULL}] /\ size'[Asked.file] # NULL
        /\ \A f \in File : size[f] # NULL => size'[f] # NULL
    <3>1. CASE size[Asked.file] = NULL \/ "O_TRUNC" \in Asked.flags
      <4>1. size' = [size EXCEPT ![Asked.file] = 0]
        BY <1>7, <3>1
      <4> HIDE DEF Asked
      <4> QED
        BY <1>0, <1>2, <2>2, <4>1
    <3>2. CASE ~(size[Asked.file] = NULL \/ "O_TRUNC" \in Asked.flags)
      <4>1. size' = size /\ size[Asked.file] # NULL
        BY <1>7, <3>2
      <4> QED
        BY <1>0, <4>1
    <3> QED
      BY <3>1, <3>2
  <2>4. OpenfileAlloc(slot, Asked.file, page)
    BY <1>7
  <2> HIDE DEF page
  <2>5. Hands(slot, Asked.file, page, slot)
    BY <1>2, <1>7, <2>1, <2>3, <2>4 DEF Hands
  <2> QED
    BY <1>1, <1>2, <1>4, <1>7, <2>1, <2>3, <2>5, HandsKeeps
<1> QED
  BY <1>3, <1>6, <1>7 DEF ServeOpen, slot

LEMMA ReplyKeeps ==
  ASSUME FsInv, Reply
  PROVE  FsInv'
<1> DEFINE c == srv.whom
           n == req[c].n
<1>0. srv \in Server /\ pc \in [Client -> {"none", "idle", "send", "sent", "waiting", "unmap", "dead"}]
      /\ req \in [Client -> Request] /\ fd \in [Client -> [FdNum -> Slot \cup {NULL}]]
      /\ given \in [Client -> [FdNum -> 0..MaxOpens]]
  BY InvFacts DEF Types
<1>1. /\ srv.pc = "reply" /\ pc[c] = "waiting" /\ srv' = [srv EXCEPT !.pc = "top"]
      /\ pc' = [pc EXCEPT ![c] = IF req[c].op = "flush" THEN "unmap" ELSE "idle"]
      /\ IF srv.page = NULL THEN UNCHANGED <<fd, given>>
         ELSE /\ fd' = [fd EXCEPT ![c][n] = srv.page]
              /\ given' = [given EXCEPT ![c][n] = opentab[srv.page].open]
      /\ req' = IF req[c].op = "flush" THEN req ELSE [req EXCEPT ![c] = NoRequest]
      /\ UNCHANGED <<size, opentab, fdpage, opens, copy, got>>
  BY DEF Reply, Goto, Map, Asked, table
<1>2. c \in Client /\ req[c].op # "none"
  BY <1>1, InvFacts DEF Turns, Serving
<1>3. NoRequest \in Request /\ NoRequest.op = "none" /\ NoRequest.n = NULL
  BY Constants DEF NoRequest, Ask, Request
<1>4. srv' \in Server /\ srv'.pc = "top" /\ srv'.whom = c /\ srv'.page = srv.page
  BY <1>0, <1>1 DEF Server
<1>5. srv.page # NULL =>
        /\ InUse(srv.page) /\ req[c].op = "open" /\ n \in FdNum
        /\ srv.page \in Slot /\ opentab[srv.page].open \in 0..MaxOpens
  <2> SUFFICES ASSUME srv.page # NULL
               PROVE  /\ InUse(srv.page) /\ req[c].op = "open" /\ n \in FdNum
                      /\ srv.page \in Slot /\ opentab[srv.page].open \in 0..MaxOpens
    OBVIOUS
  <2>1. InUse(srv.page) /\ req[c].op = "open"
    BY <1>1, InvFacts DEF Holders
  <2>2. n # NULL
    BY <1>2, <2>1, InvFacts DEF Turns
  <2>3. n \in FdNum /\ srv.page \in Slot
    BY <1>2, <2>2, InvFacts, TypeFacts
  <2>4. opentab[srv.page].open \in 0..MaxOpens
    BY <2>3, InvFacts, TypeFacts
  <2> QED
    BY <2>1, <2>3, <2>4
<1> HIDE DEF c, n
<1>6. /\ \A q \in Client : q # c => pc'[q] = pc[q] /\ req'[q] = req[q] /\ fd'[q] = fd[q] /\ given'[q] = given[q]
      /\ pc'[c] = IF req[c].op = "flush" THEN "unmap" ELSE "idle"
      /\ req'[c] = IF req[c].op = "flush" THEN req[c] ELSE NoRequest
  BY <1>0, <1>1, <1>2
<1>7. req[c].op = "flush" => srv.page = NULL
  BY <1>5
<1>8. \A m \in FdNum : \/ fd'[c][m] = fd[c][m] /\ given'[c][m] = given[c][m]
                       \/ /\ fd'[c][m] = srv.page /\ given'[c][m] = opentab[srv.page].open
                          /\ InUse(srv.page)
  <2>1. CASE srv.page = NULL
    BY <1>1, <2>1
  <2>2. CASE srv.page # NULL
    <3>1. fd' = [fd EXCEPT ![c][n] = srv.page] /\ given' = [given EXCEPT ![c][n] = opentab[srv.page].open]
      BY <1>1, <2>2
    <3>2. n \in FdNum /\ InUse(srv.page)
      BY <1>5, <2>2
    <3> QED
      BY <1>0, <1>2, <3>1, <3>2
  <2> QED
    BY <2>1, <2>2
<1>9. Types'
  <2>1. fd' \in [Client -> [FdNum -> Slot \cup {NULL}]] /\ given' \in [Client -> [FdNum -> 0..MaxOpens]]
    <3>1. CASE srv.page = NULL
      BY <1>0, <1>1, <3>1
    <3>2. CASE srv.page # NULL
      <4>1. fd' = [fd EXCEPT ![c][n] = srv.page] /\ given' = [given EXCEPT ![c][n] = opentab[srv.page].open]
        BY <1>1, <3>2
      <4>2. n \in FdNum /\ srv.page \in Slot /\ opentab[srv.page].open \in 0..MaxOpens
        BY <1>5, <3>2
      <4> QED
        BY <1>0, <1>2, <4>1, <4>2
    <3> QED
      BY <3>1, <3>2
  <2>2. pc' \in [Client -> {"none", "idle", "send", "sent", "waiting", "unmap", "dead"}]
    BY <1>0, <1>1, <1>2
  <2>3. req' \in [Client -> Request]
    BY <1>0, <1>1, <1>2, <1>3
  <2> QED
    BY <1>1, <1>4, <2>1, <2>2, <2>3, InvFacts DEF Types
<1>10. Numbers'
  <2>1. Granting' \subseteq Granting
    BY <1>1, <1>3, <1>6 DEF Granting, Wants, c
  <2>2. opens' + Cardinality(Granting') <= MaxOpens
    BY <1>1, <2>1, GrantingShrinks
  <2> QED
    BY <1>1, <2>2, InvFacts DEF Numbers, IdOf
<1>11. Holders'
  <2>1. \A q \in Client, m \in FdNum : fd'[q][m] # NULL =>
          InUse(fd'[q][m]) /\ opentab[fd'[q][m]].open = given'[q][m]
    <3> SUFFICES ASSUME NEW q \in Client, NEW m \in FdNum, fd'[q][m] # NULL
                 PROVE  InUse(fd'[q][m]) /\ opentab[fd'[q][m]].open = given'[q][m]
      OBVIOUS
    <3>1. CASE q = c
      BY <1>8, <3>1, InvFacts DEF Holders
    <3>2. CASE q # c
      BY <1>6, <3>2, InvFacts DEF Holders
    <3> QED
      BY <3>1, <3>2
  <2> QED
    BY <1>1, <1>4, <2>1 DEF Holders, InUse
<1>12. Turns'
  <2>1. \A q \in Client : AtWork(q)' => req'[q].op # "none"
    BY <1>2, <1>6, InvFacts DEF Turns, AtWork
  <2>2. \A q \in Client : pc'[q] = "unmap" => req'[q].op = "flush"
    BY <1>6, InvFacts DEF Turns
  <2>3. \A q \in Client : req'[q] = req[q] \/ req'[q].op = "none"
    BY <1>3, <1>6
  <2> QED
    BY <1>4, <2>1, <2>2, <2>3, InvFacts DEF Turns, Serving
<1>13. Tickets'
  <2>1. \A q \in Client : req'[q].op \in ByFile => req'[q] = req[q]
    BY <1>3, <1>6 DEF ByFile
  <2>2. \A q \in Client : req'[q].op \in ByFile => Ticket(req'[q].id, req'[q].open)
    BY <2>1, InvFacts DEF Tickets
  <2>3. \A q \in Client : req'[q].op \in ByFile => Ticket(req[q].id, req[q].open)'
    BY <1>1, <2>2 DEF Ticket, IdOf
  <2>4. copy' # NULL => Ticket(copy.id, copy.open)'
    BY <1>1, InvFacts DEF Ticket, IdOf, Tickets
  <2>5. \A q \in Client : AtWork(q)' /\ req'[q].op \in ByFile =>
          AtWork(q) /\ req'[q] = req[q] /\ fd'[q] = fd[q]
    <3> SUFFICES ASSUME NEW q \in Client, AtWork(q)', req'[q].op \in ByFile
                 PROVE  AtWork(q) /\ req'[q] = req[q] /\ fd'[q] = fd[q]
      OBVIOUS
    <3>1. CASE q = c
      <4>1. req[c].op = "flush"
        BY <1>6, <3>1 DEF AtWork
      <4> QED
        BY <1>1, <1>2, <1>7, <2>1, <3>1, <4>1 DEF AtWork
    <3>2. CASE q # c
      BY <1>6, <3>2 DEF AtWork
    <3> QED
      BY <3>1, <3>2
  <2>6. \A q \in Client : AtWork(q)' /\ req'[q].op \in ByFile /\ req'[q].n # NULL =>
          fd'[q][req'[q].n] # NULL /\ req'[q].id = opentab[fd'[q][req'[q].n]].id
    BY <2>5, InvFacts DEF Tickets
  <2> QED
    BY <1>1, <2>3, <2>4, <2>6 DEF Tickets
<1>14. Moved'
  BY <1>1, <1>4, InvFacts DEF Moved
<1> QED
  BY <1>9, <1>10, <1>11, <1>12, <1>13, <1>14 DEF FsInv

-----------------------------------------------------------------------------
(* The invariant is inductive, and says that clients are isolated.         *)

LEMMA StepKeeps ==
  ASSUME FsInv, Next
  PROVE  FsInv'
<1>1. CASE Serve
  BY <1>1, PlainKeeps, OpenKeeps, MoveKeeps, AdvanceKeeps, ReplyKeeps DEF Serve
<1>2. ASSUME NEW c \in Client, ClientStep(c) PROVE FsInv'
  BY <1>2, RequestKeeps, SendKeeps, ReceiveKeeps, UnmapKeeps, SeekKeeps, DupKeeps, ForkKeeps, DieKeeps
     DEF ClientStep
<1> QED
  BY <1>1, <1>2 DEF Next

LEMMA StutterKeeps ==
  ASSUME FsInv, UNCHANGED vars
  PROVE  FsInv'
<1>1. UNCHANGED <<size, opentab, fdpage, opens, srv, fd, given, copy, pc, req, got>>
  BY DEF vars, table, descriptors
<1>2. Types' /\ Numbers' /\ Holders' /\ Turns' /\ Moved'
  BY <1>1, InvFacts DEF Types, Numbers, IdOf, Granting, Wants, Holders, InUse, Turns, AtWork, Serving, Moved
<1>3. Tickets'
  BY <1>1, InvFacts DEF Tickets, Ticket, IdOf, AtWork
<1> QED
  BY <1>2, <1>3 DEF FsInv

\* The invariant holds throughout.
THEOREM FsInvIsAlways == Spec => []FsInv
<1>1. FsInv /\ [Next]_vars => FsInv'
  BY StepKeeps, StutterKeeps
<1> QED
  BY <1>1, InvHoldsAtStart, PTL DEF Spec

LEMMA InvIsolates ==
  ASSUME FsInv
  PROVE  ClientsAreIsolated
<1>1. TypeOK
  <2>1. \A slot \in Slot : opentab[slot].id \in 0..(MAXOPEN * (MaxOpens + 1))
    <3> SUFFICES ASSUME NEW slot \in Slot PROVE opentab[slot].id \in 0..(MAXOPEN * (MaxOpens + 1))
      OBVIOUS
    <3>1. opens \in Nat /\ opens <= MaxOpens /\ MaxOpens \in Nat /\ MAXOPEN \in Nat \ {0} /\ slot < MAXOPEN
          /\ slot \in Nat
      BY InvFacts, Constants DEF Types
    <3>2. PICK k \in 0..opens : opentab[slot].id = MAXOPEN * k + slot
      BY InvFacts DEF Numbers, IdOf
    <3>3. k \in Nat /\ k <= MaxOpens
      BY <3>1
    <3>4. MAXOPEN * k \in Nat /\ MAXOPEN * k <= MAXOPEN * MaxOpens
      BY <3>1, <3>3, Monotone, Multiples
    <3>5. MAXOPEN * MaxOpens \in Nat /\ MAXOPEN * (MaxOpens + 1) = MAXOPEN * MaxOpens + MAXOPEN
      BY <3>1, Multiples
    <3> QED
      BY <3>1, <3>2, <3>4, <3>5
  <2>2. 0 \in 0..(MAXOPEN * (MaxOpens + 1))
    <3>1. MAXOPEN * (MaxOpens + 1) \in Nat
      BY Constants, Multiples
    <3> QED
      BY <3>1
  <2>3. \A slot \in Slot : fdpage[slot].id \in 0..(MAXOPEN * (MaxOpens + 1))
    BY <2>1, <2>2, InvFacts DEF Numbers
  <2> DEFINE Ids == 0..(MAXOPEN * (MaxOpens + 1))
  <2>4. (\A slot \in Slot : opentab[slot].id \in Ids) /\ (\A slot \in Slot : fdpage[slot].id \in Ids)
    BY <2>1, <2>3
  <2> HIDE DEF Ids
  <2>5. opentab \in [Slot -> [used : {0, 1}, id : Ids, file : File \cup {NULL}, open : 0..MaxOpens]]
    BY <2>4, InvFacts DEF Types
  <2>6. fdpage \in [Slot -> [id : Ids, mode : Mode \cup {"O_RDONLY"}, offset : 0..(FileBlocks+1)]]
    BY <2>4, InvFacts DEF Types
  <2>7. srv.pc \in {"top", "receiving", "handle", "advance", "reply", "monitor"}
    BY InvFacts DEF Types, Server
  <2>8. srv.pc \in {"handle", "advance", "reply"} => srv.whom \in Client
    BY InvFacts DEF Turns, Serving
  <2> QED
    BY <2>5, <2>6, <2>7, <2>8, InvFacts DEF Types, TypeOK, Ids
<1>2. OpenIsMine
  BY InvFacts DEF OpenIsMine, Opened, Holders, InUse
<1>3. StaleNeverServed
  <2> SUFFICES ASSUME srv.pc \in {"handle", "advance"}, Asked.op \in ByFile, Found(Asked.id)
               PROVE  opentab[SlotOf(Asked.id)].open = Asked.open
    BY DEF StaleNeverServed
  <2> QED
    BY FoundFacts DEF Serving, Asked
<1>4. OwnRequestsServed
  <2> SUFFICES ASSUME srv.pc = "handle", Asked.op \in ByFile, Asked.n # NULL, pc[srv.whom] # "dead"
               PROVE  Found(Asked.id)
    BY DEF OwnRequestsServed
  <2> DEFINE c == srv.whom
  <2>1. c \in Client /\ AtWork(c)
    BY InvFacts DEF Turns, Serving, AtWork
  <2>2. Asked.n \in FdNum
    BY <2>1, InvFacts, TypeFacts DEF Asked
  <2>3. fd[c][Asked.n] # NULL /\ Asked.id = opentab[fd[c][Asked.n]].id
    BY <2>1, InvFacts DEF Tickets, Asked
  <2> QED
    BY <2>1, <2>2, <2>3, FoundIs
<1>5. PanicExplained
  BY InvFacts DEF PanicExplained, Turns
<1> QED
  BY <1>1, <1>2, <1>3, <1>4, <1>5 DEF ClientsAreIsolated

\* Whatever the clients do to the descriptors they share, and whoever is killed, a
\* client keeps the files it has opened and gets nobody else's (openfile_alloc and
\* openfile_lookup of fs/serv.c, by the references to the Fd pages).
THEOREM ClientsStayIsolated == Spec => []ClientsAreIsolated
<1>1. FsInv => ClientsAreIsolated
  BY InvIsolates
<1> QED
  BY <1>1, FsInvIsAlways, PTL

\* Clients that share an open file never get one block twice, unless one of them seeks
\* (serve_read and serve_write advance the offset in the shared Fd page).
THEOREM BlocksMoveOnce == Spec => NoBlockTwice
<1> DEFINE Fresh == srv.pc = "handle" /\ srv'.pc = "advance" => Position \notin got[AskedSlot]
<1>1. FsInv /\ [Next]_vars => [Fresh]_vars
  <2> SUFFICES ASSUME FsInv, Next, srv.pc = "handle", srv'.pc = "advance"
               PROVE  Position \notin got[AskedSlot]
    BY DEF Fresh
  <2>0. srv \in Server
    BY InvFacts DEF Types
  <2>1. Asked.op \in ByFile
    <3>1. \A page : ~Answer(page)
      BY <2>0 DEF Answer, Server
    <3>2. srv' # srv /\ srv'.pc # "handle"
      OBVIOUS
    <3>3. ~ServeRecv /\ ~ServeOpen /\ ~ServeUnknown /\ ~Advance /\ ~ServeSetSize /\ ~ServeQuiet /\ ~Reply /\ ~ReplyFails
      BY <3>1 DEF ServeRecv, ServeOpen, ServeUnknown, Advance, ServeSetSize, ServeQuiet, Reply, ReplyFails
    <3>4. \A c \in Client : ~ClientStep(c)
      BY <3>2 DEF ClientStep, OpenFile, UseFile, Close, SyncAll, ReadStale, Fsipc, Send, Receive, Unmap, Seek,
                  Dup, Fork, Die
    <3>5. ServeRead \/ ServeWrite
      BY <3>3, <3>4 DEF Next, Serve
    <3> QED
      BY <3>5 DEF ServeRead, ServeWrite, Serves, Handles, ByFile
  <2>2. AskedSlot \in Slot /\ Position \in 0..(FileBlocks+1)
    BY <2>1, AskedFacts DEF Serving
  <2>3. \A b \in got[AskedSlot] : b < Position
    BY <2>2, InvFacts DEF Moved, Position
  <2>4. ~(Position < Position)
    BY <2>2, Constants
  <2> QED
    BY <2>3, <2>4
<1>2. NoBlockTwice <=> [][Fresh]_vars
  BY PTL DEF NoBlockTwice
<1> QED
  BY <1>1, <1>2, FsInvIsAlways, PTL DEF Spec
=============================================================================
