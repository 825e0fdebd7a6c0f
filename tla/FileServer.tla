----------------------------- MODULE FileServer -----------------------------
(***************************************************************************)
(* The file server of fs/serv.c and its clients: open(), read(), write()   *)
(* and close() of lib/fd.c and lib/file.c, carried by the messages of      *)
(* lib/ipc.c.                                                              *)
(*                                                                         *)
(* Everything is user code: clients and the server interleave between any  *)
(* two system calls, and a client can be killed between any two.  What     *)
(* fs/fs.c does to blocks is in FsDisk; of a file there is only the size   *)
(* here, in blocks, and a call moves one block.                            *)
(***************************************************************************)
EXTENDS Naturals, FiniteSets

CONSTANTS
  Client,     \* environments that use files
  First,      \* the one that runs at the start; it forks the others
  File,       \* files that may come to exist
  Mode, Flags, \* the access modes and the sets of flags that programs ask for
  MAXFD,      \* descriptors of an environment
  MAXOPEN,    \* slots of opentab
  SeekTo,     \* offsets that seek() is called with
  TruncTo,    \* sizes that ftruncate() is called with
  FileBlocks, \* blocks a file can have, NDIRECT + NINDIRECT
  MaxOpens,   \* a bound on the files opened and the requests to open one
  Killed,     \* the clients that may be destroyed whatever they are doing
  NULL

FdNum == 0..(MAXFD-1)
Slot == 0..(MAXOPEN-1)
Offset == 0..FileBlocks
\* f_size may say more blocks than a file can have, see ServeWrite.
Size == 0..(FileBlocks+2)

ASSUME FileServerAssumption ==
  /\ IsFiniteSet(Client) /\ First \in Client
  /\ {MAXFD, MAXOPEN, FileBlocks, MaxOpens} \subseteq Nat \ {0}
  /\ SeekTo \subseteq Offset /\ TruncTo \subseteq Size
  /\ Mode \subseteq {"O_RDONLY", "O_WRONLY", "O_RDWR"}
  /\ Flags \subseteq SUBSET {"O_CREAT", "O_EXCL", "O_TRUNC"}
  /\ Killed \subseteq Client
  /\ NULL \notin Client /\ NULL \notin File /\ NULL \notin Nat /\ NULL \notin [id : Nat, open : Nat]


VARIABLES
  size,    \* file -> its size, or NULL for a file that does not exist
  opentab, \* slot -> used (its page is allocated), o_fileid, o_file, and which open()
           \* it is for (history)
  fdpage,  \* slot -> id, omode and offset in the Fd page of the slot
  srv,     \* the server: where it is, whose request it has and the Fd page
           \* it answers with
  fd,      \* client -> descriptor -> the slot whose Fd page is mapped, or NULL
  given,   \* client -> descriptor -> which open() it came from (history)
  pc, req, \* client -> where it is, and what it asks for
  copy,    \* a copy that a client kept of an Fd it closed: its id, and which open()
  opens,   \* how many slots were handed out
  got      \* slot -> the blocks moved through it since the last seek (history)

table == <<opentab, fdpage, opens>>
descriptors == <<fd, given, copy>>
vars == <<size, table, srv, descriptors, pc, req, got>>

-----------------------------------------------------------------------------
(* Pages: every open file has an Fd page, which the server and the clients *)
(* that hold the file map.                                                 *)

Mappings(slot) == {x \in Client \X FdNum : fd[x[1]][x[2]] = slot}
\* The server keeps a page it has once allocated.
PageRef(slot) == opentab[slot].used + Cardinality(Mappings(slot))

Map(c, n, slot, open) ==
  /\ fd' = [fd EXCEPT ![c][n] = slot]
  /\ given' = [given EXCEPT ![c][n] = open]

Lowest(S) == CHOOSE i \in S : \A j \in S : i <= j
Unused(c) == {n \in FdNum : fd[c][n] = NULL}
Opened(c, n) == fd[c][n] # NULL
ModeOf(c, n) == fdpage[fd[c][n]].mode

Goto(c, place) == pc' = [pc EXCEPT ![c] = place]

-----------------------------------------------------------------------------
(* lib/file.c.  The request is written into fsipcbuf and sent with the     *)
(* page.                                                                   *)

Ask(op, id, open, n, arg) ==
  [op |-> op, id |-> id, open |-> open, n |-> n, arg |-> arg,
   file |-> NULL, mode |-> NULL, flags |-> {}]
NoRequest == Ask("none", 0, 0, NULL, 0)

Fsipc(c, r) ==
  /\ pc[c] = "idle" /\ Goto(c, "send")
  /\ req' = [req EXCEPT ![c] = r]
  /\ UNCHANGED <<size, table, srv, got>>

\* A request about the file of descriptor n.
About(c, op, n, arg) == Ask(op, fdpage[fd[c][n]].id, given[c][n], n, arg)

\* open(): fd_alloc finds the lowest descriptor without a page.  (MaxOpens bounds the
\* run.)
OpenFile(c) ==
  /\ Unused(c) # {} /\ UNCHANGED descriptors
  /\ opens + Cardinality({q \in Client : req[q].op = "open"}) < MaxOpens
  /\ \E f \in File, mode \in Mode, flags \in Flags :
       Fsipc(c, [op |-> "open", id |-> 0, open |-> 0, n |-> Lowest(Unused(c)), arg |-> 0,
                 file |-> f, mode |-> mode, flags |-> flags])

\* read(), write(), ftruncate() and fstat(): what the mode forbids is not asked.
Allowed(c, n, op) ==
  /\ Opened(c, n)
  /\ op = "read" => ModeOf(c, n) # "O_WRONLY"
  /\ op \in {"write", "set_size"} => ModeOf(c, n) # "O_RDONLY"

UseFile(c) ==
  /\ UNCHANGED descriptors
  /\ \E n \in FdNum :
       \/ \E op \in {"read", "write", "stat"} : Allowed(c, n, op) /\ Fsipc(c, About(c, op, n, 0))
       \/ \E to \in TruncTo : Allowed(c, n, "set_size") /\ Fsipc(c, About(c, "set_size", n, to))

Close_UnmapFirst(c) ==
  \E n \in FdNum :
    Opened(c, n) /\ Map(c, n, NULL, 0) /\ UNCHANGED copy /\ Fsipc(c, About(c, "flush", n, 0))

\* close(): the file is flushed, then the page is unmapped (Unmap below).
Close(c) ==
  /\ UNCHANGED descriptors
  /\ \E n \in FdNum : Opened(c, n) /\ Fsipc(c, About(c, "flush", n, 0))

SyncAll(c) ==
  /\ Fsipc(c, Ask("sync", 0, 0, NULL, 0)) /\ UNCHANGED descriptors

\* A read through a copy of an Fd that was closed, as user/testfile.c does.
ReadStale(c) ==
  /\ copy # NULL /\ UNCHANGED descriptors
  /\ Fsipc(c, Ask("read", copy.id, copy.open, NULL, 0))

\* ipc_send() to the server tries again while the server is not receiving.
Send(c) ==
  /\ pc[c] = "send" /\ srv.pc = "receiving"
  /\ srv' = [srv EXCEPT !.pc = "handle", !.whom = c] /\ Goto(c, "sent")
  /\ UNCHANGED <<size, table, descriptors, req, got>>

\* ipc_recv() of the answer.
Receive(c) ==
  /\ pc[c] = "sent" /\ Goto(c, "waiting")
  /\ UNCHANGED <<size, table, srv, descriptors, req, got>>

\* The second half of close(); the program may keep what was in the Fd.
Unmap(c) ==
  /\ pc[c] = "unmap" /\ Goto(c, "idle")
  /\ Map(c, req[c].n, NULL, 0)
  /\ copy' \in {copy, [id |-> req[c].id, open |-> req[c].open]}
  /\ req' = [req EXCEPT ![c] = NoRequest]
  /\ UNCHANGED <<size, table, srv, got>>

-----------------------------------------------------------------------------
(* What programs do with descriptors without asking the server.            *)

\* seek() writes into the page that the server and other clients share.
Seek(c) ==
  /\ pc[c] = "idle"
  /\ \E n \in FdNum, offset \in SeekTo :
       /\ Opened(c, n)
       /\ fdpage' = [fdpage EXCEPT ![fd[c][n]].offset = offset]
       /\ got' = [got EXCEPT ![fd[c][n]] = {}]
  /\ UNCHANGED <<size, opentab, opens, srv, descriptors, pc, req>>

\* dup() to a descriptor that is not open; otherwise a close() comes first.
Dup(c) ==
  /\ pc[c] = "idle"
  /\ \E old, new \in FdNum :
       Opened(c, old) /\ ~Opened(c, new) /\ Map(c, new, fd[c][old], given[c][old])
  /\ UNCHANGED <<size, table, srv, copy, pc, req, got>>

\* fork(): Fd pages are PTE_SHARE.
Fork(c) ==
  /\ pc[c] = "idle"
  /\ \E q \in Client :
       /\ pc[q] = "none" /\ Goto(q, "idle")
       /\ fd' = [fd EXCEPT ![q] = fd[c]]
       /\ given' = [given EXCEPT ![q] = given[c]]
  /\ UNCHANGED <<size, table, srv, copy, req, got>>

\* sys_env_destroy: exit() between requests, or a kill at any time.  The
\* server keeps the page of the request it is at.
Die(c) ==
  /\ pc[c] = "idle" \/ (c \in Killed /\ pc[c] \notin {"none", "dead"})
  /\ Goto(c, "dead")
  /\ fd' = [fd EXCEPT ![c] = [n \in FdNum |-> NULL]]
  /\ given' = [given EXCEPT ![c] = [n \in FdNum |-> 0]]
  /\ req' = IF srv.whom = c THEN req ELSE [req EXCEPT ![c] = NoRequest]
  /\ UNCHANGED <<size, table, srv, copy, got>>

-----------------------------------------------------------------------------
(* fs/serv.c.                                                              *)

\* The top of the loop: fsreq is unmapped and the server receives.
ServeRecv ==
  /\ srv.pc = "top"
  /\ srv' = [srv EXCEPT !.pc = "receiving", !.whom = NULL, !.page = NULL]
  /\ UNCHANGED <<size, table, descriptors, pc, req, got>>

Asked == req[srv.whom]
Handles(op) == srv.pc = "handle" /\ Asked.op = op
\* Handlers return a number or an error, which only the Fd page tells apart here.
Answer(page) == srv' = [srv EXCEPT !.pc = "reply", !.page = page]

FreeSlots_Two == {slot \in Slot : PageRef(slot) <= 2}

\* openfile_alloc(): the first slot that no client maps is given a new id and its page
\* is cleared.  serve_open fills in the file and the page when the file is there.
FreeSlots == {slot \in Slot : PageRef(slot) <= 1}
NewId_Same(slot) == opentab[slot].id

NewId(slot) == opentab[slot].id + MAXOPEN
ClearFd == [id |-> 0, mode |-> "O_RDONLY", offset |-> 0]

OpenfileAlloc(slot, file, page) ==
  /\ opens' = opens + 1
  /\ opentab' = [opentab EXCEPT ![slot] =
                   [used |-> 1, id |-> NewId(slot), file |-> file, open |-> opens + 1]]
  /\ fdpage' = [fdpage EXCEPT ![slot] = page]
  /\ got' = [got EXCEPT ![slot] = {}]

\* Whether file_create and file_open, as serve_open calls them, find the file.
CanOpen(r) ==
  IF size[r.file] = NULL THEN "O_CREAT" \in r.flags ELSE ~({"O_CREAT", "O_EXCL"} \subseteq r.flags)

ServeOpen ==
  /\ Handles("open") /\ UNCHANGED <<descriptors, pc, req>>
  /\ \/ FreeSlots = {} /\ Answer(NULL) /\ UNCHANGED <<size, table, got>>
     \/ /\ FreeSlots # {}
        /\ LET slot == Lowest(FreeSlots)
           IN  \/ /\ ~CanOpen(Asked)
                  /\ OpenfileAlloc(slot, opentab[slot].file, ClearFd)
                  /\ Answer(NULL) /\ UNCHANGED size
               \/ /\ CanOpen(Asked)
                  /\ OpenfileAlloc(slot, Asked.file,
                       [id |-> NewId(slot), mode |-> Asked.mode, offset |-> 0])
                  /\ size' = IF size[Asked.file] = NULL \/ "O_TRUNC" \in Asked.flags
                             THEN [size EXCEPT ![Asked.file] = 0] ELSE size
                  /\ Answer(slot)

\* openfile_lookup().
ByFile == {"read", "write", "set_size", "stat", "flush"}
SlotOf(id) == id % MAXOPEN
Found(id) == PageRef(SlotOf(id)) > 1 /\ opentab[SlotOf(id)].id = id

ServeUnknown_Drops ==
  /\ \E op \in ByFile : Handles(op)
  /\ ~Found(Asked.id) /\ srv' = [srv EXCEPT !.pc = "top"]
  /\ UNCHANGED <<size, table, descriptors, pc, req, got>>

ServeUnknown ==
  /\ \E op \in ByFile : Handles(op)
  /\ ~Found(Asked.id) /\ Answer(NULL)
  /\ UNCHANGED <<size, table, descriptors, pc, req, got>>

Serves(op) == Handles(op) /\ Found(Asked.id) /\ UNCHANGED <<opens, descriptors, pc, req>>
AskedSlot == SlotOf(Asked.id)
AskedFile == opentab[AskedSlot].file
Position == fdpage[AskedSlot].offset

\* The block at the offset was moved; the offset is advanced in a later step, and a
\* client that shares the page may seek in between.
Move == /\ srv' = [srv EXCEPT !.pc = "advance"]
        /\ got' = [got EXCEPT ![AskedSlot] = @ \cup {Position}]

ServeRead_PastEnd == Serves("read") /\ UNCHANGED <<size, opentab, fdpage>> /\ Move

\* file_read() past the size reads nothing, and past the last block fails.
ServeRead ==
  /\ Serves("read") /\ UNCHANGED <<size, opentab, fdpage>>
  /\ \/ Position < size[AskedFile] /\ Position < FileBlocks /\ Move
     \/ Position >= size[AskedFile] /\ Answer(NULL) /\ UNCHANGED got
     \/ Position < size[AskedFile] /\ Position >= FileBlocks /\ Answer(NULL) /\ UNCHANGED got

\* file_write() sets the size before it finds that there is no such block.
ServeWrite ==
  /\ Serves("write") /\ UNCHANGED <<opentab, fdpage>>
  /\ size' = [size EXCEPT ![AskedFile] = IF Position >= @ THEN Position + 1 ELSE @]
  /\ \/ Position < FileBlocks /\ Move
     \/ Position >= FileBlocks /\ Answer(NULL) /\ UNCHANGED got

Advance_Not ==
  /\ srv.pc = "advance" /\ Answer(NULL)
  /\ UNCHANGED <<size, table, descriptors, pc, req, got>>

Advance ==
  /\ srv.pc = "advance" /\ Answer(NULL)
  /\ fdpage' = [fdpage EXCEPT ![AskedSlot].offset = @ + 1]
  /\ UNCHANGED <<size, opentab, opens, descriptors, pc, req, got>>

ServeSetSize ==
  /\ Serves("set_size") /\ Answer(NULL)
  /\ size' = [size EXCEPT ![AskedFile] = Asked.arg]
  /\ UNCHANGED <<opentab, fdpage, got>>

\* stat, flush and sync change nothing here; FsDisk has what a flush writes.
ServeQuiet ==
  /\ \/ Serves("stat") \/ Serves("flush")
     \/ Handles("sync") /\ UNCHANGED <<opens, descriptors, pc, req>>
  /\ Answer(NULL) /\ UNCHANGED <<size, opentab, fdpage, got>>

\* ipc_send() of the answer to a client that waits for it, with the Fd page that
\* open() asked for.
Reply ==
  /\ srv.pc = "reply" /\ pc[srv.whom] = "waiting"
  /\ srv' = [srv EXCEPT !.pc = "top"]
  /\ Goto(srv.whom, IF Asked.op = "flush" THEN "unmap" ELSE "idle")
  /\ IF srv.page = NULL THEN UNCHANGED <<fd, given>>
     ELSE Map(srv.whom, Asked.n, srv.page, opentab[srv.page].open)
  /\ req' = IF Asked.op = "flush" THEN req ELSE [req EXCEPT ![srv.whom] = NoRequest]
  /\ UNCHANGED <<size, table, copy, got>>

ReplyFails_Early ==
  /\ srv.pc = "reply" /\ pc[srv.whom] \in {"sent", "dead"}
  /\ srv' = [srv EXCEPT !.pc = "monitor"]
  /\ UNCHANGED <<size, table, descriptors, pc, req, got>>

\* The client is not there any more: -E_BAD_ENV, and ipc_send() panics.
ReplyFails ==
  /\ srv.pc = "reply" /\ pc[srv.whom] = "dead"
  /\ srv' = [srv EXCEPT !.pc = "monitor"]
  /\ UNCHANGED <<size, table, descriptors, pc, req, got>>

-----------------------------------------------------------------------------
\* serve_init().
Init ==
  /\ size = [f \in File |-> NULL]
  /\ opentab = [slot \in Slot |-> [used |-> 0, id |-> slot, file |-> NULL, open |-> 0]]
  /\ fdpage = [slot \in Slot |-> ClearFd]
  /\ srv = [pc |-> "top", whom |-> NULL, page |-> NULL]
  /\ fd = [c \in Client |-> [n \in FdNum |-> NULL]]
  /\ given = [c \in Client |-> [n \in FdNum |-> 0]]
  /\ pc = [c \in Client |-> IF c = First THEN "idle" ELSE "none"]
  /\ req = [c \in Client |-> NoRequest]
  /\ copy = NULL
  /\ opens = 0
  /\ got = [slot \in Slot |-> {}]

Serve == \/ ServeRecv \/ ServeOpen \/ ServeUnknown \/ ServeRead \/ ServeWrite \/ Advance
         \/ ServeSetSize \/ ServeQuiet \/ Reply \/ ReplyFails

ClientStep(c) ==
  \/ OpenFile(c) \/ UseFile(c) \/ Close(c) \/ SyncAll(c) \/ ReadStale(c)
  \/ Send(c) \/ Receive(c) \/ Unmap(c) \/ Seek(c) \/ Dup(c) \/ Fork(c) \/ Die(c)

\* In the monitor everything stands still.
Next == srv.pc # "monitor" /\ (Serve \/ \E c \in Client : ClientStep(c))

Spec == Init /\ [][Next]_vars

\* The scheduler gives every environment its turn, the server as well.
Fairness ==
  /\ WF_vars(srv.pc # "monitor" /\ Serve)
  /\ \A c \in Client : WF_vars(srv.pc # "monitor" /\ Receive(c))
FairSpec == Spec /\ Fairness

-----------------------------------------------------------------------------
(* Properties.                                                             *)

TypeOK ==
  /\ size \in [File -> Size \cup {NULL}]
  /\ opentab \in [Slot -> [used : {0, 1}, id : 0..(MAXOPEN * (MaxOpens + 1)),
                           file : File \cup {NULL}, open : 0..MaxOpens]]
  /\ fdpage \in [Slot -> [id : 0..(MAXOPEN * (MaxOpens + 1)),
                          mode : Mode \cup {"O_RDONLY"}, offset : 0..(FileBlocks+1)]]
  /\ srv.pc \in {"top", "receiving", "handle", "advance", "reply", "monitor"}
  /\ srv.pc \in {"handle", "advance", "reply"} => srv.whom \in Client
  /\ fd \in [Client -> [FdNum -> Slot \cup {NULL}]]
  /\ given \in [Client -> [FdNum -> 0..MaxOpens]]
  /\ pc \in [Client -> {"none", "idle", "send", "sent", "waiting", "unmap", "dead"}]
  /\ opens \in 0..MaxOpens

\* Reusing a slot never takes it from under a client: as long as a client maps the Fd
\* page, by open, dup or fork, the slot is still of the open() it came from, and the
\* Fd carries the id of the slot (serv.c:68-82 against the pagerefs).
OpenIsMine ==
  \A c \in Client, n \in FdNum :
    Opened(c, n) =>
      LET slot == fd[c][n]
      IN  opentab[slot].open = given[c][n] /\ fdpage[slot].id = opentab[slot].id

\* An id kept after the last close never reaches the next file in the same slot: a
\* request that is served is for the open() its id was given out by.
StaleNeverServed ==
  srv.pc \in {"handle", "advance"} /\ Asked.op \in ByFile /\ Found(Asked.id) =>
    opentab[SlotOf(Asked.id)].open = Asked.open

\* A live client that asks about one of its descriptors is never refused, the flush of
\* a close included, whatever the others that share the file do meanwhile.
OwnRequestsServed ==
  srv.pc = "handle" /\ Asked.op \in ByFile /\ Asked.n # NULL /\ pc[srv.whom] # "dead" =>
    Found(Asked.id)

\* The server stops the machine, by a panic that ends in the kernel's monitor, only
\* over a client that died between its request and the answer.
PanicExplained ==
  srv.pc = "monitor" => srv.whom \in Killed /\ pc[srv.whom] = "dead"

\* What the run checks of every state: a client keeps the files it has opened, and gets
\* nobody else's.  The parts are explained above.
ClientsAreIsolated ==
  TypeOK /\ OpenIsMine /\ StaleNeverServed /\ OwnRequestsServed /\ PanicExplained

\* Without a seek, no block is moved twice through one open file: two clients that
\* share it each get what the other did not.
NoBlockTwice ==
  [][srv.pc = "handle" /\ srv'.pc = "advance" => Position \notin got[AskedSlot]]_vars

\* A request that reached the server is answered, unless the client or the machine
\* goes.
RequestAnswered ==
  \A c \in Client :
    pc[c] \in {"sent", "waiting"} ~>
      (pc[c] \in {"idle", "unmap", "dead"} \/ srv.pc = "monitor")

=============================================================================
