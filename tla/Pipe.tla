-------------------------------- MODULE Pipe --------------------------------
(***************************************************************************)
(* One pipe of lib/pipe.c, shared by processes that read, write, dup,      *)
(* close, fork and die: the ring buffer in the shared data page, and the   *)
(* way an end finds out that the other is closed, by comparing the         *)
(* reference counts of the Fd page and of the data page.                   *)
(*                                                                         *)
(* All of this is user code.  Each system call is one step, and so is each *)
(* access to the shared page and each call of pageref(); other processes   *)
(* run between any two steps.  A call of read() or write() moves one byte; *)
(* a longer one is a sequence of them.  Calls that fail for lack of memory *)
(* or descriptors are left out.                                            *)
(***************************************************************************)
EXTENDS Naturals, FiniteSets

CONSTANTS
  Proc,       \* environments that may ever hold the pipe
  Creator,    \* the one that called pipe()
  MAXFD,      \* descriptors per process
  PIPEBUFSIZ, \* bytes in p_buf
  MaxBytes,   \* a bound on the bytes ever written
  Smp,        \* do environments run on several CPUs?
  NULL        \* nothing

FdNum == 0..(MAXFD-1)
End == {"r", "w"}

ASSUME PipeAssumption ==
  /\ IsFiniteSet(Proc) /\ Creator \in Proc
  /\ MAXFD \in Nat /\ MAXFD >= 2
  /\ PIPEBUFSIZ \in Nat \ {0} /\ MaxBytes \in Nat
  /\ Smp \in BOOLEAN
  /\ NULL \notin Proc /\ NULL \notin FdNum /\ NULL \notin End

VARIABLES
  fd,     \* process -> descriptor -> the end whose Fd page is mapped, or NULL
  data,   \* process -> descriptor -> is the pipe's data page mapped?
  pc,     \* process -> where its program is
  arg,    \* process -> descriptor the call in progress works on
  aux,    \* process -> what the call keeps: a source or child, a count, a byte
  runs,   \* process -> did its env_runs change since _pipeisclosed read it?
  told,   \* process -> the ends for which it was told that the other is closed
  rpos, wpos, buf  \* the pipe; buf holds the position of each byte in the stream

procs == <<pc, arg, aux, told>>
pipe == <<rpos, wpos, buf>>
vars == <<fd, data, procs, runs, pipe>>

-----------------------------------------------------------------------------
Other(end) == IF end = "r" THEN "w" ELSE "r"

\* pageref of an Fd page, and of the data page.
Fds(end) == {x \in Proc \X FdNum : fd[x[1]][x[2]] = end}
FdRef(end) == Cardinality(Fds(end))
DataRef == Cardinality({x \in Proc \X FdNum : data[x[1]][x[2]]})

Preempts_Never(p) == runs' = [runs EXCEPT ![p] = FALSE]

\* A step of p on a single CPU means that every other process was descheduled
\* and will run with a higher env_runs; with several CPUs it means nothing.
Preempts(p) ==
  runs' = [q \in Proc |-> q # p /\ (runs[q] \/ (~Smp /\ pc[q] = "compare"))]

\* p goes on at place with the given descriptor and note.
GoTo(p, place, i, note) ==
  /\ pc' = [pc EXCEPT ![p] = place]
  /\ arg' = [arg EXCEPT ![p] = i]
  /\ aux' = [aux EXCEPT ![p] = note]
  /\ UNCHANGED told
  /\ Preempts(p)

Return(p) == GoTo(p, "idle", NULL, NULL)

\* sys_page_map and sys_page_unmap on p's Fd page and data page of descriptor i.
MapFd(p, i, end) == fd' = [fd EXCEPT ![p][i] = end]
MapData(p, i, there) == data' = [data EXCEPT ![p][i] = there]

-----------------------------------------------------------------------------
(* lib/fd.c and devpipe_close.                                             *)

\* close() unmaps the Fd page, then the data page.  With a source in from it is
\* the close at the start of dup(from, i).
CloseFd(p, i, from) ==
  /\ fd[p][i] # NULL
  /\ MapFd(p, i, NULL) /\ UNCHANGED <<data, pipe>>
  /\ GoTo(p, "unmap data", i, from)

CloseData(p) ==
  /\ pc[p] = "unmap data"
  /\ MapData(p, arg[p], FALSE) /\ UNCHANGED <<fd, pipe>>
  /\ IF aux[p] = NULL THEN Return(p) ELSE GoTo(p, "dup data", arg[p], aux[p])

Close(p) == pc[p] = "idle" /\ \E i \in FdNum : CloseFd(p, i, NULL)

Dup(p) ==
  /\ pc[p] = "idle"
  /\ \E old, new \in FdNum :
       /\ old # new /\ fd[p][old] # NULL
       /\ \/ CloseFd(p, new, old)
          \/ /\ fd[p][new] = NULL
             /\ GoTo(p, "dup data", new, old) /\ UNCHANGED <<fd, data, pipe>>

DupData_Skipped(p) ==
  /\ pc[p] = "dup data"
  /\ GoTo(p, "dup fd", arg[p], aux[p])
  /\ UNCHANGED <<fd, data, pipe>>

\* dup maps the data page first: an Fd page without it could pass for the last.
DupData(p) ==
  /\ pc[p] = "dup data"
  /\ MapData(p, arg[p], data[p][aux[p]]) /\ UNCHANGED <<fd, pipe>>
  /\ GoTo(p, "dup fd", arg[p], aux[p])

DupFd(p) ==
  /\ pc[p] = "dup fd"
  /\ MapFd(p, arg[p], fd[p][aux[p]]) /\ UNCHANGED <<data, pipe>>
  /\ Return(p)

-----------------------------------------------------------------------------
(* lib/fork.c: duppage shares a PTE_SHARE page with the child.  The pages  *)
(* go over in the order of their addresses: the Fd pages, then the data    *)
(* pages; arg counts them.                                                 *)

Fork(p) ==
  /\ pc[p] = "idle"
  /\ \E q \in Proc :
       /\ pc[q] = "none"
       /\ pc' = [pc EXCEPT ![p] = "fork", ![q] = "embryo"]
       /\ aux' = [aux EXCEPT ![p] = q]
  /\ arg' = [arg EXCEPT ![p] = 0]
  /\ Preempts(p)
  /\ UNCHANGED <<fd, data, told, pipe>>

ForkPage(p) ==
  /\ pc[p] = "fork" /\ arg[p] < 2 * MAXFD
  /\ LET i == arg[p] % MAXFD
         q == aux[p]
     IN  IF arg[p] < MAXFD
         THEN fd' = [fd EXCEPT ![q][i] = fd[p][i]] /\ UNCHANGED data
         ELSE data' = [data EXCEPT ![q][i] = data[p][i]] /\ UNCHANGED fd
  /\ GoTo(p, "fork", arg[p] + 1, aux[p])
  /\ UNCHANGED pipe

ForkDone(p) ==
  /\ pc[p] = "fork" /\ arg[p] = 2 * MAXFD
  /\ pc' = [pc EXCEPT ![p] = "idle", ![aux[p]] = "idle"]
  /\ arg' = [arg EXCEPT ![p] = NULL]
  /\ aux' = [aux EXCEPT ![p] = NULL]
  /\ Preempts(p)
  /\ UNCHANGED <<fd, data, told, pipe>>

\* env_free unmaps everything at once.  A child whose parent dies inside fork()
\* is never started, and keeps what it has been given.
Die(p) ==
  /\ pc[p] \notin {"none", "embryo", "dead"}
  /\ fd' = [fd EXCEPT ![p] = [i \in FdNum |-> NULL]]
  /\ data' = [data EXCEPT ![p] = [i \in FdNum |-> FALSE]]
  /\ GoTo(p, "dead", NULL, NULL) /\ UNCHANGED pipe

-----------------------------------------------------------------------------
(* lib/pipe.c.                                                             *)

\* Programs keep to one reader and one writer at a time.
Using(p) == pc[p] \in {"test", "check", "compare", "take", "put"}
Alone(p, end) == \A q \in Proc \ {p} : Using(q) => fd[q][arg[q]] # end

\* devpipe_read or devpipe_write on descriptor i.
Begin(p) ==
  /\ pc[p] = "idle"
  /\ \E i \in FdNum :
       /\ fd[p][i] # NULL /\ Alone(p, fd[p][i])
       /\ fd[p][i] = "w" => wpos < MaxBytes
       /\ GoTo(p, "test", i, NULL)
  /\ UNCHANGED <<fd, data, pipe>>

MyEnd(p) == fd[p][arg[p]]
MustWait_OneMore(end) == IF end = "r" THEN rpos = wpos ELSE wpos > rpos + PIPEBUFSIZ
MustWait(end) == IF end = "r" THEN rpos = wpos ELSE wpos >= rpos + PIPEBUFSIZ

\* The test of the while loop: wait, or move the byte.
Test(p) ==
  /\ pc[p] = "test"
  /\ UNCHANGED <<fd, data, rpos, wpos>>
  /\ \/ MustWait(MyEnd(p)) /\ GoTo(p, "check", arg[p], NULL) /\ UNCHANGED buf
     \/ /\ ~MustWait("r") /\ MyEnd(p) = "r"
        /\ GoTo(p, "take", arg[p], buf[rpos % PIPEBUFSIZ]) /\ UNCHANGED buf
     \/ /\ ~MustWait("w") /\ MyEnd(p) = "w"
        /\ buf' = [buf EXCEPT ![wpos % PIPEBUFSIZ] = wpos]
        /\ GoTo(p, "put", arg[p], NULL)

Take(p) ==
  /\ pc[p] = "take" /\ rpos' = rpos + 1
  /\ Return(p) /\ UNCHANGED <<fd, data, wpos, buf>>

Put(p) ==
  /\ pc[p] = "put" /\ wpos' = wpos + 1
  /\ Return(p) /\ UNCHANGED <<fd, data, rpos, buf>>

\* pipeisclosed() on descriptor i.
Probe(p) ==
  /\ pc[p] = "idle"
  /\ \E i \in FdNum : fd[p][i] # NULL /\ GoTo(p, "probe", i, NULL)
  /\ UNCHANGED <<fd, data, pipe>>

\* _pipeisclosed reads env_runs and one of the two counts; C leaves open which.
Ref(p, which) == IF which = "fd" THEN FdRef(MyEnd(p)) ELSE DataRef
Check(p) ==
  /\ pc[p] \in {"check", "probe"}
  /\ \E which \in {"fd", "data"} :
       GoTo(p, "compare", arg[p], [for |-> pc[p], first |-> which, count |-> Ref(p, which)])
  /\ UNCHANGED <<fd, data, pipe>>

\* The second count and env_runs again.  If the environment was descheduled in
\* between it starts over; otherwise it returns what it saw.
Compare(p) ==
  /\ pc[p] = "compare"
  /\ LET second == IF aux[p].first = "fd" THEN "data" ELSE "fd"
         closed == aux[p].count = Ref(p, second)
     IN  \/ runs[p] /\ GoTo(p, aux[p].for, arg[p], NULL)
         \/ /\ ~runs[p] /\ ~closed
            /\ IF aux[p].for = "probe" THEN Return(p) ELSE GoTo(p, "test", arg[p], NULL)
         \/ /\ ~runs[p] /\ closed
            /\ pc' = [pc EXCEPT ![p] = "idle"]
            /\ arg' = [arg EXCEPT ![p] = NULL]
            /\ aux' = [aux EXCEPT ![p] = NULL]
            /\ told' = [told EXCEPT ![p] = @ \cup {MyEnd(p)}]
            /\ Preempts(p)
  /\ UNCHANGED <<fd, data, pipe>>

-----------------------------------------------------------------------------
\* The creator after pipe(), which maps four pages before anyone else can look.
Init ==
  /\ fd = [p \in Proc |-> [i \in FdNum |->
             IF p = Creator /\ i = 0 THEN "r" ELSE IF p = Creator /\ i = 1 THEN "w" ELSE NULL]]
  /\ data = [p \in Proc |-> [i \in FdNum |-> p = Creator /\ i \in {0, 1}]]
  /\ pc = [p \in Proc |-> IF p = Creator THEN "idle" ELSE "none"]
  /\ arg = [p \in Proc |-> NULL] /\ aux = [p \in Proc |-> NULL]
  /\ runs = [p \in Proc |-> FALSE]
  /\ told = [p \in Proc |-> {}]
  /\ rpos = 0 /\ wpos = 0 /\ buf = [k \in 0..(PIPEBUFSIZ-1) |-> 0]

Next == \E p \in Proc :
  \/ Close(p) \/ CloseData(p) \/ Dup(p) \/ DupData(p) \/ DupFd(p)
  \/ Fork(p) \/ ForkPage(p) \/ ForkDone(p) \/ Die(p)
  \/ Begin(p) \/ Test(p) \/ Take(p) \/ Put(p) \/ Probe(p) \/ Check(p) \/ Compare(p)

Spec == Init /\ [][Next]_vars

-----------------------------------------------------------------------------
(* Properties.                                                             *)

\* The positions stay in step with the buffer, and a process works on a
\* descriptor that it has.
TypeOK ==
  /\ fd \in [Proc -> [FdNum -> End \cup {NULL}]]
  /\ data \in [Proc -> [FdNum -> BOOLEAN]]
  /\ told \in [Proc -> SUBSET End] /\ runs \in [Proc -> BOOLEAN]
  /\ rpos \in 0..wpos /\ wpos \in rpos..(rpos + PIPEBUFSIZ)
  /\ \A p \in Proc : Using(p) => MyEnd(p) \in End

\* A process is told that the other end is closed only if no process has it open
\* any more, not even inside dup() or fork(): no end of file, and no failed write,
\* while somebody could still write or read.  So it is for a parent and its child
\* on one CPU; with Smp, or a third process that forks, the counts can be equal
\* while the other end is open.
ClosedIsClosed == \A p \in Proc : \A end \in told[p] : Fds(Other(end)) = {}

\* The reason: dup maps the data page first and close unmaps it last, so that its
\* count is at least the sum of the two others.  Only fork works the other way.
DataOutlivesFd ==
  (\A p \in Proc : pc[p] # "embryo") => DataRef >= FdRef("r") + FdRef("w")

\* Bytes between the positions are intact and the byte taken is the next one:
\* nothing is overwritten before it is read, skipped or read before it is stored.
\* The type invariant is part of it.
InOrder ==
  /\ TypeOK
  /\ \A k \in rpos..(wpos-1) : buf[k % PIPEBUFSIZ] = k
  /\ \A p \in Proc : pc[p] = "take" => aux[p] = rpos

\* A reader is told end of file only when it has read all that was written:
\* devpipe_read looks at the buffer first and asks for the writers afterwards.
EofAfterLastByte ==
  [][\A p \in Proc :
       pc[p] = "compare" /\ MyEnd(p) = "r" /\ aux[p].for = "check" /\ pc'[p] = "idle" =>
         rpos = wpos]_vars
=============================================================================
