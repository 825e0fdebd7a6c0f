----------------------------- MODULE PipeProofs -----------------------------
(***************************************************************************)
(* Proofs about Pipe, for any number of processes and descriptors and a    *)
(* buffer of any size.                                                     *)
(*                                                                         *)
(* A step of one process leaves the others alone, except for a child that  *)
(* is still being built (lemma StepFrame).  So what is said of a process   *)
(* one at a time, Local, needs a look only at the process that moves, and  *)
(* the proofs concentrate on what relates two of them: a reader and a      *)
(* writer at the two positions, a parent and its child.                    *)
(***************************************************************************)
EXTENDS Pipe, FiniteSetTheorems, TLAPS

Place == {"none", "embryo", "idle", "dead", "fork", "dup data", "dup fd", "unmap data",
          "probe", "test", "check", "compare", "take", "put"}
FirstCount == [for : {"check", "probe"}, first : {"fd", "data"}, count : Nat]
Note == FdNum \cup {NULL} \cup Proc \cup Nat \cup FirstCount

Maps ==
  /\ fd \in [Proc -> [FdNum -> End \cup {NULL}]]
  /\ data \in [Proc -> [FdNum -> BOOLEAN]]
Registers ==
  /\ pc \in [Proc -> Place]
  /\ arg \in [Proc -> Nat \cup {NULL}]
  /\ aux \in [Proc -> Note]
  /\ runs \in [Proc -> BOOLEAN]
  /\ told \in [Proc -> SUBSET End]
Ring ==
  /\ rpos \in Nat /\ wpos \in Nat /\ rpos <= wpos /\ wpos <= rpos + PIPEBUFSIZ
  /\ buf \in [0..(PIPEBUFSIZ-1) -> Nat]
Shape == Maps /\ Registers /\ Ring

\* What the registers of a process hold at each place of its program.
Local(p) ==
  /\ pc[p] \in {"dup data", "dup fd"} => arg[p] \in FdNum /\ aux[p] \in FdNum
  /\ pc[p] = "unmap data" => arg[p] \in FdNum /\ aux[p] \in FdNum \cup {NULL}
  /\ pc[p] = "compare" => aux[p] \in FirstCount
  /\ pc[p] = "fork" => arg[p] \in 0..(2 * MAXFD) /\ aux[p] \in Proc
  /\ Using(p) \/ pc[p] = "probe" => arg[p] \in FdNum /\ MyEnd(p) \in End

\* A child is built by one parent.
Parents ==
  /\ \A p \in Proc : pc[p] = "fork" => pc[aux[p]] = "embryo"
  /\ \A p, q \in Proc : pc[p] = "fork" /\ pc[q] = "fork" /\ aux[p] = aux[q] => p = q

ControlInv == Shape /\ (\A p \in Proc : Local(p)) /\ Parents

\* p is inside read() or write(), not merely asking whether the pipe is closed.
Moving(p) ==
  \/ pc[p] \in {"test", "check", "take", "put"}
  \/ pc[p] = "compare" /\ aux[p].for = "check"

OnePerEnd ==
  \A p, q \in Proc : p # q /\ Moving(p) /\ Moving(q) => MyEnd(p) # MyEnd(q)

Window == \A k \in rpos..(wpos-1) : buf[k % PIPEBUFSIZ] = k

\* A reader about to move its position has the byte, and one is there; a writer
\* about to move its position has stored the byte, and there was room.
Taking(p) == pc[p] = "take" => MyEnd(p) = "r" /\ rpos < wpos /\ aux[p] = rpos
Putting(p) ==
  pc[p] = "put" =>
    MyEnd(p) = "w" /\ wpos < rpos + PIPEBUFSIZ /\ buf[wpos % PIPEBUFSIZ] = wpos

StreamInv ==
  ControlInv /\ OnePerEnd /\ Window /\ (\A p \in Proc : Taking(p) /\ Putting(p))

\* dup and close keep a data page under every Fd page, and know which
\* descriptors they work on.
Backed(p) == pc[p] # "embryo" => \A i \in FdNum : fd[p][i] # NULL => data[p][i]
Calls(p) ==
  /\ pc[p] = "none" => \A i \in FdNum : fd[p][i] = NULL
  /\ pc[p] = "unmap data" => fd[p][arg[p]] = NULL
  /\ pc[p] \in {"unmap data", "dup data"} /\ aux[p] # NULL =>
       aux[p] # arg[p] /\ fd[p][aux[p]] # NULL
  /\ pc[p] = "dup fd" => data[p][arg[p]]

\* What fork() has copied so far.
Child(p) ==
  pc[p] = "fork" =>
    \A i \in FdNum :
      /\ fd[aux[p]][i] # NULL => fd[p][i] # NULL
      /\ i + MAXFD < arg[p] => data[aux[p]][i] = data[p][i]

PageInv == ControlInv /\ \A p \in Proc : Backed(p) /\ Calls(p) /\ Child(p)

\* With one CPU and no third process: a child that never ran had a parent that
\* died, and a count is fresh unless env_runs says otherwise.
ParentAndChild == ~Smp /\ \A x, y, z \in Proc : x = y \/ y = z \/ x = z
Orphans ==
  \A q \in Proc : pc[q] = "embryo" =>
    \E x \in Proc \ {q} : pc[x] = "dead" \/ (pc[x] = "fork" /\ aux[x] = q)
SameCount ==
  \A q \in Proc : pc[q] = "compare" /\ ~runs[q] => aux[q].count = Ref(q, aux[q].first)

ClosedInv == PageInv /\ Orphans /\ SameCount /\ ClosedIsClosed

Step(p) ==
  \/ Close(p) \/ CloseData(p) \/ Dup(p) \/ DupData(p) \/ DupFd(p)
  \/ Fork(p) \/ ForkPage(p) \/ ForkDone(p) \/ Die(p)
  \/ Begin(p) \/ Test(p) \/ Take(p) \/ Put(p) \/ Probe(p) \/ Check(p) \/ Compare(p)

-----------------------------------------------------------------------------
(* Arithmetic and counts.                                                  *)

\* Two positions less than a buffer apart have different places in it.
LEMMA PlacesDiffer ==
  ASSUME NEW k \in Nat, NEW n \in Nat, k < n, n < k + PIPEBUFSIZ
  PROVE  k % PIPEBUFSIZ # n % PIPEBUFSIZ
<1> DEFINE S == PIPEBUFSIZ
           a == k \div S
           b == n \div S
<1>1. S \in Nat \ {0}
  BY PipeAssumption
<1>2. /\ k = S * a + (k % S) /\ a \in Int /\ k % S \in Int
      /\ n = S * b + (n % S) /\ b \in Int /\ n % S \in Int
  BY <1>1
<1> HIDE DEF S, a, b
<1>3. CASE a = b
  BY <1>1, <1>2, <1>3 DEF S
<1>4. CASE a < b
  <2>1. S * b >= S * a + S /\ S * b \in Int /\ S * a \in Int
    BY <1>1, <1>2, <1>4
  <2> QED
    BY <1>1, <1>2, <2>1 DEF S
<1>5. CASE a > b
  <2>1. S * a >= S * b + S /\ S * b \in Int /\ S * a \in Int
    BY <1>1, <1>2, <1>5
  <2> QED
    BY <1>1, <1>2, <2>1 DEF S
<1> QED
  BY <1>2, <1>3, <1>4, <1>5

LEMMA PlaceType == ASSUME NEW k \in Nat PROVE k % PIPEBUFSIZ \in 0..(PIPEBUFSIZ-1)
  BY PipeAssumption

LEMMA PageType == ASSUME NEW k \in Nat PROVE k % MAXFD \in FdNum
  BY PipeAssumption DEF FdNum

\* Page counts are numbers.
LEMMA CountsType ==
  /\ \A end : IsFiniteSet(Fds(end)) /\ FdRef(end) \in Nat
  /\ IsFiniteSet({x \in Proc \X FdNum : data[x[1]][x[2]]}) /\ DataRef \in Nat
<1>1. IsFiniteSet(FdNum)
  BY FS_Interval, PipeAssumption DEF FdNum
<1>2. IsFiniteSet(Proc \X FdNum)
  BY <1>1, FS_Product, PipeAssumption
<1>3. ASSUME NEW S \in SUBSET (Proc \X FdNum)
      PROVE  IsFiniteSet(S) /\ Cardinality(S) \in Nat
  BY <1>2, FS_Subset, FS_CardinalityType
<1>4. \A end : Fds(end) \in SUBSET (Proc \X FdNum)
  BY DEF Fds
<1> QED
  BY <1>3, <1>4 DEF FdRef, DataRef

-----------------------------------------------------------------------------
(* What one step does.                                                     *)

\* A step of p leaves the registers and mappings of every other process alone,
\* unless that one is a child being built.
LEMMA StepFrame ==
  ASSUME ControlInv, NEW p \in Proc, Step(p), NEW q \in Proc, q # p
  PROVE  /\ told'[q] = told[q]
         /\ pc[q] \notin {"none", "embryo"} =>
              /\ pc'[q] = pc[q] /\ arg'[q] = arg[q] /\ aux'[q] = aux[q]
              /\ fd'[q] = fd[q] /\ data'[q] = data[q]
         /\ pc[q] \in {"none", "embryo"} => pc'[q] \in {"none", "embryo", "idle"}
<1> USE DEF ControlInv, Shape, Maps, Registers
<1>1. CASE Close(p) \/ Dup(p)
  BY <1>1 DEF Close, Dup, CloseFd, GoTo, MapFd
<1>2. CASE CloseData(p) \/ DupData(p) \/ DupFd(p)
  BY <1>2 DEF CloseData, DupData, DupFd, GoTo, Return, MapFd, MapData
<1>3. CASE Fork(p)
  BY <1>3 DEF Fork
<1>4. CASE ForkPage(p)
  BY <1>4 DEF ForkPage, GoTo, Parents
<1>5. CASE ForkDone(p)
  BY <1>5 DEF ForkDone, Parents
<1>6. CASE Die(p)
  BY <1>6 DEF Die, GoTo
<1>7. CASE Begin(p) \/ Probe(p) \/ Check(p) \/ Take(p) \/ Put(p)
  BY <1>7 DEF Begin, Probe, Check, Take, Put, GoTo, Return
<1>8. CASE Test(p)
  BY <1>8 DEF Test, GoTo
<1>9. CASE Compare(p)
  BY <1>9 DEF Compare, GoTo, Return
<1> QED
  BY <1>1, <1>2, <1>3, <1>4, <1>5, <1>6, <1>7, <1>8, <1>9 DEF Step

LEMMA GoToType ==
  ASSUME Registers, NEW p \in Proc, NEW place \in Place, NEW i \in Nat \cup {NULL},
         NEW note \in Note, GoTo(p, place, i, note)
  PROVE  Registers'
  BY DEF Registers, GoTo, Preempts

LEMMA ReturnType == ASSUME Registers, NEW p \in Proc, Return(p) PROVE Registers'
  BY GoToType DEF Return, Place, Note

LEMMA RegistersNext == ASSUME ControlInv, NEW p \in Proc, Step(p), Ring PROVE Registers'
<1> USE DEF ControlInv, Shape
<1>1. FdNum \subseteq Nat /\ FdNum \cup {NULL} \cup Proc \cup Nat \subseteq Note
  BY DEF FdNum, Note
<1>2. CASE Close(p) \/ Dup(p)
  <2>1. PICK i \in FdNum, place \in Place, note \in FdNum \cup {NULL} : GoTo(p, place, i, note)
    BY <1>2 DEF Close, Dup, CloseFd, Place
  <2> QED
    BY <1>1, <2>1, GoToType
<1>3. CASE CloseData(p)
  BY <1>1, <1>3, GoToType, ReturnType DEF CloseData, Local, Place
<1>4. CASE DupData(p) \/ DupFd(p)
  BY <1>1, <1>4, GoToType, ReturnType DEF DupData, DupFd, Local, Place
<1>5. CASE Fork(p)
  BY <1>1, <1>5 DEF Fork, Registers, Preempts, Place
<1>6. CASE ForkPage(p)
  <2>1. arg[p] + 1 \in Nat /\ aux[p] \in Note /\ "fork" \in Place
    <3>1. arg[p] \in 0..(2 * MAXFD) /\ aux[p] \in Proc
      BY <1>6 DEF ForkPage, Local
    <3>2. arg[p] + 1 \in Nat
      BY <3>1, PipeAssumption
    <3> QED
      BY <1>1, <3>1, <3>2 DEF Place
  <2> QED
    BY <1>6, <2>1, GoToType DEF ForkPage
<1>7. CASE ForkDone(p)
  BY <1>1, <1>7 DEF ForkDone, Registers, Preempts, Place
<1>8. CASE Die(p)
  BY <1>1, <1>8, GoToType DEF Die, Place
<1>9. CASE Begin(p) \/ Probe(p)
  <2>1. PICK i \in FdNum, place \in Place : GoTo(p, place, i, NULL)
    BY <1>9 DEF Begin, Probe, Place
  <2> QED
    BY <1>1, <2>1, GoToType
<1>10. CASE Check(p)
  <2>1. PICK which \in {"fd", "data"} :
          GoTo(p, "compare", arg[p],
               [for |-> pc[p], first |-> which, count |-> Ref(p, which)])
    BY <1>10 DEF Check
  <2>2. Ref(p, which) \in Nat /\ pc[p] \in {"check", "probe"} /\ arg[p] \in FdNum
    BY <1>10, CountsType DEF Check, Ref, Local, Using
  <2>3. [for |-> pc[p], first |-> which, count |-> Ref(p, which)] \in Note
    BY <2>2 DEF Note, FirstCount
  <2> QED
    BY <1>1, <2>1, <2>2, <2>3, GoToType DEF Place
<1>11. CASE Compare(p)
  <2>1. arg[p] \in FdNum /\ MyEnd(p) \in End /\ aux[p].for \in Place
    BY <1>11 DEF Compare, Local, Using, FirstCount, Place
  <2>2. CASE GoTo(p, aux[p].for, arg[p], NULL) \/ Return(p) \/ GoTo(p, "test", arg[p], NULL)
    BY <1>1, <2>1, <2>2, GoToType, ReturnType DEF Place
  <2>3. CASE /\ pc' = [pc EXCEPT ![p] = "idle"]
             /\ arg' = [arg EXCEPT ![p] = NULL]
             /\ aux' = [aux EXCEPT ![p] = NULL]
             /\ told' = [told EXCEPT ![p] = @ \cup {MyEnd(p)}]
             /\ Preempts(p)
    BY <1>1, <2>1, <2>3 DEF Place, Registers, Preempts
  <2> QED
    BY <1>11, <2>2, <2>3 DEF Compare
<1>12. CASE Test(p)
  <2>1. arg[p] \in FdNum /\ (~MustWait("r") => buf[rpos % PIPEBUFSIZ] \in Nat)
    BY <1>12, PlaceType DEF Test, Local, Using, Ring
  <2> QED
    BY <1>1, <1>12, <2>1, GoToType DEF Test, Place
<1>13. CASE Take(p) \/ Put(p)
  BY <1>13, ReturnType DEF Take, Put
<1> QED
  BY <1>2, <1>3, <1>4, <1>5, <1>6, <1>7, <1>8, <1>9, <1>10, <1>11, <1>12, <1>13 DEF Step

LEMMA Except2 ==
  ASSUME NEW S, NEW T, NEW V, NEW f \in [S -> [T -> V]], NEW x \in S, NEW y \in T, NEW v \in V
  PROVE  [f EXCEPT ![x][y] = v] \in [S -> [T -> V]]
  OBVIOUS

LEMMA MapsNext == ASSUME ControlInv, NEW p \in Proc, Step(p) PROVE Maps'
<1> USE DEF ControlInv, Shape, Maps
<1>1. CASE Close(p) \/ Dup(p)
  <2>1. CASE UNCHANGED <<fd, data>>
    BY <2>1
  <2>2. CASE \E i \in FdNum : MapFd(p, i, NULL) /\ UNCHANGED data
    BY <2>2, Except2 DEF MapFd
  <2> QED
    BY <1>1, <2>1, <2>2 DEF Close, Dup, CloseFd
<1>2. CASE CloseData(p) \/ DupData(p)
  <2>1. arg[p] \in FdNum /\ (DupData(p) => aux[p] \in FdNum)
    BY <1>2 DEF CloseData, DupData, Local
  <2>2. PICK there \in BOOLEAN : MapData(p, arg[p], there) /\ UNCHANGED fd
    BY <1>2, <2>1 DEF CloseData, DupData
  <2> QED
    BY <2>1, <2>2, Except2 DEF MapData
<1>3. CASE DupFd(p)
  <2>1. arg[p] \in FdNum /\ aux[p] \in FdNum
    BY <1>3 DEF DupFd, Local
  <2>2. fd[p][aux[p]] \in End \cup {NULL} /\ MapFd(p, arg[p], fd[p][aux[p]]) /\ UNCHANGED data
    BY <1>3, <2>1 DEF DupFd
  <2> QED
    BY <2>1, <2>2, Except2 DEF MapFd
<1>4. CASE ForkPage(p)
  <2> DEFINE i == arg[p] % MAXFD
             q == aux[p]
  <2>1. i \in FdNum /\ q \in Proc
    <3>1. arg[p] \in 0..(2 * MAXFD) /\ aux[p] \in Proc
      BY <1>4 DEF ForkPage, Local
    <3> QED
      BY <3>1, PageType, PipeAssumption
  <2>2. \/ fd' = [fd EXCEPT ![q][i] = fd[p][i]] /\ UNCHANGED data
        \/ data' = [data EXCEPT ![q][i] = data[p][i]] /\ UNCHANGED fd
    BY <1>4 DEF ForkPage
  <2>3. fd[p][i] \in End \cup {NULL} /\ data[p][i] \in BOOLEAN
    BY <2>1
  <2> HIDE DEF i, q
  <2>4. [fd EXCEPT ![q][i] = fd[p][i]] \in [Proc -> [FdNum -> End \cup {NULL}]]
    BY <2>1, <2>3, Except2
  <2>5. [data EXCEPT ![q][i] = data[p][i]] \in [Proc -> [FdNum -> BOOLEAN]]
    BY <2>1, <2>3, Except2
  <2> QED
    BY <2>2, <2>4, <2>5
<1>5. CASE Die(p)
  BY <1>5 DEF Die
<1>6. CASE UNCHANGED <<fd, data>>
  BY <1>6
<1> QED
  BY <1>1, <1>2, <1>3, <1>4, <1>5, <1>6
     DEF Step, Fork, ForkDone, Begin, Test, Take, Put, Probe, Check, Compare

\* Where GoTo takes p.
LEMMA GoToAt ==
  ASSUME Registers, NEW p \in Proc, NEW place, NEW i, NEW note, GoTo(p, place, i, note)
  PROVE  pc'[p] = place /\ arg'[p] = i /\ aux'[p] = note
  BY DEF Registers, GoTo

LEMMA LocalAtRest ==
  ASSUME NEW p \in Proc, pc'[p] \in {"none", "embryo", "idle", "dead"} PROVE Local(p)'
  BY DEF Local, Using

LEMMA LocalMover == ASSUME ControlInv, NEW p \in Proc, Step(p), Maps', Registers' PROVE Local(p)'
<1>0. /\ MyEnd(p)' = fd'[p][arg'[p]]
      /\ Using(p)' <=> pc'[p] \in {"test", "check", "compare", "take", "put"}
  BY DEF MyEnd, Using
<1>r. Registers /\ Local(p)
  BY DEF ControlInv, Shape
<1>1. CASE Close(p)
  BY <1>0, <1>1, <1>r, GoToAt DEF Close, CloseFd, Local
<1>2. CASE Dup(p)
  <2>1. PICK old \in FdNum, new \in FdNum, place \in {"unmap data", "dup data"} :
          GoTo(p, place, new, old)
    BY <1>2 DEF Dup, CloseFd
  <2> QED
    BY <1>0, <1>r, <2>1, GoToAt DEF Local
<1>3. CASE CloseData(p)
  <2>1. arg[p] \in FdNum /\ aux[p] \in FdNum \cup {NULL}
    BY <1>r, <1>3 DEF CloseData, Local
  <2>2. CASE Return(p)
    BY <1>r, <2>2, GoToAt, LocalAtRest DEF Return
  <2>3. CASE aux[p] # NULL /\ GoTo(p, "dup data", arg[p], aux[p])
    <3>1. aux[p] \in FdNum
      BY <2>1, <2>3
    <3>2. pc'[p] = "dup data" /\ arg'[p] = arg[p] /\ aux'[p] = aux[p]
      BY <1>r, <2>3, GoToAt
    <3> QED
      BY <1>0, <2>1, <3>1, <3>2 DEF Local
  <2> QED
    BY <1>3, <2>2, <2>3 DEF CloseData
<1>4. CASE DupData(p)
  <2>1. arg[p] \in FdNum /\ aux[p] \in FdNum /\ GoTo(p, "dup fd", arg[p], aux[p])
    BY <1>r, <1>4 DEF DupData, Local
  <2> QED
    BY <1>0, <1>r, <2>1, GoToAt DEF Local
<1>5. CASE DupFd(p) \/ Take(p) \/ Put(p)
  BY <1>5, <1>r, GoToAt, LocalAtRest DEF DupFd, Take, Put, Return
<1>6. CASE Fork(p)
  <2>1. pc'[p] = "fork" /\ arg'[p] = 0 /\ aux'[p] \in Proc
    BY <1>6, <1>r DEF Fork, Registers
  <2>2. 0 \in 0..(2 * MAXFD)
    BY PipeAssumption
  <2> QED
    BY <1>0, <2>1, <2>2 DEF Local
<1>7. CASE ForkPage(p)
  <2>1. arg[p] \in 0..(2 * MAXFD) /\ aux[p] \in Proc /\ arg[p] < 2 * MAXFD
    BY <1>r, <1>7 DEF ForkPage, Local
  <2>2. arg[p] + 1 \in 0..(2 * MAXFD)
    BY <2>1, PipeAssumption
  <2>3. GoTo(p, "fork", arg[p] + 1, aux[p])
    BY <1>7 DEF ForkPage
  <2> QED
    BY <1>0, <1>r, <2>1, <2>2, <2>3, GoToAt DEF Local
<1>8. CASE ForkDone(p)
  BY <1>8, <1>r, LocalAtRest DEF ForkDone, Local, Registers
<1>9. CASE Die(p)
  BY <1>9, <1>r, GoToAt, LocalAtRest DEF Die
<1>10. CASE Begin(p) \/ Probe(p)
  <2>1. PICK i \in FdNum, place \in {"test", "probe"} :
          fd[p][i] # NULL /\ GoTo(p, place, i, NULL) /\ UNCHANGED fd
    BY <1>10 DEF Begin, Probe
  <2>2. fd[p][i] \in End
    BY <2>1 DEF Maps
  <2> QED
    BY <1>0, <1>r, <2>1, <2>2, GoToAt DEF Local
<1>11. CASE Check(p)
  <2>1. PICK which \in {"fd", "data"} :
          GoTo(p, "compare", arg[p],
               [for |-> pc[p], first |-> which, count |-> Ref(p, which)])
    BY <1>11 DEF Check
  <2>2. /\ Ref(p, which) \in Nat /\ pc[p] \in {"check", "probe"} /\ arg[p] \in FdNum
        /\ fd[p][arg[p]] \in End /\ UNCHANGED fd
    BY <1>r, <1>11, CountsType DEF Check, Ref, Local, Using, MyEnd
  <2>3. [for |-> pc[p], first |-> which, count |-> Ref(p, which)] \in FirstCount
    BY <2>2 DEF FirstCount
  <2> QED
    BY <1>0, <1>r, <2>1, <2>2, <2>3, GoToAt DEF Local
<1>12. CASE Compare(p)
  <2>1. /\ arg[p] \in FdNum /\ fd[p][arg[p]] \in End /\ UNCHANGED fd
        /\ aux[p].for \in {"check", "probe"}
    BY <1>r, <1>12 DEF Compare, Local, Using, FirstCount, MyEnd
  <2>2. CASE GoTo(p, aux[p].for, arg[p], NULL) \/ Return(p) \/ GoTo(p, "test", arg[p], NULL)
    <3>1. CASE GoTo(p, aux[p].for, arg[p], NULL)
      <4>1. pc'[p] \in {"check", "probe"} /\ arg'[p] = arg[p]
        BY <1>r, <2>1, <3>1, GoToAt
      <4> QED
        BY <1>0, <2>1, <4>1 DEF Local
    <3>2. CASE Return(p)
      BY <1>r, <3>2, GoToAt, LocalAtRest DEF Return
    <3>3. CASE GoTo(p, "test", arg[p], NULL)
      <4>1. pc'[p] = "test" /\ arg'[p] = arg[p]
        BY <1>r, <3>3, GoToAt
      <4> QED
        BY <1>0, <2>1, <4>1 DEF Local
    <3> QED
      BY <2>2, <3>1, <3>2, <3>3
  <2>3. CASE pc' = [pc EXCEPT ![p] = "idle"]
    BY <1>r, <2>3, LocalAtRest DEF Registers
  <2> QED
    BY <1>12, <2>2, <2>3 DEF Compare
<1>13. CASE Test(p)
  <2>1. arg[p] \in FdNum /\ fd[p][arg[p]] \in End /\ UNCHANGED fd
    BY <1>r, <1>13 DEF Test, Local, Using, MyEnd
  <2>2. PICK place \in {"check", "take", "put"} : \E note : GoTo(p, place, arg[p], note)
    BY <1>13 DEF Test
  <2> QED
    BY <1>0, <1>r, <2>1, <2>2, GoToAt DEF Local
<1> QED
  BY <1>1, <1>2, <1>3, <1>4, <1>5, <1>6, <1>7, <1>8, <1>9, <1>10, <1>11, <1>12, <1>13 DEF Step

LEMMA LocalNext ==
  ASSUME ControlInv, NEW p \in Proc, Step(p), Maps', Registers', NEW q \in Proc
  PROVE  Local(q)'
<1>1. CASE q = p
  BY <1>1, LocalMover
<1>2. CASE q # p /\ pc[q] \in {"none", "embryo"}
  <2>1. pc'[q] \in {"none", "embryo", "idle"}
    BY <1>2, StepFrame
  <2> QED
    BY <2>1 DEF Local, Using
<1>3. CASE q # p /\ pc[q] \notin {"none", "embryo"}
  <2>1. pc'[q] = pc[q] /\ arg'[q] = arg[q] /\ aux'[q] = aux[q] /\ fd'[q] = fd[q]
    BY <1>3, StepFrame
  <2> QED
    BY <2>1 DEF ControlInv, Local, Using, MyEnd
<1> QED
  BY <1>1, <1>2, <1>3

\* Only fork() makes a process a parent, of a process nobody else is building.
LEMMA ParentsNext ==
  ASSUME ControlInv, NEW p \in Proc, Step(p), Maps', Registers'
  PROVE  Parents'
<1> USE DEF ControlInv, Shape, Registers
<1>1. \A q \in Proc : Local(q) /\ Local(q)'
  BY LocalNext
<1>2. CASE Fork(p)
  <2>1. PICK c \in Proc : /\ pc[c] = "none"
                          /\ pc' = [pc EXCEPT ![p] = "fork", ![c] = "embryo"]
                          /\ aux' = [aux EXCEPT ![p] = c]
    BY <1>2 DEF Fork
  <2>2. pc[p] = "idle"
    BY <1>2 DEF Fork
  <2>3. ASSUME NEW q \in Proc, pc'[q] = "fork"
        PROVE  /\ pc'[aux'[q]] = "embryo"
               /\ q # p => pc[q] = "fork" /\ aux'[q] = aux[q] /\ aux[q] # c
               /\ q = p => aux'[q] = c
    <3>1. CASE q = p
      BY <2>1, <2>3, <3>1
    <3>2. CASE q # p
      <4>1. pc[q] = "fork" /\ aux'[q] = aux[q]
        BY <2>1, <2>3, <3>2
      <4>2. aux[q] \in Proc /\ pc[aux[q]] = "embryo"
        BY <1>1, <4>1 DEF Parents, Local
      <4>3. pc'[aux[q]] = "embryo"
        BY <2>1, <2>2, <4>2
      <4> QED
        BY <2>1, <3>2, <4>1, <4>2, <4>3
    <3> QED
      BY <3>1, <3>2
  <2> QED
    BY <2>3 DEF Parents
<1>3. CASE ForkDone(p)
  <2>1. ASSUME NEW q \in Proc, pc'[q] = "fork"
        PROVE  pc[q] = "fork" /\ aux'[q] = aux[q] /\ pc'[aux'[q]] = "embryo"
    <3>1. pc[p] = "fork" /\ pc' = [pc EXCEPT ![p] = "idle", ![aux[p]] = "idle"]
          /\ aux' = [aux EXCEPT ![p] = NULL]
      BY <1>3 DEF ForkDone
    <3>2. q # p /\ pc[q] = "fork" /\ aux'[q] = aux[q]
      BY <2>1, <3>1
    <3>3. aux[q] \in Proc /\ pc[aux[q]] = "embryo" /\ aux[q] # aux[p]
      BY <1>1, <3>1, <3>2 DEF Parents, Local
    <3> QED
      BY <3>1, <3>2, <3>3
  <2> QED
    BY <2>1 DEF Parents
<1>4. CASE ~Fork(p) /\ ~ForkDone(p)
  <2>1. ASSUME NEW q \in Proc
        PROVE  /\ pc[q] = "embryo" => pc'[q] = "embryo"
               /\ pc'[q] = "fork" => pc[q] = "fork" /\ aux'[q] = aux[q]
    <3>0. pc[p] # "embryo"
      BY <1>4 DEF Step, Close, CloseData, Dup, DupData, DupFd, ForkPage, Die, Begin, Test,
         Take, Put, Probe, Check, Compare
    <3>1. pc'[p] = "fork" => pc[p] = "fork" /\ aux'[p] = aux[p]
      <4>1. CASE Close(p) \/ CloseData(p) \/ Dup(p) \/ DupData(p) \/ DupFd(p) \/ ForkPage(p) \/ Die(p)
        BY <4>1 DEF Close, CloseData, Dup, DupData, DupFd, ForkPage, Die, CloseFd, GoTo, Return
      <4>2. CASE Begin(p) \/ Test(p) \/ Take(p) \/ Put(p) \/ Probe(p) \/ Check(p)
        BY <4>2 DEF Begin, Test, Take, Put, Probe, Check, GoTo, Return
      <4>3. CASE Compare(p)
        <5>1. aux[p].for \in {"check", "probe"}
          BY <1>1, <4>3 DEF Compare, Local, FirstCount
        <5>2. pc'[p] \in {aux[p].for, "test", "idle"}
          BY <4>3 DEF Compare, GoTo, Return
        <5> QED
          BY <5>1, <5>2
      <4> QED
        BY <1>4, <4>1, <4>2, <4>3 DEF Step
    <3>2. q # p /\ pc[q] \in {"none", "embryo"} => pc'[q] = pc[q]
      BY <1>1, <1>4 DEF Step, Close, CloseData, Dup, DupData, DupFd, ForkPage, Die, Begin, Test,
         Take, Put, Probe, Check, Compare, CloseFd, GoTo, Return
    <3> QED
      BY <3>0, <3>1, <3>2, StepFrame
  <2>2. ASSUME NEW q \in Proc, pc'[q] = "fork"
        PROVE  pc[q] = "fork" /\ aux'[q] = aux[q] /\ pc'[aux'[q]] = "embryo"
    <3>1. pc[q] = "fork" /\ aux'[q] = aux[q]
      BY <2>1, <2>2
    <3>2. aux[q] \in Proc /\ pc[aux[q]] = "embryo"
      BY <1>1, <3>1 DEF Parents, Local
    <3> QED
      BY <2>1, <3>1, <3>2
  <2> QED
    BY <2>2 DEF Parents
<1> QED
  BY <1>2, <1>3, <1>4

-----------------------------------------------------------------------------
(* The stream.                                                             *)

LEMMA MovingFrame ==
  ASSUME ControlInv, NEW p \in Proc, Step(p), NEW q \in Proc, q # p, Moving(q)'
  PROVE  Moving(q) /\ MyEnd(q)' = MyEnd(q) /\ pc'[q] = pc[q] /\ aux'[q] = aux[q]
<1>1. pc'[q] \in {"test", "check", "take", "put", "compare"}
  BY DEF Moving
<1>2. pc'[q] = pc[q] /\ arg'[q] = arg[q] /\ aux'[q] = aux[q] /\ fd'[q] = fd[q]
  BY <1>1, StepFrame
<1> QED
  BY <1>2 DEF Moving, MyEnd

\* A process that starts to move bytes went through Begin, which found nobody
\* else at its end.
LEMMA MovingMover ==
  ASSUME ControlInv, NEW p \in Proc, Step(p), Moving(p)'
  PROVE  \/ Moving(p) /\ MyEnd(p)' = MyEnd(p) /\ (Test(p) \/ Check(p) \/ Compare(p))
         \/ /\ Begin(p) /\ pc'[p] = "test"
            /\ \A q \in Proc \ {p} : Using(q) => MyEnd(q) # MyEnd(p)'
<1>r. Registers /\ Local(p) /\ pc'[p] \in {"test", "check", "take", "put", "compare"}
  BY DEF ControlInv, Shape, Moving
<1>1. CASE Begin(p)
  <2>1. PICK i \in FdNum : Alone(p, fd[p][i]) /\ GoTo(p, "test", i, NULL) /\ UNCHANGED fd
    BY <1>1 DEF Begin
  <2>2. MyEnd(p)' = fd[p][i] /\ pc'[p] = "test"
    BY <1>r, <2>1, GoToAt DEF MyEnd
  <2> QED
    BY <1>1, <2>1, <2>2 DEF Alone, MyEnd
<1>2. CASE Test(p)
  <2>1. PICK place, note : GoTo(p, place, arg[p], note) /\ UNCHANGED fd /\ pc[p] = "test"
    BY <1>2 DEF Test
  <2> QED
    BY <1>2, <1>r, <2>1, GoToAt DEF Moving, MyEnd
<1>3. CASE Check(p)
  <2>1. PICK which \in {"fd", "data"} :
          GoTo(p, "compare", arg[p],
               [for |-> pc[p], first |-> which, count |-> Ref(p, which)])
    BY <1>3 DEF Check
  <2>2. aux'[p].for = pc[p] /\ pc'[p] = "compare" /\ arg'[p] = arg[p] /\ UNCHANGED fd
    BY <1>3, <1>r, <2>1, GoToAt DEF Check
  <2>3. pc[p] = "check"
    BY <2>2 DEF Moving
  <2> QED
    BY <1>3, <2>2, <2>3 DEF Moving, MyEnd
<1>4. CASE Compare(p)
  <2>1. pc[p] = "compare" /\ aux[p].for \in {"check", "probe"} /\ UNCHANGED fd
    BY <1>4, <1>r DEF Compare, Local, FirstCount
  <2>2. CASE GoTo(p, aux[p].for, arg[p], NULL)
    BY <1>4, <1>r, <2>1, <2>2, GoToAt DEF Moving, MyEnd
  <2>3. CASE aux[p].for # "probe" /\ GoTo(p, "test", arg[p], NULL)
    BY <1>4, <1>r, <2>1, <2>3, GoToAt DEF Moving, MyEnd
  <2>4. CASE Return(p)
    BY <1>r, <2>4, GoToAt DEF Return
  <2>5. CASE pc' = [pc EXCEPT ![p] = "idle"]
    BY <1>r, <2>5 DEF Registers
  <2> QED
    BY <1>4, <2>2, <2>3, <2>4, <2>5 DEF Compare
<1>5. CASE ForkDone(p) \/ Fork(p)
  <2>1. pc'[p] \in {"idle", "fork"}
    BY <1>5, <1>r DEF ForkDone, Fork, Registers, Local
  <2> QED
    BY <1>r, <2>1
<1>6. CASE \/ Close(p) \/ Dup(p) \/ DupData(p) \/ ForkPage(p) \/ Die(p) \/ Probe(p)
           \/ CloseData(p) \/ DupFd(p) \/ Take(p) \/ Put(p)
  <2>1. PICK place \in {"unmap data", "dup data", "dup fd", "idle", "fork", "dead", "probe"} :
          \E i, note : GoTo(p, place, i, note)
    BY <1>6 DEF Close, Dup, DupData, ForkPage, Die, Probe, CloseData, DupFd, Take, Put, CloseFd,
       Return
  <2> QED
    BY <1>r, <2>1, GoToAt
<1> QED
  BY <1>1, <1>2, <1>3, <1>4, <1>5, <1>6 DEF Step

LEMMA OnePerEndNext ==
  ASSUME ControlInv, OnePerEnd, NEW p \in Proc, Step(p) PROVE OnePerEnd'
<1> SUFFICES ASSUME NEW q \in Proc, q # p, Moving(p)', Moving(q)'
             PROVE  MyEnd(p)' # MyEnd(q)'
  <2>1. ASSUME NEW x \in Proc, NEW y \in Proc, x # p, y # p, x # y, Moving(x)', Moving(y)'
        PROVE  MyEnd(x)' # MyEnd(y)'
    BY <2>1, MovingFrame DEF OnePerEnd
  <2> QED
    BY <2>1 DEF OnePerEnd
<1>1. Moving(q) /\ MyEnd(q)' = MyEnd(q) /\ Using(q)
  BY MovingFrame DEF Moving, Using
<1> QED
  BY <1>1, MovingMover DEF OnePerEnd

\* A step that leaves the pipe alone and does not enter "take" or "put".
LEMMA StreamQuiet ==
  ASSUME StreamInv, NEW p \in Proc, Step(p), UNCHANGED pipe, pc'[p] \notin {"take", "put"}
  PROVE  Ring' /\ Window' /\ (\A q \in Proc : Taking(q)' /\ Putting(q)')
<1>1. ASSUME NEW q \in Proc, pc'[q] \in {"take", "put"}
      PROVE  pc'[q] = pc[q] /\ MyEnd(q)' = MyEnd(q) /\ aux'[q] = aux[q]
  BY <1>1, MovingFrame DEF StreamInv, Moving
<1> QED
  BY <1>1 DEF StreamInv, ControlInv, Shape, Ring, Window, Taking, Putting, pipe

LEMMA RingTest ==
  ASSUME StreamInv, NEW p \in Proc, Test(p)
  PROVE  Ring' /\ Window' /\ (\A q \in Proc : Taking(q)' /\ Putting(q)')
<1>r. Registers /\ Ring /\ Local(p) /\ Moving(p) /\ Step(p) /\ arg[p] \in FdNum
  BY DEF StreamInv, ControlInv, Shape, Test, Moving, Local, Using, Step
<1>u. UNCHANGED <<fd, rpos, wpos>>
  BY DEF Test
<1>1. CASE GoTo(p, "check", arg[p], NULL) /\ UNCHANGED buf
  BY <1>r, <1>u, <1>1, GoToAt, StreamQuiet DEF pipe
<1>2. CASE /\ ~MustWait("r") /\ MyEnd(p) = "r"
           /\ GoTo(p, "take", arg[p], buf[rpos % PIPEBUFSIZ]) /\ UNCHANGED buf
  <2>1. pc'[p] = "take" /\ MyEnd(p)' = "r" /\ aux'[p] = buf[rpos % PIPEBUFSIZ]
    BY <1>r, <1>u, <1>2, GoToAt DEF MyEnd
  <2>2. rpos < wpos /\ buf[rpos % PIPEBUFSIZ] = rpos
    <3>1. rpos # wpos /\ rpos <= wpos /\ rpos \in Nat /\ wpos \in Nat
      BY <1>r, <1>2 DEF MustWait, Ring
    <3>2. rpos \in rpos..(wpos-1)
      BY <3>1
    <3> QED
      BY <3>1, <3>2 DEF StreamInv, Window
  <2>3. ASSUME NEW q \in Proc, q # p, pc'[q] \in {"take", "put"}
        PROVE  pc'[q] = pc[q] /\ MyEnd(q)' = MyEnd(q) /\ aux'[q] = aux[q]
    BY <1>r, <2>3, MovingFrame DEF StreamInv, Moving
  <2>4. Ring' /\ Window'
    BY <1>r, <1>u, <1>2 DEF StreamInv, Ring, Window
  <2> QED
    BY <1>u, <1>2, <2>1, <2>2, <2>3, <2>4 DEF StreamInv, Taking, Putting
<1>3. CASE /\ ~MustWait("w") /\ MyEnd(p) = "w"
           /\ buf' = [buf EXCEPT ![wpos % PIPEBUFSIZ] = wpos]
           /\ GoTo(p, "put", arg[p], NULL)
  <2>1. pc'[p] = "put" /\ MyEnd(p)' = "w"
    BY <1>r, <1>u, <1>3, GoToAt DEF MyEnd
  <2>2. wpos < rpos + PIPEBUFSIZ
    BY <1>r, <1>3, PipeAssumption DEF MustWait, Ring
  <2>3. wpos % PIPEBUFSIZ \in 0..(PIPEBUFSIZ-1) /\ wpos \in Nat
    BY <1>r, PlaceType DEF Ring
  <2>4. Ring'
    BY <1>r, <1>u, <1>3, <2>3 DEF Ring
  <2>5. Window'
    <3> SUFFICES ASSUME NEW k \in rpos..(wpos-1) PROVE buf'[k % PIPEBUFSIZ] = k
      BY <1>u DEF Window
    <3>1. k \in Nat /\ k < wpos /\ wpos < k + PIPEBUFSIZ
      BY <1>r, <2>2, PipeAssumption DEF Ring
    <3>2. k % PIPEBUFSIZ # wpos % PIPEBUFSIZ /\ k % PIPEBUFSIZ \in 0..(PIPEBUFSIZ-1)
      BY <2>3, <3>1, PlacesDiffer, PlaceType
    <3>3. buf[k % PIPEBUFSIZ] = k
      BY DEF StreamInv, Window
    <3> QED
      BY <1>r, <1>3, <3>2, <3>3 DEF Ring
  <2>6. ASSUME NEW q \in Proc, q # p, pc'[q] \in {"take", "put"}
        PROVE  /\ pc'[q] = "take" /\ pc[q] = "take"
               /\ MyEnd(q)' = MyEnd(q) /\ aux'[q] = aux[q]
    <3>1. Moving(q) /\ pc'[q] = pc[q] /\ MyEnd(q)' = MyEnd(q) /\ aux'[q] = aux[q]
      BY <1>r, <2>6, MovingFrame DEF StreamInv, Moving
    <3>2. MyEnd(q) # "w"
      BY <1>r, <1>3, <2>6, <3>1 DEF StreamInv, OnePerEnd
    <3> QED
      BY <2>6, <3>1, <3>2 DEF StreamInv, Putting
  <2>7. buf'[wpos % PIPEBUFSIZ] = wpos
    BY <1>r, <1>3, <2>3 DEF Ring
  <2>8. ASSUME NEW q \in Proc PROVE Taking(q)' /\ Putting(q)'
    BY <1>u, <2>1, <2>2, <2>6, <2>7 DEF StreamInv, Taking, Putting
  <2> QED
    BY <2>4, <2>5, <2>8
<1> QED
  BY <1>1, <1>2, <1>3 DEF Test

LEMMA RingMoved ==
  ASSUME StreamInv, NEW p \in Proc, Take(p) \/ Put(p)
  PROVE  Ring' /\ Window' /\ (\A q \in Proc : Taking(q)' /\ Putting(q)')
<1>r. Registers /\ Ring /\ Moving(p) /\ Step(p) /\ Taking(p) /\ Putting(p)
  BY DEF StreamInv, ControlInv, Shape, Take, Put, Moving, Step
<1>1. pc'[p] = "idle" /\ UNCHANGED <<fd, buf>>
  BY <1>r, GoToAt DEF Take, Put, Return
<1>2. ASSUME NEW q \in Proc, pc'[q] \in {"take", "put"}
      PROVE  /\ pc'[q] = pc[q] /\ MyEnd(q)' = MyEnd(q) /\ aux'[q] = aux[q]
             /\ MyEnd(q) # MyEnd(p) /\ Taking(q) /\ Putting(q)
  <2>1. q # p
    BY <1>1, <1>2
  <2> QED
    BY <1>r, <1>2, <2>1, MovingFrame DEF StreamInv, Moving, OnePerEnd
<1>3. CASE Take(p)
  <2>1. rpos < wpos /\ MyEnd(p) = "r" /\ rpos' = rpos + 1 /\ wpos' = wpos
    BY <1>r, <1>3 DEF Take, Taking
  <2>2. Ring'
    BY <1>r, <1>1, <2>1, PipeAssumption DEF Ring
  <2>3. Window'
    <3> SUFFICES ASSUME NEW k \in (rpos+1)..(wpos-1) PROVE buf[k % PIPEBUFSIZ] = k
      BY <1>1, <2>1 DEF Window
    <3>1. k \in rpos..(wpos-1)
      BY <1>r DEF Ring
    <3> QED
      BY <3>1 DEF StreamInv, Window
  <2>4. ASSUME NEW q \in Proc, pc'[q] \in {"take", "put"}
        PROVE  pc'[q] = "put" /\ MyEnd(q)' = "w" /\ wpos < rpos + 1 + PIPEBUFSIZ
               /\ buf[wpos % PIPEBUFSIZ] = wpos
    <3>1. pc'[q] = "put" /\ pc[q] = "put"
      BY <1>2, <2>1, <2>4 DEF Taking
    <3> QED
      BY <1>2, <1>r, <3>1, PipeAssumption DEF Putting, Ring
  <2> QED
    BY <1>1, <2>1, <2>2, <2>3, <2>4 DEF Taking, Putting
<1>4. CASE Put(p)
  <2>1. /\ wpos < rpos + PIPEBUFSIZ /\ MyEnd(p) = "w" /\ buf[wpos % PIPEBUFSIZ] = wpos
        /\ wpos' = wpos + 1 /\ rpos' = rpos
    BY <1>r, <1>4 DEF Put, Putting
  <2>2. Ring'
    BY <1>r, <1>1, <2>1, PipeAssumption DEF Ring
  <2>3. Window'
    <3> SUFFICES ASSUME NEW k \in rpos..wpos PROVE buf[k % PIPEBUFSIZ] = k
      BY <1>r, <1>1, <2>1 DEF Window, Ring
    <3>1. k = wpos \/ k \in rpos..(wpos-1)
      BY <1>r DEF Ring
    <3> QED
      BY <2>1, <3>1 DEF StreamInv, Window
  <2>4. ASSUME NEW q \in Proc, pc'[q] \in {"take", "put"}
        PROVE  pc'[q] = "take" /\ MyEnd(q)' = "r" /\ rpos < wpos + 1 /\ aux'[q] = rpos
    <3>1. pc'[q] = "take" /\ pc[q] = "take"
      BY <1>2, <2>1, <2>4 DEF Putting
    <3> QED
      BY <1>2, <1>r, <3>1, PipeAssumption DEF Taking, Ring
  <2> QED
    BY <1>1, <2>1, <2>2, <2>3, <2>4 DEF Taking, Putting
<1> QED
  BY <1>3, <1>4

-----------------------------------------------------------------------------
(* The invariant of the stream holds.                                      *)

LEMMA StreamNext == ASSUME StreamInv, NEW p \in Proc, Step(p) PROVE StreamInv'
<1>1. Maps'
  BY MapsNext DEF StreamInv
<1>2. Registers'
  BY RegistersNext DEF StreamInv, ControlInv, Shape
<1>3. (\A q \in Proc : Local(q)') /\ Parents'
  BY <1>1, <1>2, LocalNext, ParentsNext DEF StreamInv
<1>4. OnePerEnd'
  BY OnePerEndNext DEF StreamInv
<1>5. Ring' /\ Window' /\ (\A q \in Proc : Taking(q)' /\ Putting(q)')
  <2>1. CASE Test(p)
    BY <2>1, RingTest
  <2>2. CASE Take(p) \/ Put(p)
    BY <2>2, RingMoved
  <2>3. CASE ~Test(p) /\ ~Take(p) /\ ~Put(p)
    <3>1. UNCHANGED pipe
      BY <2>3 DEF Step, Close, CloseData, Dup, DupData, DupFd, Fork, ForkPage, ForkDone, Die,
         Begin, Probe, Check, Compare, CloseFd
    <3>2. pc'[p] \notin {"take", "put"}
      <4> SUFFICES ASSUME pc'[p] \in {"take", "put"} PROVE FALSE
        OBVIOUS
      <4>1. Moving(p)'
        BY DEF Moving
      <4>2. Moving(p) /\ (Check(p) \/ Compare(p))
        BY <2>3, <4>1, MovingMover DEF StreamInv
      <4>3. Registers /\ Local(p)
        BY DEF StreamInv, ControlInv, Shape
      <4>4. CASE Check(p)
        BY <4>3, <4>4, GoToAt DEF Check
      <4>5. CASE Compare(p)
        <5>1. aux[p].for \in {"check", "probe"}
          BY <4>3, <4>5 DEF Compare, Local, FirstCount
        <5>2. CASE \E place \in {"check", "probe", "idle", "test"} : \E i : GoTo(p, place, i, NULL)
          BY <4>3, <5>2, GoToAt
        <5>3. CASE pc' = [pc EXCEPT ![p] = "idle"]
          BY <4>3, <5>3 DEF Registers
        <5> QED
          BY <4>5, <5>1, <5>2, <5>3 DEF Compare, Return
      <4> QED
        BY <4>2, <4>4, <4>5
    <3> QED
      BY <3>1, <3>2, StreamQuiet
  <2> QED
    BY <2>1, <2>2, <2>3
<1> QED
  BY <1>1, <1>2, <1>3, <1>4, <1>5 DEF StreamInv, ControlInv, Shape

LEMMA StreamInit == Init => StreamInv
<1> SUFFICES ASSUME Init PROVE StreamInv
  OBVIOUS
<1>1. Maps
  BY DEF Init, Maps, End
<1>2. Registers
  BY DEF Init, Registers, Place, Note
<1>3. Ring
  BY PipeAssumption DEF Init, Ring
<1>4. \A p \in Proc : pc[p] \in {"idle", "none"}
  BY DEF Init
<1>5. (\A p \in Proc : Local(p)) /\ Parents /\ OnePerEnd
  BY <1>4 DEF Local, Parents, OnePerEnd, Moving, Using
<1>6. Window
  BY PipeAssumption DEF Init, Window
<1>7. \A p \in Proc : Taking(p) /\ Putting(p)
  BY <1>4 DEF Taking, Putting
<1> QED
  BY <1>1, <1>2, <1>3, <1>5, <1>6, <1>7 DEF StreamInv, ControlInv, Shape

LEMMA StreamStep == StreamInv /\ [Next]_vars => StreamInv'
<1>1. StreamInv /\ Next => StreamInv'
  BY StreamNext DEF Next, Step
<1>2. StreamInv /\ UNCHANGED vars => StreamInv'
  <2> SUFFICES ASSUME StreamInv, UNCHANGED vars PROVE StreamInv'
    OBVIOUS
  <2>1. UNCHANGED <<fd, data, pc, arg, aux, told, runs, rpos, wpos, buf>>
    BY DEF vars, procs, pipe
  <2> QED
    BY <2>1 DEF StreamInv, ControlInv, Shape, Maps, Registers, Ring, Local, Using, MyEnd, Parents,
       OnePerEnd, Moving, Window, Taking, Putting
<1> QED
  BY <1>1, <1>2

LEMMA StreamInvariant == Spec => []StreamInv
  BY StreamInit, StreamStep, PTL DEF Spec

\* Bytes are taken in the order in which they were stored, none is overwritten
\* before it is taken, and every call works on a descriptor its process has: in
\* devpipe_read and devpipe_write, with one reader and one writer at a time.
THEOREM PipeInOrder == Spec => []InOrder
<1>1. StreamInv => InOrder
  <2> SUFFICES ASSUME StreamInv PROVE InOrder
    OBVIOUS
  <2>1. Maps /\ Registers /\ Ring /\ Window /\ \A p \in Proc : Local(p) /\ Taking(p)
    BY DEF StreamInv, ControlInv, Shape
  <2>2. rpos \in 0..wpos /\ wpos \in rpos..(rpos + PIPEBUFSIZ)
    BY <2>1, PipeAssumption DEF Ring
  <2>3. TypeOK
    BY <2>1, <2>2 DEF Maps, Registers, Local, TypeOK
  <2> QED
    BY <2>1, <2>3 DEF InOrder, Window, Taking
<1> QED
  BY <1>1, StreamInvariant, PTL

-----------------------------------------------------------------------------
(* The pages.                                                              *)

\* A process that does not run yet changes only at the hand of its parent.
LEMMA ChildFrame ==
  ASSUME ControlInv, NEW p \in Proc, Step(p), NEW q \in Proc, q # p,
         ~(pc[p] = "fork" /\ aux[p] = q)
  PROVE  /\ fd'[q] = fd[q] /\ data'[q] = data[q]
         /\ pc[q] = "embryo" => pc'[q] = "embryo"
         /\ pc[q] = "none" /\ pc'[q] # "none" => pc'[q] = "embryo"
         /\ pc[q] # "none" => pc'[q] # "none"
<1>r. Registers /\ Maps /\ Local(p)
  BY DEF ControlInv, Shape
<1>1. CASE Fork(p)
  BY <1>1, <1>r DEF Fork, Registers
<1>2. CASE ForkPage(p) \/ ForkDone(p)
  <2>1. pc[p] = "fork" /\ aux[p] \in Proc /\ aux[p] # q
    BY <1>2, <1>r DEF ForkPage, ForkDone, Local
  <2> QED
    BY <1>2, <1>r, <2>1 DEF ForkPage, ForkDone, Registers, Maps, GoTo
<1>3. CASE ~Fork(p) /\ ~ForkPage(p) /\ ~ForkDone(p)
  <2>1. pc'[q] = pc[q]
    BY <1>3, <1>r DEF Registers, Step, Close, CloseData, Dup, DupData, DupFd, Die, Begin, Test,
       Take, Put, Probe, Check, Compare, CloseFd, GoTo, Return
  <2>2. fd'[q] = fd[q] /\ data'[q] = data[q]
    BY <1>3, <1>r DEF Maps, Step, Close, CloseData, Dup, DupData, DupFd, Die, Begin, Test,
       Take, Put, Probe, Check, Compare, CloseFd, MapFd, MapData
  <2> QED
    BY <2>1, <2>2
<1> QED
  BY <1>1, <1>2, <1>3

\* The calls that map and unmap keep their own promise.
LEMMA PagesMover ==
  ASSUME PageInv, NEW p \in Proc, Step(p), ControlInv'
  PROVE  Backed(p)' /\ Calls(p)' /\ Child(p)'
<1>r. Registers /\ Maps /\ Local(p) /\ Backed(p) /\ Calls(p) /\ Child(p)
  BY DEF PageInv, ControlInv, Shape
<1>n. NULL \notin FdNum /\ NULL \notin End
  BY PipeAssumption
<1>1. CASE \E i \in FdNum, from \in FdNum \cup {NULL} :
             /\ CloseFd(p, i, from) /\ pc[p] = "idle"
             /\ from # NULL => i # from /\ fd[p][from] # NULL
  <2>1. PICK i \in FdNum, from \in FdNum \cup {NULL} :
             /\ CloseFd(p, i, from) /\ pc[p] = "idle"
             /\ from # NULL => i # from /\ fd[p][from] # NULL
    BY <1>1
  <2>2. /\ pc'[p] = "unmap data" /\ arg'[p] = i /\ aux'[p] = from
        /\ data' = data /\ fd' = [fd EXCEPT ![p][i] = NULL]
    BY <1>r, <2>1, GoToAt DEF CloseFd, MapFd
  <2>3. fd'[p][i] = NULL /\ \A j \in FdNum : j # i => fd'[p][j] = fd[p][j]
    BY <1>r, <2>2 DEF Maps
  <2> QED
    BY <1>r, <2>1, <2>2, <2>3 DEF Backed, Calls, Child
<1>2. CASE \E old, new \in FdNum :
             /\ old # new /\ fd[p][old] # NULL /\ pc[p] = "idle"
             /\ GoTo(p, "dup data", new, old) /\ UNCHANGED <<fd, data>>
  <2>1. PICK old \in FdNum, new \in FdNum :
             /\ old # new /\ fd[p][old] # NULL /\ pc[p] = "idle"
             /\ GoTo(p, "dup data", new, old) /\ UNCHANGED <<fd, data>>
    BY <1>2
  <2>2. pc'[p] = "dup data" /\ arg'[p] = new /\ aux'[p] = old
    BY <1>r, <2>1, GoToAt
  <2> QED
    BY <1>r, <2>1, <2>2 DEF Backed, Calls, Child
<1>3. CASE CloseData(p)
  <2>1. /\ arg[p] \in FdNum /\ fd[p][arg[p]] = NULL /\ pc[p] = "unmap data" /\ fd' = fd
        /\ data' = [data EXCEPT ![p][arg[p]] = FALSE]
    BY <1>3, <1>r DEF CloseData, Local, Calls, MapData
  <2>2. \A j \in FdNum : j # arg[p] => data'[p][j] = data[p][j]
    BY <1>r, <2>1 DEF Maps
  <2>3. Backed(p)'
    BY <1>r, <2>1, <2>2 DEF Backed
  <2>4. CASE Return(p)
    BY <1>r, <2>3, <2>4, GoToAt DEF Return, Calls, Child
  <2>5. CASE aux[p] # NULL /\ GoTo(p, "dup data", arg[p], aux[p])
    <3>1. pc'[p] = "dup data" /\ arg'[p] = arg[p] /\ aux'[p] = aux[p]
      BY <1>r, <2>5, GoToAt
    <3> QED
      BY <1>r, <2>1, <2>3, <2>5, <3>1 DEF Calls, Child
  <2> QED
    BY <1>3, <2>4, <2>5 DEF CloseData
<1>4. CASE DupData(p)
  <2>1. /\ arg[p] \in FdNum /\ aux[p] \in FdNum /\ fd[p][aux[p]] # NULL
        /\ pc[p] = "dup data" /\ fd' = fd
        /\ data' = [data EXCEPT ![p][arg[p]] = data[p][aux[p]]]
    BY <1>4, <1>r, <1>n DEF DupData, Local, Calls, MapData
  <2>2. data[p][aux[p]]
    BY <1>r, <2>1 DEF Backed
  <2>3. data'[p][arg[p]] /\ \A j \in FdNum : j # arg[p] => data'[p][j] = data[p][j]
    BY <1>r, <2>1, <2>2 DEF Maps
  <2>4. pc'[p] = "dup fd" /\ arg'[p] = arg[p] /\ aux'[p] = aux[p]
    BY <1>4, <1>r, GoToAt DEF DupData
  <2> QED
    BY <1>r, <2>1, <2>3, <2>4 DEF Backed, Calls, Child
<1>5. CASE DupFd(p)
  <2>1. /\ arg[p] \in FdNum /\ data[p][arg[p]] /\ pc[p] = "dup fd" /\ data' = data
        /\ fd' = [fd EXCEPT ![p][arg[p]] = fd[p][aux[p]]] /\ pc'[p] = "idle"
    BY <1>5, <1>r, GoToAt DEF DupFd, Local, Calls, MapFd, Return
  <2>2. \A j \in FdNum : j # arg[p] => fd'[p][j] = fd[p][j]
    BY <1>r, <2>1 DEF Maps
  <2> QED
    BY <1>r, <2>1, <2>2 DEF Backed, Calls, Child
<1>6. CASE Fork(p)
  <2>1. PICK c \in Proc : pc[c] = "none" /\ aux' = [aux EXCEPT ![p] = c] /\ pc'[p] = "fork"
    BY <1>6, <1>r DEF Fork, Registers
  <2>2. aux'[p] = c /\ arg'[p] = 0 /\ UNCHANGED <<fd, data>> /\ pc[p] = "idle"
    BY <1>6, <1>r, <2>1 DEF Fork, Registers
  <2>3. \A i \in FdNum : fd[c][i] = NULL /\ ~(i + MAXFD < 0)
    <3>1. \A i \in FdNum : fd[c][i] = NULL
      BY <2>1 DEF PageInv, Calls
    <3>2. \A i \in FdNum : ~(i + MAXFD < 0)
      BY PipeAssumption DEF FdNum
    <3> QED
      BY <3>1, <3>2
  <2> QED
    BY <1>r, <2>1, <2>2, <2>3 DEF Backed, Calls, Child
<1>7. CASE ForkPage(p)
  <2> DEFINE i == arg[p] % MAXFD
             c == aux[p]
  <2>1. /\ arg[p] \in 0..(2 * MAXFD) /\ c \in Proc /\ pc[p] = "fork" /\ arg[p] < 2 * MAXFD
        /\ pc[c] = "embryo" /\ c # p
    BY <1>7, <1>r DEF ForkPage, Local, PageInv, ControlInv, Parents
  <2>2. i \in FdNum
    BY <2>1, PageType, PipeAssumption
  <2>3. pc'[p] = "fork" /\ arg'[p] = arg[p] + 1 /\ aux'[p] = c
    BY <1>7, <1>r, GoToAt DEF ForkPage
  <2>4. CASE /\ arg[p] < MAXFD
             /\ fd' = [fd EXCEPT ![c][i] = fd[p][i]] /\ data' = data
    <3> HIDE DEF i, c
    <3>1. fd'[p] = fd[p] /\ fd'[c][i] = fd[p][i]
      BY <1>r, <2>1, <2>2, <2>4 DEF Maps
    <3>2. \A j \in FdNum : j # i => fd'[c][j] = fd[c][j]
      BY <1>r, <2>1, <2>2, <2>4 DEF Maps
    <3>3. \A j \in FdNum : ~(j + MAXFD < arg[p] + 1)
      BY <2>1, <2>4, PipeAssumption DEF FdNum
    <3> QED
      BY <1>r, <2>1, <2>3, <2>4, <3>1, <3>2, <3>3 DEF Backed, Calls, Child, c
  <2>5. CASE /\ ~(arg[p] < MAXFD)
             /\ data' = [data EXCEPT ![c][i] = data[p][i]] /\ fd' = fd
    <3>1. \A j \in FdNum : j + MAXFD < arg[p] + 1 => j + MAXFD < arg[p] \/ j = i
      BY <2>1, <2>5, PipeAssumption DEF FdNum
    <3> HIDE DEF i, c
    <3>2. data'[p] = data[p] /\ data'[c][i] = data[p][i]
      BY <1>r, <2>1, <2>2, <2>5 DEF Maps
    <3>3. \A j \in FdNum : j # i => data'[c][j] = data[c][j]
      BY <1>r, <2>1, <2>2, <2>5 DEF Maps
    <3> QED
      BY <1>r, <2>1, <2>3, <2>5, <3>1, <3>2, <3>3 DEF Backed, Calls, Child, c
  <2> QED
    BY <1>7, <2>4, <2>5 DEF ForkPage
<1>8. CASE ForkDone(p)
  <2>1. pc'[p] = "idle" /\ pc[p] = "fork" /\ UNCHANGED <<fd, data>>
    BY <1>8, <1>r DEF ForkDone, Registers, Local
  <2> QED
    BY <1>r, <2>1 DEF Backed, Calls, Child
<1>9. CASE Die(p)
  <2>1. pc'[p] = "dead" /\ \A i \in FdNum : fd'[p][i] = NULL
    BY <1>9, <1>r, GoToAt DEF Die, Maps
  <2> QED
    BY <2>1 DEF Backed, Calls, Child
<1>10. CASE Begin(p) \/ Probe(p) \/ Check(p) \/ Compare(p) \/ Take(p) \/ Put(p) \/ Test(p)
  <2>1. UNCHANGED <<fd, data>> /\ pc[p] # "embryo"
    BY <1>10 DEF Begin, Probe, Check, Compare, Take, Put, Test
  <2>2. pc'[p] \in {"idle", "test", "probe", "check", "compare", "take", "put"}
    <3>1. CASE Compare(p)
      <4>1. aux[p].for \in {"check", "probe"}
        BY <3>1, <1>r DEF Compare, Local, FirstCount
      <4>2. CASE \E place \in {"check", "probe", "idle", "test"} : \E i : GoTo(p, place, i, NULL)
        BY <1>r, <4>2, GoToAt
      <4>3. CASE pc' = [pc EXCEPT ![p] = "idle"]
        BY <1>r, <4>3 DEF Registers
      <4> QED
        BY <3>1, <4>1, <4>2, <4>3 DEF Compare, Return
    <3>2. CASE ~Compare(p)
      <4>1. PICK place \in {"idle", "test", "probe", "check", "compare", "take", "put"} :
              \E i, note : GoTo(p, place, i, note)
        BY <1>10, <3>2 DEF Begin, Probe, Check, Take, Put, Test, Return
      <4> QED
        BY <1>r, <4>1, GoToAt
    <3> QED
      BY <3>1, <3>2
  <2> QED
    BY <1>r, <2>1, <2>2 DEF Backed, Calls, Child
<1> QED
  BY <1>1, <1>2, <1>3, <1>4, <1>5, <1>6, <1>7, <1>8, <1>9, <1>10 DEF Step, Close, Dup, CloseFd

LEMMA PageNext == ASSUME PageInv, NEW p \in Proc, Step(p), ControlInv' PROVE PageInv'
<1> SUFFICES ASSUME NEW q \in Proc PROVE Backed(q)' /\ Calls(q)' /\ Child(q)'
  BY DEF PageInv
<1>r. /\ ControlInv /\ Parents /\ Registers /\ Maps /\ (\A x \in Proc : Local(x))
      /\ Backed(q) /\ Calls(q) /\ Child(q)
  BY DEF PageInv, ControlInv, Shape
<1>1. CASE q = p
  BY <1>1, PagesMover
<1>2. CASE q # p /\ pc[q] \in {"none", "embryo"}
  <2>1. CASE pc[p] = "fork" /\ aux[p] = q
    <3>1. pc[q] = "embryo"
      BY <1>r, <2>1 DEF Parents
    <3>2. CASE ForkDone(p)
      <4>1. arg[p] = 2 * MAXFD /\ UNCHANGED <<fd, data>> /\ pc'[q] = "idle"
        BY <1>2, <1>r, <2>1, <3>2 DEF ForkDone, Registers
      <4>2. \A i \in FdNum : i + MAXFD < arg[p]
        BY <4>1, PipeAssumption DEF FdNum
      <4>3. \A i \in FdNum : fd[q][i] # NULL => data[q][i]
        BY <2>1, <4>2 DEF PageInv, Backed, Child
      <4> QED
        BY <4>1, <4>3 DEF Backed, Calls, Child
    <3>3. CASE ~ForkDone(p)
      <4>1. ForkPage(p) \/ Die(p)
        BY <2>1, <3>3 DEF Step, Close, CloseData, Dup, DupData, DupFd, Fork, Begin, Test, Take,
           Put, Probe, Check, Compare
      <4>2. pc'[q] = "embryo"
        BY <1>2, <1>r, <3>1, <4>1 DEF ForkPage, Die, GoTo, Registers
      <4> QED
        BY <4>2 DEF Backed, Calls, Child
    <3> QED
      BY <3>2, <3>3
  <2>2. CASE ~(pc[p] = "fork" /\ aux[p] = q)
    <3>1. /\ fd'[q] = fd[q] /\ data'[q] = data[q] /\ pc'[q] \in {"none", "embryo"}
          /\ pc'[q] = "none" => pc[q] = "none"
      BY <1>2, <1>r, <2>2, ChildFrame
    <3> QED
      BY <1>r, <3>1 DEF Backed, Calls, Child
  <2> QED
    BY <2>1, <2>2
<1>3. CASE q # p /\ pc[q] \notin {"none", "embryo"}
  <2>1. /\ pc'[q] = pc[q] /\ arg'[q] = arg[q] /\ aux'[q] = aux[q]
        /\ fd'[q] = fd[q] /\ data'[q] = data[q]
    BY <1>3, <1>r, StepFrame
  <2>2. Backed(q)' /\ Calls(q)'
    BY <1>3, <1>r, <2>1 DEF Backed, Calls
  <2>3. ASSUME pc[q] = "fork"
        PROVE  fd'[aux[q]] = fd[aux[q]] /\ data'[aux[q]] = data[aux[q]]
    <3>1. aux[q] \in Proc /\ pc[aux[q]] = "embryo"
      BY <1>r, <2>3 DEF Local, Parents
    <3>2. pc[p] # "embryo"
      BY DEF Step, Close, CloseData, Dup, DupData, DupFd, Fork, ForkPage, ForkDone, Die, Begin,
         Test, Take, Put, Probe, Check, Compare
    <3>3. aux[q] # p /\ ~(pc[p] = "fork" /\ aux[p] = aux[q])
      BY <1>3, <1>r, <2>3, <3>1, <3>2 DEF Parents
    <3> QED
      BY <1>r, <3>1, <3>3, ChildFrame
  <2> QED
    BY <1>r, <2>1, <2>2, <2>3 DEF Child
<1> QED
  BY <1>1, <1>2, <1>3

LEMMA PageInit == Init => PageInv
<1> SUFFICES ASSUME Init PROVE PageInv
  OBVIOUS
<1>1. ControlInv
  BY StreamInit DEF StreamInv
<1>2. \A p \in Proc : pc[p] \in {"idle", "none"} /\ (pc[p] = "none" => p # Creator)
  BY DEF Init
<1>3. \A p \in Proc, i \in FdNum : (p # Creator => fd[p][i] = NULL) /\ (fd[p][i] # NULL => data[p][i])
  BY DEF Init
<1>4. ASSUME NEW p \in Proc PROVE Backed(p) /\ Calls(p) /\ Child(p)
  <2>1. pc[p] \in {"idle", "none"} /\ (pc[p] = "none" => p # Creator)
    BY <1>2
  <2>2. Backed(p)
    BY <1>3 DEF Backed
  <2>3. Calls(p)
    BY <1>3, <2>1 DEF Calls
  <2>4. Child(p)
    BY <2>1 DEF Child
  <2> QED
    BY <2>2, <2>3, <2>4
<1> QED
  BY <1>1, <1>4 DEF PageInv

LEMMA PageStep == StreamInv' /\ PageInv /\ [Next]_vars => PageInv'
<1>1. StreamInv' /\ PageInv /\ Next => PageInv'
  BY PageNext DEF Next, Step, StreamInv
<1>2. StreamInv' /\ PageInv /\ UNCHANGED vars => PageInv'
  <2> SUFFICES ASSUME StreamInv', PageInv, UNCHANGED vars PROVE PageInv'
    OBVIOUS
  <2>1. UNCHANGED <<fd, data, pc, arg, aux, told, runs, rpos, wpos, buf>>
    BY DEF vars, procs, pipe
  <2> QED
    BY <2>1 DEF StreamInv, PageInv, Backed, Calls, Child
<1> QED
  BY <1>1, <1>2

LEMMA PageInvariant == Spec => []PageInv
  BY PageInit, PageStep, StreamInvariant, PTL DEF Spec

LEMMA CountsInOrder == PageInv => DataOutlivesFd
<1> SUFFICES ASSUME PageInv, \A p \in Proc : pc[p] # "embryo"
             PROVE  DataRef >= FdRef("r") + FdRef("w")
  BY DEF DataOutlivesFd
<1> DEFINE D == {x \in Proc \X FdNum : data[x[1]][x[2]]}
           B == Fds("r") \cup Fds("w")
<1>1. IsFiniteSet(D) /\ IsFiniteSet(Fds("r")) /\ IsFiniteSet(Fds("w"))
  BY CountsType
<1>2. B \in SUBSET D
  BY PipeAssumption DEF PageInv, Backed, Fds, End
<1>3. Fds("r") \cap Fds("w") = {}
  BY DEF Fds
<1>4. Cardinality(B) = FdRef("r") + FdRef("w")
  <2>1. Cardinality(Fds("r") \cap Fds("w")) = 0
    BY <1>3, FS_EmptySet
  <2>2. Cardinality(Fds("r")) \in Nat /\ Cardinality(Fds("w")) \in Nat
    BY <1>1, FS_CardinalityType
  <2>3. Cardinality(B) = Cardinality(Fds("r")) + Cardinality(Fds("w")) - 0
    BY <1>1, <2>1, FS_Union
  <2> QED
    BY <2>2, <2>3 DEF FdRef
<1>5. Cardinality(B) <= Cardinality(D)
  BY <1>1, <1>2, FS_Subset
<1>6. Cardinality(B) \in Nat /\ Cardinality(D) \in Nat
  BY <1>1, <1>2, FS_Subset, FS_CardinalityType
<1> QED
  BY <1>4, <1>5, <1>6 DEF DataRef

\* While no child is half built, the data page has at least as many references
\* as the two Fd pages together: what lets _pipeisclosed compare counts at all.
THEOREM DataPageOutlives == Spec => []DataOutlivesFd
  BY PageInvariant, CountsInOrder, PTL

\* Nobody gets an end that nobody has: dup and fork only copy.
LEMMA EmptyStays ==
  ASSUME ControlInv, NEW p \in Proc, Step(p), NEW end \in End, Fds(end) = {}
  PROVE  Fds(end)' = {}
<1>r. Registers /\ Maps /\ Local(p)
  BY DEF ControlInv, Shape
<1>0. ASSUME NEW q \in Proc, NEW i \in FdNum PROVE fd[q][i] # end
  <2>1. <<q, i>> \in Proc \X FdNum /\ <<q, i>> \notin Fds(end)
    OBVIOUS
  <2> QED
    BY <2>1 DEF Fds
<1>n. end # NULL
  BY PipeAssumption
<1> SUFFICES ASSUME NEW q \in Proc, NEW i \in FdNum PROVE fd'[q][i] # end
  <2>1. Fds(end)' = {x \in Proc \X FdNum : fd'[x[1]][x[2]] = end}
    BY DEF Fds
  <2> QED
    BY <2>1
<1>1. CASE UNCHANGED fd
  BY <1>0, <1>1
<1>2. CASE \E j \in FdNum : MapFd(p, j, NULL)
  BY <1>0, <1>2, <1>n, <1>r DEF MapFd, Maps
<1>3. CASE DupFd(p)
  <2>1. aux[p] \in FdNum /\ arg[p] \in FdNum /\ fd' = [fd EXCEPT ![p][arg[p]] = fd[p][aux[p]]]
    BY <1>3, <1>r DEF DupFd, Local, MapFd
  <2>2. fd[p][aux[p]] # end
    BY <1>0, <2>1
  <2> QED
    BY <1>0, <1>r, <2>1, <2>2 DEF Maps
<1>4. CASE ForkPage(p)
  <2> DEFINE k == arg[p] % MAXFD
             c == aux[p]
  <2>1. k \in FdNum /\ c \in Proc
    <3>1. arg[p] \in 0..(2 * MAXFD) /\ aux[p] \in Proc
      BY <1>4, <1>r DEF ForkPage, Local
    <3> QED
      BY <3>1, PageType, PipeAssumption
  <2>2. fd' = [fd EXCEPT ![c][k] = fd[p][k]] \/ UNCHANGED fd
    BY <1>4 DEF ForkPage
  <2> HIDE DEF k, c
  <2>3. fd[p][k] # end
    BY <1>0, <2>1
  <2> QED
    BY <1>0, <1>r, <2>1, <2>2, <2>3 DEF Maps
<1>5. CASE Die(p)
  BY <1>0, <1>5, <1>n, <1>r DEF Die, Maps
<1> QED
  BY <1>1, <1>2, <1>3, <1>4, <1>5 DEF Step, Close, CloseFd, CloseData, Dup, DupData, Fork, ForkDone,
     Begin, Test, Take, Put, Probe, Check, Compare

LEMMA OrphansNext ==
  ASSUME ControlInv, Orphans, NEW p \in Proc, Step(p) PROVE Orphans'
<1>r. Registers /\ Parents /\ \A x \in Proc : Local(x)
  BY DEF ControlInv, Shape
<1> SUFFICES ASSUME NEW q \in Proc, pc'[q] = "embryo"
             PROVE  \E x \in Proc \ {q} : pc'[x] = "dead" \/ (pc'[x] = "fork" /\ aux'[x] = q)
  BY DEF Orphans
<1>1. CASE Fork(p)
  <2>1. PICK c \in Proc : /\ pc[c] = "none" /\ pc' = [pc EXCEPT ![p] = "fork", ![c] = "embryo"]
                          /\ aux' = [aux EXCEPT ![p] = c] /\ pc[p] = "idle"
    BY <1>1 DEF Fork
  <2>2. CASE q = c
    BY <1>r, <2>1, <2>2 DEF Registers
  <2>3. CASE q # c
    <3>1. pc[q] = "embryo" /\ q # p
      BY <1>r, <2>1, <2>3 DEF Registers
    <3>2. PICK x \in Proc \ {q} : pc[x] = "dead" \/ (pc[x] = "fork" /\ aux[x] = q)
      BY <3>1 DEF Orphans
    <3>3. x # p /\ x # c
      BY <2>1, <3>2
    <3> QED
      BY <1>r, <2>1, <3>2, <3>3 DEF Registers
  <2> QED
    BY <2>2, <2>3
<1>2. CASE ~Fork(p)
  <2>1. pc[q] = "embryo" /\ q # p
    <3>1. pc'[p] # "embryo" /\ (q # p => pc'[q] = pc[q] \/ pc'[q] = "idle")
      BY <1>2, <1>r DEF Registers, Step, Close, CloseData, Dup, DupData, DupFd, ForkPage, ForkDone,
         Die, Begin, Test, Take, Put, Probe, Check, Compare, CloseFd, GoTo, Return, Local, FirstCount
    <3> QED
      BY <3>1
  <2>2. PICK x \in Proc \ {q} : pc[x] = "dead" \/ (pc[x] = "fork" /\ aux[x] = q)
    BY <2>1 DEF Orphans
  <2>3. CASE x # p
    <3>1. pc'[x] = pc[x] /\ aux'[x] = aux[x]
      BY <2>2, <2>3, StepFrame
    <3> QED
      BY <2>2, <3>1
  <2>4. CASE x = p
    <3>1. pc[p] = "fork" /\ aux[p] = q
      BY <2>2, <2>4 DEF Step, Close, CloseData, Dup, DupData, DupFd, Fork, ForkPage, ForkDone,
         Die, Begin, Test, Take, Put, Probe, Check, Compare
    <3>2. ForkPage(p) \/ ForkDone(p) \/ Die(p)
      BY <1>2, <3>1 DEF Step, Close, CloseData, Dup, DupData, DupFd, Begin, Test, Take, Put, Probe,
         Check, Compare
    <3>3. ~ForkDone(p)
      BY <1>r, <3>1 DEF ForkDone, Registers
    <3>4. CASE Die(p)
      BY <1>r, <2>2, <2>4, <3>4, GoToAt DEF Die
    <3>5. CASE ForkPage(p)
      BY <1>r, <2>2, <2>4, <3>1, <3>5, GoToAt DEF ForkPage
    <3> QED
      BY <3>2, <3>3, <3>4, <3>5
  <2> QED
    BY <2>3, <2>4
<1> QED
  BY <1>1, <1>2

\* On one CPU a count is only as old as the last step of somebody else.
LEMMA SameCountNext ==
  ASSUME ControlInv, SameCount, ~Smp, NEW p \in Proc, Step(p) PROVE SameCount'
<1>r. Registers /\ Local(p)
  BY DEF ControlInv, Shape
<1> SUFFICES ASSUME NEW q \in Proc, pc'[q] = "compare", ~runs'[q]
             PROVE  (aux[q].count = Ref(q, aux[q].first))'
  BY DEF SameCount
<1>0. Preempts(p)
  BY DEF Step, Close, CloseData, Dup, DupData, DupFd, Fork, ForkPage, ForkDone, Die, Begin, Test,
     Take, Put, Probe, Check, Compare, CloseFd, GoTo, Return
<1>1. q = p
  <2> SUFFICES ASSUME q # p PROVE FALSE
    OBVIOUS
  <2>1. pc[q] = "compare"
    BY StepFrame
  <2> QED
    BY <1>0, <2>1 DEF Preempts
<1>2. CASE Check(p)
  <2>1. PICK which \in {"fd", "data"} :
          GoTo(p, "compare", arg[p],
               [for |-> pc[p], first |-> which, count |-> Ref(p, which)])
    BY <1>2 DEF Check
  <2>2. arg'[p] = arg[p] /\ aux'[p].first = which /\ aux'[p].count = Ref(p, which)
    BY <1>r, <2>1, GoToAt
  <2>3. UNCHANGED <<fd, data>>
    BY <1>2 DEF Check
  <2>4. Ref(p, aux[p].first)' = Ref(p, which)
    BY <2>2, <2>3 DEF Ref, FdRef, Fds, DataRef, MyEnd
  <2> QED
    BY <1>1, <2>2, <2>4
<1>3. CASE Compare(p)
  <2>1. aux[p].for \in {"check", "probe"}
    BY <1>3, <1>r DEF Compare, Local, FirstCount
  <2>2. CASE \E place \in {"check", "probe", "idle", "test"} : \E i : GoTo(p, place, i, NULL)
    BY <1>1, <1>r, <2>2, GoToAt
  <2>3. CASE pc' = [pc EXCEPT ![p] = "idle"]
    BY <1>1, <1>r, <2>3 DEF Registers
  <2> QED
    BY <1>3, <2>1, <2>2, <2>3 DEF Compare, Return
<1>4. CASE ~Check(p) /\ ~Compare(p)
  <2>1. CASE Fork(p) \/ ForkDone(p)
    BY <1>1, <1>r, <2>1 DEF Fork, ForkDone, Registers, Local
  <2>2. CASE ~Fork(p) /\ ~ForkDone(p)
    <3>1. PICK place \in {"unmap data", "dup data", "dup fd", "idle", "fork", "dead", "probe",
                          "test", "check", "take", "put"} :
            \E i, note : GoTo(p, place, i, note)
      BY <1>4, <2>2 DEF Step, Close, CloseData, Dup, DupData, DupFd, ForkPage, Die, Begin, Test,
         Take, Put, Probe, CloseFd, Return
    <3> QED
      BY <1>1, <1>r, <3>1, GoToAt
  <2> QED
    BY <2>1, <2>2
<1> QED
  BY <1>2, <1>3, <1>4

\* Equal counts with nothing in between: nobody has the other end.
LEMMA ToldRight ==
  ASSUME ParentAndChild, ClosedInv, NEW p \in Proc, pc[p] = "compare", ~runs[p],
         aux[p].count = Ref(p, IF aux[p].first = "fd" THEN "data" ELSE "fd")
  PROVE  Fds(Other(MyEnd(p))) = {}
<1>1. Local(p) /\ aux[p].first \in {"fd", "data"} /\ MyEnd(p) \in End
  BY DEF ClosedInv, PageInv, ControlInv, Local, Using, FirstCount
<1>2. aux[p].count = Ref(p, aux[p].first)
  BY DEF ClosedInv, SameCount
<1>3. FdRef(MyEnd(p)) = DataRef
  BY <1>1, <1>2 DEF Ref
<1>4. \A q \in Proc : pc[q] # "embryo"
  <2> SUFFICES ASSUME NEW q \in Proc, pc[q] = "embryo" PROVE FALSE
    OBVIOUS
  <2>1. PICK x \in Proc \ {q} : pc[x] = "dead" \/ (pc[x] = "fork" /\ aux[x] = q)
    BY DEF ClosedInv, Orphans
  <2>2. x # p /\ x # q /\ q # p
    BY <2>1
  <2> QED
    BY <2>1, <2>2 DEF ParentAndChild
<1>5. DataRef >= FdRef("r") + FdRef("w")
  BY <1>4, CountsInOrder DEF ClosedInv, DataOutlivesFd
<1>6. FdRef(Other(MyEnd(p))) = 0
  <2>1. FdRef("r") \in Nat /\ FdRef("w") \in Nat
    BY CountsType
  <2> QED
    BY <1>1, <1>3, <1>5, <2>1 DEF Other, End
<1> QED
  BY <1>6, CountsType, FS_EmptySet DEF FdRef

LEMMA ClosedNext ==
  ASSUME ParentAndChild, ClosedInv, NEW p \in Proc, Step(p), PageInv' PROVE ClosedInv'
<1>r. Registers /\ Local(p) /\ ControlInv
  BY DEF ClosedInv, PageInv, ControlInv, Shape
<1>1. Orphans' /\ SameCount'
  BY <1>r, OrphansNext, SameCountNext DEF ClosedInv, ParentAndChild
<1>2. ASSUME NEW q \in Proc, NEW end \in told'[q] PROVE Fds(Other(end)) = {} /\ end \in End
  <2>1. CASE told'[q] = told[q]
    BY <2>1, <1>r DEF ClosedInv, ClosedIsClosed, Registers
  <2>2. CASE told'[q] # told[q]
    <3>1. q = p
      BY <2>2, StepFrame, <1>r
    <3>2. Compare(p)
      BY <2>2, <3>1 DEF Step, Close, CloseData, Dup, DupData, DupFd, Fork, ForkPage, ForkDone, Die,
         Begin, Test, Take, Put, Probe, Check, CloseFd, GoTo, Return
    <3>3. /\ pc[p] = "compare" /\ ~runs[p]
          /\ aux[p].count = Ref(p, IF aux[p].first = "fd" THEN "data" ELSE "fd")
          /\ told' = [told EXCEPT ![p] = @ \cup {MyEnd(p)}]
      BY <2>2, <3>1, <3>2 DEF Compare, GoTo, Return
    <3>4. end \in told[p] \/ end = MyEnd(p)
      BY <1>r, <3>1, <3>3 DEF Registers
    <3>5. MyEnd(p) \in End
      BY <1>r, <3>3 DEF Local, Using
    <3> QED
      BY <1>r, <3>3, <3>4, <3>5, ToldRight DEF ClosedInv, ClosedIsClosed, Registers
  <2> QED
    BY <2>1, <2>2
<1>3. ASSUME NEW q \in Proc, NEW end \in told'[q] PROVE Fds(Other(end))' = {}
  <2>1. Fds(Other(end)) = {} /\ Other(end) \in End
    BY <1>2, <1>3 DEF Other, End
  <2> QED
    BY <1>r, <2>1, EmptyStays
<1> QED
  BY <1>1, <1>3 DEF ClosedInv, ClosedIsClosed

\* For a parent and a child on one CPU, the answer of _pipeisclosed is right: no
\* end of file and no failed write while the other end is open anywhere, not even
\* half way through a dup() or a fork().
THEOREM ClosedMeansClosed == ASSUME ParentAndChild PROVE Spec => []ClosedIsClosed
<1>1. Init => Orphans /\ SameCount /\ ClosedIsClosed
  <2> SUFFICES ASSUME Init PROVE Orphans /\ SameCount /\ ClosedIsClosed
    OBVIOUS
  <2>1. \A p \in Proc : pc[p] \in {"idle", "none"} /\ told[p] = {}
    BY DEF Init
  <2> QED
    BY <2>1 DEF Orphans, SameCount, ClosedIsClosed
<1>2. PageInv' /\ ClosedInv /\ [Next]_vars => ClosedInv'
  <2>1. PageInv' /\ ClosedInv /\ Next => ClosedInv'
    BY ClosedNext DEF Next, Step
  <2>2. PageInv' /\ ClosedInv /\ UNCHANGED vars => ClosedInv'
    <3> SUFFICES ASSUME PageInv', ClosedInv, UNCHANGED vars PROVE ClosedInv'
      OBVIOUS
    <3>1. UNCHANGED <<fd, data, pc, arg, aux, told, runs, rpos, wpos, buf>>
      BY DEF vars, procs, pipe
    <3> QED
      <4>1. PageInv' /\ (Orphans => Orphans')
        BY <3>1 DEF Orphans
      <4>2. SameCount => SameCount'
        BY <3>1 DEF SameCount, Ref, FdRef, Fds, DataRef, MyEnd
      <4>3. ClosedIsClosed => ClosedIsClosed'
        BY <3>1 DEF ClosedIsClosed, Fds
      <4> QED
        BY <4>1, <4>2, <4>3 DEF ClosedInv
  <2> QED
    BY <2>1, <2>2
<1>3. Spec => []ClosedInv
  <2>1. Init => ClosedInv
    BY <1>1, PageInit DEF ClosedInv
  <2> QED
    BY <1>2, <2>1, PageInvariant, PTL DEF Spec
<1> QED
  BY <1>3, PTL DEF ClosedInv
=============================================================================
