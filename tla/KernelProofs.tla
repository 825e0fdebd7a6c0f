---------------------------- MODULE KernelProofs ----------------------------
(***************************************************************************)
(* Proofs about Kernel, for every number of slots, processors and calls.   *)
(*                                                                         *)
(* Every handler computes a table E and a current environment cur, and     *)
(* then leaves the kernel through SchedYield or TrapReturn.  The lemmas    *)
(* about leaving the kernel say what the exit does to any such E and cur;  *)
(* the steps about a handler only have to say what its own E is.           *)
(***************************************************************************)
EXTENDS Kernel, Facts, TLAPS

Table == [Slot -> Env]
MaybeSlot == Slot \cup {NULL}

TypeInv == TypeOK /\ Control /\ MutualExclusion

-----------------------------------------------------------------------------
(* The identifiers and the table.                                          *)

LEMMA NullNotSlot == NULL \notin Slot
  BY KernelAssumption DEF Slot

LEMMA NoIdType == NoId \in EnvId
  BY KernelAssumption DEF NoId, EnvId, Slot

LEMMA ENVXType == ASSUME NEW id \in EnvId PROVE ENVX(id) \in Slot
  BY DEF EnvId, ENVX

LEMMA NextIdType ==
  ASSUME NEW old \in EnvId, NEW e \in Slot
  PROVE  /\ NextId(old, e) \in EnvId
         /\ NextId(old, e)[1] # 0 /\ ENVX(NextId(old, e)) = e
         /\ NextId(old, e) # old
  BY KernelAssumption DEF NextId, EnvId, ENVX

LEMMA SetStatusType ==
  ASSUME NEW E \in Table, NEW e \in Slot, NEW st \in Status
  PROVE  SetEnvStatus(E, e, st) \in Table
  BY DEF Table, SetEnvStatus, Env

LEMMA AllocEnvType ==
  ASSUME NEW E \in Table, NEW e \in Slot, NEW parent \in EnvId
  PROVE  AllocEnv(E, e, parent) \in Table
  BY NextIdType DEF Table, AllocEnv, Env, Status

LEMMA Envid2envType ==
  ASSUME TypeOK, NEW id \in EnvId, NEW cur \in Slot, NEW checkperm \in BOOLEAN
  PROVE  Envid2env(id, cur, checkperm) \in MaybeSlot
  BY ENVXType DEF Envid2env, MaybeSlot

-----------------------------------------------------------------------------
(* Leaving the kernel: types and mutual exclusion.                         *)

\* What every exit of CPU c does to the variables of the CPUs.
Left(c) ==
  /\ envs' \in Table
  /\ curenv' \in [CPU -> MaybeSlot]
  /\ \A d \in CPU \ {c} : curenv'[d] = curenv[d]
  /\ need' = need
  /\ cause' = [cause EXCEPT ![c] = "none"]
  /\ \/ /\ pc' = [pc EXCEPT ![c] = "user"]
        /\ curenv'[c] # NULL /\ cpu_status' = cpu_status /\ locked' = FALSE
     \/ /\ pc' = [pc EXCEPT ![c] = "halt"]
        /\ curenv'[c] = NULL /\ locked' = FALSE
        /\ cpu_status' = [cpu_status EXCEPT ![c] = "CPU_HALTED"]
     \/ /\ pc' = [pc EXCEPT ![c] = "monitor"]
        /\ cpu_status' = cpu_status /\ locked' = TRUE

LEMMA EnvRunLeft ==
  ASSUME TypeOK, NEW c \in CPU, NEW E \in Table, NEW cur \in MaybeSlot,
         NEW e \in Slot, EnvRun(c, E, cur, e)
  PROVE  Left(c)
<1> DEFINE Put == IF cur # NULL /\ E[cur].status = "RUNNING"
                  THEN SetEnvStatus(E, cur, "RUNNABLE") ELSE E
<1>1. Put \in Table
  BY SetStatusType DEF MaybeSlot, Status
<1>2. envs' = SetEnvStatus(Put, e, "RUNNING")
  BY DEF EnvRun
<1>3. envs' \in Table
  BY <1>1, <1>2, SetStatusType DEF Status
<1>4. curenv' = [curenv EXCEPT ![c] = e] /\ curenv \in [CPU -> MaybeSlot]
  BY DEF EnvRun, TypeOK, MaybeSlot
<1>5. /\ need' = need /\ cause' = [cause EXCEPT ![c] = "none"]
      /\ pc' = [pc EXCEPT ![c] = "user"]
      /\ cpu_status' = cpu_status /\ locked' = FALSE
  BY DEF EnvRun, Exit
<1> QED
  BY <1>3, <1>4, <1>5, NullNotSlot DEF Left, MaybeSlot

LEMMA SchedHaltLeft ==
  ASSUME TypeOK, NEW c \in CPU, NEW E \in Table, NEW cur \in MaybeSlot,
         SchedHalt(c, E, cur)
  PROVE  Left(c)
  BY DEF SchedHalt, Exit, Left, TypeOK, MaybeSlot

LEMMA SchedYieldLeft ==
  ASSUME TypeOK, NEW c \in CPU, NEW E \in Table, NEW cur \in MaybeSlot,
         SchedYield(c, E, cur)
  PROVE  Left(c)
<1> DEFINE At(k) == (StartSlot(E, cur) + k) % NENV
<1>1. StartSlot(E, cur) \in Slot
  BY ENVXType, KernelAssumption DEF StartSlot, Slot, MaybeSlot, Table, Env
<1>2. \A k \in Slot : At(k) \in Slot
  BY <1>1, KernelAssumption DEF Slot
<1>3. CASE \E k \in Slot : EnvRun(c, E, cur, At(k))
  BY <1>2, <1>3, EnvRunLeft
<1>4. CASE cur # NULL /\ EnvRun(c, E, cur, cur)
  BY <1>4, EnvRunLeft DEF MaybeSlot
<1>5. CASE SchedHalt(c, E, cur)
  BY <1>5, SchedHaltLeft
<1> QED
  BY <1>3, <1>4, <1>5 DEF SchedYield

LEMMA TrapReturnLeft ==
  ASSUME TypeOK, NEW c \in CPU, NEW E \in Table, NEW cur \in MaybeSlot,
         TrapReturn(c, E, cur)
  PROVE  Left(c)
  BY EnvRunLeft, SchedYieldLeft DEF TrapReturn, MaybeSlot

\* A CPU that leaves the kernel preserves TypeInv.
LEMMA LeftTypeInv ==
  ASSUME TypeInv, NEW c \in CPU, pc[c] = "kern", Left(c),
         env_free_list' \in Seq(Slot), forking' \in [Slot -> EnvId]
  PROVE  TypeInv'
<1>1. TypeOK'
  BY DEF TypeInv, TypeOK, Left, Table, MaybeSlot, Cause
<1>2. Control'
  BY <1>1 DEF TypeInv, TypeOK, Control, Left
<1>3. \A d \in CPU : InKernel(d) <=> d = c
  BY DEF TypeInv, MutualExclusion, InKernel
<1>4. MutualExclusion'
  BY <1>3 DEF TypeInv, TypeOK, MutualExclusion, InKernel, Left
<1> QED
  BY <1>1, <1>2, <1>4 DEF TypeInv

-----------------------------------------------------------------------------
(* The handlers: types and mutual exclusion.                               *)

LEMMA EnvFreeListsType ==
  ASSUME TypeOK, NEW e \in Slot, EnvFreeLists(e)
  PROVE  env_free_list' \in Seq(Slot) /\ forking' \in [Slot -> EnvId]
<1>1. env_free_list' \in Seq(Slot)
  BY ConcatProperties, <<e>> \in Seq(Slot) DEF TypeOK, EnvFreeLists
<1> QED
  BY <1>1, NoIdType DEF TypeOK, EnvFreeLists

LEMMA FreeEnvType ==
  ASSUME TypeOK, NEW e \in Slot
  PROVE  FreeEnv(envs, e) \in Table
  BY SetStatusType DEF FreeEnv, TypeOK, Table, Status

LEMMA EnvDestroyLeft ==
  ASSUME TypeOK, NEW c \in CPU, NEW e \in Slot, EnvDestroy(c, e)
  PROVE  /\ Left(c)
         /\ env_free_list' \in Seq(Slot) /\ forking' \in [Slot -> EnvId]
<1>1. curenv[c] \in MaybeSlot /\ envs \in Table /\ NULL \in MaybeSlot
  BY DEF TypeOK, MaybeSlot, Table
<1>2. CASE envs[e].status = "RUNNING" /\ curenv[c] # e
  <2>1. SetEnvStatus(envs, e, "DYING") \in Table
    BY <1>1, SetStatusType DEF Status
  <2> QED
    BY <1>1, <1>2, <2>1, TrapReturnLeft DEF EnvDestroy, RunsElsewhere, TypeOK
<1>3. CASE ~(envs[e].status = "RUNNING" /\ curenv[c] # e)
  <2>1. FreeEnv(envs, e) \in Table
    BY FreeEnvType
  <2>2. /\ EnvFreeLists(e)
        /\ \/ SchedYield(c, FreeEnv(envs, e), NULL)
           \/ TrapReturn(c, FreeEnv(envs, e), curenv[c])
    BY <1>3 DEF EnvDestroy, RunsElsewhere
  <2> QED
    BY <1>1, <2>1, <2>2, EnvFreeListsType, SchedYieldLeft, TrapReturnLeft
<1> QED
  BY <1>2, <1>3

\* The environment a trap comes from.
LEMMA TrappedEnv ==
  ASSUME TypeInv, NEW c \in CPU, pc[c] = "kern", FromUser(c)
  PROVE  curenv[c] \in Slot
  BY DEF TypeInv, TypeOK, Control, FromUser

LEMMA SetStatusLeft ==
  ASSUME TypeInv, NEW c \in CPU, InCall(c), NEW id \in EnvId,
         NEW st \in Status, SetStatus(c, id, st)
  PROVE  Left(c)
<1>1. curenv[c] \in Slot
  BY TrappedEnv DEF InCall, FromUser
<1> DEFINE e == Envid2env(id, curenv[c], TRUE)
<1>2. e \in Slot /\ TrapReturn(c, SetEnvStatus(envs, e, st), curenv[c])
  BY <1>1, Envid2envType DEF SetStatus, MaybeSlot, TypeInv
<1>3. SetEnvStatus(envs, e, st) \in Table
  BY <1>2, SetStatusType DEF TypeInv, TypeOK, Table
<1> QED
  BY <1>1, <1>2, <1>3, TrapReturnLeft DEF TypeInv, MaybeSlot

LEMMA HandleLeft ==
  ASSUME TypeInv, NEW c \in CPU, Handle(c)
  PROVE  /\ pc[c] = "kern" /\ Left(c)
         /\ env_free_list' \in Seq(Slot) /\ forking' \in [Slot -> EnvId]
<1> USE DEF TypeInv
<1>0. /\ envs \in Table /\ curenv[c] \in MaybeSlot /\ NULL \in MaybeSlot
      /\ env_free_list \in Seq(Slot) /\ forking \in [Slot -> EnvId]
  BY DEF TypeOK, MaybeSlot, Table
<1>1. CASE Reschedule(c)
  BY <1>0, <1>1, SchedYieldLeft DEF Reschedule
<1>2. CASE Reap(c)
  <2>1. curenv[c] \in Slot /\ pc[c] = "kern"
    BY <1>2, TrappedEnv DEF Reap, Dying
  <2> QED
    BY <1>0, <1>2, <2>1, FreeEnvType, EnvFreeListsType, SchedYieldLeft DEF Reap
<1>3. ASSUME InCall(c)
      PROVE  pc[c] = "kern" /\ curenv[c] \in Slot /\ envs[curenv[c]].id \in EnvId
  <2>1. pc[c] = "kern" /\ curenv[c] \in Slot
    BY <1>3, TrappedEnv DEF InCall, FromUser
  <2> QED
    BY <2>1, <1>0 DEF Table, Env
<1>4. CASE SysOther(c)
  BY <1>0, <1>3, <1>4, TrapReturnLeft DEF SysOther
<1>5. CASE SysYield(c)
  BY <1>0, <1>3, <1>5, SchedYieldLeft DEF SysYield, InProgram
<1>6. CASE SysExofork(c)
  <2> DEFINE e == Head(env_free_list)
             A == AllocEnv(envs, e, envs[curenv[c]].id)
             E == NewChild(envs, e, envs[curenv[c]].id)
  <2>1. pc[c] = "kern" /\ curenv[c] \in Slot /\ envs[curenv[c]].id \in EnvId
    BY <1>3, <1>6 DEF SysExofork, InProgram
  <2>2. e \in Slot /\ Tail(env_free_list) \in Seq(Slot)
    BY <1>0, <1>6, HeadTailProperties DEF SysExofork
  <2>3. A \in Table
    BY <1>0, <2>1, <2>2, AllocEnvType
  <2>4. E \in Table /\ E[e].id \in EnvId
    BY <2>2, <2>3, SetStatusType DEF NewChild, Status, Table, Env
  <2>5. /\ env_free_list' = Tail(env_free_list)
        /\ forking' = [forking EXCEPT ![curenv[c]] = E[e].id]
        /\ TrapReturn(c, E, curenv[c])
    BY <1>6 DEF SysExofork
  <2>6. Left(c)
    BY <1>0, <2>4, <2>5, TrapReturnLeft
  <2> QED
    BY <1>0, <2>1, <2>2, <2>4, <2>5, <2>6
<1>7. CASE SysStartChild(c)
  <2>1. pc[c] = "kern" /\ curenv[c] \in Slot
    BY <1>3, <1>7 DEF SysStartChild
  <2>2. Left(c)
    BY <1>0, <1>7, <2>1, SetStatusLeft DEF SysStartChild, Status
  <2> QED
    BY <1>0, <1>7, <2>1, <2>2, NoIdType DEF SysStartChild
<1>8. CASE SysSetStatus(c)
  BY <1>0, <1>3, <1>8, SetStatusLeft DEF SysSetStatus, InProgram, Status
<1>9. CASE SysDestroy(c)
  <2>1. pc[c] = "kern" /\ curenv[c] \in Slot
    BY <1>3, <1>9 DEF SysDestroy, InProgram
  <2>2. PICK id \in EnvId : LET e == Envid2env(id, curenv[c], TRUE)
                           IN  e # NULL /\ EnvDestroy(c, e)
    BY <1>9 DEF SysDestroy
  <2>3. Envid2env(id, curenv[c], TRUE) \in Slot
    BY <2>1, <2>2, Envid2envType DEF MaybeSlot
  <2> QED
    BY <2>1, <2>2, <2>3, EnvDestroyLeft
<1>10. CASE Fault(c)
  BY <1>3, <1>10, EnvDestroyLeft DEF Fault
<1>11. CASE SysIpcRecv(c)
  <2> DEFINE E == [envs EXCEPT ![curenv[c]].recving = TRUE,
                               ![curenv[c]].status = "NOT_RUNNABLE"]
  <2>1. pc[c] = "kern" /\ curenv[c] \in Slot
    BY <1>3, <1>11 DEF SysIpcRecv, InProgram
  <2>2. E \in Table
    BY <1>0, <2>1 DEF Table, Env, Status
  <2> QED
    BY <1>0, <1>11, <2>1, <2>2, SchedYieldLeft DEF SysIpcRecv
<1>12. CASE SysIpcTrySend(c)
  <2>1. pc[c] = "kern" /\ curenv[c] \in Slot
    BY <1>3, <1>12 DEF SysIpcTrySend, InProgram
  <2>2. PICK id \in EnvId :
          LET e == Envid2env(id, curenv[c], FALSE)
          IN  e # NULL /\ TrapReturn(c, Receive(envs, e), curenv[c])
    BY <1>12 DEF SysIpcTrySend
  <2> DEFINE e == Envid2env(id, curenv[c], FALSE)
             E == Receive(envs, e)
  <2>3. e \in Slot
    BY <2>1, <2>2, Envid2envType DEF MaybeSlot
  <2>4. E \in Table
    BY <1>0, <2>3 DEF Receive, Table, Env, Status
  <2>5. Left(c)
    BY <1>0, <2>2, <2>4, TrapReturnLeft
  <2> QED
    BY <1>0, <1>12, <2>1, <2>5 DEF SysIpcTrySend
<1> QED
  BY <1>1, <1>2, <1>4, <1>5, <1>6, <1>7, <1>8, <1>9, <1>10, <1>11, <1>12
  DEF Handle, Syscall

-----------------------------------------------------------------------------
(* Types and mutual exclusion.                                             *)

LEMMA TypeInvInit == Init => TypeInv
<1> SUFFICES ASSUME Init PROVE TypeInv
  OBVIOUS
<1> USE KernelAssumption DEF Init
<1>1. envs \in [Slot -> Env]
  BY NoIdType DEF Slot, Env, EnvId, Status
<1>2. env_free_list \in Seq(Slot)
  BY DEF Slot
<1>3. TypeOK
  BY <1>1, <1>2, NoIdType DEF TypeOK, Cause
<1>4. Control
  BY NullNotSlot DEF Control
<1>5. MutualExclusion
  BY DEF MutualExclusion, InKernel
<1> QED
  BY <1>3, <1>4, <1>5 DEF TypeInv

LEMMA TypeInvNext == TypeInv /\ [Next]_vars => TypeInv'
<1> SUFFICES ASSUME TypeInv, [Next]_vars PROVE TypeInv'
  OBVIOUS
<1>1. CASE UNCHANGED vars
  BY <1>1 DEF TypeInv, TypeOK, Control, MutualExclusion, InKernel, vars
<1>2. ASSUME NEW c \in CPU, NEW why \in Cause, TrapEntry(c, why)
      PROVE  TypeInv'
  <2>2. need' = [need EXCEPT ![c] = 1] /\ pc' = [pc EXCEPT ![c] = "spin"]
    <3>1. LocksToTake(c, why) = 1
      BY <1>2 DEF TypeInv, TypeOK, Control, TrapEntry, LocksToTake
    <3>2. need' = [need EXCEPT ![c] = 1]
      BY <1>2, <3>1 DEF TrapEntry
    <3>3. need'[c] # 0
      BY <3>2 DEF TypeInv, TypeOK
    <3>4. pc' = [pc EXCEPT ![c] = IF need'[c] = 0 THEN "kern" ELSE "spin"]
      BY <1>2 DEF TrapEntry
    <3> QED
      BY <3>2, <3>3, <3>4
  <2>1. TypeOK'
    BY <1>2, <2>2 DEF TypeInv, TypeOK, TrapEntry, Cause
  <2>3. Control'
    BY <1>2, <2>2 DEF TypeInv, TypeOK, Control, TrapEntry, Cause
  <2>4. MutualExclusion'
    BY <1>2, <2>2 DEF TypeInv, TypeOK, MutualExclusion, InKernel, TrapEntry
  <2> QED
    BY <2>1, <2>3, <2>4 DEF TypeInv
<1>3. ASSUME NEW c \in CPU, Acquire(c) PROVE TypeInv'
  <2>1. TypeOK'
    BY <1>3 DEF TypeInv, TypeOK, Control, Acquire
  <2>2. Control'
    BY <1>3 DEF TypeInv, TypeOK, Control, Acquire
  <2>3. MutualExclusion'
    BY <1>3 DEF TypeInv, TypeOK, Control, MutualExclusion, InKernel, Acquire
  <2> QED
    BY <2>1, <2>2, <2>3 DEF TypeInv
<1>4. ASSUME NEW c \in CPU, Handle(c) PROVE TypeInv'
  BY <1>4, HandleLeft, LeftTypeInv
<1> QED
  BY <1>1, <1>2, <1>3, <1>4 DEF Next

\* Kernel's variables have their types, kernel code runs on one CPU at a time
\* with the lock held, and cpu_status and curenv agree with what each CPU does,
\* whatever calls user programs make.
THEOREM TypeInvariant == Spec => []TypeInv
  BY TypeInvInit, TypeInvNext, PTL DEF Spec

\* Every variable keeps its type.
THEOREM TypeCorrect == Spec => []TypeOK
  BY TypeInvariant, PTL DEF TypeInv

\* The big kernel lock works: trap() and sched_halt() never let two CPUs run
\* kernel code, nor one CPU without the lock.
THEOREM BigKernelLock == Spec => []MutualExclusion
  BY TypeInvariant, PTL DEF TypeInv

-----------------------------------------------------------------------------
(* The environment table.  From here on user programs are disciplined: they *)
(* use sys_env_set_status only to start a child they have built, and kill   *)
(* an environment only once.                                                *)

Disciplined == "status" \notin Calls /\ "rekill" \notin Calls

IInv ==
  /\ TypeInv
  /\ CurrentEnvs
  /\ FreeListExact
  /\ IdsOK
  /\ ChildIntact
  /\ ReceiverBlocked
  /\ MonitorIsFinal

\* The parts of IInv that speak of the table only, for any table E, free list
\* fl and table fk of the children that programs are building.
FreeIn(E, fl) ==
  /\ \A i, j \in DOMAIN fl : fl[i] = fl[j] => i = j
  /\ {e \in Slot : E[e].status = "FREE"} = {fl[i] : i \in DOMAIN fl}

IdsIn(E) == \A e \in Slot :
  E[e].status # "FREE" => E[e].id[1] # 0 /\ ENVX(E[e].id) = e

IntactIn(E, fk) == \A e \in Slot : fk[e] # NoId =>
  LET k == ENVX(fk[e])
  IN  /\ E[k].id = fk[e] /\ E[k].parent = E[e].id
      /\ E[k].status = "NOT_RUNNABLE" /\ ~E[k].recving
      /\ E[e].status # "FREE"

BlockedIn(E) == \A e \in Slot :
  E[e].recving /\ E[e].status # "FREE" => E[e].status = "NOT_RUNNABLE"

GoodTable(E, fl, fk) ==
  E \in Table /\ FreeIn(E, fl) /\ IdsIn(E) /\ IntactIn(E, fk) /\ BlockedIn(E)

\* Table E and cur are fit for CPU c to leave the kernel with: what is RUNNING
\* or DYING runs on another CPU, except for cur.
Ready(c, E, cur) ==
  /\ cur \in MaybeSlot
  /\ \A d \in CPU \ {c} : cur # NULL => curenv[d] # cur
  /\ \A e \in Slot : E[e].status \in {"RUNNING", "DYING"}
       <=> \/ e = cur /\ E[e].status = "RUNNING"
           \/ \E d \in CPU \ {c} : curenv[d] = e

\* What leaving the kernel makes of table E: only RUNNABLE and RUNNING change.
Settled(c, E) ==
  /\ \A e \in Slot : /\ envs'[e].id = E[e].id /\ envs'[e].parent = E[e].parent
                      /\ envs'[e].recving = E[e].recving
                      /\ \/ envs'[e].status = E[e].status
                         \/ {E[e].status, envs'[e].status} \subseteq {"RUNNABLE", "RUNNING"}
  /\ pc'[c] = "monitor" => \A e \in Slot : envs'[e].status \in {"FREE", "NOT_RUNNABLE"}
  /\ CurrentEnvs'

LEMMA OnlyOneInKernel ==
  ASSUME IInv, NEW c \in CPU, pc[c] = "kern"
  PROVE  /\ \A d \in CPU \ {c} : pc[d] \in {"user", "halt", "spin"}
         /\ \A d, f \in CPU : curenv[d] = curenv[f] /\ curenv[d] # NULL => d = f
         /\ \A e \in Slot : envs[e].status \in {"RUNNING", "DYING"}
                              <=> \E d \in CPU : curenv[d] = e
<1>1. \A d \in CPU \ {c} : pc[d] \in {"user", "halt", "spin"}
  BY DEF IInv, TypeInv, TypeOK, MutualExclusion, InKernel
<1>2. \A d \in CPU : pc[d] # "monitor"
  BY <1>1
<1> QED
  BY <1>1, <1>2 DEF IInv, CurrentEnvs

LEMMA EnvRunSettled ==
  ASSUME IInv, NEW c \in CPU, pc[c] = "kern", NEW E \in Table, NEW cur,
         Ready(c, E, cur), NEW e \in Slot,
         E[e].status = "RUNNABLE" \/ (e = cur /\ E[e].status = "RUNNING"),
         EnvRun(c, E, cur, e)
  PROVE  Settled(c, E)
<1> DEFINE Put == IF cur # NULL /\ E[cur].status = "RUNNING"
                  THEN SetEnvStatus(E, cur, "RUNNABLE") ELSE E
<1>1. cur \in MaybeSlot /\ Put \in Table
  BY SetStatusType DEF Ready, MaybeSlot, Status
<1>2. /\ envs' = SetEnvStatus(Put, e, "RUNNING")
      /\ curenv' = [curenv EXCEPT ![c] = e] /\ pc' = [pc EXCEPT ![c] = "user"]
  BY DEF EnvRun, Exit
<1>3. \A d \in Slot :
        /\ Put[d].id = E[d].id /\ Put[d].parent = E[d].parent
        /\ Put[d].recving = E[d].recving
        /\ Put[d].status = IF d = cur /\ E[d].status = "RUNNING" THEN "RUNNABLE"
                           ELSE E[d].status
  BY <1>1, NullNotSlot DEF SetEnvStatus, MaybeSlot, Table, Env
<1>4. \A d \in Slot :
        /\ envs'[d].id = E[d].id /\ envs'[d].parent = E[d].parent
        /\ envs'[d].recving = E[d].recving
        /\ envs'[d].status = IF d = e THEN "RUNNING" ELSE Put[d].status
  BY <1>1, <1>2, <1>3 DEF SetEnvStatus, Table, Env
<1>5. \A d \in Slot : \/ envs'[d].status = E[d].status
                      \/ {E[d].status, envs'[d].status} \subseteq {"RUNNABLE", "RUNNING"}
  BY <1>3, <1>4
<1>6. \A d \in CPU \ {c} : pc'[d] # "monitor" /\ curenv'[d] = curenv[d]
  BY <1>2, OnlyOneInKernel DEF IInv, TypeInv, TypeOK
<1>7. curenv'[c] = e /\ pc'[c] = "user"
  BY <1>2 DEF IInv, TypeInv, TypeOK
<1>8. \A d \in CPU \ {c} : curenv[d] # e
  BY NullNotSlot DEF Ready
<1>9. CurrentEnvs'
  <2>1. \A d, f \in CPU : curenv'[d] = curenv'[f] /\ curenv'[d] # NULL => d = f
    BY <1>6, <1>7, <1>8, OnlyOneInKernel
  <2>2. \A d \in Slot : envs'[d].status \in {"RUNNING", "DYING"}
                         <=> d = e \/ \E f \in CPU \ {c} : curenv[f] = d
    BY <1>3, <1>4 DEF Ready
  <2>3. \A d \in Slot : (\E f \in CPU : curenv'[f] = d /\ pc'[f] # "monitor")
                         <=> d = e \/ \E f \in CPU \ {c} : curenv[f] = d
    BY <1>6, <1>7
  <2> QED
    BY <2>1, <2>2, <2>3 DEF CurrentEnvs
<1> QED
  BY <1>4, <1>5, <1>7, <1>9 DEF Settled

LEMMA SchedHaltSettled ==
  ASSUME IInv, NEW c \in CPU, pc[c] = "kern", NEW E \in Table, NEW cur,
         Ready(c, E, cur), SchedHalt(c, E, cur),
         ~(cur # NULL /\ E[cur].status = "RUNNING")
  PROVE  Settled(c, E)
<1>1. envs' = E
  BY DEF SchedHalt
<1>2. \A d \in CPU \ {c} : pc'[d] # "monitor" /\ curenv'[d] = curenv[d]
  BY OnlyOneInKernel DEF IInv, TypeInv, TypeOK, SchedHalt, Exit
<1>3. \/ pc'[c] = "halt" /\ curenv'[c] = NULL
      \/ /\ pc'[c] = "monitor" /\ curenv'[c] = cur
         /\ \A e \in Slot : E[e].status \in {"FREE", "NOT_RUNNABLE"}
  BY DEF IInv, TypeInv, TypeOK, SchedHalt, Alive, Exit, Table, Env, Status
<1>4. CurrentEnvs'
  <2>1. \A d, f \in CPU : curenv'[d] = curenv'[f] /\ curenv'[d] # NULL => d = f
    BY <1>2, <1>3, OnlyOneInKernel DEF Ready
  <2>2. \A d \in Slot : envs'[d].status \in {"RUNNING", "DYING"}
                         <=> \E f \in CPU \ {c} : curenv[f] = d
    BY <1>1, NullNotSlot DEF Ready, MaybeSlot
  <2>3. \A d \in Slot : (\E f \in CPU : curenv'[f] = d /\ pc'[f] # "monitor")
                         <=> \E f \in CPU \ {c} : curenv[f] = d
    BY <1>2, <1>3, NullNotSlot
  <2> QED
    BY <2>1, <2>2, <2>3 DEF CurrentEnvs
<1> QED
  BY <1>1, <1>3, <1>4 DEF Settled

LEMMA SchedYieldSettled ==
  ASSUME IInv, NEW c \in CPU, pc[c] = "kern", NEW E \in Table, NEW cur,
         Ready(c, E, cur), SchedYield(c, E, cur)
  PROVE  Settled(c, E)
<1> DEFINE At(k) == (StartSlot(E, cur) + k) % NENV
<1>1. cur \in MaybeSlot
  BY DEF Ready
<1>2. StartSlot(E, cur) \in Slot
  BY <1>1, ENVXType, KernelAssumption DEF StartSlot, Slot, MaybeSlot, Table, Env
<1>3. \A k \in Slot : At(k) \in Slot
  BY <1>2, KernelAssumption DEF Slot
<1>4. CASE \E k \in Slot : Runnable(E, At(k)) /\ EnvRun(c, E, cur, At(k))
  BY <1>3, <1>4, EnvRunSettled DEF Runnable
<1>5. CASE cur # NULL /\ E[cur].status = "RUNNING" /\ EnvRun(c, E, cur, cur)
  BY <1>1, <1>5, EnvRunSettled DEF MaybeSlot
<1>6. CASE ~(cur # NULL /\ E[cur].status = "RUNNING") /\ SchedHalt(c, E, cur)
  BY <1>6, SchedHaltSettled
<1> QED
  BY <1>4, <1>5, <1>6 DEF SchedYield

LEMMA TrapReturnSettled ==
  ASSUME IInv, NEW c \in CPU, pc[c] = "kern", NEW E \in Table, NEW cur,
         Ready(c, E, cur), TrapReturn(c, E, cur)
  PROVE  Settled(c, E)
<1>1. CASE cur # NULL /\ E[cur].status = "RUNNING" /\ EnvRun(c, E, cur, cur)
  BY <1>1, EnvRunSettled DEF Ready, MaybeSlot
<1>2. CASE SchedYield(c, E, cur)
  BY <1>2, SchedYieldSettled
<1> QED
  BY <1>1, <1>2 DEF TrapReturn

\* A handler that leaves a good table behind preserves IInv.
LEMMA SettledIInv ==
  ASSUME IInv, NEW c \in CPU, TypeInv', NEW E, Settled(c, E),
         GoodTable(E, env_free_list', forking'),
         \A d \in CPU \ {c} : pc[d] # "monitor" /\ pc'[d] = pc[d]
  PROVE  IInv'
<1>1. \A e \in Slot : /\ envs'[e].status = "FREE" <=> E[e].status = "FREE"
                      /\ envs'[e].status = "NOT_RUNNABLE" <=> E[e].status = "NOT_RUNNABLE"
                      /\ envs'[e].id = E[e].id /\ envs'[e].parent = E[e].parent
                      /\ envs'[e].recving = E[e].recving
  BY DEF Settled
<1>2. FreeListExact'
  BY <1>1 DEF GoodTable, FreeIn, FreeListExact
<1>3. IdsOK'
  BY <1>1 DEF GoodTable, IdsIn, IdsOK
<1>4. ChildIntact'
  <2>1. \A e \in Slot : forking'[e] \in EnvId
    BY DEF TypeInv, TypeOK
  <2> QED
    BY <1>1, <2>1, ENVXType DEF GoodTable, IntactIn, ChildIntact
<1>5. ReceiverBlocked'
  BY <1>1 DEF GoodTable, BlockedIn, ReceiverBlocked
<1>6. MonitorIsFinal'
  BY DEF Settled, MonitorIsFinal
<1> QED
  BY <1>2, <1>3, <1>4, <1>5, <1>6 DEF IInv, Settled

-----------------------------------------------------------------------------
(* The handlers' tables.                                                   *)

\* Only the CPU that runs a zombie takes it out of that state.
KeepsZombies(c, E) == \A e \in Slot :
  envs[e].status = "DYING" /\ curenv[c] # e => E[e].status = "DYING"

\* A slot that is taken into use changes its identifier.
NewIds(E) == \A e \in Slot :
  envs[e].status = "FREE" /\ E[e].status # "FREE" => E[e].id # envs[e].id

\* Nobody is freed too early, or known by an old name.
Lives(c, E) == KeepsZombies(c, E) /\ NewIds(E)

LEMMA TableOfIInv ==
  ASSUME IInv
  PROVE  GoodTable(envs, env_free_list, forking)
  BY DEF IInv, TypeInv, TypeOK, GoodTable, Table, FreeIn, FreeListExact, IdsIn,
         IdsOK, IntactIn, ChildIntact, BlockedIn, ReceiverBlocked

\* The CPU's own environment, when it is not a zombie.
LEMMA OwnEnv ==
  ASSUME IInv, NEW c \in CPU, pc[c] = "kern", ~Dying(c)
  PROVE  /\ Ready(c, envs, curenv[c])
         /\ curenv[c] # NULL => envs[curenv[c]].status = "RUNNING"
<1>1. curenv[c] \in MaybeSlot
  BY DEF IInv, TypeInv, TypeOK, MaybeSlot
<1>2. curenv[c] # NULL => FromUser(c)
  BY DEF IInv, TypeInv, TypeOK, Control, FromUser, Cause
<1>3. curenv[c] # NULL => envs[curenv[c]].status = "RUNNING"
  BY <1>1, <1>2, OnlyOneInKernel DEF Dying, MaybeSlot
<1> QED
  BY <1>1, <1>3, OnlyOneInKernel, NullNotSlot DEF Ready

LEMMA FreeOwn ==
  ASSUME IInv, NEW c \in CPU, pc[c] = "kern", curenv[c] \in Slot
  PROVE  Ready(c, FreeEnv(envs, curenv[c]), NULL)
<1>1. \A e \in Slot : FreeEnv(envs, curenv[c])[e].status
                        = IF e = curenv[c] THEN "FREE" ELSE envs[e].status
  BY DEF IInv, TypeInv, TypeOK, FreeEnv, SetEnvStatus, Env
<1>2. \A d \in CPU \ {c} : curenv[d] # curenv[c]
  BY OnlyOneInKernel, NullNotSlot
<1> QED
  BY <1>1, <1>2, OnlyOneInKernel, NullNotSlot DEF Ready, MaybeSlot

\* Freeing an environment that is not already free.
LEMMA FreeGood ==
  ASSUME IInv, NEW e \in Slot, envs[e].status \notin {"FREE"}, EnvFreeLists(e),
         \A d \in Slot : forking[d] # NoId => ENVX(forking[d]) # e
  PROVE  GoodTable(FreeEnv(envs, e), env_free_list', forking')
<1> DEFINE E == FreeEnv(envs, e)
           fl == env_free_list
<1> USE DEF IInv, TypeInv
<1>1. E \in Table
  BY FreeEnvType
<1>2. \A d \in Slot : /\ E[d].id = envs[d].id /\ E[d].parent = envs[d].parent
                      /\ E[d].recving = envs[d].recving
                      /\ E[d].status = IF d = e THEN "FREE" ELSE envs[d].status
  BY DEF TypeOK, FreeEnv, SetEnvStatus, Env
<1>3. FreeIn(E, env_free_list')
  <2>1. env_free_list \in Seq(Slot) /\ Distinct(env_free_list)
    BY DEF TypeOK, FreeListExact, Distinct
  <2>2. env_free_list' = <<e>> \o env_free_list
    BY DEF EnvFreeLists
  <2>3. e \notin Elems(env_free_list)
    BY DEF FreeListExact, Elems
  <2>4. Distinct(env_free_list') /\ Elems(env_free_list') = Elems(env_free_list) \cup {e}
    BY <2>1, <2>2, <2>3, PushFront
  <2>5. Elems(env_free_list) = {d \in Slot : envs[d].status = "FREE"}
    BY DEF FreeListExact, Elems
  <2>6. {d \in Slot : E[d].status = "FREE"} = Elems(env_free_list')
    BY <1>2, <2>4, <2>5
  <2> QED
    BY <2>4, <2>6 DEF FreeIn, Distinct, Elems
<1>4. IdsIn(E)
  BY <1>2 DEF IdsIn, IdsOK
<1>5. IntactIn(E, forking')
  <2>1. \A d \in Slot : forking'[d] = IF d = e THEN NoId ELSE forking[d]
    BY DEF EnvFreeLists, TypeOK
  <2>2. \A d \in Slot : ENVX(forking[d]) \in Slot
    BY ENVXType DEF TypeOK
  <2> QED
    BY <1>2, <2>1, <2>2 DEF IntactIn, ChildIntact
<1>6. BlockedIn(E)
  BY <1>2 DEF BlockedIn, ReceiverBlocked
<1> QED
  BY <1>1, <1>3, <1>4, <1>5, <1>6 DEF GoodTable

\* What a handler must show for IInv to be preserved.
Good(c, E) ==
  /\ Settled(c, E)
  /\ GoodTable(E, env_free_list', forking')
  /\ Lives(c, E)

\* Nobody is building a child that is running, dying or runnable.
LEMMA NotBuilt ==
  ASSUME IInv, NEW e \in Slot, envs[e].status # "NOT_RUNNABLE" \/ envs[e].recving
  PROVE  \A d \in Slot : forking[d] # NoId => ENVX(forking[d]) # e
  BY DEF IInv, ChildIntact

LEMMA ReapGood ==
  ASSUME IInv, NEW c \in CPU, pc[c] = "kern", curenv[c] \in Slot,
         EnvFreeLists(curenv[c]), SchedYield(c, FreeEnv(envs, curenv[c]), NULL)
  PROVE  Good(c, FreeEnv(envs, curenv[c]))
<1>1. envs[curenv[c]].status \in {"RUNNING", "DYING"}
  BY OnlyOneInKernel
<1>2. GoodTable(FreeEnv(envs, curenv[c]), env_free_list', forking')
  BY <1>1, FreeGood, NotBuilt
<1>3. Settled(c, FreeEnv(envs, curenv[c]))
  BY FreeOwn, SchedYieldSettled, FreeEnvType DEF IInv, TypeInv
<1>4. Lives(c, FreeEnv(envs, curenv[c]))
  BY DEF Lives, KeepsZombies, NewIds, FreeEnv, SetEnvStatus, IInv, TypeInv, TypeOK, Env
<1> QED
  BY <1>2, <1>3, <1>4 DEF Good

\* env_destroy on an environment that is not a zombie yet, by a caller inside
\* no fork() of that environment.
LEMMA EnvDestroyGood ==
  ASSUME IInv, NEW c \in CPU, pc[c] = "kern", ~Dying(c), NEW e \in Slot,
         envs[e].status \notin {"FREE", "DYING"},
         \A d \in Slot : forking[d] # NoId => ENVX(forking[d]) # e,
         EnvDestroy(c, e)
  PROVE  \E E : Good(c, E)
<1> USE DEF IInv, TypeInv
<1>0. /\ Ready(c, envs, curenv[c]) /\ curenv[c] \in MaybeSlot
      /\ curenv[c] # NULL => envs[curenv[c]].status = "RUNNING"
  BY OwnEnv DEF Ready
<1>1. CASE envs[e].status = "RUNNING" /\ curenv[c] # e
  <2> DEFINE E == SetEnvStatus(envs, e, "DYING")
  <2>1. E \in Table
    BY SetStatusType DEF TypeOK, Table, Status
  <2>2. \A d \in Slot : /\ E[d].id = envs[d].id /\ E[d].parent = envs[d].parent
                        /\ E[d].recving = envs[d].recving
                        /\ E[d].status = IF d = e THEN "DYING" ELSE envs[d].status
    BY DEF TypeOK, SetEnvStatus, Env
  <2>3. env_free_list' = env_free_list /\ forking' = forking
        /\ TrapReturn(c, E, curenv[c])
    BY <1>1 DEF EnvDestroy, RunsElsewhere
  <2>4. Ready(c, E, curenv[c])
    BY <1>0, <1>1, <2>2, OnlyOneInKernel DEF Ready
  <2>5. Settled(c, E)
    BY <2>1, <2>3, <2>4, TrapReturnSettled
  <2>6. FreeIn(E, env_free_list')
    BY <1>1, <2>2, <2>3, {d \in Slot : E[d].status = "FREE"}
                          = {d \in Slot : envs[d].status = "FREE"}
    DEF FreeIn, FreeListExact
  <2>7. IdsIn(E)
    BY <1>1, <2>2 DEF IdsIn, IdsOK
  <2>8. IntactIn(E, forking')
    <3>1. \A d \in Slot : ENVX(forking[d]) \in Slot
      BY ENVXType DEF TypeOK
    <3> QED
      BY <1>1, <2>2, <2>3, <3>1 DEF IntactIn, ChildIntact
  <2>9. BlockedIn(E)
    BY <1>1, <2>2 DEF BlockedIn, ReceiverBlocked
  <2>10. Lives(c, E)
    BY <2>2 DEF Lives, KeepsZombies, NewIds
  <2> QED
    BY <2>1, <2>5, <2>6, <2>7, <2>8, <2>9, <2>10 DEF Good, GoodTable
<1>2. CASE curenv[c] = e
  BY <1>2, ReapGood DEF EnvDestroy, RunsElsewhere
<1>3. CASE envs[e].status # "RUNNING" /\ curenv[c] # e
  <2> DEFINE E == FreeEnv(envs, e)
  <2>1. EnvFreeLists(e) /\ TrapReturn(c, E, curenv[c])
    BY <1>3 DEF EnvDestroy, RunsElsewhere
  <2>2. \A d \in Slot : E[d].status = IF d = e THEN "FREE" ELSE envs[d].status
    BY DEF TypeOK, FreeEnv, SetEnvStatus, Env
  <2>3. Ready(c, E, curenv[c])
    BY <1>0, <1>3, <2>2, OnlyOneInKernel DEF Ready
  <2>4. Settled(c, E)
    BY <2>1, <2>3, FreeEnvType, TrapReturnSettled
  <2>5. GoodTable(E, env_free_list', forking')
    BY <2>1, FreeGood
  <2>6. Lives(c, E)
    BY <2>2 DEF Lives, KeepsZombies, NewIds
  <2> QED
    BY <2>4, <2>5, <2>6 DEF Good
<1> QED
  BY <1>1, <1>2, <1>3

\* A handler that changes no more than the entry of one environment, which is
\* not a child being built, and leaves the free list and forking alone.
LEMMA OneEntryGood ==
  ASSUME IInv, NEW c \in CPU, pc[c] = "kern", ~Dying(c), NEW e \in Slot,
         NEW E \in Table,
         \A d \in Slot \ {e} : E[d] = envs[d],
         E[e].id = envs[e].id, E[e].parent = envs[e].parent,
         envs[e].status \in {"RUNNING", "NOT_RUNNABLE"},
         e = curenv[c] \/ envs[e].status = "NOT_RUNNABLE",
         E[e].status \in {"RUNNABLE", "NOT_RUNNABLE"},
         E[e].recving => E[e].status = "NOT_RUNNABLE",
         \A d \in Slot : forking'[d] # NoId => ENVX(forking[d]) # e,
         \A d \in Slot : forking'[d] \in {NoId, forking[d]},
         env_free_list' = env_free_list
  PROVE  /\ Ready(c, E, curenv[c]) /\ Lives(c, E)
         /\ GoodTable(E, env_free_list', forking')
<1> USE DEF IInv, TypeInv
<1>0. /\ Ready(c, envs, curenv[c]) /\ curenv[c] \in MaybeSlot
      /\ curenv[c] # NULL => envs[curenv[c]].status = "RUNNING"
  BY OwnEnv DEF Ready
<1>1. Ready(c, E, curenv[c])
  <2>1. \A d \in CPU \ {c} : curenv[d] # e
    BY <1>0, NullNotSlot DEF Ready
  <2>2. ASSUME NEW d \in Slot
        PROVE  E[d].status \in {"RUNNING", "DYING"}
                 <=> \/ d = curenv[c] /\ E[d].status = "RUNNING"
                     \/ \E f \in CPU \ {c} : curenv[f] = d
    <3>1. CASE d = e
      BY <2>1, <3>1
    <3>2. CASE d # e
      BY <1>0, <3>2 DEF Ready
    <3> QED
      BY <3>1, <3>2
  <2> QED
    BY <1>0, <2>2 DEF Ready
<1>2. FreeIn(E, env_free_list')
  <2>1. {d \in Slot : E[d].status = "FREE"} = {d \in Slot : envs[d].status = "FREE"}
    OBVIOUS
  <2> QED
    BY <2>1 DEF FreeIn, FreeListExact
<1>3. IdsIn(E)
  <2>1. \A d \in Slot : E[d].id = envs[d].id /\ (E[d].status # "FREE" => envs[d].status # "FREE")
    OBVIOUS
  <2> QED
    BY <2>1 DEF IdsIn, IdsOK
<1>4. IntactIn(E, forking')
  <2>1. \A d \in Slot : ENVX(forking[d]) \in Slot
    BY ENVXType DEF TypeOK
  <2>2. ASSUME NEW d \in Slot, forking'[d] # NoId
        PROVE  LET k == ENVX(forking'[d])
               IN  /\ E[k].id = forking'[d] /\ E[k].parent = E[d].id
                   /\ E[k].status = "NOT_RUNNABLE" /\ ~E[k].recving
                   /\ E[d].status # "FREE"
    <3>1. forking'[d] = forking[d] /\ ENVX(forking[d]) # e
      BY <2>2
    <3>2. E[ENVX(forking[d])] = envs[ENVX(forking[d])] /\ E[d].id = envs[d].id
      BY <2>1, <3>1
    <3>3. E[d].status = "FREE" => envs[d].status = "FREE"
      OBVIOUS
    <3> QED
      BY <2>2, <3>1, <3>2, <3>3 DEF ChildIntact
  <2> QED
    BY <2>2 DEF IntactIn
<1>5. BlockedIn(E)
  BY DEF BlockedIn, ReceiverBlocked
<1>6. Lives(c, E)
  BY DEF Lives, KeepsZombies, NewIds
<1> QED
  BY <1>1, <1>2, <1>3, <1>4, <1>5, <1>6 DEF GoodTable

LEMMA SysExoforkGood ==
  ASSUME IInv, NEW c \in CPU, SysExofork(c)
  PROVE  \E E : Good(c, E)
<1> USE DEF IInv, TypeInv
<1> DEFINE p == curenv[c]
           e == Head(env_free_list)
           A == AllocEnv(envs, e, envs[p].id)
           E == NewChild(envs, e, envs[p].id)
<1>1. /\ pc[c] = "kern" /\ ~Dying(c) /\ p \in Slot /\ envs[p].status = "RUNNING"
      /\ Ready(c, envs, p)
  BY TrappedEnv, OwnEnv, NullNotSlot DEF SysExofork, InProgram, InCall, FromUser
<1>2. /\ env_free_list # <<>> /\ env_free_list' = Tail(env_free_list)
      /\ forking' = [forking EXCEPT ![p] = E[e].id] /\ TrapReturn(c, E, p)
  BY DEF SysExofork
<1>3. /\ env_free_list \in Seq(Slot) /\ Distinct(env_free_list)
      /\ Elems(env_free_list) = {d \in Slot : envs[d].status = "FREE"}
  BY DEF TypeOK, FreeListExact, Distinct, Elems
<1>4. /\ e \in Slot /\ envs[e].status = "FREE" /\ Distinct(Tail(env_free_list))
      /\ Elems(Tail(env_free_list)) = {d \in Slot : envs[d].status = "FREE"} \ {e}
  BY <1>2, <1>3, PopFront
<1>5. envs \in Table /\ envs[p].id \in EnvId /\ envs[e].id \in EnvId
  BY <1>1, <1>4 DEF TypeOK, Table, Env
<1>6. A \in Table /\ E \in Table
  BY <1>4, <1>5, AllocEnvType, SetStatusType DEF NewChild, Status
<1>7. /\ \A d \in Slot \ {e} : E[d] = envs[d]
      /\ E[e].id = NextId(envs[e].id, e)
      /\ E[e].parent = envs[p].id /\ E[e].status = "NOT_RUNNABLE" /\ ~E[e].recving
  BY <1>4, <1>5 DEF NewChild, AllocEnv, SetEnvStatus, Table
<1>8. NextId(envs[e].id, e)[1] # 0 /\ ENVX(NextId(envs[e].id, e)) = e
  BY <1>4, <1>5, NextIdType
<1> HIDE DEF E, A
<1>9. Ready(c, E, p)
  BY <1>1, <1>4, <1>7 DEF Ready
<1>10. FreeIn(E, env_free_list')
  <2>1. {d \in Slot : E[d].status = "FREE"} = {d \in Slot : envs[d].status = "FREE"} \ {e}
    BY <1>7
  <2> QED
    BY <1>2, <1>4, <2>1 DEF FreeIn, Distinct, Elems
<1>11. IdsIn(E)
  BY <1>7, <1>8 DEF IdsIn, IdsOK
<1>12. IntactIn(E, forking')
  <2>1. \A d \in Slot : forking'[d] = IF d = p THEN NextId(envs[e].id, e) ELSE forking[d]
    BY <1>2, <1>7 DEF TypeOK
  <2>2. \A d \in Slot : ENVX(forking[d]) \in Slot
    BY ENVXType DEF TypeOK
  <2>3. \A d \in Slot : forking[d] # NoId => ENVX(forking[d]) # e /\ d # e
    BY <1>4 DEF ChildIntact
  <2>4. p # e
    BY <1>1, <1>4
  <2> QED
    BY <1>1, <1>7, <1>8, <2>1, <2>2, <2>3, <2>4 DEF IntactIn, ChildIntact
<1>13. BlockedIn(E)
  BY <1>7 DEF BlockedIn, ReceiverBlocked
<1>14. Lives(c, E)
  <2>1. KeepsZombies(c, E)
    BY <1>4, <1>7 DEF KeepsZombies
  <2>2. NextId(envs[e].id, e) # envs[e].id
    BY <1>4, <1>5, NextIdType
  <2>3. NewIds(E)
    BY <1>7, <2>2 DEF NewIds
  <2> QED
    BY <2>1, <2>3 DEF Lives
<1>15. Settled(c, E)
  BY <1>1, <1>2, <1>6, <1>9, TrapReturnSettled
<1> QED
  BY <1>6, <1>10, <1>11, <1>12, <1>13, <1>14, <1>15 DEF Good, GoodTable

\* Every handler, by disciplined programs.
LEMMA HandleGood ==
  ASSUME IInv, Disciplined, NEW c \in CPU, Handle(c)
  PROVE  \E E : Good(c, E)
<1> USE DEF IInv, TypeInv
<1>0. /\ pc[c] = "kern" /\ envs \in Table
      /\ GoodTable(envs, env_free_list, forking)
  BY HandleLeft, TableOfIInv DEF TypeOK, Table
<1>1. ASSUME ~Dying(c), env_free_list' = env_free_list, forking' = forking,
             SchedYield(c, envs, curenv[c]) \/ TrapReturn(c, envs, curenv[c])
      PROVE  Good(c, envs)
  BY <1>0, <1>1, OwnEnv, SchedYieldSettled, TrapReturnSettled
  DEF Good, Lives, KeepsZombies, NewIds
<1>2. CASE Reschedule(c)
  BY <1>1, <1>2 DEF Reschedule
<1>3. CASE Reap(c)
  BY <1>0, <1>3, TrappedEnv, ReapGood DEF Reap, Dying
<1>4. CASE SysOther(c)
  BY <1>1, <1>4 DEF SysOther, InCall
<1>5. CASE SysYield(c)
  BY <1>1, <1>5 DEF SysYield, InProgram, InCall
<1>6. CASE SysExofork(c)
  BY <1>6, SysExoforkGood
<1>7. ASSUME InCall(c)
      PROVE  /\ ~Dying(c) /\ curenv[c] \in Slot /\ envs[curenv[c]].status = "RUNNING"
             /\ \A d \in Slot : forking[d] # NoId => ENVX(forking[d]) # curenv[c]
             /\ envs[curenv[c]].id # NoId /\ ENVX(envs[curenv[c]].id) = curenv[c]
  <2>1. ~Dying(c) /\ curenv[c] \in Slot
    BY <1>7, TrappedEnv DEF InCall, FromUser
  <2>2. envs[curenv[c]].status = "RUNNING"
    BY <1>0, <2>1, OwnEnv, NullNotSlot
  <2> QED
    BY <2>1, <2>2, NotBuilt DEF IdsOK, NoId
<1>8. CASE SysStartChild(c)
  <2> DEFINE p == curenv[c]
             e == Envid2env(forking[p], p, TRUE)
             E == SetEnvStatus(envs, e, "RUNNABLE")
  <2>1. /\ InCall(c) /\ forking[p] # NoId /\ forking' = [forking EXCEPT ![p] = NoId]
        /\ env_free_list' = env_free_list
        /\ e # NULL /\ TrapReturn(c, E, p)
    BY <1>8 DEF SysStartChild, SetStatus
  <2>2. p \in Slot /\ forking[p] \in EnvId /\ ~Dying(c)
    BY <1>7, <2>1 DEF TypeOK
  <2>3. e = ENVX(forking[p]) /\ e \in Slot
    BY <2>1, <2>2, ENVXType DEF Envid2env
  <2>4. envs[e].status = "NOT_RUNNABLE" /\ ~envs[e].recving /\ envs[e].parent = envs[p].id
        /\ envs[p].status # "FREE"
    BY <2>1, <2>2, <2>3 DEF ChildIntact
  <2>5. \A d \in Slot : forking'[d] = IF d = p THEN NoId ELSE forking[d]
    BY <2>1, <2>2 DEF TypeOK
  <2>6. \A d \in Slot : forking'[d] # NoId => ENVX(forking[d]) # e
    <3> SUFFICES ASSUME NEW d \in Slot, forking[d] # NoId, ENVX(forking[d]) = e
                 PROVE  d = p
      BY <2>5
    <3>1. envs[d].id = envs[p].id /\ envs[d].status # "FREE"
      BY <2>4 DEF ChildIntact
    <3> QED
      BY <2>2, <2>4, <3>1 DEF IdsOK
  <2>7. E \in Table
    BY <1>0, <2>3, SetStatusType DEF Status
  <2>8. /\ \A d \in Slot \ {e} : E[d] = envs[d]
        /\ E[e].id = envs[e].id /\ E[e].parent = envs[e].parent
        /\ E[e].status = "RUNNABLE" /\ E[e].recving = envs[e].recving
    BY <1>0, <2>3 DEF SetEnvStatus, Table, Env
  <2> HIDE DEF E
  <2>9. /\ Ready(c, E, p) /\ Lives(c, E)
        /\ GoodTable(E, env_free_list', forking')
    <3>1. \A d \in Slot : forking'[d] \in {NoId, forking[d]}
      BY <2>5
    <3>2. /\ pc[c] = "kern" /\ ~Dying(c) /\ env_free_list' = env_free_list
          /\ E[e].recving => E[e].status = "NOT_RUNNABLE"
      BY <1>0, <2>1, <2>2, <2>4, <2>8
    <3> HIDE DEF e, p
    <3> QED
      BY <2>3, <2>4, <2>6, <2>7, <2>8, <3>1, <3>2, OneEntryGood DEF p
  <2> QED
    BY <1>0, <2>1, <2>7, <2>9, TrapReturnSettled DEF Good
<1>9. CASE SysSetStatus(c)
  BY <1>9 DEF SysSetStatus, Disciplined
<1>10. CASE SysDestroy(c)
  <2> DEFINE p == curenv[c]
  <2>1. PICK id \in EnvId : LET e == Envid2env(id, p, TRUE)
                           IN  e # NULL /\ EnvDestroy(c, e) /\ envs[e].status # "DYING"
    BY <1>10 DEF SysDestroy, Disciplined
  <2> DEFINE e == Envid2env(id, p, TRUE)
  <2>2. InCall(c) /\ forking[p] = NoId
    BY <1>10 DEF SysDestroy, InProgram
  <2>3. p \in Slot /\ envs[p].status = "RUNNING" /\ ~Dying(c)
    BY <1>7, <2>2
  <2>4. /\ e \in Slot
        /\ e # p => envs[e].status # "FREE" /\ envs[e].parent = envs[p].id
    BY <2>1, <2>3, ENVXType DEF Envid2env
  <2>5. \A d \in Slot : forking[d] # NoId => ENVX(forking[d]) # e
    <3> SUFFICES ASSUME NEW d \in Slot, forking[d] # NoId, ENVX(forking[d]) = e
                 PROVE  FALSE
      OBVIOUS
    <3>1. envs[e].parent = envs[d].id /\ envs[d].status # "FREE" /\ e # p
      BY <2>3 DEF ChildIntact
    <3>2. d = p
      BY <2>3, <2>4, <3>1 DEF IdsOK
    <3> QED
      BY <2>2, <3>2
  <2> QED
    BY <1>0, <2>1, <2>3, <2>4, <2>5, EnvDestroyGood
<1>11. CASE Fault(c)
  BY <1>0, <1>7, <1>11, EnvDestroyGood DEF Fault
<1>12. CASE SysIpcRecv(c)
  <2> DEFINE p == curenv[c]
             E == [envs EXCEPT ![p].recving = TRUE, ![p].status = "NOT_RUNNABLE"]
  <2>1. /\ InCall(c) /\ env_free_list' = env_free_list /\ forking' = forking
        /\ forking[p] = NoId /\ SchedYield(c, E, p)
    BY <1>12 DEF SysIpcRecv, InProgram
  <2>2. /\ p \in Slot /\ envs[p].status = "RUNNING" /\ ~Dying(c)
        /\ \A d \in Slot : forking[d] # NoId => ENVX(forking[d]) # p
    BY <1>7, <2>1
  <2>3. E \in Table
    BY <1>0, <2>2 DEF Table, Env, Status
  <2>4. /\ \A d \in Slot \ {p} : E[d] = envs[d]
        /\ E[p].id = envs[p].id /\ E[p].parent = envs[p].parent
        /\ E[p].status = "NOT_RUNNABLE"
    BY <1>0, <2>2 DEF Table, Env
  <2> HIDE DEF E
  <2>5. /\ Ready(c, E, p) /\ Lives(c, E)
        /\ GoodTable(E, env_free_list', forking')
    BY <1>0, <2>1, <2>2, <2>3, <2>4, OneEntryGood
  <2> QED
    BY <1>0, <2>1, <2>3, <2>5, SchedYieldSettled DEF Good
<1>13. CASE SysIpcTrySend(c)
  <2> DEFINE p == curenv[c]
  <2>1. InCall(c) /\ env_free_list' = env_free_list /\ forking' = forking
    BY <1>13 DEF SysIpcTrySend, InProgram
  <2>2. PICK id \in EnvId :
          LET e == Envid2env(id, p, FALSE)
          IN  /\ e # NULL /\ envs[e].recving
              /\ TrapReturn(c, Receive(envs, e), p)
    BY <1>13 DEF SysIpcTrySend
  <2> DEFINE e == Envid2env(id, p, FALSE)
             E == Receive(envs, e)
  <2>3. p \in Slot /\ envs[p].status = "RUNNING" /\ ~Dying(c)
    BY <1>7, <2>1
  <2>4. e \in Slot /\ envs[e].status # "FREE"
    BY <2>2, <2>3, ENVXType DEF Envid2env
  <2>5. envs[e].recving /\ TrapReturn(c, E, p)
    BY <2>2
  <2>6. /\ envs[e].status = "NOT_RUNNABLE"
        /\ \A d \in Slot : forking[d] # NoId => ENVX(forking[d]) # e
    BY <2>4, <2>5, NotBuilt DEF ReceiverBlocked
  <2>7. E \in Table
    BY <1>0, <2>4 DEF Receive, Table, Env, Status
  <2>8. /\ \A d \in Slot \ {e} : E[d] = envs[d]
        /\ E[e].id = envs[e].id /\ E[e].parent = envs[e].parent
        /\ E[e].status = "RUNNABLE" /\ ~E[e].recving
    BY <1>0, <2>4 DEF Receive, Table, Env
  <2> HIDE DEF E, e
  <2>9. /\ Ready(c, E, p) /\ Lives(c, E)
        /\ GoodTable(E, env_free_list', forking')
    BY <1>0, <2>1, <2>3, <2>4, <2>6, <2>7, <2>8, OneEntryGood
  <2> QED
    BY <1>0, <2>1, <2>5, <2>7, <2>9, TrapReturnSettled DEF Good
<1> QED
  BY <1>2, <1>3, <1>4, <1>5, <1>6, <1>8, <1>9, <1>10, <1>11, <1>12, <1>13
  DEF Handle, Syscall

-----------------------------------------------------------------------------
(* The theorems about the environment table.                               *)

LEMMA IInvInit == Init => IInv
<1> SUFFICES ASSUME Init PROVE IInv
  OBVIOUS
<1> USE KernelAssumption DEF Init
<1>1. TypeInv
  BY TypeInvInit
<1>2. CurrentEnvs
  BY NullNotSlot DEF CurrentEnvs
<1>3. FreeListExact
  <2>1. DOMAIN env_free_list = 1..(NENV - NBOOT)
    OBVIOUS
  <2>2. \A i \in 1..(NENV - NBOOT) : env_free_list[i] = NBOOT + i - 1
    OBVIOUS
  <2>3. \A e \in Slot : envs[e].status = IF e < NBOOT THEN "RUNNABLE" ELSE "FREE"
    OBVIOUS
  <2>4. ASSUME NEW e \in Slot, envs[e].status = "FREE"
        PROVE  \E i \in DOMAIN env_free_list : env_free_list[i] = e
    <3>1. e \in Nat /\ NBOOT <= e /\ e <= NENV - 1
      BY <2>3, <2>4 DEF Slot
    <3>2. e - NBOOT + 1 \in 1..(NENV - NBOOT) /\ NBOOT + (e - NBOOT + 1) - 1 = e
      BY <3>1
    <3>3. env_free_list[e - NBOOT + 1] = e
      BY <2>2, <3>2
    <3> QED
      BY <2>1, <3>2, <3>3
  <2>5. ASSUME NEW i \in DOMAIN env_free_list
        PROVE  env_free_list[i] \in Slot /\ envs[env_free_list[i]].status = "FREE"
    BY <2>1, <2>2, <2>3 DEF Slot
  <2>6. {e \in Slot : envs[e].status = "FREE"}
          = {env_free_list[i] : i \in DOMAIN env_free_list}
    <3> DEFINE F == {e \in Slot : envs[e].status = "FREE"}
               L == {env_free_list[i] : i \in DOMAIN env_free_list}
    <3>1. \A x \in F : x \in L
      BY ONLY <2>4, Zenon
    <3>2. \A x \in L : x \in F
      BY ONLY <2>5, Zenon
    <3> QED
      BY ONLY <3>1, <3>2, Zenon
  <2>7. \A i, j \in 1..(NENV - NBOOT) : NBOOT + i - 1 = NBOOT + j - 1 => i = j
    OBVIOUS
  <2>8. \A i, j \in DOMAIN env_free_list : env_free_list[i] = env_free_list[j] => i = j
    BY <2>1, <2>2, <2>7
  <2> QED
    BY <2>6, <2>8 DEF FreeListExact
<1>4. IdsOK
  BY DEF IdsOK, ENVX, Slot
<1>5. ChildIntact /\ ReceiverBlocked /\ MonitorIsFinal
  BY DEF ChildIntact, ReceiverBlocked, MonitorIsFinal
<1> QED
  BY <1>1, <1>2, <1>3, <1>4, <1>5 DEF IInv

LEMMA IInvNext == Disciplined /\ IInv /\ [Next]_vars => IInv'
<1> SUFFICES ASSUME Disciplined, IInv, [Next]_vars PROVE IInv'
  OBVIOUS
<1>1. TypeInv'
  BY TypeInvNext DEF IInv
<1>2. CASE UNCHANGED vars
  BY <1>1, <1>2 DEF IInv, CurrentEnvs, FreeListExact, IdsOK, ChildIntact,
                    ReceiverBlocked, MonitorIsFinal, vars
<1>3. ASSUME NEW c \in CPU, NEW why \in Cause, TrapEntry(c, why) \/ Acquire(c)
      PROVE  IInv'
  <2>1. UNCHANGED <<envs, env_free_list, curenv, forking>>
    BY <1>3 DEF TrapEntry, Acquire
  <2>2. \A d \in CPU : pc'[d] = "monitor" <=> pc[d] = "monitor"
    BY <1>3 DEF IInv, TypeInv, TypeOK, TrapEntry, Acquire
  <2> QED
    BY <1>1, <2>1, <2>2 DEF IInv, CurrentEnvs, FreeListExact, IdsOK, ChildIntact,
                            ReceiverBlocked, MonitorIsFinal
<1>4. ASSUME NEW c \in CPU, Handle(c) PROVE IInv'
  <2>1. PICK E : Good(c, E)
    BY <1>4, HandleGood
  <2>2. pc[c] = "kern" /\ Left(c)
    BY <1>4, HandleLeft DEF IInv
  <2>3. \A d \in CPU \ {c} : pc[d] # "monitor" /\ pc'[d] = pc[d]
    BY <2>2, OnlyOneInKernel DEF IInv, TypeInv, TypeOK, Left
  <2> QED
    BY <1>1, <2>1, <2>3, SettledIInv DEF Good
<1> QED
  BY <1>2, <1>3, <1>4 DEF Next, Cause

\* The table, the free list and what the CPUs run agree, for disciplined
\* programs.
THEOREM TableInvariant == ASSUME Disciplined PROVE Spec => []IInv
  BY IInvInit, IInvNext, PTL DEF Spec

\* No environment runs on two CPUs, and what is marked RUNNING or DYING runs.
THEOREM EnvRunsOnce == ASSUME Disciplined PROVE Spec => []CurrentEnvs
  BY TableInvariant, PTL DEF IInv

\* env_alloc and env_free neither lose a slot nor hand one out twice.
THEOREM FreeListCorrect == ASSUME Disciplined PROVE Spec => []FreeListExact
  BY TableInvariant, PTL DEF IInv

\* A child is left alone until the fork() that builds it has ended.
THEOREM ForkUndisturbed == ASSUME Disciplined PROVE Spec => []ChildIntact
  BY TableInvariant, PTL DEF IInv

\* sys_ipc_try_send wakes only environments that are blocked in sys_ipc_recv.
THEOREM ReceiversBlocked == ASSUME Disciplined PROVE Spec => []ReceiverBlocked
  BY TableInvariant, PTL DEF IInv

\* A CPU is left in the monitor only when no environment can run any more.
THEOREM MonitorLast == ASSUME Disciplined PROVE Spec => []MonitorIsFinal
  BY TableInvariant, PTL DEF IInv

\* env_destroy on an environment that runs on another CPU frees nothing until
\* that CPU has trapped.
THEOREM ZombiesKeepTheirSlot == ASSUME Disciplined PROVE Spec => ZombieKeepsSlot
<1> DEFINE A == \A e \in Slot :
                  envs[e].status = "DYING" /\ envs'[e].status # "DYING" =>
                    \E c \in CPU : curenv[c] = e /\ pc[c] = "kern"
<1>1. IInv /\ [Next]_vars => [A]_vars
  <2> SUFFICES ASSUME IInv, Next, NEW e \in Slot, envs[e].status = "DYING",
                      envs'[e].status # "DYING"
               PROVE  \E c \in CPU : curenv[c] = e /\ pc[c] = "kern"
    OBVIOUS
  <2>1. PICK c \in CPU : (\E why \in Cause : TrapEntry(c, why)) \/ Acquire(c) \/ Handle(c)
    BY DEF Next
  <2>2. Handle(c)
    BY <2>1 DEF TrapEntry, Acquire
  <2>3. pc[c] = "kern"
    BY <2>2, HandleLeft DEF IInv
  <2>4. PICK E : Good(c, E)
    BY <2>2, HandleGood
  <2>5. E[e].status # "DYING"
    BY <2>4 DEF Good, Settled
  <2>6. curenv[c] = e
    BY <2>4, <2>5 DEF Good, Lives, KeepsZombies
  <2> QED
    BY <2>3, <2>6
<1> QED
  BY <1>1, TableInvariant, PTL DEF Spec, ZombieKeepsSlot

\* A slot that env_alloc hands out again gets another envid: one that was kept from
\* before names nobody.
THEOREM SlotsGetFreshIds == ASSUME Disciplined PROVE Spec => FreshIds
<1> DEFINE A == \A e \in Slot :
                  envs[e].status = "FREE" /\ envs'[e].status # "FREE" =>
                    /\ envs'[e].id # envs[e].id
                    /\ envs'[e].id[1] # 0 /\ ENVX(envs'[e].id) = e
<1>1. IInv /\ [Next]_vars => [A]_vars
  <2> SUFFICES ASSUME IInv, Next, NEW e \in Slot, envs[e].status = "FREE",
                      envs'[e].status # "FREE"
               PROVE  /\ envs'[e].id # envs[e].id
                      /\ envs'[e].id[1] # 0 /\ ENVX(envs'[e].id) = e
    OBVIOUS
  <2>1. PICK c \in CPU : (\E why \in Cause : TrapEntry(c, why)) \/ Acquire(c) \/ Handle(c)
    BY DEF Next
  <2>2. Handle(c)
    BY <2>1 DEF TrapEntry, Acquire
  <2>3. PICK E : Good(c, E)
    BY <2>2, HandleGood
  <2>4. E[e].status # "FREE" /\ envs'[e].id = E[e].id
    BY <2>3 DEF Good, Settled
  <2>5. E[e].id # envs[e].id
    BY <2>3, <2>4 DEF Good, Lives, NewIds
  <2>6. E[e].id[1] # 0 /\ ENVX(E[e].id) = e
    BY <2>3, <2>4 DEF Good, GoodTable, IdsIn
  <2> QED
    BY <2>4, <2>5, <2>6
<1> QED
  BY <1>1, TableInvariant, PTL DEF Spec, FreshIds
=============================================================================
