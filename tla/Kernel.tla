------------------------------- MODULE Kernel -------------------------------
(***************************************************************************)
(* The multiprocessor core of the JOS kernel: the environment table        *)
(* (kern/env.c), the scheduler (kern/sched.c), trap entry and exit         *)
(* (kern/trap.c), the big kernel lock (kern/spinlock.c) and the system     *)
(* calls that change an environment's status (kern/syscall.c).             *)
(*                                                                         *)
(* A CPU is in user mode, halted, spinning on the big kernel lock, or in   *)
(* the kernel.  A handler runs from the moment the lock is taken until     *)
(* env_run or sched_halt releases it, so it is one action; entering a      *)
(* trap, taking the lock and handling the trap are separate actions that   *)
(* interleave with the other CPUs.                                         *)
(*                                                                         *)
(* Data no property here reads is left out: registers, env_runs, and the   *)
(* payload of a message (env_ipc_from, env_ipc_value, env_ipc_perm).       *)
(***************************************************************************)
EXTENDS Naturals, Sequences

CONSTANTS
  NENV,      \* number of slots of the environment table
  NBOOT,     \* environments ENV_CREATEd by i386_init
  CPU,       \* the processors
  BootCPU,   \* the one that runs i386_init
  MaxGen,    \* generations in an envid_t before it wraps (2^19 - 1 in the code)
  Calls,     \* which calls user programs make, a subset of AllCalls
  NULL       \* curenv of a CPU that runs no environment

\* "status" is sys_env_set_status on any environment at any time, "fork" its use
\* by fork(), fork_v0(), dumbfork() and spawn().  "destroy" kills an environment
\* once, which is all lib/ and user/ ever do; "rekill" kills a zombie again.
AllCalls == {"yield", "fork", "destroy", "fault", "ipc", "status", "rekill"}

ASSUME KernelAssumption ==
  /\ NENV \in Nat \ {0}
  /\ NBOOT \in 1..NENV
  /\ BootCPU \in CPU
  /\ MaxGen \in Nat /\ MaxGen >= 2
  /\ Calls \subseteq AllCalls
  /\ NULL \notin 0..(NENV-1)

VARIABLES
  envs,           \* the table: slot -> [id, parent, status, recving]
  env_free_list,  \* the free slots, a LIFO list
  curenv,         \* CPU -> slot whose environment it runs, or NULL
  cpu_status,     \* CPU -> CPU_STARTED or CPU_HALTED
  locked,         \* the word of the big kernel lock
  pc,             \* CPU -> "user", "halt", "spin", "kern" or "monitor"
  need,           \* CPU -> calls of lock_kernel() left on its way in
  cause,          \* CPU -> why it entered the kernel
  forking         \* slot -> envid of the child its program is inside fork() for

vars == <<envs, env_free_list, curenv, cpu_status, locked, pc, need, cause, forking>>

-----------------------------------------------------------------------------
(* Environment identifiers.  An envid_t is a generation and a slot; all    *)
(* zeroes is the special identifier of "myself", and the initial env_id.   *)

Slot == 0..(NENV-1)
EnvId == (0..MaxGen) \X Slot
NoId == <<0, 0>>
ENVX(id) == id[2]

Status == {"FREE", "DYING", "RUNNABLE", "RUNNING", "NOT_RUNNABLE"}
Env == [id : EnvId, parent : EnvId, status : Status, recving : BOOLEAN]
Cause == {"none", "boot", "idle", "timer", "trap"}

NextId_NoReset(old, e) == <<(old[1] + 1) % (MaxGen + 1), e>>
NextId_Unbounded(old, e) == <<old[1] + 1, e>>

\* env_alloc's identifier for slot e: the next generation; one that would be
\* negative restarts at the first.
NextId(old, e) == <<IF old[1] + 1 > MaxGen THEN 1 ELSE old[1] + 1, e>>

\* The table after env_alloc has taken slot e off the free list.
AllocEnv(E, e, parent) ==
  [E EXCEPT ![e] = [id |-> NextId(E[e].id, e), parent |-> parent,
                    status |-> "RUNNABLE", recving |-> FALSE]]

SetEnvStatus(E, e, st) == [E EXCEPT ![e].status = st]

\* Slot of environment id as seen by the environment in slot cur, or NULL for
\* -E_BAD_ENV.
Envid2env(id, cur, checkperm) ==
  IF id = NoId THEN cur
  ELSE LET e == ENVX(id)
       IN  IF \/ envs[e].status = "FREE"
              \/ envs[e].id # id
              \/ checkperm /\ e # cur /\ envs[e].parent # envs[cur].id
           THEN NULL ELSE e

-----------------------------------------------------------------------------
(* Leaving the kernel.  E and cur are the table and the CPU's curenv as    *)
(* the handler has left them so far.                                       *)

Runnable_NotRunning(E, e) == E[e].status \notin {"FREE", "NOT_RUNNABLE", "RUNNING"}
Runnable_OrRunning(E, e) == E[e].status \in {"RUNNABLE", "RUNNING"}
Runnable(E, e) == E[e].status = "RUNNABLE"

Alive_NoDying(E) == \E e \in Slot : E[e].status \in {"RUNNABLE", "RUNNING"}
Alive(E) == \E e \in Slot : E[e].status \in {"RUNNABLE", "RUNNING", "DYING"}

Exit(c, where) ==
  /\ pc' = [pc EXCEPT ![c] = where]
  /\ cause' = [cause EXCEPT ![c] = "none"]
  /\ locked' = (where = "monitor")
  /\ UNCHANGED need

EnvRun(c, E, cur, e) ==
  /\ LET Put == IF cur # NULL /\ E[cur].status = "RUNNING"
                THEN SetEnvStatus(E, cur, "RUNNABLE") ELSE E
     IN  envs' = SetEnvStatus(Put, e, "RUNNING")
  /\ curenv' = [curenv EXCEPT ![c] = e]
  /\ UNCHANGED cpu_status
  /\ Exit(c, "user")

\* With nothing left to run anywhere the CPU stays in the monitor, and keeps
\* the lock; otherwise it releases the lock and halts until its next interrupt.
SchedHalt(c, E, cur) ==
  /\ envs' = E
  /\ IF Alive(E)
     THEN /\ curenv' = [curenv EXCEPT ![c] = NULL]
          /\ cpu_status' = [cpu_status EXCEPT ![c] = "CPU_HALTED"]
          /\ Exit(c, "halt")
     ELSE /\ curenv' = [curenv EXCEPT ![c] = cur]
          /\ UNCHANGED cpu_status
          /\ Exit(c, "monitor")

StartSlot_Zero(E, cur) == 0
StartSlot(E, cur) == IF cur = NULL THEN 0 ELSE ENVX(E[cur].id)

\* Round robin from the slot of curenv, or from slot 0 when there is none.
SchedYield(c, E, cur) ==
  LET At(k) == (StartSlot(E, cur) + k) % NENV
  IN  \/ \E k \in Slot : /\ Runnable(E, At(k))
                         /\ \A j \in 0..(k-1) : ~Runnable(E, At(j))
                         /\ EnvRun(c, E, cur, At(k))
      \/ /\ \A e \in Slot : ~Runnable(E, e)
         /\ IF cur # NULL /\ E[cur].status = "RUNNING"
            THEN EnvRun(c, E, cur, cur) ELSE SchedHalt(c, E, cur)

\* The end of trap(): back to curenv when that still makes sense.
TrapReturn(c, E, cur) ==
  IF cur # NULL /\ E[cur].status = "RUNNING"
  THEN EnvRun(c, E, cur, cur) ELSE SchedYield(c, E, cur)

-----------------------------------------------------------------------------
(* Entering the kernel.                                                    *)

LocksToTake_NoReacquire(c, why) == IF why # "idle" THEN 1 ELSE 0

\* trap() calls lock_kernel once if the CPU was marked halted, and once if the
\* trap came from user mode.
LocksToTake(c, why) ==
  (IF cpu_status[c] = "CPU_HALTED" THEN 1 ELSE 0) + (IF why # "idle" THEN 1 ELSE 0)

\* A halted CPU sees only its timer.
TrapEntry(c, why) ==
  /\ \/ pc[c] = "user" /\ why \in {"timer", "trap"}
     \/ pc[c] = "halt" /\ why = "idle"
  /\ need' = [need EXCEPT ![c] = LocksToTake(c, why)]
  /\ pc' = [pc EXCEPT ![c] = IF need'[c] = 0 THEN "kern" ELSE "spin"]
  /\ cause' = [cause EXCEPT ![c] = why]
  /\ cpu_status' = [cpu_status EXCEPT ![c] = "CPU_STARTED"]
  /\ UNCHANGED <<envs, env_free_list, curenv, locked, forking>>

\* spin_lock's xchg finds the word clear.
Acquire(c) ==
  /\ pc[c] = "spin" /\ ~locked
  /\ locked' = TRUE
  /\ need' = [need EXCEPT ![c] = @ - 1]
  /\ pc' = [pc EXCEPT ![c] = IF need[c] = 1 THEN "kern" ELSE "spin"]
  /\ UNCHANGED <<envs, env_free_list, curenv, cpu_status, cause, forking>>

-----------------------------------------------------------------------------
(* Freeing an environment.                                                 *)

\* env_free(e) on table E: the slot goes to the front of the free list, and
\* the program's state goes with its address space.  env_id, env_parent_id and
\* env_ipc_recving keep their values.
FreeEnv(E, e) == SetEnvStatus(E, e, "FREE")

EnvFreeLists(e) ==
  /\ env_free_list' = <<e>> \o env_free_list
  /\ forking' = [forking EXCEPT ![e] = NoId]

RunsElsewhere_Never(c, e) == FALSE
RunsElsewhere_OrHere(c, e) == envs[e].status = "RUNNING"
RunsElsewhere(c, e) == envs[e].status = "RUNNING" /\ curenv[c] # e

\* env_destroy(e) called on CPU c: an environment that runs elsewhere only
\* becomes a zombie; one that is c's own is freed and c looks for other work.
EnvDestroy(c, e) ==
  IF RunsElsewhere(c, e)
  THEN /\ UNCHANGED <<env_free_list, forking>>
       /\ TrapReturn(c, SetEnvStatus(envs, e, "DYING"), curenv[c])
  ELSE /\ EnvFreeLists(e)
       /\ IF curenv[c] = e THEN SchedYield(c, FreeEnv(envs, e), NULL)
                           ELSE TrapReturn(c, FreeEnv(envs, e), curenv[c])

-----------------------------------------------------------------------------
(* Handlers.  Each holds the lock from its first line to its last.         *)

FromUser(c) == cause[c] \in {"timer", "trap"}
Dying(c) == FromUser(c) /\ envs[curenv[c]].status = "DYING"

\* The first sched_yield of a CPU, or its timer interrupt.
Reschedule(c) ==
  /\ pc[c] = "kern" /\ cause[c] \in {"boot", "idle", "timer"} /\ ~Dying(c)
  /\ SchedYield(c, envs, curenv[c])
  /\ UNCHANGED <<env_free_list, forking>>

\* trap() finds that the environment it came from is a zombie.
Reap(c) ==
  /\ pc[c] = "kern" /\ Dying(c)
  /\ EnvFreeLists(curenv[c])
  /\ SchedYield(c, FreeEnv(envs, curenv[c]), NULL)

\* A trap into the kernel that asks for one of the calls of user programs.
\* Inside fork() a program makes no other call.
InCall(c) == pc[c] = "kern" /\ cause[c] = "trap" /\ ~Dying(c)
InProgram(c) == InCall(c) /\ forking[curenv[c]] = NoId

\* A call that leaves no trace here: sys_getenvid, sys_cgetc, the calls on
\* pages, a breakpoint, and every error return of the calls below.
SysOther(c) ==
  /\ InCall(c)
  /\ TrapReturn(c, envs, curenv[c])
  /\ UNCHANGED <<env_free_list, forking>>

SysYield(c) ==
  /\ "yield" \in Calls /\ InProgram(c)
  /\ SchedYield(c, envs, curenv[c])
  /\ UNCHANGED <<env_free_list, forking>>

NewChild_Runnable(E, e, parent) == AllocEnv(E, e, parent)
NewChild(E, e, parent) == SetEnvStatus(AllocEnv(E, e, parent), e, "NOT_RUNNABLE")

\* sys_exofork: the child is a copy that is not runnable yet.  (An empty free
\* list or a failed page_alloc is an error return.)
SysExofork(c) ==
  /\ "fork" \in Calls /\ InProgram(c) /\ env_free_list # <<>>
  /\ LET e == Head(env_free_list)
         E == NewChild(envs, e, envs[curenv[c]].id)
     IN  /\ env_free_list' = Tail(env_free_list)
         /\ forking' = [forking EXCEPT ![curenv[c]] = E[e].id]
         /\ TrapReturn(c, E, curenv[c])

\* sys_env_set_status, when envid2env finds the environment.
SetStatus(c, id, st) ==
  LET e == Envid2env(id, curenv[c], TRUE)
  IN  e # NULL /\ TrapReturn(c, SetEnvStatus(envs, e, st), curenv[c])

\* The end of fork(): the finished child is made runnable.
SysStartChild(c) ==
  /\ InCall(c) /\ forking[curenv[c]] # NoId
  /\ SetStatus(c, forking[curenv[c]], "RUNNABLE")
  /\ forking' = [forking EXCEPT ![curenv[c]] = NoId]
  /\ UNCHANGED env_free_list

\* Any use of sys_env_set_status the kernel accepts.
SysSetStatus(c) ==
  /\ "status" \in Calls /\ InProgram(c)
  /\ \E id \in EnvId, st \in {"RUNNABLE", "NOT_RUNNABLE"} : SetStatus(c, id, st)
  /\ UNCHANGED <<env_free_list, forking>>

\* sys_env_destroy on oneself (exit) or on a child.
SysDestroy(c) ==
  /\ "destroy" \in Calls /\ InProgram(c)
  /\ \E id \in EnvId :
       LET e == Envid2env(id, curenv[c], TRUE)
       IN  /\ e # NULL
           /\ envs[e].status = "DYING" => "rekill" \in Calls
           /\ EnvDestroy(c, e)

\* A page fault without upcall, a failed user_mem_assert or an unexpected
\* trap: the kernel destroys curenv, wherever its program was.
Fault(c) ==
  /\ "fault" \in Calls /\ InCall(c)
  /\ EnvDestroy(c, curenv[c])

\* sys_ipc_recv: block, and give up the CPU.
SysIpcRecv(c) ==
  /\ "ipc" \in Calls /\ InProgram(c)
  /\ SchedYield(c, [envs EXCEPT ![curenv[c]].recving = TRUE,
                                ![curenv[c]].status = "NOT_RUNNABLE"], curenv[c])
  /\ UNCHANGED <<env_free_list, forking>>

Receive_StillAsking(E, e) == [E EXCEPT ![e].status = "RUNNABLE"]
Receive(E, e) == [E EXCEPT ![e].recving = FALSE, ![e].status = "RUNNABLE"]

\* sys_ipc_try_send to any environment that is receiving.  (One that is not is
\* the error return -E_IPC_NOT_RECV.)
SysIpcTrySend(c) ==
  /\ "ipc" \in Calls /\ InProgram(c)
  /\ \E id \in EnvId :
       LET e == Envid2env(id, curenv[c], FALSE)
       IN  /\ e # NULL /\ envs[e].recving
           /\ TrapReturn(c, Receive(envs, e), curenv[c])
  /\ UNCHANGED <<env_free_list, forking>>

-----------------------------------------------------------------------------
\* i386_init holds the lock when it starts the other CPUs and creates the
\* first environments; mp_main spins on the lock before its sched_yield.
Init ==
  /\ envs = [e \in Slot |->
               [id |-> IF e < NBOOT THEN <<1, e>> ELSE NoId, parent |-> NoId,
                status |-> IF e < NBOOT THEN "RUNNABLE" ELSE "FREE",
                recving |-> FALSE]]
  /\ env_free_list = [i \in 1..(NENV - NBOOT) |-> NBOOT + i - 1]
  /\ curenv = [c \in CPU |-> NULL]
  /\ cpu_status = [c \in CPU |-> "CPU_STARTED"]
  /\ locked = TRUE
  /\ pc = [c \in CPU |-> IF c = BootCPU THEN "kern" ELSE "spin"]
  /\ need = [c \in CPU |-> IF c = BootCPU THEN 0 ELSE 1]
  /\ cause = [c \in CPU |-> "boot"]
  /\ forking = [e \in Slot |-> NoId]

Syscall(c) ==
  \/ SysOther(c)   \/ SysYield(c)     \/ SysExofork(c) \/ SysStartChild(c)
  \/ SysDestroy(c) \/ SysSetStatus(c) \/ SysIpcRecv(c) \/ SysIpcTrySend(c)
  \/ Fault(c)

Handle(c) == Reschedule(c) \/ Reap(c) \/ Syscall(c)

Next == \E c \in CPU :
  \/ \E why \in Cause : TrapEntry(c, why)
  \/ Acquire(c)
  \/ Handle(c)

Spec == Init /\ [][Next]_vars

\* The LAPIC timer is periodic and its interrupt stays pending, so a CPU that
\* is in user mode again and again takes it.  Handlers terminate.  The spin lock
\* gives no turn, so that every spinning CPU gets in is an assumption on the
\* bus: the lock is free between any two handlers.
Fairness == \A c \in CPU :
  /\ SF_vars(TrapEntry(c, "timer"))
  /\ WF_vars(TrapEntry(c, "idle"))
  /\ SF_vars(Acquire(c))
  /\ WF_vars(Handle(c))

FairSpec == Spec /\ Fairness

-----------------------------------------------------------------------------
(* Properties.                                                             *)

\* The types of the variables.
TypeOK ==
  /\ envs \in [Slot -> Env]
  /\ env_free_list \in Seq(Slot)
  /\ curenv \in [CPU -> Slot \cup {NULL}]
  /\ cpu_status \in [CPU -> {"CPU_STARTED", "CPU_HALTED"}]
  /\ locked \in BOOLEAN
  /\ pc \in [CPU -> {"user", "halt", "spin", "kern", "monitor"}]
  /\ need \in [CPU -> 0..2]
  /\ cause \in [CPU -> Cause]
  /\ forking \in [Slot -> EnvId]

\* Kernel code runs on one CPU at a time and only with the lock held: whether
\* trap() takes the lock depends on cpu_status, which sched_halt and trap()
\* itself must keep in step with where the CPU is.
InKernel(c) == pc[c] \in {"kern", "monitor"}
MutualExclusion ==
  /\ \A c, d \in CPU : InKernel(c) /\ InKernel(d) => c = d
  /\ locked <=> \E c \in CPU : InKernel(c)

\* What a CPU is doing agrees with its cpu_status and its curenv.
Control == \A c \in CPU :
  /\ pc[c] = "halt" => cpu_status[c] = "CPU_HALTED" /\ curenv[c] = NULL
  /\ pc[c] \in {"user", "spin", "kern"} => cpu_status[c] = "CPU_STARTED"
  /\ pc[c] = "spin" => need[c] = 1
  /\ pc[c] = "user" => curenv[c] # NULL
  /\ pc[c] \in {"spin", "kern"} =>
       /\ cause[c] # "none"
       /\ cause[c] \in {"boot", "idle"} <=> curenv[c] = NULL

\* An environment's identifier names its slot and is not the special zero.
IdsOK == \A e \in Slot :
  envs[e].status # "FREE" => envs[e].id[1] # 0 /\ ENVX(envs[e].id) = e

\* No environment is current on two CPUs, and RUNNING and DYING are exactly
\* the environments that are current on some CPU (sched_yield skips RUNNING).
CurrentEnvs ==
  /\ \A c, d \in CPU : curenv[c] = curenv[d] /\ curenv[c] # NULL => c = d
  /\ \A e \in Slot : envs[e].status \in {"RUNNING", "DYING"}
                       <=> \E c \in CPU : curenv[c] = e /\ pc[c] # "monitor"

\* The free list holds every FREE slot exactly once and no other: no slot is
\* freed twice or handed out while in use.
FreeListExact ==
  /\ \A i, j \in DOMAIN env_free_list :
       env_free_list[i] = env_free_list[j] => i = j
  /\ {e \in Slot : envs[e].status = "FREE"}
       = {env_free_list[i] : i \in DOMAIN env_free_list}

\* While fork() copies its address space, the child it builds is still its
\* child and still stopped: nobody has started, messaged, freed or reused it,
\* so the sys_env_set_status that ends fork() cannot fail.
ChildIntact == \A e \in Slot : forking[e] # NoId =>
  LET k == ENVX(forking[e])
  IN  /\ envs[k].id = forking[e] /\ envs[k].parent = envs[e].id
      /\ envs[k].status = "NOT_RUNNABLE" /\ ~envs[k].recving
      /\ envs[e].status # "FREE"

\* An environment that waits for a message is blocked until one comes: it runs
\* nowhere, and no stale flag of the slot's previous life is left on a live one.
ReceiverBlocked == \A e \in Slot :
  envs[e].recving /\ envs[e].status # "FREE" => envs[e].status = "NOT_RUNNABLE"

\* A CPU is left in the monitor, with the lock, only when no environment can
\* run any more, on any CPU.
MonitorIsFinal == \A c \in CPU : pc[c] = "monitor" =>
  \A e \in Slot : envs[e].status \in {"FREE", "NOT_RUNNABLE"}

\* A slot that is allocated again gets an identifier that differs from the one
\* it had, is not the special zero, and names the slot: a stale envid never
\* reaches the slot's next environment (envid2env, wait()).
FreshIds == [][\A e \in Slot :
  envs[e].status = "FREE" /\ envs'[e].status # "FREE" =>
    /\ envs'[e].id # envs[e].id
    /\ envs'[e].id[1] # 0 /\ ENVX(envs'[e].id) = e]_vars

\* A zombie keeps its slot and its address space until the CPU it runs on has
\* trapped into the kernel: env_destroy leaves the freeing to that trap.
ZombieKeepsSlot == [][\A e \in Slot :
  envs[e].status = "DYING" /\ envs'[e].status # "DYING" =>
    \E c \in CPU : curenv[c] = e /\ pc[c] = "kern"]_vars

\* A zombie is freed in the end: its CPU cannot stay in user mode for ever.
ZombieReaped == \A e \in Slot : envs[e].status = "DYING" ~> envs[e].status = "FREE"

\* Round robin starves nobody once environments stop exiting: a runnable one
\* runs in the end.  An exit restarts the scan at slot 0, so while exits go on a
\* high slot may wait for ever.
Exits == \E e \in Slot : envs[e].status # "FREE" /\ envs'[e].status = "FREE"
NoStarvation ==
  (<>[][~Exits]_vars) =>
    \A e \in Slot : envs[e].status = "RUNNABLE" ~> envs[e].status # "RUNNABLE"
=============================================================================
