-------------------------------- MODULE VmSmp -------------------------------
(***************************************************************************)
(* Address spaces on several CPUs: Vm together with the translations each  *)
(* CPU caches.  tlb_invalidate (kern/pmap.c) flushes an address on the CPU *)
(* that executes it and on no other; what keeps the other CPUs right is    *)
(* that env_run loads cr3 whenever an environment starts or resumes.       *)
(***************************************************************************)
EXTENDS Vm

CONSTANT CPU

VARIABLES
  cur,  \* CPU -> the environment it runs in user mode, or NULL when it is halted
  tlb   \* CPU -> its cached translations, pairs of an address and an entry

smpVars == <<mem, env, booted, cur, tlb>>

Elsewhere(k, e) == \E j \in CPU \ {k} : cur[j] = e

Reload_Skipped(k) == tlb' = tlb

\* lcr3 in env_run, and in sched_halt, drops all that the CPU has cached.
Reload(k) == tlb' = [tlb EXCEPT ![k] = {}]

MayRunNext_Ready(k, e) == env'[e].status = "ready"
MayRunNext(k, e) == env'[e].status = "ready" /\ ~Elsewhere(k, e)

\* The handler of CPU k returns to its environment or schedules another; which
\* of the ready ones is Kernel's concern.
Leave(k) ==
  /\ LET next == {e \in Env : MayRunNext(k, e)}
     IN  \E e \in IF next = {} THEN {NULL} ELSE next : cur' = [cur EXCEPT ![k] = e]
  /\ Reload(k)

\* A parent builds a child's address space before it makes it runnable, as fork,
\* dumbfork and spawn do, and wakes no receiver.
Courteous(c, e) ==
  "touch_running" \in Careless \/ e = c \/ (env[e].status = "blocked" /\ env[e].dstva = NULL)

\* env_destroy decides by ENV_RUNNING: a victim that runs elsewhere is a zombie.
\* Nobody kills a zombie again; Kernel shows what comes of that.
Kill(k, c, e) ==
  /\ env[e].status # "dying"
  /\ SysEnvDestroy(c, e)
  /\ (env[e].status = "ready" /\ Elsewhere(k, e)) = (env'[e].status = "dying")

Syscall(k) ==
  /\ cur[k] # NULL
  /\ LET c == cur[k]
     IN  \/ SysExofork(c) \/ IpcCall(c)
         \/ \E e \in Env :
              \/ Kill(k, c, e)
              \/ Courteous(c, e) /\ (MapCall(c, e) \/ SysEnvSetStatus(c, e, "ready"))
  /\ Leave(k)

\* A timer or another trap; a CPU that finds itself running a zombie frees it.
Trap(k) ==
  /\ booted
  /\ IF cur[k] # NULL /\ env[cur[k]].status = "dying"
     THEN ReapZombie(cur[k]) ELSE UNCHANGED vars
  /\ Leave(k)

\* The program touches va and the hardware walks the page table.
Touch(k, va) ==
  /\ cur[k] # NULL
  /\ Pte(mem, cur[k], va).p
  /\ tlb' = [tlb EXCEPT ![k] = @ \cup {<<va, Pte(mem, cur[k], va)>>}]
  /\ UNCHANGED <<vars, cur>>

Boot == (StartUsers \/ \E e \in Env : EnvCreate(e)) /\ UNCHANGED <<cur, tlb>>

SmpInit == Init /\ cur = [k \in CPU |-> NULL] /\ tlb = [k \in CPU |-> {}]

SmpNext == Boot \/ \E k \in CPU : Syscall(k) \/ Trap(k) \/ \E va \in UserVa : Touch(k, va)

SmpSpec == SmpInit /\ [][SmpNext]_smpVars

-----------------------------------------------------------------------------
(* Properties.                                                             *)

\* No environment runs on two CPUs, and what runs is ready or a zombie.
SmpTypeOK ==
  /\ TypeOK
  /\ cur \in [CPU -> Env \cup {NULL}]
  /\ \A k \in CPU : tlb[k] \subseteq UserVa \X Entry
  /\ \A k \in CPU : cur[k] # NULL => env[cur[k]].status \in {"ready", "dying"} /\ ~Elsewhere(k, cur[k])

\* No CPU works with a translation that its page table no longer holds: a page
\* taken away from an environment is out of its reach at once (pmap.c:641).  The type
\* invariant is part of it.
TlbCoherent ==
  /\ SmpTypeOK
  /\ \A k \in CPU : cur[k] # NULL => \A x \in tlb[k] : Pte(mem, cur[k], x[1]) = x[2]
=============================================================================
