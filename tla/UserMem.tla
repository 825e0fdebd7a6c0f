------------------------------ MODULE UserMem -------------------------------
(***************************************************************************)
(* user_mem_check and user_mem_assert (kern/pmap.c): may the kernel touch  *)
(* the range of user memory that a system call has named?  Addresses have  *)
(* a fixed width, VASPACE stands for 2^32, and every sum wraps around.       *)
(***************************************************************************)
EXTENDS Integers

CONSTANTS
  PGSIZE,    \* bytes of a page
  VASPACE,     \* the number of addresses
  ULIM,      \* the first address users may not touch
  UserEntry, \* what pgdir_walk finds below ULIM: the bits of an entry, or NoTable
  NoTable,
  KernEntry, \* the bits of the entries above
  Perm       \* the permissions that callers ask for

Page == 0..(VASPACE \div PGSIZE - 1)
Address == 0..(VASPACE-1)

UserMemAssumption ==
  /\ PGSIZE \in Nat \ {0} /\ VASPACE \in Nat /\ VASPACE % PGSIZE = 0 /\ ULIM % PGSIZE = 0 /\ ULIM \in Address
  /\ \A perm \in Perm : "U" \in perm

VARIABLES
  entries, \* the page table of the environment
  va, len, perm, \* the arguments
  inicio,  \* the loop's position
  result,  \* "checking", "ok" or "fault"
  user_mem_check_addr

vars == <<entries, va, len, perm, inicio, result, user_mem_check_addr>>
call == <<entries, va, len, perm>>

ROUNDDOWN(a) == a - (a % PGSIZE)
ROUNDUP(a) == ROUNDDOWN((a + PGSIZE - 1) % VASPACE)

\* Mutated Fin: the length is rounded, not the end.
Fin_OfLength == ROUNDDOWN(va) + ROUNDUP(len)
Fin == ROUNDUP((va + len) % VASPACE)

Init ==
  /\ entries \in {f \in [Page -> UserEntry \cup {KernEntry}] :
                    \A p \in Page : f[p] = KernEntry <=> p * PGSIZE >= ULIM}
  /\ va \in Address /\ len \in Address /\ perm \in Perm
  /\ inicio = ROUNDDOWN(va) /\ result = "checking" /\ user_mem_check_addr = 0

Refused(a) ==
  LET pte == entries[a \div PGSIZE]
  IN  pte = NoTable \/ a >= ULIM \/ ~(perm \cup {"P"} \subseteq pte)

Checking == result = "checking" /\ inicio < Fin

NextPage ==
  /\ Checking /\ ~Refused(inicio)
  /\ inicio' = inicio + PGSIZE
  /\ UNCHANGED <<call, result, user_mem_check_addr>>

\* user_mem_assert then destroys the environment.
Fault ==
  /\ Checking /\ Refused(inicio)
  /\ result' = "fault"
  /\ user_mem_check_addr' = IF inicio < va THEN va ELSE inicio
  /\ UNCHANGED <<call, inicio>>

Ok ==
  /\ result = "checking" /\ ~(inicio < Fin)
  /\ result' = "ok"
  /\ UNCHANGED <<call, inicio, user_mem_check_addr>>

Returned == result # "checking" /\ UNCHANGED vars

Next == NextPage \/ Fault \/ Ok \/ Returned
Spec == Init /\ [][Next]_vars

TypeOK ==
  /\ entries \in [Page -> UserEntry \cup {KernEntry}]
  /\ va \in Address /\ len \in Address /\ perm \in Perm
  /\ inicio \in Address /\ inicio % PGSIZE = 0
  /\ result \in {"checking", "ok", "fault"} /\ user_mem_check_addr \in Address

Range == va..(va + len - 1)
MayAccess(a) ==
  LET pte == entries[a \div PGSIZE] IN a < ULIM /\ pte # NoTable /\ perm \cup {"P"} \subseteq pte

\* user_mem_check says "ok" of a range exactly if the environment may access every
\* byte of it, and otherwise names the first byte that it may not access.  This is
\* about ranges of at least one byte that end before the last page of the address
\* space: beyond that the sums of user_mem_check wrap around.
CheckIsExact ==
  (result # "checking" /\ len > 0 /\ va + len <= VASPACE - PGSIZE) =>
    /\ result = "ok" <=> \A a \in Range : MayAccess(a)
    /\ result = "fault" =>
         /\ user_mem_check_addr \in Range /\ ~MayAccess(user_mem_check_addr)
         /\ \A a \in Range : a < user_mem_check_addr => MayAccess(a)

\* The type invariant and the above.
CheckIsSound == TypeOK /\ CheckIsExact
=============================================================================
