------------------------------ MODULE Snapshot ------------------------------
(***************************************************************************)
(* What fork() promises: the child starts with a copy of every page that   *)
(* the parent had while it forked, and from then on a write to a page is   *)
(* seen by the writer alone, unless the page is a shared one.              *)
(***************************************************************************)
CONSTANTS Env, Page, Shared, Value, First, NULL

VARIABLES
  space, \* environment -> page -> what it reads there, or NULL
  stage  \* environment -> "none", "embryo" or "live"

Init ==
  /\ stage = [e \in Env |-> IF e = First THEN "live" ELSE "none"]
  /\ space \in [Env -> [Page -> Value \cup {NULL}]]
  /\ \A e \in Env \ {First}, p \in Page : space[e][p] = NULL

Create(e, c) ==
  /\ stage[e] = "live" /\ stage[c] = "none"
  /\ stage' = [stage EXCEPT ![c] = "embryo"] /\ UNCHANGED space

\* A page of the child becomes what the parent has there at that moment.
Copy(e, c, p) ==
  /\ stage[e] = "live" /\ stage[c] = "embryo"
  /\ space[c][p] = NULL /\ space[e][p] # NULL
  /\ space' = [space EXCEPT ![c][p] = space[e][p]] /\ UNCHANGED stage

\* The child starts when it has the pages that the parent has.
Start(e, c) ==
  /\ stage[e] = "live" /\ stage[c] = "embryo"
  /\ \A p \in Page : space[c][p] = NULL <=> space[e][p] = NULL
  /\ stage' = [stage EXCEPT ![c] = "live"] /\ UNCHANGED space

Sees(q, e, p) == q = e \/ (p \in Shared /\ space[q][p] # NULL)
Write(e, p, v) ==
  /\ stage[e] = "live" /\ space[e][p] # NULL
  /\ space' = [q \in Env |-> [space[q] EXCEPT ![p] = IF Sees(q, e, p) THEN v ELSE @]]
  /\ UNCHANGED stage

Next == \E e \in Env :
  \/ \E c \in Env : Create(e, c) \/ Start(e, c) \/ \E p \in Page : Copy(e, c, p)
  \/ \E p \in Page, v \in Value : Write(e, p, v)

Spec == Init /\ [][Next]_<<space, stage>>
=============================================================================
