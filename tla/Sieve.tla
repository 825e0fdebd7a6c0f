------------------------------- MODULE Sieve --------------------------------
(***************************************************************************)
(* The concurrent prime sieve of labs/fork/primes.c: main writes the       *)
(* numbers from 2 on into a pipe; each filter keeps the first number it    *)
(* reads, which is a prime, and passes on those it does not divide.        *)
(*                                                                         *)
(* Process 0 is main, process i+1 is forked by process i, and pipe i leads *)
(* from process i to process i+1.  One action is one system call, but for  *)
(* runs of close() that nobody can tell apart.  Processes and pipes of     *)
(* Linux are modelled from how the program uses them: a read waits while   *)
(* the pipe is empty and somebody may write, a write waits while it is     *)
(* full and kills the writer if nobody may read.                           *)
(***************************************************************************)
EXTENDS Integers, Sequences, FiniteSets

CONSTANTS
  Numbers,  \* what argv[1] may say
  Filters,  \* a bound on the length of the chain
  Capacity, \* numbers that a pipe holds
  MayFail   \* which of "pipe" and "fork" may fail

Proc == 0..Filters
Below(n) == 2..(n-1)
IsPrime(n) == \A d \in 2..(n-1) : n % d # 0
Primes(n) == {p \in Below(n) : IsPrime(p)}

SieveAssumption ==
  /\ Filters \in Nat /\ Capacity \in Nat \ {0} /\ Numbers \subseteq Nat
  /\ \A n \in Numbers : Cardinality(Primes(n)) < Filters
  /\ MayFail \subseteq {"pipe", "fork"}

VARIABLES
  N,        \* argv[1]
  terminal, \* stdout is a terminal
  pc,       \* what each process does next
  number,   \* main's i, a filter's numero_leido
  primo_leido,
  pipe,     \* the numbers in each pipe
  readers, writers, \* who has its ends open
  out,      \* what has been printed
  failed    \* a pipe or a fork has failed

vars == <<N, terminal, pc, number, primo_leido, pipe, readers, writers, out, failed>>
ends == <<readers, writers>>
held == <<N, terminal>>

\* A process that has ended is "zombie" until its parent waits for it, then "gone".
Ended == {"none", "zombie", "gone"}
Idle == [i \in Proc |-> 0]

Init ==
  /\ N \in Numbers /\ terminal \in BOOLEAN
  /\ pc = [i \in Proc |-> IF i = 0 THEN "pipe" ELSE "none"]
  /\ number = [Idle EXCEPT ![0] = 2] /\ primo_leido = Idle
  /\ pipe = [i \in Proc |-> <<>>]
  /\ readers = [i \in Proc |-> {}] /\ writers = [i \in Proc |-> {}]
  /\ out = <<>> /\ failed = FALSE

\* _exit: every end is closed, and the children that have ended are not waited for.
Exit(i) ==
  /\ pc' = [j \in Proc |-> IF j = i THEN IF i > 0 /\ pc[i-1] \notin Ended THEN "zombie" ELSE "gone"
                           ELSE IF j = i + 1 /\ pc[j] = "zombie" THEN "gone" ELSE pc[j]]
  /\ readers' = [p \in Proc |-> readers[p] \ {i}]
  /\ writers' = [p \in Proc |-> writers[p] \ {i}]

Fails(i, call) ==
  /\ pc[i] = call /\ call \in MayFail
  /\ Exit(i) /\ failed' = TRUE
  /\ UNCHANGED <<held, number, primo_leido, pipe, out>>

Pipe(i) ==
  /\ pc[i] = "pipe"
  /\ pc' = [pc EXCEPT ![i] = IF i = 0 THEN "fork" ELSE "first"]
  /\ readers' = [readers EXCEPT ![i] = {i}] /\ writers' = [writers EXCEPT ![i] = {i}]
  /\ UNCHANGED <<held, number, primo_leido, pipe, out, failed>>

\* The child has whatever its parent has open.
Fork(i) ==
  /\ pc[i] = "fork"
  /\ pc' = [pc EXCEPT ![i] = IF i = 0 THEN "write" ELSE "read", ![i+1] = "forked"]
  /\ readers' = [p \in Proc |-> IF i \in readers[p] THEN readers[p] \cup {i+1} ELSE readers[p]]
  /\ writers' = [p \in Proc |-> IF i \in writers[p] THEN writers[p] \cup {i+1} ELSE writers[p]]
  /\ UNCHANGED <<held, number, primo_leido, pipe, out, failed>>

\* Mutated Keeps: the child leaves the writing end open.
Keeps_Writer(i, p) == p = i - 1
Keeps(i, p) == FALSE

\* The child closes all but the reading end of the pipe it was made for.
CloseForked(i) ==
  /\ pc[i] = "forked"
  /\ pc' = [pc EXCEPT ![i] = "pipe"]
  /\ readers' = [p \in Proc |-> IF p = i - 1 THEN readers[p] ELSE readers[p] \ {i}]
  /\ writers' = [p \in Proc |-> IF Keeps(i, p) THEN writers[p] ELSE writers[p] \ {i}]
  /\ UNCHANGED <<held, number, primo_leido, pipe, out, failed>>

-----------------------------------------------------------------------------

AtEof(i) == pipe[i-1] = <<>> /\ writers[i-1] = {}
CanRead(i) == pipe[i-1] # <<>>
CanWrite(i) == Len(pipe[i]) < Capacity

\* Mutated Divides: the numbers that primo_leido divides are passed on.
Divides_Swapped(i, n) == n % primo_leido[i] # 0
Divides(i, n) == n % primo_leido[i] = 0

\* filtro's first read and its printf.  _exit does not flush what printf has buffered,
\* which is everything if stdout is no terminal.
ReadFirst(i) ==
  /\ pc[i] = "first" /\ CanRead(i)
  /\ primo_leido' = [primo_leido EXCEPT ![i] = Head(pipe[i-1])]
  /\ pipe' = [pipe EXCEPT ![i-1] = Tail(@)]
  /\ out' = IF terminal THEN Append(out, Head(pipe[i-1])) ELSE out
  /\ pc' = [pc EXCEPT ![i] = "fork"]
  /\ UNCHANGED <<held, number, ends, failed>>

NoFirst(i) ==
  /\ pc[i] = "first" /\ AtEof(i) /\ Exit(i)
  /\ UNCHANGED <<held, number, primo_leido, pipe, out, failed>>

Read(i) ==
  /\ pc[i] = "read" /\ CanRead(i)
  /\ number' = [number EXCEPT ![i] = Head(pipe[i-1])]
  /\ pipe' = [pipe EXCEPT ![i-1] = Tail(@)]
  /\ pc' = [pc EXCEPT ![i] = IF Divides(i, Head(pipe[i-1])) THEN "read" ELSE "write"]
  /\ UNCHANGED <<held, primo_leido, ends, out, failed>>

ReadEof(i) ==
  /\ pc[i] = "read" /\ AtEof(i)
  /\ pc' = [pc EXCEPT ![i] = "close"]
  /\ UNCHANGED <<held, number, primo_leido, pipe, ends, out, failed>>

\* The writer has the reading end open as well, so that SIGPIPE never comes.
Write(i) ==
  /\ pc[i] = "write" /\ i > 0 /\ CanWrite(i)
  /\ pipe' = [pipe EXCEPT ![i] = Append(@, number[i])]
  /\ pc' = [pc EXCEPT ![i] = "read"]
  /\ UNCHANGED <<held, number, primo_leido, ends, out, failed>>

WriteNext ==
  /\ pc[0] = "write" /\ number[0] < N /\ CanWrite(0)
  /\ pipe' = [pipe EXCEPT ![0] = Append(@, number[0])]
  /\ number' = [number EXCEPT ![0] = @ + 1]
  /\ UNCHANGED <<held, pc, primo_leido, ends, out, failed>>

WroteAll ==
  /\ pc[0] = "write" /\ number[0] >= N
  /\ pc' = [pc EXCEPT ![0] = "close"]
  /\ UNCHANGED <<held, number, primo_leido, pipe, ends, out, failed>>

Close(i) ==
  /\ pc[i] = "close"
  /\ pc' = [pc EXCEPT ![i] = "wait"]
  /\ readers' = [p \in Proc |-> readers[p] \ {i}]
  /\ writers' = [p \in Proc |-> writers[p] \ {i}]
  /\ UNCHANGED <<held, number, primo_leido, pipe, out, failed>>

Wait(i) ==
  /\ pc[i] = "wait" /\ pc[i+1] \in Ended
  /\ Exit(i)
  /\ UNCHANGED <<held, number, primo_leido, pipe, out, failed>>

Step(i) ==
  \/ Pipe(i) \/ Fails(i, "pipe") \/ Fork(i) \/ Fails(i, "fork") \/ CloseForked(i)
  \/ ReadFirst(i) \/ NoFirst(i) \/ Read(i) \/ ReadEof(i) \/ Write(i)
  \/ i = 0 /\ (WriteNext \/ WroteAll)
  \/ Close(i) \/ Wait(i)

\* A process that waits: for a number, for room, or for its child.
Waiting(i) ==
  \/ pc[i] \in {"first", "read"} /\ ~CanRead(i) /\ ~AtEof(i)
  \/ pc[i] = "write" /\ ~CanWrite(i) /\ (i = 0 => number[0] < N)
  \/ pc[i] = "wait" /\ pc[i+1] \notin Ended

AllEnded == \A i \in Proc : pc[i] \in {"none", "gone"}
Standstill == (\A i \in Proc : pc[i] \in Ended \/ Waiting(i)) /\ UNCHANGED vars

Next == (\E i \in Proc : Step(i)) \/ Standstill
Spec == Init /\ [][Next]_vars
\* Linux lets some process go on while one can: no step repeats, so that is enough.
FairSpec == Spec /\ WF_vars(\E i \in Proc : Step(i))

-----------------------------------------------------------------------------
(* Properties.                                                             *)

TypeOK ==
  /\ N \in Numbers /\ terminal \in BOOLEAN /\ failed \in BOOLEAN
  /\ pc \in [Proc -> Ended \cup {"pipe", "fork", "forked", "first", "read", "write", "close", "wait"}]
  /\ number \in [Proc -> Nat] /\ primo_leido \in [Proc -> Nat]
  /\ \A i \in Proc : pipe[i] \in Seq(Nat) /\ Len(pipe[i]) <= Capacity
  /\ readers \in [Proc -> SUBSET Proc] /\ writers \in [Proc -> SUBSET Proc]

\* What is printed are the primes in order, one by each filter, whatever fails; if
\* nothing does, all of the primes below N are printed by the time everyone has ended.
PrintsPrimes ==
  /\ \A k \in DOMAIN out : out[k] = primo_leido[k] /\ out[k] \in Primes(N)
  /\ \A k \in DOMAIN out : {p \in Primes(N) : p < out[k]} = {out[j] : j \in 1..(k-1)}
  /\ AllEnded /\ ~failed /\ terminal => Len(out) = Cardinality(Primes(N))

\* Nobody waits for ever unless a pipe or a fork has failed.  Then the one before
\* may: it writes into a full pipe whose only reader it is itself, because filtro and
\* main close their reading ends only at the end.
HungOnlyOnOwnPipe ==
  ((\A i \in Proc : pc[i] \in Ended \/ Waiting(i)) /\ ~AllEnded) =>
    /\ failed
    /\ \E i \in Proc : pc[i] = "write" /\ Len(pipe[i]) = Capacity /\ readers[i] = {i}

\* What module Sieve promises: its parts are explained above.
SieveIsSound == TypeOK /\ PrintsPrimes /\ HungOnlyOnOwnPipe

\* Every process ends and is waited for, unless a pipe or a fork fails.
EveryoneEnds == <>(failed \/ AllEnded)
=============================================================================
