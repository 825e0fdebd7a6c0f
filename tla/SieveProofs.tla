---------------------------- MODULE SieveProofs ----------------------------
(***************************************************************************)
(* Proofs about Sieve, for a chain and pipes of any length: what is        *)
(* printed are the primes in order, and who waits for ever waits for its   *)
(* own pipe after a failure.                                               *)
(*                                                                         *)
(* The numbers that the filters up to the i-th let through are a stream;   *)
(* pipe i holds those of Stream(i) that process i has passed on and        *)
(* process i+1 has not read yet, in order (Flow).  So the first number     *)
(* that a filter reads is the least of its stream, and what is least       *)
(* there is prime.  Who has which end of which pipe open follows from      *)
(* what each process does next (EndsOpen).                                 *)
(***************************************************************************)
EXTENDS Sieve, Facts

-----------------------------------------------------------------------------
(* Lists in order, and divisors.                                           *)

Increasing(s) == \A a, b \in DOMAIN s : a < b => s[a] < s[b]

LEMMA IncreasingDistinct ==
  ASSUME NEW s \in Seq(Nat), Increasing(s)
  PROVE  Distinct(s)
<1>1. Len(s) \in Nat /\ DOMAIN s = 1..Len(s)
  BY LenProperties
<1>2. \A i \in DOMAIN s : s[i] \in Nat
  BY <1>1, ElementOfSeq
<1> QED
  BY <1>1, <1>2 DEF Increasing, Distinct

\* The head of a list in order is its least element.
LEMMA IncreasingTail ==
  ASSUME NEW s \in Seq(Nat), s # <<>>, Increasing(s)
  PROVE  /\ Head(s) \in Nat /\ Tail(s) \in Seq(Nat) /\ Len(Tail(s)) = Len(s) - 1
         /\ Increasing(Tail(s))
         /\ Head(s) \in Elems(s) /\ \A x \in Elems(s) : Head(s) <= x
         /\ Elems(Tail(s)) = {x \in Elems(s) : Head(s) < x}
<1>1. Len(s) \in Nat /\ DOMAIN s = 1..Len(s) /\ Len(s) # 0
  BY LenProperties, EmptySeq
<1>2. \A i \in DOMAIN s : s[i] \in Nat
  BY <1>1, ElementOfSeq
<1>3. /\ Head(s) = s[1] /\ Head(s) \in Nat
      /\ Tail(s) \in Seq(Nat) /\ Len(Tail(s)) = Len(s) - 1
      /\ \A i \in 1..(Len(s) - 1) : Tail(s)[i] = s[i + 1]
  BY <1>1, <1>2, HeadTailProperties
<1>4. DOMAIN Tail(s) = 1..(Len(s) - 1)
  BY <1>3, LenProperties
<1>5. Increasing(Tail(s))
  <2> SUFFICES ASSUME NEW a \in 1..(Len(s) - 1), NEW b \in 1..(Len(s) - 1), a < b
               PROVE  Tail(s)[a] < Tail(s)[b]
    BY <1>4 DEF Increasing
  <2>1. /\ a + 1 \in DOMAIN s /\ b + 1 \in DOMAIN s /\ a + 1 < b + 1
        /\ Tail(s)[a] = s[a + 1] /\ Tail(s)[b] = s[b + 1]
    BY <1>1, <1>3
  <2> QED
    BY <2>1 DEF Increasing
<1>6. Head(s) \in Elems(s)
  BY <1>1, <1>3 DEF Elems
<1>7. \A i \in DOMAIN s : i = 1 \/ Head(s) < s[i]
  BY <1>1, <1>3 DEF Increasing
<1>8. \A x \in Elems(s) : Head(s) <= x
  BY <1>2, <1>3, <1>7 DEF Elems
<1>9. \A x \in Elems(s) : x # Head(s) => Head(s) < x
  BY <1>3, <1>7 DEF Elems
<1>10. Elems(Tail(s)) = Elems(s) \ {Head(s)}
  BY IncreasingDistinct, PopFront
<1> QED
  BY <1>3, <1>5, <1>6, <1>8, <1>9, <1>10

LEMMA IncreasingAppend ==
  ASSUME NEW s \in Seq(Nat), Increasing(s), NEW n \in Nat, \A x \in Elems(s) : x < n
  PROVE  /\ Append(s, n) \in Seq(Nat) /\ Len(Append(s, n)) = Len(s) + 1
         /\ Increasing(Append(s, n)) /\ Elems(Append(s, n)) = Elems(s) \cup {n}
<1> DEFINE t == Append(s, n)
<1>1. Len(s) \in Nat /\ DOMAIN s = 1..Len(s)
  BY LenProperties
<1>2. /\ t \in Seq(Nat) /\ Len(t) = Len(s) + 1
      /\ \A i \in 1..Len(s) : t[i] = s[i]
      /\ t[Len(s) + 1] = n
  BY <1>1, AppendProperties
<1>3. DOMAIN t = 1..(Len(s) + 1)
  BY <1>2, LenProperties
<1> HIDE DEF t
<1>4. \A i \in DOMAIN t : (i \in DOMAIN s /\ t[i] = s[i]) \/ (i = Len(s) + 1 /\ t[i] = n)
  <2> SUFFICES ASSUME NEW i \in 1..(Len(s) + 1)
               PROVE  (i \in 1..Len(s) /\ t[i] = s[i]) \/ (i = Len(s) + 1 /\ t[i] = n)
    BY <1>1, <1>3
  <2>1. i \in 1..Len(s) \/ i = Len(s) + 1
    BY <1>1
  <2> QED
    BY <1>2, <2>1
<1>5. \A i \in DOMAIN s : s[i] < n
  BY DEF Elems
<1>6. Increasing(t)
  <2> SUFFICES ASSUME NEW a \in DOMAIN t, NEW b \in DOMAIN t, a < b PROVE t[a] < t[b]
    BY DEF Increasing
  <2>1. a \in DOMAIN s /\ t[a] = s[a]
    BY <1>1, <1>3, <1>4
  <2> QED
    BY <1>4, <1>5, <2>1 DEF Increasing
<1>7. \A x \in Elems(t) : x \in Elems(s) \cup {n}
  BY <1>4 DEF Elems
<1>8. \A x \in Elems(s) \cup {n} : x \in Elems(t)
  BY <1>1, <1>2, <1>3 DEF Elems
<1> QED
  BY <1>2, <1>6, <1>7, <1>8 DEF t

LEMMA DividesItself ==
  ASSUME NEW q \in Nat \ {0}
  PROVE  q % q = 0
<1>1. (q * 1 + 0) % q = 0
  BY Quotient, 0 \in 0..(q-1)
<1> QED
  BY <1>1

\* What divides a positive number is not greater, and divides what the number divides.
LEMMA Divisors ==
  ASSUME NEW q \in Nat \ {0}, NEW d \in Nat \ {0}, NEW p \in Nat \ {0},
         d % q = 0, p % d = 0
  PROVE  q <= d /\ p % q = 0
<1>1. PICK k \in Nat, b \in 0..(q-1) : d = q * k + b
  BY Division
<1>2. PICK j \in Nat, c \in 0..(d-1) : p = d * j + c
  BY Division
<1>3. b = 0 /\ c = 0
  BY <1>1, <1>2, Quotient
<1>4. d = q * k /\ p = d * j
  BY <1>1, <1>2, <1>3, Multiples
<1>5. k # 0
  BY <1>4
<1>6. q <= d
  BY <1>4, <1>5, Multiples, Monotone
<1>7. j * k \in Nat /\ p = q * (j * k)
  BY <1>4
<1>8. (q * (j * k) + 0) % q = 0
  BY <1>7, Quotient, 0 \in 0..(q-1)
<1> QED
  BY <1>6, <1>7, <1>8

-----------------------------------------------------------------------------
(* The inductive invariant.                                                *)

Types ==
  /\ N \in Numbers /\ terminal \in BOOLEAN /\ failed \in BOOLEAN
  /\ pc \in [Proc -> Ended \cup {"pipe", "fork", "forked", "first", "read", "write", "close", "wait"}]
  /\ number \in [Proc -> Nat] /\ primo_leido \in [Proc -> Nat]
  /\ pipe \in [Proc -> Seq(Nat)] /\ \A i \in Proc : Len(pipe[i]) <= Capacity
  /\ out \in Seq(Nat)

\* Process i has both ends of pipe i, and the reading end of the pipe before.
HasPipe(i) == pc[i] \in {"fork", "first", "read", "write", "close"}
HasInput(i) == HasPipe(i) \/ pc[i] \in {"forked", "pipe"}

\* A process that was just forked has what its parent has.
HasRead(j, p) ==
  \/ j = p /\ HasPipe(j)
  \/ j = p + 1 /\ HasInput(j)
  \/ j = p + 2 /\ pc[j] = "forked"
HasWrite(j, p) ==
  \/ j = p /\ HasPipe(j)
  \/ j = p + 1 /\ pc[j] = "forked"
EndsOpen ==
  /\ readers \in [Proc -> SUBSET Proc] /\ writers \in [Proc -> SUBSET Proc]
  /\ \A p, j \in Proc : (j \in readers[p] <=> HasRead(j, p)) /\ (j \in writers[p] <=> HasWrite(j, p))

\* A process that has forked and has not ended.
Parent(i) == pc[i] \in {"read", "write", "close", "wait"}
Over(i) == pc[i] \in {"zombie", "gone"}

\* The processes are a chain, each forked by the one before after its first number.
ChainAt(i) ==
  /\ Parent(i) => i + 1 \in Proc /\ pc[i+1] # "none"
  /\ i > 0 /\ pc[i] # "none" => Parent(i-1) \/ Over(i-1)
  /\ pc[i] = "zombie" => i > 0 /\ pc[i-1] \notin Ended
  /\ i > 0 /\ (pc[i] = "fork" \/ Parent(i)) => primo_leido[i] # 0
  /\ pc[i] \in {"none", "forked", "pipe", "first"} => primo_leido[i] = 0
  /\ primo_leido[i] # 0 => i > 0 /\ \A j \in 1..i : primo_leido[j] # 0
Chain ==
  /\ pc[0] \notin {"none", "forked", "first", "read", "zombie"}
  /\ \A i \in Proc : ChainAt(i)

\* What the filters up to the i-th let through, and how far it has come.
Stream(i) == {n \in Below(N) : \A j \in 1..i : primo_leido[j] # 0 => n % primo_leido[j] # 0}
LastRead(i) == IF number[i] = 0 THEN primo_leido[i] ELSE number[i]
Passed(i) == IF i = 0 \/ pc[i] = "write" THEN number[i] ELSE LastRead(i) + 1
InPipe(i) == {n \in Stream(i) : LastRead(i+1) < n /\ n < Passed(i)}

FlowAt(i) == i + 1 \in Proc => Increasing(pipe[i]) /\ Elems(pipe[i]) = InPipe(i)
HeardAt(i) ==
  i > 0 =>
    /\ primo_leido[i] # 0 => /\ primo_leido[i] \in Stream(i-1)
                             /\ \A n \in Stream(i-1) : primo_leido[i] <= n
    /\ number[i] # 0 => primo_leido[i] # 0 /\ primo_leido[i] < number[i]
    /\ pc[i] = "write" => number[i] \in Stream(i)
    /\ LastRead(i) = 0 \/ LastRead(i) < Passed(i-1)
Flow == number[0] >= 2 /\ \A i \in Proc : FlowAt(i) /\ HeardAt(i)

Printed ==
  /\ \A k \in DOMAIN out : k \in Proc /\ primo_leido[k] # 0 /\ out[k] = primo_leido[k]
  /\ terminal => \A i \in Proc : primo_leido[i] # 0 => i \in DOMAIN out
  /\ ~terminal => out = <<>>

\* Unless something fails, who has ended has read all that there is, and has a child to
\* pass it on to.
Done(i) == pc[i] = "close" \/ pc[i] = "wait" \/ Over(i)
CompleteAt(i) ==
  /\ Done(i) /\ i = 0 => number[0] >= N
  /\ Done(i) /\ i > 0 => /\ \A n \in Stream(i-1) : n <= LastRead(i)
                         /\ pc[i-1] = "wait" \/ Over(i-1)
  /\ Over(i) /\ (i = 0 \/ primo_leido[i] # 0) => i + 1 \in Proc /\ pc[i+1] # "none"
Complete == failed \/ \A i \in Proc : CompleteAt(i)

SieveInv == Types /\ EndsOpen /\ Chain /\ Flow /\ Printed /\ Complete

LEMMA ProcFacts ==
  ASSUME SieveAssumption
  PROVE  /\ Proc \subseteq Nat /\ 0 \in Proc /\ Filters \in Nat /\ Capacity \in Nat \ {0}
         /\ \A i \in Proc : i > 0 => i - 1 \in Proc
         /\ \A i \in Proc : i + 1 \in Proc <=> i < Filters
         /\ \A i \in Proc : 1..i \subseteq Proc
  BY DEF SieveAssumption, Proc

LEMMA StreamFacts ==
  ASSUME SieveAssumption, Types
  PROVE  /\ N \in Nat
         /\ \A i \in Proc : \A n \in Stream(i) : n \in Nat /\ 2 <= n /\ n < N
         /\ \A i, j \in Proc : i <= j => Stream(j) \subseteq Stream(i)
         /\ \A i \in Proc : i > 0 => Stream(i) =
              {n \in Stream(i-1) : primo_leido[i] # 0 => n % primo_leido[i] # 0}
<1>1. N \in Nat
  BY DEF SieveAssumption, Types
<1>2. \A i \in Proc : \A n \in Stream(i) : n \in Nat /\ 2 <= n /\ n < N
  BY <1>1 DEF Stream, Below
<1>3. \A i, j \in Proc : i <= j => 1..i \subseteq 1..j
  BY ProcFacts
<1>4. \A i, j \in Proc : i <= j => Stream(j) \subseteq Stream(i)
  BY <1>3 DEF Stream
<1>5. ASSUME NEW i \in Proc, i > 0
      PROVE  Stream(i) = {n \in Stream(i-1) : primo_leido[i] # 0 => n % primo_leido[i] # 0}
  <2>1. 1..i = 1..(i-1) \cup {i}
    BY <1>5, ProcFacts
  <2> QED
    BY <2>1 DEF Stream
<1> QED
  BY <1>1, <1>2, <1>4, <1>5

LEMMA ReadTypes ==
  ASSUME SieveAssumption, Types, NEW i \in Proc
  PROVE  /\ LastRead(i) \in Nat /\ Passed(i) \in Nat /\ number[i] \in Nat
         /\ primo_leido[i] \in Nat /\ pipe[i] \in Seq(Nat)
  BY DEF Types, LastRead, Passed

\* A process that reads its first number is told the least one that is there.
LEMMA NextNumber ==
  ASSUME SieveAssumption, SieveInv, NEW i \in Proc, i > 0, CanRead(i)
  PROVE  LET h == Head(pipe[i-1])
         IN  /\ h \in Stream(i-1) /\ h \in Nat /\ 2 <= h /\ LastRead(i) < h /\ h < Passed(i-1)
             /\ \A n \in Stream(i-1) : LastRead(i) < n => h <= n
             /\ Tail(pipe[i-1]) \in Seq(Nat) /\ Len(Tail(pipe[i-1])) <= Capacity
             /\ Increasing(Tail(pipe[i-1]))
             /\ Elems(Tail(pipe[i-1])) = {n \in Stream(i-1) : h < n /\ n < Passed(i-1)}
<1> DEFINE s == pipe[i-1]
           h == Head(s)
<1>0. i \in Nat /\ i - 1 \in Proc /\ (i - 1) + 1 = i
  BY ProcFacts
<1>1. s \in Seq(Nat) /\ s # <<>> /\ Len(s) <= Capacity
  BY <1>0 DEF SieveInv, Types, CanRead
<1>2. Increasing(s) /\ Elems(s) = InPipe(i-1)
  BY <1>0 DEF SieveInv, Flow, FlowAt
<1> HIDE DEF s
<1>3. /\ h \in Nat /\ Tail(s) \in Seq(Nat) /\ Len(Tail(s)) = Len(s) - 1
      /\ Increasing(Tail(s)) /\ h \in Elems(s) /\ \A x \in Elems(s) : h <= x
      /\ Elems(Tail(s)) = {x \in Elems(s) : h < x}
  BY <1>1, <1>2, IncreasingTail
<1> HIDE DEF h
<1>4. Elems(s) = {n \in Stream(i-1) : LastRead(i) < n /\ n < Passed(i-1)}
  BY <1>0, <1>2 DEF InPipe
<1>5. LastRead(i) \in Nat /\ Passed(i-1) \in Nat
  BY <1>0, ReadTypes DEF SieveInv
<1>6. \A n \in Stream(i-1) : n \in Nat /\ 2 <= n
  BY <1>0, StreamFacts DEF SieveInv
<1>7. h \in Stream(i-1) /\ LastRead(i) < h /\ h < Passed(i-1)
  BY <1>3, <1>4
<1>8. \A n \in Stream(i-1) : LastRead(i) < n => h <= n
  BY <1>3, <1>4, <1>5, <1>6, <1>7
<1>9. Elems(Tail(s)) = {n \in Stream(i-1) : h < n /\ n < Passed(i-1)}
  <2>1. ASSUME NEW n \in Stream(i-1), h < n PROVE LastRead(i) < n
    BY <1>3, <1>5, <1>6, <1>7, <2>1
  <2> QED
    BY <1>3, <1>4, <2>1
<1>10. Len(Tail(s)) <= Capacity
  BY <1>1, <1>3, ProcFacts, LenProperties
<1> QED
  BY <1>3, <1>6, <1>7, <1>8, <1>9, <1>10 DEF s, h

-----------------------------------------------------------------------------
(* The numbers kept by the filters are the primes, in order.               *)

LEMMA KeptInOrder ==
  ASSUME SieveAssumption, SieveInv, NEW i \in Proc, primo_leido[i] # 0, NEW j \in 1..(i-1)
  PROVE  primo_leido[j] # 0 /\ primo_leido[j] < primo_leido[i] /\ j \in Proc
<1>1. i \in Nat /\ i > 0 /\ j \in Proc /\ i - 1 \in Proc /\ j - 1 \in Proc /\ j > 0 /\ j - 1 <= i - 1
  BY ProcFacts
<1>2. primo_leido[j] # 0 /\ primo_leido[j] \in Nat /\ primo_leido[i] \in Nat
  BY <1>1, ReadTypes DEF SieveInv, Chain, ChainAt
<1>3. primo_leido[i] \in Stream(i-1)
  BY <1>1 DEF SieveInv, Flow, HeardAt
<1>4. primo_leido[i] \in Stream(j-1)
  BY <1>1, <1>3, StreamFacts DEF SieveInv
<1>5. primo_leido[j] <= primo_leido[i]
  BY <1>1, <1>2, <1>4 DEF SieveInv, Flow, HeardAt
<1>6. primo_leido[i] % primo_leido[j] # 0
  BY <1>2, <1>3 DEF Stream
<1>7. primo_leido[j] % primo_leido[j] = 0
  BY <1>2, DividesItself
<1> QED
  BY <1>1, <1>2, <1>5, <1>6, <1>7

LEMMA KeptArePrimes ==
  ASSUME SieveAssumption, SieveInv, NEW i \in Proc, primo_leido[i] # 0
  PROVE  primo_leido[i] \in Primes(N)
<1> DEFINE p == primo_leido[i]
<1>1. i \in Nat /\ i > 0 /\ i - 1 \in Proc
  BY ProcFacts DEF SieveInv, Chain, ChainAt
<1>2. p \in Stream(i-1) /\ \A n \in Stream(i-1) : p <= n
  BY <1>1 DEF SieveInv, Flow, HeardAt
<1>3. N \in Nat /\ p \in Nat /\ 2 <= p /\ p < N
  BY <1>1, <1>2, StreamFacts DEF SieveInv
<1> HIDE DEF p
<1>4. ASSUME NEW d \in 2..(p-1), p % d = 0 PROVE FALSE
  <2>1. d \in Below(N) /\ d \in Nat /\ ~(p <= d)
    BY <1>3 DEF Below
  <2>2. d \notin Stream(i-1)
    BY <1>2, <2>1
  <2>3. PICK j \in 1..(i-1) : primo_leido[j] # 0 /\ d % primo_leido[j] = 0
    BY <2>1, <2>2 DEF Stream
  <2>4. j \in Proc
    BY <1>1, ProcFacts
  <2>5. primo_leido[j] \in Nat \ {0}
    BY <2>3, <2>4, ReadTypes DEF SieveInv
  <2>6. p % primo_leido[j] = 0
    BY <1>3, <1>4, <2>3, <2>5, Divisors
  <2> QED
    BY <1>2, <2>3, <2>6 DEF Stream
<1> QED
  BY <1>3, <1>4 DEF Primes, IsPrime, Below, p

\* A prime that the first m filters do not let through is one that they keep.
LEMMA PrimesAreKept ==
  ASSUME SieveAssumption, SieveInv, NEW m \in Proc, NEW q \in Primes(N), q \notin Stream(m)
  PROVE  \E j \in 1..m : primo_leido[j] # 0 /\ primo_leido[j] = q
<1>1. N \in Nat /\ m \in Nat
  BY ProcFacts, StreamFacts DEF SieveInv
<1>2. q \in Below(N) /\ q \in Nat \ {0} /\ \A d \in 2..(q-1) : q % d # 0
  BY <1>1 DEF Primes, IsPrime, Below
<1>3. PICK j \in 1..m : primo_leido[j] # 0 /\ q % primo_leido[j] = 0
  BY <1>2 DEF Stream
<1>4. j \in Proc /\ j \in Nat /\ j > 0 /\ j - 1 \in Proc
  BY <1>1, ProcFacts
<1>5. primo_leido[j] \in Nat \ {0}
  BY <1>3, <1>4, ReadTypes DEF SieveInv
<1>6. 2 <= primo_leido[j]
  BY <1>3, <1>4, StreamFacts DEF SieveInv, Flow, HeardAt
<1>7. q % q = 0
  BY <1>2, DividesItself
<1>8. primo_leido[j] <= q
  BY <1>2, <1>3, <1>5, <1>7, Divisors
<1>9. primo_leido[j] = q
  BY <1>2, <1>3, <1>5, <1>6, <1>8
<1> QED
  BY <1>3, <1>9

\* So the chain is long enough.
LEMMA RoomForFilter ==
  ASSUME SieveAssumption, SieveInv, NEW i \in Proc, i = 0 \/ primo_leido[i] # 0
  PROVE  i + 1 \in Proc
<1>1. N \in Numbers /\ N \in Nat /\ i \in Nat
  BY ProcFacts, StreamFacts DEF SieveInv, Types
<1>2. IsFiniteSet(Primes(N)) /\ Cardinality(Primes(N)) < Filters
  <2>1. IsFiniteSet(2..(N-1))
    BY <1>1, FS_Interval
  <2>2. Primes(N) \subseteq 2..(N-1)
    BY DEF Primes, Below
  <2> QED
    BY <1>1, <2>1, <2>2, FS_Subset DEF SieveAssumption
<1>3. CASE i = 0
  BY <1>2, <1>3, FS_CardinalityType, ProcFacts
<1>4. CASE primo_leido[i] # 0
  <2> DEFINE f == [j \in 1..i |-> primo_leido[j]]
  <2>1. i > 0 /\ \A j \in 1..i : j \in Proc /\ primo_leido[j] # 0 /\ primo_leido[j] \in Primes(N)
    BY <1>1, <1>4, KeptArePrimes, ProcFacts DEF SieveInv, Chain, ChainAt
  <2>2. f \in [1..i -> Primes(N)]
    BY <2>1
  <2>3. ASSUME NEW a \in 1..i, NEW b \in 1..i, f[a] = f[b] PROVE a = b
    <3>1. primo_leido[a] \in Nat /\ primo_leido[b] \in Nat /\ a \in Nat /\ b \in Nat
      BY <1>1, <2>1, ReadTypes DEF SieveInv
    <3>2. a < b => a \in 1..(b-1)
      BY <3>1
    <3>3. b < a => b \in 1..(a-1)
      BY <3>1
    <3> QED
      BY <2>1, <2>3, <3>1, <3>2, <3>3, KeptInOrder
  <2>4. f \in Injection(1..i, Primes(N))
    BY <2>2, <2>3, Fun_IsInj
  <2>5. IsFiniteSet(1..i) /\ Cardinality(1..i) = i
    BY <1>1, FS_Interval
  <2>6. i <= Cardinality(Primes(N))
    BY <1>2, <2>4, <2>5, FS_Injection
  <2> QED
    BY <1>1, <1>2, <2>6, FS_CardinalityType, ProcFacts
<1> QED
  BY <1>3, <1>4

-----------------------------------------------------------------------------
(* The invariant holds at first and is kept by every step.                 *)

LEMMA SieveStarts ==
  ASSUME SieveAssumption, Init
  PROVE  SieveInv
<1>1. Proc \subseteq Nat /\ 0 \in Proc
  BY ProcFacts
<1>2. /\ pc \in [Proc -> {"pipe", "none"}] /\ pc[0] = "pipe" /\ \A i \in Proc : i > 0 => pc[i] = "none"
      /\ number \in [Proc -> Nat] /\ number[0] = 2 /\ \A i \in Proc : i > 0 => number[i] = 0
      /\ primo_leido \in [Proc -> Nat] /\ \A i \in Proc : primo_leido[i] = 0
      /\ pipe \in [Proc -> Seq(Nat)] /\ \A i \in Proc : pipe[i] = <<>>
  BY <1>1 DEF Init, Idle
<1>3. Len(<<>>) = 0 /\ Elems(<<>>) = {} /\ Increasing(<<>>) /\ DOMAIN <<>> = {} /\ <<>> \in Seq(Nat)
  BY DEF Elems, Increasing
<1>4. Types
  <2>1. N \in Numbers /\ terminal \in BOOLEAN /\ failed \in BOOLEAN /\ out \in Seq(Nat)
    BY <1>3 DEF Init
  <2>2. \A i \in Proc : Len(pipe[i]) <= Capacity
    BY <1>2, <1>3, ProcFacts
  <2>3. pc \in [Proc -> Ended \cup {"pipe", "fork", "forked", "first", "read", "write", "close", "wait"}]
    BY <1>2 DEF Ended
  <2> QED
    BY <1>2, <2>1, <2>2, <2>3 DEF Types
<1>5. EndsOpen
  BY <1>1, <1>2 DEF Init, EndsOpen, HasRead, HasWrite, HasPipe, HasInput
<1>6. Chain
  BY <1>1, <1>2 DEF Chain, ChainAt, Parent, Over, Ended
<1>7. Flow
  <2>1. ASSUME NEW i \in Proc PROVE FlowAt(i)
    <3> SUFFICES ASSUME i + 1 \in Proc PROVE InPipe(i) = {}
      BY <1>2, <1>3 DEF FlowAt
    <3>1. \A n \in Stream(i) : n \in Nat /\ 2 <= n
      BY <1>4, StreamFacts
    <3>2. Passed(i) <= 2
      BY <1>1, <1>2 DEF Passed, LastRead
    <3>3. Passed(i) \in Nat
      BY <1>4, ReadTypes
    <3> QED
      BY <3>1, <3>2, <3>3 DEF InPipe
  <2>2. ASSUME NEW i \in Proc PROVE HeardAt(i)
    BY <1>1, <1>2 DEF HeardAt, LastRead
  <2> QED
    BY <1>2, <2>1, <2>2 DEF Flow
<1>8. Printed
  BY <1>2, <1>3 DEF Init, Printed
<1>9. Complete
  BY <1>1, <1>2 DEF Complete, CompleteAt, Done, Over
<1> QED
  BY <1>4, <1>5, <1>6, <1>7, <1>8, <1>9 DEF SieveInv

\* What _exit does.
LEMMA ExitFacts ==
  ASSUME SieveAssumption, SieveInv, NEW i \in Proc, Exit(i)
  PROVE  /\ pc' \in [Proc -> Ended \cup {"pipe", "fork", "forked", "first", "read", "write", "close", "wait"}]
         /\ pc'[i] = IF i > 0 /\ pc[i-1] \notin Ended THEN "zombie" ELSE "gone"
         /\ \A j \in Proc : j # i => \/ pc'[j] = pc[j] /\ (j = i + 1 => pc[j] # "zombie")
                                     \/ j = i + 1 /\ pc[j] = "zombie" /\ pc'[j] = "gone"
         /\ readers' \in [Proc -> SUBSET Proc] /\ writers' \in [Proc -> SUBSET Proc]
         /\ \A p \in Proc : readers'[p] = readers[p] \ {i} /\ writers'[p] = writers[p] \ {i}
<1>1. pc \in [Proc -> Ended \cup {"pipe", "fork", "forked", "first", "read", "write", "close", "wait"}]
  BY DEF SieveInv, Types
<1>2. readers \in [Proc -> SUBSET Proc] /\ writers \in [Proc -> SUBSET Proc]
  BY DEF SieveInv, EndsOpen
<1>3. i + 1 # i
  BY ProcFacts
<1>4. pc' = [j \in Proc |-> IF j = i THEN IF i > 0 /\ pc[i-1] \notin Ended THEN "zombie" ELSE "gone"
                           ELSE IF j = i + 1 /\ pc[j] = "zombie" THEN "gone" ELSE pc[j]]
  BY DEF Exit
<1>5. pc' \in [Proc -> Ended \cup {"pipe", "fork", "forked", "first", "read", "write", "close", "wait"}]
  BY <1>1, <1>4 DEF Ended
<1>6. pc'[i] = IF i > 0 /\ pc[i-1] \notin Ended THEN "zombie" ELSE "gone"
  BY <1>4
<1>7. \A j \in Proc : j # i => pc'[j] = IF j = i + 1 /\ pc[j] = "zombie" THEN "gone" ELSE pc[j]
  BY <1>4
<1>8. \A j \in Proc : j # i => \/ pc'[j] = pc[j] /\ (j = i + 1 => pc[j] # "zombie")
                               \/ j = i + 1 /\ pc[j] = "zombie" /\ pc'[j] = "gone"
  <2> SUFFICES ASSUME NEW j \in Proc, j # i
               PROVE  \/ pc'[j] = pc[j] /\ (j = i + 1 => pc[j] # "zombie")
                      \/ j = i + 1 /\ pc[j] = "zombie" /\ pc'[j] = "gone"
    OBVIOUS
  <2>1. pc'[j] = IF j = i + 1 /\ pc[j] = "zombie" THEN "gone" ELSE pc[j]
    BY <1>7
  <2>2. CASE j = i + 1 /\ pc[j] = "zombie"
    BY <2>1, <2>2
  <2>3. CASE ~(j = i + 1 /\ pc[j] = "zombie")
    BY <2>1, <2>3
  <2> QED
    BY <2>2, <2>3
<1>9. readers' \in [Proc -> SUBSET Proc] /\ writers' \in [Proc -> SUBSET Proc]
  BY <1>2 DEF Exit
<1>10. \A p \in Proc : readers'[p] = readers[p] \ {i} /\ writers'[p] = writers[p] \ {i}
  BY DEF Exit
<1> HIDE DEF Exit
<1> QED
  BY <1>5, <1>6, <1>8, <1>9, <1>10, Zenon

LEMMA TypesKept ==
  ASSUME SieveAssumption, SieveInv, NEW i \in Proc, Step(i)
  PROVE  Types'
<1> DEFINE Pc == Ended \cup {"pipe", "fork", "forked", "first", "read", "write", "close", "wait"}
<1>1. Types
  BY DEF SieveInv
<1>2. i \in Nat
  BY ProcFacts
<1>3. CASE Pipe(i) \/ Fork(i) \/ CloseForked(i) \/ ReadEof(i) \/ Close(i) \/ (i = 0 /\ WroteAll)
  <2>1. pc' \in [Proc -> Pc]
    BY <1>1, <1>3 DEF Types, Pipe, Fork, CloseForked, ReadEof, Close, WroteAll
  <2>2. UNCHANGED <<N, terminal, failed, number, primo_leido, pipe, out>>
    BY <1>3 DEF Pipe, Fork, CloseForked, ReadEof, Close, WroteAll, held
  <2> QED
    BY <1>1, <2>1, <2>2 DEF Types
<1>4. CASE Fails(i, "pipe") \/ Fails(i, "fork") \/ NoFirst(i) \/ Wait(i)
  <2>1. Exit(i)
    BY <1>4 DEF Fails, NoFirst, Wait
  <2>2. pc' \in [Proc -> Pc]
    BY <2>1, ExitFacts
  <2>3. UNCHANGED <<N, terminal, number, primo_leido, pipe, out>> /\ failed' \in BOOLEAN
    BY <1>1, <1>4 DEF Fails, NoFirst, Wait, held, Types
  <2> QED
    BY <1>1, <2>2, <2>3 DEF Types
<1>5. CASE ReadFirst(i) \/ Read(i)
  <2>1. CanRead(i) /\ i > 0 /\ i - 1 \in Proc
    BY <1>5, ProcFacts DEF ReadFirst, Read, SieveInv, Chain
  <2> DEFINE h == Head(pipe[i-1])
             t == Tail(pipe[i-1])
  <2>2. h \in Nat /\ t \in Seq(Nat) /\ Len(t) <= Capacity
    BY <2>1, NextNumber
  <2>3. pipe' = [pipe EXCEPT ![i-1] = t]
    BY <1>5 DEF ReadFirst, Read
  <2>4. \/ primo_leido' = [primo_leido EXCEPT ![i] = h] /\ number' = number
        \/ number' = [number EXCEPT ![i] = h] /\ primo_leido' = primo_leido
    BY <1>5 DEF ReadFirst, Read
  <2>5. out' = out \/ out' = Append(out, h)
    BY <1>5 DEF ReadFirst, Read
  <2>6. pc' \in [Proc -> Pc]
    BY <1>1, <1>5 DEF Types, ReadFirst, Read
  <2>7. UNCHANGED <<N, terminal, failed>>
    BY <1>5 DEF ReadFirst, Read, held
  <2> HIDE DEF h, t
  <2>8. pipe' \in [Proc -> Seq(Nat)] /\ \A j \in Proc : Len(pipe'[j]) <= Capacity
    BY <1>1, <2>1, <2>2, <2>3 DEF Types
  <2>9. number' \in [Proc -> Nat] /\ primo_leido' \in [Proc -> Nat]
    BY <1>1, <2>2, <2>4 DEF Types
  <2>10. out' \in Seq(Nat)
    <3>1. out \in Seq(Nat)
      BY <1>1 DEF Types
    <3>2. Append(out, h) \in Seq(Nat)
      BY <2>2, <3>1, AppendProperties
    <3> QED
      BY <2>5, <3>1, <3>2
  <2> QED
    BY <1>1, <2>6, <2>7, <2>8, <2>9, <2>10 DEF Types
<1>6. CASE Write(i) \/ (i = 0 /\ WriteNext)
  <2> DEFINE t == Append(pipe[i], number[i])
  <2>1. Len(pipe[i]) < Capacity /\ pipe' = [pipe EXCEPT ![i] = t]
    BY <1>6 DEF Write, WriteNext, CanWrite
  <2>2. pipe[i] \in Seq(Nat) /\ number[i] \in Nat
    BY <1>1, ReadTypes
  <2>3. t \in Seq(Nat) /\ Len(t) = Len(pipe[i]) + 1
    BY <2>2, AppendProperties
  <2>4. Len(t) <= Capacity
    BY <2>1, <2>2, <2>3, ProcFacts, LenProperties
  <2>5. number' = number \/ number' = [number EXCEPT ![0] = number[0] + 1]
    BY <1>6 DEF Write, WriteNext
  <2>6. pc' \in [Proc -> Pc]
    BY <1>1, <1>6 DEF Types, Write, WriteNext
  <2>7. UNCHANGED <<N, terminal, failed, primo_leido, out>>
    BY <1>6 DEF Write, WriteNext, held
  <2> HIDE DEF t
  <2>8. pipe' \in [Proc -> Seq(Nat)] /\ \A j \in Proc : Len(pipe'[j]) <= Capacity
    BY <1>1, <2>1, <2>3, <2>4 DEF Types
  <2>9. number' \in [Proc -> Nat]
    BY <1>1, <2>5, ProcFacts DEF Types
  <2> QED
    BY <1>1, <2>6, <2>7, <2>8, <2>9 DEF Types
<1> QED
  BY <1>3, <1>4, <1>5, <1>6 DEF Step

\* Nobody has been forked by a process that has not forked.
LEMMA NoChildYet ==
  ASSUME SieveAssumption, SieveInv, NEW i \in Proc, pc[i] \in {"forked", "pipe", "first", "fork"}
  PROVE  \A j \in Proc : j > i => pc[j] = "none"
<1>1. \A j \in Proc : j \in Nat /\ (j > 0 => j - 1 \in Proc)
  BY ProcFacts
<1>2. \A j \in Proc : j > 0 /\ pc[j] # "none" => pc[j-1] \in {"read", "write", "close", "wait", "zombie", "gone"}
  BY DEF SieveInv, Chain, ChainAt, Parent, Over
<1> DEFINE S == {j \in Proc : j > i /\ pc[j] # "none"}
<1> SUFFICES ASSUME S # {} PROVE FALSE
  OBVIOUS
<1>3. S \in SUBSET Nat
  BY <1>1
<1>4. PICK j \in S : \A k \in S : j <= k
  <2> HIDE DEF S
  <2> QED
    BY <1>3, LeastExists
<1>5. j - 1 \in Proc /\ pc[j-1] \in {"read", "write", "close", "wait", "zombie", "gone"}
  BY <1>1, <1>2, <1>4
<1>6. j - 1 > i
  BY <1>1, <1>4, <1>5
<1>7. j - 1 \in S
  BY <1>5, <1>6
<1> QED
  BY <1>1, <1>4, <1>7

\* What process j has open does not change.
SameEnds(j) ==
  /\ HasPipe(j)' <=> HasPipe(j)
  /\ HasInput(j)' <=> HasInput(j)
  /\ pc'[j] = "forked" <=> pc[j] = "forked"

LEMMA EndsKept ==
  ASSUME SieveAssumption, SieveInv, NEW i \in Proc, Step(i)
  PROVE  EndsOpen'
<1>1. Types /\ Proc \subseteq Nat
  BY ProcFacts DEF SieveInv
<1>2. /\ readers \in [Proc -> SUBSET Proc] /\ writers \in [Proc -> SUBSET Proc]
      /\ \A p, j \in Proc :
           (j \in readers[p] <=> HasRead(j, p)) /\ (j \in writers[p] <=> HasWrite(j, p))
  BY DEF SieveInv, EndsOpen
<1>3. CASE UNCHANGED ends /\ \A j \in Proc : SameEnds(j)
  BY <1>2, <1>3 DEF EndsOpen, ends, SameEnds, HasRead, HasWrite
<1>4. CASE /\ readers' = [p \in Proc |-> readers[p] \ {i}] /\ writers' = [p \in Proc |-> writers[p] \ {i}]
           /\ ~HasPipe(i)' /\ ~HasInput(i)' /\ pc'[i] # "forked"
           /\ \A j \in Proc : j # i => SameEnds(j)
  BY <1>2, <1>4 DEF EndsOpen, SameEnds, HasRead, HasWrite
<1>5. CASE Read(i) \/ ReadFirst(i) \/ ReadEof(i) \/ Write(i) \/ (i = 0 /\ (WriteNext \/ WroteAll))
  <2>1. UNCHANGED ends
    BY <1>5 DEF Read, ReadFirst, ReadEof, Write, WriteNext, WroteAll
  <2>2. /\ \A j \in Proc : j # i => pc'[j] = pc[j]
        /\ HasPipe(i) /\ HasPipe(i)'
    BY <1>1, <1>5 DEF Read, ReadFirst, ReadEof, Write, WriteNext, WroteAll, HasPipe, Types
  <2> QED
    BY <2>1, <2>2, <1>3 DEF HasPipe, HasInput, SameEnds
<1>6. CASE Exit(i)
  <2>1. /\ pc'[i] \in {"zombie", "gone"}
        /\ \A j \in Proc : j # i => pc'[j] = pc[j] \/ (pc[j] = "zombie" /\ pc'[j] = "gone")
    BY <1>6, ExitFacts
  <2>2. readers' = [p \in Proc |-> readers[p] \ {i}] /\ writers' = [p \in Proc |-> writers[p] \ {i}]
    BY <1>6 DEF Exit
  <2> QED
    BY <2>1, <2>2, <1>4 DEF HasPipe, HasInput, SameEnds
<1>7. CASE Close(i)
  <2>1. pc'[i] = "wait" /\ \A j \in Proc : j # i => pc'[j] = pc[j]
    BY <1>1, <1>7 DEF Close, Types
  <2> QED
    BY <2>1, <1>4, <1>7 DEF Close, HasPipe, HasInput, SameEnds
<1>8. CASE Pipe(i)
  <2>1. pc[i] = "pipe" /\ pc'[i] \in {"fork", "first"} /\ \A j \in Proc : j # i => pc'[j] = pc[j]
    BY <1>1, <1>8 DEF Pipe, Types
  <2>2. \A j \in Proc : j > i => pc[j] = "none"
    BY <2>1, NoChildYet
  <2>3. readers' = [readers EXCEPT ![i] = {i}] /\ writers' = [writers EXCEPT ![i] = {i}]
    BY <1>8 DEF Pipe
  <2>4. readers' \in [Proc -> SUBSET Proc] /\ writers' \in [Proc -> SUBSET Proc]
    BY <1>2, <2>3
  <2>5. ~HasPipe(i) /\ HasInput(i) /\ HasPipe(i)' /\ HasInput(i)'
    BY <2>1 DEF HasPipe, HasInput, SameEnds
  <2>6. \A j \in Proc : j # i => (HasPipe(j)' <=> HasPipe(j)) /\ (HasInput(j)' <=> HasInput(j))
    BY <2>1 DEF HasPipe, HasInput, SameEnds
  <2>7. \A j \in Proc : j > i => ~HasInput(j) /\ pc[j] # "forked"
    BY <2>2 DEF HasPipe, HasInput, SameEnds
  <2>8. ASSUME NEW p \in Proc, NEW j \in Proc
        PROVE  (j \in readers'[p] <=> HasRead(j, p)') /\ (j \in writers'[p] <=> HasWrite(j, p)')
    <3>1. CASE p = i
      <4>1. readers'[p] = {i} /\ writers'[p] = {i}
        BY <1>2, <2>3, <3>1
      <4>2. p + 1 > i /\ p + 2 > i /\ i \in Nat
        BY <1>1, <3>1
      <4>3. j = p + 1 => ~HasInput(j)' /\ pc'[j] # "forked"
        BY <2>1, <2>6, <2>7, <4>2
      <4>4. j = p + 2 => pc'[j] # "forked"
        BY <2>1, <2>7, <4>2
      <4> QED
        BY <2>5, <3>1, <4>1, <4>2, <4>3, <4>4 DEF HasRead, HasWrite
    <3>2. CASE p # i
      <4>1. readers'[p] = readers[p] /\ writers'[p] = writers[p]
        BY <1>2, <2>3, <3>2
      <4>2. j = p => (HasPipe(j)' <=> HasPipe(j))
        BY <2>6, <3>2
      <4>3. (HasInput(j)' <=> HasInput(j)) /\ (pc'[j] = "forked" <=> pc[j] = "forked")
        BY <2>1, <2>5, <2>6
      <4> QED
        BY <1>2, <4>1, <4>2, <4>3 DEF HasRead, HasWrite
    <3> QED
      BY <3>1, <3>2
  <2> QED
    BY <2>4, <2>8 DEF EndsOpen
<1>9. CASE Fork(i)
  <2>1. i = 0 \/ primo_leido[i] # 0
    BY <1>9, ProcFacts DEF Fork, SieveInv, Chain, ChainAt
  <2>2. i + 1 \in Proc
    BY <2>1, RoomForFilter
  <2>3. /\ pc[i] = "fork" /\ pc'[i] \in {"write", "read"} /\ pc'[i+1] = "forked"
        /\ \A j \in Proc : j # i /\ j # i + 1 => pc'[j] = pc[j]
    BY <1>1, <1>9, <2>2 DEF Fork, Types
  <2>4. pc[i+1] = "none"
    BY <1>1, <2>2, <2>3, NoChildYet
  <2>5. /\ readers' = [p \in Proc |-> IF i \in readers[p] THEN readers[p] \cup {i+1} ELSE readers[p]]
        /\ writers' = [p \in Proc |-> IF i \in writers[p] THEN writers[p] \cup {i+1} ELSE writers[p]]
    BY <1>9 DEF Fork
  <2>6. readers' \in [Proc -> SUBSET Proc] /\ writers' \in [Proc -> SUBSET Proc]
    BY <1>2, <2>2, <2>5
  <2>7. /\ \A j \in Proc : j # i + 1 => SameEnds(j)
        /\ HasPipe(i) /\ HasInput(i)
        /\ ~HasPipe(i+1) /\ ~HasInput(i+1) /\ ~HasPipe(i+1)' /\ HasInput(i+1)'
    BY <2>3, <2>4 DEF HasPipe, HasInput, SameEnds
  <2>8. ASSUME NEW p \in Proc, NEW j \in Proc
        PROVE  (j \in readers'[p] <=> HasRead(j, p)') /\ (j \in writers'[p] <=> HasWrite(j, p)')
    <3>1. CASE j # i + 1
      <4>1. (j \in readers'[p] <=> j \in readers[p]) /\ (j \in writers'[p] <=> j \in writers[p])
        BY <2>5, <3>1
      <4> QED
        BY <1>2, <2>7, <3>1, <4>1 DEF HasRead, HasWrite, SameEnds
    <3>2. CASE j = i + 1
      <4>1. j \notin readers[p] /\ j \notin writers[p]
        BY <1>2, <2>4, <2>7, <3>2 DEF HasRead, HasWrite
      <4>2. (j \in readers'[p] <=> i \in readers[p]) /\ (j \in writers'[p] <=> i \in writers[p])
        BY <2>5, <3>2, <4>1
      <4>3. (i \in readers[p] <=> i = p \/ i = p + 1) /\ (i \in writers[p] <=> i = p)
        BY <1>2, <2>3, <2>7 DEF HasRead, HasWrite
      <4>4. (j = p + 1 <=> i = p) /\ (j = p + 2 <=> i = p + 1)
        BY <1>1, <3>2
      <4> QED
        BY <2>3, <2>7, <3>2, <4>2, <4>3, <4>4 DEF HasRead, HasWrite
    <3> QED
      BY <3>1, <3>2
  <2> QED
    BY <2>6, <2>8 DEF EndsOpen
<1>10. CASE CloseForked(i)
  <2>1. pc[i] = "forked" /\ pc'[i] = "pipe" /\ \A j \in Proc : j # i => pc'[j] = pc[j]
    BY <1>1, <1>10 DEF CloseForked, Types
  <2>2. /\ readers' = [p \in Proc |-> IF p = i - 1 THEN readers[p] ELSE readers[p] \ {i}]
        /\ writers' = [p \in Proc |-> writers[p] \ {i}]
    BY <1>10 DEF CloseForked, Keeps
  <2>3. readers' \in [Proc -> SUBSET Proc] /\ writers' \in [Proc -> SUBSET Proc]
    BY <1>2, <2>2
  <2>4. /\ \A j \in Proc : j # i => SameEnds(j)
        /\ ~HasPipe(i) /\ HasInput(i) /\ ~HasPipe(i)' /\ HasInput(i)'
    BY <2>1 DEF HasPipe, HasInput, SameEnds
  <2>5. ASSUME NEW p \in Proc, NEW j \in Proc
        PROVE  (j \in readers'[p] <=> HasRead(j, p)') /\ (j \in writers'[p] <=> HasWrite(j, p)')
    <3>1. CASE j # i
      <4>1. (j \in readers'[p] <=> j \in readers[p]) /\ (j \in writers'[p] <=> j \in writers[p])
        BY <2>2, <3>1
      <4> QED
        BY <1>2, <2>4, <3>1, <4>1 DEF HasRead, HasWrite, SameEnds
    <3>2. CASE j = i
      <4>1. p = i - 1 <=> j = p + 1
        BY <1>1, <3>2
      <4>2. (j \in readers'[p] <=> p = i - 1 /\ j \in readers[p]) /\ j \notin writers'[p]
        BY <2>2, <3>2
      <4> QED
        BY <1>2, <2>1, <2>4, <3>2, <4>1, <4>2 DEF HasRead, HasWrite
    <3> QED
      BY <3>1, <3>2
  <2> QED
    BY <2>3, <2>5 DEF EndsOpen
<1> QED
  BY <1>5, <1>6, <1>7, <1>8, <1>9, <1>10 DEF Step, Fails, NoFirst, Wait

LEMMA ChainKept ==
  ASSUME SieveAssumption, SieveInv, NEW i \in Proc, Step(i)
  PROVE  Chain'
<1>1. /\ \A j \in Proc : j \in Nat /\ (j > 0 => j - 1 \in Proc)
      /\ pc \in [Proc -> Ended \cup {"pipe", "fork", "forked", "first", "read", "write", "close", "wait"}]
      /\ primo_leido \in [Proc -> Nat]
      /\ 0 \in Proc
  BY ProcFacts DEF SieveInv, Types
<1>2. /\ pc[0] \notin {"none", "forked", "first", "read", "zombie"}
      /\ \A j \in Proc : ChainAt(j)
  BY DEF SieveInv, Chain
<1>3. CASE Read(i) \/ ReadEof(i) \/ Write(i) \/ (i = 0 /\ (WriteNext \/ WroteAll)) \/ Close(i)
  <2>1. /\ UNCHANGED primo_leido /\ \A j \in Proc : j # i => pc'[j] = pc[j]
        /\ pc[i] \in {"read", "write", "close"} /\ pc'[i] \in {"read", "write", "close", "wait"}
        /\ i = 0 => pc'[i] # "read"
    BY <1>1, <1>2, <1>3 DEF Read, ReadEof, Write, WriteNext, WroteAll, Close
  <2>2. ASSUME NEW j \in Proc PROVE ChainAt(j)'
    BY <1>1, <1>2, <2>1 DEF ChainAt, Parent, Over, Ended
  <2> QED
    BY <1>1, <1>2, <2>1, <2>2 DEF Chain
<1>4. CASE Pipe(i) \/ CloseForked(i)
  <2>1. /\ UNCHANGED primo_leido /\ \A j \in Proc : j # i => pc'[j] = pc[j]
        /\ pc[i] \in {"forked", "pipe"} /\ pc'[i] \in {"pipe", "first", "fork"}
        /\ i = 0 => pc'[i] # "first"
        /\ i > 0 => pc'[i] # "fork"
    BY <1>1, <1>2, <1>4 DEF Pipe, CloseForked
  <2>2. ASSUME NEW j \in Proc PROVE ChainAt(j)'
    BY <1>1, <1>2, <2>1 DEF ChainAt, Parent, Over, Ended
  <2> QED
    BY <1>1, <1>2, <2>1, <2>2 DEF Chain
<1>5. CASE ReadFirst(i)
  <2> DEFINE h == Head(pipe[i-1])
  <2>1. i > 0 /\ CanRead(i)
    BY <1>1, <1>2, <1>5 DEF ReadFirst
  <2>2. h \in Nat /\ 2 <= h /\ h < Passed(i-1)
    BY <2>1, NextNumber
  <2>3. /\ pc[i] = "first" /\ pc'[i] = "fork" /\ \A j \in Proc : j # i => pc'[j] = pc[j]
        /\ primo_leido' = [primo_leido EXCEPT ![i] = h]
    BY <1>1, <1>5 DEF ReadFirst
  <2> HIDE DEF h
  <2>4. primo_leido'[i] = h /\ \A j \in Proc : j # i => primo_leido'[j] = primo_leido[j]
    BY <1>1, <2>3
  <2>5. i - 1 = 0 \/ primo_leido[i-1] # 0
    <3> SUFFICES ASSUME i - 1 \in Proc, i - 1 > 0, primo_leido[i-1] = 0 PROVE FALSE
      BY <1>1, <2>1
    <3>1. number[i-1] = 0 /\ pc[i-1] # "write"
      BY <1>2 DEF SieveInv, Flow, HeardAt, ChainAt, Parent
    <3>2. Passed(i-1) = 1
      BY <3>1 DEF Passed, LastRead
    <3> QED
      BY <2>2, <3>2
  <2>6. \A j \in 1..i : primo_leido'[j] # 0
    <3> SUFFICES ASSUME NEW j \in 1..i, j # i PROVE primo_leido'[j] # 0
      BY <2>2, <2>4
    <3>1. j \in 1..(i-1) /\ j \in Proc /\ i - 1 \in Proc /\ i - 1 > 0
      BY <1>1, <2>1, ProcFacts
    <3>2. primo_leido[j] # 0
      BY <1>2, <2>5, <3>1 DEF ChainAt
    <3> QED
      BY <2>4, <3>1, <3>2
  <2>7. ASSUME NEW j \in Proc PROVE ChainAt(j)'
    <3>1. CASE j = i
      BY <1>1, <1>2, <2>1, <2>2, <2>3, <2>4, <2>6, <3>1 DEF ChainAt, Parent, Over, Ended
    <3>2. CASE j # i
      <4>1. /\ Parent(j)' => j + 1 \in Proc /\ pc'[j+1] # "none"
            /\ j > 0 /\ pc'[j] # "none" => Parent(j-1)' \/ Over(j-1)'
            /\ pc'[j] = "zombie" => j > 0 /\ pc'[j-1] \notin Ended
            /\ j > 0 /\ (pc'[j] = "fork" \/ Parent(j)') => primo_leido'[j] # 0
            /\ pc'[j] \in {"none", "forked", "pipe", "first"} => primo_leido'[j] = 0
        BY <1>1, <1>2, <2>3, <2>4, <3>2 DEF ChainAt, Parent, Over, Ended
      <4>2. ASSUME primo_leido'[j] # 0
            PROVE  j > 0 /\ \A k \in 1..j : primo_leido'[k] # 0
        <5>1. j > 0 /\ \A k \in 1..j : k \in Proc /\ primo_leido[k] # 0
          BY <1>2, <2>4, <3>2, <4>2, ProcFacts DEF ChainAt
        <5> QED
          BY <2>2, <2>4, <5>1
      <4> QED
        BY <4>1, <4>2 DEF ChainAt
    <3> QED
      BY <3>1, <3>2
  <2> QED
    BY <1>1, <1>2, <2>1, <2>3, <2>7 DEF Chain
<1>6. CASE Exit(i) /\ UNCHANGED primo_leido /\ pc[i] # "none"
  <2>1. /\ pc'[i] = IF i > 0 /\ pc[i-1] \notin Ended THEN "zombie" ELSE "gone"
        /\ \A j \in Proc : j # i => \/ pc'[j] = pc[j] /\ (j = i + 1 => pc[j] # "zombie")
                                    \/ j = i + 1 /\ pc[j] = "zombie" /\ pc'[j] = "gone"
    BY <1>6, ExitFacts
  <2>2. ASSUME NEW j \in Proc PROVE ChainAt(j)'
    <3>1. Parent(j)' => j + 1 \in Proc /\ pc'[j+1] # "none"
      BY <1>1, <1>2, <2>1 DEF ChainAt, Parent, Over, Ended
    <3>2. j > 0 /\ pc'[j] # "none" => Parent(j-1)' \/ Over(j-1)'
      <4>1. CASE j = i
        BY <1>1, <1>2, <1>6, <2>1, <4>1 DEF ChainAt, Parent, Over
      <4>2. CASE j = i + 1
        BY <1>1, <2>1, <4>2 DEF Over
      <4>3. CASE j # i /\ j # i + 1
        <5>1. j > 0 => j - 1 \in Proc /\ j - 1 # i /\ (j - 1) + 1 = j
          BY <1>1, <4>3
        <5>2. pc'[j] = pc[j] /\ (j > 0 => pc'[j-1] = pc[j-1] \/ pc'[j-1] = "gone")
          BY <2>1, <4>3, <5>1
        <5> QED
          BY <1>2, <5>1, <5>2 DEF ChainAt, Parent, Over
      <4> QED
        BY <4>1, <4>2, <4>3
    <3>3. pc'[j] = "zombie" => j > 0 /\ pc'[j-1] \notin Ended
      BY <1>1, <1>2, <2>1 DEF ChainAt, Parent, Over, Ended
    <3>4. j > 0 /\ (pc'[j] = "fork" \/ Parent(j)') => primo_leido'[j] # 0
      BY <1>2, <1>6, <2>1 DEF ChainAt, Parent, Over
    <3>5. pc'[j] \in {"none", "forked", "pipe", "first"} => primo_leido'[j] = 0
      BY <1>2, <1>6, <2>1 DEF ChainAt
    <3>6. primo_leido'[j] # 0 => j > 0 /\ \A k \in 1..j : primo_leido'[k] # 0
      BY <1>2, <1>6 DEF ChainAt
    <3> QED
      BY <3>1, <3>2, <3>3, <3>4, <3>5, <3>6 DEF ChainAt
  <2> QED
    BY <1>1, <1>2, <2>1, <2>2 DEF Chain
<1>7. CASE Fork(i)
  <2>1. i = 0 \/ primo_leido[i] # 0
    BY <1>1, <1>2, <1>7 DEF Fork, ChainAt
  <2>2. i + 1 \in Proc
    BY <2>1, RoomForFilter
  <2>3. /\ UNCHANGED primo_leido
        /\ pc[i] = "fork" /\ pc'[i] = IF i = 0 THEN "write" ELSE "read"
        /\ pc'[i+1] = "forked"
        /\ \A j \in Proc : j # i /\ j # i + 1 => pc'[j] = pc[j]
    BY <1>1, <1>7, <2>2 DEF Fork
  <2>4. \A j \in Proc : j > i => pc[j] = "none"
    BY <2>3, NoChildYet
  <2>5. ASSUME NEW j \in Proc PROVE ChainAt(j)'
    <3>1. Parent(j)' => j + 1 \in Proc /\ pc'[j+1] # "none"
      BY <1>1, <1>2, <2>2, <2>3 DEF ChainAt, Parent, Over, Ended
    <3>2. j > 0 /\ pc'[j] # "none" => Parent(j-1)' \/ Over(j-1)'
      BY <1>1, <1>2, <2>2, <2>3, <2>4 DEF ChainAt, Parent, Over, Ended
    <3>3. pc'[j] = "zombie" => j > 0 /\ pc'[j-1] \notin Ended
      BY <1>1, <1>2, <2>2, <2>3, <2>4 DEF ChainAt, Parent, Over, Ended
    <3>4. j > 0 /\ (pc'[j] = "fork" \/ Parent(j)') => primo_leido'[j] # 0
      BY <1>1, <1>2, <2>1, <2>2, <2>3 DEF ChainAt, Parent
    <3>5. pc'[j] \in {"none", "forked", "pipe", "first"} => primo_leido'[j] = 0
      BY <1>1, <1>2, <2>2, <2>3, <2>4 DEF ChainAt
    <3>6. primo_leido'[j] # 0 => j > 0 /\ \A k \in 1..j : primo_leido'[k] # 0
      BY <1>2, <2>3 DEF ChainAt
    <3> QED
      BY <3>1, <3>2, <3>3, <3>4, <3>5, <3>6 DEF ChainAt
  <2> QED
    BY <1>1, <1>2, <2>2, <2>3, <2>5 DEF Chain
<1> QED
  BY <1>3, <1>4, <1>5, <1>6, <1>7 DEF Step, Fails, NoFirst, Wait

\* What a filter prints is its first number.
LEMMA PrintedKept ==
  ASSUME SieveAssumption, SieveInv, NEW i \in Proc, Step(i)
  PROVE  Printed'
<1>1. Printed /\ UNCHANGED terminal
  BY DEF SieveInv, Step, Pipe, Fails, Fork, CloseForked, ReadFirst, NoFirst, Read, ReadEof, Write,
         WriteNext, WroteAll, Close, Wait, held
<1>2. CASE UNCHANGED <<out, primo_leido>>
  BY <1>1, <1>2 DEF Printed
<1>3. CASE ReadFirst(i)
  <2> DEFINE h == Head(pipe[i-1])
  <2>1. i \in Nat /\ i > 0 /\ CanRead(i)
    BY <1>3, ProcFacts DEF ReadFirst, SieveInv, Chain
  <2>2. h \in Nat /\ 2 <= h
    BY <2>1, NextNumber
  <2>3. /\ pc[i] = "first" /\ primo_leido' = [primo_leido EXCEPT ![i] = h]
        /\ out' = IF terminal THEN Append(out, h) ELSE out
    BY <1>3 DEF ReadFirst
  <2> HIDE DEF h
  <2>4. primo_leido[i] = 0 /\ primo_leido \in [Proc -> Nat] /\ out \in Seq(Nat)
    BY <2>3 DEF SieveInv, Types, Chain, ChainAt
  <2>5. primo_leido'[i] = h /\ \A j \in Proc : j # i => primo_leido'[j] = primo_leido[j]
    BY <2>3, <2>4
  <2>6. Len(out) \in Nat /\ DOMAIN out = 1..Len(out)
    BY <2>4, LenProperties
  <2>7. i \notin DOMAIN out
    BY <1>1, <2>4 DEF Printed
  <2>8. CASE ~terminal
    <3>1. out = <<>> /\ out' = out
      BY <1>1, <2>3, <2>8 DEF Printed
    <3> QED
      BY <1>1, <2>8, <3>1 DEF Printed
  <2>9. CASE terminal
    <3>1. \A j \in 1..(i-1) : j \in DOMAIN out
      <4> SUFFICES ASSUME NEW j \in 1..(i-1) PROVE j \in DOMAIN out
        OBVIOUS
      <4>1. primo_leido'[j] # 0 /\ j # i /\ j \in Proc
        <5>1. Chain'
          BY ChainKept
        <5>2. j \in 1..i /\ j # i /\ j \in Proc
          BY <2>1, ProcFacts
        <5>3. \A k \in 1..i : primo_leido'[k] # 0
          BY <2>2, <2>5, <5>1 DEF Chain, ChainAt
        <5> QED
          BY <5>2, <5>3
      <4> QED
        BY <1>1, <2>5, <2>9, <4>1 DEF Printed
    <3>2. Len(out) = i - 1
      <4>1. i > 1 => i - 1 \in 1..Len(out)
        BY <2>1, <2>6, <3>1
      <4> QED
        BY <2>1, <2>6, <2>7, <4>1
    <3>3. out' = Append(out, h)
      BY <2>3, <2>9
    <3>4. /\ Len(out') = i /\ out' \in Seq(Nat) /\ out'[i] = h
          /\ \A k \in 1..(i-1) : out'[k] = out[k]
      <4>1. (i - 1) + 1 = i
        BY <2>1
      <4> QED
        BY <2>2, <2>4, <3>2, <3>3, <4>1, AppendProperties
    <3>5. DOMAIN out' = 1..i
      BY <3>4, LenProperties
    <3>6. \A k \in DOMAIN out' : k \in Proc /\ primo_leido'[k] # 0 /\ out'[k] = primo_leido'[k]
      <4> SUFFICES ASSUME NEW k \in 1..i
                   PROVE  k \in Proc /\ primo_leido'[k] # 0 /\ out'[k] = primo_leido'[k]
        BY <3>5
      <4>1. CASE k = i
        BY <2>2, <2>5, <3>4, <4>1
      <4>2. CASE k # i
        <5>1. k \in 1..(i-1) /\ k \in DOMAIN out
          BY <2>1, <3>1, <4>2
        <5> QED
          BY <1>1, <2>5, <3>4, <4>2, <5>1 DEF Printed
      <4> QED
        BY <4>1, <4>2
    <3>7. \A j \in Proc : primo_leido'[j] # 0 => j \in DOMAIN out'
      BY <1>1, <2>1, <2>5, <2>6, <2>9, <3>2, <3>5 DEF Printed
    <3> QED
      BY <1>1, <2>9, <3>6, <3>7 DEF Printed
  <2> QED
    BY <2>8, <2>9
<1> QED
  BY <1>2, <1>3 DEF Step, Pipe, Fails, Fork, CloseForked, NoFirst, Read, ReadEof, Write,
                    WriteNext, WroteAll, Close, Wait

-----------------------------------------------------------------------------
(* What the pipes hold.                                                    *)

LEMMA SameStream ==
  ASSUME UNCHANGED N, NEW i, \A j \in 1..i : primo_leido'[j] = primo_leido[j]
  PROVE  Stream(i)' = Stream(i)
BY DEF Stream

\* A step that moves no number.
LEMMA FlowFrame ==
  ASSUME SieveAssumption, SieveInv, UNCHANGED <<N, number, primo_leido, pipe>>,
         \A j \in Proc : j > 0 => (pc'[j] = "write" <=> pc[j] = "write")
  PROVE  Flow'
<1>1. number[0] >= 2 /\ \A j \in Proc : FlowAt(j) /\ HeardAt(j)
  BY DEF SieveInv, Flow
<1>2. \A j : Stream(j)' = Stream(j)
  BY SameStream
<1>3. \A j : LastRead(j)' = LastRead(j)
  BY DEF LastRead
<1>4. \A j \in Proc : Passed(j)' = Passed(j)
  <2> SUFFICES ASSUME NEW j \in Proc PROVE Passed(j)' = Passed(j)
    OBVIOUS
  <2>1. j = 0 \/ (pc'[j] = "write" <=> pc[j] = "write")
    BY ProcFacts
  <2> QED
    BY <1>3, <2>1 DEF Passed
<1>5. \A j \in Proc : FlowAt(j)'
  <2> SUFFICES ASSUME NEW j \in Proc PROVE FlowAt(j)'
    OBVIOUS
  <2>1. InPipe(j)' = InPipe(j)
    BY <1>2, <1>3, <1>4 DEF InPipe
  <2> QED
    BY <1>1, <2>1 DEF FlowAt
<1>6. \A j \in Proc : HeardAt(j)'
  BY <1>1, <1>2, <1>3, <1>4, ProcFacts DEF HeardAt
<1> QED
  BY <1>1, <1>5, <1>6 DEF Flow

\* Process i passes on what it has.
LEMMA FlowWrite ==
  ASSUME SieveAssumption, SieveInv, NEW i \in Proc, Write(i) \/ (i = 0 /\ WriteNext)
  PROVE  Flow'
<1> DEFINE n == number[i]
<1>1. /\ \A j \in Proc : j \in Nat /\ (j > 0 => j - 1 \in Proc)
      /\ i + 1 # i /\ 0 \in Proc /\ Types
  BY ProcFacts DEF SieveInv
<1>2. number[0] >= 2 /\ \A j \in Proc : FlowAt(j) /\ HeardAt(j)
  BY DEF SieveInv, Flow
<1>3. /\ pc[i] = "write" /\ pipe' = [pipe EXCEPT ![i] = Append(pipe[i], n)]
      /\ UNCHANGED <<N, primo_leido>>
      /\ \A j \in Proc : j > 0 => number'[j] = number[j]
      /\ \A j \in Proc : j > 0 /\ j # i => pc'[j] = pc[j]
      /\ i = 0 => number'[0] = n + 1
      /\ i > 0 => pc'[i] # "write" /\ number'[0] = number[0]
  <2>1. number \in [Proc -> Nat] /\ DOMAIN pc = Proc
    BY <1>1 DEF Types
  <2>2. CASE Write(i)
    <3>1. /\ pc[i] = "write" /\ i > 0 /\ pipe' = [pipe EXCEPT ![i] = Append(@, number[i])]
          /\ pc' = [pc EXCEPT ![i] = "read"]
          /\ UNCHANGED <<N, number, primo_leido>>
      BY <2>2 DEF Write, held
    <3>2. pc'[i] = "read" /\ \A j \in Proc : j # i => pc'[j] = pc[j]
      BY <2>1, <3>1
    <3> QED
      BY <1>1, <3>1, <3>2
  <2>3. CASE i = 0 /\ WriteNext
    <3>1. /\ pc[i] = "write" /\ pipe' = [pipe EXCEPT ![i] = Append(@, number[i])]
          /\ number' = [number EXCEPT ![0] = @ + 1]
          /\ UNCHANGED <<N, pc, primo_leido>>
      BY <2>3 DEF WriteNext, held
    <3>2. number'[0] = n + 1 /\ \A j \in Proc : j > 0 => number'[j] = number[j]
      BY <1>1, <2>1, <2>3, <3>1
    <3> QED
      BY <1>1, <2>3, <3>1, <3>2
  <2> QED
    BY <2>2, <2>3
<1>4. n \in Stream(i) /\ n \in Nat /\ n # 0 /\ Passed(i) = n
  <2>1. CASE i = 0
    <3>1. number[0] < N
      BY <1>1, <2>1 DEF Write, WriteNext
    <3>2. n \in Below(N)
      BY <1>2, <2>1, <3>1, ReadTypes, StreamFacts DEF Below, SieveInv
    <3> QED
      BY <1>2, <2>1, <3>2, ReadTypes DEF Stream, Passed, SieveInv
  <2>2. CASE i > 0
    <3>1. n \in Stream(i)
      BY <1>2, <1>3, <2>2 DEF HeardAt
    <3> QED
      BY <1>3, <3>1, StreamFacts DEF Passed, SieveInv
  <2> QED
    BY <1>1, <2>1, <2>2
<1> HIDE DEF n
<1>5. \A j : Stream(j)' = Stream(j)
  BY <1>3, SameStream
<1>6. \A j \in Proc : j > 0 => LastRead(j)' = LastRead(j)
  BY <1>3 DEF LastRead
<1>7. \A j \in Proc : j # i => Passed(j)' = Passed(j)
  <2> SUFFICES ASSUME NEW j \in Proc, j # i PROVE Passed(j)' = Passed(j)
    OBVIOUS
  <2>1. CASE j = 0
    BY <1>1, <1>3, <2>1 DEF Passed
  <2>2. CASE j > 0
    BY <1>3, <1>6, <2>2 DEF Passed
  <2> QED
    BY <1>1, <2>1, <2>2
<1>8. Passed(i)' = n + 1
  <2>1. CASE i = 0
    BY <1>3, <2>1 DEF Passed
  <2>2. CASE i > 0
    BY <1>3, <1>4, <2>2 DEF Passed, LastRead, n
  <2> QED
    BY <1>1, <2>1, <2>2
<1>9. ASSUME NEW j \in Proc, j + 1 \in Proc
      PROVE  Increasing(pipe'[j]) /\ Elems(pipe'[j]) = InPipe(j)'
  <2>1. Increasing(pipe[j]) /\ Elems(pipe[j]) = InPipe(j)
    BY <1>2, <1>9 DEF FlowAt
  <2>2. LastRead(j+1)' = LastRead(j+1) /\ LastRead(j+1) \in Nat
    <3>1. j + 1 > 0
      BY <1>1
    <3> QED
      BY <1>1, <1>6, <1>9, <3>1, ReadTypes
  <2>3. CASE j # i
    <3>1. pipe'[j] = pipe[j]
      BY <1>1, <1>3, <2>3 DEF Types
    <3>2. InPipe(j)' = InPipe(j)
      BY <1>5, <1>7, <2>2, <2>3 DEF InPipe
    <3> QED
      BY <2>1, <3>1, <3>2
  <2>4. CASE j = i
    <3>1. pipe'[i] = Append(pipe[i], n) /\ pipe[i] \in Seq(Nat)
      BY <1>1, <1>3 DEF Types
    <3>2. \A x \in Stream(i) : x \in Nat
      BY <1>1, StreamFacts
    <3>3. \A x \in Elems(pipe[i]) : x < n
      BY <1>4, <2>1, <2>4 DEF InPipe
    <3>4. Increasing(pipe'[i]) /\ Elems(pipe'[i]) = InPipe(i) \cup {n}
      BY <1>4, <2>1, <2>4, <3>1, <3>3, IncreasingAppend
    <3>5. LastRead(i+1) < n
      <4>1. LastRead(i+1) = 0 \/ LastRead(i+1) < Passed(i)
        BY <1>1, <1>2, <1>9, <2>4 DEF HeardAt
      <4> QED
        BY <1>4, <4>1
    <3>6. \A x \in Stream(i) : x < n + 1 <=> x < n \/ x = n
      BY <1>4, <3>2
    <3>7. InPipe(i)' = {x \in Stream(i) : LastRead(i+1) < x /\ x < n + 1}
      BY <1>5, <1>8, <2>2, <2>4 DEF InPipe
    <3>8. InPipe(i) = {x \in Stream(i) : LastRead(i+1) < x /\ x < n}
      BY <1>4 DEF InPipe
    <3>9. InPipe(i)' = InPipe(i) \cup {n}
      BY <1>4, <3>5, <3>6, <3>7, <3>8
    <3> QED
      BY <2>4, <3>4, <3>9
  <2> QED
    BY <2>3, <2>4
<1>10. ASSUME NEW j \in Proc, j > 0
       PROVE  HeardAt(j)'
  <2>1. LastRead(j)' = 0 \/ LastRead(j)' < Passed(j-1)'
    <3>1. LastRead(j)' = LastRead(j) /\ LastRead(j) \in Nat /\ j - 1 \in Proc
      BY <1>1, <1>6, <1>10, ReadTypes
    <3>2. LastRead(j) = 0 \/ LastRead(j) < Passed(j-1)
      BY <1>2, <1>10 DEF HeardAt
    <3>3. CASE j - 1 = i
      BY <1>4, <1>8, <3>1, <3>2, <3>3
    <3>4. CASE j - 1 # i
      BY <1>7, <3>1, <3>2, <3>4
    <3> QED
      BY <3>3, <3>4
  <2>2. pc'[j] = "write" => pc[j] = "write"
    BY <1>3, <1>10
  <2>3. number'[j] = number[j]
    BY <1>3, <1>10
  <2> QED
    BY <1>2, <1>3, <1>5, <1>10, <2>1, <2>2, <2>3 DEF HeardAt
<1>11. number'[0] >= 2
  BY <1>1, <1>2, <1>3, <1>4 DEF n
<1> QED
  BY <1>9, <1>10, <1>11 DEF Flow, FlowAt, HeardAt

\* Filter i takes the next number out of the pipe before it.
LEMMA FlowRead ==
  ASSUME SieveAssumption, SieveInv, NEW i \in Proc, Read(i)
  PROVE  Flow'
<1> DEFINE h == Head(pipe[i-1])
           t == Tail(pipe[i-1])
<1>1. /\ \A j \in Proc : j \in Nat /\ (j > 0 => j - 1 \in Proc)
      /\ 0 \in Proc /\ Types
  BY ProcFacts DEF SieveInv
<1>2. number[0] >= 2 /\ \A j \in Proc : FlowAt(j) /\ HeardAt(j)
  BY DEF SieveInv, Flow
<1>3. i > 0 /\ CanRead(i) /\ i - 1 \in Proc /\ (i - 1) + 1 = i /\ i - 1 # i
  BY <1>1 DEF Read, SieveInv, Chain
<1>4. /\ h \in Stream(i-1) /\ h \in Nat /\ 2 <= h /\ LastRead(i) < h /\ h < Passed(i-1)
      /\ \A n \in Stream(i-1) : LastRead(i) < n => h <= n
      /\ Increasing(t) /\ Elems(t) = {n \in Stream(i-1) : h < n /\ n < Passed(i-1)}
  BY <1>3, NextNumber
<1>5. /\ pc[i] = "read" /\ pipe' = [pipe EXCEPT ![i-1] = t]
      /\ UNCHANGED <<N, primo_leido>>
      /\ number' = [number EXCEPT ![i] = h]
      /\ pc' = [pc EXCEPT ![i] = IF h % primo_leido[i] = 0 THEN "read" ELSE "write"]
  BY DEF Read, held, Divides
<1> HIDE DEF h, t
<1>6. /\ number'[i] = h /\ \A j \in Proc : j # i => number'[j] = number[j] /\ pc'[j] = pc[j]
      /\ pipe'[i-1] = t /\ \A j \in Proc : j # i - 1 => pipe'[j] = pipe[j]
      /\ pc'[i] = IF h % primo_leido[i] = 0 THEN "read" ELSE "write"
  BY <1>1, <1>3, <1>5 DEF Types
<1>7. primo_leido[i] # 0 /\ primo_leido[i] \in Nat
  BY <1>3, <1>5, ReadTypes DEF SieveInv, Chain, ChainAt, Parent
<1>8. \A j : Stream(j)' = Stream(j)
  BY <1>5, SameStream
<1>9. LastRead(i)' = h /\ \A j \in Proc : j # i => LastRead(j)' = LastRead(j)
  BY <1>4, <1>5, <1>6 DEF LastRead
<1>10. \A j \in Proc : j # i => Passed(j)' = Passed(j)
  BY <1>6, <1>9 DEF Passed
<1>11. /\ Passed(i) = LastRead(i) + 1 /\ LastRead(i) \in Nat
       /\ pc'[i] = "read" => Passed(i)' = h + 1
       /\ pc'[i] = "write" => Passed(i)' = h
  BY <1>3, <1>5, <1>6, <1>9, ReadTypes DEF Passed, SieveInv
<1>12. pc'[i] = "write" <=> h \in Stream(i)
  <2>1. Stream(i) = {n \in Stream(i-1) : primo_leido[i] # 0 => n % primo_leido[i] # 0}
    BY <1>1, <1>3, StreamFacts
  <2> QED
    BY <1>4, <1>6, <1>7, <2>1
<1>13. \A n \in Stream(i) : n \in Nat /\ (n <= LastRead(i) \/ h <= n)
  <2>1. Stream(i) \subseteq Stream(i-1) /\ \A n \in Stream(i) : n \in Nat
    BY <1>1, <1>3, StreamFacts
  <2> QED
    BY <1>4, <1>11, <2>1
<1>14. \A n \in Stream(i) : n < Passed(i)' <=> n < Passed(i)
  <2> SUFFICES ASSUME NEW n \in Stream(i) PROVE n < Passed(i)' <=> n < Passed(i)
    OBVIOUS
  <2>1. CASE pc'[i] = "write"
    BY <1>4, <1>11, <1>13, <2>1
  <2>2. CASE pc'[i] # "write"
    <3>1. n # h /\ Passed(i)' = h + 1
      BY <1>6, <1>11, <1>12, <2>2
    <3> QED
      BY <1>4, <1>11, <1>13, <3>1
  <2> QED
    BY <2>1, <2>2
<1>15. ASSUME NEW j \in Proc, j + 1 \in Proc
       PROVE  Increasing(pipe'[j]) /\ Elems(pipe'[j]) = InPipe(j)'
  <2>1. Increasing(pipe[j]) /\ Elems(pipe[j]) = InPipe(j)
    BY <1>2, <1>15 DEF FlowAt
  <2>2. CASE j = i - 1
    <3>1. InPipe(j)' = {n \in Stream(i-1) : h < n /\ n < Passed(i-1)}
      BY <1>3, <1>8, <1>9, <1>10, <2>2 DEF InPipe
    <3> QED
      BY <1>4, <1>6, <2>2, <3>1
  <2>3. CASE j = i
    <3>1. LastRead(i+1)' = LastRead(i+1)
      <4>1. j + 1 # i
        BY <1>1, <2>3
      <4> QED
        BY <1>9, <1>15, <2>3, <4>1
    <3>2. InPipe(i)' = InPipe(i)
      BY <1>8, <1>14, <3>1 DEF InPipe
    <3> QED
      BY <1>3, <1>6, <2>1, <2>3, <3>2
  <2>4. CASE j # i /\ j # i - 1
    <3>1. LastRead(j+1)' = LastRead(j+1)
      <4>1. j + 1 # i
        BY <1>1, <2>4
      <4> QED
        BY <1>9, <1>15, <4>1
    <3>2. InPipe(j)' = InPipe(j)
      BY <1>8, <1>10, <2>4, <3>1 DEF InPipe
    <3> QED
      BY <1>6, <2>1, <2>4, <3>2
  <2> QED
    BY <2>2, <2>3, <2>4
<1>16. ASSUME NEW j \in Proc, j > 0
       PROVE  HeardAt(j)'
  <2>1. CASE j = i
    <3>1. primo_leido[i] < h
      <4>1. primo_leido[i] <= LastRead(i)
        BY <1>2, <1>3, <1>7, ReadTypes DEF HeardAt, LastRead, SieveInv
      <4> QED
        BY <1>4, <1>7, <1>11, <4>1
    <3>2. LastRead(i)' < Passed(i-1)'
      BY <1>3, <1>4, <1>9, <1>10
    <3>3. /\ primo_leido[i] \in Stream(i-1)
          /\ \A n \in Stream(i-1) : primo_leido[i] <= n
      BY <1>2, <1>3, <1>7 DEF HeardAt
    <3> QED
      BY <1>5, <1>6, <1>7, <1>8, <1>12, <2>1, <3>1, <3>2, <3>3 DEF HeardAt
  <2>2. CASE j # i
    <3>1. LastRead(j)' = 0 \/ LastRead(j)' < Passed(j-1)'
      <4>1. LastRead(j)' = LastRead(j) /\ LastRead(j) \in Nat /\ j - 1 \in Proc
        BY <1>1, <1>9, <1>16, <2>2, ReadTypes
      <4>2. LastRead(j) = 0 \/ LastRead(j) < Passed(j-1)
        BY <1>2, <1>16 DEF HeardAt
      <4>3. CASE j - 1 = i
        <5>1. Passed(i)' = h \/ Passed(i)' = h + 1
          BY <1>6, <1>11
        <5> QED
          BY <1>4, <1>11, <4>1, <4>2, <4>3, <5>1
      <4>4. CASE j - 1 # i
        BY <1>10, <4>1, <4>2, <4>4
      <4> QED
        BY <4>3, <4>4
    <3>2. number'[j] = number[j] /\ pc'[j] = pc[j]
      BY <1>6, <2>2
    <3> QED
      BY <1>2, <1>5, <1>8, <1>16, <3>1, <3>2 DEF HeardAt
  <2> QED
    BY <2>1, <2>2
<1>17. number'[0] >= 2
  BY <1>1, <1>2, <1>3, <1>6
<1> QED
  BY <1>15, <1>16, <1>17 DEF Flow, FlowAt, HeardAt

\* Filter i reads its first number, the least that the filters before it let through.
LEMMA FlowFirst ==
  ASSUME SieveAssumption, SieveInv, NEW i \in Proc, ReadFirst(i)
  PROVE  Flow'
<1> DEFINE h == Head(pipe[i-1])
           t == Tail(pipe[i-1])
<1>1. /\ \A j \in Proc : j \in Nat /\ (j > 0 => j - 1 \in Proc)
      /\ 0 \in Proc /\ Types
  BY ProcFacts DEF SieveInv
<1>2. number[0] >= 2 /\ \A j \in Proc : FlowAt(j) /\ HeardAt(j)
  BY DEF SieveInv, Flow
<1>3. i > 0 /\ CanRead(i) /\ i - 1 \in Proc /\ (i - 1) + 1 = i /\ i - 1 # i
  BY <1>1 DEF ReadFirst, SieveInv, Chain
<1>4. /\ h \in Stream(i-1) /\ h \in Nat /\ 2 <= h /\ LastRead(i) < h /\ h < Passed(i-1)
      /\ \A n \in Stream(i-1) : LastRead(i) < n => h <= n
      /\ Increasing(t) /\ Elems(t) = {n \in Stream(i-1) : h < n /\ n < Passed(i-1)}
  BY <1>3, NextNumber
<1>5. /\ pc[i] = "first" /\ pipe' = [pipe EXCEPT ![i-1] = t]
      /\ UNCHANGED <<N, number>>
      /\ primo_leido' = [primo_leido EXCEPT ![i] = h]
      /\ pc' = [pc EXCEPT ![i] = "fork"]
  BY DEF ReadFirst, held
<1> HIDE DEF h, t
<1>6. /\ primo_leido'[i] = h /\ \A j \in Proc : j # i => primo_leido'[j] = primo_leido[j] /\ pc'[j] = pc[j]
      /\ pipe'[i-1] = t /\ \A j \in Proc : j # i - 1 => pipe'[j] = pipe[j]
      /\ pc'[i] = "fork"
  BY <1>1, <1>3, <1>5 DEF Types
<1>7. \A j \in Proc : j >= i => pc[j] \in {"none", "first"} /\ primo_leido[j] = 0 /\ number[j] = 0
  <2> SUFFICES ASSUME NEW j \in Proc, j >= i
               PROVE  pc[j] \in {"none", "first"} /\ primo_leido[j] = 0 /\ number[j] = 0
    OBVIOUS
  <2>1. pc[j] \in {"none", "first"}
    <3>1. j > i => pc[j] = "none"
      BY <1>5, NoChildYet
    <3> QED
      BY <1>1, <1>5, <3>1
  <2>2. primo_leido[j] = 0
    BY <2>1 DEF SieveInv, Chain, ChainAt
  <2> QED
    BY <1>1, <1>2, <1>3, <2>1, <2>2 DEF HeardAt
<1>8. \A j \in Proc : j < i => Stream(j)' = Stream(j)
  <2> SUFFICES ASSUME NEW j \in Proc, j < i PROVE Stream(j)' = Stream(j)
    OBVIOUS
  <2>1. \A k \in 1..j : primo_leido'[k] = primo_leido[k]
    BY <1>1, <1>6, ProcFacts
  <2> QED
    BY <1>5, <2>1, SameStream
<1>9. /\ LastRead(i) = 0 /\ LastRead(i)' = h
      /\ \A j \in Proc : j # i => LastRead(j)' = LastRead(j)
  BY <1>1, <1>3, <1>5, <1>6, <1>7 DEF LastRead
<1>10. \A j \in Proc : j # i => Passed(j)' = Passed(j)
  BY <1>5, <1>6, <1>9 DEF Passed
<1>11. ASSUME NEW n \in Stream(i-1) PROVE h <= n
  BY <1>3, <1>4, <1>9, <1>11, StreamFacts DEF SieveInv
<1>12. ASSUME NEW j \in Proc, j + 1 \in Proc
       PROVE  Increasing(pipe'[j]) /\ Elems(pipe'[j]) = InPipe(j)'
  <2>1. Increasing(pipe[j]) /\ Elems(pipe[j]) = InPipe(j)
    BY <1>2, <1>12 DEF FlowAt
  <2>2. CASE j = i - 1
    <3>1. Stream(i-1)' = Stream(i-1)
      BY <1>1, <1>3, <1>8
    <3>2. InPipe(j)' = {n \in Stream(i-1) : h < n /\ n < Passed(i-1)}
      BY <1>3, <1>9, <1>10, <2>2, <3>1 DEF InPipe
    <3> QED
      BY <1>4, <1>6, <2>2, <3>2
  <2>3. CASE j < i - 1
    <3>1. LastRead(j+1)' = LastRead(j+1) /\ Stream(j)' = Stream(j) /\ j # i
      BY <1>1, <1>8, <1>9, <1>12, <2>3
    <3>2. InPipe(j)' = InPipe(j)
      BY <1>10, <3>1 DEF InPipe
    <3> QED
      BY <1>1, <1>3, <1>6, <2>1, <2>3, <3>2
  <2>4. CASE j >= i
    <3>1. pipe'[j] = pipe[j]
      BY <1>1, <1>3, <1>6, <2>4
    <3>2. Passed(j) = 1
      BY <1>1, <1>3, <1>7, <2>4 DEF Passed, LastRead
    <3>3. InPipe(j) = {}
      BY <1>1, <3>2, StreamFacts DEF InPipe
    <3>4. InPipe(j)' = {}
      <4>1. Types'
        BY TypesKept DEF Step
      <4>2. SieveAssumption'
        BY DEF SieveAssumption
      <4>3. \A n \in Stream(j)' : n \in Nat /\ 2 <= n
        BY <1>5, <4>1 DEF Stream, Below, SieveAssumption, Types
      <4>4. CASE j = i
        <5>1. Passed(i)' = h + 1
          BY <1>3, <1>6, <1>9 DEF Passed
        <5>2. \A n \in Stream(i)' : n \in Stream(i-1)' /\ n % h # 0
          BY <1>1, <1>3, <1>4, <1>6 DEF Stream
        <5>3. \A n \in Stream(i)' : h <= n /\ n # h
          <6>1. Stream(i-1)' = Stream(i-1)
            BY <1>1, <1>3, <1>8
          <6>2. h % h = 0
            BY <1>4, DividesItself
          <6> QED
            BY <1>11, <5>2, <6>1, <6>2
        <5> QED
          BY <1>4, <4>3, <4>4, <5>1, <5>3 DEF InPipe
      <4>5. CASE j # i
        <5>1. Passed(j)' = 1
          BY <1>10, <3>2, <4>5
        <5> QED
          BY <4>3, <5>1 DEF InPipe
      <4> QED
        BY <4>4, <4>5
    <3> QED
      BY <2>1, <3>1, <3>3, <3>4
  <2> QED
    <3>1. j = i - 1 \/ j < i - 1 \/ j >= i
      BY <1>1, <1>3
    <3> QED
      BY <2>2, <2>3, <2>4, <3>1
<1>13. ASSUME NEW j \in Proc, j > 0
       PROVE  HeardAt(j)'
  <2>1. CASE j = i
    <3>1. Stream(i-1)' = Stream(i-1) /\ Passed(i-1)' = Passed(i-1)
      BY <1>1, <1>3, <1>8, <1>10
    <3>2. number'[i] = 0
      BY <1>1, <1>5, <1>7
    <3> QED
      BY <1>4, <1>6, <1>9, <1>11, <2>1, <3>1, <3>2 DEF HeardAt
  <2>2. CASE j < i
    <3>1. /\ Stream(j-1)' = Stream(j-1) /\ Stream(j)' = Stream(j)
          /\ Passed(j-1)' = Passed(j-1) /\ LastRead(j)' = LastRead(j)
          /\ primo_leido'[j] = primo_leido[j] /\ number'[j] = number[j] /\ pc'[j] = pc[j]
      <4>1. j - 1 \in Proc /\ j - 1 < i /\ j - 1 # i /\ j # i
        BY <1>1, <1>13, <2>2, i \in Nat, j \in Nat
      <4> QED
        BY <1>5, <1>6, <1>8, <1>9, <1>10, <2>2, <4>1
    <3> QED
      BY <1>2, <3>1 DEF HeardAt
  <2>3. CASE j > i
    <3>1. primo_leido'[j] = 0 /\ number'[j] = 0 /\ pc'[j] # "write" /\ LastRead(j)' = 0
      <4>1. j # i /\ j >= i
        BY <1>1, <2>3
      <4> QED
        BY <1>5, <1>6, <1>7, <4>1 DEF LastRead
    <3> QED
      BY <3>1 DEF HeardAt
  <2> QED
    BY <1>1, <2>1, <2>2, <2>3
<1>14. number'[0] >= 2
  BY <1>2, <1>5
<1> QED
  BY <1>12, <1>13, <1>14 DEF Flow, FlowAt, HeardAt

LEMMA FlowKept ==
  ASSUME SieveAssumption, SieveInv, NEW i \in Proc, Step(i)
  PROVE  Flow'
<1>1. pc \in [Proc -> Ended \cup {"pipe", "fork", "forked", "first", "read", "write", "close", "wait"}]
  BY DEF SieveInv, Types
<1>2. CASE Pipe(i) \/ CloseForked(i) \/ ReadEof(i) \/ Close(i) \/ (i = 0 /\ WroteAll)
  <2>1. /\ UNCHANGED <<N, number, primo_leido, pipe>>
        /\ \A j \in Proc : j > 0 => (pc'[j] = "write" <=> pc[j] = "write")
    BY <1>1, <1>2 DEF Pipe, CloseForked, ReadEof, Close, WroteAll, held
  <2> QED
    BY <2>1, FlowFrame
<1>3. CASE Fork(i)
  <2>1. UNCHANGED <<N, number, primo_leido, pipe>> /\ pc[i] = "fork"
    BY <1>3 DEF Fork, held
  <2>2. i + 1 \in Proc => pc[i+1] = "none"
    BY <2>1, NoChildYet, ProcFacts
  <2>3. \A j \in Proc : j > 0 => (pc'[j] = "write" <=> pc[j] = "write")
    <3>1. pc' = [pc EXCEPT ![i] = IF i = 0 THEN "write" ELSE "read", ![i+1] = "forked"]
      BY <1>3 DEF Fork
    <3> QED
      BY <1>1, <2>1, <2>2, <3>1
  <2> QED
    BY <2>1, <2>3, FlowFrame
<1>4. CASE Fails(i, "pipe") \/ Fails(i, "fork") \/ NoFirst(i) \/ Wait(i)
  <2>1. Exit(i) /\ UNCHANGED <<N, number, primo_leido, pipe>> /\ pc[i] # "write"
    BY <1>4 DEF Fails, NoFirst, Wait, held
  <2>2. \A j \in Proc : j > 0 => (pc'[j] = "write" <=> pc[j] = "write")
    BY <2>1, ExitFacts
  <2> QED
    BY <2>1, <2>2, FlowFrame
<1> QED
  BY <1>2, <1>3, <1>4, FlowWrite, FlowRead, FlowFirst DEF Step

-----------------------------------------------------------------------------
(* Who finds the end of its input has read all of its stream.              *)

LEMMA AllRead ==
  ASSUME SieveAssumption, SieveInv, ~failed, NEW i \in Proc, i > 0, AtEof(i),
         pc[i] \in {"first", "read"}
  PROVE  /\ \A n \in Stream(i-1) : n <= LastRead(i)
         /\ pc[i-1] = "wait" \/ Over(i-1)
<1>1. i \in Nat /\ i - 1 \in Proc /\ (i - 1) + 1 = i /\ i - 1 \in Nat
  BY ProcFacts
<1>2. pipe[i-1] = <<>> /\ writers[i-1] = {}
  BY DEF AtEof
<1>3. pc[i-1] = "wait" \/ Over(i-1)
  <2>1. ~HasPipe(i-1)
    BY <1>1, <1>2 DEF SieveInv, EndsOpen, HasWrite
  <2>2. Parent(i-1) \/ Over(i-1)
    BY DEF SieveInv, Chain, ChainAt
  <2> QED
    BY <2>1, <2>2 DEF HasPipe, Parent
<1>4. Done(i-1) /\ pc[i-1] # "write"
  BY <1>3 DEF Done, Over
<1>5. CompleteAt(i-1)
  BY <1>1 DEF SieveInv, Complete
<1>6. \A n \in Stream(i-1) : n < Passed(i-1)
  <2>1. \A n \in Stream(i-1) : n \in Nat /\ n < N
    BY <1>1, StreamFacts DEF SieveInv
  <2>2. CASE i - 1 = 0
    <3>1. number[0] >= N /\ N \in Nat /\ number[0] \in Nat
      BY <1>1, <1>4, <1>5, <2>2, ReadTypes, StreamFacts DEF CompleteAt, SieveInv
    <3> QED
      BY <2>1, <2>2, <3>1 DEF Passed
  <2>3. CASE i - 1 > 0
    <3>1. (i - 1) - 1 \in Proc /\ (i - 1) - 1 <= i - 1
      BY <1>1, <2>3, ProcFacts
    <3>2. Stream(i-1) \subseteq Stream((i-1)-1)
      BY <1>1, <3>1, StreamFacts DEF SieveInv
    <3>3. \A n \in Stream(i-1) : n <= LastRead(i-1)
      BY <1>4, <1>5, <2>3, <3>2 DEF CompleteAt
    <3>4. Passed(i-1) = LastRead(i-1) + 1 /\ LastRead(i-1) \in Nat
      BY <1>1, <1>4, <2>3, ReadTypes DEF Passed, SieveInv
    <3> QED
      BY <2>1, <3>3, <3>4
  <2> QED
    BY <1>1, <2>2, <2>3
<1>7. ASSUME NEW n \in Stream(i-1) PROVE n <= LastRead(i)
  <2>1. Elems(pipe[i-1]) = {}
    BY <1>2 DEF Elems
  <2>2. InPipe(i-1) = {}
    BY <1>1, <2>1 DEF SieveInv, Flow, FlowAt
  <2>3. ~(LastRead(i) < n)
    BY <1>1, <1>6, <2>2 DEF InPipe
  <2>4. n \in Nat /\ LastRead(i) \in Nat
    BY <1>1, ReadTypes, StreamFacts DEF SieveInv
  <2> QED
    BY <2>3, <2>4
<1> QED
  BY <1>3, <1>7

LEMMA CompleteKept ==
  ASSUME SieveAssumption, SieveInv, NEW i \in Proc, Step(i)
  PROVE  Complete'
<1>1. /\ \A j \in Proc : j \in Nat /\ (j > 0 => j - 1 \in Proc)
      /\ pc \in [Proc -> Ended \cup {"pipe", "fork", "forked", "first", "read", "write", "close", "wait"}]
      /\ 0 \in Proc /\ i + 1 # i
  BY ProcFacts DEF SieveInv, Types
<1>2. \A j \in Proc : ChainAt(j)
  BY DEF SieveInv, Chain
<1>3. CASE failed \/ Fails(i, "pipe") \/ Fails(i, "fork")
  <2>1. failed'
    BY <1>3 DEF Step, Pipe, Fails, Fork, CloseForked, ReadFirst, NoFirst, Read, ReadEof, Write,
                WriteNext, WroteAll, Close, Wait
  <2> QED
    BY <2>1 DEF Complete
<1> SUFFICES ASSUME ~failed, ~Fails(i, "pipe"), ~Fails(i, "fork"), NEW j \in Proc
             PROVE  CompleteAt(j)'
  BY <1>3 DEF Complete
<1>4. \A k \in Proc : CompleteAt(k)
  BY DEF SieveInv, Complete
<1>5. CASE UNCHANGED <<N, number, primo_leido>>
  <2>1. Stream(j-1)' = Stream(j-1) /\ LastRead(j)' = LastRead(j)
    BY <1>5, SameStream DEF LastRead
  <2>2. CASE Pipe(i) \/ CloseForked(i)
    <3>1. /\ pc[i] \in {"forked", "pipe"} /\ pc'[i] \in {"pipe", "first", "fork"}
          /\ \A k \in Proc : k # i => pc'[k] = pc[k]
      BY <1>1, <2>2 DEF Pipe, CloseForked
    <3> QED
      BY <1>1, <1>4, <1>5, <2>1, <3>1 DEF CompleteAt, Done, Over
  <2>3. CASE Fork(i)
    <3>1. i + 1 \in Proc
      BY <1>2, <2>3, RoomForFilter, ProcFacts DEF Fork, ChainAt
    <3>2. /\ pc[i] = "fork" /\ pc'[i] \in {"write", "read"} /\ pc'[i+1] = "forked"
          /\ \A k \in Proc : k # i /\ k # i + 1 => pc'[k] = pc[k]
      BY <1>1, <2>3, <3>1 DEF Fork
    <3>3. pc[i+1] = "none"
      BY <1>1, <3>1, <3>2, NoChildYet
    <3> QED
      BY <1>1, <1>4, <1>5, <2>1, <3>1, <3>2, <3>3 DEF CompleteAt, Done, Over
  <2>4. CASE Write(i)
    <3>1. /\ pc[i] = "write" /\ pc'[i] = "read"
          /\ \A k \in Proc : k # i => pc'[k] = pc[k]
      BY <1>1, <2>4 DEF Write
    <3> QED
      BY <1>1, <1>4, <1>5, <2>1, <3>1 DEF CompleteAt, Done, Over
  <2>5. CASE ReadEof(i)
    <3>1. /\ pc[i] = "read" /\ pc'[i] = "close" /\ AtEof(i) /\ i > 0
          /\ \A k \in Proc : k # i => pc'[k] = pc[k]
      BY <1>1, <2>5 DEF ReadEof, SieveInv, Chain
    <3>2. /\ \A n \in Stream(i-1) : n <= LastRead(i)
          /\ pc[i-1] = "wait" \/ Over(i-1)
      BY <3>1, AllRead
    <3>3. CASE j = i
      BY <1>1, <2>1, <3>1, <3>2, <3>3 DEF CompleteAt, Over
    <3>4. CASE j # i
      BY <1>1, <1>4, <1>5, <2>1, <3>1, <3>4 DEF CompleteAt, Done, Over
    <3> QED
      BY <3>3, <3>4
  <2>6. CASE i = 0 /\ WroteAll
    <3>1. /\ pc[i] = "write" /\ pc'[i] = "close" /\ number[0] >= N
          /\ \A k \in Proc : k # i => pc'[k] = pc[k]
      BY <1>1, <2>6 DEF WroteAll
    <3> QED
      BY <1>1, <1>4, <1>5, <2>1, <2>6, <3>1 DEF CompleteAt, Done, Over
  <2>7. CASE Close(i)
    <3>1. /\ pc[i] = "close" /\ pc'[i] = "wait"
          /\ \A k \in Proc : k # i => pc'[k] = pc[k]
      BY <1>1, <2>7 DEF Close
    <3> QED
      BY <1>1, <1>4, <1>5, <2>1, <3>1 DEF CompleteAt, Done, Over
  <2>8. CASE NoFirst(i) \/ Wait(i)
    <3>1. Exit(i) /\ pc[i] \in {"first", "wait"}
      BY <2>8 DEF NoFirst, Wait
    <3>2. /\ pc'[i] \in {"zombie", "gone"}
          /\ \A k \in Proc : k # i => pc'[k] = pc[k] \/ (pc[k] = "zombie" /\ pc'[k] = "gone")
      BY <3>1, ExitFacts
    <3>3. CASE j # i
      <4>1. Done(j)' => Done(j)
        BY <3>2, <3>3 DEF Done, Over
      <4>2. Over(j)' => Over(j)
        BY <3>2, <3>3 DEF Over
      <4>3. j > 0 /\ (pc[j-1] = "wait" \/ Over(j-1)) => pc'[j-1] = "wait" \/ Over(j-1)'
        BY <1>1, <3>2 DEF Over
      <4>4. j + 1 \in Proc /\ pc[j+1] # "none" => pc'[j+1] # "none"
        BY <3>2
      <4> QED
        BY <1>4, <1>5, <2>1, <4>1, <4>2, <4>3, <4>4 DEF CompleteAt
    <3>4. CASE j = i /\ NoFirst(i)
      <4>1. /\ pc[i] = "first" /\ AtEof(i) /\ i > 0 /\ primo_leido[i] = 0
        BY <1>1, <1>2, <3>4 DEF NoFirst, SieveInv, Chain, ChainAt
      <4>2. /\ \A n \in Stream(i-1) : n <= LastRead(i)
            /\ pc[i-1] = "wait" \/ Over(i-1)
        BY <4>1, AllRead
      <4>3. pc'[i-1] = "wait" \/ Over(i-1)'
        BY <1>1, <3>2, <4>1, <4>2 DEF Over
      <4> QED
        BY <1>1, <1>5, <2>1, <3>4, <4>1, <4>2, <4>3 DEF CompleteAt
    <3>5. CASE j = i /\ Wait(i)
      <4>1. pc[i] = "wait" /\ i + 1 \in Proc /\ pc[i+1] # "none"
        BY <1>2, <3>5 DEF Wait, ChainAt, Parent
      <4>2. pc'[i+1] # "none"
        BY <1>1, <3>2, <4>1
      <4>3. i > 0 => pc'[i-1] = "wait" \/ Over(i-1)'
        BY <1>1, <1>4, <3>2, <4>1 DEF CompleteAt, Done, Over
      <4>4. Done(i)
        BY <4>1 DEF Done
      <4> QED
        BY <1>1, <1>4, <1>5, <2>1, <3>5, <4>1, <4>2, <4>3, <4>4 DEF CompleteAt
    <3> QED
      BY <2>8, <3>3, <3>4, <3>5
  <2>9. CASE Read(i) \/ (i = 0 /\ WriteNext) \/ ReadFirst(i)
    <3>1. /\ pc[i] \in {"read", "write", "first"} /\ pc'[i] \in {"read", "write", "fork"}
          /\ \A k \in Proc : k # i => pc'[k] = pc[k]
      BY <1>1, <2>9 DEF Read, WriteNext, ReadFirst
    <3> QED
      BY <1>1, <1>4, <1>5, <2>1, <3>1 DEF CompleteAt, Done, Over
  <2> QED
    BY <2>2, <2>3, <2>4, <2>5, <2>6, <2>7, <2>8, <2>9 DEF Step
<1>6. CASE Read(i) \/ (i = 0 /\ WriteNext) \/ ReadFirst(i)
  <2>1. /\ pc[i] \in {"read", "write", "first"} /\ pc'[i] \in {"read", "write", "fork"}
        /\ \A k \in Proc : k # i => pc'[k] = pc[k]
    BY <1>1, <1>6 DEF Read, WriteNext, ReadFirst
  <2>2. /\ \A k \in Proc : k # i => number'[k] = number[k] /\ primo_leido'[k] = primo_leido[k]
        /\ UNCHANGED N
    BY <1>1, <1>6 DEF Read, WriteNext, ReadFirst, SieveInv, Types, held
  <2>3. CASE j = i
    BY <1>1, <2>1, <2>3 DEF CompleteAt, Done, Over
  <2>4. CASE j # i /\ ~Done(j)
    <3>1. ~Done(j)'
      BY <2>1, <2>4 DEF Done, Over
    <3> QED
      BY <3>1 DEF CompleteAt, Done
  <2>5. CASE j # i /\ Done(j)
    <3>1. pc'[j] = pc[j] /\ (Over(j)' => Over(j)) /\ number'[j] = number[j] /\ primo_leido'[j] = primo_leido[j]
      BY <2>1, <2>2, <2>5 DEF Over
    <3>2. LastRead(j)' = LastRead(j)
      BY <3>1 DEF LastRead
    <3>3. j > 0 => pc'[j-1] = pc[j-1] /\ j - 1 # i /\ (pc[j-1] = "wait" \/ Over(j-1))
      BY <1>1, <1>4, <2>1, <2>5 DEF CompleteAt, Over
    <3>4. j > 0 => Stream(j-1)' = Stream(j-1)
      <4>1. CASE Read(i) \/ WriteNext
        BY <4>1, <2>2, SameStream DEF Read, WriteNext
      <4>2. CASE ReadFirst(i)
        <5>1. j < i
          <6>1. \A k \in Proc : k > i => pc[k] = "none"
            BY <4>2, NoChildYet DEF ReadFirst
          <6>2. pc[j] # "none"
            BY <2>5 DEF Done, Over
          <6>3. ~(j > i)
            BY <6>1, <6>2
          <6>4. i \in Nat /\ j \in Nat
            BY <1>1
          <6> QED
            BY <2>5, <6>3, <6>4
        <5>2. \A k \in 1..(j-1) : k \in Proc /\ k # i
          BY <1>1, <5>1, ProcFacts
        <5> QED
          BY <2>2, <5>2, SameStream
      <4> QED
        BY <1>6, <4>1, <4>2
    <3>5. j + 1 \in Proc /\ pc[j+1] # "none" => pc'[j+1] # "none"
      BY <2>1
    <3> QED
      BY <1>4, <2>2, <2>5, <3>1, <3>2, <3>3, <3>4, <3>5 DEF CompleteAt, Over
  <2> QED
    BY <2>3, <2>4, <2>5
<1> QED
  BY <1>5, <1>6 DEF Step, Pipe, Fork, CloseForked, NoFirst, ReadEof, Write, WroteAll, Close, Wait, held

LEMMA SieveStep ==
  ASSUME SieveAssumption, SieveInv, [Next]_vars
  PROVE  SieveInv'
<1>1. CASE UNCHANGED vars
  BY <1>1 DEF vars, SieveInv, Types, EndsOpen, HasRead, HasWrite, HasPipe, HasInput, Chain, ChainAt, Parent,
              Over, Flow, FlowAt, HeardAt, InPipe, Stream, LastRead, Passed, Printed, Complete, CompleteAt, Done
<1>2. ASSUME NEW i \in Proc, Step(i) PROVE SieveInv'
  BY <1>2, TypesKept, EndsKept, ChainKept, FlowKept, PrintedKept, CompleteKept DEF SieveInv
<1> QED
  BY <1>1, <1>2 DEF Next, Standstill

-----------------------------------------------------------------------------
(* What the invariant says of what is printed, and of who waits.           *)

LEMMA InvTypes ==
  ASSUME SieveInv
  PROVE  TypeOK
BY DEF SieveInv, Types, EndsOpen, TypeOK

\* What the chain has printed when nobody is left is all that there was to print.
LEMMA AllArePrinted ==
  ASSUME SieveAssumption, SieveInv, AllEnded, ~failed, terminal
  PROVE  Stream(Len(out)) = {} /\ Len(out) \in Proc
<1> DEFINE m == Len(out)
<1>1. /\ out \in Seq(Nat) /\ m \in Nat /\ DOMAIN out = 1..m
      /\ \A j \in Proc : j \in Nat
      /\ 0 \in Proc
  BY LenProperties, ProcFacts DEF SieveInv, Types
<1> HIDE DEF m
<1>2. m \in Proc /\ (m = 0 \/ primo_leido[m] # 0)
  BY <1>1 DEF SieveInv, Printed
<1>3. Over(m)
  <2>1. pc[m] # "none"
    BY <1>1, <1>2 DEF SieveInv, Chain, ChainAt
  <2> QED
    BY <1>2, <2>1 DEF AllEnded, Over
<1>4. m + 1 \in Proc /\ Over(m+1)
  <2>1. m + 1 \in Proc /\ pc[m+1] # "none"
    BY <1>2, <1>3 DEF SieveInv, Complete, CompleteAt
  <2> QED
    BY <2>1 DEF AllEnded, Over
<1>5. m + 1 > 0 /\ (m + 1) - 1 = m
  BY <1>1
<1>6. \A n \in Stream(m) : n <= LastRead(m+1)
  <2>1. CompleteAt(m+1)
    BY <1>4 DEF SieveInv, Complete
  <2> QED
    BY <1>4, <1>5, <2>1 DEF CompleteAt, Done
<1>7. LastRead(m+1) = 0
  <2>1. primo_leido[m+1] = 0
    BY <1>1, <1>4 DEF SieveInv, Printed
  <2>2. number[m+1] = 0
    BY <1>4, <1>5, <2>1 DEF SieveInv, Flow, HeardAt
  <2> QED
    BY <2>1, <2>2 DEF LastRead
<1>8. \A n \in Stream(m) : n \in Nat /\ 2 <= n
  BY <1>2, StreamFacts DEF SieveInv
<1> QED
  BY <1>2, <1>6, <1>7, <1>8 DEF m

LEMMA InvPrints ==
  ASSUME SieveAssumption, SieveInv
  PROVE  PrintsPrimes
<1>1. /\ out \in Seq(Nat) /\ Len(out) \in Nat /\ DOMAIN out = 1..Len(out)
      /\ primo_leido \in [Proc -> Nat]
      /\ \A k \in DOMAIN out : k \in Proc /\ k \in Nat /\ primo_leido[k] # 0 /\ out[k] = primo_leido[k]
  BY LenProperties, ProcFacts DEF SieveInv, Types, Printed
<1>2. \A k \in DOMAIN out : out[k] = primo_leido[k] /\ out[k] \in Primes(N)
  BY <1>1, KeptArePrimes
<1>3. \A k \in DOMAIN out : \A j \in 1..(k-1) : j \in DOMAIN out /\ out[j] < out[k]
  <2> SUFFICES ASSUME NEW k \in DOMAIN out, NEW j \in 1..(k-1)
               PROVE  j \in DOMAIN out /\ out[j] < out[k]
    OBVIOUS
  <2>1. j \in DOMAIN out
    BY <1>1
  <2> QED
    BY <1>1, <2>1, KeptInOrder
<1>4. ASSUME NEW k \in DOMAIN out
      PROVE  {p \in Primes(N) : p < out[k]} = {out[j] : j \in 1..(k-1)}
  <2>1. ASSUME NEW p \in Primes(N), p < out[k]
        PROVE  \E j \in 1..(k-1) : p = out[j]
    <3>1. k > 0 /\ k - 1 \in Proc /\ primo_leido[k] = out[k] /\ k \in Proc /\ primo_leido[k] # 0
      BY <1>1, ProcFacts
    <3>2. \A n \in Stream(k-1) : out[k] <= n
      BY <3>1 DEF SieveInv, Flow, HeardAt
    <3>3. p \in Nat /\ out[k] \in Nat
      BY <1>1, <3>1, StreamFacts DEF Primes, Below, SieveInv
    <3>4. p \notin Stream(k-1)
      BY <2>1, <3>2, <3>3
    <3>5. PICK j \in 1..(k-1) : primo_leido[j] = p
      BY <3>1, <3>4, PrimesAreKept
    <3>6. out[j] = p
      BY <1>1, <1>3, <3>5
    <3> QED
      BY <3>6
  <2>2. \A j \in 1..(k-1) : out[j] \in Primes(N) /\ out[j] < out[k]
    BY <1>2, <1>3
  <2> QED
    BY <2>1, <2>2
<1>5. ASSUME AllEnded, ~failed, terminal PROVE Len(out) = Cardinality(Primes(N))
  <2> DEFINE m == Len(out)
  <2>1. Stream(m) = {} /\ m \in Proc
    BY <1>5, AllArePrinted
  <2>2. out \in [1..m -> Primes(N)]
    <3>1. out \in [1..m -> Nat]
      BY <1>1
    <3> QED
      BY <1>1, <1>2, <3>1
  <2>3. ASSUME NEW q \in Primes(N) PROVE \E j \in 1..m : out[j] = q
    BY <1>1, <2>1, <2>3, PrimesAreKept
  <2>4. ASSUME NEW a \in 1..m, NEW b \in 1..m, out[a] = out[b] PROVE a = b
    <3>1. a \in DOMAIN out /\ b \in DOMAIN out /\ a \in Nat /\ b \in Nat /\ out[a] \in Nat /\ out[b] \in Nat
      BY <1>1
    <3>2. a < b => a \in 1..(b-1)
      BY <3>1
    <3>3. b < a => b \in 1..(a-1)
      BY <3>1
    <3> QED
      BY <1>3, <2>4, <3>1, <3>2, <3>3
  <2>5. out \in Bijection(1..m, Primes(N))
    <3>1. out \in Injection(1..m, Primes(N))
      BY <2>2, <2>4, Fun_IsInj
    <3>2. out \in Surjection(1..m, Primes(N))
      BY <2>2, <2>3, Fun_IsSurj
    <3> QED
      BY <3>1, <3>2 DEF Bijection
  <2>6. IsFiniteSet(1..m) /\ Cardinality(1..m) = m
    <3>1. m \in Nat /\ 1 \in Int /\ m \in Int
      BY <1>1
    <3>2. IsFiniteSet(1..m) /\ Cardinality(1..m) = IF 1 > m THEN 0 ELSE m-1+1
      BY <3>1, FS_Interval, Zenon
    <3> QED
      BY <3>1, <3>2
  <2>7. ExistsBijection(1..m, Primes(N))
    BY <2>5 DEF ExistsBijection
  <2> QED
    BY <2>6, <2>7, FS_Bijection
<1> QED
  BY <1>2, <1>4, <1>5 DEF PrintsPrimes

\* If nobody can go on, nobody waits for a number: the one who has to write it would
\* wait for room in a pipe that is empty.
LEMMA NobodyReads ==
  ASSUME SieveAssumption, SieveInv, \A i \in Proc : pc[i] \in Ended \/ Waiting(i)
  PROVE  \A i \in Proc : pc[i] \notin {"first", "read"}
<1> DEFINE S == {i \in Proc : pc[i] \in {"first", "read"}}
<1> SUFFICES ASSUME S # {} PROVE FALSE
  OBVIOUS
<1>1. S \subseteq Proc /\ S \in SUBSET Nat
  BY ProcFacts
<1>2. PICK k \in S : \A j \in S : k <= j
  <2> HIDE DEF S
  <2> QED
    BY <1>1, LeastExists
<1>3. k \in Proc /\ pc[k] \in {"first", "read"} /\ k > 0 /\ k - 1 \in Proc /\ k \in Nat
  BY <1>2, ProcFacts DEF SieveInv, Chain
<1>4. pipe[k-1] = <<>> /\ writers[k-1] # {}
  <2>1. Waiting(k)
    BY <1>3 DEF Ended
  <2> QED
    BY <1>3, <2>1 DEF Waiting, CanRead, AtEof
<1>5. PICK w \in Proc : w \in writers[k-1]
  BY <1>3, <1>4 DEF SieveInv, EndsOpen
<1>6. HasPipe(k-1)
  <2>1. HasWrite(w, k-1)
    BY <1>3, <1>5 DEF SieveInv, EndsOpen
  <2>2. (k - 1) + 1 = k
    BY <1>3
  <2> QED
    BY <1>3, <2>1, <2>2 DEF HasWrite
<1>7. Parent(k-1) \/ Over(k-1)
  BY <1>3 DEF SieveInv, Chain, ChainAt
<1>8. pc[k-1] \in {"read", "write", "close"}
  BY <1>6, <1>7 DEF HasPipe, Parent, Over
<1>9. Waiting(k-1)
  BY <1>3, <1>8 DEF Ended
<1>10. pc[k-1] # "read"
  BY <1>2, <1>3
<1>11. ~CanWrite(k-1)
  BY <1>8, <1>9, <1>10 DEF Waiting
<1> QED
  BY <1>4, <1>11, ProcFacts DEF CanWrite

LEMMA InvHangs ==
  ASSUME SieveAssumption, SieveInv
  PROVE  HungOnlyOnOwnPipe
<1> SUFFICES ASSUME \A i \in Proc : pc[i] \in Ended \/ Waiting(i), ~AllEnded
             PROVE  /\ failed
                    /\ \E i \in Proc : pc[i] = "write" /\ Len(pipe[i]) = Capacity /\ readers[i] = {i}
  BY DEF HungOnlyOnOwnPipe
<1>1. /\ Types /\ \A i \in Proc : i \in Nat /\ i <= Filters /\ (i > 0 => i - 1 \in Proc)
      /\ \A i \in Nat : i <= Filters => i \in Proc
      /\ Filters \in Nat
  BY ProcFacts DEF SieveInv, Proc
<1> DEFINE S == {i \in Proc : pc[i] \notin Ended}
<1>2. S # {}
  <2>1. PICK i \in Proc : pc[i] \notin {"none", "gone"}
    BY DEF AllEnded
  <2>2. pc[i] = "zombie" => i > 0 /\ pc[i-1] \notin Ended
    BY DEF SieveInv, Chain, ChainAt
  <2>3. i \in S \/ (i > 0 /\ i - 1 \in S)
    BY <1>1, <2>1, <2>2 DEF Ended
  <2> QED
    BY <2>3
<1>3. PICK e \in S : \A j \in S : j <= e
  <2> DEFINE T == {k \in 0..Filters : Filters - k \in S}
  <2>1. \A j \in S : Filters - j \in T
    BY <1>1
  <2>2. T \in SUBSET Nat /\ T # {}
    BY <1>1, <1>2, <2>1
  <2>3. PICK k \in T : \A l \in T : k <= l
    <3> HIDE DEF T
    <3> QED
      BY <2>2, LeastExists
  <2>4. \A j \in S : j <= Filters - k
    BY <1>1, <2>1, <2>3
  <2> QED
    BY <2>3, <2>4
<1>4. e \in Proc /\ e \in Nat /\ pc[e] \notin Ended /\ Waiting(e)
  BY <1>1, <1>3
<1>5. \A j \in Proc : j > e => pc[j] \in Ended
  <2> SUFFICES ASSUME NEW j \in Proc, j > e, pc[j] \notin Ended PROVE FALSE
    OBVIOUS
  <2>1. j <= e
    BY <1>3
  <2>2. j \in Nat /\ e \in Nat
    BY <1>1
  <2> QED
    BY <2>1, <2>2
<1>6. pc[e] = "write"
  <2>1. pc[e] \notin {"first", "read"}
    BY <1>4, NobodyReads
  <2>2. pc[e] = "wait" => e + 1 \in Proc
    BY <1>4 DEF SieveInv, Chain, ChainAt, Parent
  <2>3. pc[e] # "wait"
    BY <1>4, <1>5, <2>2 DEF Waiting
  <2> QED
    BY <1>4, <2>1, <2>3 DEF Waiting
<1>7. Len(pipe[e]) = Capacity
  <2>1. ~(Len(pipe[e]) < Capacity)
    BY <1>4, <1>6 DEF Waiting, CanWrite
  <2>2. Len(pipe[e]) \in Nat /\ Len(pipe[e]) <= Capacity
    BY <1>1, <1>4, LenProperties DEF Types
  <2> QED
    BY <2>1, <2>2, ProcFacts
<1>8. readers[e] = {e}
  <2>1. ASSUME NEW j \in Proc PROVE j \in readers[e] <=> j = e
    <3>1. j \in readers[e] <=> HasRead(j, e)
      BY <1>4 DEF SieveInv, EndsOpen
    <3>2. j = e + 1 \/ j = e + 2 => pc[j] \in Ended
      BY <1>4, <1>5
    <3>3. HasPipe(e)
      BY <1>6 DEF HasPipe
    <3> QED
      BY <3>1, <3>2, <3>3 DEF HasRead, HasPipe, HasInput, Ended
  <2>2. readers[e] \subseteq Proc
    BY <1>4 DEF SieveInv, EndsOpen
  <2> QED
    BY <1>4, <2>1, <2>2
<1>9. failed
  <2> SUFFICES ASSUME ~failed PROVE FALSE
    OBVIOUS
  <2>1. e + 1 \in Proc /\ pc[e+1] # "none"
    BY <1>4, <1>6 DEF SieveInv, Chain, ChainAt, Parent
  <2>2. Done(e+1)
    BY <1>4, <1>5, <2>1 DEF Ended, Done, Over
  <2>3. e + 1 > 0 /\ (e + 1) - 1 = e
    BY <1>4
  <2>4. pc[e] = "wait" \/ Over(e)
    BY <2>1, <2>2, <2>3 DEF SieveInv, Complete, CompleteAt
  <2> QED
    BY <1>6, <2>4 DEF Over
<1> QED
  BY <1>4, <1>6, <1>7, <1>8, <1>9

\* What SieveIsSound says of every argument of the program, every length of the chain and
\* every room in the pipes, whichever pipes and forks fail (labs/fork/primes.c).
THEOREM SieveAlwaysSound ==
  ASSUME SieveAssumption
  PROVE  Spec => []SieveIsSound
<1>1. Init => SieveInv
  BY SieveStarts
<1>2. SieveInv /\ [Next]_vars => SieveInv'
  BY SieveStep
<1>3. SieveInv => SieveIsSound
  BY InvTypes, InvPrints, InvHangs DEF SieveIsSound
<1> QED
  BY <1>1, <1>2, <1>3, PTL DEF Spec
=============================================================================
