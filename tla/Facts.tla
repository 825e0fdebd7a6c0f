------------------------------- MODULE Facts -------------------------------
(***************************************************************************)
(* Facts about lists without duplicates, about counts, about the lowest    *)
(* number of a set and about division, which the free lists, the reference *)
(* counts, the allocators and the arithmetic of addresses and ids need.    *)
(***************************************************************************)
EXTENDS SequenceTheorems, FiniteSetTheorems, FunctionTheorems, TLAPS

-----------------------------------------------------------------------------
(* Lists without duplicates.                                               *)

Distinct(s) == \A i, j \in DOMAIN s : s[i] = s[j] => i = j
Elems(s) == {s[i] : i \in DOMAIN s}

LEMMA PushFront ==
  ASSUME NEW S, NEW s \in Seq(S), NEW e \in S, Distinct(s), e \notin Elems(s)
  PROVE  Distinct(<<e>> \o s) /\ Elems(<<e>> \o s) = Elems(s) \cup {e}
<1> DEFINE t == <<e>> \o s
<1>1. Len(s) \in Nat /\ DOMAIN s = 1..Len(s)
  BY LenProperties
<1>2. <<e>> \in Seq(S) /\ Len(<<e>>) = 1 /\ <<e>>[1] = e
  OBVIOUS
<1>3. /\ t \in Seq(S) /\ Len(t) = 1 + Len(s)
      /\ \A i \in 1..(1 + Len(s)) : t[i] = IF i <= 1 THEN <<e>>[i] ELSE s[i - 1]
  BY <1>2, ConcatProperties
<1>4. DOMAIN t = 1..(1 + Len(s))
  BY <1>3, LenProperties
<1>5. \A i \in DOMAIN t : i # 1 => i - 1 \in DOMAIN s /\ t[i] = s[i - 1]
  BY <1>1, <1>3, <1>4
<1>6. 1 \in DOMAIN t /\ t[1] = e
  BY <1>1, <1>2, <1>3, <1>4
<1>7. \A i \in DOMAIN s : i + 1 \in DOMAIN t /\ t[i + 1] = s[i]
  BY <1>1, <1>3, <1>4
<1> HIDE DEF t
<1>8. Distinct(t)
  <2> SUFFICES ASSUME NEW i \in DOMAIN t, NEW j \in DOMAIN t, t[i] = t[j]
               PROVE  i = j
    BY DEF Distinct
  <2>1. i # 1 /\ j # 1 => i - 1 = j - 1
    BY <1>5 DEF Distinct
  <2>2. i # 1 => t[i] # e
    BY <1>5 DEF Elems
  <2>3. j # 1 => t[j] # e
    BY <1>5 DEF Elems
  <2>4. i \in Int /\ j \in Int
    BY <1>1, <1>4
  <2> QED
    BY <1>6, <2>1, <2>2, <2>3, <2>4
<1>9. \A x \in Elems(t) : x \in Elems(s) \cup {e}
  BY <1>5, <1>6 DEF Elems
<1>10. \A x \in Elems(s) \cup {e} : x \in Elems(t)
  BY <1>6, <1>7 DEF Elems
<1> QED
  BY <1>8, <1>9, <1>10 DEF t

LEMMA PopFront ==
  ASSUME NEW S, NEW s \in Seq(S), s # <<>>, Distinct(s)
  PROVE  /\ Head(s) \in Elems(s) /\ Distinct(Tail(s))
         /\ Elems(Tail(s)) = Elems(s) \ {Head(s)}
<1>1. Len(s) \in Nat \ {0} /\ DOMAIN s = 1..Len(s)
  BY LenProperties, EmptySeq
<1>2. /\ Tail(s) \in Seq(S) /\ Len(Tail(s)) = Len(s) - 1
      /\ \A i \in 1..Len(Tail(s)) : Tail(s)[i] = s[i + 1]
  BY HeadTailProperties
<1>3. DOMAIN Tail(s) = 1..(Len(s) - 1)
  BY <1>2, LenProperties
<1>4. Head(s) = s[1] /\ 1 \in DOMAIN s
  BY <1>1
<1>5. \A i \in DOMAIN Tail(s) : i + 1 \in DOMAIN s /\ i + 1 # 1 /\ Tail(s)[i] = s[i + 1]
  BY <1>1, <1>2, <1>3
<1>6. \A i \in DOMAIN s : i # 1 => i - 1 \in DOMAIN Tail(s) /\ Tail(s)[i - 1] = s[i]
  BY <1>1, <1>2, <1>3
<1>7. Distinct(Tail(s))
  <2> SUFFICES ASSUME NEW i \in DOMAIN Tail(s), NEW j \in DOMAIN Tail(s),
                      Tail(s)[i] = Tail(s)[j]
               PROVE  i = j
    BY DEF Distinct
  <2>1. i + 1 = j + 1
    BY <1>5 DEF Distinct
  <2> QED
    BY <1>3, <2>1
<1>8. \A x \in Elems(Tail(s)) : x \in Elems(s) /\ x # Head(s)
  BY <1>4, <1>5 DEF Elems, Distinct
<1>9. \A x \in Elems(s) : x # Head(s) => x \in Elems(Tail(s))
  BY <1>4, <1>6 DEF Elems
<1> QED
  BY <1>4, <1>7, <1>8, <1>9 DEF Elems

\* Two lists that share nothing, one behind the other.
LEMMA JoinLists ==
  ASSUME NEW S, NEW s \in Seq(S), NEW t \in Seq(S), Distinct(s), Distinct(t),
         Elems(s) \cap Elems(t) = {}
  PROVE  /\ s \o t \in Seq(S) /\ Distinct(s \o t)
         /\ Elems(s \o t) = Elems(s) \cup Elems(t)
<1> DEFINE u == s \o t
<1>1. /\ Len(s) \in Nat /\ DOMAIN s = 1..Len(s)
      /\ Len(t) \in Nat /\ DOMAIN t = 1..Len(t)
  BY LenProperties
<1>2. /\ u \in Seq(S) /\ Len(u) = Len(s) + Len(t)
      /\ \A i \in 1..(Len(s) + Len(t)) : u[i] = IF i <= Len(s) THEN s[i] ELSE t[i - Len(s)]
  BY ConcatProperties
<1>3. DOMAIN u = 1..(Len(s) + Len(t))
  BY <1>2, LenProperties
<1>4. \A i \in DOMAIN u :
        \/ i \in DOMAIN s /\ u[i] = s[i]
        \/ i \notin DOMAIN s /\ i - Len(s) \in DOMAIN t /\ u[i] = t[i - Len(s)]
  BY <1>1, <1>2, <1>3
<1>5. \A i \in DOMAIN s : i \in DOMAIN u /\ u[i] = s[i]
  BY <1>1, <1>2, <1>3
<1>6. \A i \in DOMAIN t : i + Len(s) \in DOMAIN u /\ u[i + Len(s)] = t[i]
  BY <1>1, <1>2, <1>3
<1> HIDE DEF u
<1>7. Distinct(u)
  <2> SUFFICES ASSUME NEW i \in DOMAIN u, NEW j \in DOMAIN u, u[i] = u[j] PROVE i = j
    BY DEF Distinct
  <2>1. CASE i \in DOMAIN s /\ j \in DOMAIN s
    BY <1>5, <2>1 DEF Distinct
  <2>2. CASE i \notin DOMAIN s /\ j \notin DOMAIN s
    <3>1. i - Len(s) = j - Len(s)
      BY <1>4, <2>2 DEF Distinct
    <3> QED
      BY <1>1, <1>3, <3>1
  <2>3. ~(i \in DOMAIN s /\ j \notin DOMAIN s) /\ ~(j \in DOMAIN s /\ i \notin DOMAIN s)
    BY <1>4 DEF Elems
  <2> QED
    BY <2>1, <2>2, <2>3
<1>8. Elems(u) = Elems(s) \cup Elems(t)
  <2>1. \A x \in Elems(u) : x \in Elems(s) \cup Elems(t)
    BY <1>4 DEF Elems
  <2>2. \A x \in Elems(s) \cup Elems(t) : x \in Elems(u)
    BY <1>5, <1>6 DEF Elems
  <2> QED
    BY <2>1, <2>2
<1> QED
  BY <1>2, <1>7, <1>8 DEF u

\* A listing of a finite set that is as long as the set is large.
LEMMA ListingIsDistinct ==
  ASSUME NEW S, IsFiniteSet(S), NEW f \in [1..Cardinality(S) -> S],
         \A p \in S : \E i \in DOMAIN f : f[i] = p
  PROVE  f \in Seq(S) /\ Distinct(f) /\ Elems(f) = S
<1> DEFINE n == Cardinality(S)
<1>1. n \in Nat
  BY FS_CardinalityType
<1>2. IsFiniteSet(1..n) /\ Cardinality(1..n) = n
  BY <1>1, FS_Interval
<1>3. f \in Surjection(1..n, S)
  BY Fun_IsSurj
<1>4. f \in Injection(1..n, S)
  BY <1>2, <1>3, FS_SurjSameCardinalityImpliesInj
<1>5. f \in Seq(S)
  BY <1>1, SeqDef
<1>6. \A a, b \in 1..n : f[a] = f[b] => a = b
  BY <1>4, Fun_InjectionProperties
<1> QED
  BY <1>5, <1>6 DEF Distinct, Elems

-----------------------------------------------------------------------------
(* Counts: how many places of a finite set D point at p.                   *)

Pointing(D, T, p) == {x \in D : T[x] = p}

\* One place is pointed somewhere else.
LEMMA Repoint ==
  ASSUME NEW D, IsFiniteSet(D), NEW T, NEW U, NEW r \in D, NEW p,
         \A x \in D : x # r => U[x] = T[x]
  PROVE  /\ Cardinality(Pointing(D, T, p)) \in Nat
         /\ Cardinality(Pointing(D, U, p)) =
              Cardinality(Pointing(D, T, p)) + (IF U[r] = p THEN 1 ELSE 0)
                                             - (IF T[r] = p THEN 1 ELSE 0)
<1> DEFINE A == Pointing(D, T, p)
           B == Pointing(D, U, p)
<1>1. IsFiniteSet(A) /\ IsFiniteSet(B)
  BY FS_Subset DEF Pointing
<1>2. Cardinality(A) \in Nat /\ Cardinality(B) \in Nat
  BY <1>1, FS_CardinalityType
<1>3. CASE U[r] = p /\ T[r] # p
  <2>1. B = A \cup {r} /\ r \notin A
    BY <1>3 DEF Pointing
  <2> QED
    BY <1>1, <1>2, <1>3, <2>1, FS_AddElement
<1>4. CASE U[r] # p /\ T[r] = p
  <2>1. B = A \ {r} /\ r \in A
    BY <1>4 DEF Pointing
  <2> QED
    BY <1>1, <1>2, <1>4, <2>1, FS_RemoveElement
<1>5. CASE (U[r] = p) = (T[r] = p)
  <2>1. B = A
    BY <1>5 DEF Pointing
  <2> QED
    BY <1>2, <1>5, <2>1
<1> QED
  BY <1>3, <1>4, <1>5

-----------------------------------------------------------------------------
(* The lowest number of a set.                                             *)

LEMMA LeastExists ==
  ASSUME NEW S \in SUBSET Nat, S # {}
  PROVE  \E i \in S : \A j \in S : i <= j
<1> DEFINE R == StrictSubsetOrdering(Nat)
           T == {0..m : m \in S}
<1>1. T \subseteq FiniteSubsetsOf(Nat) /\ T # {}
  <2>1. \A m \in S : 0..m \in SUBSET Nat /\ IsFiniteSet(0..m)
    BY FS_Interval
  <2> QED
    BY <2>1 DEF FiniteSubsetsOf
<1>2. IsWellFoundedOn(R, FiniteSubsetsOf(Nat))
  BY FS_StrictSubsetOrderingWellFounded
<1>3. \A x, y \in T : x \subseteq y /\ x # y => <<x, y>> \in R
  BY <1>1 DEF StrictSubsetOrdering, FiniteSubsetsOf
<1> HIDE DEF R
<1>4. \E x \in T : \A y \in T : ~(<<y, x>> \in R)
  <2> HIDE DEF T
  <2> QED
    BY <1>1, <1>2, WFMin
<1>5. PICK i \in S : \A y \in T : ~(<<y, 0..i>> \in R)
  BY <1>4
<1>6. \A j \in S : i <= j
  <2> SUFFICES ASSUME NEW j \in S, j < i PROVE FALSE
    OBVIOUS
  <2>1. 0..j \in T /\ 0..i \in T /\ 0..j \subseteq 0..i
    OBVIOUS
  <2>2. i \in 0..i /\ i \notin 0..j
    OBVIOUS
  <2>3. <<0..j, 0..i>> \in R
    BY <2>1, <2>2, <1>3
  <2> QED
    BY <1>5, <2>1, <2>3
<1> QED
  BY <1>6

-----------------------------------------------------------------------------
(* Multiples, quotients and remainders.                                    *)

LEMMA Multiples ==
  ASSUME NEW m \in Nat \ {0}, NEW k \in Nat
  PROVE  m * k \in Nat /\ m * (k + 1) = m * k + m
  OBVIOUS

LEMMA Monotone ==
  ASSUME NEW m \in Nat \ {0}, NEW k \in Nat, NEW j \in Nat, k <= j
  PROVE  m * k <= m * j
  OBVIOUS

LEMMA Quotient ==
  ASSUME NEW m \in Nat \ {0}, NEW k \in Nat, NEW b \in 0..(m-1)
  PROVE  m * k + b \in Nat /\ (m * k + b) % m = b /\ (m * k + b) \div m = k
  OBVIOUS

LEMMA Division ==
  ASSUME NEW m \in Nat \ {0}, NEW a \in Nat
  PROVE  \E k \in Nat, b \in 0..(m-1) : a = m * k + b
<1> DEFINE S == {k \in Nat : a < m * (k + 1)}
<1>1. a \in S
  <2>1. a + 1 \in Nat /\ 1 * (a + 1) <= m * (a + 1)
    OBVIOUS
  <2> QED
    BY <2>1
<1>2. PICK k \in S : \A j \in S : k <= j
  <2>1. S \in SUBSET Nat /\ S # {}
    BY <1>1
  <2> HIDE DEF S
  <2> QED
    BY <2>1, LeastExists
<1>3. k \in Nat /\ a < m * k + m /\ m * k \in Nat
  BY <1>2, Multiples
<1>4. m * k <= a
  <2>1. CASE k = 0
    BY <2>1
  <2>2. CASE k # 0
    <3>1. k - 1 \in Nat /\ (k - 1) + 1 = k /\ ~(k <= k - 1)
      BY <1>3, <2>2
    <3>2. k - 1 \notin S
      BY <1>2, <3>1
    <3> QED
      BY <1>3, <3>1, <3>2
  <2> QED
    BY <2>1, <2>2
<1>5. a - m * k \in 0..(m-1) /\ a = m * k + (a - m * k)
  BY <1>3, <1>4
<1> QED
  BY <1>3, <1>5
=============================================================================
