---------------------------- MODULE MachineProofs ----------------------------
(***************************************************************************)
(* Proofs about five of the models that stand alone: user_mem_check, for   *)
(* any size of a page and of the address space; the page faults that user  *)
(* code handles, for stacks, handlers and a nesting of any size; the       *)
(* console, for any screen, ring and input; the sieve of processes, which  *)
(* SieveProofs is about; and the shell, for any number of processes and    *)
(* pipes and any lines.                                                    *)
(***************************************************************************)
EXTENDS Integers, MachineParts, Facts

-----------------------------------------------------------------------------
(* UserMem: rounding to pages.                                             *)

LEMMA PageFacts ==
  ASSUME Check!UserMemAssumption
  PROVE  /\ PGSIZE \in Nat \ {0} /\ VASPACE \in Nat /\ ULIM \in 0..(VASPACE-1)
         /\ \E w \in Nat : VASPACE = PGSIZE * w
         /\ \E u \in Nat : ULIM = PGSIZE * u
<1>1. /\ PGSIZE \in Nat \ {0} /\ VASPACE \in Nat /\ ULIM \in 0..(VASPACE-1)
      /\ VASPACE % PGSIZE = 0 /\ ULIM % PGSIZE = 0
  BY DEF Check!UserMemAssumption, Check!Address
<1>2. ASSUME NEW x \in Nat, x % PGSIZE = 0 PROVE \E k \in Nat : x = PGSIZE * k
  <2>1. PICK k \in Nat, b \in 0..(PGSIZE-1) : x = PGSIZE * k + b
    BY <1>1, Division
  <2>2. x % PGSIZE = b
    BY <1>1, <2>1, Quotient
  <2>3. PGSIZE * k \in Nat
    BY <1>1, Multiples
  <2> QED
    BY <1>2, <2>1, <2>2, <2>3
<1> QED
  BY <1>1, <1>2

\* An address is in a page.
LEMMA RoundDown ==
  ASSUME Check!UserMemAssumption, NEW a \in Nat
  PROVE  \E k \in Nat : /\ Check!ROUNDDOWN(a) = PGSIZE * k /\ a \div PGSIZE = k
                        /\ PGSIZE * k \in Nat /\ PGSIZE * k <= a /\ a < PGSIZE * k + PGSIZE
<1>0. PGSIZE \in Nat \ {0}
  BY PageFacts
<1>1. PICK k \in Nat, b \in 0..(PGSIZE-1) : a = PGSIZE * k + b
  BY <1>0, Division
<1>2. a % PGSIZE = b /\ a \div PGSIZE = k
  BY <1>0, <1>1, Quotient
<1>3. PGSIZE * k \in Nat
  BY <1>0, Multiples
<1>4. Check!ROUNDDOWN(a) = PGSIZE * k
  <2>1. Check!ROUNDDOWN(a) = a - b
    BY <1>2 DEF Check!ROUNDDOWN
  <2>2. a - b = PGSIZE * k
    BY <1>0, <1>1, <1>3
  <2> QED
    BY <2>1, <2>2
<1> QED
  BY <1>0, <1>1, <1>2, <1>3, <1>4

\* The multiples of the page size are PGSIZE apart.
LEMMA NextMultiple ==
  ASSUME NEW m \in Nat \ {0}, NEW j \in Nat, NEW k \in Nat, m * j < m * k
  PROVE  m * j + m <= m * k
<1>1. j < k
  <2> SUFFICES ASSUME k <= j PROVE FALSE
    OBVIOUS
  <2>1. m * k <= m * j /\ m * k \in Nat /\ m * j \in Nat
    BY Monotone, Multiples
  <2> QED
    BY <2>1
<1>2. m * (j + 1) <= m * k
  BY <1>1, Monotone
<1> QED
  BY <1>2, Multiples

\* The end of the loop.
LEMMA FinFacts ==
  ASSUME Check!UserMemAssumption, va \in Check!Address, len \in Check!Address
  PROVE  /\ \E f \in Nat : Check!Fin = PGSIZE * f
         /\ Check!Fin \in Check!Address
         /\ va + len <= VASPACE - PGSIZE => Check!Fin >= va + len /\ Check!Fin < va + len + PGSIZE
<1>0. PGSIZE \in Nat \ {0} /\ VASPACE \in Nat \ {0} /\ va \in Nat /\ len \in Nat
  BY PageFacts DEF Check!Address
<1> DEFINE y == (va + len) % VASPACE
           x == (y + PGSIZE - 1) % VASPACE
<1>1. y \in 0..(VASPACE-1) /\ (va + len < VASPACE => y = va + len)
  BY <1>0
<1> HIDE DEF y
<1>2. x \in 0..(VASPACE-1) /\ (y + PGSIZE - 1 < VASPACE => x = y + PGSIZE - 1)
  BY <1>0, <1>1
<1>3. Check!Fin = Check!ROUNDDOWN(x)
  BY DEF Check!Fin, Check!ROUNDUP, x, y
<1> HIDE DEF x
<1>4. PICK f \in Nat : /\ Check!ROUNDDOWN(x) = PGSIZE * f
                       /\ PGSIZE * f \in Nat /\ PGSIZE * f <= x /\ x < PGSIZE * f + PGSIZE
  BY <1>2, RoundDown
<1>5. Check!Fin \in Check!Address
  BY <1>0, <1>2, <1>3, <1>4 DEF Check!Address
<1>6. va + len <= VASPACE - PGSIZE => Check!Fin >= va + len /\ Check!Fin < va + len + PGSIZE
  <2> SUFFICES ASSUME va + len <= VASPACE - PGSIZE
               PROVE  Check!Fin >= va + len /\ Check!Fin < va + len + PGSIZE
    OBVIOUS
  <2>1. y = va + len
    BY <1>0, <1>1
  <2>2. x = va + len + PGSIZE - 1
    BY <1>0, <1>2, <2>1
  <2> QED
    BY <1>0, <1>3, <1>4, <2>2
<1> QED
  BY <1>3, <1>4, <1>5, <1>6

-----------------------------------------------------------------------------
(* UserMem: the loop.                                                      *)

\* The loop is at the start of a page, not before the one of va; what it has passed may
\* be accessed.
Within == len > 0 /\ va + len <= VASPACE - PGSIZE
Passed ==
  /\ \E j \in Nat : inicio = PGSIZE * j
  /\ va < inicio + PGSIZE
  /\ Within => /\ inicio < Check!Fin + PGSIZE
               /\ \A a \in Check!Range : a < inicio => Check!MayAccess(a)

CheckInv == Check!TypeOK /\ Passed /\ Check!CheckIsExact

\* A page may be accessed as a whole, or not at all.
LEMMA OnePage ==
  ASSUME Check!UserMemAssumption, NEW j \in Nat, inicio = PGSIZE * j,
         NEW a \in Nat, inicio <= a, a < inicio + PGSIZE
  PROVE  Check!MayAccess(a) <=> ~Check!Refused(inicio)
<1>0. PGSIZE \in Nat \ {0} /\ PGSIZE * j \in Nat /\ ULIM \in Nat
  <2>1. PGSIZE \in Nat \ {0} /\ ULIM \in 0..(VASPACE-1) /\ VASPACE \in Nat
    BY PageFacts
  <2> QED
    BY <2>1, Multiples
<1>1. a - PGSIZE * j \in 0..(PGSIZE-1) /\ a = PGSIZE * j + (a - PGSIZE * j)
  BY <1>0
<1>2. a \div PGSIZE = j
  BY <1>0, <1>1, Quotient
<1>3. inicio \div PGSIZE = j
  <2>1. 0 \in 0..(PGSIZE-1) /\ inicio = PGSIZE * j + 0
    BY <1>0
  <2> QED
    BY <1>0, <2>1, Quotient
<1>4. a < ULIM <=> inicio < ULIM
  <2>1. PICK u \in Nat : ULIM = PGSIZE * u
    BY PageFacts
  <2>2. inicio < ULIM => inicio + PGSIZE <= ULIM
    BY <1>0, <2>1, NextMultiple
  <2> QED
    BY <1>0, <2>2
<1> QED
  BY <1>0, <1>2, <1>3, <1>4 DEF Check!MayAccess, Check!Refused

LEMMA CheckStarts ==
  ASSUME Check!UserMemAssumption, Check!Init
  PROVE  CheckInv
<1>0. /\ PGSIZE \in Nat \ {0} /\ VASPACE \in Nat
      /\ va \in Check!Address /\ len \in Check!Address /\ va \in Nat /\ len \in Nat
  BY PageFacts DEF Check!Init, Check!Address
<1>1. PICK k \in Nat : /\ Check!ROUNDDOWN(va) = PGSIZE * k
                       /\ PGSIZE * k \in Nat /\ PGSIZE * k <= va /\ va < PGSIZE * k + PGSIZE
  BY <1>0, RoundDown
<1>2. inicio = PGSIZE * k
  BY <1>1 DEF Check!Init
<1>3. Check!TypeOK
  <2>1. inicio \in Check!Address
    BY <1>0, <1>1, <1>2 DEF Check!Address
  <2>2. inicio % PGSIZE = 0
    <3>1. 0 \in 0..(PGSIZE-1) /\ inicio = PGSIZE * k + 0
      BY <1>0, <1>1, <1>2
    <3> QED
      BY <1>0, <3>1, Quotient
  <2>3. 0 \in Check!Address
    BY <1>0 DEF Check!Address
  <2> QED
    BY <2>1, <2>2, <2>3 DEF Check!Init, Check!TypeOK
<1>4. Passed
  <2>1. Within => inicio < Check!Fin + PGSIZE
    <3> SUFFICES ASSUME Within PROVE inicio < Check!Fin + PGSIZE
      OBVIOUS
    <3>1. Check!Fin >= va + len /\ Check!Fin \in Nat
      BY <1>0, FinFacts DEF Within, Check!Address
    <3> QED
      BY <1>0, <1>1, <1>2, <3>1
  <2>2. \A a \in Check!Range : ~(a < inicio)
    BY <1>0, <1>1, <1>2 DEF Check!Range
  <2> QED
    BY <1>1, <1>2, <2>1, <2>2 DEF Passed
<1>5. Check!CheckIsExact
  BY DEF Check!Init, Check!CheckIsExact
<1> QED
  BY <1>3, <1>4, <1>5 DEF CheckInv

\* The loop at a page before the end.
LEMMA InTheLoop ==
  ASSUME Check!UserMemAssumption, CheckInv, Check!Checking
  PROVE  /\ inicio \in Nat /\ va \in Nat /\ len \in Nat /\ PGSIZE \in Nat \ {0}
         /\ \E j \in Nat : inicio = PGSIZE * j /\ inicio + PGSIZE = PGSIZE * (j + 1)
         /\ inicio + PGSIZE <= Check!Fin
         /\ Check!Fin \in Check!Address /\ va < inicio + PGSIZE
         /\ Within => inicio < va + len /\ Check!Fin < va + len + PGSIZE
<1>0. /\ PGSIZE \in Nat \ {0} /\ VASPACE \in Nat /\ va \in Check!Address /\ len \in Check!Address
      /\ inicio \in Nat /\ va \in Nat /\ len \in Nat /\ inicio < Check!Fin
  BY PageFacts DEF CheckInv, Check!TypeOK, Check!Address, Check!Checking
<1>1. PICK j \in Nat : inicio = PGSIZE * j
  BY DEF CheckInv, Passed
<1>2. PICK f \in Nat : Check!Fin = PGSIZE * f
  BY <1>0, FinFacts
<1>3. Check!Fin \in Check!Address /\ Check!Fin \in Nat
  <2>1. Check!Fin \in Check!Address
    BY <1>0, FinFacts
  <2> QED
    BY <1>0, <2>1 DEF Check!Address
<1>4. inicio + PGSIZE <= Check!Fin
  BY <1>0, <1>1, <1>2, NextMultiple
<1>5. inicio + PGSIZE = PGSIZE * (j + 1)
  BY <1>0, <1>1, Multiples
<1>6. Within => inicio < va + len /\ Check!Fin < va + len + PGSIZE
  <2> SUFFICES ASSUME Within PROVE inicio < va + len /\ Check!Fin < va + len + PGSIZE
    OBVIOUS
  <2>1. Check!Fin < va + len + PGSIZE
    BY <1>0, FinFacts DEF Within
  <2> QED
    BY <1>0, <1>3, <1>4, <2>1
<1>7. va < inicio + PGSIZE
  BY DEF CheckInv, Passed
<1> QED
  BY <1>0, <1>1, <1>3, <1>4, <1>5, <1>6, <1>7

LEMMA NextPageSteps ==
  ASSUME Check!UserMemAssumption, CheckInv, Check!NextPage
  PROVE  CheckInv'
<1>0. /\ inicio \in Nat /\ va \in Nat /\ len \in Nat /\ PGSIZE \in Nat \ {0} /\ VASPACE \in Nat
      /\ inicio + PGSIZE <= Check!Fin /\ Check!Fin \in Check!Address /\ va < inicio + PGSIZE
  BY InTheLoop, PageFacts DEF Check!NextPage
<1>1. /\ inicio' = inicio + PGSIZE /\ result' = result /\ result = "checking"
      /\ user_mem_check_addr' = user_mem_check_addr
      /\ entries' = entries /\ va' = va /\ len' = len /\ perm' = perm
      /\ ~Check!Refused(inicio)
  BY DEF Check!NextPage, Check!call, Check!Checking
<1>2. PICK j \in Nat : inicio = PGSIZE * j /\ inicio + PGSIZE = PGSIZE * (j + 1)
  BY InTheLoop DEF Check!NextPage
<1>3. inicio' \in Check!Address /\ inicio' % PGSIZE = 0
  <2>1. inicio + PGSIZE \in Check!Address
    BY <1>0 DEF Check!Address
  <2>2. 0 \in 0..(PGSIZE-1) /\ j + 1 \in Nat
    BY <1>0
  <2>3. (PGSIZE * (j + 1) + 0) % PGSIZE = 0 /\ PGSIZE * (j + 1) \in Nat
    BY <1>0, <2>2, Quotient, Multiples
  <2>4. PGSIZE * (j + 1) + 0 = PGSIZE * (j + 1)
    BY <2>3
  <2> QED
    BY <1>1, <1>2, <2>1, <2>3, <2>4
<1>4. Check!TypeOK'
  BY <1>1, <1>3 DEF CheckInv, Check!TypeOK
<1>5. Check!Fin' = Check!Fin /\ Check!Range' = Check!Range
  BY <1>1 DEF Check!Fin, Check!Range
<1>6. Passed'
  <2>1. \E k \in Nat : inicio' = PGSIZE * k
    BY <1>1, <1>2
  <2>2. va' < inicio' + PGSIZE
    BY <1>0, <1>1
  <2>3. ASSUME Within PROVE inicio' < Check!Fin + PGSIZE
    BY <1>0, <1>1 DEF Check!Address
  <2>4. ASSUME Within, NEW a \in Check!Range, a < inicio' PROVE Check!MayAccess(a)
    <3>1. a \in Nat
      BY <1>0 DEF Check!Range
    <3>2. CASE a < inicio
      BY <2>4, <3>2 DEF CheckInv, Passed
    <3>3. CASE inicio <= a
      BY <1>1, <1>2, <2>4, <3>1, <3>3, OnePage
    <3> QED
      BY <1>0, <3>1, <3>2, <3>3
  <2>5. Within' => Within
    BY <1>1 DEF Within
  <2>6. \A a : Check!MayAccess(a) => Check!MayAccess(a)'
    BY <1>1 DEF Check!MayAccess
  <2> QED
    BY <1>5, <2>1, <2>2, <2>3, <2>4, <2>5, <2>6 DEF Passed
<1>7. Check!CheckIsExact'
  BY <1>1 DEF Check!CheckIsExact
<1> QED
  BY <1>4, <1>6, <1>7 DEF CheckInv

\* The byte that a fault names.
LEMMA FaultSteps ==
  ASSUME Check!UserMemAssumption, CheckInv, Check!Fault
  PROVE  CheckInv'
<1>0. /\ inicio \in Nat /\ va \in Nat /\ len \in Nat /\ PGSIZE \in Nat \ {0}
      /\ va < inicio + PGSIZE /\ (Within => inicio < va + len)
  BY InTheLoop DEF Check!Fault
<1>1. /\ inicio' = inicio /\ result' = "fault" /\ Check!Refused(inicio)
      /\ user_mem_check_addr' = IF inicio < va THEN va ELSE inicio
      /\ entries' = entries /\ va' = va /\ len' = len /\ perm' = perm
  BY DEF Check!Fault, Check!call
<1> DEFINE byte == IF inicio < va THEN va ELSE inicio
<1>2. byte \in Check!Address /\ byte \in Nat /\ inicio <= byte /\ byte < inicio + PGSIZE
  BY <1>0 DEF CheckInv, Check!TypeOK
<1>3. Check!TypeOK'
  BY <1>1, <1>2 DEF CheckInv, Check!TypeOK
<1>4. ~Check!MayAccess(byte)
  <2>1. PICK j \in Nat : inicio = PGSIZE * j
    BY DEF CheckInv, Passed
  <2> HIDE DEF byte
  <2> QED
    BY <1>1, <1>2, <2>1, OnePage
<1>5. ASSUME Within PROVE byte \in Check!Range /\ \A a \in Check!Range : a < byte => a < inicio
  BY <1>0, <1>5 DEF Check!Range, Within
<1>6. Check!Fin' = Check!Fin /\ Check!Range' = Check!Range /\ (Within' <=> Within)
  BY <1>1 DEF Check!Fin, Check!Range, Within
<1>7. \A a : Check!MayAccess(a)' <=> Check!MayAccess(a)
  BY <1>1 DEF Check!MayAccess
<1>8. Passed'
  BY <1>1, <1>6, <1>7 DEF CheckInv, Passed
<1>9. Check!CheckIsExact'
  <2> SUFFICES ASSUME Within PROVE /\ byte \in Check!Range /\ ~Check!MayAccess(byte)
                                   /\ \A a \in Check!Range : a < byte => Check!MayAccess(a)
    <3> HIDE DEF byte
    <3>1. user_mem_check_addr' = byte
      BY <1>1 DEF byte
    <3>2. (len' > 0 /\ va' + len' <= VASPACE - PGSIZE) => Within
      BY <1>1 DEF Within
    <3> QED
      BY <1>1, <1>6, <1>7, <3>1, <3>2 DEF Check!CheckIsExact
  <2>1. \A a \in Check!Range : a < inicio => Check!MayAccess(a)
    BY DEF CheckInv, Passed
  <2> HIDE DEF byte
  <2> QED
    BY <1>4, <1>5, <2>1
<1> QED
  BY <1>3, <1>8, <1>9 DEF CheckInv

LEMMA OkSteps ==
  ASSUME Check!UserMemAssumption, CheckInv, Check!Ok
  PROVE  CheckInv'
<1>0. /\ PGSIZE \in Nat \ {0} /\ VASPACE \in Nat /\ va \in Check!Address /\ len \in Check!Address
      /\ inicio \in Nat /\ va \in Nat /\ len \in Nat
  BY PageFacts DEF CheckInv, Check!TypeOK, Check!Address
<1>1. /\ inicio' = inicio /\ result' = "ok" /\ ~(inicio < Check!Fin)
      /\ user_mem_check_addr' = user_mem_check_addr
      /\ entries' = entries /\ va' = va /\ len' = len /\ perm' = perm
  BY DEF Check!Ok, Check!call
<1>2. Check!TypeOK'
  BY <1>1 DEF CheckInv, Check!TypeOK
<1>3. Check!Fin' = Check!Fin /\ Check!Range' = Check!Range /\ (Within' <=> Within)
  BY <1>1 DEF Check!Fin, Check!Range, Within
<1>4. \A a : Check!MayAccess(a)' <=> Check!MayAccess(a)
  BY <1>1 DEF Check!MayAccess
<1>5. Passed'
  BY <1>1, <1>3, <1>4 DEF CheckInv, Passed
<1>6. ASSUME Within, NEW a \in Check!Range PROVE Check!MayAccess(a)
  <2>1. Check!Fin >= va + len /\ Check!Fin \in Nat
    BY <1>0, <1>6, FinFacts DEF Within, Check!Address
  <2>2. a < inicio
    BY <1>0, <1>1, <2>1 DEF Check!Range
  <2> QED
    BY <1>6, <2>2 DEF CheckInv, Passed
<1>7. Check!CheckIsExact'
  <2>1. (len' > 0 /\ va' + len' <= VASPACE - PGSIZE) => Within
    BY <1>1 DEF Within
  <2> QED
    BY <1>1, <1>3, <1>4, <1>6, <2>1 DEF Check!CheckIsExact
<1> QED
  BY <1>2, <1>5, <1>7 DEF CheckInv

\* The check of a range of user memory is exact, whatever the range, the page table and
\* the sizes of a page and of the address space: ranges that end before the last page of
\* the address space are accepted if, and only if, every byte may be accessed, and of the
\* others the first byte that may not be accessed is named (user_mem_check, kern/pmap.c).
\* Of UserMem, and of its part of MCMachines.
THEOREM CheckIsAlwaysSound ==
  ASSUME Check!UserMemAssumption
  PROVE  /\ Check!Spec => []Check!CheckIsSound
         /\ CheckSpec => []CheckIsSound
<1>1. Check!Init => CheckInv
  BY CheckStarts
<1>2. CheckInv /\ [Check!Next]_Check!vars => CheckInv'
  <2> SUFFICES ASSUME CheckInv, [Check!Next]_Check!vars PROVE CheckInv'
    OBVIOUS
  <2>1. CASE Check!NextPage
    BY <2>1, NextPageSteps
  <2>2. CASE Check!Fault
    BY <2>2, FaultSteps
  <2>3. CASE Check!Ok
    BY <2>3, OkSteps
  <2>4. CASE Check!Returned \/ UNCHANGED Check!vars
    <3>1. /\ inicio' = inicio /\ result' = result
          /\ user_mem_check_addr' = user_mem_check_addr
          /\ entries' = entries /\ va' = va /\ len' = len /\ perm' = perm
      BY <2>4 DEF Check!Returned, Check!vars
    <3>2. /\ Check!Fin' = Check!Fin /\ Check!Range' = Check!Range /\ (Within' <=> Within)
          /\ \A a : Check!MayAccess(a)' <=> Check!MayAccess(a)
      BY <3>1 DEF Check!Fin, Check!Range, Within, Check!MayAccess
    <3>3. Check!TypeOK'
      BY <3>1 DEF CheckInv, Check!TypeOK
    <3>4. Passed'
      BY <3>1, <3>2 DEF CheckInv, Passed
    <3>5. Check!CheckIsExact'
      BY <3>1, <3>2 DEF CheckInv, Check!CheckIsExact
    <3> QED
      BY <3>3, <3>4, <3>5 DEF CheckInv
  <2> QED
    BY <2>1, <2>2, <2>3, <2>4 DEF Check!Next
<1>3. CheckInv => Check!CheckIsSound
  BY DEF CheckInv, Check!CheckIsSound
<1>4. Check!Spec => []Check!CheckIsSound
  BY <1>1, <1>2, <1>3, PTL DEF Check!Spec
<1> DEFINE Inv == part = "usermem" => CheckInv
           CheckStep == UNCHANGED part /\ IF part = "usermem" THEN Check!Next ELSE UNCHANGED usermem
<1>5. CheckInit => Inv
  BY <1>1 DEF CheckInit
<1>6. Inv /\ [CheckStep]_<<part, usermem>> => Inv'
  BY <1>2 DEF usermem, Check!vars
<1>7. Inv => CheckIsSound
  BY <1>3 DEF CheckIsSound
<1>8. CheckSpec => []CheckIsSound
  BY <1>5, <1>6, <1>7, PTL DEF CheckSpec
<1> QED
  BY <1>4, <1>8

-----------------------------------------------------------------------------
(* UxStack: what the frames look like.                                     *)

UxPlace == {"program", "pushl_esp", "call", "handler", "movl_esp_ecx", "movl_ecx_esp",
            "movl_edx_ecx", "popal", "popfl", "pop_esp", "ret"}
Content == {Ux!Addr(a) : a \in Int} \cup {Ux!Code(eip) : eip \in UxPlace}
             \cup {Ux!Data(x) : x \in UserRegs \cup {"va", "err", "zero", "any", "return", "local", "scratch"}}
Stack == [Ux!Word -> Content]
Cpu == [eip : UxPlace, esp : 1..UXTop, flags : Content, regs : Content]

UxTypes ==
  /\ cpu \in Cpu /\ mem \in Stack
  /\ saved \in Seq([cpu : Cpu, stack : Stack])
  /\ env \in {"none", "ready", "destroyed", "panic"}

\* Where the upcall and the handler are that look after the fault of w: the stack
\* pointer against the frame, and what the rest of the way back needs.
Level(c, m, w) ==
  LET u == Ux!NewFrame(w.esp)
  IN  /\ c.eip # "program"
      /\ c.eip \in {"pushl_esp", "movl_esp_ecx", "movl_ecx_esp", "movl_edx_ecx", "popal"} => c.esp = u
      /\ c.eip = "call" => c.esp = u - 1 /\ Ux!OnUx(c.esp)
      /\ c.eip = "handler" =>
           \E k \in 0..Push : /\ c.esp = u - 2 - k /\ Ux!OnUx(c.esp)
                              /\ m[u - 2] = Ux!Data("return")
                              /\ \A a \in c.esp..(u - 3) : m[a] = Ux!Data("local")
      /\ c.eip \in {"pushl_esp", "call", "handler", "movl_esp_ecx", "movl_ecx_esp"} =>
           m[u + Ux!Esp] = Ux!Addr(w.esp)
      /\ c.eip \in {"movl_ecx_esp", "movl_edx_ecx"} => c.regs = Ux!Addr(w.esp - 1)
      /\ c.eip \in {"movl_edx_ecx", "popal", "popfl", "pop_esp"} => m[u + Ux!Esp] = Ux!Addr(w.esp - 1)
      /\ c.eip \in {"popal", "popfl", "pop_esp", "ret"} => m[w.esp - 1] = Ux!Code(w.eip)
      /\ c.eip = "popfl" => c.esp = u + Ux!Eip /\ m[u + Ux!Eflags] = w.flags
      /\ c.eip = "pop_esp" => c.esp = u + Ux!Esp
      /\ c.eip = "ret" => c.esp = w.esp - 1
      /\ c.eip \in {"popfl", "pop_esp", "ret"} => c.regs = w.regs
      /\ c.eip \in {"pop_esp", "ret"} => c.flags = w.flags

Framed(w) == Ux!NewFrame(w.esp)
OnNormal(c) == c.eip = "program" /\ c.esp \in 2..StackTop
Nested(c) == c.eip \in {"handler", "movl_edx_ecx"} /\ Ux!OnUx(c.esp)

\* The faults that are being handled: the first one is of the program, each other one of
\* the handler or of the upcall, and everything later is below its frame.
Levels ==
  /\ saved = <<>> => OnNormal(cpu)
  /\ saved # <<>> => OnNormal(saved[1].cpu) /\ Level(cpu, mem, saved[Len(saved)].cpu)
  /\ \A i \in 1..Len(saved) : Ux!OnUx(Framed(saved[i].cpu))
  /\ \A i \in 2..Len(saved) :
       Nested(saved[i].cpu) /\ Level(saved[i].cpu, saved[i].stack, saved[i-1].cpu)
  /\ \A i, j \in 1..Len(saved) : i < j => saved[j].cpu.esp <= Framed(saved[i].cpu)

\* What was on the stack at a fault is still there.
Undisturbed ==
  \A i \in 1..Len(saved), a \in Ux!Word :
    /\ a >= saved[i].cpu.esp /\ (a < UXBottom <=> saved[i].cpu.esp <= StackTop)
    => mem[a] = saved[i].stack[a]

UxInv == UxTypes /\ Levels /\ Undisturbed /\ Ux!FramesIntact /\ Ux!PanicOnlyAtBottom

-----------------------------------------------------------------------------
(* UxStack: what the invariant says of the faults that are being handled,   *)
(* and that a step which writes only what is its own keeps it.             *)

LEMMA UxNumbers ==
  ASSUME Ux!UxAssumption
  PROVE  /\ StackTop \in Nat /\ UXBottom \in Nat /\ UXTop \in Nat /\ Push \in Nat
         /\ StackTop + 1 < UXBottom /\ UXBottom < UXTop
  BY DEF Ux!UxAssumption

\* A word of a frame.
LEMMA FrameWords ==
  ASSUME Ux!UxAssumption, NEW w, w.esp \in 1..UXTop, Ux!OnUx(Framed(w)),
         ~Ux!OnUx(w.esp) => w.esp \in 2..StackTop
  PROVE  /\ Framed(w) \in Int /\ Framed(w) >= UXBottom /\ Framed(w) + 6 <= UXTop
         /\ Ux!OnUx(w.esp) => Framed(w) = w.esp - 7
         /\ \A f \in 0..5 : Ux!OnUx(Framed(w) + f) /\ Framed(w) + f \in Ux!Word
         /\ w.esp - 1 \in Ux!Word
<1>1. /\ StackTop \in Nat /\ UXBottom \in Nat /\ UXTop \in Nat
      /\ StackTop + 1 < UXBottom /\ UXBottom < UXTop
  BY UxNumbers
<1>2. CASE Ux!OnUx(w.esp)
  <2>1. Framed(w) = w.esp - 1 - 6 /\ w.esp \in UXBottom..(UXTop-1)
    BY <1>2 DEF Framed, Ux!NewFrame, Ux!FrameSize, Ux!OnUx
  <2> QED
    BY <1>1, <2>1 DEF Ux!OnUx, Ux!Word
<1>3. CASE ~Ux!OnUx(w.esp)
  <2>1. Framed(w) = UXTop - 6
    BY <1>3 DEF Framed, Ux!NewFrame, Ux!FrameSize
  <2> QED
    BY <1>1, <1>3, <2>1 DEF Ux!OnUx, Ux!Word
<1> QED
  BY <1>2, <1>3

LEMMA Contents ==
  /\ \A a \in Int : Ux!Addr(a) \in Content /\ Ux!Addr(a)[2] = a
  /\ \A eip \in UxPlace : Ux!Code(eip) \in Content /\ Ux!Code(eip)[2] = eip
  /\ \A x \in UserRegs \cup {"va", "err", "zero", "any", "return", "local", "scratch"} :
       Ux!Data(x) \in Content
  /\ Ux!Data("return") # Ux!Data("local")
<1>1. \A a : Ux!Addr(a)[2] = a
  BY DEF Ux!Addr
<1>2. \A a : Ux!Code(a)[2] = a
  BY DEF Ux!Code
<1>3. Ux!Data("return") # Ux!Data("local")
  BY DEF Ux!Data
<1> QED
  BY <1>1, <1>2, <1>3 DEF Content

\* The faults that are being handled, one at a time.
LEMMA EachFault ==
  ASSUME Ux!UxAssumption, UxInv, NEW i \in 1..Len(saved)
  PROVE  /\ saved[i].cpu \in Cpu /\ saved[i].stack \in Stack /\ saved[i].cpu.esp \in 1..UXTop
         /\ Ux!OnUx(saved[i].cpu.esp) <=> i > 1
         /\ i = 1 => OnNormal(saved[i].cpu) /\ saved[i].cpu.esp \in 2..StackTop
         /\ i > 1 => Nested(saved[i].cpu) /\ Level(saved[i].cpu, saved[i].stack, saved[i-1].cpu)
         /\ Ux!OnUx(Framed(saved[i].cpu))
         /\ ~Ux!OnUx(saved[i].cpu.esp) => saved[i].cpu.esp \in 2..StackTop
<1>1. /\ StackTop \in Nat /\ UXBottom \in Nat /\ UXTop \in Nat
      /\ StackTop + 1 < UXBottom /\ UXBottom < UXTop
  BY UxNumbers
<1>2. saved \in Seq([cpu : Cpu, stack : Stack])
  BY DEF UxInv, UxTypes
<1>3. saved[i] \in [cpu : Cpu, stack : Stack]
  BY <1>2, ElementOfSeq
<1>4. saved[i].cpu \in Cpu /\ saved[i].stack \in Stack
  BY <1>3
<1>5. saved[i].cpu.esp \in 1..UXTop
  BY <1>4 DEF Cpu
<1>6. saved # <<>>
  BY <1>2
<1>7. i = 1 => OnNormal(saved[i].cpu)
  BY <1>6 DEF UxInv, Levels
<1>8. i > 1 => Nested(saved[i].cpu) /\ Level(saved[i].cpu, saved[i].stack, saved[i-1].cpu)
  <2> SUFFICES ASSUME i > 1 PROVE i \in 2..Len(saved)
    BY DEF UxInv, Levels
  <2> QED
    BY <1>2
<1>9. Ux!OnUx(Framed(saved[i].cpu))
  BY DEF UxInv, Levels
<1>10. i = 1 => saved[i].cpu.esp \in 2..StackTop /\ ~Ux!OnUx(saved[i].cpu.esp)
  BY <1>1, <1>7 DEF OnNormal, Ux!OnUx
<1>11. i > 1 => Ux!OnUx(saved[i].cpu.esp)
  BY <1>8 DEF Nested
<1>12. i = 1 \/ i > 1
  BY <1>2
<1> QED
  BY <1>4, <1>5, <1>7, <1>8, <1>9, <1>10, <1>11, <1>12

LEMMA TopFault ==
  ASSUME Ux!UxAssumption, UxInv, saved # <<>>
  PROVE  /\ Len(saved) \in Nat /\ Len(saved) \in 1..Len(saved)
         /\ Level(cpu, mem, saved[Len(saved)].cpu)
<1>1. saved \in Seq([cpu : Cpu, stack : Stack])
  BY DEF UxInv, UxTypes
<1> QED
  BY <1>1 DEF UxInv, Levels

\* The words that the way back from the last fault may change.
Ours(w, a) ==
  /\ a \in Ux!Word
  /\ IF Ux!OnUx(w.esp) THEN Ux!OnUx(a) /\ a < w.esp ELSE Ux!OnUx(a) \/ a = w.esp - 1
  /\ a \notin {Framed(w) + Ux!Regs, Framed(w) + Ux!Eip, Framed(w) + Ux!Eflags}

Wrote(w) ==
  \/ mem' = mem
  \/ \E a, x : /\ mem' = [mem EXCEPT ![a] = x] /\ x \in Content /\ Ours(w, a)
               /\ a = Framed(w) + Ux!Esp => x \in {Ux!Addr(w.esp), Ux!Addr(w.esp - 1)}

\* What the handler or the upcall does on its own stack leaves everything else alone.
LEMMA WroteKeeps ==
  ASSUME Ux!UxAssumption, UxInv, saved # <<>>, NEW w, w = saved[Len(saved)].cpu, Wrote(w),
         NEW i \in 1..Len(saved), NEW a \in Ux!Word
  PROVE  /\ (a >= saved[i].cpu.esp /\ (a < UXBottom <=> saved[i].cpu.esp <= StackTop)) => mem'[a] = mem[a]
         /\ (i < Len(saved) /\ \E f \in 0..5 : a = Framed(saved[i].cpu) + f) => mem'[a] = mem[a]
         /\ a \in {Framed(w) + Ux!Regs, Framed(w) + Ux!Eip, Framed(w) + Ux!Eflags} => mem'[a] = mem[a]
<1> SUFFICES ASSUME NEW b, NEW x, mem' = [mem EXCEPT ![b] = x], Ours(w, b)
             PROVE  /\ (a >= saved[i].cpu.esp /\ (a < UXBottom <=> saved[i].cpu.esp <= StackTop)) => a # b
                    /\ (i < Len(saved) /\ \E f \in 0..5 : a = Framed(saved[i].cpu) + f) => a # b
                    /\ a \in {Framed(w) + Ux!Regs, Framed(w) + Ux!Eip, Framed(w) + Ux!Eflags} => a # b
  <2>1. mem \in Stack
    BY DEF UxInv, UxTypes
  <2> QED
    BY <2>1 DEF Wrote, Stack
<1> DEFINE n == Len(saved)
           v == saved[i].cpu
<1>1. /\ StackTop \in Nat /\ UXBottom \in Nat /\ UXTop \in Nat
      /\ StackTop + 1 < UXBottom /\ UXBottom < UXTop
  BY UxNumbers
<1>2. n \in Nat /\ n \in 1..n /\ i \in 1..n /\ w = saved[n].cpu
  BY TopFault
<1>3. /\ w.esp \in 1..UXTop /\ (Ux!OnUx(w.esp) <=> n > 1)
      /\ (~Ux!OnUx(w.esp) => w.esp \in 2..StackTop) /\ Ux!OnUx(Framed(w))
  BY <1>2, EachFault
<1>4. /\ v.esp \in 1..UXTop /\ (Ux!OnUx(v.esp) <=> i > 1)
      /\ (~Ux!OnUx(v.esp) => v.esp \in 2..StackTop) /\ Ux!OnUx(Framed(v))
  BY EachFault
<1>5. /\ Framed(v) \in Int /\ Framed(v) >= UXBottom /\ Framed(v) + 6 <= UXTop
      /\ (Ux!OnUx(v.esp) => Framed(v) = v.esp - 7)
  BY <1>4, FrameWords
<1>6. i < n => w.esp <= Framed(v)
  BY <1>2 DEF UxInv, Levels
<1>7. Ours(w, b) /\ b \in Int /\ a \in Int
  BY <1>1 DEF Ours, Ux!Word
<1> HIDE DEF v, n
<1>8. CASE i < n
  <2>1. n > 1 /\ Ux!OnUx(w.esp) /\ Ux!OnUx(b) /\ b < w.esp
    BY <1>2, <1>3, <1>7, <1>8 DEF Ours
  <2>2. b < Framed(v)
    BY <1>3, <1>5, <1>6, <1>7, <1>8, <2>1
  <2>3. (\E f \in 0..5 : a = Framed(v) + f) => a # b
    BY <1>5, <2>2
  <2>4. (a >= v.esp /\ (a < UXBottom <=> v.esp <= StackTop)) => a # b
    <3>1. CASE i = 1
      <4>1. v.esp <= StackTop
        BY <1>4, <3>1
      <4> QED
        BY <1>1, <2>1, <4>1 DEF Ux!OnUx
    <3>2. CASE i > 1
      BY <1>4, <1>5, <1>7, <2>2, <3>2
    <3> QED
      BY <1>2, <3>1, <3>2
  <2> QED
    BY <1>7, <2>3, <2>4 DEF Ours, v, n
<1>9. CASE i = n
  <2>1. v = w
    BY <1>2, <1>9 DEF v
  <2>2. (a >= v.esp /\ (a < UXBottom <=> v.esp <= StackTop)) => a # b
    <3>1. CASE Ux!OnUx(w.esp)
      BY <1>3, <1>7, <2>1, <3>1 DEF Ours
    <3>2. CASE ~Ux!OnUx(w.esp)
      <4>1. Ux!OnUx(b) \/ b = w.esp - 1
        BY <1>7, <3>2 DEF Ours
      <4> QED
        BY <1>1, <1>3, <1>7, <2>1, <3>2, <4>1 DEF Ux!OnUx
    <3> QED
      BY <3>1, <3>2
  <2> QED
    BY <1>7, <1>9, <2>2 DEF Ours, v, n
<1> QED
  BY <1>2, <1>8, <1>9

Leaving == {"popfl", "pop_esp", "ret"}

LEMMA WroteStack ==
  ASSUME UxInv, NEW w, Wrote(w)
  PROVE  mem' \in Stack
<1>1. mem \in Stack
  BY DEF UxInv, UxTypes
<1> QED
  BY <1>1 DEF Wrote, Stack

\* The frame of a fault, as FramesIntact has it.
Intact(w, m) ==
  /\ m[Framed(w) + Ux!Eip] = Ux!Code(w.eip) /\ m[Framed(w) + Ux!Eflags] = w.flags
  /\ m[Framed(w) + Ux!Regs] = w.regs
  /\ m[Framed(w) + Ux!Esp] \in {Ux!Addr(w.esp), Ux!Addr(w.esp - 1)}

LEMMA IntactIs ==
  Ux!FramesIntact <=>
    \A i \in 1..Len(saved) : i < Len(saved) \/ cpu.eip \notin Leaving => Intact(saved[i].cpu, mem)
  BY DEF Ux!FramesIntact, Intact, Leaving, Framed

LEMMA WroteSteps ==
  ASSUME Ux!UxAssumption, UxInv, saved # <<>>, saved' = saved,
         NEW w, w = saved[Len(saved)].cpu, Wrote(w),
         NEW c, c = cpu', c \in Cpu, NEW m, m = mem', Level(c, m, w),
         env' \in {"none", "ready", "destroyed", "panic"}, env' = "panic" => c.esp = UXBottom,
         cpu.eip \in Leaving => c.eip \in Leaving
  PROVE  UxInv'
<1> DEFINE n == Len(saved)
<1>1. n \in Nat /\ n \in 1..n
  BY TopFault
<1>2. m \in Stack
  BY WroteStack
<1>3. UxTypes'
  BY <1>2 DEF UxInv, UxTypes
<1>4. Levels'
  BY DEF UxInv, Levels
<1>5. Undisturbed'
  <2>1. \A i \in 1..n, a \in Ux!Word :
          /\ a >= saved[i].cpu.esp /\ (a < UXBottom <=> saved[i].cpu.esp <= StackTop)
          => mem'[a] = mem[a]
    BY WroteKeeps
  <2> QED
    BY <2>1 DEF UxInv, Undisturbed
<1>6. ASSUME NEW i \in 1..n, i < n \/ c.eip \notin Leaving PROVE Intact(saved[i].cpu, m)
  <2> DEFINE v == saved[i].cpu
  <2>1. Intact(v, mem)
    BY <1>6, IntactIs DEF UxInv
  <2>2. /\ Framed(v) \in Int
        /\ \A f \in 0..5 : Ux!OnUx(Framed(v) + f) /\ Framed(v) + f \in Ux!Word
    BY EachFault, FrameWords
  <2>3. i = n => v = w
    OBVIOUS
  <2> HIDE DEF v
  <2>4. CASE i < n
    <3>1. \A f \in 0..5 : m[Framed(v) + f] = mem[Framed(v) + f]
      <4> SUFFICES ASSUME NEW f \in 0..5 PROVE m[Framed(v) + f] = mem[Framed(v) + f]
        OBVIOUS
      <4> QED
        BY <2>2, <2>4, WroteKeeps DEF v
    <3>2. /\ m[Framed(v) + 2] = mem[Framed(v) + 2] /\ m[Framed(v) + 3] = mem[Framed(v) + 3]
          /\ m[Framed(v) + 4] = mem[Framed(v) + 4] /\ m[Framed(v) + 5] = mem[Framed(v) + 5]
      BY <3>1
    <3> QED
      BY <2>1, <3>2 DEF Intact, v, Ux!Regs, Ux!Eip, Ux!Eflags, Ux!Esp
  <2>5. CASE i = n
    <3>0. v = w
      BY <2>3, <2>5
    <3>1. /\ Framed(w) + Ux!Regs \in Ux!Word /\ Framed(w) + Ux!Eip \in Ux!Word
          /\ Framed(w) + Ux!Eflags \in Ux!Word /\ Framed(w) + Ux!Esp \in Ux!Word
      BY <2>2, <3>0 DEF Ux!Regs, Ux!Eip, Ux!Eflags, Ux!Esp
    <3>2. /\ m[Framed(w) + Ux!Regs] = mem[Framed(w) + Ux!Regs]
          /\ m[Framed(w) + Ux!Eip] = mem[Framed(w) + Ux!Eip]
          /\ m[Framed(w) + Ux!Eflags] = mem[Framed(w) + Ux!Eflags]
      BY <3>1, WroteKeeps
    <3>3. m[Framed(w) + Ux!Esp] \in {mem[Framed(w) + Ux!Esp], Ux!Addr(w.esp), Ux!Addr(w.esp - 1)}
      <4>1. mem \in Stack
        BY DEF UxInv, UxTypes
      <4>2. CASE m = mem
        BY <4>2
      <4>3. CASE \E a, x : /\ mem' = [mem EXCEPT ![a] = x] /\ x \in Content /\ Ours(w, a)
                           /\ a = Framed(w) + Ux!Esp => x \in {Ux!Addr(w.esp), Ux!Addr(w.esp - 1)}
        BY <3>1, <4>1, <4>3 DEF Stack
      <4> QED
        BY <4>2, <4>3 DEF Wrote
    <3> QED
      BY <2>1, <3>0, <3>2, <3>3 DEF Intact, v
  <2> QED
    BY <1>1, <2>4, <2>5
<1>7. Ux!FramesIntact'
  <2>1. \A i \in 1..Len(saved)' : i < Len(saved)' \/ cpu'.eip \notin Leaving => Intact(saved'[i].cpu, mem')
    BY <1>6
  <2> QED
    BY <2>1 DEF Ux!FramesIntact, Intact, Leaving, Framed
<1>8. Ux!PanicOnlyAtBottom'
  BY DEF Ux!PanicOnlyAtBottom
<1> QED
  BY <1>3, <1>4, <1>5, <1>7, <1>8 DEF UxInv

LEMMA SameSteps ==
  ASSUME UxInv, UNCHANGED <<cpu, mem, saved>>,
         env' \in {"none", "ready", "destroyed", "panic"}, env' = "panic" => cpu.esp = UXBottom
  PROVE  UxInv'
<1>1. UxTypes'
  BY DEF UxInv, UxTypes
<1>2. Levels'
  BY DEF UxInv, Levels
<1>3. Undisturbed'
  BY DEF UxInv, Undisturbed
<1>4. Ux!FramesIntact'
  BY DEF UxInv, Ux!FramesIntact
<1>5. Ux!PanicOnlyAtBottom'
  BY DEF Ux!PanicOnlyAtBottom
<1> QED
  BY <1>1, <1>2, <1>3, <1>4, <1>5 DEF UxInv

\* A level that a later fault has interrupted, when all of that fault is gone.
LEMMA LevelKept ==
  ASSUME Ux!UxAssumption, NEW w, w.esp \in 1..UXTop, Ux!OnUx(Framed(w)),
         ~Ux!OnUx(w.esp) => w.esp \in 2..StackTop,
         NEW c, Nested(c), NEW m, NEW m2, Level(c, m, w),
         \A a \in Ux!Word : Ux!OnUx(a) /\ a >= c.esp => m2[a] = m[a]
  PROVE  Level(c, m2, w) /\ c.esp <= Framed(w) /\ c.esp \in Int
<1>1. /\ Framed(w) \in Int
      /\ \A f \in 0..5 : Ux!OnUx(Framed(w) + f) /\ Framed(w) + f \in Ux!Word
  BY FrameWords
<1>2. Framed(w) + 5 \in Ux!Word /\ Ux!OnUx(Framed(w) + 5)
  BY <1>1
<1>3. Framed(w) \in UXBottom..(UXTop-1) /\ UXBottom \in Nat /\ UXTop \in Nat /\ Push \in Nat
  BY <1>1, UxNumbers DEF Ux!OnUx
<1>4. c.esp \in UXBottom..(UXTop-1)
  BY DEF Nested, Ux!OnUx
<1>5. CASE c.eip = "handler"
  <2>1. PICK k \in 0..Push : /\ c.esp = Framed(w) - 2 - k /\ m[Framed(w) - 2] = Ux!Data("return")
                             /\ \A a \in c.esp..(Framed(w) - 3) : m[a] = Ux!Data("local")
    BY <1>5 DEF Level, Framed
  <2>2. c.esp <= Framed(w) - 2
    BY <1>3, <2>1
  <2>3. \A a \in c.esp..(Framed(w) + 5) : m2[a] = m[a]
    <3> SUFFICES ASSUME NEW a \in c.esp..(Framed(w) + 5) PROVE m2[a] = m[a]
      OBVIOUS
    <3>1. a \in UXBottom..(UXTop-1) /\ a >= c.esp
      BY <1>2, <1>3, <1>4 DEF Ux!OnUx
    <3> QED
      BY <3>1 DEF Ux!OnUx, Ux!Word
  <2>4. Framed(w) - 2 \in c.esp..(Framed(w) + 5) /\ Framed(w) + 5 \in c.esp..(Framed(w) + 5)
    BY <1>3, <1>4, <2>2
  <2>5. m2[Framed(w) - 2] = Ux!Data("return") /\ m2[Framed(w) + 5] = m[Framed(w) + 5]
    BY <2>1, <2>3, <2>4
  <2>6. \A a \in c.esp..(Framed(w) - 3) : m2[a] = Ux!Data("local")
    <3> SUFFICES ASSUME NEW a \in c.esp..(Framed(w) - 3) PROVE m2[a] = Ux!Data("local")
      OBVIOUS
    <3>1. a \in c.esp..(Framed(w) + 5)
      BY <1>3, <1>4
    <3> QED
      BY <2>1, <2>3, <3>1
  <2>7. Ux!OnUx(c.esp)
    BY DEF Nested
  <2>8. m[Framed(w) + 5] = Ux!Addr(w.esp)
    BY <1>5 DEF Level, Framed, Ux!Esp
  <2>9. Level(c, m2, w)
    BY <1>5, <2>1, <2>5, <2>6, <2>7, <2>8 DEF Level, Framed, Ux!Esp
  <2> QED
    BY <1>3, <1>4, <2>2, <2>9
<1>6. CASE c.eip = "movl_edx_ecx"
  <2>1. c.esp = Framed(w) /\ c.regs = Ux!Addr(w.esp - 1) /\ m[Framed(w) + 5] = Ux!Addr(w.esp - 1)
    BY <1>6 DEF Level, Framed, Ux!Esp
  <2>2. m2[Framed(w) + 5] = m[Framed(w) + 5]
    BY <1>2, <1>3, <2>1
  <2>3. Level(c, m2, w)
    BY <1>6, <2>1, <2>2 DEF Level, Framed, Ux!Esp
  <2> QED
    BY <1>3, <2>1, <2>3
<1> QED
  BY <1>5, <1>6 DEF Nested

\* The kernel finds no room for the frame.
LEMMA FaultDestroys ==
  ASSUME Ux!UxAssumption, UxInv, saved # <<>>, Nested(cpu), UNCHANGED <<cpu, saved>>,
         Ux!OnUx(cpu.esp - 1), mem' = [mem EXCEPT ![cpu.esp - 1] = Ux!Data("zero")],
         env' = "destroyed"
  PROVE  UxInv'
<1> DEFINE w == saved[Len(saved)].cpu
<1>1. /\ Len(saved) \in 1..Len(saved) /\ Level(cpu, mem, w)
      /\ w.esp \in 1..UXTop /\ Ux!OnUx(Framed(w)) /\ (~Ux!OnUx(w.esp) => w.esp \in 2..StackTop)
  BY TopFault, EachFault
<1>2. cpu \in Cpu /\ mem \in Stack
  BY DEF UxInv, UxTypes
<1> HIDE DEF w
<1>3. cpu.esp <= Framed(w) /\ cpu.esp \in Int
  BY <1>1, LevelKept
<1>4. /\ Framed(w) \in Int /\ (Ux!OnUx(w.esp) => Framed(w) = w.esp - 7)
  BY <1>1, FrameWords
<1>5. \A a \in Ux!Word : a # cpu.esp - 1 => mem'[a] = mem[a]
  BY <1>2 DEF Stack
<1>6. \A a \in Ux!Word : a >= cpu.esp => mem'[a] = mem[a]
  BY <1>3, <1>5
<1>7. Level(cpu, mem', w)
  <2> DEFINE m2 == mem'
  <2>1. \A a \in Ux!Word : Ux!OnUx(a) /\ a >= cpu.esp => m2[a] = mem[a]
    BY <1>6
  <2> HIDE DEF m2
  <2>2. Level(cpu, m2, w)
    BY <1>1, <2>1, LevelKept
  <2> QED
    BY <2>2 DEF m2
<1>8. Wrote(w)
  <2>1. Ours(w, cpu.esp - 1)
    <3>1. cpu.esp - 1 \in Ux!Word
      BY DEF Ux!Word, Ux!OnUx
    <3>2. IF Ux!OnUx(w.esp) THEN cpu.esp - 1 < w.esp ELSE TRUE
      BY <1>1, <1>3, <1>4
    <3>3. cpu.esp - 1 \notin {Framed(w) + 2, Framed(w) + 3, Framed(w) + 4}
      BY <1>3, <1>4
    <3> QED
      BY <3>1, <3>2, <3>3 DEF Ours, Ux!Regs, Ux!Eip, Ux!Eflags
  <2>2. cpu.esp - 1 # Framed(w) + Ux!Esp
    BY <1>3, <1>4 DEF Ux!Esp
  <2>3. Ux!Data("zero") \in Content
    BY Contents
  <2> QED
    BY <2>1, <2>2, <2>3 DEF Wrote
<1>9. cpu' = cpu
  OBVIOUS
<1> QED
  BY <1>2, <1>7, <1>8, <1>9, WroteSteps DEF w, Nested, Leaving

\* The kernel pushes a frame.
Pushed(u) ==
  /\ mem' \in Stack
  /\ \A a \in Ux!Word : a \notin u..(u + 6) => mem'[a] = mem[a]
  /\ mem'[u + Ux!Eip] = Ux!Code(cpu.eip) /\ mem'[u + Ux!Eflags] = cpu.flags
  /\ mem'[u + Ux!Regs] = cpu.regs /\ mem'[u + Ux!Esp] = Ux!Addr(cpu.esp)
  /\ cpu' = [cpu EXCEPT !.eip = "pushl_esp", !.esp = u]
  /\ saved' = Append(saved, [cpu |-> cpu, stack |-> mem])
  /\ env' = env /\ env = "ready"

May(c) == IF saved = <<>> THEN OnNormal(c) ELSE Nested(c)

LEMMA MayFault ==
  ASSUME Ux!UxAssumption, UxInv, May(cpu)
  PROVE  /\ cpu.esp \in 1..UXTop /\ (~Ux!OnUx(cpu.esp) => cpu.esp \in 2..StackTop)
         /\ Ux!OnUx(cpu.esp) <=> saved # <<>>
<1>1. /\ StackTop \in Nat /\ UXBottom \in Nat /\ UXTop \in Nat
      /\ StackTop + 1 < UXBottom /\ UXBottom < UXTop
  BY UxNumbers
<1>2. cpu.esp \in 1..UXTop
  BY DEF UxInv, UxTypes, Cpu
<1> QED
  BY <1>1, <1>2 DEF May, OnNormal, Nested, Ux!OnUx

LEMMA FaultPushes ==
  ASSUME Ux!UxAssumption, UxInv, May(cpu), NEW u, u = Framed(cpu), Ux!OnUx(u), Pushed(u)
  PROVE  UxInv'
<1> DEFINE n == Len(saved)
           m == mem'
           c == cpu'
           s == saved'
           rec == [cpu |-> cpu, stack |-> mem]
<1>0. /\ StackTop \in Nat /\ UXBottom \in Nat /\ UXTop \in Nat
      /\ StackTop + 1 < UXBottom /\ UXBottom < UXTop
  BY UxNumbers
<1>1. cpu \in Cpu /\ mem \in Stack /\ saved \in Seq([cpu : Cpu, stack : Stack]) /\ n \in Nat
  BY DEF UxInv, UxTypes
<1>2. rec \in [cpu : Cpu, stack : Stack]
  BY <1>1
<1>3. /\ s \in Seq([cpu : Cpu, stack : Stack]) /\ Len(s) = n + 1
      /\ \A i \in 1..n : s[i] = saved[i]
      /\ s[n + 1] = rec
  <2>1. s = Append(saved, rec)
    BY DEF Pushed
  <2> HIDE DEF s, rec
  <2> QED
    BY <1>1, <1>2, <2>1
<1>4. /\ cpu.esp \in 1..UXTop /\ (~Ux!OnUx(cpu.esp) => cpu.esp \in 2..StackTop)
      /\ Ux!OnUx(cpu.esp) <=> saved # <<>>
  BY MayFault
<1>5. /\ u \in Int /\ u >= UXBottom /\ u + 6 <= UXTop
      /\ Ux!OnUx(cpu.esp) => u = cpu.esp - 7
      /\ \A f \in 0..5 : Ux!OnUx(u + f) /\ u + f \in Ux!Word
  BY <1>4, FrameWords
<1>6. c \in Cpu /\ c.eip = "pushl_esp" /\ c.esp = u
  <2>1. c = [cpu EXCEPT !.eip = "pushl_esp", !.esp = u]
    BY DEF Pushed
  <2>2. u \in 1..UXTop
    BY <1>0, <1>5
  <2>3. c = [eip |-> "pushl_esp", esp |-> u, flags |-> cpu.flags, regs |-> cpu.regs]
    BY <1>1, <2>1 DEF Cpu
  <2> HIDE DEF c
  <2> QED
    BY <1>1, <2>2, <2>3 DEF Cpu, UxPlace
<1>7. UxTypes'
  <2>1. m \in Stack /\ env' \in {"none", "ready", "destroyed", "panic"}
    BY DEF Pushed
  <2> QED
    BY <1>3, <1>6, <2>1 DEF UxTypes
<1>8. rec.cpu = cpu /\ rec.stack = mem
  OBVIOUS
\* The faults before.
<1>9. ASSUME NEW i \in 1..n
      PROVE  /\ s[i] = saved[i] /\ saved[i].cpu.esp \in 1..UXTop
             /\ Framed(saved[i].cpu) \in Int /\ Ux!OnUx(Framed(saved[i].cpu))
             /\ Ux!OnUx(saved[i].cpu.esp) => Framed(saved[i].cpu) = saved[i].cpu.esp - 7
             /\ ~Ux!OnUx(saved[i].cpu.esp) => saved[i].cpu.esp \in 2..StackTop
             /\ \A f \in 0..5 : Ux!OnUx(Framed(saved[i].cpu) + f) /\ Framed(saved[i].cpu) + f \in Ux!Word
             /\ cpu.esp <= Framed(saved[i].cpu)
             /\ u = cpu.esp - 7
  <2> DEFINE v == saved[i].cpu
             w == saved[n].cpu
  <2>1. /\ s[i] = saved[i] /\ v.esp \in 1..UXTop /\ Ux!OnUx(Framed(v))
        /\ (~Ux!OnUx(v.esp) => v.esp \in 2..StackTop)
    BY <1>3, EachFault
  <2>2. saved # <<>> /\ n \in 1..n
    BY <1>1
  <2>3. /\ w.esp \in 1..UXTop /\ Ux!OnUx(Framed(w)) /\ (~Ux!OnUx(w.esp) => w.esp \in 2..StackTop)
        /\ (Ux!OnUx(w.esp) <=> n > 1)
    BY <2>2, EachFault
  <2>4. Level(cpu, mem, w) /\ Nested(cpu)
    BY <2>2, TopFault DEF May
  <2>5. i < n => w.esp <= Framed(v)
    BY <2>2 DEF UxInv, Levels
  <2> HIDE DEF w
  <2>6. cpu.esp <= Framed(w) /\ cpu.esp \in Int
    BY <2>3, <2>4, LevelKept
  <2>7. Framed(w) \in Int /\ (Ux!OnUx(w.esp) => Framed(w) = w.esp - 7)
    BY <2>3, FrameWords
  <2>8. i < n \/ (i = n /\ v = w)
    BY <1>1 DEF w
  <2> HIDE DEF v
  <2>9. /\ Framed(v) \in Int /\ (Ux!OnUx(v.esp) => Framed(v) = v.esp - 7)
        /\ \A f \in 0..5 : Ux!OnUx(Framed(v) + f) /\ Framed(v) + f \in Ux!Word
    BY <2>1, FrameWords
  <2>10. cpu.esp <= Framed(v)
    <3>1. CASE i < n
      <4>1. Ux!OnUx(w.esp)
        BY <1>1, <2>3, <3>1
      <4>2. Framed(w) < w.esp /\ w.esp <= Framed(v)
        BY <2>3, <2>5, <2>7, <3>1, <4>1
      <4> QED
        BY <2>3, <2>6, <2>7, <2>9, <4>2
    <3>2. CASE i = n /\ v = w
      BY <2>6, <3>2
    <3> QED
      BY <2>8, <3>1, <3>2
  <2>11. u = cpu.esp - 7
    BY <1>4, <1>5, <2>2
  <2> QED
    BY <2>1, <2>9, <2>10, <2>11 DEF v
<1> HIDE DEF rec, s, n, m, c
<1>10. Levels'
  <2>1. s # <<>>
    BY <1>1, <1>3
  <2>2. OnNormal(s[1].cpu)
    <3>1. CASE n = 0
      <4>1. saved = <<>>
        BY <1>1, <3>1 DEF n
      <4> QED
        BY <1>3, <1>8, <3>1, <4>1 DEF May
    <3>2. CASE n # 0
      <4>1. saved # <<>> /\ 1 \in 1..n
        BY <1>1, <3>2 DEF n
      <4> QED
        BY <1>3, <4>1 DEF UxInv, Levels
    <3> QED
      BY <3>1, <3>2
  <2>3. Level(c, m, s[n + 1].cpu)
    <3>1. m[u + Ux!Esp] = Ux!Addr(cpu.esp)
      BY DEF Pushed, m
    <3> QED
      BY <1>3, <1>6, <1>8, <3>1 DEF Level, Framed
  <2>4. ASSUME NEW i \in 1..(n + 1) PROVE Ux!OnUx(Framed(s[i].cpu))
    <3>1. CASE i = n + 1
      BY <1>3, <1>8, <3>1
    <3>2. CASE i # n + 1
      <4>1. i \in 1..n
        BY <1>1, <3>2
      <4> QED
        BY <1>9, <4>1
    <3> QED
      BY <3>1, <3>2
  <2>5. ASSUME NEW i \in 2..(n + 1) PROVE Nested(s[i].cpu) /\ Level(s[i].cpu, s[i].stack, s[i-1].cpu)
    <3>1. CASE i = n + 1
      <4>1. n \in 1..n /\ i - 1 = n /\ saved # <<>>
        BY <1>1, <3>1 DEF n
      <4>2. Level(cpu, mem, saved[n].cpu) /\ Nested(cpu)
        BY <4>1, TopFault DEF May, n
      <4>3. s[n] = saved[n]
        BY <1>9, <4>1
      <4> QED
        BY <1>3, <1>8, <3>1, <4>1, <4>2, <4>3
    <3>2. CASE i # n + 1
      <4>1. i \in 2..n /\ i \in 1..n /\ i - 1 \in 1..n
        BY <1>1, <3>2
      <4>2. Nested(saved[i].cpu) /\ Level(saved[i].cpu, saved[i].stack, saved[i-1].cpu)
        BY <4>1 DEF UxInv, Levels, n
      <4> QED
        BY <1>3, <4>1, <4>2
    <3> QED
      BY <3>1, <3>2
  <2>6. ASSUME NEW i \in 1..(n + 1), NEW j \in 1..(n + 1), i < j
        PROVE  s[j].cpu.esp <= Framed(s[i].cpu)
    <3>1. i \in 1..n
      BY <1>1, <2>6
    <3>2. CASE j = n + 1
      BY <1>3, <1>8, <1>9, <3>1, <3>2
    <3>3. CASE j # n + 1
      <4>1. j \in 1..n
        BY <1>1, <3>3
      <4>2. saved[j].cpu.esp <= Framed(saved[i].cpu)
        BY <2>6, <3>1, <4>1 DEF UxInv, Levels, n
      <4> QED
        BY <1>3, <3>1, <4>1, <4>2
    <3> QED
      BY <3>2, <3>3
  <2> QED
    BY <1>3, <2>1, <2>2, <2>3, <2>4, <2>5, <2>6 DEF Levels, s, c, m
<1>11. ASSUME NEW i \in 1..(n + 1), NEW a \in Ux!Word, a >= s[i].cpu.esp,
              a < UXBottom <=> s[i].cpu.esp <= StackTop
       PROVE  m[a] = s[i].stack[a]
  <2>0. a \in Int /\ (a < UXBottom => a < StackTop) /\ (a \notin u..(u + 6) => m[a] = mem[a])
    BY <1>0 DEF Ux!Word, Pushed, m
  <2>1. CASE i = n + 1
    <3>1. s[i].cpu.esp = cpu.esp /\ s[i].stack = mem
      BY <1>3, <1>8, <2>1
    <3>2. a \notin u..(u + 6)
      <4>1. CASE Ux!OnUx(cpu.esp)
        <5>1. u = cpu.esp - 7 /\ a >= cpu.esp
          BY <1>5, <1>11, <3>1, <4>1
        <5> QED
          BY <1>4, <2>0, <5>1
      <4>2. CASE ~Ux!OnUx(cpu.esp)
        <5>1. cpu.esp <= StackTop
          BY <1>4, <4>2
        <5>2. a < UXBottom
          BY <1>11, <3>1, <5>1
        <5> QED
          BY <1>0, <1>5, <2>0, <5>2
      <4> QED
        BY <4>1, <4>2
    <3> QED
      BY <2>0, <3>1, <3>2
  <2>2. CASE i # n + 1
    <3>1. i \in 1..n
      BY <1>1, <2>2
    <3>2. s[i] = saved[i]
      BY <1>3, <3>1
    <3>3. mem[a] = saved[i].stack[a]
      BY <1>11, <3>1, <3>2 DEF UxInv, Undisturbed, n
    <3>4. a \notin u..(u + 6)
      <4>1. CASE Ux!OnUx(saved[i].cpu.esp)
        <5>1. /\ Framed(saved[i].cpu) = saved[i].cpu.esp - 7 /\ saved[i].cpu.esp \in Int
              /\ cpu.esp <= Framed(saved[i].cpu) /\ u = cpu.esp - 7 /\ a >= saved[i].cpu.esp
          BY <1>9, <1>11, <3>1, <3>2, <4>1
        <5> QED
          BY <1>4, <2>0, <5>1
      <4>2. CASE ~Ux!OnUx(saved[i].cpu.esp)
        <5>1. saved[i].cpu.esp <= StackTop
          BY <1>9, <3>1, <4>2
        <5>2. a < UXBottom
          BY <1>11, <3>2, <5>1
        <5> QED
          BY <1>0, <1>5, <2>0, <5>2
      <4> QED
        BY <4>1, <4>2
    <3> QED
      BY <2>0, <3>2, <3>3, <3>4
  <2> QED
    BY <2>1, <2>2
<1>12. Undisturbed'
  BY <1>3, <1>11 DEF Undisturbed, s, m
<1>13. ASSUME NEW i \in 1..(n + 1) PROVE Intact(s[i].cpu, m)
  <2>1. CASE i = n + 1
    <3>1. Intact(cpu, m)
      BY DEF Pushed, Intact, m
    <3> QED
      BY <1>3, <1>8, <2>1, <3>1
  <2>2. CASE i # n + 1
    <3> DEFINE v == saved[i].cpu
    <3>1. i \in 1..n /\ saved # <<>>
      BY <1>1, <2>2 DEF n
    <3>2. Intact(v, mem)
      BY <3>1, IntactIs DEF UxInv, May, Nested, Leaving, n
    <3>3. /\ s[i] = saved[i] /\ Framed(v) \in Int /\ cpu.esp <= Framed(v) /\ u = cpu.esp - 7
          /\ \A f \in 0..5 : Framed(v) + f \in Ux!Word
      BY <1>9, <3>1
    <3> HIDE DEF v
    <3>4. ASSUME NEW f \in 0..5 PROVE m[Framed(v) + f] = mem[Framed(v) + f]
      <4>1. Framed(v) + f \notin u..(u + 6)
        <5>1. f \in Int /\ f >= 0 /\ cpu.esp \in Int
          BY <1>4
        <5> QED
          BY <3>3, <5>1
      <4> QED
        BY <3>3, <4>1 DEF Pushed, m
    <3>5. /\ m[Framed(v) + 2] = mem[Framed(v) + 2] /\ m[Framed(v) + 3] = mem[Framed(v) + 3]
          /\ m[Framed(v) + 4] = mem[Framed(v) + 4] /\ m[Framed(v) + 5] = mem[Framed(v) + 5]
      BY <3>4
    <3>6. Intact(v, m)
      BY <3>2, <3>5 DEF Intact, Ux!Regs, Ux!Eip, Ux!Eflags, Ux!Esp
    <3> QED
      BY <3>3, <3>6 DEF v
  <2> QED
    BY <2>1, <2>2
<1>14. Ux!FramesIntact'
  <2>1. \A i \in 1..Len(saved') : Intact(saved'[i].cpu, mem')
    BY <1>3, <1>13 DEF s, m
  <2> QED
    BY <2>1 DEF Ux!FramesIntact, Intact, Framed
<1>15. Ux!PanicOnlyAtBottom'
  BY DEF Pushed, Ux!PanicOnlyAtBottom
<1> QED
  BY <1>7, <1>10, <1>12, <1>14, <1>15 DEF UxInv

LEMMA FrameFields ==
  ASSUME NEW u \in Int
  PROVE  /\ DOMAIN Ux!Frame(u) = u..(u + 5)
         /\ Ux!Frame(u)[u] = Ux!Data("va") /\ Ux!Frame(u)[u + 1] = Ux!Data("err")
         /\ Ux!Frame(u)[u + 2] = cpu.regs /\ Ux!Frame(u)[u + 3] = Ux!Code(cpu.eip)
         /\ Ux!Frame(u)[u + 4] = cpu.flags /\ Ux!Frame(u)[u + 5] = Ux!Addr(cpu.esp)
BY DEF Ux!Frame, Ux!FrameSize, Ux!FaultVa, Ux!Err, Ux!Regs, Ux!Eip, Ux!Eflags, Ux!Esp

\* What page_fault_handler() does at an instruction that may fault.
LEMMA PageFaultSteps ==
  ASSUME Ux!UxAssumption, UxInv, May(cpu), env = "ready", Ux!PageFault
  PROVE  UxInv'
<1> DEFINE u == Ux!NewFrame(cpu.esp)
           frame == Ux!Frame(u)
           cleared == IF Ux!OnUx(cpu.esp) THEN [mem EXCEPT ![cpu.esp - 1] = Ux!Data("zero")] ELSE mem
<1>1. /\ StackTop \in Nat /\ UXBottom \in Nat /\ UXTop \in Nat
      /\ StackTop + 1 < UXBottom /\ UXBottom < UXTop
  BY UxNumbers
<1>2. /\ cpu.esp \in 1..UXTop /\ (~Ux!OnUx(cpu.esp) => cpu.esp \in 2..StackTop)
      /\ Ux!OnUx(cpu.esp) <=> saved # <<>>
  BY MayFault
<1>3. cpu \in Cpu /\ mem \in Stack
  BY DEF UxInv, UxTypes
<1>4. u = Framed(cpu)
  BY DEF Framed
<1>5. CASE /\ Ux!OnUx(cpu.esp) /\ ~Ux!OnUx(cpu.esp - 1)
           /\ env' = "panic" /\ UNCHANGED <<cpu, mem, saved>>
  <2>1. cpu.esp = UXBottom
    BY <1>1, <1>2, <1>5 DEF Ux!OnUx
  <2> QED
    BY <1>5, <2>1, SameSteps
<1>6. CASE /\ Ux!OnUx(cpu.esp) => Ux!OnUx(cpu.esp - 1)
           /\ ~Ux!OnUx(u) /\ env' = "destroyed"
           /\ mem' = cleared /\ UNCHANGED <<cpu, saved>>
  <2>1. CASE Ux!OnUx(cpu.esp)
    BY <1>2, <1>6, <2>1, FaultDestroys DEF May
  <2>2. CASE ~Ux!OnUx(cpu.esp)
    BY <1>6, <2>2, SameSteps
  <2> QED
    BY <2>1, <2>2
<1>7. CASE /\ Ux!OnUx(u)
           /\ mem' = [a \in Ux!Word |-> IF a \in DOMAIN frame THEN frame[a] ELSE cleared[a]]
           /\ cpu' = [cpu EXCEPT !.eip = "pushl_esp", !.esp = u]
           /\ saved' = Append(saved, [cpu |-> cpu, stack |-> mem])
           /\ UNCHANGED env
  <2>1. /\ u \in Int /\ (Ux!OnUx(cpu.esp) => u = cpu.esp - 7)
        /\ \A f \in 0..5 : Ux!OnUx(u + f) /\ u + f \in Ux!Word
    BY <1>2, <1>4, <1>7, FrameWords
  <2>2. /\ DOMAIN frame = u..(u + 5)
        /\ frame[u] = Ux!Data("va") /\ frame[u + 1] = Ux!Data("err")
        /\ frame[u + 2] = cpu.regs /\ frame[u + 3] = Ux!Code(cpu.eip)
        /\ frame[u + 4] = cpu.flags /\ frame[u + 5] = Ux!Addr(cpu.esp)
    BY <2>1, FrameFields
  <2>3. \A a \in u..(u + 5) : frame[a] \in Content
    <3>1. /\ Ux!Data("va") \in Content /\ Ux!Data("err") \in Content
          /\ Ux!Code(cpu.eip) \in Content /\ Ux!Addr(cpu.esp) \in Content
          /\ cpu.regs \in Content /\ cpu.flags \in Content
      BY <1>2, <1>3, Contents DEF Cpu
    <3>2. \A a \in u..(u + 5) : a = u \/ a = u + 1 \/ a = u + 2 \/ a = u + 3 \/ a = u + 4 \/ a = u + 5
      BY <2>1
    <3> QED
      BY <2>2, <3>1, <3>2
  <2>4. \A a \in Ux!Word : cleared[a] \in Content /\ (a # cpu.esp - 1 => cleared[a] = mem[a])
                           /\ (~Ux!OnUx(cpu.esp) => cleared[a] = mem[a])
    <3>1. Ux!Data("zero") \in Content
      BY Contents
    <3> QED
      BY <1>3, <3>1 DEF Stack
  <2> HIDE DEF u, frame, cleared
  <2>5. mem' \in Stack
    BY <1>7, <2>2, <2>3, <2>4 DEF Stack
  <2>6. \A a \in Ux!Word : a \notin u..(u + 6) => mem'[a] = mem[a]
    <3> SUFFICES ASSUME NEW a \in Ux!Word, a \notin u..(u + 6) PROVE mem'[a] = mem[a]
      OBVIOUS
    <3>1. a \notin u..(u + 5) /\ (Ux!OnUx(cpu.esp) => a # cpu.esp - 1)
      BY <1>2, <2>1
    <3> QED
      BY <1>7, <2>2, <2>4, <3>1
  <2>7. \A f \in 0..5 : mem'[u + f] = frame[u + f]
    BY <1>7, <2>1, <2>2
  <2>8. /\ mem'[u + 2] = cpu.regs /\ mem'[u + 3] = Ux!Code(cpu.eip)
        /\ mem'[u + 4] = cpu.flags /\ mem'[u + 5] = Ux!Addr(cpu.esp)
    BY <2>2, <2>7
  <2>9. Pushed(u)
    BY <1>7, <2>5, <2>6, <2>8 DEF Pushed, Ux!Regs, Ux!Eip, Ux!Eflags, Ux!Esp
  <2> QED
    BY <1>4, <1>7, <2>9, FaultPushes
<1> QED
  BY <1>5, <1>6, <1>7 DEF Ux!PageFault

-----------------------------------------------------------------------------
(* UxStack: one lemma for each action.                                      *)

\* Where the environment is.
LEMMA TopLevel ==
  ASSUME Ux!UxAssumption, UxInv, saved # <<>>, NEW w, w = saved[Len(saved)].cpu
  PROVE  /\ Level(cpu, mem, w) /\ cpu.eip # "program" /\ cpu \in Cpu /\ mem \in Stack
         /\ w \in Cpu /\ w.esp \in 1..UXTop
         /\ Framed(w) \in Int /\ Framed(w) >= UXBottom /\ Framed(w) + 6 <= UXTop
         /\ Ux!OnUx(w.esp) => Framed(w) = w.esp - 7
         /\ ~Ux!OnUx(w.esp) => w.esp \in 2..StackTop
         /\ \A f \in 0..5 : Ux!OnUx(Framed(w) + f) /\ Framed(w) + f \in Ux!Word
         /\ w.esp - 1 \in Ux!Word
         /\ cpu.eip \notin Leaving => Intact(w, mem)
<1>1. Len(saved) \in Nat /\ Len(saved) \in 1..Len(saved) /\ Level(cpu, mem, w)
  BY TopFault
<1>2. /\ w \in Cpu /\ w.esp \in 1..UXTop /\ Ux!OnUx(Framed(w))
      /\ ~Ux!OnUx(w.esp) => w.esp \in 2..StackTop
  BY <1>1, EachFault
<1>3. /\ Framed(w) \in Int /\ Framed(w) >= UXBottom /\ Framed(w) + 6 <= UXTop
      /\ Ux!OnUx(w.esp) => Framed(w) = w.esp - 7
      /\ \A f \in 0..5 : Ux!OnUx(Framed(w) + f) /\ Framed(w) + f \in Ux!Word
      /\ w.esp - 1 \in Ux!Word
  BY <1>2, FrameWords
<1>4. cpu \in Cpu /\ mem \in Stack
  BY DEF UxInv, UxTypes
<1>5. cpu.eip # "program"
  BY <1>1 DEF Level
<1>6. cpu.eip \notin Leaving => Intact(w, mem)
  BY <1>1, IntactIs DEF UxInv
<1> QED
  BY <1>1, <1>2, <1>3, <1>4, <1>5, <1>6

LEMMA AtProgram ==
  ASSUME Ux!UxAssumption, UxInv
  PROVE  /\ cpu.eip = "program" <=> saved = <<>>
         /\ saved = <<>> => OnNormal(cpu)
<1>1. saved = <<>> => OnNormal(cpu)
  BY DEF UxInv, Levels
<1>2. saved # <<>> => cpu.eip # "program"
  BY TopLevel
<1> QED
  BY <1>1, <1>2 DEF OnNormal

\* The upcall and the handler, one instruction at a time.
LEMMA UpcallSteps ==
  ASSUME Ux!UxAssumption, UxInv, saved # <<>>, saved' = saved, env = "ready", env' = env,
         NEW w, w = saved[Len(saved)].cpu,
         NEW c, c = cpu', c \in Cpu, NEW m, m = mem', Wrote(w), Level(c, m, w),
         cpu.eip \in Leaving => c.eip \in Leaving
  PROVE  UxInv'
BY WroteSteps

LEMMA Room ==
  ASSUME Ux!UxAssumption, UxInv, saved # <<>>, NEW w, w = saved[Len(saved)].cpu,
         Ux!OnUx(cpu.esp - 1), cpu.esp <= Framed(w), NEW x \in Content,
         mem' = [mem EXCEPT ![cpu.esp - 1] = x]
  PROVE  /\ Wrote(w) /\ cpu.esp \in Int /\ cpu.esp - 1 \in 1..UXTop
         /\ mem'[cpu.esp - 1] = x
         /\ \A a \in Ux!Word : a # cpu.esp - 1 => mem'[a] = mem[a]
<1>1. /\ Framed(w) \in Int /\ (Ux!OnUx(w.esp) => Framed(w) = w.esp - 7)
      /\ cpu \in Cpu /\ mem \in Stack /\ w.esp \in 1..UXTop
  BY TopLevel
<1>2. /\ StackTop \in Nat /\ UXBottom \in Nat /\ UXTop \in Nat
      /\ StackTop + 1 < UXBottom /\ UXBottom < UXTop
  BY UxNumbers
<1>3. cpu.esp \in Int /\ cpu.esp - 1 \in 1..UXTop /\ cpu.esp - 1 \in Ux!Word
  BY <1>1, <1>2 DEF Cpu, Ux!OnUx, Ux!Word
<1>4. Ours(w, cpu.esp - 1)
  <2>1. Ux!OnUx(w.esp) => cpu.esp - 1 < w.esp
    BY <1>1, <1>3
  <2>2. cpu.esp - 1 \notin {Framed(w) + 2, Framed(w) + 3, Framed(w) + 4}
    BY <1>1, <1>3
  <2> QED
    BY <1>3, <2>1, <2>2 DEF Ours, Ux!Regs, Ux!Eip, Ux!Eflags
<1>5. cpu.esp - 1 # Framed(w) + Ux!Esp
  BY <1>1, <1>3 DEF Ux!Esp
<1>6. Wrote(w)
  BY <1>4, <1>5 DEF Wrote
<1> QED
  BY <1>1, <1>3, <1>6 DEF Stack

LEMMA PushArgSteps ==
  ASSUME Ux!UxAssumption, UxInv, Ux!PushArg
  PROVE  UxInv'
<1> DEFINE w == saved[Len(saved)].cpu
           u == Framed(w)
<1>1. /\ env = "ready" /\ cpu.eip = "pushl_esp" /\ Ux!OnUx(cpu.esp - 1)
      /\ mem' = [mem EXCEPT ![cpu.esp - 1] = Ux!Addr(cpu.esp)]
      /\ cpu' = [cpu EXCEPT !.eip = "call", !.esp = @ - 1]
      /\ saved' = saved /\ env' = env
  BY DEF Ux!PushArg, Ux!At, Ux!Set
<1>2. saved # <<>>
  BY <1>1, AtProgram
<1>3. /\ Level(cpu, mem, w) /\ cpu \in Cpu /\ mem \in Stack /\ u \in Int
      /\ u + 5 \in Ux!Word
  BY <1>2, TopLevel
<1> HIDE DEF w
<1>4. cpu.esp = u /\ mem[u + 5] = Ux!Addr(w.esp)
  BY <1>1, <1>3 DEF Level, Framed, Ux!Esp
<1>5. Ux!Addr(cpu.esp) \in Content
  BY <1>3, <1>4, Contents
<1>6. /\ Wrote(w) /\ cpu.esp - 1 \in 1..UXTop
      /\ \A a \in Ux!Word : a # cpu.esp - 1 => mem'[a] = mem[a]
  <2>1. cpu.esp <= Framed(w)
    BY <1>3, <1>4
  <2> QED
    BY <1>1, <1>2, <1>5, <2>1, Room DEF w
<1>7. cpu' \in Cpu /\ cpu'.eip = "call" /\ cpu'.esp = u - 1
  BY <1>1, <1>3, <1>4, <1>6 DEF Cpu, UxPlace
<1>8. mem'[u + 5] = Ux!Addr(w.esp)
  BY <1>3, <1>4, <1>6
<1>9. ASSUME NEW c, c = cpu', NEW m, m = mem' PROVE Level(c, m, w)
  BY <1>1, <1>4, <1>7, <1>8, <1>9 DEF Level, Framed, Ux!Esp
<1>10. ASSUME NEW c, c = cpu', NEW m, m = mem' PROVE UxInv'
  <2>1. Level(c, m, w)
    BY <1>9, <1>10
  <2> QED
    BY <1>1, <1>2, <1>6, <1>7, <1>10, <2>1, UpcallSteps DEF w, Leaving
<1> QED
  BY <1>10

LEMMA CallHandlerSteps ==
  ASSUME Ux!UxAssumption, UxInv, Ux!CallHandler
  PROVE  UxInv'
<1> DEFINE w == saved[Len(saved)].cpu
           u == Framed(w)
<1>1. /\ env = "ready" /\ cpu.eip = "call" /\ Ux!OnUx(cpu.esp - 1)
      /\ mem' = [mem EXCEPT ![cpu.esp - 1] = Ux!Data("return")]
      /\ cpu' = [cpu EXCEPT !.eip = "handler", !.esp = @ - 1, !.regs = Ux!Data("scratch")]
      /\ saved' = saved /\ env' = env
  BY DEF Ux!CallHandler, Ux!At, Ux!Set
<1>2. saved # <<>>
  BY <1>1, AtProgram
<1>3. /\ Level(cpu, mem, w) /\ cpu \in Cpu /\ mem \in Stack /\ u \in Int
      /\ u + 5 \in Ux!Word
  BY <1>2, TopLevel
<1> HIDE DEF w
<1>4. cpu.esp = u - 1 /\ mem[u + 5] = Ux!Addr(w.esp)
  BY <1>1, <1>3 DEF Level, Framed, Ux!Esp
<1>5. Ux!Data("return") \in Content /\ Ux!Data("scratch") \in Content
  BY Contents
<1>6. /\ Wrote(w) /\ cpu.esp - 1 \in 1..UXTop /\ mem'[cpu.esp - 1] = Ux!Data("return")
      /\ \A a \in Ux!Word : a # cpu.esp - 1 => mem'[a] = mem[a]
  <2>1. cpu.esp <= Framed(w)
    BY <1>3, <1>4
  <2> QED
    BY <1>1, <1>2, <1>5, <2>1, Room DEF w
<1>7. cpu' \in Cpu /\ cpu'.eip = "handler" /\ cpu'.esp = u - 2
  <2>1. cpu' = [eip |-> "handler", esp |-> cpu.esp - 1, flags |-> cpu.flags, regs |-> Ux!Data("scratch")]
    BY <1>1, <1>3 DEF Cpu
  <2>2. cpu.flags \in Content /\ cpu.esp - 1 = u - 2
    BY <1>3, <1>4 DEF Cpu
  <2> QED
    BY <1>5, <1>6, <2>1, <2>2 DEF Cpu, UxPlace
<1>8. mem'[u + 5] = Ux!Addr(w.esp) /\ mem'[u - 2] = Ux!Data("return") /\ Ux!OnUx(u - 2)
  BY <1>1, <1>3, <1>4, <1>6
<1>9. ASSUME NEW c, c = cpu', NEW m, m = mem' PROVE Level(c, m, w)
  <2>1. \E k \in 0..Push : /\ c.esp = u - 2 - k /\ Ux!OnUx(c.esp)
                           /\ m[u - 2] = Ux!Data("return")
                           /\ \A a \in c.esp..(u - 3) : m[a] = Ux!Data("local")
    <3>1. 0 \in 0..Push /\ u - 2 - 0 = u - 2
      BY <1>3, UxNumbers
    <3>2. c.esp..(u - 3) = {}
      BY <1>3, <1>7, <1>9
    <3> QED
      BY <1>7, <1>8, <1>9, <3>1, <3>2
  <2> QED
    BY <1>7, <1>8, <1>9, <2>1 DEF Level, Framed, Ux!Esp
<1>10. ASSUME NEW c, c = cpu', NEW m, m = mem' PROVE UxInv'
  <2>1. Level(c, m, w)
    BY <1>9, <1>10
  <2> QED
    BY <1>1, <1>2, <1>6, <1>7, <1>10, <2>1, UpcallSteps DEF w, Leaving
<1> QED
  BY <1>10

\* The handler on its stack.
LEMMA InHandler ==
  ASSUME Ux!UxAssumption, UxInv, cpu.eip = "handler", NEW w, w = saved[Len(saved)].cpu
  PROVE  \E k \in 0..Push :
           /\ cpu.esp = Framed(w) - 2 - k /\ Ux!OnUx(cpu.esp)
           /\ mem[Framed(w) - 2] = Ux!Data("return")
           /\ \A a \in cpu.esp..(Framed(w) - 3) : mem[a] = Ux!Data("local")
           /\ mem[Framed(w) + 5] = Ux!Addr(w.esp)
<1>1. Level(cpu, mem, w)
  BY AtProgram, TopLevel
<1> QED
  BY <1>1 DEF Level, Framed, Ux!Esp

LEMMA HandlerPushesSteps ==
  ASSUME Ux!UxAssumption, UxInv, Ux!HandlerPushes
  PROVE  UxInv'
<1> DEFINE w == saved[Len(saved)].cpu
           u == Framed(w)
<1>1. /\ env = "ready" /\ cpu.eip = "handler" /\ Ux!OnUx(cpu.esp - 1)
      /\ \E n \in 0..(Push-1) : mem[cpu.esp + n] = Ux!Data("return")
      /\ mem' = [mem EXCEPT ![cpu.esp - 1] = Ux!Data("local")]
      /\ cpu' = [cpu EXCEPT !.esp = @ - 1]
      /\ saved' = saved /\ env' = env
  BY DEF Ux!HandlerPushes, Ux!At, Ux!Set
<1>2. saved # <<>>
  BY <1>1, AtProgram
<1>3. /\ Level(cpu, mem, w) /\ cpu \in Cpu /\ mem \in Stack /\ u \in Int
      /\ u + 5 \in Ux!Word /\ Push \in Nat
      /\ UXBottom \in Nat /\ UXTop \in Nat /\ u + 6 <= UXTop
  BY <1>2, TopLevel, UxNumbers
<1>4. PICK k \in 0..Push :
           /\ cpu.esp = u - 2 - k /\ Ux!OnUx(cpu.esp) /\ mem[u - 2] = Ux!Data("return")
           /\ \A a \in cpu.esp..(u - 3) : mem[a] = Ux!Data("local")
           /\ mem[u + 5] = Ux!Addr(w.esp)
  BY <1>1, InHandler
<1> HIDE DEF w
<1>5. Ux!Data("local") \in Content /\ Ux!Data("return") # Ux!Data("local")
  BY Contents
<1>6. k + 1 \in 0..Push
  <2>1. PICK n \in 0..(Push-1) : mem[cpu.esp + n] = Ux!Data("return")
    BY <1>1
  <2>2. cpu.esp + n \notin cpu.esp..(u - 3)
    BY <1>4, <1>5, <2>1
  <2> HIDE DEF u
  <2> QED
    BY <1>3, <1>4, <2>2
<1>7. cpu.esp <= u
  BY <1>3, <1>4
<1>8. /\ Wrote(w) /\ cpu.esp - 1 \in 1..UXTop /\ mem'[cpu.esp - 1] = Ux!Data("local")
      /\ \A a \in Ux!Word : a # cpu.esp - 1 => mem'[a] = mem[a]
  BY <1>1, <1>2, <1>5, <1>7, Room DEF w
<1>9. cpu' \in Cpu /\ cpu'.eip = "handler" /\ cpu'.esp = cpu.esp - 1
  BY <1>1, <1>3, <1>8 DEF Cpu, UxPlace
<1> DEFINE e == cpu.esp
<1>10. /\ mem'[u + 5] = Ux!Addr(w.esp) /\ mem'[u - 2] = Ux!Data("return")
       /\ e - 1 = u - 2 - (k + 1)
       /\ \A a \in (e - 1)..(u - 3) : mem'[a] = Ux!Data("local")
  <2>1. e - 1 = u - 2 - (k + 1)
    BY <1>3, <1>4
  <2>2. e \in Int /\ e = u - 2 - k /\ e >= UXBottom
    BY <1>3, <1>4 DEF Ux!OnUx
  <2> HIDE DEF e, u
  <2>3. u + 5 # e - 1 /\ u - 2 # e - 1 /\ Ux!OnUx(u - 2)
    BY <1>3, <2>2 DEF Ux!OnUx
  <2>4. mem'[u + 5] = Ux!Addr(w.esp) /\ mem'[u - 2] = Ux!Data("return")
    BY <1>3, <1>4, <1>8, <2>3 DEF Ux!OnUx, Ux!Word, e
  <2>5. ASSUME NEW a \in (e - 1)..(u - 3) PROVE mem'[a] = Ux!Data("local")
    <3>1. CASE a = e - 1
      BY <1>8, <3>1 DEF e
    <3>2. CASE a # e - 1
      <4>1. a \in e..(u - 3) /\ Ux!OnUx(a)
        BY <1>3, <2>2, <3>2 DEF Ux!OnUx
      <4> QED
        BY <1>4, <1>8, <3>2, <4>1 DEF Ux!OnUx, Ux!Word, e
    <3> QED
      BY <3>1, <3>2
  <2> QED
    BY <2>1, <2>4, <2>5
<1>11. ASSUME NEW c, c = cpu', NEW m, m = mem' PROVE Level(c, m, w)
  <2>1. \E j \in 0..Push : /\ c.esp = u - 2 - j /\ Ux!OnUx(c.esp)
                           /\ m[u - 2] = Ux!Data("return")
                           /\ \A a \in c.esp..(u - 3) : m[a] = Ux!Data("local")
    BY <1>1, <1>6, <1>9, <1>10, <1>11
  <2> QED
    BY <1>9, <1>10, <1>11, <2>1 DEF Level, Framed, Ux!Esp
<1>12. ASSUME NEW c, c = cpu', NEW m, m = mem' PROVE UxInv'
  <2>1. Level(c, m, w)
    BY <1>11, <1>12
  <2> QED
    BY <1>1, <1>2, <1>8, <1>9, <1>12, <2>1, UpcallSteps DEF w, Leaving
<1> QED
  BY <1>12

LEMMA HandlerReturnsSteps ==
  ASSUME Ux!UxAssumption, UxInv, Ux!HandlerReturns
  PROVE  UxInv'
<1> DEFINE w == saved[Len(saved)].cpu
           u == Framed(w)
           e == cpu.esp
<1>1. /\ env = "ready" /\ cpu.eip = "handler" /\ mem' = mem /\ saved' = saved /\ env' = env
      /\ \E n \in 0..Push :
           /\ mem[e + n] = Ux!Data("return")
           /\ \A i \in 0..(n-1) : mem[e + i] = Ux!Data("local")
           /\ cpu' = [cpu EXCEPT !.eip = "movl_esp_ecx", !.esp = @ + n + 2]
  BY DEF Ux!HandlerReturns, Ux!At
<1>2. saved # <<>>
  BY <1>1, AtProgram
<1>3. cpu \in Cpu /\ u \in Int /\ Push \in Nat /\ u \in 1..UXTop
  <2>1. cpu \in Cpu /\ u \in Int /\ u >= UXBottom /\ u + 6 <= UXTop
    BY <1>2, TopLevel
  <2> HIDE DEF u
  <2> QED
    BY <2>1, UxNumbers
<1>4. PICK k \in 0..Push :
           /\ e = u - 2 - k /\ mem[u - 2] = Ux!Data("return")
           /\ \A a \in e..(u - 3) : mem[a] = Ux!Data("local")
           /\ mem[u + 5] = Ux!Addr(w.esp)
  BY <1>1, InHandler
<1>5. PICK n \in 0..Push :
           /\ mem[e + n] = Ux!Data("return")
           /\ \A i \in 0..(n-1) : mem[e + i] = Ux!Data("local")
           /\ cpu' = [cpu EXCEPT !.eip = "movl_esp_ecx", !.esp = e + n + 2]
  BY <1>1
<1>6. Ux!Data("return") # Ux!Data("local")
  BY Contents
<1>7. n = k
  <2>0. e \in Int
    BY <1>3, <1>4
  <2> HIDE DEF e, u, w
  <2>1. ~(n < k)
    <3>1. n < k => e + n \in e..(u - 3)
      BY <1>3, <1>4, <2>0
    <3> QED
      BY <1>4, <1>5, <1>6, <3>1
  <2>2. ~(k < n)
    <3>1. k < n => k \in 0..(n-1) /\ e + k = u - 2
      BY <1>3, <1>4, <2>0
    <3> QED
      BY <1>4, <1>5, <1>6, <3>1
  <2> QED
    BY <1>3, <2>1, <2>2
<1>8. cpu' \in Cpu /\ cpu'.eip = "movl_esp_ecx" /\ cpu'.esp = u
  <2>1. e + n + 2 = u
    BY <1>3, <1>4, <1>7
  <2> HIDE DEF u
  <2> QED
    BY <1>3, <1>5, <2>1 DEF Cpu, UxPlace
<1> HIDE DEF w, e
<1>9. ASSUME NEW c, c = cpu', NEW m, m = mem' PROVE Level(c, m, w)
  BY <1>1, <1>4, <1>8, <1>9 DEF Level, Framed, Ux!Esp
<1>10. ASSUME NEW c, c = cpu', NEW m, m = mem' PROVE UxInv'
  <2>1. Level(c, m, w) /\ Wrote(w)
    BY <1>1, <1>9, <1>10 DEF Wrote
  <2> QED
    BY <1>1, <1>2, <1>8, <1>10, <2>1, UpcallSteps DEF w, Leaving
<1> QED
  BY <1>10

LEMMA LoadEspSteps ==
  ASSUME Ux!UxAssumption, UxInv, Ux!LoadEsp
  PROVE  UxInv'
<1> DEFINE w == saved[Len(saved)].cpu
           u == Framed(w)
<1>1. /\ env = "ready" /\ cpu.eip = "movl_esp_ecx" /\ mem' = mem /\ saved' = saved /\ env' = env
      /\ cpu' = [cpu EXCEPT !.eip = "movl_ecx_esp", !.regs = Ux!Addr(mem[cpu.esp + 5][2] - 1),
                            !.flags = Ux!Data("scratch")]
  BY DEF Ux!LoadEsp, Ux!At, Ux!Field, Ux!Esp
<1>2. saved # <<>>
  BY <1>1, AtProgram
<1>3. cpu \in Cpu /\ u \in Int /\ w.esp \in 1..UXTop /\ Level(cpu, mem, w)
  BY <1>2, TopLevel
<1> HIDE DEF w
<1>4. cpu.esp = u /\ mem[u + 5] = Ux!Addr(w.esp)
  BY <1>1, <1>3 DEF Level, Framed, Ux!Esp
<1>5. Ux!Addr(w.esp)[2] = w.esp /\ Ux!Addr(w.esp - 1) \in Content /\ Ux!Data("scratch") \in Content
  BY <1>3, Contents
<1>6. cpu' = [eip |-> "movl_ecx_esp", esp |-> u, flags |-> Ux!Data("scratch"),
              regs |-> Ux!Addr(w.esp - 1)]
  BY <1>1, <1>3, <1>4, <1>5 DEF Cpu
<1>7. cpu' \in Cpu
  BY <1>3, <1>4, <1>5, <1>6 DEF Cpu, UxPlace
<1>8. ASSUME NEW c, c = cpu', NEW m, m = mem' PROVE Level(c, m, w)
  BY <1>1, <1>4, <1>6, <1>8 DEF Level, Framed, Ux!Esp
<1>9. ASSUME NEW c, c = cpu', NEW m, m = mem' PROVE UxInv'
  <2>1. Level(c, m, w) /\ Wrote(w)
    BY <1>1, <1>8, <1>9 DEF Wrote
  <2> QED
    BY <1>1, <1>2, <1>7, <1>9, <2>1, UpcallSteps DEF w, Leaving
<1> QED
  BY <1>9

LEMMA StoreEspSteps ==
  ASSUME Ux!UxAssumption, UxInv, Ux!StoreEsp
  PROVE  UxInv'
<1> DEFINE w == saved[Len(saved)].cpu
           u == Framed(w)
<1>1. /\ env = "ready" /\ cpu.eip = "movl_ecx_esp" /\ saved' = saved /\ env' = env
      /\ mem' = [mem EXCEPT ![cpu.esp + 5] = cpu.regs]
      /\ cpu' = [cpu EXCEPT !.eip = "movl_edx_ecx"]
  BY DEF Ux!StoreEsp, Ux!At, Ux!Set, Ux!Esp
<1>2. saved # <<>>
  BY <1>1, AtProgram
<1>3. /\ cpu \in Cpu /\ mem \in Stack /\ u \in Int /\ w.esp \in 1..UXTop /\ Level(cpu, mem, w)
      /\ (Ux!OnUx(w.esp) => u = w.esp - 7)
      /\ u + 5 \in Ux!Word /\ Ux!OnUx(u + 5)
  BY <1>2, TopLevel
<1> HIDE DEF w
<1>4. cpu.esp = u /\ cpu.regs = Ux!Addr(w.esp - 1)
  BY <1>1, <1>3 DEF Level, Framed
<1>5. cpu' = [eip |-> "movl_edx_ecx", esp |-> u, flags |-> cpu.flags, regs |-> Ux!Addr(w.esp - 1)]
  BY <1>1, <1>3, <1>4 DEF Cpu
<1>6. cpu' \in Cpu
  BY <1>3, <1>4, <1>5 DEF Cpu, UxPlace
<1>7. mem'[u + 5] = Ux!Addr(w.esp - 1)
  BY <1>1, <1>3, <1>4 DEF Stack
<1>8. Wrote(w)
  <2>1. Ours(w, u + 5)
    <3>1. Ux!OnUx(w.esp) => u + 5 < w.esp
      BY <1>3
    <3>2. u + 5 \notin {u + 2, u + 3, u + 4}
      BY <1>3
    <3> QED
      BY <1>3, <3>1, <3>2 DEF Ours, Ux!Regs, Ux!Eip, Ux!Eflags
  <2>2. Ux!Addr(w.esp - 1) \in Content
    BY <1>3, Contents
  <2> QED
    BY <1>1, <1>4, <2>1, <2>2 DEF Wrote
<1>9. ASSUME NEW c, c = cpu', NEW m, m = mem' PROVE Level(c, m, w)
  BY <1>5, <1>7, <1>9 DEF Level, Framed, Ux!Esp
<1>10. ASSUME NEW c, c = cpu', NEW m, m = mem' PROVE UxInv'
  <2>1. Level(c, m, w)
    BY <1>9, <1>10
  <2> QED
    BY <1>1, <1>2, <1>6, <1>8, <1>10, <2>1, UpcallSteps DEF w, Leaving
<1> QED
  BY <1>10

LEMMA PushEipSteps ==
  ASSUME Ux!UxAssumption, UxInv, Ux!PushEip
  PROVE  UxInv'
<1> DEFINE w == saved[Len(saved)].cpu
           u == Framed(w)
<1>1. /\ env = "ready" /\ cpu.eip = "movl_edx_ecx" /\ saved' = saved /\ env' = env
      /\ mem' = [mem EXCEPT ![cpu.regs[2]] = mem[cpu.esp + 3]]
      /\ cpu' = [cpu EXCEPT !.eip = "popal"]
  BY DEF Ux!PushEip, Ux!At, Ux!Set, Ux!Field, Ux!Eip
<1>2. saved # <<>>
  BY <1>1, AtProgram
<1>3. /\ cpu \in Cpu /\ mem \in Stack /\ u \in Int /\ w.esp \in 1..UXTop /\ Level(cpu, mem, w)
      /\ (Ux!OnUx(w.esp) => u = w.esp - 7) /\ (~Ux!OnUx(w.esp) => w.esp \in 2..StackTop)
      /\ w.esp - 1 \in Ux!Word /\ w \in Cpu /\ u >= UXBottom /\ u + 6 <= UXTop
      /\ u + 5 \in Ux!Word
  <2>1. /\ cpu \in Cpu /\ mem \in Stack /\ Level(cpu, mem, w) /\ w.esp - 1 \in Ux!Word /\ w \in Cpu
        /\ \A f \in 0..5 : u + f \in Ux!Word
    BY <1>2, TopLevel
  <2>2. /\ u \in Int /\ w.esp \in 1..UXTop /\ u >= UXBottom /\ u + 6 <= UXTop
        /\ (Ux!OnUx(w.esp) => u = w.esp - 7) /\ (~Ux!OnUx(w.esp) => w.esp \in 2..StackTop)
    BY <1>2, TopLevel
  <2> QED
    BY <2>1, <2>2
<1>4. Intact(w, mem)
  BY <1>1, <1>2, TopLevel DEF Leaving
<1>5. /\ StackTop \in Nat /\ UXBottom \in Nat /\ UXTop \in Nat
      /\ StackTop + 1 < UXBottom /\ UXBottom < UXTop
  BY UxNumbers
<1> HIDE DEF w
<1>6. /\ cpu.esp = u /\ cpu.regs = Ux!Addr(w.esp - 1) /\ mem[u + 5] = Ux!Addr(w.esp - 1)
      /\ mem[u + 3] = Ux!Code(w.eip)
  BY <1>1, <1>3, <1>4 DEF Level, Framed, Intact, Ux!Esp, Ux!Eip
<1>7. Ux!Addr(w.esp - 1)[2] = w.esp - 1 /\ Ux!Code(w.eip) \in Content
  BY <1>3, Contents DEF Cpu
<1>8. cpu' \in Cpu /\ cpu'.eip = "popal" /\ cpu'.esp = u
  BY <1>1, <1>3, <1>6 DEF Cpu, UxPlace
<1>9. mem' = [mem EXCEPT ![w.esp - 1] = Ux!Code(w.eip)]
  BY <1>1, <1>6, <1>7
<1>10. w.esp - 1 \notin {u + 2, u + 3, u + 4, u + 5} /\ (Ux!OnUx(w.esp) => Ux!OnUx(w.esp - 1))
  BY <1>3, <1>5 DEF Ux!OnUx
<1>11. mem'[u + 5] = Ux!Addr(w.esp - 1) /\ mem'[w.esp - 1] = Ux!Code(w.eip)
  BY <1>3, <1>6, <1>9, <1>10 DEF Stack
<1>12. Wrote(w)
  <2>1. Ours(w, w.esp - 1)
    <3>1. w.esp - 1 < w.esp
      BY <1>3
    <3> QED
      BY <1>3, <1>10, <3>1 DEF Ours, Ux!Regs, Ux!Eip, Ux!Eflags
  <2>2. w.esp - 1 # Framed(w) + Ux!Esp
    BY <1>10 DEF Ux!Esp
  <2> QED
    BY <1>7, <1>9, <2>1, <2>2 DEF Wrote
<1>13. ASSUME NEW c, c = cpu', NEW m, m = mem' PROVE Level(c, m, w)
  BY <1>8, <1>11, <1>13 DEF Level, Framed, Ux!Esp
<1>14. ASSUME NEW c, c = cpu', NEW m, m = mem' PROVE UxInv'
  <2>1. Level(c, m, w)
    BY <1>13, <1>14
  <2> QED
    BY <1>1, <1>2, <1>8, <1>12, <1>14, <2>1, UpcallSteps DEF w, Leaving
<1> QED
  BY <1>14

LEMMA PopRegsSteps ==
  ASSUME Ux!UxAssumption, UxInv, Ux!PopRegs
  PROVE  UxInv'
<1> DEFINE w == saved[Len(saved)].cpu
           u == Framed(w)
<1>1. /\ env = "ready" /\ cpu.eip = "popal" /\ saved' = saved /\ env' = env /\ mem' = mem
      /\ cpu' = [cpu EXCEPT !.eip = "popfl", !.regs = mem[cpu.esp + 2], !.esp = @ + 3]
  BY DEF Ux!PopRegs, Ux!At, Ux!Field, Ux!Eip, Ux!Regs
<1>2. saved # <<>>
  BY <1>1, AtProgram
<1>3. /\ cpu \in Cpu /\ u \in Int /\ Level(cpu, mem, w) /\ w \in Cpu
      /\ u >= UXBottom /\ u + 6 <= UXTop /\ UXBottom \in Nat /\ UXTop \in Nat
  BY <1>2, TopLevel, UxNumbers
<1>4. Intact(w, mem)
  BY <1>1, <1>2, TopLevel DEF Leaving
<1> HIDE DEF w
<1>5. /\ cpu.esp = u /\ mem[u + 5] = Ux!Addr(w.esp - 1) /\ mem[w.esp - 1] = Ux!Code(w.eip)
      /\ mem[u + 2] = w.regs /\ mem[u + 4] = w.flags
  BY <1>1, <1>3, <1>4 DEF Level, Framed, Intact, Ux!Esp, Ux!Regs, Ux!Eflags
<1>6. cpu' = [eip |-> "popfl", esp |-> u + 3, flags |-> cpu.flags, regs |-> w.regs]
  BY <1>1, <1>3, <1>5 DEF Cpu
<1>7. cpu' \in Cpu
  <2>1. u + 3 \in 1..UXTop
    BY <1>3
  <2> QED
    BY <1>3, <1>6, <2>1 DEF Cpu, UxPlace
<1>8. ASSUME NEW c, c = cpu', NEW m, m = mem' PROVE Level(c, m, w)
  BY <1>1, <1>5, <1>6, <1>8 DEF Level, Framed, Ux!Esp, Ux!Eip, Ux!Eflags
<1>9. ASSUME NEW c, c = cpu', NEW m, m = mem' PROVE UxInv'
  <2>1. Level(c, m, w) /\ Wrote(w)
    BY <1>1, <1>8, <1>9 DEF Wrote
  <2> QED
    BY <1>1, <1>2, <1>7, <1>9, <2>1, UpcallSteps DEF w, Leaving
<1> QED
  BY <1>9

LEMMA PopFlagsSteps ==
  ASSUME Ux!UxAssumption, UxInv, Ux!PopFlags
  PROVE  UxInv'
<1> DEFINE w == saved[Len(saved)].cpu
           u == Framed(w)
<1>1. /\ env = "ready" /\ cpu.eip = "popfl" /\ saved' = saved /\ env' = env /\ mem' = mem
      /\ cpu' = [cpu EXCEPT !.eip = "pop_esp", !.flags = mem[cpu.esp + 1], !.esp = @ + 2]
  BY DEF Ux!PopFlags, Ux!At
<1>2. saved # <<>>
  BY <1>1, AtProgram
<1>3. /\ cpu \in Cpu /\ u \in Int /\ Level(cpu, mem, w) /\ w \in Cpu
      /\ u >= UXBottom /\ u + 6 <= UXTop /\ UXBottom \in Nat /\ UXTop \in Nat
  BY <1>2, TopLevel, UxNumbers
<1> HIDE DEF w
<1>4. /\ cpu.esp = u + 3 /\ mem[u + 5] = Ux!Addr(w.esp - 1) /\ mem[w.esp - 1] = Ux!Code(w.eip)
      /\ mem[u + 4] = w.flags /\ cpu.regs = w.regs
  BY <1>1, <1>3 DEF Level, Framed, Ux!Esp, Ux!Eip, Ux!Eflags
<1>5. cpu' = [eip |-> "pop_esp", esp |-> u + 5, flags |-> w.flags, regs |-> w.regs]
  <2>1. cpu.esp + 1 = u + 4 /\ cpu.esp + 2 = u + 5
    BY <1>3, <1>4
  <2> HIDE DEF u
  <2> QED
    BY <1>1, <1>3, <1>4, <2>1 DEF Cpu
<1>6. cpu' \in Cpu
  <2>1. u + 5 \in 1..UXTop
    BY <1>3
  <2> QED
    BY <1>3, <1>5, <2>1 DEF Cpu, UxPlace
<1>7. ASSUME NEW c, c = cpu', NEW m, m = mem' PROVE Level(c, m, w)
  BY <1>1, <1>4, <1>5, <1>7 DEF Level, Framed, Ux!Esp
<1>8. ASSUME NEW c, c = cpu', NEW m, m = mem' PROVE UxInv'
  <2>1. Level(c, m, w) /\ Wrote(w)
    BY <1>1, <1>7, <1>8 DEF Wrote
  <2>2. c.eip \in Leaving
    BY <1>5, <1>8 DEF Leaving
  <2> QED
    BY <1>1, <1>2, <1>6, <1>8, <2>1, <2>2, UpcallSteps DEF w
<1> QED
  BY <1>8

LEMMA PopEspSteps ==
  ASSUME Ux!UxAssumption, UxInv, Ux!PopEsp
  PROVE  UxInv'
<1> DEFINE w == saved[Len(saved)].cpu
           u == Framed(w)
<1>1. /\ env = "ready" /\ cpu.eip = "pop_esp" /\ saved' = saved /\ env' = env /\ mem' = mem
      /\ cpu' = [cpu EXCEPT !.eip = "ret", !.esp = mem[cpu.esp][2]]
  BY DEF Ux!PopEsp, Ux!At
<1>2. saved # <<>>
  BY <1>1, AtProgram
<1>3. /\ cpu \in Cpu /\ Level(cpu, mem, w) /\ w \in Cpu /\ w.esp \in 1..UXTop
      /\ w.esp - 1 \in Ux!Word
      /\ StackTop \in Nat /\ UXBottom \in Nat /\ UXTop \in Nat /\ StackTop + 1 < UXBottom
      /\ UXBottom < UXTop
  BY <1>2, TopLevel, UxNumbers
<1> HIDE DEF w
<1>4. /\ cpu.esp = u + 5 /\ mem[u + 5] = Ux!Addr(w.esp - 1) /\ mem[w.esp - 1] = Ux!Code(w.eip)
      /\ cpu.flags = w.flags /\ cpu.regs = w.regs
  BY <1>1, <1>3 DEF Level, Framed, Ux!Esp
<1>5. Ux!Addr(w.esp - 1)[2] = w.esp - 1 /\ w.esp - 1 \in 1..UXTop
  BY <1>3, Contents DEF Ux!Word
<1>6. cpu' = [eip |-> "ret", esp |-> w.esp - 1, flags |-> w.flags, regs |-> w.regs]
  BY <1>1, <1>3, <1>4, <1>5 DEF Cpu
<1>7. cpu' \in Cpu
  BY <1>3, <1>5, <1>6 DEF Cpu, UxPlace
<1>8. ASSUME NEW c, c = cpu', NEW m, m = mem' PROVE Level(c, m, w)
  BY <1>1, <1>4, <1>6, <1>8 DEF Level
<1>9. ASSUME NEW c, c = cpu', NEW m, m = mem' PROVE UxInv'
  <2>1. Level(c, m, w) /\ Wrote(w)
    BY <1>1, <1>8, <1>9 DEF Wrote
  <2>2. c.eip \in Leaving
    BY <1>6, <1>9 DEF Leaving
  <2> QED
    BY <1>1, <1>2, <1>7, <1>9, <2>1, <2>2, UpcallSteps DEF w
<1> QED
  BY <1>9

\* The way back ends where the fault was.
LEMMA RetResumes ==
  ASSUME Ux!UxAssumption, UxInv, Ux!Ret
  PROVE  /\ saved # <<>> /\ cpu' = saved[Len(saved)].cpu /\ mem' = mem
         /\ saved' = SubSeq(saved, 1, Len(saved) - 1) /\ env = "ready" /\ env' = env
<1> DEFINE w == saved[Len(saved)].cpu
<1>1. /\ env = "ready" /\ cpu.eip = "ret" /\ env' = env /\ mem' = mem
      /\ cpu' = [cpu EXCEPT !.eip = mem[cpu.esp][2], !.esp = @ + 1]
      /\ saved' = SubSeq(saved, 1, Len(saved) - 1)
  BY DEF Ux!Ret, Ux!At
<1>2. saved # <<>>
  BY <1>1, AtProgram
<1>3. cpu \in Cpu /\ Level(cpu, mem, w) /\ w \in Cpu /\ w.esp \in 1..UXTop
  BY <1>2, TopLevel
<1> HIDE DEF w
<1>4. /\ cpu.esp = w.esp - 1 /\ mem[w.esp - 1] = Ux!Code(w.eip)
      /\ cpu.flags = w.flags /\ cpu.regs = w.regs
  BY <1>1, <1>3 DEF Level
<1>5. Ux!Code(w.eip)[2] = w.eip /\ w.esp - 1 + 1 = w.esp
  BY <1>3, Contents DEF Cpu
<1>6. cpu' = [eip |-> w.eip, esp |-> w.esp, flags |-> w.flags, regs |-> w.regs]
  BY <1>1, <1>3, <1>4, <1>5 DEF Cpu
<1>7. w = [eip |-> w.eip, esp |-> w.esp, flags |-> w.flags, regs |-> w.regs]
  BY <1>3 DEF Cpu
<1>8. cpu' = w
  BY <1>6, <1>7
<1> QED
  BY <1>1, <1>2, <1>8 DEF w

LEMMA RetSteps ==
  ASSUME Ux!UxAssumption, UxInv, Ux!Ret
  PROVE  UxInv'
<1> DEFINE n == Len(saved)
           c == saved[n].cpu
           s == saved'
<1>1. /\ saved # <<>> /\ cpu' = c /\ mem' = mem /\ s = SubSeq(saved, 1, n - 1)
      /\ env = "ready" /\ env' = env
  BY RetResumes
<1>2. saved \in Seq([cpu : Cpu, stack : Stack]) /\ mem \in Stack /\ n \in Nat /\ n \in 1..n
  BY <1>1, TopFault DEF UxInv, UxTypes
<1>3. /\ s \in Seq([cpu : Cpu, stack : Stack]) /\ Len(s) = n - 1
      /\ \A i \in 1..(n - 1) : s[i] = saved[i] /\ i \in 1..n
  <2> HIDE DEF s, n
  <2>1. n = Len(saved)
    BY DEF n
  <2>2. Len(s) = n - 1 /\ \A i \in 1..(n - 1) : s[i] = saved[i] /\ i \in 1..n
    BY <1>1, <1>2, <2>1
  <2>3. \A i \in 1..(n - 1) : s[i] \in [cpu : Cpu, stack : Stack]
    BY <1>2, <2>1, <2>2, ElementOfSeq
  <2>4. s = [i \in 1..(n - 1) |-> saved[i]]
    BY <1>1, <1>2
  <2> QED
    BY <1>2, <2>2, <2>3, <2>4
<1>4. /\ c \in Cpu /\ c.esp \in 1..UXTop /\ (Ux!OnUx(c.esp) <=> n > 1)
      /\ (n = 1 => OnNormal(c))
      /\ (n > 1 => Nested(c) /\ Level(c, saved[n].stack, saved[n-1].cpu))
  BY <1>2, EachFault
<1>5. UxTypes'
  BY <1>1, <1>2, <1>3, <1>4 DEF UxInv, UxTypes
<1>6. n > 1 => Level(c, mem, saved[n-1].cpu)
  <2> SUFFICES ASSUME n > 1 PROVE Level(c, mem, saved[n-1].cpu)
    OBVIOUS
  <2> DEFINE v == saved[n-1].cpu
             m == saved[n].stack
  <2>1. n - 1 \in 1..n
    BY <1>2
  <2>2. /\ v.esp \in 1..UXTop /\ Ux!OnUx(Framed(v)) /\ (~Ux!OnUx(v.esp) => v.esp \in 2..StackTop)
    BY <2>1, EachFault
  <2>3. Nested(c) /\ Level(c, m, v)
    BY <1>4
  <2>4. ASSUME NEW a \in Ux!Word, Ux!OnUx(a), a >= c.esp PROVE mem[a] = m[a]
    <3>1. ~(a < UXBottom) /\ ~(c.esp <= StackTop)
      BY <1>4, <2>4, UxNumbers DEF Ux!OnUx
    <3> QED
      BY <1>2, <2>4, <3>1 DEF UxInv, Undisturbed
  <2> HIDE DEF v, m, c, n
  <2> QED
    BY <2>2, <2>3, <2>4, LevelKept DEF v
<1> HIDE DEF s, c
<1>7. Levels'
  <2>1. s = <<>> => OnNormal(c)
    BY <1>2, <1>3, <1>4
  <2>2. s # <<>> => n > 1 /\ 1 \in 1..(n - 1) /\ n - 1 \in 1..(n - 1)
    BY <1>2, <1>3
  <2>3. s # <<>> => OnNormal(s[1].cpu) /\ Level(c, mem, s[Len(s)].cpu)
    BY <1>1, <1>3, <1>6, <2>2 DEF UxInv, Levels
  <2>4. \A i \in 1..Len(s) : Ux!OnUx(Framed(s[i].cpu))
    BY <1>3 DEF UxInv, Levels
  <2>5. ASSUME NEW i \in 2..Len(s) PROVE Nested(s[i].cpu) /\ Level(s[i].cpu, s[i].stack, s[i-1].cpu)
    <3>1. i \in 2..n /\ i \in 1..(n - 1) /\ i - 1 \in 1..(n - 1)
      BY <1>2, <1>3
    <3>2. Nested(saved[i].cpu) /\ Level(saved[i].cpu, saved[i].stack, saved[i-1].cpu)
      BY <3>1 DEF UxInv, Levels
    <3> QED
      BY <1>3, <3>1, <3>2
  <2>6. \A i, j \in 1..Len(s) : i < j => s[j].cpu.esp <= Framed(s[i].cpu)
    BY <1>3 DEF UxInv, Levels
  <2> QED
    BY <1>1, <2>1, <2>3, <2>4, <2>5, <2>6 DEF Levels, s
<1>8. Undisturbed'
  <2>1. \A i \in 1..Len(s), a \in Ux!Word :
          /\ a >= s[i].cpu.esp /\ (a < UXBottom <=> s[i].cpu.esp <= StackTop)
          => mem[a] = s[i].stack[a]
    BY <1>3 DEF UxInv, Undisturbed
  <2> QED
    BY <1>1, <2>1 DEF Undisturbed, s
<1>9. Ux!FramesIntact'
  <2>1. ASSUME NEW i \in 1..Len(s) PROVE Intact(s[i].cpu, mem)
    <3>1. i \in 1..n /\ i < n /\ s[i] = saved[i]
      BY <1>2, <1>3
    <3> QED
      BY <3>1, IntactIs DEF UxInv
  <2> QED
    BY <1>1, <2>1 DEF Ux!FramesIntact, Intact, Framed, s
<1>10. Ux!PanicOnlyAtBottom'
  BY <1>1 DEF Ux!PanicOnlyAtBottom
<1> QED
  BY <1>5, <1>7, <1>8, <1>9, <1>10 DEF UxInv

LEMMA FaultingSteps ==
  ASSUME Ux!UxAssumption, UxInv,
         Ux!ProgramFaults \/ Ux!HandlerFaults \/ Ux!PushEipFaults
  PROVE  UxInv'
<1>1. env = "ready" /\ Ux!PageFault /\ cpu.eip \in {"program", "handler", "movl_edx_ecx"}
  BY DEF Ux!ProgramFaults, Ux!HandlerFaults, Ux!PushEipFaults, Ux!At
<1>2. May(cpu)
  <2>1. CASE saved = <<>>
    BY <2>1, AtProgram DEF May
  <2>2. CASE saved # <<>>
    <3> DEFINE w == saved[Len(saved)].cpu
    <3>1. Level(cpu, mem, w) /\ cpu.eip # "program" /\ Ux!OnUx(Framed(w) + 0) /\ Framed(w) + 0 = Framed(w)
      BY <2>2, TopLevel
    <3> HIDE DEF w
    <3>2. Ux!OnUx(cpu.esp)
      BY <1>1, <3>1 DEF Level, Framed
    <3> QED
      BY <1>1, <2>2, <3>1, <3>2 DEF May, Nested
  <2> QED
    BY <2>1, <2>2
<1> QED
  BY <1>1, <1>2, PageFaultSteps

\* When the upcall itself has no room, esp is at the lowest word of the page.
LEMMA PushFaultsSteps ==
  ASSUME Ux!UxAssumption, UxInv, Ux!PushFaults
  PROVE  UxInv'
<1> DEFINE w == saved[Len(saved)].cpu
<1>1. env = "ready" /\ Ux!PageFault /\ cpu.eip \in {"pushl_esp", "call"} /\ ~Ux!OnUx(cpu.esp - 1)
  BY DEF Ux!PushFaults, Ux!At
<1>2. saved # <<>>
  BY <1>1, AtProgram
<1>3. /\ Level(cpu, mem, w) /\ cpu \in Cpu /\ Ux!OnUx(Framed(w) + 0) /\ Framed(w) + 0 = Framed(w)
  BY <1>2, TopLevel
<1> HIDE DEF w
<1>4. Ux!OnUx(cpu.esp)
  BY <1>1, <1>3 DEF Level, Framed
<1>5. /\ StackTop \in Nat /\ UXBottom \in Nat /\ UXTop \in Nat
      /\ StackTop + 1 < UXBottom /\ UXBottom < UXTop
  BY UxNumbers
<1>6. cpu.esp = UXBottom
  BY <1>1, <1>4, <1>5 DEF Ux!OnUx
<1>7. ~Ux!OnUx(Ux!NewFrame(cpu.esp))
  BY <1>4, <1>5, <1>6 DEF Ux!OnUx, Ux!NewFrame, Ux!FrameSize
<1>8. env' = "panic" /\ UNCHANGED <<cpu, mem, saved>>
  BY <1>1, <1>4, <1>7 DEF Ux!PageFault
<1> QED
  BY <1>6, <1>8, SameSteps

LEMMA UxStarts ==
  ASSUME Ux!UxAssumption, Ux!Init
  PROVE  UxInv
<1>1. /\ cpu \in [eip : {"program"}, esp : 2..StackTop, flags : Ux!Program, regs : Ux!Program]
      /\ mem = [a \in Ux!Word |-> Ux!Data("any")] /\ env = "none" /\ saved = <<>>
  BY DEF Ux!Init
<1>2. \A x \in Ux!Program : x \in Content
  BY Contents DEF Ux!Program
<1>3. mem \in Stack
  BY <1>1, Contents DEF Stack
<1>4. cpu \in Cpu /\ cpu.eip = "program" /\ cpu.esp \in 2..StackTop
  BY <1>1, <1>2, UxNumbers DEF Cpu, UxPlace
<1>5. UxTypes
  BY <1>1, <1>3, <1>4 DEF UxTypes
<1>6. Levels
  BY <1>1, <1>4 DEF Levels, OnNormal
<1> QED
  BY <1>1, <1>5, <1>6 DEF UxInv, Undisturbed, Ux!FramesIntact, Ux!PanicOnlyAtBottom

LEMMA UxNext ==
  ASSUME Ux!UxAssumption, UxInv, [Ux!Next]_Ux!vars
  PROVE  UxInv'
<1>1. ASSUME UNCHANGED Ux!vars PROVE UxInv'
  <2>1. UNCHANGED <<cpu, mem, saved>> /\ env' = env
    BY <1>1 DEF Ux!vars
  <2>2. env \in {"none", "ready", "destroyed", "panic"} /\ (env = "panic" => cpu.esp = UXBottom)
    BY DEF UxInv, UxTypes, Ux!PanicOnlyAtBottom
  <2> QED
    BY <2>1, <2>2, SameSteps
<1>2. ASSUME Ux!SetHandler \/ Ux!PageFaultUnhandled PROVE UxInv'
  <2>1. UNCHANGED <<cpu, mem, saved>> /\ env' \in {"ready", "destroyed"}
    BY <1>2 DEF Ux!SetHandler, Ux!PageFaultUnhandled
  <2> QED
    BY <2>1, SameSteps
<1> QED
  BY <1>1, <1>2, FaultingSteps, PushArgSteps, CallHandlerSteps, PushFaultsSteps,
     HandlerPushesSteps, HandlerReturnsSteps, LoadEspSteps, StoreEspSteps, PushEipSteps,
     PopRegsSteps, PopFlagsSteps, PopEspSteps, RetSteps DEF Ux!Next

-----------------------------------------------------------------------------
(* UxStack: the theorems.                                                   *)

UxOfPart == part = "ux" => UxInv
UxStep == UNCHANGED part /\ IF part = "ux" THEN Ux!Next ELSE UNCHANGED ux

LEMMA UxStepKeeps ==
  ASSUME Ux!UxAssumption, UxOfPart, [UxStep]_<<part, ux>>
  PROVE  UxOfPart'
<1>1. part' = part /\ (part = "ux" => [Ux!Next]_Ux!vars)
  BY DEF UxStep, ux, Ux!vars
<1> QED
  BY <1>1, UxNext DEF UxOfPart

\* Every frame on the exception stack stays what the kernel pushed, however deep the faults
\* nest, and the kernel itself faults only for an esp at the lowest word of the page: for a
\* stack, a handler and a nesting of any size (page_fault_handler, kern/trap.c, and
\* _pgfault_upcall, lib/pfentry.S).  Of UxStack, and of its part of MCMachines.
THEOREM FaultsAlwaysNest ==
  ASSUME Ux!UxAssumption
  PROVE  /\ Ux!Spec => []Ux!FaultsNest
         /\ UxSpec => []FaultsNest
<1>1. Ux!Init => UxInv
  BY UxStarts
<1>2. UxInv /\ [Ux!Next]_Ux!vars => UxInv'
  BY UxNext
<1>3. UxInv => Ux!FaultsNest
  <2> SUFFICES ASSUME UxInv PROVE Ux!FaultsNest
    OBVIOUS
  <2>1. cpu \in Cpu /\ mem \in Stack /\ env \in {"none", "ready", "destroyed", "panic"}
    BY DEF UxInv, UxTypes
  <2>2. cpu.esp \in 1..UXTop /\ DOMAIN mem = Ux!Word
    BY <2>1 DEF Cpu, Stack
  <2>3. Ux!TypeOK
    BY <2>1, <2>2, AtProgram DEF Ux!TypeOK
  <2> QED
    BY <2>3 DEF UxInv, Ux!FaultsNest
<1>4. Ux!Spec => []Ux!FaultsNest
  BY <1>1, <1>2, <1>3, PTL DEF Ux!Spec
<1>5. UxInit => UxOfPart
  BY <1>1 DEF UxInit, UxOfPart
<1>6. UxOfPart /\ [UxStep]_<<part, ux>> => UxOfPart'
  BY UxStepKeeps
<1>7. UxOfPart => FaultsNest
  BY <1>3 DEF FaultsNest, UxOfPart
<1>8. UxSpec => []FaultsNest
  BY <1>5, <1>6, <1>7, PTL DEF UxSpec, UxStep
<1> QED
  BY <1>4, <1>8

\* The way back from a fault ends with the registers, the flags, the stack pointer and the
\* stack of the moment of the fault, whatever faulted and however often in between
\* (_pgfault_upcall, lib/pfentry.S).  Of UxStack, and of its part of MCMachines.
THEOREM FaultsResume ==
  ASSUME Ux!UxAssumption
  PROVE  /\ Ux!Spec => Ux!ResumesExactly
         /\ UxSpec => ResumesExactly
<1>1. Ux!Init => UxInv
  BY UxStarts
<1>2. UxInv /\ [Ux!Next]_Ux!vars => UxInv'
  BY UxNext
<1>3. UxInv /\ [Ux!Next]_Ux!vars => [Ux!Resumes]_Ux!vars
  <2> SUFFICES ASSUME UxInv, Ux!Next, Ux!At("ret") PROVE Ux!Resumes
    BY DEF Ux!Resumes
  <2>1. Ux!Ret
    BY DEF Ux!At, Ux!Next, Ux!SetHandler, Ux!PageFaultUnhandled, Ux!ProgramFaults,
       Ux!HandlerFaults, Ux!PushArg, Ux!CallHandler, Ux!PushFaults, Ux!HandlerPushes,
       Ux!HandlerReturns, Ux!LoadEsp, Ux!StoreEsp, Ux!PushEip, Ux!PushEipFaults,
       Ux!PopRegs, Ux!PopFlags, Ux!PopEsp
  <2>2. saved # <<>> /\ cpu' = saved[Len(saved)].cpu /\ mem' = mem
    BY <2>1, RetResumes
  <2>3. Len(saved) \in 1..Len(saved)
    BY <2>2, TopFault
  <2>4. \A a \in Ux!Word : /\ a >= saved[Len(saved)].cpu.esp
                           /\ (a < UXBottom <=> saved[Len(saved)].cpu.esp <= StackTop)
                           => mem[a] = saved[Len(saved)].stack[a]
    BY <2>3 DEF UxInv, Undisturbed
  <2> QED
    BY <2>2, <2>4 DEF Ux!Resumes
<1>4. Ux!Spec => Ux!ResumesExactly
  BY <1>1, <1>2, <1>3, PTL DEF Ux!Spec, Ux!ResumesExactly
<1>5. UxInit => UxOfPart
  BY <1>1 DEF UxInit, UxOfPart
<1>6. UxOfPart /\ [UxStep]_<<part, ux>> => UxOfPart'
  BY UxStepKeeps
<1> DEFINE Resume == part = "ux" => Ux!Resumes
<1>7. UxOfPart /\ [UxStep]_<<part, ux>> => [Resume]_<<part, ux>>
  BY <1>3 DEF UxOfPart, UxStep, ux, Ux!vars
<1>8. UxSpec => ResumesExactly
  BY <1>5, <1>6, <1>7, PTL DEF UxSpec, UxStep, ResumesExactly
<1> QED
  BY <1>4, <1>8

-----------------------------------------------------------------------------
(* Console: the ring.                                                      *)

Byte == 0..255
RingPos == 0..(CONSBUFSIZE - 1)
Rings == [buf : [RingPos -> Byte], rpos : RingPos, wpos : RingPos]

LEMMA ConsoleSizes ==
  ASSUME Tty!ConsoleAssumption
  PROVE  /\ CONSBUFSIZE \in Nat /\ CONSBUFSIZE > 1 /\ BUFLEN \in Nat /\ BUFLEN > 0
         /\ CRT_COLS \in Nat \ {0} /\ Tty!CRT_SIZE \in Nat /\ 1 + BUFLEN <= Tty!CRT_SIZE - CRT_COLS
         /\ Key \subseteq DOMAIN Tty!KeyCode /\ SerialByte \subseteq Byte /\ Printed \subseteq Byte
  BY DEF Tty!ConsoleAssumption, Tty!CRT_SIZE, Byte

LEMMA Wrap ==
  ASSUME Tty!ConsoleAssumption, NEW x \in 0..(2 * CONSBUFSIZE - 1)
  PROVE  x % CONSBUFSIZE = IF x < CONSBUFSIZE THEN x ELSE x - CONSBUFSIZE
<1>1. CONSBUFSIZE \in Nat \ {0}
  BY ConsoleSizes
<1>2. CASE x < CONSBUFSIZE
  <2>1. x \in 0..(CONSBUFSIZE - 1)
    BY <1>1, <1>2
  <2>2. (CONSBUFSIZE * 0 + x) % CONSBUFSIZE = x
    BY <1>1, <2>1, Quotient
  <2>3. CONSBUFSIZE * 0 + x = x
    BY <1>1
  <2> QED
    BY <1>2, <2>2, <2>3
<1>3. CASE x >= CONSBUFSIZE
  <2>1. x - CONSBUFSIZE \in 0..(CONSBUFSIZE - 1)
    BY <1>1, <1>3
  <2>2. (CONSBUFSIZE * 1 + (x - CONSBUFSIZE)) % CONSBUFSIZE = x - CONSBUFSIZE
    BY <1>1, <2>1, Quotient
  <2>3. CONSBUFSIZE * 1 + (x - CONSBUFSIZE) = x
    BY <1>1
  <2> QED
    BY <1>1, <1>3, <2>2, <2>3
<1> QED
  BY <1>1, <1>2, <1>3

\* How many characters a ring holds, and where its i-th is.
Used(r) == IF r.rpos <= r.wpos THEN r.wpos - r.rpos ELSE r.wpos + CONSBUFSIZE - r.rpos
SlotOf(r, i) ==
  IF r.rpos + i - 1 < CONSBUFSIZE THEN r.rpos + i - 1 ELSE r.rpos + i - 1 - CONSBUFSIZE

LEMMA BufferedIs ==
  ASSUME Tty!ConsoleAssumption, NEW r \in Rings
  PROVE  /\ Used(r) \in RingPos
         /\ \A i \in 1..Used(r) : SlotOf(r, i) \in RingPos
         /\ Tty!Buffered(r) \in Seq(Byte) /\ Len(Tty!Buffered(r)) = Used(r)
         /\ \A i \in 1..Used(r) : Tty!Buffered(r)[i] = r.buf[SlotOf(r, i)]
         /\ Tty!Buffered(r) = [i \in 1..Used(r) |-> r.buf[SlotOf(r, i)]]
<1>1. /\ CONSBUFSIZE \in Nat /\ CONSBUFSIZE > 1
      /\ r.rpos \in RingPos /\ r.wpos \in RingPos /\ r.buf \in [RingPos -> Byte]
  BY ConsoleSizes DEF Rings
<1>2. Used(r) \in RingPos
  BY <1>1 DEF Used, RingPos
<1>3. (r.wpos + CONSBUFSIZE - r.rpos) % CONSBUFSIZE = Used(r)
  <2>1. r.wpos + CONSBUFSIZE - r.rpos \in 0..(2 * CONSBUFSIZE - 1)
    BY <1>1 DEF RingPos
  <2>2. PICK x \in 0..(2 * CONSBUFSIZE - 1) : x = r.wpos + CONSBUFSIZE - r.rpos
    BY <2>1
  <2>3. x % CONSBUFSIZE = IF x < CONSBUFSIZE THEN x ELSE x - CONSBUFSIZE
    BY Wrap
  <2>4. Used(r) = IF x < CONSBUFSIZE THEN x ELSE x - CONSBUFSIZE
    BY <1>1, <2>2 DEF Used, RingPos
  <2>5. (r.wpos + CONSBUFSIZE - r.rpos) % CONSBUFSIZE = x % CONSBUFSIZE
    BY <2>2
  <2> QED
    BY <2>3, <2>4, <2>5
<1>4. \A i \in 1..Used(r) : /\ (r.rpos + i - 1) % CONSBUFSIZE = SlotOf(r, i)
                            /\ SlotOf(r, i) \in RingPos
  <2> SUFFICES ASSUME NEW i \in 1..Used(r)
               PROVE  /\ (r.rpos + i - 1) % CONSBUFSIZE = SlotOf(r, i)
                      /\ SlotOf(r, i) \in RingPos
    OBVIOUS
  <2>1. r.rpos + i - 1 \in 0..(2 * CONSBUFSIZE - 1)
    BY <1>1, <1>2 DEF RingPos
  <2>2. PICK x \in 0..(2 * CONSBUFSIZE - 1) : x = r.rpos + i - 1
    BY <2>1
  <2>3. SlotOf(r, i) = IF x < CONSBUFSIZE THEN x ELSE x - CONSBUFSIZE
    BY <1>1, <1>2, <2>2 DEF SlotOf, RingPos
  <2>4. x % CONSBUFSIZE = IF x < CONSBUFSIZE THEN x ELSE x - CONSBUFSIZE
    BY Wrap
  <2>5. SlotOf(r, i) \in RingPos
    BY <1>1, <2>2, <2>3 DEF RingPos
  <2>6. (r.rpos + i - 1) % CONSBUFSIZE = x % CONSBUFSIZE
    BY <2>2
  <2> QED
    BY <2>3, <2>4, <2>5, <2>6
<1>5. Tty!Buffered(r) = [i \in 1..Used(r) |-> r.buf[SlotOf(r, i)]]
  BY <1>3, <1>4 DEF Tty!Buffered
<1>6. Used(r) \in Nat
  BY <1>1, <1>2 DEF RingPos
<1>7. \A i \in 1..Used(r) : r.buf[SlotOf(r, i)] \in Byte
  BY <1>1, <1>4
<1>8. Tty!Buffered(r) \in Seq(Byte) /\ Len(Tty!Buffered(r)) = Used(r)
  BY <1>5, <1>6, <1>7
<1> QED
  BY <1>2, <1>4, <1>5, <1>8

LEMMA AdvanceIs ==
  ASSUME Tty!ConsoleAssumption, NEW p \in RingPos
  PROVE  /\ Tty!Advance(p) \in RingPos
         /\ Tty!Advance(p) = IF p = CONSBUFSIZE - 1 THEN 0 ELSE p + 1
<1>1. PICK x \in 0..(2 * CONSBUFSIZE - 1) : x = p + 1
  BY ConsoleSizes DEF RingPos
<1>2. Tty!Advance(p) = x % CONSBUFSIZE
  BY <1>1 DEF Tty!Advance
<1>3. Tty!Advance(p) = IF x < CONSBUFSIZE THEN x ELSE x - CONSBUFSIZE
  BY <1>2, Wrap
<1> QED
  BY <1>1, <1>3, ConsoleSizes DEF RingPos

\* A character is put at the end, or a ring that is lapped is empty.
LEMMA StashBuffered ==
  ASSUME Tty!ConsoleAssumption, NEW r \in Rings, NEW c \in Byte
  PROVE  Tty!Stash(r, c) \in Rings /\ Tty!Buffered(Tty!Stash(r, c)) = Tty!Owe(Tty!Buffered(r), c)
<1> DEFINE s == Tty!Stash(r, c)
<1>1. /\ CONSBUFSIZE \in Nat /\ CONSBUFSIZE > 1
      /\ r.rpos \in RingPos /\ r.wpos \in RingPos /\ r.buf \in [RingPos -> Byte]
  BY ConsoleSizes DEF Rings
<1>2. s.rpos = r.rpos /\ s.wpos = Tty!Advance(r.wpos) /\ s.buf = [r.buf EXCEPT ![r.wpos] = c]
  BY DEF Tty!Stash, Rings
<1>3. /\ s.wpos \in RingPos
      /\ s.wpos = IF r.wpos = CONSBUFSIZE - 1 THEN 0 ELSE r.wpos + 1
  BY <1>1, <1>2, AdvanceIs
<1>4. /\ s.buf \in [RingPos -> Byte] /\ s.buf[r.wpos] = c
      /\ \A p \in RingPos : p # r.wpos => s.buf[p] = r.buf[p]
  BY <1>1, <1>2
<1>5. s \in Rings
  BY <1>2, <1>3, <1>4 DEF Rings, Tty!Stash
<1> HIDE DEF s
<1>6. /\ Used(r) \in Nat /\ Used(r) <= CONSBUFSIZE - 1
      /\ \A i \in 1..Used(r) : SlotOf(r, i) \in RingPos
      /\ Tty!Buffered(r) \in Seq(Byte) /\ Len(Tty!Buffered(r)) = Used(r)
      /\ \A i \in 1..Used(r) : Tty!Buffered(r)[i] = r.buf[SlotOf(r, i)]
  BY <1>1, BufferedIs DEF RingPos
<1>7. /\ Tty!Buffered(s) \in Seq(Byte) /\ Len(Tty!Buffered(s)) = Used(s)
      /\ \A i \in 1..Used(s) : Tty!Buffered(s)[i] = s.buf[SlotOf(s, i)]
  BY <1>5, BufferedIs
<1>8. CASE Used(r) = CONSBUFSIZE - 1
  <2>1. Used(s) = 0
    BY <1>1, <1>2, <1>3, <1>8 DEF Used, RingPos
  <2>2. Tty!Buffered(s) = <<>>
    BY <1>7, <2>1, EmptySeq
  <2> QED
    BY <1>5, <1>6, <1>8, <2>2 DEF Tty!Owe, s
<1>9. CASE Used(r) # CONSBUFSIZE - 1
  <2>1. Used(s) = Used(r) + 1
    <3>1. CASE r.wpos = CONSBUFSIZE - 1
      BY <1>1, <1>2, <1>3, <1>9, <3>1 DEF Used, RingPos
    <3>2. CASE r.wpos # CONSBUFSIZE - 1
      <4>1. s.wpos = r.wpos + 1 /\ s.rpos = r.rpos
        BY <1>2, <1>3, <3>2
      <4>2. CASE r.rpos <= r.wpos
        <5>1. s.rpos <= s.wpos
          BY <1>1, <4>1, <4>2 DEF RingPos
        <5> QED
          BY <1>1, <4>1, <4>2, <5>1 DEF Used, RingPos
      <4>3. CASE ~(r.rpos <= r.wpos)
        <5>1. r.rpos # r.wpos + 1
          BY <1>1, <1>9, <4>3 DEF Used, RingPos
        <5>2. ~(s.rpos <= s.wpos)
          BY <1>1, <4>1, <4>3, <5>1 DEF RingPos
        <5> QED
          BY <1>1, <4>1, <4>3, <5>2 DEF Used, RingPos
      <4> QED
        BY <4>2, <4>3
    <3> QED
      BY <3>1, <3>2
  <2>2. \A i \in 1..Used(r) : SlotOf(s, i) = SlotOf(r, i) /\ SlotOf(r, i) # r.wpos
    <3> SUFFICES ASSUME NEW i \in 1..Used(r)
                 PROVE  SlotOf(s, i) = SlotOf(r, i) /\ SlotOf(r, i) # r.wpos
      OBVIOUS
    <3>1. SlotOf(s, i) = SlotOf(r, i)
      BY <1>2 DEF SlotOf
    <3>2. SlotOf(r, i) # r.wpos
      BY <1>1, <1>6 DEF SlotOf, Used, RingPos
    <3> QED
      BY <3>1, <3>2
  <2>3. SlotOf(s, Used(r) + 1) = r.wpos
    BY <1>1, <1>2, <1>9 DEF SlotOf, Used, RingPos
  <2>4. /\ Append(Tty!Buffered(r), c) \in Seq(Byte) /\ Len(Append(Tty!Buffered(r), c)) = Used(r) + 1
        /\ \A i \in 1..Used(r) : Append(Tty!Buffered(r), c)[i] = Tty!Buffered(r)[i]
        /\ Append(Tty!Buffered(r), c)[Used(r) + 1] = c
    BY <1>6, AppendProperties
  <2>5. \A i \in 1..(Used(r) + 1) : Tty!Buffered(s)[i] = Append(Tty!Buffered(r), c)[i]
    <3> SUFFICES ASSUME NEW i \in 1..(Used(r) + 1)
                 PROVE  Tty!Buffered(s)[i] = Append(Tty!Buffered(r), c)[i]
      OBVIOUS
    <3>1. Tty!Buffered(s)[i] = s.buf[SlotOf(s, i)]
      BY <1>7, <2>1
    <3>2. CASE i \in 1..Used(r)
      BY <1>4, <1>6, <2>2, <2>4, <3>1, <3>2
    <3>3. CASE i = Used(r) + 1
      BY <1>4, <2>3, <2>4, <3>1, <3>3
    <3> QED
      BY <1>6, <3>2, <3>3
  <2>6. Tty!Buffered(s) = Append(Tty!Buffered(r), c)
    BY <1>7, <2>1, <2>4, <2>5, SeqEqual
  <2> QED
    BY <1>5, <1>6, <1>9, <2>6 DEF Tty!Owe, s
<1> QED
  BY <1>8, <1>9

\* The first character is taken, if there is one.
LEMMA TakenBuffered ==
  ASSUME Tty!ConsoleAssumption, NEW r \in Rings
  PROVE  /\ Tty!Taken(r) \in Rings /\ Tty!FirstChar(r) \in Byte
         /\ Tty!Buffered(Tty!Taken(r)) = IF Tty!Buffered(r) # <<>> THEN Tail(Tty!Buffered(r)) ELSE <<>>
<1> DEFINE s == [r EXCEPT !.rpos = Tty!Advance(@)]
<1>1. /\ CONSBUFSIZE \in Nat /\ CONSBUFSIZE > 1
      /\ r.rpos \in RingPos /\ r.wpos \in RingPos /\ r.buf \in [RingPos -> Byte]
  BY ConsoleSizes DEF Rings
<1>2. /\ Used(r) \in Nat /\ Used(r) <= CONSBUFSIZE - 1
      /\ \A i \in 1..Used(r) : SlotOf(r, i) \in RingPos
      /\ Tty!Buffered(r) \in Seq(Byte) /\ Len(Tty!Buffered(r)) = Used(r)
      /\ \A i \in 1..Used(r) : Tty!Buffered(r)[i] = r.buf[SlotOf(r, i)]
  BY <1>1, BufferedIs DEF RingPos
<1>3. Tty!FirstChar(r) \in Byte
  BY <1>1 DEF Tty!FirstChar, Byte
<1>4. Tty!Empty(r) <=> Used(r) = 0
  BY <1>1 DEF Tty!Empty, Used, RingPos
<1>5. Tty!Buffered(r) = <<>> <=> Used(r) = 0
  BY <1>2, EmptySeq
<1>6. CASE Tty!Empty(r)
  <2>1. Tty!Taken(r) = r
    BY <1>6 DEF Tty!Taken
  <2> QED
    BY <1>3, <1>4, <1>5, <1>6, <2>1
<1>7. CASE ~Tty!Empty(r)
  <2>1. Tty!Taken(r) = s
    BY <1>7 DEF Tty!Taken
  <2>2. /\ s.wpos = r.wpos /\ s.buf = r.buf /\ s.rpos = Tty!Advance(r.rpos)
        /\ s = [buf |-> s.buf, rpos |-> s.rpos, wpos |-> s.wpos]
    BY DEF Rings
  <2>3. /\ s.rpos \in RingPos
        /\ s.rpos = IF r.rpos = CONSBUFSIZE - 1 THEN 0 ELSE r.rpos + 1
    BY <1>1, <2>2, AdvanceIs
  <2> HIDE DEF s
  <2>4. s \in Rings
    BY <1>1, <2>2, <2>3 DEF Rings
  <2>5. Used(r) > 0
    BY <1>2, <1>4, <1>7
  <2>6. Used(s) = Used(r) - 1
    BY <1>1, <2>2, <2>3, <2>5 DEF Used, RingPos
  <2>7. /\ Tty!Buffered(s) \in Seq(Byte) /\ Len(Tty!Buffered(s)) = Used(s)
        /\ \A i \in 1..Used(s) : Tty!Buffered(s)[i] = s.buf[SlotOf(s, i)]
    BY <2>4, BufferedIs
  <2>8. /\ Tail(Tty!Buffered(r)) \in Seq(Byte) /\ Len(Tail(Tty!Buffered(r))) = Used(r) - 1
        /\ \A i \in 1..(Used(r) - 1) : Tail(Tty!Buffered(r))[i] = Tty!Buffered(r)[i + 1]
    BY <1>2, <1>5, <2>5, HeadTailProperties
  <2>9. \A i \in 1..(Used(r) - 1) : Tty!Buffered(s)[i] = Tail(Tty!Buffered(r))[i]
    <3> SUFFICES ASSUME NEW i \in 1..(Used(r) - 1)
                 PROVE  Tty!Buffered(s)[i] = Tail(Tty!Buffered(r))[i]
      OBVIOUS
    <3>1. i + 1 \in 1..Used(r) /\ i \in 1..Used(s)
      BY <1>2, <2>6
    <3>2. SlotOf(s, i) = SlotOf(r, i + 1)
      BY <1>1, <1>2, <2>2, <2>3 DEF SlotOf, RingPos
    <3>3. Tty!Buffered(r)[i + 1] = r.buf[SlotOf(r, i + 1)]
      BY <1>2, <3>1
    <3> QED
      BY <2>2, <2>7, <2>8, <3>1, <3>2, <3>3
  <2>10. Tty!Buffered(s) = Tail(Tty!Buffered(r))
    BY <2>6, <2>7, <2>8, <2>9, SeqEqual
  <2> QED
    BY <1>3, <1>5, <2>1, <2>4, <2>5, <2>10
<1> QED
  BY <1>6, <1>7

-----------------------------------------------------------------------------
(* Console: the keyboard.                                                  *)

ShiftBit == {"CTL", "SHIFT", "ALT", "CAPSLOCK", "NUMLOCK", "SCROLLLOCK", "E0ESC"}
Inputs == [shift : SUBSET ShiftBit, cons : Rings, owed : Seq(Byte), reboot : BOOLEAN]

LEMMA CodeTables ==
  ASSUME NEW mods, NEW code
  PROVE  /\ Tty!shiftcode(code) \in SUBSET {"CTL", "SHIFT", "ALT"}
         /\ Tty!togglecode(code) \in SUBSET {"CAPSLOCK", "NUMLOCK", "SCROLLLOCK"}
         /\ Tty!charcode(mods, code) \in Byte /\ Tty!SwapCase(Tty!charcode(mods, code)) \in Byte
<1>1. Tty!shiftcode(code) \in SUBSET {"CTL", "SHIFT", "ALT"}
  BY DEF Tty!shiftcode
<1>2. Tty!togglecode(code) \in SUBSET {"CAPSLOCK", "NUMLOCK", "SCROLLLOCK"}
  BY DEF Tty!togglecode
<1>3. Tty!normalmap(code) \in Byte
  BY DEF Tty!normalmap, Tty!BS, Tty!NL, Tty!KEY_DEL, Tty!NO, Byte
<1>4. Tty!shiftmap(code) \in Byte
  BY <1>3 DEF Tty!shiftmap, Byte
<1>5. Tty!ctlmap(code) \in Byte
  BY DEF Tty!ctlmap, Tty!EOT, Tty!CR, Tty!KEY_DEL, Tty!NO, Byte
<1>6. Tty!charcode(mods, code) \in Byte
  BY <1>3, <1>4, <1>5 DEF Tty!charcode
<1>7. \A c \in Byte : Tty!SwapCase(c) \in Byte
  BY DEF Tty!SwapCase, Byte
<1> QED
  BY <1>1, <1>2, <1>6, <1>7

LEMMA KeyTypes ==
  ASSUME NEW s \in SUBSET ShiftBit, NEW code
  PROVE  /\ Tty!kbd_proc_data(s, code).shift \in SUBSET ShiftBit
         /\ Tty!kbd_proc_data(s, code).char \in Byte
         /\ Tty!kbd_proc_data(s, code).reboot \in BOOLEAN
<1>1. ASSUME NEW m \in SUBSET ShiftBit
      PROVE  Tty!Silent(m).shift = m /\ Tty!Silent(m).char \in Byte /\ Tty!Silent(m).reboot \in BOOLEAN
  BY DEF Tty!Silent, Tty!NO, Byte
<1>2. ASSUME NEW m \in SUBSET ShiftBit, NEW c
      PROVE  /\ Tty!Pressed(m, c).shift = m /\ Tty!Pressed(m, c).char \in Byte
             /\ Tty!Pressed(m, c).reboot \in BOOLEAN
  BY CodeTables DEF Tty!Pressed
<1>3. \A c : Tty!shiftcode(c) \in SUBSET ShiftBit /\ Tty!togglecode(c) \in SUBSET ShiftBit
  BY CodeTables DEF ShiftBit
<1>4. /\ s \cup {"E0ESC"} \in SUBSET ShiftBit
      /\ \A c : s \ (Tty!shiftcode(c) \cup {"E0ESC"}) \in SUBSET ShiftBit
      /\ \A c : Tty!Toggled((s \ {"E0ESC"}) \cup Tty!shiftcode(c), Tty!togglecode(c)) \in SUBSET ShiftBit
  BY <1>3 DEF Tty!Toggled, ShiftBit
<1> DEFINE code2 == IF "E0ESC" \in s /\ code < 128 THEN code + 128 ELSE code
           released == IF "E0ESC" \in s THEN code ELSE code % 128
           M == Tty!Toggled((s \ {"E0ESC"}) \cup Tty!shiftcode(code2), Tty!togglecode(code2))
<1>5. \/ Tty!kbd_proc_data(s, code) = Tty!Silent(s \cup {"E0ESC"})
      \/ Tty!kbd_proc_data(s, code) = Tty!Silent(s \ (Tty!shiftcode(released) \cup {"E0ESC"}))
      \/ Tty!kbd_proc_data(s, code) = Tty!Pressed(M, code2)
  BY DEF Tty!kbd_proc_data
<1> HIDE DEF released, code2
<1>6. CASE Tty!kbd_proc_data(s, code) = Tty!Silent(s \cup {"E0ESC"})
  BY <1>1, <1>4, <1>6
<1>7. CASE Tty!kbd_proc_data(s, code) = Tty!Silent(s \ (Tty!shiftcode(released) \cup {"E0ESC"}))
  BY <1>1, <1>4, <1>7
<1>8. CASE Tty!kbd_proc_data(s, code) = Tty!Pressed(M, code2)
  <2>1. M \in SUBSET ShiftBit
    BY <1>4
  <2> HIDE DEF M
  <2> QED
    BY <1>2, <1>8, <2>1
<1> QED
  BY <1>5, <1>6, <1>7, <1>8

\* What has been read is put in the ring, and owed.
Owing(in) == Tty!Buffered(in.cons) = in.owed

LEMMA OweTypes ==
  ASSUME NEW q \in Seq(Byte), NEW c \in Byte
  PROVE  Tty!Owe(q, c) \in Seq(Byte)
BY EmptySeq, AppendProperties DEF Tty!Owe

LEMMA PutKept ==
  ASSUME Tty!ConsoleAssumption, NEW in \in Inputs, NEW c \in Byte
  PROVE  /\ Tty!Put(in, c) \in Inputs /\ Tty!Put(in, c).shift = in.shift
         /\ Owing(in) => Owing(Tty!Put(in, c))
<1>1. CASE c = 0
  BY <1>1 DEF Tty!Put
<1>2. CASE c # 0
  <2>1. /\ in.shift \in SUBSET ShiftBit /\ in.cons \in Rings /\ in.owed \in Seq(Byte)
        /\ in.reboot \in BOOLEAN
        /\ in = [shift |-> in.shift, cons |-> in.cons, owed |-> in.owed, reboot |-> in.reboot]
    BY DEF Inputs
  <2>2. Tty!Put(in, c) = [shift |-> in.shift, cons |-> Tty!Stash(in.cons, c), owed |-> Tty!Owe(in.owed, c),
                      reboot |-> in.reboot]
    BY <1>2, <2>1 DEF Tty!Put
  <2>3. /\ Tty!Stash(in.cons, c) \in Rings /\ Tty!Owe(in.owed, c) \in Seq(Byte)
        /\ Tty!Buffered(Tty!Stash(in.cons, c)) = Tty!Owe(Tty!Buffered(in.cons), c)
    BY <2>1, StashBuffered, OweTypes
  <2>4. Tty!Put(in, c) \in Inputs /\ Tty!Put(in, c).shift = in.shift
    BY <2>1, <2>2, <2>3 DEF Inputs
  <2> QED
    BY <2>2, <2>3, <2>4 DEF Owing
<1> QED
  BY <1>1, <1>2

LEMMA DecodeKept ==
  ASSUME Tty!ConsoleAssumption, NEW in \in Inputs, NEW code
  PROVE  /\ Tty!Decode(in, code) \in Inputs
         /\ Tty!Decode(in, code).shift = Tty!kbd_proc_data(in.shift, code).shift
         /\ Owing(in) => Owing(Tty!Decode(in, code))
<1> DEFINE r == Tty!kbd_proc_data(in.shift, code)
           pressed == [in EXCEPT !.shift = r.shift, !.reboot = @ \/ r.reboot]
<1>1. /\ in.shift \in SUBSET ShiftBit /\ in.cons \in Rings /\ in.owed \in Seq(Byte)
      /\ in.reboot \in BOOLEAN
  BY DEF Inputs
<1>2. r.shift \in SUBSET ShiftBit /\ r.char \in Byte /\ r.reboot \in BOOLEAN
  BY <1>1, KeyTypes
<1> HIDE DEF r
<1>3. /\ pressed.shift = r.shift /\ pressed.cons = in.cons /\ pressed.owed = in.owed
      /\ pressed.reboot = (in.reboot \/ r.reboot)
  BY DEF Inputs
<1>4. pressed \in Inputs
  BY <1>1, <1>2, <1>3 DEF Inputs
<1>5. Tty!Decode(in, code) = Tty!Put(pressed, r.char)
  BY DEF Tty!Decode, r
<1> HIDE DEF pressed
<1>6. /\ Tty!Put(pressed, r.char) \in Inputs /\ Tty!Put(pressed, r.char).shift = r.shift
      /\ Owing(pressed) => Owing(Tty!Put(pressed, r.char))
  BY <1>2, <1>3, <1>4, PutKept
<1> QED
  BY <1>3, <1>5, <1>6 DEF Owing, r

\* The states of the decoder between the codes.
Decodes(d, in, codes, k) ==
  d = [n \in 0..k |-> IF n = 0 THEN in ELSE Tty!Decode(d[n-1], codes[n])]

LEMMA DecodesExists ==
  ASSUME NEW in, NEW codes, NEW k \in Nat
  PROVE  \E d : Decodes(d, in, codes, k)
<1> DEFINE S == {n \in Nat : ~\E d : Decodes(d, in, codes, n)}
<1> SUFFICES ASSUME S # {} PROVE FALSE
  OBVIOUS
<1>1. PICK n \in S : \A j \in S : n <= j
  <2>1. S \in SUBSET Nat
    OBVIOUS
  <2> HIDE DEF S
  <2> QED
    BY <2>1, LeastExists
<1>2. n # 0
  <2> SUFFICES \E d : Decodes(d, in, codes, 0)
    OBVIOUS
  <2> DEFINE d == [m \in {0} |-> in]
  <2>1. d = [m \in 0..0 |-> IF m = 0 THEN in ELSE Tty!Decode(d[m-1], codes[m])]
    OBVIOUS
  <2> QED
    BY <2>1 DEF Decodes
<1>3. n - 1 \in Nat /\ n - 1 \notin S
  BY <1>1, <1>2
<1>4. PICK d : Decodes(d, in, codes, n - 1)
  BY <1>3
<1> DEFINE e == [m \in 0..n |-> IF m < n THEN d[m] ELSE Tty!Decode(d[n-1], codes[n])]
<1>5. d = [m \in 0..(n-1) |-> IF m = 0 THEN in ELSE Tty!Decode(d[m-1], codes[m])]
  BY <1>4 DEF Decodes
<1>6. \A m \in 0..n : e[m] = IF m = 0 THEN in ELSE Tty!Decode(e[m-1], codes[m])
  <2> SUFFICES ASSUME NEW m \in 0..n
               PROVE  e[m] = IF m = 0 THEN in ELSE Tty!Decode(e[m-1], codes[m])
    OBVIOUS
  <2>1. CASE m = 0
    BY <1>2, <1>3, <1>5, <2>1
  <2>2. CASE m # 0
    <3>1. m - 1 \in 0..n /\ m - 1 < n /\ e[m-1] = d[m-1]
      BY <2>2
    <3>2. CASE m < n
      <4>1. m \in 0..(n-1) /\ e[m] = d[m]
        BY <3>2
      <4> QED
        BY <1>5, <2>2, <3>1, <4>1
    <3>3. CASE m = n
      BY <2>2, <3>1, <3>3
    <3> QED
      BY <3>2, <3>3
  <2> QED
    BY <2>1, <2>2
<1>7. e = [m \in 0..n |-> IF m = 0 THEN in ELSE Tty!Decode(e[m-1], codes[m])]
  <2>1. e = [m \in 0..n |-> e[m]]
    OBVIOUS
  <2> HIDE DEF e
  <2> QED
    BY <1>6, <2>1
<1>8. Decodes(e, in, codes, n)
  BY <1>7 DEF Decodes
<1> QED
  BY <1>1, <1>8

LEMMA DecodeAllIs ==
  ASSUME Tty!ConsoleAssumption, NEW in \in Inputs, NEW codes \in Seq(Byte)
  PROVE  \E d \in [0..Len(codes) -> Inputs] :
           /\ d[0] = in /\ Tty!DecodeAll(in, codes) = d[Len(codes)]
           /\ \A n \in 1..Len(codes) : d[n] = Tty!Decode(d[n-1], codes[n])
           /\ Owing(in) => Owing(d[Len(codes)])
<1> DEFINE k == Len(codes)
           d == CHOOSE f : f = [n \in 0..k |-> IF n = 0 THEN in ELSE Tty!Decode(f[n-1], codes[n])]
<1>1. k \in Nat
  BY LenProperties
<1> HIDE DEF k
<1>2. d = [n \in 0..k |-> IF n = 0 THEN in ELSE Tty!Decode(d[n-1], codes[n])]
  <2>1. \E f : f = [n \in 0..k |-> IF n = 0 THEN in ELSE Tty!Decode(f[n-1], codes[n])]
    <3>1. PICK e : Decodes(e, in, codes, k)
      BY <1>1, DecodesExists
    <3>2. e = [n \in 0..k |-> IF n = 0 THEN in ELSE Tty!Decode(e[n-1], codes[n])]
      BY <3>1 DEF Decodes
    <3> QED
      BY <3>2
  <2> QED
    BY <2>1
<1>3. Tty!DecodeAll(in, codes) = d[k]
  BY DEF Tty!DecodeAll, k
<1> HIDE DEF d
<1>4. d[0] = in /\ \A n \in 1..k : d[n] = Tty!Decode(d[n-1], codes[n])
  BY <1>1, <1>2
<1> DEFINE Good(n) == d[n] \in Inputs /\ (Owing(in) => Owing(d[n]))
           S == {n \in 0..k : ~Good(n)}
<1>5. S = {}
  <2> SUFFICES ASSUME S # {} PROVE FALSE
    OBVIOUS
  <2>1. PICK n \in S : \A j \in S : n <= j
    <3>1. S \in SUBSET Nat
      BY <1>1
    <3> HIDE DEF S
    <3> QED
      BY <3>1, LeastExists
  <2>2. n # 0
    BY <1>4, <2>1
  <2>3. n \in 1..k /\ n - 1 \in 0..k /\ n - 1 \notin S
    BY <1>1, <2>1, <2>2
  <2>4. Good(n - 1)
    BY <2>3
  <2>5. d[n] = Tty!Decode(d[n-1], codes[n])
    BY <1>4, <2>3
  <2>6. Good(n)
    <3>1. d[n-1] \in Inputs
      BY <2>4
    <3>2. Tty!Decode(d[n-1], codes[n]) \in Inputs
      BY <3>1, DecodeKept
    <3>3. Owing(d[n-1]) => Owing(Tty!Decode(d[n-1], codes[n]))
      BY <3>1, DecodeKept
    <3> QED
      BY <2>4, <2>5, <3>2, <3>3
  <2> QED
    BY <2>1, <2>6
<1>6. \A n \in 0..k : d[n] \in Inputs
  BY <1>5
<1>7. Owing(in) => Owing(d[k])
  BY <1>1, <1>5
<1>8. d \in [0..k -> Inputs]
  BY <1>2, <1>6
<1> QED
  BY <1>3, <1>4, <1>7, <1>8 DEF k

-----------------------------------------------------------------------------
(* Console: the screen.                                                    *)

Screens == [buf : [Tty!Cell -> Byte], pos : Tty!Cell, start : Nat]
\* A screen of which the cursor may be below the bottom.
Overruns == [buf : [Tty!Cell -> Byte], pos : Nat, start : Nat]

LEMMA ScrollTypes ==
  ASSUME Tty!ConsoleAssumption, NEW s \in Overruns, s.pos < Tty!CRT_SIZE + CRT_COLS
  PROVE  Tty!Scroll(s) \in Screens
<1>1. /\ CRT_COLS \in Nat \ {0} /\ Tty!CRT_SIZE \in Nat /\ Tty!CRT_SIZE > CRT_COLS
      /\ s.buf \in [Tty!Cell -> Byte] /\ s.pos \in Nat /\ s.start \in Nat
  BY ConsoleSizes DEF Overruns
<1>2. CASE s.pos < Tty!CRT_SIZE
  <2>1. s.pos \in Tty!Cell
    BY <1>1, <1>2 DEF Tty!Cell
  <2>2. Tty!Scroll(s) = s
    BY <1>2 DEF Tty!Scroll
  <2> QED
    BY <2>1, <2>2 DEF Screens, Overruns
<1>3. CASE ~(s.pos < Tty!CRT_SIZE)
  <2> DEFINE b == [i \in Tty!Cell |-> IF i + CRT_COLS \in Tty!Cell THEN s.buf[i + CRT_COLS] ELSE Tty!SPACE]
             t == IF s.start >= CRT_COLS THEN s.start - CRT_COLS ELSE 0
  <2>1. Tty!Scroll(s) = [buf |-> b, pos |-> s.pos - CRT_COLS, start |-> t]
    BY <1>3 DEF Tty!Scroll
  <2>2. b \in [Tty!Cell -> Byte]
    BY <1>1 DEF Tty!SPACE, Byte
  <2>3. s.pos - CRT_COLS \in Tty!Cell /\ t \in Nat
    BY <1>1, <1>3 DEF Tty!Cell
  <2> HIDE DEF b, t
  <2> QED
    BY <2>1, <2>2, <2>3 DEF Screens
<1> QED
  BY <1>2, <1>3

LEMMA ShowTypes ==
  ASSUME Tty!ConsoleAssumption, NEW s \in Screens, NEW c \in Byte
  PROVE  Tty!Show(s, c) \in Screens
<1> DEFINE t == [s EXCEPT !.buf[s.pos] = c, !.pos = @ + 1]
<1>1. /\ CRT_COLS \in Nat \ {0} /\ Tty!CRT_SIZE \in Nat
      /\ s.buf \in [Tty!Cell -> Byte] /\ s.pos \in Tty!Cell /\ s.pos \in Nat /\ s.start \in Nat
  BY ConsoleSizes DEF Screens, Tty!Cell
<1>2. t \in Overruns
  <2>1. s \in Overruns
    BY <1>1 DEF Screens, Overruns
  <2>2. [s.buf EXCEPT ![s.pos] = c] \in [Tty!Cell -> Byte] /\ s.pos + 1 \in Nat
    BY <1>1
  <2>3. ASSUME NEW b \in [Tty!Cell -> Byte], NEW p \in Nat
        PROVE  [s EXCEPT !.buf = b, !.pos = p] \in Overruns
    BY <2>1 DEF Overruns
  <2>4. [s EXCEPT !.buf = [s.buf EXCEPT ![s.pos] = c], !.pos = s.pos + 1] \in Overruns
    BY <2>2, <2>3
  <2> QED
    BY <2>4
<1>3. t.pos = s.pos + 1 /\ s.pos < Tty!CRT_SIZE
  BY <1>1 DEF Screens, Tty!Cell
<1>4. Tty!Show(s, c) = Tty!Scroll(t)
  BY DEF Tty!Show
<1> HIDE DEF t
<1> QED
  BY <1>1, <1>2, <1>3, <1>4, ScrollTypes

LEMMA EraseTypes ==
  ASSUME Tty!ConsoleAssumption, NEW s \in Screens
  PROVE  Tty!Erase(s) \in Screens
<1>1. Tty!CRT_SIZE \in Nat /\ Tty!SPACE \in Byte
  BY ConsoleSizes DEF Tty!SPACE, Byte
<1>2. CASE s.pos = 0
  BY <1>2 DEF Tty!Erase
<1>3. CASE s.pos # 0
  <2>1. s.pos - 1 \in Tty!Cell
    BY <1>1, <1>3 DEF Screens, Tty!Cell
  <2>2. [s EXCEPT !.buf[s.pos - 1] = Tty!SPACE, !.pos = @ - 1] \in Screens
    BY <1>1, <2>1 DEF Screens
  <2> QED
    BY <1>3, <2>2 DEF Tty!Erase
<1> QED
  BY <1>2, <1>3

LEMMA LineStartIs ==
  ASSUME Tty!ConsoleAssumption, NEW p \in Nat
  PROVE  Tty!LineStart(p) \in Nat /\ Tty!LineStart(p) <= p
<1>1. CRT_COLS \in Nat \ {0}
  BY ConsoleSizes
<1>2. PICK k \in Nat, b \in 0..(CRT_COLS-1) : p = CRT_COLS * k + b
  BY <1>1, Division
<1>3. p % CRT_COLS = b /\ CRT_COLS * k \in Nat
  BY <1>1, <1>2, Quotient, Multiples
<1> QED
  BY <1>1, <1>2, <1>3 DEF Tty!LineStart

LEMMA PutcTypes ==
  ASSUME Tty!ConsoleAssumption, NEW s \in Screens, NEW c \in Byte
  PROVE  Tty!cga_putc(s, c) \in Screens
<1>1. /\ CRT_COLS \in Nat \ {0} /\ Tty!CRT_SIZE \in Nat /\ Tty!SPACE \in Byte
      /\ s.buf \in [Tty!Cell -> Byte] /\ s.pos \in Nat /\ s.pos < Tty!CRT_SIZE /\ s.start \in Nat
  BY ConsoleSizes DEF Screens, Tty!Cell, Tty!SPACE, Byte
<1>2. CASE c = Tty!BS
  BY <1>2, EraseTypes DEF Tty!cga_putc, Tty!BS, Tty!NL, Tty!CR, Tty!TAB
<1>3. CASE c = Tty!NL
  <2> DEFINE t == [s EXCEPT !.pos = Tty!LineStart(@ + CRT_COLS)]
  <2>1. Tty!LineStart(s.pos + CRT_COLS) \in Nat /\ Tty!LineStart(s.pos + CRT_COLS) <= s.pos + CRT_COLS
    BY <1>1, LineStartIs
  <2>2. t \in Overruns /\ t.pos = Tty!LineStart(s.pos + CRT_COLS)
    <3>1. s \in Overruns
      BY <1>1 DEF Screens, Overruns
    <3> QED
      BY <2>1, <3>1 DEF Overruns
  <2>3. Tty!cga_putc(s, c) = Tty!Scroll(t)
    BY <1>3 DEF Tty!cga_putc, Tty!BS, Tty!NL, Tty!CR, Tty!TAB
  <2> HIDE DEF t
  <2>4. t.pos < Tty!CRT_SIZE + CRT_COLS
    BY <1>1, <2>1, <2>2
  <2> QED
    BY <2>2, <2>3, <2>4, ScrollTypes
<1>4. CASE c = Tty!CR
  <2>1. Tty!LineStart(s.pos) \in Nat /\ Tty!LineStart(s.pos) <= s.pos
    BY <1>1, LineStartIs
  <2>2. Tty!LineStart(s.pos) \in Tty!Cell
    BY <1>1, <2>1 DEF Tty!Cell
  <2>3. Tty!cga_putc(s, c) = [s EXCEPT !.pos = Tty!LineStart(@)]
    BY <1>4 DEF Tty!cga_putc, Tty!BS, Tty!NL, Tty!CR, Tty!TAB
  <2> QED
    BY <2>2, <2>3 DEF Screens
<1>5. CASE c = Tty!TAB
  <2> DEFINE s1 == Tty!Show(s, Tty!SPACE)  s2 == Tty!Show(s1, Tty!SPACE)  s3 == Tty!Show(s2, Tty!SPACE)
             s4 == Tty!Show(s3, Tty!SPACE)  s5 == Tty!Show(s4, Tty!SPACE)
  <2>1. Tty!cga_putc(s, c) = s5
    BY <1>5 DEF Tty!cga_putc, Tty!BS, Tty!NL, Tty!CR, Tty!TAB
  <2>2. s1 \in Screens
    BY <1>1, ShowTypes
  <2> HIDE DEF s1
  <2>3. s2 \in Screens
    BY <1>1, <2>2, ShowTypes
  <2> HIDE DEF s2
  <2>4. s3 \in Screens
    BY <1>1, <2>3, ShowTypes
  <2> HIDE DEF s3
  <2>5. s4 \in Screens
    BY <1>1, <2>4, ShowTypes
  <2> HIDE DEF s4
  <2>6. s5 \in Screens
    BY <1>1, <2>5, ShowTypes
  <2> QED
    BY <2>1, <2>6
<1>6. CASE c \notin {Tty!BS, Tty!NL, Tty!CR, Tty!TAB}
  <2>1. Tty!cga_putc(s, c) = Tty!Show(s, c)
    BY <1>6 DEF Tty!cga_putc
  <2> QED
    BY <2>1, ShowTypes
<1> QED
  BY <1>2, <1>3, <1>4, <1>5, <1>6

\* The line ln is on the screen s, and the cursor after it.
Echo(s, ln) ==
  /\ s.pos = s.start + Len(ln)
  /\ \A i \in DOMAIN ln : s.buf[s.start + i - 1] = ln[i]

\* What is added to a line is shown after it, and scrolled with it.
LEMMA ShowEchoes ==
  ASSUME Tty!ConsoleAssumption, NEW s \in Screens, NEW ln \in Seq(Byte), Echo(s, ln), NEW c \in Byte,
         Len(ln) < BUFLEN - 1
  PROVE  Echo(Tty!Show(s, c), Append(ln, c))
<1> DEFINE t == [s EXCEPT !.buf[s.pos] = c, !.pos = @ + 1]
           m == Append(ln, c)
<1>1. /\ CRT_COLS \in Nat \ {0} /\ Tty!CRT_SIZE \in Nat /\ BUFLEN \in Nat
      /\ 1 + BUFLEN <= Tty!CRT_SIZE - CRT_COLS
      /\ s.buf \in [Tty!Cell -> Byte] /\ s.pos \in Tty!Cell /\ s.start \in Nat
      /\ s.pos \in Nat /\ s.pos < Tty!CRT_SIZE
  BY ConsoleSizes DEF Screens, Tty!Cell
<1>2. Len(ln) \in Nat /\ DOMAIN ln = 1..Len(ln) /\ s.pos = s.start + Len(ln)
  BY LenProperties DEF Echo
<1>3. /\ m \in Seq(Byte) /\ Len(m) = Len(ln) + 1
      /\ \A i \in 1..Len(ln) : m[i] = ln[i]
      /\ m[Len(ln) + 1] = c
  BY <1>2, AppendProperties
<1>4. DOMAIN m = 1..(Len(ln) + 1)
  BY <1>3, LenProperties
<1>5. t.pos = s.pos + 1 /\ t.start = s.start /\ t.buf = [s.buf EXCEPT ![s.pos] = c]
  BY DEF Screens
<1>6. Tty!Show(s, c) = Tty!Scroll(t)
  BY DEF Tty!Show
<1> HIDE DEF t, m
<1>7. ASSUME NEW i \in 1..(Len(ln) + 1)
      PROVE  s.start + i - 1 \in Tty!Cell /\ t.buf[s.start + i - 1] = m[i]
  <2>1. s.start + i - 1 \in Tty!Cell
    BY <1>1, <1>2 DEF Tty!Cell
  <2>2. CASE i = Len(ln) + 1
    <3>1. s.start + i - 1 = s.pos
      BY <1>1, <1>2, <2>2
    <3> QED
      BY <1>1, <1>3, <1>5, <2>1, <2>2, <3>1
  <2>3. CASE i # Len(ln) + 1
    <3>1. i \in 1..Len(ln) /\ s.start + i - 1 # s.pos
      <4>1. s.start \in Nat /\ Len(ln) \in Nat /\ s.pos = s.start + Len(ln)
        BY <1>1, <1>2
      <4> QED
        BY <2>3, <4>1
    <3>2. s.buf[s.start + i - 1] = ln[i]
      BY <1>2, <3>1 DEF Echo
    <3> QED
      BY <1>1, <1>3, <1>5, <2>1, <3>1, <3>2
  <2> QED
    BY <2>1, <2>2, <2>3
<1>8. CASE t.pos < Tty!CRT_SIZE
  <2>1. Tty!Show(s, c) = t
    BY <1>6, <1>8 DEF Tty!Scroll
  <2>2. t.pos = t.start + Len(m)
    BY <1>1, <1>2, <1>3, <1>5
  <2>3. \A i \in DOMAIN m : t.buf[t.start + i - 1] = m[i]
    BY <1>4, <1>5, <1>7
  <2> QED
    BY <2>1, <2>2, <2>3 DEF Echo, m
<1>9. CASE ~(t.pos < Tty!CRT_SIZE)
  <2> DEFINE b == [i \in Tty!Cell |-> IF i + CRT_COLS \in Tty!Cell THEN t.buf[i + CRT_COLS] ELSE Tty!SPACE]
  <2>1. s.start >= CRT_COLS
    BY <1>1, <1>2, <1>5, <1>9
  <2>2. Tty!Show(s, c) = [buf |-> b, pos |-> t.pos - CRT_COLS, start |-> s.start - CRT_COLS]
    BY <1>5, <1>6, <1>9, <2>1 DEF Tty!Scroll
  <2>3. ASSUME NEW i \in 1..(Len(ln) + 1)
        PROVE  b[(s.start - CRT_COLS) + i - 1] = m[i]
    <3>1. (s.start - CRT_COLS) + i - 1 \in Tty!Cell
      <4>1. s.start \in Nat /\ CRT_COLS \in Nat /\ Tty!CRT_SIZE \in Nat /\ i \in Nat /\ i >= 1
        BY <1>1, <1>2
      <4>2. s.start + i - 1 < Tty!CRT_SIZE
        BY <1>1, <1>7 DEF Tty!Cell
      <4> QED
        BY <2>1, <4>1, <4>2 DEF Tty!Cell
    <3>2. ((s.start - CRT_COLS) + i - 1) + CRT_COLS = s.start + i - 1
      BY <1>1, <1>2
    <3>3. s.start + i - 1 \in Tty!Cell /\ t.buf[s.start + i - 1] = m[i]
      BY <1>7
    <3> QED
      BY <3>1, <3>2, <3>3
  <2> HIDE DEF b
  <2>4. t.pos - CRT_COLS = (s.start - CRT_COLS) + Len(m)
    <3>1. t.pos = s.pos + 1 /\ s.pos = s.start + Len(ln) /\ Len(m) = Len(ln) + 1
      BY <1>2, <1>3, <1>5
    <3>2. s.start \in Nat /\ Len(ln) \in Nat /\ CRT_COLS \in Nat
      BY <1>1, <1>2
    <3> QED
      BY <3>1, <3>2
  <2> QED
    BY <1>4, <2>2, <2>3, <2>4 DEF Echo, m
<1> QED
  BY <1>8, <1>9

\* The last character of a line is erased, over the end of a row too.
LEMMA EraseEchoes ==
  ASSUME Tty!ConsoleAssumption, NEW s \in Screens, NEW ln \in Seq(Byte), Echo(s, ln), ln # <<>>
  PROVE  /\ Echo(Tty!Erase(s), Tty!Front(ln)) /\ Tty!Front(ln) \in Seq(Byte)
         /\ Len(Tty!Front(ln)) = Len(ln) - 1
<1> DEFINE m == Tty!Front(ln)
<1>1. /\ s.buf \in [Tty!Cell -> Byte] /\ s.pos \in Tty!Cell /\ s.start \in Nat /\ s.pos \in Nat
      /\ Tty!CRT_SIZE \in Nat
  BY ConsoleSizes DEF Screens, Tty!Cell
<1>2. /\ Len(ln) \in Nat /\ Len(ln) > 0 /\ DOMAIN ln = 1..Len(ln)
      /\ s.pos = s.start + Len(ln)
      /\ \A i \in 1..Len(ln) : ln[i] \in Byte
  BY LenProperties, EmptySeq, ElementOfSeq DEF Echo
<1>3. /\ m \in Seq(Byte) /\ Len(m) = Len(ln) - 1
      /\ \A i \in 1..(Len(ln) - 1) : m[i] = ln[i]
  <2>1. m = SubSeq(ln, 1, Len(ln) - 1)
    BY DEF Tty!Front
  <2>2. \A i \in 1..(Len(ln) - 1) : ln[i] \in Byte
    BY <1>2
  <2>3. 1 \in Int /\ Len(ln) - 1 \in Int
    BY <1>2
  <2>4. /\ SubSeq(ln, 1, Len(ln) - 1) \in Seq(Byte)
        /\ Len(SubSeq(ln, 1, Len(ln) - 1)) = IF 1 <= Len(ln) - 1 THEN (Len(ln) - 1) - 1 + 1 ELSE 0
        /\ \A i \in 1..((Len(ln) - 1) - 1 + 1) : SubSeq(ln, 1, Len(ln) - 1)[i] = ln[1 + i - 1]
    BY <2>2, <2>3, SubSeqProperties
  <2> QED
    BY <1>2, <2>1, <2>4
<1>4. DOMAIN m = 1..(Len(ln) - 1)
  BY <1>3, LenProperties
<1> HIDE DEF m
<1> DEFINE t == Tty!Erase(s)
<1>5. t = [s EXCEPT !.buf[s.pos - 1] = Tty!SPACE, !.pos = @ - 1]
  BY <1>1, <1>2 DEF Tty!Erase
<1>6. t.pos = s.pos - 1 /\ t.start = s.start /\ t.buf = [s.buf EXCEPT ![s.pos - 1] = Tty!SPACE]
  BY <1>5 DEF Screens
<1> HIDE DEF t
<1>7. ASSUME NEW i \in 1..(Len(ln) - 1)
      PROVE  t.buf[s.start + i - 1] = m[i]
  <2>1. s.start + i - 1 # s.pos - 1 /\ s.start + i - 1 \in Tty!Cell
    BY <1>1, <1>2 DEF Tty!Cell
  <2>2. i \in DOMAIN ln
    BY <1>2
  <2>3. s.buf[s.start + i - 1] = ln[i]
    BY <2>2 DEF Echo
  <2> QED
    BY <1>1, <1>3, <1>6, <2>1, <2>3
<1>8. Echo(t, m)
  BY <1>1, <1>2, <1>3, <1>4, <1>6, <1>7 DEF Echo
<1> QED
  BY <1>3, <1>8 DEF m, t

-----------------------------------------------------------------------------
(* Console: the modifiers.                                                 *)

\* Of the modifiers s none is in effect but those of the keys in held.
FreeKeys(s, held) == s \cap (Tty!Mods \cup {"E0ESC"}) \subseteq {Tty!ModOf(k) : k \in held}
ModBits(k) == IF Tty!ModOf(k) \in Tty!Mods THEN {Tty!ModOf(k)} ELSE {}

LEMMA KeyTable ==
  ASSUME NEW k \in DOMAIN Tty!KeyCode
  PROVE  \E c \in 1..95 :
           \/ /\ Tty!KeyCode[k] = <<c>> /\ Tty!Released(Tty!KeyCode[k]) = <<c + 128>>
              /\ Tty!shiftcode(c) = ModBits(k)
           \/ /\ Tty!KeyCode[k] = <<Tty!E0, c>> /\ Tty!Released(Tty!KeyCode[k]) = <<Tty!E0, c + 128>>
              /\ Tty!shiftcode(c + 128) = ModBits(k)
<1>1. \A c \in Nat : Tty!Released(<<c>>) = <<c + 128>> /\ Tty!Released(<<Tty!E0, c>>) = <<Tty!E0, c + 128>>
  BY DEF Tty!Released
<1> DEFINE Plain(c) == Tty!KeyCode[k] = <<c>> /\ Tty!shiftcode(c) = ModBits(k)
           Escaped(c) == Tty!KeyCode[k] = <<Tty!E0, c>> /\ Tty!shiftcode(c + 128) = ModBits(k)
<1>2. CASE k = "a"
  <2>1. Plain(30)
    BY <1>2 DEF Tty!KeyCode, Tty!shiftcode, ModBits, Tty!ModOf, Tty!Mods
  <2> QED
    BY <1>1, <2>1, 30 \in 1..95
<1>3. CASE k = "d"
  <2>1. Plain(32)
    BY <1>3 DEF Tty!KeyCode, Tty!shiftcode, ModBits, Tty!ModOf, Tty!Mods
  <2> QED
    BY <1>1, <2>1, 32 \in 1..95
<1>4. CASE k = "backspace"
  <2>1. Plain(14)
    BY <1>4 DEF Tty!KeyCode, Tty!shiftcode, ModBits, Tty!ModOf, Tty!Mods
  <2> QED
    BY <1>1, <2>1, 14 \in 1..95
<1>5. CASE k = "enter"
  <2>1. Plain(28)
    BY <1>5 DEF Tty!KeyCode, Tty!shiftcode, ModBits, Tty!ModOf, Tty!Mods
  <2> QED
    BY <1>1, <2>1, 28 \in 1..95
<1>6. CASE k = "shift"
  <2>1. Plain(42)
    BY <1>6 DEF Tty!KeyCode, Tty!shiftcode, ModBits, Tty!ModOf, Tty!Mods
  <2> QED
    BY <1>1, <2>1, 42 \in 1..95
<1>7. CASE k = "ctl"
  <2>1. Plain(29)
    BY <1>7 DEF Tty!KeyCode, Tty!shiftcode, ModBits, Tty!ModOf, Tty!Mods
  <2> QED
    BY <1>1, <2>1, 29 \in 1..95
<1>8. CASE k = "rightctl"
  <2>1. Escaped(29)
    BY <1>8 DEF Tty!KeyCode, Tty!shiftcode, ModBits, Tty!ModOf, Tty!Mods
  <2> QED
    BY <1>1, <2>1, 29 \in 1..95
<1>9. CASE k = "alt"
  <2>1. Plain(56)
    BY <1>9 DEF Tty!KeyCode, Tty!shiftcode, ModBits, Tty!ModOf, Tty!Mods
  <2> QED
    BY <1>1, <2>1, 56 \in 1..95
<1>10. CASE k = "caps"
  <2>1. Plain(58)
    BY <1>10 DEF Tty!KeyCode, Tty!shiftcode, ModBits, Tty!ModOf, Tty!Mods
  <2> QED
    BY <1>1, <2>1, 58 \in 1..95
<1>11. CASE k = "delete"
  <2>1. Escaped(83)
    BY <1>11 DEF Tty!KeyCode, Tty!shiftcode, ModBits, Tty!ModOf, Tty!Mods
  <2> QED
    BY <1>1, <2>1, 83 \in 1..95
<1>12. k \in {"a", "d", "backspace", "enter", "shift", "ctl", "rightctl", "alt", "caps", "delete"}
  BY DEF Tty!KeyCode
<1> QED
  BY <1>2, <1>3, <1>4, <1>5, <1>6, <1>7, <1>8, <1>9, <1>10, <1>11, <1>12

\* What a code does to the modifiers.
LEMMA ShiftAfter ==
  ASSUME NEW s \in SUBSET ShiftBit, NEW c \in 1..95
  PROVE  /\ Tty!kbd_proc_data(s, Tty!E0).shift = s \cup {"E0ESC"}
         /\ "E0ESC" \notin s =>
              /\ Tty!kbd_proc_data(s, c).shift
                   = Tty!Toggled((s \ {"E0ESC"}) \cup Tty!shiftcode(c), Tty!togglecode(c))
              /\ Tty!kbd_proc_data(s, c + 128).shift = s \ (Tty!shiftcode(c) \cup {"E0ESC"})
<1>1. /\ c \in Nat /\ c + 128 \in Nat /\ c # Tty!E0 /\ c + 128 # Tty!E0 /\ c < 128 /\ ~(c >= 128)
      /\ c + 128 >= 128 /\ ~(c + 128 < 128)
  BY DEF Tty!E0
<1>2. (c + 128) % 128 = c /\ c % 128 = c
  <2>1. (128 * 1 + c) % 128 = c /\ (128 * 0 + c) % 128 = c
    BY Quotient, 128 \in Nat \ {0}, 1 \in Nat, 0 \in Nat, c \in 0..(128-1)
  <2>2. 128 * 1 + c = c + 128 /\ 128 * 0 + c = c
    OBVIOUS
  <2> QED
    BY <2>1, <2>2
<1>3. \A m : Tty!Silent(m).shift = m
  BY DEF Tty!Silent
<1>4. \A m, x : Tty!Pressed(m, x).shift = m
  BY DEF Tty!Pressed
<1>5. Tty!kbd_proc_data(s, Tty!E0) = Tty!Silent(s \cup {"E0ESC"})
  BY DEF Tty!kbd_proc_data
<1>6. ASSUME "E0ESC" \notin s
      PROVE  /\ Tty!kbd_proc_data(s, c)
                  = Tty!Pressed(Tty!Toggled((s \ {"E0ESC"}) \cup Tty!shiftcode(c),
                                            Tty!togglecode(c)), c)
             /\ Tty!kbd_proc_data(s, c + 128) = Tty!Silent(s \ (Tty!shiftcode(c) \cup {"E0ESC"}))
  BY <1>1, <1>2, <1>6 DEF Tty!kbd_proc_data
<1> QED
  BY <1>3, <1>4, <1>5, <1>6

LEMMA EscapedAfter ==
  ASSUME NEW s \in SUBSET ShiftBit, NEW c \in 1..95, "E0ESC" \in s
  PROVE  /\ Tty!kbd_proc_data(s, c).shift =
              Tty!Toggled((s \ {"E0ESC"}) \cup Tty!shiftcode(c + 128), Tty!togglecode(c + 128))
         /\ Tty!kbd_proc_data(s, c + 128).shift = s \ (Tty!shiftcode(c + 128) \cup {"E0ESC"})
<1>1. /\ c \in Nat /\ c + 128 \in Nat /\ c # Tty!E0 /\ c + 128 # Tty!E0 /\ c < 128 /\ ~(c >= 128)
      /\ c + 128 >= 128 /\ ~(c + 128 < 128)
  BY DEF Tty!E0
<1>2. Tty!kbd_proc_data(s, c) =
        Tty!Pressed(Tty!Toggled((s \ {"E0ESC"}) \cup Tty!shiftcode(c + 128),
                                Tty!togglecode(c + 128)), c + 128)
  BY <1>1 DEF Tty!kbd_proc_data
<1>3. Tty!kbd_proc_data(s, c + 128) = Tty!Silent(s \ (Tty!shiftcode(c + 128) \cup {"E0ESC"}))
  BY <1>1 DEF Tty!kbd_proc_data
<1>4. \A m, x : Tty!Silent(m).shift = m /\ Tty!Pressed(m, x).shift = m
  BY DEF Tty!Silent, Tty!Pressed
<1> QED
  BY <1>2, <1>3, <1>4

\* The modifiers after the one or two codes of a key.
AfterCodes(s, codes) ==
  LET first == Tty!kbd_proc_data(s, codes[1]).shift
  IN  IF Len(codes) = 1 THEN first ELSE Tty!kbd_proc_data(first, codes[2]).shift

LEMMA KeyFrees ==
  ASSUME NEW k \in DOMAIN Tty!KeyCode, NEW held, NEW s \in SUBSET ShiftBit, FreeKeys(s, held)
  PROVE  /\ FreeKeys(AfterCodes(s, Tty!KeyCode[k]), held \cup {k})
         /\ FreeKeys(AfterCodes(s, Tty!Released(Tty!KeyCode[k])), held \ {k})
<1>1. \A j : Tty!ModOf(j) # "E0ESC"
  BY DEF Tty!ModOf
<1>2. "E0ESC" \notin s
  BY <1>1 DEF FreeKeys
<1>3. /\ \A c : Tty!togglecode(c) \in SUBSET {"CAPSLOCK", "NUMLOCK", "SCROLLLOCK"}
      /\ Tty!Mods = {"CTL", "SHIFT", "ALT"}
  BY CodeTables DEF Tty!Mods
<1> DEFINE t == s \cup {"E0ESC"}
<1>4. t \in SUBSET ShiftBit /\ "E0ESC" \in t /\ t \ {"E0ESC"} = s /\ s \ {"E0ESC"} = s
  BY <1>2 DEF ShiftBit
<1>5. ASSUME NEW c, NEW u \in {s, t}
      PROVE  /\ FreeKeys(Tty!Toggled((u \ {"E0ESC"}) \cup ModBits(k), Tty!togglecode(c)), held \cup {k})
             /\ FreeKeys(u \ (ModBits(k) \cup {"E0ESC"}), held \ {k})
  <2>1. u \ {"E0ESC"} = s
    BY <1>4
  <2>2. ASSUME NEW m \in Tty!Toggled(s \cup ModBits(k), Tty!togglecode(c)), m \in Tty!Mods \cup {"E0ESC"}
        PROVE  m \in {Tty!ModOf(j) : j \in held \cup {k}}
    <3>1. m \in s \cup ModBits(k)
      BY <1>3, <2>2 DEF Tty!Toggled
    <3>2. CASE m \in s
      BY <2>2, <3>2 DEF FreeKeys
    <3>3. CASE m \in ModBits(k)
      BY <3>3 DEF ModBits
    <3> QED
      BY <3>1, <3>2, <3>3
  <2>3. ASSUME NEW m \in u, m \notin ModBits(k) \cup {"E0ESC"}, m \in Tty!Mods \cup {"E0ESC"}
        PROVE  m \in {Tty!ModOf(j) : j \in held \ {k}}
    <3>1. PICK j \in held : m = Tty!ModOf(j)
      BY <1>4, <2>3 DEF FreeKeys
    <3>2. j # k
      BY <2>3, <3>1 DEF ModBits
    <3> QED
      BY <3>1, <3>2
  <2> QED
    BY <2>1, <2>2, <2>3 DEF FreeKeys
<1>6. PICK c \in 1..95 :
           \/ /\ Tty!KeyCode[k] = <<c>> /\ Tty!Released(Tty!KeyCode[k]) = <<c + 128>>
              /\ Tty!shiftcode(c) = ModBits(k)
           \/ /\ Tty!KeyCode[k] = <<Tty!E0, c>> /\ Tty!Released(Tty!KeyCode[k]) = <<Tty!E0, c + 128>>
              /\ Tty!shiftcode(c + 128) = ModBits(k)
  BY KeyTable
<1> HIDE DEF t
<1>7. CASE /\ Tty!KeyCode[k] = <<c>> /\ Tty!Released(Tty!KeyCode[k]) = <<c + 128>>
           /\ Tty!shiftcode(c) = ModBits(k)
  <2>1. /\ AfterCodes(s, Tty!KeyCode[k]) = Tty!kbd_proc_data(s, c).shift
        /\ AfterCodes(s, Tty!Released(Tty!KeyCode[k])) = Tty!kbd_proc_data(s, c + 128).shift
    BY <1>7 DEF AfterCodes
  <2>2. /\ Tty!kbd_proc_data(s, c).shift = Tty!Toggled((s \ {"E0ESC"}) \cup ModBits(k), Tty!togglecode(c))
        /\ Tty!kbd_proc_data(s, c + 128).shift = s \ (ModBits(k) \cup {"E0ESC"})
    <3>1. /\ Tty!kbd_proc_data(s, c).shift
               = Tty!Toggled((s \ {"E0ESC"}) \cup Tty!shiftcode(c), Tty!togglecode(c))
          /\ Tty!kbd_proc_data(s, c + 128).shift = s \ (Tty!shiftcode(c) \cup {"E0ESC"})
      BY <1>2, ShiftAfter
    <3>2. Tty!shiftcode(c) = ModBits(k)
      BY <1>7
    <3> QED
      BY <3>1, <3>2
  <2>3. /\ FreeKeys(Tty!Toggled((s \ {"E0ESC"}) \cup ModBits(k), Tty!togglecode(c)), held \cup {k})
        /\ FreeKeys(s \ (ModBits(k) \cup {"E0ESC"}), held \ {k})
    BY <1>5
  <2> QED
    BY <2>1, <2>2, <2>3
<1>8. CASE /\ Tty!KeyCode[k] = <<Tty!E0, c>> /\ Tty!Released(Tty!KeyCode[k]) = <<Tty!E0, c + 128>>
           /\ Tty!shiftcode(c + 128) = ModBits(k)
  <2>1. Tty!kbd_proc_data(s, Tty!E0).shift = t
    BY ShiftAfter DEF t
  <2>2. /\ AfterCodes(s, Tty!KeyCode[k]) = Tty!kbd_proc_data(t, c).shift
        /\ AfterCodes(s, Tty!Released(Tty!KeyCode[k])) = Tty!kbd_proc_data(t, c + 128).shift
    BY <1>8, <2>1 DEF AfterCodes
  <2>3. /\ Tty!kbd_proc_data(t, c).shift =
             Tty!Toggled((t \ {"E0ESC"}) \cup ModBits(k), Tty!togglecode(c + 128))
        /\ Tty!kbd_proc_data(t, c + 128).shift = t \ (ModBits(k) \cup {"E0ESC"})
    <3>1. /\ Tty!kbd_proc_data(t, c).shift =
               Tty!Toggled((t \ {"E0ESC"}) \cup Tty!shiftcode(c + 128), Tty!togglecode(c + 128))
          /\ Tty!kbd_proc_data(t, c + 128).shift = t \ (Tty!shiftcode(c + 128) \cup {"E0ESC"})
      <4>1. t \in SUBSET ShiftBit /\ "E0ESC" \in t
        BY <1>4
      <4> QED
        BY <4>1, EscapedAfter
    <3>2. Tty!shiftcode(c + 128) = ModBits(k)
      BY <1>8
    <3> QED
      BY <3>1, <3>2
  <2>4. /\ FreeKeys(Tty!Toggled((t \ {"E0ESC"}) \cup ModBits(k), Tty!togglecode(c + 128)), held \cup {k})
        /\ FreeKeys(t \ (ModBits(k) \cup {"E0ESC"}), held \ {k})
    BY <1>5
  <2> QED
    BY <2>2, <2>3, <2>4
<1> QED
  BY <1>6, <1>7, <1>8

LEMMA KeyCodes ==
  ASSUME NEW k \in DOMAIN Tty!KeyCode, NEW codes \in {Tty!KeyCode[k], Tty!Released(Tty!KeyCode[k])}
  PROVE  codes \in Seq(Byte) /\ Len(codes) \in {1, 2}
<1>1. PICK c \in 1..95 : \/ /\ Tty!KeyCode[k] = <<c>>
                            /\ Tty!Released(Tty!KeyCode[k]) = <<c + 128>>
                         \/ /\ Tty!KeyCode[k] = <<Tty!E0, c>>
                            /\ Tty!Released(Tty!KeyCode[k]) = <<Tty!E0, c + 128>>
  BY KeyTable
<1>2. c \in Byte /\ c + 128 \in Byte /\ Tty!E0 \in Byte
  BY DEF Tty!E0, Byte
<1>3. \A x \in Byte : <<x>> \in Seq(Byte) /\ Len(<<x>>) = 1
  OBVIOUS
<1>4. \A x, y \in Byte : <<x, y>> \in Seq(Byte) /\ Len(<<x, y>>) = 2
  OBVIOUS
<1>5. codes \in {<<c>>, <<c + 128>>, <<Tty!E0, c>>, <<Tty!E0, c + 128>>}
  BY <1>1
<1>6. \A x \in {<<c>>, <<c + 128>>} : x \in Seq(Byte) /\ Len(x) = 1
  BY <1>2, <1>3
<1>7. \A x \in {<<Tty!E0, c>>, <<Tty!E0, c + 128>>} : x \in Seq(Byte) /\ Len(x) = 2
  BY <1>2, <1>4
<1> QED
  BY <1>5, <1>6, <1>7

-----------------------------------------------------------------------------
(* Console: the inductive invariant.                                       *)

Readers ==
  {"monitor", "program"}
    \X {"prompt", "reading", "char", "eof", "destroyed", "reset"} \X Byte
Devices ==
  /\ kbd \in Seq(Byte) /\ com \in {<<>>} \cup {<<b>> : b \in Byte}
  /\ shift \in SUBSET ShiftBit /\ cons \in Rings /\ owed \in Seq(Byte)
LineTypes ==
  /\ screen \in Screens /\ line \in Seq(Byte) /\ Len(line) < BUFLEN
  /\ reader \in Readers /\ (Tty!HasChar => Tty!Char # 0)

\* Once the codes that wait are decoded no key is taken to be down that is not.
Follows(t, s, codes) ==
  t[0] = s /\ \A n \in 1..Len(codes) : t[n] = Tty!kbd_proc_data(t[n-1], codes[n]).shift
KeysFollow ==
  \A t \in [0..Len(kbd) -> SUBSET ShiftBit] : Follows(t, shift, kbd) => FreeKeys(t[Len(kbd)], down)

Echoed == Tty!Reading \/ Tty!HasChar => Echo(screen, line)

ConsoleInv == Devices /\ LineTypes /\ KeysFollow /\ Tty!MonitorReadsAll /\ Echoed

\* What the two polls of cons_getc leave.
LEMMA PolledIs ==
  ASSUME Tty!ConsoleAssumption, Devices, KeysFollow
  PROVE  /\ Tty!Polled \in Inputs /\ FreeKeys(Tty!Polled.shift, down)
         /\ Tty!Buffered(cons) = owed => Owing(Tty!Polled)
<1> DEFINE in == IF com = <<>> THEN Tty!Input ELSE Tty!Put(Tty!Input, com[1])
           n == Len(kbd)
<1>1. /\ Tty!Input \in Inputs /\ Tty!Input.shift = shift
      /\ Owing(Tty!Input) <=> Tty!Buffered(cons) = owed
  BY DEF Tty!Input, Inputs, Devices, Owing
<1>2. /\ in \in Inputs /\ in.shift = shift
      /\ Tty!Buffered(cons) = owed => Owing(in)
  <2>1. CASE com = <<>>
    BY <1>1, <2>1
  <2>2. CASE com # <<>>
    <3>1. com[1] \in Byte
      BY <2>2 DEF Devices
    <3> QED
      BY <1>1, <2>2, <3>1, PutKept
  <2> QED
    BY <2>1, <2>2
<1> HIDE DEF in
<1>3. n \in Nat /\ kbd \in Seq(Byte)
  BY LenProperties DEF Devices
<1>4. PICK d \in [0..n -> Inputs] :
        /\ d[0] = in /\ Tty!DecodeAll(in, kbd) = d[n]
        /\ \A m \in 1..n : d[m] = Tty!Decode(d[m-1], kbd[m])
        /\ Owing(in) => Owing(d[n])
  BY <1>2, <1>3, DecodeAllIs
<1>5. Tty!Polled = d[n]
  BY <1>4 DEF Tty!Polled, in
<1> HIDE DEF n
<1>6. \A m \in 0..n : d[m] \in Inputs
  BY <1>4
<1> DEFINE t == [m \in 0..n |-> d[m].shift]
<1>7. t \in [0..n -> SUBSET ShiftBit]
  BY <1>6 DEF Inputs
<1>8. t[0] = shift
  BY <1>2, <1>3, <1>4
<1>9. ASSUME NEW m \in 1..n PROVE t[m] = Tty!kbd_proc_data(t[m-1], kbd[m]).shift
  <2>1. m - 1 \in 0..n /\ m \in 0..n
    BY <1>3
  <2>2. d[m-1] \in Inputs /\ d[m] = Tty!Decode(d[m-1], kbd[m])
    BY <1>4, <1>6, <2>1
  <2>3. d[m].shift = Tty!kbd_proc_data(d[m-1].shift, kbd[m]).shift
    BY <2>2, DecodeKept
  <2> QED
    BY <2>1, <2>3
<1>10. FreeKeys(t[n], down)
  <2> HIDE DEF t
  <2> QED
    BY <1>7, <1>8, <1>9 DEF KeysFollow, Follows, n
<1>11. t[n] = Tty!Polled.shift
  BY <1>3, <1>5
<1> QED
  BY <1>2, <1>3, <1>4, <1>5, <1>6, <1>10, <1>11

LEMMA GetcKept ==
  ASSUME Tty!ConsoleAssumption, Devices, KeysFollow, NEW read \in BOOLEAN, Tty!Getc(read), down' = down
  PROVE  /\ Devices' /\ KeysFollow'
         /\ read /\ Tty!Buffered(cons) = owed => Tty!Buffered(cons)' = owed'
         /\ Tty!FirstChar(Tty!Polled.cons) \in Byte
<1>1. /\ Tty!Polled \in Inputs /\ FreeKeys(Tty!Polled.shift, down)
      /\ Tty!Buffered(cons) = owed => Owing(Tty!Polled)
  BY PolledIs
<1>2. Tty!Polled.shift \in SUBSET ShiftBit /\ Tty!Polled.cons \in Rings /\ Tty!Polled.owed \in Seq(Byte)
  BY <1>1 DEF Inputs
<1>3. /\ kbd' = <<>> /\ com' = <<>> /\ shift' = Tty!Polled.shift /\ cons' = Tty!Taken(Tty!Polled.cons)
      /\ owed' = IF read /\ Tty!Polled.owed # <<>> THEN Tail(Tty!Polled.owed) ELSE Tty!Polled.owed
  BY DEF Tty!Getc
<1>4. /\ Tty!Taken(Tty!Polled.cons) \in Rings /\ Tty!FirstChar(Tty!Polled.cons) \in Byte
      /\ Tty!Buffered(Tty!Taken(Tty!Polled.cons)) =
           IF Tty!Buffered(Tty!Polled.cons) # <<>> THEN Tail(Tty!Buffered(Tty!Polled.cons)) ELSE <<>>
  BY <1>2, TakenBuffered
<1>5. owed' \in Seq(Byte)
  BY <1>2, <1>3, HeadTailProperties
<1>6. Devices'
  <2>1. kbd' \in Seq(Byte)
    BY <1>3, EmptySeq
  <2> QED
    BY <1>2, <1>3, <1>4, <1>5, <2>1 DEF Devices
<1>7. KeysFollow'
  <2>1. Len(kbd') = 0
    BY <1>3, EmptySeq
  <2>2. ASSUME NEW t \in [0..Len(kbd') -> SUBSET ShiftBit], Follows(t, shift', kbd')
        PROVE  FreeKeys(t[Len(kbd')], down')
    BY <1>1, <1>3, <2>1, <2>2 DEF Follows
  <2> QED
    BY <2>2 DEF KeysFollow
<1>8. ASSUME read, Tty!Buffered(cons) = owed PROVE Tty!Buffered(cons)' = owed'
  <2>1. Tty!Buffered(Tty!Polled.cons) = Tty!Polled.owed
    BY <1>1, <1>8 DEF Owing
  <2>2. Tty!Buffered(cons') = owed'
    BY <1>3, <1>4, <1>8, <2>1
  <2> QED
    BY <2>2 DEF Tty!Buffered
<1> QED
  BY <1>4, <1>6, <1>7, <1>8

\* Whatever is printed, the keyboard and the ring are as they should be.
LEMMA PrintKept ==
  ASSUME Tty!ConsoleAssumption, ConsoleInv, NEW shown \in Screens, NEW next \in {"prompt", "reading"},
         Tty!PrintThen(shown, next), down' = down
  PROVE  /\ Devices' /\ KeysFollow' /\ Tty!MonitorReadsAll'
         /\ screen' = shown
         /\ reader' \in Readers /\ ~Tty!HasChar' /\ (Tty!Reading' => next = "reading")
<1>1. screen' = shown
  BY DEF Tty!PrintThen
<1>2. reader \in Readers /\ Tty!Mode \in {"monitor", "program"}
  BY DEF ConsoleInv, LineTypes, Readers, Tty!Mode
<1>3. \E r \in {next, "reset"} : reader' = <<Tty!Mode, r, 0>>
  BY DEF Tty!PrintThen, Tty!Goes
<1>4. /\ reader' \in Readers /\ ~Tty!HasChar' /\ (Tty!Reading' => next = "reading") /\ Tty!Mode' = Tty!Mode
  <2>1. PICK r \in {next, "reset"} : reader' = <<Tty!Mode, r, 0>>
    BY <1>3
  <2>2. reader'[1] = Tty!Mode /\ reader'[2] = r
    BY <2>1
  <2>3. 0 \in Byte
    BY DEF Byte
  <2> QED
    BY <1>2, <2>1, <2>2, <2>3 DEF Readers, Tty!HasChar, Tty!Reading, Tty!Mode
<1>5. CASE Tty!Mode = "monitor"
  <2>1. UNCHANGED <<kbd, com, shift, cons, owed>>
    BY <1>5 DEF Tty!PrintThen
  <2>2. Devices'
    BY <2>1 DEF Devices, ConsoleInv
  <2>3. KeysFollow'
    BY <2>1 DEF KeysFollow, ConsoleInv
  <2>4. Tty!MonitorReadsAll'
    BY <1>4, <2>1 DEF Tty!MonitorReadsAll, ConsoleInv, Tty!Buffered
  <2> QED
    BY <1>1, <1>4, <2>2, <2>3, <2>4
<1>6. CASE Tty!Mode = "program"
  <2>1. Tty!Getc(FALSE)
    BY <1>6 DEF Tty!PrintThen
  <2>2. Devices' /\ KeysFollow'
    BY <2>1, GetcKept DEF ConsoleInv
  <2>3. Tty!MonitorReadsAll'
    BY <1>4, <1>6 DEF Tty!MonitorReadsAll
  <2> QED
    BY <1>1, <1>4, <2>2, <2>3
<1> QED
  BY <1>2, <1>5, <1>6

-----------------------------------------------------------------------------
(* Console: the steps.                                                     *)

LEMMA ConsoleStarts ==
  ASSUME Tty!ConsoleAssumption, Tty!Init
  PROVE  ConsoleInv
<1>1. /\ CONSBUFSIZE \in Nat /\ CONSBUFSIZE > 1 /\ BUFLEN \in Nat /\ BUFLEN > 0
      /\ Tty!CRT_SIZE \in Nat /\ Tty!CRT_SIZE > 0 /\ 0 \in Byte /\ Tty!SPACE \in Byte
  BY ConsoleSizes DEF Byte, Tty!SPACE
<1>2. /\ kbd = <<>> /\ com = <<>> /\ shift = {} /\ owed = <<>> /\ line = <<>>
      /\ cons = [buf |-> [i \in RingPos |-> 0], rpos |-> 0, wpos |-> 0]
      /\ screen = [buf |-> [i \in Tty!Cell |-> Tty!SPACE], pos |-> 0, start |-> 0]
      /\ \E mode \in {"monitor", "program"} : reader = <<mode, "prompt", 0>>
  BY DEF Tty!Init, RingPos
<1>3. cons \in Rings
  BY <1>1, <1>2 DEF Rings, RingPos
<1>4. Devices
  BY <1>2, <1>3, EmptySeq DEF Devices
<1>5. screen \in Screens
  BY <1>1, <1>2 DEF Screens, Tty!Cell
<1>6. reader \in Readers /\ ~Tty!HasChar /\ ~Tty!Reading
  BY <1>1, <1>2 DEF Readers, Tty!HasChar, Tty!Reading
<1>7. LineTypes
  BY <1>1, <1>2, <1>5, <1>6, EmptySeq DEF LineTypes
<1>8. KeysFollow
  <2>1. Len(kbd) = 0
    BY <1>2, EmptySeq
  <2> QED
    BY <1>2, <2>1 DEF KeysFollow, Follows, FreeKeys
<1>9. Tty!MonitorReadsAll
  <2>1. Used(cons) = 0
    BY <1>2 DEF Used
  <2>2. Tty!Buffered(cons) \in Seq(Byte) /\ Len(Tty!Buffered(cons)) = 0
    BY <1>3, <2>1, BufferedIs
  <2> QED
    BY <1>2, <2>2, EmptySeq DEF Tty!MonitorReadsAll
<1> QED
  BY <1>4, <1>6, <1>7, <1>8, <1>9 DEF ConsoleInv, Echoed

LEMMA OutputStep ==
  ASSUME Tty!ConsoleAssumption, ConsoleInv, NEW c \in Printed, Tty!Output(c)
  PROVE  ConsoleInv'
<1>1. Tty!cga_putc(screen, c) \in Screens
  BY ConsoleSizes, PutcTypes DEF ConsoleInv, LineTypes
<1>2. Tty!PrintThen(Tty!cga_putc(screen, c), "prompt") /\ UNCHANGED <<down, line>>
  BY DEF Tty!Output
<1>3. /\ Devices' /\ KeysFollow' /\ Tty!MonitorReadsAll' /\ screen' = Tty!cga_putc(screen, c)
      /\ reader' \in Readers /\ ~Tty!HasChar' /\ ~Tty!Reading'
  BY <1>1, <1>2, PrintKept
<1> QED
  BY <1>1, <1>2, <1>3 DEF ConsoleInv, LineTypes, Echoed

LEMMA PromptStep ==
  ASSUME Tty!ConsoleAssumption, ConsoleInv, Tty!Prompt
  PROVE  ConsoleInv'
<1> DEFINE s == Tty!cga_putc(screen, Tty!PROMPT)
           shown == [s EXCEPT !.start = s.pos]
<1>1. s \in Screens
  BY PutcTypes DEF ConsoleInv, LineTypes, Tty!PROMPT, Byte
<1>2. Tty!PrintThen(shown, "reading") /\ line' = <<>> /\ down' = down
  BY DEF Tty!Prompt
<1> HIDE DEF s
<1>3. s.pos \in Nat /\ Tty!CRT_SIZE \in Nat
  BY <1>1, ConsoleSizes DEF Screens, Tty!Cell
<1>4. shown \in Screens /\ shown.pos = s.pos /\ shown.start = s.pos
  BY <1>1, <1>3 DEF Screens
<1> HIDE DEF shown
<1>5. /\ Devices' /\ KeysFollow' /\ Tty!MonitorReadsAll' /\ screen' = shown
      /\ reader' \in Readers /\ ~Tty!HasChar'
  BY <1>2, <1>4, PrintKept
<1>6. line' \in Seq(Byte) /\ Len(line') = 0
  BY <1>2, EmptySeq
<1>7. Echo(screen', line')
  <2>1. DOMAIN line' = {}
    BY <1>2
  <2> QED
    BY <1>3, <1>4, <1>5, <1>6, <2>1 DEF Echo
<1> QED
  BY <1>4, <1>5, <1>6, <1>7, ConsoleSizes DEF ConsoleInv, LineTypes, Echoed

LEMMA GetCharStep ==
  ASSUME Tty!ConsoleAssumption, ConsoleInv, Tty!GetChar
  PROVE  ConsoleInv'
<1> DEFINE c == Tty!FirstChar(Tty!Polled.cons)
<1>1. Tty!Getc(TRUE) /\ UNCHANGED <<down, screen, line>> /\ Tty!Reading
  BY DEF Tty!GetChar
<1>2. /\ Devices' /\ KeysFollow' /\ c \in Byte
      /\ Tty!Buffered(cons) = owed => Tty!Buffered(cons)' = owed'
  BY <1>1, GetcKept DEF ConsoleInv
<1>3. \/ reader' = reader
      \/ reader' = <<Tty!Mode, "reset", 0>> \/ reader' = <<Tty!Mode, "eof", 0>>
      \/ c # 0 /\ reader' = <<Tty!Mode, "char", c>>
  BY DEF Tty!GetChar
<1> HIDE DEF c
<1>4. reader \in Readers /\ Tty!Mode \in {"monitor", "program"} /\ ~Tty!HasChar /\ 0 \in Byte
  BY <1>1 DEF ConsoleInv, LineTypes, Readers, Tty!Mode, Tty!Reading, Tty!HasChar, Byte
<1>5. reader' \in Readers /\ (Tty!HasChar' => Tty!Char' # 0) /\ Tty!Mode' = Tty!Mode
  <2>1. CASE reader' = reader
    BY <1>4, <2>1 DEF Tty!HasChar, Tty!Mode
  <2>2. CASE reader' = <<Tty!Mode, "reset", 0>> \/ reader' = <<Tty!Mode, "eof", 0>>
    BY <1>4, <2>2 DEF Tty!HasChar, Tty!Mode, Readers
  <2>3. CASE c # 0 /\ reader' = <<Tty!Mode, "char", c>>
    BY <1>2, <1>4, <2>3 DEF Tty!HasChar, Tty!Mode, Readers, Tty!Char
  <2> QED
    BY <1>3, <2>1, <2>2, <2>3
<1>6. LineTypes'
  BY <1>1, <1>5 DEF LineTypes, ConsoleInv
<1>7. Tty!MonitorReadsAll'
  BY <1>2, <1>5 DEF Tty!MonitorReadsAll, ConsoleInv
<1>8. Echoed'
  BY <1>1 DEF Echoed, ConsoleInv, Echo
<1> QED
  BY <1>2, <1>6, <1>7, <1>8 DEF ConsoleInv

LEMMA EchoEraseStep ==
  ASSUME Tty!ConsoleAssumption, ConsoleInv, Tty!EchoErase
  PROVE  ConsoleInv'
<1> DEFINE shown == Tty!cga_putc(screen, Tty!BS)
<1>1. /\ screen \in Screens /\ line \in Seq(Byte) /\ Len(line) \in Nat /\ Len(line) < BUFLEN
      /\ BUFLEN \in Nat
  BY LenProperties, ConsoleSizes DEF ConsoleInv, LineTypes
<1>2. /\ Tty!PrintThen(shown, "reading") /\ line' = Tty!Front(line) /\ down' = down
      /\ Tty!HasChar /\ line # <<>>
  BY DEF Tty!EchoErase, Tty!Erases
<1>3. shown \in Screens /\ shown = Tty!Erase(screen)
  <2>1. Tty!BS \in Byte
    BY DEF Tty!BS, Byte
  <2>2. shown \in Screens
    BY <1>1, <2>1, PutcTypes
  <2>3. shown = Tty!Erase(screen)
    BY DEF Tty!cga_putc, Tty!BS, Tty!NL, Tty!CR, Tty!TAB
  <2> QED
    BY <2>2, <2>3
<1>4. Echo(screen, line)
  BY <1>2 DEF ConsoleInv, Echoed
<1>5. /\ Echo(Tty!Erase(screen), Tty!Front(line))
      /\ Tty!Front(line) \in Seq(Byte) /\ Len(Tty!Front(line)) = Len(line) - 1
  BY <1>1, <1>2, <1>4, EraseEchoes
<1> HIDE DEF shown
<1>6. /\ Devices' /\ KeysFollow' /\ Tty!MonitorReadsAll' /\ screen' = shown
      /\ reader' \in Readers /\ ~Tty!HasChar'
  BY <1>2, <1>3, PrintKept
<1>7. LineTypes'
  BY <1>1, <1>2, <1>3, <1>5, <1>6 DEF LineTypes
<1>8. Echo(screen', line')
  BY <1>2, <1>3, <1>5, <1>6
<1> QED
  BY <1>6, <1>7, <1>8 DEF ConsoleInv, Echoed, Echo

LEMMA EchoAddStep ==
  ASSUME Tty!ConsoleAssumption, ConsoleInv, Tty!EchoAdd
  PROVE  ConsoleInv'
<1> DEFINE shown == Tty!cga_putc(screen, Tty!Char)
<1>1. /\ screen \in Screens /\ line \in Seq(Byte) /\ Len(line) \in Nat /\ BUFLEN \in Nat
      /\ Tty!Char \in Byte
  BY LenProperties, ConsoleSizes DEF ConsoleInv, LineTypes, Readers, Tty!Char
<1>2. /\ Tty!PrintThen(shown, "reading") /\ line' = Append(line, Tty!Char) /\ down' = down
      /\ Tty!HasChar /\ Tty!Char >= Tty!SPACE /\ Len(line) < BUFLEN - 1
  BY DEF Tty!EchoAdd, Tty!Adds
<1>3. shown \in Screens /\ shown = Tty!Show(screen, Tty!Char)
  <2>1. Tty!Char \notin {Tty!BS, Tty!NL, Tty!CR, Tty!TAB}
    BY <1>1, <1>2 DEF Tty!BS, Tty!NL, Tty!CR, Tty!TAB, Tty!SPACE, Byte
  <2> QED
    BY <1>1, <2>1, PutcTypes DEF Tty!cga_putc
<1>4. Echo(screen, line)
  BY <1>2 DEF ConsoleInv, Echoed
<1>5. /\ Echo(Tty!Show(screen, Tty!Char), Append(line, Tty!Char))
      /\ Append(line, Tty!Char) \in Seq(Byte) /\ Len(Append(line, Tty!Char)) = Len(line) + 1
  BY <1>1, <1>2, <1>4, ShowEchoes, AppendProperties
<1> HIDE DEF shown
<1>6. /\ Devices' /\ KeysFollow' /\ Tty!MonitorReadsAll' /\ screen' = shown
      /\ reader' \in Readers /\ ~Tty!HasChar'
  BY <1>2, <1>3, PrintKept
<1>7. LineTypes'
  BY <1>1, <1>2, <1>3, <1>5, <1>6 DEF LineTypes
<1>8. Echo(screen', line')
  BY <1>2, <1>3, <1>5, <1>6
<1> QED
  BY <1>6, <1>7, <1>8 DEF ConsoleInv, Echoed, Echo

LEMMA EchoEndStep ==
  ASSUME Tty!ConsoleAssumption, ConsoleInv, Tty!EchoEnd
  PROVE  ConsoleInv'
<1> DEFINE s == Tty!cga_putc(screen, Tty!NL)
           shown == [s EXCEPT !.start = 0]
<1>1. s \in Screens
  BY PutcTypes DEF ConsoleInv, LineTypes, Tty!NL, Byte
<1>2. Tty!PrintThen(shown, "prompt") /\ line' = <<>> /\ down' = down
  BY DEF Tty!EchoEnd
<1> HIDE DEF s
<1>3. shown \in Screens
  BY <1>1 DEF Screens
<1> HIDE DEF shown
<1>4. /\ Devices' /\ KeysFollow' /\ Tty!MonitorReadsAll' /\ screen' = shown
      /\ reader' \in Readers /\ ~Tty!HasChar' /\ ~Tty!Reading'
  BY <1>2, <1>3, PrintKept
<1>5. line' \in Seq(Byte) /\ Len(line') = 0
  BY <1>2, EmptySeq
<1> QED
  BY <1>3, <1>4, <1>5, ConsoleSizes DEF ConsoleInv, LineTypes, Echoed

\* A step after which the devices are the same, and the reader is elsewhere.
LEMMA ReaderStep ==
  ASSUME Tty!ConsoleAssumption, ConsoleInv, Tty!Ignore \/ Tty!Interrupt
  PROVE  ConsoleInv'
<1>1. UNCHANGED <<down, kbd, com, shift, cons, owed, screen, line>>
  BY DEF Tty!Ignore, Tty!Interrupt
<1>2. \/ Tty!HasChar /\ reader' = <<Tty!Mode, "reading", 0>>
      \/ reader' = <<Tty!Mode, "destroyed", 0>>
  BY DEF Tty!Ignore, Tty!Interrupt
<1>3. reader \in Readers /\ Tty!Mode \in {"monitor", "program"} /\ 0 \in Byte
  BY DEF ConsoleInv, LineTypes, Readers, Tty!Mode, Byte
<1>4. reader' \in Readers /\ ~Tty!HasChar' /\ Tty!Mode' = Tty!Mode /\ (Tty!Reading' => Tty!HasChar)
  BY <1>2, <1>3 DEF Readers, Tty!HasChar, Tty!Reading, Tty!Mode
<1>5. LineTypes'
  BY <1>1, <1>4 DEF ConsoleInv, LineTypes
<1>6. Echoed'
  BY <1>1, <1>4 DEF ConsoleInv, Echoed, Echo
<1>7. Tty!MonitorReadsAll'
  BY <1>1, <1>4 DEF ConsoleInv, Tty!MonitorReadsAll, Tty!Buffered
<1>8. Devices' /\ KeysFollow'
  BY <1>1 DEF ConsoleInv, Devices, KeysFollow
<1> QED
  BY <1>5, <1>6, <1>7, <1>8 DEF ConsoleInv

\* The codes of a key go behind those that wait.
LEMMA CodesFollow ==
  ASSUME Devices, KeysFollow, NEW codes \in Seq(Byte), Len(codes) \in {1, 2},
         kbd' = kbd \o codes, shift' = shift,
         \A s \in SUBSET ShiftBit : FreeKeys(s, down) => FreeKeys(AfterCodes(s, codes), down')
  PROVE  KeysFollow' /\ kbd' \in Seq(Byte)
<1> DEFINE n == Len(kbd)
           more == Len(codes)
<1>1. n \in Nat /\ kbd \in Seq(Byte) /\ more \in {1, 2}
  BY LenProperties DEF Devices
<1>2. /\ kbd' \in Seq(Byte) /\ Len(kbd') = n + more
      /\ \A i \in 1..(n + more) : kbd'[i] = IF i <= n THEN kbd[i] ELSE codes[i - n]
  BY <1>1, ConcatProperties
<1> HIDE DEF n
<1>3. ASSUME NEW t \in [0..(n + more) -> SUBSET ShiftBit], Follows(t, shift, kbd')
      PROVE  FreeKeys(t[n + more], down')
  <2> DEFINE u == [i \in 0..n |-> t[i]]
  <2> HIDE DEF more
  <2>1. t[0] = shift /\ \A i \in 1..(n + more) : t[i] = Tty!kbd_proc_data(t[i-1], kbd'[i]).shift
    BY <1>2, <1>3 DEF Follows
  <2>2. u \in [0..n -> SUBSET ShiftBit]
    BY <1>1
  <2>3. u[0] = shift
    BY <1>1, <2>1
  <2>4. ASSUME NEW i \in 1..n PROVE u[i] = Tty!kbd_proc_data(u[i-1], kbd[i]).shift
    <3>1. i \in 1..(n + more) /\ i - 1 \in 0..n /\ i \in 0..n /\ i <= n
      BY <1>1
    <3>2. kbd'[i] = kbd[i]
      BY <1>2, <3>1
    <3>3. t[i] = Tty!kbd_proc_data(t[i-1], kbd[i]).shift
      BY <2>1, <3>1, <3>2
    <3> QED
      BY <3>1, <3>3
  <2>5. Follows(u, shift, kbd)
    <3> HIDE DEF u
    <3> QED
      BY <2>3, <2>4 DEF Follows, n
  <2>6. FreeKeys(u[n], down)
    <3> HIDE DEF u
    <3> QED
      BY <2>2, <2>5 DEF KeysFollow, n
  <2>7. u[n] = t[n] /\ t[n] \in SUBSET ShiftBit
    BY <1>1
  <2>8. FreeKeys(AfterCodes(t[n], codes), down')
    BY <2>6, <2>7
  <2>9. kbd'[n + 1] = codes[1] /\ (more = 2 => kbd'[n + 2] = codes[2])
    BY <1>1, <1>2
  <2>10. t[n + 1] = Tty!kbd_proc_data(t[n], codes[1]).shift
    <3>1. n + 1 \in 1..(n + more) /\ (n + 1) - 1 = n
      BY <1>1
    <3> QED
      BY <2>1, <2>9, <3>1
  <2>11. CASE more = 1
    BY <2>8, <2>10, <2>11 DEF AfterCodes, more
  <2>12. CASE more = 2
    <3>1. n + 2 \in 1..(n + more) /\ (n + 2) - 1 = n + 1
      BY <1>1, <2>12
    <3>2. t[n + 2] = Tty!kbd_proc_data(t[n + 1], codes[2]).shift
      BY <2>1, <2>9, <2>12, <3>1
    <3> QED
      BY <2>8, <2>10, <2>12, <3>2 DEF AfterCodes, more
  <2> QED
    BY <1>1, <2>11, <2>12
<1> QED
  BY <1>2, <1>3 DEF KeysFollow

LEMMA KeyStep ==
  ASSUME Tty!ConsoleAssumption, ConsoleInv, NEW k \in Key, Tty!Press(k) \/ Tty!Release(k)
  PROVE  ConsoleInv'
<1>1. k \in DOMAIN Tty!KeyCode
  BY ConsoleSizes
<1>2. PICK codes \in {Tty!KeyCode[k], Tty!Released(Tty!KeyCode[k])} :
        /\ kbd' = kbd \o codes
        /\ \A s \in SUBSET ShiftBit : FreeKeys(s, down) => FreeKeys(AfterCodes(s, codes), down')
  BY <1>1, KeyFrees DEF Tty!Press, Tty!Release, Tty!Type
<1>3. UNCHANGED <<com, shift, cons, owed, screen, reader, line>>
  BY DEF Tty!Press, Tty!Release
<1>4. codes \in Seq(Byte) /\ Len(codes) \in {1, 2}
  BY <1>1, KeyCodes
<1>5. KeysFollow' /\ kbd' \in Seq(Byte)
  BY <1>2, <1>3, <1>4, CodesFollow DEF ConsoleInv
<1>6. Devices'
  BY <1>3, <1>5 DEF ConsoleInv, Devices
<1>7. LineTypes' /\ Tty!MonitorReadsAll' /\ Echoed'
  BY <1>3 DEF ConsoleInv, LineTypes, Tty!MonitorReadsAll, Echoed, Echo, Tty!Buffered, Tty!HasChar,
     Tty!Reading, Tty!Char, Tty!Mode
<1> QED
  BY <1>5, <1>6, <1>7 DEF ConsoleInv

LEMMA ReceiveStep ==
  ASSUME Tty!ConsoleAssumption, ConsoleInv, NEW b \in SerialByte, Tty!Receive(b)
  PROVE  ConsoleInv'
<1>1. com' = <<b>> /\ UNCHANGED <<down, kbd, shift, cons, owed, screen, reader, line>>
  BY DEF Tty!Receive
<1>2. b \in Byte
  BY ConsoleSizes
<1>3. Devices' /\ KeysFollow'
  BY <1>1, <1>2 DEF ConsoleInv, Devices, KeysFollow
<1>4. LineTypes' /\ Tty!MonitorReadsAll' /\ Echoed'
  BY <1>1 DEF ConsoleInv, LineTypes, Tty!MonitorReadsAll, Echoed, Echo, Tty!Buffered, Tty!HasChar,
     Tty!Reading, Tty!Char, Tty!Mode
<1> QED
  BY <1>3, <1>4 DEF ConsoleInv

LEMMA ConsoleStep ==
  ASSUME Tty!ConsoleAssumption, ConsoleInv, [Tty!Next]_Tty!vars
  PROVE  ConsoleInv'
<1>1. CASE UNCHANGED Tty!vars
  <2>1. UNCHANGED <<down, kbd, com, shift, cons, owed, screen, reader, line>>
    BY <1>1 DEF Tty!vars
  <2>2. Devices' /\ KeysFollow'
    BY <2>1 DEF ConsoleInv, Devices, KeysFollow
  <2>3. LineTypes' /\ Tty!MonitorReadsAll' /\ Echoed'
    BY <2>1 DEF ConsoleInv, LineTypes, Tty!MonitorReadsAll, Echoed, Echo, Tty!Buffered, Tty!HasChar,
       Tty!Reading, Tty!Char, Tty!Mode
  <2> QED
    BY <2>2, <2>3 DEF ConsoleInv
<1>2. CASE Tty!Next
  BY <1>2, OutputStep, PromptStep, GetCharStep, EchoEraseStep, EchoAddStep, EchoEndStep,
     ReaderStep, KeyStep, ReceiveStep DEF Tty!Next
<1> QED
  BY <1>1, <1>2

LEMMA ConsoleInvSays ==
  ASSUME Tty!ConsoleAssumption, ConsoleInv
  PROVE  Tty!ConsoleIsSound
<1>1. Tty!TypeOK
  <2>1. /\ screen.pos \in Tty!Cell /\ DOMAIN screen.buf = Tty!Cell
        /\ cons.rpos \in 0..(CONSBUFSIZE - 1) /\ cons.wpos \in 0..(CONSBUFSIZE - 1)
    BY DEF ConsoleInv, Devices, LineTypes, Screens, Rings, RingPos
  <2>2. Tty!HasChar => Tty!Char \in 1..255
    <3>1. Tty!Char \in Byte
      BY DEF ConsoleInv, LineTypes, Readers, Tty!Char
    <3> QED
      BY <3>1 DEF ConsoleInv, LineTypes, Byte
  <2> QED
    BY <2>1, <2>2 DEF Tty!TypeOK, ConsoleInv, LineTypes
<1>2. Tty!NoStuckModifier
  <2> SUFFICES ASSUME kbd = <<>>
               PROVE  shift \cap (Tty!Mods \cup {"E0ESC"}) \subseteq {Tty!ModOf(k) : k \in down}
    BY DEF Tty!NoStuckModifier
  <2> DEFINE t == [n \in {0} |-> shift]
  <2>1. Len(kbd) = 0
    BY EmptySeq
  <2>2. t \in [0..Len(kbd) -> SUBSET ShiftBit] /\ t[0] = shift
    BY <2>1 DEF ConsoleInv, Devices
  <2> HIDE DEF t
  <2>3. Follows(t, shift, kbd)
    BY <2>1, <2>2 DEF Follows
  <2>4. FreeKeys(t[0], down)
    BY <2>1, <2>2, <2>3 DEF ConsoleInv, KeysFollow
  <2> QED
    BY <2>2, <2>4 DEF FreeKeys
<1>3. Tty!EchoIsLine
  BY DEF ConsoleInv, Echoed, Echo, Tty!EchoIsLine
<1> QED
  BY <1>1, <1>2, <1>3 DEF Tty!ConsoleIsSound, ConsoleInv

\* What ConsoleIsSound says of every size of the ring, of the screen and of a line, and of
\* whatever is typed, sent and printed (console.c:316-437, readline.c:8-42).
THEOREM ConsoleIsAlwaysSound ==
  ASSUME Tty!ConsoleAssumption
  PROVE  /\ Tty!Spec => []Tty!ConsoleIsSound
         /\ ConsoleSpec => []ConsoleIsSound
<1>1. Tty!Init => ConsoleInv
  BY ConsoleStarts
<1>2. ConsoleInv /\ [Tty!Next]_Tty!vars => ConsoleInv'
  BY ConsoleStep
<1>3. ConsoleInv => Tty!ConsoleIsSound
  BY ConsoleInvSays
<1>4. Tty!Spec => []Tty!ConsoleIsSound
  BY <1>1, <1>2, <1>3, PTL DEF Tty!Spec
<1> DEFINE Inv == part = "console" => ConsoleInv
           StepOfPart == UNCHANGED part /\ IF part = "console" THEN Tty!Next ELSE UNCHANGED console
<1>5. ConsoleInit => Inv
  BY <1>1 DEF ConsoleInit
<1>6. Inv /\ [StepOfPart]_<<part, console>> => Inv'
  BY <1>2 DEF console, Tty!vars
<1>7. Inv => ConsoleIsSound
  BY <1>3 DEF ConsoleIsSound
<1>8. ConsoleSpec => []ConsoleIsSound
  BY <1>5, <1>6, <1>7, PTL DEF ConsoleSpec
<1> QED
  BY <1>4, <1>8

-----------------------------------------------------------------------------
(* Sieve: SieveProofs is about the same definitions, under another name.   *)

Chain == INSTANCE SieveProofs WITH Capacity <- SieveCapacity

LEMMA SameExit ==
  ASSUME NEW i
  PROVE  Chain!Exit(i) <=> Primes!Exit(i)
BY DEF Chain!Exit, Primes!Exit, Chain!Proc, Primes!Proc, Chain!Ended, Primes!Ended

LEMMA SameWaiting ==
  ASSUME NEW i
  PROVE  Chain!Waiting(i) <=> Primes!Waiting(i)
BY DEF Chain!Waiting, Primes!Waiting, Chain!CanRead, Primes!CanRead, Chain!CanWrite, Primes!CanWrite,
       Chain!AtEof, Primes!AtEof, Chain!Ended, Primes!Ended

LEMMA SameStep ==
  ASSUME NEW i
  PROVE  Chain!Step(i) <=> Primes!Step(i)
<1> USE DEF Chain!Proc, Primes!Proc, Chain!ends, Primes!ends, Chain!held, Primes!held
<1>1. Chain!Pipe(i) <=> Primes!Pipe(i)
  BY DEF Chain!Pipe, Primes!Pipe
<1>2. /\ Chain!Fails(i, "pipe") <=> Primes!Fails(i, "pipe")
      /\ Chain!Fails(i, "fork") <=> Primes!Fails(i, "fork")
  BY SameExit DEF Chain!Fails, Primes!Fails
<1>3. Chain!Fork(i) <=> Primes!Fork(i)
  BY DEF Chain!Fork, Primes!Fork
<1>4. Chain!CloseForked(i) <=> Primes!CloseForked(i)
  BY DEF Chain!CloseForked, Primes!CloseForked, Chain!Keeps, Primes!Keeps
<1>5. Chain!ReadFirst(i) <=> Primes!ReadFirst(i)
  BY DEF Chain!ReadFirst, Primes!ReadFirst, Chain!CanRead, Primes!CanRead
<1>6. Chain!NoFirst(i) <=> Primes!NoFirst(i)
  BY SameExit DEF Chain!NoFirst, Primes!NoFirst, Chain!AtEof, Primes!AtEof
<1>7. Chain!Read(i) <=> Primes!Read(i)
  BY DEF Chain!Read, Primes!Read, Chain!CanRead, Primes!CanRead, Chain!Divides, Primes!Divides
<1>8. Chain!ReadEof(i) <=> Primes!ReadEof(i)
  BY DEF Chain!ReadEof, Primes!ReadEof, Chain!AtEof, Primes!AtEof
<1>9. Chain!Write(i) <=> Primes!Write(i)
  BY DEF Chain!Write, Primes!Write, Chain!CanWrite, Primes!CanWrite
<1>10. Chain!WriteNext <=> Primes!WriteNext
  BY DEF Chain!WriteNext, Primes!WriteNext, Chain!CanWrite, Primes!CanWrite
<1>11. Chain!WroteAll <=> Primes!WroteAll
  BY DEF Chain!WroteAll, Primes!WroteAll
<1>12. Chain!Close(i) <=> Primes!Close(i)
  BY DEF Chain!Close, Primes!Close
<1>13. Chain!Wait(i) <=> Primes!Wait(i)
  BY SameExit DEF Chain!Wait, Primes!Wait, Chain!Ended, Primes!Ended
<1> QED
  BY <1>1, <1>2, <1>3, <1>4, <1>5, <1>6, <1>7, <1>8, <1>9, <1>10, <1>11, <1>12, <1>13
  DEF Chain!Step, Primes!Step

LEMMA SameCardinality ==
  ASSUME NEW S
  PROVE  Chain!Cardinality(S) = Primes!Cardinality(S)
BY DEF Chain!Cardinality, Primes!Cardinality

LEMMA SamePrimes ==
  ASSUME NEW n
  PROVE  Chain!Primes(n) = Primes!Primes(n)
BY DEF Chain!Primes, Primes!Primes, Chain!IsPrime, Primes!IsPrime, Chain!Below, Primes!Below

LEMMA SameSieve ==
  /\ Chain!SieveAssumption <=> Primes!SieveAssumption
  /\ Chain!Init <=> Primes!Init
  /\ Chain!vars = Primes!vars
  /\ Chain!Next <=> Primes!Next
  /\ Chain!SieveIsSound <=> Primes!SieveIsSound
<1>1. Chain!vars = Primes!vars
  BY DEF Chain!vars, Primes!vars
<1>2. Chain!Proc = Primes!Proc /\ Chain!Ended = Primes!Ended
  BY DEF Chain!Proc, Primes!Proc, Chain!Ended, Primes!Ended
<1>3. Chain!AllEnded <=> Primes!AllEnded
  BY <1>2 DEF Chain!AllEnded, Primes!AllEnded
<1>4. Chain!SieveAssumption <=> Primes!SieveAssumption
  <2>1. ASSUME NEW n PROVE Chain!Cardinality(Chain!Primes(n)) = Primes!Cardinality(Primes!Primes(n))
    BY SameCardinality, SamePrimes
  <2> QED
    BY <2>1 DEF Chain!SieveAssumption, Primes!SieveAssumption
<1>5. Chain!Init <=> Primes!Init
  BY <1>2 DEF Chain!Init, Primes!Init, Chain!Idle, Primes!Idle
<1>6. Chain!Next <=> Primes!Next
  <2>1. Chain!Standstill <=> Primes!Standstill
    BY <1>2, SameWaiting DEF Chain!Standstill, Primes!Standstill, Chain!vars, Primes!vars
  <2> QED
    BY <1>2, <2>1, SameStep DEF Chain!Next, Primes!Next
<1>7. Chain!TypeOK <=> Primes!TypeOK
  BY <1>2 DEF Chain!TypeOK, Primes!TypeOK
<1>8. Chain!PrintsPrimes <=> Primes!PrintsPrimes
  <2>1. Chain!Primes(N) = Primes!Primes(N)
    BY SamePrimes
  <2> QED
    BY <1>3, <2>1, SameCardinality DEF Chain!PrintsPrimes, Primes!PrintsPrimes
<1>9. Chain!HungOnlyOnOwnPipe <=> Primes!HungOnlyOnOwnPipe
  BY <1>2, <1>3, SameWaiting DEF Chain!HungOnlyOnOwnPipe, Primes!HungOnlyOnOwnPipe
<1>10. Chain!SieveIsSound <=> Primes!SieveIsSound
  BY <1>7, <1>8, <1>9 DEF Chain!SieveIsSound, Primes!SieveIsSound
<1> QED
  BY <1>1, <1>4, <1>5, <1>6, <1>10

\* What the sieve of processes prints are the primes in order, all of them if nothing
\* fails, and who waits for ever waits for room in a pipe that only itself could read,
\* after a pipe or a fork has failed: for every argument, length of the chain and room in
\* the pipes (labs/fork/primes.c).  Of Sieve, and of its part of MCMachines.
THEOREM SieveIsAlwaysSound ==
  ASSUME Primes!SieveAssumption
  PROVE  /\ Primes!Spec => []Primes!SieveIsSound
         /\ SieveSpec => []SieveIsSound
<1>1. Primes!Init => Chain!SieveInv
  BY SameSieve, Chain!SieveStarts
<1>2. Chain!SieveInv /\ [Primes!Next]_Primes!vars => Chain!SieveInv'
  BY SameSieve, Chain!SieveStep DEF Chain!vars, Primes!vars
<1>3. Chain!SieveInv => Primes!SieveIsSound
  BY SameSieve, Chain!InvTypes, Chain!InvPrints, Chain!InvHangs DEF Chain!SieveIsSound
<1>4. Primes!Spec => []Primes!SieveIsSound
  BY <1>1, <1>2, <1>3, PTL DEF Primes!Spec
<1> DEFINE Inv == part = "sieve" => Chain!SieveInv
           SieveStep == UNCHANGED part /\ IF part = "sieve" THEN Primes!Next ELSE UNCHANGED sieve
<1>5. SieveInit => Inv
  BY <1>1 DEF SieveInit
<1>6. Inv /\ [SieveStep]_<<part, sieve>> => Inv'
  BY <1>2 DEF sieve, Primes!vars
<1>7. Inv => SieveIsSound
  BY <1>3 DEF SieveIsSound
<1>8. SieveSpec => []SieveIsSound
  BY <1>5, <1>6, <1>7, PTL DEF SieveSpec
<1> QED
  BY <1>4, <1>8

-----------------------------------------------------------------------------
(* Shell: what a line is parsed into.                                      *)

LEMMA ShellSizes ==
  ASSUME ShellAssumption
  PROVE  /\ Pid \subseteq Nat \ {0} /\ IsFiniteSet(Pid) /\ Root \in Pid
         /\ PipeId \subseteq Nat /\ Capacity \in Nat \ {0}
         /\ \A input \in Scripts : input \in Seq(Lines)
         /\ \A toks \in Lines : Len(toks) \in Nat
  BY DEF ShellAssumption, Lines

LEMMA LeastIn ==
  ASSUME NEW S \in SUBSET Nat, S # {}
  PROVE  Min(S) \in S
  BY LeastExists DEF Min

\* The k-th parse_line() of a line returns what f says, if f is right about the next.
ParseAt(f, toks, k) ==
  PipeCmd(parse_cmd(BeforeBar(Rests(toks)[k])),
          IF k < Len(toks) /\ MoreBars(Rests(toks)[k])
          THEN f[k+1]
          ELSE parse_cmd(AfterBar(Rests(toks)[k])))
ParsesFrom(f, toks, m) == f = [k \in m..Len(toks) |-> ParseAt(f, toks, k)]

LEMMA ParsesExist ==
  ASSUME NEW toks, Len(toks) \in Nat
  PROVE  \E f : ParsesFrom(f, toks, 0)
<1> DEFINE n == Len(toks)
           S == {d \in Nat : d <= n /\ ~\E f : ParsesFrom(f, toks, n - d)}
<1> SUFFICES ASSUME S # {} PROVE FALSE
  OBVIOUS
<1>1. PICK d \in S : \A e \in S : d <= e
  <2>1. S \in SUBSET Nat
    OBVIOUS
  <2> HIDE DEF S
  <2> QED
    BY <2>1, LeastExists
<1> DEFINE m == n - d
<1>2. d # 0
  <2> SUFFICES \E f : ParsesFrom(f, toks, n)
    OBVIOUS
  <2> DEFINE last == PipeCmd(parse_cmd(BeforeBar(Rests(toks)[n])), parse_cmd(AfterBar(Rests(toks)[n])))
             f == [k \in n..n |-> last]
  <2>1. \A k \in n..n : ParseAt(f, toks, k) = last
    BY DEF ParseAt
  <2> HIDE DEF last
  <2>2. f = [k \in n..n |-> ParseAt(f, toks, k)]
    BY <2>1
  <2> QED
    BY <2>2 DEF ParsesFrom
<1>3. /\ d - 1 \in Nat /\ d - 1 <= n /\ d - 1 \notin S
      /\ n - (d - 1) = m + 1 /\ m \in 0..(n-1) /\ n \in Nat
  <2>1. d \in Nat /\ d <= n
    BY <1>1
  <2> HIDE DEF S
  <2> QED
    BY <1>1, <1>2, <2>1
<1>4. PICK f : ParsesFrom(f, toks, m + 1)
  BY <1>3
<1> DEFINE first == ParseAt(f, toks, m)
           g == [k \in m..n |-> IF k = m THEN first ELSE f[k]]
<1>5. f = [k \in (m+1)..n |-> ParseAt(f, toks, k)]
  BY <1>4 DEF ParsesFrom
<1> HIDE DEF first, m, n
<1>6. \A k \in m..n : k < n => g[k+1] = f[k+1]
  <2> SUFFICES ASSUME NEW k \in m..n, k < n PROVE g[k+1] = f[k+1]
    OBVIOUS
  <2>1. k + 1 \in m..n /\ k + 1 # m
    BY <1>3
  <2> QED
    BY <2>1
<1>7. \A k \in m..n : ParseAt(g, toks, k) = ParseAt(f, toks, k)
  BY <1>6 DEF ParseAt, n
<1>8. \A k \in m..n : g[k] = ParseAt(f, toks, k)
  <2> SUFFICES ASSUME NEW k \in m..n PROVE g[k] = ParseAt(f, toks, k)
    OBVIOUS
  <2>1. CASE k = m
    BY <2>1 DEF first
  <2>2. CASE k # m
    <3>1. k \in (m+1)..n /\ g[k] = f[k]
      BY <1>3, <2>2
    <3> QED
      BY <1>5, <3>1
  <2> QED
    BY <2>1, <2>2
<1>9. g = [k \in m..n |-> ParseAt(g, toks, k)]
  <2>1. g = [k \in m..n |-> g[k]]
    OBVIOUS
  <2> HIDE DEF g
  <2> QED
    BY <1>7, <1>8, <2>1
<1>10. ParsesFrom(g, toks, m)
  BY <1>9 DEF ParsesFrom, n
<1> QED
  BY <1>1, <1>10 DEF m

LEMMA ParsesAre ==
  ASSUME NEW toks, Len(toks) \in Nat
  PROVE  \A k \in 0..Len(toks) : Parses(toks)[k] = ParseAt(Parses(toks), toks, k)
<1> DEFINE f == Parses(toks)
<1>1. \E g : g = [k \in 0..Len(toks) |-> ParseAt(g, toks, k)]
  BY ParsesExist DEF ParsesFrom
<1>2. f = CHOOSE g : g = [k \in 0..Len(toks) |-> ParseAt(g, toks, k)]
  BY DEF Parses, ParseAt
<1>3. f = [k \in 0..Len(toks) |-> ParseAt(f, toks, k)]
  <2> HIDE DEF f
  <2> QED
    BY <1>1, <1>2
<1> HIDE DEF f
<1>4. \A k \in 0..Len(toks) : f[k] = ParseAt(f, toks, k)
  BY <1>3
<1> QED
  BY <1>4 DEF f

\* A program to run, perhaps with redirections; alone or as a job; and what a line
\* or the rest of one is parsed into.
IsExec(c) ==
  /\ c.type \in {"EXEC", "REDIR"}
  /\ \A t \in {c.in_file, c.out_file, c.err_file} : t = Nothing \/ t[1] = "file"
IsSingle(c) == c = NoCmd \/ IsExec(c) \/ (c.type = "BACK" /\ IsExec(c.c))
IsTree(c) == \E toks \in Lines : \E k \in 0..Len(toks) : c = Parses(toks)[k]
IsCmd(c) == IsSingle(c) \/ IsTree(c)

LEMMA LastOfIsFile ==
  ASSUME NEW toks, NEW kind
  PROVE  LastOf(toks, kind) = Nothing \/ LastOf(toks, kind)[1] = "file"
<1> DEFINE those == SelectSeq(toks, LAMBDA t : t[1] = kind)
<1>1. LastOf(toks, kind) = IF those = <<>> THEN Nothing ELSE File(Last(those)[2])
  BY DEF LastOf
<1> HIDE DEF those
<1>2. \A x : File(x)[1] = "file"
  BY DEF File
<1> QED
  BY <1>1, <1>2

LEMMA ParsedIsSingle ==
  ASSUME NEW toks
  PROVE  IsSingle(parse_cmd(toks))
<1>1. ASSUME NEW ts PROVE IsExec(ExecCmd(ts))
  <2> DEFINE c == ExecCmd(ts)
  <2>1. c.type \in {"EXEC", "REDIR"}
    BY DEF ExecCmd
  <2>2. c.in_file = LastOf(ts, "in") /\ c.out_file = LastOf(ts, "out") /\ c.err_file = LastOf(ts, "err")
    BY DEF ExecCmd
  <2> HIDE DEF c
  <2> QED
    BY <2>1, <2>2, LastOfIsFile DEF IsExec, c
<1>2. ASSUME NEW c PROVE BackCmd(c).type = "BACK" /\ BackCmd(c).c = c
  BY DEF BackCmd
<1> QED
  BY <1>1, <1>2 DEF parse_cmd, IsSingle

\* What commands are made of: to the left of a bar, and as a job, is no pipe.
LEMMA CmdIs ==
  ASSUME ShellAssumption, NEW c, IsCmd(c)
  PROVE  \/ c = NoCmd /\ c.type = "NULL"
         \/ IsExec(c)
         \/ c.type = "BACK" /\ IsExec(c.c)
         \/ c.type = "PIPE" /\ IsCmd(c.leftcmd) /\ IsCmd(c.rightcmd)
<1>0. NoCmd.type = "NULL"
  BY DEF NoCmd
<1>1. CASE IsSingle(c)
  BY <1>0, <1>1 DEF IsSingle
<1>2. ASSUME NEW toks \in Lines, NEW k \in 0..Len(toks), c = Parses(toks)[k] PROVE
         \/ IsSingle(c)
         \/ c.type = "PIPE" /\ IsCmd(c.leftcmd) /\ IsCmd(c.rightcmd)
  <2>1. Len(toks) \in Nat
    BY ShellSizes
  <2> DEFINE l == parse_cmd(BeforeBar(Rests(toks)[k]))
             r == IF k < Len(toks) /\ MoreBars(Rests(toks)[k])
                  THEN Parses(toks)[k+1] ELSE parse_cmd(AfterBar(Rests(toks)[k]))
  <2>2. c = PipeCmd(l, r)
    BY <1>2, <2>1, ParsesAre DEF ParseAt
  <2>3. IsSingle(l)
    BY ParsedIsSingle
  <2>4. IsCmd(r)
    <3>1. CASE k < Len(toks) /\ MoreBars(Rests(toks)[k])
      <4>1. k + 1 \in 0..Len(toks)
        BY <2>1, <3>1
      <4>2. r = Parses(toks)[k+1]
        BY <3>1
      <4> QED
        BY <4>1, <4>2 DEF IsCmd, IsTree
    <3>2. CASE ~(k < Len(toks) /\ MoreBars(Rests(toks)[k]))
      <4>1. r = parse_cmd(AfterBar(Rests(toks)[k]))
        BY <3>2
      <4> QED
        BY <4>1, ParsedIsSingle DEF IsCmd
    <3> QED
      BY <3>1, <3>2
  <2> HIDE DEF l, r
  <2> QED
    BY <2>2, <2>3, <2>4 DEF PipeCmd, IsCmd
<1> QED
  BY <1>0, <1>1, <1>2 DEF IsCmd, IsTree, IsSingle

LEMMA TreeIsCmd ==
  ASSUME ShellAssumption, NEW toks \in Lines
  PROVE  IsCmd(Tree[toks])
<1>1. Len(toks) \in Nat
  BY ShellSizes
<1>2. Tree[toks] = Parses(toks)[0] /\ 0 \in 0..Len(toks)
  BY <1>1 DEF Tree, parse_line
<1> QED
  BY <1>2 DEF IsCmd, IsTree

-----------------------------------------------------------------------------
(* Shell: what is inductive.                                               *)

Places == {"prompt", "launched", "crash", "exec", "program", "left", "right", "righthand",
           "close", "waitleft", "waitright", "done"}
Fields == {"at", "ppid", "cmd", "top", "kid", "left", "right", "fd", "ends", "env", "cwd",
           "seen", "status", "reads", "todo", "code"}
IsProcess(r) == DOMAIN r = Fields /\ r = [x \in Fields |-> r[x]] /\ r.at \in Places

\* Where a process is in run_shell() or run_cmd(), and within case_pipe_cmd().
InLoop == {"prompt", "launched", "crash"}
Piping == {"right", "close", "waitleft", "waitright"}

\* A process that runs the shell's own code, until it executes a program.
IsShell(r) == r.at \in InLoop \/ (r.top /\ r.at \in Piping \cup {"exec"})

Descriptors(r) ==
  /\ r.fd = [i \in 0..2 |-> r.fd[i]]
  /\ \A i \in 0..2 : r.fd[i] \in Target \/ r.fd[i][1] = "file"
  /\ \A n \in PipeId : ~(Ends(n) \subseteq {r.fd[i] : i \in 0..2})
  /\ IF r.at \in {"right", "left", "righthand", "close"}
     THEN \E n \in PipeId : r.ends = Ends(n) /\ \A i \in 0..2 : r.fd[i] \notin Ends(n)
     ELSE r.ends = {}
  /\ IsShell(r) => r.env = {} /\ \A i \in 0..2 : r.fd[i] = Terminal

Course(r) ==
  /\ r.ppid \in Pid \cup {0}
  /\ r.at = "launched" => r.kid \in Pid \cup {-1, 0}
  /\ r.at \in Piping => r.left \in Pid
  /\ r.at \in Piping \ {"right"} => r.right \in Pid
  /\ r.at = "waitleft" => r.kid = r.left
  /\ r.at = "waitright" => r.kid = r.right
  /\ r.at \in {"left", "righthand"} => r.top = FALSE
  /\ r.at = "right" => r.cmd.type = "PIPE"

SoundProcess(r) ==
  /\ IsProcess(r) /\ IsCmd(r.cmd) /\ r.top \in BOOLEAN /\ r.seen \in 0..Len(script)
  /\ Descriptors(r) /\ Course(r)
IsZombie(r) == r = Zombie(r.ppid, r.wstatus) /\ r.ppid \in Pid
InTable(r) == r = Gone \/ IsZombie(r) \/ SoundProcess(r)
Processes == proc = [p \in Pid |-> proc[p]] /\ \A p \in Pid : InTable(proc[p])

Family ==
  \A p \in Pid : proc[p].at # "none" =>
    proc[p].ppid # p /\ (proc[p].ppid # 0 => Alive(proc[p].ppid))

\* A process that reads the next line before it ends, or after a child has.
Capable(r) ==
  \/ r.at \in InLoop
  \/ r.top /\ (r.at \in Piping \/ (r.at = "exec" /\ r.cmd.type = "PIPE"))
Awaits(p, q) ==
  /\ proc[p].at = "launched" /\ proc[p].cmd.type # "BACK" /\ proc[p].kid = q
  /\ Alive(q) /\ Capable(proc[q]) /\ proc[q].ppid = p
NextReader(p) == Alive(p) /\ Capable(proc[p]) /\ ~\E q \in Pid : Awaits(p, q)
OneNext == \A p, q \in Pid : NextReader(p) /\ NextReader(q) => p = q

\* What the children of a process may be: but for those it has yet to wait for, they
\* are no more than the jobs among the lines that have been read.
MindedBy(r, children, jobs) ==
  /\ r.at = "prompt" => Cardinality(children) <= jobs
  /\ r.at = "launched" =>
       Cardinality(children \ (IF r.cmd.type = "BACK" THEN {} ELSE {r.kid})) <= jobs
  /\ r.at \in {"exec", "left", "righthand"} => children = {}
  /\ r.at = "right" => children \subseteq {r.left}
  /\ r.at \in {"close", "waitleft"} => children \subseteq {r.left, r.right}
  /\ r.at = "waitright" => children \subseteq {r.right}
Jobs(p) == Cardinality(BackLines(Position(p)))
Minded(p) == MindedBy(proc[p], Children(p), Jobs(p))

ShellInput ==
  /\ script \in Scripts /\ tty \in BOOLEAN /\ typed \in 0..Len(script)
  /\ data \in [PipeId -> 0..Capacity]
ShellInv ==
  ShellInput /\ Processes /\ Family /\ OneNext /\ \A p \in Pid : Alive(p) => Minded(p)

-----------------------------------------------------------------------------
(* Shell: what a step changes of the others.                               *)

LEMMA AtFacts ==
  ASSUME NEW r, InTable(r)
  PROVE  /\ r.at \in Places \cup {"none", "zombie"}
         /\ r.at = "none" <=> r = Gone
         /\ r.at = "zombie" <=> IsZombie(r)
         /\ r.at \in Places <=> SoundProcess(r)
         /\ r.at \notin {"none", "zombie"} <=> SoundProcess(r)
         /\ r.at # "none" => r.ppid \in Pid \cup {0}
<1>1. Gone.at = "none"
  BY DEF Gone
<1>2. \A x, y : Zombie(x, y).at = "zombie" /\ Zombie(x, y).ppid = x
  BY DEF Zombie
<1>3. SoundProcess(r) => r.at \in Places /\ r.ppid \in Pid \cup {0}
  BY DEF SoundProcess, IsProcess, Course
<1>4. IsZombie(r) => r.at = "zombie" /\ r.ppid \in Pid
  BY <1>2 DEF IsZombie
<1> QED
  BY <1>1, <1>3, <1>4 DEF InTable, Places

LEMMA JobsGrow ==
  ASSUME ShellAssumption, ShellInput, NEW m \in Nat, NEW n \in Nat, m <= n
  PROVE  /\ IsFiniteSet(BackLines(n)) /\ Cardinality(BackLines(n)) \in Nat
         /\ Cardinality(BackLines(m)) \in Nat
         /\ BackLines(m) \subseteq BackLines(n)
         /\ Cardinality(BackLines(m)) <= Cardinality(BackLines(n))
<1>1. BackLines(m) \subseteq BackLines(n) /\ BackLines(n) \subseteq 1..n
  BY DEF BackLines
<1>2. IsFiniteSet(1..n)
  BY FS_Interval
<1>3. IsFiniteSet(BackLines(n))
  BY <1>1, <1>2, FS_Subset
<1> QED
  BY <1>1, <1>3, FS_Subset, FS_CardinalityType

\* What no step takes back.
Onwards ==
  /\ script' = script /\ tty' = tty /\ typed' \in typed..Len(script)
  /\ data' \in [PipeId -> 0..Capacity]

\* A step of p makes or takes away q at most, unless q is p, and leaves the others
\* alone; but if p ends its children are init's.
Moves(p, q) ==
  /\ proc' = [s \in Pid |-> proc'[s]]
  /\ q = p \/ ~Alive(q)
  /\ \A s \in Pid \ {p, q} :
       \/ proc'[s] = proc[s] /\ (Alive(p)' \/ proc[s].at = "none" \/ proc[s].ppid # p)
       \/ /\ ~Alive(p)' /\ proc[s].at # "none" /\ proc[s].ppid = p
          /\ \/ proc[s].at = "zombie" /\ proc'[s] = Gone
             \/ Alive(s) /\ proc'[s] = [proc[s] EXCEPT !.ppid = 0]
  /\ proc'[p].at # "none" => proc'[p].ppid = proc[p].ppid
  /\ q # p /\ proc'[q].at # "none" => Alive(p)' /\ proc'[q].ppid = p

LEMMA Orphaned ==
  ASSUME NEW r, SoundProcess(r)
  PROVE  LET o == [r EXCEPT !.ppid = 0] IN
         /\ SoundProcess(o) /\ o.ppid = 0 /\ o.at = r.at
         /\ o.cmd = r.cmd /\ o.kid = r.kid /\ o.top = r.top /\ o.left = r.left
         /\ o.right = r.right /\ o.seen = r.seen
<1> DEFINE o == [r EXCEPT !.ppid = 0]
<1>1. /\ IsProcess(o) /\ o.ppid = 0 /\ o.at = r.at
      /\ o.cmd = r.cmd /\ o.kid = r.kid /\ o.top = r.top /\ o.left = r.left
      /\ o.right = r.right /\ o.seen = r.seen
      /\ o.fd = r.fd /\ o.ends = r.ends /\ o.env = r.env
  <2>1. IsProcess(r)
    BY DEF SoundProcess
  <2> QED
    BY <2>1 DEF IsProcess, Fields
<1> HIDE DEF o
<1>2. Descriptors(o) /\ Course(o)
  BY <1>1 DEF SoundProcess, Descriptors, Course, IsShell
<1>3. SoundProcess(o)
  BY <1>1, <1>2 DEF SoundProcess
<1> QED
  BY <1>1, <1>3 DEF o

\* What becomes of the others.
LEMMA OthersAfter ==
  ASSUME ShellAssumption, ShellInv, NEW p \in Pid, Alive(p), NEW q \in Pid, Moves(p, q),
         NEW s \in Pid \ {p, q}
  PROVE  /\ Alive(s)' <=> Alive(s)
         /\ proc'[s].at # "none" => proc[s].at # "none" /\ proc'[s].ppid \in {proc[s].ppid, 0}
         /\ proc'[s].at # "none" /\ proc'[s].ppid # proc[s].ppid => proc[s].ppid = p /\ ~Alive(p)'
         /\ proc'[s].at # "none" /\ ~Alive(p)' => proc'[s].ppid # p
         /\ Alive(s) => /\ SoundProcess(proc[s]) /\ SoundProcess(proc'[s])
                        /\ \A x \in {"at", "cmd", "kid", "top", "left", "right", "seen"} :
                             proc'[s][x] = proc[s][x]
         /\ InTable(proc'[s])
<1>1. InTable(proc[s])
  BY DEF ShellInv, Processes
<1>2. Alive(s) => SoundProcess(proc[s])
  BY <1>1, AtFacts DEF Alive
<1>3. InTable(Gone) /\ Gone.at = "none"
  BY DEF InTable, Gone
<1>4. CASE proc'[s] = proc[s] /\ (Alive(p)' \/ proc[s].at = "none" \/ proc[s].ppid # p)
  BY <1>1, <1>2, <1>4 DEF Alive
<1>5. CASE ~Alive(p)' /\ proc[s].ppid = p /\ proc[s].at = "zombie" /\ proc'[s] = Gone
  BY <1>3, <1>5 DEF Alive
<1>6. CASE ~Alive(p)' /\ proc[s].ppid = p /\ Alive(s) /\ proc'[s] = [proc[s] EXCEPT !.ppid = 0]
  <2>1. SoundProcess(proc[s])
    BY <1>2, <1>6
  <2> DEFINE r == proc[s]
             o == [r EXCEPT !.ppid = 0]
  <2>2. /\ SoundProcess(o) /\ o.ppid = 0 /\ o.at = r.at
         /\ o.cmd = r.cmd /\ o.kid = r.kid /\ o.top = r.top /\ o.left = r.left
         /\ o.right = r.right /\ o.seen = r.seen
    BY <2>1, Orphaned
  <2>3. proc'[s] = o
    BY <1>6
  <2>4. InTable(o) /\ 0 # p
    BY <2>2, ShellSizes DEF InTable
  <2> HIDE DEF o
  <2> QED
    BY <1>6, <2>1, <2>2, <2>3, <2>4 DEF Alive
<1> QED
  BY <1>4, <1>5, <1>6 DEF Moves

LEMMA ChildrenAfter ==
  ASSUME ShellAssumption, ShellInv, NEW p \in Pid, Alive(p), NEW q \in Pid, Moves(p, q)
  PROVE  /\ \A s \in Pid \ {p, q} : Children(s)' \subseteq Children(s)
         /\ Children(p)' \subseteq (Children(p) \ {q}) \cup {x \in {q} \ {p} : proc'[x].at # "none"}
         /\ q # p /\ Alive(q)' => Children(q)' = {}
<1>0. /\ 0 \notin Pid
      /\ proc[p].ppid # p
  BY ShellSizes DEF ShellInv, Family, Alive
<1>1. \A s \in Pid \ {p, q} : proc'[s].at # "none" =>
        proc[s].at # "none" /\ proc'[s].ppid \in {proc[s].ppid, 0}
  BY OthersAfter
<1>2. /\ proc'[p].at # "none" => proc'[p].ppid = proc[p].ppid
      /\ q # p /\ proc'[q].at # "none" => proc'[q].ppid = p
      /\ q = p \/ ~Alive(q)
  BY DEF Moves
<1>3. \A s \in Pid : proc[s].at # "none" /\ proc[s].ppid # 0 => Alive(proc[s].ppid)
  BY DEF ShellInv, Family
<1>4. proc[p].at # "none"
  BY DEF Alive
<1>5. ASSUME NEW s \in Pid \ {p, q} PROVE Children(s)' \subseteq Children(s)
  BY <1>0, <1>1, <1>2, <1>4 DEF Children
<1>6. Children(p)' \subseteq (Children(p) \ {q}) \cup {x \in {q} \ {p} : proc'[x].at # "none"}
  BY <1>0, <1>1, <1>2 DEF Children
<1>7. ASSUME q # p, NEW x \in Children(q)' PROVE FALSE
  BY <1>0, <1>1, <1>2, <1>3, <1>4, <1>7 DEF Children
<1> QED
  BY <1>5, <1>6, <1>7

LEMMA FamilyAfter ==
  ASSUME ShellAssumption, ShellInv, NEW p \in Pid, Alive(p), NEW q \in Pid, Moves(p, q)
  PROVE  Family'
<1>1. \A s \in Pid \ {p, q} :
        /\ Alive(s)' <=> Alive(s)
        /\ proc'[s].at # "none" => proc[s].at # "none" /\ proc'[s].ppid \in {proc[s].ppid, 0}
        /\ proc'[s].at # "none" /\ ~Alive(p)' => proc'[s].ppid # p
  BY OthersAfter
<1>2. /\ proc'[p].at # "none" => proc'[p].ppid = proc[p].ppid
      /\ q # p /\ proc'[q].at # "none" => Alive(p)' /\ proc'[q].ppid = p
      /\ q = p \/ ~Alive(q)
  BY DEF Moves
<1>3. \A s \in Pid : proc[s].at # "none" =>
        proc[s].ppid # s /\ (proc[s].ppid # 0 => Alive(proc[s].ppid))
  BY DEF ShellInv, Family
<1>4. \A s \in Pid : proc[s].at # "none" => proc[s].ppid \in Pid \cup {0}
  BY AtFacts DEF ShellInv, Processes
<1>5. proc[p].at # "none" /\ 0 \notin Pid
  BY ShellSizes DEF Alive
<1> SUFFICES ASSUME NEW s \in Pid, proc'[s].at # "none"
             PROVE  /\ proc'[s].ppid # s
                    /\ proc'[s].ppid # 0 => proc'[proc'[s].ppid].at \notin {"none", "zombie"}
  BY DEF Family, Alive
<1>6. CASE s = p
  <2>1. proc'[s].ppid = proc[p].ppid /\ proc[p].ppid # p
    BY <1>2, <1>3, <1>5, <1>6
  <2> SUFFICES ASSUME proc[p].ppid # 0
               PROVE  proc'[proc[p].ppid].at \notin {"none", "zombie"}
    BY <1>6, <2>1
  <2>2. PICK t \in Pid : t = proc[p].ppid /\ Alive(t)
    BY <1>3, <1>4, <1>5
  <2>3. Alive(t)'
    BY <1>1, <1>2, <2>1, <2>2
  <2> QED
    BY <2>2, <2>3 DEF Alive
<1>7. CASE s = q /\ q # p
  BY <1>2, <1>5, <1>7 DEF Alive
<1>8. CASE s \notin {p, q}
  <2>1. proc[s].at # "none" /\ proc'[s].ppid \in {proc[s].ppid, 0}
    BY <1>1, <1>8
  <2>2. proc'[s].ppid # s
    BY <1>3, <1>5, <2>1
  <2> DEFINE t == proc[s].ppid
  <2> SUFFICES ASSUME proc'[s].ppid # 0
               PROVE  proc'[proc'[s].ppid].at \notin {"none", "zombie"}
    BY <2>2
  <2>3. proc'[s].ppid = t /\ t \in Pid /\ Alive(t)
    BY <1>3, <1>4, <2>1
  <2>4. CASE t = p
    BY <1>1, <1>8, <2>3, <2>4 DEF Alive
  <2>5. CASE t # p
    <3>1. Alive(t)'
      BY <1>1, <1>2, <2>3, <2>5
    <3> QED
      BY <2>3, <3>1 DEF Alive
  <2> QED
    BY <2>4, <2>5
<1> QED
  BY <1>6, <1>7, <1>8

LEMMA OneNextAfter ==
  ASSUME ShellAssumption, ShellInv, NEW p \in Pid, Alive(p), NEW q \in Pid, Moves(p, q),
         ~\E x \in Pid : Awaits(p, x),
         Alive(p)' /\ Capable(proc'[p]) => Capable(proc[p]),
         q # p /\ Alive(q)' /\ Capable(proc'[q]) =>
           Capable(proc[p]) /\ Awaits(p, q)'
  PROVE  OneNext'
<1>1. ASSUME NEW s \in Pid \ {p, q}
      PROVE  /\ Alive(s)' <=> Alive(s)
             /\ Alive(s) => /\ proc'[s].at = proc[s].at /\ proc'[s].cmd = proc[s].cmd
                            /\ proc'[s].kid = proc[s].kid
                            /\ Capable(proc'[s]) <=> Capable(proc[s])
             /\ Alive(s) /\ proc'[s].ppid # proc[s].ppid => proc[s].ppid = p /\ ~Alive(p)'
  <2>1. /\ Alive(s)' <=> Alive(s)
        /\ Alive(s) => \A x \in {"at", "cmd", "kid", "top", "left", "right", "seen"} :
                             proc'[s][x] = proc[s][x]
        /\ proc'[s].at # "none" /\ proc'[s].ppid # proc[s].ppid => proc[s].ppid = p /\ ~Alive(p)'
    BY OthersAfter
  <2>2. Alive(s) => /\ proc'[s].at = proc[s].at /\ proc'[s].cmd = proc[s].cmd
                    /\ proc'[s].kid = proc[s].kid /\ proc'[s].top = proc[s].top
                    /\ proc'[s].at # "none"
    BY <2>1 DEF Alive
  <2> QED
    BY <2>1, <2>2 DEF Capable
<1>2. q = p \/ ~Alive(q)
  BY DEF Moves
<1>3. proc'[p].at # "none" => proc'[p].ppid = proc[p].ppid
  BY DEF Moves
<1>4. Alive(p)' => proc'[p].at # "none"
  BY DEF Alive
<1>5. \A s \in Pid : Awaits(s, p) => proc[p].ppid = s
  BY DEF Awaits
\* Who waits for another than p still does.
<1>6. ASSUME NEW s \in Pid \ {p, q}, NEW x \in Pid, Awaits(s, x), x # p
      PROVE  Awaits(s, x)'
  <2>1. x # q /\ Alive(s) /\ Alive(x)
    BY <1>2, <1>6 DEF Awaits, Alive
  <2>2. proc[x].ppid = s
    BY <1>6 DEF Awaits
  <2>3. proc'[x].ppid = s
    BY <1>1, <1>6, <2>1, <2>2
  <2> QED
    BY <1>1, <1>6, <2>1, <2>3 DEF Awaits
\* Who waits for p still does unless p reads no more.
<1>7. ASSUME NEW s \in Pid \ {p, q}, Awaits(s, p), Alive(p)', Capable(proc'[p])
      PROVE  Awaits(s, p)'
  <2>1. Alive(s) /\ proc'[p].ppid = s
    BY <1>3, <1>4, <1>7 DEF Awaits, Alive
  <2> QED
    BY <1>1, <1>7, <2>1 DEF Awaits
<1>8. ASSUME NEW s \in Pid \ {p, q}, NextReader(s)'
      PROVE  NextReader(s) \/ (Awaits(s, p) /\ ~(Alive(p)' /\ Capable(proc'[p])))
  BY <1>1, <1>6, <1>7, <1>8 DEF NextReader
<1>9. Capable(proc[p]) => NextReader(p)
  BY DEF NextReader
<1>10. ~NextReader(q) \/ q = p
  BY <1>2 DEF NextReader
<1>11. \A s, t \in Pid : NextReader(s) /\ NextReader(t) => s = t
  BY DEF ShellInv, OneNext
<1>12. \A s \in Pid : Awaits(s, p) => Capable(proc[p])
  BY DEF Awaits
\* Who is next after the step: p or one that waited for p, if p was next; and the
\* one who was next otherwise.
<1>13. NextReader(p)' => Capable(proc[p]) /\ Alive(p)' /\ Capable(proc'[p])
  BY DEF NextReader
<1>14. ASSUME q # p, NextReader(q)' PROVE Capable(proc[p]) /\ Awaits(p, q)'
  BY <1>14 DEF NextReader
<1>15. ASSUME q # p, Awaits(p, q)' PROVE Alive(p)' /\ Capable(proc'[p]) /\ ~NextReader(p)'
  BY <1>15 DEF Awaits, NextReader, Alive, Capable, InLoop
<1> SUFFICES ASSUME NEW s \in Pid, NEW t \in Pid, NextReader(s)', NextReader(t)', s # t
             PROVE  FALSE
  BY DEF OneNext
<1>16. ASSUME NEW u \in Pid \ {p, q}, NextReader(u)', Capable(proc[p])
       PROVE  proc[p].ppid = u /\ ~(Alive(p)' /\ Capable(proc'[p]))
  BY <1>5, <1>8, <1>9, <1>11, <1>16
<1>17. CASE Capable(proc[p])
  BY <1>13, <1>14, <1>15, <1>16, <1>17
<1>18. CASE ~Capable(proc[p])
  BY <1>8, <1>11, <1>12, <1>13, <1>14, <1>18
<1> QED
  BY <1>17, <1>18

LEMMA FewerChildren ==
  ASSUME NEW r, NEW t, \A x \in {"at", "cmd", "kid", "left", "right"} : t[x] = r[x],
         NEW C, NEW D, IsFiniteSet(C), D \subseteq C,
         NEW m \in Nat, NEW n \in Nat, m <= n, MindedBy(r, C, m)
  PROVE  MindedBy(t, D, n)
<1>1. /\ t.at = r.at /\ t.cmd = r.cmd /\ t.kid = r.kid /\ t.left = r.left /\ t.right = r.right
  OBVIOUS
<1>2. ASSUME NEW K PROVE /\ Cardinality(D \ K) <= Cardinality(C \ K)
                         /\ Cardinality(D \ K) \in Nat /\ Cardinality(C \ K) \in Nat
  <2>1. D \ K \subseteq C \ K /\ IsFiniteSet(C \ K)
    BY FS_Subset
  <2> QED
    BY <2>1, FS_Subset, FS_CardinalityType
<1>3. D \ {} = D /\ C \ {} = C
  OBVIOUS
<1>4. Cardinality(D) <= Cardinality(C) /\ Cardinality(D) \in Nat /\ Cardinality(C) \in Nat
  BY <1>2, <1>3
<1> DEFINE K == IF r.cmd.type = "BACK" THEN {} ELSE {r.kid}
<1>5. /\ Cardinality(D \ K) <= Cardinality(C \ K)
      /\ Cardinality(D \ K) \in Nat /\ Cardinality(C \ K) \in Nat
  BY <1>2
<1> QED
  BY <1>1, <1>4, <1>5 DEF MindedBy

LEMMA ScriptLength ==
  ASSUME ShellAssumption, ShellInput
  PROVE  Len(script) \in Nat /\ typed \in Nat
<1>1. script \in Seq(Lines)
  BY ShellSizes DEF ShellInput
<1>2. Len(script) \in Nat
  BY <1>1, LenProperties
<1> QED
  BY <1>2 DEF ShellInput

LEMMA ChildrenFinite ==
  ASSUME ShellAssumption, NEW p
  PROVE  IsFiniteSet(Children(p)) /\ Children(p) \subseteq Pid
<1>1. Children(p) \subseteq Pid
  BY DEF Children
<1> QED
  BY <1>1, ShellSizes, FS_Subset

LEMMA JobsKept ==
  ASSUME ShellAssumption, ShellInput, Onwards, NEW p \in Pid,
         proc[p].seen \in 0..Len(script), proc'[p].seen \in proc[p].seen..Len(script)
  PROVE  /\ Jobs(p) \in Nat /\ Jobs(p)' \in Nat /\ Jobs(p) <= Jobs(p)'
         /\ Position(p) \in Nat /\ Position(p)' \in Nat /\ Position(p) <= Position(p)'
<1>1. Len(script) \in Nat /\ typed \in Nat
  BY ScriptLength
<1>2. Position(p) \in Nat /\ Position(p)' \in Nat /\ Position(p) <= Position(p)'
  BY <1>1 DEF Position, Onwards
<1>3. \A n : BackLines(n)' = BackLines(n)
  BY DEF BackLines, Onwards
<1>4. Jobs(p)' = Cardinality(BackLines(Position(p)'))
  BY <1>3 DEF Jobs
<1> QED
  BY <1>2, <1>4, JobsGrow DEF Jobs

LEMMA OthersMinded ==
  ASSUME ShellAssumption, ShellInv, Onwards, NEW p \in Pid, Alive(p), NEW q \in Pid, Moves(p, q),
         NEW s \in Pid \ {p, q}, Alive(s)'
  PROVE  Minded(s)'
<1>1. /\ Alive(s) /\ SoundProcess(proc[s])
      /\ \A x \in {"at", "cmd", "kid", "top", "left", "right", "seen"} : proc'[s][x] = proc[s][x]
  BY OthersAfter
<1>2. Children(s)' \subseteq Children(s) /\ IsFiniteSet(Children(s))
  BY ChildrenAfter, ChildrenFinite
<1>3. proc[s].seen \in 0..Len(script) /\ proc'[s].seen = proc[s].seen
  BY <1>1 DEF SoundProcess
<1>4. ShellInput
  BY DEF ShellInv
<1>5. Jobs(s) \in Nat /\ Jobs(s)' \in Nat /\ Jobs(s) <= Jobs(s)'
  <2>1. proc'[s].seen \in proc[s].seen..Len(script)
    BY <1>3, <1>4, ScriptLength
  <2> QED
    BY <1>3, <1>4, <2>1, JobsKept
<1>6. MindedBy(proc[s], Children(s), Jobs(s))
  BY <1>1 DEF ShellInv, Minded
<1>7. \A x \in {"at", "cmd", "kid", "left", "right"} : proc'[s][x] = proc[s][x]
  BY <1>1
<1>8. MindedBy(proc'[s], Children(s)', Jobs(s)')
  BY <1>2, <1>5, <1>6, <1>7, FewerChildren
<1> QED
  BY <1>8 DEF Minded

LEMMA TableKept ==
  ASSUME Onwards, NEW s \in Pid, InTable(proc'[s])
  PROVE  InTable(proc[s])'
<1>1. SoundProcess(proc'[s]) => SoundProcess(proc[s])'
  BY DEF SoundProcess, Onwards, IsProcess, Descriptors, Course, IsShell
<1> QED
  BY <1>1 DEF InTable, IsZombie

\* What has to be shown of the step of a process.
LEMMA StepKeeps ==
  ASSUME ShellAssumption, ShellInv, Onwards, NEW p \in Pid, Alive(p), NEW q \in Pid, Moves(p, q),
         InTable(proc'[p]), InTable(proc'[q]),
         ~\E x \in Pid : Awaits(p, x),
         Alive(p)' /\ Capable(proc'[p]) => Capable(proc[p]),
         q # p /\ Alive(q)' /\ Capable(proc'[q]) =>
           Capable(proc[p]) /\ Awaits(p, q)',
         Alive(p)' => MindedBy(proc'[p], Children(p)', Jobs(p)'),
         q # p /\ Alive(q)' => proc'[q].at \in {"exec", "left", "righthand"}
  PROVE  ShellInv'
<1>1. ShellInput'
  <2>1. Len(script) \in Nat /\ typed \in Nat
    BY ScriptLength DEF ShellInv
  <2> QED
    BY <2>1 DEF ShellInv, ShellInput, Onwards
<1>2. Processes'
  <2>1. \A s \in Pid : InTable(proc'[s])
    BY OthersAfter
  <2>2. \A s \in Pid : InTable(proc[s])'
    BY <2>1, TableKept
  <2> QED
    BY <2>2 DEF Processes, Moves
<1>3. Family' /\ OneNext'
  BY FamilyAfter, OneNextAfter
<1>4. ASSUME NEW s \in Pid, Alive(s)' PROVE Minded(s)'
  <2>1. CASE s = p
    BY <1>4, <2>1 DEF Minded
  <2>2. CASE s = q /\ q # p
    <3>1. Children(q)' = {} /\ proc'[q].at \in {"exec", "left", "righthand"}
      BY <1>4, <2>2, ChildrenAfter
    <3>2. Minded(q)'
      BY <3>1 DEF Minded, MindedBy
    <3> QED
      BY <2>2, <3>2
  <2>3. CASE s \notin {p, q}
    BY <1>4, <2>3, OthersMinded
  <2> QED
    BY <2>1, <2>2, <2>3
<1> QED
  BY <1>1, <1>2, <1>3, <1>4 DEF ShellInv

-----------------------------------------------------------------------------
(* Shell: the four things that a step does to the table of processes.      *)

LEMMA SoundIsAlive ==
  ASSUME ShellInv, NEW p \in Pid
  PROVE  /\ Alive(p) <=> SoundProcess(proc[p])
         /\ Alive(p) <=> proc[p].at \in Places
         /\ InTable(proc[p]) /\ proc = [s \in Pid |-> proc[s]]
         /\ Alive(p) => Minded(p) /\ proc[p].ppid # p
         /\ proc[p].at # "none" => proc[p].ppid \in Pid \cup {0}
<1>1. InTable(proc[p]) /\ proc = [s \in Pid |-> proc[s]]
  BY DEF ShellInv, Processes
<1>2. Alive(p) => Minded(p) /\ proc[p].ppid # p
  BY DEF ShellInv, Family, Alive
<1> QED
  BY <1>1, <1>2, AtFacts DEF Alive

LEMMA PutStep ==
  ASSUME ShellAssumption, ShellInv, Onwards, NEW p \in Pid, Alive(p), ~\E x \in Pid : Awaits(p, x),
         NEW r, Put(p, r), SoundProcess(r), r.ppid = proc[p].ppid,
         Capable(r) => Capable(proc[p]),
         MindedBy(r, Children(p), Jobs(p)')
  PROVE  ShellInv'
<1>1. proc = [s \in Pid |-> proc[s]]
  BY SoundIsAlive
<1>2. /\ proc'[p] = r /\ \A s \in Pid \ {p} : proc'[s] = proc[s]
      /\ proc' = [s \in Pid |-> proc'[s]]
  BY <1>1 DEF Put
<1>3. r.at \in Places /\ InTable(r)
  BY DEF SoundProcess, IsProcess, InTable
<1>4. Alive(p)'
  BY <1>2, <1>3 DEF Alive, Places
<1>5. Moves(p, p)
  BY <1>2, <1>4 DEF Moves
<1>6. Children(p)' = Children(p)
  BY <1>2, <1>3 DEF Children, Alive, Places
<1>7. MindedBy(proc'[p], Children(p)', Jobs(p)')
  BY <1>2, <1>6
<1> QED
  BY <1>2, <1>3, <1>5, <1>7, StepKeeps

LEMMA DieStep ==
  ASSUME ShellAssumption, ShellInv, Onwards, NEW p \in Pid, Alive(p), ~\E x \in Pid : Awaits(p, x),
         NEW w, Die(p, w)
  PROVE  ShellInv'
<1>1. /\ proc[p].ppid \in Pid \cup {0} /\ proc[p].ppid # p
  BY SoundIsAlive DEF Alive
<1> DEFINE z == IF proc[p].ppid = 0 THEN Gone ELSE Zombie(proc[p].ppid, w)
<1>2. /\ proc' = [s \in Pid |-> proc'[s]]
      /\ proc'[p] = z
      /\ \A s \in Pid \ {p} :
           proc'[s] = IF s \in Children(p)
                      THEN IF proc[s].at = "zombie" THEN Gone ELSE [proc[s] EXCEPT !.ppid = 0]
                      ELSE proc[s]
  <2>1. p \notin Children(p)
    BY <1>1 DEF Children
  <2> HIDE DEF z
  <2>2. proc' = [s \in Pid |->
           CASE s = p -> z
             [] s \in Children(p) ->
                  IF proc[s].at = "zombie" THEN Gone ELSE [proc[s] EXCEPT !.ppid = 0]
             [] OTHER -> proc[s]]
    BY DEF Die, z
  <2> QED
    BY <2>1, <2>2
<1>3. z.at \in {"none", "zombie"} /\ (z.at # "none" => z.ppid = proc[p].ppid) /\ InTable(z)
  <2>1. CASE proc[p].ppid = 0
    BY <2>1 DEF Gone, InTable
  <2>2. CASE proc[p].ppid # 0
    <3>1. z = Zombie(proc[p].ppid, w)
      BY <2>2
    <3>2. z.at = "zombie" /\ z.ppid = proc[p].ppid /\ z.wstatus = w
      BY <3>1 DEF Zombie
    <3> QED
      BY <1>1, <2>2, <3>1, <3>2 DEF InTable, IsZombie
  <2> QED
    BY <2>1, <2>2
<1> HIDE DEF z
<1>4. ~Alive(p)'
  BY <1>2, <1>3 DEF Alive
<1>5. \A s \in Pid : s \in Children(p) <=> proc[s].at # "none" /\ proc[s].ppid = p
  BY DEF Children
<1>6. Moves(p, p)
  BY <1>2, <1>3, <1>4, <1>5 DEF Moves, Alive
<1> QED
  BY <1>2, <1>3, <1>4, <1>6, StepKeeps

LEMMA ForkStep ==
  ASSUME ShellAssumption, ShellInv, Onwards, NEW p \in Pid, Alive(p), ~\E x \in Pid : Awaits(p, x),
         NEW q \in Free, NEW r, NEW does \in {"exec", "left", "righthand"}, NEW cmd, NEW top,
         Fork(p, q, r, does, cmd, top), SoundProcess(r), r.ppid = proc[p].ppid,
         Capable(r) => Capable(proc[p]),
         NEW c, c = [r EXCEPT !.at = does, !.ppid = p, !.cmd = cmd, !.top = top],
         Descriptors(c), IsCmd(cmd), top \in BOOLEAN, top => does = "exec",
         top /\ does = "exec" /\ cmd.type = "PIPE" =>
           Capable(proc[p]) /\ r.at = "launched" /\ r.cmd.type # "BACK" /\ r.kid = q,
         MindedBy(r, Children(p) \cup {q}, Jobs(p)')
  PROVE  ShellInv' /\ q \in Pid /\ q # p /\ q \notin Children(p)
<1>1. proc = [s \in Pid |-> proc[s]]
  BY SoundIsAlive
<1>2. q \in Pid /\ proc[q].at = "none" /\ q # p
  BY DEF Free, Alive
<1>3. /\ proc'[p] = r /\ proc'[q] = c /\ \A s \in Pid \ {p, q} : proc'[s] = proc[s]
      /\ proc' = [s \in Pid |-> proc'[s]]
  BY <1>1, <1>2 DEF Fork
<1>4. r.at \in Places /\ InTable(r) /\ IsProcess(r) /\ r.seen \in 0..Len(script)
  BY DEF SoundProcess, IsProcess, InTable
<1>5. /\ IsProcess(c) /\ c.at = does /\ c.ppid = p /\ c.cmd = cmd /\ c.top = top /\ c.seen = r.seen
  BY <1>4 DEF IsProcess, Fields, Places
<1>6. Alive(p)' /\ Alive(q)'
  BY <1>3, <1>4, <1>5 DEF Alive, Places
<1>7. Course(c)
  BY <1>5 DEF Course, Piping
<1>8. SoundProcess(c) /\ InTable(c)
  BY <1>4, <1>5, <1>7 DEF SoundProcess, InTable
<1>9. Moves(p, q)
  BY <1>2, <1>3, <1>5, <1>6 DEF Moves, Alive
<1>10. Children(p)' = Children(p) \cup {q}
  <2>1. proc'[p].ppid # p
    BY <1>3, SoundIsAlive
  <2> QED
    <3>1. \A s \in Pid : s \in Children(p)' <=> proc'[s].at # "none" /\ proc'[s].ppid = p
      BY DEF Children
    <3>2. q \in Children(p)'
      BY <1>2, <1>3, <1>5, <1>6, <3>1 DEF Alive
    <3>3. p \notin Children(p) /\ p \notin Children(p)'
      BY <1>3, <2>1, <3>1 DEF Children
    <3>4. \A s \in Pid \ {p, q} : s \in Children(p)' <=> s \in Children(p)
      BY <1>3, <3>1 DEF Children
    <3>5. Children(p)' \subseteq Pid /\ Children(p) \subseteq Pid
      BY DEF Children
    <3> QED
      BY <1>2, <3>2, <3>3, <3>4, <3>5
<1>11. MindedBy(proc'[p], Children(p)', Jobs(p)')
  BY <1>3, <1>10
<1>12. Capable(c) => top /\ does = "exec" /\ cmd.type = "PIPE"
  BY <1>5 DEF Capable, InLoop, Piping
<1>13. Alive(q)' /\ Capable(proc'[q]) => Capable(proc[p]) /\ Awaits(p, q)'
  BY <1>3, <1>5, <1>6, <1>12 DEF Awaits
<1>14. q \notin Children(p)
  BY <1>2 DEF Children
<1>15. ShellInv'
  <2>1. InTable(proc'[p]) /\ InTable(proc'[q])
    BY <1>3, <1>4, <1>8
  <2>2. Alive(p)' /\ Capable(proc'[p]) => Capable(proc[p])
    BY <1>3
  <2>3. proc'[q].at \in {"exec", "left", "righthand"}
    BY <1>3, <1>5
  <2> QED
    BY <1>2, <1>9, <1>11, <1>13, <2>1, <2>2, <2>3, StepKeeps
<1> QED
  BY <1>2, <1>14, <1>15

LEMMA ReapStep ==
  ASSUME ShellAssumption, ShellInv, Onwards, NEW p \in Pid, Alive(p), ~\E x \in Pid : Awaits(p, x),
         NEW q \in ZombieChildren(p), NEW r, Reap(p, q, r), SoundProcess(r),
         r.ppid = proc[p].ppid, Capable(r) => Capable(proc[p]),
         MindedBy(r, Children(p) \ {q}, Jobs(p)')
  PROVE  ShellInv'
<1>1. proc = [s \in Pid |-> proc[s]]
  BY SoundIsAlive
<1>2. q \in Pid /\ proc[q].at = "zombie" /\ q # p /\ q \in Children(p)
  BY DEF ZombieChildren, Waited, Children, Alive
<1>3. /\ proc'[p] = r /\ proc'[q] = Gone /\ \A s \in Pid \ {p, q} : proc'[s] = proc[s]
      /\ proc' = [s \in Pid |-> proc'[s]]
  BY <1>1, <1>2 DEF Reap
<1>4. r.at \in Places /\ InTable(r)
  BY DEF SoundProcess, IsProcess, InTable
<1>5. Alive(p)' /\ ~Alive(q)' /\ proc'[q].at = "none" /\ InTable(proc'[q])
  BY <1>3, <1>4 DEF Alive, Places, Gone, InTable
<1>6. Moves(p, q)
  BY <1>2, <1>3, <1>5 DEF Moves, Alive
<1>7. Children(p)' = Children(p) \ {q}
  <2>1. proc'[p].ppid # p
    BY <1>3, SoundIsAlive
  <2> QED
    BY <1>2, <1>3, <1>5, <2>1, SoundIsAlive DEF Children, Alive
<1>8. MindedBy(proc'[p], Children(p)', Jobs(p)')
  BY <1>3, <1>7
<1> QED
  BY <1>2, <1>3, <1>4, <1>5, <1>6, <1>8, StepKeeps

-----------------------------------------------------------------------------
(* Shell: the steps at the prompt.                                         *)

LEMMA OnwardsSame ==
  ASSUME ShellAssumption, ShellInv, UNCHANGED <<script, tty, typed>>, data' \in [PipeId -> 0..Capacity]
  PROVE  Onwards
<1>1. typed \in Nat /\ typed \in 0..Len(script) /\ Len(script) \in Nat
  BY ScriptLength DEF ShellInv, ShellInput
<1> QED
  BY <1>1 DEF Onwards

LEMMA OnwardsLine ==
  ASSUME ShellAssumption, ShellInv, NEW p \in Pid, MoreInput(p), CountLine,
         UNCHANGED <<script, tty, data>>
  PROVE  Onwards
<1>1. typed \in Nat /\ typed \in 0..Len(script) /\ Len(script) \in Nat
  BY ScriptLength DEF ShellInv, ShellInput
<1>2. data \in [PipeId -> 0..Capacity]
  BY DEF ShellInv, ShellInput
<1> QED
  BY <1>1, <1>2 DEF Onwards, CountLine, MoreInput, Position

LEMMA NotWaiting ==
  ASSUME NEW p \in Pid, proc[p].at # "launched"
  PROVE  ~\E x \in Pid : Awaits(p, x)
  BY DEF Awaits

\* A process that reads a line is the shell's, and has the line behind it then.
LEMMA TakenIs ==
  ASSUME ShellAssumption, ShellInv, NEW p \in Pid, MoreInput(p), CountLine,
         UNCHANGED <<script, tty, data>>
  PROVE  /\ Alive(p) /\ proc[p].at = "prompt" /\ SoundProcess(proc[p])
         /\ IsProcess(Taken(p)) /\ Taken(p).seen \in proc[p].seen..Len(script)
         /\ Taken(p).seen \in 0..Len(script)
         /\ \A x \in Fields \ {"seen"} : Taken(p)[x] = proc[p][x]
         /\ \A r : proc'[p] = r /\ r.seen = Taken(p).seen =>
              /\ Jobs(p) \in Nat /\ Jobs(p)' \in Nat /\ Jobs(p) <= Jobs(p)'
              /\ Position(p) \in Nat /\ Position(p)' = Position(p) + 1
              /\ Position(p)' \in DOMAIN script
         /\ Line(p) \in Lines /\ Position(p) + 1 \in DOMAIN script
         /\ Cardinality(Children(p)) <= Jobs(p) /\ Cardinality(Children(p)) \in Nat
<1>1. proc[p].at = "prompt" /\ Alive(p) /\ SoundProcess(proc[p])
  BY SoundIsAlive DEF MoreInput, AtPrompt, Places
<1>2. Len(script) \in Nat /\ typed \in 0..Len(script) /\ ShellInput
  BY ScriptLength DEF ShellInv, ShellInput
<1>3. IsProcess(proc[p]) /\ proc[p].seen \in 0..Len(script)
  BY <1>1 DEF SoundProcess
<1>4. ~tty => proc[p].seen < Len(script)
  BY DEF MoreInput, Position
<1>5. tty => typed < Len(script)
  BY DEF MoreInput, Position
<1>6. /\ IsProcess(Taken(p)) /\ Taken(p).seen \in proc[p].seen..Len(script)
      /\ Taken(p).seen \in 0..Len(script)
      /\ Taken(p).seen = IF tty THEN proc[p].seen ELSE proc[p].seen + 1
      /\ \A x \in Fields \ {"seen"} : Taken(p)[x] = proc[p][x]
  <2>1. CASE tty
    BY <1>2, <1>3, <2>1 DEF Taken
  <2>2. CASE ~tty
    <3>1. Taken(p) = [proc[p] EXCEPT !.seen = proc[p].seen + 1]
      BY <2>2 DEF Taken
    <3> QED
      BY <1>2, <1>3, <1>4, <2>2, <3>1 DEF IsProcess, Fields, Places
  <2> QED
    BY <2>1, <2>2
<1>7. Onwards
  BY OnwardsLine
<1>8. script \in Seq(Lines) /\ DOMAIN script = 1..Len(script)
  BY <1>2, ShellSizes, LenProperties DEF ShellInput
<1>9. Position(p) \in 0..(Len(script)-1)
  BY <1>2, <1>3, <1>4, <1>5 DEF Position
<1>10. Position(p) + 1 \in DOMAIN script /\ Line(p) \in Lines
  BY <1>2, <1>8, <1>9, ElementOfSeq DEF Line
<1>11. ASSUME NEW r, proc'[p] = r, r.seen = Taken(p).seen
       PROVE  /\ Jobs(p) \in Nat /\ Jobs(p)' \in Nat /\ Jobs(p) <= Jobs(p)'
              /\ Position(p) \in Nat /\ Position(p)' = Position(p) + 1
              /\ Position(p)' \in DOMAIN script
  <2>1. Position(p)' = Position(p) + 1
    BY <1>2, <1>6, <1>11 DEF Position, CountLine
  <2> QED
    BY <1>2, <1>3, <1>6, <1>7, <1>9, <1>10, <1>11, <2>1, JobsKept
<1>12. Cardinality(Children(p)) <= Jobs(p)
  BY <1>1 DEF ShellInv, Minded, MindedBy
<1>13. Cardinality(Children(p)) \in Nat
  BY ChildrenFinite, FS_CardinalityType
<1> QED
  BY <1>1, <1>6, <1>10, <1>11, <1>12, <1>13

LEMMA EndOfInputStep ==
  ASSUME ShellAssumption, ShellInv, NEW p \in Pid, EndOfInput(p) \/ exit_shell(p)
  PROVE  ShellInv'
<1>1. Alive(p) /\ Die(p, Exited(0)) /\ ~\E x \in Pid : Awaits(p, x)
  BY NotWaiting, SoundIsAlive DEF EndOfInput, exit_shell, MoreInput, AtPrompt, Places
<1>2. data \in [PipeId -> 0..Capacity]
  BY DEF ShellInv, ShellInput
<1>3. Onwards
  BY <1>2, OnwardsSame, OnwardsLine DEF EndOfInput, exit_shell
<1> QED
  BY <1>1, <1>3, DieStep

LEMMA SkipLineStep ==
  ASSUME ShellAssumption, ShellInv, NEW p \in Pid, SkipLine(p) \/ cd(p)
  PROVE  ShellInv'
<1>1. MoreInput(p) /\ CountLine /\ UNCHANGED <<script, tty, data>>
  BY DEF SkipLine, cd, IsCommand
<1>2. PICK r : /\ Put(p, r)
               /\ r = Taken(p) \/ \E to : r = [Taken(p) EXCEPT !.cwd = to]
  BY DEF SkipLine, cd
<1>3. /\ Alive(p) /\ proc[p].at = "prompt" /\ SoundProcess(proc[p])
      /\ IsProcess(Taken(p)) /\ Taken(p).seen \in 0..Len(script)
      /\ \A x \in Fields \ {"seen"} : Taken(p)[x] = proc[p][x]
      /\ Cardinality(Children(p)) <= Jobs(p) /\ Cardinality(Children(p)) \in Nat
  BY <1>1, TakenIs
<1>4. /\ IsProcess(r) /\ r.seen = Taken(p).seen
      /\ \A x \in Fields \ {"seen", "cwd"} : r[x] = Taken(p)[x]
  BY <1>2, <1>3 DEF IsProcess, Fields
<1>5. \A x \in Fields \ {"seen", "cwd"} : r[x] = proc[p][x]
  BY <1>3, <1>4
<1>6. /\ r.at = "prompt" /\ r.cmd = proc[p].cmd /\ r.top = proc[p].top /\ r.fd = proc[p].fd
      /\ r.ends = proc[p].ends /\ r.env = proc[p].env /\ r.ppid = proc[p].ppid
  BY <1>3, <1>5 DEF Fields
<1>7. SoundProcess(r)
  BY <1>3, <1>4, <1>6 DEF SoundProcess, Descriptors, Course, IsShell, Piping, InLoop
<1>8. proc'[p] = r
  BY <1>2, SoundIsAlive DEF Put
<1>9. Jobs(p) \in Nat /\ Jobs(p)' \in Nat /\ Jobs(p) <= Jobs(p)'
  BY <1>1, <1>4, <1>8, TakenIs
<1>10. MindedBy(r, Children(p), Jobs(p)')
  <2>1. Cardinality(Children(p)) <= Jobs(p)'
    BY <1>3, <1>9
  <2> QED
    BY <1>6, <2>1 DEF MindedBy
<1>11. Onwards /\ ~\E x \in Pid : Awaits(p, x)
  BY <1>1, <1>3, OnwardsLine, NotWaiting
<1>12. Capable(proc[p])
  BY <1>3 DEF Capable, InLoop
<1> QED
  BY <1>2, <1>3, <1>6, <1>7, <1>10, <1>11, <1>12, PutStep

\* A job, or a line that the shell cannot run, is a shell of the same kind.
LEMMA RunCmdStep ==
  ASSUME ShellAssumption, ShellInv, NEW p \in Pid, run_cmd(p)
  PROVE  ShellInv'
<1>1. MoreInput(p) /\ ~IsBuiltin(Line(p)) /\ CountLine /\ UNCHANGED <<script, tty, data>>
  BY DEF run_cmd
<1>2. /\ Alive(p) /\ proc[p].at = "prompt" /\ SoundProcess(proc[p])
      /\ IsProcess(Taken(p)) /\ Taken(p).seen \in 0..Len(script)
      /\ \A x \in Fields \ {"seen"} : Taken(p)[x] = proc[p][x]
      /\ Line(p) \in Lines
      /\ Cardinality(Children(p)) <= Jobs(p) /\ Cardinality(Children(p)) \in Nat
  BY <1>1, TakenIs
<1>3. Onwards /\ ~\E x \in Pid : Awaits(p, x)
  BY <1>1, <1>2, OnwardsLine, NotWaiting
<1> DEFINE parsed == Tree[Line(p)]
           Launched(pid) == [Taken(p) EXCEPT !.at = "launched", !.cmd = parsed, !.kid = pid]
<1>4. \/ Die(p, SIGSEGV)
      \/ parsed # NoCmd /\ Put(p, Launched(-1))
      \/ /\ parsed # NoCmd /\ Free # {}
         /\ Fork(p, Min(Free), Launched(Min(Free)), "exec", parsed, TRUE)
  BY DEF run_cmd
<1>5. IsCmd(parsed)
  BY <1>2, TreeIsCmd
<1> HIDE DEF parsed
<1>6. ASSUME NEW pid \in Pid \cup {-1}
      PROVE  LET r == Launched(pid) IN
             /\ IsProcess(r) /\ r.at = "launched" /\ r.cmd = parsed /\ r.kid = pid
             /\ r.seen = Taken(p).seen /\ r.top = proc[p].top /\ r.fd = proc[p].fd
             /\ r.ends = proc[p].ends /\ r.env = proc[p].env /\ r.ppid = proc[p].ppid
             /\ SoundProcess(r)
  <2> DEFINE r == Launched(pid)
  <2>1. /\ IsProcess(r) /\ r.at = "launched" /\ r.cmd = parsed /\ r.kid = pid
        /\ r.seen = Taken(p).seen
        /\ \A x \in Fields \ {"at", "cmd", "kid", "seen"} : r[x] = Taken(p)[x]
    BY <1>2 DEF IsProcess, Fields, Places
  <2> HIDE DEF r
  <2>2. /\ r.top = proc[p].top /\ r.fd = proc[p].fd
        /\ r.ends = proc[p].ends /\ r.env = proc[p].env /\ r.ppid = proc[p].ppid
    BY <1>2, <2>1 DEF Fields
  <2>3. Descriptors(r)
    BY <1>2, <2>1, <2>2 DEF SoundProcess, Descriptors, IsShell, InLoop, Piping
  <2>4. Course(r)
    BY <1>2, <2>1, <2>2 DEF SoundProcess, Course, Piping
  <2>5. SoundProcess(r)
    BY <1>2, <1>5, <2>1, <2>2, <2>3, <2>4 DEF SoundProcess
  <2> QED
    BY <2>1, <2>2, <2>5 DEF r
\* The line is one of the jobs from now on, if it is one.
<1>7. ASSUME NEW pid \in Pid \cup {-1}, proc'[p] = Launched(pid),
             NEW C, C \in {Children(p), Children(p) \cup {pid}}, C \subseteq Pid
      PROVE  MindedBy(Launched(pid), C, Jobs(p)')
  <2> DEFINE r == Launched(pid)
             n == Position(p) + 1
  <2>1. r.at = "launched" /\ r.cmd = parsed /\ r.kid = pid /\ r.seen = Taken(p).seen
    BY <1>6
  <2>2. /\ Jobs(p) \in Nat /\ Jobs(p)' \in Nat /\ Jobs(p) <= Jobs(p)'
        /\ Position(p) \in Nat /\ Position(p)' = n /\ n \in DOMAIN script
    BY <1>1, <1>7, <2>1, TakenIs
  <2>3. Cardinality(Children(p)) <= Jobs(p)' /\ IsFiniteSet(Children(p))
    BY <1>2, <2>2, ChildrenFinite
  <2>4. CASE parsed.type = "BACK"
    <3>1. n \in BackLines(n) /\ n \notin BackLines(Position(p))
      BY <1>1, <2>2, <2>4 DEF BackLines, Line, parsed
    <3>2. /\ IsFiniteSet(BackLines(Position(p))) /\ IsFiniteSet(BackLines(n))
          /\ BackLines(Position(p)) \subseteq BackLines(n)
          /\ Cardinality(BackLines(n)) \in Nat
      <4>1. ShellInput /\ n \in Nat /\ Position(p) \in Nat /\ Position(p) <= n
        BY <2>2 DEF ShellInv
      <4> HIDE DEF n
      <4> QED
        BY <4>1, JobsGrow
    <3>3. Cardinality(BackLines(Position(p)) \cup {n}) = Cardinality(BackLines(Position(p))) + 1
      BY <3>1, <3>2, FS_AddElement
    <3>4. Cardinality(BackLines(Position(p)) \cup {n}) <= Cardinality(BackLines(n))
      <4>1. BackLines(Position(p)) \cup {n} \subseteq BackLines(n)
        BY <3>1, <3>2
      <4> QED
        BY <3>2, <4>1, FS_Subset
    <3>5. Jobs(p)' = Cardinality(BackLines(n))
      BY <1>3, <2>2 DEF Jobs, BackLines, Onwards
    <3>6. Cardinality(C) <= Cardinality(Children(p)) + 1 /\ Cardinality(C) \in Nat
      <4>1. Cardinality(Children(p) \cup {pid}) <= Cardinality(Children(p)) + 1
        <5>1. IsFiniteSet(Children(p)) /\ Cardinality(Children(p)) \in Nat
          BY <1>2, <2>3
        <5>2. Cardinality(Children(p) \cup {pid}) =
                IF pid \in Children(p) THEN Cardinality(Children(p)) ELSE Cardinality(Children(p)) + 1
          BY <5>1, FS_AddElement
        <5> QED
          BY <5>1, <5>2
      <4>2. IsFiniteSet(C) /\ Cardinality(C) \in Nat
        <5>1. IsFiniteSet(C)
          BY <1>7, ShellSizes, FS_Subset
        <5> QED
          BY <5>1, FS_CardinalityType
      <4>3. Cardinality(C) \in {Cardinality(Children(p)), Cardinality(Children(p) \cup {pid})}
        BY <1>7
      <4>4. Cardinality(Children(p)) \in Nat
        BY <1>2
      <4> QED
        BY <4>1, <4>2, <4>3, <4>4
    <3>7. Cardinality(C) <= Jobs(p)'
      <4>1. Jobs(p) = Cardinality(BackLines(Position(p)))
        BY DEF Jobs
      <4> QED
        BY <1>2, <2>2, <3>2, <3>3, <3>4, <3>5, <3>6, <4>1
    <3>8. C \ {} = C
      OBVIOUS
    <3> QED
      BY <2>1, <2>4, <3>7, <3>8 DEF MindedBy
  <2>5. CASE parsed.type # "BACK"
    <3>1. C \ {pid} \subseteq Children(p)
      BY <1>7
    <3>2. Cardinality(C \ {pid}) <= Cardinality(Children(p)) /\ Cardinality(C \ {pid}) \in Nat
      <4>1. IsFiniteSet(C \ {pid})
        BY <2>3, <3>1, FS_Subset
      <4> QED
        BY <2>3, <3>1, <4>1, FS_Subset, FS_CardinalityType
    <3>3. Cardinality(C \ {pid}) <= Jobs(p)'
      BY <1>2, <2>2, <2>3, <3>2
    <3> QED
      BY <2>1, <2>5, <3>3 DEF MindedBy
  <2> QED
    BY <2>4, <2>5
<1>8. Capable(proc[p])
  BY <1>2 DEF Capable, InLoop
<1>9. CASE Die(p, SIGSEGV)
  BY <1>2, <1>3, <1>9, DieStep
<1>10. CASE Put(p, Launched(-1))
  <2> DEFINE r == Launched(-1)
  <2>1. proc'[p] = r
    BY <1>10, SoundIsAlive DEF Put
  <2>2. MindedBy(r, Children(p), Jobs(p)')
    BY <1>7, <2>1, ChildrenFinite
  <2>3. SoundProcess(r) /\ r.ppid = proc[p].ppid
    BY <1>6
  <2> HIDE DEF r
  <2> QED
    BY <1>2, <1>3, <1>8, <1>10, <2>2, <2>3, PutStep DEF r
<1>11. CASE Free # {} /\ Fork(p, Min(Free), Launched(Min(Free)), "exec", parsed, TRUE)
  <2>1. PICK q \in Free : q = Min(Free)
    <3>1. Free \in SUBSET Nat
      BY ShellSizes DEF Free
    <3> QED
      BY <1>11, <3>1, LeastIn
  <2>2. q \in Pid /\ q # p
    BY <1>2 DEF Free
  <2> DEFINE r == Launched(q)
             c == [r EXCEPT !.at = "exec", !.ppid = p, !.cmd = parsed, !.top = TRUE]
  <2>3. /\ SoundProcess(r) /\ IsProcess(r) /\ r.ppid = proc[p].ppid /\ r.at = "launched"
        /\ r.kid = q /\ r.cmd = parsed /\ r.fd = proc[p].fd /\ r.ends = proc[p].ends
        /\ r.env = proc[p].env
    BY <1>6, <2>2
  <2>4. Fork(p, q, r, "exec", parsed, TRUE)
    BY <1>11, <2>1
  <2>5. proc'[p] = r
    BY <1>2, <2>2, <2>4, SoundIsAlive DEF Fork
  <2>6. MindedBy(r, Children(p) \cup {q}, Jobs(p)')
    <3>1. Children(p) \cup {q} \subseteq Pid
      BY <2>2, ChildrenFinite
    <3> QED
      BY <1>7, <2>2, <2>5, <3>1
  <2> HIDE DEF r
  <2>7. c.at = "exec" /\ c.top = TRUE /\ c.fd = r.fd /\ c.ends = r.ends /\ c.env = r.env
    BY <2>3 DEF IsProcess, Fields
  <2> HIDE DEF c
  <2>8. Descriptors(c)
    BY <1>2, <2>3, <2>7 DEF SoundProcess, Descriptors, IsShell, InLoop, Piping
  <2>9. parsed.type = "PIPE" => parsed.type # "BACK"
    OBVIOUS
  <2> QED
    BY <1>2, <1>3, <1>5, <1>8, <2>1, <2>3, <2>4, <2>6, <2>8, <2>9, ForkStep DEF c
<1> QED
  BY <1>4, <1>9, <1>10, <1>11

-----------------------------------------------------------------------------
(* Shell: waiting for a line.                                              *)

LEMMA BackIs ==
  ASSUME ShellAssumption, ShellInv, Onwards, NEW p \in Pid, proc[p].at = "launched",
         NEW r, proc'[p] = r,
         \/ \E s : r = BackToPrompt(p, s)
         \/ r = [proc[p] EXCEPT !.at = "prompt", !.cmd = NoCmd, !.kid = 0],
         NEW C, C \subseteq Children(p), Cardinality(C) <= Jobs(p)
  PROVE  /\ SoundProcess(r) /\ r.ppid = proc[p].ppid /\ Alive(p) /\ Capable(proc[p])
         /\ MindedBy(r, C, Jobs(p)')
<1>1. SoundProcess(proc[p]) /\ Alive(p) /\ Capable(proc[p])
  BY SoundIsAlive DEF Places, Capable, InLoop
<1>2. PICK now \in {"prompt", "crash"} :
        \E s : r \in {[proc[p] EXCEPT !.at = now, !.status = s, !.cmd = NoCmd, !.kid = 0],
                      [proc[p] EXCEPT !.at = now, !.cmd = NoCmd, !.kid = 0]}
  BY DEF BackToPrompt
<1>3. /\ IsProcess(r) /\ r.at = now /\ r.cmd = NoCmd /\ r.kid = 0
      /\ r.seen = proc[p].seen /\ r.top = proc[p].top /\ r.fd = proc[p].fd
      /\ r.ends = proc[p].ends /\ r.env = proc[p].env /\ r.ppid = proc[p].ppid
  <2>1. IsProcess(proc[p])
    BY <1>1 DEF SoundProcess
  <2> QED
    BY <1>2, <2>1 DEF IsProcess, Fields, Places
<1>4. Descriptors(r) /\ Course(r)
  BY <1>1, <1>3 DEF SoundProcess, Descriptors, Course, IsShell, InLoop, Piping
<1>5. SoundProcess(r)
  BY <1>1, <1>3, <1>4 DEF SoundProcess, IsCmd, IsSingle
<1>6. Jobs(p) \in Nat /\ Jobs(p)' \in Nat /\ Jobs(p) <= Jobs(p)'
  <2>1. ShellInput /\ proc[p].seen \in 0..Len(script) /\ Len(script) \in Nat
    BY <1>1, ScriptLength DEF ShellInv, SoundProcess
  <2>2. proc'[p].seen \in proc[p].seen..Len(script)
    BY <1>3, <2>1
  <2> QED
    BY <2>1, <2>2, JobsKept
<1>7. Cardinality(C) \in Nat
  BY ChildrenFinite, FS_Subset, FS_CardinalityType
<1>8. Cardinality(C) <= Jobs(p)'
  BY <1>6, <1>7
<1> QED
  BY <1>1, <1>3, <1>5, <1>8 DEF MindedBy

LEMMA WaitStep ==
  ASSUME ShellAssumption, ShellInv, NEW p \in Pid, WaitFore(p) \/ WaitBack(p)
  PROVE  ShellInv'
<1>1. proc[p].at = "launched" /\ UNCHANGED <<script, tty, typed, data>>
  BY DEF WaitFore, WaitBack
<1>2. Onwards
  BY <1>1, OnwardsSame DEF ShellInv, ShellInput
<1>3. SoundProcess(proc[p]) /\ Alive(p)
  BY <1>1, SoundIsAlive DEF Places
<1>4. proc[p].kid \in Pid \cup {-1, 0} /\ Pid \subseteq Nat \ {0}
  BY <1>1, <1>3, ShellSizes DEF SoundProcess, Course
<1>5. /\ Children(p) \subseteq Pid /\ IsFiniteSet(Children(p)) /\ Cardinality(Children(p)) \in Nat
      /\ Jobs(p) \in Nat
  <2>1. ShellInput /\ proc[p].seen \in 0..Len(script) /\ Len(script) \in Nat /\ typed \in Nat
    BY <1>3, ScriptLength DEF ShellInv, SoundProcess
  <2>2. Position(p) \in Nat
    BY <2>1 DEF Position
  <2> QED
    BY <2>1, <2>2, JobsGrow, ChildrenFinite, FS_CardinalityType DEF Jobs
<1> DEFINE K == IF proc[p].cmd.type = "BACK" THEN {} ELSE {proc[p].kid}
<1>6. Cardinality(Children(p) \ K) <= Jobs(p)
  BY <1>1, <1>3 DEF ShellInv, Minded, MindedBy
\* Who is reaped, and what is left.
<1>7. ASSUME NEW C, C \subseteq Children(p), C \cap K = {}
      PROVE  Cardinality(C) <= Jobs(p)
  <2>1. C \subseteq Children(p) \ K
    BY <1>7
  <2>2. IsFiniteSet(Children(p) \ K)
    BY <1>5, FS_Subset
  <2>3. /\ Cardinality(C) <= Cardinality(Children(p) \ K)
        /\ Cardinality(C) \in Nat /\ Cardinality(Children(p) \ K) \in Nat
    <3> HIDE DEF K
    <3> QED
      BY <2>1, <2>2, FS_Subset, FS_CardinalityType
  <2> QED
    BY <1>5, <1>6, <2>3
<1>8. ASSUME Waited(p) = {} PROVE Children(p) \cap K = {} /\ ~\E x \in Pid : Awaits(p, x)
  BY <1>4, <1>5, <1>8 DEF Waited, Awaits, Children, Alive
<1>9. ASSUME NEW q \in ZombieChildren(p)
      PROVE  (Children(p) \ {q}) \cap K = {} /\ ~\E x \in Pid : Awaits(p, x)
  <2>1. q \in Children(p) /\ ~Alive(q) /\ (proc[p].kid > 0 => q = proc[p].kid)
    BY <1>9 DEF ZombieChildren, Waited, Alive
  <2>2. proc[p].kid \in Pid => q = proc[p].kid
    BY <1>4, <2>1
  <2>3. (Children(p) \ {q}) \cap K = {}
    BY <1>5, <2>2
  <2>4. ASSUME NEW x \in Pid, Awaits(p, x) PROVE FALSE
    BY <2>1, <2>2, <2>4 DEF Awaits
  <2> QED
    BY <2>3, <2>4
<1>10. ASSUME proc[p].cmd.type = "BACK"
       PROVE  Children(p) \cap K = {} /\ ~\E x \in Pid : Awaits(p, x)
  BY <1>10 DEF Awaits
<1>11. ASSUME NEW r, Put(p, r), \/ \E s : r = BackToPrompt(p, s)
                                \/ r = [proc[p] EXCEPT !.at = "prompt", !.cmd = NoCmd, !.kid = 0],
              Waited(p) = {} \/ proc[p].cmd.type = "BACK"
       PROVE  ShellInv'
  <2>1. Children(p) \cap K = {} /\ ~\E x \in Pid : Awaits(p, x)
    BY <1>8, <1>10, <1>11
  <2>2. Cardinality(Children(p)) <= Jobs(p)
    BY <1>7, <2>1
  <2>3. proc'[p] = r
    BY <1>11, SoundIsAlive DEF Put
  <2>4. /\ SoundProcess(r) /\ r.ppid = proc[p].ppid /\ Alive(p) /\ Capable(proc[p])
        /\ MindedBy(r, Children(p), Jobs(p)')
    BY <1>1, <1>2, <1>11, <2>2, <2>3, BackIs
  <2> QED
    BY <1>2, <1>11, <2>1, <2>4, PutStep
<1>12. ASSUME NEW q \in ZombieChildren(p), NEW r, Reap(p, q, r),
              \E s : r = BackToPrompt(p, s)
       PROVE  ShellInv'
  <2>1. (Children(p) \ {q}) \cap K = {} /\ ~\E x \in Pid : Awaits(p, x)
    BY <1>9
  <2>2. Cardinality(Children(p) \ {q}) <= Jobs(p)
    BY <1>7, <2>1
  <2>3. proc'[p] = r
    <3>1. q # p
      BY <1>3 DEF ZombieChildren, Alive
    <3> QED
      BY <1>12, <3>1, SoundIsAlive DEF Reap
  <2>4. /\ SoundProcess(r) /\ r.ppid = proc[p].ppid /\ Alive(p) /\ Capable(proc[p])
        /\ MindedBy(r, Children(p) \ {q}, Jobs(p)')
    <3> DEFINE C == Children(p) \ {q}
    <3>1. C \subseteq Children(p) /\ Cardinality(C) <= Jobs(p)
      BY <2>2
    <3> HIDE DEF C
    <3>2. /\ SoundProcess(r) /\ r.ppid = proc[p].ppid /\ Alive(p) /\ Capable(proc[p])
          /\ MindedBy(r, C, Jobs(p)')
      BY <1>1, <1>2, <1>12, <2>3, <3>1, BackIs
    <3> QED
      BY <3>2 DEF C
  <2> QED
    BY <1>2, <2>1, <2>4, <1>12, ReapStep
<1>13. CASE WaitFore(p)
  BY <1>11, <1>12, <1>13 DEF WaitFore
<1>14. CASE WaitBack(p)
  BY <1>11, <1>12, <1>14 DEF WaitBack
<1> QED
  BY <1>13, <1>14

-----------------------------------------------------------------------------
(* Shell: what a child does with its command.                              *)

\* At any other place a process waits for nobody.
LEMMA AtPlace ==
  ASSUME ShellAssumption, ShellInv, NEW p \in Pid, proc[p].at \in Places \ {"launched"},
         UNCHANGED <<script, tty, typed>>, data' \in [PipeId -> 0..Capacity]
  PROVE  /\ Onwards /\ Alive(p) /\ SoundProcess(proc[p]) /\ IsProcess(proc[p])
         /\ Descriptors(proc[p]) /\ Course(proc[p]) /\ IsCmd(proc[p].cmd)
         /\ ~\E x \in Pid : Awaits(p, x)
<1>1. SoundProcess(proc[p]) /\ Alive(p)
  BY SoundIsAlive
<1> QED
  BY <1>1, OnwardsSame, NotWaiting DEF SoundProcess

LEMMA CrashStep ==
  ASSUME ShellAssumption, ShellInv, NEW p \in Pid, Crash(p) \/ Done(p) \/ ProgramExits(p)
  PROVE  ShellInv'
<1>1. /\ proc[p].at \in {"crash", "exec", "done", "program"} /\ \E w : Die(p, w)
      /\ UNCHANGED <<script, tty, typed, data>>
  BY DEF Crash, Done, ProgramExits, Running
<1>2. data' \in [PipeId -> 0..Capacity]
  BY <1>1 DEF ShellInv, ShellInput
<1> QED
  BY <1>1, <1>2, AtPlace, DieStep DEF Places

LEMMA ExecStep ==
  ASSUME ShellAssumption, ShellInv, NEW p \in Pid, proc[p].at = "exec",
         UNCHANGED <<script, tty, typed, data>>,
         NEW r, NEW argv, Exec(p, r, argv),
         IsProcess(r), r.ppid = proc[p].ppid, r.seen = proc[p].seen, r.top = proc[p].top,
         r.ends = {}, r.fd = [i \in 0..2 |-> r.fd[i]],
         \A i \in 0..2 : \/ r.fd[i] \in {proc[p].fd[j] : j \in 0..2}
                         \/ r.fd[i][1] = "file"
  PROVE  ShellInv'
<1>1. data' \in [PipeId -> 0..Capacity]
  BY DEF ShellInv, ShellInput
<1>2. /\ Onwards /\ Alive(p) /\ SoundProcess(proc[p]) /\ IsProcess(proc[p])
      /\ Descriptors(proc[p]) /\ Course(proc[p])
      /\ ~\E x \in Pid : Awaits(p, x)
  BY <1>1, AtPlace DEF Places
<1>3. CASE \E w : Die(p, w)
  BY <1>2, <1>3, DieStep
<1>4. ASSUME NEW reads, NEW writes, NEW code,
             Put(p, [r EXCEPT !.at = "program", !.cmd = NoCmd, !.reads = reads,
                              !.todo = writes, !.code = code])
      PROVE  ShellInv'
  <2> DEFINE t == [r EXCEPT !.at = "program", !.cmd = NoCmd, !.reads = reads,
                            !.todo = writes, !.code = code]
  <2>1. /\ IsProcess(t) /\ t.at = "program" /\ t.cmd = NoCmd /\ t.ppid = proc[p].ppid
        /\ t.seen = proc[p].seen /\ t.top = proc[p].top /\ t.ends = {} /\ t.fd = r.fd
    BY DEF IsProcess, Fields, Places
  <2> HIDE DEF t
  <2>2. \A i \in 0..2 : t.fd[i] \in Target \/ t.fd[i][1] = "file"
    BY <1>2, <2>1 DEF Descriptors
  <2>3. ASSUME NEW n \in PipeId PROVE ~(Ends(n) \subseteq {t.fd[i] : i \in 0..2})
    <3>1. \A e \in Ends(n) : e[1] # "file"
      BY DEF Ends, End
    <3>2. ~(Ends(n) \subseteq {proc[p].fd[i] : i \in 0..2})
      BY <1>2 DEF Descriptors
    <3> QED
      BY <2>1, <3>1, <3>2
  <2>4. Descriptors(t)
    BY <2>1, <2>2, <2>3 DEF Descriptors, IsShell, InLoop, Piping
  <2>5. Course(t)
    BY <1>2, <2>1 DEF Course, Piping
  <2>6. SoundProcess(t)
    BY <1>2, <2>1, <2>4, <2>5 DEF SoundProcess, IsCmd, IsSingle
  <2>7. ~Capable(t) /\ MindedBy(t, Children(p), Jobs(p)')
    BY <2>1 DEF Capable, InLoop, Piping, MindedBy
  <2>8. Put(p, t)
    BY <1>4 DEF t
  <2> QED
    BY <1>2, <2>1, <2>6, <2>7, <2>8, PutStep
<1> QED
  BY <1>3, <1>4 DEF Exec

LEMMA ExecCmdStep ==
  ASSUME ShellAssumption, ShellInv, NEW p \in Pid, case_exec_cmd(p)
  PROVE  ShellInv'
<1>1. /\ proc[p].at = "exec" /\ UNCHANGED <<script, tty, typed, data>>
      /\ Exec(p, [proc[p] EXCEPT !.env = proc[p].env \cup proc[p].cmd.eargv], proc[p].cmd.argv)
  BY DEF case_exec_cmd, Executing
<1> DEFINE r == [proc[p] EXCEPT !.env = proc[p].env \cup proc[p].cmd.eargv]
<1>2. IsProcess(proc[p]) /\ Descriptors(proc[p])
  BY <1>1, SoundIsAlive DEF SoundProcess, Places
<1>3. /\ IsProcess(r) /\ r.ppid = proc[p].ppid /\ r.seen = proc[p].seen /\ r.top = proc[p].top
      /\ r.fd = proc[p].fd /\ r.ends = proc[p].ends
  BY <1>2 DEF IsProcess, Fields
<1> HIDE DEF r
<1>4. r.ends = {} /\ r.fd = [i \in 0..2 |-> r.fd[i]]
  BY <1>1, <1>2, <1>3 DEF Descriptors
<1>5. \A i \in 0..2 : r.fd[i] \in {proc[p].fd[j] : j \in 0..2}
  BY <1>3
<1> QED
  BY <1>1, <1>3, <1>4, <1>5, ExecStep DEF r

LEMMA RedirStep ==
  ASSUME ShellAssumption, ShellInv, NEW p \in Pid, case_redir_md(p)
  PROVE  ShellInv'
<1> DEFINE c == proc[p].cmd
           fds == Redirected(proc[p].fd, c)
           r == [proc[p] EXCEPT !.fd = fds]
<1>1. /\ proc[p].at = "exec" /\ c.type = "REDIR" /\ UNCHANGED <<script, tty, typed, data>>
      /\ Die(p, Exited(255)) \/ Exec(p, r, c.argv)
  BY DEF case_redir_md, Executing
<1>2. SoundProcess(proc[p]) /\ IsProcess(proc[p]) /\ Descriptors(proc[p]) /\ IsCmd(c)
  BY <1>1, SoundIsAlive DEF SoundProcess, Places
<1>3. \A t \in {c.in_file, c.out_file, c.err_file} : t = Nothing \/ t[1] = "file"
  BY <1>1, <1>2, CmdIs DEF IsExec
<1>4. /\ fds = [i \in 0..2 |-> fds[i]]
      /\ \A i \in 0..2 : fds[i] \in {proc[p].fd[j] : j \in 0..2} \/ fds[i][1] = "file"
  <2> HIDE DEF c
  <2>1. /\ fds[0] = (IF c.in_file = Nothing THEN proc[p].fd[0] ELSE c.in_file)
        /\ fds[1] = (IF c.out_file = Nothing THEN proc[p].fd[1] ELSE c.out_file)
        /\ fds[2] = (CASE c.err_file = Nothing -> proc[p].fd[2]
                       [] c.err_file = SameAsOut -> fds[1]
                       [] OTHER -> c.err_file)
        /\ fds = [i \in 0..2 |-> fds[i]]
    <3>1. SameAsOut # Nothing
      BY DEF SameAsOut, File, Nothing
    <3> QED
      BY <3>1 DEF Redirected
  <2> HIDE DEF fds
  <2>2. /\ fds[0] = proc[p].fd[0] \/ fds[0][1] = "file"
        /\ fds[1] = proc[p].fd[1] \/ fds[1][1] = "file"
    BY <1>3, <2>1
  <2>3. fds[2] \in {proc[p].fd[2], fds[1]} \/ fds[2][1] = "file"
    BY <1>3, <2>1
  <2> QED
    BY <2>1, <2>2, <2>3
<1> HIDE DEF fds, c
<1>5. /\ IsProcess(r) /\ r.ppid = proc[p].ppid /\ r.seen = proc[p].seen /\ r.top = proc[p].top
      /\ r.fd = fds /\ r.ends = proc[p].ends
  BY <1>2 DEF IsProcess, Fields
<1> HIDE DEF r
<1>6. r.ends = {}
  BY <1>1, <1>2, <1>5 DEF Descriptors
<1>7. CASE Exec(p, r, c.argv)
  BY <1>1, <1>4, <1>5, <1>6, <1>7, ExecStep
<1>8. CASE Die(p, Exited(255))
  <2>1. data' \in [PipeId -> 0..Capacity]
    BY <1>1 DEF ShellInv, ShellInput
  <2> QED
    BY <1>1, <1>8, <2>1, AtPlace, DieStep DEF Places
<1> QED
  BY <1>1, <1>7, <1>8

LEMMA BackStep ==
  ASSUME ShellAssumption, ShellInv, NEW p \in Pid, case_back_cmd(p)
  PROVE  ShellInv'
<1>1. /\ proc[p].at = "exec" /\ proc[p].cmd.type = "BACK" /\ UNCHANGED <<script, tty, typed, data>>
      /\ Put(p, [proc[p] EXCEPT !.cmd = proc[p].cmd.c])
  BY DEF case_back_cmd, Executing
<1>2. data' \in [PipeId -> 0..Capacity]
  BY <1>1 DEF ShellInv, ShellInput
<1>3. /\ Onwards /\ Alive(p) /\ SoundProcess(proc[p]) /\ IsProcess(proc[p])
      /\ Descriptors(proc[p]) /\ Course(proc[p]) /\ IsCmd(proc[p].cmd)
      /\ ~\E x \in Pid : Awaits(p, x)
  BY <1>1, <1>2, AtPlace DEF Places
<1> DEFINE c == proc[p].cmd.c
           r == [proc[p] EXCEPT !.cmd = c]
<1>4. IsExec(c)
  BY <1>1, <1>3, CmdIs DEF IsExec
<1>5. /\ IsProcess(r) /\ r.at = "exec" /\ r.cmd = c /\ r.top = proc[p].top /\ r.seen = proc[p].seen
      /\ r.fd = proc[p].fd /\ r.ends = proc[p].ends /\ r.env = proc[p].env
      /\ r.ppid = proc[p].ppid
  BY <1>1, <1>3 DEF IsProcess, Fields
<1> HIDE DEF r, c
<1>6. Descriptors(r) /\ Course(r)
  BY <1>1, <1>3, <1>5 DEF Descriptors, Course, IsShell, Piping, InLoop
<1>7. SoundProcess(r)
  BY <1>3, <1>4, <1>5, <1>6 DEF SoundProcess, IsCmd, IsSingle
<1>8. ~Capable(r)
  BY <1>4, <1>5 DEF Capable, IsExec, InLoop, Piping
<1>9. MindedBy(r, Children(p), Jobs(p)')
  <2>1. Minded(p)
    BY <1>3 DEF ShellInv
  <2> QED
    BY <1>1, <1>5, <2>1 DEF Minded, MindedBy
<1>10. Put(p, r)
  BY <1>1 DEF r, c
<1> QED
  BY <1>3, <1>5, <1>7, <1>8, <1>9, <1>10, PutStep

-----------------------------------------------------------------------------
(* Shell: the steps of a pipeline.                                         *)

\* A child that is about to take its end of the pipe, or that is the other's.
LEMMA ChildOf ==
  ASSUME NEW r, IsProcess(r), Descriptors(r), r.at \in {"right", "close"},
         NEW does \in {"left", "righthand"}, NEW p, NEW cmd,
         NEW c, c = [r EXCEPT !.at = does, !.ppid = p, !.cmd = cmd, !.top = FALSE]
  PROVE  Descriptors(c)
<1>1. c.at = does /\ c.top = FALSE /\ c.fd = r.fd /\ c.ends = r.ends
  BY DEF IsProcess, Fields
<1> QED
  BY <1>1 DEF Descriptors, IsShell, InLoop, Piping

LEMMA PipeLeftStep ==
  ASSUME ShellAssumption, ShellInv, NEW p \in Pid, PipeLeft(p)
  PROVE  ShellInv'
<1>1. proc[p].at = "exec" /\ proc[p].cmd.type = "PIPE" /\ UNCHANGED <<script, tty, typed>>
  BY DEF PipeLeft, Executing
<1>2. data \in [PipeId -> 0..Capacity] /\ PipeId \subseteq Nat /\ Capacity \in Nat
  BY ShellSizes DEF ShellInv, ShellInput
<1>3. CASE Die(p, Exited(255)) /\ UNCHANGED data
  BY <1>1, <1>2, <1>3, AtPlace, DieStep DEF Places
<1>4. CASE /\ FreePipes # {} /\ Free # {}
           /\ Fork(p, Min(Free), [proc[p] EXCEPT !.at = "right", !.ends = Ends(Min(FreePipes)),
                                                 !.left = Min(Free)],
                   "left", proc[p].cmd.leftcmd, FALSE)
           /\ data' = [data EXCEPT ![Min(FreePipes)] = 0]
  <2>1. PICK n \in FreePipes : n = Min(FreePipes)
    BY <1>2, <1>4, LeastIn DEF FreePipes
  <2>2. PICK q \in Free : q = Min(Free)
    <3>1. Free \in SUBSET Nat
      BY ShellSizes DEF Free
    <3> QED
      BY <1>4, <3>1, LeastIn
  <2>3. n \in PipeId /\ q \in Pid /\ \A e \in Ends(n) : ~Open(e)
    BY DEF Free, FreePipes
  <2>4. data' \in [PipeId -> 0..Capacity]
    BY <1>2, <1>4, <2>1, <2>3
  <2>5. /\ Onwards /\ Alive(p) /\ SoundProcess(proc[p]) /\ IsProcess(proc[p])
        /\ Descriptors(proc[p]) /\ Course(proc[p]) /\ IsCmd(proc[p].cmd)
        /\ ~\E x \in Pid : Awaits(p, x)
    BY <1>1, <2>4, AtPlace DEF Places
  <2> DEFINE cmd == proc[p].cmd.leftcmd
             r == [proc[p] EXCEPT !.at = "right", !.ends = Ends(n), !.left = q]
             c == [r EXCEPT !.at = "left", !.ppid = p, !.cmd = cmd, !.top = FALSE]
  <2>6. IsCmd(cmd)
    BY <1>1, <2>5, CmdIs DEF IsExec
  <2>7. Fork(p, q, r, "left", cmd, FALSE)
    BY <1>4, <2>1, <2>2
  <2> HIDE DEF cmd
  <2>8. /\ IsProcess(r) /\ r.at = "right" /\ r.ends = Ends(n) /\ r.left = q /\ r.cmd = proc[p].cmd
        /\ r.top = proc[p].top /\ r.seen = proc[p].seen /\ r.fd = proc[p].fd
        /\ r.env = proc[p].env /\ r.ppid = proc[p].ppid
    BY <2>5 DEF IsProcess, Fields, Places
  <2> HIDE DEF r
  <2>9. \A i \in 0..2 : r.fd[i] \notin Ends(n)
    BY <2>3, <2>5, <2>8 DEF Open, Holds, Held
  <2>10. Descriptors(r)
    <3>1. IsShell(r) => IsShell(proc[p])
      BY <1>1, <2>8 DEF IsShell, Piping, InLoop
    <3> QED
      BY <2>3, <2>5, <2>8, <2>9, <3>1 DEF Descriptors
  <2>11. Course(r)
    BY <1>1, <2>3, <2>5, <2>8 DEF Course, Piping
  <2>12. SoundProcess(r)
    BY <2>5, <2>8, <2>10, <2>11 DEF SoundProcess
  <2>13. Descriptors(c)
    BY <2>8, <2>10, ChildOf
  <2>14. Capable(r) => Capable(proc[p])
    BY <1>1, <2>8 DEF Capable, Piping, InLoop
  <2>15. MindedBy(r, Children(p) \cup {q}, Jobs(p)')
    <3>1. Children(p) = {}
      BY <1>1, <2>5, SoundIsAlive DEF Minded, MindedBy
    <3> QED
      BY <2>8, <3>1 DEF MindedBy
  <2> HIDE DEF c
  <2> QED
    BY <2>5, <2>6, <2>7, <2>8, <2>12, <2>13, <2>14, <2>15, ForkStep DEF c
<1> QED
  BY <1>3, <1>4 DEF PipeLeft

LEMMA PipeRightStep ==
  ASSUME ShellAssumption, ShellInv, NEW p \in Pid, PipeRight(p)
  PROVE  ShellInv'
<1>1. proc[p].at = "right" /\ UNCHANGED <<script, tty, typed, data>>
  BY DEF PipeRight
<1>2. data' \in [PipeId -> 0..Capacity]
  BY <1>1 DEF ShellInv, ShellInput
<1>3. /\ Onwards /\ Alive(p) /\ SoundProcess(proc[p]) /\ IsProcess(proc[p])
      /\ Descriptors(proc[p]) /\ Course(proc[p]) /\ IsCmd(proc[p].cmd)
      /\ ~\E x \in Pid : Awaits(p, x)
  BY <1>1, <1>2, AtPlace DEF Places
<1>4. CASE Die(p, Exited(255))
  BY <1>3, <1>4, DieStep
<1>5. CASE /\ Free # {}
           /\ Fork(p, Min(Free), [proc[p] EXCEPT !.at = "close", !.right = Min(Free)],
                   "righthand", proc[p].cmd.rightcmd, FALSE)
  <2>1. PICK q \in Free : q = Min(Free)
    <3>1. Free \in SUBSET Nat
      BY ShellSizes DEF Free
    <3> QED
      BY <1>5, <3>1, LeastIn
  <2>2. q \in Pid
    BY DEF Free
  <2> DEFINE cmd == proc[p].cmd.rightcmd
             r == [proc[p] EXCEPT !.at = "close", !.right = q]
             c == [r EXCEPT !.at = "righthand", !.ppid = p, !.cmd = cmd, !.top = FALSE]
  <2>3. IsCmd(cmd)
    BY <1>1, <1>3, CmdIs DEF IsExec, Course
  <2>4. Fork(p, q, r, "righthand", cmd, FALSE)
    BY <1>5, <2>1
  <2> HIDE DEF cmd
  <2>5. /\ IsProcess(r) /\ r.at = "close" /\ r.right = q /\ r.left = proc[p].left
        /\ r.cmd = proc[p].cmd /\ r.ends = proc[p].ends
        /\ r.top = proc[p].top /\ r.seen = proc[p].seen /\ r.fd = proc[p].fd
        /\ r.env = proc[p].env /\ r.ppid = proc[p].ppid
    BY <1>3 DEF IsProcess, Fields, Places
  <2> HIDE DEF r
  <2>6. Descriptors(r) /\ Course(r)
    BY <1>1, <1>3, <2>2, <2>5 DEF Descriptors, Course, Piping, InLoop, IsShell
  <2>7. SoundProcess(r)
    BY <1>3, <2>5, <2>6 DEF SoundProcess
  <2>8. Descriptors(c)
    BY <2>5, <2>6, ChildOf
  <2>9. Capable(r) => Capable(proc[p])
    BY <1>1, <2>5 DEF Capable, Piping, InLoop
  <2>10. MindedBy(r, Children(p) \cup {q}, Jobs(p)')
    <3>1. Children(p) \subseteq {proc[p].left}
      BY <1>1, <1>3, SoundIsAlive DEF Minded, MindedBy
    <3> QED
      BY <2>5, <3>1 DEF MindedBy
  <2> HIDE DEF c
  <2> QED
    BY <1>3, <2>1, <2>3, <2>4, <2>5, <2>7, <2>8, <2>9, <2>10, ForkStep DEF c
<1> QED
  BY <1>4, <1>5 DEF PipeRight

LEMMA PlumbStep ==
  ASSUME ShellAssumption, ShellInv, NEW p \in Pid, Plumb(p)
  PROVE  ShellInv'
<1>1. PICK i \in {0, 1}, k \in {"r", "w"} :
        Put(p, [proc[p] EXCEPT !.at = "exec", !.ends = {},
                               !.fd = [proc[p].fd EXCEPT ![i] = CHOOSE e \in proc[p].ends : e[1] = k]])
  BY DEF Plumb, Plumbed
<1>2. /\ proc[p].at \in {"left", "righthand"} /\ UNCHANGED <<script, tty, typed, data>>
  BY DEF Plumb
<1>3. data' \in [PipeId -> 0..Capacity]
  BY <1>2 DEF ShellInv, ShellInput
<1>4. /\ Onwards /\ Alive(p) /\ SoundProcess(proc[p]) /\ IsProcess(proc[p])
      /\ Descriptors(proc[p]) /\ Course(proc[p]) /\ IsCmd(proc[p].cmd)
      /\ ~\E x \in Pid : Awaits(p, x)
  BY <1>2, <1>3, AtPlace DEF Places
<1>5. PICK n \in PipeId : proc[p].ends = Ends(n) /\ \A j \in 0..2 : proc[p].fd[j] \notin Ends(n)
  BY <1>2, <1>4 DEF Descriptors
<1>6. PICK e : e = (CHOOSE x \in proc[p].ends : x[1] = k)
  OBVIOUS
<1>7. e \in Ends(n) /\ e = End(k, n) /\ e \in Target
  <2>1. End(k, n) \in Ends(n) /\ End(k, n)[1] = k
    BY DEF End, Ends
  <2>2. e \in Ends(n) /\ e[1] = k
    BY <1>5, <1>6, <2>1
  <2>3. e = End(k, n)
    BY <2>2 DEF Ends, End
  <2> QED
    BY <2>2, <2>3 DEF Target
<1> DEFINE fds == [proc[p].fd EXCEPT ![i] = e]
           r == [proc[p] EXCEPT !.at = "exec", !.ends = {}, !.fd = fds]
<1>8. /\ fds = [j \in 0..2 |-> fds[j]] /\ fds[i] = e
      /\ \A j \in 0..2 \ {i} : fds[j] = proc[p].fd[j]
  <2>1. proc[p].fd = [j \in 0..2 |-> proc[p].fd[j]]
    BY <1>4 DEF Descriptors
  <2> QED
    BY <2>1
<1>9. Put(p, r)
  BY <1>1, <1>6
<1> HIDE DEF fds
<1>10. /\ IsProcess(r) /\ r.at = "exec" /\ r.ends = {} /\ r.fd = fds /\ r.cmd = proc[p].cmd
       /\ r.top = proc[p].top /\ r.seen = proc[p].seen /\ r.env = proc[p].env
       /\ r.ppid = proc[p].ppid
  BY <1>4 DEF IsProcess, Fields, Places
<1> HIDE DEF r
<1>11. r.top = FALSE
  BY <1>2, <1>4, <1>10 DEF Course
<1>12. ASSUME NEW m \in PipeId PROVE ~(Ends(m) \subseteq {fds[j] : j \in 0..2})
  <2>1. \A x, y : x \in Ends(m) /\ x \in Ends(n) => m = n
    BY DEF Ends, End
  <2>2. CASE m = n
    <3>1. PICK x \in Ends(n) : x # e
      BY DEF Ends, End
    <3>2. x \notin {fds[j] : j \in 0..2}
      BY <1>5, <1>8, <3>1
    <3> QED
      BY <2>2, <3>1, <3>2
  <2>3. CASE m # n
    <3>1. e \notin Ends(m)
      BY <1>7, <2>1, <2>3
    <3>2. ~(Ends(m) \subseteq {proc[p].fd[j] : j \in 0..2})
      BY <1>4 DEF Descriptors
    <3>3. PICK x \in Ends(m) : x \notin {proc[p].fd[j] : j \in 0..2}
      BY <3>2
    <3>4. x \notin {fds[j] : j \in 0..2}
      BY <1>8, <3>1, <3>3
    <3> QED
      BY <3>3, <3>4
  <2> QED
    BY <2>2, <2>3
<1>13. \A j \in 0..2 : fds[j] \in Target \/ fds[j][1] = "file"
  BY <1>4, <1>7, <1>8 DEF Descriptors
<1>14. Descriptors(r)
  <2>1. ~IsShell(r)
    BY <1>10, <1>11 DEF IsShell, InLoop
  <2> QED
    BY <1>8, <1>10, <1>12, <1>13, <2>1 DEF Descriptors
<1>15. Course(r)
  BY <1>4, <1>10 DEF Course, Piping
<1>16. SoundProcess(r)
  BY <1>4, <1>10, <1>14, <1>15 DEF SoundProcess
<1>17. ~Capable(r)
  BY <1>10, <1>11 DEF Capable, InLoop
<1>18. MindedBy(r, Children(p), Jobs(p)')
  <2>1. Children(p) = {}
    BY <1>2, <1>4, SoundIsAlive DEF Minded, MindedBy
  <2> QED
    BY <1>10, <2>1 DEF MindedBy
<1> QED
  BY <1>4, <1>9, <1>10, <1>16, <1>17, <1>18, PutStep

LEMMA ClosePipeStep ==
  ASSUME ShellAssumption, ShellInv, NEW p \in Pid, ClosePipe(p)
  PROVE  ShellInv'
<1> DEFINE r == [proc[p] EXCEPT !.at = "waitleft", !.ends = {}, !.kid = proc[p].left]
<1>1. proc[p].at = "close" /\ Put(p, r) /\ UNCHANGED <<script, tty, typed, data>>
  BY DEF ClosePipe
<1>2. data' \in [PipeId -> 0..Capacity]
  BY <1>1 DEF ShellInv, ShellInput
<1>3. /\ Onwards /\ Alive(p) /\ SoundProcess(proc[p]) /\ IsProcess(proc[p])
      /\ Descriptors(proc[p]) /\ Course(proc[p])
      /\ ~\E x \in Pid : Awaits(p, x)
  BY <1>1, <1>2, AtPlace DEF Places
<1>4. /\ IsProcess(r) /\ r.at = "waitleft" /\ r.ends = {} /\ r.kid = proc[p].left
      /\ r.left = proc[p].left /\ r.right = proc[p].right /\ r.cmd = proc[p].cmd
      /\ r.top = proc[p].top /\ r.seen = proc[p].seen /\ r.fd = proc[p].fd
      /\ r.env = proc[p].env /\ r.ppid = proc[p].ppid
  BY <1>3 DEF IsProcess, Fields, Places
<1> HIDE DEF r
<1>5. Descriptors(r)
  BY <1>1, <1>3, <1>4 DEF Descriptors, IsShell, InLoop, Piping
<1>6. Course(r)
  BY <1>1, <1>3, <1>4 DEF Course, Piping
<1>7. SoundProcess(r)
  BY <1>3, <1>4, <1>5, <1>6 DEF SoundProcess
<1>8. Capable(r) => Capable(proc[p])
  BY <1>1, <1>4 DEF Capable, InLoop, Piping
<1>9. MindedBy(r, Children(p), Jobs(p)')
  <2>1. Minded(p)
    BY <1>3, SoundIsAlive
  <2> QED
    BY <1>1, <1>4, <2>1 DEF Minded, MindedBy
<1> QED
  BY <1>1, <1>3, <1>4, <1>7, <1>8, <1>9, PutStep

LEMMA WaitPipeStep ==
  ASSUME ShellAssumption, ShellInv, NEW p \in Pid, WaitLeft(p) \/ WaitRight(p)
  PROVE  ShellInv'
<1>1. /\ proc[p].at \in {"waitleft", "waitright"}
      /\ UNCHANGED <<script, tty, typed, data>>
  BY DEF WaitLeft, WaitRight
<1>2. data' \in [PipeId -> 0..Capacity]
  BY <1>1 DEF ShellInv, ShellInput
<1>3. /\ Onwards /\ Alive(p) /\ SoundProcess(proc[p]) /\ IsProcess(proc[p])
      /\ Descriptors(proc[p]) /\ Course(proc[p])
      /\ ~\E x \in Pid : Awaits(p, x)
  BY <1>1, <1>2, AtPlace DEF Places
<1>4. Pid \subseteq Nat \ {0} /\ proc[p].left \in Pid /\ proc[p].right \in Pid
  BY <1>1, <1>3, ShellSizes DEF Course, Piping
<1>5. ASSUME NEW q \in ZombieChildren(p) PROVE q = proc[p].kid
  BY <1>1, <1>3, <1>4, <1>5 DEF ZombieChildren, Waited, Course
<1>6. Minded(p)
  BY <1>3, SoundIsAlive
<1>7. ASSUME NEW q \in ZombieChildren(p), NEW at \in {"waitright", "launched", "done"}, NEW kid,
             Reap(p, q, [proc[p] EXCEPT !.at = at, !.kid = kid]),
             \/ proc[p].at = "waitleft" /\ at = "waitright" /\ kid = proc[p].right
             \/ /\ proc[p].at = "waitright" /\ kid = 0
                /\ at = IF proc[p].top THEN "launched" ELSE "done"
      PROVE  ShellInv'
  <2> DEFINE r == [proc[p] EXCEPT !.at = at, !.kid = kid]
  <2>1. Reap(p, q, r)
    BY <1>7
  <2>2. /\ IsProcess(r) /\ r.at = at /\ r.kid = kid /\ r.ends = proc[p].ends
        /\ r.left = proc[p].left /\ r.right = proc[p].right /\ r.cmd = proc[p].cmd
        /\ r.top = proc[p].top /\ r.seen = proc[p].seen /\ r.fd = proc[p].fd
        /\ r.env = proc[p].env /\ r.ppid = proc[p].ppid
    BY <1>3 DEF IsProcess, Fields, Places
  <2> HIDE DEF r
  <2>3. Descriptors(r)
    BY <1>3, <1>7, <2>2 DEF Descriptors, IsShell, InLoop, Piping
  <2>4. Course(r)
    BY <1>3, <1>4, <1>7, <2>2 DEF Course, Piping
  <2>5. SoundProcess(r)
    BY <1>3, <2>2, <2>3, <2>4 DEF SoundProcess
  <2>6. Capable(r) => Capable(proc[p])
    BY <1>7, <2>2 DEF Capable, InLoop, Piping
  <2>7. MindedBy(r, Children(p) \ {q}, Jobs(p)')
    <3>1. CASE at = "waitright"
      <4>1. Children(p) \ {q} \subseteq {r.right}
        BY <1>3, <1>5, <1>6, <1>7, <2>2, <3>1 DEF Minded, MindedBy, Course
      <4> QED
        BY <2>2, <3>1, <4>1 DEF MindedBy
    <3>2. CASE at \in {"launched", "done"}
      <4>1. Children(p) \ {q} = {}
        BY <1>3, <1>5, <1>6, <1>7, <3>2 DEF Minded, MindedBy, Course
      <4>2. \A S : {} \ S = {}
        OBVIOUS
      <4>3. Cardinality({}) = 0 /\ Jobs(p)' \in Nat
        <5>1. ShellInput /\ proc[p].seen \in 0..Len(script) /\ Len(script) \in Nat
          BY <1>3, ScriptLength DEF ShellInv, SoundProcess
        <5>2. q # p /\ proc'[p] = r
          BY <1>3, <2>1, SoundIsAlive DEF ZombieChildren, Alive, Reap
        <5>3. proc'[p].seen \in proc[p].seen..Len(script)
          BY <2>2, <5>1, <5>2
        <5> QED
          BY <1>3, <5>1, <5>3, JobsKept, FS_EmptySet
      <4> QED
        BY <2>2, <3>2, <4>1, <4>2, <4>3 DEF MindedBy
    <3> QED
      BY <3>1, <3>2
  <2> QED
    BY <1>3, <2>1, <2>2, <2>5, <2>6, <2>7, ReapStep
<1>8. CASE WaitLeft(p)
  BY <1>7, <1>8 DEF WaitLeft
<1>9. CASE WaitRight(p)
  BY <1>7, <1>9 DEF WaitRight
<1> QED
  BY <1>8, <1>9

-----------------------------------------------------------------------------
(* Shell: the programs, and all the steps.                                 *)

LEMMA ProgramStep ==
  ASSUME ShellAssumption, ShellInv, NEW p \in Pid, ProgramReads(p) \/ ProgramWrites(p)
  PROVE  ShellInv'
<1>1. /\ proc[p].at = "program" /\ UNCHANGED <<script, tty, typed>>
      /\ \/ \E w : Die(p, w)
         \/ \E reads, todo : Put(p, [proc[p] EXCEPT !.reads = reads, !.todo = todo])
  <2>1. CASE ProgramReads(p)
    <3>1. IsProcess(proc[p])
      BY <2>1, SoundIsAlive DEF ProgramReads, Running, SoundProcess, Places
    <3>2. /\ [proc[p] EXCEPT !.reads = FALSE]
             = [proc[p] EXCEPT !.reads = FALSE, !.todo = proc[p].todo]
          /\ [proc[p] EXCEPT !.todo = 1]
             = [proc[p] EXCEPT !.reads = proc[p].reads, !.todo = 1]
      BY <3>1 DEF IsProcess, Fields
    <3> QED
      BY <2>1, <3>2 DEF ProgramReads, Running
  <2>2. CASE ProgramWrites(p)
    <3>1. IsProcess(proc[p])
      BY <2>2, SoundIsAlive DEF ProgramWrites, Running, SoundProcess, Places
    <3>2. [proc[p] EXCEPT !.todo = @ - 1]
             = [proc[p] EXCEPT !.reads = proc[p].reads, !.todo = @ - 1]
      BY <3>1 DEF IsProcess, Fields
    <3> QED
      BY <2>2, <3>2 DEF ProgramWrites, Running
  <2> QED
    BY <2>1, <2>2
<1>2. data \in [PipeId -> 0..Capacity] /\ PipeId \subseteq Nat /\ Capacity \in Nat
  BY ShellSizes DEF ShellInv, ShellInput
<1>3. data' \in [PipeId -> 0..Capacity]
  <2>1. /\ Descriptors(proc[p])
    BY <1>1, SoundIsAlive DEF SoundProcess, Places
  <2>2. ASSUME NEW t, NEW i \in 0..2, t = proc[p].fd[i], IsPipe(t)
        PROVE  t[2] \in PipeId
    <3>1. t \in Target
      BY <2>1, <2>2 DEF Descriptors, IsPipe
    <3> QED
      BY <2>2, <3>1 DEF Target, IsPipe, Terminal, End
  <2>3. CASE ProgramReads(p)
    <3>1. PICK t : t = proc[p].fd[0]
      OBVIOUS
    <3>2. \/ UNCHANGED data
          \/ IsPipe(t) /\ data[t[2]] > 0 /\ data' = [data EXCEPT ![t[2]] = @ - 1]
      BY <2>3, <3>1 DEF ProgramReads
    <3>3. CASE IsPipe(t) /\ data[t[2]] > 0 /\ data' = [data EXCEPT ![t[2]] = @ - 1]
      <4>1. t[2] \in PipeId
        BY <2>2, <3>1, <3>3
      <4>2. PICK n \in PipeId : n = t[2]
        BY <4>1
      <4>3. data[n] \in 0..Capacity /\ data[n] > 0
        BY <1>2, <3>3, <4>2
      <4>4. data[n] - 1 \in 0..Capacity /\ data' = [data EXCEPT ![n] = data[n] - 1]
        BY <1>2, <3>3, <4>2, <4>3
      <4> QED
        BY <1>2, <4>4
    <3> QED
      BY <1>2, <3>2, <3>3
  <2>4. CASE ProgramWrites(p)
    <3>1. PICK t : t = proc[p].fd[1]
      OBVIOUS
    <3>2. \/ UNCHANGED data
          \/ /\ IsPipe(t) => data[t[2]] < Capacity
             /\ data' = [n \in PipeId |-> IF t = End("w", n) THEN data[n] + 1 ELSE data[n]]
      BY <2>4, <3>1 DEF ProgramWrites
    <3>3. ASSUME NEW n \in PipeId, t = End("w", n), IsPipe(t) => data[t[2]] < Capacity
          PROVE  data[n] + 1 \in 0..Capacity
      <4>1. IsPipe(t) /\ t[2] = n
        BY <3>3 DEF IsPipe, End
      <4> QED
        BY <1>2, <3>3, <4>1
    <3> QED
      BY <1>2, <3>2, <3>3
  <2> QED
    BY <2>3, <2>4
<1>4. /\ Onwards /\ Alive(p) /\ SoundProcess(proc[p]) /\ IsProcess(proc[p])
      /\ Descriptors(proc[p]) /\ Course(proc[p])
      /\ ~\E x \in Pid : Awaits(p, x)
  BY <1>1, <1>3, AtPlace DEF Places
<1>5. ASSUME NEW reads, NEW todo, Put(p, [proc[p] EXCEPT !.reads = reads, !.todo = todo])
      PROVE  ShellInv'
  <2> DEFINE r == [proc[p] EXCEPT !.reads = reads, !.todo = todo]
  <2>1. /\ IsProcess(r) /\ r.at = "program" /\ r.ends = proc[p].ends /\ r.cmd = proc[p].cmd
        /\ r.top = proc[p].top /\ r.seen = proc[p].seen /\ r.fd = proc[p].fd
        /\ r.env = proc[p].env /\ r.ppid = proc[p].ppid
    BY <1>1, <1>4 DEF IsProcess, Fields, Places
  <2>2. Put(p, r)
    BY <1>5
  <2> HIDE DEF r
  <2>3. Descriptors(r) /\ Course(r)
    <3>1. Descriptors(r)
      <4>1. ~IsShell(r)
        BY <2>1 DEF IsShell, InLoop, Piping
      <4>2. r.fd = proc[p].fd /\ r.ends = {}
        BY <1>1, <1>4, <2>1 DEF Descriptors
      <4>3. r.at \notin {"right", "left", "righthand", "close"}
        BY <2>1
      <4> HIDE <2>1
      <4> QED
        BY <1>4, <4>1, <4>2, <4>3 DEF Descriptors
    <3>2. Course(r)
      BY <1>4, <2>1 DEF Course, Piping
    <3> QED
      BY <3>1, <3>2
  <2>4. SoundProcess(r)
    BY <1>4, <2>1, <2>3 DEF SoundProcess
  <2>5. ~Capable(r) /\ MindedBy(r, Children(p), Jobs(p)')
    BY <2>1 DEF Capable, InLoop, Piping, MindedBy
  <2> QED
    BY <1>4, <2>1, <2>2, <2>4, <2>5, PutStep
<1> QED
  BY <1>1, <1>4, <1>5, DieStep

LEMMA ShellStep ==
  ASSUME ShellAssumption, ShellInv, [Next]_vars
  PROVE  ShellInv'
<1>1. ASSUME NEW p \in Pid, Step(p) PROVE ShellInv'
  <2>1. CASE EndOfInput(p) \/ exit_shell(p)
    BY <2>1, EndOfInputStep
  <2>2. CASE SkipLine(p) \/ cd(p)
    BY <2>2, SkipLineStep
  <2>3. CASE run_cmd(p)
    BY <2>3, RunCmdStep
  <2>4. CASE WaitFore(p) \/ WaitBack(p)
    BY <2>4, WaitStep
  <2>5. CASE Crash(p) \/ Done(p) \/ ProgramExits(p)
    BY <2>5, CrashStep
  <2>6. CASE case_exec_cmd(p)
    BY <2>6, ExecCmdStep
  <2>7. CASE case_redir_md(p)
    BY <2>7, RedirStep
  <2>8. CASE case_back_cmd(p)
    BY <2>8, BackStep
  <2>9. CASE PipeLeft(p)
    BY <2>9, PipeLeftStep
  <2>10. CASE PipeRight(p)
    BY <2>10, PipeRightStep
  <2>11. CASE Plumb(p)
    BY <2>11, PlumbStep
  <2>12. CASE ClosePipe(p)
    BY <2>12, ClosePipeStep
  <2>13. CASE WaitLeft(p) \/ WaitRight(p)
    BY <2>13, WaitPipeStep
  <2>14. CASE ProgramReads(p) \/ ProgramWrites(p)
    BY <2>14, ProgramStep
  <2> QED
    BY <1>1, <2>1, <2>2, <2>3, <2>4, <2>5, <2>6, <2>7, <2>8, <2>9, <2>10, <2>11, <2>12, <2>13,
       <2>14 DEF Step
<1>2. CASE UNCHANGED vars
  <2>1. UNCHANGED <<proc, script, tty, typed, data>>
    BY <1>2 DEF vars
  <2>2. ShellInput' /\ Family' /\ OneNext'
    BY <2>1 DEF ShellInv, ShellInput, Family, OneNext, NextReader, Awaits, Alive
  <2>3. Processes'
    BY <2>1 DEF ShellInv, Processes, InTable, SoundProcess
  <2>4. \A p \in Pid : Minded(p)' = Minded(p) /\ Alive(p)' = Alive(p)
    BY <2>1 DEF Minded, Children, Jobs, BackLines, Position, Alive
  <2> QED
    BY <2>2, <2>3, <2>4 DEF ShellInv
<1> QED
  BY <1>1, <1>2 DEF Next

LEMMA ShellStarts ==
  ASSUME ShellAssumption, Init
  PROVE  ShellInv
<1>1. ShellInput
  <2>1. script \in Seq(Lines)
    BY ShellSizes DEF Init
  <2>2. 0 \in 0..Len(script)
    BY <2>1, LenProperties
  <2> QED
    BY <2>2, ShellSizes DEF Init, ShellInput
<1>2. Len(script) \in Nat /\ typed = 0
  BY <1>1, ScriptLength DEF Init
<1>3. /\ proc = [p \in Pid |-> proc[p]]
      /\ \A p \in Pid \ {Root} : proc[p] = Gone
      /\ IsProcess(proc[Root]) /\ proc[Root].at = "prompt" /\ proc[Root].ppid = 0
      /\ proc[Root].cmd = NoCmd /\ proc[Root].top = FALSE /\ proc[Root].seen = 0
      /\ proc[Root].fd = [i \in 0..2 |-> Terminal] /\ proc[Root].ends = {}
      /\ proc[Root].env = {}
  BY ShellSizes DEF Init, IsProcess, Fields, Places
<1>4. Descriptors(proc[Root])
  <2>1. \A n : End("r", n) # Terminal
    BY DEF End, Terminal
  <2> QED
    BY <1>3, <2>1 DEF Descriptors, Target, Ends
<1>5. Course(proc[Root])
  BY <1>3 DEF Course, Piping
<1>6. SoundProcess(proc[Root])
  <2>1. proc[Root].seen \in 0..Len(script)
    BY <1>2, <1>3
  <2>2. IsCmd(proc[Root].cmd) /\ proc[Root].top \in BOOLEAN
    BY <1>3 DEF IsCmd, IsSingle
  <2> QED
    BY <1>3, <1>4, <1>5, <2>1, <2>2 DEF SoundProcess
<1>7. Processes
  BY <1>3, <1>6 DEF Processes, InTable
<1>8. \A p \in Pid : proc[p].at # "none" => p = Root
  BY <1>3 DEF Gone
<1>9. Family /\ OneNext
  <2>1. 0 \notin Pid
    BY ShellSizes
  <2>2. Family
    BY <1>3, <1>8, <2>1, ShellSizes DEF Family
  <2>3. OneNext
    BY <1>8 DEF OneNext, NextReader, Alive
  <2> QED
    BY <2>2, <2>3
<1>10. Minded(Root)
  <2>1. Children(Root) = {}
    BY <1>3, <1>8, ShellSizes DEF Children
  <2>2. Position(Root) = 0
    BY <1>2, <1>3 DEF Position
  <2>3. Jobs(Root) \in Nat
    BY <1>1, <2>2, JobsGrow DEF Jobs
  <2>4. Cardinality({}) <= Jobs(Root)
    BY <2>3, FS_EmptySet
  <2> QED
    BY <1>3, <2>1, <2>4 DEF Minded, MindedBy, Piping
<1> QED
  BY <1>1, <1>7, <1>8, <1>9, <1>10 DEF ShellInv, Alive

LEMMA ShellInvSays ==
  ASSUME ShellAssumption, ShellInv
  PROVE  ShellIsSound
<1>1. ASSUME NEW p \in Pid
      PROVE  /\ Alive(p) <=> SoundProcess(proc[p])
             /\ Alive(p) <=> proc[p].at \in Places
             /\ Alive(p) => Minded(p)
             /\ proc[p].at # "none" => proc[p].ppid \in Pid \cup {0}
  BY SoundIsAlive
<1>2. TypeOK
  <2>1. 0 \notin Pid
    BY ShellSizes
  <2>2. \A p \in Pid : proc[p].at # "none" =>
           proc[p].ppid \in Pid \cup {0} /\ (proc[p].ppid \in Pid => Alive(proc[p].ppid))
    BY <1>1, <2>1 DEF ShellInv, Family
  <2>3. \A p \in Pid : Alive(p) => Descriptors(proc[p])
    BY <1>1 DEF SoundProcess
  <2> QED
    BY <2>2, <2>3 DEF TypeOK, Descriptors, ShellInv, ShellInput
<1>3. ASSUME NEW p \in Pid, proc[p].at = "prompt"
      PROVE  /\ Held(proc[p]) = {Terminal} /\ proc[p].env = {} /\ NextReader(p)
             /\ Cardinality(Children(p)) <= Jobs(p)
  <2>1. Alive(p) /\ Descriptors(proc[p]) /\ Minded(p)
    BY <1>1, <1>3 DEF SoundProcess, Places
  <2>2. /\ proc[p].ends = {} /\ proc[p].env = {} /\ \A i \in 0..2 : proc[p].fd[i] = Terminal
    BY <1>3, <2>1 DEF Descriptors, IsShell, InLoop
  <2>3. {proc[p].fd[i] : i \in 0..2} = {Terminal}
    BY <2>2
  <2>4. Held(proc[p]) = {Terminal}
    BY <2>2, <2>3 DEF Held
  <2>5. NextReader(p)
    BY <1>3, <2>1, NotWaiting DEF NextReader, Capable, InLoop
  <2> QED
    BY <1>3, <2>1, <2>2, <2>4, <2>5 DEF Minded, MindedBy
<1>4. PromptIsClean /\ OneReader /\ ChildrenAreJobs
  BY <1>3 DEF PromptIsClean, OneReader, ChildrenAreJobs, AtPrompt, ShellInv, OneNext, Jobs
<1>5. NoStrayEnds
  <2>1. ASSUME NEW p \in Pid, proc[p].at = "program"
        PROVE  /\ proc[p].ends = {}
               /\ \A n \in PipeId : ~(Ends(n) \subseteq Held(proc[p]))
    <3>1. Descriptors(proc[p])
      BY <1>1, <2>1 DEF SoundProcess, Places
    <3> QED
      BY <2>1, <3>1 DEF Descriptors, Held
  <2> QED
    BY <2>1 DEF NoStrayEnds, Running
<1> QED
  BY <1>2, <1>4, <1>5 DEF ShellIsSound

\* What LinesAreRunSafely says of every number of processes and of pipes, of every line that
\* is typed or read, of whatever the programs do, and whether fork() fails or not
\* (runcmd.c:25-75, exec.c:78-190).
THEOREM ShellIsAlwaysSound ==
  ASSUME ShellAssumption
  PROVE  /\ Spec => []ShellIsSound
         /\ ShellSpec => []LinesAreRunSafely
<1>1. Init => ShellInv
  BY ShellStarts
<1>2. ShellInv /\ [Next]_vars => ShellInv'
  BY ShellStep
<1>3. ShellInv => ShellIsSound
  BY ShellInvSays
<1>4. Spec => []ShellIsSound
  BY <1>1, <1>2, <1>3, PTL DEF Spec
<1> DEFINE Inv == part = "shell" => ShellInv
           StepOfPart == UNCHANGED part /\ IF part = "shell" THEN Next ELSE UNCHANGED vars
<1>5. ShellInit => Inv
  BY <1>1 DEF ShellInit
<1>6. Inv /\ [StepOfPart]_<<part, vars>> => Inv'
  BY <1>2
<1>7. Inv => LinesAreRunSafely
  BY <1>3 DEF LinesAreRunSafely
<1>8. ShellSpec => []LinesAreRunSafely
  BY <1>5, <1>6, <1>7, PTL DEF ShellSpec
<1> QED
  BY <1>4, <1>8
=============================================================================
