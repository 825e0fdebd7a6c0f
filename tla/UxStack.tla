------------------------------ MODULE UxStack -------------------------------
(***************************************************************************)
(* A page fault that user code handles itself: page_fault_handler() of     *)
(* kern/trap.c pushes a UTrapframe on the exception stack and turns to the *)
(* upcall of lib/pfentry.S, which calls the handler and goes back to the   *)
(* instruction that faulted, one instruction per step here.  The handler,  *)
(* and the store of the upcall to the other stack, may fault in turn.      *)
(*                                                                         *)
(* Addresses are words.  Of the words of a UTrapframe the eight registers  *)
(* are one.                                                                *)
(***************************************************************************)
EXTENDS Naturals, Sequences

CONSTANTS
  StackTop, \* the normal stack is 1..StackTop-1
  UXBottom, \* the page of the exception stack is UXBottom..UXTop-1
  UXTop,
  Push,     \* the most words that the handler has on the stack
  MaxFaults, \* a bound on the faults of a run
  UserRegs  \* what the registers and flags may be when the program faults

UxAssumption ==
  /\ {StackTop, UXBottom, UXTop, Push, MaxFaults} \subseteq Nat
  \* There is a page that is not mapped below the exception stack.
  /\ StackTop + 1 < UXBottom /\ UXBottom < UXTop

OnUx(a) == a \in UXBottom..(UXTop-1)
Word == 1..(StackTop-1) \cup UXBottom..(UXTop-1)

\* What a word holds.
Addr(a) == <<"addr", a>>
Code(eip) == <<"code", eip>>
Data(x) == <<"data", x>>
Program == {Data(x) : x \in UserRegs}

\* struct UTrapframe, in words from its start.
FaultVa == 0
Err == 1
Regs == 2
Eip == 3
Eflags == 4
Esp == 5
FrameSize == 6

VARIABLES
  cpu,   \* eip, esp, the flags, and the registers; popal sets the registers to the
         \* word they were saved in
  mem,   \* word -> its content
  env,   \* "none" before set_pgfault_handler(), "ready", or "destroyed"; "panic" is a
         \* page fault in the kernel
  faults, \* how many there were
  saved  \* cpu at each fault that is being handled, with the normal stack (history)

vars == <<cpu, mem, env, faults, saved>>

Set(a, w) == mem' = [mem EXCEPT ![a] = w]
At(eip) == env = "ready" /\ cpu.eip = eip

-----------------------------------------------------------------------------
(* lib/pgfault.c and kern/trap.c.                                          *)

\* set_pgfault_handler(): the exception stack, the upcall and the handler.
SetHandler ==
  /\ env = "none" /\ env' = "ready" /\ UNCHANGED <<cpu, mem, faults, saved>>

NewFrame_FromTop(esp) == UXTop - FrameSize

\* Where a frame for a fault at esp goes.  On the exception stack already, a word is
\* left between the frame and what is there.
NewFrame(esp) == IF OnUx(esp) THEN esp - 1 - FrameSize ELSE UXTop - FrameSize

Frame(u) == [a \in u..(u + FrameSize - 1) |->
  CASE a = u + FaultVa -> Data("va")
    [] a = u + Err     -> Data("err")
    [] a = u + Regs    -> cpu.regs
    [] a = u + Eip     -> Code(cpu.eip)
    [] a = u + Eflags  -> cpu.flags
    [] a = u + Esp     -> Addr(cpu.esp)]

PageFault_Unchecked ==
  LET u == NewFrame(cpu.esp)
      frame == Frame(u)
  IN  /\ faults < MaxFaults /\ faults' = faults + 1
      /\ \/ ~OnUx(u) /\ env' = "panic" /\ UNCHANGED <<cpu, mem, saved>>
         \/ /\ OnUx(u)
            /\ mem' = [a \in Word |-> IF a \in DOMAIN frame THEN frame[a] ELSE mem[a]]
            /\ cpu' = [cpu EXCEPT !.eip = "pushl_esp", !.esp = u]
            /\ saved' = Append(saved, [cpu |-> cpu, stack |-> mem])
            /\ UNCHANGED env

\* The word is cleared before user_mem_assert() looks at the frame below it.
PageFault ==
  LET u == NewFrame(cpu.esp)
      cleared == IF OnUx(cpu.esp) THEN [mem EXCEPT ![cpu.esp - 1] = Data("zero")] ELSE mem
      frame == Frame(u)
  IN  /\ faults < MaxFaults /\ faults' = faults + 1
      /\ \/ /\ OnUx(cpu.esp) /\ ~OnUx(cpu.esp - 1)
            /\ env' = "panic" /\ UNCHANGED <<cpu, mem, saved>>
         \/ /\ OnUx(cpu.esp) => OnUx(cpu.esp - 1)
            /\ ~OnUx(u) /\ env' = "destroyed"
            /\ mem' = cleared /\ UNCHANGED <<cpu, saved>>
         \/ /\ OnUx(u)
            /\ mem' = [a \in Word |-> IF a \in DOMAIN frame THEN frame[a] ELSE cleared[a]]
            /\ cpu' = [cpu EXCEPT !.eip = "pushl_esp", !.esp = u]
            /\ saved' = Append(saved, [cpu |-> cpu, stack |-> mem])
            /\ UNCHANGED env

\* Without an upcall the environment is destroyed.
PageFaultUnhandled ==
  /\ env = "none" /\ env' = "destroyed" /\ UNCHANGED <<cpu, mem, faults, saved>>

\* The program faults, with whatever it has in its registers.
ProgramFaults == At("program") /\ PageFault
HandlerFaults == At("handler") /\ PageFault

-----------------------------------------------------------------------------
(* lib/pfentry.S.                                                          *)

Field(f) == mem[cpu.esp + f]

PushArg ==
  /\ At("pushl_esp") /\ OnUx(cpu.esp - 1)
  /\ Set(cpu.esp - 1, Addr(cpu.esp)) /\ cpu' = [cpu EXCEPT !.eip = "call", !.esp = @ - 1]
  /\ UNCHANGED <<env, faults, saved>>

CallHandler ==
  /\ At("call") /\ OnUx(cpu.esp - 1)
  /\ Set(cpu.esp - 1, Data("return"))
  /\ cpu' = [cpu EXCEPT !.eip = "handler", !.esp = @ - 1, !.regs = Data("scratch")]
  /\ UNCHANGED <<env, faults, saved>>

\* There is no room for the word.
PushFaults ==
  /\ At("pushl_esp") \/ At("call")
  /\ ~OnUx(cpu.esp - 1) /\ PageFault

\* The handler uses the stack and any register.
HandlerPushes ==
  /\ At("handler") /\ OnUx(cpu.esp - 1)
  /\ \E n \in 0..(Push-1) : mem[cpu.esp + n] = Data("return")
  /\ Set(cpu.esp - 1, Data("local")) /\ cpu' = [cpu EXCEPT !.esp = @ - 1]
  /\ UNCHANGED <<env, faults, saved>>

\* It returns to the word that the call pushed; addl pops the argument.
HandlerReturns ==
  /\ At("handler")
  /\ \E n \in 0..Push :
       /\ mem[cpu.esp + n] = Data("return")
       /\ \A i \in 0..(n-1) : mem[cpu.esp + i] = Data("local")
       /\ cpu' = [cpu EXCEPT !.eip = "movl_esp_ecx", !.esp = @ + n + 2]
  /\ UNCHANGED <<mem, env, faults, saved>>

\* movl 0x30(%esp), %ecx and subl $4, %ecx
LoadEsp ==
  /\ At("movl_esp_ecx")
  /\ cpu' = [cpu EXCEPT !.eip = "movl_ecx_esp", !.regs = Addr(Field(Esp)[2] - 1), !.flags = Data("scratch")]
  /\ UNCHANGED <<mem, env, faults, saved>>

\* movl %ecx, 0x30(%esp)
StoreEsp ==
  /\ At("movl_ecx_esp") /\ Set(cpu.esp + Esp, cpu.regs)
  /\ cpu' = [cpu EXCEPT !.eip = "movl_edx_ecx"] /\ UNCHANGED <<env, faults, saved>>

\* movl 0x28(%esp), %edx and movl %edx, (%ecx), which may fault: the stack of the
\* program may be copy-on-write.
PushEip ==
  /\ At("movl_edx_ecx") /\ Set(cpu.regs[2], Field(Eip))
  /\ cpu' = [cpu EXCEPT !.eip = "popal"] /\ UNCHANGED <<env, faults, saved>>
PushEipFaults == At("movl_edx_ecx") /\ ~OnUx(cpu.regs[2]) /\ PageFault

\* addl $8, %esp and popal
PopRegs ==
  /\ At("popal")
  /\ cpu' = [cpu EXCEPT !.eip = "popfl", !.regs = Field(Regs), !.esp = @ + Eip]
  /\ UNCHANGED <<mem, env, faults, saved>>

\* addl $4, %esp, then popfl
PopFlags ==
  /\ At("popfl")
  /\ cpu' = [cpu EXCEPT !.eip = "pop_esp", !.flags = mem[cpu.esp + 1], !.esp = @ + 2]
  /\ UNCHANGED <<mem, env, faults, saved>>

PopEsp_AddlFirst ==
  /\ At("pop_esp")
  /\ cpu' = [cpu EXCEPT !.eip = "ret", !.esp = mem[cpu.esp][2], !.flags = Data("scratch")]
  /\ UNCHANGED <<mem, env, faults, saved>>

PopEsp ==
  /\ At("pop_esp") /\ cpu' = [cpu EXCEPT !.eip = "ret", !.esp = mem[cpu.esp][2]]
  /\ UNCHANGED <<mem, env, faults, saved>>

Ret_ToProgram ==
  /\ At("ret") /\ cpu' = [cpu EXCEPT !.eip = "program", !.esp = @ + 1]
  /\ saved' = SubSeq(saved, 1, Len(saved) - 1) /\ UNCHANGED <<mem, env, faults>>

Ret ==
  /\ At("ret") /\ cpu' = [cpu EXCEPT !.eip = mem[cpu.esp][2], !.esp = @ + 1]
  /\ saved' = SubSeq(saved, 1, Len(saved) - 1) /\ UNCHANGED <<mem, env, faults>>

-----------------------------------------------------------------------------
Init ==
  /\ cpu \in [eip : {"program"}, esp : 2..StackTop, flags : Program, regs : Program]
  /\ mem = [a \in Word |-> Data("any")]
  /\ env = "none" /\ saved = <<>> /\ faults = 0

Next ==
  \/ SetHandler \/ PageFaultUnhandled \/ ProgramFaults \/ HandlerFaults
  \/ PushArg \/ CallHandler \/ PushFaults \/ HandlerPushes \/ HandlerReturns
  \/ LoadEsp \/ StoreEsp \/ PushEip \/ PushEipFaults
  \/ PopRegs \/ PopFlags \/ PopEsp \/ Ret

Spec == Init /\ [][Next]_vars

-----------------------------------------------------------------------------
(* Properties.                                                             *)

TypeOK ==
  /\ env \in {"none", "ready", "destroyed", "panic"}
  /\ cpu.esp \in 1..UXTop
  /\ DOMAIN mem = Word
  /\ cpu.eip = "program" <=> saved = <<>>

\* After the handler the program, or the handler or upcall that a nested fault had
\* stopped, goes on at the instruction that faulted with its registers, flags and
\* stack, and what was on its stack is there: the way back needs no register and no
\* word that is in use.
Resumes ==
  At("ret") =>
    LET was == saved[Len(saved)]
    IN  /\ cpu' = was.cpu
        /\ \A a \in Word : a >= was.cpu.esp /\ (a < UXBottom <=> was.cpu.esp <= StackTop)
             => mem'[a] = was.stack[a]
ResumesExactly == [][Resumes]_vars

\* The frame of every fault that is being handled stays what the kernel pushed, except
\* that the way back lowers its esp by one.
FramesIntact ==
  \A i \in 1..Len(saved) :
    LET was == saved[i].cpu
        u == NewFrame(was.esp)
    IN  i < Len(saved) \/ cpu.eip \notin {"popfl", "pop_esp", "ret"} =>
          /\ mem[u + Eip] = Code(was.eip) /\ mem[u + Eflags] = was.flags /\ mem[u + Regs] = was.regs
          /\ mem[u + Esp] \in {Addr(was.esp), Addr(was.esp - 1)}

\* An exception stack that overflows costs the environment, not the kernel: the kernel
\* itself faults only when esp was at the lowest word of the page (trap.c:390).
PanicOnlyAtBottom == env = "panic" => cpu.esp = UXBottom

\* What a run checks of every state: its parts are explained above.
FaultsNest == TypeOK /\ FramesIntact /\ PanicOnlyAtBottom
=============================================================================
