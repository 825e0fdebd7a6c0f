---------------------------- MODULE MachineParts ----------------------------
(***************************************************************************)
(* The parts of MCMachines about which there are theorems: the page faults *)
(* that user code handles, user_mem_check, the console, the sieve of       *)
(* processes and the shell.  A part runs if part says so; otherwise its    *)
(* variables are OFF.                                                      *)
(***************************************************************************)
EXTENDS Shell

CONSTANTS
  OFF,
  StackTop, UXBottom, UXTop, Push, MaxFaults, UserRegs,
  PGSIZE, VASPACE, ULIM, UserEntry, KernEntry, NoTable, Perm,
  Key, SerialByte, CONSBUFSIZE, BUFLEN, CRT_COLS, CRT_ROWS, Printed, MaxInput, MaxWaiting, MaxPrints,
  Numbers, Filters, SieveCapacity, MayFail

VARIABLES
  part,
  cpu, mem, env, faults, saved,
  entries, va, len, perm, inicio, result, user_mem_check_addr,
  down, kbd, com, shift, cons, owed, screen, reader, line, inputs, prints,
  N, terminal, pc, number, primo_leido, pipe, readers, writers, out, failed

Ux == INSTANCE UxStack
Check == INSTANCE UserMem
Tty == INSTANCE Console
Primes == INSTANCE Sieve WITH Capacity <- SieveCapacity

ux == <<cpu, mem, env, faults, saved>>
console == <<down, kbd, com, shift, cons, owed, screen, reader, line, inputs, prints>>
sieve == <<N, terminal, pc, number, primo_leido, pipe, readers, writers, out, failed>>
usermem == <<entries, va, len, perm, inicio, result, user_mem_check_addr>>

UxInit ==
  IF part = "ux" THEN Ux!Init
  ELSE cpu = OFF /\ mem = OFF /\ env = OFF /\ faults = OFF /\ saved = OFF
CheckInit ==
  IF part = "usermem" THEN Check!Init
  ELSE /\ entries = OFF /\ va = OFF /\ len = OFF /\ perm = OFF
       /\ inicio = OFF /\ result = OFF /\ user_mem_check_addr = OFF

ConsoleInit ==
  IF part = "console" THEN Tty!Init
  ELSE /\ down = OFF /\ kbd = OFF /\ com = OFF /\ shift = OFF /\ cons = OFF /\ owed = OFF
       /\ screen = OFF /\ reader = OFF /\ line = OFF /\ inputs = OFF /\ prints = OFF

SieveInit ==
  IF part = "sieve" THEN Primes!Init
  ELSE /\ N = OFF /\ terminal = OFF /\ pc = OFF /\ number = OFF /\ primo_leido = OFF
       /\ pipe = OFF /\ readers = OFF /\ writers = OFF /\ out = OFF /\ failed = OFF

ShellInit ==
  IF part = "shell" THEN Init
  ELSE proc = OFF /\ script = OFF /\ tty = OFF /\ typed = OFF /\ files = OFF /\ data = OFF

\* What a behaviour of MCMachines is for each of them.
UxSpec ==
  UxInit /\ [][UNCHANGED part /\ IF part = "ux" THEN Ux!Next ELSE UNCHANGED ux]_<<part, ux>>
CheckSpec ==
  /\ CheckInit
  /\ [][UNCHANGED part /\ IF part = "usermem" THEN Check!Next ELSE UNCHANGED usermem]_<<part, usermem>>
ConsoleSpec ==
  /\ ConsoleInit
  /\ [][UNCHANGED part /\ IF part = "console" THEN Tty!Next ELSE UNCHANGED console]_<<part, console>>
SieveSpec ==
  SieveInit /\ [][UNCHANGED part /\ IF part = "sieve" THEN Primes!Next ELSE UNCHANGED sieve]_<<part, sieve>>
ShellSpec ==
  ShellInit /\ [][UNCHANGED part /\ IF part = "shell" THEN Next ELSE UNCHANGED vars]_<<part, vars>>

-----------------------------------------------------------------------------
(* Properties: those of each model, of its own behaviours.                 *)

\* The frames of nested page faults stay what the kernel pushed, and an exception
\* stack that overflows costs the environment and not the kernel (UxStack).
FaultsNest == part = "ux" => Ux!FaultsNest

\* After a page fault everything goes on at the instruction that faulted, with its
\* registers, its flags and its stack as they were (UxStack).
ResumesExactly == [][part = "ux" => Ux!Resumes]_<<part, ux>>

\* user_mem_check accepts exactly the ranges that the environment may access, and
\* names the first byte of another that it may not (UserMem).
CheckIsSound == part = "usermem" => Check!CheckIsSound

\* No modifier sticks, the monitor reads what came in order, and the line that is
\* being read is the one on the screen (Console).
ConsoleIsSound == part = "console" => Tty!ConsoleIsSound

\* The filters print the primes in order whatever fails, and who hangs hangs on its
\* own pipe after a failure (Sieve).
SieveIsSound == part = "sieve" => Primes!SieveIsSound

\* One process at a time reads lines, with clean descriptors and no child but jobs;
\* programs hold no stray end of a pipe (Shell).
LinesAreRunSafely == part = "shell" => ShellIsSound
=============================================================================
