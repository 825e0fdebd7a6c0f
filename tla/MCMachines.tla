----------------------------- MODULE MCMachines -----------------------------
(***************************************************************************)
(* The six models that need no other: UxStack, Console, Shell, Sieve,      *)
(* UserMem and Boot.  A behaviour is one of one of them: part says whose,  *)
(* and the variables of the other five are OFF.                            *)
(***************************************************************************)
EXTENDS MachineParts

CONSTANTS
  Parts,
  NPT, UPD, WPD, MPENTRY, IOPHYSMEM, EXTPHYSMEM, BOOTSTACK, PERCPU, KSTKSIZE, KSTKGAP, NCPU, PER,
  ENVSPAGES, MB16, LAPIC, KernelEnd, Cmos

VARIABLES
  cmos, end, pse, at, npages, nextfree, free, dir, pte, mmio, test

Mem == INSTANCE Boot

\* The parameters of each model are ones that it is meant for.
ASSUME MachinesAssumption ==
  /\ Ux!UxAssumption /\ Tty!ConsoleAssumption
  /\ Primes!SieveAssumption /\ ShellAssumption /\ Check!UserMemAssumption /\ Mem!BootAssumption

boot == <<cmos, end, pse, at, npages, nextfree, free, dir, pte, mmio, test>>
all == <<part, ux, console, vars, sieve, usermem, boot>>

InitOfPart ==
  /\ part \in Parts
  /\ UxInit /\ CheckInit /\ ConsoleInit /\ SieveInit /\ ShellInit
  /\ IF part = "boot" THEN Mem!Init
     ELSE /\ cmos = OFF /\ end = OFF /\ pse = OFF /\ at = OFF /\ npages = OFF /\ nextfree = OFF
          /\ free = OFF /\ dir = OFF /\ pte = OFF /\ mmio = OFF /\ test = OFF

Others(p) ==
  /\ part = p /\ UNCHANGED part
  /\ p # "ux" => UNCHANGED ux
  /\ p # "console" => UNCHANGED console
  /\ p # "shell" => UNCHANGED vars
  /\ p # "sieve" => UNCHANGED sieve
  /\ p # "usermem" => UNCHANGED usermem
  /\ p # "boot" => UNCHANGED boot

NextOfPart ==
  \/ Others("ux") /\ Ux!Next
  \/ Others("console") /\ Tty!Next
  \/ Others("shell") /\ Next
  \/ Others("sieve") /\ Primes!Next
  \/ Others("usermem") /\ Check!Next
  \/ Others("boot") /\ Mem!Next

\* The fairness of Shell and of Sieve: Linux lets some process go on while one can.
Runs ==
  \/ Others("shell") /\ Next
  \/ Others("sieve") /\ \E i \in 0..Filters : Primes!Step(i)
FairSpecs == InitOfPart /\ [][NextOfPart]_all /\ WF_all(Runs)

-----------------------------------------------------------------------------
(* Inputs.                                                                 *)

\* Programs that only write (more than a pipe holds), only read, do both, do
\* neither, and one that fails.
MCPrograms ==
  [yes  |-> [reads |-> FALSE, writes |-> 2, code |-> 0],
   cat  |-> [reads |-> TRUE, writes |-> 0, code |-> 0],
   true |-> [reads |-> FALSE, writes |-> 0, code |-> 0],
   false |-> [reads |-> FALSE, writes |-> 0, code |-> 1]]

\* /home/lib and /lib, started in /home.
MCEnter == [home |-> [lib |-> "homelib"], root |-> [lib |-> "lib", home |-> "home"],
            homelib |-> <<>>, lib |-> <<>>]

yes == Word("yes")
cat == Word("cat")
true == Word("true")
false == Word("false")

MCScripts == {
  \* Three programs in a pipeline, and lines after it.
  <<<<yes, Bar, cat, Bar, cat>>, <<Assign("k"), true>>>>,
  <<<<yes, Bar, true>>, <<Word("cd"), Word("lib")>>, <<yes, Bar, cat>>>>,
  \* Jobs: one that ends late, one that is a pipeline, one that is none.
  <<<<yes, Amp>>, <<false>>, <<Var("true"), Amp>>>>,
  <<<<yes, Bar, cat, Amp>>, <<Word("pwd")>>, <<Word("exit")>>, <<true>>>>,
  <<<<yes, Amp>>, <<true, ErrToOut, Amp>>, <<yes, Bar, cat, Bar, cat, Bar, cat>>>>,
  \* Redirections, of which the first fails.
  <<<<cat, In("f")>>, <<yes, Out("f"), ErrToOut, Bar, cat, Err("g")>>, <<cat, In("f"), Amp>>>>,
  \* Lines with nothing to run, or only half of it.
  <<<<Word("none"), Out("f")>>, <<Err("g")>>>>,
  <<<<Word("none")>>, <<LastStatus>>, <<>>, <<true, Bar>>, <<Bar, true>>, <<true>>>>,
  <<<<true, Amp, Bar, yes>>, <<Bar>>, <<true>>>>
}

\* Machines from too little memory to more than the window at KERNBASE.
Answer(base, ext, ext16) == [base |-> base, ext |-> ext, ext16 |-> ext16]
MCCmos ==
  {Answer(16, ext, 0) : ext \in {0, 20, 30, 36, 40, 44, 52, 60, 70, 73, 74, 76, 80, 86, 100, 230, 240}}
    \cup {Answer(15, 0, 0), Answer(16, 40, 4), Answer(16, 0, 96), Answer(16, 40, 200)}

-----------------------------------------------------------------------------
(* Properties: those of each model, of its own behaviours.  Those of       *)
(* UxStack, UserMem, Console, Sieve and Shell are in MachineParts.         *)

\* Every input of the shell comes to its end, and every process of the sieve is
\* waited for unless a pipe or a fork fails (Shell, Sieve).
EveryoneEnds ==
  <>/\ part = "shell" => Finished
    /\ part = "sieve" => failed \/ Primes!AllEnded

\* A kernel that boots has the address space of inc/memlayout.h and a free list of
\* unused pages, and only a lack of memory keeps it from booting (Boot).
BootIsSound == part = "boot" => Mem!BootIsSound
=============================================================================
