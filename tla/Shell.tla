------------------------------- MODULE Shell -------------------------------
(***************************************************************************)
(* The shell of labs/shell: how a line is parsed into a tree of commands,  *)
(* and the processes, pipes, descriptors and waits with which the tree is  *)
(* run.  A process is in the code of the shell until it executes a         *)
(* program.  Every step between two system calls that another process may  *)
(* tell apart is an action.                                                *)
(*                                                                         *)
(* A line is a sequence of tokens.  The input is a terminal, of which a    *)
(* getchar() takes one line, or a file, which the first getchar() reads    *)
(* whole into the buffer that fork() copies.                               *)
(***************************************************************************)
EXTENDS Integers, Sequences, SequencesExt, FiniteSetsExt

CONSTANTS
  Pid,       \* the processes there may be at once
  Root,      \* the shell that the user starts
  ForkMayFail, \* whether fork() may fail with room left in Pid
  PipeId,    \* the pipes there may be at once
  Capacity,  \* how much a pipe holds
  Programs,  \* name -> [reads, writes, code]: the programs execvp() finds
  Enter,     \* directory -> (name -> the directory of that name in it)
  Home,
  Scripts,   \* the inputs to try, sequences of lines
  OldFiles   \* the files there are at first

ShellAssumption ==
  /\ Pid \subseteq Nat \ {0} /\ IsFiniteSet(Pid) /\ Root \in Pid
  /\ PipeId \subseteq Nat
  /\ Capacity \in Nat \ {0}
  /\ Scripts \subseteq Seq(UNION {ToSet(input) : input \in Scripts})
  /\ \A toks \in UNION {ToSet(input) : input \in Scripts} : Len(toks) \in Nat

VARIABLES
  proc,   \* the processes
  script, \* the input, which does not change
  tty,    \* whether it is a terminal
  typed,  \* the lines that have been taken from it, if it is one
  files,  \* the files there are
  data    \* how much each pipe holds
vars == <<proc, script, tty, typed, files, data>>

------------------------------------------------------------------------------
(* Parsing: parsing.c *)

\* The characters that each kind of token contains, as block_contains() asks.
Word(w) == <<"word", w>>
Bar == <<"bar">>
Amp == <<"amp">>
In(f) == <<"in", f>>
Out(f) == <<"out", f>>
Err(f) == <<"err", f>>
ErrToOut == Err("&1")
Assign(k) == <<"assign", k>>
Var(v) == <<"var", v>>      \* $V, with the value that V has
LastStatus == <<"status">>  \* $?
Nothing == <<"null">>
File(f) == <<"file", f>>
SameAsOut == File("&1")

NoCmd == [type |-> "NULL"]

\* The last redirection of a kind is the one that counts: strcpy().
LastOf(toks, kind) ==
  LET those == SelectSeq(toks, LAMBDA t : t[1] = kind)
  IN  IF those = <<>> THEN Nothing ELSE File(Last(those)[2])

\* A value that is substituted is a word; for $? a NULL is, and execvp() sees
\* the arguments before it.
expand_environ_var(t) ==
  CASE t[1] = "var"    -> Word(t[2])
    [] t[1] = "status" -> Nothing
    [] OTHER           -> t

Arguments(argv) == LET k == SelectInSeq(argv, LAMBDA t : t = Nothing)
                   IN  IF k = 0 THEN argv ELSE SubSeq(argv, 1, k - 1)

ExecCmd(toks) ==
  LET Redirs == {"in", "out", "err"}
      rest == SelectSeq(toks, LAMBDA t : t[1] \notin Redirs \cup {"assign"})
  IN  [type |-> IF \E i \in DOMAIN toks : toks[i][1] \in Redirs THEN "REDIR" ELSE "EXEC",
       scmd |-> toks,
       argv |-> Arguments([i \in DOMAIN rest |-> expand_environ_var(rest[i])]),
       eargv |-> {toks[i][2] : i \in {j \in DOMAIN toks : toks[j][1] = "assign"}},
       in_file |-> LastOf(toks, "in"),
       out_file |-> LastOf(toks, "out"),
       err_file |-> LastOf(toks, "err")]

\* The first '&' of the line decides, and what follows it is cut off.
HasAmp(t) == t \in {Amp, ErrToOut}
FirstAmp(toks) == SelectInSeq(toks, HasAmp)
IsBack(toks) == FirstAmp(toks) # 0 /\ toks[FirstAmp(toks)] = Amp
CutAtAmp(toks) == IF IsBack(toks) THEN SubSeq(toks, 1, FirstAmp(toks) - 1) ELSE toks

BackCmd(c) == [type |-> "BACK", scmd |-> c.scmd, c |-> c]

parse_cmd(toks) ==
  CASE toks = <<>>  -> NoCmd
    [] IsBack(toks) -> BackCmd(ExecCmd(CutAtAmp(toks)))
    [] OTHER        -> ExecCmd(toks)

PipeCmd(l, r) ==
  IF r = NoCmd THEN l ELSE [type |-> "PIPE", scmd |-> <<>>, leftcmd |-> l, rightcmd |-> r]

\* split_line() at the first '|'.
FirstBar(toks) == LET bar == SelectInSeq(toks, LAMBDA t : t = Bar)
                  IN  IF bar = 0 THEN Len(toks) + 1 ELSE bar
BeforeBar(toks) == SubSeq(toks, 1, FirstBar(toks) - 1)
AfterBar(toks) == SubSeq(toks, FirstBar(toks) + 1, Len(toks))

\* parse_line() parses what is right of the first '|' as one command before
\* it looks for another '|': a background command is cut at its '&' by then.
MoreBars(toks) == SelectInSeq(CutAtAmp(AfterBar(toks)), LAMBDA t : t = Bar) > 1

\* The argument of the k-th parse_line() within one, and what it returns.
Rests(toks) ==
  LET rest[k \in 0..Len(toks)] ==
        IF k = 0 THEN toks ELSE CutAtAmp(AfterBar(rest[k-1]))
  IN  rest
Parses(toks) ==
  LET parse[k \in 0..Len(toks)] ==
        PipeCmd(parse_cmd(BeforeBar(Rests(toks)[k])),
                IF k < Len(toks) /\ MoreBars(Rests(toks)[k])
                THEN parse[k+1]
                ELSE parse_cmd(AfterBar(Rests(toks)[k])))
  IN  parse
parse_line(toks) == Parses(toks)[0]

\* What the lines of the inputs are parsed into.
Lines == UNION {ToSet(input) : input \in Scripts}
Tree == [toks \in Lines |-> parse_line(toks)]

\* free_command() reads cmd->type of each command of the tree: those to the right
\* of one another, and what is left of them, which is no pipe.
Longest == Max({Len(toks) : toks \in Lines})
HasNull(c) ==
  LET down[k \in 0..Longest] ==
        IF k = 0 THEN c
        ELSE LET d == down[k-1] IN IF d.type = "PIPE" THEN d.rightcmd ELSE d
  IN  \E k \in 0..Longest :
        \/ down[k].type = "NULL"
        \/ down[k].type = "PIPE" /\ down[k].leftcmd.type = "NULL"

------------------------------------------------------------------------------
(* Processes and descriptors *)

Terminal == <<"tty">>
End(k, n) == <<k, n>>
Ends(n) == {End("r", n), End("w", n)}

\* A process that is no more, and one that is a zombie.
Gone == [at |-> "none"]
Zombie(ppid, wstatus) == [at |-> "zombie", ppid |-> ppid, wstatus |-> wstatus]

Alive(p) == proc[p].at \notin {"none", "zombie"}
Free == {p \in Pid : proc[p].at = "none"}
ForkFails == Free = {} \/ ForkMayFail
Children(p) == {q \in Pid : proc[q].at # "none" /\ proc[q].ppid = p}

Held(r) == r.ends \cup {r.fd[i] : i \in 0..2}
Holds(p, e) == Alive(p) /\ e \in Held(proc[p])
Open(e) == \E p \in Pid : Holds(p, e)
FreePipes == {n \in PipeId : \A e \in Ends(n) : ~Open(e)}

Exited(code) == 256 * code
SIGSEGV == 11
SIGPIPE == 13

Put(p, r) == proc' = [proc EXCEPT ![p] = r]
\* Mutated Die: the children keep the parent that is gone.
Die_Orphans(p, wstatus) ==
  proc' = [proc EXCEPT ![p] = IF proc[p].ppid = 0 THEN Gone ELSE Zombie(proc[p].ppid, wstatus)]
\* p becomes a zombie.  Its children are init's, which waits for them.
Die(p, wstatus) ==
  proc' = [q \in Pid |->
    CASE q = p -> IF proc[p].ppid = 0 THEN Gone ELSE Zombie(proc[p].ppid, wstatus)
      [] q \in Children(p) ->
           IF proc[q].at = "zombie" THEN Gone ELSE [proc[q] EXCEPT !.ppid = 0]
      [] OTHER -> proc[q]]
\* fork(): the parent is r, the child differs from it in where it goes on.
Fork(p, q, r, does, cmd, top) ==
  proc' = [proc EXCEPT ![p] = r,
                       ![q] = [r EXCEPT !.at = does, !.ppid = p, !.cmd = cmd, !.top = top]]
\* Mutated Waited: for any child, whatever the pid.
Waited_Any(p) == Children(p)
\* waitpid(pid): for that child, or for any if pid is 0 or -1.
Waited(p) == {q \in Children(p) : proc[p].kid > 0 => q = proc[p].kid}
ZombieChildren(p) == {q \in Waited(p) : proc[q].at = "zombie"}
Reap(p, q, r) == proc' = [proc EXCEPT ![p] = r, ![q] = Gone]

------------------------------------------------------------------------------
(* The loop of the shell: sh.c, runcmd.c, builtin.c, printstatus.c *)

\* Where read_line() of p is in the input.
Position(p) == IF tty THEN typed ELSE proc[p].seen
AtPrompt(p) == proc[p].at = "prompt"
MoreInput(p) == AtPrompt(p) /\ Position(p) < Len(script)
Line(p) == script[Position(p) + 1]
\* p after the line is read.
Taken(p) == IF tty THEN proc[p] ELSE [proc[p] EXCEPT !.seen = @ + 1]
CountLine == typed' = IF tty THEN typed + 1 ELSE typed

EndOfInput(p) ==
  /\ AtPrompt(p) /\ ~MoreInput(p)
  /\ Die(p, Exited(0))
  /\ UNCHANGED <<script, tty, typed, files, data>>

IsCommand(p, w) == MoreInput(p) /\ Line(p) # <<>> /\ Line(p)[1] = Word(w)

\* An empty line, and pwd.
SkipLine(p) ==
  /\ MoreInput(p) /\ Line(p) \in {<<>>, <<Word("pwd")>>}
  /\ Put(p, Taken(p)) /\ CountLine
  /\ UNCHANGED <<script, tty, files, data>>

\* The first '/' of the argument is removed: the name is looked for in the
\* current directory whatever it is.
cd(p) ==
  /\ IsCommand(p, "cd")
  /\ LET here == Enter[proc[p].cwd]
         to == IF Len(Line(p)) = 1 THEN Home
               ELSE LET dir == Line(p)[2][2]
                    IN  IF dir \in DOMAIN here THEN here[dir] ELSE proc[p].cwd
     IN  Put(p, [Taken(p) EXCEPT !.cwd = to])
  /\ CountLine
  /\ UNCHANGED <<script, tty, files, data>>

exit_shell(p) ==
  /\ MoreInput(p) /\ Line(p) = <<Word("exit")>>
  /\ Die(p, Exited(0)) /\ CountLine
  /\ UNCHANGED <<script, tty, files, data>>

IsBuiltin(toks) == \/ toks \in {<<>>, <<Word("pwd")>>, <<Word("exit")>>}
                   \/ toks[1] = Word("cd")

\* run_cmd() forks.  Without a tree both processes read parsed->type, and
\* without a child the pid to wait for is -1.
run_cmd(p) ==
  /\ MoreInput(p) /\ ~IsBuiltin(Line(p))
  /\ CountLine
  /\ LET parsed == Tree[Line(p)]
         Launched(pid) == [Taken(p) EXCEPT !.at = "launched", !.cmd = parsed, !.kid = pid]
     IN  \/ parsed = NoCmd /\ Die(p, SIGSEGV)
         \/ parsed # NoCmd /\ ForkFails /\ Put(p, Launched(-1))
         \/ /\ parsed # NoCmd /\ Free # {}
            /\ Fork(p, Min(Free), Launched(Min(Free)), "exec", parsed, TRUE)
  /\ UNCHANGED <<script, tty, files, data>>

\* wait.h: how the status of a wait is taken apart.
WTERMSIG(s) == s % 128
WEXITSTATUS(s) == (s \div 256) % 256
print_status_info(cmd, s) ==
  CASE cmd.scmd = <<>>         -> s
    [] WTERMSIG(s) = 0         -> WEXITSTATUS(s)
    [] WTERMSIG(s) \in 1..126  -> -WTERMSIG(s)
    [] OTHER                   -> -WEXITSTATUS(s)

\* run_cmd() after its wait, with the status that it has then: the next line,
\* unless free_command() meets a NULL.
BackToPrompt(p, s) ==
  [proc[p] EXCEPT !.at = IF HasNull(proc[p].cmd) THEN "crash" ELSE "prompt",
                  !.status = print_status_info(proc[p].cmd, s), !.cmd = NoCmd, !.kid = 0]

\* The wait for a command in the foreground.  Without a child it fails, and
\* leaves the status as it was.
WaitFore(p) ==
  /\ proc[p].at = "launched" /\ proc[p].cmd.type # "BACK"
  /\ \/ Waited(p) = {} /\ Put(p, BackToPrompt(p, proc[p].status))
     \/ \E q \in ZombieChildren(p) : Reap(p, q, BackToPrompt(p, proc[q].wstatus))
  /\ UNCHANGED <<script, tty, typed, files, data>>

\* The one look at a command in the background.  Without a child run_cmd()
\* returns at once.
WaitBack(p) ==
  /\ proc[p].at = "launched" /\ proc[p].cmd.type = "BACK"
  /\ \/ Waited(p) = {} /\ Put(p, [proc[p] EXCEPT !.at = "prompt", !.cmd = NoCmd, !.kid = 0])
     \/ /\ Waited(p) # {} /\ ZombieChildren(p) = {}
        /\ Put(p, BackToPrompt(p, proc[p].status))
     \/ \E q \in ZombieChildren(p) : Reap(p, q, BackToPrompt(p, proc[q].wstatus))
  /\ UNCHANGED <<script, tty, typed, files, data>>

Crash(p) ==
  /\ \/ proc[p].at = "crash"
     \/ proc[p].at = "exec" /\ proc[p].cmd = NoCmd
  /\ Die(p, SIGSEGV)
  /\ UNCHANGED <<script, tty, typed, files, data>>

------------------------------------------------------------------------------
(* Running a tree: exec.c *)

Executing(p, type) == proc[p].at = "exec" /\ proc[p].cmd.type = type

\* case_exec_cmd(), from r: execvp() reads the name, so that no name at all
\* is a fault; a name that is not found is an exit with -1.
Exec(p, r, argv) ==
  LET name == argv[1][2]
  IN  \/ argv = <<>> /\ Die(p, SIGSEGV)
      \/ /\ argv # <<>> /\ name \notin DOMAIN Programs
         /\ Die(p, Exited(255))
      \/ /\ argv # <<>> /\ name \in DOMAIN Programs
         /\ Put(p, [r EXCEPT !.at = "program", !.cmd = NoCmd, !.reads = Programs[name].reads,
                             !.todo = Programs[name].writes, !.code = Programs[name].code])

case_exec_cmd(p) ==
  /\ Executing(p, "EXEC")
  /\ Exec(p, [proc[p] EXCEPT !.env = @ \cup proc[p].cmd.eargv], proc[p].cmd.argv)
  /\ UNCHANGED <<script, tty, typed, files, data>>

\* The files are opened and duplicated in this order, whatever the order of
\* the line; the variables are not set.
Redirected(fd, c) ==
  LET stdout == IF c.out_file = Nothing THEN fd[1] ELSE c.out_file
  IN  [i \in 0..2 |->
        CASE i = 0 -> IF c.in_file = Nothing THEN fd[0] ELSE c.in_file
          [] i = 1 -> stdout
          [] i = 2 -> CASE c.err_file = Nothing   -> fd[2]
                        [] c.err_file = SameAsOut -> stdout
                        [] OTHER                  -> c.err_file]
Created(c) == {c.out_file, c.err_file} \ {Nothing, SameAsOut}

case_redir_md(p) ==
  /\ Executing(p, "REDIR")
  /\ LET c == proc[p].cmd
     IN  \/ /\ c.in_file \notin files \cup {Nothing}
            /\ Die(p, Exited(255)) /\ UNCHANGED files
         \/ /\ c.in_file \in files \cup {Nothing}
            /\ Exec(p, [proc[p] EXCEPT !.fd = Redirected(@, c)], c.argv)
            /\ files' = files \cup Created(c)
  /\ UNCHANGED <<script, tty, typed, data>>

case_back_cmd(p) ==
  /\ Executing(p, "BACK")
  /\ Put(p, [proc[p] EXCEPT !.cmd = @.c])
  /\ UNCHANGED <<script, tty, typed, files, data>>

\* case_pipe_cmd(): pipe() and the first fork().
PipeLeft(p) ==
  /\ Executing(p, "PIPE")
  /\ \/ /\ FreePipes = {} \/ ForkFails
        /\ Die(p, Exited(255)) /\ UNCHANGED data
     \/ /\ FreePipes # {} /\ Free # {}
        /\ LET n == Min(FreePipes)
               q == Min(Free)
           IN  /\ Fork(p, q, [proc[p] EXCEPT !.at = "right", !.ends = Ends(n), !.left = q],
                       "left", proc[p].cmd.leftcmd, FALSE)
               /\ data' = [data EXCEPT ![n] = 0]
  /\ UNCHANGED <<script, tty, typed, files>>

\* Mutated PipeRight: the left command is waited for first.
PipeRight_AfterLeft(p) ==
  /\ proc[p].at = "right"
  /\ proc[proc[p].left].at = "zombie"
  /\ Free # {}
  /\ LET q == Min(Free)
     IN  Fork(p, q, [proc[p] EXCEPT !.at = "close", !.right = q], "righthand",
              proc[p].cmd.rightcmd, FALSE)
  /\ UNCHANGED <<script, tty, typed, files, data>>
\* The second fork().
PipeRight(p) ==
  /\ proc[p].at = "right"
  /\ \/ ForkFails /\ Die(p, Exited(255))
     \/ /\ Free # {}
        /\ LET q == Min(Free)
           IN  Fork(p, q, [proc[p] EXCEPT !.at = "close", !.right = q], "righthand",
                    proc[p].cmd.rightcmd, FALSE)
  /\ UNCHANGED <<script, tty, typed, files, data>>

\* Mutated Plumbed: the other end stays open.
Plumbed_OtherEnd(r, i, k) == [r EXCEPT !.at = "exec", !.ends = {e \in @ : e[1] # k},
                                       !.fd[i] = CHOOSE e \in r.ends : e[1] = k]
\* The left child writes into the pipe, the right one reads from it.
Plumbed(r, i, k) == [r EXCEPT !.at = "exec", !.ends = {},
                              !.fd[i] = CHOOSE e \in r.ends : e[1] = k]
Plumb(p) ==
  /\ \/ proc[p].at = "left" /\ Put(p, Plumbed(proc[p], 1, "w"))
     \/ proc[p].at = "righthand" /\ Put(p, Plumbed(proc[p], 0, "r"))
  /\ UNCHANGED <<script, tty, typed, files, data>>

\* Mutated ClosePipe: the read end stays open; and nobody is waited for.
ClosePipe_WriteOnly(p) ==
  /\ proc[p].at = "close"
  /\ Put(p, [proc[p] EXCEPT !.at = "waitleft", !.ends = {e \in @ : e[1] = "r"}, !.kid = proc[p].left])
  /\ UNCHANGED <<script, tty, typed, files, data>>
ClosePipe_NoWait(p) ==
  /\ proc[p].at = "close"
  /\ Put(p, [proc[p] EXCEPT !.at = IF proc[p].top THEN "launched" ELSE "done", !.ends = {}, !.kid = 0])
  /\ UNCHANGED <<script, tty, typed, files, data>>
ClosePipe(p) ==
  /\ proc[p].at = "close"
  /\ Put(p, [proc[p] EXCEPT !.at = "waitleft", !.ends = {}, !.kid = proc[p].left])
  /\ UNCHANGED <<script, tty, typed, files, data>>

WaitLeft(p) ==
  /\ proc[p].at = "waitleft"
  /\ \E q \in ZombieChildren(p) :
       Reap(p, q, [proc[p] EXCEPT !.at = "waitright", !.kid = proc[p].right])
  /\ UNCHANGED <<script, tty, typed, files, data>>

\* The right child.  exec_cmd() then returns: the child of a pipeline exits,
\* and the process that run_cmd() made goes on in run_cmd(), where the pid
\* that fork() returned is 0.
WaitRight(p) ==
  /\ proc[p].at = "waitright"
  /\ \E q \in ZombieChildren(p) :
       Reap(p, q, [proc[p] EXCEPT !.at = IF proc[p].top THEN "launched" ELSE "done", !.kid = 0])
  /\ UNCHANGED <<script, tty, typed, files, data>>

Done(p) ==
  /\ proc[p].at = "done"
  /\ Die(p, Exited(0))
  /\ UNCHANGED <<script, tty, typed, files, data>>

------------------------------------------------------------------------------
(* The programs *)

Running(p) == proc[p].at = "program"
IsPipe(target) == Len(target) = 2 /\ target[1] \in {"r", "w"}

AtEof(in) == IsPipe(in) => data[in[2]] = 0 /\ ~Open(End("w", in[2]))

\* A program that reads writes what it reads.
ProgramReads(p) ==
  /\ Running(p) /\ proc[p].reads /\ proc[p].todo = 0
  /\ LET in == proc[p].fd[0]
     IN  \/ AtEof(in) /\ Put(p, [proc[p] EXCEPT !.reads = FALSE]) /\ UNCHANGED data
         \/ /\ IsPipe(in) /\ data[in[2]] > 0
            /\ Put(p, [proc[p] EXCEPT !.todo = 1])
            /\ data' = [data EXCEPT ![in[2]] = @ - 1]
  /\ UNCHANGED <<script, tty, typed, files>>

ProgramWrites(p) ==
  /\ Running(p) /\ proc[p].todo > 0
  /\ LET out == proc[p].fd[1]
         broken == IsPipe(out) /\ ~Open(End("r", out[2]))
     IN  \/ broken /\ Die(p, SIGPIPE) /\ UNCHANGED data
         \/ /\ ~broken /\ (IsPipe(out) => data[out[2]] < Capacity)
            /\ Put(p, [proc[p] EXCEPT !.todo = @ - 1])
            /\ data' = [n \in PipeId |-> IF out = End("w", n) THEN data[n] + 1 ELSE data[n]]
  /\ UNCHANGED <<script, tty, typed, files>>

ProgramExits(p) ==
  /\ Running(p) /\ ~proc[p].reads /\ proc[p].todo = 0
  /\ Die(p, Exited(proc[p].code))
  /\ UNCHANGED <<script, tty, typed, files, data>>

------------------------------------------------------------------------------

\* init_shell() has gone to the home directory.
Init ==
  /\ proc = [p \in Pid |-> IF p # Root THEN Gone ELSE
       [at |-> "prompt", ppid |-> 0, cmd |-> NoCmd, top |-> FALSE, kid |-> 0, left |-> 0, right |-> 0,
        fd |-> [i \in 0..2 |-> Terminal], ends |-> {}, env |-> {}, cwd |-> Home,
        seen |-> 0, status |-> 0, reads |-> FALSE, todo |-> 0, code |-> 0]]
  /\ script \in Scripts
  /\ tty \in BOOLEAN
  /\ typed = 0
  /\ files = OldFiles
  /\ data = [n \in PipeId |-> 0]

Step(p) ==
  \/ EndOfInput(p) \/ SkipLine(p) \/ cd(p) \/ exit_shell(p) \/ run_cmd(p)
  \/ WaitFore(p) \/ WaitBack(p) \/ Crash(p)
  \/ case_exec_cmd(p) \/ case_redir_md(p) \/ case_back_cmd(p)
  \/ PipeLeft(p) \/ PipeRight(p) \/ Plumb(p) \/ ClosePipe(p) \/ WaitLeft(p) \/ WaitRight(p) \/ Done(p)
  \/ ProgramReads(p) \/ ProgramWrites(p) \/ ProgramExits(p)
Next == \E p \in Pid : Step(p)

Spec == Init /\ [][Next]_vars
\* Linux lets some process go on while one can: no step repeats, so that is enough.
FairSpec == Spec /\ WF_vars(Next)

------------------------------------------------------------------------------

Target == {Terminal} \cup {End(k, n) : k \in {"r", "w"}, n \in PipeId}

\* The processes are a tree that init or a process is the parent of, and the
\* descriptors are the terminal, files and ends of pipes.
TypeOK ==
  /\ \A p \in Pid : proc[p].at # "none" =>
       /\ proc[p].ppid \in Pid \cup {0}
       /\ proc[p].ppid \in Pid => Alive(proc[p].ppid)
  /\ \A p \in Pid : Alive(p) => \A i \in 0..2 :
       proc[p].fd[i] \in Target \/ proc[p].fd[i][1] = "file"
  /\ typed \in 0..Len(script)
  /\ data \in [PipeId -> 0..Capacity]

\* Whatever the lines before redirected, piped or assigned, a process that
\* reads the next line has its three descriptors on the terminal, no end of a
\* pipe and none of their variables, also one that run_cmd() forked and that
\* came back from exec_cmd() (exec.c, runcmd.c:34).
PromptIsClean ==
  \A p \in Pid : AtPrompt(p) =>
    /\ Held(proc[p]) = {Terminal}
    /\ proc[p].env = {}

\* One process at a time reads the input, however many shells a pipeline
\* leaves: the others wait for it (runcmd.c:70).
OneReader == \A p, q \in Pid : AtPrompt(p) /\ AtPrompt(q) => p = q

\* A program has no end of a pipe but on its standard descriptors, and never
\* both ends of one: it would wait for itself (exec.c:144-181).
NoStrayEnds ==
  \A p \in Pid : Running(p) =>
    /\ proc[p].ends = {}
    /\ \A n \in PipeId : ~(Ends(n) \subseteq Held(proc[p]))

\* A shell that reads the next line has waited for all its children but those
\* that it was told to run in the background (runcmd.c:56-72, exec.c:182-184).
BackLines(n) == {i \in 1..n : ~IsBuiltin(script[i]) /\ Tree[script[i]].type = "BACK"}
ChildrenAreJobs ==
  \A p \in Pid : AtPrompt(p) =>
    Cardinality(Children(p)) <= Cardinality(BackLines(Position(p)))

\* Every input comes to its end: no process of a pipeline waits for ever for
\* an end of file, for room in a pipe or for a child.
Finished == proc[Root].at = "none"
Finishes == <>Finished

\* What a run checks of every state: its parts are explained above.
ShellIsSound == TypeOK /\ PromptIsClean /\ OneReader /\ NoStrayEnds /\ ChildrenAreJobs

\* exec_cmd() does not return (exec.c:187): the only process that reads lines
\* is the shell that the user started.
ExecNeverReturns == \A p \in Pid : AtPrompt(p) => p = Root
=============================================================================
