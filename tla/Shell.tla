-------------------------------- MODULE Shell --------------------------------
(***************************************************************************)
(* The shell (sh.c) on the file table: a line is typed, parsed by a child  *)
(* of the shell and run by a tree of processes that share descriptors.     *)
(*                                                                         *)
(* runcmd() of a command is a sequence of system calls, which a process    *)
(* does one after the other; a call that gives back references takes more  *)
(* steps (Files).  A command of the tree is known by its path.  Process 0  *)
(* is init, which waits for every orphan; process 1 is the shell.          *)
(***************************************************************************)
EXTENDS Files, ShParse

CONSTANTS Scenarios,   \* lines, with what may fail while they run
          Console

VARIABLES
  state, parent,   \* of the process table
  todo,            \* calls of each process from here on
  pfd,             \* int p[2] of runcmd()
  at,              \* path of the command a process runs or is to run
  input,           \* what gets() has yet to deliver: a line, or none
  scenario,
  failed,          \* failures so far, and whether one was a fork()'s
  node             \* history: path of the command that made a pipe

shellVars == <<state, parent, todo, pfd, at, input, scenario, failed, node>>
vars == <<filesVars, shellVars>>

init == 0
sh == 1
Users == Procs \ {init}

(* The calls.  A descriptor is a number, or one of p[0] and p[1].          *)
P0 == -1
P1 == -2
Desc(p, d) == IF d < 0 THEN pfd[p][-d] ELSE d
op(name) == [op |-> name]
close(d) == [op |-> "close", fd |-> d]
dup(d) == [op |-> "dup", fd |-> d]
open(k, d) == [op |-> "open", file |-> k, fd |-> d]
fork(code) == [op |-> "fork", code |-> code]
run(path) == [op |-> "run", path |-> path]
prog(kind, left) == [op |-> "prog", kind |-> kind, left |-> left]

(* What every line is parsed to, and what the grammar makes of it.         *)
Lines == {s.line : s \in Scenarios}
Commands == [l \in Lines |-> parsecmd(l)]
Derived == [l \in Lines |-> Derivations(l)]
Tree == CHOOSE c \in Commands[scenario.line] : TRUE

(* Commands of the tree.                                                   *)
RECURSIVE Sub(_, _)
Sub(c, path) ==
  IF path = <<>> THEN c
  ELSE Sub(IF c.type \in {"REDIR", "BACK"} THEN c.cmd
           ELSE IF Head(path) = 1 THEN c.left ELSE c.right, Tail(path))
-----------------------------------------------------------------------------
(* runcmd().                                                               *)
LeftSide(path) == <<close(1), dup(P1), close(P0), close(P1), run(path \o <<1>>)>>
RightSide(path) == <<close(0), dup(P0), close(P0), close(P1), run(path \o <<2>>)>>

PipeKeepsEnd(path) ==
  <<op("pipe"), fork(LeftSide(path)), fork(RightSide(path)),
    close(P0), op("wait"), op("wait"), op("exit")>>
PipeCalls(path) ==
  <<op("pipe"), fork(LeftSide(path)), fork(RightSide(path)),
    close(P0), close(P1), op("wait"), op("wait"), op("exit")>>

ListNoWait(path) == <<fork(<<run(path \o <<1>>)>>), run(path \o <<2>>)>>
ListCalls(path) == <<fork(<<run(path \o <<1>>)>>), op("wait"), run(path \o <<2>>)>>

RedirOpensFirst(c, path) == <<open(c.file, c.fd), close(c.fd), run(path \o <<1>>)>>
RedirCalls(c, path) == <<close(c.fd), open(c.file, c.fd), run(path \o <<1>>)>>

Runcmd(c, path) ==
  CASE c.type = "EXEC"  -> IF c.argc = 0 THEN <<op("exit")>> ELSE <<op("exec"), op("exit")>>
    [] c.type = "REDIR" -> RedirCalls(c, path)
    [] c.type = "LIST"  -> ListCalls(path)
    [] c.type = "PIPE"  -> PipeCalls(path)
    [] c.type = "BACK"  -> <<fork(<<run(path \o <<1>>)>>), op("exit")>>

(* A process goes on to its next call.                                     *)
Expanded(calls) ==
  IF calls # <<>> /\ Head(calls).op = "run"
  THEN Runcmd(Sub(Tree, Head(calls).path), Head(calls).path) ELSE calls
PathAfter(path, calls) ==
  IF calls # <<>> /\ Head(calls).op = "run" THEN Head(calls).path ELSE path

(* main() opens the console until three descriptors are open, and then     *)
(* reads lines.                                                            *)
MainLoop == <<op("getcmd")>>
RunLine == <<fork(<<op("parse")>>), op("wait"), op("getcmd")>>

Init ==
  /\ scenario \in Scenarios
  /\ file = [f \in Slots |-> IF f = 1 THEN [ref |-> 6, obj |-> Console, readable |-> TRUE,
                                            writable |-> TRUE] ELSE NoFile]
  /\ ofile = [p \in Procs |-> [d \in Fds |-> IF p \in {init, sh} /\ d < 3 THEN 1 ELSE 0]]
  /\ pipe = [o \in Pages |-> NoPage]
  /\ iref = [i \in Inodes |-> IF i = Console THEN 1 ELSE 0]
  /\ making = [p \in Procs |-> <<>>] /\ closing = [p \in Procs |-> NoFds]
  /\ putting = [p \in Procs |-> NoFile]
  /\ state = [p \in Procs |-> IF p \in {init, sh} THEN "run" ELSE "unused"]
  /\ parent = [p \in Procs |-> init]
  /\ todo = [p \in Procs |-> IF p = sh THEN <<op("console")>> ELSE <<>>]
  /\ pfd = [p \in Procs |-> <<0, 0>>]
  /\ at = [p \in Procs |-> <<>>]
  /\ input = <<scenario.line>>
  /\ failed = [n |-> 0, fork |-> FALSE]
  /\ node = [o \in Pages |-> <<>>]

At(p, name) == state[p] = "run" /\ todo[p] # <<>> /\ Head(todo[p]).op = name /\ Returned(p)
Become(p, calls) == /\ todo' = [todo EXCEPT ![p] = Expanded(calls)]
                    /\ at' = [at EXCEPT ![p] = PathAfter(@, calls)]
Next1(p) == Become(p, Tail(todo[p]))
Exiting == <<op("exit")>>

MayFail == failed.n < scenario.fails
Fails(isFork) == failed' = [n |-> failed.n + 1, fork |-> failed.fork \/ isFork]
-----------------------------------------------------------------------------
(* open(), with what follows if it succeeds and if it fails.               *)
OpenCall(p, i, r, w, done, fails) ==
  \/ OpenDone(p, i, r, w) /\ Become(p, done) /\ UNCHANGED failed
  \/ (OpenNoFile(p) \/ OpenNoFd(p)) /\ Become(p, fails) /\ UNCHANGED failed
  \/ MayFail /\ Fails(FALSE) /\ OpenNoInode(p) /\ Become(p, fails)

OpenConsole(p) ==
  /\ At(p, "console")
  /\ LET d == Min(FreeFds(ofile[p])) IN
       OpenCall(p, Console, TRUE, TRUE,
                IF d >= 3 THEN <<close(d)>> \o MainLoop ELSE todo[p], MainLoop)
  /\ UNCHANGED <<state, parent, pfd, input, scenario, node>>

(* getcmd(): a line with cd is done by the shell itself; at the end of the *)
(* input the shell exits.                                                  *)
IsCd(line) == Len(line) > 0 /\ line[1] = "cd"
Getcmd(p) ==
  /\ At(p, "getcmd")
  /\ IF input = <<>> THEN Become(p, Exiting)
     ELSE Become(p, IF IsCd(Head(input)) THEN MainLoop ELSE RunLine)
  /\ input' = <<>>
  /\ UNCHANGED <<filesVars, state, parent, pfd, scenario, failed, node>>

Parse(p) ==
  /\ At(p, "parse")
  /\ Become(p, IF Commands[scenario.line] = {} THEN Exiting ELSE <<run(<<>>)>>)
  /\ UNCHANGED <<filesVars, state, parent, pfd, input, scenario, failed, node>>

DoClose(p) ==
  /\ At(p, "close") /\ Close(p, Desc(p, Head(todo[p]).fd)) /\ Next1(p)
  /\ UNCHANGED <<state, parent, pfd, input, scenario, failed, node>>

DoDup(p) ==
  /\ At(p, "dup") /\ Dup(p, Desc(p, Head(todo[p]).fd)) /\ Next1(p)
  /\ UNCHANGED <<state, parent, pfd, input, scenario, failed, node>>

(* open() of a redirection; the process exits if it fails.                 *)
Reading(c) == c.fd = 0
DoOpen(p) ==
  /\ At(p, "open")
  /\ LET c == Head(todo[p]) IN
       OpenCall(p, c.file, Reading(c), ~Reading(c), Tail(todo[p]), Exiting)
  /\ UNCHANGED <<state, parent, pfd, input, scenario, node>>

(* pipe(), called by runcmd() or by a program; fails: what happens then.   *)
PipeCall(p, done, fails) ==
  \/ /\ PipeFirst(p) \/ PipeSecond(p)
     /\ UNCHANGED <<todo, at, pfd, node, failed>>
  \/ \E o \in Pages :
       /\ FreePages # {} /\ o = Min(FreePages)
       /\ PipeDone(p, o)
       /\ pfd' = [pfd EXCEPT ![p] = NewFds(p)]
       /\ node' = [node EXCEPT ![o] = at[p]]
       /\ Become(p, done) /\ UNCHANGED failed
  \/ /\ PipeNoFile(p) \/ \E o \in FreePages : PipeNoFd(p, o)
     /\ Become(p, fails) /\ UNCHANGED <<pfd, node, failed>>
  \/ /\ PipeNoPage(p)
     /\ IF FreePages = {} THEN UNCHANGED failed ELSE MayFail /\ Fails(FALSE)
     /\ Become(p, fails) /\ UNCHANGED <<pfd, node>>

Calling(p, name) == /\ state[p] = "run" /\ todo[p] # <<>> /\ Head(todo[p]).op = name
                    /\ closing[p] = NoFds /\ putting[p] = NoFile

DoPipe(p) ==
  /\ Calling(p, "pipe")
  /\ PipeCall(p, Tail(todo[p]), Exiting)
  /\ UNCHANGED <<state, parent, input, scenario>>

(* fork1(): the process exits if fork() fails.                             *)
Unused == {q \in Users : state[q] = "unused" /\ q <= sh + scenario.slots}
PathOf(code) == IF Last(code).op = "run" THEN Last(code).path ELSE <<>>
DoFork(p) ==
  /\ At(p, "fork") /\ Unused # {}
  /\ LET q == Min(Unused) IN
       /\ Inherit(p, q)
       /\ state' = [state EXCEPT ![q] = "run"]
       /\ parent' = [parent EXCEPT ![q] = p]
       /\ LET code == Head(todo[p]).code IN
            /\ todo' = [todo EXCEPT ![p] = Expanded(Tail(@)), ![q] = Expanded(code)]
            /\ at' = [at EXCEPT ![p] = PathAfter(@, Tail(todo[p])), ![q] = PathOf(code)]
       /\ pfd' = [pfd EXCEPT ![q] = pfd[p]]
  /\ UNCHANGED <<input, scenario, failed, node>>

ForkFails(p) ==
  /\ At(p, "fork") /\ (Unused = {} \/ MayFail)
  /\ Fails(TRUE)
  /\ Become(p, Exiting)
  /\ UNCHANGED <<filesVars, state, parent, pfd, input, scenario, node>>

Kids(p) == {q \in Users : state[q] # "unused" /\ parent[q] = p}
Zombies(p) == {q \in Kids(p) : state[q] = "zombie"}
Reap(q) == state' = [state EXCEPT ![q] = "unused"]

DoWait(p) ==
  /\ At(p, "wait")
  /\ \/ Zombies(p) # {} /\ Reap(Min(Zombies(p)))
     \/ Kids(p) = {} /\ UNCHANGED state
  /\ Next1(p)
  /\ UNCHANGED <<filesVars, parent, pfd, input, scenario, failed, node>>

(* init waits for its children, the shell and the orphans.                 *)
InitWait ==
  /\ \E q \in Zombies(init) \ {sh} : Reap(q)
  /\ UNCHANGED <<filesVars, parent, todo, pfd, at, input, scenario, failed, node>>

(* exit() closes the files, then the process is a zombie.                  *)
DoExit(p) ==
  /\ At(p, "exit") /\ CloseAll(p)
  /\ Become(p, <<op("zombie")>>)
  /\ UNCHANGED <<state, parent, pfd, input, scenario, failed, node>>

Zombie(p) ==
  /\ At(p, "zombie")
  /\ state' = [state EXCEPT ![p] = "zombie"]
  /\ parent' = [q \in Procs |-> IF parent[q] = p THEN init ELSE parent[q]]
  /\ Become(p, <<>>)
  /\ UNCHANGED <<filesVars, pfd, input, scenario, failed, node>>

(* The rest of a fileclose().                                              *)
Finish(p) == (Fileclose(p) \/ Put(p)) /\ UNCHANGED shellVars
-----------------------------------------------------------------------------
(* exec() of a program: it writes, or reads to the end of its input, or    *)
(* copies, or uses descriptors of its own.                                 *)
DoExec(p) ==
  /\ At(p, "exec")
  /\ \/ \E kind \in scenario.kinds : Become(p, <<prog(kind, scenario.work)>>) /\ UNCHANGED failed
     \/ MayFail /\ Fails(FALSE) /\ Next1(p)
  /\ UNCHANGED <<filesVars, state, parent, pfd, input, scenario, node>>

Program(p) == Head(todo[p])
IsProg(p, kinds) == Calling(p, "prog") /\ Program(p).kind \in kinds
(* What a copying program does after a read() and after a write().         *)
Then(k) == IF k = "copy" THEN "put" ELSE IF k = "put" THEN "copy" ELSE k
Continue(p, left) == Become(p, <<prog(Then(Program(p).kind), left)>>)

ProgRead(p) ==
  /\ IsProg(p, {"sink", "copy"})
  /\ LET left == Program(p).left IN
       \/ ReadPipe(p, 0) /\ Continue(p, left)
       \/ /\ ReadInode(p, 0) /\ left > 0
          /\ Continue(p, left - 1) /\ UNCHANGED filesVars
       \/ /\ \/ ~CanRead(p, 0) \/ EndOfPipe(p, 0)
             \/ ReadInode(p, 0) /\ left = 0
          /\ Become(p, Exiting) /\ UNCHANGED filesVars
  /\ UNCHANGED <<state, parent, pfd, input, scenario, failed, node>>

ProgWrite(p) ==
  /\ IsProg(p, {"source", "put"})
  /\ LET k == Program(p).kind
         left == IF k = "source" THEN Program(p).left - 1 ELSE Program(p).left IN
       \/ left >= 0 /\ WritePipe(p, 1) /\ Continue(p, left)
       \/ /\ left >= 0 /\ CanWrite(p, 1) /\ ~OnPipe(p, 1)
          /\ Continue(p, left) /\ UNCHANGED filesVars
       \/ /\ left < 0 \/ ~CanWrite(p, 1) \/ NoReader(p, 1)
          /\ Become(p, Exiting) /\ UNCHANGED filesVars
  /\ UNCHANGED <<state, parent, pfd, input, scenario, failed, node>>

ProgUses(p) ==
  /\ IsProg(p, {"user"})
  /\ LET left == Program(p).left
         rest == <<prog("user", left - 1)>> IN
       \/ /\ left > 0
          /\ \/ \E d \in Fds : Close(p, d) /\ Become(p, rest) /\ UNCHANGED failed
             \/ Dup(p, 0) /\ Become(p, rest) /\ UNCHANGED failed
             \/ OpenCall(p, Console, TRUE, FALSE, rest, rest)
          /\ UNCHANGED <<pfd, node>>
       \/ left > 0 /\ PipeCall(p, rest, rest)
       \/ /\ left = 0 /\ Become(p, Exiting)
          /\ UNCHANGED <<filesVars, pfd, node, failed>>
  /\ UNCHANGED <<state, parent, input, scenario>>
-----------------------------------------------------------------------------
Step(p) ==
  \/ OpenConsole(p) \/ Getcmd(p) \/ Parse(p)
  \/ DoClose(p) \/ DoDup(p) \/ DoOpen(p) \/ DoPipe(p)
  \/ DoFork(p) \/ ForkFails(p) \/ DoWait(p) \/ DoExit(p) \/ Zombie(p) \/ Finish(p)
  \/ DoExec(p) \/ ProgRead(p) \/ ProgWrite(p) \/ ProgUses(p)

Next == (\E p \in Users : Step(p)) \/ InitWait

(* The scheduler lets every process run (Sched, Proc).                     *)
Spec == /\ Init /\ [][Next]_vars
        /\ \A p \in Users : WF_vars(Step(p))
        /\ WF_vars(InitWait)
-----------------------------------------------------------------------------
(* parsecmd() accepts a line exactly if the grammar derives it, and makes  *)
(* the one command it stands for.                                          *)
ParsesGrammar ==
  /\ Commands[scenario.line] = Derived[scenario.line]
  /\ Cardinality(Derived[scenario.line]) <= 1

(* Where a command gets a descriptor from: the nearest command around it   *)
(* that redirects it, or pipes it, or none.                                *)
Sets(path, k, d) ==
  LET c == Sub(Tree, SubSeq(path, 1, k - 1)) IN
  \/ c.type = "REDIR" /\ c.fd = d
  \/ c.type = "PIPE" /\ path[k] = (IF d = 0 THEN 2 ELSE 1)
Source(path, d) ==
  LET ks == {k \in 1..Len(path) : Sets(path, k, d)} IN
  IF ks = {} THEN {Console}
  ELSE LET k == Max(ks)
           up == SubSeq(path, 1, k - 1)
           c == Sub(Tree, up) IN
       IF c.type = "REDIR" THEN {c.file}
       ELSE {o \in Pages : pipe[o].live /\ node[o] = up}

(* A program starts with its descriptors as the line says: input and       *)
(* output are those of the nearest redirection or pipe around it, and only *)
(* 0, 1 and 2 are open.                                                    *)
Wiring == \A p \in Users : At(p, "exec") =>
  /\ \A d \in Fds : IsOpen(p, d) <=> d < 3
  /\ FileAt(p, 0).obj \in Source(at[p], 0) /\ FileAt(p, 0).readable
  /\ FileAt(p, 1).obj \in Source(at[p], 1) /\ FileAt(p, 1).writable
  /\ FileAt(p, 2).obj = Console

(* The shell reads the next line only when all processes of the last one   *)
(* are gone but those put into the background, unless a fork() failed.     *)
Background(path) == \E k \in 1..Len(path) : Sub(Tree, SubSeq(path, 1, k - 1)).type = "BACK"
PromptAfterForeground ==
  At(sh, "getcmd") /\ ~failed.fork =>
    \A p \in Users \ {sh} : state[p] = "run" => Background(at[p])

(* Every line comes to an end, with the processes it started: each reader  *)
(* of a pipe sees the end of its input, each writer is told of the loss of *)
(* its readers, whatever fails and in whatever order they run.             *)
LineFinishes == <>[](\A p \in Users : state[p] = (IF p = sh THEN "zombie" ELSE "unused"))
=============================================================================
