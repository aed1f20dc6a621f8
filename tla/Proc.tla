-------------------------------- MODULE Proc --------------------------------
(***************************************************************************)
(* The process table of proc.c: allocproc, fork, exit, wait, kill, and the *)
(* exits that trap() forces on a killed process.  Slot 1 is initproc and   *)
(* runs init.c; the others run any program.                                *)
(*                                                                         *)
(* A critical section under ptable.lock is one action; fork() and exit()   *)
(* do work outside it and take several.  RUNNABLE stands for RUNNABLE and  *)
(* RUNNING: any process that is neither asleep nor dead may take a step    *)
(* (Sched models how).  The only sleep here is the one in wait().          *)
(***************************************************************************)
EXTENDS Integers, FiniteSets

CONSTANTS NPROC,     \* slots of ptable.proc
          Pages,     \* units of memory; a kernel stack and an address space
                     \* take one each
          MaxPid,    \* bound: pids handed out, the last one only to init's child
          KillArgs   \* pids programs pass to kill()

Slots == 1..NPROC
initproc == 1

ASSUME ProcConstants ==
  /\ NPROC \in Nat \ {0} /\ Pages \in Nat /\ Pages >= 2
  /\ MaxPid \in Nat \ {0} /\ KillArgs \subseteq Nat

VARIABLES
  state,     \* proc->state
  pid,       \* proc->pid
  parent,    \* proc->parent, 0 for none
  killed,    \* proc->killed
  kstack,    \* slots that own a kernel stack
  pgdir,     \* slots that own an address space
  nextpid,   \* nextpid
  free,      \* free memory
  pc,        \* where each process is in a system call
  np,        \* the local np of fork(), 0 outside it
  shell,     \* init.c: pid of the shell it waits for, 0 before fork
  panicked   \* panic("init exiting")

memVars == <<kstack, pgdir, free>>
vars == <<state, pid, parent, killed, memVars, nextpid, pc, np, shell,
          panicked>>

States == {"UNUSED", "EMBRYO", "SLEEPING", "RUNNABLE", "ZOMBIE"}
PCs == {"user", "kstack", "copyuvm", "publish", "exit", "wait"}

(* After userinit().                                                       *)
Init ==
  /\ state = [s \in Slots |-> IF s = initproc THEN "RUNNABLE" ELSE "UNUSED"]
  /\ pid = [s \in Slots |-> IF s = initproc THEN 1 ELSE 0]
  /\ parent = [s \in Slots |-> 0]
  /\ killed = [s \in Slots |-> FALSE]
  /\ kstack = {initproc} /\ pgdir = {initproc}
  /\ nextpid = 2
  /\ free = Pages - 2
  /\ pc = [s \in Slots |-> "user"]
  /\ np = [s \in Slots |-> 0]
  /\ shell = 0
  /\ panicked = FALSE

Running(p) == ~panicked /\ state[p] = "RUNNABLE"
Children(p) == {s \in Slots : parent[s] = p}
First(S) == CHOOSE s \in S : \A t \in S : s <= t

(* trap(): a killed process makes no further system call.  (The test and   *)
(* the call's first step are one action: being killed between them         *)
(* commutes with that step.)                                               *)
MayCall(p) == Running(p) /\ pc[p] = "user" /\ ~killed[p]

(* init.c: what initproc calls next; other programs call anything.         *)
MayFork(p) == p = initproc => shell = 0
MayWait(p) == p = initproc => shell # 0

(* How a system call ends: init.c remembers the shell's pid, and exits if  *)
(* it cannot fork.                                                         *)
ForkReturns(p, r) ==
  /\ pc' = [pc EXCEPT ![p] = IF p = initproc /\ r = -1 THEN "exit" ELSE "user"]
  /\ shell' = IF p = initproc /\ r # -1 THEN r ELSE shell
  /\ np' = [np EXCEPT ![p] = 0]

WaitReturns(p, r) ==
  /\ pc' = [pc EXCEPT ![p] = "user"]
  /\ shell' = IF p = initproc /\ r \in {-1, shell} THEN 0 ELSE shell
-----------------------------------------------------------------------------
(* fork(): allocproc() takes the first UNUSED slot and a pid.              *)
Unused == {s \in Slots : state[s] = "UNUSED"}
WithinBound(p) == nextpid < MaxPid \/ (nextpid = MaxPid /\ p = initproc)

ForkAlloc(p) ==
  /\ MayCall(p) /\ MayFork(p)
  /\ Unused # {} /\ WithinBound(p)
  /\ LET s == First(Unused) IN
       /\ state' = [state EXCEPT ![s] = "EMBRYO"]
       /\ pid' = [pid EXCEPT ![s] = nextpid]
       /\ np' = [np EXCEPT ![p] = s]
  /\ nextpid' = nextpid + 1
  /\ pc' = [pc EXCEPT ![p] = "kstack"]
  /\ UNCHANGED <<parent, killed, memVars, shell, panicked>>

ForkTableFull(p) ==
  /\ MayCall(p) /\ MayFork(p)
  /\ Unused = {}
  /\ ForkReturns(p, -1)
  /\ UNCHANGED <<state, pid, parent, killed, memVars, nextpid, panicked>>

(* allocproc(): kalloc() of the kernel stack; on failure the slot goes     *)
(* back, without the lock and with its pid.                                *)
ForkKstack(p) ==
  /\ Running(p) /\ pc[p] = "kstack"
  /\ IF free > 0
     THEN /\ kstack' = kstack \cup {np[p]}
          /\ free' = free - 1
          /\ pc' = [pc EXCEPT ![p] = "copyuvm"]
          /\ UNCHANGED <<state, shell, np>>
     ELSE /\ state' = [state EXCEPT ![np[p]] = "UNUSED"]
          /\ ForkReturns(p, -1)
          /\ UNCHANGED <<kstack, free>>
  /\ UNCHANGED <<pid, parent, killed, pgdir, nextpid, panicked>>

(* fork(): copyuvm(); on failure the kernel stack is given back.           *)
FreeKstack(s) == kstack' = kstack \ {s} /\ free' = free + 1

ForkCopy(p) ==
  /\ Running(p) /\ pc[p] = "copyuvm"
  /\ IF free > 0
     THEN /\ pgdir' = pgdir \cup {np[p]}
          /\ free' = free - 1
          /\ parent' = [parent EXCEPT ![np[p]] = p]
          /\ pc' = [pc EXCEPT ![p] = "publish"]
          /\ UNCHANGED <<state, kstack, shell, np>>
     ELSE /\ FreeKstack(np[p])
          /\ state' = [state EXCEPT ![np[p]] = "UNUSED"]
          /\ ForkReturns(p, -1)
          /\ UNCHANGED <<pgdir, parent>>
  /\ UNCHANGED <<pid, killed, nextpid, panicked>>

(* fork(): the child becomes RUNNABLE, under ptable.lock, and returns to   *)
(* user mode as if from fork().                                            *)
ForkPublish(p) ==
  /\ Running(p) /\ pc[p] = "publish"
  /\ state' = [state EXCEPT ![np[p]] = "RUNNABLE"]
  /\ pc' = [pc EXCEPT ![np[p]] = "user", ![p] = "user"]
  /\ shell' = IF p = initproc THEN pid[np[p]] ELSE shell
  /\ np' = [np EXCEPT ![p] = 0]
  /\ UNCHANGED <<pid, parent, killed, memVars, nextpid, panicked>>
-----------------------------------------------------------------------------
(* exit(), called by the program or forced by trap() on a killed process;  *)
(* the files are closed before ptable.lock is taken.                       *)
ExitCall(p) ==
  /\ Running(p) /\ pc[p] = "user"
  /\ killed[p] \/ p # initproc
  /\ pc' = [pc EXCEPT ![p] = "exit"]
  /\ UNCHANGED <<state, pid, parent, killed, memVars, nextpid, np, shell,
                 panicked>>

(* A fault in user mode: trap() kills the process that runs.               *)
Fault(p) ==
  /\ MayCall(p) /\ p # initproc
  /\ killed' = [killed EXCEPT ![p] = TRUE]
  /\ pc' = [pc EXCEPT ![p] = "exit"]
  /\ UNCHANGED <<state, pid, parent, memVars, nextpid, np, shell, panicked>>

(* The processes exit() wakes: the parent, and init for a zombie it hands  *)
(* over.  Its children become init's.                                      *)
WokenByExitParentOnly(p) == {parent[p]}
WokenByExit(p) ==
  {parent[p]} \cup {s \in {initproc} : \E c \in Children(p) : state[c] = "ZOMBIE"}

ReparentedNot(p) == parent
Reparented(p) == [s \in Slots |-> IF parent[s] = p THEN initproc ELSE parent[s]]

Exit(p) ==
  /\ Running(p) /\ pc[p] = "exit" /\ p # initproc
  /\ state' = [s \in Slots |->
       CASE s = p -> "ZOMBIE"
         [] s # p /\ s \in WokenByExit(p) /\ state[s] = "SLEEPING" -> "RUNNABLE"
         [] OTHER -> state[s]]
  /\ parent' = Reparented(p)
  /\ pc' = [pc EXCEPT ![p] = "user"]    \* its kernel thread is over
  /\ UNCHANGED <<pid, killed, memVars, nextpid, np, shell, panicked>>

InitExits ==
  /\ Running(initproc) /\ pc[initproc] = "exit"
  /\ panicked' = TRUE
  /\ UNCHANGED <<state, pid, parent, killed, memVars, nextpid, pc, np, shell>>
-----------------------------------------------------------------------------
(* wait(): one pass over the table under ptable.lock.                      *)
Zombies(p) == {s \in Children(p) : state[s] = "ZOMBIE"}

WaitCall(p) ==
  /\ MayCall(p) /\ MayWait(p)
  /\ pc' = [pc EXCEPT ![p] = "wait"]
  /\ UNCHANGED <<state, pid, parent, killed, memVars, nextpid, np, shell,
                 panicked>>

(* kfree() of the stack and freevm() of the address space.                 *)
FreedByReap == 2

WaitReap(p) ==
  /\ Running(p) /\ pc[p] = "wait"
  /\ Zombies(p) # {}
  /\ LET s == First(Zombies(p)) IN
       /\ state' = [state EXCEPT ![s] = "UNUSED"]
       /\ pid' = [pid EXCEPT ![s] = 0]
       /\ parent' = [parent EXCEPT ![s] = 0]
       /\ killed' = [killed EXCEPT ![s] = FALSE]
       /\ kstack' = kstack \ {s} /\ pgdir' = pgdir \ {s}
       /\ free' = free + FreedByReap
       /\ WaitReturns(p, pid[s])
  /\ UNCHANGED <<nextpid, np, panicked>>

WaitFails(p) ==
  /\ Running(p) /\ pc[p] = "wait"
  /\ Zombies(p) = {} /\ (Children(p) = {} \/ killed[p])
  /\ WaitReturns(p, -1)
  /\ UNCHANGED <<state, pid, parent, killed, memVars, nextpid, np, panicked>>

WaitSleep(p) ==
  /\ Running(p) /\ pc[p] = "wait"
  /\ Zombies(p) = {} /\ Children(p) # {} /\ ~killed[p]
  /\ state' = [state EXCEPT ![p] = "SLEEPING"]
  /\ UNCHANGED <<pid, parent, killed, memVars, nextpid, pc, np, shell,
                 panicked>>

(* kill(): the first slot with that pid, whatever its state.               *)
WokenByKillNot(s) == state
WokenByKill(s) == [state EXCEPT ![s] = IF @ = "SLEEPING" THEN "RUNNABLE" ELSE @]

Kill(p, k) ==
  /\ MayCall(p)
  /\ LET found == {s \in Slots : pid[s] = k} IN
       IF found = {}
       THEN UNCHANGED <<killed, state>>
       ELSE /\ killed' = [killed EXCEPT ![First(found)] = TRUE]
            /\ state' = WokenByKill(First(found))
  /\ UNCHANGED <<pid, parent, memVars, nextpid, pc, np, shell, panicked>>

KernelStep(p) ==
  \/ ForkKstack(p) \/ ForkCopy(p) \/ ForkPublish(p)
  \/ Exit(p) \/ WaitReap(p) \/ WaitFails(p) \/ WaitSleep(p)

ProgramStep(p) ==
  \/ ForkAlloc(p) \/ ForkTableFull(p) \/ WaitCall(p) \/ ExitCall(p) \/ Fault(p)
  \/ \E k \in KillArgs : p # initproc /\ Kill(p, k)

Next == \/ \E p \in Slots : KernelStep(p) \/ ProgramStep(p)
        \/ InitExits

Spec == Init /\ [][Next]_vars

(* Scheduled processes go on in the kernel, a killed process meets the     *)
(* next trap, and init keeps making its calls.                             *)
Fairness ==
  /\ \A p \in Slots : /\ WF_vars(KernelStep(p))
                      /\ WF_vars(killed[p] /\ ExitCall(p))
  /\ WF_vars(ProgramStep(initproc)) /\ WF_vars(InitExits)

LiveSpec == Spec /\ Fairness
-----------------------------------------------------------------------------
(* Types of the process table.                                             *)
TypeOK ==
  /\ state \in [Slots -> States]
  /\ pid \in [Slots -> 0..MaxPid] /\ parent \in [Slots -> 0..NPROC]
  /\ killed \in [Slots -> BOOLEAN]
  /\ kstack \subseteq Slots /\ pgdir \subseteq Slots
  /\ nextpid \in 2..(MaxPid + 1) /\ free \in 0..Pages
  /\ pc \in [Slots -> PCs] /\ np \in [Slots -> 0..NPROC]
  /\ shell \in 0..MaxPid /\ panicked \in BOOLEAN

(* All memory is free or owned by a slot, a process that can run owns its  *)
(* stack and address space, and an UNUSED slot owns nothing.               *)
MemoryOwned ==
  /\ free + Cardinality(kstack) + Cardinality(pgdir) = Pages
  /\ \A s \in Slots :
       /\ state[s] = "UNUSED" => s \notin kstack \cup pgdir
       /\ state[s] \in {"RUNNABLE", "SLEEPING", "ZOMBIE"} => s \in kstack \cap pgdir

(* Pids identify processes, and every process except init has a live       *)
(* parent that will be told of its end: exit() leaves no child behind.     *)
(* Memory stays accounted for, whichever way fork() failed, and all fields *)
(* keep their types.                                                       *)
Family == TypeOK /\ MemoryOwned /\ \A s \in Slots :
  state[s] \in {"RUNNABLE", "SLEEPING", "ZOMBIE"} =>
    /\ \A t \in Slots \ {s} : state[t] # "UNUSED" => pid[t] # pid[s]
    /\ s # initproc => /\ parent[s] \in Slots
                       /\ state[parent[s]] \in {"RUNNABLE", "SLEEPING"}

(* A process asleep in wait() has something to wait for: a child, none of  *)
(* them a zombie, and it has not been killed.  This includes init, which   *)
(* other processes' exits give children and zombies to.                    *)
WaitersHaveReason == \A p \in Slots :
  state[p] = "SLEEPING" => Children(p) # {} /\ Zombies(p) = {} /\ ~killed[p]

(* Orphans are reaped: a zombie that is init's child goes away, unless     *)
(* init itself dies or the pids of this instance run out.                  *)
ZombiesReaped == \A s \in Slots :
  (state[s] = "ZOMBIE" /\ parent[s] = initproc)
    ~> (state[s] # "ZOMBIE" \/ panicked \/ nextpid > MaxPid)
=============================================================================
