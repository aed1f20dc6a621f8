------------------------------- MODULE Sched -------------------------------
(***************************************************************************)
(* Spinlocks, interrupt masking and context switches: spinlock.c, the      *)
(* scheduling half of proc.c (scheduler, sched, yield, forkret, sleep,     *)
(* wakeup) and the timer path of trap.c.  The processes run the code that  *)
(* uses all of it, sys_sleep() on tickslock, and are woken by the timer    *)
(* interrupt of the boot CPU.                                              *)
(*                                                                         *)
(* A thread is a process (its kernel thread) or a CPU's scheduler, named   *)
(* by the CPU.  An action is one step of the thread a CPU runs: pushcli(), *)
(* one successful xchg(), release(), or the code between two of them.  An  *)
(* interrupt runs on top of the interrupted thread and may switch away in  *)
(* the middle.                                                             *)
(***************************************************************************)
EXTENDS Integers, FiniteSets

CONSTANTS CPUs,      \* cpus[]
          BootCpu,   \* cpuid() = 0, which handles the clock
          NPROC,     \* slots of ptable.proc
          None,      \* a null pointer
          Sleep      \* ticks a sys_sleep() call asks for

Procs == 1..NPROC
Threads == Procs \cup CPUs

ASSUME SchedConstants ==
  /\ BootCpu \in CPUs /\ None \notin Threads
  /\ NPROC \in Nat \ {0} /\ Sleep \in Nat \ {0}
  /\ CPUs \cap Procs = {}

VARIABLES
  locked,   \* for each spinlock, the CPU in lk->cpu, or None
  ncli,     \* cpu->ncli
  intena,   \* cpu->intena
  ifl,      \* the interrupt flag of each CPU
  cproc,    \* cpu->proc
  cur,      \* the thread each CPU executes
  pc,       \* where each thread is
  intr,     \* the place a thread was interrupted at, or None
  saved,    \* the local intena of a process in sched()
  state,    \* proc->state
  chan,     \* proc->chan: &ticks or None
  left,     \* ticks until the condition of sys_sleep() holds
  scan      \* loop index of each scheduler()

lockVars == <<locked, ncli, intena, ifl>>
procVars == <<state, chan, left>>
vars == <<lockVars, cproc, cur, pc, intr, saved, procVars, scan>>

States == {"SLEEPING", "RUNNABLE", "RUNNING"}
Locks == {"tickslock", "ptable"}

(* Where acquire() pushes, where it spins and where release() runs: the    *)
(* lock and the next place.                                                *)
Pushes == [s_push  |-> <<"tickslock", "s_xchg">>,  sl_push |-> <<"ptable", "sl_xchg">>,
           sl_lpush |-> <<"tickslock", "sl_lxchg">>, t_push |-> <<"tickslock", "t_xchg">>,
           w_push  |-> <<"ptable", "w_xchg">>,     y_push  |-> <<"ptable", "y_xchg">>,
           p_push  |-> <<"ptable", "p_xchg">>]
Xchgs  == [s_xchg  |-> <<"tickslock", "s_start">>, sl_xchg |-> <<"ptable", "sl_rel">>,
           sl_lxchg |-> <<"tickslock", "s_test">>, t_xchg  |-> <<"tickslock", "t_tick">>,
           w_xchg  |-> <<"ptable", "w_wake">>,     y_xchg  |-> <<"ptable", "y_set">>,
           p_xchg  |-> <<"ptable", "p_scan">>]
Rels   == [s_rel   |-> <<"tickslock", "user">>,    sl_rel  |-> <<"tickslock", "sl_set">>,
           sl_relp |-> <<"ptable", "sl_lpush">>,   w_rel   |-> <<"ptable", "t_rel">>,
           t_rel   |-> <<"tickslock", "t_yield">>, y_rel   |-> <<"ptable", "t_iret">>,
           forkret |-> <<"ptable", "trapret">>,    p_rel   |-> <<"ptable", "sti">>]
Labels == DOMAIN Pushes \cup DOMAIN Xchgs \cup DOMAIN Rels \cup
          {"user", "s_start", "s_test", "sl_set", "sl_sched", "sl_ret",
           "trapret", "t_tick", "w_wake", "t_yield", "y_set", "y_sched", "y_ret",
           "t_iret", "sti", "p_scan", "p_back"}

ASSUME SchedNoLabel == None \notin Labels /\ None # "ticks"

(* After userinit() and mpmain(): the processes are ready to run for the   *)
(* first time, every CPU enters scheduler() with interrupts off.           *)
Init ==
  /\ locked = [l \in Locks |-> None]
  /\ ncli = [c \in CPUs |-> 0]
  /\ intena = [c \in CPUs |-> FALSE]
  /\ ifl = [c \in CPUs |-> FALSE]
  /\ cproc = [c \in CPUs |-> None]
  /\ cur = [c \in CPUs |-> c]
  /\ pc = [t \in Threads |-> IF t \in CPUs THEN "sti" ELSE "forkret"]
  /\ intr = [t \in Threads |-> None]
  /\ saved = [p \in Procs |-> FALSE]
  /\ state = [p \in Procs |-> "RUNNABLE"]
  /\ chan = [p \in Procs |-> None]
  /\ left = [p \in Procs |-> 0]
  /\ scan = [c \in CPUs |-> 1]

At(c) == pc[cur[c]]
Goto(c, l) == pc' = [pc EXCEPT ![cur[c]] = l]
-----------------------------------------------------------------------------
(* spinlock.c                                                              *)

(* pushcli() remembers the flag only at the outermost level.               *)
PushedIntena(c) == IF ncli[c] = 0 THEN ifl[c] ELSE intena[c]

(* cli()                                                                   *)
FlagAfterPushForgotten(c) == ifl[c]
FlagAfterPush(c) == FALSE

Pushcli(c) ==
  /\ At(c) \in DOMAIN Pushes
  /\ intena' = [intena EXCEPT ![c] = PushedIntena(c)]
  /\ ifl' = [ifl EXCEPT ![c] = FlagAfterPush(c)]
  /\ ncli' = [ncli EXCEPT ![c] = @ + 1]
  /\ Goto(c, Pushes[At(c)][2])
  /\ UNCHANGED <<locked, cproc, cur, intr, saved, procVars, scan>>

Xchg(c) ==
  /\ At(c) \in DOMAIN Xchgs
  /\ LET l == Xchgs[At(c)][1] IN
       /\ locked[l] = None
       /\ locked' = [locked EXCEPT ![l] = c]
  /\ Goto(c, Xchgs[At(c)][2])
  /\ UNCHANGED <<ncli, intena, ifl, cproc, cur, intr, saved, procVars, scan>>

(* popcli(): the outermost one turns interrupts back on if they were.      *)
FlagAfterPop(c) == ifl[c] \/ (ncli[c] = 1 /\ intena[c])

Release(c) ==
  /\ At(c) \in DOMAIN Rels
  /\ locked' = [locked EXCEPT ![Rels[At(c)][1]] = None]
  /\ ncli' = [ncli EXCEPT ![c] = @ - 1]
  /\ ifl' = [ifl EXCEPT ![c] = FlagAfterPop(c)]
  /\ Goto(c, Rels[At(c)][2])
  /\ UNCHANGED <<intena, cproc, cur, intr, saved, procVars, scan>>
-----------------------------------------------------------------------------
(* sched(): keep intena, switch to this CPU's scheduler; and what runs     *)
(* when the scheduler has switched back, on whatever CPU that is.          *)
Sched(c, from, to) ==
  /\ At(c) = from
  /\ saved' = [saved EXCEPT ![cur[c]] = intena[c]]
  /\ cur' = [cur EXCEPT ![c] = c]
  /\ Goto(c, to)
  /\ UNCHANGED <<lockVars, cproc, intr, procVars, scan>>

RestoredIntena(c) == saved[cur[c]]

Resume(c) ==
  /\ At(c) \in {"sl_ret", "y_ret"}
  /\ intena' = [intena EXCEPT ![c] = RestoredIntena(c)]
  /\ IF At(c) = "sl_ret"
     THEN chan' = [chan EXCEPT ![cur[c]] = None] /\ Goto(c, "sl_relp")
     ELSE chan' = chan /\ Goto(c, "y_rel")
  /\ UNCHANGED <<locked, ncli, ifl, cproc, cur, intr, saved, state, left, scan>>

(* scheduler(): sti(), then the loop over the table under ptable.lock.     *)
SchedulerSti(c) ==
  /\ At(c) = "sti"
  /\ ifl' = [ifl EXCEPT ![c] = TRUE]
  /\ scan' = [scan EXCEPT ![c] = 1]
  /\ Goto(c, "p_push")
  /\ UNCHANGED <<locked, ncli, intena, cproc, cur, intr, saved, procVars>>

Runnable(c) == {p \in Procs : p >= scan[c] /\ state[p] = "RUNNABLE"}

RunProcess(c) ==
  /\ At(c) = "p_scan"
  /\ \E p \in Runnable(c) :
       /\ \A q \in Runnable(c) : p <= q
       /\ cproc' = [cproc EXCEPT ![c] = p]
       /\ state' = [state EXCEPT ![p] = "RUNNING"]
       /\ cur' = [cur EXCEPT ![c] = p]
       /\ scan' = [scan EXCEPT ![c] = p]
  /\ Goto(c, "p_back")
  /\ UNCHANGED <<lockVars, intr, saved, chan, left>>

ScanDone(c) ==
  /\ At(c) = "p_scan" /\ Runnable(c) = {}
  /\ Goto(c, "p_rel")
  /\ UNCHANGED <<lockVars, cproc, cur, intr, saved, procVars, scan>>

BackInScheduler(c) ==
  /\ At(c) = "p_back"
  /\ cproc' = [cproc EXCEPT ![c] = None]
  /\ scan' = [scan EXCEPT ![c] = @ + 1]
  /\ Goto(c, "p_scan")
  /\ UNCHANGED <<lockVars, cur, intr, saved, procVars>>

(* trapret after forkret(): iret to user mode.                             *)
Trapret(c) ==
  /\ At(c) = "trapret"
  /\ ifl' = [ifl EXCEPT ![c] = TRUE]
  /\ Goto(c, "user")
  /\ UNCHANGED <<locked, ncli, intena, cproc, cur, intr, saved, procVars, scan>>
-----------------------------------------------------------------------------
(* sys_sleep(), entered through a trap gate: interrupts stay on.           *)
Syscall(c) ==
  /\ At(c) = "user"
  /\ Goto(c, "s_push")
  /\ UNCHANGED <<lockVars, cproc, cur, intr, saved, procVars, scan>>

SleepStart(c) ==
  /\ At(c) = "s_start"
  /\ left' = [left EXCEPT ![cur[c]] = Sleep]
  /\ Goto(c, "s_test")
  /\ UNCHANGED <<lockVars, cproc, cur, intr, saved, state, chan, scan>>

(* sleep() takes ptable.lock before it lets go of the caller's lock.       *)
SleepEntryLocksLate == "sl_rel"
SleepEntry == "sl_push"

(* The loop of sys_sleep().  killed is set by kill() at any time; how      *)
(* kill() itself wakes a sleeper is in Proc.                               *)
SleepTest(c) ==
  /\ At(c) = "s_test"
  /\ \/ Goto(c, "s_rel")
     \/ left[cur[c]] # 0 /\ Goto(c, SleepEntry)
  /\ UNCHANGED <<lockVars, cproc, cur, intr, saved, procVars, scan>>

SetSleeping(c) ==
  /\ At(c) = "sl_set"
  /\ chan' = [chan EXCEPT ![cur[c]] = "ticks"]
  /\ state' = [state EXCEPT ![cur[c]] = "SLEEPING"]
  /\ Goto(c, "sl_sched")
  /\ UNCHANGED <<lockVars, cproc, cur, intr, saved, left, scan>>
-----------------------------------------------------------------------------
(* The timer interrupt, through an interrupt gate: interrupts go off.      *)
TimerInterrupt(c) ==
  /\ ifl[c] /\ intr[cur[c]] = None
  /\ ifl' = [ifl EXCEPT ![c] = FALSE]
  /\ intr' = [intr EXCEPT ![cur[c]] = At(c)]
  /\ Goto(c, IF c = BootCpu THEN "t_push" ELSE "t_yield")
  /\ UNCHANGED <<locked, ncli, intena, cproc, cur, saved, procVars, scan>>

Tick(c) ==
  /\ At(c) = "t_tick"
  /\ left' = [p \in Procs |-> IF left[p] = 0 THEN 0 ELSE left[p] - 1]
  /\ Goto(c, "w_push")
  /\ UNCHANGED <<lockVars, cproc, cur, intr, saved, state, chan, scan>>

Woken(ch) == {p \in Procs : state[p] = "SLEEPING" /\ chan[p] = ch}

Wakeup1(c) ==
  /\ At(c) = "w_wake"
  /\ state' = [p \in Procs |-> IF p \in Woken("ticks") THEN "RUNNABLE" ELSE state[p]]
  /\ Goto(c, "w_rel")
  /\ UNCHANGED <<lockVars, cproc, cur, intr, saved, chan, left, scan>>

(* Give up the CPU on a clock tick, if a process runs on it.               *)
YieldEntryUnlocked == "y_set"
YieldEntry == "y_push"

YieldCheck(c) ==
  /\ At(c) = "t_yield"
  /\ Goto(c, IF cproc[c] # None /\ state[cproc[c]] = "RUNNING"
             THEN YieldEntry ELSE "t_iret")
  /\ UNCHANGED <<lockVars, cproc, cur, intr, saved, procVars, scan>>

YieldSet(c) ==
  /\ At(c) = "y_set"
  /\ state' = [state EXCEPT ![cproc[c]] = "RUNNABLE"]
  /\ Goto(c, "y_sched")
  /\ UNCHANGED <<lockVars, cproc, cur, intr, saved, chan, left, scan>>

Iret(c) ==
  /\ At(c) = "t_iret"
  /\ ifl' = [ifl EXCEPT ![c] = TRUE]
  /\ Goto(c, intr[cur[c]])
  /\ intr' = [intr EXCEPT ![cur[c]] = None]
  /\ UNCHANGED <<locked, ncli, intena, cproc, cur, saved, procVars, scan>>

Step(c) ==
  \/ Pushcli(c) \/ Xchg(c) \/ Release(c)
  \/ Sched(c, "sl_sched", "sl_ret") \/ Sched(c, "y_sched", "y_ret") \/ Resume(c)
  \/ SchedulerSti(c) \/ RunProcess(c) \/ ScanDone(c) \/ BackInScheduler(c)
  \/ Trapret(c) \/ SleepStart(c) \/ SleepTest(c) \/ SetSleeping(c)
  \/ Tick(c) \/ Wakeup1(c) \/ YieldCheck(c) \/ YieldSet(c) \/ Iret(c)

Next == \E c \in CPUs : Step(c) \/ Syscall(c) \/ TimerInterrupt(c)

Spec == Init /\ [][Next]_vars
-----------------------------------------------------------------------------
(* Types of the lock, CPU and process fields.                              *)
TypeOK ==
  /\ locked \in [Locks -> CPUs \cup {None}]
  /\ ncli \in [CPUs -> 0..2]
  /\ intena \in [CPUs -> BOOLEAN] /\ ifl \in [CPUs -> BOOLEAN]
  /\ cproc \in [CPUs -> Procs \cup {None}]
  /\ cur \in [CPUs -> Threads]
  /\ pc \in [Threads -> Labels]
  /\ intr \in [Threads -> Labels \cup {None}]
  /\ saved \in [Procs -> BOOLEAN]
  /\ state \in [Procs -> States] /\ chan \in [Procs -> {"ticks", None}]
  /\ left \in [Procs -> 0..Sleep] /\ scan \in [CPUs -> 1..(NPROC + 1)]

(* Outside any lock a process's system call runs with interrupts on and    *)
(* its interrupt handler with interrupts off.                              *)
InterruptsFollowThread == \A c \in CPUs :
  cur[c] \in Procs /\ ncli[c] = 0 /\ At(c) # "trapret" =>
    (ifl[c] <=> intr[cur[c]] = None)

(* None of the panics of acquire, release, popcli, sched and mycpu can be  *)
(* reached: no CPU takes a lock it holds, also not in an interrupt handler *)
(* over its own critical section; locks are released by their holder; and  *)
(* sched() is entered with exactly ptable.lock, interrupts off and a state *)
(* that is not RUNNING.  Interrupt masking follows the thread, not the     *)
(* CPU, wherever and however often sched() switched away in between.  All  *)
(* fields keep their types.                                                *)
ChecksPass == TypeOK /\ InterruptsFollowThread /\ \A c \in CPUs :
  /\ At(c) \in DOMAIN Pushes => locked[Pushes[At(c)][1]] # c
  /\ At(c) \in DOMAIN Rels => /\ locked[Rels[At(c)][1]] = c
                              /\ ~ifl[c] /\ ncli[c] > 0
  /\ At(c) \in {"sl_sched", "y_sched"} => /\ locked["ptable"] = c /\ ncli[c] = 1
                                          /\ state[cur[c]] # "RUNNING" /\ ~ifl[c]

(* A process's kernel stack is used by one CPU at a time, and the process  *)
(* table says so: a process a CPU executes is cpu->proc, on that CPU only, *)
(* and outside ptable.lock it is RUNNING exactly while it is on a CPU.     *)
OneCpuPerProcess ==
  /\ \A c, d \in CPUs : c # d /\ cproc[c] # None => cproc[c] # cproc[d]
  /\ \A c \in CPUs : cur[c] \in Procs => cproc[c] = cur[c]
  /\ locked["ptable"] = None =>
       \A p \in Procs : state[p] = "RUNNING" <=> \E c \in CPUs : cur[c] = p

(* sleep() misses no wakeup: a process asleep although its ticks are over  *)
(* is about to be woken by the clock handler that counted the last one.    *)
NoLostWakeup == \A p \in Procs :
  state[p] = "SLEEPING" /\ left[p] = 0 =>
    \E c \in CPUs : At(c) \in {"w_push", "w_xchg", "w_wake"}
=============================================================================
