---------------------------- MODULE SchedProofs -----------------------------
(***************************************************************************)
(* Proofs about Sched, for any number of CPUs and processes: the checks in *)
(* spinlock.c and sched() never fail, a process runs on one CPU at a time, *)
(* and sleep() misses no wakeup.                                           *)
(***************************************************************************)
EXTENDS Sched, TLAPS

(* The places of the interrupt handler, also across yield().               *)
TrapPlaces == {"t_push", "t_xchg", "t_tick", "w_push", "w_xchg", "w_wake", "w_rel",
               "t_rel", "t_yield", "t_iret"}
YieldPlaces == {"y_push", "y_xchg", "y_set", "y_sched", "y_ret", "y_rel"}
Handler == TrapPlaces \cup YieldPlaces

(* The other places of a process and of a scheduler.                       *)
CallPlaces == {"forkret", "trapret", "user", "s_push", "s_xchg", "s_start", "s_test",
               "s_rel", "sl_push", "sl_xchg", "sl_rel", "sl_set", "sl_sched",
               "sl_ret", "sl_relp", "sl_lpush", "sl_lxchg"}
LoopPlaces == {"sti", "p_push", "p_xchg", "p_scan", "p_back", "p_rel"}

(* Where a CPU holds each lock, and how deep its pushcli() calls are.      *)
Holding(l) ==
  IF l = "tickslock"
  THEN {"s_start", "s_test", "s_rel", "sl_push", "sl_xchg", "sl_rel",
        "t_tick", "w_push", "w_xchg", "w_wake", "w_rel", "t_rel"}
  ELSE {"sl_rel", "sl_set", "sl_sched", "sl_ret", "sl_relp", "w_wake", "w_rel",
        "y_set", "y_sched", "y_ret", "y_rel", "forkret", "p_scan", "p_back", "p_rel"}
Outside == {"user", "s_push", "sl_lpush", "trapret", "sti", "p_push",
            "t_push", "t_yield", "y_push", "t_iret"}
Twice == {"sl_xchg", "sl_rel", "w_xchg", "w_wake", "w_rel"}
Depth(a) == IF a \in Outside THEN 0 ELSE IF a \in Twice THEN 2 ELSE 1

(* Where interrupts are on, and where they may be.                         *)
On == {"user", "s_push", "sl_lpush", "p_push"}
Either == {"trapret", "sti"}

(* Where intena remembers that interrupts were on, or off.                 *)
RemembersOn == {"s_xchg", "s_start", "s_test", "s_rel", "sl_push", "sl_xchg", "sl_rel",
                "sl_set", "sl_sched", "sl_relp", "sl_lxchg"}
RemembersOff == {"t_xchg", "t_tick", "w_push", "w_xchg", "w_wake", "w_rel", "t_rel",
                 "y_xchg", "y_set", "y_sched", "y_rel"}

LocksHeld == \A c \in CPUs, l \in Locks : locked[l] = c <=> At(c) \in Holding(l)
Depths == \A c \in CPUs : ncli[c] = Depth(At(c))
Flags == \A c \in CPUs : /\ At(c) \in On => ifl[c]
                         /\ At(c) \notin On \cup Either => ~ifl[c]
Remembered ==
  \A c \in CPUs : /\ At(c) \in RemembersOn => intena[c]
                  /\ At(c) \in RemembersOff => ~intena[c]
Kept ==
  \A p \in Procs : /\ pc[p] = "sl_ret" => saved[p]
                   /\ pc[p] = "y_ret" => ~saved[p]

(* A thread is in the handler exactly while it is interrupted.             *)
Interrupted == \A t \in Threads :
  /\ (intr[t] # None) <=> (pc[t] \in Handler)
  /\ intr[t] # None => intr[t] \in On \cup Either

(* Which thread a CPU executes, and where the scheduler waits meanwhile.   *)
Placed ==
  /\ \A p \in Procs : /\ pc[p] \in CallPlaces \cup Handler
                      /\ intr[p] \in CallPlaces \cup {None}
  /\ \A c \in CPUs : /\ cur[c] \in Procs \cup {c}
                     /\ pc[c] \in LoopPlaces \cup TrapPlaces
                     /\ intr[c] \in LoopPlaces \cup {None}
                     /\ pc[c] = "p_back" => scan[c] \in Procs
                     /\ cur[c] # c => pc[c] = "p_back" /\ cproc[c] = cur[c]
                     /\ pc[c] # "p_back" => cproc[c] = None
  /\ \A c, d \in CPUs : c # d /\ cproc[c] # None => cproc[c] # cproc[d]

OnCpu(p) == \E c \in CPUs : cur[c] = p

(* proc->state and proc->chan.                                             *)
StatesFollow == \A p \in Procs :
  /\ pc[p] \in {"sl_sched", "sl_ret"} => chan[p] = "ticks"
  /\ OnCpu(p) => state[p] = IF pc[p] = "sl_sched" THEN "SLEEPING"
                            ELSE IF pc[p] = "y_sched" THEN "RUNNABLE" ELSE "RUNNING"
  /\ ~OnCpu(p) => /\ pc[p] \in {"forkret", "sl_ret", "y_ret"}
                  /\ state[p] # "RUNNING"
                  /\ state[p] = "SLEEPING" => pc[p] = "sl_ret"

(* On its way to sleep() a process has ticks left, or the clock handler    *)
(* that took the last one has not woken anybody yet.                       *)
WakeComing == \E c \in CPUs : At(c) \in {"w_push", "w_xchg", "w_wake"}
Waiting == \A p \in Procs :
  /\ pc[p] \in {"sl_push", "sl_xchg", "sl_rel"} => left[p] # 0
  /\ (state[p] = "SLEEPING" \/ pc[p] = "sl_set") /\ left[p] = 0 => WakeComing

IndInv ==
  /\ TypeOK /\ LocksHeld /\ Depths /\ Flags /\ Remembered /\ Kept
  /\ Interrupted /\ Placed /\ StatesFollow /\ Waiting
-----------------------------------------------------------------------------
(* Places, and what a move from one to another keeps.                      *)

SchedPlaces == {"sl_sched", "y_sched"}
WakePlaces == {"w_push", "w_xchg", "w_wake"}
SleepPlaces == {"sl_push", "sl_xchg", "sl_rel", "sl_set"}

(* The same locks are held, as deep, and the flags promise no more.        *)
SameLocks(a, n) ==
  /\ \A l \in Locks : a \in Holding(l) <=> n \in Holding(l)
  /\ Depth(a) = Depth(n)
  /\ n \in On => a \in On
  /\ n \notin On \cup Either => a \notin On \cup Either
  /\ n \in RemembersOn => a \in RemembersOn
  /\ n \in RemembersOff => a \in RemembersOff

(* A move within the handler, the system call or the scheduler's loop that *)
(* does not come from a context switch.                                    *)
Ordinary(a, n) ==
  /\ a \in CallPlaces => n \in CallPlaces
  /\ a \in LoopPlaces => n \in LoopPlaces
  /\ a \in Handler => n \in Handler
  /\ a # "p_back" /\ n \notin {"sl_ret", "y_ret", "p_back"}

(* A scheduler does not leave the handler's own places for yield().        *)
TrapKept(c, n) == cur[c] = c /\ At(c) \in TrapPlaces => n \in TrapPlaces

(* The tables of acquire() and release().                                  *)
LEMMA PushTable ==
  ASSUME NEW a \in DOMAIN Pushes
  PROVE  /\ Pushes[a][1] \in Locks /\ Pushes[a][2] \in Labels
         /\ Ordinary(a, Pushes[a][2]) /\ {a, Pushes[a][2]} \cap SchedPlaces = {}
         /\ a \in TrapPlaces => Pushes[a][2] \in TrapPlaces
         /\ Depth(Pushes[a][2]) = Depth(a) + 1
         /\ \A l \in Locks : a \in Holding(l) <=> Pushes[a][2] \in Holding(l)
         /\ a \notin Holding(Pushes[a][1])
         /\ Pushes[a][2] \notin On \cup Either
         /\ Depth(a) = 0 /\ Pushes[a][2] \in RemembersOn => a \in On
         /\ Depth(a) = 0 /\ Pushes[a][2] \in RemembersOff => a \notin On \cup Either
         /\ Depth(a) # 0 /\ Pushes[a][2] \in RemembersOn => a \in RemembersOn
         /\ Depth(a) # 0 /\ Pushes[a][2] \in RemembersOff => a \in RemembersOff
         /\ a \in WakePlaces <=> Pushes[a][2] \in WakePlaces
         /\ Pushes[a][2] \in SleepPlaces => a \in SleepPlaces \ {"sl_set"}
         /\ Pushes[a][2] # "sl_set"
BY DEF Pushes, Xchgs, Rels, Labels, Locks, Ordinary, Depth, Outside, Twice, Holding, On, Either,
   RemembersOn, RemembersOff, WakePlaces, SleepPlaces, SchedPlaces, CallPlaces, LoopPlaces, TrapPlaces,
   YieldPlaces, Handler

(* The places where acquire() spins.                                       *)
LEMMA XchgTable ==
  ASSUME NEW a \in DOMAIN Xchgs
  PROVE  /\ Xchgs[a][1] \in Locks /\ Xchgs[a][2] \in Labels
         /\ Ordinary(a, Xchgs[a][2]) /\ {a, Xchgs[a][2]} \cap SchedPlaces = {}
         /\ a \in TrapPlaces => Xchgs[a][2] \in TrapPlaces
         /\ Depth(Xchgs[a][2]) = Depth(a)
         /\ \A l \in Locks :
              Xchgs[a][2] \in Holding(l) <=> l = Xchgs[a][1] \/ a \in Holding(l)
         /\ {a, Xchgs[a][2]} \cap (On \cup Either) = {}
         /\ Xchgs[a][2] \in RemembersOn => a \in RemembersOn
         /\ Xchgs[a][2] \in RemembersOff => a \in RemembersOff
         /\ a \in WakePlaces <=> Xchgs[a][2] \in WakePlaces
         /\ Xchgs[a][2] \in SleepPlaces => a \in SleepPlaces \ {"sl_set"}
         /\ Xchgs[a][2] # "sl_set"
BY DEF Pushes, Xchgs, Rels, Labels, Locks, Ordinary, Depth, Outside, Twice, Holding, On, Either,
   RemembersOn, RemembersOff, WakePlaces, SleepPlaces, SchedPlaces, CallPlaces, LoopPlaces, TrapPlaces,
   YieldPlaces, Handler

(* The places of release().                                                *)
LEMMA RelTable ==
  ASSUME NEW a \in DOMAIN Rels
  PROVE  /\ Rels[a][1] \in Locks /\ Rels[a][2] \in Labels
         /\ Ordinary(a, Rels[a][2]) /\ {a, Rels[a][2]} \cap SchedPlaces = {}
         /\ a \in TrapPlaces => Rels[a][2] \in TrapPlaces
         /\ Depth(a) \in {1, 2} /\ Depth(Rels[a][2]) = Depth(a) - 1
         /\ \A l \in Locks :
              Rels[a][2] \in Holding(l) <=> l # Rels[a][1] /\ a \in Holding(l)
         /\ a \in Holding(Rels[a][1])
         /\ a \notin On \cup Either
         /\ Rels[a][2] \in On => Depth(a) = 1 /\ a \in RemembersOn
         /\ Rels[a][2] \notin On \cup Either => Depth(a) = 2 \/ a \in RemembersOff
         /\ Rels[a][2] \in RemembersOn => a \in RemembersOn
         /\ Rels[a][2] \in RemembersOff => a \in RemembersOff
         /\ a \notin WakePlaces /\ Rels[a][2] \notin WakePlaces
         /\ Rels[a][2] \in SleepPlaces => a \in SleepPlaces \ {"sl_set"}
BY DEF Pushes, Xchgs, Rels, Labels, Locks, Ordinary, Depth, Outside, Twice, Holding, On, Either,
   RemembersOn, RemembersOff, WakePlaces, SleepPlaces, SchedPlaces, CallPlaces, LoopPlaces, TrapPlaces,
   YieldPlaces, Handler

(* Two CPUs never execute the same thread.                                 *)
LEMMA OwnThread ==
  ASSUME IndInv
  PROVE  \A c, d \in CPUs : c # d => cur[c] # cur[d]
<1>1. SUFFICES ASSUME NEW c \in CPUs, NEW d \in CPUs, c # d, cur[c] = cur[d]
               PROVE  FALSE
  OBVIOUS
<1>2. /\ cur[c] \in Procs \cup {c} /\ cur[d] \in Procs \cup {d}
      /\ c \notin Procs /\ d \notin Procs /\ None \notin Procs
  BY SchedConstants DEF IndInv, Placed, Threads
<1>3. cur[c] # c /\ cur[d] # d
  BY <1>1, <1>2
<1>4. QED
  BY <1>1, <1>2, <1>3 DEF IndInv, Placed

(* A step moves only the thread its CPU executes.                          *)
LEMMA Others ==
  ASSUME IndInv, NEW c \in CPUs, NEW n,
         pc' = [pc EXCEPT ![cur[c]] = n],
         \A d \in CPUs \ {c} : cur'[d] = cur[d]
  PROVE  /\ \A d \in CPUs \ {c} : At(d)' = At(d) /\ cur[d] # cur[c]
         /\ cur[c] \in Threads /\ pc'[cur[c]] = n
         /\ cur'[c] = cur[c] => At(c)' = n
<1>1. /\ pc \in [Threads -> Labels] /\ cur \in [CPUs -> Threads]
      /\ \A d \in CPUs \ {c} : cur[d] # cur[c]
  BY OwnThread DEF IndInv, TypeOK
<1>2. QED
  BY <1>1 DEF At

(* The locks, the depth and the flags of a CPU that moved from a to n.     *)
LEMMA LocksKept ==
  ASSUME IndInv, NEW c \in CPUs, NEW n, At(c)' = n, SameLocks(At(c), n),
         \A d \in CPUs \ {c} : At(d)' = At(d), UNCHANGED lockVars
  PROVE  (LocksHeld /\ Depths /\ Flags /\ Remembered)'
<1>1. /\ \A d \in CPUs, l \in Locks : At(d) \in Holding(l) <=> At(d)' \in Holding(l)
      /\ \A d \in CPUs : Depth(At(d)) = Depth(At(d)')
      /\ \A d \in CPUs : At(d)' \in On => At(d) \in On
      /\ \A d \in CPUs : At(d)' \notin On \cup Either => At(d) \notin On \cup Either
      /\ \A d \in CPUs : At(d)' \in RemembersOn => At(d) \in RemembersOn
      /\ \A d \in CPUs : At(d)' \in RemembersOff => At(d) \in RemembersOff
  BY DEF SameLocks
<1>2. LocksHeld'
  BY <1>1 DEF IndInv, LocksHeld, lockVars
<1>3. Depths'
  BY <1>1 DEF IndInv, Depths, lockVars
<1>4. Flags'
  BY <1>1 DEF IndInv, Flags, lockVars
<1>5. Remembered'
  BY <1>1 DEF IndInv, Remembered, lockVars
<1>6. QED
  BY <1>2, <1>3, <1>4, <1>5

(* What an ordinary move cannot disturb.                                   *)
LEMMA OrdinaryMove ==
  ASSUME IndInv, NEW c \in CPUs, NEW n \in Labels, Ordinary(At(c), n), TrapKept(c, n),
         pc' = [pc EXCEPT ![cur[c]] = n],
         UNCHANGED <<cproc, cur, intr, saved>>,
         \A d \in CPUs \ {cur[c]} : scan'[d] = scan[d]
  PROVE  (Kept /\ Interrupted /\ Placed)'
<1>1. /\ pc \in [Threads -> Labels] /\ cur[c] \in Threads /\ Threads = Procs \cup CPUs
      /\ \A d \in CPUs \ {c} : cur[d] # cur[c]
      /\ CPUs \cap Procs = {} /\ cur[c] \in Procs \cup {c}
      /\ \A t \in Threads : pc'[t] = IF t = cur[c] THEN n ELSE pc[t]
      /\ n \notin {"sl_ret", "y_ret", "p_back"}
  BY OwnThread, SchedConstants DEF IndInv, TypeOK, Threads, Ordinary, Placed
<1>2. Kept'
  BY <1>1 DEF IndInv, Kept
<1>3. At(c) = pc[cur[c]] /\ At(c) \in Labels
  BY <1>1 DEF At
<1>4. pc[cur[c]] \in Handler <=> n \in Handler
  BY <1>1, <1>3 DEF IndInv, Placed, Ordinary, CallPlaces, LoopPlaces, Handler, TrapPlaces, YieldPlaces
<1>5. Interrupted'
  BY <1>1, <1>4 DEF IndInv, Interrupted
<1>6. Placed'
  <2>1. \A p \in Procs : /\ pc'[p] \in CallPlaces \cup Handler
                         /\ intr'[p] \in CallPlaces \cup {None}
    BY <1>1, <1>3 DEF IndInv, Placed, Ordinary, Handler
  <2>2. ASSUME NEW d \in CPUs
        PROVE  /\ cur'[d] \in Procs \cup {d}
               /\ pc'[d] \in LoopPlaces \cup TrapPlaces
               /\ intr'[d] \in LoopPlaces \cup {None}
               /\ pc'[d] = "p_back" => scan'[d] \in Procs
               /\ cur'[d] # d => pc'[d] = "p_back" /\ cproc'[d] = cur'[d]
               /\ pc'[d] # "p_back" => cproc'[d] = None
    <3>1. pc'[d] = "p_back" <=> pc[d] = "p_back"
      BY <1>1, <1>3, <2>2 DEF Ordinary
    <3>2. pc'[d] = "p_back" => scan'[d] \in Procs
      <4>1. CASE d = cur[c]
        BY <4>1, <1>1
      <4>2. CASE d # cur[c]
        BY <4>2, <3>1, <2>2 DEF IndInv, Placed
      <4>3. QED
        BY <4>1, <4>2
    <3>3. pc'[d] \in LoopPlaces \cup TrapPlaces
      BY <1>1, <1>3, <2>2 DEF IndInv, Placed, Ordinary, TrapKept
    <3>4. QED
      BY <3>1, <3>2, <3>3, <2>2 DEF IndInv, Placed
  <2>3. QED
    BY <2>1, <2>2 DEF IndInv, Placed
<1>7. QED
  BY <1>2, <1>5, <1>6

(* proc->state and proc->chan when they do not change for another process. *)
LEMMA StatesKept ==
  ASSUME IndInv, NEW c \in CPUs, NEW n \in Labels,
         At(c) \notin SchedPlaces, n \notin SchedPlaces \cup {"sl_ret"},
         pc' = [pc EXCEPT ![cur[c]] = n],
         UNCHANGED <<cur, state>>,
         \A p \in Procs \ {cur[c]} : chan'[p] = chan[p]
  PROVE  StatesFollow'
<1>1. /\ pc \in [Threads -> Labels] /\ cur[c] \in Threads /\ Threads = Procs \cup CPUs
      /\ \A t \in Threads : pc'[t] = IF t = cur[c] THEN n ELSE pc[t]
      /\ At(c) = pc[cur[c]]
  BY DEF IndInv, TypeOK, Threads, At
<1>2. ASSUME NEW p \in Procs PROVE OnCpu(p)' = OnCpu(p)
  BY DEF OnCpu
<1>3. SUFFICES ASSUME NEW p \in Procs
               PROVE  /\ pc'[p] \in {"sl_sched", "sl_ret"} => chan'[p] = "ticks"
                      /\ OnCpu(p) => state'[p] = IF pc'[p] = "sl_sched" THEN "SLEEPING"
                           ELSE IF pc'[p] = "y_sched" THEN "RUNNABLE" ELSE "RUNNING"
                      /\ ~OnCpu(p) => /\ pc'[p] \in {"forkret", "sl_ret", "y_ret"}
                                      /\ state'[p] # "RUNNING"
                                      /\ state'[p] = "SLEEPING" => pc'[p] = "sl_ret"
  BY <1>2 DEF StatesFollow
<1>4. CASE p = cur[c]
  BY <1>1, <1>4 DEF IndInv, StatesFollow, OnCpu, SchedPlaces
<1>5. CASE p # cur[c]
  BY <1>1, <1>3, <1>5 DEF IndInv, StatesFollow
<1>6. QED
  BY <1>4, <1>5

(* The clock handler on its way to wakeup() stays there, or stays away.    *)
LEMMA WaitingKept ==
  ASSUME IndInv, NEW c \in CPUs, NEW n \in Labels,
         pc' = [pc EXCEPT ![cur[c]] = n],
         UNCHANGED <<cur, state, left>>,
         At(c) \in WakePlaces => n \in WakePlaces,
         n \in SleepPlaces => At(c) \in SleepPlaces \ {"sl_set"}
  PROVE  Waiting'
<1>1. /\ pc \in [Threads -> Labels] /\ cur[c] \in Threads /\ Threads = Procs \cup CPUs
      /\ \A t \in Threads : pc'[t] = IF t = cur[c] THEN n ELSE pc[t]
      /\ At(c) = pc[cur[c]]
  BY DEF IndInv, TypeOK, Threads, At
<1>2. WakeComing => WakeComing'
  <2>1. \A d \in CPUs \ {c} : At(d)' = At(d)
    BY Others
  <2>2. At(c)' = n
    BY Others
  <2>3. QED
    BY <2>1, <2>2 DEF WakeComing, WakePlaces
<1>3. ASSUME NEW p \in Procs
      PROVE  /\ pc'[p] \in {"sl_push", "sl_xchg", "sl_rel"} => left'[p] # 0
             /\ (state'[p] = "SLEEPING" \/ pc'[p] = "sl_set") /\ left'[p] = 0 => WakeComing'
  BY <1>1, <1>2, <1>3 DEF IndInv, Waiting, SleepPlaces
<1>4. QED
  BY <1>3 DEF Waiting

-----------------------------------------------------------------------------
(* spinlock.c                                                              *)

(* pushcli() masks interrupts and remembers the flag of the outermost one. *)
LEMMA PushcliStep ==
  ASSUME IndInv, NEW c \in CPUs, Pushcli(c)
  PROVE  IndInv'
<1>a. PICK a : a = At(c)
  OBVIOUS
<1>n. PICK n : n = Pushes[a][2]
  OBVIOUS
<1>1. /\ a = At(c) /\ n = Pushes[a][2]
      /\ a \in DOMAIN Pushes /\ n \in Labels /\ Ordinary(a, n)
      /\ pc' = [pc EXCEPT ![cur[c]] = n]
      /\ a \in WakePlaces => n \in WakePlaces
      /\ n \in SleepPlaces => a \in SleepPlaces \ {"sl_set"}
      /\ TrapKept(c, n) /\ a \notin SchedPlaces /\ n \notin SchedPlaces
  BY <1>a, <1>n, PushTable DEF Pushcli, Goto, TrapKept
<1>2. /\ \A d \in CPUs \ {c} : At(d)' = At(d)
      /\ At(c)' = n
  <2>1. cur' = cur /\ pc' = [pc EXCEPT ![cur[c]] = n]
    BY <1>1 DEF Pushcli
  <2>2. QED
    BY <2>1, Others
<1>3. (Kept /\ Interrupted /\ Placed /\ StatesFollow /\ Waiting)'
  <2>1. n # "sl_ret"
    BY <1>1 DEF Ordinary
  <2>2. QED
    BY <1>1, <2>1, OrdinaryMove, StatesKept, WaitingKept DEF Pushcli, procVars
<1>4. TypeOK'
  <2>1. a \in Labels /\ Depth(n) \in 0..2
    BY <1>1, Others, PushTable DEF IndInv, TypeOK, At, Depth
  <2>2. ncli' \in [CPUs -> 0..2]
    BY <1>1, <2>1, PushTable DEF Pushcli, IndInv, TypeOK, Depths
  <2>3. intena' \in [CPUs -> BOOLEAN] /\ ifl' \in [CPUs -> BOOLEAN]
    BY DEF Pushcli, IndInv, TypeOK, PushedIntena, FlagAfterPush
  <2>4. QED
    BY <1>1, <2>2, <2>3 DEF Pushcli, IndInv, TypeOK, procVars
<1>5. LocksHeld'
  BY <1>1, <1>2, PushTable DEF Pushcli, IndInv, LocksHeld
<1>6. Depths'
  BY <1>1, <1>2, PushTable DEF Pushcli, IndInv, Depths, TypeOK
<1>7. Flags'
  BY <1>1, <1>2, PushTable DEF Pushcli, IndInv, Flags, TypeOK, FlagAfterPush
<1>8. Remembered'
  BY <1>1, <1>2, PushTable DEF Pushcli, IndInv, Remembered, Flags, TypeOK, PushedIntena, Depths
<1>9. QED
  BY <1>3, <1>4, <1>5, <1>6, <1>7, <1>8 DEF IndInv

(* xchg() succeeds only on a free lock, so the new holder is the only one. *)
LEMMA XchgStep ==
  ASSUME IndInv, NEW c \in CPUs, Xchg(c)
  PROVE  IndInv'
<1>a. PICK a : a = At(c)
  OBVIOUS
<1>n. PICK n : n = Xchgs[a][2]
  OBVIOUS
<1>l. PICK l : l = Xchgs[a][1]
  OBVIOUS
<1>1. /\ a = At(c) /\ n = Xchgs[a][2] /\ l = Xchgs[a][1]
      /\ a \in DOMAIN Xchgs /\ n \in Labels /\ l \in Locks /\ Ordinary(a, n)
      /\ pc' = [pc EXCEPT ![cur[c]] = n]
      /\ a \in WakePlaces => n \in WakePlaces
      /\ n \in SleepPlaces => a \in SleepPlaces \ {"sl_set"}
      /\ TrapKept(c, n) /\ a \notin SchedPlaces /\ n \notin SchedPlaces
  BY <1>a, <1>n, <1>l, XchgTable DEF Xchg, Goto, TrapKept
<1>2. /\ \A d \in CPUs \ {c} : At(d)' = At(d)
      /\ At(c)' = n
  <2>1. cur' = cur /\ pc' = [pc EXCEPT ![cur[c]] = n]
    BY <1>1 DEF Xchg
  <2>2. QED
    BY <2>1, Others
<1>3. (Kept /\ Interrupted /\ Placed /\ StatesFollow /\ Waiting)'
  <2>1. n # "sl_ret"
    BY <1>1 DEF Ordinary
  <2>2. QED
    BY <1>1, <2>1, OrdinaryMove, StatesKept, WaitingKept DEF Xchg, procVars
<1>4. TypeOK'
  BY <1>1 DEF Xchg, IndInv, TypeOK, procVars
<1>5. LocksHeld'
  <2>1. locked[l] = None /\ locked' = [locked EXCEPT ![l] = c]
    BY <1>1 DEF Xchg
  <2>2. locked \in [Locks -> CPUs \cup {None}] /\ None \notin CPUs
    BY SchedConstants DEF IndInv, TypeOK, Threads
  <2>3. \A m \in Locks : n \in Holding(m) <=> m = l \/ a \in Holding(m)
    BY <1>1, XchgTable
  <2>4. QED
    BY <1>1, <1>2, <2>1, <2>2, <2>3 DEF IndInv, LocksHeld
<1>6. Depths'
  BY <1>1, <1>2, XchgTable DEF Xchg, IndInv, Depths, TypeOK
<1>7. Flags'
  BY <1>1, <1>2, XchgTable DEF Xchg, IndInv, Flags, TypeOK
<1>8. Remembered'
  BY <1>1, <1>2, XchgTable DEF Xchg, IndInv, Remembered
<1>9. QED
  BY <1>3, <1>4, <1>5, <1>6, <1>7, <1>8 DEF IndInv

(* release() frees a lock its CPU holds; popcli() unmasks at depth 0.      *)
LEMMA ReleaseStep ==
  ASSUME IndInv, NEW c \in CPUs, Release(c)
  PROVE  IndInv'
<1>a. PICK a : a = At(c)
  OBVIOUS
<1>n. PICK n : n = Rels[a][2]
  OBVIOUS
<1>l. PICK l : l = Rels[a][1]
  OBVIOUS
<1>1. /\ a = At(c) /\ n = Rels[a][2] /\ l = Rels[a][1]
      /\ a \in DOMAIN Rels /\ n \in Labels /\ l \in Locks /\ Ordinary(a, n)
      /\ pc' = [pc EXCEPT ![cur[c]] = n]
      /\ a \in WakePlaces => n \in WakePlaces
      /\ n \in SleepPlaces => a \in SleepPlaces \ {"sl_set"}
      /\ TrapKept(c, n) /\ a \notin SchedPlaces /\ n \notin SchedPlaces
  BY <1>a, <1>n, <1>l, RelTable DEF Release, Goto, TrapKept
<1>2. /\ \A d \in CPUs \ {c} : At(d)' = At(d)
      /\ At(c)' = n
  <2>1. cur' = cur /\ pc' = [pc EXCEPT ![cur[c]] = n]
    BY <1>1 DEF Release
  <2>2. QED
    BY <2>1, Others
<1>3. (Kept /\ Interrupted /\ Placed /\ StatesFollow /\ Waiting)'
  <2>1. n # "sl_ret"
    BY <1>1 DEF Ordinary
  <2>2. QED
    BY <1>1, <2>1, OrdinaryMove, StatesKept, WaitingKept DEF Release, procVars
<1>4. ncli[c] = Depth(a) /\ ncli[c] \in {1, 2} /\ ~ifl[c]
  BY <1>1, RelTable DEF IndInv, Depths, Flags
<1>5. TypeOK'
  <2>1. ifl' \in [CPUs -> BOOLEAN]
    BY DEF Release, IndInv, TypeOK, FlagAfterPop
  <2>2. QED
    BY <1>1, <1>4, <2>1 DEF Release, IndInv, TypeOK, procVars
<1>6. LocksHeld'
  <2>1. locked' = [locked EXCEPT ![l] = None]
    BY <1>1 DEF Release
  <2>2. locked \in [Locks -> CPUs \cup {None}] /\ None \notin CPUs
    BY SchedConstants DEF IndInv, TypeOK, Threads
  <2>3. /\ \A m \in Locks : n \in Holding(m) <=> m # l /\ a \in Holding(m)
        /\ a \in Holding(l)
    BY <1>1, RelTable
  <2>4. QED
    BY <1>1, <1>2, <2>1, <2>2, <2>3 DEF IndInv, LocksHeld
<1>7. Depths'
  BY <1>1, <1>2, <1>4, RelTable DEF Release, IndInv, Depths, TypeOK
<1>8. Flags'
  <2>1. ifl'[c] = (ifl[c] \/ (ncli[c] = 1 /\ intena[c]))
    BY DEF Release, IndInv, TypeOK, FlagAfterPop
  <2>a. /\ n \in On => ncli[c] = 1 /\ a \in RemembersOn
        /\ n \notin On \cup Either => ncli[c] # 1 \/ a \in RemembersOff
    BY <1>1, <1>4, RelTable
  <2>b. /\ a \in RemembersOn => intena[c]
        /\ a \in RemembersOff => ~intena[c]
    <3>1. /\ At(c) \in RemembersOn => intena[c]
          /\ At(c) \in RemembersOff => ~intena[c]
      BY DEF IndInv, Remembered
    <3>2. QED
      BY <1>a, <3>1
  <2>2. n \in On => ifl'[c]
    BY <2>1, <2>a, <2>b
  <2>3. n \notin On \cup Either => ~ifl'[c]
    BY <1>4, <2>1, <2>a, <2>b
  <2>4. \A d \in CPUs \ {c} : ifl'[d] = ifl[d]
    BY DEF Release, IndInv, TypeOK
  <2>5. QED
    BY <1>2, <2>2, <2>3, <2>4 DEF IndInv, Flags
<1>9. Remembered'
  BY <1>1, <1>2, RelTable DEF Release, IndInv, Remembered
<1>10. QED
  BY <1>3, <1>5, <1>6, <1>7, <1>8, <1>9 DEF IndInv

-----------------------------------------------------------------------------
(* Moves with the lock state unchanged.                                    *)

(* Such a move keeps everything but proc->state, proc->chan and the ticks. *)
LEMMA PlainMove ==
  ASSUME IndInv, NEW c \in CPUs, NEW n \in Labels,
         pc' = [pc EXCEPT ![cur[c]] = n], SameLocks(At(c), n), Ordinary(At(c), n),
         TrapKept(c, n), UNCHANGED <<lockVars, cproc, cur, intr, saved, scan>>
  PROVE  /\ (LocksHeld /\ Depths /\ Flags /\ Remembered /\ Kept /\ Interrupted /\ Placed)'
         /\ \A d \in CPUs \ {c} : At(d)' = At(d)
         /\ At(c)' = n
<1>1. /\ \A d \in CPUs \ {c} : At(d)' = At(d)
      /\ At(c)' = n
  BY Others
<1>2. (LocksHeld /\ Depths /\ Flags /\ Remembered)'
  BY <1>1, LocksKept
<1>3. QED
  BY <1>1, <1>2, OrdinaryMove

(* The moves of this kind.                                                 *)
LEMMA PlainTable ==
  ASSUME NEW a, NEW n,
         <<a, n>> \in {<<"p_scan", "p_rel">>, <<"user", "s_push">>, <<"s_start", "s_test">>,
           <<"s_test", "s_rel">>, <<"s_test", "sl_push">>, <<"sl_set", "sl_sched">>,
           <<"t_tick", "w_push">>, <<"w_wake", "w_rel">>, <<"t_yield", "y_push">>,
           <<"t_yield", "t_iret">>, <<"y_set", "y_sched">>}
  PROVE  /\ n \in Labels /\ SameLocks(a, n) /\ Ordinary(a, n)
         /\ n # "y_push" /\ a \in TrapPlaces => n \in TrapPlaces
BY DEF Pushes, Xchgs, Rels, Labels, Locks, Ordinary, Depth, Outside, Twice, Holding, On, Either,
   RemembersOn, RemembersOff, CallPlaces, LoopPlaces, TrapPlaces, YieldPlaces, Handler, SameLocks

(* The scheduler reaches the end of the table.                             *)
LEMMA ScanDoneStep ==
  ASSUME IndInv, NEW c \in CPUs, ScanDone(c)
  PROVE  IndInv'
<1>1. /\ pc' = [pc EXCEPT ![cur[c]] = "p_rel"] /\ At(c) = "p_scan"
      /\ UNCHANGED <<lockVars, cproc, cur, intr, saved, state, chan, left, scan>>
  BY DEF ScanDone, Goto, procVars
<1>2. "p_rel" \in Labels /\ SameLocks("p_scan", "p_rel") /\ Ordinary("p_scan", "p_rel")
  BY PlainTable
<1>3. /\ TrapKept(c, "p_rel")
      /\ {"p_scan", "p_rel"} \cap (WakePlaces \cup SleepPlaces \cup SchedPlaces) = {}
  BY <1>1 DEF TrapKept, TrapPlaces, WakePlaces, SleepPlaces, SchedPlaces
<1>4. (LocksHeld /\ Depths /\ Flags /\ Remembered /\ Kept /\ Interrupted /\ Placed)'
  BY <1>1, <1>2, <1>3, PlainMove
<1>5. (StatesFollow /\ Waiting)'
  BY <1>1, <1>2, <1>3, StatesKept, WaitingKept
<1>6. TypeOK'
  BY <1>1, <1>2 DEF IndInv, TypeOK, lockVars
<1>7. QED
  BY <1>4, <1>5, <1>6 DEF IndInv

(* A process calls sys_sleep().                                            *)
LEMMA SyscallStep ==
  ASSUME IndInv, NEW c \in CPUs, Syscall(c)
  PROVE  IndInv'
<1>1. /\ pc' = [pc EXCEPT ![cur[c]] = "s_push"] /\ At(c) = "user"
      /\ UNCHANGED <<lockVars, cproc, cur, intr, saved, state, chan, left, scan>>
  BY DEF Syscall, Goto, procVars
<1>2. "s_push" \in Labels /\ SameLocks("user", "s_push") /\ Ordinary("user", "s_push")
  BY PlainTable
<1>3. /\ TrapKept(c, "s_push")
      /\ {"user", "s_push"} \cap (WakePlaces \cup SleepPlaces \cup SchedPlaces) = {}
  BY <1>1 DEF TrapKept, TrapPlaces, WakePlaces, SleepPlaces, SchedPlaces
<1>4. (LocksHeld /\ Depths /\ Flags /\ Remembered /\ Kept /\ Interrupted /\ Placed)'
  BY <1>1, <1>2, <1>3, PlainMove
<1>5. (StatesFollow /\ Waiting)'
  BY <1>1, <1>2, <1>3, StatesKept, WaitingKept
<1>6. TypeOK'
  BY <1>1, <1>2 DEF IndInv, TypeOK, lockVars
<1>7. QED
  BY <1>4, <1>5, <1>6 DEF IndInv

(* left is assigned and tested under tickslock.                            *)
LEMMA SleepStartStep ==
  ASSUME IndInv, NEW c \in CPUs, SleepStart(c)
  PROVE  IndInv'
<1>1. /\ pc' = [pc EXCEPT ![cur[c]] = "s_test"] /\ At(c) = "s_start"
      /\ left' = [left EXCEPT ![cur[c]] = Sleep]
      /\ UNCHANGED <<lockVars, cproc, cur, intr, saved, state, chan, scan>>
  BY DEF SleepStart, Goto
<1>2. "s_test" \in Labels /\ SameLocks("s_start", "s_test") /\ Ordinary("s_start", "s_test")
  BY PlainTable
<1>3. /\ TrapKept(c, "s_test")
      /\ {"s_start", "s_test"} \cap (WakePlaces \cup SleepPlaces \cup SchedPlaces \cup {"sl_ret"}) = {}
  BY <1>1 DEF TrapKept, TrapPlaces, WakePlaces, SleepPlaces, SchedPlaces
<1>4. /\ (LocksHeld /\ Depths /\ Flags /\ Remembered /\ Kept /\ Interrupted /\ Placed)'
      /\ \A d \in CPUs \ {c} : At(d)' = At(d)
      /\ At(c)' = "s_test"
  BY <1>1, <1>2, <1>3, PlainMove
<1>5. StatesFollow'
  BY <1>1, <1>2, <1>3, StatesKept
<1>6. TypeOK'
  <2>1. left' \in [Procs -> 0..Sleep]
    <3>1. Sleep \in 0..Sleep /\ left \in [Procs -> 0..Sleep]
      BY SchedConstants DEF IndInv, TypeOK
    <3>2. QED
      BY <1>1, <3>1
  <2>2. QED
    BY <1>1, <1>2, <2>1 DEF IndInv, TypeOK, lockVars
<1>7. Waiting'
  <2>1. WakeComing => WakeComing'
    BY <1>1, <1>4 DEF WakeComing
  <2>2. \A p \in Procs : /\ pc'[p] # "s_test" => pc'[p] = pc[p]
                         /\ left'[p] = 0 => left[p] = 0
    BY <1>1, SchedConstants DEF IndInv, TypeOK, Threads
  <2>3. QED
    BY <1>1, <2>1, <2>2 DEF IndInv, Waiting
<1>8. QED
  BY <1>4, <1>5, <1>6, <1>7 DEF IndInv

(* The loop of sys_sleep() goes on to sleep() only with ticks left.        *)
LEMMA SleepTestStep ==
  ASSUME IndInv, NEW c \in CPUs, SleepTest(c)
  PROVE  IndInv'
<1>n. PICK n \in {"s_rel", "sl_push"} :
        pc' = [pc EXCEPT ![cur[c]] = n] /\ (n = "sl_push" => left[cur[c]] # 0)
  BY DEF SleepTest, SleepEntry, Goto
<1>1. /\ pc' = [pc EXCEPT ![cur[c]] = n] /\ At(c) = "s_test"
      /\ n \in {"s_rel", "sl_push"}
      /\ n = "sl_push" => left[cur[c]] # 0
      /\ UNCHANGED <<lockVars, cproc, cur, intr, saved, state, chan, left, scan>>
  BY <1>n DEF SleepTest, procVars
<1>2. n \in Labels /\ SameLocks("s_test", n) /\ Ordinary("s_test", n)
  <2>1. "s_rel" \in Labels /\ SameLocks("s_test", "s_rel") /\ Ordinary("s_test", "s_rel")
    BY PlainTable
  <2>2. "sl_push" \in Labels /\ SameLocks("s_test", "sl_push") /\ Ordinary("s_test", "sl_push")
    BY PlainTable
  <2>3. CASE n = "s_rel"
    BY <2>1, <2>3
  <2>4. CASE n = "sl_push"
    BY <2>2, <2>4
  <2>5. QED
    BY <1>1, <2>3, <2>4
<1>3. /\ TrapKept(c, n)
      /\ {"s_test", n} \cap (SchedPlaces \cup {"sl_ret"}) = {}
  BY <1>1 DEF TrapKept, TrapPlaces, SchedPlaces
<1>4. /\ (LocksHeld /\ Depths /\ Flags /\ Remembered /\ Kept /\ Interrupted /\ Placed)'
      /\ \A d \in CPUs \ {c} : At(d)' = At(d)
      /\ At(c)' = n
  BY <1>1, <1>2, <1>3, PlainMove
<1>5. StatesFollow'
  BY <1>1, <1>2, <1>3, StatesKept
<1>6. TypeOK'
  BY <1>1, <1>2 DEF IndInv, TypeOK, lockVars
<1>7. Waiting'
  <2>1. WakeComing => WakeComing'
    BY <1>1, <1>4 DEF WakeComing
  <2>2. \A p \in Procs : pc'[p] = IF p = cur[c] THEN n ELSE pc[p]
    BY <1>1 DEF IndInv, TypeOK, Threads
  <2>3. ASSUME NEW p \in Procs
        PROVE  /\ pc'[p] \in {"sl_push", "sl_xchg", "sl_rel"} => left'[p] # 0
               /\ (state'[p] = "SLEEPING" \/ pc'[p] = "sl_set") /\ left'[p] = 0 => WakeComing'
    <3>1. left' = left /\ state' = state /\ pc'[p] = IF p = cur[c] THEN n ELSE pc[p]
      BY <1>1, <2>2, <2>3
    <3>2. CASE p = cur[c]
      <4>1. pc'[p] = n /\ n # "sl_set"
        BY <1>1, <3>1, <3>2
      <4>2. QED
        BY <1>1, <2>1, <2>3, <3>1, <3>2, <4>1 DEF IndInv, Waiting
    <3>3. CASE p # cur[c]
      BY <2>1, <2>3, <3>1, <3>3 DEF IndInv, Waiting
    <3>4. QED
      BY <3>2, <3>3
  <2>4. QED
    BY <2>3 DEF Waiting
<1>8. QED
  BY <1>4, <1>5, <1>6, <1>7 DEF IndInv

(* A tick reaches nobody between sys_sleep's test and sleep(): that code   *)
(* holds tickslock.                                                        *)
LEMMA TickStep ==
  ASSUME IndInv, NEW c \in CPUs, Tick(c)
  PROVE  IndInv'
<1>1. /\ pc' = [pc EXCEPT ![cur[c]] = "w_push"] /\ At(c) = "t_tick"
      /\ left' = [p \in Procs |-> IF left[p] = 0 THEN 0 ELSE left[p] - 1]
      /\ UNCHANGED <<lockVars, cproc, cur, intr, saved, state, chan, scan>>
  BY DEF Tick, Goto
<1>2. "w_push" \in Labels /\ SameLocks("t_tick", "w_push") /\ Ordinary("t_tick", "w_push")
  BY PlainTable
<1>3. /\ TrapKept(c, "w_push")
      /\ {"t_tick", "w_push"} \cap (SleepPlaces \cup SchedPlaces \cup {"sl_ret"}) = {}
  BY <1>1 DEF TrapKept, TrapPlaces, SleepPlaces, SchedPlaces
<1>4. /\ (LocksHeld /\ Depths /\ Flags /\ Remembered /\ Kept /\ Interrupted /\ Placed)'
      /\ \A d \in CPUs \ {c} : At(d)' = At(d)
      /\ At(c)' = "w_push"
  BY <1>1, <1>2, <1>3, PlainMove
<1>5. StatesFollow'
  BY <1>1, <1>2, <1>3, StatesKept
<1>6. TypeOK'
  <2>1. left' \in [Procs -> 0..Sleep]
    BY <1>1, SchedConstants DEF IndInv, TypeOK
  <2>2. QED
    BY <1>1, <1>2, <2>1 DEF IndInv, TypeOK, lockVars
<1>7. Waiting'
  <2>1. WakeComing'
    BY <1>4 DEF WakeComing
  <2>2. ASSUME NEW p \in Procs, pc[p] \in {"sl_push", "sl_xchg", "sl_rel"}
        PROVE  FALSE
    <3>1. PICK d \in CPUs : cur[d] = p
      BY <2>2 DEF IndInv, StatesFollow, OnCpu
    <3>2. At(d) \in Holding("tickslock") /\ At(c) \in Holding("tickslock")
      BY <2>2, <3>1, <1>1 DEF At, Holding
    <3>3. locked["tickslock"] = d /\ locked["tickslock"] = c
      BY <3>2 DEF IndInv, LocksHeld, Locks
    <3>4. QED
      BY <1>1, <2>2, <3>1, <3>3 DEF At
  <2>3. \A p \in Procs : pc'[p] # "w_push" => pc'[p] = pc[p]
    BY <1>1 DEF IndInv, TypeOK, Threads
  <2>4. QED
    BY <2>1, <2>2, <2>3 DEF Waiting
<1>8. QED
  BY <1>4, <1>5, <1>6, <1>7 DEF IndInv

(* Under ptable.lock nobody is between sl_set and the switch, so wakeup()  *)
(* finds every process that waits.                                         *)
LEMMA Wakeup1Step ==
  ASSUME IndInv, NEW c \in CPUs, Wakeup1(c)
  PROVE  IndInv'
<1>1. /\ pc' = [pc EXCEPT ![cur[c]] = "w_rel"] /\ At(c) = "w_wake"
      /\ state' = [p \in Procs |-> IF p \in Woken("ticks") THEN "RUNNABLE" ELSE state[p]]
      /\ UNCHANGED <<lockVars, cproc, cur, intr, saved, chan, left, scan>>
  BY DEF Wakeup1, Goto
<1>2. "w_rel" \in Labels /\ SameLocks("w_wake", "w_rel") /\ Ordinary("w_wake", "w_rel")
  BY PlainTable
<1>3. TrapKept(c, "w_rel")
  BY <1>1 DEF TrapKept, TrapPlaces
<1>4. /\ (LocksHeld /\ Depths /\ Flags /\ Remembered /\ Kept /\ Interrupted /\ Placed)'
  BY <1>1, <1>2, <1>3, PlainMove
<1>5. TypeOK'
  BY <1>1, <1>2 DEF IndInv, TypeOK, lockVars, States
<1>6. ASSUME NEW d \in CPUs, At(d) \in {"sl_set", "sl_sched"}
      PROVE  FALSE
  <2>1. At(d) \in Holding("ptable") /\ At(c) \in Holding("ptable")
    BY <1>1, <1>6 DEF Holding
  <2>2. locked["ptable"] = d /\ locked["ptable"] = c
    BY <2>1 DEF IndInv, LocksHeld, Locks
  <2>3. QED
    BY <1>1, <1>6, <2>2
<1>7. ASSUME NEW p \in Procs
      PROVE  /\ OnCpu(p) => state[p] # "SLEEPING"
             /\ state[p] = "SLEEPING" => chan[p] = "ticks"
  BY <1>6, <1>7 DEF IndInv, StatesFollow, OnCpu, At
<1>8. \A p \in Procs : /\ pc'[p] = IF p = cur[c] THEN "w_rel" ELSE pc[p]
                       /\ state'[p] = IF state[p] = "SLEEPING" THEN "RUNNABLE" ELSE state[p]
  BY <1>1, <1>7 DEF IndInv, TypeOK, Threads, Woken
<1>9. \A p \in Procs : pc'[p] # "sl_set"
  BY <1>6, <1>8 DEF IndInv, StatesFollow, OnCpu, At
<1>10. StatesFollow'
  <2>1. ASSUME NEW p \in Procs PROVE OnCpu(p)' = OnCpu(p)
    BY <1>1 DEF OnCpu
  <2>2. ASSUME NEW p \in Procs
        PROVE  /\ pc'[p] \in {"sl_sched", "sl_ret"} => chan'[p] = "ticks"
               /\ OnCpu(p) => state'[p] = IF pc'[p] = "sl_sched" THEN "SLEEPING"
                    ELSE IF pc'[p] = "y_sched" THEN "RUNNABLE" ELSE "RUNNING"
               /\ ~OnCpu(p) => /\ pc'[p] \in {"forkret", "sl_ret", "y_ret"}
                               /\ state'[p] # "RUNNING"
                               /\ state'[p] = "SLEEPING" => pc'[p] = "sl_ret"
    <3>1. p = cur[c] => OnCpu(p) /\ pc[p] = "w_wake"
      BY <1>1 DEF OnCpu, At
    <3>2. QED
      BY <1>1, <1>7, <1>8, <2>2, <3>1 DEF IndInv, StatesFollow
  <2>3. QED
    BY <2>1, <2>2 DEF StatesFollow
<1>11. Waiting'
  <2>1. \A p \in Procs : state'[p] # "SLEEPING"
    BY <1>8
  <2>2. \A p \in Procs : pc'[p] \in {"sl_push", "sl_xchg", "sl_rel"} => left'[p] # 0
    BY <1>1, <1>8 DEF IndInv, Waiting
  <2>3. QED
    BY <1>9, <2>1, <2>2 DEF Waiting
<1>12. QED
  BY <1>4, <1>5, <1>10, <1>11 DEF IndInv

(* sleep() marks the process while it still holds ptable.lock.             *)
LEMMA SetSleepingStep ==
  ASSUME IndInv, NEW c \in CPUs, SetSleeping(c)
  PROVE  IndInv'
<1>1. /\ pc' = [pc EXCEPT ![cur[c]] = "sl_sched"] /\ At(c) = "sl_set"
      /\ chan' = [chan EXCEPT ![cur[c]] = "ticks"]
      /\ state' = [state EXCEPT ![cur[c]] = "SLEEPING"]
      /\ UNCHANGED <<lockVars, cproc, cur, intr, saved, left, scan>>
  BY DEF SetSleeping, Goto
<1>2. "sl_sched" \in Labels /\ SameLocks("sl_set", "sl_sched") /\ Ordinary("sl_set", "sl_sched")
  BY PlainTable
<1>3. TrapKept(c, "sl_sched")
  BY <1>1 DEF TrapKept, TrapPlaces
<1>4. /\ (LocksHeld /\ Depths /\ Flags /\ Remembered /\ Kept /\ Interrupted /\ Placed)'
      /\ \A d \in CPUs \ {c} : At(d)' = At(d)
  BY <1>1, <1>2, <1>3, PlainMove
<1>5. TypeOK'
  BY <1>1, <1>2 DEF IndInv, TypeOK, lockVars, States
<1>6. cur[c] \in Procs
  BY <1>1 DEF IndInv, Placed, At, LoopPlaces, TrapPlaces
<1>7. \A p \in Procs : /\ pc'[p] = IF p = cur[c] THEN "sl_sched" ELSE pc[p]
                       /\ state'[p] = IF p = cur[c] THEN "SLEEPING" ELSE state[p]
                       /\ chan'[p] = IF p = cur[c] THEN "ticks" ELSE chan[p]
  BY <1>1 DEF IndInv, TypeOK, Threads
<1>8. StatesFollow'
  <2>1. ASSUME NEW p \in Procs PROVE OnCpu(p)' = OnCpu(p)
    BY <1>1 DEF OnCpu
  <2>2. OnCpu(cur[c])
    BY DEF OnCpu
  <2>3. QED
    BY <1>7, <2>1, <2>2 DEF IndInv, StatesFollow
<1>9. Waiting'
  <2>1. WakeComing => WakeComing'
    BY <1>1, <1>4 DEF WakeComing
  <2>2. pc[cur[c]] = "sl_set" /\ left' = left
    BY <1>1 DEF At
  <2>3. QED
    BY <1>6, <1>7, <2>1, <2>2 DEF IndInv, Waiting
<1>10. QED
  BY <1>4, <1>5, <1>8, <1>9 DEF IndInv

(* Only a CPU that runs a process goes on to yield().                      *)
LEMMA YieldCheckStep ==
  ASSUME IndInv, NEW c \in CPUs, YieldCheck(c)
  PROVE  IndInv'
<1>n. PICK n : n = IF cproc[c] # None /\ state[cproc[c]] = "RUNNING" THEN "y_push" ELSE "t_iret"
  OBVIOUS
<1>1. /\ pc' = [pc EXCEPT ![cur[c]] = n] /\ At(c) = "t_yield"
      /\ n \in {"y_push", "t_iret"}
      /\ n = "y_push" => cproc[c] # None
      /\ UNCHANGED <<lockVars, cproc, cur, intr, saved, state, chan, left, scan>>
  BY <1>n DEF YieldCheck, YieldEntry, Goto, procVars
<1>2. n \in Labels /\ SameLocks("t_yield", n) /\ Ordinary("t_yield", n)
  <2>1. "y_push" \in Labels /\ SameLocks("t_yield", "y_push") /\ Ordinary("t_yield", "y_push")
    BY PlainTable
  <2>2. "t_iret" \in Labels /\ SameLocks("t_yield", "t_iret") /\ Ordinary("t_yield", "t_iret")
    BY PlainTable
  <2>3. QED
    BY <1>1, <2>1, <2>2
<1>3. {"t_yield", n} \cap (WakePlaces \cup SleepPlaces \cup SchedPlaces \cup {"sl_ret"}) = {}
  BY <1>1 DEF WakePlaces, SleepPlaces, SchedPlaces
<1>4. TrapKept(c, n)
  <2>1. cur[c] = c => cproc[c] = None
    BY <1>1 DEF IndInv, Placed, At
  <2>2. QED
    BY <1>1, <2>1 DEF TrapKept, TrapPlaces
<1>5. (LocksHeld /\ Depths /\ Flags /\ Remembered /\ Kept /\ Interrupted /\ Placed)'
  BY <1>1, <1>2, <1>4, PlainMove
<1>6. (StatesFollow /\ Waiting)'
  BY <1>1, <1>2, <1>3, StatesKept, WaitingKept
<1>7. TypeOK'
  BY <1>1, <1>2 DEF IndInv, TypeOK, lockVars
<1>8. QED
  BY <1>5, <1>6, <1>7 DEF IndInv

(* yield() marks the process of its own CPU.                               *)
LEMMA YieldSetStep ==
  ASSUME IndInv, NEW c \in CPUs, YieldSet(c)
  PROVE  IndInv'
<1>1. /\ pc' = [pc EXCEPT ![cur[c]] = "y_sched"] /\ At(c) = "y_set"
      /\ state' = [state EXCEPT ![cproc[c]] = "RUNNABLE"]
      /\ UNCHANGED <<lockVars, cproc, cur, intr, saved, chan, left, scan>>
  BY DEF YieldSet, Goto
<1>2. "y_sched" \in Labels /\ SameLocks("y_set", "y_sched") /\ Ordinary("y_set", "y_sched")
  BY PlainTable
<1>3. TrapKept(c, "y_sched")
  BY <1>1 DEF TrapKept, TrapPlaces
<1>4. /\ (LocksHeld /\ Depths /\ Flags /\ Remembered /\ Kept /\ Interrupted /\ Placed)'
      /\ \A d \in CPUs \ {c} : At(d)' = At(d)
  BY <1>1, <1>2, <1>3, PlainMove
<1>5. TypeOK'
  BY <1>1, <1>2 DEF IndInv, TypeOK, lockVars, States
<1>6. cur[c] \in Procs
  BY <1>1 DEF IndInv, Placed, At, LoopPlaces, TrapPlaces
<1>7. cproc[c] = cur[c]
  BY <1>6, SchedConstants DEF IndInv, Placed
<1>8. \A p \in Procs : /\ pc'[p] = IF p = cur[c] THEN "y_sched" ELSE pc[p]
                       /\ state'[p] = IF p = cur[c] THEN "RUNNABLE" ELSE state[p]
  BY <1>1, <1>7 DEF IndInv, TypeOK, Threads
<1>9. StatesFollow'
  <2>1. ASSUME NEW p \in Procs PROVE OnCpu(p)' = OnCpu(p)
    BY <1>1 DEF OnCpu
  <2>2. OnCpu(cur[c]) /\ chan' = chan
    BY <1>1 DEF OnCpu
  <2>3. QED
    BY <1>8, <2>1, <2>2 DEF IndInv, StatesFollow
<1>10. Waiting'
  <2>1. WakeComing => WakeComing'
    BY <1>1, <1>4 DEF WakeComing
  <2>2. left' = left
    BY <1>1
  <2>3. QED
    BY <1>8, <2>1, <2>2 DEF IndInv, Waiting
<1>11. QED
  BY <1>4, <1>5, <1>9, <1>10 DEF IndInv

(* The interrupt flag follows the thread into and out of user mode, the    *)
(* scheduler's loop and the handler.                                       *)
LEMMA SchedulerStiStep ==
  ASSUME IndInv, NEW c \in CPUs, SchedulerSti(c)
  PROVE  IndInv'
<1>1. /\ pc' = [pc EXCEPT ![cur[c]] = "p_push"] /\ At(c) = "sti"
      /\ ifl' = [ifl EXCEPT ![c] = TRUE] /\ scan' = [scan EXCEPT ![c] = 1]
      /\ UNCHANGED <<locked, ncli, intena, cproc, cur, intr, saved, state, chan, left>>
  BY DEF SchedulerSti, Goto, procVars
<1>2. /\ "p_push" \in Labels /\ Ordinary("sti", "p_push") /\ TrapKept(c, "p_push")
      /\ {"sti", "p_push"} \cap (WakePlaces \cup SleepPlaces \cup SchedPlaces \cup {"sl_ret"}) = {}
  BY <1>1 DEF Labels, Pushes, Ordinary, CallPlaces, LoopPlaces, Handler, TrapPlaces, YieldPlaces,
     TrapKept, WakePlaces, SleepPlaces, SchedPlaces
<1>3. cur[c] = c
  BY <1>1 DEF IndInv, Placed, At, CallPlaces, Handler, TrapPlaces, YieldPlaces
<1>4. /\ \A d \in CPUs \ {c} : At(d)' = At(d)
      /\ At(c)' = "p_push"
  BY <1>1, Others
<1>5. (Kept /\ Interrupted /\ Placed)'
  <2>1. \A d \in CPUs \ {cur[c]} : scan'[d] = scan[d]
    BY <1>1, <1>3 DEF IndInv, TypeOK
  <2>2. QED
    BY <1>1, <1>2, <2>1, OrdinaryMove
<1>6. (StatesFollow /\ Waiting)'
  BY <1>1, <1>2, StatesKept, WaitingKept
<1>7. TypeOK'
  <2>1. scan' \in [CPUs -> 1..(NPROC + 1)]
    BY <1>1, SchedConstants DEF IndInv, TypeOK
  <2>2. QED
    BY <1>1, <1>2, <2>1 DEF IndInv, TypeOK
<1>8. LocksHeld'
  <2>1. \A l \in Locks : "sti" \notin Holding(l) /\ "p_push" \notin Holding(l)
    BY DEF Holding
  <2>2. QED
    BY <1>1, <1>4, <2>1 DEF IndInv, LocksHeld
<1>9. Depths'
  BY <1>1, <1>4 DEF IndInv, Depths, Depth, Outside
<1>10. Flags'
  <2>1. ifl'[c] /\ \A d \in CPUs \ {c} : ifl'[d] = ifl[d]
    BY <1>1 DEF IndInv, TypeOK
  <2>2. "p_push" \in On
    BY DEF On
  <2>3. QED
    BY <1>4, <2>1, <2>2 DEF IndInv, Flags
<1>11. Remembered'
  <2>1. "p_push" \notin RemembersOn /\ "p_push" \notin RemembersOff
    BY DEF RemembersOn, RemembersOff
  <2>2. QED
    BY <1>1, <1>4, <2>1 DEF IndInv, Remembered
<1>12. QED
  BY <1>5, <1>6, <1>7, <1>8, <1>9, <1>10, <1>11 DEF IndInv

(* The first return of a process to user mode.                             *)
LEMMA TrapretStep ==
  ASSUME IndInv, NEW c \in CPUs, Trapret(c)
  PROVE  IndInv'
<1>1. /\ pc' = [pc EXCEPT ![cur[c]] = "user"] /\ At(c) = "trapret"
      /\ ifl' = [ifl EXCEPT ![c] = TRUE]
      /\ UNCHANGED <<locked, ncli, intena, cproc, cur, intr, saved, state, chan, left, scan>>
  BY DEF Trapret, Goto, procVars
<1>2. /\ "user" \in Labels /\ Ordinary("trapret", "user") /\ TrapKept(c, "user")
      /\ {"trapret", "user"} \cap (WakePlaces \cup SleepPlaces \cup SchedPlaces \cup {"sl_ret"}) = {}
  BY <1>1 DEF Labels, Ordinary, CallPlaces, LoopPlaces, Handler, TrapPlaces, YieldPlaces,
     TrapKept, WakePlaces, SleepPlaces, SchedPlaces
<1>3. /\ \A d \in CPUs \ {c} : At(d)' = At(d)
      /\ At(c)' = "user"
  BY <1>1, Others
<1>4. (Kept /\ Interrupted /\ Placed)'
  BY <1>1, <1>2, OrdinaryMove
<1>5. (StatesFollow /\ Waiting)'
  BY <1>1, <1>2, StatesKept, WaitingKept
<1>6. TypeOK'
  BY <1>1, <1>2 DEF IndInv, TypeOK
<1>7. LocksHeld'
  <2>1. \A l \in Locks : "trapret" \notin Holding(l) /\ "user" \notin Holding(l)
    BY DEF Holding
  <2>2. QED
    BY <1>1, <1>3, <2>1 DEF IndInv, LocksHeld
<1>8. Depths'
  BY <1>1, <1>3 DEF IndInv, Depths, Depth, Outside
<1>9. Flags'
  <2>1. ifl'[c] /\ \A d \in CPUs \ {c} : ifl'[d] = ifl[d]
    BY <1>1 DEF IndInv, TypeOK
  <2>2. "user" \in On
    BY DEF On
  <2>3. QED
    BY <1>3, <2>1, <2>2 DEF IndInv, Flags
<1>10. Remembered'
  <2>1. "user" \notin RemembersOn /\ "user" \notin RemembersOff
    BY DEF RemembersOn, RemembersOff
  <2>2. QED
    BY <1>1, <1>3, <2>1 DEF IndInv, Remembered
<1>11. QED
  BY <1>4, <1>5, <1>6, <1>7, <1>8, <1>9, <1>10 DEF IndInv

(* An interrupt is taken only where no lock is held.                       *)
LEMMA TimerInterruptStep ==
  ASSUME IndInv, NEW c \in CPUs, TimerInterrupt(c)
  PROVE  IndInv'
<1>a. PICK a : a = At(c)
  OBVIOUS
<1>n. PICK n : n = IF c = BootCpu THEN "t_push" ELSE "t_yield"
  OBVIOUS
<1>1. /\ pc' = [pc EXCEPT ![cur[c]] = n] /\ At(c) = a /\ n \in {"t_push", "t_yield"}
      /\ ifl[c] /\ ifl' = [ifl EXCEPT ![c] = FALSE]
      /\ intr' = [intr EXCEPT ![cur[c]] = a]
      /\ UNCHANGED <<locked, ncli, intena, cproc, cur, saved, state, chan, left, scan>>
  BY <1>a, <1>n DEF TimerInterrupt, Goto, procVars
<1>2. a \in On \cup Either
  BY <1>1 DEF IndInv, Flags
<1>3. /\ n \in Labels /\ a \in Labels /\ a \notin Handler /\ n \in TrapPlaces /\ n \in Handler
      /\ a # "p_back" /\ n \notin {"sl_ret", "y_ret", "p_back"}
      /\ {a, n} \cap (WakePlaces \cup SleepPlaces \cup SchedPlaces \cup {"sl_ret"}) = {}
      /\ \A l \in Locks : a \notin Holding(l) /\ n \notin Holding(l)
      /\ Depth(a) = 0 /\ Depth(n) = 0 /\ n \notin On \cup Either
      /\ n \notin RemembersOn /\ n \notin RemembersOff
  BY <1>1, <1>2 DEF On, Either, Labels, Pushes, Xchgs, Rels, Handler, TrapPlaces, YieldPlaces, WakePlaces,
     SleepPlaces, SchedPlaces, Holding, Depth, Outside, RemembersOn, RemembersOff
<1>4. /\ \A d \in CPUs \ {c} : At(d)' = At(d)
      /\ At(c)' = n
  BY <1>1, Others
<1>5. /\ pc \in [Threads -> Labels] /\ cur[c] \in Threads /\ Threads = Procs \cup CPUs
      /\ CPUs \cap Procs = {} /\ cur[c] \in Procs \cup {c}
      /\ \A t \in Threads : /\ pc'[t] = IF t = cur[c] THEN n ELSE pc[t]
                            /\ intr'[t] = IF t = cur[c] THEN a ELSE intr[t]
      /\ pc[cur[c]] = a
  BY <1>1, SchedConstants DEF IndInv, TypeOK, Threads, Placed, At
<1>6. Kept'
  BY <1>1, <1>3, <1>5 DEF IndInv, Kept
<1>7. Interrupted'
  <2>1. a # None
    BY <1>3, SchedNoLabel
  <2>2. QED
    BY <1>2, <1>3, <1>5, <2>1 DEF IndInv, Interrupted
<1>8. Placed'
  <2>1. \A p \in Procs : /\ pc'[p] \in CallPlaces \cup Handler
                         /\ intr'[p] \in CallPlaces \cup {None}
    BY <1>3, <1>5 DEF IndInv, Placed
  <2>2. ASSUME NEW d \in CPUs
        PROVE  /\ cur'[d] \in Procs \cup {d}
               /\ pc'[d] \in LoopPlaces \cup TrapPlaces
               /\ intr'[d] \in LoopPlaces \cup {None}
               /\ pc'[d] = "p_back" <=> pc[d] = "p_back"
    BY <1>1, <1>3, <1>5, <2>2 DEF IndInv, Placed, Handler
  <2>3. QED
    BY <1>1, <2>1, <2>2 DEF IndInv, Placed
<1>9. (StatesFollow /\ Waiting)'
  BY <1>1, <1>3, StatesKept, WaitingKept
<1>10. TypeOK'
  BY <1>1, <1>3 DEF IndInv, TypeOK
<1>11. LocksHeld'
  BY <1>1, <1>3, <1>4 DEF IndInv, LocksHeld
<1>12. Depths'
  BY <1>1, <1>3, <1>4 DEF IndInv, Depths
<1>13. Flags'
  <2>1. ~ifl'[c] /\ \A d \in CPUs \ {c} : ifl'[d] = ifl[d]
    BY <1>1 DEF IndInv, TypeOK
  <2>2. QED
    BY <1>3, <1>4, <2>1 DEF IndInv, Flags
<1>14. Remembered'
  BY <1>1, <1>3, <1>4 DEF IndInv, Remembered
<1>15. QED
  BY <1>6, <1>7, <1>8, <1>9, <1>10, <1>11, <1>12, <1>13, <1>14 DEF IndInv

(* The return from the handler.                                            *)
LEMMA IretStep ==
  ASSUME IndInv, NEW c \in CPUs, Iret(c)
  PROVE  IndInv'
<1>n. PICK n : n = intr[cur[c]]
  OBVIOUS
<1>1. /\ pc' = [pc EXCEPT ![cur[c]] = n] /\ At(c) = "t_iret"
      /\ ifl' = [ifl EXCEPT ![c] = TRUE]
      /\ intr' = [intr EXCEPT ![cur[c]] = None]
      /\ UNCHANGED <<locked, ncli, intena, cproc, cur, saved, state, chan, left, scan>>
  BY <1>n DEF Iret, Goto, procVars
<1>2. /\ pc \in [Threads -> Labels] /\ cur[c] \in Threads /\ Threads = Procs \cup CPUs
      /\ CPUs \cap Procs = {} /\ cur[c] \in Procs \cup {c}
      /\ \A t \in Threads : /\ pc'[t] = IF t = cur[c] THEN n ELSE pc[t]
                            /\ intr'[t] = IF t = cur[c] THEN None ELSE intr[t]
      /\ pc[cur[c]] = "t_iret"
  BY <1>1, SchedConstants DEF IndInv, TypeOK, Threads, Placed, At
<1>3. n \in On \cup Either /\ n # None
  BY <1>n, <1>2 DEF IndInv, Interrupted, Handler, TrapPlaces
<1>4. /\ n \in Labels /\ n \notin Handler /\ n \notin {"sl_ret", "y_ret", "p_back"}
      /\ {"t_iret", n} \cap (WakePlaces \cup SleepPlaces \cup SchedPlaces \cup {"sl_ret"}) = {}
      /\ \A l \in Locks : "t_iret" \notin Holding(l) /\ n \notin Holding(l)
      /\ Depth("t_iret") = 0 /\ Depth(n) = 0
      /\ n \notin RemembersOn /\ n \notin RemembersOff
  BY <1>3 DEF On, Either, Labels, Pushes, Xchgs, Rels, Handler, TrapPlaces, YieldPlaces, WakePlaces,
     SleepPlaces, SchedPlaces, Holding, Depth, Outside, RemembersOn, RemembersOff
<1>5. /\ \A d \in CPUs \ {c} : At(d)' = At(d)
      /\ At(c)' = n
  BY <1>1, Others
<1>6. Kept'
  BY <1>1, <1>2, <1>4 DEF IndInv, Kept
<1>7. Interrupted'
  BY <1>2, <1>4 DEF IndInv, Interrupted
<1>8. Placed'
  <2>1. \A p \in Procs : /\ pc'[p] \in CallPlaces \cup Handler
                         /\ intr'[p] \in CallPlaces \cup {None}
    BY <1>n, <1>2, <1>3 DEF IndInv, Placed
  <2>2. ASSUME NEW d \in CPUs
        PROVE  /\ cur'[d] \in Procs \cup {d}
               /\ pc'[d] \in LoopPlaces \cup TrapPlaces
               /\ intr'[d] \in LoopPlaces \cup {None}
               /\ pc'[d] = "p_back" <=> pc[d] = "p_back"
    BY <1>n, <1>1, <1>2, <1>3, <1>4, <2>2 DEF IndInv, Placed
  <2>3. QED
    BY <1>1, <2>1, <2>2 DEF IndInv, Placed
<1>9. (StatesFollow /\ Waiting)'
  BY <1>1, <1>4, StatesKept, WaitingKept
<1>10. TypeOK'
  BY <1>1, <1>4 DEF IndInv, TypeOK
<1>11. LocksHeld'
  BY <1>1, <1>4, <1>5 DEF IndInv, LocksHeld
<1>12. Depths'
  BY <1>1, <1>4, <1>5 DEF IndInv, Depths
<1>13. Flags'
  <2>1. ifl'[c] /\ \A d \in CPUs \ {c} : ifl'[d] = ifl[d]
    BY <1>1 DEF IndInv, TypeOK
  <2>2. QED
    BY <1>3, <1>5, <2>1 DEF IndInv, Flags
<1>14. Remembered'
  BY <1>1, <1>4, <1>5 DEF IndInv, Remembered
<1>15. QED
  BY <1>6, <1>7, <1>8, <1>9, <1>10, <1>11, <1>12, <1>13, <1>14 DEF IndInv
-----------------------------------------------------------------------------
(* Context switches.                                                       *)

(* sched() returns, perhaps on another CPU: intena is the thread's again.  *)
LEMMA ResumeStep ==
  ASSUME IndInv, NEW c \in CPUs, Resume(c)
  PROVE  IndInv'
<1>a. PICK a : a = At(c)
  OBVIOUS
<1>n. PICK n : n = IF a = "sl_ret" THEN "sl_relp" ELSE "y_rel"
  OBVIOUS
<1>1. /\ pc' = [pc EXCEPT ![cur[c]] = n] /\ At(c) = a /\ a \in {"sl_ret", "y_ret"}
      /\ intena' = [intena EXCEPT ![c] = saved[cur[c]]]
      /\ UNCHANGED <<locked, ncli, ifl, cproc, cur, intr, saved, state, left, scan>>
      /\ chan' = chan \/ chan' = [chan EXCEPT ![cur[c]] = None]
  BY <1>a, <1>n DEF Resume, Goto, RestoredIntena
<1>2. /\ n \in Labels /\ Ordinary(a, n) /\ TrapKept(c, n)
      /\ {a, n} \cap (WakePlaces \cup SleepPlaces \cup SchedPlaces) = {} /\ n # "sl_ret"
      /\ \A l \in Locks : a \in Holding(l) <=> n \in Holding(l)
      /\ Depth(a) = Depth(n) /\ a \notin On \cup Either /\ n \notin On \cup Either
      /\ n \in RemembersOn => a = "sl_ret"
      /\ n \in RemembersOff => a = "y_ret"
  BY <1>1, <1>n DEF Labels, Rels, Ordinary, CallPlaces, LoopPlaces, Handler, TrapPlaces, YieldPlaces,
     TrapKept, WakePlaces, SleepPlaces, SchedPlaces, Holding, Depth, Outside, Twice, On, Either,
     RemembersOn, RemembersOff
<1>3. cur[c] \in Procs /\ pc[cur[c]] = a
  BY <1>1 DEF IndInv, Placed, At, LoopPlaces, TrapPlaces
<1>4. /\ \A d \in CPUs \ {c} : At(d)' = At(d)
      /\ At(c)' = n
  BY <1>1, Others
<1>5. (Kept /\ Interrupted /\ Placed)'
  BY <1>1, <1>2, OrdinaryMove
<1>6. StatesFollow'
  <2>1. \A p \in Procs \ {cur[c]} : chan'[p] = chan[p]
    BY <1>1 DEF IndInv, TypeOK
  <2>2. QED
    BY <1>1, <1>2, <2>1, StatesKept
<1>7. Waiting'
  BY <1>1, <1>2, WaitingKept
<1>8. TypeOK'
  <2>1. intena' \in [CPUs -> BOOLEAN]
    BY <1>1, <1>3 DEF IndInv, TypeOK
  <2>2. chan' \in [Procs -> {"ticks", None}]
    BY <1>1 DEF IndInv, TypeOK
  <2>3. QED
    BY <1>1, <1>2, <2>1, <2>2 DEF IndInv, TypeOK
<1>9. LocksHeld'
  BY <1>1, <1>2, <1>4 DEF IndInv, LocksHeld
<1>10. Depths'
  BY <1>1, <1>2, <1>4 DEF IndInv, Depths
<1>11. Flags'
  BY <1>1, <1>2, <1>4 DEF IndInv, Flags
<1>12. Remembered'
  <2>1. intena'[c] = saved[cur[c]] /\ \A d \in CPUs \ {c} : intena'[d] = intena[d]
    BY <1>1 DEF IndInv, TypeOK
  <2>2. /\ n \in RemembersOn => saved[cur[c]]
        /\ n \in RemembersOff => ~saved[cur[c]]
    BY <1>2, <1>3 DEF IndInv, Kept
  <2>3. QED
    BY <1>4, <2>1, <2>2 DEF IndInv, Remembered
<1>13. QED
  BY <1>5, <1>6, <1>7, <1>8, <1>9, <1>10, <1>11, <1>12 DEF IndInv

(* The thread that gives up a CPU is on none, and its state says so.       *)
LEMMA SchedStep ==
  ASSUME IndInv, NEW c \in CPUs, NEW from, NEW to, Sched(c, from, to),
         <<from, to>> \in {<<"sl_sched", "sl_ret">>, <<"y_sched", "y_ret">>}
  PROVE  IndInv'
<1>1. /\ pc' = [pc EXCEPT ![cur[c]] = to] /\ At(c) = from
      /\ saved' = [saved EXCEPT ![cur[c]] = intena[c]]
      /\ cur' = [cur EXCEPT ![c] = c]
      /\ UNCHANGED <<lockVars, cproc, intr, state, chan, left, scan>>
      /\ \/ from = "sl_sched" /\ to = "sl_ret"
         \/ from = "y_sched" /\ to = "y_ret"
  BY DEF Sched, Goto, procVars
<1>2. PICK p \in Procs : p = cur[c] /\ pc[p] = from
  BY <1>1 DEF IndInv, Placed, At, LoopPlaces, TrapPlaces
<1>3. /\ p # c /\ Threads = Procs \cup CPUs /\ CPUs \cap Procs = {} /\ None \notin Procs
      /\ \A d \in CPUs \ {c} : cur[d] # p
  BY <1>2, OwnThread, SchedConstants DEF Threads
<1>4. /\ \A t \in Threads : pc'[t] = IF t = p THEN to ELSE pc[t]
      /\ \A d \in CPUs : cur'[d] = IF d = c THEN c ELSE cur[d]
      /\ \A q \in Procs : saved'[q] = IF q = p THEN intena[c] ELSE saved[q]
      /\ pc[c] = "p_back" /\ cproc[c] = p
  BY <1>1, <1>2, <1>3 DEF IndInv, TypeOK, Placed
<1>5. At(c)' = "p_back"
  BY <1>3, <1>4 DEF At
<1>6. \A d \in CPUs \ {c} : At(d)' = At(d)
  BY <1>3, <1>4 DEF At, IndInv, TypeOK
<1>7. (LocksHeld /\ Depths /\ Flags /\ Remembered)'
  <2>1. SameLocks(from, "p_back")
    BY <1>1 DEF SameLocks, Holding, Depth, Outside, Twice, On, Either, RemembersOn, RemembersOff
  <2>2. QED
    BY <1>1, <1>5, <1>6, <2>1, LocksKept
<1>8. Kept'
  <2>1. /\ from = "sl_sched" => intena[c]
        /\ from = "y_sched" => ~intena[c]
    BY <1>1 DEF IndInv, Remembered, RemembersOn, RemembersOff
  <2>2. QED
    BY <1>1, <1>3, <1>4, <2>1 DEF IndInv, Kept
<1>9. Interrupted'
  <2>1. from \in Handler <=> to \in Handler
    BY <1>1 DEF Handler, TrapPlaces, YieldPlaces
  <2>2. QED
    BY <1>1, <1>2, <1>3, <1>4, <2>1 DEF IndInv, Interrupted
<1>10. Placed'
  <2>1. to \in CallPlaces \cup Handler
    BY <1>1 DEF CallPlaces, Handler, YieldPlaces
  <2>2. QED
    BY <1>1, <1>3, <1>4, <2>1 DEF IndInv, Placed
<1>11. StatesFollow'
  <2>1. ~OnCpu(p)' /\ OnCpu(p)
    BY <1>2, <1>3, <1>4 DEF OnCpu
  <2>2. ASSUME NEW q \in Procs, q # p PROVE OnCpu(q)' <=> OnCpu(q)
    BY <1>2, <1>3, <1>4, <2>2 DEF OnCpu
  <2>3. /\ chan'[p] = chan[p] /\ state'[p] = state[p] /\ pc'[p] = to
        /\ \A q \in Procs \ {p} : chan'[q] = chan[q] /\ state'[q] = state[q] /\ pc'[q] = pc[q]
    BY <1>1, <1>3, <1>4
  <2>4. ASSUME NEW q \in Procs
        PROVE  /\ pc'[q] \in {"sl_sched", "sl_ret"} => chan'[q] = "ticks"
               /\ OnCpu(q)' => state'[q] = IF pc'[q] = "sl_sched" THEN "SLEEPING"
                    ELSE IF pc'[q] = "y_sched" THEN "RUNNABLE" ELSE "RUNNING"
               /\ ~OnCpu(q)' => /\ pc'[q] \in {"forkret", "sl_ret", "y_ret"}
                                /\ state'[q] # "RUNNING"
                                /\ state'[q] = "SLEEPING" => pc'[q] = "sl_ret"
    <3>1. CASE q = p
      BY <1>1, <1>2, <2>1, <2>3, <3>1 DEF IndInv, StatesFollow
    <3>2. CASE q # p
      BY <2>2, <2>3, <2>4, <3>2 DEF IndInv, StatesFollow
    <3>3. QED
      BY <3>1, <3>2
  <2>5. QED
    BY <2>4 DEF StatesFollow
<1>12. Waiting'
  <2>1. WakeComing => WakeComing'
    BY <1>1, <1>6 DEF WakeComing
  <2>2. \A q \in Procs : pc'[q] = pc[q] \/ pc'[q] \in {"sl_ret", "y_ret"}
    BY <1>1, <1>3, <1>4
  <2>3. QED
    BY <1>1, <2>1, <2>2 DEF IndInv, Waiting
<1>13. TypeOK'
  <2>1. to \in Labels /\ c \in Threads
    BY <1>1 DEF Labels, Threads
  <2>2. saved' \in [Procs -> BOOLEAN]
    BY <1>1 DEF IndInv, TypeOK
  <2>3. QED
    BY <1>1, <2>1, <2>2 DEF IndInv, TypeOK, lockVars
<1>14. QED
  BY <1>7, <1>8, <1>9, <1>10, <1>11, <1>12, <1>13 DEF IndInv

(* A RUNNABLE process seen under ptable.lock is on no CPU and no cpu->proc *)
(* names it.                                                               *)
LEMMA NobodyRuns ==
  ASSUME IndInv, NEW c \in CPUs, At(c) = "p_scan", NEW p \in Procs, state[p] = "RUNNABLE"
  PROVE  /\ cur[c] = c /\ ~OnCpu(p) /\ \A d \in CPUs : cproc[d] # p
         /\ pc[p] \in {"forkret", "sl_ret", "y_ret"}
<1>1. cur[c] = c
  BY DEF IndInv, Placed, At, CallPlaces, Handler, TrapPlaces, YieldPlaces
<1>2. ASSUME NEW d \in CPUs, At(d) \in {"y_sched", "p_back"} PROVE FALSE
  <2>1. At(d) \in Holding("ptable") /\ At(c) \in Holding("ptable")
    BY <1>2 DEF Holding
  <2>2. locked["ptable"] = d /\ locked["ptable"] = c
    BY <2>1 DEF IndInv, LocksHeld, Locks
  <2>3. QED
    BY <1>2, <2>2
<1>3. ~OnCpu(p)
  <2>1. SUFFICES ASSUME NEW d \in CPUs, cur[d] = p PROVE FALSE
    BY DEF OnCpu
  <2>2. pc[p] = "y_sched"
    BY <2>1 DEF IndInv, StatesFollow, OnCpu
  <2>3. QED
    BY <1>2, <2>1, <2>2 DEF At
<1>4. \A d \in CPUs : cproc[d] # p
  <2>1. SUFFICES ASSUME NEW d \in CPUs, cproc[d] = p PROVE FALSE
    OBVIOUS
  <2>2. pc[d] = "p_back"
    BY <2>1, SchedConstants DEF IndInv, Placed, Threads
  <2>3. cur[d] = d
    BY <1>3, <2>1 DEF IndInv, Placed, OnCpu
  <2>4. QED
    BY <1>2, <2>2, <2>3 DEF At
<1>5. QED
  BY <1>1, <1>3, <1>4 DEF IndInv, StatesFollow

(* The scheduler switches to a process that no CPU executes.               *)
LEMMA RunProcessStep ==
  ASSUME IndInv, NEW c \in CPUs, RunProcess(c)
  PROVE  IndInv'
<1>1. PICK p \in Procs : /\ state[p] = "RUNNABLE"
                         /\ cproc' = [cproc EXCEPT ![c] = p]
                         /\ state' = [state EXCEPT ![p] = "RUNNING"]
                         /\ cur' = [cur EXCEPT ![c] = p]
                         /\ scan' = [scan EXCEPT ![c] = p]
  BY DEF RunProcess, Runnable
<1>2. /\ pc' = [pc EXCEPT ![cur[c]] = "p_back"] /\ At(c) = "p_scan"
      /\ UNCHANGED <<lockVars, intr, saved, chan, left>>
  BY DEF RunProcess, Goto
<1>3. /\ cur[c] = c /\ ~OnCpu(p) /\ \A d \in CPUs : cproc[d] # p
      /\ pc[p] \in {"forkret", "sl_ret", "y_ret"} /\ pc[c] = "p_scan"
  BY <1>1, <1>2, NobodyRuns DEF At
<1>4. /\ p # c /\ Threads = Procs \cup CPUs /\ CPUs \cap Procs = {} /\ None \notin Procs
      /\ \A d \in CPUs \ {c} : cur[d] # c
  BY <1>3, OwnThread, SchedConstants DEF Threads
<1>5. /\ \A t \in Threads : pc'[t] = IF t = c THEN "p_back" ELSE pc[t]
      /\ \A d \in CPUs : /\ cur'[d] = IF d = c THEN p ELSE cur[d]
                         /\ cproc'[d] = IF d = c THEN p ELSE cproc[d]
                         /\ scan'[d] = IF d = c THEN p ELSE scan[d]
      /\ \A q \in Procs : /\ state'[q] = IF q = p THEN "RUNNING" ELSE state[q]
                          /\ pc'[q] = pc[q]
  BY <1>1, <1>2, <1>3, <1>4 DEF IndInv, TypeOK
<1>6. /\ \A d \in CPUs \ {c} : At(d)' = At(d)
  BY <1>4, <1>5 DEF At, IndInv, TypeOK
<1>7. (LocksHeld /\ Depths /\ Flags /\ Remembered)'
  <2>1. PICK n : n = pc[p]
    OBVIOUS
  <2>2. At(c)' = n
    BY <1>5, <2>1 DEF At
  <2>3. SameLocks("p_scan", n)
    BY <1>3, <2>1 DEF SameLocks, Holding, Depth, Outside, Twice, On, Either, RemembersOn, RemembersOff
  <2>4. QED
    BY <1>2, <1>6, <2>2, <2>3, LocksKept
<1>8. Kept'
  BY <1>2, <1>5 DEF IndInv, Kept
<1>9. Interrupted'
  <2>1. "p_scan" \notin Handler /\ "p_back" \notin Handler
    BY DEF Handler, TrapPlaces, YieldPlaces
  <2>2. QED
    BY <1>2, <1>3, <1>5, <2>1 DEF IndInv, Interrupted
<1>10. Placed'
  <2>1. "p_back" \in LoopPlaces
    BY DEF LoopPlaces
  <2>2. \A q \in Procs : /\ pc'[q] \in CallPlaces \cup Handler
                         /\ intr'[q] \in CallPlaces \cup {None}
    BY <1>2, <1>5 DEF IndInv, Placed
  <2>3. ASSUME NEW d \in CPUs
        PROVE  /\ cur'[d] \in Procs \cup {d}
               /\ pc'[d] \in LoopPlaces \cup TrapPlaces
               /\ intr'[d] \in LoopPlaces \cup {None}
               /\ pc'[d] = "p_back" => scan'[d] \in Procs
               /\ cur'[d] # d => pc'[d] = "p_back" /\ cproc'[d] = cur'[d]
               /\ pc'[d] # "p_back" => cproc'[d] = None
    BY <1>2, <1>4, <1>5, <2>1, <2>3 DEF IndInv, Placed
  <2>4. \A d, e \in CPUs : d # e /\ cproc'[d] # None => cproc'[d] # cproc'[e]
    BY <1>3, <1>5 DEF IndInv, Placed
  <2>5. QED
    BY <2>2, <2>3, <2>4 DEF Placed
<1>11. StatesFollow'
  <2>1. OnCpu(p)'
    BY <1>5 DEF OnCpu
  <2>2. ASSUME NEW q \in Procs, q # p PROVE OnCpu(q)' <=> OnCpu(q)
    BY <1>3, <1>4, <1>5, <2>2 DEF OnCpu
  <2>3. ASSUME NEW q \in Procs
        PROVE  /\ pc'[q] \in {"sl_sched", "sl_ret"} => chan'[q] = "ticks"
               /\ OnCpu(q)' => state'[q] = IF pc'[q] = "sl_sched" THEN "SLEEPING"
                    ELSE IF pc'[q] = "y_sched" THEN "RUNNABLE" ELSE "RUNNING"
               /\ ~OnCpu(q)' => /\ pc'[q] \in {"forkret", "sl_ret", "y_ret"}
                                /\ state'[q] # "RUNNING"
                                /\ state'[q] = "SLEEPING" => pc'[q] = "sl_ret"
    <3>0. chan' = chan
      BY <1>2
    <3>1. CASE q = p
      BY <1>3, <1>5, <2>1, <3>0, <3>1 DEF IndInv, StatesFollow
    <3>2. CASE q # p
      BY <1>5, <2>2, <2>3, <3>0, <3>2 DEF IndInv, StatesFollow
    <3>3. QED
      BY <3>1, <3>2
  <2>4. QED
    BY <2>3 DEF StatesFollow
<1>12. Waiting'
  <2>1. WakeComing => WakeComing'
    BY <1>2, <1>6 DEF WakeComing
  <2>2. QED
    BY <1>2, <1>5, <2>1 DEF IndInv, Waiting
<1>13. TypeOK'
  <2>1. "p_back" \in Labels /\ p \in Threads /\ p \in 1..(NPROC + 1)
    BY <1>1, SchedConstants DEF Labels, Threads, Procs
  <2>2. QED
    BY <1>1, <1>2, <2>1 DEF IndInv, TypeOK, lockVars, States
<1>14. QED
  BY <1>7, <1>8, <1>9, <1>10, <1>11, <1>12, <1>13 DEF IndInv

(* A process has switched back: cpu->proc is cleared.                      *)
LEMMA BackInSchedulerStep ==
  ASSUME IndInv, NEW c \in CPUs, BackInScheduler(c)
  PROVE  IndInv'
<1>1. /\ pc' = [pc EXCEPT ![cur[c]] = "p_scan"] /\ At(c) = "p_back"
      /\ cproc' = [cproc EXCEPT ![c] = None] /\ scan' = [scan EXCEPT ![c] = @ + 1]
      /\ UNCHANGED <<lockVars, cur, intr, saved, state, chan, left>>
  BY DEF BackInScheduler, Goto, procVars
<1>2. cur[c] = c /\ pc[c] = "p_back"
  BY <1>1 DEF IndInv, Placed, At, CallPlaces, Handler, TrapPlaces, YieldPlaces
<1>3. /\ "p_scan" \in Labels /\ SameLocks("p_back", "p_scan")
      /\ {"p_back", "p_scan"} \cap (WakePlaces \cup SleepPlaces \cup SchedPlaces \cup Handler \cup {"sl_ret"}) = {}
      /\ "p_scan" \in LoopPlaces
  BY DEF Labels, SameLocks, Holding, Depth, Outside, Twice, On, Either, RemembersOn, RemembersOff,
     WakePlaces, SleepPlaces, SchedPlaces, Handler, TrapPlaces, YieldPlaces, LoopPlaces
<1>4. /\ \A d \in CPUs \ {c} : At(d)' = At(d)
      /\ At(c)' = "p_scan"
  BY <1>1, Others
<1>5. (LocksHeld /\ Depths /\ Flags /\ Remembered)'
  BY <1>1, <1>3, <1>4, LocksKept
<1>6. (StatesFollow /\ Waiting)'
  BY <1>1, <1>3, StatesKept, WaitingKept
<1>7. /\ Threads = Procs \cup CPUs /\ CPUs \cap Procs = {} /\ None \notin Procs
      /\ \A t \in Threads : pc'[t] = IF t = c THEN "p_scan" ELSE pc[t]
      /\ \A d \in CPUs : cproc'[d] = IF d = c THEN None ELSE cproc[d]
      /\ \A d \in CPUs \ {c} : scan'[d] = scan[d]
  BY <1>1, <1>2, SchedConstants DEF IndInv, TypeOK, Threads
<1>8. Kept'
  BY <1>1, <1>7 DEF IndInv, Kept
<1>9. Interrupted'
  BY <1>1, <1>2, <1>3, <1>7 DEF IndInv, Interrupted
<1>10. Placed'
  <2>1. \A q \in Procs : /\ pc'[q] \in CallPlaces \cup Handler
                         /\ intr'[q] \in CallPlaces \cup {None}
    BY <1>1, <1>7 DEF IndInv, Placed
  <2>2. ASSUME NEW d \in CPUs
        PROVE  /\ cur'[d] \in Procs \cup {d}
               /\ pc'[d] \in LoopPlaces \cup TrapPlaces
               /\ intr'[d] \in LoopPlaces \cup {None}
               /\ pc'[d] = "p_back" => scan'[d] \in Procs
               /\ cur'[d] # d => pc'[d] = "p_back" /\ cproc'[d] = cur'[d]
               /\ pc'[d] # "p_back" => cproc'[d] = None
    BY <1>1, <1>2, <1>3, <1>7, <2>2 DEF IndInv, Placed
  <2>3. \A d, e \in CPUs : d # e /\ cproc'[d] # None => cproc'[d] # cproc'[e]
    BY <1>7 DEF IndInv, Placed
  <2>4. QED
    BY <2>1, <2>2, <2>3 DEF Placed
<1>11. TypeOK'
  <2>1. scan[c] + 1 \in 1..(NPROC + 1)
    BY <1>2, SchedConstants DEF IndInv, Placed, Procs
  <2>2. QED
    BY <1>1, <1>3, <2>1 DEF IndInv, TypeOK, lockVars
<1>12. QED
  BY <1>5, <1>6, <1>8, <1>9, <1>10, <1>11 DEF IndInv
-----------------------------------------------------------------------------
(* The inductive invariant holds after boot ...                            *)
LEMMA InitHolds == Init => IndInv
<1>1. SUFFICES ASSUME Init PROVE IndInv
  OBVIOUS
<1>2. /\ Threads = Procs \cup CPUs /\ CPUs \cap Procs = {} /\ None \notin Procs /\ None \notin CPUs
      /\ \A c \in CPUs : At(c) = "sti" /\ cur[c] = c /\ pc[c] = "sti"
      /\ \A p \in Procs : pc[p] = "forkret" /\ ~OnCpu(p)
  BY <1>1, SchedConstants DEF Init, Threads, At, OnCpu
<1>3. TypeOK
  <2>1. "sti" \in Labels /\ "forkret" \in Labels
    BY DEF Labels, Rels
  <2>2. 0 \in 0..Sleep /\ 1 \in 1..(NPROC + 1) /\ 0 \in 0..2
    BY SchedConstants
  <2>3. QED
    BY <1>1, <1>2, <2>1, <2>2 DEF Init, TypeOK, States, Locks
<1>4. LocksHeld
  BY <1>1, <1>2 DEF Init, LocksHeld, Holding
<1>5. Depths /\ Flags /\ Remembered
  BY <1>1, <1>2 DEF Init, Depths, Depth, Outside, Flags, On, Either, Remembered, RemembersOn, RemembersOff
<1>6. Kept
  BY <1>2 DEF Kept
<1>7. Interrupted
  <2>1. "sti" \notin Handler /\ "forkret" \notin Handler
    BY DEF Handler, TrapPlaces, YieldPlaces
  <2>2. QED
    BY <1>1, <1>2, <2>1 DEF Init, Interrupted
<1>8. Placed
  <2>1. "sti" \in LoopPlaces /\ "forkret" \in CallPlaces
    BY DEF LoopPlaces, CallPlaces
  <2>2. QED
    BY <1>1, <1>2, <2>1 DEF Init, Placed
<1>9. StatesFollow /\ Waiting
  BY <1>1, <1>2 DEF Init, StatesFollow, Waiting
<1>10. QED
  BY <1>3, <1>4, <1>5, <1>6, <1>7, <1>8, <1>9 DEF IndInv

(* ... and every step of every CPU keeps it.                               *)
LEMMA NextKeeps == IndInv /\ [Next]_vars => IndInv'
<1>1. SUFFICES ASSUME IndInv, [Next]_vars PROVE IndInv'
  OBVIOUS
<1>2. ASSUME NEW c \in CPUs, Step(c) \/ Syscall(c) \/ TimerInterrupt(c)
      PROVE  IndInv'
  <2>1. ASSUME NEW from, NEW to, Sched(c, from, to),
               <<from, to>> \in {<<"sl_sched", "sl_ret">>, <<"y_sched", "y_ret">>}
        PROVE  IndInv'
    BY <1>1, <2>1, SchedStep
  <2>2. CASE Sched(c, "sl_sched", "sl_ret") \/ Sched(c, "y_sched", "y_ret")
    BY <2>1, <2>2
  <2>3. CASE Pushcli(c) \/ Xchg(c) \/ Release(c) \/ Resume(c) \/ SchedulerSti(c) \/ RunProcess(c)
    BY <1>1, <2>3, PushcliStep, XchgStep, ReleaseStep, ResumeStep, SchedulerStiStep, RunProcessStep
  <2>4. CASE ScanDone(c) \/ BackInScheduler(c) \/ Trapret(c) \/ SleepStart(c) \/ SleepTest(c)
    BY <1>1, <2>4, ScanDoneStep, BackInSchedulerStep, TrapretStep, SleepStartStep, SleepTestStep
  <2>5. CASE SetSleeping(c) \/ Tick(c) \/ Wakeup1(c) \/ YieldCheck(c) \/ YieldSet(c) \/ Iret(c)
    BY <1>1, <2>5, SetSleepingStep, TickStep, Wakeup1Step, YieldCheckStep, YieldSetStep, IretStep
  <2>6. CASE Syscall(c) \/ TimerInterrupt(c)
    BY <1>1, <2>6, SyscallStep, TimerInterruptStep
  <2>7. QED
    BY <1>2, <2>2, <2>3, <2>4, <2>5, <2>6 DEF Step
<1>3. CASE UNCHANGED vars
  BY <1>1, <1>3 DEF vars, lockVars, procVars, IndInv, TypeOK, LocksHeld, Depths, Flags, Remembered,
     Kept, Interrupted, Placed, StatesFollow, Waiting, OnCpu, WakeComing, At
<1>4. QED
  BY <1>1, <1>2, <1>3 DEF Next

(* IndInv holds in every reachable state.                                  *)
THEOREM Invariance == Spec => []IndInv
BY InitHolds, NextKeeps, PTL DEF Spec

(* No panic of acquire(), release(), popcli(), sched() or mycpu() is       *)
(* reachable, and interrupt masking follows the thread, for any number of  *)
(* CPUs, processes and ticks.                                              *)
THEOREM NoPanic == Spec => []ChecksPass
<1>1. ASSUME IndInv PROVE ChecksPass
  <2>1. InterruptsFollowThread
    <3>1. SUFFICES ASSUME NEW c \in CPUs, cur[c] \in Procs, ncli[c] = 0, At(c) # "trapret"
                   PROVE  ifl[c] <=> intr[cur[c]] = None
      BY DEF InterruptsFollowThread
    <3>2. At(c) \in CallPlaces \cup Handler /\ At(c) = pc[cur[c]] /\ cur[c] \in Threads
      BY <1>1, <3>1 DEF IndInv, Placed, At, Threads
    <3>3. At(c) \in Outside
      BY <1>1, <3>1 DEF IndInv, Depths, Depth
    <3>4. CASE At(c) \in Handler
      <4>1. intr[cur[c]] # None
        BY <1>1, <3>2, <3>4 DEF IndInv, Interrupted
      <4>2. ~ifl[c]
        BY <1>1, <3>4 DEF IndInv, Flags, On, Either, Handler, TrapPlaces, YieldPlaces
      <4>3. QED
        BY <4>1, <4>2
    <3>5. CASE At(c) \notin Handler
      <4>1. intr[cur[c]] = None
        BY <1>1, <3>2, <3>5 DEF IndInv, Interrupted
      <4>2. At(c) \in On
        BY <3>1, <3>2, <3>3, <3>5 DEF On, CallPlaces, Outside
      <4>3. QED
        BY <1>1, <4>1, <4>2 DEF IndInv, Flags
    <3>6. QED
      BY <3>4, <3>5
  <2>2. ASSUME NEW c \in CPUs, At(c) \in DOMAIN Pushes
        PROVE  locked[Pushes[At(c)][1]] # c
    BY <1>1, <2>2, PushTable DEF IndInv, LocksHeld
  <2>3. ASSUME NEW c \in CPUs, At(c) \in DOMAIN Rels
        PROVE  locked[Rels[At(c)][1]] = c /\ ~ifl[c] /\ ncli[c] > 0
    <3>1. PICK a : a = At(c)
      OBVIOUS
    <3>2. locked[Rels[a][1]] = c
      BY <1>1, <2>3, <3>1, RelTable DEF IndInv, LocksHeld
    <3>3. ~ifl[c]
      BY <1>1, <2>3, <3>1, RelTable DEF IndInv, Flags
    <3>4. ncli[c] > 0
      BY <1>1, <2>3, <3>1, RelTable DEF IndInv, Depths
    <3>5. QED
      BY <3>1, <3>2, <3>3, <3>4
  <2>4. ASSUME NEW c \in CPUs, At(c) \in {"sl_sched", "y_sched"}
        PROVE  /\ locked["ptable"] = c /\ ncli[c] = 1
               /\ state[cur[c]] # "RUNNING" /\ ~ifl[c]
    <3>1. locked["ptable"] = c
      BY <1>1, <2>4 DEF IndInv, LocksHeld, Locks, Holding
    <3>2. ncli[c] = 1
      BY <1>1, <2>4 DEF IndInv, Depths, Depth, Outside, Twice
    <3>3. ~ifl[c]
      BY <1>1, <2>4 DEF IndInv, Flags, On, Either
    <3>4. cur[c] \in Procs
      BY <1>1, <2>4 DEF IndInv, Placed, At, LoopPlaces, TrapPlaces
    <3>5. state[cur[c]] # "RUNNING"
      BY <1>1, <2>4, <3>4 DEF IndInv, StatesFollow, OnCpu, At
    <3>6. QED
      BY <3>1, <3>2, <3>3, <3>5
  <2>5. QED
    BY <1>1, <2>1, <2>2, <2>3, <2>4 DEF ChecksPass, IndInv
<1>2. QED
  BY <1>1, Invariance, PTL

(* A process runs on one CPU at a time and the process table says which.   *)
THEOREM OneCpu == Spec => []OneCpuPerProcess
<1>1. ASSUME IndInv PROVE OneCpuPerProcess
  <2>1. \A c, d \in CPUs : c # d /\ cproc[c] # None => cproc[c] # cproc[d]
    BY <1>1 DEF IndInv, Placed
  <2>2. \A c \in CPUs : cur[c] \in Procs => cproc[c] = cur[c]
    BY <1>1, SchedConstants DEF IndInv, Placed
  <2>3. ASSUME locked["ptable"] = None, NEW p \in Procs
        PROVE  state[p] = "RUNNING" <=> OnCpu(p)
    <3>1. \A c \in CPUs : At(c) \notin Holding("ptable")
      BY <1>1, <2>3, SchedConstants DEF IndInv, LocksHeld, Locks, Threads
    <3>2. OnCpu(p) => pc[p] \notin {"sl_sched", "y_sched"}
      BY <3>1 DEF OnCpu, At, Holding
    <3>3. QED
      BY <1>1, <3>2 DEF IndInv, StatesFollow
  <2>4. QED
    BY <2>1, <2>2, <2>3 DEF OneCpuPerProcess, OnCpu
<1>2. QED
  BY <1>1, Invariance, PTL

(* A process asleep although its ticks are over is about to be woken.      *)
THEOREM WakeupsArrive == Spec => []NoLostWakeup
<1>1. IndInv => NoLostWakeup
  BY DEF IndInv, Waiting, WakeComing, NoLostWakeup
<1>2. QED
  BY <1>1, Invariance, PTL
=============================================================================
