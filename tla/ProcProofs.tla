----------------------------- MODULE ProcProofs ------------------------------
(***************************************************************************)
(* Proofs about Proc, for any size of the process table and of memory:     *)
(* fork, exit, wait and kill keep the family tree, the pids and the memory *)
(* accounts, and nobody sleeps in wait() without reason.                   *)
(***************************************************************************)
EXTENDS Proc, FiniteSetTheorems, WellFoundedInduction, TLAPS

Up == {"RUNNABLE", "SLEEPING"}
Live == {"RUNNABLE", "SLEEPING", "ZOMBIE"}
ForkPCs == {"kstack", "copyuvm", "publish"}

(* pids are handed out once; the one a failed fork() or a reaped process   *)
(* leaves in its slot is 0 or belongs to nobody else.                      *)
Pids ==
  /\ \A s \in Slots : pid[s] < nextpid
  /\ \A s \in Slots : state[s] # "UNUSED" => pid[s] # 0
  /\ \A s, t \in Slots : s # t /\ pid[s] = pid[t] => pid[s] = 0

(* What a process in fork() knows of the slot it took: the work it does    *)
(* outside ptable.lock is on a slot that is its own.                       *)
ForkOwns(p) ==
  /\ np[p] \in Slots /\ state[p] = "RUNNABLE" /\ state[np[p]] = "EMBRYO"
  /\ np[p] \in kstack <=> pc[p] # "kstack"
  /\ np[p] \in pgdir <=> pc[p] = "publish"
  /\ parent[np[p]] = IF pc[p] = "publish" THEN p ELSE 0
Forks ==
  /\ \A p \in Slots : pc[p] \in ForkPCs => ForkOwns(p)
  /\ \A p \in Slots : pc[p] \notin ForkPCs => np[p] = 0
  /\ \A p, q \in Slots : p # q /\ np[p] = np[q] => np[p] = 0

(* The family tree: its root never dies, parents are up, free slots are    *)
(* nobody's children.                                                      *)
Parents ==
  /\ initproc \in Slots /\ state[initproc] \in Up /\ parent[initproc] = 0
  /\ \A s \in Slots : state[s] = "UNUSED" => parent[s] = 0
  /\ \A s \in Slots : parent[s] # s
  /\ \A s \in Slots \ {initproc} :
       state[s] \in Live => parent[s] \in Slots /\ state[parent[s]] \in Up

IndInv == TypeOK /\ Pids /\ Forks /\ Parents /\ MemoryOwned /\ WaitersHaveReason
-----------------------------------------------------------------------------
(* A set of slots has a first one, which the loops over ptable find.       *)
LEMMA FirstIs ==
  ASSUME NEW S, S \subseteq Slots, S # {}
  PROVE  First(S) \in S
<1>1. PICK R : R = OpToRel(<, Nat)
  BY Zenon
<1>2. IsWellFoundedOn(R, Nat)
  BY <1>1, NatLessThanWellFounded, Zenon
<1>3. S \subseteq Nat
  BY ProcConstants DEF Slots
<1>4. PICK m \in S : \A k \in S : <<k, m>> \notin R
  BY <1>2, <1>3, WFMin
<1>5. \A k \in S : m <= k
  <2>1. ASSUME NEW k \in S, k < m PROVE FALSE
    <3>1. <<k, m>> \in R
      BY <1>1, <1>3, <1>4, <2>1 DEF OpToRel
    <3>2. QED
      BY <1>4, <3>1
  <2>2. QED
    BY <1>3, <1>4, <2>1
<1>6. QED
  BY <1>4, <1>5 DEF First

(* The sets of owners are finite, so that pages can be counted.            *)
LEMMA OwnersFinite ==
  ASSUME TypeOK
  PROVE  /\ IsFiniteSet(kstack) /\ IsFiniteSet(pgdir)
         /\ Cardinality(kstack) \in Nat /\ Cardinality(pgdir) \in Nat
<1>1. IsFiniteSet(Slots)
  BY FS_Interval, ProcConstants DEF Slots
<1>2. IsFiniteSet(kstack) /\ IsFiniteSet(pgdir)
  BY <1>1, FS_Subset DEF TypeOK
<1>3. QED
  BY <1>2, FS_CardinalityType

(* A step that only moves a process outside fork(), perhaps killing it     *)
(* while it runs.                                                          *)
LEMMA Quiet ==
  ASSUME IndInv, NEW p \in Slots, NEW l \in PCs \ ForkPCs, pc[p] \notin ForkPCs,
         state[p] = "RUNNABLE",
         pc' = [pc EXCEPT ![p] = l] \/ pc' = pc,
         \A s \in Slots : s # p => killed'[s] = killed[s],
         UNCHANGED <<state, pid, parent, kstack, pgdir, free, nextpid, np>>
  PROVE  (Pids /\ Forks /\ Parents /\ MemoryOwned /\ WaitersHaveReason)'
<1>1. \A s \in Slots : pc'[s] = pc[s] \/ (s = p /\ pc'[s] \notin ForkPCs)
  BY DEF IndInv, TypeOK
<1>2. (Pids /\ Parents /\ MemoryOwned)'
  BY DEF IndInv, Pids, Parents, MemoryOwned
<1>3. Forks'
  <2>1. ASSUME NEW q \in Slots, pc'[q] \in ForkPCs PROVE ForkOwns(q)'
    <3>1. pc'[q] = pc[q] /\ ForkOwns(q)
      BY <1>1, <2>1 DEF IndInv, Forks
    <3>2. QED
      BY <3>1 DEF ForkOwns
  <2>2. QED
    BY <1>1, <2>1 DEF IndInv, Forks
<1>4. WaitersHaveReason'
  BY DEF IndInv, WaitersHaveReason, Children, Zombies
<1>5. QED
  BY <1>2, <1>3, <1>4

(* fork() with no UNUSED slot.                                             *)
LEMMA ForkTableFullStep ==
  ASSUME IndInv, NEW p \in Slots, ForkTableFull(p)
  PROVE  IndInv'
<1>1. PICK l : l = IF p = initproc THEN "exit" ELSE "user"
  OBVIOUS
<1>2. /\ pc' = [pc EXCEPT ![p] = l] /\ shell' = shell /\ np' = [np EXCEPT ![p] = 0]
      /\ state[p] = "RUNNABLE" /\ pc[p] = "user"
      /\ UNCHANGED <<state, pid, parent, killed, kstack, pgdir, free, nextpid, panicked>>
  BY <1>1 DEF ForkTableFull, ForkReturns, MayCall, Running, memVars
<1>3. np' = np /\ l \in PCs \ ForkPCs /\ pc[p] \notin ForkPCs
  BY <1>1, <1>2 DEF IndInv, Forks, ForkPCs, TypeOK, PCs
<1>4. (Pids /\ Forks /\ Parents /\ MemoryOwned /\ WaitersHaveReason)'
  BY <1>2, <1>3, Quiet
<1>5. TypeOK'
  BY <1>2, <1>3 DEF IndInv, TypeOK
<1>6. QED
  BY <1>4, <1>5 DEF IndInv

(* The program calls exit(), or trap() does so for it.                     *)
LEMMA ExitCallStep ==
  ASSUME IndInv, NEW p \in Slots, ExitCall(p) \/ Fault(p)
  PROVE  IndInv'
<1>1. /\ pc' = [pc EXCEPT ![p] = "exit"]
      /\ state[p] = "RUNNABLE" /\ pc[p] = "user"
      /\ killed' = killed \/ killed' = [killed EXCEPT ![p] = TRUE]
      /\ UNCHANGED <<state, pid, parent, kstack, pgdir, free, nextpid, np, shell, panicked>>
  BY DEF ExitCall, Fault, MayCall, Running, memVars
<1>2. /\ "exit" \in PCs \ ForkPCs /\ pc[p] \notin ForkPCs
      /\ \A s \in Slots : s # p => killed'[s] = killed[s]
  BY <1>1 DEF IndInv, TypeOK, ForkPCs, PCs
<1>3. (Pids /\ Forks /\ Parents /\ MemoryOwned /\ WaitersHaveReason)'
  BY <1>1, <1>2, Quiet
<1>4. TypeOK'
  <2>1. killed' \in [Slots -> BOOLEAN]
    BY <1>1 DEF IndInv, TypeOK
  <2>2. QED
    BY <1>1, <1>2, <2>1 DEF IndInv, TypeOK
<1>5. QED
  BY <1>3, <1>4 DEF IndInv

(* wait() starts, or gives up.                                             *)
LEMMA WaitCallStep ==
  ASSUME IndInv, NEW p \in Slots, WaitCall(p) \/ WaitFails(p)
  PROVE  IndInv'
<1>1. PICK l \in {"wait", "user"} :
        /\ pc' = [pc EXCEPT ![p] = l]
        /\ shell' = shell \/ shell' = 0
        /\ state[p] = "RUNNABLE" /\ pc[p] \in {"user", "wait"}
        /\ UNCHANGED <<state, pid, parent, killed, kstack, pgdir, free, nextpid, np, panicked>>
  <2>1. CASE WaitCall(p)
    BY <2>1 DEF WaitCall, MayCall, Running, memVars
  <2>2. CASE WaitFails(p)
    BY <2>2 DEF WaitFails, WaitReturns, Running, memVars
  <2>3. QED
    BY <2>1, <2>2
<1>2. l \in PCs \ ForkPCs /\ pc[p] \notin ForkPCs
  BY <1>1 DEF ForkPCs, PCs
<1>3. (Pids /\ Forks /\ Parents /\ MemoryOwned /\ WaitersHaveReason)'
  BY <1>1, <1>2, Quiet
<1>4. TypeOK'
  BY <1>1, <1>2, ProcConstants DEF IndInv, TypeOK
<1>5. QED
  BY <1>3, <1>4 DEF IndInv

(* init dies: the kernel panics.                                           *)
LEMMA InitExitsStep ==
  ASSUME IndInv, InitExits
  PROVE  IndInv'
<1>1. /\ panicked' = TRUE /\ state[initproc] = "RUNNABLE" /\ pc[initproc] = "exit"
      /\ UNCHANGED <<state, pid, parent, killed, kstack, pgdir, free, nextpid, pc, np, shell>>
  BY DEF InitExits, Running, memVars
<1>2. initproc \in Slots /\ "exit" \in PCs \ ForkPCs /\ pc[initproc] \notin ForkPCs
  BY <1>1 DEF IndInv, Parents, ForkPCs, PCs
<1>3. (Pids /\ Forks /\ Parents /\ MemoryOwned /\ WaitersHaveReason)'
  BY <1>1, <1>2, Quiet
<1>4. TypeOK'
  BY <1>1 DEF IndInv, TypeOK
<1>5. QED
  BY <1>3, <1>4 DEF IndInv
-----------------------------------------------------------------------------
(* fork()                                                                  *)

(* allocproc() takes a slot that nobody owns and a pid nobody has.         *)
LEMMA ForkAllocStep ==
  ASSUME IndInv, NEW p \in Slots, ForkAlloc(p)
  PROVE  IndInv'
<1>1. PICK s \in Slots : s = First(Unused) /\ state[s] = "UNUSED"
  BY FirstIs DEF ForkAlloc, Unused
<1>2. /\ state' = [state EXCEPT ![s] = "EMBRYO"]
      /\ pid' = [pid EXCEPT ![s] = nextpid]
      /\ np' = [np EXCEPT ![p] = s]
      /\ nextpid' = nextpid + 1 /\ pc' = [pc EXCEPT ![p] = "kstack"]
      /\ state[p] = "RUNNABLE" /\ pc[p] = "user" /\ nextpid <= MaxPid
      /\ UNCHANGED <<parent, killed, kstack, pgdir, free, shell, panicked>>
  BY <1>1, ProcConstants DEF ForkAlloc, MayCall, Running, memVars, WithinBound, IndInv, TypeOK
<1>3. /\ s # p /\ s # 0 /\ s \notin kstack /\ s \notin pgdir /\ parent[s] = 0
      /\ nextpid \in Nat /\ nextpid >= 2
      /\ \A q \in Slots : np[q] # s
  <2>1. \A q \in Slots : np[q] # s
    BY <1>1, ProcConstants DEF IndInv, Forks, ForkOwns, Slots
  <2>2. QED
    BY <1>1, <1>2, <2>1, ProcConstants DEF IndInv, TypeOK, MemoryOwned, Parents, Slots
<1>4. \A q \in Slots : /\ state'[q] = IF q = s THEN "EMBRYO" ELSE state[q]
                       /\ pid'[q] = IF q = s THEN nextpid ELSE pid[q]
                       /\ np'[q] = IF q = p THEN s ELSE np[q]
                       /\ pc'[q] = IF q = p THEN "kstack" ELSE pc[q]
  BY <1>1, <1>2 DEF IndInv, TypeOK
<1>5. TypeOK'
  <2>1. "kstack" \in PCs /\ "EMBRYO" \in States /\ s \in 0..NPROC /\ nextpid \in 0..MaxPid
        /\ nextpid + 1 \in 2..(MaxPid + 1)
    BY <1>1, <1>2, ProcConstants DEF IndInv, TypeOK, PCs, States, Slots
  <2>2. QED
    BY <1>2, <2>1 DEF IndInv, TypeOK
<1>6. Pids'
  <2>1. \A q \in Slots : pid[q] \in Nat
    BY DEF IndInv, TypeOK
  <2>2. QED
    BY <1>2, <1>3, <1>4, <2>1 DEF IndInv, Pids
<1>7. Forks'
  <2>1. ASSUME NEW q \in Slots, pc'[q] \in ForkPCs PROVE ForkOwns(q)'
    <3>1. CASE q = p
      BY <1>2, <1>3, <1>4, <3>1 DEF ForkOwns
    <3>2. CASE q # p
      <4>1. ForkOwns(q) /\ pc'[q] = pc[q] /\ np'[q] = np[q] /\ np[q] # s
        BY <1>3, <1>4, <2>1, <3>2 DEF IndInv, Forks
      <4>2. QED
        BY <1>1, <1>2, <1>4, <4>1 DEF ForkOwns
    <3>3. QED
      BY <3>1, <3>2
  <2>2. QED
    BY <1>3, <1>4, <2>1 DEF IndInv, Forks, ForkPCs
<1>8. Parents'
  BY <1>1, <1>2, <1>3, <1>4 DEF IndInv, Parents, Up, Live
<1>9. MemoryOwned'
  BY <1>2, <1>3, <1>4 DEF IndInv, MemoryOwned
<1>10. WaitersHaveReason'
  <2>1. ASSUME NEW q \in Slots, state'[q] = "SLEEPING"
        PROVE  Children(q)' # {} /\ Zombies(q)' = {} /\ ~killed'[q]
    <3>1. state[q] = "SLEEPING"
      BY <1>4, <2>1
    <3>2. Children(q)' = Children(q) /\ Zombies(q)' \subseteq Zombies(q)
      BY <1>2, <1>4 DEF Children, Zombies
    <3>3. QED
      BY <1>2, <3>1, <3>2 DEF IndInv, WaitersHaveReason
  <2>2. QED
    BY <2>1 DEF WaitersHaveReason
<1>11. QED
  BY <1>5, <1>6, <1>7, <1>8, <1>9, <1>10 DEF IndInv

(* What a step of fork() on its own slot leaves to the other forks.        *)
LEMMA OtherForks ==
  ASSUME IndInv, NEW p \in Slots, pc[p] \in ForkPCs, NEW q \in Slots, q # p,
         pc[q] \in ForkPCs, pc'[q] = pc[q], np'[q] = np[q],
         \A t \in Slots : t # np[p] => /\ state'[t] = state[t] /\ parent'[t] = parent[t]
                                       /\ t \in kstack' <=> t \in kstack
                                       /\ t \in pgdir' <=> t \in pgdir
  PROVE  ForkOwns(q)'
<1>1. ForkOwns(p) /\ ForkOwns(q)
  BY DEF IndInv, Forks
<1>2. np[q] \in Slots /\ np[q] # np[p] /\ q # np[p] /\ 0 \notin Slots
  BY <1>1, ProcConstants DEF IndInv, Forks, ForkOwns, Slots
<1>3. QED
  BY <1>1, <1>2 DEF ForkOwns

(* kalloc() of the kernel stack succeeds.                                  *)
LEMMA ForkKstackStep ==
  ASSUME IndInv, NEW p \in Slots, ForkKstack(p), free > 0
  PROVE  IndInv'
<1>1. PICK s \in Slots : s = np[p] /\ ForkOwns(p) /\ pc[p] = "kstack" /\ pc[p] \in ForkPCs
  BY DEF ForkKstack, IndInv, Forks, ForkPCs, ForkOwns
<1>2. /\ kstack' = kstack \cup {s} /\ free' = free - 1
      /\ pc' = [pc EXCEPT ![p] = "copyuvm"]
      /\ UNCHANGED <<state, shell, np, pid, parent, killed, pgdir, nextpid, panicked>>
  BY <1>1 DEF ForkKstack
<1>3. state[s] = "EMBRYO" /\ s \notin kstack /\ s \notin pgdir
  BY <1>1 DEF ForkOwns
<1>4. \A q \in Slots : pc'[q] = IF q = p THEN "copyuvm" ELSE pc[q]
  BY <1>2 DEF IndInv, TypeOK
<1>5. TypeOK'
  <2>1. free - 1 \in 0..Pages /\ "copyuvm" \in PCs
    BY ProcConstants DEF IndInv, TypeOK, PCs
  <2>2. QED
    BY <1>1, <1>2, <2>1 DEF IndInv, TypeOK
<1>6. Pids' /\ Parents'
  BY <1>2 DEF IndInv, Pids, Parents
<1>7. Forks'
  <2>1. ASSUME NEW q \in Slots, pc'[q] \in ForkPCs PROVE ForkOwns(q)'
    <3>1. CASE q = p
      BY <1>1, <1>2, <1>3, <1>4, <3>1 DEF ForkOwns
    <3>2. CASE q # p
      BY <1>1, <1>2, <1>4, <2>1, <3>2, OtherForks
    <3>3. QED
      BY <3>1, <3>2
  <2>2. QED
    BY <1>1, <1>2, <1>4, <2>1 DEF IndInv, Forks, ForkPCs
<1>8. MemoryOwned'
  <2>1. Cardinality(kstack \cup {s}) = Cardinality(kstack) + 1
    BY <1>3, FS_AddElement, OwnersFinite DEF IndInv
  <2>2. free' + Cardinality(kstack') + Cardinality(pgdir') = Pages
    BY <1>2, <2>1, OwnersFinite, ProcConstants DEF IndInv, MemoryOwned, TypeOK
  <2>3. QED
    BY <1>2, <1>3, <2>2 DEF IndInv, MemoryOwned
<1>9. WaitersHaveReason'
  BY <1>2 DEF IndInv, WaitersHaveReason, Children, Zombies
<1>10. QED
  BY <1>5, <1>6, <1>7, <1>8, <1>9 DEF IndInv

(* fork() fails for want of memory and gives its slot back, with what it   *)
(* already owns.                                                           *)
LEMMA ForkUndone ==
  ASSUME IndInv, NEW p \in Slots, ForkKstack(p) \/ ForkCopy(p), ~(free > 0)
  PROVE  IndInv'
<1>1. PICK s \in Slots : s = np[p] /\ ForkOwns(p) /\ pc[p] \in {"kstack", "copyuvm"}
                         /\ pc[p] \in ForkPCs
  BY DEF ForkKstack, ForkCopy, IndInv, Forks, ForkPCs, ForkOwns
<1>l. PICK l : l = IF p = initproc THEN "exit" ELSE "user"
  OBVIOUS
<1>2. /\ state' = [state EXCEPT ![s] = "UNUSED"]
      /\ pc' = [pc EXCEPT ![p] = l] /\ np' = [np EXCEPT ![p] = 0]
      /\ UNCHANGED <<shell, pid, parent, killed, pgdir, nextpid, panicked>>
      /\ kstack' = kstack \ {s}
      /\ s \in kstack => free' = free + 1
      /\ s \notin kstack => free' = free
  <2>1. CASE ForkKstack(p)
    BY <1>1, <1>l, <2>1 DEF ForkKstack, ForkReturns, ForkOwns
  <2>2. CASE ForkCopy(p)
    BY <1>1, <1>l, <2>2 DEF ForkCopy, ForkReturns, FreeKstack, ForkOwns
  <2>3. QED
    BY <2>1, <2>2
<1>3. /\ state[s] = "EMBRYO" /\ s \notin pgdir /\ parent[s] = 0 /\ s # p
      /\ l \in PCs /\ l \notin ForkPCs /\ 0 \notin Slots
  BY <1>1, <1>l, ProcConstants DEF ForkOwns, PCs, ForkPCs, Slots
<1>4. \A q \in Slots : /\ pc'[q] = IF q = p THEN l ELSE pc[q]
                       /\ state'[q] = IF q = s THEN "UNUSED" ELSE state[q]
                       /\ np'[q] = IF q = p THEN 0 ELSE np[q]
  BY <1>2 DEF IndInv, TypeOK
<1>5. free' + Cardinality(kstack') + Cardinality(pgdir') = Pages
      /\ Cardinality(kstack') \in Nat /\ Cardinality(pgdir') \in Nat
  <2>1. Cardinality(kstack \ {s}) = IF s \in kstack THEN Cardinality(kstack) - 1 ELSE Cardinality(kstack)
    BY FS_RemoveElement, OwnersFinite DEF IndInv
  <2>2. Cardinality(kstack \ {s}) \in Nat
    BY FS_RemoveElement, FS_CardinalityType, OwnersFinite DEF IndInv
  <2>3. QED
    BY <1>2, <2>1, <2>2, OwnersFinite, ProcConstants DEF IndInv, MemoryOwned, TypeOK
<1>6. TypeOK'
  <2>1. free' \in 0..Pages
    BY <1>2, <1>5, ProcConstants DEF IndInv, TypeOK
  <2>2. "UNUSED" \in States /\ 0 \in 0..NPROC /\ kstack' \subseteq Slots
    BY <1>2, ProcConstants DEF States, IndInv, TypeOK
  <2>3. QED
    BY <1>2, <1>3, <2>1, <2>2 DEF IndInv, TypeOK
<1>7. Pids'
  BY <1>2, <1>4 DEF IndInv, Pids
<1>8. Parents'
  BY <1>1, <1>2, <1>3, <1>4 DEF IndInv, Parents, Up, Live
<1>9. Forks'
  <2>1. ASSUME NEW q \in Slots, pc'[q] \in ForkPCs PROVE ForkOwns(q)'
    <3>1. q # p /\ pc[q] \in ForkPCs /\ pc'[q] = pc[q] /\ np'[q] = np[q]
      BY <1>3, <1>4, <2>1
    <3>2. \A t \in Slots : t # np[p] => /\ state'[t] = state[t] /\ parent'[t] = parent[t]
                                        /\ t \in kstack' <=> t \in kstack
                                        /\ t \in pgdir' <=> t \in pgdir
      BY <1>1, <1>2, <1>4
    <3>3. QED
      BY <1>1, <3>1, <3>2, OtherForks
  <2>2. QED
    BY <1>2, <1>3, <1>4, <2>1 DEF IndInv, Forks
<1>10. MemoryOwned'
  BY <1>2, <1>3, <1>4, <1>5 DEF IndInv, MemoryOwned
<1>11. WaitersHaveReason'
  <2>1. ASSUME NEW q \in Slots, state'[q] = "SLEEPING"
        PROVE  Children(q)' # {} /\ Zombies(q)' = {} /\ ~killed'[q]
    <3>1. state[q] = "SLEEPING"
      BY <1>4, <2>1
    <3>2. Children(q)' = Children(q) /\ Zombies(q)' \subseteq Zombies(q)
      BY <1>2, <1>4 DEF Children, Zombies
    <3>3. QED
      BY <1>2, <3>1, <3>2 DEF IndInv, WaitersHaveReason
  <2>2. QED
    BY <2>1 DEF WaitersHaveReason
<1>12. QED
  BY <1>6, <1>7, <1>8, <1>9, <1>10, <1>11 DEF IndInv

(* copyuvm() succeeds, and the child gets its parent.                      *)
LEMMA ForkCopyStep ==
  ASSUME IndInv, NEW p \in Slots, ForkCopy(p), free > 0
  PROVE  IndInv'
<1>1. PICK s \in Slots : s = np[p] /\ ForkOwns(p) /\ pc[p] = "copyuvm" /\ pc[p] \in ForkPCs
  BY DEF ForkCopy, IndInv, Forks, ForkPCs, ForkOwns
<1>2. /\ pgdir' = pgdir \cup {s} /\ free' = free - 1
      /\ parent' = [parent EXCEPT ![s] = p]
      /\ pc' = [pc EXCEPT ![p] = "publish"]
      /\ UNCHANGED <<state, kstack, shell, np, pid, killed, nextpid, panicked>>
  BY <1>1 DEF ForkCopy
<1>3. /\ state[s] = "EMBRYO" /\ s \in kstack /\ s \notin pgdir /\ parent[s] = 0 /\ s # p
      /\ 0 \notin Slots /\ state[p] = "RUNNABLE"
  BY <1>1, ProcConstants DEF ForkOwns, Slots
<1>4. \A q \in Slots : /\ pc'[q] = IF q = p THEN "publish" ELSE pc[q]
                       /\ parent'[q] = IF q = s THEN p ELSE parent[q]
  BY <1>2 DEF IndInv, TypeOK
<1>5. TypeOK'
  <2>1. free - 1 \in 0..Pages /\ "publish" \in PCs /\ p \in 0..NPROC
    BY ProcConstants DEF IndInv, TypeOK, PCs, Slots
  <2>2. QED
    BY <1>1, <1>2, <2>1 DEF IndInv, TypeOK
<1>6. Pids'
  BY <1>2 DEF IndInv, Pids
<1>7. Parents'
  BY <1>2, <1>3, <1>4 DEF IndInv, Parents, Up, Live
<1>8. Forks'
  <2>1. ASSUME NEW q \in Slots, pc'[q] \in ForkPCs PROVE ForkOwns(q)'
    <3>1. CASE q = p
      BY <1>1, <1>2, <1>3, <1>4, <3>1 DEF ForkOwns
    <3>2. CASE q # p
      <4>1. pc[q] \in ForkPCs /\ pc'[q] = pc[q] /\ np'[q] = np[q]
        BY <1>2, <1>4, <2>1, <3>2
      <4>2. \A t \in Slots : t # np[p] => /\ state'[t] = state[t] /\ parent'[t] = parent[t]
                                          /\ t \in kstack' <=> t \in kstack
                                          /\ t \in pgdir' <=> t \in pgdir
        BY <1>1, <1>2, <1>4
      <4>3. QED
        BY <1>1, <3>2, <4>1, <4>2, OtherForks
    <3>3. QED
      BY <3>1, <3>2
  <2>2. QED
    BY <1>1, <1>2, <1>4, <2>1 DEF IndInv, Forks, ForkPCs
<1>9. MemoryOwned'
  <2>1. Cardinality(pgdir \cup {s}) = Cardinality(pgdir) + 1
    BY <1>3, FS_AddElement, OwnersFinite DEF IndInv
  <2>2. free' + Cardinality(kstack') + Cardinality(pgdir') = Pages
    BY <1>2, <2>1, OwnersFinite, ProcConstants DEF IndInv, MemoryOwned, TypeOK
  <2>3. QED
    BY <1>2, <1>3, <2>2 DEF IndInv, MemoryOwned
<1>10. WaitersHaveReason'
  <2>1. ASSUME NEW q \in Slots, state'[q] = "SLEEPING"
        PROVE  Children(q)' # {} /\ Zombies(q)' = {} /\ ~killed'[q]
    <3>1. state[q] = "SLEEPING" /\ q # p
      BY <1>2, <1>3, <2>1
    <3>2. Children(q)' = Children(q) /\ Zombies(q)' = Zombies(q)
      BY <1>2, <1>3, <1>4, <3>1 DEF Children, Zombies
    <3>3. QED
      BY <1>2, <3>1, <3>2 DEF IndInv, WaitersHaveReason
  <2>2. QED
    BY <2>1 DEF WaitersHaveReason
<1>11. QED
  BY <1>5, <1>6, <1>7, <1>8, <1>9, <1>10 DEF IndInv

(* The child becomes RUNNABLE with everything it needs.                    *)
LEMMA ForkPublishStep ==
  ASSUME IndInv, NEW p \in Slots, ForkPublish(p)
  PROVE  IndInv'
<1>1. PICK s \in Slots : s = np[p] /\ ForkOwns(p) /\ pc[p] = "publish" /\ pc[p] \in ForkPCs
  BY DEF ForkPublish, IndInv, Forks, ForkPCs, ForkOwns
<1>2. /\ state' = [state EXCEPT ![s] = "RUNNABLE"]
      /\ pc' = [pc EXCEPT ![s] = "user", ![p] = "user"]
      /\ shell' = IF p = initproc THEN pid[s] ELSE shell
      /\ np' = [np EXCEPT ![p] = 0]
      /\ UNCHANGED <<pid, parent, killed, kstack, pgdir, free, nextpid, panicked>>
  BY <1>1 DEF ForkPublish, memVars
<1>3. /\ state[s] = "EMBRYO" /\ s \in kstack /\ s \in pgdir /\ parent[s] = p /\ s # p
      /\ 0 \notin Slots /\ state[p] = "RUNNABLE"
  BY <1>1, ProcConstants DEF ForkOwns, Slots
<1>4. \A q \in Slots : /\ pc'[q] = IF q \in {s, p} THEN "user" ELSE pc[q]
                       /\ state'[q] = IF q = s THEN "RUNNABLE" ELSE state[q]
                       /\ np'[q] = IF q = p THEN 0 ELSE np[q]
  BY <1>1, <1>2 DEF IndInv, TypeOK
<1>5. TypeOK'
  <2>1. shell' \in 0..MaxPid
    BY <1>1, <1>2 DEF IndInv, TypeOK
  <2>2. "user" \in PCs /\ "RUNNABLE" \in States /\ 0 \in 0..NPROC
    BY ProcConstants DEF PCs, States
  <2>3. QED
    BY <1>2, <2>1, <2>2 DEF IndInv, TypeOK
<1>6. Pids'
  BY <1>2, <1>3, <1>4 DEF IndInv, Pids
<1>7. Parents'
  BY <1>1, <1>2, <1>3, <1>4 DEF IndInv, Parents, Up, Live
<1>8. "user" \notin ForkPCs /\ np[s] = 0
  <2>1. pc[s] \notin ForkPCs
    BY <1>1, <1>3 DEF IndInv, Forks, ForkOwns
  <2>2. QED
    BY <1>1, <2>1 DEF IndInv, Forks, ForkPCs
<1>9. Forks'
  <2>1. ASSUME NEW q \in Slots, pc'[q] \in ForkPCs PROVE ForkOwns(q)'
    <3>1. q # p /\ q # s /\ pc[q] \in ForkPCs /\ pc'[q] = pc[q] /\ np'[q] = np[q]
      BY <1>4, <1>8, <2>1
    <3>2. \A t \in Slots : t # np[p] => /\ state'[t] = state[t] /\ parent'[t] = parent[t]
                                        /\ t \in kstack' <=> t \in kstack
                                        /\ t \in pgdir' <=> t \in pgdir
      BY <1>1, <1>2, <1>4
    <3>3. QED
      BY <1>1, <3>1, <3>2, OtherForks
  <2>2. QED
    BY <1>4, <1>8, <2>1 DEF IndInv, Forks
<1>10. MemoryOwned'
  BY <1>2, <1>3, <1>4 DEF IndInv, MemoryOwned
<1>11. WaitersHaveReason'
  <2>1. ASSUME NEW q \in Slots, state'[q] = "SLEEPING"
        PROVE  Children(q)' # {} /\ Zombies(q)' = {} /\ ~killed'[q]
    <3>1. state[q] = "SLEEPING"
      BY <1>4, <2>1
    <3>2. Children(q)' = Children(q) /\ Zombies(q)' \subseteq Zombies(q)
      BY <1>2, <1>4 DEF Children, Zombies
    <3>3. QED
      BY <1>2, <3>1, <3>2 DEF IndInv, WaitersHaveReason
  <2>2. QED
    BY <2>1 DEF WaitersHaveReason
<1>12. QED
  BY <1>5, <1>6, <1>7, <1>9, <1>10, <1>11 DEF IndInv
-----------------------------------------------------------------------------
(* exit(), wait(), kill()                                                  *)

(* The last step of exit(): the children go to init, and whoever may wait  *)
(* for the new zombie, or for one handed over, is woken.                   *)
LEMMA ExitStep ==
  ASSUME IndInv, NEW p \in Slots, Exit(p)
  PROVE  IndInv'
<1>1. /\ state[p] = "RUNNABLE" /\ pc[p] = "exit" /\ p # initproc
      /\ parent' = [s \in Slots |-> IF parent[s] = p THEN initproc ELSE parent[s]]
      /\ pc' = [pc EXCEPT ![p] = "user"]
      /\ UNCHANGED <<pid, killed, kstack, pgdir, free, nextpid, np, shell, panicked>>
  BY DEF Exit, Running, Reparented, memVars
<1>2. /\ state' \in [Slots -> States]
      /\ \A s \in Slots : state'[s] = IF s = p THEN "ZOMBIE"
                            ELSE IF s \in WokenByExit(p) /\ state[s] = "SLEEPING" THEN "RUNNABLE"
                            ELSE state[s]
  BY DEF Exit, IndInv, TypeOK, States
<1>3. \A s \in Slots : /\ pc'[s] = IF s = p THEN "user" ELSE pc[s]
                       /\ parent'[s] = IF parent[s] = p THEN initproc ELSE parent[s]
  BY <1>1 DEF IndInv, TypeOK
<1>4. /\ initproc \in Slots /\ 0 \notin Slots /\ initproc \in 0..NPROC /\ initproc # 0
      /\ "user" \notin ForkPCs /\ "user" \in PCs /\ pc[p] \notin ForkPCs
  BY <1>1, ProcConstants DEF Slots, initproc, ForkPCs, PCs
<1>5. TypeOK'
  <2>1. parent' \in [Slots -> 0..NPROC]
    BY <1>1, <1>4 DEF IndInv, TypeOK
  <2>2. QED
    BY <1>1, <1>2, <1>4, <2>1 DEF IndInv, TypeOK
<1>6. Pids'
  BY <1>1, <1>2 DEF IndInv, Pids
<1>7. Forks'
  <2>1. ASSUME NEW q \in Slots, pc'[q] \in ForkPCs PROVE ForkOwns(q)'
    <3>1. ForkOwns(q) /\ q # p /\ pc'[q] = pc[q]
      BY <1>3, <1>4, <2>1 DEF IndInv, Forks
    <3>2. np[q] \in Slots /\ np[q] # p /\ parent[np[q]] # p
      BY <1>1, <1>4, <3>1 DEF ForkOwns
    <3>3. QED
      BY <1>1, <1>2, <1>3, <3>1, <3>2 DEF ForkOwns
  <2>2. QED
    BY <1>1, <1>3, <1>4, <2>1 DEF IndInv, Forks
<1>8. Parents'
  <2>1. state'[initproc] \in Up /\ parent'[initproc] = 0
    BY <1>1, <1>2, <1>3, <1>4 DEF IndInv, Parents, Up
  <2>2. ASSUME NEW s \in Slots, state'[s] = "UNUSED" PROVE parent'[s] = 0
    BY <1>2, <1>3, <1>4, <2>2 DEF IndInv, Parents
  <2>3. ASSUME NEW s \in Slots PROVE parent'[s] # s
    BY <1>1, <1>3, <1>4, <2>1, <2>3 DEF IndInv, Parents
  <2>4. ASSUME NEW s \in Slots \ {initproc}, state'[s] \in Live
        PROVE  parent'[s] \in Slots /\ state'[parent'[s]] \in Up
    <3>1. state[s] \in Live
      BY <1>1, <1>2, <2>4 DEF Live
    <3>2. parent[s] \in Slots /\ state[parent[s]] \in Up
      BY <2>4, <3>1 DEF IndInv, Parents
    <3>3. CASE parent[s] = p
      BY <1>3, <1>4, <2>1, <2>4, <3>3
    <3>4. CASE parent[s] # p
      BY <1>2, <1>3, <2>4, <3>2, <3>4 DEF Up
    <3>5. QED
      BY <3>3, <3>4
  <2>5. QED
    BY <1>4, <2>1, <2>2, <2>3, <2>4 DEF Parents
<1>9. MemoryOwned'
  BY <1>1, <1>2 DEF IndInv, MemoryOwned
<1>10. WaitersHaveReason'
  <2>1. ASSUME NEW q \in Slots, state'[q] = "SLEEPING"
        PROVE  Children(q)' # {} /\ Zombies(q)' = {} /\ ~killed'[q]
    <3>1. state[q] = "SLEEPING" /\ q # p /\ q \notin WokenByExit(p)
      BY <1>2, <2>1
    <3>2. /\ parent[p] # q /\ parent[p] # p
          /\ q = initproc => \A c \in Slots : parent[c] = p => state[c] # "ZOMBIE"
      BY <3>1 DEF WokenByExit, Children, IndInv, Parents
    <3>3. /\ \E s \in Slots : parent[s] = q
          /\ \A s \in Slots : parent[s] = q => state[s] # "ZOMBIE"
          /\ ~killed[q]
      BY <3>1 DEF IndInv, WaitersHaveReason, Children, Zombies
    <3>4. \E s \in Slots : parent'[s] = q
      BY <1>3, <3>1, <3>3
    <3>5. ASSUME NEW s \in Slots, parent'[s] = q PROVE state'[s] # "ZOMBIE"
      <4>1. CASE s = p
        BY <1>3, <3>2, <3>5, <4>1
      <4>2. CASE s # p /\ parent[s] = p
        BY <1>2, <1>3, <3>2, <3>5, <4>2
      <4>3. CASE s # p /\ parent[s] # p
        BY <1>2, <1>3, <3>3, <3>5, <4>3
      <4>4. QED
        BY <4>1, <4>2, <4>3
    <3>6. QED
      BY <1>1, <3>3, <3>4, <3>5 DEF Children, Zombies
  <2>2. QED
    BY <2>1 DEF WaitersHaveReason
<1>11. QED
  BY <1>5, <1>6, <1>7, <1>8, <1>9, <1>10 DEF IndInv

(* wait() frees the slot, the stack and the address space of a zombie.     *)
LEMMA WaitReapStep ==
  ASSUME IndInv, NEW p \in Slots, WaitReap(p)
  PROVE  IndInv'
<1>1. PICK s \in Slots : s = First(Zombies(p)) /\ state[s] = "ZOMBIE" /\ parent[s] = p
  <2>1. Zombies(p) \subseteq Slots /\ Zombies(p) # {}
    BY DEF WaitReap, Zombies, Children
  <2>2. First(Zombies(p)) \in Zombies(p)
    BY <2>1, FirstIs
  <2>3. QED
    BY <2>2 DEF Zombies, Children
<1>2. /\ state[p] = "RUNNABLE" /\ pc[p] = "wait"
      /\ state' = [state EXCEPT ![s] = "UNUSED"]
      /\ pid' = [pid EXCEPT ![s] = 0]
      /\ parent' = [parent EXCEPT ![s] = 0]
      /\ killed' = [killed EXCEPT ![s] = FALSE]
      /\ kstack' = kstack \ {s} /\ pgdir' = pgdir \ {s}
      /\ free' = free + 2
      /\ pc' = [pc EXCEPT ![p] = "user"]
      /\ shell' = shell \/ shell' = 0
      /\ UNCHANGED <<nextpid, np, panicked>>
  BY <1>1 DEF WaitReap, WaitReturns, Running, FreedByReap
<1>3. /\ s # p /\ s # initproc /\ s \in kstack /\ s \in pgdir /\ 0 \notin Slots
      /\ "user" \notin ForkPCs /\ "user" \in PCs /\ pc[p] \notin ForkPCs
  BY <1>1, <1>2, ProcConstants DEF IndInv, Parents, Up, MemoryOwned, Slots, ForkPCs, PCs
<1>4. \A q \in Slots : /\ state'[q] = IF q = s THEN "UNUSED" ELSE state[q]
                       /\ pid'[q] = IF q = s THEN 0 ELSE pid[q]
                       /\ parent'[q] = IF q = s THEN 0 ELSE parent[q]
                       /\ pc'[q] = IF q = p THEN "user" ELSE pc[q]
  BY <1>2 DEF IndInv, TypeOK
<1>5. /\ free' + Cardinality(kstack') + Cardinality(pgdir') = Pages
      /\ Cardinality(kstack') \in Nat /\ Cardinality(pgdir') \in Nat
  <2>1. /\ Cardinality(kstack \ {s}) = Cardinality(kstack) - 1
        /\ Cardinality(pgdir \ {s}) = Cardinality(pgdir) - 1
    BY <1>3, FS_RemoveElement, OwnersFinite DEF IndInv
  <2>2. Cardinality(kstack \ {s}) \in Nat /\ Cardinality(pgdir \ {s}) \in Nat
    BY FS_RemoveElement, FS_CardinalityType, OwnersFinite DEF IndInv
  <2>3. QED
    BY <1>2, <2>1, <2>2, OwnersFinite, ProcConstants DEF IndInv, MemoryOwned, TypeOK
<1>6. TypeOK'
  <2>1. free' \in 0..Pages
    BY <1>2, <1>5, ProcConstants DEF IndInv, TypeOK
  <2>2. /\ "UNUSED" \in States /\ 0 \in 0..NPROC /\ 0 \in 0..MaxPid
        /\ kstack' \subseteq Slots /\ pgdir' \subseteq Slots
    BY <1>2, ProcConstants DEF States, IndInv, TypeOK
  <2>3. killed' \in [Slots -> BOOLEAN]
    BY <1>2 DEF IndInv, TypeOK
  <2>4. shell' \in 0..MaxPid
    BY <1>2, <2>2 DEF IndInv, TypeOK
  <2>5. QED
    BY <1>2, <1>3, <2>1, <2>2, <2>3, <2>4 DEF IndInv, TypeOK
<1>7. Pids'
  <2>1. nextpid > 0
    BY DEF IndInv, TypeOK
  <2>2. QED
    BY <1>2, <1>4, <2>1 DEF IndInv, Pids
<1>8. Forks'
  <2>1. ASSUME NEW q \in Slots, pc'[q] \in ForkPCs PROVE ForkOwns(q)'
    <3>1. ForkOwns(q) /\ q # p /\ pc'[q] = pc[q]
      BY <1>3, <1>4, <2>1 DEF IndInv, Forks
    <3>2. np[q] \in Slots /\ np[q] # s /\ q # s
      BY <1>1, <3>1 DEF ForkOwns
    <3>3. QED
      BY <1>2, <1>4, <3>1, <3>2 DEF ForkOwns
  <2>2. QED
    BY <1>2, <1>3, <1>4, <2>1 DEF IndInv, Forks
<1>9. Parents'
  <2>1. ASSUME NEW q \in Slots \ {initproc}, state'[q] \in Live
        PROVE  parent'[q] \in Slots /\ state'[parent'[q]] \in Up
    <3>1. q # s /\ state[q] \in Live
      BY <1>4, <2>1 DEF Live
    <3>2. parent[q] \in Slots /\ state[parent[q]] \in Up /\ parent[q] # s
      BY <1>1, <2>1, <3>1 DEF IndInv, Parents, Up
    <3>3. QED
      BY <1>4, <2>1, <3>1, <3>2
  <2>2. QED
    BY <1>3, <1>4, <2>1 DEF IndInv, Parents
<1>10. MemoryOwned'
  BY <1>2, <1>3, <1>4, <1>5 DEF IndInv, MemoryOwned
<1>11. WaitersHaveReason'
  <2>1. ASSUME NEW q \in Slots, state'[q] = "SLEEPING"
        PROVE  Children(q)' # {} /\ Zombies(q)' = {} /\ ~killed'[q]
    <3>1. state[q] = "SLEEPING" /\ q # p /\ q # s
      BY <1>2, <1>4, <2>1
    <3>2. Children(q)' = Children(q) /\ Zombies(q)' = Zombies(q)
      BY <1>1, <1>3, <1>4, <3>1 DEF Children, Zombies
    <3>3. killed'[q] = killed[q]
      BY <1>2, <3>1 DEF IndInv, TypeOK
    <3>4. QED
      BY <3>1, <3>2, <3>3 DEF IndInv, WaitersHaveReason
  <2>2. QED
    BY <2>1 DEF WaitersHaveReason
<1>12. QED
  BY <1>6, <1>7, <1>8, <1>9, <1>10, <1>11 DEF IndInv

(* A change of state among RUNNABLE and SLEEPING, and of killed, at one    *)
(* slot disturbs nobody else.                                              *)
LEMMA Wakes ==
  ASSUME IndInv, NEW s \in Slots, NEW new \in Up,
         state[s] \in Up, pc[s] \in ForkPCs => new = "RUNNABLE",
         state' = [state EXCEPT ![s] = new],
         UNCHANGED <<pid, parent, kstack, pgdir, free, nextpid, pc, np>>
  PROVE  (Pids /\ Forks /\ Parents /\ MemoryOwned)' /\ state' \in [Slots -> States]
<1>1. \A q \in Slots : state'[q] = IF q = s THEN new ELSE state[q]
  BY DEF IndInv, TypeOK
<1>2. Pids' /\ MemoryOwned' /\ state' \in [Slots -> States]
  BY <1>1 DEF IndInv, Pids, MemoryOwned, Up, TypeOK, States
<1>3. Forks'
  <2>1. ASSUME NEW q \in Slots, pc'[q] \in ForkPCs PROVE ForkOwns(q)'
    <3>1. ForkOwns(q)
      BY <2>1 DEF IndInv, Forks
    <3>2. np[q] # s
      BY <3>1 DEF ForkOwns, Up
    <3>3. QED
      BY <1>1, <2>1, <3>1, <3>2 DEF ForkOwns
  <2>2. QED
    BY <2>1 DEF IndInv, Forks
<1>4. Parents'
  BY <1>1 DEF IndInv, Parents, Up, Live
<1>5. QED
  BY <1>2, <1>3, <1>4

(* wait() goes to sleep under ptable.lock, after its test.                 *)
LEMMA WaitSleepStep ==
  ASSUME IndInv, NEW p \in Slots, WaitSleep(p)
  PROVE  IndInv'
<1>1. /\ state[p] = "RUNNABLE" /\ pc[p] = "wait"
      /\ Zombies(p) = {} /\ Children(p) # {} /\ ~killed[p]
      /\ state' = [state EXCEPT ![p] = "SLEEPING"]
      /\ UNCHANGED <<pid, parent, killed, kstack, pgdir, free, nextpid, pc, np, shell, panicked>>
  BY DEF WaitSleep, Running, memVars
<1>2. (Pids /\ Forks /\ Parents /\ MemoryOwned)' /\ state' \in [Slots -> States]
  BY <1>1, Wakes DEF Up, ForkPCs
<1>3. TypeOK'
  BY <1>1, <1>2 DEF IndInv, TypeOK
<1>4. WaitersHaveReason'
  <2>1. ASSUME NEW q \in Slots, state'[q] = "SLEEPING"
        PROVE  Children(q)' # {} /\ Zombies(q)' = {} /\ ~killed'[q]
    <3>1. state[q] = "SLEEPING" \/ q = p
      BY <1>1, <2>1 DEF IndInv, TypeOK
    <3>2. Children(q)' = Children(q) /\ Zombies(q)' \subseteq Zombies(q)
      BY <1>1 DEF Children, Zombies, IndInv, TypeOK
    <3>3. QED
      BY <1>1, <3>1, <3>2 DEF IndInv, WaitersHaveReason
  <2>2. QED
    BY <2>1 DEF WaitersHaveReason
<1>5. QED
  BY <1>2, <1>3, <1>4 DEF IndInv

(* kill() never leaves its victim asleep.                                  *)
LEMMA KillStep ==
  ASSUME IndInv, NEW p \in Slots, NEW k, Kill(p, k)
  PROVE  IndInv'
<1>1. CASE {s \in Slots : pid[s] = k} = {}
  <2>1. UNCHANGED vars
    BY <1>1 DEF Kill, vars
  <2>2. QED
    BY <2>1 DEF vars, memVars, IndInv, TypeOK, Pids, Forks, ForkOwns, Parents, MemoryOwned,
       WaitersHaveReason, Children, Zombies
<1>2. CASE {s \in Slots : pid[s] = k} # {}
  <2>1. PICK s \in Slots : s = First({t \in Slots : pid[t] = k})
    <3>1. First({t \in Slots : pid[t] = k}) \in {t \in Slots : pid[t] = k}
      BY <1>2, FirstIs
    <3>2. QED
      BY <3>1
  <2>2. /\ killed' = [killed EXCEPT ![s] = TRUE]
        /\ state' = [state EXCEPT ![s] = IF @ = "SLEEPING" THEN "RUNNABLE" ELSE @]
        /\ UNCHANGED <<pid, parent, kstack, pgdir, free, nextpid, pc, np, shell, panicked>>
    BY <1>2, <2>1 DEF Kill, WokenByKill, memVars
  <2>3. (Pids /\ Forks /\ Parents /\ MemoryOwned)' /\ state' \in [Slots -> States]
    <3>1. CASE state[s] = "SLEEPING"
      <4>1. state' = [state EXCEPT ![s] = "RUNNABLE"]
        BY <2>2, <3>1 DEF IndInv, TypeOK
      <4>2. QED
        BY <2>1, <2>2, <3>1, <4>1, Wakes DEF Up
    <3>2. CASE state[s] # "SLEEPING"
      <4>1. state' = state
        BY <2>2, <3>2 DEF IndInv, TypeOK
      <4>2. QED
        BY <2>2, <4>1 DEF IndInv, TypeOK, Pids, Forks, ForkOwns, Parents, MemoryOwned
    <3>3. QED
      BY <3>1, <3>2
  <2>4. TypeOK'
    <3>1. killed' \in [Slots -> BOOLEAN]
      BY <2>2 DEF IndInv, TypeOK
    <3>2. QED
      BY <2>2, <2>3, <3>1 DEF IndInv, TypeOK
  <2>5. WaitersHaveReason'
    <3>1. ASSUME NEW q \in Slots, state'[q] = "SLEEPING"
          PROVE  Children(q)' # {} /\ Zombies(q)' = {} /\ ~killed'[q]
      <4>1. state[q] = "SLEEPING" /\ q # s
        BY <2>1, <2>2, <3>1 DEF IndInv, TypeOK
      <4>2. Children(q)' = Children(q) /\ Zombies(q)' \subseteq Zombies(q)
        BY <2>2 DEF Children, Zombies, IndInv, TypeOK
      <4>3. killed'[q] = killed[q]
        BY <2>2, <4>1 DEF IndInv, TypeOK
      <4>4. QED
        BY <4>1, <4>2, <4>3 DEF IndInv, WaitersHaveReason
    <3>2. QED
      BY <3>1 DEF WaitersHaveReason
  <2>6. QED
    BY <2>3, <2>4, <2>5 DEF IndInv
<1>3. QED
  BY <1>1, <1>2
-----------------------------------------------------------------------------
(* The inductive invariant holds after userinit() ...                      *)
LEMMA InitHolds == Init => IndInv
<1>1. SUFFICES ASSUME Init PROVE IndInv
  OBVIOUS
<1>2. /\ initproc \in Slots /\ 0 \notin Slots /\ initproc # 0
      /\ \A s \in Slots : s # initproc => state[s] = "UNUSED"
      /\ \A s \in Slots : pid[s] \in {0, 1} /\ (pid[s] = 1 <=> s = initproc)
      /\ state[initproc] = "RUNNABLE"
  BY <1>1, ProcConstants DEF Init, Slots, initproc
<1>3. TypeOK
  <2>1. /\ 0 \in 0..MaxPid /\ 1 \in 0..MaxPid /\ 0 \in 0..NPROC /\ 2 \in 2..(MaxPid + 1)
        /\ Pages - 2 \in 0..Pages
    BY ProcConstants
  <2>2. {"RUNNABLE", "UNUSED"} \subseteq States /\ "user" \in PCs
    BY DEF States, PCs
  <2>3. QED
    BY <1>1, <1>2, <2>1, <2>2 DEF Init, TypeOK
<1>4. Pids
  BY <1>1, <1>2 DEF Init, Pids
<1>5. Forks
  BY <1>1 DEF Init, Forks, ForkPCs
<1>6. Parents
  BY <1>1, <1>2 DEF Init, Parents, Up, Live
<1>7. MemoryOwned
  <2>1. Cardinality({initproc}) = 1
    BY FS_Singleton
  <2>2. QED
    BY <1>1, <1>2, <2>1, ProcConstants DEF Init, MemoryOwned
<1>8. WaitersHaveReason
  BY <1>2 DEF WaitersHaveReason
<1>9. QED
  BY <1>3, <1>4, <1>5, <1>6, <1>7, <1>8 DEF IndInv

(* ... and every critical section keeps it.                                *)
LEMMA NextKeeps == IndInv /\ [Next]_vars => IndInv'
<1>1. SUFFICES ASSUME IndInv, [Next]_vars PROVE IndInv'
  OBVIOUS
<1>2. ASSUME NEW p \in Slots, KernelStep(p) PROVE IndInv'
  <2>1. CASE ForkKstack(p) \/ ForkCopy(p)
    BY <1>1, <1>2, <2>1, ForkKstackStep, ForkCopyStep, ForkUndone
  <2>2. CASE ForkPublish(p) \/ Exit(p) \/ WaitReap(p) \/ WaitFails(p) \/ WaitSleep(p)
    BY <1>1, <1>2, <2>2, ForkPublishStep, ExitStep, WaitReapStep, WaitCallStep, WaitSleepStep
  <2>3. QED
    BY <1>2, <2>1, <2>2 DEF KernelStep
<1>3. ASSUME NEW p \in Slots, ProgramStep(p) PROVE IndInv'
  <2>1. CASE ForkAlloc(p) \/ ForkTableFull(p) \/ WaitCall(p) \/ ExitCall(p) \/ Fault(p)
    BY <1>1, <1>3, <2>1, ForkAllocStep, ForkTableFullStep, WaitCallStep, ExitCallStep
  <2>2. ASSUME NEW k \in KillArgs, Kill(p, k) PROVE IndInv'
    BY <1>1, <1>3, <2>2, KillStep
  <2>3. QED
    BY <1>3, <2>1, <2>2 DEF ProgramStep
<1>4. CASE InitExits
  BY <1>1, <1>4, InitExitsStep
<1>5. CASE UNCHANGED vars
  BY <1>1, <1>5 DEF vars, memVars, IndInv, TypeOK, Pids, Forks, ForkOwns, Parents, MemoryOwned,
     WaitersHaveReason, Children, Zombies
<1>6. QED
  BY <1>1, <1>2, <1>3, <1>4, <1>5 DEF Next

(* IndInv holds in every reachable state.                                  *)
THEOREM Invariance == Spec => []IndInv
BY InitHolds, NextKeeps, PTL DEF Spec

(* Pids identify processes, every process has a parent that is up, and     *)
(* memory is accounted for, for any table size, memory and number of       *)
(* forks, however fork() fails and whoever exits or is killed meanwhile.   *)
THEOREM FamilyKept == Spec => []Family
<1>1. ASSUME IndInv PROVE Family
  <2>1. \A s, t \in Slots : s # t /\ state[s] # "UNUSED" => pid[t] # pid[s]
    BY <1>1 DEF IndInv, Pids
  <2>2. QED
    BY <1>1, <2>1 DEF IndInv, Family, Parents, Up, Live
<1>2. QED
  BY <1>1, Invariance, PTL

(* Nobody sleeps in wait() who is killed, has no child or has a zombie.    *)
THEOREM NoLostExit == Spec => []WaitersHaveReason
<1>1. IndInv => WaitersHaveReason
  BY DEF IndInv
<1>2. QED
  BY <1>1, Invariance, PTL
=============================================================================
