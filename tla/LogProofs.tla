----------------------------- MODULE LogProofs -----------------------------
(* Proofs about Log: types, the inductive invariant, the limits of the log *)
(* and the refinement of AtomicDisk, for any number of processes, blocks   *)
(* and contents.                                                           *)
EXTENDS Log, FiniteSetTheorems, TLAPS

(* Everything the proofs carry from step to step.                          *)
IInv == TypeOK /\ NoPanic /\ Inv

(* A sequence of block numbers and its range.                              *)
LEMMA RangeSeq ==
  ASSUME NEW s \in Seq(Blocks)
  PROVE  /\ Range(s) \subseteq Blocks
         /\ Range(s) = {s[i] : i \in 1..Len(s)}
         /\ \A i \in 1..Len(s) : s[i] \in Blocks
  BY DEF Range

(* log_write() keeps the logged block numbers distinct.                    *)
LEMMA AbsorbProperties ==
  ASSUME lh \in Seq(Blocks), IsInjective(lh), NEW b \in Blocks
  PROVE  /\ Absorb(b) \in Seq(Blocks)
         /\ IsInjective(Absorb(b))
         /\ Range(Absorb(b)) = Range(lh) \cup {b}
         /\ Len(Absorb(b)) = IF b \in Range(lh) THEN Len(lh) ELSE Len(lh) + 1
<1>1. CASE b \in Range(lh)
  BY <1>1 DEF Absorb
<1>2. CASE b \notin Range(lh)
  <2> DEFINE t == Append(lh, b)
  <2>1. /\ t \in Seq(Blocks) /\ Len(t) = Len(lh) + 1
        /\ \A i \in 1..Len(lh) : t[i] = lh[i]
        /\ t[Len(lh) + 1] = b
        /\ DOMAIN t = 1..(Len(lh) + 1) /\ DOMAIN lh = 1..Len(lh)
    OBVIOUS
  <2>2. \A i \in 1..Len(lh) : lh[i] # b
    BY <1>2, RangeSeq
  <2>3. IsInjective(t)
    BY <2>1, <2>2 DEF IsInjective
  <2>4. Range(t) = Range(lh) \cup {b}
    BY <2>1 DEF Range
  <2> QED
    BY <1>2, <2>1, <2>3, <2>4 DEF Absorb
<1> QED
  BY <1>1, <1>2

(* If every process has at most n blocks, k processes have at most k * n   *)
(* of them: number the blocks of each process from 1 to n.                 *)
LEMMA PairBound ==
  ASSUME NEW S, IsFiniteSet(S), NEW n \in Nat, NEW w, NEW U,
         \A p \in S : IsFiniteSet(w[p]) /\ Cardinality(w[p]) <= n,
         \A u \in U : u = <<u[1], u[2]>> /\ u[1] \in S /\ u[2] \in w[u[1]]
  PROVE  IsFiniteSet(U) /\ Cardinality(U) <= Cardinality(S) * n
<1> DEFINE Num(p) == CHOOSE f \in [w[p] -> 1..n] : IsInjective(f)
<1>1. ASSUME NEW p \in S
      PROVE  Num(p) \in [w[p] -> 1..n] /\ IsInjective(Num(p))
  <2>1. /\ Cardinality(w[p]) \in Nat
        /\ ExistsBijection(1..Cardinality(w[p]), w[p])
    BY FS_CardinalityType
  <2>2. PICK g \in Bijection(1..Cardinality(w[p]), w[p]) : TRUE
    BY <2>1 DEF ExistsBijection
  <2> DEFINE f == [x \in w[p] |-> CHOOSE i \in 1..Cardinality(w[p]) : g[i] = x]
  <2>3. \A x \in w[p] : f[x] \in 1..Cardinality(w[p]) /\ g[f[x]] = x
    BY <2>2 DEF Bijection, Surjection
  <2>4. f \in [w[p] -> 1..n] /\ IsInjective(f)
    <3>1. \A i \in 1..Cardinality(w[p]) : i \in 1..n
      BY <2>1
    <3>2. f \in [w[p] -> 1..n]
      BY <2>3, <3>1
    <3>3. ASSUME NEW x \in w[p], NEW y \in w[p], f[x] = f[y] PROVE x = y
      BY <2>3, <3>3
    <3> HIDE DEF f
    <3> QED
      BY <3>2, <3>3 DEF IsInjective
  <2> QED
    BY <2>4
<1> HIDE DEF Num
<1> DEFINE h == [u \in U |-> <<u[1], Num(u[1])[u[2]]>>]
<1>2. h \in [U -> S \X (1..n)]
  BY <1>1
<1>3. ASSUME NEW u \in U, NEW v \in U, h[u] = h[v] PROVE u = v
  <2>1. <<u[1], Num(u[1])[u[2]]>> = <<v[1], Num(v[1])[v[2]]>>
    BY <1>3
  <2>2. u[1] = v[1] /\ Num(u[1])[u[2]] = Num(u[1])[v[2]]
    BY <2>1
  <2>3. /\ u[1] \in S /\ u[2] \in w[u[1]] /\ v[2] \in w[u[1]]
        /\ DOMAIN Num(u[1]) = w[u[1]] /\ IsInjective(Num(u[1]))
    BY <1>1, <2>2
  <2>4. u[2] = v[2]
    BY <2>2, <2>3 DEF IsInjective
  <2> QED
    BY <2>2, <2>4
<1>4. h \in Injection(U, S \X (1..n))
  BY <1>2, <1>3 DEF Injection, IsInjective
<1>5. IsFiniteSet(1..n) /\ Cardinality(1..n) = n
  BY FS_Interval
<1>6. /\ IsFiniteSet(S \X (1..n))
      /\ Cardinality(S \X (1..n)) = Cardinality(S) * n
  BY <1>5, FS_Product
<1> QED
  BY <1>4, <1>6, FS_Injection

(* The blocks already logged use up no more than the operations in         *)
(* progress may log.                                                       *)
LEMMA LoggedBound ==
  ASSUME TypeOK, CountInv, HoldInv
  PROVE  /\ IsFiniteSet(Logged)
         /\ Cardinality(Logged) \in Nat
         /\ Cardinality(Logged) <= outstanding * OpBlocks
         /\ IsFiniteSet(inopBar)
<1>1. IsFiniteSet(inopBar)
  BY LogConstants, FS_Subset DEF LogConstants, inopBar
<1>2. \A p \in inopBar : IsFiniteSet(wrote[p]) /\ Cardinality(wrote[p]) <= OpBlocks
  BY DEF HoldInv, inopBar
<1>3. \A u \in Logged : /\ u = <<u[1], u[2]>>
                        /\ u[1] \in inopBar /\ u[2] \in wrote[u[1]]
  BY DEF HoldInv, Logged, inopBar
<1>4. OpBlocks \in Nat
  BY LogConstants DEF LogConstants
<1>5. /\ IsFiniteSet(Logged)
      /\ Cardinality(Logged) <= Cardinality(inopBar) * OpBlocks
  BY <1>1, <1>2, <1>3, <1>4, PairBound
<1> QED
  BY <1>1, <1>5, FS_CardinalityType DEF CountInv

(* The reservation covers the log: with Room to spare, log_write() finds   *)
(* space whenever an operation is in progress.                             *)
LEMMA ReservationCovers ==
  ASSUME Room, TypeOK, CountInv, HoldInv, Reserved
  PROVE  Len(lh) <= LogRegion - 2 /\ Len(lh) < LOGSIZE
<1>1. Len(lh) \in Nat /\ outstanding * OpBlocks \in Int
  BY LogConstants DEF LogConstants, TypeOK
<1> QED
  BY <1>1, LoggedBound, LogConstants DEF LogConstants, Room, Reserved

(* LoggedBound in the state after a step.                                  *)
LEMMA LoggedBoundNext ==
  (TypeOK /\ CountInv /\ HoldInv)' =>
     (/\ IsFiniteSet(Logged)
      /\ Cardinality(Logged) \in Nat
      /\ Cardinality(Logged) <= outstanding * OpBlocks)'
<1>1. (TypeOK /\ CountInv /\ HoldInv) =>
          /\ IsFiniteSet(Logged)
          /\ Cardinality(Logged) \in Nat
          /\ Cardinality(Logged) <= outstanding * OpBlocks
  BY LoggedBound
<1> QED
  BY <1>1, PTL

(* ReservationCovers in the state after a step.                            *)
LEMMA ReservationCoversNext ==
  Room => ((TypeOK /\ CountInv /\ HoldInv /\ Reserved)' =>
             (Len(lh) <= LogRegion - 2 /\ Len(lh) < LOGSIZE)')
<1>1. Room /\ TypeOK /\ CountInv /\ HoldInv /\ Reserved =>
         Len(lh) <= LogRegion - 2 /\ Len(lh) < LOGSIZE
  BY ReservationCovers
<1>2. Room => Room'
  BY DEF Room
<1> QED
  BY <1>1, <1>2, PTL
-----------------------------------------------------------------------------
(* Up, with the invariant: nobody commits or the log is being written.     *)
LEMMA UpRuns ==
  ASSUME IInv, Up
  PROVE  /\ committing => phase \in {"write_log", "install", "done"}
         /\ ~committing => phase = "run"
  BY DEF IInv, Inv, CountInv, Up, Recovering

(* An operation smaller than its reservation leaves a margin.              *)
LEMMA Slack ==
  ASSUME NEW l \in Nat, NEW k \in Nat, NEW c \in Nat, NEW M \in Nat,
         NEW O \in 0..M, NEW L \in Nat, l + (k + 1) * M <= L
  PROVE  l + (k + 1) * O - c <= L - (M - O)
<1> DEFINE x == k * M
           y == k * O
<1>1. x \in Nat /\ y \in Nat /\ y <= x
  OBVIOUS
<1>2. (k + 1) * M = x + M /\ (k + 1) * O = y + O
  OBVIOUS
<1> HIDE DEF x, y
<1> QED
  BY <1>1, <1>2

(* begin_op() preserves the invariant.                                     *)
LEMMA BeginOpInv ==
  ASSUME Room, IInv, NEW p \in Procs, BeginOp(p)
  PROVE  IInv'
<1> USE DEF IInv, Inv, diskVars, bufVars, logVars, opVars
<1>1. phase = "run" /\ ~committing
  BY UpRuns DEF BeginOp, MayBegin
<1>2. inopBar' = inopBar \cup {p} /\ p \notin inopBar
  BY DEF BeginOp, TypeOK, inopBar, InOp, PCs
<1>3. outstanding' = Cardinality(inopBar')
  BY <1>2, LoggedBound, FS_AddElement DEF BeginOp, Reserve, CountInv
<1>4. TypeOK'
  BY DEF TypeOK, BeginOp, Reserve, PCs, InOp
<1>5. CountInv'
  BY <1>1, <1>3 DEF CountInv, BeginOp, TypeOK, Recovering
<1>6. HoldInv'
  BY DEF HoldInv, BeginOp, TypeOK, InOp
<1>7. ReserveInv'
  <2>1. Logged' = Logged
    BY DEF Logged, BeginOp
  <2>2. Reserved'
    <3>1. Len(lh) + (outstanding + 1) * MAXOPBLOCKS <= LOGSIZE
      BY DEF BeginOp, MayBegin, SpaceFor
    <3>2. Len(lh) \in Nat /\ Cardinality(Logged) \in Nat /\ outstanding \in Nat
      BY LoggedBound DEF TypeOK
    <3>3. Len(lh) + (outstanding + 1) * OpBlocks - Cardinality(Logged)
            <= LOGSIZE - (MAXOPBLOCKS - OpBlocks)
      BY <3>1, <3>2, Slack, LogConstants DEF LogConstants
    <3> QED
      BY <2>1, <3>3 DEF BeginOp, Reserve, Reserved
  <2> QED
    BY <1>1, <2>1, <2>2 DEF ReserveInv, BeginOp, Reserve, TypeOK
<1>8. HeadInv' /\ CacheInv' /\ CopyInv' /\ NoPanic'
  BY DEF HeadInv, CacheInv, CopyInv, NoPanic, BeginOp, View, Held, Recovering
<1> QED
  BY <1>4, <1>5, <1>6, <1>7, <1>8

(* Going to sleep in begin_op() preserves the invariant.                   *)
LEMMA BeginSleepInv ==
  ASSUME IInv, NEW p \in Procs, BeginSleep(p)
  PROVE  IInv'
<1> USE DEF IInv, Inv, diskVars, bufVars, logVars, opVars
<1>1. inopBar' = inopBar
  BY DEF BeginSleep, TypeOK, inopBar, InOp, PCs
<1>2. TypeOK'
  BY DEF TypeOK, BeginSleep, PCs, InOp
<1>3. CountInv'
  BY <1>1 DEF CountInv, BeginSleep, TypeOK, Recovering, Up
<1>4. HoldInv'
  BY DEF HoldInv, BeginSleep, TypeOK, InOp
<1>5. Logged' = Logged
  BY DEF Logged, BeginSleep
<1>6. ReserveInv' /\ HeadInv' /\ CacheInv' /\ CopyInv' /\ NoPanic'
  BY <1>5 DEF ReserveInv, Reserved, HeadInv, CacheInv, CopyInv, NoPanic, BeginSleep, View,
              Held, Recovering
<1> QED
  BY <1>2, <1>3, <1>4, <1>6

(* Changing a block in the cache preserves the invariant.                  *)
LEMMA ModifyInv ==
  ASSUME IInv, NEW p \in Procs, NEW b \in Blocks, NEW d \in Data, Modify(p, b, d)
  PROVE  IInv'
<1> USE DEF IInv, Inv, diskVars, bufVars, logVars, opVars
<1>0. b # NoBuf /\ d # NoBuf
  BY LogConstants DEF LogConstants
<1>1. inopBar' = inopBar /\ p \in inopBar
  BY DEF Modify, TypeOK, inopBar, InOp, PCs
<1>2. phase = "run" /\ ~committing
  BY <1>1, UpRuns DEF Modify, CountInv
<1>3. TypeOK'
  BY DEF TypeOK, Modify, PCs, InOp
<1>4. CountInv'
  BY <1>1 DEF CountInv, Modify, TypeOK, Recovering, Up
<1>5. HoldInv'
  <2>1. IsFiniteSet(wrote[p] \cup {b})
    BY FS_AddElement DEF HoldInv
  <2> QED
    BY <1>0, <2>1 DEF HoldInv, Modify, TypeOK, InOp, Held
<1>6. ReserveInv'
  <2>1. Logged \subseteq Logged'
    BY DEF Logged, Modify, TypeOK
  <2>2. IsFiniteSet(Logged') /\ Cardinality(Logged') \in Nat
    BY <1>3, <1>4, <1>5, LoggedBoundNext
  <2>3. Cardinality(Logged) <= Cardinality(Logged') /\ Cardinality(Logged) \in Nat
    BY <2>1, <2>2, FS_Subset, LoggedBound
  <2>4. outstanding * OpBlocks \in Int /\ Len(lh) \in Nat
    BY LogConstants DEF LogConstants, TypeOK
  <2> DEFINE x == outstanding * OpBlocks
  <2>5. x \in Int
    BY <2>4
  <2>6. Reserved =>
          Len(lh) + x - Cardinality(Logged) <= LOGSIZE - (MAXOPBLOCKS - OpBlocks)
    BY DEF Reserved
  <2> HIDE DEF x
  <2>7. Reserved =>
          Len(lh) + x - Cardinality(Logged') <= LOGSIZE - (MAXOPBLOCKS - OpBlocks)
    BY <2>2, <2>3, <2>4, <2>5, <2>6, LogConstants DEF LogConstants
  <2> QED
    BY <2>7 DEF x, ReserveInv, Reserved, Modify
<1>7. HeadInv' /\ CopyInv' /\ NoPanic'
  BY <1>2 DEF HeadInv, CopyInv, NoPanic, Modify
<1>8. CacheInv'
  <2>1. cur[p] = NoBuf
    BY DEF HoldInv, Modify
  <2>2. Held(b)' /\ \A c \in Blocks : Held(c) => Held(c)'
    BY <1>0, <2>1, LogConstants DEF LogConstants, Held, Modify, TypeOK
  <2>3. \A c \in Blocks \ {b} : cache'[c] = cache[c]
    BY DEF Modify, TypeOK
  <2>4. cache'[b] # NoBuf
    BY <1>0 DEF Modify, TypeOK
  <2> QED
    BY <1>2, <2>2, <2>3, <2>4 DEF CacheInv, Modify, Recovering, TypeOK
<1> QED
  BY <1>3, <1>4, <1>5, <1>6, <1>7, <1>8

(* The unlocked checks of log_write() pass, and the invariant is kept.     *)
LEMMA LogWriteCheckInv ==
  ASSUME Room, IInv, NEW p \in Procs, LogWriteCheck(p)
  PROVE  IInv'
<1> USE DEF IInv, Inv, diskVars, bufVars, logVars, opVars
<1>1. p \in inopBar
  BY DEF LogWriteCheck, TypeOK, inopBar, InOp, PCs
<1>2. phase = "run" /\ ~committing
  BY <1>1, UpRuns DEF LogWriteCheck, CountInv
<1>3. outstanding > 0
  BY <1>1, LoggedBound, FS_EmptySet DEF CountInv, TypeOK
<1>4. ~LogWritePanics
  <2>1. Len(lh) <= LogRegion - 2 /\ Len(lh) < LOGSIZE
    BY <1>2, <1>3, ReservationCovers DEF ReserveInv
  <2> QED
    BY <1>3, <2>1, LogConstants DEF LogConstants, LogWritePanics, TypeOK
<1>5. /\ pc[p] = "modified" /\ pc' = [pc EXCEPT ![p] = "checked"]
      /\ UNCHANGED <<diskVars, bufVars, logVars, cur, wrote, phase, tail, panicked>>
  BY <1>4 DEF LogWriteCheck
<1>6. inopBar' = inopBar
  BY <1>5 DEF TypeOK, inopBar, InOp, PCs
<1>7. TypeOK'
  BY <1>5 DEF TypeOK, PCs, InOp
<1>8. CountInv'
  BY <1>5, <1>6 DEF CountInv, TypeOK, Recovering, LogWriteCheck, Up
<1>9. HoldInv'
  BY <1>5 DEF HoldInv, TypeOK, InOp
<1>10. Logged' = Logged
  BY <1>5 DEF Logged
<1>11. ReserveInv' /\ HeadInv' /\ CacheInv' /\ CopyInv' /\ NoPanic'
  BY <1>5, <1>10 DEF ReserveInv, Reserved, HeadInv, CacheInv, CopyInv, NoPanic, View,
                     Held, Recovering
<1> QED
  BY <1>7, <1>8, <1>9, <1>11

(* log_write() under the lock preserves the invariant: what it appends was *)
(* reserved.                                                               *)
LEMMA LogWriteAppendInv ==
  ASSUME Room, IInv, NEW p \in Procs, LogWriteAppend(p)
  PROVE  IInv'
<1> USE DEF IInv, Inv, diskVars, bufVars, logVars, opVars
<1> DEFINE b == cur[p]
<1>0. b \in Blocks /\ b # NoBuf /\ cache[b] # NoBuf /\ b \in wrote[p] /\ Held(b)
  BY DEF HoldInv, LogWriteAppend, TypeOK, Held
<1>1. inopBar' = inopBar /\ p \in inopBar
  BY DEF LogWriteAppend, TypeOK, inopBar, InOp, PCs
<1>2. phase = "run" /\ ~committing
  BY <1>1, UpRuns DEF LogWriteAppend, CountInv
<1>3. outstanding > 0
  BY <1>1, LoggedBound, FS_EmptySet DEF CountInv, TypeOK
<1>4. /\ lh' \in Seq(Blocks) /\ IsInjective(lh')
      /\ Range(lh') = Range(lh) \cup {b}
      /\ Len(lh') = IF b \in Range(lh) THEN Len(lh) ELSE Len(lh) + 1
  BY <1>0, AbsorbProperties DEF LogWriteAppend, HeadInv, TypeOK
<1>5. TypeOK'
  BY <1>0, <1>4 DEF TypeOK, LogWriteAppend, PCs, InOp, Pinned
<1>6. CountInv'
  BY <1>1 DEF CountInv, LogWriteAppend, TypeOK, Recovering, Up
<1>7. HoldInv'
  BY <1>0 DEF HoldInv, LogWriteAppend, TypeOK, InOp
<1>8. Reserved'
  <2> DEFINE x == outstanding * OpBlocks
             c == Cardinality(Logged)
             e == Cardinality(Logged')
  <2>1. x \in Int /\ c \in Nat /\ e \in Nat /\ Len(lh) \in Nat
    BY <1>5, <1>6, <1>7, LoggedBound, LoggedBoundNext, LogConstants
    DEF LogConstants, TypeOK
  <2>2. Len(lh) + x - c <= LOGSIZE - (MAXOPBLOCKS - OpBlocks)
    BY <1>2, <1>3 DEF ReserveInv, Reserved
  <2>3. Logged \subseteq Logged' /\ IsFiniteSet(Logged')
    BY <1>4, <1>5, <1>6, <1>7, LoggedBoundNext DEF Logged, LogWriteAppend
  <2>4. c <= e
    BY <2>3, FS_Subset
  <2>5. b \notin Range(lh) => c + 1 <= e
    <3>1. <<p, b>> \in Logged'
      BY <1>0, <1>4 DEF Logged, LogWriteAppend
    <3>2. b \notin Range(lh) => Logged # Logged'
      BY <3>1 DEF Logged
    <3> QED
      BY <2>1, <2>3, <2>4, <3>2, FS_Subset
  <2>6. Len(lh') <= Len(lh) + (e - c)
    BY <1>4, <2>1, <2>4, <2>5
  <2>7. x = outstanding' * OpBlocks /\ Len(lh') \in Nat
    BY <1>4 DEF LogWriteAppend
  <2> HIDE DEF x, c, e
  <2>8. Len(lh') + x - e <= LOGSIZE - (MAXOPBLOCKS - OpBlocks)
    BY <2>1, <2>2, <2>6, <2>7, LogConstants DEF LogConstants
  <2> QED
    BY <2>7, <2>8 DEF Reserved, e
<1>9. ReserveInv'
  BY <1>3, <1>5, <1>6, <1>7, <1>8, ReservationCoversNext
  DEF ReserveInv, LogWriteAppend, TypeOK
<1>10. HeadInv' /\ CopyInv' /\ NoPanic'
  BY <1>2, <1>4, LogConstants DEF LogConstants, HeadInv, CopyInv, NoPanic,
     LogWriteAppend, TypeOK
<1>11. CacheInv'
  <2>1. dirty' = Range(lh')
    BY <1>2, <1>4 DEF CacheInv, LogWriteAppend, Pinned
  <2>2. \A c \in Blocks : Held(c) => Held(c)' \/ c = b
    BY DEF Held, LogWriteAppend, TypeOK
  <2> QED
    BY <1>0, <1>2, <2>1, <2>2 DEF CacheInv, LogWriteAppend, Pinned, Recovering
<1> QED
  BY <1>5, <1>6, <1>7, <1>9, <1>10, <1>11

(* end_op() preserves the invariant: it returns what it did not use, and   *)
(* the last one starts commit() with nobody inside.                        *)
LEMMA EndOpInv ==
  ASSUME Room, IInv, NEW p \in Procs, EndOp(p)
  PROVE  IInv'
<1> USE DEF IInv, Inv, diskVars, bufVars, logVars, opVars
<1>1. p \in inopBar /\ pc[p] = "active" /\ cur[p] = NoBuf
  BY DEF EndOp, TypeOK, inopBar, InOp, HoldInv
<1>2. phase = "run" /\ ~committing
  BY <1>1, UpRuns DEF EndOp, CountInv
<1>3. /\ EndOpNotLast(p) \/ EndOpLast(p)
      /\ outstanding' = outstanding - 1
      /\ wrote' = [wrote EXCEPT ![p] = {}]
      /\ UNCHANGED <<diskVars, bufVars, lh, cur, panicked>>
  BY <1>2 DEF EndOp
<1>4. outstanding > 0 /\ outstanding \in Nat
  BY <1>1, LoggedBound, FS_EmptySet DEF CountInv, TypeOK
<1>5. /\ pc'[p] \in {"idle", "commit"}
      /\ \A q \in Procs \ {p} : pc'[q] = pc[q]
            \/ (pc[q] = "asleep" /\ pc'[q] = "begin")
      /\ pc' \in [Procs -> PCs]
      /\ \A q \in Procs : pc'[q] = "commit" <=> (q = p /\ outstanding = 1)
  <2>0. \A q \in Procs : pc[q] # "commit"
    BY <1>2 DEF CountInv
  <2>1. CASE EndOpNotLast(p)
    BY <1>1, <2>0, <2>1 DEF EndOpNotLast, EndOpWake, WokenBy, TypeOK, PCs
  <2>2. CASE EndOpLast(p)
    BY <1>1, <2>0, <2>2 DEF EndOpLast, TypeOK, PCs
  <2> QED
    BY <1>3, <2>1, <2>2
<1>6. inopBar' = inopBar \ {p}
  BY <1>5 DEF inopBar, InOp
<1>7. outstanding' = Cardinality(inopBar')
  BY <1>1, <1>3, <1>6, LoggedBound, FS_RemoveElement DEF CountInv
<1>8. TypeOK'
  <2>1. phase' \in Phases /\ tail' \in Nat
    BY <1>3 DEF EndOpNotLast, EndOpLast, Phases, TypeOK
  <2>2. committing' \in BOOLEAN
    <3>1. CASE EndOpNotLast(p)
      BY <3>1 DEF EndOpNotLast, TypeOK
    <3>2. CASE EndOpLast(p)
      BY <3>2 DEF EndOpLast
    <3> QED
      BY <1>3, <3>1, <3>2
  <2>3. outstanding' \in Nat /\ wrote' \in [Procs -> SUBSET Blocks]
    BY <1>3, <1>4 DEF TypeOK
  <2> QED
    BY <1>3, <1>5, <2>1, <2>2, <2>3 DEF TypeOK
<1>9. /\ outstanding = 1 => committing' /\ phase' \in {"write_log", "done"}
                            /\ (phase' = "done" <=> lh = <<>>) /\ tail' = 0
      /\ outstanding # 1 => ~committing' /\ phase' = "run" /\ tail' = tail
  BY <1>2, <1>3 DEF EndOpNotLast, EndOpLast
<1>10. CountInv'
  <2>1. IsFiniteSet(inopBar')
    BY <1>6, LoggedBound, FS_RemoveElement
  <2>2. outstanding = 1 => inopBar' = {}
    <3>1. outstanding = 1 => Cardinality(inopBar') = 0
      BY <1>3, <1>7
    <3> QED
      BY <2>1, <3>1, FS_EmptySet
  <2>3. ~Recovering'
    BY <1>9 DEF Recovering
  <2>4. committing' <=> \E q \in Procs : pc'[q] = "commit"
    BY <1>5, <1>9
  <2> QED
    BY <1>5, <1>7, <1>9, <2>2, <2>3, <2>4 DEF CountInv
<1>11. HoldInv'
  <2>0. OpBlocks \in Nat
    BY LogConstants DEF LogConstants
  <2>1. IsFiniteSet({}) /\ Cardinality({}) <= OpBlocks
    BY <2>0, FS_EmptySet
  <2>2. \A q \in Procs \ {p} : wrote'[q] = wrote[q]
    BY <1>3 DEF TypeOK
  <2>3. wrote'[p] = {}
    BY <1>3 DEF TypeOK
  <2> QED
    BY <1>1, <1>3, <1>5, <2>1, <2>2, <2>3 DEF HoldInv, InOp
<1>12. outstanding' > 0 => Reserved'
  <2> DEFINE mine == {u \in Logged : u[1] = p}
             x == outstanding * OpBlocks
             c == Cardinality(Logged)
             m == Cardinality(mine)
  <2>1. Logged' = Logged \ mine
    BY <1>3 DEF Logged, TypeOK
  <2>2. /\ IsFiniteSet(mine) /\ m \in Nat
        /\ Cardinality(Logged') = c - m
    <3>1. mine \in SUBSET Logged /\ Logged \cap mine = mine
      OBVIOUS
    <3>2. IsFiniteSet(mine)
      BY <3>1, LoggedBound, FS_Subset
    <3>3. IsFiniteSet(Logged)
      BY LoggedBound
    <3>4. Cardinality(Logged \ mine) = Cardinality(Logged) - Cardinality(Logged \cap mine)
      BY <3>3, FS_Difference
    <3>5. Cardinality(mine) \in Nat
      BY <3>2, FS_CardinalityType
    <3> HIDE DEF mine
    <3> QED
      BY <2>1, <3>1, <3>2, <3>4, <3>5
  <2>3. m <= OpBlocks
    <3>1. \A u \in mine : /\ u = <<u[1], u[2]>>
                          /\ u[1] \in {p} /\ u[2] \in wrote[u[1]]
      BY DEF Logged
    <3>2. \A q \in {p} : IsFiniteSet(wrote[q]) /\ Cardinality(wrote[q]) <= OpBlocks
      BY DEF HoldInv
    <3>0. OpBlocks \in Nat
      BY LogConstants DEF LogConstants
    <3>3. IsFiniteSet({p}) /\ Cardinality({p}) = 1 /\ OpBlocks \in Nat
      BY <3>0, FS_Singleton
    <3> HIDE DEF mine
    <3>4. Cardinality(mine) <= Cardinality({p}) * OpBlocks
      BY <3>1, <3>2, <3>3, PairBound
    <3> QED
      BY <3>3, <3>4
  <2>4. x \in Int /\ c \in Nat /\ Len(lh) \in Nat /\ LOGSIZE \in Nat
        /\ MAXOPBLOCKS \in Nat /\ OpBlocks \in Nat
    BY LoggedBound, LogConstants DEF LogConstants, TypeOK
  <2>5. Len(lh) + x - c <= LOGSIZE - (MAXOPBLOCKS - OpBlocks)
    BY <1>2, <1>4 DEF ReserveInv, Reserved
  <2>6. outstanding' * OpBlocks = x - OpBlocks
    BY <1>3, <1>4, <2>4
  <2> HIDE DEF x, c, m, mine
  <2>7. Len(lh) + (x - OpBlocks) - (c - m) <= LOGSIZE - (MAXOPBLOCKS - OpBlocks)
    BY <2>2, <2>3, <2>4, <2>5
  <2> QED
    BY <1>3, <2>2, <2>6, <2>7 DEF Reserved
<1>13. ReserveInv'
  BY <1>3, <1>4, <1>9, <1>12 DEF ReserveInv
<1>14. HeadInv' /\ CopyInv' /\ NoPanic'
  BY <1>2, <1>3, <1>9 DEF HeadInv, CopyInv, NoPanic, TypeOK
<1>15. CacheInv'
  BY <1>2, <1>3, <1>9 DEF CacheInv, Recovering, Held
<1> QED
  BY <1>8, <1>10, <1>11, <1>13, <1>14, <1>15
-----------------------------------------------------------------------------
(* The block a commit step works on.                                       *)
LEMMA TailBlock ==
  ASSUME IInv, tail < Len(lh)
  PROVE  /\ lh[tail + 1] \in Blocks /\ tail + 1 \in 1..Len(lh)
         /\ tail + 1 \in 1..(LogRegion - 1)
         /\ \A i \in 1..Len(lh) : lh[i] = lh[tail + 1] => i = tail + 1
         /\ \A i \in 1..Len(lh) : lh[i] \in Blocks /\ i \in 1..(LogRegion - 1)
<1>1. lh \in Seq(Blocks) /\ tail \in Nat /\ Len(lh) \in Nat /\ lh # <<>>
  BY DEF IInv, TypeOK
<1>2. Len(lh) <= LogRegion - 2
  BY <1>1 DEF IInv, Inv, ReserveInv
<1> QED
  BY <1>1, <1>2, LogConstants
  DEF LogConstants, IInv, Inv, HeadInv, IsInjective

(* A step of write_log() preserves the invariant.                          *)
LEMMA WriteLogInv ==
  ASSUME IInv, WriteLog
  PROVE  IInv'
<1> USE DEF IInv, Inv, diskVars, bufVars, logVars, opVars
<1> DEFINE b == lh[tail + 1]
<1>1. phase = "write_log" /\ committing /\ tail < Len(lh) /\ ~Recovering
  BY DEF WriteLog, CountInv, Recovering
<1>2. b \in dirty
  BY <1>1, TailBlock, RangeSeq DEF CacheInv, TypeOK
<1>3. View(b) = cache[b] /\ View(b) \in Data
  <2>1. cache[b] # NoBuf /\ b \in Blocks
    BY <1>1, <1>2, TailBlock DEF CacheInv
  <2> QED
    BY <2>1 DEF View, TypeOK
<1>4. cache' = cache /\ dlog' = [dlog EXCEPT ![tail + 1] = cache[b]] /\ tail' = tail + 1
  BY <1>3, TailBlock DEF WriteLog, TypeOK
<1>5. /\ UNCHANGED <<disk, dhead, cache, dirty, lh, outstanding, committing, pc,
                     cur, wrote, phase, panicked>>
  BY <1>4 DEF WriteLog
<1>6. TypeOK'
  <2>0. tail' \in Nat
    BY <1>4 DEF TypeOK
  <2>1. dlog' \in [1..(LogRegion - 1) -> Data]
    BY <1>3, <1>4 DEF TypeOK
  <2> QED
    BY <1>5, <2>0, <2>1 DEF TypeOK
<1>7. CountInv' /\ HoldInv' /\ ReserveInv' /\ NoPanic'
  BY <1>5 DEF CountInv, HoldInv, ReserveInv, Reserved, Logged, NoPanic, inopBar,
              Recovering
<1>8. HeadInv' /\ CacheInv'
  BY <1>1, <1>4, <1>5 DEF HeadInv, CacheInv, Recovering, Held, TypeOK
<1>9. CopyInv'
  <2>1. \A i \in 1..tail' : dlog'[i] = cache[lh[i]]
    <3> SUFFICES ASSUME NEW i \in 1..tail' PROVE dlog'[i] = cache[lh[i]]
      OBVIOUS
    <3>1. CASE i = tail + 1
      BY <1>1, <1>4, <3>1, TailBlock DEF TypeOK
    <3>2. CASE i # tail + 1
      BY <1>1, <1>4, <3>2 DEF TypeOK, CopyInv
    <3> QED
      BY <3>1, <3>2
  <2> QED
    BY <1>1, <1>5, <2>1 DEF CopyInv
<1> QED
  BY <1>6, <1>7, <1>8, <1>9

(* write_head() at the commit point preserves the invariant.               *)
LEMMA WriteHeadInv ==
  ASSUME IInv, WriteHead
  PROVE  IInv'
<1> USE DEF IInv, Inv, diskVars, bufVars, logVars, opVars
<1>1. phase = "write_log" /\ committing /\ tail = Len(lh) /\ ~Recovering
  BY DEF WriteHead, CountInv, Recovering
<1>2. ~Recovering' /\ phase' = "install" /\ tail' = 0 /\ dhead' = lh
  BY <1>1 DEF WriteHead, Recovering
<1>3. TypeOK'
  BY DEF WriteHead, TypeOK, Phases
<1>4. CountInv' /\ HoldInv' /\ NoPanic'
  BY <1>1, <1>2 DEF WriteHead, CountInv, HoldInv, NoPanic, inopBar
<1>5. ReserveInv' /\ HeadInv'
  BY <1>2 DEF WriteHead, ReserveInv, HeadInv, TypeOK
<1>6. CacheInv'
  <2>1. dirty = {lh[i] : i \in (0 + 1)..Len(lh)}
    BY <1>1, RangeSeq DEF CacheInv, TypeOK
  <2> QED
    BY <1>1, <1>2, <2>1 DEF WriteHead, CacheInv, Held
<1>7. CopyInv'
  <2>1. \A i \in 1..Len(lh) : lh[i] \in dirty
    BY <1>1, RangeSeq DEF CacheInv, TypeOK
  <2>2. \A i \in 1..Len(lh) : View(lh[i]) = dlog[i]
    BY <1>1, <2>1 DEF CacheInv, CopyInv, View
  <2> QED
    BY <1>1, <1>2, <2>2 DEF WriteHead, CopyInv, View
<1> QED
  BY <1>3, <1>4, <1>5, <1>6, <1>7

(* A step of install_trans() preserves the invariant.                      *)
LEMMA InstallTransInv ==
  ASSUME IInv, InstallTrans
  PROVE  IInv'
<1> USE DEF IInv, Inv, diskVars, bufVars, logVars, opVars
<1> DEFINE b == lh[tail + 1]
           d == dlog[tail + 1]
<1>1. phase = "install" /\ tail < Len(lh)
  BY DEF InstallTrans
<1>2. b \in Blocks /\ d \in Data /\ d # NoBuf
  BY <1>1, TailBlock, LogConstants DEF LogConstants, TypeOK
<1>3. /\ disk' = [disk EXCEPT ![b] = d] /\ cache' = [cache EXCEPT ![b] = d]
      /\ dirty' = dirty \ {b} /\ tail' = tail + 1
      /\ UNCHANGED <<dlog, dhead, lh, outstanding, committing, pc, cur, wrote,
                     phase, panicked>>
  BY DEF InstallTrans
<1>4. TypeOK'
  BY <1>2, <1>3 DEF TypeOK
<1>5. CountInv' /\ ReserveInv' /\ NoPanic'
  BY <1>3 DEF CountInv, ReserveInv, Reserved, Logged, NoPanic, inopBar, Recovering
<1>6. HoldInv'
  BY <1>2, <1>3 DEF HoldInv, TypeOK
<1>7. HeadInv'
  BY <1>1, <1>3 DEF HeadInv, TypeOK
<1>8. CacheInv'
  <2>1. committing => dirty' = {lh[i] : i \in (tail' + 1)..Len(lh)}
    <3>1. committing => dirty = {lh[i] : i \in (tail + 1)..Len(lh)}
      BY <1>1 DEF CacheInv
    <3>2. /\ (tail + 1)..Len(lh) = {tail + 1} \cup (tail' + 1)..Len(lh)
          /\ \A i \in (tail' + 1)..Len(lh) : lh[i] # b
      BY <1>1, <1>3, TailBlock DEF TypeOK
    <3> QED
      BY <1>3, <3>1, <3>2
  <2>2. \A c \in Blocks : \/ c \in dirty'
                          \/ Held(c)'
                          \/ cache'[c] \in {NoBuf, disk'[c]}
    BY <1>2, <1>3 DEF CacheInv, Held, TypeOK
  <2>3. \A c \in dirty' : cache'[c] # NoBuf
    BY <1>2, <1>3 DEF CacheInv, TypeOK
  <2>4. Recovering' => dirty' = {}
    BY <1>1, <1>3 DEF CacheInv, Recovering
  <2> QED
    BY <1>1, <1>3, <2>1, <2>2, <2>3, <2>4 DEF CacheInv
<1>9. CopyInv'
  <2>1. \A i \in 1..tail' : disk'[lh[i]] = dlog[i]
    <3> SUFFICES ASSUME NEW i \in 1..tail' PROVE disk'[lh[i]] = dlog[i]
      OBVIOUS
    <3>1. CASE i = tail + 1
      BY <1>2, <1>3, <3>1 DEF TypeOK
    <3>2. CASE i # tail + 1
      <4>1. i \in 1..tail /\ i \in 1..Len(lh) /\ lh[i] # b /\ lh[i] \in Blocks
        BY <1>1, <1>3, <3>2, TailBlock DEF TypeOK
      <4> QED
        BY <1>1, <1>3, <4>1 DEF CopyInv, TypeOK
    <3> QED
      BY <3>1, <3>2
  <2>2. committing => \A i \in 1..Len(lh) : View(lh[i])' = dlog[i]
    <3> SUFFICES ASSUME committing, NEW i \in 1..Len(lh) PROVE View(lh[i])' = dlog[i]
      OBVIOUS
    <3>1. CASE i = tail + 1
      BY <1>2, <1>3, <3>1 DEF TypeOK, View
    <3>2. CASE i # tail + 1
      BY <1>1, <1>3, <3>2, TailBlock DEF CopyInv, TypeOK, View
    <3> QED
      BY <3>1, <3>2
  <2> QED
    BY <1>1, <1>3, <2>1, <2>2 DEF CopyInv
<1> QED
  BY <1>4, <1>5, <1>6, <1>7, <1>8, <1>9

(* Erasing the header preserves the invariant.                             *)
LEMMA ClearHeadInv ==
  ASSUME IInv, ClearHead
  PROVE  IInv'
<1> USE DEF IInv, Inv, diskVars, bufVars, logVars, opVars
<1>1. phase = "install" /\ tail = Len(lh) /\ Len(lh) \in Nat
  BY DEF ClearHead, TypeOK
<1>2. /\ lh' = <<>> /\ dhead' = <<>> /\ tail' = 0
      /\ committing => phase' = "done"
      /\ ~committing => phase' = "run"
      /\ ~Recovering'
      /\ UNCHANGED <<disk, dlog, bufVars, outstanding, committing, opVars, panicked>>
  BY DEF ClearHead, Recovering
<1>3. dirty = {}
  BY <1>1 DEF CacheInv, Recovering
<1>4. inopBar = {} /\ outstanding = 0
  BY <1>1, FS_EmptySet DEF CountInv, Recovering, inopBar, InOp
<1>5. Len(lh') = 0 /\ DOMAIN lh' = {} /\ Range(lh') = {} /\ lh' \in Seq(Blocks)
  BY <1>2 DEF Range
<1>6. TypeOK'
  BY <1>1, <1>2, <1>5 DEF TypeOK, Phases
<1>7. CountInv'
  BY <1>1, <1>2 DEF CountInv, inopBar
<1>8. HoldInv' /\ NoPanic'
  BY <1>2 DEF HoldInv, NoPanic
<1>9. ReserveInv'
  BY <1>2, <1>4 DEF ReserveInv
<1>10. HeadInv'
  BY <1>2, <1>5 DEF HeadInv, IsInjective
<1>11. CacheInv' /\ CopyInv'
  BY <1>2, <1>3, <1>5 DEF CacheInv, CopyInv, Held
<1> QED
  BY <1>6, <1>7, <1>8, <1>9, <1>10, <1>11

(* The end of end_op() after commit() preserves the invariant.             *)
LEMMA EndCommitInv ==
  ASSUME IInv, NEW p \in Procs, EndCommit(p)
  PROVE  IInv'
<1> USE DEF IInv, Inv, diskVars, bufVars, logVars, opVars
<1>1. phase = "done" /\ committing /\ pc[p] = "commit" /\ inopBar = {}
  BY DEF EndCommit, CountInv
<1>2. /\ committing' = FALSE /\ phase' = "run" /\ ~Recovering'
      /\ UNCHANGED <<diskVars, bufVars, lh, outstanding, cur, wrote, tail, panicked>>
  BY DEF EndCommit, Recovering
<1>3. /\ pc' \in [Procs -> PCs]
      /\ \A q \in Procs : /\ pc'[q] # "commit"
                          /\ pc'[q] \in InOp <=> pc[q] \in InOp
                          /\ pc'[q] = "modified" <=> pc[q] = "modified"
                          /\ pc'[q] = "checked" <=> pc[q] = "checked"
  BY <1>1 DEF EndCommit, CommitWake, WokenBy, TypeOK, PCs, InOp, CountInv
<1>4. inopBar' = {} /\ outstanding = 0 /\ outstanding \in Nat /\ lh = <<>>
  BY <1>1, <1>3, FS_EmptySet DEF inopBar, CountInv, HeadInv
<1>5. TypeOK'
  BY <1>2, <1>3 DEF TypeOK, Phases
<1>6. CountInv'
  BY <1>1, <1>2, <1>3, <1>4 DEF CountInv
<1>7. HoldInv'
  BY <1>2, <1>3 DEF HoldInv
<1>8. ReserveInv'
  BY <1>2, <1>4 DEF ReserveInv
<1>9. HeadInv' /\ CacheInv' /\ CopyInv' /\ NoPanic'
  BY <1>1, <1>2 DEF HeadInv, CacheInv, CopyInv, NoPanic, Held
<1> QED
  BY <1>5, <1>6, <1>7, <1>8, <1>9

(* Recycling a clean, unheld buffer preserves the invariant.               *)
LEMMA EvictInv ==
  ASSUME IInv, NEW b \in Blocks, Evict(b)
  PROVE  IInv'
<1> USE DEF IInv, Inv, diskVars, bufVars, logVars, opVars
<1>1. /\ cache' = [cache EXCEPT ![b] = NoBuf] /\ ~Held(b) /\ b \notin dirty
      /\ ~Recovering
      /\ UNCHANGED <<diskVars, dirty, logVars, opVars, phase, tail, panicked>>
  BY DEF Evict, Evictable, Up
<1>2. TypeOK'
  BY <1>1 DEF TypeOK
<1>3. CountInv' /\ ReserveInv' /\ HeadInv' /\ NoPanic'
  BY <1>1 DEF CountInv, ReserveInv, Reserved, Logged, HeadInv, NoPanic, inopBar,
              Recovering
<1>4. HoldInv'
  BY <1>1 DEF HoldInv, Held, TypeOK
<1>5. CacheInv'
  BY <1>1 DEF CacheInv, Held, Recovering, TypeOK
<1>6. CopyInv'
  <2>1. phase = "write_log" => \A i \in 1..tail : lh[i] \in dirty
    BY RangeSeq DEF CacheInv, HeadInv, TypeOK
  <2>2. phase = "install" /\ committing =>
          \A i \in 1..Len(lh) : i \in 1..tail \/ lh[i] \in dirty
    BY DEF CacheInv, TypeOK
  <2>3. \A c \in Blocks \ {b} : cache'[c] = cache[c]
    BY <1>1 DEF TypeOK
  <2>4. phase = "write_log" => \A i \in 1..tail : dlog[i] = cache'[lh[i]]
    BY <1>1, <2>1, <2>3 DEF CopyInv, TypeOK
  <2>5. phase = "install" /\ committing =>
          \A i \in 1..Len(lh) : View(lh[i])' = dlog[i]
    <3> SUFFICES ASSUME phase = "install", committing, NEW i \in 1..Len(lh)
                 PROVE  View(lh[i])' = dlog[i]
      OBVIOUS
    <3>0. lh[i] \in Blocks
      BY DEF TypeOK
    <3>1. CASE lh[i] = b
      BY <1>1, <2>2, <3>0, <3>1 DEF CopyInv, View, TypeOK
    <3>2. CASE lh[i] # b
      BY <1>1, <2>3, <3>0, <3>2 DEF CopyInv, View
    <3> QED
      BY <3>1, <3>2
  <2> QED
    BY <1>1, <2>4, <2>5 DEF CopyInv
<1> QED
  BY <1>2, <1>3, <1>4, <1>5, <1>6

(* Reading a block into the cache preserves the invariant.                 *)
LEMMA BreadInv ==
  ASSUME IInv, NEW b \in Blocks, Bread(b)
  PROVE  IInv'
<1> USE DEF IInv, Inv, diskVars, bufVars, logVars, opVars
<1>1. /\ cache' = [cache EXCEPT ![b] = disk[b]] /\ cache[b] = NoBuf
      /\ ~Recovering /\ disk[b] \in Data /\ disk[b] # NoBuf
      /\ UNCHANGED <<diskVars, dirty, logVars, opVars, phase, tail, panicked>>
  BY LogConstants DEF LogConstants, Bread, Up, TypeOK
<1>2. \A c \in Blocks : View(c)' = View(c)
  BY <1>1 DEF View, TypeOK
<1>3. TypeOK'
  BY <1>1 DEF TypeOK
<1>4. CountInv' /\ ReserveInv' /\ HeadInv' /\ NoPanic'
  BY <1>1 DEF CountInv, ReserveInv, Reserved, Logged, HeadInv, NoPanic, inopBar,
              Recovering
<1>5. HoldInv'
  BY <1>1 DEF HoldInv, TypeOK
<1>6. CacheInv'
  <2>1. \A c \in Blocks : cache'[c] = IF c = b THEN disk[b] ELSE cache[c]
    BY <1>1 DEF TypeOK
  <2>2. \A c \in dirty : c \in Blocks /\ cache'[c] # NoBuf
    BY <1>1, <2>1 DEF CacheInv, TypeOK
  <2>3. ASSUME NEW c \in Blocks
        PROVE  c \in dirty \/ Held(c) \/ cache'[c] \in {NoBuf, disk[c]}
    BY <2>1 DEF CacheInv
  <2> QED
    BY <1>1, <2>2, <2>3 DEF CacheInv, Held, Recovering
<1>7. CopyInv'
  <2>1. phase = "write_log" => \A i \in 1..tail : lh[i] \in dirty
    BY RangeSeq DEF CacheInv, HeadInv, TypeOK
  <2>2. phase = "write_log" => \A i \in 1..tail : lh[i] # b /\ lh[i] \in Blocks
    BY <1>1, <2>1 DEF CacheInv, TypeOK
  <2>3. \A i \in 1..Len(lh) : lh[i] \in Blocks
    BY DEF TypeOK
  <2> QED
    BY <1>1, <1>2, <2>2, <2>3 DEF CopyInv, TypeOK
<1> QED
  BY <1>3, <1>4, <1>5, <1>6, <1>7

(* A crash leaves a state recovery can start from.                         *)
LEMMA CrashInv ==
  ASSUME IInv, Crash
  PROVE  IInv'
<1> USE DEF IInv, Inv, diskVars, Crash
<1>0. 0 <= OpBlocks
  BY LogConstants DEF LogConstants
<1>1. IsFiniteSet({}) /\ Cardinality({}) = 0 /\ 0 <= OpBlocks
  BY <1>0, FS_EmptySet
<1>2. inopBar' = {}
  BY DEF inopBar, InOp
<1>3. TypeOK'
  <2>1. cache' \in [Blocks -> Data \cup {NoBuf}] /\ cur' \in [Procs -> Blocks \cup {NoBuf}]
    OBVIOUS
  <2>2. wrote' \in [Procs -> SUBSET Blocks] /\ dirty' \in SUBSET Blocks
    OBVIOUS
  <2>3. lh' \in Seq(Blocks) /\ outstanding' \in Nat /\ tail' \in Nat
    OBVIOUS
  <2>4. pc' \in [Procs -> PCs] /\ phase' \in Phases
    BY DEF PCs, Phases
  <2>5. committing' \in BOOLEAN /\ panicked' \in BOOLEAN
    OBVIOUS
  <2> QED
    BY <2>1, <2>2, <2>3, <2>4, <2>5 DEF TypeOK
<1>4. CountInv'
  BY <1>1, <1>2 DEF CountInv
<1>5. HoldInv'
  BY <1>1 DEF HoldInv, InOp
<1>6. ReserveInv' /\ NoPanic'
  BY DEF ReserveInv, NoPanic
<1>7. HeadInv'
  BY DEF HeadInv, IsInjective
<1>8. CacheInv' /\ CopyInv'
  BY DEF CacheInv, CopyInv
<1> QED
  BY <1>3, <1>4, <1>5, <1>6, <1>7, <1>8

(* Reading the header on boot preserves the invariant.                     *)
LEMMA ReadHeadInv ==
  ASSUME IInv, ReadHead
  PROVE  IInv'
<1> USE DEF IInv, Inv, diskVars, bufVars, opVars
<1>1. phase = "boot" /\ ~committing /\ tail = 0 /\ Recovering /\ dirty = {}
  BY DEF ReadHead, CountInv, HeadInv, CacheInv, Recovering
<1>2. /\ lh' = dhead /\ phase' = "install" /\ Recovering'
      /\ UNCHANGED <<diskVars, bufVars, outstanding, committing, opVars, tail, panicked>>
  BY <1>1 DEF ReadHead, Recovering
<1>3. TypeOK'
  BY <1>2 DEF TypeOK, Phases
<1>4. CountInv' /\ HoldInv' /\ NoPanic'
  BY <1>1, <1>2 DEF CountInv, HoldInv, NoPanic, inopBar
<1>5. ReserveInv' /\ HeadInv' /\ CacheInv' /\ CopyInv'
  BY <1>1, <1>2 DEF ReserveInv, HeadInv, CacheInv, CopyInv, Held, TypeOK
<1> QED
  BY <1>3, <1>4, <1>5
-----------------------------------------------------------------------------
(* A step that changes nothing preserves the invariant.                    *)
LEMMA StutterInv ==
  ASSUME IInv, UNCHANGED vars
  PROVE  IInv'
<1> USE DEF IInv, Inv, vars, diskVars, bufVars, logVars, opVars
<1>1. TypeOK' /\ NoPanic' /\ CountInv' /\ HoldInv' /\ ReserveInv' /\ HeadInv'
  BY DEF TypeOK, NoPanic, CountInv, HoldInv, ReserveInv, Reserved, Logged, HeadInv,
         inopBar, Recovering
<1>2. CacheInv' /\ CopyInv'
  BY DEF CacheInv, CopyInv, Held, Recovering, View
<1> QED
  BY <1>1, <1>2

(* The first boot satisfies the invariant.                                 *)
LEMMA InitInv ==
  ASSUME Init
  PROVE  IInv
<1> USE DEF IInv, Inv, Init
<1>0. 0 <= OpBlocks
  BY LogConstants DEF LogConstants
<1>1. IsFiniteSet({}) /\ Cardinality({}) = 0 /\ 0 <= OpBlocks
  BY <1>0, FS_EmptySet
<1>2. inopBar = {}
  BY DEF inopBar, InOp
<1>3. TypeOK
  <2>1. cache \in [Blocks -> Data \cup {NoBuf}] /\ cur \in [Procs -> Blocks \cup {NoBuf}]
    OBVIOUS
  <2>2. wrote \in [Procs -> SUBSET Blocks] /\ dirty \in SUBSET Blocks
    OBVIOUS
  <2>3. lh \in Seq(Blocks) /\ dhead \in Seq(Blocks)
    OBVIOUS
  <2>4. pc \in [Procs -> PCs] /\ phase \in Phases
    BY DEF PCs, Phases
  <2>5. committing \in BOOLEAN /\ panicked \in BOOLEAN
    OBVIOUS
  <2>6. dlog \in [1..(LogRegion - 1) -> Data]
    OBVIOUS
  <2> QED
    BY <2>1, <2>2, <2>3, <2>4, <2>5, <2>6 DEF TypeOK
<1>4. CountInv /\ HoldInv
  BY <1>1, <1>2 DEF CountInv, HoldInv, InOp
<1>5. ReserveInv /\ NoPanic /\ HeadInv /\ CacheInv /\ CopyInv
  BY DEF ReserveInv, NoPanic, HeadInv, IsInjective, CacheInv, CopyInv
<1> QED
  BY <1>3, <1>4, <1>5

(* The invariant is inductive.                                             *)
LEMMA NextInv ==
  ASSUME Room, IInv, [Next]_vars
  PROVE  IInv'
<1>1. ASSUME NEW p \in Procs, BeginOp(p) \/ BeginSleep(p) \/ LogWriteCheck(p)
                              \/ LogWriteAppend(p) \/ EndOp(p) \/ EndCommit(p)
      PROVE  IInv'
  BY <1>1, BeginOpInv, BeginSleepInv, LogWriteCheckInv, LogWriteAppendInv, EndOpInv,
     EndCommitInv
<1>2. ASSUME NEW p \in Procs, NEW b \in Blocks, NEW d \in Data, Modify(p, b, d)
      PROVE  IInv'
  BY <1>2, ModifyInv
<1>3. ASSUME NEW b \in Blocks, Evict(b) \/ Bread(b)
      PROVE  IInv'
  BY <1>3, EvictInv, BreadInv
<1>4. CASE CommitStep
  BY <1>4, WriteLogInv, WriteHeadInv, InstallTransInv, ClearHeadInv DEF CommitStep
<1>5. CASE ReadHead
  BY <1>5, ReadHeadInv
<1>6. CASE Crash
  BY <1>6, CrashInv
<1>7. CASE UNCHANGED vars
  BY <1>7, StutterInv
<1> QED
  BY <1>1, <1>2, <1>3, <1>4, <1>5, <1>6, <1>7 DEF Next

(* The whole inductive invariant of log.c holds in every reachable state,  *)
(* crashes and recoveries included, when an operation is small enough.     *)
THEOREM Invariance == Room => (Spec => []IInv)
<1>1. Init => IInv
  BY InitInv
<1>2. Room /\ IInv /\ [Next]_vars => IInv'
  BY NextInv
<1>3. Room => Room'
  BY DEF Room
<1> QED
  BY <1>1, <1>2, <1>3, PTL DEF Spec

(* Every variable of log.c keeps its type; for the log blocks this needs   *)
(* the reservation argument, since an overlong log would index past them.  *)
THEOREM TypeCorrect == Room => (Spec => []TypeOK)
<1>1. IInv => TypeOK
  BY DEF IInv
<1> QED
  BY <1>1, Invariance, PTL

(* The panics of log_write() and end_op() are unreachable.                 *)
THEOREM PanicFree == Room => (Spec => []NoPanic)
<1>1. IInv => NoPanic
  BY DEF IInv
<1> QED
  BY <1>1, Invariance, PTL

(* The transaction in memory and the one on disk fit the log region.       *)
THEOREM Fits == Room => (Spec => []LogFits)
<1>1. IInv => LogFits
  BY LogConstants DEF LogConstants, IInv, Inv, ReserveInv, LogFits, TypeOK
<1> QED
  BY <1>1, Invariance, PTL
-----------------------------------------------------------------------------
(* The log implements AtomicDisk, and no sleeper of begin_op() is missed.  *)

(* With an empty header on disk, a reboot finds the home blocks; otherwise *)
(* it finds the logged copy of every block the header names.               *)
LEMMA RecoveredBlock ==
  ASSUME IInv
  PROVE  /\ \A c \in Blocks : c \notin Range(dhead) => Recovered(c) = disk[c]
         /\ \A i \in 1..Len(dhead) : Recovered(dhead[i]) = dlog[i]
         /\ \A i \in 1..Len(dhead) : dhead[i] \in Range(dhead)
         /\ \A c \in Range(dhead) : \E i \in 1..Len(dhead) : c = dhead[i]
         /\ dhead = <<>> => \A c \in Blocks : Recovered(c) = disk[c]
<1>1. dhead \in Seq(Blocks) /\ IsInjective(dhead)
  BY DEF IInv, Inv, HeadInv, TypeOK
<1>2. DOMAIN dhead = 1..Len(dhead) /\ Range(dhead) = {dhead[i] : i \in 1..Len(dhead)}
  BY <1>1, RangeSeq
<1>3. ASSUME NEW i \in 1..Len(dhead) PROVE Recovered(dhead[i]) = dlog[i]
  <2>1. LogIndex(dhead[i]) = i
    BY <1>1, <1>2 DEF LogIndex, IsInjective
  <2> QED
    BY <1>2, <2>1 DEF Recovered
<1>4. dhead = <<>> => Range(dhead) = {}
  BY <1>2
<1> QED
  BY <1>2, <1>3, <1>4 DEF Recovered

(* A block that is neither pinned nor held reads as it is on disk.         *)
LEMMA CleanView ==
  ASSUME IInv, NEW c \in Blocks, c \notin dirty, ~Held(c)
  PROVE  View(c) = disk[c]
  BY DEF IInv, Inv, CacheInv, View

(* Nobody holds a buffer when nobody is inside an operation.               *)
LEMMA NobodyHolds ==
  ASSUME IInv, inopBar = {}, NEW c \in Blocks
  PROVE  ~Held(c)
  BY LogConstants DEF LogConstants, IInv, Inv, HoldInv, Held, inopBar, InOp

(* While the disk part and the mode stay, so does what is durable.         *)
LEMMA SameDurable ==
  ASSUME UNCHANGED diskVars
  PROVE  durableBar' = durableBar /\ \A c \in Blocks : Recovered(c)' = Recovered(c)
  BY DEF diskVars, durableBar, Recovered, LogIndex

(* ... and what a running kernel sees.                                     *)
LEMMA SameMem ==
  ASSUME UNCHANGED <<diskVars, cache>>, Recovering' = Recovering
  PROVE  memBar' = memBar
<1>1. \A c \in Blocks : View(c)' = View(c) /\ Recovered(c)' = Recovered(c)
  BY SameDurable DEF View, diskVars
<1> QED
  BY <1>1 DEF memBar

(* The steps of a process map to Begin, Write, End or nothing.             *)
LEMMA ProcessRefines ==
  ASSUME Room, IInv, NEW p \in Procs
  PROVE  /\ BeginOp(p) => A!Begin(p)
         /\ BeginSleep(p) => UNCHANGED A!vars
         /\ \A b \in Blocks, d \in Data : Modify(p, b, d) => A!Write(p, b, d)
         /\ LogWriteCheck(p) => UNCHANGED A!vars
         /\ LogWriteAppend(p) => UNCHANGED A!vars
         /\ EndOp(p) => A!End(p)
         /\ EndCommit(p) => UNCHANGED A!vars
<1> USE DEF diskVars, bufVars, logVars, opVars
<1>0. pc \in [Procs -> PCs] /\ cache \in [Blocks -> Data \cup {NoBuf}]
  BY DEF IInv, TypeOK
<1>1. ASSUME BeginOp(p) PROVE A!Begin(p)
  <2>1. inopBar' = inopBar \cup {p} /\ p \notin inopBar
    BY <1>0, <1>1 DEF BeginOp, inopBar, InOp
  <2>2. UNCHANGED <<diskVars, cache>> /\ Recovering' = Recovering
    BY <1>1 DEF BeginOp, Recovering
  <2> QED
    BY <2>1, <2>2, SameDurable, SameMem DEF A!Begin
<1>2. ASSUME BeginSleep(p) PROVE UNCHANGED A!vars
  <2>1. inopBar' = inopBar
    BY <1>0, <1>2 DEF BeginSleep, inopBar, InOp
  <2>2. UNCHANGED <<diskVars, cache>> /\ Recovering' = Recovering
    BY <1>2 DEF BeginSleep, Recovering
  <2> QED
    BY <2>1, <2>2, SameDurable, SameMem DEF A!vars
<1>3. ASSUME NEW b \in Blocks, NEW d \in Data, Modify(p, b, d) PROVE A!Write(p, b, d)
  <2>1. inopBar' = inopBar /\ p \in inopBar
    BY <1>0, <1>3 DEF Modify, inopBar, InOp
  <2>2. UNCHANGED diskVars /\ ~Recovering /\ ~Recovering'
    BY <1>3 DEF Modify, Recovering, Up
  <2>3. d # NoBuf
    BY LogConstants DEF LogConstants
  <2>4. \A c \in Blocks : View(c)' = IF c = b THEN d ELSE View(c)
    BY <1>0, <1>3, <2>3 DEF Modify, View
  <2>5. memBar' = [memBar EXCEPT ![b] = d]
    BY <2>2, <2>4 DEF memBar
  <2> QED
    BY <2>1, <2>2, <2>5, SameDurable DEF A!Write
<1>4. ASSUME LogWriteCheck(p) PROVE UNCHANGED A!vars
  <2>1. inopBar' = inopBar
    BY <1>0, <1>4 DEF LogWriteCheck, Panic, inopBar, InOp
  <2>2. UNCHANGED <<diskVars, cache>> /\ Recovering' = Recovering
    BY <1>4 DEF LogWriteCheck, Panic, Recovering
  <2> QED
    BY <2>1, <2>2, SameDurable, SameMem DEF A!vars
<1>5. ASSUME LogWriteAppend(p) PROVE UNCHANGED A!vars
  <2>1. inopBar' = inopBar
    BY <1>0, <1>5 DEF LogWriteAppend, inopBar, InOp
  <2>2. UNCHANGED <<diskVars, cache>> /\ Recovering' = Recovering
    BY <1>5 DEF LogWriteAppend, Recovering
  <2> QED
    BY <2>1, <2>2, SameDurable, SameMem DEF A!vars
<1>6. ASSUME EndOp(p) PROVE A!End(p)
  <2>1. p \in inopBar
    BY <1>6 DEF EndOp, inopBar, InOp
  <2>2. ~committing /\ phase = "run" /\ ~Recovering
    BY <1>6, <2>1, UpRuns DEF EndOp, IInv, Inv, CountInv, Up
  <2>3. EndOpNotLast(p) \/ EndOpLast(p)
    BY <1>6, <2>2 DEF EndOp
  <2>4. inopBar' = inopBar \ {p}
    <3>1. CASE EndOpNotLast(p)
      BY <1>0, <3>1 DEF EndOpNotLast, EndOpWake, WokenBy, inopBar, InOp
    <3>2. CASE EndOpLast(p)
      BY <1>0, <3>2 DEF EndOpLast, inopBar, InOp
    <3> QED
      BY <2>3, <3>1, <3>2
  <2>5. UNCHANGED <<diskVars, cache>> /\ Recovering' = Recovering
    BY <1>6, <2>2, <2>3 DEF EndOp, EndOpNotLast, EndOpLast, Recovering
  <2> QED
    BY <2>1, <2>4, <2>5, SameDurable, SameMem DEF A!End
<1>7. ASSUME EndCommit(p) PROVE UNCHANGED A!vars
  <2>1. inopBar' = inopBar
    BY <1>0, <1>7 DEF EndCommit, CommitWake, WokenBy, inopBar, InOp
  <2>2. UNCHANGED <<diskVars, cache>> /\ Recovering' = Recovering
    BY <1>7 DEF EndCommit, Recovering
  <2> QED
    BY <2>1, <2>2, SameDurable, SameMem DEF A!vars
<1> QED
  BY <1>1, <1>2, <1>3, <1>4, <1>5, <1>6, <1>7

(* Eviction and reading are invisible.                                     *)
LEMMA CacheRefines ==
  ASSUME IInv, NEW b \in Blocks, Evict(b) \/ Bread(b)
  PROVE  UNCHANGED A!vars
<1> USE DEF diskVars, bufVars, logVars, opVars
<1>1. UNCHANGED diskVars /\ Recovering' = Recovering /\ inopBar' = inopBar
  BY DEF Evict, Bread, Recovering, inopBar
<1>2. \A c \in Blocks : View(c)' = View(c)
  <2>1. CASE Evict(b)
    <3>1. View(b) = disk[b]
      BY <2>1, CleanView DEF Evict, Evictable
    <3> QED
      BY <2>1, <3>1 DEF Evict, View, IInv, TypeOK
  <2>2. CASE Bread(b)
    BY <2>2 DEF Bread, View, IInv, TypeOK
  <2> QED
    BY <2>1, <2>2
<1>3. memBar' = memBar
  BY <1>1, <1>2, SameDurable DEF memBar
<1> QED
  BY <1>1, <1>3, SameDurable DEF A!vars

(* Copying blocks to the log is invisible: the header does not name them.  *)
LEMMA WriteLogRefines ==
  ASSUME IInv, WriteLog
  PROVE  UNCHANGED A!vars
<1>1. dhead = <<>> /\ ~Recovering /\ ~Recovering' /\ tail < Len(lh) /\ inopBar' = inopBar
  BY DEF WriteLog, IInv, Inv, HeadInv, CountInv, Recovering, logVars, opVars, inopBar
<1>2. \A c \in Blocks : Recovered(c)' = Recovered(c)
  BY <1>1 DEF WriteLog, Recovered, Range
<1>3. \A c \in Blocks : View(c)' = View(c)
  <2>1. lh[tail + 1] \in Blocks
    BY <1>1, TailBlock
  <2> QED
    BY <2>1 DEF WriteLog, View, IInv, TypeOK
<1> QED
  BY <1>1, <1>2, <1>3 DEF A!vars, durableBar, memBar

(* write_head() is the commit point: everything seen becomes durable.      *)
LEMMA WriteHeadRefines ==
  ASSUME IInv, WriteHead
  PROVE  A!Commit
<1> USE DEF diskVars, bufVars, logVars, opVars
<1>1. phase = "write_log" /\ committing /\ tail = Len(lh) /\ inopBar = {}
      /\ ~Recovering /\ ~Recovering' /\ inopBar' = inopBar
  BY DEF WriteHead, IInv, Inv, CountInv, Recovering, inopBar
<1>2. lh \in Seq(Blocks) /\ IsInjective(lh) /\ dirty = Range(lh)
      /\ DOMAIN lh = 1..Len(lh)
  BY <1>1 DEF IInv, Inv, HeadInv, CacheInv, TypeOK
<1>3. ASSUME NEW c \in Blocks PROVE Recovered(c)' = View(c)
  <2>1. CASE c \in Range(lh)
    <3>1. PICK i \in 1..Len(lh) : c = lh[i]
      BY <1>2, <2>1 DEF Range
    <3>2. LogIndex(c)' = i
      BY <1>2, <3>1 DEF WriteHead, LogIndex, IsInjective
    <3>3. Recovered(c)' = dlog[i]
      BY <2>1, <3>2 DEF WriteHead, Recovered
    <3>4. View(c) = dlog[i]
      BY <1>1, <1>2, <2>1, <3>1 DEF IInv, Inv, CacheInv, CopyInv, View
    <3> QED
      BY <3>3, <3>4
  <2>2. CASE c \notin Range(lh)
    BY <1>1, <1>2, <2>2, NobodyHolds, CleanView DEF WriteHead, Recovered
  <2> QED
    BY <2>1, <2>2
<1>4. \A c \in Blocks : View(c)' = View(c)
  BY DEF WriteHead, View
<1> QED
  BY <1>1, <1>3, <1>4 DEF A!Commit, durableBar, memBar

(* Installing a block is invisible: a reboot would find the logged copy.   *)
LEMMA InstallTransRefines ==
  ASSUME IInv, InstallTrans
  PROVE  UNCHANGED A!vars
<1> USE DEF diskVars, bufVars, logVars, opVars
<1> DEFINE b == lh[tail + 1]
<1>1. phase = "install" /\ tail < Len(lh) /\ dhead = lh /\ inopBar' = inopBar
      /\ Recovering' = Recovering
  BY DEF InstallTrans, IInv, Inv, HeadInv, Recovering, inopBar
<1>2. b \in Range(dhead) /\ b \in Blocks /\ tail + 1 \in 1..Len(lh)
  BY <1>1, TailBlock, RecoveredBlock
<1>3. \A c \in Blocks : Recovered(c)' = Recovered(c)
  BY <1>2 DEF InstallTrans, Recovered, LogIndex, IInv, TypeOK
<1>4. ~Recovering => \A c \in Blocks : View(c)' = View(c)
  <2>1. ~Recovering => View(b) = dlog[tail + 1]
    BY <1>1, <1>2 DEF Recovering, IInv, Inv, CopyInv
  <2>2. dlog[tail + 1] # NoBuf
    BY <1>1, TailBlock, LogConstants DEF LogConstants, IInv, TypeOK
  <2> QED
    BY <1>2, <2>1, <2>2 DEF InstallTrans, View, IInv, TypeOK
<1> QED
  BY <1>1, <1>3, <1>4 DEF A!vars, durableBar, memBar

(* Erasing the header is invisible: every block is home.                   *)
LEMMA ClearHeadRefines ==
  ASSUME IInv, ClearHead
  PROVE  UNCHANGED A!vars
<1> USE DEF diskVars, bufVars, logVars, opVars
<1>1. phase = "install" /\ tail = Len(lh) /\ dhead = lh /\ inopBar' = inopBar
      /\ ~Recovering' /\ inopBar = {}
  BY DEF ClearHead, IInv, Inv, HeadInv, CountInv, Recovering, inopBar, InOp
<1>2. \A c \in Blocks : Recovered(c)' = disk[c]
  BY DEF ClearHead, Recovered, Range
<1>3. \A c \in Blocks : Recovered(c) = disk[c]
  BY <1>1, RecoveredBlock DEF IInv, Inv, CopyInv
<1>4. \A c \in Blocks : View(c)' = View(c)
  BY DEF ClearHead, View
<1>5. Recovering => \A c \in Blocks : View(c) = disk[c]
  BY <1>1, CleanView, NobodyHolds DEF IInv, Inv, CacheInv
<1> QED
  BY <1>1, <1>2, <1>3, <1>4, <1>5 DEF A!vars, durableBar, memBar

(* A crash takes memory back to what is durable.                           *)
LEMMA CrashRefines ==
  ASSUME Crash
  PROVE  A!Crash
<1>1. inopBar' = {} /\ Recovering'
  BY DEF Crash, inopBar, InOp, Recovering
<1>2. durableBar' = durableBar /\ \A c \in Blocks : Recovered(c)' = Recovered(c)
  BY SameDurable DEF Crash
<1> QED
  BY <1>1, <1>2 DEF A!Crash, durableBar, memBar

(* Reading the header is invisible.                                        *)
LEMMA ReadHeadRefines ==
  ASSUME IInv, ReadHead
  PROVE  UNCHANGED A!vars
<1>1. Recovering /\ Recovering' /\ UNCHANGED diskVars /\ inopBar' = inopBar
  BY DEF ReadHead, IInv, Inv, CountInv, Recovering, opVars, inopBar
<1> QED
  BY <1>1, SameDurable DEF A!vars, memBar

(* The log makes operations atomic, durable together, and invisible to a   *)
(* reboot until they are committed: log.c implements AtomicDisk.           *)
THEOREM Refinement == Room => (Spec => Atomic)
<1>1. Init => A!Init
  <2> SUFFICES ASSUME Init PROVE A!Init
    OBVIOUS
  <2>1. \A c \in Blocks : Recovered(c) = disk[c]
    BY DEF Init, Recovered, Range
  <2> QED
    BY <2>1 DEF Init, A!Init, durableBar, memBar, inopBar, InOp, Recovering
<1>2. Room /\ IInv /\ [Next]_vars => [A!Next]_(A!vars)
  <2> SUFFICES ASSUME Room, IInv, [Next]_vars PROVE [A!Next]_(A!vars)
    OBVIOUS
  <2>1. ASSUME NEW p \in Procs, BeginOp(p) \/ BeginSleep(p) \/ LogWriteCheck(p)
                                \/ LogWriteAppend(p) \/ EndOp(p) \/ EndCommit(p)
        PROVE  [A!Next]_(A!vars)
    BY <2>1, ProcessRefines DEF A!Next
  <2>2. ASSUME NEW p \in Procs, NEW b \in Blocks, NEW d \in Data, Modify(p, b, d)
        PROVE  [A!Next]_(A!vars)
    BY <2>2, ProcessRefines DEF A!Next
  <2>3. ASSUME NEW b \in Blocks, Evict(b) \/ Bread(b)
        PROVE  [A!Next]_(A!vars)
    BY <2>3, CacheRefines
  <2>4. CASE CommitStep
    BY <2>4, WriteLogRefines, WriteHeadRefines, InstallTransRefines, ClearHeadRefines
    DEF CommitStep, A!Next
  <2>5. CASE ReadHead
    BY <2>5, ReadHeadRefines
  <2>6. CASE Crash
    BY <2>6, CrashRefines DEF A!Next
  <2>7. CASE UNCHANGED vars
    <3>1. UNCHANGED <<diskVars, cache>> /\ Recovering' = Recovering /\ inopBar' = inopBar
      BY <2>7 DEF vars, diskVars, bufVars, logVars, opVars, Recovering, inopBar
    <3> QED
      BY <3>1, SameDurable, SameMem DEF A!vars
  <2> QED
    BY <2>1, <2>2, <2>3, <2>4, <2>5, <2>6, <2>7 DEF Next
<1>3. Room => Room'
  BY DEF Room
<1> QED
  BY <1>1, <1>2, <1>3, Invariance, PTL DEF Spec, Atomic, A!Spec

(* begin_op() never sleeps through its wakeup: whoever sleeps has a reason *)
(* to, at every moment.                                                    *)
THEOREM WakeupsNotLost == Room => (Spec => []NoLostWakeup)
<1>1. Init => NoLostWakeup
  BY DEF Init, NoLostWakeup
<1>2. Room /\ IInv /\ NoLostWakeup /\ [Next]_vars => NoLostWakeup'
  <2> SUFFICES ASSUME IInv, NoLostWakeup, [Next]_vars, NEW q \in Procs,
                      pc'[q] = "asleep"
               PROVE  ~MayBegin'
    BY DEF NoLostWakeup
  <2> USE DEF diskVars, bufVars, logVars, opVars, MayBegin, SpaceFor
  <2>0. /\ pc \in [Procs -> PCs] /\ lh \in Seq(Blocks) /\ outstanding \in Nat
        /\ pc[q] = "asleep" => ~MayBegin
        /\ LOGSIZE \in Nat /\ MAXOPBLOCKS \in Nat
    BY LogConstants DEF LogConstants, IInv, TypeOK, NoLostWakeup
  <2>1. ASSUME NEW p \in Procs, BeginOp(p) PROVE ~MayBegin'
    <3>1. pc[q] = "asleep"
      BY <2>0, <2>1 DEF BeginOp
    <3> QED
      BY <2>0, <2>1, <3>1 DEF BeginOp, Reserve
  <2>2. ASSUME NEW p \in Procs, BeginSleep(p) PROVE ~MayBegin'
    BY <2>2 DEF BeginSleep
  <2>3. ASSUME NEW p \in Procs, LogWriteCheck(p) PROVE ~MayBegin'
    BY <2>0, <2>3 DEF LogWriteCheck, Panic
  <2>4. ASSUME NEW p \in Procs, LogWriteAppend(p) PROVE ~MayBegin'
    <3>1. Len(lh') \in Nat /\ Len(lh) \in Nat /\ Len(lh') >= Len(lh)
      BY <2>0, <2>4 DEF LogWriteAppend, Absorb
    <3>2. pc[q] = "asleep" /\ outstanding' = outstanding /\ committing' = committing
      BY <2>0, <2>4 DEF LogWriteAppend
    <3> QED
      BY <2>0, <3>1, <3>2
  <2>5. ASSUME NEW p \in Procs, EndOp(p) PROVE ~MayBegin'
    BY <2>0, <2>5 DEF EndOp, Panic, EndOpNotLast, EndOpLast, EndOpWake, WokenBy
  <2>6. ASSUME NEW p \in Procs, EndCommit(p) PROVE ~MayBegin'
    BY <2>0, <2>6 DEF EndCommit, CommitWake, WokenBy
  <2>7. ASSUME NEW p \in Procs, NEW b \in Blocks, NEW d \in Data, Modify(p, b, d)
        PROVE  ~MayBegin'
    BY <2>0, <2>7 DEF Modify
  <2>8. ASSUME NEW b \in Blocks, Evict(b) \/ Bread(b) PROVE ~MayBegin'
    BY <2>0, <2>8 DEF Evict, Bread
  <2>9. CASE WriteLog \/ WriteHead \/ InstallTrans
    BY <2>0, <2>9 DEF WriteLog, WriteHead, InstallTrans
  <2>10. CASE ClearHead
    <3>1. pc[q] = "asleep" /\ committing' = committing
      BY <2>10 DEF ClearHead
    <3>2. ~Recovering
      BY <3>1 DEF IInv, Inv, CountInv
    <3> QED
      BY <2>10, <3>1, <3>2 DEF ClearHead, Recovering
  <2>11. CASE ReadHead
    BY <2>11 DEF ReadHead, IInv, Inv, CountInv, Recovering
  <2>12. CASE Crash
    BY <2>12 DEF Crash
  <2>13. CASE UNCHANGED vars
    BY <2>0, <2>13 DEF vars
  <2> QED
    BY <2>1, <2>2, <2>3, <2>4, <2>5, <2>6, <2>7, <2>8, <2>9, <2>10, <2>11, <2>12,
       <2>13 DEF Next, CommitStep
<1>3. Room => Room'
  BY DEF Room
<1> QED
  BY <1>1, <1>2, <1>3, Invariance, PTL DEF Spec
=============================================================================
