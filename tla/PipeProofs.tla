----------------------------- MODULE PipeProofs -----------------------------
(***************************************************************************)
(* Proofs about Pipe, for any number of processes, any ring and word size  *)
(* with WORD a multiple of PIPESIZE: types, the page of the pipe, writers  *)
(* that sleep with reason, and the byte stream the ring implements.        *)
(***************************************************************************)
EXTENDS Pipe, SequenceTheorems, FiniteSetTheorems, TLAPS
-----------------------------------------------------------------------------
(* Rings indexed with n % SIZE by counters n that wrap at WORD: the        *)
(* arithmetic of the counters, the distance between two of them, and       *)
(* sequences given by their elements.                                      *)

(* What % and \div are, for a positive divisor.                            *)
LEMMA DivMod ==
  ASSUME NEW a \in Int, NEW n \in Nat \ {0}
  PROVE  a % n \in 0..(n - 1) /\ a \div n \in Int /\ a = (n * (a \div n)) + (a % n)
OBVIOUS

(* The only multiple of n strictly between -n and n is 0.                  *)
LEMMA SmallMultiple ==
  ASSUME NEW n \in Nat \ {0}, NEW q \in Int, n * q < n, -n < n * q
  PROVE  q = 0
<1>1. q >= 1 => n * q >= n OBVIOUS
<1>2. q <= -1 => n * q <= -n OBVIOUS
<1> QED BY <1>1, <1>2

(* Quotient and remainder are unique.                                      *)
LEMMA ModUnique ==
  ASSUME NEW n \in Nat \ {0}, NEW q \in Int, NEW r \in 0..(n - 1)
  PROVE  ((n * q) + r) % n = r
<1> DEFINE a == (n * q) + r
           d == (a \div n) - q
<1>1. a \in Int OBVIOUS
<1>2. a % n \in 0..(n - 1) /\ a \div n \in Int /\ a = (n * (a \div n)) + (a % n)
  BY <1>1, DivMod
<1>3. d \in Int /\ n * d = r - (a % n) BY <1>2
<1>4. n * d < n /\ -n < n * d BY <1>2, <1>3
<1>5. d = 0 BY <1>3, <1>4, SmallMultiple
<1> QED BY <1>2, <1>3, <1>5

(* Adding a multiple of the divisor changes nothing.                       *)
LEMMA ModShift ==
  ASSUME NEW a \in Int, NEW n \in Nat \ {0}, NEW k \in Int
  PROVE  (a + (n * k)) % n = a % n
<1>1. PICK q \in Int, r \in 0..(n - 1) : a = (n * q) + r BY DivMod
<1>2. a + (n * k) = (n * (q + k)) + r BY <1>1
<1>3. q + k \in Int OBVIOUS
<1>4. ((n * (q + k)) + r) % n = r BY <1>3, ModUnique
<1>5. ((n * q) + r) % n = r BY ModUnique
<1> QED BY <1>1, <1>2, <1>4, <1>5

(* Two numbers less than n apart with the same remainder are equal.        *)
LEMMA ModInjective ==
  ASSUME NEW a \in Int, NEW b \in Int, NEW n \in Nat \ {0},
         a - b < n, b - a < n, a % n = b % n
  PROVE  a = b
<1>1. a \div n \in Int /\ a = (n * (a \div n)) + (a % n) BY DivMod
<1>2. b \div n \in Int /\ b = (n * (b \div n)) + (b % n) BY DivMod
<1> DEFINE d == (a \div n) - (b \div n)
<1>3. d \in Int /\ n * d = a - b BY <1>1, <1>2
<1>4. d = 0 BY <1>3, SmallMultiple
<1> QED BY <1>3, <1>4

(* A number is a multiple of the divisor and its remainder.                *)
LEMMA Division ==
  ASSUME NEW a \in Int, NEW n \in Nat \ {0}
  PROVE  \E q \in Int, r \in 0..(n - 1) : a = (n * q) + r /\ a % n = r
<1>1. PICK q \in Int, r \in 0..(n - 1) : a = (n * q) + r BY DivMod
<1> QED BY <1>1, ModUnique

(* Reducing by a multiple w of n first does not change the remainder by n. *)
LEMMA ModOfMod ==
  ASSUME NEW a \in Int, NEW n \in Nat \ {0}, NEW w \in Nat \ {0}, w % n = 0
  PROVE  (a % w) % n = a % n
<1>1. PICK m \in Int : w = n * m
  <2>1. PICK m \in Int, z \in 0..(n - 1) : w = (n * m) + z /\ w % n = z BY Division
  <2> QED BY <2>1
<1>2. PICK q \in Int, r \in 0..(w - 1) : a = (w * q) + r /\ a % w = r BY Division
<1>3. m * q \in Int /\ r \in Int OBVIOUS
<1>4. w * q = n * (m * q) BY <1>1
<1>5. a = r + (n * (m * q)) BY <1>2, <1>3, <1>4
<1>6. (r + (n * (m * q))) % n = r % n BY <1>3, ModShift
<1> QED BY <1>2, <1>5, <1>6

(* The same, for every number at once.                                     *)
LEMMA ModOfModAll ==
  ASSUME NEW n \in Nat \ {0}, NEW w \in Nat \ {0}, w % n = 0
  PROVE  \A a \in Int : (a % w) % n = a % n
BY ModOfMod

(* Reducing a summand first does not change the remainder.                 *)
LEMMA ModSum ==
  ASSUME NEW a \in Int, NEW b \in Int, NEW n \in Nat \ {0}
  PROVE  ((a % n) + b) % n = (a + b) % n
<1>1. PICK q \in Int, r \in 0..(n - 1) : a = (n * q) + r /\ a % n = r BY Division
<1>2. a + b = (r + b) + (n * q) /\ r + b \in Int BY <1>1
<1>3. ((r + b) + (n * q)) % n = (r + b) % n BY <1>2, ModShift
<1> QED BY <1>1, <1>2, <1>3

(* How far the counter b is ahead of the counter a.                        *)
Gap(W, a, b) == (b - a) % W

(* b += k.                                                                 *)
LEMMA DistForward ==
  ASSUME NEW W \in Nat \ {0}, NEW a \in 0..(W - 1), NEW b \in 0..(W - 1), NEW k \in Nat,
         Gap(W, a, b) + k < W
  PROVE  Gap(W, a, (b + k) % W) = Gap(W, a, b) + k
<1> USE DEF Gap
<1>1. PICK q \in Int, d \in 0..(W - 1) : b - a = (W * q) + d /\ (b - a) % W = d
  <2>1. b - a \in Int OBVIOUS
  <2> QED BY <2>1, Division
<1>2. PICK x \in Int, z \in 0..(W - 1) : b + k = (W * x) + z /\ (b + k) % W = z
  <2>1. b + k \in Int OBVIOUS
  <2> QED BY <2>1, Division
<1>3. z - a = (W * (q - x)) + (d + k) BY <1>1, <1>2
<1>4. q - x \in Int /\ d + k \in 0..(W - 1) BY <1>1
<1> QED BY <1>1, <1>2, <1>3, <1>4, ModUnique

(* a += k.                                                                 *)
LEMMA DistAdvance ==
  ASSUME NEW W \in Nat \ {0}, NEW a \in 0..(W - 1), NEW b \in 0..(W - 1), NEW k \in Nat,
         k <= Gap(W, a, b)
  PROVE  Gap(W, (a + k) % W, b) = Gap(W, a, b) - k
<1> USE DEF Gap
<1>1. PICK q \in Int, d \in 0..(W - 1) : b - a = (W * q) + d /\ (b - a) % W = d
  <2>1. b - a \in Int OBVIOUS
  <2> QED BY <2>1, Division
<1>2. PICK x \in Int, z \in 0..(W - 1) : a + k = (W * x) + z /\ (a + k) % W = z
  <2>1. a + k \in Int OBVIOUS
  <2> QED BY <2>1, Division
<1>3. b - z = (W * (q + x)) + (d - k) BY <1>1, <1>2
<1>4. q + x \in Int /\ d - k \in 0..(W - 1) BY <1>1
<1> QED BY <1>1, <1>2, <1>3, <1>4, ModUnique

(* The counter n ahead of a is (a + n) % W.                                *)
LEMMA DistIs ==
  ASSUME NEW W \in Nat \ {0}, NEW a \in 0..(W - 1), NEW b \in 0..(W - 1), NEW n \in 0..(W - 1)
  PROVE  (b = (a + n) % W) <=> (Gap(W, a, b) = n)
<1> USE DEF Gap
<1>1. a + n < W => (a + n) % W = a + n OBVIOUS
<1>2. a + n >= W => (a + n) % W = a + n - W OBVIOUS
<1>3. b >= a => (b - a) % W = b - a OBVIOUS
<1>4. b < a => (b - a) % W = b - a + W OBVIOUS
<1> QED BY <1>1, <1>2, <1>3, <1>4

(* A slot counted from b is a slot counted from a: the ring does not see   *)
(* that the counters wrap.                                                 *)
LEMMA SlotFrom ==
  ASSUME NEW W \in Nat \ {0}, NEW n \in Nat \ {0}, W % n = 0,
         NEW a \in 0..(W - 1), NEW b \in 0..(W - 1), NEW i \in Int
  PROVE  (b + i) % n = (a + Gap(W, a, b) + i) % n
<1>0. \A x \in Int : (x % W) % n = x % n BY ModOfModAll, Zenon
<1> USE DEF Gap
<1>1. PICK d \in 0..(W - 1) : (b - a) % W = d
  <2>1. b - a \in Int OBVIOUS
  <2> QED BY <2>1, DivMod
<1>2. (((b - a) % W) + (a + i)) % W = ((b - a) + (a + i)) % W
  <2>1. b - a \in Int /\ a + i \in Int OBVIOUS
  <2> QED BY <2>1, ModSum
<1>3. (b - a) + (a + i) = b + i /\ d + (a + i) = a + d + i OBVIOUS
<1>4. (a + d + i) % W = (b + i) % W BY <1>1, <1>2, <1>3
<1>5. b + i \in Int /\ a + d + i \in Int OBVIOUS
<1>6. ((b + i) % W) % n = (b + i) % n BY <1>0, <1>5, Zenon
<1>7. ((a + d + i) % W) % n = (a + d + i) % n BY <1>0, <1>5, Zenon
<1> QED BY <1>1, <1>4, <1>6, <1>7, Zenon

(* Nor does it see that a counter was reduced.                             *)
LEMMA SlotReduced ==
  ASSUME NEW W \in Nat \ {0}, NEW n \in Nat \ {0}, W % n = 0, NEW a \in Int, NEW i \in Int
  PROVE  ((a % W) + i) % n = (a + i) % n
<1>1. ((a % W) + i) % W = (a + i) % W BY ModSum
<1>2. PICK z \in 0..(W - 1) : a % W = z BY DivMod
<1>3. \A x \in Int : (x % W) % n = x % n BY ModOfModAll, Zenon
<1>4. z + i \in Int /\ a + i \in Int OBVIOUS
<1>5. ((z + i) % W) % n = (z + i) % n BY <1>3, <1>4, Zenon
<1>6. ((a + i) % W) % n = (a + i) % n BY <1>3, <1>4, Zenon
<1> QED BY <1>1, <1>2, <1>5, <1>6, Zenon

(* A function on 1..n is a sequence.                                       *)
LEMMA FcnIsSeq ==
  ASSUME NEW S, NEW n \in Nat, NEW f \in [1..n -> S]
  PROVE  f \in Seq(S) /\ Len(f) = n
OBVIOUS

(* A sequence given by its parts is their concatenation.                   *)
LEMMA ConcatIs ==
  ASSUME NEW S, NEW q \in Seq(S), NEW s \in Seq(S), NEW r \in Seq(S),
         Len(r) = Len(q) + Len(s),
         \A i \in 1..Len(q) : r[i] = q[i],
         \A i \in 1..Len(s) : r[Len(q) + i] = s[i]
  PROVE  r = q \o s
<1>1. Len(q) \in Nat /\ Len(s) \in Nat OBVIOUS
<1>2. /\ q \o s \in Seq(S) /\ Len(q \o s) = Len(q) + Len(s)
      /\ \A i \in 1..(Len(q) + Len(s)) :
           (q \o s)[i] = IF i <= Len(q) THEN q[i] ELSE s[i - Len(q)]
  BY ConcatProperties
<1>3. \A i \in 1..Len(r) : r[i] = (q \o s)[i]
  <2> TAKE i \in 1..Len(r)
  <2>1. CASE i <= Len(q) BY <1>1, <1>2, <2>1
  <2>2. CASE ~(i <= Len(q))
    <3>1. i - Len(q) \in 1..Len(s) /\ Len(q) + (i - Len(q)) = i BY <1>1, <2>2
    <3>2. r[i] = s[i - Len(q)] BY <3>1
    <3> QED BY <1>1, <1>2, <2>2, <3>2
  <2> QED BY <2>1, <2>2
<1> QED BY <1>2, <1>3, SeqEqual

(* A sequence given by its elements is a part of another.                  *)
LEMMA SubSeqIs ==
  ASSUME NEW S, NEW q \in Seq(S), NEW m \in Nat, NEW n \in 0..Len(q), m <= n,
         NEW r \in Seq(S), Len(r) = n - m, \A i \in 1..Len(r) : r[i] = q[m + i]
  PROVE  r = SubSeq(q, m + 1, n)
<1>1. n \in Nat /\ Len(q) \in Nat OBVIOUS
<1>2. \A i \in (m + 1)..n : q[i] \in S BY <1>1
<1>3. m + 1 \in Int /\ n \in Int BY <1>1
<1>4. /\ SubSeq(q, m + 1, n) \in Seq(S)
      /\ Len(SubSeq(q, m + 1, n)) = (IF m + 1 <= n THEN n - (m + 1) + 1 ELSE 0)
      /\ \A i \in 1..(n - (m + 1) + 1) : SubSeq(q, m + 1, n)[i] = q[(m + 1) + i - 1]
  BY <1>2, <1>3, SubSeqProperties
<1>5. Len(SubSeq(q, m + 1, n)) = n - m BY <1>1, <1>4
<1>6. \A i \in 1..Len(r) : r[i] = SubSeq(q, m + 1, n)[i]
  <2> TAKE i \in 1..Len(r)
  <2>1. i \in 1..(n - (m + 1) + 1) /\ (m + 1) + i - 1 = m + i BY <1>1
  <2> QED BY <1>4, <2>1
<1> QED BY <1>4, <1>5, <1>6, SeqEqual
-----------------------------------------------------------------------------
(* Processes with a descriptor of an end.                                  *)
Holders(e) == {p \in Procs : e \in fds[p]}

(* Somebody can still reach the end: a descriptor, or the last one inside  *)
(* fileclose().                                                            *)
InUse(e) == Holders(e) # {} \/ \E p \in Procs : end[p] = e

(* The values of the call variables that TypeOK only bounds.               *)
CallTypes == left \in [Procs -> Seq(Byte)] /\ out \in Seq(Byte)

(* struct file.ref counts the descriptors.                                 *)
RefsCount == \A e \in Ends : ref[e] = Cardinality(Holders(e))

(* A process in pipeclose() came there with the last reference, alone.     *)
OneCloser ==
  /\ \A p \in Procs : (pc[p] = "pipeclose") <=> (end[p] # None)
  /\ \A p \in Procs : \A e \in Ends : end[p] = e => Holders(e) = {}
  /\ \A p, q \in Procs : end[p] = end[q] /\ end[p] # None => p = q

(* The open flags and the page follow the references.                      *)
OpenWhileInUse ==
  /\ readopen <=> InUse("r")
  /\ writeopen <=> InUse("w")
  /\ live <=> readopen \/ writeopen

(* A call runs with its descriptor, and a free slot has none.              *)
CallsHoldEnds == \A p \in Procs :
  /\ pc[p] \in {"read", "rsleep"} => "r" \in fds[p]
  /\ pc[p] \in {"write", "wsleep"} => "w" \in fds[p]
  /\ ~alive[p] => fds[p] = {} /\ pc[p] = "user"

(* Only a process about to sleep keeps p->lock.                            *)
LockByDecided == \A p \in Procs : (lock = p) <=> (pc[p] \in {"rsleep", "wsleep"})

(* A writer that decided to sleep still has its reason.                    *)
DecidedWriters == \A p \in Procs :
  pc[p] = "wsleep" => Full(nread, nwrite) /\ readopen

IndInv ==
  /\ TypeOK /\ CallTypes
  /\ RefsCount /\ OneCloser /\ OpenWhileInUse /\ CallsHoldEnds
  /\ LockByDecided /\ DecidedWriters /\ WritersHaveReason
-----------------------------------------------------------------------------
(* The ring: counters that wrap at WORD, slots that wrap at PIPESIZE.      *)

(* The constants in the form the arithmetic needs.                         *)
LEMMA SizesOK ==
  /\ PIPESIZE \in Nat \ {0} /\ WORD \in Nat \ {0}
  /\ PIPESIZE < WORD /\ WORD % PIPESIZE = 0 /\ MaxN \in Nat
BY PipeConstants

(* The distance of the counters is what is available, before a step and    *)
(* after it.                                                               *)
LEMMA AvailIsGap ==
  Avail = Gap(WORD, nread, nwrite) /\ Avail' = Gap(WORD, nread', nwrite')
BY DEF Avail, Gap

(* pipewrite()'s test for a full ring, on the wrapping counters.           *)
LEMMA FullIsNoRoom ==
  ASSUME NEW r \in 0..(WORD - 1), NEW w \in 0..(WORD - 1)
  PROVE  Full(r, w) <=> Gap(WORD, r, w) = PIPESIZE
<1>1. PIPESIZE \in 0..(WORD - 1) BY SizesOK
<1> QED BY <1>1, SizesOK, DistIs DEF Full

(* The indexes of fewer than PIPESIZE consecutive positions differ.        *)
LEMMA IndexInjective ==
  ASSUME NEW a \in Int, NEW b \in Int, a - b < PIPESIZE, b - a < PIPESIZE,
         Index(a) = Index(b)
  PROVE  a = b
BY SizesOK, ModInjective DEF Index

(* An index is a slot.                                                     *)
LEMMA IndexIsSlot == ASSUME NEW a \in Int PROVE Index(a) \in Slots
BY SizesOK, DivMod DEF Index, Slots
-----------------------------------------------------------------------------
(* Each operation keeps the inductive invariant.                           *)

(* What the invariant says of the ring's counters.                         *)
LEMMA RingTypes ==
  ASSUME TypeOK
  PROVE  /\ nread \in 0..(WORD - 1) /\ nwrite \in 0..(WORD - 1)
         /\ Avail \in 0..PIPESIZE /\ Fits \in 0..PIPESIZE
<1>1. nread \in 0..(WORD - 1) /\ nwrite \in 0..(WORD - 1) /\ Avail <= PIPESIZE
  BY DEF TypeOK
<1>2. nwrite - nread \in Int BY <1>1, SizesOK
<1>3. Avail \in 0..(WORD - 1) BY <1>2, SizesOK, DivMod DEF Avail
<1> QED BY <1>1, <1>3, SizesOK DEF Fits

(* The number of holders is a number, zero when there is none.             *)
LEMMA HoldersFinite ==
  ASSUME NEW e
  PROVE  /\ IsFiniteSet(Holders(e)) /\ Cardinality(Holders(e)) \in Nat
         /\ Cardinality(Holders(e)) <= Cardinality(Procs)
         /\ Cardinality(Holders(e)) = 0 <=> Holders(e) = {}
<1>1. Holders(e) \subseteq Procs /\ IsFiniteSet(Procs) BY PipeConstants DEF Holders
<1>2. IsFiniteSet(Holders(e)) /\ Cardinality(Holders(e)) <= Cardinality(Procs)
  BY <1>1, FS_Subset
<1> QED BY <1>2, FS_CardinalityType, FS_EmptySet

(* pipealloc(): nobody can have reached the old page, so both references   *)
(* are the caller's.                                                       *)
LEMMA PipeAllocInv ==
  ASSUME IndInv, NEW p \in Procs, PipeAlloc(p)
  PROVE  IndInv'
<1> USE DEF IndInv, PipeAlloc, MayCall, procVars, callVars
<1>1. \A e \in Ends : Holders(e) = {} /\ \A q \in Procs : end[q] # e
  BY DEF OpenWhileInUse, InUse, Ends
<1>2. \A q \in Procs : fds[q] = {} /\ end[q] = None
  BY <1>1 DEF Holders, TypeOK, Ends
<1>3. fds' = [q \in Procs |-> IF q = p THEN Ends ELSE {}]
  BY <1>2 DEF TypeOK
<1>4. \A e \in Ends : Holders(e)' = {p} BY <1>3 DEF Holders
<1>5. Avail' = 0
  <2>1. (0 - 0) % WORD = 0 BY SizesOK
  <2> QED BY <2>1 DEF Avail
<1>6. Cardinality({p}) = 1 BY FS_Singleton
<1>7. 1 \in 0..Cardinality(Procs)
  <2>1. Cardinality(Procs) \in Nat /\ Cardinality({p}) <= Cardinality(Procs)
    BY PipeConstants, FS_CardinalityType, FS_Subset
  <2> QED BY <2>1, <1>6
<1>8. TypeOK' BY <1>3, <1>5, <1>7, SizesOK DEF TypeOK, Ends
<1>9. CallTypes' BY DEF CallTypes
<1>10. RefsCount' BY <1>4, <1>6 DEF RefsCount
<1>11. OneCloser' BY <1>2 DEF OneCloser, Ends, None
<1>12. OpenWhileInUse' BY <1>4 DEF OpenWhileInUse, InUse, Ends
<1>13. CallsHoldEnds' BY <1>2, <1>3 DEF CallsHoldEnds, TypeOK
<1>14. LockByDecided' BY DEF LockByDecided
<1>15. DecidedWriters' /\ WritersHaveReason'
  BY DEF DecidedWriters, WritersHaveReason, OpenWhileInUse
<1> QED BY <1>8, <1>9, <1>10, <1>11, <1>12, <1>13, <1>14, <1>15

(* fork(): the child's slot had no descriptor, so the counts grow by one   *)
(* where the parent holds the end.                                         *)
LEMMA ForkInv ==
  ASSUME IndInv, NEW p \in Procs, NEW c \in Procs \ {p}, Fork(p, c)
  PROVE  IndInv'
<1> USE DEF IndInv, Fork, MayCall, pipeVars, ringVars, callVars
<1>1. fds[c] = {} BY DEF CallsHoldEnds
<1>2. \A e \in Ends : /\ c \notin Holders(e)
                      /\ Holders(e)' = IF e \in fds[p] THEN Holders(e) \cup {c} ELSE Holders(e)
  BY <1>1 DEF Holders, TypeOK
<1>3. \A e \in Ends : Cardinality(Holders(e)') = ref'[e]
  <2> TAKE e \in Ends
  <2>1. ref'[e] = ref[e] + Cardinality({e} \cap fds[p]) BY DEF FileDup
  <2>2. ref[e] = Cardinality(Holders(e)) /\ ref[e] \in Nat BY HoldersFinite DEF RefsCount
  <2>3. CASE e \in fds[p]
    <3>1. {e} \cap fds[p] = {e} BY <2>3
    <3>2. Cardinality(Holders(e) \cup {c}) = Cardinality(Holders(e)) + 1
      BY <1>2, HoldersFinite, FS_AddElement
    <3> QED BY <1>2, <2>1, <2>2, <2>3, <3>1, <3>2, FS_Singleton
  <2>4. CASE e \notin fds[p]
    <3>1. {e} \cap fds[p] = {} BY <2>4
    <3>2. Cardinality({}) = 0 BY FS_EmptySet
    <3>3. Cardinality({e} \cap fds[p]) = 0 BY <3>1, <3>2, Zenon
    <3> QED BY <1>2, <2>1, <2>2, <2>4, <3>3
  <2> QED BY <2>3, <2>4
<1>4. \A e \in Ends : (Holders(e)' = {}) <=> (Holders(e) = {})
  BY <1>2 DEF Holders
<1>5. \A e \in Ends : ref'[e] \in 0..Cardinality(Procs)
  <2> TAKE e \in Ends
  <2>1. Holders(e)' \subseteq Procs /\ IsFiniteSet(Procs) BY PipeConstants DEF Holders
  <2>2. IsFiniteSet(Holders(e)') /\ Cardinality(Holders(e)') <= Cardinality(Procs)
    BY <2>1, FS_Subset
  <2> QED BY <2>1, <2>2, <1>3, FS_CardinalityType
<1>6. TypeOK' 
  <2>1. ref' = [e \in Ends |-> ref'[e]] BY DEF FileDup
  <2>2. ref' \in [Ends -> 0..Cardinality(Procs)] BY <2>1, <1>5
  <2> QED BY <2>2 DEF TypeOK, Avail
<1>7. CallTypes' BY DEF CallTypes
<1>8. RefsCount' BY <1>3 DEF RefsCount
<1>9. OneCloser' BY <1>4 DEF OneCloser
<1>10. OpenWhileInUse' BY <1>4 DEF OpenWhileInUse, InUse, Ends
<1>11. CallsHoldEnds' BY DEF CallsHoldEnds, TypeOK
<1>12. LockByDecided' BY DEF LockByDecided
<1>13. DecidedWriters' /\ WritersHaveReason'
  BY DEF DecidedWriters, WritersHaveReason
<1> QED BY <1>6, <1>7, <1>8, <1>9, <1>10, <1>11, <1>12, <1>13

(* close(): the count falls by one, and only the last holder goes on to    *)
(* pipeclose().                                                            *)
LEMMA FileCloseInv ==
  ASSUME IndInv, NEW p \in Procs, NEW e \in Ends, FileClose(p, e)
  PROVE  IndInv'
<1> USE DEF IndInv, FileClose, pipeVars, ringVars, procVars
<1>1. fds' = [fds EXCEPT ![p] = @ \ {e}] /\ fds \in [Procs -> SUBSET Ends] BY DEF TypeOK
<1>2. p \in Holders(e) /\ Holders(e)' = Holders(e) \ {p} BY <1>1 DEF Holders
<1>3. \A d \in Ends \ {e} : Holders(d)' = Holders(d) BY <1>1 DEF Holders
<1>4. /\ Cardinality(Holders(e)') = Cardinality(Holders(e)) - 1
      /\ ref[e] = Cardinality(Holders(e)) /\ ref[e] \in Nat \ {0}
  <2>1. Cardinality(Holders(e) \ {p}) = Cardinality(Holders(e)) - 1
    BY <1>2, HoldersFinite, FS_RemoveElement
  <2>2. ref[e] = Cardinality(Holders(e)) BY DEF RefsCount
  <2> QED BY <1>2, <2>1, <2>2, HoldersFinite
<1>5. ref' = [ref EXCEPT ![e] = ref[e] - 1] /\ ref \in [Ends -> 0..Cardinality(Procs)]
  BY DEF TypeOK
<1>6. Cardinality(Procs) \in Nat BY PipeConstants, FS_CardinalityType
<1>7. ref' \in [Ends -> 0..Cardinality(Procs)] BY <1>4, <1>5, <1>6
<1>8. RefsCount' BY <1>3, <1>4, <1>5 DEF RefsCount
<1>9. CallTypes' BY DEF CallTypes
<1>10. LockByDecided' BY DEF LockByDecided, TypeOK
<1>11. DecidedWriters' /\ WritersHaveReason'
  BY DEF DecidedWriters, WritersHaveReason, TypeOK
<1>12. CallsHoldEnds'
  <2>1. \A q \in Procs : q # p => fds'[q] = fds[q] /\ pc'[q] = pc[q]
    BY <1>1 DEF TypeOK
  <2>2. pc'[p] \in {"user", "pipeclose"} /\ alive[p] BY DEF TypeOK
  <2> QED BY <2>1, <2>2 DEF CallsHoldEnds
<1>13. CASE ref[e] > 1
  <2>1. pc' = pc /\ end' = end BY <1>13
  <2>2. Holders(e)' # {} /\ Holders(e) # {}
    <3>1. Cardinality(Holders(e)') > 0 BY <1>4, <1>13
    <3> QED BY <1>2, <3>1, FS_EmptySet
  <2>3. TypeOK' BY <1>1, <1>7, <2>1 DEF TypeOK, Avail
  <2>4. OneCloser' BY <1>3, <2>1, <2>2 DEF OneCloser, Ends
  <2>5. OpenWhileInUse' BY <1>3, <2>1, <2>2 DEF OpenWhileInUse, InUse, Ends
  <2> QED BY <1>8, <1>9, <1>10, <1>11, <1>12, <2>3, <2>4, <2>5
<1>14. CASE ~(ref[e] > 1)
  <2>1. pc' = [pc EXCEPT ![p] = "pipeclose"] /\ end' = [end EXCEPT ![p] = e] BY <1>14
  <2>2. Holders(e)' = {}
    <3>1. ref[e] = 1 BY <1>4, <1>14
    <3>2. Cardinality(Holders(e) \ {p}) = 0 BY <1>2, <1>4, <3>1
    <3>3. IsFiniteSet(Holders(e) \ {p}) BY HoldersFinite, FS_Difference
    <3> QED BY <1>2, <3>2, <3>3, FS_EmptySet
  <2>3. TypeOK' BY <1>1, <1>7, <2>1 DEF TypeOK, Avail, Ends
  <2>4. end[p] = None /\ \A q \in Procs : end[q] # e BY <1>2 DEF OneCloser
  <2>5. \A q \in Procs : end'[q] = IF q = p THEN e ELSE end[q] BY <2>1 DEF TypeOK
  <2>6. \A q \in Procs : pc'[q] = IF q = p THEN "pipeclose" ELSE pc[q] BY <2>1 DEF TypeOK
  <2>7. e # None BY DEF Ends, None
  <2>8. OneCloser'
    <3>1. \A q \in Procs : (pc'[q] = "pipeclose") <=> (end'[q] # None)
      BY <2>5, <2>6, <2>7 DEF OneCloser
    <3>2. \A q \in Procs : \A d \in Ends : end'[q] = d => Holders(d)' = {}
      BY <1>3, <2>2, <2>5 DEF OneCloser
    <3>3. \A q, x \in Procs : end'[q] = end'[x] /\ end'[q] # None => q = x
      BY <2>4, <2>5 DEF OneCloser
    <3> QED BY <3>1, <3>2, <3>3 DEF OneCloser
  <2>9. OpenWhileInUse'
    <3>1. InUse(e) /\ InUse(e)' BY <1>2, <2>5 DEF InUse
    <3>2. \A d \in Ends \ {e} : InUse(d)' <=> InUse(d)
      BY <1>3, <2>4, <2>5 DEF InUse, Ends, None
    <3> QED BY <3>1, <3>2 DEF OpenWhileInUse, Ends
  <2> QED BY <1>8, <1>9, <1>10, <1>11, <1>12, <2>3, <2>8, <2>9
<1> QED BY <1>13, <1>14

(* pipeclose(): the end is out of use, its flag goes, and the page with    *)
(* the second one.                                                         *)
LEMMA PipeCloseInv ==
  ASSUME IndInv, NEW p \in Procs, PipeClose(p)
  PROVE  IndInv'
<1> USE DEF IndInv, PipeClose, ringVars, fileVars, procVars
<1>1. end[p] \in Ends BY DEF OneCloser, TypeOK
<1>2. \A q \in Procs : end'[q] = IF q = p THEN None ELSE end[q] BY DEF TypeOK
<1>3. \A q \in Procs : pc'[q] = IF q = p THEN "user" ELSE pc[q] BY DEF TypeOK
<1>4. \A e \in Ends : Holders(e)' = Holders(e) BY DEF Holders
<1>5. \A q \in Procs : chan'[q] = IF chan[q] = WokenByClose(end[p]) THEN None ELSE chan[q]
  BY DEF Wakeup
<1>6. TypeOK' BY DEF TypeOK, Avail, Wakeup, WokenByClose, FreedByClose, None
<1>7. CallTypes' BY DEF CallTypes
<1>8. RefsCount' BY <1>4 DEF RefsCount
<1>9. OneCloser'
  <2>1. \A q \in Procs : (pc'[q] = "pipeclose") <=> (end'[q] # None)
    BY <1>2, <1>3 DEF OneCloser
  <2>2. \A q \in Procs : \A d \in Ends : end'[q] = d => Holders(d)' = {}
    BY <1>2, <1>4 DEF OneCloser, Ends, None
  <2>3. \A q, x \in Procs : end'[q] = end'[x] /\ end'[q] # None => q = x
    BY <1>2 DEF OneCloser
  <2> QED BY <2>1, <2>2, <2>3 DEF OneCloser
<1>10. OpenWhileInUse'
  <2>1. PICK e \in Ends : end[p] = e BY <1>1
  <2>2. InUse(e) BY <2>1 DEF InUse
  <2>3. ~InUse(e)'
    <3>1. Holders(e) = {} BY <2>1 DEF OneCloser
    <3>2. \A q \in Procs : q # p => end[q] # e BY <2>1 DEF OneCloser, Ends, None
    <3>3. \A q \in Procs : end'[q] # e BY <1>2, <3>2 DEF Ends, None
    <3> QED BY <1>4, <3>1, <3>3 DEF InUse
  <2>4. \A d \in Ends : d # e => (InUse(d)' <=> InUse(d))
    BY <1>2, <1>4, <2>1 DEF InUse, Ends, None
  <2>5. CASE e = "r"
    BY <2>1, <2>2, <2>3, <2>4, <2>5 DEF OpenWhileInUse, Ends, FreedByClose
  <2>6. CASE e = "w"
    BY <2>1, <2>2, <2>3, <2>4, <2>6 DEF OpenWhileInUse, Ends, FreedByClose
  <2> QED BY <2>5, <2>6 DEF Ends
<1>11. CallsHoldEnds' BY <1>3 DEF CallsHoldEnds
<1>12. LockByDecided' BY <1>3 DEF LockByDecided
<1>13. DecidedWriters'
  <2>1. \A q \in Procs : pc'[q] # "wsleep" BY <1>3, PipeConstants DEF LockByDecided
  <2> QED BY <2>1 DEF DecidedWriters
<1>14. WritersHaveReason'
  <2>1. SUFFICES ASSUME NEW q \in Procs, chan'[q] = "nwrite"
                 PROVE  Full(nread, nwrite) /\ readopen'
    BY DEF WritersHaveReason
  <2>2. chan[q] = "nwrite" /\ end[p] # "r" BY <1>5, <2>1 DEF WokenByClose, None
  <2> QED BY <2>2 DEF WritersHaveReason
<1> QED BY <1>6, <1>7, <1>8, <1>9, <1>10, <1>11, <1>12, <1>13, <1>14

(* exit() touches no pipe.                                                 *)
LEMMA ExitInv == ASSUME IndInv, NEW p \in Procs, Exit(p) PROVE IndInv'
<1> USE DEF IndInv, Exit, pipeVars, ringVars, fileVars, callVars
<1>1. TypeOK' BY DEF TypeOK, Avail
<1>2. CallTypes' /\ RefsCount' BY DEF CallTypes, RefsCount, Holders
<1>3. OneCloser' BY DEF OneCloser, Holders
<1>4. OpenWhileInUse' BY DEF OpenWhileInUse, InUse, Holders
<1>5. CallsHoldEnds' BY DEF CallsHoldEnds, TypeOK
<1>6. LockByDecided' /\ DecidedWriters' /\ WritersHaveReason'
  BY DEF LockByDecided, DecidedWriters, WritersHaveReason
<1> QED BY <1>1, <1>2, <1>3, <1>4, <1>5, <1>6

(* kill() wakes its victim, and only it.                                   *)
LEMMA KillInv == ASSUME IndInv, NEW p \in Procs, Kill(p) PROVE IndInv'
<1> USE DEF IndInv, Kill, pipeVars, ringVars, fileVars, callVars
<1>1. TypeOK' BY DEF TypeOK, Avail
<1>2. CallTypes' /\ RefsCount' BY DEF CallTypes, RefsCount, Holders
<1>3. OneCloser' BY DEF OneCloser, Holders
<1>4. OpenWhileInUse' BY DEF OpenWhileInUse, InUse, Holders
<1>5. CallsHoldEnds' BY DEF CallsHoldEnds, TypeOK
<1>6. LockByDecided' /\ DecidedWriters' BY DEF LockByDecided, DecidedWriters
<1>7. WritersHaveReason' BY DEF WritersHaveReason, TypeOK, None
<1> QED BY <1>1, <1>2, <1>3, <1>4, <1>5, <1>6, <1>7

(* write() enters pipewrite() with a descriptor.                           *)
LEMMA WriteCallInv ==
  ASSUME IndInv, NEW p \in Procs, NEW n \in 0..MaxN, NEW s \in [1..n -> Byte],
         WriteCall(p, s)
  PROVE  IndInv'
<1> USE DEF IndInv, WriteCall, MayCall, pipeVars, ringVars, fileVars, procVars
<1>1. s \in Seq(Byte) /\ Len(s) = n /\ n <= MaxN BY SizesOK
<1>2. TypeOK' BY <1>1 DEF TypeOK, CallTypes, Avail
<1>3. CallTypes' BY <1>1 DEF CallTypes
<1>4. RefsCount' /\ OpenWhileInUse' BY DEF RefsCount, Holders, OpenWhileInUse, InUse
<1>5. OneCloser' BY DEF OneCloser, Holders, TypeOK
<1>6. CallsHoldEnds' BY DEF CallsHoldEnds, TypeOK
<1>7. LockByDecided' BY DEF LockByDecided, TypeOK
<1>8. DecidedWriters' /\ WritersHaveReason' BY DEF DecidedWriters, WritersHaveReason, TypeOK
<1> QED BY <1>2, <1>3, <1>4, <1>5, <1>6, <1>7, <1>8

(* read() enters piperead() with a descriptor.                             *)
LEMMA ReadCallInv ==
  ASSUME IndInv, NEW p \in Procs, NEW n \in 0..MaxN, ReadCall(p, n)
  PROVE  IndInv'
<1> USE DEF IndInv, ReadCall, MayCall, pipeVars, ringVars, fileVars, procVars
<1>1. TypeOK' BY DEF TypeOK, Avail
<1>2. CallTypes' BY DEF CallTypes
<1>3. RefsCount' /\ OpenWhileInUse' BY DEF RefsCount, Holders, OpenWhileInUse, InUse
<1>4. OneCloser' BY DEF OneCloser, Holders, TypeOK
<1>5. CallsHoldEnds' BY DEF CallsHoldEnds, TypeOK
<1>6. LockByDecided' BY DEF LockByDecided, TypeOK
<1>7. DecidedWriters' /\ WritersHaveReason' BY DEF DecidedWriters, WritersHaveReason, TypeOK
<1> QED BY <1>1, <1>2, <1>3, <1>4, <1>5, <1>6, <1>7

(* piperead() on an empty pipe.                                            *)
LEMMA ReadMustWaitInv ==
  ASSUME IndInv, NEW p \in Procs, ReadMustWait(p)
  PROVE  IndInv'
<1> USE DEF IndInv, ReadMustWait, pipeVars, ringVars, fileVars, procVars
<1>1. TypeOK'
  <2>1. pc' \in [Procs -> {"user", "read", "write", "rsleep", "wsleep", "pipeclose"}]
    <3>1. \E s \in {"user", "rsleep"} : pc' = [pc EXCEPT ![p] = s] OBVIOUS
    <3>2. pc \in [Procs -> {"user", "read", "write", "rsleep", "wsleep", "pipeclose"}]
      BY DEF TypeOK
    <3> HIDE DEF IndInv, ReadMustWait
    <3> QED BY <3>1, <3>2
  <2>2. want' \in [Procs -> 0..MaxN]
    <3>1. want' = want \/ want' = [want EXCEPT ![p] = 0] OBVIOUS
    <3>2. want \in [Procs -> 0..MaxN] /\ 0 \in 0..MaxN BY SizesOK DEF TypeOK
    <3> QED BY <3>1, <3>2
  <2>3. lock' \in Procs \cup {None} /\ (Avail' <= PIPESIZE <=> Avail <= PIPESIZE)
    BY DEF Avail, TypeOK
  <2> QED BY <2>1, <2>2, <2>3 DEF TypeOK
<1>2. CallTypes' BY DEF CallTypes
<1>3. RefsCount' /\ OpenWhileInUse' BY DEF RefsCount, Holders, OpenWhileInUse, InUse
<1>4. OneCloser' BY DEF OneCloser, Holders, TypeOK
<1>5. CallsHoldEnds' BY DEF CallsHoldEnds, TypeOK
<1>6. LockByDecided' BY PipeConstants DEF LockByDecided, TypeOK
<1>7. DecidedWriters' /\ WritersHaveReason' BY DEF DecidedWriters, WritersHaveReason, TypeOK
<1> QED BY <1>1, <1>2, <1>3, <1>4, <1>5, <1>6, <1>7

(* sleep(): the reason found under p->lock is still there when it is given *)
(* up.                                                                     *)
LEMMA SleepInv ==
  ASSUME IndInv, NEW p \in Procs, Sleep(p)
  PROVE  IndInv'
<1> USE DEF IndInv, Sleep, pipeVars, ringVars, fileVars, procVars, callVars
<1>1. TypeOK'
  <2>1. chan' \in [Procs -> {None, "nread", "nwrite"}] BY DEF TypeOK
  <2>2. pc' \in [Procs -> {"user", "read", "write", "rsleep", "wsleep", "pipeclose"}]
    BY DEF TypeOK
  <2>3. lock' \in Procs \cup {None} /\ (Avail' <= PIPESIZE <=> Avail <= PIPESIZE) BY DEF Avail
  <2> QED BY <2>1, <2>2, <2>3 DEF TypeOK
<1>2. CallTypes' BY DEF CallTypes
<1>3. RefsCount' /\ OpenWhileInUse' BY DEF RefsCount, Holders, OpenWhileInUse, InUse
<1>4. OneCloser' BY DEF OneCloser, Holders, TypeOK
<1>5. CallsHoldEnds' BY DEF CallsHoldEnds, TypeOK
<1>6. LockByDecided'
  <2>1. \A q \in Procs : q # p => pc[q] \notin {"rsleep", "wsleep"} BY DEF LockByDecided
  <2> QED BY <2>1, PipeConstants DEF LockByDecided, TypeOK
<1>7. DecidedWriters' BY DEF DecidedWriters, TypeOK
<1>8. WritersHaveReason' BY DEF WritersHaveReason, DecidedWriters, TypeOK
<1> QED BY <1>1, <1>2, <1>3, <1>4, <1>5, <1>6, <1>7, <1>8

(* piperead(): fewer bytes, and no writer stays asleep.                    *)
LEMMA ReadInv ==
  ASSUME IndInv, NEW p \in Procs, Read(p)
  PROVE  IndInv'
<1> DEFINE k == IF want[p] < Avail THEN want[p] ELSE Avail
<1> USE DEF IndInv, Read, fileVars, procVars
<1>1. /\ nread \in 0..(WORD - 1) /\ nwrite \in 0..(WORD - 1)
      /\ Avail \in 0..PIPESIZE
  BY RingTypes
<1>2. k \in Nat /\ k <= Avail /\ nread' = (nread + k) % WORD
      /\ out' = [t \in 1..k |-> data[Index(nread + t - 1)]]
  BY <1>1 DEF TypeOK
<1> HIDE DEF k
<1>3. Avail' = Avail - k
  <2>1. nwrite' = nwrite OBVIOUS
  <2> QED BY <1>1, <1>2, <2>1, SizesOK, DistAdvance, AvailIsGap
<1>4. nread' \in 0..(WORD - 1)
  <2>1. nread + k \in Int BY <1>1, <1>2
  <2> QED BY <1>2, <2>1, SizesOK, DivMod
<1>5. out' \in Seq(Byte) /\ Len(out') = k
  <2>1. \A t \in 1..k : data[Index(nread + t - 1)] \in Byte
    BY <1>1, <1>2, IndexIsSlot DEF TypeOK
  <2>2. out' \in [1..k -> Byte] BY <1>2, <2>1
  <2> QED BY <1>2, <2>2, FcnIsSeq
<1>6. TypeOK'
  <2>1. pc' \in [Procs -> {"user", "read", "write", "rsleep", "wsleep", "pipeclose"}]
    BY DEF TypeOK
  <2>2. want' \in [Procs -> 0..MaxN] BY SizesOK DEF TypeOK
  <2>3. chan' \in [Procs -> {None, "nread", "nwrite"}] BY DEF TypeOK, Wakeup
  <2>4. Avail' <= PIPESIZE /\ Len(out') <= PIPESIZE
    <3> HIDE DEF IndInv, Read, Avail
    <3> QED BY <1>1, <1>2, <1>3, <1>5, SizesOK
  <2> QED BY <1>4, <2>1, <2>2, <2>3, <2>4 DEF TypeOK
<1>7. CallTypes' BY <1>5 DEF CallTypes
<1>8. RefsCount' /\ OpenWhileInUse' BY DEF RefsCount, Holders, OpenWhileInUse, InUse
<1>9. OneCloser' BY DEF OneCloser, Holders, TypeOK
<1>10. CallsHoldEnds' BY DEF CallsHoldEnds, TypeOK
<1>11. LockByDecided' BY DEF LockByDecided, TypeOK
<1>12. DecidedWriters'
  <2>1. \A q \in Procs : pc'[q] # "wsleep" BY PipeConstants DEF LockByDecided, TypeOK
  <2> QED BY <2>1 DEF DecidedWriters
<1>13. WritersHaveReason'
  <2>1. \A q \in Procs : chan'[q] # "nwrite" BY DEF Wakeup, WokenByRead, None
  <2> QED BY <2>1 DEF WritersHaveReason
<1> QED BY <1>6, <1>7, <1>8, <1>9, <1>10, <1>11, <1>12, <1>13

(* What pipewrite() leaves in a slot.                                      *)
LEMMA StoredAt ==
  ASSUME NEW s, NEW k \in Nat, NEW j \in Slots
  PROVE  \/ /\ \A t \in 1..k : Index(nwrite + t - 1) # j
            /\ Stored(s, k)[j] = data[j]
         \/ \E t \in 1..k : Index(nwrite + t - 1) = j /\ Stored(s, k)[j] = s[t]
<1> DEFINE P(t) == Index(nwrite + t - 1) = j
<1>1. CASE \E t \in 1..k : P(t)
  <2>1. PICK u : u = CHOOSE t \in 1..k : P(t) OBVIOUS
  <2>2. u \in 1..k /\ P(u) BY <1>1, <2>1
  <2>3. Stored(s, k)[j] = s[u] BY <1>1, <2>1 DEF Stored
  <2> QED BY <2>2, <2>3
<1>2. CASE ~ \E t \in 1..k : P(t) BY <1>2 DEF Stored
<1> QED BY <1>1, <1>2

(* pipewrite() puts k bytes into the ring, k the smaller of what is left   *)
(* and what fits; a writer that goes to sleep has filled the ring.         *)
LEMMA WriteFacts ==
  ASSUME IndInv, NEW p \in Procs, Write(p)
  PROVE  \E k \in Nat :
           /\ k <= Len(left[p]) /\ k <= Fits
           /\ k = Len(left[p]) \/ k = Fits
           /\ data' = Stored(left[p], k) /\ nwrite' = (nwrite + k) % WORD
           /\ Avail' = Avail + k /\ nread' = nread
           /\ \/ left' = [left EXCEPT ![p] = <<>>] /\ pc' = [pc EXCEPT ![p] = "user"]
                 /\ lock' = None /\ chan' \in {chan, Wakeup("nread")}
              \/ /\ left' = [left EXCEPT ![p] = SubSeq(left[p], k + 1, Len(left[p]))]
                 /\ k = Fits /\ readopen
                 /\ pc' = [pc EXCEPT ![p] = "wsleep"]
                 /\ lock' = p /\ chan' = Wakeup("nread")
<1> USE DEF IndInv
<1>1. nread \in 0..(WORD - 1) /\ nwrite \in 0..(WORD - 1) /\ Avail \in 0..PIPESIZE
      /\ Fits \in 0..PIPESIZE /\ Fits = PIPESIZE - Avail
  BY RingTypes DEF Fits
<1>2. left[p] \in Seq(Byte) /\ Len(left[p]) \in Nat BY DEF CallTypes
<1> DEFINE k == IF Len(left[p]) < Fits THEN Len(left[p]) ELSE Fits
<1>3. k \in Nat /\ k <= Len(left[p]) /\ k <= Fits /\ (k = Len(left[p]) \/ k = Fits)
  BY <1>1, <1>2
<1>4. k = Len(left[p]) => SubSeq(left[p], k + 1, Len(left[p])) = <<>>
  BY <1>2
<1>5. data' = Stored(left[p], k) /\ nwrite' = (nwrite + k) % WORD /\ nread' = nread
      /\ lock = None
  BY DEF Write
<1>6. \/ left' = [left EXCEPT ![p] = <<>>] /\ pc' = [pc EXCEPT ![p] = "user"]
         /\ lock' = None /\ chan' \in {chan, Wakeup("nread")}
      \/ /\ SubSeq(left[p], k + 1, Len(left[p])) # <<>>
         /\ left' = [left EXCEPT ![p] = SubSeq(left[p], k + 1, Len(left[p]))]
         /\ readopen
         /\ pc' = [pc EXCEPT ![p] = "wsleep"]
         /\ lock' = p /\ chan' = Wakeup("nread")
  BY DEF Write
<1> HIDE DEF k
<1>7. Avail + k <= PIPESIZE BY <1>1, <1>3, SizesOK
<1>8. Avail' = Avail + k
  <2>1. Gap(WORD, nread, nwrite) + k < WORD BY <1>1, <1>3, <1>7, SizesOK, AvailIsGap
  <2>2. Gap(WORD, nread, (nwrite + k) % WORD) = Gap(WORD, nread, nwrite) + k
    BY <1>1, <1>3, <2>1, SizesOK, DistForward
  <2> QED BY <1>5, <2>2, AvailIsGap
<1> QED BY <1>3, <1>4, <1>5, <1>6, <1>8

(* pipewrite(): the counters stay in bounds, and a sleeping writer still   *)
(* has its full ring.                                                      *)
LEMMA WriteInv ==
  ASSUME IndInv, NEW p \in Procs, Write(p)
  PROVE  IndInv'
<1> USE DEF IndInv
<1>1. PICK k \in Nat :
        /\ k <= Len(left[p]) /\ k <= Fits
        /\ k = Len(left[p]) \/ k = Fits
        /\ data' = Stored(left[p], k) /\ nwrite' = (nwrite + k) % WORD
        /\ Avail' = Avail + k /\ nread' = nread
        /\ \/ left' = [left EXCEPT ![p] = <<>>] /\ pc' = [pc EXCEPT ![p] = "user"]
              /\ lock' = None /\ chan' \in {chan, Wakeup("nread")}
           \/ /\ left' = [left EXCEPT ![p] = SubSeq(left[p], k + 1, Len(left[p]))]
              /\ k = Fits /\ readopen
              /\ pc' = [pc EXCEPT ![p] = "wsleep"]
              /\ lock' = p /\ chan' = Wakeup("nread")
  BY WriteFacts
<1>2. /\ pc[p] = "write" /\ lock = None
      /\ UNCHANGED <<live, readopen, writeopen, ref, fds, alive, killed, want, end, out>>
  BY DEF Write, fileVars, procVars
<1>3. /\ nread \in 0..(WORD - 1) /\ nwrite \in 0..(WORD - 1)
      /\ Avail \in 0..PIPESIZE /\ Fits = PIPESIZE - Avail
  BY RingTypes DEF Fits
<1>4. nwrite' \in 0..(WORD - 1)
  <2>1. nwrite + k \in Int BY <1>3
  <2> QED BY <1>1, <2>1, SizesOK, DivMod
<1>5. left[p] \in Seq(Byte) BY DEF CallTypes
<1>6. data' \in [Slots -> Byte]
  <2>1. data' = [j \in Slots |-> Stored(left[p], k)[j]] BY <1>1 DEF Stored
  <2>2. \A j \in Slots : Stored(left[p], k)[j] \in Byte
    <3> TAKE j \in Slots
    <3>1. \A t \in 1..k : left[p][t] \in Byte BY <1>1, <1>5
    <3>2. data[j] \in Byte BY DEF TypeOK
    <3> QED BY <3>1, <3>2, StoredAt
  <2> QED BY <2>1, <2>2
<1>7. left' \in [Procs -> Seq(Byte)] /\ \A q \in Procs : Len(left'[q]) <= MaxN
  <2>1. PICK s \in Seq(Byte) : left' = [left EXCEPT ![p] = s] /\ Len(s) <= Len(left[p])
    <3>1. <<>> \in Seq(Byte) /\ Len(<<>>) <= Len(left[p]) BY <1>5
    <3>2. SubSeq(left[p], k + 1, Len(left[p])) \in Seq(Byte)
          /\ Len(SubSeq(left[p], k + 1, Len(left[p]))) <= Len(left[p])
      BY <1>1, <1>5
    <3> QED BY <1>1, <3>1, <3>2
  <2>2. left \in [Procs -> Seq(Byte)] /\ \A q \in Procs : Len(left[q]) <= MaxN
    BY DEF CallTypes, TypeOK
  <2> QED BY <2>1, <2>2, SizesOK
<1>8. chan' \in [Procs -> {None, "nread", "nwrite"}]
      /\ \A q \in Procs : chan'[q] = "nwrite" => chan[q] = "nwrite"
  BY <1>1 DEF TypeOK, Wakeup, None
<1>9. pc' \in [Procs -> {"user", "read", "write", "rsleep", "wsleep", "pipeclose"}]
      /\ \A q \in Procs : q # p => pc'[q] = pc[q]
  BY <1>1 DEF TypeOK
<1>10. TypeOK'
  <2>1. lock' \in Procs \cup {None} /\ Avail' <= PIPESIZE BY <1>1, <1>3, SizesOK
  <2> QED BY <1>1, <1>2, <1>3, <1>4, <1>6, <1>7, <1>8, <1>9, <2>1 DEF TypeOK
<1>11. CallTypes' BY <1>2, <1>7 DEF CallTypes
<1>12. RefsCount' /\ OpenWhileInUse'
  BY <1>2 DEF RefsCount, Holders, OpenWhileInUse, InUse
<1>13. pc'[p] \in {"user", "wsleep"} /\ (pc'[p] = "wsleep" <=> lock' = p)
  BY <1>1, PipeConstants DEF TypeOK
<1>14. OneCloser' BY <1>2, <1>9, <1>13 DEF OneCloser, Holders
<1>15. CallsHoldEnds' BY <1>2, <1>9, <1>13 DEF CallsHoldEnds
<1>16. LockByDecided'
  <2>1. \A q \in Procs : pc[q] \notin {"rsleep", "wsleep"} /\ q # None
    BY <1>2, PipeConstants DEF LockByDecided
  <2> QED BY <1>1, <1>9, <1>13, <2>1 DEF LockByDecided
<1>17. Full(nread, nwrite)' <=> Avail' = PIPESIZE
  BY <1>1, <1>3, <1>4, FullIsNoRoom, AvailIsGap
<1>18. Full(nread, nwrite) <=> Avail = PIPESIZE
  BY <1>3, FullIsNoRoom, AvailIsGap
<1>19. DecidedWriters'
  <2>1. \A q \in Procs : pc[q] # "wsleep" BY <1>2, PipeConstants DEF LockByDecided
  <2>2. pc'[p] = "wsleep" => k = Fits /\ readopen BY <1>1 DEF TypeOK
  <2> QED BY <1>1, <1>2, <1>3, <1>9, <1>17, <2>1, <2>2, SizesOK DEF DecidedWriters
<1>20. WritersHaveReason'
  <2>1. SUFFICES ASSUME NEW q \in Procs, chan'[q] = "nwrite"
                 PROVE  Full(nread, nwrite)' /\ readopen'
    BY DEF WritersHaveReason
  <2>2. Full(nread, nwrite) /\ readopen BY <1>8, <2>1 DEF WritersHaveReason
  <2>3. k = 0 BY <1>1, <1>3, <1>18, <2>2
  <2> QED BY <1>1, <1>2, <1>3, <1>17, <1>18, <2>2, <2>3
<1> QED BY <1>10, <1>11, <1>12, <1>14, <1>15, <1>16, <1>19, <1>20
-----------------------------------------------------------------------------
(* The invariant holds at boot, whatever is in the pages of memory.        *)
LEMMA InitInv == Init => IndInv
<1> SUFFICES ASSUME Init PROVE IndInv OBVIOUS
<1> USE DEF Init
<1>1. \A e \in Ends : Holders(e) = {} BY DEF Holders
<1>2. Cardinality({}) = 0 /\ Cardinality(Procs) \in Nat
  BY PipeConstants, FS_EmptySet, FS_CardinalityType
<1>3. Avail = 0
  <2>1. (0 - 0) % WORD = 0 BY SizesOK
  <2> QED BY <2>1 DEF Avail
<1>4. Len(<<>>) = 0 /\ <<>> \in Seq(Byte) OBVIOUS
<1>5. TypeOK
  <2>1. alive \in [Procs -> BOOLEAN] /\ killed \in [Procs -> BOOLEAN] BY Zenon
  <2>2. 0 \in 0..Cardinality(Procs) /\ 0 \in 0..MaxN /\ 0 \in 0..(WORD - 1)
        /\ 0 <= PIPESIZE
    BY <1>2, SizesOK
  <2>3. Len(out) <= PIPESIZE /\ \A q \in Procs : Len(left[q]) <= MaxN
    BY <1>4, SizesOK
  <2>4. /\ ref \in [Ends -> 0..Cardinality(Procs)] /\ fds \in [Procs -> SUBSET Ends]
        /\ want \in [Procs -> 0..MaxN] /\ end \in [Procs -> Ends \cup {None}]
    BY <2>2
  <2>5. /\ pc \in [Procs -> {"user", "read", "write", "rsleep", "wsleep", "pipeclose"}]
        /\ chan \in [Procs -> {None, "nread", "nwrite"}] /\ lock \in Procs \cup {None}
    OBVIOUS
  <2>6. live \in BOOLEAN /\ readopen \in BOOLEAN /\ writeopen \in BOOLEAN OBVIOUS
  <2> QED BY <1>3, <2>1, <2>2, <2>3, <2>4, <2>5, <2>6 DEF TypeOK
<1>6. CallTypes BY <1>4 DEF CallTypes
<1>7. RefsCount BY <1>1, <1>2 DEF RefsCount
<1>8. OneCloser BY DEF OneCloser, Ends, None
<1>9. OpenWhileInUse BY <1>1 DEF OpenWhileInUse, InUse, Ends, None
<1>10. CallsHoldEnds BY DEF CallsHoldEnds
<1>11. LockByDecided BY PipeConstants DEF LockByDecided
<1>12. DecidedWriters /\ WritersHaveReason BY DEF DecidedWriters, WritersHaveReason, None
<1> QED BY <1>5, <1>6, <1>7, <1>8, <1>9, <1>10, <1>11, <1>12 DEF IndInv

(* A step that changes nothing keeps it.                                   *)
LEMMA StutterInv == IndInv /\ UNCHANGED vars => IndInv'
<1> SUFFICES ASSUME IndInv, UNCHANGED vars PROVE IndInv' OBVIOUS
<1> USE DEF vars, pipeVars, ringVars, fileVars, procVars, callVars, IndInv
<1>1. TypeOK' BY DEF TypeOK, Avail
<1>2. CallTypes' /\ RefsCount' BY DEF CallTypes, RefsCount, Holders
<1>3. OneCloser' /\ OpenWhileInUse' BY DEF OneCloser, OpenWhileInUse, InUse, Holders
<1>4. CallsHoldEnds' /\ LockByDecided' BY DEF CallsHoldEnds, LockByDecided
<1>5. DecidedWriters' /\ WritersHaveReason' BY DEF DecidedWriters, WritersHaveReason
<1> QED BY <1>1, <1>2, <1>3, <1>4, <1>5

(* The references, flags, lock and counters of a pipe fit together in      *)
(* every reachable state.                                                  *)
THEOREM Invariance == Spec => []IndInv
<1>1. IndInv /\ [Next]_vars => IndInv'
  <2> SUFFICES ASSUME IndInv, [Next]_vars PROVE IndInv' OBVIOUS
  <2>1. CASE UNCHANGED vars BY <2>1, StutterInv
  <2>2. CASE Next
    <3>1. PICK p \in Procs : KernelStep(p) \/ ExitStep(p) \/ Calls(p) \/ Kill(p)
      BY <2>2 DEF Next
    <3>2. CASE KernelStep(p)
      BY <3>2, PipeCloseInv, WriteInv, ReadMustWaitInv, ReadInv, SleepInv DEF KernelStep
    <3>3. CASE ExitStep(p) BY <3>3, FileCloseInv, ExitInv DEF ExitStep
    <3>4. CASE Calls(p)
      BY <3>4, PipeAllocInv, ForkInv, ReadCallInv, WriteCallInv DEF Calls
    <3>5. CASE Kill(p) BY <3>5, KillInv
    <3> QED BY <3>1, <3>2, <3>3, <3>4, <3>5
  <2> QED BY <2>1, <2>2
<1> QED BY InitInv, <1>1, PTL DEF Spec

(* No writer sleeps on a pipe that has room or lost its readers: the       *)
(* wakeups of piperead() and pipeclose() suffice, whoever is killed.       *)
THEOREM WritersWoken == Spec => []WritersHaveReason
<1>1. IndInv => WritersHaveReason BY DEF IndInv
<1> QED BY Invariance, <1>1, PTL

(* The page of a pipe is freed with its last user and not before, and no   *)
(* call runs on a closed end.                                              *)
THEOREM PageLifetime == Spec => []PageReachable
<1>1. IndInv => PageReachable
  <2> SUFFICES ASSUME IndInv PROVE PageReachable OBVIOUS
  <2> USE DEF IndInv
  <2>1. (\E p \in Procs : fds[p] # {}) <=> Holders("r") # {} \/ Holders("w") # {}
    <3>1. \A p \in Procs : fds[p] # {} <=> "r" \in fds[p] \/ "w" \in fds[p]
      BY DEF TypeOK, Ends
    <3> QED BY <3>1 DEF Holders
  <2>2. Closing # {} <=> \E p \in Procs : end[p] = "r" \/ end[p] = "w"
    BY DEF Closing, OneCloser, TypeOK, Ends, None
  <2>3. live <=> (\E p \in Procs : fds[p] # {}) \/ Closing # {}
    BY <2>1, <2>2 DEF OpenWhileInUse, InUse
  <2>4. \A p \in Procs : /\ pc[p] \in {"read", "rsleep"} => live /\ readopen
                         /\ pc[p] \in {"write", "wsleep"} => live /\ writeopen
    BY DEF CallsHoldEnds, OpenWhileInUse, InUse, Holders
  <2> QED BY <2>3, <2>4 DEF PageReachable
<1> QED BY Invariance, <1>1, PTL
-----------------------------------------------------------------------------
(* The ring as a stream: each step of pipe.c is a step of ByteStream.      *)

(* What is in transit is a sequence of Avail bytes.                        *)
TransitSeq ==
  /\ InTransit \in Seq(Byte) /\ Len(InTransit) = Avail
  /\ \A t \in 1..Avail : InTransit[t] = data[Index(nread + t - 1)]

(* The bytes between nread and nwrite are such a sequence.                 *)
LEMMA InTransitSeq == IndInv /\ live => TransitSeq
<1> SUFFICES ASSUME IndInv, live PROVE TransitSeq OBVIOUS
<1>1. Avail \in Nat /\ nread \in Nat BY RingTypes DEF IndInv
<1>2. InTransit = [t \in 1..Avail |-> data[Index(nread + t - 1)]] BY DEF InTransit
<1>3. \A t \in 1..Avail : data[Index(nread + t - 1)] \in Byte
  BY <1>1, IndexIsSlot DEF IndInv, TypeOK
<1>4. InTransit \in [1..Avail -> Byte] BY <1>2, <1>3
<1> QED BY <1>1, <1>2, <1>4, FcnIsSeq DEF TransitSeq

(* A pipe begins empty and with both ends open.                            *)
LEMMA PipeAllocStream ==
  ASSUME IndInv, NEW p \in Procs, PipeAlloc(p)
  PROVE  Stream!Create
<1>1. ~readopen /\ ~writeopen BY DEF IndInv, OpenWhileInUse, PipeAlloc
<1>2. (0 - 0) % WORD = 0 BY SizesOK
<1>3. Avail' = 0 BY <1>2 DEF Avail, PipeAlloc
<1>4. InTransit = <<>> /\ InTransit' = <<>> BY <1>3 DEF InTransit, PipeAlloc
<1> QED BY <1>1, <1>4 DEF PipeAlloc, callVars, Stream!Create

(* Closing an end keeps the bytes, unless it is the last one.              *)
LEMMA PipeCloseStream ==
  ASSUME IndInv, NEW p \in Procs, PipeClose(p)
  PROVE  Stream!Close
<1> USE DEF IndInv, PipeClose, ringVars
<1>1. end[p] \in Ends BY DEF OneCloser, TypeOK
<1>2. /\ end[p] = "r" => readopen
      /\ end[p] = "w" => writeopen
      /\ live
  BY <1>1 DEF OpenWhileInUse, InUse, Ends
<1>3. live' <=> readopen' \/ writeopen' BY <1>2 DEF FreedByClose
<1>4. InTransit' = IF readopen' \/ writeopen' THEN InTransit ELSE <<>>
  BY <1>2, <1>3 DEF InTransit, Avail
<1>5. \/ readopen /\ readopen' = FALSE /\ writeopen' = writeopen
      \/ writeopen /\ writeopen' = FALSE /\ readopen' = readopen
  BY <1>1, <1>2 DEF Ends, TypeOK
<1> QED BY <1>4, <1>5 DEF Stream!Close

(* pipewrite() appends the bytes it stored: it overwrites none that are    *)
(* still to be read, also where the counters or the slots wrap.            *)
LEMMA WriteStream ==
  ASSUME IndInv, NEW p \in Procs, Write(p)
  PROVE  \/ UNCHANGED <<InTransit, out, readopen, writeopen>>
         \/ \E k \in 1..PIPESIZE : \E s \in [1..k -> Byte] : Stream!Write(s)
<1> USE DEF IndInv
<1>1. PICK k \in Nat :
        /\ k <= Len(left[p]) /\ k <= Fits
        /\ data' = Stored(left[p], k) /\ nwrite' = (nwrite + k) % WORD
        /\ Avail' = Avail + k /\ nread' = nread
  BY WriteFacts
<1>2. UNCHANGED <<live, readopen, writeopen, out>> /\ live /\ writeopen
  BY DEF Write, CallsHoldEnds, OpenWhileInUse, InUse, Holders
<1>3. /\ nread \in 0..(WORD - 1) /\ nwrite \in 0..(WORD - 1)
      /\ Avail \in 0..PIPESIZE /\ Fits = PIPESIZE - Avail /\ PIPESIZE \in Nat
  BY RingTypes, SizesOK DEF Fits
<1>4. left[p] \in Seq(Byte) BY DEF CallTypes
<1>5. \A u \in 1..k : Index(nwrite + u - 1) = Index(nread + Avail + u - 1)
  <2> TAKE u \in 1..k
  <2>1. u - 1 \in Int OBVIOUS
  <2>2. Index(nwrite + (u - 1)) = Index(nread + Avail + (u - 1))
    BY <1>3, <2>1, SizesOK, SlotFrom, AvailIsGap DEF Index
  <2>3. nwrite + (u - 1) = nwrite + u - 1 /\ nread + Avail + (u - 1) = nread + Avail + u - 1
    BY <1>3
  <2> QED BY <2>2, <2>3
<1>6. \A t \in 1..Avail : data'[Index(nread + t - 1)] = data[Index(nread + t - 1)]
  <2> TAKE t \in 1..Avail
  <2>1. nread + t - 1 \in Int BY <1>3
  <2>2. \A u \in 1..k : Index(nwrite + u - 1) # Index(nread + t - 1)
    <3> SUFFICES ASSUME NEW u \in 1..k, Index(nwrite + u - 1) = Index(nread + t - 1)
                 PROVE  FALSE
      OBVIOUS
    <3>1. nread + Avail + u - 1 \in Int BY <1>3
    <3>2. nread + Avail + u - 1 = nread + t - 1
      BY <1>1, <1>3, <1>5, <2>1, <3>1, IndexInjective
    <3> QED BY <1>3, <3>2
  <2> QED BY <1>1, <2>1, <2>2, IndexIsSlot, StoredAt
<1>7. \A t \in 1..k : data'[Index(nread + Avail + t - 1)] = left[p][t]
  <2> TAKE t \in 1..k
  <2>1. nread + Avail + t - 1 \in Int BY <1>3
  <2>2. \A u \in 1..k : Index(nwrite + u - 1) = Index(nread + Avail + t - 1) => u = t
    <3> SUFFICES ASSUME NEW u \in 1..k, Index(nwrite + u - 1) = Index(nread + Avail + t - 1)
                 PROVE  u = t
      OBVIOUS
    <3>1. nread + Avail + u - 1 \in Int BY <1>3
    <3>2. nread + Avail + u - 1 = nread + Avail + t - 1
      BY <1>1, <1>3, <1>5, <2>1, <3>1, IndexInjective
    <3> QED BY <1>3, <3>2
  <2>3. Index(nwrite + t - 1) = Index(nread + Avail + t - 1) BY <1>5
  <2> QED BY <1>1, <2>1, <2>2, <2>3, IndexIsSlot, StoredAt
<1> DEFINE s == [t \in 1..k |-> left[p][t]]
<1>8. s \in [1..k -> Byte] /\ s \in Seq(Byte) /\ Len(s) = k
  <2>1. s \in [1..k -> Byte] BY <1>1, <1>4
  <2> QED BY <2>1, FcnIsSeq
<1>9. /\ InTransit \in Seq(Byte) /\ Len(InTransit) = Avail
      /\ \A t \in 1..Avail : InTransit[t] = data[Index(nread + t - 1)]
  BY <1>2, InTransitSeq DEF TransitSeq
<1>10. /\ InTransit' \in Seq(Byte) /\ Len(InTransit') = Avail + k
       /\ \A t \in 1..(Avail + k) : InTransit'[t] = data'[Index(nread + t - 1)]
  <2>1. IndInv' /\ live' BY <1>2, WriteInv
  <2>2. TransitSeq' BY <2>1, InTransitSeq, PTL
  <2> QED BY <1>1, <2>2 DEF TransitSeq
<1> HIDE DEF s
<1>11. InTransit' = InTransit \o s
  <2>1. \A i \in 1..Avail : InTransit'[i] = InTransit[i] BY <1>3, <1>6, <1>9, <1>10
  <2>2. \A i \in 1..k : InTransit'[Avail + i] = s[i]
    <3> TAKE i \in 1..k
    <3>1. Avail + i \in 1..(Avail + k) /\ nread + (Avail + i) - 1 = nread + Avail + i - 1
      BY <1>3
    <3> QED BY <1>7, <1>10, <3>1 DEF s
  <2> QED BY <1>8, <1>9, <1>10, <2>1, <2>2, ConcatIs
<1>12. CASE k = 0
  <2>1. s = <<>> BY <1>8, <1>12
  <2>2. InTransit \o <<>> = InTransit BY <1>9
  <2> QED BY <1>2, <1>11, <2>1, <2>2
<1>13. CASE k # 0
  <2>1. k \in 1..PIPESIZE BY <1>1, <1>3, <1>13
  <2>2. Stream!Write(s) BY <1>1, <1>2, <1>3, <1>8, <1>9, <1>11 DEF Stream!Write
  <2> QED BY <1>8, <2>1, <2>2
<1> QED BY <1>12, <1>13

(* piperead() takes the oldest bytes, and comes back empty-handed only at  *)
(* the end of the stream or when nothing was asked for.                    *)
LEMMA ReadStream ==
  ASSUME IndInv, NEW p \in Procs, Read(p)
  PROVE  \E n \in 0..PIPESIZE : Stream!Read(n)
<1> USE DEF IndInv
<1>1. /\ nread \in 0..(WORD - 1) /\ nwrite \in 0..(WORD - 1)
      /\ Avail \in 0..PIPESIZE /\ PIPESIZE \in Nat
  BY RingTypes, SizesOK
<1> DEFINE k == IF want[p] < Avail THEN want[p] ELSE Avail
<1>2. k \in Nat /\ k <= Avail BY <1>1 DEF TypeOK
<1>3. nread' = (nread + k) % WORD /\ out' = [t \in 1..k |-> data[Index(nread + t - 1)]]
  BY DEF Read
<1> HIDE DEF k
<1>4. UNCHANGED <<live, data, nwrite, readopen, writeopen>> /\ live /\ readopen
  BY DEF Read, CallsHoldEnds, OpenWhileInUse, InUse, Holders
<1>5. /\ InTransit \in Seq(Byte) /\ Len(InTransit) = Avail
      /\ \A t \in 1..Avail : InTransit[t] = data[Index(nread + t - 1)]
  BY <1>4, InTransitSeq DEF TransitSeq
<1>6. Avail' = Avail - k BY <1>1, <1>2, <1>3, <1>4, SizesOK, DistAdvance, AvailIsGap
<1>7. /\ InTransit' \in Seq(Byte) /\ Len(InTransit') = Avail - k
      /\ \A t \in 1..(Avail - k) : InTransit'[t] = data[Index(nread + k + t - 1)]
  <2>1. IndInv' /\ live' BY <1>4, ReadInv
  <2>2. TransitSeq' BY <2>1, InTransitSeq, PTL
  <2>3. \A t \in 1..(Avail - k) : Index(nread' + t - 1) = Index(nread + k + t - 1)
    <3> TAKE t \in 1..(Avail - k)
    <3>1. t - 1 \in Int OBVIOUS
    <3>2. Index(((nread + k) % WORD) + (t - 1)) = Index(nread + k + (t - 1))
      <4>1. \A x \in Int, i \in Int : ((x % WORD) + i) % PIPESIZE = (x + i) % PIPESIZE
        BY SizesOK, SlotReduced
      <4>2. nread + k \in Int BY <1>1, <1>2
      <4> QED BY <3>1, <4>1, <4>2, Zenon DEF Index
    <3>3. nread' \in Int BY <2>1 DEF TypeOK
    <3>4. nread' + (t - 1) = nread' + t - 1 /\ nread + k + (t - 1) = nread + k + t - 1
      BY <1>1, <1>2, <3>3
    <3> QED BY <1>3, <3>2, <3>4
  <2> QED BY <1>4, <1>6, <2>2, <2>3 DEF TransitSeq
<1>8. out' = SubSeq(InTransit, 1, k)
  <2>1. \A t \in 1..k : t \in 1..Avail BY <1>1, <1>2
  <2>2. \A t \in 1..k : out'[t] = InTransit[0 + t] BY <1>3, <1>5, <2>1
  <2>3. out' \in [1..k -> Byte]
    <3>1. \A t \in 1..k : data[Index(nread + t - 1)] \in Byte BY <1>5, <2>1
    <3> QED BY <1>3, <3>1
  <2>4. out' \in Seq(Byte) /\ Len(out') = k - 0 BY <1>2, <2>3, FcnIsSeq
  <2>5. k \in 0..Len(InTransit) /\ 0 <= k /\ 0 \in Nat BY <1>1, <1>2, <1>5
  <2>6. out' = SubSeq(InTransit, 0 + 1, k) BY <1>2, <1>5, <2>2, <2>4, <2>5, SubSeqIs
  <2> QED BY <2>6
<1>9. InTransit' = SubSeq(InTransit, k + 1, Len(InTransit))
  <2>1. \A t \in 1..(Avail - k) : InTransit'[t] = InTransit[k + t]
    <3> TAKE t \in 1..(Avail - k)
    <3>1. k + t \in 1..Avail /\ nread + (k + t) - 1 = nread + k + t - 1 BY <1>1, <1>2
    <3> QED BY <1>5, <1>7, <3>1
  <2>2. Len(InTransit) \in 0..Len(InTransit) /\ k <= Len(InTransit) BY <1>1, <1>2, <1>5
  <2>3. \A t \in 1..Len(InTransit') : InTransit'[t] = InTransit[k + t] BY <1>7, <2>1
  <2>4. Len(InTransit') = Len(InTransit) - k BY <1>5, <1>7
  <2> QED BY <1>2, <1>5, <1>7, <2>2, <2>3, <2>4, SubSeqIs, Zenon
<1>10. InTransit # <<>> \/ ~writeopen
  <2>1. nread # nwrite => Avail # 0
    <3>1. nwrite >= nread => (nwrite - nread) % WORD = nwrite - nread BY <1>1, SizesOK
    <3>2. nwrite < nread => (nwrite - nread) % WORD = nwrite - nread + WORD BY <1>1, SizesOK
    <3> QED BY <1>1, <3>1, <3>2, SizesOK DEF Avail
  <2>2. nread # nwrite \/ ~writeopen BY DEF Read, EmptyWaits
  <2> QED BY <1>5, <2>1, <2>2
<1>11. Stream!Read(k) BY <1>2, <1>4, <1>5, <1>8, <1>9, <1>10 DEF Stream!Read
<1> QED BY <1>1, <1>2, <1>11

(* The other steps do not touch the stream.                                *)
LEMMA OtherStream ==
  ASSUME UNCHANGED <<pipeVars, out>>
  PROVE  UNCHANGED <<InTransit, out, readopen, writeopen>>
BY DEF pipeVars, ringVars, InTransit, Avail

(* The ring with its wrapping counters implements the bounded stream:      *)
(* every byte comes out once and in order, none is lost while an end is    *)
(* open, and an empty answer means the end of the stream.                  *)
THEOREM StreamRefinement == Spec => StreamSpec
<1>1. Init => Stream!Init BY DEF Init, Stream!Init, InTransit
<1>2. IndInv /\ [Next]_vars => [Stream!Next]_(Stream!vars)
  <2> SUFFICES ASSUME IndInv, [Next]_vars
               PROVE  Stream!Next \/ UNCHANGED <<InTransit, out, readopen, writeopen>>
    BY DEF Stream!vars
  <2>1. CASE UNCHANGED vars BY <2>1, OtherStream DEF vars, callVars
  <2>2. CASE Next
    <3>1. PICK p \in Procs : KernelStep(p) \/ ExitStep(p) \/ Calls(p) \/ Kill(p)
      BY <2>2 DEF Next
    <3>2. CASE PipeClose(p) BY <3>2, PipeCloseStream DEF Stream!Next
    <3>3. CASE Write(p) BY <3>3, WriteStream DEF Stream!Next
    <3>4. CASE Read(p) BY <3>4, ReadStream DEF Stream!Next
    <3>5. CASE ReadMustWait(p) \/ Sleep(p)
      BY <3>5, OtherStream DEF ReadMustWait, Sleep, callVars
    <3>6. CASE ExitStep(p) \/ Kill(p)
      BY <3>6, OtherStream DEF ExitStep, FileClose, Exit, Kill, callVars
    <3>7. CASE Calls(p)
      <4>1. CASE PipeAlloc(p) BY <4>1, PipeAllocStream DEF Stream!Next
      <4>2. CASE UNCHANGED <<pipeVars, out>> BY <4>2, OtherStream
      <4>3. PipeAlloc(p) \/ UNCHANGED <<pipeVars, out>>
        BY <3>7 DEF Calls, Fork, ReadCall, WriteCall, callVars
      <4> QED BY <4>1, <4>2, <4>3
    <3> QED BY <3>1, <3>2, <3>3, <3>4, <3>5, <3>6, <3>7 DEF KernelStep
  <2> QED BY <2>1, <2>2
<1> QED BY <1>1, <1>2, Invariance, PTL DEF Spec, StreamSpec, Stream!Spec
=============================================================================
