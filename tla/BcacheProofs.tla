---------------------------- MODULE BcacheProofs ----------------------------
(***************************************************************************)
(* Proofs about Bcache, for any number of processes, buffers and blocks:   *)
(* one buffer per block, coherent data, and a request queue that matches   *)
(* the disk.                                                               *)
(***************************************************************************)
EXTENDS Bcache, FiniteSetTheorems, WellFoundedInduction, TLAPS

(* Where a process holds the sleep lock of its buffer.                     *)
Inside == {"use", "iderw", "wait"}

(* q has every element of S once.                                          *)
Permutes(q, n, S) == /\ q \in [1..n -> S]
                     /\ \A i, j \in 1..n : q[i] = q[j] => i = j
                     /\ \A c \in S : \E i \in 1..n : q[i] = c

(* The list is a permutation of the buffers.                               *)
ListOK == Permutes(list, Cardinality(Bufs), Bufs)

Fields ==
  /\ blockno \in [Bufs -> Blocks \cup {NoBlock}]
  /\ valid \in [Bufs -> BOOLEAN] /\ dirty \in [Bufs -> BOOLEAN]
  /\ refcnt \in [Bufs -> Int]
  /\ data \in [Bufs -> Value] /\ disk \in [Blocks -> Value]
  /\ latest \in [Blocks -> Value]
  /\ locked \in [Bufs -> Procs \cup {NoProc}]
  /\ idequeue \in Seq(Bufs)
  /\ pc \in [Procs -> {"idle", "acquire", "use", "unref", "iderw", "wait"}]
  /\ buf \in [Procs -> Bufs \cup {NoBuf}]
  /\ asleep \subseteq Procs /\ irq \in {"none", "ok", "err"}

(* Reference counts and sleep locks follow the processes.                  *)
Refs == /\ \A p \in Procs : buf[p] = NoBuf <=> pc[p] = "idle"
        /\ \A b \in Bufs : refcnt[b] = Cardinality(Users(b))
Holders == \A p \in Procs, b \in Bufs : locked[b] = p <=> buf[p] = b /\ pc[p] \in Inside

(* A block is in one buffer; a buffer in use or valid has a block.         *)
Blocknos ==
  /\ \A b, c \in Bufs : blockno[b] = blockno[c] /\ b # c => blockno[b] = NoBlock
  /\ \A p \in Procs : pc[p] # "idle" => blockno[buf[p]] \in Blocks
  /\ \A b \in Bufs : valid[b] => blockno[b] \in Blocks

(* B_VALID and B_DIRTY, and what a process knows of its own buffer.        *)
Contents ==
  /\ \A b \in Bufs : dirty[b] => valid[b] /\ data[b] = latest[blockno[b]]
  /\ \A p \in Procs : /\ pc[p] = "use" => valid[buf[p]]
                      /\ pc[p] = "iderw" => ~Done(buf[p])

(* A buffer is queued, once, exactly while its holder waits for it.        *)
Waited(b) == \E p \in Procs : buf[p] = b /\ pc[p] = "wait" /\ ~Done(b)
Queued == /\ IsInjective(idequeue)
          /\ \A b \in Bufs : b \in Range(idequeue) <=> Waited(b)

(* The disk works on the head of the queue; when it interrupts, a write    *)
(* that did not fail has reached the disk.                                 *)
Active ==
  /\ idequeue = <<>> => cmd = NoCmd /\ irq = "none"
  /\ \A b \in Bufs : idequeue # <<>> /\ b = Head(idequeue) =>
       /\ cmd = Command(b)
       /\ irq = "ok" /\ dirty[b] => disk[blockno[b]] = data[b]

IndInv == /\ ListOK /\ Fields /\ Refs /\ Holders /\ Blocknos /\ Contents
          /\ Queued /\ Active /\ ValidIsRead /\ NothingLost /\ SleepersHaveReason
-----------------------------------------------------------------------------
(* Sequences without duplicates                                            *)

(* Putting a new element at the end.                                       *)
LEMMA AppendNew ==
  ASSUME NEW S, NEW q \in Seq(S), NEW b \in S, IsInjective(q), b \notin Range(q)
  PROVE  /\ Append(q, b) \in Seq(S) /\ IsInjective(Append(q, b))
         /\ Append(q, b) # <<>>
         /\ \A c : c \in Range(Append(q, b)) <=> c \in Range(q) \/ c = b
         /\ Head(Append(q, b)) = IF q = <<>> THEN b ELSE Head(q)
<1>1. /\ Append(q, b) \in Seq(S) /\ Len(Append(q, b)) = Len(q) + 1 /\ Len(q) \in Nat
      /\ DOMAIN Append(q, b) = 1..(Len(q) + 1) /\ DOMAIN q = 1..Len(q)
      /\ \A i \in 1..Len(q) : Append(q, b)[i] = q[i]
      /\ Append(q, b)[Len(q) + 1] = b
  OBVIOUS
<1>2. IsInjective(Append(q, b))
  BY <1>1 DEF IsInjective, Range
<1>3. \A c : c \in Range(Append(q, b)) <=> c \in Range(q) \/ c = b
  <2>1. ASSUME NEW c, c \in Range(Append(q, b)) PROVE c \in Range(q) \/ c = b
    BY <1>1, <2>1 DEF Range
  <2>2. ASSUME NEW c, c \in Range(q) PROVE c \in Range(Append(q, b))
    BY <1>1, <2>2 DEF Range
  <2>3. b \in Range(Append(q, b))
    BY <1>1 DEF Range
  <2>4. QED
    BY <2>1, <2>2, <2>3
<1>4. QED
  BY <1>1, <1>2, <1>3

(* Taking the first element off.                                           *)
LEMMA TailOf ==
  ASSUME NEW S, NEW q \in Seq(S), IsInjective(q), q # <<>>
  PROVE  /\ Tail(q) \in Seq(S) /\ IsInjective(Tail(q)) /\ Head(q) \in S
         /\ Head(q) \in Range(q)
         /\ \A c : c \in Range(Tail(q)) <=> c \in Range(q) /\ c # Head(q)
         /\ Tail(q) # <<>> => Head(Tail(q)) \in Range(Tail(q))
<1>1. /\ Tail(q) \in Seq(S) /\ Len(Tail(q)) = Len(q) - 1 /\ Len(q) \in Nat /\ Len(q) >= 1
      /\ DOMAIN Tail(q) = 1..(Len(q) - 1) /\ DOMAIN q = 1..Len(q)
      /\ \A i \in 1..(Len(q) - 1) : Tail(q)[i] = q[i + 1]
      /\ Head(q) = q[1] /\ q[1] \in S
  OBVIOUS
<1>2. IsInjective(Tail(q))
  BY <1>1 DEF IsInjective
<1>3. \A c : c \in Range(Tail(q)) <=> c \in Range(q) /\ c # Head(q)
  <2>1. ASSUME NEW c, c \in Range(Tail(q)) PROVE c \in Range(q) /\ c # Head(q)
    BY <1>1, <2>1 DEF Range, IsInjective
  <2>2. ASSUME NEW c, c \in Range(q), c # Head(q) PROVE c \in Range(Tail(q))
    <3>1. PICK i \in 1..Len(q) : c = q[i]
      BY <1>1, <2>2 DEF Range
    <3>2. i - 1 \in 1..(Len(q) - 1) /\ Tail(q)[i - 1] = q[(i - 1) + 1] /\ (i - 1) + 1 = i
      BY <1>1, <2>2, <3>1
    <3>3. QED
      BY <1>1, <3>1, <3>2 DEF Range
  <2>3. QED
    BY <2>1, <2>2
<1>4. Tail(q) # <<>> => Head(Tail(q)) \in Range(Tail(q))
  BY <1>1 DEF Range
<1>5. QED
  BY <1>1, <1>2, <1>3, <1>4 DEF Range

(* Where an element of the list comes from when the one at k moves to the  *)
(* front: two places never have the same origin.                           *)
LEMMA ShiftInjective ==
  ASSUME NEW k \in Int, NEW i \in Int, NEW j \in Int, NEW x \in Int, k >= 1, i >= 1, j >= 1,
         x = IF i = 1 THEN k ELSE IF i <= k THEN i - 1 ELSE i,
         x = IF j = 1 THEN k ELSE IF j <= k THEN j - 1 ELSE j
  PROVE  i = j
OBVIOUS

(* r is q with the element at k moved to the front.                        *)
Rotated(r, q, k, n) == /\ r[1] = q[k] /\ \A i \in 2..k : r[i] = q[i - 1]
                       /\ \A i \in (k + 1)..n : r[i] = q[i]

(* Moving the element at k to the front keeps a permutation.               *)
LEMMA RotateKeeps ==
  ASSUME NEW S, NEW n \in Nat, NEW q, NEW k \in 1..n, NEW r \in [1..n -> S],
         Permutes(q, n, S), Rotated(r, q, k, n)
  PROVE  Permutes(r, n, S)
<1>0. /\ q \in [1..n -> S]
      /\ \A i, j \in 1..n : q[i] = q[j] => i = j
      /\ \A c \in S : \E i \in 1..n : q[i] = c
      /\ r[1] = q[k]
      /\ \A i \in 2..k : r[i] = q[i - 1]
      /\ \A i \in (k + 1)..n : r[i] = q[i]
  BY DEF Permutes, Rotated
<1>1. ASSUME NEW i \in 1..n
      PROVE  \E x \in 1..n : /\ r[i] = q[x]
                             /\ x = IF i = 1 THEN k ELSE IF i <= k THEN i - 1 ELSE i
  <2>1. CASE i = 1
    BY <1>0, <2>1
  <2>2. CASE i \in 2..k
    <3>1. i - 1 \in 1..n /\ i # 1 /\ i <= k
      BY <2>2
    <3>2. QED
      BY <1>0, <2>2, <3>1
  <2>3. CASE i \in (k + 1)..n
    <3>1. i # 1 /\ ~(i <= k)
      BY <2>3
    <3>2. QED
      BY <1>0, <2>3, <3>1
  <2>4. QED
    BY <2>1, <2>2, <2>3
<1>2. ASSUME NEW i \in 1..n, NEW j \in 1..n, r[i] = r[j] PROVE i = j
  <2>1. PICK x \in 1..n : r[i] = q[x] /\ x = IF i = 1 THEN k ELSE IF i <= k THEN i - 1 ELSE i
    BY <1>1
  <2>2. PICK y \in 1..n : r[j] = q[y] /\ y = IF j = 1 THEN k ELSE IF j <= k THEN j - 1 ELSE j
    BY <1>1
  <2>3. q[x] = q[y]
    BY <1>2, <2>1, <2>2, Zenon
  <2>4. x = y
    BY <1>0, <2>3
  <2>5. /\ x = IF i = 1 THEN k ELSE IF i <= k THEN i - 1 ELSE i
        /\ x = IF j = 1 THEN k ELSE IF j <= k THEN j - 1 ELSE j
    BY <2>1, <2>2, <2>4, Zenon
  <2>6. k \in Int /\ i \in Int /\ j \in Int /\ x \in Int /\ k >= 1 /\ i >= 1 /\ j >= 1
    OBVIOUS
  <2>7. QED
    BY ShiftInjective, <2>5, <2>6
<1>3. ASSUME NEW c \in S PROVE \E i \in 1..n : r[i] = c
  <2>1. PICK j \in 1..n : q[j] = c
    BY <1>0
  <2>2. CASE j = k
    <3>1. 1 \in 1..n
      OBVIOUS
    <3>2. QED
      BY <1>0, <2>1, <2>2, <3>1
  <2>3. CASE j < k
    <3>1. PICK i \in 2..k : i - 1 = j
      <4>1. j + 1 \in 2..k /\ (j + 1) - 1 = j
        BY <2>3
      <4>2. QED
        BY <4>1
    <3>2. i \in 1..n
      OBVIOUS
    <3>3. QED
      BY <1>0, <2>1, <3>1, <3>2
  <2>4. CASE j > k
    BY <1>0, <2>1, <2>4
  <2>5. QED
    BY <2>2, <2>3, <2>4
<1>4. QED
  BY <1>2, <1>3 DEF Permutes

(* SetToSeq() of a finite set is a permutation of it.                      *)
LEMMA SetToSeqIs ==
  ASSUME NEW S, IsFiniteSet(S)
  PROVE  /\ Cardinality(S) \in Nat
         /\ Permutes(SetToSeq(S), Cardinality(S), S)
<1>1. Cardinality(S) \in Nat
  BY FS_CardinalityType
<1>2. PICK n \in Nat : n = Cardinality(S)
  BY <1>1
<1>3. \E f \in [1..n -> S] : IsInjective(f)
  <2>1. PICK f : f \in [1..n -> S] /\ \A i, j \in 1..n : f[i] = f[j] => i = j
    BY <1>2, FS_CardinalityType DEF ExistsBijection, Bijection, Injection, IsInjective
  <2>2. QED
    BY <2>1 DEF IsInjective
<1>4. PICK f : f = SetToSeq(S) /\ f \in [1..n -> S] /\ IsInjective(f)
  BY <1>2, <1>3 DEF SetToSeq
<1>5. ASSUME NEW c \in S, \A i \in 1..n : f[i] # c PROVE FALSE
  <2>1. f \in [1..n -> S \ {c}] /\ \A i, j \in 1..n : f[i] = f[j] => i = j
    BY <1>4, <1>5 DEF IsInjective
  <2>2. IsFiniteSet(1..n) /\ Cardinality(1..n) = n
    BY FS_Interval
  <2>3. IsFiniteSet(S \ {c}) /\ Cardinality(S \ {c}) = n - 1
    BY <1>2, FS_RemoveElement
  <2>4. f \in Injection(1..n, S \ {c})
    BY <2>1 DEF Injection, IsInjective
  <2>5. n <= n - 1
    BY <2>2, <2>3, <2>4, FS_Injection DEF ExistsInjection
  <2>6. QED
    BY <2>5
<1>6. Permutes(f, n, S)
  BY <1>4, <1>5 DEF Permutes, IsInjective
<1>7. QED
  BY <1>1, <1>2, <1>4, <1>6
-----------------------------------------------------------------------------
(* Facts about a state                                                     *)

(* A process outside "idle" has a buffer, and its block.                   *)
LEMMA HasBuf ==
  ASSUME IndInv, NEW p \in Procs, pc[p] # "idle"
  PROVE  buf[p] \in Bufs /\ blockno[buf[p]] \in Blocks
BY DEF IndInv, Fields, Refs, Blocknos

(* One process is inside a buffer.                                         *)
LEMMA Mine ==
  ASSUME IndInv, NEW p \in Procs, NEW q \in Procs, pc[p] \in Inside, pc[q] \in Inside,
         buf[p] = buf[q]
  PROVE  p = q
<1>1. pc[p] # "idle"
  BY DEF Inside
<1>2. PICK b \in Bufs : b = buf[p]
  BY <1>1, HasBuf
<1>3. locked[b] = p /\ locked[b] = q
  BY <1>2 DEF IndInv, Holders
<1>4. QED
  BY <1>3

(* The buffer of a process that does not wait is not queued.               *)
LEMMA NotQueued ==
  ASSUME IndInv, NEW p \in Procs, pc[p] \in {"use", "iderw"}
  PROVE  ~Waited(buf[p]) /\ buf[p] \notin Range(idequeue)
<1>1. buf[p] \in Bufs
  BY HasBuf
<1>2. ASSUME NEW q \in Procs, buf[q] = buf[p], pc[q] = "wait" PROVE FALSE
  <2>1. pc[p] \in Inside /\ pc[q] \in Inside
    BY <1>2 DEF Inside
  <2>2. p = q
    BY <1>2, <2>1, Mine
  <2>3. QED
    BY <1>2, <2>2
<1>3. ~Waited(buf[p])
  BY <1>2 DEF Waited
<1>4. QED
  BY <1>1, <1>3 DEF IndInv, Queued

(* A queued buffer has a block, a waiting process, and is not done.        *)
LEMMA QueuedBuf ==
  ASSUME IndInv, NEW b \in Bufs, b \in Range(idequeue)
  PROVE  /\ blockno[b] \in Blocks /\ ~Done(b)
         /\ \E p \in Procs : buf[p] = b /\ pc[p] = "wait"
<1>1. PICK p \in Procs : buf[p] = b /\ pc[p] = "wait" /\ ~Done(b)
  BY DEF IndInv, Queued, Waited
<1>2. pc[p] # "idle"
  BY <1>1
<1>3. QED
  BY <1>1, <1>2, HasBuf

(* The users of a buffer can be counted.                                   *)
LEMMA UsersFinite ==
  ASSUME NEW b
  PROVE  /\ IsFiniteSet(Users(b)) /\ Cardinality(Users(b)) \in Nat
         /\ Cardinality(Users(b)) <= Cardinality(Procs)
<1>1. Users(b) \in SUBSET Procs
  BY DEF Users
<1>2. PICK U : U = Users(b) /\ U \in SUBSET Procs
  BY <1>1
<1>3. IsFiniteSet(U) /\ Cardinality(U) <= Cardinality(Procs)
  BY <1>2, FS_Subset, BcacheConstants
<1>4. Cardinality(U) \in Nat
  BY <1>3, FS_CardinalityType
<1>5. QED
  BY <1>2, <1>3, <1>4
-----------------------------------------------------------------------------
(* The actions                                                             *)

(* A sleeper is woken by kill().                                           *)
LEMMA KillStep ==
  ASSUME IndInv, NEW p \in Procs, Kill(p)
  PROVE  IndInv'
<1> USE DEF Kill, cacheVars, bufVars, ideVars
<1>1. ListOK' BY DEF IndInv, ListOK
<1>2. Fields' BY DEF IndInv, Fields
<1>3. Refs' BY DEF IndInv, Refs, Users
<1>4. Holders' BY DEF IndInv, Holders
<1>5. Blocknos' BY DEF IndInv, Blocknos
<1>6. Contents' BY DEF IndInv, Contents, Done
<1>7. Queued' BY DEF IndInv, Queued, Waited, Done
<1>8. Active' BY DEF IndInv, Active, Command, NoCmd
<1>9. ValidIsRead' BY DEF IndInv, ValidIsRead
<1>10. NothingLost' BY DEF IndInv, NothingLost
<1>11. SleepersHaveReason' BY DEF IndInv, SleepersHaveReason
<1>12. QED BY <1>1, <1>2, <1>3, <1>4, <1>5, <1>6, <1>7, <1>8, <1>9, <1>10, <1>11 DEF IndInv

(* bget() finds no buffer.                                                 *)
LEMMA BGetPanicsStep ==
  ASSUME IndInv, NEW p \in Procs, NEW k \in Blocks, BGetPanics(p, k)
  PROVE  IndInv'
<1> USE DEF BGetPanics, cacheVars, bufVars, ideVars
<1>1. ListOK' BY DEF IndInv, ListOK
<1>2. Fields' BY DEF IndInv, Fields
<1>3. Refs' BY DEF IndInv, Refs, Users
<1>4. Holders' BY DEF IndInv, Holders
<1>5. Blocknos' BY DEF IndInv, Blocknos
<1>6. Contents' BY DEF IndInv, Contents, Done
<1>7. Queued' BY DEF IndInv, Queued, Waited, Done
<1>8. Active' BY DEF IndInv, Active, Command, NoCmd
<1>9. ValidIsRead' BY DEF IndInv, ValidIsRead
<1>10. NothingLost' BY DEF IndInv, NothingLost
<1>11. SleepersHaveReason' BY DEF IndInv, SleepersHaveReason
<1>12. QED BY <1>1, <1>2, <1>3, <1>4, <1>5, <1>6, <1>7, <1>8, <1>9, <1>10, <1>11 DEF IndInv

(* A process takes a buffer: the count of its users grows by one.          *)
LEMMA UserAdded ==
  ASSUME Fields, Refs, NEW p \in Procs, NEW b \in Bufs, pc[p] = "idle",
         buf' = [buf EXCEPT ![p] = b]
  PROVE  /\ Cardinality(Users(b)') = Cardinality(Users(b)) + 1
         /\ \A c \in Bufs \ {b} : Users(c)' = Users(c)
<1>1. buf[p] = NoBuf /\ NoBuf \notin Bufs
  BY BcacheConstants DEF Refs
<1>2. p \notin Users(b) /\ Users(b)' = Users(b) \cup {p}
  BY <1>1 DEF Users, Fields
<1>3. IsFiniteSet(Users(b)) /\ Cardinality(Users(b)) \in Nat
  BY UsersFinite
<1>4. Cardinality(Users(b) \cup {p}) = Cardinality(Users(b)) + 1
  BY <1>2, <1>3, FS_AddElement
<1>5. ASSUME NEW c \in Bufs \ {b} PROVE Users(c)' = Users(c)
  BY <1>1 DEF Users, Fields
<1>6. QED
  BY <1>2, <1>4, <1>5

(* bget() finds the block in the cache.                                    *)
LEMMA BGetHitStep ==
  ASSUME IndInv, NEW p \in Procs, NEW k \in Blocks, BGetHit(p, k)
  PROVE  IndInv'
<1>1. PICK b \in Bufs : blockno[b] = k /\ refcnt' = RefHit(b) /\ buf' = [buf EXCEPT ![p] = b]
  BY DEF BGetHit, Cached
<1>2. /\ pc[p] = "idle" /\ pc' = [pc EXCEPT ![p] = "acquire"]
      /\ UNCHANGED <<list, blockno, valid, dirty, data, locked, idequeue, cmd, irq, disk,
                     asleep, latest, failed>>
  BY DEF BGetHit, Goto, bufVars, ideVars
<1>3. Fields /\ Refs /\ buf[p] = NoBuf
  BY <1>2 DEF IndInv, Refs
<1>4. ListOK' BY <1>2 DEF IndInv, ListOK
<1>5. Fields' BY <1>1, <1>2 DEF IndInv, Fields, RefHit
<1>6. Refs'
  <2>1. ASSUME NEW q \in Procs PROVE buf'[q] = NoBuf <=> pc'[q] = "idle"
    BY <1>1, <1>2, <1>3, BcacheConstants DEF Fields, Refs
  <2>2. ASSUME NEW c \in Bufs PROVE refcnt'[c] = Cardinality(Users(c)')
    <3>1. /\ Cardinality(Users(b)') = Cardinality(Users(b)) + 1
          /\ \A d \in Bufs \ {b} : Users(d)' = Users(d)
      BY <1>1, <1>2, <1>3, UserAdded
    <3>2. refcnt[c] = Cardinality(Users(c))
      BY <1>3 DEF Refs
    <3>3. CASE c = b
      BY <1>1, <1>3, <3>1, <3>2, <3>3 DEF RefHit, Fields
    <3>4. CASE c # b
      BY <1>1, <1>3, <3>1, <3>2, <3>4 DEF RefHit, Fields
    <3>5. QED
      BY <3>3, <3>4
  <2>3. QED
    BY <2>1, <2>2 DEF Refs
<1>7. Holders'
  BY <1>1, <1>2, <1>3, BcacheConstants DEF IndInv, Holders, Inside, Fields
<1>8. Blocknos' BY <1>1, <1>2, <1>3 DEF IndInv, Blocknos, Fields
<1>9. Contents' BY <1>1, <1>2, <1>3 DEF IndInv, Contents, Done, Fields
<1>10. Queued'
  <2>1. ASSUME NEW c \in Bufs PROVE Waited(c)' <=> Waited(c)
    BY <1>1, <1>2, <1>3 DEF Waited, Done, Fields
  <2>2. QED
    BY <1>2, <2>1 DEF IndInv, Queued
<1>11. Active' BY <1>2 DEF IndInv, Active, Command, NoCmd
<1>12. ValidIsRead' BY <1>2 DEF IndInv, ValidIsRead
<1>13. NothingLost' BY <1>2 DEF IndInv, NothingLost
<1>14. SleepersHaveReason'
  BY <1>1, <1>2, <1>3 DEF IndInv, SleepersHaveReason, Fields
<1>15. QED
  BY <1>4, <1>5, <1>6, <1>7, <1>8, <1>9, <1>10, <1>11, <1>12, <1>13, <1>14 DEF IndInv

(* A set of numbers up to n has a last one.                                *)
LEMMA LastIs ==
  ASSUME NEW n \in Nat, NEW I, I \subseteq 1..n, I # {}
  PROVE  \E i \in I : \A j \in (i + 1)..n : j \notin I
<1>1. PICK R : R = OpToRel(<, Nat)
  BY Zenon
<1>2. IsWellFoundedOn(R, Nat)
  BY <1>1, NatLessThanWellFounded, Zenon
<1>3. PICK D : D = {d \in 0..n : (n - d) \in I}
  OBVIOUS
<1>4. D \subseteq Nat /\ D # {}
  <2>1. PICK i \in 1..n : i \in I
    OBVIOUS
  <2>2. PICK d \in 0..n : d = n - i
    OBVIOUS
  <2>3. n - d = i
    BY <2>2
  <2>4. d \in D
    BY <1>3, <2>1, <2>3
  <2>5. D \subseteq Nat
    BY <1>3
  <2>6. QED
    BY <2>4, <2>5
<1>5. PICK d \in D : \A e \in D : <<e, d>> \notin R
  BY <1>2, <1>4, WFMin
<1>6. ASSUME NEW e \in D PROVE ~(e < d)
  <2>1. e \in Nat /\ d \in Nat
    BY <1>4
  <2>2. e < d => <<e, d>> \in R
    BY <1>1, <2>1 DEF OpToRel
  <2>3. QED
    BY <1>5, <2>2
<1>7. PICK i \in 1..n : i = n - d /\ i \in I /\ d \in 0..n
  BY <1>3, <1>5
<1>8. ASSUME NEW j \in (i + 1)..n, j \in I PROVE FALSE
  <2>1. PICK e \in 0..n : e = n - j
    BY <1>7
  <2>2. n - e = j /\ e < d
    BY <1>7, <2>1
  <2>3. e \in D
    BY <1>3, <1>8, <2>2
  <2>4. QED
    BY <1>6, <2>2, <2>3
<1>9. QED
  BY <1>7, <1>8

(* The scan of bget() from the end of the list finds a buffer.             *)
LEMMA LeastRecentIs ==
  ASSUME IndInv, \E b \in Bufs : Recyclable(b)
  PROVE  LeastRecent \in Bufs /\ Recyclable(LeastRecent)
<1>1. PICK n \in Nat : n = Cardinality(Bufs)
  BY FS_CardinalityType, BcacheConstants
<1>2. /\ list \in [1..n -> Bufs] /\ DOMAIN list = 1..n /\ Len(list) = n
      /\ \A b \in Bufs : \E i \in 1..n : list[i] = b
  BY <1>1 DEF IndInv, ListOK, Permutes
<1>3. PICK I : I = {i \in 1..n : Recyclable(list[i])}
  OBVIOUS
<1>4. I \subseteq 1..n /\ I # {}
  BY <1>2, <1>3
<1>5. PICK i \in I : \A j \in (i + 1)..n : j \notin I
  BY <1>4, LastIs
<1>6. i \in 1..n /\ Recyclable(list[i]) /\ \A j \in (i + 1)..n : ~Recyclable(list[j])
  <2>1. \A j \in (i + 1)..n : j \in 1..n
    BY <1>4, <1>5
  <2>2. QED
    BY <1>3, <1>5, <2>1
<1>7. \E m \in DOMAIN list : /\ Recyclable(list[m])
                             /\ \A j \in (m + 1)..Len(list) : ~Recyclable(list[j])
  BY <1>2, <1>6
<1>8. PICK m \in DOMAIN list : LeastRecent = list[m] /\ Recyclable(list[m])
  BY <1>7 DEF LeastRecent
<1>9. QED
  BY <1>2, <1>8

(* bget() takes a buffer that nobody refers to for the block.              *)
LEMMA BGetRecycleStep ==
  ASSUME IndInv, NEW p \in Procs, NEW k \in Blocks, BGetRecycle(p, k)
  PROVE  IndInv'
<1>1. LeastRecent \in Bufs /\ Recyclable(LeastRecent)
  BY LeastRecentIs DEF BGetRecycle
<1>2. PICK b \in Bufs :
        /\ refcnt[b] = 0 /\ ~dirty[b] /\ Cached(k) = {}
        /\ blockno' = [blockno EXCEPT ![b] = k] /\ valid' = [valid EXCEPT ![b] = FALSE]
        /\ dirty' = [dirty EXCEPT ![b] = FALSE] /\ refcnt' = [refcnt EXCEPT ![b] = 1]
        /\ failed' = failed \ {b} /\ buf' = [buf EXCEPT ![p] = b]
  BY <1>1 DEF BGetRecycle, Recyclable
<1>3. /\ pc[p] = "idle" /\ pc' = [pc EXCEPT ![p] = "acquire"]
      /\ UNCHANGED <<list, data, locked, idequeue, cmd, irq, disk, asleep, latest>>
  BY DEF BGetRecycle, Goto, ideVars
<1>4. Fields /\ Refs /\ buf[p] = NoBuf
  BY <1>3 DEF IndInv, Refs
<1>5. Users(b) = {} /\ Cardinality(Users(b)) = 0
  <2>1. Cardinality(Users(b)) = 0
    BY <1>2, <1>4 DEF Refs
  <2>2. IsFiniteSet(Users(b))
    BY UsersFinite
  <2>3. QED
    BY <2>1, <2>2, FS_EmptySet
<1>6. ASSUME NEW q \in Procs PROVE buf[q] # b
  BY <1>5 DEF Users
<1>7. ~Waited(b) /\ b \notin Range(idequeue)
  BY <1>6 DEF Waited, IndInv, Queued
<1>8. \A c \in Bufs : blockno[c] # k
  BY <1>2 DEF Cached
<1>9. ListOK' BY <1>3 DEF IndInv, ListOK
<1>10. Fields' BY <1>2, <1>3 DEF IndInv, Fields
<1>11. Refs'
  <2>1. ASSUME NEW q \in Procs PROVE buf'[q] = NoBuf <=> pc'[q] = "idle"
    BY <1>2, <1>3, <1>4, BcacheConstants DEF Fields, Refs
  <2>2. ASSUME NEW c \in Bufs PROVE refcnt'[c] = Cardinality(Users(c)')
    <3>1. /\ Cardinality(Users(b)') = Cardinality(Users(b)) + 1
          /\ \A d \in Bufs \ {b} : Users(d)' = Users(d)
      BY <1>2, <1>3, <1>4, UserAdded
    <3>2. refcnt[c] = Cardinality(Users(c))
      BY <1>4 DEF Refs
    <3>3. CASE c = b
      BY <1>2, <1>4, <1>5, <3>1, <3>3 DEF Fields
    <3>4. CASE c # b
      BY <1>2, <1>4, <3>1, <3>2, <3>4 DEF Fields
    <3>5. QED
      BY <3>3, <3>4
  <2>3. QED
    BY <2>1, <2>2 DEF Refs
<1>12. Holders'
  BY <1>2, <1>3, <1>4, BcacheConstants DEF IndInv, Holders, Inside, Fields
<1>13. Blocknos' BY <1>2, <1>3, <1>4, <1>6, <1>8 DEF IndInv, Blocknos, Fields
<1>14. Contents' BY <1>2, <1>3, <1>4, <1>6 DEF IndInv, Contents, Done, Fields
<1>15. Queued'
  <2>1. ASSUME NEW c \in Bufs PROVE Waited(c)' <=> Waited(c)
    BY <1>2, <1>3, <1>4, <1>6 DEF Waited, Done, Fields
  <2>2. QED
    BY <1>3, <2>1 DEF IndInv, Queued
<1>16. Active'
  <2>1. ASSUME NEW c \in Bufs, idequeue # <<>>, c = Head(idequeue) PROVE c # b
    <3>1. Head(idequeue) \in Range(idequeue)
      BY <1>4, <2>1, TailOf DEF IndInv, Queued, Fields
    <3>2. QED
      BY <1>7, <2>1, <3>1
  <2>2. QED
    BY <1>2, <1>3, <1>4, <2>1 DEF IndInv, Active, Command, NoCmd, Fields
<1>17. ValidIsRead' BY <1>2, <1>3, <1>4 DEF IndInv, ValidIsRead, Fields
<1>18. NothingLost' BY <1>2, <1>3, <1>4 DEF IndInv, NothingLost, Fields
<1>19. SleepersHaveReason'
  BY <1>2, <1>3, <1>4 DEF IndInv, SleepersHaveReason, Fields
<1>20. QED
  BY <1>9, <1>10, <1>11, <1>12, <1>13, <1>14, <1>15, <1>16, <1>17, <1>18, <1>19 DEF IndInv

(* acquiresleep(), and the test of B_VALID.                                *)
LEMMA AcquireSleepStep ==
  ASSUME IndInv, NEW p \in Procs, AcquireSleep(p)
  PROVE  IndInv'
<1>1. /\ pc[p] = "acquire" /\ p \notin asleep
      /\ UNCHANGED <<list, blockno, refcnt, valid, dirty, data, idequeue, cmd, irq, disk,
                     buf, latest, failed>>
  BY DEF AcquireSleep, cacheVars, bufVars, ideVars
<1>2. PICK b \in Bufs : b = buf[p] /\ blockno[b] \in Blocks
  BY <1>1, HasBuf
<1>3. Fields
  BY DEF IndInv
<1>4. ListOK' BY <1>1 DEF IndInv, ListOK
<1>5. Blocknos' /\ Active' /\ ValidIsRead' /\ NothingLost'
  <2>1. \A q \in Procs : pc'[q] # "idle" => pc[q] # "idle"
    BY <1>1, <1>3 DEF AcquireSleep, Goto, Fields
  <2>2. Blocknos' BY <1>1, <2>1 DEF IndInv, Blocknos
  <2>3. Active' BY <1>1 DEF IndInv, Active, Command, NoCmd
  <2>4. ValidIsRead' BY <1>1 DEF IndInv, ValidIsRead
  <2>5. NothingLost' BY <1>1 DEF IndInv, NothingLost
  <2>6. QED BY <2>2, <2>3, <2>4, <2>5
<1>6. CASE locked[b] = NoProc
  <2>1. PICK l \in {"use", "iderw"} :
          /\ l = IF valid[b] THEN "use" ELSE "iderw"
          /\ locked' = [locked EXCEPT ![b] = p] /\ pc' = [pc EXCEPT ![p] = l]
          /\ asleep' = asleep
    BY <1>2, <1>6 DEF AcquireSleep, FreeLock, Goto
  <2>2. Fields' BY <1>1, <2>1 DEF IndInv, Fields
  <2>3. Refs' BY <1>1, <1>3, <2>1 DEF IndInv, Refs, Users, Fields
  <2>4. Holders'
    BY <1>1, <1>2, <1>3, <1>6, <2>1, BcacheConstants DEF IndInv, Holders, Inside, Fields
  <2>5. Contents'
    <3>1. (l = "use" => valid[b]) /\ (l = "iderw" => ~valid[b])
      BY <2>1
    <3>2. QED
      BY <1>1, <1>2, <1>3, <2>1, <3>1 DEF IndInv, Contents, Done, Fields
  <2>6. Queued'
    <3>1. ASSUME NEW c \in Bufs PROVE Waited(c)' <=> Waited(c)
      BY <1>1, <1>3, <2>1 DEF Waited, Done, Fields
    <3>2. QED
      BY <1>1, <3>1 DEF IndInv, Queued
  <2>7. SleepersHaveReason'
    BY <1>1, <1>2, <1>3, <1>6, <2>1, BcacheConstants DEF IndInv, SleepersHaveReason, Fields
  <2>8. QED
    BY <1>4, <1>5, <2>2, <2>3, <2>4, <2>5, <2>6, <2>7 DEF IndInv
<1>7. CASE locked[b] # NoProc
  <2>1. UNCHANGED <<locked, pc>> /\ asleep' = asleep \cup {p}
    BY <1>2, <1>7 DEF AcquireSleep, FreeLock
  <2>2. Fields' BY <1>1, <2>1 DEF IndInv, Fields
  <2>3. Refs' BY <1>1, <2>1 DEF IndInv, Refs, Users
  <2>4. Holders' BY <1>1, <2>1 DEF IndInv, Holders
  <2>5. Contents' BY <1>1, <2>1 DEF IndInv, Contents, Done
  <2>6. Queued' BY <1>1, <2>1 DEF IndInv, Queued, Waited, Done
  <2>7. SleepersHaveReason'
    BY <1>1, <1>2, <1>7, <2>1 DEF IndInv, SleepersHaveReason
  <2>8. QED
    BY <1>4, <1>5, <2>2, <2>3, <2>4, <2>5, <2>6, <2>7 DEF IndInv
<1>8. QED
  BY <1>6, <1>7

(* The holder of a buffer stores new contents in it.                       *)
LEMMA StoreStep ==
  ASSUME IndInv, NEW p \in Procs, NEW v \in Value, pc[p] = "use",
         data' = [data EXCEPT ![buf[p]] = v], dirty' = [dirty EXCEPT ![buf[p]] = TRUE],
         latest' = [latest EXCEPT ![blockno[buf[p]]] = v], failed' = failed \ {buf[p]},
         pc' = [pc EXCEPT ![p] = "iderw"] \/ pc' = pc,
         UNCHANGED <<list, blockno, refcnt, valid, locked, idequeue, cmd, irq, disk, buf,
                     asleep>>
  PROVE  IndInv'
<1>1. PICK b \in Bufs : b = buf[p] /\ blockno[b] \in Blocks
  BY HasBuf
<1>2. PICK k \in Blocks : k = blockno[b]
  BY <1>1
<1>3. /\ data' = [data EXCEPT ![b] = v] /\ dirty' = [dirty EXCEPT ![b] = TRUE]
      /\ latest' = [latest EXCEPT ![k] = v] /\ failed' = failed \ {b}
  BY <1>1, <1>2
<1>4. ~Waited(b) /\ b \notin Range(idequeue)
  BY <1>1, NotQueued
<1>5. Fields /\ valid[b]
  BY <1>1 DEF IndInv, Contents
<1>6. ASSUME NEW c \in Bufs, c # b PROVE blockno[c] # k
  BY <1>1, <1>2, <1>6, BcacheConstants DEF IndInv, Blocknos
<1>7. \A q \in Procs : q # p => pc'[q] = pc[q]
  BY <1>5 DEF Fields
<1>8. pc'[p] \in {"use", "iderw"}
  BY <1>5 DEF Fields
<1>9. /\ data'[b] = v /\ dirty'[b] /\ latest'[k] = v
      /\ \A c \in Bufs : c # b => data'[c] = data[c] /\ dirty'[c] = dirty[c]
      /\ \A j \in Blocks : j # k => latest'[j] = latest[j]
  BY <1>3, <1>5 DEF Fields
<1>10. ListOK' BY DEF IndInv, ListOK
<1>11. Fields'
  <2>1. pc' \in [Procs -> {"idle", "acquire", "use", "unref", "iderw", "wait"}]
    BY <1>5 DEF Fields
  <2>2. data \in [Bufs -> Value] /\ latest \in [Blocks -> Value]
    BY <1>5 DEF Fields
  <2>3. data' \in [Bufs -> Value]
    BY <1>3, <2>2, Zenon
  <2>4. latest' \in [Blocks -> Value]
    BY <1>3, <2>2, Zenon
  <2>5. dirty' \in [Bufs -> BOOLEAN]
    BY <1>3, <1>5 DEF Fields
  <2>6. QED
    BY <1>5, <2>1, <2>3, <2>4, <2>5 DEF Fields
<1>12. Refs' BY <1>5, <1>7, <1>8 DEF IndInv, Refs, Users, Fields
<1>13. Holders'
  BY <1>7, <1>8 DEF IndInv, Holders, Inside
<1>14. Blocknos' BY <1>7, <1>8 DEF IndInv, Blocknos
<1>15. Contents'
  <2>1. ASSUME NEW c \in Bufs, dirty'[c] PROVE valid[c] /\ data'[c] = latest'[blockno[c]]
    <3>1. CASE c = b
      BY <1>2, <1>5, <1>9, <3>1
    <3>2. CASE c # b
      <4>1. dirty[c] /\ data'[c] = data[c]
        BY <1>9, <2>1, <3>2
      <4>2. valid[c] /\ data[c] = latest[blockno[c]] /\ blockno[c] \in Blocks
        BY <4>1 DEF IndInv, Contents, Blocknos
      <4>3. QED
        BY <1>6, <1>9, <3>2, <4>1, <4>2
    <3>3. QED
      BY <3>1, <3>2
  <2>2. ASSUME NEW q \in Procs, pc'[q] = "use" PROVE valid[buf[q]]
    BY <1>1, <1>5, <1>7, <2>2 DEF IndInv, Contents
  <2>3. ASSUME NEW q \in Procs, pc'[q] = "iderw" PROVE ~(valid[buf[q]] /\ ~dirty'[buf[q]])
    <3>1. CASE q = p
      BY <1>1, <1>9, <3>1
    <3>2. CASE q # p
      <4>1. pc[q] = "iderw" /\ pc[q] # "idle"
        BY <1>7, <2>3, <3>2
      <4>2. PICK c \in Bufs : c = buf[q]
        BY <4>1, HasBuf
      <4>3. c # b
        BY <1>1, <3>2, <4>1, <4>2, Mine DEF Inside
      <4>4. ~(valid[c] /\ ~dirty[c])
        BY <4>1, <4>2 DEF IndInv, Contents, Done
      <4>5. QED
        BY <1>9, <4>2, <4>3, <4>4
    <3>3. QED
      BY <3>1, <3>2
  <2>4. QED
    BY <2>1, <2>2, <2>3 DEF Contents, Done
<1>16. Queued'
  <2>1. ASSUME NEW c \in Bufs PROVE Waited(c)' <=> Waited(c)
    <3>1. CASE c = b
      <4>1. ASSUME NEW q \in Procs, buf[q] = b, pc'[q] = "wait" PROVE FALSE
        <5>1. q # p /\ pc[q] = "wait"
          BY <1>7, <1>8, <4>1
        <5>2. QED
          BY <1>1, <4>1, <5>1, Mine DEF Inside
      <4>2. ~Waited(c)'
        BY <3>1, <4>1 DEF Waited
      <4>3. QED
        BY <1>4, <3>1, <4>2
    <3>2. CASE c # b
      BY <1>7, <1>8, <1>9, <3>2 DEF Waited, Done
    <3>3. QED
      BY <3>1, <3>2
  <2>2. QED
    BY <2>1 DEF IndInv, Queued
<1>17. Active'
  <2>1. ASSUME NEW c \in Bufs, idequeue # <<>>, c = Head(idequeue) PROVE c # b
    <3>1. Head(idequeue) \in Range(idequeue)
      BY <1>5, <2>1, TailOf DEF IndInv, Queued, Fields
    <3>2. QED
      BY <1>4, <2>1, <3>1
  <2>2. QED
    BY <1>3, <1>5, <2>1 DEF IndInv, Active, Command, NoCmd, Fields
<1>18. ValidIsRead'
  <2>1. SUFFICES ASSUME NEW c \in Bufs, valid[c], c \notin Range(idequeue)
                 PROVE  data'[c] = latest'[blockno[c]] \/ c \in failed'
    BY DEF ValidIsRead
  <2>2. CASE c = b
    BY <1>2, <1>9, <2>2
  <2>3. CASE c # b
    <3>1. blockno[c] \in Blocks /\ blockno[c] # k
      BY <1>6, <2>1, <2>3 DEF IndInv, Blocknos
    <3>2. data[c] = latest[blockno[c]] \/ c \in failed
      BY <2>1 DEF IndInv, ValidIsRead
    <3>3. QED
      BY <1>3, <1>9, <2>3, <3>1, <3>2
  <2>4. QED
    BY <2>2, <2>3
<1>19. NothingLost'
  <2>1. SUFFICES ASSUME NEW j \in Blocks
                 PROVE  \/ disk[j] = latest'[j]
                        \/ \E c \in Bufs : blockno[c] = j /\ dirty'[c] /\ data'[c] = latest'[j]
    BY DEF NothingLost
  <2>2. CASE j = k
    BY <1>2, <1>9, <2>2
  <2>3. CASE j # k
    <3>1. \/ disk[j] = latest[j]
          \/ \E c \in Bufs : blockno[c] = j /\ dirty[c] /\ data[c] = latest[j]
      BY DEF IndInv, NothingLost
    <3>2. latest'[j] = latest[j]
      BY <1>9, <2>3
    <3>3. ASSUME NEW c \in Bufs, blockno[c] = j, dirty[c], data[c] = latest[j]
          PROVE  dirty'[c] /\ data'[c] = latest'[j]
      BY <1>2, <1>9, <2>3, <3>2, <3>3, Zenon
    <3>4. QED
      BY <3>1, <3>2, <3>3, Zenon
  <2>4. QED
    BY <2>2, <2>3
<1>20. SleepersHaveReason'
  <2>1. p \notin asleep
    BY DEF IndInv, SleepersHaveReason
  <2>2. QED
    BY <1>5, <1>7, <2>1 DEF IndInv, SleepersHaveReason, Fields
<1>21. QED
  BY <1>10, <1>11, <1>12, <1>13, <1>14, <1>15, <1>16, <1>17, <1>18, <1>19, <1>20 DEF IndInv

(* bwrite() stores and goes to the disk.                                   *)
LEMMA BWriteStep ==
  ASSUME IndInv, NEW p \in Procs, NEW v \in Value, BWrite(p, v)
  PROVE  IndInv'
BY StoreStep DEF BWrite, Goto, cacheVars, ideVars

(* log_write() only stores.                                                *)
LEMMA LogWriteStep ==
  ASSUME IndInv, NEW p \in Procs, NEW v \in Value, LogWrite(p, v)
  PROVE  IndInv'
BY StoreStep DEF LogWrite, cacheVars, ideVars

(* releasesleep() wakes everyone who waits for the lock.                   *)
LEMMA ReleaseSleepStep ==
  ASSUME IndInv, NEW p \in Procs, ReleaseSleep(p)
  PROVE  IndInv'
<1>1. /\ pc[p] = "use" /\ pc' = [pc EXCEPT ![p] = "unref"]
      /\ locked' = [locked EXCEPT ![buf[p]] = NoProc]
      /\ asleep' = asleep \ WokenByRelease(buf[p])
      /\ UNCHANGED <<list, blockno, refcnt, valid, dirty, data, idequeue, cmd, irq, disk,
                     buf, latest, failed>>
  BY DEF ReleaseSleep, Goto, cacheVars, bufVars, ideVars
<1>2. PICK b \in Bufs : b = buf[p]
  BY <1>1, HasBuf
<1>3. Fields
  BY DEF IndInv
<1>4. ListOK' BY <1>1 DEF IndInv, ListOK
<1>5. Fields' BY <1>1, <1>3 DEF Fields
<1>6. Refs' BY <1>1, <1>3 DEF IndInv, Refs, Users, Fields
<1>7. Holders'
  <2>1. locked[b] = p
    BY <1>1, <1>2 DEF IndInv, Holders, Inside
  <2>2. SUFFICES ASSUME NEW q \in Procs, NEW c \in Bufs
                 PROVE  locked'[c] = q <=> buf[q] = c /\ pc'[q] \in Inside
    BY <1>1 DEF Holders
  <2>3. locked[c] = q <=> buf[q] = c /\ pc[q] \in Inside
    BY DEF IndInv, Holders
  <2>4. CASE q = p
    BY <1>1, <1>2, <1>3, <2>1, <2>3, <2>4, BcacheConstants DEF Inside, Fields
  <2>5. CASE q # p
    BY <1>1, <1>2, <1>3, <2>1, <2>3, <2>5, BcacheConstants DEF Fields
  <2>6. QED
    BY <2>4, <2>5
<1>8. Blocknos' BY <1>1, <1>3 DEF IndInv, Blocknos, Fields
<1>9. Contents' BY <1>1, <1>3 DEF IndInv, Contents, Done, Fields
<1>10. Queued'
  <2>1. ASSUME NEW c \in Bufs PROVE Waited(c)' <=> Waited(c)
    BY <1>1, <1>3 DEF Waited, Done, Fields
  <2>2. QED
    BY <1>1, <2>1 DEF IndInv, Queued
<1>11. Active' BY <1>1 DEF IndInv, Active, Command, NoCmd
<1>12. ValidIsRead' BY <1>1 DEF IndInv, ValidIsRead
<1>13. NothingLost' BY <1>1 DEF IndInv, NothingLost
<1>14. SleepersHaveReason'
  <2>1. SUFFICES ASSUME NEW q \in asleep'
                 PROVE  \/ pc'[q] = "acquire" /\ locked'[buf[q]] # NoProc
                        \/ pc'[q] = "wait" /\ buf[q] \in Range(idequeue)
    BY <1>1 DEF SleepersHaveReason
  <2>2. q \in asleep /\ q \in Procs /\ ~(pc[q] = "acquire" /\ buf[q] = b)
    BY <1>1, <1>2, <1>3, <2>1 DEF WokenByRelease, LockSleepers, Fields
  <2>3. \/ pc[q] = "acquire" /\ locked[buf[q]] # NoProc
        \/ pc[q] = "wait" /\ buf[q] \in Range(idequeue)
    BY <2>2 DEF IndInv, SleepersHaveReason
  <2>4. q # p /\ pc'[q] = pc[q]
    BY <1>1, <1>3, <2>2, <2>3 DEF Fields
  <2>5. pc[q] = "acquire" => buf[q] \in Bufs
    BY <2>2, HasBuf
  <2>6. QED
    BY <1>1, <1>2, <1>3, <2>2, <2>3, <2>4, <2>5 DEF Fields
<1>15. QED
  BY <1>4, <1>5, <1>6, <1>7, <1>8, <1>9, <1>10, <1>11, <1>12, <1>13, <1>14 DEF IndInv

(* A process lets go of its buffer: the count of its users drops by one.   *)
LEMMA UserRemoved ==
  ASSUME Fields, NEW p \in Procs, NEW b \in Bufs, buf[p] = b,
         buf' = [buf EXCEPT ![p] = NoBuf]
  PROVE  /\ Cardinality(Users(b)') = Cardinality(Users(b)) - 1
         /\ \A c \in Bufs \ {b} : Users(c)' = Users(c)
<1>1. NoBuf \notin Bufs
  BY BcacheConstants
<1>2. p \in Users(b) /\ Users(b)' = Users(b) \ {p}
  BY <1>1 DEF Users, Fields
<1>3. IsFiniteSet(Users(b)) /\ Cardinality(Users(b)) \in Nat
  BY UsersFinite
<1>4. Cardinality(Users(b) \ {p}) = Cardinality(Users(b)) - 1
  BY <1>2, <1>3, FS_RemoveElement
<1>5. ASSUME NEW c \in Bufs \ {b} PROVE Users(c)' = Users(c)
  BY <1>1 DEF Users, Fields
<1>6. QED
  BY <1>2, <1>4, <1>5

(* Putting a buffer in front keeps the list a permutation.                 *)
LEMMA MovedToFrontIs ==
  ASSUME ListOK, NEW b \in Bufs, list' = MovedToFront(b)
  PROVE  ListOK'
<1>1. PICK n \in Nat : n = Cardinality(Bufs)
  BY FS_CardinalityType, BcacheConstants
<1>2. PICK q : q = list
  OBVIOUS
<1>3. Permutes(q, n, Bufs)
  BY <1>1, <1>2 DEF ListOK
<1>4. q \in [1..n -> Bufs] /\ DOMAIN q = 1..n /\ \E i \in 1..n : q[i] = b
  BY <1>3 DEF Permutes
<1>5. PICK k \in 1..n : q[k] = b /\ k = CHOOSE i \in DOMAIN q : q[i] = b
  BY <1>4
<1>6. PICK r : /\ r = [i \in 1..n |-> IF i = 1 THEN b ELSE IF i <= k THEN q[i - 1] ELSE q[i]]
               /\ r = list'
  BY <1>2, <1>4, <1>5 DEF MovedToFront
<1>7. r[1] = q[k]
  BY <1>5, <1>6
<1>8. ASSUME NEW i \in 2..k PROVE r[i] = q[i - 1]
  <2>1. i \in 1..n /\ i # 1 /\ i <= k
    OBVIOUS
  <2>2. QED
    BY <1>6, <2>1
<1>9. ASSUME NEW i \in (k + 1)..n PROVE r[i] = q[i]
  <2>1. i \in 1..n /\ i # 1 /\ ~(i <= k)
    OBVIOUS
  <2>2. QED
    BY <1>6, <2>1
<1>10. r \in [1..n -> Bufs]
  <2>1. ASSUME NEW i \in 1..n PROVE r[i] \in Bufs
    <3>1. CASE i = 1
      BY <1>4, <1>7, <3>1
    <3>2. CASE i \in 2..k
      <4>1. i - 1 \in 1..n
        BY <3>2
      <4>2. QED
        BY <1>4, <1>8, <3>2, <4>1
    <3>3. CASE i \in (k + 1)..n
      BY <1>4, <1>9, <3>3
    <3>4. QED
      BY <3>1, <3>2, <3>3
  <2>2. r = [i \in 1..n |-> r[i]]
    BY <1>6
  <2>3. QED
    BY <2>1, <2>2
<1>11. Rotated(r, q, k, n)
  BY <1>7, <1>8, <1>9 DEF Rotated
<1>12. Permutes(r, n, Bufs)
  BY <1>3, <1>10, <1>11, RotateKeeps
<1>13. QED
  BY <1>1, <1>6, <1>12, Zenon DEF ListOK, Permutes

(* brelse() gives the reference back.                                      *)
LEMMA UnrefStep ==
  ASSUME IndInv, NEW p \in Procs, Unref(p)
  PROVE  IndInv'
<1>1. /\ pc[p] = "unref" /\ pc' = [pc EXCEPT ![p] = "idle"]
      /\ buf' = [buf EXCEPT ![p] = NoBuf]
      /\ UNCHANGED <<blockno, valid, dirty, data, locked, idequeue, cmd, irq, disk,
                     asleep, latest, failed>>
  BY DEF Unref, Goto, bufVars, ideVars
<1>2. PICK b \in Bufs : b = buf[p]
  BY <1>1, HasBuf
<1>3. Fields /\ Refs /\ ListOK /\ NoBuf \notin Bufs
  BY BcacheConstants DEF IndInv
<1>4. refcnt' = [refcnt EXCEPT ![b] = @ - 1] /\ (list' = MovedToFront(b) \/ list' = list)
  BY <1>2 DEF Unref, RefDropped
<1>5. ListOK'
  BY <1>2, <1>3, <1>4, MovedToFrontIs DEF ListOK
<1>6. Fields' BY <1>1, <1>3, <1>4 DEF Fields
<1>7. Refs'
  <2>1. ASSUME NEW q \in Procs PROVE buf'[q] = NoBuf <=> pc'[q] = "idle"
    BY <1>1, <1>3 DEF Fields, Refs
  <2>2. ASSUME NEW c \in Bufs PROVE refcnt'[c] = Cardinality(Users(c)')
    <3>1. /\ Cardinality(Users(b)') = Cardinality(Users(b)) - 1
          /\ \A d \in Bufs \ {b} : Users(d)' = Users(d)
      BY <1>1, <1>2, <1>3, UserRemoved
    <3>2. refcnt[c] = Cardinality(Users(c))
      BY <1>3 DEF Refs
    <3>3. CASE c = b
      BY <1>3, <1>4, <3>1, <3>2, <3>3 DEF Fields
    <3>4. CASE c # b
      BY <1>3, <1>4, <3>1, <3>2, <3>4 DEF Fields
    <3>5. QED
      BY <3>3, <3>4
  <2>3. QED
    BY <2>1, <2>2 DEF Refs
<1>8. Holders' BY <1>1, <1>3 DEF IndInv, Holders, Inside, Fields
<1>9. Blocknos' BY <1>1, <1>3 DEF IndInv, Blocknos, Fields
<1>10. Contents' BY <1>1, <1>3 DEF IndInv, Contents, Done, Fields
<1>11. Queued'
  <2>1. ASSUME NEW c \in Bufs PROVE Waited(c)' <=> Waited(c)
    BY <1>1, <1>3 DEF Waited, Done, Fields
  <2>2. QED
    BY <1>1, <2>1 DEF IndInv, Queued
<1>12. Active' BY <1>1 DEF IndInv, Active, Command, NoCmd
<1>13. ValidIsRead' BY <1>1 DEF IndInv, ValidIsRead
<1>14. NothingLost' BY <1>1 DEF IndInv, NothingLost
<1>15. SleepersHaveReason'
  BY <1>1, <1>3 DEF IndInv, SleepersHaveReason, Fields
<1>16. QED
  BY <1>5, <1>6, <1>7, <1>8, <1>9, <1>10, <1>11, <1>12, <1>13, <1>14, <1>15 DEF IndInv

(* iderw() queues the buffer and goes to sleep.                            *)
LEMMA IderwStep ==
  ASSUME IndInv, NEW p \in Procs, Iderw(p)
  PROVE  IndInv'
<1>1. /\ pc[p] = "iderw" /\ pc' = [pc EXCEPT ![p] = "wait"]
      /\ asleep' = asleep \cup {p} /\ cmd' = StartedByRw(buf[p])
      /\ UNCHANGED <<list, blockno, refcnt, valid, dirty, data, locked, irq, disk, buf,
                     latest, failed>>
  BY DEF Iderw, Goto, cacheVars, bufVars
<1>2. PICK b \in Bufs : b = buf[p]
  BY <1>1, HasBuf
<1>3. PICK q : q = idequeue /\ idequeue' = Append(q, b)
  BY <1>2 DEF Iderw
<1>4. ~Waited(b) /\ b \notin Range(q) /\ ~Done(b)
  BY <1>1, <1>2, <1>3, NotQueued DEF IndInv, Contents
<1>5. Fields /\ q \in Seq(Bufs) /\ IsInjective(q)
  BY <1>3 DEF IndInv, Fields, Queued
<1>6. /\ idequeue' \in Seq(Bufs) /\ IsInjective(idequeue') /\ idequeue' # <<>>
      /\ \A c : c \in Range(idequeue') <=> c \in Range(q) \/ c = b
      /\ Head(idequeue') = IF q = <<>> THEN b ELSE Head(q)
  BY <1>3, <1>4, <1>5, AppendNew
<1>7. ListOK' BY <1>1 DEF IndInv, ListOK
<1>8. Fields' BY <1>1, <1>5, <1>6 DEF Fields
<1>9. Refs' BY <1>1, <1>5 DEF IndInv, Refs, Users, Fields
<1>10. Holders' BY <1>1, <1>5 DEF IndInv, Holders, Inside, Fields
<1>11. Blocknos' BY <1>1, <1>5 DEF IndInv, Blocknos, Fields
<1>12. Contents' BY <1>1, <1>5 DEF IndInv, Contents, Done, Fields
<1>13. Queued'
  <2>1. \A c \in Bufs : Done(c)' = Done(c)
    BY <1>1 DEF Done
  <2>2. Waited(b)'
    BY <1>1, <1>2, <1>4, <1>5, <2>1 DEF Waited, Fields
  <2>3. ASSUME NEW c \in Bufs, c # b PROVE Waited(c)' <=> Waited(c)
    BY <1>1, <1>2, <1>5, <2>1, <2>3 DEF Waited, Fields
  <2>4. ASSUME NEW c \in Bufs PROVE c \in Range(q) <=> Waited(c)
    BY <1>3 DEF IndInv, Queued
  <2>5. ASSUME NEW c \in Bufs PROVE c \in Range(idequeue') <=> Waited(c)'
    BY <1>6, <2>2, <2>3, <2>4
  <2>6. QED
    BY <1>6, <2>5 DEF Queued
<1>14. Active'
  <2>1. SUFFICES ASSUME NEW c \in Bufs, c = Head(idequeue')
                 PROVE  /\ cmd' = Command(c)'
                        /\ irq = "ok" /\ dirty[c] => disk[blockno[c]] = data[c]
    BY <1>1, <1>6 DEF Active
  <2>2. Command(c)' = Command(c)
    BY <1>1 DEF Command, NoCmd
  <2>3. CASE q = <<>>
    <3>1. c = b /\ irq = "none" /\ cmd' = Command(b)
      BY <1>1, <1>2, <1>3, <1>6, <2>1, <2>3 DEF IndInv, Active, StartedByRw
    <3>2. QED
      BY <2>2, <3>1
  <2>4. CASE q # <<>>
    <3>1. c = Head(q) /\ cmd' = cmd
      BY <1>1, <1>3, <1>6, <2>1, <2>4 DEF StartedByRw
    <3>2. /\ cmd = Command(c)
          /\ irq = "ok" /\ dirty[c] => disk[blockno[c]] = data[c]
      BY <1>3, <2>4, <3>1 DEF IndInv, Active
    <3>3. QED
      BY <2>2, <3>1, <3>2
  <2>5. QED
    BY <2>3, <2>4
<1>15. ValidIsRead' BY <1>1, <1>3, <1>6 DEF IndInv, ValidIsRead
<1>16. NothingLost' BY <1>1 DEF IndInv, NothingLost
<1>17. SleepersHaveReason'
  <2>1. SUFFICES ASSUME NEW r \in asleep'
                 PROVE  \/ pc'[r] = "acquire" /\ locked[buf[r]] # NoProc
                        \/ pc'[r] = "wait" /\ buf[r] \in Range(idequeue')
    BY <1>1 DEF SleepersHaveReason
  <2>2. CASE r = p
    BY <1>1, <1>2, <1>5, <1>6, <2>2 DEF Fields
  <2>3. CASE r # p
    BY <1>1, <1>3, <1>5, <1>6, <2>1, <2>3 DEF IndInv, SleepersHaveReason, Fields
  <2>4. QED
    BY <2>2, <2>3
<1>18. QED
  BY <1>7, <1>8, <1>9, <1>10, <1>11, <1>12, <1>13, <1>14, <1>15, <1>16, <1>17 DEF IndInv

(* iderw() looks whether its buffer is done.                               *)
LEMMA IderwWokenStep ==
  ASSUME IndInv, NEW p \in Procs, IderwWoken(p)
  PROVE  IndInv'
<1>1. /\ pc[p] = "wait" /\ p \notin asleep
      /\ UNCHANGED <<list, blockno, refcnt, valid, dirty, data, locked, idequeue, cmd, irq,
                     disk, buf, latest, failed>>
  BY DEF IderwWoken, cacheVars, bufVars, ideVars
<1>2. PICK b \in Bufs : b = buf[p]
  BY <1>1, HasBuf
<1>3. Fields
  BY DEF IndInv
<1>4. ListOK' BY <1>1 DEF IndInv, ListOK
<1>5. Active' BY <1>1 DEF IndInv, Active, Command, NoCmd
<1>6. ValidIsRead' BY <1>1 DEF IndInv, ValidIsRead
<1>7. NothingLost' BY <1>1 DEF IndInv, NothingLost
<1>8. CASE Done(b)
  <2>1. pc' = [pc EXCEPT ![p] = "use"] /\ asleep' = asleep
    BY <1>2, <1>8 DEF IderwWoken, Goto
  <2>2. Fields' BY <1>1, <1>3, <2>1 DEF Fields
  <2>3. Refs'
    <3>1. ASSUME NEW q \in Procs PROVE buf[q] = NoBuf <=> pc'[q] = "idle"
      BY <1>1, <1>3, <2>1 DEF IndInv, Refs, Fields
    <3>2. \A c \in Bufs : Users(c)' = Users(c)
      BY <1>1 DEF Users
    <3>3. QED
      BY <1>1, <3>1, <3>2 DEF IndInv, Refs
  <2>4. Holders' BY <1>1, <1>3, <2>1 DEF IndInv, Holders, Inside, Fields
  <2>5. Blocknos' BY <1>1, <1>3, <2>1 DEF IndInv, Blocknos, Fields
  <2>6. Contents' BY <1>1, <1>2, <1>3, <1>8, <2>1 DEF IndInv, Contents, Done, Fields
  <2>7. Queued'
    <3>1. \A c \in Bufs : Done(c)' = Done(c)
      BY <1>1 DEF Done
    <3>2. ASSUME NEW c \in Bufs PROVE Waited(c)' <=> Waited(c)
      BY <1>1, <1>2, <1>3, <1>8, <2>1, <3>1 DEF Waited, Fields
    <3>3. QED
      BY <1>1, <3>2 DEF IndInv, Queued
  <2>8. SleepersHaveReason'
    BY <1>1, <1>3, <2>1 DEF IndInv, SleepersHaveReason, Fields
  <2>9. QED
    BY <1>4, <1>5, <1>6, <1>7, <2>2, <2>3, <2>4, <2>5, <2>6, <2>7, <2>8 DEF IndInv
<1>9. CASE ~Done(b)
  <2>1. pc' = pc /\ asleep' = asleep \cup {p}
    BY <1>2, <1>9 DEF IderwWoken
  <2>2. Fields' BY <1>1, <1>3, <2>1 DEF Fields
  <2>3. Refs' BY <1>1, <2>1 DEF IndInv, Refs, Users
  <2>4. Holders' BY <1>1, <2>1 DEF IndInv, Holders
  <2>5. Blocknos' BY <1>1, <2>1 DEF IndInv, Blocknos
  <2>6. Contents' BY <1>1, <2>1 DEF IndInv, Contents, Done
  <2>7. Queued' BY <1>1, <2>1 DEF IndInv, Queued, Waited, Done
  <2>8. b \in Range(idequeue)
    BY <1>1, <1>2, <1>9 DEF IndInv, Queued, Waited
  <2>9. SleepersHaveReason'
    BY <1>1, <1>2, <2>1, <2>8 DEF IndInv, SleepersHaveReason
  <2>10. QED
    BY <1>4, <1>5, <1>6, <1>7, <2>2, <2>3, <2>4, <2>5, <2>6, <2>7, <2>9 DEF IndInv
<1>10. QED
  BY <1>8, <1>9

(* The head of the queue.                                                  *)
LEMMA HeadIs ==
  ASSUME IndInv, idequeue # <<>>
  PROVE  \E h \in Bufs : /\ h = Head(idequeue) /\ h \in Range(idequeue) /\ cmd = Command(h)
                         /\ blockno[h] \in Blocks
<1>1. PICK h \in Bufs : h = Head(idequeue) /\ h \in Range(idequeue)
  BY TailOf DEF IndInv, Queued, Fields
<1>2. cmd = Command(h)
  BY <1>1 DEF IndInv, Active
<1>3. blockno[h] \in Blocks
  BY <1>1, QueuedBuf
<1>4. QED
  BY <1>1, <1>2, <1>3

(* The disk finishes the command at the head of the queue.                 *)
LEMMA DiskDoneStep ==
  ASSUME IndInv, DiskDone
  PROVE  IndInv'
<1>1. /\ cmd # NoCmd /\ irq = "none" /\ irq' \in {"ok", "err"}
      /\ UNCHANGED <<list, blockno, refcnt, valid, dirty, data, locked, idequeue, cmd, pc,
                     buf, asleep, latest, failed>>
  BY DEF DiskDone, cacheVars, bufVars
<1>2. Fields /\ idequeue # <<>>
  BY <1>1 DEF IndInv, Active
<1>3. PICK h \in Bufs : /\ h = Head(idequeue) /\ h \in Range(idequeue) /\ cmd = Command(h)
                        /\ blockno[h] \in Blocks
  BY <1>2, HeadIs
<1>4. PICK k \in Blocks : k = blockno[h]
  BY <1>3
<1>5. h # NoBuf
  BY BcacheConstants
<1>6. /\ dirty[h] /\ irq' = "ok" => disk' = [disk EXCEPT ![k] = data[h]]
      /\ ~(dirty[h] /\ irq' = "ok") => disk' = disk
  <2>1. ASSUME dirty[h], irq' = "ok" PROVE disk' = [disk EXCEPT ![k] = data[h]]
    <3>1. cmd = [op |-> "write", blk |-> k, val |-> data[h]]
      BY <1>3, <1>4, <1>5, <2>1 DEF Command
    <3>2. cmd.op = "write" /\ cmd.blk = k /\ cmd.val = data[h]
      BY <3>1
    <3>3. QED
      BY <2>1, <3>2 DEF DiskDone
  <2>2. ASSUME ~dirty[h] PROVE disk' = disk
    <3>1. cmd = [op |-> "read", blk |-> k]
      BY <1>3, <1>4, <1>5, <2>2 DEF Command
    <3>2. cmd.op # "write"
      BY <3>1
    <3>3. QED
      BY <3>2 DEF DiskDone
  <2>3. ASSUME irq' # "ok" PROVE disk' = disk
    BY <2>3 DEF DiskDone
  <2>4. QED
    BY <2>1, <2>2, <2>3
<1>7. dirty[h] => data[h] = latest[k]
  BY <1>4 DEF IndInv, Contents
<1>8. disk' \in [Blocks -> Value]
  <2>1. disk \in [Blocks -> Value] /\ data[h] \in Value
    BY <1>2 DEF Fields
  <2>2. CASE dirty[h] /\ irq' = "ok"
    BY <1>6, <2>1, <2>2
  <2>3. CASE ~(dirty[h] /\ irq' = "ok")
    BY <1>6, <2>1, <2>3
  <2>4. QED
    BY <2>2, <2>3
<1>9. dirty[h] /\ irq' = "ok" => disk'[k] = data[h]
  BY <1>2, <1>6 DEF Fields
<1>10. \A j \in Blocks : j # k => disk'[j] = disk[j]
  BY <1>2, <1>6 DEF Fields
<1>11. ListOK' BY <1>1 DEF IndInv, ListOK
<1>12. Fields' BY <1>1, <1>2, <1>8 DEF Fields
<1>13. Refs' BY <1>1 DEF IndInv, Refs, Users
<1>14. Holders' BY <1>1 DEF IndInv, Holders
<1>15. Blocknos' BY <1>1 DEF IndInv, Blocknos
<1>16. Contents' BY <1>1 DEF IndInv, Contents, Done
<1>17. Queued' BY <1>1 DEF IndInv, Queued, Waited, Done
<1>18. Active'
  <2>1. SUFFICES ASSUME NEW c \in Bufs, c = Head(idequeue)
                 PROVE  cmd = Command(c)' /\ (irq' = "ok" /\ dirty[c] => disk'[blockno[c]] = data[c])
    BY <1>1, <1>2 DEF Active
  <2>2. Command(c)' = Command(c) /\ c = h
    BY <1>1, <1>3, <2>1 DEF Command, NoCmd
  <2>3. QED
    BY <1>3, <1>4, <1>6, <1>9, <2>2
<1>19. ValidIsRead' BY <1>1 DEF IndInv, ValidIsRead
<1>20. NothingLost'
  <2>1. SUFFICES ASSUME NEW j \in Blocks
                 PROVE  \/ disk'[j] = latest[j]
                        \/ \E c \in Bufs : blockno[c] = j /\ dirty[c] /\ data[c] = latest[j]
    BY <1>1 DEF NothingLost
  <2>2. \/ disk[j] = latest[j]
        \/ \E c \in Bufs : blockno[c] = j /\ dirty[c] /\ data[c] = latest[j]
    BY DEF IndInv, NothingLost
  <2>3. CASE j = k /\ dirty[h] /\ irq' = "ok"
    BY <1>7, <1>9, <2>3
  <2>4. CASE j = k /\ ~(dirty[h] /\ irq' = "ok")
    BY <1>6, <2>2, <2>4
  <2>5. CASE j # k
    BY <1>10, <2>2, <2>5
  <2>6. QED
    BY <2>3, <2>4, <2>5
<1>21. SleepersHaveReason' BY <1>1 DEF IndInv, SleepersHaveReason
<1>22. QED
  BY <1>11, <1>12, <1>13, <1>14, <1>15, <1>16, <1>17, <1>18, <1>19, <1>20, <1>21 DEF IndInv

(* ideintr() completes the head of the queue and starts the next.          *)
LEMMA IdeIntrStep ==
  ASSUME IndInv, IdeIntr
  PROVE  IndInv'
<1>1. /\ irq # "none" /\ irq' = "none"
      /\ UNCHANGED <<list, blockno, refcnt, locked, disk, pc, buf>>
  BY DEF IdeIntr, cacheVars
<1>2. Fields /\ idequeue # <<>>
  BY <1>1 DEF IndInv, Active
<1>3. PICK b \in Bufs : /\ b = Head(idequeue) /\ b \in Range(idequeue) /\ cmd = Command(b)
                        /\ blockno[b] \in Blocks
  BY <1>2, HeadIs
<1>4. PICK k \in Blocks : k = blockno[b]
  BY <1>3
<1>5. PICK q : /\ q = Tail(idequeue) /\ idequeue' = q /\ q \in Seq(Bufs) /\ IsInjective(q)
               /\ \A c : c \in Range(q) <=> c \in Range(idequeue) /\ c # b
               /\ q # <<>> => Head(q) \in Range(q)
  BY <1>2, <1>3, TailOf DEF IdeIntr, IndInv, Queued, Fields
<1>6. /\ valid' = [valid EXCEPT ![b] = TRUE] /\ dirty' = [dirty EXCEPT ![b] = FALSE]
      /\ asleep' = asleep \ {r \in Procs : pc[r] = "wait" /\ buf[r] = b}
      /\ cmd' = StartedByIntr(q)
      /\ data' = IF ~dirty[b] /\ irq = "ok" THEN [data EXCEPT ![b] = disk[cmd.blk]] ELSE data
      /\ failed' = IF irq = "err" THEN failed \cup {b} ELSE failed
      /\ latest' = IF irq = "err" THEN [latest EXCEPT ![cmd.blk] = disk[cmd.blk]] ELSE latest
  BY <1>2, <1>3, <1>5 DEF IdeIntr
<1>6a. cmd.blk = k
  BY <1>3, <1>4, BcacheConstants DEF Command
<1>6b. /\ latest' \in [Blocks -> Value] /\ (irq = "err" => latest'[k] = disk[k])
       /\ (irq = "ok" => latest' = latest)
       /\ \A j \in Blocks : j # k => latest'[j] = latest[j]
  BY <1>2, <1>6, <1>6a DEF Fields
<1>6c. \A c \in Bufs : c # b /\ valid[c] => blockno[c] \in Blocks /\ blockno[c] # k
  BY <1>3, <1>4, BcacheConstants DEF IndInv, Blocknos
<1>6d. irq \in {"ok", "err"}
  BY <1>1, <1>2 DEF Fields
<1>7. /\ dirty[b] => data' = data /\ data[b] = latest[k]
      /\ dirty[b] /\ irq = "ok" => disk[k] = data[b]
  BY <1>1, <1>2, <1>3, <1>4, <1>6 DEF IndInv, Active, Contents
<1>8. ~dirty[b] => disk[k] = latest[k]
  BY <1>3, <1>4, BcacheConstants DEF IndInv, NothingLost, Blocknos
<1>9. ~dirty[b] /\ irq = "ok" => data' = [data EXCEPT ![b] = disk[k]]
  <2>1. SUFFICES ASSUME ~dirty[b], irq = "ok" PROVE data' = [data EXCEPT ![b] = disk[k]]
    OBVIOUS
  <2>2. cmd = [op |-> "read", blk |-> k]
    BY <1>3, <1>4, <2>1, BcacheConstants DEF Command
  <2>3. cmd.blk = k
    BY <2>2
  <2>4. QED
    BY <1>6, <2>1, <2>3
<1>10. /\ data' \in [Bufs -> Value]
       /\ \A c \in Bufs : c # b => data'[c] = data[c]
       /\ data'[b] = latest'[k] \/ irq = "err"
  <2>1. data \in [Bufs -> Value] /\ disk[k] \in Value
    BY <1>2 DEF Fields
  <2>2. CASE dirty[b]
    BY <1>7, <1>6b, <1>6d, <2>1, <2>2
  <2>3. CASE ~dirty[b] /\ irq = "ok"
    BY <1>8, <1>9, <1>6b, <2>1, <2>3
  <2>4. CASE ~dirty[b] /\ irq = "err"
    BY <1>6, <2>1, <2>4
  <2>5. QED
    BY <1>1, <1>2, <2>2, <2>3, <2>4 DEF Fields
<1>11. /\ valid' \in [Bufs -> BOOLEAN] /\ dirty' \in [Bufs -> BOOLEAN]
       /\ valid'[b] /\ ~dirty'[b]
       /\ \A c \in Bufs : c # b => valid'[c] = valid[c] /\ dirty'[c] = dirty[c]
  BY <1>2, <1>6 DEF Fields
<1>12. ListOK' BY <1>1 DEF IndInv, ListOK
<1>13. Fields'
  BY <1>1, <1>2, <1>5, <1>6, <1>10, <1>11, <1>6b DEF Fields
<1>14. Refs' BY <1>1 DEF IndInv, Refs, Users
<1>15. Holders' BY <1>1 DEF IndInv, Holders
<1>16. Blocknos' BY <1>1, <1>3, <1>11 DEF IndInv, Blocknos
<1>17. Contents'
  <2>1. ASSUME NEW c \in Bufs, dirty'[c] PROVE valid'[c] /\ data'[c] = latest'[blockno[c]]
    <3>1. c # b /\ valid[c] /\ data'[c] = latest[blockno[c]] /\ valid'[c]
      BY <1>10, <1>11, <2>1 DEF IndInv, Contents
    <3>2. QED
      BY <1>6b, <1>6c, <3>1
  <2>2. ASSUME NEW p \in Procs, pc[p] = "use" PROVE valid'[buf[p]]
    <3>1. buf[p] \in Bufs /\ valid[buf[p]]
      BY <2>2, HasBuf DEF IndInv, Contents
    <3>2. QED
      BY <1>11, <3>1
  <2>3. ASSUME NEW p \in Procs, pc[p] = "iderw" PROVE ~(valid'[buf[p]] /\ ~dirty'[buf[p]])
    <3>1. buf[p] \in Bufs /\ buf[p] # b
      BY <1>3, <2>3, HasBuf, NotQueued
    <3>2. ~(valid[buf[p]] /\ ~dirty[buf[p]])
      BY <2>3 DEF IndInv, Contents, Done
    <3>3. QED
      BY <1>11, <3>1, <3>2
  <2>4. QED
    BY <1>1, <2>1, <2>2, <2>3 DEF Contents, Done
<1>18. Queued'
  <2>1. ~Waited(b)'
    BY <1>11 DEF Waited, Done
  <2>2. ASSUME NEW c \in Bufs, c # b PROVE Waited(c)' <=> Waited(c)
    BY <1>1, <1>11, <2>2 DEF Waited, Done
  <2>3. ASSUME NEW c \in Bufs PROVE c \in Range(q) <=> Waited(c)'
    BY <1>5, <2>1, <2>2 DEF IndInv, Queued
  <2>4. QED
    BY <1>5, <2>3 DEF Queued
<1>19. Active'
  <2>1. ASSUME q = <<>> PROVE cmd' = NoCmd
    BY <1>6, <2>1 DEF StartedByIntr, HeadOf, Command
  <2>2. ASSUME NEW c \in Bufs, q # <<>>, c = Head(q) PROVE cmd' = Command(c)'
    <3>1. c # b
      BY <1>5, <2>2
    <3>2. cmd' = Command(c)
      BY <1>6, <2>2 DEF StartedByIntr, HeadOf
    <3>3. Command(c)' = Command(c)
      BY <1>1, <1>10, <1>11, <3>1 DEF Command, NoCmd
    <3>4. QED
      BY <3>2, <3>3
  <2>3. QED
    BY <1>1, <1>5, <2>1, <2>2 DEF Active
<1>20. ValidIsRead'
  <2>1. SUFFICES ASSUME NEW c \in Bufs, valid'[c], c \notin Range(q)
                 PROVE  data'[c] = latest'[blockno[c]] \/ c \in failed'
    BY <1>1, <1>5 DEF ValidIsRead
  <2>2. CASE c = b
    BY <1>4, <1>6, <1>10, <2>2
  <2>3. CASE c # b
    <3>1. valid[c] /\ c \notin Range(idequeue) /\ data'[c] = data[c]
      BY <1>5, <1>10, <1>11, <2>1, <2>3
    <3>2. data[c] = latest[blockno[c]] \/ c \in failed
      BY <3>1 DEF IndInv, ValidIsRead
    <3>3. latest'[blockno[c]] = latest[blockno[c]]
      BY <1>6b, <1>6c, <2>3, <3>1
    <3>4. QED
      BY <1>6, <3>1, <3>2, <3>3
  <2>4. QED
    BY <2>2, <2>3
<1>21. NothingLost'
  <2>1. SUFFICES ASSUME NEW j \in Blocks
                 PROVE  \/ disk[j] = latest'[j]
                        \/ \E c \in Bufs : blockno[c] = j /\ dirty'[c] /\ data'[c] = latest'[j]
    BY <1>1 DEF NothingLost
  <2>2. \/ disk[j] = latest[j]
        \/ \E c \in Bufs : blockno[c] = j /\ dirty[c] /\ data[c] = latest[j]
    BY DEF IndInv, NothingLost
  <2>3. CASE j = k /\ irq = "err"
    BY <1>6b, <2>3
  <2>4. CASE j = k /\ irq = "ok"
    BY <1>7, <1>8, <1>6b, <2>4
  <2>5. CASE j # k
    <3>1. latest'[j] = latest[j]
      BY <1>6b, <2>5
    <3>2. ASSUME NEW c \in Bufs, blockno[c] = j, dirty[c], data[c] = latest[j]
          PROVE  dirty'[c] /\ data'[c] = latest'[j]
      BY <1>4, <1>10, <1>11, <2>5, <3>1, <3>2
    <3>3. QED
      BY <2>2, <3>1, <3>2
  <2>6. QED
    BY <1>6d, <2>3, <2>4, <2>5
<1>22. SleepersHaveReason'
  <2>1. SUFFICES ASSUME NEW r \in asleep'
                 PROVE  \/ pc[r] = "acquire" /\ locked[buf[r]] # NoProc
                        \/ pc[r] = "wait" /\ buf[r] \in Range(q)
    BY <1>1, <1>5 DEF SleepersHaveReason
  <2>2. r \in asleep /\ ~(pc[r] = "wait" /\ buf[r] = b)
    BY <1>2, <1>6, <2>1 DEF Fields
  <2>3. QED
    BY <1>5, <2>2 DEF IndInv, SleepersHaveReason
<1>23. QED
  BY <1>12, <1>13, <1>14, <1>15, <1>16, <1>17, <1>18, <1>19, <1>20, <1>21, <1>22 DEF IndInv
-----------------------------------------------------------------------------
(* The invariant and what it implies                                       *)

(* At boot the cache is empty and the disk idle.                           *)
LEMMA InitHolds == Init => IndInv
<1> SUFFICES ASSUME Init PROVE IndInv
  OBVIOUS
<1> USE DEF Init
<1>1. ListOK
  BY SetToSeqIs, BcacheConstants DEF ListOK
<1>2. Fields
  BY BcacheConstants DEF Fields
<1>3. Refs
  <2>1. ASSUME NEW b \in Bufs PROVE refcnt[b] = Cardinality(Users(b))
    <3>1. Users(b) = {}
      BY BcacheConstants DEF Users
    <3>2. QED
      BY <3>1, FS_EmptySet
  <2>2. QED
    BY <2>1 DEF Refs
<1>4. Holders BY BcacheConstants DEF Holders, Inside
<1>5. Blocknos BY DEF Blocknos
<1>6. Contents BY DEF Contents
<1>7. Queued BY DEF Queued, Waited, Range, IsInjective
<1>8. Active BY DEF Active
<1>9. ValidIsRead BY DEF ValidIsRead
<1>10. NothingLost BY DEF NothingLost
<1>11. SleepersHaveReason BY DEF SleepersHaveReason
<1>12. QED
  BY <1>1, <1>2, <1>3, <1>4, <1>5, <1>6, <1>7, <1>8, <1>9, <1>10, <1>11 DEF IndInv

(* Every step of the cache, the driver and the disk keeps the invariant.   *)
LEMMA NextKeeps == IndInv /\ [Next]_vars => IndInv'
<1> SUFFICES ASSUME IndInv, [Next]_vars PROVE IndInv'
  OBVIOUS
<1>1. ASSUME NEW p \in Procs, KernelStep(p) PROVE IndInv'
  BY <1>1, AcquireSleepStep, UnrefStep, IderwStep, IderwWokenStep DEF KernelStep
<1>2. ASSUME NEW p \in Procs, Calls(p) PROVE IndInv'
  BY <1>2, BGetHitStep, BGetRecycleStep, BGetPanicsStep, BWriteStep, LogWriteStep,
     ReleaseSleepStep DEF Calls
<1>3. ASSUME NEW p \in Procs, Kill(p) PROVE IndInv'
  BY <1>3, KillStep
<1>4. CASE UNCHANGED vars
  <2> USE <1>4 DEF vars, cacheVars, bufVars, ideVars
  <2>1. ListOK' BY DEF IndInv, ListOK
  <2>2. Fields' BY DEF IndInv, Fields
  <2>3. Refs' BY DEF IndInv, Refs, Users
  <2>4. Holders' BY DEF IndInv, Holders
  <2>5. Blocknos' BY DEF IndInv, Blocknos
  <2>6. Contents' BY DEF IndInv, Contents, Done
  <2>7. Queued' BY DEF IndInv, Queued, Waited, Done
  <2>8. Active' BY DEF IndInv, Active, Command, NoCmd
  <2>9. ValidIsRead' BY DEF IndInv, ValidIsRead
  <2>10. NothingLost' BY DEF IndInv, NothingLost
  <2>11. SleepersHaveReason' BY DEF IndInv, SleepersHaveReason
  <2>12. QED BY <2>1, <2>2, <2>3, <2>4, <2>5, <2>6, <2>7, <2>8, <2>9, <2>10, <2>11 DEF IndInv
<1>5. QED
  BY <1>1, <1>2, <1>3, <1>4, DiskDoneStep, IdeIntrStep DEF Next

(* The invariant holds in every reachable state.                           *)
THEOREM Invariance == Spec => []IndInv
<1>1. QED
  BY InitHolds, NextKeeps, PTL DEF Spec

(* A set in which any two elements are equal has at most one.              *)
LEMMA AtMostOne ==
  ASSUME NEW S, \A x, y \in S : x = y
  PROVE  IsFiniteSet(S) /\ Cardinality(S) = IF S = {} THEN 0 ELSE 1
<1>1. CASE S = {}
  BY <1>1, FS_EmptySet
<1>2. CASE S # {}
  <2>1. PICK x : x \in S
    BY <1>2
  <2>2. S = {x}
    BY <2>1
  <2>3. QED
    BY <1>2, <2>2, FS_Singleton
<1>3. QED
  BY <1>1, <1>2

(* The invariant has the types of the model.                               *)
LEMMA TypesHold ==
  ASSUME IndInv
  PROVE  TypeOK
<1>1. PICK n \in Nat : n = Cardinality(Bufs)
  BY FS_CardinalityType, BcacheConstants
<1>2. Permutes(list, n, Bufs)
  BY <1>1 DEF IndInv, ListOK
<1>3. Range(list) = Bufs /\ Len(list) = Cardinality(Bufs)
  BY <1>1, <1>2 DEF Permutes, Range
<1>4. refcnt \in [Bufs -> 0..Cardinality(Procs)]
  <2>1. ASSUME NEW b \in Bufs PROVE refcnt[b] \in 0..Cardinality(Procs)
    <3>1. PICK m \in Nat : m = Cardinality(Procs)
      BY FS_CardinalityType, BcacheConstants
    <3>2. PICK u \in Nat : u = Cardinality(Users(b)) /\ u <= m
      BY <3>1, UsersFinite
    <3>3. refcnt[b] = u
      BY <3>2 DEF IndInv, Refs
    <3>4. QED
      BY <3>1, <3>2, <3>3
  <2>2. QED
    BY <2>1 DEF IndInv, Fields
<1>5. Range(idequeue) \subseteq Bufs
  BY DEF IndInv, Fields, Range
<1>6. QED
  BY <1>3, <1>4, <1>5 DEF IndInv, Fields, TypeOK

(* bget() and brelse() keep one buffer per block, whose reference count is *)
(* the number of processes that use it, one of them at a time inside: for  *)
(* any number of buffers and processes.                                    *)
THEOREM OneCopy == Spec => []OneBufferPerBlock
<1>1. IndInv => OneBufferPerBlock
  <2>1. SUFFICES ASSUME IndInv PROVE OneBufferPerBlock
    OBVIOUS
  <2>2. TypeOK
    BY <2>1, TypesHold
  <2>3. ASSUME NEW b \in Bufs
        PROVE  Cardinality({p \in Users(b) : pc[p] \in {"use", "iderw", "wait"}}) <= 1
    <3>1. PICK S : S = {p \in Users(b) : pc[p] \in {"use", "iderw", "wait"}}
      OBVIOUS
    <3>2. \A x, y \in S : x = y
      BY <2>1, <3>1, Mine DEF Inside, Users
    <3>3. Cardinality(S) = IF S = {} THEN 0 ELSE 1
      BY <3>2, AtMostOne
    <3>4. QED
      BY <3>1, <3>3
  <2>4. QED
    BY <2>1, <2>2, <2>3 DEF IndInv, Refs, Blocknos, OneBufferPerBlock
<1>2. QED
  BY <1>1, Invariance, PTL

(* The cache is coherent: a valid buffer has the block's contents (except  *)
(* after a failed transfer), and nothing stored is lost that the disk did  *)
(* not fail to write, whichever buffers are recycled, pinned or queued.    *)
THEOREM CacheCoherent == Spec => []Coherent
<1>1. IndInv => Coherent
  BY DEF IndInv, Coherent
<1>2. QED
  BY <1>1, Invariance, PTL

(* The disk works on the head of the driver's queue, each queued buffer    *)
(* has its one waiting process, and nobody sleeps without reason.          *)
THEOREM DiskFollowsQueue == Spec => []QueueMatchesDisk
<1>1. IndInv => QueueMatchesDisk
  <2>1. SUFFICES ASSUME IndInv PROVE QueueMatchesDisk
    OBVIOUS
  <2>2. idequeue # <<>> => cmd = Command(Head(idequeue)) /\ cmd # NoCmd
    <3>1. SUFFICES ASSUME idequeue # <<>>
                   PROVE  cmd = Command(Head(idequeue)) /\ cmd # NoCmd
      OBVIOUS
    <3>2. PICK h \in Bufs : h = Head(idequeue) /\ cmd = Command(h)
      BY <2>1, <3>1, HeadIs
    <3>3. h # NoBuf
      BY BcacheConstants
    <3>4. cmd.op \in {"write", "read"}
      BY <3>2, <3>3 DEF Command
    <3>5. NoCmd.op = "none"
      BY DEF NoCmd
    <3>6. QED
      BY <3>2, <3>4, <3>5
  <2>3. idequeue = <<>> => cmd = NoCmd
    BY <2>1 DEF IndInv, Active
  <2>4. ASSUME NEW b \in Bufs
        PROVE  Cardinality({i \in DOMAIN idequeue : idequeue[i] = b})
               = Cardinality({p \in Users(b) : pc[p] = "wait" /\ ~Done(b)})
    <3>1. PICK I : I = {i \in DOMAIN idequeue : idequeue[i] = b}
      OBVIOUS
    <3>2. PICK W : W = {p \in Users(b) : pc[p] = "wait" /\ ~Done(b)}
      OBVIOUS
    <3>3. \A x, y \in I : x = y
      BY <2>1, <3>1 DEF IndInv, Queued, IsInjective
    <3>4. \A x, y \in W : x = y
      BY <2>1, <3>2, Mine DEF Inside, Users
    <3>5. I # {} <=> b \in Range(idequeue)
      BY <3>1 DEF Range
    <3>6. W # {} <=> Waited(b)
      BY <3>2 DEF Users, Waited
    <3>7. I = {} <=> W = {}
      BY <2>1, <3>5, <3>6 DEF IndInv, Queued
    <3>8. Cardinality(I) = IF I = {} THEN 0 ELSE 1
      BY <3>3, AtMostOne
    <3>9. Cardinality(W) = IF W = {} THEN 0 ELSE 1
      BY <3>4, AtMostOne
    <3>10. QED
      BY <3>1, <3>2, <3>7, <3>8, <3>9
  <2>5. QED
    BY <2>1, <2>2, <2>3, <2>4 DEF IndInv, QueueMatchesDisk
<1>2. QED
  BY <1>1, Invariance, PTL
=============================================================================
