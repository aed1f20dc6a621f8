---------------------------- MODULE ConsoleProofs ----------------------------
(***************************************************************************)
(* Proofs about Console, for any ring and word size with WORD a multiple   *)
(* of INPUT_BUF, any keys and any number of readers: the order of the      *)
(* indexes, and the line discipline the ring implements.                   *)
(***************************************************************************)
EXTENDS Console, SequenceTheorems, TLAPS
-----------------------------------------------------------------------------
(* Rings indexed with n % SIZE by counters n that wrap at WORD: the        *)
(* arithmetic of the counters, the distance between two of them, and       *)
(* sequences given by their elements.                                      *)

(* What % and \div are, for a positive divisor.                            *)
LEMMA DivMod ==
  ASSUME NEW a \in Int, NEW n \in Nat \ {0}
  PROVE  a % n \in 0..(n - 1) /\ a \div n \in Int /\ a = (n * (a \div n)) + (a % n)
OBVIOUS

(* The only multiple of n strictly between -n and n is 0.                  *)
LEMMA SmallMultiple ==
  ASSUME NEW n \in Nat \ {0}, NEW q \in Int, n * q < n, -n < n * q
  PROVE  q = 0
<1>1. q >= 1 => n * q >= n OBVIOUS
<1>2. q <= -1 => n * q <= -n OBVIOUS
<1> QED BY <1>1, <1>2

(* Quotient and remainder are unique.                                      *)
LEMMA ModUnique ==
  ASSUME NEW n \in Nat \ {0}, NEW q \in Int, NEW rem \in 0..(n - 1)
  PROVE  ((n * q) + rem) % n = rem
<1> DEFINE a == (n * q) + rem
           d == (a \div n) - q
<1>1. a \in Int OBVIOUS
<1>2. a % n \in 0..(n - 1) /\ a \div n \in Int /\ a = (n * (a \div n)) + (a % n)
  BY <1>1, DivMod
<1>3. d \in Int /\ n * d = rem - (a % n) BY <1>2
<1>4. n * d < n /\ -n < n * d BY <1>2, <1>3
<1>5. d = 0 BY <1>3, <1>4, SmallMultiple
<1> QED BY <1>2, <1>3, <1>5

(* Adding a multiple of the divisor changes nothing.                       *)
LEMMA ModShift ==
  ASSUME NEW a \in Int, NEW n \in Nat \ {0}, NEW k \in Int
  PROVE  (a + (n * k)) % n = a % n
<1>1. PICK q \in Int, rem \in 0..(n - 1) : a = (n * q) + rem BY DivMod
<1>2. a + (n * k) = (n * (q + k)) + rem BY <1>1
<1>3. q + k \in Int OBVIOUS
<1>4. ((n * (q + k)) + rem) % n = rem BY <1>3, ModUnique
<1>5. ((n * q) + rem) % n = rem BY ModUnique
<1> QED BY <1>1, <1>2, <1>4, <1>5

(* Two numbers less than n apart with the same remainder are equal.        *)
LEMMA ModInjective ==
  ASSUME NEW a \in Int, NEW b \in Int, NEW n \in Nat \ {0},
         a - b < n, b - a < n, a % n = b % n
  PROVE  a = b
<1>1. a \div n \in Int /\ a = (n * (a \div n)) + (a % n) BY DivMod
<1>2. b \div n \in Int /\ b = (n * (b \div n)) + (b % n) BY DivMod
<1> DEFINE d == (a \div n) - (b \div n)
<1>3. d \in Int /\ n * d = a - b BY <1>1, <1>2
<1>4. d = 0 BY <1>3, SmallMultiple
<1> QED BY <1>3, <1>4

(* A number in range is its own remainder.                                 *)
LEMMA ModSmall ==
  ASSUME NEW n \in Nat \ {0}, NEW a \in 0..(n - 1)
  PROVE  a % n = a
OBVIOUS

(* A number is a multiple of the divisor and its remainder.                *)
LEMMA Division ==
  ASSUME NEW a \in Int, NEW n \in Nat \ {0}
  PROVE  \E q \in Int, rem \in 0..(n - 1) : a = (n * q) + rem /\ a % n = rem
<1>1. PICK q \in Int, rem \in 0..(n - 1) : a = (n * q) + rem BY DivMod
<1> QED BY <1>1, ModUnique

(* Reducing by a multiple v of n first does not change the remainder by n. *)
LEMMA ModOfMod ==
  ASSUME NEW a \in Int, NEW n \in Nat \ {0}, NEW v \in Nat \ {0}, v % n = 0
  PROVE  (a % v) % n = a % n
<1>1. PICK m \in Int : v = n * m
  <2>1. PICK m \in Int, z \in 0..(n - 1) : v = (n * m) + z /\ v % n = z BY Division
  <2> QED BY <2>1
<1>2. PICK q \in Int, rem \in 0..(v - 1) : a = (v * q) + rem /\ a % v = rem BY Division
<1>3. m * q \in Int /\ rem \in Int OBVIOUS
<1>4. v * q = n * (m * q) BY <1>1
<1>5. a = rem + (n * (m * q)) BY <1>2, <1>3, <1>4
<1>6. (rem + (n * (m * q))) % n = rem % n BY <1>3, ModShift
<1> QED BY <1>2, <1>5, <1>6

(* The same, for every number at once.                                     *)
LEMMA ModOfModAll ==
  ASSUME NEW n \in Nat \ {0}, NEW v \in Nat \ {0}, v % n = 0
  PROVE  \A a \in Int : (a % v) % n = a % n
BY ModOfMod

(* Reducing a summand first does not change the remainder.                 *)
LEMMA ModSum ==
  ASSUME NEW a \in Int, NEW b \in Int, NEW n \in Nat \ {0}
  PROVE  ((a % n) + b) % n = (a + b) % n
<1>1. PICK q \in Int, rem \in 0..(n - 1) : a = (n * q) + rem /\ a % n = rem BY Division
<1>2. a + b = (rem + b) + (n * q) /\ rem + b \in Int BY <1>1
<1>3. ((rem + b) + (n * q)) % n = (rem + b) % n BY <1>2, ModShift
<1> QED BY <1>1, <1>2, <1>3

(* How far the counter b is ahead of the counter a.                        *)
Gap(W, a, b) == (b - a) % W

(* b += k.                                                                 *)
LEMMA DistForward ==
  ASSUME NEW W \in Nat \ {0}, NEW a \in 0..(W - 1), NEW b \in 0..(W - 1), NEW k \in Nat,
         Gap(W, a, b) + k < W
  PROVE  Gap(W, a, (b + k) % W) = Gap(W, a, b) + k
<1> USE DEF Gap
<1>1. PICK q \in Int, d \in 0..(W - 1) : b - a = (W * q) + d /\ (b - a) % W = d
  <2>1. b - a \in Int OBVIOUS
  <2> QED BY <2>1, Division
<1>2. PICK x \in Int, z \in 0..(W - 1) : b + k = (W * x) + z /\ (b + k) % W = z
  <2>1. b + k \in Int OBVIOUS
  <2> QED BY <2>1, Division
<1>3. z - a = (W * (q - x)) + (d + k) BY <1>1, <1>2
<1>4. q - x \in Int /\ d + k \in 0..(W - 1) BY <1>1
<1> QED BY <1>1, <1>2, <1>3, <1>4, ModUnique

(* b -= k.                                                                 *)
LEMMA DistBack ==
  ASSUME NEW W \in Nat \ {0}, NEW a \in 0..(W - 1), NEW b \in 0..(W - 1), NEW k \in Nat,
         k <= Gap(W, a, b)
  PROVE  Gap(W, a, (b - k) % W) = Gap(W, a, b) - k
<1> USE DEF Gap
<1>1. PICK q \in Int, d \in 0..(W - 1) : b - a = (W * q) + d /\ (b - a) % W = d
  <2>1. b - a \in Int OBVIOUS
  <2> QED BY <2>1, Division
<1>2. PICK x \in Int, z \in 0..(W - 1) : b - k = (W * x) + z /\ (b - k) % W = z
  <2>1. b - k \in Int OBVIOUS
  <2> QED BY <2>1, Division
<1>3. z - a = (W * (q - x)) + (d - k) BY <1>1, <1>2
<1>4. q - x \in Int /\ d - k \in 0..(W - 1) BY <1>1
<1> QED BY <1>1, <1>2, <1>3, <1>4, ModUnique

(* a += k.                                                                 *)
LEMMA DistAdvance ==
  ASSUME NEW W \in Nat \ {0}, NEW a \in 0..(W - 1), NEW b \in 0..(W - 1), NEW k \in Nat,
         k <= Gap(W, a, b)
  PROVE  Gap(W, (a + k) % W, b) = Gap(W, a, b) - k
<1> USE DEF Gap
<1>1. PICK q \in Int, d \in 0..(W - 1) : b - a = (W * q) + d /\ (b - a) % W = d
  <2>1. b - a \in Int OBVIOUS
  <2> QED BY <2>1, Division
<1>2. PICK x \in Int, z \in 0..(W - 1) : a + k = (W * x) + z /\ (a + k) % W = z
  <2>1. a + k \in Int OBVIOUS
  <2> QED BY <2>1, Division
<1>3. b - z = (W * (q + x)) + (d - k) BY <1>1, <1>2
<1>4. q + x \in Int /\ d - k \in 0..(W - 1) BY <1>1
<1> QED BY <1>1, <1>2, <1>3, <1>4, ModUnique

(* Three counters in order.                                                *)
LEMMA DistSplit ==
  ASSUME NEW W \in Nat \ {0}, NEW a \in 0..(W - 1), NEW b \in 0..(W - 1),
         NEW c \in 0..(W - 1), Gap(W, a, b) <= Gap(W, a, c)
  PROVE  Gap(W, b, c) = Gap(W, a, c) - Gap(W, a, b)
<1> USE DEF Gap
<1>1. PICK q \in Int, d \in 0..(W - 1) : b - a = (W * q) + d /\ (b - a) % W = d
  <2>1. b - a \in Int OBVIOUS
  <2> QED BY <2>1, Division
<1>2. PICK x \in Int, f \in 0..(W - 1) : c - a = (W * x) + f /\ (c - a) % W = f
  <2>1. c - a \in Int OBVIOUS
  <2> QED BY <2>1, Division
<1>3. c - b = (W * (x - q)) + (f - d) BY <1>1, <1>2
<1>4. x - q \in Int /\ f - d \in 0..(W - 1) BY <1>1, <1>2
<1> QED BY <1>1, <1>2, <1>3, <1>4, ModUnique

(* The counter n ahead of a is (a + n) % W.                                *)
LEMMA DistIs ==
  ASSUME NEW W \in Nat \ {0}, NEW a \in 0..(W - 1), NEW b \in 0..(W - 1), NEW n \in 0..(W - 1)
  PROVE  (b = (a + n) % W) <=> (Gap(W, a, b) = n)
<1> USE DEF Gap
<1>1. a + n < W => (a + n) % W = a + n OBVIOUS
<1>2. a + n >= W => (a + n) % W = a + n - W OBVIOUS
<1>3. b >= a => (b - a) % W = b - a OBVIOUS
<1>4. b < a => (b - a) % W = b - a + W OBVIOUS
<1> QED BY <1>1, <1>2, <1>3, <1>4

(* A distance is a number below W, and zero only between equal counters.   *)
LEMMA DistRange ==
  ASSUME NEW W \in Nat \ {0}, NEW a \in 0..(W - 1), NEW b \in 0..(W - 1)
  PROVE  Gap(W, a, b) \in 0..(W - 1) /\ (Gap(W, a, b) = 0 <=> a = b)
<1> USE DEF Gap
<1>1. b >= a => (b - a) % W = b - a OBVIOUS
<1>2. b < a => (b - a) % W = b - a + W OBVIOUS
<1> QED BY <1>1, <1>2

(* A slot counted from b is a slot counted from a: the ring does not see   *)
(* that the counters wrap.                                                 *)
LEMMA SlotFrom ==
  ASSUME NEW W \in Nat \ {0}, NEW n \in Nat \ {0}, W % n = 0,
         NEW a \in 0..(W - 1), NEW b \in 0..(W - 1), NEW i \in Int
  PROVE  (b + i) % n = (a + Gap(W, a, b) + i) % n
<1>0. \A x \in Int : (x % W) % n = x % n BY ModOfModAll, Zenon
<1> USE DEF Gap
<1>1. PICK d \in 0..(W - 1) : (b - a) % W = d
  <2>1. b - a \in Int OBVIOUS
  <2> QED BY <2>1, DivMod
<1>2. (((b - a) % W) + (a + i)) % W = ((b - a) + (a + i)) % W
  <2>1. b - a \in Int /\ a + i \in Int OBVIOUS
  <2> QED BY <2>1, ModSum
<1>3. (b - a) + (a + i) = b + i /\ d + (a + i) = a + d + i OBVIOUS
<1>4. (a + d + i) % W = (b + i) % W BY <1>1, <1>2, <1>3
<1>5. b + i \in Int /\ a + d + i \in Int OBVIOUS
<1>6. ((b + i) % W) % n = (b + i) % n BY <1>0, <1>5, Zenon
<1>7. ((a + d + i) % W) % n = (a + d + i) % n BY <1>0, <1>5, Zenon
<1> QED BY <1>1, <1>4, <1>6, <1>7, Zenon

(* Nor does it see that a counter was reduced.                             *)
LEMMA SlotReduced ==
  ASSUME NEW W \in Nat \ {0}, NEW n \in Nat \ {0}, W % n = 0, NEW a \in Int, NEW i \in Int
  PROVE  ((a % W) + i) % n = (a + i) % n
<1>1. ((a % W) + i) % W = (a + i) % W BY ModSum
<1>2. PICK z \in 0..(W - 1) : a % W = z BY DivMod
<1>3. \A x \in Int : (x % W) % n = x % n BY ModOfModAll, Zenon
<1>4. z + i \in Int /\ a + i \in Int OBVIOUS
<1>5. ((z + i) % W) % n = (z + i) % n BY <1>3, <1>4, Zenon
<1>6. ((a + i) % W) % n = (a + i) % n BY <1>3, <1>4, Zenon
<1> QED BY <1>1, <1>2, <1>5, <1>6, Zenon

(* A function on 1..n is a sequence.                                       *)
LEMMA FcnIsSeq ==
  ASSUME NEW S, NEW n \in Nat, NEW f \in [1..n -> S]
  PROVE  f \in Seq(S) /\ Len(f) = n
OBVIOUS

(* A sequence given by its parts is their concatenation.                   *)
LEMMA ConcatIs ==
  ASSUME NEW S, NEW q \in Seq(S), NEW s \in Seq(S), NEW res \in Seq(S),
         Len(res) = Len(q) + Len(s),
         \A i \in 1..Len(q) : res[i] = q[i],
         \A i \in 1..Len(s) : res[Len(q) + i] = s[i]
  PROVE  res = q \o s
<1>1. Len(q) \in Nat /\ Len(s) \in Nat OBVIOUS
<1>2. /\ q \o s \in Seq(S) /\ Len(q \o s) = Len(q) + Len(s)
      /\ \A i \in 1..(Len(q) + Len(s)) :
           (q \o s)[i] = IF i <= Len(q) THEN q[i] ELSE s[i - Len(q)]
  BY ConcatProperties
<1>3. \A i \in 1..Len(res) : res[i] = (q \o s)[i]
  <2> TAKE i \in 1..Len(res)
  <2>1. CASE i <= Len(q) BY <1>1, <1>2, <2>1
  <2>2. CASE ~(i <= Len(q))
    <3>1. i - Len(q) \in 1..Len(s) /\ Len(q) + (i - Len(q)) = i BY <1>1, <2>2
    <3>2. res[i] = s[i - Len(q)] BY <3>1
    <3> QED BY <1>1, <1>2, <2>2, <3>2
  <2> QED BY <2>1, <2>2
<1> QED BY <1>2, <1>3, SeqEqual

(* A sequence with one more element.                                       *)
LEMMA AppendIs ==
  ASSUME NEW S, NEW q \in Seq(S), NEW c \in S, NEW res \in Seq(S),
         Len(res) = Len(q) + 1, \A i \in 1..Len(q) : res[i] = q[i], res[Len(q) + 1] = c
  PROVE  res = Append(q, c)
<1>1. /\ Append(q, c) \in Seq(S) /\ Len(Append(q, c)) = Len(q) + 1
      /\ Append(q, c)[Len(q) + 1] = c /\ Len(q) \in Nat
      /\ \A i \in 1..Len(q) : Append(q, c)[i] = q[i]
  OBVIOUS
<1>2. \A i \in 1..Len(res) : res[i] = Append(q, c)[i] BY <1>1
<1> QED BY <1>1, <1>2, SeqEqual

(* A sequence given by its elements is a part of another.                  *)
LEMMA SubSeqIs ==
  ASSUME NEW S, NEW q \in Seq(S), NEW m \in Nat, NEW n \in 0..Len(q), m <= n,
         NEW res \in Seq(S), Len(res) = n - m, \A i \in 1..Len(res) : res[i] = q[m + i]
  PROVE  res = SubSeq(q, m + 1, n)
<1>1. n \in Nat /\ Len(q) \in Nat OBVIOUS
<1>2. \A i \in (m + 1)..n : q[i] \in S BY <1>1
<1>3. m + 1 \in Int /\ n \in Int BY <1>1
<1>4. /\ SubSeq(q, m + 1, n) \in Seq(S)
      /\ Len(SubSeq(q, m + 1, n)) = (IF m + 1 <= n THEN n - (m + 1) + 1 ELSE 0)
      /\ \A i \in 1..(n - (m + 1) + 1) : SubSeq(q, m + 1, n)[i] = q[(m + 1) + i - 1]
  BY <1>2, <1>3, SubSeqProperties
<1>5. Len(SubSeq(q, m + 1, n)) = n - m BY <1>1, <1>4
<1>6. \A i \in 1..Len(res) : res[i] = SubSeq(q, m + 1, n)[i]
  <2> TAKE i \in 1..Len(res)
  <2>1. i \in 1..(n - (m + 1) + 1) /\ (m + 1) + i - 1 = m + i BY <1>1
  <2> QED BY <1>4, <2>1
<1> QED BY <1>4, <1>5, <1>6, SeqEqual
-----------------------------------------------------------------------------
(* What the calls have collected, which TypeOK only bounds: with what is   *)
(* still wanted it is what was asked for.                                  *)
GotTypes ==
  /\ got \in [Procs -> Seq(Key)]
  /\ \A p \in Procs : Len(got[p]) + want[p] <= MaxN

(* A call that still runs has not met a newline.                           *)
CallsOpen == \A p \in Procs : pc[p] # "user" => Discipline!Open(p)

IndInv == RingOrder /\ GotTypes /\ CallsOpen
-----------------------------------------------------------------------------
(* The constants in the form the arithmetic needs.                         *)
LEMMA SizesOK ==
  /\ INPUT_BUF \in Nat \ {0} /\ WORD \in Nat \ {0}
  /\ INPUT_BUF < WORD /\ WORD % INPUT_BUF = 0 /\ MaxN \in Nat
BY ConsoleConstants

(* A cell of the ring.                                                     *)
Cell(i) == i % INPUT_BUF

(* The n keys from index a on.                                             *)
Ring(f, a, n) == [i \in 1..n |-> f[Cell(a + i - 1)]]

(* A cell is a slot.                                                       *)
LEMMA CellIsSlot == ASSUME NEW a \in Int PROVE Cell(a) \in Slots
BY SizesOK, DivMod DEF Cell, Slots

(* The cells of fewer than INPUT_BUF consecutive indexes differ.           *)
LEMMA CellInjective ==
  ASSUME NEW a \in Int, NEW b \in Int, a - b < INPUT_BUF, b - a < INPUT_BUF,
         Cell(a) = Cell(b)
  PROVE  a = b
BY SizesOK, ModInjective DEF Cell

(* The cells from an index on, counted from an earlier index.              *)
LEMMA CellFrom ==
  ASSUME NEW a \in 0..(WORD - 1), NEW b \in 0..(WORD - 1), NEW i \in Int
  PROVE  Cell(b + i) = Cell(a + Dist(a, b) + i)
<1>1. Dist(a, b) = Gap(WORD, a, b) BY DEF Dist, Gap
<1> QED BY <1>1, SizesOK, SlotFrom DEF Cell

(* A stretch of the ring is a sequence of keys.                            *)
LEMMA RingSeq ==
  ASSUME NEW f \in [Slots -> Key], NEW a \in Int, NEW n \in Nat
  PROVE  /\ Ring(f, a, n) \in Seq(Key) /\ Len(Ring(f, a, n)) = n
         /\ \A i \in 1..n : Ring(f, a, n)[i] = f[Cell(a + i - 1)]
<1>1. \A i \in 1..n : f[Cell(a + i - 1)] \in Key BY CellIsSlot
<1>2. Ring(f, a, n) \in [1..n -> Key] BY <1>1 DEF Ring
<1> QED BY <1>2, FcnIsSeq DEF Ring

(* A key stored n cells on, with n less than INPUT_BUF, is appended to the *)
(* n keys before it and changes none of them.                              *)
LEMMA RingAppend ==
  ASSUME NEW f \in [Slots -> Key], NEW a \in Int, NEW n \in Nat, n < INPUT_BUF,
         NEW c \in Key, NEW g \in [Slots -> Key], NEW k \in Slots, k = Cell(a + n),
         g[k] = c, \A j \in Slots \ {k} : g[j] = f[j]
  PROVE  /\ Ring(g, a, n) = Ring(f, a, n)
         /\ Ring(g, a, n + 1) = Append(Ring(f, a, n), c)
<1>1. a + n \in Int /\ n + 1 \in Nat OBVIOUS
<1>2. g \in [Slots -> Key] /\ g[Cell(a + n)] = c OBVIOUS
<1>3. \A i \in 1..n : g[Cell(a + i - 1)] = f[Cell(a + i - 1)]
  <2> TAKE i \in 1..n
  <2>1. a + i - 1 \in Int OBVIOUS
  <2>2. Cell(a + i - 1) # Cell(a + n) BY <1>1, <2>1, SizesOK, CellInjective
  <2> QED BY <2>1, <2>2, CellIsSlot
<1>4. Ring(g, a, n) = Ring(f, a, n) BY <1>3 DEF Ring
<1>5. /\ Ring(f, a, n) \in Seq(Key) /\ Len(Ring(f, a, n)) = n
      /\ \A i \in 1..n : Ring(f, a, n)[i] = f[Cell(a + i - 1)]
  BY RingSeq
<1>6. /\ Ring(g, a, n + 1) \in Seq(Key) /\ Len(Ring(g, a, n + 1)) = n + 1
      /\ \A i \in 1..(n + 1) : Ring(g, a, n + 1)[i] = g[Cell(a + i - 1)]
  <2>1. g \in [Slots -> Key] /\ n + 1 \in Nat BY <1>1, <1>2
  <2> QED BY <2>1, RingSeq, Zenon
<1>7. Ring(g, a, n + 1)[n + 1] = c
  <2>1. a + (n + 1) - 1 = a + n /\ n + 1 \in 1..(n + 1) OBVIOUS
  <2> QED BY <1>2, <1>6, <2>1
<1>8. \A i \in 1..n : Ring(g, a, n + 1)[i] = Ring(f, a, n)[i]
  <2> TAKE i \in 1..n
  <2>1. i \in 1..(n + 1) OBVIOUS
  <2> QED BY <1>3, <1>5, <1>6, <2>1
<1>9. Ring(g, a, n + 1) = Append(Ring(f, a, n), c)
  <2> DEFINE q == Ring(f, a, n)
             t == Ring(g, a, n + 1)
  <2>1. q \in Seq(Key) /\ t \in Seq(Key) /\ Len(q) = n /\ Len(t) = Len(q) + 1
        /\ t[Len(q) + 1] = c /\ \A i \in 1..Len(q) : t[i] = q[i]
    BY <1>5, <1>6, <1>7, <1>8
  <2> HIDE DEF q, t
  <2>2. t = Append(q, c) BY <2>1, AppendIs
  <2> QED BY <2>2 DEF q, t
<1> QED BY <1>4, <1>9

(* Two adjacent stretches are one.                                         *)
LEMMA RingJoin ==
  ASSUME NEW f \in [Slots -> Key], NEW a \in Int, NEW m \in Nat, NEW n \in Nat
  PROVE  Ring(f, a, m + n) = Ring(f, a, m) \o Ring(f, a + m, n)
<1>1. a + m \in Int /\ m + n \in Nat OBVIOUS
<1>2. /\ Ring(f, a, m) \in Seq(Key) /\ Len(Ring(f, a, m)) = m
      /\ \A i \in 1..m : Ring(f, a, m)[i] = f[Cell(a + i - 1)]
  BY RingSeq
<1>3. /\ Ring(f, a + m, n) \in Seq(Key) /\ Len(Ring(f, a + m, n)) = n
      /\ \A i \in 1..n : Ring(f, a + m, n)[i] = f[Cell(a + m + i - 1)]
  BY <1>1, RingSeq
<1>4. /\ Ring(f, a, m + n) \in Seq(Key) /\ Len(Ring(f, a, m + n)) = m + n
      /\ \A i \in 1..(m + n) : Ring(f, a, m + n)[i] = f[Cell(a + i - 1)]
  BY <1>1, RingSeq
<1>5. \A i \in 1..m : Ring(f, a, m + n)[i] = Ring(f, a, m)[i]
  <2> TAKE i \in 1..m
  <2>1. i \in 1..(m + n) OBVIOUS
  <2> QED BY <1>2, <1>4, <2>1
<1>6. \A i \in 1..n : Ring(f, a, m + n)[m + i] = Ring(f, a + m, n)[i]
  <2> TAKE i \in 1..n
  <2>1. m + i \in 1..(m + n) /\ a + (m + i) - 1 = a + m + i - 1 OBVIOUS
  <2> QED BY <1>3, <1>4, <2>1
<1> DEFINE q == Ring(f, a, m)
           s == Ring(f, a + m, n)
           t == Ring(f, a, m + n)
<1>7. /\ q \in Seq(Key) /\ s \in Seq(Key) /\ t \in Seq(Key)
      /\ Len(t) = Len(q) + Len(s)
      /\ \A i \in 1..Len(q) : t[i] = q[i]
      /\ \A i \in 1..Len(s) : t[Len(q) + i] = s[i]
  BY <1>2, <1>3, <1>4, <1>5, <1>6
<1> HIDE DEF q, s, t
<1>8. t = q \o s BY <1>7, ConcatIs
<1> QED BY <1>8 DEF q, s, t

(* The first keys of a stretch.                                            *)
LEMMA RingPrefix ==
  ASSUME NEW f \in [Slots -> Key], NEW a \in Int, NEW n \in Nat, NEW k \in 0..n
  PROVE  Ring(f, a, k) = SubSeq(Ring(f, a, n), 1, k)
<1>1. /\ Ring(f, a, n) \in Seq(Key) /\ Len(Ring(f, a, n)) = n
      /\ \A i \in 1..n : Ring(f, a, n)[i] = f[Cell(a + i - 1)]
  BY RingSeq
<1>2. k \in Nat /\ k \in 0..Len(Ring(f, a, n)) /\ 0 <= k /\ 0 \in Nat BY <1>1
<1>3. /\ Ring(f, a, k) \in Seq(Key) /\ Len(Ring(f, a, k)) = k
      /\ \A i \in 1..k : Ring(f, a, k)[i] = f[Cell(a + i - 1)]
  BY <1>2, RingSeq
<1>4. Len(Ring(f, a, k)) = k - 0 BY <1>2, <1>3
<1>5. \A i \in 1..Len(Ring(f, a, k)) : Ring(f, a, k)[i] = Ring(f, a, n)[0 + i]
  BY <1>1, <1>3
<1>6. Ring(f, a, k) = SubSeq(Ring(f, a, n), 0 + 1, k)
  BY <1>1, <1>2, <1>3, <1>4, <1>5, SubSeqIs
<1> QED BY <1>6

(* The first key of a stretch, and the others.                             *)
LEMMA RingTail ==
  ASSUME NEW f \in [Slots -> Key], NEW a \in Int, NEW n \in Nat \ {0}
  PROVE  /\ Ring(f, a, n) # <<>> /\ Head(Ring(f, a, n)) = f[Cell(a)]
         /\ Tail(Ring(f, a, n)) = Ring(f, a + 1, n - 1)
<1>1. /\ Ring(f, a, n) \in Seq(Key) /\ Len(Ring(f, a, n)) = n
      /\ \A i \in 1..n : Ring(f, a, n)[i] = f[Cell(a + i - 1)]
  BY RingSeq
<1>2. n - 1 \in Nat /\ a + 1 \in Int OBVIOUS
<1>3. /\ Ring(f, a + 1, n - 1) \in Seq(Key) /\ Len(Ring(f, a + 1, n - 1)) = n - 1
      /\ \A i \in 1..(n - 1) : Ring(f, a + 1, n - 1)[i] = f[Cell(a + 1 + i - 1)]
  BY <1>2, RingSeq
<1>4. Ring(f, a, n) # <<>> BY <1>1
<1>5. Head(Ring(f, a, n)) = f[Cell(a)]
  <2>1. a + 1 - 1 = a /\ 1 \in 1..n OBVIOUS
  <2>2. Head(Ring(f, a, n)) = Ring(f, a, n)[1] BY <1>1, <1>4
  <2> QED BY <1>1, <2>1, <2>2
<1>6. /\ Tail(Ring(f, a, n)) \in Seq(Key) /\ Len(Tail(Ring(f, a, n))) = n - 1
      /\ \A i \in 1..(n - 1) : Tail(Ring(f, a, n))[i] = Ring(f, a, n)[i + 1]
  BY <1>1, <1>4, HeadTailProperties
<1>7. \A i \in 1..(n - 1) : Tail(Ring(f, a, n))[i] = Ring(f, a + 1, n - 1)[i]
  <2> TAKE i \in 1..(n - 1)
  <2>1. i + 1 \in 1..n /\ a + (i + 1) - 1 = a + 1 + i - 1 OBVIOUS
  <2> QED BY <1>1, <1>3, <1>6, <2>1
<1>8. Tail(Ring(f, a, n)) = Ring(f, a + 1, n - 1) BY <1>3, <1>6, <1>7, SeqEqual
<1> QED BY <1>4, <1>5, <1>8

(* A stretch depends on where it begins only up to the size of the ring.   *)
LEMMA RingFrom ==
  ASSUME NEW f, NEW a \in 0..(WORD - 1), NEW b \in 0..(WORD - 1), NEW n \in Nat
  PROVE  Ring(f, b, n) = Ring(f, a + Dist(a, b), n)
<1>1. Dist(a, b) \in Nat
  <2>1. Dist(a, b) = Gap(WORD, a, b) BY DEF Dist, Gap
  <2> QED BY <2>1, SizesOK, DistRange
<1>2. \A i \in 1..n : Cell(b + i - 1) = Cell(a + Dist(a, b) + i - 1)
  <2> TAKE i \in 1..n
  <2>1. i - 1 \in Int OBVIOUS
  <2>2. Cell(b + (i - 1)) = Cell(a + Dist(a, b) + (i - 1)) BY <2>1, CellFrom
  <2>3. b + (i - 1) = b + i - 1 /\ a + Dist(a, b) + (i - 1) = a + Dist(a, b) + i - 1
    BY <1>1
  <2> QED BY <2>2, <2>3
<1> QED BY <1>2 DEF Ring

(* Advancing an index by one.                                              *)
LEMMA RingNext ==
  ASSUME NEW f, NEW a \in 0..(WORD - 1), NEW n \in Nat
  PROVE  Ring(f, (a + 1) % WORD, n) = Ring(f, a + 1, n)
<1>1. \A i \in 1..n : Cell(((a + 1) % WORD) + i - 1) = Cell(a + 1 + i - 1)
  <2> TAKE i \in 1..n
  <2>1. i - 1 \in Int /\ a + 1 \in Int OBVIOUS
  <2>2. PICK z \in 0..(WORD - 1) : (a + 1) % WORD = z BY <2>1, SizesOK, DivMod
  <2>3. Cell(z + (i - 1)) = Cell(a + 1 + (i - 1))
    <3>1. \A x \in Int, j \in Int : ((x % WORD) + j) % INPUT_BUF = (x + j) % INPUT_BUF
      BY SizesOK, SlotReduced
    <3> QED BY <2>1, <2>2, <3>1 DEF Cell
  <2>4. z + (i - 1) = z + i - 1 /\ a + 1 + (i - 1) = a + 1 + i - 1 OBVIOUS
  <2> QED BY <2>2, <2>3, <2>4
<1> QED BY <1>1 DEF Ring

(* What the abstract line discipline sees.                                 *)
Line == KeysBetween(w, e)
Ready == KeysBetween(r, w)

(* The indexes and their distances.                                        *)
Indexes ==
  /\ inbuf \in [Slots -> Key]
  /\ r \in 0..(WORD - 1) /\ w \in 0..(WORD - 1) /\ e \in 0..(WORD - 1)
  /\ Dist(r, w) \in Nat /\ Dist(w, e) \in Nat /\ Dist(r, e) \in Nat
  /\ Dist(r, e) = Dist(r, w) + Dist(w, e) /\ Dist(r, e) <= INPUT_BUF
  /\ Dist(r, e) = INPUT_BUF => w = e

(* A stretch of plain keys.                                                *)
LEMMA PlainStretch ==
  ASSUME NEW f \in [Slots -> Key], NEW a \in Int, NEW n \in Nat
  PROVE  (\A i \in 0..(n - 1) : f[Cell(a + i)] \in Plain) <=> Ring(f, a, n) \in Seq(Plain)
<1>1. /\ Ring(f, a, n) \in Seq(Key) /\ Len(Ring(f, a, n)) = n
      /\ \A i \in 1..n : Ring(f, a, n)[i] = f[Cell(a + i - 1)]
  BY RingSeq
<1>2. ASSUME \A i \in 0..(n - 1) : f[Cell(a + i)] \in Plain
      PROVE  Ring(f, a, n) \in Seq(Plain)
  <2>1. \A i \in 1..n : f[Cell(a + i - 1)] \in Plain
    <3> TAKE i \in 1..n
    <3>1. i - 1 \in 0..(n - 1) /\ a + (i - 1) = a + i - 1 OBVIOUS
    <3> QED BY <1>2, <3>1
  <2>2. Ring(f, a, n) \in [1..n -> Plain] BY <2>1 DEF Ring
  <2> QED BY <2>2, FcnIsSeq
<1>3. ASSUME Ring(f, a, n) \in Seq(Plain)
      PROVE  \A i \in 0..(n - 1) : f[Cell(a + i)] \in Plain
  <2> TAKE i \in 0..(n - 1)
  <2>1. i + 1 \in 1..n /\ a + (i + 1) - 1 = a + i OBVIOUS
  <2>2. Ring(f, a, n)[i + 1] \in Plain BY <1>1, <1>3, <2>1, ElementOfSeq
  <2> QED BY <1>1, <2>1, <2>2
<1> QED BY <1>2, <1>3

(* The order of the indexes in terms of distances, lines and sequences.    *)
LEMMA OrderIs ==
  TypeOK => (RingOrder <=> Indexes /\ Line \in Seq(Plain))
<1> SUFFICES ASSUME TypeOK PROVE RingOrder <=> Indexes /\ Line \in Seq(Plain) OBVIOUS
<1>1. /\ inbuf \in [Slots -> Key]
      /\ r \in 0..(WORD - 1) /\ w \in 0..(WORD - 1) /\ e \in 0..(WORD - 1)
  BY DEF TypeOK
<1>2. /\ Dist(r, w) = Gap(WORD, r, w) /\ Dist(w, e) = Gap(WORD, w, e)
      /\ Dist(r, e) = Gap(WORD, r, e)
  BY DEF Dist, Gap
<1>3. Dist(r, w) \in Nat /\ Dist(w, e) \in Nat /\ Dist(r, e) \in Nat
  BY <1>1, <1>2, SizesOK, DistRange
<1>4. Dist(r, w) <= Dist(r, e) <=> Dist(r, e) = Dist(r, w) + Dist(w, e)
  <2>1. Dist(r, w) <= Dist(r, e) => Dist(w, e) = Dist(r, e) - Dist(r, w)
    BY <1>1, <1>2, SizesOK, DistSplit
  <2> QED BY <1>3, <2>1
<1>5. EditedLineIsOpen <=> Line \in Seq(Plain)
  <2>1. Line = Ring(inbuf, w, Dist(w, e)) BY DEF Line, KeysBetween, Ring, At, Cell
  <2>2. EditedLineIsOpen <=> \A i \in 0..(Dist(w, e) - 1) : inbuf[Cell(w + i)] \in Plain
    BY DEF EditedLineIsOpen, At, Cell
  <2>3. w \in Int BY <1>1
  <2> QED BY <1>1, <1>3, <2>1, <2>2, <2>3, PlainStretch
<1> QED BY <1>1, <1>3, <1>4, <1>5 DEF RingOrder, Indexes

(* Lines and keys handed over as stretches of the ring.                    *)
LEMMA Stretches ==
  ASSUME Indexes
  PROVE  /\ Line = Ring(inbuf, w, Dist(w, e)) /\ Ready = Ring(inbuf, r, Dist(r, w))
         /\ Line \in Seq(Key) /\ Ready \in Seq(Key)
         /\ Len(Line) = Dist(w, e) /\ Len(Ready) = Dist(r, w)
         /\ Line = Ring(inbuf, r + Dist(r, w), Dist(w, e))
<1> USE DEF Indexes
<1>1. Line = Ring(inbuf, w, Dist(w, e)) /\ Ready = Ring(inbuf, r, Dist(r, w))
  BY DEF Line, Ready, KeysBetween, Ring, At, Cell
<1>2. r \in Int /\ w \in Int OBVIOUS
<1> QED BY <1>1, <1>2, RingSeq, RingFrom
-----------------------------------------------------------------------------
(* Each operation keeps the invariant and is a step of the line discipline.*)

(* An operation that leaves the reading processes alone.                   *)
LEMMA ReadersAlone ==
  ASSUME IndInv, UNCHANGED <<pc, want, got>>
  PROVE  GotTypes' /\ CallsOpen'
BY DEF IndInv, GotTypes, CallsOpen, Discipline!Open

(* A key: in the next free cell, at the end of the line, or handed over    *)
(* with it.                                                                *)
LEMMA KeyStoredStep ==
  ASSUME IndInv, NEW c \in Key, KeyStored(c)
  PROVE  IndInv' /\ (Discipline!Type(c) \/ Discipline!TypeAndHandOver(c))
<1> USE DEF IndInv
<1>1. TypeOK /\ Indexes /\ Line \in Seq(Plain) BY OrderIs DEF RingOrder
<1>2. /\ inbuf \in [Slots -> Key]
      /\ r \in 0..(WORD - 1) /\ w \in 0..(WORD - 1) /\ e \in 0..(WORD - 1)
      /\ Dist(r, w) \in Nat /\ Dist(w, e) \in Nat /\ Dist(r, e) \in Nat
      /\ Dist(r, e) = Dist(r, w) + Dist(w, e)
  BY <1>1 DEF Indexes
<1>3. /\ Dist(r, e) < INPUT_BUF /\ r' = r /\ e' = (e + 1) % WORD
      /\ inbuf' = [inbuf EXCEPT ![Cell(e)] = c]
      /\ UNCHANGED <<buffering, lock, pc, want, got, killed>>
  BY DEF KeyStored, HasRoom, Cell
<1>4. e' \in 0..(WORD - 1)
  <2>1. e + 1 \in Int BY <1>2
  <2> QED BY <1>3, <2>1, SizesOK, DivMod
<1>5. Dist(r, e') = Dist(r, e) + 1 /\ Dist(w, e') = Dist(w, e) + 1
  <2>1. /\ Dist(r, e) = Gap(WORD, r, e) /\ Dist(w, e) = Gap(WORD, w, e)
        /\ Dist(r, e') = Gap(WORD, r, e') /\ Dist(w, e') = Gap(WORD, w, e')
    BY DEF Dist, Gap
  <2>2. Gap(WORD, r, e) + 1 < WORD /\ Gap(WORD, w, e) + 1 < WORD
    BY <1>2, <1>3, <2>1, SizesOK
  <2> QED BY <1>2, <1>3, <2>1, <2>2, SizesOK, DistForward
<1>6. Cell(e) = Cell(r + Dist(r, e)) /\ Cell(e) = Cell(w + Dist(w, e))
  <2>1. Cell(e + 0) = Cell(r + Dist(r, e) + 0) /\ Cell(e + 0) = Cell(w + Dist(w, e) + 0)
    BY <1>2, CellFrom
  <2>2. e + 0 = e /\ r + Dist(r, e) + 0 = r + Dist(r, e)
        /\ w + Dist(w, e) + 0 = w + Dist(w, e)
    BY <1>2
  <2> QED BY <2>1, <2>2
<1>7. inbuf' \in [Slots -> Key] BY <1>2, <1>3
<1>8. /\ Ring(inbuf', r, Dist(r, e)) = Ring(inbuf, r, Dist(r, e))
      /\ Ring(inbuf', r, Dist(r, e) + 1) = Append(Ring(inbuf, r, Dist(r, e)), c)
      /\ Ring(inbuf', w, Dist(w, e) + 1) = Append(Ring(inbuf, w, Dist(w, e)), c)
  <2>1. r \in Int /\ w \in Int /\ e \in Int BY <1>2
  <2>2. PICK k \in Slots : k = Cell(e) BY <2>1, CellIsSlot
  <2>3. inbuf'[k] = c /\ \A j \in Slots \ {k} : inbuf'[j] = inbuf[j] BY <1>2, <1>3, <2>2
  <2>4. k = Cell(r + Dist(r, e)) /\ k = Cell(w + Dist(w, e)) BY <1>6, <2>2
  <2>5. Dist(w, e) < INPUT_BUF BY <1>2, <1>3, SizesOK
  <2>6. PICK f \in [Slots -> Key], g \in [Slots -> Key] : f = inbuf /\ g = inbuf'
    BY <1>2, <1>7
  <2>7. g[k] = c /\ \A j \in Slots \ {k} : g[j] = f[j] BY <2>3, <2>6
  <2> HIDE DEF IndInv
  <2>8. \A a \in Int, n \in Nat : n < INPUT_BUF /\ k = Cell(a + n) =>
          /\ Ring(g, a, n) = Ring(f, a, n)
          /\ Ring(g, a, n + 1) = Append(Ring(f, a, n), c)
    BY <2>7, RingAppend
  <2> QED BY <1>2, <1>3, <2>1, <2>4, <2>5, <2>6, <2>8
<1>9. /\ Line = Ring(inbuf, w, Dist(w, e)) /\ Ready = Ring(inbuf, r, Dist(r, w))
       /\ Line \in Seq(Key) /\ Ready \in Seq(Key)
       /\ Len(Line) = Dist(w, e) /\ Len(Ready) = Dist(r, w)
       /\ Line = Ring(inbuf, r + Dist(r, w), Dist(w, e))
  BY <1>1, Stretches
<1>10. Line' = Ring(inbuf', w', Dist(w', e')) /\ Ready' = Ring(inbuf', r, Dist(r, w'))
  BY <1>3 DEF Line, Ready, KeysBetween, Ring, At, Cell, Dist
<1>11. Len(Line) + Len(Ready) < INPUT_BUF BY <1>2, <1>3, <1>9
<1>12. GotTypes' /\ CallsOpen' BY <1>3, ReadersAlone
<1>13. TypeOK'
  <2>1. w' \in 0..(WORD - 1) /\ asleep' \subseteq Procs
    BY <1>1, <1>2, <1>4 DEF KeyStored, TypeOK
  <2> QED BY <1>1, <1>2, <1>3, <1>4, <1>7, <2>1 DEF TypeOK
<1>14. CASE HandsOver(c, e')
  <2>1. w' = e' BY <1>14 DEF KeyStored
  <2>2. Dist(w', e') = 0
    <3>1. Dist(w', e') = Gap(WORD, e', e') BY <2>1 DEF Dist, Gap
    <3> QED BY <1>4, <3>1, SizesOK, DistRange
  <2>3. Line' = <<>> BY <1>10, <2>2 DEF Ring
  <2>4. Ready' = Ready \o Append(Line, c)
    <3>1. Ring(inbuf, r, Dist(r, e)) = Ready \o Line
      <4>1. r \in Int BY <1>2
      <4>2. Ring(inbuf, r, Dist(r, w) + Dist(w, e))
              = Ring(inbuf, r, Dist(r, w)) \o Ring(inbuf, r + Dist(r, w), Dist(w, e))
        BY <1>2, <4>1, RingJoin, Zenon
      <4> QED BY <1>2, <1>9, <4>2
    <3>2. Ready' = Append(Ready \o Line, c) BY <1>5, <1>8, <1>10, <2>1, <3>1
    <3>3. PICK q \in Seq(Key), t \in Seq(Key) : q = Ready /\ t = Line BY <1>9
    <3>4. Append(q \o t, c) = q \o Append(t, c) OBVIOUS
    <3> QED BY <3>2, <3>3, <3>4
  <2>5. RingOrder'
    <3>1. Indexes'
      BY <1>2, <1>3, <1>4, <1>5, <1>7, <2>1, <2>2, SizesOK DEF Indexes
    <3>2. (Line \in Seq(Plain))' BY <2>3
    <3> QED BY <1>13, <3>1, <3>2, OrderIs, PTL
  <2>6. Discipline!TypeAndHandOver(c)
    BY <1>3, <1>11, <2>3, <2>4 DEF Discipline!TypeAndHandOver, Line, Ready
  <2> QED BY <1>12, <2>5, <2>6
<1>15. CASE ~HandsOver(c, e')
  <2>1. w' = w BY <1>15 DEF KeyStored
  <2>2. Line' = Append(Line, c) BY <1>5, <1>8, <1>9, <1>10, <2>1
  <2>3. Ready' = Ready
    <3>1. r \in Int /\ Dist(r, w) \in 0..Dist(r, e) BY <1>2
    <3>2. Ring(inbuf', r, Dist(r, w)) = SubSeq(Ring(inbuf', r, Dist(r, e)), 1, Dist(r, w))
      BY <1>2, <1>7, <3>1, RingPrefix
    <3>3. Ring(inbuf, r, Dist(r, w)) = SubSeq(Ring(inbuf, r, Dist(r, e)), 1, Dist(r, w))
      BY <1>2, <3>1, RingPrefix
    <3> QED BY <1>8, <1>9, <1>10, <2>1, <3>2, <3>3
  <2>4. c \in Plain BY <1>15 DEF HandsOver, Key
  <2>5. Dist(r, e') # INPUT_BUF
    <3>1. e' # (r + INPUT_BUF) % WORD BY <1>15 DEF HandsOver
    <3>2. Dist(r, e') = Gap(WORD, r, e') /\ INPUT_BUF \in 0..(WORD - 1)
      BY SizesOK DEF Dist, Gap
    <3> QED BY <1>2, <1>4, <3>1, <3>2, SizesOK, DistIs
  <2>6. RingOrder'
    <3>1. Indexes'
      BY <1>2, <1>3, <1>4, <1>5, <1>7, <2>1, <2>5, SizesOK DEF Indexes
    <3>2. (Line \in Seq(Plain))' BY <1>1, <2>2, <2>4
    <3> QED BY <1>13, <3>1, <3>2, OrderIs, PTL
  <2>7. Discipline!Type(c)
    BY <1>3, <1>11, <2>2, <2>3 DEF Discipline!Type, Line, Ready
  <2> QED BY <1>12, <2>6, <2>7
<1> QED BY <1>14, <1>15

(* Erasing k keys of the line being edited.                                *)
LEMMA EraseStep ==
  ASSUME IndInv, NEW k \in 0..Dist(w, e), e' = (e - k) % WORD,
         UNCHANGED <<inbuf, r, w, buffering, lock, pc, want, got, procVars>>
  PROVE  IndInv' /\ \E n \in 0..INPUT_BUF : n <= Len(Line) /\ Discipline!Erase(n)
<1> USE DEF IndInv
<1>1. TypeOK /\ Indexes /\ Line \in Seq(Plain) BY OrderIs DEF RingOrder
<1>2. /\ inbuf \in [Slots -> Key]
      /\ r \in 0..(WORD - 1) /\ w \in 0..(WORD - 1) /\ e \in 0..(WORD - 1)
      /\ Dist(r, w) \in Nat /\ Dist(w, e) \in Nat /\ Dist(r, e) \in Nat
      /\ Dist(r, e) = Dist(r, w) + Dist(w, e) /\ Dist(r, e) <= INPUT_BUF
      /\ (Dist(r, e) = INPUT_BUF => w = e)
  BY <1>1 DEF Indexes
<1>3. k \in Nat /\ k <= Dist(w, e) /\ k <= Dist(r, e) BY <1>2
<1>4. e' \in 0..(WORD - 1)
  <2>1. e - k \in Int BY <1>2, <1>3
  <2> QED BY <2>1, SizesOK, DivMod
<1>5. Dist(r, e') = Dist(r, e) - k /\ Dist(w, e') = Dist(w, e) - k
  <2>1. /\ Dist(r, e) = Gap(WORD, r, e) /\ Dist(w, e) = Gap(WORD, w, e)
        /\ Dist(r, e') = Gap(WORD, r, e') /\ Dist(w, e') = Gap(WORD, w, e')
    BY DEF Dist, Gap
  <2> QED BY <1>2, <1>3, <2>1, SizesOK, DistBack
<1>6. /\ Line = Ring(inbuf, w, Dist(w, e)) /\ Ready = Ring(inbuf, r, Dist(r, w))
      /\ Len(Line) = Dist(w, e)
  BY <1>1, Stretches
<1>7. Line' = Ring(inbuf, w, Dist(w, e')) /\ Ready' = Ready
  BY DEF Line, Ready, KeysBetween, Ring, At, Cell, Dist
<1>8. PICK n \in Nat : n = Dist(w, e) - k BY <1>2, <1>3
<1>9. Line' = SubSeq(Line, 1, n)
  <2>1. w \in Int /\ n \in 0..Dist(w, e) BY <1>2, <1>3, <1>8
  <2>2. Ring(inbuf, w, n) = SubSeq(Ring(inbuf, w, Dist(w, e)), 1, n)
    BY <1>2, <2>1, RingPrefix
  <2> QED BY <1>5, <1>6, <1>7, <1>8, <2>2
<1>10. TypeOK' BY <1>1, <1>2, <1>4 DEF TypeOK, procVars
<1>11. RingOrder'
  <2>1. Dist(r, e') = INPUT_BUF => w = e'
    <3>1. Dist(r, e') = INPUT_BUF => k = 0 /\ w = e BY <1>2, <1>3, <1>5, SizesOK
    <3>2. k = 0 => e' = e
      <4>1. e - 0 = e BY <1>2
      <4> QED BY <1>2, <4>1, SizesOK, ModSmall
    <3> QED BY <3>1, <3>2
  <2>2. Indexes'
    BY <1>2, <1>3, <1>4, <1>5, <2>1, SizesOK DEF Indexes, Dist
  <2>3. (Line \in Seq(Plain))' BY <1>1, <1>2, <1>3, <1>6, <1>8, <1>9
  <2> QED BY <1>10, <2>2, <2>3, OrderIs, PTL
<1>12. GotTypes' /\ CallsOpen' BY ReadersAlone
<1>13. n \in 0..INPUT_BUF /\ n <= Len(Line) BY <1>2, <1>3, <1>6, <1>8, SizesOK
<1>14. Discipline!Erase(n) BY <1>7, <1>9 DEF Discipline!Erase, Line, Ready
<1> QED BY <1>11, <1>12, <1>13, <1>14

(* Backspace, on a line that is not empty.                                 *)
LEMMA BackspaceStep ==
  ASSUME IndInv, Backspace
  PROVE  IndInv' /\ \E n \in 0..INPUT_BUF : n <= Len(Line) /\ Discipline!Erase(n)
<1>1. TypeOK /\ Indexes BY OrderIs DEF RingOrder, IndInv
<1>2. 1 \in 0..Dist(w, e)
  <2>1. Dist(w, e) = Gap(WORD, w, e) BY DEF Dist, Gap
  <2>2. w # e /\ Dist(w, e) \in Nat BY <1>1 DEF Indexes, Backspace, MayErase
  <2>3. Dist(w, e) # 0 BY <1>1, <2>1, <2>2, SizesOK, DistRange DEF Indexes
  <2> QED BY <2>2, <2>3
<1>3. e' = (e - 1) % WORD
      /\ UNCHANGED <<inbuf, r, w, buffering, lock, pc, want, got, procVars>>
  BY DEF Backspace
<1> QED BY <1>2, <1>3, EraseStep

(* ^U: the loop stops at w at the latest.                                  *)
LEMMA KillLineStep ==
  ASSUME IndInv, KillLine
  PROVE  IndInv' /\ \E n \in 0..INPUT_BUF : n <= Len(Line) /\ Discipline!Erase(n)
<1>1. TypeOK /\ Indexes /\ EditedLineIsOpen BY OrderIs DEF RingOrder, IndInv
<1>2. PICK d \in Nat : d = Dist(w, e) BY <1>1 DEF Indexes
<1>3. w \in 0..(WORD - 1) /\ e \in 0..(WORD - 1) BY <1>1 DEF Indexes
<1>4. \A i \in 1..d : At(e - i) # Newline
  <2> TAKE i \in 1..d
  <2>1. -i \in Int /\ d - i \in 0..(d - 1) BY <1>2
  <2>2. Cell(e + (-i)) = Cell(w + Dist(w, e) + (-i)) BY <1>3, <2>1, CellFrom
  <2>3. e + (-i) = e - i /\ w + d + (-i) = w + (d - i) BY <1>2, <1>3
  <2>4. Cell(e - i) = Cell(w + (d - i)) BY <1>2, <2>2, <2>3
  <2>5. At(w + (d - i)) \in Plain BY <1>1, <1>2, <2>1 DEF EditedLineIsOpen
  <2> QED BY <2>4, <2>5, ConsoleConstants DEF At, Cell
<1> DEFINE P(k) == /\ \A i \in 1..k : At(e - i) # Newline
                   /\ k = Dist(w, e) \/ At(e - k - 1) = Newline
<1>5. P(d) /\ d \in 0..Dist(w, e) BY <1>2, <1>4
<1>6. Erased \in 0..Dist(w, e)
  <2> HIDE DEF P
  <2>1. (CHOOSE k \in 0..Dist(w, e) : P(k)) \in 0..Dist(w, e) BY <1>5
  <2> QED BY <2>1 DEF Erased, P
<1>7. e' = (e - Erased) % WORD
      /\ UNCHANGED <<inbuf, r, w, buffering, lock, pc, want, got, procVars>>
  BY DEF KillLine
<1> QED BY <1>6, <1>7, EraseStep

(* A step that leaves the ring alone.                                      *)
LEMMA RingAlone ==
  ASSUME IndInv, UNCHANGED ringVars, TypeOK'
  PROVE  RingOrder' /\ Line' = Line /\ Ready' = Ready
<1>1. RingOrder' BY DEF IndInv, RingOrder, ringVars, EditedLineIsOpen, At, Dist
<1>2. Line' = Line /\ Ready' = Ready BY DEF ringVars, Line, Ready, KeysBetween, At, Dist
<1> QED BY <1>1, <1>2

(* A reader takes the oldest key.                                          *)
LEMMA ReadAdvances ==
  ASSUME IndInv, r # w, r' = (r + 1) % WORD, UNCHANGED <<inbuf, w, e>>
  PROVE  /\ r' \in 0..(WORD - 1) /\ (TypeOK' => RingOrder') /\ Line' = Line
         /\ Ready # <<>> /\ Head(Ready) = At(r) /\ Ready' = Tail(Ready)
<1> USE DEF IndInv
<1>1. TypeOK /\ Indexes /\ Line \in Seq(Plain) BY OrderIs DEF RingOrder
<1>2. /\ inbuf \in [Slots -> Key]
      /\ r \in 0..(WORD - 1) /\ w \in 0..(WORD - 1) /\ e \in 0..(WORD - 1)
      /\ Dist(r, w) \in Nat /\ Dist(w, e) \in Nat /\ Dist(r, e) \in Nat
      /\ Dist(r, e) = Dist(r, w) + Dist(w, e) /\ Dist(r, e) <= INPUT_BUF
  BY <1>1 DEF Indexes
<1>3. r' \in 0..(WORD - 1)
  <2>1. r + 1 \in Int BY <1>2
  <2> QED BY <2>1, SizesOK, DivMod
<1>4. Dist(r, w) # 0
  <2>1. Dist(r, w) = Gap(WORD, r, w) BY DEF Dist, Gap
  <2> QED BY <1>2, <2>1, SizesOK, DistRange
<1>5. Dist(r', w) = Dist(r, w) - 1 /\ Dist(r', e) = Dist(r, e) - 1
  <2>1. /\ Dist(r, w) = Gap(WORD, r, w) /\ Dist(r, e) = Gap(WORD, r, e)
        /\ Dist(r', w) = Gap(WORD, r', w) /\ Dist(r', e) = Gap(WORD, r', e)
    BY DEF Dist, Gap
  <2>2. 1 <= Dist(r, w) /\ 1 <= Dist(r, e) /\ 1 \in Nat BY <1>2, <1>4
  <2> QED BY <1>2, <2>1, <2>2, SizesOK, DistAdvance
<1>6. Line' = Line BY DEF Line, KeysBetween, At, Dist
<1>7. Ready = Ring(inbuf, r, Dist(r, w)) BY <1>1, Stretches
<1>8. Ready' = Ring(inbuf, r', Dist(r', w))
  BY DEF Ready, KeysBetween, Ring, At, Cell, Dist
<1>9. PICK n \in Nat \ {0} : n = Dist(r, w) BY <1>2, <1>4
<1>10. /\ Ring(inbuf, r, n) # <<>> /\ Head(Ring(inbuf, r, n)) = inbuf[Cell(r)]
       /\ Tail(Ring(inbuf, r, n)) = Ring(inbuf, r + 1, n - 1)
  <2>1. r \in Int BY <1>2
  <2> QED BY <1>2, <2>1, RingTail
<1>11. Ring(inbuf, r', n - 1) = Ring(inbuf, r + 1, n - 1)
  <2>1. n - 1 \in Nat OBVIOUS
  <2> QED BY <1>2, <2>1, RingNext
<1>12. Ready # <<>> /\ Head(Ready) = At(r) /\ Ready' = Tail(Ready)
  BY <1>5, <1>7, <1>8, <1>9, <1>10, <1>11 DEF At, Cell
<1>13. TypeOK' => RingOrder'
  <2>1. Indexes'
    BY <1>2, <1>3, <1>4, <1>5, SizesOK DEF Indexes, Dist
  <2>2. (Line \in Seq(Plain))' BY <1>1, <1>6
  <2> QED BY <2>1, <2>2, OrderIs, PTL
<1> QED BY <1>3, <1>6, <1>12, <1>13

(* A step the line discipline does not see.                                *)
Unseen == UNCHANGED <<Line, Ready, got>>

(* A call begins with nothing collected.                                   *)
LEMMA ReadCallStep ==
  ASSUME IndInv, NEW p \in Procs, NEW n \in 0..MaxN, ReadCall(p, n)
  PROVE  IndInv' /\ Discipline!Begin(p)
<1> USE DEF IndInv, ReadCall, procVars
<1>1. TypeOK /\ got \in [Procs -> Seq(Key)] BY DEF RingOrder, GotTypes
<1>2. <<>> \in Seq(Key) /\ Len(<<>>) = 0 OBVIOUS
<1>3. \A q \in Procs : got'[q] = IF q = p THEN <<>> ELSE got[q] BY <1>1
<1>4. \A q \in Procs : want'[q] = IF q = p THEN n ELSE want[q] BY <1>1 DEF TypeOK
<1>5. \A q \in Procs : q # p => pc'[q] = pc[q] BY <1>1 DEF TypeOK
<1>6. TypeOK'
  <2>1. \A q \in Procs : Len(got'[q]) <= MaxN BY <1>1, <1>2, <1>3, SizesOK DEF TypeOK
  <2> QED BY <1>1, <2>1 DEF TypeOK, ringVars
<1>7. RingOrder' /\ Line' = Line /\ Ready' = Ready BY <1>6, RingAlone
<1>8. GotTypes'
  <2>1. got' \in [Procs -> Seq(Key)] BY <1>1, <1>2
  <2>2. \A q \in Procs : Len(got'[q]) + want'[q] <= MaxN
    BY <1>2, <1>3, <1>4, SizesOK DEF GotTypes
  <2> QED BY <2>1, <2>2 DEF GotTypes
<1>9. CallsOpen' BY <1>3, <1>5 DEF CallsOpen, Discipline!Open
<1>10. Discipline!Begin(p) BY <1>7 DEF Discipline!Begin, Line, Ready
<1> QED BY <1>7, <1>8, <1>9, <1>10

(* The steps of a call that take no key.                                   *)
LEMMA QuietReadStep ==
  ASSUME IndInv, NEW p \in Procs,
         Acquire(p) \/ ReadDone(p) \/ ReadEmpty(p) \/ Sleep(p)
  PROVE  IndInv' /\ Unseen
<1> USE DEF IndInv
<1>1. TypeOK BY DEF RingOrder
<1>2. UNCHANGED <<ringVars, buffering, want, got, killed>>
      /\ \E l \in {"user", "loop", "sleep", "acquire"} : pc' = [pc EXCEPT ![p] = l]
      /\ lock' \in Procs \cup {NoProc} /\ asleep' \subseteq Procs
      /\ pc[p] # "user"
  BY <1>1 DEF Acquire, ReadDone, ReadEmpty, Sleep, Return, TypeOK, procVars
<1>3. TypeOK' BY <1>1, <1>2 DEF TypeOK, ringVars
<1>4. RingOrder' /\ Line' = Line /\ Ready' = Ready BY <1>2, <1>3, RingAlone
<1>5. GotTypes' BY <1>2 DEF GotTypes
<1>6. \A q \in Procs : pc'[q] # "user" => pc[q] # "user" BY <1>1, <1>2 DEF TypeOK
<1>7. CallsOpen' BY <1>2, <1>6 DEF CallsOpen, Discipline!Open
<1> QED BY <1>2, <1>4, <1>5, <1>7 DEF Unseen

(* ^D is taken by a call that has nothing, and kept for the next one by a  *)
(* call that has something.                                                *)
LEMMA ReadEofStep ==
  ASSUME IndInv, NEW p \in Procs, ReadEof(p)
  PROVE  IndInv' /\ (Unseen \/ Discipline!TakeEof(p))
<1> USE DEF IndInv
<1>1. TypeOK BY DEF RingOrder
<1>2. /\ r # w /\ At(r) = Eof
      /\ UNCHANGED <<inbuf, w, e, buffering, want, got, asleep, killed>>
      /\ lock' = NoProc /\ pc' = [pc EXCEPT ![p] = "user"]
  BY DEF ReadEof, Return, procVars
<1>3. \A q \in Procs : pc'[q] # "user" => pc[q] # "user" BY <1>1, <1>2 DEF TypeOK
<1>4. GotTypes' BY <1>2 DEF GotTypes
<1>5. CallsOpen' BY <1>2, <1>3 DEF CallsOpen, Discipline!Open
<1>6. CASE KeepsEof(p)
  <2>1. r' = r BY <1>6 DEF ReadEof
  <2>2. TypeOK' BY <1>1, <1>2, <2>1 DEF TypeOK
  <2>3. RingOrder' /\ Line' = Line /\ Ready' = Ready
    BY <1>2, <2>1, <2>2, RingAlone DEF ringVars
  <2> QED BY <1>2, <1>4, <1>5, <2>3 DEF Unseen
<1>7. CASE ~KeepsEof(p)
  <2>1. r' = (r + 1) % WORD /\ got[p] = <<>> BY <1>7 DEF ReadEof, KeepsEof
  <2>2. /\ r' \in 0..(WORD - 1) /\ (TypeOK' => RingOrder') /\ Line' = Line
        /\ Ready # <<>> /\ Head(Ready) = At(r) /\ Ready' = Tail(Ready)
    BY <1>2, <2>1, ReadAdvances
  <2>3. TypeOK' BY <1>1, <1>2, <2>2 DEF TypeOK
  <2>4. Discipline!TakeEof(p)
    BY <1>2, <2>1, <2>2 DEF Discipline!TakeEof, Line, Ready
  <2> QED BY <1>4, <1>5, <2>2, <2>3, <2>4
<1> QED BY <1>6, <1>7

(* A key goes to the call that took it; a newline ends the call.           *)
LEMMA ReadKeyStep ==
  ASSUME IndInv, NEW p \in Procs, ReadKey(p)
  PROVE  IndInv' /\ Discipline!Take(p)
<1> USE DEF IndInv
<1>1. TypeOK /\ got \in [Procs -> Seq(Key)] BY DEF RingOrder, GotTypes
<1>2. /\ r # w /\ At(r) # Eof /\ pc[p] = "loop" /\ want[p] > 0
      /\ r' = (r + 1) % WORD
      /\ got' = [got EXCEPT ![p] = Append(got[p], At(r))]
      /\ want' = [want EXCEPT ![p] = want[p] - 1]
      /\ UNCHANGED <<inbuf, w, e, buffering, asleep, killed>>
      /\ \/ At(r) = Newline /\ lock' = NoProc /\ pc' = [pc EXCEPT ![p] = "user"]
         \/ At(r) # Newline /\ UNCHANGED <<lock, pc>>
  BY DEF ReadKey, Return, procVars, WantsMore
<1>3. /\ r' \in 0..(WORD - 1) /\ (TypeOK' => RingOrder') /\ Line' = Line
      /\ Ready # <<>> /\ Head(Ready) = At(r) /\ Ready' = Tail(Ready)
  BY <1>2, ReadAdvances
<1>4. PICK c \in Key : c = At(r)
  <2>1. inbuf \in [Slots -> Key] /\ r \in Int BY <1>1 DEF TypeOK
  <2> QED BY <2>1, CellIsSlot DEF At, Cell
<1>5. PICK g \in Seq(Key) : g = got[p] BY <1>1
<1>6. /\ Append(g, c) \in Seq(Key) /\ Len(Append(g, c)) = Len(g) + 1 /\ Len(g) \in Nat
      /\ Append(g, c)[Len(g) + 1] = c
  OBVIOUS
<1>7. \A q \in Procs : got'[q] = IF q = p THEN Append(g, c) ELSE got[q]
  BY <1>1, <1>2, <1>4, <1>5
<1>8. \A q \in Procs : want'[q] = IF q = p THEN want[p] - 1 ELSE want[q]
  BY <1>1, <1>2 DEF TypeOK
<1>9. got' \in [Procs -> Seq(Key)] BY <1>1, <1>2, <1>4, <1>5, <1>6
<1>10. PICK n \in 0..MaxN : n = want[p] - 1 /\ Len(g) + 1 + n <= MaxN
  <2>1. want[p] \in 0..MaxN /\ Len(g) + want[p] <= MaxN BY <1>1, <1>5 DEF TypeOK, GotTypes
  <2> QED BY <1>2, <1>6, <2>1, SizesOK
<1>11. TypeOK'
  <2>1. \A q \in Procs : Len(got'[q]) <= MaxN
    <3>1. Len(Append(g, c)) <= MaxN BY <1>6, <1>10, SizesOK
    <3>2. \A q \in Procs : Len(got[q]) <= MaxN BY <1>1 DEF TypeOK
    <3> QED BY <1>7, <3>1, <3>2
  <2>2. want' \in [Procs -> 0..MaxN] BY <1>1, <1>2, <1>10 DEF TypeOK
  <2>3. pc' \in [Procs -> {"user", "acquire", "loop", "sleep"}]
        /\ lock' \in Procs \cup {NoProc}
    BY <1>1, <1>2 DEF TypeOK
  <2> QED BY <1>1, <1>2, <1>3, <2>1, <2>2, <2>3 DEF TypeOK
<1>12. GotTypes'
  <2>1. \A q \in Procs : Len(got'[q]) + want'[q] <= MaxN
    <3> TAKE q \in Procs
    <3>1. CASE q = p BY <1>6, <1>7, <1>8, <1>10, <3>1, SizesOK
    <3>2. CASE q # p BY <1>7, <1>8, <3>2 DEF GotTypes
    <3> QED BY <3>1, <3>2
  <2> QED BY <1>9, <2>1 DEF GotTypes
<1>13. CallsOpen'
  <2> SUFFICES ASSUME NEW q \in Procs, pc'[q] # "user"
               PROVE  got'[q] = <<>> \/ got'[q][Len(got'[q])] # Newline
    BY DEF CallsOpen, Discipline!Open
  <2>1. pc[q] # "user" BY <1>1, <1>2 DEF TypeOK
  <2>2. CASE q # p BY <1>7, <2>1, <2>2 DEF CallsOpen, Discipline!Open
  <2>3. CASE q = p
    <3>1. c # Newline BY <1>1, <1>2, <1>4, <2>3 DEF TypeOK
    <3> QED BY <1>6, <1>7, <2>3, <3>1
  <2> QED BY <2>2, <2>3
<1>14. Discipline!Take(p)
  <2>1. Discipline!Open(p) BY <1>2 DEF CallsOpen
  <2> QED BY <1>2, <1>3, <2>1 DEF Discipline!Take, Line, Ready
<1> QED BY <1>3, <1>11, <1>12, <1>13, <1>14

(* setconsbuf(), kill() and exit() change neither ring nor calls.          *)
LEMMA ModeAndKillStep ==
  ASSUME IndInv,
         \/ \E isbuf \in BOOLEAN : SetConsBuf(isbuf)
         \/ \E p \in Procs : Kill(p) \/ Exit(p)
         \/ UNCHANGED vars
  PROVE  IndInv' /\ Unseen
<1> USE DEF IndInv
<1>1. TypeOK BY DEF RingOrder
<1>2. /\ UNCHANGED <<ringVars, lock, pc, want, got>>
      /\ buffering' \in BOOLEAN /\ asleep' \subseteq Procs
      /\ killed' \in [Procs -> BOOLEAN]
  BY <1>1 DEF SetConsBuf, Kill, Exit, vars, procVars, TypeOK
<1>3. TypeOK' BY <1>1, <1>2 DEF TypeOK, ringVars
<1>4. RingOrder' /\ Line' = Line /\ Ready' = Ready BY <1>2, <1>3, RingAlone
<1>5. GotTypes' /\ CallsOpen' BY <1>2, ReadersAlone
<1> QED BY <1>2, <1>4, <1>5 DEF Unseen
-----------------------------------------------------------------------------
(* At boot the ring is empty.                                              *)
LEMMA InitInv == Init => IndInv /\ Line = <<>> /\ Ready = <<>>
<1> SUFFICES ASSUME Init PROVE IndInv /\ Line = <<>> /\ Ready = <<>> OBVIOUS
<1> USE DEF Init
<1>1. Dist(0, 0) = 0
  <2>1. (0 - 0) % WORD = 0 BY SizesOK
  <2> QED BY <2>1 DEF Dist
<1>2. Line = <<>> /\ Ready = <<>> BY <1>1 DEF Line, Ready, KeysBetween
<1>3. <<>> \in Seq(Key) /\ <<>> \in Seq(Plain) /\ Len(<<>>) = 0 OBVIOUS
<1>4. TypeOK
  <2>1. 0 \in 0..(WORD - 1) /\ 0 \in 0..MaxN BY SizesOK
  <2>2. inbuf \in [Slots -> Key] BY DEF Key
  <2>3. \A p \in Procs : Len(got[p]) <= MaxN
    <3> TAKE p \in Procs
    <3>1. Len(got[p]) = 0 BY <1>3
    <3>2. 0 <= MaxN BY SizesOK
    <3> QED BY <3>1, <3>2
  <2> QED BY <2>1, <2>2, <2>3 DEF TypeOK
<1>5. Indexes BY <1>1, <1>4, SizesOK DEF Indexes, TypeOK
<1>6. RingOrder BY <1>2, <1>3, <1>4, <1>5, OrderIs
<1>7. GotTypes BY <1>3, SizesOK DEF GotTypes
<1>8. CallsOpen BY DEF CallsOpen
<1> QED BY <1>2, <1>6, <1>7, <1>8 DEF IndInv

(* Every step of the console keeps the invariant, and is a step of the     *)
(* line discipline or unseen by it.                                        *)
LEMMA StepInv ==
  ASSUME IndInv, [Next]_vars
  PROVE  IndInv' /\ (Discipline!Next \/ Unseen)
<1>1. CASE \E c \in Key : KeyStored(c) BY <1>1, KeyStoredStep DEF Discipline!Next
<1>2. CASE Backspace \/ KillLine
  BY <1>2, BackspaceStep, KillLineStep DEF Discipline!Next, Line
<1>3. CASE \E p \in Procs, n \in 0..MaxN : ReadCall(p, n)
  BY <1>3, ReadCallStep DEF Discipline!Next
<1>4. CASE \E p \in Procs : ReadStep(p)
  <2>1. PICK p \in Procs : ReadStep(p) BY <1>4
  <2>2. CASE ReadEof(p) BY <2>2, ReadEofStep DEF Discipline!Next
  <2>3. CASE ReadKey(p) BY <2>3, ReadKeyStep DEF Discipline!Next
  <2>4. CASE Acquire(p) \/ ReadDone(p) \/ ReadEmpty(p) \/ Sleep(p) BY <2>4, QuietReadStep
  <2> QED BY <2>1, <2>2, <2>3, <2>4 DEF ReadStep
<1>5. CASE \/ \E isbuf \in BOOLEAN : SetConsBuf(isbuf)
           \/ \E p \in Procs : Kill(p) \/ Exit(p)
           \/ UNCHANGED vars
  BY <1>5, ModeAndKillStep
<1> QED BY <1>1, <1>2, <1>3, <1>4, <1>5 DEF Next

(* The ring's invariant, in every reachable state.                         *)
THEOREM Invariance == Spec => []IndInv
<1>1. IndInv /\ [Next]_vars => IndInv' BY StepInv
<1> QED BY InitInv, <1>1, PTL DEF Spec

(* r, w and e keep their order around the ring whatever is typed, erased,  *)
(* read or put back, in either mode and as the counters wrap; a full ring  *)
(* has been handed over, and the line being edited has no end in it.       *)
THEOREM OrderKept == Spec => []RingOrder
<1>1. IndInv => RingOrder BY DEF IndInv
<1> QED BY Invariance, <1>1, PTL

(* The ring implements the line discipline: each key that is handed over   *)
(* is read once and in order, editing reaches only the line being typed,   *)
(* and ^D ends a call that has nothing to return.                          *)
THEOREM LineRefinement == Spec => LineSpec
<1>1. Init => Discipline!Init
  BY InitInv DEF Init, Discipline!Init, Line, Ready
<1>2. IndInv /\ [Next]_vars => [Discipline!Next]_(Discipline!vars)
  BY StepInv DEF Discipline!vars, Unseen, Line, Ready
<1> QED BY <1>1, <1>2, Invariance, PTL DEF Spec, LineSpec, Discipline!Spec
=============================================================================
