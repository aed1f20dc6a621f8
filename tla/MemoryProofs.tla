---------------------------- MODULE MemoryProofs ----------------------------
(***************************************************************************)
(* Proofs about Memory and Syscall, for any number of processes and pages  *)
(* and any page size: no page leaks or has two uses, the pages below       *)
(* p->sz are the mapped ones, system calls follow pointers only to them;   *)
(* and about Umalloc, which manages what a program has got of that memory. *)
(***************************************************************************)
EXTENDS Syscall, Umalloc, TLAPS, FunctionTheorems, FiniteSetTheorems, WellFoundedInduction
-----------------------------------------------------------------------------
(* Division: what the addresses and pages of a space need.                 *)

(* What % and \div are, for a positive divisor.                            *)
LEMMA DivMod ==
  ASSUME NEW a \in Int, NEW n \in Nat \ {0}
  PROVE  a % n \in 0..(n - 1) /\ a \div n \in Int /\ a = (n * (a \div n)) + (a % n)
OBVIOUS

(* The only multiple of n strictly between -n and n is 0.                  *)
LEMMA SmallMultiple ==
  ASSUME NEW n \in Nat \ {0}, NEW q \in Int, n * q < n, -n < n * q
  PROVE  q = 0
<1>1. q >= 1 => n * q >= n OBVIOUS
<1>2. q <= -1 => n * q <= -n OBVIOUS
<1> QED BY <1>1, <1>2

(* Quotient and remainder are unique.                                      *)
LEMMA ModUnique ==
  ASSUME NEW n \in Nat \ {0}, NEW q \in Int, NEW r \in 0..(n - 1)
  PROVE  ((n * q) + r) % n = r
<1> DEFINE a == (n * q) + r
           d == (a \div n) - q
<1>1. a \in Int OBVIOUS
<1>2. a % n \in 0..(n - 1) /\ a \div n \in Int /\ a = (n * (a \div n)) + (a % n)
  BY <1>1, DivMod
<1>3. d \in Int /\ n * d = r - (a % n) BY <1>2
<1>4. n * d < n /\ -n < n * d BY <1>2, <1>3
<1>5. d = 0 BY <1>3, <1>4, SmallMultiple
<1> QED BY <1>2, <1>3, <1>5

(* A number in range is its own remainder.                                 *)
LEMMA ModSmall ==
  ASSUME NEW n \in Nat \ {0}, NEW a \in 0..(n - 1)
  PROVE  a % n = a
OBVIOUS

(* A number is a multiple of the divisor and its remainder.                *)
LEMMA Division ==
  ASSUME NEW a \in Int, NEW n \in Nat \ {0}
  PROVE  \E q \in Int, r \in 0..(n - 1) : a = (n * q) + r /\ a % n = r
<1>1. PICK q \in Int, r \in 0..(n - 1) : a = (n * q) + r BY DivMod
<1> QED BY <1>1, ModUnique
-----------------------------------------------------------------------------
(* What each place holds, and what it means that every page is free or in  *)
(* exactly one place.                                                      *)
Hold == [x \in Places |-> Held(x)]
Conserved(F, H) ==
  /\ F \subseteq Pages /\ H \in [Places -> Pages \cup {0}]
  /\ \A x \in Places : H[x] \notin F
  /\ \A x, y \in Places : H[x] = H[y] /\ H[x] # 0 => x = y
  /\ \A g \in Pages : g \in F \/ \E x \in Places : H[x] = g

PCs == {"user", "dir", "kernel", "alloc", "map"}
Kinds == {"none", "sbrk", "fork", "exec", "stack"}
Calls == [pc : PCs, kind : Kinds, s : Spaces, a : Nat, old : Nat, new : Nat,
          mem : Pages \cup {0}]
Types == /\ state \in [Procs -> {"unused", "embryo", "run", "zombie"}]
         /\ kstack \in [Procs -> Pages \cup {0}] /\ sz \in [Procs -> 0..(KERNBASE - 1)]
         /\ dir \in [Spaces -> Pages \cup {0}]
         /\ tab \in [Spaces -> [Tables -> Pages \cup {0}]]
         /\ pte \in [Spaces -> [VPages -> Pages \cup {0}]]
         /\ op \in [Procs -> Calls]

NoTables(s) == (\A t \in Tables : tab[s][t] = 0) /\ \A v \in VPages : pte[s][v] = 0
Empty(s) == dir[s] = 0 /\ NoTables(s)

(* What a slot of the process table owns in each state.                    *)
Owns(p) ==
  /\ state[p] = "unused" => kstack[p] = 0 /\ Empty(<<p, "cur">>)
  /\ state[p] # "unused" => kstack[p] # 0
  /\ state[p] \in {"run", "zombie"} => dir[<<p, "cur">>] # 0
  /\ op[p].kind \notin {"exec", "stack"} => Empty(<<p, "new">>)

(* Which space a call builds: for fork, that of a child of its own.        *)
Target(p) ==
  /\ op[p].kind = "sbrk" => op[p].s = <<p, "cur">>
  /\ op[p].kind = "fork" => \E c \in Procs : op[p].s = <<c, "cur">> /\ state[c] = "embryo"
  /\ op[p].kind \in {"exec", "stack"} => op[p].s = <<p, "new">>
ForksApart == \A p, q \in Procs :
  p # q /\ op[p].kind = "fork" /\ op[q].kind = "fork" => op[p].s # op[q].s

(* How far it has come with it.                                            *)
Phase(p) ==
  /\ op[p].pc = "user" => op[p] = NoOp
  /\ op[p].pc # "user" => state[p] = "run" /\ op[p].kind # "none"
  /\ op[p].pc \in {"dir", "kernel"} => op[p].kind \in {"fork", "exec"} /\ NoTables(op[p].s)
  /\ op[p].pc = "dir" => dir[op[p].s] = 0
  /\ op[p].pc \in {"kernel", "alloc", "map"} => dir[op[p].s] # 0
  /\ op[p].pc = "map" => op[p].a < op[p].new /\ op[p].new < KERNBASE
  /\ op[p].mem # 0 <=> op[p].pc = "map"

SlotInv(p) == Owns(p) /\ Target(p) /\ Phase(p)
PageInv == Conserved(free, Hold) /\ Types /\ ForksApart /\ \A p \in Procs : SlotInv(p)
-----------------------------------------------------------------------------
(* Units and pages                                                         *)

(* Multiplying by the page size keeps the order.                           *)
LEMMA TimesLess ==
  ASSUME NEW P \in Nat \ {0}, NEW v \in Int, NEW k \in Int
  PROVE  /\ v * P \in Int /\ k * P \in Int
         /\ v * P < k * P <=> v < k
         /\ v * P < (k * P) + P <=> v <= k
<1>1. v * P \in Int /\ k * P \in Int
  OBVIOUS
<1>2. ASSUME NEW i \in Int, NEW j \in Int, i < j PROVE i * P < j * P
  <2>1. PICK d \in Int : d = j - i /\ d >= 1
    BY <1>2
  <2>2. j * P = (i * P) + (d * P) /\ d * P >= P
    BY <2>1
  <2>3. QED
    BY <2>2
<1>3. v * P < k * P <=> v < k
  BY <1>1, <1>2
<1>4. (k * P) + P = (k + 1) * P /\ k + 1 \in Int
  OBVIOUS
<1>5. v * P < (k + 1) * P <=> v < k + 1
  <2>1. PICK m \in Int : m = k + 1
    OBVIOUS
  <2>2. v < m => v * P < m * P
    BY <1>2
  <2>3. m < v => m * P < v * P
    BY <1>2
  <2>4. m * P \in Int
    OBVIOUS
  <2>5. v * P < m * P <=> v < m
    BY <1>1, <2>2, <2>3, <2>4
  <2>6. QED
    BY <2>1, <2>5
<1>6. QED
  BY <1>1, <1>3, <1>4, <1>5

(* PGROUNDUP gives the end of the last page that starts below n.           *)
LEMMA RoundUp ==
  ASSUME NEW n \in Nat
  PROVE  \E m \in Nat : /\ PGROUNDUP(n) = m * PGSIZE
                        /\ PGROUNDUP(n) \in Nat
                        /\ n <= PGROUNDUP(n) /\ PGROUNDUP(n) < n + PGSIZE
<1>1. PGSIZE \in Nat \ {0}
  BY MemoryConstants
<1>2. PICK P \in Nat \ {0} : P = PGSIZE
  BY <1>1
<1>3. PICK b \in Int : b = n + P - 1 /\ b >= 0
  OBVIOUS
<1>4. b % P \in 0..(P - 1) /\ b \div P \in Int /\ b = (P * (b \div P)) + (b % P)
  BY DivMod
<1>5. PICK m \in Int : m = b \div P
  BY <1>4
<1>6. PICK r \in 0..(P - 1) : r = b % P /\ b = (P * m) + r
  BY <1>4, <1>5
<1>7. P * m = m * P /\ m * P \in Int
  OBVIOUS
<1>8. m >= 0
  <2>1. ASSUME m <= -1 PROVE FALSE
    <3>1. P * m <= -P
      BY <2>1
    <3>2. QED
      BY <1>3, <1>6, <3>1
  <2>2. QED
    BY <2>1
<1>9. n <= m * P /\ m * P < n + P
  BY <1>3, <1>6, <1>7
<1>10. PGROUNDUP(n) = m * PGSIZE
  BY <1>2, <1>3, <1>5 DEF PGROUNDUP
<1>11. QED
  BY <1>2, <1>7, <1>8, <1>9, <1>10

(* The pages of the user part are those that start below KERNBASE.         *)
LEMMA KernbaseIs ==
  \E K \in Nat : K * PGSIZE = KERNBASE /\ VPages = 0..(K - 1) /\ K = KERNBASE \div PGSIZE
<1>1. /\ PGSIZE \in Nat \ {0} /\ NPTENTRIES \in Nat \ {0} /\ KERNBASE \in Nat
      /\ KERNBASE % (PGSIZE * NPTENTRIES) = 0
  BY MemoryConstants
<1>2. PICK P \in Nat \ {0}, B \in Int, w \in Nat \ {0} :
        P = PGSIZE /\ B = KERNBASE /\ w = P * NPTENTRIES /\ B >= 0
  <2>1. PGSIZE * NPTENTRIES \in Nat \ {0}
    BY <1>1
  <2>2. QED
    BY <1>1, <2>1
<1>3. PICK q \in Int, r \in 0..(w - 1) : B = (w * q) + r /\ B % w = r
  BY Division
<1>4. B = w * q
  BY <1>1, <1>2, <1>3
<1>5. PICK m \in Int : m = NPTENTRIES * q
  BY <1>1
<1>6. B = P * m
  <2>1. w * q = P * m
    BY <1>1, <1>2, <1>5
  <2>2. QED
    BY <1>4, <2>1
<1>7. B \div P \in Int /\ B = (P * (B \div P)) + (B % P) /\ B % P \in 0..(P - 1)
  BY DivMod
<1>8. PICK K \in Int, z \in 0..(P - 1) : K = B \div P /\ B = (P * K) + z /\ z = B % P
  BY <1>7
<1>9. z = 0
  <2>1. P * (m - K) = z /\ m - K \in Int
    BY <1>6, <1>8
  <2>2. PICK d \in Int : d = m - K /\ P * d = z
    BY <2>1
  <2>3. P * d < P /\ -P < P * d
    BY <2>2
  <2>4. d = 0
    BY <2>3, SmallMultiple
  <2>5. QED
    BY <2>2, <2>4
<1>10. K * P = B
  BY <1>8, <1>9
<1>11. K >= 0
  <2>1. ASSUME K <= -1 PROVE FALSE
    <3>1. P * K <= -P
      BY <2>1
    <3>2. QED
      BY <1>2, <1>8, <1>9, <3>1
  <2>2. QED
    BY <2>1
<1>12. VPages = 0..((B \div P) - 1)
  BY <1>2 DEF VPages
<1>13. K = KERNBASE \div PGSIZE /\ VPages = 0..(K - 1)
  BY <1>2, <1>8, <1>12, Zenon
<1>14. K \in Nat
  BY <1>11
<1>15. K * PGSIZE = KERNBASE
  BY <1>2, <1>10, Zenon
<1>16. QED
  BY <1>13, <1>14, <1>15, Zenon

(* An address below KERNBASE lies in a page of the user part, under one of *)
(* the page tables.                                                        *)
LEMMA PageOf ==
  ASSUME NEW a \in Nat, a < KERNBASE
  PROVE  a \div PGSIZE \in VPages /\ PDX(a) \in Tables
<1>1. PGSIZE \in Nat \ {0} /\ NPTENTRIES \in Nat \ {0} /\ KERNBASE \in Nat
  BY MemoryConstants
<1>2. ASSUME NEW n \in Nat \ {0}, NEW x \in Int, NEW y \in Int, 0 <= x, x <= y
      PROVE  x \div n \in Int /\ y \div n \in Int /\ 0 <= x \div n /\ x \div n <= y \div n
  <2>1. PICK i \in Int, r \in 0..(n - 1) : i = x \div n /\ x = (n * i) + r
    BY DivMod
  <2>2. PICK j \in Int, u \in 0..(n - 1) : j = y \div n /\ y = (n * j) + u
    BY DivMod
  <2>3. ASSUME i <= -1 PROVE FALSE
    <3>1. n * i <= -n
      BY <2>3
    <3>2. QED
      BY <1>2, <2>1, <3>1
  <2>4. ASSUME j < i PROVE FALSE
    <3>1. PICK d \in Int : d = i - j /\ d >= 1
      BY <2>4
    <3>2. n * i = (n * j) + (n * d) /\ n * d >= n
      BY <3>1
    <3>3. QED
      BY <1>2, <2>1, <2>2, <3>2
  <2>5. QED
    BY <2>1, <2>2, <2>3, <2>4
<1>3. PICK b \in Int : b = a /\ 0 <= b
  OBVIOUS
<1>4. PDX(a) \in Tables
  <2>1. PICK w \in Nat \ {0} : w = PGSIZE * NPTENTRIES
    <3>1. PGSIZE * NPTENTRIES \in Nat \ {0}
      BY <1>1
    <3>2. QED
      BY <3>1
  <2>2. PICK y \in Int : y = KERNBASE /\ b <= y
    BY <1>1, <1>3
  <2>3. b \div w \in Int /\ y \div w \in Int /\ 0 <= b \div w /\ b \div w <= y \div w
    BY <1>2, <1>3, <2>2
  <2>4. b \div w \in 0..(y \div w)
    BY <2>3
  <2>5. QED
    BY <1>3, <2>1, <2>2, <2>4, Zenon DEF PDX, Tables, KernelTable
<1>5. PICK K \in Nat : K * PGSIZE = KERNBASE /\ VPages = 0..(K - 1) /\ K = KERNBASE \div PGSIZE
  BY KernbaseIs
<1>6. PICK P \in Nat \ {0} : P = PGSIZE
  BY <1>1
<1>7. PICK i \in Int, r \in 0..(P - 1) : i = b \div P /\ b = (P * i) + r
  BY DivMod
<1>8. i >= 0
  <2>1. ASSUME i <= -1 PROVE FALSE
    <3>1. P * i <= -P
      BY <2>1
    <3>2. QED
      BY <1>3, <1>7, <3>1
  <2>2. QED
    BY <2>1
<1>9. i < K
  <2>1. P * i = i * P /\ K * P = KERNBASE /\ i * P < K * P
    BY <1>3, <1>5, <1>6, <1>7
  <2>2. QED
    BY <2>1, TimesLess
<1>10. i \in 0..(K - 1)
  BY <1>8, <1>9
<1>11. a \div PGSIZE \in VPages
  BY <1>3, <1>5, <1>6, <1>7, <1>10, Zenon
<1>12. QED
  BY <1>4, <1>11

(* The kernel part lies under a page table of its own, which is not the    *)
(* first: that is the one of the user part.                                *)
LEMMA KernelTableIs == KernelTable \in Tables /\ 0 \in Tables /\ KernelTable # 0
<1>1. /\ PGSIZE \in Nat \ {0} /\ NPTENTRIES \in Nat \ {0} /\ KERNBASE \in Nat \ {0}
      /\ KERNBASE % (PGSIZE * NPTENTRIES) = 0
  BY MemoryConstants
<1>2. PICK w \in Nat \ {0}, B \in Int : w = PGSIZE * NPTENTRIES /\ B = KERNBASE /\ B > 0
  <2>1. PGSIZE * NPTENTRIES \in Nat \ {0}
    BY <1>1
  <2>2. QED
    BY <1>1, <2>1
<1>3. PICK i \in Int, r \in 0..(w - 1) : i = B \div w /\ r = B % w /\ B = (w * i) + r
  BY DivMod
<1>4. r = 0
  BY <1>1, <1>2, <1>3, Zenon
<1>5. i >= 1
  <2>1. ASSUME i <= 0 PROVE FALSE
    <3>1. w * i <= 0
      BY <2>1
    <3>2. QED
      BY <1>2, <1>3, <1>4, <3>1
  <2>2. QED
    BY <2>1
<1>6. KernelTable = i
  BY <1>2, <1>3, Zenon DEF KernelTable
<1>7. QED
  BY <1>5, <1>6 DEF Tables

(* freevm() looks at every page of the user part.                          *)
LEMMA AllPages ==
  ASSUME NEW s
  PROVE  Mapped(s, 0, KERNBASE) = {v \in VPages : pte[s][v] # 0}
<1>1. ASSUME NEW v \in VPages PROVE PGROUNDUP(0) <= v * PGSIZE /\ v * PGSIZE < KERNBASE
  <2>1. PICK P \in Nat \ {0} : P = PGSIZE
    BY MemoryConstants
  <2>2. PICK K \in Nat : K * P = KERNBASE /\ VPages = 0..(K - 1)
    BY <2>1, KernbaseIs
  <2>3. PICK w \in Int : w = v /\ w >= 0 /\ w < K
    BY <2>2
  <2>4. w * P < K * P
    BY <2>3, TimesLess
  <2>5. PICK z \in Nat : z = 0
    OBVIOUS
  <2>6. PICK m \in Nat : /\ PGROUNDUP(z) = m * P /\ PGROUNDUP(z) < z + P
    BY <2>1, RoundUp
  <2>7. m * P < (0 * P) + P
    BY <2>5, <2>6
  <2>8. m <= 0
    BY <2>7, TimesLess
  <2>9. m = 0 /\ m * P = 0
    BY <2>8
  <2>10. w * P >= 0
    BY <2>3
  <2>11. QED
    BY <2>1, <2>2, <2>3, <2>4, <2>5, <2>6, <2>9, <2>10
<1>2. QED
  BY <1>1 DEF Mapped

(* kalloc() gives a free page.                                             *)
LEMMA PageIsFree ==
  ASSUME free \subseteq Pages, HavePage
  PROVE  Page \in free
<1>1. PICK R : R = OpToRel(<, Nat)
  BY Zenon
<1>2. IsWellFoundedOn(R, Nat)
  BY <1>1, NatLessThanWellFounded, Zenon
<1>3. PICK F : F = free /\ F \subseteq Nat /\ F # {}
  <2>1. Pages \subseteq Nat
    BY MemoryConstants DEF Pages
  <2>2. QED
    BY <2>1 DEF HavePage
<1>4. PICK m \in F : \A k \in F : <<k, m>> \notin R
  BY <1>2, <1>3, WFMin
<1>5. ASSUME NEW k \in F PROVE m <= k
  <2>1. k \in Nat /\ m \in Nat
    BY <1>3
  <2>2. k < m => <<k, m>> \in R
    BY <1>1, <2>1 DEF OpToRel
  <2>3. QED
    BY <1>4, <2>1, <2>2
<1>6. QED
  BY <1>3, <1>4, <1>5 DEF Page, Min
-----------------------------------------------------------------------------
(* Pages change hands                                                      *)

(* No page is the null pointer.                                            *)
LEMMA NotNull == 0 \notin Pages
BY MemoryConstants DEF Pages

(* kalloc(): a free page gets a place that held none.                      *)
LEMMA Take ==
  ASSUME NEW F, NEW H, Conserved(F, H), NEW g \in F, NEW x \in Places, H[x] = 0,
         NEW G, G \in [Places -> Pages \cup {0}], G[x] = g,
         \A y \in Places \ {x} : G[y] = H[y]
  PROVE  Conserved(F \ {g}, G)
<1> USE DEF Conserved
<1>1. g \in Pages /\ g # 0
  BY NotNull
<1>2. ASSUME NEW y \in Places PROVE G[y] \notin F \ {g}
  BY <1>1
<1>3. ASSUME NEW y \in Places, NEW z \in Places, G[y] = G[z], G[y] # 0 PROVE y = z
  <2>1. CASE y = x /\ z # x
    BY <1>3, <2>1
  <2>2. CASE z = x /\ y # x
    BY <1>3, <2>2
  <2>3. CASE y # x /\ z # x
    BY <1>3, <2>3
  <2>4. QED
    BY <2>1, <2>2, <2>3
<1>4. ASSUME NEW h \in Pages, h \notin F \ {g} PROVE \E y \in Places : G[y] = h
  <2>1. CASE h = g
    BY <2>1
  <2>2. CASE h # g
    <3>1. PICK y \in Places : H[y] = h
      BY <1>4, <2>2
    <3>2. y # x
      BY <3>1, NotNull
    <3>3. QED
      BY <3>1, <3>2
  <2>3. QED
    BY <2>1, <2>2
<1>5. QED
  BY <1>2, <1>3, <1>4

(* kfree(): the pages of some places go back to the free list.             *)
LEMMA Give ==
  ASSUME NEW F, NEW H, Conserved(F, H), NEW X, X \subseteq Places,
         NEW G, G \in [Places -> Pages \cup {0}],
         \A y \in X : G[y] = 0, \A y \in Places \ X : G[y] = H[y]
  PROVE  Conserved(F \cup ({H[y] : y \in X} \ {0}), G)
<1> USE DEF Conserved
<1> DEFINE E == F \cup ({H[y] : y \in X} \ {0})
<1>1. E \subseteq Pages
  OBVIOUS
<1>2. ASSUME NEW y \in Places PROVE G[y] \notin E
  <2>1. CASE y \in X
    BY <1>1, <2>1, NotNull
  <2>2. CASE y \notin X
    BY <2>2
  <2>3. QED
    BY <2>1, <2>2
<1>3. ASSUME NEW y \in Places, NEW z \in Places, G[y] = G[z], G[y] # 0 PROVE y = z
  BY <1>3
<1>4. ASSUME NEW h \in Pages, h \notin E PROVE \E y \in Places : G[y] = h
  <2>1. PICK y \in Places : H[y] = h
    BY <1>4
  <2>2. y \notin X
    BY <1>4, <2>1, NotNull
  <2>3. QED
    BY <2>1, <2>2
<1>5. QED
  BY <1>1, <1>2, <1>3, <1>4

(* A page goes from one place to another.                                  *)
LEMMA Move ==
  ASSUME NEW F, NEW H, Conserved(F, H), NEW x \in Places, NEW y \in Places, H[y] = 0, x # y,
         NEW G, G \in [Places -> Pages \cup {0}], G[x] = 0, G[y] = H[x],
         \A z \in Places \ {x, y} : G[z] = H[z]
  PROVE  Conserved(F, G)
<1> USE DEF Conserved
<1>1. ASSUME NEW z \in Places PROVE G[z] \notin F
  BY NotNull
<1>2. ASSUME NEW z \in Places, NEW w \in Places, G[z] = G[w], G[z] # 0 PROVE z = w
  BY <1>2
<1>3. ASSUME NEW h \in Pages, h \notin F PROVE \E z \in Places : G[z] = h
  <2>1. PICK z \in Places : H[z] = h
    BY <1>3
  <2>2. z # y
    BY <2>1, NotNull
  <2>3. QED
    BY <2>1, <2>2
<1>4. QED
  BY <1>1, <1>2, <1>3

(* Every page is free or in place, and none is in two: the numbers agree.  *)
LEMMA ConservedCount ==
  ASSUME Conserved(free, Hold)
  PROVE  /\ free \cup {Held(x) : x \in InPlace} = Pages
         /\ Cardinality(free) + Cardinality(InPlace) = NPAGES
<1>1. \A x \in Places : Hold[x] = Held(x)
  BY DEF Hold
<1>2. InPlace = {x \in Places : Hold[x] # 0}
  BY <1>1 DEF InPlace
<1>3. PICK H : H = Hold /\ Conserved(free, H)
  BY Zenon
<1>4. PICK I : I = InPlace /\ I = {x \in Places : H[x] # 0}
  BY <1>2, <1>3
<1>5. \A x \in I : H[x] = Held(x) /\ H[x] \in Pages \ free
  BY <1>1, <1>3, <1>4 DEF Conserved
<1>6. \A g \in Pages \ free : \E x \in I : H[x] = g
  BY <1>3, <1>4, NotNull DEF Conserved
<1>7. free \cup {Held(x) : x \in I} = Pages
  BY <1>3, <1>5, <1>6 DEF Conserved
<1>8. PICK f : f = [x \in I |-> H[x]]
  OBVIOUS
<1>9. f \in Bijection(I, Pages \ free)
  <2>1. f \in [I -> Pages \ free]
    BY <1>5, <1>8
  <2>2. \A x, y \in I : f[x] = f[y] => x = y
    BY <1>3, <1>4, <1>8 DEF Conserved
  <2>3. \A g \in Pages \ free : \E x \in I : f[x] = g
    BY <1>6, <1>8
  <2>4. QED
    BY <2>1, <2>2, <2>3 DEF Bijection, Injection, Surjection, IsInjective
<1>10. IsFiniteSet(Pages) /\ Cardinality(Pages) = NPAGES
  <2>1. 1 \in Int /\ NPAGES \in Int /\ NPAGES > 0
    BY MemoryConstants
  <2>2. QED
    BY <2>1, FS_Interval DEF Pages
<1>11. /\ IsFiniteSet(Pages \ free)
       /\ Cardinality(Pages \ free) = NPAGES - Cardinality(Pages \cap free)
  BY <1>10, FS_Difference
<1>12. Pages \cap free = free
  BY <1>3 DEF Conserved
<1>13. IsFiniteSet(I) /\ Cardinality(I) = Cardinality(Pages \ free)
  <2>1. ExistsBijection(I, Pages \ free)
    BY <1>9 DEF ExistsBijection
  <2>2. ExistsBijection(Pages \ free, I)
    BY <2>1, Fun_ExistsBijSymmetric
  <2>3. QED
    BY <1>11, <2>2, FS_Bijection
<1>14. Cardinality(free) \in Nat
  <2>1. IsFiniteSet(free)
    BY <1>10, <1>12, FS_Subset
  <2>2. QED
    BY <2>1, FS_CardinalityType
<1>15. NPAGES \in Nat
  BY MemoryConstants
<1>16. free \cup {Held(x) : x \in InPlace} = Pages
  BY <1>4, <1>7, Zenon
<1>17. Cardinality(InPlace) = NPAGES - Cardinality(free)
  BY <1>4, <1>11, <1>12, <1>13, Zenon
<1>18. QED
  BY <1>14, <1>15, <1>16, <1>17
-----------------------------------------------------------------------------
(* What the places hold after a step                                       *)

(* The places of an address space.                                         *)
SpacePlaces(s) == {<<"dir", s>>} \cup {<<"tab", s, t>> : t \in Tables}
                  \cup {<<"pte", s, v>> : v \in VPages}

(* Each place, field by field.                                             *)
HoldFields ==
  /\ \A p \in Procs : <<"kstack", p>> \in Places /\ Hold[<<"kstack", p>>] = kstack[p]
  /\ \A p \in Procs : <<"mem", p>> \in Places /\ Hold[<<"mem", p>>] = op[p].mem
  /\ \A s \in Spaces : <<"dir", s>> \in Places /\ Hold[<<"dir", s>>] = dir[s]
  /\ \A s \in Spaces, t \in Tables :
       <<"tab", s, t>> \in Places /\ Hold[<<"tab", s, t>>] = tab[s][t]
  /\ \A s \in Spaces, v \in VPages :
       <<"pte", s, v>> \in Places /\ Hold[<<"pte", s, v>>] = pte[s][v]

LEMMA HoldIs == HoldFields
<1>1. ASSUME NEW p \in Procs
      PROVE  <<"kstack", p>> \in Places /\ Hold[<<"kstack", p>>] = kstack[p]
  BY DEF Hold, Held, Places
<1>2. ASSUME NEW p \in Procs
      PROVE  <<"mem", p>> \in Places /\ Hold[<<"mem", p>>] = op[p].mem
  BY DEF Hold, Held, Places
<1>3. ASSUME NEW s \in Spaces
      PROVE  <<"dir", s>> \in Places /\ Hold[<<"dir", s>>] = dir[s]
  BY DEF Hold, Held, Places
<1>4. ASSUME NEW s \in Spaces, NEW t \in Tables
      PROVE  <<"tab", s, t>> \in Places /\ Hold[<<"tab", s, t>>] = tab[s][t]
  BY DEF Hold, Held, Places
<1>5. ASSUME NEW s \in Spaces, NEW v \in VPages
      PROVE  <<"pte", s, v>> \in Places /\ Hold[<<"pte", s, v>>] = pte[s][v]
  BY DEF Hold, Held, Places
<1>6. QED
  BY <1>1, <1>2, <1>3, <1>4, <1>5 DEF HoldFields

(* There are no other places.                                              *)
LEMMA PlaceKinds ==
  ASSUME NEW x \in Places
  PROVE  \/ \E p \in Procs : x = <<"kstack", p>>
         \/ \E p \in Procs : x = <<"mem", p>>
         \/ \E s \in Spaces : x = <<"dir", s>>
         \/ \E s \in Spaces, t \in Tables : x = <<"tab", s, t>>
         \/ \E s \in Spaces, v \in VPages : x = <<"pte", s, v>>
BY DEF Places

(* The places hold pages, or nothing.                                      *)
HoldOK == Hold \in [Places -> Pages \cup {0}]
LEMMA HoldType == Types => HoldOK
<1> SUFFICES ASSUME Types PROVE HoldOK
  OBVIOUS
<1>1. ASSUME NEW x \in Places PROVE Hold[x] \in Pages \cup {0}
  <2>1. CASE \E p \in Procs : x = <<"kstack", p>>
    BY <2>1, HoldIs DEF HoldFields, Types, Calls
  <2>2. CASE \E p \in Procs : x = <<"mem", p>>
    BY <2>2, HoldIs DEF HoldFields, Types, Calls
  <2>3. CASE \E s \in Spaces : x = <<"dir", s>>
    BY <2>3, HoldIs DEF HoldFields, Types, Calls
  <2>4. CASE \E s \in Spaces, t \in Tables : x = <<"tab", s, t>>
    BY <2>4, HoldIs DEF HoldFields, Types, Calls
  <2>5. CASE \E s \in Spaces, v \in VPages : x = <<"pte", s, v>>
    BY <2>5, HoldIs DEF HoldFields, Types, Calls
  <2>6. QED
    BY <2>1, <2>2, <2>3, <2>4, <2>5, PlaceKinds
<1>2. QED
  BY <1>1 DEF Hold, HoldOK

(* A step that leaves the fields outside X alone.                          *)
SameBut(X) ==
  /\ \A p \in Procs : <<"kstack", p>> \in X \/ kstack'[p] = kstack[p]
  /\ \A p \in Procs : <<"mem", p>> \in X \/ op'[p].mem = op[p].mem
  /\ \A s \in Spaces : <<"dir", s>> \in X \/ dir'[s] = dir[s]
  /\ \A s \in Spaces, t \in Tables : <<"tab", s, t>> \in X \/ tab'[s][t] = tab[s][t]
  /\ \A s \in Spaces, v \in VPages : <<"pte", s, v>> \in X \/ pte'[s][v] = pte[s][v]

LEMMA HoldSame ==
  ASSUME NEW X, SameBut(X)
  PROVE  \A y \in Places \ X : Hold'[y] = Hold[y]
<1>1. /\ \A p \in Procs : Hold'[<<"kstack", p>>] = kstack'[p]
      /\ \A p \in Procs : Hold'[<<"mem", p>>] = op'[p].mem
      /\ \A s \in Spaces : Hold'[<<"dir", s>>] = dir'[s]
      /\ \A s \in Spaces, t \in Tables : Hold'[<<"tab", s, t>>] = tab'[s][t]
      /\ \A s \in Spaces, v \in VPages : Hold'[<<"pte", s, v>>] = pte'[s][v]
  <2>1. HoldFields'
    BY HoldIs, PTL
  <2>2. QED
    BY <2>1 DEF HoldFields
<1>2. TAKE y \in Places \ X
<1>3. CASE \E p \in Procs : y = <<"kstack", p>>
  BY <1>1, <1>2, <1>3, HoldIs DEF HoldFields, SameBut
<1>4. CASE \E p \in Procs : y = <<"mem", p>>
  BY <1>1, <1>2, <1>4, HoldIs DEF HoldFields, SameBut
<1>5. CASE \E s \in Spaces : y = <<"dir", s>>
  BY <1>1, <1>2, <1>5, HoldIs DEF HoldFields, SameBut
<1>6. CASE \E s \in Spaces, t \in Tables : y = <<"tab", s, t>>
  BY <1>1, <1>2, <1>6, HoldIs DEF HoldFields, SameBut
<1>7. CASE \E s \in Spaces, v \in VPages : y = <<"pte", s, v>>
  BY <1>1, <1>2, <1>7, HoldIs DEF HoldFields, SameBut
<1>8. QED
  BY <1>3, <1>4, <1>5, <1>6, <1>7, PlaceKinds

(* The three things a step does with pages.                                *)
LEMMA StepSame ==
  ASSUME Conserved(free, Hold), Types', SameBut({}), free' = free
  PROVE  Conserved(free, Hold)'
<1>1. \A y \in Places : Hold'[y] = Hold[y]
  BY HoldSame
<1>2. Hold' \in [Places -> Pages \cup {0}]
  <2>1. HoldOK'
    BY HoldType, PTL
  <2>2. QED
    BY <2>1 DEF HoldOK
<1>3. Hold' = Hold
  BY <1>1, <1>2 DEF Conserved
<1>4. Conserved(free', Hold')
  BY <1>3, Zenon
<1>5. QED
  BY <1>4 DEF Conserved

LEMMA StepTake ==
  ASSUME Conserved(free, Hold), Types', HavePage, free' = free \ {Page},
         NEW x \in Places, Hold[x] = 0, Hold'[x] = Page, SameBut({x})
  PROVE  Conserved(free, Hold)'
<1>1. \A y \in Places \ {x} : Hold'[y] = Hold[y]
  BY HoldSame
<1>2. Hold' \in [Places -> Pages \cup {0}]
  <2>1. HoldOK'
    BY HoldType, PTL
  <2>2. QED
    BY <2>1 DEF HoldOK
<1>3. Page \in free
  BY PageIsFree DEF Conserved
<1>4. PICK F, H, G, g : F = free /\ H = Hold /\ G = Hold' /\ g = Page
  BY Zenon
<1>5. /\ Conserved(F, H) /\ g \in F /\ H[x] = 0 /\ G[x] = g
      /\ G \in [Places -> Pages \cup {0}] /\ \A y \in Places \ {x} : G[y] = H[y]
  BY <1>1, <1>2, <1>3, <1>4
<1>6. Conserved(F \ {g}, G)
  BY <1>5, Take
<1>7. Conserved(free', Hold')
  BY <1>4, <1>6
<1>8. QED
  BY <1>7 DEF Conserved

LEMMA StepGive ==
  ASSUME Conserved(free, Hold), Types', NEW X, X \subseteq Places, SameBut(X),
         \A y \in X : Hold'[y] = 0,
         free' = free \cup ({Hold[y] : y \in X} \ {0})
  PROVE  Conserved(free, Hold)'
<1>1. \A y \in Places \ X : Hold'[y] = Hold[y]
  BY HoldSame
<1>2. Hold' \in [Places -> Pages \cup {0}]
  <2>1. HoldOK'
    BY HoldType, PTL
  <2>2. QED
    BY <2>1 DEF HoldOK
<1>3. PICK F, H, G : F = free /\ H = Hold /\ G = Hold'
  BY Zenon
<1>4. /\ Conserved(F, H) /\ \A y \in X : G[y] = 0
      /\ G \in [Places -> Pages \cup {0}] /\ \A y \in Places \ X : G[y] = H[y]
  BY <1>1, <1>2, <1>3
<1>5. Conserved(F \cup ({H[y] : y \in X} \ {0}), G)
  BY <1>4, Give
<1>6. Conserved(free', Hold')
  BY <1>3, <1>5, Zenon
<1>7. QED
  BY <1>6 DEF Conserved

(* What freevm() frees is what the places of the space hold.               *)
LEMMA SpaceHolds ==
  ASSUME Types, NEW s \in Spaces
  PROVE  /\ SpacePlaces(s) \subseteq Places
         /\ {Hold[y] : y \in SpacePlaces(s)} \ {0} = GivenBack(s)
<1>1. SpacePlaces(s) \subseteq Places
  BY DEF SpacePlaces, Places
<1>2. /\ Hold[<<"dir", s>>] = dir[s]
      /\ \A t \in Tables : Hold[<<"tab", s, t>>] = tab[s][t]
      /\ \A v \in VPages : Hold[<<"pte", s, v>>] = pte[s][v]
  BY HoldIs DEF HoldFields
<1>3. Mapped(s, 0, KERNBASE) = {v \in VPages : pte[s][v] # 0}
  BY AllPages
<1>4. ASSUME NEW g
      PROVE  g \in {Hold[y] : y \in SpacePlaces(s)} /\ g # 0 <=> g \in GivenBack(s)
  <2>1. g \in {Hold[y] : y \in SpacePlaces(s)} <=>
          \/ g = dir[s]
          \/ \E t \in Tables : g = tab[s][t]
          \/ \E v \in VPages : g = pte[s][v]
    BY <1>2 DEF SpacePlaces
  <2>2. g \in GivenBack(s) <=>
          /\ g # 0
          /\ \/ g = dir[s]
             \/ \E t \in Tables : g = tab[s][t]
             \/ \E v \in VPages : g = pte[s][v]
    BY <1>3 DEF GivenBack, WholeSpace, UserPart, TablesFreed
  <2>3. QED
    BY <2>1, <2>2
<1>5. QED
  BY <1>1, <1>4

-----------------------------------------------------------------------------
(* Two calls do not meet                                                   *)

(* Two calls at work never build the same space.                           *)
LEMMA TargetsApart ==
  ASSUME PageInv, NEW p \in Procs, NEW q \in Procs, p # q,
         op[p].pc # "user", op[q].pc # "user"
  PROVE  op[p].s # op[q].s
<1>1. op[p].kind \in Kinds \ {"none"} /\ op[q].kind \in Kinds \ {"none"}
  BY DEF PageInv, SlotInv, Phase, Types, Calls
<1>2. state[p] = "run" /\ state[q] = "run"
  BY DEF PageInv, SlotInv, Phase
<1>3. Target(p) /\ Target(q)
  BY DEF PageInv, SlotInv
<1>4. CASE op[p].kind = "fork" /\ op[q].kind = "fork"
  BY <1>4 DEF PageInv, ForksApart
<1>5. CASE op[p].kind # "fork" /\ op[q].kind # "fork"
  BY <1>1, <1>3, <1>5 DEF Target, Kinds
<1>6. CASE op[p].kind = "fork" /\ op[q].kind # "fork"
  BY <1>1, <1>2, <1>3, <1>6 DEF Target, Kinds
<1>7. CASE op[p].kind # "fork" /\ op[q].kind = "fork"
  BY <1>1, <1>2, <1>3, <1>7 DEF Target, Kinds
<1>8. QED
  BY <1>4, <1>5, <1>6, <1>7

(* The space a call builds is its own, or its child's.                     *)
LEMMA TargetIs ==
  ASSUME PageInv, NEW p \in Procs, op[p].pc # "user"
  PROVE  /\ op[p].s \in Spaces /\ state[p] = "run" /\ op[p] \in Calls /\ op[p].kind # "none"
         /\ \A q \in Procs \ {p} : op[p].s # <<q, "new">>
         /\ \A q \in Procs \ {p} : op[p].s = <<q, "cur">> => state[q] = "embryo"
         /\ op[p].s = <<p, "cur">> => op[p].kind = "sbrk"
         /\ op[p].s = <<p, "new">> => op[p].kind \in {"exec", "stack"}
<1>1. op[p].kind \in Kinds \ {"none"} /\ op[p].s \in Spaces /\ op[p] \in Calls
  BY DEF PageInv, SlotInv, Phase, Types, Calls
<1>2. state[p] = "run" /\ Target(p)
  BY DEF PageInv, SlotInv, Phase
<1>3. QED
  BY <1>1, <1>2 DEF Target, Kinds

(* A step that leaves alone what a slot is about keeps its invariant.      *)
SpaceSame(s) == dir'[s] = dir[s] /\ tab'[s] = tab[s] /\ pte'[s] = pte[s]

LEMMA SlotKept ==
  ASSUME NEW q \in Procs, SlotInv(q), op'[q] = op[q], state'[q] = state[q],
         kstack'[q] = kstack[q], SpaceSame(<<q, "cur">>) \/ state[q] = "embryo",
         SpaceSame(<<q, "new">>), op[q].pc # "user" => SpaceSame(op[q].s),
         \A c \in Procs : op[q].kind = "fork" /\ op[q].s = <<c, "cur">> /\ state[c] = "embryo"
            => state'[c] = state[c]
  PROVE  SlotInv(q)'
<1>1. Owns(q)'
  BY DEF SlotInv, Owns, SpaceSame, Empty, NoTables
<1>2. Target(q)'
  BY DEF SlotInv, Target
<1>3. Phase(q)'
  BY DEF SlotInv, Phase, SpaceSame, NoTables
<1>4. QED
  BY <1>1, <1>2, <1>3 DEF SlotInv

(* A step of a call in the space it builds leaves the other slots alone.   *)
LEMMA OthersKept ==
  ASSUME PageInv, NEW p \in Procs, op[p].pc # "user",
         \A s \in Spaces \ {op[p].s} : SpaceSame(s),
         NEW q \in Procs \ {p}, op'[q] = op[q], state'[q] = state[q], kstack'[q] = kstack[q],
         \A c \in Procs : <<c, "cur">> # op[p].s => state'[c] = state[c]
  PROVE  SlotInv(q)'
<1>1. SlotInv(q)
  BY DEF PageInv
<1>2. <<q, "cur">> \in Spaces /\ <<q, "new">> \in Spaces
  BY DEF Spaces
<1>3. SpaceSame(<<q, "new">>) /\ (SpaceSame(<<q, "cur">>) \/ state[q] = "embryo")
  BY <1>2, TargetIs
<1>4. op[q].pc # "user" => SpaceSame(op[q].s)
  <2>1. op[q].pc # "user" => op[q].s \in Spaces \ {op[p].s}
    BY TargetsApart, TargetIs
  <2>2. QED
    BY <2>1
<1>5. ASSUME NEW c \in Procs, op[q].kind = "fork", op[q].s = <<c, "cur">>
      PROVE  state'[c] = state[c]
  <2>1. op[q].pc # "user"
    BY <1>1, <1>5 DEF SlotInv, Phase, NoOp
  <2>2. <<c, "cur">> # op[p].s
    BY <1>5, <2>1, TargetsApart
  <2>3. QED
    BY <2>2
<1>6. QED
  BY <1>1, <1>3, <1>4, <1>5, SlotKept

(* The child that copyuvm() works for keeps its invariant.                 *)
LEMMA ForksKept ==
  ASSUME PageInv, NEW p \in Procs, \A q \in Procs \ {p} : op'[q] = op[q],
         op'[p].kind = "fork" => op[p].kind = "fork" /\ op'[p].s = op[p].s
  PROVE  ForksApart'
BY DEF PageInv, ForksApart
-----------------------------------------------------------------------------
(* Steps that build a space                                                *)

(* kalloc() in allocuvm() and copyuvm().                                   *)
LEMMA AllocInv ==
  ASSUME PageInv, NEW p \in Procs, Alloc(p)
  PROVE  PageInv'
<1>1. /\ state[p] = "run" /\ op[p].pc = "alloc" /\ op[p].a < op[p].new /\ op[p].new < KERNBASE
      /\ HavePage /\ free' = free \ {Page} /\ UNCHANGED <<state, kstack, sz, spaceVars>>
  BY DEF Alloc, At
<1>2. Page \in free /\ Page \in Pages /\ Page # 0
  BY <1>1, PageIsFree, NotNull DEF PageInv, Conserved
<1>3. PICK r : /\ op' = [op EXCEPT ![p] = r] /\ r \in Calls /\ r.mem = Page /\ r.pc = "map"
               /\ r.kind = op[p].kind /\ r.s = op[p].s /\ r.a = op[p].a /\ r.new = op[p].new
  <2>1. op[p] \in Calls
    BY <1>1, TargetIs
  <2>2. PICK r : r = [op[p] EXCEPT !.mem = Page, !.pc = "map"]
    OBVIOUS
  <2>3. op' = [op EXCEPT ![p] = r]
    BY <2>2 DEF Alloc
  <2>4. /\ r \in Calls /\ r.mem = Page /\ r.pc = "map"
        /\ r.kind = op[p].kind /\ r.s = op[p].s /\ r.a = op[p].a /\ r.new = op[p].new
    BY <1>2, <2>1, <2>2 DEF Calls, PCs
  <2>5. QED
    BY <2>3, <2>4, Zenon
<1>4. op'[p] = r /\ \A q \in Procs \ {p} : op'[q] = op[q]
  BY <1>3 DEF PageInv, Types
<1>5. Types'
  BY <1>1, <1>3 DEF PageInv, Types, spaceVars
<1>6. Conserved(free, Hold)'
  <2>1. PICK x : x = <<"mem", p>> /\ x \in Places
    BY HoldIs DEF HoldFields
  <2>2. Hold[x] = 0
    BY <1>1, <2>1, HoldIs DEF HoldFields, PageInv, SlotInv, Phase
  <2>3. Hold'[x] = Page
    <3>1. HoldFields'
      BY HoldIs, PTL
    <3>2. QED
      BY <1>3, <1>4, <2>1, <3>1 DEF HoldFields
  <2>4. SameBut({x})
    BY <1>1, <1>4, <2>1 DEF SameBut, spaceVars
  <2>5. QED
    BY <1>1, <1>5, <2>1, <2>2, <2>3, <2>4, StepTake DEF PageInv
<1>7. ForksApart'
  BY <1>3, <1>4, ForksKept
<1>8. ASSUME NEW q \in Procs \ {p} PROVE SlotInv(q)'
  BY <1>1, <1>4, OthersKept DEF SpaceSame, spaceVars
<1>9. SlotInv(p)'
  <2>1. SlotInv(p)
    BY DEF PageInv
  <2>2. Owns(p)'
    BY <1>1, <1>3, <1>4, <2>1 DEF SlotInv, Owns, Empty, NoTables, spaceVars
  <2>3. Target(p)'
    BY <1>1, <1>3, <1>4, <2>1 DEF SlotInv, Target
  <2>4. Phase(p)'
    BY <1>1, <1>2, <1>3, <1>4, <2>1 DEF SlotInv, Phase, spaceVars
  <2>5. QED
    BY <2>2, <2>3, <2>4 DEF SlotInv
<1>10. QED
  BY <1>5, <1>6, <1>7, <1>8, <1>9 DEF PageInv

(* setupkvm(): the page directory.                                         *)
LEMMA SetupDirInv ==
  ASSUME PageInv, NEW p \in Procs, SetupDir(p)
  PROVE  PageInv'
<1>1. /\ state[p] = "run" /\ op[p].pc = "dir" /\ HavePage /\ free' = free \ {Page}
      /\ dir' = [dir EXCEPT ![op[p].s] = Page] /\ UNCHANGED <<state, kstack, sz, tab, pte>>
  BY DEF SetupDir, At
<1>2. Page \in Pages /\ Page # 0
  BY <1>1, PageIsFree, NotNull DEF PageInv, Conserved
<1>3. PICK r : /\ op' = [op EXCEPT ![p] = r] /\ r \in Calls /\ r.mem = op[p].mem
               /\ r.pc = "kernel" /\ r.kind = op[p].kind /\ r.s = op[p].s
  <2>1. PICK r : r = [op[p] EXCEPT !.pc = "kernel"]
    OBVIOUS
  <2>2. op' = [op EXCEPT ![p] = r]
    BY <2>1 DEF SetupDir, Goto
  <2>3. /\ r \in Calls /\ r.mem = op[p].mem
        /\ r.pc = "kernel" /\ r.kind = op[p].kind /\ r.s = op[p].s
    BY <1>1, <2>1, TargetIs DEF Calls, PCs
  <2>4. QED
    BY <2>2, <2>3, Zenon
<1>4. op'[p] = r /\ \A q \in Procs \ {p} : op'[q] = op[q]
  BY <1>3 DEF PageInv, Types
<1>5. PICK s \in Spaces : s = op[p].s
  BY <1>1, TargetIs
<1>6. dir[s] = 0 /\ dir'[s] = Page /\ \A u \in Spaces \ {s} : dir'[u] = dir[u]
  BY <1>1, <1>5 DEF PageInv, SlotInv, Phase, Types
<1>7. Types'
  BY <1>1, <1>2, <1>3, <1>5 DEF PageInv, Types
<1>8. Conserved(free, Hold)'
  <2>1. PICK x : x = <<"dir", s>> /\ x \in Places /\ Hold[x] = 0
    BY <1>6, HoldIs DEF HoldFields
  <2>2. Hold'[x] = Page
    <3>1. HoldFields'
      BY HoldIs, PTL
    <3>2. QED
      BY <1>6, <2>1, <3>1 DEF HoldFields
  <2>3. SameBut({x})
    BY <1>1, <1>3, <1>4, <1>6, <2>1 DEF SameBut
  <2>4. QED
    BY <1>1, <1>7, <2>1, <2>2, <2>3, StepTake DEF PageInv
<1>9. ForksApart'
  BY <1>3, <1>4, ForksKept
<1>10. ASSUME NEW q \in Procs \ {p} PROVE SlotInv(q)'
  BY <1>1, <1>4, <1>5, <1>6, OthersKept DEF SpaceSame
<1>11. SlotInv(p)'
  <2>1. SlotInv(p)
    BY DEF PageInv
  <2>2. op[p].kind \in {"fork", "exec"}
    BY <1>1, <2>1 DEF SlotInv, Phase
  <2>3. Target(p)'
    BY <1>1, <1>3, <1>4, <2>1 DEF SlotInv, Target
  <2>4. Owns(p)'
    <3>1. s # <<p, "cur">> /\ (op[p].kind = "fork" => s # <<p, "new">>)
      BY <1>1, <1>5, <2>2, TargetIs
    <3>2. <<p, "cur">> \in Spaces /\ <<p, "new">> \in Spaces
      BY DEF Spaces
    <3>3. QED
      BY <1>1, <1>3, <1>4, <1>6, <2>1, <2>2, <3>1, <3>2 DEF SlotInv, Owns, Empty, NoTables
  <2>5. Phase(p)'
    BY <1>1, <1>2, <1>3, <1>4, <1>5, <1>6, <2>1 DEF SlotInv, Phase, NoTables
  <2>6. QED
    BY <2>3, <2>4, <2>5 DEF SlotInv
<1>12. QED
  BY <1>7, <1>8, <1>9, <1>10, <1>11 DEF PageInv

(* setupkvm(): the table of the kernel part.                               *)
LEMMA SetupKernelInv ==
  ASSUME PageInv, NEW p \in Procs, SetupKernel(p)
  PROVE  PageInv'
<1>1. /\ state[p] = "run" /\ op[p].pc = "kernel" /\ HavePage /\ free' = free \ {Page}
      /\ tab' = [tab EXCEPT ![op[p].s][KernelTable] = Page]
      /\ UNCHANGED <<state, kstack, sz, dir, pte>>
  BY DEF SetupKernel, At
<1>2. Page \in Pages /\ Page # 0
  BY <1>1, PageIsFree, NotNull DEF PageInv, Conserved
<1>3. PICK r : /\ op' = [op EXCEPT ![p] = r] /\ r \in Calls /\ r.mem = op[p].mem
               /\ r.pc = "alloc" /\ r.kind = op[p].kind /\ r.s = op[p].s
  <2>1. PICK r : r = [op[p] EXCEPT !.pc = "alloc"]
    OBVIOUS
  <2>2. op' = [op EXCEPT ![p] = r]
    BY <2>1 DEF SetupKernel, Goto
  <2>3. /\ r \in Calls /\ r.mem = op[p].mem
        /\ r.pc = "alloc" /\ r.kind = op[p].kind /\ r.s = op[p].s
    BY <1>1, <2>1, TargetIs DEF Calls, PCs
  <2>4. QED
    BY <2>2, <2>3, Zenon
<1>4. op'[p] = r /\ \A q \in Procs \ {p} : op'[q] = op[q]
  BY <1>3 DEF PageInv, Types
<1>5. PICK s \in Spaces, k \in Tables : s = op[p].s /\ k = KernelTable
  BY <1>1, TargetIs, KernelTableIs
<1>6. /\ tab[s][k] = 0 /\ tab'[s][k] = Page
      /\ \A t \in Tables \ {k} : tab'[s][t] = tab[s][t]
      /\ \A u \in Spaces \ {s} : tab'[u] = tab[u]
  BY <1>1, <1>5 DEF PageInv, SlotInv, Phase, NoTables, Types
<1>7. Types'
  <2>1. tab' \in [Spaces -> [Tables -> Pages \cup {0}]]
    BY <1>1, <1>2, <1>5 DEF PageInv, Types
  <2>2. op' \in [Procs -> Calls]
    BY <1>3 DEF PageInv, Types
  <2>3. QED
    BY <1>1, <2>1, <2>2 DEF PageInv, Types
<1>8. Conserved(free, Hold)'
  <2>1. PICK x : x = <<"tab", s, k>> /\ x \in Places /\ Hold[x] = 0
    <3>1. <<"tab", s, k>> \in Places /\ Hold[<<"tab", s, k>>] = tab[s][k]
      BY HoldIs DEF HoldFields
    <3>2. QED
      BY <1>6, <3>1, Zenon
  <2>2. Hold'[x] = Page
    <3>1. HoldFields'
      BY HoldIs, PTL
    <3>2. QED
      BY <1>6, <2>1, <3>1 DEF HoldFields
  <2>3. SameBut({x})
    BY <1>1, <1>3, <1>4, <1>6, <2>1 DEF SameBut
  <2>4. QED
    BY <1>1, <1>7, <2>1, <2>2, <2>3, StepTake DEF PageInv
<1>9. ForksApart'
  BY <1>3, <1>4, ForksKept
<1>10. ASSUME NEW q \in Procs \ {p} PROVE SlotInv(q)'
  BY <1>1, <1>4, <1>5, <1>6, OthersKept DEF SpaceSame
<1>11. SlotInv(p)'
  <2>1. SlotInv(p)
    BY DEF PageInv
  <2>2. op[p].kind \in {"fork", "exec"}
    BY <1>1, <2>1 DEF SlotInv, Phase
  <2>3. Target(p)'
    BY <1>1, <1>3, <1>4, <2>1 DEF SlotInv, Target
  <2>4. Owns(p)'
    <3>1. s # <<p, "cur">> /\ (op[p].kind = "fork" => s # <<p, "new">>)
      BY <1>1, <1>5, <2>2, TargetIs
    <3>2. <<p, "cur">> \in Spaces /\ <<p, "new">> \in Spaces
      BY DEF Spaces
    <3>3. QED
      BY <1>1, <1>3, <1>4, <1>6, <2>1, <2>2, <3>1, <3>2 DEF SlotInv, Owns, Empty, NoTables
  <2>5. Phase(p)'
    BY <1>1, <1>2, <1>3, <1>4, <1>5, <2>1 DEF SlotInv, Phase
  <2>6. QED
    BY <2>3, <2>4, <2>5 DEF SlotInv
<1>12. QED
  BY <1>7, <1>8, <1>9, <1>10, <1>11 DEF PageInv

(* mappages(): what entering a page does to the places, ...                *)
LEMMA EnteredPlaces ==
  ASSUME PageInv, NEW p \in Procs, At(p, "map"), Entered(p)
  PROVE  /\ \E r \in Calls : /\ op' = [op EXCEPT ![p] = r]
                             /\ r.pc = "alloc" /\ r.mem = 0 /\ r.kind = op[p].kind
                             /\ r.s = op[p].s
         /\ \E s \in Spaces, v \in VPages, t \in Tables :
              /\ s = op[p].s /\ v = VPage(p) /\ t = PDX(op[p].a)
              /\ pte[s][v] = 0 /\ pte'[s][v] = op[p].mem
              /\ \A w \in VPages \ {v} : pte'[s][w] = pte[s][w]
              /\ \A u \in Spaces \ {s} : pte'[u] = pte[u]
              /\ pte' \in [Spaces -> [VPages -> Pages \cup {0}]]
<1>1. /\ state[p] = "run" /\ op[p].pc = "map" /\ ~Remap(p)
      /\ pte' = [pte EXCEPT ![op[p].s][VPage(p)] = op[p].mem]
  BY DEF At, Entered, Panics
<1>2. op[p] \in Calls
  BY <1>1, TargetIs
<1>3. \E r \in Calls : /\ op' = [op EXCEPT ![p] = r]
                       /\ r.pc = "alloc" /\ r.mem = 0 /\ r.kind = op[p].kind /\ r.s = op[p].s
  <2>1. PICK b \in Nat : b = op[p].a + PGSIZE
    <3>1. op[p].a \in Nat /\ PGSIZE \in Nat
      BY <1>2, MemoryConstants DEF Calls
    <3>2. QED
      BY <3>1
  <2>2. PICK r : r = [op[p] EXCEPT !.mem = 0, !.a = b, !.pc = "alloc"]
    OBVIOUS
  <2>3. op' = [op EXCEPT ![p] = r]
    BY <2>1, <2>2 DEF Entered
  <2>4. /\ r \in Calls /\ r.pc = "alloc" /\ r.mem = 0 /\ r.kind = op[p].kind
        /\ r.s = op[p].s
    BY <1>2, <2>2 DEF Calls, PCs
  <2>5. QED
    BY <2>3, <2>4, Zenon
<1>4. op[p].a \in Nat /\ op[p].new \in Nat /\ op[p].s \in Spaces /\ op[p].mem \in Pages \cup {0}
  BY <1>2 DEF Calls
<1>5. op[p].a < KERNBASE
  BY <1>1, <1>4, MemoryConstants DEF PageInv, SlotInv, Phase
<1>6. PICK s \in Spaces, v \in VPages, t \in Tables :
        s = op[p].s /\ v = VPage(p) /\ t = PDX(op[p].a)
  BY <1>4, <1>5, PageOf DEF VPage
<1>7. pte[s][v] = 0
  BY <1>1, <1>6 DEF Remap
<1>8. /\ pte'[s][v] = op[p].mem
      /\ \A w \in VPages \ {v} : pte'[s][w] = pte[s][w]
      /\ \A u \in Spaces \ {s} : pte'[u] = pte[u]
      /\ pte' \in [Spaces -> [VPages -> Pages \cup {0}]]
  BY <1>1, <1>4, <1>6 DEF PageInv, Types
<1>9. QED
  BY <1>3, <1>6, <1>7, <1>8

(* ... and to the slots.                                                   *)
LEMMA EnteredSlots ==
  ASSUME PageInv, NEW p \in Procs, At(p, "map"), Entered(p),
         \A u \in Spaces \ {op[p].s} : tab'[u] = tab[u]
  PROVE  ForksApart' /\ \A q \in Procs : SlotInv(q)'
<1>1. /\ state[p] = "run" /\ op[p].pc = "map" /\ UNCHANGED <<state, kstack, sz, dir>>
  BY DEF At, Entered
<1>2. PICK r \in Calls : /\ op' = [op EXCEPT ![p] = r] /\ r.pc = "alloc" /\ r.mem = 0
                         /\ r.kind = op[p].kind /\ r.s = op[p].s
  BY EnteredPlaces
<1>3. op'[p] = r /\ \A q \in Procs \ {p} : op'[q] = op[q]
  BY <1>2 DEF PageInv, Types
<1>4. \A u \in Spaces \ {op[p].s} : SpaceSame(u)
  BY <1>1, EnteredPlaces DEF SpaceSame
<1>5. ForksApart'
  BY <1>2, <1>3, ForksKept
<1>6. ASSUME NEW q \in Procs \ {p} PROVE SlotInv(q)'
  BY <1>1, <1>3, <1>4, OthersKept
<1>7. SlotInv(p)'
  <2>1. SlotInv(p)
    BY DEF PageInv
  <2>2. Target(p)'
    BY <1>1, <1>2, <1>3, <2>1 DEF SlotInv, Target
  <2>3. Owns(p)'
    <3>1. op[p].kind \notin {"exec", "stack"} => SpaceSame(<<p, "new">>)
      <4>1. <<p, "new">> \in Spaces
        BY DEF Spaces
      <4>2. QED
        BY <1>1, <1>4, <4>1, TargetIs
    <3>2. QED
      BY <1>1, <1>2, <1>3, <2>1, <3>1 DEF SlotInv, Owns, Empty, NoTables, SpaceSame
  <2>4. Phase(p)'
    BY <1>1, <1>2, <1>3, <2>1 DEF SlotInv, Phase
  <2>5. QED
    BY <2>2, <2>3, <2>4 DEF SlotInv
<1>8. QED
  BY <1>5, <1>6, <1>7

(* mappages(), with the page table there.                                  *)
LEMMA MapPageInv ==
  ASSUME PageInv, NEW p \in Procs, MapPage(p)
  PROVE  PageInv'
<1>1. At(p, "map") /\ Entered(p) /\ free' = free /\ tab' = tab
      /\ UNCHANGED <<state, kstack, sz, dir>>
  BY DEF MapPage, Entered
<1>2. PICK r \in Calls : op' = [op EXCEPT ![p] = r] /\ r.mem = 0
  BY <1>1, EnteredPlaces
<1>3. PICK s \in Spaces, v \in VPages, t \in Tables :
              /\ s = op[p].s /\ v = VPage(p) /\ t = PDX(op[p].a)
              /\ pte[s][v] = 0 /\ pte'[s][v] = op[p].mem
              /\ \A w \in VPages \ {v} : pte'[s][w] = pte[s][w]
              /\ \A u \in Spaces \ {s} : pte'[u] = pte[u]
              /\ pte' \in [Spaces -> [VPages -> Pages \cup {0}]]
  BY <1>1, EnteredPlaces
<1>4. op'[p] = r /\ \A q \in Procs \ {p} : op'[q] = op[q]
  BY <1>2 DEF PageInv, Types
<1>5. Types'
  BY <1>1, <1>2, <1>3 DEF PageInv, Types
<1>6. PICK x \in Places, y \in Places : x = <<"mem", p>> /\ y = <<"pte", s, v>> /\ x # y
  BY HoldIs DEF HoldFields
<1>7. Hold[y] = 0 /\ Hold'[x] = 0 /\ Hold'[y] = Hold[x]
  <2>1. HoldFields'
    BY HoldIs, PTL
  <2>2. Hold'[x] = 0 /\ Hold'[y] = op[p].mem
    BY <1>2, <1>3, <1>4, <1>6, <2>1 DEF HoldFields
  <2>3. Hold[y] = 0 /\ Hold[x] = op[p].mem
    BY <1>3, <1>6, HoldIs DEF HoldFields
  <2>4. QED
    BY <2>2, <2>3
<1>8. \A z \in Places \ {x, y} : Hold'[z] = Hold[z]
  <2>1. SameBut({x, y})
    BY <1>1, <1>3, <1>4, <1>6 DEF SameBut
  <2>2. QED
    BY <2>1, HoldSame
<1>9. Hold' \in [Places -> Pages \cup {0}]
  <2>1. HoldOK'
    BY <1>5, HoldType, PTL
  <2>2. QED
    BY <2>1 DEF HoldOK
<1>10. Conserved(free', Hold')
  <2>1. PICK F, H, G : F = free /\ H = Hold /\ G = Hold'
    BY Zenon
  <2>2. /\ Conserved(F, H) /\ H[y] = 0 /\ G[x] = 0 /\ G[y] = H[x]
        /\ G \in [Places -> Pages \cup {0}] /\ \A z \in Places \ {x, y} : G[z] = H[z]
    BY <1>7, <1>8, <1>9, <2>1 DEF PageInv
  <2>3. Conserved(F, G)
    BY <1>6, <2>2, Move
  <2>4. QED
    BY <1>1, <2>1, <2>3, Zenon
<1>11. Conserved(free, Hold)'
  BY <1>10 DEF Conserved
<1>12. ForksApart' /\ \A q \in Procs : SlotInv(q)'
  BY <1>1, EnteredSlots
<1>13. QED
  BY <1>5, <1>11, <1>12 DEF PageInv

(* mappages(), where walkpgdir() makes the page table first.               *)
LEMMA MapTableInv ==
  ASSUME PageInv, NEW p \in Procs, MapTable(p)
  PROVE  PageInv'
<1>1. At(p, "map") /\ Entered(p) /\ HavePage /\ free' = free \ {Page} /\ ~HasTable(p)
      /\ tab' = [tab EXCEPT ![op[p].s][PDX(op[p].a)] = Page]
      /\ UNCHANGED <<state, kstack, sz, dir>>
  BY DEF MapTable, Entered
<1>2. PICK r \in Calls : op' = [op EXCEPT ![p] = r] /\ r.mem = 0
  BY <1>1, EnteredPlaces
<1>3. PICK s \in Spaces, v \in VPages, t \in Tables :
              /\ s = op[p].s /\ v = VPage(p) /\ t = PDX(op[p].a)
              /\ pte[s][v] = 0 /\ pte'[s][v] = op[p].mem
              /\ \A w \in VPages \ {v} : pte'[s][w] = pte[s][w]
              /\ \A u \in Spaces \ {s} : pte'[u] = pte[u]
              /\ pte' \in [Spaces -> [VPages -> Pages \cup {0}]]
  BY <1>1, EnteredPlaces
<1>4. op'[p] = r /\ \A q \in Procs \ {p} : op'[q] = op[q]
  BY <1>2 DEF PageInv, Types
<1>5. Page \in free /\ Page \in Pages /\ Page # 0
  BY <1>1, PageIsFree, NotNull DEF PageInv, Conserved
<1>6. /\ tab[s][t] = 0 /\ tab'[s][t] = Page
      /\ \A w \in Tables \ {t} : tab'[s][w] = tab[s][w]
      /\ \A u \in Spaces \ {s} : tab'[u] = tab[u]
      /\ tab' \in [Spaces -> [Tables -> Pages \cup {0}]]
  BY <1>1, <1>3, <1>5 DEF PageInv, Types, HasTable
<1>7. Types'
  BY <1>1, <1>2, <1>3, <1>6 DEF PageInv, Types
<1>8. PICK x \in Places, y \in Places, z \in Places :
        /\ x = <<"mem", p>> /\ y = <<"pte", s, v>> /\ z = <<"tab", s, t>>
        /\ x # y /\ x # z /\ y # z
  <2>1. /\ <<"mem", p>> \in Places /\ <<"pte", s, v>> \in Places
        /\ <<"tab", s, t>> \in Places
    BY HoldIs DEF HoldFields
  <2>2. /\ <<"mem", p>> # <<"pte", s, v>> /\ <<"mem", p>> # <<"tab", s, t>>
        /\ <<"pte", s, v>> # <<"tab", s, t>>
    OBVIOUS
  <2>3. QED
    BY <2>1, <2>2, Zenon
<1>9. Hold[y] = 0 /\ Hold'[x] = 0 /\ Hold'[y] = Hold[x] /\ Hold[z] = 0 /\ Hold'[z] = Page
  <2>1. HoldFields'
    BY HoldIs, PTL
  <2>2. Hold'[x] = 0 /\ Hold'[y] = op[p].mem /\ Hold'[z] = Page
    BY <1>2, <1>3, <1>4, <1>6, <1>8, <2>1 DEF HoldFields
  <2>3. Hold[y] = 0 /\ Hold[x] = op[p].mem /\ Hold[z] = 0
    BY <1>3, <1>6, <1>8, HoldIs DEF HoldFields
  <2>4. QED
    BY <2>2, <2>3
<1>10. \A w \in Places \ {x, y, z} : Hold'[w] = Hold[w]
  <2>1. SameBut({x, y, z})
    BY <1>1, <1>3, <1>4, <1>6, <1>8 DEF SameBut
  <2>2. QED
    BY <2>1, HoldSame
<1>11. Hold' \in [Places -> Pages \cup {0}]
  <2>1. HoldOK'
    BY <1>7, HoldType, PTL
  <2>2. QED
    BY <2>1 DEF HoldOK
<1>12. Conserved(free', Hold')
  <2>1. PICK F, H, G, g : F = free /\ H = Hold /\ G = Hold' /\ g = Page
    BY Zenon
  <2>2. /\ Conserved(F, H) /\ H[y] = 0 /\ H[z] = 0 /\ G[x] = 0 /\ G[y] = H[x] /\ G[z] = g
        /\ G \in [Places -> Pages \cup {0}] /\ \A w \in Places \ {x, y, z} : G[w] = H[w]
        /\ g \in F /\ g \in Pages
    BY <1>5, <1>9, <1>10, <1>11, <2>1 DEF PageInv
  <2>3. PICK M : M = [H EXCEPT ![z] = g]
    OBVIOUS
  <2>4. /\ M \in [Places -> Pages \cup {0}] /\ M[z] = g /\ \A w \in Places \ {z} : M[w] = H[w]
    BY <2>2, <2>3 DEF Conserved
  <2>5. Conserved(F \ {g}, M)
    BY <2>2, <2>4, Take
  <2>6. /\ M[y] = 0 /\ G[y] = M[x] /\ \A w \in Places \ {x, y} : G[w] = M[w]
    BY <1>8, <2>2, <2>4
  <2>7. PICK E : E = F \ {g} /\ Conserved(E, M)
    BY <2>5
  <2>8. Conserved(E, G)
    BY <1>8, <2>2, <2>6, <2>7, Move
  <2>9. QED
    BY <1>1, <2>1, <2>7, <2>8, Zenon
<1>13. Conserved(free, Hold)'
  BY <1>12 DEF Conserved
<1>14. ForksApart' /\ \A q \in Procs : SlotInv(q)'
  BY <1>1, <1>3, <1>6, EnteredSlots
<1>15. QED
  BY <1>7, <1>13, <1>14 DEF PageInv

-----------------------------------------------------------------------------
(* Steps that free                                                         *)

(* deallocuvm(): some pages of a space are unmapped.                       *)
LEMMA UnmappedIs ==
  ASSUME Types, NEW s \in Spaces, NEW vs, vs \subseteq VPages, pte' = Unmapped(s, vs)
  PROVE  /\ pte' \in [Spaces -> [VPages -> Pages \cup {0}]]
         /\ \A v \in vs : pte'[s][v] = 0
         /\ \A v \in VPages \ vs : pte'[s][v] = pte[s][v]
         /\ \A u \in Spaces \ {s} : pte'[u] = pte[u]
BY DEF Types, Unmapped

(* freevm(): a space has no page left.                                     *)
LEMMA ClearedIs ==
  ASSUME Types, NEW s \in Spaces, Cleared(s)
  PROVE  /\ dir' \in [Spaces -> Pages \cup {0}]
         /\ tab' \in [Spaces -> [Tables -> Pages \cup {0}]]
         /\ pte' \in [Spaces -> [VPages -> Pages \cup {0}]]
         /\ Empty(s)' /\ \A u \in Spaces \ {s} : SpaceSame(u)
         /\ \A y \in SpacePlaces(s) : Hold'[y] = 0
<1>1. /\ dir' \in [Spaces -> Pages \cup {0}] /\ dir'[s] = 0
      /\ \A u \in Spaces \ {s} : dir'[u] = dir[u]
  BY DEF Types, Cleared
<1>2. /\ tab' \in [Spaces -> [Tables -> Pages \cup {0}]] /\ \A t \in Tables : tab'[s][t] = 0
      /\ \A u \in Spaces \ {s} : tab'[u] = tab[u]
  BY DEF Types, Cleared
<1>3. /\ pte' \in [Spaces -> [VPages -> Pages \cup {0}]] /\ \A v \in VPages : pte'[s][v] = 0
      /\ \A u \in Spaces \ {s} : pte'[u] = pte[u]
  BY DEF Types, Cleared
<1>4. HoldFields'
  BY HoldIs, PTL
<1>5. \A y \in SpacePlaces(s) : Hold'[y] = 0
  BY <1>1, <1>2, <1>3, <1>4 DEF SpacePlaces, HoldFields
<1>6. QED
  BY <1>1, <1>2, <1>3, <1>5 DEF Empty, NoTables, SpaceSame

(* What a call that is over leaves.                                        *)
LEMMA ReturnIs ==
  ASSUME PageInv, NEW p \in Procs, Return(p)
  PROVE  /\ op' \in [Procs -> Calls] /\ op'[p] = NoOp /\ \A q \in Procs \ {p} : op'[q] = op[q]
         /\ ForksApart' /\ Target(p)'
         /\ op'[p].mem = 0 /\ op'[p].kind = "none" /\ op'[p].pc = "user"
<1>1. NoOp \in Calls /\ NoOp.mem = 0 /\ NoOp.kind = "none" /\ NoOp.pc = "user"
  BY MemoryConstants DEF NoOp, Calls, PCs, Kinds, Spaces
<1>2. op' \in [Procs -> Calls] /\ op'[p] = NoOp /\ \A q \in Procs \ {p} : op'[q] = op[q]
  BY <1>1 DEF Return, PageInv, Types
<1>3. ForksApart'
  BY <1>1, <1>2, ForksKept
<1>4. QED
  BY <1>1, <1>2, <1>3 DEF Target

(* allocuvm() fails in sbrk: what it had added is taken away.              *)
LEMMA FailSbrkInv ==
  ASSUME PageInv, NEW p \in Procs, op[p].pc # "user", FailSbrk(p), Return(p), UNCHANGED sz
  PROVE  PageInv'
<1>1. PICK s \in Spaces, vs \in {GrownPart(p)} : /\ s = op[p].s /\ vs = GrownPart(p)
                              /\ vs \subseteq VPages /\ \A v \in vs : pte[s][v] # 0
  <2>1. op[p].s \in Spaces
    BY TargetIs
  <2>2. GrownPart(p) \subseteq VPages /\ \A v \in GrownPart(p) : pte[op[p].s][v] # 0
    BY DEF GrownPart, Mapped
  <2>3. QED
    BY <2>1, <2>2
<1>2. /\ op[p].kind = "sbrk" /\ free' = free \cup UserPart(s, vs) \cup InHand(p)
      /\ pte' = Unmapped(s, vs) /\ UNCHANGED <<dir, tab, state, kstack, sz>>
  BY <1>1 DEF FailSbrk
<1>3. /\ pte' \in [Spaces -> [VPages -> Pages \cup {0}]]
      /\ \A v \in vs : pte'[s][v] = 0
      /\ \A v \in VPages \ vs : pte'[s][v] = pte[s][v]
      /\ \A u \in Spaces \ {s} : pte'[u] = pte[u]
  BY <1>1, <1>2, UnmappedIs DEF PageInv
<1>4. Types'
  BY <1>2, <1>3, ReturnIs DEF PageInv, Types
<1>5. Conserved(free, Hold)'
  <2>1. PICK X : X = {<<"pte", s, v>> : v \in vs} \cup {<<"mem", p>>}
    OBVIOUS
  <2>2. X \subseteq Places
    BY <1>1, <2>1, HoldIs DEF HoldFields
  <2>3. SameBut(X)
    BY <1>2, <1>3, <2>1, ReturnIs DEF SameBut
  <2>4. \A y \in X : Hold'[y] = 0
    <3>1. HoldFields'
      BY HoldIs, PTL
    <3>2. QED
      BY <1>1, <1>3, <2>1, <3>1, ReturnIs DEF HoldFields
  <2>5. {Hold[y] : y \in X} \ {0} = UserPart(s, vs) \cup InHand(p)
    <3>1. Hold[<<"mem", p>>] = op[p].mem /\ \A v \in vs : Hold[<<"pte", s, v>>] = pte[s][v]
      BY <1>1, HoldIs DEF HoldFields
    <3>2. ASSUME NEW g PROVE g \in {Hold[y] : y \in X} <=>
                               (\E v \in vs : g = pte[s][v]) \/ g = op[p].mem
      BY <2>1, <3>1
    <3>3. ASSUME NEW g PROVE g \in UserPart(s, vs) \cup InHand(p) <=>
                               g # 0 /\ ((\E v \in vs : g = pte[s][v]) \/ g = op[p].mem)
      BY <1>1 DEF UserPart, InHand
    <3>4. QED
      BY <3>2, <3>3
  <2>6. free' = free \cup ({Hold[y] : y \in X} \ {0})
    BY <1>2, <2>5
  <2>7. QED
    BY <1>4, <2>2, <2>3, <2>4, <2>6, StepGive DEF PageInv
<1>6. ASSUME NEW q \in Procs \ {p} PROVE SlotInv(q)'
  BY <1>1, <1>2, <1>3, ReturnIs, OthersKept DEF SpaceSame
<1>7. SlotInv(p)'
  <2>1. SlotInv(p) /\ state[p] = "run" /\ s # <<p, "new">> /\ <<p, "new">> \in Spaces
    BY <1>1, <1>2, TargetIs DEF PageInv, Spaces
  <2>2. Owns(p)'
    BY <1>2, <1>3, <2>1, ReturnIs DEF SlotInv, Owns, Empty, NoTables
  <2>3. Phase(p)'
    BY ReturnIs DEF Phase
  <2>4. QED
    BY <2>2, <2>3, ReturnIs DEF SlotInv
<1>8. QED
  BY <1>4, <1>5, <1>6, <1>7, ReturnIs DEF PageInv

(* A call that builds a space of its own fails: with the space goes what   *)
(* is in hand and, in fork(), the kernel stack of the child.               *)
StacksGone(C) == \A q \in Procs :
  (q \in C /\ kstack'[q] = 0) \/ (q \notin C /\ kstack'[q] = kstack[q])
Undone(p, s, C) == GivenBack(s) \cup InHand(p) \cup ({kstack[c] : c \in C} \ {0})

LEMMA FreedSpace ==
  ASSUME PageInv, Types', NEW p \in Procs, Return(p), NEW s \in Spaces, Cleared(s),
         NEW C, C \subseteq Procs, StacksGone(C), free' = free \cup Undone(p, s, C)
  PROVE  Conserved(free, Hold)'
<1> USE DEF StacksGone, Undone
<1>1. PICK X : X = SpacePlaces(s) \cup {<<"mem", p>>} \cup {<<"kstack", c>> : c \in C}
  OBVIOUS
<1>2. /\ SpacePlaces(s) \subseteq Places
      /\ {Hold[y] : y \in SpacePlaces(s)} \ {0} = GivenBack(s)
  BY SpaceHolds DEF PageInv
<1>3. X \subseteq Places
  BY <1>1, <1>2, HoldIs DEF HoldFields
<1>4. Types
  BY DEF PageInv
<1>5. \A y \in X : Hold'[y] = 0
  <2>1. HoldFields'
    BY HoldIs, PTL
  <2>2. op'[p].mem = 0
    BY ReturnIs
  <2>3. \A y \in SpacePlaces(s) : Hold'[y] = 0
    BY <1>4, ClearedIs
  <2>4. \A c \in C : Hold'[<<"kstack", c>>] = 0
    BY <2>1 DEF HoldFields
  <2>5. Hold'[<<"mem", p>>] = 0
    BY <2>1, <2>2 DEF HoldFields
  <2>6. QED
    BY <1>1, <2>3, <2>4, <2>5
<1>6. SameBut(X)
  <2>1. \A u \in Spaces \ {s} : SpaceSame(u)
    BY <1>4, ClearedIs
  <2>2. \A q \in Procs : <<"kstack", q>> \in X \/ kstack'[q] = kstack[q]
    BY <1>1
  <2>3. \A q \in Procs : <<"mem", q>> \in X \/ op'[q].mem = op[q].mem
    BY <1>1, ReturnIs
  <2>4. /\ \A u \in Spaces : <<"dir", u>> \in X \/ dir'[u] = dir[u]
        /\ \A u \in Spaces, t \in Tables : <<"tab", u, t>> \in X \/ tab'[u][t] = tab[u][t]
        /\ \A u \in Spaces, v \in VPages : <<"pte", u, v>> \in X \/ pte'[u][v] = pte[u][v]
    BY <1>1, <2>1 DEF SpaceSame, SpacePlaces
  <2>5. QED
    BY <2>2, <2>3, <2>4 DEF SameBut
<1>7. {Hold[y] : y \in X} \ {0} = GivenBack(s) \cup InHand(p) \cup ({kstack[c] : c \in C} \ {0})
  <2>1. Hold[<<"mem", p>>] = op[p].mem /\ \A c \in C : Hold[<<"kstack", c>>] = kstack[c]
    BY HoldIs DEF HoldFields
  <2>2. ASSUME NEW g PROVE g \in {Hold[y] : y \in X} <=>
          \/ g \in {Hold[y] : y \in SpacePlaces(s)}
          \/ g = op[p].mem
          \/ \E c \in C : g = kstack[c]
    <3>1. \A y : y \in X <=> \/ y \in SpacePlaces(s)
                             \/ y = <<"mem", p>>
                             \/ \E c \in C : y = <<"kstack", c>>
      BY <1>1
    <3>2. g \in {Hold[y] : y \in X} <=> \E y \in X : g = Hold[y]
      OBVIOUS
    <3>3. g \in {Hold[y] : y \in SpacePlaces(s)} <=> \E y \in SpacePlaces(s) : g = Hold[y]
      OBVIOUS
    <3>4. ASSUME NEW y \in X, g = Hold[y]
          PROVE  \/ g \in {Hold[z] : z \in SpacePlaces(s)}
                 \/ g = op[p].mem
                 \/ \E c \in C : g = kstack[c]
      BY <2>1, <3>1, <3>4
    <3>5. ASSUME \/ \E y \in SpacePlaces(s) : g = Hold[y]
                 \/ g = op[p].mem
                 \/ \E c \in C : g = kstack[c]
          PROVE  \E y \in X : g = Hold[y]
      <4>1. CASE \E y \in SpacePlaces(s) : g = Hold[y]
        BY <3>1, <4>1
      <4>2. CASE g = op[p].mem
        BY <2>1, <3>1, <4>2
      <4>3. CASE \E c \in C : g = kstack[c]
        BY <2>1, <3>1, <4>3
      <4>4. QED
        BY <3>5, <4>1, <4>2, <4>3
    <3>6. QED
      BY <3>2, <3>3, <3>4, <3>5
  <2>3. QED
    BY <1>2, <2>2 DEF InHand
<1>8. free' = free \cup ({Hold[y] : y \in X} \ {0})
  BY <1>7
<1>9. QED
  BY <1>3, <1>5, <1>6, <1>8, StepGive DEF PageInv

(* exec() fails.                                                           *)
LEMMA FailExecInv ==
  ASSUME PageInv, NEW p \in Procs, op[p].pc # "user", FailExec(p), Return(p), UNCHANGED sz
  PROVE  PageInv'
<1>1. PICK s \in Spaces : s = op[p].s /\ s = <<p, "new">>
  <2>1. op[p].s = <<p, "new">>
    BY DEF FailExec, PageInv, SlotInv, Target
  <2>2. QED
    BY <2>1, TargetIs
<1>2. /\ op[p].kind \in {"exec", "stack"} /\ free' = free \cup GivenBack(s) \cup InHand(p)
      /\ Cleared(s) /\ UNCHANGED <<state, kstack, sz>>
  BY <1>1 DEF FailExec
<1>3. Types
  BY DEF PageInv
<1>4. Types'
  BY <1>2, <1>3, ClearedIs, ReturnIs DEF Types
<1>5. Conserved(free, Hold)'
  <2>1. PICK C : C = {}
    OBVIOUS
  <2>2. StacksGone(C) /\ C \subseteq Procs /\ free' = free \cup Undone(p, s, C)
    BY <1>2, <2>1 DEF StacksGone, Undone
  <2>3. QED
    BY <1>2, <1>4, <2>2, FreedSpace
<1>6. ASSUME NEW q \in Procs \ {p} PROVE SlotInv(q)'
  <2>1. \A u \in Spaces \ {op[p].s} : SpaceSame(u)
    BY <1>1, <1>2, <1>3, ClearedIs
  <2>2. QED
    BY <1>2, <2>1, ReturnIs, OthersKept
<1>7. SlotInv(p)'
  <2>1. SlotInv(p) /\ state[p] = "run" /\ <<p, "cur">> \in Spaces /\ s # <<p, "cur">>
    BY <1>1, TargetIs DEF PageInv, Spaces
  <2>2. SpaceSame(<<p, "cur">>) /\ Empty(<<p, "new">>)'
    BY <1>1, <1>2, <1>3, <2>1, ClearedIs
  <2>3. Owns(p)'
    BY <1>2, <2>1, <2>2 DEF SlotInv, Owns, SpaceSame
  <2>4. Phase(p)'
    BY ReturnIs DEF Phase
  <2>5. QED
    BY <2>3, <2>4, ReturnIs DEF SlotInv
<1>8. QED
  BY <1>4, <1>5, <1>6, <1>7, ReturnIs DEF PageInv

(* fork() fails.                                                           *)
LEMMA FailForkInv ==
  ASSUME PageInv, NEW p \in Procs, op[p].pc # "user", FailFork(p), Return(p), UNCHANGED sz
  PROVE  PageInv'
<1>1. PICK c \in Procs : op[p].s = <<c, "cur">> /\ state[c] = "embryo"
  BY DEF FailFork, PageInv, SlotInv, Target
<1>2. PICK s \in Spaces : s = op[p].s /\ s = <<c, "cur">> /\ s[1] = c
  <2>1. op[p].s \in Spaces /\ op[p].s[1] = c
    BY <1>1, TargetIs
  <2>2. QED
    BY <1>1, <2>1
<1>3. /\ op[p].kind = "fork" /\ free' = free \cup GivenBack(s) \cup InHand(p) \cup {kstack[c]}
      /\ Cleared(s) /\ kstack' = [kstack EXCEPT ![c] = 0]
      /\ state' = [state EXCEPT ![c] = "unused"] /\ sz' = sz
  BY <1>2 DEF FailFork, ForkUndone
<1>4. Types /\ state[p] = "run" /\ p # c /\ kstack[c] # 0
  BY <1>1, TargetIs DEF PageInv, SlotInv, Owns
<1>5. /\ kstack'[c] = 0 /\ state'[c] = "unused"
      /\ \A q \in Procs \ {c} : kstack'[q] = kstack[q] /\ state'[q] = state[q]
  BY <1>3, <1>4 DEF Types
<1>6. Types'
  <2>1. state' \in [Procs -> {"unused", "embryo", "run", "zombie"}]
        /\ kstack' \in [Procs -> Pages \cup {0}]
    BY <1>3, <1>4 DEF Types
  <2>2. QED
    BY <1>3, <1>4, <2>1, ClearedIs, ReturnIs DEF Types
<1>7. Conserved(free, Hold)'
  <2>1. PICK C : C = {c}
    OBVIOUS
  <2>2. {kstack[e] : e \in C} \ {0} = {kstack[c]}
    BY <1>4, <2>1
  <2>3. free' = free \cup Undone(p, s, C)
    BY <1>3, <2>2 DEF Undone
  <2>4. StacksGone(C) /\ C \subseteq Procs
    BY <1>5, <2>1 DEF StacksGone
  <2>5. QED
    BY <1>3, <1>6, <2>3, <2>4, FreedSpace
<1>8. \A u \in Spaces \ {op[p].s} : SpaceSame(u)
  BY <1>2, <1>3, <1>4, ClearedIs
<1>9. ASSUME NEW q \in Procs \ {p, c} PROVE SlotInv(q)'
  <2>1. \A e \in Procs : <<e, "cur">> # op[p].s => state'[e] = state[e]
    BY <1>1, <1>5
  <2>2. QED
    BY <1>5, <1>8, <2>1, ReturnIs, OthersKept
<1>10. SlotInv(p)'
  <2>1. SlotInv(p) /\ <<p, "cur">> \in Spaces /\ <<p, "new">> \in Spaces
    BY DEF PageInv, Spaces
  <2>2. SpaceSame(<<p, "cur">>) /\ SpaceSame(<<p, "new">>)
    BY <1>1, <1>4, <1>8, <2>1
  <2>3. Owns(p)'
    BY <1>3, <1>4, <1>5, <2>1, <2>2 DEF SlotInv, Owns, SpaceSame, Empty, NoTables
  <2>4. Phase(p)'
    BY ReturnIs DEF Phase
  <2>5. QED
    BY <2>3, <2>4, ReturnIs DEF SlotInv
<1>11. SlotInv(c)'
  <2>1. SlotInv(c) /\ op'[c] = op[c] /\ <<c, "new">> \in Spaces
    BY <1>4, ReturnIs DEF PageInv, Spaces
  <2>2. op[c] = NoOp
    BY <1>1, <1>4, <2>1 DEF SlotInv, Phase
  <2>3. Empty(<<c, "cur">>)' /\ SpaceSame(<<c, "new">>)
    BY <1>2, <1>3, <1>4, <1>8, <2>1, ClearedIs
  <2>4. Owns(c)'
    BY <1>5, <2>1, <2>2, <2>3 DEF SlotInv, Owns, SpaceSame, Empty, NoTables
  <2>5. Target(c)' /\ Phase(c)'
    BY <2>1, <2>2 DEF Target, Phase, NoOp
  <2>6. QED
    BY <2>4, <2>5 DEF SlotInv
<1>12. QED
  BY <1>6, <1>7, <1>9, <1>10, <1>11, ReturnIs DEF PageInv

(* However a call fails.                                                   *)
LEMMA FailInv ==
  ASSUME PageInv, NEW p \in Procs, op[p].pc # "user", Fail(p)
  PROVE  PageInv'
BY FailSbrkInv, FailExecInv, FailForkInv DEF Fail

-----------------------------------------------------------------------------
(* Steps that only change what a call is about                             *)

(* The other slots, and the pages, do not notice.                          *)
LEMMA CallStep ==
  ASSUME PageInv, NEW p \in Procs, NEW r \in Calls, op' = [op EXCEPT ![p] = r],
         r.mem = op[p].mem, r.kind # "fork", UNCHANGED <<free, state, kstack, spaceVars>>,
         sz' \in [Procs -> 0..(KERNBASE - 1)], op'[p] = r => SlotInv(p)'
  PROVE  PageInv'
<1>1. op'[p] = r /\ \A q \in Procs \ {p} : op'[q] = op[q]
  BY DEF PageInv, Types
<1>2. Types'
  BY DEF PageInv, Types, spaceVars
<1>3. Conserved(free, Hold)'
  <2>1. SameBut({})
    BY <1>1 DEF SameBut, spaceVars
  <2>2. QED
    BY <1>2, <2>1, StepSame DEF PageInv
<1>4. ForksApart'
  BY <1>1, ForksKept
<1>5. ASSUME NEW q \in Procs \ {p} PROVE SlotInv(q)'
  <2>1. SlotInv(q)
    BY DEF PageInv
  <2>2. \A u : SpaceSame(u)
    BY DEF SpaceSame, spaceVars
  <2>3. QED
    BY <1>1, <2>1, <2>2, SlotKept
<1>6. QED
  BY <1>1, <1>2, <1>3, <1>4, <1>5 DEF PageInv

(* Sizes rounded up are sizes.                                             *)
LEMMA RoundType ==
  ASSUME NEW n \in Nat
  PROVE  PGROUNDUP(n) \in Nat
BY RoundUp

(* The sizes a call is given are numbers.                                  *)
LEMMA SizeType ==
  ASSUME PageInv, NEW p \in Procs
  PROVE  /\ sz[p] \in Nat /\ sz[p] < KERNBASE /\ sz[p] \in 0..(KERNBASE - 1)
         /\ op[p] \in Calls /\ op[p].new \in Nat /\ op[p].a \in Nat /\ op[p].old \in Nat
         /\ KERNBASE \in Nat /\ PGSIZE \in Nat
<1>1. KERNBASE \in Nat /\ PGSIZE \in Nat
  BY MemoryConstants
<1>2. sz[p] \in 0..(KERNBASE - 1)
  BY DEF PageInv, Types
<1>3. op[p] \in Calls /\ op[p].new \in Nat /\ op[p].a \in Nat /\ op[p].old \in Nat
  BY DEF PageInv, Types, Calls
<1>4. QED
  BY <1>1, <1>2, <1>3

(* sbrk() asks for more.                                                   *)
LEMMA SbrkMoreInv ==
  ASSUME PageInv, NEW p \in Procs, NEW n \in Grow, SbrkMore(p, n)
  PROVE  PageInv'
<1>1. /\ state[p] = "run" /\ op[p].pc = "user" /\ n > 0 /\ sz[p] + n < KERNBASE
      /\ UNCHANGED <<free, state, kstack, sz, spaceVars>>
  BY DEF SbrkMore, At
<1>2. PICK a \in Nat, b \in Nat, c \in Nat :
        a = FirstPage(sz[p]) /\ b = sz[p] /\ c = sz[p] + n
  <2>1. n \in Int /\ sz[p] \in Nat
    BY SizeType, MemoryConstants
  <2>2. sz[p] + n \in Nat
    BY <1>1, <2>1
  <2>3. QED
    BY <2>1, <2>2, RoundType DEF FirstPage
<1>3. PICK r : r = [NoOp EXCEPT !.pc = "alloc", !.kind = "sbrk", !.s = <<p, "cur">>,
                                !.a = a, !.old = b, !.new = c]
  OBVIOUS
<1>4. op' = [op EXCEPT ![p] = r]
  BY <1>2, <1>3 DEF SbrkMore
<1>5. r \in Calls /\ r.pc = "alloc" /\ r.kind = "sbrk" /\ r.s = <<p, "cur">> /\ r.mem = 0
  BY <1>2, <1>3 DEF NoOp, Calls, PCs, Kinds, Spaces
<1>6. SlotInv(p) /\ op[p] = NoOp /\ op[p].mem = 0 /\ op[p].kind = "none"
  BY <1>1 DEF PageInv, SlotInv, Phase, NoOp
<1>7. ASSUME op'[p] = r PROVE SlotInv(p)'
  <2>1. Owns(p)'
    BY <1>1, <1>5, <1>6, <1>7 DEF SlotInv, Owns, Empty, NoTables, spaceVars
  <2>2. Target(p)'
    BY <1>5, <1>7 DEF Target
  <2>3. Phase(p)'
    BY <1>1, <1>5, <1>6, <1>7 DEF SlotInv, Owns, Phase, spaceVars
  <2>4. QED
    BY <2>1, <2>2, <2>3 DEF SlotInv
<1>8. sz' \in [Procs -> 0..(KERNBASE - 1)]
  BY <1>1 DEF PageInv, Types
<1>9. QED
  BY <1>1, <1>4, <1>5, <1>6, <1>7, <1>8, CallStep

(* exec() starts.                                                          *)
LEMMA ExecInv ==
  ASSUME PageInv, NEW p \in Procs, Exec(p)
  PROVE  PageInv'
<1>1. /\ state[p] = "run" /\ op[p].pc = "user"
      /\ UNCHANGED <<free, state, kstack, sz, spaceVars>>
  BY DEF Exec, At
<1>2. PICK r : r = [NoOp EXCEPT !.pc = "dir", !.kind = "exec", !.s = <<p, "new">>]
  OBVIOUS
<1>3. op' = [op EXCEPT ![p] = r]
  BY <1>2 DEF Exec
<1>4. r \in Calls /\ r.pc = "dir" /\ r.kind = "exec" /\ r.s = <<p, "new">> /\ r.mem = 0
  BY <1>2 DEF NoOp, Calls, PCs, Kinds, Spaces
<1>5. SlotInv(p) /\ op[p] = NoOp /\ op[p].mem = 0 /\ op[p].kind = "none"
  BY <1>1 DEF PageInv, SlotInv, Phase, NoOp
<1>6. ASSUME op'[p] = r PROVE SlotInv(p)'
  <2>1. Owns(p)'
    BY <1>1, <1>4, <1>5, <1>6 DEF SlotInv, Owns, Empty, NoTables, spaceVars
  <2>2. Target(p)'
    BY <1>4, <1>6 DEF Target
  <2>3. Phase(p)'
    BY <1>1, <1>4, <1>5, <1>6 DEF SlotInv, Owns, Phase, Empty, NoTables, spaceVars
  <2>4. QED
    BY <2>1, <2>2, <2>3 DEF SlotInv
<1>7. sz' \in [Procs -> 0..(KERNBASE - 1)]
  BY <1>1 DEF PageInv, Types
<1>8. QED
  BY <1>1, <1>3, <1>4, <1>5, <1>6, <1>7, CallStep

(* exec() goes on to another segment, or to the stack.                     *)
LEMMA ExecOnInv ==
  ASSUME PageInv, NEW p \in Procs, (\E n \in Segments : ExecSegment(p, n)) \/ ExecStack(p)
  PROVE  PageInv'
<1>1. /\ state[p] = "run" /\ op[p].pc = "alloc" /\ op[p].kind = "exec"
      /\ UNCHANGED <<free, state, kstack, sz, spaceVars>>
  BY DEF ExecSegment, ExecStack, AllAllocated, At
<1>2. PICK r \in Calls : /\ op' = [op EXCEPT ![p] = r] /\ r.pc = op[p].pc /\ r.s = op[p].s
                         /\ r.kind \in {"exec", "stack"} /\ r.mem = op[p].mem
  <2>1. PICK m \in Nat : m = op[p].new /\ PGROUNDUP(m) \in Nat
    BY SizeType, RoundType
  <2>2. CASE \E n \in Segments : ExecSegment(p, n)
    <3>1. PICK n \in Nat : n \in Segments /\ ExecSegment(p, n)
      BY <2>2, MemoryConstants
    <3>2. PICK a \in Nat, b \in Nat : a = FirstPage(op[p].new) /\ b = IF n < m THEN m ELSE n
      BY <2>1 DEF FirstPage
    <3>3. PICK r : r = [op[p] EXCEPT !.a = a, !.old = m, !.new = b]
      OBVIOUS
    <3>4. op' = [op EXCEPT ![p] = r]
      BY <2>1, <3>1, <3>2, <3>3 DEF ExecSegment
    <3>5. /\ r \in Calls /\ r.pc = op[p].pc /\ r.s = op[p].s /\ r.kind = op[p].kind
          /\ r.mem = op[p].mem
      BY <3>3, SizeType DEF Calls
    <3>6. QED
      BY <1>1, <3>4, <3>5
  <2>3. CASE ExecStack(p)
    <3>1. PICK t \in Nat : t = PGROUNDUP(op[p].new)
      BY <2>1
    <3>2. PICK b \in Nat : b = t + 2 * PGSIZE
      BY SizeType
    <3>3. PICK r : r = [op[p] EXCEPT !.kind = "stack", !.a = t, !.old = t, !.new = b]
      OBVIOUS
    <3>4. op' = [op EXCEPT ![p] = r]
      BY <2>3, <3>1, <3>2, <3>3 DEF ExecStack
    <3>5. /\ r \in Calls /\ r.pc = op[p].pc /\ r.s = op[p].s /\ r.kind = "stack"
          /\ r.mem = op[p].mem
      BY <3>3, SizeType DEF Calls, Kinds
    <3>6. QED
      BY <3>4, <3>5
  <2>4. QED
    BY <2>2, <2>3
<1>3. ASSUME op'[p] = r PROVE SlotInv(p)'
  <2>1. SlotInv(p)
    BY DEF PageInv
  <2>2. Owns(p)'
    BY <1>1, <1>2, <1>3, <2>1 DEF SlotInv, Owns, Empty, NoTables, spaceVars
  <2>3. Target(p)'
    BY <1>1, <1>2, <1>3, <2>1 DEF SlotInv, Target
  <2>4. Phase(p)'
    BY <1>1, <1>2, <1>3, <2>1 DEF SlotInv, Phase, spaceVars
  <2>5. QED
    BY <2>2, <2>3, <2>4 DEF SlotInv
<1>4. sz' \in [Procs -> 0..(KERNBASE - 1)]
  BY <1>1 DEF PageInv, Types
<1>5. r.kind # "fork"
  BY <1>2
<1>6. QED
  BY <1>1, <1>2, <1>3, <1>4, <1>5, CallStep

(* sbrk() has got what it asked for.                                       *)
LEMMA SbrkDoneInv ==
  ASSUME PageInv, NEW p \in Procs, SbrkDone(p)
  PROVE  PageInv'
<1>1. /\ state[p] = "run" /\ op[p].pc = "alloc" /\ op[p].kind = "sbrk" /\ op[p].new < KERNBASE
      /\ sz' = [sz EXCEPT ![p] = op[p].new] /\ Return(p)
      /\ UNCHANGED <<free, state, kstack, spaceVars>>
  BY DEF SbrkDone, AllAllocated, At
<1>2. sz' \in [Procs -> 0..(KERNBASE - 1)]
  <2>1. op[p].new \in 0..(KERNBASE - 1)
    BY <1>1, SizeType
  <2>2. QED
    BY <1>1, <2>1 DEF PageInv, Types
<1>3. NoOp \in Calls /\ NoOp.mem = op[p].mem /\ NoOp.kind # "fork" /\ op'[p] = NoOp
  <2>1. op' \in [Procs -> Calls] /\ op'[p] = NoOp /\ NoOp.mem = 0 /\ NoOp.kind = "none"
    BY <1>1, ReturnIs
  <2>2. op[p].mem = 0
    BY <1>1 DEF PageInv, SlotInv, Phase
  <2>3. QED
    BY <2>1, <2>2
<1>4. SlotInv(p)'
  <2>1. SlotInv(p)
    BY DEF PageInv
  <2>2. Owns(p)'
    BY <1>1, <2>1 DEF SlotInv, Owns, Empty, NoTables, spaceVars
  <2>3. Phase(p)'
    BY <1>1, ReturnIs DEF Phase
  <2>4. QED
    BY <1>1, <2>2, <2>3, ReturnIs DEF SlotInv
<1>5. op' = [op EXCEPT ![p] = NoOp]
  BY <1>1 DEF Return
<1>6. QED
  BY <1>1, <1>2, <1>3, <1>4, <1>5, CallStep

-----------------------------------------------------------------------------
(* Steps of two processes                                                  *)

(* A process that is not running has no call.                              *)
LEMMA NoCall ==
  ASSUME PageInv, NEW c \in Procs, state[c] # "run"
  PROVE  op[c] = NoOp /\ op[c].kind = "none" /\ op[c].mem = 0 /\ op[c].pc = "user"
BY DEF PageInv, SlotInv, Phase, NoOp

(* sbrk() gives pages back.                                                *)
LEMMA SbrkLessInv ==
  ASSUME PageInv, NEW p \in Procs, NEW n \in Grow, SbrkLess(p, n)
  PROVE  PageInv'
<1>1. PICK s \in Spaces, vs \in {Mapped(<<p, "cur">>, sz[p] + n, sz[p])} : /\ s = <<p, "cur">> /\ vs = Mapped(s, sz[p] + n, sz[p])
                              /\ vs \subseteq VPages /\ \A v \in vs : pte[s][v] # 0
  <2>1. PICK s \in Spaces, vs \in {Mapped(<<p, "cur">>, sz[p] + n, sz[p])} : s = <<p, "cur">> /\ vs = Mapped(s, sz[p] + n, sz[p])
    BY DEF Spaces
  <2>2. vs \subseteq VPages /\ \A v \in vs : pte[s][v] # 0
    BY <2>1 DEF Mapped
  <2>3. QED
    BY <2>1, <2>2
<1>2. /\ state[p] = "run" /\ op[p].pc = "user" /\ n < 0 /\ sz[p] + n >= 0
      /\ free' = free \cup UserPart(s, vs) /\ pte' = Unmapped(s, vs)
      /\ sz' = [sz EXCEPT ![p] = SizeAfter(sz[p], sz[p] + n)]
      /\ UNCHANGED <<state, kstack, dir, tab, op>>
  BY <1>1 DEF SbrkLess, At
<1>3. /\ pte' \in [Spaces -> [VPages -> Pages \cup {0}]]
      /\ \A v \in vs : pte'[s][v] = 0
      /\ \A v \in VPages \ vs : pte'[s][v] = pte[s][v]
      /\ \A u \in Spaces \ {s} : pte'[u] = pte[u]
  BY <1>1, <1>2, UnmappedIs DEF PageInv
<1>4. Types'
  <2>1. n \in Int /\ sz[p] \in 0..(KERNBASE - 1) /\ KERNBASE \in Nat
    BY SizeType, MemoryConstants
  <2>2. SizeAfter(sz[p], sz[p] + n) \in 0..(KERNBASE - 1)
    BY <1>2, <2>1 DEF SizeAfter
  <2>3. sz' \in [Procs -> 0..(KERNBASE - 1)]
    BY <1>2, <2>2 DEF PageInv, Types
  <2>4. QED
    BY <1>2, <1>3, <2>3 DEF PageInv, Types
<1>5. Conserved(free, Hold)'
  <2>1. PICK X : X = {<<"pte", s, v>> : v \in vs}
    OBVIOUS
  <2>2. X \subseteq Places
    BY <1>1, <2>1, HoldIs DEF HoldFields
  <2>3. SameBut(X)
    BY <1>2, <1>3, <2>1 DEF SameBut
  <2>4. \A y \in X : Hold'[y] = 0
    <3>1. HoldFields'
      BY HoldIs, PTL
    <3>2. QED
      BY <1>1, <1>3, <2>1, <3>1 DEF HoldFields
  <2>5. {Hold[y] : y \in X} \ {0} = UserPart(s, vs)
    <3>1. \A v \in vs : Hold[<<"pte", s, v>>] = pte[s][v]
      BY <1>1, HoldIs DEF HoldFields
    <3>2. ASSUME NEW g PROVE g \in {Hold[y] : y \in X} <=> \E v \in vs : g = pte[s][v]
      BY <2>1, <3>1
    <3>3. ASSUME NEW g PROVE g \in UserPart(s, vs) <=> g # 0 /\ \E v \in vs : g = pte[s][v]
      BY <1>1 DEF UserPart
    <3>4. QED
      BY <3>2, <3>3
  <2>6. free' = free \cup ({Hold[y] : y \in X} \ {0})
    BY <1>2, <2>5
  <2>7. QED
    BY <1>4, <2>2, <2>3, <2>4, <2>6, StepGive DEF PageInv
<1>6. ForksApart'
  BY <1>2 DEF PageInv, ForksApart
<1>7. ASSUME NEW q \in Procs PROVE SlotInv(q)'
  <2>1. SlotInv(q) /\ <<q, "cur">> \in Spaces /\ <<q, "new">> \in Spaces
    BY DEF PageInv, Spaces
  <2>2. \A u \in Spaces \ {s} : SpaceSame(u)
    BY <1>2, <1>3 DEF SpaceSame
  <2>3. SpaceSame(<<q, "new">>)
    BY <1>1, <2>1, <2>2
  <2>4. op[q].pc # "user" => SpaceSame(op[q].s)
    BY <1>1, <1>2, <2>2, TargetIs
  <2>5. CASE q # p
    <3>1. SpaceSame(<<q, "cur">>)
      BY <1>1, <2>1, <2>2, <2>5
    <3>2. QED
      BY <1>2, <2>1, <2>3, <2>4, <3>1, SlotKept
  <2>6. CASE q = p
    <3>1. Owns(p)'
      BY <1>2, <2>1, <2>3, <2>6 DEF SlotInv, Owns, Empty, NoTables, SpaceSame
    <3>2. Target(p)' /\ Phase(p)'
      BY <1>2, <2>1, <2>6 DEF SlotInv, Target, Phase, NoOp
    <3>3. QED
      BY <2>6, <3>1, <3>2 DEF SlotInv
  <2>7. QED
    BY <2>5, <2>6
<1>8. QED
  BY <1>4, <1>5, <1>6, <1>7 DEF PageInv

(* fork() has a slot and a kernel stack.                                   *)
LEMMA ForkInv ==
  ASSUME PageInv, NEW p \in Procs, NEW c \in Procs, Fork(p, c)
  PROVE  PageInv'
<1>1. /\ state[p] = "run" /\ op[p].pc = "user" /\ state[c] = "unused" /\ HavePage
      /\ state' = [state EXCEPT ![c] = "embryo"] /\ kstack' = [kstack EXCEPT ![c] = Page]
      /\ free' = free \ {Page} /\ UNCHANGED <<sz, spaceVars>> /\ p # c
  BY DEF Fork, At
<1>2. Page \in Pages /\ Page # 0
  BY <1>1, PageIsFree, NotNull DEF PageInv, Conserved
<1>3. PICK r : r = [NoOp EXCEPT !.pc = "dir", !.kind = "fork", !.s = <<c, "cur">>, !.new = sz[p]]
  OBVIOUS
<1>4. op' = [op EXCEPT ![p] = r]
  BY <1>3 DEF Fork
<1>5. r \in Calls /\ r.pc = "dir" /\ r.kind = "fork" /\ r.s = <<c, "cur">> /\ r.mem = 0
  BY <1>3, SizeType DEF NoOp, Calls, PCs, Kinds, Spaces
<1>6. op'[p] = r /\ \A q \in Procs \ {p} : op'[q] = op[q]
  BY <1>4 DEF PageInv, Types
<1>7. /\ kstack'[c] = Page /\ state'[c] = "embryo" /\ kstack[c] = 0 /\ Empty(<<c, "cur">>)
      /\ \A q \in Procs \ {c} : kstack'[q] = kstack[q] /\ state'[q] = state[q]
  BY <1>1 DEF PageInv, SlotInv, Owns, Types
<1>8. Types'
  <2>1. op' \in [Procs -> Calls]
    BY <1>4, <1>5 DEF PageInv, Types
  <2>2. state' \in [Procs -> {"unused", "embryo", "run", "zombie"}]
        /\ kstack' \in [Procs -> Pages \cup {0}]
    BY <1>1, <1>2 DEF PageInv, Types
  <2>3. QED
    BY <1>1, <2>1, <2>2 DEF PageInv, Types, spaceVars
<1>9. SlotInv(p) /\ op[p] = NoOp /\ op[p].mem = 0 /\ op[p].kind = "none"
  BY <1>1 DEF PageInv, SlotInv, Phase, NoOp
<1>10. Conserved(free, Hold)'
  <2>1. PICK x : x = <<"kstack", c>> /\ x \in Places /\ Hold[x] = 0
    BY <1>7, HoldIs DEF HoldFields
  <2>2. Hold'[x] = Page
    <3>1. HoldFields'
      BY HoldIs, PTL
    <3>2. QED
      BY <1>7, <2>1, <3>1 DEF HoldFields
  <2>3. SameBut({x})
    BY <1>1, <1>5, <1>6, <1>7, <1>9, <2>1 DEF SameBut, spaceVars
  <2>4. QED
    BY <1>1, <1>8, <2>1, <2>2, <2>3, StepTake DEF PageInv
<1>11. ASSUME NEW q \in Procs, op[q].kind = "fork" PROVE op[q].s # <<c, "cur">>
  BY <1>1, <1>11 DEF PageInv, SlotInv, Target
<1>12. ForksApart'
  BY <1>5, <1>6, <1>11 DEF PageInv, ForksApart
<1>13. \A u : SpaceSame(u)
  BY <1>1 DEF SpaceSame, spaceVars
<1>14. ASSUME NEW q \in Procs \ {p, c} PROVE SlotInv(q)'
  <2>1. SlotInv(q)
    BY DEF PageInv
  <2>2. \A e \in Procs : state[e] = "embryo" => state'[e] = state[e]
    BY <1>7
  <2>3. QED
    BY <1>6, <1>7, <1>13, <2>1, <2>2, SlotKept
<1>15. SlotInv(p)'
  <2>1. Owns(p)'
    <3>1. /\ state'[p] = "run" /\ kstack'[p] = kstack[p]
          /\ kstack[p] # 0 /\ dir[<<p, "cur">>] # 0 /\ Empty(<<p, "new">>)
      BY <1>1, <1>7, <1>9 DEF SlotInv, Owns
    <3>2. dir'[<<p, "cur">>] # 0
      BY <1>13, <3>1 DEF SpaceSame
    <3>3. Empty(<<p, "new">>)'
      BY <1>13, <3>1 DEF SpaceSame, Empty, NoTables
    <3>4. QED
      BY <3>1, <3>2, <3>3 DEF Owns
  <2>2. Target(p)'
    BY <1>5, <1>6, <1>7 DEF Target
  <2>3. Phase(p)'
    BY <1>1, <1>5, <1>6, <1>7, <1>13 DEF Phase, Empty, NoTables, SpaceSame
  <2>4. QED
    BY <2>1, <2>2, <2>3 DEF SlotInv
<1>16. SlotInv(c)'
  <2>1. SlotInv(c) /\ op[c] = NoOp /\ op'[c] = op[c] /\ op[c].kind = "none"
    BY <1>1, <1>6, NoCall DEF PageInv
  <2>2. Owns(c)'
    BY <1>2, <1>7, <1>13, <2>1 DEF SlotInv, Owns, Empty, NoTables, SpaceSame
  <2>3. Target(c)' /\ Phase(c)'
    BY <2>1 DEF Target, Phase, NoOp
  <2>4. QED
    BY <2>2, <2>3 DEF SlotInv
<1>17. QED
  BY <1>8, <1>10, <1>12, <1>14, <1>15, <1>16 DEF PageInv

(* fork() has copied the parent: the child may run.                        *)
LEMMA ForkDoneInv ==
  ASSUME PageInv, NEW p \in Procs, ForkDone(p)
  PROVE  PageInv'
<1>1. /\ state[p] = "run" /\ op[p].pc = "alloc" /\ op[p].kind = "fork" /\ Return(p)
      /\ sz' = [sz EXCEPT ![op[p].s[1]] = sz[p]]
      /\ state' = [state EXCEPT ![op[p].s[1]] = "run"]
      /\ UNCHANGED <<free, kstack, spaceVars>>
  BY DEF ForkDone, AllAllocated, At
<1>2. PICK c \in Procs : op[p].s = <<c, "cur">> /\ state[c] = "embryo" /\ p # c
  BY <1>1 DEF PageInv, SlotInv, Target
<1>3. op[p].s[1] = c
  BY <1>2
<1>4. state'[c] = "run" /\ \A q \in Procs \ {c} : state'[q] = state[q]
  BY <1>1, <1>3 DEF PageInv, Types
<1>5. Types'
  <2>1. sz' \in [Procs -> 0..(KERNBASE - 1)]
        /\ state' \in [Procs -> {"unused", "embryo", "run", "zombie"}]
    BY <1>1, <1>3, SizeType DEF PageInv, Types
  <2>2. QED
    BY <1>1, <2>1, ReturnIs DEF PageInv, Types, spaceVars
<1>6. Conserved(free, Hold)'
  <2>1. op[p].mem = 0
    BY <1>1 DEF PageInv, SlotInv, Phase
  <2>2. SameBut({})
    BY <1>1, <2>1, ReturnIs DEF SameBut, spaceVars
  <2>3. QED
    BY <1>1, <1>5, <2>2, StepSame DEF PageInv
<1>7. \A u : SpaceSame(u)
  BY <1>1 DEF SpaceSame, spaceVars
<1>8. ASSUME NEW q \in Procs \ {p, c} PROVE SlotInv(q)'
  <2>1. \A e \in Procs : <<e, "cur">> # op[p].s => state'[e] = state[e]
    BY <1>2, <1>4
  <2>2. QED
    BY <1>1, <1>4, <1>7, <2>1, ReturnIs, OthersKept
<1>9. SlotInv(p)'
  <2>1. SlotInv(p)
    BY DEF PageInv
  <2>2. Owns(p)'
    BY <1>1, <1>2, <1>4, <1>7, <2>1 DEF SlotInv, Owns, Empty, NoTables, SpaceSame
  <2>3. Phase(p)'
    BY <1>1, ReturnIs DEF Phase
  <2>4. QED
    BY <1>1, <2>2, <2>3, ReturnIs DEF SlotInv
<1>10. SlotInv(c)'
  <2>1. SlotInv(c) /\ op[c] = NoOp /\ op'[c] = op[c] /\ op[c].kind = "none"
    BY <1>1, <1>2, NoCall, ReturnIs DEF PageInv
  <2>2. dir[<<c, "cur">>] # 0
    BY <1>1, <1>2 DEF PageInv, SlotInv, Phase
  <2>3. Owns(c)'
    BY <1>1, <1>2, <1>4, <1>7, <2>1, <2>2 DEF SlotInv, Owns, Empty, NoTables, SpaceSame
  <2>4. Target(c)' /\ Phase(c)'
    BY <2>1 DEF Target, Phase, NoOp
  <2>5. QED
    BY <2>3, <2>4 DEF SlotInv
<1>11. QED
  BY <1>1, <1>5, <1>6, <1>8, <1>9, <1>10, ReturnIs DEF PageInv

(* exit() keeps the memory for the parent to free.                         *)
LEMMA ExitInv ==
  ASSUME PageInv, NEW p \in Procs, Exit(p)
  PROVE  PageInv'
<1>1. /\ state[p] = "run" /\ op[p].pc = "user" /\ state' = [state EXCEPT ![p] = "zombie"]
      /\ UNCHANGED <<free, kstack, sz, spaceVars, op>>
  BY DEF Exit, At
<1>2. state'[p] = "zombie" /\ \A q \in Procs \ {p} : state'[q] = state[q]
  BY <1>1 DEF PageInv, Types
<1>3. Types'
  BY <1>1 DEF PageInv, Types, spaceVars
<1>4. Conserved(free, Hold)'
  <2>1. SameBut({})
    BY <1>1 DEF SameBut, spaceVars
  <2>2. QED
    BY <1>1, <1>3, <2>1, StepSame DEF PageInv
<1>5. ForksApart'
  BY <1>1 DEF PageInv, ForksApart
<1>6. \A u : SpaceSame(u)
  BY <1>1 DEF SpaceSame, spaceVars
<1>7. ASSUME NEW q \in Procs \ {p} PROVE SlotInv(q)'
  <2>1. SlotInv(q)
    BY DEF PageInv
  <2>2. \A e \in Procs : state[e] = "embryo" => state'[e] = state[e]
    BY <1>1, <1>2
  <2>3. QED
    BY <1>1, <1>2, <1>6, <2>1, <2>2, SlotKept
<1>8. SlotInv(p)'
  <2>1. SlotInv(p) /\ op[p] = NoOp /\ op'[p] = op[p] /\ op[p].kind = "none"
    BY <1>1 DEF PageInv, SlotInv, Phase, NoOp
  <2>2. Owns(p)'
    BY <1>1, <1>2, <1>6, <2>1 DEF SlotInv, Owns, Empty, NoTables, SpaceSame
  <2>3. Target(p)' /\ Phase(p)'
    BY <2>1 DEF Target, Phase, NoOp
  <2>4. QED
    BY <2>2, <2>3 DEF SlotInv
<1>9. QED
  BY <1>3, <1>4, <1>5, <1>7, <1>8 DEF PageInv

(* wait() frees the memory of a child.                                     *)
LEMMA WaitInv ==
  ASSUME PageInv, NEW p \in Procs, NEW c \in Procs, Wait(p, c)
  PROVE  PageInv'
<1>1. PICK s \in Spaces : s = <<c, "cur">>
  BY DEF Spaces
<1>2. /\ state[p] = "run" /\ op[p].pc = "user" /\ state[c] = "zombie" /\ p # c
      /\ free' = free \cup {kstack[c]} \cup WholeSpace(s) /\ Cleared(s)
      /\ kstack' = [kstack EXCEPT ![c] = 0] /\ state' = [state EXCEPT ![c] = "unused"]
      /\ UNCHANGED <<sz, op>>
  BY <1>1 DEF Wait, At
<1>3. Types /\ kstack[c] # 0 /\ dir[s] # 0
  BY <1>1, <1>2 DEF PageInv, SlotInv, Owns
<1>4. /\ kstack'[c] = 0 /\ state'[c] = "unused"
      /\ \A q \in Procs \ {c} : kstack'[q] = kstack[q] /\ state'[q] = state[q]
  BY <1>2, <1>3 DEF Types
<1>5. Types'
  <2>1. state' \in [Procs -> {"unused", "embryo", "run", "zombie"}]
        /\ kstack' \in [Procs -> Pages \cup {0}]
    BY <1>2, <1>3 DEF Types
  <2>2. QED
    BY <1>2, <1>3, <2>1, ClearedIs DEF Types
<1>6. op[p] = NoOp /\ op[p].mem = 0 /\ op[c] = NoOp /\ op[c].kind = "none"
  BY <1>2, NoCall DEF PageInv, SlotInv, Phase, NoOp
<1>7. Conserved(free, Hold)'
  <2>1. PICK C : C = {c}
    OBVIOUS
  <2>2. {kstack[e] : e \in C} \ {0} = {kstack[c]} /\ InHand(p) = {}
    BY <1>3, <1>6, <2>1 DEF InHand
  <2>3. 0 \notin WholeSpace(s)
    BY <1>3 DEF WholeSpace, TablesFreed, UserPart, Mapped
  <2>4. free' = free \cup Undone(p, s, C)
    BY <1>2, <2>2, <2>3 DEF Undone, GivenBack
  <2>5. StacksGone(C) /\ C \subseteq Procs
    BY <1>4, <2>1 DEF StacksGone
  <2>6. Return(p)
    BY <1>2, <1>3, <1>6 DEF Return, Types
  <2>7. QED
    BY <1>2, <1>5, <2>4, <2>5, <2>6, FreedSpace
<1>8. ForksApart'
  BY <1>2 DEF PageInv, ForksApart
<1>9. \A u \in Spaces \ {s} : SpaceSame(u)
  BY <1>2, <1>3, ClearedIs
<1>10. ASSUME NEW q \in Procs \ {c} PROVE SlotInv(q)'
  <2>1. SlotInv(q) /\ <<q, "cur">> \in Spaces /\ <<q, "new">> \in Spaces
    BY DEF PageInv, Spaces
  <2>2. SpaceSame(<<q, "cur">>) /\ SpaceSame(<<q, "new">>)
    BY <1>1, <1>9, <2>1
  <2>3. op[q].pc # "user" => SpaceSame(op[q].s)
    BY <1>1, <1>2, <1>9, TargetIs
  <2>4. \A e \in Procs : state[e] = "embryo" => state'[e] = state[e]
    BY <1>2, <1>4
  <2>5. QED
    BY <1>2, <1>4, <2>1, <2>2, <2>3, <2>4, SlotKept
<1>11. SlotInv(c)'
  <2>1. SlotInv(c) /\ op'[c] = op[c] /\ <<c, "new">> \in Spaces
    BY <1>2 DEF PageInv, Spaces
  <2>2. Empty(<<c, "cur">>)' /\ SpaceSame(<<c, "new">>)
    BY <1>1, <1>2, <1>3, <1>9, <2>1, ClearedIs
  <2>3. Owns(c)'
    BY <1>4, <1>6, <2>1, <2>2 DEF SlotInv, Owns, SpaceSame, Empty, NoTables
  <2>4. Target(c)' /\ Phase(c)'
    BY <1>6, <2>1 DEF Target, Phase, NoOp
  <2>5. QED
    BY <2>3, <2>4 DEF SlotInv
<1>12. QED
  BY <1>5, <1>7, <1>8, <1>10, <1>11 DEF PageInv

-----------------------------------------------------------------------------
(* exec() commits                                                          *)

(* The pages of the places B take the names A.                             *)
Renames(f, A, B) == /\ A \subseteq Places /\ B \subseteq Places /\ A \cap B = {}
                    /\ f \in [A -> B]
                    /\ \A x, y \in A : f[x] = f[y] => x = y
                    /\ \A b \in B : \E x \in A : f[x] = b
Renamed(f, A, B, M, G) == /\ \A x \in A : M[x] = 0 /\ G[x] = M[f[x]]
                          /\ \A b \in B : G[b] = 0
                          /\ \A y \in Places \ (A \cup B) : G[y] = M[y]

LEMMA Rename ==
  ASSUME NEW F, NEW M, Conserved(F, M), NEW A, NEW B, NEW f, Renames(f, A, B),
         NEW G, G \in [Places -> Pages \cup {0}], Renamed(f, A, B, M, G)
  PROVE  Conserved(F, G)
<1> USE DEF Conserved, Renames, Renamed
<1>1. \A x \in A : f[x] \in B /\ f[x] \in Places
  OBVIOUS
<1>2. ASSUME NEW y \in Places PROVE G[y] \notin F
  BY <1>1, NotNull
<1>3. ASSUME NEW y \in Places, NEW z \in Places, G[y] = G[z], G[y] # 0 PROVE y = z
  <2>1. y \notin B /\ z \notin B
    BY <1>3
  <2>2. CASE y \in A /\ z \in A
    BY <1>1, <1>3, <2>2
  <2>3. CASE y \in A /\ z \notin A
    <3>1. M[f[y]] = M[z] /\ M[z] # 0
      BY <1>3, <2>1, <2>3
    <3>2. f[y] = z
      BY <1>1, <2>3, <3>1
    <3>3. QED
      BY <1>1, <2>1, <2>3, <3>2
  <2>4. CASE y \notin A /\ z \in A
    <3>1. M[f[z]] = M[y] /\ M[y] # 0
      BY <1>3, <2>1, <2>4
    <3>2. f[z] = y
      BY <1>1, <2>4, <3>1
    <3>3. QED
      BY <1>1, <2>1, <2>4, <3>2
  <2>5. CASE y \notin A /\ z \notin A
    BY <1>3, <2>1, <2>5
  <2>6. QED
    BY <2>2, <2>3, <2>4, <2>5
<1>4. ASSUME NEW g \in Pages, g \notin F PROVE \E y \in Places : G[y] = g
  <2>1. PICK y \in Places : M[y] = g
    BY <1>4
  <2>2. y \notin A
    BY <2>1, NotNull
  <2>3. CASE y \in B
    <3>1. PICK x \in A : f[x] = y
      BY <2>3
    <3>2. QED
      BY <2>1, <3>1
  <2>4. CASE y \notin B
    BY <2>1, <2>2, <2>4
  <2>5. QED
    BY <2>3, <2>4
<1>5. QED
  BY <1>2, <1>3, <1>4

(* The place in the space n that stands for a place in another space.      *)
Twin(s, n) == [y \in SpacePlaces(s) |-> IF y[1] = "dir" THEN <<"dir", n>> ELSE <<y[1], n, y[3]>>]

Twins(f, s, n) ==
  /\ f[<<"dir", s>>] = <<"dir", n>>
  /\ \A t \in Tables : f[<<"tab", s, t>>] = <<"tab", n, t>>
  /\ \A v \in VPages : f[<<"pte", s, v>>] = <<"pte", n, v>>
  /\ f = [y \in SpacePlaces(s) |-> f[y]]

LEMMA TwinPlaces ==
  ASSUME NEW s, NEW n
  PROVE  Twins(Twin(s, n), s, n)
  BY DEF Twin, Twins, SpacePlaces

LEMMA TwinBack ==
  ASSUME NEW s, NEW n, NEW f, NEW g, Twins(f, s, n), Twins(g, n, s), NEW x \in SpacePlaces(s)
  PROVE  f[x] \in SpacePlaces(n) /\ g[f[x]] = x
<1>1. CASE x = <<"dir", s>>
  BY <1>1 DEF Twins, SpacePlaces
<1>2. ASSUME NEW t \in Tables, x = <<"tab", s, t>> PROVE f[x] \in SpacePlaces(n) /\ g[f[x]] = x
  BY <1>2 DEF Twins, SpacePlaces
<1>3. ASSUME NEW v \in VPages, x = <<"pte", s, v>> PROVE f[x] \in SpacePlaces(n) /\ g[f[x]] = x
  BY <1>3 DEF Twins, SpacePlaces
<1>4. QED
  BY <1>1, <1>2, <1>3 DEF SpacePlaces

LEMMA TwinIs ==
  ASSUME NEW s \in Spaces, NEW n \in Spaces, s # n
  PROVE  Renames(Twin(s, n), SpacePlaces(s), SpacePlaces(n))
<1>1. PICK f, g : f = Twin(s, n) /\ Twins(f, s, n) /\ Twins(g, n, s)
  BY TwinPlaces
<1>2. f = [y \in SpacePlaces(s) |-> f[y]]
  BY <1>1 DEF Twins
<1>3. \A x \in SpacePlaces(s) : f[x] \in SpacePlaces(n) /\ g[f[x]] = x
  BY <1>1, TwinBack
<1>4. \A x, y \in SpacePlaces(s) : f[x] = f[y] => x = y
  BY <1>3
<1>5. \A b \in SpacePlaces(n) : \E x \in SpacePlaces(s) : f[x] = b
  BY <1>1, TwinBack
<1>6. SpacePlaces(s) \cap SpacePlaces(n) = {}
  BY DEF SpacePlaces
<1>7. f \in [SpacePlaces(s) -> SpacePlaces(n)]
  BY <1>2, <1>3
<1>8. SpacePlaces(s) \subseteq Places /\ SpacePlaces(n) \subseteq Places
  BY DEF SpacePlaces, Places
<1>9. QED
  BY <1>1, <1>4, <1>5, <1>6, <1>7, <1>8 DEF Renames

LEMMA ExecCommitInv ==
  ASSUME PageInv, NEW p \in Procs, ExecCommit(p)
  PROVE  PageInv'
<1>1. PICK s \in Spaces, n \in Spaces : s = <<p, "cur">> /\ n = <<p, "new">> /\ s # n
  <2>1. <<p, "cur">> \in Spaces /\ <<p, "new">> \in Spaces /\ <<p, "cur">> # <<p, "new">>
    BY DEF Spaces
  <2>2. QED
    BY <2>1
<1>2. /\ state[p] = "run" /\ op[p].pc = "alloc" /\ op[p].kind = "stack" /\ op[p].new < KERNBASE
      /\ free' = free \cup WholeSpace(s) /\ Return(p)
      /\ sz' = [sz EXCEPT ![p] = op[p].new] /\ UNCHANGED <<state, kstack>>
  BY <1>1 DEF ExecCommit, AllAllocated, At
<1>3. Types /\ SlotInv(p) /\ op[p].mem = 0 /\ op[p].s = n /\ dir[n] # 0 /\ dir[s] # 0
  BY <1>1, <1>2 DEF PageInv, SlotInv, Phase, Target, Owns
<1>4. /\ dir' \in [Spaces -> Pages \cup {0}] /\ dir'[s] = dir[n] /\ dir'[n] = 0
      /\ \A u \in Spaces \ {s, n} : dir'[u] = dir[u]
  BY <1>1, <1>3 DEF ExecCommit, Types
<1>5. /\ tab' \in [Spaces -> [Tables -> Pages \cup {0}]] /\ tab'[s] = tab[n]
      /\ \A t \in Tables : tab'[n][t] = 0
      /\ \A u \in Spaces \ {s, n} : tab'[u] = tab[u]
  BY <1>1, <1>3 DEF ExecCommit, Types
<1>6. /\ pte' \in [Spaces -> [VPages -> Pages \cup {0}]] /\ pte'[s] = pte[n]
      /\ \A v \in VPages : pte'[n][v] = 0
      /\ \A u \in Spaces \ {s, n} : pte'[u] = pte[u]
  BY <1>1, <1>3 DEF ExecCommit, Types
<1>7. Types'
  <2>1. op[p].new \in 0..(KERNBASE - 1)
    BY <1>2, SizeType
  <2>2. sz' \in [Procs -> 0..(KERNBASE - 1)]
    BY <1>2, <1>3, <2>1 DEF Types
  <2>3. QED
    BY <1>2, <1>3, <1>4, <1>5, <1>6, <2>2, ReturnIs DEF Types
<1>8. \A u \in Spaces \ {s, n} : SpaceSame(u)
  BY <1>4, <1>5, <1>6 DEF SpaceSame
<1>9. PICK A, B, f : A = SpacePlaces(s) /\ B = SpacePlaces(n) /\ f = Twin(s, n)
  OBVIOUS
<1>10. Renames(f, A, B) /\ A \subseteq Places /\ {Hold[y] : y \in A} \ {0} = WholeSpace(s)
  <2>1. A \subseteq Places /\ {Hold[y] : y \in A} \ {0} = GivenBack(s)
    BY <1>3, <1>9, SpaceHolds
  <2>2. 0 \notin WholeSpace(s)
    BY <1>3 DEF WholeSpace, TablesFreed, UserPart, Mapped
  <2>3. Renames(f, A, B)
    BY <1>1, <1>9, TwinIs
  <2>4. QED
    BY <2>1, <2>2, <2>3 DEF GivenBack
<1>11. HoldFields /\ HoldFields'
  BY HoldIs, PTL
<1>12. \A x \in A : Hold'[x] = Hold[f[x]]
  <2>1. Hold'[<<"dir", s>>] = Hold[<<"dir", n>>]
    BY <1>4, <1>11 DEF HoldFields
  <2>2. \A t \in Tables : Hold'[<<"tab", s, t>>] = Hold[<<"tab", n, t>>]
    BY <1>5, <1>11 DEF HoldFields
  <2>3. \A v \in VPages : Hold'[<<"pte", s, v>>] = Hold[<<"pte", n, v>>]
    BY <1>6, <1>11 DEF HoldFields
  <2>4. /\ f[<<"dir", s>>] = <<"dir", n>>
        /\ \A t \in Tables : f[<<"tab", s, t>>] = <<"tab", n, t>>
        /\ \A v \in VPages : f[<<"pte", s, v>>] = <<"pte", n, v>>
    BY <1>9 DEF Twin, SpacePlaces
  <2>5. QED
    BY <1>9, <2>1, <2>2, <2>3, <2>4 DEF SpacePlaces
<1>13. \A b \in B : Hold'[b] = 0
  BY <1>4, <1>5, <1>6, <1>9, <1>11 DEF HoldFields, SpacePlaces
<1>14. \A y \in Places \ (A \cup B) : Hold'[y] = Hold[y]
  <2>1. SameBut(A \cup B)
    <3>1. \A q \in Procs : kstack'[q] = kstack[q] /\ op'[q].mem = op[q].mem
      BY <1>2, <1>3, ReturnIs
    <3>2. /\ \A u \in Spaces : <<"dir", u>> \in A \cup B \/ dir'[u] = dir[u]
          /\ \A u \in Spaces, t \in Tables : <<"tab", u, t>> \in A \cup B \/ tab'[u][t] = tab[u][t]
          /\ \A u \in Spaces, v \in VPages : <<"pte", u, v>> \in A \cup B \/ pte'[u][v] = pte[u][v]
      BY <1>8, <1>9 DEF SpaceSame, SpacePlaces
    <3>3. QED
      BY <3>1, <3>2 DEF SameBut
  <2>2. QED
    BY <2>1, HoldSame
<1>15. Conserved(free', Hold')
  <2>1. PICK F, H, G : F = free /\ H = Hold /\ G = Hold'
    BY Zenon
  <2>2. G \in [Places -> Pages \cup {0}]
    <3>1. HoldOK'
      BY <1>7, HoldType, PTL
    <3>2. QED
      BY <2>1, <3>1 DEF HoldOK
  <2>3. /\ Conserved(F, H)
        /\ \A x \in A : G[x] = H[f[x]]
        /\ \A b \in B : G[b] = 0
        /\ \A y \in Places \ (A \cup B) : G[y] = H[y]
    BY <1>12, <1>13, <1>14, <2>1 DEF PageInv
  <2>4. PICK M : M = [y \in Places |-> IF y \in A THEN 0 ELSE H[y]]
    OBVIOUS
  <2>5. /\ M \in [Places -> Pages \cup {0}] /\ \A x \in A : M[x] = 0
        /\ \A y \in Places \ A : M[y] = H[y]
    BY <1>10, <2>3, <2>4 DEF Conserved
  <2>6. PICK E : E = F \cup ({H[y] : y \in A} \ {0})
    OBVIOUS
  <2>7. Conserved(E, M)
    BY <1>10, <2>3, <2>5, <2>6, Give
  <2>8. Renamed(f, A, B, M, G)
    <3>1. \A x \in A : f[x] \in Places \ A
      BY <1>10 DEF Renames
    <3>2. QED
      BY <2>3, <2>5, <3>1 DEF Renamed
  <2>9. Conserved(E, G)
    BY <1>10, <2>2, <2>7, <2>8, Rename
  <2>10. E = free'
    BY <1>2, <1>10, <2>1, <2>6
  <2>11. QED
    BY <2>1, <2>9, <2>10
<1>16. Conserved(free, Hold)'
  BY <1>15 DEF Conserved
<1>17. ASSUME NEW q \in Procs \ {p} PROVE SlotInv(q)'
  <2>1. SlotInv(q) /\ <<q, "cur">> \in Spaces /\ <<q, "new">> \in Spaces
    BY DEF PageInv, Spaces
  <2>2. SpaceSame(<<q, "cur">>) /\ SpaceSame(<<q, "new">>)
    BY <1>1, <1>8, <2>1
  <2>3. op[q].pc # "user" => SpaceSame(op[q].s)
    BY <1>1, <1>2, <1>8, TargetIs
  <2>4. QED
    BY <1>2, <2>1, <2>2, <2>3, ReturnIs, SlotKept
<1>18. SlotInv(p)'
  <2>1. Empty(n)' /\ dir'[s] # 0
    BY <1>3, <1>4, <1>5, <1>6 DEF Empty, NoTables
  <2>2. Owns(p)'
    BY <1>1, <1>2, <1>3, <2>1 DEF SlotInv, Owns
  <2>3. Phase(p)'
    BY <1>2, ReturnIs DEF Phase
  <2>4. QED
    BY <1>2, <2>2, <2>3, ReturnIs DEF SlotInv
<1>19. QED
  BY <1>2, <1>7, <1>16, <1>17, <1>18, ReturnIs DEF PageInv

-----------------------------------------------------------------------------
(* Every step keeps the pages                                              *)

(* At boot the first process holds five pages.                             *)
LEMMA InitPages == Init => PageInv
<1> SUFFICES ASSUME Init PROVE PageInv
  OBVIOUS
<1>1. PICK s \in Spaces : s = <<First, "cur">>
  BY MemoryConstants DEF Spaces
<1>2. PICK k \in Tables : k = KernelTable /\ k # 0 /\ 0 \in Tables
  BY KernelTableIs
<1>3. 0 \in VPages
  <2>1. PICK K \in Nat : K * PGSIZE = KERNBASE /\ VPages = 0..(K - 1)
    BY KernbaseIs
  <2>2. K # 0
    BY <2>1, MemoryConstants
  <2>3. QED
    BY <2>1, <2>2
<1>4. 1 \in Pages /\ 2 \in Pages /\ 3 \in Pages /\ 4 \in Pages /\ 5 \in Pages
      /\ free = 6..NPAGES /\ free \subseteq Pages
  BY MemoryConstants DEF Pages, Init
<1>5. /\ state = [p \in Procs |-> IF p = First THEN "run" ELSE "unused"]
      /\ kstack = [p \in Procs |-> IF p = First THEN 1 ELSE 0]
      /\ dir = [u \in Spaces |-> IF u = s THEN 2 ELSE 0]
      /\ op = [p \in Procs |-> NoOp]
  BY <1>1 DEF Init
<1>6. tab \in [Spaces -> [Tables -> Pages \cup {0}]]
      /\ \A u \in Spaces, t \in Tables :
           tab[u][t] = IF u = s /\ t = k THEN 3 ELSE IF u = s /\ t = 0 THEN 4 ELSE 0
  <2>1. tab = [u \in Spaces |-> [t \in Tables |->
                 IF u = s /\ t = k THEN 3 ELSE IF u = s /\ t = 0 THEN 4 ELSE 0]]
    BY <1>1, <1>2 DEF Init
  <2>2. QED
    BY <1>4, <2>1
<1>7. pte \in [Spaces -> [VPages -> Pages \cup {0}]]
      /\ \A u \in Spaces, v \in VPages : pte[u][v] = IF u = s /\ v = 0 THEN 5 ELSE 0
  <2>1. pte = [u \in Spaces |-> [v \in VPages |-> IF u = s /\ v = 0 THEN 5 ELSE 0]]
    BY <1>1 DEF Init
  <2>2. QED
    BY <1>4, <2>1
<1>8. NoOp \in Calls /\ NoOp.mem = 0 /\ NoOp.kind = "none" /\ NoOp.pc = "user"
  BY MemoryConstants DEF NoOp, Calls, PCs, Kinds, Spaces
<1>9. Types
  <2>1. sz \in [Procs -> 0..(KERNBASE - 1)]
    <3>1. PGSIZE \in 0..(KERNBASE - 1) /\ 0 \in 0..(KERNBASE - 1)
      BY MemoryConstants
    <3>2. QED
      BY <3>1 DEF Init
  <2>2. op \in [Procs -> Calls]
    BY <1>5, <1>8
  <2>3. state \in [Procs -> {"unused", "embryo", "run", "zombie"}]
    BY <1>5
  <2>4. kstack \in [Procs -> Pages \cup {0}] /\ dir \in [Spaces -> Pages \cup {0}]
    BY <1>4, <1>5
  <2>5. QED
    BY <1>6, <1>7, <2>1, <2>2, <2>3, <2>4 DEF Types
<1>10. Conserved(free, Hold)
  <2>1. PICK x1 \in Places, x2 \in Places, x3 \in Places, x4 \in Places, x5 \in Places :
          /\ x1 = <<"kstack", First>> /\ x2 = <<"dir", s>> /\ x3 = <<"tab", s, k>>
          /\ x4 = <<"tab", s, 0>> /\ x5 = <<"pte", s, 0>>
    <3>1. First \in Procs
      BY MemoryConstants
    <3>2. /\ <<"kstack", First>> \in Places /\ <<"dir", s>> \in Places
          /\ <<"tab", s, k>> \in Places /\ <<"tab", s, 0>> \in Places
          /\ <<"pte", s, 0>> \in Places
      BY <1>2, <1>3, <3>1, HoldIs DEF HoldFields
    <3>3. QED
      BY <3>2
  <2>2. Hold[x1] = 1 /\ Hold[x2] = 2 /\ Hold[x3] = 3 /\ Hold[x4] = 4 /\ Hold[x5] = 5
    BY <1>2, <1>3, <1>5, <1>6, <1>7, <2>1, HoldIs, MemoryConstants DEF HoldFields
  <2>3. ASSUME NEW x \in Places \ {x1, x2, x3, x4, x5} PROVE Hold[x] = 0
    <3>1. CASE \E p \in Procs : x = <<"kstack", p>>
      BY <1>5, <2>1, <3>1, HoldIs DEF HoldFields
    <3>2. CASE \E p \in Procs : x = <<"mem", p>>
      BY <1>5, <1>8, <3>2, HoldIs DEF HoldFields
    <3>3. CASE \E u \in Spaces : x = <<"dir", u>>
      BY <1>5, <2>1, <3>3, HoldIs DEF HoldFields
    <3>4. CASE \E u \in Spaces, t \in Tables : x = <<"tab", u, t>>
      BY <1>6, <2>1, <3>4, HoldIs DEF HoldFields
    <3>5. CASE \E u \in Spaces, v \in VPages : x = <<"pte", u, v>>
      BY <1>7, <2>1, <3>5, HoldIs DEF HoldFields
    <3>6. QED
      BY <3>1, <3>2, <3>3, <3>4, <3>5, PlaceKinds
  <2>4. PICK H : H = Hold /\ H \in [Places -> Pages \cup {0}]
    BY <1>9, HoldType DEF HoldOK
  <2>5. \A x \in Places : H[x] \in 0..5
    BY <2>2, <2>3, <2>4
  <2>6. \A x \in Places : H[x] \notin free
    BY <1>4, <2>5
  <2>7. ASSUME NEW x \in Places, NEW y \in Places, H[x] = H[y], H[x] # 0 PROVE x = y
    <3>1. x \in {x1, x2, x3, x4, x5} /\ y \in {x1, x2, x3, x4, x5}
      BY <2>3, <2>4, <2>7
    <3>2. QED
      BY <2>2, <2>4, <2>7, <3>1
  <2>8. ASSUME NEW g \in Pages, g \notin free PROVE \E x \in Places : H[x] = g
    <3>1. g \in 1..5
      BY <1>4, <2>8, MemoryConstants DEF Pages
    <3>2. QED
      BY <2>2, <2>4, <3>1
  <2>9. QED
    BY <1>4, <2>4, <2>6, <2>7, <2>8 DEF Conserved
<1>11. ForksApart
  BY <1>5, <1>8 DEF ForksApart
<1>12. ASSUME NEW p \in Procs PROVE SlotInv(p)
  <2>1. op[p] = NoOp
    BY <1>5
  <2>2. Target(p) /\ Phase(p)
    BY <1>8, <2>1 DEF Target, Phase
  <2>3. Owns(p)
    <3>1. /\ <<p, "cur">> \in Spaces /\ <<p, "new">> \in Spaces /\ s # <<p, "new">>
          /\ s = <<p, "cur">> <=> p = First
      BY <1>1 DEF Spaces
    <3>2. Empty(<<p, "new">>)
      BY <1>5, <1>6, <1>7, <3>1 DEF Empty, NoTables
    <3>3. CASE p = First
      BY <1>5, <3>1, <3>2, <3>3 DEF Owns
    <3>4. CASE p # First
      <4>1. Empty(<<p, "cur">>)
        BY <1>5, <1>6, <1>7, <3>1, <3>4 DEF Empty, NoTables
      <4>2. QED
        BY <1>5, <3>2, <3>4, <4>1 DEF Owns
    <3>5. QED
      BY <3>3, <3>4
  <2>4. QED
    BY <2>2, <2>3 DEF SlotInv
<1>13. QED
  BY <1>9, <1>10, <1>11, <1>12 DEF PageInv

(* A step that changes nothing.                                            *)
LEMMA SameInv ==
  ASSUME PageInv, UNCHANGED vars
  PROVE  PageInv'
<1>1. UNCHANGED <<free, state, kstack, sz, dir, tab, pte, op>>
  BY DEF vars, spaceVars
<1>2. Types'
  BY <1>1 DEF PageInv, Types
<1>3. Conserved(free, Hold)'
  <2>1. SameBut({})
    BY <1>1 DEF SameBut
  <2>2. QED
    BY <1>1, <1>2, <2>1, StepSame DEF PageInv
<1>4. ForksApart'
  BY <1>1 DEF PageInv, ForksApart
<1>5. ASSUME NEW q \in Procs PROVE SlotInv(q)'
  <2>1. SlotInv(q)
    BY DEF PageInv
  <2>2. \A u : SpaceSame(u)
    BY <1>1 DEF SpaceSame
  <2>3. QED
    BY <1>1, <2>1, <2>2, SlotKept
<1>6. QED
  BY <1>2, <1>3, <1>4, <1>5 DEF PageInv

(* The pages are conserved by every step.                                  *)
LEMMA NextPages == PageInv /\ [Next]_vars => PageInv'
<1> SUFFICES ASSUME PageInv, [Next]_vars PROVE PageInv'
  OBVIOUS
<1>1. CASE UNCHANGED vars
  BY <1>1, SameInv
<1>2. CASE Next
  <2>1. PICK p \in Procs :
          \/ \E n \in Grow : SbrkRefused(p, n) \/ SbrkMore(p, n) \/ SbrkLess(p, n)
          \/ Exec(p) \/ \E n \in Segments : ExecSegment(p, n)
          \/ \E c \in Procs : Fork(p, c) \/ Wait(p, c)
          \/ ForkRefused(p) \/ ExecBad(p) \/ SetupDir(p) \/ SetupKernel(p) \/ NoMemory(p)
          \/ TooLarge(p) \/ Alloc(p) \/ MapPage(p) \/ MapTable(p) \/ MapFails(p)
          \/ SbrkDone(p) \/ ForkDone(p) \/ ExecStack(p) \/ ExecArgsBad(p) \/ ExecCommit(p)
          \/ Exit(p) \/ Halted
    BY <1>2 DEF Next
  <2>2. CASE \E n \in Grow : SbrkRefused(p, n) \/ SbrkMore(p, n) \/ SbrkLess(p, n)
    BY <2>2, SameInv, SbrkMoreInv, SbrkLessInv DEF SbrkRefused
  <2>3. CASE Exec(p)
    BY <2>3, ExecInv
  <2>4. CASE (\E n \in Segments : ExecSegment(p, n)) \/ ExecStack(p)
    BY <2>4, ExecOnInv
  <2>5. CASE \E c \in Procs : Fork(p, c) \/ Wait(p, c)
    BY <2>5, ForkInv, WaitInv
  <2>6. CASE ForkRefused(p) \/ Halted
    BY <2>6, SameInv DEF ForkRefused, Halted
  <2>7. CASE ExecBad(p) \/ NoMemory(p) \/ TooLarge(p) \/ MapFails(p) \/ ExecArgsBad(p)
    <3>1. op[p].pc # "user" /\ Fail(p)
      BY <2>7 DEF ExecBad, NoMemory, TooLarge, MapFails, ExecArgsBad, AllAllocated, At
    <3>2. QED
      BY <3>1, FailInv
  <2>8. CASE SetupDir(p) \/ SetupKernel(p)
    BY <2>8, SetupDirInv, SetupKernelInv
  <2>9. CASE Alloc(p) \/ MapPage(p) \/ MapTable(p)
    BY <2>9, AllocInv, MapPageInv, MapTableInv
  <2>10. CASE SbrkDone(p) \/ ForkDone(p) \/ ExecCommit(p) \/ Exit(p)
    BY <2>10, SbrkDoneInv, ForkDoneInv, ExecCommitInv, ExitInv
  <2>11. QED
    BY <2>1, <2>2, <2>3, <2>4, <2>5, <2>6, <2>7, <2>8, <2>9, <2>10
<1>3. QED
  BY <1>1, <1>2

(* Whatever calls are made, and whichever of their allocations fails, the  *)
(* pages are conserved between the steps of all of them.                   *)
THEOREM PagesInvariant == Spec => []PageInv
<1>1. Init => PageInv
  BY InitPages
<1>2. PageInv /\ [Next]_vars => PageInv'
  BY NextPages
<1>3. QED
  BY <1>1, <1>2, PTL DEF Spec

(* kalloc() and kfree(): no page leaks, none is freed while it is in use,  *)
(* none is used twice.                                                     *)
THEOREM NoPageLost == Spec => []PagesConserved
<1>1. PageInv => PagesConserved
  <2> SUFFICES ASSUME PageInv PROVE PagesConserved
    OBVIOUS
  <2>1. TypeOK
    <3>1. 0..(KERNBASE - 1) \subseteq 0..KERNBASE
      BY MemoryConstants
    <3>2. QED
      BY <3>1 DEF PageInv, Types, Conserved, TypeOK
  <2>2. QED
    BY <2>1, ConservedCount DEF PageInv, PagesConserved
<1>2. QED
  BY <1>1, PagesInvariant, PTL

-----------------------------------------------------------------------------
(* Sizes and pages                                                         *)

(* A page starts below the rounded size if it starts below the size.       *)
LEMMA RoundSame ==
  ASSUME NEW n \in Nat, NEW v \in Nat
  PROVE  v * PGSIZE \in Nat /\ (v * PGSIZE < PGROUNDUP(n) <=> v * PGSIZE < n)
<1>1. PICK P \in Nat \ {0} : P = PGSIZE
  BY MemoryConstants
<1>2. PICK m \in Nat, u \in Nat : /\ u = m * P /\ u = PGROUNDUP(n) /\ n <= u /\ u < n + P
  BY <1>1, RoundUp
<1>3. PICK x \in Nat : x = v * P
  OBVIOUS
<1>4. x < u => x + P <= u
  <2>1. x < u => v < m
    BY <1>2, <1>3, TimesLess
  <2>2. v < m => x + P <= u
    <3>1. ASSUME v < m PROVE x + P <= u
      <4>1. PICK w \in Int : w = v + 1 /\ w <= m
        BY <3>1
      <4>2. w * P = x + P
        BY <1>3, <4>1
      <4>3. ~(m * P < w * P)
        BY <4>1, TimesLess
      <4>4. QED
        BY <1>2, <4>2, <4>3
    <3>2. QED
      BY <3>1
  <2>3. QED
    BY <2>1, <2>2
<1>5. x < u <=> x < n
  BY <1>2, <1>3, <1>4
<1>6. QED
  BY <1>1, <1>2, <1>3, <1>5

(* Rounding keeps the order.                                               *)
LEMMA RoundMono ==
  ASSUME NEW n \in Nat, NEW o \in Nat, n <= o
  PROVE  PGROUNDUP(n) <= PGROUNDUP(o)
<1>1. PICK P \in Nat \ {0} : P = PGSIZE
  BY MemoryConstants
<1>2. PICK i \in Nat, x \in Nat : /\ x = i * P /\ x = PGROUNDUP(n) /\ n <= x /\ x < n + P
  BY <1>1, RoundUp
<1>3. PICK j \in Nat, y \in Nat : /\ y = j * P /\ y = PGROUNDUP(o) /\ o <= y /\ y < o + P
  BY <1>1, RoundUp
<1>4. x < y + P
  BY <1>2, <1>3
<1>5. i <= j
  BY <1>2, <1>3, <1>4, TimesLess
<1>6. ~(j * P < i * P)
  BY <1>5, TimesLess
<1>7. QED
  BY <1>2, <1>3, <1>6

(* The loop over the pages up to a size: a page that starts below it ends  *)
(* within the rounded size, and the first that does not is the last.       *)
LEMMA RoundStep ==
  ASSUME NEW n \in Nat, NEW k \in Nat
  PROVE  /\ k * PGSIZE < n => (k * PGSIZE) + PGSIZE <= PGROUNDUP(n)
         /\ k * PGSIZE >= n /\ k * PGSIZE <= PGROUNDUP(n) => k * PGSIZE = PGROUNDUP(n)
         /\ (k * PGSIZE) + PGSIZE = (k + 1) * PGSIZE
<1>1. PICK P \in Nat \ {0} : P = PGSIZE
  BY MemoryConstants
<1>2. PICK m \in Nat, u \in Nat : /\ u = m * P /\ u = PGROUNDUP(n) /\ n <= u /\ u < n + P
  BY <1>1, RoundUp
<1>3. PICK x \in Nat, j \in Int : x = k * P /\ j = k + 1 /\ j * P = x + P
  OBVIOUS
<1>4. ASSUME x < n PROVE x + P <= u
  <2>1. x < u
    BY <1>2, <1>4
  <2>2. k < m
    BY <1>2, <1>3, <2>1, TimesLess
  <2>3. j <= m
    BY <1>3, <2>2
  <2>4. ~(m * P < j * P)
    BY <2>3, TimesLess
  <2>5. QED
    BY <1>2, <1>3, <2>4
<1>5. ASSUME x >= n, x <= u PROVE x = u
  <2>1. u < x + P
    BY <1>2, <1>5
  <2>2. m <= k
    BY <1>2, <1>3, <2>1, TimesLess
  <2>3. ~(k * P < m * P)
    BY <2>2, TimesLess
  <2>4. QED
    BY <1>2, <1>3, <1>5, <2>3
<1>6. QED
  BY <1>1, <1>2, <1>3, <1>4, <1>5

(* The page of an address that starts a page.                              *)
LEMMA PageStart ==
  ASSUME NEW k \in Nat
  PROVE  (k * PGSIZE) \div PGSIZE = k
<1>1. PICK P \in Nat \ {0} : P = PGSIZE
  BY MemoryConstants
<1>2. PICK x \in Int : x = k * P
  OBVIOUS
<1>3. PICK q \in Int, z \in 0..(P - 1) : q = x \div P /\ x = (P * q) + z
  BY DivMod
<1>4. PICK d \in Int : d = k - q /\ P * d = z
  <2>1. k - q \in Int /\ P * (k - q) = (k * P) - (P * q)
    OBVIOUS
  <2>2. QED
    BY <1>2, <1>3, <2>1
<1>5. P * d < P /\ -P < P * d
  BY <1>4
<1>6. d = 0
  BY <1>5, SmallMultiple
<1>7. q = k
  BY <1>4, <1>6
<1>8. QED
  BY <1>1, <1>2, <1>3, <1>7, Zenon

(* The page of an address starts at or below it.                           *)
LEMMA PageBelow ==
  ASSUME NEW a \in Nat
  PROVE  a \div PGSIZE \in Int /\ (a \div PGSIZE) * PGSIZE <= a
<1>1. PICK P \in Nat \ {0} : P = PGSIZE
  BY MemoryConstants
<1>2. PICK b \in Int : b = a
  OBVIOUS
<1>3. PICK q \in Int, z \in 0..(P - 1) : q = b \div P /\ b = (P * q) + z
  BY DivMod
<1>4. q * P <= b
  BY <1>3
<1>5. QED
  BY <1>1, <1>2, <1>3, <1>4, Zenon

(* The numbers of user pages.                                              *)
LEMMA VPagesNat == VPages \subseteq Nat
BY KernbaseIs

-----------------------------------------------------------------------------
(* What is mapped                                                          *)

(* The mapped pages of a space are those that start below b; or they start *)
(* below b, but the first is missing, as are others, perhaps.              *)
MappedTo(s, b) == \A v \in VPages : pte[s][v] # 0 <=> v * PGSIZE < b
GoneTo(s, b) == pte[s][0] = 0 /\ \A v \in VPages : pte[s][v] # 0 => v * PGSIZE < b
MappedIn(s, b) == MappedTo(s, b) \/ GoneTo(s, b)

(* Of a process that runs, which may have given everything back, and of    *)
(* the space a call builds, which is complete but for that of sbrk().      *)
Sized(p) == state[p] = "run" /\ op[p].kind # "sbrk" => MappedIn(<<p, "cur">>, sz[p])
Progress(p) ==
  /\ op[p].kind = "fork" => op[p].new = sz[p]
  /\ op[p].pc \in {"dir", "kernel"} => op[p].a = 0
  /\ op[p].pc \in {"alloc", "map"} => /\ MappedIn(op[p].s, op[p].a)
                                      /\ op[p].kind # "sbrk" => MappedTo(op[p].s, op[p].a)
                                      /\ \E k \in Nat : op[p].a = k * PGSIZE
                                      /\ op[p].a <= PGROUNDUP(op[p].new)
  /\ op[p].kind = "sbrk" => op[p].old = sz[p] /\ PGROUNDUP(sz[p]) <= op[p].a
SizeInv == \A p \in Procs : Sized(p) /\ Progress(p)

(* Mapped up to a size is mapped up to the end of its last page.           *)
LEMMA MappedRound ==
  ASSUME NEW s, NEW n \in Nat
  PROVE  /\ MappedTo(s, PGROUNDUP(n)) <=> MappedTo(s, n)
         /\ MappedIn(s, PGROUNDUP(n)) <=> MappedIn(s, n)
<1>1. ASSUME NEW v \in VPages PROVE v * PGSIZE < PGROUNDUP(n) <=> v * PGSIZE < n
  BY RoundSame, VPagesNat
<1>2. QED
  BY <1>1 DEF MappedTo, GoneTo, MappedIn

(* The first page is among the pages, and starts below every address but 0.*)
LEMMA PageZero == 0 \in VPages /\ 0 * PGSIZE = 0
<1>1. PICK K \in Nat : K * PGSIZE = KERNBASE /\ VPages = 0..(K - 1)
  BY KernbaseIs
<1>2. PGSIZE \in Nat /\ KERNBASE \in Nat /\ KERNBASE > 0
  BY MemoryConstants
<1>3. K # 0
  BY <1>1, <1>2
<1>4. QED
  BY <1>1, <1>2, <1>3

(* The loop of allocuvm() and copyuvm() ends with all pages mapped.        *)
LEMMA LoopDone ==
  ASSUME PageInv, SizeInv, NEW p \in Procs, AllAllocated(p)
  PROVE  /\ MappedIn(op[p].s, op[p].new)
         /\ op[p].kind # "sbrk" => /\ MappedTo(op[p].s, op[p].new)
                                   /\ MappedTo(op[p].s, PGROUNDUP(op[p].new))
         /\ op[p].a = PGROUNDUP(op[p].new)
<1>1. op[p].pc = "alloc" /\ op[p].a >= op[p].new
  BY DEF AllAllocated, At
<1>2. /\ MappedIn(op[p].s, op[p].a) /\ op[p].a <= PGROUNDUP(op[p].new)
      /\ op[p].kind # "sbrk" => MappedTo(op[p].s, op[p].a)
  BY <1>1 DEF SizeInv, Progress
<1>3. PICK k \in Nat : op[p].a = k * PGSIZE
  BY <1>1 DEF SizeInv, Progress
<1>4. PICK n \in Nat : n = op[p].new
  BY SizeType
<1>5. op[p].a = PGROUNDUP(n)
  <2>1. k * PGSIZE >= n /\ k * PGSIZE <= PGROUNDUP(n)
    BY <1>1, <1>2, <1>3, <1>4
  <2>2. k * PGSIZE = PGROUNDUP(n)
    BY <2>1, RoundStep
  <2>3. QED
    BY <1>3, <2>2
<1>6. QED
  BY <1>2, <1>4, <1>5, MappedRound

(* A step that leaves alone what a slot is about.                          *)
LEMMA SizedKept ==
  ASSUME PageInv, SizeInv, NEW q \in Procs, op'[q] = op[q], sz'[q] = sz[q],
         state'[q] = "run" => state[q] = "run" /\ pte'[<<q, "cur">>] = pte[<<q, "cur">>],
         op[q].pc # "user" => pte'[op[q].s] = pte[op[q].s]
  PROVE  Sized(q)' /\ Progress(q)'
<1>1. Sized(q) /\ Progress(q)
  BY DEF SizeInv
<1>2. Sized(q)'
  BY <1>1 DEF Sized, MappedIn, MappedTo, GoneTo
<1>3. Progress(q)'
  BY <1>1 DEF Progress, MappedIn, MappedTo, GoneTo
<1>4. QED
  BY <1>2, <1>3

(* A step of a call in the space it builds leaves the other slots alone.   *)
LEMMA OthersSized ==
  ASSUME PageInv, SizeInv, NEW p \in Procs, op[p].pc # "user",
         \A u \in Spaces \ {op[p].s} : pte'[u] = pte[u],
         NEW q \in Procs \ {p}, op'[q] = op[q], sz'[q] = sz[q],
         state'[q] = "run" => state[q] = "run"
  PROVE  Sized(q)' /\ Progress(q)'
<1>1. <<q, "cur">> \in Spaces
  BY DEF Spaces
<1>2. state[q] = "run" => <<q, "cur">> # op[p].s
  BY TargetIs
<1>3. op[q].pc # "user" => op[q].s \in Spaces \ {op[p].s}
  BY TargetsApart, TargetIs
<1>4. QED
  BY <1>1, <1>2, <1>3, SizedKept

(* A call that has returned is about nothing.                              *)
LEMMA ReturnProgress ==
  ASSUME PageInv, NEW p \in Procs, Return(p)
  PROVE  Progress(p)'
BY ReturnIs DEF Progress

(* setupkvm() maps no user page.                                           *)
LEMMA SetupSized ==
  ASSUME PageInv, SizeInv, NEW p \in Procs, SetupDir(p) \/ SetupKernel(p)
  PROVE  SizeInv'
<1>1. /\ state[p] = "run" /\ op[p].pc \in {"dir", "kernel"} /\ op[p].kind \in {"fork", "exec"}
      /\ UNCHANGED <<state, sz, pte>> /\ NoTables(op[p].s)
  BY DEF SetupDir, SetupKernel, At, PageInv, SlotInv, Phase
<1>2. PICK l \in {"kernel", "alloc"} : op' = [op EXCEPT ![p].pc = l]
  BY DEF SetupDir, SetupKernel, Goto
<1>3. PICK r : r = [op[p] EXCEPT !.pc = l]
  OBVIOUS
<1>4. r.pc = l /\ r.kind = op[p].kind /\ r.s = op[p].s /\ r.a = op[p].a /\ r.new = op[p].new
  BY <1>3, SizeType DEF Calls
<1>5. op'[p] = r /\ \A q \in Procs \ {p} : op'[q] = op[q]
  BY <1>2, <1>3 DEF PageInv, Types
<1>6. ASSUME NEW q \in Procs \ {p} PROVE Sized(q)' /\ Progress(q)'
  BY <1>1, <1>5, OthersSized
<1>7. Sized(p) /\ Progress(p)
  BY DEF SizeInv
<1>8. Sized(p)'
  BY <1>1, <1>4, <1>5, <1>7 DEF Sized, MappedIn, MappedTo, GoneTo
<1>9. Progress(p)'
  <2>1. op[p].a = 0
    BY <1>1, <1>7 DEF Progress
  <2>2. MappedTo(op[p].s, 0)
    <3>1. ASSUME NEW v \in VPages PROVE ~(v * PGSIZE < 0)
      BY VPagesNat, RoundSame
    <3>2. QED
      BY <1>1, <3>1 DEF MappedTo, NoTables
  <2>3. \E k \in Nat : 0 = k * PGSIZE
    <3>1. 0 = 0 * PGSIZE
      BY MemoryConstants
    <3>2. QED
      BY <3>1
  <2>4. 0 <= PGROUNDUP(op[p].new)
    <3>1. op[p].new \in Nat
      BY SizeType
    <3>2. PGROUNDUP(op[p].new) \in Nat
      BY <3>1, RoundType
    <3>3. QED
      BY <3>2
  <2>5. MappedTo(op[p].s, 0)'
    BY <1>1, <1>4, <1>5, <2>2 DEF MappedTo
  <2>6. QED
    BY <1>1, <1>4, <1>5, <1>7, <2>1, <2>3, <2>4, <2>5 DEF Progress, MappedIn
<1>10. QED
  BY <1>6, <1>8, <1>9 DEF SizeInv

(* A page in hand is not mapped yet.                                       *)
LEMMA AllocSized ==
  ASSUME PageInv, SizeInv, NEW p \in Procs, Alloc(p)
  PROVE  SizeInv'
<1>1. state[p] = "run" /\ op[p].pc = "alloc" /\ UNCHANGED <<state, sz, pte>>
  BY DEF Alloc, At, spaceVars
<1>2. PICK r : r = [op[p] EXCEPT !.mem = Page, !.pc = "map"]
  OBVIOUS
<1>3. op' = [op EXCEPT ![p] = r]
  BY <1>2 DEF Alloc
<1>4. /\ r.pc = "map" /\ r.kind = op[p].kind /\ r.s = op[p].s /\ r.a = op[p].a
      /\ r.old = op[p].old /\ r.new = op[p].new
  BY <1>2, SizeType DEF Calls
<1>5. op'[p] = r /\ \A q \in Procs \ {p} : op'[q] = op[q]
  BY <1>3 DEF PageInv, Types
<1>6. ASSUME NEW q \in Procs \ {p} PROVE Sized(q)' /\ Progress(q)'
  BY <1>1, <1>5, OthersSized
<1>7. Sized(p) /\ Progress(p)
  BY DEF SizeInv
<1>8. Sized(p)' /\ Progress(p)'
  BY <1>1, <1>4, <1>5, <1>7 DEF Sized, Progress, MappedIn, MappedTo, GoneTo
<1>9. QED
  BY <1>6, <1>8 DEF SizeInv

(* mappages() adds the next page.                                          *)
LEMMA MapSized ==
  ASSUME PageInv, SizeInv, NEW p \in Procs, MapPage(p) \/ MapTable(p)
  PROVE  SizeInv'
<1>1. /\ At(p, "map") /\ Entered(p) /\ state[p] = "run" /\ op[p].pc = "map"
      /\ UNCHANGED <<state, sz>>
  BY DEF MapPage, MapTable, At, Entered
<1>2. PICK s \in Spaces, v \in VPages :
        /\ s = op[p].s /\ v = VPage(p) /\ pte'[s][v] = op[p].mem
        /\ \A w \in VPages \ {v} : pte'[s][w] = pte[s][w]
        /\ \A u \in Spaces \ {s} : pte'[u] = pte[u]
  BY <1>1, EnteredPlaces
<1>3. PICK k \in Nat : op[p].a = k * PGSIZE
  BY <1>1 DEF SizeInv, Progress
<1>4. v = k
  BY <1>2, <1>3, PageStart DEF VPage
<1>5. PICK b \in Nat : b = op[p].a + PGSIZE /\ b = (k + 1) * PGSIZE
  <2>1. op[p].a \in Nat /\ PGSIZE \in Nat
    BY SizeType
  <2>2. op[p].a + PGSIZE = (k + 1) * PGSIZE
    BY <1>3, RoundStep
  <2>3. QED
    BY <2>1, <2>2
<1>6. PICK r : r = [op[p] EXCEPT !.mem = 0, !.a = b, !.pc = "alloc"]
  OBVIOUS
<1>7. op' = [op EXCEPT ![p] = r]
  BY <1>1, <1>5, <1>6 DEF Entered
<1>8. /\ r.pc = "alloc" /\ r.kind = op[p].kind /\ r.s = op[p].s /\ r.a = b
      /\ r.old = op[p].old /\ r.new = op[p].new
  BY <1>6, SizeType DEF Calls
<1>9. op'[p] = r /\ \A q \in Procs \ {p} : op'[q] = op[q]
  BY <1>7 DEF PageInv, Types
<1>10. ASSUME NEW q \in Procs \ {p} PROVE Sized(q)' /\ Progress(q)'
  BY <1>1, <1>2, <1>9, OthersSized
<1>11. Sized(p) /\ Progress(p) /\ op[p].mem # 0 /\ op[p].a < op[p].new
  BY <1>1 DEF SizeInv, PageInv, SlotInv, Phase
<1>12. Sized(p)'
  <2>1. op[p].kind # "sbrk" => pte'[<<p, "cur">>] = pte[<<p, "cur">>]
    <3>1. <<p, "cur">> \in Spaces
      BY DEF Spaces
    <3>2. QED
      BY <1>1, <1>2, <3>1, TargetIs
  <2>2. QED
    BY <1>1, <1>8, <1>9, <1>11, <2>1 DEF Sized, MappedIn, MappedTo, GoneTo
<1>13. Progress(p)'
  <2>1. ASSUME NEW w \in VPages
        PROVE  /\ MappedTo(s, op[p].a) => (pte'[s][w] # 0 <=> w * PGSIZE < b)
               /\ GoneTo(s, op[p].a) => (pte'[s][w] # 0 => w * PGSIZE < b)
    <3>1. /\ MappedTo(s, op[p].a) => (pte[s][w] # 0 <=> w * PGSIZE < k * PGSIZE)
          /\ GoneTo(s, op[p].a) => (pte[s][w] # 0 => w * PGSIZE < k * PGSIZE)
      BY <1>3 DEF MappedTo, GoneTo
    <3>2. w * PGSIZE < k * PGSIZE <=> w < k
      <4>1. w \in Int /\ k \in Int /\ PGSIZE \in Nat \ {0}
        BY VPagesNat, MemoryConstants
      <4>2. QED
        BY <4>1, TimesLess
    <3>3. w * PGSIZE < b <=> w < k + 1
      <4>1. w \in Int /\ k + 1 \in Int /\ PGSIZE \in Nat \ {0}
        BY VPagesNat, MemoryConstants
      <4>2. PICK j \in Int : j = k + 1 /\ b = j * PGSIZE
        BY <1>5, <4>1
      <4>3. w * PGSIZE < j * PGSIZE <=> w < j
        BY <4>1, TimesLess
      <4>4. QED
        BY <4>2, <4>3
    <3>4. w \in Nat
      BY VPagesNat
    <3>5. CASE w = k
      BY <1>2, <1>4, <1>11, <3>3, <3>5
    <3>6. CASE w # k
      <4>1. pte'[s][w] = pte[s][w]
        BY <1>2, <1>4, <3>6
      <4>2. w < k <=> w < k + 1
        BY <3>4, <3>6
      <4> QED
        BY <3>1, <3>2, <3>3, <4>1, <4>2
    <3>7. QED
      BY <3>5, <3>6
  <2>2. /\ MappedTo(s, op[p].a) => MappedTo(s, b)'
        /\ GoneTo(s, op[p].a) => MappedIn(s, b)'
    <3>1. b' = b /\ s' = s
      OBVIOUS
    <3>2. MappedTo(s, op[p].a) => MappedTo(s, b)'
      BY <2>1, <3>1 DEF MappedTo
    <3>3. GoneTo(s, op[p].a) /\ k # 0 => GoneTo(s, b)'
      BY <1>2, <1>4, <2>1, <3>1, PageZero DEF GoneTo
    <3>4. GoneTo(s, op[p].a) /\ k = 0 => MappedTo(s, op[p].a)
      <4>1. ASSUME NEW w \in VPages PROVE ~(w * PGSIZE < 0)
        BY VPagesNat, RoundSame
      <4>2. k = 0 => op[p].a = 0
        BY <1>3, PageZero
      <4>3. QED
        BY <4>1, <4>2 DEF GoneTo, MappedTo
    <3>5. QED
      BY <3>2, <3>3, <3>4 DEF MappedIn
  <2>3. /\ MappedIn(s, b)'
        /\ op[p].kind # "sbrk" => MappedTo(s, b)'
    <3>1. MappedIn(s, op[p].a) /\ (op[p].kind # "sbrk" => MappedTo(s, op[p].a))
      BY <1>1, <1>2, <1>11 DEF Progress
    <3>2. QED
      BY <2>2, <3>1 DEF MappedIn
  <2>4. b <= PGROUNDUP(op[p].new)
    <3>1. PICK n \in Nat : n = op[p].new
      BY SizeType
    <3>2. k * PGSIZE < n
      BY <1>3, <1>11, <3>1
    <3>3. QED
      BY <1>3, <1>5, <3>1, <3>2, RoundStep
  <2>5. op[p].kind = "sbrk" => op[p].old = sz[p] /\ PGROUNDUP(sz[p]) <= b
    <3>1. op[p].kind = "sbrk" => op[p].old = sz[p] /\ PGROUNDUP(sz[p]) <= op[p].a
      BY <1>11 DEF Progress
    <3>2. PGROUNDUP(sz[p]) \in Nat /\ op[p].a \in Nat /\ PGSIZE \in Nat
      BY SizeType, RoundType
    <3>3. QED
      BY <1>5, <3>1, <3>2
  <2>6. k + 1 \in Nat
    OBVIOUS
  <2>7. op[p].kind = "fork" => op[p].new = sz[p]
    BY <1>11 DEF Progress
  <2>8. QED
    BY <1>1, <1>2, <1>5, <1>8, <1>9, <2>3, <2>4, <2>5, <2>6, <2>7 DEF Progress
<1>14. QED
  BY <1>10, <1>12, <1>13 DEF SizeInv

(* However a call fails: in sbrk(), the pages beyond the old size go.      *)
LEMMA FailSized ==
  ASSUME PageInv, SizeInv, NEW p \in Procs, op[p].pc # "user", Fail(p)
  PROVE  SizeInv'
<1>1. /\ Return(p) /\ sz' = sz /\ Types /\ state[p] = "run" /\ op[p].s \in Spaces
      /\ FailSbrk(p) \/ FailExec(p) \/ FailFork(p)
  BY TargetIs DEF Fail, PageInv
<1>2. \A u \in Spaces \ {op[p].s} : pte'[u] = pte[u]
  <2>1. CASE FailSbrk(p)
    <3>1. GrownPart(p) \subseteq VPages
      BY DEF GrownPart, Mapped
    <3>2. QED
      BY <1>1, <2>1, <3>1, UnmappedIs DEF FailSbrk
  <2>2. CASE FailExec(p) \/ FailFork(p)
    BY <1>1, <2>2, ClearedIs DEF FailExec, FailFork, SpaceSame
  <2>3. QED
    BY <1>1, <2>1, <2>2
<1>3. \A q \in Procs : state'[q] = "run" => state[q] = "run"
  <2>1. CASE state' = state
    BY <2>1
  <2>2. CASE FailFork(p)
    BY <1>1, <2>2 DEF FailFork, Types
  <2>3. QED
    BY <1>1, <2>1, <2>2 DEF FailSbrk, FailExec
<1>4. ASSUME NEW q \in Procs \ {p} PROVE Sized(q)' /\ Progress(q)'
  BY <1>1, <1>2, <1>3, ReturnIs, OthersSized
<1>5. Sized(p)'
  <2>1. <<p, "cur">> \in Spaces
    BY DEF Spaces
  <2>2. CASE FailSbrk(p)
    <3>1. PICK s \in Spaces, vs \in {GrownPart(p)} : /\ s = op[p].s /\ vs = GrownPart(p) /\ s = <<p, "cur">>
                                  /\ op[p].kind = "sbrk" /\ pte' = Unmapped(s, vs)
      BY <1>1, <2>2 DEF FailSbrk, PageInv, SlotInv, Target
    <3>2. vs \subseteq VPages
      BY <3>1 DEF GrownPart, Mapped
    <3>3. /\ \A v \in vs : pte'[s][v] = 0
          /\ \A v \in VPages \ vs : pte'[s][v] = pte[s][v]
      BY <1>1, <3>1, <3>2, UnmappedIs
    <3>4. PICK a \in Nat, m \in Nat, n \in Nat :
            a = op[p].a /\ m = sz[p] /\ n = op[p].new
      BY SizeType
    <3>5. op[p].pc \in {"alloc", "map"}
      BY <1>1, <3>1 DEF PageInv, SlotInv, Phase, Types, Calls, PCs
    <3>6. MappedIn(s, a) /\ a <= PGROUNDUP(n) /\ op[p].old = m /\ PGROUNDUP(m) <= a
      BY <3>1, <3>4, <3>5 DEF SizeInv, Progress
    <3>7. ASSUME NEW v \in VPages
          PROVE  /\ MappedTo(s, a) => (pte'[s][v] # 0 <=> v * PGSIZE < m)
                 /\ GoneTo(s, a) => (pte'[s][v] # 0 => v * PGSIZE < m)
      <4>1. v \in vs <=> /\ PGROUNDUP(m) <= v * PGSIZE /\ v * PGSIZE < n
                         /\ pte[s][v] # 0
        BY <3>1, <3>4, <3>6 DEF GrownPart, Mapped
      <4>2. /\ MappedTo(s, a) => (pte[s][v] # 0 <=> v * PGSIZE < a)
            /\ GoneTo(s, a) => (pte[s][v] # 0 => v * PGSIZE < a)
        BY DEF MappedTo, GoneTo
      <4>3. PICK x \in Nat : /\ x = v * PGSIZE
                             /\ x < PGROUNDUP(m) <=> x < m
                             /\ x < PGROUNDUP(n) <=> x < n
        <5>1. v \in Nat
          BY VPagesNat
        <5>2. QED
          BY <3>4, <5>1, RoundSame
      <4>4. PGROUNDUP(m) \in Nat /\ PGROUNDUP(n) \in Nat
        BY RoundType
      <4>5. x < a /\ ~(PGROUNDUP(m) <= x /\ x < n) <=> x < m
        BY <3>6, <4>3, <4>4
      <4>6. pte'[s][v] # 0 <=> v \notin vs /\ pte[s][v] # 0
        BY <3>3
      <4>7. QED
        BY <4>1, <4>2, <4>3, <4>5, <4>6
    <3>8. MappedIn(<<p, "cur">>, sz[p])'
      <4>1. MappedTo(s, a) => MappedTo(<<p, "cur">>, sz[p])'
        BY <1>1, <3>1, <3>4, <3>7 DEF MappedTo
      <4>2. pte[s][0] = 0 => pte'[s][0] = 0
        BY <3>3, PageZero
      <4>3. GoneTo(s, a) => GoneTo(<<p, "cur">>, sz[p])'
        BY <1>1, <3>1, <3>4, <3>7, <4>2 DEF GoneTo
      <4>4. QED
        BY <3>6, <4>1, <4>3 DEF MappedIn
    <3>9. QED
      BY <3>8 DEF Sized
  <2>3. CASE FailExec(p) \/ FailFork(p)
    <3>1. op[p].kind # "sbrk" /\ op[p].s # <<p, "cur">>
      BY <2>3, TargetIs DEF FailExec, FailFork
    <3>2. pte'[<<p, "cur">>] = pte[<<p, "cur">>]
      BY <1>2, <2>1, <3>1
    <3>3. Sized(p)
      BY DEF SizeInv
    <3>4. QED
      BY <1>1, <3>1, <3>2, <3>3 DEF Sized, MappedIn, MappedTo, GoneTo
  <2>4. QED
    BY <1>1, <2>2, <2>3
<1>6. QED
  BY <1>1, <1>4, <1>5, ReturnProgress DEF SizeInv

(* sbrk() gives back what lies beyond the new size; all, if that is zero.  *)
LEMMA SbrkLessSized ==
  ASSUME PageInv, SizeInv, NEW p \in Procs, NEW n \in Grow, SbrkLess(p, n)
  PROVE  SizeInv'
<1>1. PICK s \in Spaces, vs \in {Mapped(<<p, "cur">>, sz[p] + n, sz[p])} : s = <<p, "cur">> /\ vs = Mapped(s, sz[p] + n, sz[p])
  BY DEF Spaces
<1>2. PICK m \in Nat, o \in Nat : o = sz[p] /\ m = sz[p] + n /\ m < o
  <2>1. n \in Int /\ sz[p] \in Nat
    BY SizeType, MemoryConstants
  <2>2. n < 0 /\ sz[p] + n >= 0
    BY DEF SbrkLess
  <2>3. QED
    BY <2>1, <2>2
<1>3. /\ state[p] = "run" /\ op[p].pc = "user" /\ pte' = Unmapped(s, vs)
      /\ sz' = [sz EXCEPT ![p] = IF m = 0 THEN o ELSE m] /\ UNCHANGED <<state, op>>
  BY <1>1, <1>2 DEF SbrkLess, At, SizeAfter
<1>4. vs \subseteq VPages
  BY <1>1 DEF Mapped
<1>5. /\ \A v \in vs : pte'[s][v] = 0
      /\ \A v \in VPages \ vs : pte'[s][v] = pte[s][v]
      /\ \A u \in Spaces \ {s} : pte'[u] = pte[u]
  BY <1>3, <1>4, UnmappedIs DEF PageInv
<1>6. sz'[p] = (IF m = 0 THEN o ELSE m) /\ \A q \in Procs \ {p} : sz'[q] = sz[q]
  BY <1>3 DEF PageInv, Types
<1>7. ASSUME NEW q \in Procs \ {p} PROVE Sized(q)' /\ Progress(q)'
  <2>1. <<q, "cur">> \in Spaces \ {s}
    BY <1>1 DEF Spaces
  <2>2. op[q].pc # "user" => op[q].s \in Spaces \ {s}
    BY <1>1, <1>3, TargetIs
  <2>3. QED
    BY <1>3, <1>5, <1>6, <2>1, <2>2, SizedKept
<1>8. op[p].kind = "none" /\ op'[p] = op[p]
  BY <1>3 DEF PageInv, SlotInv, Phase, NoOp
<1>9. Sized(p)'
  <2>1. MappedIn(s, o)
    BY <1>1, <1>2, <1>3, <1>8 DEF SizeInv, Sized
  <2>2. ASSUME NEW v \in VPages
        PROVE  /\ MappedTo(s, o) => (pte'[s][v] # 0 <=> v * PGSIZE < m)
               /\ GoneTo(s, o) => (pte'[s][v] # 0 => v * PGSIZE < m)
    <3>1. v \in vs <=> PGROUNDUP(m) <= v * PGSIZE /\ v * PGSIZE < o /\ pte[s][v] # 0
      BY <1>1, <1>2 DEF Mapped
    <3>2. /\ MappedTo(s, o) => (pte[s][v] # 0 <=> v * PGSIZE < o)
          /\ GoneTo(s, o) => (pte[s][v] # 0 => v * PGSIZE < o)
      BY DEF MappedTo, GoneTo
    <3>3. PICK x \in Nat : x = v * PGSIZE /\ (x < PGROUNDUP(m) <=> x < m)
      BY VPagesNat, RoundSame
    <3>4. PGROUNDUP(m) \in Nat
      BY RoundType
    <3>5. pte'[s][v] # 0 <=> v \notin vs /\ pte[s][v] # 0
      BY <1>5
    <3>6. QED
      BY <1>2, <3>1, <3>2, <3>3, <3>4, <3>5
  <2>3. MappedIn(<<p, "cur">>, sz[p])'
    <3>1. CASE m # 0
      <4>1. MappedTo(s, o) => MappedTo(<<p, "cur">>, sz[p])'
        BY <1>1, <1>6, <2>2, <3>1 DEF MappedTo
      <4>2. pte[s][0] = 0 => pte'[s][0] = 0
        BY <1>5, PageZero
      <4>3. GoneTo(s, o) => GoneTo(<<p, "cur">>, sz[p])'
        BY <1>1, <1>6, <2>2, <3>1, <4>2 DEF GoneTo
      <4>4. QED
        BY <2>1, <4>1, <4>3 DEF MappedIn
    <3>2. CASE m = 0
      <4>1. ASSUME NEW v \in VPages PROVE pte'[s][v] = 0
        <5>1. ~(v * PGSIZE < 0)
          BY VPagesNat, RoundSame
        <5>2. QED
          BY <2>1, <2>2, <3>2, <5>1 DEF MappedIn
      <4>2. GoneTo(<<p, "cur">>, sz[p])'
        BY <1>1, <4>1, PageZero DEF GoneTo
      <4>3. QED
        BY <4>2 DEF MappedIn
    <3>3. QED
      BY <3>1, <3>2
  <2>4. QED
    BY <2>3 DEF Sized
<1>10. Progress(p)'
  BY <1>3, <1>8 DEF Progress
<1>11. QED
  BY <1>7, <1>9, <1>10 DEF SizeInv

(* sbrk() starts with the page after the last.                             *)
LEMMA SbrkMoreSized ==
  ASSUME PageInv, SizeInv, NEW p \in Procs, NEW n \in Grow, SbrkMore(p, n)
  PROVE  SizeInv'
<1>1. /\ state[p] = "run" /\ op[p].pc = "user" /\ n > 0 /\ UNCHANGED <<state, sz, pte>>
  BY DEF SbrkMore, At, spaceVars
<1>2. PICK a \in Nat, b \in Nat, c \in Nat :
        a = PGROUNDUP(b) /\ b = sz[p] /\ c = sz[p] + n /\ b <= c
  <2>1. n \in Int /\ sz[p] \in Nat
    BY SizeType, MemoryConstants
  <2>2. sz[p] + n \in Nat /\ sz[p] <= sz[p] + n
    BY <1>1, <2>1
  <2>3. QED
    BY <2>1, <2>2, RoundType
<1>3. PICK r : r = [NoOp EXCEPT !.pc = "alloc", !.kind = "sbrk", !.s = <<p, "cur">>,
                                !.a = a, !.old = b, !.new = c]
  OBVIOUS
<1>4. op' = [op EXCEPT ![p] = r]
  BY <1>2, <1>3 DEF SbrkMore, FirstPage
<1>5. /\ r.pc = "alloc" /\ r.kind = "sbrk" /\ r.s = <<p, "cur">> /\ r.a = a /\ r.old = b
      /\ r.new = c
  BY <1>3 DEF NoOp
<1>6. op'[p] = r /\ \A q \in Procs \ {p} : op'[q] = op[q]
  BY <1>4 DEF PageInv, Types
<1>7. ASSUME NEW q \in Procs \ {p} PROVE Sized(q)' /\ Progress(q)'
  BY <1>1, <1>6, SizedKept
<1>8. Sized(p)'
  BY <1>5, <1>6 DEF Sized
<1>9. Progress(p)'
  <2>1. op[p].kind # "sbrk"
    BY <1>1 DEF PageInv, SlotInv, Phase, NoOp
  <2>2. MappedIn(<<p, "cur">>, b)
    BY <1>1, <1>2, <2>1 DEF SizeInv, Sized
  <2>3. MappedIn(<<p, "cur">>, a)
    BY <1>2, <2>2, MappedRound
  <2>4. MappedIn(<<p, "cur">>, a)'
    BY <1>1, <2>3 DEF MappedIn, MappedTo, GoneTo
  <2>5. \E k \in Nat : a = k * PGSIZE
    BY <1>2, RoundUp
  <2>6. a <= PGROUNDUP(c)
    BY <1>2, RoundMono
  <2>7. PGROUNDUP(sz[p]) <= a
    BY <1>2
  <2>8. QED
    BY <1>1, <1>2, <1>5, <1>6, <2>4, <2>5, <2>6, <2>7 DEF Progress
<1>10. QED
  BY <1>7, <1>8, <1>9 DEF SizeInv

(* exec() starts, goes on to another segment, or to the stack.             *)
LEMMA ExecSized ==
  ASSUME PageInv, SizeInv, NEW p \in Procs, Exec(p)
  PROVE  SizeInv'
<1>1. state[p] = "run" /\ op[p].pc = "user" /\ UNCHANGED <<state, sz, pte>>
  BY DEF Exec, At, spaceVars
<1>2. PICK r : r = [NoOp EXCEPT !.pc = "dir", !.kind = "exec", !.s = <<p, "new">>]
  OBVIOUS
<1>3. op' = [op EXCEPT ![p] = r]
  BY <1>2 DEF Exec
<1>4. r.pc = "dir" /\ r.kind = "exec" /\ r.a = 0
  BY <1>2 DEF NoOp
<1>5. op'[p] = r /\ \A q \in Procs \ {p} : op'[q] = op[q]
  BY <1>3 DEF PageInv, Types
<1>6. ASSUME NEW q \in Procs \ {p} PROVE Sized(q)' /\ Progress(q)'
  BY <1>1, <1>5, SizedKept
<1>7. op[p].kind # "sbrk"
  BY <1>1 DEF PageInv, SlotInv, Phase, NoOp
<1>8. Sized(p)' /\ Progress(p)'
  BY <1>1, <1>4, <1>5, <1>7 DEF SizeInv, Sized, Progress, MappedIn, MappedTo, GoneTo
<1>9. QED
  BY <1>6, <1>8 DEF SizeInv

LEMMA ExecOnSized ==
  ASSUME PageInv, SizeInv, NEW p \in Procs,
         (\E n \in Segments : ExecSegment(p, n)) \/ ExecStack(p)
  PROVE  SizeInv'
<1>1. /\ AllAllocated(p) /\ state[p] = "run" /\ op[p].pc = "alloc" /\ op[p].kind = "exec"
      /\ UNCHANGED <<state, sz, pte>>
  BY DEF ExecSegment, ExecStack, AllAllocated, At, spaceVars
<1>2. PICK m \in Nat : m = op[p].new /\ PGROUNDUP(m) \in Nat
  BY SizeType, RoundType
<1>3. PICK r : /\ op' = [op EXCEPT ![p] = r] /\ r.pc = "alloc" /\ r.s = op[p].s
               /\ r.kind \in {"exec", "stack"} /\ r.a = PGROUNDUP(m)
               /\ r.a <= PGROUNDUP(r.new)
  <2>1. CASE \E n \in Segments : ExecSegment(p, n)
    <3>1. PICK n \in Nat : n \in Segments /\ ExecSegment(p, n)
      BY <2>1, MemoryConstants
    <3>2. PICK a \in Nat, b \in Nat : a = PGROUNDUP(m) /\ b = IF n < m THEN m ELSE n
      BY <1>2
    <3>3. PICK r : r = [op[p] EXCEPT !.a = a, !.old = m, !.new = b]
      OBVIOUS
    <3>4. op' = [op EXCEPT ![p] = r]
      BY <1>2, <3>1, <3>2, <3>3 DEF ExecSegment, FirstPage
    <3>5. /\ r.pc = op[p].pc /\ r.s = op[p].s /\ r.kind = op[p].kind /\ r.a = a /\ r.new = b
      BY <3>3, SizeType DEF Calls
    <3>6. m <= b
      BY <3>2
    <3>7. a <= PGROUNDUP(b)
      BY <3>2, <3>6, RoundMono
    <3>8. QED
      BY <1>1, <3>2, <3>4, <3>5, <3>7
  <2>2. CASE ExecStack(p)
    <3>1. PICK t \in Nat, b \in Nat : t = PGROUNDUP(m) /\ b = t + 2 * PGSIZE /\ t <= b
      BY <1>2, SizeType
    <3>2. PICK r : r = [op[p] EXCEPT !.kind = "stack", !.a = t, !.old = t, !.new = b]
      OBVIOUS
    <3>3. op' = [op EXCEPT ![p] = r]
      BY <1>2, <2>2, <3>1, <3>2 DEF ExecStack
    <3>4. r.pc = op[p].pc /\ r.s = op[p].s /\ r.kind = "stack" /\ r.a = t /\ r.new = b
      BY <3>2, SizeType DEF Calls
    <3>5. t <= PGROUNDUP(b)
      <4>1. b <= PGROUNDUP(b) /\ PGROUNDUP(b) \in Nat
        BY RoundUp
      <4>2. QED
        BY <3>1, <4>1
    <3>6. QED
      BY <1>1, <3>1, <3>3, <3>4, <3>5
  <2>3. QED
    BY <2>1, <2>2
<1>4. op'[p] = r /\ \A q \in Procs \ {p} : op'[q] = op[q]
  BY <1>3 DEF PageInv, Types
<1>5. ASSUME NEW q \in Procs \ {p} PROVE Sized(q)' /\ Progress(q)'
  BY <1>1, <1>4, OthersSized
<1>6. Sized(p)'
  BY <1>1, <1>3, <1>4 DEF SizeInv, Sized, MappedIn, MappedTo, GoneTo
<1>7. Progress(p)'
  <2>1. MappedTo(r.s, r.a)
    BY <1>1, <1>2, <1>3, LoopDone
  <2>2. MappedTo(op[p].s, op[p].a)'
    BY <1>1, <1>4, <2>1 DEF MappedTo
  <2>3. \E k \in Nat : r.a = k * PGSIZE
    BY <1>2, <1>3, RoundUp
  <2>4. QED
    BY <1>3, <1>4, <2>2, <2>3 DEF Progress, MappedIn
<1>8. QED
  BY <1>5, <1>6, <1>7 DEF SizeInv

(* sbrk() has what it asked for.                                           *)
LEMMA SbrkDoneSized ==
  ASSUME PageInv, SizeInv, NEW p \in Procs, SbrkDone(p)
  PROVE  SizeInv'
<1>1. /\ AllAllocated(p) /\ state[p] = "run" /\ op[p].pc = "alloc" /\ op[p].kind = "sbrk"
      /\ sz' = [sz EXCEPT ![p] = op[p].new] /\ Return(p) /\ UNCHANGED <<state, pte>>
  BY DEF SbrkDone, AllAllocated, At, spaceVars
<1>2. sz'[p] = op[p].new /\ \A q \in Procs \ {p} : sz'[q] = sz[q]
  BY <1>1 DEF PageInv, Types
<1>3. ASSUME NEW q \in Procs \ {p} PROVE Sized(q)' /\ Progress(q)'
  BY <1>1, <1>2, ReturnIs, SizedKept
<1>4. op[p].s = <<p, "cur">>
  BY <1>1 DEF PageInv, SlotInv, Target
<1>5. MappedIn(<<p, "cur">>, op[p].new)
  BY <1>1, <1>4, LoopDone
<1>6. Sized(p)'
  BY <1>1, <1>2, <1>5 DEF Sized, MappedIn, MappedTo, GoneTo
<1>7. QED
  BY <1>1, <1>3, <1>6, ReturnProgress DEF SizeInv

(* fork() starts, and ends with the child mapped as the parent.            *)
LEMMA ForkSized ==
  ASSUME PageInv, SizeInv, NEW p \in Procs, NEW c \in Procs, Fork(p, c)
  PROVE  SizeInv'
<1>1. /\ state[p] = "run" /\ op[p].pc = "user" /\ state[c] = "unused" /\ p # c
      /\ state' = [state EXCEPT ![c] = "embryo"] /\ UNCHANGED <<sz, pte>>
  BY DEF Fork, At, spaceVars
<1>2. PICK r : r = [NoOp EXCEPT !.pc = "dir", !.kind = "fork", !.s = <<c, "cur">>, !.new = sz[p]]
  OBVIOUS
<1>3. op' = [op EXCEPT ![p] = r]
  BY <1>2 DEF Fork
<1>4. r.pc = "dir" /\ r.kind = "fork" /\ r.a = 0 /\ r.new = sz[p]
  BY <1>2 DEF NoOp
<1>5. op'[p] = r /\ \A q \in Procs \ {p} : op'[q] = op[q]
  BY <1>3 DEF PageInv, Types
<1>6. state'[p] = "run" /\ \A q \in Procs : state'[q] = "run" => state[q] = "run"
  BY <1>1 DEF PageInv, Types
<1>7. ASSUME NEW q \in Procs \ {p} PROVE Sized(q)' /\ Progress(q)'
  BY <1>1, <1>5, <1>6, SizedKept
<1>8. op[p].kind # "sbrk"
  BY <1>1 DEF PageInv, SlotInv, Phase, NoOp
<1>9. Sized(p)' /\ Progress(p)'
  BY <1>1, <1>4, <1>5, <1>8 DEF SizeInv, Sized, Progress, MappedIn, MappedTo, GoneTo
<1>10. QED
  BY <1>7, <1>9 DEF SizeInv

LEMMA ForkDoneSized ==
  ASSUME PageInv, SizeInv, NEW p \in Procs, ForkDone(p)
  PROVE  SizeInv'
<1>1. /\ AllAllocated(p) /\ state[p] = "run" /\ op[p].pc = "alloc" /\ op[p].kind = "fork"
      /\ Return(p) /\ pte' = pte
      /\ sz' = [sz EXCEPT ![op[p].s[1]] = sz[p]]
      /\ state' = [state EXCEPT ![op[p].s[1]] = "run"]
  BY DEF ForkDone, AllAllocated, At, spaceVars
<1>2. PICK c \in Procs : op[p].s = <<c, "cur">> /\ state[c] = "embryo" /\ p # c
  BY <1>1 DEF PageInv, SlotInv, Target
<1>3. op[p].s[1] = c
  BY <1>2
<1>4. /\ sz'[c] = sz[p] /\ \A q \in Procs \ {c} : sz'[q] = sz[q] /\ state'[q] = state[q]
  BY <1>1, <1>3 DEF PageInv, Types
<1>5. ASSUME NEW q \in Procs \ {p, c} PROVE Sized(q)' /\ Progress(q)'
  BY <1>1, <1>4, ReturnIs, SizedKept
<1>6. Sized(p)'
  BY <1>1, <1>2, <1>4 DEF SizeInv, Sized, MappedIn, MappedTo, GoneTo
<1>7. Sized(c)'
  <2>1. op[p].new = sz[p]
    BY <1>1 DEF SizeInv, Progress
  <2>2. MappedTo(<<c, "cur">>, sz[p])
    BY <1>1, <1>2, <2>1, LoopDone
  <2>3. QED
    BY <1>1, <1>4, <2>2 DEF Sized, MappedIn, MappedTo
<1>8. Progress(c)'
  <2>1. op'[c] = op[c] /\ op[c].kind = "none" /\ op[c].pc = "user"
    BY <1>1, <1>2, ReturnIs, NoCall
  <2>2. QED
    BY <2>1 DEF Progress
<1>9. QED
  BY <1>1, <1>5, <1>6, <1>7, <1>8, ReturnProgress DEF SizeInv

(* exec() commits to a space that is mapped up to the new size.            *)
LEMMA ExecCommitSized ==
  ASSUME PageInv, SizeInv, NEW p \in Procs, ExecCommit(p)
  PROVE  SizeInv'
<1>1. PICK s \in Spaces, n \in Spaces : s = <<p, "cur">> /\ n = <<p, "new">>
  <2>1. <<p, "cur">> \in Spaces /\ <<p, "new">> \in Spaces
    BY DEF Spaces
  <2>2. QED
    BY <2>1
<1>2. /\ AllAllocated(p) /\ state[p] = "run" /\ op[p].pc = "alloc" /\ op[p].kind = "stack"
      /\ Return(p) /\ sz' = [sz EXCEPT ![p] = op[p].new] /\ state' = state
  BY DEF ExecCommit, AllAllocated, At
<1>3. Types /\ op[p].s = n
  BY <1>1, <1>2 DEF PageInv, SlotInv, Target
<1>4. pte'[s] = pte[n] /\ \A u \in Spaces \ {s, n} : pte'[u] = pte[u]
  BY <1>1, <1>3 DEF ExecCommit, Types
<1>5. sz'[p] = op[p].new /\ \A q \in Procs \ {p} : sz'[q] = sz[q]
  BY <1>2, <1>3 DEF Types
<1>6. ASSUME NEW q \in Procs \ {p} PROVE Sized(q)' /\ Progress(q)'
  <2>1. <<q, "cur">> \in Spaces \ {s, n}
    BY <1>1 DEF Spaces
  <2>2. op[q].pc # "user" => op[q].s \in Spaces \ {s, n}
    BY <1>1, <1>2, TargetIs
  <2>3. QED
    BY <1>2, <1>4, <1>5, <2>1, <2>2, ReturnIs, SizedKept
<1>7. MappedTo(n, op[p].new)
  BY <1>2, <1>3, LoopDone
<1>8. Sized(p)'
  BY <1>1, <1>2, <1>4, <1>5, <1>7 DEF Sized, MappedIn, MappedTo
<1>9. QED
  BY <1>2, <1>6, <1>8, ReturnProgress DEF SizeInv

(* exit() and wait().                                                      *)
LEMMA ExitSized ==
  ASSUME PageInv, SizeInv, NEW p \in Procs, Exit(p)
  PROVE  SizeInv'
<1>1. state' = [state EXCEPT ![p] = "zombie"] /\ UNCHANGED <<sz, pte, op>>
  BY DEF Exit, spaceVars
<1>2. \A q \in Procs : state'[q] = "run" => state[q] = "run"
  BY <1>1 DEF PageInv, Types
<1>3. ASSUME NEW q \in Procs PROVE Sized(q)' /\ Progress(q)'
  BY <1>1, <1>2, SizedKept
<1>4. QED
  BY <1>3 DEF SizeInv

LEMMA WaitSized ==
  ASSUME PageInv, SizeInv, NEW p \in Procs, NEW c \in Procs, Wait(p, c)
  PROVE  SizeInv'
<1>1. PICK s \in Spaces : s = <<c, "cur">>
  BY DEF Spaces
<1>2. /\ state[c] = "zombie" /\ Cleared(s) /\ state' = [state EXCEPT ![c] = "unused"]
      /\ UNCHANGED <<sz, op>>
  BY <1>1 DEF Wait
<1>3. \A u \in Spaces \ {s} : pte'[u] = pte[u]
  BY <1>2, ClearedIs DEF PageInv, SpaceSame
<1>4. \A q \in Procs : state'[q] = "run" => state[q] = "run"
  BY <1>2 DEF PageInv, Types
<1>5. ASSUME NEW q \in Procs PROVE Sized(q)' /\ Progress(q)'
  <2>1. state[q] = "run" => <<q, "cur">> \in Spaces \ {s}
    BY <1>1, <1>2 DEF Spaces
  <2>2. op[q].pc # "user" => op[q].s \in Spaces \ {s}
    BY <1>1, <1>2, TargetIs
  <2>3. QED
    BY <1>2, <1>3, <1>4, <2>1, <2>2, SizedKept
<1>6. QED
  BY <1>5 DEF SizeInv

LEMMA SameSized ==
  ASSUME PageInv, SizeInv, UNCHANGED vars
  PROVE  SizeInv'
<1>1. UNCHANGED <<state, sz, pte, op>>
  BY DEF vars, spaceVars
<1>2. ASSUME NEW q \in Procs PROVE Sized(q)' /\ Progress(q)'
  BY <1>1, SizedKept
<1>3. QED
  BY <1>2 DEF SizeInv

-----------------------------------------------------------------------------
(* Every step keeps the sizes                                              *)

LEMMA InitSized == Init => SizeInv
<1> SUFFICES ASSUME Init PROVE SizeInv
  OBVIOUS
<1>1. ASSUME NEW p \in Procs PROVE Progress(p)
  <2>1. op[p] = NoOp
    BY DEF Init
  <2>2. QED
    BY <2>1 DEF Progress, NoOp
<1>2. ASSUME NEW p \in Procs PROVE Sized(p)
  <2>1. CASE p # First
    BY <2>1 DEF Init, Sized
  <2>2. CASE p = First
    <3>1. PICK s \in Spaces : s = <<First, "cur">>
      BY MemoryConstants DEF Spaces
    <3>2. sz[p] = PGSIZE
      BY <2>2 DEF Init
    <3>3. ASSUME NEW v \in VPages PROVE pte[s][v] # 0 <=> v * PGSIZE < PGSIZE
      <4>1. pte[s][v] = IF v = 0 THEN 5 ELSE 0
        BY <3>1 DEF Init
      <4>2. PICK P \in Nat \ {0}, w \in Int, z \in Int : P = PGSIZE /\ w = v /\ w >= 0 /\ z = 0
        BY MemoryConstants, VPagesNat
      <4>3. w * P < (z * P) + P <=> w <= z
        BY TimesLess
      <4>4. z * P = 0
        BY <4>2
      <4>5. w * P < P <=> w = 0
        BY <4>2, <4>3, <4>4
      <4>6. QED
        BY <4>1, <4>2, <4>5
    <3>4. QED
      BY <2>2, <3>1, <3>2, <3>3 DEF Sized, MappedIn, MappedTo
  <2>3. QED
    BY <2>1, <2>2
<1>3. QED
  BY <1>1, <1>2 DEF SizeInv

LEMMA NextSized == PageInv /\ SizeInv /\ [Next]_vars => SizeInv'
<1> SUFFICES ASSUME PageInv, SizeInv, [Next]_vars PROVE SizeInv'
  OBVIOUS
<1>1. CASE UNCHANGED vars
  BY <1>1, SameSized
<1>2. CASE Next
  <2>1. PICK p \in Procs :
          \/ \E n \in Grow : SbrkRefused(p, n) \/ SbrkMore(p, n) \/ SbrkLess(p, n)
          \/ Exec(p) \/ \E n \in Segments : ExecSegment(p, n)
          \/ \E c \in Procs : Fork(p, c) \/ Wait(p, c)
          \/ ForkRefused(p) \/ ExecBad(p) \/ SetupDir(p) \/ SetupKernel(p) \/ NoMemory(p)
          \/ TooLarge(p) \/ Alloc(p) \/ MapPage(p) \/ MapTable(p) \/ MapFails(p)
          \/ SbrkDone(p) \/ ForkDone(p) \/ ExecStack(p) \/ ExecArgsBad(p) \/ ExecCommit(p)
          \/ Exit(p) \/ Halted
    BY <1>2 DEF Next
  <2>2. CASE \E n \in Grow : SbrkRefused(p, n) \/ SbrkMore(p, n) \/ SbrkLess(p, n)
    BY <2>2, SameSized, SbrkMoreSized, SbrkLessSized DEF SbrkRefused
  <2>3. CASE Exec(p)
    BY <2>3, ExecSized
  <2>4. CASE (\E n \in Segments : ExecSegment(p, n)) \/ ExecStack(p)
    BY <2>4, ExecOnSized
  <2>5. CASE \E c \in Procs : Fork(p, c) \/ Wait(p, c)
    BY <2>5, ForkSized, WaitSized
  <2>6. CASE ForkRefused(p) \/ Halted
    BY <2>6, SameSized DEF ForkRefused, Halted
  <2>7. CASE ExecBad(p) \/ NoMemory(p) \/ TooLarge(p) \/ MapFails(p) \/ ExecArgsBad(p)
    <3>1. op[p].pc # "user" /\ Fail(p)
      BY <2>7 DEF ExecBad, NoMemory, TooLarge, MapFails, ExecArgsBad, AllAllocated, At
    <3>2. QED
      BY <3>1, FailSized
  <2>8. CASE SetupDir(p) \/ SetupKernel(p)
    BY <2>8, SetupSized
  <2>9. CASE Alloc(p)
    BY <2>9, AllocSized
  <2>10. CASE MapPage(p) \/ MapTable(p)
    BY <2>10, MapSized
  <2>11. CASE SbrkDone(p) \/ ForkDone(p) \/ ExecCommit(p) \/ Exit(p)
    BY <2>11, SbrkDoneSized, ForkDoneSized, ExecCommitSized, ExitSized
  <2>12. QED
    BY <2>1, <2>2, <2>3, <2>4, <2>5, <2>6, <2>7, <2>8, <2>9, <2>10, <2>11
<1>3. QED
  BY <1>1, <1>2

(* p->sz tells what is mapped between the steps of all calls, and in a     *)
(* program that gave everything back what is mapped lies below it.         *)
THEOREM SizesInvariant == Spec => [](PageInv /\ SizeInv)
<1>1. Init => PageInv /\ SizeInv
  BY InitPages, InitSized
<1>2. (PageInv /\ SizeInv) /\ [Next]_vars => (PageInv /\ SizeInv)'
  BY NextPages, NextSized
<1>3. QED
  BY <1>1, <1>2, PTL DEF Spec

(* copyuvm() finds every page of a parent that has its first, and          *)
(* mappages() no entry in use; what is mapped is what lies below p->sz.    *)
LEMMA SizesNoPanic ==
  ASSUME PageInv, SizeInv
  PROVE  MappedBelowSize
<1>1. ASSUME NEW p \in Procs, NotPresent(p) PROVE GaveAllBack(p)
  <2>1. SUFFICES ASSUME Copying(p), ~GaveAllBack(p) PROVE pte[<<p, "cur">>][VPage(p)] # 0
    BY <1>1 DEF NotPresent
  <2>2. op[p].kind = "fork" /\ op[p].pc = "alloc" /\ op[p].a < op[p].new
    BY <2>1 DEF Copying
  <2>3. state[p] = "run" /\ op[p].new = sz[p] /\ MappedTo(<<p, "cur">>, sz[p])
    BY <2>1, <2>2 DEF PageInv, SlotInv, Phase, SizeInv, Sized, Progress, MappedIn, GoneTo,
                      GaveAllBack
  <2>4. PICK k \in Nat : op[p].a = k * PGSIZE
    BY <2>2 DEF SizeInv, Progress
  <2>5. VPage(p) = k
    BY <2>4, PageStart DEF VPage
  <2>6. VPage(p) \in VPages
    <3>1. op[p].a \in Nat /\ op[p].a < KERNBASE
      BY <2>2, <2>3, SizeType
    <3>2. QED
      BY <3>1, PageOf DEF VPage
  <2>7. QED
    BY <2>2, <2>3, <2>4, <2>5, <2>6 DEF MappedTo
<1>2. ASSUME NEW p \in Procs PROVE ~Remap(p)
  <2>1. SUFFICES ASSUME op[p].pc = "map" PROVE pte[op[p].s][VPage(p)] = 0
    BY DEF Remap
  <2>2. MappedIn(op[p].s, op[p].a)
    BY <2>1 DEF SizeInv, Progress
  <2>3. PICK k \in Nat : op[p].a = k * PGSIZE
    BY <2>1 DEF SizeInv, Progress
  <2>4. VPage(p) = k
    BY <2>3, PageStart DEF VPage
  <2>5. VPage(p) \in VPages
    <3>1. op[p].a \in Nat /\ op[p].a < KERNBASE
      <4>1. op[p].a < op[p].new /\ op[p].new < KERNBASE
        BY <2>1 DEF PageInv, SlotInv, Phase
      <4>2. QED
        BY <4>1, SizeType
    <3>2. QED
      BY <3>1, PageOf DEF VPage
  <2>6. k * PGSIZE \in Nat
    BY RoundSame
  <2>7. QED
    BY <2>2, <2>3, <2>4, <2>5, <2>6 DEF MappedIn, MappedTo, GoneTo
<1>3. ASSUME NEW p \in Procs, state[p] = "run", op[p].pc = "user"
      PROVE  LET mapped == {v \in VPages : pte[<<p, "cur">>][v] # 0}
                 below  == {v \in VPages : v * PGSIZE < sz[p]} IN
             mapped \subseteq below /\ (mapped = below \/ GaveAllBack(p))
  <2>1. op[p].kind # "sbrk"
    BY <1>3 DEF PageInv, SlotInv, Phase, NoOp
  <2>2. CASE MappedTo(<<p, "cur">>, sz[p])
    <3> DEFINE mapped == {v \in VPages : pte[<<p, "cur">>][v] # 0}
               below  == {v \in VPages : v * PGSIZE < sz[p]}
    <3>1. mapped = below
      BY <2>2 DEF MappedTo
    <3>2. QED
      BY <3>1
  <2>3. CASE GoneTo(<<p, "cur">>, sz[p])
    BY <2>3 DEF GoneTo, GaveAllBack
  <2>4. QED
    BY <1>3, <2>1, <2>2, <2>3 DEF SizeInv, Sized, MappedIn
<1>4. QED
  BY <1>1, <1>2, <1>3 DEF MappedBelowSize

(* Whenever a program runs, exactly the pages below its p->sz are mapped,  *)
(* through every failure of sbrk(), fork() and exec(); growproc() makes    *)
(* one exception, a program that gave all its memory back.  mappages() has *)
(* not panicked, and copyuvm() only for such a program.                    *)
THEOREM SizeIsMapped == Spec => []MappedBelowSize
<1>1. PageInv /\ SizeInv => MappedBelowSize
  BY SizesNoPanic
<1>2. QED
  BY <1>1, SizesInvariant, PTL
-----------------------------------------------------------------------------
(* Who gives everything back                                               *)

(* Programs that run have memory, and so has what exec() commits to.       *)
Positive(p) == (state[p] = "run" => sz[p] > 0) /\ (op[p].kind = "stack" => op[p].new > 0)
PositiveInv == \A p \in Procs : Positive(p)

LEMMA InitPositive == Init => PositiveInv
<1> SUFFICES ASSUME Init, NEW p \in Procs PROVE Positive(p)
  BY DEF PositiveInv
<1>1. op[p].kind = "none"
  BY DEF Init, NoOp
<1>2. state[p] = "run" => sz[p] = PGSIZE
  BY DEF Init
<1>3. PGSIZE > 0
  BY MemoryConstants
<1>4. QED
  BY <1>1, <1>2, <1>3 DEF Positive

(* A step that changes no size but that of p, and no call but that of p.   *)
LEMMA PositiveKept ==
  ASSUME PositiveInv, NEW q \in Procs, op'[q] = op[q] \/ op'[q].kind # "stack",
         sz'[q] = sz[q], state'[q] = "run" => state[q] = "run"
  PROVE  Positive(q)'
BY DEF PositiveInv, Positive

(* Calls that change no size and start no stack.                           *)
LEMMA CallPositive ==
  ASSUME PageInv, PositiveInv, sz' = sz,
         \A q \in Procs : op'[q] = op[q] \/ op'[q].kind # "stack",
         \A q \in Procs : state'[q] = "run" => state[q] = "run"
  PROVE  PositiveInv'
<1>1. ASSUME NEW q \in Procs PROVE Positive(q)'
  BY PositiveKept
<1>2. QED
  BY <1>1 DEF PositiveInv

(* The calls of a process: which one is left, and which states change.     *)
LEMMA LoopPositive ==
  ASSUME PageInv, PositiveInv, NEW p \in Procs,
         SetupDir(p) \/ SetupKernel(p) \/ Alloc(p) \/ MapPage(p) \/ MapTable(p)
  PROVE  PositiveInv'
<1>1. state' = state /\ sz' = sz
  BY DEF SetupDir, SetupKernel, Alloc, MapPage, MapTable, Entered
<1>2. op \in [Procs -> Calls] /\ op[p] \in Calls
  BY DEF PageInv, Types
<1>3. \A q \in Procs \ {p} : op'[q] = op[q]
  BY <1>2 DEF SetupDir, SetupKernel, Alloc, MapPage, MapTable, Entered, Goto
<1>4. op'[p].kind = op[p].kind /\ op'[p].new = op[p].new
  <2>1. CASE SetupDir(p) \/ SetupKernel(p)
    BY <1>2, <2>1 DEF SetupDir, SetupKernel, Goto, Calls
  <2>2. CASE Alloc(p)
    BY <1>2, <2>2 DEF Alloc, Calls
  <2>3. CASE MapPage(p) \/ MapTable(p)
    BY <1>2, <2>3 DEF MapPage, MapTable, Entered, Calls
  <2>4. QED
    BY <2>1, <2>2, <2>3
<1>5. ASSUME NEW q \in Procs PROVE Positive(q)'
  BY <1>1, <1>3, <1>4 DEF PositiveInv, Positive
<1>6. QED
  BY <1>5 DEF PositiveInv

LEMMA FailPositive ==
  ASSUME PageInv, PositiveInv, NEW p \in Procs, op[p].pc # "user", Fail(p)
  PROVE  PositiveInv'
<1>1. sz' = sz /\ Return(p) /\ (FailSbrk(p) \/ FailExec(p) \/ FailFork(p))
  BY DEF Fail
<1>2. \A q \in Procs : state'[q] = "run" => state[q] = "run"
  <2>1. CASE state' = state
    BY <2>1
  <2>2. CASE FailFork(p)
    BY <1>1, <2>2 DEF FailFork, PageInv, Types
  <2>3. QED
    BY <1>1, <2>1, <2>2 DEF FailSbrk, FailExec
<1>3. \A q \in Procs : op'[q] = op[q] \/ op'[q].kind # "stack"
  BY <1>1, ReturnIs DEF NoOp
<1>4. QED
  BY <1>1, <1>2, <1>3, CallPositive

(* sbrk() leaves a size that is not zero, fork() that of the parent, and   *)
(* exec() at least the two pages of the stack.                             *)
LEMMA ChangePositive ==
  ASSUME PageInv, SizeInv, PositiveInv, NEW p \in Procs,
         \/ \E n \in Grow : SbrkLess(p, n)
         \/ SbrkDone(p) \/ ForkDone(p) \/ ExecCommit(p)
  PROVE  PositiveInv'
<1>1. /\ op \in [Procs -> Calls] /\ state \in [Procs -> {"unused", "embryo", "run", "zombie"}]
      /\ sz \in [Procs -> 0..(KERNBASE - 1)] /\ KERNBASE \in Nat
  BY MemoryConstants DEF PageInv, Types
<1>2. Positive(p) /\ sz[p] \in Nat /\ op[p].new \in Nat /\ op[p].old \in Nat
  BY SizeType DEF PositiveInv
<1>3. CASE \E n \in Grow : SbrkLess(p, n)
  <2>1. PICK n \in Int : n \in Grow /\ SbrkLess(p, n)
    BY <1>3, MemoryConstants
  <2>2. state' = state /\ op' = op /\ state[p] = "run" /\ sz[p] + n >= 0
        /\ sz' = [sz EXCEPT ![p] = IF sz[p] + n = 0 THEN sz[p] ELSE sz[p] + n]
    BY <2>1 DEF SbrkLess, At, SizeAfter
  <2>3. sz'[p] > 0 /\ \A q \in Procs \ {p} : sz'[q] = sz[q]
    BY <1>1, <1>2, <2>2 DEF Positive
  <2>4. QED
    BY <2>2, <2>3 DEF PositiveInv, Positive
<1>4. CASE SbrkDone(p)
  <2>1. /\ state' = state /\ Return(p) /\ op[p].kind = "sbrk" /\ op[p].pc = "alloc"
        /\ op[p].a >= op[p].new /\ sz' = [sz EXCEPT ![p] = op[p].new] /\ state[p] = "run"
        /\ AllAllocated(p)
    BY <1>4 DEF SbrkDone, AllAllocated, At
  <2>2. op[p].new > 0
    <3>1. PGROUNDUP(sz[p]) <= op[p].a /\ op[p].a = PGROUNDUP(op[p].new)
      BY <2>1, LoopDone DEF SizeInv, Progress
    <3>2. PICK a \in Nat, b \in Nat : a = sz[p] /\ b = op[p].new /\ a > 0
      BY <1>2, <2>1 DEF Positive
    <3>3. a <= PGROUNDUP(a) /\ PGROUNDUP(a) \in Nat /\ PGROUNDUP(b) \in Nat
      BY RoundUp
    <3>4. PGROUNDUP(b) > 0
      BY <3>1, <3>2, <3>3
    <3>5. 0 * PGSIZE < PGROUNDUP(b) <=> 0 * PGSIZE < b
      BY RoundSame
    <3>6. QED
      BY <3>2, <3>4, <3>5, PageZero
  <2>3. sz'[p] > 0 /\ \A q \in Procs \ {p} : sz'[q] = sz[q]
    BY <1>1, <2>1, <2>2
  <2>4. \A q \in Procs : op'[q] = op[q] \/ op'[q].kind # "stack"
    BY <2>1, ReturnIs DEF NoOp
  <2>5. QED
    BY <2>1, <2>3, <2>4 DEF PositiveInv, Positive
<1>5. CASE ForkDone(p)
  <2>1. PICK c \in Procs : c = op[p].s[1]
    <3>1. op[p].kind = "fork"
      BY <1>5 DEF ForkDone
    <3>2. QED
      BY <3>1 DEF PageInv, SlotInv, Target
  <2>2. /\ Return(p) /\ state[p] = "run" /\ sz' = [sz EXCEPT ![c] = sz[p]]
        /\ state' = [state EXCEPT ![c] = "run"]
    BY <1>5, <2>1 DEF ForkDone, AllAllocated, At
  <2>3. \A q \in Procs : op'[q] = op[q] \/ op'[q].kind # "stack"
    BY <2>2, ReturnIs DEF NoOp
  <2>4. /\ sz'[c] = sz[p] /\ sz[p] > 0
        /\ \A q \in Procs \ {c} : sz'[q] = sz[q] /\ state'[q] = state[q]
    BY <1>1, <1>2, <2>2 DEF Positive
  <2>5. QED
    BY <2>3, <2>4 DEF PositiveInv, Positive
<1>6. CASE ExecCommit(p)
  <2>1. /\ state' = state /\ Return(p) /\ op[p].kind = "stack"
        /\ sz' = [sz EXCEPT ![p] = op[p].new]
    BY <1>6 DEF ExecCommit
  <2>2. sz'[p] > 0 /\ \A q \in Procs \ {p} : sz'[q] = sz[q]
    BY <1>1, <1>2, <2>1 DEF Positive
  <2>3. \A q \in Procs : op'[q] = op[q] \/ op'[q].kind # "stack"
    BY <2>1, ReturnIs DEF NoOp
  <2>4. QED
    BY <2>1, <2>2, <2>3 DEF PositiveInv, Positive
<1>7. QED
  BY <1>3, <1>4, <1>5, <1>6

LEMMA NextPositive == PageInv /\ SizeInv /\ PositiveInv /\ [Next]_vars => PositiveInv'
<1> SUFFICES ASSUME PageInv, SizeInv, PositiveInv, [Next]_vars PROVE PositiveInv'
  OBVIOUS
<1>1. op \in [Procs -> Calls] /\ state \in [Procs -> {"unused", "embryo", "run", "zombie"}]
  BY DEF PageInv, Types
<1>2. CASE UNCHANGED vars
  BY <1>2 DEF vars, PositiveInv, Positive
<1>3. CASE Next
  <2>1. PICK p \in Procs :
          \/ \E n \in Grow : SbrkRefused(p, n) \/ SbrkMore(p, n) \/ SbrkLess(p, n)
          \/ Exec(p) \/ \E n \in Segments : ExecSegment(p, n)
          \/ \E c \in Procs : Fork(p, c) \/ Wait(p, c)
          \/ ForkRefused(p) \/ ExecBad(p) \/ SetupDir(p) \/ SetupKernel(p) \/ NoMemory(p)
          \/ TooLarge(p) \/ Alloc(p) \/ MapPage(p) \/ MapTable(p) \/ MapFails(p)
          \/ SbrkDone(p) \/ ForkDone(p) \/ ExecStack(p) \/ ExecArgsBad(p) \/ ExecCommit(p)
          \/ Exit(p) \/ Halted
    BY <1>3 DEF Next
  <2>2. CASE (\E n \in Grow : SbrkRefused(p, n)) \/ ForkRefused(p) \/ Halted
    BY <2>2, <1>2 DEF SbrkRefused, ForkRefused, Halted
  <2>3. CASE (\E n \in Grow : SbrkMore(p, n)) \/ Exec(p)
    <3>1. sz' = sz /\ state' = state
      BY <2>3 DEF SbrkMore, Exec
    <3>2. \A q \in Procs : op'[q] = op[q] \/ op'[q].kind # "stack"
      BY <1>1, <2>3 DEF SbrkMore, Exec, NoOp
    <3>3. QED
      BY <3>1, <3>2, CallPositive
  <2>4. CASE \E n \in Segments : ExecSegment(p, n)
    <3>1. sz' = sz /\ state' = state
      BY <2>4 DEF ExecSegment
    <3>2. op[p] \in Calls /\ op[p].kind = "exec"
      BY <1>1, <2>4 DEF ExecSegment
    <3>3. \A q \in Procs : op'[q] = op[q] \/ op'[q].kind # "stack"
      <4>1. PICK n \in Segments : ExecSegment(p, n)
        BY <2>4
      <4>2. PICK a, b, c : op' = [op EXCEPT ![p] = [op[p] EXCEPT !.a = a, !.old = b, !.new = c]]
        BY <4>1 DEF ExecSegment
      <4>3. PICK r : r = [op[p] EXCEPT !.a = a, !.old = b, !.new = c]
        OBVIOUS
      <4>4. r.kind = "exec"
        BY <3>2, <4>3 DEF Calls
      <4>5. op' = [op EXCEPT ![p] = r]
        BY <4>2, <4>3, Zenon
      <4>6. op'[p] = r /\ \A q \in Procs \ {p} : op'[q] = op[q]
        BY <1>1, <4>5
      <4>7. op'[p].kind # "stack"
        <5>1. op'[p].kind = r.kind
          BY <4>6, Zenon
        <5>2. QED
          BY <4>4, <5>1
      <4>8. QED
        BY <4>6, <4>7, Zenon
    <3>4. QED
      BY <3>1, <3>3, CallPositive
  <2>5. CASE ExecStack(p)
    <3>1. PICK t \in Nat, P \in Nat \ {0} : t = PGROUNDUP(op[p].new) /\ P = PGSIZE
      BY SizeType, RoundType, MemoryConstants
    <3>2. PICK r : r = [op[p] EXCEPT !.kind = "stack", !.a = t, !.old = t, !.new = t + 2 * PGSIZE]
      OBVIOUS
    <3>3. op' = [op EXCEPT ![p] = r] /\ sz' = sz /\ state' = state
      BY <2>5, <3>1, <3>2 DEF ExecStack
    <3>4. r.new > 0
      <4>1. r.new = t + 2 * PGSIZE
        BY <1>1, <3>2 DEF Calls
      <4>2. QED
        BY <3>1, <4>1
    <3>5. op'[p].new > 0 /\ \A q \in Procs \ {p} : op'[q] = op[q]
      BY <1>1, <3>3, <3>4
    <3>6. QED
      BY <3>3, <3>5 DEF PositiveInv, Positive
  <2>6. CASE \E c \in Procs : Fork(p, c) \/ Wait(p, c)
    <3>1. sz' = sz
      BY <2>6 DEF Fork, Wait
    <3>2. \A q \in Procs : op'[q] = op[q] \/ op'[q].kind # "stack"
      <4>1. CASE op' = op
        BY <4>1
      <4>2. CASE \E c \in Procs : Fork(p, c)
        <5>1. PICK c \in Procs : Fork(p, c)
          BY <4>2
        <5>2. PICK r : r = [NoOp EXCEPT !.pc = "dir", !.kind = "fork", !.s = <<c, "cur">>,
                                        !.new = sz[p]]
          OBVIOUS
        <5>3. op' = [op EXCEPT ![p] = r]
          BY <5>1, <5>2 DEF Fork
        <5>4. r.kind = "fork"
          BY <5>2 DEF NoOp
        <5>5. op'[p] = r /\ \A q \in Procs \ {p} : op'[q] = op[q]
          BY <1>1, <5>3
        <5>6. QED
          BY <5>4, <5>5
      <4>3. QED
        BY <2>6, <4>1, <4>2 DEF Wait
    <3>3. \A q \in Procs : state'[q] = "run" => state[q] = "run"
      BY <1>1, <2>6 DEF Fork, Wait
    <3>4. QED
      BY <3>1, <3>2, <3>3, CallPositive
  <2>7. CASE ExecBad(p) \/ NoMemory(p) \/ TooLarge(p) \/ MapFails(p) \/ ExecArgsBad(p)
    <3>1. op[p].pc # "user" /\ Fail(p)
      BY <2>7 DEF ExecBad, NoMemory, TooLarge, MapFails, ExecArgsBad, AllAllocated, At
    <3>2. QED
      BY <3>1, FailPositive
  <2>8. CASE SetupDir(p) \/ SetupKernel(p) \/ Alloc(p) \/ MapPage(p) \/ MapTable(p)
    BY <2>8, LoopPositive
  <2>9. CASE (\E n \in Grow : SbrkLess(p, n)) \/ SbrkDone(p) \/ ForkDone(p) \/ ExecCommit(p)
    BY <2>9, ChangePositive
  <2>10. CASE Exit(p)
    <3>1. sz' = sz /\ op' = op /\ \A q \in Procs : state'[q] = "run" => state[q] = "run"
      BY <1>1, <2>10 DEF Exit
    <3>2. QED
      BY <3>1, CallPositive
  <2>11. QED
    BY <2>1, <2>2, <2>3, <2>4, <2>5, <2>6, <2>7, <2>8, <2>9, <2>10
<1>4. QED
  BY <1>2, <1>3

(* What a step may do to the first page of a program.                      *)
FirstKept(p) == state'[p] = "run" /\ GaveAllBack(p)' =>
  \/ state[p] = "run" /\ GaveAllBack(p)
  \/ \E n \in Grow : SbrkLess(p, n) /\ sz[p] + n = 0

(* Nothing, if it leaves the entry and the state alone.                    *)
LEMMA FirstSame ==
  ASSUME NEW q \in Procs, pte'[<<q, "cur">>] = pte[<<q, "cur">>] \/ pte'[<<q, "cur">>][0] # 0,
         state'[q] = "run" => state[q] = "run"
  PROVE  FirstKept(q)
BY DEF FirstKept, GaveAllBack

(* A space that is mapped up to a size has its first page.                 *)
LEMMA FirstMapped ==
  ASSUME NEW s, NEW b \in Nat, b > 0, MappedTo(s, b)
  PROVE  pte[s][0] # 0
BY PageZero DEF MappedTo

(* What a failing call gives back is not the first page of a program.      *)
LEMMA FailFirst ==
  ASSUME PageInv, SizeInv, PositiveInv, NEW p \in Procs, op[p].pc # "user", Fail(p),
         NEW q \in Procs
  PROVE  FirstKept(q)
<1>1. /\ Types /\ state[p] = "run" /\ op[p].s \in Spaces
      /\ FailSbrk(p) \/ FailExec(p) \/ FailFork(p)
  BY TargetIs DEF Fail, PageInv
<1>2. state'[q] = "run" => state[q] = "run"
  <2>1. CASE state' = state
    BY <2>1
  <2>2. CASE FailFork(p)
    BY <1>1, <2>2 DEF FailFork, Types
  <2>3. QED
    BY <1>1, <2>1, <2>2 DEF FailSbrk, FailExec
<1>3. <<q, "cur">> \in Spaces
  BY DEF Spaces
<1>4. CASE FailExec(p) \/ FailFork(p)
  <2>1. \A u \in Spaces \ {op[p].s} : pte'[u] = pte[u]
    BY <1>1, <1>4, ClearedIs DEF FailExec, FailFork, SpaceSame
  <2>2. state[q] = "run" => <<q, "cur">> # op[p].s
    BY <1>1, <1>4, TargetIs DEF FailExec, FailFork
  <2>3. state'[q] = "run" => pte'[<<q, "cur">>] = pte[<<q, "cur">>]
    BY <1>2, <1>3, <2>1, <2>2
  <2>4. QED
    BY <1>2, <2>3 DEF FirstKept, GaveAllBack
<1>5. CASE FailSbrk(p)
  <2>1. PICK vs \in {GrownPart(p)} : /\ vs = GrownPart(p) /\ pte' = Unmapped(op[p].s, vs)
                                     /\ op[p].kind = "sbrk" /\ vs \subseteq VPages
    BY <1>5 DEF FailSbrk, GrownPart, Mapped
  <2>2. /\ \A v \in VPages \ vs : pte'[op[p].s][v] = pte[op[p].s][v]
        /\ \A u \in Spaces \ {op[p].s} : pte'[u] = pte[u]
    BY <1>1, <2>1, UnmappedIs
  <2>3. 0 \notin vs
    <3>1. op[p].old = sz[p] /\ sz[p] > 0
      BY <1>1, <2>1 DEF SizeInv, Progress, PositiveInv, Positive
    <3>2. PICK m \in Nat : m = sz[p] /\ m > 0 /\ m <= PGROUNDUP(m) /\ PGROUNDUP(m) \in Nat
      BY <3>1, SizeType, RoundUp
    <3>3. 0 \in vs => PGROUNDUP(m) <= 0
      BY <2>1, <3>1, <3>2, PageZero DEF GrownPart, Mapped
    <3>4. QED
      BY <3>2, <3>3
  <2>4. pte'[<<q, "cur">>][0] = pte[<<q, "cur">>][0]
    BY <1>3, <2>2, <2>3, PageZero
  <2>5. QED
    BY <1>2, <2>4 DEF FirstKept, GaveAllBack
<1>6. QED
  BY <1>1, <1>4, <1>5

(* sbrk() gives the first page back only with all the others.              *)
LEMMA SbrkLessFirst ==
  ASSUME PageInv, PositiveInv, NEW p \in Procs, NEW n \in Grow, SbrkLess(p, n), NEW q \in Procs
  PROVE  FirstKept(q)
<1>1. PICK s \in Spaces, vs \in {Mapped(<<p, "cur">>, sz[p] + n, sz[p])} : s = <<p, "cur">>
  BY DEF Spaces
<1>2. vs \subseteq VPages /\ pte' = Unmapped(s, vs) /\ state' = state
  BY <1>1 DEF SbrkLess, Mapped
<1>3. /\ \A v \in VPages \ vs : pte'[s][v] = pte[s][v]
      /\ \A u \in Spaces \ {s} : pte'[u] = pte[u]
  BY <1>2, UnmappedIs DEF PageInv
<1>4. CASE q # p
  <2>1. <<q, "cur">> \in Spaces \ {s}
    BY <1>1, <1>4 DEF Spaces
  <2>2. QED
    BY <1>2, <1>3, <2>1, FirstSame
<1>5. CASE q = p /\ sz[p] + n = 0
  BY <1>5 DEF FirstKept
<1>6. CASE q = p /\ sz[p] + n # 0
  <2>1. PICK m \in Nat : m = sz[p] + n /\ m > 0 /\ m <= PGROUNDUP(m) /\ PGROUNDUP(m) \in Nat
    <3>1. sz[p] + n \in Nat /\ sz[p] + n > 0
      BY <1>6, SizeType, MemoryConstants DEF SbrkLess
    <3>2. QED
      BY <3>1, RoundUp
  <2>2. 0 \in vs => PGROUNDUP(m) <= 0
    BY <2>1, <1>1, PageZero DEF Mapped
  <2>3. pte'[s][0] = pte[s][0]
    BY <2>1, <2>2, <1>3, PageZero
  <2>4. QED
    BY <1>1, <1>2, <1>6, <2>3 DEF FirstKept, GaveAllBack
<1>7. QED
  BY <1>4, <1>5, <1>6

(* mappages() fills entries, for pages that kalloc() gave.                 *)
LEMMA MapFirst ==
  ASSUME PageInv, NEW p \in Procs, MapPage(p) \/ MapTable(p), NEW q \in Procs
  PROVE  FirstKept(q)
<1>1. At(p, "map") /\ Entered(p) /\ op[p].pc = "map" /\ state' = state
  BY DEF MapPage, MapTable, At, Entered
<1>2. PICK s \in Spaces, v \in VPages :
        /\ s = op[p].s /\ v = VPage(p) /\ pte'[s][v] = op[p].mem
        /\ \A w \in VPages \ {v} : pte'[s][w] = pte[s][w]
        /\ \A u \in Spaces \ {s} : pte'[u] = pte[u]
  BY <1>1, EnteredPlaces
<1>3. op[p].mem # 0
  BY <1>1 DEF PageInv, SlotInv, Phase
<1>4. <<q, "cur">> \in Spaces
  BY DEF Spaces
<1>5. pte'[<<q, "cur">>][0] = pte[<<q, "cur">>][0] \/ pte'[<<q, "cur">>][0] # 0
  BY <1>2, <1>3, <1>4, PageZero
<1>6. QED
  BY <1>1, <1>5 DEF FirstKept, GaveAllBack

(* The child of fork(), and what exec() commits to, have a first page.     *)
LEMMA DoneFirst ==
  ASSUME PageInv, SizeInv, PositiveInv, NEW p \in Procs, ForkDone(p) \/ ExecCommit(p),
         NEW q \in Procs
  PROVE  FirstKept(q)
<1>1. CASE ForkDone(p)
  <2>1. /\ AllAllocated(p) /\ state[p] = "run" /\ op[p].pc = "alloc" /\ op[p].kind = "fork"
        /\ pte' = pte /\ state' = [state EXCEPT ![op[p].s[1]] = "run"]
    BY <1>1 DEF ForkDone, AllAllocated, At, spaceVars
  <2>2. PICK c \in Procs : op[p].s = <<c, "cur">> /\ op[p].s[1] = c
    BY <2>1 DEF PageInv, SlotInv, Target
  <2>3. op[p].new = sz[p] /\ sz[p] > 0 /\ sz[p] \in Nat
    BY <2>1, SizeType DEF SizeInv, Progress, PositiveInv, Positive
  <2>4. pte[<<c, "cur">>][0] # 0
    BY <2>1, <2>2, <2>3, LoopDone, FirstMapped
  <2>5. q # c => state'[q] = state[q]
    BY <2>1, <2>2 DEF PageInv, Types
  <2>6. QED
    BY <2>1, <2>4, <2>5 DEF FirstKept, GaveAllBack
<1>2. CASE ExecCommit(p)
  <2>1. PICK s \in Spaces, n \in Spaces : s = <<p, "cur">> /\ n = <<p, "new">>
    <3>1. <<p, "cur">> \in Spaces /\ <<p, "new">> \in Spaces
      BY DEF Spaces
    <3>2. QED
      BY <3>1
  <2>2. AllAllocated(p) /\ op[p].kind = "stack" /\ state' = state
    BY <1>2 DEF ExecCommit
  <2>3. Types /\ op[p].s = n
    BY <2>1, <2>2 DEF PageInv, SlotInv, Target
  <2>4. pte'[s] = pte[n] /\ \A u \in Spaces \ {s, n} : pte'[u] = pte[u]
    BY <1>2, <2>1, <2>3 DEF ExecCommit, Types
  <2>5. op[p].new \in Nat /\ op[p].new > 0
    BY <2>2, SizeType DEF PositiveInv, Positive
  <2>6. pte[n][0] # 0
    BY <2>2, <2>3, <2>5, LoopDone, FirstMapped
  <2>7. q # p => <<q, "cur">> \in Spaces \ {s, n}
    BY <2>1 DEF Spaces
  <2>8. pte'[<<q, "cur">>] = pte[<<q, "cur">>] \/ pte'[<<q, "cur">>][0] # 0
    BY <2>1, <2>4, <2>6, <2>7
  <2>9. QED
    BY <2>2, <2>8, FirstSame
<1>3. QED
  BY <1>1, <1>2

(* Every other step leaves the first page of every program alone.          *)
LEMMA NextFirst ==
  ASSUME PageInv, SizeInv, PositiveInv, Next, NEW q \in Procs
  PROVE  FirstKept(q)
<1>1. PICK p \in Procs :
        \/ \E n \in Grow : SbrkRefused(p, n) \/ SbrkMore(p, n) \/ SbrkLess(p, n)
        \/ Exec(p) \/ \E n \in Segments : ExecSegment(p, n)
        \/ \E c \in Procs : Fork(p, c) \/ Wait(p, c)
        \/ ForkRefused(p) \/ ExecBad(p) \/ SetupDir(p) \/ SetupKernel(p) \/ NoMemory(p)
        \/ TooLarge(p) \/ Alloc(p) \/ MapPage(p) \/ MapTable(p) \/ MapFails(p)
        \/ SbrkDone(p) \/ ForkDone(p) \/ ExecStack(p) \/ ExecArgsBad(p) \/ ExecCommit(p)
        \/ Exit(p) \/ Halted
  BY DEF Next
<1>2. CASE /\ pte' = pte
           /\ state' = state \/ Exit(p) \/ \E c \in Procs : Fork(p, c)
  <2>1. state'[q] = "run" => state[q] = "run"
    BY <1>2 DEF Exit, Fork, PageInv, Types
  <2>2. QED
    BY <1>2, <2>1, FirstSame
<1>3. CASE \E c \in Procs : Wait(p, c)
  <2>1. PICK c \in Procs : Wait(p, c)
    BY <1>3
  <2>2. PICK s \in Spaces : s = <<c, "cur">>
    BY DEF Spaces
  <2>3. Cleared(s) /\ state' = [state EXCEPT ![c] = "unused"]
    BY <2>1, <2>2 DEF Wait
  <2>4. \A u \in Spaces \ {s} : pte'[u] = pte[u]
    BY <2>3, ClearedIs DEF PageInv, SpaceSame
  <2>5. state'[q] = "run" => state[q] = "run" /\ q # c
    BY <2>3 DEF PageInv, Types
  <2>6. q # c => <<q, "cur">> \in Spaces \ {s}
    BY <2>2 DEF Spaces
  <2>7. QED
    BY <2>4, <2>5, <2>6 DEF FirstKept, GaveAllBack
<1>4. CASE ExecBad(p) \/ NoMemory(p) \/ TooLarge(p) \/ MapFails(p) \/ ExecArgsBad(p)
  <2>1. op[p].pc # "user" /\ Fail(p)
    BY <1>4 DEF ExecBad, NoMemory, TooLarge, MapFails, ExecArgsBad, AllAllocated, At
  <2>2. QED
    BY <2>1, FailFirst
<1>5. CASE MapPage(p) \/ MapTable(p)
  BY <1>5, MapFirst
<1>6. CASE ForkDone(p) \/ ExecCommit(p)
  BY <1>6, DoneFirst
<1>7. CASE \E n \in Grow : SbrkLess(p, n)
  BY <1>7, SbrkLessFirst
<1>8. CASE \/ \E n \in Grow : SbrkRefused(p, n) \/ SbrkMore(p, n)
           \/ ForkRefused(p) \/ Halted \/ Exec(p) \/ \E n \in Segments : ExecSegment(p, n)
           \/ SetupDir(p) \/ SetupKernel(p) \/ Alloc(p) \/ SbrkDone(p) \/ ExecStack(p)
           \/ Exit(p) \/ \E c \in Procs : Fork(p, c)
  <2>1. /\ pte' = pte
        /\ state' = state \/ Exit(p) \/ \E c \in Procs : Fork(p, c)
    BY <1>8 DEF SbrkRefused, SbrkMore, ForkRefused, Halted, Exec, ExecSegment, SetupDir,
                SetupKernel, Alloc, SbrkDone, ExecStack, Exit, Fork, vars, spaceVars
  <2>2. QED
    BY <1>2, <2>1
<1>9. QED
  BY <1>1, <1>3, <1>4, <1>5, <1>6, <1>7, <1>8

(* The exception of MappedBelowSize and ArgumentsMapped is what it says: a *)
(* program that runs comes to miss its first page only by a call of sbrk() *)
(* with minus its size.  No failure of sbrk(), fork() or exec() takes it,  *)
(* and no child and no new image starts without it.                        *)
THEOREM OnlyGivenBack == Spec => [][\A p \in Procs : FirstKept(p)]_vars
<1>1. Init => PageInv /\ SizeInv /\ PositiveInv
  BY InitPages, InitSized, InitPositive
<1>2. (PageInv /\ SizeInv /\ PositiveInv) /\ [Next]_vars
        => (PageInv /\ SizeInv /\ PositiveInv)'
  BY NextPages, NextSized, NextPositive
<1>3. (PageInv /\ SizeInv /\ PositiveInv) /\ [Next]_vars
        => [\A p \in Procs : FirstKept(p)]_vars
  BY NextFirst
<1>4. QED
  BY <1>1, <1>2, <1>3, PTL DEF Spec
-----------------------------------------------------------------------------
(* The arguments of system calls                                           *)

(* An addition that stays below the word does not wrap.                    *)
LEMMA PlusSmall ==
  ASSUME NEW a \in Nat, NEW n \in Nat, a + n < WORD
  PROVE  Plus(a, n) = a + n
<1>1. PICK w \in Nat \ {0} : w = WORD /\ a + n < w
  BY SyscallConstants
<1>2. PICK b \in 0..(w - 1) : b = a + n
  BY <1>1
<1>3. b % w = b
  BY ModSmall
<1>4. QED
  BY <1>1, <1>2, <1>3, Zenon DEF Plus

(* The comparisons with p->sz let only addresses below it through.         *)
LEMMA AcceptedBelow ==
  ASSUME NEW s \in 0..KERNBASE, NEW a \in Accepted[s]
  PROVE  a \in Nat /\ a < s
<1>1. PICK W \in Nat, I \in Nat \ {0}, D \in Int, K \in Nat :
        /\ W = WORD /\ I = INT /\ D = WORD \div 2 /\ K = KERNBASE
        /\ K <= D /\ I < W - K /\ D + D <= W
  <2>1. WORD \in Nat /\ INT \in Nat \ {0} /\ KERNBASE \in Nat
        /\ KERNBASE <= WORD \div 2 /\ INT < WORD - KERNBASE
    BY SyscallConstants, MemoryConstants
  <2>2. WORD \div 2 \in Int /\ (WORD \div 2) + (WORD \div 2) <= WORD
    BY <2>1
  <2>3. QED
    BY <2>1, <2>2
<1>2. s \in Nat /\ s <= K
  BY <1>1
<1>3. \/ \E x \in Words : fetchint(s, x) /\ a \in x..(x + INT - 1)
      \/ \E x \in Words : fetchstr(s, x) /\ a \in x..(s - 1)
      \/ \E r \in Words \X Ints : argptr(s, r[1], r[2]) /\ a \in r[1]..(r[1] + r[2] - 1)
  <2> DEFINE A == {x \in Words : fetchint(s, x)}
             B == {x \in Words : fetchstr(s, x)}
             C == {r \in Words \X Ints : argptr(s, r[1], r[2])}
             U == UNION {x..(x + INT - 1) : x \in A}
             V == UNION {x..(s - 1) : x \in B}
             T == UNION {r[1]..(r[1] + r[2] - 1) : r \in C}
  <2>1. Accepted[s] = U \cup V \cup T
    BY Zenon DEF Accepted
  <2>2. a \in U \/ a \in V \/ a \in T
    <3> HIDE DEF U, V, T
    <3> QED  BY <2>1
  <2>3. ASSUME a \in U PROVE \E x \in A : a \in x..(x + INT - 1)
    <3> HIDE DEF A
    <3> QED  BY <2>3, Zenon
  <2>4. ASSUME a \in V PROVE \E x \in B : a \in x..(s - 1)
    <3> HIDE DEF B
    <3> QED  BY <2>4, Zenon
  <2>5. ASSUME a \in T PROVE \E r \in C : a \in r[1]..(r[1] + r[2] - 1)
    <3> HIDE DEF C
    <3> QED  BY <2>5, Zenon
  <2>6. QED
    <3> HIDE DEF U, V, T
    <3> QED  BY <2>2, <2>3, <2>4, <2>5, Zenon
<1>4. ASSUME NEW x \in Words, fetchint(s, x), a \in x..(x + INT - 1) PROVE a \in Nat /\ a < s
  <2>1. x \in Nat /\ x < s
    BY <1>1, <1>4 DEF Words, fetchint
  <2>2. x + I < W
    BY <1>1, <1>2, <2>1
  <2>3. Plus(x, I) = x + I
    BY <1>1, <2>1, <2>2, PlusSmall
  <2>4. x + I <= s
    BY <1>1, <1>4, <2>3 DEF fetchint
  <2>5. QED
    BY <1>1, <1>2, <1>4, <2>1, <2>4
<1>5. ASSUME NEW x \in Words, a \in x..(s - 1) PROVE a \in Nat /\ a < s
  BY <1>1, <1>2, <1>5 DEF Words
<1>6. ASSUME NEW r \in Words \X Ints, argptr(s, r[1], r[2]), a \in r[1]..(r[1] + r[2] - 1)
      PROVE  a \in Nat /\ a < s
  <2>1. PICK x \in Words, n \in Ints : x = r[1] /\ n = r[2]
    OBVIOUS
  <2>2. x \in Nat /\ x < s /\ n \in Nat /\ n < D
    BY <1>1, <1>6, <2>1 DEF Words, Ints, argptr
  <2>3. x + n < W
    BY <1>1, <1>2, <2>2
  <2>4. Plus(x, n) = x + n
    BY <1>1, <2>2, <2>3, PlusSmall
  <2>5. x + n <= s
    BY <1>6, <2>1, <2>4 DEF argptr
  <2>6. QED
    BY <1>2, <1>6, <2>1, <2>2, <2>5
<1>7. QED
  BY <1>3, <1>4, <1>5, <1>6

(* fetchint(), fetchstr() and argptr() accept no address out of the mapped *)
(* memory of a program that has not given all of it back, and none beyond  *)
(* KERNBASE of any program.  sys_mirrorctx(), which ignores what argptr()  *)
(* says, is not among the calls this is about.                             *)
THEOREM PointersMapped == Spec => []ArgumentsMapped
<1>1. PageInv /\ MappedBelowSize => ArgumentsMapped
  <2> SUFFICES ASSUME PageInv, MappedBelowSize, NEW p \in Procs, state[p] = "run",
                      op[p].pc = "user", NEW v \in PagesAccepted[sz[p]]
               PROVE  v \in VPages /\ (pte[<<p, "cur">>][v] # 0 \/ GaveAllBack(p))
    BY DEF ArgumentsMapped
  <2>1. sz[p] \in 0..KERNBASE /\ sz[p] \in Nat /\ sz[p] < KERNBASE /\ KERNBASE \in Nat
    BY SizeType
  <2>2. PICK a \in Accepted[sz[p]] : v = a \div PGSIZE
    BY <2>1 DEF PagesAccepted
  <2>3. a \in Nat /\ a < sz[p]
    BY <2>1, AcceptedBelow
  <2>4. v \in VPages
    BY <2>1, <2>2, <2>3, PageOf
  <2>5. v * PGSIZE < sz[p]
    <3>1. PICK x \in Int : x = v * PGSIZE /\ x <= a
      <4>1. v \in Nat
        BY <2>4, VPagesNat
      <4>2. v * PGSIZE \in Nat
        BY <4>1, RoundSame
      <4>3. v * PGSIZE <= a
        BY <2>2, <2>3, PageBelow
      <4>4. QED
        BY <4>2, <4>3
    <3>2. QED
      BY <2>1, <2>3, <3>1
  <2>6. QED
    <3> DEFINE mapped == {w \in VPages : pte[<<p, "cur">>][w] # 0}
               below  == {w \in VPages : w * PGSIZE < sz[p]}
    <3>1. v \in below
      BY <2>4, <2>5
    <3>2. mapped = below \/ GaveAllBack(p)
      BY DEF MappedBelowSize
    <3>3. QED
      BY <2>4, <3>1, <3>2
<1>2. QED
  BY <1>1, PagesInvariant, SizeIsMapped, PTL
-----------------------------------------------------------------------------
(* The user heap.  Blocks are given by the set H of their headers and the  *)
(* function S of their sizes.  Laid: the blocks do not overlap and cover   *)
(* exactly the memory C, which ends below e; only base is empty.           *)
Blocks(H, S) ==
  /\ H \subseteq Addrs /\ S \in [Addrs -> Nat]
  /\ \A h \in H : h # base => S[h] > 0
  /\ base \in H => S[base] = 0
Apart(H, S) == \A h, k \in H : h < k => h + S[h] <= k
Within(H, S, C, e) ==
  \A h \in H : h + S[h] <= e /\ \A x \in Addrs : h <= x /\ x < h + S[h] => x \in C
Covered(H, S, C, e) ==
  \A x \in C : x \in 1..(e - 1) /\ \E h \in H : h <= x /\ x < h + S[h]
Laid(H, S, C, e) ==
  Blocks(H, S) /\ Apart(H, S) /\ Within(H, S, C, e) /\ Covered(H, S, C, e)

(* The list that the pointers P make is a circle in order of the addresses.*)
ListOf(P) == {a \in Addrs : P[a] # NONE}
NextIn(P, a, b) ==
  /\ b \in ListOf(P) /\ (b > a \/ b = base)
  /\ \A c \in ListOf(P) : c > a => a < b /\ b <= c
Circle(P) ==
  /\ P \in [Addrs -> Addrs \cup {NONE}]
  /\ base \in ListOf(P)
  /\ \A a \in ListOf(P) : NextIn(P, a, P[a])

(* A block is cut in two.                                                  *)
LEMMA BlockSplit ==
  ASSUME NEW H, NEW S, NEW C, NEW e \in 1..LIMIT, Laid(H, S, C, e),
         NEW h \in H, NEW n \in Nat, n > 0, n < S[h], h # base
  PROVE  LET t == h + S[h] - n IN
         /\ t \in Addrs /\ t \notin H
         /\ Laid(H \cup {t}, [S EXCEPT ![h] = S[h] - n, ![t] = n], C, e)
<1> DEFINE t == h + S[h] - n
           G == H \cup {t}
           T == [S EXCEPT ![h] = S[h] - n, ![t] = n]
<1>1. /\ h \in Nat /\ S[h] \in Nat /\ LIMIT \in Nat /\ h \in Addrs /\ h + S[h] <= LIMIT
      /\ H \subseteq Addrs /\ S \in [Addrs -> Nat]
  BY UmallocConstants DEF Laid, Blocks, Addrs, Within
<1>2. t \in Addrs /\ t > h /\ t < h + S[h] BY <1>1 DEF Addrs
<1>3. t \notin H BY <1>1, <1>2 DEF Laid, Apart, Addrs
<1>4. /\ T \in [Addrs -> Nat] /\ T[t] = n /\ T[h] = S[h] - n
      /\ \A x \in Addrs : x # h /\ x # t => T[x] = S[x]
  BY <1>1, <1>2
<1>5. t \in Nat /\ t + T[t] = h + S[h] /\ h + T[h] = t BY <1>1, <1>2, <1>4
<1> HIDE DEF T
<1>6. Blocks(G, T)
  <2>1. \A x \in H : x # base => S[x] > 0 BY DEF Laid, Blocks
  <2>2. base \in H => S[base] = 0 BY DEF Laid, Blocks
  <2>3. t # base BY <1>1, <1>2 DEF base
  <2>4. ASSUME NEW x \in G, x # base PROVE T[x] > 0 BY <2>1, <2>4, <1>1, <1>4
  <2>5. base \in G => T[base] = 0 BY <2>2, <2>3, <1>1, <1>4
  <2> QED BY <2>4, <2>5, <1>1, <1>2, <1>4 DEF Blocks
<1>7. Apart(G, T)
  <2> SUFFICES ASSUME NEW x \in G, NEW y \in G, x < y PROVE x + T[x] <= y BY DEF Apart
  <2>1. CASE x \in H /\ y \in H
    <3>1. x + S[x] <= y BY <2>1 DEF Laid, Apart
    <3>2. x \in Nat /\ y \in Nat /\ T[x] \in Nat /\ S[x] \in Nat
      BY <2>1, <1>1, <1>4 DEF Addrs
    <3>3. T[x] <= S[x]
      <4>1. CASE x = h BY <4>1, <1>1, <1>4
      <4>2. CASE x # h
        <5>1. T[x] = S[x] BY <4>2, <2>1, <1>1, <1>3, <1>4
        <5> QED BY <5>1, <3>2
      <4> QED BY <4>1, <4>2
    <3> QED BY <3>1, <3>2, <3>3
  <2>2. CASE x = t
    <3>1. y \in H /\ h < y BY <2>2, <1>1, <1>2 DEF Addrs
    <3> QED BY <3>1, <2>2, <1>5 DEF Laid, Apart
  <2>3. CASE x \in H /\ y = t
    <3>1. CASE x = h BY <3>1, <2>3, <1>5
    <3>2. CASE x # h
      <4>1. x \in Nat /\ T[x] = S[x] /\ S[x] \in Nat BY <3>2, <2>3, <1>1, <1>3, <1>4 DEF Addrs
      <4>2. ~(x > h) BY <4>1, <2>3, <1>1, <1>2 DEF Laid, Apart
      <4>3. x + S[x] <= h BY <4>1, <4>2, <3>2, <2>3, <1>1 DEF Laid, Apart
      <4> QED BY <4>1, <4>3, <2>3, <1>1, <1>2
    <3> QED BY <3>1, <3>2
  <2> QED BY <2>1, <2>2, <2>3
<1>8. Within(G, T, C, e)
  <2> SUFFICES ASSUME NEW x \in G
               PROVE x + T[x] <= e /\ \A y \in Addrs : x <= y /\ y < x + T[x] => y \in C
    BY DEF Within
  <2>1. h + S[h] <= e /\ \A y \in Addrs : h <= y /\ y < h + S[h] => y \in C
    BY DEF Laid, Within
  <2>2. CASE x = h
    <3>1. x + T[x] = t /\ t < h + S[h] /\ t \in Nat BY <2>2, <1>2, <1>5
    <3> HIDE DEF t
    <3> QED BY <3>1, <2>1, <2>2, <1>1 DEF Addrs
  <2>3. CASE x = t
    <3>1. x + T[x] = h + S[h] /\ h <= x BY <2>3, <1>1, <1>2, <1>5
    <3>2. h \in Nat /\ x \in Nat BY <2>3, <1>1, <1>5
    <3> QED BY <3>1, <3>2, <2>1 DEF Addrs
  <2>4. CASE x # h /\ x # t BY <2>4, <1>1, <1>4 DEF Laid, Within
  <2> QED BY <2>2, <2>3, <2>4
<1>9. Covered(G, T, C, e)
  <2> SUFFICES ASSUME NEW x \in C
               PROVE x \in 1..(e - 1) /\ \E k \in G : k <= x /\ x < k + T[k]
    BY DEF Covered
  <2>1. PICK k \in H : k <= x /\ x < k + S[k] BY DEF Laid, Covered
  <2>2. x \in 1..(e - 1) BY DEF Laid, Covered
  <2>3. CASE k # h BY <2>1, <2>2, <2>3, <1>1, <1>3, <1>4
  <2>4. CASE k = h /\ x < t BY <2>1, <2>2, <2>4, <1>5
  <2>5. CASE k = h /\ x >= t BY <2>1, <2>2, <2>5, <1>5
  <2> QED BY <2>2, <2>3, <2>4, <2>5, <1>5
<1> QED BY <1>2, <1>3, <1>6, <1>7, <1>8, <1>9 DEF Laid, T

(* Two neighbours become one block.                                        *)
LEMMA BlockJoin ==
  ASSUME NEW H, NEW S, NEW C, NEW e \in 1..LIMIT, Laid(H, S, C, e),
         NEW h \in H, NEW k \in H, k = h + S[h], h # base, k # base
  PROVE  Laid(H \ {k}, [S EXCEPT ![h] = S[h] + S[k], ![k] = 0], C, e)
<1> DEFINE G == H \ {k}
           T == [S EXCEPT ![h] = S[h] + S[k], ![k] = 0]
<1>1. /\ h \in Nat /\ k \in Nat /\ S[h] \in Nat /\ S[k] \in Nat /\ LIMIT \in Nat
      /\ h \in Addrs /\ k \in Addrs /\ k + S[k] <= LIMIT /\ S[h] > 0
      /\ H \subseteq Addrs /\ S \in [Addrs -> Nat]
  BY UmallocConstants DEF Laid, Blocks, Addrs, Within
<1>2. k # h BY <1>1
<1>3. /\ T \in [Addrs -> Nat] /\ T[h] = S[h] + S[k]
      /\ \A x \in Addrs : x # h /\ x # k => T[x] = S[x]
  BY <1>1, <1>2
<1>4. h + T[h] = k + S[k] BY <1>1, <1>3
<1> HIDE DEF T
<1>5. Blocks(G, T)
  <2>1. \A x \in H : x # base => S[x] > 0 BY DEF Laid, Blocks
  <2>2. base \in H => S[base] = 0 BY DEF Laid, Blocks
  <2>3. ASSUME NEW x \in G, x # base PROVE T[x] > 0 BY <2>1, <2>3, <1>1, <1>3
  <2>4. base \in G => T[base] = 0 BY <2>2, <1>1, <1>3
  <2> QED BY <2>3, <2>4, <1>1, <1>3 DEF Blocks
<1>6. Apart(G, T)
  <2> SUFFICES ASSUME NEW x \in G, NEW y \in G, x < y PROVE x + T[x] <= y BY DEF Apart
  <2>1. CASE x # h BY <2>1, <1>1, <1>3 DEF Laid, Apart
  <2>2. CASE x = h
    <3>1. y \in H /\ y # k /\ y \in Nat BY <1>1 DEF Addrs
    <3>2. k <= y BY <3>1, <2>2 DEF Laid, Apart
    <3>3. k + S[k] <= y BY <3>1, <3>2, <1>1 DEF Laid, Apart
    <3> QED BY <3>3, <2>2, <1>4
  <2> QED BY <2>1, <2>2
<1>7. Within(G, T, C, e)
  <2> SUFFICES ASSUME NEW x \in G
               PROVE x + T[x] <= e /\ \A y \in Addrs : x <= y /\ y < x + T[x] => y \in C
    BY DEF Within
  <2>1. CASE x # h BY <2>1, <1>1, <1>3 DEF Laid, Within
  <2>2. CASE x = h
    <3>1. k + S[k] <= e /\ \A y \in Addrs : k <= y /\ y < k + S[k] => y \in C
      BY DEF Laid, Within
    <3>2. \A y \in Addrs : h <= y /\ y < h + S[h] => y \in C BY DEF Laid, Within
    <3> QED BY <3>1, <3>2, <2>2, <1>1, <1>4 DEF Addrs
  <2> QED BY <2>1, <2>2
<1>8. Covered(G, T, C, e)
  <2> SUFFICES ASSUME NEW x \in C
               PROVE x \in 1..(e - 1) /\ \E j \in G : j <= x /\ x < j + T[j]
    BY DEF Covered
  <2>1. PICK j \in H : j <= x /\ x < j + S[j] BY DEF Laid, Covered
  <2>2. x \in 1..(e - 1) BY DEF Laid, Covered
  <2>3. CASE j # h /\ j # k BY <2>1, <2>2, <2>3, <1>1, <1>3
  <2>4. CASE j = h \/ j = k
    <3>1. h <= x /\ x < h + T[h] BY <2>1, <2>2, <2>4, <1>1, <1>4
    <3>2. h \in G BY <1>2
    <3> QED BY <3>1, <3>2, <2>2
  <2> QED BY <2>3, <2>4
<1> QED BY <1>5, <1>6, <1>7, <1>8 DEF Laid, T

(* The kernel gives n headers at the end e.                                *)
LEMMA BlockGrow ==
  ASSUME NEW H, NEW S, NEW C, NEW e \in 1..LIMIT, Laid(H, S, C, e),
         NEW n \in Nat, n > 0, e + n <= LIMIT
  PROVE  /\ e \in Addrs /\ (e \in H => FALSE)
         /\ Laid(H \cup {e}, [S EXCEPT ![e] = n], C \cup e..(e + n - 1), e + n)
<1> DEFINE G == H \cup {e}
           T == [S EXCEPT ![e] = n]
           D == C \cup e..(e + n - 1)
<1>1. /\ e \in Nat /\ e > 0 /\ LIMIT \in Nat /\ e \in Addrs
      /\ H \subseteq Addrs /\ S \in [Addrs -> Nat]
  BY UmallocConstants DEF Laid, Blocks, Addrs
<1>2. e \notin H BY <1>1 DEF Laid, Within, Blocks, base
<1>3. T \in [Addrs -> Nat] /\ T[e] = n /\ \A x \in H : T[x] = S[x] BY <1>1, <1>2
<1> HIDE DEF T
<1>4. Blocks(G, T) BY <1>1, <1>2, <1>3 DEF Laid, Blocks, base
<1>5. \A x \in H : x \in Nat /\ S[x] \in Nat /\ x + S[x] <= e BY <1>1 DEF Laid, Within, Addrs
<1>6. Apart(G, T) BY <1>1, <1>3, <1>5 DEF Laid, Apart
<1>7. Within(G, T, D, e + n)
  <2> SUFFICES ASSUME NEW x \in G
               PROVE x + T[x] <= e + n /\ \A y \in Addrs : x <= y /\ y < x + T[x] => y \in D
    BY DEF Within
  <2>1. CASE x \in H BY <2>1, <1>1, <1>3, <1>5 DEF Laid, Within
  <2>2. CASE x = e BY <2>2, <1>1, <1>3 DEF Addrs
  <2> QED BY <2>1, <2>2
<1>8. Covered(G, T, D, e + n)
  <2> SUFFICES ASSUME NEW x \in D
               PROVE x \in 1..(e + n - 1) /\ \E j \in G : j <= x /\ x < j + T[j]
    BY DEF Covered
  <2>1. CASE x \in C
    <3>1. PICK j \in H : j <= x /\ x < j + S[j] BY <2>1 DEF Laid, Covered
    <3>2. x \in 1..(e - 1) BY <2>1 DEF Laid, Covered
    <3> QED BY <3>1, <3>2, <1>1, <1>3
  <2>2. CASE x \in e..(e + n - 1) BY <2>2, <1>1, <1>3
  <2> QED BY <2>1, <2>2
<1> QED BY <1>1, <1>2, <1>4, <1>6, <1>7, <1>8 DEF Laid, T

(* A block leaves the list.                                                *)
LEMMA CircleRemove ==
  ASSUME NEW P, Circle(P), NEW q \in ListOf(P), NEW c \in ListOf(P), P[q] = c, c # base
  PROVE  LET R == [P EXCEPT ![q] = P[c], ![c] = NONE] IN
         Circle(R) /\ ListOf(R) = ListOf(P) \ {c} /\ q # c
<1> DEFINE R == [P EXCEPT ![q] = P[c], ![c] = NONE]
<1>1. /\ P \in [Addrs -> Addrs \cup {NONE}] /\ base \in ListOf(P)
      /\ \A a \in ListOf(P) : a \in Nat /\ a \in Addrs /\ P[a] \in ListOf(P) /\ P[a] \in Nat
  BY UmallocConstants DEF Circle, ListOf, NextIn, Addrs
<1>2. \A a, d \in ListOf(P) : /\ P[a] > a \/ P[a] = base
                              /\ d > a => a < P[a] /\ P[a] <= d
  BY DEF Circle, NextIn
<1>3. q < c BY <1>1, <1>2
<1>4. NONE \notin Addrs BY UmallocConstants DEF Addrs
<1>5. /\ R \in [Addrs -> Addrs \cup {NONE}] /\ R[q] = P[c] /\ R[c] = NONE
      /\ \A a \in Addrs : a # q /\ a # c => R[a] = P[a]
  BY <1>1, <1>3
<1> HIDE DEF R
<1>6. P[c] # NONE BY <1>1, <1>4 DEF ListOf
<1>7. ListOf(R) = ListOf(P) \ {c}
  <2>1. \A a \in Addrs : R[a] # NONE <=> P[a] # NONE /\ a # c
    BY <1>1, <1>5, <1>6 DEF ListOf
  <2> QED BY <2>1 DEF ListOf
<1>8. ASSUME NEW a \in ListOf(R) PROVE NextIn(R, a, R[a])
  <2>1. a \in ListOf(P) /\ a # c /\ a \in Nat /\ c \in Nat BY <1>1, <1>7
  <2>2. CASE a = q
    <3>1. P[c] \in ListOf(R) BY <1>1, <1>2, <1>7
    <3>2. P[c] > q \/ P[c] = base BY <1>1, <1>2, <1>3
    <3>3. ASSUME NEW d \in ListOf(R), d > q PROVE q < P[c] /\ P[c] <= d
      <4>1. d \in ListOf(P) /\ d # c /\ d \in Nat BY <1>1, <1>7
      <4>2. d > c BY <4>1, <3>3, <1>1, <1>2
      <4> QED BY <4>1, <4>2, <1>1, <1>2, <1>3
    <3> QED BY <3>1, <3>2, <3>3, <2>2, <1>5 DEF NextIn
  <2>3. CASE a # q
    <3>1. R[a] = P[a] BY <2>1, <2>3, <1>1, <1>5
    <3>2. P[a] # c
      <4> SUFFICES ASSUME P[a] = c PROVE FALSE OBVIOUS
      <4>1. a < c BY <2>1, <1>1, <1>2
      <4>2. CASE a < q BY <4>1, <4>2, <2>1, <1>1, <1>2, <1>3
      <4>3. CASE q < a BY <4>1, <4>3, <2>1, <1>1, <1>2
      <4> QED BY <4>2, <4>3, <2>1, <2>3, <1>1
    <3>3. P[a] \in ListOf(R) BY <3>2, <2>1, <1>1, <1>7
    <3> QED BY <3>1, <3>3, <2>1, <1>2, <1>7 DEF NextIn
  <2> QED BY <2>2, <2>3
<1>9. base \in ListOf(R) BY <1>1, <1>7
<1>10. Circle(R) BY <1>5, <1>8, <1>9 DEF Circle
<1>11. q # c BY <1>1, <1>3
<1> QED BY <1>7, <1>10, <1>11 DEF R

(* A block enters the list after q.                                        *)
LEMMA CircleInsert ==
  ASSUME NEW P, Circle(P), NEW q \in ListOf(P), NEW b \in Addrs, b \notin ListOf(P),
         q < b, b < P[q] \/ P[q] = base
  PROVE  LET R == [P EXCEPT ![b] = P[q], ![q] = b] IN
         Circle(R) /\ ListOf(R) = ListOf(P) \cup {b}
<1> DEFINE R == [P EXCEPT ![b] = P[q], ![q] = b]
<1>1. /\ P \in [Addrs -> Addrs \cup {NONE}] /\ base \in ListOf(P)
      /\ \A a \in ListOf(P) : a \in Nat /\ a \in Addrs /\ P[a] \in ListOf(P) /\ P[a] \in Nat
  BY UmallocConstants DEF Circle, ListOf, NextIn, Addrs
<1>2. \A a, d \in ListOf(P) : /\ P[a] > a \/ P[a] = base
                              /\ d > a => a < P[a] /\ P[a] <= d
  BY DEF Circle, NextIn
<1>3. NONE \notin Addrs BY UmallocConstants DEF Addrs
<1>4. b \in Nat BY UmallocConstants DEF Addrs
<1>5. /\ R \in [Addrs -> Addrs \cup {NONE}] /\ R[q] = b /\ R[b] = P[q]
      /\ \A a \in Addrs : a # q /\ a # b => R[a] = P[a]
  BY <1>1
<1> HIDE DEF R
<1>6. P[q] # NONE BY <1>1, <1>3 DEF ListOf
<1>7. ListOf(R) = ListOf(P) \cup {b}
  <2>1. \A a \in Addrs : R[a] # NONE <=> P[a] # NONE \/ a = b
    BY <1>1, <1>3, <1>5, <1>6 DEF ListOf
  <2> QED BY <2>1 DEF ListOf
<1>8. ASSUME NEW d \in ListOf(P), d > q PROVE b < d
  BY <1>8, <1>1, <1>2, <1>4 DEF base
<1>9. ASSUME NEW a \in ListOf(R) PROVE NextIn(R, a, R[a])
  <2>1. CASE a = q
    <3>1. b \in ListOf(R) BY <1>7
    <3>2. ASSUME NEW d \in ListOf(R), d > q PROVE q < b /\ b <= d
      <4>1. CASE d = b BY <4>1, <1>4
      <4>2. CASE d # b
        <5>1. d \in ListOf(P) BY <4>2, <1>7
        <5>2. b < d BY <5>1, <3>2, <1>8
        <5> QED BY <5>1, <5>2, <1>1, <1>4
      <4> QED BY <4>1, <4>2
    <3> QED BY <3>1, <3>2, <2>1, <1>5 DEF NextIn
  <2>2. CASE a = b
    <3>1. P[q] \in ListOf(R) /\ (P[q] > b \/ P[q] = base) BY <1>1, <1>4, <1>7
    <3>2. ASSUME NEW d \in ListOf(R), d > b PROVE b < P[q] /\ P[q] <= d
      <4>1. d \in ListOf(P) /\ d \in Nat BY <3>2, <1>1, <1>4, <1>7
      <4>2. d > q BY <4>1, <3>2, <1>1, <1>4
      <4>3. q < P[q] /\ P[q] <= d BY <4>1, <4>2, <1>2
      <4> QED BY <4>3, <1>1, <1>8
    <3> QED BY <3>1, <3>2, <2>2, <1>5 DEF NextIn
  <2>3. CASE a # q /\ a # b
    <3>1. R[a] = P[a] /\ a \in ListOf(P) /\ a \in Nat BY <2>3, <1>1, <1>5, <1>7
    <3>2. b > a => a < P[a] /\ P[a] <= b
      <4> SUFFICES ASSUME b > a PROVE a < P[a] /\ P[a] <= b OBVIOUS
      <4>1. ~(a > q) BY <3>1, <1>4, <1>8
      <4>2. q > a BY <4>1, <3>1, <2>3, <1>1
      <4> QED BY <4>2, <3>1, <1>1, <1>2, <1>4
    <3>3. P[a] \in ListOf(R) BY <3>1, <1>1, <1>7
    <3> QED BY <3>1, <3>2, <3>3, <1>2, <1>7 DEF NextIn
  <2> QED BY <2>1, <2>2, <2>3
<1>10. base \in ListOf(R) BY <1>1, <1>7
<1> QED BY <1>5, <1>7, <1>9, <1>10 DEF Circle, R

-----------------------------------------------------------------------------
(* The invariant of the heap: the list, the blocks of the program and the  *)
(* block that free() has in hand are laid out over the memory obtained.    *)
UsedHeads == {b[1] : b \in used}
Freeing == IF pc = "free" THEN {bp} ELSE {}
Heads == FreeList \cup UsedHeads \cup Freeing
(* u headers have room for n bytes beside the block's own.                 *)
Roomy(n, u) == u >= 2 /\ (u - 1) * HeaderSize >= n

LocalTypes == nunits \in Nat /\ nbytes \in Nat /\ caller \in {"user", "malloc"}
(* A header has one role.                                                  *)
Roles ==
  /\ \A b, c \in used : b[1] = c[1] => b = c
  /\ FreeList \cap UsedHeads = {} /\ base \notin UsedHeads /\ size[base] = 0
  /\ pc = "free" => bp # base /\ bp \notin FreeList /\ bp \notin UsedHeads
Listed ==
  /\ freep = NONE => pc = "user" /\ FreeList = {} /\ used = {}
  /\ freep # NONE => freep \in FreeList /\ Circle(ptr)
Joined == \A a, b \in FreeList : a # b => a + size[a] # b
(* Where the searches of malloc() and free() are.                          *)
Searching ==
  /\ pc = "malloc" => prevp \in FreeList /\ cur = ptr[prevp]
  /\ pc = "free" => cur \in FreeList
  /\ pc = "malloc" \/ caller = "malloc" => Roomy(nbytes, nunits)
HeapInv ==
  /\ HeapTypes /\ LocalTypes /\ HeadersIntact /\ Roles /\ Listed
  /\ Laid(Heads, size, core, brk) /\ Joined /\ Searching

LEMMA UnitsRoomy ==
  ASSUME NEW n \in Nat \ {0} PROVE Units(n) \in Nat /\ Roomy(n, Units(n))
<1> DEFINE q == (n + HeaderSize - 1) \div HeaderSize
<1>1. HeaderSize \in Nat /\ HeaderSize > 0 BY UmallocConstants
<1>2. n + HeaderSize - 1 \in Nat BY <1>1
<1>3. /\ q \in Int /\ n + HeaderSize - 1 = (HeaderSize * q) + ((n + HeaderSize - 1) % HeaderSize)
      /\ (n + HeaderSize - 1) % HeaderSize \in 0..(HeaderSize - 1)
  BY <1>1, <1>2, DivMod
<1> HIDE DEF q
<1>4. HeaderSize * q >= n BY <1>1, <1>3
<1>5. q > 0
  <2> SUFFICES ASSUME q <= 0 PROVE FALSE BY <1>3
  <2>1. HeaderSize * q <= 0 BY <1>1, <1>3
  <2> QED BY <2>1, <1>1, <1>3, <1>4
<1>6. Units(n) = q + 1 BY DEF Units, q
<1>7. q * HeaderSize >= n BY <1>1, <1>3, <1>4
<1> QED BY <1>3, <1>5, <1>6, <1>7 DEF Roomy

LEMMA HeapStart == HeapInit => HeapInv
<1> SUFFICES ASSUME HeapInit PROVE HeapInv OBVIOUS
<1>1. /\ ptr = [a \in Addrs |-> NONE] /\ size = [a \in Addrs |-> 0] /\ freep = NONE
      /\ used = {} /\ brk = 1 /\ core = {} /\ pc = "user" /\ cur = 0 /\ prevp = 0 /\ bp = 0
      /\ nbytes = 0 /\ nunits = 0 /\ caller = "user"
  BY DEF HeapInit
<1>2. 0 \in Addrs /\ 1 \in 1..LIMIT BY UmallocConstants DEF Addrs
<1>3. FreeList = {} /\ UsedHeads = {} /\ Freeing = {} /\ Heads = {}
  BY <1>1 DEF FreeList, UsedHeads, Freeing, Heads
<1>4. HeapTypes BY <1>1, <1>2 DEF HeapTypes
<1>5. LocalTypes /\ HeadersIntact BY <1>1 DEF LocalTypes, HeadersIntact
<1>6. Roles /\ Listed /\ Joined /\ Searching
  BY <1>1, <1>2, <1>3 DEF Roles, Listed, Joined, Searching, base
<1>7. Laid(Heads, size, core, brk)
  BY <1>1, <1>3 DEF Laid, Blocks, Apart, Within, Covered
<1> QED BY <1>4, <1>5, <1>6, <1>7 DEF HeapInv

(* What the invariant says of the list.                                    *)
LEMMA HeapFacts ==
  ASSUME HeapInv
  PROVE  /\ LIMIT \in Nat /\ NONE \notin Addrs /\ base \in Addrs /\ base = 0
         /\ \A a \in Addrs : a \in Nat /\ size[a] \in Nat
         /\ FreeList = ListOf(ptr) /\ FreeList \subseteq Addrs /\ UsedHeads \subseteq Addrs
         /\ freep # NONE => \A a \in FreeList :
              /\ ptr[a] \in FreeList /\ (ptr[a] > a \/ ptr[a] = base)
              /\ \A c \in FreeList : c > a => a < ptr[a] /\ ptr[a] <= c
         /\ freep # NONE => base \in FreeList
<1>1. LIMIT \in Nat /\ NONE \notin Addrs /\ base \in Addrs /\ base = 0
  BY UmallocConstants DEF Addrs, base
<1>2. size \in [Addrs -> Nat] /\ ptr \in [Addrs -> Addrs \cup {NONE}]
  BY DEF HeapInv, HeapTypes
<1>3. \A a \in Addrs : a \in Nat /\ size[a] \in Nat BY <1>1, <1>2 DEF Addrs
<1>4. FreeList = ListOf(ptr) /\ FreeList \subseteq Addrs BY DEF FreeList, ListOf
<1>5. UsedHeads \subseteq Addrs BY DEF UsedHeads, HeapInv, HeapTypes
<1>6. freep # NONE => Circle(ptr) BY DEF HeapInv, Listed
<1> QED BY <1>1, <1>3, <1>4, <1>5, <1>6 DEF Circle, NextIn

(* The searches only move on.                                              *)
LEMMA SearchStep ==
  ASSUME HeapInv, MallocNext \/ NoCore \/ FreeNext PROVE HeapInv'
<1>1. /\ UNCHANGED heapVars /\ freep # NONE
      /\ \/ pc = "malloc" /\ pc' = pc /\ prevp' = cur /\ cur' = ptr[cur]
            /\ UNCHANGED <<bp, nbytes, nunits, caller>>
         \/ pc = "malloc" /\ pc' = "user" /\ cur' = 0 /\ prevp' = 0 /\ bp' = 0 /\ nbytes' = 0
            /\ nunits' = 0 /\ caller' = "user"
         \/ pc = "free" /\ pc' = pc /\ cur' = ptr[cur]
            /\ UNCHANGED <<prevp, bp, nbytes, nunits, caller>>
  BY DEF MallocNext, NoCore, FreeNext, HeapInv, Listed, Returned
<1>2. UNCHANGED <<ptr, size, freep, used, brk, core>> BY <1>1 DEF heapVars
<1>3. FreeList' = FreeList /\ UsedHeads' = UsedHeads BY <1>2 DEF FreeList, UsedHeads
<1>4. Freeing' = Freeing BY <1>1 DEF Freeing
<1>5. Heads' = Heads BY <1>3, <1>4 DEF Heads
<1>6. cur \in FreeList \/ (pc = "malloc" /\ prevp \in FreeList /\ cur = ptr[prevp])
  BY <1>1 DEF HeapInv, Searching
<1>7. cur \in FreeList /\ ptr[cur] \in FreeList /\ ptr[cur] \in Addrs
  BY <1>1, <1>6, HeapFacts
<1>8. HeapTypes'
  BY <1>1, <1>2, <1>7, HeapFacts DEF HeapInv, HeapTypes
<1>9. LocalTypes' BY <1>1 DEF HeapInv, LocalTypes
<1>10. HeadersIntact' BY <1>2 DEF HeapInv, HeadersIntact
<1>11. Roles' BY <1>1, <1>2, <1>3 DEF HeapInv, Roles
<1>12. Listed' BY <1>1, <1>2, <1>3 DEF HeapInv, Listed
<1>13. Laid(Heads, size, core, brk)' BY <1>2, <1>5 DEF HeapInv
<1>14. Joined' BY <1>2, <1>3 DEF HeapInv, Joined
<1>15. Searching' BY <1>1, <1>2, <1>3, <1>7 DEF HeapInv, Searching
<1> QED BY <1>8, <1>9, <1>10, <1>11, <1>12, <1>13, <1>14, <1>15 DEF HeapInv

LEMMA SbrkStep == ASSUME HeapInv, Sbrk PROVE HeapInv'
<1>1. /\ pc = "user" /\ brk < LIMIT /\ brk' = brk + 1
      /\ UNCHANGED <<ptr, size, freep, used, core, pc, cur, prevp, bp, nbytes, nunits, caller>>
  BY DEF Sbrk, locals
<1>2. FreeList' = FreeList /\ UsedHeads' = UsedHeads /\ Freeing' = Freeing
  BY <1>1 DEF FreeList, UsedHeads, Freeing
<1>3. Heads' = Heads BY <1>2 DEF Heads
<1>4. HeapTypes' BY <1>1, HeapFacts DEF HeapInv, HeapTypes
<1>5. LocalTypes' /\ HeadersIntact' BY <1>1 DEF HeapInv, LocalTypes, HeadersIntact
<1>6. Roles' /\ Listed' /\ Joined' /\ Searching'
  BY <1>1, <1>2 DEF HeapInv, Roles, Listed, Joined, Searching
<1>7. Laid(Heads, size, core, brk)'
  <2>1. Laid(Heads, size, core, brk) /\ brk \in Nat BY HeapFacts DEF HeapInv, HeapTypes
  <2>2. \A h \in Heads : h \in Nat /\ size[h] \in Nat BY <2>1, HeapFacts DEF Laid, Blocks
  <2>3. Within(Heads, size, core, brk + 1) BY <2>1, <2>2 DEF Laid, Within
  <2>4. Covered(Heads, size, core, brk + 1) BY <2>1 DEF Laid, Covered
  <2> QED BY <2>1, <2>3, <2>4, <1>1, <1>3 DEF Laid
<1> QED BY <1>4, <1>5, <1>6, <1>7 DEF HeapInv

(* free() takes a block of the program in hand.                            *)
LEMMA FreeStep ==
  ASSUME HeapInv, NEW b \in used, Free(b) PROVE HeapInv'
<1>1. /\ pc = "user" /\ used' = used \ {b} /\ pc' = "free" /\ caller' = "user" /\ bp' = b[1]
      /\ cur' = freep
      /\ UNCHANGED <<ptr, size, freep, brk, core, prevp, nbytes, nunits>>
  BY DEF Free
<1>2. freep # NONE /\ freep \in FreeList /\ freep \in Addrs BY HeapFacts DEF HeapInv, Listed
<1>3. b[1] \in Addrs /\ b[1] \in UsedHeads BY DEF HeapInv, HeapTypes, UsedHeads
<1>4. FreeList' = FreeList BY <1>1 DEF FreeList
<1>5. UsedHeads' = UsedHeads \ {b[1]}
  <2>1. \A c \in used : c # b <=> c[1] # b[1] BY DEF HeapInv, Roles
  <2>2. UsedHeads' = {c[1] : c \in used \ {b}} BY <1>1 DEF UsedHeads
  <2> QED BY <2>1, <2>2 DEF UsedHeads
<1>6. Heads' = Heads
  <2>1. Freeing' = {b[1]} /\ Freeing = {} BY <1>1 DEF Freeing
  <2> QED BY <2>1, <1>3, <1>4, <1>5 DEF Heads
<1>7. HeapTypes' BY <1>1, <1>2, <1>3 DEF HeapInv, HeapTypes
<1>8. LocalTypes' /\ HeadersIntact' BY <1>1 DEF HeapInv, LocalTypes, HeadersIntact
<1>9. Roles'
  <2>1. \A c, d \in used' : c[1] = d[1] => c = d BY <1>1 DEF HeapInv, Roles
  <2>2. b[1] # base /\ b[1] \notin FreeList BY <1>3 DEF HeapInv, Roles
  <2> QED BY <2>1, <2>2, <1>1, <1>4, <1>5 DEF HeapInv, Roles
<1>10. Listed' BY <1>1, <1>2, <1>4 DEF HeapInv, Listed
<1>11. Laid(Heads, size, core, brk)' BY <1>1, <1>6 DEF HeapInv
<1>12. Joined' BY <1>1, <1>4 DEF HeapInv, Joined
<1>13. Searching' BY <1>1, <1>2, <1>4 DEF HeapInv, Searching
<1> QED BY <1>7, <1>8, <1>9, <1>10, <1>11, <1>12, <1>13 DEF HeapInv

(* malloc() begins, the first time with a list of base alone.              *)
LEMMA MallocStep ==
  ASSUME HeapInv, NEW n \in Requests, Malloc(n) PROVE HeapInv'
<1>1. /\ pc = "user" /\ pc' = "malloc" /\ nbytes' = n /\ nunits' = Units(n)
      /\ freep' = (IF freep = NONE THEN base ELSE freep)
      /\ ptr' = (IF freep = NONE THEN [ptr EXCEPT ![base] = base] ELSE ptr)
      /\ prevp' = freep' /\ cur' = ptr'[freep']
      /\ UNCHANGED <<size, used, brk, core, bp, caller>>
  BY DEF Malloc
<1>2. n \in Nat \ {0} BY UmallocConstants
<1>3. Units(n) \in Nat /\ Roomy(n, Units(n)) BY <1>2, UnitsRoomy
<1>4. UsedHeads' = UsedHeads /\ Freeing' = {} /\ Freeing = {} BY <1>1 DEF UsedHeads, Freeing
<1>5. ptr \in [Addrs -> Addrs \cup {NONE}] BY DEF HeapInv, HeapTypes
<1>6. LocalTypes' /\ HeadersIntact' BY <1>1, <1>2, <1>3 DEF HeapInv, LocalTypes, HeadersIntact
<1>7. CASE freep # NONE
  <2>1. ptr' = ptr /\ freep' = freep /\ FreeList' = FreeList /\ Heads' = Heads
    BY <1>1, <1>4, <1>7 DEF FreeList, Heads
  <2>2. freep \in FreeList /\ freep \in Addrs /\ ptr[freep] \in Addrs
    BY <1>7, HeapFacts DEF HeapInv, Listed
  <2>3. HeapTypes' BY <2>1, <2>2, <1>1 DEF HeapInv, HeapTypes
  <2>4. Roles' BY <2>1, <1>1, <1>4 DEF HeapInv, Roles
  <2>5. Listed' BY <2>1, <1>1, <1>7 DEF HeapInv, Listed
  <2>6. Laid(Heads, size, core, brk)' BY <2>1, <1>1 DEF HeapInv
  <2>7. Joined' BY <2>1, <1>1 DEF HeapInv, Joined
  <2>8. Searching' BY <2>1, <2>2, <1>1, <1>3 DEF HeapInv, Searching
  <2> QED BY <2>3, <2>4, <2>5, <2>6, <2>7, <2>8, <1>6 DEF HeapInv
<1>8. CASE freep = NONE
  <2>1. FreeList = {} /\ used = {} /\ UsedHeads = {} /\ Heads = {}
    BY <1>4, <1>8 DEF HeapInv, Listed, Heads, UsedHeads
  <2>2. base \in Addrs /\ base = 0 /\ base # NONE /\ NONE \notin Addrs BY HeapFacts
  <2>3. /\ ptr' \in [Addrs -> Addrs \cup {NONE}] /\ ptr'[base] = base
        /\ \A a \in Addrs : a # base => ptr'[a] = NONE
    BY <2>1, <2>2, <1>1, <1>5, <1>8 DEF FreeList
  <2>4. FreeList' = {base} BY <2>2, <2>3 DEF FreeList
  <2>5. Heads' = {base} BY <2>1, <2>4, <1>4 DEF Heads
  <2>6. freep' = base /\ prevp' = base /\ cur' = base BY <2>3, <1>1, <1>8
  <2>7. HeapTypes' BY <2>2, <2>3, <2>6, <1>1 DEF HeapInv, HeapTypes
  <2>8. Roles' BY <2>1, <2>4, <1>1, <1>4 DEF HeapInv, Roles
  <2>9. Circle(ptr')
    <3>1. ListOf(ptr') = {base} BY <2>2, <2>3 DEF ListOf
    <3> QED BY <3>1, <2>2, <2>3 DEF Circle, NextIn
  <2>10. Listed' BY <2>2, <2>4, <2>6, <2>9 DEF Listed
  <2>11. Laid({base}, size, core, brk)
    <3>1. core = {} BY <2>1 DEF HeapInv, Laid, Covered
    <3>2. size[base] = 0 /\ size \in [Addrs -> Nat] /\ brk \in 1..LIMIT
      BY DEF HeapInv, Roles, HeapTypes
    <3> QED BY <3>1, <3>2, <2>2, HeapFacts DEF Laid, Blocks, Apart, Within, Covered
  <2>12. Laid(Heads, size, core, brk)' BY <2>5, <2>11, <1>1
  <2>13. Joined' BY <2>4 DEF Joined
  <2>14. Searching' BY <2>3, <2>4, <2>6, <1>1, <1>3 DEF HeapInv, Searching
  <2> QED BY <2>7, <2>8, <2>10, <2>12, <2>13, <2>14, <1>6 DEF HeapInv
<1> QED BY <1>7, <1>8

(* The block the search of malloc() has found.                             *)
LEMMA FitsFacts ==
  ASSUME HeapInv, Fits
  PROVE  /\ pc = "malloc" /\ freep # NONE /\ Circle(ptr) /\ Freeing = {}
         /\ prevp \in FreeList /\ cur \in FreeList /\ cur \in Addrs /\ prevp \in Addrs
         /\ ptr[prevp] = cur /\ cur # base /\ cur \in Heads
         /\ nunits \in Nat /\ nunits >= 2 /\ size[cur] \in Nat /\ size[cur] >= nunits
         /\ Roomy(nbytes, nunits) /\ nbytes \in Nat
<1>1. pc = "malloc" /\ size[cur] >= nunits BY DEF Fits
<1>2. freep # NONE /\ Circle(ptr) /\ Freeing = {} BY <1>1 DEF HeapInv, Listed, Freeing
<1>3. /\ prevp \in FreeList /\ ptr[prevp] = cur
      /\ Roomy(nbytes, nunits) /\ nunits \in Nat /\ nbytes \in Nat
  BY <1>1 DEF HeapInv, Searching, LocalTypes
<1>4. cur \in FreeList /\ cur \in Addrs /\ prevp \in Addrs /\ size[cur] \in Nat
  BY <1>2, <1>3, HeapFacts
<1>5. nunits >= 2 BY <1>3 DEF Roomy
<1>6. cur # base
  <2>1. size[base] = 0 BY DEF HeapInv, Roles
  <2> QED BY <2>1, <1>1, <1>3, <1>5
<1> QED BY <1>1, <1>2, <1>3, <1>4, <1>5, <1>6 DEF Heads

LEMMA ReturnedLocals ==
  ASSUME Returned, HeapInv
  PROVE  /\ pc' = "user" /\ Freeing' = {} /\ LocalTypes' /\ Searching'
         /\ {cur', prevp', bp'} \subseteq Addrs /\ caller' = "user"
<1>1. 0 \in Addrs BY UmallocConstants DEF Addrs
<1> QED BY <1>1 DEF Returned, Freeing, LocalTypes, Searching

LEMMA HeadsWith ==
  ASSUME NEW U, NEW x, NEW y, NEW z
  PROVE  {b[1] : b \in U \cup {<<x, y, z>>}} = {b[1] : b \in U} \cup {x}
<1> DEFINE w == <<x, y, z>>
<1>1. w[1] = x OBVIOUS
<1> HIDE DEF w
<1>2. {b[1] : b \in U \cup {w}} = {b[1] : b \in U} \cup {x} BY <1>1
<1> QED BY <1>2 DEF w

LEMMA MallocWholeStep ==
  ASSUME HeapInv, MallocWhole PROVE HeapInv'
<1>1. /\ Fits /\ size[cur] = nunits
      /\ ptr' = [ptr EXCEPT ![prevp] = ptr[cur], ![cur] = NONE]
      /\ used' = used \cup {<<cur, nunits, nbytes>>}
      /\ freep' = prevp /\ Returned /\ UNCHANGED <<size, brk, core>>
  BY DEF MallocWhole
<1>2. /\ pc = "malloc" /\ freep # NONE /\ Circle(ptr) /\ Freeing = {}
      /\ prevp \in FreeList /\ cur \in FreeList /\ cur \in Addrs /\ prevp \in Addrs
      /\ ptr[prevp] = cur /\ cur # base /\ nunits \in Nat /\ nbytes \in Nat
      /\ Roomy(nbytes, nunits)
  BY <1>1, FitsFacts
<1>3. Circle(ptr') /\ ListOf(ptr') = ListOf(ptr) \ {cur} /\ prevp # cur
  <2>1. prevp \in ListOf(ptr) /\ cur \in ListOf(ptr) BY <1>2, HeapFacts
  <2> QED BY <2>1, <1>1, <1>2, CircleRemove, Zenon
<1>4. FreeList' = FreeList \ {cur} BY <1>3, HeapFacts DEF FreeList, ListOf
<1>5. UsedHeads' = UsedHeads \cup {cur} BY <1>1, HeadsWith, Zenon DEF UsedHeads
<1>6. cur \notin UsedHeads BY <1>2 DEF HeapInv, Roles
<1>7. /\ pc' = "user" /\ Freeing' = {} /\ LocalTypes' /\ Searching'
      /\ {cur', prevp', bp'} \subseteq Addrs
  BY <1>1, ReturnedLocals
<1>8. Heads' = Heads BY <1>2, <1>4, <1>5, <1>7 DEF Heads
<1>9. HeapTypes'
  <2>1. ptr' \in [Addrs -> Addrs \cup {NONE}] BY <1>3 DEF Circle
  <2> QED BY <2>1, <1>1, <1>2, <1>7 DEF HeapInv, HeapTypes
<1>10. HeadersIntact' BY <1>1, <1>2 DEF HeapInv, HeadersIntact, Roomy
<1>11. Roles'
  <2>1. \A c \in used : c[1] # cur BY <1>6 DEF UsedHeads
  <2>2. \A c, d \in used' : c[1] = d[1] => c = d BY <2>1, <1>1 DEF HeapInv, Roles
  <2> QED BY <2>2, <1>1, <1>2, <1>4, <1>5, <1>7 DEF HeapInv, Roles
<1>12. Listed'
  <2>1. freep' \in FreeList' /\ freep' # NONE BY <1>1, <1>2, <1>3, <1>4, HeapFacts
  <2> QED BY <2>1, <1>3 DEF Listed
<1>13. Laid(Heads, size, core, brk)' BY <1>1, <1>8 DEF HeapInv
<1>14. Joined' BY <1>1, <1>4 DEF HeapInv, Joined
<1> QED BY <1>7, <1>9, <1>10, <1>11, <1>12, <1>13, <1>14 DEF HeapInv

LEMMA MallocTailStep ==
  ASSUME HeapInv, MallocTail PROVE HeapInv'
<1> DEFINE t == cur + size[cur] - nunits
<1>1. /\ Fits /\ size[cur] # nunits
      /\ size' = [size EXCEPT ![cur] = size[cur] - nunits, ![t] = nunits]
      /\ used' = used \cup {<<t, nunits, nbytes>>}
      /\ freep' = prevp /\ Returned /\ UNCHANGED <<ptr, brk, core>>
  BY DEF MallocTail, Shortened
<1>2. /\ pc = "malloc" /\ freep # NONE /\ Circle(ptr) /\ Freeing = {}
      /\ prevp \in FreeList /\ cur \in FreeList /\ cur \in Addrs /\ prevp \in Addrs
      /\ ptr[prevp] = cur /\ cur # base /\ cur \in Heads
      /\ nunits \in Nat /\ nunits >= 2 /\ size[cur] \in Nat /\ size[cur] >= nunits
      /\ nbytes \in Nat /\ Roomy(nbytes, nunits)
  BY <1>1, FitsFacts
<1>3. nunits > 0 /\ nunits < size[cur] BY <1>1, <1>2
<1>4. Laid(Heads, size, core, brk) /\ brk \in 1..LIMIT BY DEF HeapInv, HeapTypes
<1>5. t \in Addrs /\ t \notin Heads /\ Laid(Heads \cup {t}, size', core, brk)
  BY <1>1, <1>2, <1>3, <1>4, BlockSplit
<1>6. FreeList' = FreeList BY <1>1 DEF FreeList
<1>7. UsedHeads' = UsedHeads \cup {t} BY <1>1, HeadsWith, Zenon DEF UsedHeads
<1>8. /\ pc' = "user" /\ Freeing' = {} /\ LocalTypes' /\ Searching'
      /\ {cur', prevp', bp'} \subseteq Addrs
  BY <1>1, ReturnedLocals
<1>9. Heads' = Heads \cup {t} BY <1>2, <1>6, <1>7, <1>8 DEF Heads
<1>10. t \notin FreeList /\ t \notin UsedHeads BY <1>5 DEF Heads
<1>11. /\ size' \in [Addrs -> Nat] /\ size'[t] = nunits /\ size'[cur] = size[cur] - nunits
       /\ \A a \in Addrs : a # t /\ a # cur => size'[a] = size[a]
  <2>1. size \in [Addrs -> Nat] /\ size[cur] - nunits \in Nat /\ t # cur
    BY <1>2, <1>10 DEF HeapInv, HeapTypes
  <2> HIDE DEF t
  <2> QED BY <2>1, <1>1, <1>2, <1>5
<1> HIDE DEF t
<1>12. HeapTypes' BY <1>1, <1>2, <1>5, <1>8, <1>11 DEF HeapInv, HeapTypes
<1>13. HeadersIntact'
  <2>1. ASSUME NEW b \in used PROVE size'[b[1]] = b[2] /\ (b[2] - 1) * HeaderSize >= b[3]
    <3>1. b[1] \in UsedHeads /\ b[1] \in Addrs BY HeapFacts DEF UsedHeads
    <3>2. b[1] # t /\ b[1] # cur BY <3>1, <1>2, <1>10 DEF HeapInv, Roles
    <3> QED BY <3>1, <3>2, <1>11 DEF HeapInv, HeadersIntact
  <2> DEFINE w == <<t, nunits, nbytes>>
  <2>2. size'[w[1]] = w[2] /\ (w[2] - 1) * HeaderSize >= w[3] BY <1>2, <1>11 DEF Roomy
  <2>3. used' = used \cup {w} BY <1>1
  <2> HIDE DEF w
  <2> QED BY <2>1, <2>2, <2>3 DEF HeadersIntact
<1>14. Roles'
  <2>1. \A c \in used : c[1] # t BY <1>10 DEF UsedHeads
  <2>2. \A c, d \in used' : c[1] = d[1] => c = d BY <2>1, <1>1 DEF HeapInv, Roles
  <2>3. t # base /\ base # cur BY <1>2, <1>10, HeapFacts
  <2>4. size'[base] = 0 BY <2>3, <1>11, HeapFacts DEF HeapInv, Roles
  <2> QED BY <2>2, <2>3, <2>4, <1>6, <1>7, <1>8, <1>10 DEF HeapInv, Roles
<1>15. Listed' BY <1>1, <1>2, <1>6, HeapFacts DEF Listed
<1>16. Laid(Heads, size, core, brk)' BY <1>1, <1>5, <1>9
<1>17. Joined'
  <2> SUFFICES ASSUME NEW a \in FreeList, NEW b \in FreeList, a # b PROVE a + size'[a] # b
    BY <1>6 DEF Joined
  <2>1. a \in Addrs /\ b \in Addrs /\ b \in Nat /\ a # t /\ b # t BY <1>10, HeapFacts
  <2>2. CASE a # cur BY <2>1, <2>2, <1>11 DEF HeapInv, Joined
  <2>3. CASE a = cur
    <3>1. cur + size'[cur] = t BY <1>2, <1>11, HeapFacts DEF t
    <3> QED BY <3>1, <2>1, <2>3
  <2> QED BY <2>2, <2>3
<1> QED BY <1>8, <1>12, <1>13, <1>14, <1>15, <1>16, <1>17 DEF HeapInv

(* morecore(): the kernel's memory is a block in hand.                     *)
LEMMA MoreCoreStep ==
  ASSUME HeapInv, MoreCore PROVE HeapInv'
<1> DEFINE nu == IF nunits < CORE THEN CORE ELSE nunits
<1>1. /\ pc = "malloc" /\ cur = freep /\ brk + nu <= LIMIT
      /\ size' = [size EXCEPT ![brk] = nu] /\ core' = core \cup brk..(brk + nu - 1)
      /\ brk' = brk + nu /\ pc' = "free" /\ caller' = "malloc" /\ bp' = brk /\ cur' = freep
      /\ UNCHANGED <<ptr, freep, used, prevp, nbytes, nunits>>
  BY DEF MoreCore
<1>2. nu \in Nat /\ nu > 0
  BY UmallocConstants, <1>1 DEF HeapInv, Searching, Roomy, LocalTypes
<1> HIDE DEF nu
<1>3. Laid(Heads, size, core, brk) /\ brk \in 1..LIMIT /\ size \in [Addrs -> Nat]
  BY DEF HeapInv, HeapTypes
<1>4. /\ brk \in Addrs /\ brk \notin Heads
      /\ Laid(Heads \cup {brk}, size', core', brk')
  BY <1>1, <1>2, <1>3, BlockGrow
<1>5. FreeList' = FreeList /\ UsedHeads' = UsedHeads /\ Freeing' = {brk} /\ Freeing = {}
  BY <1>1 DEF FreeList, UsedHeads, Freeing
<1>6. Heads' = Heads \cup {brk} BY <1>5 DEF Heads
<1>7. brk \notin FreeList /\ brk \notin UsedHeads /\ brk # base
  BY <1>3, <1>4, HeapFacts DEF Heads
<1>8. /\ size' \in [Addrs -> Nat] /\ \A a \in Addrs : a # brk => size'[a] = size[a]
  BY <1>1, <1>2, <1>3
<1>9. freep # NONE /\ freep \in FreeList /\ freep \in Addrs
  BY <1>1, HeapFacts DEF HeapInv, Listed
<1>10. HeapTypes'
  <2>1. brk' \in 1..LIMIT BY <1>1, <1>2, <1>3, HeapFacts
  <2>2. core' \subseteq 1..(LIMIT - 1) BY <2>1, <1>4, HeapFacts DEF Laid, Covered
  <2> QED BY <2>1, <2>2, <1>1, <1>4, <1>8, <1>9 DEF HeapInv, HeapTypes
<1>11. LocalTypes' BY <1>1 DEF HeapInv, LocalTypes
<1>12. HeadersIntact'
  <2> SUFFICES ASSUME NEW b \in used PROVE size'[b[1]] = b[2] /\ (b[2] - 1) * HeaderSize >= b[3]
    BY <1>1 DEF HeadersIntact
  <2>1. b[1] \in UsedHeads /\ b[1] \in Addrs BY HeapFacts DEF UsedHeads
  <2> QED BY <2>1, <1>7, <1>8 DEF HeapInv, HeadersIntact
<1>13. Roles'
  <2>1. size'[base] = 0 BY <1>7, <1>8, HeapFacts DEF HeapInv, Roles
  <2> QED BY <2>1, <1>1, <1>5, <1>7 DEF HeapInv, Roles
<1>14. Listed' BY <1>1, <1>5, <1>9 DEF HeapInv, Listed
<1>15. Laid(Heads, size, core, brk)' BY <1>4, <1>6
<1>16. Joined'
  <2>1. \A a \in FreeList : size'[a] = size[a] BY <1>7, <1>8, HeapFacts
  <2> QED BY <2>1, <1>5 DEF HeapInv, Joined
<1>17. Searching' BY <1>1, <1>5, <1>9 DEF HeapInv, Searching
<1> QED BY <1>10, <1>11, <1>12, <1>13, <1>14, <1>15, <1>16, <1>17 DEF HeapInv

(* The place that the search of free() has found.                          *)
LEMMA PlaceFacts ==
  ASSUME HeapInv, pc = "free", Between \/ AtEnd
  PROVE  /\ freep # NONE /\ Circle(ptr) /\ cur \in FreeList /\ ptr[cur] \in FreeList
         /\ cur \in Addrs /\ ptr[cur] \in Addrs /\ bp \in Addrs
         /\ bp # base /\ bp \notin FreeList /\ bp \notin UsedHeads
         /\ cur < bp /\ (bp < ptr[cur] \/ ptr[cur] = base)
         /\ {cur, bp, ptr[cur]} \subseteq Heads /\ size[bp] > 0
<1>1. freep # NONE /\ Circle(ptr) BY DEF HeapInv, Listed
<1>2. cur \in FreeList BY DEF HeapInv, Searching
<1>3. /\ ptr[cur] \in FreeList /\ cur \in Addrs /\ ptr[cur] \in Addrs
      /\ (ptr[cur] > cur \/ ptr[cur] = base)
  BY <1>1, <1>2, HeapFacts
<1>4. bp \in Addrs /\ bp # base /\ bp \notin FreeList /\ bp \notin UsedHeads
  BY DEF HeapInv, HeapTypes, Roles
<1>5. cur \in Nat /\ ptr[cur] \in Nat /\ bp \in Nat /\ base = 0 BY <1>3, <1>4, HeapFacts
<1>6. cur < bp /\ (bp < ptr[cur] \/ ptr[cur] = base)
  <2>1. CASE Between BY <2>1, <1>5 DEF Between
  <2>2. CASE AtEnd BY <2>2, <1>3, <1>4, <1>5 DEF AtEnd
  <2> QED BY <2>1, <2>2
<1>7. {cur, bp, ptr[cur]} \subseteq Heads BY <1>2, <1>3 DEF Heads, Freeing
<1>8. size[bp] > 0 BY <1>4, <1>7 DEF HeapInv, Laid, Blocks
<1> QED BY <1>1, <1>2, <1>3, <1>4, <1>6, <1>7, <1>8

(* First the block in hand takes the one above it, if they touch: sizes    *)
(* and list that free() then goes on with.  Afterwards the block in hand   *)
(* ends where no free block begins.                                        *)
SizesAbove == IF JoinsAbove THEN [size EXCEPT ![bp] = size[bp] + size[ptr[cur]], ![ptr[cur]] = 0]
              ELSE size
ListAbove == IF JoinsAbove THEN [ptr EXCEPT ![cur] = ptr[ptr[cur]], ![ptr[cur]] = NONE] ELSE ptr
Gone == IF JoinsAbove THEN {ptr[cur]} ELSE {}

LEMMA InsertAbove ==
  ASSUME HeapInv, pc = "free", Between \/ AtEnd
  PROVE  /\ Laid(Heads \ Gone, SizesAbove, core, brk)
         /\ Circle(ListAbove) /\ ListOf(ListAbove) = FreeList \ Gone
         /\ cur \notin Gone /\ bp \notin Gone /\ base \notin Gone /\ Gone \subseteq FreeList
         /\ bp < ListAbove[cur] \/ ListAbove[cur] = base
         /\ \A a \in Addrs : a # bp /\ a \notin Gone => SizesAbove[a] = size[a]
         /\ \A b \in FreeList \ Gone : bp + SizesAbove[bp] # b
<1> DEFINE above == ptr[cur]
<1>1. /\ freep # NONE /\ Circle(ptr) /\ cur \in FreeList /\ above \in FreeList
      /\ cur \in Addrs /\ above \in Addrs /\ bp \in Addrs
      /\ bp # base /\ bp \notin FreeList /\ bp \notin UsedHeads
      /\ cur < bp /\ (bp < above \/ above = base)
      /\ cur \in Heads /\ bp \in Heads /\ above \in Heads /\ size[bp] > 0
  BY PlaceFacts
<1>2. /\ \A a \in Addrs : a \in Nat /\ size[a] \in Nat
      /\ base = 0 /\ FreeList \subseteq Addrs /\ base \in FreeList /\ NONE \notin Addrs
      /\ FreeList = ListOf(ptr)
  BY <1>1, HeapFacts
<1>3. \A a, c \in FreeList : /\ ptr[a] \in FreeList /\ (ptr[a] > a \/ ptr[a] = base)
                             /\ c > a => a < ptr[a] /\ ptr[a] <= c
  BY <1>1, HeapFacts
<1>4. Laid(Heads, size, core, brk) /\ brk \in 1..LIMIT /\ size \in [Addrs -> Nat]
  BY DEF HeapInv, HeapTypes
<1>5. ptr \in [Addrs -> Addrs \cup {NONE}] BY <1>1 DEF Circle
<1> HIDE DEF above
<1>9. /\ bp \in Nat /\ cur \in Nat /\ above \in Nat /\ size[bp] \in Nat
      /\ \A b \in FreeList : b \in Nat /\ size[b] \in Nat /\ ptr[b] \in Nat
  BY <1>1, <1>2, <1>3
<1>6. ASSUME NEW b \in FreeList, b > bp PROVE above <= b /\ bp < above
  <2>1. b > cur BY <1>6, <1>1, <1>9
  <2>2. cur < above /\ above <= b BY <2>1, <1>1, <1>3 DEF above
  <2>3. above # base
    <3>1. base = 0 BY <1>2
    <3>2. cur \in Nat /\ above \in Nat BY <1>9
    <3> QED BY <3>1, <3>2, <2>2
  <2> QED BY <2>2, <2>3, <1>1
<1>7. CASE JoinsAbove
  <2> DEFINE T == [size EXCEPT ![bp] = size[bp] + size[above], ![above] = 0]
             P == [ptr EXCEPT ![cur] = ptr[above], ![above] = NONE]
  <2>1. above = bp + size[bp] BY <1>7 DEF JoinsAbove, above
  <2>2. SizesAbove = T /\ ListAbove = P /\ Gone = {above}
    BY <1>7 DEF SizesAbove, ListAbove, Gone, above
  <2>3. above # base /\ above > bp BY <2>1, <1>1, <1>2
  <2>4. above # cur BY <2>3, <1>1, <1>2
  <2>5. Laid(Heads \ {above}, T, core, brk) BY <2>1, <2>3, <1>1, <1>4, BlockJoin
  <2>6. Circle(P) /\ ListOf(P) = ListOf(ptr) \ {above}
    <3>1. ptr[cur] = above BY DEF above
    <3> QED BY <3>1, <2>3, <1>1, <1>2, CircleRemove
  <2>7. P[cur] = ptr[above] BY <2>4, <1>1, <1>5
  <2>8. bp < ptr[above] \/ ptr[above] = base
    <3>1. ptr[above] > above \/ ptr[above] = base BY <1>1, <1>3
    <3> QED BY <3>1, <2>3, <1>1, <1>9
  <2>9. /\ \A a \in Addrs : a # bp /\ a # above => T[a] = size[a]
        /\ T[bp] = size[bp] + size[above]
    BY <2>3, <1>1, <1>2, <1>4
  <2> HIDE DEF T, P
  <2>10. ASSUME NEW b \in FreeList \ {above} PROVE bp + T[bp] # b
    <3>1. bp + T[bp] = above + size[above] BY <2>1, <2>9, <1>1, <1>2
    <3>2. above + size[above] # b BY <1>1 DEF HeapInv, Joined
    <3> QED BY <3>1, <3>2
  <2> QED BY <2>2, <2>3, <2>4, <2>5, <2>6, <2>7, <2>8, <2>9, <2>10, <1>1, <1>2
<1>8. CASE ~JoinsAbove
  <2>1. SizesAbove = size /\ ListAbove = ptr /\ Gone = {}
    BY <1>8 DEF SizesAbove, ListAbove, Gone
  <2>2. bp + size[bp] # above BY <1>8 DEF JoinsAbove, above
  <2>3. ASSUME NEW b \in FreeList PROVE bp + size[bp] # b
    <3> SUFFICES ASSUME bp + size[bp] = b PROVE FALSE OBVIOUS
    <3>1. b > bp BY <1>1, <1>9
    <3>2. above <= b /\ bp < above BY <3>1, <1>6
    <3>3. bp + size[bp] <= above BY <3>2, <1>1, <1>4 DEF Laid, Apart
    <3> QED BY <3>2, <3>3, <2>2, <1>9
  <2>4. bp < ptr[cur] \/ ptr[cur] = base BY <1>1 DEF above
  <2> QED BY <2>1, <2>3, <2>4, <1>1, <1>2, <1>4
<1> QED BY <1>7, <1>8

(* Then the block below takes it, or it enters the list.                   *)
LEMMA FreeInsertStep ==
  ASSUME HeapInv, FreeInsert PROVE HeapInv'
<1> DEFINE S == SizesAbove
           P == ListAbove
           L == FreeList \ Gone
           H == Heads \ Gone
<1>1. /\ pc = "free" /\ (Between \/ AtEnd) /\ freep' = cur
      /\ UNCHANGED <<used, brk, core>>
      /\ IF caller = "user" THEN Returned
         ELSE /\ pc' = "malloc" /\ caller' = "user" /\ bp' = 0
              /\ prevp' = cur /\ cur' = ptr'[cur] /\ UNCHANGED <<nbytes, nunits>>
  BY DEF FreeInsert
<1>2. /\ freep # NONE /\ Circle(ptr) /\ cur \in FreeList /\ cur \in Addrs /\ bp \in Addrs
      /\ bp # base /\ bp \notin FreeList /\ bp \notin UsedHeads
      /\ cur < bp /\ cur \in Heads /\ bp \in Heads /\ size[bp] > 0
      /\ ptr[cur] \in FreeList /\ ptr[cur] \in Addrs /\ (bp < ptr[cur] \/ ptr[cur] = base)
  BY <1>1, PlaceFacts
<1>3. /\ Laid(H, S, core, brk) /\ Circle(P) /\ ListOf(P) = L
      /\ cur \notin Gone /\ bp \notin Gone /\ base \notin Gone /\ Gone \subseteq FreeList
      /\ bp < P[cur] \/ P[cur] = base
      /\ \A a \in Addrs : a # bp /\ a \notin Gone => S[a] = size[a]
      /\ \A b \in L : bp + S[bp] # b
  BY <1>1, InsertAbove
<1>4. /\ \A a \in Addrs : a \in Nat /\ size[a] \in Nat
      /\ base = 0 /\ FreeList \subseteq Addrs /\ UsedHeads \subseteq Addrs
      /\ base \in FreeList /\ NONE \notin Addrs
  BY <1>2, HeapFacts
<1>5. /\ size' = IF JoinsBelow THEN [S EXCEPT ![cur] = S[cur] + S[bp], ![bp] = 0] ELSE S
      /\ ptr' = IF JoinsBelow THEN P ELSE [P EXCEPT ![bp] = P[cur], ![cur] = bp]
  <2>1. ptr \in [Addrs -> Addrs \cup {NONE}] /\ size \in [Addrs -> Nat] /\ ptr[bp] = NONE
    BY <1>2 DEF HeapInv, HeapTypes, FreeList
  <2>2. cur # bp BY <1>2, <1>4
  <2>3. CASE JoinsAbove
    <3>1. ptr[cur] # cur /\ ptr[cur] # bp
      <4>1. Gone = {ptr[cur]} BY <2>3 DEF Gone
      <4> QED BY <4>1, <1>3
    <3>2. /\ S = [size EXCEPT ![bp] = size[bp] + size[ptr[cur]], ![ptr[cur]] = 0]
          /\ P = [ptr EXCEPT ![cur] = ptr[ptr[cur]], ![ptr[cur]] = NONE]
      BY <2>3 DEF SizesAbove, ListAbove
    <3> DEFINE Q == [ptr EXCEPT ![bp] = ptr[ptr[cur]], ![ptr[cur]] = NONE]
    <3>3. /\ size' = IF JoinsBelow THEN [S EXCEPT ![cur] = S[cur] + S[bp], ![bp] = 0] ELSE S
          /\ ptr' = IF JoinsBelow THEN [Q EXCEPT ![cur] = Q[bp], ![bp] = NONE]
                                  ELSE [Q EXCEPT ![cur] = bp]
      BY <3>2, <2>3 DEF FreeInsert
    <3>4. [Q EXCEPT ![cur] = Q[bp], ![bp] = NONE] = P
      BY <3>1, <3>2, <2>1, <2>2, <1>2
    <3>5. [Q EXCEPT ![cur] = bp] = [P EXCEPT ![bp] = P[cur], ![cur] = bp]
      BY <3>1, <3>2, <2>1, <2>2, <1>2
    <3> HIDE DEF Q, S, P
    <3> QED BY <3>3, <3>4, <3>5
  <2>4. CASE ~JoinsAbove
    <3>1. S = size /\ P = ptr BY <2>4 DEF SizesAbove, ListAbove
    <3> DEFINE Q == [ptr EXCEPT ![bp] = ptr[cur]]
    <3>2. /\ size' = IF JoinsBelow THEN [S EXCEPT ![cur] = S[cur] + S[bp], ![bp] = 0] ELSE S
          /\ ptr' = IF JoinsBelow THEN [Q EXCEPT ![cur] = Q[bp], ![bp] = NONE]
                                  ELSE [Q EXCEPT ![cur] = bp]
      BY <3>1, <2>4 DEF FreeInsert
    <3>3. [Q EXCEPT ![cur] = Q[bp], ![bp] = NONE] = P BY <3>1, <2>1, <2>2, <1>2
    <3>4. [Q EXCEPT ![cur] = bp] = [P EXCEPT ![bp] = P[cur], ![cur] = bp]
      BY <3>1, <2>1, <2>2, <1>2
    <3> HIDE DEF Q, S, P
    <3> QED BY <3>2, <3>3, <3>4
  <2> QED BY <2>3, <2>4
<1>6. cur \in L /\ bp \in H /\ cur \in H /\ cur # bp /\ S[cur] = size[cur] BY <1>2, <1>3, <1>4
<1>7. H = L \cup UsedHeads \cup {bp}
  <2>1. Heads = FreeList \cup UsedHeads \cup {bp} BY <1>1 DEF Heads, Freeing
  <2>2. FreeList \cap UsedHeads = {} BY DEF HeapInv, Roles
  <2> QED BY <2>1, <2>2, <1>3
<1>8. \A a, b \in L : a # b => a + S[a] # b
  <2>1. \A a \in L : S[a] = size[a] BY <1>2, <1>3, <1>4
  <2> QED BY <2>1 DEF HeapInv, Joined
<1>9. brk \in 1..LIMIT BY DEF HeapInv, HeapTypes
<1>10. S \in [Addrs -> Nat] BY <1>3 DEF Laid, Blocks
<1> HIDE DEF S, P, L, H
<1>11. ASSUME NEW a \in L, a + S[a] = bp PROVE a = cur
  <2>1. a \in FreeList /\ a \in Nat /\ bp \in Nat /\ cur \in Nat /\ S[a] \in Nat /\ ptr[cur] \in Nat
    BY <1>2, <1>4, <1>10 DEF L
  <2>2. a < bp BY <2>1, <1>2, <1>11 DEF L
  <2>3. ~(a > cur)
    <3> SUFFICES ASSUME a > cur PROVE FALSE OBVIOUS
    <3>1. cur < ptr[cur] /\ ptr[cur] <= a BY <2>1, <1>2, HeapFacts
    <3> QED BY <3>1, <2>1, <2>2, <1>2, <1>4
  <2>4. ~(a < cur)
    <3> SUFFICES ASSUME a < cur PROVE FALSE OBVIOUS
    <3>1. a \in H BY <1>7
    <3>2. a + S[a] <= cur BY <3>1, <1>3, <1>6 DEF Laid, Apart
    <3> QED BY <3>2, <2>1, <1>2, <1>11
  <2> QED BY <2>1, <2>3, <2>4
<1>12. /\ Circle(ptr') /\ FreeList' = IF JoinsBelow THEN L ELSE L \cup {bp}
  <2>1. FreeList' = ListOf(ptr') BY DEF FreeList, ListOf
  <2>2. CASE JoinsBelow BY <2>1, <2>2, <1>3, <1>5
  <2>3. CASE ~JoinsBelow
    <3>1. bp \notin ListOf(P) /\ cur \in ListOf(P) BY <1>2, <1>3, <1>6 DEF L
    <3>2. Circle([P EXCEPT ![bp] = P[cur], ![cur] = bp])
          /\ ListOf([P EXCEPT ![bp] = P[cur], ![cur] = bp]) = ListOf(P) \cup {bp}
      BY <3>1, <1>2, <1>3, CircleInsert
    <3> QED BY <3>2, <2>1, <2>3, <1>3, <1>5
  <2> QED BY <2>2, <2>3
<1>13. /\ Laid(IF JoinsBelow THEN H \ {bp} ELSE H, size', core, brk)
       /\ JoinsBelow => cur # base /\ cur + size'[cur] = bp + S[bp]
                        /\ \A a \in Addrs : a # bp /\ a # cur => size'[a] = S[a]
  <2>1. CASE JoinsBelow
    <3>1. bp = cur + S[cur] BY <2>1, <1>6 DEF JoinsBelow
    <3>2. cur # base
      <4>1. size[base] = 0 BY DEF HeapInv, Roles
      <4> QED BY <4>1, <3>1, <1>2, <1>4, <1>6
    <3>3. Laid(H \ {bp}, size', core, brk) BY <3>1, <3>2, <2>1, <1>2, <1>3, <1>5, <1>6, <1>9, BlockJoin
    <3>4. size' = [S EXCEPT ![cur] = S[cur] + S[bp], ![bp] = 0] BY <2>1, <1>5
    <3>5. /\ size'[cur] = S[cur] + S[bp]
          /\ \A a \in Addrs : a # bp /\ a # cur => size'[a] = S[a]
      BY <3>4, <1>2, <1>6, <1>10
    <3>6. cur \in Nat /\ S[cur] \in Nat /\ S[bp] \in Nat BY <1>2, <1>4, <1>10
    <3> QED BY <3>1, <3>2, <3>3, <3>5, <3>6, <2>1
  <2>2. CASE ~JoinsBelow BY <2>2, <1>3, <1>5
  <2> QED BY <2>1, <2>2
<1>14. /\ size' \in [Addrs -> Nat]
       /\ \A a \in UsedHeads \cup {base} : size'[a] = size[a]
  <2>1. size' \in [Addrs -> Nat] BY <1>13 DEF Laid, Blocks
  <2>2. ASSUME NEW a \in UsedHeads \cup {base} PROVE size'[a] = size[a]
    <3>1. a \in Addrs /\ a # bp /\ a \notin Gone /\ (JoinsBelow => a # cur)
      BY <1>2, <1>3, <1>4, <1>13 DEF HeapInv, Roles
    <3>2. S[a] = size[a] BY <3>1, <1>3
    <3> QED BY <3>1, <3>2, <1>5, <1>13
  <2> QED BY <2>1, <2>2
<1>15. UsedHeads' = UsedHeads BY <1>1 DEF UsedHeads
<1>16. pc' # "free" /\ Freeing' = {} BY <1>1 DEF Returned, Freeing
<1>17. Heads' = IF JoinsBelow THEN H \ {bp} ELSE H
  BY <1>2, <1>7, <1>12, <1>15, <1>16 DEF Heads, L
<1>18. cur \in FreeList' BY <1>6, <1>12
<1>19. ptr'[cur] \in FreeList' /\ ptr' \in [Addrs -> Addrs \cup {NONE}]
  BY <1>12, <1>18 DEF Circle, NextIn, FreeList, ListOf
<1>20. HeapTypes'
  <2>1. 0 \in Addrs BY <1>4, HeapFacts
  <2>2. {cur', prevp', bp'} \subseteq Addrs /\ pc' \in {"user", "malloc"}
    BY <2>1, <1>1, <1>2, <1>19 DEF Returned, FreeList
  <2> QED BY <2>2, <1>1, <1>2, <1>14, <1>19 DEF HeapInv, HeapTypes
<1>21. LocalTypes' BY <1>1 DEF HeapInv, LocalTypes, Returned
<1>22. HeadersIntact'
  <2> SUFFICES ASSUME NEW b \in used PROVE size'[b[1]] = b[2] /\ (b[2] - 1) * HeaderSize >= b[3]
    BY <1>1 DEF HeadersIntact
  <2>1. b[1] \in UsedHeads BY DEF UsedHeads
  <2> QED BY <2>1, <1>14 DEF HeapInv, HeadersIntact
<1>23. Roles'
  <2>1. size'[base] = 0 BY <1>14 DEF HeapInv, Roles
  <2>2. FreeList' \cap UsedHeads = {} BY <1>2, <1>12 DEF HeapInv, Roles, L
  <2> QED BY <2>1, <2>2, <1>1, <1>15, <1>16 DEF HeapInv, Roles
<1>24. Listed'
  <2>1. freep' # NONE BY <1>1, <1>2, <1>4
  <2> QED BY <2>1, <1>1, <1>12, <1>18 DEF Listed
<1>25. Laid(Heads, size, core, brk)' BY <1>1, <1>13, <1>17
<1>26. Joined'
  <2> SUFFICES ASSUME NEW a \in FreeList', NEW b \in FreeList', a # b PROVE a + size'[a] # b
    BY DEF Joined
  <2>1. CASE JoinsBelow
    <3>1. a \in L /\ b \in L /\ a \in Addrs /\ a # bp BY <2>1, <1>2, <1>4, <1>12 DEF L
    <3>2. CASE a = cur BY <3>1, <3>2, <2>1, <1>3, <1>13
    <3>3. CASE a # cur
      <4>1. size'[a] = S[a] BY <3>1, <3>3, <2>1, <1>13
      <4> QED BY <4>1, <3>1, <1>8
    <3> QED BY <3>2, <3>3
  <2>2. CASE ~JoinsBelow
    <3>1. size' = S /\ a \in L \cup {bp} /\ b \in L \cup {bp} BY <2>2, <1>5, <1>12
    <3>2. cur + S[cur] # bp BY <2>2, <1>6 DEF JoinsBelow
    <3>3. CASE a = bp BY <3>1, <3>3, <1>3
    <3>4. CASE a # bp /\ b = bp BY <3>1, <3>2, <3>4, <1>11
    <3>5. CASE a # bp /\ b # bp BY <3>1, <3>5, <1>8
    <3> QED BY <3>3, <3>4, <3>5
  <2> QED BY <2>1, <2>2
<1>27. Searching' BY <1>1, <1>18 DEF HeapInv, Searching, Returned, LocalTypes
<1> QED BY <1>20, <1>21, <1>22, <1>23, <1>24, <1>25, <1>26, <1>27 DEF HeapInv

(* The invariant is inductive, and the blocks it lays out tile the memory. *)
LEMMA HeapStepKeeps ==
  ASSUME HeapInv, [HeapNext]_mallocVars PROVE HeapInv'
<1>1. CASE UNCHANGED mallocVars
  <2>1. UNCHANGED <<ptr, size, freep, used, brk, core, pc, cur, prevp, bp, nbytes, nunits, caller>>
    BY <1>1 DEF mallocVars, heapVars, locals
  <2>2. FreeList' = FreeList /\ UsedHeads' = UsedHeads /\ Freeing' = Freeing /\ Heads' = Heads
    BY <2>1 DEF FreeList, UsedHeads, Freeing, Heads
  <2> QED BY <2>1, <2>2 DEF HeapInv, HeapTypes, LocalTypes, HeadersIntact, Roles, Listed, Joined, Searching
<1>2. CASE Step
  BY <1>2, SearchStep, MallocWholeStep, MallocTailStep, MoreCoreStep, FreeInsertStep DEF Step
<1>3. CASE Sbrk BY <1>3, SbrkStep
<1>4. CASE \E n \in Requests : Malloc(n) BY <1>4, MallocStep
<1>5. CASE \E b \in used : Free(b) BY <1>5, FreeStep
<1> QED BY <1>1, <1>2, <1>3, <1>4, <1>5 DEF HeapNext

LEMMA HeapInvTiles == HeapInv => Tiled
<1> SUFFICES ASSUME HeapInv PROVE Tiled OBVIOUS
<1>1. HeapTypes /\ HeadersIntact BY DEF HeapInv
<1>2. SortedAndJoined
  <2>1. \A a, b \in FreeList : a # b => a + size[a] # b BY DEF HeapInv, Joined
  <2>2. FreeList # {} => freep # NONE BY DEF HeapInv, Listed
  <2>3. FreeList # {} => {base, freep} \subseteq FreeList BY <2>2, HeapFacts DEF HeapInv, Listed
  <2>4. \A a \in FreeList : Follows(a, ptr[a]) BY <2>2, HeapFacts DEF Follows
  <2> QED BY <2>1, <2>3, <2>4 DEF SortedAndJoined
<1>3. ASSUME pc = "user"
      PROVE  LET blocks == used \cup FreeBlocks IN
             /\ UNION {Extent(b) : b \in blocks} = core
             /\ \A b, c \in blocks : b # c => Extent(b) \cap Extent(c) = {}
  <2> DEFINE blocks == used \cup FreeBlocks
  <2>1. Heads = FreeList \cup UsedHeads BY <1>3 DEF Heads, Freeing
  <2>2. Laid(Heads, size, core, brk) /\ Heads \subseteq Addrs BY DEF HeapInv, Laid, Blocks
  <2>3. \A h \in Heads : h \in Nat /\ size[h] \in Nat BY <2>2, HeapFacts
  <2>4. ASSUME NEW b \in blocks
        PROVE  b[1] \in Heads /\ b[2] = size[b[1]] /\ Extent(b) = b[1]..(b[1] + size[b[1]] - 1)
    <3>1. CASE b \in used BY <3>1, <2>1 DEF HeapInv, HeadersIntact, UsedHeads, Extent
    <3>2. CASE b \in FreeBlocks BY <3>2, <2>1 DEF FreeBlocks, Extent
    <3> QED BY <3>1, <3>2
  <2>5. ASSUME NEW b \in blocks, NEW c \in blocks, b[1] = c[1] PROVE b = c
    <3>1. CASE b \in used /\ c \in used BY <3>1, <2>5 DEF HeapInv, Roles
    <3>2. CASE b \in FreeBlocks /\ c \in FreeBlocks BY <3>2, <2>5 DEF FreeBlocks
    <3>3. \A d \in used : d[1] \in UsedHeads BY DEF UsedHeads
    <3>4. \A d \in FreeBlocks : d[1] \in FreeList BY DEF FreeBlocks
    <3> QED BY <3>1, <3>2, <3>3, <3>4, <2>5 DEF HeapInv, Roles
  <2>6. ASSUME NEW h \in Heads PROVE \E b \in blocks : b[1] = h
    <3>1. CASE h \in UsedHeads BY <3>1 DEF UsedHeads
    <3>2. CASE h \in FreeList
      <4>1. <<h, size[h]>> \in FreeBlocks /\ <<h, size[h]>>[1] = h BY <3>2 DEF FreeBlocks
      <4> QED BY <4>1
    <3> QED BY <3>1, <3>2, <2>1
  <2> HIDE DEF blocks
  <2>7. ASSUME NEW x PROVE x \in UNION {Extent(b) : b \in blocks} <=> x \in core
    <3>1. ASSUME x \in core PROVE \E b \in blocks : x \in Extent(b)
      <4>1. PICK h \in Heads : h <= x /\ x < h + size[h] BY <3>1, <2>2 DEF Laid, Covered
      <4>2. x \in Int BY <3>1, <2>2 DEF Laid, Covered
      <4>3. PICK b \in blocks : b[1] = h BY <2>6
      <4>4. x \in h..(h + size[h] - 1) BY <4>1, <4>2, <2>3
      <4> QED BY <4>3, <4>4, <2>4
    <3>2. ASSUME NEW b \in blocks, x \in Extent(b) PROVE x \in core
      <4>1. PICK h \in Heads : h = b[1] /\ x \in h..(h + size[h] - 1) BY <3>2, <2>4
      <4>2. h + size[h] <= brk /\ brk \in 1..LIMIT BY <2>2 DEF Laid, Within, HeapInv, HeapTypes
      <4>3. x \in Addrs /\ h <= x /\ x < h + size[h] BY <4>1, <4>2, <2>3, HeapFacts DEF Addrs
      <4> QED BY <4>3, <2>2 DEF Laid, Within
    <3> QED BY <3>1, <3>2
  <2>8. ASSUME NEW b \in blocks, NEW c \in blocks, b # c PROVE Extent(b) \cap Extent(c) = {}
    <3>1. b[1] # c[1] BY <2>5, <2>8
    <3>2. PICK h \in Heads : h = b[1] /\ Extent(b) = h..(h + size[h] - 1) BY <2>4
    <3>3. PICK k \in Heads : k = c[1] /\ Extent(c) = k..(k + size[k] - 1) BY <2>4
    <3>4. h + size[h] <= k \/ k + size[k] <= h BY <3>1, <3>2, <3>3, <2>2, <2>3 DEF Laid, Apart
    <3> QED BY <3>2, <3>3, <3>4, <2>3
  <2>9. UNION {Extent(b) : b \in blocks} = core BY <2>7
  <2> QED BY <2>8, <2>9 DEF blocks
<1> QED BY <1>1, <1>2, <1>3 DEF Tiled

(* Whatever a program asks malloc() for and gives back to free(), in any   *)
(* order, with memory of its own from sbrk() in between: between calls the *)
(* free blocks and the blocks of the program tile the memory obtained, and *)
(* at all times the list is one sorted circle without neighbours that      *)
(* should have been joined, and every block of the program has its header  *)
(* intact and room for what was asked for.                                 *)
THEOREM HeapTiled == HeapSpec => []Tiled
<1>1. HeapInit => HeapInv BY HeapStart
<1>2. HeapInv /\ [HeapNext]_mallocVars => HeapInv' BY HeapStepKeeps
<1>3. HeapInv => Tiled BY HeapInvTiles
<1> QED BY <1>1, <1>2, <1>3, PTL DEF HeapSpec

=============================================================================
