------------------------------ MODULE RefProofs ------------------------------
(***************************************************************************)
(* Proofs about Files and Inode, for any number of processes, descriptors, *)
(* files, pages and inodes: the counts of references to files and to the   *)
(* ends of pipes are right between any two steps of the calls, those to    *)
(* inodes whenever no call is in progress.                                 *)
(***************************************************************************)
EXTENDS Files, Inode, FiniteSetTheorems, FunctionTheorems, SequenceTheorems,
        WellFoundedInduction, TLAPS

(* How many of the places in P hold v.                                     *)
Count(H, P, v) == Cardinality({x \in P : H[x] = v})

(* What the places hold when descriptors, pending closes and pipes in the  *)
(* making are o, c and m.                                                  *)
HeldBy(o, c, m, x) == CASE x[1] = "ofile" -> o[x[2]][x[3]]
                        [] x[1] = "closing" -> c[x[2]][x[3]]
                        [] x[1] = "making" -> IF x[3] \in DOMAIN m[x[2]] THEN m[x[2]][x[3]] ELSE 0
HoldOf(o, c, m) == [x \in Places |-> HeldBy(o, c, m, x)]
Refs(F) == [f \in Slots |-> F[f].ref]

(* The counts in R are those of the places.                                *)
Counted(R, H) ==
  /\ R \in [Slots -> Nat] /\ H \in [Places -> Slots \cup {0}]
  /\ \A f \in Slots : R[f] = Count(H, Places, f)

FileRec == [ref : Nat, obj : Pages \cup Inodes \cup {None}, readable : BOOLEAN, writable : BOOLEAN]
PipeRec == [live : BOOLEAN, readopen : BOOLEAN, writeopen : BOOLEAN, n : Nat]
FdMap == [Fds -> Slots \cup {0}]
Making == {<<>>} \cup {<<f>> : f \in Slots} \cup {<<f, g>> : f \in Slots, g \in Slots}

Types ==
  /\ file \in [Slots -> FileRec] /\ ofile \in [Procs -> FdMap]
  /\ pipe \in [Pages -> PipeRec] /\ iref \in [Inodes -> Nat]
  /\ making \in [Procs -> Making]
  /\ closing \in [Procs -> FdMap] /\ putting \in [Procs -> FileRec]

(* A file that pipealloc() has just taken is its own, and stands for       *)
(* nothing yet; a process that makes a pipe closes nothing.                *)
TakenFile == [NoFile EXCEPT !.ref = 1]
Makes ==
  \A p \in Procs :
    /\ \A k \in DOMAIN making[p] : file[making[p][k]] = TakenFile
    /\ making[p] # <<>> => closing[p] = NoFds

(* A file nobody holds is free; what is being put stands for something.    *)
Blank ==
  /\ \A f \in Slots : file[f].ref = 0 => file[f] = NoFile
  /\ \A p \in Procs : putting[p].obj = None => putting[p] = NoFile

(* The files, and the closes in progress, that can stand for an object,    *)
(* and the end of a pipe each stands for.                                  *)
Stands == ({"file"} \X Slots) \cup ({"putting"} \X Procs)
EndOf(g) == <<g.obj, g.writable>>
EndVals == (Pages \cup Inodes \cup {None}) \X BOOLEAN
StandOf(F, P) == [x \in Stands |-> IF x[1] = "file" THEN EndOf(F[x[2]]) ELSE EndOf(P[x[2]])]

(* An end of a pipe is open as long as something stands for it, and one    *)
(* thing does.                                                             *)
EndsOpen(g, S) ==
  /\ \A o \in Pages :
       /\ g[o].readopen <=> \E x \in Stands : S[x] = <<o, FALSE>>
       /\ g[o].writeopen <=> \E x \in Stands : S[x] = <<o, TRUE>>
       /\ g[o].live <=> g[o].readopen \/ g[o].writeopen
  /\ \A x, y \in Stands : S[x] = S[y] /\ S[x][1] \in Pages => x = y

(* An inode has a reference for everything that stands for it.             *)
ObjOf(F) == [f \in Slots |-> F[f].obj]
PutOf(P) == [p \in Procs |-> P[p].obj]
InodeCount(A, B, i) == Count(A, Slots, i) + Count(B, Procs, i)
InodesCounted(r, A, B) == \A i \in Inodes : r[i] = InodeCount(A, B, i)

Objects(g, r, F, P) == EndsOpen(g, StandOf(F, P)) /\ InodesCounted(r, ObjOf(F), PutOf(P))

RefInv ==
  /\ Types /\ Makes /\ Blank
  /\ Counted(Refs(file), HoldOf(ofile, closing, making))
  /\ Objects(pipe, iref, file, putting)
-----------------------------------------------------------------------------
(* Counting.  G is H but for what x holds.                                 *)
SameBut(H, G, P, x) == \A y \in P : y # x => G[y] = H[y]

LEMMA CountIsNat ==
  ASSUME NEW P, IsFiniteSet(P), NEW H, NEW v
  PROVE  IsFiniteSet({x \in P : H[x] = v}) /\ Count(H, P, v) \in Nat
<1>1. {x \in P : H[x] = v} \subseteq P OBVIOUS
<1>2. IsFiniteSet({x \in P : H[x] = v}) BY <1>1, FS_Subset
<1> QED BY <1>2, FS_CardinalityType DEF Count

LEMMA CountChange ==
  ASSUME NEW P, IsFiniteSet(P), NEW H, NEW G, NEW x \in P, NEW v, SameBut(H, G, P, x)
  PROVE  /\ (H[x] = v <=> G[x] = v) => Count(G, P, v) = Count(H, P, v)
         /\ H[x] # v /\ G[x] = v => Count(G, P, v) = Count(H, P, v) + 1
         /\ H[x] = v /\ G[x] # v => Count(G, P, v) = Count(H, P, v) - 1
<1> DEFINE A == {y \in P : H[y] = v}
           B == {y \in P : G[y] = v}
<1>1. IsFiniteSet(A) /\ IsFiniteSet(B) BY CountIsNat
<1>2. ASSUME H[x] = v <=> G[x] = v PROVE Count(G, P, v) = Count(H, P, v)
  <2>1. A = B BY <1>2 DEF SameBut
  <2> QED BY <2>1 DEF Count
<1>3. ASSUME H[x] # v, G[x] = v PROVE Count(G, P, v) = Count(H, P, v) + 1
  <2>1. B = A \cup {x} /\ x \notin A BY <1>3 DEF SameBut
  <2>2. Cardinality(B) = Cardinality(A) + 1 BY <1>1, <2>1, FS_AddElement
  <2> QED BY <2>2 DEF Count
<1>4. ASSUME H[x] = v, G[x] # v PROVE Count(G, P, v) = Count(H, P, v) - 1
  <2>1. B = A \ {x} /\ x \in A BY <1>4 DEF SameBut
  <2>2. Cardinality(B) = Cardinality(A) - 1 BY <1>1, <2>1, FS_RemoveElement
  <2> QED BY <2>2 DEF Count
<1> QED BY <1>2, <1>3, <1>4

(* Who is counted is there, and a count of one is one place.               *)
LEMMA CountSome ==
  ASSUME NEW P, IsFiniteSet(P), NEW H, NEW x \in P
  PROVE  /\ Count(H, P, H[x]) >= 1
         /\ \A y \in P : H[y] = H[x] /\ Count(H, P, H[x]) = 1 => y = x
<1> DEFINE A == {y \in P : H[y] = H[x]}
<1>1. IsFiniteSet(A) /\ x \in A
  <2>1. A \in SUBSET P /\ x \in A OBVIOUS
  <2> QED BY <2>1, FS_Subset
<1>2. Cardinality(A) \in Nat /\ Cardinality(A) # 0 BY <1>1, FS_CardinalityType, FS_EmptySet
<1>3. Cardinality(A) >= 1 BY <1>2
<1>4. Cardinality(A) = 1 => \E z : A = {z} BY <1>1, FS_Singleton
<1>5. ASSUME NEW y \in P, H[y] = H[x], Cardinality(A) = 1 PROVE y = x
  <2>1. PICK z : A = {z} BY <1>4, <1>5
  <2>2. y \in A BY <1>5
  <2> QED BY <1>1, <2>1, <2>2
<1> QED BY <1>3, <1>5 DEF Count

(* Places that exchange what they hold: pi is its own inverse.             *)
Exchange(H, G, P, pi) ==
  pi \in [P -> P] /\ (\A x \in P : pi[pi[x]] = x) /\ \A x \in P : G[x] = H[pi[x]]

LEMMA CountExchange ==
  ASSUME NEW P, IsFiniteSet(P), NEW H, NEW G, NEW pi, NEW v, Exchange(H, G, P, pi)
  PROVE  Count(G, P, v) = Count(H, P, v)
<1> DEFINE A == {y \in P : H[y] = v}
           B == {y \in P : G[y] = v}
           f == [y \in B |-> pi[y]]
<1>1. IsFiniteSet(B)
  <2>1. B \in SUBSET P OBVIOUS
  <2> QED BY <2>1, FS_Subset
<1>2. f \in [B -> A] BY DEF Exchange
<1>3. \A y, z \in B : f[y] = f[z] => y = z
  <2> TAKE y, z \in B
  <2>1. f[y] = pi[y] /\ f[z] = pi[z] /\ pi[pi[y]] = y /\ pi[pi[z]] = z BY DEF Exchange
  <2> QED BY <2>1
<1>4. \A y \in A : pi[y] \in B /\ f[pi[y]] = y BY DEF Exchange
<1>5. f \in Bijection(B, A)
  <2> HIDE DEF A, B, f
  <2>1. \A y \in A : \E z \in B : f[z] = y BY <1>4
  <2>2. f \in Injection(B, A) BY <1>2, <1>3 DEF Injection, IsInjective
  <2>3. f \in Surjection(B, A) BY <1>2, <2>1, Zenon DEF Surjection
  <2> QED BY <2>2, <2>3, Zenon DEF Bijection
<1>6. ExistsBijection(B, A) BY <1>5 DEF ExistsBijection
<1>7. Cardinality(A) = Cardinality(B) BY <1>1, <1>6, FS_Bijection
<1> QED BY <1>7 DEF Count

(* Places Q that held nothing come to hold something.                      *)
Fills(H, G, P, Q) ==
  /\ Q \subseteq P
  /\ \A x \in P : x \notin Q => G[x] = H[x]
  /\ \A x \in Q : H[x] = 0

LEMMA CountFill ==
  ASSUME NEW P, IsFiniteSet(P), NEW H, NEW G, NEW Q, NEW v, v # 0, Fills(H, G, P, Q)
  PROVE  Count(G, P, v) = Count(H, P, v) + Count(G, Q, v)
<1> DEFINE A == {y \in P : H[y] = v}
           B == {y \in P : G[y] = v}
           C == {y \in Q : G[y] = v}
<1>1. IsFiniteSet(Q) BY FS_Subset DEF Fills
<1>2. IsFiniteSet(A) /\ IsFiniteSet(C)
  <2>1. A \in SUBSET P /\ C \in SUBSET Q OBVIOUS
  <2> QED BY <1>1, <2>1, FS_Subset
<1>3. B = A \cup C
  <2>1. \A y \in B : y \in A \cup C BY DEF Fills
  <2>2. \A y \in A : y \in B BY DEF Fills
  <2>3. \A y \in C : y \in B BY DEF Fills
  <2> QED BY <2>1, <2>2, <2>3
<1>4. A \cap C = {} BY DEF Fills
<1>5. Cardinality(A \cup C) = Cardinality(A) + Cardinality(C) - Cardinality(A \cap C)
  BY <1>2, FS_Union
<1>6. Cardinality(A) \in Nat /\ Cardinality(C) \in Nat /\ Cardinality({}) = 0
  BY <1>2, FS_CardinalityType, FS_EmptySet
<1>7. Cardinality(B) = Cardinality(A) + Cardinality(C)
  <2> HIDE DEF A, B, C
  <2>1. Cardinality(A \cap C) = 0 BY <1>4, <1>6, Zenon
  <2>2. Cardinality(B) = Cardinality(A \cup C) BY <1>3, Zenon
  <2> QED BY <1>5, <1>6, <2>1, <2>2
<1> QED BY <1>7 DEF Count

(* The product of finite sets, one of them a tag, is finite.               *)
LEMMA TaggedFinite ==
  ASSUME NEW t, NEW S, IsFiniteSet(S), NEW T, IsFiniteSet(T)
  PROVE  IsFiniteSet({t} \X S \X T)
<1> DEFINE f == [y \in S \X T |-> <<t, y[1], y[2]>>]
<1>1. IsFiniteSet(S \X T) BY FS_Product
<1>2. f \in [S \X T -> {t} \X S \X T] OBVIOUS
<1>3. \A z \in {t} \X S \X T : \E y \in S \X T : f[y] = z
  <2> TAKE z \in {t} \X S \X T
  <2>1. PICK a \in S, b \in T : z = <<t, a, b>> OBVIOUS
  <2>2. f[<<a, b>>] = z BY <2>1
  <2> QED BY <2>2
<1>4. f \in Surjection(S \X T, {t} \X S \X T) BY <1>2, <1>3 DEF Surjection
<1> QED BY <1>1, <1>4, FS_Surjection
-----------------------------------------------------------------------------
(* There are finitely many places.                                         *)
LEMMA PlacesFinite == IsFiniteSet(Places)
<1>1. IsFiniteSet(Procs) /\ IsFiniteSet(Fds) /\ IsFiniteSet(1..2)
  <2>1. 0 \in Int /\ NOFILE - 1 \in Int /\ 1 \in Int /\ 2 \in Int BY FilesConstants
  <2>2. IsFiniteSet(0..(NOFILE - 1)) /\ IsFiniteSet(1..2) BY <2>1, FS_Interval
  <2> QED BY <2>2, ProcsFinite DEF Fds
<1>2. {1, 2} = 1..2 OBVIOUS
<1>3. /\ IsFiniteSet({"ofile"} \X Procs \X Fds) /\ IsFiniteSet({"closing"} \X Procs \X Fds)
      /\ IsFiniteSet({"making"} \X Procs \X (1..2))
  BY <1>1, TaggedFinite
<1> DEFINE A == {"ofile"} \X Procs \X Fds
           B == {"closing"} \X Procs \X Fds
           C == {"making"} \X Procs \X (1..2)
<1>4. Places = (A \cup B) \cup C BY <1>2 DEF Places
<1> HIDE DEF A, B, C
<1>5. IsFiniteSet(A \cup B) BY <1>3, FS_Union DEF A, B
<1>6. IsFiniteSet((A \cup B) \cup C) BY <1>3, <1>5, FS_Union DEF C
<1> QED BY <1>4, <1>6, Zenon

(* The places of a process, and what they hold.                            *)
O(p, d) == <<"ofile", p, d>>
C(p, d) == <<"closing", p, d>>
M(p, k) == <<"making", p, k>>

LEMMA PlaceIs ==
  /\ \A p \in Procs : \A d \in Fds : O(p, d) \in Places /\ C(p, d) \in Places
  /\ \A p \in Procs : M(p, 1) \in Places /\ M(p, 2) \in Places
  /\ \A x \in Places : \/ \E p \in Procs : \E d \in Fds : x = O(p, d) \/ x = C(p, d)
                       \/ \E p \in Procs : x = M(p, 1) \/ x = M(p, 2)
BY DEF Places, O, C, M

MadeAt(m, p, k) == IF k \in DOMAIN m[p] THEN m[p][k] ELSE 0

AtFds(H, o, c) ==
  /\ \A p \in Procs : \A d \in Fds : H[O(p, d)] = o[p][d]
  /\ \A p \in Procs : \A d \in Fds : H[C(p, d)] = c[p][d]
AtMade(H, m) == \A p \in Procs : H[M(p, 1)] = MadeAt(m, p, 1) /\ H[M(p, 2)] = MadeAt(m, p, 2)

LEMMA HoldFields ==
  ASSUME NEW o, NEW c, NEW m
  PROVE  AtFds(HoldOf(o, c, m), o, c) /\ AtMade(HoldOf(o, c, m), m)
<1>1. ASSUME NEW p \in Procs, NEW d \in Fds
      PROVE  HoldOf(o, c, m)[O(p, d)] = o[p][d] /\ HoldOf(o, c, m)[C(p, d)] = c[p][d]
  BY PlaceIs DEF HoldOf, HeldBy, O, C
<1>2. ASSUME NEW p \in Procs
      PROVE  /\ HoldOf(o, c, m)[M(p, 1)] = MadeAt(m, p, 1)
             /\ HoldOf(o, c, m)[M(p, 2)] = MadeAt(m, p, 2)
  BY PlaceIs DEF HoldOf, HeldBy, M, MadeAt
<1> QED BY <1>1, <1>2 DEF AtFds, AtMade

LEMMA HoldIsFcn ==
  ASSUME NEW o, NEW c, NEW m
  PROVE  HoldOf(o, c, m) = [x \in Places |-> HoldOf(o, c, m)[x]]
BY DEF HoldOf

LEMMA MadeIs ==
  ASSUME NEW m, NEW p
  PROVE  /\ m[p] = <<>> => MadeAt(m, p, 1) = 0 /\ MadeAt(m, p, 2) = 0
         /\ \A f : m[p] = <<f>> => MadeAt(m, p, 1) = f /\ MadeAt(m, p, 2) = 0
         /\ \A f, g : m[p] = <<f, g>> => MadeAt(m, p, 1) = f /\ MadeAt(m, p, 2) = g
BY DEF MadeAt

(* A function on the places is known by its values.                        *)
LEMMA SamePlaces ==
  ASSUME NEW H, NEW G, H = [x \in Places |-> H[x]], G = [x \in Places |-> G[x]],
         \A p \in Procs : \A d \in Fds : H[O(p, d)] = G[O(p, d)] /\ H[C(p, d)] = G[C(p, d)],
         \A p \in Procs : H[M(p, 1)] = G[M(p, 1)] /\ H[M(p, 2)] = G[M(p, 2)]
  PROVE  H = G
<1>1. \A x \in Places : H[x] = G[x]
  <2> TAKE x \in Places
  <2>1. CASE \E p \in Procs : \E d \in Fds : x = O(p, d) \/ x = C(p, d) BY <2>1
  <2>2. CASE \E p \in Procs : x = M(p, 1) \/ x = M(p, 2) BY <2>2
  <2> QED BY <2>1, <2>2, PlaceIs
<1> QED BY <1>1

LEMMA HoldType ==
  ASSUME NEW o \in [Procs -> FdMap], NEW c \in [Procs -> FdMap], NEW m \in [Procs -> Making]
  PROVE  HoldOf(o, c, m) \in [Places -> Slots \cup {0}]
<1>1. ASSUME NEW p \in Procs
      PROVE  MadeAt(m, p, 1) \in Slots \cup {0} /\ MadeAt(m, p, 2) \in Slots \cup {0}
  <2>1. m[p] \in Making OBVIOUS
  <2>2. \/ m[p] = <<>>
        \/ \E f \in Slots : m[p] = <<f>>
        \/ \E f, g \in Slots : m[p] = <<f, g>>
    BY <2>1 DEF Making
  <2> QED BY <2>2, MadeIs
<1>2. ASSUME NEW p \in Procs, NEW d \in Fds
      PROVE  o[p][d] \in Slots \cup {0} /\ c[p][d] \in Slots \cup {0}
  <2>1. o[p] \in FdMap /\ c[p] \in FdMap OBVIOUS
  <2> QED BY <2>1 DEF FdMap
<1>4. AtFds(HoldOf(o, c, m), o, c) /\ AtMade(HoldOf(o, c, m), m) BY HoldFields
<1>3. \A x \in Places : HoldOf(o, c, m)[x] \in Slots \cup {0}
  <2> TAKE x \in Places
  <2>1. CASE \E p \in Procs : \E d \in Fds : x = O(p, d) \/ x = C(p, d)
    <3>1. PICK p \in Procs, d \in Fds : x = O(p, d) \/ x = C(p, d) BY <2>1
    <3>2. HoldOf(o, c, m)[O(p, d)] = o[p][d] /\ HoldOf(o, c, m)[C(p, d)] = c[p][d]
      BY <3>1, <1>4 DEF AtFds
    <3> QED BY <1>2, <3>1, <3>2
  <2>2. CASE \E p \in Procs : x = M(p, 1) \/ x = M(p, 2)
    <3>1. PICK p \in Procs : x = M(p, 1) \/ x = M(p, 2) BY <2>2
    <3>2. HoldOf(o, c, m)[M(p, 1)] = MadeAt(m, p, 1) /\ HoldOf(o, c, m)[M(p, 2)] = MadeAt(m, p, 2)
      BY <1>4 DEF AtMade
    <3> QED BY <1>1, <3>1, <3>2
  <2> QED BY <2>1, <2>2, PlaceIs
<1> QED BY <1>3 DEF HoldOf

(* Setting a descriptor, a pending close, a file of a pipe in the making.  *)
SetAt(o, n, p, d, v) ==
  \A q \in Procs, e \in Fds : n[q][e] = IF q = p /\ e = d THEN v ELSE o[q][e]

LEMMA SetOfile ==
  ASSUME NEW o, NEW c, NEW m, NEW p \in Procs, NEW d \in Fds, NEW v, NEW n, SetAt(o, n, p, d, v)
  PROVE  HoldOf(n, c, m) = [HoldOf(o, c, m) EXCEPT ![O(p, d)] = v]
<1> DEFINE H == HoldOf(n, c, m)
           K == HoldOf(o, c, m)
           G == [K EXCEPT ![O(p, d)] = v]
<1>1. H = [x \in Places |-> H[x]] /\ K = [x \in Places |-> K[x]] BY HoldIsFcn
<1>2. G = [x \in Places |-> G[x]] /\ \A x \in Places : G[x] = IF x = O(p, d) THEN v ELSE K[x]
  BY <1>1
<1> HIDE DEF H, K, G
<1>6. AtFds(H, n, c) /\ AtMade(H, m) /\ AtFds(K, o, c) /\ AtMade(K, m)
  BY HoldFields DEF H, K
<1>3. ASSUME NEW q \in Procs, NEW e \in Fds
      PROVE  H[O(q, e)] = G[O(q, e)] /\ H[C(q, e)] = G[C(q, e)]
  <2>1. H[O(q, e)] = n[q][e] BY <1>6 DEF AtFds
  <2>2. n[q][e] = IF q = p /\ e = d THEN v ELSE o[q][e] BY DEF SetAt
  <2>3. K[O(q, e)] = o[q][e] /\ K[C(q, e)] = c[q][e] /\ H[C(q, e)] = c[q][e] BY <1>6 DEF AtFds
  <2>4. O(q, e) \in Places /\ C(q, e) \in Places /\ C(q, e) # O(p, d) BY PlaceIs DEF O, C
  <2>5. O(q, e) = O(p, d) <=> q = p /\ e = d BY DEF O
  <2>6. G[C(q, e)] = c[q][e] BY <1>2, <2>3, <2>4
  <2>7. G[O(q, e)] = IF q = p /\ e = d THEN v ELSE o[q][e] BY <1>2, <2>3, <2>4, <2>5
  <2> QED BY <2>1, <2>2, <2>3, <2>6, <2>7
<1>4. ASSUME NEW q \in Procs PROVE H[M(q, 1)] = G[M(q, 1)] /\ H[M(q, 2)] = G[M(q, 2)]
  <2>1. /\ H[M(q, 1)] = MadeAt(m, q, 1) /\ H[M(q, 2)] = MadeAt(m, q, 2)
        /\ K[M(q, 1)] = MadeAt(m, q, 1) /\ K[M(q, 2)] = MadeAt(m, q, 2)
    BY <1>6 DEF AtMade
  <2>2. /\ M(q, 1) \in Places /\ M(q, 2) \in Places
        /\ M(q, 1) # O(p, d) /\ M(q, 2) # O(p, d)
    BY PlaceIs DEF O, M
  <2> QED BY <1>2, <2>1, <2>2
<1>5. H = G BY <1>1, <1>2, <1>3, <1>4, SamePlaces
<1> QED BY <1>5 DEF H, K, G

LEMMA SetClosing ==
  ASSUME NEW o, NEW c, NEW m, NEW p \in Procs, NEW d \in Fds, NEW v, NEW n, SetAt(c, n, p, d, v)
  PROVE  HoldOf(o, n, m) = [HoldOf(o, c, m) EXCEPT ![C(p, d)] = v]
<1> DEFINE H == HoldOf(o, n, m)
           K == HoldOf(o, c, m)
           G == [K EXCEPT ![C(p, d)] = v]
<1>1. H = [x \in Places |-> H[x]] /\ K = [x \in Places |-> K[x]] BY HoldIsFcn
<1>2. G = [x \in Places |-> G[x]] /\ \A x \in Places : G[x] = IF x = C(p, d) THEN v ELSE K[x]
  BY <1>1
<1> HIDE DEF H, K, G
<1>6. AtFds(H, o, n) /\ AtMade(H, m) /\ AtFds(K, o, c) /\ AtMade(K, m)
  BY HoldFields DEF H, K
<1>3. ASSUME NEW q \in Procs, NEW e \in Fds
      PROVE  H[O(q, e)] = G[O(q, e)] /\ H[C(q, e)] = G[C(q, e)]
  <2>1. H[C(q, e)] = n[q][e] BY <1>6 DEF AtFds
  <2>2. n[q][e] = IF q = p /\ e = d THEN v ELSE c[q][e] BY DEF SetAt
  <2>3. K[O(q, e)] = o[q][e] /\ K[C(q, e)] = c[q][e] /\ H[O(q, e)] = o[q][e] BY <1>6 DEF AtFds
  <2>4. O(q, e) \in Places /\ C(q, e) \in Places /\ O(q, e) # C(p, d) BY PlaceIs DEF O, C
  <2>5. C(q, e) = C(p, d) <=> q = p /\ e = d BY DEF C
  <2>6. G[O(q, e)] = o[q][e] BY <1>2, <2>3, <2>4
  <2>7. G[C(q, e)] = IF q = p /\ e = d THEN v ELSE c[q][e] BY <1>2, <2>3, <2>4, <2>5
  <2> QED BY <2>1, <2>2, <2>3, <2>6, <2>7
<1>4. ASSUME NEW q \in Procs PROVE H[M(q, 1)] = G[M(q, 1)] /\ H[M(q, 2)] = G[M(q, 2)]
  <2>1. /\ H[M(q, 1)] = MadeAt(m, q, 1) /\ H[M(q, 2)] = MadeAt(m, q, 2)
        /\ K[M(q, 1)] = MadeAt(m, q, 1) /\ K[M(q, 2)] = MadeAt(m, q, 2)
    BY <1>6 DEF AtMade
  <2>2. /\ M(q, 1) \in Places /\ M(q, 2) \in Places
        /\ M(q, 1) # C(p, d) /\ M(q, 2) # C(p, d)
    BY PlaceIs DEF C, M
  <2> QED BY <1>2, <2>1, <2>2
<1>5. H = G BY <1>1, <1>2, <1>3, <1>4, SamePlaces
<1> QED BY <1>5 DEF H, K, G

(* What p has in the making changes.                                       *)
SetRow(m, n, p) == \A q \in Procs : q # p => n[q] = m[q]

SetBoth(H, x, u, y, v) == [[H EXCEPT ![x] = u] EXCEPT ![y] = v]

LEMMA SetMaking ==
  ASSUME NEW o, NEW c, NEW m, NEW p \in Procs, NEW n, SetRow(m, n, p)
  PROVE  HoldOf(o, c, n) = SetBoth(HoldOf(o, c, m), M(p, 1), MadeAt(n, p, 1), M(p, 2), MadeAt(n, p, 2))
<1> USE DEF SetBoth
<1> DEFINE H == HoldOf(o, c, n)
           K == HoldOf(o, c, m)
           G == [[K EXCEPT ![M(p, 1)] = MadeAt(n, p, 1)] EXCEPT ![M(p, 2)] = MadeAt(n, p, 2)]
<1>1. H = [x \in Places |-> H[x]] /\ K = [x \in Places |-> K[x]] BY HoldIsFcn
<1>2. /\ G = [x \in Places |-> G[x]]
      /\ \A x \in Places : G[x] = IF x = M(p, 2) THEN MadeAt(n, p, 2)
                                  ELSE IF x = M(p, 1) THEN MadeAt(n, p, 1) ELSE K[x]
  BY <1>1
<1>0. \A q \in Procs : q # p => MadeAt(n, q, 1) = MadeAt(m, q, 1) /\ MadeAt(n, q, 2) = MadeAt(m, q, 2)
  BY DEF MadeAt, SetRow
<1> HIDE DEF H, K, G
<1>6. AtFds(H, o, c) /\ AtMade(H, n) /\ AtFds(K, o, c) /\ AtMade(K, m)
  BY HoldFields DEF H, K
<1>3. ASSUME NEW q \in Procs, NEW e \in Fds
      PROVE  H[O(q, e)] = G[O(q, e)] /\ H[C(q, e)] = G[C(q, e)]
  <2>1. /\ H[O(q, e)] = o[q][e] /\ H[C(q, e)] = c[q][e]
        /\ K[O(q, e)] = o[q][e] /\ K[C(q, e)] = c[q][e]
    BY <1>6 DEF AtFds
  <2>2. O(q, e) \in Places /\ C(q, e) \in Places BY PlaceIs
  <2>3. \A k \in {1, 2} : O(q, e) # M(p, k) /\ C(q, e) # M(p, k) BY DEF O, C, M
  <2> QED BY <1>2, <2>1, <2>2, <2>3
<1>4. ASSUME NEW q \in Procs PROVE H[M(q, 1)] = G[M(q, 1)] /\ H[M(q, 2)] = G[M(q, 2)]
  <2>1. /\ H[M(q, 1)] = MadeAt(n, q, 1) /\ H[M(q, 2)] = MadeAt(n, q, 2)
        /\ K[M(q, 1)] = MadeAt(m, q, 1) /\ K[M(q, 2)] = MadeAt(m, q, 2)
    BY <1>6 DEF AtMade
  <2>2. M(q, 1) \in Places /\ M(q, 2) \in Places BY PlaceIs
  <2>3. /\ M(q, 1) # M(p, 2) /\ M(q, 2) # M(p, 1)
        /\ (M(q, 1) = M(p, 1) <=> q = p) /\ (M(q, 2) = M(p, 2) <=> q = p)
    BY DEF M
  <2>4. CASE q = p BY <1>2, <2>1, <2>2, <2>3, <2>4
  <2>5. CASE q # p BY <1>0, <1>2, <2>1, <2>2, <2>3, <2>5
  <2> QED BY <2>4, <2>5
<1>5. H = G BY <1>1, <1>2, <1>3, <1>4, SamePlaces
<1> QED BY <1>5 DEF H, K, G
-----------------------------------------------------------------------------
(* What a step does to the counts: take a reference, give one back, move   *)
(* one from place to place.                                                *)
LEMMA CountTake ==
  ASSUME NEW R, NEW H, Counted(R, H), NEW x \in Places, H[x] = 0, NEW f \in Slots
  PROVE  Counted([R EXCEPT ![f] = @ + 1], [H EXCEPT ![x] = f])
<1> DEFINE G == [H EXCEPT ![x] = f]
           S == [R EXCEPT ![f] = @ + 1]
<1>0. 0 \notin Slots BY DEF Slots
<1>1. SameBut(H, G, Places, x) /\ G[x] = f BY DEF Counted, SameBut
<1>2. S \in [Slots -> Nat] /\ G \in [Places -> Slots \cup {0}] BY DEF Counted
<1>3. ASSUME NEW g \in Slots PROVE S[g] = Count(G, Places, g)
  <2> HIDE DEF G
  <2>1. R[g] = Count(H, Places, g) /\ R[g] \in Nat BY DEF Counted
  <2>2. g = f => Count(G, Places, g) = Count(H, Places, g) + 1
    BY <1>0, <1>1, PlacesFinite, CountChange
  <2>3. g # f => Count(G, Places, g) = Count(H, Places, g)
    BY <1>0, <1>1, PlacesFinite, CountChange
  <2>4. S[g] = IF g = f THEN R[g] + 1 ELSE R[g] BY DEF Counted
  <2> QED BY <2>1, <2>2, <2>3, <2>4
<1> QED BY <1>2, <1>3 DEF Counted

LEMMA CountGive ==
  ASSUME NEW R, NEW H, Counted(R, H), NEW x \in Places, NEW f \in Slots, H[x] = f
  PROVE  R[f] >= 1 /\ Counted([R EXCEPT ![f] = @ - 1], [H EXCEPT ![x] = 0])
<1> DEFINE G == [H EXCEPT ![x] = 0]
           S == [R EXCEPT ![f] = @ - 1]
<1>0. 0 \notin Slots BY DEF Slots
<1>1. SameBut(H, G, Places, x) /\ G[x] = 0 BY DEF Counted, SameBut
<1>2. R[f] \in Nat /\ R[f] >= 1
  <2>1. Count(H, Places, H[x]) >= 1 BY PlacesFinite, CountSome
  <2> QED BY <2>1 DEF Counted
<1>3. S \in [Slots -> Nat] /\ G \in [Places -> Slots \cup {0}] BY <1>2 DEF Counted
<1>4. ASSUME NEW g \in Slots PROVE S[g] = Count(G, Places, g)
  <2> HIDE DEF G
  <2>1. R[g] = Count(H, Places, g) /\ R[g] \in Nat BY DEF Counted
  <2>2. g = f => Count(G, Places, g) = Count(H, Places, g) - 1
    BY <1>0, <1>1, PlacesFinite, CountChange
  <2>3. g # f => Count(G, Places, g) = Count(H, Places, g)
    BY <1>0, <1>1, PlacesFinite, CountChange
  <2>4. S[g] = IF g = f THEN R[g] - 1 ELSE R[g] BY DEF Counted
  <2> QED BY <2>1, <2>2, <2>3, <2>4
<1> QED BY <1>2, <1>3, <1>4 DEF Counted

LEMMA CountMove ==
  ASSUME NEW R, NEW H, Counted(R, H), NEW x \in Places, NEW y \in Places,
         NEW f \in Slots, H[x] = f, H[y] = 0
  PROVE  Counted(R, [[H EXCEPT ![x] = 0] EXCEPT ![y] = f])
<1> DEFINE S == [R EXCEPT ![f] = @ - 1]
           G == [H EXCEPT ![x] = 0]
<1>1. R[f] >= 1 /\ Counted(S, G) BY CountGive
<1>2. G[y] = 0 BY DEF Counted
<1>3. [S EXCEPT ![f] = @ + 1] = R
  <2>1. R \in [Slots -> Nat] /\ R[f] \in Nat BY DEF Counted
  <2>2. S[f] = R[f] - 1 BY <2>1
  <2>3. S[f] + 1 = R[f] BY <2>1, <2>2
  <2> QED BY <2>1, <2>3
<1> HIDE DEF S, G
<1>4. Counted([S EXCEPT ![f] = @ + 1], [G EXCEPT ![y] = f]) BY <1>1, <1>2, CountTake
<1> QED BY <1>3, <1>4 DEF G

(* A file with one reference is in one place, one with none in none.       *)
LEMMA CountSole ==
  ASSUME NEW R, NEW H, Counted(R, H), NEW f \in Slots, NEW x \in Places, H[x] = f
  PROVE  R[f] >= 1 /\ \A y \in Places : H[y] = f /\ R[f] = 1 => y = x
BY PlacesFinite, CountSome DEF Counted

(* exit() moves a whole row: every descriptor is to be closed.             *)
LEMMA CountCloseAll ==
  ASSUME NEW o \in [Procs -> FdMap], NEW c \in [Procs -> FdMap], NEW m \in [Procs -> Making],
         NEW R, NEW p \in Procs, c[p] = NoFds, Counted(R, HoldOf(o, c, m))
  PROVE  Counted(R, HoldOf([o EXCEPT ![p] = NoFds], [c EXCEPT ![p] = o[p]], m))
<1> DEFINE a == [o EXCEPT ![p] = NoFds]
           b == [c EXCEPT ![p] = o[p]]
           H == HoldOf(o, c, m)
           G == HoldOf(a, b, m)
           Other(x) == IF x[2] = p THEN IF x[1] = "ofile" THEN C(p, x[3])
                                        ELSE IF x[1] = "closing" THEN O(p, x[3]) ELSE x
                       ELSE x
           pi == [x \in Places |-> Other(x)]
<1>1. NoFds \in FdMap BY DEF NoFds, FdMap
<1>2. a \in [Procs -> FdMap] /\ b \in [Procs -> FdMap] BY <1>1
<1>3. /\ \A q \in Procs : \A d \in Fds :
           /\ a[q][d] = IF q = p THEN 0 ELSE o[q][d]
           /\ b[q][d] = IF q = p THEN o[p][d] ELSE c[q][d]
      /\ \A d \in Fds : c[p][d] = 0
  BY DEF NoFds
<1>4. /\ \A q \in Procs : \A d \in Fds : Other(O(q, d)) = IF q = p THEN C(p, d) ELSE O(q, d)
      /\ \A q \in Procs : \A d \in Fds : Other(C(q, d)) = IF q = p THEN O(p, d) ELSE C(q, d)
      /\ \A q \in Procs : Other(M(q, 1)) = M(q, 1) /\ Other(M(q, 2)) = M(q, 2)
  BY DEF O, C, M
<1> HIDE DEF Other
<1>5. \A x \in Places : pi[x] = Other(x) /\ Other(x) \in Places /\ Other(Other(x)) = x
  <2> TAKE x \in Places
  <2>1. CASE \E q \in Procs : \E d \in Fds : x = O(q, d) \/ x = C(q, d)
    <3>1. PICK q \in Procs, d \in Fds : x = O(q, d) \/ x = C(q, d) BY <2>1
    <3> QED BY <1>4, <3>1, PlaceIs
  <2>2. CASE \E q \in Procs : x = M(q, 1) \/ x = M(q, 2) BY <1>4, <2>2, PlaceIs
  <2> QED BY <2>1, <2>2, PlaceIs
<1>6. pi \in [Places -> Places] /\ \A x \in Places : pi[pi[x]] = x BY <1>5
<1>7. AtFds(G, a, b) /\ AtMade(G, m) /\ AtFds(H, o, c) /\ AtMade(H, m) BY HoldFields
<1> HIDE DEF a, b, H, G, pi
<1>8. \A x \in Places : G[x] = H[pi[x]]
  <2> TAKE x \in Places
  <2>1. CASE \E q \in Procs : \E d \in Fds : x = O(q, d) \/ x = C(q, d)
    <3>1. PICK q \in Procs, d \in Fds : x = O(q, d) \/ x = C(q, d) BY <2>1
    <3>2. /\ G[O(q, d)] = a[q][d] /\ G[C(q, d)] = b[q][d]
          /\ H[O(q, d)] = o[q][d] /\ H[C(q, d)] = c[q][d]
          /\ H[O(p, d)] = o[p][d] /\ H[C(p, d)] = c[p][d]
      BY <1>7, <3>1 DEF AtFds
    <3>3. CASE x = O(q, d)
      <4>1. G[x] = IF q = p THEN 0 ELSE o[q][d] BY <1>3, <3>1, <3>2, <3>3
      <4>2. pi[x] = IF q = p THEN C(p, d) ELSE O(q, d) BY <1>4, <1>5, <3>1, <3>3
      <4> QED BY <1>3, <3>1, <3>2, <4>1, <4>2
    <3>4. CASE x = C(q, d)
      <4>1. G[x] = IF q = p THEN o[p][d] ELSE c[q][d] BY <1>3, <3>1, <3>2, <3>4
      <4>2. pi[x] = IF q = p THEN O(p, d) ELSE C(q, d) BY <1>4, <1>5, <3>1, <3>4
      <4> QED BY <1>3, <3>1, <3>2, <4>1, <4>2
    <3> QED BY <3>1, <3>3, <3>4
  <2>2. CASE \E q \in Procs : x = M(q, 1) \/ x = M(q, 2)
    BY <1>4, <1>5, <1>7, <2>2 DEF AtMade
  <2> QED BY <2>1, <2>2, PlaceIs
<1>9. Exchange(H, G, Places, pi) BY <1>6, <1>8 DEF Exchange
<1>10. \A f \in Slots : Count(G, Places, f) = Count(H, Places, f)
  BY <1>9, PlacesFinite, CountExchange
<1>11. G \in [Places -> Slots \cup {0}] BY <1>2, HoldType DEF G
<1>12. Counted(R, G) BY <1>10, <1>11 DEF Counted, H
<1> QED BY <1>12 DEF G, a, b

(* fork() fills a whole row.                                               *)
LEMMA CountInherit ==
  ASSUME NEW o \in [Procs -> FdMap], NEW c \in [Procs -> FdMap], NEW m \in [Procs -> Making],
         NEW R, NEW p \in Procs, NEW q \in Procs, o[q] = NoFds, Counted(R, HoldOf(o, c, m))
  PROVE  /\ \A f \in Slots : Named(o[p], f) \in Nat
         /\ Counted([f \in Slots |-> R[f] + Named(o[p], f)], HoldOf([o EXCEPT ![q] = o[p]], c, m))
<1> DEFINE a == [o EXCEPT ![q] = o[p]]
           H == HoldOf(o, c, m)
           G == HoldOf(a, c, m)
           Q == {O(q, d) : d \in Fds}
<1>0. IsFiniteSet(Fds)
  <2>1. 0 \in Int /\ NOFILE - 1 \in Int BY FilesConstants
  <2> QED BY <2>1, FS_Interval DEF Fds
<1>1. a \in [Procs -> FdMap] OBVIOUS
<1>2. /\ \A s \in Procs : \A d \in Fds : a[s][d] = IF s = q THEN o[p][d] ELSE o[s][d]
      /\ \A d \in Fds : o[q][d] = 0
  BY DEF NoFds
<1>3. AtFds(G, a, c) /\ AtMade(G, m) /\ AtFds(H, o, c) /\ AtMade(H, m) BY HoldFields
<1> HIDE DEF a, H, G
<1>4. \A x \in Places : x \notin Q => G[x] = H[x]
  <2> TAKE x \in Places
  <2>1. CASE \E s \in Procs : \E d \in Fds : x = O(s, d) \/ x = C(s, d)
    <3>1. PICK s \in Procs, d \in Fds : x = O(s, d) \/ x = C(s, d) BY <2>1
    <3>2. /\ G[O(s, d)] = a[s][d] /\ G[C(s, d)] = c[s][d]
          /\ H[O(s, d)] = o[s][d] /\ H[C(s, d)] = c[s][d]
      BY <1>3, <3>1 DEF AtFds
    <3>3. a[s][d] = IF s = q THEN o[p][d] ELSE o[s][d] BY <1>2, <3>1
    <3>4. x = O(s, d) /\ s = q => x \in Q BY <3>1
    <3> HIDE DEF Q
    <3> QED BY <3>1, <3>2, <3>3, <3>4
  <2>2. CASE \E s \in Procs : x = M(s, 1) \/ x = M(s, 2) BY <1>3, <2>2 DEF AtMade
  <2> QED BY <2>1, <2>2, PlaceIs
<1>5. Fills(H, G, Places, Q)
  <2>1. Q \subseteq Places BY PlaceIs
  <2>2. \A x \in Q : H[x] = 0 BY <1>2, <1>3 DEF AtFds
  <2> HIDE DEF Q
  <2> QED BY <1>4, <2>1, <2>2 DEF Fills
<1>6. ASSUME NEW f \in Slots
      PROVE  /\ Count(G, Places, f) = Count(H, Places, f) + Named(o[p], f)
             /\ Named(o[p], f) \in Nat
  <2> DEFINE D == {d \in Fds : o[p][d] = f}
             B == {x \in Q : G[x] = f}
             h == [d \in D |-> O(q, d)]
  <2>1. \A d \in Fds : G[O(q, d)] = o[p][d] BY <1>2, <1>3 DEF AtFds
  <2>2. h \in [D -> B] BY <2>1
  <2>3. \A d, e \in D : h[d] = h[e] => d = e
    <3> TAKE d, e \in D
    <3>1. h[d] = O(q, d) /\ h[e] = O(q, e) OBVIOUS
    <3> QED BY <3>1 DEF O
  <2>4. \A x \in B : \E d \in D : h[d] = x
    <3> TAKE x \in B
    <3>1. PICK d \in Fds : x = O(q, d) OBVIOUS
    <3>2. d \in D BY <2>1, <3>1
    <3>3. h[d] = x BY <3>1, <3>2
    <3> QED BY <3>2, <3>3
  <2>5. D \in SUBSET Fds OBVIOUS
  <2> HIDE DEF D, B, h
  <2>6. h \in Injection(D, B) BY <2>2, <2>3 DEF Injection, IsInjective
  <2>7. h \in Surjection(D, B) BY <2>2, <2>4, Zenon DEF Surjection
  <2>8. h \in Bijection(D, B) BY <2>6, <2>7, Zenon DEF Bijection
  <2>9. ExistsBijection(D, B) BY <2>8, Zenon DEF ExistsBijection
  <2>10. IsFiniteSet(D) BY <1>0, <2>5, FS_Subset
  <2>11. Cardinality(B) = Cardinality(D) /\ Cardinality(D) \in Nat
    BY <2>9, <2>10, FS_Bijection, FS_CardinalityType
  <2>12. Count(G, Q, f) = Cardinality(B) BY DEF Count, B
  <2>13. Named(o[p], f) = Cardinality(D) BY DEF Named, D
  <2>14. f # 0 BY DEF Slots
  <2>15. Count(G, Places, f) = Count(H, Places, f) + Count(G, Q, f)
    <3> HIDE DEF Q
    <3> QED BY <1>5, <2>14, PlacesFinite, CountFill
  <2> QED BY <2>11, <2>12, <2>13, <2>15
<1>7. G \in [Places -> Slots \cup {0}] BY <1>1, HoldType DEF G
<1>8. Counted([f \in Slots |-> R[f] + Named(o[p], f)], G)
  <2>1. R \in [Slots -> Nat] /\ \A f \in Slots : R[f] = Count(H, Places, f) BY DEF Counted, H
  <2> DEFINE T == [f \in Slots |-> R[f] + Named(o[p], f)]
  <2>2. T \in [Slots -> Nat] BY <1>6, <2>1
  <2>3. \A f \in Slots : T[f] = Count(G, Places, f) BY <1>6, <2>1
  <2> HIDE DEF T
  <2>4. Counted(T, G) BY <1>7, <2>2, <2>3 DEF Counted
  <2> QED BY <2>4 DEF T
<1> QED BY <1>6, <1>8 DEF G, a

(* A loop over a table finds its first free entry.                         *)
LEMMA LeastNat ==
  ASSUME NEW S, S \subseteq Nat, S # {}
  PROVE  \E m \in S : \A k \in S : m <= k
<1>1. PICK R : R = OpToRel(<, Nat) BY Zenon
<1>2. IsWellFoundedOn(R, Nat) BY <1>1, NatLessThanWellFounded, Zenon
<1>3. PICK m \in S : \A k \in S : <<k, m>> \notin R BY <1>2, WFMin
<1>4. \A k \in S : m <= k
  <2>1. ASSUME NEW k \in S, k < m PROVE FALSE
    <3>1. <<k, m>> \in R BY <1>1, <1>3, <2>1 DEF OpToRel
    <3> QED BY <1>3, <3>1
  <2> QED BY <1>3, <2>1
<1> QED BY <1>3, <1>4

LEMMA MinIs ==
  ASSUME NEW S, S \subseteq Nat, S # {}
  PROVE  Min(S) \in S
<1>1. PICK m \in S : \A k \in S : m <= k BY LeastNat
<1> QED BY <1>1 DEF Min
-----------------------------------------------------------------------------
(* The objects.  None, the pages and the inodes are different things.      *)
LEMMA ObjKinds == None \notin Pages /\ None \notin Inodes /\ \A i \in Inodes : i \notin Pages
BY FilesConstants DEF None

(* What stands for no end of a pipe does not matter to the ends.           *)
LEMMA EndsSame ==
  ASSUME NEW g, NEW k, NEW S, NEW T, EndsOpen(g, S),
         \A o \in Pages : /\ k[o].readopen <=> g[o].readopen
                          /\ k[o].writeopen <=> g[o].writeopen
                          /\ k[o].live <=> g[o].live,
         \A x \in Stands : S[x][1] \in Pages \/ T[x][1] \in Pages => T[x] = S[x]
  PROVE  EndsOpen(k, T)
<1>1. \A o \in Pages, w \in BOOLEAN : \A x \in Stands : S[x] = <<o, w>> <=> T[x] = <<o, w>>
  <2> TAKE o \in Pages, w \in BOOLEAN
  <2> TAKE x \in Stands
  <2>1. <<o, w>>[1] = o OBVIOUS
  <2> QED BY <2>1
<1>2. \A x, y \in Stands : T[x] = T[y] /\ T[x][1] \in Pages => x = y BY DEF EndsOpen
<1>3. ASSUME NEW o \in Pages
      PROVE  /\ k[o].readopen <=> \E x \in Stands : T[x] = <<o, FALSE>>
             /\ k[o].writeopen <=> \E x \in Stands : T[x] = <<o, TRUE>>
             /\ k[o].live <=> k[o].readopen \/ k[o].writeopen
  <2>1. /\ g[o].readopen <=> \E x \in Stands : S[x] = <<o, FALSE>>
        /\ g[o].writeopen <=> \E x \in Stands : S[x] = <<o, TRUE>>
        /\ g[o].live <=> g[o].readopen \/ g[o].writeopen
    BY DEF EndsOpen
  <2>2. /\ (\E x \in Stands : S[x] = <<o, FALSE>>) <=> (\E x \in Stands : T[x] = <<o, FALSE>>)
        /\ (\E x \in Stands : S[x] = <<o, TRUE>>) <=> (\E x \in Stands : T[x] = <<o, TRUE>>)
    BY <1>1
  <2> QED BY <2>1, <2>2
<1> QED BY <1>2, <1>3 DEF EndsOpen

(* The last fileclose() moves an object from the file to the close.        *)
LEMMA EndsExchange ==
  ASSUME NEW g, NEW S, NEW T, NEW pi, EndsOpen(g, S), Exchange(S, T, Stands, pi)
  PROVE  EndsOpen(g, T)
<1>1. \A v : (\E x \in Stands : S[x] = v) <=> (\E x \in Stands : T[x] = v) BY DEF Exchange
<1>2. ASSUME NEW x \in Stands, NEW y \in Stands, T[x] = T[y], T[x][1] \in Pages
      PROVE  x = y
  <2>1. pi[x] \in Stands /\ pi[y] \in Stands /\ pi[pi[x]] = x /\ pi[pi[y]] = y
        /\ T[x] = S[pi[x]] /\ T[y] = S[pi[y]]
    BY DEF Exchange
  <2>2. pi[x] = pi[y] BY <1>2, <2>1 DEF EndsOpen
  <2> QED BY <2>1, <2>2
<1>3. ASSUME NEW o \in Pages
      PROVE  /\ g[o].readopen <=> \E x \in Stands : T[x] = <<o, FALSE>>
             /\ g[o].writeopen <=> \E x \in Stands : T[x] = <<o, TRUE>>
             /\ g[o].live <=> g[o].readopen \/ g[o].writeopen
  BY <1>1 DEF EndsOpen
<1> QED BY <1>2, <1>3 DEF EndsOpen

(* pipeclose(): nothing stands for the end any more.                       *)
LEMMA EndsPut ==
  ASSUME NEW g \in [Pages -> PipeRec], NEW S, NEW T, EndsOpen(g, S),
         NEW x \in Stands, NEW o \in Pages, NEW w \in BOOLEAN, S[x] = <<o, w>>,
         T[x][1] \notin Pages, SameBut(S, T, Stands, x)
  PROVE  EndsOpen([g EXCEPT ![o] = PageAfter(EndClosed(@, w))], T)
<1> DEFINE k == [g EXCEPT ![o] = PageAfter(EndClosed(@, w))]
<1>1. \A y \in Stands : S[y] = <<o, w>> => y = x
  <2>1. <<o, w>>[1] = o OBVIOUS
  <2> QED BY <2>1 DEF EndsOpen
<1>2. \A y \in Stands : T[y] # <<o, w>>
  <2> TAKE y \in Stands
  <2>1. <<o, w>>[1] = o OBVIOUS
  <2> QED BY <1>1, <2>1 DEF SameBut
<1>3. \A q \in Pages, v \in BOOLEAN : <<q, v>> # <<o, w>> =>
        ((\E y \in Stands : S[y] = <<q, v>>) <=> (\E y \in Stands : T[y] = <<q, v>>))
  <2> TAKE q \in Pages, v \in BOOLEAN
  <2>1. <<q, v>>[1] = q OBVIOUS
  <2> QED BY <2>1 DEF SameBut
<1>4. \A y, z \in Stands : T[y] = T[z] /\ T[y][1] \in Pages => y = z BY DEF EndsOpen, SameBut
<1>5. ASSUME NEW q \in Pages
      PROVE  /\ k[q].readopen <=> \E y \in Stands : T[y] = <<q, FALSE>>
             /\ k[q].writeopen <=> \E y \in Stands : T[y] = <<q, TRUE>>
             /\ k[q].live <=> k[q].readopen \/ k[q].writeopen
  <2>1. /\ g[q].readopen <=> \E y \in Stands : S[y] = <<q, FALSE>>
        /\ g[q].writeopen <=> \E y \in Stands : S[y] = <<q, TRUE>>
        /\ g[q].live <=> g[q].readopen \/ g[q].writeopen
        /\ g[q] \in PipeRec
    BY DEF EndsOpen
  <2>2. CASE q # o
    <3>1. k[q] = g[q] BY <2>2
    <3>2. <<q, TRUE>> # <<o, w>> /\ <<q, FALSE>> # <<o, w>> BY <2>2
    <3> HIDE DEF k
    <3> QED BY <1>3, <2>1, <3>1, <3>2
  <2>3. CASE q = o
    <3>1. k[o] = PageAfter(EndClosed(g[o], w)) OBVIOUS
    <3>2. <<q, ~w>> # <<o, w>> OBVIOUS
    <3>3. CASE w = TRUE
      <4>1. k[o].writeopen = FALSE /\ k[o].readopen = g[o].readopen /\ k[o].live = g[o].readopen
        BY <2>1, <2>3, <3>1, <3>3 DEF PageAfter, EndClosed, PipeRec, NoPage
      <4>2. ~\E y \in Stands : T[y] = <<q, TRUE>> BY <1>2, <2>3, <3>3
      <4>3. (\E y \in Stands : S[y] = <<q, FALSE>>) <=> (\E y \in Stands : T[y] = <<q, FALSE>>)
        BY <1>3, <3>2, <3>3
      <4> HIDE DEF k
      <4> QED BY <2>1, <2>3, <4>1, <4>2, <4>3
    <3>4. CASE w = FALSE
      <4>1. k[o].readopen = FALSE /\ k[o].writeopen = g[o].writeopen /\ k[o].live = g[o].writeopen
        BY <2>1, <2>3, <3>1, <3>4 DEF PageAfter, EndClosed, PipeRec, NoPage
      <4>2. ~\E y \in Stands : T[y] = <<q, FALSE>> BY <1>2, <2>3, <3>4
      <4>3. (\E y \in Stands : S[y] = <<q, TRUE>>) <=> (\E y \in Stands : T[y] = <<q, TRUE>>)
        BY <1>3, <3>2, <3>4
      <4> HIDE DEF k
      <4> QED BY <2>1, <2>3, <4>1, <4>2, <4>3
    <3> QED BY <3>3, <3>4
  <2> QED BY <2>2, <2>3
<1> HIDE DEF k
<1>6. EndsOpen(k, T) BY <1>4, <1>5 DEF EndsOpen
<1> QED BY <1>6 DEF k

(* pipealloc(): two files come to stand for the ends of a new pipe.        *)
SameBut2(S, T, x, y) == \A z \in Stands : z # x /\ z # y => T[z] = S[z]

LEMMA EndsMake ==
  ASSUME NEW g \in [Pages -> PipeRec], NEW S \in [Stands -> EndVals], NEW T, EndsOpen(g, S),
         NEW x \in Stands, NEW y \in Stands, x # y, NEW o \in Pages, ~g[o].live,
         S[x][1] \notin Pages, S[y][1] \notin Pages, T[x] = <<o, FALSE>>, T[y] = <<o, TRUE>>,
         SameBut2(S, T, x, y)
  PROVE  EndsOpen([g EXCEPT ![o] = NewPipe], T)
<1> USE DEF SameBut2
<1> DEFINE k == [g EXCEPT ![o] = NewPipe]
<1>0. T[x][1] = o /\ T[y][1] = o /\ T[x] # T[y] 
  <2>1. T[x][1] = o /\ T[y][1] = o OBVIOUS
  <2>2. T[x] # T[y]
    <3>1. T[x][2] = FALSE /\ T[y][2] = TRUE OBVIOUS
    <3> QED BY <3>1
  <2> QED BY <2>1, <2>2
<1>1. \A z \in Stands : S[z][1] # o
  <2> SUFFICES ASSUME NEW z \in Stands, S[z][1] = o PROVE FALSE OBVIOUS
  <2>1. S[z] = <<o, TRUE>> \/ S[z] = <<o, FALSE>>
    <3>1. S[z] \in EndVals OBVIOUS
    <3>2. S[z] = <<S[z][1], S[z][2]>> /\ S[z][2] \in BOOLEAN BY <3>1 DEF EndVals
    <3>3. S[z][2] = TRUE \/ S[z][2] = FALSE BY <3>2
    <3> QED BY <3>2, <3>3
  <2>2. /\ g[o].readopen <=> \E u \in Stands : S[u] = <<o, FALSE>>
        /\ g[o].writeopen <=> \E u \in Stands : S[u] = <<o, TRUE>>
        /\ g[o].live <=> g[o].readopen \/ g[o].writeopen
    BY DEF EndsOpen
  <2> QED BY <2>1, <2>2, Zenon
<1>2. \A q \in Pages, v \in BOOLEAN : q # o =>
        ((\E z \in Stands : S[z] = <<q, v>>) <=> (\E z \in Stands : T[z] = <<q, v>>))
  <2> SUFFICES ASSUME NEW q \in Pages, NEW v \in BOOLEAN, q # o
               PROVE  \A z \in Stands : S[z] = <<q, v>> <=> T[z] = <<q, v>>
    OBVIOUS
  <2>1. <<q, v>>[1] = q OBVIOUS
  <2> QED BY <1>0, <2>1
<1>3. ASSUME NEW z \in Stands, NEW u \in Stands, T[z] = T[u], T[z][1] \in Pages PROVE z = u
  <2>1. CASE z \notin {x, y} /\ u \notin {x, y} BY <1>3, <2>1 DEF EndsOpen
  <2>2. CASE z \in {x, y} /\ u \in {x, y} BY <1>0, <1>3, <2>2
  <2>3. CASE z \in {x, y} /\ u \notin {x, y} BY <1>0, <1>1, <1>3, <2>3
  <2>4. CASE z \notin {x, y} /\ u \in {x, y} BY <1>0, <1>1, <1>3, <2>4
  <2> QED BY <2>1, <2>2, <2>3, <2>4
<1>4. ASSUME NEW q \in Pages
      PROVE  /\ k[q].readopen <=> \E z \in Stands : T[z] = <<q, FALSE>>
             /\ k[q].writeopen <=> \E z \in Stands : T[z] = <<q, TRUE>>
             /\ k[q].live <=> k[q].readopen \/ k[q].writeopen
  <2>1. CASE q = o
    <3>1. k[q].readopen = TRUE /\ k[q].writeopen = TRUE /\ k[q].live = TRUE
      BY <2>1 DEF NewPipe
    <3> HIDE DEF k
    <3> QED BY <2>1, <3>1
  <2>2. CASE q # o
    <3>1. k[q] = g[q] BY <2>2
    <3>2. /\ g[q].readopen <=> \E z \in Stands : S[z] = <<q, FALSE>>
          /\ g[q].writeopen <=> \E z \in Stands : S[z] = <<q, TRUE>>
          /\ g[q].live <=> g[q].readopen \/ g[q].writeopen
      BY DEF EndsOpen
    <3>3. /\ (\E z \in Stands : S[z] = <<q, FALSE>>) <=> (\E z \in Stands : T[z] = <<q, FALSE>>)
          /\ (\E z \in Stands : S[z] = <<q, TRUE>>) <=> (\E z \in Stands : T[z] = <<q, TRUE>>)
      BY <1>2, <2>2
    <3> HIDE DEF k
    <3> QED BY <3>1, <3>2, <3>3
  <2> QED BY <2>1, <2>2
<1> HIDE DEF k
<1>5. EndsOpen(k, T) BY <1>3, <1>4 DEF EndsOpen
<1> QED BY <1>5 DEF k
-----------------------------------------------------------------------------
LEMMA TablesFinite == IsFiniteSet(Slots) /\ IsFiniteSet(Procs)
<1>1. 1 \in Int /\ NFILE \in Int BY FilesConstants
<1>2. IsFiniteSet(1..NFILE) BY <1>1, FS_Interval
<1> QED BY <1>2, ProcsFinite DEF Slots

LEMMA InodeHeldIs == \A i \in Inodes : InodeHeld(i) = InodeCount(ObjOf(file), PutOf(putting), i)
<1> TAKE i \in Inodes
<1>1. {f \in Slots : ObjOf(file)[f] = i} = {f \in Slots : file[f].obj = i} BY DEF ObjOf
<1>2. {p \in Procs : PutOf(putting)[p] = i} = {p \in Procs : putting[p].obj = i} BY DEF PutOf
<1> QED BY <1>1, <1>2 DEF InodeHeld, InodeCount, Count

(* One file comes to stand for another object, or one close.               *)
LEMMA InodeFile ==
  ASSUME NEW A, NEW B, NEW G, NEW f \in Slots, SameBut(A, G, Slots, f), NEW i
  PROVE  /\ InodeCount(A, B, i) \in Nat
         /\ (A[f] = i <=> G[f] = i) => InodeCount(G, B, i) = InodeCount(A, B, i)
         /\ A[f] # i /\ G[f] = i => InodeCount(G, B, i) = InodeCount(A, B, i) + 1
         /\ A[f] = i /\ G[f] # i => InodeCount(G, B, i) = InodeCount(A, B, i) - 1
<1>1. Count(A, Slots, i) \in Nat /\ Count(B, Procs, i) \in Nat BY TablesFinite, CountIsNat
<1>2. /\ (A[f] = i <=> G[f] = i) => Count(G, Slots, i) = Count(A, Slots, i)
      /\ A[f] # i /\ G[f] = i => Count(G, Slots, i) = Count(A, Slots, i) + 1
      /\ A[f] = i /\ G[f] # i => Count(G, Slots, i) = Count(A, Slots, i) - 1
  BY TablesFinite, CountChange
<1> QED BY <1>1, <1>2 DEF InodeCount

LEMMA InodePut ==
  ASSUME NEW A, NEW B, NEW G, NEW p \in Procs, SameBut(B, G, Procs, p), NEW i
  PROVE  /\ InodeCount(A, B, i) \in Nat
         /\ (B[p] = i <=> G[p] = i) => InodeCount(A, G, i) = InodeCount(A, B, i)
         /\ B[p] # i /\ G[p] = i => InodeCount(A, G, i) = InodeCount(A, B, i) + 1
         /\ B[p] = i /\ G[p] # i => /\ InodeCount(A, G, i) = InodeCount(A, B, i) - 1
                                    /\ InodeCount(A, B, i) >= 1
<1>1. Count(A, Slots, i) \in Nat /\ Count(B, Procs, i) \in Nat BY TablesFinite, CountIsNat
<1>2. /\ (B[p] = i <=> G[p] = i) => Count(G, Procs, i) = Count(B, Procs, i)
      /\ B[p] # i /\ G[p] = i => Count(G, Procs, i) = Count(B, Procs, i) + 1
      /\ B[p] = i /\ G[p] # i => Count(G, Procs, i) = Count(B, Procs, i) - 1
  BY TablesFinite, CountChange
<1>3. B[p] = i => Count(B, Procs, i) >= 1 BY TablesFinite, CountSome
<1> QED BY <1>1, <1>2, <1>3 DEF InodeCount

FS(f) == <<"file", f>>
PS(p) == <<"putting", p>>

LEMMA StandIs ==
  /\ \A f \in Slots : FS(f) \in Stands
  /\ \A p \in Procs : PS(p) \in Stands
  /\ \A x \in Stands : (\E f \in Slots : x = FS(f)) \/ (\E p \in Procs : x = PS(p))
  /\ \A f, h \in Slots : FS(f) = FS(h) => f = h
  /\ \A p, q \in Procs : PS(p) = PS(q) => p = q
  /\ \A f \in Slots, p \in Procs : FS(f) # PS(p)
BY DEF Stands, FS, PS

StandFields(S, F, P) == /\ \A f \in Slots : S[FS(f)] = EndOf(F[f])
                        /\ \A p \in Procs : S[PS(p)] = EndOf(P[p])

LEMMA StandAt ==
  ASSUME NEW F, NEW P
  PROVE  StandFields(StandOf(F, P), F, P)
BY StandIs DEF StandFields, StandOf, FS, PS

LEMMA StandType ==
  ASSUME NEW F \in [Slots -> FileRec], NEW P \in [Procs -> FileRec]
  PROVE  StandOf(F, P) \in [Stands -> EndVals]
<1>1. \A f \in Slots : EndOf(F[f]) \in EndVals BY DEF FileRec, EndOf, EndVals
<1>2. \A p \in Procs : EndOf(P[p]) \in EndVals BY DEF FileRec, EndOf, EndVals
<1>3. \A x \in Stands : StandOf(F, P)[x] \in EndVals
  BY <1>1, <1>2, StandAt, StandIs DEF StandFields
<1>4. StandOf(F, P) = [x \in Stands |-> StandOf(F, P)[x]] BY DEF StandOf
<1> QED BY <1>3, <1>4

ObjFields(A, F) == \A f \in Slots : A[f] = F[f].obj
PutFields(B, P) == \A p \in Procs : B[p] = P[p].obj

LEMMA ObjAt ==
  ASSUME NEW F
  PROVE  ObjFields(ObjOf(F), F) /\ PutFields(PutOf(F), F)
BY DEF ObjOf, PutOf, ObjFields, PutFields

(* Steps that change no file's object.                                     *)
SameFlags(g, k) == \A o \in Pages : /\ k[o].readopen <=> g[o].readopen
                                    /\ k[o].writeopen <=> g[o].writeopen
                                    /\ k[o].live <=> g[o].live
SameObj(F, G) == \A f \in Slots : G[f].obj = F[f].obj /\ G[f].writable = F[f].writable

LEMMA ObjSame ==
  ASSUME NEW g, NEW k, NEW r, NEW F, NEW G, NEW P, Objects(g, r, F, P),
         SameFlags(g, k), SameObj(F, G)
  PROVE  Objects(k, r, G, P)
<1>1. \A x \in Stands : StandOf(G, P)[x] = StandOf(F, P)[x]
  <2>1. StandFields(StandOf(F, P), F, P) /\ StandFields(StandOf(G, P), G, P) BY StandAt
  <2>2. \A f \in Slots : EndOf(G[f]) = EndOf(F[f]) BY DEF EndOf, SameObj
  <2> QED BY <2>1, <2>2, StandIs DEF StandFields
<1>2. EndsOpen(k, StandOf(G, P))
  <2> DEFINE S == StandOf(F, P)
             T == StandOf(G, P)
  <2>1. EndsOpen(g, S) BY DEF Objects
  <2>2. \A x \in Stands : S[x][1] \in Pages \/ T[x][1] \in Pages => T[x] = S[x] BY <1>1
  <2> HIDE DEF S, T
  <2>3. EndsOpen(k, T) BY <2>1, <2>2, EndsSame DEF SameFlags
  <2> QED BY <2>3 DEF T
<1>3. ObjOf(G) = ObjOf(F) BY DEF ObjOf, SameObj
<1> QED BY <1>2, <1>3 DEF Objects

(* The last reference to a file goes: what the file stood for is put.      *)
LEMMA ObjLast ==
  ASSUME NEW g, NEW r, NEW F \in [Slots -> FileRec], NEW P \in [Procs -> FileRec],
         Objects(g, r, F, P), NEW f \in Slots, NEW p \in Procs, P[p] = NoFile
  PROVE  /\ Objects(g, r, [F EXCEPT ![f] = NoFile], [P EXCEPT ![p] = F[f]])
         /\ F[f].obj = None => Objects(g, r, [F EXCEPT ![f] = NoFile], P)
<1> DEFINE G == [F EXCEPT ![f] = NoFile]
           Q == [P EXCEPT ![p] = F[f]]
           S == StandOf(F, P)
           T == StandOf(G, Q)
           U == StandOf(G, P)
           pi == [x \in Stands |-> IF x = FS(f) THEN PS(p) ELSE IF x = PS(p) THEN FS(f) ELSE x]
<1>1. EndOf(NoFile) = <<None, FALSE>> /\ NoFile.obj = None BY DEF EndOf, NoFile
<1>2. /\ \A h \in Slots : G[h] = IF h = f THEN NoFile ELSE F[h]
      /\ \A q \in Procs : Q[q] = IF q = p THEN F[f] ELSE P[q]
  OBVIOUS
<1>3. StandFields(S, F, P) /\ StandFields(T, G, Q) /\ StandFields(U, G, P) BY StandAt
<1>4. pi \in [Stands -> Stands] /\ \A x \in Stands : pi[pi[x]] = x BY StandIs
<1>5. /\ pi[FS(f)] = PS(p) /\ pi[PS(p)] = FS(f)
      /\ \A x \in Stands : x # FS(f) /\ x # PS(p) => pi[x] = x
  BY StandIs
<1>6. EndsOpen(g, S) /\ InodesCounted(r, ObjOf(F), PutOf(P)) BY DEF Objects
<1> HIDE DEF G, Q, S, T, U, pi
<1>7. \A x \in Stands : T[x] = S[pi[x]]
  <2> TAKE x \in Stands
  <2>1. CASE x = FS(f) BY <1>2, <1>3, <1>5, <2>1 DEF StandFields
  <2>2. CASE x = PS(p) BY <1>2, <1>3, <1>5, <2>2 DEF StandFields
  <2>3. CASE x # FS(f) /\ x # PS(p) BY <1>2, <1>3, <1>5, <2>3, StandIs DEF StandFields
  <2> QED BY <2>1, <2>2, <2>3
<1>8. EndsOpen(g, T) BY <1>4, <1>6, <1>7, EndsExchange DEF Exchange
<1>9. F[f].obj = None => EndsOpen(g, U)
  <2> HAVE F[f].obj = None
  <2>1. U[FS(f)] = <<None, FALSE>> /\ S[FS(f)][1] = None
    <3>1. U[FS(f)] = EndOf(NoFile) /\ S[FS(f)] = EndOf(F[f]) BY <1>2, <1>3 DEF StandFields
    <3>2. EndOf(F[f])[1] = None BY DEF EndOf
    <3> QED BY <1>1, <3>1, <3>2
  <2>2. U[FS(f)][1] = None BY <2>1
  <2>3. \A x \in Stands : x # FS(f) => U[x] = S[x] BY <1>2, <1>3, StandIs DEF StandFields
  <2>4. \A x \in Stands : S[x][1] \in Pages \/ U[x][1] \in Pages => U[x] = S[x]
    BY <2>1, <2>2, <2>3, ObjKinds
  <2> QED BY <1>6, <2>4, EndsSame
<1>10. ASSUME NEW i \in Inodes
       PROVE  /\ r[i] = InodeCount(ObjOf(G), PutOf(Q), i)
              /\ F[f].obj = None => r[i] = InodeCount(ObjOf(G), PutOf(P), i)
  <2>1. r[i] = InodeCount(ObjOf(F), PutOf(P), i) BY <1>6 DEF InodesCounted
  <2>0. /\ ObjFields(ObjOf(F), F) /\ ObjFields(ObjOf(G), G)
        /\ PutFields(PutOf(P), P) /\ PutFields(PutOf(Q), Q)
    BY ObjAt
  <2>2. SameBut(ObjOf(F), ObjOf(G), Slots, f) BY <1>2, <2>0 DEF SameBut, ObjFields
  <2>3. SameBut(PutOf(P), PutOf(Q), Procs, p) BY <1>2, <2>0 DEF SameBut, PutFields
  <2>4. /\ ObjOf(F)[f] = F[f].obj /\ ObjOf(G)[f] = None
        /\ PutOf(P)[p] = None /\ PutOf(Q)[p] = F[f].obj
    BY <1>1, <1>2, <2>0 DEF ObjFields, PutFields
  <2>5. i # None BY ObjKinds
  <2>6. /\ InodeCount(ObjOf(F), PutOf(P), i) \in Nat
        /\ F[f].obj # i => InodeCount(ObjOf(G), PutOf(P), i) = InodeCount(ObjOf(F), PutOf(P), i)
        /\ F[f].obj = i => InodeCount(ObjOf(G), PutOf(P), i) = InodeCount(ObjOf(F), PutOf(P), i) - 1
    BY <2>2, <2>4, <2>5, InodeFile
  <2>7. /\ F[f].obj # i => InodeCount(ObjOf(G), PutOf(Q), i) = InodeCount(ObjOf(G), PutOf(P), i)
        /\ F[f].obj = i => InodeCount(ObjOf(G), PutOf(Q), i) = InodeCount(ObjOf(G), PutOf(P), i) + 1
    BY <2>3, <2>4, <2>5, InodePut
  <2> QED BY <2>1, <2>5, <2>6, <2>7
<1> QED BY <1>8, <1>9, <1>10 DEF Objects, InodesCounted, G, Q, T, U

(* The put ends: the end of the pipe is closed, or the inode's reference   *)
(* given back.                                                             *)
LEMMA ObjPut ==
  ASSUME NEW g \in [Pages -> PipeRec], NEW r \in [Inodes -> Nat],
         NEW F, NEW P \in [Procs -> FileRec],
         Objects(g, r, F, P), NEW p \in Procs, NEW o, o = P[p].obj
  PROVE  /\ o \in Pages => Objects([g EXCEPT ![o] = PageAfter(EndClosed(@, P[p].writable))],
                                   r, F, [P EXCEPT ![p] = NoFile])
         /\ o \in Inodes => /\ r[o] >= 1
                            /\ Objects(g, [r EXCEPT ![o] = @ - 1], F, [P EXCEPT ![p] = NoFile])
<1> DEFINE Q == [P EXCEPT ![p] = NoFile]
           S == StandOf(F, P)
           T == StandOf(F, Q)
<1>1. \A q \in Procs : Q[q] = IF q = p THEN NoFile ELSE P[q] OBVIOUS
<1>2. StandFields(S, F, P) /\ StandFields(T, F, Q) BY StandAt
<1>3. EndsOpen(g, S) /\ InodesCounted(r, ObjOf(F), PutOf(P)) BY DEF Objects
<1>4. S[PS(p)] = <<o, P[p].writable>> /\ P[p].writable \in BOOLEAN
  BY <1>2 DEF StandFields, EndOf, FileRec
<1>5. NoFile.obj = None BY DEF NoFile
<1> HIDE DEF Q, S, T
<1>6. T[PS(p)][1] = None
  <2>1. T[PS(p)] = EndOf(NoFile) BY <1>1, <1>2 DEF StandFields
  <2> QED BY <1>5, <2>1 DEF EndOf
<1>7. SameBut(S, T, Stands, PS(p)) BY <1>1, <1>2, StandIs DEF StandFields, SameBut
<1>0. PutFields(PutOf(P), P) /\ PutFields(PutOf(Q), Q) BY ObjAt
<1>8. SameBut(PutOf(P), PutOf(Q), Procs, p) BY <1>0, <1>1 DEF SameBut, PutFields
<1>9. PutOf(P)[p] = o /\ PutOf(Q)[p] = None BY <1>0, <1>1, <1>5 DEF PutFields
<1>10. ASSUME o \in Pages
       PROVE  Objects([g EXCEPT ![o] = PageAfter(EndClosed(@, P[p].writable))], r, F, Q)
  <2>1. PICK w \in BOOLEAN : w = P[p].writable BY <1>4
  <2>2. T[PS(p)][1] \notin Pages /\ PS(p) \in Stands BY <1>6, ObjKinds, StandIs
  <2>3. EndsOpen([g EXCEPT ![o] = PageAfter(EndClosed(@, w))], T)
    BY <1>3, <1>4, <1>7, <1>10, <2>1, <2>2, EndsPut
  <2>4. ASSUME NEW i \in Inodes PROVE r[i] = InodeCount(ObjOf(F), PutOf(Q), i)
    <3>1. i # o /\ i # None BY <1>10, ObjKinds
    <3>2. InodeCount(ObjOf(F), PutOf(Q), i) = InodeCount(ObjOf(F), PutOf(P), i)
      BY <1>8, <1>9, <3>1, InodePut
    <3> QED BY <1>3, <3>2 DEF InodesCounted
  <2> QED BY <2>1, <2>3, <2>4 DEF Objects, InodesCounted, T
<1>11. ASSUME o \in Inodes
       PROVE  r[o] >= 1 /\ Objects(g, [r EXCEPT ![o] = @ - 1], F, Q)
  <2>1. S[PS(p)][1] = o BY <1>4
  <2>2. o \notin Pages /\ None \notin Pages BY <1>11, ObjKinds
  <2>3. \A x \in Stands : S[x][1] \in Pages \/ T[x][1] \in Pages => T[x] = S[x]
    BY <1>6, <1>7, <2>1, <2>2 DEF SameBut
  <2>4. EndsOpen(g, T) BY <1>3, <2>3, EndsSame
  <2>5. ASSUME NEW i \in Inodes
        PROVE  /\ i = o => r[i] >= 1
               /\ [r EXCEPT ![o] = @ - 1][i] = InodeCount(ObjOf(F), PutOf(Q), i)
    <3>1. i # None BY ObjKinds
    <3>2. r[i] = InodeCount(ObjOf(F), PutOf(P), i) /\ r[i] \in Nat BY <1>3 DEF InodesCounted
    <3>3. i # o => InodeCount(ObjOf(F), PutOf(Q), i) = InodeCount(ObjOf(F), PutOf(P), i)
      BY <1>8, <1>9, <3>1, InodePut
    <3>4. i = o => /\ InodeCount(ObjOf(F), PutOf(Q), i) = InodeCount(ObjOf(F), PutOf(P), i) - 1
                   /\ InodeCount(ObjOf(F), PutOf(P), i) >= 1
      BY <1>8, <1>9, <3>1, InodePut
    <3>5. [r EXCEPT ![o] = @ - 1][i] = IF i = o THEN r[i] - 1 ELSE r[i] BY <1>11
    <3> QED BY <3>2, <3>3, <3>4, <3>5
  <2> QED BY <1>11, <2>4, <2>5 DEF Objects, InodesCounted, T
<1> QED BY <1>10, <1>11 DEF Q

(* A file that stood for nothing is opened for an inode.                   *)
LEMMA ObjOpen ==
  ASSUME NEW g, NEW r \in [Inodes -> Nat], NEW F \in [Slots -> FileRec], NEW P,
         Objects(g, r, F, P), NEW f \in Slots, F[f].obj = None, NEW i \in Inodes,
         NEW v \in FileRec, v.obj = i
  PROVE  Objects(g, [r EXCEPT ![i] = @ + 1], [F EXCEPT ![f] = v], P)
<1> DEFINE G == [F EXCEPT ![f] = v]
           S == StandOf(F, P)
           T == StandOf(G, P)
<1>1. \A h \in Slots : G[h] = IF h = f THEN v ELSE F[h] OBVIOUS
<1>2. StandFields(S, F, P) /\ StandFields(T, G, P) BY StandAt
<1>3. EndsOpen(g, S) /\ InodesCounted(r, ObjOf(F), PutOf(P)) BY DEF Objects
<1> HIDE DEF G, S, T
<1>4. S[FS(f)][1] = None /\ T[FS(f)][1] = i
  <2>1. S[FS(f)] = EndOf(F[f]) /\ T[FS(f)] = EndOf(v) BY <1>1, <1>2 DEF StandFields
  <2> QED BY <2>1 DEF EndOf
<1>5. \A x \in Stands : x # FS(f) => T[x] = S[x] BY <1>1, <1>2, StandIs DEF StandFields
<1>6. \A x \in Stands : S[x][1] \in Pages \/ T[x][1] \in Pages => T[x] = S[x]
  BY <1>4, <1>5, ObjKinds
<1>7. EndsOpen(g, T) BY <1>3, <1>6, EndsSame
<1>8. ASSUME NEW j \in Inodes
      PROVE  [r EXCEPT ![i] = @ + 1][j] = InodeCount(ObjOf(G), PutOf(P), j)
  <2>1. j # None /\ r[j] = InodeCount(ObjOf(F), PutOf(P), j) BY <1>3, ObjKinds DEF InodesCounted
  <2>0. ObjFields(ObjOf(F), F) /\ ObjFields(ObjOf(G), G) BY ObjAt
  <2>2. SameBut(ObjOf(F), ObjOf(G), Slots, f) BY <1>1, <2>0 DEF SameBut, ObjFields
  <2>3. ObjOf(F)[f] = None /\ ObjOf(G)[f] = i BY <1>1, <2>0 DEF ObjFields
  <2>4. j # i => InodeCount(ObjOf(G), PutOf(P), j) = InodeCount(ObjOf(F), PutOf(P), j)
    BY <2>1, <2>2, <2>3, InodeFile
  <2>5. j = i => InodeCount(ObjOf(G), PutOf(P), j) = InodeCount(ObjOf(F), PutOf(P), j) + 1
    BY <2>1, <2>2, <2>3, InodeFile
  <2>6. [r EXCEPT ![i] = @ + 1][j] = IF j = i THEN r[j] + 1 ELSE r[j] OBVIOUS
  <2> QED BY <2>1, <2>4, <2>5, <2>6
<1> QED BY <1>7, <1>8 DEF Objects, InodesCounted, G, T

(* Two files that stood for nothing become the ends of a pipe.             *)
LEMMA ObjPipe ==
  ASSUME NEW g \in [Pages -> PipeRec], NEW r, NEW F \in [Slots -> FileRec],
         NEW P \in [Procs -> FileRec], Objects(g, r, F, P),
         NEW f \in Slots, NEW h \in Slots, f # h, F[f].obj = None, F[h].obj = None,
         NEW o \in Pages, ~g[o].live
  PROVE  Objects([g EXCEPT ![o] = NewPipe], r,
                 [F EXCEPT ![f] = PipeEnd(o, FALSE), ![h] = PipeEnd(o, TRUE)], P)
<1> DEFINE G == [F EXCEPT ![f] = PipeEnd(o, FALSE), ![h] = PipeEnd(o, TRUE)]
           K == [F EXCEPT ![f] = PipeEnd(o, FALSE)]
           S == StandOf(F, P)
           T == StandOf(G, P)
<1>1. \A w : PipeEnd(o, w).obj = o /\ PipeEnd(o, w).writable = w BY DEF PipeEnd
<1>2. /\ G[f] = PipeEnd(o, FALSE) /\ G[h] = PipeEnd(o, TRUE)
      /\ \A e \in Slots : e # f /\ e # h => G[e] = F[e]
      /\ K[f] = PipeEnd(o, FALSE) /\ \A e \in Slots : e # f => K[e] = F[e]
      /\ \A e \in Slots : e # h => G[e] = K[e]
  OBVIOUS
<1>3. StandFields(S, F, P) /\ StandFields(T, G, P) BY StandAt
<1>4. EndsOpen(g, S) /\ InodesCounted(r, ObjOf(F), PutOf(P)) BY DEF Objects
<1>5. S \in [Stands -> EndVals] BY StandType
<1> HIDE DEF G, K, S, T
<1>6. S[FS(f)][1] = None /\ S[FS(h)][1] = None
  <2>1. S[FS(f)] = EndOf(F[f]) /\ S[FS(h)] = EndOf(F[h]) BY <1>3 DEF StandFields
  <2> QED BY <2>1 DEF EndOf
<1>7. T[FS(f)] = <<o, FALSE>> /\ T[FS(h)] = <<o, TRUE>>
  <2>1. T[FS(f)] = EndOf(PipeEnd(o, FALSE)) /\ T[FS(h)] = EndOf(PipeEnd(o, TRUE))
    BY <1>2, <1>3 DEF StandFields
  <2> QED BY <1>1, <2>1, Zenon DEF EndOf
<1>8. \A z \in Stands : z # FS(f) /\ z # FS(h) => T[z] = S[z]
  BY <1>2, <1>3, StandIs DEF StandFields
<1>9. FS(f) \in Stands /\ FS(h) \in Stands /\ FS(f) # FS(h) BY StandIs
<1>10. EndsOpen([g EXCEPT ![o] = NewPipe], T)
  <2>1. S[FS(f)][1] \notin Pages /\ S[FS(h)][1] \notin Pages BY <1>6, ObjKinds
  <2>2. SameBut2(S, T, FS(f), FS(h)) BY <1>8 DEF SameBut2
  <2> QED BY <1>4, <1>5, <1>7, <1>9, <2>1, <2>2, EndsMake
<1>11. ASSUME NEW i \in Inodes PROVE r[i] = InodeCount(ObjOf(G), PutOf(P), i)
  <2>1. i # None /\ i # o /\ r[i] = InodeCount(ObjOf(F), PutOf(P), i)
    BY <1>4, ObjKinds DEF InodesCounted
  <2>0. ObjFields(ObjOf(F), F) /\ ObjFields(ObjOf(K), K) /\ ObjFields(ObjOf(G), G) BY ObjAt
  <2>2. SameBut(ObjOf(F), ObjOf(K), Slots, f) /\ SameBut(ObjOf(K), ObjOf(G), Slots, h)
    BY <1>2, <2>0 DEF SameBut, ObjFields
  <2>3. ObjOf(F)[f] = None /\ ObjOf(K)[f] = o /\ ObjOf(K)[h] = None /\ ObjOf(G)[h] = o
    <3>1. K[h] = F[h] BY <1>2
    <3>2. ObjOf(F)[f] = F[f].obj /\ ObjOf(K)[f] = K[f].obj /\ ObjOf(K)[h] = K[h].obj
          /\ ObjOf(G)[h] = G[h].obj
      BY <2>0 DEF ObjFields
    <3>3. PipeEnd(o, FALSE).obj = o /\ PipeEnd(o, TRUE).obj = o BY <1>1
    <3> QED BY <1>2, <3>1, <3>2, <3>3
  <2>4. InodeCount(ObjOf(K), PutOf(P), i) = InodeCount(ObjOf(F), PutOf(P), i)
    BY <2>1, <2>2, <2>3, InodeFile
  <2>5. InodeCount(ObjOf(G), PutOf(P), i) = InodeCount(ObjOf(K), PutOf(P), i)
    BY <2>1, <2>2, <2>3, InodeFile
  <2> QED BY <2>1, <2>4, <2>5
<1> QED BY <1>10, <1>11 DEF Objects, InodesCounted, G, T
-----------------------------------------------------------------------------
(* The steps.  What the places hold now, and facts about types.            *)
Hold == HoldOf(ofile, closing, making)

LEMMA RecTypes ==
  /\ NoFile \in FileRec /\ TakenFile \in FileRec /\ NoFds \in FdMap
  /\ NoFile.ref = 0 /\ NoFile.obj = None /\ TakenFile.ref = 1 /\ TakenFile.obj = None
  /\ NoFile.writable = FALSE /\ TakenFile.writable = FALSE
BY DEF NoFile, TakenFile, FileRec, NoFds, FdMap

LEMMA MakingIs ==
  ASSUME NEW s \in Making
  PROVE  /\ s = <<>> \/ (\E f \in Slots : s = <<f>>) \/ (\E f, g \in Slots : s = <<f, g>>)
         /\ \A k \in DOMAIN s : k \in {1, 2} /\ s[k] \in Slots
         /\ Len(s) = 1 => \E f \in Slots : s = <<f>>
         /\ Len(s) = 2 => \E f, g \in Slots : s = <<f, g>>
BY DEF Making

LEMMA MadeHeld ==
  ASSUME Types
  PROVE  \A q \in Procs : \A k \in DOMAIN making[q] :
           /\ M(q, k) \in Places /\ Hold[M(q, k)] = making[q][k] /\ making[q][k] \in Slots
<1> SUFFICES ASSUME NEW q \in Procs, NEW k \in DOMAIN making[q]
             PROVE  M(q, k) \in Places /\ Hold[M(q, k)] = making[q][k] /\ making[q][k] \in Slots
  OBVIOUS
<1>1. making[q] \in Making BY DEF Types
<1>2. k \in {1, 2} /\ making[q][k] \in Slots BY <1>1, MakingIs
<1>3. AtMade(Hold, making) BY HoldFields DEF Hold
<1>4. MadeAt(making, q, k) = making[q][k] BY DEF MadeAt
<1> QED BY <1>2, <1>3, <1>4, PlaceIs DEF AtMade

(* A file that a descriptor or a close holds is not one in the making.     *)
LEMMA NotMade ==
  ASSUME RefInv, NEW p \in Procs, NEW d \in Fds, NEW f \in Slots,
         Hold[O(p, d)] = f \/ Hold[C(p, d)] = f
  PROVE  \A q \in Procs : \A k \in DOMAIN making[q] : making[q][k] # f
<1> SUFFICES ASSUME NEW q \in Procs, NEW k \in DOMAIN making[q], making[q][k] = f PROVE FALSE
  OBVIOUS
<1>1. M(q, k) \in Places /\ Hold[M(q, k)] = f BY MadeHeld DEF RefInv
<1>2. file[f].ref = 1 BY RecTypes DEF RefInv, Makes
<1>3. Refs(file)[f] = 1 /\ Counted(Refs(file), Hold) BY <1>2 DEF Refs, RefInv, Hold
<1>4. \A y \in Places : Hold[y] = f => y = M(q, k) BY <1>1, <1>3, CountSole
<1>5. O(p, d) # M(q, k) /\ C(p, d) # M(q, k) BY DEF O, C, M
<1> QED BY <1>4, <1>5, PlaceIs

LEMMA MakesKept ==
  ASSUME RefInv, NEW f \in Slots, making' = making,
         \A q \in Procs : \A k \in DOMAIN making[q] : making[q][k] # f,
         \A h \in Slots : h # f => file'[h] = file[h],
         \A q \in Procs : making[q] # <<>> => closing'[q] = NoFds
  PROVE  Makes'
<1>1. ASSUME NEW q \in Procs, NEW k \in DOMAIN making[q]
      PROVE  file'[making[q][k]] = TakenFile
  <2>1. making[q][k] \in Slots BY MadeHeld DEF RefInv
  <2>2. file[making[q][k]] = TakenFile BY DEF RefInv, Makes
  <2> QED BY <2>1, <2>2
<1> QED BY <1>1 DEF Makes

(* fileclose() of f.                                                       *)
Closed(p, f) ==
  /\ file' = [file EXCEPT ![f] = IF LastRef(f) THEN NoFile ELSE [file[f] EXCEPT !.ref = @ - 1]]
  /\ putting' = [putting EXCEPT ![p] =
       IF LastRef(f) /\ file[f].obj # None THEN file[f] ELSE NoFile]

LEMMA EachIs ==
  ASSUME NEW p, NEW fds \in FdMap, FilecloseEach(p, fds), fds # NoFds
  PROVE  \E d \in Fds : /\ fds[d] \in Slots /\ Closed(p, fds[d])
                        /\ closing' = [closing EXCEPT ![p] = [fds EXCEPT ![d] = 0]]
<1>1. OpenFds(fds) # {}
  <2> SUFFICES ASSUME OpenFds(fds) = {} PROVE FALSE OBVIOUS
  <2>1. \A d \in Fds : fds[d] = 0 BY DEF OpenFds
  <2> QED BY <2>1 DEF FdMap, NoFds
<1>2. OpenFds(fds) \subseteq Nat BY FilesConstants DEF OpenFds, Fds
<1>3. Min(OpenFds(fds)) \in OpenFds(fds) BY <1>1, <1>2, MinIs
<1>4. PICK d \in Fds : d = Min(OpenFds(fds)) /\ fds[d] # 0 BY <1>3 DEF OpenFds
<1>5. fds[d] \in Slots BY <1>4 DEF FdMap
<1> QED BY <1>1, <1>4, <1>5 DEF FilecloseEach, Closed

LEMMA CloseSide ==
  ASSUME RefInv, NEW p \in Procs, NEW f \in Slots, file[f].ref >= 1, putting[p] = NoFile,
         Closed(p, f), pipe' = pipe, iref' = iref
  PROVE  /\ file' \in [Slots -> FileRec] /\ putting' \in [Procs -> FileRec]
         /\ Blank' /\ Objects(pipe', iref', file', putting')
         /\ Refs(file') = [Refs(file) EXCEPT ![f] = @ - 1]
         /\ \A h \in Slots : h # f => file'[h] = file[h]
<1>0. /\ file \in [Slots -> FileRec] /\ putting \in [Procs -> FileRec] /\ file[f] \in FileRec
      /\ Blank /\ Objects(pipe, iref, file, putting)
  BY DEF RefInv, Types
<1>1. file[f].ref \in Nat BY <1>0 DEF FileRec
<1>2. CASE LastRef(f)
  <2>1. file' = [file EXCEPT ![f] = NoFile] BY <1>2 DEF Closed
  <2>2. putting' = [putting EXCEPT ![p] = IF file[f].obj # None THEN file[f] ELSE NoFile]
    BY <1>2 DEF Closed
  <2>3. file[f].ref = 1 BY <1>2 DEF LastRef
  <2>4. /\ Objects(pipe, iref, [file EXCEPT ![f] = NoFile], [putting EXCEPT ![p] = file[f]])
        /\ file[f].obj = None => Objects(pipe, iref, [file EXCEPT ![f] = NoFile], putting)
    BY <1>0, ObjLast
  <2>5. file[f].obj = None => putting' = putting BY <1>0, <2>2
  <2>6. file[f].obj # None => putting' = [putting EXCEPT ![p] = file[f]] BY <2>2
  <2>7. Objects(pipe', iref', file', putting') BY <2>1, <2>4, <2>5, <2>6
  <2>8. file' \in [Slots -> FileRec] /\ putting' \in [Procs -> FileRec]
    BY <1>0, <2>1, <2>2, RecTypes
  <2>9. Blank'
    <3>1. \A h \in Slots : file'[h] = IF h = f THEN NoFile ELSE file[h] BY <1>0, <2>1
    <3>2. \A q \in Procs : putting'[q] =
            IF q = p THEN (IF file[f].obj # None THEN file[f] ELSE NoFile) ELSE putting[q]
      BY <1>0, <2>2
    <3>3. \A h \in Slots : file'[h].ref = 0 => file'[h] = NoFile BY <1>0, <3>1 DEF Blank
    <3>4. \A q \in Procs : putting'[q].obj = None => putting'[q] = NoFile
      BY <1>0, <3>2 DEF Blank
    <3> QED BY <3>3, <3>4 DEF Blank
  <2>10. Refs(file') = [Refs(file) EXCEPT ![f] = @ - 1]
    <3>1. \A h \in Slots : file'[h].ref = IF h = f THEN 0 ELSE file[h].ref
      BY <1>0, <2>1, RecTypes
    <3>2. Refs(file)[f] - 1 = 0 BY <2>3 DEF Refs
    <3> QED BY <3>1, <3>2 DEF Refs
  <2> QED BY <1>0, <2>1, <2>7, <2>8, <2>9, <2>10
<1>3. CASE ~LastRef(f)
  <2>1. file' = [file EXCEPT ![f] = [file[f] EXCEPT !.ref = @ - 1]] BY <1>3 DEF Closed
  <2>2. putting' = putting BY <1>0, <1>3 DEF Closed
  <2>3. file[f].ref >= 2 BY <1>1, <1>3 DEF LastRef
  <2> DEFINE v == [file[f] EXCEPT !.ref = @ - 1]
  <2>4. /\ v \in FileRec /\ v.ref = file[f].ref - 1 /\ v.obj = file[f].obj
        /\ v.writable = file[f].writable /\ v.ref # 0
    BY <1>0, <2>3 DEF FileRec
  <2>5. file' = [file EXCEPT ![f] = v] BY <2>1
  <2> HIDE DEF v
  <2>6. \A h \in Slots : file'[h] = IF h = f THEN v ELSE file[h] BY <1>0, <2>5
  <2>7. SameObj(file, file') BY <2>4, <2>6 DEF SameObj
  <2>8. SameFlags(pipe, pipe') BY DEF SameFlags
  <2>9. Objects(pipe', iref', file', putting') BY <1>0, <2>2, <2>7, <2>8, ObjSame
  <2>10. Blank' BY <1>0, <2>2, <2>4, <2>6 DEF Blank
  <2>11. Refs(file') = [Refs(file) EXCEPT ![f] = @ - 1] BY <1>0, <2>4, <2>5 DEF Refs
  <2> QED BY <1>0, <2>2, <2>4, <2>5, <2>6, <2>9, <2>10, <2>11
<1> QED BY <1>2, <1>3

LEMMA FilecloseStep ==
  ASSUME RefInv, NEW p \in Procs, Fileclose(p)
  PROVE  RefInv'
<1>0. /\ Types /\ closing[p] \in FdMap /\ closing \in [Procs -> FdMap]
      /\ Counted(Refs(file), Hold)
  BY DEF RefInv, Types, Hold
<1>1. /\ closing[p] # NoFds /\ putting[p] = NoFile /\ FilecloseEach(p, closing[p])
      /\ ofile' = ofile /\ pipe' = pipe /\ iref' = iref /\ making' = making
  BY DEF Fileclose
<1>2. PICK d \in Fds : /\ closing[p][d] \in Slots /\ Closed(p, closing[p][d])
                       /\ closing' = [closing EXCEPT ![p] = [closing[p] EXCEPT ![d] = 0]]
  BY <1>0, <1>1, EachIs
<1>3. PICK f \in Slots : f = closing[p][d] BY <1>2
<1>4. Hold[C(p, d)] = f /\ C(p, d) \in Places
  <2>1. AtFds(Hold, ofile, closing) BY HoldFields DEF Hold
  <2> QED BY <1>2, <1>3, <2>1, PlaceIs DEF AtFds
<1>5. Refs(file)[f] >= 1 /\ Counted([Refs(file) EXCEPT ![f] = @ - 1], [Hold EXCEPT ![C(p, d)] = 0])
  BY <1>0, <1>4, CountGive
<1>6. /\ file' \in [Slots -> FileRec] /\ putting' \in [Procs -> FileRec]
      /\ Blank' /\ Objects(pipe', iref', file', putting')
      /\ Refs(file') = [Refs(file) EXCEPT ![f] = @ - 1]
      /\ \A h \in Slots : h # f => file'[h] = file[h]
  <2>1. file[f].ref >= 1 BY <1>5 DEF Refs
  <2> QED BY <1>1, <1>2, <1>3, <2>1, CloseSide
<1>7. Hold' = [Hold EXCEPT ![C(p, d)] = 0]
  <2>1. SetAt(closing, closing', p, d, 0) BY <1>0, <1>2 DEF SetAt, FdMap
  <2>2. HoldOf(ofile, closing', making) = [HoldOf(ofile, closing, making) EXCEPT ![C(p, d)] = 0]
    BY <1>2, <2>1, SetClosing
  <2> QED BY <1>1, <2>1, <2>2 DEF Hold
<1>8. closing' \in [Procs -> FdMap]
  <2>1. [closing[p] EXCEPT ![d] = 0] \in FdMap BY <1>0 DEF FdMap
  <2> QED BY <1>0, <1>2, <2>1
<1>9. Makes'
  <2>1. \A q \in Procs : \A k \in DOMAIN making[q] : making[q][k] # f BY <1>2, <1>4, NotMade
  <2>2. making[p] = <<>> BY <1>1 DEF RefInv, Makes
  <2>3. \A q \in Procs : making[q] # <<>> => closing'[q] = NoFds
    BY <1>0, <1>2, <2>2 DEF RefInv, Makes
  <2> QED BY <1>1, <1>6, <2>1, <2>3, MakesKept
<1>10. Types' BY <1>0, <1>1, <1>6, <1>8 DEF Types
<1>11. Counted(Refs(file'), Hold') BY <1>5, <1>6, <1>7
<1> QED BY <1>6, <1>9, <1>10, <1>11 DEF RefInv, Hold

LEMMA CloseStep ==
  ASSUME RefInv, NEW p \in Procs, NEW d \in Fds, Close(p, d)
  PROVE  RefInv'
<1>0. /\ Types /\ ofile[p] \in FdMap /\ ofile \in [Procs -> FdMap]
      /\ closing \in [Procs -> FdMap] /\ Counted(Refs(file), Hold)
  BY DEF RefInv, Types, Hold
<1>1. CASE ~IsOpen(p, d)
  <2>1. OpenFds(NoFds) = {} BY DEF OpenFds, NoFds
  <2>2. UNCHANGED filesVars BY <1>1, <2>1 DEF Close, FilecloseEach, filesVars
  <2> QED BY <2>2 DEF RefInv, Types, Makes, Blank, filesVars
<1>2. CASE IsOpen(p, d)
  <2>1. /\ making[p] = <<>> /\ closing[p] = NoFds /\ putting[p] = NoFile
        /\ FilecloseEach(p, [NoFds EXCEPT ![d] = ofile[p][d]])
        /\ ofile' = [ofile EXCEPT ![p][d] = 0]
        /\ pipe' = pipe /\ iref' = iref /\ making' = making
    BY <1>2 DEF Close, Returned
  <2>2. PICK f \in Slots : f = ofile[p][d] BY <1>0, <1>2 DEF IsOpen, FdMap
  <2> DEFINE fds == [NoFds EXCEPT ![d] = ofile[p][d]]
  <2>3. fds \in FdMap /\ \A e \in Fds : fds[e] = IF e = d THEN f ELSE 0
    BY <2>2, RecTypes DEF FdMap, NoFds
  <2>4. fds # NoFds BY <2>2, <2>3 DEF NoFds, Slots
  <2>5. FilecloseEach(p, fds) BY <2>1
  <2>13. [fds EXCEPT ![d] = 0] = NoFds BY DEF NoFds
  <2> HIDE DEF fds
  <2>6. PICK e \in Fds : /\ fds[e] \in Slots /\ Closed(p, fds[e])
                         /\ closing' = [closing EXCEPT ![p] = [fds EXCEPT ![e] = 0]]
    BY <2>3, <2>4, <2>5, EachIs
  <2>7. e = d /\ fds[e] = f BY <2>3, <2>6 DEF Slots
  <2>8. closing' = closing
    <3>1. closing' = [closing EXCEPT ![p] = NoFds] BY <2>6, <2>7, <2>13
    <3> QED BY <1>0, <2>1, <3>1
  <2>9. Hold[O(p, d)] = f /\ O(p, d) \in Places
    <3>1. AtFds(Hold, ofile, closing) BY HoldFields DEF Hold
    <3> QED BY <2>2, <3>1, PlaceIs DEF AtFds
  <2>10. /\ Refs(file)[f] >= 1
         /\ Counted([Refs(file) EXCEPT ![f] = @ - 1], [Hold EXCEPT ![O(p, d)] = 0])
    BY <1>0, <2>9, CountGive
  <2>11. /\ file' \in [Slots -> FileRec] /\ putting' \in [Procs -> FileRec]
         /\ Blank' /\ Objects(pipe', iref', file', putting')
         /\ Refs(file') = [Refs(file) EXCEPT ![f] = @ - 1]
         /\ \A h \in Slots : h # f => file'[h] = file[h]
    <3>1. file[f].ref >= 1 BY <2>10 DEF Refs
    <3>2. Closed(p, f) BY <2>6, <2>7
    <3> QED BY <2>1, <3>1, <3>2, CloseSide
  <2>12. Hold' = [Hold EXCEPT ![O(p, d)] = 0]
    <3>2. SetAt(ofile, ofile', p, d, 0) BY <1>0, <2>1 DEF SetAt, FdMap
    <3>1. HoldOf(ofile', closing, making) = [HoldOf(ofile, closing, making) EXCEPT ![O(p, d)] = 0]
      BY <3>2, SetOfile
    <3> QED BY <2>1, <2>8, <3>1 DEF Hold
  <2>14. ofile' \in [Procs -> FdMap]
    <3>1. [ofile[p] EXCEPT ![d] = 0] \in FdMap BY <1>0 DEF FdMap
    <3> QED BY <1>0, <2>1, <3>1
  <2>15. Makes'
    <3>1. \A q \in Procs : \A k \in DOMAIN making[q] : making[q][k] # f BY <2>9, NotMade
    <3>2. \A q \in Procs : making[q] # <<>> => closing'[q] = NoFds
      BY <2>8 DEF RefInv, Makes
    <3> QED BY <2>1, <2>11, <3>1, <3>2, MakesKept
  <2>16. Types' BY <1>0, <2>1, <2>8, <2>11, <2>14 DEF Types
  <2>17. Counted(Refs(file'), Hold') BY <2>10, <2>11, <2>12
  <2> QED BY <2>11, <2>15, <2>16, <2>17 DEF RefInv, Hold
<1> QED BY <1>1, <1>2

LEMMA CloseAllStep ==
  ASSUME RefInv, NEW p \in Procs, CloseAll(p)
  PROVE  RefInv'
<1>0. /\ Types /\ ofile[p] \in FdMap /\ ofile \in [Procs -> FdMap]
      /\ closing \in [Procs -> FdMap] /\ making \in [Procs -> Making]
      /\ Counted(Refs(file), Hold)
  BY DEF RefInv, Types, Hold
<1>1. /\ making[p] = <<>> /\ closing[p] = NoFds /\ putting[p] = NoFile
      /\ FilecloseEach(p, ofile[p]) /\ ofile' = [ofile EXCEPT ![p] = NoFds]
      /\ pipe' = pipe /\ iref' = iref /\ making' = making
  BY DEF CloseAll, Returned
<1>2. CASE ofile[p] = NoFds
  <2>1. OpenFds(NoFds) = {} BY DEF OpenFds, NoFds
  <2>2. ofile' = ofile BY <1>0, <1>1, <1>2
  <2>3. UNCHANGED filesVars BY <1>1, <1>2, <2>1, <2>2 DEF FilecloseEach, filesVars
  <2> QED BY <2>3 DEF RefInv, Types, Makes, Blank, filesVars
<1>3. CASE ofile[p] # NoFds
  <2>1. PICK d \in Fds : /\ ofile[p][d] \in Slots /\ Closed(p, ofile[p][d])
                         /\ closing' = [closing EXCEPT ![p] = [ofile[p] EXCEPT ![d] = 0]]
    BY <1>0, <1>1, <1>3, EachIs
  <2>2. PICK f \in Slots : f = ofile[p][d] BY <2>1
  <2> DEFINE o == [ofile EXCEPT ![p] = NoFds]
             c == [closing EXCEPT ![p] = ofile[p]]
             H == HoldOf(o, c, making)
  <2>3. o \in [Procs -> FdMap] /\ c \in [Procs -> FdMap] BY <1>0, RecTypes
  <2>4. c[p][d] = f BY <1>0, <2>2
  <2>5. closing' = [c EXCEPT ![p][d] = 0] BY <1>0, <2>1
  <2>6. Counted(Refs(file), H) BY <1>0, <1>1, CountCloseAll DEF Hold
  <2>7. ofile' = o BY <1>1
  <2> HIDE DEF o, c
  <2>8. H[C(p, d)] = f /\ C(p, d) \in Places
    <3>1. AtFds(H, o, c) BY HoldFields
    <3> HIDE DEF H
    <3> QED BY <2>1, <2>4, <3>1, PlaceIs DEF AtFds
  <2>9. Hold' = [H EXCEPT ![C(p, d)] = 0]
    <3>2. SetAt(c, closing', p, d, 0) BY <2>3, <2>5 DEF SetAt, FdMap
    <3>1. HoldOf(o, closing', making) = [HoldOf(o, c, making) EXCEPT ![C(p, d)] = 0]
      BY <2>1, <3>2, SetClosing
    <3> QED BY <1>1, <2>5, <2>7, <3>1 DEF Hold
  <2> HIDE DEF H
  <2>10. Refs(file)[f] >= 1 /\ Counted([Refs(file) EXCEPT ![f] = @ - 1], [H EXCEPT ![C(p, d)] = 0])
    BY <2>6, <2>8, CountGive
  <2>11. /\ file' \in [Slots -> FileRec] /\ putting' \in [Procs -> FileRec]
         /\ Blank' /\ Objects(pipe', iref', file', putting')
         /\ Refs(file') = [Refs(file) EXCEPT ![f] = @ - 1]
         /\ \A h \in Slots : h # f => file'[h] = file[h]
    <3>1. file[f].ref >= 1 BY <2>10 DEF Refs
    <3>2. Closed(p, f) BY <2>1, <2>2
    <3> QED BY <1>1, <3>1, <3>2, CloseSide
  <2>12. closing' \in [Procs -> FdMap]
    <3>1. [ofile[p] EXCEPT ![d] = 0] \in FdMap BY <1>0 DEF FdMap
    <3> QED BY <1>0, <2>1, <3>1
  <2>13. Makes'
    <3>1. Hold[O(p, d)] = f
      <4>1. AtFds(Hold, ofile, closing) BY HoldFields DEF Hold
      <4> QED BY <2>1, <2>2, <4>1 DEF AtFds
    <3>2. \A q \in Procs : \A k \in DOMAIN making[q] : making[q][k] # f BY <2>1, <3>1, NotMade
    <3>3. \A q \in Procs : making[q] # <<>> => closing'[q] = NoFds
      BY <1>0, <1>1, <2>1 DEF RefInv, Makes
    <3> QED BY <1>1, <2>11, <3>2, <3>3, MakesKept
  <2>14. Types' BY <1>0, <1>1, <2>3, <2>7, <2>11, <2>12 DEF Types
  <2>15. Counted(Refs(file'), Hold') BY <2>9, <2>10, <2>11
  <2> QED BY <2>11, <2>13, <2>14, <2>15 DEF RefInv, Hold
<1> QED BY <1>2, <1>3

LEMMA PutStep ==
  ASSUME RefInv, NEW p \in Procs, Put(p)
  PROVE  RefInv'
<1>0. /\ Types /\ putting \in [Procs -> FileRec] /\ putting[p] \in FileRec
      /\ pipe \in [Pages -> PipeRec] /\ iref \in [Inodes -> Nat] /\ Blank /\ Makes
      /\ Objects(pipe, iref, file, putting) /\ Counted(Refs(file), Hold)
  BY DEF RefInv, Types, Hold
<1>1. /\ putting[p] # NoFile /\ putting' = [putting EXCEPT ![p] = NoFile]
      /\ file' = file /\ ofile' = ofile /\ making' = making /\ closing' = closing
  BY DEF Put
<1>2. putting[p].obj \in Pages \cup Inodes BY <1>0, <1>1 DEF Blank, FileRec
<1>3. pipe' \in [Pages -> PipeRec] /\ iref' \in [Inodes -> Nat] /\ Objects(pipe', iref', file', putting')
  <2>1. PICK o : o = putting[p].obj OBVIOUS
  <2>2. CASE o \in Pages
    <3>1. /\ pipe' = [pipe EXCEPT ![o] = PageAfter(EndClosed(@, putting[p].writable))]
          /\ iref' = iref
      BY <2>1, <2>2 DEF Put
    <3>2. PageAfter(EndClosed(pipe[o], putting[p].writable)) \in PipeRec
      <4>1. pipe[o] \in PipeRec BY <1>0, <2>2
      <4> QED BY <4>1 DEF PipeRec, PageAfter, EndClosed, NoPage
    <3>3. Objects(pipe', iref', file', putting') BY <1>0, <1>1, <2>1, <2>2, <3>1, ObjPut
    <3> QED BY <1>0, <3>1, <3>2, <3>3
  <2>3. CASE o \in Inodes
    <3>1. o \notin Pages BY <2>3, ObjKinds
    <3>2. iref' = [iref EXCEPT ![o] = @ - 1] /\ pipe' = pipe BY <2>1, <3>1 DEF Put
    <3>3. iref[o] >= 1 /\ Objects(pipe', iref', file', putting')
      BY <1>0, <1>1, <2>1, <2>3, <3>2, ObjPut
    <3>4. iref[o] - 1 \in Nat BY <1>0, <2>3, <3>3
    <3> QED BY <1>0, <3>2, <3>3, <3>4
  <2> QED BY <1>2, <2>1, <2>2, <2>3
<1>4. putting' \in [Procs -> FileRec] BY <1>0, <1>1, RecTypes
<1>5. Types' BY <1>0, <1>1, <1>3, <1>4 DEF Types
<1>6. Blank'
  <2>1. \A q \in Procs : putting'[q] = IF q = p THEN NoFile ELSE putting[q] BY <1>0, <1>1
  <2> QED BY <1>0, <1>1, <2>1 DEF Blank
<1>7. Makes' BY <1>0, <1>1 DEF Makes
<1>8. Hold' = Hold BY <1>1 DEF Hold
<1> QED BY <1>0, <1>1, <1>3, <1>5, <1>6, <1>7, <1>8 DEF RefInv, Hold
-----------------------------------------------------------------------------
(* filealloc() finds a file that is nobody's, fdalloc() a free descriptor. *)
LEMMA FreshSlot ==
  ASSUME RefInv, NEW f \in Slots, FreeSlots # {}, Filealloc(f)
  PROVE  /\ file[f] = NoFile
         /\ \A q \in Procs : \A k \in DOMAIN making[q] : making[q][k] # f
<1>1. FreeSlots \subseteq Nat BY DEF FreeSlots, Slots
<1>2. f \in FreeSlots BY <1>1, MinIs DEF Filealloc
<1>3. file[f] = NoFile BY <1>2 DEF FreeSlots, RefInv, Blank
<1>4. NoFile # TakenFile BY RecTypes
<1> QED BY <1>3, <1>4 DEF RefInv, Makes

LEMMA TakenIs ==
  ASSUME NEW fds \in FdMap, FreeFds(fds) # {}, NEW f \in Slots
  PROVE  \E e \in Fds : /\ fds[e] = 0 /\ Taken(fds, f) = [fds EXCEPT ![e] = f]
                        /\ Taken(fds, f) \in FdMap /\ e = Min(FreeFds(fds))
<1>1. FreeFds(fds) \subseteq Nat BY FilesConstants DEF FreeFds, Fds
<1>2. Min(FreeFds(fds)) \in FreeFds(fds) BY <1>1, MinIs
<1>3. PICK e \in Fds : e = Min(FreeFds(fds)) /\ fds[e] = 0 BY <1>2 DEF FreeFds
<1>4. Taken(fds, f) = [fds EXCEPT ![e] = f] BY <1>3 DEF Taken
<1>5. [fds EXCEPT ![e] = f] \in FdMap BY DEF FdMap
<1> QED BY <1>3, <1>4, <1>5

(* What taking a file, or another reference to it, does to the objects.    *)
LEMMA TakeSide ==
  ASSUME RefInv, NEW f \in Slots, NEW v \in FileRec, file' = [file EXCEPT ![f] = v],
         v.ref = file[f].ref + 1, v.obj = file[f].obj, v.writable = file[f].writable,
         pipe' = pipe, iref' = iref, putting' = putting
  PROVE  /\ file' \in [Slots -> FileRec] /\ Blank' /\ Objects(pipe', iref', file', putting')
         /\ Refs(file') = [Refs(file) EXCEPT ![f] = @ + 1]
         /\ \A h \in Slots : h # f => file'[h] = file[h]
<1>0. file \in [Slots -> FileRec] /\ file[f].ref \in Nat /\ Blank /\ Objects(pipe, iref, file, putting)
  BY DEF RefInv, Types, FileRec
<1>1. \A h \in Slots : file'[h] = IF h = f THEN v ELSE file[h] BY <1>0
<1>2. SameObj(file, file') BY <1>1 DEF SameObj
<1>3. SameFlags(pipe, pipe') BY DEF SameFlags
<1>4. Objects(pipe', iref', file', putting') BY <1>0, <1>2, <1>3, ObjSame
<1>5. Blank' BY <1>0, <1>1 DEF Blank
<1>6. Refs(file') = [Refs(file) EXCEPT ![f] = @ + 1] BY <1>0 DEF Refs
<1> QED BY <1>0, <1>1, <1>4, <1>5, <1>6

LEMMA AllocSide ==
  ASSUME RefInv, NEW f \in Slots, file[f] = NoFile, file' = [file EXCEPT ![f].ref = 1],
         pipe' = pipe, iref' = iref, putting' = putting
  PROVE  /\ file' \in [Slots -> FileRec] /\ Blank' /\ Objects(pipe', iref', file', putting')
         /\ Refs(file') = [Refs(file) EXCEPT ![f] = @ + 1]
         /\ \A h \in Slots : h # f => file'[h] = file[h]
         /\ file'[f] = TakenFile
<1>1. file' = [file EXCEPT ![f] = TakenFile] BY DEF TakenFile
<1>2. TakenFile.ref = file[f].ref + 1 BY RecTypes
<1>3. TakenFile.obj = file[f].obj /\ TakenFile.writable = file[f].writable /\ TakenFile \in FileRec
  BY RecTypes
<1>4. file'[f] = TakenFile BY <1>1 DEF RefInv, Types
<1> QED BY <1>1, <1>2, <1>3, <1>4, TakeSide

LEMMA DupStep ==
  ASSUME RefInv, NEW p \in Procs, NEW d \in Fds, Dup(p, d)
  PROVE  RefInv'
<1>0. /\ Types /\ ofile[p] \in FdMap /\ ofile \in [Procs -> FdMap]
      /\ Counted(Refs(file), Hold) /\ file \in [Slots -> FileRec]
  BY DEF RefInv, Types, Hold
<1>1. CASE ~(IsOpen(p, d) /\ FreeFds(ofile[p]) # {})
  <2>1. UNCHANGED filesVars BY <1>1 DEF Dup, filesVars
  <2> QED BY <2>1 DEF RefInv, Types, Makes, Blank, filesVars
<1>2. CASE IsOpen(p, d) /\ FreeFds(ofile[p]) # {}
  <2>1. PICK f \in Slots : f = ofile[p][d] BY <1>0, <1>2 DEF IsOpen, FdMap
  <2>2. /\ ofile' = [ofile EXCEPT ![p] = Taken(ofile[p], f)]
        /\ file' = [file EXCEPT ![f].ref = @ + 1]
        /\ pipe' = pipe /\ iref' = iref /\ making' = making /\ closing' = closing
        /\ putting' = putting
    BY <1>2, <2>1 DEF Dup
  <2>3. PICK e \in Fds : /\ ofile[p][e] = 0 /\ Taken(ofile[p], f) = [ofile[p] EXCEPT ![e] = f]
                         /\ Taken(ofile[p], f) \in FdMap
    BY <1>0, <1>2, TakenIs
  <2> DEFINE v == [file[f] EXCEPT !.ref = @ + 1]
  <2>4. /\ v \in FileRec /\ v.ref = file[f].ref + 1 /\ v.obj = file[f].obj
        /\ v.writable = file[f].writable
    <3>1. file[f] \in FileRec BY <1>0
    <3> QED BY <3>1 DEF FileRec
  <2>5. file' = [file EXCEPT ![f] = v] BY <2>2
  <2> HIDE DEF v
  <2>6. /\ file' \in [Slots -> FileRec] /\ Blank' /\ Objects(pipe', iref', file', putting')
        /\ Refs(file') = [Refs(file) EXCEPT ![f] = @ + 1]
        /\ \A h \in Slots : h # f => file'[h] = file[h]
    BY <2>2, <2>4, <2>5, TakeSide
  <2>7. /\ Hold[O(p, d)] = f /\ Hold[O(p, e)] = 0 /\ O(p, e) \in Places
    <3>1. AtFds(Hold, ofile, closing) BY HoldFields DEF Hold
    <3> QED BY <2>1, <2>3, <3>1, PlaceIs DEF AtFds
  <2>8. Counted([Refs(file) EXCEPT ![f] = @ + 1], [Hold EXCEPT ![O(p, e)] = f])
    BY <1>0, <2>7, CountTake
  <2>9. Hold' = [Hold EXCEPT ![O(p, e)] = f]
    <3>1. SetAt(ofile, ofile', p, e, f) BY <1>0, <2>2, <2>3 DEF SetAt, FdMap
    <3>2. HoldOf(ofile', closing, making) = [HoldOf(ofile, closing, making) EXCEPT ![O(p, e)] = f]
      BY <2>3, <3>1, SetOfile
    <3> QED BY <2>2, <3>2 DEF Hold
  <2>10. Makes'
    <3>1. \A q \in Procs : \A k \in DOMAIN making[q] : making[q][k] # f BY <2>7, NotMade
    <3>2. \A q \in Procs : making[q] # <<>> => closing'[q] = NoFds BY <2>2 DEF RefInv, Makes
    <3> QED BY <2>2, <2>6, <3>1, <3>2, MakesKept
  <2>11. Types' BY <1>0, <2>2, <2>3, <2>6 DEF Types
  <2>12. Counted(Refs(file'), Hold') BY <2>6, <2>8, <2>9
  <2> QED BY <2>6, <2>10, <2>11, <2>12 DEF RefInv, Hold
<1> QED BY <1>1, <1>2

LEMMA InheritStep ==
  ASSUME RefInv, NEW p \in Procs, NEW q \in Procs, ofile[q] = NoFds, Inherit(p, q)
  PROVE  RefInv'
<1>0. /\ Types /\ ofile[p] \in FdMap /\ ofile \in [Procs -> FdMap] /\ closing \in [Procs -> FdMap]
      /\ making \in [Procs -> Making] /\ Counted(Refs(file), Hold) /\ file \in [Slots -> FileRec]
      /\ Objects(pipe, iref, file, putting) /\ Blank /\ Makes
  BY DEF RefInv, Types, Hold
<1>1. /\ ofile' = [ofile EXCEPT ![q] = ofile[p]] /\ file' = Dupped(ofile[p])
      /\ pipe' = pipe /\ iref' = iref /\ making' = making /\ closing' = closing
      /\ putting' = putting
  BY DEF Inherit
<1> DEFINE n(f) == Named(ofile[p], f)
<1>2. /\ \A f \in Slots : n(f) \in Nat
      /\ Counted([f \in Slots |-> Refs(file)[f] + n(f)], HoldOf([ofile EXCEPT ![q] = ofile[p]], closing, making))
  BY <1>0, CountInherit DEF Hold
<1>3. ASSUME NEW s \in Procs, NEW k \in DOMAIN making[s] PROVE n(making[s][k]) = 0
  <2>1. making[s][k] \in Slots BY <1>0, MadeHeld
  <2>2. AtFds(Hold, ofile, closing) BY HoldFields DEF Hold
  <2>3. \A d \in Fds : Hold[O(p, d)] = ofile[p][d] BY <2>2 DEF AtFds
  <2>4. \A d \in Fds : ofile[p][d] # making[s][k]
    <3> SUFFICES ASSUME NEW d \in Fds, ofile[p][d] = making[s][k] PROVE FALSE OBVIOUS
    <3>1. Hold[O(p, d)] = making[s][k] BY <2>3
    <3> QED BY <2>1, <3>1, NotMade
  <2>5. {d \in Fds : ofile[p][d] = making[s][k]} = {} BY <2>4
  <2> QED BY <2>5, FS_EmptySet DEF Named
<1>4. \A f \in Slots : file'[f] = [file[f] EXCEPT !.ref = @ + n(f)] BY <1>1 DEF Dupped
<1> HIDE DEF n
<1>5. ASSUME NEW f \in Slots
      PROVE  /\ file'[f] \in FileRec /\ file'[f].ref = file[f].ref + n(f)
             /\ file'[f].obj = file[f].obj /\ file'[f].writable = file[f].writable
             /\ n(f) = 0 => file'[f] = file[f]
             /\ file[f].ref \in Nat /\ n(f) \in Nat
  <2>1. file[f] \in FileRec /\ n(f) \in Nat BY <1>0, <1>2
  <2>2. file'[f] = [file[f] EXCEPT !.ref = @ + n(f)] BY <1>4
  <2> QED BY <2>1, <2>2 DEF FileRec
<1>6. file' \in [Slots -> FileRec]
  <2>1. file' = [f \in Slots |-> file'[f]] BY <1>1 DEF Dupped
  <2> QED BY <1>5, <2>1
<1>7. Blank'
  <2>1. ASSUME NEW f \in Slots, file'[f].ref = 0 PROVE file'[f] = NoFile
    <3>1. n(f) = 0 /\ file[f].ref = 0 BY <1>5, <2>1
    <3> QED BY <1>0, <1>5, <3>1 DEF Blank
  <2> QED BY <1>0, <1>1, <2>1 DEF Blank
<1>8. Objects(pipe', iref', file', putting')
  <2>1. SameObj(file, file') /\ SameFlags(pipe, pipe') BY <1>1, <1>5 DEF SameObj, SameFlags
  <2> QED BY <1>0, <1>1, <2>1, ObjSame
<1>9. Makes'
  <2>1. ASSUME NEW s \in Procs, NEW k \in DOMAIN making[s]
        PROVE  file'[making[s][k]] = TakenFile
    <3>1. making[s][k] \in Slots /\ n(making[s][k]) = 0 BY <1>0, <1>3, MadeHeld
    <3> QED BY <1>0, <1>5, <3>1 DEF Makes
  <2> QED BY <1>0, <1>1, <2>1 DEF Makes
<1>10. Types' BY <1>0, <1>1, <1>6 DEF Types
<1>11. Refs(file') = [f \in Slots |-> Refs(file)[f] + n(f)] BY <1>5 DEF Refs
<1>12. Counted(Refs(file'), Hold') BY <1>1, <1>2, <1>11 DEF Hold
<1> QED BY <1>7, <1>8, <1>9, <1>10, <1>12 DEF RefInv, Hold

(* read() and write() of a pipe.                                           *)
LEMMA PipeBytesStep ==
  ASSUME RefInv, NEW p \in Procs, NEW d \in Fds, ReadPipe(p, d) \/ WritePipe(p, d)
  PROVE  RefInv'
<1>0. /\ Types /\ pipe \in [Pages -> PipeRec] /\ Counted(Refs(file), Hold)
      /\ Objects(pipe, iref, file, putting) /\ Blank /\ Makes
  BY DEF RefInv, Types, Hold
<1>1. /\ file' = file /\ ofile' = ofile /\ iref' = iref /\ making' = making
      /\ closing' = closing /\ putting' = putting
  BY DEF ReadPipe, WritePipe
<1>2. PICK o \in Pages : o = FileAt(p, d).obj BY DEF ReadPipe, WritePipe, OnPipe
<1>3. \E k \in Nat : pipe' = [pipe EXCEPT ![o].n = k]
  <2>1. pipe[o].n \in Nat BY <1>0 DEF PipeRec
  <2>2. CASE ReadPipe(p, d)
    <3>1. pipe[o].n > 0 /\ pipe' = [pipe EXCEPT ![o].n = pipe[o].n - 1]
      BY <1>2, <2>2 DEF ReadPipe, PipeAt
    <3>2. pipe[o].n - 1 \in Nat BY <2>1, <3>1
    <3> QED BY <3>1, <3>2
  <2>3. CASE WritePipe(p, d)
    <3>1. pipe' = [pipe EXCEPT ![o].n = pipe[o].n + 1] BY <1>2, <2>3 DEF WritePipe
    <3>2. pipe[o].n + 1 \in Nat BY <2>1
    <3> QED BY <3>1, <3>2
  <2> QED BY <2>2, <2>3
<1>4. PICK k \in Nat : pipe' = [pipe EXCEPT ![o].n = k] BY <1>3
<1>5. pipe' \in [Pages -> PipeRec] /\ SameFlags(pipe, pipe')
  <2> DEFINE v == [pipe[o] EXCEPT !.n = k]
  <2>1. /\ v \in PipeRec /\ v.readopen = pipe[o].readopen /\ v.writeopen = pipe[o].writeopen
        /\ v.live = pipe[o].live
    <3>1. pipe[o] \in PipeRec BY <1>0
    <3> QED BY <3>1 DEF PipeRec
  <2>2. pipe' = [pipe EXCEPT ![o] = v] BY <1>4
  <2> HIDE DEF v
  <2>3. \A q \in Pages : pipe'[q] = IF q = o THEN v ELSE pipe[q] BY <1>0, <2>2
  <2> QED BY <1>0, <2>1, <2>2, <2>3 DEF SameFlags
<1>6. SameObj(file, file') BY <1>1 DEF SameObj
<1>7. Objects(pipe', iref', file', putting') BY <1>0, <1>1, <1>5, <1>6, ObjSame
<1>8. Types' BY <1>0, <1>1, <1>5 DEF Types
<1>9. Makes' /\ Blank' BY <1>0, <1>1 DEF Makes, Blank
<1>10. Counted(Refs(file'), Hold') BY <1>0, <1>1 DEF Hold
<1> QED BY <1>7, <1>8, <1>9, <1>10 DEF RefInv, Hold
-----------------------------------------------------------------------------
LEMMA OpenDoneStep ==
  ASSUME RefInv, NEW p \in Procs, NEW i \in Inodes, NEW r \in BOOLEAN, NEW w \in BOOLEAN,
         OpenDone(p, i, r, w)
  PROVE  RefInv'
<1>0. /\ Types /\ ofile[p] \in FdMap /\ ofile \in [Procs -> FdMap] /\ iref \in [Inodes -> Nat]
      /\ Counted(Refs(file), Hold) /\ file \in [Slots -> FileRec]
      /\ Objects(pipe, iref, file, putting) /\ Blank /\ Makes
  BY DEF RefInv, Types, Hold
<1> DEFINE v == [ref |-> 1, obj |-> i, readable |-> r, writable |-> w]
<1>1. PICK f \in Slots : /\ Filealloc(f) /\ file' = [file EXCEPT ![f] = v]
                         /\ ofile' = [ofile EXCEPT ![p] = Taken(ofile[p], f)]
  BY DEF OpenDone
<1>2. /\ FreeSlots # {} /\ FreeFds(ofile[p]) # {} /\ iref' = [iref EXCEPT ![i] = @ + 1]
      /\ pipe' = pipe /\ making' = making /\ closing' = closing /\ putting' = putting
  BY DEF OpenDone
<1>3. v \in FileRec /\ v.ref = 1 /\ v.obj = i BY DEF FileRec
<1> HIDE DEF v
<1>4. /\ file[f] = NoFile
      /\ \A q \in Procs : \A k \in DOMAIN making[q] : making[q][k] # f
  BY <1>1, <1>2, FreshSlot
<1>5. PICK e \in Fds : /\ ofile[p][e] = 0 /\ Taken(ofile[p], f) = [ofile[p] EXCEPT ![e] = f]
                       /\ Taken(ofile[p], f) \in FdMap
  BY <1>0, <1>2, TakenIs
<1>6. file' \in [Slots -> FileRec] /\ \A h \in Slots : file'[h] = IF h = f THEN v ELSE file[h]
  BY <1>0, <1>1, <1>3
<1>7. Objects(pipe', iref', file', putting')
  <2>1. file[f].obj = None BY <1>4, RecTypes
  <2>2. Objects(pipe, [iref EXCEPT ![i] = @ + 1], [file EXCEPT ![f] = v], putting)
    BY <1>0, <1>3, <2>1, ObjOpen
  <2> QED BY <1>1, <1>2, <2>2
<1>8. iref' \in [Inodes -> Nat] BY <1>0, <1>2
<1>9. Blank' BY <1>0, <1>2, <1>3, <1>6 DEF Blank
<1>10. Makes'
  <2>1. \A q \in Procs : making[q] # <<>> => closing'[q] = NoFds BY <1>0, <1>2 DEF Makes
  <2> QED BY <1>2, <1>4, <1>6, <2>1, MakesKept
<1>11. Refs(file') = [Refs(file) EXCEPT ![f] = @ + 1]
  <2>1. file[f].ref = 0 BY <1>4, RecTypes
  <2>2. Refs(file)[f] + 1 = 1 BY <2>1 DEF Refs
  <2>3. \A h \in Slots : file'[h].ref = IF h = f THEN 1 ELSE file[h].ref BY <1>3, <1>6
  <2> QED BY <2>2, <2>3 DEF Refs
<1>12. Hold[O(p, e)] = 0 /\ O(p, e) \in Places
  <2>1. AtFds(Hold, ofile, closing) BY HoldFields DEF Hold
  <2> QED BY <1>5, <2>1, PlaceIs DEF AtFds
<1>13. Counted([Refs(file) EXCEPT ![f] = @ + 1], [Hold EXCEPT ![O(p, e)] = f])
  BY <1>0, <1>12, CountTake
<1>14. Hold' = [Hold EXCEPT ![O(p, e)] = f]
  <2>1. SetAt(ofile, ofile', p, e, f) BY <1>0, <1>1, <1>5 DEF SetAt, FdMap
  <2>2. HoldOf(ofile', closing, making) = [HoldOf(ofile, closing, making) EXCEPT ![O(p, e)] = f]
    BY <1>5, <2>1, SetOfile
  <2> QED BY <1>2, <2>2 DEF Hold
<1>15. Types' BY <1>0, <1>1, <1>2, <1>5, <1>6, <1>8 DEF Types
<1>16. Counted(Refs(file'), Hold') BY <1>11, <1>13, <1>14
<1> QED BY <1>7, <1>9, <1>10, <1>15, <1>16 DEF RefInv, Hold

LEMMA OpenNoFdStep ==
  ASSUME RefInv, NEW p \in Procs, OpenNoFd(p)
  PROVE  RefInv'
<1>0. /\ Types /\ closing[p] \in FdMap /\ closing \in [Procs -> FdMap]
      /\ Counted(Refs(file), Hold)
  BY DEF RefInv, Types, Hold
<1>1. PICK f \in Slots : /\ Filealloc(f) /\ file' = [file EXCEPT ![f].ref = 1]
                         /\ closing' = [closing EXCEPT ![p][0] = f]
  BY DEF OpenNoFd
<1>2. /\ FreeSlots # {} /\ making[p] = <<>> /\ closing[p] = NoFds
      /\ ofile' = ofile /\ pipe' = pipe /\ iref' = iref /\ making' = making /\ putting' = putting
  BY DEF OpenNoFd, Returned
<1>3. /\ file[f] = NoFile
      /\ \A q \in Procs : \A k \in DOMAIN making[q] : making[q][k] # f
  BY <1>1, <1>2, FreshSlot
<1>4. /\ file' \in [Slots -> FileRec] /\ Blank' /\ Objects(pipe', iref', file', putting')
      /\ Refs(file') = [Refs(file) EXCEPT ![f] = @ + 1]
      /\ \A h \in Slots : h # f => file'[h] = file[h]
  BY <1>1, <1>2, <1>3, AllocSide
<1>5. 0 \in Fds BY FilesConstants DEF Fds
<1>6. Hold[C(p, 0)] = 0 /\ C(p, 0) \in Places
  <2>1. AtFds(Hold, ofile, closing) BY HoldFields DEF Hold
  <2>2. closing[p][0] = 0 BY <1>2, <1>5 DEF NoFds
  <2> QED BY <1>5, <2>1, <2>2, PlaceIs DEF AtFds
<1>7. Counted([Refs(file) EXCEPT ![f] = @ + 1], [Hold EXCEPT ![C(p, 0)] = f])
  BY <1>0, <1>6, CountTake
<1>8. Hold' = [Hold EXCEPT ![C(p, 0)] = f]
  <2>1. SetAt(closing, closing', p, 0, f) BY <1>0, <1>1, <1>5 DEF SetAt, FdMap
  <2>2. HoldOf(ofile, closing', making) = [HoldOf(ofile, closing, making) EXCEPT ![C(p, 0)] = f]
    BY <1>5, <2>1, SetClosing
  <2> QED BY <1>2, <2>2 DEF Hold
<1>9. closing' \in [Procs -> FdMap]
  <2>1. [closing[p] EXCEPT ![0] = f] \in FdMap BY <1>0 DEF FdMap
  <2> QED BY <1>0, <1>1, <2>1
<1>10. Makes'
  <2>1. \A q \in Procs : making[q] # <<>> => closing'[q] = NoFds
    BY <1>0, <1>1, <1>2 DEF RefInv, Makes
  <2> QED BY <1>2, <1>3, <1>4, <2>1, MakesKept
<1>11. Types' BY <1>0, <1>2, <1>4, <1>9 DEF Types
<1>12. Counted(Refs(file'), Hold') BY <1>4, <1>7, <1>8
<1> QED BY <1>4, <1>10, <1>11, <1>12 DEF RefInv, Hold

(* pipealloc() takes a file: the first, or the second.                     *)
LEMMA PipeTakeStep ==
  ASSUME RefInv, NEW p \in Procs, NEW f \in Slots, FreeSlots # {}, Filealloc(f),
         file' = [file EXCEPT ![f].ref = 1], closing[p] = NoFds,
         ofile' = ofile, pipe' = pipe, iref' = iref, closing' = closing, putting' = putting,
         NEW s \in Making, making' = [making EXCEPT ![p] = s],
         \/ making[p] = <<>> /\ s = <<f>>
         \/ \E h \in Slots : making[p] = <<h>> /\ s = <<h, f>>
  PROVE  RefInv'
<1>0. /\ Types /\ making \in [Procs -> Making] /\ Counted(Refs(file), Hold) /\ Makes
  BY DEF RefInv, Types, Hold
<1>1. /\ file[f] = NoFile
      /\ \A q \in Procs : \A k \in DOMAIN making[q] : making[q][k] # f
  BY FreshSlot
<1>2. /\ file' \in [Slots -> FileRec] /\ Blank' /\ Objects(pipe', iref', file', putting')
      /\ Refs(file') = [Refs(file) EXCEPT ![f] = @ + 1]
      /\ \A h \in Slots : h # f => file'[h] = file[h]
      /\ file'[f] = TakenFile
  BY <1>1, AllocSide
<1>3. making'[p] = s /\ making' \in [Procs -> Making] /\ SetRow(making, making', p)
  BY <1>0 DEF SetRow
<1>4. \E k \in {1, 2} : /\ Hold[M(p, k)] = 0 /\ M(p, k) \in Places
                        /\ Hold' = [Hold EXCEPT ![M(p, k)] = f]
  <2>1. AtMade(Hold, making) BY HoldFields DEF Hold
  <2>2. /\ Hold[M(p, 1)] = MadeAt(making, p, 1) /\ Hold[M(p, 2)] = MadeAt(making, p, 2)
        /\ M(p, 1) \in Places /\ M(p, 2) \in Places /\ M(p, 1) # M(p, 2)
    <3>1. M(p, 1) # M(p, 2) BY DEF M
    <3> QED BY <2>1, <3>1, PlaceIs DEF AtMade
  <2>3. Hold' = [[Hold EXCEPT ![M(p, 1)] = MadeAt(making', p, 1)]
                   EXCEPT ![M(p, 2)] = MadeAt(making', p, 2)]
    <3>1. HoldOf(ofile, closing, making') =
            SetBoth(HoldOf(ofile, closing, making), M(p, 1), MadeAt(making', p, 1),
                    M(p, 2), MadeAt(making', p, 2))
      BY <1>3, SetMaking
    <3> QED BY <3>1 DEF Hold, SetBoth
  <2>4. Hold \in [Places -> Slots \cup {0}] BY <1>0 DEF Counted
  <2>5. CASE making[p] = <<>> /\ s = <<f>>
    <3>1. MadeAt(making, p, 1) = 0 /\ MadeAt(making, p, 2) = 0 BY <2>5, MadeIs
    <3>2. MadeAt(making', p, 1) = f /\ MadeAt(making', p, 2) = 0 BY <1>3, <2>5, MadeIs
    <3>3. Hold' = [Hold EXCEPT ![M(p, 1)] = f] BY <2>2, <2>3, <2>4, <3>1, <3>2
    <3> QED BY <2>2, <3>1, <3>3
  <2>6. CASE \E h \in Slots : making[p] = <<h>> /\ s = <<h, f>>
    <3>1. PICK h \in Slots : making[p] = <<h>> /\ s = <<h, f>> BY <2>6
    <3>2. MadeAt(making, p, 1) = h /\ MadeAt(making, p, 2) = 0 BY <3>1, MadeIs
    <3>3. MadeAt(making', p, 1) = h /\ MadeAt(making', p, 2) = f BY <1>3, <3>1, MadeIs
    <3>4. Hold' = [Hold EXCEPT ![M(p, 2)] = f] BY <2>2, <2>3, <2>4, <3>2, <3>3
    <3> QED BY <2>2, <3>2, <3>4
  <2> QED BY <2>5, <2>6
<1>5. Counted(Refs(file'), Hold')
  <2>1. PICK k \in {1, 2} : /\ Hold[M(p, k)] = 0 /\ M(p, k) \in Places
                            /\ Hold' = [Hold EXCEPT ![M(p, k)] = f]
    BY <1>4
  <2>2. Counted([Refs(file) EXCEPT ![f] = @ + 1], [Hold EXCEPT ![M(p, k)] = f])
    BY <1>0, <2>1, CountTake
  <2> QED BY <1>2, <2>1, <2>2
<1>6. Makes'
  <2>1. ASSUME NEW q \in Procs, NEW k \in DOMAIN making'[q]
        PROVE  file'[making'[q][k]] = TakenFile
    <3>1. CASE q = p
      <4>1. \/ making'[p][k] = f
            \/ k \in DOMAIN making[p] /\ making'[p][k] = making[p][k]
        BY <1>3, <2>1, <3>1
      <4>2. CASE making'[p][k] = f BY <1>2, <3>1, <4>2
      <4>3. CASE k \in DOMAIN making[p] /\ making'[p][k] = making[p][k]
        <5>1. making[p][k] \in Slots /\ making[p][k] # f BY <1>0, <1>1, <4>3, MadeHeld
        <5>2. file[making[p][k]] = TakenFile BY <1>0, <4>3 DEF Makes
        <5> QED BY <1>2, <3>1, <4>3, <5>1, <5>2
      <4> QED BY <4>1, <4>2, <4>3
    <3>2. CASE q # p
      <4>1. making'[q] = making[q] BY <1>3, <3>2 DEF SetRow
      <4>2. making[q][k] \in Slots /\ making[q][k] # f BY <1>0, <1>1, <2>1, <4>1, MadeHeld
      <4>3. file[making[q][k]] = TakenFile BY <1>0, <2>1, <4>1 DEF Makes
      <4> QED BY <1>2, <4>1, <4>2, <4>3
    <3> QED BY <3>1, <3>2
  <2>2. \A q \in Procs : making'[q] # <<>> => closing'[q] = NoFds
    BY <1>0, <1>3 DEF Makes, SetRow
  <2> QED BY <2>1, <2>2 DEF Makes
<1>7. Types' BY <1>0, <1>2, <1>3 DEF Types
<1> QED BY <1>2, <1>5, <1>6, <1>7 DEF RefInv, Hold

LEMMA PipeFirstStep ==
  ASSUME RefInv, NEW p \in Procs, PipeFirst(p)
  PROVE  RefInv'
<1>1. PICK f \in Slots : /\ Filealloc(f) /\ file' = [file EXCEPT ![f].ref = 1]
                         /\ making' = [making EXCEPT ![p] = <<f>>]
  BY DEF PipeFirst
<1>2. /\ FreeSlots # {} /\ making[p] = <<>> /\ closing[p] = NoFds
      /\ ofile' = ofile /\ pipe' = pipe /\ iref' = iref /\ closing' = closing /\ putting' = putting
  BY DEF PipeFirst, Returned
<1>3. <<f>> \in Making BY DEF Making
<1>4. PICK s \in Making : s = <<f>> BY <1>3
<1>5. making' = [making EXCEPT ![p] = s] BY <1>1, <1>4
<1> QED BY <1>1, <1>2, <1>4, <1>5, PipeTakeStep

LEMMA PipeSecondStep ==
  ASSUME RefInv, NEW p \in Procs, PipeSecond(p)
  PROVE  RefInv'
<1>1. PICK f \in Slots : /\ Filealloc(f) /\ file' = [file EXCEPT ![f].ref = 1]
                         /\ making' = [making EXCEPT ![p] = Append(making[p], f)]
  BY DEF PipeSecond
<1>2. /\ FreeSlots # {} /\ Len(making[p]) = 1
      /\ ofile' = ofile /\ pipe' = pipe /\ iref' = iref /\ closing' = closing /\ putting' = putting
  BY DEF PipeSecond
<1>3. PICK h \in Slots : making[p] = <<h>>
  <2>1. making[p] \in Making BY DEF RefInv, Types
  <2> QED BY <1>2, <2>1, MakingIs
<1>4. Append(<<h>>, f) = <<h, f>> /\ <<h, f>> \in Making /\ <<h>> # <<>>
  <2>1. Append(<<h>>, f) = <<h, f>>
    <3>1. <<h>> \in Seq(Slots) /\ Len(<<h>>) = 1 /\ <<h>>[1] = h OBVIOUS
    <3>2. <<h, f>> \in Seq(Slots) /\ Len(<<h, f>>) = 2 /\ <<h, f>>[1] = h /\ <<h, f>>[2] = f
      OBVIOUS
    <3>3. PICK u \in Seq(Slots) : u = <<h>> /\ Len(u) = 1 /\ u[1] = h BY <3>1
    <3>4. /\ Append(u, f) \in Seq(Slots) /\ Len(Append(u, f)) = 2
          /\ Append(u, f)[1] = h /\ Append(u, f)[2] = f
      BY <3>3
    <3>5. \A k \in 1..2 : Append(u, f)[k] = <<h, f>>[k] BY <3>2, <3>4
    <3>6. Append(u, f) = <<h, f>> BY <3>2, <3>4, <3>5, SeqEqual
    <3> QED BY <3>3, <3>6
  <2>2. <<h, f>> \in Making BY DEF Making
  <2>3. <<h>> # <<>>
    <3>1. Len(<<h>>) = 1 /\ Len(<<>>) = 0 OBVIOUS
    <3> QED BY <3>1
  <2> QED BY <2>1, <2>2, <2>3
<1>5. closing[p] = NoFds BY <1>3, <1>4 DEF RefInv, Makes
<1>6. PICK s \in Making : s = <<h, f>> BY <1>4
<1>7. making' = [making EXCEPT ![p] = s] BY <1>1, <1>3, <1>4, <1>6
<1>8. \E j \in Slots : making[p] = <<j>> /\ s = <<j, f>> BY <1>3, <1>6
<1>9. s \in Making BY <1>6
<1> QED BY <1>1, <1>2, <1>5, <1>7, <1>8, <1>9, PipeTakeStep
-----------------------------------------------------------------------------
(* The two files of a pipe in the making.                                  *)
LEMMA MadeApart ==
  ASSUME RefInv, NEW p \in Procs, NEW q \in Procs,
         NEW j \in DOMAIN making[p], NEW k \in DOMAIN making[q], making[p][j] = making[q][k]
  PROVE  p = q /\ j = k
<1>1. PICK f \in Slots : f = making[p][j] BY MadeHeld DEF RefInv
<1>2. M(p, j) \in Places /\ M(q, k) \in Places /\ Hold[M(p, j)] = f /\ Hold[M(q, k)] = f
  BY <1>1, MadeHeld DEF RefInv
<1>3. file[f].ref = 1 BY <1>1, RecTypes DEF RefInv, Makes
<1>4. Refs(file)[f] = 1 /\ Counted(Refs(file), Hold) BY <1>3 DEF Refs, RefInv, Hold
<1>5. M(p, j) = M(q, k) BY <1>2, <1>4, CountSole
<1> QED BY <1>5 DEF M

LEMMA PairIs ==
  ASSUME RefInv, NEW p \in Procs, Len(making[p]) = 2
  PROVE  \E f, h \in Slots :
           /\ making[p] = <<f, h>> /\ f # h /\ file[f] = TakenFile /\ file[h] = TakenFile
           /\ Hold[M(p, 1)] = f /\ Hold[M(p, 2)] = h /\ closing[p] = NoFds
<1>1. making[p] \in Making BY DEF RefInv, Types
<1>2. PICK f, h \in Slots : making[p] = <<f, h>> BY <1>1, MakingIs
<1>3. DOMAIN making[p] = {1, 2} /\ making[p][1] = f /\ making[p][2] = h /\ making[p] # <<>>
  <2>1. DOMAIN <<f, h>> = {1, 2} /\ <<f, h>>[1] = f /\ <<f, h>>[2] = h OBVIOUS
  <2>2. DOMAIN <<>> = {} OBVIOUS
  <2> QED BY <1>2, <2>1, <2>2
<1>4. f # h
  <2> SUFFICES ASSUME f = h PROVE FALSE OBVIOUS
  <2>1. 1 \in DOMAIN making[p] /\ 2 \in DOMAIN making[p] /\ making[p][1] = making[p][2]
    BY <1>3
  <2>2. 1 = 2 BY <2>1, MadeApart
  <2> QED BY <2>2
<1>5. file[f] = TakenFile /\ file[h] = TakenFile /\ closing[p] = NoFds BY <1>3 DEF RefInv, Makes
<1>6. Hold[M(p, 1)] = f /\ Hold[M(p, 2)] = h BY <1>3, MadeHeld DEF RefInv
<1> QED BY <1>2, <1>4, <1>5, <1>6

(* Both references of the making go to other places.                       *)
Moved(H, x1, x2, y1, y2, f, h) == SetBoth(SetBoth(H, y1, f, y2, h), x1, 0, x2, 0)

LEMMA CountMoved ==
  ASSUME NEW R, NEW H, Counted(R, H), NEW x1 \in Places, NEW x2 \in Places,
         NEW y1 \in Places, NEW y2 \in Places, NEW f \in Slots, NEW h \in Slots,
         H[x1] = f, H[x2] = h, H[y1] = 0, H[y2] = 0, x1 # x2, y1 # y2
  PROVE  Counted(R, Moved(H, x1, x2, y1, y2, f, h))
<1>0. 0 \notin Slots BY DEF Slots
<1>1. x1 # y1 /\ x1 # y2 /\ x2 # y1 /\ x2 # y2 BY <1>0
<1> DEFINE G == [[H EXCEPT ![x1] = 0] EXCEPT ![y1] = f]
           K == [[G EXCEPT ![x2] = 0] EXCEPT ![y2] = h]
<1>2. Counted(R, G) BY CountMove
<1>3. H \in [Places -> Slots \cup {0}] BY DEF Counted
<1>4. G[x2] = h /\ G[y2] = 0 BY <1>1, <1>3
<1> HIDE DEF G
<1>5. Counted(R, K) BY <1>2, <1>4, CountMove
<1>6. Moved(H, x1, x2, y1, y2, f, h) = K BY <1>1, <1>3 DEF Moved, SetBoth, G
<1> QED BY <1>5, <1>6

(* The pair of files is made a pipe: its ends are held once each.          *)
LEMMA MadeSide ==
  ASSUME RefInv, NEW p \in Procs, NEW o \in Pages, NEW f \in Slots, NEW h \in Slots,
         making[p] = <<f, h>>, f # h, file[f] = TakenFile, file[h] = TakenFile,
         PipeMade(p, o), iref' = iref, putting' = putting
  PROVE  /\ file' \in [Slots -> FileRec] /\ pipe' \in [Pages -> PipeRec]
         /\ Blank' /\ Objects(pipe', iref', file', putting') /\ Refs(file') = Refs(file)
         /\ \A e \in Slots : e # f /\ e # h => file'[e] = file[e]
<1>0. /\ file \in [Slots -> FileRec] /\ pipe \in [Pages -> PipeRec] /\ putting \in [Procs -> FileRec]
      /\ Blank /\ Objects(pipe, iref, file, putting)
  BY DEF RefInv, Types
<1>1. /\ ~pipe[o].live /\ pipe' = [pipe EXCEPT ![o] = NewPipe]
      /\ file' = [file EXCEPT ![f] = PipeEnd(o, FALSE), ![h] = PipeEnd(o, TRUE)]
  <2>1. making[p][1] = f /\ making[p][2] = h OBVIOUS
  <2> QED BY <2>1 DEF PipeMade, FreePages
<1>2. \A w \in BOOLEAN : PipeEnd(o, w) \in FileRec /\ PipeEnd(o, w).ref = 1
  BY DEF PipeEnd, FileRec
<1>3. \A e \in Slots : file'[e] = IF e = h THEN PipeEnd(o, TRUE)
                                  ELSE IF e = f THEN PipeEnd(o, FALSE) ELSE file[e]
  BY <1>0, <1>1
<1>4. file' \in [Slots -> FileRec] BY <1>0, <1>1, <1>2
<1>5. NewPipe \in PipeRec BY DEF NewPipe, PipeRec
<1>6. file[f].obj = None /\ file[h].obj = None /\ file[f].ref = 1 /\ file[h].ref = 1 BY RecTypes
<1>7. Objects([pipe EXCEPT ![o] = NewPipe], iref,
              [file EXCEPT ![f] = PipeEnd(o, FALSE), ![h] = PipeEnd(o, TRUE)], putting)
  BY <1>0, <1>1, <1>6, ObjPipe
<1>8. Objects(pipe', iref', file', putting') BY <1>1, <1>7
<1>9. Blank'
  <2>1. PipeEnd(o, TRUE).ref = 1 /\ PipeEnd(o, FALSE).ref = 1 BY <1>2
  <2>2. ASSUME NEW e \in Slots, file'[e].ref = 0 PROVE file'[e] = NoFile
    <3>0. file'[h] = PipeEnd(o, TRUE) /\ file'[f] = PipeEnd(o, FALSE) BY <1>3
    <3>3. file'[h].ref = 1 /\ file'[f].ref = 1 BY <2>1, <3>0, Zenon
    <3>1. e # f /\ e # h BY <2>2, <3>3
    <3>2. file'[e] = file[e] BY <1>3, <3>1
    <3> QED BY <1>0, <2>2, <3>2 DEF Blank
  <2>3. \A q \in Procs : putting'[q].obj = None => putting'[q] = NoFile BY <1>0 DEF Blank
  <2> QED BY <2>2, <2>3 DEF Blank
<1>10. Refs(file') = Refs(file)
  <2>1. \A e \in Slots : file'[e].ref = file[e].ref BY <1>2, <1>3, <1>6
  <2> QED BY <2>1 DEF Refs
<1> QED BY <1>0, <1>1, <1>3, <1>4, <1>5, <1>8, <1>9, <1>10

LEMMA MakesDone ==
  ASSUME RefInv, NEW p \in Procs, making' = [making EXCEPT ![p] = <<>>],
         \A q \in Procs : q # p => closing'[q] = closing[q],
         \A e \in Slots : (\A k \in DOMAIN making[p] : e # making[p][k]) => file'[e] = file[e]
  PROVE  Makes' /\ making' \in [Procs -> Making]
<1>0. making \in [Procs -> Making] BY DEF RefInv, Types
<1>1. \A q \in Procs : making'[q] = IF q = p THEN <<>> ELSE making[q] BY <1>0
<1>2. DOMAIN <<>> = {} OBVIOUS
<1>3. ASSUME NEW q \in Procs, NEW k \in DOMAIN making'[q]
      PROVE  file'[making'[q][k]] = TakenFile
  <2>1. q # p /\ making'[q] = making[q] BY <1>1, <1>2, <1>3
  <2>2. making[q][k] \in Slots /\ k \in DOMAIN making[q] BY <1>3, <2>1, MadeHeld DEF RefInv
  <2>3. \A j \in DOMAIN making[p] : making[q][k] # making[p][j] BY <2>1, <2>2, MadeApart
  <2>4. file[making[q][k]] = TakenFile BY <2>2 DEF RefInv, Makes
  <2> QED BY <2>1, <2>2, <2>3, <2>4
<1>4. \A q \in Procs : making'[q] # <<>> => closing'[q] = NoFds BY <1>1 DEF RefInv, Makes
<1>5. <<>> \in Making BY DEF Making
<1> QED BY <1>0, <1>3, <1>4, <1>5 DEF Makes

(* What the places hold when p makes nothing any more.                     *)
LEMMA HoldDone ==
  ASSUME RefInv, NEW p \in Procs, making' = [making EXCEPT ![p] = <<>>], NEW H,
         HoldOf(ofile', closing', making) = H
  PROVE  Hold' = SetBoth(H, M(p, 1), 0, M(p, 2), 0)
<1>1. making'[p] = <<>> /\ SetRow(making, making', p) BY DEF RefInv, Types, SetRow
<1>2. MadeAt(making', p, 1) = 0 /\ MadeAt(making', p, 2) = 0 BY <1>1, MadeIs
<1>3. HoldOf(ofile', closing', making') =
        SetBoth(HoldOf(ofile', closing', making), M(p, 1), MadeAt(making', p, 1),
                M(p, 2), MadeAt(making', p, 2))
  BY <1>1, SetMaking
<1> QED BY <1>2, <1>3 DEF Hold

LEMMA PipeDoneStep ==
  ASSUME RefInv, NEW p \in Procs, NEW o \in Pages, PipeDone(p, o)
  PROVE  RefInv'
<1>0. /\ Types /\ ofile[p] \in FdMap /\ ofile \in [Procs -> FdMap]
      /\ Counted(Refs(file), Hold)
  BY DEF RefInv, Types, Hold
<1>1. /\ Len(making[p]) = 2 /\ Cardinality(FreeFds(ofile[p])) >= 2 /\ PipeMade(p, o)
      /\ making' = [making EXCEPT ![p] = <<>>]
      /\ iref' = iref /\ closing' = closing /\ putting' = putting
  BY DEF PipeDone
<1>2. PICK f, h \in Slots :
        /\ making[p] = <<f, h>> /\ f # h /\ file[f] = TakenFile /\ file[h] = TakenFile
        /\ Hold[M(p, 1)] = f /\ Hold[M(p, 2)] = h /\ closing[p] = NoFds
  BY <1>1, PairIs
<1>3. making[p][1] = f /\ making[p][2] = h BY <1>2
<1>4. ofile' = [ofile EXCEPT ![p] = Taken(Taken(ofile[p], f), h)] BY <1>3 DEF PipeDone
<1>5. /\ file' \in [Slots -> FileRec] /\ pipe' \in [Pages -> PipeRec]
      /\ Blank' /\ Objects(pipe', iref', file', putting') /\ Refs(file') = Refs(file)
      /\ \A e \in Slots : e # f /\ e # h => file'[e] = file[e]
  BY <1>1, <1>2, MadeSide
<1>6. FreeFds(ofile[p]) # {}
  <2> SUFFICES ASSUME FreeFds(ofile[p]) = {} PROVE FALSE OBVIOUS
  <2>1. Cardinality({}) = 0 BY FS_EmptySet
  <2>2. Cardinality(FreeFds(ofile[p])) = 0 BY <2>1, Zenon
  <2> QED BY <1>1, <2>2
<1>7. PICK d \in Fds : /\ ofile[p][d] = 0 /\ Taken(ofile[p], f) = [ofile[p] EXCEPT ![d] = f]
                       /\ Taken(ofile[p], f) \in FdMap
  BY <1>0, <1>2, <1>6, TakenIs
<1> DEFINE fds == Taken(ofile[p], f)
<1>8. FreeFds(fds) # {}
  <2> SUFFICES ASSUME FreeFds(fds) = {} PROVE FALSE OBVIOUS
  <2>1. \A e \in Fds : e # d => fds[e] = ofile[p][e] BY <1>0, <1>7 DEF FdMap
  <2>2. FreeFds(ofile[p]) = {d} BY <1>7, <2>1 DEF FreeFds
  <2>3. Cardinality(FreeFds(ofile[p])) = 1 BY <2>2, FS_Singleton
  <2> QED BY <1>1, <2>3
<1>9. PICK e \in Fds : /\ fds[e] = 0 /\ Taken(fds, h) = [fds EXCEPT ![e] = h]
                       /\ Taken(fds, h) \in FdMap
  <2>1. fds \in FdMap BY <1>7
  <2> HIDE DEF fds
  <2> QED BY <1>2, <1>8, <2>1, TakenIs
<1>10. d # e /\ ofile[p][e] = 0
  <2>1. fds[d] = f /\ f # 0 BY <1>0, <1>2, <1>7 DEF FdMap, Slots
  <2>2. d # e BY <1>9, <2>1
  <2> QED BY <1>0, <1>7, <1>9, <2>2 DEF FdMap
<1> DEFINE a == [ofile EXCEPT ![p] = fds]
<1>11. SetAt(ofile, a, p, d, f) BY <1>0, <1>7 DEF SetAt, FdMap
<1>12. SetAt(a, ofile', p, e, h) BY <1>0, <1>4, <1>7, <1>9 DEF SetAt, FdMap
<1> HIDE DEF a, fds
<1>13. HoldOf(a, closing, making) = [HoldOf(ofile, closing, making) EXCEPT ![O(p, d)] = f]
  BY <1>7, <1>11, SetOfile
<1>14. HoldOf(ofile', closing, making) = [HoldOf(a, closing, making) EXCEPT ![O(p, e)] = h]
  BY <1>9, <1>12, SetOfile
<1>15. HoldOf(ofile', closing', making) = SetBoth(Hold, O(p, d), f, O(p, e), h)
  BY <1>1, <1>13, <1>14 DEF Hold, SetBoth
<1>16. Hold' = Moved(Hold, M(p, 1), M(p, 2), O(p, d), O(p, e), f, h)
  BY <1>1, <1>15, HoldDone DEF Moved
<1>17. Counted(Refs(file), Moved(Hold, M(p, 1), M(p, 2), O(p, d), O(p, e), f, h))
  <2>1. AtFds(Hold, ofile, closing) BY HoldFields DEF Hold
  <2>2. Hold[O(p, d)] = 0 /\ Hold[O(p, e)] = 0 BY <1>7, <1>9, <1>10, <2>1 DEF AtFds
  <2>3. /\ M(p, 1) \in Places /\ M(p, 2) \in Places /\ O(p, d) \in Places /\ O(p, e) \in Places
    BY <1>7, <1>9, PlaceIs
  <2>4. M(p, 1) # M(p, 2) /\ O(p, d) # O(p, e) BY <1>10 DEF M, O
  <2> QED BY <1>0, <1>2, <2>2, <2>3, <2>4, CountMoved
<1>18. Makes' /\ making' \in [Procs -> Making]
  <2>1. 1 \in DOMAIN making[p] /\ 2 \in DOMAIN making[p] BY <1>2
  <2>2. \A s \in Slots : (\A k \in DOMAIN making[p] : s # making[p][k]) => file'[s] = file[s]
    BY <1>3, <1>5, <2>1
  <2> QED BY <1>1, <2>2, MakesDone
<1>19. Types' BY <1>0, <1>1, <1>4, <1>5, <1>9, <1>18 DEF Types, fds
<1>20. Counted(Refs(file'), Hold') BY <1>5, <1>16, <1>17
<1> QED BY <1>5, <1>18, <1>19, <1>20 DEF RefInv, Hold

(* The files that pipe() has taken are to be closed.                       *)
LEMMA CloseBothStep ==
  ASSUME RefInv, NEW p \in Procs, Len(making[p]) = 2,
         closing' = [closing EXCEPT ![p] = CloseBoth(making[p])],
         making' = [making EXCEPT ![p] = <<>>], ofile' = ofile, iref' = iref, putting' = putting,
         \/ file' = file /\ pipe' = pipe
         \/ \E o \in Pages : PipeMade(p, o)
  PROVE  RefInv'
<1>0. /\ Types /\ closing \in [Procs -> FdMap] /\ Counted(Refs(file), Hold)
  BY DEF RefInv, Types, Hold
<1>2. PICK f, h \in Slots :
        /\ making[p] = <<f, h>> /\ f # h /\ file[f] = TakenFile /\ file[h] = TakenFile
        /\ Hold[M(p, 1)] = f /\ Hold[M(p, 2)] = h /\ closing[p] = NoFds
  BY PairIs
<1>3. making[p][1] = f /\ making[p][2] = h BY <1>2
<1>5. /\ file' \in [Slots -> FileRec] /\ pipe' \in [Pages -> PipeRec]
      /\ Blank' /\ Objects(pipe', iref', file', putting') /\ Refs(file') = Refs(file)
      /\ \A e \in Slots : e # f /\ e # h => file'[e] = file[e]
  <2>1. CASE \E o \in Pages : PipeMade(p, o) BY <1>2, <2>1, MadeSide
  <2>2. CASE file' = file /\ pipe' = pipe BY <2>2 DEF RefInv, Types, Blank
  <2> QED BY <2>1, <2>2
<1>6. 0 \in Fds /\ 1 \in Fds BY FilesConstants DEF Fds
<1> DEFINE a == [closing EXCEPT ![p] = [NoFds EXCEPT ![0] = f]]
<1>7. \A d \in Fds : /\ CloseBoth(making[p])[d] = IF d = 1 THEN h ELSE IF d = 0 THEN f ELSE 0
                     /\ [NoFds EXCEPT ![0] = f][d] = IF d = 0 THEN f ELSE 0
                     /\ closing[p][d] = 0
  BY <1>2, <1>3, <1>6 DEF CloseBoth, NoFds
<1>8. CloseBoth(making[p]) \in FdMap BY <1>3, <1>6, RecTypes DEF CloseBoth, FdMap
<1>9. \A q \in Procs : /\ closing'[q] = IF q = p THEN CloseBoth(making[p]) ELSE closing[q]
                       /\ a[q] = IF q = p THEN [NoFds EXCEPT ![0] = f] ELSE closing[q]
  BY <1>0
<1>11. SetAt(closing, a, p, 0, f) BY <1>7, <1>9 DEF SetAt
<1>12. SetAt(a, closing', p, 1, h) BY <1>7, <1>9 DEF SetAt
<1> HIDE DEF a
<1>13. HoldOf(ofile, a, making) = [HoldOf(ofile, closing, making) EXCEPT ![C(p, 0)] = f]
  BY <1>6, <1>11, SetClosing
<1>14. HoldOf(ofile, closing', making) = [HoldOf(ofile, a, making) EXCEPT ![C(p, 1)] = h]
  BY <1>6, <1>12, SetClosing
<1>15. HoldOf(ofile', closing', making) = SetBoth(Hold, C(p, 0), f, C(p, 1), h)
  BY <1>13, <1>14 DEF Hold, SetBoth
<1>16. Hold' = Moved(Hold, M(p, 1), M(p, 2), C(p, 0), C(p, 1), f, h)
  BY <1>15, HoldDone DEF Moved
<1>17. Counted(Refs(file), Moved(Hold, M(p, 1), M(p, 2), C(p, 0), C(p, 1), f, h))
  <2>1. AtFds(Hold, ofile, closing) BY HoldFields DEF Hold
  <2>2. Hold[C(p, 0)] = 0 /\ Hold[C(p, 1)] = 0 BY <1>6, <1>7, <2>1 DEF AtFds
  <2>3. /\ M(p, 1) \in Places /\ M(p, 2) \in Places /\ C(p, 0) \in Places /\ C(p, 1) \in Places
    BY <1>6, PlaceIs
  <2>4. M(p, 1) # M(p, 2) /\ C(p, 0) # C(p, 1) BY DEF M, C
  <2> QED BY <1>0, <1>2, <2>2, <2>3, <2>4, CountMoved
<1>18. Makes' /\ making' \in [Procs -> Making]
  <2>1. 1 \in DOMAIN making[p] /\ 2 \in DOMAIN making[p] BY <1>2
  <2>2. \A s \in Slots : (\A k \in DOMAIN making[p] : s # making[p][k]) => file'[s] = file[s]
    BY <1>3, <1>5, <2>1
  <2>3. \A q \in Procs : q # p => closing'[q] = closing[q] BY <1>9
  <2> QED BY <2>2, <2>3, MakesDone
<1>19. Types' BY <1>0, <1>5, <1>8, <1>18 DEF Types
<1>20. Counted(Refs(file'), Hold') BY <1>5, <1>16, <1>17
<1> QED BY <1>5, <1>18, <1>19, <1>20 DEF RefInv, Hold

LEMMA PipeNoFileStep ==
  ASSUME RefInv, NEW p \in Procs, PipeNoFile(p)
  PROVE  RefInv'
<1>0. /\ Types /\ closing \in [Procs -> FdMap] /\ making \in [Procs -> Making]
      /\ Counted(Refs(file), Hold)
  BY DEF RefInv, Types, Hold
<1>1. /\ making' = [making EXCEPT ![p] = <<>>] /\ file' = file /\ ofile' = ofile
      /\ pipe' = pipe /\ iref' = iref /\ putting' = putting
  BY DEF PipeNoFile
<1>2. CASE Returned(p) /\ closing' = closing
  <2>1. making' = making BY <1>0, <1>1, <1>2 DEF Returned
  <2>2. UNCHANGED filesVars BY <1>1, <1>2, <2>1 DEF filesVars
  <2> QED BY <2>2 DEF RefInv, Types, Makes, Blank, filesVars
<1>3. CASE Len(making[p]) = 1 /\ closing' = [closing EXCEPT ![p][0] = making[p][1]]
  <2>1. PICK f \in Slots : making[p] = <<f>> BY <1>0, <1>3, MakingIs
  <2>2. making[p][1] = f /\ 1 \in DOMAIN making[p] /\ making[p] # <<>>
    <3>1. <<f>>[1] = f /\ DOMAIN <<f>> = {1} /\ DOMAIN <<>> = {} OBVIOUS
    <3> QED BY <2>1, <3>1
  <2>3. closing[p] = NoFds BY <2>2 DEF RefInv, Makes
  <2>4. 0 \in Fds BY FilesConstants DEF Fds
  <2>5. SetAt(closing, closing', p, 0, f) BY <1>0, <1>3, <2>2, <2>4 DEF SetAt, FdMap
  <2>6. HoldOf(ofile, closing', making) = [HoldOf(ofile, closing, making) EXCEPT ![C(p, 0)] = f]
    BY <2>4, <2>5, SetClosing
  <2>7. HoldOf(ofile', closing', making) = [Hold EXCEPT ![C(p, 0)] = f] BY <1>1, <2>6 DEF Hold
  <2>8. Hold' = SetBoth([Hold EXCEPT ![C(p, 0)] = f], M(p, 1), 0, M(p, 2), 0)
    BY <1>1, <2>7, HoldDone
  <2>9. /\ Hold[M(p, 1)] = f /\ Hold[M(p, 2)] = 0 /\ Hold[C(p, 0)] = 0
        /\ Hold \in [Places -> Slots \cup {0}]
    <3>1. AtFds(Hold, ofile, closing) /\ AtMade(Hold, making) BY HoldFields DEF Hold
    <3>2. MadeAt(making, p, 1) = f /\ MadeAt(making, p, 2) = 0 BY <2>1, MadeIs
    <3>3. closing[p][0] = 0 BY <2>3, <2>4 DEF NoFds
    <3> QED BY <1>0, <2>4, <3>1, <3>2, <3>3 DEF AtFds, AtMade, Counted
  <2>10. /\ M(p, 1) \in Places /\ M(p, 2) \in Places /\ C(p, 0) \in Places
         /\ M(p, 1) # M(p, 2) /\ M(p, 1) # C(p, 0) /\ M(p, 2) # C(p, 0)
    <3>1. M(p, 1) # M(p, 2) /\ M(p, 1) # C(p, 0) /\ M(p, 2) # C(p, 0) BY DEF M, C
    <3> QED BY <2>4, <3>1, PlaceIs
  <2>11. Hold' = [[Hold EXCEPT ![M(p, 1)] = 0] EXCEPT ![C(p, 0)] = f]
    BY <2>8, <2>9, <2>10 DEF SetBoth
  <2>12. Counted(Refs(file), [[Hold EXCEPT ![M(p, 1)] = 0] EXCEPT ![C(p, 0)] = f])
    BY <1>0, <2>9, <2>10, CountMove
  <2>13. closing' \in [Procs -> FdMap]
    <3>1. [closing[p] EXCEPT ![0] = f] \in FdMap BY <1>0 DEF FdMap
    <3> QED BY <1>0, <1>3, <2>2, <3>1
  <2>14. Makes' /\ making' \in [Procs -> Making]
    <3>1. \A q \in Procs : q # p => closing'[q] = closing[q] BY <1>0, <1>3
    <3> QED BY <1>1, <3>1, MakesDone
  <2>15. Types' BY <1>0, <1>1, <2>13, <2>14 DEF Types
  <2>16. Counted(Refs(file'), Hold') BY <1>1, <2>11, <2>12
  <2>17. Blank' /\ Objects(pipe', iref', file', putting') BY <1>1 DEF RefInv, Blank
  <2> QED BY <2>14, <2>15, <2>16, <2>17 DEF RefInv, Hold
<1> QED BY <1>2, <1>3 DEF PipeNoFile
-----------------------------------------------------------------------------
(* Every call preserves the counts.                                        *)
LEMMA StutterStep ==
  ASSUME RefInv, UNCHANGED filesVars
  PROVE  RefInv'
BY DEF RefInv, Types, Makes, Blank, filesVars

LEMMA CallStep ==
  ASSUME RefInv, NEW p \in Procs, FilesCall(p)
  PROVE  RefInv'
<1>1. CASE Fileclose(p) BY <1>1, FilecloseStep
<1>2. CASE Put(p) BY <1>2, PutStep
<1>3. CASE CloseAll(p) BY <1>3, CloseAllStep
<1>4. CASE \E d \in Fds : Close(p, d) BY <1>4, CloseStep
<1>5. CASE \E d \in Fds : Dup(p, d) BY <1>5, DupStep
<1>6. CASE \E d \in Fds : ReadPipe(p, d) \/ WritePipe(p, d) BY <1>6, PipeBytesStep
<1>7. CASE \E q \in Procs \ {p} : Returned(q) /\ ofile[q] = NoFds /\ Inherit(p, q)
  BY <1>7, InheritStep
<1>8. CASE \E i \in Inodes, r, w \in BOOLEAN : OpenDone(p, i, r, w) BY <1>8, OpenDoneStep
<1>9. CASE OpenNoInode(p) \/ OpenNoFile(p) BY <1>9, StutterStep DEF OpenNoInode, OpenNoFile
<1>10. CASE OpenNoFd(p) BY <1>10, OpenNoFdStep
<1>11. CASE PipeFirst(p) BY <1>11, PipeFirstStep
<1>12. CASE PipeSecond(p) BY <1>12, PipeSecondStep
<1>13. CASE PipeNoFile(p) BY <1>13, PipeNoFileStep
<1>14. CASE PipeNoPage(p) BY <1>14, CloseBothStep DEF PipeNoPage
<1>15. CASE \E o \in Pages : PipeDone(p, o) BY <1>15, PipeDoneStep
<1>16. CASE \E o \in Pages : PipeNoFd(p, o) BY <1>16, CloseBothStep DEF PipeNoFd
<1> QED
  BY <1>1, <1>2, <1>3, <1>4, <1>5, <1>6, <1>7, <1>8, <1>9, <1>10, <1>11, <1>12, <1>13, <1>14,
     <1>15, <1>16 DEF FilesCall

(* Nothing is held when nothing was called yet.                            *)
LEMMA CountNone ==
  ASSUME NEW P, NEW H, NEW v, \A x \in P : H[x] # v
  PROVE  Count(H, P, v) = 0
<1>1. {x \in P : H[x] = v} = {} OBVIOUS
<1>2. Cardinality({}) = 0 BY FS_EmptySet
<1>3. Cardinality({x \in P : H[x] = v}) = 0 BY <1>1, <1>2, Zenon
<1> QED BY <1>3 DEF Count

LEMMA InitCounts ==
  ASSUME FilesInit
  PROVE  RefInv
<1>1. /\ \A f \in Slots : file[f] = NoFile
      /\ \A p \in Procs : ofile[p] = NoFds /\ closing[p] = NoFds /\ making[p] = <<>> /\ putting[p] = NoFile
      /\ \A o \in Pages : pipe[o] = NoPage
      /\ \A i \in Inodes : iref[i] = 0
  BY DEF FilesInit
<1>2. NoFile \in FileRec /\ NoPage \in PipeRec /\ NoFds \in FdMap /\ <<>> \in Making
  BY DEF NoFile, FileRec, NoPage, PipeRec, NoFds, FdMap, Making
<1>3. NoFile.ref = 0 /\ NoFile.obj = None BY DEF NoFile
<1>4. Types BY <1>2 DEF FilesInit, Types
<1>5. Makes
  <2>1. DOMAIN <<>> = {} OBVIOUS
  <2> QED BY <1>1, <2>1 DEF Makes
<1>6. Blank BY <1>1 DEF Blank
<1>7. Counted(Refs(file), Hold)
  <2>1. Hold \in [Places -> Slots \cup {0}] BY <1>4, HoldType DEF Hold, Types
  <2>2. AtFds(Hold, ofile, closing) /\ AtMade(Hold, making) BY HoldFields DEF Hold
  <2>3. \A p \in Procs : \A d \in Fds : Hold[O(p, d)] = 0 /\ Hold[C(p, d)] = 0
    BY <1>1, <2>2 DEF AtFds, NoFds
  <2>4. \A p \in Procs : Hold[M(p, 1)] = 0 /\ Hold[M(p, 2)] = 0
    BY <1>1, <2>2, MadeIs DEF AtMade
  <2>5. \A x \in Places : Hold[x] = 0
    <3> TAKE x \in Places
    <3>1. CASE \E p \in Procs : \E d \in Fds : x = O(p, d) \/ x = C(p, d) BY <2>3, <3>1
    <3>2. CASE \E p \in Procs : x = M(p, 1) \/ x = M(p, 2) BY <2>4, <3>2
    <3> QED BY <3>1, <3>2, PlaceIs
  <2>6. ASSUME NEW f \in Slots PROVE Refs(file)[f] = Count(Hold, Places, f)
    <3>1. f # 0 BY DEF Slots
    <3>2. Count(Hold, Places, f) = 0 BY <2>5, <3>1, CountNone
    <3> QED BY <1>1, <1>3, <3>2 DEF Refs
  <2>7. Refs(file) \in [Slots -> Nat] BY <1>1, <1>3 DEF Refs
  <2> QED BY <2>1, <2>6, <2>7 DEF Counted
<1>8. EndsOpen(pipe, StandOf(file, putting))
  <2>2. \A x \in Stands : StandOf(file, putting)[x] = EndOf(NoFile)
    BY <1>1 DEF Stands, StandOf
  <2>3. \A x \in Stands : StandOf(file, putting)[x] = <<None, FALSE>>
    BY <2>2 DEF EndOf, NoFile
  <2> DEFINE S == StandOf(file, putting)
  <2> HIDE DEF S
  <2>4. \A x \in Stands : S[x] = <<None, FALSE>> BY <2>3 DEF S
  <2>5. \A o \in Pages : ~pipe[o].readopen /\ ~pipe[o].writeopen /\ ~pipe[o].live
    BY <1>1 DEF NoPage
  <2>6. \A x \in Stands : S[x][1] \notin Pages
    <3> TAKE x \in Stands
    <3>1. <<None, FALSE>>[1] = None OBVIOUS
    <3>2. S[x][1] = None BY <2>4, <3>1, Zenon
    <3> QED BY <3>2, ObjKinds
  <2>7. ASSUME NEW o \in Pages, NEW w \in BOOLEAN, NEW x \in Stands PROVE S[x] # <<o, w>>
    <3>1. <<o, w>>[1] = o OBVIOUS
    <3>2. S[x][1] # o BY <2>6
    <3> QED BY <3>1, <3>2
  <2>8. EndsOpen(pipe, S) BY <2>5, <2>6, <2>7 DEF EndsOpen
  <2> QED BY <2>8 DEF S
<1>9. InodesCounted(iref, ObjOf(file), PutOf(putting))
  <2>1. ASSUME NEW i \in Inodes PROVE iref[i] = InodeCount(ObjOf(file), PutOf(putting), i)
    <3>1. i # None BY ObjKinds
    <3>2. \A f \in Slots : ObjOf(file)[f] # i BY <1>1, <1>3, <3>1 DEF ObjOf
    <3>3. \A p \in Procs : PutOf(putting)[p] # i BY <1>1, <1>3, <3>1 DEF PutOf
    <3>4. Count(ObjOf(file), Slots, i) = 0 BY <3>2, CountNone
    <3>5. Count(PutOf(putting), Procs, i) = 0 BY <3>3, CountNone
    <3> QED BY <1>1, <3>4, <3>5 DEF InodeCount
  <2> QED BY <2>1 DEF InodesCounted
<1> QED BY <1>4, <1>5, <1>6, <1>7, <1>8, <1>9 DEF RefInv, Hold, Objects

(* The invariant says what the property says.                              *)
LEMMA EndHeldIs ==
  ASSUME NEW o \in Pages, NEW w \in BOOLEAN
  PROVE  EndHeld(o, w) <=> \E x \in Stands : StandOf(file, putting)[x] = <<o, w>>
<1> DEFINE S == StandOf(file, putting)
<1>1. \A f \in Slots : <<"file", f>> \in Stands /\ S[<<"file", f>>] = EndOf(file[f])
  BY DEF Stands, StandOf
<1>2. \A p \in Procs : <<"putting", p>> \in Stands /\ S[<<"putting", p>>] = EndOf(putting[p])
  BY DEF Stands, StandOf
<1>3. \A x \in Stands : \/ \E f \in Slots : x = <<"file", f>>
                        \/ \E p \in Procs : x = <<"putting", p>>
  BY DEF Stands
<1>4. \A g : EndOf(g) = <<o, w>> <=> g.obj = o /\ g.writable = w BY DEF EndOf
<1> HIDE DEF S
<1>5. ASSUME EndHeld(o, w) PROVE \E x \in Stands : S[x] = <<o, w>>
  BY <1>1, <1>2, <1>4, <1>5, Zenon DEF EndHeld
<1>6. ASSUME NEW x \in Stands, S[x] = <<o, w>> PROVE EndHeld(o, w)
  <2>1. CASE \E f \in Slots : x = <<"file", f>>
    <3>1. PICK f \in Slots : x = <<"file", f>> BY <2>1
    <3>2. EndOf(file[f]) = <<o, w>> BY <1>1, <1>6, <3>1
    <3> QED BY <1>4, <3>2, Zenon DEF EndHeld
  <2>2. CASE \E p \in Procs : x = <<"putting", p>>
    <3>1. PICK p \in Procs : x = <<"putting", p>> BY <2>2
    <3>2. EndOf(putting[p]) = <<o, w>> BY <1>2, <1>6, <3>1
    <3> QED BY <1>4, <3>2, Zenon DEF EndHeld
  <2> QED BY <1>3, <2>1, <2>2
<1> QED BY <1>5, <1>6 DEF S

LEMMA HoldersIs ==
  ASSUME NEW f
  PROVE  Cardinality(Holders(f)) = Count(Hold, Places, f)
<1>1. \A x \in Places : Hold[x] = Held(x) BY DEF Hold, HoldOf, HeldBy, Held
<1>2. Holders(f) = {x \in Places : Hold[x] = f} BY <1>1 DEF Holders
<1> QED BY <1>2, Zenon DEF Count

LEMMA RefsRight ==
  ASSUME RefInv
  PROVE  FileRefs
<1>1. \A f \in Slots : file[f].ref = Cardinality(Holders(f))
  <2> TAKE f \in Slots
  <2>1. Refs(file)[f] = Count(Hold, Places, f) BY DEF RefInv, Counted, Hold
  <2> QED BY <2>1, HoldersIs DEF Refs
<1>2. \A f \in Slots : file[f].ref = 0 => file[f] = NoFile BY DEF RefInv, Blank
<1>3. ASSUME NEW o \in Pages
      PROVE  /\ pipe[o].readopen <=> EndHeld(o, FALSE)
             /\ pipe[o].writeopen <=> EndHeld(o, TRUE)
             /\ pipe[o].live <=> pipe[o].readopen \/ pipe[o].writeopen
  <2>1. /\ pipe[o].readopen <=> \E x \in Stands : StandOf(file, putting)[x] = <<o, FALSE>>
        /\ pipe[o].writeopen <=> \E x \in Stands : StandOf(file, putting)[x] = <<o, TRUE>>
        /\ pipe[o].live <=> pipe[o].readopen \/ pipe[o].writeopen
    BY DEF RefInv, Objects, EndsOpen
  <2>2. EndHeld(o, FALSE) <=> \E x \in Stands : StandOf(file, putting)[x] = <<o, FALSE>>
    BY EndHeldIs
  <2>3. EndHeld(o, TRUE) <=> \E x \in Stands : StandOf(file, putting)[x] = <<o, TRUE>>
    BY EndHeldIs
  <2> QED BY <2>1, <2>2, <2>3
<1>4. \A i \in Inodes : iref[i] = InodeHeld(i)
  BY InodeHeldIs DEF RefInv, Objects, InodesCounted
<1> QED BY <1>1, <1>2, <1>3, <1>4 DEF FileRefs

(* The counts of references to files, to the ends of pipes and to inodes   *)
(* (filedup(), fileclose(), pipealloc(), pipeclose(), sys_open() and       *)
(* sys_pipe() with all their failures) are right between any two steps of  *)
(* any processes that call them in any order.                              *)
THEOREM FilesRefs == FilesSpec => []FileRefs
<1>1. FilesInit => RefInv BY InitCounts
<1>2. RefInv /\ [\E p \in Procs : FilesCall(p)]_filesVars => RefInv'
  BY CallStep, StutterStep
<1>3. RefInv => FileRefs BY RefsRight
<1> QED BY <1>1, <1>2, <1>3, PTL DEF FilesSpec
-----------------------------------------------------------------------------
(* Inodes.  What a process refers to besides its directory and its file:   *)
(* the inode it puts, and the locals of the call it resumes then.          *)
IputAt == {"iput", "itrunc", "freed", "unref"}
CurAt == {"namex", "walk"}
DpAt == {"parent", "create", "link", "unlink", "linkunlock", "unlink2", "unlinkbad", "create2"}
IpAt == {"found", "linknew", "linkbad", "link", "linkunlock", "putip", "unlink2", "unlinked",
         "exists", "create2", "created"}
MayIp == {"namex", "walk", "parent"}
Labels == {"idle", "end"} \cup IputAt \cup CurAt \cup DpAt \cup IpAt \cup MayIp
Ops == Creating \cup {"open", "openw", "chdir", "link", "unlink", "none"}

Resumes(l) == IF l.pc \in IputAt THEN l.ret ELSE l.pc
HasPut(l) == IF l.pc \in IputAt THEN l.put ELSE 0
HasCur(l) == IF Resumes(l) \in CurAt THEN l.cur ELSE 0
HasDp(l) == IF Resumes(l) \in DpAt THEN l.dp ELSE 0
HasIp(l) == IF Resumes(l) \in IpAt \cup MayIp THEN l.ip ELSE 0

LocRec == [pc : Labels, op : Ops, path : Seq(DirNames), new : Paths, parent : BOOLEAN,
           cur : 0..NINODES, dp : 0..NINODES, ip : 0..NINODES, name : DirNames,
           put : 0..NINODES, ret : Labels]

(* What a process refers to is an inode; link() has its old one while it   *)
(* looks for the new name.                                                 *)
LocOK(l) ==
  /\ l.ret \notin IputAt /\ l.ret # "walk"
  /\ l.pc \in IputAt => l.put # 0
  /\ Resumes(l) \in CurAt => l.cur # 0
  /\ Resumes(l) \in DpAt => l.dp # 0
  /\ Resumes(l) \in IpAt => l.ip # 0
  /\ Resumes(l) \in MayIp => (l.ip # 0 <=> l.op = "link" /\ l.parent)
  /\ Resumes(l) = "linknew" => l.op = "link"
  /\ Resumes(l) = "parent" => l.parent
  /\ l.parent => l.op \in Creating \cup {"unlink", "link"}
  /\ l.pc = "walk" => l.path # <<>>

Puts(L) == [p \in Procs |-> HasPut(L[p])]
Curs(L) == [p \in Procs |-> HasCur(L[p])]
Dps(L) == [p \in Procs |-> HasDp(L[p])]
Ips(L) == [p \in Procs |-> HasIp(L[p])]
RefSum(c, f, L, i) == Count(c, Procs, i) + Count(f, Procs, i) + Count(Puts(L), Procs, i)
                      + Count(Curs(L), Procs, i) + Count(Dps(L), Procs, i) + Count(Ips(L), Procs, i)

DirEnts == [Inums -> [DirNames -> 0..NINODES]]
InoTypes ==
  /\ ents \in DirEnts /\ ref \in [Inums -> Nat]
  /\ cwd \in [Procs -> Inums] /\ fip \in [Procs -> 0..NINODES]
  /\ loc \in [Procs -> LocRec]

InoInv ==
  /\ InoTypes
  /\ \A p \in Procs : LocOK(loc[p])
  /\ \A i \in Inums : ref[i] = RefSum(cwd, fip, loc, i)

(* One process's part of the sum.                                          *)
One(b) == IF b THEN 1 ELSE 0
Row(c, f, l, i) == One(c = i) + One(f = i) + One(HasPut(l) = i) + One(HasCur(l) = i)
                   + One(HasDp(l) = i) + One(HasIp(l) = i)

LEMMA CountOne ==
  ASSUME NEW P, IsFiniteSet(P), NEW H, NEW G, NEW x \in P, NEW v, SameBut(H, G, P, x)
  PROVE  /\ Count(G, P, v) \in Nat /\ Count(H, P, v) \in Nat
         /\ Count(G, P, v) = Count(H, P, v) + One(G[x] = v) - One(H[x] = v)
<1>1. Count(G, P, v) \in Nat /\ Count(H, P, v) \in Nat BY CountIsNat
<1>2. /\ (H[x] = v <=> G[x] = v) => Count(G, P, v) = Count(H, P, v)
      /\ H[x] # v /\ G[x] = v => Count(G, P, v) = Count(H, P, v) + 1
      /\ H[x] = v /\ G[x] # v => Count(G, P, v) = Count(H, P, v) - 1
  BY CountChange
<1> QED BY <1>1, <1>2 DEF One

LEMMA OneIsInt == \A b \in BOOLEAN : One(b) \in 0..1
BY DEF One

LEMMA RowIsInt == \A c, f, l, i : Row(c, f, l, i) \in Nat
BY DEF Row, One

LEMMA RowStep ==
  ASSUME NEW p \in Procs, NEW c \in [Procs -> Inums], NEW f \in [Procs -> 0..NINODES],
         NEW L \in [Procs -> LocRec], NEW a \in Inums, NEW b \in 0..NINODES, NEW m \in LocRec,
         NEW i
  PROVE  /\ RefSum([c EXCEPT ![p] = a], [f EXCEPT ![p] = b], [L EXCEPT ![p] = m], i)
              = RefSum(c, f, L, i) + Row(a, b, m, i) - Row(c[p], f[p], L[p], i)
         /\ RefSum([c EXCEPT ![p] = a], [f EXCEPT ![p] = b], [L EXCEPT ![p] = m], i) \in Nat
<1> DEFINE c2 == [c EXCEPT ![p] = a]
           f2 == [f EXCEPT ![p] = b]
           L2 == [L EXCEPT ![p] = m]
<1>0. IsFiniteSet(Procs) BY ProcsFinite
<1>1. /\ SameBut(c, c2, Procs, p) /\ c2[p] = a
      /\ SameBut(f, f2, Procs, p) /\ f2[p] = b
      /\ SameBut(L, L2, Procs, p) /\ L2[p] = m
  BY DEF SameBut
<1> HIDE DEF c2, f2, L2
<1>2. /\ SameBut(Puts(L), Puts(L2), Procs, p) /\ Puts(L)[p] = HasPut(L[p]) /\ Puts(L2)[p] = HasPut(m)
      /\ SameBut(Curs(L), Curs(L2), Procs, p) /\ Curs(L)[p] = HasCur(L[p]) /\ Curs(L2)[p] = HasCur(m)
      /\ SameBut(Dps(L), Dps(L2), Procs, p) /\ Dps(L)[p] = HasDp(L[p]) /\ Dps(L2)[p] = HasDp(m)
      /\ SameBut(Ips(L), Ips(L2), Procs, p) /\ Ips(L)[p] = HasIp(L[p]) /\ Ips(L2)[p] = HasIp(m)
  BY <1>1 DEF SameBut, Puts, Curs, Dps, Ips
<1>3. /\ Count(c2, Procs, i) \in Nat /\ Count(c, Procs, i) \in Nat
      /\ Count(c2, Procs, i) = Count(c, Procs, i) + One(a = i) - One(c[p] = i)
  BY <1>0, <1>1, CountOne
<1>4. /\ Count(f2, Procs, i) \in Nat /\ Count(f, Procs, i) \in Nat
      /\ Count(f2, Procs, i) = Count(f, Procs, i) + One(b = i) - One(f[p] = i)
  BY <1>0, <1>1, CountOne
<1>5. /\ Count(Puts(L2), Procs, i) \in Nat /\ Count(Puts(L), Procs, i) \in Nat
      /\ Count(Puts(L2), Procs, i) = Count(Puts(L), Procs, i)
                                     + One(HasPut(m) = i) - One(HasPut(L[p]) = i)
  BY <1>0, <1>2, CountOne
<1>6. /\ Count(Curs(L2), Procs, i) \in Nat /\ Count(Curs(L), Procs, i) \in Nat
      /\ Count(Curs(L2), Procs, i) = Count(Curs(L), Procs, i)
                                     + One(HasCur(m) = i) - One(HasCur(L[p]) = i)
  BY <1>0, <1>2, CountOne
<1>7. /\ Count(Dps(L2), Procs, i) \in Nat /\ Count(Dps(L), Procs, i) \in Nat
      /\ Count(Dps(L2), Procs, i) = Count(Dps(L), Procs, i)
                                    + One(HasDp(m) = i) - One(HasDp(L[p]) = i)
  BY <1>0, <1>2, CountOne
<1>8. /\ Count(Ips(L2), Procs, i) \in Nat /\ Count(Ips(L), Procs, i) \in Nat
      /\ Count(Ips(L2), Procs, i) = Count(Ips(L), Procs, i)
                                    + One(HasIp(m) = i) - One(HasIp(L[p]) = i)
  BY <1>0, <1>2, CountOne
<1>9. /\ One(a = i) \in Nat /\ One(c[p] = i) \in Nat /\ One(b = i) \in Nat /\ One(f[p] = i) \in Nat
      /\ One(HasPut(m) = i) \in Nat /\ One(HasPut(L[p]) = i) \in Nat
      /\ One(HasCur(m) = i) \in Nat /\ One(HasCur(L[p]) = i) \in Nat
      /\ One(HasDp(m) = i) \in Nat /\ One(HasDp(L[p]) = i) \in Nat
      /\ One(HasIp(m) = i) \in Nat /\ One(HasIp(L[p]) = i) \in Nat
  BY DEF One
<1>10. RefSum(c2, f2, L2, i) = RefSum(c, f, L, i) + Row(a, b, m, i) - Row(c[p], f[p], L[p], i)
  BY <1>3, <1>4, <1>5, <1>6, <1>7, <1>8, <1>9 DEF RefSum, Row
<1>11. RefSum(c2, f2, L2, i) \in Nat BY <1>3, <1>4, <1>5, <1>6, <1>7, <1>8 DEF RefSum
<1> QED BY <1>10, <1>11 DEF c2, f2, L2

(* A step of p after which it has the directory a, the file b and the      *)
(* locals m.                                                               *)
Becomes(p, a, b, m) ==
  /\ a \in Inums /\ b \in 0..NINODES /\ m \in LocRec /\ LocOK(m)
  /\ cwd' = [cwd EXCEPT ![p] = a] /\ fip' = [fip EXCEPT ![p] = b] /\ loc' = [loc EXCEPT ![p] = m]
RefChange(p, a, b, m) ==
  /\ ref' = [i \in Inums |-> ref'[i]]
  /\ \A i \in Inums : ref'[i] = ref[i] + Row(a, b, m, i) - Row(cwd[p], fip[p], loc[p], i)

LEMMA InoStep ==
  ASSUME InoInv, NEW p \in Procs, NEW a, NEW b, NEW m, Becomes(p, a, b, m),
         RefChange(p, a, b, m), ents' \in DirEnts
  PROVE  InoInv'
<1>1. /\ InoTypes /\ a \in Inums /\ b \in 0..NINODES /\ m \in LocRec /\ LocOK(m)
      /\ cwd' = [cwd EXCEPT ![p] = a] /\ fip' = [fip EXCEPT ![p] = b] /\ loc' = [loc EXCEPT ![p] = m]
  BY DEF InoInv, Becomes
<1>2. ASSUME NEW i \in Inums PROVE ref'[i] = RefSum(cwd', fip', loc', i) /\ ref'[i] \in Nat
  <2>1. /\ RefSum(cwd', fip', loc', i)
              = RefSum(cwd, fip, loc, i) + Row(a, b, m, i) - Row(cwd[p], fip[p], loc[p], i)
        /\ RefSum(cwd', fip', loc', i) \in Nat
    <3>1. /\ cwd \in [Procs -> Inums] /\ fip \in [Procs -> 0..NINODES] /\ loc \in [Procs -> LocRec]
      BY <1>1 DEF InoTypes
    <3>2. /\ RefSum([cwd EXCEPT ![p] = a], [fip EXCEPT ![p] = b], [loc EXCEPT ![p] = m], i)
               = RefSum(cwd, fip, loc, i) + Row(a, b, m, i) - Row(cwd[p], fip[p], loc[p], i)
          /\ RefSum([cwd EXCEPT ![p] = a], [fip EXCEPT ![p] = b], [loc EXCEPT ![p] = m], i) \in Nat
      BY <1>1, <3>1, RowStep
    <3> QED BY <1>1, <3>2
  <2>2. ref'[i] = ref[i] + Row(a, b, m, i) - Row(cwd[p], fip[p], loc[p], i) BY DEF RefChange
  <2>3. ref[i] = RefSum(cwd, fip, loc, i) BY DEF InoInv
  <2> QED BY <2>1, <2>2, <2>3
<1>3. ref' \in [Inums -> Nat] BY <1>2 DEF RefChange
<1>4. InoTypes' BY <1>1, <1>3 DEF InoTypes
<1>5. \A q \in Procs : LocOK(loc'[q]) BY <1>1 DEF InoInv, InoTypes
<1> QED BY <1>2, <1>4, <1>5 DEF InoInv
-----------------------------------------------------------------------------
(* A process goes to another place, or to iput() and from there to one.    *)
GoLoc(l, s) == [l EXCEPT !.pc = s]
PutLoc(l, i, r) == [l EXCEPT !.put = i, !.ret = r, !.pc = "iput"]

SameLocals(l, m) ==
  /\ m.op = l.op /\ m.path = l.path /\ m.new = l.new /\ m.parent = l.parent
  /\ m.cur = l.cur /\ m.dp = l.dp /\ m.ip = l.ip /\ m.name = l.name

LEMMA GoFields ==
  ASSUME NEW l \in LocRec, NEW s \in Labels
  PROVE  /\ GoLoc(l, s) \in LocRec /\ SameLocals(l, GoLoc(l, s))
         /\ GoLoc(l, s).pc = s /\ GoLoc(l, s).put = l.put /\ GoLoc(l, s).ret = l.ret
BY DEF GoLoc, LocRec, SameLocals

LEMMA IputFields ==
  ASSUME NEW l \in LocRec, NEW i \in 0..NINODES, NEW r \in Labels
  PROVE  /\ PutLoc(l, i, r) \in LocRec /\ SameLocals(l, PutLoc(l, i, r))
         /\ PutLoc(l, i, r).pc = "iput" /\ PutLoc(l, i, r).put = i /\ PutLoc(l, i, r).ret = r
<1>1. "iput" \in Labels BY DEF Labels, IputAt
<1> QED BY <1>1 DEF PutLoc, LocRec, SameLocals

LEMMA GotoIs ==
  ASSUME InoInv, NEW p \in Procs, NEW s, Goto(p, s)
  PROVE  loc' = [loc EXCEPT ![p] = GoLoc(loc[p], s)]
BY DEF Goto, GoLoc, InoInv, InoTypes

LEMMA IputIs ==
  ASSUME InoInv, NEW p \in Procs, NEW i, NEW r, IputThen(p, i, r)
  PROVE  loc' = [loc EXCEPT ![p] = PutLoc(loc[p], i, r)]
BY DEF IputThen, PutLoc, InoInv, InoTypes, LocRec

LEMMA LocFacts ==
  ASSUME InoInv, NEW p \in Procs
  PROVE  /\ loc[p] \in LocRec /\ LocOK(loc[p]) /\ cwd[p] \in Inums /\ fip[p] \in 0..NINODES
         /\ cwd \in [Procs -> Inums] /\ fip \in [Procs -> 0..NINODES]
         /\ ents \in DirEnts /\ ref \in [Inums -> Nat]
BY DEF InoInv, InoTypes

LEMMA LocTypes ==
  ASSUME NEW l \in LocRec
  PROVE  /\ l.pc \in Labels /\ l.op \in Ops /\ l.path \in Seq(DirNames) /\ l.new \in Paths
         /\ l.parent \in BOOLEAN /\ l.cur \in 0..NINODES /\ l.dp \in 0..NINODES
         /\ l.ip \in 0..NINODES /\ l.name \in DirNames /\ l.put \in 0..NINODES /\ l.ret \in Labels
BY DEF LocRec

LEMMA InumIs == \A i : i \in Inums <=> i \in 0..NINODES /\ i # 0
BY InodeConstants DEF Inums

(* The steps that put what a local refers to.                              *)
PutPairs(l, i, r) ==
  \/ i = l.ip /\ <<l.pc, r>> \in {<<"found", "end">>, <<"linkbad", "end">>, <<"putip", "end">>,
                                  <<"unlink2", "unlinkbad">>, <<"unlinked", "end">>,
                                  <<"exists", "end">>, <<"created", "end">>}
  \/ i = l.dp /\ <<l.pc, r>> \in {<<"linkunlock", "linkbad">>, <<"link", "putip">>,
                                  <<"unlink", "end">>, <<"unlinkbad", "end">>,
                                  <<"unlink2", "unlinked">>, <<"create2", "created">>}
  \/ i = l.cur /\ l.pc \in CurAt /\ r = IF l.op = "link" /\ l.ip # 0 THEN "linkbad" ELSE "end"

LEMMA PutMoves ==
  ASSUME NEW l \in LocRec, LocOK(l), NEW i, NEW r, PutPairs(l, i, r)
  PROVE  /\ i \in Inums /\ r \in Labels /\ LocOK(PutLoc(l, i, r))
         /\ HasPut(l) = 0 /\ HasPut(PutLoc(l, i, r)) = i
         /\ \/ /\ HasIp(l) = i /\ HasIp(PutLoc(l, i, r)) = 0
               /\ HasCur(PutLoc(l, i, r)) = HasCur(l) /\ HasDp(PutLoc(l, i, r)) = HasDp(l)
            \/ /\ HasDp(l) = i /\ HasDp(PutLoc(l, i, r)) = 0
               /\ HasCur(PutLoc(l, i, r)) = HasCur(l) /\ HasIp(PutLoc(l, i, r)) = HasIp(l)
            \/ /\ HasCur(l) = i /\ HasCur(PutLoc(l, i, r)) = 0
               /\ HasDp(PutLoc(l, i, r)) = HasDp(l) /\ HasIp(PutLoc(l, i, r)) = HasIp(l)
<1>1. r \in Labels /\ i \in Inums
  <2>1. r \in {"end", "unlinkbad", "linkbad", "putip", "unlinked", "created"} BY DEF PutPairs
  <2>2. i # 0 BY DEF PutPairs, LocOK, Resumes, IputAt, CurAt, DpAt, IpAt
  <2>3. i \in 0..NINODES BY LocTypes DEF PutPairs
  <2>4. r \in Labels BY <2>1 DEF Labels, DpAt, IpAt
  <2> QED BY <2>2, <2>3, <2>4, InumIs
<1> DEFINE m == PutLoc(l, i, r)
<1>2. m \in LocRec /\ SameLocals(l, m) /\ m.pc = "iput" /\ m.put = i /\ m.ret = r
  BY <1>1, IputFields, InumIs
<1> HIDE DEF m
<1>3. i # 0 BY <1>1, InumIs
<1>4. CASE i = l.ip /\ <<l.pc, r>> \in {<<"found", "end">>, <<"linkbad", "end">>, <<"putip", "end">>,
                                        <<"unlink2", "unlinkbad">>, <<"unlinked", "end">>,
                                        <<"exists", "end">>, <<"created", "end">>}
  <2>1. /\ LocOK(m) /\ HasPut(l) = 0 /\ HasPut(m) = i /\ HasIp(l) = i /\ HasIp(m) = 0
        /\ HasCur(m) = HasCur(l) /\ HasDp(m) = HasDp(l)
    BY <1>2, <1>3, <1>4
    DEF LocOK, Resumes, HasPut, HasCur, HasDp, HasIp, SameLocals, IputAt, CurAt, DpAt, IpAt, MayIp
  <2> QED BY <1>1, <2>1 DEF m
<1>5. CASE i = l.dp /\ <<l.pc, r>> \in {<<"linkunlock", "linkbad">>, <<"link", "putip">>,
                                        <<"unlink", "end">>, <<"unlinkbad", "end">>,
                                        <<"unlink2", "unlinked">>, <<"create2", "created">>}
  <2>1. /\ LocOK(m) /\ HasPut(l) = 0 /\ HasPut(m) = i /\ HasDp(l) = i /\ HasDp(m) = 0
        /\ HasCur(m) = HasCur(l) /\ HasIp(m) = HasIp(l)
    BY <1>2, <1>3, <1>5
    DEF LocOK, Resumes, HasPut, HasCur, HasDp, HasIp, SameLocals, IputAt, CurAt, DpAt, IpAt, MayIp
  <2> QED BY <1>1, <2>1 DEF m
<1>6. CASE /\ i = l.cur /\ l.pc \in CurAt
           /\ r = IF l.op = "link" /\ l.ip # 0 THEN "linkbad" ELSE "end"
  <2>1. /\ LocOK(m) /\ HasPut(l) = 0 /\ HasPut(m) = i /\ HasCur(l) = i /\ HasCur(m) = 0
        /\ HasDp(m) = HasDp(l) /\ HasIp(m) = HasIp(l)
    BY <1>2, <1>3, <1>6
    DEF LocOK, Resumes, HasPut, HasCur, HasDp, HasIp, SameLocals, IputAt, CurAt, DpAt, IpAt, MayIp
  <2> QED BY <1>1, <2>1 DEF m
<1> QED BY <1>4, <1>5, <1>6 DEF PutPairs

LEMMA PutsStep ==
  ASSUME InoInv, NEW p \in Procs, NEW i, NEW r, IputThen(p, i, r), PutPairs(loc[p], i, r),
         cwd' = cwd, fip' = fip, ref' = ref, ents' \in DirEnts
  PROVE  InoInv'
<1> DEFINE l == loc[p]
           m == PutLoc(loc[p], i, r)
<1>1. /\ l \in LocRec /\ LocOK(l) /\ cwd[p] \in Inums /\ fip[p] \in 0..NINODES
      /\ cwd \in [Procs -> Inums] /\ fip \in [Procs -> 0..NINODES] /\ ref \in [Inums -> Nat]
  BY LocFacts
<1>2. loc' = [loc EXCEPT ![p] = m] BY IputIs
<1>3. /\ i \in Inums /\ r \in Labels /\ LocOK(m) /\ HasPut(l) = 0 /\ HasPut(m) = i
      /\ \/ HasIp(l) = i /\ HasIp(m) = 0 /\ HasCur(m) = HasCur(l) /\ HasDp(m) = HasDp(l)
         \/ HasDp(l) = i /\ HasDp(m) = 0 /\ HasCur(m) = HasCur(l) /\ HasIp(m) = HasIp(l)
         \/ HasCur(l) = i /\ HasCur(m) = 0 /\ HasDp(m) = HasDp(l) /\ HasIp(m) = HasIp(l)
  BY <1>1, PutMoves
<1>4. m \in LocRec BY <1>1, <1>3, IputFields, InumIs
<1> HIDE DEF l, m
<1>5. Becomes(p, cwd[p], fip[p], m) BY <1>1, <1>2, <1>3, <1>4 DEF Becomes
<1>6. \A j \in Inums : j # 0 BY InumIs
<1>7. \A j \in Inums : Row(cwd[p], fip[p], m, j) = Row(cwd[p], fip[p], l, j)
  BY <1>3, <1>6 DEF Row, One
<1>8. RefChange(p, cwd[p], fip[p], m)
  <2>1. \A j \in Inums : ref[j] \in Nat /\ Row(cwd[p], fip[p], l, j) \in Nat BY <1>1, RowIsInt
  <2> QED BY <1>1, <1>7, <2>1 DEF RefChange, l
<1> QED BY <1>5, <1>8, InoStep

(* The steps that go on with the same references.                          *)
GoPairs(l, s) ==
  \/ l.pc = "namex" /\ s = "walk" /\ l.path # <<>>
  \/ l.pc \in IputAt /\ s \in IputAt
  \/ l.pc = "found" /\ s = "linknew" /\ l.op = "link"
  \/ l.pc = "parent" /\ s = IF l.op \in Creating THEN "create" ELSE l.op

LEMMA GoKeeps ==
  ASSUME NEW l \in LocRec, LocOK(l), NEW s, GoPairs(l, s)
  PROVE  /\ s \in Labels /\ LocOK(GoLoc(l, s))
         /\ HasPut(GoLoc(l, s)) = HasPut(l) /\ HasCur(GoLoc(l, s)) = HasCur(l)
         /\ HasDp(GoLoc(l, s)) = HasDp(l) /\ HasIp(GoLoc(l, s)) = HasIp(l)
<1>1. s \in Labels
  <2>1. s \in {"walk", "linknew", "create", "link", "unlink"} \cup IputAt
    BY DEF GoPairs, LocOK, Resumes, IputAt
  <2> QED BY <2>1 DEF Labels, CurAt, DpAt, IpAt
<1> DEFINE m == GoLoc(l, s)
<1>2. m \in LocRec /\ SameLocals(l, m) /\ m.pc = s /\ m.put = l.put /\ m.ret = l.ret
  BY <1>1, GoFields
<1> HIDE DEF m
<1>3. /\ LocOK(m) /\ HasPut(m) = HasPut(l) /\ HasCur(m) = HasCur(l)
      /\ HasDp(m) = HasDp(l) /\ HasIp(m) = HasIp(l)
  <2>1. CASE l.pc = "namex" /\ s = "walk" /\ l.path # <<>>
    BY <1>2, <2>1
    DEF LocOK, Resumes, HasPut, HasCur, HasDp, HasIp, SameLocals, IputAt, CurAt, DpAt, IpAt, MayIp
  <2>2. CASE l.pc \in IputAt /\ s \in IputAt
    <3>1. Resumes(m) = Resumes(l) BY <1>2, <2>2 DEF Resumes
    <3>2. s # "walk" BY <2>2 DEF IputAt
    <3> QED BY <1>2, <2>2, <3>1, <3>2 DEF LocOK, HasPut, HasCur, HasDp, HasIp, SameLocals
  <2>3. CASE l.pc = "found" /\ s = "linknew" /\ l.op = "link"
    BY <1>2, <2>3
    DEF LocOK, Resumes, HasPut, HasCur, HasDp, HasIp, SameLocals, IputAt, CurAt, DpAt, IpAt, MayIp
  <2>4. CASE l.pc = "parent" /\ s = IF l.op \in Creating THEN "create" ELSE l.op
    BY <1>2, <2>4
    DEF LocOK, Resumes, HasPut, HasCur, HasDp, HasIp, SameLocals, IputAt, CurAt, DpAt, IpAt, MayIp,
        Creating
  <2> QED BY <2>1, <2>2, <2>3, <2>4 DEF GoPairs
<1> QED BY <1>1, <1>3 DEF m

LEMMA GoStep ==
  ASSUME InoInv, NEW p \in Procs, NEW s, Goto(p, s), GoPairs(loc[p], s),
         cwd' = cwd, fip' = fip, ref' = ref, ents' \in DirEnts
  PROVE  InoInv'
<1> DEFINE l == loc[p]
           m == GoLoc(loc[p], s)
<1>1. /\ l \in LocRec /\ LocOK(l) /\ cwd[p] \in Inums /\ fip[p] \in 0..NINODES
      /\ cwd \in [Procs -> Inums] /\ fip \in [Procs -> 0..NINODES] /\ ref \in [Inums -> Nat]
  BY LocFacts
<1>2. loc' = [loc EXCEPT ![p] = m] BY GotoIs
<1>3. /\ s \in Labels /\ LocOK(m) /\ HasPut(m) = HasPut(l) /\ HasCur(m) = HasCur(l)
      /\ HasDp(m) = HasDp(l) /\ HasIp(m) = HasIp(l)
  BY <1>1, GoKeeps
<1>4. m \in LocRec BY <1>1, <1>3, GoFields
<1> HIDE DEF l, m
<1>5. Becomes(p, cwd[p], fip[p], m) BY <1>1, <1>2, <1>3, <1>4 DEF Becomes
<1>7. \A j \in Inums : Row(cwd[p], fip[p], m, j) = Row(cwd[p], fip[p], l, j) BY <1>3 DEF Row
<1>8. RefChange(p, cwd[p], fip[p], m)
  <2>1. \A j \in Inums : ref[j] \in Nat /\ Row(cwd[p], fip[p], l, j) \in Nat BY <1>1, RowIsInt
  <2> QED BY <1>1, <1>7, <2>1 DEF RefChange, l
<1> QED BY <1>5, <1>8, InoStep
-----------------------------------------------------------------------------
(* A step that changes no count, and one that takes a reference to j.      *)
LEMMA LevelStep ==
  ASSUME InoInv, NEW p \in Procs, NEW a, NEW b, NEW m, Becomes(p, a, b, m), ents' \in DirEnts,
         ref' = ref, \A i \in Inums : Row(a, b, m, i) = Row(cwd[p], fip[p], loc[p], i)
  PROVE  InoInv'
<1>1. ref \in [Inums -> Nat] BY LocFacts
<1>2. \A i \in Inums : ref[i] \in Nat /\ Row(cwd[p], fip[p], loc[p], i) \in Nat BY <1>1, RowIsInt
<1>3. RefChange(p, a, b, m) BY <1>1, <1>2 DEF RefChange
<1> QED BY <1>3, InoStep

LEMMA UpStep ==
  ASSUME InoInv, NEW p \in Procs, NEW a, NEW b, NEW m, Becomes(p, a, b, m), ents' \in DirEnts,
         NEW j \in Inums, ref' = RefUp(j),
         \A i \in Inums : Row(a, b, m, i) = Row(cwd[p], fip[p], loc[p], i) + One(j = i)
  PROVE  InoInv'
<1>1. ref \in [Inums -> Nat] BY LocFacts
<1>2. \A i \in Inums : ref[i] \in Nat /\ Row(cwd[p], fip[p], loc[p], i) \in Nat BY <1>1, RowIsInt
<1>3. /\ ref' = [i \in Inums |-> ref'[i]]
      /\ \A i \in Inums : ref'[i] = ref[i] + One(j = i)
  <2>1. ref' = [ref EXCEPT ![j] = ref[j] + 1] BY DEF RefUp
  <2>2. ref' = [i \in Inums |-> ref'[i]] BY <1>1, <2>1
  <2>3. \A i \in Inums : ref'[i] = IF i = j THEN ref[i] + 1 ELSE ref[i] BY <1>1, <2>1
  <2> QED BY <1>2, <2>2, <2>3 DEF One
<1>4. RefChange(p, a, b, m)
  <2>1. \A i \in Inums : One(j = i) \in Nat BY DEF One
  <2> QED BY <1>2, <1>3, <2>1 DEF RefChange
<1> QED BY <1>4, InoStep

LEMMA RowOf ==
  ASSUME NEW a, NEW b, NEW l, NEW u, NEW v, NEW x, NEW y,
         HasPut(l) = u, HasCur(l) = v, HasDp(l) = x, HasIp(l) = y
  PROVE  \A i : Row(a, b, l, i) = One(a = i) + One(b = i) + One(u = i) + One(v = i)
                                  + One(x = i) + One(y = i)
BY DEF Row

(* A call is over.                                                         *)
LEMMA IdleFacts ==
  Idle \in LocRec /\ LocOK(Idle) /\ Idle.pc = "idle" /\ Idle.ip = 0 /\ Idle.parent = FALSE
<1>1. <<>> \in Seq(DirNames) /\ "." \in DirNames BY DEF DirNames
<1>2. <<>> \in Paths
  <2>1. <<>> \in Seq(DirNames \cup {"/"}) OBVIOUS
  <2> QED BY <1>1, <2>1 DEF Paths, Elements, Absolute
<1>3. "idle" \in Labels /\ "none" \in Ops BY DEF Labels, Ops
<1>4. 0 \in 0..NINODES BY InodeConstants
<1>5. Idle \in LocRec BY <1>1, <1>2, <1>3, <1>4 DEF Idle, LocRec
<1>6. LocOK(Idle)
  BY DEF Idle, LocOK, Resumes, IputAt, CurAt, DpAt, IpAt, MayIp
<1> QED BY <1>5, <1>6 DEF Idle

LEMMA HasAtRest ==
  ASSUME NEW l, l.pc \in {"idle", "end"}
  PROVE  HasPut(l) = 0 /\ HasCur(l) = 0 /\ HasDp(l) = 0 /\ HasIp(l) = 0
BY DEF HasPut, HasCur, HasDp, HasIp, Resumes, IputAt, CurAt, DpAt, IpAt, MayIp

LEMMA EndStep ==
  ASSUME InoInv, NEW p \in Procs, End(p)
  PROVE  InoInv'
<1>1. /\ loc[p].pc = "end" /\ loc' = [loc EXCEPT ![p] = Idle] /\ cwd' = cwd /\ fip' = fip
      /\ ref' = ref /\ ents' = ents
  BY DEF End, At, Done, diskVars, cacheVars
<1>2. Becomes(p, cwd[p], fip[p], Idle) BY <1>1, LocFacts, IdleFacts DEF Becomes
<1>3. \A i \in Inums : Row(cwd[p], fip[p], Idle, i) = Row(cwd[p], fip[p], loc[p], i)
  <2>1. HasPut(Idle) = 0 /\ HasCur(Idle) = 0 /\ HasDp(Idle) = 0 /\ HasIp(Idle) = 0
    BY IdleFacts, HasAtRest
  <2>2. HasPut(loc[p]) = 0 /\ HasCur(loc[p]) = 0 /\ HasDp(loc[p]) = 0 /\ HasIp(loc[p]) = 0
    BY <1>1, HasAtRest
  <2> QED BY <2>1, <2>2 DEF Row
<1>4. ents' \in DirEnts BY <1>1, LocFacts
<1> QED BY <1>1, <1>2, <1>3, <1>4, LevelStep

LEMMA UnrefStep ==
  ASSUME InoInv, NEW p \in Procs, Unref(p)
  PROVE  InoInv'
<1> DEFINE l == loc[p]
           m == GoLoc(loc[p], loc[p].ret)
<1>1. /\ l \in LocRec /\ LocOK(l) /\ cwd[p] \in Inums /\ fip[p] \in 0..NINODES
      /\ cwd \in [Procs -> Inums] /\ fip \in [Procs -> 0..NINODES] /\ ref \in [Inums -> Nat]
      /\ ents \in DirEnts
  BY LocFacts
<1>2. /\ l.pc = "unref" /\ Goto(p, l.ret) /\ ref' = [ref EXCEPT ![l.put] = ref[l.put] - 1]
      /\ cwd' = cwd /\ fip' = fip /\ ents' = ents
  BY DEF Unref, At, diskVars
<1>3. loc' = [loc EXCEPT ![p] = m] BY <1>2, GotoIs
<1>4. /\ m \in LocRec /\ SameLocals(l, m) /\ m.pc = l.ret /\ m.put = l.put /\ m.ret = l.ret
  BY <1>1, LocTypes, GoFields
<1> HIDE DEF l, m
<1>5. l.put \in Inums
  <2>1. l.put \in 0..NINODES BY <1>1, LocTypes
  <2>2. l.put # 0 BY <1>1, <1>2 DEF LocOK, IputAt
  <2> QED BY <2>1, <2>2, InumIs
<1>6. l.ret \notin IputAt /\ l.ret # "walk" BY <1>1 DEF LocOK
<1>7. Resumes(m) = Resumes(l) BY <1>2, <1>4, <1>6 DEF Resumes, IputAt
<1>8. LocOK(m) BY <1>1, <1>4, <1>6, <1>7 DEF LocOK, SameLocals
<1>9. /\ HasPut(l) = l.put /\ HasPut(m) = 0 /\ HasCur(m) = HasCur(l)
      /\ HasDp(m) = HasDp(l) /\ HasIp(m) = HasIp(l)
  <2>1. HasPut(l) = l.put BY <1>2 DEF HasPut, IputAt
  <2> QED BY <1>4, <1>6, <1>7, <2>1 DEF HasPut, HasCur, HasDp, HasIp, SameLocals
<1>10. Becomes(p, cwd[p], fip[p], m) BY <1>1, <1>2, <1>3, <1>4, <1>8 DEF Becomes
<1>11. \A i \in Inums : i # 0 BY InumIs
<1>12. \A i \in Inums : Row(cwd[p], fip[p], m, i) = Row(cwd[p], fip[p], l, i) - One(l.put = i)
  BY <1>9, <1>11 DEF Row, One
<1>13. \A i \in Inums : ref[i] \in Nat /\ Row(cwd[p], fip[p], l, i) \in Nat BY <1>1, RowIsInt
<1>14. /\ ref' = [i \in Inums |-> ref'[i]]
       /\ \A i \in Inums : ref'[i] = ref[i] - One(l.put = i)
  <2>1. ref' = [i \in Inums |-> ref'[i]] BY <1>1, <1>2
  <2>2. \A i \in Inums : ref'[i] = IF i = l.put THEN ref[i] - 1 ELSE ref[i] BY <1>1, <1>2, <1>5
  <2> QED BY <1>13, <2>1, <2>2 DEF One
<1>15. RefChange(p, cwd[p], fip[p], m)
  <2>1. \A i \in Inums : One(l.put = i) \in Nat BY DEF One
  <2> QED BY <1>12, <1>13, <1>14, <2>1 DEF RefChange, l
<1> QED BY <1>1, <1>2, <1>10, <1>15, InoStep

(* namex() begins with a reference to where it starts.                     *)
LEMMA StartIs ==
  ASSUME InoInv, NEW p \in Procs, NEW path
  PROVE  Start(p, path) \in Inums
BY LocFacts, InodeConstants DEF Start, ROOTINO, Inums

LEMMA BeginStep ==
  ASSUME InoInv, NEW p \in Procs, NEW c \in Calls[p], Begin(p, c)
  PROVE  InoInv'
<1> DEFINE b == c.op \in Creating \cup {"unlink"}
<1>0. b \in BOOLEAN /\ (b <=> c.op \in Creating \cup {"unlink"}) OBVIOUS
<1> DEFINE j == Start(p, c.path)
           m == [Idle EXCEPT !.pc = "namex", !.op = c.op, !.new = c.new, !.cur = j,
                             !.path = Elements(c.path), !.parent = b]
<1>1. /\ cwd[p] \in Inums /\ fip[p] \in 0..NINODES /\ ents \in DirEnts
      /\ cwd \in [Procs -> Inums] /\ fip \in [Procs -> 0..NINODES]
  BY LocFacts
<1>2. /\ loc[p].pc = "idle" /\ ref' = RefUp(j) /\ loc' = [loc EXCEPT ![p] = m]
      /\ cwd' = cwd /\ fip' = fip /\ ents' = ents
  BY <1>0 DEF Begin, At, diskVars
<1>3. j \in Inums BY StartIs
<1>4. /\ c.op \in Creating \cup {"open", "openw", "chdir", "link", "unlink"}
      /\ Elements(c.path) \in Seq(DirNames) /\ c.new \in Paths
  BY CallsConstants DEF Paths
<1>5. c.op \in Ops /\ "namex" \in Labels /\ j \in 0..NINODES /\ j # 0
  BY <1>3, <1>4, InumIs DEF Ops, Labels, CurAt
<1>6. /\ m \in LocRec /\ m.pc = "namex" /\ m.op = c.op /\ m.cur = j /\ m.ip = 0 /\ m.ret = "idle"
      /\ m.parent = b
  <2> HIDE DEF b
  <2> QED BY <1>0, <1>4, <1>5, IdleFacts DEF LocRec, Idle
<1> HIDE DEF m, j, b
<1>7. LocOK(m)
  BY <1>0, <1>5, <1>6 DEF LocOK, Resumes, IputAt, CurAt, DpAt, IpAt, MayIp, Creating
<1>8. HasPut(m) = 0 /\ HasCur(m) = j /\ HasDp(m) = 0 /\ HasIp(m) = 0
  BY <1>6 DEF HasPut, HasCur, HasDp, HasIp, Resumes, IputAt, CurAt, DpAt, IpAt, MayIp
<1>9. HasPut(loc[p]) = 0 /\ HasCur(loc[p]) = 0 /\ HasDp(loc[p]) = 0 /\ HasIp(loc[p]) = 0
  BY <1>2, HasAtRest
<1>10. Becomes(p, cwd[p], fip[p], m) BY <1>1, <1>2, <1>6, <1>7 DEF Becomes
<1>11. \A i \in Inums : i # 0 BY InumIs
<1>12. \A i \in Inums : Row(cwd[p], fip[p], m, i) = Row(cwd[p], fip[p], loc[p], i) + One(j = i)
  BY <1>8, <1>9, <1>11 DEF Row, One
<1> QED BY <1>1, <1>2, <1>3, <1>10, <1>12, UpStep

LEMMA LinkNewStep ==
  ASSUME InoInv, NEW p \in Procs, LinkNew(p)
  PROVE  InoInv'
<1> DEFINE l == loc[p]
           j == Start(p, loc[p].new)
           m == [l EXCEPT !.pc = "namex", !.cur = j, !.path = Elements(l.new), !.parent = TRUE]
<1>1. /\ l \in LocRec /\ LocOK(l) /\ cwd[p] \in Inums /\ fip[p] \in 0..NINODES /\ ents \in DirEnts
      /\ cwd \in [Procs -> Inums] /\ fip \in [Procs -> 0..NINODES] /\ loc \in [Procs -> LocRec]
  BY LocFacts DEF InoInv, InoTypes
<1>2. /\ l.pc = "linknew" /\ ref' = RefUp(j) /\ cwd' = cwd /\ fip' = fip /\ ents' = ents
  BY DEF LinkNew, At, diskVars
<1>3. loc' = [loc EXCEPT ![p] = m] BY <1>1 DEF LinkNew, LocRec
<1>4. j \in Inums BY StartIs
<1>5. /\ "namex" \in Labels /\ j \in 0..NINODES /\ j # 0 /\ Elements(l.new) \in Seq(DirNames)
  BY <1>1, <1>4, InumIs, LocTypes DEF Labels, CurAt, Paths
<1>6. /\ m \in LocRec /\ m.pc = "namex" /\ m.op = l.op /\ m.cur = j /\ m.ip = l.ip
      /\ m.ret = l.ret /\ m.parent = TRUE
  BY <1>1, <1>5 DEF LocRec
<1> HIDE DEF m, l, j
<1>7. l.op = "link" /\ l.ip # 0 /\ l.ret \notin IputAt /\ l.ret # "walk"
  BY <1>1, <1>2 DEF LocOK, Resumes, IputAt, IpAt
<1>8. LocOK(m)
  BY <1>5, <1>6, <1>7 DEF LocOK, Resumes, IputAt, CurAt, DpAt, IpAt, MayIp, Creating
<1>9. HasPut(m) = 0 /\ HasCur(m) = j /\ HasDp(m) = 0 /\ HasIp(m) = l.ip
  BY <1>6 DEF HasPut, HasCur, HasDp, HasIp, Resumes, IputAt, CurAt, DpAt, IpAt, MayIp
<1>10. HasPut(l) = 0 /\ HasCur(l) = 0 /\ HasDp(l) = 0 /\ HasIp(l) = l.ip
  BY <1>2 DEF HasPut, HasCur, HasDp, HasIp, Resumes, IputAt, CurAt, DpAt, IpAt, MayIp
<1>11. Becomes(p, cwd[p], fip[p], m) BY <1>1, <1>2, <1>3, <1>6, <1>8 DEF Becomes
<1>12. \A i \in Inums : i # 0 BY InumIs
<1>13. \A i \in Inums : Row(cwd[p], fip[p], m, i) = Row(cwd[p], fip[p], l, i) + One(j = i)
  BY <1>9, <1>10, <1>12 DEF Row, One
<1> QED BY <1>1, <1>2, <1>4, <1>11, <1>13, UpStep DEF l

(* close() and chdir(): the inode that is put was the file's, or the       *)
(* directory's.                                                            *)
LEMMA CloseFileStep ==
  ASSUME InoInv, NEW p \in Procs, CloseFile(p)
  PROVE  InoInv'
<1> DEFINE l == loc[p]
           m == PutLoc(loc[p], fip[p], "end")
<1>1. /\ l \in LocRec /\ LocOK(l) /\ cwd[p] \in Inums /\ fip[p] \in 0..NINODES /\ ents \in DirEnts
      /\ cwd \in [Procs -> Inums] /\ fip \in [Procs -> 0..NINODES]
  BY LocFacts
<1>2. /\ l.pc = "idle" /\ fip[p] # 0 /\ fip' = [fip EXCEPT ![p] = 0] /\ IputThen(p, fip[p], "end")
      /\ cwd' = cwd /\ ref' = ref /\ ents' = ents
  BY DEF CloseFile, At, diskVars, cacheVars
<1>3. loc' = [loc EXCEPT ![p] = m] BY <1>2, IputIs
<1>4. m \in LocRec /\ SameLocals(l, m) /\ m.pc = "iput" /\ m.put = fip[p] /\ m.ret = "end"
  <2>1. "end" \in Labels BY DEF Labels
  <2> QED BY <1>1, <2>1, IputFields
<1> HIDE DEF l, m
<1>5. LocOK(m)
  BY <1>1, <1>2, <1>4 DEF LocOK, Resumes, SameLocals, IputAt, CurAt, DpAt, IpAt, MayIp
<1>6. HasPut(m) = fip[p] /\ HasCur(m) = 0 /\ HasDp(m) = 0 /\ HasIp(m) = 0
  BY <1>4 DEF HasPut, HasCur, HasDp, HasIp, Resumes, IputAt, CurAt, DpAt, IpAt, MayIp
<1>7. HasPut(l) = 0 /\ HasCur(l) = 0 /\ HasDp(l) = 0 /\ HasIp(l) = 0 BY <1>2, HasAtRest
<1>8. 0 \in 0..NINODES BY InodeConstants
<1>9. Becomes(p, cwd[p], 0, m) BY <1>1, <1>2, <1>3, <1>4, <1>5, <1>8 DEF Becomes
<1>10. \A i \in Inums : i # 0 BY InumIs
<1>11. \A i \in Inums : Row(cwd[p], 0, m, i) = Row(cwd[p], fip[p], l, i)
  BY <1>6, <1>7, <1>10 DEF Row, One
<1> QED BY <1>1, <1>2, <1>9, <1>11, LevelStep DEF l

LEMMA ChdirStep ==
  ASSUME InoInv, NEW p \in Procs, Chdir(p)
  PROVE  InoInv'
<1> DEFINE l == loc[p]
           m == PutLoc(loc[p], cwd[p], "end")
<1>1. /\ l \in LocRec /\ LocOK(l) /\ cwd[p] \in Inums /\ fip[p] \in 0..NINODES /\ ents \in DirEnts
      /\ cwd \in [Procs -> Inums] /\ fip \in [Procs -> 0..NINODES]
  BY LocFacts
<1>2. l.pc = "found" /\ fip' = fip /\ ref' = ref /\ ents' = ents
  BY DEF Chdir, At, diskVars
<1>3. CASE cwd' = cwd /\ IputThen(p, loc[p].ip, "end")
  <2>1. PutPairs(loc[p], loc[p].ip, "end") BY <1>2 DEF PutPairs
  <2> QED BY <1>1, <1>2, <1>3, <2>1, PutsStep
<1>4. CASE cwd' = [cwd EXCEPT ![p] = loc[p].ip] /\ IputThen(p, cwd[p], "end")
  <2>1. loc' = [loc EXCEPT ![p] = m] BY <1>4, IputIs
  <2>2. cwd[p] \in 0..NINODES /\ cwd[p] # 0 BY <1>1, InumIs
  <2>3. m \in LocRec /\ SameLocals(l, m) /\ m.pc = "iput" /\ m.put = cwd[p] /\ m.ret = "end"
    <3>1. "end" \in Labels BY DEF Labels
    <3> QED BY <1>1, <2>2, <3>1, IputFields
  <2>4. l.ip \in Inums
    <3>1. l.ip \in 0..NINODES BY <1>1, LocTypes
    <3>2. l.ip # 0 BY <1>1, <1>2 DEF LocOK, Resumes, IputAt, IpAt
    <3> QED BY <3>1, <3>2, InumIs
  <2>5. cwd' = [cwd EXCEPT ![p] = l.ip] BY <1>4
  <2> HIDE DEF l, m
  <2>6. LocOK(m)
    BY <1>1, <2>2, <2>3 DEF LocOK, Resumes, SameLocals, IputAt, CurAt, DpAt, IpAt, MayIp
  <2>7. HasPut(m) = cwd[p] /\ HasCur(m) = 0 /\ HasDp(m) = 0 /\ HasIp(m) = 0
    BY <2>3 DEF HasPut, HasCur, HasDp, HasIp, Resumes, IputAt, CurAt, DpAt, IpAt, MayIp
  <2>8. HasPut(l) = 0 /\ HasCur(l) = 0 /\ HasDp(l) = 0 /\ HasIp(l) = l.ip
    BY <1>2 DEF HasPut, HasCur, HasDp, HasIp, Resumes, IputAt, CurAt, DpAt, IpAt, MayIp
  <2>9. Becomes(p, l.ip, fip[p], m) BY <1>1, <1>2, <2>1, <2>3, <2>4, <2>5, <2>6 DEF Becomes
  <2>10. \A i \in Inums : i # 0 BY InumIs
  <2>11. \A i \in Inums : Row(l.ip, fip[p], m, i) = Row(cwd[p], fip[p], l, i)
    BY <2>7, <2>8, <2>10 DEF Row, One
  <2> QED BY <1>1, <1>2, <2>9, <2>11, LevelStep DEF l
<1> QED BY <1>3, <1>4 DEF Chdir
-----------------------------------------------------------------------------
(* open() and create() keep the reference in the file, or put it.          *)
LEMMA OpenedStep ==
  ASSUME InoInv, NEW p \in Procs, NEW ok, Opened(p, ok), loc[p].pc \in {"found", "exists", "created"},
         cwd' = cwd, ref' = ref, ents' = ents
  PROVE  InoInv'
<1> DEFINE l == loc[p]
           m == GoLoc(loc[p], "end")
<1>1. /\ l \in LocRec /\ LocOK(l) /\ cwd[p] \in Inums /\ fip[p] \in 0..NINODES /\ ents \in DirEnts
      /\ cwd \in [Procs -> Inums] /\ fip \in [Procs -> 0..NINODES]
  BY LocFacts
<1>2. CASE fip' = fip /\ IputThen(p, loc[p].ip, "end")
  <2>1. PutPairs(loc[p], loc[p].ip, "end") BY DEF PutPairs
  <2> QED BY <1>1, <1>2, <2>1, PutsStep
<1>3. CASE fip[p] = 0 /\ fip' = [fip EXCEPT ![p] = loc[p].ip] /\ Goto(p, "end")
  <2>1. loc' = [loc EXCEPT ![p] = m] BY <1>3, GotoIs
  <2>2. m \in LocRec /\ SameLocals(l, m) /\ m.pc = "end" /\ m.put = l.put /\ m.ret = l.ret
    <3>1. "end" \in Labels BY DEF Labels
    <3> QED BY <1>1, <3>1, GoFields
  <2>3. l.ip \in 0..NINODES BY <1>1, LocTypes
  <2>4. fip' = [fip EXCEPT ![p] = l.ip] BY <1>3
  <2>5. l.pc \in {"found", "exists", "created"} OBVIOUS
  <2> HIDE DEF l, m
  <2>6. LocOK(m)
    BY <1>1, <2>2 DEF LocOK, Resumes, SameLocals, IputAt, CurAt, DpAt, IpAt, MayIp
  <2>7. HasPut(m) = 0 /\ HasCur(m) = 0 /\ HasDp(m) = 0 /\ HasIp(m) = 0 BY <2>2, HasAtRest
  <2>8. HasPut(l) = 0 /\ HasCur(l) = 0 /\ HasDp(l) = 0 /\ HasIp(l) = l.ip
    BY <2>5 DEF HasPut, HasCur, HasDp, HasIp, Resumes, IputAt, CurAt, DpAt, IpAt, MayIp
  <2>9. Becomes(p, cwd[p], l.ip, m) BY <1>1, <2>1, <2>2, <2>3, <2>4, <2>6 DEF Becomes
  <2>10. \A i \in Inums : i # 0 BY InumIs
  <2>11. \A i \in Inums : Row(cwd[p], l.ip, m, i) = Row(cwd[p], fip[p], l, i)
    BY <1>3, <2>7, <2>8, <2>10 DEF Row, One
  <2> QED BY <1>1, <2>9, <2>11, LevelStep DEF l
<1> QED BY <1>2, <1>3 DEF Opened

(* namex() ends: its inode becomes ip, or its directory dp.                *)
LEMMA NamexEndStep ==
  ASSUME InoInv, NEW p \in Procs, NamexEnd(p)
  PROVE  InoInv'
<1> DEFINE l == loc[p]
           m == [l EXCEPT !.ip = l.cur, !.pc = "found"]
<1>1. /\ l \in LocRec /\ LocOK(l) /\ cwd[p] \in Inums /\ fip[p] \in 0..NINODES /\ ents \in DirEnts
      /\ cwd \in [Procs -> Inums] /\ fip \in [Procs -> 0..NINODES] /\ loc \in [Procs -> LocRec]
  BY LocFacts DEF InoInv, InoTypes
<1>2. l.pc = "namex" /\ cwd' = cwd /\ fip' = fip /\ ref' = ref /\ ents' = ents
  BY DEF NamexEnd, At, diskVars, cacheVars
<1>3. CASE IputThen(p, loc[p].cur, Failed(p))
  <2>1. PutPairs(loc[p], loc[p].cur, Failed(p)) BY <1>2 DEF PutPairs, CurAt, Failed
  <2> QED BY <1>1, <1>2, <1>3, <2>1, PutsStep
<1>4. CASE ~l.parent /\ loc' = [loc EXCEPT ![p].ip = loc[p].cur, ![p].pc = "found"]
  <2>1. loc' = [loc EXCEPT ![p] = m] BY <1>1, <1>4 DEF LocRec
  <2>2. l.cur \in 0..NINODES /\ "found" \in Labels BY <1>1, LocTypes DEF Labels, IpAt
  <2>3. /\ m \in LocRec /\ m.pc = "found" /\ m.op = l.op /\ m.ip = l.cur /\ m.ret = l.ret
        /\ m.parent = l.parent
    BY <1>1, <2>2 DEF LocRec
  <2> HIDE DEF l, m
  <2>4. l.cur # 0 /\ l.ip = 0 BY <1>1, <1>2, <1>4 DEF LocOK, Resumes, IputAt, CurAt, MayIp
  <2>5. LocOK(m)
    BY <1>1, <1>4, <2>3, <2>4 DEF LocOK, Resumes, IputAt, CurAt, DpAt, IpAt, MayIp
  <2>6. HasPut(m) = 0 /\ HasCur(m) = 0 /\ HasDp(m) = 0 /\ HasIp(m) = l.cur
    BY <2>3 DEF HasPut, HasCur, HasDp, HasIp, Resumes, IputAt, CurAt, DpAt, IpAt, MayIp
  <2>7. HasPut(l) = 0 /\ HasCur(l) = l.cur /\ HasDp(l) = 0 /\ HasIp(l) = 0
    BY <1>2, <2>4 DEF HasPut, HasCur, HasDp, HasIp, Resumes, IputAt, CurAt, DpAt, IpAt, MayIp
  <2>8. Becomes(p, cwd[p], fip[p], m) BY <1>1, <1>2, <2>1, <2>3, <2>5 DEF Becomes
  <2>9. \A i \in Inums : i # 0 BY InumIs
  <2>10. \A i \in Inums : Row(cwd[p], fip[p], m, i) = Row(cwd[p], fip[p], l, i)
    BY <2>6, <2>7, <2>9 DEF Row, One
  <2> QED BY <1>1, <1>2, <2>8, <2>10, LevelStep DEF l
<1> QED BY <1>3, <1>4 DEF NamexEnd

LEMMA WalkStep ==
  ASSUME InoInv, NEW p \in Procs, Walk(p)
  PROVE  InoInv'
<1> DEFINE l == loc[p]
           j == ents[l.cur][Head(l.path)]
<1>1. /\ l \in LocRec /\ LocOK(l) /\ cwd[p] \in Inums /\ fip[p] \in 0..NINODES /\ ents \in DirEnts
      /\ cwd \in [Procs -> Inums] /\ fip \in [Procs -> 0..NINODES] /\ loc \in [Procs -> LocRec]
  BY LocFacts DEF InoInv, InoTypes
<1>2. l.pc = "walk" /\ cwd' = cwd /\ fip' = fip /\ ents' = ents BY DEF Walk, At, diskVars
<1>3. /\ l.cur \in Inums /\ l.path \in Seq(DirNames) /\ l.path # <<>> /\ l.cur \in 0..NINODES
      /\ l.ret \notin IputAt /\ l.ret # "walk"
      /\ (l.ip # 0 <=> l.op = "link" /\ l.parent)
      /\ (l.parent => l.op \in Creating \cup {"unlink", "link"})
  <2>1. l.cur \in 0..NINODES /\ l.path \in Seq(DirNames) BY <1>1, LocTypes
  <2>2. /\ l.cur # 0 /\ l.path # <<>> /\ l.ret \notin IputAt /\ l.ret # "walk"
        /\ (l.ip # 0 <=> l.op = "link" /\ l.parent)
        /\ (l.parent => l.op \in Creating \cup {"unlink", "link"})
    BY <1>1, <1>2 DEF LocOK, Resumes, IputAt, CurAt, MayIp
  <2> QED BY <2>1, <2>2, InumIs
<1>4. Head(l.path) \in DirNames /\ Tail(l.path) \in Seq(DirNames)
  <2>1. PICK t \in Seq(DirNames) : t = l.path /\ t # <<>> BY <1>3
  <2>2. Head(t) \in DirNames /\ Tail(t) \in Seq(DirNames) BY <2>1
  <2> QED BY <2>1, <2>2
<1>5. j \in 0..NINODES BY <1>1, <1>3, <1>4 DEF DirEnts
<1>6. HasPut(l) = 0 /\ HasCur(l) = l.cur /\ HasDp(l) = 0 /\ HasIp(l) = l.ip
  BY <1>2 DEF HasPut, HasCur, HasDp, HasIp, Resumes, IputAt, CurAt, DpAt, IpAt, MayIp
<1>7. CASE ref' = ref /\ IputThen(p, loc[p].cur, Failed(p))
  <2>1. PutPairs(loc[p], loc[p].cur, Failed(p)) BY <1>2 DEF PutPairs, CurAt, Failed
  <2> QED BY <1>1, <1>2, <1>7, <2>1, PutsStep
<1>8. CASE /\ ref' = ref /\ l.parent
           /\ loc' = [loc EXCEPT ![p].dp = l.cur, ![p].name = Head(l.path), ![p].pc = "parent"]
  <2> DEFINE m == [l EXCEPT !.dp = l.cur, !.name = Head(l.path), !.pc = "parent"]
  <2>1. loc' = [loc EXCEPT ![p] = m] BY <1>1, <1>8 DEF LocRec
  <2>2. "parent" \in Labels BY DEF Labels, MayIp
  <2>3. /\ m \in LocRec /\ m.pc = "parent" /\ m.op = l.op /\ m.ip = l.ip /\ m.ret = l.ret
        /\ m.parent = l.parent /\ m.dp = l.cur
    <3>1. PICK n \in DirNames : n = Head(l.path) BY <1>4
    <3>2. m = [l EXCEPT !.dp = l.cur, !.name = n, !.pc = "parent"] BY <3>1
    <3> QED BY <1>1, <1>3, <2>2, <3>2 DEF LocRec
  <2> HIDE DEF l, m
  <2>4. l.cur # 0 BY <1>3, InumIs
  <2>5. LocOK(m)
    BY <1>3, <1>8, <2>3, <2>4 DEF LocOK, Resumes, IputAt, CurAt, DpAt, IpAt, MayIp
  <2>6. HasPut(m) = 0 /\ HasCur(m) = 0 /\ HasDp(m) = l.cur /\ HasIp(m) = l.ip
    BY <2>3 DEF HasPut, HasCur, HasDp, HasIp, Resumes, IputAt, CurAt, DpAt, IpAt, MayIp
  <2>8. Becomes(p, cwd[p], fip[p], m) BY <1>1, <1>2, <2>1, <2>3, <2>5 DEF Becomes
  <2>9. \A i \in Inums : i # 0 BY InumIs
  <2>10. \A i \in Inums : Row(cwd[p], fip[p], m, i) = Row(cwd[p], fip[p], l, i)
    BY <1>6, <2>6, <2>9 DEF Row, One
  <2> QED BY <1>1, <1>2, <1>8, <2>8, <2>10, LevelStep DEF l
<1>9. CASE /\ j # 0 /\ ref' = RefUp(j)
           /\ loc' = [loc EXCEPT ![p].cur = j, ![p].path = Tail(@), ![p].put = l.cur,
                                 ![p].ret = "namex", ![p].pc = "iput"]
  <2> HIDE DEF j
  <2> DEFINE m == [l EXCEPT !.cur = j, !.path = Tail(l.path), !.put = l.cur,
                            !.ret = "namex", !.pc = "iput"]
  <2>1. loc' = [loc EXCEPT ![p] = m] BY <1>1, <1>9 DEF LocRec
  <2>2. "iput" \in Labels /\ "namex" \in Labels BY DEF Labels, IputAt, CurAt
  <2>3. /\ m \in LocRec /\ m.pc = "iput" /\ m.op = l.op /\ m.ip = l.ip /\ m.ret = "namex"
        /\ m.parent = l.parent /\ m.cur = j /\ m.put = l.cur
    <3>1. PICK t \in Seq(DirNames) : t = Tail(l.path) BY <1>4
    <3>2. m = [l EXCEPT !.cur = j, !.path = t, !.put = l.cur, !.ret = "namex", !.pc = "iput"]
      BY <3>1
    <3> QED BY <1>1, <1>3, <1>5, <2>2, <3>2 DEF LocRec
  <2> HIDE DEF l, m
  <2>4. l.cur # 0 BY <1>3, InumIs
  <2>5. LocOK(m)
    BY <1>3, <1>9, <2>3, <2>4 DEF LocOK, Resumes, IputAt, CurAt, DpAt, IpAt, MayIp
  <2>6. HasPut(m) = l.cur /\ HasCur(m) = j /\ HasDp(m) = 0 /\ HasIp(m) = l.ip
    BY <2>3 DEF HasPut, HasCur, HasDp, HasIp, Resumes, IputAt, CurAt, DpAt, IpAt, MayIp
  <2>8. Becomes(p, cwd[p], fip[p], m) BY <1>1, <1>2, <2>1, <2>3, <2>5 DEF Becomes
  <2>9. (\A i \in Inums : i # 0) /\ j \in Inums BY <1>5, <1>9, InumIs
  <2>10. \A i \in Inums : Row(cwd[p], fip[p], m, i) = Row(cwd[p], fip[p], l, i) + One(j = i)
    BY <1>6, <2>6, <2>9 DEF Row, One
  <2> QED BY <1>1, <1>2, <1>9, <2>8, <2>9, <2>10, UpStep DEF l
<1> QED BY <1>7, <1>8, <1>9 DEF Walk

(* What an entry names, and an entry that is set.                          *)
LEMMA EntryIs ==
  ASSUME InoInv, NEW p \in Procs, Resumes(loc[p]) \in DpAt
  PROVE  /\ Entry(p) \in 0..NINODES /\ loc[p].dp \in Inums /\ loc[p].name \in DirNames
<1>1. loc[p] \in LocRec /\ LocOK(loc[p]) /\ ents \in DirEnts BY LocFacts
<1>2. loc[p].dp \in 0..NINODES /\ loc[p].name \in DirNames BY <1>1, LocTypes
<1>3. loc[p].dp # 0 BY <1>1 DEF LocOK
<1>4. loc[p].dp \in Inums BY <1>2, <1>3, InumIs
<1> QED BY <1>1, <1>2, <1>4 DEF Entry, DirEnts

LEMMA EntsSet ==
  ASSUME NEW e \in DirEnts, NEW d \in Inums, NEW n \in DirNames, NEW i \in 0..NINODES
  PROVE  [e EXCEPT ![d][n] = i] \in DirEnts
BY DEF DirEnts

LEMMA EntsEmpty ==
  ASSUME NEW e \in DirEnts, NEW d \in Inums
  PROVE  [e EXCEPT ![d] = Empty] \in DirEnts
<1>1. Empty \in [DirNames -> 0..NINODES] BY InodeConstants DEF Empty
<1> QED BY <1>1 DEF DirEnts
-----------------------------------------------------------------------------
(* A lookup in the directory dp takes a reference to what it finds.        *)
LEMMA LinkExistsStep ==
  ASSUME InoInv, NEW p \in Procs, LinkExists(p)
  PROVE  InoInv'
<1> DEFINE l == loc[p]
           j == Entry(p)
           m == PutLoc(loc[p], Entry(p), "linkunlock")
<1>1. /\ l \in LocRec /\ LocOK(l) /\ cwd[p] \in Inums /\ fip[p] \in 0..NINODES /\ ents \in DirEnts
      /\ cwd \in [Procs -> Inums] /\ fip \in [Procs -> 0..NINODES]
  BY LocFacts
<1>2. /\ l.pc = "link" /\ j # 0 /\ ref' = RefUp(j) /\ IputThen(p, j, "linkunlock")
      /\ cwd' = cwd /\ fip' = fip /\ ents' = ents
  BY DEF LinkExists, At, diskVars
<1>3. Resumes(l) \in DpAt BY <1>2 DEF Resumes, IputAt, DpAt
<1>4. j \in 0..NINODES /\ j \in Inums BY <1>2, <1>3, EntryIs, InumIs
<1>5. loc' = [loc EXCEPT ![p] = m] BY <1>2, IputIs
<1>6. m \in LocRec /\ SameLocals(l, m) /\ m.pc = "iput" /\ m.put = j /\ m.ret = "linkunlock"
  <2>1. "linkunlock" \in Labels BY DEF Labels, DpAt
  <2> QED BY <1>1, <1>4, <2>1, IputFields
<1> HIDE DEF l, m, j
<1>7. LocOK(m)
  BY <1>1, <1>2, <1>6 DEF LocOK, Resumes, SameLocals, IputAt, CurAt, DpAt, IpAt, MayIp
<1>8. HasPut(m) = j /\ HasCur(m) = 0 /\ HasDp(m) = l.dp /\ HasIp(m) = l.ip
  BY <1>6 DEF HasPut, HasCur, HasDp, HasIp, Resumes, SameLocals, IputAt, CurAt, DpAt, IpAt, MayIp
<1>9. HasPut(l) = 0 /\ HasCur(l) = 0 /\ HasDp(l) = l.dp /\ HasIp(l) = l.ip
  BY <1>2 DEF HasPut, HasCur, HasDp, HasIp, Resumes, IputAt, CurAt, DpAt, IpAt, MayIp
<1>10. Becomes(p, cwd[p], fip[p], m) BY <1>1, <1>2, <1>5, <1>6, <1>7 DEF Becomes
<1>11. \A i \in Inums : i # 0 BY InumIs
<1>12. \A i \in Inums : Row(cwd[p], fip[p], m, i) = Row(cwd[p], fip[p], l, i) + One(j = i)
  BY <1>8, <1>9, <1>11 DEF Row, One
<1> QED BY <1>1, <1>2, <1>4, <1>10, <1>12, UpStep DEF l

(* unlink() and create() keep what they find, or allocate, in ip.          *)
LEMMA FindStep ==
  ASSUME InoInv, NEW p \in Procs, NEW j \in Inums, NEW s \in {"unlink2", "create2"},
         loc[p].pc \in {"unlink", "create"}, ref' = RefUp(j),
         loc' = [loc EXCEPT ![p].ip = j, ![p].pc = s],
         cwd' = cwd, fip' = fip, ents' \in DirEnts
  PROVE  InoInv'
<1> DEFINE l == loc[p]
           m == [l EXCEPT !.ip = j, !.pc = s]
<1>1. /\ l \in LocRec /\ LocOK(l) /\ cwd[p] \in Inums /\ fip[p] \in 0..NINODES
      /\ cwd \in [Procs -> Inums] /\ fip \in [Procs -> 0..NINODES] /\ loc \in [Procs -> LocRec]
  BY LocFacts DEF InoInv, InoTypes
<1>2. l.pc \in {"unlink", "create"} OBVIOUS
<1>3. s \in Labels /\ j \in 0..NINODES /\ j # 0 BY InumIs DEF Labels, DpAt
<1>4. loc' = [loc EXCEPT ![p] = m] BY <1>1 DEF LocRec
<1>5. /\ m \in LocRec /\ m.pc = s /\ m.op = l.op /\ m.parent = l.parent /\ m.dp = l.dp
      /\ m.ip = j /\ m.ret = l.ret
  BY <1>1, <1>3 DEF LocRec
<1> HIDE DEF l, m
<1>6. LocOK(m)
  BY <1>1, <1>2, <1>3, <1>5 DEF LocOK, Resumes, IputAt, CurAt, DpAt, IpAt, MayIp
<1>7. HasPut(m) = 0 /\ HasCur(m) = 0 /\ HasDp(m) = l.dp /\ HasIp(m) = j
  BY <1>5 DEF HasPut, HasCur, HasDp, HasIp, Resumes, IputAt, CurAt, DpAt, IpAt, MayIp
<1>8. HasPut(l) = 0 /\ HasCur(l) = 0 /\ HasDp(l) = l.dp /\ HasIp(l) = 0
  BY <1>2 DEF HasPut, HasCur, HasDp, HasIp, Resumes, IputAt, CurAt, DpAt, IpAt, MayIp
<1>9. Becomes(p, cwd[p], fip[p], m) BY <1>1, <1>4, <1>5, <1>6 DEF Becomes
<1>10. \A i \in Inums : i # 0 BY InumIs
<1>11. \A i \in Inums : Row(cwd[p], fip[p], m, i) = Row(cwd[p], fip[p], l, i) + One(j = i)
  BY <1>7, <1>8, <1>10 DEF Row, One
<1> QED BY <1>9, <1>11, UpStep DEF l

LEMMA UnlinkLookupStep ==
  ASSUME InoInv, NEW p \in Procs, UnlinkLookup(p)
  PROVE  InoInv'
<1>1. /\ loc[p].pc = "unlink" /\ Entry(p) # 0 /\ ref' = RefUp(Entry(p))
      /\ loc' = [loc EXCEPT ![p].ip = Entry(p), ![p].pc = "unlink2"]
      /\ cwd' = cwd /\ fip' = fip /\ ents' = ents
  BY DEF UnlinkLookup, At, diskVars
<1>2. Resumes(loc[p]) \in DpAt BY <1>1 DEF Resumes, IputAt, DpAt
<1>3. PICK j \in Inums : j = Entry(p) BY <1>1, <1>2, EntryIs, InumIs
<1>4. ents' \in DirEnts BY <1>1, LocFacts
<1>5. ref' = RefUp(j) /\ loc' = [loc EXCEPT ![p].ip = j, ![p].pc = "unlink2"] BY <1>1, <1>3
<1> QED BY <1>1, <1>4, <1>5, FindStep

LEMMA CreateAllocStep ==
  ASSUME InoInv, NEW p \in Procs, CreateAlloc(p)
  PROVE  InoInv'
<1> DEFINE k == CHOOSE k \in FreeInums : \A j \in FreeInums : k <= j
<1>1. /\ loc[p].pc = "create" /\ FreeInums # {} /\ ref' = RefUp(k)
      /\ loc' = [loc EXCEPT ![p].ip = k, ![p].pc = "create2"]
      /\ cwd' = cwd /\ fip' = fip /\ ents' = [ents EXCEPT ![k] = Empty]
  BY DEF CreateAlloc, At
<1>2. k \in Inums
  <2>1. FreeInums \subseteq Nat /\ FreeInums \subseteq Inums BY InodeConstants DEF FreeInums, Inums
  <2>2. \E a \in FreeInums : \A j \in FreeInums : a <= j BY <1>1, <2>1, LeastNat
  <2>3. k \in FreeInums BY <2>2
  <2> QED BY <2>1, <2>3
<1> HIDE DEF k
<1>3. ents' \in DirEnts BY <1>1, <1>2, EntsEmpty, LocFacts
<1> QED BY <1>1, <1>2, <1>3, FindStep

LEMMA CreateExistsStep ==
  ASSUME InoInv, NEW p \in Procs, CreateExists(p)
  PROVE  InoInv'
<1> DEFINE l == loc[p]
           j == Entry(p)
           m == [l EXCEPT !.ip = j, !.put = l.dp, !.ret = "exists", !.pc = "iput"]
<1>1. /\ l \in LocRec /\ LocOK(l) /\ cwd[p] \in Inums /\ fip[p] \in 0..NINODES /\ ents \in DirEnts
      /\ cwd \in [Procs -> Inums] /\ fip \in [Procs -> 0..NINODES] /\ loc \in [Procs -> LocRec]
  BY LocFacts DEF InoInv, InoTypes
<1>2. /\ l.pc = "create" /\ j # 0 /\ ref' = RefUp(j) /\ cwd' = cwd /\ fip' = fip /\ ents' = ents
      /\ loc' = [loc EXCEPT ![p].ip = j, ![p].put = l.dp, ![p].ret = "exists", ![p].pc = "iput"]
  BY DEF CreateExists, At, diskVars
<1>3. Resumes(l) \in DpAt BY <1>2 DEF Resumes, IputAt, DpAt
<1>4. j \in 0..NINODES /\ j \in Inums /\ l.dp \in Inums BY <1>2, <1>3, EntryIs, InumIs
<1>5. l.dp \in 0..NINODES /\ l.dp # 0 BY <1>4, InumIs
<1> HIDE DEF j
<1>6. loc' = [loc EXCEPT ![p] = m] BY <1>1, <1>2 DEF LocRec
<1>7. "iput" \in Labels /\ "exists" \in Labels BY DEF Labels, IputAt, IpAt
<1>8. /\ m \in LocRec /\ m.pc = "iput" /\ m.op = l.op /\ m.parent = l.parent /\ m.ip = j
      /\ m.put = l.dp /\ m.ret = "exists"
  BY <1>1, <1>4, <1>5, <1>7 DEF LocRec
<1> HIDE DEF l, m
<1>9. LocOK(m)
  BY <1>1, <1>2, <1>5, <1>8 DEF LocOK, Resumes, IputAt, CurAt, DpAt, IpAt, MayIp
<1>10. HasPut(m) = l.dp /\ HasCur(m) = 0 /\ HasDp(m) = 0 /\ HasIp(m) = j
  BY <1>8 DEF HasPut, HasCur, HasDp, HasIp, Resumes, IputAt, CurAt, DpAt, IpAt, MayIp
<1>11. HasPut(l) = 0 /\ HasCur(l) = 0 /\ HasDp(l) = l.dp /\ HasIp(l) = 0
  BY <1>2 DEF HasPut, HasCur, HasDp, HasIp, Resumes, IputAt, CurAt, DpAt, IpAt, MayIp
<1>12. Becomes(p, cwd[p], fip[p], m) BY <1>1, <1>2, <1>6, <1>8, <1>9 DEF Becomes
<1>13. \A i \in Inums : i # 0 BY InumIs
<1>14. \A i \in Inums : Row(cwd[p], fip[p], m, i) = Row(cwd[p], fip[p], l, i) + One(j = i)
  BY <1>10, <1>11, <1>13 DEF Row, One
<1> QED BY <1>1, <1>2, <1>4, <1>12, <1>14, UpStep DEF l
-----------------------------------------------------------------------------
(* The other steps.                                                        *)
LEMMA GoesStep ==
  ASSUME InoInv, NEW p \in Procs,
         NamexLock(p) \/ Iput(p) \/ Itrunc(p) \/ Freed(p) \/ LinkCount(p) \/ ParentLock(p)
  PROVE  InoInv'
<1>0. ents \in DirEnts /\ loc[p] \in LocRec /\ LocOK(loc[p]) BY LocFacts
<1>1. CASE NamexLock(p)
  <2>1. /\ Goto(p, "walk") /\ cwd' = cwd /\ fip' = fip /\ ref' = ref /\ ents' = ents
        /\ GoPairs(loc[p], "walk")
    BY <1>1 DEF NamexLock, At, diskVars, GoPairs
  <2> QED BY <1>0, <2>1, GoStep
<1>2. CASE Iput(p)
  <2>1. /\ cwd' = cwd /\ fip' = fip /\ ref' = ref /\ ents' = ents /\ loc[p].pc = "iput"
        /\ Goto(p, "itrunc") \/ Goto(p, "unref")
    BY <1>2 DEF Iput, At, diskVars
  <2>2. GoPairs(loc[p], "itrunc") /\ GoPairs(loc[p], "unref") BY <2>1 DEF GoPairs, IputAt
  <2> QED BY <1>0, <2>1, <2>2, GoStep
<1>3. CASE Itrunc(p)
  <2>1. /\ Goto(p, "freed") /\ cwd' = cwd /\ fip' = fip /\ ref' = ref /\ loc[p].pc = "itrunc"
        /\ ents' = [ents EXCEPT ![loc[p].put] = Empty]
    BY <1>3 DEF Itrunc, At, cacheVars
  <2>2. GoPairs(loc[p], "freed") BY <2>1 DEF GoPairs, IputAt
  <2>3. loc[p].put \in Inums
    <3>1. loc[p].put \in 0..NINODES BY <1>0, LocTypes
    <3>2. loc[p].put # 0 BY <1>0, <2>1 DEF LocOK, IputAt
    <3> QED BY <3>1, <3>2, InumIs
  <2>4. ents' \in DirEnts BY <1>0, <2>1, <2>3, EntsEmpty
  <2> QED BY <2>1, <2>2, <2>4, GoStep
<1>4. CASE Freed(p)
  <2>1. /\ Goto(p, "unref") /\ cwd' = cwd /\ fip' = fip /\ ref' = ref /\ ents' = ents
        /\ loc[p].pc = "freed"
    BY <1>4 DEF Freed, At, diskVars
  <2>2. GoPairs(loc[p], "unref") BY <2>1 DEF GoPairs, IputAt
  <2> QED BY <1>0, <2>1, <2>2, GoStep
<1>5. CASE LinkCount(p)
  <2>1. /\ Goto(p, "linknew") /\ cwd' = cwd /\ fip' = fip /\ ref' = ref /\ ents' = ents
        /\ GoPairs(loc[p], "linknew")
    BY <1>5 DEF LinkCount, At, GoPairs
  <2> QED BY <1>0, <2>1, GoStep
<1>6. CASE ParentLock(p)
  <2> DEFINE s == IF loc[p].op \in Creating THEN "create" ELSE loc[p].op
  <2>1. /\ Goto(p, s) /\ cwd' = cwd /\ fip' = fip /\ ref' = ref /\ ents' = ents
        /\ loc[p].pc = "parent"
    BY <1>6 DEF ParentLock, At, diskVars
  <2>2. GoPairs(loc[p], s) BY <2>1 DEF GoPairs
  <2> HIDE DEF s
  <2> QED BY <1>0, <2>1, <2>2, GoStep
<1> QED BY <1>1, <1>2, <1>3, <1>4, <1>5, <1>6

LEMMA PutsAnyStep ==
  ASSUME InoInv, NEW p \in Procs,
         \/ LinkOld(p) \/ LinkBad(p) \/ LinkUnlock(p) \/ PutIp(p) \/ UnlinkBad(p)
         \/ UnlinkNotEmpty(p) \/ UnlinkUnlock(p) \/ Unlinked(p) \/ LinkEntry(p)
         \/ UnlinkEntry(p) \/ CreateEntry(p)
  PROVE  InoInv'
<1>0. ents \in DirEnts /\ loc[p] \in LocRec /\ LocOK(loc[p]) BY LocFacts
<1>1. CASE LinkOld(p)
  <2>1. /\ IputThen(p, loc[p].ip, "end") /\ loc[p].pc = "found" /\ cwd' = cwd /\ fip' = fip /\ ref' = ref
        /\ ents' = ents
    BY <1>1 DEF LinkOld, At, diskVars, cacheVars
  <2>2. PutPairs(loc[p], loc[p].ip, "end") BY <2>1 DEF PutPairs
  <2> QED BY <1>0, <2>1, <2>2, PutsStep
<1>2. CASE LinkBad(p)
  <2>1. /\ IputThen(p, loc[p].ip, "end") /\ loc[p].pc = "linkbad" /\ cwd' = cwd /\ fip' = fip /\ ref' = ref
        /\ ents' = ents
    BY <1>2 DEF LinkBad, At, diskVars, cacheVars
  <2>2. PutPairs(loc[p], loc[p].ip, "end") BY <2>1 DEF PutPairs
  <2> QED BY <1>0, <2>1, <2>2, PutsStep
<1>3. CASE LinkUnlock(p)
  <2>1. /\ IputThen(p, loc[p].dp, "linkbad") /\ loc[p].pc = "linkunlock" /\ cwd' = cwd /\ fip' = fip /\ ref' = ref
        /\ ents' = ents
    BY <1>3 DEF LinkUnlock, At, diskVars, cacheVars
  <2>2. PutPairs(loc[p], loc[p].dp, "linkbad") BY <2>1 DEF PutPairs
  <2> QED BY <1>0, <2>1, <2>2, PutsStep
<1>4. CASE PutIp(p)
  <2>1. /\ IputThen(p, loc[p].ip, "end") /\ loc[p].pc = "putip" /\ cwd' = cwd /\ fip' = fip /\ ref' = ref
        /\ ents' = ents
    BY <1>4 DEF PutIp, At, diskVars, cacheVars
  <2>2. PutPairs(loc[p], loc[p].ip, "end") BY <2>1 DEF PutPairs
  <2> QED BY <1>0, <2>1, <2>2, PutsStep
<1>5. CASE UnlinkBad(p)
  <2>1. /\ IputThen(p, loc[p].dp, "end") /\ loc[p].pc = "unlink" /\ cwd' = cwd /\ fip' = fip /\ ref' = ref
        /\ ents' = ents
    BY <1>5 DEF UnlinkBad, At, diskVars, cacheVars
  <2>2. PutPairs(loc[p], loc[p].dp, "end") BY <2>1 DEF PutPairs
  <2> QED BY <1>0, <2>1, <2>2, PutsStep
<1>6. CASE UnlinkNotEmpty(p)
  <2>1. /\ IputThen(p, loc[p].ip, "unlinkbad") /\ loc[p].pc = "unlink2" /\ cwd' = cwd /\ fip' = fip /\ ref' = ref
        /\ ents' = ents
    BY <1>6 DEF UnlinkNotEmpty, At, diskVars, cacheVars
  <2>2. PutPairs(loc[p], loc[p].ip, "unlinkbad") BY <2>1 DEF PutPairs
  <2> QED BY <1>0, <2>1, <2>2, PutsStep
<1>7. CASE UnlinkUnlock(p)
  <2>1. /\ IputThen(p, loc[p].dp, "end") /\ loc[p].pc = "unlinkbad" /\ cwd' = cwd /\ fip' = fip /\ ref' = ref
        /\ ents' = ents
    BY <1>7 DEF UnlinkUnlock, At, diskVars, cacheVars
  <2>2. PutPairs(loc[p], loc[p].dp, "end") BY <2>1 DEF PutPairs
  <2> QED BY <1>0, <2>1, <2>2, PutsStep
<1>8. CASE Unlinked(p)
  <2>1. /\ IputThen(p, loc[p].ip, "end") /\ loc[p].pc = "unlinked" /\ cwd' = cwd /\ fip' = fip /\ ref' = ref
        /\ ents' = ents
    BY <1>8 DEF Unlinked, At, diskVars, cacheVars
  <2>2. PutPairs(loc[p], loc[p].ip, "end") BY <2>1 DEF PutPairs
  <2> QED BY <1>0, <2>1, <2>2, PutsStep
<1>9. CASE LinkEntry(p)
  <2>1. /\ IputThen(p, loc[p].dp, "putip") /\ loc[p].pc = "link" /\ cwd' = cwd /\ fip' = fip /\ ref' = ref
    BY <1>9 DEF LinkEntry, At, diskVars, cacheVars
  <2>2. PutPairs(loc[p], loc[p].dp, "putip") BY <2>1 DEF PutPairs
  <2>3. ents' \in DirEnts
    <3>1. ents' = [ents EXCEPT ![loc[p].dp][loc[p].name] = loc[p].ip] BY <1>9 DEF LinkEntry
    <3>2. Resumes(loc[p]) \in DpAt BY <2>1 DEF Resumes, IputAt, DpAt
    <3>3. loc[p].dp \in Inums /\ loc[p].name \in DirNames /\ loc[p].ip \in 0..NINODES
      BY <1>0, <3>2, EntryIs, LocTypes
    <3> QED BY <1>0, <3>1, <3>3, EntsSet
  <2> QED BY <2>1, <2>2, <2>3, PutsStep
<1>10. CASE UnlinkEntry(p)
  <2>1. /\ IputThen(p, loc[p].dp, "unlinked") /\ loc[p].pc = "unlink2" /\ cwd' = cwd /\ fip' = fip /\ ref' = ref
    BY <1>10 DEF UnlinkEntry, At, diskVars, cacheVars
  <2>2. PutPairs(loc[p], loc[p].dp, "unlinked") BY <2>1 DEF PutPairs
  <2>3. ents' \in DirEnts
    <3>1. ents' = [ents EXCEPT ![loc[p].dp][loc[p].name] = 0] BY <1>10 DEF UnlinkEntry
    <3>2. Resumes(loc[p]) \in DpAt BY <2>1 DEF Resumes, IputAt, DpAt
    <3>3. loc[p].dp \in Inums /\ loc[p].name \in DirNames /\ 0 \in 0..NINODES
      BY <3>2, EntryIs, InodeConstants
    <3> QED BY <1>0, <3>1, <3>3, EntsSet
  <2> QED BY <2>1, <2>2, <2>3, PutsStep
<1>11. CASE CreateEntry(p)
  <2>1. /\ IputThen(p, loc[p].dp, "created") /\ loc[p].pc = "create2" /\ cwd' = cwd /\ fip' = fip /\ ref' = ref
    BY <1>11 DEF CreateEntry, At, diskVars, cacheVars
  <2>2. PutPairs(loc[p], loc[p].dp, "created") BY <2>1 DEF PutPairs
  <2>3. ents' \in DirEnts
    <3> DEFINE i == loc[p].ip
               d == loc[p].dp
               e == IF loc[p].op = "mkdir" THEN [ents[i] EXCEPT !["."] = i, ![".."] = d] ELSE ents[i]
    <3>1. ents' = [ents EXCEPT ![i] = e, ![d][loc[p].name] = i] BY <1>11 DEF CreateEntry
    <3>2. Resumes(loc[p]) \in DpAt /\ Resumes(loc[p]) \in IpAt BY <2>1 DEF Resumes, IputAt, DpAt, IpAt
    <3>3. d \in Inums /\ loc[p].name \in DirNames BY <3>2, EntryIs
    <3>4. i \in 0..NINODES /\ i # 0 BY <1>0, <3>2, LocTypes DEF LocOK
    <3>5. i \in Inums /\ d \in 0..NINODES BY <3>3, <3>4, InumIs
    <3>6. e \in [DirNames -> 0..NINODES] BY <1>0, <3>4, <3>5 DEF DirEnts
    <3> HIDE DEF e, i, d
    <3>7. [ents EXCEPT ![i] = e] \in DirEnts BY <1>0, <3>5, <3>6 DEF DirEnts
    <3>8. [[ents EXCEPT ![i] = e] EXCEPT ![d][loc[p].name] = i] \in DirEnts
      BY <3>3, <3>4, <3>7, EntsSet
    <3> QED BY <3>1, <3>8
  <2> QED BY <2>1, <2>2, <2>3, PutsStep
<1> QED BY <1>1, <1>2, <1>3, <1>4, <1>5, <1>6, <1>7, <1>8, <1>9, <1>10, <1>11

LEMMA AnyOpenedStep ==
  ASSUME InoInv, NEW p \in Procs, Open(p) \/ Exists(p) \/ Created(p)
  PROVE  InoInv'
<1>1. CASE Open(p) BY <1>1, OpenedStep DEF Open, At, diskVars
<1>2. CASE Exists(p) BY <1>2, OpenedStep DEF Exists, At, diskVars
<1>3. CASE Created(p) BY <1>3, OpenedStep DEF Created, At, diskVars
<1> QED BY <1>1, <1>2, <1>3

LEMMA InoNext ==
  ASSUME InoInv, [Next]_vars
  PROVE  InoInv'
<1>1. CASE UNCHANGED vars
  BY <1>1 DEF InoInv, InoTypes, vars, diskVars, cacheVars
<1>2. CASE Next
  <2>1. PICK p \in Procs : Step(p) \/ CloseFile(p) \/ \E c \in Calls[p] : Begin(p, c)
    BY <1>2 DEF Next
  <2>2. CASE CloseFile(p) BY <2>2, CloseFileStep
  <2>3. CASE \E c \in Calls[p] : Begin(p, c) BY <2>3, BeginStep
  <2>4. CASE CreateNoInodes(p)
    BY <2>4 DEF InoInv, InoTypes, CreateNoInodes, diskVars, cacheVars
  <2>5. CASE Step(p)
    BY <2>4, <2>5, NamexEndStep, WalkStep, EndStep, UnrefStep, ChdirStep, LinkNewStep, LinkExistsStep,
       UnlinkLookupStep, CreateExistsStep, CreateAllocStep, GoesStep, PutsAnyStep, AnyOpenedStep
    DEF Step
  <2> QED BY <2>1, <2>2, <2>3, <2>5
<1> QED BY <1>1, <1>2

(* After boot every process is in the root directory.                      *)
LEMMA InoInit ==
  ASSUME Init
  PROVE  InoInv
<1>1. /\ cwd = [p \in Procs |-> ROOTINO] /\ fip = [p \in Procs |-> 0] /\ loc = [p \in Procs |-> Idle]
      /\ ref = [i \in Inums |-> IF i = ROOTINO THEN Cardinality(Procs) ELSE 0]
  BY DEF Init
<1>2. ROOTINO \in Inums /\ 0 \in 0..NINODES /\ ROOTINO \in 0..NINODES
  BY InodeConstants DEF ROOTINO, Inums
<1>3. Cardinality(Procs) \in Nat BY ProcsFinite, FS_CardinalityType
<1>4. ents \in DirEnts
  <2>1. Empty \in [DirNames -> 0..NINODES] BY <1>2 DEF Empty
  <2>2. [Empty EXCEPT !["."] = ROOTINO, ![".."] = ROOTINO] \in [DirNames -> 0..NINODES]
    BY <1>2, <2>1
  <2> DEFINE e == [Empty EXCEPT !["."] = ROOTINO, ![".."] = ROOTINO]
  <2>3. ents = [i \in Inums |-> IF i = ROOTINO THEN e ELSE Empty] BY DEF Init
  <2> HIDE DEF e
  <2>4. e \in [DirNames -> 0..NINODES] BY <2>2 DEF e
  <2> QED BY <2>1, <2>3, <2>4 DEF DirEnts
<1>5. InoTypes BY <1>1, <1>2, <1>3, <1>4, IdleFacts DEF InoTypes
<1>6. \A p \in Procs : LocOK(loc[p]) BY <1>1, IdleFacts
<1>7. ASSUME NEW i \in Inums PROVE ref[i] = RefSum(cwd, fip, loc, i)
  <2>1. i # 0 BY InumIs
  <2>2. HasPut(Idle) = 0 /\ HasCur(Idle) = 0 /\ HasDp(Idle) = 0 /\ HasIp(Idle) = 0
    BY IdleFacts, HasAtRest
  <2>3. /\ Count(fip, Procs, i) = 0 /\ Count(Puts(loc), Procs, i) = 0 /\ Count(Curs(loc), Procs, i) = 0
        /\ Count(Dps(loc), Procs, i) = 0 /\ Count(Ips(loc), Procs, i) = 0
    <3>1. \A p \in Procs : fip[p] # i BY <1>1, <2>1
    <3>2. \A p \in Procs : Puts(loc)[p] # i BY <1>1, <2>1, <2>2 DEF Puts
    <3>3. \A p \in Procs : Curs(loc)[p] # i BY <1>1, <2>1, <2>2 DEF Curs
    <3>4. \A p \in Procs : Dps(loc)[p] # i BY <1>1, <2>1, <2>2 DEF Dps
    <3>5. \A p \in Procs : Ips(loc)[p] # i BY <1>1, <2>1, <2>2 DEF Ips
    <3> QED BY <3>1, <3>2, <3>3, <3>4, <3>5, CountNone
  <2>4. Count(cwd, Procs, i) = IF i = ROOTINO THEN Cardinality(Procs) ELSE 0
    <3>1. CASE i = ROOTINO
      <4>1. {p \in Procs : cwd[p] = i} = Procs BY <1>1, <3>1
      <4>2. Count(cwd, Procs, i) = Cardinality(Procs) BY <4>1, Zenon DEF Count
      <4> QED BY <3>1, <4>2
    <3>2. CASE i # ROOTINO
      <4>1. \A p \in Procs : cwd[p] # i BY <1>1, <3>2
      <4> QED BY <3>2, <4>1, CountNone
    <3> QED BY <3>1, <3>2
  <2> QED BY <1>1, <1>3, <2>3, <2>4 DEF RefSum
<1> QED BY <1>5, <1>6, <1>7 DEF InoInv

LEMMA QuietCounts ==
  ASSUME InoInv
  PROVE  RefCounts
<1> SUFFICES ASSUME Quiet, NEW i \in Inums PROVE ref[i] = HoldersOf(i)
  BY DEF RefCounts
<1>1. i # 0 BY InumIs
<1>2. \A p \in Procs : HasPut(loc[p]) = 0 /\ HasCur(loc[p]) = 0 /\ HasDp(loc[p]) = 0 /\ HasIp(loc[p]) = 0
  BY HasAtRest DEF Quiet
<1>3. \A p \in Procs : Puts(loc)[p] # i BY <1>1, <1>2 DEF Puts
<1>4. \A p \in Procs : Curs(loc)[p] # i BY <1>1, <1>2 DEF Curs
<1>5. \A p \in Procs : Dps(loc)[p] # i BY <1>1, <1>2 DEF Dps
<1>6. \A p \in Procs : Ips(loc)[p] # i BY <1>1, <1>2 DEF Ips
<1>7. /\ Count(Puts(loc), Procs, i) = 0 /\ Count(Curs(loc), Procs, i) = 0
      /\ Count(Dps(loc), Procs, i) = 0 /\ Count(Ips(loc), Procs, i) = 0
  BY <1>3, <1>4, <1>5, <1>6, CountNone
<1>8. Count(cwd, Procs, i) \in Nat /\ Count(fip, Procs, i) \in Nat BY ProcsFinite, CountIsNat
<1>9. ref[i] = RefSum(cwd, fip, loc, i) BY DEF InoInv
<1>10. HoldersOf(i) = Count(cwd, Procs, i) + Count(fip, Procs, i) BY DEF HoldersOf, Count
<1> QED BY <1>7, <1>8, <1>9, <1>10 DEF RefSum

(* Between calls an inode has a reference for every current directory and  *)
(* every open file, whatever calls the processes make and however their    *)
(* steps, iput()'s included, interleave: namex(), create(), link(),        *)
(* unlink(), open() and chdir() lose no reference and put none twice.      *)
THEOREM InodeRefs == Spec => []RefCounts
<1>1. Init => InoInv BY InoInit
<1>2. InoInv /\ [Next]_vars => InoInv' BY InoNext
<1>3. InoInv => RefCounts BY QuietCounts
<1> QED BY <1>1, <1>2, <1>3, PTL DEF Spec
=============================================================================
