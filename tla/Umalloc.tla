------------------------------ MODULE Umalloc ------------------------------
(***************************************************************************)
(* malloc() and free() of user programs (umalloc.c): a circular list of    *)
(* free blocks in the order of their addresses, searched from freep.       *)
(*                                                                         *)
(* Addresses and sizes count headers; address 0 is the static header base. *)
(* A step is one turn of a loop.  One program owns the memory, so nothing  *)
(* runs between the steps; it writes inside its blocks only.  The pointer  *)
(* of a header that is in no list is NONE, since nothing reads it, and the *)
(* size of a header that has been joined to another block is 0.            *)
(***************************************************************************)
EXTENDS Integers, FiniteSetsExt

CONSTANTS LIMIT,      \* end of the memory the kernel can give
          CORE,       \* least number of headers morecore() asks for
          HeaderSize, Requests,  \* bytes of a header, bytes programs ask for
          NONE        \* the null pointer

ASSUME UmallocConstants ==
  /\ LIMIT \in Nat \ {0} /\ CORE \in Nat \ {0} /\ HeaderSize \in Nat \ {0}
  /\ Requests \subseteq Nat \ {0} /\ NONE \notin Int

Addrs == 0..LIMIT
base == 0

VARIABLES
  ptr, size,     \* the fields of the headers
  freep,
  used,          \* blocks the program has: address, headers, bytes it asked for
  brk, core,     \* end of the program, addresses obtained by morecore()
  pc,
  cur,           \* p of malloc() and free()
  prevp, bp, nbytes, nunits,
  caller         \* whom free() returns to

heapVars == <<ptr, size, freep, used, brk, core>>
locals == <<cur, prevp, bp, nbytes, nunits, caller>>
mallocVars == <<heapVars, pc, locals>>

HeapInit ==
  /\ ptr = [a \in Addrs |-> NONE] /\ size = [a \in Addrs |-> 0]
  /\ freep = NONE
  /\ used = {} /\ brk = 1 /\ core = {}
  /\ pc = "user" /\ cur = 0 /\ prevp = 0 /\ bp = 0 /\ nbytes = 0 /\ nunits = 0 /\ caller = "user"

(* The locals are dead once a call returns.                                *)
Returned ==
  /\ pc' = "user" /\ caller' = "user"
  /\ cur' = 0 /\ prevp' = 0 /\ bp' = 0 /\ nbytes' = 0 /\ nunits' = 0
-----------------------------------------------------------------------------
(* Headers for n bytes, the block's own included.                          *)
Units(n) == (n + HeaderSize - 1) \div HeaderSize + 1

(* malloc(n): the first call makes a list of base alone.                   *)
Malloc(n) ==
  /\ pc = "user"
  /\ pc' = "malloc" /\ nbytes' = n /\ nunits' = Units(n)
  /\ freep' = IF freep = NONE THEN base ELSE freep
  /\ ptr' = IF freep = NONE THEN [ptr EXCEPT ![base] = base] ELSE ptr
  /\ prevp' = freep' /\ cur' = ptr'[freep']
  /\ UNCHANGED <<size, used, brk, core, bp, caller>>

(* A block that is large enough: all of it, or its tail.                   *)
Fits == pc = "malloc" /\ size[cur] >= nunits

MallocWhole ==
  /\ Fits /\ size[cur] = nunits
  /\ ptr' = [ptr EXCEPT ![prevp] = ptr[cur], ![cur] = NONE]
  /\ used' = used \cup {<<cur, nunits, nbytes>>}
  /\ freep' = prevp
  /\ Returned /\ UNCHANGED <<size, brk, core>>

TailKeepsSize(s, n) == s
Shortened(s, n) == s - n

MallocTail ==
  LET rest == Shortened(size[cur], nunits)
      tail == cur + size[cur] - nunits IN
  /\ Fits /\ size[cur] # nunits
  /\ size' = [size EXCEPT ![cur] = rest, ![tail] = nunits]
  /\ used' = used \cup {<<tail, nunits, nbytes>>}
  /\ freep' = prevp
  /\ Returned /\ UNCHANGED <<ptr, brk, core>>

MallocNext ==
  /\ pc = "malloc" /\ ~Fits /\ cur # freep
  /\ prevp' = cur /\ cur' = ptr[cur]
  /\ UNCHANGED <<heapVars, pc, bp, nbytes, nunits, caller>>

(* morecore(): the list has been searched.                                 *)
MoreCore ==
  LET nu == IF nunits < CORE THEN CORE ELSE nunits IN
  /\ pc = "malloc" /\ ~Fits /\ cur = freep
  /\ brk + nu <= LIMIT
  /\ size' = [size EXCEPT ![brk] = nu]
  /\ core' = core \cup brk..(brk + nu - 1)
  /\ brk' = brk + nu
  /\ pc' = "free" /\ caller' = "malloc" /\ bp' = brk /\ cur' = freep
  /\ UNCHANGED <<ptr, freep, used, prevp, nbytes, nunits>>

(* sbrk() fails: the program or the machine has no memory left.            *)
NoCore ==
  /\ pc = "malloc" /\ ~Fits /\ cur = freep
  /\ Returned /\ UNCHANGED heapVars
-----------------------------------------------------------------------------
Free(b) ==
  /\ pc = "user" /\ b \in used
  /\ used' = used \ {b}
  /\ pc' = "free" /\ caller' = "user" /\ bp' = b[1] /\ cur' = freep
  /\ UNCHANGED <<ptr, size, freep, brk, core, prevp, nbytes, nunits>>

(* The place for bp is after cur: between two blocks, or past the last.    *)
Between == bp > cur /\ bp < ptr[cur]
AtEndStrict == cur > ptr[cur] /\ (bp > cur \/ bp < ptr[cur])
AtEnd == cur >= ptr[cur] /\ (bp > cur \/ bp < ptr[cur])

FreeNext ==
  /\ pc = "free" /\ ~Between /\ ~AtEnd
  /\ cur' = ptr[cur]
  /\ UNCHANGED <<heapVars, pc, prevp, bp, nbytes, nunits, caller>>

(* Join with the block above, then with the block below.                   *)
JoinsAbove == bp + size[bp] = ptr[cur]
JoinsBelow == cur + size[cur] = bp

FreeInsert ==
  LET above == ptr[cur]
      size1 == IF JoinsAbove THEN [size EXCEPT ![bp] = @ + size[above], ![above] = 0]
               ELSE size
      ptr1 == IF JoinsAbove THEN [ptr EXCEPT ![bp] = ptr[above], ![above] = NONE]
              ELSE [ptr EXCEPT ![bp] = above] IN
  /\ pc = "free" /\ (Between \/ AtEnd)
  /\ size' = IF JoinsBelow THEN [size1 EXCEPT ![cur] = @ + size1[bp], ![bp] = 0] ELSE size1
  /\ ptr' = IF JoinsBelow THEN [ptr1 EXCEPT ![cur] = ptr1[bp], ![bp] = NONE] ELSE [ptr1 EXCEPT ![cur] = bp]
  /\ freep' = cur
  /\ IF caller = "user" THEN Returned
     ELSE /\ pc' = "malloc" /\ caller' = "user" /\ bp' = 0
          /\ prevp' = cur /\ cur' = ptr'[cur] /\ UNCHANGED <<nbytes, nunits>>
  /\ UNCHANGED <<used, brk, core>>

(* The program grows by itself: the heap gets a gap.                       *)
Sbrk ==
  /\ pc = "user" /\ brk < LIMIT
  /\ brk' = brk + 1
  /\ UNCHANGED <<ptr, size, freep, used, core, pc, locals>>

Step == MallocWhole \/ MallocTail \/ MallocNext \/ MoreCore \/ NoCore \/ FreeNext \/ FreeInsert
HeapNext == Step \/ Sbrk \/ (\E n \in Requests : Malloc(n)) \/ (\E b \in used : Free(b))

HeapSpec == HeapInit /\ [][HeapNext]_mallocVars
HeapLiveSpec == HeapSpec /\ WF_mallocVars(Step)
-----------------------------------------------------------------------------
(* Types of the headers, the blocks and the locals.                        *)
HeapTypes ==
  /\ ptr \in [Addrs -> Addrs \cup {NONE}] /\ size \in [Addrs -> Nat]
  /\ freep \in Addrs \cup {NONE} /\ used \subseteq (Addrs \X Nat \X Nat)
  /\ brk \in 1..LIMIT /\ core \subseteq 1..(LIMIT - 1)
  /\ pc \in {"user", "malloc", "free"} /\ {cur, prevp, bp} \subseteq Addrs

FreeList == {a \in Addrs : ptr[a] # NONE}
FreeBlocks == {<<a, size[a]>> : a \in FreeList}
Extent(b) == b[1]..(b[1] + b[2] - 1)

(* A block has room for the bytes it was asked for beside its header, and  *)
(* the header keeps its size, which free() relies on.                      *)
HeadersIntact == \A b \in used : size[b[1]] = b[2] /\ (b[2] - 1) * HeaderSize >= b[3]

(* b is the next free block above a, or base if a is the last one.         *)
Follows(a, b) ==
  /\ b \in FreeList /\ (b > a \/ b = base)
  /\ \A c \in FreeList : c > a => a < b /\ b <= c

(* The list is one circle through base and freep in the order of the       *)
(* addresses, and no two free blocks are neighbours that free() should     *)
(* have joined.                                                            *)
SortedAndJoined ==
  /\ FreeList # {} => {base, freep} \subseteq FreeList
  /\ \A a \in FreeList : Follows(a, ptr[a])
  /\ \A a, b \in FreeList : a # b => a + size[a] # b

(* Between calls every address obtained from the kernel is in exactly one  *)
(* free block or block of the program: blocks do not overlap, nothing is   *)
(* lost, and nothing outside is handed out.  The list is in order, headers *)
(* of blocks are intact and all variables keep their types at all times.   *)
Tiled == HeapTypes /\ HeadersIntact /\ SortedAndJoined /\ (pc = "user" =>
  LET blocks == used \cup FreeBlocks IN
  /\ UNION {Extent(b) : b \in blocks} = core
  /\ \A b, c \in blocks : b # c => Extent(b) \cap Extent(c) = {})

(* The searches of malloc() and free() end.                                *)
Returns == (pc # "user") ~> (pc = "user")
=============================================================================
