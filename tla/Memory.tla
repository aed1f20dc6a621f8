------------------------------- MODULE Memory -------------------------------
(***************************************************************************)
(* Physical pages (kalloc.c) and the address spaces made of them (vm.c),   *)
(* under the calls that build, change and free them: sbrk (growproc), fork,*)
(* exec, exit and wait.                                                    *)
(*                                                                         *)
(* kalloc() and kfree() hold kmem.lock, so a step is what lies between two *)
(* calls of kalloc(), any of which may find no page; frees do not fail and *)
(* are part of the step that makes them.  The order of the free list is    *)
(* not observable.  Addresses are counted in units of which a page has     *)
(* PGSIZE; page 0 stands for none.                                         *)
(***************************************************************************)
EXTENDS Integers, FiniteSetsExt

CONSTANTS Procs, First,       \* process slots; the one running at boot
          NPAGES, PGSIZE,
          NPTENTRIES,         \* pages under one page table
          KERNBASE,           \* end of the user part, in units
          Grow, Segments      \* sizes given to sbrk(), ends of program segments

ASSUME MemoryConstants ==
  /\ First \in Procs /\ NPAGES \in Nat /\ PGSIZE \in Nat \ {0} /\ NPTENTRIES \in Nat \ {0}
  /\ KERNBASE \in Nat /\ KERNBASE > PGSIZE /\ KERNBASE % (PGSIZE * NPTENTRIES) = 0
  /\ NPAGES >= 5 /\ Grow \subseteq Int /\ Segments \subseteq Nat \ {0}

Pages == 1..NPAGES
VPages == 0..(KERNBASE \div PGSIZE - 1)
KernelTable == KERNBASE \div (PGSIZE * NPTENTRIES)
Tables == 0..KernelTable
PGROUNDUP(a) == ((a + PGSIZE - 1) \div PGSIZE) * PGSIZE
PDX(a) == a \div (PGSIZE * NPTENTRIES)

VARIABLES
  free,          \* kmem.freelist
  state, kstack, sz,
  dir,           \* page directory of a space
  tab,           \* page tables of a space
  pte,           \* user pages of a space
  op             \* the call each process is in

(* A process has its address space and, during exec, a new one.            *)
Spaces == Procs \X {"cur", "new"}

spaceVars == <<dir, tab, pte>>
vars == <<free, state, kstack, sz, spaceVars, op>>

NoOp == [pc |-> "user", kind |-> "none", s |-> <<First, "cur">>,
         a |-> 0, old |-> 0, new |-> 0, mem |-> 0]

(* kinit2() and userinit(): the first process has a kernel stack and one   *)
(* page, the other pages are free.                                         *)
Init ==
  LET first == <<First, "cur">> IN
  /\ free = 6..NPAGES
  /\ state = [p \in Procs |-> IF p = First THEN "run" ELSE "unused"]
  /\ kstack = [p \in Procs |-> IF p = First THEN 1 ELSE 0]
  /\ sz = [p \in Procs |-> IF p = First THEN PGSIZE ELSE 0]
  /\ dir = [s \in Spaces |-> IF s = first THEN 2 ELSE 0]
  /\ tab = [s \in Spaces |-> [t \in Tables |->
       CASE s = first /\ t = KernelTable -> 3 [] s = first /\ t = 0 -> 4 [] OTHER -> 0]]
  /\ pte = [s \in Spaces |-> [v \in VPages |-> IF s = first /\ v = 0 THEN 5 ELSE 0]]
  /\ op = [p \in Procs |-> NoOp]

(* copyuvm() and mappages() panic: a page of the parent that is not there, *)
(* an entry that is already in use.  panic() does not return; the other    *)
(* processors go on until they print.                                      *)
VPage(p) == op[p].a \div PGSIZE
Copying(p) == op[p].kind = "fork" /\ op[p].pc = "alloc" /\ op[p].a < op[p].new
NotPresent(p) == Copying(p) /\ pte[<<p, "cur">>][VPage(p)] = 0
Remap(p) == op[p].pc = "map" /\ pte[op[p].s][VPage(p)] # 0
Panics(p) == NotPresent(p) \/ Remap(p)
Halted == (\E p \in Procs : Panics(p)) /\ UNCHANGED vars

At(p, l) == ~Panics(p) /\ state[p] = "run" /\ op[p].pc = l
Goto(p, l) == op' = [op EXCEPT ![p].pc = l]
Return(p) == op' = [op EXCEPT ![p] = NoOp]

HavePage == free # {}
Page == Min(free)
-----------------------------------------------------------------------------
(* What deallocuvm() and freevm() give back.                               *)
Mapped(s, from, to) ==
  {v \in VPages : /\ PGROUNDUP(from) <= v * PGSIZE /\ v * PGSIZE < to
                  /\ pte[s][v] # 0}
UserPart(s, vs) == {pte[s][v] : v \in vs}
Unmapped(s, vs) == [pte EXCEPT ![s] = [v \in VPages |-> IF v \in vs THEN 0 ELSE @[v]]]

(* freevm(): the user pages, the page tables, the directory.               *)
TablesFreed(s) == {tab[s][t] : t \in Tables} \ {0}
WholeSpace(s) == UserPart(s, Mapped(s, 0, KERNBASE)) \cup TablesFreed(s) \cup {dir[s]}

(* exec() and copyuvm() free a space only if setupkvm() gave them one.      *)
GivenBack(s) == WholeSpace(s) \ {0}

Cleared(s) ==
  /\ pte' = [pte EXCEPT ![s] = [v \in VPages |-> 0]]
  /\ tab' = [tab EXCEPT ![s] = [t \in Tables |-> 0]]
  /\ dir' = [dir EXCEPT ![s] = 0]

(* How a call fails once memory runs out, with the page it has in hand:    *)
(* growproc() returns -1; exec() frees the new space, if there is one; and *)
(* copyuvm() and fork() free everything of the child.                      *)
InHandLost(p) == {}
InHand(p) == {op[p].mem} \ {0}

GrownPartKept(p) == {}
GrownPart(p) == Mapped(op[p].s, op[p].old, op[p].new)

FailSbrk(p) ==
  /\ op[p].kind = "sbrk"
  /\ free' = free \cup UserPart(op[p].s, GrownPart(p)) \cup InHand(p)
  /\ pte' = Unmapped(op[p].s, GrownPart(p))
  /\ UNCHANGED <<dir, tab, state, kstack>>

FailExec(p) ==
  /\ op[p].kind \in {"exec", "stack"}
  /\ free' = free \cup GivenBack(op[p].s) \cup InHand(p)
  /\ Cleared(op[p].s)
  /\ UNCHANGED <<state, kstack>>

ForkUndone(c) == {kstack[c]}

FailFork(p) ==
  LET c == op[p].s[1] IN
  /\ op[p].kind = "fork"
  /\ free' = free \cup GivenBack(op[p].s) \cup InHand(p) \cup ForkUndone(c)
  /\ Cleared(op[p].s)
  /\ kstack' = [kstack EXCEPT ![c] = 0]
  /\ state' = [state EXCEPT ![c] = "unused"]

Fail(p) == (FailSbrk(p) \/ FailExec(p) \/ FailFork(p)) /\ Return(p) /\ UNCHANGED sz
-----------------------------------------------------------------------------
(* sbrk(n).  A size of KERNBASE or more, or one below zero, which wraps    *)
(* around to such a size, changes nothing.                                 *)
SbrkRefused(p, n) ==
  /\ At(p, "user")
  /\ sz[p] + n >= KERNBASE \/ sz[p] + n < 0
  /\ UNCHANGED vars

FirstPage(old) == PGROUNDUP(old)

SbrkMore(p, n) ==
  /\ At(p, "user") /\ n > 0 /\ sz[p] + n < KERNBASE
  /\ op' = [op EXCEPT ![p] = [NoOp EXCEPT !.pc = "alloc", !.kind = "sbrk", !.s = <<p, "cur">>,
              !.a = FirstPage(sz[p]), !.old = sz[p], !.new = sz[p] + n]]
  /\ UNCHANGED <<free, state, kstack, sz, spaceVars>>

(* deallocuvm() returns the new size, and growproc() takes 0 for an error: *)
(* it leaves sz as it was, although every page is gone.                    *)
SizeAfter(old, new) == IF new = 0 THEN old ELSE new

SbrkLess(p, n) ==
  LET s == <<p, "cur">>
      vs == Mapped(s, sz[p] + n, sz[p]) IN
  /\ At(p, "user") /\ n < 0 /\ sz[p] + n >= 0
  /\ free' = free \cup UserPart(s, vs)
  /\ pte' = Unmapped(s, vs)
  /\ sz' = [sz EXCEPT ![p] = SizeAfter(@, @ + n)]
  /\ UNCHANGED <<state, kstack, dir, tab, op>>

(* fork(): allocproc() and its kernel stack.                               *)
Fork(p, c) ==
  /\ At(p, "user") /\ state[c] = "unused" /\ HavePage
  /\ state' = [state EXCEPT ![c] = "embryo"]
  /\ kstack' = [kstack EXCEPT ![c] = Page]
  /\ free' = free \ {Page}
  /\ op' = [op EXCEPT ![p] = [NoOp EXCEPT !.pc = "dir", !.kind = "fork", !.s = <<c, "cur">>,
              !.new = sz[p]]]
  /\ UNCHANGED <<sz, spaceVars>>

ForkRefused(p) ==
  /\ At(p, "user")
  /\ ~HavePage \/ \A c \in Procs : state[c] # "unused"
  /\ UNCHANGED vars

(* exec() starts with an empty space ...                                   *)
Exec(p) ==
  /\ At(p, "user")
  /\ op' = [op EXCEPT ![p] = [NoOp EXCEPT !.pc = "dir", !.kind = "exec", !.s = <<p, "new">>]]
  /\ UNCHANGED <<free, state, kstack, sz, spaceVars>>

(* setupkvm(): the directory, and the table of the kernel part.            *)
SetupDir(p) ==
  /\ At(p, "dir") /\ HavePage
  /\ dir' = [dir EXCEPT ![op[p].s] = Page]
  /\ free' = free \ {Page}
  /\ Goto(p, "kernel")
  /\ UNCHANGED <<state, kstack, sz, tab, pte>>

SetupKernel(p) ==
  /\ At(p, "kernel") /\ HavePage
  /\ tab' = [tab EXCEPT ![op[p].s][KernelTable] = Page]
  /\ free' = free \ {Page}
  /\ Goto(p, "alloc")
  /\ UNCHANGED <<state, kstack, sz, dir, pte>>

NoMemory(p) ==
  /\ At(p, "dir") \/ At(p, "kernel") \/ (At(p, "alloc") /\ op[p].a < op[p].new)
  /\ ~HavePage
  /\ Fail(p)

(* allocuvm() refuses a size that reaches the kernel.                      *)
TooLarge(p) ==
  /\ At(p, "alloc") /\ op[p].kind \in {"exec", "stack"} /\ op[p].new >= KERNBASE
  /\ Fail(p)

(* The loops of allocuvm() and copyuvm(): a page ...                       *)
Alloc(p) ==
  /\ At(p, "alloc") /\ op[p].a < op[p].new /\ HavePage
  /\ op[p].new < KERNBASE
  /\ free' = free \ {Page}
  /\ op' = [op EXCEPT ![p].mem = Page, ![p].pc = "map"]
  /\ UNCHANGED <<state, kstack, sz, spaceVars>>

(* ... and its entry, in a page table that may have to be made.            *)
Entered(p) ==
  /\ pte' = [pte EXCEPT ![op[p].s][VPage(p)] = op[p].mem]
  /\ op' = [op EXCEPT ![p].mem = 0, ![p].a = @ + PGSIZE, ![p].pc = "alloc"]
  /\ UNCHANGED <<state, kstack, sz, dir>>

HasTable(p) == tab[op[p].s][PDX(op[p].a)] # 0

MapPage(p) ==
  /\ At(p, "map") /\ HasTable(p)
  /\ Entered(p)
  /\ UNCHANGED <<free, tab>>

MapTable(p) ==
  /\ At(p, "map") /\ ~HasTable(p) /\ HavePage
  /\ tab' = [tab EXCEPT ![op[p].s][PDX(op[p].a)] = Page]
  /\ free' = free \ {Page}
  /\ Entered(p)

MapFails(p) ==
  /\ At(p, "map") /\ ~HasTable(p) /\ ~HavePage
  /\ Fail(p)
-----------------------------------------------------------------------------
AllAllocated(p) == At(p, "alloc") /\ op[p].a >= op[p].new /\ op[p].new < KERNBASE

SbrkDone(p) ==
  /\ AllAllocated(p) /\ op[p].kind = "sbrk"
  /\ sz' = [sz EXCEPT ![p] = op[p].new]
  /\ Return(p)
  /\ UNCHANGED <<free, state, kstack, spaceVars>>

ForkDone(p) ==
  LET c == op[p].s[1] IN
  /\ AllAllocated(p) /\ op[p].kind = "fork"
  /\ sz' = [sz EXCEPT ![c] = sz[p]]
  /\ state' = [state EXCEPT ![c] = "run"]
  /\ Return(p)
  /\ UNCHANGED <<free, kstack, spaceVars>>

(* ... loads segments that end at n; allocuvm() never makes it smaller ...  *)
ExecSegment(p, n) ==
  /\ AllAllocated(p) /\ op[p].kind = "exec"
  /\ op' = [op EXCEPT ![p].a = FirstPage(op[p].new), ![p].old = op[p].new,
                      ![p].new = IF n < @ THEN @ ELSE n]
  /\ UNCHANGED <<free, state, kstack, sz, spaceVars>>

(* ... and gives up if the file is not there, is not a program, cannot be  *)
(* read, or has a segment that is not page-aligned.                        *)
ExecBad(p) ==
  /\ op[p].kind = "exec"
  /\ At(p, "dir") \/ AllAllocated(p)
  /\ Fail(p)

(* exec(): the program is loaded; two more pages for the stack.            *)
ExecStack(p) ==
  /\ AllAllocated(p) /\ op[p].kind = "exec"
  /\ LET top == PGROUNDUP(op[p].new) IN
       op' = [op EXCEPT ![p].kind = "stack", ![p].a = top, ![p].old = top,
                        ![p].new = top + 2 * PGSIZE]
  /\ UNCHANGED <<free, state, kstack, sz, spaceVars>>

(* exec(): the arguments do not fit.                                       *)
ExecArgsBad(p) ==
  /\ AllAllocated(p) /\ op[p].kind = "stack"
  /\ Fail(p)

(* exec(): commit to the new image, and free the old one.                  *)
ExecCommit(p) ==
  LET cur == <<p, "cur">>
      new == <<p, "new">> IN
  /\ AllAllocated(p) /\ op[p].kind = "stack"
  /\ free' = free \cup WholeSpace(cur)
  /\ dir' = [dir EXCEPT ![cur] = dir[new], ![new] = 0]
  /\ tab' = [tab EXCEPT ![cur] = tab[new], ![new] = [t \in Tables |-> 0]]
  /\ pte' = [pte EXCEPT ![cur] = pte[new], ![new] = [v \in VPages |-> 0]]
  /\ sz' = [sz EXCEPT ![p] = op[p].new]
  /\ Return(p)
  /\ UNCHANGED <<state, kstack>>

Exit(p) ==
  /\ At(p, "user") /\ p # First
  /\ state' = [state EXCEPT ![p] = "zombie"]
  /\ UNCHANGED <<free, kstack, sz, spaceVars, op>>

Wait(p, c) ==
  /\ At(p, "user") /\ state[c] = "zombie"
  /\ free' = free \cup {kstack[c]} \cup WholeSpace(<<c, "cur">>)
  /\ Cleared(<<c, "cur">>)
  /\ kstack' = [kstack EXCEPT ![c] = 0]
  /\ state' = [state EXCEPT ![c] = "unused"]
  /\ UNCHANGED <<sz, op>>

Next == \E p \in Procs :
  \/ \E n \in Grow : SbrkRefused(p, n) \/ SbrkMore(p, n) \/ SbrkLess(p, n)
  \/ Exec(p) \/ \E n \in Segments : ExecSegment(p, n)
  \/ \E c \in Procs : Fork(p, c) \/ Wait(p, c)
  \/ ForkRefused(p) \/ ExecBad(p) \/ SetupDir(p) \/ SetupKernel(p) \/ NoMemory(p)
  \/ TooLarge(p) \/ Alloc(p) \/ MapPage(p) \/ MapTable(p) \/ MapFails(p)
  \/ SbrkDone(p) \/ ForkDone(p) \/ ExecStack(p) \/ ExecArgsBad(p) \/ ExecCommit(p)
  \/ Exit(p) \/ Halted

Spec == Init /\ [][Next]_vars
-----------------------------------------------------------------------------
(* Types of the pages, tables and calls.                                   *)
TypeOK ==
  /\ free \subseteq Pages
  /\ state \in [Procs -> {"unused", "embryo", "run", "zombie"}]
  /\ kstack \in [Procs -> Pages \cup {0}] /\ sz \in [Procs -> 0..KERNBASE]
  /\ dir \in [Spaces -> Pages \cup {0}]
  /\ tab \in [Spaces -> [Tables -> Pages \cup {0}]]
  /\ pte \in [Spaces -> [VPages -> Pages \cup {0}]]

(* All the places that hold pages outside the free list.                   *)
Places == {<<"kstack", p>> : p \in Procs} \cup {<<"mem", p>> : p \in Procs}
          \cup {<<"dir", s>> : s \in Spaces}
          \cup {<<"tab", s, t>> : s \in Spaces, t \in Tables}
          \cup {<<"pte", s, v>> : s \in Spaces, v \in VPages}
Held(x) == CASE x[1] = "kstack" -> kstack[x[2]] [] x[1] = "mem" -> op[x[2]].mem
             [] x[1] = "dir" -> dir[x[2]] [] x[1] = "tab" -> tab[x[2]][x[3]]
             [] x[1] = "pte" -> pte[x[2]][x[3]]
InPlace == {x \in Places : Held(x) # 0}

(* Every page is on the free list or held in exactly one place, whatever   *)
(* allocation of whichever call fails: nothing leaks, nothing is freed     *)
(* while it is mapped, and nothing is mapped twice.  All fields keep their *)
(* types.                                                                  *)
PagesConserved ==
  /\ TypeOK
  /\ free \cup {Held(x) : x \in InPlace} = Pages
  /\ Cardinality(free) + Cardinality(InPlace) = NPAGES

(* A program has given back its first page: only sbrk() by minus its size  *)
(* can do that (proc.c:169), and exec() makes it good.                     *)
GaveAllBack(p) == pte[<<p, "cur">>][0] = 0

(* The pages below p->sz, which copyuvm() and the system call arguments    *)
(* rely on, are the ones that are mapped; proc.h on sz: "Size of process   *)
(* memory (bytes)".  A program that gave all its memory back is excused:   *)
(* growproc() kept its sz, so of its pages below sz some are missing, and  *)
(* copyuvm() panics when it calls fork().  No other panic of vm.c is       *)
(* reached: mappages() finds the entry it fills empty, and copyuvm() finds *)
(* every page of any other parent there.                                   *)
MappedBelowSize ==
  /\ \A p \in Procs : ~Remap(p) /\ (NotPresent(p) => GaveAllBack(p))
  /\ \A p \in Procs : state[p] = "run" /\ op[p].pc = "user" =>
       LET mapped == {v \in VPages : pte[<<p, "cur">>][v] # 0}
           below  == {v \in VPages : v * PGSIZE < sz[p]} IN
       mapped \subseteq below /\ (mapped = below \/ GaveAllBack(p))
=============================================================================
