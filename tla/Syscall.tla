------------------------------ MODULE Syscall -------------------------------
(***************************************************************************)
(* The arguments of system calls (syscall.c): which addresses of the       *)
(* calling process fetchint(), fetchstr() and argptr() accept.  A program  *)
(* may put any word on its stack, and point its stack anywhere; their only *)
(* defence is the comparison with p->sz, on words that wrap around.        *)
(*                                                                         *)
(* What is accepted is not all that the kernel follows: sys_mirrorctx()    *)
(* ignores argptr()'s answer (sysproc.c:161), and mirrorctx() follows the  *)
(* pointers in the program's lines unchecked (console.c:217-224).          *)
(***************************************************************************)
EXTENDS Memory

CONSTANTS WORD,   \* 2^32, in the units of addresses
          INT     \* sizeof(int)

ASSUME SyscallConstants ==
  /\ WORD \in Nat /\ INT \in Nat \ {0}
  /\ KERNBASE <= WORD \div 2 /\ INT < WORD - KERNBASE

Words == 0..(WORD - 1)
Ints == (-(WORD \div 2))..(WORD \div 2 - 1)
Plus(a, n) == (a + n) % WORD

(* What each accepts in a process of size s.  The pointer argptr() returns *)
(* is followed for n units, the one fetchstr() returns up to a zero, which *)
(* it looks for below s.                                                   *)
fetchint(s, addr) == addr < s /\ Plus(addr, INT) <= s
fetchstr(s, addr) == addr < s

argptrEndOnly(s, i, n) == n >= 0 /\ Plus(i, n) <= s
argptr(s, i, n) == n >= 0 /\ i < s /\ Plus(i, n) <= s

(* The units they accept in a process of size s, whatever the arguments    *)
(* are: those of an int, those up to the end for a string, n of a buffer.  *)
Accepted == [s \in 0..KERNBASE |->
  (UNION {addr..(addr + INT - 1) : addr \in {a \in Words : fetchint(s, a)}})
  \cup (UNION {addr..(s - 1) : addr \in {a \in Words : fetchstr(s, a)}})
  \cup (UNION {r[1]..(r[1] + r[2] - 1) : r \in {x \in Words \X Ints : argptr(s, x[1], x[2])}})]
-----------------------------------------------------------------------------
PagesAccepted == [s \in 0..KERNBASE |-> {a \div PGSIZE : a \in Accepted[s]}]

(* Whatever addresses and sizes a program gives, what fetchint(),          *)
(* fetchstr() and argptr() accept lies below KERNBASE and, unless the      *)
(* program gave all its memory back (growproc() kept its sz), in memory    *)
(* that is mapped for it: a caller that heeds their answer takes no fault  *)
(* in the kernel.  sys_mirrorctx() does not heed it.                       *)
ArgumentsMapped == \A p \in Procs : state[p] = "run" /\ op[p].pc = "user" =>
  \A v \in PagesAccepted[sz[p]] :
    v \in VPages /\ (pte[<<p, "cur">>][v] # 0 \/ GaveAllBack(p))
=============================================================================
