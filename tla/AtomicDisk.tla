----------------------------- MODULE AtomicDisk -----------------------------
(***************************************************************************)
(* What the logging layer (log.c) promises the file system: the disk moves *)
(* from one quiescent state to the next.  A system call that is inside     *)
(* begin_op/end_op changes only memory; what is durable changes in one     *)
(* step, at a moment when no system call is inside an operation, and a     *)
(* crash takes memory back to what was durable.                            *)
(***************************************************************************)
CONSTANTS Procs,     \* processes that run file-system calls
          Blocks,    \* home blocks of the file system
          Data       \* contents of a block

VARIABLES durable,   \* what a reboot would find in every home block
          mem,       \* what bread() shows to a running kernel
          inop       \* processes between begin_op() and end_op()

vars == <<durable, mem, inop>>

Init ==
  /\ durable \in [Blocks -> Data]
  /\ mem = durable
  /\ inop = {}

Begin(p) ==
  /\ p \notin inop
  /\ inop' = inop \cup {p}
  /\ UNCHANGED <<durable, mem>>

Write(p, b, d) ==
  /\ p \in inop
  /\ mem' = [mem EXCEPT ![b] = d]
  /\ UNCHANGED <<durable, inop>>

End(p) ==
  /\ p \in inop
  /\ inop' = inop \ {p}
  /\ UNCHANGED <<durable, mem>>

\* Every operation since the last commit becomes durable together.
Commit ==
  /\ inop = {}
  /\ durable' = mem
  /\ UNCHANGED <<mem, inop>>

Crash ==
  /\ mem' = durable
  /\ inop' = {}
  /\ UNCHANGED durable

Next ==
  \/ \E p \in Procs : Begin(p) \/ End(p)
  \/ \E p \in Procs, b \in Blocks, d \in Data : Write(p, b, d)
  \/ Commit
  \/ Crash

Spec == Init /\ [][Next]_vars
=============================================================================
