-------------------------------- MODULE Pipe --------------------------------
(***************************************************************************)
(* A pipe (pipe.c), the two struct files of its ends (file.c) and the      *)
(* processes that hold descriptors on them.                                *)
(*                                                                         *)
(* A critical section under p->lock is one action, up to the point where   *)
(* pipewrite() or piperead() has tested killed and is about to sleep: there *)
(* another CPU can run kill(), which takes only ptable.lock.  Processes     *)
(* beyond the first are made by fork(); a process holds an end at most      *)
(* once.                                                                   *)
(***************************************************************************)
EXTENDS Integers, Sequences, FiniteSets

CONSTANTS Procs,
          PIPESIZE,
          WORD,      \* nread and nwrite are unsigned: they wrap at WORD (2^32)
          Byte,
          MaxN,      \* bound: bytes in one read or write call
          Killable   \* processes that kill() is called on

Ends == {"r", "w"}
None == "none"

ASSUME PipeConstants ==
  /\ IsFiniteSet(Procs) /\ None \notin Procs     \* NPROC slots
  /\ PIPESIZE \in Nat \ {0} /\ WORD \in Nat
  /\ WORD > PIPESIZE /\ WORD % PIPESIZE = 0
  /\ MaxN \in Nat /\ Killable \subseteq Procs

VARIABLES
  live,                \* the page of struct pipe is allocated
  data, nread, nwrite, readopen, writeopen,   \* struct pipe
  lock,                \* p->lock, when held between two actions: its holder
  ref,                 \* struct file.ref of the two ends
  fds,                 \* ends each process has a descriptor of
  alive, killed,
  pc,                  \* where a process is in the kernel
  chan,                \* what it sleeps on
  left,                \* pipewrite: bytes still to write, addr[i..n-1]
  want,                \* piperead: n
  end,                 \* fileclose: the end whose last reference is gone
  out                  \* bytes the last read() copied out

ringVars == <<data, nread, nwrite>>
pipeVars == <<live, ringVars, readopen, writeopen>>
fileVars == <<ref, fds>>
procVars == <<alive, killed>>
callVars == <<left, want, end, out>>
vars == <<pipeVars, lock, fileVars, procVars, pc, chan, callVars>>

Slots == 0..(PIPESIZE - 1)

Init ==
  /\ live = FALSE
  /\ data \in [Slots -> Byte] /\ nread = 0 /\ nwrite = 0
  /\ readopen = FALSE /\ writeopen = FALSE
  /\ lock = None
  /\ ref = [e \in Ends |-> 0] /\ fds = [p \in Procs |-> {}]
  /\ \E p \in Procs : alive = [q \in Procs |-> q = p]
  /\ killed = [p \in Procs |-> FALSE]
  /\ pc = [p \in Procs |-> "user"]
  /\ chan = [p \in Procs |-> None]
  /\ left = [p \in Procs |-> <<>>] /\ want = [p \in Procs |-> 0]
  /\ end = [p \in Procs |-> None]
  /\ out = <<>>

(* A process in user mode that makes a system call; trap() lets a killed   *)
(* process only exit.                                                      *)
MayCall(p) == alive[p] /\ pc[p] = "user" /\ ~killed[p]

Wakeup(ch) == [p \in Procs |-> IF chan[p] = ch THEN None ELSE chan[p]]

(* pipealloc(), once its three allocations have succeeded.                 *)
PipeAlloc(p) ==
  /\ MayCall(p) /\ ~live /\ fds[p] = {}
  /\ live' = TRUE
  /\ readopen' = TRUE /\ writeopen' = TRUE
  /\ nread' = 0 /\ nwrite' = 0
  /\ ref' = [e \in Ends |-> 1]
  /\ fds' = [fds EXCEPT ![p] = Ends]
  /\ UNCHANGED <<data, lock, procVars, pc, chan, callVars>>

(* fork(): the child gets a reference on every file of its parent.         *)
FileDup(p) == [e \in Ends |-> ref[e] + Cardinality({e} \cap fds[p])]

Fork(p, c) ==
  /\ MayCall(p) /\ ~alive[c]
  /\ alive' = [alive EXCEPT ![c] = TRUE]
  /\ fds' = [fds EXCEPT ![c] = fds[p]]
  /\ ref' = FileDup(p)
  /\ UNCHANGED <<pipeVars, lock, killed, pc, chan, callVars>>

(* close(), or exit() closing everything: fileclose() under ftable.lock.   *)
(* The last reference goes on to pipeclose() after that lock is released.  *)
FileClose(p, e) ==
  /\ alive[p] /\ pc[p] = "user" /\ e \in fds[p]
  /\ fds' = [fds EXCEPT ![p] = @ \ {e}]
  /\ ref' = [ref EXCEPT ![e] = @ - 1]
  /\ IF ref[e] > 1
     THEN UNCHANGED <<pc, end>>
     ELSE /\ pc' = [pc EXCEPT ![p] = "pipeclose"]
          /\ end' = [end EXCEPT ![p] = e]
  /\ UNCHANGED <<pipeVars, lock, procVars, chan, left, want, out>>

(* pipeclose(): the sleepers of the other end are woken.                   *)
WokenByClose(e) == IF e = "w" THEN "nread" ELSE "nwrite"

FreedByCloseEither(r, w) == ~r \/ ~w
FreedByClose(r, w) == ~r /\ ~w

PipeClose(p) ==
  /\ pc[p] = "pipeclose" /\ lock = None
  /\ readopen' = (readopen /\ end[p] # "r")
  /\ writeopen' = (writeopen /\ end[p] # "w")
  /\ chan' = Wakeup(WokenByClose(end[p]))
  /\ live' = (live /\ ~FreedByClose(readopen', writeopen'))
  /\ pc' = [pc EXCEPT ![p] = "user"]
  /\ end' = [end EXCEPT ![p] = None]
  /\ UNCHANGED <<ringVars, lock, fileVars, procVars, left, want, out>>

(* exit(), after the files are closed, and the parent's wait().            *)
Exit(p) ==
  /\ alive[p] /\ pc[p] = "user" /\ fds[p] = {}
  /\ alive' = [alive EXCEPT ![p] = FALSE]
  /\ killed' = [killed EXCEPT ![p] = FALSE]
  /\ UNCHANGED <<pipeVars, lock, fileVars, pc, chan, callVars>>

(* kill(), under ptable.lock.                                              *)
Kill(p) ==
  /\ p \in Killable /\ alive[p] /\ ~killed[p]
  /\ killed' = [killed EXCEPT ![p] = TRUE]
  /\ chan' = [chan EXCEPT ![p] = None]
  /\ UNCHANGED <<pipeVars, lock, fileVars, alive, pc, callVars>>
-----------------------------------------------------------------------------
Full(r, w) == w = (r + PIPESIZE) % WORD
Avail == (nwrite - nread) % WORD

(* pipewrite(): the bytes that fit, in one critical section.               *)
Index(n) == n % PIPESIZE

FitsOverwrites == PIPESIZE
Fits == PIPESIZE - Avail

Stored(s, k) ==
  [j \in Slots |->
     IF \E t \in 1..k : Index(nwrite + t - 1) = j
     THEN s[CHOOSE t \in 1..k : Index(nwrite + t - 1) = j]
     ELSE data[j]]

WriteCall(p, s) ==
  /\ MayCall(p) /\ "w" \in fds[p]
  /\ left' = [left EXCEPT ![p] = s]
  /\ pc' = [pc EXCEPT ![p] = "write"]
  /\ UNCHANGED <<pipeVars, lock, fileVars, procVars, chan, want, end, out>>

Write(p) ==
  /\ pc[p] = "write" /\ chan[p] = None /\ lock = None
  /\ LET k == IF Len(left[p]) < Fits THEN Len(left[p]) ELSE Fits
         rest == SubSeq(left[p], k + 1, Len(left[p])) IN
       /\ data' = Stored(left[p], k)
       /\ nwrite' = (nwrite + k) % WORD
       /\ \/ /\ rest = <<>>                               \* return n
             /\ left' = [left EXCEPT ![p] = <<>>]
             /\ chan' = Wakeup("nread")
             /\ pc' = [pc EXCEPT ![p] = "user"]
             /\ lock' = lock
          \/ /\ rest # <<>> /\ (~readopen \/ killed[p])    \* return -1
             /\ left' = [left EXCEPT ![p] = <<>>]
             /\ pc' = [pc EXCEPT ![p] = "user"]
             /\ UNCHANGED <<chan, lock>>
          \/ /\ rest # <<>> /\ readopen /\ ~killed[p]      \* about to sleep
             /\ left' = [left EXCEPT ![p] = rest]
             /\ chan' = Wakeup("nread")
             /\ pc' = [pc EXCEPT ![p] = "wsleep"]
             /\ lock' = p
  /\ UNCHANGED <<live, nread, readopen, writeopen, fileVars, procVars, want,
                 end, out>>

(* piperead(): copy out what there is, up to n.                            *)
WokenByReadReaders == "nread"
WokenByRead == "nwrite"

EmptyWaitsForever == nread = nwrite
EmptyWaits == nread = nwrite /\ writeopen

ReadCall(p, n) ==
  /\ MayCall(p) /\ "r" \in fds[p]
  /\ want' = [want EXCEPT ![p] = n]
  /\ pc' = [pc EXCEPT ![p] = "read"]
  /\ UNCHANGED <<pipeVars, lock, fileVars, procVars, chan, left, end, out>>

ReadMustWait(p) ==
  /\ pc[p] = "read" /\ chan[p] = None /\ lock = None
  /\ EmptyWaits
  /\ IF killed[p]
     THEN /\ pc' = [pc EXCEPT ![p] = "user"]
          /\ want' = [want EXCEPT ![p] = 0]
          /\ lock' = lock
     ELSE /\ pc' = [pc EXCEPT ![p] = "rsleep"]
          /\ lock' = p
          /\ want' = want
  /\ UNCHANGED <<pipeVars, fileVars, procVars, chan, left, end, out>>

Read(p) ==
  /\ pc[p] = "read" /\ chan[p] = None /\ lock = None
  /\ ~EmptyWaits
  /\ LET k == IF want[p] < Avail THEN want[p] ELSE Avail IN
       /\ out' = [t \in 1..k |-> data[Index(nread + t - 1)]]
       /\ nread' = (nread + k) % WORD
  /\ chan' = Wakeup(WokenByRead)
  /\ pc' = [pc EXCEPT ![p] = "user"]
  /\ want' = [want EXCEPT ![p] = 0]
  /\ UNCHANGED <<live, data, nwrite, readopen, writeopen, lock, fileVars,
                 procVars, left, end>>

(* sleep(): p->lock is given up and the process is asleep, in one critical *)
(* section of ptable.lock.                                                 *)
Sleep(p) ==
  /\ pc[p] \in {"rsleep", "wsleep"}
  /\ chan' = [chan EXCEPT ![p] = IF pc[p] = "rsleep" THEN "nread" ELSE "nwrite"]
  /\ pc' = [pc EXCEPT ![p] = IF @ = "rsleep" THEN "read" ELSE "write"]
  /\ lock' = None
  /\ UNCHANGED <<pipeVars, fileVars, procVars, callVars>>

KernelStep(p) ==
  PipeClose(p) \/ Write(p) \/ ReadMustWait(p) \/ Read(p) \/ Sleep(p)

ExitStep(p) == (\E e \in Ends : FileClose(p, e)) \/ Exit(p)

Calls(p) ==
  \/ PipeAlloc(p)
  \/ \E c \in Procs \ {p} : Fork(p, c)
  \/ \E n \in 0..MaxN : ReadCall(p, n) \/ \E s \in [1..n -> Byte] : WriteCall(p, s)

Next == \E p \in Procs : KernelStep(p) \/ ExitStep(p) \/ Calls(p) \/ Kill(p)

Spec == Init /\ [][Next]_vars

(* A process in the kernel gets the CPU, and p->lock when it spins for it; *)
(* a killed one is made to exit.                                           *)
Fairness == \A p \in Procs : /\ SF_vars(KernelStep(p))
                             /\ WF_vars(killed[p] /\ ExitStep(p))

LiveSpec == Spec /\ Fairness
-----------------------------------------------------------------------------
(* Types; no more than PIPESIZE bytes in the ring, even as the counters    *)
(* wrap.                                                                   *)
TypeOK ==
  /\ live \in BOOLEAN /\ data \in [Slots -> Byte]
  /\ nread \in 0..(WORD - 1) /\ nwrite \in 0..(WORD - 1) /\ Avail <= PIPESIZE
  /\ readopen \in BOOLEAN /\ writeopen \in BOOLEAN
  /\ lock \in Procs \cup {None}
  /\ ref \in [Ends -> 0..Cardinality(Procs)] /\ fds \in [Procs -> SUBSET Ends]
  /\ alive \in [Procs -> BOOLEAN] /\ killed \in [Procs -> BOOLEAN]
  /\ pc \in [Procs -> {"user", "read", "write", "rsleep", "wsleep", "pipeclose"}]
  /\ chan \in [Procs -> {None, "nread", "nwrite"}]
  /\ \A p \in Procs : Len(left[p]) <= MaxN
  /\ want \in [Procs -> 0..MaxN] /\ end \in [Procs -> Ends \cup {None}]
  /\ Len(out) <= PIPESIZE

(* A writer sleeps only for a reason: it found the pipe full, and it is    *)
(* still full and open for reading, whoever read, wrote, closed or was     *)
(* killed in the meantime.                                                 *)
WritersHaveReason == \A p \in Procs :
  chan[p] = "nwrite" => Full(nread, nwrite) /\ readopen

(* The page of the pipe is there as long as some process can still reach   *)
(* it, through a descriptor or from inside pipe.c, and is freed with the   *)
(* last one: neither used after kfree() nor leaked.  All fields keep their *)
(* types, and the ring its bound.                                          *)
Closing == {p \in Procs : pc[p] = "pipeclose"}
PageReachable ==
  /\ TypeOK
  /\ live <=> (\E p \in Procs : fds[p] # {}) \/ Closing # {}
  /\ \A p \in Procs : pc[p] \in {"read", "rsleep"} => live /\ readopen
  /\ \A p \in Procs : pc[p] \in {"write", "wsleep"} => live /\ writeopen

(* The ring with its wrapping counters is a bounded first-in first-out     *)
(* stream: every byte comes out once, in order, and an empty answer means  *)
(* the end of the stream.                                                  *)
InTransit == IF live THEN [t \in 1..Avail |-> data[Index(nread + t - 1)]] ELSE <<>>
Stream == INSTANCE ByteStream WITH
  Cap <- PIPESIZE, q <- InTransit, ropen <- readopen, wopen <- writeopen
StreamSpec == Stream!Spec

(* A reader is told of the end of the stream, and a writer that there is   *)
(* no reader left: neither stays in its call when the other end is closed. *)
ClosedEndReleases == \A p \in Procs :
  (\/ pc[p] \in {"read", "rsleep"} /\ ~writeopen
   \/ pc[p] \in {"write", "wsleep"} /\ ~readopen) ~> pc[p] = "user"
=============================================================================
