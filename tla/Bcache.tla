------------------------------- MODULE Bcache -------------------------------
(***************************************************************************)
(* The buffer cache (bio.c), the sleep lock of a buffer (sleeplock.c) and  *)
(* the IDE driver (ide.c) with its request queue and interrupt handler.    *)
(*                                                                         *)
(* A critical section under bcache.lock, a sleep lock's spinlock or        *)
(* idelock is one action.  Each process uses one buffer at a time: bread,  *)
(* then bwrite or log_write any number of times, then brelse.              *)
(***************************************************************************)
EXTENDS Integers, Sequences, FiniteSets, SequencesExt

CONSTANTS Procs, Bufs,
          Blocks,       \* block numbers in use
          Value,        \* contents of a block
          MaxPinned,    \* buffers log_write() may leave dirty (LOGSIZE)
          DiskErrors,   \* the disk may fail a transfer
          NoBlock, NoBuf, NoProc

ASSUME BcacheConstants ==
  /\ MaxPinned \in Nat /\ DiskErrors \in BOOLEAN
  /\ IsFiniteSet(Procs) /\ IsFiniteSet(Bufs)
  /\ NoBlock \notin Blocks /\ NoBuf \notin Bufs /\ NoProc \notin Procs

VARIABLES
  list,               \* bcache.head's list, most recently used first
  blockno, valid, dirty, refcnt, data,    \* struct buf
  locked,             \* struct sleeplock: the holder, or NoProc
  idequeue,
  cmd, irq,           \* the disk: command in progress, interrupt raised
  disk,
  pc, buf,            \* where each process is, and its buffer
  asleep,
  latest,             \* history: what was last stored for each block, and did not fail
  failed,             \* history: buffers whose transfer failed, not stored to since
  panicked            \* panic("bget: no buffers")

cacheVars == <<list, blockno, refcnt>>
bufVars == <<valid, dirty, data>>
ideVars == <<idequeue, cmd, irq, disk>>
vars == <<cacheVars, bufVars, locked, ideVars, pc, buf, asleep, latest, failed, panicked>>

NoCmd == [op |-> "none"]

Init ==
  /\ list = SetToSeq(Bufs)
  /\ blockno = [b \in Bufs |-> NoBlock]
  /\ valid = [b \in Bufs |-> FALSE] /\ dirty = [b \in Bufs |-> FALSE]
  /\ refcnt = [b \in Bufs |-> 0]
  /\ \E v \in Value : data = [b \in Bufs |-> v]
  /\ \E v \in Value : disk = [k \in Blocks |-> v]
  /\ locked = [b \in Bufs |-> NoProc]
  /\ idequeue = <<>> /\ cmd = NoCmd /\ irq = "none"
  /\ pc = [p \in Procs |-> "idle"]
  /\ buf = [p \in Procs |-> NoBuf]
  /\ asleep = {}
  /\ latest = disk /\ failed = {}
  /\ panicked = FALSE

Goto(p, l) == pc' = [pc EXCEPT ![p] = l]
-----------------------------------------------------------------------------
(* bget(), under bcache.lock: the cached buffer, or the least recently     *)
(* used one that nobody refers to and the log has not pinned.              *)
Cached(k) == {b \in Bufs : blockno[b] = k}

Recyclable(b) == refcnt[b] = 0 /\ ~dirty[b]

LeastRecent == list[CHOOSE i \in DOMAIN list :
                      /\ Recyclable(list[i])
                      /\ \A j \in (i + 1)..Len(list) : ~Recyclable(list[j])]

RefHit(b) == [refcnt EXCEPT ![b] = @ + 1]

BGetHit(p, k) ==
  /\ ~panicked /\ pc[p] = "idle"
  /\ \E b \in Cached(k) :
       /\ refcnt' = RefHit(b)
       /\ buf' = [buf EXCEPT ![p] = b]
  /\ Goto(p, "acquire")
  /\ UNCHANGED <<list, blockno, bufVars, locked, ideVars, asleep, latest, failed, panicked>>

BGetRecycle(p, k) ==
  /\ ~panicked /\ pc[p] = "idle" /\ Cached(k) = {}
  /\ \E b \in Bufs : Recyclable(b)
  /\ LET b == LeastRecent IN
       /\ blockno' = [blockno EXCEPT ![b] = k]
       /\ valid' = [valid EXCEPT ![b] = FALSE]
       /\ dirty' = [dirty EXCEPT ![b] = FALSE]
       /\ refcnt' = [refcnt EXCEPT ![b] = 1]
       /\ failed' = failed \ {b}
       /\ buf' = [buf EXCEPT ![p] = b]
  /\ Goto(p, "acquire")
  /\ UNCHANGED <<list, data, locked, ideVars, asleep, latest, panicked>>

BGetPanics(p, k) ==
  /\ ~panicked /\ pc[p] = "idle" /\ Cached(k) = {}
  /\ \A b \in Bufs : ~Recyclable(b)
  /\ panicked' = TRUE
  /\ UNCHANGED <<cacheVars, bufVars, locked, ideVars, pc, buf, asleep, latest, failed>>

(* acquiresleep(), then bread()'s test of B_VALID.                         *)
FreeLockIgnored(b) == TRUE
FreeLock(b) == locked[b] = NoProc

AcquireSleep(p) ==
  /\ ~panicked /\ pc[p] = "acquire" /\ p \notin asleep
  /\ IF FreeLock(buf[p])
     THEN /\ locked' = [locked EXCEPT ![buf[p]] = p]
          /\ Goto(p, IF valid[buf[p]] THEN "use" ELSE "iderw")
          /\ asleep' = asleep
     ELSE /\ asleep' = asleep \cup {p}
          /\ UNCHANGED <<locked, pc>>
  /\ UNCHANGED <<cacheVars, bufVars, ideVars, buf, latest, failed, panicked>>

(* bwrite(): the caller has changed the data.                              *)
BWrite(p, v) ==
  /\ ~panicked /\ pc[p] = "use"
  /\ data' = [data EXCEPT ![buf[p]] = v]
  /\ dirty' = [dirty EXCEPT ![buf[p]] = TRUE]
  /\ latest' = [latest EXCEPT ![blockno[buf[p]]] = v]
  /\ failed' = failed \ {buf[p]}
  /\ Goto(p, "iderw")
  /\ UNCHANGED <<cacheVars, valid, locked, ideVars, buf, asleep, panicked>>

(* log_write(): the buffer stays dirty until the log installs the block.   *)
Writing(b) == \E p \in Procs : buf[p] = b /\ pc[p] \in {"iderw", "wait"}
Pinned == {b \in Bufs : dirty[b] /\ ~Writing(b)}

LogWrite(p, v) ==
  /\ ~panicked /\ pc[p] = "use"
  /\ Cardinality(Pinned \cup {buf[p]}) <= MaxPinned
  /\ data' = [data EXCEPT ![buf[p]] = v]
  /\ dirty' = [dirty EXCEPT ![buf[p]] = TRUE]
  /\ latest' = [latest EXCEPT ![blockno[buf[p]]] = v]
  /\ failed' = failed \ {buf[p]}
  /\ UNCHANGED <<cacheVars, valid, locked, ideVars, pc, buf, asleep, panicked>>

(* brelse(): releasesleep() first, then the reference, under bcache.lock.  *)
LockSleepers(b) == {q \in asleep : pc[q] = "acquire" /\ buf[q] = b}
WokenByRelease(b) == LockSleepers(b)

ReleaseSleep(p) ==
  /\ ~panicked /\ pc[p] = "use"
  /\ locked' = [locked EXCEPT ![buf[p]] = NoProc]
  /\ asleep' = asleep \ WokenByRelease(buf[p])
  /\ Goto(p, "unref")
  /\ UNCHANGED <<cacheVars, bufVars, ideVars, buf, latest, failed, panicked>>

(* b is taken out of the list and put in front.                            *)
MovedToFront(b) ==
  LET at == CHOOSE i \in DOMAIN list : list[i] = b
  IN  [i \in DOMAIN list |-> IF i = 1 THEN b ELSE IF i <= at THEN list[i - 1] ELSE list[i]]

RefDropped(b) == [refcnt EXCEPT ![b] = @ - 1]

Unref(p) ==
  /\ ~panicked /\ pc[p] = "unref"
  /\ refcnt' = RefDropped(buf[p])
  /\ list' = IF refcnt'[buf[p]] = 0 THEN MovedToFront(buf[p]) ELSE list
  /\ buf' = [buf EXCEPT ![p] = NoBuf]
  /\ Goto(p, "idle")
  /\ UNCHANGED <<blockno, bufVars, locked, ideVars, asleep, latest, failed, panicked>>
-----------------------------------------------------------------------------
(* idestart(): a write hands the data to the disk at once.                 *)
Command(b) ==
  IF b = NoBuf THEN NoCmd
  ELSE IF dirty[b] THEN [op |-> "write", blk |-> blockno[b], val |-> data[b]]
  ELSE [op |-> "read", blk |-> blockno[b]]

HeadOf(q) == IF q = <<>> THEN NoBuf ELSE Head(q)

(* iderw(), under idelock: append, start the disk if it was idle, sleep.   *)
StartedByRwAlways(b) == Command(b)
StartedByRw(b) == IF idequeue = <<>> THEN Command(b) ELSE cmd

Iderw(p) ==
  /\ ~panicked /\ pc[p] = "iderw"
  /\ idequeue' = Append(idequeue, buf[p])
  /\ cmd' = StartedByRw(buf[p])
  /\ asleep' = asleep \cup {p}
  /\ Goto(p, "wait")
  /\ UNCHANGED <<cacheVars, bufVars, locked, irq, disk, buf, latest, failed, panicked>>

(* The loop of iderw() once it is woken.                                   *)
DoneAtOnce(b) == TRUE
Done(b) == valid[b] /\ ~dirty[b]

IderwWoken(p) ==
  /\ ~panicked /\ pc[p] = "wait" /\ p \notin asleep
  /\ IF Done(buf[p])
     THEN Goto(p, "use") /\ asleep' = asleep
     ELSE asleep' = asleep \cup {p} /\ pc' = pc
  /\ UNCHANGED <<cacheVars, bufVars, locked, ideVars, buf, latest, failed, panicked>>

(* The disk finishes a command, or fails it and leaves the block as it     *)
(* was, and raises its interrupt.                                          *)
DiskDone ==
  /\ ~panicked /\ cmd # NoCmd /\ irq = "none"
  /\ irq' \in {"ok"} \cup {e \in {"err"} : DiskErrors}
  /\ disk' = IF cmd.op = "write" /\ irq' = "ok"
             THEN [disk EXCEPT ![cmd.blk] = cmd.val] ELSE disk
  /\ UNCHANGED <<cacheVars, bufVars, locked, idequeue, cmd, pc, buf, asleep,
                 latest, failed, panicked>>

(* ideintr(), under idelock.  It looks at the status of reads only, and    *)
(* reports no failure; the history takes a failed write for none.          *)
StartedByIntrNot(q) == NoCmd
StartedByIntr(q) == Command(HeadOf(q))

IdeIntr ==
  /\ ~panicked /\ irq # "none"
  /\ irq' = "none"
  /\ IF idequeue = <<>>
     THEN UNCHANGED <<idequeue, valid, dirty, data, asleep, cmd, latest, failed>>
     ELSE LET b == Head(idequeue) IN
            /\ idequeue' = Tail(idequeue)
            /\ data' = IF ~dirty[b] /\ irq = "ok"
                       THEN [data EXCEPT ![b] = disk[cmd.blk]] ELSE data
            /\ valid' = [valid EXCEPT ![b] = TRUE]
            /\ dirty' = [dirty EXCEPT ![b] = FALSE]
            /\ asleep' = asleep \ {q \in Procs : pc[q] = "wait" /\ buf[q] = b}
            /\ failed' = IF irq = "err" THEN failed \cup {b} ELSE failed
            /\ latest' = IF irq = "err" THEN [latest EXCEPT ![cmd.blk] = disk[cmd.blk]]
                                        ELSE latest
            /\ cmd' = StartedByIntr(Tail(idequeue))
  /\ UNCHANGED <<cacheVars, locked, disk, pc, buf, panicked>>

(* kill() makes any sleeper run.                                           *)
Kill(p) ==
  /\ ~panicked /\ p \in asleep
  /\ asleep' = asleep \ {p}
  /\ UNCHANGED <<cacheVars, bufVars, locked, ideVars, pc, buf, latest, failed, panicked>>

KernelStep(p) ==
  AcquireSleep(p) \/ Unref(p) \/ Iderw(p) \/ IderwWoken(p)

Calls(p) ==
  \/ \E k \in Blocks : BGetHit(p, k) \/ BGetRecycle(p, k) \/ BGetPanics(p, k)
  \/ \E v \in Value : BWrite(p, v) \/ LogWrite(p, v)
  \/ ReleaseSleep(p)

Next ==
  \/ \E p \in Procs : KernelStep(p) \/ Calls(p) \/ Kill(p)
  \/ DiskDone \/ IdeIntr

Spec == Init /\ [][Next]_vars

(* Processes in the kernel are scheduled, the disk finishes what it is     *)
(* told to do and its interrupt is taken.                                  *)
Fairness == /\ \A p \in Procs : WF_vars(KernelStep(p))
            /\ WF_vars(DiskDone) /\ WF_vars(IdeIntr)

LiveSpec == Spec /\ Fairness
-----------------------------------------------------------------------------
Users(b) == {p \in Procs : buf[p] = b}

(* Types of the cache, the queue and the disk.                             *)
TypeOK ==
  /\ Range(list) = Bufs /\ Len(list) = Cardinality(Bufs)
  /\ blockno \in [Bufs -> Blocks \cup {NoBlock}]
  /\ valid \in [Bufs -> BOOLEAN] /\ dirty \in [Bufs -> BOOLEAN]
  /\ refcnt \in [Bufs -> 0..Cardinality(Procs)]
  /\ data \in [Bufs -> Value] /\ disk \in [Blocks -> Value]
  /\ latest \in [Blocks -> Value]
  /\ locked \in [Bufs -> Procs \cup {NoProc}]
  /\ Range(idequeue) \subseteq Bufs
  /\ pc \in [Procs -> {"idle", "acquire", "use", "unref", "iderw", "wait"}]
  /\ buf \in [Procs -> Bufs \cup {NoBuf}]
  /\ asleep \subseteq Procs /\ irq \in {"none", "ok", "err"}

(* The cache is the synchronisation point for a block: one buffer holds    *)
(* it, its reference count is the number of processes on their way in,     *)
(* inside or on their way out, and one process at a time is inside.  All   *)
(* fields keep their types.                                                *)
OneBufferPerBlock ==
  /\ TypeOK
  /\ \A b, c \in Bufs : blockno[b] = blockno[c] /\ b # c => blockno[b] = NoBlock
  /\ \A b \in Bufs : refcnt[b] = Cardinality(Users(b))
  /\ \A b \in Bufs : Cardinality({p \in Users(b) :
                                    pc[p] \in {"use", "iderw", "wait"}}) <= 1

(* A valid buffer holds what was last stored for its block; only one whose *)
(* transfer failed, which ideintr() marks valid all the same, is not.      *)
ValidIsRead == \A b \in Bufs :
  valid[b] /\ b \notin Range(idequeue) => data[b] = latest[blockno[b]] \/ b \in failed

(* What is stored for a block is on disk, in flight, or in a dirty buffer. *)
NothingLost == \A k \in Blocks :
  \/ disk[k] = latest[k]
  \/ \E b \in Bufs : blockno[b] = k /\ dirty[b] /\ data[b] = latest[k]

(* The cache is coherent.  bio.c: "B_VALID: the buffer data has been read  *)
(* from the disk": a valid buffer has the block's contents, by whichever   *)
(* process, through recycling, pinning and queued transfers; and a pinned  *)
(* buffer is not recycled, so that no write is lost but those that the     *)
(* disk itself failed, of which ideintr() tells nobody.                    *)
Coherent == ValidIsRead /\ NothingLost

(* On a sleep lock a process sleeps only while it is held, in iderw() only *)
(* while the request is queued.                                            *)
SleepersHaveReason == \A p \in asleep :
  \/ pc[p] = "acquire" /\ locked[buf[p]] # NoProc
  \/ pc[p] = "wait" /\ buf[p] \in Range(idequeue)

(* ide.c: the first queued buffer is the active request.  The disk is idle *)
(* only when the queue is empty, works on the block of its head, and every *)
(* queued buffer has exactly one process waiting for it.  Nobody sleeps    *)
(* without reason.                                                         *)
QueueMatchesDisk ==
  /\ SleepersHaveReason
  /\ (cmd = NoCmd) = (idequeue = <<>>)
  /\ idequeue # <<>> => cmd = Command(Head(idequeue))
  /\ \A b \in Bufs : Cardinality({i \in DOMAIN idequeue : idequeue[i] = b})
                     = Cardinality({p \in Users(b) : pc[p] = "wait" /\ ~Done(b)})

(* Every disk request finishes, also one that queues behind others.        *)
RequestsFinish == \A p \in Procs :
  pc[p] \in {"iderw", "wait"} ~> (pc[p] = "use" \/ panicked)
=============================================================================
