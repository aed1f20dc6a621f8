-------------------------------- MODULE Log --------------------------------
(***************************************************************************)
(* The write-ahead log of log.c, together with the part of the buffer      *)
(* cache (bio.c) it relies on: the block held by bread(), the B_DIRTY bit  *)
(* that pins a logged block, and eviction of clean blocks.                 *)
(*                                                                         *)
(* A critical section under log.lock is one action; so is one synchronous  *)
(* disk write (bwrite() returns only when the sector is on disk, and a     *)
(* sector is written whole).  The machine may stop between any two         *)
(* actions and boot again through initlog().                               *)
(*                                                                         *)
(* Log-region blocks are always written through, so bread() of one returns *)
(* what is on disk; only home blocks have an explicit cache.               *)
(***************************************************************************)
EXTENDS Integers, Sequences, FiniteSets, Functions

CONSTANTS Procs,        \* processes that make file-system calls
          Blocks,       \* home block numbers
          Data,         \* block contents
          NoBuf,        \* "no buffer": neither contents nor a block number
          LOGSIZE,      \* entries of log.lh.block[]            (param.h)
          MAXOPBLOCKS,  \* reservation made by begin_op()       (param.h)
          LogRegion,    \* log.size: header and data blocks on disk (sb.nlog)
          OpBlocks      \* distinct blocks one call really modifies

ASSUME LogConstants ==
  /\ LOGSIZE \in Nat /\ MAXOPBLOCKS \in Nat /\ LogRegion \in Nat \ {0}
  /\ OpBlocks \in 0..MAXOPBLOCKS
  /\ NoBuf \notin Data \cup Blocks
  /\ IsFiniteSet(Procs)

VARIABLES
  disk,         \* home blocks on disk
  dlog,         \* log data blocks on disk, log.start+1 ...
  dhead,        \* log header on disk: the block numbers of block[0..n-1]
  cache,        \* home blocks in the buffer cache
  dirty,        \* blocks whose buffer has B_DIRTY
  lh,           \* log.lh, the header in memory
  outstanding,  \* log.outstanding
  committing,   \* log.committing
  pc,           \* where each process is in begin_op .. end_op
  cur,          \* the buffer each process holds locked between bread and brelse
  wrote,        \* blocks the current call of each process has modified
  phase,        \* progress of commit() or recover_from_log()
  tail,         \* loop index of write_log() and install_trans()
  panicked      \* panic() has been called

diskVars == <<disk, dlog, dhead>>
bufVars  == <<cache, dirty>>
logVars  == <<lh, outstanding, committing>>
opVars   == <<pc, cur, wrote>>
vars == <<diskVars, bufVars, logVars, opVars, phase, tail, panicked>>

InOp   == {"active", "modified", "checked"}   \* between begin_op and end_op
PCs    == {"idle", "begin", "asleep", "commit"} \cup InOp
Phases == {"boot", "run", "write_log", "install", "done"}

(* What bread(b) returns: the cached copy, or the sector on disk.          *)
View(b) == IF cache[b] = NoBuf THEN disk[b] ELSE cache[b]

(* The bread() and brelse() of one buffer exclude each other's holders.    *)
Held(b) == \E p \in Procs : cur[p] = b

(* initlog() runs in the first process before any other process exists.    *)
Recovering == phase = "boot" \/ (phase = "install" /\ ~committing)
Up == ~panicked /\ ~Recovering

(* The state mkfs leaves, met by the first boot: an empty log.             *)
Init ==
  /\ disk \in [Blocks -> Data]
  /\ \E d \in Data : dlog = [i \in 1..(LogRegion - 1) |-> d]
  /\ dhead = <<>>
  /\ cache = [b \in Blocks |-> NoBuf]
  /\ dirty = {}
  /\ lh = <<>>
  /\ outstanding = 0
  /\ committing = FALSE
  /\ pc = [p \in Procs |-> "idle"]
  /\ cur = [p \in Procs |-> NoBuf]
  /\ wrote = [p \in Procs |-> {}]
  /\ phase = "boot"
  /\ tail = 0
  /\ panicked = FALSE
-----------------------------------------------------------------------------
(* panic() freezes the other CPUs; only a reboot follows.                  *)
Panic ==
  /\ panicked' = TRUE
  /\ UNCHANGED <<diskVars, bufVars, logVars, opVars, phase, tail>>

(* wakeup(&log): every sleeper returns to the top of begin_op's loop.      *)
WokenBy(f) == [p \in Procs |-> IF f[p] = "asleep" THEN "begin" ELSE f[p]]

(* begin_op(): room for one more operation in the log.  Each definition    *)
(* named for a slip (here: the caller is not counted) is a mutant of the   *)
(* definition after it; no specification uses it.                          *)
SpaceForSelfForgotten == Len(lh) + outstanding * MAXOPBLOCKS <= LOGSIZE

SpaceFor == Len(lh) + (outstanding + 1) * MAXOPBLOCKS <= LOGSIZE

MayBegin == ~committing /\ SpaceFor

(* log.outstanding += 1                                                    *)
Reserve == outstanding + 1

BeginOp(p) ==
  /\ Up /\ pc[p] \in {"idle", "begin"}
  /\ MayBegin
  /\ outstanding' = Reserve
  /\ pc' = [pc EXCEPT ![p] = "active"]
  /\ UNCHANGED <<diskVars, bufVars, lh, committing, cur, wrote, phase, tail,
                 panicked>>

BeginSleep(p) ==
  /\ Up /\ pc[p] \in {"idle", "begin"}
  /\ ~MayBegin
  /\ pc' = [pc EXCEPT ![p] = "asleep"]
  /\ UNCHANGED <<diskVars, bufVars, logVars, cur, wrote, phase, tail, panicked>>

(* A call reads a block with bread() and changes it in the cache, keeping  *)
(* the buffer locked.  One call changes at most OpBlocks blocks.           *)
Modify(p, b, d) ==
  /\ Up /\ pc[p] = "active"
  /\ ~Held(b)
  /\ Cardinality(wrote[p] \cup {b}) <= OpBlocks
  /\ cache' = [cache EXCEPT ![b] = d]
  /\ cur' = [cur EXCEPT ![p] = b]
  /\ wrote' = [wrote EXCEPT ![p] = @ \cup {b}]
  /\ pc' = [pc EXCEPT ![p] = "modified"]
  /\ UNCHANGED <<diskVars, dirty, logVars, phase, tail, panicked>>

(* log_write() before it takes the lock: two checks of unlocked fields.    *)
LogWritePanics == Len(lh) >= LOGSIZE \/ Len(lh) >= LogRegion - 1 \/ outstanding < 1

LogWriteCheck(p) ==
  /\ Up /\ pc[p] = "modified"
  /\ IF LogWritePanics
     THEN Panic
     ELSE /\ pc' = [pc EXCEPT ![p] = "checked"]
          /\ UNCHANGED <<diskVars, bufVars, logVars, cur, wrote, phase, tail,
                         panicked>>

(* log_write() under log.lock: absorb a block already logged, or append.   *)
Absorb(b) == IF b \in Range(lh) THEN lh ELSE Append(lh, b)

(* ... and pin the buffer with B_DIRTY.                                    *)
Pinned(b) == dirty \cup {b}

LogWriteAppend(p) ==
  /\ Up /\ pc[p] = "checked"
  /\ lh' = Absorb(cur[p])
  /\ dirty' = Pinned(cur[p])
  /\ cur' = [cur EXCEPT ![p] = NoBuf]
  /\ pc' = [pc EXCEPT ![p] = "active"]
  /\ UNCHANGED <<diskVars, cache, outstanding, committing, wrote, phase, tail,
                 panicked>>

(* end_op() with other operations still outstanding.                       *)
EndOpWake(p) == WokenBy([pc EXCEPT ![p] = "idle"])

EndOpNotLast(p) ==
  /\ outstanding # 1
  /\ pc' = EndOpWake(p)
  /\ UNCHANGED <<committing, phase, tail>>

(* end_op() of the last one: commit() follows, without the lock.           *)
EndOpLast(p) ==
  /\ outstanding = 1
  /\ committing' = TRUE
  /\ pc' = [pc EXCEPT ![p] = "commit"]
  /\ phase' = IF lh = <<>> THEN "done" ELSE "write_log"
  /\ tail' = 0

EndOp(p) ==
  /\ Up /\ pc[p] = "active"
  /\ IF committing
     THEN Panic
     ELSE /\ EndOpNotLast(p) \/ EndOpLast(p)
          /\ outstanding' = outstanding - 1
          /\ wrote' = [wrote EXCEPT ![p] = {}]
          /\ UNCHANGED <<diskVars, bufVars, lh, cur, panicked>>
-----------------------------------------------------------------------------
(* One iteration of write_log(): a modified block goes to its log block.   *)
WriteLog ==
  /\ ~panicked /\ phase = "write_log" /\ tail < Len(lh)
  /\ LET b == lh[tail + 1] IN
       /\ dlog' = [dlog EXCEPT ![tail + 1] = View(b)]
       /\ cache' = [cache EXCEPT ![b] = View(b)]
  /\ tail' = tail + 1
  /\ UNCHANGED <<disk, dhead, dirty, logVars, opVars, phase, panicked>>

(* write_head() with the list of blocks: the real commit.                  *)
WriteHead ==
  /\ ~panicked /\ phase = "write_log" /\ tail = Len(lh)
  /\ dhead' = lh
  /\ phase' = "install"
  /\ tail' = 0
  /\ UNCHANGED <<disk, dlog, bufVars, logVars, opVars, panicked>>

(* One iteration of install_trans(): log block to cache and home block;    *)
(* bwrite() clears B_DIRTY.                                                *)
InstallTrans ==
  /\ ~panicked /\ phase = "install" /\ tail < Len(lh)
  /\ LET b == lh[tail + 1] IN
       /\ disk' = [disk EXCEPT ![b] = dlog[tail + 1]]
       /\ cache' = [cache EXCEPT ![b] = dlog[tail + 1]]
       /\ dirty' = dirty \ {b}
  /\ tail' = tail + 1
  /\ UNCHANGED <<dlog, dhead, logVars, opVars, phase, panicked>>

(* log.lh.n = 0; write_head(): erase the transaction, at the end of        *)
(* commit() and of recover_from_log().                                     *)
ClearHead ==
  /\ ~panicked /\ phase = "install" /\ tail = Len(lh)
  /\ lh' = <<>>
  /\ dhead' = <<>>
  /\ phase' = IF committing THEN "done" ELSE "run"
  /\ tail' = 0
  /\ UNCHANGED <<disk, dlog, bufVars, outstanding, committing, opVars, panicked>>

(* end_op() after commit(): let the waiting operations in.                 *)
CommitWakeNobody(p) == [pc EXCEPT ![p] = "idle"]
CommitWake(p) == WokenBy([pc EXCEPT ![p] = "idle"])

EndCommit(p) ==
  /\ ~panicked /\ phase = "done" /\ pc[p] = "commit"
  /\ committing' = FALSE
  /\ pc' = CommitWake(p)
  /\ phase' = "run"
  /\ UNCHANGED <<diskVars, bufVars, lh, outstanding, cur, wrote, tail, panicked>>
-----------------------------------------------------------------------------
(* bget(): a buffer that is unreferenced and not B_DIRTY may be recycled.  *)
EvictableDirty(b) == ~Held(b)
Evictable(b) == ~Held(b) /\ b \notin dirty

Evict(b) ==
  /\ Up /\ cache[b] # NoBuf
  /\ Evictable(b)
  /\ cache' = [cache EXCEPT ![b] = NoBuf]
  /\ UNCHANGED <<diskVars, dirty, logVars, opVars, phase, tail, panicked>>

(* bread() of a block by a reader outside any operation.                   *)
Bread(b) ==
  /\ Up /\ cache[b] = NoBuf
  /\ cache' = [cache EXCEPT ![b] = disk[b]]
  /\ UNCHANGED <<diskVars, dirty, logVars, opVars, phase, tail, panicked>>

(* The machine stops at any moment; memory is gone, the disk is not.       *)
Crash ==
  /\ cache' = [b \in Blocks |-> NoBuf]
  /\ dirty' = {}
  /\ lh' = <<>>
  /\ outstanding' = 0
  /\ committing' = FALSE
  /\ pc' = [p \in Procs |-> "idle"]
  /\ cur' = [p \in Procs |-> NoBuf]
  /\ wrote' = [p \in Procs |-> {}]
  /\ phase' = "boot"
  /\ tail' = 0
  /\ panicked' = FALSE
  /\ UNCHANGED diskVars

(* initlog(), recover_from_log(): read_head() and on to install_trans().   *)
ReadHead ==
  /\ phase = "boot"
  /\ lh' = dhead
  /\ phase' = "install"
  /\ UNCHANGED <<diskVars, bufVars, outstanding, committing, opVars, tail,
                 panicked>>

CommitStep == WriteLog \/ WriteHead \/ InstallTrans \/ ClearHead

Next ==
  \/ \E p \in Procs : BeginOp(p) \/ BeginSleep(p) \/ LogWriteCheck(p)
                      \/ LogWriteAppend(p) \/ EndOp(p) \/ EndCommit(p)
  \/ \E p \in Procs, b \in Blocks, d \in Data : Modify(p, b, d)
  \/ \E b \in Blocks : Evict(b) \/ Bread(b)
  \/ CommitStep
  \/ ReadHead
  \/ Crash

Spec == Init /\ [][Next]_vars
-----------------------------------------------------------------------------
(* Types of the log's state, on disk and in memory.                        *)
TypeOK ==
  /\ disk \in [Blocks -> Data]
  /\ dlog \in [1..(LogRegion - 1) -> Data]
  /\ dhead \in Seq(Blocks)
  /\ cache \in [Blocks -> Data \cup {NoBuf}]
  /\ dirty \in SUBSET Blocks
  /\ lh \in Seq(Blocks)
  /\ outstanding \in Nat
  /\ committing \in BOOLEAN
  /\ pc \in [Procs -> PCs]
  /\ cur \in [Procs -> Blocks \cup {NoBuf}]
  /\ wrote \in [Procs -> SUBSET Blocks]
  /\ phase \in Phases
  /\ tail \in Nat
  /\ panicked \in BOOLEAN

(* How much smaller than its reservation an operation must be for the      *)
(* reservation of begin_op() to cover the checks of log_write(), which     *)
(* keep one block for the header and refuse even a block to be absorbed    *)
(* once the log is full.                                                   *)
Room ==
  /\ OpBlocks < MAXOPBLOCKS
  /\ LOGSIZE - (MAXOPBLOCKS - OpBlocks) <= LogRegion - 2

(* "too big a transaction", "log_write outside of trans" and               *)
(* "log.committing" are never reached: what begin_op() reserves for the    *)
(* operations it lets in, together, is enough for all they log, although   *)
(* log_write() looks at the count without the lock.                        *)
NoPanic == ~panicked

(* The header that is about to be committed fits the log's region on disk, *)
(* for memory and for disk.                                                *)
LogFits == Len(lh) <= LogRegion - 1 /\ Len(dhead) <= LogRegion - 1

(* A process sleeps in begin_op() only while there is a reason to: no      *)
(* wakeup of end_op() can fall between its test and its sleep.             *)
NoLostWakeup == \A p \in Procs : pc[p] = "asleep" => ~MayBegin
-----------------------------------------------------------------------------
(* The inductive invariant, in parts.                                      *)

(* log.outstanding counts the operations; commit() runs alone, in one      *)
(* process; recovery runs before there are processes.                      *)
inopBar == {p \in Procs : pc[p] \in InOp}

CountInv ==
  /\ outstanding = Cardinality(inopBar)
  /\ committing => inopBar = {}
  /\ committing <=> \E p \in Procs : pc[p] = "commit"
  /\ \A p, q \in Procs : pc[p] = "commit" /\ pc[q] = "commit" => p = q
  /\ committing => phase \in {"write_log", "install", "done"}
  /\ ~committing => phase \in {"boot", "run", "install"}
  /\ Recovering => ~panicked /\ \A p \in Procs : pc[p] = "idle"

(* A process holds at most one buffer, nobody else's; it is in the cache,  *)
(* and among the blocks its call has modified.                             *)
HoldInv ==
  /\ \A p \in Procs : cur[p] # NoBuf <=> pc[p] \in {"modified", "checked"}
  /\ \A p, q \in Procs : cur[p] = cur[q] /\ cur[p] # NoBuf => p = q
  /\ \A p \in Procs : cur[p] # NoBuf => /\ cur[p] \in wrote[p]
                                        /\ cache[cur[p]] # NoBuf
  /\ \A p \in Procs : /\ IsFiniteSet(wrote[p])
                      /\ Cardinality(wrote[p]) <= OpBlocks
                      /\ pc[p] \notin InOp => wrote[p] = {}

(* The blocks of operations in progress that are in the log already; the   *)
(* rest of what they may log is still covered by begin_op()'s test.        *)
Logged == {u \in Procs \X Blocks : u[2] \in wrote[u[1]] /\ u[2] \in Range(lh)}

Reserved == Len(lh) + outstanding * OpBlocks - Cardinality(Logged)
              <= LOGSIZE - (MAXOPBLOCKS - OpBlocks)

ReserveInv ==
  /\ phase = "run" /\ outstanding = 0 => lh = <<>>
  /\ phase = "run" /\ outstanding > 0 => Reserved
  /\ Len(dhead) <= LogRegion - 2 \/ dhead = <<>>
  /\ Len(lh) <= LogRegion - 2 \/ lh = <<>>

(* Header in memory and on disk, pinned blocks, and the agreement of log,  *)
(* cache and home blocks at each point of commit() and recovery.           *)
HeadInv ==
  /\ IsInjective(lh) /\ IsInjective(dhead)
  /\ phase \in {"run", "write_log", "done"} => dhead = <<>>
  /\ phase = "install" => dhead = lh
  /\ phase \in {"boot", "done"} => lh = <<>>
  /\ tail <= Len(lh)
  /\ phase \in {"boot", "run", "done"} => tail = 0

CacheInv ==
  /\ phase \in {"run", "write_log", "done"} => dirty = Range(lh)
  /\ phase = "install" /\ committing =>
       dirty = {lh[i] : i \in (tail + 1)..Len(lh)}
  /\ Recovering => dirty = {}
  /\ \A b \in dirty : cache[b] # NoBuf
  /\ \A b \in Blocks : \/ b \in dirty
                       \/ Held(b)
                       \/ cache[b] \in {NoBuf, disk[b]}

CopyInv ==
  /\ phase = "write_log" => \A i \in 1..tail : dlog[i] = cache[lh[i]]
  /\ phase = "install" => \A i \in 1..tail : disk[lh[i]] = dlog[i]
  /\ phase = "install" /\ committing =>
       \A i \in 1..Len(lh) : View(lh[i]) = dlog[i]

(* Blocks of a transaction are pinned until they are home, log and cache   *)
(* agree from write_log() to the end of install_trans(), and the log is    *)
(* never larger than the reservations of begin_op() allow.                 *)
Inv == CountInv /\ HoldInv /\ ReserveInv /\ HeadInv /\ CacheInv /\ CopyInv
-----------------------------------------------------------------------------
(* Refinement: what a reboot would find, were it to happen now.            *)
LogIndex(b) == CHOOSE i \in DOMAIN dhead : dhead[i] = b
Recovered(b) == IF b \in Range(dhead) THEN dlog[LogIndex(b)] ELSE disk[b]

durableBar == [b \in Blocks |-> Recovered(b)]
memBar     == [b \in Blocks |-> IF Recovering THEN Recovered(b) ELSE View(b)]

A == INSTANCE AtomicDisk WITH durable <- durableBar, mem <- memBar,
                              inop <- inopBar

(* The log makes operations atomic: whatever the interleaving of calls,    *)
(* evictions and disk writes, and wherever a crash (also one in recovery)  *)
(* falls, the home blocks move from one quiescent state to the next.       *)
Atomic == A!Spec
=============================================================================
