----------------------------- MODULE FileBlocks -----------------------------
(***************************************************************************)
(* The contents of files and directories (fs.c: balloc to writei, dirlink; *)
(* file.c: fileread, filewrite) under the calls that change them, with     *)
(* crashes.                                                                *)
(*                                                                         *)
(* An operation between begin_op() and end_op() changes the image in the   *)
(* buffer cache; when the last one ends, the image becomes durable, which  *)
(* is what Log shows of a commit, and a crash goes back to it.  A step is  *)
(* what a process does under the sleep lock of an inode up to the next     *)
(* call of balloc() or bfree(), where operations on other files meet.      *)
(* begin_op() is part of the step that takes the first lock of a call,     *)
(* except in filewrite(), where the operation before it may hold that lock *)
(* to its end.  Files are open for reading and writing.                    *)
(* New files have new names, so an entry of a directory is the number of   *)
(* an inode; all but the root directory is in the root directory.          *)
(***************************************************************************)
EXTENDS FsLayout, Sequences

CONSTANTS Procs, NoProc,
          Images,       \* what mkfs made of the disk
          MAXOPBLOCKS,
          Sizes,        \* of the reads and writes
          MaxCalls, MaxCrashes   \* bounds

VARIABLES
  used, din, blk,          \* the image as bread() shows it
  durable,                 \* the image a crash goes back to
  inode, valid, ref, lock, \* the inode cache
  fd,                      \* the struct file each process holds, or NoProc
  fip, foff,               \* struct file: inode (0: free) and offset
  inop, logged,            \* operations in progress and the blocks they logged
  loc,                     \* where each process is, with its local variables
  panic,
  calls, crashes,          \* bounded
  written,                 \* history: the bytes the calls have put into a file
  pos,                     \* history: how far the calls on a struct file came
  kept,                    \* history: written, when the image became durable
  lost                     \* history: inodes that nothing will free any more

imageVars == <<used, din, blk>>
cacheVars == <<inode, valid, ref, lock>>
fileVars == <<fd, fip, foff>>
opVars == <<durable, inop, logged, kept>>
vars == <<imageVars, cacheVars, fileVars, opVars, loc, panic, calls, crashes,
          written, pos, lost>>

Idle == [pc |-> "idle", ip |-> 0, n |-> 0, n1 |-> 0, tot |-> 0, type |-> "none",
         off |-> 0, todo |-> <<>>]

FileBytes(img) == [i \in Inums |-> IF img.din[i].type = "file"
                                   THEN Content(img.blk, img.din[i]) ELSE <<>>]

(* After a boot nothing is cached; the root directory is somebody's        *)
(* current directory.                                                      *)
NoneValid == [i \in Inums |-> FALSE]
RootOnly == [i \in Inums |-> IF i = ROOTINO THEN 1 ELSE 0]
Unlocked == [i \in Inums |-> NoProc]
NoFiles == [p \in Procs |-> NoProc]
Zero == [f \in Procs |-> 0]
NoBlocks == [p \in Procs |-> {}]
AllIdle == [p \in Procs |-> Idle]

Init ==
  /\ durable \in Images
  /\ used = durable.used /\ din = durable.din /\ blk = durable.blk
  /\ inode = din /\ valid = NoneValid /\ ref = RootOnly /\ lock = Unlocked
  /\ fd = NoFiles /\ fip = Zero /\ foff = Zero
  /\ inop = {} /\ logged = NoBlocks
  /\ loc = AllIdle /\ panic = "no"
  /\ calls = 0 /\ crashes = 0
  /\ written = FileBytes(durable) /\ kept = written /\ pos = Zero
  /\ lost = {}

At(p, l) == panic = "no" /\ loc[p].pc = l
Goto(p, l) == loc' = [loc EXCEPT ![p].pc = l]
Free(i) == lock[i] = NoProc
(* A call begins.                                                          *)
Call(p) == /\ At(p, "idle")
           /\ calls < MaxCalls /\ calls' = calls + 1

BeginOp(p) == /\ inop' = inop \cup {p}
              /\ logged' = [logged EXCEPT ![p] = {}]

(* end_op(): the last operation commits what all of them have done.        *)
Image == [used |-> used, din |-> din, blk |-> blk]
EndOp(p) ==
  /\ inop' = inop \ {p}
  /\ IF inop = {p} THEN durable' = Image' /\ kept' = written'
                   ELSE UNCHANGED <<durable, kept>>

LogWrite(p, bs) == logged' = [logged EXCEPT ![p] = @ \cup bs]

(* ilock() reads the inode if its cache entry is not valid; iget() makes   *)
(* an entry nobody refers to invalid.                                      *)
Loaded(i) == IF valid[i] /\ ref[i] > 0 THEN inode[i] ELSE din[i]
Iget(i) == /\ ref' = [ref EXCEPT ![i] = @ + 1]
           /\ valid' = [valid EXCEPT ![i] = @ /\ ref[i] > 0]
Ilock(i, p) ==
  /\ Free(i)
  /\ lock' = [lock EXCEPT ![i] = p]
  /\ inode' = [inode EXCEPT ![i] = Loaded(i)]
  /\ valid' = [valid EXCEPT ![i] = TRUE]
-----------------------------------------------------------------------------
(* balloc() and bzero(), bmap(): on a record of what they change.  The     *)
(* result has the block's address; full means that balloc() panics.        *)
Working(i) == [used |-> used, blk |-> blk, addrs |-> inode[i].addrs, log |-> {},
               addr |-> 0, full |-> FALSE]

FirstFree(u) == Min(Blocks \ u)
Bzero(k, b) == [k EXCEPT ![b] = Zeroes]

Balloc(s) ==
  IF s.used = Blocks THEN [s EXCEPT !.full = TRUE]
  ELSE LET b == FirstFree(s.used) IN
       [s EXCEPT !.used = @ \cup {b}, !.blk = Bzero(s.blk, b), !.addr = b,
                 !.log = @ \cup {b, BBLOCK(b)}]

BmapDirect(s, n) ==
  IF s.addrs[n] # 0 THEN [s EXCEPT !.addr = s.addrs[n]]
  ELSE LET t == Balloc(s) IN IF t.full THEN t ELSE [t EXCEPT !.addrs[n] = t.addr]

(* The indirect block is there (AllocIndirect).                            *)
BmapIndirect(s, n) ==
  LET ind == s.addrs[NDIRECT] IN
  IF s.blk[ind][n] # 0 THEN [s EXCEPT !.addr = s.blk[ind][n]]
  ELSE LET v == Balloc(s) IN
       IF v.full THEN v
       ELSE [v EXCEPT !.blk[ind][n] = v.addr, !.log = @ \cup {ind}]

Bmap(s, bn) == IF bn < NDIRECT THEN BmapDirect(s, bn) ELSE BmapIndirect(s, bn - NDIRECT)

(* One turn of writei()'s loop: the cells [off, off + m) of one block.     *)
PieceUnaligned(off, n) == Min({n, BSIZE})
Piece(off, n) == Min({n, BSIZE - (off % BSIZE)})
Filled(b, off, m, v) == [c \in 0..(BSIZE - 1) |->
  IF c \in (off % BSIZE)..((off % BSIZE) + m - 1) THEN v ELSE b[c]]
Put(s, off, m, v) ==
  LET t == Bmap(s, off \div BSIZE) IN
  IF t.full THEN t
  ELSE [t EXCEPT !.blk[t.addr] = Filled(@, off, m, v), !.log = @ \cup {t.addr}]

(* writei() ends: a file that has grown gets its size and is written back. *)
Grown(d, off) == off > d.size
Resized(d, off) == IF Grown(d, off) THEN [d EXCEPT !.size = off] ELSE d

Panic(full) == panic' = IF full THEN "balloc: out of blocks" ELSE panic

(* What bmap() and the copying have changed.                               *)
Apply(p, s) ==
  /\ used' = s.used /\ blk' = s.blk
  /\ LogWrite(p, s.log)
  /\ Panic(s.full)

(* iupdate(), for the inodes in is: their cached copies go to their blocks. *)
UpdatedNot(is) == din
Updated(is) == [i \in Inums |-> IF i \in is THEN inode'[i] ELSE din[i]]
InodeBlocks(is) == {IBLOCK(i) : i \in is}
-----------------------------------------------------------------------------
(* filewrite(): as many bytes in one operation as its log space allows.    *)
maxOfData == (MAXOPBLOCKS - 1 - 1 - 2) * BSIZE
max == ((MAXOPBLOCKS - 1 - 1 - 2) \div 2) * BSIZE

FileOf(p) == fip[fd[p]]

Write(p, n) ==
  /\ Call(p) /\ fd[p] # NoProc /\ inode[FileOf(p)].type = "file"
  /\ loc' = [loc EXCEPT ![p] = [Idle EXCEPT !.pc = "chunk", !.ip = FileOf(p), !.n = n]]
  /\ UNCHANGED <<imageVars, cacheVars, fileVars, opVars, panic, crashes, written, pos, lost>>

TooLong(off, n) == off + n > MAXFILE * BSIZE

ChunkBegin(p) ==
  /\ At(p, "chunk")
  /\ BeginOp(p)
  /\ Goto(p, "lock")
  /\ UNCHANGED <<imageVars, cacheVars, fileVars, durable, kept, panic, calls, crashes,
                 written, pos, lost>>

(* ilock() and the tests of writei(), which may end the call.              *)
ChunkLock(p) ==
  /\ At(p, "lock")
  /\ LET i == loc[p].ip
         n1 == Min({loc[p].n, max}) IN
       /\ Free(i)
       /\ IF foff[fd[p]] > inode[i].size \/ TooLong(foff[fd[p]], n1)
          THEN /\ UNCHANGED <<imageVars, written, lock>>
               /\ EndOp(p)
               /\ loc' = [loc EXCEPT ![p] = Idle]
          ELSE /\ lock' = [lock EXCEPT ![i] = p]
               /\ loc' = [loc EXCEPT ![p].pc = "copy", ![p].n1 = n1, ![p].tot = 0,
                                     ![p].off = foff[fd[p]]]
               /\ UNCHANGED <<imageVars, written, durable, kept, inop>>
  /\ UNCHANGED <<inode, valid, ref, fileVars, logged, panic, calls, crashes, pos, lost>>

(* The indirect block is allocated before the block it is to name.         *)
NeedsIndirect(i, off) == off \div BSIZE >= NDIRECT /\ inode[i].addrs[NDIRECT] = 0
CopyOff(p) == loc[p].off + loc[p].tot

AllocIndirect(p, i) ==
  LET s == BmapDirect(Working(i), NDIRECT) IN
  /\ Apply(p, s)
  /\ inode' = [inode EXCEPT ![i].addrs = s.addrs]
  /\ UNCHANGED <<din, valid, ref, lock, fileVars, durable, inop, kept, loc, calls, crashes,
                 written, pos, lost>>

CopyIndirect(p) ==
  /\ At(p, "copy") /\ loc[p].tot < loc[p].n1 /\ NeedsIndirect(loc[p].ip, CopyOff(p))
  /\ AllocIndirect(p, loc[p].ip)

Copy(p) ==
  /\ At(p, "copy") /\ loc[p].tot < loc[p].n1 /\ ~NeedsIndirect(loc[p].ip, CopyOff(p))
  /\ LET i == loc[p].ip
         off == CopyOff(p)
         m == Piece(off, loc[p].n1 - loc[p].tot)
         s == Put(Working(i), off, m, p) IN
       /\ Apply(p, s)
       /\ inode' = [inode EXCEPT ![i].addrs = s.addrs]
       /\ loc' = [loc EXCEPT ![p].tot = @ + m]
  /\ UNCHANGED <<din, valid, ref, lock, fileVars, durable, inop, kept, calls, crashes,
                 written, pos, lost>>

Overlay(w, at, m, v) == [k \in 1..Max({Len(w), at + m}) |->
  IF k \in (at + 1)..(at + m) THEN v ELSE w[k]]

(* writei() and the chunk end.  The offset was read with the inode locked  *)
(* and is moved before it is unlocked.                                     *)
WriteEnd(p) ==
  /\ At(p, "copy") /\ loc[p].tot = loc[p].n1
  /\ LET i == loc[p].ip
         f == fd[p]
         end == loc[p].off + loc[p].n1
         is == IF Grown(inode[i], end) THEN {i} ELSE {} IN
       /\ inode' = [inode EXCEPT ![i] = Resized(@, end)]
       /\ din' = Updated(is)
       /\ LogWrite(p, InodeBlocks(is))
       /\ foff' = [foff EXCEPT ![f] = end]
       /\ written' = [written EXCEPT ![i] = Overlay(@, pos[f], loc[p].n1, p)]
       /\ pos' = [pos EXCEPT ![f] = @ + loc[p].n1]
       /\ lock' = [lock EXCEPT ![i] = NoProc]
       /\ UNCHANGED <<used, blk>>
       /\ EndOp(p)
       /\ loc' = [loc EXCEPT ![p] = IF @.n = @.n1 THEN Idle
                                    ELSE [@ EXCEPT !.pc = "chunk", !.n = @ - loc[p].n1]]
  /\ UNCHANGED <<valid, ref, fd, fip, panic, calls, crashes, lost>>

(* fileread().  Below the size every block is there (Covered), so bmap()   *)
(* allocates nothing.                                                      *)
Read(p, n) ==
  /\ Call(p) /\ fd[p] # NoProc /\ Free(FileOf(p))
  /\ LET f == fd[p]
         r == Min({n, inode[FileOf(p)].size - foff[f]}) IN
       /\ foff' = [foff EXCEPT ![f] = @ + r]
       /\ pos' = [pos EXCEPT ![f] = @ + r]
  /\ UNCHANGED <<imageVars, cacheVars, fd, fip, opVars, loc, panic, crashes, written, lost>>
-----------------------------------------------------------------------------
(* Entries of the root directory.                                          *)
Entries == Content(blk, Loaded(ROOTINO))

(* open() with O_CREATE, or mkdir(), of a new name.                        *)
Create(p, t) ==
  /\ Call(p)
  /\ t = "file" => fd[p] = NoProc /\ fip[p] = 0
  /\ BeginOp(p)
  /\ Ilock(ROOTINO, p)
  /\ loc' = [loc EXCEPT ![p] = [Idle EXCEPT !.pc = "ialloc", !.type = t]]
  /\ UNCHANGED <<imageVars, ref, fileVars, durable, kept, panic, crashes, written, pos, lost>>

FreeInodes == {i \in Inums : din[i].type = "none"}

Ialloc(p) ==
  /\ At(p, "ialloc")
  /\ IF FreeInodes = {}
     THEN /\ panic' = "ialloc: no inodes"
          /\ UNCHANGED <<din, valid, ref, logged, loc, lost>>
     ELSE LET i == Min(FreeInodes) IN
          /\ din' = [din EXCEPT ![i] = Dinode(loc[p].type, 0)]
          /\ LogWrite(p, {IBLOCK(i)})
          /\ Iget(i)
          /\ loc' = [loc EXCEPT ![p].pc = "create", ![p].ip = i]
          /\ lost' = lost \ {i}
          /\ UNCHANGED panic
  /\ UNCHANGED <<used, blk, inode, lock, fileVars, durable, inop, kept, calls, crashes,
                 written, pos>>

(* create() with the new inode locked: its link count, and the parent's    *)
(* for the "..".                                                           *)
CreateInode(p) ==
  /\ At(p, "create")
  /\ LET i == loc[p].ip
         dir == loc[p].type = "dir"
         is == IF dir THEN {i, ROOTINO} ELSE {i} IN
       /\ Free(i)
       /\ lock' = [lock EXCEPT ![i] = p]
       /\ valid' = [valid EXCEPT ![i] = TRUE]
       /\ inode' = [inode EXCEPT ![i] = [Loaded(i) EXCEPT !.nlink = 1],
                                 ![ROOTINO].nlink = IF dir THEN @ + 1 ELSE @]
       /\ din' = Updated(is)
       /\ LogWrite(p, InodeBlocks(is))
       /\ Goto(p, IF dir THEN "dots" ELSE "dirlink")
  /\ UNCHANGED <<used, blk, ref, fileVars, durable, inop, kept, panic, calls, crashes,
                 written, pos, lost>>

(* The entries "." and "..", with the size written back after each.        *)
Dots(p) ==
  /\ At(p, "dots")
  /\ LET i == loc[p].ip
         s == Put(Working(i), 0, 1, i)
         t == IF s.full THEN s ELSE Put(s, 1, 1, ROOTINO) IN
       /\ Apply(p, [t EXCEPT !.log = @ \cup {IBLOCK(i)}])
       /\ inode' = [inode EXCEPT ![i].addrs = t.addrs, ![i].size = 2]
       /\ din' = Updated({i})
       /\ Goto(p, "dirlink")
  /\ UNCHANGED <<valid, ref, lock, fileVars, durable, inop, kept, calls, crashes,
                 written, pos, lost>>

(* dirlink(): the first empty entry, or one more.  The directory is then   *)
(* unlocked.                                                               *)
EntryFor(es) == Min({k \in DOMAIN es : es[k] = 0} \cup {Len(es) + 1}) - 1

DirlinkIndirect(p) ==
  /\ At(p, "dirlink") /\ ~TooLong(EntryFor(Entries), 1)
  /\ NeedsIndirect(ROOTINO, EntryFor(Entries))
  /\ AllocIndirect(p, ROOTINO)

Dirlink(p) ==
  /\ At(p, "dirlink")
  /\ TooLong(EntryFor(Entries), 1) \/ ~NeedsIndirect(ROOTINO, EntryFor(Entries))
  /\ LET off == EntryFor(Entries)
         s == Put(Working(ROOTINO), off, 1, loc[p].ip)
         is == IF Grown(inode[ROOTINO], off + 1) THEN {ROOTINO} ELSE {} IN
       IF TooLong(off, 1)
       THEN /\ panic' = "dirlink"
            /\ UNCHANGED <<imageVars, inode, lock, logged, loc>>
       ELSE /\ Apply(p, [s EXCEPT !.log = @ \cup InodeBlocks(is)])
            /\ inode' = [inode EXCEPT ![ROOTINO] =
                           Resized([@ EXCEPT !.addrs = s.addrs], off + 1)]
            /\ din' = Updated(is)
            /\ lock' = [lock EXCEPT ![ROOTINO] = NoProc]
            /\ Goto(p, IF loc[p].type = "dir" THEN "mkdir" ELSE "open")
  /\ UNCHANGED <<valid, ref, fileVars, durable, inop, kept, calls, crashes, written, pos, lost>>

(* open() gets its struct file; mkdir() puts the inode.                    *)
OpenEnd(p) ==
  /\ At(p, "open")
  /\ fd' = [fd EXCEPT ![p] = p]
  /\ fip' = [fip EXCEPT ![p] = loc[p].ip]
  /\ foff' = [foff EXCEPT ![p] = 0] /\ pos' = [pos EXCEPT ![p] = 0]
  /\ lock' = [lock EXCEPT ![loc[p].ip] = NoProc]
  /\ loc' = [loc EXCEPT ![p] = Idle]
  /\ UNCHANGED <<imageVars, written>>
  /\ EndOp(p)
  /\ UNCHANGED <<inode, valid, ref, logged, panic, calls, crashes, lost>>

MkdirEnd(p) ==
  /\ At(p, "mkdir")
  /\ lock' = [lock EXCEPT ![loc[p].ip] = NoProc]
  /\ Goto(p, "iput")
  /\ UNCHANGED <<imageVars, inode, valid, ref, fileVars, opVars, panic, calls, crashes,
                 written, pos, lost>>

(* open() of what is there.                                                *)
Open(p, k) ==
  /\ Call(p) /\ fd[p] = NoProc /\ fip[p] = 0 /\ Free(ROOTINO)
  /\ k \in DOMAIN Entries /\ k > 2 /\ Entries[k] # 0
  /\ LET i == Entries[k] IN
       /\ Free(i)
       /\ ref' = [ref EXCEPT ![i] = @ + 1]
       /\ inode' = [inode EXCEPT ![i] = Loaded(i)]
       /\ valid' = [valid EXCEPT ![i] = TRUE]
       /\ fd' = [fd EXCEPT ![p] = p]
       /\ fip' = [fip EXCEPT ![p] = i]
       /\ foff' = [foff EXCEPT ![p] = 0] /\ pos' = [pos EXCEPT ![p] = 0]
  /\ UNCHANGED <<imageVars, lock, opVars, loc, panic, crashes, written, lost>>

(* A process comes to share the struct file of another, as after fork().   *)
Share(p, q) ==
  /\ At(p, "idle") /\ At(q, "idle") /\ fd[p] = NoProc /\ fd[q] # NoProc /\ fip[p] = 0
  /\ fd' = [fd EXCEPT ![p] = fd[q]]
  /\ UNCHANGED <<imageVars, cacheVars, fip, foff, opVars, loc, panic, calls, crashes,
                 written, pos, lost>>
-----------------------------------------------------------------------------
(* unlink(): the entry is found with the directory locked ...              *)
Unlink(p, k) ==
  /\ Call(p)
  /\ k \in DOMAIN Entries /\ k > 2 /\ Entries[k] # 0
  /\ BeginOp(p)
  /\ Free(ROOTINO) /\ lock' = [lock EXCEPT ![ROOTINO] = p]
  /\ inode' = [inode EXCEPT ![ROOTINO] = Loaded(ROOTINO)]
  /\ LET i == Entries[k] IN
       /\ ref' = [ref EXCEPT ![i] = @ + 1]
       /\ valid' = [valid EXCEPT ![ROOTINO] = TRUE, ![i] = @ /\ ref[i] > 0]
       /\ loc' = [loc EXCEPT ![p] = [Idle EXCEPT !.pc = "unlink", !.ip = i, !.off = k - 1]]
  /\ UNCHANGED <<imageVars, fileVars, durable, kept, panic, crashes, written, pos, lost>>

(* ... and emptied with the inode locked too; the link counts follow.      *)
UnlinkEntry(p) ==
  /\ At(p, "unlink")
  /\ LET i == loc[p].ip
         d == Loaded(i)
         dir == d.type = "dir"
         s == Put(Working(ROOTINO), loc[p].off, 1, 0)
         is == IF dir THEN {i, ROOTINO} ELSE {i} IN
       /\ Free(i)
       /\ lock' = [lock EXCEPT ![ROOTINO] = NoProc]
       /\ valid' = [valid EXCEPT ![i] = TRUE]
       /\ inode' = [inode EXCEPT ![i] = [d EXCEPT !.nlink = @ - 1],
                                 ![ROOTINO].nlink = IF dir THEN @ - 1 ELSE @]
       /\ din' = Updated(is)
       /\ Apply(p, [s EXCEPT !.log = @ \cup InodeBlocks(is)])
       /\ Goto(p, "iput")
  /\ UNCHANGED <<ref, fileVars, durable, inop, kept, calls, crashes, written, pos, lost>>

(* close(): the last reference to a struct file puts its inode, in an      *)
(* operation of its own.                                                   *)
Close(p) ==
  /\ At(p, "idle") /\ fd[p] # NoProc
  /\ fd' = [fd EXCEPT ![p] = NoProc]
  /\ IF \E q \in Procs \ {p} : fd[q] = fd[p]
     THEN UNCHANGED <<fip, inop, logged, loc>>
     ELSE /\ fip' = [fip EXCEPT ![fd[p]] = 0]
          /\ BeginOp(p)
          /\ loc' = [loc EXCEPT ![p] = [Idle EXCEPT !.pc = "iput", !.ip = FileOf(p)]]
  /\ UNCHANGED <<imageVars, cacheVars, foff, durable, kept, panic, calls, crashes,
                 written, pos, lost>>

(* iput(): the last reference of an unlinked inode truncates it.  itrunc() *)
(* frees the blocks in this order; none of them is the file's any more.    *)
Unused(i) == valid[i] /\ inode[i].nlink = 0 /\ ref[i] = 1

NamedDirectly(i) ==
  SelectSeq([n \in 1..MAXFILE |-> NamedBy(blk, inode[i], n - 1)], LAMBDA b : b # 0)
NamedInOrder(i) ==
  SelectSeq([n \in 1..(MAXFILE + 1) |-> NamedBy(blk, inode[i], n - 1)], LAMBDA b : b # 0)

Iput(p) ==
  /\ At(p, "iput")
  /\ LET i == loc[p].ip IN
       /\ Free(i)
       /\ IF Unused(i)
          THEN /\ lock' = [lock EXCEPT ![i] = p]
               /\ inode' = [inode EXCEPT ![i].addrs = NoAddrs]
               /\ loc' = [loc EXCEPT ![p].pc = "itrunc", ![p].todo = NamedInOrder(i)]
          ELSE /\ Goto(p, "unref")
               /\ UNCHANGED <<lock, inode>>
       /\ lost' = lost \cup {j \in {i} : \E q \in Procs : At(q, "unref") /\ loc[q].ip = i}
  /\ UNCHANGED <<imageVars, valid, ref, fileVars, opVars, panic, calls, crashes,
                 written, pos>>

Bfree(p) ==
  /\ At(p, "itrunc") /\ loc[p].todo # <<>>
  /\ LET b == Head(loc[p].todo) IN
       /\ panic' = IF b \in used THEN panic ELSE "freeing free block"
       /\ used' = used \ {b}
       /\ LogWrite(p, {BBLOCK(b)})
  /\ loc' = [loc EXCEPT ![p].todo = Tail(@)]
  /\ UNCHANGED <<din, blk, cacheVars, fileVars, durable, inop, kept, calls, crashes,
                 written, pos, lost>>

(* itrunc() ends and iput() goes on: size 0 is written back, then type 0.  *)
(* Nobody can see the one without the other.                               *)
FreedSizeOnly(d) == [d EXCEPT !.size = 0]
Freed(d) == [d EXCEPT !.size = 0, !.type = "none"]

TruncEnd(p) ==
  /\ At(p, "itrunc") /\ loc[p].todo = <<>>
  /\ LET i == loc[p].ip IN
       /\ inode' = [inode EXCEPT ![i] = Freed(@)]
       /\ din' = Updated({i})
       /\ LogWrite(p, {IBLOCK(i)})
       /\ written' = [written EXCEPT ![i] = <<>>]
       /\ Goto(p, "freed")
  /\ UNCHANGED <<used, blk, valid, ref, lock, fileVars, durable, inop, kept, panic, calls,
                 crashes, pos, lost>>

(* From here on ialloc() may find the inode while it is still valid.       *)
Invalidate(p) ==
  /\ At(p, "freed")
  /\ valid' = [valid EXCEPT ![loc[p].ip] = FALSE]
  /\ lock' = [lock EXCEPT ![loc[p].ip] = NoProc]
  /\ Goto(p, "unref")
  /\ UNCHANGED <<imageVars, inode, ref, fileVars, opVars, panic, calls, crashes, written,
                 pos, lost>>

Unref(p) ==
  /\ At(p, "unref")
  /\ ref' = [ref EXCEPT ![loc[p].ip] = @ - 1]
  /\ loc' = [loc EXCEPT ![p] = Idle]
  /\ UNCHANGED <<imageVars, written>>
  /\ EndOp(p)
  /\ UNCHANGED <<inode, valid, lock, fileVars, logged, panic, calls, crashes, pos, lost>>

(* The machine stops, after a panic or at any other time, and boots again. *)
(* Of the inodes that had no name any more nobody knows that they are not  *)
(* wanted.                                                                 *)
Nameless(img) == {i \in Inums : img.din[i].type # "none" /\ img.din[i].nlink = 0}

Crash ==
  /\ crashes < MaxCrashes /\ crashes' = crashes + 1
  /\ used' = durable.used /\ din' = durable.din /\ blk' = durable.blk
  /\ inode' = din' /\ valid' = NoneValid /\ ref' = RootOnly /\ lock' = Unlocked
  /\ fd' = NoFiles /\ fip' = Zero /\ foff' = Zero
  /\ inop' = {} /\ logged' = NoBlocks
  /\ loc' = AllIdle /\ panic' = "no"
  /\ written' = kept /\ pos' = Zero /\ lost' = Nameless(durable)
  /\ UNCHANGED <<durable, kept, calls>>

Step(p) ==
  \/ ChunkBegin(p) \/ ChunkLock(p) \/ CopyIndirect(p) \/ Copy(p) \/ WriteEnd(p)
  \/ Ialloc(p) \/ CreateInode(p) \/ Dots(p) \/ DirlinkIndirect(p) \/ Dirlink(p)
  \/ OpenEnd(p) \/ MkdirEnd(p)
  \/ UnlinkEntry(p) \/ Iput(p) \/ Bfree(p) \/ TruncEnd(p) \/ Invalidate(p)
  \/ Unref(p)

Calls(p) ==
  \/ \E n \in Sizes : Write(p, n) \/ Read(p, n)
  \/ \E t \in {"file", "dir"} : Create(p, t)
  \/ \E k \in 1..(MAXFILE * BSIZE) : Open(p, k) \/ Unlink(p, k)
  \/ Close(p)
  \/ \E q \in Procs \ {p} : Share(p, q)

Next == (\E p \in Procs : Step(p) \/ Calls(p)) \/ Crash

Spec == Init /\ [][Next]_vars
-----------------------------------------------------------------------------
TypeOK ==
  /\ used \in SUBSET Blocks /\ DOMAIN din = Inums /\ DOMAIN blk = Blocks
  /\ \A i \in Inums : /\ inode[i].type \in {"none", "file", "dir"}
                      /\ inode[i].size \in 0..(MAXFILE * BSIZE)
                      /\ ref[i] \in 0..(2 * Cardinality(Procs) + 1)
                      /\ lock[i] \in Procs \cup {NoProc}
  /\ valid \in [Inums -> BOOLEAN] /\ inop \subseteq Procs
  /\ fd \in [Procs -> Procs \cup {NoProc}] /\ fip \in [Procs -> {0} \cup Inums]
  /\ panic \in {"no", "balloc: out of blocks", "ialloc: no inodes", "dirlink",
                "freeing free block"}

(* A block of the disk has one owner: it is named by one place of one      *)
(* inode, or an itrunc() is about to free it, or it is marked free; a      *)
(* block that is none of these is lost.  This holds between any two steps  *)
(* of operations that allocate and free at the same time.                  *)
Freeing(p) == {loc[p].todo[k] : k \in DOMAIN loc[p].todo}
AllFreeing == UNION {Freeing(p) : p \in Procs}
OneOwner ==
  LET cur == [i \in Inums |-> Loaded(i)] IN
  /\ TypeOK
  /\ NamedOnce(blk, cur)
  /\ AllFreeing \cap NamedByAny(blk, cur) = {}
  /\ \A p, q \in Procs : p # q => Freeing(p) \cap Freeing(q) = {}
  /\ used = 0..(nmeta - 1) \cup NamedByAny(blk, cur) \cup AllFreeing

(* Whenever the machine stops, the image it boots from is one mkfs could   *)
(* have made, but for inodes without a name that were open: blocks have    *)
(* one owner and none is lost, every block below a size is there, entries  *)
(* name inodes in use and the link counts are the numbers of entries.      *)
Sound(img) ==
  LET es == Content(img.blk, img.din[ROOTINO])
      at(i) == {k \in DOMAIN es : k > 2 /\ es[k] = i}
      dirs == {k \in DOMAIN es : k > 2 /\ es[k] # 0 /\ img.din[es[k]].type = "dir"} IN
  /\ NamedOnce(img.blk, img.din)
  /\ img.used = 0..(nmeta - 1) \cup NamedByAny(img.blk, img.din)
  /\ \A i \in Inums : Covered(img.blk, img.din[i])
  /\ \A i \in Inums \ {ROOTINO} :
       /\ img.din[i].nlink = Cardinality(at(i))
       /\ at(i) # {} => img.din[i].type # "none"
  /\ img.din[ROOTINO].nlink = 1 + Cardinality(dirs)
DurableSound == Sound(durable)

(* No operation logs more than MAXOPBLOCKS - 2 different blocks, which is  *)
(* what the log needs (Room, in Log): not an unaligned chunk of a write    *)
(* that begins the indirect block, nor a mkdir() or the last unlink().     *)
OpFits == \A p \in Procs : Cardinality(logged[p]) <= MAXOPBLOCKS - 2

(* A file that nobody is writing holds the bytes written to it, each call  *)
(* at the offset where the calls on its struct file had come, whoever      *)
(* shared that struct file, and after a crash those of the last commit.    *)
ContentsAsWritten == \A i \in Inums :
  Free(i) /\ Loaded(i).type = "file" => Content(blk, Loaded(i)) = written[i]

(* The file system panics only when the disk, or the table of inodes, is   *)
(* full of files that have a name or are open.  Two kinds of files are     *)
(* never freed: those open without a name in a crash, and those whose last *)
(* two references iput() takes at once (lost).                             *)
Wanted(i) == Loaded(i).nlink > 0 \/ ref[i] > 0 \/ i \in lost
PanicsOnlyWhenFull ==
  \/ panic = "no"
  \/ /\ panic = "balloc: out of blocks"
     /\ used = Blocks
     /\ \A i \in Inums : Named(blk, Loaded(i)) # {} => Wanted(i)
  \/ panic = "ialloc: no inodes" /\ \A i \in Inums : Wanted(i)
=============================================================================
