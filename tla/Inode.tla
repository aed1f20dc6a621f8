-------------------------------- MODULE Inode -------------------------------
(***************************************************************************)
(* Inodes, directories and path names (fs.c) under the system calls that   *)
(* change them (sysfile.c): open, create, mkdir, mknod, link, unlink,      *)
(* chdir, close.                                                           *)
(*                                                                         *)
(* Steps follow the sleep locks of the inodes: what is done under the lock *)
(* of an inode, or under icache.lock, without waiting for another lock, is *)
(* one action.  The inode cache is write-through, so an inode's fields are *)
(* kept once; valid says whether the cache entry has been loaded.  A       *)
(* directory is a function from names to inode numbers, 0 for none; a path *)
(* is a sequence of names, "/" first if it is absolute.  A process has one *)
(* file descriptor (NOFILE is 1), so open() also meets a full table.  The  *)
(* transactions around the calls are Log's subject.                        *)
(***************************************************************************)
EXTENDS Processes, Integers, Sequences

CONSTANTS NoProc,
          NINODES,   \* inodes on disk
          Names,     \* names of files and directories
          Calls      \* calls each process makes: records of op, path and new,
                     \* the path link() makes

ROOTINO == 1
Inums == 1..NINODES
DirNames == Names \cup {".", ".."}

ASSUME InodeConstants ==
  /\ NINODES \in Nat \ {0} /\ NoProc \notin Procs
  /\ "." \notin Names /\ ".." \notin Names

VARIABLES
  type, nlink, ents,       \* struct dinode, and the entries of a directory
  ref, valid, locked,      \* struct inode: the cache entry of an inode
  cwd, fip,                \* each process's directory, the inode of its open file
  loc,                     \* where each process is, with its local variables
  panic                    \* the panic that stopped the machine, or "no"

diskVars == <<type, nlink, ents>>
cacheVars == <<ref, valid, locked>>
vars == <<diskVars, cacheVars, cwd, fip, loc, panic>>

Empty == [n \in DirNames |-> 0]
Idle == [pc |-> "idle", op |-> "none", path |-> <<>>, new |-> <<>>, parent |-> FALSE,
         cur |-> 0, dp |-> 0, ip |-> 0, name |-> ".", put |-> 0, ret |-> "idle"]

(* After mkfs and boot: an empty root directory, every process in it.      *)
Init ==
  /\ type = [i \in Inums |-> IF i = ROOTINO THEN "dir" ELSE "none"]
  /\ nlink = [i \in Inums |-> IF i = ROOTINO THEN 1 ELSE 0]
  /\ ents = [i \in Inums |-> IF i = ROOTINO
                             THEN [Empty EXCEPT !["."] = ROOTINO, ![".."] = ROOTINO]
                             ELSE Empty]
  /\ ref = [i \in Inums |-> IF i = ROOTINO THEN Cardinality(Procs) ELSE 0]
  /\ valid = [i \in Inums |-> FALSE]
  /\ locked = [i \in Inums |-> NoProc]
  /\ cwd = [p \in Procs |-> ROOTINO] /\ fip = [p \in Procs |-> 0]
  /\ loc = [p \in Procs |-> Idle]
  /\ panic = "no"

At(p, l) == panic = "no" /\ loc[p].pc = l
Goto(p, l) == loc' = [loc EXCEPT ![p].pc = l]
Done(p) == loc' = [loc EXCEPT ![p] = Idle]
(* iput(i), then on to l.                                                  *)
IputThen(p, i, l) == loc' = [loc EXCEPT ![p].put = i, ![p].ret = l, ![p].pc = "iput"]

Free(i) == locked[i] = NoProc
Lock(i, p) == locked' = [locked EXCEPT ![i] = p]
Unlock(i) == locked' = [locked EXCEPT ![i] = NoProc]

(* ilock(): the first one loads the inode and panics if it is free.        *)
NoType(i) == ~valid[i] /\ type[i] = "none"
Load(i) == /\ valid' = [valid EXCEPT ![i] = TRUE]
           /\ panic' = IF NoType(i) THEN "ilock: no type" ELSE panic

(* iget(): an entry nobody refers to is not valid.                         *)
Iget(i) == IF ref[i] = 0 THEN [valid EXCEPT ![i] = FALSE] ELSE valid

RefUp(i) == [ref EXCEPT ![i] = @ + 1]
-----------------------------------------------------------------------------
Creating == {"creat", "mkdir", "mknod"}

(* namex() starts at the root or at the current directory.                 *)
Absolute(path) == path # <<>> /\ Head(path) = "/"
Start(p, path) == IF Absolute(path) THEN ROOTINO ELSE cwd[p]
Elements(path) == IF Absolute(path) THEN Tail(path) ELSE path

(* skipelem() finds names only between the slashes of a path.              *)
Paths == {s \in Seq(DirNames \cup {"/"}) : Elements(s) \in Seq(DirNames)}

ASSUME CallsConstants ==
  \A p \in Procs : \A c \in Calls[p] :
    /\ c.op \in Creating \cup {"open", "openw", "chdir", "link", "unlink"}
    /\ c.path \in Paths /\ c.new \in Paths

(* A system call begins, with the namex() of its path.                     *)
Begin(p, c) ==
  /\ At(p, "idle")
  /\ valid' = Iget(Start(p, c.path))
  /\ ref' = RefUp(Start(p, c.path))
  /\ loc' = [loc EXCEPT ![p] =
       [Idle EXCEPT !.pc = "namex", !.op = c.op, !.new = c.new,
                    !.cur = Start(p, c.path), !.path = Elements(c.path),
                    !.parent = c.op \in Creating \cup {"unlink"}]]
  /\ UNCHANGED <<diskVars, locked, cwd, fip, panic>>

(* close() of the open file, the last reference to its struct file.        *)
CloseFile(p) ==
  /\ At(p, "idle") /\ fip[p] # 0
  /\ fip' = [fip EXCEPT ![p] = 0]
  /\ IputThen(p, fip[p], "end")
  /\ UNCHANGED <<diskVars, cacheVars, cwd, panic>>

(* Where a failed lookup goes: link() must undo its count.                 *)
Failed(p) == IF loc[p].op = "link" /\ loc[p].ip # 0 THEN "linkbad" ELSE "end"

End(p) ==
  /\ At(p, "end")
  /\ Done(p)
  /\ UNCHANGED <<diskVars, cacheVars, cwd, fip, panic>>

(* namex(): the path is used up.                                           *)
NamexEnd(p) ==
  /\ At(p, "namex") /\ loc[p].path = <<>>
  /\ IF loc[p].parent
     THEN IputThen(p, loc[p].cur, Failed(p))
     ELSE loc' = [loc EXCEPT ![p].ip = loc[p].cur, ![p].pc = "found"]
  /\ UNCHANGED <<diskVars, cacheVars, cwd, fip, panic>>

NamexLock(p) ==
  /\ At(p, "namex") /\ loc[p].path # <<>> /\ Free(loc[p].cur)
  /\ Lock(loc[p].cur, p)
  /\ Load(loc[p].cur)
  /\ Goto(p, "walk")
  /\ UNCHANGED <<diskVars, ref, cwd, fip>>

(* namex(), with the directory locked: not a directory, the parent wanted, *)
(* no such name, or one element further.                                   *)
Walk(p) ==
  /\ At(p, "walk")
  /\ LET i == loc[p].cur
         n == Head(loc[p].path)
         next == ents[i][n] IN
       /\ Unlock(i)
       /\ \/ /\ type[i] # "dir"
             /\ IputThen(p, i, Failed(p))
             /\ UNCHANGED <<ref, valid>>
          \/ /\ type[i] = "dir" /\ loc[p].parent /\ Len(loc[p].path) = 1
             /\ loc' = [loc EXCEPT ![p].dp = i, ![p].name = n, ![p].pc = "parent"]
             /\ UNCHANGED <<ref, valid>>
          \/ /\ type[i] = "dir" /\ ~(loc[p].parent /\ Len(loc[p].path) = 1) /\ next = 0
             /\ IputThen(p, i, Failed(p))
             /\ UNCHANGED <<ref, valid>>
          \/ /\ type[i] = "dir" /\ ~(loc[p].parent /\ Len(loc[p].path) = 1) /\ next # 0
             /\ valid' = Iget(next)
             /\ ref' = RefUp(next)
             /\ loc' = [loc EXCEPT ![p].cur = next, ![p].path = Tail(@), ![p].put = i,
                                   ![p].ret = "namex", ![p].pc = "iput"]
  /\ UNCHANGED <<diskVars, cwd, fip, panic>>
-----------------------------------------------------------------------------
(* iput(): with the lock, is it the last reference of an unlinked inode?   *)
LastReferenceIgnored(i) == valid[i] /\ nlink[i] = 0
LastReference(i) == valid[i] /\ nlink[i] = 0 /\ ref[i] = 1

Iput(p) ==
  /\ At(p, "iput") /\ Free(loc[p].put)
  /\ IF LastReference(loc[p].put)
     THEN Lock(loc[p].put, p) /\ Goto(p, "itrunc")
     ELSE Goto(p, "unref") /\ UNCHANGED locked
  /\ UNCHANGED <<diskVars, ref, valid, cwd, fip, panic>>

(* itrunc(), and type 0 on disk.                                           *)
Itrunc(p) ==
  /\ At(p, "itrunc")
  /\ type' = [type EXCEPT ![loc[p].put] = "none"]
  /\ ents' = [ents EXCEPT ![loc[p].put] = Empty]
  /\ Goto(p, "freed")
  /\ UNCHANGED <<nlink, cacheVars, cwd, fip, panic>>

Freed(p) ==
  /\ At(p, "freed")
  /\ valid' = [valid EXCEPT ![loc[p].put] = FALSE]
  /\ Unlock(loc[p].put)
  /\ Goto(p, "unref")
  /\ UNCHANGED <<diskVars, ref, cwd, fip, panic>>

Unref(p) ==
  /\ At(p, "unref")
  /\ ref' = [ref EXCEPT ![loc[p].put] = @ - 1]
  /\ Goto(p, loc[p].ret)
  /\ UNCHANGED <<diskVars, valid, locked, cwd, fip, panic>>
-----------------------------------------------------------------------------
(* open() takes the file descriptor and keeps the reference, or fails and  *)
(* puts it; "openw" is open() for writing, which refuses a directory.      *)
OpenedNotPut(p, ok) ==
  IF ok /\ fip[p] = 0
  THEN fip' = [fip EXCEPT ![p] = loc[p].ip] /\ Goto(p, "end")
  ELSE fip' = fip /\ Goto(p, "end")
Opened(p, ok) ==
  IF ok /\ fip[p] = 0
  THEN fip' = [fip EXCEPT ![p] = loc[p].ip] /\ Goto(p, "end")
  ELSE fip' = fip /\ IputThen(p, loc[p].ip, "end")

Open(p) ==
  /\ At(p, "found") /\ loc[p].op \in {"open", "openw"} /\ Free(loc[p].ip)
  /\ Load(loc[p].ip)
  /\ Opened(p, loc[p].op = "open" \/ type[loc[p].ip] # "dir")
  /\ UNCHANGED <<diskVars, ref, locked, cwd>>

Chdir(p) ==
  /\ At(p, "found") /\ loc[p].op = "chdir" /\ Free(loc[p].ip)
  /\ Load(loc[p].ip)
  /\ IF type[loc[p].ip] = "dir"
     THEN cwd' = [cwd EXCEPT ![p] = loc[p].ip] /\ IputThen(p, cwd[p], "end")
     ELSE cwd' = cwd /\ IputThen(p, loc[p].ip, "end")
  /\ UNCHANGED <<diskVars, ref, locked, fip>>

LinkOld(p) ==
  /\ At(p, "found") /\ loc[p].op = "link" /\ Free(loc[p].ip)
  /\ type[loc[p].ip] = "dir"
  /\ Load(loc[p].ip)
  /\ IputThen(p, loc[p].ip, "end")
  /\ UNCHANGED <<diskVars, ref, locked, cwd, fip>>

LinkCount(p) ==
  /\ At(p, "found") /\ loc[p].op = "link" /\ Free(loc[p].ip)
  /\ type[loc[p].ip] # "dir"
  /\ Load(loc[p].ip)
  /\ nlink' = [nlink EXCEPT ![loc[p].ip] = @ + 1]
  /\ Goto(p, "linknew")
  /\ UNCHANGED <<type, ents, ref, locked, cwd, fip>>

(* nameiparent() of the new name.                                          *)
LinkNew(p) ==
  /\ At(p, "linknew")
  /\ valid' = Iget(Start(p, loc[p].new))
  /\ ref' = RefUp(Start(p, loc[p].new))
  /\ loc' = [loc EXCEPT ![p].pc = "namex", ![p].cur = Start(p, loc[p].new),
                        ![p].path = Elements(loc[p].new), ![p].parent = TRUE]
  /\ UNCHANGED <<diskVars, locked, cwd, fip, panic>>

(* link() failed after the count: take it back.                            *)
LinkUndoneNot(i) == nlink
LinkUndone(i) == [nlink EXCEPT ![i] = @ - 1]

LinkBad(p) ==
  /\ At(p, "linkbad") /\ Free(loc[p].ip)
  /\ nlink' = LinkUndone(loc[p].ip)
  /\ IputThen(p, loc[p].ip, "end")
  /\ UNCHANGED <<type, ents, cacheVars, cwd, fip, panic>>

(* ilock() of the parent directory, for all three kinds of calls.          *)
ParentLock(p) ==
  /\ At(p, "parent") /\ Free(loc[p].dp)
  /\ Lock(loc[p].dp, p)
  /\ Load(loc[p].dp)
  /\ Goto(p, IF loc[p].op \in Creating THEN "create" ELSE loc[p].op)
  /\ UNCHANGED <<diskVars, ref, cwd, fip>>

Entry(p) == ents[loc[p].dp][loc[p].name]

(* link(): dirlink().  An existing entry is looked up and put while the    *)
(* directory is locked.                                                    *)
LinkExists(p) ==
  /\ At(p, "link") /\ Entry(p) # 0
  /\ valid' = Iget(Entry(p))
  /\ ref' = RefUp(Entry(p))
  /\ IputThen(p, Entry(p), "linkunlock")
  /\ UNCHANGED <<diskVars, locked, cwd, fip, panic>>

LinkUnlock(p) ==
  /\ At(p, "linkunlock")
  /\ Unlock(loc[p].dp)
  /\ IputThen(p, loc[p].dp, "linkbad")
  /\ UNCHANGED <<diskVars, ref, valid, cwd, fip, panic>>

LinkEntry(p) ==
  /\ At(p, "link") /\ Entry(p) = 0
  /\ ents' = [ents EXCEPT ![loc[p].dp][loc[p].name] = loc[p].ip]
  /\ Unlock(loc[p].dp)
  /\ IputThen(p, loc[p].dp, "putip")
  /\ UNCHANGED <<type, nlink, ref, valid, cwd, fip, panic>>

(* The iput() of ip that ends link().                                      *)
PutIp(p) ==
  /\ At(p, "putip")
  /\ IputThen(p, loc[p].ip, "end")
  /\ UNCHANGED <<diskVars, cacheVars, cwd, fip, panic>>
-----------------------------------------------------------------------------
(* unlink(): "." and "..", or no such name.                                *)
UnlinkBad(p) ==
  /\ At(p, "unlink")
  /\ loc[p].name \in {".", ".."} \/ Entry(p) = 0
  /\ Unlock(loc[p].dp)
  /\ IputThen(p, loc[p].dp, "end")
  /\ UNCHANGED <<diskVars, ref, valid, cwd, fip, panic>>

UnlinkLookup(p) ==
  /\ At(p, "unlink")
  /\ loc[p].name \notin {".", ".."} /\ Entry(p) # 0
  /\ valid' = Iget(Entry(p))
  /\ ref' = RefUp(Entry(p))
  /\ loc' = [loc EXCEPT ![p].ip = Entry(p), ![p].pc = "unlink2"]
  /\ UNCHANGED <<diskVars, locked, cwd, fip, panic>>

IsDirEmpty(i) == \A n \in Names : ents[i][n] = 0

NotEmpty(i) == type[i] = "dir" /\ ~IsDirEmpty(i)

(* ilock() of what is to be unlinked, which must have a link.              *)
LoadLinked(i) ==
  /\ valid' = [valid EXCEPT ![i] = TRUE]
  /\ panic' = CASE NoType(i) -> "ilock: no type"
                [] ~NoType(i) /\ nlink[i] < 1 -> "unlink: nlink < 1"
                [] OTHER -> panic

(* unlink(), with both locked.  The directory's link count loses the "..". *)
UnlinkNotEmpty(p) ==
  /\ At(p, "unlink2") /\ Free(loc[p].ip)
  /\ NotEmpty(loc[p].ip)
  /\ LoadLinked(loc[p].ip)
  /\ IputThen(p, loc[p].ip, "unlinkbad")
  /\ UNCHANGED <<diskVars, ref, locked, cwd, fip>>

UnlinkUnlock(p) ==
  /\ At(p, "unlinkbad")
  /\ Unlock(loc[p].dp)
  /\ IputThen(p, loc[p].dp, "end")
  /\ UNCHANGED <<diskVars, ref, valid, cwd, fip, panic>>

ParentCount(i, d) == IF type[i] = "dir" THEN [nlink EXCEPT ![d] = @ - 1] ELSE nlink

UnlinkEntry(p) ==
  /\ At(p, "unlink2") /\ Free(loc[p].ip)
  /\ ~NotEmpty(loc[p].ip)
  /\ LoadLinked(loc[p].ip)
  /\ ents' = [ents EXCEPT ![loc[p].dp][loc[p].name] = 0]
  /\ nlink' = ParentCount(loc[p].ip, loc[p].dp)
  /\ locked' = [locked EXCEPT ![loc[p].ip] = p, ![loc[p].dp] = NoProc]
  /\ IputThen(p, loc[p].dp, "unlinked")
  /\ UNCHANGED <<type, ref, cwd, fip>>

Unlinked(p) ==
  /\ At(p, "unlinked")
  /\ nlink' = [nlink EXCEPT ![loc[p].ip] = @ - 1]
  /\ Unlock(loc[p].ip)
  /\ IputThen(p, loc[p].ip, "end")
  /\ UNCHANGED <<type, ents, ref, valid, cwd, fip, panic>>
-----------------------------------------------------------------------------
(* create(): the name exists.                                              *)
CreateExists(p) ==
  /\ At(p, "create") /\ Entry(p) # 0
  /\ valid' = Iget(Entry(p))
  /\ ref' = RefUp(Entry(p))
  /\ Unlock(loc[p].dp)
  /\ loc' = [loc EXCEPT ![p].ip = Entry(p), ![p].put = loc[p].dp,
                        ![p].ret = "exists", ![p].pc = "iput"]
  /\ UNCHANGED <<diskVars, cwd, fip, panic>>

Exists(p) ==
  /\ At(p, "exists") /\ Free(loc[p].ip)
  /\ Load(loc[p].ip)
  /\ Opened(p, loc[p].op = "creat" /\ type[loc[p].ip] = "file")
  /\ UNCHANGED <<diskVars, ref, locked, cwd>>

(* ialloc() takes the first free inode, and panics if there is none.       *)
FreeInums == {i \in Inums : type[i] = "none"}

TypeMade(op) == CASE op = "mkdir" -> "dir" [] op = "mknod" -> "dev" [] OTHER -> "file"

CreateAlloc(p) ==
  /\ At(p, "create") /\ Entry(p) = 0 /\ FreeInums # {}
  /\ LET i == CHOOSE k \in FreeInums : \A j \in FreeInums : k <= j IN
       /\ type' = [type EXCEPT ![i] = TypeMade(loc[p].op)]
       /\ nlink' = [nlink EXCEPT ![i] = 0]
       /\ ents' = [ents EXCEPT ![i] = Empty]
       /\ valid' = Iget(i)
       /\ ref' = RefUp(i)
       /\ loc' = [loc EXCEPT ![p].ip = i, ![p].pc = "create2"]
  /\ UNCHANGED <<locked, cwd, fip, panic>>

CreateNoInodes(p) ==
  /\ At(p, "create") /\ Entry(p) = 0 /\ FreeInums = {}
  /\ panic' = "ialloc: no inodes"
  /\ UNCHANGED <<diskVars, cacheVars, cwd, fip, loc>>

(* ilock() of the new inode, its link count, "." and "..", and the entry.  *)
CreateEntry(p) ==
  /\ At(p, "create2") /\ Free(loc[p].ip)
  /\ LET i == loc[p].ip
         d == loc[p].dp
         dir == loc[p].op = "mkdir" IN
       /\ Load(i)
       /\ nlink' = [nlink EXCEPT ![i] = 1, ![d] = IF dir THEN @ + 1 ELSE @]
       /\ ents' = [ents EXCEPT
            ![i] = IF dir THEN [ents[i] EXCEPT !["."] = i, ![".."] = d] ELSE @,
            ![d][loc[p].name] = i]
       /\ locked' = [locked EXCEPT ![i] = p, ![d] = NoProc]
       /\ IputThen(p, d, "created")
  /\ UNCHANGED <<type, ref, cwd, fip>>

Created(p) ==
  /\ At(p, "created")
  /\ Unlock(loc[p].ip)
  /\ Opened(p, loc[p].op = "creat")
  /\ UNCHANGED <<diskVars, ref, valid, cwd, panic>>
-----------------------------------------------------------------------------
Step(p) ==
  \/ NamexEnd(p) \/ NamexLock(p) \/ Walk(p) \/ End(p)
  \/ Iput(p) \/ Itrunc(p) \/ Freed(p) \/ Unref(p)
  \/ Open(p) \/ Chdir(p) \/ LinkOld(p) \/ LinkCount(p) \/ LinkNew(p) \/ LinkBad(p)
  \/ ParentLock(p) \/ LinkExists(p) \/ LinkUnlock(p) \/ LinkEntry(p) \/ PutIp(p)
  \/ UnlinkBad(p) \/ UnlinkLookup(p) \/ UnlinkNotEmpty(p) \/ UnlinkUnlock(p)
  \/ UnlinkEntry(p) \/ Unlinked(p)
  \/ CreateExists(p) \/ Exists(p) \/ CreateAlloc(p) \/ CreateNoInodes(p)
  \/ CreateEntry(p) \/ Created(p)

Next == \E p \in Procs : Step(p) \/ CloseFile(p) \/ \E c \in Calls[p] : Begin(p, c)

Spec == Init /\ [][Next]_vars
-----------------------------------------------------------------------------
(* Types of the file system.                                               *)
TypeOK ==
  /\ type \in [Inums -> {"none", "file", "dir", "dev"}]
  /\ \A i \in Inums : nlink[i] \in Nat
  /\ ents \in [Inums -> [DirNames -> 0..NINODES]]
  /\ \A i \in Inums : ref[i] \in Nat
  /\ valid \in [Inums -> BOOLEAN] /\ locked \in [Inums -> Procs \cup {NoProc}]
  /\ cwd \in [Procs -> Inums] /\ fip \in [Procs -> 0..NINODES]

(* Between calls, the references to an inode are the open files and the    *)
(* current directories.                                                    *)
Quiet == \A p \in Procs : loc[p].pc = "idle"
HoldersOf(i) == Cardinality({p \in Procs : cwd[p] = i}) + Cardinality({p \in Procs : fip[p] = i})
RefCounts == Quiet => \A i \in Inums : ref[i] = HoldersOf(i)
=============================================================================
