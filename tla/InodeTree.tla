----------------------------- MODULE InodeTree ------------------------------
(***************************************************************************)
(* What the calls of Inode keep true of the tree of directories.           *)
(*                                                                         *)
(* A directory can be removed while a process works in it or a call is on  *)
(* its way through it, and nothing in sysfile.c and fs.c asks whether it   *)
(* still has links.  A call that makes an entry in a removed directory, or *)
(* goes up its "..", has left the tree: what it makes is found by nobody,  *)
(* and what ".." names may have been freed.  The history variable strayed  *)
(* says that some call has done so; the properties are about all other     *)
(* behaviours, those with removed directories in use included.             *)
(***************************************************************************)
EXTENDS Inode

VARIABLE strayed

Removed(d) == type[d] = "dir" /\ nlink[d] = 0

(* The next step of process p takes it out of the tree: namex() goes up    *)
(* "..", or create() or link() uses a name other than ".".                 *)
LeavesTree(p) ==
  \/ At(p, "walk") /\ Removed(loc[p].cur) /\ Head(loc[p].path) = ".."
  \/ loc[p].pc \in {"create", "link"} /\ Removed(loc[p].dp) /\ loc[p].name # "."

TreeInit == Init /\ strayed = FALSE

TreeNext ==
  \E p \in Procs :
    \/ /\ Step(p)
       /\ strayed' = (strayed \/ LeavesTree(p))
    \/ /\ CloseFile(p) \/ \E c \in Calls[p] : Begin(p, c)
       /\ UNCHANGED strayed

TreeSpec == TreeInit /\ [][TreeNext]_<<vars, strayed>>
-----------------------------------------------------------------------------
Linked(d) == type[d] = "dir" /\ nlink[d] > 0
Entries(i) == {e \in Inums \X (DirNames \ {"."}) : Linked(e[1]) /\ ents[e[1]][e[2]] = i}

(* fs.c: the inode holds "the number of links referring to it".  Between   *)
(* calls, the link count of an inode is the number of entries for it in    *)
(* directories of the tree, a subdirectory's ".." included, unless a call  *)
(* has made an entry in a removed directory or gone up its "..".           *)
NlinkCounts == Quiet /\ ~strayed => \A i \in Inums :
  type[i] # "none" => nlink[i] = Cardinality(Entries(i))

(* An inode in use is never freed: the entries of directories in the tree, *)
(* the open files and the current directories are allocated inodes.  The   *)
(* only panic of fs.c and sysfile.c that is reached is that of a disk      *)
(* without free inodes: no lookup finds a free inode, nothing is unlinked  *)
(* once too often.  Both hold unless a call has made an entry in a removed *)
(* directory or gone up its "..".  All fields keep their types.            *)
InUse(i) == \/ \E d \in Inums, n \in DirNames : Linked(d) /\ ents[d][n] = i
            \/ \E p \in Procs : i \in {cwd[p], fip[p]}
InUseAllocated ==
  /\ TypeOK
  /\ ~strayed => /\ panic \in {"no", "ialloc: no inodes"}
                 /\ \A i \in Inums : InUse(i) => type[i] # "none"
=============================================================================
