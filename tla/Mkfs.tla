-------------------------------- MODULE Mkfs --------------------------------
(***************************************************************************)
(* mkfs.c: the image with a root directory and the given files, as a pure  *)
(* computation.  A state of it has the inodes, the blocks and the next     *)
(* free inode and block; iappend() is done cell by cell.                   *)
(***************************************************************************)
EXTENDS FsLayout, Sequences, SequencesExt

Blank == [din |-> [i \in Inums |-> Dinode("none", 0)],
          blk |-> [b \in Blocks |-> Zeroes],
          freeinode |-> 1, freeblock |-> nmeta]

Ialloc(s, t) == [s EXCEPT !.din[s.freeinode] = Dinode(t, 1), !.freeinode = @ + 1]

(* The next free block, named by an inode or by its indirect block.        *)
Direct(s, i, n) ==
  IF s.din[i].addrs[n] # 0 THEN s
  ELSE [s EXCEPT !.din[i].addrs[n] = s.freeblock, !.freeblock = @ + 1]

Indirect(s, i, n) ==
  LET t == Direct(s, i, NDIRECT)
      a == t.din[i].addrs[NDIRECT] IN
  IF t.blk[a][n] # 0 THEN t
  ELSE [t EXCEPT !.blk[a][n] = t.freeblock, !.freeblock = @ + 1]

AppendCell(s, i, v) ==
  LET off == s.din[i].size
      fbn == off \div BSIZE
      t == IF fbn < NDIRECT THEN Direct(s, i, fbn) ELSE Indirect(s, i, fbn - NDIRECT)
      x == Addr(t.blk, t.din[i].addrs, fbn) IN
  [t EXCEPT !.blk[x][off % BSIZE] = v, !.din[i].size = off + 1]

iappend(s, i, cells) ==
  LET Cell(t, v) == AppendCell(t, i, v) IN FoldLeft(Cell, s, cells)

(* A file: its inode, its entry in the root directory, its contents.       *)
AddFile(s, cells) ==
  iappend(iappend(Ialloc(s, "file"), ROOTINO, <<s.freeinode>>), s.freeinode, cells)

(* The size of the root directory is rounded up to blocks.                 *)
RoundedUp(off) == ((off \div BSIZE) + 1) * BSIZE

(* balloc(): the bitmap says that the first n blocks are in use.           *)
Balloc(n) == 0..(n - 1)

mkfs(files) ==
  LET root == iappend(Ialloc(Blank, "dir"), ROOTINO, <<ROOTINO, ROOTINO>>)
      s == FoldLeft(AddFile, root, files) IN
  [din |-> [s.din EXCEPT ![ROOTINO].size = RoundedUp(@)],
   blk |-> s.blk,
   used |-> Balloc(s.freeblock)]
=============================================================================
