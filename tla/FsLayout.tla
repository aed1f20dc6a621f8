------------------------------ MODULE FsLayout ------------------------------
(***************************************************************************)
(* The disk as fs.h and mkfs.c lay it out, and what a file system image    *)
(* is: the bitmap as the set of blocks in use, the inodes, the contents of *)
(* the blocks.  A cell of a block holds a byte of a file, an address of an *)
(* indirect block or an entry of a directory, which is the number of an    *)
(* inode; all three have the size 1, and 0 is the empty one of each.       *)
(***************************************************************************)
EXTENDS Integers, FiniteSets, FiniteSetsExt

CONSTANTS FSSIZE,    \* blocks of the disk
          BSIZE,     \* cells of a block
          NLOG,      \* blocks of the log
          NINODES,
          IPB, BPB,  \* inodes, and bits of the bitmap, in one block
          NDIRECT

NINDIRECT == BSIZE
MAXFILE == NDIRECT + NINDIRECT

ninodeblocks == NINODES \div IPB + 1
nbitmap == FSSIZE \div BPB + 1
inodestart == 2 + NLOG
bmapstart == inodestart + ninodeblocks
nmeta == 2 + NLOG + ninodeblocks + nbitmap

ASSUME FsConstants ==
  /\ FSSIZE \in Nat /\ BSIZE \in Nat \ {0} /\ NLOG \in Nat
  /\ NINODES \in Nat \ {0, 1} /\ IPB \in Nat \ {0} /\ BPB \in Nat \ {0}
  /\ NDIRECT \in Nat \ {0}
  /\ nmeta < FSSIZE

ROOTINO == 1
Inums == 1..(NINODES - 1)
Blocks == 0..(FSSIZE - 1)
IBLOCK(i) == i \div IPB + inodestart
BBLOCK(b) == b \div BPB + bmapstart

(* struct dinode.                                                          *)
NoAddrs == [n \in 0..NDIRECT |-> 0]
Dinode(t, n) == [type |-> t, nlink |-> n, size |-> 0, addrs |-> NoAddrs]
Zeroes == [c \in 0..(BSIZE - 1) |-> 0]

(* The address of block bn of a file, 0 if it has none.                    *)
Addr(blk, addrs, bn) ==
  IF bn < NDIRECT THEN addrs[bn]
  ELSE IF addrs[NDIRECT] = 0 THEN 0
  ELSE blk[addrs[NDIRECT]][bn - NDIRECT]

(* The contents of a file, as readi() finds them block by block.           *)
Content(blk, d) ==
  [k \in 1..d.size |-> blk[Addr(blk, d.addrs, (k - 1) \div BSIZE)][(k - 1) % BSIZE]]

(* The places of an inode that may name a block, and what they name.       *)
Places == 0..MAXFILE
NamedBy(blk, d, n) == IF n = MAXFILE THEN d.addrs[NDIRECT] ELSE Addr(blk, d.addrs, n)
Named(blk, d) == {NamedBy(blk, d, n) : n \in Places} \ {0}

(* No block is named twice, whatever inode names it and from where.        *)
Naming(blk, din) == {x \in (DOMAIN din) \X Places : NamedBy(blk, din[x[1]], x[2]) # 0}
NamedOnce(blk, din) == \A x, y \in Naming(blk, din) :
  NamedBy(blk, din[x[1]], x[2]) = NamedBy(blk, din[y[1]], y[2]) => x = y

NamedByAny(blk, din) == UNION {Named(blk, din[i]) : i \in DOMAIN din}

(* Blocks of a file from its start to its size: all there.                 *)
Covered(blk, d) == \A n \in 0..(MAXFILE - 1) :
  n * BSIZE < d.size => Addr(blk, d.addrs, n) # 0
=============================================================================
