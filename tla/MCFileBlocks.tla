---------------------------- MODULE MCFileBlocks ----------------------------
(* Two processes on a disk with nine data blocks.                         *)
EXTENDS FileBlocks, TLC
CONSTANTS p1, p2

M == INSTANCE Mkfs

(* The root directory and one file, which has an indirect block, or is     *)
(* short and leaves room for such a file; or as many short files as there  *)
(* are inodes.  The entries never fill a block exactly: mkfs would then    *)
(* give the root directory the size of one block more than it has.         *)
MadeByMkfs ==
  {M!mkfs(fs) : fs \in {<<<<3, 3, 3, 3, 3, 3, 3>>>>, <<<<3>>>>, <<<<3>>, <<3>>, <<3>>>>}}
Symmetry == Permutations({p1, p2})
=============================================================================
