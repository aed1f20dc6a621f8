------------------------------ MODULE MCInode -------------------------------
(***************************************************************************)
(* Two processes in a small file system: one with files of the root        *)
(* directory, one that makes, fills, enters and removes a directory.       *)
(***************************************************************************)
EXTENDS InodeTree, TLC
CONSTANTS p1, p2

Call(o, path) == [op |-> o, path |-> path, new |-> <<>>]
LinkCall(path, to) == [op |-> "link", path |-> path, new |-> to]

FileCalls ==
  {Call("creat", <<"b">>), Call("open", <<"b">>), Call("unlink", <<"/", "b">>),
   LinkCall(<<"/", "b">>, <<"/", "a">>), Call("chdir", <<"/", "a">>)}

DirCalls ==
  {Call("mkdir", <<"/", "a">>), Call("mkdir", <<"/", "a", "b">>),
   Call("unlink", <<"/", "a", "b">>), Call("unlink", <<"/", "a">>),
   Call("chdir", <<"a", "b">>), Call("chdir", <<"..">>), Call("openw", <<"a", ".">>),
   Call("mknod", <<"/">>), Call("unlink", <<".">>), LinkCall(<<"/", "a">>, <<"/", "b">>)}

TwoProcesses == p1 :> FileCalls @@ p2 :> DirCalls
=============================================================================
