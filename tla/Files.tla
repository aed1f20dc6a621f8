-------------------------------- MODULE Files --------------------------------
(***************************************************************************)
(* The file table, the descriptors of the processes and the ends of pipes  *)
(* (file.c, sysfile.c, pipealloc() and pipeclose() of pipe.c).             *)
(*                                                                         *)
(* A step is what is done under ftable.lock or under a pipe's lock: a      *)
(* fileclose() that takes the last reference puts the pipe or the inode in *)
(* a later step.  Which descriptors a process closes and opens is said by  *)
(* the module that extends this one.  A pipe counts the writes it holds:   *)
(* that its bytes come out as they went in is shown in Pipe.               *)
(***************************************************************************)
EXTENDS Processes, Integers, Sequences, FiniteSetsExt

CONSTANTS NFILE, NOFILE,
          Pages,       \* what kalloc() can give to pipes
          PIPESIZE,    \* writes a pipe holds
          Inodes

ASSUME FilesConstants ==
  /\ NFILE \in Nat /\ PIPESIZE \in Nat \ {0}
  /\ NOFILE \in Nat /\ NOFILE >= 2
  /\ Pages \subseteq Nat /\ Inodes \subseteq Nat /\ Pages \cap Inodes = {}

VARIABLES
  file,      \* ftable.file
  ofile,     \* the descriptors of each process, 0 if closed
  pipe,      \* the pipe in each page
  iref,      \* references of files to each inode
  making,    \* files that a pipealloc() or sys_pipe() in progress has
  closing,   \* files that a call in progress has yet to fileclose(), in their order
  putting    \* what a fileclose() has taken the last reference of, to put

filesVars == <<file, ofile, pipe, iref, making, closing, putting>>

Fds == 0..(NOFILE - 1)
Slots == 1..NFILE
None == -1     \* FD_NONE
NoFile == [ref |-> 0, obj |-> None, readable |-> FALSE, writable |-> FALSE]
NoFds == [d \in Fds |-> 0]
NoPage == [live |-> FALSE, readopen |-> FALSE, writeopen |-> FALSE, n |-> 0]
NewPipe == [live |-> TRUE, readopen |-> TRUE, writeopen |-> TRUE, n |-> 0]

(* The call a process was in has returned.                                 *)
Returned(p) == making[p] = <<>> /\ closing[p] = NoFds /\ putting[p] = NoFile

-----------------------------------------------------------------------------
(* filealloc() and fdalloc() take the first free one.                      *)
FreeSlots == {f \in Slots : file[f].ref = 0}
FreeFds(fds) == {d \in Fds : fds[d] = 0}
Filealloc(f) == f = Min(FreeSlots)
Taken(fds, f) == [fds EXCEPT ![Min(FreeFds(fds))] = f]

IsOpen(p, d) == d \in Fds /\ ofile[p][d] # 0
FileAt(p, d) == file[ofile[p][d]]

(* filedup() for a sequence of descriptors that come to name files.        *)
Named(fds, f) == Cardinality({d \in Fds : fds[d] = f})
Dupped(fds) == [f \in Slots |-> [file[f] EXCEPT !.ref = @ + Named(fds, f)]]

-----------------------------------------------------------------------------
(* fileclose() of the files in fds: the first now, the others later.  A    *)
(* file is free when its last reference goes.                              *)
LastRef(f) == file[f].ref = 1
OpenFds(fds) == {d \in Fds : fds[d] # 0}

FilecloseEach(p, fds) ==
  /\ IF OpenFds(fds) = {} THEN UNCHANGED <<file, putting, closing>>
     ELSE LET d == Min(OpenFds(fds))
              f == fds[d] IN
          /\ file' = [file EXCEPT ![f] = IF LastRef(f) THEN NoFile ELSE [file[f] EXCEPT !.ref = @ - 1]]
          /\ putting' = [putting EXCEPT ![p] =
               IF LastRef(f) /\ file[f].obj # None THEN file[f] ELSE NoFile]
          /\ closing' = [closing EXCEPT ![p] = [fds EXCEPT ![d] = 0]]

Fileclose(p) ==
  /\ closing[p] # NoFds /\ putting[p] = NoFile
  /\ FilecloseEach(p, closing[p])
  /\ UNCHANGED <<ofile, pipe, iref, making>>

(* pipeclose(): the page goes with the second end.                         *)
EndClosed(g, w) == IF w THEN [g EXCEPT !.writeopen = FALSE] ELSE [g EXCEPT !.readopen = FALSE]
PageAfter(g) == IF g.readopen \/ g.writeopen THEN g ELSE NoPage

Put(p) ==
  /\ putting[p] # NoFile
  /\ LET o == putting[p].obj IN
       IF o \in Pages
       THEN /\ pipe' = [pipe EXCEPT ![o] = PageAfter(EndClosed(@, putting[p].writable))]
            /\ UNCHANGED iref
       ELSE /\ iref' = [iref EXCEPT ![o] = @ - 1]
            /\ UNCHANGED pipe
  /\ putting' = [putting EXCEPT ![p] = NoFile]
  /\ UNCHANGED <<file, ofile, making, closing>>

Close(p, d) ==
  /\ Returned(p)
  /\ FilecloseEach(p, IF IsOpen(p, d) THEN [NoFds EXCEPT ![d] = ofile[p][d]] ELSE NoFds)
  /\ ofile' = IF IsOpen(p, d) THEN [ofile EXCEPT ![p][d] = 0] ELSE ofile
  /\ UNCHANGED <<pipe, iref, making>>

(* exit() closes every descriptor.                                         *)
CloseAll(p) ==
  /\ Returned(p)
  /\ FilecloseEach(p, ofile[p])
  /\ ofile' = [ofile EXCEPT ![p] = NoFds]
  /\ UNCHANGED <<pipe, iref, making>>

Dup(p, d) ==
  /\ Returned(p)
  /\ IF IsOpen(p, d) /\ FreeFds(ofile[p]) # {}
     THEN /\ ofile' = [ofile EXCEPT ![p] = Taken(@, ofile[p][d])]
          /\ file' = [file EXCEPT ![ofile[p][d]].ref = @ + 1]
     ELSE UNCHANGED <<ofile, file>>
  /\ UNCHANGED <<pipe, iref, making, closing, putting>>

(* fork() gives the child the descriptors of the parent.                   *)
Inherit(p, q) ==
  /\ Returned(p)
  /\ ofile' = [ofile EXCEPT ![q] = ofile[p]]
  /\ file' = Dupped(ofile[p])
  /\ UNCHANGED <<pipe, iref, making, closing, putting>>

-----------------------------------------------------------------------------
(* open() of an inode that namei() or create() has found.                  *)
OpenDone(p, i, r, w) ==
  /\ Returned(p) /\ FreeSlots # {} /\ FreeFds(ofile[p]) # {}
  /\ \E f \in Slots :
       /\ Filealloc(f)
       /\ file' = [file EXCEPT ![f] = [ref |-> 1, obj |-> i, readable |-> r, writable |-> w]]
       /\ ofile' = [ofile EXCEPT ![p] = Taken(@, f)]
  /\ iref' = [iref EXCEPT ![i] = @ + 1]
  /\ UNCHANGED <<pipe, making, closing, putting>>

(* There is no such inode, or no file for it, ...                          *)
OpenNoInode(p) == Returned(p) /\ UNCHANGED filesVars
OpenNoFile(p) == FreeSlots = {} /\ Returned(p) /\ UNCHANGED filesVars

(* ... or a file and no descriptor: the file is closed again.              *)
OpenNoFd(p) ==
  /\ Returned(p) /\ FreeSlots # {} /\ FreeFds(ofile[p]) = {}
  /\ \E f \in Slots :
       /\ Filealloc(f)
       /\ file' = [file EXCEPT ![f].ref = 1]
       /\ closing' = [closing EXCEPT ![p][0] = f]
  /\ UNCHANGED <<ofile, pipe, iref, making, putting>>

(* pipe(): the first file, ...                                             *)
PipeFirst(p) ==
  /\ Returned(p) /\ FreeSlots # {}
  /\ \E f \in Slots :
       /\ Filealloc(f)
       /\ file' = [file EXCEPT ![f].ref = 1]
       /\ making' = [making EXCEPT ![p] = <<f>>]
  /\ UNCHANGED <<ofile, pipe, iref, closing, putting>>

(* ... the second, ...                                                     *)
PipeSecond(p) ==
  /\ Len(making[p]) = 1 /\ FreeSlots # {}
  /\ \E f \in Slots :
       /\ Filealloc(f)
       /\ file' = [file EXCEPT ![f].ref = 1]
       /\ making' = [making EXCEPT ![p] = Append(@, f)]
  /\ UNCHANGED <<ofile, pipe, iref, closing, putting>>

(* ... the page, which makes files of them, and two descriptors.           *)
FreePages == {o \in Pages : ~pipe[o].live}
PipeEnd(o, w) == [ref |-> 1, obj |-> o, readable |-> ~w, writable |-> w]
PipeMade(p, o) ==
  /\ o \in FreePages
  /\ pipe' = [pipe EXCEPT ![o] = NewPipe]
  /\ file' = [file EXCEPT ![making[p][1]] = PipeEnd(o, FALSE),
                          ![making[p][2]] = PipeEnd(o, TRUE)]

PipeDone(p, o) ==
  /\ Len(making[p]) = 2 /\ Cardinality(FreeFds(ofile[p])) >= 2
  /\ PipeMade(p, o)
  /\ ofile' = [ofile EXCEPT ![p] = Taken(Taken(@, making[p][1]), making[p][2])]
  /\ making' = [making EXCEPT ![p] = <<>>]
  /\ UNCHANGED <<iref, closing, putting>>

(* The descriptors fdalloc() gave, which are two or the first of two.      *)
NewFds(p) == LET d == Min(FreeFds(ofile[p])) IN <<d, Min(FreeFds(ofile[p]) \ {d})>>

(* Too few descriptors: both files are closed, and the pipe with them.     *)
CloseOne(fs) == [NoFds EXCEPT ![0] = fs[1]]
CloseBoth(fs) == [NoFds EXCEPT ![0] = fs[1], ![1] = fs[2]]
PipeNoFd(p, o) ==
  /\ Len(making[p]) = 2 /\ Cardinality(FreeFds(ofile[p])) < 2
  /\ PipeMade(p, o)
  /\ closing' = [closing EXCEPT ![p] = CloseBoth(making[p])]
  /\ making' = [making EXCEPT ![p] = <<>>]
  /\ UNCHANGED <<ofile, iref, putting>>

(* The file table is full, or there is no page: the files taken so far are *)
(* closed.                                                                 *)
PipeNoFile(p) ==
  /\ FreeSlots = {}
  /\ \/ Returned(p) /\ UNCHANGED closing
     \/ Len(making[p]) = 1 /\ closing' = [closing EXCEPT ![p][0] = making[p][1]]
  /\ making' = [making EXCEPT ![p] = <<>>]
  /\ UNCHANGED <<file, ofile, pipe, iref, putting>>
PipeNoPage(p) ==
  /\ Len(making[p]) = 2
  /\ closing' = [closing EXCEPT ![p] = CloseBoth(making[p])]
  /\ making' = [making EXCEPT ![p] = <<>>]
  /\ UNCHANGED <<file, ofile, pipe, iref, putting>>

-----------------------------------------------------------------------------
(* read() and write() of one unit.  A pipe that is empty, or full, makes   *)
(* the process wait as long as somebody has the other end.                 *)
CanRead(p, d) == IsOpen(p, d) /\ FileAt(p, d).readable
CanWrite(p, d) == IsOpen(p, d) /\ FileAt(p, d).writable
OnPipe(p, d) == FileAt(p, d).obj \in Pages
PipeAt(p, d) == pipe[FileAt(p, d).obj]

ReadPipe(p, d) ==
  /\ Returned(p) /\ CanRead(p, d) /\ OnPipe(p, d) /\ PipeAt(p, d).n > 0
  /\ pipe' = [pipe EXCEPT ![FileAt(p, d).obj].n = @ - 1]
  /\ UNCHANGED <<file, ofile, iref, making, closing, putting>>

EndOfPipe(p, d) == OnPipe(p, d) /\ PipeAt(p, d).n = 0 /\ ~PipeAt(p, d).writeopen

ReadInode(p, d) == CanRead(p, d) /\ ~OnPipe(p, d)

WritePipe(p, d) ==
  /\ Returned(p) /\ CanWrite(p, d) /\ OnPipe(p, d) /\ PipeAt(p, d).n < PIPESIZE
  /\ pipe' = [pipe EXCEPT ![FileAt(p, d).obj].n = @ + 1]
  /\ UNCHANGED <<file, ofile, iref, making, closing, putting>>

(* A writer learns that there is no reader only once the pipe is full.     *)
NoReader(p, d) == OnPipe(p, d) /\ PipeAt(p, d).n = PIPESIZE /\ ~PipeAt(p, d).readopen
-----------------------------------------------------------------------------
(* The most general client: any process makes any of these calls at any    *)
(* time.  fork() gives descriptors to a slot that has none.                *)
FilesInit ==
  /\ file = [f \in Slots |-> NoFile] /\ ofile = [p \in Procs |-> NoFds]
  /\ pipe = [o \in Pages |-> NoPage] /\ iref = [i \in Inodes |-> 0]
  /\ making = [p \in Procs |-> <<>>] /\ closing = [p \in Procs |-> NoFds]
  /\ putting = [p \in Procs |-> NoFile]

FilesCall(p) ==
  \/ Fileclose(p) \/ Put(p) \/ CloseAll(p)
  \/ \E d \in Fds : Close(p, d) \/ Dup(p, d) \/ ReadPipe(p, d) \/ WritePipe(p, d)
  \/ \E q \in Procs \ {p} : Returned(q) /\ ofile[q] = NoFds /\ Inherit(p, q)
  \/ \E i \in Inodes, r, w \in BOOLEAN : OpenDone(p, i, r, w)
  \/ OpenNoInode(p) \/ OpenNoFile(p) \/ OpenNoFd(p)
  \/ PipeFirst(p) \/ PipeSecond(p) \/ PipeNoFile(p) \/ PipeNoPage(p)
  \/ \E o \in Pages : PipeDone(p, o) \/ PipeNoFd(p, o)

FilesSpec == FilesInit /\ [][\E p \in Procs : FilesCall(p)]_filesVars
-----------------------------------------------------------------------------
(* The places that can hold a reference to a file, and what they hold.     *)
Places == ({"ofile", "closing"} \X Procs \X Fds) \cup ({"making"} \X Procs \X {1, 2})
Held(x) == CASE x[1] = "ofile" -> ofile[x[2]][x[3]]
             [] x[1] = "closing" -> closing[x[2]][x[3]]
             [] x[1] = "making" -> IF x[3] \in DOMAIN making[x[2]] THEN making[x[2]][x[3]] ELSE 0
Holders(f) == {x \in Places : Held(x) = f}

(* The files, and what is about to be put, that stand for an end of a pipe *)
(* or for an inode.                                                        *)
EndHeld(o, w) == \/ \E f \in Slots : file[f].obj = o /\ file[f].writable = w
                 \/ \E p \in Procs : putting[p].obj = o /\ putting[p].writable = w
InodeHeld(i) == Cardinality({f \in Slots : file[f].obj = i})
                + Cardinality({p \in Procs : putting[p].obj = i})

(* The counts of references are right between any two steps of the calls,  *)
(* whatever fails in them: a file has as many references as descriptors    *)
(* and calls hold, and is free when there are none; an end of a pipe is    *)
(* open as long as a file stands for it, and its page is kept as long as   *)
(* an end is open; an inode has a reference for every file of it.          *)
FileRefs ==
  /\ \A f \in Slots :
       /\ file[f].ref = Cardinality(Holders(f))
       /\ file[f].ref = 0 => file[f] = NoFile
  /\ \A o \in Pages :
       /\ pipe[o].readopen <=> EndHeld(o, FALSE)
       /\ pipe[o].writeopen <=> EndHeld(o, TRUE)
       /\ pipe[o].live <=> pipe[o].readopen \/ pipe[o].writeopen
  /\ \A i \in Inodes : iref[i] = InodeHeld(i)
=============================================================================
