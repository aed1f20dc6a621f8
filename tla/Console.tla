------------------------------ MODULE Console -------------------------------
(***************************************************************************)
(* Console input (console.c): the ring between the interrupt handler       *)
(* consoleintr() and the readers in consoleread(), in cooked mode and in   *)
(* the raw mode that setconsbuf(0) gives the editor.                       *)
(*                                                                         *)
(* consoleintr() handles each key in one action.  consoleread() holds      *)
(* cons.lock from one sleep to the next, one action per key; only kill()   *)
(* and setconsbuf(), which take other locks or none, come in between.  The *)
(* echo on the screen, the process listing of ^P and the last key kept for *)
(* getinput() are not part of this module.                                 *)
(***************************************************************************)
EXTENDS Integers, Sequences

CONSTANTS Procs, INPUT_BUF,
          WORD,       \* r, w and e are unsigned: they wrap at WORD (2^32)
          Plain,      \* keys without a meaning of their own
          MaxN,       \* bound: bytes asked for in one read
          Killable, NoProc

Newline == "nl"
Eof == "^D"
Key == Plain \cup {Newline, Eof}

ASSUME ConsoleConstants ==
  /\ INPUT_BUF \in Nat \ {0} /\ WORD \in Nat /\ MaxN \in Nat
  /\ WORD > INPUT_BUF /\ WORD % INPUT_BUF = 0
  /\ Killable \subseteq Procs /\ NoProc \notin Procs
  /\ Newline \notin Plain /\ Eof \notin Plain

VARIABLES
  inbuf, r, w, e,     \* struct input
  buffering,          \* cooked mode
  lock,               \* cons.lock, when held between two actions
  pc, want, got,      \* consoleread(): n, and what it has copied out
  asleep, killed

ringVars == <<inbuf, r, w, e>>
procVars == <<asleep, killed>>
vars == <<ringVars, buffering, lock, pc, want, got, procVars>>

Slots == 0..(INPUT_BUF - 1)
Dist(a, b) == (b - a) % WORD
At(i) == inbuf[i % INPUT_BUF]

Init ==
  /\ inbuf = [i \in Slots |-> Eof] /\ r = 0 /\ w = 0 /\ e = 0
  /\ buffering = TRUE
  /\ lock = NoProc
  /\ pc = [p \in Procs |-> "user"]
  /\ want = [p \in Procs |-> 0] /\ got = [p \in Procs |-> <<>>]
  /\ asleep = {} /\ killed = [p \in Procs |-> FALSE]
-----------------------------------------------------------------------------
(* consoleintr(): a key is stored if there is room, and in raw mode or at  *)
(* the end of a line, of the file or of the ring everything is handed over.*)
HasRoom == Dist(r, e) < INPUT_BUF

HandsOver(c, e1) ==
  \/ ~buffering \/ c \in {Newline, Eof}
  \/ e1 = (r + INPUT_BUF) % WORD

WokenByKeyNotEof(c) == IF c = Eof THEN {} ELSE asleep
WokenByKey(c) == asleep

KeyStored(c) ==
  /\ lock = NoProc /\ HasRoom
  /\ inbuf' = [inbuf EXCEPT ![e % INPUT_BUF] = c]
  /\ e' = (e + 1) % WORD
  /\ IF HandsOver(c, e')
     THEN w' = e' /\ asleep' = asleep \ WokenByKey(c)
     ELSE UNCHANGED <<w, asleep>>
  /\ UNCHANGED <<r, buffering, lock, pc, want, got, killed>>

(* Backspace, and ^U or ^C, which erase back to the line's beginning.      *)
MayEraseHandedOver == e # r
MayErase == e # w

Backspace ==
  /\ lock = NoProc /\ buffering /\ MayErase
  /\ e' = (e - 1) % WORD
  /\ UNCHANGED <<inbuf, r, w, buffering, lock, pc, want, got, procVars>>

(* How many keys the loop of ^U erases: up to w or to a newline.           *)
Erased == CHOOSE k \in 0..Dist(w, e) :
  /\ \A i \in 1..k : At(e - i) # Newline
  /\ k = Dist(w, e) \/ At(e - k - 1) = Newline

KillLine ==
  /\ lock = NoProc /\ buffering
  /\ e' = (e - Erased) % WORD
  /\ UNCHANGED <<inbuf, r, w, buffering, lock, pc, want, got, procVars>>

(* setconsbuf(): no lock.                                                  *)
SetConsBuf(isbuf) ==
  /\ buffering' = isbuf
  /\ UNCHANGED <<ringVars, lock, pc, want, got, procVars>>
-----------------------------------------------------------------------------
ReadCall(p, n) ==
  /\ pc[p] = "user" /\ ~killed[p]
  /\ pc' = [pc EXCEPT ![p] = "acquire"]
  /\ want' = [want EXCEPT ![p] = n]
  /\ got' = [got EXCEPT ![p] = <<>>]
  /\ UNCHANGED <<ringVars, buffering, lock, procVars>>

Acquire(p) ==
  /\ pc[p] = "acquire" /\ p \notin asleep /\ lock = NoProc
  /\ lock' = p
  /\ pc' = [pc EXCEPT ![p] = "loop"]
  /\ UNCHANGED <<ringVars, buffering, want, got, procVars>>

Return(p) == lock' = NoProc /\ pc' = [pc EXCEPT ![p] = "user"]

(* The loop of consoleread(): done, nothing to read, end of file, a key.   *)
WantsMore(p) == want[p] > 0

ReadDone(p) ==
  /\ pc[p] = "loop" /\ ~WantsMore(p)
  /\ Return(p)
  /\ UNCHANGED <<ringVars, buffering, want, got, procVars>>

ReadEmpty(p) ==
  /\ pc[p] = "loop" /\ WantsMore(p) /\ r = w
  /\ IF killed[p]
     THEN Return(p)
     ELSE pc' = [pc EXCEPT ![p] = "sleep"] /\ lock' = lock
  /\ UNCHANGED <<ringVars, buffering, want, got, procVars>>

(* ^D is kept for the next call when this one has something to return.     *)
KeepsEofNot(p) == FALSE
KeepsEof(p) == got[p] # <<>>

ReadEof(p) ==
  /\ pc[p] = "loop" /\ WantsMore(p) /\ r # w /\ At(r) = Eof
  /\ r' = IF KeepsEof(p) THEN r ELSE (r + 1) % WORD
  /\ Return(p)
  /\ UNCHANGED <<inbuf, w, e, buffering, want, got, procVars>>

ReadKey(p) ==
  /\ pc[p] = "loop" /\ WantsMore(p) /\ r # w /\ At(r) # Eof
  /\ r' = (r + 1) % WORD
  /\ got' = [got EXCEPT ![p] = Append(@, At(r))]
  /\ want' = [want EXCEPT ![p] = @ - 1]
  /\ IF At(r) = Newline THEN Return(p) ELSE UNCHANGED <<lock, pc>>
  /\ UNCHANGED <<inbuf, w, e, buffering, procVars>>

(* sleep(): cons.lock is given up.                                         *)
Sleep(p) ==
  /\ pc[p] = "sleep"
  /\ asleep' = asleep \cup {p}
  /\ lock' = NoProc
  /\ pc' = [pc EXCEPT ![p] = "acquire"]
  /\ UNCHANGED <<ringVars, buffering, want, got, killed>>

(* kill(), and the end of a killed process.                                *)
Kill(p) ==
  /\ p \in Killable
  /\ killed' = [killed EXCEPT ![p] = TRUE]
  /\ asleep' = asleep \ {p}
  /\ UNCHANGED <<ringVars, buffering, lock, pc, want, got>>

Exit(p) ==
  /\ killed[p] /\ pc[p] = "user"
  /\ killed' = [killed EXCEPT ![p] = FALSE]
  /\ UNCHANGED <<ringVars, buffering, lock, pc, want, got, asleep>>

ReadStep(p) ==
  \/ Acquire(p) \/ ReadDone(p) \/ ReadEmpty(p) \/ ReadEof(p) \/ ReadKey(p)
  \/ Sleep(p)

Next ==
  \/ \E c \in Key : KeyStored(c)
  \/ Backspace \/ KillLine
  \/ \E isbuf \in BOOLEAN : SetConsBuf(isbuf)
  \/ \E p \in Procs : ReadStep(p) \/ Kill(p) \/ Exit(p)
  \/ \E p \in Procs, n \in 0..MaxN : ReadCall(p, n)

Spec == Init /\ [][Next]_vars

(* A reader in the kernel runs, and gets cons.lock when it spins for it.   *)
LiveSpec == Spec /\ \A p \in Procs : SF_vars(ReadStep(p))
-----------------------------------------------------------------------------
(* Types of the console's input.                                           *)
TypeOK ==
  /\ inbuf \in [Slots -> Key] /\ {r, w, e} \subseteq 0..(WORD - 1)
  /\ buffering \in BOOLEAN /\ lock \in Procs \cup {NoProc}
  /\ pc \in [Procs -> {"user", "acquire", "loop", "sleep"}]
  /\ want \in [Procs -> 0..MaxN]
  /\ \A p \in Procs : Len(got[p]) <= MaxN
  /\ asleep \subseteq Procs /\ killed \in [Procs -> BOOLEAN]

(* A line being edited holds no newline and no ^D, in spite of switches    *)
(* between the modes: ^U erases all of it.                                 *)
EditedLineIsOpen == \A i \in 0..(Dist(w, e) - 1) : At(w + i) \in Plain

(* The three indexes keep their order around the ring, whatever is typed,  *)
(* erased, read, or put back, and in whichever mode; and a full ring never *)
(* waits for a newline that cannot be stored: it has been handed over to   *)
(* the readers.  All fields keep their types.                              *)
RingOrder ==
  /\ TypeOK /\ EditedLineIsOpen
  /\ Dist(r, w) <= Dist(r, e) /\ Dist(r, e) <= INPUT_BUF
  /\ Dist(r, e) = INPUT_BUF => w = e

(* The ring implements the line discipline: each key handed over is read   *)
(* once, in order, ^D ends a call that has nothing to return, and editing  *)
(* reaches only the line being typed.                                      *)
KeysBetween(a, b) == [i \in 1..Dist(a, b) |-> At(a + i - 1)]
Discipline == INSTANCE LineDiscipline WITH
  Readers <- Procs, Cap <- INPUT_BUF, line <- KeysBetween(w, e), ready <- KeysBetween(r, w)
LineSpec == Discipline!Spec

(* What has been handed over is read: a reader does not stay in its call   *)
(* while there is something to read.                                       *)
InputIsRead == \A p \in Procs :
  (pc[p] # "user" /\ r # w) ~> (pc[p] = "user" \/ r = w)
=============================================================================
