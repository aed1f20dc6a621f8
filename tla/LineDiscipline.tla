--------------------------- MODULE LineDiscipline ---------------------------
(***************************************************************************)
(* What the console promises its readers, without the ring: a line being   *)
(* edited, and the keys that have been handed over.  A key that is handed  *)
(* over goes to one reader, in the order of typing; editing never reaches  *)
(* keys already handed over.                                               *)
(***************************************************************************)
EXTENDS Integers, Sequences

CONSTANTS Key,       \* keys that are stored
          Newline, Eof, Readers,
          Cap        \* most keys stored

VARIABLES line,      \* keys typed, not yet handed over
          ready,     \* keys handed over, not yet read
          got        \* what each reader's call has collected

vars == <<line, ready, got>>

Init == line = <<>> /\ ready = <<>> /\ got = [p \in Readers |-> <<>>]

Type(c) ==
  /\ Len(line) + Len(ready) < Cap
  /\ line' = Append(line, c)
  /\ UNCHANGED <<ready, got>>

(* A key that hands the whole line over.                                   *)
TypeAndHandOver(c) ==
  /\ Len(line) + Len(ready) < Cap
  /\ ready' = ready \o Append(line, c)
  /\ line' = <<>>
  /\ got' = got

Erase(k) ==
  /\ line' = SubSeq(line, 1, k)
  /\ UNCHANGED <<ready, got>>

(* A newline is the last key of a call.                                    *)
Open(p) == got[p] = <<>> \/ got[p][Len(got[p])] # Newline

Take(p) ==
  /\ ready # <<>> /\ Head(ready) # Eof /\ Open(p)
  /\ got' = [got EXCEPT ![p] = Append(@, Head(ready))]
  /\ ready' = Tail(ready)
  /\ line' = line

(* The end of the file is taken by a call that returns nothing.            *)
TakeEof(p) ==
  /\ ready # <<>> /\ Head(ready) = Eof /\ got[p] = <<>>
  /\ ready' = Tail(ready)
  /\ UNCHANGED <<line, got>>

Begin(p) ==
  /\ got' = [got EXCEPT ![p] = <<>>]
  /\ UNCHANGED <<line, ready>>

Next ==
  \/ \E c \in Key : Type(c) \/ TypeAndHandOver(c)
  \/ \E k \in 0..Cap : k <= Len(line) /\ Erase(k)
  \/ \E p \in Readers : Take(p) \/ TakeEof(p) \/ Begin(p)

Spec == Init /\ [][Next]_vars
=============================================================================
