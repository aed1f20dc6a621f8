--------------------------------- MODULE Vim --------------------------------
(***************************************************************************)
(* The editor (vim.c) with the cursor and the command line of the screen   *)
(* (console.c).  One action is one key read in main() or in readcmd(), or  *)
(* what happens to the screen in between: a backspace, which the interrupt *)
(* handler carries out itself, and output of another process.              *)
(*                                                                         *)
(* The text is the list ctx.  A line is an array of MAX_COL characters     *)
(* with its len directly behind it in memory, which strlen() and memmove() *)
(* reach when the array is full; Junk is the characters they find there.   *)
(* Lines of the files opened have at most MAX_COL characters: readfile()   *)
(* writes longer ones over the fields of the line.  Of the screen, only    *)
(* the cursor and the command line are read back by the editor, and only   *)
(* they are modelled.                                                      *)
(***************************************************************************)
EXTENDS Integers, Sequences, FiniteSetsExt

CONSTANTS MAX_COL, MAX_ROW, CMD_BUF_SZ,
          Files,      \* contents the file may have when it is opened
          Keys,       \* keys typed
          MaxKeys,    \* bound: keys and other events in a session
          Output      \* what other processes may write to the console

ASSUME VimConstants ==
  /\ MAX_COL \in Nat /\ MAX_ROW \in Nat \ {0} /\ CMD_BUF_SZ \in Nat
  /\ CMD_BUF_SZ > 1 /\ CMD_BUF_SZ + 2 <= MAX_COL /\ MaxKeys \in Nat

EMPTY == "empty"
Junk == "junk"
NL == "NL"
Arrows == {"UP", "DN", "LF", "RT"}
Cols == 0..(MAX_COL - 1)
CMD_LINE == MAX_ROW * MAX_COL
Blank == [i \in Cols |-> EMPTY]

VARIABLES
  file,              \* the file on disk
  lines,             \* ctx: the lines from start on, in order
  nlines,            \* ctx->lines
  vimline, mode,
  pos,               \* the cursor, kept by the display controller
  row,               \* the command line on the screen
  cmd,               \* the first two characters of the string readcmd() returns
  len, precur,       \* locals of readcmd()
  pc,                \* "main", "cmd" (in readcmd), "quit" or "saved"
  panic,
  keys,              \* events so far
  opened, typed      \* history: the file as opened; the text typed

textVars == <<lines, nlines>>
cmdVars == <<row, cmd, len, precur>>
vars == <<file, textVars, vimline, mode, pos, cmdVars, pc, panic, keys, opened, typed>>

(* strlen(l->c): a full array is followed by the bytes of len, of which    *)
(* the first two may not be 0.                                             *)
LenBytes(n) == IF n = 0 THEN 0 ELSE IF n < 256 THEN 1 ELSE 2
StrLen(l) ==
  LET ends == {i \in Cols : l.c[i] = EMPTY} IN
  IF ends # {} THEN Min(ends) ELSE MAX_COL + LenBytes(l.len)

Text(l) == [i \in 1..StrLen(l) |-> IF i <= MAX_COL THEN l.c[i - 1] ELSE Junk]
Measured(l) == [l EXCEPT !.len = StrLen(l)]

NewLine(n) == [c |-> Blank, len |-> 0, lineno |-> n]

(* readfile(): the newline begins the next line.                           *)
AfterNewline(n) == [NewLine(n) EXCEPT !.c[0] = NL, !.len = 1]

(* readfile(), character i (from 0) of the file.                           *)
ReadChar(ls, ch, i) ==
  LET p == ls[Len(ls)] IN
  IF ch = NL
  THEN Append([ls EXCEPT ![Len(ls)] = [Measured(p) EXCEPT !.lineno = i \div MAX_COL + 1]],
              AfterNewline(i \div MAX_COL + 2))
  ELSE [ls EXCEPT ![Len(ls)] = Measured([p EXCEPT !.c[p.len] = ch, !.len = p.len + 1])]

ReadFile(f) ==
  LET read[i \in 0..Len(f)] ==
        IF i = 0 THEN <<NewLine(1)>> ELSE ReadChar(read[i - 1], f[i], i - 1)
  IN read[Len(f)]

(* writefile(): every line, over the beginning of the old file.            *)
WrittenLenField(l) == [i \in 1..Min({l.len, MAX_COL}) |-> l.c[i - 1]]
WrittenLine(l) == Text(l)

WriteFile ==
  LET upTo[i \in 0..Len(lines)] ==
        IF i = 0 THEN <<>> ELSE upTo[i - 1] \o WrittenLine(lines[i])
      new == upTo[Len(lines)]
  IN new \o SubSeq(file, Len(new) + 1, Len(file))

Init ==
  /\ file \in Files /\ opened = file
  /\ lines = ReadFile(file) /\ nlines = Len(lines)
  /\ vimline = 1 /\ mode = "READONLY"
  /\ pos = 0 /\ row = Blank
  /\ cmd = <<EMPTY, EMPTY>> /\ len = 0 /\ precur = 0
  /\ pc = "main" /\ panic = FALSE /\ keys = 0 /\ typed = <<>>

Event(l) == panic = FALSE /\ pc = l /\ keys < MaxKeys /\ keys' = keys + 1
ReadKeys == Keys \ {"BS"}
Pressed(c) == Event("main") /\ c \in ReadKeys

(* A viewable character typed in insert mode.                              *)
Noted(c) == IF mode = "INSERT" THEN Append(typed, c) ELSE typed

(* The line that vimline selects.                                          *)
Current ==
  LET later == {i \in 1..Len(lines) : lines[i].lineno >= vimline} IN
  IF later = {} THEN Len(lines) ELSE Min(later)

(* getchar(): the remainder of a negative position is an index before the  *)
(* line, where anything may be found.                                      *)
Filled(q) ==
  IF q >= 0 \/ q % MAX_COL = 0
  THEN {lines[Current].c[q % MAX_COL] # EMPTY}
  ELSE BOOLEAN
-----------------------------------------------------------------------------
(* cursormove().  On the command line every cell has a colour and none is  *)
(* found empty; cells of the text are not modelled.                        *)
Left ==
  /\ pos' = IF \/ mode = "CMD" /\ pos > CMD_LINE
               \/ mode # "CMD" /\ pos > 0 /\ TRUE \in Filled(pos - 1)
            THEN pos - 1 ELSE pos
  /\ UNCHANGED vimline

Right ==
  /\ \E full \in IF mode # "CMD" THEN Filled(pos + 1)
                 ELSE IF pos + 1 >= CMD_LINE THEN {TRUE} ELSE BOOLEAN :
       pos' = IF full /\ pos < CMD_LINE + (IF mode = "CMD" THEN CMD_BUF_SZ ELSE 0)
              THEN pos + 1 ELSE pos
  /\ UNCHANGED vimline

Row == pos \div MAX_COL + 1

Down ==
  IF mode # "CMD" /\ Row <= MAX_ROW /\ Row < nlines /\ TRUE \in Filled(pos + MAX_COL)
  THEN /\ pos' = Min({pos + MAX_COL, CMD_LINE - 1})
       /\ vimline' = vimline + 1
  ELSE UNCHANGED <<pos, vimline>>

UpTo(q) == Max({q, 0})

Up ==
  IF mode = "CMD" THEN UNCHANGED <<pos, vimline>> ELSE
  \E full \in Filled(pos - MAX_COL) :
    IF full
    THEN /\ pos' = UpTo(pos - MAX_COL)
         /\ vimline' = vimline - 1
    ELSE UNCHANGED <<pos, vimline>>

CursorMove(c) ==
  \/ c = "LF" /\ Left
  \/ c = "RT" /\ Right
  \/ c = "DN" /\ Down
  \/ c = "UP" /\ Up

(* main(): arrows in every mode; k, j, h and l in one.                     *)
Arrow(c) ==
  /\ Pressed(c) /\ c \in Arrows
  /\ CursorMove(c)
  /\ UNCHANGED <<file, textVars, mode, cmdVars, pc, panic, opened, typed>>

Letters == [k |-> "UP", j |-> "DN", h |-> "LF", l |-> "RT"]
MovesIn(c) == IF c = "k" THEN "INSERT" ELSE "READONLY"

Letter(c) ==
  /\ Pressed(c) /\ c \in DOMAIN Letters /\ mode = MovesIn(c)
  /\ CursorMove(Letters[c])
  /\ typed' = Noted(c)
  /\ UNCHANGED <<file, textVars, mode, cmdVars, pc, panic, opened>>

(* G and g, which do nothing in the other modes.                           *)
Jump(c) ==
  /\ Pressed(c) /\ c \in {"G", "g"}
  /\ pos' = IF mode # "READONLY" THEN pos ELSE IF c = "G" THEN nlines * MAX_COL ELSE 0
  /\ typed' = Noted(c)
  /\ UNCHANGED <<file, textVars, vimline, mode, cmdVars, pc, panic, opened>>

Escape ==
  /\ Pressed("ESC")
  /\ mode' = "READONLY"
  /\ IF mode = "INSERT"
     THEN pos' = IF pos > 0 /\ TRUE \in Filled(pos - 1) THEN pos - 1 ELSE pos
     ELSE pos' = pos
  /\ UNCHANGED <<file, textVars, vimline, cmdVars, pc, panic, opened, typed>>

InsertMode ==
  /\ Pressed("i") /\ mode = "READONLY"
  /\ mode' = "INSERT"
  /\ UNCHANGED <<file, textVars, vimline, pos, cmdVars, pc, panic, opened, typed>>
-----------------------------------------------------------------------------
(* rmch(): memmove() of one character too many takes the one behind the    *)
(* line; len is not measured again.                                        *)
Removed(l, col) ==
  IF StrLen(l) >= MAX_COL THEN l
  ELSE [l EXCEPT !.c = [i \in Cols |->
         IF i < col THEN l.c[i]
         ELSE IF i < MAX_COL - 1 THEN l.c[i + 1]
         ELSE IF l.len = 0 THEN EMPTY ELSE Junk]]

Delete ==
  /\ Pressed("x") /\ mode = "READONLY"
  /\ lines' = [lines EXCEPT ![Current] = Removed(@, pos % MAX_COL)]
  /\ UNCHANGED <<file, nlines, vimline, mode, pos, cmdVars, pc, panic, opened, typed>>

(* The newline key, in every mode: the last line ends, and a new one       *)
(* follows it.  rmch() may have filled the array without len, and then the *)
(* newline (10) goes into the first byte of len that is 0.                 *)
Ended(l) ==
  IF l.len >= MAX_COL THEN l
  ELSE IF StrLen(l) < MAX_COL THEN [l EXCEPT !.c[StrLen(l)] = NL]
  ELSE [l EXCEPT !.len = @ + 10 * 256^LenBytes(l.len)]

LineAddedNot == nlines
LineAdded == nlines + 1

Enter ==
  /\ Pressed(NL)
  /\ vimline' = vimline + 1
  /\ lines' = Append([lines EXCEPT ![Len(lines)] = Ended(@)],
                     NewLine(lines[Len(lines)].lineno + 1))
  /\ nlines' = LineAdded
  /\ pos' = pos + MAX_COL - (pos % MAX_COL)
  /\ typed' = Append(typed, NL)
  /\ UNCHANGED <<file, mode, cmdVars, pc, panic, opened>>

(* A character in insert mode: inputfilter(), scrputc(), and the line.     *)
Special == Arrows \cup {"ESC", "bad", "EOF", NL}
Viewable(c) == c \notin Special

Typed(l, col, c) == Measured([l EXCEPT !.c[col] = c])

Insert(c) ==
  /\ Pressed(c) /\ mode = "INSERT" /\ Viewable(c) /\ c \notin {"k", "G", "g"}
  /\ pos' = pos + 1
  /\ LET col == pos % MAX_COL
         wraps == col = 0 /\ pos # 0 /\ lines[Current].len = MAX_COL IN
       IF wraps
       THEN /\ vimline' = vimline + 1
            /\ lines' = Append(lines, Typed(NewLine(lines[Len(lines)].lineno + 1), col, c))
            /\ nlines' = nlines + 1
       ELSE /\ lines' = [lines EXCEPT ![Current] = Typed(@, col, c)]
            /\ UNCHANGED <<vimline, nlines>>
  /\ typed' = Append(typed, c)
  /\ UNCHANGED <<file, mode, cmdVars, pc, panic, opened>>

(* Every other key is ignored.                                             *)
Acts(c) ==
  \/ c \in Arrows \cup {NL, "G", "g", "ESC", "EOF"}
  \/ c \in DOMAIN Letters /\ mode = MovesIn(c)
  \/ c \in {"i", "x", ":"} /\ mode = "READONLY"
  \/ mode = "INSERT" /\ Viewable(c)

Ignore(c) ==
  /\ Pressed(c) /\ ~Acts(c)
  /\ UNCHANGED <<file, textVars, vimline, mode, pos, cmdVars, pc, panic, opened, typed>>
-----------------------------------------------------------------------------
(* The command line.  clearcli() and ":"; len is not initialised, and only *)
(* 0, 1 and more can be told apart.                                        *)
InRow(q) == q \in CMD_LINE..(CMD_LINE + MAX_COL - 1)
Put(r, q, ch) == IF InRow(q) THEN [r EXCEPT ![q - CMD_LINE] = ch] ELSE r
(* scrputc() of a character: the cell, and a space under the cursor.       *)
ScrPut(r, q, ch) == Put(Put(r, q, ch), q + 1, " ")

Colon ==
  /\ Pressed(":") /\ mode = "READONLY"
  /\ mode' = "CMD" /\ pc' = "cmd"
  /\ precur' = pos
  /\ row' = ScrPut(Blank, CMD_LINE, ":")
  /\ pos' = CMD_LINE + 1
  /\ len' \in 0..2
  /\ UNCHANGED <<file, textVars, vimline, cmd, panic, opened, typed>>

(* C's remainder, which has the sign of its left operand.                  *)
Rem(a, b) == IF a >= 0 THEN a % b ELSE -((-a) % b)
CmdPos == Rem(pos - CMD_LINE, MAX_COL)

(* cgaputc(): a newline or a character at the cursor, a space behind it;   *)
(* the screen scrolls, but for the command line.  No process can write the *)
(* code of BACKSPACE, which is above 0xff.                                 *)
CgaNext(ch, q) == IF ch = NL THEN q + MAX_COL - (q % MAX_COL) ELSE q + 1
Scrolled(q) == IF q \div MAX_COL >= MAX_ROW THEN q - MAX_COL ELSE q
Overflow(q) == q > (MAX_ROW + 1) * MAX_COL

CgaPut(s, ch) ==
  LET q == CgaNext(ch, s.pos) IN
  [pos |-> Scrolled(q),
   row |-> Put(IF ch = NL THEN s.row ELSE Put(s.row, s.pos, ch), Scrolled(q), " "),
   panic |-> s.panic \/ Overflow(q)]

ConsoleWrite(w) ==
  LET after[n \in 0..Len(w)] ==
        IF n = 0 THEN [pos |-> pos, row |-> row, panic |-> FALSE]
                 ELSE CgaPut(after[n - 1], w[n])
      s == after[Len(w)] IN
  pos' = s.pos /\ row' = s.row /\ panic' = s.panic

(* readcmd(): too long, after a message of six characters.                 *)
Message == [i \in 1..6 |-> "o"]

CmdTooLong(c) ==
  /\ Event("cmd") /\ c \in ReadKeys \ {NL, "EOF"} /\ CmdPos > CMD_BUF_SZ
  /\ len' = CmdPos
  /\ ConsoleWrite(Message)
  /\ pc' = "main"
  /\ UNCHANGED <<file, textVars, vimline, mode, cmd, precur, opened, typed>>

CmdChar(c) ==
  /\ Event("cmd") /\ c \in ReadKeys /\ Viewable(c) /\ CmdPos <= CMD_BUF_SZ
  /\ len' = CmdPos
  /\ row' = ScrPut(row, pos, c)
  /\ pos' = pos + 1
  /\ UNCHANGED <<file, textVars, vimline, mode, cmd, precur, pc, panic, opened, typed>>

CmdMove(c) ==
  /\ Event("cmd") /\ c \in Keys \cap {"LF", "RT", "UP", "DN", "bad"} /\ CmdPos <= CMD_BUF_SZ
  /\ len' = CmdPos
  /\ \/ CursorMove(c) /\ c \in {"LF", "RT"}
     \/ c \notin {"LF", "RT"} /\ UNCHANGED <<pos, vimline>>
  /\ UNCHANGED <<file, textVars, mode, row, cmd, precur, pc, panic, opened, typed>>

CmdEscape ==
  /\ Event("cmd") /\ "ESC" \in Keys /\ CmdPos <= CMD_BUF_SZ
  /\ len' = CmdPos
  /\ mode' = "READONLY" /\ pc' = "main"
  /\ row' = Blank
  /\ pos' = precur
  /\ UNCHANGED <<file, textVars, vimline, cmd, precur, panic, opened, typed>>

(* The command ends: len characters are read back from the screen into a   *)
(* string that keeps what earlier commands left there.                     *)
ReadBack == [i \in 1..2 |-> IF i <= len THEN row[i] ELSE cmd[i]]

Saves(s) == s = <<"w", "q">>
Quits(s) == s[1] = "q"

CmdEnd ==
  /\ Event("cmd") /\ Keys \cap {NL, "EOF"} # {}
  /\ cmd' = ReadBack
  /\ IF Quits(ReadBack) THEN pc' = "quit" /\ UNCHANGED <<file, pos>>
     ELSE IF Saves(ReadBack) THEN pc' = "saved" /\ file' = WriteFile /\ UNCHANGED pos
     ELSE pc' = "main" /\ pos' = CMD_LINE /\ UNCHANGED file
  /\ UNCHANGED <<textVars, vimline, mode, row, len, precur, panic, opened, typed>>

(* read() returns no character: main() saves and exits.                    *)
EndOfInput ==
  /\ Pressed("EOF")
  /\ file' = WriteFile /\ pc' = "saved"
  /\ UNCHANGED <<textVars, vimline, mode, pos, cmdVars, panic, opened, typed>>
-----------------------------------------------------------------------------
Running == pc \in {"main", "cmd"}

(* consoleintr(), in raw mode: a backspace edits the command line, whatever*)
(* the editor is doing.                                                    *)
Shifted(q) == [i \in Cols |->
  IF i + CMD_LINE \in q..(q + CMD_BUF_SZ - 2)
  THEN IF i = MAX_COL - 1 THEN " " ELSE row[i + 1]
  ELSE row[i]]

Backspace ==
  /\ Event(pc) /\ Running /\ "BS" \in Keys /\ pos >= CMD_LINE
  /\ row' = IF pos > CMD_LINE THEN Shifted(pos) ELSE Put(row, pos, " ")
  /\ pos' = Max({pos - 1, CMD_LINE})
  /\ UNCHANGED <<file, textVars, vimline, mode, cmd, len, precur, pc, panic, opened, typed>>

(* consolewrite() of another process.                                      *)
OtherOutput(w) ==
  /\ Event(pc) /\ Running
  /\ ConsoleWrite(w)
  /\ UNCHANGED <<file, textVars, vimline, mode, cmd, len, precur, pc, opened, typed>>

Next ==
  \/ \E c \in Keys : \/ Arrow(c) \/ Letter(c) \/ Jump(c) \/ Insert(c) \/ Ignore(c)
                     \/ CmdTooLong(c) \/ CmdChar(c) \/ CmdMove(c)
  \/ Escape \/ InsertMode \/ Delete \/ Enter \/ Colon
  \/ CmdEscape \/ CmdEnd \/ EndOfInput \/ Backspace
  \/ \E w \in Output : OtherOutput(w)

Spec == Init /\ [][Next]_vars
-----------------------------------------------------------------------------
Cells == Keys \cup {EMPTY, Junk, NL, " ", ":", "o", "a", "b"}

(* Types of the editor's state.                                            *)
TypeOK ==
  /\ \A i \in 1..Len(lines) : lines[i].c \in [Cols -> Cells] /\ lines[i].len \in Nat
  /\ vimline \in Int /\ pos \in Nat
  /\ mode \in {"READONLY", "INSERT", "CMD"} /\ pc \in {"main", "cmd", "quit", "saved"}
  /\ row \in [Cols -> Cells] /\ cmd \in [1..2 -> Cells] /\ len \in Int

(* vim.h: "number of lines".  KEY_DN and G take the size of the text from  *)
(* ctx->lines, which every way of adding a line must keep.                 *)
LinesCounted == nlines = Len(lines)

(* A file that was opened, looked at and saved without a change of the     *)
(* text is the file it was, whatever moved the cursor or was written to    *)
(* the screen and the command line meanwhile: what writefile() writes is   *)
(* what readfile() has read.  Only a file with a line that fills its array *)
(* (MAX_COL characters, the newline before them included) is excused:      *)
(* writefile() adds the bytes strlen() finds behind it.  For all files the *)
(* lines are counted right at all times, and variables keep their types.   *)
Full(l) == StrLen(l) >= MAX_COL
HasFullLine(f) == LET ls == ReadFile(f) IN \E i \in 1..Len(ls) : Full(ls[i])
RoundTrip ==
  /\ TypeOK /\ LinesCounted
  /\ pc = "saved" /\ lines = ReadFile(opened) /\ ~HasFullLine(opened) => file = opened

(* vim.c, inputfilter(): "Viewable char: a-z A-Z 0-9" and some others.     *)
(* What is typed into an empty file is what is saved, when nothing but i,  *)
(* the text and the end of the session is typed.  Left out are the letters *)
(* main() takes for commands in insert mode too, "=", which the comment    *)
(* lists and inputfilter() drops, and full lines (see Junk): they are lost *)
(* or garbled.                                                             *)
NotText == {"k", "g", "G"}
TypedIsSaved ==
  /\ pc = "saved" /\ opened = <<>>
  /\ keys = Len(typed) + 2 /\ keys <= MAX_COL
  /\ \A i \in 1..Len(typed) : typed[i] \notin NotText
  => file = typed
=============================================================================
