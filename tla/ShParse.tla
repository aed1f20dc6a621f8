------------------------------ MODULE ShParse ------------------------------
(***************************************************************************)
(* The parser of the shell (sh.c) on a sequence of tokens, and the grammar *)
(* it is meant to be a parser of.  A word is "a"; in a command it is known *)
(* by its place in the line.                                               *)
(***************************************************************************)
EXTENDS Naturals, Sequences, SequencesExt

CONSTANT MAXARGS

(* The constructors; argc is the number of words before the empty one.     *)
execcmd(argc) == [type |-> "EXEC", argc |-> argc]
redircmd(cmd, r) == [type |-> "REDIR", cmd |-> cmd, file |-> r.file, fd |-> r.fd]
pipecmd(l, r) == [type |-> "PIPE", left |-> l, right |-> r]
listcmd(l, r) == [type |-> "LIST", left |-> l, right |-> r]
backcmd(cmd) == [type |-> "BACK", cmd |-> cmd]

(* The token at place i, which gettoken() consumes and peek() looks at.    *)
gettoken(s, i) == IF i \in DOMAIN s THEN s[i] ELSE "end"
peek(s, i, toks) == gettoken(s, i) \in toks

(* A parser gives a command and the place of the next token; it gives      *)
(* nothing, the empty set, if it panics, which ends the process.           *)
Parsed(cmd, i) == [cmd |-> cmd, next |-> i]

(* Redirections from place i on, after those in rs: files and descriptors. *)
Redirection(s, i) == [file |-> i + 1, fd |-> IF s[i] = "<" THEN 0 ELSE 1]
RECURSIVE parseredirs(_, _, _)
parseredirs(s, rs, i) ==
  IF ~peek(s, i, {"<", ">", ">>"}) THEN {[rs |-> rs, next |-> i]}
  ELSE IF gettoken(s, i + 1) # "a" THEN {}
  ELSE parseredirs(s, Append(rs, Redirection(s, i)), i + 2)

(* The last redirection is the outermost command.                          *)
Redirected(cmd, rs) == FoldLeft(redircmd, cmd, rs)

TooManyLate(argc) == argc > MAXARGS
TooMany(argc) == argc >= MAXARGS

RECURSIVE parseargs(_, _, _, _)
parseargs(s, argc, rs, i) ==
  CASE peek(s, i, {"|", ")", "&", ";", "end"}) -> {Parsed(Redirected(execcmd(argc), rs), i)}
    [] peek(s, i, {"a"}) /\ ~TooMany(argc + 1) ->
         UNION {parseargs(s, argc + 1, t.rs, t.next) : t \in parseredirs(s, rs, i + 1)}
    [] OTHER -> {}

RECURSIVE parseline(_, _), parsepipe(_, _), parseblock(_, _), parseexec(_, _)

parseexec(s, i) ==
  IF peek(s, i, {"("}) THEN parseblock(s, i)
  ELSE UNION {parseargs(s, 0, t.rs, t.next) : t \in parseredirs(s, <<>>, i)}

parseblock(s, i) ==
  UNION {{Parsed(Redirected(c.cmd, t.rs), t.next) : t \in parseredirs(s, <<>>, c.next + 1)} :
           c \in {x \in parseline(s, i + 1) : peek(s, x.next, {")"})}}

parsepipe(s, i) ==
  UNION {IF peek(s, l.next, {"|"})
         THEN {Parsed(pipecmd(l.cmd, r.cmd), r.next) : r \in parsepipe(s, l.next + 1)}
         ELSE {l} : l \in parseexec(s, i)}

RECURSIVE Backs(_, _)
Backs(s, c) == IF peek(s, c.next, {"&"}) THEN Backs(s, Parsed(backcmd(c.cmd), c.next + 1)) ELSE c

parseline(s, i) ==
  UNION {IF peek(s, l.next, {";"})
         THEN {Parsed(listcmd(l.cmd, r.cmd), r.next) : r \in parseline(s, l.next + 1)}
         ELSE {l} : l \in {Backs(s, p) : p \in parsepipe(s, i)}}

(* Leftovers are an error too.                                             *)
parsecmd(s) == {c.cmd : c \in {x \in parseline(s, 1) : x.next = Len(s) + 1}}
-----------------------------------------------------------------------------
(* The grammar: the commands that the tokens from i to j - 1 can stand for.*)
(*   line   = pipe {"&"} [";" line]                                        *)
(*   pipe   = single ["|" pipe]                                            *)
(*   single = "(" line ")" {redir} | {"a" | redir}                         *)
(*   redir  = ("<" | ">" | ">>") "a"                                       *)
RECURSIVE Redirs(_, _, _), Words(_, _, _), Ands(_, _)

(* rs is the only value: tokens are redirections, or there is none.        *)
Redirs(s, i, j) ==
  IF i = j THEN {<<>>}
  ELSE {<<Redirection(s, i)>> \o rs : rs \in
          IF i + 1 < j /\ s[i] \in {"<", ">", ">>"} /\ s[i + 1] = "a"
          THEN Redirs(s, i + 2, j) ELSE {}}

(* The numbers of words and the redirections among words.                  *)
Words(s, i, j) ==
  IF i = j THEN {[argc |-> 0, rs |-> <<>>]}
  ELSE {[w EXCEPT !.argc = @ + 1] : w \in IF s[i] = "a" THEN Words(s, i + 1, j) ELSE {}}
       \cup
       {[w EXCEPT !.rs = <<Redirection(s, i)>> \o @] : w \in
          IF i + 1 < j /\ s[i] \in {"<", ">", ">>"} /\ s[i + 1] = "a"
          THEN Words(s, i + 2, j) ELSE {}}

Ands(cs, n) == IF n = 0 THEN cs ELSE {backcmd(c) : c \in Ands(cs, n - 1)}

RECURSIVE LineOf(_, _, _), PipeOf(_, _, _), SingleOf(_, _, _)

SingleOf(s, i, j) ==
  {Redirected(execcmd(w.argc), w.rs) : w \in {v \in Words(s, i, j) : v.argc < MAXARGS}}
  \cup UNION {{Redirected(c, rs) : c \in LineOf(s, i + 1, k), rs \in Redirs(s, k + 1, j)} :
                k \in {n \in (i + 1)..(j - 1) : s[i] = "(" /\ s[n] = ")"}}

PipeOf(s, i, j) ==
  SingleOf(s, i, j)
  \cup UNION {{pipecmd(l, r) : l \in SingleOf(s, i, k), r \in PipeOf(s, k + 1, j)} :
                k \in {n \in i..(j - 1) : s[n] = "|"}}

(* A pipe and what is left of its "&"s.                                    *)
Backed(s, i, j) ==
  UNION {Ands(PipeOf(s, i, k), j - k) : k \in {n \in i..j : \A m \in n..(j - 1) : s[m] = "&"}}

LineOf(s, i, j) ==
  Backed(s, i, j)
  \cup UNION {{listcmd(l, r) : l \in Backed(s, i, k), r \in LineOf(s, k + 1, j)} :
                k \in {n \in i..(j - 1) : s[n] = ";"}}

Derivations(s) == LineOf(s, 1, Len(s) + 1)
=============================================================================
