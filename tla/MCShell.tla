------------------------------- MODULE MCShell -------------------------------
(* All short lines, and some with several pipes, redirections and failures. *)
EXTENDS Shell

Tokens == {"a", "|", "&", ";", "(", ")", "<", ">"}
Short == UNION {[1..n -> Tokens] : n \in 0..4}

Case(lines, kinds, work, fails, slots) ==
  {[line |-> l, kinds |-> kinds, work |-> work, fails |-> fails, slots |-> slots] : l \in lines}

Pipeline == <<"a", "|", "a">>
Filters == {"copy", "source", "sink"}

(* Lines, programs, what a program does at most, failures, free slots of   *)
(* the process table.                                                      *)
AllScenarios ==
  Case(Short \cup {<<"cd", "a">>}, {"copy"}, 0, 0, 1)
  \cup Case({Pipeline}, Filters, 2, 1, 5)
  \cup Case({<<"a", "<", "a", "|", "a", ">", "a", ">>", "a">>,
             <<"(", "a", ";", "a", ")", "|", "a">>}, Filters, 1, 0, 5)
  \cup Case({<<"a", "|", "a", "|", "a">>, <<"(", "a", "|", "a", ")", "&">>}, {"copy"}, 1, 0, 5)
  \cup Case({<<"(", "a", ";", "a", "&", ")", ">", "a", ";", "a">>,
             <<"a", "&", ";", "a", "|", "a">>}, {"copy"}, 1, 1, 5)
  \cup Case({<<"a">>}, {"user"}, 4, 1, 1)
  \cup Case({Pipeline}, {"user"}, 1, 1, 3)
=============================================================================
