------------------------------- MODULE MCVim --------------------------------
EXTENDS Vim

(* Files of one, two and three lines, with empty ones, lines that fill     *)
(* their array of six characters, and one that leaves one cell of it.      *)
SmallFiles ==
  {<<>>, <<"a">>, <<NL>>, <<"a", "b", NL, "b">>, <<"a", NL, NL, "b", "a", NL>>,
   <<"a", "b", "a", "b", "a">>, <<"a", "b", "a", "b", "a", "b">>,
   <<"a", NL, "b", "b", "b", "b", "b", NL, "a">>}

Written == {<<"o">>, <<NL>>, <<"o", "o", "o", "o", "o">>}
=============================================================================
