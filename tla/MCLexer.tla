------------------------------- MODULE MCLexer --------------------------------
(* Texts of up to three characters after some beginning of a line: of a     *)
(* command, of operands, of a comment, of a string on the second line.      *)
EXTENDS Lexer

Alphabet ==
  {"a", "1", " ", "\n", ";", ",", ":", "?", "$", "\"", "'", "\\", "#", Nul}

Beginnings ==
  {<<>>, <<"a", " ">>, <<"a", ":", "a", "\t">>, <<"a", " ", "1", ",">>,
   <<";", "a", "\n", "a", ";">>, <<"a", "\n", "a", " ", "'">>,
   <<"a", ":", "a", ":", "a", ":", "a", ":">>}

Texts == {b \o t : b \in Beginnings, t \in UNION {[1 .. k -> Alphabet] : k \in 0 .. 3}}

Unreliable == {<<"a", " ", "1", ",", "1", "\n">>, <<"a", " ", "\"", "\n", "\"">>}

Documented == {<<"a", " ", "a", ",", " ", "?", " ", ";", "a">>}
=============================================================================
