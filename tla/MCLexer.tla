------------------------------- MODULE MCLexer -------------------------------
(***************************************************************************)
(* Every text of up to three characters, and every way to go on for up to  *)
(* three behind an opening brace.                                          *)
(***************************************************************************)
EXTENDS Lexer, TLC

Chars == {"{", "}", "%", "\"", "=", "<", "+", "a", "1", " ", "\n", "?"}

UpTo(n) == UNION {[1 .. m -> Chars] : m \in 0 .. n}

MCTexts == UpTo(3) \cup {<<"{">> \o t : t \in UpTo(3)}

MCKeywords == <<"a">> :> "IF"
=============================================================================
