-------------------------------- MODULE Tokens -------------------------------
(***************************************************************************)
(* Tokens as the parser sees them.  A token is its type, but for the       *)
(* identifiers, which are their names, and "0x", a number that strtol does *)
(* not end where the lexer does; the parser tells nothing else apart.      *)
(***************************************************************************)
EXTENDS Integers, Sequences

CONSTANT Names   \* identifiers

(* The lexer returns TOKEN_EOF for ever.                                   *)
TokenAt(toks, i) == IF i \in DOMAIN toks THEN toks[i] ELSE "EOF"

TypeAt(toks, i) ==
  LET t == TokenAt(toks, i)
  IN  IF t \in Names THEN "IDENT" ELSE IF t = "0x" THEN "INT" ELSE t
=============================================================================
