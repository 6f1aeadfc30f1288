----------------------------- MODULE Expressions -----------------------------
(***************************************************************************)
(* parser_parse_expression and the functions registered for it in          *)
(* parser_init: a precedence-climbing parser over the tokens of an         *)
(* expression.  It is a pure algorithm: what it returns for the tokens of  *)
(* a template from one of them on.                                         *)
(*                                                                         *)
(* A tree is a record of an operator, a token and subtrees; NoExpr is the  *)
(* null pointer, which may stand inside of a tree, too.                    *)
(***************************************************************************)
EXTENDS Tokens, TLC

(***************************************************************************)
(* The tables of parser_init.                                              *)
(***************************************************************************)
LOWEST == 1
EQUALS == 2
LG     == 3
SUM    == 4
PROD   == 5
PREFIX == 6
INDEX  == 8

Precedences ==
  "EQ" :> EQUALS @@ "NOTEQ" :> EQUALS @@
  "LT" :> LG @@ "GT" :> LG @@ "LTE" :> LG @@ "GTE" :> LG @@
  "AND" :> LG @@ "OR" :> LG @@
  "PLUS" :> SUM @@ "MINUS" :> SUM @@ "ASTERISK" :> PROD @@ "SLASH" :> PROD @@
  "DOT" :> INDEX @@ "LBRACKET" :> INDEX

PrecedenceOf(t) == IF t \in DOMAIN Precedences THEN Precedences[t] ELSE LOWEST

Literals   == {"IDENT", "INT", "TRUE", "FALSE", "STRING"}
PrefixOps  == {"BANG", "MINUS", "NOT"}
GroupOpens == {"LPAREN", "RPAREN"}   \* both are registered, parser.c:661-662
InfixOps   == {"PLUS", "MINUS", "SLASH", "ASTERISK", "EQ", "NOTEQ",
               "LT", "GT", "LTE", "GTE", "AND", "OR"}

(***************************************************************************)
(* Trees.                                                                  *)
(***************************************************************************)
NoExpr == [op |-> "NULL", lit |-> "NULL", at |-> 0, args |-> << >>]

Tree(toks, i, args) ==
  [op |-> TypeAt(toks, i), lit |-> TokenAt(toks, i), at |-> i, args |-> args]

(* Taking a tree apart or printing it follows every pointer in it.         *)
RECURSIVE Whole(_)
Whole(e) == e # NoExpr /\ \A k \in DOMAIN e.args : Whole(e.args[k])

(***************************************************************************)
(* The parser.  An outcome is the tree, the index of the current token,    *)
(* the number of errors pushed, and whether a null pointer was followed.   *)
(***************************************************************************)
Outcome(e, i, n) == [expr |-> e, cur |-> i, errors |-> n, crash |-> FALSE]

Crash(out) == [out EXCEPT !.crash = TRUE]

NoPrefixFn(i) == Outcome(NoExpr, i, 1)

(* strtol has read on into the word behind it: not a valid integer.        *)
Literal(toks, i) ==
  IF TokenAt(toks, i) = "0x" THEN Outcome(NoExpr, i, 1)
  ELSE Outcome(Tree(toks, i, << >>), i, 0)

(* Closing with a mistake: the missing token is not reported.              *)
ClosingSilently(toks, out, t) ==
  IF TypeAt(toks, out.cur + 1) = t
  THEN [out EXCEPT !.cur = @ + 1]
  ELSE [out EXCEPT !.expr = NoExpr]

(* Closing with a mistake: whatever comes is taken for the closing token.  *)
ClosingUnchecked(toks, out, t) == [out EXCEPT !.cur = @ + 1]

(* parser_expect_peek: the closing token is taken or missed.               *)
Closing(toks, out, t) ==
  IF TypeAt(toks, out.cur + 1) = t
  THEN [out EXCEPT !.cur = @ + 1]
  ELSE [out EXCEPT !.expr = NoExpr, !.errors = @ + 1]

(* What a '.' or a '[' may follow.                                         *)
Container(e) == e.op \in {"IDENT", "DOT", "LBRACKET"}

(* The condition of the loop.                                              *)
Binds(pre, t) == pre < PrecedenceOf(t) /\ t \notin {"PERCENT", "RBRACE"}

(* RightOf with a mistake: operators of one precedence group to the right. *)
RightOfLess(t) == PrecedenceOf(t) - 1

(* The precedence with which the right side of an operator is parsed.      *)
RightOf(t) == PrecedenceOf(t)

RECURSIVE Expression(_, _, _), Infixes(_, _, _)

Expression(toks, i, pre) ==
  LET t == TypeAt(toks, i)
      prefix ==
        CASE t \in Literals   -> Literal(toks, i)
          [] t \in PrefixOps  ->
               LET right == Expression(toks, i + 1, PREFIX)
               IN  [right EXCEPT !.expr = Tree(toks, i, <<@>>)]
          [] t \in GroupOpens ->
               LET inner == Expression(toks, i + 1, LOWEST)
               IN  IF inner.crash THEN inner ELSE Closing(toks, inner, "RPAREN")
          [] OTHER            -> NoPrefixFn(i)
  IN  IF t \notin Literals \cup PrefixOps \cup GroupOpens THEN prefix
      ELSE Infixes(toks, pre, prefix)

(* One round of the loop: the operator behind the tree read so far takes   *)
(* it as its left side.                                                    *)
Infixes(toks, pre, left) ==
  LET at == left.cur + 1
      t  == TypeAt(toks, at)
      (* What comes back from reading the right side goes on from left.    *)
      From(right, e) == [right EXCEPT !.expr = e, !.errors = @ + left.errors]
      infix ==
        LET right == Expression(toks, at + 1, RightOf(t))
        IN  From(right, Tree(toks, at, <<left.expr, right.expr>>))
      misplaced ==
        LET out == Outcome(NoExpr, at, left.errors + 1)
        IN  IF Whole(left.expr) THEN out ELSE Crash(out)
      mapkey ==
        LET key == Expression(toks, at + 1, INDEX)
            e   == Tree(toks, at, <<left.expr, key.expr>>)
        IN  CASE key.crash -> key
              [] ~key.crash /\ key.expr.op = "IDENT" -> From(key, e)
              [] ~key.crash /\ key.expr.op # "IDENT" ->
                   LET out == [From(key, NoExpr) EXCEPT !.errors = @ + 1]
                   IN  IF Whole(e) THEN out ELSE Crash(out)
      index ==
        LET key == Expression(toks, at + 1, LOWEST)
            e   == Tree(toks, at, <<left.expr, key.expr>>)
            out == Closing(toks, From(key, e), "RBRACKET")
        IN  CASE key.crash -> key
              [] ~key.crash /\ out.expr = NoExpr /\ ~Whole(e) -> Crash(out)
              [] OTHER -> out
  IN  IF left.crash \/ ~Binds(pre, t) THEN left
      ELSE Infixes(toks, pre,
             CASE t \in InfixOps -> infix
               [] t \notin InfixOps /\ ~Container(left.expr) -> misplaced
               [] t = "DOT" /\ Container(left.expr) -> mapkey
               [] t = "LBRACKET" /\ Container(left.expr) -> index)

(***************************************************************************)
(* What a tree says of the expression it was read from.                    *)
(***************************************************************************)
RECURSIVE Leaves(_)
Leaves(e) ==
  CASE Len(e.args) = 0 -> <<e.at>>
    [] Len(e.args) = 1 -> <<e.at>> \o Leaves(e.args[1])
    [] Len(e.args) = 2 -> Leaves(e.args[1]) \o <<e.at>> \o Leaves(e.args[2])

(* The operand on a side of an operator stands there without parentheses:  *)
(* its last or first token is next to the operator.                        *)
First(e) == Leaves(e)[1]
Last(e)  == Leaves(e)[Len(Leaves(e))]

RECURSIVE Subtrees(_)
Subtrees(e) == {e} \cup UNION {Subtrees(e.args[k]) : k \in DOMAIN e.args}

Infix(e) == e.op \in InfixOps /\ Len(e.args) = 2
=============================================================================
