-------------------------------- MODULE Source -------------------------------
(***************************************************************************)
(* From the text of a template to its tree: the parser over the tokens of  *)
(* the lexer, and parser_parse_expression inside of it.                    *)
(*                                                                         *)
(* The parser asks the lexer for a token whenever it moves on, and tells   *)
(* it nothing.  What it is given does not depend on when it asks, so the   *)
(* lexer reads to its end first here.                                      *)
(***************************************************************************)
EXTENDS Lexer

CONSTANTS
  Names,          \* see Tokens
  NameOf(_),      \* from words to Names
  HexDigit,       \* what strtol takes for a digit behind 0x
  ParseExpr(_, _) \* see Parser; it is Known

VARIABLES toks, cur, errors, stack, node, freed, tblocks, pc, val   \* see Parser

parsed == <<cur, errors, stack, node, freed, tblocks, pc, val>>

sourceVars == <<vars, toks, parsed>>

X == INSTANCE Expressions

Expr(ts, i) == X!Expression(ts, i, X!LOWEST)

(* What the blocks of the parser need to know of an expression.            *)
Known(ts, i) ==
  LET out == Expr(ts, i)
  IN  [cur    |-> out.cur, errors |-> out.errors, crash |-> out.crash,
       expr   |-> IF out.expr = X!NoExpr THEN "none"
                  ELSE IF out.crash \/ ~X!Whole(out.expr) THEN "hole" ELSE "whole"]

P == INSTANCE Parser WITH Sources <- {<< >>}

(* strtol takes a lone 0, the x behind it and hexadecimal digits for one   *)
(* number, beyond the token.  At the end of the text that goes unnoticed.  *)
ReadsOn(t) ==
  /\ t.end = t.start + 1 /\ At(t.start) = "0"
  /\ At(t.end) \in {"x", "X"} /\ At(t.end + 1) \in HexDigit
  /\ \E p \in t.end + 2 .. Size - 1 : At(p) \notin HexDigit

(* A token as the parser sees it.                                          *)
Seen(t) ==
  CASE t.type = "IDENT" -> NameOf(SubSeq(text, t.start + 1, t.end))
    [] t.type = "INT" /\ ReadsOn(t) -> "0x"
    [] OTHER -> t.type

SourceInit == Init /\ P!Init

Read ==
  /\ NextToken
  /\ LET t == tokens'[Len(tokens')]
     IN  toks' = IF t.type = "EOF" THEN toks ELSE Append(toks, Seen(t))
  /\ UNCHANGED parsed

Parse == Ended /\ P!Next /\ UNCHANGED vars

SourceNext == Read \/ Parse

(* Whoever reads a template asks for tokens until there is no other.       *)
SourceSpec == SourceInit /\ [][SourceNext]_sourceVars /\ WF_sourceVars(Read)

-----------------------------------------------------------------------------
(***************************************************************************)
(* Properties of expressions, wherever the parser begins to read one.      *)
(***************************************************************************)
JustRead == Ended /\ cur = 1 /\ pc = "body"

Begins(i) ==
  \/ i > 1 /\ toks[i - 1] \in {"IF", "ELIF", "IN"}
  \/ i > 2 /\ toks[i - 1] = "LBRACE" /\ toks[i - 2] = "LBRACE"

Begun == {i \in 1 .. Len(toks) + 1 : Begins(i)}

Clean(out) == ~out.crash /\ out.errors = 0

(* A tree with a hole in it has been reported, so roscha_env_add_template, *)
(* which looks at the errors only, keeps no template that eval_expression  *)
(* would fall into (parser.c:137-318, roscha.c:530).  An expression stays  *)
(* inside of its template, with no more errors than tokens.                *)
HolesReported ==
  JustRead =>
    \A i \in Begun :
      LET out == Expr(toks, i)
      IN  /\ out.cur \in i .. Len(toks) + 1
          /\ out.errors \in 0 .. out.cur - i + 1
          /\ ~out.crash => out.errors > 0 \/ X!Whole(out.expr)

(* The tree of an expression without errors holds all the tokens read, in  *)
(* their order, but for the parentheses and closing brackets.              *)
EveryTokenInTree ==
  JustRead =>
    \A i \in Begun :
      LET out    == Expr(toks, i)
          closes == {"LPAREN", "RPAREN", "RBRACKET"}
      IN  Clean(out) =>
            X!Leaves(out.expr) =
              SelectSeq([k \in 1 .. out.cur - i + 1 |-> i + k - 1],
                        LAMBDA k : X!TokenAt(toks, k) \notin closes)

(* Without parentheses, an operand of an operator binds more tightly than  *)
(* it does, or as tightly and stands on its left: the trees tests/parser.c *)
(* expects in test_operator_precedence, for all of them.                   *)
PrecedenceRespected ==
  JustRead =>
    \A i \in Begun :
      LET out == Expr(toks, i)
      IN  Clean(out) =>
            \A e \in X!Subtrees(out.expr) : X!Infix(e) =>
              LET l == e.args[1]  r == e.args[2] IN
              /\ X!Infix(l) /\ X!Last(l) = e.at - 1
                   => X!PrecedenceOf(l.op) >= X!PrecedenceOf(e.op)
              /\ X!Infix(r) /\ X!First(r) = e.at + 1
                   => X!PrecedenceOf(r.op) > X!PrecedenceOf(e.op)

-----------------------------------------------------------------------------
(***************************************************************************)
(* What becomes of the text.                                               *)
(***************************************************************************)
From(i) == tokens[i].start
To(i)   == tokens[i].end

Contents == {n \in P!Kept : node[n].type = "content"}
Tags     == {n \in P!Kept \ Contents : P!Own(n) # {}}

(* The characters of a tag, spaces inside of it included.                  *)
Within(n) == From(node[n].from) .. To(node[n].to) - 1

(* The two characters that end a tag stand apart: the parser takes them    *)
(* for its end, the lexer does not.                                        *)
Loose(n) == To(node[n].to - 1) # From(node[n].to)

(* The last tag before p is a loose one.                                   *)
BehindLoose(p) ==
  \E n \in Tags :
    /\ Loose(n) /\ To(node[n].to) <= p
    /\ \A m \in Tags : To(node[m].to) <= p => To(node[m].to) <= To(node[n].to)

(* A template that is accepted, and read to its end, has all of its text:  *)
(* each character stands in a tag or is printed, and does so once; what    *)
(* alone can be lost are spaces behind a loose tag.  The lexer             *)
(* (lexer.c:221-232) and the parser (parser.c:466-591) each have their own *)
(* idea of where a tag ends.                                               *)
TextKept ==
  P!Complete =>
    \A p \in 0 .. Size - 1 :
      LET tags  == {n \in Tags : p \in Within(n)}
          texts == {n \in Contents : p \in Within(n)}
      IN  \/ Cardinality(tags) = 1 /\ texts = {}
          \/ Cardinality(texts) = 1 /\ tags = {}
          \/ tags \cup texts = {} /\ At(p) \in Space /\ BehindLoose(p)
=============================================================================
