------------------------------ MODULE MCParser ------------------------------
(***************************************************************************)
(* Templates put together from pieces: up to five of those that open,      *)
(* continue, fill and close bodies, with two names of blocks; up to three  *)
(* of a larger choice, in which each way a header can be incomplete        *)
(* occurs, and so does each kind of expression the parser tells apart.     *)
(***************************************************************************)
EXTENDS Parser

T(ts) == <<"LBRACE", "PERCENT">> \o ts \o <<"PERCENT", "RBRACE">>
V(ts) == <<"LBRACE", "LBRACE">> \o ts \o <<"RBRACE", "RBRACE">>

Body == {T(<<"FOR", "a", "IN", "b">>), T(<<"ENDFOR">>), T(<<"IF", "a">>), T(<<"ELSE">>),
         T(<<"ENDIF">>), T(<<"BLOCK", "a">>), T(<<"ENDBLOCK">>), <<"CONTENT">>}

Whole == {T(<<"BLOCK", "b">>), T(<<"ELIF", "a">>), T(<<"BREAK">>), T(<<"EXTENDS", "STRING">>),
          V(<<"a">>)}

Broken ==
  {<<"LBRACE", "PERCENT", "ENDFOR", "PERCENT">>, <<"LBRACE", "PERCENT", "ENDIF", "PERCENT">>,
   <<"LBRACE", "PERCENT", "ENDBLOCK">>, T(<<"FOR", "a", "IN">>), T(<<"FOR", "a", "IN", "a", "a">>),
   T(<<"FOR", "a", "IN", "a", "DOT", "INT">>), T(<<"IF">>), T(<<"IF", "MINUS">>), T(<<"IF", "a", "a">>),
   T(<<"ELSE", "a">>), T(<<"BLOCK">>), T(<<"EXTENDS">>), T(<<"BREAK", "a">>), T(<<"a">>),
   <<"LBRACE", "a">>, <<"LBRACE", "LBRACE", "a">>, V(<<"MINUS">>), V(<<"a", "a">>), V(<<"a", "DOT">>),
   V(<<"LPAREN", "a">>), <<"LBRACE", "LBRACE", "a", "RBRACE">>}

(* All choices of up to n pieces, put together.                            *)
Put(P, n) ==
  LET put[m \in 0 .. n] ==
        IF m = 0 THEN {<< >>} ELSE {t \o p : t \in put[m - 1], p \in P}
  IN  UNION {put[m] : m \in 0 .. n}

MCSources ==
  Put(Body, 4)
    \cup {t \o p : t \in Put(Body, 2), p \in Put(Whole \cup Body, 2)}
    \cup {t \o p : t \in Put(Body \cup Whole, 2), p \in Broken}
    \cup {t \o p \o q : t \in Put(Body, 1), p \in Broken, q \in Body}
    \cup {T(<<"FOR", "a", "IN", "b">>) \o T(<<"IF", "a">>) \o t : t \in Put(Body, 4)}
    \cup {T(<<"IF", "a">>) \o T(<<"BLOCK", "a">>) \o T(<<"ENDBLOCK">>) \o t : t \in Broken}

-----------------------------------------------------------------------------
(* What parser_parse_expression comes to for the expressions in these      *)
(* templates: an identifier, a.1, a., a sign or parenthesis of nothing.    *)
MCParseExpr(t, i) ==
  LET Is(expr, k, n) == [expr |-> expr, cur |-> i + k, errors |-> n, crash |-> FALSE]
      type(k) == TypeAt(t, i + k)
  IN  CASE type(0) = "IDENT" /\ type(1) # "DOT" -> Is("whole", 0, 0)
        [] type(0) = "IDENT" /\ type(1) = "DOT" ->
             [Is("none", 2, 1) EXCEPT !.crash = type(2) # "INT"]
        [] type(0) = "MINUS"  -> Is("hole", 1, 1)
        [] type(0) = "LPAREN" -> Is("none", 1, 1)
        [] OTHER              -> Is("none", 0, 1)

E == INSTANCE Expressions

Begins(t, i) ==
  \/ i > 1 /\ t[i - 1] \in {"IF", "ELIF", "IN"}
  \/ i > 2 /\ t[i - 1] = "LBRACE" /\ t[i - 2] = "LBRACE"

Begun == UNION {{SubSeq(t, i, Len(t)) : i \in {j \in DOMAIN t : Begins(t, j)}} : t \in MCSources}

ASSUME ParsesAsExpressions ==
  \A t \in Begun :
    LET out == E!Expression(t, 1, E!LOWEST)
        abs == MCParseExpr(t, 1)
    IN  /\ abs.crash = out.crash
        /\ ~out.crash =>
             /\ abs.cur = out.cur /\ abs.errors = out.errors
             /\ abs.expr = (IF out.expr = E!NoExpr THEN "none"
                            ELSE IF E!Whole(out.expr) THEN "whole" ELSE "hole")
=============================================================================
