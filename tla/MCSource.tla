------------------------------- MODULE MCSource ------------------------------
(***************************************************************************)
(* Three families of texts: those that the lexer tells apart, character by *)
(* character; expressions behind an opening {{, token by token, and chains *)
(* of operators; templates put together from tags of each kind, closed     *)
(* properly, with a space in between, or not at all, and what may stand    *)
(* around them or be mistaken for a part of them.                          *)
(***************************************************************************)
EXTENDS Source, TLC, SequencesExt

(* All choices of up to n pieces, put together.                            *)
Put(Pieces, n) == {FlattenSeq(f) : f \in [1 .. n -> Pieces \cup {<< >>}]}

-----------------------------------------------------------------------------
(* Every text of up to three characters, and every way to go on for up to  *)
(* four characters behind an opening brace, and for up to three behind a   *)
(* tag on the second line.                                                 *)
Chars(S) == {<<c>> : c \in S}

Few == {"{", "}", "%", "\"", "=", "<", "a", " ", "\n"}

Short == Put(Chars(Few \cup {"+", "1", "?", "\t"}), 3)

Opened == {<<"{">> \o t : t \in Put(Chars(Few), 4)}

SecondLine == {<<" ", "\n", "{", "%", "}">> \o t : t \in Put(Chars(Few), 3)}

-----------------------------------------------------------------------------
(* All sequences of up to four of the tokens that parser_parse_expression  *)
(* tells apart, or five without a dot or a number; numbers that strtol     *)
(* reads in several ways; one operator per precedence in all chains of up  *)
(* to four.                                                                *)
A == <<" ", "a">>

Signs == {A} \cup Chars({"-", "(", ")", "[", "]"})

Kinds == {<<" ", "1">>, <<".">>} \cup Signs

Numbers ==
  {A, <<" ", "0", "x", "1">>, <<" ", "0", "x", "i">>, <<" ", "1", "a">>, <<" ", "n">>,
   <<"}">>, <<"=", "=">>}

Ops == {<<"=", "=">>, <<" ", "d">>, <<"+">>, <<"-">>, <<"*">>, <<".">>}

Chain(n) == {A \o t : t \in Put({op \o A : op \in Ops}, n)}

Printed(t) == <<"{", "{">> \o t

Closed(t) == Printed(t) \o <<"}", "}">>

OfSigns == {Printed(t) : t \in Put(Signs, 5)}

OfKinds == {Printed(t) : t \in Put(Kinds, 4)}

OfNumbers == {Printed(t) : t \in Put(Numbers, 4)}

Chains == {Closed(t) : t \in Chain(4)}

Grouped ==
  {Closed(A \o <<"[">> \o t \o <<"]", "+">> \o A) : t \in Chain(2)}
    \cup {Closed(<<"(">> \o t \o <<")", "*">> \o A) : t \in Chain(2)}

-----------------------------------------------------------------------------
(* Up to three pieces of a template, or four if the first is a tag that    *)
(* ends with a space in it or that opens a body.                           *)
Ends == {<<"%", "}">>, <<"%", " ", "}">>, <<"%">>}

Pieces ==
  {<<"{", "{", "a">> \o c : c \in {<<"}", "}">>, <<"}", " ", "}">>}}
    \cup {<<"{", "%", "i", " ", "a">> \o c : c \in Ends}
    \cup {<<"{", "%", "e">> \o c : c \in Ends}
    \cup {<<"a">>, <<" ">>, <<"}">>, <<"%", "}">>, <<"{", "{", "\"">>, <<"\"", "}">>}

Opens ==
  {<< >>, <<"{", "{", "a", "}", " ", "}">>, <<"{", "%", "i", " ", "a", "%", "}">>,
   <<"{", "%", "i", " ", "a", "%", " ", "}">>}

Templates == {f \o t : f \in Opens, t \in Put(Pieces, 3)}

-----------------------------------------------------------------------------
(* To the right, so that TLC looks each text up in a set it has sorted.    *)
MCTexts ==
  Templates \cup (OfSigns \cup (Opened \cup (OfKinds \cup (OfNumbers \cup
    (Short \cup (Chains \cup (Grouped \cup SecondLine)))))))

MCKeywords == <<"i">> :> "IF" @@ <<"e">> :> "ENDIF" @@ <<"n">> :> "NOT" @@ <<"d">> :> "AND"

MCNameOf(word) == "a"
=============================================================================
