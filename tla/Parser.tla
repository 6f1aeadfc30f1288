-------------------------------- MODULE Parser -------------------------------
(***************************************************************************)
(* The parser of src/parser.c: the tokens of a template become a tree of   *)
(* blocks, and roscha_env_add_template keeps the tree or destroys it.      *)
(*                                                                         *)
(* The C stack is the variable stack, with a frame for the template and    *)
(* for each active parser_parse_loop, parser_parse_branch and              *)
(* parser_parse_tblock.  A block or branch is named by its place in node,  *)
(* in the order of their allocation.  ParseExpr is                         *)
(* parser_parse_expression, of which it matters here where it ends, how    *)
(* many errors it pushes, and whether its tree is there ("whole"), missing *)
(* ("none") or has a null pointer in it ("hole").                          *)
(***************************************************************************)
EXTENDS Tokens, FiniteSets

CONSTANTS
  Sources,          \* templates, as sequences of tokens
  ParseExpr(_, _)   \* of the tokens and the index of the first one

(* The lexer gives identifiers as such, and an end of the template is not  *)
(* one of them.                                                            *)
ASSUME SourceAssumption ==
  /\ "EOF" \notin Names
  /\ \A s \in Sources : s \in Seq({s[i] : i \in DOMAIN s} \ {"IDENT", "EOF"})

(* An expression ends where it began, or further on, but not behind the    *)
(* end; with no more errors than tokens.  A name alone is one.             *)
ASSUME ParseExprAssumption ==
  \A s \in Sources : \A i \in 1 .. Len(s) + 1 :
    LET e == ParseExpr(s, i) IN
    /\ e \in [expr : {"whole", "none", "hole"}, cur : Nat, errors : Nat, crash : BOOLEAN]
    /\ i <= e.cur /\ e.cur <= Len(s) + 1 /\ e.errors <= e.cur - i + 1
    /\ TypeAt(s, i) = "IDENT" /\ TypeAt(s, i + 1) \in {"RBRACE", "PERCENT"} =>
         e = [expr |-> "whole", cur |-> i, errors |-> 0, crash |-> FALSE]

VARIABLES
  toks,     \* the source
  cur,      \* the index of parser->cur_token; peek_token is the next
  errors,   \* the number of messages in parser->errors
  stack,    \* the C stack, its top at the end
  node,     \* what was allocated: the template, blocks, branches
  freed,    \* what of it was freed
  tblocks,  \* parser->tblocks, 0 for no block of the name
  pc,       \* where the parser is
  val       \* the block a call has just returned

vars == <<toks, cur, errors, stack, node, freed, tblocks, pc, val>>

Modes == {"body", "return", "fail", "parsed", "accepted", "rejected", "crashed"}

Type(i) == TypeAt(toks, i)

(***************************************************************************)
(* The tree.  from and to are the tokens a node accounts for without those *)
(* below it; next is the branch of a condition, or of another branch.      *)
(***************************************************************************)
Node(type, from, to, name, expr) ==
  [type |-> type, from |-> from, to |-> to, name |-> name, expr |-> expr,
   subs |-> << >>, next |-> 0]

NoName == "none"

Leaf(type, from, to) == Node(type, from, to, NoName, "whole")

Children(n) == {node[n].subs[k] : k \in DOMAIN node[n].subs} \cup ({node[n].next} \ {0})

(* A node is allocated before those below it.                              *)
Below(n) ==
  LET tree[m \in 1 .. Len(node)] == {m} \cup UNION {tree[c] : c \in Children(m)}
  IN  tree[n]

(* Destroying an expression that is not there, or not whole, follows a     *)
(* null pointer; a condition is checked for the former.                    *)
Fatal(n) ==
  \/ node[n].expr = "hole"
  \/ node[n].expr = "none" /\ node[n].type # "branch"

Top == stack[Len(stack)]

Pop == SubSeq(stack, 1, Len(stack) - 1)

(* opening, the block whose closing tag may come next: 0 in the template.  *)
Opening == IF Top.blk = 0 THEN "NULL" ELSE node[Top.blk].type

Template == [kind |-> "template", blk |-> 0, node |-> 1]

Init ==
  /\ toks \in Sources
  /\ cur = 1
  /\ errors = 0
  /\ node = <<Leaf("template", 1, 0)>>
  /\ stack = <<Template>>
  /\ freed = {}
  /\ tblocks = [n \in Names |-> 0]
  /\ pc = "body" /\ val = 0

(***************************************************************************)
(* Results of parser_parse_block.                                          *)
(***************************************************************************)

(* How many of the types ts follow i: parser_expect_peek for each of them  *)
(* until one is missing.                                                   *)
Matched(i, ts) ==
  CHOOSE n \in 0 .. Len(ts) :
    /\ \A m \in 1 .. n : Type(i + m) = ts[m]
    /\ n < Len(ts) => Type(i + n + 1) # ts[n + 1]

Expected(i, ts) == Matched(i, ts) = Len(ts)

(* A block was made of the tokens up to the current one.                   *)
Done(i, n) ==
  /\ cur' = i /\ errors' = errors + n
  /\ pc' = "return" /\ val' = Len(node')
  /\ UNCHANGED <<toks, stack, freed, tblocks>>

(* NULL is returned, with n more errors; what the call allocated is freed  *)
(* or forgotten.                                                           *)
Fail(i, n, made, gone) ==
  /\ cur' = i /\ errors' = errors + n
  /\ node' = node \o made
  /\ freed' = freed \cup gone
  /\ pc' = "fail"
  /\ UNCHANGED <<toks, stack, tblocks, val>>

Crash ==
  /\ pc' = "crashed"
  /\ UNCHANGED <<toks, cur, errors, stack, node, freed, tblocks, val>>

New == Len(node) + 1

(***************************************************************************)
(* parser_parse_block, one action per case.                                *)
(***************************************************************************)
Block == pc = "body" /\ Type(cur) # "EOF"

Content ==
  /\ Block /\ Type(cur) # "LBRACE"
  /\ node' = Append(node, Leaf("content", cur, cur))
  /\ Done(cur, 0)

StrayBrace ==
  /\ Block /\ Type(cur) = "LBRACE"
  /\ Type(cur + 1) \notin {"LBRACE", "PERCENT"}
  /\ Fail(cur, 1, << >>, {})

(* On failure the block is destroyed, and the expression with it, be it    *)
(* there or not.                                                           *)
Variable ==
  /\ Block /\ Type(cur) = "LBRACE" /\ Type(cur + 1) = "LBRACE"
  /\ \E e \in {ParseExpr(toks, cur + 2)} :
     LET n     == Matched(e.cur, <<"RBRACE", "RBRACE">>)
         blk   == Node("variable", cur, e.cur + 2, NoName, e.expr)
         ended == e.expr # "none" /\ n = 2
     IN  \/ /\ e.crash \/ (~ended /\ e.expr # "whole")
            /\ Crash
         \/ /\ ~e.crash /\ ended
            /\ node' = Append(node, blk)
            /\ Done(e.cur + 2, e.errors)
         \/ /\ ~e.crash /\ ~ended /\ e.expr = "whole"
            /\ Fail(e.cur + n, e.errors + 1, <<blk>>, {New})

Tag == Block /\ Type(cur) = "LBRACE" /\ Type(cur + 1) = "PERCENT"

Keyword == Type(cur + 2)

Ending == <<"PERCENT", "RBRACE">>

(* A tag that is its header only; without it the block is freed.           *)
Break ==
  /\ Tag /\ Keyword = "BREAK"
  /\ LET k == cur + 2 + Matched(cur + 2, Ending)
         b == Leaf("BREAK", cur, cur + 4)
     IN  IF Expected(cur + 2, Ending)
         THEN node' = Append(node, b) /\ Done(k, 0)
         ELSE Fail(k, 1, <<b>>, {New})

(* The name of the parent is forgotten on failure.                         *)
Extends ==
  /\ Tag /\ Keyword = "EXTENDS"
  /\ LET header == <<"STRING">> \o Ending
         k == cur + 2 + Matched(cur + 2, header)
         b == Leaf("EXTENDS", cur, cur + 5)
     IN  IF Expected(cur + 2, header)
         THEN node' = Append(node, b) /\ Done(k, 0)
         ELSE Fail(k, 1, <<b>>, {New})

(* The header of a tag with a body was read: its call is on the stack and  *)
(* turns to the first token behind it.                                     *)
Call(frame, i, n, made) ==
  /\ node' = node \o made
  /\ stack' = Append(stack, frame)
  /\ cur' = i + 1 /\ errors' = errors + n
  /\ UNCHANGED <<toks, freed, tblocks, pc, val>>

For ==
  /\ Tag /\ Keyword = "FOR"
  /\ LET k      == cur + 2
         header == <<"IDENT", "IN", "IDENT">>
         i      == k + Matched(k, header)
     IN  IF ~Expected(k, header) THEN Fail(i, 1, <<Leaf("FOR", 1, 0)>>, {New})
         ELSE \E e \in {ParseExpr(toks, i)} :
              LET n    == Matched(e.cur, Ending)
                  loop == Node("FOR", cur, e.cur + 2, NoName, e.expr)
              IN  \/ e.crash /\ Crash
                  \/ /\ ~e.crash /\ n = 2
                     /\ Call([kind |-> "FOR", blk |-> New, node |-> New],
                             e.cur + 2, e.errors, <<loop>>)
                  \/ /\ ~e.crash /\ n < 2
                     /\ Fail(e.cur + n, e.errors + 1, <<loop>>, {New})

(* parser_parse_branch up to its body.  The branch is forgotten if its     *)
(* header is incomplete.                                                   *)
Branch(conditional) ==
  LET k == cur + 2
  IN  \E e \in {IF conditional THEN ParseExpr(toks, k + 1)
               ELSE [expr |-> "none", cur |-> k, errors |-> 0, crash |-> FALSE]} :
      LET n    == Matched(e.cur, Ending)
          made == <<[Leaf("IF", 1, 0) EXCEPT !.next = New + 1],
                    Node("branch", cur, e.cur + 2, NoName, e.expr)>>
      IN  \/ e.crash /\ Crash
          \/ /\ ~e.crash /\ n = 2
             /\ Call([kind |-> "IF", blk |-> New, node |-> New + 1],
                     e.cur + 2, e.errors, made)
          \/ ~e.crash /\ n < 2 /\ Fail(e.cur + n, e.errors + 1, made, {New})

If == Tag /\ Keyword = "IF" /\ Branch(TRUE)

(* Alternative with a mistake: it is taken anywhere.                       *)
AlternativeAnywhere ==
  Tag /\ Keyword \in {"ELIF", "ELSE"} /\ Branch(Keyword = "ELIF")

(* An alternative stands in the body of a condition only.                  *)
Alternative ==
  /\ Tag /\ Keyword \in {"ELIF", "ELSE"}
  /\ IF Opening = "IF" THEN Branch(Keyword = "ELIF")
     ELSE Fail(cur + 2, 1, <<Leaf("IF", 1, 0)>>, {New})

TBlock ==
  /\ Tag /\ Keyword = "BLOCK"
  /\ LET header == <<"IDENT">> \o Ending
         i == cur + 2 + Matched(cur + 2, header)
         b == Node("BLOCK", cur, cur + 5, TokenAt(toks, cur + 3), "whole")
     IN  IF Expected(cur + 2, header)
         THEN Call([kind |-> "BLOCK", blk |-> New, node |-> New], i, 0, <<b>>)
         ELSE Fail(i, 1, <<b>>, {New})

Closings == {<<"FOR", "ENDFOR">>, <<"IF", "ENDIF">>, <<"BLOCK", "ENDBLOCK">>}

Closers == {c[2] : c \in Closings}

(* Matches with a mistake: any open tag will do.                           *)
MatchesAny == Opening # "NULL"

(* What a closing tag needs to be one.                                     *)
Matches == <<Opening, Keyword>> \in Closings

(* The last brace is looked at but not taken: the body's loop skips it.    *)
(* If it is missing, no error is pushed.                                   *)
Close ==
  /\ Tag /\ Keyword \in Closers
  /\ LET k == cur + 2
         c == Leaf("CLOSE", cur, cur + 4)
     IN  \/ /\ Matches /\ Expected(k, Ending)
            /\ node' = Append(node, c) /\ Done(k + 1, 0)
         \/ /\ Matches /\ Matched(k, Ending) = 1
            /\ Fail(k + 1, 0, <<c>>, {New})
         \/ /\ ~Matches \/ Matched(k, Ending) = 0
            /\ Fail(k, 1, <<c>>, {New})

(* The block is forgotten.                                                 *)
NoKeyword ==
  /\ Tag
  /\ Keyword \notin {"FOR", "BREAK", "IF", "ELIF", "ELSE", "EXTENDS", "BLOCK"} \cup Closers
  /\ Fail(cur + 2, 1, <<Leaf("unknown", cur, cur + 2)>>, {})

(***************************************************************************)
(* The loops around parser_parse_block.                                    *)
(***************************************************************************)

(* Finish with a mistake: the first block of a name stays.                 *)
FinishFirst ==
  /\ stack' = Pop
  /\ pc' = "return" /\ val' = Top.blk
  /\ tblocks' = IF Top.kind = "BLOCK" /\ tblocks[node[Top.blk].name] = 0
                THEN [tblocks EXCEPT ![node[Top.blk].name] = Top.blk]
                ELSE tblocks

(* The call at the top returns its block; parser_parse_tblock enters it    *)
(* under its name.                                                         *)
Finish ==
  /\ stack' = Pop
  /\ pc' = "return" /\ val' = Top.blk
  /\ tblocks' = IF Top.kind = "BLOCK"
                THEN [tblocks EXCEPT ![node[Top.blk].name] = Top.blk]
                ELSE tblocks

(* EndOfSource with a mistake: an open tag waits for its closing tag.      *)
EndOfSourceTop ==
  /\ pc = "body" /\ Type(cur) = "EOF"
  /\ Top.kind = "template" /\ pc' = "parsed"
  /\ UNCHANGED <<toks, cur, errors, stack, node, freed, tblocks, val>>

EndOfSource ==
  /\ pc = "body" /\ Type(cur) = "EOF"
  /\ IF Top.kind = "template"
     THEN pc' = "parsed" /\ UNCHANGED <<stack, val, tblocks>>
     ELSE Finish
  /\ UNCHANGED <<toks, cur, errors, node, freed>>

(* vector_push of the block that came back to the body of the call.        *)
Push == [node EXCEPT ![Top.node].subs = Append(@, val)]

(* A block is added to the body and the next token taken; a closing tag    *)
(* ends the body.                                                          *)
Take ==
  /\ pc = "return"
  /\ ~(Top.kind = "IF" /\ node[val].type = "IF")
  /\ node' = Push
  /\ cur' = IF Type(cur) = "EOF" THEN cur ELSE cur + 1
  /\ IF node[val].type = "CLOSE" THEN Finish
     ELSE pc' = "body" /\ UNCHANGED <<stack, val, tblocks>>
  /\ UNCHANGED <<toks, errors, freed>>

(* TakeAlternative with a mistake: the block is kept, and freed.           *)
TakeAlternativeTwice ==
  /\ pc = "return"
  /\ Top.kind = "IF" /\ node[val].type = "IF"
  /\ node' = [Push EXCEPT ![Top.node].next = node[val].next]
  /\ freed' = freed \cup {val}
  /\ Finish
  /\ UNCHANGED <<toks, cur, errors>>

(* TakeAlternative with a mistake: a token is taken, too.                  *)
TakeAlternativeSkips ==
  /\ pc = "return"
  /\ Top.kind = "IF" /\ node[val].type = "IF"
  /\ node' = [node EXCEPT ![Top.node].next = node[val].next]
  /\ freed' = freed \cup {val}
  /\ cur' = IF Type(cur) = "EOF" THEN cur ELSE cur + 1
  /\ Finish
  /\ UNCHANGED <<toks, errors>>

(* A condition in the body of a branch is taken for its alternative and    *)
(* ends the branch: only its branches are kept.                            *)
TakeAlternative ==
  /\ pc = "return"
  /\ Top.kind = "IF" /\ node[val].type = "IF"
  /\ node' = [node EXCEPT ![Top.node].next = node[val].next]
  /\ freed' = freed \cup {val}
  /\ Finish
  /\ UNCHANGED <<toks, cur, errors>>

(* NULL came back in a body.  A branch is destroyed with what is in it,    *)
(* the others are freed alone.                                             *)
Unwind ==
  /\ pc = "fail" /\ Top.kind # "template"
  /\ LET gone == IF Top.kind = "IF" THEN Below(Top.node) ELSE {}
     IN  IF \E n \in gone : Fatal(n) THEN Crash
         ELSE /\ stack' = Pop
              /\ freed' = freed \cup gone \cup {Top.blk}
              /\ UNCHANGED <<toks, cur, errors, node, tblocks, pc, val>>

GiveUp ==
  /\ pc = "fail" /\ Top.kind = "template"
  /\ pc' = "parsed"
  /\ UNCHANGED <<toks, cur, errors, stack, node, freed, tblocks, val>>

(***************************************************************************)
(* roscha_env_add_template: the errors decide.                             *)
(***************************************************************************)
Accept ==
  /\ pc = "parsed" /\ errors = 0
  /\ pc' = "accepted"
  /\ UNCHANGED <<toks, cur, errors, stack, node, freed, tblocks, val>>

Reject ==
  /\ pc = "parsed" /\ errors > 0
  /\ IF \E n \in Below(1) : Fatal(n) THEN Crash
     ELSE /\ pc' = "rejected"
          /\ freed' = freed \cup Below(1)
          /\ UNCHANGED <<toks, cur, errors, stack, node, tblocks, val>>

Next ==
  \/ Content \/ StrayBrace \/ Variable
  \/ Break \/ Extends \/ For \/ If \/ Alternative \/ TBlock \/ Close \/ NoKeyword
  \/ EndOfSource \/ Take \/ TakeAlternative \/ Unwind \/ GiveUp
  \/ Accept \/ Reject

Spec == Init /\ [][Next]_vars

(* Parsing is one call, which runs once begun.                             *)
FairSpec == Spec /\ WF_vars(Next)

(***************************************************************************)
(* Properties.                                                             *)
(***************************************************************************)
TypeOK ==
  /\ cur \in 1 .. Len(toks) + 2
  /\ errors \in 0 .. Len(toks) + 2
  /\ pc \in Modes
  /\ val \in 0 .. Len(node)
  /\ freed \subseteq 1 .. Len(node)
  /\ tblocks \in [Names -> 0 .. Len(node)]
  /\ \A k \in DOMAIN stack :
       /\ stack[k].kind = "template" <=> k = 1
       /\ stack[k].blk \in 0 .. Len(node) /\ stack[k].node \in 1 .. Len(node)

Nodes == 1 .. Len(node)

(* What the calls in progress and the template hold.                       *)
Held ==
  UNION {Below(n) : n \in {stack[k].node : k \in DOMAIN stack}
                           \cup {stack[k].blk : k \in 2 .. Len(stack)}
                           \cup (IF pc = "return" THEN {val} ELSE {})}

(* Nothing is freed that a call in progress or the tree still leads to,    *)
(* and no two ways lead to one node: destroying a branch or the template   *)
(* frees nothing twice (ast.c:255-322, with the free of the block that     *)
(* parser_parse_branch takes apart, parser.c:375).                         *)
OwnedOnce ==
  /\ TypeOK
  /\ pc \notin {"crashed", "rejected"} =>
       /\ Held \cap freed = {}
       /\ \A n \in Held : Cardinality({p \in Held : n \in Children(p)}) <= 1
       /\ \A n \in Held : \A j, k \in DOMAIN node[n].subs :
            j # k => node[n].subs[j] # node[n].subs[k]

(* A template that was read to its end and taken over.                     *)
Kept == Below(1)

Complete == pc = "accepted" /\ Type(cur) = "EOF"

Own(n) == node[n].from .. node[n].to

Extent(n) == UNION {Own(m) : m \in Below(n)}

(* The tree of an accepted template accounts for each of its tokens once   *)
(* and in their order, whatever tags opened, continued and closed each     *)
(* other, and nothing that was allocated for it is lost.                   *)
EveryTokenOnce ==
  Complete =>
    /\ \A i \in DOMAIN toks : Cardinality({n \in Kept : i \in Own(n)}) = 1
    /\ \A n \in Kept : \A k \in DOMAIN node[n].subs :
         \A i \in Extent(node[n].subs[k]) :
           /\ node[n].to < i
           /\ \A l \in k + 1 .. Len(node[n].subs) : \A j \in Extent(node[n].subs[l]) : i < j
           /\ node[n].next # 0 => \A j \in Extent(node[n].next) : i < j
    /\ Kept \cup freed = Nodes

ClosedBy(n) == IF node[n].type = "branch" THEN "IF" ELSE node[n].type

(* Each closing tag ends the body of a tag of its kind, and a body that    *)
(* none ends, and no alternative, goes on to the end of the template.      *)
ClosingsMatch ==
  Complete =>
    \A n \in Kept :
      LET subs == node[n].subs
          last == IF subs = << >> THEN 0 ELSE subs[Len(subs)]
      IN  /\ \A k \in DOMAIN subs : node[subs[k]].type = "CLOSE" =>
               /\ subs[k] = last
               /\ <<ClosedBy(n), toks[node[last].from + 2]>> \in Closings
          /\ node[n].type \in {"FOR", "BLOCK", "branch"} =>
               \/ last # 0 /\ node[last].type = "CLOSE"
               \/ node[n].next # 0
               \/ Len(toks) \in Extent(n)

(* tblocks, by which an inheriting template's blocks are found, has the    *)
(* block of a name that ends last, the outer one of two that end together. *)
LatestBlocks ==
  Complete =>
    \A name \in Names :
      LET named == {n \in Kept : node[n].type = "BLOCK" /\ node[n].name = name}
          end(n) == CHOOSE i \in Extent(n) : \A j \in Extent(n) : j <= i
      IN  IF named = {} THEN tblocks[name] = 0
          ELSE /\ tblocks[name] \in named
               /\ \A n \in named \ {tblocks[name]} :
                    \/ end(n) < end(tblocks[name])
                    \/ end(n) = end(tblocks[name]) /\ n \in Below(tblocks[name])

(* Reference: tags as brackets.  A header is complete if it is one of      *)
(* these.                                                                  *)
Headers ==
  {<<"BREAK">>, <<"EXTENDS", "STRING">>, <<"BLOCK", "IDENT">>, <<"IF", "IDENT">>,
   <<"ELIF", "IDENT">>, <<"ELSE">>, <<"FOR", "IDENT", "IN", "IDENT">>}
    \cup {<<c>> : c \in Closers}

FollowedBy(i, ts) == \A m \in DOMAIN ts : Type(i + m) = ts[m]

(* The words of tags that open a body, and of all that open, continue or   *)
(* close one.                                                              *)
Tags == {"FOR", "IF", "BLOCK"}

Bracketing == Tags \cup {"ELIF", "ELSE"} \cup Closers

(* The template is made of complete tags and variables, and of content.    *)
Tidy ==
  \A i \in DOMAIN toks :
    /\ Type(i) = "LBRACE" =>
         \/ FollowedBy(i, <<"LBRACE", "IDENT", "RBRACE", "RBRACE">>)
         \/ Type(i - 1) = "LBRACE" /\ FollowedBy(i, <<"IDENT", "RBRACE", "RBRACE">>)
         \/ Type(i + 1) = "PERCENT" /\ \E h \in Headers :
              FollowedBy(i + 1, h) /\ FollowedBy(i + 1 + Len(h), Ending)
    /\ Type(i) \in Bracketing => Type(i - 1) = "PERCENT" /\ Type(i - 2) = "LBRACE"

Mismatch == <<"mismatch">>

(* The tags open behind a token, of those that were open in front of it.   *)
After(s, t) ==
  LET top == IF s = << >> THEN "NULL" ELSE s[Len(s)]
  IN  CASE s = Mismatch -> s
        [] s # Mismatch /\ t \in Tags -> Append(s, t)
        [] s # Mismatch /\ t \in {"ELIF", "ELSE"} -> IF top = "IF" THEN s ELSE Mismatch
        [] s # Mismatch /\ t \in Closers ->
             IF <<top, t>> \in Closings THEN SubSeq(s, 1, Len(s) - 1) ELSE Mismatch
        [] OTHER -> s

(* The tags open behind the first i tokens.                                *)
OpenIn(ts) ==
  LET open[i \in 0 .. Len(ts)] ==
        IF i = 0 THEN << >> ELSE After(open[i - 1], TypeAt(ts, i))
  IN  open

Open == OpenIn(toks)

DirectIf ==
  \E i \in DOMAIN toks :
    /\ Type(i) = "IF"
    /\ LET s == Open[i - 1] IN s # << >> /\ s[Len(s)] = "IF"

(* Of the templates made of complete tags, and without a condition in the  *)
(* body of another, exactly those are accepted whose closing and           *)
(* alternative tags fit what is open; some may stay open.  Whatever is     *)
(* accepted was read to its end, but for one case: a closing tag without   *)
(* its brace ends the parse without an error (parser.c:527).               *)
AcceptedIffBalanced ==
  /\ pc \in {"accepted", "rejected"} /\ Tidy /\ ~DirectIf =>
       (pc = "accepted" <=> Open[Len(toks)] # Mismatch)
  /\ pc = "accepted" =>
       \/ Type(cur) = "EOF"
       \/ Type(cur) = "PERCENT" /\ Type(cur - 1) \in Closers /\ Type(cur + 1) # "RBRACE"

(* Every template is taken over or rejected, or the parser crashes.        *)
ParseEnds == <>(pc \in {"accepted", "rejected", "crashed"})

(* include/ast.h:181-185: tblocks holds references to the blocks of the    *)
(* template.                                                               *)
BlocksInTemplate ==
  pc = "accepted" => \A name \in Names : tblocks[name] = 0 \/ tblocks[name] \in Kept
=============================================================================
