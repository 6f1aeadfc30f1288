-------------------------------- MODULE Lexer --------------------------------
(***************************************************************************)
(* src/lexer.c: a text is cut into tokens.  Outside of {{ }} and {% %} the *)
(* text is content and becomes one token up to the next brace; inside it   *)
(* is split into words, numbers, strings and symbols, and spaces are       *)
(* skipped.  One action per way through lexer_next_token.                  *)
(*                                                                         *)
(* A character is a string of length one.  Offsets start at 0, as in C; a  *)
(* token covers the bytes from its start up to its end, exclusive.         *)
(***************************************************************************)
EXTENDS Integers, Sequences, FiniteSets

CONSTANTS
  Texts,     \* the texts to read, sequences of characters
  Letter,    \* isidentc
  Digit,     \* isdigit
  Keywords   \* the table of token.c: a function from some words to token types

NUL   == "NUL"   \* the '\0' that ends the text
VT    == "VT"    \* '\v', for which TLA+ has no escape
Space == {" ", "\t", "\n", VT, "\f", "\r"}   \* isspace

(* A text ends at its first '\0', and the types of the words in the table   *)
(* are not those of symbols.                                               *)
ASSUME LexerAssumption ==
  /\ Letter \cap Digit = {}
  /\ (Letter \cup Digit) \cap (Space \cup {"{", "}", "%", "\"", NUL}) = {}
  /\ \A t \in Texts : t \in Seq({t[i] : i \in DOMAIN t} \ {NUL})
  /\ \A w \in DOMAIN Keywords : Keywords[w] \notin
       {"EOF", "CONTENT", "LBRACE", "RBRACE", "PERCENT", "EQ", "NOTEQ", "LTE", "GTE"}

VARIABLES
  text,    \* lexer->input
  lexer,   \* the rest of struct lexer: word.start, word.end, in_content, line, column
  tokens   \* what lexer_next_token has returned so far

vars == <<text, lexer, tokens>>

Size == Len(text)

At(p) == IF p < Size THEN text[p + 1] ELSE NUL

(***************************************************************************)
(* Moving through the text.                                                *)
(***************************************************************************)

(* The guard is one too high: at offset 1 there is a previous character.   *)
PeekPrev(p) == IF p <= 1 THEN NUL ELSE At(p - 1)

PeekNext(p) == IF p >= Size THEN NUL ELSE At(p + 1)

(* ReadChar with a mistake: a line is counted when its newline is reached. *)
ReadCharEarly(lx) ==
  IF lx.end > Size
  THEN [start |-> lx.end, end |-> 0, in_content |-> lx.in_content,
        line |-> lx.line, column |-> lx.column]
  ELSE LET newline == At(lx.end) = "\n"
       IN  [start |-> lx.end, end |-> lx.end + 1, in_content |-> lx.in_content,
            line   |-> IF newline THEN lx.line + 1 ELSE lx.line,
            column |-> IF newline THEN 1 ELSE lx.column + 1]

(* The lexer goes on to the character at word.end.  Asked to go on from    *)
(* behind the '\0', it sets word.end to the start of the text.             *)
ReadChar(lx) ==
  IF lx.end > Size
  THEN [start |-> lx.end, end |-> 0, in_content |-> lx.in_content,
        line |-> lx.line, column |-> lx.column]
  ELSE LET newline == PeekPrev(lx.end) = "\n"
       IN  [start |-> lx.end, end |-> lx.end + 1, in_content |-> lx.in_content,
            line   |-> IF newline THEN lx.line + 1 ELSE lx.line,
            column |-> IF newline THEN 1 ELSE lx.column + 1]

LexerStates ==
  [start : Nat, end : Nat, in_content : BOOLEAN, line : Nat, column : Nat]

(* Read on while the character at word.start is one of these.              *)
Skip(lx, run) ==
  LET skip[l \in LexerStates] ==
        IF At(l.start) \in run THEN skip[ReadChar(l)] ELSE l
  IN  skip[lx]

(* All that may come before a '\0'.                                        *)
Characters == {text[i] : i \in DOMAIN text}

InContent == Characters \ {"{"}

InString == Characters \ {"\""}

InWord == Letter \cup Digit

Init ==
  /\ text \in Texts
  /\ lexer = ReadChar([start |-> 0, end |-> 0, in_content |-> TRUE,
                       line |-> 1, column |-> 0])
  /\ tokens = << >>

(***************************************************************************)
(* lexer_next_token.                                                       *)
(***************************************************************************)

(* Reading the text behind its '\0' is undefined: a behaviour ends there.  *)
Inside == lexer.start <= Size

Ended == \E k \in DOMAIN tokens : tokens[k].type = "EOF"

(* The position is the lexer's before it skips any space.                  *)
Return(type, from, to, lx) ==
  /\ tokens' = Append(tokens, [type |-> type, start |-> from, end |-> to,
                               line |-> lexer.line, column |-> lexer.column])
  /\ lexer' = lx
  /\ UNCHANGED text

Eof ==
  /\ Inside /\ ~Ended
  /\ At(lexer.start) = NUL
  /\ Return("EOF", 0, 0, lexer)

Content ==
  /\ Inside /\ lexer.in_content
  /\ At(lexer.start) \in InContent
  /\ LET lx == Skip(lexer, InContent)
     IN  Return("CONTENT", lexer.start, lx.start, lx)

(* The text is to be split into tokens from here on.                       *)
Tokenizing ==
  /\ Inside
  /\ At(lexer.start) # NUL
  /\ lexer.in_content => At(lexer.start) = "{"

Ready == Skip(lexer, Space)

Char == At(Ready.start)

(* Symbols of one character, and those that a '=' after them makes another *)
(* symbol of.                                                              *)
Alone ==
  [c \in {"=", "!", "<", ">", "+", "-", "/", "*", "(", ")", ".", ",", "[", "]", "%"} |->
     CASE c = "=" -> "ILLEGAL"  [] c = "!" -> "BANG"     [] c = "<" -> "LT"
       [] c = ">" -> "GT"       [] c = "+" -> "PLUS"     [] c = "-" -> "MINUS"
       [] c = "/" -> "SLASH"    [] c = "*" -> "ASTERISK" [] c = "(" -> "LPAREN"
       [] c = ")" -> "RPAREN"   [] c = "." -> "DOT"      [] c = "," -> "COMMA"
       [] c = "[" -> "LBRACKET" [] c = "]" -> "RBRACKET" [] c = "%" -> "PERCENT"]

Paired ==
  [c \in {"=", "!", "<", ">"} |->
     CASE c = "=" -> "EQ" [] c = "!" -> "NOTEQ" [] c = "<" -> "LTE" [] c = ">" -> "GTE"]

Two == Char \in DOMAIN Paired /\ PeekNext(Ready.start) = "="

Symbol ==
  /\ Tokenizing /\ Char \in DOMAIN Alone /\ ~Two
  /\ Return(Alone[Char], Ready.start, Ready.end, ReadChar(Ready))

(* word.end is moved without a read, so the column is not.                 *)
Pair ==
  /\ Tokenizing /\ Two
  /\ Return(Paired[Char], Ready.start, Ready.end + 1,
            ReadChar([Ready EXCEPT !.end = @ + 1]))

OpenBrace ==
  /\ Tokenizing /\ Char = "{"
  /\ Return("LBRACE", Ready.start, Ready.end,
            ReadChar([Ready EXCEPT !.in_content = FALSE]))

(* Closes with a mistake: a tag does not give way to content.              *)
ClosesVariable(lx) == PeekPrev(lx.start) = "}"

(* Content begins behind }} and %}, the two characters side by side.       *)
Closes(lx) == PeekPrev(lx.start) \in {"}", "%"}

CloseBrace ==
  /\ Tokenizing /\ Char = "}"
  /\ Return("RBRACE", Ready.start, Ready.end,
            ReadChar([Ready EXCEPT !.in_content = @ \/ Closes(Ready)]))

(* String with a mistake: the closing quote is left for the next token.    *)
StringUnclosed ==
  /\ Tokenizing /\ Char = "\""
  /\ LET lx == Skip(ReadChar(Ready), InString)
     IN  Return("STRING", Ready.start, lx.start + 1, lx)

(* The closing quote is skipped even if it is the '\0'.                    *)
String ==
  /\ Tokenizing /\ Char = "\""
  /\ LET lx == ReadChar(Skip(ReadChar(Ready), InString))
     IN  Return("STRING", Ready.start, lx.start, lx)

LookupIdent(word) == IF word \in DOMAIN Keywords THEN Keywords[word] ELSE "IDENT"

Word ==
  /\ Tokenizing /\ Char \in Letter
  /\ LET lx == Skip(Ready, InWord)
     IN  Return(LookupIdent(SubSeq(text, Ready.start + 1, lx.start)),
                Ready.start, lx.start, lx)

Number ==
  /\ Tokenizing /\ Char \in Digit
  /\ LET lx == Skip(Ready, Digit)
     IN  Return("INT", Ready.start, lx.start, lx)

(* Illegal with a mistake: behind spaces it waits for more text.           *)
IllegalPatient ==
  /\ Tokenizing
  /\ Char \notin DOMAIN Alone \cup Letter \cup Digit \cup {"{", "}", "\"", NUL}
  /\ Return("ILLEGAL", Ready.start, Ready.end, ReadChar(Ready))

(* Anything else, the '\0' behind trailing spaces included.                *)
Illegal ==
  /\ Tokenizing
  /\ Char \notin DOMAIN Alone \cup Letter \cup Digit \cup {"{", "}", "\""}
  /\ Return("ILLEGAL", Ready.start, Ready.end, ReadChar(Ready))

NextToken ==
  \/ Eof \/ Content
  \/ Symbol \/ Pair \/ OpenBrace \/ CloseBrace
  \/ String \/ Word \/ Number \/ Illegal

Spec == Init /\ [][NextToken]_vars

(***************************************************************************)
(* Properties.                                                             *)
(***************************************************************************)
TypeOK ==
  /\ lexer.start \in 0 .. Size + 1
  /\ lexer.end \in 0 .. Size + 1
  /\ lexer.in_content \in BOOLEAN
  /\ lexer.line \in Nat \ {0} /\ lexer.column \in Nat \ {0}
  /\ \A k \in DOMAIN tokens : tokens[k].start \in Nat /\ tokens[k].end \in Nat

Returned == {k \in DOMAIN tokens : tokens[k].type # "EOF"}

(* A lexer that has left its text did so by a string without an end or by  *)
(* taking the '\0' behind trailing spaces for a character.                 *)
Strayed ==
  /\ tokens # << >>
  /\ LET last == tokens[Len(tokens)]
     IN  \/ last.type = "STRING" /\ last.end = Size + 1
         \/ last.type = "ILLEGAL" /\ last.start = Size

(* The tokens are cut from the text in its order, every character belongs  *)
(* to exactly one of them, only spaces belong to none, and between two     *)
(* calls the lexer stands right behind the last: no way through            *)
(* lexer_next_token drops or repeats a character (lexer.c:139-256).        *)
EveryCharOnce ==
  /\ TypeOK
  /\ \A j, k \in Returned : j < k => tokens[j].end <= tokens[k].start
  /\ \A p \in 0 .. Size - 1 :
       p < lexer.start =>
         \/ At(p) \in Space
         \/ \E k \in Returned : p \in tokens[k].start .. tokens[k].end - 1
  /\ \A k \in Returned : tokens[k].start < tokens[k].end /\ tokens[k].end <= lexer.start
  /\ Inside \/ Strayed

(* Where a {{ }} or {% %} ends: two adjacent tokens of these types.        *)
ClosedBy(k) ==
  /\ k > 1
  /\ tokens[k].type = "RBRACE"
  /\ tokens[k - 1].type \in {"RBRACE", "PERCENT"}
  /\ tokens[k - 1].end = tokens[k].start

(* Content and code alternate: content stands only at the beginning and    *)
(* right behind }} or %}, starting with the very next character, spaces    *)
(* included; behind anything else no content follows.  in_content          *)
(* (lexer.c:222-229) is all that tells the two apart.                      *)
ContentBetweenTags ==
  \A k \in Returned :
    IF k = 1 \/ ClosedBy(k - 1)
    THEN /\ tokens[k].start = (IF k = 1 THEN 0 ELSE tokens[k - 1].end)
         /\ tokens[k].type \in {"CONTENT", "LBRACE"}
    ELSE \/ tokens[k].type # "CONTENT"
         \/ tokens[k - 1].type = "CONTENT"

TrueLine(p) == 1 + Cardinality({q \in 0 .. p - 1 : At(q) = "\n"})

TrueColumn(p) ==
  p - (CHOOSE q \in -1 .. p - 1 :
         /\ q = -1 \/ At(q) = "\n"
         /\ \A r \in q + 1 .. p - 1 : At(r) # "\n")

(* The line a message of the parser gives is that of the end of the token  *)
(* before: the lexer counts lines one character behind, and a token may    *)
(* hold many lines or stand behind many.  A newline that is the very first *)
(* character is the one it never counts (lexer.c:31, 55, 142).             *)
LinesFollow ==
  Inside /\ At(0) # "\n" =>
    /\ lexer.line = TrueLine(lexer.start)
    /\ \A k \in Returned :
         tokens[k].line = TrueLine(IF k = 1 THEN 0 ELSE tokens[k - 1].end)

(* A token has the line and the column of its first character, as the      *)
(* table of expected tokens in tests/lexer.c:39-226 has it, of which the   *)
(* test compares types and literals only.  The code says otherwise: the    *)
(* position is taken before spaces are skipped (lexer.c:142, 156), and a   *)
(* symbol of two characters takes one column (lexer.c:161).                *)
TokensPlaced ==
  At(0) # "\n" =>
    \A k \in Returned :
      /\ tokens[k].line = TrueLine(tokens[k].start)
      /\ tokens[k].column = TrueColumn(tokens[k].start)

(* Every text comes to its end, or to the place where its reading is       *)
(* undefined: no token leaves the lexer where it was.                      *)
ReadToTheEnd == <>(Ended \/ ~Inside)
=============================================================================
