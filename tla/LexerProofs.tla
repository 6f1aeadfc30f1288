----------------------------- MODULE LexerProofs -----------------------------
(***************************************************************************)
(* The lexer cuts a text into tokens: EveryCharOnce, ContentBetweenTags    *)
(* and LinesFollow of Lexer, for every set of texts, and how far its       *)
(* columns are behind.                                                     *)
(*                                                                         *)
(* Skip is a recursive function.  That there is one, and where it stops,   *)
(* is shown by a least counterexample: each character that is read leaves  *)
(* fewer before the end of the text.                                       *)
(***************************************************************************)
EXTENDS Lexer, SequenceTheorems, FiniteSetTheorems, WellFoundedInduction, TLAPS

-----------------------------------------------------------------------------
(* A set of numbers has a least member.                                    *)
LEMMA Least ==
  ASSUME NEW S, S \subseteq Nat, S # {}
  PROVE  \E n \in S : \A m \in S : n <= m
<1> DEFINE R == OpToRel(<, Nat)
<1>1. IsWellFoundedOn(R, Nat)
  BY NatLessThanWellFounded
<1>2. \A x, y \in Nat : <<x, y>> \in R <=> x < y
  BY DEF OpToRel
<1> HIDE DEF R
<1>3. PICK x \in S : \A y \in S : ~ (<<y, x>> \in R)
  BY <1>1, WFMin
<1>4. ASSUME NEW y \in S PROVE x <= y
  <2>1. x \in Nat /\ y \in Nat /\ ~ (y < x)
    BY <1>2, <1>3, <1>4
  <2> QED
    BY <2>1
<1> QED
  BY <1>4

-----------------------------------------------------------------------------
(* The loop of Skip as a function: R are the places it goes on from.       *)
Runs(f, R) ==
  f = [l \in LexerStates |-> IF l.start \in R THEN f[ReadChar(l)] ELSE l]

(* The states from which it makes at most n steps more before it stops.    *)
Within(R, n) == {l \in LexerStates : l.start \in R => l.end + n >= Size + 2}

RunsWithin(f, R, n) ==
  f = [l \in Within(R, n) |-> IF l.start \in R THEN f[ReadChar(l)] ELSE l]

(* Reading gives a state, one step closer to the end of the text.          *)
LEMMA ReadTyped ==
  ASSUME Size \in Nat, NEW l \in LexerStates
  PROVE  LET r == ReadChar(l)
             newline == PeekPrev(l.end) = "\n"
         IN  /\ r \in LexerStates /\ r.start = l.end /\ r.in_content = l.in_content
             /\ l.end > Size => r.end = 0
             /\ l.end <= Size => /\ r.end = l.end + 1
                                 /\ r.line = IF newline THEN l.line + 1 ELSE l.line
                                 /\ r.column = IF newline THEN 1 ELSE l.column + 1
<1>1. /\ l.end \in Nat /\ l.line \in Nat /\ l.column \in Nat /\ l.in_content \in BOOLEAN
  BY DEF LexerStates
<1>2. CASE l.end > Size
  BY <1>1, <1>2 DEF ReadChar, LexerStates
<1>3. CASE ~ (l.end > Size)
  BY <1>1, <1>3 DEF ReadChar, LexerStates
<1> QED
  BY <1>2, <1>3

(* Fewer characters are left.                                              *)
LEMMA ReadCloser ==
  ASSUME Size \in Nat, NEW R, R \subseteq 0 .. Size - 1, NEW l \in LexerStates, l.start \in R
  PROVE  /\ l \in Within(R, 0) => ReadChar(l).start \notin R
         /\ \A n \in Nat : l \in Within(R, n + 1) => ReadChar(l) \in Within(R, n)
<1> DEFINE r == ReadChar(l)
<1>1. /\ r \in LexerStates /\ r.start = l.end /\ l.end \in Nat
      /\ l.end <= Size => r.end = l.end + 1
  BY ReadTyped DEF LexerStates
<1> HIDE DEF r
<1>2. l.end > Size => r.start \notin R
  BY <1>1
<1>3. l \in Within(R, 0) => r.start \notin R
  BY <1>1, <1>2 DEF Within
<1>4. ASSUME NEW n \in Nat, l \in Within(R, n + 1) PROVE r \in Within(R, n)
  <2>1. l.end + (n + 1) >= Size + 2
    BY <1>4 DEF Within
  <2>2. CASE l.end > Size
    BY <1>1, <1>2, <2>2 DEF Within
  <2>3. CASE l.end <= Size
    <3>1. r.end + n >= Size + 2
      BY <1>1, <2>1, <2>3
    <3> QED
      BY <1>1, <3>1 DEF Within
  <2> QED
    BY <1>1, <2>2, <2>3
<1> QED
  BY <1>3, <1>4 DEF r

(* The loop ends,                                                          *)
LEMMA RunsExists ==
  ASSUME Size \in Nat, NEW R, R \subseteq 0 .. Size - 1
  PROVE  \E f : Runs(f, R)
<1> DEFINE Bad == {n \in Nat : ~ \E f : RunsWithin(f, R, n)}
<1>1. \E f : RunsWithin(f, R, 0)
  <2> DEFINE f == [l \in Within(R, 0) |-> IF l.start \in R THEN ReadChar(l) ELSE l]
  <2>1. ASSUME NEW l \in Within(R, 0), l.start \in R
        PROVE  f[ReadChar(l)] = ReadChar(l)
    <3>1. ReadChar(l) \in LexerStates /\ ReadChar(l).start \notin R
      BY <2>1, ReadTyped, ReadCloser DEF Within
    <3>2. ReadChar(l) \in Within(R, 0)
      BY <3>1 DEF Within
    <3> QED
      BY <3>1, <3>2
  <2>2. f = [l \in Within(R, 0) |-> IF l.start \in R THEN f[ReadChar(l)] ELSE l]
    BY <2>1
  <2> HIDE DEF f
  <2> QED
    BY <2>2 DEF RunsWithin
<1>2. ASSUME NEW n \in Nat, NEW g, RunsWithin(g, R, n)
      PROVE  \E f : RunsWithin(f, R, n + 1)
  <2> DEFINE f == [l \in Within(R, n + 1) |-> IF l.start \in R THEN g[ReadChar(l)] ELSE l]
  <2>1. ASSUME NEW l \in Within(R, n) PROVE f[l] = g[l]
    <3>1. l \in Within(R, n + 1)
      BY DEF Within, LexerStates
    <3>2. g[l] = IF l.start \in R THEN g[ReadChar(l)] ELSE l
      BY <1>2 DEF RunsWithin
    <3> QED
      BY <3>1, <3>2
  <2>2. ASSUME NEW l \in Within(R, n + 1), l.start \in R
        PROVE  f[ReadChar(l)] = g[ReadChar(l)]
    <3>1. ReadChar(l) \in Within(R, n)
      BY <2>2, ReadCloser DEF Within
    <3> QED
      BY <2>1, <3>1
  <2>3. f = [l \in Within(R, n + 1) |-> IF l.start \in R THEN f[ReadChar(l)] ELSE l]
    BY <2>2
  <2> HIDE DEF f
  <2> QED
    BY <2>3 DEF RunsWithin
<1>3. Bad = {}
  <2> SUFFICES ASSUME Bad # {} PROVE FALSE
    OBVIOUS
  <2>1. PICK n \in Bad : \A m \in Bad : n <= m
    <3>1. Bad \subseteq Nat
      OBVIOUS
    <3> HIDE DEF Bad
    <3> QED
      BY <3>1, Least
  <2>2. n # 0
    BY <1>1
  <2>3. n - 1 \in Nat /\ n - 1 \notin Bad
    BY <2>1, <2>2
  <2>4. \E f : RunsWithin(f, R, (n - 1) + 1)
    BY <1>2, <2>3
  <2>5. (n - 1) + 1 = n
    BY <2>1
  <2> QED
    BY <2>1, <2>4, <2>5
<1>4. PICK f : RunsWithin(f, R, Size + 2)
  <2>1. Size + 2 \in Nat
    OBVIOUS
  <2> QED
    BY <1>3, <2>1
<1>5. Within(R, Size + 2) = LexerStates
  <2>1. \A l \in LexerStates : l.end + (Size + 2) >= Size + 2
    BY DEF LexerStates
  <2> QED
    BY <2>1 DEF Within
<1> QED
  BY <1>4, <1>5 DEF RunsWithin, Runs

(* and stops where S leads to if it is left by no step of it.              *)
LEMMA RunsStops ==
  ASSUME Size \in Nat, NEW R, R \subseteq 0 .. Size - 1, NEW f, Runs(f, R),
         NEW S, S \subseteq LexerStates, \A l \in S : l.start \in R => ReadChar(l) \in S,
         NEW x \in S
  PROVE  f[x] \in S /\ f[x].start \notin R
<1> DEFINE Good(l) == f[l] \in S /\ f[l].start \notin R
           Bad     == {n \in Nat : \E l \in S : l \in Within(R, n) /\ ~Good(l)}
<1>1. ASSUME NEW l \in S, l.start \notin R PROVE Good(l)
  BY <1>1 DEF Runs
<1>2. ASSUME NEW l \in S, l.start \in R, Good(ReadChar(l)) PROVE Good(l)
  <2>1. f[l] = f[ReadChar(l)]
    BY <1>2 DEF Runs
  <2> QED
    BY <1>2, <2>1
<1>3. Bad = {}
  <2> SUFFICES ASSUME Bad # {} PROVE FALSE
    OBVIOUS
  <2>1. PICK n \in Bad : \A m \in Bad : n <= m
    <3>1. Bad \subseteq Nat
      OBVIOUS
    <3> HIDE DEF Bad
    <3> QED
      BY <3>1, Least
  <2>2. PICK l \in S : l \in Within(R, n) /\ ~Good(l)
    BY <2>1
  <2>3. n \in Nat
    BY <2>1
  <2> HIDE DEF Good
  <2>4. l.start \in R /\ ~Good(ReadChar(l)) /\ ReadChar(l) \in S
    BY <1>1, <1>2, <2>2
  <2>5. ReadChar(l).start \in R
    BY <1>1, <2>4
  <2>6. n # 0
    BY <2>2, <2>4, <2>5, ReadCloser DEF Within
  <2>7. PICK k \in Nat : n = k + 1
    <3>1. n - 1 \in Nat /\ n = (n - 1) + 1
      BY <2>3, <2>6
    <3> QED
      BY <3>1
  <2>8. ReadChar(l) \in Within(R, k)
    BY <2>2, <2>4, <2>7, ReadCloser DEF Within
  <2>9. k \in Bad
    BY <2>4, <2>8
  <2>10. ~(k + 1 <= k)
    BY <2>7
  <2> QED
    BY <2>1, <2>7, <2>9, <2>10
<1>4. x \in Within(R, Size + 2)
  BY DEF Within, LexerStates
<1> HIDE DEF Good
<1> QED
  BY <1>3, <1>4 DEF Good

(* So it is with Skip, of characters before the '\0'.                      *)
LEMMA SkipStops ==
  ASSUME Size \in Nat, NEW run, NUL \notin run,
         NEW S, S \subseteq LexerStates,
         \A l \in S : At(l.start) \in run => ReadChar(l) \in S,
         NEW x \in S
  PROVE  Skip(x, run) \in S /\ At(Skip(x, run).start) \notin run
<1> DEFINE Fits(f) == f = [l \in LexerStates |-> IF At(l.start) \in run THEN f[ReadChar(l)] ELSE l]
           skip    == CHOOSE f : Fits(f)
           R       == {p \in 0 .. Size - 1 : At(p) \in run}
<1>1. \A p \in Nat : p \in R <=> At(p) \in run
  BY DEF At
<1>2. \A l \in LexerStates : l.start \in R <=> At(l.start) \in run
  BY <1>1 DEF LexerStates
<1>3. R \subseteq 0 .. Size - 1
  OBVIOUS
<1> HIDE DEF R
<1>4. \A f : Fits(f) <=> Runs(f, R)
  BY <1>2 DEF Runs
<1>5. \E f : Fits(f)
  <2> HIDE DEF Fits
  <2> QED
    BY <1>3, <1>4, RunsExists
<1>6. Fits(skip)
  <2> HIDE DEF Fits
  <2> QED
    BY <1>5
<1>7. Skip(x, run) = skip[x]
  BY Zenon DEF Skip
<1>8. Runs(skip, R)
  <2> HIDE DEF Fits, skip
  <2> QED
    BY <1>4, <1>6
<1>9. \A l \in S : l.start \in R => ReadChar(l) \in S
  BY <1>2
<1> HIDE DEF Fits, skip
<1>10. skip[x] \in S /\ skip[x].start \notin R
  BY <1>3, <1>8, <1>9, RunsStops
<1>11. skip[x] \in LexerStates
  BY <1>10
<1> QED
  BY <1>2, <1>7, <1>10, <1>11

-----------------------------------------------------------------------------
(* The types of tokens.                                                    *)
PairTypes == {"EQ", "NOTEQ", "LTE", "GTE"}

Types ==
  {"EOF", "CONTENT", "LBRACE", "RBRACE", "STRING", "INT", "ILLEGAL", "IDENT", "PERCENT"}
    \cup PairTypes \cup {Alone[c] : c \in DOMAIN Alone} \cup {Keywords[w] : w \in DOMAIN Keywords}

Tokens == [type : Types, start : Nat, end : Nat, line : Nat, column : Nat]

Typed ==
  /\ text \in Texts
  /\ lexer \in LexerStates /\ lexer.line > 0 /\ lexer.column > 0
  /\ lexer.start <= Size + 1
  /\ lexer.end = IF Inside THEN lexer.start + 1 ELSE 0
  /\ tokens \in Seq(Tokens)

(* The symbols of two characters on a line.                                *)
PairsOn(n) ==
  {k \in Returned : tokens[k].type \in PairTypes /\ TrueLine(tokens[k].start) = n}

(* The line that offset p is on begins behind offset q.                    *)
Breaks(q, p) ==
  /\ q \in -1 .. p - 1
  /\ q = -1 \/ At(q) = "\n"
  /\ \A r \in q + 1 .. p - 1 : At(r) # "\n"

(* Where a line and a column are those of offset p, m columns taken off.   *)
Follows(l, m) ==
  At(0) # "\n" =>
    /\ l.line = TrueLine(l.start)
    /\ \E q \in -1 .. l.start - 1 : Breaks(q, l.start) /\ l.column = l.start - q - m

(* A place inside the text from the lexer's on.                            *)
Stands(l) ==
  /\ l \in LexerStates /\ l.line > 0 /\ l.column > 0
  /\ lexer.start <= l.start /\ l.start <= Size /\ l.end = l.start + 1
  /\ Follows(l, Cardinality(PairsOn(l.line)))

(* What the tokens say of the lexer between two calls: whether content is  *)
(* next depends on the last of them and on where it ends.                  *)
InTurn ==
  IF tokens = << >>
  THEN lexer.start = 0 /\ lexer.in_content
  ELSE LET last == tokens[Len(tokens)]
       IN  /\ last.end = lexer.start /\ last.start < last.end
           /\ last.start = 0 => last.type \in {"CONTENT", "LBRACE"}
           /\ lexer.in_content <=> last.type = "CONTENT" \/ ClosedBy(Len(tokens))
           /\ last.type = "CONTENT" => At(lexer.start) \in {"{", NUL}
           /\ last.type # "CONTENT" =>
                (last.type \in {"RBRACE", "PERCENT"} <=> At(lexer.start - 1) \in {"}", "%"})

Inv ==
  /\ Typed
  /\ EveryCharOnce
  /\ Inside => Stands(lexer)
  /\ IF Ended THEN Inside /\ At(lexer.start) = NUL ELSE InTurn
  /\ ContentBetweenTags

(* What one call cuts from the text: a token of this type from this place, *)
(* that leaves the lexer at lx.                                            *)
Cut(type, from, lx) ==
  /\ type \in Types \ {"EOF"} /\ from \in Nat
  /\ lx \in LexerStates /\ lx.line > 0 /\ lx.column > 0
  /\ lexer.start <= from /\ from < lx.start /\ lx.start <= Size + 1
  /\ lx.end = IF lx.start <= Size THEN lx.start + 1 ELSE 0
  /\ \A p \in lexer.start .. from - 1 : At(p) \in Space
  /\ lx.start = Size + 1 => type = "STRING" \/ (type = "ILLEGAL" /\ from = Size)

(* What makes it content or not, and what it makes of the text behind it.  *)
CutInTurn(type, from, lx) ==
  /\ At(lexer.start) # NUL
  /\ type = "CONTENT" => /\ lexer.in_content /\ from = lexer.start
                         /\ At(lx.start) \in {"{", NUL}
  /\ type # "CONTENT" =>
       /\ lexer.in_content => type = "LBRACE" /\ from = lexer.start
       /\ type = "RBRACE" => At(from) = "}"
       /\ type \in {"RBRACE", "PERCENT"} <=> At(lx.start - 1) \in {"}", "%"}
  /\ lx.in_content <=> \/ type # "LBRACE" /\ lexer.in_content
                       \/ type = "RBRACE" /\ PeekPrev(from) \in {"}", "%"}

(* A symbol of two characters takes one column.                            *)
CutFollows(type, from, lx) ==
  lx.start <= Size =>
    LET n == Cardinality(PairsOn(lx.line))
    IN  IF type \in PairTypes
        THEN Follows(lx, n + 1) /\ TrueLine(lx.start) = TrueLine(from)
        ELSE Follows(lx, n)

Cuts ==
  \E type \in Types, from \in Nat, lx \in LexerStates :
    /\ Return(type, from, lx.start, lx)
    /\ Cut(type, from, lx) /\ CutInTurn(type, from, lx) /\ CutFollows(type, from, lx)

-----------------------------------------------------------------------------
(* The '\0' stands behind the text and nowhere in it.                      *)
LEMMA Reading ==
  ASSUME text \in Texts
  PROVE  /\ Size \in Nat
         /\ \A p \in Nat : p < Size => At(p) \in Characters /\ At(p) # NUL
         /\ \A p \in Nat : p >= Size => At(p) = NUL
         /\ NUL \notin Characters
<1>1. text \in Seq(Characters \ {NUL})
  BY LexerAssumption DEF Characters
<1>2. Size \in Nat /\ DOMAIN text = 1 .. Size /\ \A i \in 1 .. Size : text[i] \in Characters \ {NUL}
  BY <1>1 DEF Size
<1>3. NUL \notin Characters
  BY <1>2 DEF Characters
<1>4. \A p \in Nat : p < Size => At(p) \in Characters /\ At(p) # NUL
  BY <1>2 DEF At
<1>5. \A p \in Nat : p >= Size => At(p) = NUL
  BY <1>2 DEF At
<1> QED
  BY <1>2, <1>3, <1>4, <1>5

(* Lines from one character to the next.                                   *)
LEMMA LineTyped ==
  ASSUME NEW p \in Nat
  PROVE  TrueLine(p) \in Nat
<1> DEFINE Q == {q \in 0 .. p - 1 : At(q) = "\n"}
<1>1. IsFiniteSet(0 .. p - 1)
  BY FS_Interval
<1>2. IsFiniteSet(Q)
  BY <1>1, FS_Subset
<1> QED
  BY <1>2, FS_CardinalityType DEF TrueLine

LEMMA LineStep ==
  ASSUME NEW p \in Nat
  PROVE  TrueLine(p + 1) = IF At(p) = "\n" THEN TrueLine(p) + 1 ELSE TrueLine(p)
<1> DEFINE Q(n) == {q \in 0 .. n - 1 : At(q) = "\n"}
<1>1. IsFiniteSet(Q(p))
  <2>1. IsFiniteSet(0 .. p - 1)
    BY FS_Interval
  <2> QED
    BY <2>1, FS_Subset
<1>2. p \notin Q(p)
  OBVIOUS
<1>3. CASE At(p) = "\n"
  <2>1. Q(p + 1) = Q(p) \cup {p}
    BY <1>3
  <2> HIDE DEF Q
  <2>2. Cardinality(Q(p + 1)) = Cardinality(Q(p)) + 1
    BY <1>1, <1>2, <2>1, FS_AddElement
  <2>3. Cardinality(Q(p)) \in Nat
    BY <1>1, FS_CardinalityType
  <2> QED
    BY <1>3, <2>2, <2>3 DEF TrueLine, Q
<1>4. CASE At(p) # "\n"
  <2>1. Q(p + 1) = Q(p)
    BY <1>4
  <2> QED
    BY <1>4, <2>1 DEF TrueLine
<1> QED
  BY <1>3, <1>4

(* Lines only grow.                                                        *)
LEMMA LineGrows ==
  ASSUME NEW p \in Nat, NEW r \in Nat, p <= r
  PROVE  TrueLine(p) <= TrueLine(r)
<1> DEFINE Q(n) == {q \in 0 .. n - 1 : At(q) = "\n"}
<1>1. IsFiniteSet(Q(r))
  <2>1. IsFiniteSet(0 .. r - 1)
    BY FS_Interval
  <2> QED
    BY <2>1, FS_Subset
<1>2. Q(p) \subseteq Q(r)
  OBVIOUS
<1> HIDE DEF Q
<1>3. IsFiniteSet(Q(p)) /\ Cardinality(Q(p)) <= Cardinality(Q(r))
  BY <1>1, <1>2, FS_Subset
<1>4. Cardinality(Q(p)) \in Nat /\ Cardinality(Q(r)) \in Nat
  BY <1>1, <1>3, FS_CardinalityType
<1> QED
  BY <1>3, <1>4 DEF TrueLine, Q

(* Where a line begins tells the columns on it.                            *)
LEMMA BreakStep ==
  ASSUME NEW p \in Nat
  PROVE  /\ At(p) = "\n" => Breaks(p, p + 1)
         /\ \A q : Breaks(q, p) /\ At(p) # "\n" => Breaks(q, p + 1)
BY DEF Breaks

LEMMA ColumnFrom ==
  ASSUME NEW p \in Nat, NEW q, Breaks(q, p)
  PROVE  TrueColumn(p) = p - q
<1> DEFINE Last(b) == /\ b = -1 \/ At(b) = "\n"
                      /\ \A r \in b + 1 .. p - 1 : At(r) # "\n"
<1>1. q \in -1 .. p - 1 /\ Last(q)
  BY DEF Breaks
<1>2. ASSUME NEW b \in -1 .. p - 1, Last(b) PROVE b = q
  <2>1. CASE b < q
    <3>1. q \in b + 1 .. p - 1 /\ q # -1
      BY <1>1, <2>1
    <3> QED
      BY <1>1, <1>2, <3>1
  <2>2. CASE q < b
    <3>1. b \in q + 1 .. p - 1 /\ b # -1
      BY <1>1, <2>2
    <3> QED
      BY <1>1, <1>2, <3>1
  <2> QED
    BY <1>1, <2>1, <2>2
<1> HIDE DEF Last
<1>3. (CHOOSE b \in -1 .. p - 1 : Last(b)) = q
  BY <1>1, <1>2
<1> QED
  BY <1>3 DEF TrueColumn, Last

(* The symbols of two characters on a line are as many as can be counted,  *)
(* and there is none on a line that no token begins on.                    *)
LEMMA PairsCounted ==
  ASSUME tokens \in Seq(Tokens), NEW n
  PROVE  IsFiniteSet(PairsOn(n)) /\ Cardinality(PairsOn(n)) \in Nat
<1>1. IsFiniteSet(DOMAIN tokens)
  <2>1. Len(tokens) \in Nat /\ DOMAIN tokens = 1 .. Len(tokens)
    OBVIOUS
  <2> QED
    BY <2>1, FS_Interval
<1>2. PairsOn(n) \subseteq DOMAIN tokens
  BY DEF PairsOn, Returned
<1> QED
  BY <1>1, <1>2, FS_Subset, FS_CardinalityType

LEMMA NoPairsAhead ==
  ASSUME Typed, EveryCharOnce, NEW p \in Nat, lexer.start <= p, At(p) = "\n"
  PROVE  Cardinality(PairsOn(TrueLine(p + 1))) = 0
<1>1. ASSUME NEW k \in PairsOn(TrueLine(p + 1)) PROVE FALSE
  <2>1. k \in Returned /\ TrueLine(tokens[k].start) = TrueLine(p + 1)
    BY <1>1 DEF PairsOn
  <2>2. PICK s \in Nat : s = tokens[k].start /\ s <= p
    <3>1. tokens[k].start < tokens[k].end /\ tokens[k].end <= lexer.start
      BY <2>1 DEF EveryCharOnce
    <3>2. tokens[k].start \in Nat /\ tokens[k].end \in Nat /\ lexer.start \in Nat
      BY <2>1 DEF EveryCharOnce, TypeOK, Returned, Typed, LexerStates
    <3> QED
      BY <3>1, <3>2
  <2>3. TrueLine(s) <= TrueLine(p) /\ TrueLine(s) \in Nat /\ TrueLine(p) \in Nat
    BY <2>2, LineGrows, LineTyped
  <2>4. TrueLine(p + 1) = TrueLine(p) + 1
    BY LineStep
  <2> QED
    BY <2>1, <2>2, <2>3, <2>4
<1>2. PairsOn(TrueLine(p + 1)) = {}
  BY <1>1
<1> QED
  BY <1>2, FS_EmptySet

-----------------------------------------------------------------------------
(* Reading on from a place inside the text: line and column follow.        *)
LEMMA ReadFollows ==
  ASSUME Typed, EveryCharOnce, NEW l, Stands(l), NEW r, r = ReadChar(l), l.start < Size
  PROVE  Stands(r) /\ r.start = l.start + 1 /\ r.in_content = l.in_content
<1>1. Size \in Nat /\ \A p \in Nat : p < Size => At(p) # NUL
  BY Reading DEF Typed
<1>2. PICK p \in Nat : p = l.start
  BY DEF Stands, LexerStates
<1>3. /\ l \in LexerStates /\ l.line > 0 /\ l.column > 0 /\ lexer.start <= p /\ p < Size
      /\ l.end = p + 1 /\ l.line \in Nat /\ l.column \in Nat /\ lexer.start \in Nat
  BY <1>2 DEF Stands, LexerStates, Typed
<1> DEFINE newline == PeekPrev(p + 1) = "\n"
<1>4. /\ r \in LexerStates /\ r.start = p + 1 /\ r.in_content = l.in_content
      /\ r.end = p + 2
      /\ r.line = IF newline THEN l.line + 1 ELSE l.line
      /\ r.column = IF newline THEN 1 ELSE l.column + 1
  <2>1. l.end <= Size
    BY <1>1, <1>3
  <2> QED
    BY <1>1, <1>3, <2>1, ReadTyped
<1>5. r.line > 0 /\ r.column > 0
  BY <1>3, <1>4
<1>6. Follows(r, Cardinality(PairsOn(r.line)))
  <2>0. PICK s \in Nat, m \in Nat : s = p + 1 /\ s = r.start /\ m = Cardinality(PairsOn(r.line))
    BY <1>4, PairsCounted DEF Typed
  <2> SUFFICES ASSUME At(0) # "\n"
               PROVE  /\ r.line = TrueLine(s)
                      /\ \E q \in -1 .. s - 1 : Breaks(q, s) /\ r.column = s - q - m
    BY <2>0 DEF Follows
  <2>1. newline <=> At(p) = "\n"
    <3>1. CASE p = 0
      BY <3>1 DEF PeekPrev, NUL
    <3>2. CASE p > 0
      <4>1. ~ (p + 1 <= 1) /\ p + 1 - 1 = p
        BY <3>2
      <4> QED
        BY <4>1 DEF PeekPrev
    <3> QED
      BY <3>1, <3>2
  <2>2. PICK q \in -1 .. p - 1 :
          Breaks(q, p) /\ l.column = p - q - Cardinality(PairsOn(l.line))
    BY <1>2 DEF Stands, Follows
  <2>3. l.line = TrueLine(p)
    BY <1>2 DEF Stands, Follows
  <2>4. TrueLine(p + 1) = IF At(p) = "\n" THEN TrueLine(p) + 1 ELSE TrueLine(p)
    BY LineStep
  <2> HIDE DEF newline
  <2>5. CASE At(p) = "\n"
    <3>1. Breaks(p, p + 1)
      BY <2>5, BreakStep
    <3>2. r.line = TrueLine(p + 1) /\ r.column = 1
      BY <1>4, <2>1, <2>3, <2>4, <2>5
    <3>3. Cardinality(PairsOn(r.line)) = 0
      BY <1>3, <2>5, <3>2, NoPairsAhead
    <3>4. p \in -1 .. s - 1 /\ 1 = s - p - m
      BY <2>0, <3>3
    <3> QED
      BY <2>0, <3>1, <3>2, <3>4
  <2>6. CASE At(p) # "\n"
    <3>1. Breaks(q, p + 1)
      BY <2>2, <2>6, BreakStep
    <3>2. r.line = TrueLine(p + 1) /\ r.line = l.line /\ r.column = l.column + 1
      BY <1>4, <2>1, <2>3, <2>4, <2>6
    <3>3. PICK n \in Nat : n = Cardinality(PairsOn(l.line))
      BY PairsCounted DEF Typed
    <3>4. n = m /\ q \in -1 .. s - 1 /\ (p - q - n) + 1 = s - q - m
      BY <2>0, <3>2, <3>3
    <3> QED
      BY <2>0, <2>2, <3>1, <3>2, <3>3, <3>4
  <2> QED
    BY <2>5, <2>6
<1> QED
  BY <1>1, <1>3, <1>4, <1>5, <1>6 DEF Stands

(* Behind the '\0' the place is no longer counted.                         *)
LEMMA ReadOut ==
  ASSUME Typed, NEW l, Stands(l), NEW r, r = ReadChar(l), l.start = Size
  PROVE  /\ r \in LexerStates /\ r.start = Size + 1 /\ r.end = 0
         /\ r.in_content = l.in_content /\ r.line > 0 /\ r.column > 0
<1>1. Size \in Nat
  BY Reading DEF Typed
<1>2. l \in LexerStates /\ l.end = Size + 1 /\ l.line > 0 /\ l.column > 0
  BY DEF Stands
<1>3. l.end > Size
  BY <1>1, <1>2
<1>4. /\ r \in LexerStates /\ r.start = Size + 1 /\ r.end = 0 /\ r.in_content = l.in_content
  BY <1>1, <1>2, <1>3, ReadTyped
<1>5. r.line = l.line /\ r.column = l.column
  BY <1>3 DEF ReadChar
<1> QED
  BY <1>2, <1>4, <1>5

(* Skip passes over a run of characters and stops behind it.               *)
LEMMA SkipFollows ==
  ASSUME Typed, EveryCharOnce, NEW run, NUL \notin run, NEW x, Stands(x),
         NEW r, r = Skip(x, run)
  PROVE  /\ Stands(r) /\ r.in_content = x.in_content /\ x.start <= r.start
         /\ \A p \in x.start .. r.start - 1 : At(p) \in run
         /\ At(r.start) \notin run
<1>1. Size \in Nat /\ \A p \in Nat : p >= Size => At(p) = NUL
  BY Reading DEF Typed
<1> DEFINE S == {l \in LexerStates :
                   /\ Stands(l) /\ l.in_content = x.in_content /\ x.start <= l.start
                   /\ \A p \in x.start .. l.start - 1 : At(p) \in run}
<1>2. x \in LexerStates /\ x.start \in Nat
  BY DEF Stands, LexerStates
<1>3. x \in S
  BY <1>2
<1>4. ASSUME NEW l \in S, At(l.start) \in run PROVE ReadChar(l) \in S
  <2>1. PICK m : m = ReadChar(l)
    OBVIOUS
  <2>2. /\ Stands(l) /\ l.in_content = x.in_content /\ x.start <= l.start
        /\ \A p \in x.start .. l.start - 1 : At(p) \in run
        /\ l.start \in Nat
    BY <1>4 DEF LexerStates
  <2>3. l.start < Size
    BY <1>1, <1>4, <2>2
  <2>4. Stands(m) /\ m.start = l.start + 1 /\ m.in_content = l.in_content
    BY <2>1, <2>2, <2>3, ReadFollows
  <2>5. m \in LexerStates
    BY <2>4 DEF Stands
  <2>6. \A p \in x.start .. m.start - 1 : At(p) \in run
    <3>1. \A p \in x.start .. m.start - 1 : p = l.start \/ p \in x.start .. l.start - 1
      BY <1>2, <2>2, <2>4
    <3> QED
      BY <1>4, <2>2, <3>1
  <2>7. x.start <= m.start
    BY <1>2, <2>2, <2>4
  <2> QED
    BY <2>1, <2>2, <2>4, <2>5, <2>6, <2>7
<1>5. S \subseteq LexerStates
  OBVIOUS
<1> HIDE DEF S
<1>6. r \in S /\ At(r.start) \notin run
  BY <1>1, <1>3, <1>4, <1>5, SkipStops
<1> QED
  BY <1>6 DEF S

-----------------------------------------------------------------------------
(* The ways through lexer_next_token, each a cut.                          *)
LEMMA ReadyStands ==
  ASSUME Inv, Tokenizing
  PROVE  /\ Stands(Ready) /\ Ready.in_content = lexer.in_content
         /\ Ready.start \in Nat /\ Ready.start <= Size /\ Ready.end = Ready.start + 1
         /\ lexer.start <= Ready.start /\ lexer.start \in Nat
         /\ \A p \in lexer.start .. Ready.start - 1 : At(p) \in Space
         /\ Char = NUL <=> Ready.start = Size
         /\ lexer.in_content => Ready.start = lexer.start /\ Char = "{"
<1>1. PICK r : r = Ready
  OBVIOUS
<1>2. NUL \notin Space /\ "{" \notin Space
  BY DEF NUL, VT, Space
<1>3. Stands(lexer)
  BY DEF Inv, Tokenizing
<1>4. /\ Stands(r) /\ r.in_content = lexer.in_content /\ lexer.start <= r.start
      /\ \A p \in lexer.start .. r.start - 1 : At(p) \in Space
  BY <1>1, <1>2, <1>3, SkipFollows DEF Inv, Ready
<1>5. r.start \in Nat /\ r.start <= Size /\ r.end = r.start + 1 /\ lexer.start \in Nat
  BY <1>4 DEF Stands, LexerStates, Inv, Typed
<1>6. Char = At(r.start)
  BY <1>1 DEF Char
<1>7. Char = NUL <=> r.start = Size
  BY <1>5, <1>6, Reading DEF Inv, Typed
<1>8. lexer.in_content => r.start = lexer.start /\ Char = "{"
  <2> SUFFICES ASSUME lexer.in_content PROVE r.start = lexer.start /\ Char = "{"
    OBVIOUS
  <2>1. At(lexer.start) = "{"
    BY DEF Tokenizing
  <2>2. ~ (lexer.start < r.start)
    <3> SUFFICES ASSUME lexer.start < r.start PROVE FALSE
      OBVIOUS
    <3>1. lexer.start \in lexer.start .. r.start - 1
      BY <1>5
    <3> QED
      BY <1>2, <1>4, <2>1, <3>1
  <2>3. r.start = lexer.start
    BY <1>4, <1>5, <2>2
  <2> QED
    BY <1>6, <2>1, <2>3
<1> QED
  BY <1>1, <1>4, <1>5, <1>7, <1>8

(* A token that ends inside the text,                                      *)
LEMMA CutTo ==
  ASSUME Inv, Tokenizing, NEW type \in Types \ {"EOF"}, type \notin PairTypes,
         NEW lx, Stands(lx), Ready.start < lx.start
  PROVE  Cut(type, Ready.start, lx) /\ CutFollows(type, Ready.start, lx)
<1>1. PICK from : from = Ready.start
  OBVIOUS
<1>2. /\ from \in Nat /\ lexer.start <= from /\ lexer.start \in Nat
      /\ \A p \in lexer.start .. from - 1 : At(p) \in Space
  BY <1>1, ReadyStands
<1>3. /\ lx \in LexerStates /\ lx.line > 0 /\ lx.column > 0 /\ lx.start \in Nat
      /\ lx.start <= Size /\ lx.end = lx.start + 1 /\ from < lx.start
      /\ Follows(lx, Cardinality(PairsOn(lx.line)))
  BY <1>1 DEF Stands, LexerStates
<1>4. Size \in Nat
  BY Reading DEF Inv, Typed
<1>5. Cut(type, from, lx)
  BY <1>2, <1>3, <1>4 DEF Cut
<1>6. CutFollows(type, from, lx)
  BY <1>3 DEF CutFollows
<1> QED
  BY <1>1, <1>5, <1>6

(* and one that ends behind it.                                            *)
LEMMA CutOut ==
  ASSUME Inv, Tokenizing, NEW type \in Types, NEW l, Stands(l), l.start = Size,
         Ready.start <= l.start, NEW lx, lx = ReadChar(l),
         type = "STRING" \/ (type = "ILLEGAL" /\ Ready.start = Size)
  PROVE  Cut(type, Ready.start, lx) /\ CutFollows(type, Ready.start, lx)
<1>1. PICK from : from = Ready.start
  OBVIOUS
<1>2. /\ from \in Nat /\ lexer.start <= from /\ lexer.start \in Nat
      /\ \A p \in lexer.start .. from - 1 : At(p) \in Space
  BY <1>1, ReadyStands
<1>3. Size \in Nat
  BY Reading DEF Inv, Typed
<1>4. /\ lx \in LexerStates /\ lx.start = Size + 1 /\ lx.end = 0
      /\ lx.line > 0 /\ lx.column > 0
  BY ReadOut DEF Inv
<1>5. type # "EOF" /\ (type = "STRING" \/ (type = "ILLEGAL" /\ from = Size)) /\ from <= Size
  BY <1>1
<1>6. ~ (lx.start <= Size)
  BY <1>3, <1>4
<1>7. Cut(type, from, lx)
  BY <1>2, <1>3, <1>4, <1>5, <1>6 DEF Cut
<1>8. CutFollows(type, from, lx)
  BY <1>6 DEF CutFollows
<1> QED
  BY <1>1, <1>7, <1>8

(* A token of one character.                                               *)
LEMMA CutOne ==
  ASSUME Inv, Tokenizing, NEW type \in Types \ {"EOF"}, type \notin PairTypes,
         NEW c \in BOOLEAN, NEW l, l = [Ready EXCEPT !.in_content = c],
         Char = NUL => type = "ILLEGAL",
         NEW lx, lx = ReadChar(l)
  PROVE  /\ Cut(type, Ready.start, lx) /\ CutFollows(type, Ready.start, lx)
         /\ lx.start = Ready.end /\ lx.start - 1 = Ready.start /\ lx.in_content = c
<1>1. PICK r : r = Ready
  OBVIOUS
<1>2. Stands(r) /\ r.start \in Nat /\ r.start <= Size /\ r.end = r.start + 1
  BY <1>1, ReadyStands
<1>3. /\ l \in LexerStates /\ l.start = r.start /\ l.end = r.end /\ l.in_content = c
      /\ l.line = r.line /\ l.column = r.column
  BY <1>1, <1>2 DEF Stands, LexerStates
<1>4. Stands(l)
  BY <1>2, <1>3 DEF Stands, Follows
<1>5. Size \in Nat /\ (Char = NUL <=> r.start = Size)
  BY <1>1, Reading, ReadyStands DEF Inv, Typed
<1>6. CASE r.start < Size
  <2>0. Typed /\ EveryCharOnce /\ l.start < Size
    BY <1>3, <1>6 DEF Inv
  <2>1. Stands(lx) /\ lx.start = l.start + 1 /\ lx.in_content = l.in_content
    BY <1>4, <2>0, ReadFollows
  <2>2. Ready.start < lx.start
    BY <1>1, <1>2, <1>3, <2>1
  <2>3. Cut(type, Ready.start, lx) /\ CutFollows(type, Ready.start, lx)
    BY <2>1, <2>2, CutTo
  <2> QED
    BY <1>1, <1>2, <1>3, <2>1, <2>3
<1>7. CASE r.start = Size
  <2>1. l.start = Size /\ Ready.start <= l.start /\ Ready.start = Size /\ type = "ILLEGAL"
    BY <1>1, <1>3, <1>5, <1>7
  <2>2. Cut(type, Ready.start, lx) /\ CutFollows(type, Ready.start, lx)
    BY <1>4, <2>1, CutOut
  <2>3. lx.start = Size + 1 /\ lx.in_content = c
    BY <1>3, <1>4, <2>1, ReadOut DEF Inv
  <2> QED
    BY <1>1, <1>2, <1>5, <1>7, <2>2, <2>3
<1> QED
  BY <1>2, <1>5, <1>6, <1>7

(* The same without a change between content and code.                     *)
LEMMA CutPlain ==
  ASSUME Inv, Tokenizing, NEW type \in Types \ {"EOF"}, type \notin PairTypes,
         Char = NUL => type = "ILLEGAL",
         NEW lx, lx = ReadChar(Ready)
  PROVE  /\ Cut(type, Ready.start, lx) /\ CutFollows(type, Ready.start, lx)
         /\ lx.start = Ready.end /\ lx.start - 1 = Ready.start
         /\ lx.in_content = lexer.in_content
<1>1. PICK l : l = [Ready EXCEPT !.in_content = lexer.in_content]
  OBVIOUS
<1>2. l = Ready /\ lexer.in_content \in BOOLEAN
  <2>1. PICK r : r = Ready
    OBVIOUS
  <2>2. r \in LexerStates /\ r.in_content = lexer.in_content
    BY <2>1, ReadyStands DEF Stands
  <2>3. [r EXCEPT !.in_content = r.in_content] = r /\ r.in_content \in BOOLEAN
    BY <2>2 DEF LexerStates
  <2> QED
    BY <1>1, <2>1, <2>2, <2>3
<1>3. lx = ReadChar(l)
  BY <1>2
<1>4. PICK c \in BOOLEAN : c = lexer.in_content
  BY <1>2
<1>5. l = [Ready EXCEPT !.in_content = c]
  BY <1>1, <1>4
<1> QED
  BY <1>3, <1>4, <1>5, CutOne

(* The symbols.                                                            *)
LEMMA AloneTypes ==
  ASSUME NEW c \in DOMAIN Alone
  PROVE  /\ Alone[c] \in Types
         /\ Alone[c] \notin PairTypes \cup {"EOF", "CONTENT", "LBRACE", "RBRACE", "STRING"}
         /\ Alone[c] = "PERCENT" <=> c = "%"
         /\ c \notin {"{", "}", "\"", NUL}
<1>1. Alone[c] \notin {"EQ", "NOTEQ", "LTE", "GTE", "EOF", "CONTENT", "LBRACE", "RBRACE", "STRING"}
  BY DEF Alone
<1>2. Alone[c] = "PERCENT" <=> c = "%"
  BY DEF Alone
<1>3. c \notin {"{", "}", "\"", NUL}
  BY DEF Alone, NUL
<1>4. Alone[c] \in Types
  BY DEF Types
<1> QED
  BY <1>1, <1>2, <1>3, <1>4 DEF PairTypes

LEMMA PairedTypes ==
  /\ {Paired[c] : c \in DOMAIN Paired} = PairTypes
  /\ \A c \in DOMAIN Paired : c \notin {"{", "}", "\"", NUL, "\n"}
BY DEF Paired, PairTypes, NUL

LEMMA ContentCuts ==
  ASSUME Inv, Content
  PROVE  Cuts
<1>1. PICK lx : lx = Skip(lexer, InContent)
  OBVIOUS
<1>2. PICK from \in Nat : from = lexer.start
  BY DEF Inv, Typed, LexerStates
<1>3. /\ Stands(lexer) /\ lexer.in_content /\ At(from) \in InContent
      /\ Return("CONTENT", from, lx.start, lx)
  BY <1>1, <1>2 DEF Content, Inv
<1>4. NUL \notin InContent
  BY Reading DEF Inv, Typed, InContent
<1>5. /\ Stands(lx) /\ lx.in_content = lexer.in_content /\ from <= lx.start
      /\ At(lx.start) \notin InContent
  BY <1>1, <1>2, <1>3, <1>4, SkipFollows DEF Inv
<1>6. /\ lx \in LexerStates /\ lx.start \in Nat /\ lx.start <= Size /\ lx.end = lx.start + 1
      /\ lx.line > 0 /\ lx.column > 0 /\ Size \in Nat
      /\ Follows(lx, Cardinality(PairsOn(lx.line)))
  BY <1>5, Reading DEF Stands, LexerStates, Inv, Typed
<1>7. from < lx.start
  BY <1>3, <1>5, <1>6
<1>8. At(lx.start) \in {"{", NUL}
  <2>1. /\ lx.start < Size => At(lx.start) \in Characters
        /\ lx.start >= Size => At(lx.start) = NUL
    BY <1>6, Reading DEF Inv, Typed
  <2>2. lx.start < Size \/ lx.start >= Size
    BY <1>6
  <2> QED
    BY <1>5, <2>1, <2>2 DEF InContent
<1>9. Cut("CONTENT", from, lx)
  BY <1>2, <1>6, <1>7 DEF Cut, Types
<1>10. CutInTurn("CONTENT", from, lx)
  BY <1>2, <1>3, <1>4, <1>5, <1>8 DEF CutInTurn
<1>11. CutFollows("CONTENT", from, lx)
  BY <1>6 DEF CutFollows, PairTypes
<1> QED
  BY <1>3, <1>6, <1>9, <1>10, <1>11 DEF Cuts, Types

LEMMA SymbolCuts ==
  ASSUME Inv, Symbol
  PROVE  Cuts
<1>1. PICK type, from, lx, c : type = Alone[Char] /\ from = Ready.start /\ lx = ReadChar(Ready)
                               /\ c = Char
  OBVIOUS
<1>2. /\ Tokenizing /\ c \in DOMAIN Alone
      /\ Return(type, from, Ready.end, lx)
  BY <1>1 DEF Symbol
<1>3. /\ type \in Types \ {"EOF"} /\ type \notin PairTypes
      /\ type \notin {"CONTENT", "LBRACE", "RBRACE"}
      /\ type = "PERCENT" <=> c = "%"
      /\ c \notin {"{", "}", NUL}
  BY <1>1, <1>2, AloneTypes
<1>4. /\ Cut(type, from, lx) /\ CutFollows(type, from, lx)
      /\ lx.start = Ready.end /\ lx.start - 1 = from /\ lx.in_content = lexer.in_content
  BY <1>1, <1>2, <1>3, CutPlain
<1>5. ~ lexer.in_content /\ At(lexer.start) # NUL
  BY <1>1, <1>2, <1>3, ReadyStands DEF Tokenizing
<1>6. At(lx.start - 1) = c
  BY <1>1, <1>4 DEF Char
<1>7. CutInTurn(type, from, lx)
  BY <1>3, <1>4, <1>5, <1>6 DEF CutInTurn
<1>8. from \in Nat /\ lx \in LexerStates /\ Return(type, from, lx.start, lx)
  BY <1>2, <1>4 DEF Cut
<1> QED
  BY <1>3, <1>4, <1>7, <1>8 DEF Cuts

LEMMA PairCuts ==
  ASSUME Inv, Pair
  PROVE  Cuts
<1>1. PICK type, r, m, lx, c :
        /\ type = Paired[Char] /\ r = Ready /\ m = [Ready EXCEPT !.end = @ + 1]
        /\ lx = ReadChar(m) /\ c = Char
  OBVIOUS
<1>2. PICK from \in Nat : from = r.start
  BY <1>1, ReadyStands DEF Pair
<1>3. /\ Tokenizing /\ c \in DOMAIN Paired /\ PeekNext(from) = "="
      /\ Return(type, from, r.end + 1, lx)
  BY <1>1, <1>2 DEF Pair, Two
<1>4. /\ Stands(r) /\ r.in_content = lexer.in_content /\ from <= Size /\ r.end = from + 1
      /\ lexer.start <= from /\ lexer.start \in Nat
      /\ \A p \in lexer.start .. from - 1 : At(p) \in Space
      /\ c = At(from)
  BY <1>1, <1>2, <1>3, ReadyStands DEF Char
<1>5. type \in PairTypes /\ c \notin {"{", "}", "\"", NUL, "\n"}
  BY <1>1, <1>3, PairedTypes
<1>6. type \in Types \ {"EOF"} /\ type \notin {"CONTENT", "LBRACE", "RBRACE", "PERCENT"}
  BY <1>5 DEF Types, PairTypes
<1>7. ~ lexer.in_content /\ At(lexer.start) # NUL
  BY <1>1, <1>3, <1>5, ReadyStands DEF Tokenizing
<1>8. Size \in Nat
  BY Reading DEF Inv, Typed
<1>9. PICK e \in Nat : e = from + 1 /\ At(e) = "=" /\ e < Size
  <2>1. from < Size /\ At(from + 1) = "="
    BY <1>3, <1>4, <1>8 DEF PeekNext, NUL
  <2>2. PICK e \in Nat : e = from + 1
    OBVIOUS
  <2>3. At(e) = "=" /\ "=" # NUL
    BY <2>1, <2>2 DEF NUL
  <2>4. e < Size
    BY <1>8, <2>3, Reading DEF Inv, Typed
  <2> QED
    BY <2>2, <2>3, <2>4
<1>10. PICK s \in Nat : s = from + 2 /\ s = e + 1 /\ s <= Size
  BY <1>8, <1>9
<1>11. /\ m \in LexerStates /\ m.start = from /\ m.end = s /\ m.in_content = r.in_content
       /\ m.line = r.line /\ m.column = r.column /\ r.line \in Nat /\ r.column \in Nat
       /\ r.line > 0 /\ r.column > 0
  <2>1. r \in LexerStates /\ r.end + 1 = s /\ m = [r EXCEPT !.end = r.end + 1]
    BY <1>1, <1>4, <1>10 DEF Stands
  <2>2. m = [r EXCEPT !.end = s]
    BY <2>1
  <2> QED
    BY <1>2, <1>4, <2>1, <2>2 DEF LexerStates, Stands
<1>12. PeekPrev(s) # "\n"
  <2>1. ~ (s <= 1) /\ s - 1 = e
    BY <1>9, <1>10
  <2> QED
    BY <1>9, <2>1 DEF PeekPrev
<1>13. /\ lx \in LexerStates /\ lx.start = s /\ lx.end = s + 1 /\ lx.in_content = r.in_content
       /\ lx.line = r.line /\ lx.column = r.column + 1
  <2>1. m.end <= Size /\ PeekPrev(m.end) # "\n"
    BY <1>10, <1>11, <1>12
  <2>2. /\ lx \in LexerStates /\ lx.start = m.end /\ lx.end = m.end + 1
        /\ lx.in_content = m.in_content /\ lx.line = m.line /\ lx.column = m.column + 1
    BY <1>1, <1>8, <1>11, <2>1, ReadTyped
  <2> QED
    BY <1>11, <2>2
<1>14. Cut(type, from, lx)
  BY <1>4, <1>6, <1>8, <1>10, <1>11, <1>13 DEF Cut
<1>15. CutInTurn(type, from, lx)
  <2>1. At(lx.start - 1) = "="
    <3>1. lx.start - 1 = e
      BY <1>10, <1>13
    <3> QED
      BY <1>9, <3>1
  <2> QED
    BY <1>4, <1>6, <1>7, <1>13, <2>1 DEF CutInTurn
<1>16. CutFollows(type, from, lx)
  <2>1. TrueLine(s) = TrueLine(from)
    <3>1. TrueLine(e) = TrueLine(from)
      BY <1>4, <1>5, <1>9, LineStep
    <3>2. TrueLine(s) = TrueLine(e)
      BY <1>9, <1>10, LineStep
    <3> QED
      BY <3>1, <3>2
  <2>2. PICK n \in Nat : n = Cardinality(PairsOn(r.line))
    BY PairsCounted DEF Inv, Typed
  <2>3. ASSUME At(0) # "\n"
        PROVE  /\ lx.line = TrueLine(s)
               /\ \E q \in -1 .. s - 1 : Breaks(q, s) /\ lx.column = s - q - (n + 1)
    <3>1. r.line = TrueLine(from)
      BY <1>2, <1>4, <2>3 DEF Stands, Follows
    <3>2. PICK q \in -1 .. from - 1 : Breaks(q, from) /\ r.column = from - q - n
      BY <1>2, <1>4, <2>2, <2>3 DEF Stands, Follows
    <3>3. Breaks(q, s)
      <4>1. Breaks(q, e)
        BY <1>4, <1>5, <1>9, <3>2, BreakStep
      <4> QED
        BY <1>9, <1>10, <4>1, BreakStep
    <3>4. q \in -1 .. s - 1 /\ (from - q - n) + 1 = s - q - (n + 1)
      BY <1>10
    <3> QED
      BY <1>13, <2>1, <3>1, <3>2, <3>3, <3>4
  <2>4. Follows(lx, n + 1)
    BY <1>13, <2>3 DEF Follows
  <2>5. TrueLine(lx.start) = TrueLine(from) /\ n = Cardinality(PairsOn(lx.line))
    BY <1>13, <2>1, <2>2
  <2> QED
    BY <1>5, <2>4, <2>5 DEF CutFollows
<1>17. lx.start = r.end + 1
  BY <1>4, <1>10, <1>13
<1> QED
  BY <1>3, <1>6, <1>13, <1>14, <1>15, <1>16, <1>17 DEF Cuts

LEMMA OpenBraceCuts ==
  ASSUME Inv, OpenBrace
  PROVE  Cuts
<1>1. PICK from, l, lx : /\ from = Ready.start /\ l = [Ready EXCEPT !.in_content = FALSE]
                         /\ lx = ReadChar(l)
  OBVIOUS
<1>2. Tokenizing /\ Char = "{" /\ Return("LBRACE", from, Ready.end, lx)
  BY <1>1 DEF OpenBrace
<1>3. "LBRACE" \in Types \ {"EOF"} /\ "LBRACE" \notin PairTypes /\ Char # NUL
  BY <1>2 DEF Types, PairTypes, NUL
<1>4. /\ Cut("LBRACE", from, lx) /\ CutFollows("LBRACE", from, lx)
      /\ lx.start = Ready.end /\ lx.start - 1 = from /\ lx.in_content = FALSE
  BY <1>1, <1>2, <1>3, CutOne
<1>5. lexer.in_content => from = lexer.start
  BY <1>1, <1>2, ReadyStands
<1>6. At(lx.start - 1) = "{" /\ At(lexer.start) # NUL
  BY <1>1, <1>2, <1>4 DEF Char, Tokenizing
<1>7. CutInTurn("LBRACE", from, lx)
  BY <1>4, <1>5, <1>6 DEF CutInTurn
<1>8. from \in Nat /\ lx \in LexerStates
  BY <1>4 DEF Cut
<1> QED
  BY <1>2, <1>3, <1>4, <1>7, <1>8 DEF Cuts

LEMMA CloseBraceCuts ==
  ASSUME Inv, CloseBrace
  PROVE  Cuts
<1>1. PICK from : from = Ready.start
  OBVIOUS
<1>2. Tokenizing /\ Char = "}"
  BY DEF CloseBrace
<1>3. ~ lexer.in_content /\ Ready.in_content = lexer.in_content
  BY <1>2, ReadyStands
<1>4. PICK c \in BOOLEAN : c <=> PeekPrev(from) \in {"}", "%"}
  OBVIOUS
<1>5. (Ready.in_content \/ Closes(Ready)) = c
  BY <1>1, <1>3, <1>4 DEF Closes
<1>6. PICK l, lx : l = [Ready EXCEPT !.in_content = c] /\ lx = ReadChar(l)
  OBVIOUS
<1>7. Return("RBRACE", from, Ready.end, lx)
  BY <1>1, <1>5, <1>6 DEF CloseBrace
<1>8. "RBRACE" \in Types \ {"EOF"} /\ "RBRACE" \notin PairTypes /\ Char # NUL
  BY <1>2 DEF Types, PairTypes, NUL
<1>9. /\ Cut("RBRACE", from, lx) /\ CutFollows("RBRACE", from, lx)
      /\ lx.start = Ready.end /\ lx.start - 1 = from /\ lx.in_content = c
  BY <1>1, <1>2, <1>6, <1>8, CutOne
<1>10. At(from) = "}" /\ At(lx.start - 1) = "}" /\ At(lexer.start) # NUL
  BY <1>1, <1>2, <1>9 DEF Char, Tokenizing
<1>11. CutInTurn("RBRACE", from, lx)
  BY <1>3, <1>4, <1>9, <1>10 DEF CutInTurn
<1>12. from \in Nat /\ lx \in LexerStates
  BY <1>9 DEF Cut
<1> QED
  BY <1>7, <1>8, <1>9, <1>11, <1>12 DEF Cuts

LEMMA IllegalCuts ==
  ASSUME Inv, Illegal
  PROVE  Cuts
<1>1. PICK from, lx : from = Ready.start /\ lx = ReadChar(Ready)
  OBVIOUS
<1>2. Tokenizing /\ Char \notin {"{", "}", "%"} /\ Return("ILLEGAL", from, Ready.end, lx)
  <2>1. "%" \in DOMAIN Alone
    BY DEF Alone
  <2> QED
    BY <1>1, <2>1 DEF Illegal
<1>3. "ILLEGAL" \in Types \ {"EOF"} /\ "ILLEGAL" \notin PairTypes
  BY DEF Types, PairTypes
<1>4. /\ Cut("ILLEGAL", from, lx) /\ CutFollows("ILLEGAL", from, lx)
      /\ lx.start = Ready.end /\ lx.start - 1 = from /\ lx.in_content = lexer.in_content
  BY <1>1, <1>2, <1>3, CutPlain
<1>5. ~ lexer.in_content /\ At(lexer.start) # NUL
  BY <1>2, ReadyStands DEF Tokenizing
<1>6. At(lx.start - 1) \notin {"}", "%"}
  BY <1>1, <1>2, <1>4 DEF Char
<1>7. CutInTurn("ILLEGAL", from, lx)
  BY <1>4, <1>5, <1>6 DEF CutInTurn
<1>8. from \in Nat /\ lx \in LexerStates
  BY <1>4 DEF Cut
<1> QED
  BY <1>2, <1>3, <1>4, <1>7, <1>8 DEF Cuts

(* A run of letters and digits.                                            *)
LEMMA RunCuts ==
  ASSUME Inv, Tokenizing, NEW type \in Types, NEW run,
         type \notin PairTypes \cup {"EOF", "CONTENT", "LBRACE", "RBRACE", "PERCENT"},
         run \subseteq InWord, Char \in run,
         NEW lx, lx = Skip(Ready, run), Return(type, Ready.start, lx.start, lx)
  PROVE  Cuts
<1>1. PICK r, from : r = Ready /\ from = r.start
  OBVIOUS
<1>2. run \cap {"{", "}", "%", NUL} = {}
  BY LexerAssumption DEF InWord
<1>3. /\ Stands(r) /\ r.in_content = lexer.in_content /\ from \in Nat
      /\ ~ lexer.in_content /\ At(lexer.start) # NUL
  BY <1>1, <1>2, ReadyStands DEF Tokenizing
<1>4. /\ Stands(lx) /\ lx.in_content = r.in_content /\ from <= lx.start
      /\ \A p \in from .. lx.start - 1 : At(p) \in run
      /\ At(lx.start) \notin run
  <2>1. NUL \notin run /\ Typed /\ EveryCharOnce /\ lx = Skip(r, run)
    BY <1>1, <1>2 DEF Inv
  <2> QED
    BY <1>1, <1>3, <2>1, SkipFollows
<1>5. lx \in LexerStates /\ lx.start \in Nat
  BY <1>4 DEF Stands, LexerStates
<1>6. from < lx.start
  <2>1. At(from) \in run
    BY <1>1 DEF Char
  <2> QED
    BY <1>3, <1>4, <1>5, <2>1
<1>7. At(lx.start - 1) \notin {"}", "%"}
  <2>1. lx.start - 1 \in from .. lx.start - 1
    BY <1>3, <1>5, <1>6
  <2> QED
    BY <1>2, <1>4, <2>1
<1>8. Cut(type, from, lx) /\ CutFollows(type, from, lx)
  <2>1. Ready.start < lx.start /\ type \in Types \ {"EOF"} /\ type \notin PairTypes
    BY <1>1, <1>6
  <2> QED
    BY <1>1, <1>4, <2>1, CutTo
<1>9. CutInTurn(type, from, lx)
  BY <1>3, <1>4, <1>7 DEF CutInTurn
<1>10. Return(type, from, lx.start, lx)
  BY <1>1
<1> QED
  BY <1>3, <1>5, <1>8, <1>9, <1>10 DEF Cuts

LEMMA WordCuts ==
  ASSUME Inv, Word
  PROVE  Cuts
<1>1. PICK lx : lx = Skip(Ready, InWord)
  OBVIOUS
<1>2. PICK type : type = LookupIdent(SubSeq(text, Ready.start + 1, lx.start))
  OBVIOUS
<1>3. Tokenizing /\ Char \in InWord /\ Return(type, Ready.start, lx.start, lx)
  BY <1>1, <1>2 DEF Word, InWord
<1>4. type = "IDENT" \/ \E w \in DOMAIN Keywords : type = Keywords[w]
  BY <1>2 DEF LookupIdent
<1>5. type \in Types
  BY <1>4 DEF Types
<1>6. type \notin PairTypes \cup {"EOF", "CONTENT", "LBRACE", "RBRACE", "PERCENT"}
  BY <1>4, LexerAssumption DEF PairTypes
<1> QED
  BY <1>1, <1>3, <1>5, <1>6, RunCuts

LEMMA NumberCuts ==
  ASSUME Inv, Number
  PROVE  Cuts
<1>1. PICK lx : lx = Skip(Ready, Digit)
  OBVIOUS
<1>2. Tokenizing /\ Char \in Digit /\ Return("INT", Ready.start, lx.start, lx)
  BY <1>1 DEF Number
<1>3. Digit \subseteq InWord
  BY DEF InWord
<1>4. /\ "INT" \in Types
      /\ "INT" \notin PairTypes \cup {"EOF", "CONTENT", "LBRACE", "RBRACE", "PERCENT"}
  BY DEF Types, PairTypes
<1> QED
  BY <1>1, <1>2, <1>3, <1>4, RunCuts

(* A string ends behind its closing quote, or behind the '\0'.             *)
LEMMA StringCuts ==
  ASSUME Inv, String
  PROVE  Cuts
<1>1. PICK r, l, m, lx : /\ r = Ready /\ l = ReadChar(r) /\ m = Skip(l, InString)
                         /\ lx = ReadChar(m)
  OBVIOUS
<1>2. PICK from : from = r.start
  OBVIOUS
<1>3. Tokenizing /\ Char = "\"" /\ Return("STRING", from, lx.start, lx)
  BY <1>1, <1>2 DEF String
<1>4. Char # NUL /\ Char # "{"
  BY <1>3 DEF NUL
<1>5. /\ Stands(r) /\ r.in_content = lexer.in_content /\ from \in Nat /\ from < Size
      /\ ~ lexer.in_content /\ At(lexer.start) # NUL /\ Size \in Nat
  <2>1. /\ Stands(r) /\ r.in_content = lexer.in_content /\ from \in Nat /\ from <= Size
        /\ from # Size /\ ~ lexer.in_content
    BY <1>1, <1>2, <1>3, <1>4, ReadyStands
  <2>2. Size \in Nat
    BY Reading DEF Inv, Typed
  <2>3. from < Size
    BY <2>1, <2>2
  <2>4. At(lexer.start) # NUL
    BY <1>3 DEF Tokenizing
  <2> QED
    BY <2>1, <2>2, <2>3, <2>4
<1>6. Stands(l) /\ l.start = from + 1 /\ l.in_content = r.in_content
  BY <1>1, <1>2, <1>5, ReadFollows DEF Inv
<1>7. NUL \notin InString
  BY Reading DEF Inv, Typed, InString
<1>8. /\ Stands(m) /\ m.in_content = l.in_content /\ l.start <= m.start
      /\ At(m.start) \notin InString
  BY <1>1, <1>6, <1>7, SkipFollows DEF Inv
<1>9. PICK p \in Nat : p = m.start /\ from < p /\ p <= Size
  BY <1>5, <1>6, <1>8 DEF Stands, LexerStates
<1>10. At(p) \notin {"}", "%"}
  <2>1. p < Size => At(p) \in Characters
    BY <1>9, Reading DEF Inv, Typed
  <2>2. p >= Size => At(p) = NUL
    BY <1>9, Reading DEF Inv, Typed
  <2>3. p < Size \/ p >= Size
    BY <1>5, <1>9
  <2>4. At(p) = "\"" \/ At(p) = NUL
    BY <1>8, <1>9, <2>1, <2>2, <2>3 DEF InString
  <2> QED
    BY <2>4 DEF NUL
<1>11. /\ "STRING" \in Types \ {"EOF"} /\ "STRING" \in Types /\ "STRING" \notin PairTypes
  BY DEF Types, PairTypes
<1>12. /\ Cut("STRING", from, lx) /\ CutFollows("STRING", from, lx)
       /\ lx.start = p + 1 /\ lx.in_content = lexer.in_content
  <2>1. CASE p < Size
    <3>1. Stands(lx) /\ lx.start = m.start + 1 /\ lx.in_content = m.in_content
      <4>1. m.start < Size
        BY <1>9, <2>1
      <4> QED
        BY <1>1, <1>8, <4>1, ReadFollows DEF Inv
    <3>2. Ready.start < lx.start
      BY <1>1, <1>2, <1>5, <1>9, <3>1
    <3>3. Cut("STRING", Ready.start, lx) /\ CutFollows("STRING", Ready.start, lx)
      BY <1>3, <1>11, <3>1, <3>2, CutTo
    <3> QED
      BY <1>1, <1>2, <1>5, <1>6, <1>8, <1>9, <3>1, <3>3
  <2>2. CASE p = Size
    <3>1. m.start = Size /\ Ready.start <= m.start
      BY <1>1, <1>2, <1>5, <1>9, <2>2
    <3>2. Cut("STRING", Ready.start, lx) /\ CutFollows("STRING", Ready.start, lx)
      BY <1>1, <1>3, <1>8, <1>11, <3>1, CutOut
    <3>3. lx.start = Size + 1 /\ lx.in_content = m.in_content
      BY <1>1, <1>8, <3>1, ReadOut DEF Inv
    <3> QED
      BY <1>1, <1>2, <1>5, <1>6, <1>8, <2>2, <3>2, <3>3
  <2> QED
    BY <1>5, <1>9, <2>1, <2>2
<1>13. At(lx.start - 1) \notin {"}", "%"}
  <2>1. lx.start - 1 = p
    BY <1>9, <1>12
  <2> QED
    BY <1>10, <2>1
<1>14. CutInTurn("STRING", from, lx)
  BY <1>5, <1>12, <1>13 DEF CutInTurn
<1>15. lx \in LexerStates
  BY <1>12 DEF Cut
<1> QED
  BY <1>3, <1>5, <1>11, <1>12, <1>14, <1>15 DEF Cuts

LEMMA NextCuts ==
  ASSUME Inv, NextToken
  PROVE  Eof \/ Cuts
BY ContentCuts, SymbolCuts, PairCuts, OpenBraceCuts, CloseBraceCuts, StringCuts, WordCuts,
   NumberCuts, IllegalCuts DEF NextToken

-----------------------------------------------------------------------------
(* One more token: the text and what is said of it stay, the tokens before *)
(* stay, and the last is this one.                                         *)
LEMMA TextStays ==
  ASSUME text' = text
  PROVE  /\ Size' = Size
         /\ \A p : At(p)' = At(p) /\ PeekPrev(p)' = PeekPrev(p)
         /\ \A p : TrueLine(p)' = TrueLine(p)
         /\ \A q, p : Breaks(q, p)' <=> Breaks(q, p)
         /\ \A l, m : Follows(l, m)' <=> Follows(l, m)
<1>1. Size' = Size
  BY DEF Size
<1>2. \A p : At(p)' = At(p)
  BY <1>1 DEF At
<1>3. \A p : PeekPrev(p)' = PeekPrev(p)
  BY <1>2 DEF PeekPrev
<1>4. \A p : TrueLine(p)' = TrueLine(p)
  BY <1>2 DEF TrueLine
<1>5. \A q, p : Breaks(q, p)' <=> Breaks(q, p)
  BY <1>2 DEF Breaks
<1>6. \A l, m : Follows(l, m)' <=> Follows(l, m)
  BY <1>2, <1>4, <1>5 DEF Follows
<1> QED
  BY <1>1, <1>2, <1>3, <1>4, <1>5, <1>6

LEMMA OneMore ==
  ASSUME tokens \in Seq(Tokens), NEW t \in Tokens, tokens' = Append(tokens, t)
  PROVE  LET n == Len(tokens)
         IN  /\ n \in Nat /\ DOMAIN tokens = 1 .. n
             /\ tokens' \in Seq(Tokens) /\ Len(tokens') = n + 1 /\ DOMAIN tokens' = 1 .. n + 1
             /\ tokens' # << >>
             /\ tokens'[n + 1] = t /\ \A k \in 1 .. n : tokens'[k] = tokens[k]
             /\ Returned' = IF t.type = "EOF" THEN Returned ELSE Returned \cup {n + 1}
             /\ Returned \subseteq 1 .. n
<1>1. PICK n \in Nat : n = Len(tokens)
  OBVIOUS
<1>2. /\ DOMAIN tokens = 1 .. n
      /\ tokens' \in Seq(Tokens) /\ Len(tokens') = n + 1 /\ DOMAIN tokens' = 1 .. n + 1
      /\ tokens'[n + 1] = t /\ \A k \in 1 .. n : tokens'[k] = tokens[k]
  BY <1>1, AppendProperties
<1>3. tokens' # << >>
  BY <1>1, <1>2
<1>4. Returned' = IF t.type = "EOF" THEN Returned ELSE Returned \cup {n + 1}
  BY <1>2 DEF Returned
<1>5. Returned \subseteq 1 .. n
  BY <1>2 DEF Returned
<1> QED
  BY <1>1, <1>2, <1>3, <1>4, <1>5

(* What is said of the tokens before stays true of them.                   *)
LEMMA ClosedByStays ==
  ASSUME tokens \in Seq(Tokens), NEW t \in Tokens, tokens' = Append(tokens, t),
         NEW k \in 1 .. Len(tokens)
  PROVE  ClosedBy(k)' <=> ClosedBy(k)
<1>1. tokens'[k] = tokens[k]
  BY OneMore
<1>2. k > 1 => tokens'[k - 1] = tokens[k - 1]
  BY OneMore
<1> QED
  BY <1>1, <1>2 DEF ClosedBy

LEMMA InTurnStays ==
  ASSUME tokens \in Seq(Tokens), NEW t \in Tokens, tokens' = Append(tokens, t),
         ContentBetweenTags, NEW k \in Returned
  PROVE  (IF k = 1 \/ ClosedBy(k - 1)
          THEN /\ tokens[k].start = (IF k = 1 THEN 0 ELSE tokens[k - 1].end)
               /\ tokens[k].type \in {"CONTENT", "LBRACE"}
          ELSE \/ tokens[k].type # "CONTENT"
               \/ tokens[k - 1].type = "CONTENT")'
<1>1. k \in 1 .. Len(tokens) /\ Len(tokens) \in Nat
  BY OneMore
<1>2. tokens'[k] = tokens[k]
  BY <1>1, OneMore
<1>3. CASE k = 1
  BY <1>2, <1>3 DEF ContentBetweenTags
<1>4. CASE k # 1
  <2>1. k - 1 \in 1 .. Len(tokens)
    BY <1>1, <1>4
  <2>2. tokens'[k - 1] = tokens[k - 1] /\ (ClosedBy(k - 1)' <=> ClosedBy(k - 1))
    <3>1. PICK j \in 1 .. Len(tokens) : j = k - 1
      BY <2>1
    <3>2. tokens'[j] = tokens[j] /\ (ClosedBy(j)' <=> ClosedBy(j))
      BY OneMore, ClosedByStays
    <3> QED
      BY <3>1, <3>2
  <2> QED
    BY <1>2, <1>4, <2>2 DEF ContentBetweenTags
<1> QED
  BY <1>3, <1>4

(* The symbols of two characters are one more, or the same.                *)
LEMMA PairsMore ==
  ASSUME tokens \in Seq(Tokens), NEW t \in Tokens, tokens' = Append(tokens, t), text' = text,
         NEW m
  PROVE  Cardinality(PairsOn(m))' =
           IF t.type \in PairTypes /\ TrueLine(t.start) = m
           THEN Cardinality(PairsOn(m)) + 1 ELSE Cardinality(PairsOn(m))
<1>1. PICK n \in Nat : n = Len(tokens)
  OBVIOUS
<1>2. /\ tokens'[n + 1] = t /\ \A k \in 1 .. n : tokens'[k] = tokens[k]
      /\ Returned' = IF t.type = "EOF" THEN Returned ELSE Returned \cup {n + 1}
      /\ Returned \subseteq 1 .. n
  BY <1>1, OneMore
<1>3. \A p : TrueLine(p)' = TrueLine(p)
  BY TextStays
<1>4. \A k \in Returned : tokens'[k] = tokens[k]
  BY <1>2
<1>5. n + 1 \notin PairsOn(m) /\ n + 1 \notin Returned
  BY <1>2 DEF PairsOn
<1>6. "EOF" \notin PairTypes
  BY DEF PairTypes
<1>7. CASE t.type \in PairTypes /\ TrueLine(t.start) = m
  <2>1. PairsOn(m)' = PairsOn(m) \cup {n + 1}
    BY <1>2, <1>3, <1>4, <1>6, <1>7 DEF PairsOn
  <2>2. PICK S, T : S = PairsOn(m) /\ T = PairsOn(m)'
    OBVIOUS
  <2>3. IsFiniteSet(S) /\ n + 1 \notin S /\ T = S \cup {n + 1}
    BY <1>5, <2>1, <2>2, PairsCounted
  <2>4. Cardinality(T) = Cardinality(S) + 1
    BY <2>3, FS_AddElement
  <2> QED
    BY <1>7, <2>2, <2>4
<1>8. CASE ~ (t.type \in PairTypes /\ TrueLine(t.start) = m)
  <2>1. PairsOn(m)' = PairsOn(m)
    BY <1>2, <1>3, <1>4, <1>8 DEF PairsOn
  <2> QED
    BY <1>8, <2>1
<1> QED
  BY <1>7, <1>8

-----------------------------------------------------------------------------
(* A cut keeps the invariant: one lemma for each of its parts.             *)
TheCut(type, from, lx, t) ==
  /\ t = [type |-> type, start |-> from, end |-> lx.start,
          line |-> lexer.line, column |-> lexer.column]
  /\ text' = text /\ lexer' = lx /\ tokens' = Append(tokens, t)
  /\ Cut(type, from, lx) /\ CutInTurn(type, from, lx) /\ CutFollows(type, from, lx)

LEMMA CutTyped ==
  ASSUME Inv, NEW type, NEW from, NEW lx, NEW t, TheCut(type, from, lx, t)
  PROVE  /\ t \in Tokens /\ t.type = type /\ t.start = from /\ t.end = lx.start
         /\ lexer.start \in Nat /\ from \in Nat /\ lx.start \in Nat /\ Size \in Nat
         /\ Inside' <=> lx.start <= Size
         /\ Typed'
<1>1. /\ text \in Texts /\ tokens \in Seq(Tokens) /\ lexer.start \in Nat
      /\ lexer.line \in Nat /\ lexer.column \in Nat /\ Size \in Nat
  BY Reading DEF Inv, Typed, LexerStates
<1>2. /\ type \in Types /\ from \in Nat /\ lx \in LexerStates /\ lx.line > 0 /\ lx.column > 0
      /\ lx.start <= Size + 1 /\ lx.end = IF lx.start <= Size THEN lx.start + 1 ELSE 0
  BY DEF TheCut, Cut
<1>3. lx.start \in Nat
  BY <1>2 DEF LexerStates
<1>4. t \in Tokens /\ t.type = type /\ t.start = from /\ t.end = lx.start
  BY <1>1, <1>2, <1>3 DEF TheCut, Tokens
<1>5. text' = text /\ lexer' = lx /\ tokens' = Append(tokens, t)
  BY DEF TheCut
<1>6. tokens' \in Seq(Tokens)
  BY <1>1, <1>4, <1>5
<1>7. Size' = Size
  BY <1>5, TextStays
<1>8. Inside' <=> lx.start <= Size
  BY <1>5, <1>7 DEF Inside
<1>9. Typed'
  BY <1>1, <1>2, <1>5, <1>6, <1>7, <1>8 DEF Typed
<1> QED
  BY <1>1, <1>2, <1>3, <1>4, <1>8, <1>9

LEMMA CutOnce ==
  ASSUME Inv, NEW type, NEW from, NEW lx, NEW t, TheCut(type, from, lx, t)
  PROVE  EveryCharOnce' /\ Returned' = Returned \cup {Len(tokens) + 1}
<1>1. /\ t \in Tokens /\ t.type = type /\ t.start = from /\ t.end = lx.start
      /\ lexer.start \in Nat /\ from \in Nat /\ lx.start \in Nat /\ Size \in Nat
      /\ Inside' <=> lx.start <= Size
      /\ Typed'
  BY CutTyped
<1>2. text' = text /\ lexer' = lx /\ tokens' = Append(tokens, t) /\ tokens \in Seq(Tokens)
  BY DEF TheCut, Inv, Typed
<1>3. /\ type # "EOF" /\ lexer.start <= from /\ from < lx.start /\ lx.start <= Size + 1
      /\ \A p \in lexer.start .. from - 1 : At(p) \in Space
      /\ lx.start = Size + 1 => type = "STRING" \/ (type = "ILLEGAL" /\ from = Size)
  BY DEF TheCut, Cut
<1>4. PICK n \in Nat : n = Len(tokens)
  BY <1>2
<1>5. /\ tokens' \in Seq(Tokens) /\ Len(tokens') = n + 1 /\ DOMAIN tokens' = 1 .. n + 1
      /\ tokens' # << >> /\ DOMAIN tokens = 1 .. n
      /\ tokens'[n + 1] = t /\ \A k \in 1 .. n : tokens'[k] = tokens[k]
      /\ Returned' = Returned \cup {n + 1} /\ Returned \subseteq 1 .. n
  BY <1>1, <1>2, <1>3, <1>4, OneMore
<1>6. Size' = Size /\ \A p : At(p)' = At(p)
  BY <1>2, TextStays
<1>7. \A k \in Returned : tokens'[k] = tokens[k] /\ k # n + 1 /\ k < n + 1
  BY <1>5
<1>8. \A k \in Returned : /\ tokens[k].start \in Nat /\ tokens[k].end \in Nat
                          /\ tokens[k].start < tokens[k].end /\ tokens[k].end <= lexer.start
  BY DEF Inv, EveryCharOnce, TypeOK, Returned
<1>9. TypeOK'
  <2>1. /\ lx \in LexerStates /\ lx.line > 0 /\ lx.column > 0
        /\ lx.end = IF lx.start <= Size THEN lx.start + 1 ELSE 0
    BY DEF TheCut, Cut
  <2>2. lx.start \in 0 .. Size + 1 /\ lx.end \in 0 .. Size + 1
    BY <1>1, <1>3, <2>1
  <2>3. lx.in_content \in BOOLEAN /\ lx.line \in Nat \ {0} /\ lx.column \in Nat \ {0}
    BY <2>1 DEF LexerStates
  <2>4. \A k \in 1 .. n + 1 : tokens'[k].start \in Nat /\ tokens'[k].end \in Nat
    <3>1. \A k \in 1 .. n + 1 : tokens'[k] \in Tokens
      BY <1>5
    <3> QED
      BY <3>1 DEF Tokens
  <2> QED
    BY <1>2, <1>5, <1>6, <2>2, <2>3, <2>4 DEF TypeOK
<1>10. \A j, k \in Returned' : j < k => tokens'[j].end <= tokens'[k].start
  <2> SUFFICES ASSUME NEW j \in Returned \cup {n + 1}, NEW k \in Returned \cup {n + 1}, j < k
               PROVE  tokens'[j].end <= tokens'[k].start
    BY <1>5
  <2>1. j \in Returned
    <3>1. \A i \in Returned \cup {n + 1} : i \in 1 .. n + 1
      BY <1>5
    <3> QED
      BY <3>1
  <2>2. CASE k \in Returned
    BY <1>7, <2>1, <2>2 DEF Inv, EveryCharOnce
  <2>3. CASE k = n + 1
    <3>1. tokens'[j].end <= lexer.start /\ tokens'[j].end \in Nat
      BY <1>7, <1>8, <2>1
    <3>2. tokens'[k].start = from
      BY <1>1, <1>5, <2>3
    <3> QED
      BY <1>1, <1>3, <3>1, <3>2
  <2> QED
    BY <2>2, <2>3
<1>11. ASSUME NEW p \in 0 .. Size - 1, p < lx.start
       PROVE  \/ At(p) \in Space
              \/ \E k \in Returned' : p \in tokens'[k].start .. tokens'[k].end - 1
  <2>1. CASE p < lexer.start
    <3>1. CASE At(p) \in Space
      BY <3>1
    <3>2. CASE \E k \in Returned : p \in tokens[k].start .. tokens[k].end - 1
      BY <1>5, <1>7, <3>2
    <3> QED
      BY <2>1, <3>1, <3>2 DEF Inv, EveryCharOnce
  <2>2. CASE p \in lexer.start .. from - 1
    BY <1>3, <2>2
  <2>3. CASE p \in from .. lx.start - 1
    BY <1>1, <1>5, <2>3
  <2> QED
    BY <1>1, <1>11, <2>1, <2>2, <2>3
<1>12. \A k \in Returned' : tokens'[k].start < tokens'[k].end /\ tokens'[k].end <= lx.start
  <2> SUFFICES ASSUME NEW k \in Returned \cup {n + 1}
               PROVE  tokens'[k].start < tokens'[k].end /\ tokens'[k].end <= lx.start
    BY <1>5
  <2>1. CASE k \in Returned
    BY <1>1, <1>3, <1>7, <1>8, <2>1
  <2>2. CASE k = n + 1
    BY <1>1, <1>3, <1>5, <2>2
  <2> QED
    BY <2>1, <2>2
<1>13. Inside' \/ Strayed'
  <2>1. CASE lx.start <= Size
    BY <1>1, <2>1
  <2>2. CASE lx.start = Size + 1
    <3>1. tokens'[Len(tokens')] = t
      BY <1>5
    <3>2. \/ t.type = "STRING" /\ t.end = Size' + 1
          \/ t.type = "ILLEGAL" /\ t.start = Size'
      BY <1>1, <1>3, <1>6, <2>2
    <3> QED
      BY <1>5, <3>1, <3>2 DEF Strayed
  <2> QED
    BY <1>1, <1>3, <2>1, <2>2
<1>14. EveryCharOnce'
  BY <1>2, <1>6, <1>9, <1>10, <1>11, <1>12, <1>13 DEF EveryCharOnce
<1> QED
  BY <1>4, <1>5, <1>14

LEMMA CutStands ==
  ASSUME Inv, NEW type, NEW from, NEW lx, NEW t, TheCut(type, from, lx, t)
  PROVE  Inside' => Stands(lexer)'
<1> SUFFICES ASSUME Inside' PROVE Stands(lexer)'
  OBVIOUS
<1>1. /\ t \in Tokens /\ t.type = type /\ t.start = from
      /\ from \in Nat /\ lx.start \in Nat /\ lx.start <= Size
  BY CutTyped
<1>2. text' = text /\ lexer' = lx /\ tokens' = Append(tokens, t) /\ tokens \in Seq(Tokens)
  BY DEF TheCut, Inv, Typed
<1>3. lx \in LexerStates /\ lx.line > 0 /\ lx.column > 0 /\ lx.end = lx.start + 1
  BY <1>1 DEF TheCut, Cut
<1>4. Size' = Size /\ \A l, m : Follows(l, m)' <=> Follows(l, m)
  BY <1>2, TextStays
<1>5. PICK m, n, v : m = Cardinality(PairsOn(lx.line)) /\ n = Cardinality(PairsOn(lx.line))'
                     /\ v = lx.line
  OBVIOUS
<1>6. n = IF type \in PairTypes /\ TrueLine(from) = v THEN m + 1 ELSE m
  BY <1>1, <1>2, <1>5, PairsMore
<1>7. Follows(lx, n)
  <2>1. CASE type \in PairTypes
    <3>1. Follows(lx, m + 1) /\ TrueLine(lx.start) = TrueLine(from)
      BY <1>1, <1>5, <2>1 DEF TheCut, CutFollows
    <3> SUFFICES ASSUME At(0) # "\n" PROVE Follows(lx, n)
      BY DEF Follows
    <3>2. v = TrueLine(from)
      BY <1>5, <3>1 DEF Follows
    <3> QED
      BY <1>6, <2>1, <3>1, <3>2
  <2>2. CASE type \notin PairTypes
    BY <1>1, <1>5, <1>6, <2>2 DEF TheCut, CutFollows
  <2> QED
    BY <2>1, <2>2
<1>8. Follows(lx, n)'
  BY <1>4, <1>7
<1> QED
  BY <1>1, <1>2, <1>3, <1>4, <1>5, <1>8 DEF Stands

(* A brace closes a tag if the token before it does so and is its          *)
(* neighbour: PeekPrev misses no such token, though it misses the first    *)
(* character of the text.                                                  *)
LEMMA ClosesBehindTag ==
  ASSUME Inv, ~ Ended, NEW from, NEW lx, Cut("RBRACE", from, lx), CutInTurn("RBRACE", from, lx)
  PROVE  /\ tokens # << >> /\ ~ lexer.in_content
         /\ PeekPrev(from) \in {"}", "%"} <=>
              LET last == tokens[Len(tokens)]
              IN  last.type \in {"RBRACE", "PERCENT"} /\ last.end = from
<1>1. ~ lexer.in_content /\ At(from) = "}"
  BY DEF CutInTurn
<1>2. tokens # << >> /\ InTurn
  BY <1>1 DEF Inv, InTurn
<1>3. PICK last : last = tokens[Len(tokens)]
  OBVIOUS
<1>4. /\ last.end = lexer.start /\ last.start < last.end
      /\ last.start = 0 => last.type \in {"CONTENT", "LBRACE"}
      /\ last.type = "CONTENT" => At(lexer.start) \in {"{", NUL}
      /\ last.type # "CONTENT" =>
           (last.type \in {"RBRACE", "PERCENT"} <=> At(lexer.start - 1) \in {"}", "%"})
  BY <1>2, <1>3 DEF InTurn
<1>5. last.start \in Nat /\ lexer.start \in Nat /\ from \in Nat /\ lexer.start <= from
  <2>1. tokens \in Seq(Tokens) /\ lexer \in LexerStates
    BY DEF Inv, Typed
  <2>2. last \in Tokens
    <3>1. Len(tokens) \in 1 .. Len(tokens)
      BY <1>2, <2>1
    <3> QED
      BY <1>3, <2>1, <3>1
  <2> QED
    BY <2>1, <2>2 DEF Tokens, LexerStates, Cut
<1>6. PICK a \in Nat, s \in Nat : a = last.start /\ s = lexer.start /\ a < s /\ s <= from
  BY <1>4, <1>5
<1>7. from \in Nat
  BY <1>5
<1>8. CASE from = s
  <2>1. last.type # "CONTENT"
    BY <1>1, <1>4, <1>6, <1>8 DEF NUL
  <2>2. CASE from = 1
    <3>1. PeekPrev(from) = NUL
      BY <2>2 DEF PeekPrev
    <3>2. a = 0
      BY <1>6, <1>8, <2>2
    <3> QED
      BY <1>1, <1>2, <1>3, <1>4, <1>6, <3>1, <3>2 DEF NUL
  <2>3. CASE from > 1
    <3>1. PeekPrev(from) = At(from - 1)
      BY <1>7, <2>3 DEF PeekPrev
    <3>2. last.end = from /\ At(lexer.start - 1) = At(from - 1)
      BY <1>4, <1>6, <1>8
    <3> QED
      BY <1>1, <1>2, <1>3, <1>4, <2>1, <3>1, <3>2
  <2>4. from = 1 \/ from > 1
    BY <1>6, <1>7, <1>8
  <2> QED
    BY <2>2, <2>3, <2>4
<1>9. CASE s < from
  <2>1. from - 1 \in s .. from - 1 /\ from > 1
    BY <1>6, <1>7, <1>9
  <2>2. PeekPrev(from) = At(from - 1) /\ At(from - 1) \in Space
    BY <1>6, <1>7, <2>1 DEF PeekPrev, Cut
  <2>3. PeekPrev(from) \notin {"}", "%"}
    BY <2>2 DEF VT, Space
  <2>4. s # from
    BY <1>6, <1>7, <1>9
  <2>5. last.end # from
    BY <1>4, <1>6, <2>4
  <2> QED
    BY <1>1, <1>2, <1>3, <2>3, <2>5
<1>10. from = s \/ s < from
  BY <1>6, <1>7
<1> QED
  BY <1>8, <1>9, <1>10

LEMMA CutTurns ==
  ASSUME Inv, NEW type, NEW from, NEW lx, NEW t, TheCut(type, from, lx, t)
  PROVE  ~ Ended' /\ InTurn' /\ ContentBetweenTags'
<1>1. /\ t \in Tokens /\ t.type = type /\ t.start = from /\ t.end = lx.start
      /\ lexer.start \in Nat /\ from \in Nat /\ lx.start \in Nat
  BY CutTyped
<1>2. text' = text /\ lexer' = lx /\ tokens' = Append(tokens, t) /\ tokens \in Seq(Tokens)
  BY DEF TheCut, Inv, Typed
<1>3. Cut(type, from, lx) /\ CutInTurn(type, from, lx)
  BY DEF TheCut
<1>4. ~ Ended /\ InTurn
  BY <1>3 DEF CutInTurn, Inv
<1>5. PICK n \in Nat : n = Len(tokens)
  BY <1>2
<1>6. /\ Len(tokens') = n + 1 /\ DOMAIN tokens' = 1 .. n + 1 /\ DOMAIN tokens = 1 .. n
      /\ tokens' # << >>
      /\ tokens'[n + 1] = t /\ \A k \in 1 .. n : tokens'[k] = tokens[k]
  BY <1>1, <1>2, <1>5, OneMore
<1>7. Returned' = Returned \cup {n + 1}
  BY <1>5, CutOnce
<1>8. \A p : At(p)' = At(p)
  BY <1>2, TextStays
<1>9. lexer.start <= from /\ from < lx.start /\ type # "EOF"
  BY <1>3 DEF Cut
<1>10. ~ Ended'
  <2>1. \A k \in 1 .. n : tokens[k].type # "EOF"
    BY <1>4, <1>6 DEF Ended
  <2>2. \A k \in 1 .. n + 1 : k = n + 1 \/ k \in 1 .. n
    OBVIOUS
  <2>3. \A k \in 1 .. n + 1 : tokens'[k].type # "EOF"
    BY <1>1, <1>6, <1>9, <2>1, <2>2
  <2> QED
    BY <1>6, <2>3 DEF Ended
<1>11. n = 0 <=> tokens = << >>
  BY <1>2, <1>5
<1>12. n # 0 => /\ tokens[n] \in Tokens /\ tokens[n].start \in Nat
                /\ tokens[n].end = lexer.start /\ tokens[n].start < tokens[n].end
                /\ lexer.in_content <=> tokens[n].type = "CONTENT" \/ ClosedBy(n)
  <2> SUFFICES ASSUME n # 0
               PROVE  /\ tokens[n] \in Tokens /\ tokens[n].start \in Nat
                      /\ tokens[n].end = lexer.start /\ tokens[n].start < tokens[n].end
                      /\ lexer.in_content <=> tokens[n].type = "CONTENT" \/ ClosedBy(n)
    OBVIOUS
  <2>1. tokens[n] \in Tokens
    BY <1>2, <1>5
  <2>2. tokens[n].start \in Nat
    BY <2>1 DEF Tokens
  <2> QED
    BY <1>4, <1>5, <1>11, <2>1, <2>2 DEF InTurn
<1>13. n = 0 => lexer.start = 0 /\ lexer.in_content
  BY <1>4, <1>11 DEF InTurn
<1>14. lexer.in_content => type \in {"CONTENT", "LBRACE"} /\ from = lexer.start
  BY <1>3 DEF CutInTurn
<1>15. type = "CONTENT" => lexer.in_content
  BY <1>3 DEF CutInTurn
<1>16. type = "RBRACE" => (PeekPrev(from) \in {"}", "%"} <=> ClosedBy(n + 1)')
  <2> SUFFICES ASSUME type = "RBRACE"
               PROVE  PeekPrev(from) \in {"}", "%"} <=> ClosedBy(n + 1)'
    OBVIOUS
  <2>1. /\ tokens # << >>
        /\ PeekPrev(from) \in {"}", "%"} <=>
             tokens[n].type \in {"RBRACE", "PERCENT"} /\ tokens[n].end = from
    BY <1>3, <1>4, <1>5, ClosesBehindTag
  <2>2. n + 1 > 1 /\ (n + 1) - 1 = n /\ tokens'[n] = tokens[n]
    <3>1. n # 0
      BY <1>11, <2>1
    <3> QED
      BY <1>6, <3>1
  <2>3. ClosedBy(n + 1)' <=> tokens[n].type \in {"RBRACE", "PERCENT"} /\ tokens[n].end = from
    BY <1>1, <1>6, <2>2 DEF ClosedBy
  <2> QED
    BY <2>1, <2>3
<1>17. ClosedBy(n + 1)' => type = "RBRACE"
  BY <1>1, <1>6 DEF ClosedBy
<1>18. lx.in_content <=> type = "CONTENT" \/ ClosedBy(n + 1)'
  <2>1. lx.in_content <=> \/ type # "LBRACE" /\ lexer.in_content
                          \/ type = "RBRACE" /\ PeekPrev(from) \in {"}", "%"}
    BY <1>3 DEF CutInTurn
  <2>2. CASE type = "CONTENT"
    BY <1>15, <2>1, <2>2
  <2>3. CASE type = "RBRACE"
    BY <1>14, <1>16, <2>1, <2>3
  <2>4. CASE type \notin {"CONTENT", "RBRACE"}
    BY <1>14, <1>17, <2>1, <2>4
  <2> QED
    BY <2>2, <2>3, <2>4
<1>19. from = 0 => type \in {"CONTENT", "LBRACE"}
  <2> SUFFICES ASSUME from = 0 PROVE type \in {"CONTENT", "LBRACE"}
    OBVIOUS
  <2>1. n = 0
    BY <1>1, <1>9, <1>12
  <2> QED
    BY <1>13, <1>14, <2>1
<1>20. /\ type = "CONTENT" => At(lx.start) \in {"{", NUL}
       /\ type # "CONTENT" =>
            (type \in {"RBRACE", "PERCENT"} <=> At(lx.start - 1) \in {"}", "%"})
  BY <1>3 DEF CutInTurn
<1>21. InTurn'
  <2>1. /\ t.end = lx.start /\ t.start < t.end
        /\ t.start = 0 => t.type \in {"CONTENT", "LBRACE"}
        /\ lx.in_content <=> t.type = "CONTENT" \/ ClosedBy(n + 1)'
        /\ t.type = "CONTENT" => At(lx.start)' \in {"{", NUL}
        /\ t.type # "CONTENT" =>
             (t.type \in {"RBRACE", "PERCENT"} <=> At(lx.start - 1)' \in {"}", "%"})
    BY <1>1, <1>8, <1>9, <1>18, <1>19, <1>20
  <2> QED
    BY <1>2, <1>6, <2>1 DEF InTurn
<1>22. n # 0 => tokens'[n] = tokens[n] /\ (ClosedBy(n)' <=> ClosedBy(n))
  <2> SUFFICES ASSUME n # 0 PROVE tokens'[n] = tokens[n] /\ (ClosedBy(n)' <=> ClosedBy(n))
    OBVIOUS
  <2>1. n \in 1 .. Len(tokens)
    BY <1>5
  <2> QED
    BY <1>1, <1>2, <1>6, <2>1, ClosedByStays
<1>23. (IF n + 1 = 1 \/ ClosedBy((n + 1) - 1)
        THEN /\ tokens[n + 1].start = (IF n + 1 = 1 THEN 0 ELSE tokens[(n + 1) - 1].end)
             /\ tokens[n + 1].type \in {"CONTENT", "LBRACE"}
        ELSE \/ tokens[n + 1].type # "CONTENT"
             \/ tokens[(n + 1) - 1].type = "CONTENT")'
  <2>1. (n + 1) - 1 = n /\ (n + 1 = 1 <=> n = 0)
    OBVIOUS
  <2>2. CASE n = 0
    BY <1>1, <1>6, <1>13, <1>14, <2>1, <2>2
  <2>3. CASE n # 0
    <3>1. ClosedBy(n)' => from = tokens'[n].end /\ type \in {"CONTENT", "LBRACE"}
      BY <1>12, <1>14, <1>22, <2>3
    <3>2. ~ ClosedBy(n)' => type # "CONTENT" \/ tokens'[n].type = "CONTENT"
      BY <1>12, <1>15, <1>22, <2>3
    <3> QED
      BY <1>1, <1>6, <2>1, <2>3, <3>1, <3>2
  <2> QED
    BY <2>2, <2>3
<1>24. ContentBetweenTags'
  <2>1. ASSUME NEW k \in Returned
        PROVE  (IF k = 1 \/ ClosedBy(k - 1)
                THEN /\ tokens[k].start = (IF k = 1 THEN 0 ELSE tokens[k - 1].end)
                     /\ tokens[k].type \in {"CONTENT", "LBRACE"}
                ELSE \/ tokens[k].type # "CONTENT"
                     \/ tokens[k - 1].type = "CONTENT")'
    BY <1>1, <1>2, InTurnStays DEF Inv
  <2> QED
    BY <1>7, <1>23, <2>1 DEF ContentBetweenTags
<1> QED
  BY <1>10, <1>21, <1>24

-----------------------------------------------------------------------------
LEMMA CutKeeps ==
  ASSUME Inv, Cuts
  PROVE  Inv'
<1>1. PICK type \in Types, from \in Nat, lx \in LexerStates :
        /\ Return(type, from, lx.start, lx)
        /\ Cut(type, from, lx) /\ CutInTurn(type, from, lx) /\ CutFollows(type, from, lx)
  BY DEF Cuts
<1>2. PICK t : t = [type |-> type, start |-> from, end |-> lx.start,
                    line |-> lexer.line, column |-> lexer.column]
  OBVIOUS
<1>3. TheCut(type, from, lx, t)
  BY <1>1, <1>2 DEF TheCut, Return
<1>4. Typed' /\ EveryCharOnce' /\ (Inside' => Stands(lexer)')
  BY <1>3, CutTyped, CutOnce, CutStands
<1>5. ~ Ended' /\ InTurn' /\ ContentBetweenTags'
  BY <1>3, CutTurns
<1> QED
  BY <1>4, <1>5 DEF Inv

(* The end of the text is a token too, of no character.                    *)
LEMMA EofKeeps ==
  ASSUME Inv, Eof
  PROVE  Inv'
<1>1. PICK t : t = [type |-> "EOF", start |-> 0, end |-> 0,
                    line |-> lexer.line, column |-> lexer.column]
  OBVIOUS
<1>2. /\ Inside /\ ~ Ended /\ At(lexer.start) = NUL
      /\ text' = text /\ lexer' = lexer /\ tokens' = Append(tokens, t)
  BY <1>1 DEF Eof, Return
<1>3. Typed /\ EveryCharOnce /\ Stands(lexer) /\ ContentBetweenTags /\ tokens \in Seq(Tokens)
  BY <1>2 DEF Inv, Typed
<1>4. t \in Tokens /\ t.type = "EOF" /\ t.start = 0 /\ t.end = 0
  <2>1. lexer.line \in Nat /\ lexer.column \in Nat /\ "EOF" \in Types
    BY <1>3 DEF Typed, LexerStates, Types
  <2> QED
    BY <1>1, <2>1 DEF Tokens
<1>5. PICK n \in Nat : n = Len(tokens)
  BY <1>3
<1>6. /\ tokens' \in Seq(Tokens) /\ Len(tokens') = n + 1 /\ DOMAIN tokens' = 1 .. n + 1
      /\ DOMAIN tokens = 1 .. n
      /\ tokens'[n + 1] = t /\ \A k \in 1 .. n : tokens'[k] = tokens[k]
      /\ Returned' = Returned /\ Returned \subseteq 1 .. n
  BY <1>2, <1>3, <1>4, <1>5, OneMore
<1>7. \A k \in Returned : tokens'[k] = tokens[k]
  BY <1>6
<1>8. /\ Size' = Size /\ \A p : At(p)' = At(p)
      /\ \A l, m : Follows(l, m)' <=> Follows(l, m)
  BY <1>2, TextStays
<1>9. Inside' <=> Inside
  BY <1>2, <1>8 DEF Inside
<1>10. Typed'
  BY <1>2, <1>3, <1>6, <1>8, <1>9 DEF Typed
<1>11. EveryCharOnce'
  <2>1. TypeOK'
    <3>1. \A k \in 1 .. n + 1 : tokens'[k].start \in Nat /\ tokens'[k].end \in Nat
      <4>1. \A k \in 1 .. n + 1 : tokens'[k] \in Tokens
        BY <1>6
      <4> QED
        BY <4>1 DEF Tokens
    <3> QED
      BY <1>2, <1>3, <1>6, <1>8, <3>1 DEF EveryCharOnce, TypeOK
  <2>2. \A j, k \in Returned' : j < k => tokens'[j].end <= tokens'[k].start
    BY <1>3, <1>6, <1>7 DEF EveryCharOnce
  <2>3. \A p \in 0 .. Size - 1 :
          p < lexer.start =>
            \/ At(p) \in Space
            \/ \E k \in Returned' : p \in tokens'[k].start .. tokens'[k].end - 1
    BY <1>3, <1>6, <1>7 DEF EveryCharOnce
  <2>4. \A k \in Returned' : tokens'[k].start < tokens'[k].end /\ tokens'[k].end <= lexer.start
    BY <1>3, <1>6, <1>7 DEF EveryCharOnce
  <2> QED
    BY <1>2, <1>8, <1>9, <2>1, <2>2, <2>3, <2>4 DEF EveryCharOnce
<1>12. Stands(lexer)'
  <2>1. PICK m, n1 : m = Cardinality(PairsOn(lexer.line)) /\ n1 = Cardinality(PairsOn(lexer.line))'
    OBVIOUS
  <2>2. n1 = m
    <3>1. PICK v : v = lexer.line
      OBVIOUS
    <3>2. t.type \notin PairTypes
      BY <1>4 DEF PairTypes
    <3>3. Cardinality(PairsOn(v))' = Cardinality(PairsOn(v))
      BY <1>2, <1>3, <1>4, <3>2, PairsMore
    <3> QED
      BY <1>2, <2>1, <3>1, <3>3
  <2>3. PICK l : l = lexer
    OBVIOUS
  <2>4. Follows(l, m)'
    BY <1>3, <1>8, <2>1, <2>3 DEF Stands
  <2> QED
    BY <1>2, <1>3, <1>8, <2>1, <2>2, <2>3, <2>4 DEF Stands
<1>13. Ended' /\ At(lexer.start)' = NUL
  <2>1. n + 1 \in DOMAIN tokens' /\ tokens'[n + 1].type = "EOF"
    BY <1>4, <1>6
  <2>2. PICK s : s = lexer.start
    OBVIOUS
  <2> QED
    BY <1>2, <1>8, <2>1, <2>2 DEF Ended
<1>14. ContentBetweenTags'
  <2>1. ASSUME NEW k \in Returned
        PROVE  (IF k = 1 \/ ClosedBy(k - 1)
                THEN /\ tokens[k].start = (IF k = 1 THEN 0 ELSE tokens[k - 1].end)
                     /\ tokens[k].type \in {"CONTENT", "LBRACE"}
                ELSE \/ tokens[k].type # "CONTENT"
                     \/ tokens[k - 1].type = "CONTENT")'
    BY <1>2, <1>3, <1>4, InTurnStays
  <2> QED
    BY <1>6, <2>1 DEF ContentBetweenTags
<1> QED
  BY <1>2, <1>9, <1>10, <1>11, <1>12, <1>13, <1>14 DEF Inv

LEMMA InvStep ==
  Inv /\ [NextToken]_vars => Inv'
<1>1. ASSUME Inv, NextToken PROVE Inv'
  BY <1>1, NextCuts, CutKeeps, EofKeeps
<1>2. ASSUME Inv, UNCHANGED vars PROVE Inv'
  <2>1. text' = text /\ lexer' = lexer /\ tokens' = tokens
    BY <1>2 DEF vars
  <2>2. Typed' <=> Typed
    BY <2>1 DEF Typed, Inside, Size
  <2>3. EveryCharOnce' <=> EveryCharOnce
    BY <2>1 DEF EveryCharOnce, TypeOK, Returned, Strayed, Inside, Size, At
  <2>4. Stands(lexer)' <=> Stands(lexer)
    BY <2>1 DEF Stands, Follows, PairsOn, Returned, Breaks, TrueLine, Size, At
  <2>5. (Ended' <=> Ended) /\ (Inside' <=> Inside) /\ At(lexer.start)' = At(lexer.start)
    BY <2>1 DEF Ended, Inside, Size, At
  <2>6. InTurn' <=> InTurn
    BY <2>1 DEF InTurn, ClosedBy, Size, At
  <2>7. ContentBetweenTags' <=> ContentBetweenTags
    BY <2>1 DEF ContentBetweenTags, Returned, ClosedBy
  <2> QED
    BY <1>2, <2>2, <2>3, <2>4, <2>5, <2>6, <2>7 DEF Inv
<1> QED
  BY <1>1, <1>2

LEMMA InvInit ==
  Init => Inv
<1> SUFFICES ASSUME Init PROVE Inv
  OBVIOUS
<1>1. text \in Texts /\ tokens = << >> /\ Size \in Nat
  BY Reading DEF Init
<1>2. lexer = [start |-> 0, end |-> 1, in_content |-> TRUE, line |-> 1, column |-> 1]
  <2>1. PICK b : b = [start |-> 0, end |-> 0, in_content |-> TRUE, line |-> 1, column |-> 0]
    OBVIOUS
  <2>2. ~ (b.end > Size) /\ PeekPrev(b.end) # "\n"
    BY <1>1, <2>1 DEF PeekPrev, NUL
  <2>3. lexer = ReadChar(b)
    BY <2>1 DEF Init
  <2> QED
    BY <2>1, <2>2, <2>3 DEF ReadChar
<1>3. Inside
  BY <1>1, <1>2 DEF Inside
<1>4. Typed
  BY <1>1, <1>2, <1>3 DEF Typed, LexerStates
<1>5. Returned = {} /\ DOMAIN tokens = {}
  BY <1>1 DEF Returned
<1>6. EveryCharOnce
  <2>1. TypeOK
    BY <1>1, <1>2, <1>5 DEF TypeOK
  <2>2. \A p \in 0 .. Size - 1 : ~ (p < lexer.start)
    BY <1>2
  <2> QED
    BY <1>3, <1>5, <2>1, <2>2 DEF EveryCharOnce
<1>7. Stands(lexer)
  <2>1. \A m : PairsOn(m) = {}
    BY <1>5 DEF PairsOn
  <2>2. Cardinality(PairsOn(lexer.line)) = 0
    BY <2>1, FS_EmptySet
  <2>3. TrueLine(0) = 1
    <3>1. {q \in 0 .. 0 - 1 : At(q) = "\n"} = {}
      OBVIOUS
    <3> QED
      BY <3>1, FS_EmptySet DEF TrueLine
  <2>4. Breaks(-1, 0)
    BY DEF Breaks
  <2>5. Follows(lexer, 0)
    BY <1>2, <2>3, <2>4 DEF Follows
  <2> QED
    BY <1>1, <1>2, <1>4, <2>2, <2>5 DEF Stands, Typed
<1>8. ~ Ended /\ InTurn /\ ContentBetweenTags
  BY <1>1, <1>2, <1>5 DEF Ended, InTurn, ContentBetweenTags
<1> QED
  BY <1>4, <1>6, <1>7, <1>8 DEF Inv

LEMMA InvAlways ==
  Spec => []Inv
BY InvInit, InvStep, PTL DEF Spec

(* The lexer cuts the text into tokens: of any text, whatever its length,  *)
(* each character that is not a space belongs to exactly one token, and    *)
(* the lexer leaves its text only behind the '\0' of a string without an   *)
(* end or of trailing spaces (lexer_next_token).                           *)
THEOREM TextCutOnce ==
  Spec => []EveryCharOnce
<1>1. Inv => EveryCharOnce
  BY DEF Inv
<1> QED
  BY <1>1, InvAlways, PTL

(* Content stands only at the beginning and right behind a closed tag, and *)
(* there it begins with the very next character (in_content and            *)
(* lexer_peek_prev, which misses the first character of the text but no    *)
(* closing tag).                                                           *)
THEOREM ContentInTurn ==
  Spec => []ContentBetweenTags
<1>1. Inv => ContentBetweenTags
  BY DEF Inv
<1> QED
  BY <1>1, InvAlways, PTL

-----------------------------------------------------------------------------
(* The line each token was given is that of the end of the one before it.  *)
Told ==
  At(0) # "\n" =>
    \A k \in Returned : tokens[k].line = TrueLine(IF k = 1 THEN 0 ELSE tokens[k - 1].end)

LEMMA CutTold ==
  ASSUME Inv, Told, NEW type, NEW from, NEW lx, NEW t, TheCut(type, from, lx, t)
  PROVE  Told'
<1>1. /\ t \in Tokens /\ lexer.start \in Nat /\ Size \in Nat /\ text \in Texts
      /\ tokens \in Seq(Tokens)
  BY CutTyped DEF Inv, Typed
<1>2. /\ text' = text /\ tokens' = Append(tokens, t) /\ t.line = lexer.line
      /\ At(lexer.start) # NUL
  BY DEF TheCut, CutInTurn
<1>3. Inside /\ ~ Ended
  <2>1. lexer.start < Size
    BY <1>1, <1>2, Reading
  <2> QED
    BY <1>1, <1>2, <2>1 DEF Inv, Inside
<1>4. Stands(lexer) /\ InTurn
  BY <1>3 DEF Inv
<1>5. PICK n \in Nat : n = Len(tokens)
  BY <1>1
<1>6. /\ tokens'[n + 1] = t /\ \A k \in 1 .. n : tokens'[k] = tokens[k]
      /\ Returned' \subseteq Returned \cup {n + 1} /\ Returned \subseteq 1 .. n
  BY <1>1, <1>2, <1>5, OneMore
<1>7. At(0)' = At(0) /\ \A p : TrueLine(p)' = TrueLine(p)
  BY <1>2, TextStays
<1> SUFFICES ASSUME At(0) # "\n", NEW k \in Returned \cup {n + 1}
             PROVE  tokens'[k].line = TrueLine(IF k = 1 THEN 0 ELSE tokens'[k - 1].end)
  BY <1>6, <1>7 DEF Told
<1>8. CASE k \in Returned
  <2>1. k \in 1 .. n /\ (k # 1 => k - 1 \in 1 .. n)
    BY <1>6, <1>8
  <2>2. tokens'[k] = tokens[k] /\ (k # 1 => tokens'[k - 1] = tokens[k - 1])
    BY <1>6, <2>1
  <2>3. tokens[k].line = TrueLine(IF k = 1 THEN 0 ELSE tokens[k - 1].end)
    BY <1>8 DEF Told
  <2> QED
    BY <2>2, <2>3
<1>9. CASE k = n + 1
  <2>1. lexer.line = TrueLine(lexer.start)
    BY <1>4 DEF Stands, Follows
  <2>2. tokens'[k].line = TrueLine(lexer.start)
    BY <1>2, <1>6, <1>9, <2>1
  <2>3. CASE n = 0
    <3>1. tokens = << >>
      BY <1>1, <1>5, <2>3, EmptySeq
    <3> QED
      BY <1>4, <1>9, <2>2, <2>3, <3>1 DEF InTurn
  <2>4. CASE n > 0
    <3>1. tokens # << >>
      BY <1>1, <1>5, <2>4
    <3>2. tokens[n].end = lexer.start
      BY <1>4, <1>5, <3>1 DEF InTurn
    <3>3. k - 1 = n /\ k # 1 /\ tokens'[n] = tokens[n]
      BY <1>6, <1>9, <2>4
    <3> QED
      BY <2>2, <3>2, <3>3
  <2> QED
    BY <2>3, <2>4
<1> QED
  BY <1>8, <1>9

(* The end of the text says nothing of the tokens before it.               *)
LEMMA EofTold ==
  ASSUME Inv, Told, Eof
  PROVE  Told'
<1>1. PICK t : t = [type |-> "EOF", start |-> 0, end |-> 0,
                    line |-> lexer.line, column |-> lexer.column]
  OBVIOUS
<1>2. text' = text /\ tokens' = Append(tokens, t) /\ tokens \in Seq(Tokens)
  BY <1>1 DEF Eof, Return, Inv, Typed
<1>3. t \in Tokens /\ t.type = "EOF"
  <2>1. lexer.line \in Nat /\ lexer.column \in Nat /\ "EOF" \in Types
    BY DEF Inv, Typed, LexerStates, Types
  <2> QED
    BY <1>1, <2>1 DEF Tokens
<1>4. PICK n \in Nat : n = Len(tokens)
  BY <1>2
<1>5. /\ \A k \in 1 .. n : tokens'[k] = tokens[k]
      /\ Returned' = Returned /\ Returned \subseteq 1 .. n
  BY <1>2, <1>3, <1>4, OneMore
<1>6. At(0)' = At(0) /\ \A p : TrueLine(p)' = TrueLine(p)
  BY <1>2, TextStays
<1> SUFFICES ASSUME At(0) # "\n", NEW k \in Returned
             PROVE  tokens'[k].line = TrueLine(IF k = 1 THEN 0 ELSE tokens'[k - 1].end)
  BY <1>5, <1>6 DEF Told
<1>7. k \in 1 .. n /\ (k # 1 => k - 1 \in 1 .. n)
  BY <1>5
<1>8. tokens'[k] = tokens[k] /\ (k # 1 => tokens'[k - 1] = tokens[k - 1])
  BY <1>5, <1>7
<1>9. tokens[k].line = TrueLine(IF k = 1 THEN 0 ELSE tokens[k - 1].end)
  BY DEF Told
<1> QED
  BY <1>8, <1>9

(* The lexer counts the newlines it has passed, but for one that is the    *)
(* first character of its text, and gives each token the line on which the *)
(* one before it ended, whatever the token holds or stands behind          *)
(* (lexer_read_char, lexer_next_token).                                    *)
THEOREM LinesAreTrue ==
  Spec => []LinesFollow
<1>1. Init => Told
  <2> SUFFICES ASSUME Init PROVE Returned = {}
    BY DEF Told
  <2> QED
    BY DEF Init, Returned
<1>2. Inv /\ Told /\ [NextToken]_vars => Told'
  <2>1. ASSUME Inv, Told, Cuts PROVE Told'
    <3>1. PICK type \in Types, from \in Nat, lx \in LexerStates :
            /\ Return(type, from, lx.start, lx)
            /\ Cut(type, from, lx) /\ CutInTurn(type, from, lx) /\ CutFollows(type, from, lx)
      BY <2>1 DEF Cuts
    <3>2. PICK t : t = [type |-> type, start |-> from, end |-> lx.start,
                        line |-> lexer.line, column |-> lexer.column]
      OBVIOUS
    <3>3. TheCut(type, from, lx, t)
      BY <3>1, <3>2 DEF TheCut, Return
    <3> QED
      BY <2>1, <3>3, CutTold
  <2>2. ASSUME Told, UNCHANGED vars PROVE Told'
    BY <2>2 DEF vars, Told, Returned, TrueLine, At, Size
  <2> QED
    BY <2>1, <2>2, NextCuts, EofTold
<1>3. Inv /\ Told => LinesFollow
  BY DEF Inv, Told, Stands, Follows, LinesFollow
<1> QED
  BY <1>1, <1>2, <1>3, InvAlways, PTL DEF Spec

(* The column is less than that of the character the lexer is at by the    *)
(* number of ==, !=, <= and >= before it on its line (lexer_read_char).    *)
THEOREM ColumnsAreBehind ==
  Spec => [](Inside /\ At(0) # "\n" =>
               lexer.column = TrueColumn(lexer.start)
                 - Cardinality({k \in Returned :
                     /\ \E c \in DOMAIN Paired : tokens[k].type = Paired[c]
                     /\ TrueLine(tokens[k].start) = lexer.line}))
<1>1. ASSUME Inv, Inside, At(0) # "\n"
      PROVE  lexer.column = TrueColumn(lexer.start) - Cardinality(PairsOn(lexer.line))
  <2>1. PICK p \in Nat : p = lexer.start
    BY <1>1 DEF Inv, Typed, LexerStates
  <2>2. Follows(lexer, Cardinality(PairsOn(lexer.line)))
    BY <1>1 DEF Inv, Stands
  <2>3. PICK q \in -1 .. p - 1 :
          Breaks(q, p) /\ lexer.column = p - q - Cardinality(PairsOn(lexer.line))
    BY <1>1, <2>1, <2>2 DEF Follows
  <2>4. TrueColumn(p) = p - q
    BY <2>3, ColumnFrom
  <2> QED
    BY <2>1, <2>3, <2>4
<1>2. ASSUME NEW k
      PROVE  tokens[k].type \in PairTypes <=> \E c \in DOMAIN Paired : tokens[k].type = Paired[c]
  BY PairedTypes
<1>3. PairsOn(lexer.line) = {k \in Returned :
        /\ \E c \in DOMAIN Paired : tokens[k].type = Paired[c]
        /\ TrueLine(tokens[k].start) = lexer.line}
  BY <1>2 DEF PairsOn
<1>4. Inv => (Inside /\ At(0) # "\n" =>
                lexer.column = TrueColumn(lexer.start)
                  - Cardinality({k \in Returned :
                      /\ \E c \in DOMAIN Paired : tokens[k].type = Paired[c]
                      /\ TrueLine(tokens[k].start) = lexer.line}))
  BY <1>1, <1>3
<1> QED
  BY <1>4, InvAlways, PTL
=============================================================================
