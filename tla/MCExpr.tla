-------------------------------- MODULE MCExpr ------------------------------
(***************************************************************************)
(* Integers of four bits.  The host has the least of them, -1 and 2, a     *)
(* vector of two, an empty one, a map that leads to both, and a text.      *)
(* Trees: every operator over every pair of leaves, and over operands that *)
(* succeed, fail or crash at any depth up to three.                        *)
(***************************************************************************)
EXTENDS ExprRef, TLC

CONSTANTS oVars, oMin, oNeg, oTwo, oVec, oEmpty, oMap, oText, f1, f2, f3, f4, f5,
          kMin, kNeg, kVec, kEmpty, kMap, kText, kNone

MCObj == {oVars, oMin, oNeg, oTwo, oVec, oEmpty, oMap, oText, f1, f2, f3, f4, f5}
MCKey == {kMin, kNeg, kVec, kEmpty, kMap, kText, kNone}

Cells(f) == [s \in MCKey \cup (1 .. MaxLen) |-> IF s \in DOMAIN f THEN f[s] ELSE NULL]

MCHeap ==
  [kind |-> [o \in MCObj |-> CASE o \in {oVars, oMap} -> "hmap"
                               [] o \in {oVec, oEmpty} -> "vector"
                               [] o \in {oMin, oNeg, oTwo} -> "int"
                               [] o = oText -> "text"
                               [] OTHER -> "none"],
   rc   |-> [o \in MCObj |-> CASE o \in {oVec, oEmpty, oNeg} -> 2
                               [] o \in {f1, f2, f3, f4, f5} -> 0
                               [] OTHER -> 1],
   cell |-> [o \in MCObj |->
               CASE o = oVars -> Cells(kMin :> oMin @@ kNeg :> oNeg @@ kVec :> oVec
                                         @@ kEmpty :> oEmpty @@ kMap :> oMap
                                         @@ kText :> oText)
                 [] o = oMap -> Cells(kVec :> oVec @@ kEmpty :> oEmpty)
                 [] o = oVec -> Cells(1 :> oNeg @@ 2 :> oTwo)
                 [] OTHER -> Cells(<< >>)],
   len  |-> [o \in MCObj |-> IF o = oVec THEN 2 ELSE 0]]

MCHold == [o \in MCObj |-> IF o = oVars THEN 1 ELSE 0]

MCWord == [o \in MCObj |-> CASE o = oMin -> 8 [] o = oNeg -> 15 [] o = oTwo -> 2
                             [] o \in {oVars, oMap} -> 6 [] o \in {oVec, oEmpty} -> 5
                             [] o = oText -> 4 [] OTHER -> 0]

-----------------------------------------------------------------------------
Id(k)          == [op |-> "IDENT", lit |-> k, args |-> << >>]
Num(n)         == [op |-> "INT", lit |-> n, args |-> << >>]
Word(op)       == [op |-> op, lit |-> op, args |-> << >>]
Pre(op, x)     == [op |-> op, lit |-> op, args |-> <<x>>]
Inf(op, x, y)  == [op |-> op, lit |-> op, args |-> <<x, y>>]
Dot(x, k)      == Inf("DOT", x, Id(k))
At(x, y)       == Inf("LBRACKET", x, y)

Leaves == {Id(k) : k \in MCKey} \cup {Num(n) : n \in {0, 1, 2, 7}}
            \cup {Word("TRUE"), Word("FALSE"), Word("STRING")}

Simple ==
  {Pre(op, x) : op \in Prefixes, x \in Leaves}
    \cup {Dot(x, k) : x \in {y \in Leaves : y.op = "IDENT"}, k \in {kVec, kNone}}
    \cup {At(x, y) : x \in {Id(kVec), Id(kEmpty), Id(kMap)}, y \in Leaves}
    \cup {Inf(op, x, y) : op \in Infixes, x, y \in Leaves}

(* A sum, -1 from a map of a vector, a string and a truth that are new;    *)
(* failures of each kind; a crash.                                         *)
Parts ==
  {Inf("PLUS", Num(1), Num(2)), At(Dot(Id(kMap), kVec), Num(0)), Word("STRING"),
   Pre("NOT", Id(kNone)), Dot(Id(kNeg), kVec), At(Id(kVec), Word("TRUE")),
   Pre("MINUS", Id(kMap)), Inf("MINUS", Id(kText), Num(1)),
   Inf("SLASH", Num(1), Num(0)), At(Id(kEmpty), Num(0))}

Deep ==
  {Pre(op, x) : op \in {"NOT", "MINUS"}, x \in Parts}
    \cup {At(Dot(Id(kMap), k), x) : k \in {kVec, kEmpty, kNone}, x \in Parts}
    \cup {Inf(op, x, y) : op \in {"ASTERISK", "SLASH", "LT", "AND"}, x, y \in Parts}

Deeper ==
  {Inf(op, x, At(Id(kVec), Inf("MINUS", Num(1), y))) :
      op \in {"MINUS", "OR"}, x, y \in Parts}
    \cup {Inf("PLUS", Num(1), Inf("PLUS", x, Pre("MINUS", y))) : x, y \in Parts}

MCTrees ==
  Leaves \cup Parts \cup {Dot(Id(kMap), kEmpty)}
    \cup UNION {{y.args[2], y.args[2].args[2]} : y \in Deeper}
    \cup Simple \cup Deep \cup Deeper
=============================================================================
