------------------------------- MODULE ExprRef ------------------------------
(***************************************************************************)
(* What an expression means, by recursion on its tree over the variables   *)
(* of the host, and the comparison with what Expr makes of it.  Integers   *)
(* are integers here, and nothing is counted.                              *)
(*                                                                         *)
(* A meaning is a value, "error", or "crash" for what has none.  "open" is *)
(* what depends on more than the values: a sum out of range, an order of   *)
(* integers of different signs, which the code compares as unsigned words, *)
(* and comparisons of strings and containers, of which it compares the     *)
(* addresses.                                                              *)
(***************************************************************************)
EXTENDS Expr

NullValue    == [t |-> "null"]
BoolValue(b) == [t |-> "bool", n |-> IF b THEN 1 ELSE 0]
IntValue(n)  == [t |-> "int", n |-> n]
ObjValue(o)  == [t |-> "obj", o |-> o]
Literal      == [t |-> "literal"]
Error        == [t |-> "error"]
Wild         == [t |-> "crash"]
Open         == [t |-> "open"]

(* A variable or an element.                                               *)
HostValue(v) ==
  CASE v = NULL -> NullValue
    [] v # NULL /\ HostHeap.kind[v] = "int" -> IntValue(Signed(HostWord[v]))
    [] v # NULL /\ HostHeap.kind[v] # "int" -> ObjValue(v)

NoValue(m)  == m.t \in {"error", "crash", "open"}
Numeric(m)  == m.t \in {"int", "bool", "null"}
AsNumber(m) == IF m.t = "null" THEN 0 ELSE m.n
IsTrue(m)   == Numeric(m) => AsNumber(m) # 0

InRange(n) == n \in -(2 ^ (Width - 1)) .. 2 ^ (Width - 1) - 1

Is(m, kind) == m.t = "obj" /\ HostHeap.kind[m.o] = kind

Arithmetical(op, l, r) ==
  CASE l.t # "int" \/ r.t # "int" -> Error
    [] l.t = "int" /\ r.t = "int" /\ op = "SLASH" /\ r.n = 0 -> Wild
    [] OTHER ->
         LET n == Computed(op, l.n, r.n) IN
         CASE InRange(n) -> IntValue(n)
           [] ~InRange(n) /\ op = "SLASH" -> Wild
           [] ~InRange(n) /\ op # "SLASH" -> Open

Comparison(op, l, r) ==
  LET a == AsNumber(l)  b == AsNumber(r) IN
  CASE op = "AND" -> BoolValue(IsTrue(l) /\ IsTrue(r))
    [] op = "OR"  -> BoolValue(IsTrue(l) \/ IsTrue(r))
    [] op \in {"EQ", "NOTEQ"} /\ Numeric(l) /\ Numeric(r) ->
         BoolValue((a = b) = (op = "EQ"))
    [] op \in {"EQ", "NOTEQ"} /\ l.t = "obj" /\ l = r -> BoolValue(op = "EQ")
    [] op \in {"LT", "GT", "LTE", "GTE"} /\ Numeric(l) /\ Numeric(r)
         /\ (a < 0) = (b < 0) ->
         BoolValue(CASE op = "LT" -> a < b [] op = "GT" -> a > b
                     [] op = "LTE" -> a <= b [] op = "GTE" -> a >= b)
    [] OTHER -> Open

ElementOf(m, key) ==
  LET len == HostHeap.len[m.o] IN
  CASE NoValue(key) -> IF key = Error THEN Wild ELSE key
    [] ~NoValue(key) /\ key.t # "int" -> Error
    [] key.t = "int" /\ key.n \in 0 .. len - 1 ->
         HostValue(HostHeap.cell[m.o][key.n + 1])
    [] key.t = "int" /\ key.n \notin 0 .. len - 1 ->
         IF len = 0 THEN Wild ELSE NullValue

RECURSIVE Meaning(_)
Meaning(x) ==
  LET l == Meaning(x.args[1])
      r == Meaning(x.args[2]) IN
  CASE x.op = "IDENT"  -> HostValue(HostHeap.cell[VARS][x.lit])
    [] x.op = "INT"    -> IntValue(x.lit)
    [] x.op = "STRING" -> Literal
    [] x.op \in {"TRUE", "FALSE"} -> BoolValue(x.op = "TRUE")
    [] x.op \notin {"IDENT", "INT", "STRING", "TRUE", "FALSE"} /\ NoValue(l) -> l
    [] x.op \in {"NOT", "BANG"} /\ ~NoValue(l) -> BoolValue(~IsTrue(l))
    [] IsPrefix(x) /\ x.op = "MINUS" /\ ~NoValue(l) ->
         IF l.t # "int" THEN Error ELSE IF InRange(-l.n) THEN IntValue(-l.n) ELSE Open
    [] x.op = "DOT" /\ ~NoValue(l) ->
         IF Is(l, "hmap") THEN HostValue(HostHeap.cell[l.o][x.args[2].lit]) ELSE Error
    [] x.op = "LBRACKET" /\ ~NoValue(l) ->
         IF Is(l, "vector") THEN ElementOf(l, r) ELSE Error
    [] IsInfix(x) /\ ~NoValue(l) /\ NoValue(r) -> r
    [] IsInfix(x) /\ ~NoValue(l) /\ ~NoValue(r) ->
         IF x.op \in Computes THEN Arithmetical(x.op, l, r) ELSE Comparison(x.op, l, r)

(* What Expr has come to.                                                  *)
Result ==
  CASE mode = "crashed" -> Wild
    [] mode # "crashed" /\ ret = NULL -> Error
    [] mode # "crashed" /\ ret \in Static ->
         IF ret = Null THEN NullValue ELSE BoolValue(ret = True)
    [] mode # "crashed" /\ ret \in Obj ->
         IF heap.kind[ret] = "int" THEN IntValue(Signed(word[ret]))
         ELSE IF HostHeap.kind[ret] = "none" THEN Literal ELSE ObjValue(ret)

(* Values, errors and crashes are those of the meaning: an index reads the *)
(* element it names or nothing, whatever its sign, unless the vector is    *)
(* empty; nothing but that, an index that fails and a quotient there is    *)
(* none of leads to undefined behaviour.  A failure has pushed one         *)
(* message, however many functions it went through; a value comes without. *)
MeansWhatItSays ==
  /\ mode \in {"returned", "crashed"} =>
       \E m \in {Meaning(tree)} : m = Open \/ m = Result
  /\ mode = "returned" => errors = IF ret = NULL THEN 1 ELSE 0
=============================================================================
