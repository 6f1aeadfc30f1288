-------------------------------- MODULE Expr --------------------------------
(***************************************************************************)
(* eval_expression of src/roscha.c and the functions below it, for one     *)
(* expression that eval_variable evaluates and prints.  The C stack is the *)
(* variable stack: a frame for each active eval_prefix, eval_infix,        *)
(* eval_mapkey and eval_index, its top first, with the object the function *)
(* holds while it evaluates another operand.  Between two frames there is  *)
(* either an expression to evaluate (todo) or the result of one (ret).     *)
(*                                                                         *)
(* An object is an address of ObjectHeap, and word is the first word of    *)
(* its union: an integer in two's complement, or a pointer.  That is what  *)
(* the boolean member reads, for every type of object.                     *)
(*                                                                         *)
(* A tree is what Expressions builds, with the value of a number as its    *)
(* literal: an operator, a literal and subtrees.                           *)
(***************************************************************************)
EXTENDS ObjectHeap, Sequences

CONSTANTS
  VARS,        \* the address of env->vars
  Width,       \* the bits of int64_t, size_t and uintptr_t
  HostHeap,    \* the objects the host stored, env->vars among them,
  HostHold,    \* the references it and the environment own, and the words of
  HostWord,    \* the unions
  SOURCE,      \* the address of the template's text, where its strings are
  Trees        \* the expressions, the operands of each among them

Null  == "null"
True  == "true"
False == "false"

(* obj_null, obj_true and obj_false are not counted and never free'd.      *)
Static == {Null, True, False}

NoExpr == [op |-> "NULL", lit |-> "NULL", args |-> << >>]

Words == 0 .. 2 ^ Width - 1

ASSUME ExprAssumption ==
  /\ VARS \in Obj
  /\ Width \in Nat \ {0}
  /\ HostHeap \in HeapType /\ Quiet(HostHeap)
  /\ HostHold \in [Obj -> Nat]
  /\ HostWord \in [Obj -> Words]
  /\ SOURCE \in Words
  /\ Static \cap (Obj \cup {NULL}) = {}

(* The heap is one that a host can have built (Objects): its counts are    *)
(* exact, and memory that is not an object is not pointed at.              *)
ASSUME HostAssumption ==
  \A o \in Obj :
    /\ HostHeap.rc[o] = HostHold[o] + Cardinality(CellsOf(HostHeap, o))
    /\ HostHeap.kind[o] = "none" => HostHeap.rc[o] = 0 /\ HostHeap.len[o] = 0

VARIABLES
  tree,         \* the expression
  heap, word,   \* the objects and their unions
  errors,       \* the number of messages pushed to env->errors
  stack,        \* the active functions
  todo, ret,    \* what is evaluated next, or what was returned
  mode          \* evaluating, returned, given back by the caller, or crashed

vars == <<tree, heap, word, errors, stack, todo, ret, mode>>

Init ==
  /\ tree \in Trees
  /\ heap = HostHeap /\ word = HostWord
  /\ errors = 0
  /\ stack = << >>
  /\ todo = tree /\ ret = NULL
  /\ mode = "eval"

-----------------------------------------------------------------------------
(***************************************************************************)
(* Words.                                                                  *)
(***************************************************************************)
Signed(w) == IF w < 2 ^ (Width - 1) THEN w ELSE w - 2 ^ Width

(* Overflow of int64_t is undefined; the instructions that both builds of  *)
(* the Makefile use for it wrap.                                           *)
Wrap(n) == n % 2 ^ Width

TypeOf(v) ==
  CASE v = Null -> "null" [] v \in {True, False} -> "bool"
    [] v \notin Static -> heap.kind[v]

(* The boolean member of the union.                                        *)
Boolean(v) ==
  CASE v = True -> 1 [] v \in {Null, False} -> 0 [] v \notin Static -> word[v]

Truth(v) == Boolean(v) # 0

Bool(b) == IF b THEN True ELSE False

OrNull(v) == IF v = NULL THEN Null ELSE v

Keep(h, v) == IF v \in Obj THEN Ref(h, v) ELSE h

-----------------------------------------------------------------------------
(***************************************************************************)
(* Calls and returns.                                                      *)
(***************************************************************************)
Evaluating == mode = "eval" /\ Quiet(heap)

Calling(ops) == Evaluating /\ todo.op \in ops

Top == Head(stack)

(* A result came back to a function of these operators; Top.held is what   *)
(* it holds from before, NULL while its first operand is evaluated.        *)
Back(ops) ==
  Evaluating /\ todo = NoExpr /\ stack # << >> /\ Top.expr.op \in ops

First(ops)  == Back(ops) /\ Top.held = NULL
Second(ops) == Back(ops) /\ Top.held # NULL

(* The function on top returns v.                                          *)
Return(v) ==
  /\ ret' = v /\ stack' = Tail(stack)
  /\ UNCHANGED <<tree, todo, mode>>

Quietly == UNCHANGED errors
Reports == errors' = errors + 1

(* The second operand is evaluated while the first is held.                *)
Hold ==
  /\ stack' = <<[Top EXCEPT !.held = ret]>> \o Tail(stack)
  /\ todo' = Top.expr.args[2] /\ ret' = NULL
  /\ UNCHANGED <<tree, heap, word, errors, mode>>

Crash ==
  /\ mode' = "crashed"
  /\ UNCHANGED <<tree, heap, word, errors, stack, todo, ret>>

Unused == {o \in Obj : heap.kind[o] = "none"}

Fresh == CHOOSE o \in Obj : heap.kind[o] = "none"

(* roscha_object_new.                                                      *)
Make(h, kind, w) ==
  /\ Unused # {}
  /\ heap' = New(h, Fresh, kind)
  /\ word' = [word EXCEPT ![Fresh] = w]

-----------------------------------------------------------------------------
(***************************************************************************)
(* eval_expression.                                                        *)
(***************************************************************************)
Prefixes == {"NOT", "BANG", "MINUS"}
Infixes  == {"PLUS", "MINUS", "ASTERISK", "SLASH",
             "LT", "GT", "LTE", "GTE", "EQ", "NOTEQ", "AND", "OR"}
Calls == Prefixes \cup Infixes \cup {"DOT", "LBRACKET"}

IsPrefix(x) == x.op \in Prefixes /\ Len(x.args) = 1
IsInfix(x)  == x.op \in Infixes /\ Len(x.args) = 2

(* What the parser makes: an operator has one or two operands, and only an *)
(* identifier stands behind a dot.                                         *)
WellFormed(xs) ==
  \A x \in xs :
    /\ x.args \in Seq(xs) /\ x.op # NoExpr.op
    /\ x.op = "IDENT" => x.lit \in Key
    /\ x.op = "INT" => x.lit \in Words
    /\ x.op \in Calls => Len(x.args) \in {1, 2}
    /\ Len(x.args) = 1 => x.op \in Prefixes
    /\ x.op = "LBRACKET" => Len(x.args) = 2
    /\ x.op = "DOT" => Len(x.args) = 2 /\ x.args[2].op = "IDENT"

ASSUME TreeAssumption == WellFormed(Trees)

Yield(v) ==
  /\ ret' = v /\ todo' = NoExpr
  /\ UNCHANGED <<tree, errors, stack, mode>>

Identifier ==
  /\ Calling({"IDENT"})
  /\ Yield(OrNull(HmapGets(heap, VARS, todo.lit)))
  /\ heap' = Keep(heap, HmapGets(heap, VARS, todo.lit))
  /\ UNCHANGED word

IntLiteral ==
  /\ Calling({"INT"})
  /\ Make(heap, "int", todo.lit)
  /\ Yield(Fresh)

(* The object is a slice, whose first word is where the text begins, not   *)
(* the string.                                                             *)
StringLiteral ==
  /\ Calling({"STRING"})
  /\ Make(heap, "text", SOURCE)
  /\ Yield(Fresh)

BoolLiteral ==
  /\ Calling({"TRUE", "FALSE"})
  /\ Yield(Bool(todo.op = "TRUE"))
  /\ UNCHANGED <<heap, word>>

Call ==
  /\ Calling(Calls)
  /\ stack' = <<[expr |-> todo, held |-> NULL]>> \o stack
  /\ todo' = todo.args[1] /\ ret' = NULL
  /\ UNCHANGED <<tree, heap, word, errors, mode>>

(* The first operand failed: every function returns.                       *)
Unwind ==
  /\ First(Calls) /\ ret = NULL
  /\ Return(NULL) /\ Quietly
  /\ UNCHANGED <<heap, word>>

-----------------------------------------------------------------------------
(***************************************************************************)
(* eval_prefix.                                                            *)
(***************************************************************************)
Operand(ops) == First(ops) /\ IsPrefix(Top.expr) /\ ret # NULL

Not ==
  /\ Operand({"NOT", "BANG"})
  /\ heap' = Unref(heap, ret)
  /\ Return(Bool(~Truth(ret))) /\ Quietly
  /\ UNCHANGED word

Negate ==
  /\ Operand({"MINUS"}) /\ TypeOf(ret) = "int"
  /\ Make(Unref(heap, ret), "int", Wrap(-word[ret]))
  /\ Return(Fresh) /\ Quietly

NegateFails ==
  /\ Operand({"MINUS"}) /\ TypeOf(ret) # "int"
  /\ heap' = Unref(heap, ret)
  /\ Return(NULL) /\ Reports
  /\ UNCHANGED word

(***************************************************************************)
(* eval_infix, eval_integer_infix, eval_boolean_infix.  Both sides are     *)
(* evaluated, for "and" and "or", too.                                     *)
(***************************************************************************)
Left ==
  /\ First(Infixes) /\ IsInfix(Top.expr) /\ ret # NULL
  /\ Hold

(* Variant with a mistake: what was held is forgotten.                    *)
RightFailsKeeps ==
  /\ Second(Infixes) /\ ret = NULL
  /\ Return(NULL) /\ Quietly
  /\ UNCHANGED <<heap, word>>

RightFails ==
  /\ Second(Infixes) /\ ret = NULL
  /\ heap' = Unref(heap, Top.held)
  /\ Return(NULL) /\ Quietly
  /\ UNCHANGED word

Both(ops) == Second(ops) /\ ret # NULL

Dropped == Unref(Unref(heap, Top.held), ret)

Integral == TypeOf(Top.held) = "int" /\ TypeOf(ret) = "int"

Sums     == {"PLUS", "MINUS", "ASTERISK"}
Computes == Sums \cup {"SLASH"}

(* What idiv leaves: the quotient toward zero.                             *)
Quotient(a, b) ==
  LET Abs(n) == IF n < 0 THEN -n ELSE n
      q == Abs(a) \div Abs(b)
  IN  IF (a < 0) = (b < 0) THEN q ELSE -q

Computed(op, a, b) ==
  CASE op = "PLUS" -> a + b [] op = "MINUS" -> a - b
    [] op = "ASTERISK" -> a * b [] op = "SLASH" -> Quotient(a, b)

(* A quotient there is none of, which the processor traps.                 *)
Traps(op, a, b) ==
  op = "SLASH" /\ (b = 0 \/ (a = -(2 ^ (Width - 1)) /\ b = -1))

(* Variant with a mistake: the left object is used for the result.        *)
ArithmeticInPlace ==
  LET a == Signed(word[Top.held])
      b == Signed(word[ret])
      op == Top.expr.op IN
  /\ Both(Computes) /\ Integral /\ ~Traps(op, a, b)
  /\ heap' = Unref(heap, ret)
  /\ word' = [word EXCEPT ![Top.held] = Wrap(Computed(op, a, b))]
  /\ Return(Top.held) /\ Quietly

Arithmetic ==
  LET a == Signed(word[Top.held])
      b == Signed(word[ret])
      op == Top.expr.op IN
  /\ Both(Computes) /\ Integral /\ ~Traps(op, a, b)
  /\ Make(Dropped, "int", Wrap(Computed(op, a, b)))
  /\ Return(Fresh) /\ Quietly

Divide ==
  /\ Both({"SLASH"}) /\ Integral
  /\ Traps("SLASH", Signed(word[Top.held]), Signed(word[ret]))
  /\ Crash

(* Arithmetic on anything else.                                            *)
Mismatch ==
  /\ Both(Computes) /\ ~Integral
  /\ heap' = Dropped
  /\ Return(NULL) /\ Reports
  /\ UNCHANGED word

(* Whatever the types, the words are compared, and as unsigned ones.       *)
Holds(op, v, w) ==
  LET a == Boolean(v)  b == Boolean(w) IN
  CASE op = "LT" -> a < b [] op = "LTE" -> a <= b
    [] op = "GT" -> a > b [] op = "GTE" -> a >= b
    [] op = "EQ" -> a = b [] op = "NOTEQ" -> a # b
    [] op = "AND" -> Truth(v) /\ Truth(w)
    [] op = "OR" -> Truth(v) \/ Truth(w)

Compare ==
  /\ Both(Infixes \ Computes)
  /\ heap' = Dropped
  /\ Return(Bool(Holds(Top.expr.op, Top.held, ret))) /\ Quietly
  /\ UNCHANGED word

(***************************************************************************)
(* eval_mapkey: what is found is kept before the map is given back.  The   *)
(* parser lets an identifier only stand behind the dot.                    *)
(***************************************************************************)
Member ==
  LET v == HmapGets(heap, ret, Top.expr.args[2].lit) IN
  /\ First({"DOT"}) /\ ret # NULL /\ TypeOf(ret) = "hmap"
  /\ heap' = Unref(Keep(heap, v), ret)
  /\ Return(OrNull(v)) /\ Quietly
  /\ UNCHANGED word

NotContainer ==
  /\ First({"DOT", "LBRACKET"}) /\ ret # NULL
  /\ TypeOf(ret) # (IF Top.expr.op = "DOT" THEN "hmap" ELSE "vector")
  /\ heap' = Unref(heap, ret)
  /\ Return(NULL) /\ Reports
  /\ UNCHANGED word

(***************************************************************************)
(* eval_index.                                                             *)
(***************************************************************************)
Vector ==
  /\ First({"LBRACKET"}) /\ ret # NULL /\ TypeOf(ret) = "vector"
  /\ Hold

(* `i->type' of an index that failed to evaluate.                          *)
IndexFails ==
  /\ Second({"LBRACKET"}) /\ ret = NULL
  /\ Crash

NotIndex ==
  /\ Both({"LBRACKET"}) /\ TypeOf(ret) # "int"
  /\ heap' = Dropped
  /\ Return(NULL) /\ Reports
  /\ UNCHANGED word

Indexing == Both({"LBRACKET"}) /\ TypeOf(ret) = "int"

(* Variant with a mistake: the comparison is signed.                      *)
BeyondSigned(w, len) == Signed(w) > len - 1

(* `i->integer > (len - 1)', in size_t: behind an empty vector there is    *)
(* nothing.                                                                *)
Beyond(w, len) == w > Wrap(len - 1)

OutOfRange ==
  /\ Indexing /\ Beyond(word[ret], heap.len[Top.held])
  /\ heap' = Dropped
  /\ Return(Null) /\ Quietly
  /\ UNCHANGED word

Element ==
  LET i == word[ret]
      v == heap.cell[Top.held][i + 1] IN
  /\ Indexing /\ ~Beyond(i, heap.len[Top.held]) /\ i < heap.len[Top.held]
  /\ heap' = Unref(Unref(Keep(heap, v), ret), Top.held)
  /\ Return(v) /\ Quietly
  /\ UNCHANGED word

(* A pointer from outside of the vector is followed.                       *)
WildElement ==
  /\ Indexing /\ ~Beyond(word[ret], heap.len[Top.held])
  /\ word[ret] >= heap.len[Top.held]
  /\ Crash

-----------------------------------------------------------------------------
(* The destructor that an unref has started.                               *)
Destruct(o) ==
  /\ mode \in {"eval", "released"}
  /\ Dying(heap, o)
  /\ heap' = Free(heap, o)
  /\ UNCHANGED <<tree, word, errors, stack, todo, ret, mode>>

(* The expression has its value.                                           *)
Answer ==
  /\ Evaluating /\ todo = NoExpr /\ stack = << >>
  /\ mode' = "returned"
  /\ UNCHANGED <<tree, heap, word, errors, stack, todo, ret>>

(* eval_variable has printed it.                                           *)
Release ==
  /\ mode = "returned" /\ ret # NULL
  /\ heap' = Unref(heap, ret)
  /\ ret' = NULL /\ mode' = "released"
  /\ UNCHANGED <<tree, word, errors, stack, todo>>

(* eval_variable has returned, or there is nothing left to run.            *)
Done ==
  /\ \/ mode = "crashed"
     \/ mode = "returned" /\ ret = NULL
     \/ mode = "released" /\ Quiet(heap)
  /\ UNCHANGED vars

Next ==
  \/ Identifier \/ IntLiteral \/ StringLiteral \/ BoolLiteral \/ Call \/ Unwind
  \/ Not \/ Negate \/ NegateFails
  \/ Left \/ RightFails \/ Arithmetic \/ Divide \/ Mismatch \/ Compare
  \/ Member \/ NotContainer
  \/ Vector \/ IndexFails \/ NotIndex \/ OutOfRange \/ Element \/ WildElement
  \/ \E o \in Obj : Destruct(o)
  \/ Answer \/ Release \/ Done

Spec == Init /\ [][Next]_vars

-----------------------------------------------------------------------------
(***************************************************************************)
(* Who owns what: containers, the host and the environment, the functions  *)
(* on the stack, and the value on its way from one to the other.           *)
(***************************************************************************)
Held(o) == {i \in DOMAIN stack : stack[i].held = o}

Returned(o) == IF ret = o THEN 1 ELSE 0

Owners(o) ==
  HostHold[o] + Cardinality(CellsOf(heap, o)) + Cardinality(Held(o)) + Returned(o)

Values == Obj \cup Static \cup {NULL}

TypeOK ==
  /\ heap \in HeapType
  /\ word \in [Obj -> Words]
  /\ errors \in Nat
  /\ ret \in Values
  /\ \A i \in DOMAIN stack : stack[i].held \in Values
  /\ mode \in {"eval", "returned", "released", "crashed"}

(* Every count is the number of owners, after every step: no operator, no  *)
(* key and no failure on either side keeps or gives away a reference too   *)
(* many.                                                                   *)
Balanced ==
  /\ TypeOK
  /\ \A o \in Obj : heap.rc[o] = Owners(o)

(* What the host stored is as it was: a value comes with one reference, a  *)
(* new object comes alone, a failure and a caller that is done leave the   *)
(* heap of before.  Render takes this for granted: its Value and Keep are  *)
(* one step.                                                               *)
HostUntouched ==
  /\ mode = "returned" =>
       heap = IF ret \in Obj /\ HostHeap.kind[ret] = "none"
              THEN New(HostHeap, ret, heap.kind[ret]) ELSE Keep(HostHeap, ret)
  /\ mode = "released" /\ Quiet(heap) => heap = HostHeap
  /\ \A o \in Obj : HostHeap.kind[o] # "none" => word[o] = HostWord[o]

=============================================================================
