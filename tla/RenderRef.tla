----------------------------- MODULE RenderRef -----------------------------
(***************************************************************************)
(* What a template means: a definition by recursion over its blocks, with  *)
(* an environment that is a value, so that a loop's item and its "loop"    *)
(* are gone after the loop without anyone restoring them.  OutputMatches   *)
(* compares the evaluator of Render with it.                               *)
(***************************************************************************)
EXTENDS Render

(***************************************************************************)
(* Environments and values.  env.index is the index of the innermost loop, *)
(* NoLoop outside loops: "loop" is the variable of the host, if any.       *)
(***************************************************************************)
NoLoop == -1

Object(o)  == [is |-> "object", o |-> o]
Number(n)  == [is |-> "number", n |-> n]
LoopVar(n) == [is |-> "loop", n |-> n]
Wrong      == [is |-> "wrong"]

RefLookup(env, k) ==
  IF k = LOOP /\ env.index # NoLoop THEN LoopVar(env.index)
  ELSE Object(OrNull(env.vars[k]))

Member(v, k) ==
  CASE v.is = "loop" -> IF k = INDEX THEN Number(v.n) ELSE Object(Null)
    [] v.is = "object" /\ TypeOf(heap, v.o) = "hmap"
         -> Object(OrNull(heap.cell[v.o][k]))
    [] OTHER -> Wrong

IsTrue(v) ==
  CASE v.is = "number" -> v.n # 0
    [] v.is = "object" -> Truthy(heap, v.o)
    [] OTHER -> TRUE

Meaning(env, x) ==
  CASE x.op = "id"  -> RefLookup(env, x.key)
    [] x.op = "not" -> Object(Bool(~IsTrue(RefLookup(env, x.key))))
    [] x.op = "dot" -> Member(RefLookup(env, x.key), x.of)

Printed(v) ==
  CASE v.is = "number" -> <<"int", v.n>>
    [] v.is = "loop"   -> <<"hmap", << <<"int", v.n>> >> >>
    [] v.is = "object" -> Text(heap, v.o)

(* The items of a sequence, NULL for what is not one.                      *)
Items(v) ==
  CASE v.is = "loop" -> <<Number(v.n)>>
    [] v.is = "object" /\ Iterable(heap, v.o)
         -> [i \in DOMAIN Elements(heap, v.o) |-> Object(Elements(heap, v.o)[i])]
    [] OTHER -> NULL

(* loop.index counts from 0 over a vector and from 1 over a map.           *)
FirstIndex(v) == IF v.is = "object" /\ TypeOf(heap, v.o) = "vector" THEN 0 ELSE 1

-----------------------------------------------------------------------------
(***************************************************************************)
(* Results: the text, and how it ended.                                    *)
(***************************************************************************)
Result(text, end) == [text |-> text, end |-> end]

Says(text) == Result(<<text>>, "normal")
Nothing    == Result(<< >>, "normal")
Failure    == Result(<< >>, "error")

After(r, s) == Result(r.text \o s.text, s.end)

(* The block of that name in the template furthest down the extends path.  *)
Override(tb) ==
  LET with == {n \in DOMAIN path : templates[path[n]].tblocks[tb.name] # NULL}
  IN  IF with = {} THEN tb.body
      ELSE templates[path[CHOOSE n \in with : \A m \in with : m <= n]]
             .tblocks[tb.name]

(* The variables of an iteration.  An item that is a number, the member of *)
(* "loop", does not occur in the projects of the runs.                     *)
Iteration(env, item, v, n) ==
  [vars |-> [env.vars EXCEPT ![item] = v.o], index |-> n]

RECURSIVE Denote(_, _), DenoteOne(_, _), DenoteIf(_, _), DenoteLoop(_, _, _, _)

Denote(blocks, env) ==
  IF blocks = << >> THEN Nothing
  ELSE LET r == DenoteOne(Head(blocks), env)
       IN  IF r.end = "normal" THEN After(r, Denote(Tail(blocks), env)) ELSE r

DenoteOne(b, env) ==
  CASE b.t = "content"  -> Says(<<"content", b.text>>)
    [] b.t = "variable" -> LET v == Meaning(env, b.x)
                           IN  IF v = Wrong THEN Failure ELSE Says(Printed(v))
    [] b.t = "break"    -> Result(<< >>, "break")
    [] b.t = "extends"  -> Failure
    [] b.t = "block"    -> Denote(Override(b), env)
    [] b.t = "if"       -> DenoteIf(b.branches, env)
    [] b.t = "for" ->
         LET v == Meaning(env, b.seq)
         IN  IF v = Wrong \/ Items(v) = NULL THEN Failure
             ELSE DenoteLoop(b, Items(v), FirstIndex(v), env)

DenoteIf(branches, env) ==
  CASE branches = << >> -> Nothing
    [] branches # << >> /\ Head(branches).cond = NULL
         -> Denote(Head(branches).body, env)
    [] OTHER -> IF IsTrue(Meaning(env, Head(branches).cond))
                THEN Denote(Head(branches).body, env)
                ELSE DenoteIf(Tail(branches), env)

DenoteLoop(b, items, n, env) ==
  IF items = << >> THEN Nothing
  ELSE LET r == Denote(b.body, Iteration(env, b.item, Head(items), n))
       IN  CASE r.end = "error" -> r
             [] r.end = "break" -> Result(r.text, "normal")
             [] OTHER -> After(r, DenoteLoop(b, Tail(items), n + 1, env))

-----------------------------------------------------------------------------
(* A render that finds no errors and no break left over appends what the   *)
(* template means for the variables it started with, stops at the first    *)
(* block that fails, and reports an error exactly when one did: whatever   *)
(* its loops did to env->vars on the way was never visible outside them.   *)
OutputMatches ==
  Done /\ start.clean =>
    LET r == Denote(templates[evalTmpl].blocks,
                    [vars |-> start.vars, index |-> NoLoop])
    IN  out = r.text /\ (errors > 0 <=> r.end = "error")
=============================================================================
