------------------------------- MODULE Render -------------------------------
(***************************************************************************)
(* Rendering: the evaluator of src/roscha.c, one action per statement that *)
(* can be told apart.  The C stack is the variable stack, a sequence of    *)
(* frames with the top first:                                              *)
(*                                                                         *)
(*   subblocks   eval_subblocks: the blocks still to evaluate              *)
(*   branch      eval_branch: a condition held while its body, or the next *)
(*               branch, is evaluated                                      *)
(*   loop        eval_loop: the objects it owns or borrows and the         *)
(*               position of its iterator                                  *)
(*                                                                         *)
(* env->vars is the object VARS of the heap.  Evaluation changes it: a     *)
(* loop stores "loop" and its item there and must put back what it found.  *)
(* Templates are what the parser leaves: a sequence of blocks and the      *)
(* blocks by name.  A closing tag, which eval_tag ignores, is left out.    *)
(***************************************************************************)
EXTENDS ObjectHeap, Sequences

CONSTANTS
  VARS,         \* the address of env->vars
  LOOP, INDEX,  \* the keys "loop" and "index"
  Tmpl,         \* template names
  Block,        \* names of {% block %} tags
  Pieces,       \* the blocks of the templates, those inside of others too
  Projects,     \* the sets of templates an environment may hold
  HostHeap,     \* the objects of the host, env->vars among them, before it
  HostHold,     \* has stored any; the references it and the environment own
  HostNum,      \* the values of its integers
  HostVar,      \* what the host may store, and where: pairs of key and object
  KeyOrder,     \* the order in which a map's iterator yields its keys
  MaxRenders,   \* bound on the renders of one environment,
  MaxText,      \* on the pieces of text a render appends,
  MaxDepth      \* and on the C stack, in frames

Null == "null"
True == "true"
False == "false"

(* obj_null, obj_true and obj_false are not counted and never free'd.      *)
Static == {Null, True, False}

ASSUME RenderAssumption ==
  /\ {LOOP, INDEX} \subseteq Key
  /\ Static \cap (Obj \cup {NULL}) = {}
  /\ NULL \notin Tmpl /\ IsFiniteSet(Tmpl) /\ MaxRenders \in Nat
  /\ KeyOrder \in Seq(Key)
  /\ \A k \in Key : \E i \in DOMAIN KeyOrder : KeyOrder[i] = k

(* What the parser makes of a text: expressions, blocks whose fields depend*)
(* on what they are, and templates.                                        *)
Expression == [op : {"id", "not"}, key : Key] \cup [op : {"dot"}, key : Key, of : Key]

Choices(ps) == [cond : Expression \cup {NULL}, body : Seq(ps)]

WellFormed(ps) ==
  \A b \in ps :
    /\ b.t \in {"content", "variable", "break", "extends", "block", "if", "for"}
    /\ b.t = "variable" => b.x \in Expression
    /\ b.t = "extends" => b.parent \in Tmpl
    /\ b.t = "block" => b.name \in Block /\ b.body \in Seq(ps)
    /\ b.t = "if" => b.branches \in Seq(Choices(ps))
    /\ b.t = "for" => b.item \in Key /\ b.seq \in Expression /\ b.body \in Seq(ps)

Templates(ps) ==
  {NULL} \cup [blocks : Seq(ps), tblocks : [Block -> Seq(ps) \cup {NULL}]]

ASSUME TemplateAssumption ==
  /\ WellFormed(Pieces)
  /\ \A p \in Projects : p \in [Tmpl -> Templates(Pieces)]

(* What a host that counts its references makes: counts are exact, memory  *)
(* that was never allocated is empty, vectors hold objects as far as they  *)
(* go, and env->vars is not stored anywhere.                               *)
ASSUME HostAssumption ==
  /\ HostHeap \in HeapType /\ HostHold \in [Obj -> Nat] /\ HostNum \in [Obj -> Int]
  /\ \A o \in Obj :
       /\ HostHeap.rc[o] = HostHold[o] + Cardinality(CellsOf(HostHeap, o))
       /\ HostHeap.kind[o] = "none" =>
            HostHeap.rc[o] = 0 /\ HostHeap.cell[o] = EmptyCells /\ HostHeap.len[o] = 0
       /\ HostHeap.kind[o] = "vector" =>
            \A i \in 1 .. HostHeap.len[o] : HostHeap.cell[o][i] # NULL
  /\ VARS \in Obj /\ HostHeap.kind[VARS] = "hmap"
  /\ HostHold[VARS] = 1 /\ CellsOf(HostHeap, VARS) = {}
  /\ HostVar \subseteq Key \X (Obj \ {VARS})

VARIABLES
  heap, num,    \* the objects, and the value of each integer object
  hold,         \* references owned by the host and by the environment
  templates,    \* env->internal->templates
  child,        \* the child field of each template
  evalTmpl,     \* env->internal->eval_tmpl
  brk,          \* env->internal->brk
  errors,       \* the length of env->errors
  mode,         \* what runs: the host, eval_template's lookups, evaluation
  load,         \* the arguments of the running eval_template
  stack, out,   \* the evaluator's frames, and what it has appended to r
  renders,      \* renders started
  start,        \* ghost: the environment when the render started
  path,         \* ghost: the templates this render went through, last first
  lost          \* ghost: references that a return left without an owner

rendering == <<child, evalTmpl, load, mode, path, start>>
vars == <<heap, num, hold, templates, child, evalTmpl, brk, errors, mode, load,
          stack, out, renders, start, path, lost>>

Idle == [vars |-> EmptyCells, clean |-> TRUE, errors |-> 0]

Init ==
  /\ heap = HostHeap /\ hold = HostHold /\ num = HostNum
  /\ templates \in Projects
  /\ child = [t \in Tmpl |-> NULL]
  /\ evalTmpl = NULL /\ brk = FALSE /\ errors = 0
  /\ mode = "idle" /\ load = NULL /\ stack = << >> /\ out = << >>
  /\ renders = 0
  /\ start = Idle
  /\ path = << >>
  /\ lost = [o \in Obj |-> 0]

-----------------------------------------------------------------------------
(***************************************************************************)
(* eval_expression.  A value comes with a reference when it is an object   *)
(* of the heap; on an error there is none, only the message.               *)
(***************************************************************************)
TypeOf(h, v) ==
  CASE v = Null -> "null" [] v \in {True, False} -> "bool" [] OTHER -> h.kind[v]

OrNull(v) == IF v = NULL THEN Null ELSE v

(* The boolean member of the union: an integer's value, or a pointer.      *)
Truthy(h, v) ==
  CASE v \in Static -> v = True
    [] TypeOf(h, v) = "int" -> num[v] # 0
    [] OTHER -> TRUE

Bool(b) == IF b THEN True ELSE False

Value(h, x) ==
  LET v == OrNull(HmapGets(h, VARS, x.key)) IN
  CASE x.op = "id"  -> v
    [] x.op = "not" -> Bool(~Truthy(h, v))
    [] x.op = "dot" -> IF TypeOf(h, v) = "hmap"
                       THEN OrNull(HmapGets(h, v, x.of)) ELSE NULL

Fails(h, x) == Value(h, x) = NULL

(* Variant with a mistake: a value is lent, not given.                    *)
KeepBorrows(h, v) == h

Keep(h, v) == IF v \in Obj THEN Ref(h, v) ELSE h

Fail == errors' = errors + 1

(* The keys of a map, and the one its iterator comes to first.             *)
Keys(h, v) == {k \in Key : h.cell[v][k] # NULL}

NextKey(ks) ==
  KeyOrder[CHOOSE i \in DOMAIN KeyOrder :
             /\ KeyOrder[i] \in ks
             /\ \A j \in DOMAIN KeyOrder : KeyOrder[j] \in ks => i <= j]

Elements(h, v) ==
  IF h.kind[v] = "vector"
  THEN [i \in 1 .. h.len[v] |-> h.cell[v][i]]
  ELSE LET present == SelectSeq(KeyOrder, LAMBDA k : h.cell[v][k] # NULL)
       IN  [i \in DOMAIN present |-> h.cell[v][present[i]]]

Iterable(h, v) == TypeOf(h, v) \in {"vector", "hmap"}

(***************************************************************************)
(* roscha_object_string, which calls itself for the members of containers. *)
(***************************************************************************)
Members(h, v) ==
  IF Iterable(h, v) THEN {Elements(h, v)[i] : i \in DOMAIN Elements(h, v)} ELSE {}

(* The containers that are printed n calls below v.                        *)
Nested(h, v, n) ==
  LET Below[i \in 0 .. MaxDepth] ==
        {w \in IF i = 0 THEN {v} ELSE UNION {Members(h, u) : u \in Below[i - 1]} :
           Iterable(h, w)}
  IN  Below[n]

(* What it appends, as far as renders differ in it: the value of an        *)
(* integer, the members of a container.                                    *)
Text(h, v) ==
  LET Of[w \in Obj \cup Static, n \in 0 .. MaxDepth] ==
        CASE TypeOf(h, w) = "int" -> <<"int", num[w]>>
          [] Iterable(h, w) /\ n > 0 ->
               <<TypeOf(h, w),
                 [i \in DOMAIN Elements(h, w) |-> Of[Elements(h, w)[i], n - 1]]>>
          [] OTHER -> <<TypeOf(h, w), w>>
  IN  Of[v, MaxDepth]

-----------------------------------------------------------------------------
(***************************************************************************)
(* The host.                                                               *)
(***************************************************************************)
HostTurn == mode = "idle" /\ Quiet(heap) /\ renders < MaxRenders

SetVar(k, o) ==
  /\ HostTurn
  /\ hold[o] > 0
  /\ heap' = Unref(HmapSets(heap, VARS, k, o), HmapGets(heap, VARS, k))
  /\ UNCHANGED <<rendering, num, hold, templates, brk, errors, stack, out,
                 renders, lost>>

UnsetVar(k) ==
  /\ HostTurn
  /\ HmapGets(heap, VARS, k) # NULL
  /\ heap' = HmapUnsets(heap, VARS, k)
  /\ UNCHANGED <<rendering, num, hold, templates, brk, errors, stack, out,
                 renders, lost>>

(* The host takes the messages out of env->errors.                         *)
TakeErrors ==
  /\ HostTurn
  /\ errors > 0
  /\ errors' = 0
  /\ UNCHANGED <<rendering, heap, num, hold, templates, brk, stack, out,
                 renders, lost>>

StartRender(t) ==
  /\ HostTurn
  /\ mode' = "load"
  /\ load' = [name |-> t, child |-> NULL]
  /\ renders' = renders + 1
  /\ start' = [vars |-> heap.cell[VARS], clean |-> errors = 0 /\ ~brk,
               errors |-> errors]
  /\ UNCHANGED <<heap, num, hold, templates, child, evalTmpl, brk, errors,
                 stack, out, path, lost>>

-----------------------------------------------------------------------------
(***************************************************************************)
(* eval_template.                                                          *)
(***************************************************************************)
Sub(blocks) == [fn |-> "subblocks", rest |-> blocks, first |-> TRUE]

(* The call returns: what it appended goes to the host.                    *)
Finish ==
  /\ mode' = "idle" /\ load' = NULL /\ out' = << >>
  /\ path' = << >> /\ start' = Idle

Missing ==
  /\ mode = "load"
  /\ templates[load.name] = NULL
  /\ Fail
  /\ Finish
  /\ UNCHANGED <<heap, num, child, evalTmpl, brk, stack, lost>>

(* Variant with a mistake: a template asked for by the host keeps its child.*)
EnterKeepsChild ==
  /\ child' = IF load.child = NULL THEN child
              ELSE [child EXCEPT ![load.name] = load.child]
  /\ evalTmpl' = load.name
  /\ path' = <<load.name>> \o path

Enter ==
  /\ child' = [child EXCEPT ![load.name] = load.child]
  /\ evalTmpl' = load.name
  /\ path' = <<load.name>> \o path

Lookup ==
  LET t == templates[load.name]
      b == Head(t.blocks) IN
  /\ mode = "load"
  /\ t # NULL /\ t.blocks # << >>
  /\ Enter
  /\ IF b.t = "extends"
     THEN /\ load' = [name |-> b.parent, child |-> load.name]
          /\ UNCHANGED <<mode, stack>>
     ELSE /\ mode' = "eval"
          /\ stack' = <<Sub(t.blocks)>>
          /\ UNCHANGED load
  /\ UNCHANGED <<heap, num, brk, errors, out, start, lost>>

(* The first element of a vector without elements is read and followed.    *)
LookupEmpty ==
  /\ mode = "load"
  /\ templates[load.name] # NULL /\ templates[load.name].blocks = << >>
  /\ Enter
  /\ mode' = "crashed"
  /\ UNCHANGED <<heap, num, brk, errors, load, stack, out, start, lost>>

Done == mode = "eval" /\ stack = << >> /\ Quiet(heap)

Return ==
  /\ Done
  /\ evalTmpl' = NULL
  /\ Finish
  /\ UNCHANGED <<heap, num, child, brk, errors, stack, lost>>

-----------------------------------------------------------------------------
(***************************************************************************)
(* eval_subblocks and eval_block.                                          *)
(***************************************************************************)
Evaluating == mode = "eval" /\ stack # << >> /\ Quiet(heap)

Top == Head(stack)

In(fn) == Evaluating /\ Top.fn = fn

(* Errors and a break are looked for after a block, not before the first.  *)
Stop == ~Top.first /\ (errors > 0 \/ brk)

At(t) ==
  /\ In("subblocks")
  /\ Top.rest # << >> /\ ~Stop
  /\ Head(Top.rest).t = t

Cur == Head(Top.rest)

(* The caller's frame once the current block is evaluated.                 *)
Past == <<[Top EXCEPT !.rest = Tail(@), !.first = FALSE]>> \o Tail(stack)

Call(frame) == stack' = <<frame>> \o Past

EndSubblocks ==
  /\ In("subblocks")
  /\ Top.rest = << >> \/ Stop
  /\ stack' = Tail(stack)
  /\ UNCHANGED <<heap, num, brk, errors, out, lost>>

Content ==
  /\ At("content") /\ Len(out) < MaxText
  /\ out' = Append(out, <<"content", Cur.text>>)
  /\ stack' = Past
  /\ UNCHANGED <<heap, num, brk, errors, lost>>

(* A frame is left for every container that is printed inside of another. *)
Prints(v) == Nested(heap, v, MaxDepth - Len(stack)) = {}

Variable ==
  LET v == Value(heap, Cur.x) IN
  /\ At("variable")
  /\ IF Fails(heap, Cur.x)
     THEN Fail /\ UNCHANGED <<heap, out>>
     ELSE /\ Prints(v) /\ Len(out) < MaxText
          /\ out' = Append(out, Text(heap, v))
          /\ heap' = Unref(Keep(heap, v), v)
          /\ UNCHANGED errors
  /\ stack' = Past
  /\ UNCHANGED <<num, brk, lost>>

(* Nothing looks for a container that is a member of itself.               *)
PrintOverflows ==
  /\ At("variable") /\ ~Fails(heap, Cur.x) /\ ~Prints(Value(heap, Cur.x))
  /\ mode' = "overflow"
  /\ UNCHANGED <<heap, num, child, evalTmpl, brk, errors, load, stack, out, start, path, lost>>

(* bool_string returns the string it was given, which sdscat frees when it *)
(* has to move it: then r is freed memory.                                 *)
PrintMoves ==
  /\ At("variable") /\ Value(heap, Cur.x) \in {True, False}
  /\ mode' = "crashed"
  /\ UNCHANGED <<heap, num, child, evalTmpl, brk, errors, load, stack, out, start, path, lost>>

Break ==
  /\ At("break")
  /\ brk' = TRUE
  /\ stack' = Past
  /\ UNCHANGED <<heap, num, errors, out, lost>>

(* An extends tag that is not the first block.                             *)
Extends ==
  /\ At("extends")
  /\ Fail
  /\ stack' = Past
  /\ UNCHANGED <<heap, num, brk, out, lost>>

(***************************************************************************)
(* eval_tblock: the block of the template's furthest descendant that has   *)
(* one of that name, following the child fields from eval_tmpl.            *)
(***************************************************************************)
Descendant[n \in Nat] ==
  IF n = 0 THEN evalTmpl
  ELSE IF Descendant[n - 1] = NULL THEN NULL ELSE child[Descendant[n - 1]]

Overriding(name) ==
  {n \in 0 .. Cardinality(Tmpl) :
     LET t == Descendant[n] IN t # NULL /\ templates[t].tblocks[name] # NULL}

(* Variant with a mistake: the nearest descendant.                        *)
Nearest(name) ==
  CHOOSE n \in Overriding(name) : \A m \in Overriding(name) : n <= m

Furthest(name) ==
  CHOOSE n \in Overriding(name) : \A m \in Overriding(name) : m <= n

(* Variant with a mistake: the tag again, for what is in it.              *)
TBlockAgain ==
  /\ At("block") /\ Len(stack) < MaxDepth
  /\ Call(Sub(<<Cur>>))
  /\ UNCHANGED <<heap, num, brk, errors, out, lost>>

TBlock ==
  /\ At("block") /\ Len(stack) < MaxDepth
  /\ Call(Sub(IF Overriding(Cur.name) = {} THEN Cur.body
              ELSE templates[Descendant[Furthest(Cur.name)]].tblocks[Cur.name]))
  /\ UNCHANGED <<heap, num, brk, errors, out, lost>>

(* Nothing but the stack itself ends a block that is its own override.     *)
Overflow ==
  /\ At("block") /\ Len(stack) >= MaxDepth
  /\ mode' = "overflow"
  /\ UNCHANGED <<heap, num, child, evalTmpl, brk, errors, load, stack, out, start, path, lost>>

(***************************************************************************)
(* eval_branch.  A condition is held until what it decided on has been     *)
(* evaluated, the branches after it included.                              *)
(***************************************************************************)
Alternatives(branches) == [fn |-> "branch", branches |-> branches, cond |-> NULL]

If ==
  /\ At("if")
  /\ Call(Alternatives(Cur.branches))
  /\ UNCHANGED <<heap, num, brk, errors, out, lost>>

Deciding == In("branch") /\ Top.branches # << >>

Chosen == Head(Top.branches)

(* The frame left behind, which only holds the condition.                  *)
Decided(v) == <<[Top EXCEPT !.branches = << >>, !.cond = v]>> \o Tail(stack)

Else ==
  /\ Deciding /\ Chosen.cond = NULL
  /\ stack' = <<Sub(Chosen.body)>> \o Decided(NULL)
  /\ UNCHANGED <<heap, num, brk, errors, out, lost>>

Test ==
  LET v == Value(heap, Chosen.cond) IN
  /\ Deciding /\ Chosen.cond # NULL /\ ~Fails(heap, Chosen.cond)
  /\ heap' = Keep(heap, v)
  /\ stack' = IF Truthy(heap, v) THEN <<Sub(Chosen.body)>> \o Decided(v)
              ELSE IF Len(Top.branches) > 1
              THEN <<Alternatives(Tail(Top.branches))>> \o Decided(v)
              ELSE Decided(v)
  /\ UNCHANGED <<num, brk, errors, out, lost>>

(* A condition that cannot be evaluated is followed all the same.          *)
TestFails ==
  /\ Deciding /\ Chosen.cond # NULL /\ Fails(heap, Chosen.cond)
  /\ Fail
  /\ mode' = "crashed"
  /\ UNCHANGED <<heap, num, child, evalTmpl, brk, load, stack, out, start,
                 path, lost>>

EndBranch ==
  /\ In("branch") /\ Top.branches = << >>
  /\ heap' = Unref(heap, Top.cond)
  /\ stack' = Tail(stack)
  /\ UNCHANGED <<num, brk, errors, out, lost>>

(***************************************************************************)
(* eval_loop.  A frame is at "bind" before the test of the loop, at        *)
(* "unbind" while and after the body is evaluated, then at "loop", "item"  *)
(* and "leave" for the statements after the loop.  owned tells whether     *)
(* outeritem came with the reference that env->vars held: the first        *)
(* roscha_hmap_set of the item takes it over.                              *)
(***************************************************************************)
Unused == {o \in Obj : heap.kind[o] = "none"}

(* The bound that Obj is: two addresses for the locals.                    *)
Room == \E o \in Unused : Unused # {o}

Fresh(used) == CHOOSE o \in Unused : o \notin used

(* The locals of eval_loop once "loop" is set, and the heap they live in.  *)
Prologue ==
  LET loopv  == Fresh({})
      indexv == Fresh({loopv})
      h1 == New(New(heap, loopv, "hmap"), indexv, "int")
      h2 == HmapSets(h1, loopv, INDEX, indexv)
      h3 == HmapSets(h2, VARS, LOOP, loopv)
  IN  [loopv |-> loopv, indexv |-> indexv, heap |-> h3,
       outerloop |-> HmapGets(h2, VARS, LOOP),
       outeritem |-> HmapGets(h3, VARS, Cur.item)]

Loop(p, v) ==
  [fn |-> "loop", at |-> IF Iterable(p.heap, v) THEN "bind" ELSE "loop",
   loopv |-> p.loopv, indexv |-> p.indexv, outerloop |-> p.outerloop,
   outeritem |-> p.outeritem, owned |-> FALSE, seq |-> v,
   iter |-> IF TypeOf(p.heap, v) = "hmap" THEN Keys(p.heap, v) ELSE {},
   item |-> Cur.item, body |-> Cur.body]

For ==
  LET p == Prologue
      v == Value(p.heap, Cur.seq) IN
  /\ At("for") /\ Room /\ ~Fails(p.heap, Cur.seq)
  /\ heap' = Keep(p.heap, v)
  /\ num' = [num EXCEPT ![p.indexv] = 0]
  /\ Call(Loop(p, v))
  /\ errors' = IF Iterable(p.heap, v) THEN errors ELSE errors + 1
  /\ UNCHANGED <<brk, out, lost>>

(* `if (!seq) return r': the locals go without being given back.           *)
ForFails ==
  LET p == Prologue IN
  /\ At("for") /\ Room /\ Fails(p.heap, Cur.seq)
  /\ heap' = p.heap
  /\ num' = [num EXCEPT ![p.indexv] = 0]
  /\ Fail
  /\ stack' = Past
  /\ lost' = [o \in Obj |-> lost[o] + Cardinality(
                {l \in {"loopv", "indexv", "outerloop"} : p[l] = o})]
  /\ UNCHANGED <<brk, out>>

InLoop(at) == In("loop") /\ Top.at = at

Goto(at) == stack' = <<[Top EXCEPT !.at = at]>> \o Tail(stack)

(* What a loop has still to visit: a vector from indexv->integer on, which *)
(* is both what the template sees and what the loop counts with, a map     *)
(* from its iterator on.                                                   *)
More(f) ==
  IF heap.kind[f.seq] = "vector" THEN num[f.indexv] < heap.len[f.seq] ELSE f.iter # {}

Item(f) ==
  heap.cell[f.seq][IF heap.kind[f.seq] = "vector" THEN num[f.indexv] + 1
                   ELSE NextKey(f.iter)]

(* The index of a map's iteration is counted before the body.              *)
Bind ==
  /\ InLoop("bind") /\ More(Top)
  /\ heap' = HmapSets(heap, VARS, Top.item, Item(Top))
  /\ num' = IF heap.kind[Top.seq] = "hmap"
            THEN [num EXCEPT ![Top.indexv] = @ + 1] ELSE num
  /\ stack' = <<Sub(Top.body),
                [Top EXCEPT !.at = "unbind", !.owned = TRUE,
                            !.iter = IF @ = {} THEN @ ELSE @ \ {NextKey(@)}]>>
              \o Tail(stack)
  /\ UNCHANGED <<brk, errors, out, lost>>

Exhausted ==
  /\ InLoop("bind") /\ ~More(Top)
  /\ Goto("loop")
  /\ UNCHANGED <<heap, num, brk, errors, out, lost>>

(* Variants with a mistake: the break is left set; the break is looked at *)
(* before the item is taken out; the index is not counted.                *)
UnbindKeepsBreak ==
  /\ InLoop("unbind")
  /\ heap' = HmapUnsets(heap, VARS, Top.item)
  /\ IF errors > 0 \/ brk THEN Goto("loop") /\ UNCHANGED num
     ELSE /\ Goto("bind")
          /\ num' = IF heap.kind[Top.seq] = "vector"
                    THEN [num EXCEPT ![Top.indexv] = @ + 1] ELSE num
  /\ UNCHANGED <<brk, errors, out, lost>>

UnbindAfterBreak ==
  /\ InLoop("unbind")
  /\ IF errors > 0 \/ brk THEN Goto("loop") /\ UNCHANGED <<heap, num>>
     ELSE /\ Goto("bind")
          /\ heap' = HmapUnsets(heap, VARS, Top.item)
          /\ num' = IF heap.kind[Top.seq] = "vector"
                    THEN [num EXCEPT ![Top.indexv] = @ + 1] ELSE num
  /\ brk' = FALSE
  /\ UNCHANGED <<errors, out, lost>>

UnbindNoCount ==
  /\ InLoop("unbind")
  /\ heap' = HmapUnsets(heap, VARS, Top.item)
  /\ IF errors > 0 \/ brk THEN Goto("loop") ELSE Goto("bind")
  /\ brk' = (brk /\ errors > 0)
  /\ UNCHANGED <<num, errors, out, lost>>

(* After the body: an error leaves the loop before a break is looked at.   *)
(* The index of a vector's iteration is counted when the loop goes on.     *)
Unbind ==
  /\ InLoop("unbind")
  /\ heap' = HmapUnsets(heap, VARS, Top.item)
  /\ IF errors > 0 THEN Goto("loop") /\ UNCHANGED <<brk, num>>
     ELSE IF brk THEN Goto("loop") /\ brk' = FALSE /\ UNCHANGED num
     ELSE /\ Goto("bind")
          /\ num' = IF heap.kind[Top.seq] = "vector"
                    THEN [num EXCEPT ![Top.indexv] = @ + 1] ELSE num
          /\ UNCHANGED brk
  /\ UNCHANGED <<errors, out, lost>>

(* The reference that env->vars held on its old "loop" is dropped, and one *)
(* on loopv given back for it.  The two are the same object, unless a loop *)
(* in the body lost its own.                                               *)
Swapped(old) ==
  [o \in Obj |-> lost[o] + (IF o = old THEN 1 ELSE 0) - (IF o = Top.loopv THEN 1 ELSE 0)]

(* Variant with a mistake: the reference that env->vars held on loopv is  *)
(* not given back.                                                        *)
RestoreLoopOnce ==
  /\ InLoop("loop")
  /\ IF Top.outerloop # NULL
     THEN /\ heap' = Unref(HmapSets(heap, VARS, LOOP, Top.outerloop), Top.outerloop)
          /\ lost' = Swapped(HmapGets(heap, VARS, LOOP))
     ELSE heap' = HmapUnsets(heap, VARS, LOOP) /\ UNCHANGED lost
  /\ Goto("item")
  /\ UNCHANGED <<num, brk, errors, out>>

RestoreLoop ==
  /\ InLoop("loop")
  /\ IF Top.outerloop # NULL
     THEN /\ heap' = Unref(Unref(HmapSets(heap, VARS, LOOP, Top.outerloop),
                                 Top.outerloop), Top.loopv)
          /\ lost' = Swapped(HmapGets(heap, VARS, LOOP))
     ELSE heap' = HmapUnsets(heap, VARS, LOOP) /\ UNCHANGED lost
  /\ Goto("item")
  /\ UNCHANGED <<num, brk, errors, out>>

RestoreItem ==
  /\ InLoop("item")
  /\ heap' = IF Top.outeritem # NULL
             THEN Unref(HmapSets(heap, VARS, Top.item, Top.outeritem),
                        Top.outeritem)
             ELSE heap
  /\ Goto("leave")
  /\ UNCHANGED <<num, brk, errors, out, lost>>

Leave ==
  /\ InLoop("leave")
  /\ heap' = Unref(Unref(Unref(heap, Top.indexv), Top.loopv), Top.seq)
  /\ stack' = Tail(stack)
  /\ UNCHANGED <<num, brk, errors, out, lost>>

(***************************************************************************)
(* The destructors that an unref has started.                              *)
(***************************************************************************)
Destruct(o) ==
  /\ Dying(heap, o)
  /\ \/ heap.cell[o] = EmptyCells /\ heap' = Free(heap, o)
     \/ \E s \in Slot : heap.cell[o][s] # NULL /\ heap' = Reap(heap, o, s)
  /\ UNCHANGED <<num, brk, errors, stack, out, lost>>

Host ==
  \/ \E kv \in HostVar : SetVar(kv[1], kv[2]) \/ UnsetVar(kv[1])
  \/ TakeErrors
  \/ \E t \in Tmpl : StartRender(t)

(* The steps inside eval_subblocks and the functions it calls leave the    *)
(* call of eval_template alone.                                            *)
Evaluate ==
  /\ \/ EndSubblocks \/ Content \/ Variable \/ Break \/ Extends \/ TBlock
     \/ If \/ Else \/ Test \/ EndBranch
     \/ For \/ ForFails \/ Bind \/ Exhausted \/ Unbind
     \/ RestoreLoop \/ RestoreItem \/ Leave
     \/ \E o \in Obj : Destruct(o)
  /\ UNCHANGED rendering

Eval ==
  /\ \/ Missing \/ Lookup \/ LookupEmpty \/ Return \/ Evaluate
     \/ TestFails \/ Overflow \/ PrintOverflows \/ PrintMoves
  /\ UNCHANGED <<hold, templates, renders>>

Next == Host \/ Eval

Spec == Init /\ [][Next]_vars

(* roscha_env_render is a call: once begun it runs.  The host need never   *)
(* call.                                                                   *)
FairSpec == Spec /\ WF_vars(Eval)

-----------------------------------------------------------------------------
(***************************************************************************)
(* Who owns what: the cells of containers, the host and the environment,   *)
(* and the locals of the functions on the stack.                           *)
(***************************************************************************)
Locals == {"cond", "loopv", "indexv", "seq", "outerloop", "outeritem"}

Holds(f, l, o) ==
  \/ f.fn = "branch" /\ l = "cond" /\ f.cond = o
  \/ /\ f.fn = "loop"
     /\ \/ l = "loopv" /\ f.loopv = o
        \/ l = "indexv" /\ f.indexv = o
        \/ l = "seq" /\ f.seq = o
        \/ l = "outerloop" /\ f.at \notin {"item", "leave"} /\ f.outerloop = o
        \/ l = "outeritem" /\ f.owned /\ f.at # "leave" /\ f.outeritem = o

LocalIn(st, o) == {p \in (DOMAIN st) \X Locals : Holds(st[p[1]], p[2], o)}

Local(o) == LocalIn(stack, o)

Owners(o) == hold[o] + Cardinality(CellsOf(heap, o)) + Cardinality(Local(o))

-----------------------------------------------------------------------------
Frame ==
  LET pointer == Obj \cup {NULL}
      value   == Obj \cup Static
  IN  [fn : {"subblocks"}, rest : Seq(Pieces), first : BOOLEAN]
        \cup [fn : {"branch"}, branches : Seq(Choices(Pieces)), cond : value \cup {NULL}]
        \cup [fn : {"loop"}, at : {"bind", "unbind", "loop", "item", "leave"},
              loopv : Obj, indexv : Obj, outerloop : pointer, outeritem : pointer,
              owned : BOOLEAN, seq : value, iter : SUBSET Key, item : Key,
              body : Seq(Pieces)]

TypeOK ==
  /\ heap \in HeapType
  /\ num \in [Obj -> Int]
  /\ hold \in [Obj -> Nat] /\ lost \in [Obj -> Nat]
  /\ child \in [Tmpl -> Tmpl \cup {NULL}]
  /\ evalTmpl \in Tmpl \cup {NULL}
  /\ brk \in BOOLEAN
  /\ errors \in Nat /\ renders \in 0 .. MaxRenders
  /\ mode \in {"idle", "load", "eval", "crashed", "overflow"}
  /\ load \in {NULL} \cup [name : Tmpl, child : Tmpl \cup {NULL}]
  /\ stack \in Seq(Frame)

(* Every count is the number of owners, and of references that were lost,  *)
(* through every step of a render:                                         *)
(* what eval_loop takes over from a set of "loop" and of its item it gives *)
(* back, and a condition or a sequence in use is held.                     *)
RefAccounting ==
  /\ TypeOK
  /\ \A o \in Obj : heap.rc[o] = Owners(o) + lost[o]

(* The objects the functions on the stack will still touch are alive,      *)
(* those they only borrow included: the items of a sequence, and the item  *)
(* that a loop over an empty sequence never took over.                     *)
Ahead(f) ==
  {heap.cell[f.seq][s] : s \in IF heap.kind[f.seq] = "vector"
                              THEN num[f.indexv] + 1 .. heap.len[f.seq] ELSE f.iter}

Borrowed(f) ==
  IF f.fn # "loop" THEN {}
  ELSE (IF f.at = "leave" THEN {} ELSE {f.outeritem})
         \cup (IF f.at \in {"bind", "unbind"}
               THEN Ahead(f) ELSE {})

NoDangling ==
  /\ \A o \in Obj : Owners(o) > 0 => Live(heap, o) /\ heap.kind[o] # "none"
  /\ \A i \in DOMAIN stack : \A o \in Borrowed(stack[i]) \cap Obj : Live(heap, o)

(* A render leaves env->vars as it found it, shadowed variables and an     *)
(* outer "loop" included, however its loops were left.  Only a render that *)
(* adds an error may leave "loop" behind.                                  *)
ScopeRestored ==
  Done => \A k \in Key : \/ HmapGets(heap, VARS, k) = start.vars[k]
                          \/ (k = LOOP /\ errors > start.errors)

(* The child fields from eval_tmpl on spell the templates this render came *)
(* through, the one asked for last: no child of an earlier render is left  *)
(* on the way, although nothing clears the field after a render.           *)
ChainIsExtendsPath ==
  mode = "eval" =>
    \A n \in 0 .. Cardinality(Tmpl) :
      Descendant[n] = IF n < Len(path) THEN path[n + 1] ELSE NULL

(* What can be evaluated outside of any loop is in ps, overriding blocks   *)
(* of whatever template included, and nothing in ps is a break.            *)
Outside(p, ps) ==
  /\ \A t \in Tmpl : p[t] # NULL /\ p[t].blocks # << >> =>
       Head(p[t].blocks).t = "extends" \/ p[t].blocks \in Seq(ps)
  /\ \A b \in ps :
       /\ b.t # "break"
       /\ b.t = "if" => b.branches \in Seq(Choices(ps))
       /\ b.t = "block" =>
            /\ b.body \in Seq(ps)
            /\ \A t \in Tmpl : p[t] # NULL /\ p[t].tblocks[b.name] # NULL =>
                 p[t].tblocks[b.name] \in Seq(ps)

(* A loop consumes the break of its body and no more: a break neither      *)
(* leaves two loops nor outlives the render, where eval_subblocks would    *)
(* stop the next one after its first block.                                *)
BreakConsumed == Done /\ start.clean => ~brk

(* The names of the blocks in a body, in those of its tags too.            *)
Within(b) ==
  CASE b.t \in {"for", "block"} -> {b.body[i] : i \in DOMAIN b.body}
    [] b.t = "if" -> UNION {{c.body[i] : i \in DOMAIN c.body} :
                             c \in {b.branches[j] : j \in DOMAIN b.branches}}
    [] OTHER -> {}

NamedBlocks(body) ==
  LET Deep[n \in 0 .. MaxDepth] ==
        IF n = 0 THEN {body[i] : i \in DOMAIN body}
        ELSE Deep[n - 1] \cup UNION {Within(b) : b \in Deep[n - 1]}
  IN  {b.name : b \in {c \in Deep[MaxDepth] : c.t = "block"}}

BlockCircle(circle) ==
  \A b \in circle :
    /\ Overriding(b) # {}
    /\ circle \cap NamedBlocks(templates[Descendant[Furthest(b)]].tblocks[b]) # {}

ContainerCircle(circle) == \A o \in circle : circle \cap Members(heap, o) # {}

(* The stack overflows only where blocks, as they are overridden, stand in *)
(* each other's bodies in a circle, or where what is printed leads to      *)
(* containers that hold each other in one.                                 *)
OverflowsInCircles ==
  mode = "overflow" =>
    \/ \E circle \in SUBSET Block \ {{}} : BlockCircle(circle)
    \/ /\ Cur.t = "variable"
       /\ \E n \in 0 .. MaxDepth, circle \in SUBSET Obj \ {{}} :
            /\ ContainerCircle(circle)
            /\ circle \cap Nested(heap, Value(heap, Cur.x), n) # {}

(* roscha_env_render returns, or there is no more stack.                   *)
RenderEnds == mode \in {"load", "eval"} ~> mode \in {"idle", "crashed", "overflow"}
=============================================================================
