---------------------------- MODULE RenderProofs ----------------------------
(***************************************************************************)
(* A render keeps its books, whatever the templates, the host's objects    *)
(* and the depth of the stack.                                             *)
(***************************************************************************)
EXTENDS Render, ObjectHeapProofs, SequenceTheorems, WellFoundedInduction

(* A loop whose item is called "loop" breaks what follows: the run         *)
(* MCRenderItem shows it.                                                  *)
NoLoopItem == \A b \in Pieces : b.t = "for" => b.item # LOOP

-----------------------------------------------------------------------------
(* The way a render came: every template on it extends the one before it.  *)
Inherits(p, t) ==
  /\ p[t] # NULL /\ p[t].blocks # << >>
  /\ Head(p[t].blocks).t = "extends"

Parent(p, t) == Head(p[t].blocks).parent

Newest == IF path = << >> THEN NULL ELSE path[1]

Chained ==
  \A i \in DOMAIN path : child[path[i]] = IF i < Len(path) THEN path[i + 1] ELSE NULL

Distinct == \A i, j \in DOMAIN path : path[i] = path[j] => i = j

(* Either the children are exact, or the templates extend each other in a  *)
(* circle and none of them is ever evaluated.                              *)
Climbing ==
  /\ load \in [name : Tmpl, child : Tmpl \cup {NULL}]
  /\ load.child = Newest
  /\ \A i \in DOMAIN path :
       /\ Inherits(templates, path[i])
       /\ Parent(templates, path[i]) = IF i = 1 THEN load.name ELSE path[i - 1]
  /\ (\E i \in DOMAIN path : path[i] = load.name) \/ (Distinct /\ Chained)

Trail ==
  /\ templates \in Projects
  /\ child \in [Tmpl -> Tmpl \cup {NULL}]
  /\ evalTmpl \in Tmpl \cup {NULL}
  /\ mode \in {"idle", "load", "eval", "crashed", "overflow"}
  /\ path \in Seq(Tmpl) /\ \A i \in DOMAIN path : templates[path[i]] # NULL
  /\ mode = "idle" => path = << >>
  /\ mode = "load" => Climbing
  /\ mode = "eval" => path # << >> /\ Chained /\ evalTmpl = Newest

-----------------------------------------------------------------------------
(* Sequences with one element more in front, and with one less.            *)
LEMMA Consed ==
  ASSUME NEW A, NEW f \in A, NEW s \in Seq(A), NEW t, t = <<f>> \o s
  PROVE  /\ t \in Seq(A) /\ t # << >> /\ Len(t) = Len(s) + 1 /\ Len(s) \in Nat
         /\ DOMAIN s = 1 .. Len(s) /\ DOMAIN t = 1 .. Len(s) + 1
         /\ t[1] = f /\ \A i \in 1 .. Len(s) : t[i + 1] = s[i]
         /\ Head(t) = f /\ Tail(t) = s
<1>1. <<f>> \in Seq(A) /\ Len(<<f>>) = 1 /\ <<f>>[1] = f
  OBVIOUS
<1>2. /\ t \in Seq(A) /\ Len(t) = Len(<<f>>) + Len(s)
      /\ \A i \in 1 .. Len(<<f>>) + Len(s) :
           t[i] = IF i <= Len(<<f>>) THEN <<f>>[i] ELSE s[i - Len(<<f>>)]
  BY <1>1, ConcatProperties
<1>3. Len(s) \in Nat /\ DOMAIN s = 1 .. Len(s) /\ DOMAIN t = 1 .. Len(t)
  BY <1>2, LenProperties
<1>4. t # << >>
  BY <1>1, <1>2, <1>3
<1>5. t[1] = f /\ \A i \in 1 .. Len(s) : t[i + 1] = s[i]
  BY <1>1, <1>2, <1>3
<1>6. Head(t) = f
  BY <1>5
<1>7. Tail(t) \in Seq(A) /\ Len(Tail(t)) = Len(s)
      /\ \A i \in 1 .. Len(s) : Tail(t)[i] = s[i]
  BY <1>1, <1>2, <1>3, <1>4, <1>5, HeadTailProperties
<1>8. Tail(t) = s
  BY <1>7, SeqEqual
<1> QED
  BY <1>1, <1>2, <1>3, <1>4, <1>5, <1>6, <1>8

LEMMA Split ==
  ASSUME NEW A, NEW s \in Seq(A), s # << >>
  PROVE  /\ Head(s) \in A /\ Tail(s) \in Seq(A) /\ s = <<Head(s)>> \o Tail(s)
         /\ Head(s) = s[1]
BY HeadTailProperties, ConcatSimplifications

LEMMA Empty ==
  ASSUME NEW A
  PROVE  << >> \in Seq(A) /\ DOMAIN << >> = {} /\ Len(<< >>) = 0
OBVIOUS

-----------------------------------------------------------------------------
(* What the functions on the stack own.                                    *)
Weight(f, o) == Cardinality({l \in Locals : Holds(f, l, o)})

Held(st, o) == Cardinality(LocalIn(st, o))

LEMMA LocalsFinite ==
  ASSUME NEW f, NEW o
  PROVE  /\ IsFiniteSet(Locals)
         /\ IsFiniteSet({l \in Locals : Holds(f, l, o)})
         /\ Weight(f, o) \in Nat
<1>1. IsFiniteSet(Locals)
  <2>1. IsFiniteSet({"cond"} \cup {"loopv"})
    BY FS_Singleton, FS_AddElement
  <2>2. IsFiniteSet(({"cond"} \cup {"loopv"}) \cup {"indexv"})
    BY <2>1, FS_AddElement
  <2>3. IsFiniteSet((({"cond"} \cup {"loopv"}) \cup {"indexv"}) \cup {"seq"})
    BY <2>2, FS_AddElement
  <2>4. IsFiniteSet(((({"cond"} \cup {"loopv"}) \cup {"indexv"}) \cup {"seq"})
                      \cup {"outerloop"})
    BY <2>3, FS_AddElement
  <2>5. IsFiniteSet((((({"cond"} \cup {"loopv"}) \cup {"indexv"}) \cup {"seq"})
                      \cup {"outerloop"}) \cup {"outeritem"})
    BY <2>4, FS_AddElement
  <2>6. Locals = ((((({"cond"} \cup {"loopv"}) \cup {"indexv"}) \cup {"seq"})
                      \cup {"outerloop"}) \cup {"outeritem"})
    BY DEF Locals
  <2> QED
    BY <2>5, <2>6
<1>2. {l \in Locals : Holds(f, l, o)} \subseteq Locals
  OBVIOUS
<1> QED
  BY <1>1, <1>2, FS_Subset, FS_CardinalityType DEF Weight

LEMMA HeldFinite ==
  ASSUME NEW A, NEW st \in Seq(A), NEW o
  PROVE  IsFiniteSet(LocalIn(st, o)) /\ Held(st, o) \in Nat
<1>1. DOMAIN st = 1 .. Len(st) /\ Len(st) \in Nat
  BY LenProperties
<1>2. IsFiniteSet(1 .. Len(st))
  BY <1>1, FS_Interval
<1>5. IsFiniteSet(Locals)
  BY LocalsFinite
<1>4. IsFiniteSet((DOMAIN st) \X Locals)
  BY <1>1, <1>2, <1>5, FS_Product
<1>3. LocalIn(st, o) \subseteq (DOMAIN st) \X Locals
  BY DEF LocalIn
<1> QED
  BY <1>3, <1>4, FS_Subset, FS_CardinalityType DEF Held

LEMMA HeldNothing ==
  ASSUME NEW o
  PROVE  Held(<< >>, o) = 0
<1>1. LocalIn(<< >>, o) = {}
  BY DEF LocalIn
<1> QED
  BY <1>1, FS_EmptySet DEF Held

(* A function more holds what its locals do.                               *)
LEMMA HeldCons ==
  ASSUME NEW A, NEW f \in A, NEW s \in Seq(A), NEW o
  PROVE  Held(<<f>> \o s, o) = Weight(f, o) + Held(s, o)
<1> DEFINE t == <<f>> \o s
<1>0. t = <<f>> \o s
  OBVIOUS
<1> HIDE DEF t
<1> DEFINE old == LocalIn(s, o)
           own == {l \in Locals : Holds(f, l, o)}
           up == {p \in LocalIn(t, o) : p[1] # 1}
           top == {p \in LocalIn(t, o) : p[1] = 1}
           g == [p \in old |-> <<p[1] + 1, p[2]>>]
           h == [l \in own |-> <<1, l>>]
<1>1. /\ DOMAIN s = 1 .. Len(s) /\ DOMAIN t = 1 .. Len(s) + 1 /\ Len(s) \in Nat
      /\ t \in Seq(A) /\ t[1] = f /\ \A i \in 1 .. Len(s) : t[i + 1] = s[i]
  BY <1>0, Consed
<1>2. \A i, l : <<i, l>> \in old <=> i \in 1 .. Len(s) /\ l \in Locals /\ Holds(s[i], l, o)
  BY <1>1 DEF LocalIn
<1>3. \A i, l : <<i, l>> \in up <=>
        i \in 2 .. Len(s) + 1 /\ l \in Locals /\ Holds(s[i - 1], l, o)
  <2>1. \A i \in 2 .. Len(s) + 1 : i - 1 \in 1 .. Len(s) /\ t[i] = s[i - 1]
    BY <1>1
  <2> QED
    BY <1>1, <2>1 DEF LocalIn
<1>4. \A i, l : <<i, l>> \in top <=> i = 1 /\ l \in own
  BY <1>1 DEF LocalIn
<1>5. /\ \A p \in old : p = <<p[1], p[2]>>
      /\ \A p \in up : p = <<p[1], p[2]>>
      /\ \A p \in top : p = <<p[1], p[2]>>
  BY DEF LocalIn
<1>6. /\ LocalIn(t, o) = up \cup top /\ up \cap top = {}
  OBVIOUS
<1>7. IsFiniteSet(old) /\ Cardinality(old) = Held(s, o)
  BY HeldFinite DEF Held
<1>8. IsFiniteSet(own) /\ Cardinality(own) = Weight(f, o)
  BY LocalsFinite DEF Weight
<1> HIDE DEF old, own, up, top
<1>9. IsFiniteSet(up) /\ Cardinality(up) = Cardinality(old)
  <2>1. g \in [old -> up]
    <3>1. ASSUME NEW p \in old PROVE <<p[1] + 1, p[2]>> \in up
      <4>1. p[1] \in 1 .. Len(s) /\ p[2] \in Locals /\ Holds(s[p[1]], p[2], o)
        BY <1>2, <1>5
      <4>2. p[1] + 1 \in 2 .. Len(s) + 1 /\ (p[1] + 1) - 1 = p[1]
        BY <4>1, <1>1
      <4> QED
        BY <1>3, <4>1, <4>2
    <3> QED
      BY <3>1
  <2>2. \A p, q \in old : g[p] = g[q] => p = q
    <3>1. ASSUME NEW p \in old, NEW q \in old, g[p] = g[q] PROVE p = q
      <4>1. p[1] \in 1 .. Len(s) /\ q[1] \in 1 .. Len(s)
        BY <1>2, <1>5
      <4>2. p[1] + 1 = q[1] + 1 /\ p[2] = q[2]
        BY <3>1
      <4> QED
        BY <1>1, <1>5, <4>1, <4>2
    <3> QED
      BY <3>1
  <2>3. ASSUME NEW q \in up PROVE \E p \in old : g[p] = q
    <3>1. q[1] \in 2 .. Len(s) + 1 /\ q[2] \in Locals /\ Holds(s[q[1] - 1], q[2], o)
      BY <1>3, <1>5
    <3>2. q[1] - 1 \in 1 .. Len(s) /\ (q[1] - 1) + 1 = q[1]
      BY <3>1, <1>1
    <3>3. <<q[1] - 1, q[2]>> \in old
      BY <1>2, <3>1, <3>2
    <3>4. g[<<q[1] - 1, q[2]>>] = q
      BY <3>2, <3>3, <1>5
    <3> QED
      BY <3>3, <3>4
  <2> HIDE DEF g
  <2>4. g \in Injection(old, up)
    BY <2>1, <2>2 DEF Injection, IsInjective
  <2>5. g \in Surjection(old, up)
    BY <2>1, <2>3 DEF Surjection
  <2>6. g \in Bijection(old, up)
    BY <2>4, <2>5 DEF Bijection
  <2> QED
    BY <1>7, <2>6, FS_Bijection DEF ExistsBijection
<1>10. IsFiniteSet(top) /\ Cardinality(top) = Cardinality(own)
  <2>1. h \in [own -> top]
    BY <1>4
  <2>2. \A k, l \in own : h[k] = h[l] => k = l
    OBVIOUS
  <2>3. ASSUME NEW q \in top PROVE \E l \in own : h[l] = q
    BY <1>4, <1>5
  <2> HIDE DEF h
  <2>4. h \in Injection(own, top)
    BY <2>1, <2>2 DEF Injection, IsInjective
  <2>5. h \in Surjection(own, top)
    BY <2>1, <2>3 DEF Surjection
  <2>6. h \in Bijection(own, top)
    BY <2>4, <2>5 DEF Bijection
  <2> QED
    BY <1>8, <2>6, FS_Bijection DEF ExistsBijection
<1>11. Cardinality(up \cup top) = Cardinality(up) + Cardinality(top) - Cardinality({})
  BY <1>6, <1>9, <1>10, FS_Union
<1>12. Cardinality({}) = 0 /\ Cardinality(up) \in Nat /\ Cardinality(top) \in Nat
  BY <1>9, <1>10, FS_EmptySet, FS_CardinalityType
<1>13. Held(t, o) = Cardinality(up \cup top)
  BY <1>6 DEF Held
<1> QED
  BY <1>0, <1>7, <1>8, <1>9, <1>10, <1>11, <1>12, <1>13

(* What each kind of frame holds.                                          *)
LEMMA OneMore ==
  ASSUME NEW S, IsFiniteSet(S), NEW x, x \notin S, NEW n \in {0, 1},
         NEW T, n = 1 => T = S \cup {x}, n = 0 => T = S
  PROVE  IsFiniteSet(T) /\ Cardinality(T) = Cardinality(S) + n
<1>1. Cardinality(S) \in Nat
  BY FS_CardinalityType
<1>2. CASE n = 1
  BY <1>2, FS_AddElement
<1>3. CASE n = 0
  BY <1>1, <1>3
<1> QED
  BY <1>2, <1>3

LEMMA WeightSub ==
  ASSUME NEW f, f.fn = "subblocks", NEW o
  PROVE  Weight(f, o) = 0
<1>1. {l \in Locals : Holds(f, l, o)} = {}
  BY DEF Holds
<1> QED
  BY <1>1, FS_EmptySet DEF Weight

LEMMA WeightBranch ==
  ASSUME NEW f, f.fn = "branch", NEW o
  PROVE  Weight(f, o) = One(f.cond, o)
<1> DEFINE T == {l \in Locals : Holds(f, l, o)}
<1>1. /\ One(f.cond, o) \in {0, 1}
      /\ One(f.cond, o) = 1 => T = {} \cup {"cond"}
      /\ One(f.cond, o) = 0 => T = {}
  BY DEF Holds, Locals, One
<1> HIDE DEF T
<1>2. IsFiniteSet({}) /\ Cardinality({}) = 0 /\ "cond" \notin {}
  BY FS_EmptySet
<1>3. Cardinality(T) = Cardinality({}) + One(f.cond, o)
  BY <1>1, <1>2, OneMore
<1>4. Cardinality(T) = One(f.cond, o)
  BY <1>1, <1>2, <1>3
<1> QED
  BY <1>4 DEF Weight, T

LEMMA WeightLoop ==
  ASSUME NEW f, f.fn = "loop", NEW o
  PROVE  Weight(f, o) =
           One(f.loopv, o) + One(f.indexv, o) + One(f.seq, o)
             + (IF f.at \in {"item", "leave"} THEN 0 ELSE One(f.outerloop, o))
             + (IF f.owned /\ f.at # "leave" THEN One(f.outeritem, o) ELSE 0)
<1> DEFINE n4 == IF f.at \in {"item", "leave"} THEN 0 ELSE One(f.outerloop, o)
           n5 == IF f.owned /\ f.at # "leave" THEN One(f.outeritem, o) ELSE 0
           S(L) == {l \in L : Holds(f, l, o)}
           S0 == S({})
           S1 == S({"loopv"})
           S2 == S({"loopv", "indexv"})
           S3 == S({"loopv", "indexv", "seq"})
           S4 == S({"loopv", "indexv", "seq", "outerloop"})
           S5 == S(Locals)
<1>1. /\ One(f.loopv, o) \in {0, 1} /\ One(f.indexv, o) \in {0, 1} /\ One(f.seq, o) \in {0, 1}
      /\ n4 \in {0, 1} /\ n5 \in {0, 1}
  BY DEF One
<1>2. /\ "loopv" \notin S0 /\ "indexv" \notin S1 /\ "seq" \notin S2 /\ "outerloop" \notin S3
      /\ "outeritem" \notin S4
  OBVIOUS
<1>3. /\ One(f.loopv, o) = 1 => S1 = S0 \cup {"loopv"}
      /\ One(f.loopv, o) = 0 => S1 = S0
  BY DEF Holds, One
<1>4. /\ One(f.indexv, o) = 1 => S2 = S1 \cup {"indexv"}
      /\ One(f.indexv, o) = 0 => S2 = S1
  BY DEF Holds, One
<1>5. /\ One(f.seq, o) = 1 => S3 = S2 \cup {"seq"}
      /\ One(f.seq, o) = 0 => S3 = S2
  BY DEF Holds, One
<1>6. /\ n4 = 1 => S4 = S3 \cup {"outerloop"}
      /\ n4 = 0 => S4 = S3
  BY DEF Holds, One
<1>7. /\ n5 = 1 => S5 = S4 \cup {"outeritem"}
      /\ n5 = 0 => S5 = S4
  BY DEF Holds, Locals, One
<1>8. IsFiniteSet(S0) /\ Cardinality(S0) = 0
  <2>1. S0 = {}
    OBVIOUS
  <2> QED
    BY <2>1, FS_EmptySet
<1>9. Weight(f, o) = Cardinality(S5)
  BY DEF Weight
<1> HIDE DEF S0, S1, S2, S3, S4, S5, n4, n5
<1>11. IsFiniteSet(S1) /\ Cardinality(S1) = Cardinality(S0) + One(f.loopv, o)
  BY <1>1, <1>2, <1>3, <1>8, OneMore
<1>12. IsFiniteSet(S2) /\ Cardinality(S2) = Cardinality(S1) + One(f.indexv, o)
  BY <1>1, <1>2, <1>4, <1>11, OneMore
<1>13. IsFiniteSet(S3) /\ Cardinality(S3) = Cardinality(S2) + One(f.seq, o)
  BY <1>1, <1>2, <1>5, <1>12, OneMore
<1>14. IsFiniteSet(S4) /\ Cardinality(S4) = Cardinality(S3) + n4
  BY <1>1, <1>2, <1>6, <1>13, OneMore
<1>15. IsFiniteSet(S5) /\ Cardinality(S5) = Cardinality(S4) + n5
  BY <1>1, <1>2, <1>7, <1>14, OneMore
<1>16. Weight(f, o) = One(f.loopv, o) + One(f.indexv, o) + One(f.seq, o) + n4 + n5
  BY <1>1, <1>8, <1>9, <1>11, <1>12, <1>13, <1>14, <1>15
<1> QED
  BY <1>16 DEF n4, n5

-----------------------------------------------------------------------------
(* The inductive invariant.  A frame below another has called it, and has  *)
(* nothing to decide when it is on top again; after an error no frame has. *)
Waiting(f) ==
  /\ f.fn = "subblocks" => ~f.first
  /\ f.fn = "branch" => f.branches = << >>
  /\ f.fn = "loop" => f.at = "unbind"

Finishing(f) ==
  /\ f.fn = "subblocks" => ~f.first
  /\ f.fn = "branch" => f.branches = << >>
  /\ f.fn = "loop" => f.at # "bind"

Resting(st) == \A i \in DOMAIN st : Waiting(st[i])

(* What the functions rely on: a branch still to be decided on holds no    *)
(* condition; a loop counts from 0 on, its sequence is nobody's to change, *)
(* and its iterator has pairs of it to come.                               *)
FrameSound(h, n, f) ==
  /\ f.fn = "branch" /\ f.branches # << >> => f.cond = NULL
  /\ f.fn = "loop" =>
       /\ f.item # LOOP /\ n[f.indexv] >= 0
       /\ VARS \notin {f.loopv, f.seq, f.outerloop, f.outeritem}
       /\ f.at = "unbind" => f.owned
       /\ f.at \in {"bind", "unbind"} =>
            /\ f.seq \in Obj /\ h.kind[f.seq] \in {"vector", "hmap"}
            /\ h.kind[f.seq] = "hmap" => f.iter \subseteq Keys(h, f.seq)

Sound(h, n, st) == \A i \in DOMAIN st : FrameSound(h, n, st[i])

(* Between two bodies the item is out of env->vars, unless it was never in.*)
Bound(h, f) ==
  f.fn = "loop" /\ f.at \in {"bind", "loop", "item"} =>
    h.cell[VARS][f.item] = IF f.owned THEN NULL ELSE f.outeritem

Failed == errors > start.errors

Control ==
  /\ Sound(heap, num, stack)
  /\ stack # << >> => Bound(heap, Head(stack)) /\ Resting(Tail(stack))
  /\ mode = "eval" /\ Failed /\ stack # << >> => Finishing(Head(stack))

(* Nothing owns, or is in, memory that is no object; vectors in use have   *)
(* no holes; env->vars is the host's and is stored nowhere.                *)
Shaped(h) ==
  /\ h.kind[VARS] = "hmap"
  /\ \A o \in Obj :
       /\ h.kind[o] = "none" => h.rc[o] = 0 /\ h.cell[o] = EmptyCells
       /\ h.kind[o] = "vector" /\ h.rc[o] > 0 =>
            \A i \in 1 .. h.len[o] : h.cell[o][i] # NULL
       /\ \A s \in Slot : h.cell[o][s] # VARS

Exact(h, st, l) ==
  \A o \in Obj : h.rc[o] = hold[o] + Cells(h, o) + Held(st, o) + l[o]

Books ==
  hold = HostHold /\ Shaped(heap) /\ Exact(heap, stack, lost)

Scope == [Slot -> Obj \cup {NULL}]

Phases ==
  /\ start \in [vars : Scope, clean : BOOLEAN, errors : Nat]
  /\ errors >= start.errors
  /\ mode \in {"idle", "load"} => stack = << >>
  /\ mode = "idle" => start = Idle
  /\ mode = "load" => start.vars = heap.cell[VARS] /\ errors = start.errors

(* When a frame returns, s, what env->vars should hold now, has become t.  *)
Link(f, s, t) ==
  IF f.fn # "loop" THEN t = s
  ELSE /\ f.at \in {"bind", "unbind", "loop"} => s[LOOP] = f.loopv
       /\ t[LOOP] = IF f.at \in {"item", "leave"} THEN s[LOOP] ELSE f.outerloop
       /\ t[f.item] = IF f.at = "leave" THEN s[f.item] ELSE f.outeritem
       /\ \A k \in Slot \ {LOOP, f.item} : t[k] = s[k]

(* From s, through all the frames, to b.                                   *)
Scoped(st, s, b) ==
  \E S \in Seq(Scope) :
    /\ Len(S) = Len(st) + 1 /\ S[1] = s /\ S[Len(S)] = b
    /\ \A i \in DOMAIN st : Link(st[i], S[i], S[i + 1])

(* A loop whose sequence fails leaves its own "loop" behind, and has lost  *)
(* a reference to the one that should be there.                            *)
Agrees(s) ==
  \A k \in Slot :
    \/ heap.cell[VARS][k] = s[k]
    \/ k = LOOP /\ Failed /\ (s[LOOP] \in Obj => lost[s[LOOP]] > 0)

Scopes ==
  mode = "eval" => \E s \in Scope : Scoped(stack, s, start.vars) /\ Agrees(s)

IInv ==
  NoLoopItem /\ TypeOK /\ Trail /\ Control /\ Books /\ Phases /\ Scopes

-----------------------------------------------------------------------------
(* A set of numbers has a least member, and one of bounded numbers has a   *)
(* greatest.                                                               *)
LEMMA Least ==
  ASSUME NEW S, S \subseteq Nat, S # {}
  PROVE  \E n \in S : \A m \in S : n <= m
<1> DEFINE R == OpToRel(<, Nat)
<1>1. IsWellFoundedOn(R, Nat)
  BY NatLessThanWellFounded
<1>2. \A x, y \in Nat : <<x, y>> \in R <=> x < y
  BY DEF OpToRel
<1> HIDE DEF R
<1>3. PICK x \in S : \A y \in S : ~ (<<y, x>> \in R)
  BY <1>1, WFMin
<1>4. ASSUME NEW y \in S PROVE x <= y
  <2>1. x \in Nat /\ y \in Nat /\ ~ (y < x)
    BY <1>2, <1>3, <1>4
  <2> QED
    BY <2>1
<1> QED
  BY <1>4

LEMMA Greatest ==
  ASSUME NEW N \in Nat, NEW S, S \subseteq 0 .. N, S # {}
  PROVE  \E n \in S : \A m \in S : m <= n
<1> DEFINE T == {k \in 0 .. N : N - k \in S}
<1>1. T \subseteq Nat
  OBVIOUS
<1>2. T # {}
  <2>1. PICK n \in S : TRUE
    OBVIOUS
  <2>2. n \in 0 .. N /\ N - n \in 0 .. N /\ N - (N - n) = n
    BY <2>1
  <2> QED
    BY <2>2
<1>3. \A m \in S : m \in 0 .. N /\ N - m \in T
  <2>1. ASSUME NEW m \in S PROVE m \in 0 .. N /\ N - m \in T
    <3>1. m \in 0 .. N /\ N - m \in 0 .. N /\ N - (N - m) = m
      OBVIOUS
    <3> QED
      BY <3>1
  <2> QED
    BY <2>1
<1>4. \A k \in T : k \in 0 .. N /\ N - k \in S
  OBVIOUS
<1> HIDE DEF T
<1>5. PICK k \in T : \A j \in T : k <= j
  BY <1>1, <1>2, Least
<1>6. ASSUME NEW m \in S PROVE m <= N - k
  <2>1. k <= N - m /\ m \in 0 .. N /\ k \in 0 .. N
    BY <1>3, <1>4, <1>5
  <2> QED
    BY <2>1
<1> QED
  BY <1>4, <1>6

-----------------------------------------------------------------------------
(* The templates of a project.                                             *)
LEMMA TemplateParts ==
  ASSUME templates \in Projects, NEW t \in Tmpl, templates[t] # NULL
  PROVE  /\ templates[t].blocks \in Seq(Pieces)
         /\ templates[t].tblocks \in [Block -> Seq(Pieces) \cup {NULL}]
         /\ Inherits(templates, t) => Parent(templates, t) \in Tmpl
<1>1. templates \in [Tmpl -> Templates(Pieces)]
  BY TemplateAssumption
<1>2. templates[t] \in [blocks : Seq(Pieces), tblocks : [Block -> Seq(Pieces) \cup {NULL}]]
  BY <1>1 DEF Templates
<1>3. templates[t].blocks \in Seq(Pieces)
  BY <1>2
<1>4. ASSUME Inherits(templates, t) PROVE Parent(templates, t) \in Tmpl
  <2>1. Head(templates[t].blocks) \in Pieces
    BY <1>3, <1>4, Split DEF Inherits
  <2> QED
    BY <1>4, <2>1, TemplateAssumption DEF Inherits, Parent, WellFormed
<1> QED
  BY <1>2, <1>3, <1>4

LEMMA TrailInit == Init => Trail
<1> SUFFICES ASSUME Init PROVE Trail
  OBVIOUS
<1>1. child \in [Tmpl -> Tmpl \cup {NULL}]
  BY DEF Init
<1> QED
  BY <1>1 DEF Init, Trail

LEMMA TrailEnter ==
  ASSUME Trail, mode = "load", templates[load.name] # NULL, Enter, UNCHANGED templates
  PROVE  /\ load.name \in Tmpl
         /\ child' \in [Tmpl -> Tmpl \cup {NULL}] /\ evalTmpl' = load.name
         /\ path' \in Seq(Tmpl) /\ path' # << >> /\ evalTmpl' = Newest'
         /\ (~ \E i \in DOMAIN path : path[i] = load.name) => Distinct' /\ Chained'
         /\ DOMAIN path' = 1 .. Len(path) + 1 /\ DOMAIN path = 1 .. Len(path)
         /\ Len(path) \in Nat
         /\ path'[1] = load.name /\ \A i \in 1 .. Len(path) : path'[i + 1] = path[i]
         /\ \A i \in DOMAIN path' : templates'[path'[i]] # NULL
<1> DEFINE n == load.name
<1>1. n \in Tmpl /\ load.child = Newest /\ load.child \in Tmpl \cup {NULL}
  BY DEF Trail, Climbing
<1>2. path \in Seq(Tmpl) /\ child \in [Tmpl -> Tmpl \cup {NULL}]
  BY DEF Trail
<1>3. /\ child' = [child EXCEPT ![n] = load.child] /\ evalTmpl' = n
      /\ path' = <<n>> \o path
  BY DEF Enter
<1>4. /\ path' \in Seq(Tmpl) /\ path' # << >> /\ Len(path') = Len(path) + 1
      /\ Len(path) \in Nat
      /\ DOMAIN path = 1 .. Len(path) /\ DOMAIN path' = 1 .. Len(path) + 1
      /\ path'[1] = n /\ \A i \in 1 .. Len(path) : path'[i + 1] = path[i]
  BY <1>1, <1>2, <1>3, Consed
<1>5. child' \in [Tmpl -> Tmpl \cup {NULL}]
  BY <1>1, <1>2, <1>3
<1>6. evalTmpl' = Newest'
  BY <1>3, <1>4 DEF Newest
<1>7. \A i \in 1 .. Len(path) : path[i] \in Tmpl
  BY <1>2, <1>4
<1>8. \A i \in 2 .. Len(path) + 1 : i - 1 \in 1 .. Len(path) /\ path'[i] = path[i - 1]
  <2>1. ASSUME NEW i \in 2 .. Len(path) + 1
        PROVE  i - 1 \in 1 .. Len(path) /\ path'[i] = path[i - 1]
    <3>1. i - 1 \in 1 .. Len(path) /\ (i - 1) + 1 = i
      BY <1>4
    <3> QED
      BY <1>4, <3>1
  <2> QED
    BY <2>1
<1>9. ASSUME ~ \E i \in DOMAIN path : path[i] = n
      PROVE  Distinct' /\ Chained'
  <2>1. Distinct /\ Chained
    BY <1>9 DEF Trail, Climbing
  <2>2. Distinct'
    <3>1. ASSUME NEW i \in 1 .. Len(path) + 1, NEW j \in 1 .. Len(path) + 1,
                 path'[i] = path'[j]
          PROVE  i = j
      <4>1. CASE i = 1 \/ j = 1
        <5>1. \A k \in 2 .. Len(path) + 1 : path'[k] # path'[1]
          BY <1>4, <1>8, <1>9
        <5>2. i \notin 2 .. Len(path) + 1 /\ j \notin 2 .. Len(path) + 1
          BY <3>1, <4>1, <5>1
        <5> QED
          BY <1>4, <3>1, <5>2
      <4>2. CASE i # 1 /\ j # 1
        <5>1. i \in 2 .. Len(path) + 1 /\ j \in 2 .. Len(path) + 1
          BY <1>4, <4>2
        <5>2. i - 1 = j - 1
          BY <1>4, <1>8, <2>1, <3>1, <5>1 DEF Distinct
        <5> QED
          BY <1>4, <5>1, <5>2
      <4> QED
        BY <4>1, <4>2
    <3> QED
      BY <1>4, <3>1 DEF Distinct
  <2>3. ASSUME NEW i \in 1 .. Len(path) + 1
        PROVE  child'[path'[i]] = IF i < Len(path') THEN path'[i + 1] ELSE NULL
    <3>1. CASE i = 1
      <4>1. child'[path'[1]] = load.child
        BY <1>1, <1>2, <1>3, <1>4
      <4>2. CASE path = << >>
        <5>1. Len(path) = 0
          BY <4>2
        <5> QED
          BY <1>1, <1>4, <3>1, <4>1, <4>2, <5>1 DEF Newest
      <4>3. CASE path # << >>
        <5>1. 1 \in 1 .. Len(path)
          BY <1>2, <1>4, <4>3, EmptySeq
        <5>2. path'[1 + 1] = path[1] /\ 1 < Len(path')
          BY <1>4, <5>1
        <5> QED
          BY <1>1, <3>1, <4>1, <4>3, <5>2 DEF Newest
      <4> QED
        BY <4>2, <4>3
    <3>2. CASE i # 1
      <4> DEFINE j == i - 1
      <4>1. j \in 1 .. Len(path) /\ i = j + 1 /\ path'[i] = path[j]
        BY <1>4, <1>8, <3>2
      <4>2. child'[path[j]] = child[path[j]]
        <5>1. path[j] # n /\ path[j] \in Tmpl
          BY <1>4, <1>7, <1>9, <4>1
        <5> QED
          BY <1>2, <1>3, <5>1
      <4>3. child[path[j]] = IF j < Len(path) THEN path[j + 1] ELSE NULL
        BY <1>4, <2>1, <4>1 DEF Chained
      <4>4. j < Len(path) <=> i < Len(path')
        BY <1>4, <4>1
      <4>5. j < Len(path) => path'[i + 1] = path[j + 1]
        <5>1. j < Len(path) => j + 1 \in 1 .. Len(path) /\ (j + 1) + 1 = i + 1
          BY <1>4, <4>1
        <5> QED
          BY <1>4, <5>1
      <4> QED
        BY <4>1, <4>2, <4>3, <4>4, <4>5
    <3> QED
      BY <3>1, <3>2
  <2>4. Chained'
    BY <1>4, <2>3 DEF Chained
  <2> QED
    BY <2>2, <2>4
<1>10. ASSUME NEW i \in DOMAIN path' PROVE templates'[path'[i]] # NULL
  <2>1. CASE i = 1
    BY <1>4, <2>1
  <2>2. CASE i # 1
    <3>1. i \in 2 .. Len(path) + 1
      BY <1>4, <2>2
    <3>2. i - 1 \in DOMAIN path /\ path'[i] = path[i - 1]
      BY <1>4, <1>8, <3>1
    <3> QED
      BY <3>2 DEF Trail
  <2> QED
    BY <2>1, <2>2
<1> QED
  BY <1>1, <1>3, <1>4, <1>5, <1>6, <1>9, <1>10

LEMMA TrailLookup ==
  ASSUME Trail, Lookup, UNCHANGED templates
  PROVE  Trail'
<1> DEFINE n == load.name
           b == Head(templates[n].blocks)
<1>1. /\ mode = "load" /\ templates[n] # NULL /\ templates[n].blocks # << >>
      /\ Enter
      /\ IF b.t = "extends"
         THEN load' = [name |-> b.parent, child |-> n] /\ mode' = mode
         ELSE mode' = "eval"
  BY DEF Lookup
<1>2. /\ n \in Tmpl
      /\ child' \in [Tmpl -> Tmpl \cup {NULL}] /\ evalTmpl' = n
      /\ path' \in Seq(Tmpl) /\ path' # << >> /\ evalTmpl' = Newest'
      /\ \A i \in DOMAIN path' : templates'[path'[i]] # NULL
      /\ (~ \E i \in DOMAIN path : path[i] = n) => Distinct' /\ Chained'
      /\ DOMAIN path' = 1 .. Len(path) + 1 /\ DOMAIN path = 1 .. Len(path)
      /\ Len(path) \in Nat
      /\ path'[1] = n /\ \A i \in 1 .. Len(path) : path'[i + 1] = path[i]
  BY <1>1, TrailEnter
<1>3. Climbing /\ templates \in Projects
  BY <1>1 DEF Trail
<1>4. CASE b.t = "extends"
  <2>1. Inherits(templates, n) /\ Parent(templates, n) = b.parent /\ b.parent \in Tmpl
    BY <1>1, <1>2, <1>3, <1>4, TemplateParts DEF Inherits, Parent
  <2>2. templates' = templates
    OBVIOUS
  <2>3. load'.name = b.parent /\ load'.child = n
        /\ load' \in [name : Tmpl, child : Tmpl \cup {NULL}]
    BY <1>1, <1>2, <1>4, <2>1
  <2>4. ASSUME NEW i \in 1 .. Len(path) + 1
        PROVE  /\ Inherits(templates', path'[i])
               /\ Parent(templates', path'[i]) = IF i = 1 THEN load'.name ELSE path'[i - 1]
    <3>1. CASE i = 1
      BY <1>2, <2>1, <2>2, <2>3, <3>1
    <3>2. CASE i # 1
      <4> DEFINE j == i - 1
      <4>1. j \in 1 .. Len(path) /\ i = j + 1
        BY <1>2, <3>2
      <4>2. path'[i] = path[j]
        BY <1>2, <4>1
      <4>3. /\ Inherits(templates, path[j])
             /\ Parent(templates, path[j]) = IF j = 1 THEN n ELSE path[j - 1]
        BY <1>2, <1>3, <4>1 DEF Climbing
      <4>4. j # 1 => path'[j] = path[j - 1]
        <5>1. j # 1 => j - 1 \in 1 .. Len(path) /\ (j - 1) + 1 = j
          BY <1>2, <4>1
        <5> QED
          BY <1>2, <5>1
      <4>5. Parent(templates, path[j]) = path'[j]
        BY <1>2, <4>3, <4>4
      <4> QED
        BY <3>2, <4>2, <4>3, <4>5, <2>2
    <3> QED
      BY <3>1, <3>2
  <2>5. ASSUME NEW i \in DOMAIN path, path[i] = n
        PROVE  \E j \in DOMAIN path' : path'[j] = load'.name
    <3>1. b.parent = IF i = 1 THEN n ELSE path[i - 1]
      BY <1>3, <2>1, <2>5 DEF Climbing
    <3>2. CASE i = 1
      <4>1. 1 \in DOMAIN path'
        BY <1>2
      <4> QED
        BY <1>2, <2>3, <3>1, <3>2, <4>1
    <3>3. CASE i # 1
      <4>1. i - 1 \in 1 .. Len(path) /\ (i - 1) + 1 = i /\ i \in 1 .. Len(path) + 1
        BY <1>2, <3>3
      <4>2. path'[i] = path[i - 1]
        BY <1>2, <4>1
      <4> QED
        BY <1>2, <2>3, <3>1, <3>3, <4>1, <4>2
    <3> QED
      BY <3>2, <3>3
  <2>6. (\E i \in DOMAIN path' : path'[i] = load'.name) \/ (Distinct' /\ Chained')
    BY <1>2, <2>5
  <2>7. load'.child = Newest'
    BY <1>2, <2>3
  <2>8. Climbing'
    BY <1>2, <2>3, <2>4, <2>6, <2>7 DEF Climbing
  <2>9. mode' = "load"
    BY <1>1, <1>4
  <2> QED
    BY <1>2, <1>3, <2>8, <2>9 DEF Trail
<1>5. CASE b.t # "extends"
  <2>1. ~ \E i \in DOMAIN path : path[i] = n
    BY <1>1, <1>3, <1>5 DEF Climbing, Inherits
  <2>2. mode' = "eval"
    BY <1>1, <1>5
  <2> QED
    BY <1>2, <1>3, <2>1, <2>2 DEF Trail
<1> QED
  BY <1>4, <1>5

LEMMA TrailNext == Trail /\ [Next]_vars => Trail'
<1> SUFFICES ASSUME Trail, [Next]_vars PROVE Trail'
  OBVIOUS
<1> USE DEF Trail
<1>1. ASSUME UNCHANGED rendering, UNCHANGED templates
      PROVE  Trail'
  BY <1>1 DEF rendering, Climbing, Inherits, Parent, Newest, Chained, Distinct
<1>2. CASE Host
  <2>1. ASSUME NEW t \in Tmpl, StartRender(t)
        PROVE  Trail'
    <3>1. /\ mode' = "load" /\ load' = [name |-> t, child |-> NULL] /\ path = << >>
          /\ UNCHANGED <<templates, child, evalTmpl, path>>
      BY <2>1 DEF StartRender, HostTurn
    <3>2. DOMAIN path' = {}
      BY <3>1
    <3>3. Climbing'
      BY <3>1, <3>2 DEF Climbing, Newest, Distinct, Chained
    <3> QED
      BY <3>1, <3>3
  <2>2. ASSUME TakeErrors \/ \E kv \in HostVar : SetVar(kv[1], kv[2]) \/ UnsetVar(kv[1])
        PROVE  UNCHANGED rendering /\ UNCHANGED templates
    BY <2>2 DEF TakeErrors, SetVar, UnsetVar
  <2> QED
    BY <1>1, <1>2, <2>1, <2>2 DEF Host
<1>3. CASE Eval
  <2>1. UNCHANGED templates
    BY <1>3 DEF Eval
  <2>2. CASE Missing
    BY <2>1, <2>2 DEF Missing, Finish
  <2>3. CASE Lookup
    BY <2>1, <2>3, TrailLookup
  <2>4. CASE LookupEmpty
    <3>1. /\ mode' = "crashed"
          /\ child' \in [Tmpl -> Tmpl \cup {NULL}] /\ evalTmpl' \in Tmpl
          /\ path' \in Seq(Tmpl) /\ \A i \in DOMAIN path' : templates'[path'[i]] # NULL
      BY <2>1, <2>4, TrailEnter DEF LookupEmpty
    <3> QED
      BY <2>1, <3>1
  <2>5. CASE Return
    BY <2>1, <2>5 DEF Return, Finish
  <2>6. CASE TestFails
    BY <2>1, <2>6 DEF TestFails
  <2>7. CASE Overflow \/ PrintOverflows \/ PrintMoves
    BY <2>1, <2>7 DEF Overflow, PrintOverflows, PrintMoves
  <2>8. CASE Evaluate
    BY <1>1, <2>1, <2>8 DEF Evaluate
  <2> QED
    BY <1>3, <2>2, <2>3, <2>4, <2>5, <2>6, <2>7, <2>8 DEF Eval
<1>4. CASE UNCHANGED vars
  BY <1>1, <1>4 DEF vars, rendering
<1> QED
  BY <1>2, <1>3, <1>4 DEF Next

LEMMA TrailKept == Spec => []Trail
<1>1. Init => Trail
  BY TrailInit
<1>2. Trail /\ [Next]_vars => Trail'
  BY TrailNext
<1> QED
  BY <1>1, <1>2, PTL DEF Spec

(* Two functions that satisfy the equation of Descendant are the same, and *)
(* the path is one.                                                        *)
LEMMA DescendantOnPath ==
  ASSUME Trail, mode = "eval", NEW n \in Nat
  PROVE  Descendant[n] = IF n < Len(path) THEN path[n + 1] ELSE NULL
<1> DEFINE Body(f) == [m \in Nat |-> IF m = 0 THEN evalTmpl
                                     ELSE IF f[m - 1] = NULL THEN NULL ELSE child[f[m - 1]]]
           way == [m \in Nat |-> IF m < Len(path) THEN path[m + 1] ELSE NULL]
<1>1. /\ path \in Seq(Tmpl) /\ path # << >> /\ Chained /\ evalTmpl = path[1]
      /\ Len(path) \in Nat \ {0} /\ DOMAIN path = 1 .. Len(path)
      /\ \A i \in 1 .. Len(path) : path[i] \in Tmpl
  BY EmptySeq, LenProperties DEF Trail, Newest
<1>2. way = Body(way)
  <2>1. ASSUME NEW m \in Nat
        PROVE  way[m] = IF m = 0 THEN evalTmpl
                        ELSE IF way[m - 1] = NULL THEN NULL ELSE child[way[m - 1]]
    <3>1. CASE m = 0
      BY <1>1, <3>1
    <3>2. CASE m # 0
      <4>1. m - 1 \in Nat /\ (m - 1) + 1 = m
        BY <3>2
      <4>2. way[m - 1] = IF m - 1 < Len(path) THEN path[m] ELSE NULL
        BY <4>1
      <4>3. m - 1 < Len(path) => m \in 1 .. Len(path)
        BY <1>1, <3>2
      <4>4. m - 1 < Len(path) => path[m] # NULL
        BY <1>1, <4>3, RenderAssumption
      <4>5. m - 1 < Len(path) => child[path[m]] = IF m < Len(path) THEN path[m + 1] ELSE NULL
        BY <1>1, <4>3 DEF Chained
      <4>6. m < Len(path) => m - 1 < Len(path)
        BY <1>1
      <4>7. way[m] = IF m < Len(path) THEN path[m + 1] ELSE NULL
        OBVIOUS
      <4> HIDE DEF way
      <4> QED
        BY <3>2, <4>2, <4>4, <4>5, <4>6, <4>7
    <3> QED
      BY <3>1, <3>2
  <2>2. way = [m \in Nat |-> way[m]]
    OBVIOUS
  <2> HIDE DEF way
  <2> QED
    BY <2>1, <2>2
<1>3. Descendant = CHOOSE f : f = Body(f)
  BY DEF Descendant
<1> HIDE DEF way
<1>4. Descendant = Body(Descendant)
  <2>1. \E f : f = Body(f)
    BY <1>2
  <2> HIDE DEF Body
  <2> QED
    BY <1>3, <2>1
<1> DEFINE apart == {m \in Nat : Descendant[m] # way[m]}
<1>5. apart = {}
  <2> SUFFICES ASSUME apart # {} PROVE FALSE
    OBVIOUS
  <2>1. PICK m \in apart : \A k \in apart : m <= k
    BY Least
  <2>2. m \in Nat /\ Descendant[m] # way[m]
    OBVIOUS
  <2>3. /\ Descendant[m] = IF m = 0 THEN evalTmpl
                           ELSE IF Descendant[m - 1] = NULL THEN NULL ELSE child[Descendant[m - 1]]
        /\ way[m] = IF m = 0 THEN evalTmpl
                    ELSE IF way[m - 1] = NULL THEN NULL ELSE child[way[m - 1]]
    BY <1>2, <1>4, <2>2
  <2>4. CASE m = 0
    BY <2>2, <2>3, <2>4
  <2>5. CASE m # 0
    <3>1. m - 1 \in Nat /\ ~ (m <= m - 1)
      BY <2>2, <2>5
    <3>2. m - 1 \notin apart
      BY <2>1, <3>1
    <3>3. Descendant[m - 1] = way[m - 1]
      BY <3>1, <3>2
    <3> QED
      BY <2>2, <2>3, <2>5, <3>3
  <2> QED
    BY <2>4, <2>5
<1>6. Descendant[n] = way[n]
  BY <1>5
<1> QED
  BY <1>6 DEF way

(* The child fields from eval_tmpl on are the templates this render came   *)
(* through, whatever earlier renders left in the fields: get_child_tblock  *)
(* looks for a block where it should, for every set of templates, those    *)
(* that extend each other in circles included.                             *)
THEOREM ChildrenAreThePath == Spec => []ChainIsExtendsPath
<1>1. Trail => ChainIsExtendsPath
  <2> SUFFICES ASSUME Trail, mode = "eval", NEW n \in 0 .. Cardinality(Tmpl)
               PROVE  Descendant[n] = IF n < Len(path) THEN path[n + 1] ELSE NULL
    BY DEF ChainIsExtendsPath
  <2>1. n \in Nat
    BY RenderAssumption, FS_CardinalityType
  <2> QED
    BY <2>1, DescendantOnPath
<1> QED
  BY <1>1, TrailKept, PTL

-----------------------------------------------------------------------------
(* What is said of all frames, frame by frame.                             *)
LEMMA SoundCons ==
  ASSUME NEW A, NEW f \in A, NEW s \in Seq(A), NEW t, t = <<f>> \o s, NEW h, NEW n
  PROVE  Sound(h, n, t) <=> FrameSound(h, n, f) /\ Sound(h, n, s)
<1>1. /\ DOMAIN s = 1 .. Len(s) /\ DOMAIN t = 1 .. Len(s) + 1 /\ Len(s) \in Nat
      /\ t[1] = f /\ \A i \in 1 .. Len(s) : t[i + 1] = s[i]
  BY Consed
<1>2. \A i \in 1 .. Len(s) + 1 : i = 1 \/ (i - 1 \in 1 .. Len(s) /\ (i - 1) + 1 = i)
  BY <1>1
<1>3. \A i \in 1 .. Len(s) : i + 1 \in 1 .. Len(s) + 1
  BY <1>1
<1>4. 1 \in 1 .. Len(s) + 1
  BY <1>1
<1>5. ASSUME Sound(h, n, t) PROVE FrameSound(h, n, f) /\ Sound(h, n, s)
  BY <1>1, <1>3, <1>4, <1>5 DEF Sound
<1>6. ASSUME FrameSound(h, n, f), Sound(h, n, s), NEW i \in 1 .. Len(s) + 1
      PROVE  FrameSound(h, n, t[i])
  <2>1. CASE i = 1
    BY <1>1, <1>6, <2>1
  <2>2. CASE i # 1
    <3>1. i - 1 \in DOMAIN s /\ t[i] = s[i - 1]
      BY <1>1, <1>2, <2>2
    <3> QED
      BY <1>6, <3>1 DEF Sound
  <2> QED
    BY <2>1, <2>2
<1> QED
  BY <1>1, <1>5, <1>6 DEF Sound

LEMMA RestingCons ==
  ASSUME NEW A, NEW f \in A, NEW s \in Seq(A), NEW t, t = <<f>> \o s
  PROVE  Resting(t) <=> Waiting(f) /\ Resting(s)
<1>1. /\ DOMAIN s = 1 .. Len(s) /\ DOMAIN t = 1 .. Len(s) + 1 /\ Len(s) \in Nat
      /\ t[1] = f /\ \A i \in 1 .. Len(s) : t[i + 1] = s[i]
  BY Consed
<1>2. \A i \in 1 .. Len(s) + 1 : i = 1 \/ (i - 1 \in 1 .. Len(s) /\ (i - 1) + 1 = i)
  BY <1>1
<1>3. \A i \in 1 .. Len(s) : i + 1 \in 1 .. Len(s) + 1
  BY <1>1
<1>4. 1 \in 1 .. Len(s) + 1
  BY <1>1
<1>5. ASSUME Resting(t) PROVE Waiting(f) /\ Resting(s)
  BY <1>1, <1>3, <1>4, <1>5 DEF Resting
<1>6. ASSUME Waiting(f), Resting(s), NEW i \in 1 .. Len(s) + 1
      PROVE  Waiting(t[i])
  <2>1. CASE i = 1
    BY <1>1, <1>6, <2>1
  <2>2. CASE i # 1
    <3>1. i - 1 \in DOMAIN s /\ t[i] = s[i - 1]
      BY <1>1, <1>2, <2>2
    <3> QED
      BY <1>6, <3>1 DEF Resting
  <2> QED
    BY <2>1, <2>2
<1> QED
  BY <1>1, <1>5, <1>6 DEF Resting

LEMMA ScopedNone ==
  ASSUME NEW s \in Scope, NEW b
  PROVE  Scoped(<< >>, s, b) <=> s = b
<1>1. DOMAIN << >> = {} /\ Len(<< >>) = 0
  OBVIOUS
<1>2. ASSUME Scoped(<< >>, s, b) PROVE s = b
  BY <1>1, <1>2 DEF Scoped
<1>3. ASSUME s = b PROVE Scoped(<< >>, s, b)
  <2>1. <<s>> \in Seq(Scope) /\ Len(<<s>>) = 1 /\ <<s>>[1] = s
    OBVIOUS
  <2>2. Len(<<s>>) = Len(<< >>) + 1 /\ <<s>>[Len(<<s>>)] = b
    BY <1>1, <1>3, <2>1
  <2> QED
    BY <1>1, <2>1, <2>2 DEF Scoped
<1> QED
  BY <1>2, <1>3

LEMMA ScopedCons ==
  ASSUME NEW A, NEW f \in A, NEW st \in Seq(A), NEW s \in Scope, NEW b
  PROVE  Scoped(<<f>> \o st, s, b) <=> \E u \in Scope : Link(f, s, u) /\ Scoped(st, u, b)
<1> DEFINE t == <<f>> \o st
<1>0. t = <<f>> \o st
  OBVIOUS
<1> HIDE DEF t
<1>1. /\ DOMAIN st = 1 .. Len(st) /\ DOMAIN t = 1 .. Len(st) + 1 /\ Len(st) \in Nat
      /\ t[1] = f /\ \A i \in 1 .. Len(st) : t[i + 1] = st[i] /\ Len(t) = Len(st) + 1
      /\ Len(t) = Len(st) + 1
  BY <1>0, Consed
<1>2. ASSUME Scoped(t, s, b)
      PROVE  \E u \in Scope : Link(f, s, u) /\ Scoped(st, u, b)
  <2>1. PICK S \in Seq(Scope) :
          /\ Len(S) = Len(t) + 1 /\ S[1] = s /\ S[Len(S)] = b
          /\ \A i \in DOMAIN t : Link(t[i], S[i], S[i + 1])
    BY <1>2 DEF Scoped
  <2>2. S # << >> /\ Len(S) = Len(st) + 2
    BY <1>1, <2>1
  <2>3. /\ Tail(S) \in Seq(Scope) /\ Len(Tail(S)) = Len(st) + 1
        /\ \A i \in 1 .. Len(st) + 1 : Tail(S)[i] = S[i + 1]
    BY <1>1, <2>2, HeadTailProperties
  <2>4. S[2] \in Scope /\ Tail(S)[1] = S[2] /\ Tail(S)[Len(Tail(S))] = b
    <3>1. 1 \in 1 .. Len(st) + 1 /\ Len(st) + 1 \in 1 .. Len(st) + 1
      BY <1>1
    <3>2. Tail(S)[1] = S[2] /\ Tail(S)[Len(st) + 1] = S[Len(st) + 2]
      BY <1>1, <2>3, <3>1
    <3>3. Tail(S)[1] \in Scope
      BY <2>3, <3>1, LenProperties
    <3> QED
      BY <2>1, <2>2, <2>3, <3>2, <3>3
  <2>5. Link(f, s, S[2])
    <3>1. 1 \in DOMAIN t
      BY <1>1
    <3>2. Link(t[1], S[1], S[1 + 1])
      BY <2>1, <3>1
    <3>3. 1 + 1 = 2
      OBVIOUS
    <3> QED
      BY <1>1, <2>1, <3>2, <3>3
  <2>6. ASSUME NEW i \in DOMAIN st PROVE Link(st[i], Tail(S)[i], Tail(S)[i + 1])
    <3>1. i \in 1 .. Len(st) + 1 /\ i + 1 \in 1 .. Len(st) + 1 /\ i \in 1 .. Len(st)
      BY <1>1
    <3>2. /\ Tail(S)[i] = S[i + 1] /\ Tail(S)[i + 1] = S[(i + 1) + 1] /\ t[i + 1] = st[i]
      BY <1>1, <2>3, <3>1
    <3> QED
      BY <1>1, <2>1, <3>1, <3>2
  <2>7. Scoped(st, S[2], b)
    BY <2>3, <2>4, <2>6 DEF Scoped
  <2> QED
    BY <2>4, <2>5, <2>7
<1>3. ASSUME NEW u \in Scope, Link(f, s, u), Scoped(st, u, b)
      PROVE  Scoped(t, s, b)
  <2>1. PICK S \in Seq(Scope) :
          /\ Len(S) = Len(st) + 1 /\ S[1] = u /\ S[Len(S)] = b
          /\ \A i \in DOMAIN st : Link(st[i], S[i], S[i + 1])
    BY <1>3 DEF Scoped
  <2> DEFINE R == <<s>> \o S
  <2>2. /\ R \in Seq(Scope) /\ Len(R) = Len(S) + 1 /\ R[1] = s
        /\ \A i \in 1 .. Len(S) : R[i + 1] = S[i]
    BY Consed
  <2> HIDE DEF R
  <2>3. Len(R) = Len(t) + 1 /\ R[Len(R)] = b
    <3>1. Len(S) \in 1 .. Len(S)
      BY <1>1, <2>1
    <3>2. R[Len(S) + 1] = S[Len(S)]
      BY <2>2, <3>1
    <3> QED
      BY <1>1, <2>1, <2>2, <3>2
  <2>4. ASSUME NEW i \in DOMAIN t PROVE Link(t[i], R[i], R[i + 1])
    <3>1. CASE i = 1
      <4>1. 1 \in 1 .. Len(S)
        BY <1>1, <2>1
      <4>2. R[1 + 1] = u
        BY <2>1, <2>2, <4>1
      <4> QED
        BY <1>1, <1>3, <2>2, <3>1, <4>2
    <3>2. CASE i # 1
      <4> DEFINE j == i - 1
      <4>1. j \in 1 .. Len(st) /\ i = j + 1 /\ j \in 1 .. Len(S) /\ j + 1 \in 1 .. Len(S)
        BY <1>1, <2>1, <3>2
      <4>2. t[i] = st[j] /\ R[i] = S[j] /\ R[i + 1] = S[j + 1]
        BY <1>1, <2>2, <4>1
      <4> QED
        BY <1>1, <2>1, <4>1, <4>2
    <3> QED
      BY <3>1, <3>2
  <2> QED
    BY <2>2, <2>3, <2>4 DEF Scoped
<1> QED
  BY <1>0, <1>2, <1>3

-----------------------------------------------------------------------------
(* The assumptions about the host's objects.                               *)
LEMMA TheVars ==
  /\ VARS \in Obj /\ LOOP \in Key /\ INDEX \in Key /\ Key \subseteq Slot
  /\ HostHold \in [Obj -> Nat] /\ HostHold[VARS] = 1
  /\ NULL \notin Obj /\ NULL \notin Static /\ Static \cap Obj = {}
BY RenderAssumption, HostAssumption, HeapAssumption DEF Slot, Static

LEMMA Ones ==
  ASSUME NEW v, NEW o \in Obj
  PROVE  /\ One(v, o) \in {0, 1} /\ One(v, o) \in Int /\ One(v, o) \in Nat
         /\ v = o => One(v, o) = 1
         /\ v # o => One(v, o) = 0
         /\ v \notin Obj => One(v, o) = 0
BY DEF One

-----------------------------------------------------------------------------
(* How far the count of an object is ahead of the cells that point at it.  *)
Slack(h, o) == h.rc[o] - Cells(h, o)

(* A heap in which nothing has changed but counts and the cells of         *)
(* env->vars.                                                              *)
Same(h, g) ==
  /\ g \in HeapType /\ g.kind = h.kind /\ g.len = h.len
  /\ \A o \in Obj \ {VARS} : g.cell[o] = h.cell[o]

LEMMA Counts ==
  ASSUME NEW h \in HeapType, NEW o \in Obj
  PROVE  h.rc[o] \in Int /\ Cells(h, o) \in Nat /\ Slack(h, o) \in Int
BY Parts, CellsNat DEF Slack

LEMMA SetsSlack ==
  ASSUME NEW h \in HeapType, NEW k \in Slot, NEW v \in Obj
  PROVE  /\ Same(h, HmapSets(h, VARS, k, v))
         /\ HmapSets(h, VARS, k, v).cell[VARS] = [h.cell[VARS] EXCEPT ![k] = v]
         /\ \A o \in Obj :
              /\ HmapSets(h, VARS, k, v).rc[o] = h.rc[o] + One(v, o)
              /\ Slack(HmapSets(h, VARS, k, v), o) = Slack(h, o) + One(h.cell[VARS][k], o)
<1> DEFINE g == HmapSets(h, VARS, k, v)
<1>1. /\ g \in HeapType /\ g.kind = h.kind /\ g.len = h.len
      /\ g.cell = [h.cell EXCEPT ![VARS] = [h.cell[VARS] EXCEPT ![k] = v]]
      /\ \A o \in Obj :
           /\ g.rc[o] = h.rc[o] + One(v, o)
           /\ Cells(g, o) = Cells(h, o) - One(h.cell[VARS][k], o) + One(v, o)
  <2>1. VARS \in Obj
    BY TheVars
  <2> QED
    BY <2>1, SetsHeap
<1> HIDE DEF g
<1>2. h.cell \in [Obj -> [Slot -> Obj \cup {NULL}]]
  BY Parts
<1>3. ASSUME NEW o \in Obj PROVE Slack(g, o) = Slack(h, o) + One(h.cell[VARS][k], o)
  <2>1. /\ h.rc[o] \in Int /\ Cells(h, o) \in Int /\ One(v, o) \in Int
        /\ One(h.cell[VARS][k], o) \in Int
    BY Counts, Ones
  <2> QED
    BY <1>1, <2>1 DEF Slack
<1>4. Same(h, g)
  BY <1>1, <1>2, TheVars DEF Same
<1>5. g.cell[VARS] = [h.cell[VARS] EXCEPT ![k] = v]
  BY <1>1, <1>2, TheVars
<1> QED
  BY <1>1, <1>3, <1>4, <1>5 DEF g

LEMMA UnrefSlack ==
  ASSUME NEW h \in HeapType, NEW v
  PROVE  /\ Same(h, Unref(h, v)) /\ Unref(h, v).cell = h.cell
         /\ \A o \in Obj :
              /\ Unref(h, v).rc[o] = h.rc[o] - One(v, o)
              /\ Slack(Unref(h, v), o) = Slack(h, o) - One(v, o)
<1> DEFINE g == Unref(h, v)
<1>1. /\ g \in HeapType /\ g.kind = h.kind /\ g.cell = h.cell /\ g.len = h.len
      /\ \A o \in Obj : g.rc[o] = h.rc[o] - One(v, o)
  BY UnrefHeap
<1> HIDE DEF g
<1>2. ASSUME NEW o \in Obj PROVE Slack(g, o) = Slack(h, o) - One(v, o)
  <2>1. h.rc[o] \in Int /\ Cells(h, o) \in Int /\ One(v, o) \in Int
    BY Counts, Ones
  <2>2. Cells(g, o) = Cells(h, o)
    BY <1>1, SameCells DEF Cells
  <2> QED
    BY <1>1, <2>1, <2>2 DEF Slack
<1> QED
  BY <1>1, <1>2 DEF g, Same

LEMMA KeepSlack ==
  ASSUME NEW h \in HeapType, NEW v
  PROVE  /\ Same(h, Keep(h, v)) /\ Keep(h, v).cell = h.cell
         /\ \A o \in Obj :
              /\ Keep(h, v).rc[o] = h.rc[o] + One(v, o)
              /\ Slack(Keep(h, v), o) = Slack(h, o) + One(v, o)
<1> DEFINE g == Keep(h, v)
<1>1. /\ g \in HeapType /\ g.kind = h.kind /\ g.cell = h.cell /\ g.len = h.len
      /\ \A o \in Obj : g.rc[o] = h.rc[o] + One(v, o)
  <2>1. CASE v \in Obj
    <3>1. g = Ref(h, v)
      BY <2>1 DEF Keep
    <3>2. /\ Ref(h, v) \in HeapType /\ Ref(h, v).kind = h.kind
          /\ Ref(h, v).rc = [h.rc EXCEPT ![v] = h.rc[v] + 1]
          /\ Ref(h, v).cell = h.cell /\ Ref(h, v).len = h.len
      BY <2>1, RefHeap
    <3>3. h.rc \in [Obj -> Int]
      BY Parts
    <3> HIDE DEF g
    <3>4. ASSUME NEW o \in Obj PROVE g.rc[o] = h.rc[o] + One(v, o)
      BY <2>1, <3>1, <3>2, <3>3 DEF One
    <3> QED
      BY <3>1, <3>2, <3>4
  <2>2. CASE v \notin Obj
    <3>1. g = h
      BY <2>2 DEF Keep
    <3> HIDE DEF g
    <3>2. \A o \in Obj : One(v, o) = 0 /\ h.rc[o] \in Int
      BY <2>2, Ones, Counts
    <3> QED
      BY <3>1, <3>2
  <2> QED
    BY <2>1, <2>2
<1> HIDE DEF g
<1>2. ASSUME NEW o \in Obj PROVE Slack(g, o) = Slack(h, o) + One(v, o)
  <2>1. h.rc[o] \in Int /\ Cells(h, o) \in Int /\ One(v, o) \in Int
    BY Counts, Ones
  <2>2. Cells(g, o) = Cells(h, o)
    BY <1>1, SameCells DEF Cells
  <2> QED
    BY <1>1, <2>1, <2>2 DEF Slack
<1> QED
  BY <1>1, <1>2 DEF g, Same

LEMMA UnsetsSlack ==
  ASSUME NEW h \in HeapType, NEW k \in Slot
  PROVE  /\ Same(h, HmapUnsets(h, VARS, k))
         /\ HmapUnsets(h, VARS, k).cell[VARS] = [h.cell[VARS] EXCEPT ![k] = NULL]
         /\ \A o \in Obj :
              /\ HmapUnsets(h, VARS, k).rc[o] = h.rc[o] - One(h.cell[VARS][k], o)
              /\ Slack(HmapUnsets(h, VARS, k), o) = Slack(h, o)
<1> DEFINE g == HmapUnsets(h, VARS, k)
<1>1. g = Reap(h, VARS, k)
  BY DEF HmapUnsets, HmapPops, HmapGets, Reap
<1>2. /\ g \in HeapType /\ g.kind = h.kind /\ g.len = h.len
      /\ g.cell = [h.cell EXCEPT ![VARS] = [h.cell[VARS] EXCEPT ![k] = NULL]]
      /\ \A o \in Obj :
           /\ g.rc[o] = h.rc[o] - One(h.cell[VARS][k], o)
           /\ Cells(g, o) = Cells(h, o) - One(h.cell[VARS][k], o)
  BY <1>1, TheVars, ReapHeap
<1> HIDE DEF g
<1>3. h.cell \in [Obj -> [Slot -> Obj \cup {NULL}]]
  BY Parts
<1>4. ASSUME NEW o \in Obj PROVE Slack(g, o) = Slack(h, o)
  <2>1. h.rc[o] \in Int /\ Cells(h, o) \in Int /\ One(h.cell[VARS][k], o) \in Int
    BY Counts, Ones
  <2> QED
    BY <1>2, <2>1 DEF Slack
<1>5. Same(h, g)
  BY <1>2, <1>3, TheVars DEF Same
<1>6. g.cell[VARS] = [h.cell[VARS] EXCEPT ![k] = NULL]
  BY <1>2, <1>3, TheVars
<1> QED
  BY <1>2, <1>4, <1>5, <1>6 DEF g

LEMMA SameAgain ==
  ASSUME NEW h \in HeapType, NEW g, NEW i, Same(h, g), Same(g, i)
  PROVE  Same(h, i)
BY DEF Same

(* env->vars, the top of every chain, is live; so is whatever is in a cell,*)
(* and what a function on the stack holds.                                 *)
LEMMA HeldSome ==
  ASSUME NEW A, NEW st \in Seq(A), NEW i \in DOMAIN st, NEW l \in Locals, NEW o,
         Holds(st[i], l, o)
  PROVE  Held(st, o) > 0
<1>1. <<i, l>> \in LocalIn(st, o)
  BY DEF LocalIn
<1>2. IsFiniteSet(LocalIn(st, o)) /\ Held(st, o) \in Nat
  BY HeldFinite
<1>3. Held(st, o) # 0
  BY <1>1, <1>2, FS_EmptySet DEF Held
<1> QED
  BY <1>2, <1>3

LEMMA Owned ==
  ASSUME NEW h \in HeapType, NEW st \in Seq(Frame), NEW l \in [Obj -> Nat],
         Shaped(h), Exact(h, st, l), hold \in [Obj -> Nat], NEW o \in Obj
  PROVE  /\ h.rc[o] \in Nat /\ h.rc[o] >= hold[o] /\ h.rc[o] >= Cells(h, o)
         /\ h.rc[o] >= Held(st, o) /\ h.rc[o] >= l[o]
         /\ h.rc[o] > 0 => h.kind[o] # "none"
         /\ h.kind[o] = "none" => h.rc[o] = 0
<1>1. h.rc[o] = hold[o] + Cells(h, o) + Held(st, o) + l[o]
  BY DEF Exact
<1>2. hold[o] \in Nat /\ Cells(h, o) \in Nat /\ Held(st, o) \in Nat /\ l[o] \in Nat
  BY CellsNat, HeldFinite
<1>3. h.kind[o] = "none" => h.rc[o] = 0
  BY DEF Shaped
<1> QED
  BY <1>1, <1>2, <1>3

LEMMA InCell ==
  ASSUME NEW h \in HeapType, NEW c \in Obj, NEW s \in Slot, h.cell[c][s] \in Obj
  PROVE  Cells(h, h.cell[c][s]) > 0
BY CellCounted
-----------------------------------------------------------------------------
(* What a step leaves alone.                                               *)
LEMMA ShapeKept ==
  ASSUME NEW h \in HeapType, NEW g, Same(h, g), Shaped(h),
         \A o \in Obj : h.kind[o] = "none" => g.rc[o] = h.rc[o],
         \A o \in Obj : h.kind[o] = "vector" /\ g.rc[o] > 0 => h.rc[o] > 0,
         \A s \in Slot : g.cell[VARS][s] # VARS
  PROVE  Shaped(g)
<1>1. VARS \in Obj
  BY TheVars
<1>2. g.kind[VARS] = "hmap"
  BY DEF Shaped, Same
<1>3. ASSUME NEW o \in Obj, g.kind[o] = "none"
      PROVE  g.rc[o] = 0 /\ g.cell[o] = EmptyCells
  <2>1. o # VARS
    BY <1>2, <1>3
  <2> QED
    BY <1>3, <2>1 DEF Shaped, Same
<1>4. ASSUME NEW o \in Obj, g.kind[o] = "vector", g.rc[o] > 0, NEW i \in 1 .. g.len[o]
      PROVE  g.cell[o][i] # NULL
  <2>1. o # VARS
    BY <1>2, <1>4
  <2> QED
    BY <1>4, <2>1 DEF Shaped, Same
<1>5. ASSUME NEW o \in Obj, NEW s \in Slot PROVE g.cell[o][s] # VARS
  BY DEF Shaped, Same
<1> QED
  BY <1>2, <1>3, <1>4, <1>5 DEF Shaped

LEMMA SoundKept ==
  ASSUME NEW h, NEW g, NEW n, NEW m, NEW st \in Seq(Frame), Sound(h, n, st),
         \A o \in Obj \ {VARS} : h.kind[o] \in {"vector", "hmap"} /\ h.rc[o] > 0 =>
           g.kind[o] = h.kind[o] /\ g.cell[o] = h.cell[o],
         \A o \in Obj : n[o] >= 0 => m[o] >= 0,
         \A o \in Obj : h.rc[o] \in Nat /\ h.rc[o] >= Held(st, o)
  PROVE  Sound(g, m, st)
<1> SUFFICES ASSUME NEW i \in DOMAIN st PROVE FrameSound(g, m, st[i])
  BY DEF Sound
<1> DEFINE f == st[i]
<1>1. f \in Frame
  BY LenProperties
<1>2. FrameSound(h, n, f)
  BY DEF Sound
<1>3. CASE f.fn # "loop"
  BY <1>2, <1>3 DEF FrameSound
<1>4. CASE f.fn = "loop"
  <2>1. f.indexv \in Obj
    BY <1>1, <1>4 DEF Frame
  <2>2. ASSUME f.at \in {"bind", "unbind"}
        PROVE  /\ f.seq \in Obj /\ g.kind[f.seq] \in {"vector", "hmap"}
               /\ g.kind[f.seq] = "hmap" => f.iter \subseteq Keys(g, f.seq)
    <3>1. /\ f.seq \in Obj \ {VARS} /\ h.kind[f.seq] \in {"vector", "hmap"}
          /\ h.kind[f.seq] = "hmap" => f.iter \subseteq Keys(h, f.seq)
      BY <1>2, <1>4, <2>2 DEF FrameSound
    <3>2. Held(st, f.seq) > 0
      <4>1. "seq" \in Locals /\ Holds(st[i], "seq", f.seq)
        BY <1>4 DEF Locals, Holds
      <4> QED
        BY <4>1, HeldSome
    <3>3. Held(st, f.seq) \in Nat
      BY HeldFinite
    <3>4. h.rc[f.seq] > 0
      BY <3>1, <3>2, <3>3
    <3>5. g.kind[f.seq] = h.kind[f.seq] /\ g.cell[f.seq] = h.cell[f.seq]
      BY <3>1, <3>4
    <3> QED
      BY <3>1, <3>5 DEF Keys
  <2> SUFFICES FrameSound(g, m, f)
    OBVIOUS
  <2> HIDE DEF f
  <2>3. /\ f.item # LOOP /\ n[f.indexv] >= 0
        /\ VARS \notin {f.loopv, f.seq, f.outerloop, f.outeritem}
        /\ f.at = "unbind" => f.owned
    BY <1>2, <1>4 DEF FrameSound
  <2>4. m[f.indexv] >= 0
    BY <2>1, <2>3
  <2> QED
    BY <1>4, <2>2, <2>3, <2>4 DEF FrameSound
<1> QED
  BY <1>3, <1>4

LEMMA ExactSlack ==
  ASSUME NEW h \in HeapType, NEW st \in Seq(Frame), NEW l \in [Obj -> Nat],
         hold \in [Obj -> Nat]
  PROVE  Exact(h, st, l) <=>
           \A o \in Obj : Slack(h, o) = hold[o] + Held(st, o) + l[o]
<1>1. ASSUME NEW o \in Obj
      PROVE  h.rc[o] = hold[o] + Cells(h, o) + Held(st, o) + l[o] <=>
               Slack(h, o) = hold[o] + Held(st, o) + l[o]
  <2>1. /\ h.rc[o] \in Int /\ hold[o] \in Int /\ Cells(h, o) \in Int
        /\ Held(st, o) \in Int /\ l[o] \in Int
    BY Counts, HeldFinite
  <2> QED
    BY <2>1 DEF Slack
<1> QED
  BY <1>1 DEF Exact

LEMMA FrameHeld ==
  ASSUME NEW f \in Frame, NEW r \in Seq(Frame), NEW o
  PROVE  /\ Held(<<f>> \o r, o) = Weight(f, o) + Held(r, o)
         /\ Weight(f, o) \in Nat /\ Held(r, o) \in Nat
BY HeldCons, LocalsFinite, HeldFinite

LEMMA TopExact ==
  ASSUME NEW h \in HeapType, NEW f \in Frame, NEW r \in Seq(Frame), NEW st, st = <<f>> \o r,
         NEW l \in [Obj -> Nat], hold \in [Obj -> Nat],
         \A o \in Obj : Slack(h, o) = hold[o] + Weight(f, o) + Held(r, o) + l[o]
  PROVE  Exact(h, st, l)
<1>1. st \in Seq(Frame)
  BY Consed
<1>2. ASSUME NEW o \in Obj PROVE Slack(h, o) = hold[o] + Held(st, o) + l[o]
  <2>1. /\ Held(st, o) = Weight(f, o) + Held(r, o)
        /\ Weight(f, o) \in Int /\ Held(r, o) \in Int /\ hold[o] \in Int /\ l[o] \in Int
    BY FrameHeld
  <2> QED
    BY <2>1
<1> QED
  BY <1>1, <1>2, ExactSlack

-----------------------------------------------------------------------------
(* The state in which a step of the evaluator starts: its frame, the rest  *)
(* of the stack, and what the counts of objects are made of.               *)
LEMMA Opened ==
  ASSUME IInv, Evaluating
  PROVE  /\ Top \in Frame /\ Tail(stack) \in Seq(Frame) /\ stack \in Seq(Frame)
         /\ stack = <<Top>> \o Tail(stack)
         /\ FrameSound(heap, num, Top) /\ Sound(heap, num, Tail(stack))
         /\ Resting(Tail(stack)) /\ Bound(heap, Top)
         /\ Failed => Finishing(Top)
<1>1. stack \in Seq(Frame) /\ stack # << >> /\ mode = "eval"
  BY DEF IInv, TypeOK, Evaluating
<1>2. /\ Top \in Frame /\ Tail(stack) \in Seq(Frame) /\ stack = <<Top>> \o Tail(stack)
  BY <1>1, Split DEF Top
<1>3. FrameSound(heap, num, Top) /\ Sound(heap, num, Tail(stack))
  BY <1>2, SoundCons DEF IInv, Control
<1> QED
  BY <1>1, <1>2, <1>3 DEF IInv, Control, Top

LEMMA Ledger ==
  ASSUME IInv
  PROVE  /\ heap \in HeapType /\ hold \in [Obj -> Nat] /\ lost \in [Obj -> Nat]
         /\ num \in [Obj -> Int] /\ errors \in Nat
         /\ Shaped(heap) /\ Exact(heap, stack, lost) /\ stack \in Seq(Frame)
         /\ \A o \in Obj :
              /\ heap.rc[o] \in Nat /\ heap.rc[o] >= hold[o]
              /\ heap.rc[o] >= Cells(heap, o) /\ heap.rc[o] >= Held(stack, o)
              /\ heap.rc[o] >= lost[o]
              /\ heap.rc[o] > 0 => heap.kind[o] # "none"
              /\ heap.kind[o] = "none" => heap.rc[o] = 0
         /\ Quiet(heap) => \A o \in Obj : heap.kind[o] # "none" => heap.rc[o] > 0
         /\ heap.rc[VARS] > 0
<1>1. /\ heap \in HeapType /\ hold \in [Obj -> Nat] /\ lost \in [Obj -> Nat]
      /\ num \in [Obj -> Int] /\ errors \in Nat /\ stack \in Seq(Frame)
      /\ Shaped(heap) /\ Exact(heap, stack, lost) /\ hold = HostHold
  BY DEF IInv, TypeOK, Books
<1>2. \A o \in Obj :
        /\ heap.rc[o] \in Nat /\ heap.rc[o] >= hold[o]
        /\ heap.rc[o] >= Cells(heap, o) /\ heap.rc[o] >= Held(stack, o)
        /\ heap.rc[o] >= lost[o]
        /\ heap.rc[o] > 0 => heap.kind[o] # "none"
        /\ heap.kind[o] = "none" => heap.rc[o] = 0
  BY <1>1, Owned
<1>3. ASSUME Quiet(heap), NEW o \in Obj, heap.kind[o] # "none" PROVE heap.rc[o] > 0
  BY <1>2, <1>3 DEF Quiet, Dying
<1>4. heap.rc[VARS] > 0
  BY <1>1, <1>2, TheVars
<1> QED
  BY <1>1, <1>2, <1>3, <1>4

LEMMA Balance ==
  ASSUME IInv, Evaluating, NEW o \in Obj
  PROVE  /\ Slack(heap, o) = hold[o] + Weight(Top, o) + Held(Tail(stack), o) + lost[o]
         /\ hold[o] \in Nat /\ Weight(Top, o) \in Nat /\ Held(Tail(stack), o) \in Nat
         /\ lost[o] \in Nat /\ heap.rc[o] >= Held(Tail(stack), o)
         /\ heap.rc[o] >= Weight(Top, o) /\ heap.rc[o] \in Nat
<1>1. Slack(heap, o) = hold[o] + Held(stack, o) + lost[o]
  BY Ledger, ExactSlack
<1>0. Top \in Frame /\ Tail(stack) \in Seq(Frame) /\ stack = <<Top>> \o Tail(stack)
  BY Opened
<1>2. Held(stack, o) = Weight(Top, o) + Held(Tail(stack), o)
  BY <1>0, FrameHeld
<1>3. Weight(Top, o) \in Nat /\ Held(Tail(stack), o) \in Nat
  BY <1>0, FrameHeld
<1>4. /\ hold[o] \in Nat /\ lost[o] \in Nat /\ heap.rc[o] >= Held(stack, o)
      /\ heap.rc[o] \in Nat
  BY Ledger
<1> QED
  BY <1>1, <1>2, <1>3, <1>4

(* What the frame on top holds is an object.                               *)
LEMMA TopHolds ==
  ASSUME IInv, Evaluating, NEW l \in Locals, NEW o \in Obj, Holds(Top, l, o)
  PROVE  heap.rc[o] > 0 /\ heap.kind[o] # "none"
<1>1. l \in {k \in Locals : Holds(Top, k, o)} /\ IsFiniteSet({k \in Locals : Holds(Top, k, o)})
  BY LocalsFinite
<1>2. Weight(Top, o) # 0
  BY <1>1, FS_EmptySet DEF Weight
<1>3. heap.rc[o] > 0
  BY <1>2, Balance
<1> QED
  BY <1>3, Ledger

(* The env->vars that the frames on the stack will leave.                  *)
LEMMA ScopeOfTop ==
  ASSUME IInv, Evaluating
  PROVE  \E s, u \in Scope :
           /\ Link(Top, s, u) /\ Scoped(Tail(stack), u, start.vars)
           /\ Scoped(stack, s, start.vars) /\ Agrees(s)
<1>1. PICK s \in Scope : Scoped(stack, s, start.vars) /\ Agrees(s)
  BY DEF IInv, Scopes, Evaluating
<1>0. Top \in Frame /\ Tail(stack) \in Seq(Frame) /\ stack = <<Top>> \o Tail(stack)
  BY Opened
<1>2. \E u \in Scope : Link(Top, s, u) /\ Scoped(Tail(stack), u, start.vars)
  BY <1>0, <1>1, ScopedCons
<1> QED
  BY <1>1, <1>2

-----------------------------------------------------------------------------
(* A step of the evaluator, which leaves the call of eval_template alone.  *)
Running ==
  /\ IInv /\ Trail'
  /\ UNCHANGED rendering /\ UNCHANGED <<hold, templates, renders>>

(* The state in which a step ends, when a frame is on top.                 *)
LEMMA Topped ==
  ASSUME Running,
         heap' \in HeapType, num' \in [Obj -> Int], brk' \in BOOLEAN,
         errors' \in Nat, errors' >= errors, lost' \in [Obj -> Nat], mode = "eval",
         NEW f \in Frame, NEW r \in Seq(Frame), stack' = <<f>> \o r,
         FrameSound(heap', num', f), Sound(heap', num', r), Resting(r), Bound(heap', f),
         Failed' => Finishing(f), Shaped(heap'),
         \A o \in Obj : Slack(heap', o) = hold[o] + Weight(f, o) + Held(r, o) + lost'[o],
         NEW s \in Scope, NEW u \in Scope, Link(f, s, u), Scoped(r, u, start.vars),
         Agrees(s)'
  PROVE  IInv'
<1>1. /\ stack' \in Seq(Frame) /\ stack' # << >> /\ Head(stack') = f /\ Tail(stack') = r
  BY Consed
<1>2. TypeOK'
  BY <1>1 DEF Running, IInv, TypeOK, rendering
<1>3. Control'
  <2>1. Sound(heap', num', stack')
    BY SoundCons
  <2> QED
    BY <1>1, <2>1 DEF Control
<1>4. Books'
  <2>1. hold \in [Obj -> Nat] /\ hold' = hold /\ hold = HostHold
    BY DEF Running, IInv, TypeOK, Books
  <2>3. Exact(heap', stack', lost')
    BY <2>1, TopExact
  <2> QED
    BY <2>1, <2>3 DEF Books, Exact
<1>5. Phases'
  <2>1. start' = start /\ mode' = mode /\ start.errors \in Int
    BY DEF Running, rendering, IInv, Phases
  <2>2. errors \in Int /\ errors' \in Int /\ errors >= start.errors
    BY DEF Running, IInv, Phases, TypeOK
  <2> QED
    BY <2>1, <2>2 DEF Running, IInv, Phases
<1>6. Scopes'
  <2>1. Scoped(stack', s, start.vars) /\ start' = start
    BY ScopedCons DEF Running, rendering
  <2> QED
    BY <2>1 DEF Scopes
<1> QED
  BY <1>2, <1>3, <1>4, <1>5, <1>6 DEF Running, IInv, NoLoopItem

(* The same when a function has returned: its caller was waiting.          *)
LEMMA Popped ==
  ASSUME Running,
         heap' \in HeapType, num' \in [Obj -> Int], brk' \in BOOLEAN,
         errors' \in Nat, errors' >= errors, lost' \in [Obj -> Nat], mode = "eval",
         NEW r \in Seq(Frame), stack' = r,
         Sound(heap', num', r), Resting(r), Shaped(heap'),
         \A o \in Obj : Slack(heap', o) = hold[o] + Held(r, o) + lost'[o],
         NEW s \in Scope, Scoped(r, s, start.vars), Agrees(s)'
  PROVE  IInv'
<1>2. TypeOK'
  BY DEF Running, IInv, TypeOK, rendering
<1>3. Control'
  <2>1. ASSUME r # << >>
        PROVE  Bound(heap', Head(r)) /\ Resting(Tail(r)) /\ Finishing(Head(r))
    <3>1. Head(r) \in Frame /\ Tail(r) \in Seq(Frame) /\ r = <<Head(r)>> \o Tail(r)
      BY <2>1, Split
    <3>2. Waiting(Head(r)) /\ Resting(Tail(r))
      BY <3>1, RestingCons
    <3> QED
      BY <3>2 DEF Waiting, Bound, Finishing
  <2> QED
    BY <2>1 DEF Control
<1>4. Books'
  <2>1. hold \in [Obj -> Nat] /\ hold' = hold /\ hold = HostHold
    BY DEF Running, IInv, TypeOK, Books
  <2>3. Exact(heap', stack', lost')
    BY <2>1, ExactSlack
  <2> QED
    BY <2>1, <2>3 DEF Books, Exact
<1>5. Phases'
  <2>1. start' = start /\ mode' = mode /\ start.errors \in Int
    BY DEF Running, rendering, IInv, Phases
  <2>2. errors \in Int /\ errors' \in Int /\ errors >= start.errors
    BY DEF Running, IInv, Phases, TypeOK
  <2> QED
    BY <2>1, <2>2 DEF Running, IInv, Phases
<1>6. Scopes'
  <2>1. start' = start
    BY DEF Running, rendering
  <2> QED
    BY <2>1 DEF Scopes
<1> QED
  BY <1>2, <1>3, <1>4, <1>5, <1>6 DEF Running, IInv, NoLoopItem
-----------------------------------------------------------------------------
(* A heap whose counts have come back to what they were.                   *)
LEMMA HeapSame ==
  ASSUME NEW h \in HeapType, NEW g, Same(h, g), g.cell = h.cell,
         \A o \in Obj : g.rc[o] = h.rc[o], Shaped(h)
  PROVE  g \in HeapType /\ Shaped(g) /\ \A o \in Obj : Slack(g, o) = Slack(h, o)
<1>1. \A s \in Slot : g.cell[VARS][s] # VARS
  BY TheVars DEF Shaped
<1>2. Shaped(g)
  BY <1>1, ShapeKept
<1>3. \A o \in Obj : Cells(g, o) = Cells(h, o)
  BY SameCells DEF Cells
<1> QED
  BY <1>2, <1>3 DEF Same, Slack

(* env->vars still is what it should be.                                   *)
LEMMA AgreesStill ==
  ASSUME Running, NEW s \in Scope, Agrees(s), heap'.cell[VARS] = heap.cell[VARS],
         errors' \in Nat, errors' >= errors, lost' = lost
  PROVE  Agrees(s)'
<1>1. Failed => Failed'
  <2>1. /\ errors \in Int /\ start.errors \in Int /\ start' = start /\ errors' \in Int
    BY DEF Running, IInv, TypeOK, Phases, rendering
  <2> QED
    BY <2>1 DEF Failed
<1> QED
  BY <1>1 DEF Agrees

LEMMA AgreesNow ==
  ASSUME NEW s, \A k \in Slot : heap'.cell[VARS][k] = s[k]
  PROVE  Agrees(s)'
BY DEF Agrees

(* Frames that are not a loop's leave env->vars alone.                     *)
LEMMA LinkPlain ==
  ASSUME NEW f, f.fn # "loop", NEW s, NEW u
  PROVE  Link(f, s, u) <=> u = s
BY DEF Link

LEMMA PlainSub ==
  ASSUME NEW f, f.fn = "subblocks"
  PROVE  /\ \A h, n : FrameSound(h, n, f)
         /\ \A h : Bound(h, f)
         /\ \A o : Weight(f, o) = 0
         /\ \A s, u : Link(f, s, u) <=> u = s
         /\ ~f.first => Waiting(f) /\ Finishing(f)
<1>1. \A o : Weight(f, o) = 0
  BY WeightSub
<1> QED
  BY <1>1, LinkPlain DEF FrameSound, Bound, Waiting, Finishing

LEMMA SubFrame ==
  ASSUME NEW bs \in Seq(Pieces)
  PROVE  Sub(bs) \in Frame /\ Sub(bs).fn = "subblocks"
BY DEF Sub, Frame

LEMMA InSubblocks ==
  ASSUME IInv, In("subblocks"), Top.rest # << >>
  PROVE  LET p == [Top EXCEPT !.rest = Tail(@), !.first = FALSE] IN
         /\ p \in Frame /\ p.fn = "subblocks" /\ ~p.first
         /\ Past = <<p>> \o Tail(stack)
         /\ Cur \in Pieces
<1> DEFINE p == [Top EXCEPT !.rest = Tail(@), !.first = FALSE]
<1>1. Top \in Frame /\ Top.fn = "subblocks"
  BY Opened DEF In
<1>2. Top \in [fn : {"subblocks"}, rest : Seq(Pieces), first : BOOLEAN]
  BY <1>1 DEF Frame
<1>3. Top.rest \in Seq(Pieces)
  BY <1>2
<1>4. Tail(Top.rest) \in Seq(Pieces) /\ Head(Top.rest) \in Pieces
  BY <1>3, Split
<1>5. /\ p \in [fn : {"subblocks"}, rest : Seq(Pieces), first : BOOLEAN]
      /\ p.fn = "subblocks" /\ p.first = FALSE
  BY <1>2, <1>4
<1>6. p \in Frame
  BY <1>5 DEF Frame
<1> QED
  BY <1>4, <1>5, <1>6 DEF Past, Cur

(* After an error eval_subblocks does not start another block.             *)
LEMMA NotFailed ==
  ASSUME IInv, In("subblocks"), ~Stop
  PROVE  ~Failed
<1>1. errors \in Int /\ start.errors \in Nat
  BY DEF IInv, TypeOK, Phases
<1>2. Failed => ~Top.first
  BY Opened DEF In, Finishing
<1>3. Failed => errors > 0
  BY <1>1 DEF Failed
<1> QED
  BY <1>2, <1>3 DEF Stop

(* The rest of the stack is as sound as it was.                            *)
LEMMA RestSound ==
  ASSUME IInv, Evaluating, NEW g, NEW m,
         \A o \in Obj \ {VARS} : heap.kind[o] \in {"vector", "hmap"} /\ heap.rc[o] > 0 =>
           g.kind[o] = heap.kind[o] /\ g.cell[o] = heap.cell[o],
         \A o \in Obj : num[o] >= 0 => m[o] >= 0
  PROVE  Sound(g, m, Tail(stack)) /\ FrameSound(g, m, Top)
<1>1. Sound(heap, num, stack) /\ stack \in Seq(Frame)
  BY DEF IInv, Control, TypeOK
<1>2. \A o \in Obj : heap.rc[o] \in Nat /\ heap.rc[o] >= Held(stack, o)
  BY Ledger
<1>3. Sound(g, m, stack)
  BY <1>1, <1>2, SoundKept
<1> QED
  BY <1>3, Opened, SoundCons

(* eval_subblocks goes on to the next block.                               *)
LEMMA GoesOn ==
  ASSUME Running, In("subblocks"), Top.rest # << >>, stack' = Past,
         Same(heap, heap'), heap'.cell = heap.cell,
         \A o \in Obj : heap'.rc[o] = heap.rc[o],
         num' = num, lost' = lost, brk' \in BOOLEAN, errors' \in {errors, errors + 1}
  PROVE  IInv'
<1> DEFINE p == [Top EXCEPT !.rest = Tail(@), !.first = FALSE]
           r == Tail(stack)
<1>0. IInv /\ Evaluating /\ Top.fn = "subblocks" /\ mode = "eval"
  BY DEF Running, In, Evaluating
<1>1. p \in Frame /\ p.fn = "subblocks" /\ ~p.first /\ stack' = <<p>> \o r
  BY <1>0, InSubblocks
<1> HIDE DEF p
<1>2. r \in Seq(Frame) /\ Resting(r)
  BY <1>0, Opened
<1>3. /\ heap \in HeapType /\ num \in [Obj -> Int] /\ lost \in [Obj -> Nat] /\ errors \in Nat
      /\ Shaped(heap)
  BY <1>0, Ledger
<1>4. errors' \in Nat /\ errors' >= errors
  BY <1>3
<1>5. /\ heap' \in HeapType /\ Shaped(heap') /\ \A o \in Obj : Slack(heap', o) = Slack(heap, o)
  BY <1>3, HeapSame
<1>6. Sound(heap', num', r)
  BY <1>0, RestSound DEF Same
<1>7. ASSUME NEW o \in Obj
      PROVE  Slack(heap', o) = hold[o] + Weight(p, o) + Held(r, o) + lost'[o]
  <2>1. Weight(Top, o) = 0 /\ Weight(p, o) = 0
    BY <1>0, <1>1, WeightSub
  <2> QED
    BY <1>0, <1>5, <2>1, Balance
<1>8. PICK s, u \in Scope :
        Link(Top, s, u) /\ Scoped(r, u, start.vars) /\ Agrees(s)
  BY <1>0, ScopeOfTop
<1>9. u = s /\ Link(p, s, u)
  BY <1>0, <1>1, <1>8, PlainSub
<1>10. Agrees(s)'
  BY <1>4, <1>8, AgreesStill
<1>11. /\ FrameSound(heap', num', p) /\ Bound(heap', p) /\ Finishing(p)
  BY <1>1, PlainSub
<1> QED
  BY <1>0, <1>1, <1>2, <1>3, <1>4, <1>5, <1>6, <1>7, <1>8, <1>9, <1>10, <1>11, Topped
LEMMA AgreesRef ==
  ASSUME NEW h \in HeapType, NEW v
  PROVE  /\ Same(h, Unref(Keep(h, v), v)) /\ Unref(Keep(h, v), v).cell = h.cell
         /\ \A o \in Obj : Unref(Keep(h, v), v).rc[o] = h.rc[o]
<1>1. /\ Same(h, Keep(h, v)) /\ Keep(h, v).cell = h.cell
      /\ \A o \in Obj : Keep(h, v).rc[o] = h.rc[o] + One(v, o)
  BY KeepSlack
<1>2. Keep(h, v) \in HeapType
  BY <1>1 DEF Same
<1>3. /\ Same(Keep(h, v), Unref(Keep(h, v), v)) /\ Unref(Keep(h, v), v).cell = Keep(h, v).cell
      /\ \A o \in Obj : Unref(Keep(h, v), v).rc[o] = Keep(h, v).rc[o] - One(v, o)
  BY <1>2, UnrefSlack
<1>4. ASSUME NEW o \in Obj PROVE Unref(Keep(h, v), v).rc[o] = h.rc[o]
  <2>1. h.rc[o] \in Int /\ One(v, o) \in Int
    BY Counts, Ones
  <2> QED
    BY <1>1, <1>3, <2>1
<1>5. Same(h, Unref(Keep(h, v), v))
  BY <1>1, <1>3, SameAgain
<1> QED
  BY <1>1, <1>3, <1>4, <1>5

LEMMA SameSelf ==
  ASSUME NEW h \in HeapType
  PROVE  Same(h, h)
BY DEF Same

LEMMA ContentKeeps == ASSUME Running, Content PROVE IInv'
<1>1. heap \in HeapType /\ errors \in Nat /\ brk \in BOOLEAN
  BY DEF Running, IInv, TypeOK
<1>2. Same(heap, heap') /\ heap' = heap
  BY <1>1, SameSelf DEF Content
<1> QED
  BY <1>1, <1>2, GoesOn DEF Content, At

LEMMA BreakKeeps == ASSUME Running, Break PROVE IInv'
<1>1. heap \in HeapType /\ errors \in Nat /\ brk \in BOOLEAN
  BY DEF Running, IInv, TypeOK
<1>2. Same(heap, heap') /\ heap' = heap
  BY <1>1, SameSelf DEF Break
<1> QED
  BY <1>1, <1>2, GoesOn DEF Break, At

LEMMA ExtendsKeeps == ASSUME Running, Extends PROVE IInv'
<1>1. heap \in HeapType /\ errors \in Nat /\ brk \in BOOLEAN
  BY DEF Running, IInv, TypeOK
<1>2. Same(heap, heap') /\ heap' = heap
  BY <1>1, SameSelf DEF Extends
<1> QED
  BY <1>1, <1>2, GoesOn DEF Extends, At, Fail

LEMMA VariableKeeps == ASSUME Running, Variable PROVE IInv'
<1>1. heap \in HeapType /\ errors \in Nat /\ brk \in BOOLEAN
  BY DEF Running, IInv, TypeOK
<1> DEFINE v == Value(heap, Cur.x)
<1>2. heap' = heap \/ heap' = Unref(Keep(heap, v), v)
  BY DEF Variable
<1>3. /\ Same(heap, heap') /\ heap'.cell = heap.cell
      /\ \A o \in Obj : heap'.rc[o] = heap.rc[o]
  BY <1>1, <1>2, SameSelf, AgreesRef
<1>4. errors' \in {errors, errors + 1}
  BY DEF Variable, Fail
<1> QED
  BY <1>1, <1>3, <1>4, GoesOn DEF Variable, At

(* A call from eval_subblocks, of a function that holds nothing yet.       *)
LEMMA Called ==
  ASSUME Running, In("subblocks"), Top.rest # << >>, ~Stop,
         NEW g \in Frame, g.fn # "loop", g.fn = "branch" => g.cond = NULL,
         stack' = <<g>> \o Past, UNCHANGED <<heap, num, brk, errors, lost>>
  PROVE  IInv'
<1> DEFINE p == [Top EXCEPT !.rest = Tail(@), !.first = FALSE]
           r == Tail(stack)
<1>0. IInv /\ Evaluating /\ Top.fn = "subblocks" /\ mode = "eval"
  BY DEF Running, In, Evaluating
<1>1. p \in Frame /\ p.fn = "subblocks" /\ ~p.first /\ Past = <<p>> \o r
  BY <1>0, InSubblocks
<1> HIDE DEF p
<1>2. r \in Seq(Frame) /\ Resting(r) /\ Sound(heap, num, r)
  BY <1>0, Opened
<1>3. /\ heap \in HeapType /\ num \in [Obj -> Int] /\ lost \in [Obj -> Nat] /\ errors \in Nat
      /\ Shaped(heap)
  BY <1>0, Ledger
<1>4. brk \in BOOLEAN
  BY <1>0 DEF IInv, TypeOK
<1>5. Past \in Seq(Frame) /\ Resting(Past) /\ Sound(heap, num, Past)
  BY <1>1, <1>2, Consed, RestingCons, SoundCons, PlainSub
<1>6. \A o \in Obj : Weight(g, o) = 0
  <2>1. CASE g.fn = "subblocks"
    BY <2>1, WeightSub
  <2>2. CASE g.fn = "branch"
    <3>1. \A o \in Obj : One(NULL, o) = 0
      BY TheVars, Ones
    <3> QED
      BY <2>2, <3>1, WeightBranch
  <2> QED
    BY <2>1, <2>2 DEF Frame
<1>7. ASSUME NEW o \in Obj
      PROVE  Slack(heap', o) = hold[o] + Weight(g, o) + Held(Past, o) + lost'[o]
  <2>1. Weight(Top, o) = 0 /\ Weight(p, o) = 0
    BY <1>0, <1>1, WeightSub
  <2>2. Held(Past, o) = Weight(p, o) + Held(r, o)
    BY <1>1, <1>2, FrameHeld
  <2>3. /\ Slack(heap, o) = hold[o] + Weight(Top, o) + Held(r, o) + lost[o]
        /\ Held(r, o) \in Nat
    BY <1>0, Balance
  <2> QED
    BY <1>6, <2>1, <2>2, <2>3
<1>8. PICK s, u \in Scope :
        Link(Top, s, u) /\ Scoped(r, u, start.vars) /\ Agrees(s)
  BY <1>0, ScopeOfTop
<1>9. u = s /\ Link(p, s, u) /\ Link(g, s, s)
  BY <1>0, <1>1, <1>8, LinkPlain
<1>10. Agrees(s)'
  BY <1>3, <1>8, AgreesStill
<1>11. Scoped(Past, s, start.vars)
  BY <1>1, <1>2, <1>8, <1>9, ScopedCons
<1>12. FrameSound(heap', num', g) /\ Bound(heap', g)
  BY DEF FrameSound, Bound
<1>13. ~Failed'
  BY <1>0, NotFailed DEF Running, Failed, rendering
<1>14. /\ heap' \in HeapType /\ num' \in [Obj -> Int] /\ lost' \in [Obj -> Nat]
       /\ errors' \in Nat /\ errors' >= errors /\ brk' \in BOOLEAN /\ Shaped(heap')
       /\ Sound(heap', num', Past)
  BY <1>3, <1>4, <1>5
<1> QED
  BY <1>0, <1>5, <1>7, <1>9, <1>10, <1>11, <1>12, <1>13, <1>14, Topped

LEMMA IfKeeps == ASSUME Running, If PROVE IInv'
<1>1. In("subblocks") /\ Top.rest # << >> /\ ~Stop /\ Cur.t = "if"
  BY DEF If, At, Cur
<1>2. Cur \in Pieces
  BY <1>1, InSubblocks DEF Running
<1>3. Cur.branches \in Seq(Choices(Pieces))
  BY <1>1, <1>2, TemplateAssumption DEF WellFormed
<1> DEFINE g == Alternatives(Cur.branches)
<1>4. g \in Frame /\ g.fn = "branch" /\ g.cond = NULL
  BY <1>3 DEF Alternatives, Frame
<1>5. stack' = <<g>> \o Past /\ UNCHANGED <<heap, num, brk, errors, lost>>
  BY DEF If, Call
<1> HIDE DEF g
<1> QED
  BY <1>1, <1>4, <1>5, Called

(* The descendant that get_child_tblock finds is a template with the block.*)
LEMMA Overrider ==
  ASSUME Trail, mode = "eval", NEW name \in Block, Overriding(name) # {}
  PROVE  LET t == Descendant[Furthest(name)] IN
         t \in Tmpl /\ templates[t] # NULL /\ templates[t].tblocks[name] # NULL
<1> DEFINE S == Overriding(name)
           n == Furthest(name)
           t == Descendant[n]
<1>1. Cardinality(Tmpl) \in Nat
  BY RenderAssumption, FS_CardinalityType
<1>2. S \subseteq 0 .. Cardinality(Tmpl)
  BY DEF Overriding
<1>3. \E m \in S : \A l \in S : l <= m
  BY <1>1, <1>2, Greatest
<1>4. n \in S
  BY <1>3 DEF Furthest
<1>5. n \in Nat /\ t # NULL /\ templates[t].tblocks[name] # NULL
  BY <1>1, <1>4 DEF Overriding
<1>6. t = IF n < Len(path) THEN path[n + 1] ELSE NULL
  BY <1>5, DescendantOnPath
<1>7. path \in Seq(Tmpl)
  BY DEF Trail
<1> SUFFICES t \in Tmpl /\ templates[t] # NULL
  BY <1>5
<1> HIDE DEF n, t
<1>8. n < Len(path)
  BY <1>5, <1>6
<1>9. n + 1 \in 1 .. Len(path) /\ n + 1 \in DOMAIN path
  BY <1>5, <1>7, <1>8, LenProperties
<1>10. t \in Tmpl
  BY <1>6, <1>7, <1>8, <1>9, LenProperties
<1>11. templates[t] # NULL
  BY <1>6, <1>8, <1>9 DEF Trail
<1> QED
  BY <1>10, <1>11

(* What eval_tblock evaluates is a body: that of the tag, or a descendant's.*)
LEMMA TBlockKeeps == ASSUME Running, TBlock PROVE IInv'
<1>1. In("subblocks") /\ Top.rest # << >> /\ ~Stop /\ Cur.t = "block"
  BY DEF TBlock, At, Cur
<1>2. Cur \in Pieces
  BY <1>1, InSubblocks DEF Running
<1>3. Cur.name \in Block /\ Cur.body \in Seq(Pieces)
  BY <1>1, <1>2, TemplateAssumption DEF WellFormed
<1> DEFINE body == IF Overriding(Cur.name) = {} THEN Cur.body
                   ELSE templates[Descendant[Furthest(Cur.name)]].tblocks[Cur.name]
<1>4. body \in Seq(Pieces)
  <2>1. CASE Overriding(Cur.name) = {}
    BY <1>3, <2>1
  <2>2. CASE Overriding(Cur.name) # {}
    <3>1. Trail /\ mode = "eval"
      BY <1>1 DEF Running, IInv, In, Evaluating
    <3> DEFINE t == Descendant[Furthest(Cur.name)]
    <3>2. t \in Tmpl /\ templates[t] # NULL /\ templates[t].tblocks[Cur.name] # NULL
      BY <1>3, <2>2, <3>1, Overrider
    <3>3. templates[t].tblocks \in [Block -> Seq(Pieces) \cup {NULL}]
      BY <3>1, <3>2, TemplateParts DEF Trail
    <3> QED
      BY <1>3, <2>2, <3>2, <3>3
  <2> QED
    BY <2>1, <2>2
<1> HIDE DEF body
<1>5. Sub(body) \in Frame /\ Sub(body).fn = "subblocks"
  BY <1>4, SubFrame
<1>6. stack' = <<Sub(body)>> \o Past /\ UNCHANGED <<heap, num, brk, errors, lost>>
  BY DEF TBlock, Call, body
<1> QED
  BY <1>1, <1>5, <1>6, Called
-----------------------------------------------------------------------------
(* Values: an object of the heap is in a cell, and is not env->vars.       *)
LEMMA ValueFound ==
  ASSUME NEW h \in HeapType, Shaped(h), NEW x \in Expression
  PROVE  /\ Value(h, x) \in (Obj \ {VARS}) \cup Static \cup {NULL}
         /\ Value(h, x) \in Obj => Cells(h, Value(h, x)) > 0
<1> DEFINE v == OrNull(HmapGets(h, VARS, x.key))
<1>1. h.cell \in [Obj -> [Slot -> Obj \cup {NULL}]] /\ VARS \in Obj /\ Key \subseteq Slot
  BY Parts, TheVars
<1>2. \A c \in Obj, s \in Slot : h.cell[c][s] \in Obj \cup {NULL} /\ h.cell[c][s] # VARS
  BY <1>1 DEF Shaped
<1>3. ASSUME NEW c \in Obj, NEW k \in Key
      PROVE  /\ OrNull(HmapGets(h, c, k)) \in (Obj \ {VARS}) \cup Static
             /\ OrNull(HmapGets(h, c, k)) \in Obj => Cells(h, OrNull(HmapGets(h, c, k))) > 0
  <2>1. k \in Slot
    BY <1>1
  <2>2. CASE h.cell[c][k] = NULL
    <3>1. OrNull(HmapGets(h, c, k)) = Null
      BY <2>2 DEF OrNull, HmapGets
    <3> QED
      BY <3>1, TheVars DEF Static
  <2>3. CASE h.cell[c][k] # NULL
    <3>1. OrNull(HmapGets(h, c, k)) = h.cell[c][k]
      BY <2>3 DEF OrNull, HmapGets
    <3>2. h.cell[c][k] \in Obj \ {VARS}
      BY <1>2, <2>1, <2>3
    <3>3. Cells(h, h.cell[c][k]) > 0
      BY <2>1, <3>2, InCell
    <3> QED
      BY <3>1, <3>2, <3>3
  <2> QED
    BY <2>2, <2>3
<1>4. x.key \in Key /\ x.op \in {"id", "not", "dot"} /\ (x.op = "dot" => x.of \in Key)
  BY DEF Expression
<1>5. v \in (Obj \ {VARS}) \cup Static /\ (v \in Obj => Cells(h, v) > 0)
  BY <1>1, <1>3, <1>4
<1> HIDE DEF v
<1>6. CASE x.op = "id"
  <2>1. Value(h, x) = v
    BY <1>6 DEF Value, v
  <2> QED
    BY <1>5, <2>1
<1>7. CASE x.op = "not"
  <2>1. Value(h, x) \in Static
    BY <1>7 DEF Value, Bool, Static, v
  <2> QED
    BY <2>1, TheVars
<1>8. CASE x.op = "dot"
  <2>1. Value(h, x) = IF TypeOf(h, v) = "hmap" THEN OrNull(HmapGets(h, v, x.of)) ELSE NULL
    BY <1>8 DEF Value, v
  <2>2. CASE TypeOf(h, v) = "hmap"
    <3>1. v \notin Static
      BY <2>2 DEF TypeOf, Static
    <3>2. v \in Obj
      BY <1>5, <3>1
    <3> QED
      BY <1>3, <1>4, <1>8, <2>1, <2>2, <3>2
  <2>3. CASE TypeOf(h, v) # "hmap"
    BY <2>1, <2>3, TheVars
  <2> QED
    BY <2>2, <2>3
<1> QED
  BY <1>4, <1>6, <1>7, <1>8

(* A map or a vector is an object.                                         *)
LEMMA Iterables ==
  ASSUME NEW h, NEW v \in Obj \cup Static, TypeOf(h, v) \in {"vector", "hmap"}
  PROVE  v \in Obj /\ h.kind[v] = TypeOf(h, v)
BY TheVars DEF TypeOf, Static

-----------------------------------------------------------------------------
(* Functions other than eval_loop return.                                  *)
LEMMA Returned ==
  ASSUME Running, Evaluating, Top.fn # "loop", stack' = Tail(stack),
         Same(heap, heap'), heap'.cell = heap.cell, Shaped(heap'),
         \A o \in Obj : Slack(heap', o) = Slack(heap, o) - Weight(Top, o),
         UNCHANGED <<num, brk, errors, lost>>
  PROVE  IInv'
<1> DEFINE r == Tail(stack)
<1>0. IInv /\ mode = "eval"
  BY DEF Running, Evaluating
<1>1. r \in Seq(Frame) /\ Resting(r)
  BY <1>0, Opened
<1>2. /\ num' \in [Obj -> Int] /\ lost' \in [Obj -> Nat] /\ errors' \in Nat /\ errors' >= errors
      /\ heap' \in HeapType /\ brk' \in BOOLEAN
  BY <1>0 DEF IInv, TypeOK, Same
<1>3. Sound(heap', num', r)
  BY <1>0, RestSound DEF Same
<1>4. ASSUME NEW o \in Obj
      PROVE  Slack(heap', o) = hold[o] + Held(r, o) + lost'[o]
  <2>1. /\ Slack(heap, o) = hold[o] + Weight(Top, o) + Held(r, o) + lost[o]
        /\ hold[o] \in Nat /\ Weight(Top, o) \in Nat /\ Held(r, o) \in Nat /\ lost[o] \in Nat
    BY <1>0, Balance
  <2> QED
    BY <2>1
<1>5. PICK s, u \in Scope :
        Link(Top, s, u) /\ Scoped(r, u, start.vars) /\ Agrees(s)
  BY <1>0, ScopeOfTop
<1>6. Scoped(r, s, start.vars) /\ Agrees(s)'
  BY <1>2, <1>5, LinkPlain, AgreesStill
<1> QED
  BY <1>0, <1>1, <1>2, <1>3, <1>4, <1>6, Popped

LEMMA EndSubblocksKeeps == ASSUME Running, EndSubblocks PROVE IInv'
<1>1. Evaluating /\ Top.fn = "subblocks" /\ IInv
  BY DEF EndSubblocks, In, Running
<1>2. heap \in HeapType /\ Shaped(heap)
  BY <1>1, Ledger
<1>3. ASSUME NEW o \in Obj PROVE Slack(heap', o) = Slack(heap, o) - Weight(Top, o)
  <2>1. Weight(Top, o) = 0 /\ Slack(heap, o) \in Int
    BY <1>1, <1>2, WeightSub, Counts
  <2> QED
    BY <2>1 DEF EndSubblocks
<1>4. Same(heap, heap') /\ heap' = heap
  BY <1>2, SameSelf DEF EndSubblocks
<1> QED
  BY <1>1, <1>2, <1>3, <1>4, Returned DEF EndSubblocks

LEMMA EndBranchKeeps == ASSUME Running, EndBranch PROVE IInv'
<1> DEFINE v == Top.cond
<1>1. Evaluating /\ Top.fn = "branch" /\ IInv
  BY DEF EndBranch, In, Running
<1>2. heap \in HeapType /\ Shaped(heap) /\ Quiet(heap)
  BY <1>1, Ledger DEF Evaluating
<1>3. heap' = Unref(heap, v)
  BY DEF EndBranch
<1>4. /\ Same(heap, heap') /\ heap'.cell = heap.cell
      /\ \A o \in Obj : /\ heap'.rc[o] = heap.rc[o] - One(v, o)
                        /\ Slack(heap', o) = Slack(heap, o) - One(v, o)
  BY <1>2, <1>3, UnrefSlack
<1>5. \A o \in Obj : Slack(heap', o) = Slack(heap, o) - Weight(Top, o)
  BY <1>1, <1>4, WeightBranch
<1>6. ASSUME v \in Obj PROVE heap.kind[v] # "none"
  <2>1. "cond" \in Locals /\ Holds(Top, "cond", v)
    BY <1>1 DEF Locals, Holds
  <2> QED
    BY <1>1, <1>6, <2>1, TopHolds
<1>7. ASSUME NEW o \in Obj
      PROVE  /\ heap.kind[o] = "none" => heap'.rc[o] = heap.rc[o]
             /\ heap.kind[o] = "vector" /\ heap'.rc[o] > 0 => heap.rc[o] > 0
  <2>1. /\ heap.kind[o] = "none" => One(v, o) = 0
        /\ One(v, o) \in Nat
    BY <1>6, Ones
  <2>2. heap.rc[o] \in Nat
    BY <1>1, Ledger
  <2> QED
    BY <1>4, <2>1, <2>2
<1>8. \A s \in Slot : heap'.cell[VARS][s] # VARS
  BY <1>2, <1>4, TheVars DEF Shaped
<1>9. Shaped(heap')
  BY <1>2, <1>4, <1>7, <1>8, ShapeKept
<1> QED
  BY <1>1, <1>4, <1>5, <1>9, Returned DEF EndBranch

(* eval_branch has decided: it holds v, and calls for what it chose, or    *)
(* nothing.                                                                *)
LEMMA DecidedFrame ==
  ASSUME IInv, Deciding, NEW v \in Obj \cup Static \cup {NULL}
  PROVE  LET d == [Top EXCEPT !.branches = << >>, !.cond = v] IN
         /\ d \in Frame /\ d.fn = "branch" /\ d.branches = << >> /\ d.cond = v
         /\ Decided(v) = <<d>> \o Tail(stack)
         /\ Chosen \in Choices(Pieces) /\ Tail(Top.branches) \in Seq(Choices(Pieces))
         /\ Top.cond = NULL
<1> DEFINE d == [Top EXCEPT !.branches = << >>, !.cond = v]
<1>1. Top \in Frame /\ Top.fn = "branch" /\ FrameSound(heap, num, Top)
  BY Opened DEF Deciding, In
<1>2. Top \in [fn : {"branch"}, branches : Seq(Choices(Pieces)), cond : Obj \cup Static \cup {NULL}]
  BY <1>1 DEF Frame
<1>3. Top.branches \in Seq(Choices(Pieces)) /\ Top.branches # << >>
  BY <1>2 DEF Deciding
<1>4. Head(Top.branches) \in Choices(Pieces) /\ Tail(Top.branches) \in Seq(Choices(Pieces))
  BY <1>3, Split
<1>5. << >> \in Seq(Choices(Pieces))
  OBVIOUS
<1>6. /\ d \in [fn : {"branch"}, branches : Seq(Choices(Pieces)),
                cond : Obj \cup Static \cup {NULL}]
      /\ d.fn = "branch" /\ d.branches = << >> /\ d.cond = v
  BY <1>2, <1>5
<1>7. d \in Frame
  BY <1>6 DEF Frame
<1>8. Top.cond = NULL
  BY <1>1, <1>3 DEF FrameSound
<1> QED
  BY <1>4, <1>6, <1>7, <1>8 DEF Decided, Chosen

(* A function that has only been called.                                   *)
HoldsNothing(g) == g.fn = "subblocks" \/ (g.fn = "branch" /\ g.cond = NULL)

LEMMA Decides ==
  ASSUME Running, Deciding, NEW v \in Obj \cup Static \cup {NULL},
         Same(heap, heap'), heap'.cell = heap.cell, Shaped(heap'),
         \A o \in Obj : Slack(heap', o) = Slack(heap, o) + One(v, o),
         \/ stack' = Decided(v)
         \/ \E g \in Frame : HoldsNothing(g) /\ stack' = <<g>> \o Decided(v),
         UNCHANGED <<num, brk, errors, lost>>
  PROVE  IInv'
<1> DEFINE d == [Top EXCEPT !.branches = << >>, !.cond = v]
           r == Tail(stack)
<1>0. IInv /\ mode = "eval" /\ Evaluating /\ Top.fn = "branch" /\ Top.branches # << >>
  BY DEF Running, Evaluating, Deciding, In
<1>1. /\ d \in Frame /\ d.fn = "branch" /\ d.branches = << >> /\ d.cond = v
      /\ Decided(v) = <<d>> \o r /\ Top.cond = NULL
  BY <1>0, DecidedFrame
<1> HIDE DEF d
<1>2. r \in Seq(Frame) /\ Resting(r)
  BY <1>0, Opened
<1>3. /\ num' \in [Obj -> Int] /\ lost' \in [Obj -> Nat] /\ errors' \in Nat /\ errors' >= errors
      /\ heap' \in HeapType /\ brk' \in BOOLEAN
  BY <1>0 DEF IInv, TypeOK, Same
<1>4. Sound(heap', num', r)
  BY <1>0, RestSound DEF Same
<1>5. ASSUME NEW o \in Obj
      PROVE  /\ Slack(heap', o) = hold[o] + Weight(d, o) + Held(r, o) + lost'[o]
             /\ hold[o] \in Nat /\ Weight(d, o) \in Nat /\ Held(r, o) \in Nat /\ lost'[o] \in Nat
  <2>1. /\ Slack(heap, o) = hold[o] + Weight(Top, o) + Held(r, o) + lost[o]
        /\ hold[o] \in Nat /\ Weight(Top, o) \in Nat /\ Held(r, o) \in Nat /\ lost[o] \in Nat
    BY <1>0, Balance
  <2>2. Weight(Top, o) = One(NULL, o) /\ Weight(d, o) = One(v, o)
    BY <1>0, <1>1, WeightBranch
  <2>3. One(NULL, o) = 0 /\ One(v, o) \in Nat
    BY TheVars, Ones
  <2> QED
    BY <2>1, <2>2, <2>3
<1>6. PICK s, u \in Scope :
        Link(Top, s, u) /\ Scoped(r, u, start.vars) /\ Agrees(s)
  BY <1>0, ScopeOfTop
<1>7. Scoped(r, s, start.vars) /\ Agrees(s)' /\ Link(d, s, s)
  BY SMTT(30), <1>0, <1>1, <1>3, <1>6, LinkPlain, AgreesStill
<1>8. FrameSound(heap', num', d) /\ Bound(heap', d) /\ Finishing(d) /\ Waiting(d)
  BY <1>1 DEF FrameSound, Bound, Finishing, Waiting
<1>9. CASE stack' = Decided(v)
  BY <1>0, <1>1, <1>2, <1>3, <1>4, <1>5, <1>7, <1>8, <1>9, Topped
<1>10. ASSUME NEW g \in Frame, HoldsNothing(g), stack' = <<g>> \o Decided(v)
       PROVE  IInv'
  <2> DEFINE R == Decided(v)
  <2>1. R \in Seq(Frame) /\ Resting(R) /\ Sound(heap', num', R)
    <3>1. R = <<d>> \o r
      BY <1>1
    <3> HIDE DEF R
    <3>2. R \in Seq(Frame)
      BY <1>1, <1>2, <3>1, Consed
    <3>3. Resting(R)
      BY <1>1, <1>2, <1>8, <3>1, RestingCons
    <3>4. Sound(heap', num', R)
      BY <1>1, <1>2, <1>4, <1>8, <3>1, SoundCons
    <3> QED
      BY <3>2, <3>3, <3>4
  <2>2. ASSUME NEW o \in Obj
        PROVE  Slack(heap', o) = hold[o] + Weight(g, o) + Held(R, o) + lost'[o]
    <3>1. Held(R, o) = Weight(d, o) + Held(r, o)
      BY ZenonT(40), <1>1, <1>2, FrameHeld
    <3>2. One(NULL, o) = 0
      BY TheVars, Ones
    <3>3. Weight(g, o) = 0
      BY <1>10, <3>2, WeightSub, WeightBranch DEF HoldsNothing
    <3> QED
      BY <1>5, <3>1, <3>3
  <2>3. g.fn # "loop"
    BY <1>10 DEF HoldsNothing
  <2>4. FrameSound(heap', num', g) /\ Bound(heap', g) /\ Link(g, s, s)
    BY <1>10, <2>3, LinkPlain DEF FrameSound, Bound, HoldsNothing
  <2>5. Scoped(R, s, start.vars)
    BY <1>1, <1>2, <1>7, ScopedCons
  <2>6. ~Failed'
    <3>1. Failed => Finishing(Top)
      BY <1>0, Opened
    <3>2. ~Failed
      BY <1>0, <3>1 DEF Finishing
    <3> QED
      BY <3>2 DEF Failed, Running, rendering
  <2> HIDE DEF R
  <2>7. stack' = <<g>> \o R
    BY <1>10 DEF R
  <2> QED
    BY <1>0, <1>3, <1>7, <2>1, <2>2, <2>4, <2>5, <2>6, <2>7, Topped
<1> QED
  BY <1>9, <1>10

LEMMA ElseKeeps == ASSUME Running, Else PROVE IInv'
<1>1. Deciding /\ Chosen.cond = NULL /\ IInv
  BY DEF Else, Running
<1>2. heap \in HeapType /\ Shaped(heap)
  BY <1>1, Ledger
<1>3. Chosen.body \in Seq(Pieces)
  <2>1. Chosen \in Choices(Pieces)
    BY <1>1, DecidedFrame
  <2> QED
    BY <2>1 DEF Choices
<1>4. Sub(Chosen.body) \in Frame /\ HoldsNothing(Sub(Chosen.body))
  BY <1>3, SubFrame DEF HoldsNothing
<1>5. ASSUME NEW o \in Obj PROVE Slack(heap', o) = Slack(heap, o) + One(NULL, o)
  <2>1. One(NULL, o) = 0 /\ Slack(heap, o) \in Int /\ heap' = heap
    BY <1>2, TheVars, Ones, Counts DEF Else
  <2> QED
    BY <2>1
<1>6. Same(heap, heap') /\ heap' = heap /\ Shaped(heap')
  BY <1>2, SameSelf DEF Else
<1>7. \E g \in Frame : HoldsNothing(g) /\ stack' = <<g>> \o Decided(NULL)
  BY <1>4 DEF Else
<1>8. UNCHANGED <<num, brk, errors, lost>>
  BY DEF Else
<1> QED
  BY <1>1, <1>5, <1>6, <1>7, <1>8, Decides

(* A reference to a value that was found.                                  *)
LEMMA KeepShape ==
  ASSUME NEW h \in HeapType, Shaped(h), NEW v, v \in Obj => h.rc[v] > 0,
         \A o \in Obj : h.rc[o] \in Nat,
         \A o \in Obj : h.kind[o] # "none" => h.rc[o] > 0
  PROVE  Shaped(Keep(h, v))
<1>1. /\ Same(h, Keep(h, v)) /\ Keep(h, v).cell = h.cell
      /\ \A o \in Obj : Keep(h, v).rc[o] = h.rc[o] + One(v, o)
  BY KeepSlack
<1>2. ASSUME NEW o \in Obj, h.kind[o] = "none" PROVE Keep(h, v).rc[o] = h.rc[o]
  <2>1. h.rc[o] = 0
    BY <1>2 DEF Shaped
  <2>2. v # o
    BY <2>1
  <2> QED
    BY <1>1, <2>1, <2>2, Ones
<1>3. \A s \in Slot : Keep(h, v).cell[VARS][s] # VARS
  BY <1>1, TheVars DEF Shaped
<1>4. ASSUME NEW o \in Obj, h.kind[o] = "vector" PROVE h.rc[o] > 0
  BY <1>4
<1> QED
  BY <1>1, <1>2, <1>3, <1>4, ShapeKept

LEMMA TestKeeps == ASSUME Running, Test PROVE IInv'
<1> DEFINE v == Value(heap, Chosen.cond)
<1>1. Deciding /\ Chosen.cond # NULL /\ ~Fails(heap, Chosen.cond) /\ IInv /\ Quiet(heap)
  BY DEF Test, Running, Deciding, In, Evaluating
<1>2. heap \in HeapType /\ Shaped(heap)
  BY <1>1, Ledger
<1>3. Chosen \in Choices(Pieces) /\ Tail(Top.branches) \in Seq(Choices(Pieces))
  BY <1>1, DecidedFrame
<1>4. Chosen.cond \in Expression /\ Chosen.body \in Seq(Pieces)
  BY <1>1, <1>3 DEF Choices
<1>5. v \in Obj \cup Static /\ (v \in Obj => Cells(heap, v) > 0)
  BY <1>1, <1>2, <1>4, ValueFound DEF Fails
<1>6. heap' = Keep(heap, v)
  BY DEF Test
<1>7. \/ stack' = Decided(v)
      \/ stack' = <<Sub(Chosen.body)>> \o Decided(v)
      \/ stack' = <<Alternatives(Tail(Top.branches))>> \o Decided(v)
  BY DEF Test
<1>8. UNCHANGED <<num, brk, errors, lost>>
  BY DEF Test
<1> HIDE DEF v
<1>9. /\ Same(heap, heap') /\ heap'.cell = heap.cell
      /\ \A o \in Obj : Slack(heap', o) = Slack(heap, o) + One(v, o)
  BY <1>2, <1>6, KeepSlack
<1>10. v \in Obj => heap.rc[v] > 0
  <2>1. ASSUME v \in Obj PROVE heap.rc[v] > 0
    <3>1. heap.rc[v] \in Nat /\ heap.rc[v] >= Cells(heap, v) /\ Cells(heap, v) \in Nat
      BY <1>1, <2>1, Ledger, CellsNat
    <3> QED
      BY <1>5, <2>1, <3>1
  <2> QED
    BY <2>1
<1>11. /\ \A o \in Obj : heap.rc[o] \in Nat
       /\ \A o \in Obj : heap.kind[o] # "none" => heap.rc[o] > 0
  BY <1>1, Ledger
<1>12. Shaped(heap')
  BY <1>2, <1>6, <1>10, <1>11, KeepShape
<1>13. Sub(Chosen.body) \in Frame /\ HoldsNothing(Sub(Chosen.body))
  BY <1>4, SubFrame DEF HoldsNothing
<1>14. /\ Alternatives(Tail(Top.branches)) \in Frame
       /\ HoldsNothing(Alternatives(Tail(Top.branches)))
  BY <1>3 DEF HoldsNothing, Alternatives, Frame
<1>15. \/ stack' = Decided(v)
       \/ \E g \in Frame : HoldsNothing(g) /\ stack' = <<g>> \o Decided(v)
  BY <1>7, <1>13, <1>14
<1> QED
  BY <1>1, <1>5, <1>8, <1>9, <1>12, <1>15, Decides
-----------------------------------------------------------------------------
(* Calls that touch env->vars or a count keep the heap in shape.           *)
LEMMA SetsShape ==
  ASSUME NEW h \in HeapType, Shaped(h), NEW k \in Slot, NEW v \in Obj \ {VARS}, h.rc[v] > 0
  PROVE  Shaped(HmapSets(h, VARS, k, v))
<1> DEFINE g == HmapSets(h, VARS, k, v)
<1>1. /\ Same(h, g) /\ g.cell[VARS] = [h.cell[VARS] EXCEPT ![k] = v]
      /\ \A o \in Obj : g.rc[o] = h.rc[o] + One(v, o)
  BY SetsSlack
<1> HIDE DEF g
<1>2. ASSUME NEW o \in Obj
      PROVE  /\ h.kind[o] = "none" => g.rc[o] = h.rc[o]
             /\ h.kind[o] = "vector" /\ g.rc[o] > 0 => h.rc[o] > 0
  <2>1. h.rc[o] \in Int
    BY Counts
  <2>2. CASE o = v
    <3>1. h.kind[o] # "none"
      BY <2>2 DEF Shaped
    <3> QED
      BY <2>2, <3>1
  <2>3. CASE o # v
    BY <1>1, <2>1, <2>3, Ones
  <2> QED
    BY <2>2, <2>3
<1>3. ASSUME NEW s \in Slot PROVE g.cell[VARS][s] # VARS
  <2>1. h.cell[VARS] \in [Slot -> Obj \cup {NULL}] /\ h.cell[VARS][s] # VARS
    BY Parts, TheVars DEF Shaped
  <2> QED
    BY <1>1, <2>1
<1>4. Shaped(g)
  BY <1>1, <1>2, <1>3, ShapeKept
<1> QED
  BY <1>4 DEF g

LEMMA UnrefShape ==
  ASSUME NEW h \in HeapType, Shaped(h), NEW v, v \in Obj => h.kind[v] # "none"
  PROVE  Shaped(Unref(h, v))
<1> DEFINE g == Unref(h, v)
<1>1. /\ Same(h, g) /\ g.cell = h.cell
      /\ \A o \in Obj : g.rc[o] = h.rc[o] - One(v, o)
  BY UnrefSlack
<1> HIDE DEF g
<1>2. ASSUME NEW o \in Obj
      PROVE  /\ h.kind[o] = "none" => g.rc[o] = h.rc[o]
             /\ h.kind[o] = "vector" /\ g.rc[o] > 0 => h.rc[o] > 0
  <2>1. h.rc[o] \in Int /\ One(v, o) \in Nat
    BY Counts, Ones
  <2>2. h.kind[o] = "none" => One(v, o) = 0
    BY Ones
  <2> QED
    BY <1>1, <2>1, <2>2
<1>3. \A s \in Slot : g.cell[VARS][s] # VARS
  BY <1>1, TheVars DEF Shaped
<1>4. Shaped(g)
  BY <1>1, <1>2, <1>3, ShapeKept
<1> QED
  BY <1>4 DEF g

LEMMA UnsetsShape ==
  ASSUME NEW h \in HeapType, Shaped(h), NEW k \in Slot,
         h.cell[VARS][k] \in Obj => h.kind[h.cell[VARS][k]] # "none"
  PROVE  Shaped(HmapUnsets(h, VARS, k))
<1> DEFINE g == HmapUnsets(h, VARS, k)
           v == h.cell[VARS][k]
<1>1. /\ Same(h, g) /\ g.cell[VARS] = [h.cell[VARS] EXCEPT ![k] = NULL]
      /\ \A o \in Obj : g.rc[o] = h.rc[o] - One(v, o)
  BY UnsetsSlack
<1> HIDE DEF g
<1>2. ASSUME NEW o \in Obj
      PROVE  /\ h.kind[o] = "none" => g.rc[o] = h.rc[o]
             /\ h.kind[o] = "vector" /\ g.rc[o] > 0 => h.rc[o] > 0
  <2>1. h.rc[o] \in Int /\ One(v, o) \in Nat
    BY Counts, Ones
  <2>2. h.kind[o] = "none" => One(v, o) = 0
    BY Ones
  <2> QED
    BY <1>1, <2>1, <2>2
<1>3. ASSUME NEW s \in Slot PROVE g.cell[VARS][s] # VARS
  <2>1. h.cell[VARS] \in [Slot -> Obj \cup {NULL}] /\ h.cell[VARS][s] # VARS
    BY Parts, TheVars DEF Shaped
  <2>2. NULL # VARS
    BY TheVars
  <2> QED
    BY <1>1, <2>1, <2>2
<1>4. Shaped(g)
  BY <1>1, <1>2, <1>3, ShapeKept
<1> QED
  BY <1>4 DEF g

(* What is in a cell is an object.                                         *)
LEMMA CellLive ==
  ASSUME IInv, NEW c \in Obj, NEW s \in Slot, heap.cell[c][s] \in Obj
  PROVE  heap.rc[heap.cell[c][s]] > 0 /\ heap.kind[heap.cell[c][s]] # "none"
<1> DEFINE v == heap.cell[c][s]
<1>1. heap \in HeapType
  BY Ledger
<1>2. Cells(heap, v) > 0 /\ Cells(heap, v) \in Nat
  BY <1>1, InCell, CellsNat
<1>3. heap.rc[v] \in Nat /\ heap.rc[v] >= Cells(heap, v)
  BY Ledger
<1>4. heap.rc[v] > 0
  BY <1>2, <1>3
<1> QED
  BY <1>4, Ledger

-----------------------------------------------------------------------------
(* The frame of a loop.                                                    *)
LEMMA LoopFields ==
  ASSUME NEW f \in Frame, f.fn = "loop"
  PROVE  /\ f \in [fn : {"loop"}, at : {"bind", "unbind", "loop", "item", "leave"},
                   loopv : Obj, indexv : Obj, outerloop : Obj \cup {NULL},
                   outeritem : Obj \cup {NULL}, owned : BOOLEAN, seq : Obj \cup Static,
                   iter : SUBSET Key, item : Key, body : Seq(Pieces)]
BY DEF Frame

LEMMA LoopFrame ==
  ASSUME NEW f, f \in [fn : {"loop"}, at : {"bind", "unbind", "loop", "item", "leave"},
                   loopv : Obj, indexv : Obj, outerloop : Obj \cup {NULL},
                   outeritem : Obj \cup {NULL}, owned : BOOLEAN, seq : Obj \cup Static,
                   iter : SUBSET Key, item : Key, body : Seq(Pieces)]
  PROVE  f \in Frame
BY DEF Frame

(* The frame at another statement.                                         *)
Moved(f, a) == [f EXCEPT !.at = a]

LEMMA AtFrame ==
  ASSUME NEW f \in Frame, f.fn = "loop", NEW a \in {"bind", "unbind", "loop", "item", "leave"}
  PROVE  /\ Moved(f, a) \in Frame /\ Moved(f, a).fn = "loop" /\ Moved(f, a).at = a
         /\ Moved(f, a).loopv = f.loopv /\ Moved(f, a).indexv = f.indexv
         /\ Moved(f, a).outerloop = f.outerloop /\ Moved(f, a).outeritem = f.outeritem
         /\ Moved(f, a).owned = f.owned /\ Moved(f, a).seq = f.seq
         /\ Moved(f, a).iter = f.iter /\ Moved(f, a).item = f.item
<1> DEFINE g == [f EXCEPT !.at = a]
<1>1. f \in [fn : {"loop"}, at : {"bind", "unbind", "loop", "item", "leave"},
             loopv : Obj, indexv : Obj, outerloop : Obj \cup {NULL},
             outeritem : Obj \cup {NULL}, owned : BOOLEAN, seq : Obj \cup Static,
             iter : SUBSET Key, item : Key, body : Seq(Pieces)]
  BY LoopFields
<1>2. g \in [fn : {"loop"}, at : {"bind", "unbind", "loop", "item", "leave"},
             loopv : Obj, indexv : Obj, outerloop : Obj \cup {NULL},
             outeritem : Obj \cup {NULL}, owned : BOOLEAN, seq : Obj \cup Static,
             iter : SUBSET Key, item : Key, body : Seq(Pieces)]
  BY <1>1
<1>3. /\ g.fn = "loop" /\ g.at = a /\ g.loopv = f.loopv
      /\ g.indexv = f.indexv /\ g.outerloop = f.outerloop /\ g.outeritem = f.outeritem
      /\ g.owned = f.owned /\ g.seq = f.seq /\ g.iter = f.iter /\ g.item = f.item
  BY <1>1
<1>4. g \in Frame
  BY <1>2, LoopFrame
<1>5. Moved(f, a) = g
  BY DEF Moved
<1> HIDE DEF g
<1> QED
  BY <1>3, <1>4, <1>5

(* What a loop holds at its statements.                                    *)
LEMMA WeightMoved ==
  ASSUME NEW f, NEW g, f.fn = "loop", g.fn = "loop", g.loopv = f.loopv, g.indexv = f.indexv,
         g.outerloop = f.outerloop, g.outeritem = f.outeritem, g.seq = f.seq, NEW o \in Obj
  PROVE  /\ f.at \notin {"item", "leave"} /\ g.at \notin {"item", "leave"} /\ g.owned = f.owned =>
              Weight(g, o) = Weight(f, o)
         /\ f.at = "loop" /\ g.at = "item" /\ g.owned = f.owned =>
              Weight(g, o) = Weight(f, o) - One(f.outerloop, o)
         /\ f.at = "item" /\ g.at = "leave" =>
              Weight(g, o) = Weight(f, o) - (IF f.owned THEN One(f.outeritem, o) ELSE 0)
         /\ f.at = "bind" /\ g.at = "unbind" /\ g.owned =>
              Weight(g, o) = Weight(f, o) + (IF f.owned THEN 0 ELSE One(f.outeritem, o))
         /\ f.at = "leave" =>
              Weight(f, o) = One(f.loopv, o) + One(f.indexv, o) + One(f.seq, o)
<1> DEFINE b == One(f.loopv, o) + One(f.indexv, o) + One(f.seq, o)
           m4(x) == IF x.at \in {"item", "leave"} THEN 0 ELSE One(x.outerloop, o)
           m5(x) == IF x.owned /\ x.at # "leave" THEN One(x.outeritem, o) ELSE 0
<1>1. /\ One(f.loopv, o) \in Int /\ One(f.indexv, o) \in Int /\ One(f.seq, o) \in Int
      /\ One(f.outerloop, o) \in Int /\ One(f.outeritem, o) \in Int
  BY Ones
<1>2. b \in Int
  BY <1>1
<1>3. Weight(f, o) = b + m4(f) + m5(f)
  BY WeightLoop
<1>4. Weight(g, o) = b + m4(g) + m5(g)
  BY WeightLoop
<1>5. m4(f) \in Int /\ m5(f) \in Int /\ m4(g) \in Int /\ m5(g) \in Int
  BY <1>1
<1>6. ASSUME f.at \notin {"item", "leave"}, g.at \notin {"item", "leave"}, g.owned = f.owned
      PROVE  m4(g) = m4(f) /\ m5(g) = m5(f)
  BY <1>6
<1>7. ASSUME f.at = "loop", g.at = "item", g.owned = f.owned
      PROVE  m4(f) = One(f.outerloop, o) /\ m4(g) = 0 /\ m5(g) = m5(f)
  BY <1>7
<1>8. ASSUME f.at = "item", g.at = "leave"
      PROVE  /\ m4(f) = 0 /\ m4(g) = 0 /\ m5(g) = 0
             /\ m5(f) = IF f.owned THEN One(f.outeritem, o) ELSE 0
  BY <1>8
<1>9. ASSUME f.at = "bind", g.at = "unbind", g.owned
      PROVE  /\ m4(g) = m4(f) /\ m5(g) = One(f.outeritem, o)
             /\ m5(f) = IF f.owned THEN One(f.outeritem, o) ELSE 0
  BY <1>9
<1>10. ASSUME f.at = "leave" PROVE m4(f) = 0 /\ m5(f) = 0
  BY <1>10
<1> HIDE DEF b, m4, m5
<1>11. f.at \notin {"item", "leave"} /\ g.at \notin {"item", "leave"} /\ g.owned = f.owned =>
         Weight(g, o) = Weight(f, o)
  BY <1>3, <1>4, <1>6
<1>12. f.at = "loop" /\ g.at = "item" /\ g.owned = f.owned =>
         Weight(g, o) = Weight(f, o) - One(f.outerloop, o)
  BY <1>1, <1>2, <1>3, <1>4, <1>5, <1>7
<1>13. f.at = "item" /\ g.at = "leave" =>
         Weight(g, o) = Weight(f, o) - (IF f.owned THEN One(f.outeritem, o) ELSE 0)
  BY <1>1, <1>2, <1>3, <1>4, <1>5, <1>8
<1>14. f.at = "bind" /\ g.at = "unbind" /\ g.owned =>
         Weight(g, o) = Weight(f, o) + (IF f.owned THEN 0 ELSE One(f.outeritem, o))
  BY <1>1, <1>2, <1>3, <1>4, <1>5, <1>9
<1>15. f.at = "leave" => Weight(f, o) = b
  BY <1>2, <1>3, <1>10
<1> QED
  BY <1>11, <1>12, <1>13, <1>14, <1>15 DEF b

LEMMA WeightAt ==
  ASSUME NEW f \in Frame, f.fn = "loop", NEW a \in {"bind", "unbind", "loop", "item", "leave"},
         NEW o \in Obj
  PROVE  /\ f.at \notin {"item", "leave"} /\ a \notin {"item", "leave"} =>
              Weight(Moved(f, a), o) = Weight(f, o)
         /\ f.at = "loop" /\ a = "item" =>
              Weight(Moved(f, a), o) = Weight(f, o) - One(f.outerloop, o)
         /\ f.at = "item" /\ a = "leave" =>
              Weight(Moved(f, a), o)
                = Weight(f, o) - (IF f.owned THEN One(f.outeritem, o) ELSE 0)
         /\ Weight(f, o) \in Nat /\ Weight(Moved(f, a), o) \in Nat
<1> DEFINE g == Moved(f, a)
<1>1. /\ g.fn = "loop" /\ g.loopv = f.loopv /\ g.indexv = f.indexv /\ g.outerloop = f.outerloop
      /\ g.outeritem = f.outeritem /\ g.seq = f.seq /\ g.owned = f.owned /\ g.at = a
  BY AtFrame
<1> HIDE DEF g
<1>2. /\ f.at \notin {"item", "leave"} /\ g.at \notin {"item", "leave"} =>
           Weight(g, o) = Weight(f, o)
      /\ f.at = "loop" /\ g.at = "item" =>
           Weight(g, o) = Weight(f, o) - One(f.outerloop, o)
      /\ f.at = "item" /\ g.at = "leave" =>
           Weight(g, o) = Weight(f, o) - (IF f.owned THEN One(f.outeritem, o) ELSE 0)
  BY <1>1, WeightMoved
<1>3. Weight(f, o) \in Nat /\ Weight(g, o) \in Nat
  BY LocalsFinite
<1> QED
  BY <1>1, <1>2, <1>3 DEF g

LEMMA InTheLoop ==
  ASSUME IInv, In("loop")
  PROVE  /\ Top \in Frame /\ Top.fn = "loop"
         /\ Top.loopv \in Obj \ {VARS} /\ Top.indexv \in Obj /\ Top.seq \in Obj \cup Static
         /\ Top.seq # VARS
         /\ Top.outerloop \in (Obj \ {VARS}) \cup {NULL}
         /\ Top.outeritem \in (Obj \ {VARS}) \cup {NULL}
         /\ Top.owned \in BOOLEAN /\ Top.item \in Key /\ Top.item # LOOP
         /\ Top.at \in {"bind", "unbind", "loop", "item", "leave"}
         /\ Top.item \in Slot /\ LOOP \in Slot
         /\ heap.rc[Top.loopv] > 0 /\ heap.kind[Top.loopv] # "none"
         /\ heap.rc[Top.indexv] > 0 /\ heap.kind[Top.indexv] # "none"
         /\ Top.seq \in Obj => heap.rc[Top.seq] > 0 /\ heap.kind[Top.seq] # "none"
         /\ Top.outerloop \in Obj /\ Top.at \notin {"item", "leave"} =>
              heap.rc[Top.outerloop] > 0 /\ heap.kind[Top.outerloop] # "none"
         /\ Top.outeritem \in Obj /\ Top.owned /\ Top.at # "leave" =>
              heap.rc[Top.outeritem] > 0 /\ heap.kind[Top.outeritem] # "none"
<1>1. Top \in Frame /\ Top.fn = "loop" /\ Evaluating /\ FrameSound(heap, num, Top)
  BY Opened DEF In
<1>2. /\ Top.loopv \in Obj /\ Top.indexv \in Obj /\ Top.seq \in Obj \cup Static
      /\ Top.outerloop \in Obj \cup {NULL} /\ Top.outeritem \in Obj \cup {NULL}
      /\ Top.owned \in BOOLEAN /\ Top.item \in Key
      /\ Top.at \in {"bind", "unbind", "loop", "item", "leave"}
  BY <1>1, LoopFields
<1>3. VARS \notin {Top.loopv, Top.seq, Top.outerloop, Top.outeritem} /\ Top.item # LOOP
  BY <1>1 DEF FrameSound
<1>4. Top.item \in Slot /\ LOOP \in Slot
  BY <1>2, TheVars
<1>5. heap.rc[Top.loopv] > 0 /\ heap.kind[Top.loopv] # "none"
  BY <1>1, <1>2, TopHolds DEF Holds, Locals
<1>6. heap.rc[Top.indexv] > 0 /\ heap.kind[Top.indexv] # "none"
  BY <1>1, <1>2, TopHolds DEF Holds, Locals
<1>7. Top.seq \in Obj => heap.rc[Top.seq] > 0 /\ heap.kind[Top.seq] # "none"
  BY <1>1, TopHolds DEF Holds, Locals
<1>8. Top.outerloop \in Obj /\ Top.at \notin {"item", "leave"} =>
        heap.rc[Top.outerloop] > 0 /\ heap.kind[Top.outerloop] # "none"
  BY <1>1, TopHolds DEF Holds, Locals
<1>9. Top.outeritem \in Obj /\ Top.owned /\ Top.at # "leave" =>
        heap.rc[Top.outeritem] > 0 /\ heap.kind[Top.outeritem] # "none"
  BY <1>1, TopHolds DEF Holds, Locals
<1> QED
  BY <1>1, <1>2, <1>3, <1>4, <1>5, <1>6, <1>7, <1>8, <1>9

(* A loop goes from one statement to another.                              *)
LEMMA LoopMoved ==
  ASSUME Running, In("loop"), NEW f \in Frame, f.fn = "loop",
         f.loopv = Top.loopv, f.indexv = Top.indexv, f.outerloop = Top.outerloop,
         f.outeritem = Top.outeritem, f.seq = Top.seq, f.item = Top.item,
         f.iter \subseteq Top.iter, f.at = "unbind" => f.owned,
         f.at \in {"bind", "unbind"} => Top.at \in {"bind", "unbind"},
         Same(heap, heap'), \A o \in Obj : num[o] >= 0 => num'[o] >= 0,
         \A o \in Obj : Slack(heap', o) = Slack(heap, o) + (Weight(f, o) - Weight(Top, o))
                                                      + (lost'[o] - lost[o]),
         lost' \in [Obj -> Nat]
  PROVE  /\ FrameSound(heap', num', f) /\ Sound(heap', num', Tail(stack))
         /\ Resting(Tail(stack)) /\ Tail(stack) \in Seq(Frame)
         /\ \A o \in Obj :
              /\ Slack(heap', o) = hold[o] + Weight(f, o) + Held(Tail(stack), o) + lost'[o]
              /\ hold[o] \in Nat /\ Weight(f, o) \in Nat /\ Held(Tail(stack), o) \in Nat
              /\ lost'[o] \in Nat
<1> DEFINE r == Tail(stack)
<1>0. IInv /\ Evaluating /\ Top.fn = "loop"
  BY DEF Running, In
<1>1. r \in Seq(Frame) /\ Resting(r)
  BY <1>0, Opened
<1>2. Sound(heap', num', r) /\ FrameSound(heap', num', Top)
  BY <1>0, RestSound DEF Same
<1>3. FrameSound(heap', num', f)
  BY <1>0, <1>2 DEF FrameSound
<1>4. ASSUME NEW o \in Obj
      PROVE  /\ Slack(heap', o) = hold[o] + Weight(f, o) + Held(r, o) + lost'[o]
             /\ hold[o] \in Nat /\ Weight(f, o) \in Nat /\ Held(r, o) \in Nat
             /\ lost'[o] \in Nat
  <2>1. /\ Slack(heap, o) = hold[o] + Weight(Top, o) + Held(r, o) + lost[o]
        /\ hold[o] \in Nat /\ Weight(Top, o) \in Nat /\ Held(r, o) \in Nat /\ lost[o] \in Nat
    BY <1>0, Balance
  <2>2. Weight(f, o) \in Nat /\ lost'[o] \in Nat
    BY LocalsFinite
  <2>3. Slack(heap', o) \in Int
    BY Counts DEF Same
  <2>4. Slack(heap', o) = Slack(heap, o) + (Weight(f, o) - Weight(Top, o)) + (lost'[o] - lost[o])
    OBVIOUS
  <2> QED
    BY <2>1, <2>2, <2>3, <2>4
<1> QED
  BY <1>1, <1>2, <1>3, <1>4
-----------------------------------------------------------------------------
(* The statements of eval_loop.                                            *)
LEMMA LoopGoes ==
  ASSUME Running, In("loop"), NEW a \in {"bind", "loop", "item", "leave"}, Goto(a),
         a = "bind" => Top.at \in {"bind", "unbind"} /\ ~Failed,
         Same(heap, heap'), Shaped(heap'), num' \in [Obj -> Int],
         \A o \in Obj : num[o] >= 0 => num'[o] >= 0,
         brk' \in BOOLEAN, errors' = errors, lost' \in [Obj -> Nat],
         \A o \in Obj : Slack(heap', o)
           = Slack(heap, o) + (Weight(Moved(Top, a), o) - Weight(Top, o))
               + (lost'[o] - lost[o]),
         Bound(heap', Moved(Top, a)),
         NEW t \in Scope, NEW u \in Scope, Link(Moved(Top, a), t, u),
         Scoped(Tail(stack), u, start.vars), Agrees(t)'
  PROVE  IInv'
<1> DEFINE f == Moved(Top, a)
           r == Tail(stack)
<1>0. IInv /\ mode = "eval" /\ Top \in Frame /\ Top.fn = "loop"
  BY InTheLoop DEF Running, In, Evaluating
<1>1. /\ f \in Frame /\ f.fn = "loop" /\ f.at = a /\ f.loopv = Top.loopv
      /\ f.indexv = Top.indexv /\ f.outerloop = Top.outerloop /\ f.outeritem = Top.outeritem
      /\ f.owned = Top.owned /\ f.seq = Top.seq /\ f.iter = Top.iter /\ f.item = Top.item
  BY <1>0, AtFrame
<1>2. /\ stack' = <<f>> \o r /\ Bound(heap', f) /\ Link(f, t, u)
      /\ \A o \in Obj : Slack(heap', o) = Slack(heap, o) + (Weight(f, o) - Weight(Top, o))
                                            + (lost'[o] - lost[o])
  BY DEF Goto, Moved
<1> HIDE DEF f
<1>3. f.iter \subseteq Top.iter /\ (f.at = "unbind" => f.owned)
      /\ (f.at \in {"bind", "unbind"} => Top.at \in {"bind", "unbind"})
  BY <1>1
<1>4. /\ FrameSound(heap', num', f) /\ Sound(heap', num', r) /\ Resting(r) /\ r \in Seq(Frame)
      /\ \A o \in Obj : Slack(heap', o) = hold[o] + Weight(f, o) + Held(r, o) + lost'[o]
  BY <1>1, <1>2, <1>3, LoopMoved
<1>5. errors' \in Nat /\ errors' >= errors /\ heap' \in HeapType
  BY <1>0, Ledger DEF Same
<1>6. Failed' => Finishing(f)
  BY <1>1 DEF Finishing, Failed, Running, rendering
<1> QED
  BY <1>0, <1>1, <1>2, <1>4, <1>5, <1>6, Topped

LEMMA WeightStays ==
  ASSUME IInv, In("loop"), Top.at \notin {"item", "leave"}, NEW a \in {"bind", "loop"},
         NEW o \in Obj
  PROVE  Weight(Moved(Top, a), o) = Weight(Top, o)
<1>1. Top \in Frame /\ Top.fn = "loop"
  BY InTheLoop
<1>2. a \in {"bind", "unbind", "loop", "item", "leave"} /\ a \notin {"item", "leave"}
  OBVIOUS
<1> QED
  BY <1>1, <1>2, WeightAt

LEMMA ExhaustedKeeps == ASSUME Running, Exhausted PROVE IInv'
<1> DEFINE f == Moved(Top, "loop")
<1>1. IInv /\ In("loop") /\ Top.at = "bind" /\ Evaluating
  BY DEF Running, Exhausted, InLoop, In
<1>2. Top \in Frame /\ Top.fn = "loop"
  BY <1>1, InTheLoop
<1>3. /\ f \in Frame /\ f.fn = "loop" /\ f.at = "loop" /\ f.loopv = Top.loopv
      /\ f.indexv = Top.indexv /\ f.outerloop = Top.outerloop /\ f.outeritem = Top.outeritem
      /\ f.owned = Top.owned /\ f.seq = Top.seq /\ f.iter = Top.iter /\ f.item = Top.item
  BY <1>2, AtFrame
<1>4. Goto("loop") /\ UNCHANGED <<heap, num, brk, errors, lost>>
  BY DEF Exhausted
<1> HIDE DEF f
<1>5. /\ heap \in HeapType /\ Shaped(heap) /\ num \in [Obj -> Int] /\ lost \in [Obj -> Nat]
      /\ brk \in BOOLEAN /\ errors \in Nat
  BY <1>1 DEF IInv, TypeOK, Books
<1>6. Same(heap, heap') /\ Shaped(heap')
  BY <1>4, <1>5, SameSelf
<1>7. ASSUME NEW o \in Obj
      PROVE  Slack(heap', o) = Slack(heap, o) + (Weight(f, o) - Weight(Top, o))
                                 + (lost'[o] - lost[o])
  <2>1. Weight(f, o) = Weight(Top, o)
    <3>1. Top.at \notin {"item", "leave"} /\ "loop" \in {"bind", "loop"}
      BY <1>1
    <3> QED
      BY <1>1, <3>1, WeightStays DEF f
  <2>2. Weight(Top, o) \in Nat /\ lost[o] \in Nat /\ Slack(heap, o) \in Int
    <3>1. Weight(Top, o) \in Nat
      BY LocalsFinite
    <3>2. Slack(heap, o) \in Int
      BY <1>5, Counts
    <3> QED
      BY <1>5, <3>1, <3>2
  <2>3. heap' = heap /\ lost' = lost
    BY <1>4
  <2> QED
    BY <2>1, <2>2, <2>3
<1>8. Bound(heap', f)
  <2>1. Bound(heap, Top)
    BY <1>1, Opened
  <2> QED
    BY <1>1, <1>2, <1>3, <1>4, <2>1 DEF Bound
<1>9. PICK s, u \in Scope :
        Link(Top, s, u) /\ Scoped(Tail(stack), u, start.vars) /\ Agrees(s)
  BY <1>1, ScopeOfTop
<1>10. Link(f, s, u)
  BY <1>1, <1>2, <1>3, <1>9 DEF Link
<1>11. Agrees(s)'
  BY <1>4, <1>5, <1>9, AgreesStill
<1> QED
  BY <1>1, <1>4, <1>5, <1>6, <1>7, <1>8, <1>9, <1>10, <1>11, LoopGoes DEF f

(* One variable has another value.                                         *)
Changed(s, k, v) == [s EXCEPT ![k] = v]

LEMMA ScopeSet ==
  ASSUME NEW s \in Scope, NEW k \in Slot, NEW v \in Obj \cup {NULL}
  PROVE  /\ Changed(s, k, v) \in Scope /\ Changed(s, k, v)[k] = v
         /\ \A j \in Slot \ {k} : Changed(s, k, v)[j] = s[j]
BY DEF Scope, Changed

(* One variable is set, or unset.                                          *)
LEMMA AgreesSet ==
  ASSUME Running, NEW s \in Scope, Agrees(s), NEW k \in Slot, NEW v \in Obj \cup {NULL},
         heap'.cell[VARS] = [heap.cell[VARS] EXCEPT ![k] = v],
         errors' = errors,
         k # LOOP => lost' = lost
  PROVE  Agrees(Changed(s, k, v))'
<1> DEFINE t == Changed(s, k, v)
<1>1. t[k] = v /\ \A j \in Slot \ {k} : t[j] = s[j]
  BY ScopeSet
<1> HIDE DEF t
<1>2. heap.cell[VARS] \in [Slot -> Obj \cup {NULL}]
  BY TheVars, Parts, Ledger DEF Running
<1>3. Failed' <=> Failed
  BY DEF Failed, Running, rendering
<1>4. ASSUME NEW j \in Slot
      PROVE  \/ heap'.cell[VARS][j] = t[j]
             \/ j = LOOP /\ Failed' /\ (t[LOOP] \in Obj => lost'[t[LOOP]] > 0)
  <2>1. CASE j = k
    BY <1>1, <1>2, <2>1
  <2>2. CASE j # k
    <3>1. heap'.cell[VARS][j] = heap.cell[VARS][j] /\ t[j] = s[j]
      BY <1>1, <1>2, <2>2
    <3>2. CASE j = LOOP
      BY <1>3, <2>2, <3>1, <3>2 DEF Agrees
    <3>3. CASE j # LOOP
      BY <3>1, <3>3 DEF Agrees
    <3> QED
      BY <3>2, <3>3
  <2> QED
    BY <2>1, <2>2
<1> QED
  BY <1>4 DEF Agrees, t

LEMMA UnbindKeeps == ASSUME Running, Unbind PROVE IInv'
<1>1. IInv /\ In("loop") /\ Top.at = "unbind" /\ Evaluating
  BY DEF Running, Unbind, InLoop, In
<1>0. Top \in Frame /\ Top.fn = "loop" /\ Top.item \in Slot /\ LOOP \in Slot /\ Top.item # LOOP
  BY <1>1, InTheLoop
<1>k. PICK k \in Slot : k = Top.item
  BY <1>0
<1>2. Top \in Frame /\ Top.fn = "loop" /\ k \in Slot /\ LOOP \in Slot /\ k # LOOP
      /\ k = Top.item
  BY <1>0, <1>k
<1>3. PICK a \in {"bind", "loop"} : Goto(a) /\ (a = "bind" => ~(errors > 0))
  BY DEF Unbind
<1> DEFINE f == Moved(Top, a)
<1>4. /\ f \in Frame /\ f.fn = "loop" /\ f.at = a /\ f.loopv = Top.loopv
      /\ f.indexv = Top.indexv /\ f.outerloop = Top.outerloop /\ f.outeritem = Top.outeritem
      /\ f.owned = Top.owned /\ f.seq = Top.seq /\ f.iter = Top.iter /\ f.item = Top.item
  BY <1>2, AtFrame
<1> HIDE DEF f
<1>5. /\ heap \in HeapType /\ Shaped(heap) /\ num \in [Obj -> Int] /\ lost \in [Obj -> Nat]
      /\ brk \in BOOLEAN /\ errors \in Nat
  BY <1>1 DEF IInv, TypeOK, Books
<1>6. heap' = HmapUnsets(heap, VARS, k) /\ errors' = errors /\ lost' = lost
  BY <1>2 DEF Unbind
<1>7. brk' \in BOOLEAN
  BY <1>5 DEF Unbind
<1>8. /\ Same(heap, heap') /\ heap'.cell[VARS] = [heap.cell[VARS] EXCEPT ![k] = NULL]
      /\ \A o \in Obj : Slack(heap', o) = Slack(heap, o)
  BY <1>2, <1>5, <1>6, UnsetsSlack
<1>9. Shaped(heap')
  <2>1. heap.cell[VARS][k] \in Obj => heap.kind[heap.cell[VARS][k]] # "none"
    BY <1>1, <1>2, TheVars, CellLive
  <2> QED
    BY <1>2, <1>5, <1>6, <2>1, UnsetsShape
<1>10. num' \in [Obj -> Int] /\ \A o \in Obj : num[o] >= 0 => num'[o] >= 0
  <2>1. num' = num \/ num' = [num EXCEPT ![Top.indexv] = @ + 1]
    BY DEF Unbind
  <2>2. Top.indexv \in Obj
    BY <1>1, InTheLoop
  <2> QED
    BY <1>5, <2>1, <2>2
<1>11. Top.owned
  BY <1>1, <1>2, Opened DEF FrameSound
<1>12. ASSUME NEW o \in Obj
      PROVE  Slack(heap', o) = Slack(heap, o) + (Weight(f, o) - Weight(Top, o))
                                 + (lost'[o] - lost[o])
  <2>1. Weight(f, o) = Weight(Top, o)
    <3>1. Top.at \notin {"item", "leave"}
      BY <1>1
    <3> QED
      BY <1>1, <1>3, <3>1, WeightStays DEF f
  <2>2. Weight(Top, o) \in Nat /\ lost[o] \in Nat /\ Slack(heap, o) \in Int
    <3>1. Weight(Top, o) \in Nat
      BY LocalsFinite
    <3>2. Slack(heap, o) \in Int
      BY <1>5, Counts
    <3> QED
      BY <1>5, <3>1, <3>2
  <2> QED
    BY <1>6, <1>8, <2>1, <2>2
<1>13. Bound(heap', f)
  <2>1. heap.cell[VARS] \in [Slot -> Obj \cup {NULL}]
    BY <1>5, Parts, TheVars
  <2> QED
    BY <1>2, <1>4, <1>8, <1>11, <2>1 DEF Bound
<1>14. PICK s, u \in Scope :
        Link(Top, s, u) /\ Scoped(Tail(stack), u, start.vars) /\ Agrees(s)
  BY <1>1, ScopeOfTop
<1>t. PICK t \in Scope : t = Changed(s, k, NULL)
  BY ScopeSet
<1>15. t \in Scope /\ \A j \in Slot \ {k} : t[j] = s[j]
  BY <1>t, ScopeSet
<1>16. Agrees(t)'
  <2>1. /\ Running /\ Agrees(s) /\ k \in Slot /\ NULL \in Obj \cup {NULL} /\ k # LOOP
        /\ heap'.cell[VARS] = [heap.cell[VARS] EXCEPT ![k] = NULL]
        /\ errors' = errors /\ lost' = lost
    BY <1>2, <1>6, <1>8, <1>14
  <2>2. Agrees(Changed(s, k, NULL))'
    BY <2>1, AgreesSet
  <2> QED
    BY <1>t, <2>2
<1>17. Link(f, t, u)
  <2>1. t[LOOP] = s[LOOP]
    BY <1>2, <1>15
  <2>2. /\ s[LOOP] = Top.loopv /\ u[LOOP] = Top.outerloop /\ u[k] = Top.outeritem
        /\ \A j \in Slot \ {LOOP, k} : u[j] = s[j]
    BY <1>1, <1>2, <1>14 DEF Link
  <2>3. \A j \in Slot \ {LOOP, k} : u[j] = t[j]
    BY <1>15, <2>2
  <2> QED
    BY <1>2, <1>3, <1>4, <2>1, <2>2, <2>3 DEF Link
<1>18. a = "bind" => Top.at \in {"bind", "unbind"} /\ ~Failed
  <2>1. start.errors \in Nat
    BY <1>1 DEF IInv, Phases
  <2> QED
    BY <1>1, <1>3, <1>5, <2>1 DEF Failed
<1>19. /\ a \in {"bind", "loop", "item", "leave"} /\ Running /\ In("loop") /\ Goto(a)
       /\ u \in Scope /\ Scoped(Tail(stack), u, start.vars) /\ lost' \in [Obj -> Nat]
       /\ errors' = errors
  BY <1>1, <1>3, <1>5, <1>6, <1>14
<1>20. /\ \A o \in Obj : Slack(heap', o) = Slack(heap, o)
            + (Weight(Moved(Top, a), o) - Weight(Top, o)) + (lost'[o] - lost[o])
       /\ Bound(heap', Moved(Top, a)) /\ Link(Moved(Top, a), t, u)
  BY <1>12, <1>13, <1>17 DEF f
<1> QED
  BY <1>7, <1>8, <1>9, <1>10, <1>15, <1>16, <1>18, <1>19, <1>20, LoopGoes

-----------------------------------------------------------------------------
(* eval_loop puts back the "loop" that it found.                           *)
LEMMA RestoreLoopHeap ==
  ASSUME Running, RestoreLoop
  PROVE  /\ Same(heap, heap') /\ Shaped(heap')
         /\ heap'.cell[VARS] = [heap.cell[VARS] EXCEPT ![LOOP] = Top.outerloop]
         /\ lost' \in [Obj -> Nat]
         /\ \A o \in Obj :
              Slack(heap', o) = Slack(heap, o) - One(Top.outerloop, o) + (lost'[o] - lost[o])
<1>1. IInv /\ In("loop") /\ Top.at = "loop" /\ Evaluating
  BY DEF Running, RestoreLoop, InLoop, In
<1>2. /\ LOOP \in Slot /\ Top.loopv \in Obj /\ Top.outerloop \in (Obj \ {VARS}) \cup {NULL}
      /\ heap.kind[Top.loopv] # "none"
      /\ Top.outerloop \in Obj => heap.rc[Top.outerloop] > 0 /\ heap.kind[Top.outerloop] # "none"
  BY <1>1, InTheLoop
<1>3. heap \in HeapType /\ Shaped(heap) /\ lost \in [Obj -> Nat]
  BY <1>1, Ledger
<1> DEFINE old == heap.cell[VARS][LOOP]
<1>4. old \in Obj \cup {NULL}
  BY <1>2, <1>3, Parts, TheVars
<1>5. CASE Top.outerloop = NULL
  <2>1. heap' = HmapUnsets(heap, VARS, LOOP) /\ lost' = lost
    BY <1>5 DEF RestoreLoop
  <2>2. old \in Obj => heap.kind[old] # "none"
    BY <1>1, <1>2, TheVars, CellLive
  <2>3. /\ Same(heap, heap') /\ heap'.cell[VARS] = [heap.cell[VARS] EXCEPT ![LOOP] = NULL]
        /\ \A o \in Obj : Slack(heap', o) = Slack(heap, o)
    BY <1>2, <1>3, <2>1, UnsetsSlack
  <2>4. Shaped(heap')
    BY <1>2, <1>3, <2>1, <2>2, UnsetsShape
  <2>5. ASSUME NEW o \in Obj
        PROVE  Slack(heap', o) = Slack(heap, o) - One(Top.outerloop, o) + (lost'[o] - lost[o])
    <3>1. One(Top.outerloop, o) = 0
      BY <1>5, TheVars, Ones
    <3>2. Slack(heap, o) \in Int /\ lost[o] \in Int
      BY <1>3, Counts
    <3> QED
      BY <2>1, <2>3, <3>1, <3>2
  <2> QED
    BY <1>3, <1>5, <2>1, <2>3, <2>4, <2>5
<1>6. CASE Top.outerloop # NULL
  <2> DEFINE g1 == HmapSets(heap, VARS, LOOP, Top.outerloop)
             g2 == Unref(g1, Top.outerloop)
             g3 == Unref(g2, Top.loopv)
  <2>1. heap' = g3 /\ lost' = Swapped(old)
    BY <1>6 DEF RestoreLoop, HmapGets
  <2>2. Top.outerloop \in Obj \ {VARS} /\ heap.rc[Top.outerloop] > 0
        /\ heap.kind[Top.outerloop] # "none"
    BY <1>2, <1>6
  <2>3. /\ Same(heap, g1) /\ g1.cell[VARS] = [heap.cell[VARS] EXCEPT ![LOOP] = Top.outerloop]
        /\ \A o \in Obj : Slack(g1, o) = Slack(heap, o) + One(old, o)
    BY <1>2, <1>3, <2>2, SetsSlack
  <2>4. Shaped(g1)
    BY <1>2, <1>3, <2>2, SetsShape
  <2> HIDE DEF g1
  <2>5. g1 \in HeapType /\ g1.kind = heap.kind
    BY <2>3 DEF Same
  <2>6. /\ Same(g1, g2) /\ g2.cell = g1.cell
        /\ \A o \in Obj : Slack(g2, o) = Slack(g1, o) - One(Top.outerloop, o)
    BY <2>5, UnrefSlack
  <2>7. Shaped(g2)
    BY <2>2, <2>4, <2>5, UnrefShape
  <2> HIDE DEF g2
  <2>8. g2 \in HeapType /\ g2.kind = heap.kind
    BY <2>5, <2>6 DEF Same
  <2>9. /\ Same(g2, g3) /\ g3.cell = g2.cell
        /\ \A o \in Obj : Slack(g3, o) = Slack(g2, o) - One(Top.loopv, o)
    BY <2>8, UnrefSlack
  <2>10. Shaped(g3)
    BY <1>2, <2>7, <2>8, UnrefShape
  <2> HIDE DEF g3
  <2>11. Same(heap, g3)
    BY <1>3, <2>3, <2>5, <2>6, <2>8, <2>9, SameAgain
  <2>12. /\ lost' \in [Obj -> Nat]
         /\ \A o \in Obj : lost'[o] = lost[o] + One(old, o) - One(Top.loopv, o)
    <3>1. old = Top.loopv \/ lost[Top.loopv] > 0
      <4>1. PICK s, u \in Scope : Link(Top, s, u) /\ Agrees(s)
        BY <1>1, ScopeOfTop
      <4>2. s[LOOP] = Top.loopv
        BY <1>1, <4>1 DEF Link, In
      <4> QED
        BY <1>2, <4>1, <4>2 DEF Agrees
    <3>2. ASSUME NEW o \in Obj
          PROVE  /\ lost[o] + (IF o = old THEN 1 ELSE 0) - (IF o = Top.loopv THEN 1 ELSE 0) \in Nat
                 /\ lost[o] + (IF o = old THEN 1 ELSE 0) - (IF o = Top.loopv THEN 1 ELSE 0)
                      = lost[o] + One(old, o) - One(Top.loopv, o)
      <4>1. lost[o] \in Nat
        BY <1>3
      <4> HIDE DEF old
      <4> QED
        BY <3>1, <4>1 DEF One
    <3>3. lost' = [o \in Obj |-> lost[o] + (IF o = old THEN 1 ELSE 0)
                                   - (IF o = Top.loopv THEN 1 ELSE 0)]
      BY <2>1 DEF Swapped
    <3> HIDE DEF old
    <3> QED
      BY <3>2, <3>3
  <2>13. ASSUME NEW o \in Obj
         PROVE  Slack(g3, o) = Slack(heap, o) - One(Top.outerloop, o) + (lost'[o] - lost[o])
    <3>1. /\ One(old, o) \in Int /\ One(Top.outerloop, o) \in Int /\ One(Top.loopv, o) \in Int
      BY Ones
    <3>2. Slack(heap, o) \in Int /\ lost[o] \in Int
      BY <1>3, Counts
    <3>3. /\ Slack(g1, o) = Slack(heap, o) + One(old, o)
          /\ Slack(g2, o) = Slack(g1, o) - One(Top.outerloop, o)
          /\ Slack(g3, o) = Slack(g2, o) - One(Top.loopv, o)
          /\ lost'[o] = lost[o] + One(old, o) - One(Top.loopv, o)
      BY <2>3, <2>6, <2>9, <2>12
    <3> HIDE DEF old
    <3> QED
      BY <3>1, <3>2, <3>3
  <2> QED
    BY <2>1, <2>3, <2>6, <2>9, <2>10, <2>11, <2>12, <2>13
<1> QED
  BY <1>2, <1>5, <1>6

LEMMA RestoreLoopKeeps == ASSUME Running, RestoreLoop PROVE IInv'
<1>1. IInv /\ In("loop") /\ Top.at = "loop" /\ Evaluating
  BY DEF Running, RestoreLoop, InLoop, In
<1>2. /\ Top \in Frame /\ Top.fn = "loop" /\ Top.item \in Slot /\ LOOP \in Slot
      /\ Top.item # LOOP /\ Top.outerloop \in Obj \cup {NULL} /\ Top.owned \in BOOLEAN
  BY <1>1, InTheLoop
<1>3. PICK v \in Obj \cup {NULL} : v = Top.outerloop
  BY <1>2
<1>4. /\ Same(heap, heap') /\ Shaped(heap')
      /\ heap'.cell[VARS] = [heap.cell[VARS] EXCEPT ![LOOP] = v]
      /\ lost' \in [Obj -> Nat]
      /\ \A o \in Obj : Slack(heap', o) = Slack(heap, o) - One(v, o) + (lost'[o] - lost[o])
  BY <1>3, RestoreLoopHeap
<1> DEFINE f == Moved(Top, "item")
<1>5. /\ f \in Frame /\ f.fn = "loop" /\ f.at = "item" /\ f.loopv = Top.loopv
      /\ f.indexv = Top.indexv /\ f.outerloop = Top.outerloop /\ f.outeritem = Top.outeritem
      /\ f.owned = Top.owned /\ f.seq = Top.seq /\ f.iter = Top.iter /\ f.item = Top.item
  BY <1>2, AtFrame
<1>6. ASSUME NEW o \in Obj
      PROVE  Slack(heap', o) = Slack(heap, o) + (Weight(f, o) - Weight(Top, o))
                                 + (lost'[o] - lost[o])
  <2>1. Weight(f, o) = Weight(Top, o) - One(v, o) /\ Weight(Top, o) \in Nat
    BY <1>1, <1>2, <1>3, WeightAt
  <2>2. One(v, o) \in Int
    BY Ones
  <2>3. Slack(heap, o) \in Int /\ lost[o] \in Int /\ lost'[o] \in Int
    BY <1>1, <1>4, Ledger, Counts
  <2>4. Slack(heap', o) = Slack(heap, o) - One(v, o) + (lost'[o] - lost[o])
    BY <1>4
  <2> HIDE DEF f
  <2> QED
    BY <2>1, <2>2, <2>3, <2>4
<1> HIDE DEF f
<1>7. /\ heap \in HeapType /\ num \in [Obj -> Int] /\ brk \in BOOLEAN
      /\ heap.cell[VARS] \in [Slot -> Obj \cup {NULL}]
  <2>1. heap \in HeapType /\ num \in [Obj -> Int] /\ brk \in BOOLEAN
    BY <1>1 DEF IInv, TypeOK
  <2> QED
    BY <2>1, Parts, TheVars
<1>8. Goto("item") /\ num' = num /\ brk' = brk /\ errors' = errors
  BY DEF RestoreLoop
<1>9. Bound(heap', f)
  <2>1. Bound(heap, Top)
    BY <1>1, Opened
  <2>2. heap'.cell[VARS][f.item] = heap.cell[VARS][f.item]
    BY <1>2, <1>4, <1>5, <1>7
  <2> QED
    BY <1>1, <1>2, <1>5, <2>1, <2>2 DEF Bound
<1>10. PICK s, u \in Scope :
         Link(Top, s, u) /\ Scoped(Tail(stack), u, start.vars) /\ Agrees(s)
  BY <1>1, ScopeOfTop
<1>11. PICK t \in Scope : t = Changed(s, LOOP, v)
  <2>1. LOOP \in Slot
    BY <1>2
  <2>2. Changed(s, LOOP, v) \in Scope
    BY <2>1, ScopeSet
  <2> QED
    BY <2>2
<1>12. t[LOOP] = v /\ \A j \in Slot \ {LOOP} : t[j] = s[j]
  <2>1. LOOP \in Slot
    BY <1>2
  <2>2. Changed(s, LOOP, v)[LOOP] = v /\ \A j \in Slot \ {LOOP} : Changed(s, LOOP, v)[j] = s[j]
    BY <2>1, ScopeSet
  <2> QED
    BY <1>11, <2>2
<1>13. Agrees(t)'
  <2>1. /\ Running /\ Agrees(s) /\ LOOP \in Slot /\ errors' = errors
        /\ heap'.cell[VARS] = [heap.cell[VARS] EXCEPT ![LOOP] = v]
    BY <1>2, <1>4, <1>8, <1>10
  <2>2. Agrees(Changed(s, LOOP, v))'
    BY <2>1, AgreesSet
  <2> QED
    BY <1>11, <2>2
<1>14. Link(f, t, u)
  <2>1. /\ u[LOOP] = Top.outerloop /\ u[Top.item] = Top.outeritem
        /\ \A j \in Slot \ {LOOP, Top.item} : u[j] = s[j]
    BY <1>1, <1>2, <1>10 DEF Link
  <2> QED
    BY <1>2, <1>3, <1>5, <1>12, <2>1 DEF Link
<1>15. /\ num' \in [Obj -> Int] /\ brk' \in BOOLEAN /\ \A o \in Obj : num[o] >= 0 => num'[o] >= 0
  BY <1>7, <1>8
<1>16. /\ Running /\ In("loop") /\ Goto("item") /\ errors' = errors
       /\ Same(heap, heap') /\ Shaped(heap') /\ lost' \in [Obj -> Nat]
       /\ Scoped(Tail(stack), u, start.vars)
  BY <1>1, <1>4, <1>8, <1>10
<1>17. /\ \A o \in Obj : Slack(heap', o) = Slack(heap, o)
            + (Weight(Moved(Top, "item"), o) - Weight(Top, o)) + (lost'[o] - lost[o])
       /\ Bound(heap', Moved(Top, "item")) /\ Link(Moved(Top, "item"), t, u)
  BY <1>6, <1>9, <1>14 DEF f
<1>18. "item" \in {"bind", "loop", "item", "leave"} /\ "item" # "bind"
  OBVIOUS
<1> QED
  BY <1>13, <1>15, <1>16, <1>17, <1>18, LoopGoes

(* It puts back what its item hid.                                         *)
LEMMA RestoreItemHeap ==
  ASSUME Running, RestoreItem
  PROVE  /\ Same(heap, heap') /\ Shaped(heap')
         /\ heap'.cell[VARS] = [heap.cell[VARS] EXCEPT ![Top.item] = Top.outeritem]
         /\ \A o \in Obj :
              Slack(heap', o)
                = Slack(heap, o) - (IF Top.owned THEN One(Top.outeritem, o) ELSE 0)
<1>1. IInv /\ In("loop") /\ Top.at = "item" /\ Evaluating
  BY DEF Running, RestoreItem, InLoop, In
<1>2. /\ Top.item \in Slot /\ Top.outeritem \in (Obj \ {VARS}) \cup {NULL} /\ Top.fn = "loop"
      /\ Top.outeritem \in Obj /\ Top.owned =>
           heap.rc[Top.outeritem] > 0 /\ heap.kind[Top.outeritem] # "none"
  BY <1>1, InTheLoop
<1>3. heap \in HeapType /\ Shaped(heap)
  BY <1>1, Ledger
<1> DEFINE v == Top.outeritem
           old == heap.cell[VARS][Top.item]
<1>4. old = IF Top.owned THEN NULL ELSE v
  <2>1. Bound(heap, Top)
    BY <1>1, Opened
  <2> QED
    BY <1>1, <1>2, <2>1 DEF Bound
<1>5. CASE v = NULL
  <2>1. heap' = heap
    BY <1>5 DEF RestoreItem
  <2>2. heap.cell[VARS] \in [Slot -> Obj \cup {NULL}] /\ old = NULL
    BY <1>3, <1>4, <1>5, Parts, TheVars
  <2>3. heap'.cell[VARS] = [heap.cell[VARS] EXCEPT ![Top.item] = v]
    BY <1>2, <1>5, <2>1, <2>2
  <2>4. ASSUME NEW o \in Obj
        PROVE  Slack(heap', o) = Slack(heap, o) - (IF Top.owned THEN One(v, o) ELSE 0)
    <3>1. One(v, o) = 0 /\ Slack(heap, o) \in Int
      BY <1>3, <1>5, TheVars, Ones, Counts
    <3> QED
      BY <2>1, <3>1
  <2> QED
    BY <1>3, <2>1, <2>3, <2>4, SameSelf
<1>6. CASE v # NULL
  <2> DEFINE g1 == HmapSets(heap, VARS, Top.item, v)
             g2 == Unref(g1, v)
  <2>1. heap' = g2
    BY <1>6 DEF RestoreItem
  <2>2. v \in Obj \ {VARS} /\ heap.rc[v] > 0 /\ heap.kind[v] # "none"
    <3>1. v \in Obj \ {VARS}
      BY <1>2, <1>6
    <3>2. CASE Top.owned
      BY <1>2, <3>1, <3>2
    <3>3. CASE ~Top.owned
      <4>1. old = v /\ old \in Obj
        BY <1>4, <3>1, <3>3
      <4>2. heap.rc[old] > 0 /\ heap.kind[old] # "none"
        BY <1>1, <1>2, <4>1, TheVars, CellLive
      <4> QED
        BY <3>1, <4>1, <4>2
    <3> QED
      BY <3>2, <3>3
  <2>3. /\ Same(heap, g1) /\ g1.cell[VARS] = [heap.cell[VARS] EXCEPT ![Top.item] = v]
        /\ \A o \in Obj : Slack(g1, o) = Slack(heap, o) + One(old, o)
    BY <1>2, <1>3, <2>2, SetsSlack
  <2>4. Shaped(g1)
    BY <1>2, <1>3, <2>2, SetsShape
  <2> HIDE DEF g1
  <2>5. g1 \in HeapType /\ g1.kind = heap.kind
    BY <2>3 DEF Same
  <2>6. /\ Same(g1, g2) /\ g2.cell = g1.cell
        /\ \A o \in Obj : Slack(g2, o) = Slack(g1, o) - One(v, o)
    BY <2>5, UnrefSlack
  <2>7. Shaped(g2)
    BY <2>2, <2>4, <2>5, UnrefShape
  <2> HIDE DEF g2
  <2>8. Same(heap, g2)
    BY <1>3, <2>3, <2>5, <2>6, SameAgain
  <2>9. ASSUME NEW o \in Obj
        PROVE  Slack(g2, o) = Slack(heap, o) - (IF Top.owned THEN One(v, o) ELSE 0)
    <3>1. One(old, o) = IF Top.owned THEN 0 ELSE One(v, o)
      BY <1>4, TheVars, Ones
    <3>2. One(v, o) \in Int
      BY Ones
    <3>3. Slack(heap, o) \in Int
      BY <1>3, Counts
    <3>4. Slack(g1, o) = Slack(heap, o) + One(old, o) /\ Slack(g2, o) = Slack(g1, o) - One(v, o)
      BY <2>3, <2>6
    <3> HIDE DEF v, old
    <3> QED
      BY <3>1, <3>2, <3>3, <3>4
  <2> QED
    BY <2>1, <2>3, <2>6, <2>7, <2>8, <2>9
<1> QED
  BY <1>5, <1>6

LEMMA RestoreItemKeeps == ASSUME Running, RestoreItem PROVE IInv'
<1>1. IInv /\ In("loop") /\ Top.at = "item" /\ Evaluating
  BY DEF Running, RestoreItem, InLoop, In
<1>2. /\ Top \in Frame /\ Top.fn = "loop" /\ Top.item \in Slot /\ LOOP \in Slot
      /\ Top.item # LOOP /\ Top.outeritem \in Obj \cup {NULL} /\ Top.owned \in BOOLEAN
  BY <1>1, InTheLoop
<1>3. PICK v \in Obj \cup {NULL} : v = Top.outeritem
  BY <1>2
<1>k. PICK k \in Slot : k = Top.item
  BY <1>2
<1>4. /\ Same(heap, heap') /\ Shaped(heap')
      /\ heap'.cell[VARS] = [heap.cell[VARS] EXCEPT ![k] = v]
      /\ \A o \in Obj : Slack(heap', o) = Slack(heap, o) - (IF Top.owned THEN One(v, o) ELSE 0)
  BY <1>3, <1>k, RestoreItemHeap
<1>8. Goto("leave") /\ num' = num /\ brk' = brk /\ errors' = errors /\ lost' = lost
  BY DEF RestoreItem
<1> DEFINE f == Moved(Top, "leave")
<1>5. /\ f \in Frame /\ f.fn = "loop" /\ f.at = "leave" /\ f.loopv = Top.loopv
      /\ f.indexv = Top.indexv /\ f.outerloop = Top.outerloop /\ f.outeritem = Top.outeritem
      /\ f.owned = Top.owned /\ f.seq = Top.seq /\ f.iter = Top.iter /\ f.item = Top.item
  BY <1>2, AtFrame
<1>6. ASSUME NEW o \in Obj
      PROVE  Slack(heap', o) = Slack(heap, o) + (Weight(f, o) - Weight(Top, o))
                                 + (lost'[o] - lost[o])
  <2>1. /\ Weight(f, o) = Weight(Top, o) - (IF Top.owned THEN One(v, o) ELSE 0)
        /\ Weight(Top, o) \in Nat
    BY <1>1, <1>2, <1>3, WeightAt
  <2>2. One(v, o) \in Int
    BY Ones
  <2>3. Slack(heap, o) \in Int /\ lost[o] \in Int
    BY <1>1, Ledger, Counts
  <2>4. Slack(heap', o) = Slack(heap, o) - (IF Top.owned THEN One(v, o) ELSE 0)
    BY <1>4
  <2>5. lost'[o] = lost[o]
    BY <1>8
  <2> HIDE DEF f
  <2> QED
    BY <1>2, <2>1, <2>2, <2>3, <2>4, <2>5
<1> HIDE DEF f
<1>7. num \in [Obj -> Int] /\ brk \in BOOLEAN /\ lost \in [Obj -> Nat]
  BY <1>1 DEF IInv, TypeOK
<1>9. Bound(heap', f)
  BY <1>5 DEF Bound
<1>10. PICK s, u \in Scope :
         Link(Top, s, u) /\ Scoped(Tail(stack), u, start.vars) /\ Agrees(s)
  BY <1>1, ScopeOfTop
<1>11. PICK t \in Scope : t = Changed(s, k, v)
  BY ScopeSet
<1>12. t[k] = v /\ \A j \in Slot \ {k} : t[j] = s[j]
  BY <1>11, ScopeSet
<1>13. Agrees(t)'
  <2>1. /\ Running /\ Agrees(s) /\ errors' = errors /\ lost' = lost
        /\ heap'.cell[VARS] = [heap.cell[VARS] EXCEPT ![k] = v]
    BY <1>4, <1>8, <1>10
  <2>2. Agrees(Changed(s, k, v))'
    BY <2>1, AgreesSet
  <2> QED
    BY <1>11, <2>2
<1>14. Link(f, t, u)
  <2>1. /\ u[LOOP] = s[LOOP] /\ u[k] = Top.outeritem
        /\ \A j \in Slot \ {LOOP, k} : u[j] = s[j]
    BY <1>1, <1>2, <1>k, <1>10 DEF Link
  <2> QED
    BY <1>2, <1>3, <1>k, <1>5, <1>12, <2>1 DEF Link
<1>15. /\ num' \in [Obj -> Int] /\ brk' \in BOOLEAN /\ \A o \in Obj : num[o] >= 0 => num'[o] >= 0
       /\ lost' \in [Obj -> Nat]
  BY <1>7, <1>8
<1>16. /\ Running /\ In("loop") /\ Goto("leave") /\ errors' = errors
       /\ Same(heap, heap') /\ Shaped(heap') /\ Scoped(Tail(stack), u, start.vars)
  BY <1>1, <1>4, <1>8, <1>10
<1>17. /\ \A o \in Obj : Slack(heap', o) = Slack(heap, o)
            + (Weight(Moved(Top, "leave"), o) - Weight(Top, o)) + (lost'[o] - lost[o])
       /\ Bound(heap', Moved(Top, "leave")) /\ Link(Moved(Top, "leave"), t, u)
  BY <1>6, <1>9, <1>14 DEF f
<1>18. "leave" \in {"bind", "loop", "item", "leave"} /\ "leave" # "bind"
  OBVIOUS
<1> QED
  BY <1>13, <1>15, <1>16, <1>17, <1>18, LoopGoes

(* It gives back what it still holds, and returns.                         *)
LEMMA LeaveKeeps == ASSUME Running, Leave PROVE IInv'
<1>1. IInv /\ In("loop") /\ Top.at = "leave" /\ Evaluating /\ mode = "eval"
  BY DEF Running, Leave, InLoop, In, Evaluating
<1>2. /\ Top \in Frame /\ Top.fn = "loop" /\ Top.item \in Slot /\ LOOP \in Slot
      /\ Top.loopv \in Obj /\ heap.kind[Top.loopv] # "none"
      /\ Top.indexv \in Obj /\ heap.kind[Top.indexv] # "none"
      /\ Top.seq \in Obj => heap.kind[Top.seq] # "none"
  BY <1>1, InTheLoop
<1>3. /\ heap \in HeapType /\ Shaped(heap) /\ num \in [Obj -> Int] /\ errors \in Nat
      /\ lost \in [Obj -> Nat]
  BY <1>1, Ledger
<1> DEFINE g1 == Unref(heap, Top.indexv)
           g2 == Unref(g1, Top.loopv)
           g3 == Unref(g2, Top.seq)
           r == Tail(stack)
<1>4. heap' = g3 /\ stack' = r /\ num' = num /\ brk' = brk /\ errors' = errors /\ lost' = lost
  BY DEF Leave
<1>5. /\ Same(heap, g1) /\ g1.cell = heap.cell
      /\ \A o \in Obj : Slack(g1, o) = Slack(heap, o) - One(Top.indexv, o)
  BY <1>3, UnrefSlack
<1>6. Shaped(g1)
  BY <1>2, <1>3, UnrefShape
<1> HIDE DEF g1
<1>7. g1 \in HeapType /\ g1.kind = heap.kind
  BY <1>5 DEF Same
<1>8. /\ Same(g1, g2) /\ g2.cell = g1.cell
      /\ \A o \in Obj : Slack(g2, o) = Slack(g1, o) - One(Top.loopv, o)
  BY <1>7, UnrefSlack
<1>9. Shaped(g2)
  BY <1>2, <1>6, <1>7, UnrefShape
<1> HIDE DEF g2
<1>10. g2 \in HeapType /\ g2.kind = heap.kind
  BY <1>7, <1>8 DEF Same
<1>11. /\ Same(g2, g3) /\ g3.cell = g2.cell
       /\ \A o \in Obj : Slack(g3, o) = Slack(g2, o) - One(Top.seq, o)
  BY <1>10, UnrefSlack
<1>12. Shaped(g3)
  BY <1>2, <1>9, <1>10, UnrefShape
<1> HIDE DEF g3
<1>13. Same(heap, g3)
  BY <1>3, <1>5, <1>7, <1>8, <1>10, <1>11, SameAgain
<1>14. r \in Seq(Frame) /\ Resting(r)
  BY <1>1, Opened
<1>15. Sound(heap', num', r)
  BY <1>1, <1>4, <1>13, RestSound DEF Same
<1>16. ASSUME NEW o \in Obj PROVE Slack(heap', o) = hold[o] + Held(r, o) + lost'[o]
  <2>1. /\ Slack(heap, o) = hold[o] + Weight(Top, o) + Held(r, o) + lost[o]
        /\ hold[o] \in Nat /\ Weight(Top, o) \in Nat /\ Held(r, o) \in Nat /\ lost[o] \in Nat
    BY <1>1, Balance
  <2>2. Weight(Top, o) = One(Top.loopv, o) + One(Top.indexv, o) + One(Top.seq, o)
    BY <1>1, <1>2, WeightMoved
  <2>3. One(Top.loopv, o) \in Int /\ One(Top.indexv, o) \in Int /\ One(Top.seq, o) \in Int
    BY Ones
  <2>4. /\ Slack(g1, o) = Slack(heap, o) - One(Top.indexv, o)
        /\ Slack(g2, o) = Slack(g1, o) - One(Top.loopv, o)
        /\ Slack(g3, o) = Slack(g2, o) - One(Top.seq, o)
    BY <1>5, <1>8, <1>11
  <2>5. lost'[o] = lost[o] /\ heap' = g3
    BY <1>4
  <2> HIDE DEF r
  <2> QED
    BY <2>1, <2>2, <2>3, <2>4, <2>5
<1>17. PICK s, u \in Scope :
         Link(Top, s, u) /\ Scoped(r, u, start.vars) /\ Agrees(s)
  BY <1>1, ScopeOfTop
<1>18. u = s
  <2>1. ASSUME NEW k \in Slot PROVE u[k] = s[k]
    BY <1>1, <1>2, <1>17 DEF Link
  <2> QED
    BY <2>1 DEF Scope
<1>19. Agrees(s)'
  <2>1. heap'.cell[VARS] = heap.cell[VARS]
    BY <1>4, <1>5, <1>8, <1>11
  <2> QED
    BY <1>3, <1>4, <1>17, <2>1, AgreesStill
<1>20. /\ heap' \in HeapType /\ Shaped(heap') /\ num' \in [Obj -> Int] /\ brk' \in BOOLEAN
       /\ errors' \in Nat /\ errors' >= errors /\ lost' \in [Obj -> Nat] /\ stack' = r
       /\ Scoped(r, s, start.vars)
  BY <1>1, <1>3, <1>4, <1>12, <1>13, <1>17, <1>18 DEF Same, IInv, TypeOK
<1> HIDE DEF r
<1> QED
  BY <1>1, <1>14, <1>15, <1>16, <1>19, <1>20, Popped

(* The key that a map's iterator comes to next is one it has not come to.  *)
LEMMA NextKeyOf ==
  ASSUME NEW ks, ks \subseteq Key, ks # {}
  PROVE  NextKey(ks) \in ks
<1> DEFINE at == {i \in DOMAIN KeyOrder : KeyOrder[i] \in ks}
<1>1. KeyOrder \in Seq(Key) /\ \A k \in Key : \E i \in DOMAIN KeyOrder : KeyOrder[i] = k
  BY RenderAssumption
<1>2. DOMAIN KeyOrder \subseteq Nat
  BY <1>1, LenProperties
<1>3. at # {} /\ at \subseteq Nat
  BY <1>1, <1>2
<1>4. \E i \in at : \A j \in at : i <= j
  BY <1>3, Least
<1>5. \E i \in DOMAIN KeyOrder :
        /\ KeyOrder[i] \in ks
        /\ \A j \in DOMAIN KeyOrder : KeyOrder[j] \in ks => i <= j
  BY <1>4
<1> QED
  BY <1>5 DEF NextKey

(* What eval_loop visits next is an element of the sequence.               *)
LEMMA ItemFound ==
  ASSUME IInv, In("loop"), Top.at = "bind", More(Top)
  PROVE  /\ Item(Top) \in Obj \ {VARS}
         /\ heap.rc[Item(Top)] > 0 /\ heap.kind[Item(Top)] # "none"
<1>1. /\ Top \in Frame /\ Top.fn = "loop" /\ Top.seq # VARS /\ Top.indexv \in Obj
      /\ Top.seq \in Obj => heap.rc[Top.seq] > 0
  BY InTheLoop
<1>2. /\ Top.seq \in Obj /\ heap.kind[Top.seq] \in {"vector", "hmap"}
      /\ heap.kind[Top.seq] = "hmap" => Top.iter \subseteq Keys(heap, Top.seq)
      /\ num[Top.indexv] >= 0
  BY <1>1, Opened DEF FrameSound, In
<1>3. heap \in HeapType /\ Shaped(heap) /\ num \in [Obj -> Int]
  BY Ledger
<1> DEFINE s == IF heap.kind[Top.seq] = "vector" THEN num[Top.indexv] + 1 ELSE NextKey(Top.iter)
<1>4. s \in Slot /\ heap.cell[Top.seq][s] # NULL
  <2>1. CASE heap.kind[Top.seq] = "vector"
    <3>1. num[Top.indexv] < heap.len[Top.seq] /\ num[Top.indexv] \in Int
      BY <1>1, <1>3, <2>1 DEF More
    <3>2. heap.len[Top.seq] \in 0 .. MaxLen /\ MaxLen \in Nat
      BY <1>2, <1>3, Parts, HeapAssumption
    <3>3. s = num[Top.indexv] + 1
      BY <2>1
    <3> HIDE DEF s
    <3>4. s \in 1 .. heap.len[Top.seq] /\ s \in 1 .. MaxLen
      BY <1>2, <3>1, <3>2, <3>3
    <3>5. heap.cell[Top.seq][s] # NULL
      BY <1>1, <1>2, <1>3, <2>1, <3>4 DEF Shaped
    <3> QED
      BY <3>4, <3>5 DEF Slot
  <2>2. CASE heap.kind[Top.seq] # "vector"
    <3>1. s = NextKey(Top.iter) /\ Top.iter # {} /\ Top.iter \subseteq Keys(heap, Top.seq)
      BY <1>2, <2>2 DEF More
    <3>2. Keys(heap, Top.seq) \subseteq Key
      BY DEF Keys
    <3>3. NextKey(Top.iter) \in Top.iter
      BY <3>1, <3>2, NextKeyOf
    <3>4. s \in Keys(heap, Top.seq)
      BY <3>1, <3>3
    <3> HIDE DEF s
    <3> QED
      BY <3>4, TheVars DEF Keys
  <2> QED
    BY <2>1, <2>2
<1>5. Item(Top) = heap.cell[Top.seq][s]
  BY DEF Item
<1> HIDE DEF s
<1>6. heap.cell[Top.seq][s] \in Obj \ {VARS}
  <2>1. heap.cell[Top.seq][s] \in Obj \cup {NULL}
    BY <1>2, <1>3, <1>4, Parts
  <2>2. heap.cell[Top.seq][s] # VARS
    BY <1>2, <1>3, <1>4 DEF Shaped
  <2> QED
    BY <1>4, <2>1, <2>2
<1>7. heap.rc[heap.cell[Top.seq][s]] > 0 /\ heap.kind[heap.cell[Top.seq][s]] # "none"
  BY <1>2, <1>4, <1>6, CellLive
<1> QED
  BY <1>5, <1>6, <1>7

(* The frame under the body.                                               *)
Under(f) == [f EXCEPT !.at = "unbind", !.owned = TRUE,
                      !.iter = IF @ = {} THEN @ ELSE @ \ {NextKey(@)}]

LEMMA UnderBody ==
  ASSUME NEW f \in Frame, f.fn = "loop"
  PROVE  /\ Under(f) \in Frame /\ Under(f).fn = "loop" /\ Under(f).at = "unbind"
         /\ Under(f).owned = TRUE
         /\ Under(f).loopv = f.loopv /\ Under(f).indexv = f.indexv
         /\ Under(f).outerloop = f.outerloop /\ Under(f).outeritem = f.outeritem
         /\ Under(f).seq = f.seq /\ Under(f).item = f.item
         /\ Under(f).iter \subseteq f.iter /\ f.body \in Seq(Pieces)
<1> DEFINE g == [f EXCEPT !.at = "unbind", !.owned = TRUE,
                          !.iter = IF @ = {} THEN @ ELSE @ \ {NextKey(@)}]
<1>1. f \in [fn : {"loop"}, at : {"bind", "unbind", "loop", "item", "leave"},
             loopv : Obj, indexv : Obj, outerloop : Obj \cup {NULL},
             outeritem : Obj \cup {NULL}, owned : BOOLEAN, seq : Obj \cup Static,
             iter : SUBSET Key, item : Key, body : Seq(Pieces)]
  BY LoopFields
<1> DEFINE ks == IF f.iter = {} THEN f.iter ELSE f.iter \ {NextKey(f.iter)}
<1>2. ks \in SUBSET Key /\ ks \subseteq f.iter
  BY <1>1
<1>3. g = [f EXCEPT !.at = "unbind", !.owned = TRUE, !.iter = ks]
  OBVIOUS
<1> HIDE DEF ks, g
<1>4. g \in [fn : {"loop"}, at : {"bind", "unbind", "loop", "item", "leave"},
             loopv : Obj, indexv : Obj, outerloop : Obj \cup {NULL},
             outeritem : Obj \cup {NULL}, owned : BOOLEAN, seq : Obj \cup Static,
             iter : SUBSET Key, item : Key, body : Seq(Pieces)]
  BY <1>1, <1>2, <1>3
<1>5. /\ g.fn = "loop" /\ g.at = "unbind" /\ g.owned = TRUE /\ g.loopv = f.loopv
      /\ g.indexv = f.indexv /\ g.outerloop = f.outerloop /\ g.outeritem = f.outeritem
      /\ g.seq = f.seq /\ g.iter = ks /\ g.item = f.item /\ f.body \in Seq(Pieces)
  BY <1>1, <1>3
<1>6. g \in Frame
  BY <1>4, LoopFrame
<1>7. Under(f) = g
  BY DEF Under, g
<1> QED
  BY <1>2, <1>5, <1>6, <1>7

(* An element is bound, and the body called.                               *)
LEMMA BindKeeps == ASSUME Running, Bind PROVE IInv'
<1>1. /\ IInv /\ In("loop") /\ Top.at = "bind" /\ Evaluating /\ mode = "eval" /\ More(Top)
  BY DEF Running, Bind, InLoop, In, Evaluating
<1>2. /\ Top \in Frame /\ Top.fn = "loop" /\ Top.item \in Slot /\ LOOP \in Slot
      /\ Top.item # LOOP /\ Top.indexv \in Obj /\ Top.owned \in BOOLEAN
  BY <1>1, InTheLoop
<1>3. /\ heap \in HeapType /\ Shaped(heap) /\ num \in [Obj -> Int] /\ errors \in Nat
      /\ lost \in [Obj -> Nat]
  BY <1>1, Ledger
<1>4. Item(Top) \in Obj \ {VARS} /\ heap.rc[Item(Top)] > 0
  BY <1>1, ItemFound
<1>5. PICK v \in Obj \ {VARS} : v = Item(Top) /\ heap.rc[v] > 0
  BY <1>4
<1>6. PICK k \in Slot : k = Top.item
  BY <1>2
<1> DEFINE r == Tail(stack)
           g == Under(Top)
           old == heap.cell[VARS][k]
<1>7. heap' = HmapSets(heap, VARS, k, v)
  BY <1>5, <1>6 DEF Bind
<1>8. /\ stack' = <<Sub(Top.body), g>> \o r
      /\ brk' = brk /\ errors' = errors /\ lost' = lost
  BY DEF Bind, Under
<1>9. /\ g \in Frame /\ g.fn = "loop" /\ g.at = "unbind" /\ g.owned = TRUE
      /\ g.loopv = Top.loopv /\ g.indexv = Top.indexv
      /\ g.outerloop = Top.outerloop /\ g.outeritem = Top.outeritem
      /\ g.seq = Top.seq /\ g.item = Top.item
      /\ g.iter \subseteq Top.iter /\ Top.body \in Seq(Pieces)
  BY <1>2, UnderBody
<1>10. Sub(Top.body) \in Frame /\ Sub(Top.body).fn = "subblocks"
  BY <1>9, SubFrame
<1> HIDE DEF g
<1>11. num' \in [Obj -> Int] /\ \A o \in Obj : num[o] >= 0 => num'[o] >= 0
  <2>1. num' = num \/ num' = [num EXCEPT ![Top.indexv] = @ + 1]
    BY DEF Bind
  <2> QED
    BY <1>2, <1>3, <2>1
<1>12. /\ Same(heap, heap') /\ heap'.cell[VARS] = [heap.cell[VARS] EXCEPT ![k] = v]
       /\ \A o \in Obj : Slack(heap', o) = Slack(heap, o) + One(old, o)
  BY <1>3, <1>7, SetsSlack
<1>13. Shaped(heap')
  BY <1>3, <1>5, <1>7, SetsShape
<1>14. ASSUME NEW o \in Obj
       PROVE  Slack(heap', o) = Slack(heap, o) + (Weight(g, o) - Weight(Top, o))
                                  + (lost'[o] - lost[o])
  <2>1. Weight(g, o) = Weight(Top, o) + (IF Top.owned THEN 0 ELSE One(Top.outeritem, o))
    BY <1>1, <1>2, <1>9, WeightMoved
  <2>2. old = IF Top.owned THEN NULL ELSE Top.outeritem
    <3>1. Bound(heap, Top)
      BY <1>1, Opened
    <3> QED
      BY <1>1, <1>2, <1>6, <3>1 DEF Bound
  <2>3. One(old, o) = IF Top.owned THEN 0 ELSE One(Top.outeritem, o)
    BY <2>2, TheVars, Ones
  <2>4. Weight(Top, o) \in Nat /\ One(Top.outeritem, o) \in Int
    <3>1. Weight(Top, o) \in Nat
      BY LocalsFinite
    <3> QED
      BY <3>1, Ones
  <2>5. Slack(heap, o) \in Int /\ lost[o] \in Int /\ lost'[o] = lost[o]
    BY <1>3, <1>8, Counts
  <2>6. Slack(heap', o) = Slack(heap, o) + One(old, o)
    BY <1>12
  <2> HIDE DEF old
  <2> QED
    BY <1>2, <2>1, <2>3, <2>4, <2>5, <2>6
<1>15. /\ FrameSound(heap', num', g) /\ Sound(heap', num', r)
       /\ Resting(r) /\ r \in Seq(Frame)
       /\ \A o \in Obj :
            /\ Slack(heap', o) = hold[o] + Weight(g, o) + Held(r, o) + lost'[o]
            /\ hold[o] \in Nat /\ Weight(g, o) \in Nat /\ Held(r, o) \in Nat
            /\ lost'[o] \in Nat
  <2>1. lost' \in [Obj -> Nat] /\ (g.at \in {"bind", "unbind"} => Top.at \in {"bind", "unbind"})
        /\ (g.at = "unbind" => g.owned)
    BY <1>1, <1>3, <1>8, <1>9
  <2>2. Running /\ In("loop")
    BY <1>1
  <2> QED
    BY <1>9, <1>11, <1>12, <1>14, <2>1, <2>2, LoopMoved
<1> DEFINE R == <<g>> \o r
<1>16. R \in Seq(Frame) /\ Resting(R) /\ Sound(heap', num', R)
  <2>1. R = <<g>> \o r
    OBVIOUS
  <2> HIDE DEF R
  <2>2. Waiting(g)
    BY <1>9 DEF Waiting
  <2>3. R \in Seq(Frame)
    BY <1>9, <1>15, <2>1, Consed
  <2>4. Resting(R)
    BY <1>9, <1>15, <2>1, <2>2, RestingCons
  <2>5. Sound(heap', num', R)
    BY <1>9, <1>15, <2>1, SoundCons
  <2> QED
    BY <2>3, <2>4, <2>5
<1>17. stack' = <<Sub(Top.body)>> \o R
  BY <1>8, <1>9, <1>10, <1>15
<1>18. ASSUME NEW o \in Obj
       PROVE  Slack(heap', o) = hold[o] + Weight(Sub(Top.body), o) + Held(R, o) + lost'[o]
  <2>1. Weight(Sub(Top.body), o) = 0
    BY <1>10, WeightSub
  <2>2. Held(R, o) = Weight(g, o) + Held(r, o)
    BY <1>9, <1>15, FrameHeld
  <2>3. /\ Slack(heap', o) = hold[o] + Weight(g, o) + Held(r, o) + lost'[o]
        /\ hold[o] \in Nat /\ Weight(g, o) \in Nat /\ Held(r, o) \in Nat
        /\ lost'[o] \in Nat
    BY <1>15
  <2> HIDE DEF R, r
  <2> QED
    BY <2>1, <2>2, <2>3
<1>19. PICK s, u \in Scope :
         Link(Top, s, u) /\ Scoped(r, u, start.vars) /\ Agrees(s)
  BY <1>1, ScopeOfTop
<1>20. PICK t \in Scope : t = Changed(s, k, v)
  BY ScopeSet
<1>21. t[k] = v /\ \A j \in Slot \ {k} : t[j] = s[j]
  BY <1>20, ScopeSet
<1>22. Agrees(t)'
  <2>1. /\ Running /\ Agrees(s) /\ errors' = errors /\ lost' = lost
        /\ heap'.cell[VARS] = [heap.cell[VARS] EXCEPT ![k] = v]
        /\ v \in Obj \cup {NULL}
    BY <1>8, <1>12, <1>19
  <2>2. Agrees(Changed(s, k, v))'
    BY <2>1, AgreesSet
  <2> QED
    BY <1>20, <2>2
<1>23. Link(g, t, u)
  <2>1. /\ s[LOOP] = Top.loopv /\ u[LOOP] = Top.outerloop /\ u[k] = Top.outeritem
        /\ \A j \in Slot \ {LOOP, k} : u[j] = s[j]
    BY <1>1, <1>2, <1>6, <1>19 DEF Link
  <2> QED
    BY <1>2, <1>6, <1>9, <1>21, <2>1 DEF Link
<1>24. Scoped(R, t, start.vars)
  BY <1>9, <1>15, <1>19, <1>23, ScopedCons
<1>25. ~Failed'
  <2>1. Failed => Finishing(Top)
    BY <1>1, Opened
  <2>2. ~Failed
    BY <1>1, <1>2, <2>1 DEF Finishing
  <2> QED
    BY <1>8, <2>2 DEF Failed, Running, rendering
<1> HIDE DEF R
<1> DEFINE f == Sub(Top.body)
<1>26. /\ f \in Frame /\ f.fn = "subblocks" /\ stack' = <<f>> \o R
       /\ \A o \in Obj : Slack(heap', o) = hold[o] + Weight(f, o) + Held(R, o) + lost'[o]
  BY <1>10, <1>17, <1>18
<1> HIDE DEF f
<1>27. FrameSound(heap', num', f) /\ Bound(heap', f) /\ Link(f, t, t)
  BY <1>26, PlainSub
<1>28. /\ heap' \in HeapType /\ brk' \in BOOLEAN
       /\ errors' \in Nat /\ errors' >= errors /\ lost' \in [Obj -> Nat]
  BY <1>1, <1>3, <1>8, <1>12 DEF Same, IInv, TypeOK
<1> QED
  BY <1>1, <1>11, <1>13, <1>16, <1>22, <1>24, <1>25, <1>26, <1>27, <1>28, Topped

-----------------------------------------------------------------------------
(* The locals of eval_loop.                                                *)
LEMMA TwoFresh ==
  ASSUME Room
  PROVE  /\ Fresh({}) \in Unused
         /\ Fresh({Fresh({})}) \in Unused /\ Fresh({Fresh({})}) # Fresh({})
<1>1. PICK o \in Unused : Unused # {o}
  BY DEF Room
<1>2. PICK p \in Unused : p # o
  BY <1>1
<1>3. \E q \in Unused : q \notin {}
  BY <1>1
<1>4. Fresh({}) \in Unused
  BY <1>3 DEF Fresh
<1> DEFINE a == Fresh({})
<1>5. \E q \in Unused : q \notin {a}
  BY <1>1, <1>2
<1>6. Fresh({a}) \in Unused /\ Fresh({a}) \notin {a}
  BY <1>5 DEF Fresh
<1> QED
  BY <1>4, <1>6

LEMMA NewSlack ==
  ASSUME NEW h \in HeapType, NEW o \in Obj, NEW k \in Kind, h.rc[o] = 0
  PROVE  /\ New(h, o, k) \in HeapType /\ New(h, o, k).cell = h.cell
         /\ New(h, o, k).kind = [h.kind EXCEPT ![o] = k]
         /\ \A p \in Obj : /\ New(h, o, k).rc[p] = h.rc[p] + One(o, p)
                           /\ Slack(New(h, o, k), p) = Slack(h, p) + One(o, p)
         /\ New(h, o, k).len = h.len
<1> DEFINE g == New(h, o, k)
<1>1. /\ g \in HeapType /\ g.kind = [h.kind EXCEPT ![o] = k]
      /\ g.rc = [h.rc EXCEPT ![o] = 1] /\ g.cell = h.cell /\ g.len = h.len
  BY NewHeap
<1> HIDE DEF g
<1>2. h.rc \in [Obj -> Int]
  BY Parts
<1>3. ASSUME NEW p \in Obj
      PROVE  g.rc[p] = h.rc[p] + One(o, p) /\ Slack(g, p) = Slack(h, p) + One(o, p)
  <2>1. g.rc[p] = h.rc[p] + One(o, p)
    BY <1>1, <1>2 DEF One
  <2>2. Cells(g, p) = Cells(h, p)
    BY <1>1, SameCells DEF Cells
  <2>3. h.rc[p] \in Int /\ Cells(h, p) \in Int /\ One(o, p) \in Int
    BY Counts, Ones
  <2> QED
    BY <2>1, <2>2, <2>3 DEF Slack
<1> QED
  BY <1>1, <1>3 DEF g

LEMMA PutSlack ==
  ASSUME NEW h \in HeapType, NEW c \in Obj, NEW k \in Slot, NEW v \in Obj
  PROVE  /\ HmapSets(h, c, k, v) \in HeapType
         /\ HmapSets(h, c, k, v).kind = h.kind /\ HmapSets(h, c, k, v).len = h.len
         /\ HmapSets(h, c, k, v).cell = [h.cell EXCEPT ![c] = [h.cell[c] EXCEPT ![k] = v]]
         /\ \A o \in Obj :
              /\ HmapSets(h, c, k, v).rc[o] = h.rc[o] + One(v, o)
              /\ Slack(HmapSets(h, c, k, v), o) = Slack(h, o) + One(h.cell[c][k], o)
<1> DEFINE g == HmapSets(h, c, k, v)
<1>1. /\ g \in HeapType /\ g.kind = h.kind /\ g.len = h.len
      /\ g.cell = [h.cell EXCEPT ![c] = [h.cell[c] EXCEPT ![k] = v]]
      /\ \A o \in Obj :
           /\ g.rc[o] = h.rc[o] + One(v, o)
           /\ Cells(g, o) = Cells(h, o) - One(h.cell[c][k], o) + One(v, o)
  BY SetsHeap
<1> HIDE DEF g
<1>2. ASSUME NEW o \in Obj PROVE Slack(g, o) = Slack(h, o) + One(h.cell[c][k], o)
  <2>1. /\ h.rc[o] \in Int /\ Cells(h, o) \in Int /\ One(v, o) \in Int
        /\ One(h.cell[c][k], o) \in Int
    BY Counts, Ones
  <2> QED
    BY <1>1, <2>1 DEF Slack
<1> QED
  BY <1>1, <1>2 DEF g

(* Two objects that were not there, one in the other and that in env->vars.*)
LEMMA Begun ==
  ASSUME IInv, Evaluating, Room, Cur.item \in Slot, Cur.item # LOOP
  PROVE  /\ Prologue.loopv \in Obj \ {VARS} /\ Prologue.indexv \in Obj \ {VARS}
         /\ Prologue.outerloop = heap.cell[VARS][LOOP]
         /\ Prologue.outeritem = heap.cell[VARS][Cur.item]
         /\ Prologue.heap \in HeapType /\ Shaped(Prologue.heap)
         /\ Prologue.heap.cell[VARS] = [heap.cell[VARS] EXCEPT ![LOOP] = Prologue.loopv]
         /\ \A o \in Obj :
              /\ heap.kind[o] # "none" =>
                   /\ Prologue.heap.kind[o] = heap.kind[o]
                   /\ o # VARS => Prologue.heap.cell[o] = heap.cell[o]
              /\ Prologue.heap.rc[o] \in Nat
              /\ Prologue.heap.rc[o] >= Cells(Prologue.heap, o)
              /\ Prologue.heap.kind[o] # "none" => Prologue.heap.rc[o] > 0
              /\ Slack(Prologue.heap, o) = Slack(heap, o) + One(Prologue.loopv, o)
                   + One(Prologue.indexv, o) + One(Prologue.outerloop, o)
<1> DEFINE a == Fresh({})
           b == Fresh({a})
           h0 == New(heap, a, "hmap")
           h1 == New(h0, b, "int")
           h2 == HmapSets(h1, a, INDEX, b)
           h3 == HmapSets(h2, VARS, LOOP, a)
<1>1. /\ heap \in HeapType /\ Shaped(heap) /\ Quiet(heap)
      /\ \A o \in Obj : /\ heap.rc[o] \in Nat /\ (heap.kind[o] # "none" => heap.rc[o] > 0)
                        /\ heap.rc[o] >= Cells(heap, o)
  BY Ledger DEF Evaluating
<1>2. /\ VARS \in Obj /\ LOOP \in Slot /\ INDEX \in Slot
      /\ "hmap" \in Kind /\ "int" \in Kind
  BY TheVars DEF Kind
<1>3. /\ a \in Obj /\ b \in Obj /\ a # b
      /\ heap.kind[a] = "none" /\ heap.kind[b] = "none"
  BY TwoFresh DEF Unused
<1>4. /\ heap.rc[a] = 0 /\ heap.rc[b] = 0 /\ a # VARS /\ b # VARS
      /\ heap.cell[a] = EmptyCells /\ heap.cell[b] = EmptyCells
  BY <1>1, <1>2, <1>3 DEF Shaped
<1>5. /\ Prologue.loopv = a /\ Prologue.indexv = b /\ Prologue.heap = h3
      /\ Prologue.outerloop = h2.cell[VARS][LOOP]
      /\ Prologue.outeritem = h3.cell[VARS][Cur.item]
  BY DEF Prologue, HmapGets
<1> HIDE DEF a, b
<1>6. /\ h0 \in HeapType /\ h0.cell = heap.cell /\ h0.kind = [heap.kind EXCEPT ![a] = "hmap"]
      /\ \A p \in Obj : /\ h0.rc[p] = heap.rc[p] + One(a, p)
                       /\ Slack(h0, p) = Slack(heap, p) + One(a, p)
      /\ h0.len = heap.len
  BY <1>1, <1>2, <1>3, <1>4, NewSlack
<1> HIDE DEF h0
<1>7. h0.rc[b] = 0
  <2>1. One(a, b) = 0
    BY <1>3, Ones
  <2> QED
    BY <1>3, <1>4, <1>6, <2>1
<1>8. /\ h1 \in HeapType /\ h1.cell = h0.cell /\ h1.kind = [h0.kind EXCEPT ![b] = "int"]
      /\ \A p \in Obj : h1.rc[p] = h0.rc[p] + One(b, p) /\ Slack(h1, p) = Slack(h0, p) + One(b, p)
      /\ h1.len = h0.len
  BY <1>2, <1>3, <1>6, <1>7, NewSlack
<1> HIDE DEF h1
<1>9. /\ h2 \in HeapType /\ h2.kind = h1.kind /\ h2.len = h1.len
      /\ h2.cell = [h1.cell EXCEPT ![a] = [h1.cell[a] EXCEPT ![INDEX] = b]]
      /\ \A o \in Obj : /\ h2.rc[o] = h1.rc[o] + One(b, o)
                        /\ Slack(h2, o) = Slack(h1, o) + One(h1.cell[a][INDEX], o)
  <2>1. h1 \in HeapType /\ a \in Obj /\ INDEX \in Slot /\ b \in Obj
    BY <1>2, <1>3, <1>8
  <2> QED
    BY SMTT(30), <2>1, PutSlack
<1> HIDE DEF h2
<1>10. /\ h3 \in HeapType /\ h3.kind = h2.kind /\ h3.len = h2.len
       /\ h3.cell = [h2.cell EXCEPT ![VARS] = [h2.cell[VARS] EXCEPT ![LOOP] = a]]
       /\ \A o \in Obj : /\ h3.rc[o] = h2.rc[o] + One(a, o)
                         /\ Slack(h3, o) = Slack(h2, o) + One(h2.cell[VARS][LOOP], o)
  <2>1. h2 \in HeapType /\ VARS \in Obj /\ LOOP \in Slot /\ a \in Obj
    BY <1>2, <1>3, <1>9
  <2> QED
    BY <2>1, PutSlack
<1> HIDE DEF h3
<1>11. /\ heap.cell \in [Obj -> [Slot -> Obj \cup {NULL}]] /\ heap.kind \in [Obj -> Kind]
  BY <1>1, Parts
<1>12. /\ h1.cell = heap.cell
       /\ h3.kind = [[heap.kind EXCEPT ![a] = "hmap"] EXCEPT ![b] = "int"]
       /\ h3.len = heap.len
  BY <1>6, <1>8, <1>9, <1>10
<1>13. /\ h2.cell[VARS] = heap.cell[VARS]
       /\ h2.cell[a] = [EmptyCells EXCEPT ![INDEX] = b]
       /\ \A o \in Obj \ {a} : h2.cell[o] = heap.cell[o]
       /\ h1.cell[a][INDEX] = NULL
  BY <1>2, <1>3, <1>4, <1>9, <1>11, <1>12 DEF EmptyCells
<1>14. h3.cell[VARS] = [heap.cell[VARS] EXCEPT ![LOOP] = a]
       /\ h3.cell[a] = [EmptyCells EXCEPT ![INDEX] = b]
       /\ \A o \in Obj \ {a, VARS} : h3.cell[o] = heap.cell[o]
  <2>1. h2.cell \in [Obj -> [Slot -> Obj \cup {NULL}]]
    BY <1>9, Parts
  <2> QED
    BY <1>2, <1>3, <1>4, <1>10, <1>13, <2>1
<1>15. ASSUME NEW o \in Obj
       PROVE  /\ h3.rc[o] = heap.rc[o] + (One(a, o) + One(a, o)) + (One(b, o) + One(b, o))
              /\ Slack(h3, o) = Slack(heap, o) + One(a, o) + One(b, o)
                                  + One(heap.cell[VARS][LOOP], o)
  <2>1. /\ One(a, o) \in Int /\ One(b, o) \in Int /\ heap.rc[o] \in Int
        /\ Slack(heap, o) \in Int
    BY <1>1, Ones, Counts
  <2>2. One(heap.cell[VARS][LOOP], o) \in Int /\ One(h1.cell[a][INDEX], o) = 0
    BY <1>13, TheVars, Ones
  <2>3. /\ h0.rc[o] = heap.rc[o] + One(a, o) /\ Slack(h0, o) = Slack(heap, o) + One(a, o)
        /\ h1.rc[o] = h0.rc[o] + One(b, o) /\ Slack(h1, o) = Slack(h0, o) + One(b, o)
        /\ h2.rc[o] = h1.rc[o] + One(b, o)
        /\ Slack(h2, o) = Slack(h1, o) + One(h1.cell[a][INDEX], o)
        /\ h3.rc[o] = h2.rc[o] + One(a, o)
        /\ Slack(h3, o) = Slack(h2, o) + One(heap.cell[VARS][LOOP], o)
    BY <1>6, <1>8, <1>9, <1>10, <1>13
  <2> QED
    BY <2>1, <2>2, <2>3
<1>16. ASSUME NEW o \in Obj
       PROVE  /\ heap.kind[o] # "none" => h3.kind[o] = heap.kind[o] /\ o # a /\ o # b
              /\ h3.kind[o] # "none" => h3.rc[o] > 0
              /\ h3.rc[o] \in Nat /\ h3.rc[o] >= Cells(h3, o)
              /\ h3.kind[o] = "none" => h3.rc[o] = 0 /\ o # a /\ o # VARS /\ heap.kind[o] = "none"
              /\ h3.kind[o] = "vector" => heap.kind[o] = "vector" /\ o # a
  <2>1. h3.rc[o] = heap.rc[o] + (One(a, o) + One(a, o)) + (One(b, o) + One(b, o))
    BY <1>15
  <2>2. One(a, o) \in Nat /\ One(b, o) \in Nat
    BY Ones
  <2>3. /\ heap.rc[o] \in Nat /\ heap.rc[o] >= Cells(heap, o)
        /\ (heap.kind[o] # "none" => heap.rc[o] > 0)
    BY <1>1
  <2>4. /\ o # a /\ o # b => h3.kind[o] = heap.kind[o]
        /\ h3.kind[a] = "hmap" /\ h3.kind[b] = "int"
    BY <1>3, <1>11, <1>12
  <2>5. /\ o = a => One(a, o) = 1
        /\ o = b => One(b, o) = 1
        /\ o # a => One(a, o) = 0
        /\ o # b => One(b, o) = 0
    BY Ones
  <2>6. h3.rc[o] \in Nat /\ (h3.kind[o] # "none" => h3.rc[o] > 0)
    <3>1. h3.rc[o] \in Nat /\ h3.rc[o] >= heap.rc[o] /\ h3.rc[o] >= One(a, o)
          /\ h3.rc[o] >= One(b, o)
      <4>1. heap.rc[o] \in Nat
        BY <2>3
      <4> QED
        BY <2>1, <2>2, <4>1
    <3>2. ASSUME h3.kind[o] # "none" PROVE h3.rc[o] > 0
      <4>1. CASE o = a
        BY <2>5, <3>1, <4>1
      <4>2. CASE o = b
        BY <2>5, <3>1, <4>2
      <4>3. CASE o # a /\ o # b
        BY <2>3, <2>4, <3>1, <3>2, <4>3
      <4> QED
        BY <4>1, <4>2, <4>3
    <3> QED
      BY <3>1, <3>2
  <2>7. heap.kind[o] # "none" => h3.kind[o] = heap.kind[o] /\ o # a /\ o # b
    BY <1>3, <2>4
  <2>8. h3.kind[o] = "none" => h3.rc[o] = 0 /\ o # a /\ o # VARS /\ heap.kind[o] = "none"
    <3>1. ASSUME h3.kind[o] = "none"
          PROVE  h3.rc[o] = 0 /\ o # a /\ o # VARS /\ heap.kind[o] = "none"
      <4>1. o # a /\ o # b /\ heap.kind[o] = "none"
        BY <2>4, <3>1
      <4>2. heap.rc[o] = 0 /\ heap.kind[VARS] # "none"
        BY <1>1, <4>1 DEF Shaped
      <4> QED
        BY <2>1, <2>5, <4>1, <4>2
    <3> QED
      BY <3>1
  <2>9. h3.kind[o] = "vector" => heap.kind[o] = "vector" /\ o # a
    BY <2>4
  <2>10. h3.rc[o] >= Cells(h3, o)
    <3>1. Slack(h3, o) = Slack(heap, o) + One(a, o) + One(b, o)
                                  + One(heap.cell[VARS][LOOP], o)
      BY <1>15
    <3>2. One(heap.cell[VARS][LOOP], o) \in Nat
      BY Ones
    <3>3. Cells(h3, o) \in Nat /\ Cells(heap, o) \in Nat
      BY CellsNat
    <3> QED
      BY <2>2, <2>3, <2>6, <3>1, <3>2, <3>3 DEF Slack
  <2> QED
    BY <2>6, <2>7, <2>8, <2>9, <2>10
<1>17. Shaped(h3)
  <2>1. h3.kind[VARS] = "hmap"
    BY <1>1, <1>2, <1>16 DEF Shaped
  <2>2. ASSUME NEW o \in Obj, h3.kind[o] = "none"
        PROVE  h3.rc[o] = 0 /\ h3.cell[o] = EmptyCells
    BY <1>1, <1>14, <1>16, <2>2 DEF Shaped
  <2>3. ASSUME NEW o \in Obj, h3.kind[o] = "vector", h3.rc[o] > 0
        PROVE  \A i \in 1 .. h3.len[o] : h3.cell[o][i] # NULL
    <3>1. heap.kind[o] = "vector" /\ o # a
      BY <1>16, <2>3
    <3>2. o # VARS
      BY <2>1, <2>3
    <3>3. heap.rc[o] > 0
      BY <1>1, <3>1
    <3> QED
      BY <1>1, <1>12, <1>14, <3>1, <3>2, <3>3 DEF Shaped
  <2>4. ASSUME NEW o \in Obj, NEW s \in Slot PROVE h3.cell[o][s] # VARS
    <3>1. heap.cell[o][s] # VARS /\ heap.cell[VARS][s] # VARS /\ NULL # VARS
      BY <1>1, <1>2, TheVars DEF Shaped
    <3>2. CASE o = a
      BY <1>4, <1>14, <3>1, <3>2 DEF EmptyCells
    <3>3. CASE o = VARS
      BY <1>2, <1>4, <1>11, <1>14, <3>1, <3>3
    <3>4. CASE o # a /\ o # VARS
      BY <1>14, <3>1, <3>4
    <3> QED
      BY <3>2, <3>3, <3>4
  <2> QED
    BY <2>1, <2>2, <2>3, <2>4 DEF Shaped
<1>18. h3.cell[VARS][Cur.item] = heap.cell[VARS][Cur.item]
  BY <1>2, <1>11, <1>14
<1>19. ASSUME NEW o \in Obj, heap.kind[o] # "none", o # VARS PROVE h3.cell[o] = heap.cell[o]
  BY <1>14, <1>16, <1>19
<1> QED
  BY <1>3, <1>4, <1>5, <1>10, <1>13, <1>14, <1>15, <1>16, <1>17, <1>18, <1>19

(* What a loop starts from.                                                *)
LEMMA AtFor ==
  ASSUME Running, At("for"), Room
  PROVE  /\ IInv /\ In("subblocks") /\ Evaluating /\ mode = "eval" /\ Top.fn = "subblocks"
         /\ Top.rest # << >> /\ ~Stop /\ ~Failed
         /\ Cur.item \in Key /\ Cur.item \in Slot /\ Cur.item # LOOP /\ LOOP \in Slot
         /\ Cur.seq \in Expression /\ Cur.body \in Seq(Pieces)
<1>1. /\ IInv /\ In("subblocks") /\ Evaluating /\ mode = "eval" /\ Top.fn = "subblocks"
      /\ Top.rest # << >> /\ ~Stop /\ Cur.t = "for"
  BY DEF Running, At, In, Evaluating, Cur
<1>2. Cur \in Pieces
  BY <1>1, InSubblocks
<1>3. Cur.item \in Key /\ Cur.seq \in Expression /\ Cur.body \in Seq(Pieces)
  BY <1>1, <1>2, TemplateAssumption DEF WellFormed
<1>4. Cur.item # LOOP
  BY <1>1, <1>2 DEF IInv, NoLoopItem
<1>5. ~Failed
  BY <1>1, NotFailed
<1>6. Cur.item \in Slot /\ LOOP \in Slot
  BY <1>3, TheVars
<1> QED
  BY <1>1, <1>3, <1>4, <1>5, <1>6

(* What the frames below rely on is still so.                              *)
LEMMA BegunSound ==
  ASSUME Running, At("for"), Room, NEW g, NEW m,
         g.kind = Prologue.heap.kind, g.cell = Prologue.heap.cell,
         m = [num EXCEPT ![Prologue.indexv] = 0]
  PROVE  Sound(g, m, Tail(stack)) /\ m \in [Obj -> Int]
<1>1. IInv /\ Evaluating /\ Cur.item \in Slot /\ Cur.item # LOOP
  BY AtFor
<1>2. \A o \in Obj \ {VARS} : heap.kind[o] \in {"vector", "hmap"} /\ heap.rc[o] > 0 =>
        g.kind[o] = heap.kind[o] /\ g.cell[o] = heap.cell[o]
  BY <1>1, Begun
<1>3. num \in [Obj -> Int] /\ Prologue.indexv \in Obj
  BY <1>1, Ledger, Begun
<1>4. \A o \in Obj : num[o] >= 0 => m[o] >= 0
  BY <1>3
<1>5. m \in [Obj -> Int]
  BY <1>3
<1> QED
  BY <1>1, <1>2, <1>4, <1>5, RestSound

(* The locals that go without being given back.                            *)
LEMMA Dropped ==
  ASSUME NEW p, NEW o
  PROVE  Cardinality({l \in {"loopv", "indexv", "outerloop"} : p[l] = o})
           = One(p["loopv"], o) + One(p["indexv"], o) + One(p["outerloop"], o)
<1> DEFINE S(L) == {l \in L : p[l] = o}
           S0 == S({})
           S1 == S({"loopv"})
           S2 == S({"loopv", "indexv"})
           S3 == S({"loopv", "indexv", "outerloop"})
<1>1. /\ One(p["loopv"], o) \in {0, 1} /\ One(p["indexv"], o) \in {0, 1}
      /\ One(p["outerloop"], o) \in {0, 1}
  BY DEF One
<1>2. "loopv" \notin S0 /\ "indexv" \notin S1 /\ "outerloop" \notin S2
  OBVIOUS
<1>3. /\ One(p["loopv"], o) = 1 => S1 = S0 \cup {"loopv"}
      /\ One(p["loopv"], o) = 0 => S1 = S0
  BY DEF One
<1>4. /\ One(p["indexv"], o) = 1 => S2 = S1 \cup {"indexv"}
      /\ One(p["indexv"], o) = 0 => S2 = S1
  BY DEF One
<1>5. /\ One(p["outerloop"], o) = 1 => S3 = S2 \cup {"outerloop"}
      /\ One(p["outerloop"], o) = 0 => S3 = S2
  BY DEF One
<1>6. IsFiniteSet(S0) /\ Cardinality(S0) = 0
  <2>1. S0 = {}
    OBVIOUS
  <2> QED
    BY <2>1, FS_EmptySet
<1> HIDE DEF S0, S1, S2, S3
<1>7. IsFiniteSet(S1) /\ Cardinality(S1) = Cardinality(S0) + One(p["loopv"], o)
  BY <1>1, <1>2, <1>3, <1>6, OneMore
<1>8. IsFiniteSet(S2) /\ Cardinality(S2) = Cardinality(S1) + One(p["indexv"], o)
  BY <1>1, <1>2, <1>4, <1>7, OneMore
<1>9. IsFiniteSet(S3) /\ Cardinality(S3) = Cardinality(S2) + One(p["outerloop"], o)
  BY <1>1, <1>2, <1>5, <1>8, OneMore
<1>10. Cardinality(S3) = One(p["loopv"], o) + One(p["indexv"], o) + One(p["outerloop"], o)
  BY <1>1, <1>6, <1>7, <1>8, <1>9
<1> QED
  BY <1>10 DEF S3

LEMMA ForFailsKeeps == ASSUME Running, ForFails PROVE IInv'
<1>1. At("for") /\ Room
  BY DEF ForFails
<1>2. /\ IInv /\ In("subblocks") /\ Evaluating /\ mode = "eval" /\ Top.fn = "subblocks"
      /\ Top.rest # << >> /\ ~Failed
      /\ Cur.item \in Slot /\ Cur.item # LOOP /\ LOOP \in Slot
  BY <1>1, AtFor
<1>3. /\ heap \in HeapType /\ Shaped(heap) /\ num \in [Obj -> Int] /\ errors \in Nat
      /\ lost \in [Obj -> Nat] /\ brk \in BOOLEAN
  BY <1>2, Ledger DEF IInv, TypeOK
<1> DEFINE p == [Top EXCEPT !.rest = Tail(@), !.first = FALSE]
           r == Tail(stack)
<1>4. p \in Frame /\ p.fn = "subblocks" /\ ~p.first /\ Past = <<p>> \o r
  BY <1>2, InSubblocks
<1> HIDE DEF p
<1>5. PICK a, b, c : a = Prologue.loopv /\ b = Prologue.indexv /\ c = Prologue.outerloop
  OBVIOUS
<1>6. /\ heap' = Prologue.heap /\ num' = [num EXCEPT ![b] = 0] /\ errors' = errors + 1
      /\ stack' = <<p>> \o r /\ brk' = brk
  BY <1>4, <1>5 DEF ForFails, Fail
<1>7. /\ a \in Obj /\ c = heap.cell[VARS][LOOP] /\ heap' \in HeapType /\ Shaped(heap')
      /\ heap'.cell[VARS] = [heap.cell[VARS] EXCEPT ![LOOP] = a]
      /\ \A o \in Obj : Slack(heap', o) = Slack(heap, o) + One(a, o) + One(b, o) + One(c, o)
  BY <1>1, <1>2, <1>5, <1>6, Begun
<1>8. lost' = [o \in Obj |-> lost[o] + (One(a, o) + One(b, o) + One(c, o))]
  <2> DEFINE q == Prologue
  <2>1. lost' = [o \in Obj |-> lost[o] + Cardinality(
                  {l \in {"loopv", "indexv", "outerloop"} : q[l] = o})]
    BY DEF ForFails
  <2>2. q["loopv"] = a /\ q["indexv"] = b /\ q["outerloop"] = c
    BY <1>5
  <2> HIDE DEF q
  <2>3. \A o \in Obj : Cardinality({l \in {"loopv", "indexv", "outerloop"} : q[l] = o})
          = One(a, o) + One(b, o) + One(c, o)
    BY <2>2, Dropped
  <2> QED
    BY <2>1, <2>3
<1>9. lost' \in [Obj -> Nat]
  <2>1. ASSUME NEW o \in Obj PROVE lost[o] + (One(a, o) + One(b, o) + One(c, o)) \in Nat
    <3>1. One(a, o) \in Nat /\ One(b, o) \in Nat /\ One(c, o) \in Nat /\ lost[o] \in Nat
      BY <1>3, Ones
    <3> QED
      BY <3>1
  <2> QED
    BY <1>8, <2>1
<1>10. Sound(heap', num', r) /\ num' \in [Obj -> Int]
  BY <1>1, <1>5, <1>6, BegunSound
<1>11. r \in Seq(Frame) /\ Resting(r)
  BY <1>2, Opened
<1>12. ASSUME NEW o \in Obj
       PROVE  Slack(heap', o) = hold[o] + Weight(p, o) + Held(r, o) + lost'[o]
  <2>1. Weight(Top, o) = 0 /\ Weight(p, o) = 0
    BY <1>2, <1>4, WeightSub
  <2>2. /\ Slack(heap, o) = hold[o] + Weight(Top, o) + Held(r, o) + lost[o]
        /\ hold[o] \in Nat /\ Held(r, o) \in Nat /\ lost[o] \in Nat
    BY <1>2, Balance
  <2>3. One(a, o) \in Nat /\ One(b, o) \in Nat /\ One(c, o) \in Nat
    BY Ones
  <2>4. /\ Slack(heap', o) = Slack(heap, o) + One(a, o) + One(b, o) + One(c, o)
        /\ lost'[o] = lost[o] + (One(a, o) + One(b, o) + One(c, o))
    BY <1>7, <1>8
  <2> HIDE DEF r
  <2> QED
    BY <2>1, <2>2, <2>3, <2>4
<1>13. PICK s, u \in Scope :
         Link(Top, s, u) /\ Scoped(r, u, start.vars) /\ Agrees(s)
  BY <1>2, ScopeOfTop
<1>14. u = s /\ Link(p, s, u)
  BY <1>2, <1>4, <1>13, PlainSub
<1>15. Agrees(s)'
  <2>1. \A k \in Slot : heap.cell[VARS][k] = s[k]
    BY <1>2, <1>13 DEF Agrees
  <2>2. Failed'
    <3>1. errors >= start.errors /\ start.errors \in Nat /\ start' = start
      BY <1>2 DEF IInv, Phases, Running, rendering
    <3> QED
      BY <1>3, <1>6, <3>1 DEF Failed
  <2>3. s[LOOP] = c
    BY <1>2, <1>7, <2>1
  <2>4. c \in Obj => lost'[c] > 0
    <3>1. ASSUME c \in Obj PROVE lost'[c] > 0
      <4>1. One(a, c) \in Nat /\ One(b, c) \in Nat /\ One(c, c) = 1 /\ lost[c] \in Nat
        BY <1>3, <3>1, Ones
      <4>2. lost'[c] = lost[c] + (One(a, c) + One(b, c) + One(c, c))
        BY <1>8, <3>1
      <4> QED
        BY <4>1, <4>2
    <3> QED
      BY <3>1
  <2>5. heap.cell[VARS] \in [Slot -> Obj \cup {NULL}]
    BY <1>3, Parts, TheVars
  <2>6. \A k \in Slot \ {LOOP} : heap'.cell[VARS][k] = s[k]
    BY <1>7, <2>1, <2>5
  <2> QED
    BY <2>2, <2>3, <2>4, <2>6 DEF Agrees
<1>16. /\ FrameSound(heap', num', p) /\ Bound(heap', p) /\ Finishing(p)
  BY <1>4, PlainSub
<1>17. errors' \in Nat /\ errors' >= errors /\ brk' \in BOOLEAN
  BY <1>3, <1>6
<1> HIDE DEF r
<1> QED
  BY <1>2, <1>4, <1>6, <1>7, <1>9, <1>10, <1>11, <1>12, <1>13, <1>14, <1>15, <1>16, <1>17,
     Topped

(* What the locals of a loop are when it begins.                           *)
Starting(f, a, b, c, d, h, v) ==
  /\ f.fn = "loop"
  /\ f.at \in {"bind", "loop"} /\ (f.at = "bind" => TypeOf(h, v) \in {"vector", "hmap"})
  /\ f.loopv = a /\ f.indexv = b /\ f.outerloop = c /\ f.outeritem = d
  /\ f.owned = FALSE /\ f.seq = v /\ f.item = Cur.item
  /\ TypeOf(h, v) = "hmap" => f.iter = Keys(h, v)

LEMMA LoopBegins ==
  ASSUME NEW a \in Obj, NEW b \in Obj, NEW c \in Obj \cup {NULL}, NEW d \in Obj \cup {NULL},
         NEW v \in Obj \cup Static, Prologue.loopv = a, Prologue.indexv = b,
         Prologue.outerloop = c, Prologue.outeritem = d, NEW h, Prologue.heap = h,
         Cur.item \in Key, Cur.body \in Seq(Pieces), NEW f, f = Loop(Prologue, v)
  PROVE  f \in Frame /\ Starting(f, a, b, c, d, h, v)
<1> DEFINE it == IF TypeOf(h, v) = "hmap" THEN Keys(h, v) ELSE {}
           at == IF Iterable(h, v) THEN "bind" ELSE "loop"
<1>1. it \in SUBSET Key /\ at \in {"bind", "unbind", "loop", "item", "leave"}
  BY DEF Keys
<1>2. f = [fn |-> "loop", at |-> at, loopv |-> a, indexv |-> b,
           outerloop |-> c, outeritem |-> d, owned |-> FALSE, seq |-> v,
           iter |-> it, item |-> Cur.item, body |-> Cur.body]
  BY DEF Loop
<1> HIDE DEF it, at
<1>3. f \in [fn : {"loop"}, at : {"bind", "unbind", "loop", "item", "leave"},
             loopv : Obj, indexv : Obj, outerloop : Obj \cup {NULL},
             outeritem : Obj \cup {NULL}, owned : BOOLEAN, seq : Obj \cup Static,
             iter : SUBSET Key, item : Key, body : Seq(Pieces)]
  BY <1>1, <1>2
<1>4. f \in Frame
  BY <1>3, LoopFrame
<1>5. /\ f.fn = "loop" /\ f.at = at /\ at \in {"bind", "loop"}
      /\ (at = "bind" => TypeOf(h, v) \in {"vector", "hmap"})
      /\ f.loopv = a /\ f.indexv = b
      /\ f.outerloop = c /\ f.outeritem = d
      /\ f.owned = FALSE /\ f.seq = v /\ f.iter = it /\ f.item = Cur.item
  BY <1>2 DEF at, Iterable
<1> QED
  BY <1>4, <1>5 DEF it, at, Starting

LEMMA ForKeeps == ASSUME Running, For PROVE IInv'
<1>1. At("for") /\ Room
  BY DEF For
<1>2. /\ IInv /\ In("subblocks") /\ Evaluating /\ mode = "eval" /\ Top.fn = "subblocks"
      /\ Top.rest # << >> /\ ~Failed
      /\ Cur.item \in Slot /\ Cur.item # LOOP /\ LOOP \in Slot
      /\ Cur.item \in Key /\ Cur.seq \in Expression /\ Cur.body \in Seq(Pieces)
  BY <1>1, AtFor
<1>3. /\ heap \in HeapType /\ Shaped(heap) /\ num \in [Obj -> Int] /\ errors \in Nat
      /\ lost \in [Obj -> Nat] /\ brk \in BOOLEAN
  BY <1>2, Ledger DEF IInv, TypeOK
<1> DEFINE p == [Top EXCEPT !.rest = Tail(@), !.first = FALSE]
           r == Tail(stack)
<1>4. p \in Frame /\ p.fn = "subblocks" /\ ~p.first /\ Past = <<p>> \o r
  BY <1>2, InSubblocks
<1> HIDE DEF p
<1>5. PICK a, b, c, d, h : /\ a = Prologue.loopv /\ b = Prologue.indexv
                           /\ c = Prologue.outerloop /\ d = Prologue.outeritem
                           /\ h = Prologue.heap
  OBVIOUS
<1>6. PICK k \in Slot : k = Cur.item
  BY <1>2
<1>7. /\ a \in Obj \ {VARS} /\ b \in Obj \ {VARS} /\ c = heap.cell[VARS][LOOP]
      /\ d = heap.cell[VARS][k] /\ h \in HeapType /\ Shaped(h)
      /\ h.cell[VARS] = [heap.cell[VARS] EXCEPT ![LOOP] = a]
      /\ \A o \in Obj :
           /\ h.rc[o] \in Nat /\ h.rc[o] >= Cells(h, o)
           /\ h.kind[o] # "none" => h.rc[o] > 0
           /\ Slack(h, o) = Slack(heap, o) + One(a, o) + One(b, o) + One(c, o)
  BY <1>1, <1>2, <1>5, <1>6, Begun
<1>8. c \in (Obj \ {VARS}) \cup {NULL} /\ d \in (Obj \ {VARS}) \cup {NULL}
      /\ heap.cell[VARS] \in [Slot -> Obj \cup {NULL}]
  BY <1>2, <1>3, <1>7, Parts, TheVars DEF Shaped
<1>9. PICK v : v = Value(h, Cur.seq)
  OBVIOUS
<1>10. /\ v \in (Obj \ {VARS}) \cup Static
       /\ v \in Obj => Cells(h, v) > 0
  BY <1>2, <1>5, <1>7, <1>9, ValueFound DEF For, Fails
<1>f. PICK f : f = Loop(Prologue, v)
  OBVIOUS
<1>11. /\ heap' = Keep(h, v) /\ num' = [num EXCEPT ![b] = 0]
       /\ stack' = <<f>> \o Past /\ brk' = brk /\ lost' = lost
       /\ errors' = IF Iterable(h, v) THEN errors ELSE errors + 1
  BY <1>5, <1>9, <1>f DEF For, Call
<1>12. /\ f \in Frame /\ f.fn = "loop"
       /\ f.at \in {"bind", "loop"} /\ (f.at = "bind" => TypeOf(h, v) \in {"vector", "hmap"})
       /\ f.loopv = a /\ f.indexv = b /\ f.outerloop = c /\ f.outeritem = d
       /\ f.owned = FALSE /\ f.seq = v /\ f.item = k
       /\ TypeOf(h, v) = "hmap" => f.iter = Keys(h, v)
  <2>1. /\ Prologue.loopv \in Obj /\ Prologue.indexv \in Obj
        /\ Prologue.outerloop \in Obj \cup {NULL} /\ Prologue.outeritem \in Obj \cup {NULL}
        /\ v \in Obj \cup Static
    BY <1>5, <1>7, <1>8, <1>10
  <2>2. /\ a \in Obj /\ b \in Obj /\ c \in Obj \cup {NULL} /\ d \in Obj \cup {NULL}
        /\ Prologue.loopv = a /\ Prologue.indexv = b
        /\ Prologue.outerloop = c /\ Prologue.outeritem = d
        /\ v \in Obj \cup Static /\ Cur.item \in Key /\ Cur.body \in Seq(Pieces)
        /\ Prologue.heap = h /\ f = Loop(Prologue, v)
    BY <1>2, <1>5, <1>f, <2>1
  <2>3. f \in Frame /\ Starting(f, a, b, c, d, h, v)
    BY <2>2, LoopBegins
  <2> QED
    BY <1>5, <1>6, <2>3 DEF Starting
<1>13. /\ Same(h, heap') /\ heap'.cell = h.cell
       /\ \A o \in Obj : Slack(heap', o) = Slack(h, o) + One(v, o)
  BY <1>7, <1>11, KeepSlack
<1>14. Shaped(heap')
  <2>1. v \in Obj => h.rc[v] > 0
    <3>1. ASSUME v \in Obj PROVE h.rc[v] > 0
      <4>1. h.rc[v] \in Nat /\ h.rc[v] >= Cells(h, v) /\ Cells(h, v) \in Nat
        BY <1>7, <3>1, CellsNat
      <4> QED
        BY <1>10, <3>1, <4>1
    <3> QED
      BY <3>1
  <2> QED
    BY <1>7, <1>11, <2>1, KeepShape
<1>15. heap' \in HeapType /\ heap'.kind = h.kind
  BY <1>13 DEF Same
<1>16. Sound(heap', num', r) /\ num' \in [Obj -> Int]
  BY <1>1, <1>5, <1>11, <1>13, <1>15, BegunSound
<1>17. r \in Seq(Frame) /\ Resting(r)
  BY <1>2, Opened
<1>18. Past \in Seq(Frame) /\ Resting(Past) /\ Sound(heap', num', Past)
  BY <1>4, <1>16, <1>17, Consed, RestingCons, SoundCons, PlainSub
<1>19. FrameSound(heap', num', f)
  <2>1. num'[f.indexv] >= 0
    BY <1>3, <1>7, <1>11, <1>12
  <2>2. VARS \notin {f.loopv, f.seq, f.outerloop, f.outeritem} /\ f.item # LOOP
    BY <1>2, <1>6, <1>7, <1>8, <1>10, <1>12, TheVars
  <2>3. ASSUME f.at \in {"bind", "unbind"}
        PROVE  /\ f.seq \in Obj /\ heap'.kind[f.seq] \in {"vector", "hmap"}
               /\ heap'.kind[f.seq] = "hmap" => f.iter \subseteq Keys(heap', f.seq)
    <3>1. Iterable(h, v)
      BY <1>12, <2>3 DEF Iterable
    <3>2. v \in Obj /\ h.kind[v] = TypeOf(h, v) /\ TypeOf(h, v) \in {"vector", "hmap"}
      BY <1>10, <3>1, Iterables DEF Iterable
    <3>3. Keys(heap', v) = Keys(h, v)
      BY <1>13 DEF Keys
    <3> QED
      BY <1>12, <1>15, <3>2, <3>3
  <2>4. f.at # "unbind" /\ f.fn = "loop"
    BY <1>12
  <2> QED
    BY <2>1, <2>2, <2>3, <2>4 DEF FrameSound
<1>20. Bound(heap', f)
  <2>1. heap'.cell[VARS][k] = d
    BY <1>2, <1>6, <1>7, <1>8, <1>13
  <2> QED
    BY <1>12, <2>1 DEF Bound
<1>21. errors' \in Nat /\ errors' >= errors
  BY <1>3, <1>11
<1>22. Failed' => Finishing(f)
  <2>1. ASSUME Failed' PROVE ~Iterable(h, v)
    BY <1>2, <1>11, <2>1 DEF Failed, Running, rendering
  <2> QED
    BY <1>12, <2>1 DEF Finishing, Iterable
<1>23. ASSUME NEW o \in Obj
       PROVE  Slack(heap', o) = hold[o] + Weight(f, o) + Held(Past, o) + lost'[o]
  <2>1. Weight(Top, o) = 0 /\ Weight(p, o) = 0
    BY <1>2, <1>4, WeightSub
  <2>2. Held(Past, o) = Weight(p, o) + Held(r, o)
    BY <1>4, <1>17, FrameHeld
  <2>3. /\ Slack(heap, o) = hold[o] + Weight(Top, o) + Held(r, o) + lost[o]
        /\ hold[o] \in Nat /\ Held(r, o) \in Nat /\ lost[o] \in Nat
    BY <1>2, Balance
  <2>4. One(a, o) \in Nat /\ One(b, o) \in Nat /\ One(c, o) \in Nat /\ One(v, o) \in Nat
    BY Ones
  <2>5. Weight(f, o) = One(a, o) + One(b, o) + One(v, o) + One(c, o) + 0
    <3>1. f.at \notin {"item", "leave"}
      BY <1>12
    <3>2. Weight(f, o) =
            One(f.loopv, o) + One(f.indexv, o) + One(f.seq, o)
             + (IF f.at \in {"item", "leave"} THEN 0 ELSE One(f.outerloop, o))
             + (IF f.owned /\ f.at # "leave" THEN One(f.outeritem, o) ELSE 0)
      BY <1>12, WeightLoop
    <3> QED
      BY <1>12, <3>1, <3>2
  <2>6. /\ Slack(heap', o) = Slack(h, o) + One(v, o)
        /\ Slack(h, o) = Slack(heap, o) + One(a, o) + One(b, o) + One(c, o)
        /\ lost'[o] = lost[o]
    BY <1>7, <1>11, <1>13
  <2> HIDE DEF r
  <2> QED
    BY <2>1, <2>2, <2>3, <2>4, <2>5, <2>6
<1>24. PICK s, u \in Scope :
         Link(Top, s, u) /\ Scoped(r, u, start.vars) /\ Agrees(s)
  BY <1>2, ScopeOfTop
<1>25. u = s /\ Link(p, s, u)
  BY <1>2, <1>4, <1>24, PlainSub
<1>26. \A j \in Slot : heap.cell[VARS][j] = s[j]
  BY <1>2, <1>24 DEF Agrees
<1>27. PICK t \in Scope : t = Changed(s, LOOP, a)
  <2>1. LOOP \in Slot /\ a \in Obj \cup {NULL}
    BY <1>2, <1>7
  <2>2. Changed(s, LOOP, a) \in Scope
    BY <2>1, ScopeSet
  <2> QED
    BY <2>2
<1>28. t[LOOP] = a /\ \A j \in Slot \ {LOOP} : t[j] = s[j]
  <2>1. LOOP \in Slot /\ a \in Obj \cup {NULL}
    BY <1>2, <1>7
  <2>2. Changed(s, LOOP, a)[LOOP] = a /\ \A j \in Slot \ {LOOP} : Changed(s, LOOP, a)[j] = s[j]
    BY <2>1, ScopeSet
  <2> QED
    BY <1>27, <2>2
<1>29. Agrees(t)'
  <2>1. \A j \in Slot : heap'.cell[VARS][j] = t[j]
    BY <1>2, <1>7, <1>8, <1>13, <1>26, <1>28
  <2> QED
    BY <2>1, AgreesNow
<1>30. Link(f, t, s)
  <2>1. s[LOOP] = c /\ s[k] = d /\ k # LOOP
    BY <1>2, <1>6, <1>7, <1>26
  <2>2. f.at \notin {"item", "leave"}
    BY <1>12
  <2> QED
    BY <1>12, <1>28, <2>1, <2>2 DEF Link
<1>31. Scoped(Past, s, start.vars)
  BY <1>4, <1>17, <1>24, <1>25, ScopedCons
<1>32. brk' \in BOOLEAN /\ lost' \in [Obj -> Nat]
  BY <1>3, <1>11
<1> QED
  BY <1>2, <1>11, <1>12, <1>14, <1>15, <1>16, <1>18, <1>19, <1>20, <1>21, <1>22, <1>23, <1>29,
     <1>30, <1>31, <1>32, Topped

-----------------------------------------------------------------------------
(* The destructors.  What is dying is nowhere: not in a cell, not on the   *)
(* stack, and not env->vars.                                               *)
LEMMA Nowhere ==
  ASSUME IInv, NEW o \in Obj, Dying(heap, o)
  PROVE  /\ heap.rc[o] = 0 /\ heap.kind[o] # "none" /\ o # VARS
         /\ \A c \in Obj, s \in Slot : heap.cell[c][s] # o
<1>1. heap.rc[o] = 0 /\ heap.kind[o] # "none" /\ o # VARS
  BY Ledger DEF Dying
<1>2. Cells(heap, o) \in Nat /\ heap.rc[o] >= Cells(heap, o)
  BY Ledger, CellsNat
<1>3. ~(Cells(heap, o) > 0)
  BY <1>1, <1>2
<1> QED
  BY <1>1, <1>3, CellCounted

(* A step that keeps the books and touches neither the stack nor env->vars.*)
LEMMA Tidied ==
  ASSUME Running, UNCHANGED <<num, brk, errors, stack, lost>>,
         heap' \in HeapType, Shaped(heap'), Sound(heap', num, stack),
         heap'.cell[VARS] = heap.cell[VARS],
         \A o \in Obj : Slack(heap', o) = Slack(heap, o)
  PROVE  IInv'
<1>1. IInv
  BY DEF Running
<1>2. TypeOK'
  BY <1>1 DEF Running, IInv, TypeOK, rendering
<1>3. Control'
  <2>1. stack # << >> => Bound(heap', Head(stack))
    BY <1>1 DEF IInv, Control, Bound
  <2> QED
    BY <1>1, <2>1 DEF Running, rendering, IInv, Control, Failed
<1>4. Books'
  <2>1. hold \in [Obj -> Nat] /\ hold' = hold /\ hold = HostHold
    BY <1>1 DEF Running, IInv, TypeOK, Books
  <2>2. \A o \in Obj : Slack(heap', o) = hold[o] + Held(stack, o) + lost[o]
    BY <1>1, <2>1, Ledger, ExactSlack
  <2>3. Exact(heap', stack, lost)
    BY <1>1, <2>1, <2>2, Ledger, ExactSlack
  <2> QED
    BY <2>1, <2>3 DEF Books, Exact
<1>5. Phases'
  BY <1>1 DEF Running, rendering, IInv, Phases
<1>6. Scopes'
  BY <1>1 DEF Running, rendering, IInv, Scopes, Agrees, Failed
<1> QED
  BY <1>1, <1>2, <1>3, <1>4, <1>5, <1>6 DEF Running, IInv, NoLoopItem

LEMMA FreeKeeps ==
  ASSUME Running, UNCHANGED <<num, brk, errors, stack, lost>>, NEW o \in Obj, Dying(heap, o),
         heap.cell[o] = EmptyCells, heap' = Free(heap, o)
  PROVE  IInv'
<1>1. IInv /\ heap \in HeapType /\ Shaped(heap)
  BY Ledger DEF Running
<1>2. heap.rc[o] = 0 /\ o # VARS
  BY <1>1, Nowhere
<1>3. /\ heap' \in HeapType
      /\ heap'.kind = [heap.kind EXCEPT ![o] = "none"]
      /\ heap'.rc = heap.rc /\ heap'.cell = heap.cell
      /\ heap'.len = [heap.len EXCEPT ![o] = 0]
  BY <1>1, FreeHeap
<1>4. /\ heap.kind \in [Obj -> Kind] /\ heap.len \in [Obj -> 0 .. MaxLen]
  BY <1>1, Parts
<1>5. Shaped(heap')
  <2>1. heap'.kind[VARS] = "hmap"
    BY <1>1, <1>2, <1>3, <1>4, TheVars DEF Shaped
  <2>2. ASSUME NEW p \in Obj, heap'.kind[p] = "none"
        PROVE  heap'.rc[p] = 0 /\ heap'.cell[p] = EmptyCells
    <3>1. CASE p = o
      BY <1>2, <1>3, <3>1
    <3>2. CASE p # o
      <4>1. heap.kind[p] = "none"
        BY <1>3, <1>4, <2>2, <3>2
      <4> QED
        BY <1>1, <1>3, <4>1 DEF Shaped
    <3> QED
      BY <3>1, <3>2
  <2>3. ASSUME NEW p \in Obj, heap'.kind[p] = "vector", heap'.rc[p] > 0, NEW i \in 1 .. heap'.len[p]
        PROVE  heap'.cell[p][i] # NULL
    <3>1. p # o
      BY <1>2, <1>3, <2>3
    <3>2. heap.kind[p] = "vector" /\ heap.rc[p] > 0 /\ heap'.len[p] = heap.len[p]
      BY <1>3, <1>4, <2>3, <3>1
    <3> QED
      BY <1>1, <1>3, <2>3, <3>2 DEF Shaped
  <2>4. ASSUME NEW p \in Obj, NEW s \in Slot PROVE heap'.cell[p][s] # VARS
    BY <1>1, <1>3 DEF Shaped
  <2> QED
    BY <2>1, <2>2, <2>3, <2>4 DEF Shaped
<1>6. Sound(heap', num, stack)
  <2>1. \A p \in Obj \ {VARS} : heap.kind[p] \in {"vector", "hmap"} /\ heap.rc[p] > 0 =>
          heap'.kind[p] = heap.kind[p] /\ heap'.cell[p] = heap.cell[p]
    BY <1>2, <1>3, <1>4
  <2>2. stack \in Seq(Frame) /\ Sound(heap, num, stack)
        /\ \A p \in Obj : heap.rc[p] \in Nat /\ heap.rc[p] >= Held(stack, p)
    BY <1>1, Ledger DEF IInv, Control
  <2> QED
    BY <2>1, <2>2, SoundKept
<1>7. ASSUME NEW p \in Obj PROVE Slack(heap', p) = Slack(heap, p)
  <2>1. Cells(heap', p) = Cells(heap, p)
    BY <1>3, SameCells DEF Cells
  <2> QED
    BY <1>3, <2>1 DEF Slack
<1>8. heap'.cell[VARS] = heap.cell[VARS]
  BY <1>3
<1> QED
  BY <1>3, <1>5, <1>6, <1>7, <1>8, Tidied

LEMMA ReapKeeps ==
  ASSUME Running, UNCHANGED <<num, brk, errors, stack, lost>>, NEW o \in Obj, Dying(heap, o),
         NEW s \in Slot, heap.cell[o][s] # NULL, heap' = Reap(heap, o, s)
  PROVE  IInv'
<1>1. IInv /\ heap \in HeapType /\ Shaped(heap)
  BY Ledger DEF Running
<1>2. heap.rc[o] = 0 /\ heap.kind[o] # "none" /\ o # VARS
  BY <1>1, Nowhere
<1>3. PICK v : v = heap.cell[o][s]
  OBVIOUS
<1>4. /\ heap' \in HeapType /\ heap'.kind = heap.kind /\ heap'.len = heap.len
      /\ heap'.cell = [heap.cell EXCEPT ![o] = [heap.cell[o] EXCEPT ![s] = NULL]]
      /\ \A p \in Obj :
           /\ heap'.rc[p] = heap.rc[p] - One(v, p)
           /\ Cells(heap', p) = Cells(heap, p) - One(v, p)
  BY <1>1, <1>3, ReapHeap
<1>5. heap.cell \in [Obj -> [Slot -> Obj \cup {NULL}]] /\ VARS \notin {NULL}
  BY <1>1, Parts, TheVars
<1>6. v \in Obj /\ heap.rc[v] > 0 /\ heap.kind[v] # "none"
  <2>1. v \in Obj
    BY <1>3, <1>5
  <2>2. Cells(heap, v) > 0
    BY <1>1, <1>3, <2>1, InCell
  <2>3. heap.rc[v] \in Nat /\ heap.rc[v] >= Cells(heap, v) /\ Cells(heap, v) \in Nat
        /\ (heap.rc[v] > 0 => heap.kind[v] # "none")
    BY <1>1, <2>1, Ledger, CellsNat
  <2> QED
    BY <2>1, <2>2, <2>3
<1>7. \A p \in Obj \ {o} : heap'.cell[p] = heap.cell[p]
  BY <1>4, <1>5
<1>8. \A p \in Obj : heap.rc[p] \in Nat /\ One(v, p) \in {0, 1} /\ (p # v => One(v, p) = 0)
  BY <1>1, Ledger, Ones
<1>9. Shaped(heap')
  <2>1. heap'.kind[VARS] = "hmap"
    BY <1>1, <1>4 DEF Shaped
  <2>2. ASSUME NEW p \in Obj, heap'.kind[p] = "none"
        PROVE  heap'.rc[p] = 0 /\ heap'.cell[p] = EmptyCells
    <3>1. p # o /\ p # v /\ heap.rc[p] = 0 /\ heap.cell[p] = EmptyCells
      BY <1>1, <1>2, <1>4, <1>6, <2>2 DEF Shaped
    <3>2. heap'.rc[p] = 0
      BY <1>4, <1>8, <3>1
    <3> QED
      BY <1>7, <3>1, <3>2
  <2>3. ASSUME NEW p \in Obj, heap'.kind[p] = "vector", heap'.rc[p] > 0, NEW i \in 1 .. heap'.len[p]
        PROVE  heap'.cell[p][i] # NULL
    <3>1. heap.rc[p] > 0
      BY <1>4, <1>8, <2>3
    <3>2. p # o
      BY <1>2, <3>1
    <3> QED
      BY <1>1, <1>4, <1>7, <2>3, <3>1, <3>2 DEF Shaped
  <2>4. ASSUME NEW p \in Obj, NEW t \in Slot PROVE heap'.cell[p][t] # VARS
    <3>1. CASE p # o
      BY <1>1, <1>7, <3>1 DEF Shaped
    <3>2. CASE p = o
      <4>1. heap'.cell[o][t] = IF t = s THEN NULL ELSE heap.cell[o][t]
        BY <1>4, <1>5
      <4>2. heap.cell[o][t] # VARS
        BY <1>1 DEF Shaped
      <4> QED
        BY <1>5, <3>2, <4>1, <4>2
    <3> QED
      BY <3>1, <3>2
  <2> QED
    BY <2>1, <2>2, <2>3, <2>4 DEF Shaped
<1>10. Sound(heap', num, stack)
  <2>1. \A p \in Obj \ {VARS} : heap.kind[p] \in {"vector", "hmap"} /\ heap.rc[p] > 0 =>
          heap'.kind[p] = heap.kind[p] /\ heap'.cell[p] = heap.cell[p]
    BY <1>2, <1>4, <1>7
  <2>2. stack \in Seq(Frame) /\ Sound(heap, num, stack)
        /\ \A p \in Obj : heap.rc[p] \in Nat /\ heap.rc[p] >= Held(stack, p)
    BY <1>1, Ledger DEF IInv, Control
  <2> QED
    BY <2>1, <2>2, SoundKept
<1>11. ASSUME NEW p \in Obj PROVE Slack(heap', p) = Slack(heap, p)
  <2>1. heap.rc[p] \in Int /\ Cells(heap, p) \in Int /\ One(v, p) \in Int
    BY <1>1, Counts, Ones
  <2> QED
    BY <1>4, <2>1 DEF Slack
<1>12. heap'.cell[VARS] = heap.cell[VARS]
  BY <1>2, <1>7, TheVars
<1> QED
  BY <1>4, <1>9, <1>10, <1>11, <1>12, Tidied

LEMMA DestructKeeps == ASSUME Running, NEW o \in Obj, Destruct(o) PROVE IInv'
<1>1. Dying(heap, o) /\ UNCHANGED <<num, brk, errors, stack, lost>>
  BY DEF Destruct
<1>2. CASE heap.cell[o] = EmptyCells /\ heap' = Free(heap, o)
  BY <1>1, <1>2, FreeKeeps
<1>3. CASE \E s \in Slot : heap.cell[o][s] # NULL /\ heap' = Reap(heap, o, s)
  BY <1>1, <1>3, ReapKeeps
<1> QED
  BY <1>2, <1>3 DEF Destruct

(* Every step of the evaluator.                                            *)
LEMMA EvaluateKeeps == ASSUME Running, Evaluate PROVE IInv'
<1>1. ASSUME EndSubblocks \/ Content \/ Variable \/ Break \/ Extends \/ TBlock PROVE IInv'
  BY <1>1, EndSubblocksKeeps, ContentKeeps, VariableKeeps, BreakKeeps, ExtendsKeeps, TBlockKeeps
<1>2. ASSUME If \/ Else \/ Test \/ EndBranch PROVE IInv'
  BY <1>2, IfKeeps, ElseKeeps, TestKeeps, EndBranchKeeps
<1>3. ASSUME For \/ ForFails \/ Bind \/ Exhausted \/ Unbind PROVE IInv'
  BY <1>3, ForKeeps, ForFailsKeeps, BindKeeps, ExhaustedKeeps, UnbindKeeps
<1>4. ASSUME RestoreLoop \/ RestoreItem \/ Leave PROVE IInv'
  BY <1>4, RestoreLoopKeeps, RestoreItemKeeps, LeaveKeeps
<1>5. ASSUME NEW o \in Obj, Destruct(o) PROVE IInv'
  BY <1>5, DestructKeeps
<1> QED
  BY <1>1, <1>2, <1>3, <1>4, <1>5 DEF Evaluate

-----------------------------------------------------------------------------
(* The host, and eval_template around the evaluation: the stack is empty.  *)
LEMMA NothingHeld ==
  ASSUME NEW h, NEW n
  PROVE  Sound(h, n, << >>) /\ << >> \in Seq(Frame)
BY Empty DEF Sound

LEMMA BooksKept ==
  ASSUME IInv, NEW h \in HeapType, \A o \in Obj : Slack(h, o) = Slack(heap, o)
  PROVE  Exact(h, stack, lost) /\ hold = HostHold
<1>1. /\ heap \in HeapType /\ hold \in [Obj -> Nat] /\ lost \in [Obj -> Nat]
      /\ stack \in Seq(Frame) /\ Exact(heap, stack, lost)
  BY Ledger
<1>2. \A o \in Obj : Slack(heap, o) = hold[o] + Held(stack, o) + lost[o]
  BY <1>1, ExactSlack
<1>3. Exact(h, stack, lost)
  BY <1>1, <1>2, ExactSlack
<1> QED
  BY <1>3 DEF IInv, Books

LEMMA BetweenCalls ==
  ASSUME IInv, Trail', mode \in {"idle", "load"}, stack' = stack, lost' = lost, num' = num,
         brk' = brk, hold' = hold, renders' \in 0 .. MaxRenders,
         load' \in {NULL} \cup [name : Tmpl, child : Tmpl \cup {NULL}],
         mode' \in {"idle", "load", "crashed"}, errors' \in Nat,
         heap' \in HeapType, Shaped(heap'),
         \A o \in Obj : Slack(heap', o) = Slack(heap, o),
         start' \in [vars : Scope, clean : BOOLEAN, errors : Nat], errors' >= start'.errors,
         mode' = "idle" => start' = Idle,
         mode' = "load" => start'.vars = heap'.cell[VARS] /\ errors' = start'.errors
  PROVE  IInv'
<1>1. stack = << >>
  BY DEF IInv, Phases
<1>2. TypeOK'
  BY DEF IInv, TypeOK, Trail
<1>3. Control'
  BY <1>1, NothingHeld DEF Control
<1>4. Books'
  <2>1. Exact(heap', stack, lost) /\ hold = HostHold
    BY BooksKept
  <2> QED
    BY <2>1 DEF Books, Exact
<1>5. Phases'
  BY <1>1 DEF Phases
<1>6. Scopes'
  BY DEF Scopes
<1> QED
  BY <1>2, <1>3, <1>4, <1>5, <1>6 DEF IInv, NoLoopItem

LEMMA IdleStart == Idle \in [vars : Scope, clean : BOOLEAN, errors : Nat] /\ Idle.errors = 0
<1>1. EmptyCells \in Scope
  BY DEF EmptyCells, Scope
<1> QED
  BY <1>1 DEF Idle

LEMMA VariableLives ==
  ASSUME IInv, NEW k \in Slot, NEW v \in Obj, heap.cell[VARS][k] = v
  PROVE  heap.rc[v] > 0 /\ heap.kind[v] # "none"
<1>1. /\ heap \in HeapType /\ heap.rc[v] \in Nat /\ heap.rc[v] >= Cells(heap, v)
      /\ heap.rc[v] > 0 => heap.kind[v] # "none"
  BY Ledger
<1>2. Cells(heap, v) > 0
  BY TheVars, CellCounted
<1>3. Cells(heap, v) \in Nat
  BY CellsNat
<1> QED
  BY <1>1, <1>2, <1>3

LEMMA UnsetVarKeeps ==
  ASSUME IInv, Trail', NEW kv \in HostVar, UnsetVar(kv[1])
  PROVE  IInv'
<1>1. kv[1] \in Slot
  BY HostAssumption, TheVars
<1>2. PICK k \in Slot : k = kv[1]
  BY <1>1
<1>3. mode = "idle" /\ heap' = HmapUnsets(heap, VARS, k)
      /\ UNCHANGED <<rendering, num, hold, templates, brk, errors, stack, out, renders, lost>>
  BY <1>2 DEF UnsetVar, HostTurn
<1>4. heap \in HeapType /\ Shaped(heap) /\ errors \in Nat
  BY Ledger
<1>5. heap' \in HeapType /\ Shaped(heap') /\ \A o \in Obj : Slack(heap', o) = Slack(heap, o)
  <2>1. Same(heap, heap') /\ \A o \in Obj : Slack(heap', o) = Slack(heap, o)
    BY <1>3, <1>4, UnsetsSlack
  <2>2. ASSUME heap.cell[VARS][k] \in Obj PROVE heap.kind[heap.cell[VARS][k]] # "none"
    BY <2>2, VariableLives
  <2>3. Shaped(heap')
    BY <1>3, <1>4, <2>2, UnsetsShape
  <2> QED
    BY <2>1, <2>3 DEF Same
<1>6. /\ start' \in [vars : Scope, clean : BOOLEAN, errors : Nat] /\ start' = Idle
      /\ load' \in {NULL} \cup [name : Tmpl, child : Tmpl \cup {NULL}]
      /\ mode' = "idle" /\ renders' \in 0 .. MaxRenders /\ errors' \in Nat
      /\ errors' >= start'.errors
  BY <1>3 DEF IInv, TypeOK, Phases, rendering
<1> QED
  BY <1>3, <1>5, <1>6, BetweenCalls

LEMMA SetVarKeeps ==
  ASSUME IInv, Trail', NEW kv \in HostVar, SetVar(kv[1], kv[2])
  PROVE  IInv'
<1>1. kv[1] \in Slot /\ kv[2] \in Obj \ {VARS}
  BY HostAssumption, TheVars
<1>2. PICK k \in Slot : k = kv[1]
  BY <1>1
<1>3. PICK v \in Obj \ {VARS} : v = kv[2]
  BY <1>1
<1>4. PICK h : h = HmapSets(heap, VARS, k, v)
  OBVIOUS
<1>5. PICK w : w = heap.cell[VARS][k]
  OBVIOUS
<1>6. mode = "idle" /\ heap' = Unref(h, w) /\ hold[v] > 0 /\ Quiet(heap)
      /\ UNCHANGED <<rendering, num, hold, templates, brk, errors, stack, out, renders, lost>>
  BY <1>2, <1>3, <1>4, <1>5 DEF SetVar, HostTurn, HmapGets
<1>7. /\ heap \in HeapType /\ Shaped(heap) /\ errors \in Nat /\ hold \in [Obj -> Nat]
      /\ \A o \in Obj : /\ heap.rc[o] \in Nat /\ heap.rc[o] >= hold[o]
                        /\ heap.rc[o] >= Cells(heap, o)
                        /\ heap.rc[o] > 0 => heap.kind[o] # "none"
                        /\ heap.kind[o] # "none" => heap.rc[o] > 0
  BY <1>6, Ledger
<1>8. /\ Same(heap, h)
      /\ h.cell[VARS] = [heap.cell[VARS] EXCEPT ![k] = v]
      /\ \A o \in Obj : h.rc[o] = heap.rc[o] + One(v, o)
                        /\ Slack(h, o) = Slack(heap, o) + One(w, o)
  BY <1>4, <1>5, <1>7, SetsSlack
<1>9. h \in HeapType
  BY <1>8 DEF Same
<1>10. /\ Same(h, heap') /\ heap'.cell = h.cell
       /\ \A o \in Obj : heap'.rc[o] = h.rc[o] - One(w, o)
                         /\ Slack(heap', o) = Slack(h, o) - One(w, o)
  BY <1>6, <1>9, UnrefSlack
<1>11. Same(heap, heap')
  BY <1>7, <1>8, <1>10, SameAgain
<1>12. ASSUME NEW o \in Obj
       PROVE  /\ Slack(heap', o) = Slack(heap, o)
              /\ heap'.rc[o] = heap.rc[o] + One(v, o) - One(w, o)
  <2>1. Slack(heap, o) \in Int /\ One(w, o) \in Int /\ One(v, o) \in Int /\ heap.rc[o] \in Int
    BY <1>7, Counts, Ones
  <2> QED
    BY <1>8, <1>10, <2>1
<1>13. v \in Obj /\ heap.rc[v] > 0 /\ heap.kind[v] # "none"
  <2>1. heap.rc[v] \in Nat /\ heap.rc[v] >= hold[v] /\ hold[v] \in Nat
    BY <1>3, <1>7
  <2> QED
    BY <1>3, <1>6, <1>7, <2>1
<1>14. w \in Obj => heap.rc[w] > 0 /\ heap.kind[w] # "none"
  BY <1>5, VariableLives
<1>15. Shaped(heap')
  <2>1. ASSUME NEW o \in Obj, heap.kind[o] = "none" PROVE heap'.rc[o] = heap.rc[o]
    <3>1. One(v, o) = 0 /\ One(w, o) = 0
      BY <1>13, <1>14, <2>1, Ones
    <3> QED
      BY <1>7, <1>12, <3>1
  <2>2. ASSUME NEW o \in Obj, heap.kind[o] = "vector" PROVE heap.rc[o] > 0
    BY <1>7, <2>2
  <2>3. ASSUME NEW s \in Slot PROVE heap'.cell[VARS][s] # VARS
    <3>1. heap.cell[VARS] \in [Slot -> Obj \cup {NULL}]
      BY <1>7, Parts, TheVars
    <3>2. heap'.cell[VARS][s] = IF s = k THEN v ELSE heap.cell[VARS][s]
      BY <1>8, <1>10, <3>1
    <3>3. heap.cell[VARS][s] # VARS
      BY <1>7, TheVars DEF Shaped
    <3> QED
      BY <1>3, <3>2, <3>3
  <2> QED
    BY <1>7, <1>11, <2>1, <2>2, <2>3, ShapeKept
<1>16. heap' \in HeapType
  BY <1>11 DEF Same
<1>17. /\ start' \in [vars : Scope, clean : BOOLEAN, errors : Nat] /\ start' = Idle
       /\ load' \in {NULL} \cup [name : Tmpl, child : Tmpl \cup {NULL}]
       /\ mode' = "idle" /\ renders' \in 0 .. MaxRenders /\ errors' \in Nat
       /\ errors' >= start'.errors
  BY <1>6 DEF IInv, TypeOK, Phases, rendering
<1> QED
  BY <1>6, <1>12, <1>15, <1>16, <1>17, BetweenCalls

LEMMA HostKeeps ==
  ASSUME IInv, Trail', Host
  PROVE  IInv'
<1>1. heap \in HeapType /\ Shaped(heap) /\ errors \in Nat
      /\ load \in {NULL} \cup [name : Tmpl, child : Tmpl \cup {NULL}]
      /\ renders \in 0 .. MaxRenders
      /\ start \in [vars : Scope, clean : BOOLEAN, errors : Nat]
      /\ (mode = "idle" => start = Idle)
  BY Ledger DEF IInv, TypeOK, Phases
<1>2. CASE \E kv \in HostVar : SetVar(kv[1], kv[2]) \/ UnsetVar(kv[1])
  BY <1>2, SetVarKeeps, UnsetVarKeeps
<1>3. CASE TakeErrors
  <2>1. mode = "idle" /\ mode' = "idle" /\ errors' = 0 /\ heap' = heap /\ start' = start
        /\ UNCHANGED <<load, num, hold, brk, stack, renders, lost>>
    BY <1>3 DEF TakeErrors, HostTurn, rendering
  <2>2. errors' >= start'.errors /\ start' = Idle
    BY <1>1, <2>1, IdleStart
  <2> QED
    BY <1>1, <2>1, <2>2, BetweenCalls
<1>4. ASSUME NEW t \in Tmpl, StartRender(t) PROVE IInv'
  <2>1. /\ mode = "idle" /\ mode' = "load" /\ load' = [name |-> t, child |-> NULL]
        /\ renders' = renders + 1 /\ renders < MaxRenders
        /\ start' = [vars |-> heap.cell[VARS], clean |-> errors = 0 /\ ~brk, errors |-> errors]
        /\ UNCHANGED <<heap, num, hold, brk, errors, stack, lost>>
    BY <1>4 DEF StartRender, HostTurn
  <2>2. heap.cell[VARS] \in Scope
    BY <1>1, Parts, TheVars DEF Scope
  <2>3. /\ start' \in [vars : Scope, clean : BOOLEAN, errors : Nat]
        /\ start'.vars = heap'.cell[VARS] /\ start'.errors = errors'
    <3>1. PICK w \in Scope : w = heap.cell[VARS]
      BY <2>2
    <3>2. PICK c \in BOOLEAN : c = (errors = 0 /\ ~brk)
      OBVIOUS
    <3>3. start' = [vars |-> w, clean |-> c, errors |-> errors]
      BY <2>1, <3>1, <3>2
    <3> QED
      BY <1>1, <2>1, <3>1, <3>3
  <2>4. renders' \in 0 .. MaxRenders
    BY <1>1, <2>1, RenderAssumption
  <2>5. load' \in [name : Tmpl, child : Tmpl \cup {NULL}]
    BY <2>1
  <2> QED
    BY <1>1, <2>1, <2>3, <2>4, <2>5, BetweenCalls
<1> QED
  BY <1>2, <1>3, <1>4 DEF Host

LEMMA LookupKeeps ==
  ASSUME IInv, Trail', Lookup, UNCHANGED <<hold, templates, renders>>
  PROVE  IInv'
<1> DEFINE b == Head(templates[load.name].blocks)
           bs == templates[load.name].blocks
<1>1. /\ mode = "load" /\ templates[load.name] # NULL /\ bs # << >> /\ Enter
      /\ IF b.t = "extends"
         THEN load' = [name |-> b.parent, child |-> load.name] /\ UNCHANGED <<mode, stack>>
         ELSE mode' = "eval" /\ stack' = <<Sub(bs)>> /\ UNCHANGED load
      /\ UNCHANGED <<heap, num, brk, errors, out, start, lost>>
  BY DEF Lookup
<1>2. load.name \in Tmpl /\ templates \in Projects
  BY <1>1 DEF IInv, Trail, Climbing
<1>3. bs \in Seq(Pieces) /\ (b.t = "extends" => b.parent \in Tmpl)
  BY <1>1, <1>2, TemplateParts DEF Inherits, Parent
<1>4. /\ heap \in HeapType /\ Shaped(heap) /\ errors \in Nat /\ num \in [Obj -> Int]
      /\ load \in {NULL} \cup [name : Tmpl, child : Tmpl \cup {NULL}]
      /\ renders \in 0 .. MaxRenders /\ brk \in BOOLEAN /\ lost \in [Obj -> Nat]
      /\ hold \in [Obj -> Nat] /\ stack = << >>
      /\ start \in [vars : Scope, clean : BOOLEAN, errors : Nat]
      /\ start.vars = heap.cell[VARS] /\ errors = start.errors
  BY <1>1, Ledger DEF IInv, TypeOK, Phases
<1> HIDE DEF b, bs
<1>5. CASE b.t = "extends"
  <2>1. load' \in [name : Tmpl, child : Tmpl \cup {NULL}] /\ mode' = "load" /\ stack' = stack
    BY <1>1, <1>2, <1>3, <1>5
  <2>2. start'.vars = heap'.cell[VARS] /\ errors' = start'.errors /\ errors' >= start'.errors
    BY <1>1, <1>4
  <2> QED
    BY <1>1, <1>4, <2>1, <2>2, BetweenCalls
<1>6. CASE b.t # "extends"
  <2> DEFINE f == Sub(bs)
  <2>1. f \in Frame /\ f.fn = "subblocks"
    BY <1>3, SubFrame
  <2> HIDE DEF f
  <2>2. stack' = <<f>> \o << >> /\ mode' = "eval" /\ load' = load
    <3>1. stack' = <<f>>
      BY <1>1, <1>6 DEF f
    <3>2. <<f>> = <<f>> \o << >>
      OBVIOUS
    <3> QED
      BY <1>1, <1>6, <3>1, <3>2
  <2>3. /\ stack' \in Seq(Frame) /\ Head(stack') = f /\ Tail(stack') = << >>
    BY <2>1, <2>2, Empty, Consed
  <2>4. TypeOK'
    BY <1>1, <1>4, <2>2, <2>3 DEF TypeOK, Trail
  <2>5. ~Failed'
    BY <1>1, <1>4 DEF Failed
  <2>6. Control'
    <3>1. FrameSound(heap', num', f) /\ Bound(heap', f)
      BY <2>1, PlainSub
    <3>2. Sound(heap', num', << >>) /\ Resting(<< >>)
      BY Empty, NothingHeld DEF Resting
    <3>3. Sound(heap', num', stack')
      BY <2>1, <2>2, <3>1, <3>2, Empty, SoundCons
    <3> QED
      BY <2>3, <2>5, <3>1, <3>2, <3>3 DEF Control
  <2>7. Books'
    <3>1. \A o \in Obj : Held(stack', o) = Held(stack, o)
      <4>1. ASSUME NEW o \in Obj PROVE Held(stack', o) = 0 + Held(<< >>, o)
        <5>1. << >> \in Seq(Frame) /\ Weight(f, o) = 0
          BY <2>1, NothingHeld, WeightSub
        <5>2. Held(<<f>> \o << >>, o) = Weight(f, o) + Held(<< >>, o)
          BY <2>1, <5>1, HeldCons
        <5> QED
          BY <2>2, <5>1, <5>2
      <4> QED
        BY <1>4, <4>1, HeldNothing
    <3>2. Exact(heap, stack, lost) /\ hold = HostHold
      BY DEF IInv, Books
    <3>3. Exact(heap, stack', lost)
      BY <3>1, <3>2 DEF Exact
    <3> QED
      BY <1>1, <1>4, <3>2, <3>3 DEF Books, Exact
  <2>8. Phases'
    BY <1>1, <1>4, <2>2 DEF Phases
  <2>9. Scopes'
    <3>1. PICK s \in Scope : s = start.vars
      BY <1>4
    <3>2. Scoped(<< >>, s, s) /\ Link(f, s, s)
      BY <2>1, PlainSub, ScopedNone
    <3>3. Scoped(stack', s, s)
      BY <2>1, <2>2, <3>2, Empty, ScopedCons
    <3>4. Agrees(s)'
      BY <1>1, <1>4, <3>1, AgreesNow
    <3> QED
      BY <1>1, <3>1, <3>3, <3>4 DEF Scopes
  <2> QED
    BY <2>4, <2>6, <2>7, <2>8, <2>9 DEF IInv, NoLoopItem
<1> QED
  BY <1>5, <1>6

(* The evaluation stops where it stands: for good, or it had ended.        *)
LEMMA Stopped ==
  ASSUME IInv, Trail', UNCHANGED <<heap, num, hold, renders, brk, stack, lost>>,
         mode = "eval", mode' \in {"idle", "crashed", "overflow"}, errors' \in Nat,
         load' \in {NULL} \cup [name : Tmpl, child : Tmpl \cup {NULL}],
         start' \in [vars : Scope, clean : BOOLEAN, errors : Nat], errors' >= start'.errors,
         mode' = "idle" => stack = << >> /\ start' = Idle
  PROVE  IInv'
<1>1. TypeOK'
  BY DEF IInv, TypeOK, Trail
<1>2. Control'
  BY DEF IInv, Control, Bound
<1>3. Books'
  BY DEF IInv, Books, Exact
<1>4. Phases'
  BY DEF Phases
<1>5. Scopes'
  BY DEF Scopes
<1> QED
  BY <1>1, <1>2, <1>3, <1>4, <1>5 DEF IInv, NoLoopItem

LEMMA EvalKeeps ==
  ASSUME IInv, Trail', Eval
  PROVE  IInv'
<1>1. UNCHANGED <<hold, templates, renders>>
  BY DEF Eval
<1>2. /\ heap \in HeapType /\ Shaped(heap) /\ errors \in Nat
      /\ load \in {NULL} \cup [name : Tmpl, child : Tmpl \cup {NULL}]
      /\ renders \in 0 .. MaxRenders
      /\ start \in [vars : Scope, clean : BOOLEAN, errors : Nat]
      /\ errors >= start.errors
  BY Ledger DEF IInv, TypeOK, Phases
<1>3. CASE Missing
  <2>1. /\ mode = "load" /\ mode' = "idle" /\ load' = NULL /\ start' = Idle /\ errors' = errors + 1
        /\ UNCHANGED <<heap, num, brk, stack, lost>>
    BY <1>3 DEF Missing, Finish, Fail
  <2>2. errors' \in Nat /\ errors' >= start'.errors
        /\ start' \in [vars : Scope, clean : BOOLEAN, errors : Nat]
    BY <1>2, <2>1, IdleStart
  <2> QED
    BY <1>1, <1>2, <2>1, <2>2, BetweenCalls
<1>4. CASE Lookup
  BY <1>1, <1>4, LookupKeeps
<1>5. CASE LookupEmpty
  <2>1. mode = "load" /\ mode' = "crashed"
        /\ UNCHANGED <<heap, num, brk, errors, load, stack, start, lost>>
    BY <1>5 DEF LookupEmpty
  <2> QED
    BY <1>1, <1>2, <2>1, BetweenCalls
<1>6. CASE Return
  <2>1. /\ mode = "eval" /\ stack = << >> /\ mode' = "idle" /\ load' = NULL /\ start' = Idle
        /\ UNCHANGED <<heap, num, brk, errors, stack, lost>>
    BY <1>6 DEF Return, Done, Finish
  <2>2. start' \in [vars : Scope, clean : BOOLEAN, errors : Nat] /\ errors' >= start'.errors
    BY <1>2, <2>1, IdleStart
  <2> QED
    BY <1>1, <1>2, <2>1, <2>2, Stopped
<1>7. CASE TestFails
  <2>1. /\ mode = "eval" /\ mode' = "crashed" /\ errors' = errors + 1
        /\ UNCHANGED <<heap, num, brk, load, stack, start, lost>>
    BY <1>7 DEF TestFails, Deciding, In, Evaluating, Fail
  <2>2. start.errors \in Nat
    BY <1>2
  <2>3. errors' \in Nat /\ errors' >= start'.errors
    BY <1>2, <2>1, <2>2
  <2> QED
    BY <1>1, <1>2, <2>1, <2>3, Stopped
<1>8. CASE Overflow \/ PrintOverflows \/ PrintMoves
  <2>1. mode = "eval" /\ mode' \in {"overflow", "crashed"}
        /\ UNCHANGED <<heap, num, brk, errors, load, stack, start, lost>>
    BY <1>8 DEF Overflow, PrintOverflows, PrintMoves, At, In, Evaluating
  <2> QED
    BY <1>1, <1>2, <2>1, Stopped
<1>9. CASE Evaluate
  BY <1>1, <1>9, EvaluateKeeps DEF Running, Evaluate
<1> QED
  BY <1>3, <1>4, <1>5, <1>6, <1>7, <1>8, <1>9 DEF Eval

LEMMA StepKeeps == IInv /\ [Next]_vars => IInv'
<1> SUFFICES ASSUME IInv, [Next]_vars PROVE IInv'
  OBVIOUS
<1>1. Trail'
  BY TrailNext DEF IInv
<1>2. CASE Host
  BY <1>1, <1>2, HostKeeps
<1>3. CASE Eval
  BY <1>1, <1>3, EvalKeeps
<1>4. CASE UNCHANGED vars
  <2>1. TypeOK'
    BY <1>4 DEF IInv, TypeOK, vars
  <2>2. Control'
    BY <1>4 DEF IInv, Control, Bound, Failed, vars
  <2>3. Books' /\ Phases'
    BY <1>4 DEF IInv, Books, Exact, Phases, vars
  <2>4. Scopes'
    BY <1>4 DEF IInv, Scopes, Agrees, Failed, vars
  <2> QED
    BY <1>1, <2>1, <2>2, <2>3, <2>4 DEF IInv, NoLoopItem
<1> QED
  BY <1>2, <1>3, <1>4 DEF Next

LEMMA StartKeeps == NoLoopItem /\ Init => IInv
<1> SUFFICES ASSUME NoLoopItem, Init PROVE IInv
  OBVIOUS
<1>1. /\ heap = HostHeap /\ hold = HostHold /\ num = HostNum
      /\ stack = << >> /\ mode = "idle" /\ start = Idle /\ errors = 0
      /\ child = [t \in Tmpl |-> NULL] /\ evalTmpl = NULL /\ brk = FALSE /\ load = NULL
      /\ renders = 0 /\ lost = [o \in Obj |-> 0]
  BY DEF Init
<1>2. TypeOK
  <2>1. renders \in 0 .. MaxRenders
    BY <1>1, RenderAssumption
  <2>2. stack \in Seq(Frame)
    BY <1>1, Empty
  <2> QED
    BY <1>1, <2>1, <2>2, HostAssumption DEF TypeOK
<1>3. Trail
  BY TrailInit
<1>4. Control
  BY <1>1, NothingHeld DEF Control
<1>5. Books
  <2>1. Shaped(HostHeap)
    <3>1. ASSUME NEW o \in Obj, HostHeap.kind[o] = "none"
          PROVE  HostHeap.rc[o] = 0 /\ HostHeap.cell[o] = EmptyCells
      BY <3>1, HostAssumption
    <3>2. ASSUME NEW o \in Obj, HostHeap.kind[o] = "vector", NEW i \in 1 .. HostHeap.len[o]
          PROVE  HostHeap.cell[o][i] # NULL
      BY <3>2, HostAssumption
    <3>3. ASSUME NEW o \in Obj, NEW s \in Slot PROVE HostHeap.cell[o][s] # VARS
      <4>1. CellsOf(HostHeap, VARS) = {}
        BY HostAssumption
      <4>2. <<o, s>> \notin CellsOf(HostHeap, VARS)
        BY <4>1
      <4> QED
        BY <4>2 DEF CellsOf
    <3>4. HostHeap.kind[VARS] = "hmap"
      BY HostAssumption
    <3> QED
      BY <3>1, <3>2, <3>3, <3>4 DEF Shaped
  <2>2. ASSUME NEW o \in Obj
        PROVE  HostHeap.rc[o] = HostHold[o] + Cells(HostHeap, o) + Held(<< >>, o) + lost[o]
    <3>1. HostHeap.rc[o] = HostHold[o] + Cells(HostHeap, o)
      BY HostAssumption DEF Cells
    <3>2. Held(<< >>, o) = 0 /\ lost[o] = 0 /\ HostHold[o] \in Nat /\ Cells(HostHeap, o) \in Nat
      BY <1>1, HeldNothing, HostAssumption, CellsNat
    <3> QED
      BY <3>1, <3>2
  <2> QED
    BY <1>1, <2>1, <2>2 DEF Books, Exact
<1>6. Phases
  BY <1>1, IdleStart DEF Phases
<1>7. Scopes
  BY <1>1 DEF Scopes
<1> QED
  BY <1>2, <1>3, <1>4, <1>5, <1>6, <1>7 DEF IInv

LEMMA InvariantHolds == NoLoopItem /\ Spec => []IInv
<1>1. NoLoopItem /\ Init => IInv
  BY StartKeeps
<1>2. IInv /\ [Next]_vars => IInv'
  BY StepKeeps
<1> QED
  BY <1>1, <1>2, PTL DEF Spec

-----------------------------------------------------------------------------
(* The frames of the stack, the heap and the counters stay what they are:  *)
(* a block is always one of the templates', and what is counted is natural.*)
THEOREM TypeCorrect == NoLoopItem /\ Spec => []TypeOK
<1>1. IInv => TypeOK
  BY DEF IInv
<1> QED
  BY <1>1, InvariantHolds, PTL

(* Every count is the number of owners, and of references that were lost,  *)
(* whatever the templates, the objects and the nesting of the loops.       *)
THEOREM CountsAreOwners == NoLoopItem /\ Spec => []RefAccounting
<1>1. IInv => RefAccounting
  <2> SUFFICES ASSUME IInv, NEW o \in Obj PROVE heap.rc[o] = Owners(o) + lost[o]
    BY DEF RefAccounting, IInv
  <2>1. heap.rc[o] = hold[o] + Cells(heap, o) + Held(stack, o) + lost[o]
    BY DEF IInv, Books, Exact
  <2> QED
    BY <2>1 DEF Owners, Cells, Held, Local
<1> QED
  BY <1>1, InvariantHolds, PTL

(* What a frame that a loop is resting on, or is at work on, borrows.      *)
LEMMA BorrowedIsCelled ==
  ASSUME IInv, NEW f \in Frame, f.fn = "loop", FrameSound(heap, num, f),
         Holds(f, "seq", f.seq), Waiting(f) \/ Bound(heap, f),
         NEW o \in Borrowed(f) \cap Obj
  PROVE  Holds(f, "outeritem", o) \/ \E c \in Obj, s \in Slot : heap.cell[c][s] = o
<1>1. CASE f.at # "leave" /\ o = f.outeritem
  <2>1. CASE f.owned
    BY <1>1, <2>1 DEF Holds
  <2>2. CASE ~f.owned
    <3>1. f.at # "unbind"
      BY <2>2 DEF FrameSound
    <3>2. Bound(heap, f)
      BY <3>1 DEF Waiting
    <3>3. f.at \in {"bind", "loop", "item"} /\ f.item \in Slot
      BY <1>1, <3>1, TheVars, LoopFields
    <3>4. heap.cell[VARS][f.item] = o
      BY <1>1, <2>2, <3>2, <3>3 DEF Bound
    <3> QED
      BY <3>3, <3>4, TheVars
  <2> QED
    BY <2>1, <2>2
<1>2. CASE f.at \in {"bind", "unbind"} /\ o \in Ahead(f)
  <2>1. f.seq \in Obj /\ heap.kind[f.seq] \in {"vector", "hmap"}
        /\ (heap.kind[f.seq] = "hmap" => f.iter \subseteq Keys(heap, f.seq))
        /\ num[f.indexv] >= 0
    BY <1>2 DEF FrameSound
  <2>2. PICK s \in IF heap.kind[f.seq] = "vector" THEN num[f.indexv] + 1 .. heap.len[f.seq]
                   ELSE f.iter : o = heap.cell[f.seq][s]
    BY <1>2 DEF Ahead
  <2>3. s \in Slot
    <3>1. CASE heap.kind[f.seq] = "vector"
      <4>1. s \in num[f.indexv] + 1 .. heap.len[f.seq]
        BY <2>2, <3>1
      <4>2. heap.len[f.seq] \in 0 .. MaxLen /\ MaxLen \in Nat
        <5>1. heap \in HeapType
          BY Ledger
        <5> QED
          BY <2>1, <5>1, Parts, HeapAssumption
      <4>3. num[f.indexv] \in Int
        BY Ledger, LoopFields
      <4>4. s \in 1 .. MaxLen
        BY <2>1, <4>1, <4>2, <4>3
      <4> QED
        BY <4>4 DEF Slot
    <3>2. CASE heap.kind[f.seq] # "vector"
      BY <2>1, <2>2, <3>2, TheVars DEF Keys
    <3> QED
      BY <3>1, <3>2
  <2> QED
    BY <2>1, <2>2, <2>3
<1> QED
  BY <1>1, <1>2 DEF Borrowed

(* No object dies while anything owns it, or while a function on the stack *)
(* is still going to touch it, those included that eval_loop has only      *)
(* borrowed: the items ahead, and the item of an empty sequence's loop.    *)
THEOREM NothingDangles == NoLoopItem /\ Spec => []NoDangling
<1>1. IInv => NoDangling
  <2> SUFFICES ASSUME IInv PROVE NoDangling
    OBVIOUS
  <2>1. \A o \in Obj :
          /\ heap.rc[o] \in Nat /\ heap.rc[o] >= Cells(heap, o)
          /\ heap.rc[o] >= Held(stack, o)
          /\ heap.rc[o] > 0 => heap.kind[o] # "none"
    BY Ledger
  <2>2. ASSUME NEW o \in Obj, Owners(o) > 0
        PROVE  Live(heap, o) /\ heap.kind[o] # "none"
    <3>1. heap.rc[o] = hold[o] + Cells(heap, o) + Held(stack, o) + lost[o] /\ lost[o] \in Nat
      BY Ledger DEF Exact
    <3>2. Owners(o) = hold[o] + Cells(heap, o) + Held(stack, o)
      BY DEF Owners, Cells, Held, Local
    <3>3. hold[o] \in Nat /\ Cells(heap, o) \in Nat /\ Held(stack, o) \in Nat
      BY Ledger, CellsNat, HeldFinite
    <3>4. heap.rc[o] > 0
      BY <2>2, <3>1, <3>2, <3>3
    <3> QED
      BY <2>1, <3>4 DEF Live
  <2>3. ASSUME NEW i \in DOMAIN stack, NEW o \in Borrowed(stack[i]) \cap Obj
        PROVE  Live(heap, o)
    <3> DEFINE f == stack[i]
    <3>1. stack \in Seq(Frame) /\ f \in Frame
      <4>1. stack \in Seq(Frame)
        BY Ledger
      <4> QED
        BY <4>1, LenProperties
    <3>2. f.fn = "loop" /\ FrameSound(heap, num, f)
      BY DEF Borrowed, IInv, Control, Sound
    <3>3. Waiting(f) \/ Bound(heap, f)
      <4>1. stack # << >> /\ Head(stack) = stack[1] /\ i \in 1 .. Len(stack)
        BY <3>1, Split, LenProperties
      <4>2. Bound(heap, Head(stack)) /\ Resting(Tail(stack))
        BY <4>1 DEF IInv, Control
      <4>3. CASE i = 1
        BY <4>1, <4>2, <4>3
      <4>4. CASE i # 1
        <5>1. /\ Len(Tail(stack)) = Len(stack) - 1 /\ Tail(stack) \in Seq(Frame)
              /\ \A j \in 1 .. Len(Tail(stack)) : Tail(stack)[j] = stack[j + 1]
          BY <3>1, <4>1, HeadTailProperties
        <5>2. Len(stack) \in Nat /\ DOMAIN Tail(stack) = 1 .. Len(Tail(stack))
          BY <3>1, <5>1, LenProperties
        <5>3. i - 1 \in 1 .. Len(Tail(stack)) /\ (i - 1) + 1 = i
          BY <4>1, <4>4, <5>1, <5>2
        <5>4. Tail(stack)[i - 1] = f
          BY <5>1, <5>3
        <5> QED
          BY <4>2, <5>2, <5>3, <5>4 DEF Resting
      <4> QED
        BY <4>3, <4>4
    <3>4. Holds(f, "seq", f.seq)
      BY <3>2 DEF Holds
    <3>5. Holds(f, "outeritem", o) \/ \E c \in Obj, s \in Slot : heap.cell[c][s] = o
      <4> HIDE DEF f
      <4>1. o \in Borrowed(f) \cap Obj
        BY DEF f
      <4> QED
        BY <3>1, <3>2, <3>3, <3>4, <4>1, BorrowedIsCelled
    <3>6. CASE Holds(f, "outeritem", o)
      <4>1. "outeritem" \in Locals
        BY DEF Locals
      <4>2. Held(stack, o) > 0 /\ Held(stack, o) \in Nat
        BY <3>1, <3>6, <4>1, HeldSome, HeldFinite
      <4> QED
        BY <2>1, <4>2 DEF Live
    <3>7. CASE \E c \in Obj, s \in Slot : heap.cell[c][s] = o
      <4>1. Cells(heap, o) > 0 /\ Cells(heap, o) \in Nat
        BY <3>7, CellCounted, CellsNat
      <4> QED
        BY <2>1, <4>1 DEF Live
    <3> QED
      BY <3>5, <3>6, <3>7
  <2> QED
    BY <2>2, <2>3 DEF NoDangling
<1> QED
  BY <1>1, InvariantHolds, PTL

(* A render leaves env->vars as it found it, however deep its loops and    *)
(* however they were left, but for the "loop" that a failing sequence      *)
(* leaves behind.                                                          *)
THEOREM VarsAreRestored == NoLoopItem /\ Spec => []ScopeRestored
<1>1. IInv => ScopeRestored
  <2> SUFFICES ASSUME IInv, Done, NEW k \in Key
               PROVE  HmapGets(heap, VARS, k) = start.vars[k]
                      \/ (k = LOOP /\ errors > start.errors)
    BY DEF ScopeRestored
  <2>1. mode = "eval" /\ stack = << >>
    BY DEF Done
  <2>2. PICK s \in Scope : Scoped(<< >>, s, start.vars) /\ Agrees(s)
    BY <2>1 DEF IInv, Scopes
  <2>3. s = start.vars
    BY <2>2, ScopedNone
  <2>4. k \in Slot
    BY TheVars
  <2> QED
    BY <2>2, <2>3, <2>4 DEF Agrees, Failed, HmapGets
<1> QED
  BY <1>1, InvariantHolds, PTL

-----------------------------------------------------------------------------
(***************************************************************************)
(* A break ends one loop, when every break is in a loop.                   *)
(***************************************************************************)
BreaksInLoops == \A p \in Projects : \E ps \in SUBSET Pieces : Outside(p, ps)

-----------------------------------------------------------------------------
(* What the running render may evaluate outside of loops.                  *)
Outer == CHOOSE ps \in SUBSET Pieces : Outside(templates, ps)

(* What a frame has still to evaluate by itself.                           *)
Plain(f, ps) ==
  /\ f.fn = "subblocks" => f.rest \in Seq(ps)
  /\ f.fn = "branch" => f.branches \in Seq(Choices(ps))

Looped(st) == \E i \in DOMAIN st : st[i].fn = "loop"

(* A frame that no loop has called evaluates only what is outside of them. *)
Unlooped(st, ps) ==
  \A i \in DOMAIN st : Plain(st[i], ps) \/ \E j \in DOMAIN st : i <= j /\ st[j].fn = "loop"

(* A break is on its way to the loop it ends: no function between has      *)
(* anything left to do.                                                    *)
Breaking == errors = 0 /\ Waiting(Top) /\ Looped(stack)

BInv ==
  /\ start.clean => start.errors = 0
  /\ mode = "load" /\ start.clean => ~brk
  /\ mode = "eval" => Unlooped(stack, Outer)
  /\ mode = "eval" /\ start.clean /\ brk => Breaking

-----------------------------------------------------------------------------
LEMMA OuterHolds ==
  ASSUME BreaksInLoops, IInv
  PROVE  Outside(templates, Outer) /\ Outer \subseteq Pieces
<1>1. templates \in Projects
  BY DEF IInv, Trail
<1> QED
  BY <1>1 DEF BreaksInLoops, Outer

LEMMA LoopedCons ==
  ASSUME NEW A, NEW f \in A, NEW s \in Seq(A)
  PROVE  Looped(<<f>> \o s) <=> f.fn = "loop" \/ Looped(s)
<1> DEFINE t == <<f>> \o s
<1>1. /\ DOMAIN s = 1 .. Len(s) /\ DOMAIN t = 1 .. Len(s) + 1 /\ Len(s) \in Nat
      /\ t[1] = f /\ \A i \in 1 .. Len(s) : t[i + 1] = s[i]
  BY Consed
<1> SUFFICES Looped(t) <=> f.fn = "loop" \/ Looped(s)
  OBVIOUS
<1> HIDE DEF t
<1>2. ASSUME NEW i \in 1 .. Len(s) + 1, i # 1
      PROVE  i - 1 \in 1 .. Len(s) /\ t[i] = s[i - 1]
  <2>1. i - 1 \in 1 .. Len(s) /\ (i - 1) + 1 = i
    BY <1>1, <1>2
  <2> QED
    BY <1>1, <2>1
<1>3. ASSUME NEW i \in 1 .. Len(s) PROVE i + 1 \in 1 .. Len(s) + 1 /\ t[i + 1] = s[i]
  BY <1>1
<1>4. 1 \in 1 .. Len(s) + 1
  BY <1>1
<1>5. ASSUME Looped(t) PROVE f.fn = "loop" \/ Looped(s)
  BY <1>1, <1>2, <1>5 DEF Looped
<1>6. ASSUME f.fn = "loop" \/ Looped(s) PROVE Looped(t)
  BY <1>1, <1>3, <1>4, <1>6 DEF Looped
<1> QED
  BY <1>5, <1>6

LEMMA UnloopedCons ==
  ASSUME NEW A, NEW f \in A, NEW s \in Seq(A), NEW ps
  PROVE  Unlooped(<<f>> \o s, ps) <=>
           Unlooped(s, ps) /\ (Plain(f, ps) \/ f.fn = "loop" \/ Looped(s))
<1> DEFINE t == <<f>> \o s
<1>1. /\ DOMAIN s = 1 .. Len(s) /\ DOMAIN t = 1 .. Len(s) + 1 /\ Len(s) \in Nat
      /\ t[1] = f /\ \A i \in 1 .. Len(s) : t[i + 1] = s[i]
  BY Consed
<1>0. Looped(t) <=> f.fn = "loop" \/ Looped(s)
  BY LoopedCons
<1> SUFFICES Unlooped(t, ps) <=>
               Unlooped(s, ps) /\ (Plain(f, ps) \/ f.fn = "loop" \/ Looped(s))
  OBVIOUS
<1> HIDE DEF t
<1>2. ASSUME NEW i \in 1 .. Len(s) + 1, i # 1
      PROVE  i - 1 \in 1 .. Len(s) /\ t[i] = s[i - 1]
  <2>1. i - 1 \in 1 .. Len(s) /\ (i - 1) + 1 = i
    BY <1>1, <1>2
  <2> QED
    BY <1>1, <2>1
<1>3. ASSUME NEW i \in 1 .. Len(s) PROVE i + 1 \in 1 .. Len(s) + 1 /\ t[i + 1] = s[i]
  BY <1>1
<1>4. 1 \in 1 .. Len(s) + 1
  BY <1>1
<1>5. ASSUME Unlooped(t, ps) PROVE Unlooped(s, ps)
  <2> SUFFICES ASSUME NEW i \in 1 .. Len(s), ~Plain(s[i], ps)
               PROVE  \E j \in 1 .. Len(s) : i <= j /\ s[j].fn = "loop"
    BY <1>1 DEF Unlooped
  <2>1. PICK j \in 1 .. Len(s) + 1 : i + 1 <= j /\ t[j].fn = "loop"
    BY <1>1, <1>3, <1>5 DEF Unlooped
  <2>2. j # 1 /\ i <= j - 1
    BY <2>1
  <2> QED
    BY <1>2, <2>1, <2>2
<1>6. ASSUME Unlooped(t, ps) PROVE Plain(f, ps) \/ f.fn = "loop" \/ Looped(s)
  <2>1. Plain(t[1], ps) \/ Looped(t)
    BY <1>1, <1>4, <1>6 DEF Unlooped, Looped
  <2> QED
    BY <1>0, <1>1, <2>1
<1>7. ASSUME Unlooped(s, ps), Plain(f, ps) \/ f.fn = "loop" \/ Looped(s)
      PROVE  Unlooped(t, ps)
  <2> SUFFICES ASSUME NEW i \in 1 .. Len(s) + 1, ~Plain(t[i], ps)
               PROVE  \E j \in 1 .. Len(s) + 1 : i <= j /\ t[j].fn = "loop"
    BY <1>1 DEF Unlooped
  <2>1. CASE i = 1
    <3>1. Looped(t)
      BY <1>0, <1>1, <1>7, <2>1
    <3>2. PICK j \in 1 .. Len(s) + 1 : t[j].fn = "loop"
      BY <1>1, <3>1 DEF Looped
    <3> QED
      BY <2>1, <3>2
  <2>2. CASE i # 1
    <3>1. i - 1 \in 1 .. Len(s) /\ t[i] = s[i - 1]
      BY <1>2, <2>2
    <3>2. PICK j \in 1 .. Len(s) : i - 1 <= j /\ s[j].fn = "loop"
      BY <1>1, <1>7, <3>1 DEF Unlooped
    <3>3. j + 1 \in 1 .. Len(s) + 1 /\ t[j + 1] = s[j] /\ i <= j + 1
      BY <1>3, <3>2
    <3> QED
      BY <3>2, <3>3
  <2> QED
    BY <2>1, <2>2
<1> QED
  BY <1>5, <1>6, <1>7

LEMMA NoneLooped ==
  ASSUME NEW ps
  PROVE  ~Looped(<< >>) /\ Unlooped(<< >>, ps)
BY DEF Looped, Unlooped

-----------------------------------------------------------------------------
(* What the top frame may evaluate.                                        *)
LEMMA TopPlain ==
  ASSUME IInv, BInv, Evaluating
  PROVE  /\ Unlooped(Tail(stack), Outer)
         /\ Plain(Top, Outer) \/ Top.fn = "loop" \/ Looped(Tail(stack))
         /\ Looped(stack) <=> Top.fn = "loop" \/ Looped(Tail(stack))
<1>1. Top \in Frame /\ Tail(stack) \in Seq(Frame) /\ stack = <<Top>> \o Tail(stack)
  BY Opened
<1>2. Unlooped(stack, Outer)
  BY DEF BInv, Evaluating
<1>3. Unlooped(<<Top>> \o Tail(stack), Outer) /\ (Looped(stack) <=> Looped(<<Top>> \o Tail(stack)))
  BY <1>1, <1>2
<1>4. Looped(<<Top>> \o Tail(stack)) <=> Top.fn = "loop" \/ Looped(Tail(stack))
  BY <1>1, LoopedCons
<1>5. Unlooped(<<Top>> \o Tail(stack), Outer) <=>
        /\ Unlooped(Tail(stack), Outer)
        /\ (Plain(Top, Outer) \/ Top.fn = "loop" \/ Looped(Tail(stack)))
  BY <1>1, UnloopedCons
<1> QED
  BY <1>3, <1>4, <1>5

(* While a break is on its way, functions return and the loop ends.        *)
LEMMA Waited ==
  ASSUME IInv, BInv, Evaluating, start.clean, brk
  PROVE  /\ Breaking
         /\ Top.fn = "subblocks" => Stop
         /\ Top.fn = "branch" => Top.branches = << >>
         /\ Top.fn = "loop" => Top.at = "unbind"
<1>1. Breaking
  BY DEF BInv, Evaluating
<1> QED
  BY <1>1 DEF Breaking, Waiting, Stop

(* A step after which no break is on its way.                              *)
LEMMA Unbroken ==
  ASSUME IInv, BInv, mode = "eval", UNCHANGED <<mode, start, templates>>,
         start.clean => ~brk', Unlooped(stack', Outer)
  PROVE  BInv'
<1>1. Outer' = Outer
  BY DEF Outer
<1> QED
  BY <1>1 DEF BInv

(* A function returns: whoever called it is waiting.                       *)
LEMMA Pops ==
  ASSUME IInv, BInv, Evaluating, Top.fn # "loop", stack' = Tail(stack),
         UNCHANGED <<mode, start, templates, brk, errors>>
  PROVE  BInv'
<1>1. Unlooped(stack', Outer)
  BY TopPlain
<1>2. CASE start.clean /\ brk
  <2>1. Breaking /\ Looped(stack')
    BY <1>2, Waited, TopPlain DEF Breaking
  <2>2. stack' \in Seq(Frame) /\ Resting(stack') /\ stack' # << >>
    BY <2>1, Opened, NoneLooped
  <2>3. Head(stack') = stack'[1] /\ 1 \in DOMAIN stack'
    <3> DEFINE r == Tail(stack)
    <3>1. r \in Seq(Frame) /\ r # << >>
      BY <2>2
    <3> HIDE DEF r
    <3>2. Head(r) = r[1] /\ Len(r) \in Nat /\ Len(r) # 0 /\ DOMAIN r = 1 .. Len(r)
      BY <3>1, Split, EmptySeq, LenProperties
    <3>3. Head(r) = r[1] /\ 1 \in DOMAIN r
      BY <3>2
    <3> QED
      BY <3>3 DEF r
  <2>4. Waiting(Head(stack'))
    BY <2>2, <2>3 DEF Resting
  <2>5. Breaking'
    BY <2>1, <2>4 DEF Breaking, Top
  <2>6. Outer' = Outer
    BY DEF Outer
  <2> QED
    BY <1>1, <2>5, <2>6 DEF BInv
<1>3. CASE ~(start.clean /\ brk)
  BY <1>1, <1>3, Unbroken DEF Evaluating
<1> QED
  BY <1>2, <1>3

(* The frame on top does something, or calls someone.                      *)
LEMMA Pushes ==
  ASSUME IInv, BInv, Evaluating, NEW f \in Frame,
         Plain(f, Outer) \/ f.fn = "loop" \/ Looped(Tail(stack)),
         \/ stack' = <<f>> \o Tail(stack)
         \/ \E g :
              /\ Plain(g, Outer) \/ g.fn = "loop" \/ f.fn = "loop" \/ Looped(Tail(stack))
              /\ stack' = <<g>> \o (<<f>> \o Tail(stack)),
         UNCHANGED <<mode, start, templates>>, start.clean => ~brk'
  PROVE  BInv'
<1>1. Tail(stack) \in Seq(Frame) /\ Unlooped(Tail(stack), Outer)
  BY Opened, TopPlain
<1> DEFINE r == Tail(stack)
           s == <<f>> \o r
<1>2. s \in Seq(Frame)
  BY <1>1, Consed
<1>3. Unlooped(s, Outer) /\ (Looped(s) <=> f.fn = "loop" \/ Looped(r))
  BY <1>1, UnloopedCons, LoopedCons
<1>4. Unlooped(stack', Outer)
  <2>1. CASE stack' = s
    BY <1>3, <2>1
  <2>2. CASE stack' # s
    <3>1. PICK g :
            /\ Plain(g, Outer) \/ g.fn = "loop" \/ f.fn = "loop" \/ Looped(r)
            /\ stack' = <<g>> \o s
      BY <2>2
    <3> HIDE DEF s
    <3>2. Plain(g, Outer) \/ g.fn = "loop" \/ Looped(s)
      BY <1>3, <3>1
    <3>3. s \in Seq(Frame \cup {g})
      BY <1>2
    <3>4. Unlooped(<<g>> \o s, Outer)
      BY <1>3, <3>2, <3>3, UnloopedCons
    <3> QED
      BY <3>1, <3>4
  <2> QED
    BY <2>1, <2>2
<1> QED
  BY <1>4, Unbroken DEF Evaluating

-----------------------------------------------------------------------------
(* The steps of the evaluation.                                            *)
Moving == IInv /\ BInv /\ BreaksInLoops /\ UNCHANGED rendering /\ UNCHANGED templates

(* eval_subblocks is at a block, which may be outside of loops or not.     *)
LEMMA AtBlock ==
  ASSUME Moving, In("subblocks"), Top.rest # << >>, ~Stop
  PROVE  LET p == [Top EXCEPT !.rest = Tail(@), !.first = FALSE] IN
         /\ p \in Frame /\ p.fn = "subblocks" /\ ~p.first
         /\ Past = <<p>> \o Tail(stack)
         /\ Plain(p, Outer) \/ Looped(Tail(stack))
         /\ Cur \in Outer \/ Looped(Tail(stack))
         /\ start.clean => ~brk
<1> DEFINE p == [Top EXCEPT !.rest = Tail(@), !.first = FALSE]
<1>1. IInv /\ BInv /\ Evaluating /\ Top.fn = "subblocks"
  BY DEF Moving, In
<1>2. p \in Frame /\ p.fn = "subblocks" /\ ~p.first /\ Past = <<p>> \o Tail(stack)
  BY <1>1, InSubblocks
<1>3. start.clean => ~brk
  BY <1>1, Waited
<1>4. ASSUME ~Looped(Tail(stack)) PROVE Plain(p, Outer) /\ Cur \in Outer
  <2>1. Top.rest \in Seq(Outer)
    BY <1>1, <1>4, TopPlain DEF Plain
  <2>2. Tail(Top.rest) \in Seq(Outer) /\ Head(Top.rest) \in Outer
    BY <2>1, Split
  <2>3. Top \in [fn : {"subblocks"}, rest : Seq(Pieces), first : BOOLEAN]
    BY <1>1, Opened DEF Frame
  <2>4. p.rest = Tail(Top.rest)
    BY <2>3
  <2> QED
    BY <1>2, <2>2, <2>4 DEF Plain, Cur
<1> QED
  BY <1>2, <1>3, <1>4

LEMMA GoesOnUnbroken ==
  ASSUME Moving, In("subblocks"), Top.rest # << >>, ~Stop, stack' = Past, brk' = brk
  PROVE  BInv'
<1>1. IInv /\ BInv /\ Evaluating /\ UNCHANGED <<mode, start, templates>>
  BY DEF Moving, In, rendering
<1>2. PICK p \in Frame :
        /\ Past = <<p>> \o Tail(stack)
        /\ Plain(p, Outer) \/ Looped(Tail(stack))
  BY AtBlock
<1>3. start.clean => ~brk
  BY AtBlock
<1> QED
  BY <1>1, <1>2, <1>3, Pushes

LEMMA CallsUnbroken ==
  ASSUME Moving, In("subblocks"), Top.rest # << >>, ~Stop, brk' = brk,
         NEW g, stack' = <<g>> \o Past,
         Plain(g, Outer) \/ g.fn = "loop" \/ Looped(Tail(stack))
  PROVE  BInv'
<1>1. IInv /\ BInv /\ Evaluating /\ UNCHANGED <<mode, start, templates>>
  BY DEF Moving, In, rendering
<1>2. PICK p \in Frame :
        /\ Past = <<p>> \o Tail(stack)
        /\ Plain(p, Outer) \/ Looped(Tail(stack))
  BY AtBlock
<1>3. start.clean => ~brk
  BY AtBlock
<1>4. stack' = <<g>> \o (<<p>> \o Tail(stack))
  BY <1>2
<1> QED
  BY <1>1, <1>2, <1>3, <1>4, Pushes

(* A break outside of loops is in no template.                             *)
LEMMA BreakUnbroken == ASSUME Moving, Break PROVE BInv'
<1>1. /\ In("subblocks") /\ Top.rest # << >> /\ ~Stop /\ Cur.t = "break"
      /\ stack' = Past /\ brk' = TRUE /\ errors' = errors
  BY DEF Break, At, Cur
<1>2. IInv /\ BInv /\ Evaluating /\ UNCHANGED <<mode, start, templates>> /\ Top.fn = "subblocks"
  BY <1>1 DEF Moving, In, rendering
<1>3. PICK p \in Frame :
        /\ p.fn = "subblocks" /\ ~p.first
        /\ Past = <<p>> \o Tail(stack)
        /\ Plain(p, Outer) \/ Looped(Tail(stack))
  BY <1>1, AtBlock
<1>4. Cur \notin Outer
  BY <1>1, <1>2, OuterHolds DEF Outside, Moving
<1>5. Looped(Tail(stack))
  BY <1>1, <1>4, AtBlock
<1>6. Tail(stack) \in Seq(Frame) /\ Unlooped(Tail(stack), Outer)
  BY <1>2, Opened, TopPlain
<1>7. Unlooped(<<p>> \o Tail(stack), Outer) /\ Looped(<<p>> \o Tail(stack))
  BY <1>5, <1>6, UnloopedCons, LoopedCons
<1>8. Head(<<p>> \o Tail(stack)) = p
  BY <1>6, Consed
<1>9. Unlooped(stack', Outer) /\ Looped(stack') /\ Head(stack') = p
  BY <1>1, <1>3, <1>7, <1>8
<1>10. ASSUME start.clean PROVE errors = 0
  <2>1. errors \in Nat /\ start.errors = 0
    BY <1>2, <1>10 DEF IInv, TypeOK, BInv
  <2>2. ~(errors > start.errors)
    BY <1>1, <1>2, NotFailed DEF Failed
  <2> QED
    BY <2>1, <2>2
<1>11. Waiting(p)
  BY <1>3 DEF Waiting
<1>12. start.clean => Breaking'
  BY <1>1, <1>9, <1>10, <1>11 DEF Breaking, Top
<1>13. Outer' = Outer
  BY <1>2 DEF Outer
<1>14. mode = "eval" /\ mode' = mode /\ start' = start
  BY <1>2 DEF Evaluating
<1>15. BInv
  BY <1>2
<1> QED
  BY <1>9, <1>12, <1>13, <1>14, <1>15 DEF BInv

LEMMA IfUnbroken == ASSUME Moving, If PROVE BInv'
<1>1. In("subblocks") /\ Top.rest # << >> /\ ~Stop /\ Cur.t = "if"
  BY DEF If, At, Cur
<1>2. IInv
  BY DEF Moving
<1>3. Cur \in Pieces
  BY <1>1, <1>2, InSubblocks
<1>4. Cur.branches \in Seq(Choices(Pieces))
  BY <1>1, <1>3, TemplateAssumption DEF WellFormed
<1> DEFINE g == Alternatives(Cur.branches)
<1>5. g \in Frame /\ g.fn = "branch" /\ g.branches = Cur.branches
  BY <1>4 DEF Alternatives, Frame
<1>6. stack' = <<g>> \o Past /\ brk' = brk
  BY DEF If, Call
<1>7. Plain(g, Outer) \/ Looped(Tail(stack))
  <2>1. CASE Cur \in Outer
    <3>1. Cur.branches \in Seq(Choices(Outer))
      BY <1>1, <1>2, <2>1, OuterHolds DEF Outside, Moving
    <3> QED
      BY <1>5, <3>1 DEF Plain
  <2>2. CASE Cur \notin Outer
    BY <1>1, <2>2, AtBlock
  <2> QED
    BY <2>1, <2>2
<1> HIDE DEF g
<1> QED
  BY <1>1, <1>5, <1>6, <1>7, CallsUnbroken

LEMMA TBlockUnbroken == ASSUME Moving, TBlock PROVE BInv'
<1>1. In("subblocks") /\ Top.rest # << >> /\ ~Stop /\ Cur.t = "block"
  BY DEF TBlock, At, Cur
<1>2. IInv /\ Trail /\ mode = "eval"
  BY <1>1 DEF Moving, IInv, In, Evaluating
<1>3. Cur \in Pieces
  BY <1>1, <1>2, InSubblocks
<1>4. Cur.name \in Block /\ Cur.body \in Seq(Pieces)
  BY <1>1, <1>3, TemplateAssumption DEF WellFormed
<1> DEFINE t == Descendant[Furthest(Cur.name)]
           body == IF Overriding(Cur.name) = {} THEN Cur.body
                   ELSE templates[t].tblocks[Cur.name]
<1>5. Overriding(Cur.name) # {} =>
        t \in Tmpl /\ templates[t] # NULL /\ templates[t].tblocks[Cur.name] # NULL
  BY <1>2, <1>4, Overrider
<1>6. stack' = <<Sub(body)>> \o Past /\ brk' = brk
  BY DEF TBlock, Call
<1> HIDE DEF t
<1>7. body \in Seq(Pieces)
  <2>1. CASE Overriding(Cur.name) # {}
    <3>1. templates[t].tblocks \in [Block -> Seq(Pieces) \cup {NULL}]
      BY <1>2, <1>5, <2>1, TemplateParts DEF Trail
    <3> QED
      BY <1>4, <1>5, <2>1, <3>1
  <2> QED
    BY <1>4, <2>1
<1>8. Cur \in Outer => body \in Seq(Outer)
  BY <1>1, <1>2, <1>5, OuterHolds DEF Outside, Moving
<1> HIDE DEF body
<1>9. Sub(body) \in Frame
  BY <1>7, SubFrame
<1>10. Plain(Sub(body), Outer) \/ Looped(Tail(stack))
  <2>1. CASE Cur \in Outer
    BY <1>8, <2>1 DEF Plain, Sub
  <2>2. CASE Cur \notin Outer
    BY <1>1, <2>2, AtBlock
  <2> QED
    BY <2>1, <2>2
<1> QED
  BY <1>1, <1>6, <1>9, <1>10, CallsUnbroken

LEMMA ForUnbroken == ASSUME Moving, For PROVE BInv'
<1> DEFINE p == Prologue
           g == Loop(p, Value(p.heap, Cur.seq))
<1>1. In("subblocks") /\ Top.rest # << >> /\ ~Stop /\ brk' = brk /\ stack' = <<g>> \o Past
  BY DEF For, At, Call
<1>2. g.fn = "loop"
  BY DEF Loop
<1> HIDE DEF g
<1> QED
  BY <1>1, <1>2, CallsUnbroken

(* eval_branch has decided.                                                *)
LEMMA DecidesUnbroken ==
  ASSUME Moving, Deciding, NEW v \in Obj \cup Static \cup {NULL}, brk' = brk,
         \/ stack' = Decided(v)
         \/ stack' = <<Sub(Chosen.body)>> \o Decided(v)
         \/ /\ Len(Top.branches) > 1
            /\ stack' = <<Alternatives(Tail(Top.branches))>> \o Decided(v)
  PROVE  BInv'
<1>1. IInv /\ BInv /\ Evaluating /\ UNCHANGED <<mode, start, templates>> /\ Top.fn = "branch"
      /\ Top.branches # << >>
  BY DEF Moving, Deciding, In, rendering
<1> DEFINE d == [Top EXCEPT !.branches = << >>, !.cond = v]
<1>2. d \in Frame /\ d.fn = "branch" /\ d.branches = << >> /\ Decided(v) = <<d>> \o Tail(stack)
  BY <1>1, DecidedFrame
<1> HIDE DEF d
<1>3. Plain(d, Outer)
  BY <1>2 DEF Plain
<1>4. start.clean => ~brk'
  BY <1>1, Waited
<1>5. Plain(Top, Outer) \/ Looped(Tail(stack))
  BY <1>1, TopPlain
<1>6. CASE stack' = Decided(v)
  BY <1>1, <1>2, <1>3, <1>4, <1>6, Pushes
<1>7. ASSUME Plain(Top, Outer)
      PROVE  Chosen.body \in Seq(Outer) /\ Tail(Top.branches) \in Seq(Choices(Outer))
  <2>1. Top.branches \in Seq(Choices(Outer))
    BY <1>1, <1>7 DEF Plain
  <2>2. Head(Top.branches) \in Choices(Outer) /\ Tail(Top.branches) \in Seq(Choices(Outer))
    BY <1>1, <2>1, Split
  <2> QED
    BY <2>2 DEF Chosen, Choices
<1>8. CASE stack' = <<Sub(Chosen.body)>> \o Decided(v)
  <2>1. Plain(Sub(Chosen.body), Outer) \/ Looped(Tail(stack))
    BY <1>5, <1>7 DEF Plain, Sub
  <2> QED
    BY <1>1, <1>2, <1>3, <1>4, <1>8, <2>1, Pushes
<1>9. CASE stack' = <<Alternatives(Tail(Top.branches))>> \o Decided(v)
  <2>1. Plain(Alternatives(Tail(Top.branches)), Outer) \/ Looped(Tail(stack))
    BY <1>5, <1>7 DEF Plain, Alternatives
  <2> QED
    BY <1>1, <1>2, <1>3, <1>4, <1>9, <2>1, Pushes
<1> QED
  BY <1>6, <1>8, <1>9

LEMMA ElseUnbroken == ASSUME Moving, Else PROVE BInv'
<1>1. NULL \in Obj \cup Static \cup {NULL}
  OBVIOUS
<1>2. Deciding /\ brk' = brk /\ stack' = <<Sub(Chosen.body)>> \o Decided(NULL)
  BY DEF Else
<1> QED
  BY <1>1, <1>2, DecidesUnbroken

LEMMA TestUnbroken == ASSUME Moving, Test PROVE BInv'
<1> DEFINE v == Value(heap, Chosen.cond)
<1>1. IInv
  BY DEF Moving
<1>2. Deciding /\ brk' = brk /\ Chosen.cond # NULL
  BY DEF Test
<1>3. Chosen \in Choices(Pieces)
  <2>1. NULL \in Obj \cup Static \cup {NULL}
    OBVIOUS
  <2> QED
    BY <1>1, <1>2, <2>1, DecidedFrame
<1>4. Chosen.cond \in Expression
  BY <1>2, <1>3 DEF Choices
<1>5. v \in Obj \cup Static \cup {NULL}
  <2>1. heap \in HeapType /\ Shaped(heap)
    BY <1>1, Ledger
  <2> QED
    BY <1>4, <2>1, ValueFound
<1>6. \/ stack' = Decided(v)
      \/ stack' = <<Sub(Chosen.body)>> \o Decided(v)
      \/ /\ Len(Top.branches) > 1
         /\ stack' = <<Alternatives(Tail(Top.branches))>> \o Decided(v)
  BY DEF Test
<1> HIDE DEF v
<1> QED
  BY <1>2, <1>5, <1>6, DecidesUnbroken

(* eval_loop: at any place but behind a body there is no break.            *)
LEMMA LoopUnbroken ==
  ASSUME Moving, Evaluating, Top.fn = "loop", start.clean => ~brk',
         NEW f, f.fn = "loop",
         \/ stack' = Tail(stack)
         \/ stack' = <<f>> \o Tail(stack)
         \/ \E g : stack' = <<g>> \o (<<f>> \o Tail(stack))
  PROVE  BInv'
<1>1. IInv /\ BInv /\ mode = "eval" /\ UNCHANGED <<mode, start, templates>>
  BY DEF Moving, Evaluating, rendering
<1>2. Tail(stack) \in Seq(Frame) /\ Unlooped(Tail(stack), Outer)
  BY <1>1, Opened, TopPlain
<1> DEFINE r == Tail(stack)
           s == <<f>> \o r
<1>3. s \in Seq(Frame \cup {f})
  <2>1. r \in Seq(Frame \cup {f})
    BY <1>2
  <2> QED
    BY <2>1, Consed
<1>4. Unlooped(s, Outer) /\ Looped(s)
  <2>1. r \in Seq(Frame \cup {f})
    BY <1>2
  <2> QED
    BY <1>2, <2>1, UnloopedCons, LoopedCons
<1>5. CASE stack' = r
  BY <1>1, <1>2, <1>5, Unbroken
<1>6. CASE stack' = s
  BY <1>1, <1>4, <1>6, Unbroken
<1>7. CASE \E g : stack' = <<g>> \o s
  <2>1. PICK g : stack' = <<g>> \o s
    BY <1>7
  <2> HIDE DEF s
  <2>2. s \in Seq(Frame \cup {f, g})
    BY <1>3
  <2>3. Unlooped(<<g>> \o s, Outer)
    BY <1>4, <2>2, UnloopedCons
  <2> QED
    BY <1>1, <2>1, <2>3, Unbroken
<1> QED
  BY <1>5, <1>6, <1>7

LEMMA TwoInFront ==
  ASSUME NEW A, NEW s \in Seq(A), NEW a, NEW f
  PROVE  <<a, f>> \o s = <<a>> \o (<<f>> \o s)
<1> DEFINE B == A \cup {a, f}
<1>1. s \in Seq(B) /\ <<a>> \in Seq(B) /\ <<f>> \in Seq(B)
  OBVIOUS
<1>2. <<a>> \o <<f>> = <<a, f>>
  <2> DEFINE t == <<a>> \o <<f>>
  <2>1. t \in Seq(B) /\ Len(t) = 2 /\ t[1] = a /\ t[2] = f
    BY ConcatProperties
  <2>2. <<a, f>> \in Seq(B) /\ Len(<<a, f>>) = 2
    OBVIOUS
  <2> HIDE DEF t
  <2>3. \A i \in 1 .. 2 : t[i] = <<a, f>>[i]
    BY <2>1
  <2>4. t = <<a, f>>
    BY <2>1, <2>2, <2>3, SeqEqual
  <2> QED
    BY <2>4 DEF t
<1> HIDE DEF B
<1>3. (<<a>> \o <<f>>) \o s = <<a>> \o (<<f>> \o s)
  BY <1>1, ConcatAssociative
<1> QED
  BY <1>2, <1>3

LEMMA LoopsUnbroken ==
  ASSUME Moving, Bind \/ Exhausted \/ Unbind \/ RestoreLoop \/ RestoreItem \/ Leave
  PROVE  BInv'
<1>1. Evaluating /\ Top.fn = "loop" /\ IInv /\ BInv
  BY DEF Moving, InLoop, In, Bind, Exhausted, Unbind, RestoreLoop, RestoreItem, Leave
<1>2. Top \in Frame /\ Tail(stack) \in Seq(Frame)
  BY <1>1, Opened
<1>3. ASSUME Top.at # "unbind" PROVE start.clean => ~brk
  BY <1>1, <1>3, Waited
<1>4. CASE Bind
  <2> DEFINE f == Under(Top)
  <2>1. /\ stack' = <<Sub(Top.body), f>> \o Tail(stack) /\ brk' = brk /\ Top.at # "unbind"
    BY <1>4 DEF Bind, InLoop, Under
  <2>2. f.fn = "loop"
    BY <1>1, <1>2, UnderBody
  <2> HIDE DEF f
  <2>3. stack' = <<Sub(Top.body)>> \o (<<f>> \o Tail(stack))
    BY <1>2, <2>1, TwoInFront
  <2> QED
    BY <1>1, <1>3, <2>1, <2>2, <2>3, LoopUnbroken
<1>5. ASSUME NEW a, Goto(a), start.clean => ~brk' PROVE BInv'
  <2> DEFINE f == [Top EXCEPT !.at = a]
  <2>1. stack' = <<f>> \o Tail(stack)
    BY <1>5 DEF Goto
  <2>2. f.fn = "loop"
    BY <1>1, <1>2 DEF Frame
  <2> HIDE DEF f
  <2> QED
    BY <1>1, <1>5, <2>1, <2>2, LoopUnbroken
<1>6. CASE Exhausted
  <2>1. Goto("loop") /\ brk' = brk /\ Top.at # "unbind"
    BY <1>6 DEF Exhausted, InLoop
  <2> QED
    BY <1>3, <1>5, <2>1
<1>7. CASE Unbind
  <2>1. Goto("loop") \/ Goto("bind")
    BY <1>7 DEF Unbind
  <2>2. start.clean /\ brk => errors = 0
    BY <1>1, Waited DEF Breaking
  <2>3. brk' = FALSE \/ (brk' = brk /\ (errors > 0 \/ ~brk))
    BY <1>7 DEF Unbind
  <2>4. ~(0 > 0)
    OBVIOUS
  <2>5. start.clean => ~brk'
    BY <2>2, <2>3, <2>4
  <2> QED
    BY <1>5, <2>1, <2>5
<1>8. CASE RestoreLoop
  <2>1. Goto("item") /\ brk' = brk /\ Top.at # "unbind"
    BY <1>8 DEF RestoreLoop, InLoop
  <2> QED
    BY <1>3, <1>5, <2>1
<1>9. CASE RestoreItem
  <2>1. Goto("leave") /\ brk' = brk /\ Top.at # "unbind"
    BY <1>9 DEF RestoreItem, InLoop
  <2> QED
    BY <1>3, <1>5, <2>1
<1>10. CASE Leave
  <2>1. stack' = Tail(stack) /\ brk' = brk /\ Top.at # "unbind"
    BY <1>10 DEF Leave, InLoop
  <2> QED
    BY <1>1, <1>3, <2>1, LoopUnbroken
<1> QED
  BY <1>4, <1>6, <1>7, <1>8, <1>9, <1>10

LEMMA EvaluateUnbroken == ASSUME Moving, Evaluate PROVE BInv'
<1>1. IInv /\ BInv /\ UNCHANGED <<mode, start, templates>>
  BY DEF Moving, rendering
<1>2. CASE EndSubblocks \/ EndBranch
  <2>1. Evaluating /\ Top.fn # "loop" /\ stack' = Tail(stack) /\ brk' = brk /\ errors' = errors
    BY <1>2 DEF EndSubblocks, EndBranch, In
  <2> QED
    BY <1>1, <2>1, Pops
<1>3. CASE Content \/ Variable \/ Extends \/ ForFails
  <2>1. In("subblocks") /\ Top.rest # << >> /\ ~Stop /\ stack' = Past /\ brk' = brk
    BY <1>3 DEF Content, Variable, Extends, ForFails, At
  <2> QED
    BY <2>1, GoesOnUnbroken
<1>4. CASE Break \/ TBlock \/ If \/ For \/ Else \/ Test
  BY <1>4, BreakUnbroken, TBlockUnbroken, IfUnbroken, ForUnbroken, ElseUnbroken, TestUnbroken
<1>5. CASE Bind \/ Exhausted \/ Unbind \/ RestoreLoop \/ RestoreItem \/ Leave
  BY <1>5, LoopsUnbroken
<1>6. CASE \E o \in Obj : Destruct(o)
  <2>1. UNCHANGED <<brk, errors, stack>>
    BY <1>6 DEF Destruct
  <2> QED
    BY <1>1, <2>1 DEF BInv, Breaking, Top, Outer
<1> QED
  BY <1>2, <1>3, <1>4, <1>5, <1>6 DEF Evaluate

(* The first blocks of the template that extends no other.                 *)
LEMMA LookupUnbroken ==
  ASSUME IInv, BInv, BreaksInLoops, Lookup, templates' = templates
  PROVE  BInv'
<1> DEFINE b == Head(templates[load.name].blocks)
           bs == templates[load.name].blocks
<1>1. /\ mode = "load" /\ templates[load.name] # NULL /\ bs # << >>
      /\ IF b.t = "extends" THEN mode' = mode ELSE mode' = "eval" /\ stack' = <<Sub(bs)>>
      /\ UNCHANGED <<brk, errors, start>>
  BY DEF Lookup
<1>2. Outer' = Outer
  BY DEF Outer
<1>3. start.clean => ~brk
  BY <1>1 DEF BInv
<1>4. CASE b.t = "extends"
  BY <1>1, <1>3, <1>4 DEF BInv
<1>5. CASE b.t # "extends"
  <2>1. load.name \in Tmpl
    BY <1>1 DEF IInv, Trail, Climbing
  <2>2. bs \in Seq(Outer)
    BY <1>1, <1>5, <2>1, OuterHolds DEF Outside
  <2>3. Plain(Sub(bs), Outer)
    BY <2>2 DEF Plain, Sub
  <2>4. << >> \in Seq({Sub(bs)})
    OBVIOUS
  <2>5. Unlooped(<<Sub(bs)>> \o << >>, Outer)
    BY <2>3, <2>4, UnloopedCons, NoneLooped
  <2>6. <<Sub(bs)>> \o << >> = <<Sub(bs)>>
    OBVIOUS
  <2>7. stack' = <<Sub(bs)>> /\ mode' = "eval"
    BY <1>1, <1>5
  <2>8. Unlooped(stack', Outer)
    BY <2>5, <2>6, <2>7
  <2> QED
    BY <1>1, <1>2, <1>3, <2>7, <2>8 DEF BInv
<1> QED
  BY <1>4, <1>5

LEMMA StepUnbroken == BreaksInLoops /\ IInv /\ BInv /\ [Next]_vars => BInv'
<1> SUFFICES ASSUME BreaksInLoops, IInv, BInv, [Next]_vars PROVE BInv'
  OBVIOUS
<1>1. CASE Host
  <2>1. ASSUME NEW t \in Tmpl, StartRender(t) PROVE BInv'
    <3>1. mode' = "load" /\ brk' = brk
          /\ start' = [vars |-> heap.cell[VARS], clean |-> errors = 0 /\ ~brk,
                       errors |-> errors]
      BY <2>1 DEF StartRender
    <3>2. start'.clean = (errors = 0 /\ ~brk) /\ start'.errors = errors
      BY <3>1
    <3> QED
      BY <3>1, <3>2 DEF BInv
  <2>2. ASSUME mode' = "idle", start' = start PROVE BInv'
    BY <2>2 DEF BInv
  <2>3. ASSUME TakeErrors \/ \E kv \in HostVar : SetVar(kv[1], kv[2]) \/ UnsetVar(kv[1])
        PROVE  mode' = "idle" /\ start' = start
    BY <2>3 DEF TakeErrors, SetVar, UnsetVar, HostTurn, rendering
  <2> QED
    BY <1>1, <2>1, <2>2, <2>3 DEF Host
<1>2. CASE Eval
  <2>1. templates' = templates
    BY <1>2 DEF Eval
  <2>2. ASSUME Missing \/ Return PROVE BInv'
    <3>1. mode' = "idle" /\ start' = Idle
      BY <2>2 DEF Missing, Return, Finish
    <3>2. Idle.errors = 0
      BY DEF Idle
    <3> QED
      BY <3>1, <3>2 DEF BInv
  <2>3. ASSUME LookupEmpty \/ TestFails \/ Overflow \/ PrintOverflows \/ PrintMoves
        PROVE  BInv'
    <3>1. mode' \in {"crashed", "overflow"} /\ start' = start
      BY <2>3 DEF LookupEmpty, TestFails, Overflow, PrintOverflows, PrintMoves
    <3> QED
      BY <3>1 DEF BInv
  <2>4. ASSUME Evaluate PROVE BInv'
    BY <2>1, <2>4, EvaluateUnbroken DEF Moving, Evaluate
  <2> QED
    BY <1>2, <2>1, <2>2, <2>3, <2>4, LookupUnbroken DEF Eval
<1>3. CASE UNCHANGED vars
  BY <1>3 DEF BInv, Breaking, Top, Outer, vars
<1> QED
  BY <1>1, <1>2, <1>3 DEF Next

-----------------------------------------------------------------------------
(* A break ends the loop it is in and nothing else: no render that starts  *)
(* without one ends with one, whatever is nested, overridden or fails, if  *)
(* no break can be evaluated outside of all loops.                         *)
THEOREM BreakEndsALoop == NoLoopItem /\ BreaksInLoops /\ Spec => []BreakConsumed
<1>1. Init => BInv
  BY DEF Init, Idle, BInv
<1>2. BInv => BreakConsumed
  <2> SUFFICES ASSUME BInv, Done, start.clean, brk PROVE FALSE
    BY DEF BreakConsumed
  <2>1. Breaking /\ stack = << >>
    BY DEF BInv, Done
  <2> QED
    BY <2>1, NoneLooped DEF Breaking
<1>3. (BreaksInLoops /\ BInv) /\ IInv /\ [Next]_vars => (BreaksInLoops /\ BInv)'
  BY StepUnbroken DEF BreaksInLoops
<1> QED
  BY <1>1, <1>2, <1>3, InvariantHolds, PTL DEF Spec
=============================================================================
