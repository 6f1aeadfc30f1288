----------------------------- MODULE ExprProofs -----------------------------
(***************************************************************************)
(* eval_expression is balanced for every expression, every heap a host can *)
(* have built and every width of an integer.  IInv is inductive: it says   *)
(* that only counts change on what the host stored, and that what the      *)
(* evaluator made itself has no cells and, once it is free'd, no owner.    *)
(* Counts alone are not enough, because the address of a new object could  *)
(* still be held by a function.                                            *)
(***************************************************************************)
EXTENDS Expr, ObjectHeapProofs, SequenceTheorems

Frame ==
  {f \in [expr : {x \in Trees : x.op \in Calls}, held : Values] :
     f.expr.op = "LBRACKET" => f.held \in Obj \cup {NULL}}

Leaves == {"IDENT", "INT", "STRING", "TRUE", "FALSE"}

HeldIn(s, o) == {i \in DOMAIN s : s[i].held = o}

(* The references that are on the C stack.                                 *)
Owed(s, v, o) == Cardinality(HeldIn(s, o)) + One(v, o)

Control ==
  /\ stack \in Seq(Frame)
  /\ todo \in Trees \cup {NoExpr}
  /\ todo # NoExpr => ret = NULL
  /\ mode \in {"returned", "released"} => stack = << >> /\ todo = NoExpr
  /\ mode = "returned" => Quiet(heap)
  /\ mode = "released" => ret = NULL

HostSide ==
  /\ heap.cell = HostHeap.cell /\ heap.len = HostHeap.len
  /\ \A o \in Obj :
       /\ heap.rc[o] = HostHeap.rc[o] + Owed(stack, ret, o)
       /\ HostHeap.kind[o] # "none" =>
            heap.kind[o] = HostHeap.kind[o] /\ word[o] = HostWord[o]
       /\ HostHeap.kind[o] = "none" => heap.kind[o] \in {"none", "int", "text"}
       /\ heap.kind[o] = "none" => Owed(stack, ret, o) = 0

IInv == TypeOK /\ Control /\ HostSide

-----------------------------------------------------------------------------
(* Words.                                                                  *)
LEMMA Power ==
  ASSUME NEW n \in Nat
  PROVE  2 ^ n \in Nat \ {0}
<1>1. IsFiniteSet(1 .. n) /\ Cardinality(1 .. n) = n
  BY FS_Interval
<1>2. IsFiniteSet(SUBSET (1 .. n)) /\ Cardinality(SUBSET (1 .. n)) = 2 ^ n
  BY <1>1, FS_SUBSET
<1>3. Cardinality(SUBSET (1 .. n)) # 0
  BY <1>2, FS_EmptySet
<1> QED
  BY <1>2, <1>3, FS_CardinalityType

LEMMA WordsKept ==
  /\ 0 \in Words /\ SOURCE \in Words
  /\ \A n \in Int : Wrap(n) \in Words
  /\ \A w \in Words : Signed(w) \in Int
<1> DEFINE m == 2 ^ Width
<1>1. m \in Nat \ {0} /\ 2 ^ (Width - 1) \in Int
  BY Power, ExprAssumption
<1>2. Words = 0 .. m - 1
  BY DEF Words
<1>3. \A n : Wrap(n) = n % m
  BY DEF Wrap
<1>4. \A w : Signed(w) = w \/ Signed(w) = w - m
  BY DEF Signed
<1> HIDE DEF m
<1> QED
  BY <1>1, <1>2, <1>3, <1>4, ExprAssumption

LEMMA ComputedInt ==
  ASSUME NEW op \in Computes, NEW a \in Int, NEW b \in Int, ~Traps(op, a, b)
  PROVE  Computed(op, a, b) \in Int
<1>1. CASE op = "SLASH"
  <2>1. b # 0
    BY <1>1 DEF Traps
  <2>2. \A n \in Int : (IF n < 0 THEN -n ELSE n) \in Nat
    OBVIOUS
  <2>3. (IF b < 0 THEN -b ELSE b) \in Nat \ {0}
    BY <2>1
  <2>4. \A p \in Nat, q \in Nat \ {0} : p \div q \in Int
    OBVIOUS
  <2>5. (IF a < 0 THEN -a ELSE a) \div (IF b < 0 THEN -b ELSE b) \in Int
    BY <2>2, <2>3, <2>4
  <2>6. Quotient(a, b) \in Int
    BY <2>5 DEF Quotient
  <2> QED
    BY <1>1, <2>6 DEF Computed
<1>2. CASE op = "PLUS"
  BY <1>2 DEF Computed
<1>3. CASE op = "MINUS"
  BY <1>3 DEF Computed
<1>4. CASE op = "ASTERISK"
  BY <1>4 DEF Computed
<1> QED
  BY <1>1, <1>2, <1>3, <1>4 DEF Computes, Sums

-----------------------------------------------------------------------------
(* What the functions hold.                                                *)
LEMMA HeldFinite ==
  ASSUME NEW s \in Seq(Frame), NEW o
  PROVE  /\ IsFiniteSet(HeldIn(s, o))
         /\ Cardinality(HeldIn(s, o)) \in Nat
<1>1. DOMAIN s = 1 .. Len(s) /\ Len(s) \in Nat
  BY LenProperties
<1>2. IsFiniteSet(1 .. Len(s))
  BY <1>1, FS_Interval
<1>3. HeldIn(s, o) \subseteq 1 .. Len(s)
  BY <1>1 DEF HeldIn
<1> QED
  BY <1>2, <1>3, FS_Subset, FS_CardinalityType

(* A function more holds what it holds.                                    *)
LEMMA HeldPush ==
  ASSUME NEW s \in Seq(Frame), NEW f \in Frame, NEW o
  PROVE  Cardinality(HeldIn(<<f>> \o s, o))
           = Cardinality(HeldIn(s, o)) + One(f.held, o)
<1> DEFINE t == <<f>> \o s
           A == HeldIn(s, o)
           B == {i \in HeldIn(t, o) : i # 1}
           g == [i \in A |-> i + 1]
<1>1. /\ t \in Seq(Frame) /\ Len(t) = Len(s) + 1 /\ Len(s) \in Nat
      /\ \A i \in 1 .. Len(t) : t[i] = IF i = 1 THEN f ELSE s[i - 1]
      /\ DOMAIN s = 1 .. Len(s) /\ DOMAIN t = 1 .. Len(t)
  <2>1. <<f>> \in Seq(Frame) /\ Len(<<f>>) = 1 /\ <<f>>[1] = f
    OBVIOUS
  <2>2. /\ t \in Seq(Frame) /\ Len(t) = Len(<<f>>) + Len(s)
        /\ \A i \in 1 .. Len(<<f>>) + Len(s) :
             t[i] = IF i <= Len(<<f>>) THEN <<f>>[i] ELSE s[i - Len(<<f>>)]
    BY <2>1, ConcatProperties
  <2>3. Len(s) \in Nat /\ DOMAIN s = 1 .. Len(s) /\ DOMAIN t = 1 .. Len(t)
    BY <2>2, LenProperties
  <2> HIDE DEF t
  <2> QED
    BY <2>1, <2>2, <2>3
<1> HIDE DEF t
<1>2. A \subseteq 1 .. Len(s) /\ \A i \in 1 .. Len(s) : i \in A <=> s[i].held = o
  BY <1>1 DEF HeldIn
<1>3. B \subseteq 2 .. Len(s) + 1
  BY <1>1 DEF HeldIn
<1>4. \A i \in 2 .. Len(s) + 1 : i \in B <=> s[i - 1].held = o
  BY <1>1 DEF HeldIn
<1>5. 1 \in HeldIn(t, o) <=> f.held = o
  BY <1>1 DEF HeldIn
<1>6. IsFiniteSet(A) /\ Cardinality(A) \in Nat
  BY HeldFinite
<1>7. B = HeldIn(t, o) \ {1}
  OBVIOUS
<1> HIDE DEF A, B
<1>8. g \in Bijection(A, B)
  <2>1. g \in [A -> B]
    BY <1>2, <1>4, <1>1
  <2>2. \A i, j \in A : g[i] = g[j] => i = j
    BY <1>2
  <2>3. ASSUME NEW j \in B
        PROVE  \E i \in A : g[i] = j
    <3>1. j - 1 \in A
      BY <1>1, <1>2, <1>3, <1>4
    <3>2. g[j - 1] = j
      BY <3>1, <1>3, <1>1
    <3> QED
      BY <3>1, <3>2
  <2> HIDE DEF g
  <2>4. g \in Injection(A, B)
    BY <2>1, <2>2 DEF Injection, IsInjective
  <2>5. g \in Surjection(A, B)
    BY <2>1, <2>3 DEF Surjection
  <2> QED
    BY <2>4, <2>5 DEF Bijection
<1>9. IsFiniteSet(B) /\ Cardinality(B) = Cardinality(A)
  BY <1>6, <1>8, FS_Bijection DEF ExistsBijection
<1>10. IsFiniteSet(HeldIn(t, o)) /\ Cardinality(HeldIn(t, o)) \in Nat
  BY <1>1, HeldFinite
<1>11. CASE f.held = o
  <2>1. Cardinality(B) = Cardinality(HeldIn(t, o)) - 1
    BY <1>5, <1>7, <1>10, <1>11, FS_RemoveElement
  <2> QED
    BY <2>1, <1>6, <1>9, <1>10, <1>11 DEF One, A, t
<1>12. CASE f.held # o
  <2>1. B = HeldIn(t, o)
    BY <1>5, <1>7, <1>12
  <2> QED
    BY <2>1, <1>6, <1>9, <1>12 DEF One, A, t
<1> QED
  BY <1>11, <1>12

(* A function that returns holds nothing any more.                         *)
LEMMA HeldPop ==
  ASSUME NEW s \in Seq(Frame), s # << >>, NEW o
  PROVE  /\ Head(s) \in Frame /\ Tail(s) \in Seq(Frame)
         /\ Cardinality(HeldIn(s, o))
              = Cardinality(HeldIn(Tail(s), o)) + One(Head(s).held, o)
<1>1. Head(s) \in Frame /\ Tail(s) \in Seq(Frame) /\ s = <<Head(s)>> \o Tail(s)
  BY HeadTailProperties, ConcatSimplifications
<1> QED
  BY ZenonT(40), <1>1, HeldPush

LEMMA OwedNat ==
  ASSUME IInv
  PROVE  \A o \in Obj : /\ Owed(stack, ret, o) \in Nat
                         /\ Owed(stack, ret, o) = Cardinality(HeldIn(stack, o)) + One(ret, o)
                         /\ Cardinality(HeldIn(stack, o)) \in Nat
BY HeldFinite DEF IInv, Control, Owed, One

LEMMA OneNumber == \A v, o : One(v, o) \in {0, 1} /\ (One(v, o) = 1 <=> v = o)
BY DEF One

(* What a function holds or returns has not been free'd.                   *)
LEMMA OwedLives ==
  ASSUME IInv
  PROVE  /\ ret \in Obj => heap.kind[ret] # "none"
         /\ stack # << >> /\ Top.held \in Obj => heap.kind[Top.held] # "none"
<1>1. \A o \in Obj : heap.kind[o] = "none" => Owed(stack, ret, o) = 0
  BY DEF IInv, HostSide
<1>2. ASSUME NEW o \in Obj, ret = o PROVE heap.kind[o] # "none"
  BY <1>1, <1>2, OwedNat, OneNumber
<1>3. ASSUME NEW o \in Obj, stack # << >>, Top.held = o PROVE heap.kind[o] # "none"
  <2>1. Cardinality(HeldIn(stack, o))
          = Cardinality(HeldIn(Tail(stack), o)) + One(Top.held, o)
    BY <1>3, HeldPop DEF IInv, Control, Top
  <2>2. Cardinality(HeldIn(Tail(stack), o)) \in Nat
    BY <1>3, HeldPop, HeldFinite DEF IInv, Control
  <2> QED
    BY <1>1, <1>3, <2>1, <2>2, OwedNat, OneNumber
<1> QED
  BY <1>2, <1>3

(* A cell of the host leads nowhere or to an object of the host.           *)
LEMMA CellLives ==
  ASSUME IInv, NEW p \in Obj, NEW s \in Slot
  PROVE  /\ heap.cell[p][s] \in Obj \cup {NULL}
         /\ heap.cell[p][s] \in Obj => heap.kind[heap.cell[p][s]] # "none"
<1> DEFINE v == heap.cell[p][s]
<1>1. v = HostHeap.cell[p][s] /\ v \in Obj \cup {NULL}
  BY Parts DEF IInv, HostSide, TypeOK
<1>2. ASSUME v \in Obj PROVE heap.kind[v] # "none"
  <2>1. Cells(HostHeap, v) > 0
    BY <1>1, CellCounted
  <2>2. HostHeap.rc[v] = HostHold[v] + Cells(HostHeap, v) /\ HostHold[v] \in Nat
    BY <1>2, HostAssumption, ExprAssumption DEF Cells
  <2>3. Cells(HostHeap, v) \in Nat
    BY CellsNat
  <2> HIDE DEF v
  <2>4. HostHeap.kind[v] # "none"
    BY <1>2, <2>1, <2>2, <2>3, HostAssumption
  <2> QED
    BY <1>2, <2>4 DEF IInv, HostSide
<1> QED
  BY <1>1, <1>2

(* A step that adds to a count what it adds on the C stack.                *)
LEMMA Kept ==
  ASSUME IInv, Control', heap' \in HeapType, word' \in [Obj -> Words],
         errors' \in Nat, ret' \in Values,
         mode' \in {"eval", "returned", "released", "crashed"},
         heap'.cell = heap.cell, heap'.len = heap.len,
         \A o \in Obj :
           /\ Owed(stack', ret', o) \in Int
           /\ heap'.rc[o] = heap.rc[o] + Owed(stack', ret', o) - Owed(stack, ret, o)
           /\ heap'.kind[o] = "none" => Owed(stack', ret', o) = 0
           /\ HostHeap.kind[o] # "none" =>
                heap'.kind[o] = heap.kind[o] /\ word'[o] = word[o]
           /\ HostHeap.kind[o] = "none" => heap'.kind[o] \in {"none", "int", "text"}
  PROVE  IInv'
<1>1. \A i \in DOMAIN stack' : stack'[i].held \in Values
  <2>1. stack' \in Seq(Frame)
    BY DEF Control
  <2>2. \A i \in DOMAIN stack' : stack'[i] \in Frame
    BY <2>1
  <2> QED
    BY <2>2 DEF Frame
<1>2. TypeOK'
  BY <1>1 DEF TypeOK
<1>3. \A o \in Obj : heap'.rc[o] = HostHeap.rc[o] + Owed(stack', ret', o)
  <2>1. \A o \in Obj : heap.rc[o] = HostHeap.rc[o] + Owed(stack, ret, o)
    BY DEF IInv, HostSide
  <2>2. \A o \in Obj : HostHeap.rc[o] \in Int
    BY ExprAssumption, Parts
  <2> QED
    BY <2>1, <2>2, OwedNat
<1>4. HostSide'
  BY <1>3 DEF IInv, HostSide
<1> QED
  BY <1>2, <1>4 DEF IInv

-----------------------------------------------------------------------------
(* A function returns, and what it held and what came back are given up    *)
(* for the value.                                                          *)
LEMMA Popped ==
  ASSUME IInv, stack # << >>, NEW v, Return(v), NEW o \in Obj
  PROVE  /\ Top \in Frame /\ stack' \in Seq(Frame)
         /\ Owed(stack', ret', o) \in Nat
         /\ Owed(stack', ret', o)
              = Owed(stack, ret, o) - One(Top.held, o) - One(ret, o) + One(v, o)
<1>1. stack \in Seq(Frame) /\ stack' = Tail(stack) /\ ret' = v
  BY DEF IInv, Control, Return
<1>2. /\ Top \in Frame /\ stack' \in Seq(Frame)
      /\ Cardinality(HeldIn(stack, o))
           = Cardinality(HeldIn(stack', o)) + One(Top.held, o)
  BY <1>1, HeldPop DEF Top
<1>3. Cardinality(HeldIn(stack', o)) \in Nat
  BY <1>2, HeldFinite
<1>4. Owed(stack', ret', o) = Cardinality(HeldIn(stack', o)) + One(v, o)
  BY <1>1 DEF Owed
<1> QED
  BY <1>2, <1>3, <1>4, OwedNat, OneNumber

(* The value is null, a truth, nothing, or something the host stored.      *)
LEMMA ReturnStep ==
  ASSUME IInv, Back(Calls), NEW v \in Values, Return(v), UNCHANGED word,
         errors' \in Nat, v \in Obj => heap.kind[v] # "none",
         heap' \in HeapType, heap'.kind = heap.kind,
         heap'.cell = heap.cell, heap'.len = heap.len,
         \A o \in Obj :
           heap'.rc[o] = heap.rc[o] - One(Top.held, o) - One(ret, o) + One(v, o)
  PROVE  IInv'
<1>1. /\ stack # << >> /\ mode = "eval" /\ todo = NoExpr
      /\ mode' = "eval" /\ todo' = NoExpr /\ ret' = v
  BY DEF Back, Evaluating, Return
<1>2. \A o \in Obj :
        /\ stack' \in Seq(Frame)
        /\ Owed(stack', ret', o) \in Nat
        /\ Owed(stack', ret', o)
             = Owed(stack, ret, o) - One(Top.held, o) - One(ret, o) + One(v, o)
  BY <1>1, Popped
<1>3. Control'
  BY <1>1, <1>2, ExprAssumption DEF Control
<1>4. \A o \in Obj :
        heap'.rc[o] = heap.rc[o] + Owed(stack', ret', o) - Owed(stack, ret, o)
  <2>1. \A o \in Obj : /\ heap.rc[o] \in Int /\ Owed(stack, ret, o) \in Nat
                       /\ One(Top.held, o) \in Int /\ One(ret, o) \in Int
                       /\ One(v, o) \in Int
    BY OwedNat, Parts DEF IInv, TypeOK, One
  <2> QED
    BY SMTT(30), <1>2, <2>1
<1>5. ASSUME NEW o \in Obj, heap.kind[o] = "none" PROVE Owed(stack', ret', o) = 0
  <2>1. Owed(stack, ret, o) = 0 /\ v # o
    BY <1>5 DEF IInv, HostSide
  <2>2. One(v, o) = 0
    BY <2>1, OneNumber
  <2> QED
    BY <1>2, <2>1, <2>2, OneNumber
<1>6. /\ word' \in [Obj -> Words] /\ ret' \in Values
      /\ mode' \in {"eval", "returned", "released", "crashed"}
  BY <1>1 DEF IInv, TypeOK
<1>7. \A o \in Obj :
        /\ HostHeap.kind[o] # "none" =>
             heap'.kind[o] = heap.kind[o] /\ word'[o] = word[o]
        /\ HostHeap.kind[o] = "none" => heap'.kind[o] \in {"none", "int", "text"}
  BY DEF IInv, HostSide
<1>8. \A o \in Obj :
        /\ Owed(stack', ret', o) \in Int
        /\ heap'.kind[o] = "none" => Owed(stack', ret', o) = 0
  BY <1>2, <1>5
<1> QED
  BY <1>3, <1>4, <1>6, <1>7, <1>8, Kept

(* A new object is at an address nobody knows.                             *)
LEMMA FreshHeap ==
  ASSUME IInv, NEW h \in HeapType, h.kind = heap.kind, h.cell = heap.cell,
         h.len = heap.len,
         \A o \in Obj : heap.kind[o] = "none" => h.rc[o] = 0,
         NEW k \in {"int", "text"}, NEW w \in Words, Make(h, k, w)
  PROVE  /\ Fresh \in Obj /\ heap.kind[Fresh] = "none"
         /\ HostHeap.kind[Fresh] = "none"
         /\ heap' \in HeapType /\ heap'.kind = [heap.kind EXCEPT ![Fresh] = k]
         /\ heap'.cell = heap.cell /\ heap'.len = heap.len
         /\ \A o \in Obj : heap'.rc[o] = h.rc[o] + One(Fresh, o)
         /\ word' = [word EXCEPT ![Fresh] = w] /\ word' \in [Obj -> Words]
<1>1. Fresh \in Obj /\ heap.kind[Fresh] = "none"
  BY DEF Make, Unused, Fresh
<1>2. HostHeap.kind[Fresh] = "none"
  BY <1>1 DEF IInv, HostSide
<1> DEFINE f == Fresh
<1>3. heap' = New(h, f, k) /\ word' = [word EXCEPT ![f] = w] /\ k \in Kind
  BY DEF Make, Kind
<1>4. f \in Obj /\ heap.kind[f] = "none"
  BY <1>1
<1> HIDE DEF f
<1>5. /\ heap' \in HeapType /\ heap'.kind = [h.kind EXCEPT ![f] = k]
      /\ heap'.rc = [h.rc EXCEPT ![f] = 1]
      /\ heap'.cell = h.cell /\ heap'.len = h.len
  BY <1>3, <1>4, NewHeap
<1>6. \A o \in Obj : heap'.rc[o] = h.rc[o] + One(f, o)
  BY <1>4, <1>5, Parts DEF One
<1>7. word' \in [Obj -> Words]
  BY <1>3, <1>4 DEF IInv, TypeOK
<1> QED
  BY <1>1, <1>2, <1>3, <1>5, <1>6, <1>7 DEF f

(* The value is an object that the function made.                          *)
LEMMA MakeStep ==
  ASSUME IInv, Back(Calls), NEW h \in HeapType, h.kind = heap.kind,
         h.cell = heap.cell, h.len = heap.len,
         \A o \in Obj : h.rc[o] = heap.rc[o] - One(Top.held, o) - One(ret, o),
         NEW k \in {"int", "text"}, NEW w \in Words, Make(h, k, w),
         Return(Fresh), errors' \in Nat
  PROVE  IInv'
<1> DEFINE f == Fresh
<1>1. /\ stack # << >> /\ mode = "eval" /\ todo = NoExpr
      /\ mode' = "eval" /\ todo' = NoExpr /\ ret' = f
  BY DEF Back, Evaluating, Return
<1>2. \A o \in Obj :
        /\ stack' \in Seq(Frame)
        /\ Owed(stack', ret', o) \in Nat
        /\ Owed(stack', ret', o)
             = Owed(stack, ret, o) - One(Top.held, o) - One(ret, o) + One(f, o)
  BY <1>1, Popped
<1>3. Control'
  BY <1>1, <1>2, ExprAssumption DEF Control
<1>4. ASSUME NEW o \in Obj, heap.kind[o] = "none"
      PROVE  /\ Owed(stack, ret, o) = 0 /\ One(ret, o) = 0 /\ One(Top.held, o) = 0
             /\ h.rc[o] = 0
  <2>1. Owed(stack, ret, o) = 0 /\ heap.rc[o] = HostHeap.rc[o] + 0
    BY <1>4 DEF IInv, HostSide
  <2>2. HostHeap.kind[o] = "none"
    BY <1>4 DEF IInv, HostSide
  <2>3. HostHeap.rc[o] = 0
    BY <2>2, HostAssumption
  <2>4. ret # o /\ Top.held # o
    BY <1>1, <1>4, OwedLives
  <2> QED
    BY <2>1, <2>3, <2>4, OneNumber
<1>5. /\ f \in Obj /\ heap.kind[f] = "none"
      /\ HostHeap.kind[f] = "none"
      /\ heap' \in HeapType /\ heap'.kind = [heap.kind EXCEPT ![f] = k]
      /\ heap'.cell = heap.cell /\ heap'.len = heap.len
      /\ \A o \in Obj : heap'.rc[o] = h.rc[o] + One(f, o)
      /\ word' = [word EXCEPT ![f] = w] /\ word' \in [Obj -> Words]
  BY <1>4, FreshHeap
<1> HIDE DEF f
<1>6. \A o \in Obj :
        heap'.rc[o] = heap.rc[o] + Owed(stack', ret', o) - Owed(stack, ret, o)
  <2>1. \A o \in Obj : /\ heap.rc[o] \in Int /\ Owed(stack, ret, o) \in Nat
                       /\ One(Top.held, o) \in Int /\ One(ret, o) \in Int
                       /\ One(f, o) \in Int
    BY OwedNat, Parts DEF IInv, TypeOK, One
  <2>2. \A o \in Obj : heap'.rc[o]
          = heap.rc[o] - One(Top.held, o) - One(ret, o) + One(f, o)
    BY <1>5
  <2>3. \A o \in Obj : Owed(stack', ret', o)
          = Owed(stack, ret, o) - One(Top.held, o) - One(ret, o) + One(f, o)
    BY <1>2
  <2> QED
    BY <2>1, <2>2, <2>3
<1>7. \A o \in Obj : heap'.kind[o] = IF o = f THEN k ELSE heap.kind[o]
  BY <1>5, Parts DEF IInv, TypeOK
<1>8. \A o \in Obj : heap'.kind[o] = "none" => Owed(stack', ret', o) = 0
  BY <1>2, <1>4, <1>7, OneNumber
<1>9. /\ ret' \in Values
      /\ mode' \in {"eval", "returned", "released", "crashed"}
  BY <1>1, <1>5 DEF Values
<1>10. \A o \in Obj :
        /\ HostHeap.kind[o] # "none" =>
             heap'.kind[o] = heap.kind[o] /\ word'[o] = word[o]
        /\ HostHeap.kind[o] = "none" => heap'.kind[o] \in {"none", "int", "text"}
  BY <1>5, <1>7 DEF IInv, HostSide, TypeOK
<1>11. \A o \in Obj : Owed(stack', ret', o) \in Int
  BY <1>2
<1> QED
  BY <1>3, <1>5, <1>6, <1>8, <1>9, <1>10, <1>11, Kept

-----------------------------------------------------------------------------
(* A leaf of the tree: what is kept, or made, is the value.                *)
LEMMA Yielded ==
  ASSUME IInv, Calling(Leaves),
         NEW v, Yield(v)
  PROVE  /\ Control'
         /\ mode' = "eval" /\ ret' = v /\ errors' = errors
         /\ \A o \in Obj : /\ Owed(stack', ret', o) \in Nat
                           /\ Owed(stack', ret', o) = Owed(stack, ret, o) + One(v, o)
<1>1. /\ todo # NoExpr /\ mode = "eval" /\ stack' = stack /\ todo' = NoExpr
      /\ ret' = v /\ mode' = mode /\ errors' = errors
  BY DEF Calling, Evaluating, Yield, NoExpr, Leaves
<1>2. ret = NULL
  BY <1>1 DEF IInv, Control
<1>3. \A o \in Obj : One(ret, o) = 0
  BY <1>2, HeapAssumption DEF One
<1>4. \A o \in Obj : Owed(stack', ret', o)
                       = Cardinality(HeldIn(stack, o)) + One(v, o)
  BY <1>1 DEF Owed
<1>5. Control'
  BY <1>1 DEF IInv, Control
<1> QED
  BY <1>1, <1>3, <1>4, <1>5, OwedNat, OneNumber

LEMMA IdentifierStep ==
  ASSUME IInv, Identifier
  PROVE  IInv'
<1> DEFINE u == HmapGets(heap, VARS, todo.lit)
           v == OrNull(u)
<1>1. /\ Calling({"IDENT"}) /\ Yield(v) /\ heap' = Keep(heap, u) /\ word' = word
  BY DEF Identifier
<1>2. todo \in Trees /\ todo.op = "IDENT"
  BY <1>1 DEF IInv, Control, Calling, NoExpr
<1>3. todo.lit \in Slot /\ VARS \in Obj
  BY <1>2, TreeAssumption, ExprAssumption DEF WellFormed, Slot
<1>4. u \in Obj \cup {NULL} /\ (u \in Obj => heap.kind[u] # "none")
  BY <1>3, CellLives DEF HmapGets
<1> HIDE DEF u
<1>5. v \in Values /\ (u \in Obj => v = u) /\ (u \notin Obj => v \notin Obj)
  BY <1>4, ExprAssumption, HeapAssumption DEF OrNull, Values, Static
<1>6. /\ heap' \in HeapType /\ heap'.kind = heap.kind
      /\ heap'.cell = heap.cell /\ heap'.len = heap.len
      /\ \A o \in Obj : heap'.rc[o] = heap.rc[o] + One(v, o)
  <2>1. heap \in HeapType
    BY DEF IInv, TypeOK
  <2>2. CASE u \in Obj
    <3>1. heap' = Ref(heap, u)
      BY <1>1, <2>2 DEF Keep
    <3>2. /\ heap' \in HeapType /\ heap'.kind = heap.kind
          /\ heap'.rc = [heap.rc EXCEPT ![u] = heap.rc[u] + 1]
          /\ heap'.cell = heap.cell /\ heap'.len = heap.len
      BY <2>1, <2>2, <3>1, RefHeap
    <3> QED
      BY <1>5, <2>1, <2>2, <3>2, Parts DEF One
  <2>3. CASE u \notin Obj
    BY <1>1, <1>5, <2>1, <2>3, Parts DEF Keep, One
  <2> QED
    BY <2>2, <2>3
<1> HIDE DEF v
<1>7. /\ Control' /\ mode' = "eval" /\ ret' = v /\ errors' = errors
      /\ \A o \in Obj : /\ Owed(stack', ret', o) \in Nat
                        /\ Owed(stack', ret', o) = Owed(stack, ret, o) + One(v, o)
  <2>1. Calling(Leaves)
    BY <1>1 DEF Calling, Leaves
  <2> QED
    BY <1>1, <1>5, <2>1, Yielded
<1>8. \A o \in Obj :
        heap'.rc[o] = heap.rc[o] + Owed(stack', ret', o) - Owed(stack, ret, o)
  <2>1. \A o \in Obj : /\ heap.rc[o] \in Int /\ Owed(stack, ret, o) \in Nat
                       /\ One(v, o) \in Int
    BY OwedNat, Parts DEF IInv, TypeOK, One
  <2> QED
    BY <1>6, <1>7, <2>1
<1>9. ASSUME NEW o \in Obj, heap.kind[o] = "none"
      PROVE  Owed(stack', ret', o) = 0
  <2>1. Owed(stack, ret, o) = 0 /\ v # o
    BY <1>4, <1>5, <1>9 DEF IInv, HostSide
  <2> QED
    BY <1>7, <2>1, OneNumber
<1>10. \A o \in Obj :
        /\ Owed(stack', ret', o) \in Int
        /\ heap'.kind[o] = "none" => Owed(stack', ret', o) = 0
        /\ HostHeap.kind[o] # "none" =>
             heap'.kind[o] = heap.kind[o] /\ word'[o] = word[o]
        /\ HostHeap.kind[o] = "none" => heap'.kind[o] \in {"none", "int", "text"}
  BY <1>1, <1>6, <1>7, <1>9 DEF IInv, HostSide
<1>11. /\ word' \in [Obj -> Words] /\ errors' \in Nat /\ ret' \in Values
       /\ mode' \in {"eval", "returned", "released", "crashed"}
  BY <1>1, <1>5, <1>7 DEF IInv, TypeOK
<1> QED
  BY <1>6, <1>7, <1>8, <1>10, <1>11, Kept

(* A number or a string: a new object, with the leaf as its one owner.     *)
LEMMA LiteralStep ==
  ASSUME IInv, NEW op \in {"INT", "STRING"}, Calling({op}),
         NEW k \in {"int", "text"}, NEW w \in Words,
         Make(heap, k, w), Yield(Fresh)
  PROVE  IInv'
<1> DEFINE f == Fresh
<1>1. heap \in HeapType
  BY DEF IInv, TypeOK
<1>2. ASSUME NEW o \in Obj, heap.kind[o] = "none"
      PROVE  Owed(stack, ret, o) = 0 /\ heap.rc[o] = 0
  <2>1. Owed(stack, ret, o) = 0 /\ heap.rc[o] = HostHeap.rc[o] + 0
    BY <1>2 DEF IInv, HostSide
  <2>2. HostHeap.kind[o] = "none"
    BY <1>2 DEF IInv, HostSide
  <2> QED
    BY <2>1, <2>2, HostAssumption
<1>3. /\ f \in Obj /\ heap.kind[f] = "none"
      /\ HostHeap.kind[f] = "none"
      /\ heap' \in HeapType /\ heap'.kind = [heap.kind EXCEPT ![f] = k]
      /\ heap'.cell = heap.cell /\ heap'.len = heap.len
      /\ \A o \in Obj : heap'.rc[o] = heap.rc[o] + One(f, o)
      /\ word' = [word EXCEPT ![f] = w] /\ word' \in [Obj -> Words]
  BY <1>1, <1>2, FreshHeap
<1>4. /\ Control' /\ mode' = "eval" /\ ret' = f /\ errors' = errors
      /\ \A o \in Obj : /\ Owed(stack', ret', o) \in Nat
                        /\ Owed(stack', ret', o) = Owed(stack, ret, o) + One(f, o)
  <2>1. Calling(Leaves)
    BY DEF Calling, Leaves
  <2>2. f \in Values
    BY <1>3 DEF Values
  <2> QED
    BY <2>1, <2>2, Yielded
<1> HIDE DEF f
<1>5. \A o \in Obj :
        heap'.rc[o] = heap.rc[o] + Owed(stack', ret', o) - Owed(stack, ret, o)
  <2>1. \A o \in Obj : /\ heap.rc[o] \in Int /\ Owed(stack, ret, o) \in Nat
                       /\ One(f, o) \in Int
    BY OwedNat, Parts DEF IInv, TypeOK, One
  <2> QED
    BY <1>3, <1>4, <2>1
<1>6. \A o \in Obj : heap'.kind[o] = IF o = f THEN k ELSE heap.kind[o]
  BY <1>3, Parts DEF IInv, TypeOK
<1>7. \A o \in Obj : heap'.kind[o] = "none" => Owed(stack', ret', o) = 0
  BY <1>2, <1>4, <1>6, OneNumber
<1>8. \A o \in Obj :
        /\ Owed(stack', ret', o) \in Int
        /\ HostHeap.kind[o] # "none" =>
             heap'.kind[o] = heap.kind[o] /\ word'[o] = word[o]
        /\ HostHeap.kind[o] = "none" => heap'.kind[o] \in {"none", "int", "text"}
  BY <1>3, <1>4, <1>6 DEF IInv, HostSide, TypeOK
<1>9. /\ errors' \in Nat /\ ret' \in Values
      /\ mode' \in {"eval", "returned", "released", "crashed"}
  BY <1>3, <1>4 DEF IInv, TypeOK, Values
<1> QED
  BY <1>3, <1>4, <1>5, <1>7, <1>8, <1>9, Kept

(* A step that leaves the heap alone, and the references with who had them.*)
LEMMA SameHeapStep ==
  ASSUME IInv, Control', UNCHANGED <<heap, word, errors>>, ret' \in Values,
         mode' \in {"eval", "returned", "released", "crashed"},
         \A o \in Obj : Owed(stack', ret', o) = Owed(stack, ret, o)
  PROVE  IInv'
<1>1. \A o \in Obj :
        heap'.rc[o] = heap.rc[o] + Owed(stack', ret', o) - Owed(stack, ret, o)
  BY OwedNat, Parts DEF IInv, TypeOK
<1>2. \A o \in Obj :
        /\ Owed(stack', ret', o) \in Int
        /\ heap'.kind[o] = "none" => Owed(stack', ret', o) = 0
        /\ HostHeap.kind[o] # "none" =>
             heap'.kind[o] = heap.kind[o] /\ word'[o] = word[o]
        /\ HostHeap.kind[o] = "none" => heap'.kind[o] \in {"none", "int", "text"}
  BY OwedNat DEF IInv, HostSide
<1>3. /\ heap' \in HeapType /\ heap'.cell = heap.cell /\ heap'.len = heap.len
      /\ word' \in [Obj -> Words] /\ errors' \in Nat
  BY DEF IInv, TypeOK
<1> QED
  BY <1>1, <1>2, <1>3, Kept

LEMMA BoolLiteralStep ==
  ASSUME IInv, BoolLiteral
  PROVE  IInv'
<1> DEFINE v == Bool(todo.op = "TRUE")
<1>1. /\ Calling(Leaves)
      /\ Yield(v) /\ UNCHANGED <<heap, word>>
  BY DEF BoolLiteral, Calling, Leaves
<1>2. v \in Static
  BY DEF Bool, Static
<1> HIDE DEF v
<1>3. v \in Values /\ \A o \in Obj : One(v, o) = 0
  BY <1>2, ExprAssumption DEF Values, One
<1>4. /\ Control' /\ mode' = "eval" /\ ret' = v /\ errors' = errors
      /\ \A o \in Obj : Owed(stack', ret', o) = Owed(stack, ret, o) + One(v, o)
  BY <1>1, <1>3, Yielded
<1>5. \A o \in Obj : Owed(stack', ret', o) = Owed(stack, ret, o)
  BY <1>3, <1>4, OwedNat
<1> QED
  BY <1>1, <1>3, <1>4, <1>5, SameHeapStep

LEMMA CallStep ==
  ASSUME IInv, Call
  PROVE  IInv'
<1> DEFINE f == [expr |-> todo, held |-> NULL]
<1>1. /\ Calling(Calls) /\ stack' = <<f>> \o stack /\ todo' = todo.args[1]
      /\ ret' = NULL /\ UNCHANGED <<heap, word, errors, mode>> /\ mode = "eval"
  BY DEF Call, Calling, Evaluating
<1>2. todo \in Trees /\ todo.op \in Calls
  BY <1>1 DEF IInv, Control, Calling, Calls, Prefixes, Infixes, NoExpr
<1>3. todo.args[1] \in Trees
  <2>1. todo.args \in Seq(Trees) /\ Len(todo.args) \in {1, 2}
    BY <1>2, TreeAssumption DEF WellFormed
  <2> QED
    BY <2>1, ElementOfSeq
<1>4. f \in Frame /\ f.held = NULL /\ ret = NULL
  BY <1>2, <1>1 DEF Frame, Values, IInv, Control, Calling, Calls, Prefixes, Infixes, NoExpr
<1> HIDE DEF f
<1>5. stack' \in Seq(Frame)
  <2>1. <<f>> \in Seq(Frame) /\ stack \in Seq(Frame)
    BY <1>4 DEF IInv, Control
  <2> QED
    BY <1>1, <2>1, ConcatProperties
<1>6. Control'
  BY <1>1, <1>3, <1>5 DEF Control
<1>7. \A o \in Obj : Owed(stack', ret', o) = Owed(stack, ret, o)
  <2>1. \A o \in Obj : Cardinality(HeldIn(stack', o))
                         = Cardinality(HeldIn(stack, o)) + One(f.held, o)
    BY <1>1, <1>4, HeldPush DEF IInv, Control
  <2>2. \A o \in Obj : One(f.held, o) = 0
    BY <1>4, HeapAssumption DEF One
  <2>3. \A o \in Obj : Cardinality(HeldIn(stack', o)) = Cardinality(HeldIn(stack, o))
    BY <2>1, <2>2, OwedNat
  <2> QED
    BY <2>3, <1>1, <1>4 DEF Owed
<1> QED
  BY <1>1, <1>6, <1>7, SameHeapStep DEF Values

(* The left side, or the vector, is held while the other is evaluated.     *)
LEMMA HoldStep ==
  ASSUME IInv, First(Calls), Len(Top.expr.args) = 2, Hold,
         Top.expr.op = "LBRACKET" => ret \in Obj
  PROVE  IInv'
<1> DEFINE f == [Top EXCEPT !.held = ret]
<1>1. /\ stack # << >> /\ mode = "eval" /\ Top.held = NULL /\ todo = NoExpr
      /\ stack' = <<f>> \o Tail(stack) /\ todo' = Top.expr.args[2] /\ ret' = NULL
      /\ UNCHANGED <<heap, word, errors, mode>>
  BY DEF First, Back, Evaluating, Hold
<1>2. Top \in Frame /\ Tail(stack) \in Seq(Frame)
  BY <1>1, HeldPop DEF IInv, Control, Top
<1>3. f \in Frame /\ f.held = ret
  BY <1>2 DEF Frame, IInv, TypeOK
<1>4. Top.expr \in Trees
  BY <1>2 DEF Frame
<1> HIDE DEF f
<1>5. todo' \in Trees
  <2>1. Top.expr.args \in Seq(Trees)
    BY <1>4, TreeAssumption DEF WellFormed
  <2> QED
    BY <1>1, <2>1, ElementOfSeq
<1>6. stack' \in Seq(Frame)
  <2>1. <<f>> \in Seq(Frame)
    BY <1>3
  <2> QED
    BY <1>1, <1>2, <2>1, ConcatProperties
<1>7. Control'
  BY <1>1, <1>5, <1>6 DEF Control
<1>8. ASSUME NEW o \in Obj PROVE Owed(stack', ret', o) = Owed(stack, ret, o)
  <2>1. Cardinality(HeldIn(stack', o))
          = Cardinality(HeldIn(Tail(stack), o)) + One(ret, o)
    BY <1>1, <1>2, <1>3, HeldPush
  <2>2. Cardinality(HeldIn(stack, o))
          = Cardinality(HeldIn(Tail(stack), o)) + One(NULL, o)
    BY <1>1, HeldPop DEF IInv, Control, Top
  <2>3. One(NULL, o) = 0 /\ One(ret, o) \in Nat
    BY HeapAssumption DEF One
  <2>4. Cardinality(HeldIn(Tail(stack), o)) \in Nat
    BY <1>2, HeldFinite
  <2>5. ret' = NULL
    BY <1>1
  <2> QED
    BY <2>1, <2>2, <2>3, <2>4, <2>5 DEF Owed
<1> QED
  BY <1>1, <1>7, <1>8, SameHeapStep DEF Values

(* Only an object of the heap has the type of an integer or a container.   *)
LEMMA TypeOfObj ==
  ASSUME NEW v \in Values, v # NULL, TypeOf(v) \in {"int", "vector", "hmap"}
  PROVE  v \in Obj
<1>1. v \in Static => TypeOf(v) \in {"null", "bool"}
  BY DEF TypeOf, Static
<1> QED
  BY <1>1 DEF Values

LEMMA LeftStep ==
  ASSUME IInv, Left
  PROVE  IInv'
<1>1. /\ First(Calls) /\ Len(Top.expr.args) = 2 /\ Hold
      /\ Top.expr.op # "LBRACKET"
  BY DEF Left, First, Back, Calls, IsInfix, Infixes
<1> QED
  BY <1>1, HoldStep

LEMMA TopTree ==
  ASSUME IInv, Back(Calls)
  PROVE  Top \in Frame /\ Top.expr \in Trees /\ Top.held \in Values
BY HeldPop DEF IInv, Control, Top, Back, Frame

LEMMA VectorStep ==
  ASSUME IInv, Vector
  PROVE  IInv'
<1>1. /\ First(Calls) /\ Hold /\ Back(Calls) /\ Top.expr.op = "LBRACKET"
      /\ ret # NULL /\ TypeOf(ret) = "vector"
  BY DEF Vector, First, Back, Calls
<1>2. Len(Top.expr.args) = 2
  BY <1>1, TopTree, TreeAssumption DEF WellFormed
<1>3. ret \in Obj
  BY <1>1, TypeOfObj DEF IInv, TypeOK
<1> QED
  BY <1>1, <1>2, <1>3, HoldStep

(* A function gives up its operands and returns what it has kept, or       *)
(* something that is not counted.                                          *)
LEMMA GiveUpStep ==
  ASSUME IInv, Back(Calls),
         NEW u \in Obj \cup {NULL}, u \in Obj => heap.kind[u] # "none",
         NEW v \in Values, IF u \in Obj THEN v = u ELSE v \notin Obj,
         Return(v), UNCHANGED word, errors' \in Nat,
         \/ heap' = Unref(Unref(Keep(heap, u), Top.held), ret)
         \/ heap' = Unref(Unref(Keep(heap, u), ret), Top.held)
  PROVE  IInv'
<1> DEFINE h == Keep(heap, u)
<1>1. heap \in HeapType
  BY DEF IInv, TypeOK
<1>2. /\ h \in HeapType /\ h.kind = heap.kind /\ h.cell = heap.cell /\ h.len = heap.len
      /\ \A o \in Obj : h.rc[o] = heap.rc[o] + One(v, o)
  <2>1. CASE u \in Obj
    <3>1. h = Ref(heap, u)
      BY <2>1 DEF Keep
    <3> HIDE DEF h
    <3>2. /\ h \in HeapType /\ h.kind = heap.kind
          /\ h.rc = [heap.rc EXCEPT ![u] = heap.rc[u] + 1]
          /\ h.cell = heap.cell /\ h.len = heap.len
      BY <1>1, <2>1, <3>1, RefHeap
    <3> QED
      BY <1>1, <2>1, <3>2, Parts DEF One
  <2>2. CASE u \notin Obj
    BY <1>1, <2>2, Parts DEF Keep, One
  <2> QED
    BY <2>1, <2>2
<1>3. heap' = Unref(Unref(h, Top.held), ret) \/ heap' = Unref(Unref(h, ret), Top.held)
  OBVIOUS
<1> HIDE DEF h
<1>4. ASSUME NEW a, NEW b, heap' = Unref(Unref(h, a), b)
      PROVE  /\ heap' \in HeapType /\ heap'.kind = heap.kind
             /\ heap'.cell = heap.cell /\ heap'.len = heap.len
             /\ \A o \in Obj : heap'.rc[o] = h.rc[o] - One(a, o) - One(b, o)
  <2> DEFINE g == Unref(h, a)
  <2>1. /\ g \in HeapType /\ g.kind = h.kind /\ g.cell = h.cell /\ g.len = h.len
        /\ \A o \in Obj : g.rc[o] = h.rc[o] - One(a, o)
    BY <1>2, UnrefHeap
  <2>2. heap' = Unref(g, b)
    BY <1>4
  <2> HIDE DEF g
  <2>3. /\ heap' \in HeapType /\ heap'.kind = g.kind /\ heap'.cell = g.cell
        /\ heap'.len = g.len
        /\ \A o \in Obj : heap'.rc[o] = g.rc[o] - One(b, o)
    BY <2>1, <2>2, UnrefHeap
  <2> QED
    BY <1>2, <2>1, <2>3
<1>5. /\ heap' \in HeapType /\ heap'.kind = heap.kind
      /\ heap'.cell = heap.cell /\ heap'.len = heap.len
      /\ \/ \A o \in Obj : heap'.rc[o] = h.rc[o] - One(Top.held, o) - One(ret, o)
         \/ \A o \in Obj : heap'.rc[o] = h.rc[o] - One(ret, o) - One(Top.held, o)
  BY <1>3, <1>4
<1>6. \A o \in Obj :
        heap'.rc[o] = heap.rc[o] - One(Top.held, o) - One(ret, o) + One(v, o)
  <2>1. \A o \in Obj : /\ heap.rc[o] \in Int /\ One(Top.held, o) \in Int
                       /\ One(ret, o) \in Int /\ One(v, o) \in Int
    BY <1>1, Parts DEF One
  <2> QED
    BY <1>2, <1>5, <2>1
<1>7. v \in Obj => heap.kind[v] # "none"
  OBVIOUS
<1> QED
  BY <1>5, <1>6, <1>7, ReturnStep

(* The same with nothing kept.                                             *)
LEMMA FailStep ==
  ASSUME IInv, Back(Calls), NEW v \in Static \cup {NULL},
         Return(v), UNCHANGED word, errors' \in Nat,
         \/ heap' = Unref(heap, ret) /\ Top.held = NULL
         \/ heap' = Unref(heap, Top.held) /\ ret = NULL
         \/ heap' = Unref(Unref(heap, Top.held), ret)
         \/ heap' = Unref(Unref(heap, ret), Top.held)
  PROVE  IInv'
<1>1. v \in Values /\ v \notin Obj /\ NULL \notin Obj
  BY ExprAssumption, HeapAssumption DEF Values
<1>2. Keep(heap, NULL) = heap /\ \A h : Unref(h, NULL) = h
  BY <1>1 DEF Keep, Unref
<1>3. \/ heap' = Unref(Unref(Keep(heap, NULL), Top.held), ret)
      \/ heap' = Unref(Unref(Keep(heap, NULL), ret), Top.held)
  BY <1>2
<1> QED
  BY <1>1, <1>3, GiveUpStep

LEMMA UnwindStep ==
  ASSUME IInv, Unwind
  PROVE  IInv'
<1>1. Back(Calls) /\ Top.held = NULL /\ ret = NULL /\ Return(NULL)
      /\ UNCHANGED <<heap, word, errors>>
  BY DEF Unwind, First, Quietly
<1>2. heap' = Unref(heap, ret)
  BY <1>1, HeapAssumption DEF Unref
<1> QED
  BY <1>1, <1>2, FailStep DEF IInv, TypeOK

LEMMA PrefixStep ==
  ASSUME IInv, Not \/ NegateFails \/ NotContainer
  PROVE  IInv'
<1>1. /\ Back(Calls) /\ Top.held = NULL /\ heap' = Unref(heap, ret)
      /\ UNCHANGED word /\ errors' \in {errors, errors + 1}
  BY DEF Not, NegateFails, NotContainer, Operand, First, Back, Quietly, Reports,
         Calls, Prefixes
<1>2. \E v \in Static \cup {NULL} : Return(v)
  BY DEF Not, NegateFails, NotContainer, Bool, Static
<1>3. errors' \in Nat
  BY <1>1 DEF IInv, TypeOK
<1> QED
  BY <1>1, <1>2, <1>3, FailStep

LEMMA InfixStep ==
  ASSUME IInv, RightFails \/ Mismatch \/ Compare \/ NotIndex \/ OutOfRange
  PROVE  IInv'
<1>1. /\ Back(Calls) /\ UNCHANGED word /\ errors' \in {errors, errors + 1}
      /\ \/ heap' = Unref(heap, Top.held) /\ ret = NULL
         \/ heap' = Unref(Unref(heap, Top.held), ret)
  BY DEF RightFails, Mismatch, Compare, NotIndex, OutOfRange, Indexing, Both, Second,
         Back, Quietly, Reports, Dropped, Calls, Infixes, Computes, Sums
<1>2. \E v \in Static \cup {NULL} : Return(v)
  BY DEF RightFails, Mismatch, Compare, NotIndex, OutOfRange, Bool, Static
<1>3. errors' \in Nat
  BY <1>1 DEF IInv, TypeOK
<1> QED
  BY <1>1, <1>2, <1>3, FailStep

(* Integers have the word of their value.                                  *)
LEMMA NegateStep ==
  ASSUME IInv, Negate
  PROVE  IInv'
<1> DEFINE h == Unref(heap, ret)
           w == Wrap(-word[ret])
<1>1. /\ Back(Calls) /\ Top.held = NULL /\ ret # NULL /\ TypeOf(ret) = "int"
      /\ Make(h, "int", w) /\ Return(Fresh) /\ errors' = errors
  BY DEF Negate, Operand, First, Back, Quietly, Calls, Prefixes
<1>2. w \in Words
  <2>1. ret \in Obj
    BY <1>1, TypeOfObj DEF IInv, TypeOK
  <2>2. -word[ret] \in Int
    BY <2>1 DEF IInv, TypeOK, Words
  <2> QED
    BY <2>2, WordsKept
<1>3. /\ h \in HeapType /\ h.kind = heap.kind /\ h.cell = heap.cell /\ h.len = heap.len
      /\ \A o \in Obj : h.rc[o] = heap.rc[o] - One(ret, o)
  BY UnrefHeap DEF IInv, TypeOK
<1> HIDE DEF h, w
<1>4. \A o \in Obj : h.rc[o] = heap.rc[o] - One(Top.held, o) - One(ret, o)
  <2>1. \A o \in Obj : One(Top.held, o) = 0 /\ heap.rc[o] \in Int
    BY <1>1, HeapAssumption, Parts DEF One, IInv, TypeOK
  <2> QED
    BY <1>3, <2>1
<1>5. errors' \in Nat
  BY <1>1 DEF IInv, TypeOK
<1> QED
  BY <1>1, <1>2, <1>3, <1>4, <1>5, MakeStep

LEMMA ArithmeticStep ==
  ASSUME IInv, Arithmetic
  PROVE  IInv'
<1> DEFINE a == Signed(word[Top.held])
           b == Signed(word[ret])
           op == Top.expr.op
           h == Dropped
           w == Wrap(Computed(op, a, b))
<1>1. /\ Back(Calls) /\ Top.held # NULL /\ ret # NULL /\ op \in Computes
      /\ TypeOf(Top.held) = "int" /\ TypeOf(ret) = "int" /\ ~Traps(op, a, b)
      /\ Make(h, "int", w) /\ Return(Fresh) /\ errors' = errors
  BY DEF Arithmetic, Both, Second, Back, Integral, Quietly, Calls, Infixes, Computes, Sums
<1>2. w \in Words
  <2>1. ret \in Obj /\ Top.held \in Obj
    BY <1>1, TypeOfObj, TopTree DEF IInv, TypeOK
  <2>2. a \in Int /\ b \in Int
    BY <2>1, WordsKept DEF IInv, TypeOK
  <2> HIDE DEF a, b, op
  <2>3. Computed(op, a, b) \in Int
    BY <1>1, <2>2, ComputedInt
  <2> QED
    BY <2>3, WordsKept
<1>3. /\ h \in HeapType /\ h.kind = heap.kind /\ h.cell = heap.cell /\ h.len = heap.len
      /\ \A o \in Obj : h.rc[o] = heap.rc[o] - One(Top.held, o) - One(ret, o)
  <2> DEFINE g == Unref(heap, Top.held)
  <2>1. /\ g \in HeapType /\ g.kind = heap.kind /\ g.cell = heap.cell
        /\ g.len = heap.len
        /\ \A o \in Obj : g.rc[o] = heap.rc[o] - One(Top.held, o)
    BY UnrefHeap DEF IInv, TypeOK
  <2>2. h = Unref(g, ret)
    BY DEF Dropped
  <2> HIDE DEF g, h
  <2>3. /\ h \in HeapType /\ h.kind = g.kind /\ h.cell = g.cell /\ h.len = g.len
        /\ \A o \in Obj : h.rc[o] = g.rc[o] - One(ret, o)
    BY <2>1, <2>2, UnrefHeap
  <2> QED
    BY <2>1, <2>3
<1>4. errors' \in Nat
  BY <1>1 DEF IInv, TypeOK
<1> HIDE DEF h, w
<1> QED
  BY <1>1, <1>2, <1>3, <1>4, MakeStep

(* What a container holds is kept before the container is given up.        *)
LEMMA MemberStep ==
  ASSUME IInv, Member
  PROVE  IInv'
<1> DEFINE u == HmapGets(heap, ret, Top.expr.args[2].lit)
           v == OrNull(u)
<1>1. /\ Back(Calls) /\ Top.expr.op = "DOT" /\ Top.held = NULL
      /\ ret # NULL /\ TypeOf(ret) = "hmap"
      /\ heap' = Unref(Keep(heap, u), ret) /\ Return(v)
      /\ UNCHANGED word /\ errors' = errors
  BY DEF Member, First, Back, Quietly, Calls
<1>2. ret \in Obj
  BY <1>1, TypeOfObj DEF IInv, TypeOK
<1>3. Top.expr.args[2].lit \in Slot
  <2>1. Top.expr \in Trees
    BY <1>1, TopTree
  <2>2. Top.expr.args \in Seq(Trees) /\ Len(Top.expr.args) = 2
        /\ Top.expr.args[2].op = "IDENT"
    BY <1>1, <2>1, TreeAssumption DEF WellFormed
  <2>3. Top.expr.args[2] \in Trees
    BY <2>2, ElementOfSeq
  <2> QED
    BY <2>2, <2>3, TreeAssumption DEF WellFormed, Slot
<1>4. u \in Obj \cup {NULL} /\ (u \in Obj => heap.kind[u] # "none")
  BY <1>2, <1>3, CellLives DEF HmapGets
<1> HIDE DEF u
<1>5. v \in Values /\ IF u \in Obj THEN v = u ELSE v \notin Obj
  BY <1>4, ExprAssumption, HeapAssumption DEF OrNull, Values, Static
<1> HIDE DEF v
<1>6. heap' = Unref(Unref(Keep(heap, u), ret), Top.held)
  <2>1. \A h : Unref(h, NULL) = h
    BY HeapAssumption DEF Unref
  <2> QED
    BY <1>1, <2>1
<1>7. errors' \in Nat
  BY <1>1 DEF IInv, TypeOK
<1> QED
  BY <1>1, <1>4, <1>5, <1>6, <1>7, GiveUpStep

LEMMA ElementStep ==
  ASSUME IInv, Element
  PROVE  IInv'
<1> DEFINE i == word[ret]
           v == heap.cell[Top.held][i + 1]
<1>1. /\ Back(Calls) /\ Top.expr.op = "LBRACKET" /\ Top.held # NULL
      /\ ret # NULL /\ TypeOf(ret) = "int" /\ i < heap.len[Top.held]
      /\ heap' = Unref(Unref(Keep(heap, v), ret), Top.held) /\ Return(v)
      /\ UNCHANGED word /\ errors' = errors
  BY DEF Element, Indexing, Both, Second, Back, Quietly, Calls
<1>2. ret \in Obj
  BY <1>1, TypeOfObj DEF IInv, TypeOK
<1>3. i \in Nat
  BY <1>2 DEF IInv, TypeOK, Words
<1>4. Top.held \in Obj
  BY <1>1, TopTree DEF Frame
<1>5. i + 1 \in Slot
  BY <1>1, <1>3, <1>4, HeapAssumption, Parts DEF IInv, TypeOK, Slot
<1>6. v \in Obj \cup {NULL} /\ (v \in Obj => heap.kind[v] # "none")
  BY <1>4, <1>5, CellLives
<1> HIDE DEF v
<1>7. v \in Values /\ IF v \in Obj THEN v = v ELSE v \notin Obj
  BY <1>6 DEF Values
<1>8. errors' \in Nat
  BY <1>1 DEF IInv, TypeOK
<1> QED
  BY <1>1, <1>6, <1>7, <1>8, GiveUpStep

(* An index that failed, one behind an empty vector and a quotient there   *)
(* is none of end the program and nothing else.                            *)
LEMMA CrashStep ==
  ASSUME IInv, Divide \/ IndexFails \/ WildElement
  PROVE  IInv'
<1>1. UNCHANGED <<heap, word, errors, stack, todo, ret>> /\ mode' = "crashed"
  BY DEF Divide, IndexFails, WildElement, Crash
<1>2. Control'
  BY <1>1 DEF IInv, Control
<1> QED
  BY <1>1, <1>2, SameHeapStep DEF IInv, TypeOK

(* Only what the evaluator made can die, and it has no cells to give up.   *)
LEMMA DyingIsNew ==
  ASSUME IInv, NEW o \in Obj, Dying(heap, o)
  PROVE  HostHeap.kind[o] = "none" /\ heap.kind[o] \in {"int", "text"}
<1>1. heap.kind[o] # "none" /\ heap.rc[o] = 0
  BY DEF Dying
<1>2. heap.rc[o] = HostHeap.rc[o] + Owed(stack, ret, o)
  BY DEF IInv, HostSide
<1>3. Owed(stack, ret, o) \in Nat
  BY OwedNat
<1>4. HostHeap.rc[o] \in Nat
  BY CellsNat, HostAssumption, ExprAssumption DEF Cells
<1>5. ASSUME HostHeap.kind[o] # "none" PROVE FALSE
  <2>1. HostHeap.rc[o] # 0
    BY <1>5, ExprAssumption DEF Quiet, Dying
  <2> QED
    BY <1>1, <1>2, <1>3, <1>4, <2>1
<1> QED
  BY <1>1, <1>5 DEF IInv, HostSide

LEMMA DestructStep ==
  ASSUME IInv, NEW o \in Obj, Destruct(o)
  PROVE  IInv'
<1>1. /\ mode \in {"eval", "released"} /\ Dying(heap, o) /\ heap' = Free(heap, o)
      /\ UNCHANGED <<word, errors, stack, todo, ret, mode>>
  BY DEF Destruct
<1>2. HostHeap.kind[o] = "none" /\ heap.rc[o] = 0
  BY <1>1, DyingIsNew DEF Dying
<1>3. /\ heap' \in HeapType /\ heap'.kind = [heap.kind EXCEPT ![o] = "none"]
      /\ heap'.rc = heap.rc /\ heap'.cell = heap.cell
      /\ heap'.len = [heap.len EXCEPT ![o] = 0]
  BY <1>1, FreeHeap DEF IInv, TypeOK
<1>4. heap'.len = heap.len
  <2>1. heap.len[o] = 0
    BY <1>2, HostAssumption DEF IInv, HostSide
  <2> QED
    BY <1>3, <2>1, Parts DEF IInv, TypeOK
<1>5. \A p \in Obj : heap'.kind[p] = IF p = o THEN "none" ELSE heap.kind[p]
  BY <1>3, Parts DEF IInv, TypeOK
<1>6. Control'
  BY <1>1 DEF IInv, Control
<1>7. \A p \in Obj : Owed(stack', ret', p) = Owed(stack, ret, p)
  BY <1>1
<1>8. Owed(stack, ret, o) = 0
  <2>1. heap.rc[o] = HostHeap.rc[o] + Owed(stack, ret, o)
    BY DEF IInv, HostSide
  <2>2. HostHeap.rc[o] = 0
    BY <1>2, HostAssumption
  <2> QED
    BY <1>2, <2>1, <2>2, OwedNat
<1>9. \A p \in Obj :
        /\ Owed(stack', ret', p) \in Int
        /\ heap'.rc[p] = heap.rc[p] + Owed(stack', ret', p) - Owed(stack, ret, p)
  BY <1>3, <1>7, OwedNat, Parts DEF IInv, TypeOK
<1>10. \A p \in Obj :
        /\ heap'.kind[p] = "none" => Owed(stack', ret', p) = 0
        /\ HostHeap.kind[p] # "none" =>
             heap'.kind[p] = heap.kind[p] /\ word'[p] = word[p]
        /\ HostHeap.kind[p] = "none" => heap'.kind[p] \in {"none", "int", "text"}
  BY <1>1, <1>2, <1>5, <1>7, <1>8 DEF IInv, HostSide
<1>11. /\ word' \in [Obj -> Words] /\ errors' \in Nat /\ ret' \in Values
       /\ mode' \in {"eval", "returned", "released", "crashed"}
  BY <1>1 DEF IInv, TypeOK
<1> QED
  BY <1>3, <1>4, <1>6, <1>9, <1>10, <1>11, Kept

LEMMA AnswerStep ==
  ASSUME IInv, Answer
  PROVE  IInv'
<1>1. /\ Quiet(heap) /\ todo = NoExpr /\ stack = << >> /\ mode' = "returned"
      /\ UNCHANGED <<heap, word, errors, stack, todo, ret>>
  BY DEF Answer, Evaluating
<1>2. Quiet(heap)'
  BY <1>1 DEF Quiet, Dying
<1>3. Control'
  BY <1>1, <1>2 DEF IInv, Control
<1> QED
  BY <1>1, <1>3, SameHeapStep DEF IInv, TypeOK

LEMMA ReleaseStep ==
  ASSUME IInv, Release
  PROVE  IInv'
<1>1. /\ mode = "returned" /\ heap' = Unref(heap, ret) /\ ret' = NULL
      /\ mode' = "released" /\ UNCHANGED <<word, errors, stack, todo>>
  BY DEF Release
<1>2. /\ heap' \in HeapType /\ heap'.kind = heap.kind
      /\ heap'.cell = heap.cell /\ heap'.len = heap.len
      /\ \A o \in Obj : heap'.rc[o] = heap.rc[o] - One(ret, o)
  BY <1>1, UnrefHeap DEF IInv, TypeOK
<1>3. Control'
  BY <1>1 DEF IInv, Control
<1>4. \A o \in Obj : /\ Owed(stack', ret', o) = Owed(stack, ret, o) - One(ret, o)
                     /\ Owed(stack', ret', o) \in Nat
  <2>1. \A o \in Obj : One(NULL, o) = 0
    BY HeapAssumption DEF One
  <2>2. \A o \in Obj : Owed(stack', ret', o)
                         = Cardinality(HeldIn(stack, o)) + One(NULL, o)
    BY <1>1 DEF Owed
  <2> QED
    BY <2>1, <2>2, OwedNat, OneNumber
<1>5. \A o \in Obj :
        heap'.rc[o] = heap.rc[o] + Owed(stack', ret', o) - Owed(stack, ret, o)
  <2>1. \A o \in Obj : heap.rc[o] \in Int /\ One(ret, o) \in Int
    BY Parts DEF IInv, TypeOK, One
  <2> QED
    BY <1>2, <1>4, <2>1, OwedNat
<1>6. \A o \in Obj : heap.kind[o] = "none" => Owed(stack', ret', o) = 0
  <2>1. \A o \in Obj : heap.kind[o] = "none" => Owed(stack, ret, o) = 0
    BY DEF IInv, HostSide
  <2> QED
    BY <1>4, <2>1, OneNumber
<1>7. \A o \in Obj :
        /\ HostHeap.kind[o] # "none" =>
             heap'.kind[o] = heap.kind[o] /\ word'[o] = word[o]
        /\ HostHeap.kind[o] = "none" => heap'.kind[o] \in {"none", "int", "text"}
  BY <1>1, <1>2 DEF IInv, HostSide
<1>8. \A o \in Obj : /\ Owed(stack', ret', o) \in Int
                     /\ heap'.kind[o] = "none" => Owed(stack', ret', o) = 0
  BY <1>2, <1>4, <1>6
<1>9. /\ word' \in [Obj -> Words] /\ errors' \in Nat /\ ret' \in Values
      /\ mode' \in {"eval", "returned", "released", "crashed"}
  BY <1>1 DEF IInv, TypeOK, Values
<1> QED
  BY <1>2, <1>3, <1>5, <1>7, <1>8, <1>9, Kept

(* Nothing moves.                                                          *)
LEMMA StutterStep ==
  ASSUME IInv, UNCHANGED vars
  PROVE  IInv'
<1>1. UNCHANGED <<heap, word, errors, stack, todo, ret, mode>>
  BY DEF vars
<1>2. Quiet(heap)' <=> Quiet(heap)
  BY <1>1 DEF Quiet, Dying
<1>3. Control'
  BY <1>1, <1>2 DEF IInv, Control
<1> QED
  BY <1>1, <1>3, SameHeapStep DEF IInv, TypeOK

-----------------------------------------------------------------------------
(* A render starts with nothing on the stack.                              *)
LEMMA InitInv == Init => IInv
<1> SUFFICES ASSUME Init PROVE IInv
  OBVIOUS
<1>1. /\ tree \in Trees /\ heap = HostHeap /\ word = HostWord /\ errors = 0
      /\ stack = << >> /\ todo = tree /\ ret = NULL /\ mode = "eval"
  BY DEF Init
<1>2. \A o \in Obj : Owed(stack, ret, o) = 0
  <2>1. \A o : HeldIn(<< >>, o) = {}
    BY DEF HeldIn
  <2>2. Cardinality({}) = 0
    BY FS_EmptySet
  <2> QED
    BY <1>1, <2>1, <2>2, HeapAssumption DEF Owed, One
<1>3. TypeOK
  BY <1>1, ExprAssumption DEF TypeOK, Values
<1>4. Control
  BY <1>1, EmptySeq DEF Control
<1>5. HostSide
  BY <1>1, <1>2, ExprAssumption, Parts DEF HostSide
<1> QED
  BY <1>3, <1>4, <1>5 DEF IInv

LEMMA NextInv == IInv /\ [Next]_vars => IInv'
<1> SUFFICES ASSUME IInv, [Next]_vars PROVE IInv'
  OBVIOUS
<1>1. CASE Identifier
  BY <1>1, IdentifierStep
<1>2. CASE IntLiteral
  <2>1. /\ Calling({"INT"}) /\ Make(heap, "int", todo.lit) /\ Yield(Fresh)
        /\ todo \in Trees /\ todo.op = "INT"
    BY <1>2 DEF IntLiteral, Calling, IInv, Control, NoExpr
  <2>2. todo.lit \in Words
    BY <2>1, TreeAssumption DEF WellFormed
  <2> QED
    BY <2>1, <2>2, LiteralStep
<1>3. CASE StringLiteral
  BY <1>3, LiteralStep, WordsKept DEF StringLiteral
<1>4. CASE BoolLiteral
  BY <1>4, BoolLiteralStep
<1>5. CASE Call
  BY <1>5, CallStep
<1>6. CASE Unwind
  BY <1>6, UnwindStep
<1>7. CASE Not \/ NegateFails \/ NotContainer
  BY <1>7, PrefixStep
<1>8. CASE Negate
  BY <1>8, NegateStep
<1>9. CASE Left
  BY <1>9, LeftStep
<1>10. CASE RightFails \/ Mismatch \/ Compare \/ NotIndex \/ OutOfRange
  BY <1>10, InfixStep
<1>11. CASE Arithmetic
  BY <1>11, ArithmeticStep
<1>12. CASE Divide \/ IndexFails \/ WildElement
  BY <1>12, CrashStep
<1>13. CASE Member
  BY <1>13, MemberStep
<1>14. CASE Vector
  BY <1>14, VectorStep
<1>15. CASE Element
  BY <1>15, ElementStep
<1>16. CASE \E o \in Obj : Destruct(o)
  BY <1>16, DestructStep
<1>17. CASE Answer
  BY <1>17, AnswerStep
<1>18. CASE Release
  BY <1>18, ReleaseStep
<1>19. CASE Done \/ UNCHANGED vars
  BY <1>19, StutterStep DEF Done
<1> QED
  BY <1>1, <1>2, <1>3, <1>4, <1>5, <1>6, <1>7, <1>8, <1>9, <1>10, <1>11, <1>12,
     <1>13, <1>14, <1>15, <1>16, <1>17, <1>18, <1>19 DEF Next

LEMMA InvBalanced == IInv => Balanced
<1> SUFFICES ASSUME IInv, NEW o \in Obj PROVE heap.rc[o] = Owners(o)
  BY DEF Balanced, IInv
<1>1. heap.rc[o] = HostHeap.rc[o] + Owed(stack, ret, o)
  BY DEF IInv, HostSide
<1>2. CellsOf(heap, o) = CellsOf(HostHeap, o)
  BY SameCells DEF IInv, HostSide
<1>3. HostHeap.rc[o] = HostHold[o] + Cardinality(CellsOf(heap, o))
  BY <1>2, HostAssumption
<1>4. Held(o) = HeldIn(stack, o) /\ Returned(o) = One(ret, o)
  BY DEF Held, HeldIn, Returned, One
<1>5. /\ HostHold[o] \in Nat /\ Cardinality(CellsOf(heap, o)) \in Nat
      /\ Cardinality(HeldIn(stack, o)) \in Nat /\ One(ret, o) \in Nat
  BY ExprAssumption, CellsFinite, OwedNat DEF One
<1>6. heap.rc[o] = HostHold[o] + Cardinality(CellsOf(heap, o))
                     + (Cardinality(HeldIn(stack, o)) + One(ret, o))
  BY <1>1, <1>3, OwedNat
<1> QED
  BY <1>4, <1>5, <1>6 DEF Owners

(* Every count is the number of owners, whatever the expression, the heap  *)
(* and the width: eval_expression and all below it, after every step.      *)
THEOREM CountsBalance == Spec => []Balanced
<1> QED
  BY InitInv, NextInv, InvBalanced, PTL DEF Spec

-----------------------------------------------------------------------------
(* A heap is its four parts.                                               *)
LEMMA SameHeap ==
  ASSUME NEW g \in HeapType, NEW h \in HeapType,
         \A o \in Obj : g.kind[o] = h.kind[o] /\ g.rc[o] = h.rc[o],
         g.cell = h.cell, g.len = h.len
  PROVE  g = h
<1>1. g.kind = h.kind /\ g.rc = h.rc
  BY Parts
<1> QED
  BY <1>1 DEF HeapType

(* With nothing on the stack and no destructor running, an object that the *)
(* evaluator made is gone, unless it is the value.                         *)
LEMMA WhatIsLeft ==
  ASSUME IInv, stack = << >>, Quiet(heap), NEW o \in Obj
  PROVE  /\ heap.rc[o] = HostHeap.rc[o] + One(ret, o)
         /\ ret # o \/ HostHeap.kind[o] # "none" => heap.kind[o] = HostHeap.kind[o]
<1>1. Owed(stack, ret, o) = One(ret, o)
  <2>1. HeldIn(stack, o) = {}
    BY DEF HeldIn
  <2> QED
    BY <2>1, FS_EmptySet, OneNumber DEF Owed
<1>2. heap.rc[o] = HostHeap.rc[o] + One(ret, o)
  BY <1>1 DEF IInv, HostSide
<1>3. ASSUME ret # o, HostHeap.kind[o] = "none" PROVE heap.kind[o] = "none"
  <2>1. heap.rc[o] = 0
    BY <1>2, <1>3, HostAssumption, OneNumber
  <2> QED
    BY <2>1 DEF Quiet, Dying
<1> QED
  BY <1>2, <1>3 DEF IInv, HostSide

LEMMA InvHost == IInv => HostUntouched
<1> SUFFICES ASSUME IInv PROVE HostUntouched
  OBVIOUS
<1>1. heap \in HeapType /\ HostHeap \in HeapType /\ ret \in Values
  BY ExprAssumption DEF IInv, TypeOK
<1>2. heap.cell = HostHeap.cell /\ heap.len = HostHeap.len
  BY DEF IInv, HostSide
<1>3. ASSUME mode = "released", Quiet(heap) PROVE heap = HostHeap
  <2>1. stack = << >> /\ \A o \in Obj : ret # o
    BY <1>3, HeapAssumption DEF IInv, Control
  <2>2. \A o \in Obj : heap.rc[o] = HostHeap.rc[o] + One(ret, o)
                       /\ heap.kind[o] = HostHeap.kind[o]
    BY <1>3, <2>1, WhatIsLeft
  <2>3. \A o \in Obj : heap.rc[o] = HostHeap.rc[o]
    BY <1>1, <2>1, <2>2, Parts DEF One
  <2> QED
    BY <1>1, <1>2, <2>2, <2>3, SameHeap
<1>4. ASSUME mode = "returned"
      PROVE  heap = IF ret \in Obj /\ HostHeap.kind[ret] = "none"
                    THEN New(HostHeap, ret, heap.kind[ret]) ELSE Keep(HostHeap, ret)
  <2>1. stack = << >> /\ Quiet(heap)
    BY <1>4 DEF IInv, Control
  <2>2. \A o \in Obj :
          /\ heap.rc[o] = HostHeap.rc[o] + One(ret, o)
          /\ ret # o \/ HostHeap.kind[o] # "none" => heap.kind[o] = HostHeap.kind[o]
    BY <2>1, WhatIsLeft
  <2>3. CASE ret \in Obj /\ HostHeap.kind[ret] = "none"
    <3> DEFINE k == heap.kind[ret]
               g == New(HostHeap, ret, k)
    <3>1. k \in Kind
      BY <1>1, <2>3, Parts
    <3> HIDE DEF k
    <3>2. /\ g \in HeapType
          /\ g.kind = [HostHeap.kind EXCEPT ![ret] = k]
          /\ g.rc = [HostHeap.rc EXCEPT ![ret] = 1]
          /\ g.cell = HostHeap.cell /\ g.len = HostHeap.len
      BY <1>1, <2>3, <3>1, NewHeap
    <3> HIDE DEF g
    <3>3. HostHeap.rc[ret] = 0
      BY <2>3, HostAssumption
    <3>4. \A o \in Obj : heap.rc[o] = g.rc[o]
      BY <1>1, <2>2, <2>3, <3>2, <3>3, Parts DEF One
    <3>5. \A o \in Obj : heap.kind[o] = g.kind[o]
      <4>1. ASSUME NEW o \in Obj, o # ret PROVE heap.kind[o] = g.kind[o]
        <5>1. heap.kind[o] = HostHeap.kind[o]
          BY <2>2, <4>1
        <5> QED
          BY <1>1, <2>3, <3>2, <4>1, <5>1, Parts
      <4>2. heap.kind[ret] = g.kind[ret]
        BY <1>1, <2>3, <3>2, Parts DEF k
      <4> QED
        BY <4>1, <4>2
    <3>6. heap = g
      <4>1. /\ heap \in HeapType /\ g \in HeapType
            /\ \A o \in Obj : heap.kind[o] = g.kind[o] /\ heap.rc[o] = g.rc[o]
            /\ heap.cell = g.cell /\ heap.len = g.len
        BY <1>1, <1>2, <3>2, <3>4, <3>5
      <4> QED
        BY <4>1, SameHeap
    <3> QED
      BY <2>3, <3>6 DEF g, k
  <2>4. CASE ret \in Obj /\ HostHeap.kind[ret] # "none"
    <3> DEFINE g == Ref(HostHeap, ret)
    <3>1. /\ g \in HeapType /\ g.kind = HostHeap.kind
          /\ g.rc = [HostHeap.rc EXCEPT ![ret] = HostHeap.rc[ret] + 1]
          /\ g.cell = HostHeap.cell /\ g.len = HostHeap.len
      BY <1>1, <2>4, RefHeap
    <3> HIDE DEF g
    <3>2. \A o \in Obj : heap.rc[o] = g.rc[o]
      BY <1>1, <2>2, <2>4, <3>1, Parts DEF One
    <3>3. \A o \in Obj : heap.kind[o] = g.kind[o]
      <4> SUFFICES ASSUME NEW o \in Obj PROVE heap.kind[o] = HostHeap.kind[o]
        BY <3>1
      <4> QED
        BY <2>2, <2>4
    <3>4. heap = g
      <4>1. /\ heap \in HeapType /\ g \in HeapType
            /\ \A o \in Obj : heap.kind[o] = g.kind[o] /\ heap.rc[o] = g.rc[o]
            /\ heap.cell = g.cell /\ heap.len = g.len
        BY <1>1, <1>2, <3>1, <3>2, <3>3
      <4> QED
        BY <4>1, SameHeap
    <3> QED
      BY <2>4, <3>4 DEF g, Keep
  <2>5. CASE ret \notin Obj
    <3>1. \A o \in Obj : heap.rc[o] = HostHeap.rc[o] /\ heap.kind[o] = HostHeap.kind[o]
      BY <1>1, <2>2, <2>5, Parts DEF One
    <3>2. heap = HostHeap
      BY <1>1, <1>2, <3>1, SameHeap
    <3> QED
      BY <2>5, <3>2 DEF Keep
  <2> QED
    BY <2>3, <2>4, <2>5
<1>5. \A o \in Obj : HostHeap.kind[o] # "none" => word[o] = HostWord[o]
  BY DEF IInv, HostSide
<1> QED
  BY <1>3, <1>4, <1>5 DEF HostUntouched

(* Once it has returned, an evaluation has left one reference to its value *)
(* and nothing else; once the value is given back, it has left nothing.    *)
THEOREM HostIsUntouched == Spec => []HostUntouched
<1> QED
  BY InitInv, NextInv, InvHost, PTL DEF Spec
=============================================================================
