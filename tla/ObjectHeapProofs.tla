-------------------------- MODULE ObjectHeapProofs --------------------------
(***************************************************************************)
(* Facts about the heap operators: how each of them changes the number of  *)
(* cells that point at an object.  They are stated for every heap, not     *)
(* only for those a behaviour reaches.                                     *)
(***************************************************************************)
EXTENDS ObjectHeap, FiniteSetTheorems, TLAPS

(* 1 when two pointers are equal, 0 otherwise.                             *)
One(v, o) == IF v = o THEN 1 ELSE 0

(* There are finitely many cells, so the cells that point at an object can *)
(* be counted.                                                             *)
LEMMA CellsFinite ==
  ASSUME NEW h, NEW o
  PROVE  /\ IsFiniteSet(CellsOf(h, o))
         /\ Cardinality(CellsOf(h, o)) \in Nat
<1>1. IsFiniteSet(1 .. MaxLen)
  BY HeapAssumption, FS_Interval
<1>2. IsFiniteSet(Slot)
  BY <1>1, HeapAssumption, FS_Union DEF Slot
<1>3. IsFiniteSet(Obj \X Slot)
  BY <1>2, HeapAssumption, FS_Product
<1>4. CellsOf(h, o) \subseteq Obj \X Slot
  BY DEF CellsOf
<1> QED
  BY <1>3, <1>4, FS_Subset, FS_CardinalityType

(* Writing one cell: the object it pointed at is referenced once less, the *)
(* object it points at now once more.                                      *)
LEMMA PutCount ==
  ASSUME NEW h \in HeapType, NEW c \in Obj, NEW s \in Slot,
         NEW v \in Obj \cup {NULL}, NEW o \in Obj
  PROVE  Cardinality(CellsOf(Put(h, c, s, v), o))
           = Cardinality(CellsOf(h, o)) - One(h.cell[c][s], o) + One(v, o)
<1> DEFINE A == CellsOf(h, o)
           B == CellsOf(Put(h, c, s, v), o)
           R == A \ {<<c, s>>}
<1>1. /\ IsFiniteSet(A) /\ Cardinality(A) \in Nat
      /\ IsFiniteSet(R) /\ Cardinality(R) \in Nat
  BY CellsFinite, FS_Subset, FS_CardinalityType
<1>2. Put(h, c, s, v).cell
        = [h.cell EXCEPT ![c] = [h.cell[c] EXCEPT ![s] = v]]
  BY DEF Put, HeapType
<1>3. \A p \in Obj, t \in Slot :
        Put(h, c, s, v).cell[p][t]
          = IF p = c /\ t = s THEN v ELSE h.cell[p][t]
  BY <1>2 DEF HeapType
<1>4. B = R \cup (IF v = o THEN {<<c, s>>} ELSE {})
  <2>1. \A q \in Obj \X Slot :
          q \in B <=> q \in R \/ (v = o /\ q = <<c, s>>)
    BY <1>3 DEF CellsOf
  <2> QED
    BY <2>1 DEF CellsOf
<1>5. Cardinality(R) = Cardinality(A) - One(h.cell[c][s], o)
  <2>1. <<c, s>> \in A <=> h.cell[c][s] = o
    BY DEF CellsOf
  <2>2. CASE <<c, s>> \in A
    BY <2>1, <2>2, <1>1, FS_RemoveElement DEF One
  <2>3. CASE <<c, s>> \notin A
    <3>1. R = A
      BY <2>3
    <3> QED
      BY <2>1, <2>3, <3>1, <1>1 DEF One
  <2> QED
    BY <2>2, <2>3
<1>6. Cardinality(B) = Cardinality(R) + One(v, o)
  <2>1. CASE v = o
    <3>1. B = R \cup {<<c, s>>} /\ <<c, s>> \notin R
      BY <1>4, <2>1
    <3> QED
      BY <2>1, <3>1, <1>1, FS_AddElement DEF One
  <2>2. CASE v # o
    <3>1. B = R
      BY <1>4, <2>2
    <3> QED
      BY <2>2, <3>1, <1>1 DEF One
  <2> QED
    BY <2>1, <2>2
<1> QED
  BY <1>5, <1>6

-----------------------------------------------------------------------------
(* Replacing one part of a heap.                                           *)
LEMMA SetKind ==
  ASSUME NEW h \in HeapType, NEW f \in [Obj -> Kind]
  PROVE  /\ [h EXCEPT !.kind = f] \in HeapType
         /\ [h EXCEPT !.kind = f].kind = f
         /\ [h EXCEPT !.kind = f].rc = h.rc
         /\ [h EXCEPT !.kind = f].cell = h.cell
         /\ [h EXCEPT !.kind = f].len = h.len
BY DEF HeapType

LEMMA SetRc ==
  ASSUME NEW h \in HeapType, NEW f \in [Obj -> Int]
  PROVE  /\ [h EXCEPT !.rc = f] \in HeapType
         /\ [h EXCEPT !.rc = f].kind = h.kind
         /\ [h EXCEPT !.rc = f].rc = f
         /\ [h EXCEPT !.rc = f].cell = h.cell
         /\ [h EXCEPT !.rc = f].len = h.len
BY DEF HeapType

LEMMA SetCell ==
  ASSUME NEW h \in HeapType, NEW f \in [Obj -> [Slot -> Obj \cup {NULL}]]
  PROVE  /\ [h EXCEPT !.cell = f] \in HeapType
         /\ [h EXCEPT !.cell = f].kind = h.kind
         /\ [h EXCEPT !.cell = f].rc = h.rc
         /\ [h EXCEPT !.cell = f].cell = f
         /\ [h EXCEPT !.cell = f].len = h.len
BY DEF HeapType

LEMMA SetLen ==
  ASSUME NEW h \in HeapType, NEW f \in [Obj -> 0 .. MaxLen]
  PROVE  /\ [h EXCEPT !.len = f] \in HeapType
         /\ [h EXCEPT !.len = f].kind = h.kind
         /\ [h EXCEPT !.len = f].rc = h.rc
         /\ [h EXCEPT !.len = f].cell = h.cell
         /\ [h EXCEPT !.len = f].len = f
BY DEF HeapType

LEMMA Parts ==
  ASSUME NEW h \in HeapType
  PROVE  /\ h.kind \in [Obj -> Kind]
         /\ h.rc \in [Obj -> Int]
         /\ h.cell \in [Obj -> [Slot -> Obj \cup {NULL}]]
         /\ h.len \in [Obj -> 0 .. MaxLen]
BY DEF HeapType

(* What each primitive changes; everything else of the heap is the same.   *)
LEMMA NewHeap ==
  ASSUME NEW h \in HeapType, NEW o \in Obj, NEW k \in Kind
  PROVE  /\ New(h, o, k) \in HeapType
         /\ New(h, o, k).kind = [h.kind EXCEPT ![o] = k]
         /\ New(h, o, k).rc = [h.rc EXCEPT ![o] = 1]
         /\ New(h, o, k).cell = h.cell
         /\ New(h, o, k).len = h.len
<1> DEFINE f == [h.kind EXCEPT ![o] = k]
           r == [h.rc EXCEPT ![o] = 1]
           g == [h EXCEPT !.kind = f]
<1>1. f \in [Obj -> Kind]
  BY Parts
<1>2. r \in [Obj -> Int]
  BY Parts
<1>3. New(h, o, k) = [g EXCEPT !.rc = r]
  BY DEF New, HeapType
<1> HIDE DEF f, r
<1>4. /\ g \in HeapType
      /\ g.kind = f
      /\ g.rc = h.rc
      /\ g.cell = h.cell
      /\ g.len = h.len
  BY <1>1, SetKind
<1> HIDE DEF g
<1>5. /\ New(h, o, k) \in HeapType
      /\ New(h, o, k).kind = f
      /\ New(h, o, k).rc = r
      /\ New(h, o, k).cell = h.cell
      /\ New(h, o, k).len = h.len
  BY <1>2, <1>3, <1>4, SetRc
<1> QED
  BY <1>5 DEF f, r

LEMMA RefHeap ==
  ASSUME NEW h \in HeapType, NEW o \in Obj
  PROVE  /\ Ref(h, o) \in HeapType
         /\ Ref(h, o).kind = h.kind
         /\ Ref(h, o).rc = [h.rc EXCEPT ![o] = h.rc[o] + 1]
         /\ Ref(h, o).cell = h.cell
         /\ Ref(h, o).len = h.len
<1> DEFINE f == [h.rc EXCEPT ![o] = h.rc[o] + 1]
<1>1. f \in [Obj -> Int]
  BY Parts
<1>2. Ref(h, o) = [h EXCEPT !.rc = f]
  BY DEF Ref
<1> HIDE DEF f
<1>3. /\ Ref(h, o) \in HeapType
      /\ Ref(h, o).kind = h.kind
      /\ Ref(h, o).rc = f
      /\ Ref(h, o).cell = h.cell
      /\ Ref(h, o).len = h.len
  BY <1>1, <1>2, SetRc
<1> QED
  BY <1>3 DEF f

LEMMA UnrefHeap ==
  ASSUME NEW h \in HeapType, NEW v
  PROVE  /\ Unref(h, v) \in HeapType
         /\ Unref(h, v).kind = h.kind
         /\ \A o \in Obj : Unref(h, v).rc[o] = h.rc[o] - One(v, o)
         /\ Unref(h, v).cell = h.cell
         /\ Unref(h, v).len = h.len
<1>1. CASE v \in Obj
  <2> DEFINE f == [h.rc EXCEPT ![v] = h.rc[v] - 1]
  <2>1. f \in [Obj -> Int]
    BY <1>1, Parts
  <2>2. Unref(h, v) = [h EXCEPT !.rc = f]
    BY <1>1 DEF Unref
  <2>3. \A o \in Obj : f[o] = h.rc[o] - One(v, o)
    BY <1>1, Parts DEF One
  <2> HIDE DEF f
  <2> QED
    BY <2>1, <2>2, <2>3, SetRc
<1>2. CASE v \notin Obj
  <2>1. Unref(h, v) = h
    BY <1>2 DEF Unref
  <2>2. \A o \in Obj : h.rc[o] = h.rc[o] - One(v, o)
    BY <1>2, Parts DEF One
  <2> QED
    BY <2>1, <2>2
<1> QED
  BY <1>1, <1>2

LEMMA PutHeap ==
  ASSUME NEW h \in HeapType, NEW c \in Obj, NEW s \in Slot,
         NEW v \in Obj \cup {NULL}
  PROVE  /\ Put(h, c, s, v) \in HeapType
         /\ Put(h, c, s, v).kind = h.kind
         /\ Put(h, c, s, v).rc = h.rc
         /\ Put(h, c, s, v).cell = [h.cell EXCEPT ![c] = [h.cell[c] EXCEPT ![s] = v]]
         /\ Put(h, c, s, v).len = h.len
<1> DEFINE f == [h.cell EXCEPT ![c] = [h.cell[c] EXCEPT ![s] = v]]
<1>1. f \in [Obj -> [Slot -> Obj \cup {NULL}]]
  BY Parts
<1>2. Put(h, c, s, v) = [h EXCEPT !.cell = f]
  BY DEF Put
<1> HIDE DEF f
<1>3. /\ Put(h, c, s, v) \in HeapType
      /\ Put(h, c, s, v).kind = h.kind
      /\ Put(h, c, s, v).rc = h.rc
      /\ Put(h, c, s, v).cell = f
      /\ Put(h, c, s, v).len = h.len
  BY <1>1, <1>2, SetCell
<1> QED
  BY <1>3 DEF f

LEMMA LenHeap ==
  ASSUME NEW h \in HeapType, NEW o \in Obj, NEW n \in 0 .. MaxLen
  PROVE  /\ [h EXCEPT !.len[o] = n] \in HeapType
         /\ [h EXCEPT !.len[o] = n].kind = h.kind
         /\ [h EXCEPT !.len[o] = n].rc = h.rc
         /\ [h EXCEPT !.len[o] = n].cell = h.cell
         /\ [h EXCEPT !.len[o] = n].len = [h.len EXCEPT ![o] = n]
<1>1. [h.len EXCEPT ![o] = n] \in [Obj -> 0 .. MaxLen]
  BY Parts
<1> QED
  BY <1>1, SetLen

LEMMA FreeHeap ==
  ASSUME NEW h \in HeapType, NEW o \in Obj
  PROVE  /\ Free(h, o) \in HeapType
         /\ Free(h, o).kind = [h.kind EXCEPT ![o] = "none"]
         /\ Free(h, o).rc = h.rc
         /\ Free(h, o).cell = h.cell
         /\ Free(h, o).len = [h.len EXCEPT ![o] = 0]
<1> DEFINE f == [h.kind EXCEPT ![o] = "none"]
           r == [h.len EXCEPT ![o] = 0]
           g == [h EXCEPT !.kind = f]
<1>1. f \in [Obj -> Kind]
  BY Parts, HeapAssumption DEF Kind
<1>2. r \in [Obj -> 0 .. MaxLen]
  BY Parts, HeapAssumption DEF Kind
<1>3. Free(h, o) = [g EXCEPT !.len = r]
  BY DEF Free, HeapType
<1> HIDE DEF f, r
<1>4. /\ g \in HeapType
      /\ g.kind = f
      /\ g.rc = h.rc
      /\ g.cell = h.cell
      /\ g.len = h.len
  BY <1>1, SetKind
<1> HIDE DEF g
<1>5. /\ Free(h, o) \in HeapType
      /\ Free(h, o).kind = f
      /\ Free(h, o).rc = h.rc
      /\ Free(h, o).cell = h.cell
      /\ Free(h, o).len = r
  BY <1>2, <1>3, <1>4, SetLen
<1> QED
  BY <1>5 DEF f, r

(* Two heaps with the same cells agree on what points at an object.        *)
LEMMA SameCells ==
  ASSUME NEW h, NEW g, h.cell = g.cell, NEW o
  PROVE  CellsOf(h, o) = CellsOf(g, o)
BY DEF CellsOf

-----------------------------------------------------------------------------
(* The operations of the library, in terms of the count of every object    *)
(* and of the number of cells that point at it.                            *)
Cells(h, o) == Cardinality(CellsOf(h, o))

LEMMA CellsNat ==
  ASSUME NEW h, NEW o
  PROVE  Cells(h, o) \in Nat
BY CellsFinite DEF Cells

(* A cell that points at an object is counted, and a count above zero      *)
(* names a cell.                                                           *)
LEMMA CellCounted ==
  ASSUME NEW h, NEW o
  PROVE  Cells(h, o) > 0 <=>
           \E p \in Obj, s \in Slot : h.cell[p][s] = o
<1>1. Cells(h, o) = 0 <=> CellsOf(h, o) = {}
  BY CellsFinite, FS_EmptySet DEF Cells
<1>2. ASSUME NEW p \in Obj, NEW s \in Slot, h.cell[p][s] = o
      PROVE  CellsOf(h, o) # {}
  <2>1. <<p, s>> \in CellsOf(h, o)
    BY <1>2 DEF CellsOf
  <2> QED
    BY <2>1
<1>3. ASSUME CellsOf(h, o) # {}
      PROVE  \E p \in Obj, s \in Slot : h.cell[p][s] = o
  <2>1. PICK cs \in Obj \X Slot : h.cell[cs[1]][cs[2]] = o
    BY <1>3 DEF CellsOf
  <2> QED
    BY <2>1
<1> QED
  BY <1>1, <1>2, <1>3, CellsNat

LEMMA SetsHeap ==
  ASSUME NEW h \in HeapType, NEW c \in Obj, NEW s \in Slot, NEW v \in Obj
  PROVE  /\ HmapSets(h, c, s, v) \in HeapType
         /\ HmapSets(h, c, s, v).kind = h.kind
         /\ HmapSets(h, c, s, v).len = h.len
         /\ HmapSets(h, c, s, v).cell
              = [h.cell EXCEPT ![c] = [h.cell[c] EXCEPT ![s] = v]]
         /\ \A o \in Obj :
              /\ HmapSets(h, c, s, v).rc[o] = h.rc[o] + One(v, o)
              /\ Cells(HmapSets(h, c, s, v), o)
                   = Cells(h, o) - One(h.cell[c][s], o) + One(v, o)
<1> DEFINE g == Ref(h, v)
<1>1. /\ g \in HeapType /\ g.kind = h.kind /\ g.len = h.len
      /\ g.cell = h.cell /\ g.rc = [h.rc EXCEPT ![v] = h.rc[v] + 1]
  BY RefHeap
<1>2. \A o \in Obj : g.rc[o] = h.rc[o] + One(v, o)
  BY <1>1, Parts DEF One
<1>3. \A o \in Obj : Cells(g, o) = Cells(h, o)
  BY <1>1, SameCells DEF Cells
<1>4. HmapSets(h, c, s, v) = Put(g, c, s, v)
  BY DEF HmapSets
<1> HIDE DEF g
<1>5. \A o \in Obj : Cells(Put(g, c, s, v), o)
                       = Cells(g, o) - One(g.cell[c][s], o) + One(v, o)
  BY <1>1, PutCount DEF Cells
<1>6. /\ Put(g, c, s, v) \in HeapType
      /\ Put(g, c, s, v).kind = g.kind
      /\ Put(g, c, s, v).rc = g.rc
      /\ Put(g, c, s, v).len = g.len
      /\ Put(g, c, s, v).cell
           = [g.cell EXCEPT ![c] = [g.cell[c] EXCEPT ![s] = v]]
  BY <1>1, PutHeap
<1> QED
  BY <1>1, <1>2, <1>3, <1>4, <1>5, <1>6

LEMMA PopsHeap ==
  ASSUME NEW h \in HeapType, NEW c \in Obj, NEW s \in Slot
  PROVE  /\ Put(h, c, s, NULL) \in HeapType
         /\ \A o \in Obj : Cells(Put(h, c, s, NULL), o)
                             = Cells(h, o) - One(h.cell[c][s], o)
<1>1. \A o \in Obj : One(NULL, o) = 0
  BY HeapAssumption DEF One
<1>2. \A o \in Obj : One(h.cell[c][s], o) \in Int
  BY DEF One
<1>3. \A o \in Obj : Cells(Put(h, c, s, NULL), o)
        = Cells(h, o) - One(h.cell[c][s], o) + One(NULL, o)
  BY PutCount DEF Cells
<1>4. \A o \in Obj : Cells(h, o) \in Int
  BY CellsNat
<1>5. NULL \in Obj \cup {NULL}
  OBVIOUS
<1>6. Put(h, c, s, NULL) \in HeapType
  BY <1>5, PutHeap
<1>7. \A o \in Obj : Cells(Put(h, c, s, NULL), o)
                       = Cells(h, o) - One(h.cell[c][s], o)
  BY <1>1, <1>2, <1>3, <1>4
<1> QED
  BY <1>6, <1>7

(* Taking a cell's pointer out and dropping the reference that came with   *)
(* it: an unset, and one turn of a destructor's loop.                      *)
LEMMA ReapHeap ==
  ASSUME NEW h \in HeapType, NEW c \in Obj, NEW s \in Slot
  PROVE  /\ Reap(h, c, s) \in HeapType
         /\ Reap(h, c, s).kind = h.kind
         /\ Reap(h, c, s).len = h.len
         /\ Reap(h, c, s).cell
              = [h.cell EXCEPT ![c] = [h.cell[c] EXCEPT ![s] = NULL]]
         /\ \A o \in Obj :
              /\ Reap(h, c, s).rc[o] = h.rc[o] - One(h.cell[c][s], o)
              /\ Cells(Reap(h, c, s), o)
                   = Cells(h, o) - One(h.cell[c][s], o)
<1> DEFINE g == Put(h, c, s, NULL)
           v == h.cell[c][s]
<1>1. v \in Obj \cup {NULL}
  BY Parts
<1>2. /\ g \in HeapType /\ g.kind = h.kind /\ g.len = h.len /\ g.rc = h.rc
      /\ g.cell = [h.cell EXCEPT ![c] = [h.cell[c] EXCEPT ![s] = NULL]]
  BY PutHeap
<1>3. \A o \in Obj : Cells(g, o) = Cells(h, o) - One(v, o)
  BY PopsHeap
<1>4. Reap(h, c, s) = Unref(g, v)
  BY DEF Reap
<1> HIDE DEF g, v
<1>5. /\ Unref(g, v) \in HeapType
      /\ Unref(g, v).kind = g.kind
      /\ \A o \in Obj : Unref(g, v).rc[o] = g.rc[o] - One(v, o)
      /\ Unref(g, v).cell = g.cell
      /\ Unref(g, v).len = g.len
  BY <1>1, <1>2, UnrefHeap
<1>6. \A o \in Obj : Cells(Unref(g, v), o) = Cells(g, o)
  BY <1>5, SameCells DEF Cells
<1>7. /\ Reap(h, c, s) \in HeapType
      /\ Reap(h, c, s).kind = h.kind
      /\ Reap(h, c, s).len = h.len
      /\ Reap(h, c, s).cell
           = [h.cell EXCEPT ![c] = [h.cell[c] EXCEPT ![s] = NULL]]
  BY <1>2, <1>4, <1>5
<1>8. \A o \in Obj : /\ Reap(h, c, s).rc[o] = h.rc[o] - One(v, o)
                       /\ Cells(Reap(h, c, s), o) = Cells(h, o) - One(v, o)
  BY <1>2, <1>3, <1>4, <1>5, <1>6
<1> QED
  BY <1>7, <1>8 DEF v

LEMMA PushHeap ==
  ASSUME NEW h \in HeapType, NEW v \in Obj, NEW x \in Obj,
         h.len[v] < MaxLen
  PROVE  LET n == h.len[v] + 1 IN
         /\ n \in Slot
         /\ VectorPush(h, v, x) \in HeapType
         /\ VectorPush(h, v, x).kind = h.kind
         /\ VectorPush(h, v, x).len = [h.len EXCEPT ![v] = n]
         /\ VectorPush(h, v, x).cell
              = [h.cell EXCEPT ![v] = [h.cell[v] EXCEPT ![n] = x]]
         /\ \A o \in Obj :
              /\ VectorPush(h, v, x).rc[o] = h.rc[o] + One(x, o)
              /\ Cells(VectorPush(h, v, x), o)
                   = Cells(h, o) - One(h.cell[v][n], o) + One(x, o)
<1> DEFINE n == h.len[v] + 1
           f == Ref(h, x)
           g == [f EXCEPT !.len[v] = n]
<1>1. /\ h.len[v] \in Nat
      /\ n \in 0 .. MaxLen
      /\ n \in Slot
  BY HeapAssumption, Parts DEF Slot
<1>2. VectorPush(h, v, x) = Put(g, v, n, x)
  BY DEF VectorPush
<1> HIDE DEF n
<1>3. /\ f \in HeapType /\ f.kind = h.kind /\ f.len = h.len
      /\ f.cell = h.cell /\ f.rc = [h.rc EXCEPT ![x] = h.rc[x] + 1]
  BY RefHeap
<1> HIDE DEF f
<1>4. /\ g \in HeapType /\ g.kind = h.kind /\ g.cell = h.cell
      /\ g.rc = f.rc /\ g.len = [h.len EXCEPT ![v] = n]
  BY <1>1, <1>3, LenHeap
<1> HIDE DEF g
<1>5. \A o \in Obj : g.rc[o] = h.rc[o] + One(x, o)
  BY <1>3, <1>4, Parts DEF One
<1>6. \A o \in Obj : Cells(g, o) = Cells(h, o)
  BY <1>4, SameCells DEF Cells
<1>7. \A o \in Obj : Cells(Put(g, v, n, x), o)
                       = Cells(g, o) - One(g.cell[v][n], o) + One(x, o)
  BY <1>1, <1>4, PutCount DEF Cells
<1>8. /\ Put(g, v, n, x) \in HeapType
      /\ Put(g, v, n, x).kind = g.kind
      /\ Put(g, v, n, x).rc = g.rc
      /\ Put(g, v, n, x).len = g.len
      /\ Put(g, v, n, x).cell
           = [g.cell EXCEPT ![v] = [g.cell[v] EXCEPT ![n] = x]]
  BY <1>1, <1>4, PutHeap
<1>9. /\ n \in Slot
      /\ VectorPush(h, v, x) \in HeapType
      /\ VectorPush(h, v, x).kind = h.kind
      /\ VectorPush(h, v, x).len = [h.len EXCEPT ![v] = n]
      /\ VectorPush(h, v, x).cell
           = [h.cell EXCEPT ![v] = [h.cell[v] EXCEPT ![n] = x]]
  BY <1>1, <1>2, <1>4, <1>8
<1>10. \A o \in Obj :
         /\ VectorPush(h, v, x).rc[o] = h.rc[o] + One(x, o)
         /\ Cells(VectorPush(h, v, x), o)
              = Cells(h, o) - One(h.cell[v][n], o) + One(x, o)
  BY <1>2, <1>4, <1>5, <1>6, <1>7, <1>8
<1> QED
  BY <1>9, <1>10 DEF n

LEMMA VectorPopHeap ==
  ASSUME NEW h \in HeapType, NEW v \in Obj, h.len[v] # 0
  PROVE  LET n == h.len[v] IN
         /\ n \in Slot
         /\ VectorPop(h, v) \in HeapType
         /\ VectorPop(h, v).kind = h.kind
         /\ VectorPop(h, v).rc = h.rc
         /\ VectorPop(h, v).len = [h.len EXCEPT ![v] = n - 1]
         /\ VectorPop(h, v).cell
              = [h.cell EXCEPT ![v] = [h.cell[v] EXCEPT ![n] = NULL]]
         /\ \A o \in Obj : Cells(VectorPop(h, v), o)
                             = Cells(h, o) - One(h.cell[v][n], o)
<1> DEFINE n == h.len[v]
           m == n - 1
           g == [h EXCEPT !.len[v] = m]
<1>0. n \in 0 .. MaxLen /\ MaxLen \in Nat /\ n # 0
  BY HeapAssumption, Parts
<1>1. n \in Nat /\ m \in 0 .. MaxLen /\ n \in Slot
  BY <1>0 DEF Slot
<1>2. VectorPop(h, v) = Put(g, v, n, NULL)
  BY DEF VectorPop
<1> HIDE DEF m
<1>3. /\ g \in HeapType /\ g.kind = h.kind /\ g.cell = h.cell
      /\ g.rc = h.rc /\ g.len = [h.len EXCEPT ![v] = m]
  BY <1>1, LenHeap
<1> HIDE DEF g, n
<1>4. \A o \in Obj : Cells(g, o) = Cells(h, o)
  BY <1>3, SameCells DEF Cells
<1>5. \A o \in Obj : Cells(Put(g, v, n, NULL), o)
                       = Cells(g, o) - One(g.cell[v][n], o)
  BY <1>1, <1>3, PopsHeap
<1>6. /\ Put(g, v, n, NULL) \in HeapType
      /\ Put(g, v, n, NULL).kind = g.kind
      /\ Put(g, v, n, NULL).rc = g.rc
      /\ Put(g, v, n, NULL).len = g.len
      /\ Put(g, v, n, NULL).cell
           = [g.cell EXCEPT ![v] = [g.cell[v] EXCEPT ![n] = NULL]]
  BY <1>1, <1>3, PutHeap
<1>7. /\ n \in Slot
      /\ VectorPop(h, v) \in HeapType
      /\ VectorPop(h, v).kind = h.kind
      /\ VectorPop(h, v).rc = h.rc
      /\ VectorPop(h, v).len = [h.len EXCEPT ![v] = m]
      /\ VectorPop(h, v).cell
           = [h.cell EXCEPT ![v] = [h.cell[v] EXCEPT ![n] = NULL]]
      /\ \A o \in Obj : Cells(VectorPop(h, v), o)
                          = Cells(h, o) - One(h.cell[v][n], o)
  BY <1>1, <1>2, <1>3, <1>4, <1>5, <1>6
<1> QED
  BY <1>7 DEF n, m
=============================================================================
