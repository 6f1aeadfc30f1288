---------------------------- MODULE ObjectsProofs ----------------------------
(***************************************************************************)
(* The counts of src/object.c are right for every number of objects, keys  *)
(* and references, and for vectors of every length.  IInv is inductive:    *)
(* the counts alone are not, because a write to a cell that is wrongly in  *)
(* use would lose the reference it held; Shape says that a push finds its  *)
(* cell empty and that memory about to be allocated points nowhere.        *)
(***************************************************************************)
EXTENDS Objects, ObjectHeapProofs

IInv == TypeOK /\ Shape /\ RefExact

-----------------------------------------------------------------------------
(* The host's references.                                                  *)
LEMMA TakeHold ==
  ASSUME hold \in [Obj -> Nat], NEW v \in Obj, Take(v)
  PROVE  /\ hold' \in [Obj -> Nat]
         /\ \A o \in Obj : hold'[o] = hold[o] + One(v, o)
BY DEF Take, One

LEMMA TakeAnyHold ==
  ASSUME hold \in [Obj -> Nat], NEW v \in Obj \cup {NULL}, TakeAny(v)
  PROVE  /\ hold' \in [Obj -> Nat]
         /\ \A o \in Obj : hold'[o] = hold[o] + One(v, o)
<1>1. CASE v \in Obj
  BY <1>1, TakeHold DEF TakeAny
<1>2. CASE v \notin Obj
  BY <1>2 DEF TakeAny, One
<1> QED
  BY <1>1, <1>2

(* Everything that is counted is a number.                                 *)
LEMMA Numbers ==
  ASSUME IInv
  PROVE  \A o \in Obj : /\ heap.rc[o] \in Int
                         /\ hold[o] \in Nat
                         /\ Cells(heap, o) \in Nat
BY Parts, CellsNat DEF IInv, TypeOK

LEMMA OneNumber == \A v, o : One(v, o) \in {0, 1}
BY DEF One

(* A step that gives every object as many new owners as it adds to its     *)
(* count keeps the counts exact.                                           *)
LEMMA Balanced ==
  ASSUME IInv, heap' \in HeapType, hold' \in [Obj -> Nat],
         \A o \in Obj : heap'.rc[o] - heap.rc[o]
           = (hold'[o] - hold[o]) + (Cells(heap', o) - Cells(heap, o))
  PROVE  TypeOK' /\ RefExact'
<1>1. \A o \in Obj : /\ heap.rc[o] \in Int /\ heap'.rc[o] \in Int
                     /\ hold[o] \in Nat /\ hold'[o] \in Nat
  BY Parts DEF IInv, TypeOK
<1>2. \A o \in Obj : Cells(heap, o) \in Nat /\ Cells(heap', o) \in Nat
  BY CellsNat
<1>3. \A o \in Obj : heap.rc[o] = hold[o] + Cells(heap, o)
  BY DEF IInv, RefExact, Cells
<1>4. \A o \in Obj : heap'.rc[o] = hold'[o] + Cells(heap', o)
  BY <1>1, <1>2, <1>3
<1> QED
  BY <1>4 DEF TypeOK, RefExact, Cells

(* A step that only changes the cells and the length of one object.        *)
LEMMA ShapeKept ==
  ASSUME IInv, NEW c \in Obj,
         \A o \in Obj \ {c} : /\ heap'.kind[o] = heap.kind[o]
                              /\ heap'.len[o] = heap.len[o]
                              /\ heap'.cell[o] = heap.cell[o]
                              /\ heap.kind[o] = "none" => heap'.rc[o] = heap.rc[o],
         heap'.kind[c] # "none",
         heap'.kind[c] = "vector" =>
           \A i \in 1 .. MaxLen : i > heap'.len[c] => heap'.cell[c][i] = NULL
  PROVE  Shape'
BY DEF IInv, Shape

(* Memory that is not an object has no owner.                              *)
LEMMA NoneUnowned ==
  ASSUME IInv, NEW o \in Obj, heap.kind[o] = "none"
  PROVE  /\ hold[o] = 0
         /\ Cells(heap, o) = 0
         /\ \A p \in Obj, s \in Slot : heap.cell[p][s] # o
<1>1. heap.rc[o] = 0 /\ hold[o] \in Nat /\ Cells(heap, o) \in Nat
  BY CellsNat DEF IInv, Shape, TypeOK
<1>2. heap.rc[o] = hold[o] + Cells(heap, o)
  BY DEF IInv, RefExact, Cells
<1>3. hold[o] = 0 /\ Cells(heap, o) = 0
  BY <1>1, <1>2
<1> QED
  BY <1>3, CellCounted

-----------------------------------------------------------------------------
(* One lemma per call.                                                     *)
LEMMA NewObjectStep ==
  ASSUME IInv, NEW o \in Obj, NEW k \in Kind \ {"none"}, NewObject(o, k)
  PROVE  IInv'
<1>1. /\ heap \in HeapType /\ heap.kind[o] = "none"
      /\ heap' = New(heap, o, k) /\ Take(o) /\ hold \in [Obj -> Nat]
  BY DEF IInv, TypeOK, NewObject
<1>2. /\ heap' \in HeapType
      /\ heap'.kind = [heap.kind EXCEPT ![o] = k]
      /\ heap'.rc = [heap.rc EXCEPT ![o] = 1]
      /\ heap'.cell = heap.cell
      /\ heap'.len = heap.len
  BY <1>1, NewHeap
<1>3. /\ hold' \in [Obj -> Nat]
      /\ \A p \in Obj : hold'[p] = hold[p] + One(o, p)
  BY <1>1, TakeHold
<1>4. \A p \in Obj : Cells(heap', p) = Cells(heap, p) /\ Cells(heap, p) \in Nat
  BY <1>2, SameCells, CellsNat DEF Cells
<1>5. heap.rc[o] = 0 /\ heap.len[o] = 0 /\ heap.cell[o] = EmptyCells
  BY <1>1 DEF IInv, Shape
<1>6. \A p \in Obj : heap'.rc[p] = heap.rc[p] + One(o, p)
  BY <1>1, <1>2, <1>5, Parts DEF One
<1>7. \A p \in Obj : heap'.rc[p] - heap.rc[p]
        = (hold'[p] - hold[p]) + (Cells(heap', p) - Cells(heap, p))
  BY <1>1, <1>3, <1>4, <1>6, Parts DEF One
<1>8. Shape'
  <2>1. \A i \in 1 .. MaxLen : heap'.cell[o][i] = NULL
    BY <1>2, <1>5 DEF EmptyCells, Slot
  <2>2. heap'.kind[o] = k
    BY <1>1, <1>2, Parts
  <2>3. \A p \in Obj \ {o} : /\ heap'.kind[p] = heap.kind[p]
                             /\ heap'.len[p] = heap.len[p]
                             /\ heap'.cell[p] = heap.cell[p]
                             /\ heap'.rc[p] = heap.rc[p]
    BY <1>1, <1>2, Parts
  <2> QED
    BY <2>1, <2>2, <2>3, ShapeKept
<1> QED
  BY <1>2, <1>3, <1>7, <1>8, Balanced DEF IInv

LEMMA RefObjectStep ==
  ASSUME IInv, NEW o \in Obj, RefObject(o)
  PROVE  IInv'
<1>1. /\ heap \in HeapType /\ hold[o] > 0
      /\ heap' = Ref(heap, o) /\ Take(o) /\ hold \in [Obj -> Nat]
  BY DEF IInv, TypeOK, RefObject
<1>2. /\ heap' \in HeapType
      /\ heap'.kind = heap.kind
      /\ heap'.rc = [heap.rc EXCEPT ![o] = heap.rc[o] + 1]
      /\ heap'.cell = heap.cell
      /\ heap'.len = heap.len
  BY <1>1, RefHeap
<1>3. /\ hold' \in [Obj -> Nat]
      /\ \A p \in Obj : hold'[p] = hold[p] + One(o, p)
  BY <1>1, TakeHold
<1>4. \A p \in Obj : Cells(heap', p) = Cells(heap, p) /\ Cells(heap, p) \in Nat
  BY <1>2, SameCells, CellsNat DEF Cells
<1>5. \A p \in Obj : heap'.rc[p] = heap.rc[p] + One(o, p)
  BY <1>1, <1>2, Parts DEF One
<1>6. \A p \in Obj : heap'.rc[p] - heap.rc[p]
        = (hold'[p] - hold[p]) + (Cells(heap', p) - Cells(heap, p))
  BY <1>1, <1>3, <1>4, <1>5, Parts DEF One
<1>7. heap.kind[o] # "none"
  BY <1>1, NoneUnowned
<1>8. Shape'
  BY <1>1, <1>2, <1>7, Parts DEF IInv, Shape
<1> QED
  BY <1>2, <1>3, <1>6, <1>8, Balanced DEF IInv

LEMMA UnrefObjectStep ==
  ASSUME IInv, NEW o \in Obj, UnrefObject(o)
  PROVE  IInv'
<1>1. /\ heap \in HeapType /\ hold \in [Obj -> Nat] /\ hold[o] > 0
      /\ heap' = Unref(heap, o)
      /\ hold' = [hold EXCEPT ![o] = hold[o] - 1]
  BY DEF IInv, TypeOK, UnrefObject
<1>2. /\ heap' \in HeapType
      /\ heap'.kind = heap.kind
      /\ \A p \in Obj : heap'.rc[p] = heap.rc[p] - One(o, p)
      /\ heap'.cell = heap.cell
      /\ heap'.len = heap.len
  BY <1>1, UnrefHeap
<1>3. /\ hold' \in [Obj -> Nat]
      /\ \A p \in Obj : hold'[p] = hold[p] - One(o, p)
  BY <1>1 DEF One
<1>4. \A p \in Obj : Cells(heap', p) = Cells(heap, p) /\ Cells(heap, p) \in Nat
  BY <1>2, SameCells, CellsNat DEF Cells
<1>5. \A p \in Obj : heap'.rc[p] - heap.rc[p]
        = (hold'[p] - hold[p]) + (Cells(heap', p) - Cells(heap, p))
  BY <1>1, <1>2, <1>3, <1>4, Parts DEF One
<1>6. heap.kind[o] # "none"
  BY <1>1, NoneUnowned
<1>7. Shape'
  <2>1. \A p \in Obj : heap.kind[p] = "none" => heap'.rc[p] = heap.rc[p]
    BY <1>1, <1>2, <1>6, Parts DEF One
  <2> QED
    BY <1>2, <2>1 DEF IInv, Shape
<1> QED
  BY <1>2, <1>3, <1>5, <1>7, Balanced DEF IInv

(* A step that rewrites one cell of a live map, or of any object that is   *)
(* not a vector.                                                           *)
LEMMA ShapeCell ==
  ASSUME IInv, NEW c \in Obj, NEW s \in Slot, NEW v \in Obj \cup {NULL},
         heap.kind[c] # "none",
         heap.kind[c] = "vector" => v = NULL,
         heap'.kind = heap.kind, heap'.len = heap.len,
         heap'.cell = [heap.cell EXCEPT ![c] = [heap.cell[c] EXCEPT ![s] = v]],
         \A o \in Obj : heap.kind[o] = "none" => heap'.rc[o] = heap.rc[o]
  PROVE  Shape'
<1>1. \A o \in Obj \ {c} : heap'.cell[o] = heap.cell[o]
  BY Parts DEF IInv, TypeOK
<1>2. heap.kind[c] = "vector" =>
        \A i \in 1 .. MaxLen : i > heap'.len[c] => heap'.cell[c][i] = NULL
  BY Parts DEF IInv, TypeOK, Shape, Slot
<1> QED
  BY <1>1, <1>2, ShapeKept

LEMMA HmapSetStep ==
  ASSUME IInv, NEW m \in Obj, NEW x \in Obj, NEW k \in Key, HmapSet(m, k, x)
  PROVE  IInv'
<1> DEFINE old == heap.cell[m][k]
<1>1. /\ heap \in HeapType /\ hold \in [Obj -> Nat] /\ k \in Slot
      /\ heap.kind[m] = "hmap" /\ hold[x] > 0
      /\ heap' = HmapSets(heap, m, k, x) /\ TakeAny(old)
  BY DEF IInv, TypeOK, HmapSet, Held, HmapGets, Slot
<1>2. old \in Obj \cup {NULL}
  BY <1>1, Parts
<1>3. /\ heap' \in HeapType
      /\ heap'.kind = heap.kind
      /\ heap'.len = heap.len
      /\ heap'.cell = [heap.cell EXCEPT ![m] = [heap.cell[m] EXCEPT ![k] = x]]
      /\ \A o \in Obj :
           /\ heap'.rc[o] = heap.rc[o] + One(x, o)
           /\ Cells(heap', o) = Cells(heap, o) - One(old, o) + One(x, o)
  BY <1>1, SetsHeap
<1> HIDE DEF old
<1>4. /\ hold' \in [Obj -> Nat]
      /\ \A o \in Obj : hold'[o] = hold[o] + One(old, o)
  BY <1>1, <1>2, TakeAnyHold
<1>5. \A o \in Obj : heap'.rc[o] - heap.rc[o]
        = (hold'[o] - hold[o]) + (Cells(heap', o) - Cells(heap, o))
  BY <1>1, <1>3, <1>4, Numbers, OneNumber
<1>6. Shape'
  <2>1. heap.kind[x] # "none"
    BY <1>1, NoneUnowned
  <2>2. \A o \in Obj : heap.kind[o] = "none" => heap'.rc[o] = heap.rc[o]
    BY <1>1, <1>3, <2>1, Parts DEF One
  <2> QED
    BY <1>1, <1>3, <2>2, ShapeCell
<1> QED
  BY <1>3, <1>4, <1>5, <1>6, Balanced DEF IInv

LEMMA HmapSetNewStep ==
  ASSUME IInv, NEW m \in Obj, NEW x \in Obj, NEW k \in Key,
         NEW kd \in Kind \ {"none"}, HmapSetNew(m, k, x, kd)
  PROVE  IInv'
<1> DEFINE old == heap.cell[m][k]
           g   == New(heap, x, kd)
<1>1. /\ heap \in HeapType /\ hold \in [Obj -> Nat] /\ k \in Slot
      /\ heap.kind[m] = "hmap" /\ heap.kind[x] = "none" /\ m # x
      /\ heap' = Put(g, m, k, x) /\ TakeAny(old)
  BY DEF IInv, TypeOK, HmapSetNew, Held, HmapGets, Slot
<1>2. old \in Obj \cup {NULL}
  BY <1>1, Parts
<1>3. /\ g \in HeapType
      /\ g.kind = [heap.kind EXCEPT ![x] = kd]
      /\ g.rc = [heap.rc EXCEPT ![x] = 1]
      /\ g.cell = heap.cell
      /\ g.len = heap.len
  BY <1>1, NewHeap
<1> HIDE DEF g
<1>4. \A o \in Obj : Cells(g, o) = Cells(heap, o)
  BY <1>3, SameCells DEF Cells
<1>5. /\ heap' \in HeapType
      /\ heap'.kind = g.kind
      /\ heap'.rc = g.rc
      /\ heap'.cell = [g.cell EXCEPT ![m] = [g.cell[m] EXCEPT ![k] = x]]
      /\ heap'.len = g.len
  <2>1. g \in HeapType /\ k \in Slot /\ x \in Obj \cup {NULL}
    BY <1>1, <1>3
  <2> DEFINE f == Put(g, m, k, x)
  <2>2. /\ f \in HeapType /\ f.kind = g.kind /\ f.rc = g.rc /\ f.len = g.len
        /\ f.cell = [g.cell EXCEPT ![m] = [g.cell[m] EXCEPT ![k] = x]]
    BY <2>1, PutHeap
  <2>3. heap' = f
    BY <1>1
  <2> HIDE DEF f
  <2> QED
    BY <2>2, <2>3
<1>6. \A o \in Obj : Cells(heap', o) = Cells(g, o) - One(g.cell[m][k], o)
                                                   + One(x, o)
  BY <1>1, <1>3, PutCount DEF Cells
<1>7. g.cell[m][k] = old
  BY <1>3
<1> HIDE DEF old
<1>8. /\ hold' \in [Obj -> Nat]
      /\ \A o \in Obj : hold'[o] = hold[o] + One(old, o)
  BY <1>1, <1>2, TakeAnyHold
<1>9. heap.rc[x] = 0 /\ heap.len[x] = 0 /\ heap.cell[x] = EmptyCells
  BY <1>1 DEF IInv, Shape
<1>10. \A o \in Obj : heap'.rc[o] = heap.rc[o] + One(x, o)
  BY <1>1, <1>3, <1>5, <1>9, Parts DEF One
<1>11. \A o \in Obj : heap'.rc[o] - heap.rc[o]
         = (hold'[o] - hold[o]) + (Cells(heap', o) - Cells(heap, o))
  <2>1. \A o \in Obj : Cells(heap', o) = Cells(heap, o) - One(old, o)
                                                        + One(x, o)
    BY <1>4, <1>6, <1>7
  <2> QED
    BY <1>1, <1>8, <1>10, <2>1, Numbers, OneNumber
<1>12. Shape'
  <2>1. \A o \in Obj \ {m, x} : /\ heap'.kind[o] = heap.kind[o]
                                 /\ heap'.len[o] = heap.len[o]
                                 /\ heap'.cell[o] = heap.cell[o]
                                 /\ heap'.rc[o] = heap.rc[o]
    BY <1>1, <1>3, <1>5, Parts
  <2>2. heap'.kind[m] = "hmap"
    BY <1>1, <1>3, <1>5, Parts
  <2>3. heap'.kind[x] = kd /\ heap'.cell[x] = EmptyCells
    BY <1>1, <1>3, <1>5, <1>9, Parts
  <2>4. \A i \in 1 .. MaxLen : heap'.cell[x][i] = NULL
    BY <2>3 DEF EmptyCells, Slot
  <2> QED
    BY <2>1, <2>2, <2>3, <2>4 DEF IInv, Shape
<1> QED
  BY <1>5, <1>8, <1>11, <1>12, Balanced DEF IInv

LEMMA HmapGetStep ==
  ASSUME IInv, NEW m \in Obj, NEW k \in Key, HmapGet(m, k)
  PROVE  IInv'
<1> DEFINE v == heap.cell[m][k]
<1>1. /\ heap \in HeapType /\ hold \in [Obj -> Nat] /\ k \in Slot
      /\ v \in Obj /\ heap' = Ref(heap, v) /\ Take(v)
  BY DEF IInv, TypeOK, HmapGet, HmapGets, Slot
<1>2. heap.kind[v] # "none"
  BY <1>1, NoneUnowned
<1> HIDE DEF v
<1>3. /\ heap' \in HeapType
      /\ heap'.kind = heap.kind
      /\ heap'.rc = [heap.rc EXCEPT ![v] = heap.rc[v] + 1]
      /\ heap'.cell = heap.cell
      /\ heap'.len = heap.len
  BY <1>1, RefHeap
<1>4. /\ hold' \in [Obj -> Nat]
      /\ \A p \in Obj : hold'[p] = hold[p] + One(v, p)
  BY <1>1, TakeHold
<1>5. \A p \in Obj : Cells(heap', p) = Cells(heap, p) /\ Cells(heap, p) \in Nat
  BY <1>3, SameCells, CellsNat DEF Cells
<1>6. \A p \in Obj : heap'.rc[p] = heap.rc[p] + One(v, p)
  BY <1>1, <1>3, Parts DEF One
<1>7. \A p \in Obj : heap'.rc[p] - heap.rc[p]
        = (hold'[p] - hold[p]) + (Cells(heap', p) - Cells(heap, p))
  BY <1>1, <1>4, <1>5, <1>6, Parts DEF One
<1>8. Shape'
  BY <1>1, <1>2, <1>3, Parts DEF IInv, Shape
<1> QED
  BY <1>3, <1>4, <1>7, <1>8, Balanced DEF IInv

LEMMA HmapPopStep ==
  ASSUME IInv, NEW m \in Obj, NEW k \in Key, HmapPop(m, k)
  PROVE  IInv'
<1> DEFINE old == heap.cell[m][k]
<1>1. /\ heap \in HeapType /\ hold \in [Obj -> Nat] /\ k \in Slot
      /\ heap.kind[m] = "hmap"
      /\ heap' = Put(heap, m, k, NULL) /\ TakeAny(old)
  BY DEF IInv, TypeOK, HmapPop, HmapPops, Held, HmapGets, Slot
<1>2. old \in Obj \cup {NULL}
  BY <1>1, Parts
<1>3. /\ heap' \in HeapType
      /\ heap'.kind = heap.kind
      /\ heap'.rc = heap.rc
      /\ heap'.len = heap.len
      /\ heap'.cell
           = [heap.cell EXCEPT ![m] = [heap.cell[m] EXCEPT ![k] = NULL]]
  <2> DEFINE f == Put(heap, m, k, NULL)
  <2>0. heap \in HeapType /\ k \in Slot /\ NULL \in Obj \cup {NULL}
    BY <1>1
  <2>1. /\ f \in HeapType /\ f.kind = heap.kind /\ f.rc = heap.rc
        /\ f.len = heap.len
        /\ f.cell = [heap.cell EXCEPT ![m] = [heap.cell[m] EXCEPT ![k] = NULL]]
    BY <2>0, PutHeap
  <2>2. heap' = f
    BY <1>1
  <2> HIDE DEF f
  <2> QED
    BY <2>1, <2>2
<1>4. \A o \in Obj : Cells(heap', o) = Cells(heap, o) - One(old, o)
  BY <1>1, PopsHeap
<1> HIDE DEF old
<1>5. /\ hold' \in [Obj -> Nat]
      /\ \A o \in Obj : hold'[o] = hold[o] + One(old, o)
  BY <1>1, <1>2, TakeAnyHold
<1>6. \A o \in Obj : heap'.rc[o] - heap.rc[o]
        = (hold'[o] - hold[o]) + (Cells(heap', o) - Cells(heap, o))
  BY <1>1, <1>3, <1>4, <1>5, Numbers, OneNumber
<1>7. Shape'
  BY <1>1, <1>3, ShapeCell
<1> QED
  BY <1>3, <1>5, <1>6, <1>7, Balanced DEF IInv

(* A cell that is taken out and given back: an unset of a map, or a turn   *)
(* of a destructor's loop.                                                 *)
LEMMA ReapStep ==
  ASSUME IInv, NEW c \in Obj, NEW s \in Slot, heap.kind[c] # "none",
         heap' = Reap(heap, c, s), UNCHANGED hold
  PROVE  IInv'
<1> DEFINE old == heap.cell[c][s]
<1>1. heap \in HeapType /\ hold \in [Obj -> Nat]
  BY DEF IInv, TypeOK
<1>2. old \in Obj => heap.kind[old] # "none"
  BY NoneUnowned
<1>3. /\ heap' \in HeapType
      /\ heap'.kind = heap.kind
      /\ heap'.len = heap.len
      /\ heap'.cell
           = [heap.cell EXCEPT ![c] = [heap.cell[c] EXCEPT ![s] = NULL]]
      /\ \A o \in Obj :
           /\ heap'.rc[o] = heap.rc[o] - One(old, o)
           /\ Cells(heap', o) = Cells(heap, o) - One(old, o)
  BY <1>1, ReapHeap
<1> HIDE DEF old
<1>4. \A o \in Obj : heap'.rc[o] - heap.rc[o]
        = (hold'[o] - hold[o]) + (Cells(heap', o) - Cells(heap, o))
  BY <1>1, <1>3, Numbers, OneNumber
<1>5. \A o \in Obj : heap.kind[o] = "none" => heap'.rc[o] = heap.rc[o]
  BY <1>1, <1>2, <1>3, Parts DEF One
<1>6. Shape'
  BY <1>3, <1>5, ShapeCell
<1> QED
  BY <1>1, <1>3, <1>4, <1>6, Balanced DEF IInv

LEMMA HmapUnsetStep ==
  ASSUME IInv, NEW m \in Obj, NEW k \in Key, HmapUnset(m, k)
  PROVE  IInv'
<1>1. /\ k \in Slot /\ heap.kind[m] # "none"
      /\ heap' = Reap(heap, m, k) /\ UNCHANGED hold
  BY DEF HmapUnset, Held, HmapUnsets, HmapPops, HmapGets, Reap, Slot
<1> QED
  BY <1>1, ReapStep

LEMMA DestroyCellStep ==
  ASSUME IInv, NEW o \in Obj, NEW s \in Slot, DestroyCell(o, s)
  PROVE  IInv'
BY ReapStep DEF DestroyCell, Dying

LEMMA PushStep ==
  ASSUME IInv, NEW v \in Obj, NEW x \in Obj, Push(v, x)
  PROVE  IInv'
<1> DEFINE n == heap.len[v] + 1
<1>1. /\ heap \in HeapType /\ hold \in [Obj -> Nat]
      /\ heap.kind[v] = "vector" /\ hold[x] > 0
      /\ heap.len[v] < MaxLen
      /\ heap' = VectorPush(heap, v, x) /\ hold' = hold
  BY DEF IInv, TypeOK, Push, Held
<1>2. /\ n \in Slot
      /\ heap' \in HeapType
      /\ heap'.kind = heap.kind
      /\ heap'.len = [heap.len EXCEPT ![v] = n]
      /\ heap'.cell = [heap.cell EXCEPT ![v] = [heap.cell[v] EXCEPT ![n] = x]]
      /\ \A o \in Obj :
           /\ heap'.rc[o] = heap.rc[o] + One(x, o)
           /\ Cells(heap', o)
                = Cells(heap, o) - One(heap.cell[v][n], o) + One(x, o)
  BY SMTT(30), <1>1, PushHeap
<1>3. n \in 1 .. MaxLen /\ n > heap.len[v]
  BY <1>1, HeapAssumption, Parts
<1>4. \A o \in Obj : One(heap.cell[v][n], o) = 0
  BY <1>1, <1>3, HeapAssumption DEF IInv, Shape, One
<1>5. \A o \in Obj : heap'.rc[o] - heap.rc[o]
        = (hold'[o] - hold[o]) + (Cells(heap', o) - Cells(heap, o))
  BY <1>1, <1>2, <1>4, Numbers, OneNumber
<1>6. Shape'
  <2>1. heap.kind[x] # "none"
    BY <1>1, NoneUnowned
  <2>2. \A o \in Obj : heap.kind[o] = "none" => heap'.rc[o] = heap.rc[o]
    BY <1>2, <2>1, Numbers DEF One
  <2>3. \A o \in Obj \ {v} : /\ heap'.len[o] = heap.len[o]
                             /\ heap'.cell[o] = heap.cell[o]
    BY <1>1, <1>2, Parts
  <2>4. heap'.len[v] = n /\ heap'.cell[v] = [heap.cell[v] EXCEPT ![n] = x]
    BY <1>1, <1>2, Parts
  <2>5. \A i \in 1 .. MaxLen : i > n => i > heap.len[v] /\ i # n
    BY <1>1, HeapAssumption, Parts
  <2>6. \A i \in 1 .. MaxLen : i > heap.len[v] => heap.cell[v][i] = NULL
    BY <1>1 DEF IInv, Shape
  <2>7. heap.cell[v] \in [Slot -> Obj \cup {NULL}]
    BY <1>1, Parts
  <2> HIDE DEF n
  <2>8. \A i \in 1 .. MaxLen : i > n => heap'.cell[v][i] = NULL
    BY <2>4, <2>5, <2>6, <2>7 DEF Slot
  <2> QED
    BY <1>1, <1>2, <2>2, <2>3, <2>4, <2>8, ShapeKept
<1> QED
  BY <1>1, <1>2, <1>5, <1>6, Balanced DEF IInv

LEMMA PushNewStep ==
  ASSUME IInv, NEW v \in Obj, NEW x \in Obj, NEW kd \in Kind \ {"none"}, PushNew(v, x, kd)
  PROVE  IInv'
<1> DEFINE n == heap.len[v] + 1
           g == New(heap, x, kd)
           f == [g EXCEPT !.len[v] = n]
<1>1. /\ heap \in HeapType /\ hold \in [Obj -> Nat]
      /\ heap.kind[v] = "vector" /\ heap.kind[x] = "none" /\ v # x
      /\ heap.len[v] < MaxLen
      /\ heap' = Put(f, v, n, x) /\ hold' = hold
  BY DEF IInv, TypeOK, PushNew, Held
<1>2. /\ g \in HeapType
      /\ g.kind = [heap.kind EXCEPT ![x] = kd]
      /\ g.rc = [heap.rc EXCEPT ![x] = 1]
      /\ g.cell = heap.cell
      /\ g.len = heap.len
  BY <1>1, NewHeap
<1> HIDE DEF g
<1>3. n \in 1 .. MaxLen /\ n > heap.len[v] /\ n \in 0 .. MaxLen /\ n \in Slot
  BY <1>1, HeapAssumption, Parts DEF Slot
<1> HIDE DEF n
<1>4. /\ f \in HeapType /\ f.kind = g.kind /\ f.cell = g.cell /\ f.rc = g.rc
      /\ f.len = [g.len EXCEPT ![v] = n]
  BY <1>2, <1>3, LenHeap
<1> HIDE DEF f
<1>5. /\ heap' \in HeapType
      /\ heap'.kind = f.kind
      /\ heap'.rc = f.rc
      /\ heap'.cell = [f.cell EXCEPT ![v] = [f.cell[v] EXCEPT ![n] = x]]
      /\ heap'.len = f.len
  <2> DEFINE e == Put(f, v, n, x)
  <2>1. /\ e \in HeapType /\ e.kind = f.kind /\ e.rc = f.rc /\ e.len = f.len
        /\ e.cell = [f.cell EXCEPT ![v] = [f.cell[v] EXCEPT ![n] = x]]
    BY <1>3, <1>4, PutHeap
  <2>2. heap' = e
    BY <1>1
  <2> HIDE DEF e
  <2> QED
    BY <2>1, <2>2
<1>6. heap.cell[v][n] = NULL
  BY <1>1, <1>3 DEF IInv, Shape
<1>7. \A o \in Obj : Cells(heap', o) = Cells(heap, o) + One(x, o)
  <2>1. \A o \in Obj : Cells(f, o) = Cells(heap, o)
    BY <1>2, <1>4, SameCells DEF Cells
  <2>2. \A o \in Obj : Cells(heap', o) = Cells(f, o) - One(f.cell[v][n], o) + One(x, o)
    BY <1>1, <1>3, <1>4, PutCount DEF Cells
  <2>3. \A o \in Obj : One(f.cell[v][n], o) = 0
    BY <1>2, <1>4, <1>6, HeapAssumption DEF One
  <2> QED
    BY <2>1, <2>2, <2>3, Numbers, OneNumber
<1>8. heap.rc[x] = 0 /\ heap.len[x] = 0 /\ heap.cell[x] = EmptyCells
  BY <1>1 DEF IInv, Shape
<1>9. \A o \in Obj : heap'.rc[o] = heap.rc[o] + One(x, o)
  BY <1>1, <1>2, <1>4, <1>5, <1>8, Parts DEF One
<1>10. \A o \in Obj : heap'.rc[o] - heap.rc[o]
         = (hold'[o] - hold[o]) + (Cells(heap', o) - Cells(heap, o))
  BY <1>1, <1>7, <1>9, Numbers, OneNumber
<1>11. Shape'
  <2>1. \A o \in Obj \ {v, x} : /\ heap'.kind[o] = heap.kind[o]
                                 /\ heap'.len[o] = heap.len[o]
                                 /\ heap'.cell[o] = heap.cell[o]
                                 /\ heap'.rc[o] = heap.rc[o]
    BY <1>1, <1>2, <1>4, <1>5, Parts
  <2>2. /\ heap'.kind[v] = "vector" /\ heap'.len[v] = n
        /\ heap'.cell[v] = [heap.cell[v] EXCEPT ![n] = x]
    BY <1>1, <1>2, <1>4, <1>5, Parts
  <2>3. \A i \in 1 .. MaxLen : i > n => heap'.cell[v][i] = NULL
    <3>1. \A i \in 1 .. MaxLen : i > n => i > heap.len[v] /\ i # n
      BY <1>1, <1>3, HeapAssumption, Parts
    <3>2. \A i \in 1 .. MaxLen : i > heap.len[v] => heap.cell[v][i] = NULL
      BY <1>1 DEF IInv, Shape
    <3>3. heap.cell[v] \in [Slot -> Obj \cup {NULL}]
      BY <1>1, Parts
    <3> QED
      BY <2>2, <3>1, <3>2, <3>3 DEF Slot
  <2>4. heap'.kind[x] = kd /\ heap'.cell[x] = EmptyCells
    BY <1>1, <1>2, <1>4, <1>5, <1>8, Parts
  <2>5. \A i \in 1 .. MaxLen : heap'.cell[x][i] = NULL
    BY <2>4 DEF EmptyCells, Slot
  <2> DEFINE Fits(o) ==
        /\ heap'.kind[o] = "none" =>
             heap'.rc[o] = 0 /\ heap'.len[o] = 0 /\ heap'.cell[o] = EmptyCells
        /\ heap'.kind[o] = "vector" =>
             \A i \in 1 .. MaxLen : i > heap'.len[o] => heap'.cell[o][i] = NULL
  <2>6. Fits(v)
    BY <2>2, <2>3
  <2>7. Fits(x)
    BY <2>4, <2>5
  <2>8. \A o \in Obj \ {v, x} : Fits(o)
    BY <2>1 DEF IInv, Shape
  <2>9. \A o \in Obj : Fits(o)
    BY <2>6, <2>7, <2>8
  <2> QED
    BY <2>9 DEF Shape
<1> QED
  BY <1>1, <1>5, <1>10, <1>11, Balanced DEF IInv

LEMMA PopStep ==
  ASSUME IInv, NEW v \in Obj, Pop(v)
  PROVE  IInv'
<1>1. /\ heap \in HeapType /\ hold \in [Obj -> Nat]
      /\ heap.kind[v] = "vector"
      /\ heap' = VectorPop(heap, v) /\ TakeAny(VectorLast(heap, v))
  BY DEF IInv, TypeOK, Pop, Held
<1>2. CASE heap.len[v] = 0
  <2>1. heap' = heap /\ hold' = hold
    BY <1>1, <1>2, HeapAssumption DEF VectorPop, VectorLast, TakeAny
  <2> QED
    BY <2>1 DEF IInv, TypeOK, Shape, RefExact, CellsOf
<1>3. CASE heap.len[v] # 0
  <2> DEFINE n == heap.len[v]
             old == heap.cell[v][n]
  <2>1. /\ n \in Slot
        /\ heap' \in HeapType
        /\ heap'.kind = heap.kind
        /\ heap'.rc = heap.rc
        /\ heap'.len = [heap.len EXCEPT ![v] = n - 1]
        /\ heap'.cell
             = [heap.cell EXCEPT ![v] = [heap.cell[v] EXCEPT ![n] = NULL]]
        /\ \A o \in Obj : Cells(heap', o) = Cells(heap, o) - One(old, o)
    BY <1>1, <1>3, VectorPopHeap
  <2>2. old \in Obj \cup {NULL} /\ TakeAny(old)
    BY <1>1, <1>3, <2>1, Parts DEF VectorLast
  <2>3. /\ hold' \in [Obj -> Nat]
        /\ \A o \in Obj : hold'[o] = hold[o] + One(old, o)
    BY <1>1, <2>2, TakeAnyHold
  <2>4. \A o \in Obj : heap'.rc[o] - heap.rc[o]
          = (hold'[o] - hold[o]) + (Cells(heap', o) - Cells(heap, o))
    <3> HIDE DEF old
    <3>1. \A o \in Obj : /\ heap'.rc[o] = heap.rc[o]
                         /\ Cells(heap', o) = Cells(heap, o) - One(old, o)
      BY <2>1
    <3> QED
      BY <2>3, <3>1, Numbers, OneNumber
  <2>5. Shape'
    <3>1. \A o \in Obj \ {v} : /\ heap'.len[o] = heap.len[o]
                               /\ heap'.cell[o] = heap.cell[o]
      BY <1>1, <2>1, Parts
    <3>2. /\ heap'.len[v] = n - 1
          /\ heap'.cell[v] = [heap.cell[v] EXCEPT ![n] = NULL]
      BY <1>1, <2>1, Parts
    <3>3. \A i \in 1 .. MaxLen : i > n - 1 => i > n \/ i = n
      <4>1. n \in Int
        BY <1>1, HeapAssumption, Parts
      <4> QED
        BY <4>1
    <3>4. \A i \in 1 .. MaxLen : i > n => heap.cell[v][i] = NULL
      BY <1>1 DEF IInv, Shape
    <3>5. heap.cell[v] \in [Slot -> Obj \cup {NULL}]
      BY <1>1, Parts
    <3> HIDE DEF n
    <3>6. \A i \in 1 .. MaxLen : i > n - 1 => heap'.cell[v][i] = NULL
      BY <3>2, <3>3, <3>4, <3>5 DEF Slot
    <3> QED
      BY <1>1, <2>1, <3>1, <3>2, <3>6, ShapeKept
  <2> QED
    BY <2>1, <2>3, <2>4, <2>5, Balanced DEF IInv
<1> QED
  BY <1>2, <1>3

LEMMA DestroyObjectStep ==
  ASSUME IInv, NEW o \in Obj, DestroyObject(o)
  PROVE  IInv'
<1>1. /\ heap \in HeapType /\ hold \in [Obj -> Nat]
      /\ heap.rc[o] = 0 /\ heap.cell[o] = EmptyCells
      /\ heap' = Free(heap, o) /\ hold' = hold
  BY DEF IInv, TypeOK, DestroyObject, Dying
<1>2. /\ heap' \in HeapType
      /\ heap'.kind = [heap.kind EXCEPT ![o] = "none"]
      /\ heap'.rc = heap.rc
      /\ heap'.cell = heap.cell
      /\ heap'.len = [heap.len EXCEPT ![o] = 0]
  BY <1>1, FreeHeap
<1>3. \A p \in Obj : Cells(heap', p) = Cells(heap, p)
  BY <1>2, SameCells DEF Cells
<1>4. \A p \in Obj : heap'.rc[p] - heap.rc[p]
        = (hold'[p] - hold[p]) + (Cells(heap', p) - Cells(heap, p))
  BY <1>1, <1>2, <1>3, Numbers
<1>5. Shape'
  <2>1. \A p \in Obj \ {o} : /\ heap'.kind[p] = heap.kind[p]
                             /\ heap'.len[p] = heap.len[p]
    BY <1>1, <1>2, Parts
  <2>2. heap'.kind[o] = "none" /\ heap'.len[o] = 0
    BY <1>1, <1>2, Parts
  <2> QED
    BY <1>1, <1>2, <2>1, <2>2 DEF IInv, Shape
<1> QED
  BY <1>1, <1>2, <1>4, <1>5, Balanced DEF IInv

-----------------------------------------------------------------------------
LEMMA InitInv == Init => IInv
<1> SUFFICES ASSUME Init PROVE IInv
  OBVIOUS
<1>1. heap = EmptyHeap /\ hold = [o \in Obj |-> 0]
  BY DEF Init
<1>2. EmptyCells \in [Slot -> Obj \cup {NULL}]
  BY DEF EmptyCells
<1>3. TypeOK
  BY <1>1, <1>2, HeapAssumption DEF TypeOK, EmptyHeap, HeapType, Kind
<1>4. Shape
  BY <1>1 DEF Shape, EmptyHeap
<1>5. \A o \in Obj : Cells(heap, o) = 0
  <2>1. \A p \in Obj, s \in Slot : heap.cell[p][s] = NULL
    BY <1>1 DEF EmptyHeap, EmptyCells
  <2> QED
    BY <2>1, CellCounted, CellsNat, HeapAssumption
<1>6. RefExact
  BY <1>1, <1>5 DEF RefExact, Cells, EmptyHeap
<1> QED
  BY <1>3, <1>4, <1>6 DEF IInv

LEMMA StepInv == IInv /\ [Next]_vars => IInv'
<1> SUFFICES ASSUME IInv, [Next]_vars PROVE IInv'
  OBVIOUS
<1>1. ASSUME NEW o \in Obj, NEW k \in Kind \ {"none"}, NewObject(o, k)
      PROVE  IInv'
  BY <1>1, NewObjectStep
<1>2. ASSUME NEW o \in Obj, RefObject(o) \/ UnrefObject(o)
      PROVE  IInv'
  BY <1>2, RefObjectStep, UnrefObjectStep
<1>3. ASSUME NEW m \in Obj, NEW x \in Obj, NEW k \in Key, HmapSet(m, k, x)
      PROVE  IInv'
  BY <1>3, HmapSetStep
<1>4. ASSUME NEW m \in Obj, NEW x \in Obj, NEW k \in Key,
             NEW kd \in Kind \ {"none"}, HmapSetNew(m, k, x, kd)
      PROVE  IInv'
  BY <1>4, HmapSetNewStep
<1>5. ASSUME NEW m \in Obj, NEW k \in Key,
             HmapGet(m, k) \/ HmapPop(m, k) \/ HmapUnset(m, k)
      PROVE  IInv'
  BY <1>5, HmapGetStep, HmapPopStep, HmapUnsetStep
<1>6. ASSUME NEW v \in Obj, NEW x \in Obj, Push(v, x)
      PROVE  IInv'
  BY <1>6, PushStep
<1>7. ASSUME NEW v \in Obj, Pop(v)
      PROVE  IInv'
  BY <1>7, PopStep
<1>10. ASSUME NEW v \in Obj, NEW x \in Obj, NEW kd \in Kind \ {"none"}, PushNew(v, x, kd)
       PROVE  IInv'
  BY <1>10, PushNewStep
<1>8. CASE Destroy
  BY <1>8, DestroyObjectStep, DestroyCellStep DEF Destroy
<1>9. CASE UNCHANGED vars
  BY <1>9 DEF vars, IInv, TypeOK, Shape, RefExact, CellsOf
<1> QED
  BY <1>1, <1>2, <1>3, <1>4, <1>5, <1>6, <1>7, <1>8, <1>9, <1>10 DEF Next

LEMMA Invariant == Spec => []IInv
BY InitInv, StepInv, PTL DEF Spec

-----------------------------------------------------------------------------
(* The heap stays a heap: no container ever points outside it, and no      *)
(* vector's length leaves its range (src/object.c, src/vector.c).          *)
THEOREM TypeCorrect == Spec => []TypeOK
<1>1. IInv => TypeOK
  BY DEF IInv
<1> QED
  BY <1>1, Invariant, PTL

(* Every refcount that src/object.c keeps is the number of owners, whatever *)
(* the host does with the library and however deep the destructors are.    *)
THEOREM CountsAreExact == Spec => []RefExact
<1>1. IInv => RefExact
  BY DEF IInv
<1> QED
  BY <1>1, Invariant, PTL

(* Memory that is not an object is empty, and past a vector's end nothing  *)
(* is stored: a free'd container has given everything back.                *)
THEOREM FreedIsEmpty == Spec => []Shape
<1>1. IInv => Shape
  BY DEF IInv
<1> QED
  BY <1>1, Invariant, PTL

(* No reference, of the host or of a container, leads to free'd memory or  *)
(* to an object whose destructor has started.                              *)
THEOREM NeverDangling == Spec => []NoDangling
<1>1. IInv => NoDangling
  <2> SUFFICES ASSUME IInv PROVE NoDangling
    OBVIOUS
  <2>1. ASSUME NEW x \in Obj,
               hold[x] > 0 \/ \E p \in Obj, s \in Slot : heap.cell[p][s] = x
        PROVE  Live(heap, x) /\ heap.kind[x] # "none"
    <3>1. hold[x] > 0 \/ Cells(heap, x) > 0
      BY <2>1, CellCounted
    <3>2. heap.rc[x] = hold[x] + Cells(heap, x)
      BY DEF IInv, RefExact, Cells
    <3>3. heap.rc[x] > 0
      BY <3>1, <3>2, Numbers
    <3> QED
      BY <2>1, <3>3, NoneUnowned DEF Live
  <2>2. \A o \in Obj, s \in Slot : heap.cell[o][s] \in Obj \cup {NULL}
    BY Parts DEF IInv, TypeOK
  <2> QED
    BY <2>1, <2>2 DEF NoDangling
<1> QED
  BY <1>1, Invariant, PTL

(* roscha_object_unref leaves nothing behind: between two calls, what the  *)
(* host no longer owns is stored in a container that is still allocated.   *)
THEOREM NeverLeaks == Spec => []NoLeak
<1>1. IInv => NoLeak
  <2> SUFFICES ASSUME IInv, Quiet(heap), NEW o \in Obj,
                      heap.kind[o] # "none", hold[o] = 0
               PROVE  \E p \in Obj, s \in Slot :
                        heap.kind[p] # "none" /\ heap.cell[p][s] = o
    BY DEF NoLeak
  <2>1. heap.rc[o] # 0
    BY DEF Quiet, Dying
  <2>2. heap.rc[o] = hold[o] + Cells(heap, o)
    BY DEF IInv, RefExact, Cells
  <2>3. Cells(heap, o) > 0
    BY <2>1, <2>2, Numbers
  <2>4. PICK p \in Obj, s \in Slot : heap.cell[p][s] = o
    BY <2>3, CellCounted
  <2>5. heap.kind[p] # "none"
    BY <2>4, HeapAssumption DEF IInv, Shape, EmptyCells
  <2> QED
    BY <2>4, <2>5
<1> QED
  BY <1>1, Invariant, PTL
=============================================================================
