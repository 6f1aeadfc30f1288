----------------------------- MODULE ObjectHeap -----------------------------
(***************************************************************************)
(* The reference-counted objects of src/object.c as values: a heap is a    *)
(* record and every library call is an operator from heaps to heaps.       *)
(* Objects (a host program that uses the library) and Render (the          *)
(* evaluator) both thread a heap through these operators.                  *)
(*                                                                         *)
(*   kind   "none" for memory that is not an object (never allocated, or   *)
(*          free'd), otherwise the roscha_type that matters for reference  *)
(*          counting.  The statically allocated null/true/false objects    *)
(*          are not addresses of the heap: roscha_object_unref ignores     *)
(*          them.                                                          *)
(*   rc     the refcount field                                             *)
(*   cell   the pointers a container owns: an hmap at its keys, a vector   *)
(*          at its indices, counted from 1                                 *)
(*   len    the length of a vector                                         *)
(*                                                                         *)
(* roscha_object_unref destroys a container by unref'ing what it holds,    *)
(* recursively, and frees it last.  An object whose count has reached zero *)
(* and that is not yet free'd is dying; Reap and Free are the iterations   *)
(* of the destructor's loop and its last statement.                        *)
(***************************************************************************)
EXTENDS Integers, FiniteSets

CONSTANTS
  Obj,      \* addresses an object can be allocated at
  Key,      \* hash map keys
  MaxLen,   \* bound on the length of a vector
  NULL      \* the null pointer

ASSUME HeapAssumption ==
  /\ IsFiniteSet(Obj)
  /\ IsFiniteSet(Key)
  /\ MaxLen \in Nat
  /\ NULL \notin Obj

Slot == Key \cup (1 .. MaxLen)

Kind == {"none", "int", "text", "vector", "hmap"}

EmptyCells == [s \in Slot |-> NULL]

EmptyHeap ==
  [kind |-> [o \in Obj |-> "none"],
   rc   |-> [o \in Obj |-> 0],
   cell |-> [o \in Obj |-> EmptyCells],
   len  |-> [o \in Obj |-> 0]]

(* -1 stands for SIZE_MAX, what decrementing a size_t zero leaves.         *)
HeapType ==
  [kind : [Obj -> Kind],
   rc   : [Obj -> Int],
   cell : [Obj -> [Slot -> Obj \cup {NULL}]],
   len  : [Obj -> 0 .. MaxLen]]

Live(h, o)  == h.rc[o] > 0
Dying(h, o) == h.kind[o] # "none" /\ h.rc[o] = 0

(* No destructor is running: the last library call has returned.           *)
Quiet(h) == \A o \in Obj : ~Dying(h, o)

(***************************************************************************)
(* roscha_object_new_*, roscha_object_ref and the counting half of         *)
(* roscha_object_unref.                                                    *)
(***************************************************************************)
New(h, o, k) ==
  [h EXCEPT !.kind[o] = k, !.rc[o] = 1]

Ref(h, o) == [h EXCEPT !.rc[o] = @ + 1]

Unref(h, o) == IF o \in Obj THEN [h EXCEPT !.rc[o] = @ - 1] ELSE h

(***************************************************************************)
(* The containers.  HmapSets hands the old value, cell[m][k] before the    *)
(* call, to its caller together with the reference the map held on it;     *)
(* HmapPops and VectorPop do the same with the value they take out.        *)
(***************************************************************************)
Put(h, c, s, v) == [h EXCEPT !.cell[c][s] = v]

HmapGets(h, m, k) == h.cell[m][k]

(***************************************************************************)
(* Variants of the operators below, each with one mistake.                 *)
(***************************************************************************)
HmapSetsNoRef(h, m, k, v) == Put(h, m, k, v)

HmapUnsetsKeepsCell(h, m, k) == Unref(h, HmapGets(h, m, k))

VectorPopUnchecked(h, v) ==
  Put([h EXCEPT !.len[v] = @ - 1], v, h.len[v], NULL)

ReapNoUnref(h, o, s) == Put(h, o, s, NULL)

ReapSkipsFirst(h, o, s) ==
  IF s = 1 THEN h ELSE Unref(Put(h, o, s, NULL), h.cell[o][s])

HmapSets(h, m, k, v) == Put(Ref(h, v), m, k, v)

HmapPops(h, m, k) == Put(h, m, k, NULL)

HmapUnsets(h, m, k) == Unref(HmapPops(h, m, k), HmapGets(h, m, k))

VectorPush(h, v, x) ==
  LET n == h.len[v] + 1 IN Put([Ref(h, x) EXCEPT !.len[v] = n], v, n, x)

VectorLast(h, v) == IF h.len[v] = 0 THEN NULL ELSE h.cell[v][h.len[v]]

VectorPop(h, v) ==
  IF h.len[v] = 0 THEN h
  ELSE Put([h EXCEPT !.len[v] = @ - 1], v, h.len[v], NULL)

(***************************************************************************)
(* The destroying half of roscha_object_unref: Reap is one turn of the     *)
(* loop over a container's contents, Free the final free(obj).             *)
(***************************************************************************)
Reap(h, o, s) == Unref(Put(h, o, s, NULL), h.cell[o][s])

Free(h, o) == [h EXCEPT !.kind[o] = "none", !.len[o] = 0]

-----------------------------------------------------------------------------
(***************************************************************************)
(* What the counts stand for: the cells that point at an object.           *)
(***************************************************************************)
CellsOf(h, o) == {cs \in Obj \X Slot : h.cell[cs[1]][cs[2]] = o}
=============================================================================
