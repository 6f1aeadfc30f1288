------------------------------- MODULE Objects -------------------------------
(***************************************************************************)
(* A host program that uses the reference-counted objects of src/object.c  *)
(* as include/object.h tells it to: it owns one reference for every        *)
(* roscha_object_new and roscha_object_ref it makes, takes over the        *)
(* reference of every value that a set or a pop hands it, and gives each   *)
(* of them back once with roscha_object_unref.  hold counts the references *)
(* it owns.  A library call runs to its end, destructors included, before  *)
(* the next one starts: the code has one thread.                           *)
(***************************************************************************)
EXTENDS ObjectHeap

CONSTANT MaxHold   \* bound on the references to one object the host owns

VARIABLES heap, hold

vars == <<heap, hold>>

Init ==
  /\ heap = EmptyHeap
  /\ hold = [o \in Obj |-> 0]

Take(o) == hold[o] < MaxHold /\ hold' = [hold EXCEPT ![o] = @ + 1]

(* The object the host is handed, if it is handed one.                     *)
TakeAny(v) == IF v \in Obj THEN Take(v) ELSE UNCHANGED hold

Held(o, k) == hold[o] > 0 /\ heap.kind[o] = k

(***************************************************************************)
(* The library's calls.                                                    *)
(***************************************************************************)
NewObject(o, k) ==
  /\ Quiet(heap)
  /\ heap.kind[o] = "none"
  /\ heap' = New(heap, o, k)
  /\ Take(o)

RefObject(o) ==
  /\ Quiet(heap)
  /\ hold[o] > 0
  /\ heap' = Ref(heap, o)
  /\ Take(o)

UnrefObject(o) ==
  /\ Quiet(heap)
  /\ hold[o] > 0
  /\ heap' = Unref(heap, o)
  /\ hold' = [hold EXCEPT ![o] = @ - 1]

HmapSet(m, k, x) ==
  /\ Quiet(heap)
  /\ Held(m, "hmap") /\ hold[x] > 0
  /\ heap' = HmapSets(heap, m, k, x)
  /\ TakeAny(HmapGets(heap, m, k))

(* roscha_hmap_set_new: the map is given the reference the object is born  *)
(* with.                                                                   *)
HmapSetNew(m, k, x, kd) ==
  /\ Quiet(heap)
  /\ Held(m, "hmap") /\ heap.kind[x] = "none"
  /\ heap' = Put(New(heap, x, kd), m, k, x)
  /\ TakeAny(HmapGets(heap, m, k))

(* roscha_hmap_get followed by the roscha_object_ref that its comment asks *)
(* of a receiver that keeps the value.                                     *)
HmapGet(m, k) ==
  LET v == HmapGets(heap, m, k) IN
  /\ Quiet(heap)
  /\ Held(m, "hmap") /\ v \in Obj
  /\ heap' = Ref(heap, v)
  /\ Take(v)

HmapPop(m, k) ==
  /\ Quiet(heap)
  /\ Held(m, "hmap")
  /\ heap' = HmapPops(heap, m, k)
  /\ TakeAny(HmapGets(heap, m, k))

HmapUnset(m, k) ==
  /\ Quiet(heap)
  /\ Held(m, "hmap")
  /\ heap' = HmapUnsets(heap, m, k)
  /\ UNCHANGED hold

Push(v, x) ==
  /\ Quiet(heap)
  /\ Held(v, "vector") /\ hold[x] > 0
  /\ heap.len[v] < MaxLen
  /\ heap' = VectorPush(heap, v, x)
  /\ UNCHANGED hold

(* roscha_vector_push_new: vector_push itself takes no reference, the       *)
(* vector is given the one the object is born with.                        *)
PushNew(v, x, kd) ==
  LET n == heap.len[v] + 1 IN
  /\ Quiet(heap)
  /\ Held(v, "vector") /\ heap.kind[x] = "none"
  /\ heap.len[v] < MaxLen
  /\ heap' = Put([New(heap, x, kd) EXCEPT !.len[v] = n], v, n, x)
  /\ UNCHANGED hold

Pop(v) ==
  /\ Quiet(heap)
  /\ Held(v, "vector")
  /\ heap' = VectorPop(heap, v)
  /\ TakeAny(VectorLast(heap, v))

(***************************************************************************)
(* The destructors.                                                        *)
(***************************************************************************)
DestroyCell(o, s) ==
  /\ Dying(heap, o)
  /\ heap.cell[o][s] # NULL
  /\ heap' = Reap(heap, o, s)
  /\ UNCHANGED hold

(* Variant with a mistake: a container is free'd, its contents are not     *)
(* given back.                                                             *)
DestroyObjectEarly(o) ==
  /\ Dying(heap, o)
  /\ heap' = Free(heap, o)
  /\ UNCHANGED hold

DestroyObject(o) ==
  /\ Dying(heap, o)
  /\ heap.cell[o] = EmptyCells
  /\ heap' = Free(heap, o)
  /\ UNCHANGED hold

Destroy == \E o \in Obj : DestroyObject(o) \/ \E s \in Slot : DestroyCell(o, s)

Next ==
  \/ \E o \in Obj, k \in Kind \ {"none"} : NewObject(o, k)
  \/ \E o \in Obj : RefObject(o) \/ UnrefObject(o)
  \/ \E m, x \in Obj, k \in Key : HmapSet(m, k, x)
  \/ \E m, x \in Obj, k \in Key, kd \in Kind \ {"none"} :
       HmapSetNew(m, k, x, kd)
  \/ \E m \in Obj, k \in Key :
       HmapGet(m, k) \/ HmapPop(m, k) \/ HmapUnset(m, k)
  \/ \E v, x \in Obj : Push(v, x)
  \/ \E v, x \in Obj, kd \in Kind \ {"none"} : PushNew(v, x, kd)
  \/ \E v \in Obj : Pop(v)
  \/ Destroy

Spec == Init /\ [][Next]_vars

(* A destructor that has started runs on: it is one C call.                *)
FairSpec == Spec /\ WF_vars(Destroy)

-----------------------------------------------------------------------------
(* The heap is a heap and the host counts its references with naturals.    *)
TypeOK ==
  /\ heap \in HeapType
  /\ hold \in [Obj -> Nat]

(* Memory that is not an object carries no count and points nowhere, and   *)
(* past the end of a vector nothing is stored.  A destructor that freed a  *)
(* container before giving its contents back would break it.               *)
Shape ==
  \A o \in Obj :
    /\ heap.kind[o] = "none" =>
         heap.rc[o] = 0 /\ heap.len[o] = 0 /\ heap.cell[o] = EmptyCells
    /\ heap.kind[o] = "vector" =>
         \A i \in 1 .. MaxLen : i > heap.len[o] => heap.cell[o][i] = NULL

(* Every refcount is exactly the number of owners: the references of the   *)
(* host and the container cells that point at the object.  It is what      *)
(* object.h's comments on set, get, pop and unset add up to, destructors   *)
(* that are half way through included.                                     *)
RefExact ==
  \A o \in Obj : heap.rc[o] = hold[o] + Cardinality(CellsOf(heap, o))

(* A reference that can still be followed, from the host or from inside a  *)
(* container, leads to an object whose destructor has not started.         *)
NoDangling ==
  \A o \in Obj :
    /\ hold[o] > 0 => Live(heap, o) /\ heap.kind[o] # "none"
    /\ \A s \in Slot : heap.cell[o][s] # NULL =>
         LET x == heap.cell[o][s] IN Live(heap, x) /\ heap.kind[x] # "none"

(* An object outlives the host's last reference only inside a container    *)
(* that is itself still allocated: roscha_object_unref leaves nothing      *)
(* behind but what is stored somewhere, or on a cycle of containers.       *)
NoLeak ==
  Quiet(heap) =>
    \A o \in Obj : heap.kind[o] # "none" /\ hold[o] = 0 =>
      \E p \in Obj, s \in Slot :
        heap.kind[p] # "none" /\ heap.cell[p][s] = o

(* A call to roscha_object_unref returns, whatever containers it takes     *)
(* down with it.                                                           *)
DestroyCompletes == []<>Quiet(heap)
=============================================================================
