-------------------------------- MODULE Hmap --------------------------------
(***************************************************************************)
(* The hash map of src/hmap.c: an array of buckets, each a linked list of  *)
(* nodes, with the number of nodes kept beside it, and iterators that      *)
(* remember a bucket index, a node and how many nodes are left.            *)
(*                                                                         *)
(* A list of nodes is a sequence, its head first.  A node is named by its  *)
(* bucket and its place in the list: no call moves a node while an         *)
(* iterator points at one.                                                 *)
(***************************************************************************)
EXTENDS Integers, Sequences, FiniteSets

CONSTANTS
  Key,    \* keys
  Val,    \* values, the pointers stored
  Iter,   \* iterators in use at the same time: loops over one map may nest
  Cap,    \* number of buckets, HASHMAP_CAP
  Pos,    \* hash_slice(key) % cap, for every key
  NULL,   \* the null pointer
  Done,   \* hmap_iter_next returned false
  Wild    \* what is read past the end of the array of buckets

Node == [key : Key, val : Val]

Bucket == 0 .. Cap - 1

(* A place in the buckets, what a struct hnode * amounts to.               *)
Place == [at : Bucket, n : Nat \ {0}]

ASSUME HmapAssumption ==
  /\ Cap \in Nat \ {0}
  /\ IsFiniteSet(Key)
  /\ Pos \in [Key -> 0 .. Cap - 1]
  /\ NULL \notin Val \cup Place /\ \A S \in SUBSET Node : NULL # S

VARIABLES
  buckets,   \* hm->buckets
  size,      \* hm->size
  ret,       \* what the last call returned
  iter,      \* per iterator: in use, its index, count and cur
  doomed     \* hmap_destroy is running

vars == <<buckets, size, ret, iter, doomed>>

Unused == [used |-> FALSE, index |-> 0, count |-> 0, cur |-> NULL]

Init ==
  /\ buckets = [b \in Bucket |-> << >>]
  /\ size = 0
  /\ ret = NULL
  /\ iter = [i \in Iter |-> Unused]
  /\ doomed = FALSE

(* The callers' side of the bargain: nothing changes a map while a loop    *)
(* walks it.                                                               *)
Idle == ~doomed /\ \A i \in Iter : ~iter[i].used

(***************************************************************************)
(* Lists.                                                                  *)
(***************************************************************************)
Match(c, k) == {n \in DOMAIN c : c[n].key = k}

First(S) == CHOOSE n \in S : \A m \in S : n <= m

(* Variant with a mistake: prev->next is cleared, not linked past the node.*)
Truncated(c, n) == SubSeq(c, 1, n - 1)

Without(c, n) == SubSeq(c, 1, n - 1) \o SubSeq(c, n + 1, Len(c))

(***************************************************************************)
(* hmap_sets, hmap_gets and hmap_removes.  The node found keeps its place  *)
(* and its key; a new one goes to the head of its list.                    *)
(***************************************************************************)
Overwrite(k, v) ==
  LET c == buckets[Pos[k]]
      n == First(Match(c, k)) IN
  /\ Idle
  /\ Match(c, k) # {}
  /\ ret' = c[n].val
  /\ buckets' = [buckets EXCEPT ![Pos[k]][n].val = v]
  /\ UNCHANGED <<size, iter, doomed>>

(* Variant with a mistake: the list is not searched first.                *)
InsertUnsearched(k, v) ==
  /\ Idle
  /\ ret' = NULL
  /\ buckets' = [buckets EXCEPT ![Pos[k]] = <<[key |-> k, val |-> v]>> \o @]
  /\ size' = size + 1
  /\ UNCHANGED <<iter, doomed>>

Insert(k, v) ==
  /\ Idle
  /\ Match(buckets[Pos[k]], k) = {}
  /\ ret' = NULL
  /\ buckets' = [buckets EXCEPT ![Pos[k]] = <<[key |-> k, val |-> v]>> \o @]
  /\ size' = size + 1
  /\ UNCHANGED <<iter, doomed>>

Sets(k, v) == Overwrite(k, v) \/ Insert(k, v)

Gets(k) ==
  LET c == buckets[Pos[k]] IN
  /\ ~doomed
  /\ ret' = IF Match(c, k) = {} THEN NULL ELSE c[First(Match(c, k))].val
  /\ UNCHANGED <<buckets, size, iter, doomed>>

Removes(k) ==
  LET c == buckets[Pos[k]]
      n == First(Match(c, k)) IN
  /\ Idle
  /\ IF Match(c, k) = {}
     THEN ret' = NULL /\ UNCHANGED <<buckets, size>>
     ELSE /\ ret' = c[n].val
          /\ buckets' = [buckets EXCEPT ![Pos[k]] = Without(c, n)]
          /\ size' = size - 1
  /\ UNCHANGED <<iter, doomed>>

(***************************************************************************)
(* hmap_destroy: every turn of HMAP_WALK hands a node to the callback and  *)
(* frees it; then the map goes, and the next hmap_new starts an empty one. *)
(***************************************************************************)
Destroy ==
  /\ Idle
  /\ doomed' = TRUE
  /\ UNCHANGED <<buckets, size, ret, iter>>

NonEmpty == {b \in Bucket : buckets[b] # << >>}

Walk ==
  LET b == First(NonEmpty) IN
  /\ doomed
  /\ NonEmpty # {}
  /\ ret' = Head(buckets[b])
  /\ buckets' = [buckets EXCEPT ![b] = Tail(@)]
  /\ UNCHANGED <<size, iter, doomed>>

Destroyed ==
  /\ doomed
  /\ NonEmpty = {}
  /\ doomed' = FALSE
  /\ size' = 0
  /\ UNCHANGED <<buckets, ret, iter>>

(* hmap_free is hmap_destroy without the callback, so nothing runs between *)
(* its steps.                                                              *)
Free ==
  /\ Idle
  /\ buckets' = [b \in Bucket |-> << >>]
  /\ size' = 0
  /\ UNCHANGED <<ret, iter, doomed>>

(***************************************************************************)
(* hmap_iter_new, hmap_iter_next.                                          *)
(***************************************************************************)
IterNew(i) ==
  /\ ~doomed
  /\ ~iter[i].used
  /\ iter' = [iter EXCEPT ![i] =
                [used |-> TRUE, index |-> 0, count |-> size, cur |-> NULL]]
  /\ UNCHANGED <<buckets, size, ret, doomed>>

HasNext(it) == it.cur # NULL /\ it.cur.n < Len(buckets[it.cur.at])

(* The scan for the next list: where index stops, or Cap when it runs off  *)
(* the end of the array.                                                   *)
Scan(from) ==
  LET rest == {b \in NonEmpty : b >= from}
  IN  IF rest = {} THEN Cap ELSE First(rest)

(* Variant with a mistake: index stays at the list it has come to.        *)
AdvanceInPlace(it) ==
  IF HasNext(it)
  THEN [it EXCEPT !.cur.n = @ + 1, !.count = @ - 1]
  ELSE [it EXCEPT !.index = Scan(it.index),
                  !.cur = [at |-> Scan(it.index), n |-> 1],
                  !.count = @ - 1]

(* The iterator after the step, when there is a node left to yield.        *)
Advance(it) ==
  IF HasNext(it)
  THEN [it EXCEPT !.cur.n = @ + 1, !.count = @ - 1]
  ELSE [it EXCEPT !.index = Scan(it.index) + 1,
                  !.cur = [at |-> Scan(it.index), n |-> 1],
                  !.count = @ - 1]

IterNext(i) ==
  LET next == Advance(iter[i]) IN
  /\ iter[i].used
  /\ iter[i].count > 0
  /\ iter' = [iter EXCEPT ![i] = next]
  /\ ret' = IF next.cur.at < Cap THEN buckets[next.cur.at][next.cur.n]
                                 ELSE Wild
  /\ UNCHANGED <<buckets, size, doomed>>

(* Variant with a mistake: an empty count is not the end.                 *)
IterEndLate(i) ==
  /\ iter[i].used
  /\ iter[i].count < 0
  /\ ret' = Done
  /\ iter' = [iter EXCEPT ![i] = Unused]
  /\ UNCHANGED <<buckets, size, doomed>>

(* hmap_iter_next returns false, and the loop over the iterator ends.      *)
IterEnd(i) ==
  /\ iter[i].used
  /\ iter[i].count < 1
  /\ ret' = Done
  /\ iter' = [iter EXCEPT ![i] = Unused]
  /\ UNCHANGED <<buckets, size, doomed>>

(* The loop's body breaks out.                                             *)
IterBreak(i) ==
  /\ iter[i].used
  /\ iter' = [iter EXCEPT ![i] = Unused]
  /\ UNCHANGED <<buckets, size, ret, doomed>>

Next ==
  \/ \E k \in Key : Gets(k) \/ Removes(k) \/ \E v \in Val : Sets(k, v)
  \/ Destroy \/ Walk \/ Destroyed \/ Free
  \/ \E i \in Iter : IterNew(i) \/ IterNext(i) \/ IterEnd(i) \/ IterBreak(i)

Spec == Init /\ [][Next]_vars

(* hmap_iter_foreach calls hmap_iter_next again for as long as it returns  *)
(* true.                                                                   *)
FairSpec ==
  Spec /\ \A i \in Iter : WF_vars(IterNext(i)) /\ WF_vars(IterEnd(i))

-----------------------------------------------------------------------------
TypeOK ==
  /\ buckets \in [Bucket -> Seq(Node)]
  /\ size \in Nat
  /\ ret \in Val \cup Node \cup {NULL, Done, Wild}
  /\ iter \in [Iter -> [used : BOOLEAN, index : 0 .. Cap + 1, count : Nat,
                         cur : Place \cup {NULL}]]
  /\ doomed \in BOOLEAN

Places == {p \in Bucket \X (1 .. Cardinality(Key)) : p[2] \in DOMAIN buckets[p[1]]}

NodeAt(p) == buckets[p[1]][p[2]]

(* A key has one node at most, in the list its hash names, and size counts *)
(* the nodes: what hmap_sets' search before it inserts is for, and what    *)
(* hmap_iter_new relies on when it takes size for the number of steps.     *)
ChainsSound ==
  /\ TypeOK
  /\ \A b \in Bucket : Len(buckets[b]) <= Cardinality(Key)
  /\ \A p, q \in Places : NodeAt(p).key = NodeAt(q).key => p = q
  /\ \A p \in Places : Pos[NodeAt(p).key] = p[1]
  /\ ~doomed => size = Cardinality(Places)

(* The places an iterator has not reached: the rest of its list and every  *)
(* list from its index on.                                                 *)
Ahead(it) ==
  {p \in Places : \/ p[1] >= it.index
                  \/ it.cur # NULL /\ p[1] = it.cur.at /\ p[2] > it.cur.n}

(* An iterator's count is the number of nodes in front of it, so the scan  *)
(* for the next list, which has no bound of its own, finds one before the  *)
(* end of the array.                                                       *)
IterSound ==
  \A i \in Iter : iter[i].used =>
    /\ iter[i].count = Cardinality(Ahead(iter[i]))
    /\ iter[i].index <= Cap
    /\ iter[i].cur # NULL =>
         iter[i].cur.at = iter[i].index - 1 /\ iter[i].cur.n \in DOMAIN buckets[iter[i].cur.at]

(* Refinement of the promise.                                              *)
Lookup(k) ==
  LET c == buckets[Pos[k]]
  IN  IF Match(c, k) = {} THEN NULL ELSE c[First(Match(c, k))].val

Mapped == [k \in Key |-> Lookup(k)]

Todo ==
  [i \in Iter |->
     IF iter[i].used THEN {NodeAt(p) : p \in Ahead(iter[i])} ELSE NULL]

Promise == INSTANCE HmapSpec WITH map <- Mapped, todo <- Todo

(* The map of lists and its iterators behave as include/hmap.h says: the   *)
(* old value comes back from a set and a remove, an iteration yields each  *)
(* pair once and reports the end exactly when none is left, and destroying *)
(* the map calls back for every pair.                                      *)
KeepsPromise == Promise!HmapPromise

(* A loop over a map whose body returns comes to its end.                  *)
IterationEnds == \A i \in Iter : iter[i].used ~> ~iter[i].used
=============================================================================
