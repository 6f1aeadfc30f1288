------------------------------ MODULE HmapSpec ------------------------------
(***************************************************************************)
(* What include/hmap.h promises: a map from keys to values whose set and   *)
(* remove return what was there before, and iterators that yield every     *)
(* pair of the map once, in no particular order, and then report the end.  *)
(* No operation changes the map while an iterator is in use: the two       *)
(* loops over iterators, in eval_loop and in hmap_string, do not change    *)
(* the map they walk.                                                      *)
(***************************************************************************)
EXTENDS Integers

CONSTANTS
  Key,    \* keys
  Val,    \* values, the pointers stored
  Iter,   \* iterators in use at the same time: loops over one map may nest
  NULL,   \* "no value", the null pointer
  Done    \* hmap_iter_next returned false

VARIABLES
  map,    \* the value at each key, NULL where there is none
  ret,    \* what the last call returned
  todo,   \* per iterator, the pairs it has still to yield; NULL: not in use
  doomed  \* hmap_destroy is running

specVars == <<map, ret, todo, doomed>>

Pair == [key : Key, val : Val]

Pairs(m) == {p \in Pair : m[p.key] = p.val}

Idle == ~doomed /\ \A i \in Iter : todo[i] = NULL

SpecInit ==
  /\ map = [k \in Key |-> NULL]
  /\ ret = NULL
  /\ todo = [i \in Iter |-> NULL]
  /\ doomed = FALSE

Set(k, v) ==
  /\ Idle
  /\ map' = [map EXCEPT ![k] = v]
  /\ ret' = map[k]
  /\ UNCHANGED <<todo, doomed>>

Get(k) ==
  /\ ~doomed
  /\ ret' = map[k]
  /\ UNCHANGED <<map, todo, doomed>>

Remove(k) ==
  /\ Idle
  /\ map' = [map EXCEPT ![k] = NULL]
  /\ ret' = map[k]
  /\ UNCHANGED <<todo, doomed>>

(* hmap_destroy hands every pair to its callback once.  It ends with no    *)
(* map, which the next hmap_new makes an empty one.                        *)
Destroy ==
  /\ Idle
  /\ doomed' = TRUE
  /\ UNCHANGED <<map, ret, todo>>

Callback ==
  /\ doomed
  /\ \E p \in Pairs(map) :
       /\ ret' = p
       /\ map' = [map EXCEPT ![p.key] = NULL]
  /\ UNCHANGED <<todo, doomed>>

Destroyed ==
  /\ doomed
  /\ Pairs(map) = {}
  /\ doomed' = FALSE
  /\ UNCHANGED <<map, ret, todo>>

(* hmap_free drops the pairs without a word.                              *)
Free ==
  /\ Idle
  /\ map' = [k \in Key |-> NULL]
  /\ UNCHANGED <<ret, todo, doomed>>

Start(i) ==
  /\ ~doomed
  /\ todo[i] = NULL
  /\ todo' = [todo EXCEPT ![i] = Pairs(map)]
  /\ UNCHANGED <<map, ret, doomed>>

Yield(i) ==
  /\ todo[i] # NULL
  /\ \E p \in todo[i] :
       /\ ret' = p
       /\ todo' = [todo EXCEPT ![i] = @ \ {p}]
  /\ UNCHANGED <<map, doomed>>

(* The end is reported when nothing is left, never before.                 *)
Finish(i) ==
  /\ todo[i] = {}
  /\ ret' = Done
  /\ todo' = [todo EXCEPT ![i] = NULL]
  /\ UNCHANGED <<map, doomed>>

(* A break in the loop's body, or an error.                                *)
Abandon(i) ==
  /\ todo[i] # NULL
  /\ todo' = [todo EXCEPT ![i] = NULL]
  /\ UNCHANGED <<map, ret, doomed>>

SpecNext ==
  \/ \E k \in Key : Get(k) \/ Remove(k) \/ \E v \in Val : Set(k, v)
  \/ Destroy \/ Callback \/ Destroyed \/ Free
  \/ \E i \in Iter : Start(i) \/ Yield(i) \/ Finish(i) \/ Abandon(i)

HmapPromise == SpecInit /\ [][SpecNext]_specVars
=============================================================================
