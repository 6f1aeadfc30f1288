------------------------------- MODULE MCHmap -------------------------------
(***************************************************************************)
(* Three keys over three buckets: two of them collide, the third sits      *)
(* behind an empty bucket, so a list has a head, an interior and an end to *)
(* insert at and remove from, and an iterator has a bucket to skip.  Two   *)
(* iterators walk the map at once.                                         *)
(***************************************************************************)
EXTENDS Hmap

CONSTANTS k1, k2, k3

MCKey == {k1, k2, k3}
MCPos == [k \in MCKey |-> IF k = k3 THEN 2 ELSE 0]
=============================================================================
