------------------------------ MODULE MCObjects ------------------------------
(***************************************************************************)
(* Three addresses, one key, vectors of at most two elements: enough for a *)
(* container inside a container inside itself, an overwritten value that   *)
(* is the map, and a destructor that takes down a chain of three.          *)
(* Addresses are not declared symmetric, for the sake of the liveness      *)
(* property of the run.                                                    *)
(***************************************************************************)
EXTENDS Objects
=============================================================================
