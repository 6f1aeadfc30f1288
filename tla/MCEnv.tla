-------------------------------- MODULE MCEnv -------------------------------
(***************************************************************************)
(* Two names.  A template extends the first, itself maybe, or nothing, or  *)
(* has two errors.  The directory has each kind of file, and every order   *)
(* of a file that loads and one that does not.                             *)
(***************************************************************************)
EXTENDS Env, TLC

CONSTANTS a, b

Plain   == [extends |-> NoName, errors |-> << >>]
Extends == [extends |-> a, errors |-> << >>]
Faulty  == [extends |-> NoName, errors |-> <<"first", "second">>]

MCName == {a, b}

MCTemplate == {Plain, Extends, Faulty}

MCDirectories ==
  {(a :> f) @@ (b :> g) :
     f \in {Short(Plain), Short(Extends), Gone},
     g \in {Short(Extends), Short(Faulty), Long(Plain), Subdir, Closed}}
=============================================================================
