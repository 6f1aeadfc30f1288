------------------------------- MODULE EnvSpec ------------------------------
(***************************************************************************)
(* What include/roscha.h promises of an environment: a map from names to   *)
(* the templates added last under them, and errors in the order in which   *)
(* they are reported.  Rendering a name goes from its template through     *)
(* what that extends to one that extends nothing.  What evaluating its     *)
(* blocks finds wrong is one more message.                                 *)
(*                                                                         *)
(* A template is a record: what it extends (NoName for nothing), and the   *)
(* messages the parser has about it, in the order in which it finds them.  *)
(***************************************************************************)
EXTENDS SequencesExt, Naturals

CONSTANTS
  Name,      \* names of templates, and of the files they are loaded from
  NoName,
  Template   \* what templates can be

Accepted == {t \in Template : t.errors = << >>}

None == [extends |-> NoName, errors |-> <<"no template">>]

VARIABLES
  sources,   \* the template of each name, None where there is none
  errors,    \* env->errors
  answer,    \* the templates of the last render, from the base to the name's
  hung       \* a render does not return

vars == <<sources, errors, answer, hung>>

Init ==
  /\ sources = [n \in Name |-> None]
  /\ errors = << >>
  /\ answer = << >>
  /\ hung = FALSE

Add(n, t) ==
  /\ t.errors = << >>
  /\ sources' = [sources EXCEPT ![n] = t]
  /\ UNCHANGED <<errors, answer, hung>>

(* The messages of a parser are taken from the end of its vector.          *)
Reject(t) ==
  /\ t.errors # << >>
  /\ errors' = errors \o Reverse(t.errors)
  /\ UNCHANGED <<sources, answer, hung>>

(* A directory or a file is not to be had.                                 *)
Complain(m) ==
  /\ errors' = Append(errors, m)
  /\ UNCHANGED <<sources, answer, hung>>

(* The names from n to the last that an extends tag leads to, missing or   *)
(* not; as many as there are names, at most.                               *)
Line(n) ==
  LET parent == [m \in Name |-> sources[m].extends]
      Ln[k \in 0 .. Cardinality(Name)] ==
        IF k = 0 THEN <<n>>
        ELSE LET s == Ln[k - 1] IN
             IF parent[Last(s)] = NoName THEN s ELSE Append(s, parent[Last(s)])
  IN  Ln[Cardinality(Name)]

(* Templates that extend each other have no base.                          *)
Circular(n) == Len(Line(n)) > Cardinality(Name)

Render(n) ==
  LET line == Line(n) IN
  /\ ~Circular(n)
  /\ IF sources[Last(line)] = None
     THEN errors' = Append(errors, "not found") /\ UNCHANGED answer
     ELSE /\ answer' = Reverse([i \in DOMAIN line |-> sources[line[i]]])
          /\ errors' \in {errors, Append(errors, "eval")}
  /\ UNCHANGED <<sources, hung>>

Hang(n) ==
  /\ Circular(n)
  /\ hung' = TRUE
  /\ UNCHANGED <<sources, errors, answer>>

TakeErrors ==
  /\ errors' = << >>
  /\ UNCHANGED <<sources, answer, hung>>

Destroy ==
  /\ sources' = [n \in Name |-> None]
  /\ errors' = << >>
  /\ UNCHANGED <<answer, hung>>

Next ==
  \/ \E n \in Name, t \in Accepted : Add(n, t)
  \/ \E t \in Template : Reject(t)
  \/ \E m \in {"opendir", "stat"} : Complain(m)
  \/ \E n \in Name : Render(n) \/ Hang(n)
  \/ TakeErrors \/ Destroy

Spec == Init /\ [][Next]_vars
=============================================================================
