--------------------------------- MODULE Env --------------------------------
(***************************************************************************)
(* roscha_init, roscha_deinit and the functions of an environment          *)
(* (src/roscha.c:441-631), for a host that calls them in an order of its   *)
(* own, over a directory that others write to.                             *)
(*                                                                         *)
(* The k-th attempt at a template allocates three blocks of memory: its    *)
(* name, its text and the struct template with what the parser made of it. *)
(* frees counts how often each was free'd.  A pointer is the number of the *)
(* attempt, 0 for NULL.  hmap_sets leaves the key of a node it finds as it *)
(* is: key is whose name that points to.                                   *)
(***************************************************************************)
EXTENDS SequencesExt, Naturals

CONSTANTS
  Name, NoName, Template,
  ParserErrors,
  Directories, \* what the directory can be at first
  MaxMade,     \* bound on the attempts
  MaxErrors,   \* bound on the messages before a call
  MaxPaths,    \* bound on the stack of eval_template
  MaxChanges   \* bound on the changes to the directory

(* What stat and read say of a file.  "long" is a text of BUFSIZE bytes or *)
(* more.                                                                   *)
Short(t) == [is |-> "short", text |-> t]
Long(t)  == [is |-> "long", text |-> t]
Gone     == [is |-> "gone"]
Subdir   == [is |-> "dir"]
Closed   == [is |-> "closed"]

Files == {Short(t) : t \in Template} \cup {Long(t) : t \in Template}
           \cup {Gone, Subdir, Closed}

Messages == ParserErrors \cup {"opendir", "stat", "not found", "eval"}

ASSUME EnvAssumption ==
  /\ NoName \notin Name
  /\ IsFiniteSet(Name)
  /\ \A t \in Template : t.extends \in Name \cup {NoName} /\ t.errors \in Seq(Messages)
  /\ Directories \subseteq [Name -> Files]
  /\ {MaxMade, MaxErrors, MaxPaths, MaxChanges} \subseteq Nat
  /\ MaxPaths > Cardinality(Name)

VARIABLES
  keywords,   \* the table of token.c: NULL, built or free'd
  env,        \* the environment: none, live or destroyed
  made,       \* the attempts: names and texts, and if the text is the host's
  frees,      \* how often each block was free'd
  templates,  \* env->internal->templates, and the keys of its nodes
  key,
  child,      \* the child of each template
  errors,     \* env->errors
  files,      \* the directory
  changes,
  todo, file, \* load_dir: the entries to come, the one that is to be read
  parity,     \* how many reads have failed, modulo 2
  paths,      \* the path of an entry was allocated
  want, path, \* eval_template: the name looked for, the templates found
  answer,     \* what the last render read its blocks from
  call,       \* ghost: what the last call began with
  mode

memory  == <<made, frees, templates, key>>
world   == <<files, changes>>
walk    == <<want, path, answer>>
loading == <<todo, file, parity, paths>>
vars == <<keywords, env, memory, child, errors, world, loading, walk, call, mode>>

Attempts == 1 .. MaxMade
Blocks   == {"name", "text", "template"} \X Attempts

Init ==
  /\ keywords = "NULL"
  /\ env = "none"
  /\ made = << >> /\ frees = [b \in Blocks |-> 0]
  /\ templates = [n \in Name |-> 0] /\ key = templates
  /\ child = [k \in Attempts |-> 0]
  /\ errors = << >>
  /\ files \in Directories /\ changes = 0
  /\ todo = {} /\ file = NoName /\ parity = 0 /\ paths = FALSE
  /\ want = NoName /\ path = << >> /\ answer = << >>
  /\ call = [op |-> "none", errors |-> << >>, result |-> TRUE]
  /\ mode = "idle"

-----------------------------------------------------------------------------
(***************************************************************************)
(* Calls.                                                                  *)
(***************************************************************************)
Ready == mode = "idle" /\ env = "live" /\ Len(errors) <= MaxErrors

Begin(op) ==
  /\ Ready
  /\ call' = [op |-> op, errors |-> errors, result |-> TRUE]
  /\ mode' = op

Return(result) ==
  /\ call' = [call EXCEPT !.result = result]
  /\ mode' = "idle"

(* A call that is one step.                                                *)
Called(op, result) ==
  /\ Ready
  /\ call' = [op |-> op, errors |-> errors, result |-> result]
  /\ UNCHANGED mode

Free(blocks) == [b \in Blocks |-> IF b \in blocks THEN frees[b] + 1 ELSE frees[b]]

Freed(b) == frees[b] > 0

(* template_destroy.  The text is not its own.                             *)
Parts(k) == {<<"name", k>>, <<"template", k>>}

-----------------------------------------------------------------------------
(***************************************************************************)
(* The tables that all environments share.                                 *)
(***************************************************************************)
roscha_init ==
  /\ mode = "idle"
  /\ keywords' = IF keywords = "NULL" THEN "built" ELSE keywords
  /\ UNCHANGED <<env, memory, child, errors, world, loading, walk, call, mode>>

(* The pointer stays, and is followed whatever it points to.               *)
roscha_deinit ==
  /\ mode = "idle"
  /\ IF keywords = "built" THEN keywords' = "freed" /\ UNCHANGED mode
     ELSE mode' = "crashed" /\ UNCHANGED keywords
  /\ UNCHANGED <<env, memory, child, errors, world, loading, walk, call>>

roscha_env_new ==
  /\ mode = "idle" /\ env = "none"
  /\ env' = "live"
  /\ UNCHANGED <<keywords, memory, child, errors, world, loading, walk, call, mode>>

-----------------------------------------------------------------------------
(***************************************************************************)
(* roscha_env_add_template: a new attempt, which the parser accepts or     *)
(* not.                                                                    *)
(***************************************************************************)
Attempt(n, t, owner) ==
  /\ Len(made) < MaxMade
  /\ made' = Append(made, [name |-> n, text |-> t, owner |-> owner])

New == Len(made) + 1

(* Variant with a mistake: what is replaced is destroyed, without a look   *)
(* at the key.                                                             *)
AcceptDestroys(n, t) ==
  /\ t.errors = << >>
  /\ templates' = [templates EXCEPT ![n] = New]
  /\ key' = [key EXCEPT ![n] = IF @ = 0 THEN New ELSE @]
  /\ frees' = Free(IF templates[n] = 0 THEN {} ELSE Parts(templates[n]))
  /\ UNCHANGED errors

Accept(n, t) ==
  /\ t.errors = << >>
  /\ templates' = [templates EXCEPT ![n] = New]
  /\ key' = [key EXCEPT ![n] = IF @ = 0 THEN New ELSE @]
  /\ UNCHANGED <<frees, errors>>

Reject(t) ==
  /\ t.errors # << >>
  /\ errors' = errors \o Reverse(t.errors)
  /\ UNCHANGED <<templates, key>>

(* The parser looks every word up.                                         *)
Parses == keywords = "built"

AddTemplate ==
  \E n \in Name, t \in Template :
    /\ Called("add", t.errors = << >>) /\ Parses
    /\ Attempt(n, t, "host")
    /\ \/ Accept(n, t)
       \/ Reject(t) /\ frees' = Free(Parts(New))
    /\ UNCHANGED <<keywords, env, child, world, loading, walk>>

-----------------------------------------------------------------------------
(***************************************************************************)
(* roscha_env_load_dir, over a directory that may change between readdir,  *)
(* stat and open.                                                          *)
(***************************************************************************)
OpenDir ==
  /\ Begin("load") /\ Len(made) + Cardinality(Name) <= MaxMade
  /\ todo' = {n \in Name : files[n] # Gone}
  /\ UNCHANGED <<keywords, env, memory, child, errors, world, file, parity, paths, walk>>

OpenDirFails ==
  /\ Called("load", FALSE)
  /\ errors' = Append(errors, "opendir")
  /\ UNCHANGED <<keywords, env, memory, child, world, loading, walk>>

(* Nothing frees fpath.                                                    *)
Entry(n) ==
  /\ mode = "load" /\ file = NoName /\ n \in todo
  /\ todo' = todo \ {n} /\ paths' = TRUE
  /\ UNCHANGED <<keywords, env, memory, child, world, parity, walk>>

(* readdir may or may not return what was removed since opendir.           *)
Omit(n) ==
  /\ mode = "load" /\ file = NoName /\ n \in todo /\ files[n] = Gone
  /\ todo' = todo \ {n}
  /\ UNCHANGED <<keywords, env, memory, child, errors, world, file, parity, paths, walk,
                 call, mode>>

StatFails(n) ==
  /\ Entry(n) /\ files[n] = Gone
  /\ errors' = Append(errors, "stat")
  /\ Return(FALSE)
  /\ UNCHANGED file

(* Variant with a mistake: `break' for `continue'.                        *)
SkipDirBreaks(n) ==
  /\ Entry(n) /\ files[n] = Subdir
  /\ Return(TRUE)
  /\ UNCHANGED <<errors, file>>

SkipDir(n) ==
  /\ Entry(n) /\ files[n] = Subdir
  /\ UNCHANGED <<errors, call, mode, file>>

Stat(n) ==
  /\ Entry(n) /\ files[n] \notin {Gone, Subdir}
  /\ file' = n
  /\ UNCHANGED <<errors, call, mode>>

Reading == mode = "load" /\ file # NoName
Readable == files[file].is \in {"short", "long"}

ReadFile ==
  /\ Reading /\ Readable /\ Parses
  /\ Attempt(file, files[file].text, "env")
  /\ file' = NoName
  /\ UNCHANGED <<keywords, env, child, world, todo, parity, paths, walk>>

LoadFile ==
  /\ ReadFile /\ Accept(file, files[file].text)
  /\ UNCHANGED <<call, mode>>

(* Variant with a mistake: the text is forgotten.                         *)
FileRejectedKeepsText ==
  /\ ReadFile /\ Reject(files[file].text)
  /\ frees' = Free(Parts(New))
  /\ Return(FALSE)

FileRejected ==
  /\ ReadFile /\ Reject(files[file].text)
  /\ frees' = Free(Parts(New) \cup {<<"text", New>>})
  /\ Return(FALSE)

(* read returns -1, which as a size_t is more than 0, and does so again.   *)
(* What this appends to the text is not modelled.                          *)
ReadFails ==
  /\ \/ Reading /\ ~Readable
     \/ mode = "spin"
  /\ parity' = 1 - parity /\ mode' = "spin"
  /\ UNCHANGED <<keywords, env, memory, child, errors, world, todo, file, paths, walk, call>>

LoadDone ==
  /\ mode = "load" /\ file = NoName /\ todo = {}
  /\ Return(TRUE)
  /\ UNCHANGED <<keywords, env, memory, child, errors, world, loading, walk>>

(* The parser reads free'd memory; buf[BUFSIZE] or buf[-1] is written,     *)
(* which may do harm or not.                                               *)
Crash ==
  /\ \/ Ready /\ keywords = "freed"
     \/ Reading /\ Readable /\ (~Parses \/ files[file].is = "long")
     \/ Reading /\ ~Readable
  /\ mode' = "crashed"
  /\ UNCHANGED <<keywords, env, memory, child, errors, world, loading, walk, call>>

(* A file is removed, replaced by a directory or made unreadable.          *)
Change ==
  /\ mode \in {"idle", "load"} /\ env = "live" /\ changes < MaxChanges
  /\ changes' = changes + 1
  /\ \E n \in Name, f \in {Gone, Subdir, Closed} : files' = [files EXCEPT ![n] = f]
  /\ UNCHANGED <<keywords, env, memory, child, errors, loading, walk, call, mode>>

-----------------------------------------------------------------------------
(***************************************************************************)
(* roscha_env_render: what eval_template does before it evaluates blocks,  *)
(* which it takes from the template it ended at and, through child, from   *)
(* those that extend it.  Evaluating them may report an error, and one is  *)
(* enough to stop it; the text appended so far is returned all the same.   *)
(* Evaluations that do not return are those of module Render.              *)
(***************************************************************************)
Render(n) ==
  /\ Begin("render")
  /\ want' = n /\ path' = << >>
  /\ UNCHANGED <<keywords, env, memory, child, errors, world, loading, answer>>

Chain(c, k) ==
  LET Ch[j \in 0 .. MaxMade] ==
        IF j = 0 THEN <<k>>
        ELSE LET s == Ch[j - 1] IN
             IF c[Last(s)] = 0 THEN s ELSE Append(s, c[Last(s)])
  IN  Ch[MaxMade]

Leave == want' = NoName /\ path' = << >>

Lookup == mode = "render" /\ Len(path) < MaxPaths

NotFound ==
  /\ Lookup /\ templates[want] = 0
  /\ errors' = Append(errors, "not found")
  /\ Return(FALSE) /\ Leave
  /\ UNCHANGED <<keywords, env, memory, child, world, loading, answer>>

(* Variant with a mistake: the name's template keeps the child it had.    *)
AdoptedOnly(k) == IF path = << >> THEN child ELSE [child EXCEPT ![k] = Last(path)]

Adopted(k) == [child EXCEPT ![k] = IF path = << >> THEN 0 ELSE Last(path)]

(* Variant with a mistake: the inner `name' does not hide the outer one.  *)
ExtendItself ==
  LET k == templates[want] IN
  /\ Lookup /\ k # 0 /\ made[k].text.extends # NoName
  /\ child' = Adopted(k)
  /\ path' = Append(path, k)
  /\ UNCHANGED <<keywords, env, memory, errors, world, loading, want, answer, call, mode>>

Extend ==
  LET k == templates[want] IN
  /\ Lookup /\ k # 0 /\ made[k].text.extends # NoName
  /\ child' = Adopted(k)
  /\ path' = Append(path, k) /\ want' = made[k].text.extends
  /\ UNCHANGED <<keywords, env, memory, errors, world, loading, answer, call, mode>>

Answer ==
  LET k == templates[want] IN
  /\ Lookup /\ k # 0 /\ made[k].text.extends = NoName
  /\ child' = Adopted(k)
  /\ answer' = [i \in DOMAIN Chain(child', k) |-> made[Chain(child', k)[i]].text]
  /\ errors' \in {errors, Append(errors, "eval")}
  /\ Return(TRUE) /\ Leave
  /\ UNCHANGED <<keywords, env, memory, world, loading>>

(* There is no end of the stack that the code checks.                      *)
Overflow ==
  /\ mode = "render" /\ Len(path) = MaxPaths
  /\ mode' = "overflow"
  /\ UNCHANGED <<keywords, env, memory, child, errors, world, loading, walk, call>>

-----------------------------------------------------------------------------
(* The host has dealt with the errors and frees them.                      *)
TakeErrors ==
  /\ mode = "idle" /\ env = "live" /\ errors # << >>
  /\ errors' = << >>
  /\ call' = [op |-> "take", errors |-> << >>, result |-> TRUE]
  /\ UNCHANGED <<keywords, env, memory, child, world, loading, walk, mode>>

roscha_env_destroy ==
  /\ mode = "idle" /\ env = "live"
  /\ env' = "destroyed"
  /\ frees' = Free({b \in Blocks : \E n \in Name : b \in Parts(templates[n])})
  /\ templates' = [n \in Name |-> 0] /\ key' = templates'
  /\ errors' = << >>
  /\ call' = [op |-> "destroy", errors |-> << >>, result |-> TRUE]
  /\ UNCHANGED <<keywords, made, child, world, loading, walk, mode>>

LoadStep ==
  \/ \E n \in Name : Omit(n) \/ StatFails(n) \/ SkipDir(n) \/ Stat(n)
  \/ LoadFile \/ FileRejected \/ ReadFails \/ LoadDone

RenderStep == NotFound \/ Extend \/ Answer \/ Overflow

Next ==
  \/ roscha_init \/ roscha_deinit \/ roscha_env_new
  \/ AddTemplate \/ OpenDir \/ OpenDirFails
  \/ LoadStep \/ Crash \/ Change
  \/ \E n \in Name : Render(n)
  \/ RenderStep
  \/ TakeErrors \/ roscha_env_destroy

Spec == Init /\ [][Next]_vars /\ WF_vars(LoadStep) /\ WF_vars(RenderStep)

-----------------------------------------------------------------------------
(***************************************************************************)
(* Properties.                                                             *)
(***************************************************************************)
Pointers == 0 .. MaxMade

TypeOK ==
  /\ keywords \in {"NULL", "built", "freed"}
  /\ env \in {"none", "live", "destroyed"}
  /\ made \in Seq([name : Name, text : Template, owner : {"host", "env"}])
  /\ Len(made) <= MaxMade
  /\ frees \in [Blocks -> Nat]
  /\ templates \in [Name -> Pointers] /\ key \in [Name -> Pointers]
  /\ \A n \in Name : (templates[n] = 0) <=> (key[n] = 0)
  /\ child \in [Attempts -> Pointers]
  /\ files \in [Name -> Files]
  /\ todo \subseteq Name /\ file \in Name \cup {NoName} /\ parity \in {0, 1}
  /\ paths \in BOOLEAN
  /\ mode \in {"idle", "load", "render", "spin", "overflow", "crashed"}

(* Nothing is free'd twice, and nothing that the environment leads to is   *)
(* free'd: the templates with their texts, the names that the keys of the  *)
(* map point to, which are those of templates long replaced, and the       *)
(* children that renders leave behind.                                     *)
Alive ==
  /\ TypeOK
  /\ \A b \in Blocks : frees[b] <= 1
  /\ \A n \in Name : LET k == templates[n] IN
       k # 0 => /\ \A b \in Parts(k) \cup {<<"text", k>>} : ~Freed(b)
                /\ ~Freed(<<"name", key[n]>>)
                /\ child[k] # 0 => ~Freed(<<"template", child[k]>>)

Rejected == {k \in DOMAIN made : made[k].text.errors # << >>}

Replaced ==
  {k \in DOMAIN made \ Rejected :
     \E j \in DOMAIN made \ Rejected : j > k /\ made[j].name = made[k].name}

(* The host's texts are never free'd, and what a destroyed environment     *)
(* leaves behind is no more than templates that were replaced, with their  *)
(* names, and texts of files it accepted: no failure on the way loses what *)
(* it had allocated.                                                       *)
OnlyReplacedLost ==
  \A k \in DOMAIN made :
    /\ Freed(<<"text", k>>) => made[k].owner = "env"
    /\ env = "destroyed" =>
         /\ k \notin Replaced => \A b \in Parts(k) : Freed(b)
         /\ k \in Rejected /\ made[k].owner = "env" => Freed(<<"text", k>>)

(* What a call returns is true.  Adding and loading fail if and only if    *)
(* they report errors, a render fails because a template is not there, and *)
(* one that returns a text may have reported one error of evaluating it;   *)
(* and a directory that loads, and did not change meanwhile, leaves the    *)
(* templates of all its files in the environment (include/roscha.h:37-40). *)
ResultsTrue ==
  mode = "idle" /\ env = "live" =>
    /\ IF call.op # "render" THEN call.result <=> errors = call.errors
       ELSE IF call.result THEN errors \in {call.errors, Append(call.errors, "eval")}
       ELSE errors = Append(call.errors, "not found")
    /\ call.op = "load" /\ call.result /\ changes = 0 =>
         \A n \in Name : files[n].is \in {"short", "long"} =>
           templates[n] # 0 /\ made[templates[n]].text = files[n].text

(* What the memory amounts to is a map from names to templates: keys that  *)
(* outlive their template, children of earlier renders and whatever failed *)
(* make no difference to what is rendered, and the stack overflows for     *)
(* templates only that extend each other in a circle.                      *)
Promise ==
  INSTANCE EnvSpec WITH
    sources <- [n \in Name |->
                  IF templates[n] = 0 THEN [extends |-> NoName, errors |-> <<"no template">>]
                  ELSE made[templates[n]].text],
    hung <- mode = "overflow"

ImplementsPromise == Promise!Spec

(***************************************************************************)
(* What the documentation says and the code does not do.                   *)
(***************************************************************************)
(* include/roscha.h:37-40: loading returns, false if an error occurred.    *)
LoadReturns == mode = "load" ~> mode \in {"idle", "crashed"}

(* include/roscha.h:48-51: destroying frees all memory associated with the *)
(* environment, including parsed templates, and what loading allocated.    *)
DestroyFreesAll ==
  env = "destroyed" =>
    /\ \A k \in DOMAIN made :
         /\ \A b \in Parts(k) : Freed(b)
         /\ made[k].owner = "env" => Freed(<<"text", k>>)
    /\ ~paths
=============================================================================
