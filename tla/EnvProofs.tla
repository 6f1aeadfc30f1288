------------------------------ MODULE EnvProofs -----------------------------
(***************************************************************************)
(* The memory of an environment, for every set of names and templates,     *)
(* every directory and every number of attempts.  IInv says of each block  *)
(* how often it has been free'd, which Alive does not: that a template is  *)
(* alive because it was accepted, and that the one in the map is the last  *)
(* that was accepted under its name.                                       *)
(***************************************************************************)
EXTENDS Env, FiniteSetTheorems, WellFoundedInduction, TLAPS

Parted == {"name", "text", "template"}

(* The attempts that the parser accepted.                                  *)
Current == DOMAIN made \ Rejected

(* What TypeOK says of the memory, and of the rest.                        *)
TypedMemory ==
  /\ made \in Seq([name : Name, text : Template, owner : {"host", "env"}])
  /\ Len(made) <= MaxMade
  /\ frees \in [Blocks -> Nat]
  /\ templates \in [Name -> Pointers] /\ key \in [Name -> Pointers]
  /\ \A n \in Name : (templates[n] = 0) <=> (key[n] = 0)
  /\ child \in [Attempts -> Pointers]

Control ==
  /\ keywords \in {"NULL", "built", "freed"}
  /\ env \in {"none", "live", "destroyed"}
  /\ files \in [Name -> Files]
  /\ todo \subseteq Name /\ file \in Name \cup {NoName} /\ parity \in {0, 1}
  /\ paths \in BOOLEAN
  /\ mode \in {"idle", "load", "render", "spin", "overflow", "crashed"}
  /\ mode \notin {"idle", "crashed"} => env = "live"
  /\ mode = "render" => want \in Name

(* The stack of eval_template holds templates that the map had, and is     *)
(* empty between renders.                                                  *)
Stack ==
  /\ path \in Seq(Current)
  /\ mode \notin {"render", "overflow"} => path = << >>

(* What was free'd, and what the environment leads to.                     *)
Unmade == \A k \in Attempts \ DOMAIN made : \A p \in Parted : frees[<<p, k>>] = 0

Texts ==
  \A k \in DOMAIN made :
    frees[<<"text", k>>] = IF k \in Rejected /\ made[k].owner = "env" THEN 1 ELSE 0

Templates ==
  \A k \in DOMAIN made : \A p \in {"name", "template"} :
    frees[<<p, k>>] =
      IF env = "destroyed" THEN IF k \in Replaced THEN 0 ELSE 1
      ELSE IF k \in Rejected THEN 1 ELSE 0

Entries ==
  \A n \in Name :
    /\ env = "destroyed" => templates[n] = 0
    /\ templates[n] # 0 => /\ templates[n] \in Current /\ made[templates[n]].name = n
                           /\ key[n] \in Current

Latest == env # "destroyed" => \A k \in Current : templates[made[k].name] >= k

Children == \A k \in Attempts : child[k] # 0 => child[k] \in Current

Memory == Unmade /\ Texts /\ Templates /\ Entries /\ Latest /\ Children

IInv == TypedMemory /\ Control /\ Stack /\ Memory

-----------------------------------------------------------------------------
(* What the proofs need of the constants.                                  *)
LEMMA Bounds == MaxMade \in Nat /\ NoName \notin Name
BY EnvAssumption

(* The elements of a sequence.                                             *)
LEMMA Elements ==
  ASSUME NEW S, NEW s \in Seq(S)
  PROVE  /\ DOMAIN s = 1 .. Len(s) /\ Len(s) \in Nat
         /\ \A k \in DOMAIN s : s[k] \in S
OBVIOUS

(* A sequence with one more element.                                       *)
LEMMA Appended ==
  ASSUME NEW S, NEW s \in Seq(S), NEW e \in S
  PROVE  /\ Append(s, e) \in Seq(S)
         /\ DOMAIN Append(s, e) = 1 .. Len(s) + 1 /\ Len(Append(s, e)) = Len(s) + 1
         /\ \A k \in DOMAIN s : Append(s, e)[k] = s[k]
         /\ Append(s, e)[Len(s) + 1] = e
OBVIOUS

(* The attempts have numbers; only accepted ones are replaced.             *)
LEMMA Domains ==
  ASSUME TypeOK
  PROVE  /\ DOMAIN made = 1 .. Len(made)
         /\ Len(made) \in Nat /\ MaxMade \in Nat
         /\ DOMAIN made \subseteq Attempts
         /\ \A k \in DOMAIN made : /\ made[k].name \in Name /\ made[k].text \in Template
                                   /\ made[k].owner \in {"host", "env"}
         /\ Current \subseteq DOMAIN made /\ Rejected \subseteq DOMAIN made
         /\ Replaced \subseteq Current
<1>1. /\ made \in Seq([name : Name, text : Template, owner : {"host", "env"}])
      /\ Len(made) <= MaxMade /\ MaxMade \in Nat
  BY Bounds DEF TypeOK
<1>2. /\ DOMAIN made = 1 .. Len(made) /\ Len(made) \in Nat
      /\ \A k \in DOMAIN made :
           made[k] \in [name : Name, text : Template, owner : {"host", "env"}]
  BY <1>1, Elements
<1>3. DOMAIN made \subseteq Attempts
  BY <1>1, <1>2 DEF Attempts
<1>4. Rejected \subseteq DOMAIN made /\ Replaced \subseteq Current
  BY DEF Rejected, Replaced, Current
<1> QED
  BY <1>1, <1>2, <1>3, <1>4 DEF Current

(* A new attempt leaves the others as they are.                            *)
LEMMA Attempted ==
  ASSUME TypeOK, NEW n \in Name, NEW t \in Template, NEW o \in {"host", "env"},
         Attempt(n, t, o)
  PROVE  /\ made' \in Seq([name : Name, text : Template, owner : {"host", "env"}])
         /\ Len(made') <= MaxMade
         /\ New \in Attempts \ DOMAIN made
         /\ DOMAIN made' = DOMAIN made \cup {New}
         /\ \A k \in DOMAIN made : made'[k] = made[k] /\ k < New
         /\ made'[New].name = n /\ made'[New].text = t /\ made'[New].owner = o
         /\ Rejected' = IF t.errors = << >> THEN Rejected ELSE Rejected \cup {New}
         /\ Current' = IF t.errors = << >> THEN Current \cup {New} ELSE Current
<1> DEFINE Record == [name : Name, text : Template, owner : {"host", "env"}]
           r == [name |-> n, text |-> t, owner |-> o]
<1>1. /\ made \in Seq(Record) /\ r \in Record /\ made' = Append(made, r)
      /\ Len(made) < MaxMade /\ MaxMade \in Nat
      /\ DOMAIN made = 1 .. Len(made) /\ Len(made) \in Nat
  BY Bounds, Domains DEF TypeOK, Attempt
<1>2. /\ made' \in Seq(Record) /\ Len(made') = Len(made) + 1
      /\ DOMAIN made' = 1 .. Len(made) + 1
      /\ \A k \in DOMAIN made : made'[k] = made[k]
      /\ made'[New] = r
  <2> HIDE DEF Record, r
  <2> QED  BY <1>1, Appended DEF New
<1>3. /\ New \in Attempts \ DOMAIN made
      /\ DOMAIN made' = DOMAIN made \cup {New}
      /\ \A k \in DOMAIN made : k < New
  <2> HIDE DEF Record, r
  <2> QED  BY <1>1, <1>2 DEF Attempts, New
<1>4. made'[New].name = n /\ made'[New].text = t /\ made'[New].owner = o
  BY <1>2
<1>5. Rejected' = IF t.errors = << >> THEN Rejected ELSE Rejected \cup {New}
  <2> HIDE DEF Record, r
  <2> QED  BY <1>2, <1>3, <1>4 DEF Rejected
<1>6. Current' = IF t.errors = << >> THEN Current \cup {New} ELSE Current
  <2> HIDE DEF Record, r
  <2> QED  BY <1>3, <1>5 DEF Current, Rejected
<1>7. Len(made') <= MaxMade
  BY <1>1, <1>2
<1> QED
  BY <1>2, <1>3, <1>4, <1>5, <1>6, <1>7

(* free, block by block.                                                   *)
LEMMA Frees ==
  ASSUME frees \in [Blocks -> Nat], NEW S, frees' = Free(S)
  PROVE  /\ frees' \in [Blocks -> Nat]
         /\ \A b \in Blocks : frees'[b] = IF b \in S THEN frees[b] + 1 ELSE frees[b]
BY DEF Free

(* The parts of each attempt are blocks.                                   *)
LEMMA Pairs == \A p \in Parted, k \in Attempts : <<p, k>> \in Blocks
BY DEF Parted, Blocks

(* IInv implies the type invariant.                                        *)
LEMMA Types == ASSUME IInv PROVE TypeOK
BY DEF IInv, TypedMemory, Control, TypeOK

-----------------------------------------------------------------------------
(* An accepted template takes its name's place in the map.                 *)
LEMMA AcceptStep ==
  ASSUME IInv, env = "live", UNCHANGED <<env, child>>,
         NEW n \in Name, NEW t \in Template, NEW o \in {"host", "env"},
         Attempt(n, t, o), Accept(n, t)
  PROVE  Memory' /\ TypedMemory'
<1>1. TypeOK /\ Memory /\ TypedMemory
  BY Types DEF IInv
<1>2. /\ DOMAIN made' = DOMAIN made \cup {New} /\ New \in Attempts \ DOMAIN made
      /\ \A k \in DOMAIN made : made'[k] = made[k] /\ k < New
      /\ made'[New].name = n
      /\ Rejected' = Rejected /\ Current' = Current \cup {New}
      /\ made' \in Seq([name : Name, text : Template, owner : {"host", "env"}])
      /\ Len(made') <= MaxMade
  BY <1>1, Attempted DEF Accept
<1>3. /\ DOMAIN made \subseteq Attempts /\ Current \subseteq DOMAIN made
      /\ Rejected \subseteq DOMAIN made
      /\ \A k \in DOMAIN made : made[k].name \in Name
  BY <1>1, Domains
<1>4. /\ templates \in [Name -> Pointers] /\ key \in [Name -> Pointers]
      /\ New \in Pointers /\ New # 0
      /\ frees' = frees
      /\ \A m \in Name : /\ templates'[m] = IF m = n THEN New ELSE templates[m]
                         /\ key'[m] = IF m = n /\ key[m] = 0 THEN New ELSE key[m]
      /\ templates' \in [Name -> Pointers] /\ key' \in [Name -> Pointers]
  BY <1>1, <1>2, Bounds DEF TypedMemory, Accept, Pointers, Attempts
<1>5. Unmade'
  BY <1>1, <1>2, <1>4 DEF Memory, Unmade
<1>6. Texts'
  <2> SUFFICES ASSUME NEW k \in DOMAIN made'
               PROVE  frees[<<"text", k>>]
                        = IF k \in Rejected /\ made'[k].owner = "env" THEN 1 ELSE 0
    BY <1>2, <1>4 DEF Texts
  <2>1. CASE k = New
    BY <2>1, <1>1, <1>2, <1>3 DEF Memory, Unmade, Parted
  <2>2. CASE k \in DOMAIN made
    BY <2>2, <1>1, <1>2 DEF Memory, Texts
  <2> QED  BY <2>1, <2>2, <1>2
<1>7. Templates'
  <2> SUFFICES ASSUME NEW k \in DOMAIN made', NEW p \in {"name", "template"}
               PROVE  frees[<<p, k>>] = IF k \in Rejected THEN 1 ELSE 0
    BY <1>2, <1>4 DEF Templates
  <2>1. CASE k = New
    BY <2>1, <1>1, <1>2, <1>3 DEF Memory, Unmade, Parted
  <2>2. CASE k \in DOMAIN made
    BY <2>2, <1>1 DEF Memory, Templates
  <2> QED  BY <2>1, <2>2, <1>2
<1>8. Entries'
  BY <1>1, <1>2, <1>3, <1>4 DEF Memory, Entries, TypedMemory
<1>9. Latest'
  <2> SUFFICES ASSUME NEW k \in Current'
               PROVE  templates'[made'[k].name] >= k
    BY DEF Latest
  <2>1. CASE k = New
    BY <2>1, <1>2, <1>4 DEF Pointers
  <2>2. CASE k \in Current
    <3>1. templates[made[k].name] >= k
      BY <2>2, <1>1 DEF Memory, Latest
    <3>2. made'[k].name = made[k].name /\ made[k].name \in Name
      BY <2>2, <1>2, <1>3
    <3>3. New >= k
      BY <2>2, <1>2, <1>3, Bounds DEF Attempts
    <3> QED
      BY <3>1, <3>2, <3>3, <1>4
  <2> QED  BY <2>1, <2>2, <1>2
<1>10. Children'
  BY <1>1, <1>2 DEF Memory, Children
<1>11. TypedMemory'
  BY <1>1, <1>2, <1>4 DEF TypedMemory
<1> QED
  BY <1>5, <1>6, <1>7, <1>8, <1>9, <1>10, <1>11 DEF Memory

(* The blocks of a rejected attempt, its text if that is not the host's.   *)
Discarded(k, o) == Parts(k) \cup (IF o = "env" THEN {<<"text", k>>} ELSE {})

(* A rejected one takes its blocks along.                                  *)
LEMMA RejectStep ==
  ASSUME IInv, env = "live", UNCHANGED <<env, child>>,
         NEW n \in Name, NEW t \in Template, NEW o \in {"host", "env"},
         Attempt(n, t, o), Reject(t), frees' = Free(Discarded(New, o))
  PROVE  Memory' /\ TypedMemory'
<1>1. TypeOK /\ Memory /\ TypedMemory
  BY Types DEF IInv
<1>2. /\ DOMAIN made' = DOMAIN made \cup {New} /\ New \in Attempts \ DOMAIN made
      /\ \A k \in DOMAIN made : made'[k] = made[k]
      /\ made'[New].owner = o
      /\ Rejected' = Rejected \cup {New} /\ Current' = Current
      /\ made' \in Seq([name : Name, text : Template, owner : {"host", "env"}])
      /\ Len(made') <= MaxMade
  BY <1>1, Attempted DEF Reject
<1>3. /\ DOMAIN made \subseteq Attempts /\ Current \subseteq DOMAIN made
      /\ Rejected \subseteq DOMAIN made
  BY <1>1, Domains
<1>4. /\ frees' \in [Blocks -> Nat]
      /\ \A p \in Parted, k \in Attempts :
           frees'[<<p, k>>] = IF k = New /\ (p = "text" => o = "env")
                              THEN frees[<<p, k>>] + 1 ELSE frees[<<p, k>>]
  <2>1. /\ frees' \in [Blocks -> Nat]
        /\ \A b \in Blocks :
             frees'[b] = IF b \in Discarded(New, o) THEN frees[b] + 1 ELSE frees[b]
    BY <1>1, Frees DEF TypedMemory
  <2>2. \A p \in Parted, k \in Attempts :
          <<p, k>> \in Discarded(New, o) <=> k = New /\ (p = "text" => o = "env")
    BY DEF Discarded, Parts, Parted
  <2> QED
    BY <2>1, <2>2, Pairs
<1>5. templates' = templates /\ key' = key
  BY DEF Reject
<1>6. \A p \in Parted : frees[<<p, New>>] = 0
  BY <1>1, <1>2 DEF Memory, Unmade
<1>11. Unmade'
  BY <1>1, <1>2, <1>4 DEF Memory, Unmade
<1>7. Texts'
  <2> SUFFICES ASSUME NEW k \in DOMAIN made'
               PROVE  frees'[<<"text", k>>]
                        = IF k \in Rejected' /\ made'[k].owner = "env" THEN 1 ELSE 0
    BY DEF Texts
  <2>1. CASE k = New
    <3>1. \A q \in Parted :
            frees'[<<q, New>>] = IF q = "text" => o = "env" THEN 1 ELSE 0
      BY <1>2, <1>4, <1>6
    <3> QED  BY <2>1, <3>1, <1>2 DEF Parted
  <2>2. CASE k \in DOMAIN made
    BY <2>2, <1>1, <1>2, <1>3, <1>4 DEF Memory, Texts, Parted
  <2> QED  BY <2>1, <2>2, <1>2
<1>8. Templates'
  <2> SUFFICES ASSUME NEW k \in DOMAIN made', NEW p \in {"name", "template"}
               PROVE  frees'[<<p, k>>] = IF k \in Rejected' THEN 1 ELSE 0
    BY DEF Templates
  <2>1. CASE k = New
    <3>1. \A q \in Parted :
            frees'[<<q, New>>] = IF q = "text" => o = "env" THEN 1 ELSE 0
      BY <1>2, <1>4, <1>6
    <3> QED  BY <2>1, <3>1, <1>2 DEF Parted
  <2>2. CASE k \in DOMAIN made
    BY <2>2, <1>1, <1>2, <1>3, <1>4 DEF Memory, Templates, Parted
  <2> QED  BY <2>1, <2>2, <1>2
<1>9. Entries' /\ Latest' /\ Children'
  BY <1>1, <1>2, <1>3, <1>5 DEF Memory, Entries, Latest, Children
<1>10. TypedMemory'
  BY <1>1, <1>2, <1>4, <1>5 DEF TypedMemory
<1> QED
  BY <1>7, <1>8, <1>9, <1>10, <1>11 DEF Memory

(* The templates in the map are those that no other replaced.              *)
LEMMA Mapped ==
  ASSUME IInv, env = "live", NEW k \in DOMAIN made
  PROVE  (\E n \in Name : templates[n] = k) <=> k \in Current \ Replaced
<1>1. /\ TypeOK /\ Entries /\ Latest /\ templates \in [Name -> Pointers]
  BY Types DEF IInv, Memory, TypedMemory
<1>2. /\ DOMAIN made = 1 .. Len(made) /\ Len(made) \in Nat
      /\ Current \subseteq DOMAIN made
      /\ \A j \in DOMAIN made : made[j].name \in Name
  BY <1>1, Domains
<1>3. ASSUME NEW n \in Name, templates[n] = k
      PROVE  k \in Current \ Replaced
  BY <1>1, <1>2, <1>3, Bounds DEF Entries, Latest, Replaced, Current, Pointers
<1>4. ASSUME k \in Current \ Replaced
      PROVE  templates[made[k].name] = k
  <2> DEFINE j == templates[made[k].name]
  <2>1. j \in Nat /\ j >= k /\ j # 0
    BY <1>1, <1>2, <1>4, Bounds DEF Latest, Pointers
  <2>2. j \in Current /\ made[j].name = made[k].name
    BY <2>1, <1>1, <1>2 DEF Entries
  <2>3. ~(j > k)
    BY <2>2, <1>4 DEF Replaced, Current
  <2> QED  BY <2>1, <2>3, <1>2
<1> QED
  BY <1>2, <1>3, <1>4

(* Destroying frees what is in the map.                                    *)
LEMMA DestroyStep ==
  ASSUME IInv, roscha_env_destroy
  PROVE  Memory' /\ TypedMemory'
<1>1. TypeOK /\ Memory /\ TypedMemory /\ env = "live" /\ env' = "destroyed"
  BY Types DEF IInv, roscha_env_destroy
<1>2. /\ made' = made /\ child' = child
      /\ templates' = [n \in Name |-> 0] /\ key' = templates'
  BY DEF roscha_env_destroy
<1>3. /\ DOMAIN made \subseteq Attempts /\ Current \subseteq DOMAIN made
      /\ Rejected \subseteq DOMAIN made /\ Replaced \subseteq Current
      /\ \A k \in Attempts : k # 0
  BY <1>1, Domains DEF Attempts
<1>4. Rejected' = Rejected /\ Replaced' = Replaced /\ Current' = Current
  BY <1>2 DEF Rejected, Replaced, Current
<1>5. /\ frees' \in [Blocks -> Nat]
      /\ \A p \in Parted, k \in Attempts :
           frees'[<<p, k>>] = IF p # "text" /\ \E n \in Name : templates[n] = k
                              THEN frees[<<p, k>>] + 1 ELSE frees[<<p, k>>]
  <2> DEFINE S == {b \in Blocks : \E n \in Name : b \in Parts(templates[n])}
  <2>1. frees' = Free(S)
    BY DEF roscha_env_destroy
  <2>2. /\ frees' \in [Blocks -> Nat]
        /\ \A b \in Blocks : frees'[b] = IF b \in S THEN frees[b] + 1 ELSE frees[b]
    <3> HIDE DEF S
    <3> QED  BY <2>1, <1>1, Frees DEF TypedMemory
  <2>3. \A p \in Parted, k \in Attempts :
          <<p, k>> \in S <=> p # "text" /\ \E n \in Name : templates[n] = k
    <3>1. \A p \in Parted, k \in Attempts, n \in Name :
            <<p, k>> \in Parts(templates[n]) <=> p # "text" /\ templates[n] = k
      BY DEF Parts, Parted
    <3>2. \A b \in Blocks : b \in S <=> \E n \in Name : b \in Parts(templates[n])
      OBVIOUS
    <3> HIDE DEF S
    <3> QED  BY <3>1, <3>2, Pairs
  <2> HIDE DEF S
  <2> QED  BY <2>2, <2>3, Pairs
<1>6. Unmade'
  <2> SUFFICES ASSUME NEW k \in Attempts \ DOMAIN made, NEW p \in Parted
               PROVE  frees'[<<p, k>>] = 0
    BY <1>2 DEF Unmade
  <2>1. frees[<<p, k>>] = 0
    BY <1>1 DEF Memory, Unmade
  <2>2. ~ \E n \in Name : templates[n] = k
    BY <1>1, <1>3 DEF Memory, Entries
  <2> QED
    BY <2>1, <2>2, <1>5
<1>7. Texts'
  BY <1>1, <1>2, <1>3, <1>4, <1>5 DEF Memory, Texts, Parted
<1>8. Templates'
  <2> SUFFICES ASSUME NEW k \in DOMAIN made, NEW p \in {"name", "template"}
               PROVE  frees'[<<p, k>>] = IF k \in Replaced THEN 0 ELSE 1
    BY <1>1, <1>2, <1>4 DEF Templates
  <2>1. frees[<<p, k>>] = IF k \in Rejected THEN 1 ELSE 0
    BY <1>1 DEF Memory, Templates
  <2>2. frees'[<<p, k>>] = IF k \in Current \ Replaced
                           THEN frees[<<p, k>>] + 1 ELSE frees[<<p, k>>]
    BY <1>1, <1>3, <1>5, Mapped DEF Parted
  <2> QED
    BY <2>1, <2>2, <1>3 DEF Current
<1>9. Entries' /\ Latest' /\ Children'
  BY <1>1, <1>2, <1>4 DEF Memory, Entries, Latest, Children
<1>10. TypedMemory'
  BY <1>1, <1>2, <1>5, Bounds DEF TypedMemory, Pointers
<1> QED
  BY <1>6, <1>7, <1>8, <1>9, <1>10 DEF Memory

(* Only renders change a child, to a template they went through.           *)
LEMMA AdoptStep ==
  ASSUME IInv, UNCHANGED <<env, memory>>, NEW k \in Current, child' = Adopted(k)
  PROVE  Memory' /\ TypedMemory'
<1>1. TypeOK /\ Memory /\ TypedMemory /\ Stack
  BY Types DEF IInv
<1>2. /\ Current' = Current /\ Rejected' = Rejected /\ Replaced' = Replaced
      /\ made' = made /\ frees' = frees /\ templates' = templates /\ key' = key
  BY DEF memory, Current, Rejected, Replaced
<1>3. path # << >> => Last(path) \in Current
  BY <1>1, Elements DEF Stack, Last
<1>4. Current \subseteq Attempts /\ Attempts \subseteq Pointers /\ 0 \in Pointers
  BY <1>1, Domains, Bounds DEF Attempts, Pointers
<1>5. \A j \in Attempts :
        \/ child'[j] = child[j]
        \/ child'[j] = 0
        \/ child'[j] \in Current
  BY <1>1, <1>3 DEF Adopted, TypedMemory
<1>6. child' \in [Attempts -> Pointers]
  BY <1>1, <1>3, <1>4 DEF Adopted, TypedMemory
<1>7. Children'
  BY <1>1, <1>2, <1>5 DEF Memory, Children
<1>8. Unmade' /\ Texts' /\ Templates' /\ Entries' /\ Latest'
  BY <1>1, <1>2 DEF Memory, Unmade, Texts, Templates, Entries, Latest
<1>9. TypedMemory'
  BY <1>1, <1>2, <1>6 DEF TypedMemory
<1> QED
  BY <1>7, <1>8, <1>9 DEF Memory

(* Steps that leave memory alone.                                          *)
LEMMA KeptStep ==
  ASSUME IInv, memory' = memory, child' = child,
         env' = env \/ (env' = "live" /\ env = "none")
  PROVE  Memory' /\ TypedMemory'
<1>1. Memory /\ TypedMemory
  BY DEF IInv
<1>2. /\ Current' = Current /\ Rejected' = Rejected /\ Replaced' = Replaced
      /\ made' = made /\ frees' = frees /\ templates' = templates /\ key' = key
      /\ child' = child
      /\ (env' = "destroyed") <=> (env = "destroyed")
  BY DEF memory, Current, Rejected, Replaced
<1>3. Memory'
  BY <1>1, <1>2
  DEF Memory, Unmade, Texts, Templates, Entries, Latest, Children
<1>4. TypedMemory'
  BY <1>1, <1>2 DEF TypedMemory
<1> QED  BY <1>3, <1>4

(* A file is read by a live environment, and is a name.                    *)
LEMMA FileRead ==
  ASSUME IInv, ReadFile
  PROVE  /\ env = "live" /\ mode = "load" /\ UNCHANGED <<env, child>>
         /\ file \in Name /\ files[file].text \in Template
         /\ Attempt(file, files[file].text, "env")
<1>1. env = "live" /\ mode = "load" /\ UNCHANGED <<env, child>> /\ file \in Name
  BY DEF IInv, Control, ReadFile, Reading
<1>2. files[file] \in Files /\ files[file].is \in {"short", "long"}
  BY <1>1 DEF IInv, Control, ReadFile, Readable
<1>3. files[file].text \in Template
  BY <1>2 DEF Files, Short, Long, Gone, Subdir, Closed
<1> QED
  BY <1>1, <1>3 DEF ReadFile

(* What a name stands for was accepted, and extends a name.                *)
LEMMA Found ==
  ASSUME IInv, Lookup, templates[want] # 0
  PROVE  /\ templates[want] \in Current /\ want \in Name
         /\ made[templates[want]].text.extends \in Name \cup {NoName}
<1>1. want \in Name /\ TypeOK
  BY Types DEF IInv, Control, Lookup
<1>2. templates[want] \in Current
  BY <1>1 DEF IInv, Memory, Entries
<1>3. made[templates[want]].text \in Template
  BY <1>1, <1>2, Domains
<1> QED
  BY <1>1, <1>2, <1>3, EnvAssumption

(* Every step leaves memory as IInv says.                                  *)
LEMMA MemoryStep ==
  ASSUME IInv, Next
  PROVE  Memory' /\ TypedMemory'
<1>1. CASE roscha_init \/ roscha_deinit \/ roscha_env_new
  BY <1>1, KeptStep DEF roscha_init, roscha_deinit, roscha_env_new
<1>2. CASE AddTemplate
  <2> PICK n \in Name, t \in Template :
        /\ Called("add", t.errors = << >>)
        /\ Attempt(n, t, "host")
        /\ \/ Accept(n, t)
           \/ Reject(t) /\ frees' = Free(Parts(New))
        /\ UNCHANGED <<env, child>>
    BY <1>2 DEF AddTemplate
  <2>1. env = "live"
    BY DEF Called, Ready
  <2>2. CASE Accept(n, t)
    BY <2>1, <2>2, AcceptStep
  <2>3. CASE Reject(t) /\ frees' = Free(Parts(New))
    <3>1. Discarded(New, "host") = Parts(New)
      BY DEF Discarded
    <3> QED  BY <2>1, <2>3, <3>1, RejectStep
  <2> QED  BY <2>2, <2>3
<1>3. CASE OpenDir \/ OpenDirFails
  BY <1>3, KeptStep DEF OpenDir, OpenDirFails
<1>4. CASE LoadStep
  <2>1. ASSUME NEW n \in Name, Omit(n) \/ StatFails(n) \/ SkipDir(n) \/ Stat(n)
        PROVE  Memory' /\ TypedMemory'
    BY <2>1, KeptStep DEF Omit, StatFails, SkipDir, Stat, Entry
  <2>2. CASE LoadFile
    BY <2>2, FileRead, AcceptStep DEF LoadFile
  <2>3. CASE FileRejected
    <3>1. Discarded(New, "env") = Parts(New) \cup {<<"text", New>>}
      BY DEF Discarded
    <3> QED  BY <2>3, <3>1, FileRead, RejectStep DEF FileRejected
  <2>4. CASE ReadFails \/ LoadDone
    BY <2>4, KeptStep DEF ReadFails, LoadDone
  <2> QED  BY <1>4, <2>1, <2>2, <2>3, <2>4 DEF LoadStep
<1>5. CASE Crash \/ Change
  BY <1>5, KeptStep DEF Crash, Change
<1>6. ASSUME NEW n \in Name, Render(n)
      PROVE  Memory' /\ TypedMemory'
  BY <1>6, KeptStep DEF Render
<1>7. CASE RenderStep
  <2>1. CASE NotFound \/ Overflow
    BY <2>1, KeptStep DEF NotFound, Overflow
  <2>2. CASE Extend
    BY <2>2, Found, AdoptStep DEF Extend
  <2>3. CASE Answer
    BY <2>3, Found, AdoptStep DEF Answer
  <2> QED  BY <1>7, <2>1, <2>2, <2>3 DEF RenderStep
<1>8. CASE TakeErrors
  BY <1>8, KeptStep DEF TakeErrors
<1>9. CASE roscha_env_destroy
  BY <1>9, DestroyStep
<1> QED
  BY <1>1, <1>2, <1>3, <1>4, <1>5, <1>6, <1>7, <1>8, <1>9 DEF Next

(* Every step keeps the types of the rest.                                 *)
LEMMA ControlStep ==
  ASSUME IInv, Next
  PROVE  Control'
<1>1. Control
  BY DEF IInv
<1>2. CASE roscha_init \/ roscha_deinit \/ roscha_env_new
  BY <1>1, <1>2
  DEF roscha_init, roscha_deinit, roscha_env_new, Control, world, loading, walk
<1>3. CASE AddTemplate \/ TakeErrors \/ roscha_env_destroy
  BY <1>1, <1>3
  DEF AddTemplate, TakeErrors, roscha_env_destroy, Called, Control, world, loading, walk
<1>4. CASE OpenDir \/ OpenDirFails
  BY <1>1, <1>4
  DEF OpenDir, OpenDirFails, Begin, Called, Ready, Control, world, loading, walk
<1>5. CASE LoadStep
  <2>1. ASSUME NEW n \in Name, Omit(n) \/ StatFails(n) \/ SkipDir(n) \/ Stat(n)
        PROVE  Control'
    BY <1>1, <2>1
    DEF Omit, StatFails, SkipDir, Stat, Entry, Return, Control, world, walk
  <2>2. CASE LoadFile \/ FileRejected
    BY <1>1, <2>2
    DEF LoadFile, FileRejected, ReadFile, Return, Control, world, walk
  <2>3. CASE ReadFails \/ LoadDone
    BY <1>1, <2>3
    DEF ReadFails, LoadDone, Reading, Return, Control, world, walk, loading
  <2> QED  BY <1>5, <2>1, <2>2, <2>3 DEF LoadStep
<1>6. CASE Crash
  BY <1>1, <1>6 DEF Crash, Ready, Reading, Control, world, loading, walk
<1>7. CASE Change
  <2> PICK n \in Name, f \in {Gone, Subdir, Closed} : files' = [files EXCEPT ![n] = f]
    BY <1>7 DEF Change
  <2>1. f \in Files
    BY DEF Files
  <2>2. files' \in [Name -> Files]
    BY <1>1, <2>1 DEF Control
  <2> QED  BY <1>1, <1>7, <2>2 DEF Change, Control, loading, walk
<1>8. ASSUME NEW n \in Name, Render(n)
      PROVE  Control'
  BY <1>1, <1>8 DEF Render, Begin, Ready, Control, world, loading
<1>9. CASE RenderStep
  <2>1. CASE NotFound \/ Overflow
    BY <1>1, <2>1
    DEF NotFound, Overflow, Return, Lookup, Control, world, loading, walk
  <2>2. CASE Extend
    <3>1. want' \in Name
      BY <2>2, Found DEF Extend
    <3> QED  BY <1>1, <2>2, <3>1 DEF Extend, Control, world, loading
  <2>3. CASE Answer
    BY <1>1, <2>3 DEF Answer, Return, Control, world, loading
  <2> QED  BY <1>9, <2>1, <2>2, <2>3 DEF RenderStep
<1> QED
  BY <1>2, <1>3, <1>4, <1>5, <1>6, <1>7, <1>8, <1>9 DEF Next

(* An empty stack is one of any templates.                                 *)
LEMMA StackStep ==
  ASSUME IInv, Next
  PROVE  Stack'
<1>1. Stack /\ Control
  BY DEF IInv
<1>2. ASSUME path' = << >>
      PROVE  Stack'
  BY <1>2 DEF Stack
<1>3. ASSUME mode \notin {"render", "overflow"}, path' = path
      PROVE  Stack'
  BY <1>1, <1>2, <1>3 DEF Stack
<1>4. ASSUME made' = made, path' = path,
             mode' = mode \/ (mode = "render" /\ mode' = "overflow")
      PROVE  Stack'
  <2>1. Current' = Current
    BY <1>4 DEF Current, Rejected
  <2> QED  BY <1>1, <1>4, <2>1 DEF Stack
<1>5. CASE roscha_init \/ roscha_deinit \/ roscha_env_new
  BY <1>3, <1>5 DEF roscha_init, roscha_deinit, roscha_env_new, walk
<1>6. CASE AddTemplate \/ TakeErrors \/ roscha_env_destroy
  BY <1>3, <1>6 DEF AddTemplate, TakeErrors, roscha_env_destroy, Called, Ready, walk
<1>7. CASE OpenDir \/ OpenDirFails
  BY <1>3, <1>7 DEF OpenDir, OpenDirFails, Begin, Called, Ready, walk
<1>8. CASE LoadStep
  <2>1. ASSUME NEW n \in Name, Omit(n) \/ StatFails(n) \/ SkipDir(n) \/ Stat(n)
        PROVE  Stack'
    BY <1>3, <2>1 DEF Omit, StatFails, SkipDir, Stat, Entry, walk
  <2>2. CASE LoadFile \/ FileRejected
    BY <1>3, <2>2 DEF LoadFile, FileRejected, ReadFile, Reading, walk
  <2>3. CASE ReadFails \/ LoadDone
    BY <1>3, <2>3 DEF ReadFails, LoadDone, Reading, walk
  <2> QED  BY <1>8, <2>1, <2>2, <2>3 DEF LoadStep
<1>9. CASE Crash \/ Change
  BY <1>3, <1>9 DEF Crash, Change, Ready, Reading, walk
<1>10. ASSUME NEW n \in Name, Render(n)
       PROVE  Stack'
  BY <1>2, <1>10 DEF Render
<1>11. CASE RenderStep
  <2>1. CASE NotFound \/ Answer
    BY <1>2, <2>1 DEF NotFound, Answer, Leave
  <2>2. CASE Overflow
    BY <1>4, <2>2 DEF Overflow, memory, walk
  <2>3. CASE Extend
    <3>1. /\ templates[want] \in Current /\ path' = Append(path, templates[want])
          /\ made' = made /\ mode = "render" /\ mode' = mode
      BY <2>3, Found DEF Extend, Lookup, memory
    <3>2. Current' = Current
      BY <3>1 DEF Current, Rejected
    <3>3. path' \in Seq(Current)
      BY <1>1, <3>1, Appended DEF Stack
    <3> QED  BY <3>1, <3>2, <3>3 DEF Stack
  <2> QED  BY <1>11, <2>1, <2>2, <2>3 DEF RenderStep
<1> QED
  BY <1>5, <1>6, <1>7, <1>8, <1>9, <1>10, <1>11 DEF Next

-----------------------------------------------------------------------------
(***************************************************************************)
(* The invariant and what follows from it.                                 *)
(***************************************************************************)

(* The invariant holds at first,                                           *)
LEMMA IInvInit == Init => IInv
<1> SUFFICES ASSUME Init PROVE IInv
  OBVIOUS
<1>1. /\ made = << >> /\ path = << >> /\ mode = "idle" /\ env = "none"
      /\ frees = [b \in Blocks |-> 0] /\ templates = [n \in Name |-> 0]
      /\ key = templates /\ child = [k \in Attempts |-> 0]
  BY DEF Init
<1>2. DOMAIN made = {} /\ Current = {} /\ Rejected = {}
  BY <1>1 DEF Current, Rejected
<1>3. TypedMemory
  BY <1>1, Bounds DEF TypedMemory, Pointers
<1>4. Control
  BY EnvAssumption DEF Init, Control
<1>5. Stack
  BY <1>1 DEF Stack
<1>6. Memory
  BY <1>1, <1>2, Pairs
  DEF Memory, Unmade, Texts, Templates, Entries, Latest, Children
<1> QED
  BY <1>3, <1>4, <1>5, <1>6 DEF IInv

(* and every step keeps it.                                                *)
LEMMA IInvStep == IInv /\ [Next]_vars => IInv'
<1>1. ASSUME IInv, Next PROVE IInv'
  BY <1>1, MemoryStep, ControlStep, StackStep DEF IInv
<1>2. ASSUME IInv, UNCHANGED vars PROVE IInv'
  <2>1. Memory' /\ TypedMemory'
    BY <1>2, KeptStep DEF vars
  <2>2. Control' /\ Stack'
    BY <1>2
    DEF vars, memory, world, loading, walk, IInv, Control, Stack, Current, Rejected
  <2> QED  BY <2>1, <2>2 DEF IInv
<1> QED  BY <1>1, <1>2

(* What the map leads to was accepted, and so not free'd.                  *)
LEMMA IInvAlive == IInv => Alive
<1> SUFFICES ASSUME IInv PROVE Alive
  OBVIOUS
<1>1. TypeOK /\ Memory
  BY Types DEF IInv
<1>2. /\ DOMAIN made \subseteq Attempts /\ Current \subseteq DOMAIN made
      /\ \A k \in Current : k \notin Rejected
  BY <1>1, Domains DEF Current
<1>3. ASSUME NEW p \in Parted, NEW k \in Attempts
      PROVE  frees[<<p, k>>] \in {0, 1}
  <2>1. CASE k \notin DOMAIN made
    BY <1>1, <2>1 DEF Memory, Unmade
  <2>2. CASE k \in DOMAIN made /\ p = "text"
    BY <1>1, <2>2 DEF Memory, Texts
  <2>3. CASE k \in DOMAIN made /\ p # "text"
    BY <1>1, <2>3 DEF Memory, Templates, Parted
  <2> QED  BY <2>1, <2>2, <2>3
<1>4. \A b \in Blocks : frees[b] <= 1
  <2> SUFFICES ASSUME NEW b \in Blocks PROVE frees[b] <= 1
    OBVIOUS
  <2> PICK p \in Parted, k \in Attempts : b = <<p, k>>
    BY DEF Blocks, Parted
  <2>1. frees[b] \in {0, 1}
    BY <1>3
  <2> QED  BY <2>1
<1>5. ASSUME NEW n \in Name, templates[n] # 0
      PROVE  /\ env # "destroyed"
             /\ templates[n] \in Current /\ templates[n] \in Attempts
             /\ key[n] \in Current
  BY <1>1, <1>2, <1>5 DEF Memory, Entries
<1>6. ASSUME env # "destroyed", NEW k \in Current
      PROVE  \A p \in Parted : ~Freed(<<p, k>>)
  <2>1. \A p \in {"name", "template"} : frees[<<p, k>>] = 0
    BY <1>1, <1>2, <1>6 DEF Memory, Templates
  <2>2. frees[<<"text", k>>] = 0
    BY <1>1, <1>2, <1>6 DEF Memory, Texts
  <2> QED  BY <2>1, <2>2 DEF Freed, Parted
<1>7. ASSUME NEW n \in Name, templates[n] # 0
      PROVE  /\ \A b \in Parts(templates[n]) \cup {<<"text", templates[n]>>} : ~Freed(b)
             /\ ~Freed(<<"name", key[n]>>)
             /\ child[templates[n]] # 0 => ~Freed(<<"template", child[templates[n]]>>)
  <2>1. \A b \in Parts(templates[n]) \cup {<<"text", templates[n]>>} : ~Freed(b)
    BY <1>5, <1>6, <1>7 DEF Parts, Parted
  <2>2. ~Freed(<<"name", key[n]>>)
    BY <1>5, <1>6, <1>7 DEF Parted
  <2>3. child[templates[n]] # 0 => child[templates[n]] \in Current
    BY <1>1, <1>5, <1>7 DEF Memory, Children
  <2>4. child[templates[n]] # 0 => ~Freed(<<"template", child[templates[n]]>>)
    BY <2>3, <1>5, <1>6, <1>7 DEF Parted
  <2> QED  BY <2>1, <2>2, <2>4
<1> QED
  BY <1>1, <1>4, <1>7 DEF Alive

(* A destroyed environment has free'd all but what was replaced.           *)
LEMMA IInvLost == IInv => OnlyReplacedLost
<1> SUFFICES ASSUME IInv, NEW k \in DOMAIN made
             PROVE  /\ Freed(<<"text", k>>) => made[k].owner = "env"
                    /\ env = "destroyed" =>
                         /\ k \notin Replaced => \A b \in Parts(k) : Freed(b)
                         /\ k \in Rejected /\ made[k].owner = "env" => Freed(<<"text", k>>)
  BY DEF OnlyReplacedLost
<1>1. env = "destroyed" =>
        \A p \in {"name", "template"} : frees[<<p, k>>] = IF k \in Replaced THEN 0 ELSE 1
  BY DEF IInv, Memory, Templates
<1>2. frees[<<"text", k>>] = IF k \in Rejected /\ made[k].owner = "env" THEN 1 ELSE 0
  BY DEF IInv, Memory, Texts
<1> QED
  BY <1>1, <1>2 DEF Freed, Parts

(* Memory is as IInv says, after any calls.                                 *)
THEOREM IInvHolds == Spec => []IInv
BY IInvInit, IInvStep, PTL DEF Spec

(* Nothing that the environment leads to is free'd, and nothing is free'd  *)
(* twice.                                                                  *)
THEOREM NothingFreedInUse == Spec => []Alive
BY IInvHolds, IInvAlive, PTL

(* What a destroyed environment has not free'd are, at most, the templates *)
(* that were replaced and the texts of files that it accepted; no text of  *)
(* the host is free'd.                                                     *)
THEOREM LossIsKnown == Spec => []OnlyReplacedLost
BY IInvHolds, IInvLost, PTL

-----------------------------------------------------------------------------
(***************************************************************************)
(* What calls return.  A call under way has reported nothing yet; a        *)
(* directory being loaded has each of its files still to come, at hand or  *)
(* in the map.                                                             *)
(***************************************************************************)
Ops == {"none", "add", "load", "render", "take", "destroy"}

Calls == [op : Ops, errors : Seq(Messages), result : BOOLEAN]

Told ==
  IF call.op # "render" THEN call.result <=> errors = call.errors
  ELSE IF call.result THEN errors \in {call.errors, Append(call.errors, "eval")}
  ELSE errors = Append(call.errors, "not found")

Outcome ==
  /\ errors \in Seq(Messages) /\ changes \in Nat
  /\ call \in Calls
  /\ env = "none" => errors = << >> /\ call.errors = << >> /\ call.result /\ call.op = "none"
  /\ mode \in {"load", "render"} => call.errors = errors /\ call.op = mode
  /\ mode = "idle" /\ env = "live" => Told

Loaded(n) ==
  files[n].is \in {"short", "long"} =>
    templates[n] # 0 /\ made[templates[n]].text = files[n].text

Walked ==
  changes = 0 =>
    /\ mode = "load" => \A n \in Name : n \in todo \/ n = file \/ Loaded(n)
    /\ mode = "idle" /\ env = "live" /\ call.op = "load" /\ call.result =>
         \A n \in Name : Loaded(n)

(* What the parser reports is appended, last first.                        *)
LEMMA Longer ==
  ASSUME NEW S, NEW s \in Seq(S), NEW t \in Seq(S), t # << >>
  PROVE  s \o Reverse(t) \in Seq(S) /\ s \o Reverse(t) # s
<1>1. Reverse(t) \in Seq(S) /\ Len(Reverse(t)) = Len(t) /\ Len(t) > 0
  BY DEF Reverse
<1>2. s \o Reverse(t) \in Seq(S) /\ Len(s \o Reverse(t)) = Len(s) + Len(t)
  BY <1>1
<1>3. Len(s) \in Nat /\ Len(t) \in Nat
  OBVIOUS
<1> QED  BY <1>1, <1>2, <1>3

(* So is a message of the environment.                                     *)
LEMMA OneLonger ==
  ASSUME NEW S, NEW s \in Seq(S), NEW e \in S
  PROVE  Append(s, e) \in Seq(S) /\ Append(s, e) # s
OBVIOUS

(* A new call.                                                             *)
LEMMA Set ==
  ASSUME NEW o \in Ops, NEW e \in Seq(Messages), NEW b \in BOOLEAN
  PROVE  LET c == [op |-> o, errors |-> e, result |-> b] IN
         c \in Calls /\ c.op = o /\ c.errors = e /\ (c.result <=> b)
BY DEF Calls

(* A call that returns.                                                    *)
LEMMA Returned ==
  ASSUME call \in Calls, NEW b \in BOOLEAN, Return(b)
  PROVE  /\ call' \in Calls /\ call'.op = call.op /\ call'.errors = call.errors
         /\ call'.result <=> b
         /\ mode' = "idle"
BY DEF Calls, Return

(* The constants in the code.                                              *)
LEMMA Names ==
  /\ {"opendir", "stat", "not found", "eval"} \subseteq Messages
  /\ {"add", "load", "render", "take", "destroy"} \subseteq Ops
BY DEF Messages, Ops

(* Every step keeps what is said of calls,                                 *)
LEMMA OutcomeStep ==
  ASSUME IInv, Outcome, Next
  PROVE  Outcome'
<1>1. Control /\ errors \in Seq(Messages)
  BY DEF IInv, Outcome
<1>2. CASE roscha_init \/ roscha_deinit \/ roscha_env_new
  BY <1>1, <1>2
  DEF roscha_init, roscha_deinit, roscha_env_new, Control, Outcome, Told, world
<1>3. CASE AddTemplate
  <2> PICK n \in Name, t \in Template :
        /\ Called("add", t.errors = << >>)
        /\ Accept(n, t) \/ Reject(t)
        /\ UNCHANGED <<env, world>>
    BY <1>3 DEF AddTemplate
  <2>1. CASE Accept(n, t)
    BY <1>1, <2>1, Set, Names DEF Accept, Called, Ready, Outcome, Told, world
  <2>2. CASE Reject(t)
    <3>1. errors' \in Seq(Messages) /\ errors' # errors /\ t.errors # << >>
      BY <1>1, <2>2, Longer, EnvAssumption DEF Reject
    <3> QED  BY <1>1, <3>1, Set, Names DEF Called, Ready, Outcome, Told, world
  <2> QED  BY <2>1, <2>2
<1>4. CASE OpenDir
  BY <1>1, <1>4, Set, Names DEF OpenDir, Begin, Ready, Outcome, Told, world
<1>5. CASE OpenDirFails
  <2>1. errors' \in Seq(Messages) /\ errors' # errors
    BY <1>1, <1>5, OneLonger, Names DEF OpenDirFails
  <2> QED  BY <1>1, <1>5, <2>1, Set, Names DEF OpenDirFails, Called, Ready, Outcome, Told, world
<1>6. CASE LoadStep
  <2>1. ASSUME NEW n \in Name, Omit(n) \/ SkipDir(n) \/ Stat(n)
        PROVE  Outcome'
    BY <2>1 DEF Omit, SkipDir, Stat, Entry, Outcome, Told, world
  <2>2. ASSUME NEW n \in Name, StatFails(n)
        PROVE  Outcome'
    <3>1. errors' \in Seq(Messages) /\ errors' # errors
      BY <1>1, <2>2, OneLonger, Names DEF StatFails
    <3> QED  BY <2>2, <3>1, <1>1, Returned DEF StatFails, Entry, Outcome, Told, Control, world
  <2>3. CASE LoadFile
    BY <2>3 DEF LoadFile, ReadFile, Accept, Outcome, Told, world
  <2>4. CASE FileRejected
    <3>1. files[file].text \in Template
      BY <2>4, FileRead DEF FileRejected
    <3>2. errors' \in Seq(Messages) /\ errors' # errors
      BY <1>1, <2>4, <3>1, Longer, EnvAssumption DEF FileRejected, Reject
    <3> QED
      BY <2>4, <3>2, <1>1, Returned
      DEF FileRejected, ReadFile, Reading, Outcome, Told, Control, world
  <2>5. CASE ReadFails
    BY <2>5 DEF ReadFails, Outcome, Told, world
  <2>6. CASE LoadDone
    BY <2>6, <1>1, Returned DEF LoadDone, Outcome, Told, Control, world
  <2> QED  BY <1>6, <2>1, <2>2, <2>3, <2>4, <2>5, <2>6 DEF LoadStep
<1>7. CASE Crash
  <2>1. mode' = "crashed" /\ UNCHANGED <<errors, changes, call, env>>
    BY <1>7 DEF Crash, world
  <2> QED  BY <2>1 DEF Outcome
<1>8. CASE Change
  <2>1. UNCHANGED <<errors, call, env, mode>> /\ changes' = changes + 1 /\ env = "live"
    BY <1>8 DEF Change
  <2>2. Told' <=> Told
    BY <2>1 DEF Told
  <2> QED  BY <2>1, <2>2 DEF Outcome
<1>9. ASSUME NEW n \in Name, Render(n)
      PROVE  Outcome'
  BY <1>1, <1>9, Set, Names DEF Render, Begin, Ready, Outcome, Told, world
<1>10. CASE RenderStep
  <2>1. CASE NotFound
    <3>1. errors' \in Seq(Messages) /\ errors' # errors
      BY <1>1, <2>1, OneLonger, Names DEF NotFound
    <3> QED  BY <2>1, <3>1, <1>1, Returned DEF NotFound, Lookup, Outcome, Told, Control, world
  <2>2. CASE Overflow
    BY <2>2 DEF Overflow, Outcome, Told, world
  <2>3. CASE Extend
    BY <2>3 DEF Extend, Outcome, Told, world
  <2>4. CASE Answer
    <3>1. errors' \in Seq(Messages) /\ errors' \in {errors, Append(errors, "eval")}
      BY <1>1, <2>4, OneLonger, Names DEF Answer
    <3> QED  BY <2>4, <3>1, <1>1, Returned DEF Answer, Lookup, Outcome, Told, Control, world
  <2> QED  BY <1>10, <2>1, <2>2, <2>3, <2>4 DEF RenderStep
<1>11. CASE TakeErrors
  <2>1. << >> \in Seq(Messages) /\ TRUE \in BOOLEAN
    OBVIOUS
  <2>2. call' \in Calls /\ call'.errors = << >> /\ call'.result
    BY <1>11, <2>1, Set, Names DEF TakeErrors
  <2> QED  BY <1>1, <1>11, <2>1, <2>2 DEF TakeErrors, Outcome, Told, world
<1>12. CASE roscha_env_destroy
  <2>1. << >> \in Seq(Messages) /\ TRUE \in BOOLEAN
    OBVIOUS
  <2>2. call' \in Calls
    BY <1>12, <2>1, Set, Names DEF roscha_env_destroy
  <2> QED  BY <1>1, <1>12, <2>1, <2>2 DEF roscha_env_destroy, Outcome, Told, world
<1> QED
  BY <1>2, <1>3, <1>4, <1>5, <1>6, <1>7, <1>8, <1>9, <1>10, <1>11, <1>12 DEF Next

(* What is loaded stays so while the map and the directory do.             *)
LEMMA WalkedKept ==
  ASSUME Walked, UNCHANGED <<memory, changes, files, todo, file, call>>,
         UNCHANGED <<mode, env>>
  PROVE  Walked'
BY DEF Walked, Loaded, memory

(* and of directories.                                                     *)
LEMMA WalkedStep ==
  ASSUME IInv, Outcome, Walked, Next
  PROVE  Walked'
<1>1. Control /\ Outcome /\ TypeOK
  BY Types DEF IInv
<1>2. ASSUME mode' # "load", call'.op # "load"
      PROVE  Walked'
  BY <1>2 DEF Walked
<1>3. ASSUME mode' # "load", ~call'.result
      PROVE  Walked'
  BY <1>3 DEF Walked
<1>4. ASSUME mode' \notin {"load", "idle"}
      PROVE  Walked'
  BY <1>4 DEF Walked
<1>5. CASE roscha_init \/ roscha_deinit
  <2>1. mode' = mode \/ mode' = "crashed"
    BY <1>5 DEF roscha_init, roscha_deinit
  <2>2. UNCHANGED <<memory, changes, files, todo, file, call, env>>
    BY <1>5 DEF roscha_init, roscha_deinit, world, loading
  <2> QED  BY <1>4, <2>1, <2>2, WalkedKept
<1>6. CASE roscha_env_new
  BY <1>1, <1>2, <1>6 DEF roscha_env_new, Outcome
<1>7. CASE AddTemplate
  BY <1>1, <1>2, <1>7 DEF AddTemplate, Called, Ready
<1>8. CASE OpenDir
  <2>1. \A n \in Name : files'[n] = files[n] /\ (n \in todo' <=> files[n] # Gone)
    BY <1>8 DEF OpenDir, world
  <2>2. \A n \in Name : files[n].is \in {"short", "long"} => files[n] # Gone
    BY DEF Gone
  <2>3. mode' = "load"
    BY <1>8 DEF OpenDir, Begin
  <2> QED  BY <2>1, <2>2, <2>3 DEF Walked, Loaded
<1>9. CASE OpenDirFails
  BY <1>1, <1>3, <1>9 DEF OpenDirFails, Called, Ready
<1>10. CASE LoadStep
  <2>1. ASSUME NEW n \in Name, Omit(n) \/ SkipDir(n)
        PROVE  Walked'
    <3>1. files[n].is \notin {"short", "long"}
      BY <2>1 DEF Omit, SkipDir, Gone, Subdir
    <3>2. /\ \A m \in Name : m \in todo' <=> m \in todo /\ m # n
          /\ mode = "load" /\ mode' = mode /\ file' = file
          /\ UNCHANGED <<changes, files, made, templates>>
      BY <2>1 DEF Omit, SkipDir, Entry, world, memory
    <3> QED  BY <3>1, <3>2 DEF Walked, Loaded
  <2>2. ASSUME NEW n \in Name, Stat(n)
        PROVE  Walked'
    <3>1. /\ \A m \in Name : m \in todo' <=> m \in todo /\ m # n
          /\ mode = "load" /\ mode' = mode /\ file' = n /\ file = NoName
          /\ UNCHANGED <<changes, files, made, templates>>
      BY <2>2 DEF Stat, Entry, world, memory
    <3> QED  BY <3>1, Bounds DEF Walked, Loaded
  <2>3. ASSUME NEW n \in Name, StatFails(n)
        PROVE  Walked'
    BY <1>1, <1>3, <2>3, Returned DEF StatFails, Outcome
  <2>4. CASE LoadFile
    <3> DEFINE t == files[file].text
    <3>1. /\ env = "live" /\ mode = "load" /\ file \in Name /\ t \in Template
          /\ Attempt(file, t, "env")
      BY <2>4, FileRead DEF LoadFile
    <3>2. /\ templates' = [templates EXCEPT ![file] = New]
          /\ UNCHANGED <<changes, files, todo, mode>>
      BY <2>4 DEF LoadFile, ReadFile, Accept, world
    <3>3. /\ made'[New].text = t /\ New # 0
          /\ \A k \in DOMAIN made : made'[k] = made[k]
      BY <1>1, <3>1, Attempted, Bounds DEF Attempts
    <3>4. ASSUME NEW n \in Name, Loaded(n), n # file
          PROVE  Loaded(n)'
      <4>1. templates'[n] = templates[n] /\ files'[n] = files[n]
        BY <1>1, <3>1, <3>2, <3>4 DEF TypeOK
      <4>2. templates[n] # 0 => templates[n] \in DOMAIN made
        BY DEF IInv, Memory, Entries, Current
      <4> QED  BY <3>3, <3>4, <4>1, <4>2 DEF Loaded
    <3> PICK m \in Name : m = file
      BY <3>1
    <3>5. Loaded(m)'
      <4>1. templates'[m] = New /\ files'[m].text = t
        BY <1>1, <3>2 DEF TypeOK
      <4> QED  BY <3>3, <4>1 DEF Loaded
    <3>6. changes' = 0 => \A n \in Name : n \in todo' \/ Loaded(n)'
      BY <3>1, <3>2, <3>4, <3>5 DEF Walked
    <3> QED  BY <3>1, <3>2, <3>6 DEF Walked
  <2>5. CASE FileRejected
    BY <1>1, <1>3, <2>5, Returned DEF FileRejected, Outcome
  <2>6. CASE ReadFails
    BY <1>4, <2>6 DEF ReadFails
  <2>7. CASE LoadDone
    <3>1. /\ mode = "load" /\ file = NoName /\ todo = {} /\ mode' = "idle"
          /\ UNCHANGED <<changes, files, made, templates>>
      BY <2>7 DEF LoadDone, Return, world, memory
    <3> QED  BY <3>1, Bounds DEF Walked, Loaded
  <2> QED  BY <1>10, <2>1, <2>2, <2>3, <2>4, <2>5, <2>6, <2>7 DEF LoadStep
<1>11. CASE Crash
  BY <1>4, <1>11 DEF Crash
<1>12. CASE Change
  BY <1>1, <1>12 DEF Change, Outcome, Walked
<1>13. ASSUME NEW n \in Name, Render(n)
       PROVE  Walked'
  BY <1>4, <1>13 DEF Render, Begin
<1>14. CASE RenderStep
  <2>1. CASE NotFound \/ Answer
    <3>1. mode = "render"
      BY <2>1 DEF NotFound, Answer, Lookup
    <3>2. call'.op = "render" /\ mode' = "idle"
      BY <1>1, <2>1, <3>1, Returned DEF NotFound, Answer, Outcome
    <3> QED  BY <1>2, <3>2
  <2>2. CASE Extend \/ Overflow
    BY <1>4, <2>2 DEF Extend, Overflow, Lookup
  <2> QED  BY <1>14, <2>1, <2>2 DEF RenderStep
<1>15. CASE TakeErrors \/ roscha_env_destroy
  BY <1>2, <1>15 DEF TakeErrors, roscha_env_destroy
<1> QED
  BY <1>5, <1>6, <1>7, <1>8, <1>9, <1>10, <1>11, <1>12, <1>13, <1>14, <1>15 DEF Next

(* What is returned is as Outcome and Walked say.                          *)
LEMMA Returning == Spec => [](IInv /\ Outcome /\ Walked)
<1>1. Init => IInv /\ Outcome /\ Walked
  <2>1. Init => Outcome
    <3> SUFFICES ASSUME Init PROVE Outcome
      OBVIOUS
    <3>1. << >> \in Seq(Messages) /\ TRUE \in BOOLEAN /\ "none" \in Ops
      BY DEF Ops
    <3>2. /\ call \in Calls /\ call.errors = << >> /\ call.result
          /\ call.op = "none"
      BY <3>1, Set DEF Init
    <3> QED  BY <3>1, <3>2 DEF Init, Outcome, Told
  <2>2. Init => Walked
    BY DEF Init, Walked
  <2> QED  BY <2>1, <2>2, IInvInit
<1>2. IInv /\ Outcome /\ Walked /\ [Next]_vars => (IInv /\ Outcome /\ Walked)'
  <2>1. ASSUME IInv, Outcome, Walked, Next
        PROVE  Outcome' /\ Walked'
    BY <2>1, OutcomeStep, WalkedStep
  <2>2. ASSUME Outcome, Walked, UNCHANGED vars
        PROVE  Outcome' /\ Walked'
    BY <2>2 DEF vars, memory, world, loading, Outcome, Told, Walked, Loaded
  <2> QED  BY <2>1, <2>2, IInvStep
<1> QED
  BY <1>1, <1>2, PTL DEF Spec

(* Adding and loading fail if and only if they report errors, a render     *)
(* fails because a template is not there, and one that returns a text has  *)
(* reported at most one error of evaluating it; and a directory that loads *)
(* while nobody changes it is in the map.                                  *)
THEOREM ResultsAreTrue == Spec => []ResultsTrue
<1>1. Outcome /\ Walked => ResultsTrue
  BY DEF Outcome, Told, Walked, Loaded, ResultsTrue
<1> QED
  BY <1>1, Returning, PTL

-----------------------------------------------------------------------------
(***************************************************************************)
(* An environment is the map of EnvSpec: for every finite set of names, a  *)
(* step of Env is one of EnvSpec or changes nothing that EnvSpec has.      *)
(*                                                                         *)
(* The step to look at is the end of a render.  EnvSpec says at once where *)
(* the names lead; Env has gone from one to the next, and left in `child'  *)
(* the way back.  RInv says that the stack is a part of EnvSpec's line,    *)
(* and that child leads back along it as long as no template has come      *)
(* twice, which in a render that ends none has: the names of the line      *)
(* differ, so there are no more of them than names.                        *)
(***************************************************************************)

(* A set of numbers has a least member.                                    *)
LEMMA Least ==
  ASSUME NEW S, S \subseteq Nat, S # {}
  PROVE  \E n \in S : \A m \in S : n <= m
<1> DEFINE R == OpToRel(<, Nat)
<1>1. IsWellFoundedOn(R, Nat)
  BY NatLessThanWellFounded
<1>2. \A x, y \in Nat : <<x, y>> \in R <=> x < y
  BY DEF OpToRel
<1> HIDE DEF R
<1>3. PICK x \in S : \A y \in S : ~ (<<y, x>> \in R)
  BY <1>1, WFMin
<1>4. ASSUME NEW y \in S PROVE x <= y
  <2>1. x \in Nat /\ y \in Nat /\ ~ (y < x)
    BY <1>2, <1>3, <1>4
  <2> QED
    BY <2>1
<1> QED
  BY <1>4

(* Induction up to a number, as a statement about a set.                   *)
LEMMA Induction ==
  ASSUME NEW N \in Nat, NEW S, 0 \in S, \A j \in 1 .. N : j - 1 \in S => j \in S
  PROVE  \A j \in 0 .. N : j \in S
<1> DEFINE T == {j \in 0 .. N : j \notin S}
<1> SUFFICES ASSUME T # {} PROVE FALSE
  OBVIOUS
<1>1. T \subseteq Nat
  OBVIOUS
<1>2. PICK k \in T : \A m \in T : k <= m
  BY <1>1, Least
<1>3. k \in 1 .. N /\ k - 1 \in 0 .. N /\ ~(k <= k - 1)
  BY <1>1, <1>2
<1>4. k - 1 \in S
  BY <1>2, <1>3
<1> QED
  BY <1>2, <1>3, <1>4

(* A set of bounded numbers has a greatest member.                         *)
LEMMA Greatest ==
  ASSUME NEW N \in Nat, NEW S, S \subseteq 0 .. N, S # {}
  PROVE  \E n \in S : \A m \in S : m <= n
<1> DEFINE T == {m \in 0 .. N : N - m \in S}
<1>1. T \subseteq Nat
  OBVIOUS
<1>2. T # {}
  <2>1. PICK m : m \in S
    OBVIOUS
  <2>2. N - m \in 0 .. N /\ N - (N - m) = m
    BY <2>1
  <2>3. N - m \in T
    BY <2>1, <2>2
  <2> QED
    BY <2>3
<1>3. PICK k \in T : \A j \in T : k <= j
  BY <1>1, <1>2, Least
<1>4. ASSUME NEW m \in S PROVE m <= N - k
  <2>1. m \in 0 .. N /\ N - m \in 0 .. N /\ N - (N - m) = m
    BY <1>4
  <2>2. N - m \in T
    BY <1>4, <2>1
  <2>3. k <= N - m /\ k \in 0 .. N
    BY <1>3, <2>2
  <2> QED
    BY <2>1, <2>3
<1> QED
  BY <1>3, <1>4

(* The first elements of a sequence, n of them if there are as many.       *)
Until(w, n) == [i \in 1 .. (IF n <= Len(w) THEN n ELSE Len(w)) |-> w[i]]

(* The first element,                                                      *)
LEMMA UntilOne ==
  ASSUME NEW A, NEW w \in Seq(A), w # << >>
  PROVE  Until(w, 1) = <<w[1]>>
<1>1. Len(w) \in Nat /\ Len(w) # 0
  OBVIOUS
<1>2. 1 <= Len(w)
  BY <1>1
<1> QED
  BY <1>2 DEF Until

(* all elements,                                                           *)
LEMMA UntilAll ==
  ASSUME NEW A, NEW w \in Seq(A), NEW n \in Nat, Len(w) <= n
  PROVE  Until(w, n) = w
<1>1. Len(w) \in Nat /\ w = [i \in 1 .. Len(w) |-> w[i]]
  OBVIOUS
<1>2. CASE n = Len(w)
  BY <1>1, <1>2 DEF Until
<1>3. CASE n # Len(w)
  <2>1. ~(n <= Len(w))
    BY <1>1, <1>3
  <2> QED
    BY <1>1, <2>1 DEF Until
<1> QED
  BY <1>2, <1>3

(* how many there are and which is the last,                               *)
LEMMA UntilSeq ==
  ASSUME NEW A, NEW w \in Seq(A), w # << >>, NEW n \in Nat, n # 0
  PROVE  /\ Until(w, n) \in Seq(A)
         /\ Len(Until(w, n)) = IF n <= Len(w) THEN n ELSE Len(w)
         /\ Last(Until(w, n)) = IF n <= Len(w) THEN w[n] ELSE w[Len(w)]
<1> DEFINE m == IF n <= Len(w) THEN n ELSE Len(w)
<1>1. Len(w) \in Nat /\ Len(w) # 0 /\ m \in 1 .. Len(w)
  OBVIOUS
<1>2. \A i \in 1 .. m : i \in 1 .. Len(w)
  BY <1>1
<1>3. \A i \in 1 .. Len(w) : w[i] \in A
  OBVIOUS
<1>4. Until(w, n) = [i \in 1 .. m |-> w[i]]
  BY DEF Until
<1> HIDE DEF m
<1>5. [i \in 1 .. m |-> w[i]] \in Seq(A) /\ Len([i \in 1 .. m |-> w[i]]) = m
  BY <1>1, <1>2, <1>3
<1>6. [i \in 1 .. m |-> w[i]][m] = w[m]
  BY <1>1
<1> QED
  BY <1>4, <1>5, <1>6 DEF m, Last

(* and one more.                                                           *)
LEMMA UntilMore ==
  ASSUME NEW A, NEW w \in Seq(A), NEW n \in Nat, n < Len(w)
  PROVE  Until(w, n + 1) = Append(Until(w, n), w[n + 1])
<1>1. Len(w) \in Nat /\ n <= Len(w) /\ n + 1 <= Len(w)
  OBVIOUS
<1>2. Until(w, n) = [i \in 1 .. n |-> w[i]] /\ Until(w, n + 1) = [i \in 1 .. n + 1 |-> w[i]]
  BY <1>1 DEF Until
<1>3. \A i \in 1 .. n + 1 : w[i] \in A
  BY <1>1
<1> DEFINE s == [i \in 1 .. n |-> w[i]]
           t == [i \in 1 .. n + 1 |-> w[i]]
<1>4. s \in Seq(A) /\ Len(s) = n /\ t \in Seq(A) /\ Len(t) = n + 1
  BY <1>3
<1>5. Append(s, w[n + 1]) = t
  <2>1. Append(s, w[n + 1]) \in Seq(A) /\ Len(Append(s, w[n + 1])) = n + 1
    BY <1>3, <1>4
  <2>2. ASSUME NEW i \in 1 .. n + 1 PROVE Append(s, w[n + 1])[i] = t[i]
    <3>1. CASE i = n + 1
      <4>1. Append(s, w[n + 1])[n + 1] = w[n + 1]
        BY <1>3, <1>4
      <4> QED
        BY <3>1, <4>1
    <3>2. CASE i # n + 1
      <4>1. i \in 1 .. n
        BY <3>2
      <4>2. Append(s, w[n + 1])[i] = s[i]
        BY <1>3, <1>4, <4>1
      <4> QED
        BY <4>1, <4>2
    <3> QED
      BY <3>1, <3>2
  <2> HIDE DEF s, t
  <2> QED
    BY <1>4, <2>1, <2>2
<1> QED
  BY <1>2, <1>5

(* Two functions that begin alike and go on alike are alike.               *)
LEMMA SameSteps ==
  ASSUME NEW N \in Nat, NEW f, NEW g, f[0] = g[0],
         \A j \in 1 .. N : f[j - 1] = g[j - 1] => f[j] = g[j]
  PROVE  f[N] = g[N]
<1> DEFINE S == {j \in 0 .. N : f[j] = g[j]}
<1>1. 0 \in S
  OBVIOUS
<1>2. \A j \in 1 .. N : j - 1 \in S => j \in S
  OBVIOUS
<1> HIDE DEF S
<1>3. \A j \in 0 .. N : j \in S
  BY <1>1, <1>2, Induction
<1> QED
  BY <1>3 DEF S

(* What a function leads to, as both EnvSpec and Env go along it.          *)
Walk(next, end, x, N) ==
  LET W[j \in 0 .. N] ==
        IF j = 0 THEN <<x>>
        ELSE LET s == W[j - 1] IN
             IF next[Last(s)] = end THEN s ELSE Append(s, next[Last(s)])
  IN  W[N]

Follows(g, next, end, x, N) ==
  /\ g = [j \in 0 .. N |-> g[j]] /\ g[0] = <<x>>
  /\ \A j \in 1 .. N :
       g[j] = IF next[Last(g[j - 1])] = end THEN g[j - 1]
              ELSE Append(g[j - 1], next[Last(g[j - 1])])

(* Whatever begins and goes on like a walk ends like it.                   *)
LEMMA WalkFunction ==
  ASSUME NEW N \in Nat, NEW x, NEW next, NEW end, NEW g, Follows(g, next, end, x, N)
  PROVE  Walk(next, end, x, N) = g[N]
<1> USE DEF Follows
<1> DEFINE Body(f) == [j \in 0 .. N |->
                         IF j = 0 THEN <<x>>
                         ELSE LET s == f[j - 1] IN
                              IF next[Last(s)] = end THEN s ELSE Append(s, next[Last(s)])]
           F == CHOOSE f : f = Body(f)
<1>1. g = Body(g)
  <2>1. ASSUME NEW j \in 0 .. N PROVE g[j] = Body(g)[j]
    <3>1. CASE j = 0
      BY <3>1
    <3>2. CASE j # 0
      <4>1. j \in 1 .. N
        BY <3>2
      <4> QED
        BY <3>2, <4>1
    <3> QED
      BY <3>1, <3>2
  <2>2. Body(g) = [j \in 0 .. N |-> Body(g)[j]]
    OBVIOUS
  <2> HIDE DEF Body
  <2> QED
    BY <2>1, <2>2
<1>2. F = Body(F)
  <2> HIDE DEF Body
  <2> QED
    BY <1>1
<1>3. /\ F[0] = <<x>>
      /\ \A j \in 1 .. N :
           F[j] = IF next[Last(F[j - 1])] = end THEN F[j - 1]
                  ELSE Append(F[j - 1], next[Last(F[j - 1])])
  <2> HIDE DEF F
  <2>1. F = Body(F)
    BY <1>2
  <2>2. 0 \in 0 .. N /\ \A j \in 1 .. N : j \in 0 .. N /\ j # 0
    OBVIOUS
  <2>3. F[0] = Body(F)[0] /\ \A j \in 1 .. N : F[j] = Body(F)[j]
    BY <2>1
  <2> QED
    BY <2>2, <2>3
<1>4. F[N] = g[N]
  <2> HIDE DEF F
  <2>1. \A j \in 1 .. N : F[j - 1] = g[j - 1] => F[j] = g[j]
    BY <1>3
  <2>2. F[0] = g[0]
    BY <1>3
  <2> QED
    BY <2>1, <2>2, SameSteps
<1> QED
  BY <1>4 DEF Walk

(* A sequence of which each element leads to the next is what one walks.   *)
Leads(w, next, end) == \A i \in 1 .. Len(w) - 1 : next[w[i]] = w[i + 1] /\ w[i + 1] # end

Ends(w, next, end) == next[w[Len(w)]] = end

LEMMA WalkIs ==
  ASSUME NEW A, NEW w \in Seq(A), w # << >>, NEW N \in Nat, NEW next, NEW end,
         Leads(w, next, end), N + 1 <= Len(w) \/ Ends(w, next, end)
  PROVE  Walk(next, end, w[1], N) = Until(w, N + 1)
<1> USE DEF Leads, Ends
<1> DEFINE g == [j \in 0 .. N |-> Until(w, j + 1)]
<1>1. Len(w) \in Nat /\ Len(w) # 0
  OBVIOUS
<1>2. ASSUME NEW j \in 1 .. N
      PROVE  g[j] = IF next[Last(g[j - 1])] = end THEN g[j - 1]
                    ELSE Append(g[j - 1], next[Last(g[j - 1])])
  <2>1. j - 1 \in 0 .. N /\ j \in 0 .. N /\ (j - 1) + 1 = j /\ j \in Nat /\ j # 0
    OBVIOUS
  <2>2. g[j - 1] = Until(w, j) /\ g[j] = Until(w, j + 1)
    BY <2>1
  <2>3. Last(Until(w, j)) = IF j <= Len(w) THEN w[j] ELSE w[Len(w)]
    BY <2>1, UntilSeq
  <2>4. CASE j < Len(w)
    <3>1. j \in 1 .. Len(w) - 1 /\ j <= Len(w)
      BY <1>1, <2>1, <2>4
    <3>2. next[w[j]] = w[j + 1] /\ w[j + 1] # end
      BY <3>1
    <3>3. Until(w, j + 1) = Append(Until(w, j), w[j + 1])
      BY <2>1, <2>4, UntilMore
    <3> HIDE DEF g
    <3> QED
      BY <2>2, <2>3, <3>1, <3>2, <3>3
  <2>5. CASE ~(j < Len(w))
    <3>1. Len(w) <= j /\ Len(w) <= j + 1 /\ j + 1 \in Nat /\ ~(N + 1 <= Len(w))
      BY <1>1, <2>1, <2>5
    <3>2. Until(w, j) = w /\ Until(w, j + 1) = w
      BY <2>1, <3>1, UntilAll
    <3>3. Last(w) = w[Len(w)] /\ next[w[Len(w)]] = end
      BY <3>1 DEF Last
    <3> HIDE DEF g
    <3> QED
      BY <2>2, <3>2, <3>3
  <2> QED
    BY <2>4, <2>5
<1>3. g[0] = <<w[1]>>
  BY UntilOne
<1>4. g = [j \in 0 .. N |-> g[j]] /\ g[N] = Until(w, N + 1)
  OBVIOUS
<1> HIDE DEF g
<1>5. Follows(g, next, end, w[1], N)
  BY <1>2, <1>3, <1>4 DEF Follows
<1> QED
  BY <1>4, <1>5, WalkFunction

-----------------------------------------------------------------------------
(* The way of a render: names that lead from one to the next, with the     *)
(* templates they lead through.                                            *)
NameAt(i) == IF i <= Len(path) THEN made[path[i]].name ELSE want

Way == [i \in 1 .. Len(path) + 1 |-> NameAt(i)]

OnTheWay ==
  mode = "render" =>
    \A i \in 1 .. Len(path) :
      /\ templates[made[path[i]].name] = path[i]
      /\ made[path[i]].text.extends = NameAt(i + 1)

Distinct == \A i, j \in 1 .. Len(path) : path[i] = path[j] => i = j

(* The children are those of this render, unless a template comes twice.   *)
Offspring ==
  mode = "render" /\ Distinct =>
    \A i \in 1 .. Len(path) : child[path[i]] = IF i = 1 THEN 0 ELSE path[i - 1]

RInv == OnTheWay /\ Offspring

NoTemplate == [extends |-> NoName, errors |-> <<"no template">>]

Sources == [n \in Name |-> IF templates[n] = 0 THEN NoTemplate ELSE made[templates[n]].text]

-----------------------------------------------------------------------------
(* What a render's stack is.                                               *)
LEMMA OnPath ==
  ASSUME IInv, mode = "render"
  PROVE  /\ path \in Seq(Current) /\ Len(path) \in Nat
         /\ \A i \in 1 .. Len(path) :
              /\ path[i] \in Current /\ path[i] \in DOMAIN made /\ path[i] \in Attempts
              /\ made[path[i]].name \in Name /\ path[i] # 0
         /\ want \in Name /\ \A i \in 1 .. Len(path) + 1 : NameAt(i) \in Name
         /\ Way \in Seq(Name) /\ Len(Way) = Len(path) + 1 /\ Way # << >>
         /\ \A i \in 1 .. Len(path) + 1 : Way[i] = NameAt(i)
<1>1. path \in Seq(Current) /\ want \in Name /\ TypeOK
  BY Types DEF IInv, Stack, Control
<1>2. Len(path) \in Nat /\ \A i \in 1 .. Len(path) : path[i] \in Current
  BY <1>1
<1>3. /\ Current \subseteq DOMAIN made /\ DOMAIN made \subseteq Attempts
      /\ \A k \in DOMAIN made : made[k].name \in Name
  BY <1>1, Domains
<1>4. \A i \in 1 .. Len(path) : /\ path[i] \in DOMAIN made /\ path[i] \in Attempts
                                /\ made[path[i]].name \in Name /\ path[i] # 0
  BY <1>2, <1>3 DEF Attempts
<1>5. \A i \in 1 .. Len(path) + 1 : NameAt(i) \in Name
  BY <1>1, <1>2, <1>4 DEF NameAt
<1>6. Way \in Seq(Name) /\ Len(Way) = Len(path) + 1 /\ Way # << >>
  <2>1. Len(path) + 1 \in Nat /\ Len(path) + 1 # 0
    BY <1>2
  <2>2. Way \in Seq(Name) /\ Len(Way) = Len(path) + 1
    BY <1>5, <2>1 DEF Way
  <2> QED
    BY <2>1, <2>2
<1> QED
  BY <1>1, <1>2, <1>4, <1>5, <1>6 DEF Way

(* The templates on the way, as the map has them.                          *)
LEMMA SourcesOnWay ==
  ASSUME IInv, OnTheWay, mode = "render", NEW i \in 1 .. Len(path)
  PROVE  /\ Sources[Way[i]] = made[path[i]].text
         /\ Sources[Way[i]].extends = Way[i + 1] /\ Way[i + 1] # NoName
         /\ Way[i + 1] \in Name
<1>1. /\ Len(path) \in Nat /\ path[i] # 0 /\ made[path[i]].name \in Name
      /\ \A j \in 1 .. Len(path) + 1 : Way[j] = NameAt(j) /\ NameAt(j) \in Name
  BY OnPath
<1>2. i \in 1 .. Len(path) + 1 /\ i + 1 \in 1 .. Len(path) + 1 /\ i <= Len(path)
  BY <1>1
<1>3. Way[i] = made[path[i]].name
  BY <1>1, <1>2 DEF NameAt
<1>4. Sources[Way[i]] = made[path[i]].text
  BY <1>1, <1>3 DEF OnTheWay, Sources
<1> QED
  BY <1>1, <1>2, <1>4, Bounds DEF OnTheWay

(* What EnvSpec takes from the library is what Env takes.                  *)
LEMMA Same ==
  /\ Promise!Cardinality(Name) = Cardinality(Name)
  /\ \A s : Promise!Last(s) = Last(s)
  /\ \A s : Promise!Reverse(s) = Reverse(s)
<1>1. Promise!Cardinality(Name) = Cardinality(Name)
  BY Zenon DEF Promise!Cardinality, Cardinality
<1>2. \A s : Promise!Last(s) = Last(s)
  BY DEF Promise!Last, Last
<1>3. \A s : Promise!Reverse(s) = Reverse(s)
  BY DEF Promise!Reverse, Reverse
<1> QED
  BY <1>1, <1>2, <1>3

Parents == [n \in Name |-> Sources[n].extends]

(* EnvSpec walks along what extends what,                                  *)
LEMMA LineWalks ==
  ASSUME NEW n
  PROVE  Promise!Line(n) = Walk(Parents, NoName, n, Cardinality(Name))
BY Zenon DEF Promise!Line, Walk, Parents, Sources, NoTemplate, Promise!Cardinality, Cardinality,
             Promise!Last, Last

(* and Env back along the children.                                        *)
LEMMA ChainWalks ==
  ASSUME NEW c, NEW k
  PROVE  Chain(c, k) = Walk(c, 0, k, MaxMade)
BY Zenon DEF Chain, Walk

(* The names of the way are those of EnvSpec,                              *)
LEMMA LineIs ==
  ASSUME IInv, OnTheWay, mode = "render",
         Cardinality(Name) <= Len(path) \/ Sources[want].extends = NoName
  PROVE  Promise!Line(Way[1]) = Until(Way, Cardinality(Name) + 1)
<1> DEFINE C == Cardinality(Name)
<1>1. C \in Nat
  BY EnvAssumption, FS_CardinalityType
<1>2. /\ Way \in Seq(Name) /\ Len(Way) = Len(path) + 1 /\ Way # << >>
      /\ Len(path) \in Nat /\ want \in Name
      /\ \A i \in 1 .. Len(path) + 1 : Way[i] = NameAt(i)
  BY OnPath
<1>3. Way[Len(Way)] = want
  <2>1. Len(path) + 1 \in 1 .. Len(path) + 1 /\ ~(Len(path) + 1 <= Len(path))
    BY <1>2
  <2> QED
    BY <1>2, <2>1 DEF NameAt
<1>4. Leads(Way, Parents, NoName)
  <2> SUFFICES ASSUME NEW i \in 1 .. Len(Way) - 1
               PROVE  Parents[Way[i]] = Way[i + 1] /\ Way[i + 1] # NoName
    BY DEF Leads
  <2>1. i \in 1 .. Len(path) /\ i \in 1 .. Len(Way)
    BY <1>2
  <2>2. Way[i] \in Name
    BY <1>2, <2>1
  <2> QED
    BY <2>1, <2>2, SourcesOnWay DEF Parents
<1>5. C + 1 <= Len(Way) \/ Ends(Way, Parents, NoName)
  <2>1. CASE C <= Len(path)
    BY <1>1, <1>2, <2>1
  <2>2. CASE Sources[want].extends = NoName
    BY <1>2, <1>3, <2>2 DEF Parents, Ends
  <2> QED
    BY <2>1, <2>2
<1> HIDE DEF C
<1>6. Walk(Parents, NoName, Way[1], C) = Until(Way, C + 1)
  BY <1>1, <1>2, <1>4, <1>5, WalkIs
<1> QED
  BY <1>6, LineWalks DEF C

-----------------------------------------------------------------------------
(* and they differ, if they end:                                           *)
LEMMA NoRepeat ==
  ASSUME IInv, OnTheWay, mode = "render", Sources[want].extends = NoName
  PROVE  \A i, j \in 1 .. Len(path) + 1 : Way[i] = Way[j] => i = j
<1> DEFINE N == Len(path) + 1
           Again == {j \in 0 .. N : \E i \in 1 .. N : i # j /\ j # 0 /\ Way[i] = Way[j]}
<1>1. Len(path) \in Nat /\ want \in Name /\ \A i \in 1 .. N : Way[i] = NameAt(i)
  BY OnPath
<1>2. Way[N] = want /\ N \in Nat
  <2>1. N \in 1 .. N /\ ~(N <= Len(path))
    BY <1>1
  <2> QED
    BY <1>1, <2>1 DEF NameAt
<1>3. SUFFICES ASSUME Again # {} PROVE FALSE
  OBVIOUS
<1>4. PICK j \in Again : \A m \in Again : m <= j
  <2> HIDE DEF N
  <2>1. Again \subseteq 0 .. N
    OBVIOUS
  <2> HIDE DEF Again
  <2> QED
    BY <1>2, <1>3, <2>1, Greatest
<1>5. PICK i \in 1 .. N : i # j /\ j \in 1 .. N /\ Way[i] = Way[j]
  BY <1>2
<1>6. i \in Again /\ i < j
  <2>1. i \in Again
    BY <1>2, <1>5
  <2> QED
    BY <1>4, <1>5, <2>1
<1>7. i \in 1 .. Len(path)
  BY <1>1, <1>5, <1>6
<1>8. Sources[Way[i]].extends = Way[i + 1] /\ Way[i + 1] # NoName
  BY <1>7, SourcesOnWay
<1>9. CASE j = N
  BY <1>2, <1>5, <1>8, <1>9
<1>10. CASE j # N
  <2>1. j \in 1 .. Len(path)
    BY <1>1, <1>5, <1>10
  <2>2. Sources[Way[j]].extends = Way[j + 1]
    BY <2>1, SourcesOnWay
  <2>3. Way[i + 1] = Way[j + 1]
    BY <1>5, <1>8, <2>2
  <2>4. i + 1 \in 1 .. N /\ j + 1 \in 0 .. N /\ i + 1 # j + 1 /\ j + 1 # 0 /\ ~(j + 1 <= j)
    BY <1>1, <1>6, <1>7, <2>1
  <2>5. j + 1 \in Again
    <3> HIDE DEF N
    <3> QED
      BY <2>3, <2>4
  <2> QED
    BY <1>4, <2>4, <2>5
<1> QED
  BY <1>9, <1>10

(* there are no more of them than names.                                   *)
LEMMA Fits ==
  ASSUME IInv, OnTheWay, mode = "render", Sources[want].extends = NoName
  PROVE  /\ Len(path) + 1 <= Cardinality(Name)
         /\ Promise!Line(Way[1]) = Way /\ ~Promise!Circular(Way[1])
<1> DEFINE N == Len(path) + 1
<1>1. /\ Way \in Seq(Name) /\ Len(Way) = N /\ N \in Nat
      /\ \A i \in 1 .. N : Way[i] \in Name
  BY OnPath
<1>2. Cardinality(Name) \in Nat /\ IsFiniteSet(Name)
  BY EnvAssumption, FS_CardinalityType
<1>3. N <= Cardinality(Name)
  <2>1. Way \in Injection(1 .. N, Name)
    BY <1>1, NoRepeat DEF Injection, IsInjective, Way
  <2>2. Cardinality(1 .. N) <= Cardinality(Name)
    BY <1>2, <2>1, FS_Injection
  <2>3. Cardinality(1 .. N) = N
    BY <1>1, FS_Interval
  <2> QED
    BY <2>2, <2>3
<1>4. Until(Way, Cardinality(Name) + 1) = Way
  BY <1>1, <1>2, <1>3, UntilAll
<1>5. Promise!Line(Way[1]) = Way
  BY <1>4, LineIs
<1>6. ~Promise!Circular(Way[1])
  BY <1>1, <1>2, <1>3, <1>5, Same DEF Promise!Circular
<1> QED
  BY <1>3, <1>5, <1>6

(* A stack with no more room has gone round.                               *)
LEMMA GoesRound ==
  ASSUME IInv, OnTheWay, mode = "render", Len(path) = MaxPaths
  PROVE  Promise!Circular(Way[1])
<1> DEFINE C == Cardinality(Name)
<1>1. C \in Nat /\ MaxPaths \in Nat /\ MaxPaths > C
  BY EnvAssumption, FS_CardinalityType
<1>2. Way \in Seq(Name) /\ Len(Way) = Len(path) + 1 /\ Way # << >>
  BY OnPath
<1>3. C <= Len(path) /\ C + 1 <= Len(Way) /\ C + 1 \in Nat /\ C + 1 # 0
  BY <1>1, <1>2
<1>4. Promise!Line(Way[1]) = Until(Way, C + 1)
  BY <1>3, LineIs
<1>5. Len(Until(Way, C + 1)) = C + 1
  BY <1>2, <1>3, UntilSeq
<1> QED
  BY <1>1, <1>4, <1>5, Same DEF Promise!Circular

-----------------------------------------------------------------------------
(* The children of a render that has got to its base lead back.            *)
Back(k) == [i \in 1 .. Len(path) + 1 |-> IF i = 1 THEN k ELSE path[Len(path) + 2 - i]]

(* The base is not on the stack, and nothing is there twice.               *)
LEMMA Apart ==
  ASSUME IInv, OnTheWay, mode = "render",
         NEW k, k = templates[want], k # 0, made[k].text.extends = NoName
  PROVE  /\ Sources[want] = made[k].text /\ k \in Current /\ k \in Attempts
         /\ Distinct /\ \A i \in 1 .. Len(path) : path[i] # k
<1>1. /\ want \in Name /\ Len(path) \in Nat
      /\ \A i \in 1 .. Len(path) + 1 : Way[i] = NameAt(i)
  BY OnPath
<1>2. k \in Current /\ made[k].name = want /\ k \in Attempts
  <2>1. k \in Current /\ made[k].name = want
    BY <1>1 DEF IInv, Memory, Entries
  <2> QED
    BY <2>1, Types, Domains
<1>3. Sources[want] = made[k].text
  BY <1>1 DEF Sources
<1>4. \A i, j \in 1 .. Len(path) + 1 : Way[i] = Way[j] => i = j
  BY <1>3, NoRepeat
<1>5. \A i \in 1 .. Len(path) :
        i \in 1 .. Len(path) + 1 /\ i # Len(path) + 1 /\ Way[i] = made[path[i]].name
  BY <1>1 DEF NameAt
<1>6. Len(path) + 1 \in 1 .. Len(path) + 1 /\ Way[Len(path) + 1] = want
  <2>1. Len(path) + 1 \in 1 .. Len(path) + 1 /\ ~(Len(path) + 1 <= Len(path))
    BY <1>1
  <2> QED
    BY <1>1, <2>1 DEF NameAt
<1>7. Distinct
  BY <1>4, <1>5 DEF Distinct
<1>8. ASSUME NEW i \in 1 .. Len(path), path[i] = k PROVE FALSE
  BY <1>2, <1>4, <1>5, <1>6, <1>8
<1> QED
  BY <1>2, <1>3, <1>7, <1>8

(* The way back is no longer than there are attempts,                      *)
LEMMA BackSeq ==
  ASSUME IInv, OnTheWay, mode = "render",
         NEW k, k = templates[want], k # 0, made[k].text.extends = NoName
  PROVE  /\ Back(k) \in Seq(Attempts) /\ Len(Back(k)) = Len(path) + 1
         /\ Len(path) + 1 <= MaxMade
<1> DEFINE N == Len(path) + 1
           w == Back(k)
<1>1. /\ N \in Nat /\ Len(path) \in Nat /\ k \in Attempts
      /\ \A i \in 1 .. Len(path) : path[i] \in Attempts
  BY OnPath, Apart
<1>2. \A i \in 1 .. N : i # 1 => N + 1 - i \in 1 .. Len(path) /\ Len(path) + 2 - i = N + 1 - i
  BY <1>1
<1>3. \A i \in 1 .. N : w[i] = IF i = 1 THEN k ELSE path[N + 1 - i]
  BY <1>2 DEF Back
<1>4. \A i \in 1 .. N : w[i] \in Attempts
  BY <1>1, <1>2, <1>3
<1>5. w = [i \in 1 .. N |-> w[i]]
  BY DEF Back
<1>6. w \in Seq(Attempts) /\ Len(w) = N
  <2> HIDE DEF w, N
  <2>1. [i \in 1 .. N |-> w[i]] \in Seq(Attempts) /\ Len([i \in 1 .. N |-> w[i]]) = N
    BY <1>1, <1>4
  <2> QED
    BY <1>5, <2>1
<1>7. N <= MaxMade
  <2>1. ASSUME NEW i \in 1 .. N, NEW j \in 1 .. N, w[i] = w[j] PROVE i = j
    <3>1. CASE i = 1 \/ j = 1
      BY <1>2, <1>3, <2>1, <3>1, Apart
    <3>2. CASE i # 1 /\ j # 1
      <4>1. path[N + 1 - i] = path[N + 1 - j]
        BY <1>3, <2>1, <3>2
      <4>2. N + 1 - i \in 1 .. Len(path) /\ N + 1 - j \in 1 .. Len(path)
        BY <1>2, <3>2
      <4>3. N + 1 - i = N + 1 - j
        <5> HIDE DEF N
        <5> QED
          BY <4>1, <4>2, Apart DEF Distinct
      <4> QED
        BY <1>1, <4>3
    <3> QED
      BY <3>1, <3>2
  <2>2. w \in Injection(1 .. N, Attempts)
    <3> HIDE DEF w, N
    <3>1. w \in [1 .. N -> Attempts]
      BY <1>4, <1>5
    <3> QED
      BY <2>1, <3>1 DEF Injection, IsInjective
  <2>3. MaxMade \in Nat /\ IsFiniteSet(Attempts) /\ Cardinality(Attempts) = MaxMade
    BY Bounds, FS_Interval DEF Attempts
  <2>4. Cardinality(1 .. N) <= Cardinality(Attempts)
    <3> HIDE DEF w
    <3> QED
      BY <2>2, <2>3, FS_Injection
  <2>5. Cardinality(1 .. N) = N
    BY <1>1, FS_Interval
  <2> QED
    BY <2>3, <2>4, <2>5
<1> QED
  BY <1>6, <1>7

(* and is the one that the children lead.                                  *)
LEMMA ChainIs ==
  ASSUME IInv, RInv, mode = "render",
         NEW k, k = templates[want], k # 0, made[k].text.extends = NoName
  PROVE  Chain(Adopted(k), k) = Back(k)
<1> DEFINE N == Len(path) + 1
           w == Back(k)
           c == Adopted(k)
<1> OnTheWay
  BY DEF RInv
<1>1. /\ N \in Nat /\ Len(path) \in Nat /\ path \in Seq(Current)
      /\ \A i \in 1 .. Len(path) : path[i] \in Attempts /\ path[i] # 0
  BY OnPath
<1>2. /\ k \in Attempts /\ Distinct /\ \A i \in 1 .. Len(path) : path[i] # k
  BY Apart
<1>3. w \in Seq(Attempts) /\ Len(w) = N /\ N <= MaxMade /\ MaxMade \in Nat
  BY BackSeq, Bounds
<1>4. \A i \in 1 .. N : i # 1 => N + 1 - i \in 1 .. Len(path) /\ Len(path) + 2 - i = N + 1 - i
  BY <1>1
<1>5. \A i \in 1 .. N : w[i] = IF i = 1 THEN k ELSE path[N + 1 - i]
  BY <1>4 DEF Back
<1>6. /\ c[k] = IF path = << >> THEN 0 ELSE Last(path)
      /\ \A a \in Attempts : a # k => c[a] = child[a]
  <2>1. child \in [Attempts -> Pointers]
    BY DEF IInv, TypedMemory
  <2> QED
    BY <1>2, <2>1 DEF Adopted
<1>7. \A i \in 1 .. Len(path) : c[path[i]] = IF i = 1 THEN 0 ELSE path[i - 1]
  BY <1>1, <1>2, <1>6 DEF RInv, Offspring
<1> HIDE DEF c, w
<1>8. ASSUME NEW i \in 1 .. N - 1 PROVE c[w[i]] = w[i + 1] /\ w[i + 1] # 0
  <2>1. i \in 1 .. N /\ i + 1 \in 1 .. N /\ i + 1 # 1 /\ N + 1 - (i + 1) = N - i
    BY <1>1
  <2>2. w[i + 1] = path[N - i] /\ N - i \in 1 .. Len(path)
    BY <1>1, <1>4, <1>5, <2>1
  <2>3. CASE i = 1
    <3>1. Last(path) = path[Len(path)] /\ path # << >> /\ N - 1 = Len(path)
      BY <1>1, <2>1, <2>3 DEF Last
    <3> QED
      BY <1>1, <1>5, <1>6, <2>1, <2>2, <2>3, <3>1
  <2>4. CASE i # 1
    <3>1. w[i] = path[N + 1 - i] /\ N + 1 - i \in 1 .. Len(path)
      BY <1>4, <1>5, <2>1, <2>4
    <3>2. N + 1 - i # 1 /\ (N + 1 - i) - 1 = N - i
      BY <1>1
    <3>3. c[path[N + 1 - i]] = path[(N + 1 - i) - 1]
      BY <1>7, <3>1, <3>2
    <3> QED
      BY <1>1, <2>2, <3>1, <3>2, <3>3
  <2> QED
    BY <2>3, <2>4
<1>9. c[w[N]] = 0
  <2>1. N \in 1 .. N
    BY <1>1
  <2>2. CASE N = 1
    BY <1>1, <1>5, <1>6, <2>1, <2>2
  <2>3. CASE N # 1
    <3>1. w[N] = path[1] /\ 1 \in 1 .. Len(path)
      BY <1>1, <1>4, <1>5, <2>1, <2>3
    <3> QED
      BY <1>7, <3>1
  <2> QED
    BY <2>2, <2>3
<1>10. w[1] = k /\ w # << >>
  BY <1>1, <1>3, <1>5
<1>11. Walk(c, 0, w[1], MaxMade) = Until(w, MaxMade + 1)
  <2>1. Leads(w, c, 0)
    BY <1>3, <1>8 DEF Leads
  <2>2. Ends(w, c, 0)
    BY <1>3, <1>9 DEF Ends
  <2> HIDE DEF N
  <2> QED
    BY <1>3, <1>10, <2>1, <2>2, WalkIs
<1>12. Until(w, MaxMade + 1) = w
  BY <1>1, <1>3, UntilAll
<1> QED
  BY <1>10, <1>11, <1>12, ChainWalks DEF c, w

(* So the answer is what EnvSpec says.                                     *)
LEMMA AnswerIs ==
  ASSUME IInv, RInv, mode = "render",
         NEW k, k = templates[want], k # 0, made[k].text.extends = NoName
  PROVE  [i \in DOMAIN Chain(Adopted(k), k) |-> made[Chain(Adopted(k), k)[i]].text]
           = Promise!Reverse([i \in DOMAIN Way |-> Sources[Way[i]]])
<1> DEFINE N == Len(path) + 1
           w == Back(k)
           src == [i \in DOMAIN Way |-> Sources[Way[i]]]
<1> OnTheWay
  BY DEF RInv
<1>1. /\ N \in Nat /\ Len(path) \in Nat /\ want \in Name
      /\ Way \in Seq(Name) /\ Len(Way) = N
      /\ \A i \in 1 .. N : Way[i] = NameAt(i)
  BY OnPath
<1>2. DOMAIN Way = 1 .. N /\ Len(src) = N
  BY <1>1
<1>3. Way[N] = want /\ Sources[want] = made[k].text
  <2>1. N \in 1 .. N /\ ~(N <= Len(path))
    BY <1>1
  <2> QED
    BY <1>1, <2>1, Apart DEF NameAt
<1>4. DOMAIN w = 1 .. N /\ Chain(Adopted(k), k) = w
  BY ChainIs DEF Back
<1>5. Promise!Reverse(src) = [i \in 1 .. N |-> src[(N - i) + 1]]
  <2> HIDE DEF src, N
  <2>1. Promise!Reverse(src) = Reverse(src)
    BY Same
  <2> QED
    BY <1>2, <2>1 DEF Reverse
<1>6. ASSUME NEW i \in 1 .. N
      PROVE  made[w[i]].text = src[(N - i) + 1]
  <2>1. (N - i) + 1 \in 1 .. N
    BY <1>1
  <2>2. src[(N - i) + 1] = Sources[Way[(N - i) + 1]]
    BY <1>2, <2>1
  <2>3. CASE i = 1
    BY <1>1, <1>3, <2>2, <2>3 DEF Back
  <2>4. CASE i # 1
    <3>1. (N - i) + 1 \in 1 .. Len(path) /\ Len(path) + 2 - i = (N - i) + 1
      BY <1>1, <2>4
    <3>2. w[i] = path[(N - i) + 1]
      BY <2>4, <3>1 DEF Back
    <3>3. Sources[Way[(N - i) + 1]] = made[path[(N - i) + 1]].text
      BY <3>1, SourcesOnWay
    <3> QED
      BY <2>2, <3>2, <3>3
  <2> QED
    BY <2>3, <2>4
<1> HIDE DEF src, w
<1> QED
  BY <1>4, <1>5, <1>6 DEF src

-----------------------------------------------------------------------------
(* The way stays one when it goes on.                                      *)
LEMMA ExtendStep ==
  ASSUME IInv, RInv, Extend
  PROVE  RInv'
<1> DEFINE L == Len(path)
<1>0. PICK k \in Attempts : k = templates[want] /\ k \in Current /\ made[k].name = want
  <2>1. want \in Name /\ templates[want] # 0
    BY OnPath DEF Extend, Lookup
  <2>2. templates[want] \in Current /\ made[templates[want]].name = want
    BY <2>1 DEF IInv, Memory, Entries
  <2> QED
    BY <2>2, Types, Domains
<1>1. /\ mode = "render" /\ mode' = "render" /\ made' = made /\ templates' = templates
      /\ child' = Adopted(k) /\ path' = Append(path, k) /\ want' = made[k].text.extends
  BY <1>0 DEF Extend, Lookup, memory
<1>2. /\ path \in Seq(Current) /\ L \in Nat
      /\ \A i \in 1 .. L : path[i] \in Attempts
  BY <1>1, OnPath
<1>3. /\ Len(path') = L + 1 /\ path'[L + 1] = k
      /\ \A i \in 1 .. L : path'[i] = path[i]
  BY <1>0, <1>1, <1>2
<1>4. ASSUME NEW i \in 1 .. L + 1
      PROVE  /\ templates[made[path'[i]].name] = path'[i]
             /\ made[path'[i]].text.extends = NameAt(i + 1)'
  <2>1. CASE i = L + 1
    <3>1. ~(i + 1 <= L + 1)
      BY <1>2, <2>1
    <3>2. NameAt(i + 1)' = want'
      BY <1>3, <3>1 DEF NameAt
    <3> QED
      BY <1>0, <1>1, <1>3, <2>1, <3>2
  <2>2. CASE i # L + 1
    <3>1. i \in 1 .. L /\ path'[i] = path[i]
      BY <1>2, <1>3, <2>2
    <3>2. /\ templates[made[path[i]].name] = path[i]
          /\ made[path[i]].text.extends = NameAt(i + 1)
      BY <1>1, <3>1 DEF RInv, OnTheWay
    <3>3. NameAt(i + 1)' = NameAt(i + 1)
      <4>1. i + 1 <= L + 1
        BY <3>1
      <4>2. NameAt(i + 1)' = made[path'[i + 1]].name
        BY <1>1, <1>3, <4>1 DEF NameAt
      <4>3. CASE i = L
        <5>1. ~(i + 1 <= L) /\ i + 1 = L + 1
          BY <1>2, <4>3
        <5> QED
          BY <1>0, <1>3, <4>2, <5>1 DEF NameAt
      <4>4. CASE i # L
        <5>1. i + 1 \in 1 .. L /\ i + 1 <= L
          BY <1>2, <3>1, <4>4
        <5> QED
          BY <1>3, <4>2, <5>1 DEF NameAt
      <4> QED
        BY <4>3, <4>4
    <3> QED
      BY <3>1, <3>2, <3>3
  <2> QED
    BY <2>1, <2>2
<1>5. OnTheWay'
  BY <1>1, <1>3, <1>4 DEF OnTheWay
<1>6. ASSUME Distinct'
      PROVE  \A i \in 1 .. L + 1 : child'[path'[i]] = IF i = 1 THEN 0 ELSE path'[i - 1]
  <2>1. Distinct
    <3>1. \A i \in 1 .. L : i \in 1 .. L + 1
      BY <1>2
    <3> QED
      BY <1>3, <1>6, <3>1 DEF Distinct
  <2>2. \A i \in 1 .. L : path[i] # k
    <3>1. \A i \in 1 .. L : i \in 1 .. L + 1 /\ i # L + 1
      BY <1>2
    <3>2. L + 1 \in 1 .. L + 1
      BY <1>2
    <3> QED
      BY <1>3, <1>6, <3>1, <3>2 DEF Distinct
  <2>3. /\ child'[k] = IF path = << >> THEN 0 ELSE Last(path)
        /\ \A a \in Attempts : a # k => child'[a] = child[a]
    <3>1. child \in [Attempts -> Pointers]
      BY DEF IInv, TypedMemory
    <3> QED
      BY <1>0, <1>1, <3>1 DEF Adopted
  <2>4. ASSUME NEW i \in 1 .. L + 1
        PROVE  child'[path'[i]] = IF i = 1 THEN 0 ELSE path'[i - 1]
    <3>1. CASE i = L + 1
      <4>1. CASE L = 0
        BY <1>2, <1>3, <2>3, <3>1, <4>1
      <4>2. CASE L # 0
        <5>1. path # << >> /\ Last(path) = path[L] /\ L \in 1 .. L /\ i # 1 /\ i - 1 = L
          BY <1>2, <3>1, <4>2 DEF Last
        <5> QED
          BY <1>3, <2>3, <3>1, <5>1
      <4> QED
        BY <4>1, <4>2
    <3>2. CASE i # L + 1
      <4>1. i \in 1 .. L /\ (i # 1 => i - 1 \in 1 .. L)
        BY <1>2, <3>2
      <4>2. child[path[i]] = IF i = 1 THEN 0 ELSE path[i - 1]
        BY <1>1, <2>1, <4>1 DEF RInv, Offspring
      <4>3. child'[path[i]] = child[path[i]]
        BY <1>2, <2>2, <2>3, <4>1
      <4> QED
        BY <1>3, <4>1, <4>2, <4>3
    <3> QED
      BY <3>1, <3>2
  <2> QED
    BY <2>4
<1>7. Offspring'
  BY <1>1, <1>3, <1>6 DEF Offspring
<1> QED
  BY <1>5, <1>7 DEF RInv

(* Nothing else touches a stack.                                           *)
LEMMA WayStep ==
  ASSUME IInv, RInv, [Next]_vars
  PROVE  RInv'
<1>1. CASE Extend
  BY <1>1, ExtendStep
<1>2. ASSUME path' = << >> PROVE RInv'
  BY <1>2 DEF RInv, OnTheWay, Offspring
<1>3. ASSUME mode' # "render" PROVE RInv'
  BY <1>3 DEF RInv, OnTheWay, Offspring
<1>4. CASE UNCHANGED vars
  BY <1>4 DEF vars, memory, walk, RInv, OnTheWay, Offspring, Distinct, NameAt
<1>5. CASE roscha_init \/ roscha_deinit \/ roscha_env_new
  BY <1>3, <1>5 DEF roscha_init, roscha_deinit, roscha_env_new
<1>6. CASE AddTemplate \/ OpenDir \/ OpenDirFails
  BY <1>3, <1>6 DEF AddTemplate, OpenDir, OpenDirFails, Called, Begin, Ready
<1>7. CASE LoadStep
  BY <1>3, <1>7
  DEF LoadStep, Omit, StatFails, SkipDir, Stat, Entry, LoadFile, FileRejected, ReadFile, Reading,
      ReadFails, LoadDone, Return
<1>8. CASE Crash \/ Change
  BY <1>3, <1>8 DEF Crash, Change
<1>9. ASSUME NEW n \in Name, Render(n) PROVE RInv'
  BY <1>2, <1>9 DEF Render
<1>10. CASE NotFound \/ Answer \/ Overflow
  BY <1>3, <1>10 DEF NotFound, Answer, Overflow, Return
<1>11. CASE TakeErrors \/ roscha_env_destroy
  BY <1>3, <1>11 DEF TakeErrors, roscha_env_destroy
<1> QED
  BY <1>1, <1>4, <1>5, <1>6, <1>7, <1>8, <1>9, <1>10, <1>11 DEF Next, RenderStep

-----------------------------------------------------------------------------
(* What the map comes to.                                                  *)
LEMMA Kept ==
  ASSUME UNCHANGED <<made, templates>>
  PROVE  Sources' = Sources
BY DEF Sources

(* An accepted template is what its name has,                              *)
LEMMA Accepts ==
  ASSUME IInv, NEW n \in Name, NEW t \in Template, NEW o \in {"host", "env"},
         Attempt(n, t, o), Accept(n, t)
  PROVE  Sources' = [Sources EXCEPT ![n] = t]
<1>1. /\ made'[New].text = t /\ New # 0
      /\ \A k \in DOMAIN made : made'[k] = made[k]
  BY Types, Attempted, Bounds DEF Attempts
<1>2. /\ templates \in [Name -> Pointers] /\ templates' = [templates EXCEPT ![n] = New]
      /\ \A m \in Name : templates[m] # 0 => templates[m] \in DOMAIN made
  BY DEF IInv, TypedMemory, Memory, Entries, Current, Accept
<1>3. \A m \in Name : Sources'[m] = IF m = n THEN t ELSE Sources[m]
  BY <1>1, <1>2 DEF Sources
<1> QED
  BY <1>3 DEF Sources

(* a rejected one makes no difference.                                     *)
LEMMA Rejects ==
  ASSUME IInv, NEW n \in Name, NEW t \in Template, NEW o \in {"host", "env"},
         Attempt(n, t, o), Reject(t)
  PROVE  Sources' = Sources
<1>1. \A k \in DOMAIN made : made'[k] = made[k]
  BY Types, Attempted
<1>2. /\ templates' = templates
      /\ \A m \in Name : templates[m] # 0 => templates[m] \in DOMAIN made
  BY DEF IInv, Memory, Entries, Current, Reject
<1>3. \A m \in Name : Sources'[m] = Sources[m]
  BY <1>1, <1>2 DEF Sources
<1> QED
  BY <1>3 DEF Sources

-----------------------------------------------------------------------------
(* The actions of EnvSpec, in these terms.                                 *)
LEMMA Steps ==
  ASSUME mode # "overflow", mode' # "overflow"
  PROVE  /\ Sources' = Sources /\ UNCHANGED <<errors, answer>> => UNCHANGED Promise!vars
         /\ \A n \in Name, t \in Template :
              /\ t.errors = << >> /\ Sources' = [Sources EXCEPT ![n] = t]
              /\ UNCHANGED <<errors, answer>>
              => Promise!Add(n, t)
         /\ \A t \in Template :
              /\ t.errors # << >> /\ errors' = errors \o Reverse(t.errors)
              /\ Sources' = Sources /\ UNCHANGED answer
              => Promise!Reject(t)
         /\ \A m : /\ errors' = Append(errors, m) /\ Sources' = Sources /\ UNCHANGED answer
                   => Promise!Complain(m)
         /\ errors' = << >> /\ Sources' = Sources /\ UNCHANGED answer => Promise!TakeErrors
         /\ errors' = << >> /\ Sources' = [n \in Name |-> NoTemplate] /\ UNCHANGED answer
              => Promise!Destroy
<1> USE DEF Sources, NoTemplate
<1>1. (mode = "overflow")' = (mode = "overflow")
  OBVIOUS
<1>2. Sources' = Sources /\ UNCHANGED <<errors, answer>> => UNCHANGED Promise!vars
  BY Zenon, <1>1 DEF Promise!vars
<1>3. ASSUME NEW n \in Name, NEW t \in Template, t.errors = << >>,
             Sources' = [Sources EXCEPT ![n] = t], UNCHANGED <<errors, answer>>
      PROVE  Promise!Add(n, t)
  BY <1>1, <1>3 DEF Promise!Add
<1>4. ASSUME NEW t \in Template, t.errors # << >>, errors' = errors \o Reverse(t.errors),
             Sources' = Sources, UNCHANGED answer
      PROVE  Promise!Reject(t)
  BY <1>1, <1>4, Same DEF Promise!Reject
<1>5. ASSUME NEW m, errors' = Append(errors, m), Sources' = Sources, UNCHANGED answer
      PROVE  Promise!Complain(m)
  BY <1>1, <1>5 DEF Promise!Complain
<1>6. ASSUME errors' = << >>, Sources' = Sources, UNCHANGED answer
      PROVE  Promise!TakeErrors
  BY <1>1, <1>6 DEF Promise!TakeErrors
<1>7. ASSUME errors' = << >>, Sources' = [n \in Name |-> NoTemplate], UNCHANGED answer
      PROVE  Promise!Destroy
  BY <1>1, <1>7 DEF Promise!Destroy, Promise!None
<1> HIDE DEF Sources, NoTemplate
<1> QED
  BY <1>2, <1>3, <1>4, <1>5, <1>6, <1>7

(* A render that finds all it looks for answers with that.                 *)
LEMMA Answered ==
  ASSUME IInv, RInv, Answer
  PROVE  Promise!Render(Way[1])
<1>1. PICK k \in Attempts : k = templates[want] /\ k \in Current
  <2>1. want \in Name /\ templates[want] # 0
    BY OnPath DEF Answer, Lookup
  <2>2. templates[want] \in Current
    BY <2>1 DEF IInv, Memory, Entries
  <2> QED
    BY <2>2, Types, Domains
<1>2. /\ mode = "render" /\ mode' = "idle" /\ k # 0 /\ made[k].text.extends = NoName
      /\ child' = Adopted(k)
      /\ answer' = [i \in DOMAIN Chain(child', k) |-> made[Chain(child', k)[i]].text]
      /\ errors' \in {errors, Append(errors, "eval")}
      /\ UNCHANGED <<made, templates>>
  BY <1>1 DEF Answer, Lookup, Return, memory
<1>3. OnTheWay /\ Sources[want] = made[k].text
  <2>1. OnTheWay
    BY DEF RInv
  <2> QED
    BY <1>1, <1>2, <2>1, Apart
<1>4. Promise!Line(Way[1]) = Way /\ ~Promise!Circular(Way[1])
  BY <1>2, <1>3, Fits
<1>5. Promise!Last(Way) = want
  <2>1. /\ Len(Way) = Len(path) + 1 /\ Len(path) \in Nat
        /\ \A i \in 1 .. Len(path) + 1 : Way[i] = NameAt(i)
    BY <1>2, OnPath
  <2>2. Len(path) + 1 \in 1 .. Len(path) + 1 /\ ~(Len(path) + 1 <= Len(path))
    BY <2>1
  <2>3. Way[Len(Way)] = want
    BY <2>1, <2>2 DEF NameAt
  <2> QED
    BY <2>3, Same DEF Last
<1>6. Sources[want] # NoTemplate
  <2>1. made[k].text.errors = << >>
    BY <1>1 DEF Current, Rejected
  <2>2. NoTemplate.errors # << >>
    BY DEF NoTemplate
  <2> QED
    BY <1>3, <2>1, <2>2
<1>7. answer' = Promise!Reverse([i \in DOMAIN Way |-> Sources[Way[i]]])
  BY <1>1, <1>2, AnswerIs
<1>8. Sources' = Sources
  BY <1>2, Kept
<1>9. (mode = "overflow")' = (mode = "overflow")
  BY <1>2
<1>10. Sources[Promise!Last(Promise!Line(Way[1]))] # Promise!None
  BY <1>4, <1>5, <1>6 DEF Promise!None, NoTemplate
<1>11. answer' = Promise!Reverse([i \in DOMAIN Promise!Line(Way[1]) |->
                                    Sources[Promise!Line(Way[1])[i]]])
  BY <1>4, <1>7
<1>12. errors' \in {errors, Append(errors, "eval")}
  BY <1>2
<1> QED
  BY Zenon, <1>4, <1>8, <1>9, <1>10, <1>11, <1>12 DEF Promise!Render, Sources, NoTemplate

(* A render that misses a template reports that and ends,                  *)
LEMMA Missing ==
  ASSUME IInv, RInv, NotFound
  PROVE  Promise!Render(Way[1])
<1>1. /\ mode = "render" /\ mode' = "idle" /\ templates[want] = 0
      /\ errors' = Append(errors, "not found")
      /\ UNCHANGED <<made, templates, answer>>
  BY DEF NotFound, Lookup, Return, memory
<1>2. OnTheWay /\ want \in Name /\ Sources[want] = NoTemplate /\ NoTemplate.extends = NoName
  BY <1>1, OnPath DEF RInv, Sources, NoTemplate
<1>3. Promise!Line(Way[1]) = Way /\ ~Promise!Circular(Way[1])
  BY <1>1, <1>2, Fits
<1>4. Promise!Last(Way) = want
  <2>1. /\ Len(Way) = Len(path) + 1 /\ Len(path) \in Nat
        /\ \A i \in 1 .. Len(path) + 1 : Way[i] = NameAt(i)
    BY <1>1, OnPath
  <2>2. Len(path) + 1 \in 1 .. Len(path) + 1 /\ ~(Len(path) + 1 <= Len(path))
    BY <2>1
  <2>3. Way[Len(Way)] = want
    BY <2>1, <2>2 DEF NameAt
  <2> QED
    BY <2>3, Same DEF Last
<1>5. Sources' = Sources
  BY <1>1, Kept
<1>6. (mode = "overflow")' = (mode = "overflow")
  BY <1>1
<1> QED
  BY <1>1, <1>2, <1>3, <1>4, <1>5, <1>6
  DEF Promise!Render, Promise!None, Sources, NoTemplate

(* and one that leaves no room for its stack goes in a circle.             *)
LEMMA Endless ==
  ASSUME IInv, RInv, Overflow
  PROVE  Promise!Hang(Way[1])
<1>1. /\ mode = "render" /\ mode' = "overflow" /\ Len(path) = MaxPaths
      /\ UNCHANGED <<made, templates, errors, answer>>
  BY DEF Overflow, memory, walk
<1>2. Promise!Circular(Way[1])
  BY <1>1, GoesRound DEF RInv
<1>3. Sources' = Sources
  BY <1>1, Kept
<1>4. (mode = "overflow")' = TRUE
  BY <1>1
<1> QED
  BY <1>1, <1>2, <1>3, <1>4 DEF Promise!Hang, Sources, NoTemplate

(* Every step is one of EnvSpec, or none.                                  *)
LEMMA StepKeepsPromise ==
  ASSUME IInv, RInv, [Next]_vars
  PROVE  [Promise!Next]_(Promise!vars)
<1>1. ASSUME mode # "overflow", mode' # "overflow", UNCHANGED <<made, templates, errors, answer>>
      PROVE  UNCHANGED Promise!vars
  BY <1>1, Kept, Steps
<1>2. CASE UNCHANGED vars
  <2>1. Sources' = Sources /\ errors' = errors /\ answer' = answer /\ mode' = mode
    BY <1>2, Kept DEF vars, memory, walk
  <2>2. (mode = "overflow")' = (mode = "overflow")
    BY <2>1
  <2>3. UNCHANGED Promise!vars
    BY Zenon, <2>1, <2>2 DEF Promise!vars, Sources, NoTemplate
  <2> QED
    BY <2>3
<1>3. CASE roscha_init \/ roscha_deinit \/ roscha_env_new
  BY <1>1, <1>3 DEF roscha_init, roscha_deinit, roscha_env_new, memory, walk
<1>4. CASE AddTemplate
  <2>1. PICK n \in Name, t \in Template :
          /\ mode = "idle" /\ mode' = "idle" /\ Attempt(n, t, "host")
          /\ Accept(n, t) \/ Reject(t)
          /\ UNCHANGED answer
    BY <1>4 DEF AddTemplate, Called, Ready, walk
  <2>2. CASE Accept(n, t)
    <3>1. t.errors = << >> /\ Sources' = [Sources EXCEPT ![n] = t] /\ UNCHANGED <<errors, answer>>
      BY <2>1, <2>2, Accepts DEF Accept
    <3>2. Promise!Add(n, t) /\ t \in Promise!Accepted
      BY <2>1, <3>1, Steps DEF Promise!Accepted
    <3> QED
      BY <3>2 DEF Promise!Next
  <2>3. CASE Reject(t)
    <3>1. /\ t.errors # << >> /\ errors' = errors \o Reverse(t.errors)
          /\ Sources' = Sources /\ UNCHANGED answer
      BY <2>1, <2>3, Rejects DEF Reject
    <3>2. Promise!Reject(t)
      BY <2>1, <3>1, Steps
    <3> QED
      BY <3>2 DEF Promise!Next
  <2> QED
    BY <2>1, <2>2, <2>3
<1>5. CASE OpenDir
  BY <1>1, <1>5 DEF OpenDir, Begin, Ready, memory, walk
<1>6. ASSUME NEW m \in {"opendir", "stat"}, errors' = Append(errors, m),
             UNCHANGED <<made, templates, answer>>, mode # "overflow", mode' # "overflow"
      PROVE  Promise!Next
  BY <1>6, Kept, Steps DEF Promise!Next
<1>7. CASE OpenDirFails
  BY <1>6, <1>7 DEF OpenDirFails, Called, Ready, memory, walk
<1>8. CASE LoadStep
  <2>1. ASSUME NEW n \in Name, Omit(n) \/ SkipDir(n) \/ Stat(n)
        PROVE  UNCHANGED Promise!vars
    BY <1>1, <2>1 DEF Omit, SkipDir, Stat, Entry, memory, walk
  <2>2. ASSUME NEW n \in Name, StatFails(n)
        PROVE  Promise!Next
    BY <1>6, <2>2 DEF StatFails, Entry, Return, memory, walk
  <2>3. CASE LoadFile
    <3>1. /\ file \in Name /\ files[file].text \in Template /\ mode = "load" /\ mode' = "load"
          /\ Attempt(file, files[file].text, "env") /\ Accept(file, files[file].text)
          /\ UNCHANGED answer
      BY <2>3, FileRead DEF LoadFile, ReadFile, Reading, walk
    <3>2. PICK n \in Name, t \in Template : n = file /\ t = files[file].text
      BY <3>1
    <3>3. /\ t.errors = << >> /\ Sources' = [Sources EXCEPT ![n] = t]
          /\ UNCHANGED <<errors, answer>>
      BY <3>1, <3>2, Accepts DEF Accept
    <3>4. Promise!Add(n, t) /\ t \in Promise!Accepted
      BY <3>1, <3>3, Steps DEF Promise!Accepted
    <3> QED
      BY <3>4 DEF Promise!Next
  <2>4. CASE FileRejected
    <3>1. /\ file \in Name /\ files[file].text \in Template /\ mode = "load" /\ mode' = "idle"
          /\ Attempt(file, files[file].text, "env") /\ Reject(files[file].text)
          /\ UNCHANGED answer
      BY <2>4, FileRead DEF FileRejected, ReadFile, Reading, Return, walk
    <3>2. PICK n \in Name, t \in Template : n = file /\ t = files[file].text
      BY <3>1
    <3>3. /\ t.errors # << >> /\ errors' = errors \o Reverse(t.errors)
          /\ Sources' = Sources /\ UNCHANGED answer
      BY <3>1, <3>2, Rejects DEF Reject
    <3>4. Promise!Reject(t)
      BY <3>1, <3>3, Steps
    <3> QED
      BY <3>4 DEF Promise!Next
  <2>5. CASE ReadFails \/ LoadDone
    BY <1>1, <2>5 DEF ReadFails, LoadDone, Reading, Return, memory, walk
  <2> QED
    BY <1>8, <2>1, <2>2, <2>3, <2>4, <2>5 DEF LoadStep
<1>9. CASE Crash \/ Change
  BY <1>1, <1>9 DEF Crash, Change, Ready, Reading, memory, walk
<1>10. ASSUME NEW n \in Name, Render(n)
       PROVE  UNCHANGED Promise!vars
  BY <1>1, <1>10 DEF Render, Begin, Ready, memory
<1>11. CASE RenderStep
  <2>1. mode = "render"
    BY <1>11 DEF RenderStep, NotFound, Extend, Answer, Overflow, Lookup
  <2>2. Way[1] \in Name
    BY <2>1, OnPath
  <2>3. CASE Extend
    BY <1>1, <2>1, <2>3 DEF Extend, memory
  <2>4. CASE NotFound
    BY <2>2, <2>4, Missing DEF Promise!Next
  <2>5. CASE Answer
    BY <2>2, <2>5, Answered DEF Promise!Next
  <2>6. CASE Overflow
    BY <2>2, <2>6, Endless DEF Promise!Next
  <2> QED
    BY <1>11, <2>3, <2>4, <2>5, <2>6 DEF RenderStep
<1>12. CASE TakeErrors
  <2>1. Sources' = Sources /\ errors' = << >> /\ UNCHANGED answer /\ mode = "idle" /\ mode' = "idle"
    BY <1>12, Kept DEF TakeErrors, memory, walk
  <2>2. Promise!TakeErrors
    BY <2>1, Steps
  <2> QED
    BY <2>2 DEF Promise!Next
<1>13. CASE roscha_env_destroy
  <2>1. /\ errors' = << >> /\ UNCHANGED answer /\ mode = "idle" /\ mode' = "idle"
        /\ Sources' = [n \in Name |-> NoTemplate]
    BY <1>13 DEF roscha_env_destroy, walk, Sources
  <2>2. Promise!Destroy
    BY <2>1, Steps
  <2> QED
    BY <2>2 DEF Promise!Next
<1> QED
  BY <1>2, <1>3, <1>4, <1>5, <1>7, <1>8, <1>9, <1>10, <1>11, <1>12, <1>13 DEF Next

(* What an environment does is what EnvSpec promises: a map from names to  *)
(* the templates added last, whatever keys, children and errors earlier    *)
(* calls have left; a render that finds what it needs takes the templates  *)
(* from the base to the name's, and one runs out of stack only where       *)
(* templates extend each other in a circle.                                *)
THEOREM EnvironmentKeepsPromise == Spec => ImplementsPromise
<1>1. Init => Promise!Init
  <2> SUFFICES ASSUME Init PROVE Promise!Init
    OBVIOUS
  <2>1. Sources = [n \in Name |-> NoTemplate] /\ ~(mode = "overflow")
    BY DEF Init, Sources
  <2>2. (mode = "overflow") = FALSE
    BY <2>1
  <2> QED
    BY <2>1, <2>2 DEF Init, Promise!Init, Promise!None, Sources, NoTemplate
<1>2. Init => RInv
  BY DEF Init, RInv, OnTheWay, Offspring
<1>3. IInv /\ RInv /\ [Next]_vars => (IInv /\ RInv)'
  BY IInvStep, WayStep
<1>4. IInv /\ RInv /\ [Next]_vars => [Promise!Next]_(Promise!vars)
  BY StepKeepsPromise
<1> QED
  BY <1>1, <1>2, <1>3, <1>4, IInvInit, PTL DEF Spec, ImplementsPromise, Promise!Spec
=============================================================================
