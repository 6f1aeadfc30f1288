------------------------------ MODULE MCRender ------------------------------
(***************************************************************************)
(* A host with a vector V1 = [0, 7], a map M1 = {n: 0, x: 7}, a vector     *)
(* C1 = [0, C1] that holds itself, a vector W1 = [V1] and the variables xs,*)
(* m, x and n; eight free addresses, what two nested loops allocate after  *)
(* an earlier render lost four; and the templates below.                   *)
(***************************************************************************)
EXTENDS RenderRef, TLC

CONSTANTS oVars, V1, W1, C1, M1, I0, I1, f1, f2, f3, f4, f5, f6, f7, f8,
          kLoop, kIndex, kN, kX, kXs, kM,
          page, mid, base, bBody, bFoot

MCObj == {oVars, V1, W1, C1, M1, I0, I1, f1, f2, f3, f4, f5, f6, f7, f8}
MCKey == {kLoop, kIndex, kN, kX, kXs, kM}
MCKeyOrder == <<kIndex, kX, kN, kLoop, kXs, kM>>

Cells(f) == [s \in MCKey \cup (1 .. MaxLen) |-> IF s \in DOMAIN f THEN f[s] ELSE NULL]

MCHeap ==
  [kind |-> [o \in MCObj |-> CASE o \in {oVars, M1} -> "hmap"
                               [] o \in {V1, W1, C1} -> "vector"
                               [] o \in {I0, I1} -> "int"
                               [] OTHER -> "none"],
   rc   |-> [o \in MCObj |-> CASE o \in {oVars, M1, W1} -> 1
                               [] o = I0 -> 4
                               [] o \in {V1, C1, I1} -> 2
                               [] OTHER -> 0],
   cell |-> [o \in MCObj |-> CASE o = oVars -> Cells(kM :> M1 @@ kN :> C1)
                               [] o = M1 -> Cells(kN :> I0 @@ kX :> I1)
                               [] o = V1 -> Cells(1 :> I0 @@ 2 :> I1)
                               [] o = W1 -> Cells(1 :> V1)
                               [] o = C1 -> Cells(1 :> I0 @@ 2 :> C1)
                               [] OTHER -> Cells(<< >>)],
   len  |-> [o \in MCObj |-> CASE o \in {V1, C1} -> 2 [] o = W1 -> 1 [] OTHER -> 0]]

MCHold == [o \in MCObj |-> IF o \in {oVars, V1, W1, I0} THEN 1 ELSE 0]
MCNum == [o \in MCObj |-> IF o = I1 THEN 7 ELSE 0]

(* The map is owned by the variable m alone: unset, it is destroyed.       *)
MCHostVar == {<<kXs, V1>>, <<kXs, I0>>, <<kX, I0>>, <<kM, W1>>}

-----------------------------------------------------------------------------
Id(k)      == [op |-> "id", key |-> k]
Not(k)     == [op |-> "not", key |-> k]
Dot(k, of) == [op |-> "dot", key |-> k, of |-> of]

Say(text)           == [t |-> "content", text |-> text]
Show(e)             == [t |-> "variable", x |-> e]
ForEach(i, seq, bs) == [t |-> "for", item |-> i, seq |-> seq, body |-> bs]
Cond(branches)      == [t |-> "if", branches |-> branches]
Named(name, bs)     == [t |-> "block", name |-> name, body |-> bs]
Parent(name)        == [t |-> "extends", parent |-> name]
BreakTag            == [t |-> "break"]
When(c, bs)         == [cond |-> c, body |-> bs]
Otherwise(bs)       == When(NULL, bs)

(* The blocks of a template by name, nested ones included.                 *)
RECURSIVE NamedIn(_)
NamedIn(bs) ==
  UNION {LET b == bs[i] IN
         CASE b.t = "block" -> {b} \cup NamedIn(b.body)
           [] b.t = "for"   -> NamedIn(b.body)
           [] b.t = "if"    -> UNION {NamedIn(b.branches[j].body) : j \in DOMAIN b.branches}
           [] OTHER -> {}  : i \in DOMAIN bs}

Template(bs) ==
  [blocks |-> bs,
   tblocks |-> [name \in Block |->
     IF \E b \in NamedIn(bs) : b.name = name
     THEN (CHOOSE b \in NamedIn(bs) : b.name = name).body ELSE NULL]]

Only(bs) == [t \in Tmpl |-> IF t = page THEN Template(bs) ELSE NULL]

Extending(p, q, b) ==
  [t \in Tmpl |-> CASE t = page -> Template(p)
                    [] t = mid  -> Template(q)
                    [] t = base -> Template(b)]

ShowX == Show(Id(kX))
Index == Show(Dot(kLoop, kIndex))

-----------------------------------------------------------------------------
(* Loops: over a vector, over a map, over a variable that may be unset or  *)
(* an integer, over the item itself, nested with one name for both items.  *)
Loops ==
  {Only(<<ForEach(kX, Id(kXs), <<Index, ShowX>>), Show(Id(kLoop)), ShowX>>),
   Only(<<ForEach(kX, Id(kM), <<Index, ShowX>>), ShowX>>),
   Only(<<ForEach(kXs, Id(kXs), <<Show(Id(kXs))>>), Show(Id(kXs))>>),
   Only(<<ForEach(kX, Id(kXs), <<ShowX, ForEach(kX, Id(kM), <<Index, ShowX>>), Index, ShowX>>),
          ShowX>>),
   Only(<<ForEach(kX, Id(kXs), <<ForEach(kN, Id(kLoop), <<Say("inner")>>), Index>>)>>)}

(* Loops left early: by a break under a condition, by a break of an inner  *)
(* loop, by an error, by an inner loop whose sequence fails.               *)
Exits ==
  {Only(<<ForEach(kX, Id(kXs), <<Cond(<<When(Id(kX), <<BreakTag, Say("no")>>)>>), Index>>),
          Say("end")>>),
   Only(<<ForEach(kX, Id(kXs),
            <<ForEach(kN, Id(kM), <<Show(Id(kN)), BreakTag>>), Index>>), Say("end")>>),
   Only(<<ForEach(kX, Id(kM), <<Index, Show(Dot(kX, kN)), BreakTag>>), ShowX>>),
   Only(<<ForEach(kX, Id(kXs), <<ForEach(kN, Dot(kX, kN), <<ShowX>>), Index>>), ShowX>>),
   Only(<<ForEach(kX, Id(kXs),
            <<ForEach(kN, Id(kM), <<ForEach(kX, Dot(kX, kN), << >>)>>), Index>>), ShowX>>),
   Only(<<Show(Dot(kM, kN)), Show(Dot(kXs, kN)), Say("end")>>)}

Conditions ==
  {Only(<<Cond(<<When(Id(kX), <<Say("x")>>), When(Not(kXs), <<Say("elif")>>),
                 Otherwise(<<ShowX>>)>>), Say("end")>>),
   Only(<<Cond(<<When(Dot(kM, kX), <<Say("member")>>)>>), Say("end")>>)}

(* Values printed: a boolean, containers in containers, and the container  *)
(* that holds itself, whole and a member at a time.                        *)
Printing ==
  {Only(<<Show(Not(kX)), Say("not"), ShowX>>),
   Only(<<Show(Id(kM)), Say("m"), Show(Id(kN))>>),
   Only(<<ForEach(kX, Id(kN), <<ShowX, Index>>)>>)}

(* Inheritance over three levels, entered at any of them; a block that     *)
(* only the middle one overrides; a break in an overriding block, inside a *)
(* loop of the base; a parent that is not there; an empty template; an     *)
(* extends tag that comes too late.                                        *)
Base == <<ForEach(kX, Id(kXs), <<Named(bBody, <<ShowX>>)>>), Named(bFoot, <<Say("foot")>>)>>

Inheritance ==
  {Extending(<<Parent(mid), Named(bBody, <<Index>>)>>,
             <<Parent(base), Named(bFoot, <<Say("mid"), Named(bBody, <<ShowX>>)>>)>>,
             Base),
   Extending(<<Parent(base), Named(bFoot, <<ShowX>>)>>,
             <<Parent(base), Named(bBody, <<Say("mid"), BreakTag, Say("no")>>)>>,
             Base),
   [t \in Tmpl |-> CASE t = page -> Template(<<Parent(mid)>>)
                     [] t = mid  -> Template(<<Parent(base)>>)
                     [] t = base -> NULL],
   [t \in Tmpl |-> CASE t = page -> Template(<<Parent(base)>>)
                     [] t = mid  -> Template(<<Say("late"), Parent(base), Say("no")>>)
                     [] t = base -> Template(<< >>)]}

(* Loops whose bodies append nothing, left by breaks of their own and of   *)
(* an overriding block, nested on one item.                                *)
Silent(c) == <<Cond(<<When(c, <<BreakTag>>)>>)>>

SilentProjects ==
  {Only(<<ForEach(kX, Id(kXs), Silent(Not(kX))), ForEach(kX, Id(kM), Silent(Id(kX)))>>),
   Only(<<ForEach(kX, Id(kXs), <<ForEach(kX, Id(kXs), << >>), ForEach(kN, Id(kM), <<BreakTag>>)>>)>>),
   Extending(<<Parent(mid), Named(bBody, <<BreakTag>>)>>,
             <<Parent(base)>>,
             <<ForEach(kX, Id(kXs), <<Named(bBody, << >>)>>)>>)}

(* Templates on which the code parts from its documentation.               *)
LoopAsItem ==
  {Only(<<ForEach(kX, Id(kXs), <<ForEach(kLoop, Id(kXs), <<Show(Id(kLoop))>>), Index>>)>>)}

(* Blocks in their own bodies: one alone, and one through an override and  *)
(* a loop.                                                                 *)
Circles ==
  LET inner == Named(bBody, << >>)
      twice == <<Named(bBody, <<inner>>)>>
      other == <<Named(bBody, <<ForEach(kX, Id(kM), <<Named(bFoot, <<inner>>)>>)>>)>>
      With(bs, body, foot) == [blocks |-> bs, tblocks |-> (bBody :> body) @@ (bFoot :> foot)]
  IN  {[t \in Tmpl |-> IF t = page THEN With(twice, <<inner>>, NULL) ELSE NULL],
       [t \in Tmpl |->
          CASE t = page -> With(<<Parent(base)>> \o other, other[1].body, <<inner>>)
            [] t = mid  -> NULL
            [] t = base -> Template(Base)]}

MCProjects ==
  Loops \cup Exits \cup Conditions \cup Printing \cup Inheritance \cup SilentProjects \cup Circles

(* The blocks of a body and of the bodies in it, and those of projects.    *)
RECURSIVE Parts(_)
Parts(bs) ==
  UNION {LET b == bs[i] IN
         {b} \cup CASE b.t \in {"block", "for"} -> Parts(b.body)
                   [] b.t = "if" -> UNION {Parts(b.branches[j].body) : j \in DOMAIN b.branches}
                   [] OTHER -> {}  : i \in DOMAIN bs}

PartsOf(projects) ==
  UNION {UNION {IF p[t] = NULL THEN {}
                ELSE Parts(p[t].blocks)
                       \cup UNION {IF p[t].tblocks[n] = NULL THEN {}
                                   ELSE Parts(p[t].tblocks[n]) : n \in Block} :
                t \in Tmpl} : p \in projects}

MCPieces == PartsOf(MCProjects)

(* What is evaluated outside of the loops of a project, from the first     *)
(* blocks on: the templates above have no break there.                     *)
RECURSIVE Reach(_, _)
Reach(p, ps) ==
  LET bodies == {b.body : b \in {c \in ps : c.t = "block"}}
        \cup UNION {{b.branches[j].body : j \in DOMAIN b.branches} : b \in {c \in ps : c.t = "if"}}
        \cup {p[t].tblocks[b.name] : t \in {u \in Tmpl : p[u] # NULL},
                                     b \in {c \in ps : c.t = "block"}}
      more == ps \cup UNION {{bs[i] : i \in DOMAIN bs} : bs \in bodies \ {NULL}}
  IN  IF more = ps THEN ps ELSE Reach(p, more)

Reached(p) ==
  Reach(p, UNION {IF p[t] = NULL THEN {}
                  ELSE LET bs == p[t].blocks IN
                       IF bs # << >> /\ bs[1].t = "extends" THEN {}
                       ELSE {bs[i] : i \in DOMAIN bs} : t \in Tmpl})

ASSUME \A p \in MCProjects : Outside(p, Reached(p))

ItemPieces == PartsOf(LoopAsItem)
=============================================================================
